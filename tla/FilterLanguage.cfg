\* Texts of up to three conditions and letters out of place.
CONSTANTS
  Letter <- MCLetter
  Spaces = {" "}
  Singles <- MCSingles
  Symbols <- MCSymbols
  Quotes <- MCQuotes
  Bytes <- MCBytes
  Conditions <- MCConditions
  Scribbles <- MCScribbles
  Companions <- MCCompanions
  MaxPieces = 3
  MaxDepth = 1
SPECIFICATION Spec
INVARIANT ReadsAsWritten
INVARIANT CanonicalReadsBack
INVARIANT JoinedMeansAll
\* Typing ends at the bounds.
CHECK_DEADLOCK FALSE

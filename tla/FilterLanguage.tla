--------------------------- MODULE FilterLanguage ---------------------------
(***************************************************************************)
(* The language of person filters (internal/filter): how a text becomes    *)
(* tokens and tokens a clause, and how the texts of groups and of a query  *)
(* are joined into one before they are read.  FilterPrinting turns clauses *)
(* into text again.                                                        *)
(*                                                                         *)
(* A text is a sequence of letters.  A word that the parser knows (and,    *)
(* or, is, not, null) is one letter: glued to others it is not that word.  *)
(* Case is left out: words are compared in lower case.  The state is a     *)
(* text that somebody types, with what they mean by it as long as they     *)
(* keep to the grammar.                                                    *)
(***************************************************************************)
EXTENDS SequencesExt, Integers

CONSTANTS Letter,      \* letters, spaces, punctuation, and words
          Spaces, Singles, Symbols, Quotes, \* classes of letters
          Bytes,       \* Bytes[c]: what the bytes of c are, taken for characters one by one
          Conditions,  \* what may be typed for one condition: [text, clause]
          Scribbles,   \* what may be typed besides
          Companions,  \* filters that the typed one is joined with
          MaxPieces,   \* bound: conditions and scribbles in a text
          MaxDepth     \* bound: open parentheses

Words == {"and", "or", "is", "not", "null"}
Operations == {<<"=">>, <<"!", "=">>, <<">">>, <<">", "=">>, <<"<">>, <<"<", "=">>, <<"~">>, <<"!", "~">>}
None == "none"

\* A word, a space or punctuation is its own only byte, and is what it is for one reason.
ASSUME LanguageAssumption ==
  /\ Words \cup Spaces \cup Singles \cup Symbols \cup Quotes \cup {"\\"} \subseteq Letter
  /\ {"(", ")", ","} \subseteq Singles /\ "'" \in Quotes /\ " " \in Spaces /\ None \notin Quotes
  /\ LET classes == <<Words, Spaces, Singles, Symbols, Quotes>>
     IN \A i, j \in 1..5 : i # j => classes[i] \cap classes[j] = {}
  /\ DOMAIN Bytes = Letter /\ \A c \in Letter : Bytes[c] \in Seq(Letter) /\ Bytes[c] # <<>>
  /\ \A c \in Words \cup Spaces \cup Singles \cup Symbols \cup Quotes : Bytes[c] = <<c>>
  /\ {"=", "!", ">", "<", "~"} \cap Letter \subseteq Symbols
  /\ Scribbles \subseteq Letter /\ Companions \subseteq Seq(Letter)
  /\ {MaxPieces, MaxDepth} \subseteq Nat

VARIABLES text,     \* what has been typed
          stack,    \* what it means: for each open parenthesis the AND groups so far
          operand,  \* TRUE when a condition or a parenthesis has to come next
          pieces,   \* conditions and scribbles typed
          scribbled \* TRUE when a letter was typed out of place: nothing is meant

vars == <<text, stack, operand, pieces, scribbled>>
-----------------------------------------------------------------------------
(* Tokenize. *)

Token(v, q, s) == [value |-> v, quote |-> q, symbol |-> s]
Tokens == [value : Seq(Letter), quote : Quotes \cup {None}, symbol : BOOLEAN]
Bare(t, w) == t.quote = None /\ t.value = w

\* The tokens so far, the token that is open if any, and whether reading failed.
Reading(ts, cur, bad) == [tokens |-> ts, current |-> cur, failed |-> bad]
Closed(s) == s.tokens \o s.current
Opened(s, t) == Reading(Closed(s), <<t>>, FALSE)
Extended(s, c) ==
  LET t == s.current[1] IN Reading(s.tokens, <<Token(Append(t.value, c), t.quote, t.symbol)>>, FALSE)

ReadLetter(s, c) ==
  LET open == s.current # <<>>
      quoted == open /\ s.current[1].quote # None
      symbol == open /\ s.current[1].symbol
  IN IF s.failed THEN s
     ELSE CASE quoted /\ c = s.current[1].quote -> Reading(Closed(s), <<>>, FALSE)
            [] quoted /\ c # s.current[1].quote -> Extended(s, c)
            [] ~quoted /\ c \in Spaces -> Reading(Closed(s), <<>>, FALSE)
            [] ~quoted /\ c \in Singles -> Reading(Append(Closed(s), Token(<<c>>, None, FALSE)), <<>>, FALSE)
            [] ~quoted /\ c \in Symbols -> IF symbol THEN Extended(s, c) ELSE Opened(s, Token(<<c>>, None, TRUE))
            [] ~quoted /\ c \in Quotes -> Reading(s.tokens, <<Token(<<>>, c, FALSE)>>, open)
            [] OTHER -> IF open /\ ~symbol THEN Extended(s, c) ELSE Opened(s, Token(<<c>>, None, FALSE))

Read(line) ==
  LET read[i \in 0..Len(line)] ==
        IF i = 0 THEN Reading(<<>>, <<>>, FALSE) ELSE ReadLetter(read[i - 1], line[i])
  IN read[Len(line)]

\* The text is read byte by byte, with a line end after it.
BytesOf(txt) == FlattenSeq([i \in DOMAIN txt |-> Bytes[txt[i]]])
Tokenize(txt) ==
  LET s == Read(Append(BytesOf(txt), " ")) IN Reading(s.tokens, <<>>, s.failed \/ s.current # <<>>)
-----------------------------------------------------------------------------
(* ParseTokens, with the position after the tokens that were taken. *)

Condition(n, op, vs) == [kind |-> "condition", name |-> n, op |-> op, values |-> vs]
IsNull(n) == [kind |-> "null", name |-> n]
IsNotNull(n) == [kind |-> "not_null", name |-> n]
Group(k, cs) == [kind |-> k, clauses |-> cs]
Failed == [kind |-> "error"]
Panicked == [kind |-> "panic"]  \* index out of range
Outcomes == {"error", "panic"}

\* How many more parentheses open than close in the first n tokens.
Level(ts, n) ==
  Cardinality({i \in 1..n : Bare(ts[i], <<"(">>)}) - Cardinality({i \in 1..n : Bare(ts[i], <<")">>)})

\* readParentheticalGroup: where the parenthesis at p closes, 0 if nowhere.
ClosesFirst(ts, p) ==
  LET ends == {n \in p + 1 .. Len(ts) : Bare(ts[n], <<")">>)}
  IN IF ends = {} THEN 0 ELSE Min(ends)
Closes(ts, p) ==
  LET level == Level(ts, p)
      ends == {n \in p + 1 .. Len(ts) : Bare(ts[n], <<")">>) /\ Level(ts, n) = level - 1}
  IN IF ends = {} THEN 0 ELSE Min(ends)

\* The tokens between parentheses as values: one, a comma, one, and so on.
ListOf(ts) ==
  IF \A i \in DOMAIN ts : Bare(ts[i], <<",">>) <=> i % 2 = 0
  THEN [ok |-> TRUE, values |-> [i \in 1..(Len(ts) + 1) \div 2 |-> ts[2 * i - 1].value]]
  ELSE [ok |-> FALSE, values |-> <<>>]

\* A clause and the position after it.
Took(p, c) == [clause |-> c, at |-> p]

\* The condition after position p: a field, an operation, and what that needs.
\* A quoted word is as good as a bare one after IS.
ParseCondition(ts, p) ==
  LET name == ts[p + 1].value
      op == ts[p + 2].value
      is == Bare(ts[p + 2], <<"is">>)
      compares == ts[p + 2].quote = None /\ op \in Operations
      value == ts[p + 3]
      close == Closes(ts, p + 3)
      list == ListOf(SubSeq(ts, p + 4, close - 1))
  IN IF Len(ts) < p + 3 \/ ~(is \/ compares) THEN Took(p, Failed)
     ELSE CASE is /\ value.value = <<"null">> -> Took(p + 3, IsNull(name))
            [] is /\ value.value = <<"not">> ->
                 IF Len(ts) >= p + 4 /\ ts[p + 4].value = <<"null">>
                 THEN Took(p + 4, IsNotNull(name)) ELSE Took(p, Failed)
            [] compares /\ ~Bare(value, <<"(">>) -> Took(p + 3, Condition(name, op, <<value.value>>))
            [] compares /\ Bare(value, <<"(">>) /\ close > 0 /\ list.ok ->
                 Took(close, Condition(name, op, list.values))
            [] OTHER -> Took(p, Failed)

\* A group in parentheses, which inner reads, or a condition.
ParseOperand(ts, p, inner) ==
  LET close == Closes(ts, p + 1)
  IN CASE ~Bare(ts[p + 1], <<"(">>) -> ParseCondition(ts, p)
       [] Bare(ts[p + 1], <<"(">>) /\ close = 0 -> Took(p, Failed)
       [] Bare(ts[p + 1], <<"(">>) /\ close > 0 -> Took(close, inner[SubSeq(ts, p + 2, close - 1)])

\* The state of the loop: tokens taken, AND groups finished and the open one, how it ended.
Loop(p, ors, ands, end) == [at |-> p, ors |-> ors, ands |-> ands, end |-> end]
CloseAnd(ors, ands) == IF ands = <<>> THEN ors ELSE Append(ors, Group("and", ands))

\* One turn of the loop of ParseTokens.
Turn(ts, s, inner) ==
  LET word(w) == Bare(ts[s.at + 1], <<w>>)
      stopped(e) == [s EXCEPT !.end = e]
      took(o) == IF o.clause.kind \in Outcomes THEN stopped(o.clause.kind)
                 ELSE Loop(o.at, s.ors, Append(s.ands, o.clause), None)
      done == CloseAnd(s.ors, s.ands)
  IN CASE word(")") -> stopped("error")
       [] word("or") -> IF done = <<>> THEN stopped("error") ELSE Loop(s.at + 1, done, <<>>, None)
       [] word("and") /\ s.ands = <<>> -> stopped("error")
       [] word("and") /\ s.ands # <<>> ->
            IF s.at + 1 = Len(ts) THEN stopped("panic") ELSE took(ParseOperand(ts, s.at + 1, inner))
       [] OTHER -> IF s.ands # <<>> THEN stopped("error") ELSE took(ParseOperand(ts, s.at, inner))

\* The loop turns until the tokens are taken or there is an error.  Every turn but
\* the last ends at a token outside parentheses.
Ended(ts, s) == s.at = Len(ts) \/ s.end # None
Outside(ts) == {p \in DOMAIN ts : Level(ts, p) <= 0}
Looped(ts, inner) ==
  LET turns == Cardinality(Outside(ts)) + 1
      turn[k \in 0..turns] ==
        IF k = 0 THEN Loop(0, <<>>, <<>>, None)
        ELSE LET s == turn[k - 1] IN IF Ended(ts, s) THEN s ELSE Turn(ts, s, inner)
  IN turn[turns]

\* An OR of one is that one.
Or(cs) == IF Len(cs) = 1 THEN cs[1] ELSE Group("or", cs)
Result(s) == IF s.end # None THEN [kind |-> s.end] ELSE Or(CloseAnd(s.ors, s.ands))

\* ParseTokens calls itself for a group in parentheses, which is shorter.
ParseNested[n \in Nat] ==
  [ts \in Seq(Tokens) |-> Result(Looped(ts, IF n = 0 THEN <<>> ELSE ParseNested[n - 1]))]
ParseTokens(ts) == ParseNested[Len(ts)][ts]

Parse(txt) == LET s == Tokenize(txt) IN IF s.failed THEN Failed ELSE ParseTokens(s.tokens)
Accepted(txt) == Parse(txt).kind \notin Outcomes
-----------------------------------------------------------------------------
(* buildPersonQuery joins filters as texts. *)

Join(parts, sep) == FlattenSeq([i \in DOMAIN parts |-> IF i = 1 THEN parts[1] ELSE sep \o parts[i]])

ConjunctionBare(fs) == <<"(">> \o Join(fs, <<" ", "and", " ">>) \o <<")">>
Enclosed(fs, w) == <<"(", "(">> \o Join(fs, <<")", " ", w, " ", "(">>) \o <<")", ")">>
Conjunction(fs) == Enclosed(fs, "and")
Disjunction(hs) == Enclosed(hs, "or")
-----------------------------------------------------------------------------
Init == text = <<>> /\ stack = << <<>> >> /\ operand = TRUE /\ pieces = 0 /\ scribbled = FALSE

\* What is typed next is set apart by a space.
Type(txt) == text' = IF text = <<>> THEN txt ELSE text \o <<" ">> \o txt

\* An open group gets clause c in its last AND group; st is the groups above it and itself.
With(ors, c) == IF ors = <<>> THEN << <<c>> >> ELSE Append(Front(ors), Append(Last(ors), c))
Onto(st, c) == Append(Front(st), With(Last(st), c))
Meant(ors) == Or([i \in DOMAIN ors |-> Group("and", ors[i])])

TypeCondition(c) ==
  /\ operand /\ pieces < MaxPieces
  /\ Type(c.text) /\ operand' = FALSE /\ pieces' = pieces + 1
  /\ stack' = Onto(stack, c.clause)
  /\ UNCHANGED scribbled
TypeAnd ==
  /\ ~operand /\ pieces < MaxPieces /\ Type(<<"and">>) /\ operand' = TRUE
  /\ UNCHANGED <<stack, pieces, scribbled>>
TypeOr ==
  /\ ~operand /\ pieces < MaxPieces /\ Type(<<"or">>) /\ operand' = TRUE
  /\ stack' = Append(Front(stack), Append(Last(stack), <<>>))
  /\ UNCHANGED <<pieces, scribbled>>
TypeOpen ==
  /\ operand /\ pieces < MaxPieces /\ Len(stack) <= MaxDepth
  /\ Type(<<"(">>) /\ stack' = Append(stack, <<>>)
  /\ UNCHANGED <<operand, pieces, scribbled>>
TypeClose ==
  /\ ~operand /\ Len(stack) > 1 /\ Type(<<")">>)
  /\ stack' = Onto(Front(stack), Meant(Last(stack)))
  /\ UNCHANGED <<operand, pieces, scribbled>>
\* A letter out of place, without a space before it.
Scribble(c) ==
  /\ pieces < MaxPieces /\ text' = Append(text, c)
  /\ pieces' = pieces + 1 /\ scribbled' = TRUE
  /\ UNCHANGED <<stack, operand>>

Next ==
  \/ \E c \in Conditions : TypeCondition(c)
  \/ TypeAnd \/ TypeOr \/ TypeOpen \/ TypeClose
  \/ \E c \in Scribbles : Scribble(c)
Spec == Init /\ [][Next]_vars
-----------------------------------------------------------------------------
\* No ")" without a "(" before it, even where one stands for a field or a value:
\* "a = )" is accepted but does not stand alone.
Paired(ts) == \A n \in DOMAIN ts : Level(ts, n) >= 0
SelfContained(txt) == Accepted(txt) /\ Paired(Tokenize(txt).tokens)

\* Each condition that may be typed is read as the clause that it is meant for.
ASSUME ConditionsAssumption ==
  \A c \in Conditions :
    LET s == Tokenize(c.text)
    IN /\ c.text \in Seq(Letter) /\ ~s.failed /\ Paired(s.tokens)
       /\ \A w \in {"(", ")", "and", "or"} : ~Bare(s.tokens[1], <<w>>)
       /\ ParseCondition(s.tokens, 0) = Took(Len(s.tokens), c.clause) /\ c.clause.kind \notin Outcomes

\* A text that keeps to the grammar is never refused and means what it says: AND
\* binds tighter than OR, parentheses group, quotes protect what is in them, and
\* the one pass with its open AND group gets the groups right at any depth.
ReadsAsWritten ==
  ~scribbled /\ Len(stack) = 1 /\ ~operand => Parse(text) = Meant(stack[1])

\* How filters with clauses cs are read when they are joined.
AllOf(cs) == Group("and", <<Group("and", cs)>>)
AnyOf(cs) == Group("and", <<Or([i \in DOMAIN cs |-> Group("and", <<cs[i]>>)])>>)

\* Texts that stand alone, accepted and without a ")" too many, are accepted as the
\* text they are joined into, which asks for all of them on one path or on another:
\* no AND, OR or parenthesis of one reaches into its neighbour.  Of the other texts
\* buildPersonQuery refuses some and lets some reach out, and no handler of a list or
\* a count checks its query.
JoinedMeansAll ==
  SelfContained(text) => \A g \in Companions : SelfContained(g) =>
    Parse(Disjunction(<<Conjunction(<<g, text>>), Conjunction(<<text>>)>>)) =
      AnyOf(<<AllOf(<<Parse(g), Parse(text)>>), AllOf(<<Parse(text)>>)>>)
=============================================================================

--------------------------- MODULE FilterPrinting ---------------------------
(***************************************************************************)
(* The canonical form of a clause (the String methods of internal/filter), *)
(* printed and read again.                                                 *)
(***************************************************************************)
EXTENDS FilterLanguage

\* Quotes come around a text with punctuation in it; nothing else asks for them.
QuoteSpacesOnly(v) ==
  IF \A i \in DOMAIN v : v[i] \notin Spaces THEN v ELSE <<"'">> \o v \o <<"'">>
QuoteIfNecessary(v) ==
  IF \A i \in DOMAIN v : v[i] \notin Spaces \cup Singles \cup Symbols THEN v
  ELSE <<"'">> \o FlattenSeq([i \in DOMAIN v |-> IF v[i] = "'" THEN <<"\\", "'">> ELSE <<v[i]>>]) \o <<"'">>

\* Conditions and null tests, and how they are printed.
Simple ==
  [kind : {"null", "not_null"}, name : Seq(Letter)] \cup
  [kind : {"condition"}, name : Seq(Letter), op : Operations \cap Seq(Letter), values : Seq(Seq(Letter))]
SimpleString(c) ==
  CASE c.kind = "null" -> QuoteIfNecessary(c.name) \o <<" ", "is", " ", "null">>
    [] c.kind = "not_null" -> QuoteIfNecessary(c.name) \o <<" ", "is", " ", "not", " ", "null">>
    [] c.kind = "condition" ->
         LET vs == [i \in DOMAIN c.values |-> QuoteIfNecessary(c.values[i])] IN
         QuoteIfNecessary(c.name) \o <<" ">> \o c.op \o <<" ">> \o
           (IF Len(vs) = 1 THEN vs[1] ELSE <<"(">> \o Join(vs, <<",", " ">>) \o <<")">>)

\* A group of one is printed as that one.
GroupString(k, parts) ==
  LET joined == Join(parts, <<" ", k, " ">>)
  IN IF Len(parts) <= 1 THEN joined ELSE <<"(">> \o joined \o <<")">>
-----------------------------------------------------------------------------
\* Strings that QuoteIfNecessary and Tokenize agree on: not empty, without quotes
\* and backslashes, of one byte per character; a field is not called AND or OR.
PlainText(v) ==
  v # <<>> /\ \A i \in DOMAIN v : v[i] \notin Quotes \cup {"\\"} /\ Bytes[v[i]] = <<v[i]>>
PlainName(v) == PlainText(v) /\ v \notin {<<"and">>, <<"or">>}
PlainClause(c) ==
  PlainName(c.name) /\ (c.kind = "condition" => \A i \in DOMAIN c.values : PlainText(c.values[i]))

\* What String makes of a clause, the clause up to groups of one (which neither
\* String nor a query shows), and whether all its strings are plain and no group is empty.
Form(s, c, r) == [string |-> s, normal |-> c, readable |-> r]
SimpleForm(c) == Form(SimpleString(c), c, PlainClause(c))
GroupForm(k, fs) ==
  Form(GroupString(k, [i \in DOMAIN fs |-> fs[i].string]),
       IF Len(fs) = 1 THEN fs[1].normal ELSE Group(k, [i \in DOMAIN fs |-> fs[i].normal]),
       fs # <<>> /\ \A i \in DOMAIN fs : fs[i].readable)

\* The forms of clauses with up to n levels of groups (and of groups of nothing).
Forms[n \in Nat] ==
  LET inner == IF n = 0 THEN <<>> ELSE Forms[n - 1]
  IN [c \in Simple \cup [kind : {"and", "or"}, clauses : Seq(DOMAIN inner)] |->
        IF c \in Simple THEN SimpleForm(c)
        ELSE GroupForm(c.kind, [i \in DOMAIN c.clauses |-> inner[c.clauses[i]]])]

\* A group of groups for each parenthesis, and one for the whole.
Levels(txt) == 2 * Len(Tokenize(txt).tokens) + 2
FormOf(txt) == Forms[Levels(txt)][Parse(txt)]

\* "String returns the canonical form of the clause": the canonical form of
\* whatever was accepted, scribbles and all, is accepted, means the same, and is
\* its own canonical form.
CanonicalReadsBack ==
  Accepted(text) /\ FormOf(text).readable =>
    LET printed == FormOf(text).string IN
    /\ Accepted(printed)
    /\ FormOf(printed).normal = FormOf(text).normal
    /\ FormOf(printed).string = printed
=============================================================================

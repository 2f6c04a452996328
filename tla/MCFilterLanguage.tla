-------------------------- MODULE MCFilterLanguage --------------------------
(***************************************************************************)
(* A small alphabet for FilterPrinting, with a letter of two bytes, and    *)
(* conditions of every form with the clause each of them means.            *)
(***************************************************************************)
EXTENDS FilterPrinting

MCSingles == {"(", ")", ","}
MCSymbols == {"=", "!", "*"}
MCQuotes == {"'", "\""}
MCLetter == Words \cup MCSingles \cup MCSymbols \cup MCQuotes \cup {" ", "\\", "a", "b", "é", "Ã", "Â", "©"}
MCBytes == [c \in MCLetter |-> CASE c = "é" -> <<"Ã", "©">> [] c = "Ã" -> <<"Ã", "Â">> [] OTHER -> <<c>>]

\* a=b, unspaced; ' a' != "and"; b = ("(a",and); "or" is not null
MCConditions ==
  {[text |-> <<"a", "=", "b">>, clause |-> Condition(<<"a">>, <<"=">>, <<<<"b">>>>)],
   [text |-> <<"'", " ", "a", "'", " ", "!", "=", " ", "\"", "and", "\"">>,
    clause |-> Condition(<<" ", "a">>, <<"!", "=">>, <<<<"and">>>>)],
   [text |-> <<"b", " ", "=", "(", "\"", "(", "a", "\"", ",", " ", "and", ")">>,
    clause |-> Condition(<<"b">>, <<"=">>, <<<<"(", "a">>, <<"and">>>>)],
   [text |-> <<"\"", "or", "\"", " ", "is", " ", "not", " ", "null">>, clause |-> IsNotNull(<<"or">>)]}

\* Two alternatives, one of them with a quoted parenthesis; and a space.
MCCompanions ==
  {<<"a", "=", " ", "'", ")", "'", " ", "or", " ", "b", " ", "is", " ", "null">>, <<" ">>}
MCScribbles == {"é", " ", "=", "and", "or", "'", "(", ")", ","}
=============================================================================

----------------------------- MODULE MCTokenizer ------------------------------
EXTENDS Tokenizer

MCKeywords == << <<"d", "o">>, <<".", ".", ".">> >>

\* Up to n pieces one after the other.
Pieces(pieces, n) == {FlattenSeq(seq) : seq \in UNION {[1..m -> pieces] : m \in 0..n}}

Chars(chars) == {<<c>> : c \in chars}

Lines(bodies) == {body \o <<EOL>> : body \in bodies}

\* An operand, operators behind it, one between and before the next one.
Posts == {<< >>, <<"+", "+">>, <<"-", "-">>}
Pres == Posts \union {<<"-">>, <<"!">>, <<"~">>, <<"*">>, <<"&">>, <<"+">>}
Betweens == ToSet(Operators) \ {Head(Operators), <<"!">>, <<"~">>, <<"?">>, <<"+", "+">>, <<"-", "-">>}

Expressions ==
  {<<"d">> \o post \o op \o pre1 \o pre2 \o <<"o">> :
     post \in Posts, op \in Betweens, pre1 \in Pres, pre2 \in Pres}

Words == Pieces(Chars({"d", "o", "1", "_", Blank}), 5)

Quoted == Pieces(Chars({Quote, Apostrophe, Backslash, "d"}) \union
                 {<<"/", "/">>, <<"/", "*">>, <<"*", "/">>, <<EOL>>}, 5)

Numbers == Pieces(Chars({"1", ".", "d", Blank, EOL}), 5)

Directives == Pieces({<<"#">>, <<"d">>, <<EOL>>, <<"/", "/">>, <<Quote, "/", "/", Quote>>,
                      <<"#", ".", ".", ".">>}, 4)

MCTexts == Lines(Expressions \union Words \union Quoted \union Numbers \union Directives)

=============================================================================

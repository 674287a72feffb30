----------------------------- MODULE MCPreprocessor -----------------------------
(***************************************************************************)
(* All main files of up to MaxLines lines from a small set, with a header  *)
(* that is plain, has an include guard or a #pragma once, or includes the  *)
(* other header, also in front of a definition.                            *)
(***************************************************************************)
EXTENDS PreprocessorMeaning

CONSTANT MaxLines  \* bound: lines of the main file

X == <<"ident", "X">>
Y == <<"ident", "Y">>
One == <<"lit", "1">>

\* The value of two tokens is longer than the place of a first line.
Plain == {<<"define", "X", <<One>>>>, <<"define", "X", <<One, One>>>>,
          <<"define", "Y", <<X>>>>, <<"undef", "X">>,
          <<"ifdef", "X">>, <<"ifndef", "Y">>, <<"endif">>, <<"include", "h">>, X, Y}

Headers(h) == [n \in {"h", "k"} |-> IF n = "h" THEN h ELSE <<<<"once">>, <<"lit", "k">>, X>>]

MCHeaderSets ==
  { Headers(<<X, <<"define", "Z", << >>>>>>),
    Headers(<<<<"ifndef", "Z">>, <<"define", "Z", << >>>>, <<"define", "X", <<One>>>>, Y,
              <<"include", "h">>, <<"endif">>>>),
    Headers(<<<<"once">>, Y, <<"include", "h">>, <<"define", "Y", <<<<"lit", "2">>>>>>>>),
    Headers(<<<<"include", "k">>, <<"undef", "X">>, <<"include", "k">>, Y>>),
    Headers(<<Y, <<"include", "k">>, <<"define", "Z", <<One>>>>, X>>) }

MCMainFiles == UNION {[1..n -> Plain] : n \in 0..MaxLines}

================================================================================

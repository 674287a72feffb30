------------------------------ MODULE Tokenizer ------------------------------
(***************************************************************************)
(* tokenize: the text goes through one pass for each kind of token.  A     *)
(* pass puts the tokens it finds at their places in a vector with an entry *)
(* for each character and blanks their characters in the text, so that     *)
(* later passes do not see them; at the end the empty entries are removed. *)
(* That the tokens are those of C depends on the order of the passes and   *)
(* on how each of them finds where a token begins and ends.                *)
(*                                                                         *)
(* Abstracted: the vector of lines is one sequence in which EOL ends each  *)
(* line (no token is ever put there); lines are stripped; the text of a    *)
(* directive or a comment and debug annotations are left out, and so is    *)
(* the EOF token behind the last one.                                      *)
(***************************************************************************)
EXTENDS Integers, Sequences, SequencesExt, FiniteSetsExt

CONSTANTS
  Letters,    \* the letters in use
  Digits,     \* the digits in use
  Keywords,   \* the keywords in use, in the order of tokenize_keywords
  Texts       \* the texts to be tokenized

Blank == " "
EOL == "\n"
Quote == "\""
Apostrophe == "'"
Backslash == "\\"

ASSUME TokenizerAssumption ==
  /\ Letters \intersect Digits = {}
  /\ \A text \in Texts : text # << >> /\ Last(text) = EOL

Alnum == Letters \union Digits
WordChars == Alnum \union {"_"}

\* tokenize_ops, in its order.
Operators == <<
  <<"s", "i", "z", "e", "o", "f">>,
  <<"-", ">">>, <<"+", "=">>, <<"-", "=">>, <<"*", "=">>, <<"/", "=">>, <<"%", "=">>,
  <<"<", "<", "=">>, <<">", ">", "=">>, <<"&", "=">>, <<"|", "=">>, <<"^", "=">>,
  <<"|", "|">>, <<"&", "&">>, <<"=", "=">>, <<"!", "=">>, <<">", "=">>, <<"<", "=">>,
  <<">", ">">>, <<"<", "<">>, <<"+", "+">>, <<"-", "-">>,
  <<"=">>, <<"+">>, <<"-">>, <<"*">>, <<"/">>, <<"%">>, <<">">>, <<"<">>, <<"!">>,
  <<"|">>, <<"&">>, <<"~">>, <<"^">>, <<"?">> >>

Delims == {"{", "}", "(", ")", "[", "]", ".", ",", ";", ":"}

Kinds == {"none", "comment", "directive", "string", "char", "keyword", "op", "ident",
          "int", "float", "delim"}

Token(kind, str) == [kind |-> kind, str |-> str]
None == Token("none", << >>)

VARIABLES
  source,   \* the text given to tokenize
  text,     \* what the passes have left of it
  tokens,   \* the token at each place
  pass      \* the pass to come, or "done"

vars == <<source, text, tokens, pass>>

-----------------------------------------------------------------------------
(* Finding things in the text *)

CharAt(str, i) == IF i \in DOMAIN str THEN str[i] ELSE EOL

At(i) == CharAt(text, i)

EndOfLine(i) == Min({j \in i..Len(text) : text[j] = EOL})

BlankedMutant(str, places) == [i \in DOMAIN str |-> IF i \in places THEN Blank ELSE str[i]]

\* str_fill
Blanked(str, places) ==
  [i \in DOMAIN str |-> IF i \in places /\ str[i] # EOL THEN Blank ELSE str[i]]

\* tokenize_comments: where comments begin and end, and whether the end was found.
RECURSIVE CommentsFrom(_, _)

CommentsFrom(i, inString) ==
  LET ends == {j \in (i + 2)..Len(text) : At(j) = "*" /\ At(j + 1) = "/"}
  IN IF i > Len(text) THEN {}
     ELSE IF At(i) = Quote /\ At(i - 1) # Backslash
     THEN CommentsFrom(i + 1, ~inString)
     ELSE IF ~inString /\ At(i) = "/" /\ At(i + 1) = "*"
     THEN IF ends = {} THEN {[from |-> i, to |-> Len(text), closed |-> FALSE]}
          ELSE {[from |-> i, to |-> Min(ends) + 1, closed |-> TRUE]}
               \union CommentsFrom(Min(ends) + 2, inString)
     ELSE IF ~inString /\ At(i) = "/" /\ At(i + 1) = "/"
     THEN {[from |-> i, to |-> EndOfLine(i) - 1, closed |-> TRUE]}
          \union CommentsFrom(EndOfLine(i), inString)
     ELSE CommentsFrom(i + 1, inString)

\* The place of the quote that ends a literal; a text without one is not C.
RECURSIVE Closing(_, _, _)

Closing(i, quote, escaped) ==
  IF i > Len(text) \/ (At(i) = quote /\ ~escaped) THEN i
  ELSE Closing(i + 1, quote, At(i) = Backslash /\ ~escaped)

RECURSIVE LiteralsFrom(_)

LiteralsFrom(i) ==
  IF i > Len(text) THEN {}
  ELSE IF At(i) \in {Quote, Apostrophe}
  THEN LET to == Closing(i + 1, At(i), FALSE)
       IN {[from |-> i, to |-> to]} \union LiteralsFrom(to + 1)
  ELSE LiteralsFrom(i + 1)

(***************************************************************************)
(* str_contains: the place of op in str, 0 when it is not found; m is how  *)
(* much of op the characters before i match.  After a mismatch the search  *)
(* goes on behind the character that did not match.                        *)
(***************************************************************************)
RECURSIVE StrContainsMutant(_, _, _, _)

StrContainsMutant(str, op, i, m) ==
  IF i > Len(str) THEN 0
  ELSE IF str[i] # op[m + 1] THEN StrContainsMutant(str, op, i - m + 1, 0)
  ELSE IF m + 1 = Len(op) THEN i - m ELSE StrContainsMutant(str, op, i + 1, m + 1)

RECURSIVE StrContains(_, _, _, _)

StrContains(str, op, i, m) ==
  IF i > Len(str) THEN 0
  ELSE IF str[i] # op[m + 1] THEN StrContains(str, op, i + 1, 0)
  ELSE IF m + 1 = Len(op) THEN i - m ELSE StrContains(str, op, i + 1, m + 1)

(***************************************************************************)
(* str_contains_word, the same for words: boundary is prev_whitespace,     *)
(* which stays true while a word matches and after a match that turned out *)
(* to be the beginning of a longer word; the character behind it is then   *)
(* skipped.                                                                *)
(***************************************************************************)
RECURSIVE StrContainsWord(_, _, _, _, _)

StrContainsWord(str, word, i, m, boundary) ==
  LET matches == CharAt(str, i) = word[m + 1]
      atBoundary == CharAt(str, i) \notin WordChars \/ (boundary /\ matches)
      ends == CharAt(str, i + 1) \notin WordChars /\ CharAt(str, i - m - 1) \notin Alnum
  IN IF i > Len(str) THEN 0
     ELSE IF ~(atBoundary /\ matches) THEN StrContainsWord(str, word, i + 1, 0, atBoundary)
     ELSE IF m + 1 < Len(word) THEN StrContainsWord(str, word, i + 1, m + 1, TRUE)
     ELSE IF ends THEN i - m
     ELSE StrContainsWord(str, word, i + 2, 0, TRUE)

\* The longest stretches of characters of chars, from left to right.
Runs(chars) ==
  LET begins == {i \in DOMAIN text : At(i) \in chars /\ At(i - 1) \notin chars}
      RunAt(i) == [from |-> i, to |-> Min({j \in i..Len(text) : At(j + 1) \notin chars})]
  IN [n \in 1..Cardinality(begins) |-> RunAt(SetToSortSeq(begins, <)[n])]

Str(run) == SubSeq(text, run.from, run.to)
Places(runs) == UNION {r.from..r.to : r \in runs}

-----------------------------------------------------------------------------
(* The passes *)

Init ==
  /\ source \in Texts
  /\ text = source
  /\ tokens = [i \in 1..Len(source) |-> None]
  /\ pass = "comments"

\* A pass puts down the tokens of found, by place, and blanks the places.
Tokenize(this, found, places, following) ==
  /\ pass = this
  /\ text' = Blanked(text, places)
  /\ tokens' = [i \in DOMAIN tokens |-> IF i \in DOMAIN found THEN found[i] ELSE tokens[i]]
  /\ pass' = following
  /\ UNCHANGED source

TokenizeComments ==
  LET comments == CommentsFrom(1, FALSE)
      found == [i \in {c.from : c \in {d \in comments : d.closed}} |-> Token("comment", << >>)]
  IN Tokenize("comments", found, Places(comments), "preprocessor")

TokenizePreprocessor ==
  LET lines == {i \in DOMAIN text : At(i) = "#" /\ At(i - 1) = EOL}
      found == [i \in lines |-> Token("directive", << >>)]
  IN Tokenize("preprocessor", found, UNION {i..EndOfLine(i) : i \in lines}, "strings")

\* The token is put at the closing quote.
TokenizeStrings ==
  LET literals == LiteralsFrom(1)
      kind(r) == IF At(r.from) = Quote THEN "string" ELSE "char"
      token(r) == Token(kind(r), SubSeq(text, r.from + 1, r.to - 1))
      found == [i \in {r.to : r \in literals} |->
                  token(CHOOSE r \in literals : r.to = i)]
  IN Tokenize("strings", found, Places(literals), "keywords")

(***************************************************************************)
(* Keyword after keyword, and operator after operator, from the n-th on:   *)
(* each is searched from the beginning and blanked until it is not found.  *)
(***************************************************************************)
RECURSIVE KeywordsFrom(_, _, _)

KeywordsFrom(n, str, found) ==
  LET word == Keywords[n]
      i == StrContainsWord(str, word, 1, 0, TRUE)
  IN IF n > Len(Keywords) THEN found
     ELSE IF i = 0 THEN KeywordsFrom(n + 1, str, found)
     ELSE KeywordsFrom(n, Blanked(str, i..(i + Len(word) - 1)),
                       found \union {[from |-> i, to |-> i + Len(word) - 1]})

RECURSIVE OpsFrom(_, _, _)

OpsFrom(n, str, found) ==
  LET op == Operators[n]
      i == StrContains(str, op, 1, 0)
  IN IF n > Len(Operators) THEN found
     ELSE IF i = 0 THEN OpsFrom(n + 1, str, found)
     ELSE OpsFrom(n, Blanked(str, i..(i + Len(op) - 1)),
                  found \union {[from |-> i, to |-> i + Len(op) - 1]})

\* Tokens of a kind at the beginning of each of the runs.
TokensAt(runs, kind) ==
  [i \in {r.from : r \in runs} |-> Token(kind, Str(CHOOSE r \in runs : r.from = i))]

TokenizeKeywords ==
  LET runs == KeywordsFrom(1, text, {})
  IN Tokenize("keywords", TokensAt(runs, "keyword"), Places(runs), "ops")

TokenizeOps ==
  LET runs == OpsFrom(1, text, {})
  IN Tokenize("ops", TokensAt(runs, "op"), Places(runs), "idents")

TokenizeIdents ==
  LET runs == {r \in ToSet(Runs(WordChars)) : At(r.from) \notin Digits}
  IN Tokenize("idents", TokensAt(runs, "ident"), Places(runs), "ints")

TokenizeInts ==
  LET runs == {r \in ToSet(Runs(WordChars \union {"."})) : ToSet(Str(r)) \subseteq Digits}
  IN Tokenize("ints", TokensAt(runs, "int"), Places(runs), "floats")

(***************************************************************************)
(* A run of digits and dots is a float when it has a dot and, unless it    *)
(* ends the line, when a digit was found.  found_digit is cleared by a     *)
(* float only, so the digits of a run that was given up count in later     *)
(* ones.  A letter gives a run up.                                         *)
(***************************************************************************)
FloatsOf(scan, run) ==
  LET letters == {i \in run.from..run.to : At(i) \in WordChars \ Digits}
      scanned == run.from..(IF letters = {} THEN run.to ELSE Min(letters) - 1)
      digit == scan.foundDigit \/ \E i \in scanned : At(i) \in Digits
      dot == \E i \in scanned : At(i) = "."
  IN IF At(run.from) \notin Digits \union {"."} THEN scan
     ELSE IF letters = {} /\ (At(run.to + 1) = EOL \/ (digit /\ dot))
     THEN [runs |-> scan.runs \union {run}, foundDigit |-> FALSE]
     ELSE [scan EXCEPT !.foundDigit = digit]

TokenizeFloats ==
  LET runs == FoldLeft(FloatsOf, [runs |-> {}, foundDigit |-> FALSE],
                       Runs(WordChars \union {"."})).runs
  IN Tokenize("floats", TokensAt(runs, "float"), Places(runs), "delims")

TokenizeDelims ==
  LET places == {i \in DOMAIN text : At(i) \in Delims}
      found == [i \in places |-> Token("delim", <<At(i)>>)]
  IN Tokenize("delims", found, places, "done")

Next ==
  \/ TokenizeComments \/ TokenizePreprocessor \/ TokenizeStrings
  \/ TokenizeKeywords \/ TokenizeOps \/ TokenizeIdents
  \/ TokenizeInts \/ TokenizeFloats \/ TokenizeDelims

Spec == Init /\ [][Next]_vars

\* tokens_trim
Trimmed == SelectSeq(tokens, LAMBDA t : t.kind # "none")

-----------------------------------------------------------------------------
(* C *)

\* The characters from i on while they belong to chars.
While(i, chars) ==
  SubSeq(source, i, Min({j \in i..Len(source) : source[j] \notin chars}) - 1)

Source(i) == IF i \in DOMAIN source THEN source[i] ELSE EOL

StartsAt(i, word) == SubSeq(source, i, Min({i + Len(word) - 1, Len(source)})) = word

RECURSIVE LiteralEnd(_, _)

LiteralEnd(i, quote) ==
  IF Source(i) \in {quote, EOL} THEN i
  ELSE IF Source(i) = Backslash THEN LiteralEnd(i + 2, quote)
  ELSE LiteralEnd(i + 1, quote)

\* A directive goes to the end of its line; a comment can hide that end.
RECURSIVE DirectiveEnd(_)

DirectiveEnd(i) ==
  LET blockEnds == {j \in (i + 2)..Len(source) : StartsAt(j, <<"*", "/">>)}
  IN IF Source(i) = EOL THEN i
     ELSE IF StartsAt(i, <<"/", "*">>) /\ blockEnds # {} THEN DirectiveEnd(Min(blockEnds) + 2)
     ELSE DirectiveEnd(i + 1)

(***************************************************************************)
(* The tokens of C from i on, each the longest that the characters allow.  *)
(* A text that is not C gets a token "error".                              *)
(***************************************************************************)
RECURSIVE Lexed(_, _)

Lexed(i, lineStart) ==
  LET c == Source(i)
      eol == Min({j \in i..Len(source) : source[j] = EOL} \union {Len(source)})
      blockEnds == {j \in (i + 2)..Len(source) : StartsAt(j, <<"*", "/">>)}
      ops == {op \in ToSet(Operators) \union {<<".", ".", ".">>} : StartsAt(i, op)}
      longest == CHOOSE op \in ops : \A other \in ops : Len(other) <= Len(op)
      emit(kind, str, to) == <<Token(kind, str)>> \o Lexed(to, FALSE)
  IN IF i > Len(source) THEN << >>
     ELSE IF c \in {Blank, EOL} THEN Lexed(i + 1, lineStart \/ c = EOL)
     ELSE IF StartsAt(i, <<"/", "*">>)
     THEN IF blockEnds = {} THEN <<Token("error", << >>)>>
          ELSE <<Token("comment", << >>)>> \o Lexed(Min(blockEnds) + 2, lineStart)
     ELSE IF StartsAt(i, <<"/", "/">>) THEN emit("comment", << >>, eol)
     ELSE IF c = "#" /\ lineStart
     THEN <<Token("directive", << >>)>> \o Lexed(DirectiveEnd(i), TRUE)
     ELSE IF c \in {Quote, Apostrophe}
     THEN LET to == LiteralEnd(i + 1, c)
              str == SubSeq(source, i + 1, to - 1)
          IN IF Source(to) # c THEN <<Token("error", << >>)>>
             ELSE emit(IF c = Quote THEN "string" ELSE "char", str, to + 1)
     ELSE IF c \in Digits \/ (c = "." /\ Source(i + 1) \in Digits)
     THEN LET str == While(i, WordChars \union {"."})
          IN emit(IF "." \in ToSet(str) THEN "float" ELSE "int", str, i + Len(str))
     ELSE IF c \in WordChars
     THEN LET str == While(i, WordChars)
          IN emit(IF str \in ToSet(Keywords) THEN "keyword"
                  ELSE IF str \in ToSet(Operators) THEN "op" ELSE "ident", str, i + Len(str))
     ELSE IF ops # {}
     THEN emit(IF longest \in ToSet(Keywords) THEN "keyword" ELSE "op", longest, i + Len(longest))
     ELSE IF c \in Delims THEN emit("delim", <<c>>, i + 1)
     ELSE <<Token("error", << >>)>>

Lex == Lexed(1, TRUE)

\* In C a dot stands between an operand and the name of a member, and the
\* dots of a parameter list stand alone.
IsC ==
  \A i \in DOMAIN Lex :
    LET near == {Lex[j].kind : j \in DOMAIN Lex \intersect {i - 1, i + 1}}
    IN /\ Lex[i].kind # "error"
       /\ Lex[i].kind = "char" =>
            Len(Lex[i].str) = IF IsPrefix(<<Backslash>>, Lex[i].str) THEN 2 ELSE 1
       /\ Lex[i].str = <<".">> => 1 < i /\ i < Len(Lex) /\ near = {"ident"}
       /\ Lex[i].str = <<".", ".", ".">> => near \subseteq {"delim", "directive"}

\* Comments mean nothing to C.
Meant(seq) == SelectSeq(seq, LAMBDA t : t.kind # "comment")

-----------------------------------------------------------------------------
(* Where the tokenizer is known to differ from C *)

\* A quote in single quotes or behind two backslashes is not noticed by
\* tokenize_comments, or taken for another string.
PlainQuotes ==
  \A t \in ToSet(Lex) :
    /\ t.kind = "char" => t.str # <<Quote>>
    /\ t.kind = "string" /\ t.str # << >> => Last(t.str) # Backslash

\* do_do ends with a word for str_contains_word; sizeof is found in any word.
PlainWords ==
  \A t \in ToSet(Lex) : t.kind = "ident" =>
    /\ \A word \in ToSet(Keywords) : ~(IsPrefix(word, t.str) /\ IsSuffix(<<"_">> \o word, t.str))
    /\ \A i \in DOMAIN t.str : ~IsPrefix(Head(Operators), SubSeq(t.str, i, Len(t.str)))

\* Letters in a number (0x10, 10L, 1.3f) make it vanish.
PlainNumbers ==
  \A t \in ToSet(Lex) : t.kind \in {"int", "float"} =>
    /\ ToSet(t.str) \subseteq Digits \union {"."}
    /\ \A i, j \in DOMAIN t.str : t.str[i] = "." /\ t.str[j] = "." => i = j

\* A dot at the end of a line is a float.
PlainDots == \A i \in DOMAIN source : source[i] = "." => Source(i + 1) # EOL

Plain == PlainQuotes /\ PlainWords /\ PlainNumbers /\ PlainDots

-----------------------------------------------------------------------------
(* Properties *)

\* Every variable holds values of its type.
TypeOK ==
  /\ Len(text) = Len(source)
  /\ \A i \in DOMAIN text : text[i] \in {source[i], Blank} /\ (source[i] = EOL => text[i] = EOL)
  /\ DOMAIN tokens = DOMAIN source
  /\ \A i \in DOMAIN tokens : tokens[i].kind \in Kinds
  /\ pass \in {"comments", "preprocessor", "strings", "keywords", "ops", "idents", "ints",
               "floats", "delims", "done"}

(***************************************************************************)
(* The passes together find the tokens of C, in their order: forty         *)
(* searches for operators one after the other, of two characters before    *)
(* those of one, cut a text as the longest match from the left does, and   *)
(* no comment, string, word or number is taken for another one.            *)
(***************************************************************************)
TokensRight == pass = "done" /\ IsC /\ Plain => Meant(Trimmed) = Meant(Lex)

=============================================================================

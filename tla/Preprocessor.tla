------------------------------ MODULE Preprocessor ------------------------------
(***************************************************************************)
(* The preprocessor: it walks over a growing vector of tokens, replaces    *)
(* identifiers, inserts included files and blanks what it has consumed,    *)
(* all in place, with the position kept in a table that the recursive      *)
(* calls share or copy.                                                    *)
(*                                                                         *)
(* A behaviour preprocesses one main file and the headers it includes.     *)
(* Tokens are tuples, a directive is one token.  Abstracted: directories   *)
(* (a file is known by its base name) and everything of a token but its    *)
(* kind and name.                                                          *)
(***************************************************************************)
EXTENDS Integers, Sequences, FiniteSets, SequencesExt

CONSTANTS
  MainFiles,   \* the main files tried, sequences of tokens
  HeaderSets,  \* the header directories tried, functions from name to tokens
  FileNames,   \* the names of header files
  Names        \* the names of macros

VARIABLES
  main,     \* the main file
  headers,  \* the header files
  table,    \* PreprocessorTable.elems, shared by all files
  files,    \* the calls of preprocess: tokens, token_index and the file's item
  phase,    \* run, done, error
  output,   \* the tokens of the main file in the end
  skipped   \* history: a definition has sent the walk past something to be done

vars == <<main, headers, table, files, phase, output, skipped>>

Kind(token) == token[1]
None == <<"none">>
EndOfFile == <<"eof">>

\* The text behind the name of a #define.
IsValue(value) ==
  /\ value \in Seq(ToSet(value))
  /\ \A i \in 1..Len(value) : Kind(value[i]) \in {"ident", "lit"}

\* What the tokenizer makes of a file.
IsToken(t) ==
  \/ Kind(t) \in {"ident", "lit", "endif", "once"}
  \/ Kind(t) \in {"undef", "ifdef", "ifndef"} /\ t[2] \in Names
  \/ Kind(t) = "include" /\ t[2] \in FileNames
  \/ Kind(t) = "define" /\ t[2] \in Names /\ IsValue(t[3])

IsFile(file) ==
  file \in Seq(ToSet(file)) /\ \A i \in 1..Len(file) : IsToken(file[i])

ASSUME FilesAssumption ==
  /\ \A file \in MainFiles : IsFile(file)
  /\ \A hs \in HeaderSets :
       hs = [n \in FileNames |-> hs[n]] /\ \A n \in FileNames : IsFile(hs[n])
  /\ Names \cap FileNames = {}

-----------------------------------------------------------------------------
(* The table *)

Item(type, name, once, value) ==
  [type |-> type, name |-> name, once |-> once, value |-> value, ignore |-> FALSE]

\* preprocessor_table_lookup: the first item of that name not ignored, or 0.
Lookup(name) ==
  LET found == {i \in 1..Len(table) : table[i].name = name /\ ~table[i].ignore}
  IN IF found = {} THEN 0 ELSE Min(found)

\* tokens_insert at i; what stood at i is blanked and follows.
InsertTokens(tokens, i, inserted) ==
  SubSeq(tokens, 1, i - 1) \o inserted \o <<None>> \o SubSeq(tokens, i + 1, Len(tokens))

\* tokens_trim: the first n tokens without the blanked ones, for every n.
Trim(tokens) ==
  LET kept[n \in 0..Len(tokens)] ==
        IF n = 0 THEN << >>
        ELSE IF tokens[n] = None THEN kept[n - 1] ELSE Append(kept[n - 1], tokens[n])
  IN kept[Len(tokens)]

\* What a token of the value of a define becomes.
Replaced(t) ==
  IF Kind(t) = "ident" /\ Lookup(t[2]) # 0
  THEN Append(table[Lookup(t[2])].value, None) ELSE <<t>>

\* preprocess_tokens on that value.
Expanded(value) ==
  LET done[n \in 0..Len(value)] ==
        IF n = 0 THEN << >> ELSE done[n - 1] \o Replaced(value[n])
  IN done[Len(value)]

-----------------------------------------------------------------------------
(* The walk *)

File == Last(files)

Tokens == File.tokens
Index == File.index
Token == Tokens[Index]

Busy == phase = "run" /\ Index <= Len(Tokens)

\* The top file continues behind position index with these tokens.
Continue(tokens, index) ==
  files' = Append(Front(files), [tokens |-> tokens, index |-> index + 1, item |-> File.item])

Consume == Continue([Tokens EXCEPT ![Index] = None], Index)

\* A token that the walk only passes.
NothingToDo(t) ==
  Kind(t) \in {"none", "eof", "lit"} \/ (Kind(t) = "ident" /\ Lookup(t[2]) = 0)

Skip ==
  /\ Busy /\ NothingToDo(Token)
  /\ Continue(Tokens, Index)
  /\ UNCHANGED <<main, headers, table, phase, output, skipped>>

PreprocessIdentMutant ==
  /\ Busy /\ Kind(Token) = "ident"
  /\ Lookup(Token[2]) # 0
  /\ LET value == table[Lookup(Token[2])].value
     IN Continue(InsertTokens(Tokens, Index, value), Index + Len(value) + 1)
  /\ UNCHANGED <<main, headers, table, phase, output, skipped>>

PreprocessIdent ==
  /\ Busy /\ Kind(Token) = "ident"
  /\ Lookup(Token[2]) # 0
  /\ LET value == table[Lookup(Token[2])].value
     IN Continue(InsertTokens(Tokens, Index, value), Index + Len(value))
  /\ UNCHANGED <<main, headers, table, phase, output, skipped>>

\* Beyond the current token, and up to the length of this value, the walk would
\* have something to do, the macro being defined.
JumpsOver(value) ==
  \E i \in 1..Len(Tokens) :
    /\ Index < i /\ i <= Len(value)
    /\ ~NothingToDo(Tokens[i]) \/ Tokens[i] = <<"ident", Token[2]>>

PreprocessDefineMutant ==
  /\ Busy /\ Kind(Token) = "define"
  /\ LET value == Expanded(Token[3])
         item == Lookup(Token[2])
     IN /\ table' = IF item # 0 THEN [table EXCEPT ![item].value = value]
                    ELSE Append(table, Item("define", Token[2], FALSE, value))
        /\ Continue(Tokens, IF value = << >> THEN Index ELSE Len(value))
        /\ skipped' = (skipped \/ JumpsOver(value))
  /\ UNCHANGED <<main, headers, phase, output>>

(***************************************************************************)
(* The value's tokens are preprocessed first, which leaves token_index at  *)
(* the last of them: the walk over the file goes on behind that position.  *)
(* "If file already is in table, override": the table is searched for the  *)
(* value as it was joined, with a blank behind its last word, which is no  *)
(* item's name, so that every definition adds an item.                     *)
(***************************************************************************)
PreprocessDefine ==
  /\ Busy /\ Kind(Token) = "define"
  /\ LET value == Expanded(Token[3])
     IN /\ table' = Append(table, Item("define", Token[2], FALSE, value))
        /\ Continue([Tokens EXCEPT ![Index] = None],
                    IF value = << >> THEN Index ELSE Len(value))
        /\ skipped' = (skipped \/ JumpsOver(value))
  /\ UNCHANGED <<main, headers, phase, output>>

PreprocessUndef ==
  /\ Busy /\ Kind(Token) = "undef"
  /\ table' = IF Lookup(Token[2]) = 0 THEN table
              ELSE [table EXCEPT ![Lookup(Token[2])].ignore = TRUE]
  /\ Consume
  /\ UNCHANGED <<main, headers, phase, output, skipped>>

Opens(token) == Kind(token) \in {"ifdef", "ifndef"}

ScanForEndifMutant ==
  LET ends == {i \in Index..Len(Tokens) : Kind(Tokens[i]) = "endif"}
  IN IF ends = {} THEN 0 ELSE Min(ends)

\* endifs_left behind position i.
Depth(i) ==
  Cardinality({j \in Index..i : Opens(Tokens[j])})
    - Cardinality({j \in Index..i : Kind(Tokens[j]) = "endif"})

\* The position of the matching #endif, 0 when there is none.
ScanForEndif ==
  LET ends == {i \in Index..Len(Tokens) : Depth(i) = 0}
  IN IF ends = {} THEN 0 ELSE Min(ends)

\* #ifdef and #ifndef: the two directives are blanked, or all between them.
PreprocessIf ==
  /\ Busy /\ Opens(Token)
  /\ ScanForEndif # 0
  /\ LET taken == (Lookup(Token[2]) # 0) = (Kind(Token) = "ifdef")
         end == ScanForEndif
         blanked == IF taken THEN {Index, end} ELSE Index..end
     IN Continue([i \in 1..Len(Tokens) |-> IF i \in blanked THEN None ELSE Tokens[i]], Index)
  /\ UNCHANGED <<main, headers, table, phase, output, skipped>>

\* "Unknown preprocess directive", "no matching #endif": exit(1).
PreprocessError ==
  /\ Busy
  /\ Kind(Token) = "endif" \/ (Opens(Token) /\ ScanForEndif = 0)
  /\ phase' = "error"
  /\ UNCHANGED <<main, headers, table, files, output, skipped>>

PragmaOnceMutant ==
  /\ Busy /\ Kind(Token) = "once"
  /\ table' = Append(table, Item("file", table[File.item].name, TRUE, << >>))
  /\ Continue(Tokens, Index)
  /\ UNCHANGED <<main, headers, phase, output, skipped>>

\* #pragma once stays in the vector.
PragmaOnce ==
  /\ Busy /\ Kind(Token) = "once"
  /\ table' = Append([table EXCEPT ![File.item].once = TRUE],
                     Item("file", table[File.item].name, TRUE, << >>))
  /\ Continue(Tokens, Index)
  /\ UNCHANGED <<main, headers, phase, output, skipped>>

Once(name) == Lookup(name) # 0 /\ table[Lookup(name)].once

\* A file that is not to be included again: the directive stays.
SkipInclude ==
  /\ Busy /\ Kind(Token) = "include" /\ Once(Token[2])
  /\ Continue(Tokens, Index)
  /\ UNCHANGED <<main, headers, table, phase, output, skipped>>

PreprocessIncludeMutant ==
  /\ Busy /\ Kind(Token) = "include" /\ ~Once(Token[2])
  /\ table' = Append(table, Item("file", Token[2], FALSE, << >>))
  /\ files' = Append(files, [tokens |-> Append(headers[Token[2]], EndOfFile),
                             index |-> 1, item |-> Len(table) + 2])
  /\ UNCHANGED <<main, headers, phase, output, skipped>>

PreprocessInclude ==
  /\ Busy /\ Kind(Token) = "include" /\ ~Once(Token[2])
  /\ table' = Append(table, Item("file", Token[2], FALSE, << >>))
  /\ files' = Append(files, [tokens |-> Append(headers[Token[2]], EndOfFile),
                             index |-> 1, item |-> Len(table) + 1])
  /\ UNCHANGED <<main, headers, phase, output, skipped>>

\* The included file has been preprocessed: it replaces the directive.
Included ==
  /\ phase = "run" /\ Len(files) > 1 /\ Index > Len(Tokens)
  /\ LET inserted == Append(Front(Trim(Tokens)), None)
         outer == files[Len(files) - 1]
     IN files' = Append(SubSeq(files, 1, Len(files) - 2),
                        [tokens |-> InsertTokens(outer.tokens, outer.index, inserted),
                         index |-> outer.index + Len(inserted) + 1, item |-> outer.item])
  /\ UNCHANGED <<main, headers, table, phase, output, skipped>>

Finish ==
  /\ phase = "run" /\ Len(files) = 1 /\ Index > Len(Tokens)
  /\ output' = Trim(Tokens)
  /\ phase' = "done"
  /\ UNCHANGED <<main, headers, table, files, skipped>>

Init ==
  /\ main \in MainFiles
  /\ headers \in HeaderSets
  /\ table = << Item("define", "CCIC", FALSE, << >>) >>
  /\ files = << [tokens |-> Append(main, EndOfFile), index |-> 1, item |-> 1] >>
  /\ phase = "run"
  /\ output = << >>
  /\ skipped = FALSE

Next ==
  \/ Skip \/ PreprocessIdent
  \/ PreprocessDefine \/ PreprocessUndef
  \/ PreprocessIf \/ PreprocessError
  \/ PragmaOnce \/ SkipInclude \/ PreprocessInclude \/ Included
  \/ Finish

\* One thread, nothing to wait for.
Spec == Init /\ [][Next]_vars /\ WF_vars(Next)

-----------------------------------------------------------------------------
(* Properties *)

\* Every variable holds values of its type; a file that waits for another is at
\* one of its tokens, the #include.
TypeOK ==
  /\ phase \in {"run", "done", "error"} /\ skipped \in BOOLEAN
  /\ \A i \in 1..Len(table) : table[i].name \in Names \union FileNames \union {"CCIC"}
  /\ \A i \in 1..Len(files) :
       /\ files[i].index \in Nat \ {0}
       /\ files[i].item \in 1..Len(table)
       /\ i < Len(files) => files[i].index <= Len(files[i].tokens)

(***************************************************************************)
(* "Simple defines, undef", "Ifdef, ifndef": every directive is carried    *)
(* out, unless the value of a definition is so long that the walk goes on  *)
(* beyond something it has not come to yet.  What is left in the vector is *)
(* a #pragma once or an #include of a file that is included only once; the *)
(* parser skips these.                                                     *)
(***************************************************************************)
DirectivesCarriedOut ==
  phase = "done" /\ ~skipped =>
    \A i \in 1..Len(output) :
      \/ Kind(output[i]) \in {"ident", "lit", "eof", "once"}
      \/ Kind(output[i]) = "include" /\ Once(output[i][2])

(***************************************************************************)
(* Preprocessing ends, although definitions send the walk back.            *)
(***************************************************************************)
Terminates == <>(phase # "run")

================================================================================

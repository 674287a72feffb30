--------------------------- MODULE PreprocessorMeaning ---------------------------
(***************************************************************************)
(* What C makes of a main file and its headers, and where the preprocessor *)
(* agrees.                                                                 *)
(***************************************************************************)
EXTENDS Preprocessor

-----------------------------------------------------------------------------
(* What C says the main file and its headers mean.  Of a macro it has the  *)
(* value and what that meant where the macro was defined; again: macros    *)
(* defined twice alike; holds: files into which a #pragma once was         *)
(* inserted; marked: those that the walk may have gone back in then.       *)
(*                                                                         *)
(* unsure: the files do what the preprocessor is known to do otherwise.  A *)
(* macro is defined anew with another value (no C either), #undef removes  *)
(* a macro defined twice, a macro is defined whose name was used for       *)
(* something else, a macro is used whose value no longer means what it     *)
(* meant where it was defined, or a marked file is included again: it may  *)
(* have got the #pragma once for its own.                                  *)

Live(c, name) == name \in DOMAIN c.macros

RECURSIVE Expansion(_, _, _)

\* A token with all macros replaced, but those inside which it stands.
Expansion(c, t, inside) ==
  IF Kind(t) = "ident" /\ Live(c, t[2]) /\ t[2] \notin inside
  THEN LET value == c.macros[t[2]].value
       IN FlattenSeq([i \in 1..Len(value) |-> Expansion(c, value[i], inside \union {t[2]})])
  ELSE <<t>>

Changed(c, name) == Expansion(c, <<"ident", name>>, {}) # c.macros[name].meant

Emit(c, tokens) == [c EXCEPT !.out = @ \o tokens]

CIdent(c, t) ==
  IF Live(c, t[2]) THEN [Emit(c, Expansion(c, t, {})) EXCEPT !.unsure = @ \/ Changed(c, t[2])]
  ELSE [Emit(c, <<t>>) EXCEPT !.plain = @ \union {t[2]}]

CDefine(c, name, value, file) ==
  LET used == {value[i][2] : i \in {j \in 1..Len(value) : Kind(value[j]) = "ident"}}
      new == [value |-> value,
              meant |-> FlattenSeq([i \in 1..Len(value) |-> Expansion(c, value[i], {})])]
  IN [c EXCEPT !.macros = [n \in DOMAIN @ \union {name} |-> IF Live(c, n) THEN @[n] ELSE new],
               !.plain = @ \union {n \in used : ~Live(c, n)},
               !.again = IF Live(c, name) THEN @ \union {name} ELSE @,
               !.marked = @ \union ({file} \intersect c.holds),
               !.unsure = \/ @ \/ name \in c.plain \union used
                          \/ Live(c, name) /\ c.macros[name].value # value
                          \/ \E n \in used : Live(c, n) /\ Changed(c, n)]

CUndef(c, name) ==
  [c EXCEPT !.macros = [n \in DOMAIN @ \ {name} |-> @[n]],
            !.unsure = @ \/ name \in c.again]

CInclude(c, name, file, included) ==
  [included EXCEPT !.unsure = @ \/ name \in c.marked,
                   !.holds = IF name \in included.once \union @ THEN @ \union {file} ELSE @]

RECURSIVE CFile(_, _, _)

\* depth: open conditionals; skipping: how many of them, counted from the
\* innermost, are left until tokens count again (0: they count).
CToken(c, t, file) ==
  IF c.skipping > 0
  THEN CASE Opens(t)          -> [c EXCEPT !.depth = @ + 1, !.skipping = @ + 1]
         [] Kind(t) = "endif" -> [c EXCEPT !.depth = @ - 1, !.skipping = @ - 1]
         [] OTHER             -> c
  ELSE CASE Kind(t) = "lit"    -> Emit(c, <<t>>)
         [] Kind(t) = "ident"  -> CIdent(c, t)
         [] Kind(t) = "define" -> CDefine(c, t[2], t[3], file)
         [] Kind(t) = "undef"  -> CUndef(c, t[2])
         [] Opens(t) -> [c EXCEPT !.depth = @ + 1,
                           !.skipping = IF Live(c, t[2]) = (Kind(t) = "ifdef") THEN 0 ELSE 1]
         [] Kind(t) = "endif"  -> [c EXCEPT !.depth = @ - 1, !.malformed = @ \/ c.depth = 0]
         [] Kind(t) = "once"   -> [c EXCEPT !.once = @ \union {file}]
         [] Kind(t) = "include" -> IF t[2] \in c.once THEN c
                                  ELSE CInclude(c, t[2], file, CFile(c, t[2], headers[t[2]]))

CFile(c, file, tokens) ==
  LET inside == FoldLeft(LAMBDA d, t : IF d.malformed THEN d ELSE CToken(d, t, file),
                         [c EXCEPT !.depth = 0], tokens)
  IN [inside EXCEPT !.malformed = @ \/ inside.depth # 0, !.depth = c.depth, !.skipping = 0]

InC ==
  CFile([out |-> << >>, macros |-> [n \in {"CCIC"} |-> [value |-> << >>, meant |-> << >>]],
         plain |-> {}, again |-> {}, once |-> {}, holds |-> {}, marked |-> {},
         depth |-> 0, skipping |-> 0, unsure |-> FALSE, malformed |-> FALSE],
        "main", main)

-----------------------------------------------------------------------------
(* Properties *)

Text(tokens) == SelectSeq(tokens, LAMBDA t : Kind(t) \in {"ident", "lit"})

(***************************************************************************)
(* The parser gets the text C gives it, although the walk over a file goes *)
(* back to its beginning with most definitions and meets the inserted      *)
(* tokens again: macros replaced where and while they are defined, also    *)
(* through macros in their values, guarded and once-only headers inserted  *)
(* once, the others each time.                                             *)
(***************************************************************************)
OutputRight ==
  phase = "done" /\ ~skipped => LET c == InC IN c.unsure \/ Text(output) = c.out

(***************************************************************************)
(* A file is refused only when its conditionals do not match.              *)
(***************************************************************************)
ErrorsJustified ==
  phase = "error" /\ ~skipped => LET c == InC IN c.unsure \/ c.malformed

================================================================================

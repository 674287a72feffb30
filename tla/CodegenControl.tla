---------------------------- MODULE CodegenControl ----------------------------
(***************************************************************************)
(* How gen_asm finds the labels that break, continue and return jump to.   *)
(*                                                                         *)
(* gen_asm is a recursive descent over the statements of a function that   *)
(* receives an AsmContext by value: last_start_label and last_end_label    *)
(* are what continue and break jump to.  A statement that is followed by   *)
(* another calls gen_asm(node->next, ctx) itself, with its own copy of the *)
(* context, and a loop has changed that copy and has freed the labels in   *)
(* it by then.  A frame below is one statement list being generated.       *)
(*                                                                         *)
(* The statements are chosen as the descent reaches them, so a behaviour   *)
(* is one function and the code generated for it.  Abstracted: expressions *)
(* and the text of the instructions.                                       *)
(***************************************************************************)
EXTENDS Integers, Sequences, SequencesExt

CONSTANTS
  Careful,     \* TRUE: break and continue only where JumpSafe says
  MaxLabels,   \* bound: labels in the function
  MaxDepth     \* bound: nesting of statement lists

ASSUME ControlAssumption ==
  Careful \in BOOLEAN /\ MaxLabels \in Nat \ {0} /\ MaxDepth \in Nat

None == 0        \* no label; the NULL of an AsmContext
Dangling == -1   \* whatever the freed memory of a label holds by now

VARIABLES
  frames,       \* the statement lists the descent is inside, outermost first
  labelCount,   \* *ctx.label_count
  freed,        \* labels whose string was freed
  placed,       \* the labels of the code, in order
  jumps         \* the jumps of the code: kind, the label, the label C asks for

vars == <<frames, labelCount, freed, placed, jumps>>

Breakable == {"while", "for", "do", "switch"}
Loops == {"while", "for", "do"}

(***************************************************************************)
(* top, brk and cont are the labels of the statement the list belongs to:  *)
(* its first label, its end and where its next iteration starts.  start    *)
(* and end are the context's last_start_label and last_end_label.          *)
(* afterLoop: a while or do loop precedes in this list.                    *)
(***************************************************************************)
Frame(kind, top, brk, cont, start, end) ==
  [kind |-> kind, top |-> top, brk |-> brk, cont |-> cont,
   start |-> start, end |-> end, afterLoop |-> FALSE]

Here == Last(frames)

Read(label) == IF label \in freed THEN Dangling ELSE label

Jump(kind, to, wanted) == [kind |-> kind, to |-> to, wanted |-> wanted]

Branch(label) == Jump("branch", Read(label), label)

-----------------------------------------------------------------------------
(* Entering a statement: labels are made, the body gets a changed context *)

Enter(frame, newLabels, newPlaced, newJumps) ==
  /\ frames # << >>
  /\ Len(frames) < MaxDepth
  /\ labelCount + newLabels <= MaxLabels
  /\ labelCount' = labelCount + newLabels
  /\ frames' = Append(frames, frame)
  /\ placed' = placed \o newPlaced
  /\ jumps' = jumps \union newJumps
  /\ UNCHANGED freed

\* AST_SCOPE: "a virtual construct".
OpenBlock ==
  /\ frames # << >>
  /\ Enter(Frame("block", None, None, None, Here.start, Here.end), 0, << >>, {})

OpenWhile ==
  LET n == labelCount
  IN Enter(Frame("while", n + 1, n + 2, n + 1, n + 1, n + 2), 2, <<n + 1>>, {Branch(n + 2)})

OpenForMutant ==
  LET n == labelCount
  IN Enter(Frame("for", n + 1, n + 2, n + 3, n + 1, n + 2), 3, <<n + 1>>, {Branch(n + 2)})

\* A loop with an increment: continue jumps in front of the increment.
OpenFor ==
  LET n == labelCount
  IN Enter(Frame("for", n + 1, n + 2, n + 3, n + 3, n + 2), 3, <<n + 1>>, {Branch(n + 2)})

\* The end of the loop and its condition, where C's continue goes, have none.
OpenDo ==
  LET n == labelCount
  IN /\ frames # << >>
     /\ Enter(Frame("do", n + 1, None, None, n + 1, Here.end), 1, <<n + 1>>, {})

OpenSwitch ==
  LET n == labelCount
  IN /\ frames # << >>
     /\ Enter(Frame("switch", n + 1, n + 1, None, Here.start, n + 1), 1, << >>, {Branch(n + 1)})

\* With an else the label is the else's, without it that of the end.
OpenIf(kind) ==
  LET n == labelCount
  IN /\ frames # << >>
     /\ Enter(Frame(kind, n + 1, None, None, Here.start, Here.end), 1, << >>, {Branch(n + 1)})

-----------------------------------------------------------------------------
(* Leaving it: its labels are placed and freed, the list goes on *)

Leave(kind, listAfter, newPlaced, newJumps, newFreed) ==
  /\ frames # << >> /\ Here.kind = kind
  /\ frames' = Append(SubSeq(frames, 1, Len(frames) - 2), listAfter)
  /\ placed' = placed \o newPlaced
  /\ jumps' = jumps \union newJumps
  /\ freed' = freed \union newFreed
  /\ UNCHANGED labelCount

Outer == frames[Len(frames) - 1]

CloseBlock == Leave("block", Outer, << >>, {}, {})

CloseWhile ==
  Leave("while", [Outer EXCEPT !.start = Here.cont, !.end = Here.brk, !.afterLoop = TRUE],
        <<Here.brk>>, {Branch(Here.top)}, {Here.top, Here.brk})

\* parse_for_loop wraps the loop in an AST_SCOPE, whose context is intact.
CloseFor ==
  Leave("for", Outer, <<Here.cont, Here.brk>>, {Branch(Here.top)},
        {Here.cont, Here.top, Here.brk})

CloseDo ==
  Leave("do", [Outer EXCEPT !.start = Here.top, !.afterLoop = TRUE],
        << >>, {Branch(Here.top)}, {Here.top})

CloseSwitchMutant ==
  Leave("switch", [Outer EXCEPT !.end = Here.brk], <<Here.brk>>, {}, {Here.brk})

\* start_context: the list goes on with the context the switch received.
CloseSwitch == Leave("switch", Outer, <<Here.brk>>, {}, {Here.brk})

CloseIfMutant ==
  \E kind \in {"if", "else"} :
    Leave(kind, Outer, IF kind = "if" THEN <<Here.top>> ELSE << >>, {}, {Here.top})

CloseIf ==
  \E kind \in {"if", "else"} : Leave(kind, Outer, <<Here.top>>, {}, {Here.top})

ElseBranchMutant ==
  /\ frames # << >> /\ Here.kind = "ifelse"
  /\ labelCount < MaxLabels
  /\ LET after == labelCount + 1
     IN /\ frames' = Append(Front(frames),
                            Frame("else", after, None, None, Outer.start, Outer.end))
        /\ jumps' = jumps \union {Branch(after)}
        /\ placed' = Append(placed, Here.top)
        /\ freed' = freed \union {Here.top}
        /\ UNCHANGED labelCount

\* The label of the end is made after the first body.
ElseBranch ==
  /\ frames # << >> /\ Here.kind = "ifelse"
  /\ labelCount < MaxLabels
  /\ LET after == labelCount + 1
     IN /\ labelCount' = after
        /\ frames' = Append(Front(frames),
                            Frame("else", after, None, None, Outer.start, Outer.end))
        /\ jumps' = jumps \union {Branch(after)}
        /\ placed' = Append(placed, Here.top)
        /\ freed' = freed \union {Here.top}

-----------------------------------------------------------------------------
(* break, continue and return *)

\* The innermost statement around the current list with a kind in kinds.
Innermost(kinds) ==
  LET around == {i \in 1..Len(frames) : frames[i].kind \in kinds}
  IN IF around = {} THEN 0 ELSE CHOOSE i \in around : \A j \in around : j <= i

(***************************************************************************)
(* The places where the generator gets a jump right: the statement jumped  *)
(* out of is not a do loop, and no while or do loop ended before in a list *)
(* from that statement's body inward.                                      *)
(***************************************************************************)
JumpSafe(i) ==
  /\ frames[i].kind # "do"
  /\ \A j \in i..Len(frames) : ~frames[j].afterLoop

EmitJump(kind, to, i, wanted) ==
  /\ i # 0
  /\ Careful => JumpSafe(i)
  /\ jumps' = jumps \union {Jump(kind, Read(to), wanted)}
  /\ UNCHANGED <<frames, labelCount, freed, placed>>

\* Valid C has a break only inside a loop or a switch.
Break ==
  LET i == Innermost(Breakable)
  IN EmitJump("break", Here.end, i, IF i = 0 THEN None ELSE frames[i].brk)

Continue ==
  LET i == Innermost(Loops)
  IN EmitJump("continue", Here.start, i, IF i = 0 THEN None ELSE frames[i].cont)

\* func_return_label, which no statement changes.
Return ==
  /\ frames # << >>
  /\ jumps' = jumps \union {Jump("return", Read(frames[1].top), frames[1].top)}
  /\ UNCHANGED <<frames, labelCount, freed, placed>>

-----------------------------------------------------------------------------
\* gen_asm_func makes the label in front of the epilogue and comes to the body.
Init ==
  /\ frames = << Frame("func", 1, None, None, None, None) >>
  /\ labelCount = 1
  /\ freed = {}
  /\ placed = << >>
  /\ jumps = {}

EndFunc ==
  /\ frames # << >> /\ Here.kind = "func"
  /\ frames' = << >>
  /\ placed' = Append(placed, Here.top)
  /\ freed' = freed \union {Here.top}
  /\ UNCHANGED <<labelCount, jumps>>

Next ==
  \/ OpenBlock \/ OpenWhile \/ OpenFor \/ OpenDo \/ OpenSwitch
  \/ OpenIf("if") \/ OpenIf("ifelse")
  \/ CloseBlock \/ CloseWhile \/ CloseFor \/ CloseDo \/ CloseSwitch
  \/ CloseIf \/ ElseBranch
  \/ Break \/ Continue \/ Return
  \/ EndFunc

Spec == Init /\ [][Next]_vars

-----------------------------------------------------------------------------
(* Properties *)

\* Every variable holds values of its type.
TypeOK ==
  LET Labels == 1..labelCount
  IN /\ labelCount \in 0..MaxLabels
     /\ freed \subseteq Labels
     /\ placed \in Seq(Labels)
     /\ \A j \in jumps : j.to \in Labels \union {None, Dangling}
     /\ \A i \in 1..Len(frames) :
          {frames[i].top, frames[i].brk, frames[i].cont,
           frames[i].start, frames[i].end} \subseteq Labels \union {None}

(***************************************************************************)
(* Control leaves or repeats the statement C says, however loops, switches *)
(* and conditionals are nested and follow each other.                      *)
(***************************************************************************)
JumpsCorrect == \A j \in jumps : j.wanted # None /\ j.to = j.wanted

(***************************************************************************)
(* codegen.h: last_end_label is the "Latest end label for loops and        *)
(* switch": a break jumps to the end of the innermost of these.            *)
(***************************************************************************)
BreakLeavesInnermost ==
  \A j \in jumps : j.kind = "break" => j.wanted # None /\ j.to = j.wanted

(***************************************************************************)
(* The assembler accepts the function: no label is defined twice, and when *)
(* the function is complete every label jumped to is defined.              *)
(***************************************************************************)
LabelsResolved ==
  /\ IsInjective(placed)
  /\ frames = << >> => \A j \in jumps : j.to \in ToSet(placed)

(***************************************************************************)
(* The labels a list could jump to are usable while it is generated, up to *)
(* its first while or do loop: freeing a label never hits a context that   *)
(* is still in use there.                                                  *)
(***************************************************************************)
ContextsUsable ==
  \A i \in 1..Len(frames) :
    (\A j \in 1..i : ~frames[j].afterLoop) =>
       frames[i].start \notin freed /\ frames[i].end \notin freed

=============================================================================

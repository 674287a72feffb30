---------------------------- MODULE BlockStorage ----------------------------
(***************************************************************************)
(* What a C function promises about the memory of its automatic variables, *)
(* whatever the compiler does to lay them out: storage is a stack of       *)
(* blocks, an object is created in the innermost block, it shares no byte  *)
(* with an object that is alive, it never moves, and it lives until its    *)
(* block is left.  SymbolTable implements this module.                     *)
(***************************************************************************)
EXTENDS Integers, Sequences

VARIABLE blocks   \* a stack of blocks, each the set of objects created in it

(***************************************************************************)
(* An object occupies the size bytes that end at off, both counted downward*)
(* from the frame base: the bytes off - size + 1 .. off.                   *)
(***************************************************************************)
Apart(o, p) == o.off <= p.off - p.size \/ p.off <= o.off - o.size

Alive == UNION {blocks[i] : i \in 1..Len(blocks)}

Init == blocks = << >>

EnterBlock == blocks' = Append(blocks, {})

Create ==
  /\ blocks # << >>
  /\ LET top == Len(blocks)
     IN /\ Len(blocks') = top
        /\ \E o \in blocks'[top] :
             /\ \A p \in Alive : Apart(o, p)
             /\ blocks' = [blocks EXCEPT ![top] = @ \union {o}]

LeaveBlock ==
  /\ blocks # << >>
  /\ blocks' = SubSeq(blocks, 1, Len(blocks) - 1)

\* Returning from the function leaves every block that is still open.
Return == blocks' = << >>

Next == EnterBlock \/ Create \/ LeaveBlock \/ Return

Spec == Init /\ [][Next]_blocks

=============================================================================

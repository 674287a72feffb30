------------------------------- MODULE AstMemory -------------------------------
(***************************************************************************)
(* Who frees the nodes of the syntax tree.                                 *)
(*                                                                         *)
(* ast_node_new links every node into one list through next_mem, and       *)
(* ast_free frees the tree by walking that list, recursively and never     *)
(* looking at the tree itself.  The parser rebuilds expressions in place:  *)
(* it allocates a node and copies an older one over it with memcpy, which  *)
(* copies next_mem as well, so the end of the list then points back into   *)
(* it.  Only the next ast_node_new overwrites that link.                   *)
(*                                                                         *)
(* Nodes are numbered in the order of their allocation.  Abstracted: what  *)
(* the nodes hold, and the generation of code between parse and ast_free.  *)
(***************************************************************************)
EXTENDS Integers, Sequences

CONSTANTS
  MaxNodes,         \* bound: nodes of one tree
  MaxCompilations,  \* bound: trees built by the process (the unit tests build several)
  MaxStack          \* bound: calls of ast_node_free that fit on the stack

ASSUME MemoryAssumption ==
  /\ MaxNodes \in Nat /\ MaxNodes >= 3
  /\ MaxCompilations \in Nat
  /\ MaxStack \in Nat

Null == 0

VARIABLES
  phase,         \* idle, top (parse_program between items), item, descend, unwind
  compilations,  \* trees begun so far
  list,          \* ast_node_mem_start, ast_node_mem_end, next_mem, nodes allocated
  alive,         \* nodes allocated and not freed
  calls          \* the nested calls of ast_node_free, each with its node

vars == <<phase, compilations, list, alive, calls>>

NodeNewMutant(l) ==
  [l EXCEPT !.count = @ + 1,
            !.end   = l.count + 1,
            !.start = IF l.end = Null THEN l.count + 1 ELSE @]

NodeNew(l) ==
  LET node == l.count + 1
  IN [count |-> node,
      end   |-> node,
      start |-> IF l.end = Null THEN node ELSE l.start,
      next  |-> IF l.end = Null THEN l.next ELSE [l.next EXCEPT ![l.end] = node]]

NodeCopy(l, to, from) == [l EXCEPT !.next[to] = l.next[from]]

-----------------------------------------------------------------------------
(* parse *)

NoList == [count |-> 0, start |-> Null, end |-> Null,
           next |-> [node \in 1..MaxNodes |-> Null]]

Init ==
  /\ phase = "idle"
  /\ compilations = 0
  /\ list = NoList
  /\ alive = {}
  /\ calls = << >>

\* parse: the program's node and the first one of its body.
BeginParse ==
  /\ phase = "idle"
  /\ compilations < MaxCompilations
  /\ compilations' = compilations + 1
  /\ LET calloced == [list EXCEPT !.count = 0, !.next = NoList.next]
     IN list' = NodeNew(NodeNew(calloced))
  /\ alive' = {1, 2}
  /\ phase' = "top"
  /\ UNCHANGED calls

\* A function or a global; the node it starts with exists already.
BeginItem ==
  /\ phase = "top" /\ list.count < MaxNodes
  /\ phase' = "item"
  /\ UNCHANGED <<compilations, list, alive, calls>>

\* Room is left for the node that ends the item.
NewNode ==
  /\ phase = "item" /\ list.count < MaxNodes - 1
  /\ list' = NodeNew(list)
  /\ alive' = alive \union {list'.count}
  /\ UNCHANGED <<phase, compilations, calls>>

\* "Copy this node to node->lhs", and the other five places like it.
PushDown(node) ==
  /\ phase = "item" /\ list.count < MaxNodes - 1
  /\ LET grown == NodeNew(list)
     IN list' = NodeCopy(grown, grown.count, node)
  /\ alive' = alive \union {list'.count}
  /\ UNCHANGED <<phase, compilations, calls>>

EndItemMutant ==
  /\ phase = "item"
  /\ phase' = "top"
  /\ UNCHANGED <<compilations, list, alive, calls>>

\* parse_program: node->next is allocated before the next token is looked at.
EndItem ==
  /\ phase = "item"
  /\ list' = NodeNew(list)
  /\ alive' = alive \union {list'.count}
  /\ phase' = "top"
  /\ UNCHANGED <<compilations, calls>>

-----------------------------------------------------------------------------
(* ast_free *)

BeginFree ==
  /\ phase = "top"
  /\ phase' = "descend"
  /\ calls' = <<list.start>>
  /\ UNCHANGED <<compilations, list, alive>>

Node == calls[Len(calls)]

FreeNext ==
  /\ phase = "descend" /\ list.next[Node] # Null
  /\ Len(calls) < MaxStack
  /\ calls' = Append(calls, list.next[Node])
  /\ UNCHANGED <<phase, compilations, list, alive>>

EndOfListMutant ==
  /\ phase = "descend" /\ list.next[Node] = Null
  /\ phase' = "unwind"
  /\ UNCHANGED <<compilations, list, alive, calls>>

\* "End of list, reset globals for next run"
EndOfList ==
  /\ phase = "descend" /\ list.next[Node] = Null
  /\ list' = [list EXCEPT !.end = Null]
  /\ phase' = "unwind"
  /\ UNCHANGED <<compilations, alive, calls>>

FreeNodeMutant ==
  /\ phase = "unwind"
  /\ alive' = alive \ {Node}
  /\ calls' = SubSeq(calls, 1, Len(calls) - 1)
  /\ phase' = IF Len(calls) = 0 THEN "idle" ELSE "unwind"
  /\ UNCHANGED <<compilations, list>>

FreeNode ==
  /\ phase = "unwind"
  /\ alive' = alive \ {Node}
  /\ calls' = SubSeq(calls, 1, Len(calls) - 1)
  /\ phase' = IF Len(calls) = 1 THEN "idle" ELSE "unwind"
  /\ UNCHANGED <<compilations, list>>

AstFree == FreeNext \/ EndOfList \/ FreeNode

Next ==
  \/ BeginParse \/ BeginItem \/ NewNode
  \/ \E node \in 1..list.count : PushDown(node)
  \/ EndItem \/ BeginFree \/ AstFree

Spec == Init /\ [][Next]_vars

\* ast_free runs to its end: one thread, nothing to wait for.
FairSpec == Spec /\ WF_vars(AstFree)

-----------------------------------------------------------------------------
(* Properties *)

Freeing == phase \in {"descend", "unwind"}

Links == 0..MaxNodes

\* Every variable holds values of its type.
TypeOK ==
  /\ phase \in {"idle", "top", "item", "descend", "unwind"}
  /\ compilations \in 0..MaxCompilations
  /\ list \in [count : Links, start : Links, end : Links, next : [1..MaxNodes -> Links]]
  /\ alive \subseteq 1..list.count
  /\ calls \in Seq(1..list.count)
  /\ calls = << >> <=> ~Freeing

(***************************************************************************)
(* No node escapes the list while expressions are rebuilt: from the first  *)
(* node the links lead through every node up to ast_node_mem_end.  Only    *)
(* the link of that last one may be wrong, and only inside an item.        *)
(***************************************************************************)
ListReachesAll ==
  phase \in {"top", "item"} =>
    /\ list.start = 1 /\ list.end = list.count
    /\ \A node \in 1..(list.count - 1) : list.next[node] = node + 1
    /\ phase = "top" => list.next[list.count] = Null

(***************************************************************************)
(* ast_node_free never reads, and never frees, a node that is freed; the   *)
(* list has no cycle, so it enters no node twice.                          *)
(***************************************************************************)
FreedOnce ==
  Freeing =>
    /\ \A i \in 1..Len(calls) : calls[i] \in alive
    /\ \A i, j \in 1..Len(calls) : calls[i] = calls[j] => i = j

(***************************************************************************)
(* After ast_free no node of the tree is left, and the next tree starts a  *)
(* list of its own instead of being hung behind freed memory.              *)
(***************************************************************************)
NothingLeaks == phase = "idle" => alive = {} /\ list.end = Null

(***************************************************************************)
(* ast_free comes to an end.                                               *)
(***************************************************************************)
FreeReturns == Freeing ~> phase = "idle"

================================================================================

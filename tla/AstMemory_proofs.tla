---------------------------- MODULE AstMemory_proofs ----------------------------
(***************************************************************************)
(* Proofs about AstMemory: the list of nodes covers the tree, and ast_free *)
(* frees every node of it once, for any number of nodes.                   *)
(*                                                                         *)
(* The properties say nothing of how far a walk has come, so they are not  *)
(* inductive: IInv adds, for each phase, which nodes are alive and that    *)
(* the nested calls of ast_node_free hold the nodes 1, 2, 3, ... in order. *)
(***************************************************************************)
EXTENDS AstMemory, SequenceTheorems, TLAPS

\* The links lead from the first node through every node.
Linked == \A node \in 1..(list.count - 1) : list.next[node] = node + 1

\* The last link is the NULL that ast_node_free stops at.
Ended == list.next[list.count] = Null

\* calloc clears next_mem, and only the last node's link is set early.
Cleared == \A node \in 1..MaxNodes : node > list.count => list.next[node] = Null

InOrder == \A i \in 1..Len(calls) : calls[i] = i

IIdle == phase = "idle" => list.end = Null /\ alive = {} /\ calls = << >>

IBuilding ==
  phase \in {"top", "item"} =>
    /\ list.start = 1 /\ list.end = list.count /\ list.count >= 1
    /\ Linked
    /\ alive = 1..list.count
    /\ calls = << >>
    /\ phase = "top" => Ended
    /\ phase = "item" => list.count < MaxNodes
    /\ Cleared

IDescending ==
  phase = "descend" =>
    /\ Linked /\ Ended
    /\ alive = 1..list.count
    /\ InOrder /\ Len(calls) \in 1..list.count

IUnwinding ==
  phase = "unwind" =>
    /\ list.end = Null
    /\ InOrder /\ Len(calls) \in 1..list.count
    /\ alive = 1..Len(calls)

Lists == [count : Links, start : Links, end : Links, next : [1..MaxNodes -> Links]]

ITypes ==
  /\ phase \in {"idle", "top", "item", "descend", "unwind"}
  /\ compilations \in 0..MaxCompilations
  /\ list \in Lists
  /\ calls \in Seq(1..list.count)

IInv == ITypes /\ IIdle /\ IBuilding /\ IDescending /\ IUnwinding

-----------------------------------------------------------------------------
(* ast_node_new while a list exists: the links stay complete, and the new  *)
(* node ends the list.                                                     *)
LEMMA NodeNewLinks ==
  ASSUME NEW l \in Lists, l.end = l.count, l.count >= 1, l.count < MaxNodes,
         \A node \in 1..(l.count - 1) : l.next[node] = node + 1,
         \A node \in 1..MaxNodes : node > l.count => l.next[node] = Null
  PROVE  /\ NodeNew(l) \in Lists
         /\ NodeNew(l).count = l.count + 1
         /\ NodeNew(l).end = l.count + 1
         /\ NodeNew(l).start = l.start
         /\ \A node \in 1..l.count : NodeNew(l).next[node] = node + 1
         /\ \A node \in 1..MaxNodes : node > l.count => NodeNew(l).next[node] = Null
<1> DEFINE linked == [l.next EXCEPT ![l.end] = l.count + 1]
<1>1. l.count \in 1..(MaxNodes - 1) /\ l.next \in [1..MaxNodes -> Links]
  BY MemoryAssumption DEF Lists, Links
<1>2. l.count + 1 \in Links /\ l.end # Null
  BY <1>1, MemoryAssumption DEF Links, Null
<1>3. NodeNew(l) = [count |-> l.count + 1, end |-> l.count + 1, start |-> l.start,
                    next |-> linked]
  BY <1>2 DEF NodeNew
<1>4. linked \in [1..MaxNodes -> Links]
  BY <1>1, <1>2
<1>5. \A node \in 1..MaxNodes :
        linked[node] = IF node = l.count THEN l.count + 1 ELSE l.next[node]
  BY <1>1
<1>6. \A node \in 1..l.count : linked[node] = node + 1
  BY <1>1, <1>5, MemoryAssumption
<1>7. \A node \in 1..MaxNodes : node > l.count => linked[node] = Null
  BY <1>1, <1>5, MemoryAssumption
<1>8. NodeNew(l) \in Lists
  BY <1>2, <1>3, <1>4 DEF Lists
<1> QED
  BY <1>3, <1>6, <1>7, <1>8

(* The list that parse begins: the program's node and one node behind it.  *)
LEMMA FirstList ==
  ASSUME NEW l \in Lists, l.end = Null, l.count = 0, l.next = NoList.next
  PROVE  LET first == NodeNew(NodeNew(l))
         IN /\ first \in Lists
            /\ first.count = 2 /\ first.start = 1 /\ first.end = 2
            /\ first.next[1] = 2
            /\ \A node \in 1..MaxNodes : node > 1 => first.next[node] = Null
<1> DEFINE one == NodeNew(l)
<1>1. one = [count |-> 1, end |-> 1, start |-> 1, next |-> NoList.next]
  BY DEF NodeNew
<1>2. NoList.next \in [1..MaxNodes -> Links]
  BY MemoryAssumption DEF NoList, Links, Null
<1>3. one \in Lists /\ 1 < MaxNodes /\ one.start = 1
  BY <1>1, <1>2, MemoryAssumption DEF Lists, Links
<1>4. \A node \in 1..MaxNodes : one.next[node] = Null
  BY <1>1, MemoryAssumption DEF NoList
<1>5. /\ one.end = one.count /\ one.count = 1
      /\ \A node \in 1..(one.count - 1) : one.next[node] = node + 1
      /\ \A node \in 1..MaxNodes : node > one.count => one.next[node] = Null
  BY <1>1, <1>4
<1> HIDE DEF one
<1>6. /\ NodeNew(one) \in Lists
      /\ NodeNew(one).count = 2 /\ NodeNew(one).end = 2 /\ NodeNew(one).start = 1
      /\ \A node \in 1..1 : NodeNew(one).next[node] = node + 1
      /\ \A node \in 1..MaxNodes : node > 1 => NodeNew(one).next[node] = Null
  BY <1>3, <1>5, NodeNewLinks
<1> QED
  BY <1>6 DEF one

-----------------------------------------------------------------------------
(* Before the first compilation nothing is allocated.                      *)
LEMMA InitIInv == Init => IInv
<1> SUFFICES ASSUME Init PROVE IInv
  OBVIOUS
<1>1. list \in Lists
  BY MemoryAssumption DEF Init, NoList, Lists, Links, Null
<1>2. calls \in Seq(1..list.count)
  BY DEF Init
<1> QED
  BY <1>1, <1>2, MemoryAssumption
  DEF Init, IInv, ITypes, IIdle, IBuilding, IDescending, IUnwinding, NoList

(* Every step of the parser and of ast_free keeps the invariant.           *)
LEMMA NextIInv == IInv /\ [Next]_vars => IInv'
<1> SUFFICES ASSUME IInv, [Next]_vars PROVE IInv'
  OBVIOUS
<1> USE MemoryAssumption
<1>t. list \in Lists /\ calls \in Seq(1..list.count) /\ list.count \in Links
  BY DEF IInv, ITypes, Lists
<1>1. CASE BeginParse
  <2> DEFINE calloced == [list EXCEPT !.count = 0, !.next = NoList.next]
  <2>1. NoList.next \in [1..MaxNodes -> Links] /\ 0 \in Links
    BY DEF NoList, Links, Null
  <2>2. /\ calloced \in Lists /\ calloced.count = 0 /\ calloced.next = NoList.next
        /\ calloced.end = Null
    BY <1>1, <1>t, <2>1 DEF Lists, BeginParse, IInv, IIdle
  <2>3. list' = NodeNew(NodeNew(calloced))
    BY <1>1 DEF BeginParse
  <2> HIDE DEF calloced
  <2>4. /\ list' \in Lists
        /\ list'.count = 2 /\ list'.start = 1 /\ list'.end = 2 /\ list'.next[1] = 2
        /\ \A node \in 1..MaxNodes : node > 1 => list'.next[node] = Null
    BY <2>2, <2>3, FirstList
  <2>5. Linked' /\ Ended' /\ Cleared' /\ alive' = 1..list'.count
    BY <1>1, <2>4 DEF BeginParse, Linked, Ended, Cleared
  <2>6. calls' = << >> /\ calls' \in Seq(1..list'.count)
    BY <1>1 DEF BeginParse, IInv, IIdle
  <2> QED
    BY <1>1, <2>4, <2>5, <2>6
    DEF BeginParse, IInv, ITypes, IIdle, IBuilding, IDescending, IUnwinding
<1>2. CASE BeginItem
  BY <1>2, <1>t DEF BeginItem, IInv, ITypes, IIdle, IBuilding, IDescending, IUnwinding,
                    Linked, Cleared, Links
<1>b. ASSUME phase = "item" PROVE
      LET grown == NodeNew(list)
      IN /\ grown \in Lists
         /\ grown.count = list.count + 1 /\ grown.end = list.count + 1 /\ grown.start = 1
         /\ \A node \in 1..list.count : grown.next[node] = node + 1
         /\ \A node \in 1..MaxNodes : node > list.count => grown.next[node] = Null
  <2>1. /\ list.end = list.count /\ list.count >= 1 /\ list.count < MaxNodes
        /\ list.start = 1 /\ Linked /\ Cleared
    BY <1>b DEF IInv, IBuilding
  <2> QED
    BY <1>t, <2>1, NodeNewLinks DEF Linked, Cleared
<1>c. ASSUME phase = "item" PROVE calls = << >> /\ alive = 1..list.count
  BY <1>c DEF IInv, IBuilding
<1>3. CASE NewNode
  <2>1. phase = "item" /\ list' = NodeNew(list) /\ list.count < MaxNodes - 1
    BY <1>3 DEF NewNode
  <2>2. /\ list' \in Lists
        /\ list'.count = list.count + 1 /\ list'.end = list.count + 1 /\ list'.start = 1
        /\ \A node \in 1..list.count : list'.next[node] = node + 1
        /\ \A node \in 1..MaxNodes : node > list.count => list'.next[node] = Null
    BY <1>b, <2>1
  <2>3. Linked' /\ Cleared' /\ alive' = 1..list'.count
    BY <1>3, <1>c, <1>t, <2>1, <2>2 DEF NewNode, Linked, Cleared, Links
  <2> QED
    BY <1>3, <1>c, <1>t, <2>1, <2>2, <2>3
    DEF NewNode, IInv, ITypes, IIdle, IBuilding, IDescending, IUnwinding, Links
<1>4. ASSUME NEW node \in 1..list.count, PushDown(node) PROVE IInv'
  <2> DEFINE grown == NodeNew(list)
  <2>1. phase = "item" /\ list.count < MaxNodes - 1
        /\ list' = [grown EXCEPT !.next[grown.count] = grown.next[node]]
    BY <1>4 DEF PushDown, NodeCopy
  <2>2. /\ grown \in Lists
        /\ grown.count = list.count + 1 /\ grown.end = list.count + 1 /\ grown.start = 1
        /\ \A n \in 1..list.count : grown.next[n] = n + 1
        /\ \A n \in 1..MaxNodes : n > list.count => grown.next[n] = Null
    BY <1>b, <2>1
  <2> HIDE DEF grown
  <2>3. /\ grown.next \in [1..MaxNodes -> Links]
        /\ node \in 1..MaxNodes /\ grown.count \in 1..MaxNodes
    BY <1>t, <2>1, <2>2 DEF Lists, Links
  <2>4. /\ list'.count = list.count + 1 /\ list'.end = list.count + 1 /\ list'.start = 1
        /\ list'.next = [grown.next EXCEPT ![grown.count] = grown.next[node]]
        /\ list' = [count |-> grown.count, start |-> grown.start, end |-> grown.end,
                    next |-> list'.next]
    BY <2>1, <2>2 DEF Lists
  <2>5. list' \in Lists
    <3>1. list'.next \in [1..MaxNodes -> Links]
      BY <2>3, <2>4
    <3> QED
      BY <2>2, <2>4, <3>1 DEF Lists
  <2>6. \A n \in 1..MaxNodes : n # list.count + 1 => list'.next[n] = grown.next[n]
    BY <2>2, <2>3, <2>4
  <2>7. Linked' /\ Cleared'
    BY <1>t, <2>1, <2>2, <2>4, <2>6 DEF Linked, Cleared, Links
  <2>8. alive' = 1..list'.count
    <3>1. alive' = alive \union {list.count + 1} /\ alive = 1..list.count
      BY <1>4, <1>c, <2>1, <2>4 DEF PushDown
    <3>2. list.count \in Nat /\ list'.count = list.count + 1
      BY <1>t, <2>4 DEF Links
    <3> QED
      BY <3>1, <3>2
  <2> QED
    BY <1>4, <1>c, <1>t, <2>1, <2>4, <2>5, <2>7, <2>8
    DEF PushDown, IInv, ITypes, IIdle, IBuilding, IDescending, IUnwinding, Links
<1>5. CASE EndItem
  <2>1. phase = "item" /\ list' = NodeNew(list) /\ list.count < MaxNodes
    BY <1>5 DEF EndItem, IInv, IBuilding
  <2>2. /\ list' \in Lists
        /\ list'.count = list.count + 1 /\ list'.end = list.count + 1 /\ list'.start = 1
        /\ \A node \in 1..list.count : list'.next[node] = node + 1
        /\ \A node \in 1..MaxNodes : node > list.count => list'.next[node] = Null
    BY <1>b, <2>1
  <2>3. Linked' /\ Ended' /\ Cleared' /\ alive' = 1..list'.count
    BY <1>5, <1>c, <1>t, <2>1, <2>2 DEF EndItem, Linked, Ended, Cleared, Links
  <2> QED
    BY <1>5, <1>c, <1>t, <2>1, <2>2, <2>3
    DEF EndItem, IInv, ITypes, IIdle, IBuilding, IDescending, IUnwinding, Links
<1>6. CASE BeginFree
  <2>1. /\ phase = "top" /\ list.start = 1 /\ list.count >= 1
        /\ Linked /\ Ended /\ alive = 1..list.count
    BY <1>6 DEF BeginFree, IInv, IBuilding
  <2>2. calls' = <<1>> /\ list' = list
    BY <1>6, <2>1 DEF BeginFree
  <2>3. calls' \in Seq(1..list.count) /\ InOrder' /\ Len(calls') = 1
    BY <1>t, <2>1, <2>2 DEF InOrder, Links
  <2> QED
    BY <1>6, <1>t, <2>1, <2>2, <2>3
    DEF BeginFree, IInv, ITypes, IIdle, IBuilding, IDescending, IUnwinding,
        Linked, Ended, Links
<1>d. ASSUME phase = "descend" PROVE
      /\ Linked /\ Ended /\ alive = 1..list.count /\ InOrder
      /\ Len(calls) \in 1..list.count /\ Node = Len(calls)
  BY <1>d DEF IInv, IDescending, InOrder, Node
<1>7. CASE FreeNext
  <2>1. /\ phase = "descend" /\ list.next[Node] # Null
        /\ calls' = Append(calls, list.next[Node])
    BY <1>7 DEF FreeNext
  <2>2. Node < list.count /\ list.next[Node] = Node + 1
    BY <1>d, <1>t, <2>1 DEF Linked, Ended, Links
  <2>3. /\ calls' \in Seq(1..list.count) /\ Len(calls') = Len(calls) + 1
        /\ \A i \in 1..Len(calls) : calls'[i] = calls[i]
        /\ calls'[Len(calls) + 1] = Node + 1
    BY <1>d, <1>t, <2>1, <2>2 DEF Links
  <2>4. InOrder' /\ Len(calls') \in 1..list.count
    BY <1>d, <1>t, <2>1, <2>2, <2>3 DEF InOrder, Links
  <2> QED
    BY <1>7, <1>d, <1>t, <2>3, <2>4
    DEF FreeNext, IInv, ITypes, IIdle, IBuilding, IDescending, IUnwinding, Linked, Ended
<1>8. CASE EndOfList
  <2>1. phase = "descend" /\ list.next[Node] = Null /\ list' = [list EXCEPT !.end = Null]
    BY <1>8 DEF EndOfList
  <2>2. Node = list.count
    BY <1>d, <1>t, <2>1 DEF Linked, Null, Links
  <2>3. list' \in Lists /\ list'.count = list.count
    <3>1. list' = [count |-> list.count, start |-> list.start, end |-> Null,
                   next |-> list.next]
      BY <1>t, <2>1 DEF Lists
    <3>2. Null \in Links
      BY DEF Null, Links
    <3> QED
      BY <1>t, <3>1, <3>2 DEF Lists
  <2>4. /\ phase' = "unwind" /\ calls' = calls /\ alive' = alive
        /\ list'.end = Null
        /\ compilations' = compilations
    BY <1>8, <1>t DEF EndOfList, Lists
  <2>5. ITypes'
    BY <1>t, <2>3, <2>4 DEF IInv, ITypes
  <2>6. IUnwinding'
    BY <1>d, <2>1, <2>2, <2>3, <2>4 DEF IUnwinding, InOrder
  <2> QED
    BY <2>4, <2>5, <2>6 DEF IInv, IIdle, IBuilding, IDescending
<1>9. CASE FreeNode
  <2>1. /\ phase = "unwind" /\ InOrder /\ Len(calls) \in 1..list.count
        /\ alive = 1..Len(calls) /\ Node = Len(calls)
    BY <1>9 DEF FreeNode, IInv, IUnwinding, InOrder, Node
  <2>2. /\ calls' = SubSeq(calls, 1, Len(calls) - 1) /\ alive' = alive \ {Node}
        /\ phase' = (IF Len(calls) = 1 THEN "idle" ELSE "unwind")
        /\ list' = list /\ compilations' = compilations
    BY <1>9 DEF FreeNode
  <2>3. /\ calls' \in Seq(1..list.count) /\ Len(calls') = Len(calls) - 1
        /\ \A i \in 1..(Len(calls) - 1) : calls'[i] = calls[i]
    BY <1>t, <2>1, <2>2 DEF Links
  <2>4. ITypes'
    BY <2>2, <2>3 DEF IInv, ITypes
  <2>5. alive' = 1..Len(calls')
    BY <1>t, <2>1, <2>2, <2>3 DEF Links
  <2>6. CASE Len(calls) = 1
    <3>1. calls' = << >> /\ alive' = {}
      BY <2>3, <2>5, <2>6
    <3>2. list.end = Null
      BY <2>1 DEF IInv, IUnwinding
    <3> QED
      BY <2>2, <2>4, <2>6, <3>1, <3>2
      DEF IInv, IIdle, IBuilding, IDescending, IUnwinding
  <2>7. CASE Len(calls) # 1
    <3>1. InOrder' /\ Len(calls') \in 1..list'.count
      BY <1>t, <2>1, <2>2, <2>3, <2>7 DEF InOrder, Links
    <3>2. list.end = Null
      BY <2>1 DEF IInv, IUnwinding
    <3> QED
      BY <2>2, <2>4, <2>5, <2>7, <3>1, <3>2
      DEF IInv, IIdle, IBuilding, IDescending, IUnwinding
  <2> QED
    BY <2>6, <2>7
<1>10. CASE UNCHANGED vars
  BY <1>10 DEF vars, IInv, ITypes, IIdle, IBuilding, IDescending, IUnwinding,
               Linked, Ended, Cleared, InOrder
<1> QED
  BY <1>1, <1>2, <1>3, <1>4, <1>5, <1>6, <1>7, <1>8, <1>9, <1>10 DEF Next, AstFree

-----------------------------------------------------------------------------
(* The inductive invariant holds in every state of every behaviour.        *)
THEOREM Invariance == Spec => []IInv
BY InitIInv, NextIInv, PTL DEF Spec

(* While the tree is built, next_mem leads through every node: ast_free    *)
(* will find all of them, whatever was copied over what.                   *)
THEOREM AllReachable == Spec => []ListReachesAll
<1>1. IInv => ListReachesAll
  BY DEF IInv, IBuilding, Linked, Ended, ListReachesAll
<1> QED
  BY <1>1, Invariance, PTL

(* ast_node_free touches only nodes that are still allocated, each once.   *)
THEOREM NoDoubleFree == Spec => []FreedOnce
<1>1. IInv => FreedOnce
  BY SMTT(30) DEF ITypes, Links, IInv, IDescending, IUnwinding, InOrder, FreedOnce, Freeing
<1> QED
  BY <1>1, Invariance, PTL

(* When ast_free has returned, no node is left and the list is reset.      *)
THEOREM EverythingFreed == Spec => []NothingLeaks
<1>1. IInv => NothingLeaks
  BY DEF IInv, IIdle, NothingLeaks
<1> QED
  BY <1>1, Invariance, PTL

(* Every variable keeps its type: no node outside the list is alive, and   *)
(* calls of ast_node_free are open exactly while the tree is being freed.  *)
THEOREM Typing == Spec => []TypeOK
<1>1. IInv => TypeOK
  <2> SUFFICES ASSUME IInv PROVE TypeOK
    OBVIOUS
  <2>1. ITypes /\ list.count \in Nat
    BY MemoryAssumption DEF IInv, ITypes, Lists, Links
  <2>2. alive \subseteq 1..list.count
    BY <2>1 DEF IInv, ITypes, IIdle, IBuilding, IDescending, IUnwinding
  <2>3. calls = << >> <=> ~Freeing
    BY <2>1 DEF IInv, ITypes, IIdle, IBuilding, IDescending, IUnwinding, Freeing
  <2> QED
    BY <2>1, <2>2, <2>3 DEF ITypes, Lists, TypeOK
<1> QED
  BY <1>1, Invariance, PTL

-----------------------------------------------------------------------------
(* What is still to do while the tree is freed: the calls that are still   *)
(* to be made, the end of the list, and the returns from all of them.      *)
Remaining ==
  IF phase = "descend" THEN 2 * list.count - Len(calls) + 1 ELSE Len(calls)

\* Dropping the last element of a sequence takes one off its length.
LEMMA DropLast ==
  ASSUME NEW S, NEW s \in Seq(S), Len(s) >= 1
  PROVE  Len(SubSeq(s, 1, Len(s) - 1)) = Len(s) - 1
<1>1. Len(s) - 1 \in Int /\ \A i \in 1..(Len(s) - 1) : s[i] \in S
  OBVIOUS
<1>2. Len(SubSeq(s, 1, Len(s) - 1)) = IF 1 <= Len(s) - 1 THEN (Len(s) - 1) - 1 + 1 ELSE 0
  BY <1>1, SubSeqProperties
<1> QED
  BY <1>2

(* ast_free cannot run in a circle: each of its steps, the return from the *)
(* first call included, brings a natural number closer to 0.  With the     *)
(* fairness of FairSpec this is why it returns when the stack suffices.    *)
THEOREM FreeAdvances ==
  Spec => [][AstFree => Remaining \in Nat /\ Remaining' \in Nat /\ Remaining' < Remaining]_vars
<1>1. ASSUME IInv, AstFree
      PROVE  Remaining \in Nat /\ Remaining' \in Nat /\ Remaining' < Remaining
  <2>1. list.count \in Nat /\ calls \in Seq(1..list.count)
    BY <1>1, MemoryAssumption DEF IInv, ITypes, Lists, Links
  <2>2. CASE FreeNext
    <3>1. phase = "descend" /\ phase' = "descend" /\ list' = list
          /\ calls' = Append(calls, list.next[Node])
      BY <2>2 DEF FreeNext
    <3>2. Len(calls) \in 1..list.count /\ InOrder /\ Linked /\ Ended
      BY <1>1, <3>1 DEF IInv, IDescending
    <3>3. Len(calls) < list.count
      BY <2>1, <2>2, <3>1, <3>2 DEF FreeNext, Node, InOrder, Ended
    <3>4. Len(calls') = Len(calls) + 1
      BY <2>1, <3>1
    <3> QED
      BY <2>1, <3>1, <3>2, <3>3, <3>4 DEF Remaining
  <2>3. CASE EndOfList
    <3>1. phase = "descend" /\ phase' = "unwind" /\ calls' = calls
          /\ list' = [list EXCEPT !.end = Null]
      BY <2>3 DEF EndOfList
    <3>2. Len(calls) \in 1..list.count
      BY <1>1, <3>1 DEF IInv, IDescending
    <3> QED
      BY <2>1, <3>1, <3>2 DEF Remaining
  <2>4. CASE FreeNode
    <3>1. phase = "unwind" /\ phase' \in {"idle", "unwind"}
          /\ calls' = SubSeq(calls, 1, Len(calls) - 1)
      BY <2>4 DEF FreeNode
    <3>2. Len(calls) \in 1..list.count
      BY <1>1, <3>1 DEF IInv, IUnwinding
    <3>3. Len(calls') = Len(calls) - 1
      <4>1. Len(calls) >= 1
        BY <2>1, <3>2
      <4> QED
        BY <2>1, <3>1, <4>1, DropLast
    <3> QED
      BY <2>1, <3>1, <3>2, <3>3 DEF Remaining
  <2> QED
    BY <1>1, <2>2, <2>3, <2>4 DEF AstFree
<1>2. IInv /\ [Next]_vars =>
        [AstFree => Remaining \in Nat /\ Remaining' \in Nat /\ Remaining' < Remaining]_vars
  BY <1>1
<1> QED
  BY <1>2, Invariance, PTL DEF Spec

=================================================================================

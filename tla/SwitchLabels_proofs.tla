------------------------- MODULE SwitchLabels_proofs -------------------------
(***************************************************************************)
(* Proofs about SwitchLabels: the lists of case labels are right and stay  *)
(* right, for every nesting of switches and blocks, every number of labels *)
(* and every set of values.                                                *)
(*                                                                         *)
(* The labels of all switches share one memory of links, so the properties *)
(* of one list are not inductive. IInv says which switch owns which link:  *)
(* those of an open switch are unset, and those of a finished one lead     *)
(* only to later labels of the same switch.                                *)
(***************************************************************************)
EXTENDS SwitchLabels, Induction, SequenceTheorems

-----------------------------------------------------------------------------
(* The inductive invariant *)

\* The switch scopes whose lookup is done.
Closed == {sw.scope : sw \in Switches}

\* The scope a label stands in.
ScopeOf(l) == labels[l].scope

\* The types of the variables.
ITypes ==
  /\ scopes \in Seq([parent : 0..MaxScopes, isSwitch : BOOLEAN]) /\ Len(scopes) >= 1
  /\ cur \in 0..Len(scopes)
  /\ labels \in Seq([scope : 1..Len(scopes), value : Values \union {Default}])
  /\ next \in Seq({Unset} \union (0..Len(labels))) /\ Len(next) = Len(labels)
  /\ switchCases \in Seq([scope : 1..Len(scopes), first : 0..Len(labels)])

\* Scopes are numbered in the order they are opened, so a parent has a
\* smaller number. A switch scope has its body as its only child, opened
\* right behind it, and no label stands in the switch scope itself.
ITree ==
  /\ \A s \in 1..Len(scopes) : scopes[s].parent \in 0..(s - 1)
  /\ \A s \in 1..Len(scopes) :
       scopes[s].isSwitch =>
         /\ \A c \in Children(s) : c = s + 1 /\ ~scopes[c].isSwitch
         /\ Children(s) = {} => s = Len(scopes) /\ cur = s
  /\ \A l \in 1..Len(labels) : ~scopes[ScopeOf(l)].isSwitch

\* The scopes not yet closed: the current one and those around it, none of
\* which is a switch that was looked up.
IOpen ==
  \E open \in SUBSET (1..Len(scopes)) :
    /\ cur \in open \union {0}
    /\ \A s \in open : scopes[s].parent \in open \union {0} /\ s \notin Closed

\* The order in which lists hold the labels: by scope, then by insertion. It
\* is why they end.
Precedes(l, k) == ScopeOf(l) < ScopeOf(k) \/ (ScopeOf(l) = ScopeOf(k) /\ l < k)

\* A label of switch sw that a lookup has linked points to a later label of
\* the same switch that is linked as well, or to NULL.
Linked(l, sw) ==
  next[l] \in {Unset, Null} \/
    (next[l] \in OwnLabels(sw) /\ Precedes(l, next[l]) /\ next[next[l]] # Unset)

\* A label's link was written by the lookup of its own switch and by no
\* other.
LinkRight(l) ==
  IF SwitchOf[ScopeOf(l)] \in Closed THEN Linked(l, SwitchOf[ScopeOf(l)]) ELSE next[l] = Unset

ILinks == \A l \in 1..Len(labels) : LinkRight(l)

\* What a finished switch has: a body, a first label that is one of its own
\* and linked, and the labels of the body in a chain from the first one on.
HeadRight(sw) ==
  LET body == sw.scope + 1
  IN /\ scopes[sw.scope].isSwitch
     /\ body \in 1..Len(scopes) /\ scopes[body].parent = sw.scope
     /\ sw.first # Null => sw.first \in OwnLabels(sw.scope) /\ next[sw.first] # Unset
     /\ At(body) # {} => sw.first = After(body, 0)
     /\ \A l \in At(body) : After(body, l) # Null => next[l] = After(body, l)

IHeads == \A sw \in Switches : HeadRight(sw)

(***************************************************************************)
(* The lists of the finished switches, as the variables show them: which   *)
(* of the labels a walk meets does not depend on what is parsed later,     *)
(* because a later lookup writes only labels of the switch it is for.      *)
(***************************************************************************)
IInv == ITypes /\ ITree /\ IOpen /\ ILinks /\ IHeads

-----------------------------------------------------------------------------
(* Types *)

\* Min of a nonempty set of numbers.
LEMMA LeastOf ==
  ASSUME NEW S, NEW n \in Nat, S \subseteq 0..n, S # {}
  PROVE  Min(S) \in S /\ \A k \in S : Min(S) <= k
<1>1. PICK m \in S : \A k \in S : m <= k
  <2>1. S \subseteq Nat
    OBVIOUS
  <2> QED
    BY <2>1, LeastNumber
<1>2. QED
  BY <1>1 DEF Min

\* Max of a nonempty set of numbers.
LEMMA GreatestOf ==
  ASSUME NEW S, NEW n \in Nat, S \subseteq 0..n, S # {}
  PROVE  Max(S) \in S /\ \A k \in S : k <= Max(S)
<1>1. PICK m \in S : \A k \in S : k <= m
  BY GreatestNumber
<1>2. QED
  BY <1>1 DEF Max

\* A sequence over a set is one over every larger set.
LEMMA Widen ==
  ASSUME NEW S, NEW T, S \subseteq T, NEW q \in Seq(S)
  PROVE  q \in Seq(T)
BY \A i \in 1..Len(q) : q[i] \in T

\* The fields of scopes.
LEMMA ScopeTypes ==
  ASSUME ITypes
  PROVE  /\ Len(scopes) \in Nat
         /\ \A s \in 1..Len(scopes) :
              scopes[s].parent \in 0..MaxScopes /\ scopes[s].isSwitch \in BOOLEAN
<1> DEFINE S == [parent : 0..MaxScopes, isSwitch : BOOLEAN]
<1>1. scopes \in Seq(S)
  BY DEF ITypes
<1>2. \A s \in 1..Len(scopes) : scopes[s] \in S
  <2> HIDE DEF S
  <2> QED
    BY <1>1, ElementOfSeq
<1> QED
  BY <1>1, <1>2

\* The fields of labels, and their links.
LEMMA LabelTypes ==
  ASSUME ITypes
  PROVE  /\ Len(labels) \in Nat
         /\ \A l \in 1..Len(labels) :
              /\ ScopeOf(l) \in 1..Len(scopes)
              /\ labels[l].value \in Values \union {Default}
              /\ next[l] \in {Unset} \union (0..Len(labels))
<1>1. labels \in Seq([scope : 1..Len(scopes), value : Values \union {Default}])
  BY DEF ITypes
<1>2. \A l \in 1..Len(labels) :
         labels[l] \in [scope : 1..Len(scopes), value : Values \union {Default}]
  <2> DEFINE S == [scope : 1..Len(scopes), value : Values \union {Default}]
  <2> HIDE DEF S
  <2> QED
    BY <1>1, ElementOfSeq
<1>3. Len(labels) \in Nat
  BY <1>1
<1>4. \A l \in 1..Len(labels) : next[l] \in {Unset} \union (0..Len(labels))
  BY DEF ITypes
<1> QED
  BY <1>2, <1>3, <1>4 DEF ScopeOf

\* The fields of the switches parsed.
LEMMA SwitchTypes ==
  ASSUME ITypes, NEW sw \in Switches
  PROVE  sw.scope \in 1..Len(scopes) /\ sw.first \in 0..Len(labels) /\ sw.scope \in Closed
<1> DEFINE S == [scope : 1..Len(scopes), first : 0..Len(labels)]
<1>1. switchCases \in Seq(S)
  BY DEF ITypes
<1>2. sw \in S
  <2> HIDE DEF S
  <2> QED
    BY <1>1, ElementOfSeq DEF Switches
<1> QED
  BY <1>2 DEF Closed

-----------------------------------------------------------------------------
(* The innermost switch around a scope *)

\* SwitchOf is the function its definition describes: parents are smaller.
LEMMA SwitchOfEq ==
  ASSUME ITypes, ITree
  PROVE  SwitchOf = [s \in 0..Len(scopes) |->
                       IF s = 0 THEN 0
                       ELSE IF scopes[s].isSwitch THEN s ELSE SwitchOf[scopes[s].parent]]
<1> DEFINE up == [s \in 1..Len(scopes) |-> scopes[s].parent]
           stop == {s \in 1..Len(scopes) : scopes[s].isSwitch}
<1>1. Len(scopes) \in Nat
  BY DEF ITypes
<1>2. \A s \in 1..Len(scopes) : up[s] \in 0..(s - 1)
  BY DEF ITree
<1>3. PICK f \in [0..Len(scopes) -> Nat] : Climbs(f, Len(scopes), up, stop)
  <2> HIDE DEF up, stop
  <2> QED
    BY <1>1, <1>2, Climbing
<1>4. f = [s \in 0..Len(scopes) |->
             IF s = 0 THEN 0 ELSE IF scopes[s].isSwitch THEN s ELSE f[scopes[s].parent]]
  <2>1. \A s \in 0..Len(scopes) : s # 0 => s \in 1..Len(scopes)
    BY <1>1
  <2>2. f = [s \in 0..Len(scopes) |-> f[s]]
    BY <1>3
  <2>3. \A s \in 0..Len(scopes) :
          f[s] = IF s = 0 THEN 0 ELSE IF scopes[s].isSwitch THEN s ELSE f[scopes[s].parent]
    BY <1>3, <2>1 DEF Climbs
  <2> QED
    BY <2>2, <2>3
<1>5. QED
  BY <1>4, Zenon DEF SwitchOf

\* The switch around a scope is a switch scope that opened no later.
LEMMA SwitchFacts ==
  ASSUME ITypes, ITree
  PROVE  /\ SwitchOf \in [0..Len(scopes) -> 0..Len(scopes)]
         /\ SwitchOf[0] = 0
         /\ \A s \in 1..Len(scopes) :
              SwitchOf[s] = IF scopes[s].isSwitch THEN s ELSE SwitchOf[scopes[s].parent]
         /\ \A s \in 1..Len(scopes) :
              SwitchOf[s] # 0 => SwitchOf[s] \in 1..s /\ scopes[SwitchOf[s]].isSwitch
<1> DEFINE N == Len(scopes)
           fine(s) == SwitchOf[s] \in 0..s /\ (SwitchOf[s] # 0 => scopes[SwitchOf[s]].isSwitch)
           good == {n \in Nat : n <= N => \A s \in 0..n : fine(s)}
<1>1. N \in Nat
  BY DEF ITypes
<1>2. SwitchOf[0] = 0
  <2>1. 0 \in 0..N
    BY <1>1
  <2> QED
    BY <2>1, SwitchOfEq
<1>3. ASSUME NEW s \in 1..N
      PROVE  SwitchOf[s] = IF scopes[s].isSwitch THEN s ELSE SwitchOf[scopes[s].parent]
  <2>1. s \in 0..N /\ s # 0
    BY <1>1
  <2> QED
    BY <2>1, SwitchOfEq
<1>4. 0 \in good
  BY <1>2
<1>5. ASSUME NEW n \in Nat, n \in good
      PROVE  n + 1 \in good
  <2>1. SUFFICES ASSUME n + 1 <= N, NEW s \in 0..(n + 1)
                 PROVE  fine(s)
    OBVIOUS
  <2>2. \A t \in 0..n : fine(t)
    BY <1>1, <1>5, <2>1
  <2>3. CASE s \in 0..n
    BY <2>2, <2>3
  <2>4. CASE s = n + 1
    <3>1. s \in 1..N /\ s # 0
      BY <1>1, <2>1, <2>4
    <3>2. scopes[s].parent \in 0..(s - 1)
      BY <3>1 DEF ITree
    <3>3. scopes[s].parent \in 0..n
      BY <2>4, <3>2
    <3>4. CASE scopes[s].isSwitch
      BY <1>3, <3>1, <3>4
    <3>5. CASE ~scopes[s].isSwitch
      <4>1. fine(scopes[s].parent) /\ SwitchOf[s] = SwitchOf[scopes[s].parent]
        BY <1>3, <2>2, <3>1, <3>3, <3>5
      <4> QED
        BY <2>4, <3>3, <4>1
    <3> QED
      BY <3>4, <3>5
  <2> QED
    BY <2>3, <2>4
<1>6. N \in good
  <2>1. \A n \in Nat : n \in good
    <3> HIDE DEF good
    <3> QED
      BY <1>4, <1>5, Induction
  <2> QED
    BY <1>1, <2>1
<1>7. \A s \in 0..N : fine(s)
  BY <1>1, <1>6
<1>8. SwitchOf \in [0..N -> 0..N]
  <2>1. SwitchOf = [s \in 0..N |-> SwitchOf[s]]
    BY SwitchOfEq
  <2>2. \A s \in 0..N : SwitchOf[s] \in 0..N
    BY <1>1, <1>7
  <2> QED
    BY <2>1, <2>2
<1>9. ASSUME NEW s \in 1..N, SwitchOf[s] # 0
      PROVE  SwitchOf[s] \in 1..s /\ scopes[SwitchOf[s]].isSwitch
  <2>1. s \in 0..N
    BY <1>1
  <2> QED
    BY <1>7, <1>9, <2>1
<1> QED
  BY <1>2, <1>3, <1>8, <1>9

\* A block belongs to the switch its parent belongs to.
LEMMA InRegion ==
  ASSUME ITypes, ITree, NEW c \in 1..Len(scopes), ~scopes[c].isSwitch, scopes[c].parent # 0
  PROVE  SwitchOf[c] = SwitchOf[scopes[c].parent]
<1>1. Len(scopes) \in Nat
  BY DEF ITypes
<1>2. c \in 0..Len(scopes) /\ c # 0
  BY <1>1
<1>3. QED
  BY <1>2, SwitchOfEq

\* The equations of SwitchOf as a formula of one state,
LEMMA SwitchFactsNow ==
  ITypes /\ ITree =>
    /\ SwitchOf[0] = 0
    /\ \A s \in 1..Len(scopes) :
         SwitchOf[s] = IF scopes[s].isSwitch THEN s ELSE SwitchOf[scopes[s].parent]
BY SwitchFacts

\* and of the state after a step.
LEMMA SwitchFactsAfter ==
  ASSUME ITypes', ITree'
  PROVE  /\ SwitchOf'[0] = 0
         /\ \A s \in 1..Len(scopes') :
              SwitchOf'[s] = IF scopes'[s].isSwitch THEN s ELSE SwitchOf'[scopes'[s].parent]
<1>1. (ITypes /\ ITree =>
         /\ SwitchOf[0] = 0
         /\ \A s \in 1..Len(scopes) :
              SwitchOf[s] = IF scopes[s].isSwitch THEN s ELSE SwitchOf[scopes[s].parent])'
  BY SwitchFactsNow, PTL
<1> QED
  BY <1>1

\* Opening scopes does not move the scopes there are to another switch.
LEMMA SwitchKept ==
  ASSUME ITypes, ITree, ITypes', ITree', Len(scopes) <= Len(scopes'),
         \A s \in 1..Len(scopes) : scopes'[s] = scopes[s]
  PROVE  \A s \in 0..Len(scopes) : SwitchOf'[s] = SwitchOf[s]
<1> DEFINE N == Len(scopes)
           good == {n \in Nat : n <= N => \A s \in 0..n : SwitchOf'[s] = SwitchOf[s]}
<1>1. N \in Nat /\ Len(scopes') \in Nat
  BY DEF ITypes
<1>2. 0 \in good
  BY SwitchFacts, SwitchFactsAfter
<1>3. ASSUME NEW n \in Nat, n \in good
      PROVE  n + 1 \in good
  <2>1. SUFFICES ASSUME n + 1 <= N, NEW s \in 0..(n + 1)
                 PROVE  SwitchOf'[s] = SwitchOf[s]
    OBVIOUS
  <2>2. \A t \in 0..n : SwitchOf'[t] = SwitchOf[t]
    BY <1>1, <1>3, <2>1
  <2>3. CASE s \in 0..n
    BY <2>2, <2>3
  <2>4. CASE s = n + 1
    <3>1. s \in 1..N /\ s \in 1..Len(scopes') /\ scopes'[s] = scopes[s]
      BY <1>1, <2>1, <2>4
    <3>2. scopes[s].parent \in 0..n
      <4>1. scopes[s].parent \in 0..(s - 1)
        BY <3>1 DEF ITree
      <4> QED
        BY <2>4, <4>1
    <3>3. SwitchOf'[s] = IF scopes[s].isSwitch THEN s ELSE SwitchOf'[scopes[s].parent]
      BY <3>1, SwitchFactsAfter
    <3>4. SwitchOf[s] = IF scopes[s].isSwitch THEN s ELSE SwitchOf[scopes[s].parent]
      BY <3>1, SwitchFacts
    <3> QED
      BY <2>2, <3>2, <3>3, <3>4
  <2> QED
    BY <2>3, <2>4
<1>4. \A n \in Nat : n \in good
  <2> HIDE DEF good
  <2> QED
    BY <1>2, <1>3, Induction
<1>5. N \in good
  BY <1>1, <1>4
<1> QED
  BY <1>1, <1>5

\* SwitchOf and Children depend on the scopes only.
LEMMA SameScopes ==
  ASSUME IInv, scopes' = scopes
  PROVE  SwitchOf' = SwitchOf /\ \A s : Children(s)' = Children(s)
BY DEF SwitchOf, Children

\* The switches around open scopes are open.
LEMMA OpenSwitchOf ==
  ASSUME ITypes, ITree, NEW open, open \subseteq 1..Len(scopes),
         \A s \in open : scopes[s].parent \in open \union {0}
  PROVE  \A s \in open : SwitchOf[s] \in open \union {0}
<1> DEFINE N == Len(scopes)
           good == {n \in Nat : n <= N => \A s \in open : s <= n => SwitchOf[s] \in open \union {0}}
<1>1. N \in Nat
  BY DEF ITypes
<1>2. 0 \in good
  OBVIOUS
<1>3. ASSUME NEW n \in Nat, n \in good
      PROVE  n + 1 \in good
  <2>1. SUFFICES ASSUME n + 1 <= N, NEW s \in open, s <= n + 1
                 PROVE  SwitchOf[s] \in open \union {0}
    OBVIOUS
  <2>2. \A t \in open : t <= n => SwitchOf[t] \in open \union {0}
    BY <1>1, <1>3, <2>1
  <2>3. s \in 1..N /\ scopes[s].parent \in 0..(s - 1) /\ scopes[s].parent \in open \union {0}
    BY DEF ITree
  <2>4. scopes[s].parent <= n
    BY <1>1, <2>1, <2>3
  <2>5. SwitchOf[s] = IF scopes[s].isSwitch THEN s ELSE SwitchOf[scopes[s].parent]
    BY <2>3, SwitchFacts
  <2>6. SwitchOf[0] = 0
    BY SwitchFacts
  <2> QED
    BY <2>2, <2>3, <2>4, <2>5, <2>6
<1>4. \A n \in Nat : n \in good
  <2> HIDE DEF good
  <2> QED
    BY <1>2, <1>3, Induction
<1>5. N \in good
  BY <1>1, <1>4
<1> QED
  BY <1>1, <1>5

-----------------------------------------------------------------------------
(* symbol_table_lookup_switch_case_labels *)

\* After(s, l) is the next label of s, if there is one.
LEMMA AfterIn ==
  ASSUME ITypes, NEW s, NEW l \in Nat
  PROVE  /\ After(s, l) = Null \/ (After(s, l) \in At(s) /\ After(s, l) > l)
         /\ After(s, l) \in 0..Len(labels)
         /\ (\E k \in At(s) : k > l) => After(s, l) \in At(s)
         /\ \A k \in At(s) : k > l => After(s, l) <= k
<1> DEFINE later == {k \in At(s) : k > l}
<1>1. Len(labels) \in Nat /\ At(s) \subseteq 1..Len(labels)
  BY DEF ITypes, At
<1>2. later # {} => Min(later) \in later /\ \A k \in later : Min(later) <= k
  BY <1>1, LeastOf
<1>3. After(s, l) = IF later = {} THEN Null ELSE Min(later)
  BY DEF After
<1> QED
  BY <1>1, <1>2, <1>3 DEF Null

\* The loop over the labels of a scope stays within the labels.
LEMMA HangType ==
  ASSUME ITypes, NEW s \in 1..Len(scopes), NEW label \in 0..Len(labels), NEW mem \in Memories
  PROVE  CurLabel(s, label) \in 0..Len(labels) /\ Hang(s, label, mem) \in Memories
<1>1. Len(labels) \in Nat /\ At(s) \subseteq 1..Len(labels)
  BY DEF ITypes, At
<1>2. At(s) # {} => Max(At(s)) \in At(s)
  BY <1>1, GreatestOf
<1>3. \A l \in 0..Len(labels) : After(s, l) \in 0..Len(labels)
  <2>1. ASSUME NEW l \in 0..Len(labels)
        PROVE  After(s, l) \in 0..Len(labels)
    <3> DEFINE later == {k \in At(s) : k > l}
    <3>1. later # {} => Min(later) \in later
      BY <1>1, LeastOf
    <3> QED
      BY <1>1, <3>1 DEF After, Null
  <2> QED
    BY <2>1
<1>4. CurLabel(s, label) \in 0..Len(labels)
  BY <1>1, <1>2 DEF CurLabel
<1>5. QED
  BY <1>1, <1>3, <1>4 DEF Hang, Memories

\* What Find[c] is: a function of scope, last label and memory.
Lookups == [1..Len(scopes) -> [0..Len(labels) -> [Memories -> Memories]]]

\* Find is the function its definition describes, child by child.
LEMMA FindEq ==
  ASSUME ITypes
  PROVE  /\ Find \in [1..(Len(scopes) + 1) -> Lookups]
         /\ \A s \in 1..Len(scopes), label \in 0..Len(labels), mem \in Memories :
           /\ Find[Len(scopes) + 1][s][label][mem] = mem
           /\ \A c \in 1..Len(scopes) :
                Find[c][s][label][mem] =
                  Find[c + 1][s][label]
                     [IF Entered(c, s)
                      THEN Find[c + 1][c][CurLabel(c, label)][Hang(c, label, mem)]
                      ELSE mem]
<1> DEFINE N == Len(scopes)
           inner(c, g) == [s \in 1..N |-> [label \in 0..Len(labels) |-> [mem \in Memories |->
               g[s][label][IF Entered(c, s)
                           THEN g[c][CurLabel(c, label)][Hang(c, label, mem)]
                           ELSE mem]]]]
           start == [s \in 1..N |-> [label \in 0..Len(labels) |-> [mem \in Memories |-> mem]]]
           step == [p \in (1..N) \X Lookups |-> inner(N + 1 - p[1], p[2])]
           Eq(f) == f = [c \in 1..(N + 1) |->
             [s \in 1..N |-> [label \in 0..Len(labels) |-> [mem \in Memories |->
               IF c > N THEN mem
               ELSE f[c + 1][s][label]
                 [IF Entered(c, s)
                  THEN f[c + 1][c][CurLabel(c, label)][Hang(c, label, mem)]
                  ELSE mem]]]]]
<1>1. N \in Nat
  BY DEF ITypes
<1>2. start \in Lookups
  BY DEF Lookups
<1>3. ASSUME NEW c \in 1..N, NEW g \in Lookups
      PROVE  inner(c, g) \in Lookups
  <2>1. ASSUME NEW s \in 1..N, NEW label \in 0..Len(labels), NEW mem \in Memories
        PROVE  g[s][label][IF Entered(c, s)
                           THEN g[c][CurLabel(c, label)][Hang(c, label, mem)]
                           ELSE mem]
                 \in Memories
    BY HangType DEF Lookups
  <2> QED
    BY <2>1 DEF Lookups
<1>4. step \in [(1..N) \X Lookups -> Lookups]
  <2>1. ASSUME NEW p \in (1..N) \X Lookups
        PROVE  inner(N + 1 - p[1], p[2]) \in Lookups
    <3>1. N + 1 - p[1] \in 1..N /\ p[2] \in Lookups
      BY <1>1
    <3> HIDE DEF inner
    <3> QED
      BY <1>3, <3>1
  <2> HIDE DEF inner
  <2> QED
    BY <2>1
<1>5. PICK f \in [0..N -> Lookups] : Iterates(f, N, start, step)
  <2> HIDE DEF start, step
  <2> QED
    BY <1>1, <1>2, <1>4, Iteration
<1> DEFINE found == [c \in 1..(N + 1) |-> f[N + 1 - c]]
<1>6. \A c \in 1..(N + 1) : N + 1 - c \in 0..N
  BY <1>1
<1>7. found \in [1..(N + 1) -> Lookups]
  BY <1>6
<1>8. found[N + 1] = start
  <2>1. N + 1 \in 1..(N + 1) /\ N + 1 - (N + 1) = 0
    BY <1>1
  <2>2. found[N + 1] = f[0]
    <3> HIDE DEF N
    <3> QED
      BY <2>1
  <2>3. f[0] = start
    BY <1>5 DEF Iterates
  <2> QED
    BY <2>2, <2>3
<1>9. ASSUME NEW c \in 1..N
      PROVE  found[c] = inner(c, found[c + 1])
  <2>1. N + 1 - c \in 1..N /\ (N + 1 - c) - 1 = N + 1 - (c + 1) /\ c + 1 \in 1..(N + 1)
    BY <1>1
  <2>2. found[c] = step[<<N + 1 - c, f[N + 1 - (c + 1)]>>]
    <3>1. found[c] = f[N + 1 - c]
      BY <2>1
    <3>2. f[N + 1 - c] = step[<<N + 1 - c, f[(N + 1 - c) - 1]>>]
      <4> HIDE DEF step, N, start
      <4> QED
        BY <1>5, <2>1 DEF Iterates
    <3> HIDE DEF step, N, found
    <3> QED
      BY <2>1, <3>1, <3>2
  <2>3. f[N + 1 - (c + 1)] = found[c + 1] /\ found[c + 1] \in Lookups
    BY <1>7, <2>1
  <2>4. step[<<N + 1 - c, found[c + 1]>>] = inner(N + 1 - (N + 1 - c), found[c + 1])
    <3> HIDE DEF inner, found
    <3> QED
      BY <2>1, <2>3
  <2>5. N + 1 - (N + 1 - c) = c
    BY <1>1
  <2> HIDE DEF inner, found, step
  <2> QED
    BY <2>2, <2>3, <2>4, <2>5
<1>10. Eq(found)
  <2>1. ASSUME NEW c \in 1..(N + 1)
        PROVE  found[c] = [s \in 1..N |-> [label \in 0..Len(labels) |-> [mem \in Memories |->
               IF c > N THEN mem
               ELSE found[c + 1][s][label]
                 [IF Entered(c, s)
                  THEN found[c + 1][c][CurLabel(c, label)][Hang(c, label, mem)]
                  ELSE mem]]]]
    <3>1. CASE c > N
      <4>1. c = N + 1
        BY <1>1, <3>1
      <4> HIDE DEF found
      <4> QED
        BY <1>8, <3>1, <4>1
    <3>2. CASE ~(c > N)
      <4>1. c \in 1..N
        BY <1>1, <3>2
      <4> HIDE DEF found
      <4> QED
        BY <1>9, <3>2, <4>1
    <3> QED
      BY <3>1, <3>2
  <2>2. found = [c \in 1..(N + 1) |-> found[c]]
    OBVIOUS
  <2> HIDE DEF found
  <2> QED
    BY <2>1, <2>2
<1>11. Eq(Find)
  <2>1. \E g : Eq(g)
    <3> HIDE DEF Eq, found
    <3> QED
      BY <1>10
  <2>2. Find = CHOOSE g : Eq(g)
    BY DEF Find
  <2> HIDE DEF Eq
  <2> QED
    BY <2>1, <2>2
<1>12. \A c \in 1..(N + 1) :
         Find[c] = [s \in 1..N |-> [label \in 0..Len(labels) |-> [mem \in Memories |->
               IF c > N THEN mem
               ELSE Find[c + 1][s][label]
                 [IF Entered(c, s)
                  THEN Find[c + 1][c][CurLabel(c, label)][Hang(c, label, mem)]
                  ELSE mem]]]]
  BY <1>11
<1>12a. Find[N + 1] = start
  <2>1. N + 1 \in 1..(N + 1) /\ N + 1 > N
    BY <1>1
  <2> HIDE DEF N
  <2> QED
    BY <1>12, <2>1
<1>12b. ASSUME NEW c \in 1..N
      PROVE  Find[c] = inner(c, Find[c + 1])
  <2>1. c \in 1..(N + 1) /\ ~(c > N)
    BY <1>1
  <2> HIDE DEF N
  <2> QED
    BY <1>12, <2>1
<1> DEFINE good == {n \in Nat : n <= N => Find[N + 1 - n] \in Lookups}
<1>13. \A n \in Nat : n \in good
  <2>1. 0 \in good
    <3>1. N + 1 - 0 = N + 1
      BY <1>1
    <3> HIDE DEF start
    <3> QED
      BY <1>2, <1>12a, <3>1
  <2>2. ASSUME NEW n \in Nat, n \in good
        PROVE  n + 1 \in good
    <3>1. SUFFICES ASSUME n + 1 <= N
                   PROVE  Find[N + 1 - (n + 1)] \in Lookups
      OBVIOUS
    <3>2. N + 1 - (n + 1) \in 1..N /\ (N + 1 - (n + 1)) + 1 = N + 1 - n
      BY <1>1, <3>1
    <3>3. Find[N + 1 - n] \in Lookups
      BY <1>1, <2>2, <3>1
    <3>4. Find[N + 1 - (n + 1)] = inner(N + 1 - (n + 1), Find[N + 1 - n])
      <4> HIDE DEF N, inner
      <4> QED
        BY <1>12b, <3>2
    <3> HIDE DEF inner
    <3> QED
      BY <1>3, <3>2, <3>3, <3>4
  <2> HIDE DEF good
  <2> QED
    BY <2>1, <2>2, Induction
<1>14. \A c \in 1..(N + 1) : Find[c] \in Lookups
  <2>1. ASSUME NEW c \in 1..(N + 1)
        PROVE  Find[c] \in Lookups
    <3>1. N + 1 - c \in Nat /\ N + 1 - c <= N /\ N + 1 - (N + 1 - c) = c
      BY <1>1
    <3> QED
      BY <1>13, <3>1
  <2> QED
    BY <2>1
<1>15. Find \in [1..(N + 1) -> Lookups]
  <2>1. Find = [c \in 1..(N + 1) |-> Find[c]]
    BY <1>11
  <2> QED
    BY <1>14, <2>1
<1>16. ASSUME NEW s \in 1..N, NEW label \in 0..Len(labels), NEW mem \in Memories
       PROVE  /\ Find[N + 1][s][label][mem] = mem
              /\ \A c \in 1..N : Find[c][s][label][mem] = inner(c, Find[c + 1])[s][label][mem]
  <2>1. start[s][label][mem] = mem
    OBVIOUS
  <2> HIDE DEF start, inner
  <2> QED
    BY <1>12a, <1>12b, <2>1
<1>17. QED
  BY <1>15, <1>16

\* Every label follows label 0, which is on the lookup's stack.
Follows(l, k) == l # 0 => Precedes(l, k)

\* In mem the labels of switch sw, and label 0, are linked as Linked says.
Chained(sw, mem) ==
  \A l \in OwnLabels(sw) \union {0} :
    mem[l] \in {Unset, Null} \/
      (mem[l] \in OwnLabels(sw) /\ Follows(l, mem[l]) /\ mem[mem[l]] # Unset)

\* The lookup from child c on, behind label: it writes only label and labels
\* of sw in scopes from c on, and leaves no link unset that was set.
Kept(sw, c, label, mem, r) ==
  \A l \in 0..Len(labels) :
    /\ r[l] # mem[l] => l = label \/ (l \in OwnLabels(sw) /\ ScopeOf(l) >= c)
    /\ mem[l] # Unset => r[l] # Unset

\* A place the labels of scope c, and of later ones, can be hung behind.
Before(sw, label, c) ==
  label \in OwnLabels(sw) \union {0} /\ (label # 0 => ScopeOf(label) < c)

\* The loop over the labels of a block of switch sw keeps the chain.
LEMMA HangKeeps ==
  ASSUME ITypes, NEW sw \in 1..Len(scopes), NEW c \in 1..Len(scopes), SwitchOf[c] = sw,
         NEW label, Before(sw, label, c), NEW mem \in Memories, Chained(sw, mem)
  PROVE  /\ Chained(sw, Hang(c, label, mem))
         /\ Kept(sw, c, label, mem, Hang(c, label, mem))
         /\ Before(sw, CurLabel(c, label), c + 1)
         /\ CurLabel(c, label) = label \/ CurLabel(c, label) \in At(c)
<1> DEFINE r == Hang(c, label, mem)
           Own == OwnLabels(sw)
<1>1. /\ Len(labels) \in Nat
      /\ \A l \in 1..Len(labels) : ScopeOf(l) \in 1..Len(scopes)
  BY LabelTypes
<1>2. Own \subseteq 1..Len(labels) /\ label \in 0..Len(labels)
  BY DEF OwnLabels, Before
<1>3. \A k \in At(c) : k \in Own /\ ScopeOf(k) = c /\ k \in 1..Len(labels)
  BY DEF OwnLabels, At, ScopeOf
<1>4. label \notin At(c)
  BY <1>1, <1>3 DEF Before, At
<1>5. \A l \in 0..Len(labels) :
        r[l] = IF l = label THEN After(c, 0) ELSE IF l \in At(c) THEN After(c, l) ELSE mem[l]
  BY DEF Hang, Memories
<1>6. \A l \in 0..Len(labels) :
        After(c, l) \in 0..Len(labels)
        /\ (After(c, l) = Null \/ (After(c, l) \in At(c) /\ After(c, l) > l))
  BY AfterIn
<1>7. \A k \in At(c) : r[k] \in 0..Len(labels)
  <2>1. ASSUME NEW k \in At(c)
        PROVE  r[k] \in 0..Len(labels)
    <3>1. k \in 0..Len(labels) /\ k # label
      BY <1>1, <1>3, <1>4
    <3>2. r[k] = After(c, k)
      BY <1>5, <3>1
    <3> QED
      BY <1>6, <3>1, <3>2
  <2> QED
    BY <2>1
<1>8. Kept(sw, c, label, mem, r)
  <2>1. ASSUME NEW l \in 0..Len(labels)
        PROVE  /\ r[l] # mem[l] => l = label \/ (l \in Own /\ ScopeOf(l) >= c)
               /\ mem[l] # Unset => r[l] # Unset
    <3>1. 0 \in 0..Len(labels)
      BY <1>1
    <3>2. After(c, 0) # Unset /\ After(c, l) # Unset
      BY <1>1, <1>6, <3>1 DEF Unset
    <3>3. l \in At(c) => l \in Own /\ ScopeOf(l) >= c
      BY <1>3
    <3> QED
      BY <1>5, <3>2, <3>3
  <2> QED
    BY <2>1 DEF Kept
<1>9. Chained(sw, r)
  <2>1. ASSUME NEW l \in Own \union {0}
        PROVE  r[l] \in {Unset, Null} \/ (r[l] \in Own /\ Follows(l, r[l]) /\ r[r[l]] # Unset)
    <3>1. l \in 0..Len(labels) /\ 0 \in 0..Len(labels)
      BY <1>1, <1>2
    <3>2. CASE l = label
      <4>1. r[l] = Null \/ r[l] \in At(c)
        BY <1>5, <1>6, <3>1, <3>2
      <4>2. r[l] \in At(c) => Follows(l, r[l])
        BY <1>3, <3>2 DEF Before, Follows, Precedes
      <4> QED
        BY <1>3, <1>7, <4>1, <4>2 DEF Unset
    <3>3. CASE l # label /\ l \in At(c)
      <4>1. r[l] = Null \/ (r[l] \in At(c) /\ r[l] > l)
        BY <1>5, <1>6, <3>1, <3>3
      <4>2. r[l] \in At(c) => Follows(l, r[l])
        BY <1>3, <3>3, <4>1 DEF Follows, Precedes, Null, At
      <4> QED
        BY <1>3, <1>7, <4>1, <4>2 DEF Unset
    <3>4. CASE l # label /\ l \notin At(c)
      <4>1. r[l] = mem[l]
        BY <1>5, <3>1, <3>4
      <4>2. mem[l] \in {Unset, Null}
              \/ (mem[l] \in Own /\ Follows(l, mem[l]) /\ mem[mem[l]] # Unset)
        BY DEF Chained
      <4>3. mem[l] \in Own => mem[l] \in 0..Len(labels)
        BY <1>2
      <4> QED
        BY <1>8, <4>1, <4>2, <4>3 DEF Kept
    <3> QED
      BY <3>2, <3>3, <3>4
  <2> QED
    BY <2>1 DEF Chained
<1>10. CurLabel(c, label) = label \/ CurLabel(c, label) \in At(c)
  <2>1. At(c) # {} => Max(At(c)) \in At(c)
    <3>1. At(c) \subseteq 0..Len(labels)
      BY DEF At
    <3> QED
      BY <1>1, <3>1, GreatestOf
  <2> QED
    BY <2>1 DEF CurLabel
<1>11. Before(sw, CurLabel(c, label), c + 1)
  <2>1. label # 0 => ScopeOf(label) \in Nat
    BY <1>1, <1>2
  <2> QED
    BY <1>2, <1>3, <1>10, <2>1 DEF Before
<1> QED
  BY <1>8, <1>9, <1>10, <1>11

\* So does the whole recursion, from any child on: induction over the
\* children, from the last one down. The memory that one child leaves is what
\* the next one starts from.
LEMMA FindKeeps ==
  ASSUME ITypes, ITree, NEW sw \in 1..Len(scopes)
  PROVE  \A c \in 1..(Len(scopes) + 1), s \in 1..Len(scopes),
            label \in 0..Len(labels), mem \in Memories :
           SwitchOf[s] = sw /\ Before(sw, label, c) /\ Chained(sw, mem) =>
             /\ Find[c][s][label][mem] \in Memories
             /\ Chained(sw, Find[c][s][label][mem])
             /\ Kept(sw, c, label, mem, Find[c][s][label][mem])
<1> DEFINE N == Len(scopes)
           Keeps(c) == \A s \in 1..N, label \in 0..Len(labels), mem \in Memories :
             SwitchOf[s] = sw /\ Before(sw, label, c) /\ Chained(sw, mem) =>
               /\ Find[c][s][label][mem] \in Memories
               /\ Chained(sw, Find[c][s][label][mem])
               /\ Kept(sw, c, label, mem, Find[c][s][label][mem])
           good == {n \in Nat : n <= N => Keeps(N + 1 - n)}
<1>1. N \in Nat
  BY DEF ITypes
<1>2. /\ \A l \in 1..Len(labels) : ScopeOf(l) \in 1..N
      /\ Len(labels) \in Nat
      /\ OwnLabels(sw) \subseteq 1..Len(labels)
  BY LabelTypes DEF OwnLabels
<1>3. Keeps(N + 1)
  <2>1. ASSUME NEW s \in 1..N, NEW label \in 0..Len(labels), NEW mem \in Memories
        PROVE  Find[N + 1][s][label][mem] = mem
    BY FindEq
  <2>2. ASSUME NEW label, NEW mem
        PROVE  Kept(sw, N + 1, label, mem, mem)
    BY DEF Kept
  <2> QED
    BY <2>1, <2>2
<1>4. ASSUME NEW c \in 1..N, Keeps(c + 1)
      PROVE  Keeps(c)
  <2> SUFFICES ASSUME NEW s \in 1..N, NEW label \in 0..Len(labels), NEW mem \in Memories,
                      SwitchOf[s] = sw, Before(sw, label, c), Chained(sw, mem)
               PROVE  /\ Find[c][s][label][mem] \in Memories
                      /\ Chained(sw, Find[c][s][label][mem])
                      /\ Kept(sw, c, label, mem, Find[c][s][label][mem])
    OBVIOUS
  <2>1. Before(sw, label, c + 1)
    BY <1>2 DEF Before
  <2> DEFINE hung == Hang(c, label, mem)
             inner == Find[c + 1][c][CurLabel(c, label)][hung]
  <2>2. CASE Entered(c, s)
    <3>1. SwitchOf[c] = sw
      BY <2>2, InRegion DEF Entered
    <3>2. CurLabel(c, label) \in 0..Len(labels) /\ hung \in Memories
      BY HangType
    <3>3. /\ Chained(sw, hung) /\ Kept(sw, c, label, mem, hung)
          /\ Before(sw, CurLabel(c, label), c + 1)
          /\ CurLabel(c, label) = label \/ CurLabel(c, label) \in At(c)
      BY <3>1, HangKeeps
    <3>4. inner \in Memories /\ Chained(sw, inner)
          /\ Kept(sw, c + 1, CurLabel(c, label), hung, inner)
      <4> HIDE DEF hung
      <4> QED
        BY <1>4, <3>1, <3>2, <3>3
    <3> DEFINE r == Find[c + 1][s][label][inner]
    <3>5. r \in Memories /\ Chained(sw, r) /\ Kept(sw, c + 1, label, inner, r)
      <4> HIDE DEF inner
      <4> QED
        BY <1>4, <2>1, <3>4
    <3>6. Kept(sw, c, label, mem, r)
      <4>1. \A l \in At(c) : l \in OwnLabels(sw) /\ ScopeOf(l) = c
        BY <3>1 DEF At, OwnLabels, ScopeOf
      <4>2. \A l \in OwnLabels(sw) : ScopeOf(l) >= c + 1 => ScopeOf(l) >= c
        BY <1>2
      <4>3. ASSUME NEW l \in 0..Len(labels)
            PROVE  /\ r[l] # mem[l] => l = label \/ (l \in OwnLabels(sw) /\ ScopeOf(l) >= c)
                   /\ mem[l] # Unset => r[l] # Unset
        <5>1. hung[l] # mem[l] => l = label \/ (l \in OwnLabels(sw) /\ ScopeOf(l) >= c)
          BY <3>3 DEF Kept
        <5>2. inner[l] # hung[l] => l = label \/ (l \in OwnLabels(sw) /\ ScopeOf(l) >= c)
          <6> HIDE DEF inner, hung
          <6> QED
            BY <3>3, <3>4, <4>1, <4>2 DEF Kept
        <5>3. r[l] # inner[l] => l = label \/ (l \in OwnLabels(sw) /\ ScopeOf(l) >= c)
          <6> HIDE DEF inner, r
          <6> QED
            BY <3>5, <4>2 DEF Kept
        <5>4. mem[l] # Unset => r[l] # Unset
          <6> HIDE DEF inner, r, hung
          <6> QED
            BY <3>3, <3>4, <3>5 DEF Kept
        <5> HIDE DEF inner, r, hung
        <5> QED
          BY <5>1, <5>2, <5>3, <5>4
      <4> HIDE DEF r
      <4> QED
        BY <4>3 DEF Kept
    <3>7. Find[c][s][label][mem] = r
      BY <2>2, FindEq
    <3> HIDE DEF r
    <3> QED
      BY <3>5, <3>6, <3>7
  <2>3. CASE ~Entered(c, s)
    <3> DEFINE r == Find[c + 1][s][label][mem]
    <3>1. r \in Memories /\ Chained(sw, r) /\ Kept(sw, c + 1, label, mem, r)
      BY <1>4, <2>1
    <3>2. Find[c][s][label][mem] = r
      BY <2>3, FindEq
    <3>3. Kept(sw, c, label, mem, r)
      <4>1. \A l \in OwnLabels(sw) : ScopeOf(l) >= c + 1 => ScopeOf(l) >= c
        BY <1>2
      <4> HIDE DEF r
      <4> QED
        BY <3>1, <4>1 DEF Kept
    <3> HIDE DEF r
    <3> QED
      BY <3>1, <3>2, <3>3
  <2> QED
    BY <2>2, <2>3
<1>5. \A n \in Nat : n \in good
  <2>1. 0 \in good
    <3>1. N + 1 - 0 = N + 1
      BY <1>1
    <3> HIDE DEF Keeps
    <3> QED
      BY <1>3, <3>1
  <2>2. ASSUME NEW n \in Nat, n \in good
        PROVE  n + 1 \in good
    <3>1. SUFFICES ASSUME n + 1 <= N
                   PROVE  Keeps(N + 1 - (n + 1))
      OBVIOUS
    <3>2. N + 1 - (n + 1) \in 1..N /\ (N + 1 - (n + 1)) + 1 = N + 1 - n
      BY <1>1, <3>1
    <3> HIDE DEF Keeps
    <3>3. Keeps(N + 1 - n)
      BY <1>1, <2>2, <3>1
    <3> QED
      BY <1>4, <3>2, <3>3
  <2> HIDE DEF good
  <2> QED
    BY <2>1, <2>2, Induction
<1>6. ASSUME NEW c \in 1..(N + 1)
      PROVE  Keeps(c)
  <2>1. N + 1 - c \in Nat /\ N + 1 - c <= N /\ N + 1 - (N + 1 - c) = c
    BY <1>1
  <2> HIDE DEF Keeps
  <2> QED
    BY <1>5, <2>1
<1> QED
  BY <1>6

\* Without children to enter the recursion writes nothing.
LEMMA NothingFound ==
  ASSUME ITypes, NEW s \in 1..Len(scopes), NEW c \in 1..(Len(scopes) + 1),
         \A d \in c..Len(scopes) : ~Entered(d, s),
         NEW label \in 0..Len(labels), NEW mem \in Memories
  PROVE  Find[c][s][label][mem] = mem
<1> DEFINE N == Len(scopes)
           good == {n \in Nat : n <= N + 1 - c => Find[N + 1 - n][s][label][mem] = mem}
<1>1. N \in Nat
  BY DEF ITypes
<1>2. 0 \in good
  <2>1. N + 1 - 0 = N + 1
    BY <1>1
  <2>2. Find[N + 1][s][label][mem] = mem
    BY FindEq
  <2> HIDE DEF N
  <2> QED
    BY <2>1, <2>2
<1>3. ASSUME NEW n \in Nat, n \in good
      PROVE  n + 1 \in good
  <2>1. SUFFICES ASSUME n + 1 <= N + 1 - c
                 PROVE  Find[N + 1 - (n + 1)][s][label][mem] = mem
    OBVIOUS
  <2> DEFINE d == N + 1 - (n + 1)
  <2>2. d \in 1..N /\ d \in c..N /\ d + 1 = N + 1 - n
    BY <1>1, <2>1
  <2>3. Find[d + 1][s][label][mem] = mem
    <3>1. Find[N + 1 - n][s][label][mem] = mem
      BY <1>1, <1>3, <2>1
    <3> HIDE DEF d
    <3> QED
      BY <2>2, <3>1
  <2>4. Find[d][s][label][mem] = Find[d + 1][s][label][mem]
    <3> HIDE DEF d
    <3>1. ~Entered(d, s)
      BY <2>2
    <3> QED
      BY <2>2, <3>1, FindEq
  <2> QED
    BY <2>3, <2>4
<1>4. \A n \in Nat : n \in good
  <2> HIDE DEF good
  <2> QED
    BY <1>2, <1>3, Induction
<1>5. PICK n \in Nat : n = N + 1 - c
  BY <1>1
<1>6. n <= N + 1 - c /\ N + 1 - n = c
  BY <1>1, <1>5
<1>7. Find[N + 1 - n][s][label][mem] = mem
  BY <1>4, <1>6
<1>8. QED
  BY <1>6, <1>7

(***************************************************************************)
(* What the lookup at the end of a switch does: it chains labels of this   *)
(* switch only, gives the list a head, and links the labels of the body    *)
(* one to the next. The blocks of the body come later and hang behind the  *)
(* body's last label, so they cannot cut this chain.                       *)
(***************************************************************************)
LEMMA Lookup ==
  ASSUME ITypes, ITree, cur # 0, scopes[cur].isSwitch, Children(cur) # {},
         \A l \in OwnLabels(cur) : next[l] = Unset
  PROVE  LET mem == LinkedFrom(cur)
             body == cur + 1
         IN /\ mem \in Memories
            /\ Chained(cur, mem)
            /\ mem[0] # Unset
            /\ \A l \in 1..Len(labels) : mem[l] # next[l] => l \in OwnLabels(cur)
            /\ body \in 1..Len(scopes) /\ scopes[body].parent = cur
            /\ At(body) # {} => mem[0] = After(body, 0)
            /\ \A l \in At(body) : After(body, l) # Null => mem[l] = After(body, l)
<1> DEFINE mem == LinkedFrom(cur)
           body == cur + 1
           N == Len(scopes)
           before == Hang(cur, 0, Links)
           hung == Hang(body, 0, before)
           last == CurLabel(body, 0)
           inner == Find[cur + 2][body][last][hung]
<1>1. N \in Nat /\ Len(labels) \in Nat /\ cur \in 1..N
  BY DEF ITypes
<1>2. /\ body \in 1..N /\ scopes[body].parent = cur /\ ~scopes[body].isSwitch
      /\ \A c \in 1..N : scopes[c].parent = cur => c = body
  BY <1>1 DEF ITree, Children
<1>3. SwitchOf[cur] = cur /\ SwitchOf[body] = cur
  BY <1>1, <1>2, SwitchFacts
<1>4. /\ Links \in Memories /\ Links[0] = Unset
      /\ \A l \in 1..Len(labels) : Links[l] = next[l]
  BY <1>1, LabelTypes DEF Links, Memories, Unset
<1>5. Chained(cur, Links)
  <2>1. OwnLabels(cur) \subseteq 1..Len(labels)
    BY DEF OwnLabels
  <2> QED
    BY <1>4, <2>1 DEF Chained
<1>6. Before(cur, 0, cur) /\ Before(cur, 0, body) /\ Before(cur, 0, cur + 2)
  BY DEF Before
<1>7. At(cur) = {}
  BY <1>1 DEF ITree, At, ScopeOf
<1>8. CurLabel(cur, 0) = 0
  BY <1>7 DEF CurLabel
<1>9. before \in Memories /\ Chained(cur, before) /\ Kept(cur, cur, 0, Links, before)
  <2>1. 0 \in 0..Len(labels)
    BY <1>1
  <2> QED
    BY <1>1, <1>3, <1>4, <1>5, <1>6, <2>1, HangType, HangKeeps
<1>10. /\ hung \in Memories /\ Chained(cur, hung) /\ Kept(cur, body, 0, before, hung)
       /\ Before(cur, last, cur + 2) /\ last \in 0..Len(labels)
       /\ last = 0 \/ last \in At(body)
  <2>1. 0 \in 0..Len(labels) /\ body + 1 = cur + 2
    BY <1>1
  <2>2. hung \in Memories /\ last \in 0..Len(labels)
    <3> HIDE DEF before
    <3> QED
      BY <1>2, <1>9, <2>1, HangType
  <2>3. /\ Chained(cur, hung) /\ Kept(cur, body, 0, before, hung)
        /\ Before(cur, last, body + 1) /\ (last = 0 \/ last \in At(body))
    <3> HIDE DEF before
    <3> QED
      BY <1>1, <1>2, <1>3, <1>6, <1>9, HangKeeps
  <2> HIDE DEF hung, before, last
  <2> QED
    BY <2>1, <2>2, <2>3
<1>11. inner \in Memories /\ Chained(cur, inner) /\ Kept(cur, cur + 2, last, hung, inner)
  <2>1. cur + 2 \in 1..(N + 1)
    BY <1>1, <1>2
  <2> HIDE DEF hung, last, body
  <2> QED
    BY <1>1, <1>2, <1>3, <1>10, <2>1, FindKeeps
<1>12. mem = inner
  <2>1. mem = Find[cur + 1][cur][0][before]
    BY <1>8 DEF LinkedFrom
  <2>2. Find[cur + 1][cur][0][before] = Find[cur + 2][cur][0][inner]
    <3>1. 0 \in 0..Len(labels) /\ (cur + 1) + 1 = cur + 2 /\ Entered(cur + 1, cur)
      BY <1>1, <1>2 DEF Entered
    <3> HIDE DEF before
    <3> QED
      BY <1>1, <1>2, <1>9, <3>1, FindEq
  <2>3. Find[cur + 2][cur][0][inner] = inner
    <3>1. cur + 2 \in 1..(N + 1) /\ 0 \in 0..Len(labels)
      BY <1>1, <1>2
    <3>2. \A d \in (cur + 2)..N : ~Entered(d, cur)
      BY <1>1, <1>2 DEF Entered
    <3> HIDE DEF inner
    <3> QED
      BY <1>1, <1>11, <3>1, <3>2, NothingFound
  <2> QED
    BY <2>1, <2>2, <2>3
<1>13. hung[0] = After(body, 0) /\ \A l \in At(body) : l # 0 => hung[l] = After(body, l)
  <2>1. \A l \in At(body) : l \in DOMAIN before
    BY <1>1, <1>9 DEF At, Memories
  <2>2. 0 \in DOMAIN before
    BY <1>1, <1>9 DEF Memories
  <2> HIDE DEF before
  <2> QED
    BY <2>1, <2>2 DEF Hang
<1>14. mem[0] # Unset
  <2>1. hung[0] # Unset
    <3>1. After(body, 0) \in 0..Len(labels)
      BY AfterIn
    <3> QED
      BY <1>13, <3>1, <1>1 DEF Unset
  <2>2. 0 \in 0..Len(labels)
    BY <1>1
  <2> HIDE DEF mem, inner, hung
  <2> QED
    BY <1>11, <1>12, <2>1, <2>2 DEF Kept
<1>15. ASSUME NEW l \in 1..Len(labels), mem[l] # next[l]
       PROVE  l \in OwnLabels(cur)
  <2>1. l \in 0..Len(labels) /\ l # 0 /\ Links[l] = next[l]
    BY <1>1, <1>4
  <2>2. last \in OwnLabels(cur) \/ last = 0
    BY <1>10 DEF Before
  <2>3. inner[l] # hung[l] => l \in OwnLabels(cur)
    <3> HIDE DEF inner, hung, last
    <3> QED
      BY <1>11, <2>1, <2>2 DEF Kept
  <2>4. hung[l] # before[l] => l \in OwnLabels(cur)
    <3> HIDE DEF before, hung
    <3> QED
      BY <1>10, <2>1 DEF Kept
  <2>5. before[l] # Links[l] => l \in OwnLabels(cur)
    <3> HIDE DEF before
    <3> QED
      BY <1>9, <2>1 DEF Kept
  <2> HIDE DEF mem, inner, hung, before
  <2> QED
    BY <1>12, <1>15, <2>1, <2>3, <2>4, <2>5
<1>16. \A l \in At(body) :
         l \in 1..Len(labels) /\ l # 0 /\ l \in 0..Len(labels) /\ ScopeOf(l) = body
  BY <1>1 DEF At, ScopeOf
<1>17. ASSUME At(body) # {}
       PROVE  mem[0] = After(body, 0)
  <2>1. last # 0
    <3>1. last \in At(body)
      <4>1. Max(At(body)) \in At(body)
        <5>1. At(body) \subseteq 0..Len(labels)
          BY <1>16
        <5> QED
          BY <1>1, <1>17, <5>1, GreatestOf
      <4> QED
        BY <1>17, <4>1 DEF CurLabel
    <3> QED
      BY <1>16, <3>1
  <2>2. 0 \in 0..Len(labels) /\ 0 \notin OwnLabels(cur)
    BY <1>1 DEF OwnLabels
  <2> HIDE DEF mem, inner, hung, last
  <2> QED
    BY <1>11, <1>12, <1>13, <2>1, <2>2 DEF Kept
<1>18. ASSUME NEW l \in At(body), After(body, l) # Null
       PROVE  mem[l] = After(body, l)
  <2>1. l # last
    <3>1. At(body) \subseteq 0..Len(labels)
      BY <1>16
    <3>2. Max(At(body)) \in At(body) /\ \A k \in At(body) : k <= Max(At(body))
      BY <1>1, <3>1, GreatestOf
    <3>3. last = Max(At(body))
      BY DEF CurLabel
    <3>4. After(body, l) \in At(body) /\ After(body, l) > l
      BY <1>16, <1>18, AfterIn
    <3> QED
      BY <1>16, <3>2, <3>3, <3>4
  <2>2. ~(ScopeOf(l) >= cur + 2)
    BY <1>1, <1>16
  <2> HIDE DEF mem, inner, hung, last
  <2> QED
    BY <1>11, <1>12, <1>13, <1>16, <2>1, <2>2 DEF Kept
<1> HIDE DEF mem
<1>19. QED
  <2>1. mem \in Memories /\ Chained(cur, mem)
    <3> HIDE DEF inner
    <3> QED
      BY <1>11, <1>12
  <2> QED
    BY <1>2, <1>14, <1>15, <1>17, <1>18, <2>1 DEF mem

\* CloseSwitch does that: its labels are unset because the switch is open.
LEMMA SwitchClosed ==
  ASSUME IInv, CloseSwitch
  PROVE  LET mem == LinkedFrom(cur)
             body == cur + 1
         IN /\ mem \in Memories /\ Chained(cur, mem) /\ mem[0] # Unset
            /\ \A l \in 1..Len(labels) : mem[l] # next[l] => l \in OwnLabels(cur)
            /\ body \in 1..Len(scopes) /\ scopes[body].parent = cur
            /\ At(body) # {} => mem[0] = After(body, 0)
            /\ \A l \in At(body) : After(body, l) # Null => mem[l] = After(body, l)
            /\ cur \notin Closed
<1>1. /\ ITypes /\ ITree /\ cur \in 1..Len(scopes) /\ cur # 0 /\ scopes[cur].isSwitch
      /\ Children(cur) # {}
  BY DEF IInv, ITypes, CloseSwitch
<1>2. PICK open \in SUBSET (1..Len(scopes)) :
        /\ cur \in open \union {0}
        /\ \A s \in open : scopes[s].parent \in open \union {0} /\ s \notin Closed
  BY DEF IInv, IOpen
<1>3. cur \notin Closed
  BY <1>1, <1>2
<1>4. \A l \in OwnLabels(cur) : next[l] = Unset
  <2>1. \A l \in OwnLabels(cur) : l \in 1..Len(labels) /\ SwitchOf[ScopeOf(l)] = cur
    BY DEF OwnLabels, ScopeOf
  <2> QED
    BY <1>3, <2>1 DEF IInv, ILinks, LinkRight
<1> QED
  BY <1>1, <1>3, <1>4, Lookup

-----------------------------------------------------------------------------
(* The invariant is inductive *)

\* One scope, no label.
LEMMA InitIInv == Init => IInv
<1> SUFFICES ASSUME Init
             PROVE  IInv
  OBVIOUS
<1> USE DEF Init
<1>1. Len(scopes) = 1 /\ scopes[1] = [parent |-> 0, isSwitch |-> FALSE] /\ Len(labels) = 0
  OBVIOUS
<1>2. Switches = {} /\ Closed = {}
  BY DEF Switches, Closed
<1>3. ITypes
  <2>1. scopes \in Seq([parent : 0..MaxScopes, isSwitch : BOOLEAN])
    BY SwitchAssumption
  <2> QED
    BY <1>1, <2>1 DEF ITypes, Unset
<1>4. ITree
  BY <1>1 DEF ITree, Children
<1>5. IOpen
  <2>1. {1} \in SUBSET (1..Len(scopes)) /\ cur \in {1}
    BY <1>1
  <2>2. \A s \in {1} : scopes[s].parent \in {1} \union {0} /\ s \notin Closed
    BY <1>1, <1>2
  <2> QED
    BY <2>1, <2>2 DEF IOpen
<1> QED
  BY <1>1, <1>2, <1>3, <1>4, <1>5 DEF IInv, ILinks, IHeads

\* A new scope has no labels, and is the body if it stands in a switch.
LEMMA NewScopeIInv ==
  ASSUME IInv, NEW isSwitch \in BOOLEAN, NewScope(isSwitch), cur # 0,
         isSwitch => ~scopes[cur].isSwitch,
         scopes[cur].isSwitch => Children(cur) = {}
  PROVE  IInv'
<1> DEFINE N == Len(scopes)
           new == [parent |-> cur, isSwitch |-> isSwitch]
<1>1. /\ ITypes /\ ITree /\ N \in Nat /\ cur \in 1..N /\ N < MaxScopes /\ MaxScopes \in Nat
  BY SwitchAssumption DEF IInv, ITypes, NewScope
<1>2. /\ scopes' = Append(scopes, new) /\ cur' = N + 1
      /\ labels' = labels /\ next' = next /\ switchCases' = switchCases
  BY DEF NewScope
<1>3. /\ Len(scopes') = N + 1
      /\ \A s \in 1..N : scopes'[s] = scopes[s] /\ s \in 1..Len(scopes')
      /\ scopes'[N + 1] = new
      /\ \A s \in 1..Len(scopes') : s \in 1..N \/ s = N + 1
  BY <1>1, <1>2, ScopeTypes
<1>4. ITypes'
  <2>1. scopes' \in Seq([parent : 0..MaxScopes, isSwitch : BOOLEAN])
    <3>1. new \in [parent : 0..MaxScopes, isSwitch : BOOLEAN]
      BY <1>1
    <3>2. scopes \in Seq([parent : 0..MaxScopes, isSwitch : BOOLEAN])
      BY <1>1 DEF ITypes
    <3> DEFINE S == [parent : 0..MaxScopes, isSwitch : BOOLEAN]
    <3> HIDE DEF S, new
    <3>3. Append(scopes, new) \in Seq(S)
      BY <3>1, <3>2, AppendProperties DEF S
    <3> QED
      BY <1>2, <3>3 DEF S
  <2>2. labels \in Seq([scope : 1..(N + 1), value : Values \union {Default}])
    <3> DEFINE S == [scope : 1..N, value : Values \union {Default}]
               T == [scope : 1..(N + 1), value : Values \union {Default}]
    <3>1. labels \in Seq(S)
      BY <1>1 DEF ITypes
    <3>2. S \subseteq T
      BY <1>1
    <3> HIDE DEF S, T
    <3>3. labels \in Seq(T)
      BY <3>1, <3>2, Widen
    <3> QED
      BY <3>3 DEF T
  <2>3. switchCases \in Seq([scope : 1..(N + 1), first : 0..Len(labels)])
    <3> DEFINE S == [scope : 1..N, first : 0..Len(labels)]
               T == [scope : 1..(N + 1), first : 0..Len(labels)]
    <3>1. switchCases \in Seq(S)
      BY <1>1 DEF ITypes
    <3>2. S \subseteq T
      BY <1>1
    <3> HIDE DEF S, T
    <3>3. switchCases \in Seq(T)
      BY <3>1, <3>2, Widen
    <3> QED
      BY <3>3 DEF T
  <2>4. cur' \in 0..Len(scopes') /\ Len(scopes') >= 1
    BY <1>1, <1>2, <1>3
  <2>5. next \in Seq({Unset} \union (0..Len(labels))) /\ Len(next) = Len(labels)
    BY <1>1 DEF ITypes
  <2> QED
    BY <1>2, <1>3, <2>1, <2>2, <2>3, <2>4, <2>5 DEF ITypes
<1>5. \A l \in 1..Len(labels) : ScopeOf(l) \in 1..N /\ ScopeOf(l)' = ScopeOf(l)
  BY <1>1, <1>2, LabelTypes DEF ScopeOf
<1>6. ITree'
  <2>1. ASSUME NEW s \in 1..Len(scopes')
        PROVE  scopes'[s].parent \in 0..(s - 1)
    BY <1>1, <1>3 DEF ITree
  <2>2. ASSUME NEW s \in 1..Len(scopes'), scopes'[s].isSwitch
        PROVE  /\ \A c \in Children(s)' : c = s + 1 /\ ~scopes'[c].isSwitch
               /\ Children(s)' = {} => s = Len(scopes') /\ cur' = s
    <3>1. CASE s = N + 1
      <4>1. \A c \in 1..Len(scopes') : scopes'[c].parent # s
        BY <1>1, <1>3, <2>1, <3>1
      <4> QED
        BY <1>2, <1>3, <3>1, <4>1 DEF Children
    <3>2. CASE s \in 1..N /\ s = cur
      <4>1. scopes[s].isSwitch /\ Children(s) = {} /\ ~isSwitch
        BY <1>3, <2>2, <3>2
      <4>2. s = N
        BY <3>2, <4>1, <1>1 DEF ITree
      <4>3. \A c \in 1..N : scopes'[c].parent # s
        BY <1>3, <4>1 DEF Children
      <4>4. N + 1 \in Children(s)'
        BY <1>1, <1>3, <3>2 DEF Children
      <4> QED
        BY <1>3, <4>1, <4>2, <4>3, <4>4 DEF Children
    <3>3. CASE s \in 1..N /\ s # cur
      <4>1. scopes[s].isSwitch
        BY <1>3, <2>2, <3>3
      <4>2. Children(s) # {} /\ \A c \in Children(s) : c = s + 1 /\ ~scopes[c].isSwitch
        BY <1>1, <3>3, <4>1 DEF ITree
      <4>3. Children(s)' = Children(s)
        BY <1>1, <1>3, <3>3 DEF Children
      <4>4. \A c \in Children(s) : c \in 1..N
        BY DEF Children
      <4> QED
        BY <1>3, <4>2, <4>3, <4>4
    <3> QED
      BY <1>3, <3>1, <3>2, <3>3
  <2>3. ASSUME NEW l \in 1..Len(labels)
        PROVE  ~scopes'[ScopeOf(l)'].isSwitch
    BY <1>1, <1>3, <1>5 DEF ITree
  <2> QED
    BY <1>2, <2>1, <2>2, <2>3 DEF ITree
<1>7. \A s \in 0..N : SwitchOf'[s] = SwitchOf[s]
  BY <1>1, <1>3, <1>4, <1>6, SwitchKept
<1>8. Switches' = Switches /\ Closed' = Closed
  BY <1>2 DEF Switches, Closed
<1>9. \A sw \in Switches : sw.scope \in 1..N
  BY <1>1, SwitchTypes
<1>10. \A l \in 1..Len(labels) : SwitchOf'[ScopeOf(l)'] = SwitchOf[ScopeOf(l)]
  BY <1>1, <1>5, <1>7
<1>11. \A sw : OwnLabels(sw)' = OwnLabels(sw)
  BY <1>2, <1>10 DEF OwnLabels, ScopeOf
<1>12. IOpen'
  <2>1. PICK open \in SUBSET (1..N) :
          /\ cur \in open \union {0}
          /\ \A s \in open : scopes[s].parent \in open \union {0} /\ s \notin Closed
    BY DEF IInv, IOpen
  <2> DEFINE wider == open \union {N + 1}
  <2>2. wider \in SUBSET (1..Len(scopes')) /\ cur' \in wider \union {0}
    <3>1. \A s \in open : s \in 1..Len(scopes')
      BY <1>3
    <3>2. N + 1 \in 1..Len(scopes')
      BY <1>1, <1>3
    <3> QED
      BY <1>2, <3>1, <3>2
  <2>3. \A s \in Closed : s \in 1..N
    BY <1>9 DEF Closed
  <2>4. ASSUME NEW s \in wider
        PROVE  scopes'[s].parent \in wider \union {0} /\ s \notin Closed'
    <3>1. CASE s \in open
      BY <1>3, <1>8, <2>1, <3>1
    <3>2. CASE s = N + 1
      BY <1>1, <1>3, <1>8, <2>1, <2>3, <3>2
    <3> QED
      BY <3>1, <3>2
  <2> QED
    BY <2>2, <2>4 DEF IOpen
<1>13. ILinks'
  BY <1>2, <1>8, <1>10, <1>11 DEF IInv, ILinks, LinkRight, Linked, Precedes, ScopeOf
<1>14. IHeads'
  <2> SUFFICES ASSUME NEW sw \in Switches
               PROVE  HeadRight(sw)'
    BY <1>8 DEF IHeads
  <2>1. \A s : At(s)' = At(s)
    BY <1>2 DEF At
  <2>2. \A s, l : After(s, l)' = After(s, l)
    BY <2>1 DEF After
  <2> QED
    BY <1>2, <1>3, <1>9, <1>11, <2>1, <2>2 DEF IInv, IHeads, HeadRight
<1> QED
  BY <1>4, <1>6, <1>12, <1>13, <1>14 DEF IInv

\* A new label belongs to an open switch, so no list has room for it.
LEMMA InsertLabelIInv ==
  ASSUME IInv, NEW value \in Values \union {Default}, InsertLabel(value)
  PROVE  IInv'
<1> DEFINE new == [scope |-> cur, value |-> value]
<1>0. PICK L : L = Len(labels)
  OBVIOUS
<1>1. /\ ITypes /\ ITree /\ L \in Nat /\ Len(scopes) \in Nat /\ cur \in 1..Len(scopes)
      /\ ~scopes[cur].isSwitch /\ SwitchOf[cur] # 0
  BY <1>0 DEF IInv, ITypes, InsertLabel, InBlock
<1>2. /\ labels' = Append(labels, new) /\ next' = Append(next, Unset)
      /\ scopes' = scopes /\ cur' = cur /\ switchCases' = switchCases
  BY DEF InsertLabel
<1>3. /\ Len(labels') = L + 1
      /\ \A l \in 1..L : labels'[l] = labels[l] /\ l \in 1..Len(labels')
      /\ labels'[L + 1] = new
      /\ \A l \in 1..Len(labels') : l \in 1..L \/ l = L + 1
  <2>1. labels \in Seq([scope : 1..Len(scopes), value : Values \union {Default}])
    BY <1>1 DEF ITypes
  <2> HIDE DEF new
  <2> QED
    BY <1>0, <1>1, <1>2, <2>1
<1>4. /\ Len(next') = L + 1 /\ Len(next) = L
      /\ \A l \in 1..L : next'[l] = next[l]
      /\ next'[L + 1] = Unset
  <2>1. next \in Seq({Unset} \union (0..L)) /\ Len(next) = L
    BY <1>0, <1>1 DEF ITypes
  <2> QED
    BY <1>1, <1>2, <2>1
<1>5. ITypes'
  <2>1. labels' \in Seq([scope : 1..Len(scopes), value : Values \union {Default}])
    <3> DEFINE S == [scope : 1..Len(scopes), value : Values \union {Default}]
    <3>1. labels \in Seq(S) /\ new \in S
      BY <1>1 DEF ITypes
    <3> HIDE DEF S, new
    <3> QED
      BY <1>2, <3>1, AppendProperties DEF S
  <2>2. next' \in Seq({Unset} \union (0..(L + 1)))
    <3> DEFINE S == {Unset} \union (0..L)
               T == {Unset} \union (0..(L + 1))
    <3>1. next \in Seq(S)
      BY <1>0, <1>1 DEF ITypes
    <3>2. S \subseteq T /\ Unset \in T
      BY <1>1
    <3> HIDE DEF S, T
    <3>3. next \in Seq(T)
      BY <3>1, <3>2, Widen
    <3>4. Append(next, Unset) \in Seq(T)
      BY <3>2, <3>3, AppendProperties
    <3> QED
      BY <1>2, <3>4 DEF T
  <2>3. switchCases \in Seq([scope : 1..Len(scopes), first : 0..(L + 1)])
    <3> DEFINE S == [scope : 1..Len(scopes), first : 0..L]
               T == [scope : 1..Len(scopes), first : 0..(L + 1)]
    <3>1. switchCases \in Seq(S)
      BY <1>0, <1>1 DEF ITypes
    <3>2. S \subseteq T
      BY <1>1
    <3> HIDE DEF S, T
    <3>3. switchCases \in Seq(T)
      BY <3>1, <3>2, Widen
    <3> QED
      BY <3>3 DEF T
  <2>4. /\ scopes \in Seq([parent : 0..MaxScopes, isSwitch : BOOLEAN]) /\ Len(scopes) >= 1
        /\ cur \in 0..Len(scopes)
    BY <1>1 DEF ITypes
  <2> QED
    BY <1>2, <1>3, <1>4, <2>1, <2>2, <2>3, <2>4 DEF ITypes
<1>6. SwitchOf' = SwitchOf /\ \A s : Children(s)' = Children(s)
  BY <1>2, SameScopes
<1>7. Switches' = Switches /\ Closed' = Closed
  BY <1>2 DEF Switches, Closed
<1>8. ITree'
  <2>1. \A l \in 1..L : ~scopes[labels[l].scope].isSwitch
    BY <1>0, <1>1 DEF ITree, ScopeOf
  <2>2. \A l \in 1..Len(labels') : ~scopes'[labels'[l].scope].isSwitch
    BY <1>1, <1>2, <1>3, <2>1
  <2> QED
    BY <1>1, <1>2, <1>6, <2>2 DEF ITree, ScopeOf
<1>9. PICK open \in SUBSET (1..Len(scopes)) :
        /\ cur \in open \union {0}
        /\ \A s \in open : scopes[s].parent \in open \union {0} /\ s \notin Closed
  BY DEF IInv, IOpen
<1>10. IOpen'
  BY <1>2, <1>7, <1>9 DEF IOpen
<1>11. SwitchOf[cur] \notin Closed
  <2>1. cur \in open
    BY <1>1, <1>9
  <2>2. SwitchOf[cur] \in open \union {0}
    BY <1>1, <1>9, <2>1, OpenSwitchOf
  <2> QED
    BY <1>1, <1>9, <2>2
<1>12. \A sw \in Closed : OwnLabels(sw)' = OwnLabels(sw)
  <2> SUFFICES ASSUME NEW sw \in Closed
               PROVE  OwnLabels(sw)' = OwnLabels(sw)
    OBVIOUS
  <2>1. OwnLabels(sw)' = {l \in 1..Len(labels') : SwitchOf[labels'[l].scope] = sw}
    BY <1>6 DEF OwnLabels
  <2>2. SwitchOf[labels'[L + 1].scope] # sw
    BY <1>3, <1>11
  <2> QED
    BY <1>0, <1>3, <2>1, <2>2 DEF OwnLabels
<1>13. ILinks'
  <2>1. ASSUME NEW l \in 1..Len(labels')
        PROVE  LinkRight(l)'
    <3>1. CASE l = L + 1
      <4>1. SwitchOf'[labels'[l].scope] \notin Closed' /\ next'[l] = Unset
        BY <1>3, <1>4, <1>6, <1>7, <1>11, <3>1
      <4> QED
        BY <4>1 DEF LinkRight, ScopeOf
    <3>2. CASE l \in 1..L
      <4>1. LinkRight(l)
        BY <1>0, <3>2 DEF IInv, ILinks
      <4>2. \A k \in 1..L : labels'[k] = labels[k] /\ next'[k] = next[k] /\ k \in 1..Len(labels')
        BY <1>3, <1>4
      <4> QED
        BY <1>0, <1>6, <1>7, <3>2, <4>1, <4>2 DEF LinkRight, Linked, OwnLabels, Precedes, ScopeOf
    <3> QED
      BY <1>3, <3>1, <3>2
  <2> QED
    BY <2>1 DEF ILinks
<1>14. IHeads'
  <2> SUFFICES ASSUME NEW sw \in Switches
               PROVE  HeadRight(sw)'
    BY <1>7 DEF IHeads
  <2> DEFINE body == sw.scope + 1
  <2>1. sw.scope \in Closed /\ sw.scope \in 1..Len(scopes)
    BY <1>1, SwitchTypes
  <2>2. /\ scopes[sw.scope].isSwitch
        /\ body \in 1..Len(scopes) /\ scopes[body].parent = sw.scope
        /\ sw.first # Null => sw.first \in OwnLabels(sw.scope) /\ next[sw.first] # Unset
        /\ At(body) # {} => sw.first = After(body, 0)
        /\ \A l \in At(body) : After(body, l) # Null => next[l] = After(body, l)
    BY DEF IInv, IHeads, HeadRight
  <2>3. ~scopes[body].isSwitch
    BY <1>1, <2>1, <2>2 DEF ITree, Children
  <2>4. SwitchOf[body] = sw.scope
    <3>1. SwitchOf[body] = SwitchOf[sw.scope]
      BY <1>1, <2>2, <2>3, SwitchFacts
    <3>2. SwitchOf[sw.scope] = sw.scope
      BY <1>1, <2>1, <2>2, SwitchFacts
    <3> QED
      BY <3>1, <3>2
  <2>5. cur # body
    BY <1>11, <2>1, <2>4
  <2> HIDE DEF body
  <2>6. At(body)' = At(body)
    BY <1>0, <1>1, <1>3, <2>5 DEF At
  <2>7. \A l : After(body, l)' = After(body, l)
    BY <2>6 DEF After
  <2>8. OwnLabels(sw.scope)' = OwnLabels(sw.scope)
    BY <1>12, <2>1
  <2>9. \A l \in OwnLabels(sw.scope) \union At(body) : next'[l] = next[l]
    BY <1>0, <1>4 DEF OwnLabels, At
  <2>10. \A l \in At(body)' : After(body, l)' # Null => next'[l] = After(body, l)'
    BY <2>2, <2>6, <2>7, <2>9
  <2>11. sw.first # Null => sw.first \in OwnLabels(sw.scope)' /\ next'[sw.first] # Unset
    BY <2>2, <2>8, <2>9
  <2>12. At(body)' # {} => sw.first = After(body, 0)'
    BY <2>2, <2>6, <2>7
  <2> QED
    BY <1>2, <2>2, <2>10, <2>11, <2>12 DEF body, HeadRight
<1> QED
  BY <1>5, <1>8, <1>10, <1>13, <1>14 DEF IInv

\* Closing a block changes the current scope only.
LEMMA CloseBlockIInv ==
  ASSUME IInv, CloseBlock
  PROVE  IInv'
<1>1. /\ ITypes /\ ITree /\ cur \in 1..Len(scopes) /\ ~scopes[cur].isSwitch /\ Len(scopes) \in Nat
  BY DEF IInv, ITypes, CloseBlock, InBlock
<1>2. /\ cur' = scopes[cur].parent
      /\ scopes' = scopes /\ labels' = labels /\ next' = next /\ switchCases' = switchCases
  BY DEF CloseBlock
<1>3. /\ SwitchOf' = SwitchOf /\ Switches' = Switches /\ Closed' = Closed
      /\ \A s : Children(s)' = Children(s)
  BY <1>2, SameScopes DEF Switches, Closed
<1>4. ITypes'
  <2>1. scopes[cur].parent \in 0..(cur - 1)
    BY <1>1 DEF ITree
  <2>2. cur' \in 0..Len(scopes)
    BY <1>1, <1>2, <2>1
  <2> QED
    BY <1>1, <1>2, <2>2 DEF ITypes
<1>5. ITree'
  BY <1>1, <1>2, <1>3 DEF ITree, ScopeOf
<1>6. IOpen'
  <2>1. PICK open \in SUBSET (1..Len(scopes)) :
          /\ cur \in open \union {0}
          /\ \A s \in open : scopes[s].parent \in open \union {0} /\ s \notin Closed
    BY DEF IInv, IOpen
  <2> QED
    BY <1>1, <1>2, <1>3, <2>1 DEF IOpen
<1>7. ILinks'
  BY <1>2, <1>3 DEF IInv, ILinks, LinkRight, Linked, OwnLabels, Precedes, ScopeOf
<1>8. IHeads'
  <2>1. \A s : At(s)' = At(s) /\ OwnLabels(s)' = OwnLabels(s)
    BY <1>2, <1>3 DEF At, OwnLabels
  <2>2. \A s, l : After(s, l)' = After(s, l)
    BY <2>1 DEF After
  <2> QED
    BY <1>2, <1>3, <2>1, <2>2 DEF IInv, IHeads, HeadRight
<1> QED
  BY <1>4, <1>5, <1>6, <1>7, <1>8 DEF IInv

(***************************************************************************)
(* Closing a switch makes its labels those of a finished switch. The       *)
(* labels of every other switch, inside and outside, keep their links.     *)
(***************************************************************************)
LEMMA CloseSwitchIInv ==
  ASSUME IInv, CloseSwitch
  PROVE  IInv'
<1> DEFINE L == Len(labels)
           mem == LinkedFrom(cur)
           new == [scope |-> cur, first |-> mem[0]]
<1>1. /\ ITypes /\ ITree /\ cur \in 1..Len(scopes) /\ cur # 0 /\ scopes[cur].isSwitch
      /\ Len(scopes) \in Nat /\ L \in Nat /\ Children(cur) # {}
  BY DEF IInv, ITypes, CloseSwitch
<1>2. /\ next' = [l \in 1..L |-> mem[l]]
      /\ switchCases' = Append(switchCases, new)
      /\ cur' = scopes[cur].parent
      /\ scopes' = scopes /\ labels' = labels
  BY DEF CloseSwitch
<1>3. PICK open \in SUBSET (1..Len(scopes)) :
        /\ cur \in open \union {0}
        /\ \A s \in open : scopes[s].parent \in open \union {0} /\ s \notin Closed
  BY DEF IInv, IOpen
<1>6. /\ mem \in Memories /\ Chained(cur, mem) /\ mem[0] # Unset
      /\ \A l \in 1..L : mem[l] # next[l] => l \in OwnLabels(cur)
      /\ cur + 1 \in 1..Len(scopes) /\ scopes[cur + 1].parent = cur
      /\ At(cur + 1) # {} => mem[0] = After(cur + 1, 0)
      /\ \A l \in At(cur + 1) : After(cur + 1, l) # Null => mem[l] = After(cur + 1, l)
      /\ cur \notin Closed
  BY SwitchClosed
<1> HIDE DEF mem
<1>7. /\ SwitchOf' = SwitchOf
      /\ \A s : Children(s)' = Children(s) /\ At(s)' = At(s) /\ OwnLabels(s)' = OwnLabels(s)
      /\ \A s, l : After(s, l)' = After(s, l)
      /\ \A l : ScopeOf(l)' = ScopeOf(l)
      /\ \A k, l : Precedes(k, l)' <=> Precedes(k, l)
  <2>1. SwitchOf' = SwitchOf /\ \A s : Children(s)' = Children(s)
    BY <1>2, SameScopes
  <2> QED
    BY <1>2, <2>1 DEF At, OwnLabels, After, ScopeOf, Precedes
<1>8. Switches' = Switches \union {new} /\ Closed' = Closed \union {cur}
  <2>1. switchCases \in Seq([scope : 1..Len(scopes), first : 0..L])
    BY <1>1 DEF ITypes
  <2> HIDE DEF new
  <2>2. /\ Len(switchCases) \in Nat /\ Len(switchCases') = Len(switchCases) + 1
        /\ \A i \in 1..Len(switchCases) : switchCases'[i] = switchCases[i]
        /\ switchCases'[Len(switchCases) + 1] = new
    BY <1>2, <2>1
  <2>3. \A i \in 1..Len(switchCases') : i \in 1..Len(switchCases) \/ i = Len(switchCases) + 1
    BY <2>2
  <2>4. Switches' = Switches \union {new}
    <3>1. \A sw \in Switches' : sw \in Switches \union {new}
      BY <2>2, <2>3 DEF Switches
    <3>2. \A sw \in Switches \union {new} : sw \in Switches'
      BY <2>2 DEF Switches
    <3> QED
      BY <3>1, <3>2
  <2>5. new.scope = cur
    BY DEF new
  <2> QED
    BY <2>4, <2>5 DEF Closed
<1>9. mem[0] \in 0..L /\ \A l \in 1..L : mem[l] \in {Unset} \union (0..L)
  <2>1. \A l \in OwnLabels(cur) \union {0} : mem[l] \in {Unset, Null} \union OwnLabels(cur)
    BY <1>6 DEF Chained
  <2>2. OwnLabels(cur) \subseteq 1..L
    BY DEF OwnLabels
  <2>3. \A l \in 1..L : next[l] \in {Unset} \union (0..L)
    BY <1>1, LabelTypes
  <2> QED
    BY <1>1, <1>6, <2>1, <2>2, <2>3 DEF Null
<1>10. ITypes'
  <2>1. next' \in Seq({Unset} \union (0..L)) /\ Len(next') = L
    <3> DEFINE T == {Unset} \union (0..L)
    <3> HIDE DEF T
    <3>1. \A l \in 1..L : mem[l] \in T
      BY <1>9 DEF T
    <3>2. next' \in Seq(T) /\ Len(next') = L
      BY <1>1, <1>2, <3>1
    <3> QED
      BY <3>2 DEF T
  <2>2. switchCases' \in Seq([scope : 1..Len(scopes), first : 0..L])
    <3> DEFINE S == [scope : 1..Len(scopes), first : 0..L]
    <3>1. switchCases \in Seq(S) /\ new \in S
      BY <1>1, <1>9 DEF ITypes
    <3> HIDE DEF S, new
    <3> QED
      BY <1>2, <3>1, AppendProperties DEF S
  <2>3. cur' \in 0..Len(scopes)
    <3>1. scopes[cur].parent \in 0..(cur - 1)
      BY <1>1 DEF ITree
    <3> QED
      BY <1>1, <1>2, <3>1
  <2>4. /\ scopes \in Seq([parent : 0..MaxScopes, isSwitch : BOOLEAN]) /\ Len(scopes) >= 1
        /\ labels \in Seq([scope : 1..Len(scopes), value : Values \union {Default}])
    BY <1>1 DEF ITypes
  <2> QED
    BY <1>2, <2>1, <2>2, <2>3, <2>4 DEF ITypes
<1>11. ITree'
  BY <1>1, <1>2, <1>7 DEF ITree
<1>12. IOpen'
  <2> DEFINE outer == {s \in open : s < cur}
  <2>1. scopes[cur].parent \in 0..(cur - 1) /\ scopes[cur].parent \in open \union {0}
    BY <1>1, <1>3 DEF ITree
  <2>2. outer \in SUBSET (1..Len(scopes)) /\ cur' \in outer \union {0}
    <3>1. scopes[cur].parent \in outer \union {0}
      BY <1>1, <2>1
    <3>2. outer \subseteq 1..Len(scopes)
      OBVIOUS
    <3> QED
      BY <1>2, <3>1, <3>2
  <2>3. ASSUME NEW s \in outer
        PROVE  scopes[s].parent \in outer \union {0} /\ s \notin Closed'
    <3>1. /\ s \in 1..Len(scopes) /\ s < cur /\ scopes[s].parent \in 0..(s - 1)
          /\ scopes[s].parent \in open \union {0} /\ s \notin Closed
      BY <1>1, <1>3 DEF ITree
    <3> QED
      BY <1>1, <1>8, <3>1
  <2> HIDE DEF outer
  <2> QED
    BY <1>2, <2>2, <2>3 DEF IOpen
<1>13. \A l \in 1..L : next'[l] = mem[l] /\ (l \notin OwnLabels(cur) => next'[l] = next[l])
  BY <1>2, <1>6
<1>14. ILinks'
  <2>1. ASSUME NEW l \in 1..L
        PROVE  IF SwitchOf[ScopeOf(l)] \in Closed'
               THEN \/ next'[l] \in {Unset, Null}
                    \/ /\ next'[l] \in OwnLabels(SwitchOf[ScopeOf(l)])
                       /\ Precedes(l, next'[l]) /\ next'[next'[l]] # Unset
               ELSE next'[l] = Unset
    <3> DEFINE sw == SwitchOf[ScopeOf(l)]
    <3>1. CASE sw = cur
      <4>1. l \in OwnLabels(cur) /\ l # 0
        BY <1>1, <3>1 DEF OwnLabels, ScopeOf
      <4>2. mem[l] \in {Unset, Null} \/
              (mem[l] \in OwnLabels(cur) /\ Precedes(l, mem[l]) /\ mem[mem[l]] # Unset)
        BY <1>6, <4>1 DEF Chained, Follows
      <4>3. \A k \in OwnLabels(cur) : next'[k] = mem[k]
        BY <1>13 DEF OwnLabels
      <4>4. next'[l] = mem[l]
        BY <1>13
      <4> HIDE DEF sw
      <4> QED
        BY <1>8, <3>1, <4>2, <4>3, <4>4 DEF sw
    <3>2. CASE sw # cur
      <4>1. l \notin OwnLabels(cur)
        BY <3>2 DEF OwnLabels, ScopeOf
      <4>2. next'[l] = next[l]
        BY <1>13, <4>1
      <4>3. IF sw \in Closed THEN Linked(l, sw) ELSE next[l] = Unset
        BY DEF IInv, ILinks, LinkRight
      <4>4. \A k \in OwnLabels(sw) : next'[k] = next[k]
        BY <1>13, <3>2 DEF OwnLabels
      <4>5. sw \in Closed' <=> sw \in Closed
        BY <1>8, <3>2
      <4> HIDE DEF sw
      <4> QED
        BY <4>2, <4>3, <4>4, <4>5 DEF Linked, sw
    <3> QED
      BY <3>1, <3>2
  <2>2. ASSUME NEW l \in 1..L
        PROVE  IF SwitchOf'[ScopeOf(l)'] \in Closed'
               THEN Linked(l, SwitchOf[ScopeOf(l)])' ELSE next'[l] = Unset
    BY <1>7, <2>1 DEF Linked
  <2> QED
    BY <1>2, <1>7, <2>2 DEF ILinks, LinkRight
<1>15. IHeads'
  <2> SUFFICES ASSUME NEW sw \in Switches'
               PROVE  LET body == sw.scope + 1
                      IN /\ scopes[sw.scope].isSwitch
                         /\ body \in 1..Len(scopes) /\ scopes[body].parent = sw.scope
                         /\ sw.first # Null =>
                              sw.first \in OwnLabels(sw.scope) /\ next'[sw.first] # Unset
                         /\ At(body) # {} => sw.first = After(body, 0)
                         /\ \A l \in At(body) : After(body, l) # Null => next'[l] = After(body, l)
    BY <1>2, <1>7 DEF IHeads, HeadRight
  <2>1. CASE sw = new
    <3>1. sw.scope = cur /\ sw.first = mem[0]
      BY <2>1
    <3>2. mem[0] # Null => mem[0] \in OwnLabels(cur) /\ mem[mem[0]] # Unset
      BY <1>6 DEF Chained
    <3>3. \A l \in OwnLabels(cur) \union At(cur + 1) : next'[l] = mem[l]
      BY <1>13 DEF OwnLabels, At
    <3> QED
      BY <1>1, <1>6, <3>1, <3>2, <3>3
  <2>2. CASE sw \in Switches
    <3> DEFINE body == sw.scope + 1
    <3>1. sw.scope \in Closed /\ sw.scope \in 1..Len(scopes) /\ sw.scope # cur
      BY <1>1, <1>6, <2>2, SwitchTypes
    <3>2. /\ scopes[sw.scope].isSwitch
          /\ body \in 1..Len(scopes) /\ scopes[body].parent = sw.scope
          /\ sw.first # Null => sw.first \in OwnLabels(sw.scope) /\ next[sw.first] # Unset
          /\ At(body) # {} => sw.first = After(body, 0)
          /\ \A l \in At(body) : After(body, l) # Null => next[l] = After(body, l)
      BY <2>2 DEF IInv, IHeads, HeadRight
    <3>3. ~scopes[body].isSwitch
      BY <1>1, <3>1, <3>2 DEF ITree, Children
    <3>4. SwitchOf[body] = sw.scope
      <4>1. SwitchOf[body] = SwitchOf[sw.scope]
        BY <1>1, <3>2, <3>3, SwitchFacts
      <4>2. SwitchOf[sw.scope] = sw.scope
        BY <1>1, <3>1, <3>2, SwitchFacts
      <4> QED
        BY <4>1, <4>2
    <3>5. \A l \in OwnLabels(sw.scope) \union At(body) : next'[l] = next[l]
      <4>1. \A l \in OwnLabels(sw.scope) \union At(body) : l \in 1..L /\ l \notin OwnLabels(cur)
        <5> HIDE DEF body
        <5> QED
          BY <3>1, <3>4 DEF OwnLabels, At
      <4> QED
        BY <1>13, <4>1
    <3> HIDE DEF body
    <3> QED
      BY <3>2, <3>5 DEF body
  <2> QED
    BY <1>8, <2>1, <2>2
<1> QED
  BY <1>10, <1>11, <1>12, <1>14, <1>15 DEF IInv

\* Every step preserves the invariant.
LEMMA NextIInv == IInv /\ [Next]_vars => IInv'
<1> SUFFICES ASSUME IInv, [Next]_vars
             PROVE  IInv'
  OBVIOUS
<1>1. CASE OpenBlock
  BY <1>1, NewScopeIInv DEF OpenBlock
<1>2. CASE OpenSwitch
  BY <1>2, NewScopeIInv DEF OpenSwitch, InBlock
<1>3. CASE Case
  BY <1>3, InsertLabelIInv DEF Case
<1>4. CASE DefaultCase
  BY <1>4, InsertLabelIInv DEF DefaultCase
<1>5. CASE CloseBlock
  BY <1>5, CloseBlockIInv
<1>6. CASE CloseSwitch
  BY <1>6, CloseSwitchIInv
<1>7. CASE UNCHANGED vars
  <2>1. scopes' = scopes /\ cur' = cur /\ labels' = labels
        /\ next' = next /\ switchCases' = switchCases
    BY <1>7 DEF vars
  <2>2. /\ SwitchOf' = SwitchOf /\ Switches' = Switches /\ Closed' = Closed
        /\ \A s : Children(s)' = Children(s)
    BY <2>1, SameScopes DEF Switches, Closed
  <2>3. ITypes' /\ ITree' /\ IOpen'
    BY <2>1, <2>2 DEF IInv, ITypes, ITree, IOpen, ScopeOf
  <2>4. ILinks'
    BY <2>1, <2>2 DEF IInv, ILinks, LinkRight, Linked, OwnLabels, Precedes, ScopeOf
  <2>5. IHeads'
    <3>1. \A s : At(s)' = At(s) /\ OwnLabels(s)' = OwnLabels(s)
      BY <2>1, <2>2 DEF At, OwnLabels
    <3>2. \A s, l : After(s, l)' = After(s, l)
      BY <3>1 DEF After
    <3> QED
      BY <2>1, <2>2, <3>1, <3>2 DEF IInv, IHeads, HeadRight
  <2> QED
    BY <2>3, <2>4, <2>5 DEF IInv
<1> QED
  BY <1>1, <1>2, <1>3, <1>4, <1>5, <1>6, <1>7 DEF Next

(***************************************************************************)
(* The links of labels lead from one label of a finished switch to a later *)
(* one of the same switch, and those of open switches are unset, for every *)
(* nesting of switches and blocks and every number of labels.              *)
(***************************************************************************)
THEOREM Invariance == Spec => []IInv
BY InitIInv, NextIInv, PTL DEF Spec

-----------------------------------------------------------------------------
(* The loop of gen_asm_switch *)

\* Walk is the function its definition describes.
LEMMA WalkEq ==
  ASSUME ITypes, NEW first \in Int
  PROVE  /\ Walk(first) \in [0..Len(labels) -> Int]
         /\ Walk(first)[0] = first
         /\ \A n \in 1..Len(labels) :
              Walk(first)[n] = IF Walk(first)[n - 1] \in 1..Len(labels)
                               THEN next[Walk(first)[n - 1]] ELSE Walk(first)[n - 1]
<1> DEFINE follow(l) == IF l \in 1..Len(labels) THEN next[l] ELSE l
           step == [p \in (1..Len(labels)) \X Int |-> follow(p[2])]
           Eq(f) == f = [n \in 0..Len(labels) |->
                           IF n = 0 THEN first
                           ELSE IF f[n - 1] \in 1..Len(labels) THEN next[f[n - 1]] ELSE f[n - 1]]
<1>1. Len(labels) \in Nat
  BY DEF ITypes
<1>2. step \in [(1..Len(labels)) \X Int -> Int]
  <2>1. \A l \in Int : follow(l) \in Int
    BY DEF ITypes, Unset
  <2> HIDE DEF follow
  <2> QED
    BY <2>1
<1>3. PICK f \in [0..Len(labels) -> Int] : Iterates(f, Len(labels), first, step)
  <2> HIDE DEF step
  <2> QED
    BY <1>1, <1>2, Iteration
<1>4. \A n \in 1..Len(labels) : f[n] = follow(f[n - 1])
  <2>1. ASSUME NEW n \in 1..Len(labels)
        PROVE  f[n] = follow(f[n - 1])
    <3>1. f[n - 1] \in Int
      BY <1>1
    <3>2. step[<<n, f[n - 1]>>] = follow(f[n - 1])
      <4> HIDE DEF follow
      <4> QED
        BY <3>1
    <3> QED
      BY <1>3, <3>2 DEF Iterates
  <2> QED
    BY <2>1
<1>5. Eq(f)
  <2>1. f = [n \in 0..Len(labels) |-> f[n]]
    BY <1>3
  <2>2. \A n \in 0..Len(labels) : n = 0 \/ n \in 1..Len(labels)
    BY <1>1
  <2>3. \A n \in 0..Len(labels) :
           f[n] = IF n = 0 THEN first
                  ELSE IF f[n - 1] \in 1..Len(labels) THEN next[f[n - 1]] ELSE f[n - 1]
    BY <1>3, <1>4, <2>2 DEF Iterates
  <2> QED
    BY <2>1, <2>3
<1>6. \E g : Eq(g)
  BY <1>5
<1>7. Walk(first) = CHOOSE g : Eq(g)
  BY DEF Walk
<1>8. Eq(Walk(first))
  <2> HIDE DEF Eq
  <2> QED
    BY <1>6, <1>7
<1>9. \A n \in 0..Len(labels) :
         Walk(first)[n] = IF n = 0 THEN first
                  ELSE IF Walk(first)[n - 1] \in 1..Len(labels) THEN next[Walk(first)[n - 1]]
                       ELSE Walk(first)[n - 1]
  BY <1>8
<1> DEFINE walked == {n \in Nat : n <= Len(labels) => Walk(first)[n] \in Int}
<1>10. \A n \in Nat : n \in walked
  <2>1. 0 \in walked
    BY <1>9
  <2>2. ASSUME NEW n \in Nat, n \in walked
        PROVE  n + 1 \in walked
    <3>1. SUFFICES ASSUME n + 1 <= Len(labels)
                   PROVE  Walk(first)[n + 1] \in Int
      OBVIOUS
    <3>2. n + 1 \in 0..Len(labels) /\ n + 1 # 0 /\ (n + 1) - 1 = n
      BY <1>1, <3>1
    <3>3. \A l \in Int : follow(l) \in Int
      BY DEF ITypes, Unset
    <3>4. Walk(first)[n + 1] = follow(Walk(first)[n])
      BY <1>9, <3>2
    <3>5. Walk(first)[n] \in Int
      BY <1>1, <2>2, <3>1
    <3> HIDE DEF follow
    <3> QED
      BY <3>3, <3>4, <3>5
  <2> HIDE DEF walked
  <2> QED
    BY <2>1, <2>2, Induction
<1>11. Walk(first) = [n \in 0..Len(labels) |-> Walk(first)[n]]
  BY <1>8
<1>12. \A n \in 0..Len(labels) : Walk(first)[n] \in Int
  BY <1>1, <1>10
<1>13. Walk(first) \in [0..Len(labels) -> Int]
  BY <1>11, <1>12
<1>14. QED
  <2>1. \A n \in 1..Len(labels) : n \in 0..Len(labels) /\ n # 0
    BY <1>1
  <2> QED
    BY <1>1, <1>9, <1>13, <2>1

\* From a label of the switch the loop goes on to a later one, or to NULL.
LEMMA WalkStep ==
  ASSUME IInv, NEW sw \in Switches, NEW n \in 0..Len(labels),
         LET l == Walk(sw.first)[n] IN l = Null \/ (l \in OwnLabels(sw.scope) /\ next[l] # Unset)
  PROVE  LET l == Walk(sw.first)[n]
             k == IF l \in 1..Len(labels) THEN next[l] ELSE l
         IN /\ l = Null => k = Null
            /\ l # Null => /\ l \in OwnLabels(sw.scope) /\ l \in 1..Len(labels)
                           /\ k = next[l]
                           /\ k = Null \/ (k \in OwnLabels(sw.scope) /\ Precedes(l, k))
            /\ k = Null \/ (k \in OwnLabels(sw.scope) /\ next[k] # Unset)
<1> DEFINE l == Walk(sw.first)[n]
<1>1. Len(labels) \in Nat
  BY DEF IInv, ITypes
<1>2. Null \notin 1..Len(labels)
  BY DEF Null
<1>3. CASE l = Null
  <2> HIDE DEF l
  <2>1. l \notin 1..Len(labels)
    BY <1>2, <1>3
  <2> QED
    BY <1>3, <2>1 DEF l
<1>4. CASE l # Null
  <2>1. l \in OwnLabels(sw.scope) /\ next[l] # Unset
    BY <1>4
  <2> HIDE DEF l
  <2>2. l \in 1..Len(labels) /\ SwitchOf[ScopeOf(l)] = sw.scope
    BY <2>1 DEF OwnLabels, ScopeOf
  <2>3. sw.scope \in Closed
    BY SwitchTypes DEF IInv
  <2>4. Linked(l, sw.scope)
    BY <2>2, <2>3 DEF IInv, ILinks, LinkRight
  <2> QED
    BY <1>4, <2>1, <2>2, <2>4 DEF Linked, l
<1> QED
  BY <1>3, <1>4

\* So it only meets labels of the switch.
LEMMA WalkStays ==
  ASSUME IInv, NEW sw \in Switches
  PROVE  \A n \in 0..Len(labels) :
           LET l == Walk(sw.first)[n]
           IN l = Null \/ (l \in OwnLabels(sw.scope) /\ next[l] # Unset)
<1> DEFINE w == Walk(sw.first)
           fine(n) == w[n] = Null \/ (w[n] \in OwnLabels(sw.scope) /\ next[w[n]] # Unset)
           good == {n \in Nat : n <= Len(labels) => fine(n)}
<1>1. Len(labels) \in Nat /\ ITypes /\ sw.first \in Int
  <2>1. Len(labels) \in Nat /\ ITypes
    BY DEF IInv, ITypes
  <2> QED
    BY <2>1, SwitchTypes
<1>2. 0 \in good
  <2>1. w[0] = sw.first
    BY <1>1, WalkEq
  <2> HIDE DEF w
  <2> QED
    BY <2>1 DEF IInv, IHeads, HeadRight
<1>3. ASSUME NEW n \in Nat, n \in good
      PROVE  n + 1 \in good
  <2>1. SUFFICES ASSUME n + 1 <= Len(labels)
                 PROVE  fine(n + 1)
    OBVIOUS
  <2>2. n \in 0..Len(labels) /\ n + 1 \in 1..Len(labels) /\ (n + 1) - 1 = n
    BY <1>1, <2>1
  <2>3. fine(n)
    BY <1>1, <1>3, <2>1
  <2>4. w[n + 1] = IF w[n] \in 1..Len(labels) THEN next[w[n]] ELSE w[n]
    <3> HIDE DEF w
    <3>1. \A m \in 1..Len(labels) :
          w[m] = IF w[m - 1] \in 1..Len(labels) THEN next[w[m - 1]] ELSE w[m - 1]
      BY <1>1, WalkEq DEF w
    <3> QED
      BY <2>2, <3>1
  <2> QED
    BY <2>2, <2>3, <2>4, WalkStep
<1>4. \A n \in Nat : n \in good
  <2> HIDE DEF good
  <2> QED
    BY <1>2, <1>3, Induction
<1> QED
  BY <1>1, <1>4

\* One round of the loop.
LEMMA WalkOn ==
  ASSUME IInv, NEW sw \in Switches, NEW n \in Nat, n + 1 <= Len(labels)
  PROVE  /\ Walk(sw.first)[n] = Null => Walk(sw.first)[n + 1] = Null
         /\ Walk(sw.first)[n] # Null =>
              /\ Walk(sw.first)[n] \in OwnLabels(sw.scope)
              /\ Walk(sw.first)[n + 1] = next[Walk(sw.first)[n]]
              /\ \/ Walk(sw.first)[n + 1] = Null
                 \/ Precedes(Walk(sw.first)[n], Walk(sw.first)[n + 1])
<1> DEFINE w == Walk(sw.first)
<1>1. Len(labels) \in Nat /\ ITypes /\ sw.first \in Int
  <2>1. Len(labels) \in Nat /\ ITypes
    BY DEF IInv, ITypes
  <2> QED
    BY <2>1, SwitchTypes
<1>2. n \in 0..Len(labels) /\ n + 1 \in 1..Len(labels) /\ (n + 1) - 1 = n
  BY <1>1
<1>3. w[n + 1] = IF w[n] \in 1..Len(labels) THEN next[w[n]] ELSE w[n]
  <2>1. \A m \in 1..Len(labels) :
          w[m] = IF w[m - 1] \in 1..Len(labels) THEN next[w[m - 1]] ELSE w[m - 1]
    BY <1>1, WalkEq
  <2> HIDE DEF w
  <2> QED
    BY <1>2, <2>1
<1>4. w[n] = Null \/ (w[n] \in OwnLabels(sw.scope) /\ next[w[n]] # Unset)
  BY <1>2, WalkStays
<1> QED
  BY <1>2, <1>3, <1>4, WalkStep

\* The loop ends: each round leaves fewer labels that could still come.
LEMMA WalkEnds ==
  ASSUME IInv, NEW sw \in Switches
  PROVE  Ends(sw.first)
<1> DEFINE w == Walk(sw.first)
           rest(n) == {k \in 1..Len(labels) : Precedes(w[n], k)}
           good == {n \in Nat : n <= Len(labels) =>
                    w[n] = Null \/ Cardinality(rest(n)) < Len(labels) - n}
<1>1. /\ Len(labels) \in Nat /\ ITypes /\ sw.first \in 0..Len(labels)
      /\ \A l \in 1..Len(labels) : ScopeOf(l) \in Nat
  <2>1. Len(labels) \in Nat /\ ITypes
    BY DEF IInv, ITypes
  <2> QED
    BY <2>1, SwitchTypes, LabelTypes
<1>2. ASSUME NEW n
      PROVE  IsFiniteSet(rest(n)) /\ Cardinality(rest(n)) \in Nat
  <2>1. IsFiniteSet(1..Len(labels)) /\ rest(n) \subseteq 1..Len(labels)
    BY <1>1, FS_Interval
  <2> HIDE DEF rest
  <2> QED
    BY <2>1, FS_Subset, FS_CardinalityType
<1>3. 0 \in good
  <2>1. SUFFICES ASSUME w[0] # Null
                 PROVE  Cardinality(rest(0)) < Len(labels) - 0
    OBVIOUS
  <2>2. 0 \in 0..Len(labels)
    BY <1>1
  <2>3. w[0] \in 1..Len(labels)
    BY <2>1, <2>2, WalkStays DEF OwnLabels
  <2>4. w[0] \notin rest(0)
    <3> HIDE DEF w
    <3> QED
      BY <1>1, <2>3 DEF Precedes
  <2>5. IsFiniteSet(1..Len(labels)) /\ Cardinality(1..Len(labels)) = Len(labels)
    <3> DEFINE L == Len(labels)
    <3>1. L \in Nat
      BY <1>1
    <3> HIDE DEF L
    <3>2. IsFiniteSet(1..L) /\ Cardinality(1..L) = L
      BY <3>1, FS_Interval
    <3> QED
      BY <3>2 DEF L
  <2>6. rest(0) \subseteq 1..Len(labels) /\ rest(0) # 1..Len(labels)
    BY <2>3, <2>4
  <2> HIDE DEF rest
  <2>7. /\ Cardinality(rest(0)) <= Cardinality(1..Len(labels))
        /\ Cardinality(rest(0)) # Cardinality(1..Len(labels))
    BY <2>5, <2>6, FS_Subset
  <2> QED
    BY <1>1, <1>2, <2>5, <2>7
<1>4. ASSUME NEW n \in Nat, n \in good
      PROVE  n + 1 \in good
  <2>1. SUFFICES ASSUME n + 1 <= Len(labels), w[n + 1] # Null
                 PROVE  Cardinality(rest(n + 1)) < Len(labels) - (n + 1)
    OBVIOUS
  <2>2. /\ w[n] # Null /\ Precedes(w[n], w[n + 1]) /\ w[n] \in OwnLabels(sw.scope)
    BY <2>1, WalkOn
  <2>3. w[n] \in 1..Len(labels) /\ w[n + 1] \in 1..Len(labels)
    <3>1. n + 1 \in 0..Len(labels)
      BY <1>1, <2>1
    <3>2. w[n + 1] \in OwnLabels(sw.scope)
      BY <2>1, <3>1, WalkStays
    <3> HIDE DEF w
    <3> QED
      BY <2>2, <3>2 DEF OwnLabels
  <2>4. w[n + 1] \in rest(n) /\ w[n + 1] \notin rest(n + 1) /\ rest(n + 1) \subseteq rest(n)
    <3> DEFINE a == w[n]
               b == w[n + 1]
    <3>1. ScopeOf(a) \in Nat /\ ScopeOf(b) \in Nat /\ a \in 1..Len(labels) /\ b \in 1..Len(labels)
          /\ Precedes(a, b)
      BY <1>1, <2>2, <2>3
    <3> HIDE DEF a, b
    <3>2. b \in {k \in 1..Len(labels) : Precedes(a, k)} /\ ~Precedes(b, b)
      BY <1>1, <3>1 DEF Precedes
    <3>3. \A k \in 1..Len(labels) : Precedes(b, k) => Precedes(a, k)
      BY <1>1, <3>1 DEF Precedes
    <3> QED
      BY <3>2, <3>3 DEF a, b
  <2>5. rest(n + 1) # rest(n)
    BY <2>4
  <2>6. Cardinality(rest(n)) < Len(labels) - n
    BY <1>1, <1>4, <2>1, <2>2
  <2>7. Cardinality(rest(n + 1)) < Cardinality(rest(n))
    <3>1. IsFiniteSet(rest(n)) /\ rest(n + 1) \subseteq rest(n)
      BY <1>2, <2>4
    <3> HIDE DEF rest
    <3>2. Cardinality(rest(n + 1)) <= Cardinality(rest(n))
      BY <3>1, FS_Subset
    <3>3. Cardinality(rest(n + 1)) # Cardinality(rest(n))
      BY <2>5, <3>1, FS_Subset
    <3>4. Cardinality(rest(n)) \in Nat /\ Cardinality(rest(n + 1)) \in Nat
      BY <1>2
    <3> QED
      BY <3>2, <3>3, <3>4
  <2>8. Cardinality(rest(n)) \in Nat /\ Cardinality(rest(n + 1)) \in Nat
    BY <1>2
  <2> HIDE DEF rest
  <2> QED
    BY <1>1, <2>6, <2>7, <2>8
<1>5. \A n \in Nat : n \in good
  <2> HIDE DEF good
  <2> QED
    BY <1>3, <1>4, Induction
<1>6. w[Len(labels)] = Null \/ Cardinality(rest(Len(labels))) < Len(labels) - Len(labels)
  BY <1>1, <1>5
<1>7. Cardinality(rest(Len(labels))) \in Nat
  BY <1>2
<1>8. w[Len(labels)] = Null
  <2> HIDE DEF rest, w
  <2> QED
    BY <1>1, <1>6, <1>7
<1> QED
  BY <1>8 DEF Ends

\* Behind NULL there is NULL.
LEMMA StaysNull ==
  ASSUME IInv, NEW sw \in Switches, NEW m \in 0..Len(labels), Walk(sw.first)[m] = Null
  PROVE  \A n \in m..Len(labels) : Walk(sw.first)[n] = Null
<1> DEFINE w == Walk(sw.first)
           good == {d \in Nat : m + d <= Len(labels) => w[m + d] = Null}
<1>1. Len(labels) \in Nat
  BY DEF IInv, ITypes
<1>2. 0 \in good
  <2>1. m + 0 = m
    OBVIOUS
  <2> QED
    BY <2>1
<1>3. ASSUME NEW d \in Nat, d \in good
      PROVE  d + 1 \in good
  <2>1. SUFFICES ASSUME m + (d + 1) <= Len(labels)
                 PROVE  w[m + (d + 1)] = Null
    OBVIOUS
  <2>2. m + d \in Nat /\ (m + d) + 1 <= Len(labels) /\ (m + d) + 1 = m + (d + 1)
    BY <1>1, <2>1
  <2>3. w[m + d] = Null
    BY <1>1, <1>3, <2>1
  <2>4. w[(m + d) + 1] = Null
    BY <2>2, <2>3, WalkOn
  <2> HIDE DEF w
  <2> QED
    BY <2>2, <2>4
<1>4. \A d \in Nat : d \in good
  <2> HIDE DEF good
  <2> QED
    BY <1>2, <1>3, Induction
<1>5. ASSUME NEW n \in m..Len(labels)
      PROVE  w[n] = Null
  <2>1. n - m \in Nat /\ m + (n - m) = n /\ n <= Len(labels)
    BY <1>1
  <2>2. n - m \in good
    BY <1>4, <2>1
  <2>3. w[m + (n - m)] = Null
    BY <2>1, <2>2
  <2> HIDE DEF w
  <2> QED
    BY <2>1, <2>3
<1> QED
  BY <1>5

\* The rounds after which the loop has stopped.
Stops(first) == {n \in 0..Len(labels) : Walk(first)[n] \notin 1..Len(labels)}

\* The labels before the stop are the list.
LEMMA StopFacts ==
  ASSUME IInv, NEW sw \in Switches
  PROVE  LET stop == Min(Stops(sw.first))
         IN /\ Stops(sw.first) # {}
            /\ stop \in 0..Len(labels)
            /\ \A n \in 0..Len(labels) :
                 IF n < stop THEN Walk(sw.first)[n] \in OwnLabels(sw.scope)
                             ELSE Walk(sw.first)[n] = Null
            /\ ListFrom(sw.first) = [i \in 1..stop |-> Walk(sw.first)[i - 1]]
<1> DEFINE w == Walk(sw.first)
           S == Stops(sw.first)
           stop == Min(S)
<1>1. Len(labels) \in Nat
  BY DEF IInv, ITypes
<1>2. Null \notin 1..Len(labels)
  BY DEF Null
<1>3. Len(labels) \in S
  BY <1>1, <1>2, WalkEnds DEF Stops, Ends
<1>4. stop \in S /\ \A n \in S : stop <= n
  <2>1. S \subseteq 0..Len(labels) /\ S # {}
    BY <1>3 DEF Stops
  <2> HIDE DEF S
  <2> QED
    BY <1>1, <2>1, LeastOf
<1>5. stop \in 0..Len(labels) /\ w[stop] = Null
  <2>1. stop \in 0..Len(labels) /\ w[stop] \notin 1..Len(labels)
    BY <1>4 DEF Stops
  <2>2. w[stop] = Null \/ w[stop] \in OwnLabels(sw.scope)
    BY <2>1, WalkStays
  <2> QED
    BY <2>1, <2>2 DEF OwnLabels
<1>6. ASSUME NEW n \in 0..Len(labels)
      PROVE  IF n < stop THEN w[n] \in OwnLabels(sw.scope) ELSE w[n] = Null
  <2>1. CASE n < stop
    <3>1. n \notin S
      BY <1>1, <1>4, <1>5, <2>1
    <3>2. w[n] \in 1..Len(labels)
      BY <3>1 DEF Stops
    <3>3. w[n] = Null \/ w[n] \in OwnLabels(sw.scope)
      BY WalkStays
    <3> QED
      BY <1>2, <2>1, <3>2, <3>3
  <2>2. CASE ~(n < stop)
    <3>1. n \in stop..Len(labels)
      BY <1>1, <1>5, <2>2
    <3> QED
      BY <1>5, <2>2, <3>1, StaysNull
  <2> QED
    BY <2>1, <2>2
<1>7. ListFrom(sw.first) = [i \in 1..stop |-> w[i - 1]]
  <2>1. S # {}
    BY <1>3
  <2>2. S = {n \in 0..Len(labels) : Walk(sw.first)[n] \notin 1..Len(labels)}
    BY DEF Stops
  <2>3. ListFrom(sw.first) = [i \in 1..(IF S = {} THEN Len(labels) ELSE Min(S)) |-> w[i - 1]]
    BY <2>2, Zenon DEF ListFrom
  <2> QED
    BY <2>1, <2>3
<1> QED
  BY <1>3, <1>5, <1>6, <1>7

\* The list holds labels of the switch, and all that the loop meets.
LEMMA ListedAre ==
  ASSUME IInv, NEW sw \in Switches
  PROVE  /\ Listed(sw) \subseteq OwnLabels(sw.scope)
         /\ \A n \in 0..Len(labels) : Walk(sw.first)[n] # Null => Walk(sw.first)[n] \in Listed(sw)
<1> DEFINE w == Walk(sw.first)
           stop == Min(Stops(sw.first))
           list == ListFrom(sw.first)
<1>1. Len(labels) \in Nat
  BY DEF IInv, ITypes
<1>2. stop \in 0..Len(labels) /\ list = [i \in 1..stop |-> w[i - 1]]
  BY StopFacts
<1>3. \A n \in 0..Len(labels) : IF n < stop THEN w[n] \in OwnLabels(sw.scope) ELSE w[n] = Null
  BY StopFacts
<1> HIDE DEF stop, w, list
<1>4. Listed(sw) = {list[i] : i \in 1..stop}
  BY <1>2 DEF Listed, ToSet, list
<1>5. ASSUME NEW i \in 1..stop
      PROVE  list[i] \in OwnLabels(sw.scope)
  <2>1. i - 1 \in 0..Len(labels) /\ i - 1 < stop
    BY <1>1, <1>2
  <2> QED
    BY <1>2, <1>3, <2>1
<1>6. ASSUME NEW n \in 0..Len(labels), w[n] # Null
      PROVE  w[n] \in Listed(sw)
  <2>1. n < stop
    BY <1>3, <1>6
  <2>2. n + 1 \in 1..stop /\ (n + 1) - 1 = n
    BY <1>1, <1>2, <2>1
  <2>3. list[n + 1] = w[n]
    BY <1>2, <2>2
  <2> QED
    BY <1>4, <2>2, <2>3
<1> QED
  BY <1>4, <1>5, <1>6 DEF w

\* The loop meets every label of the body, in order: the least one it would
\* miss is linked from the one before.
LEMMA BodyListed ==
  ASSUME IInv, NEW sw \in Switches
  PROVE  At(sw.scope + 1) \subseteq Listed(sw)
<1> DEFINE w == Walk(sw.first)
           body == sw.scope + 1
           missing == {l \in At(body) : l \notin Listed(sw)}
<1>1. Len(labels) \in Nat /\ At(body) \subseteq 1..Len(labels) /\ ITypes /\ sw.first \in Int
  <2>1. Len(labels) \in Nat /\ ITypes
    BY DEF IInv, ITypes
  <2> QED
    BY <2>1, SwitchTypes DEF At
<1>2. /\ At(body) # {} => sw.first = After(body, 0)
      /\ \A l \in At(body) : After(body, l) # Null => next[l] = After(body, l)
  BY DEF IInv, IHeads, HeadRight
<1>3. SUFFICES ASSUME missing # {}
               PROVE  FALSE
  OBVIOUS
<1>4. PICK l \in missing : \A k \in missing : l <= k
  <2>1. missing \subseteq Nat
    BY <1>1
  <2> HIDE DEF missing
  <2> QED
    BY <1>3, <2>1, LeastNumber
<1>5. l \in At(body) /\ l \notin Listed(sw) /\ \A k \in At(body) : k < l => k \in Listed(sw)
  <2>1. \A k \in At(body) : k \in Nat
    BY <1>1
  <2> QED
    BY <1>1, <1>4, <2>1
<1> DEFINE earlier == {k \in At(body) : k < l}
<1>6. CASE earlier = {}
  <2>1. After(body, 0) \in At(body) /\ After(body, 0) <= l
    BY <1>1, <1>5, AfterIn
  <2>2. After(body, 0) = l
    BY <1>1, <1>5, <1>6, <2>1
  <2>3. w[0] = l
    BY <1>1, <1>2, <1>5, <2>2, WalkEq
  <2>4. l # Null /\ 0 \in 0..Len(labels)
    BY <1>1, <1>5 DEF Null
  <2> QED
    BY <1>5, <2>3, <2>4, ListedAre
<1>7. CASE earlier # {}
  <2> DEFINE k == Max(earlier)
  <2>1. k \in earlier /\ \A j \in earlier : j <= k
    <3>1. earlier \subseteq 0..Len(labels)
      BY <1>1
    <3> HIDE DEF earlier
    <3> QED
      BY <1>1, <1>7, <3>1, GreatestOf
  <2>2. k \in At(body) /\ k < l /\ k \in 1..Len(labels) /\ \A j \in At(body) : j < l => j <= k
    <3> HIDE DEF k
    <3> QED
      BY <1>1, <2>1
  <2> HIDE DEF k, earlier
  <2>3. After(body, k) = l
    <3>1. After(body, k) \in At(body) /\ After(body, k) > k /\ After(body, k) <= l
      BY <1>1, <1>5, <2>2, AfterIn DEF Null
    <3> QED
      BY <1>1, <1>5, <2>2, <3>1
  <2>4. next[k] = l
    BY <1>1, <1>2, <1>5, <2>2, <2>3 DEF Null
  <2>5. k \in Listed(sw)
    BY <1>5, <2>2
  <2>6. PICK n \in 0..Len(labels) : w[n] = k
    <3>1. PICK i \in DOMAIN ListFrom(sw.first) : ListFrom(sw.first)[i] = k
      BY <2>5 DEF Listed, ToSet
    <3> DEFINE stop == Min(Stops(sw.first))
    <3>2. stop \in 0..Len(labels) /\ ListFrom(sw.first) = [j \in 1..stop |-> w[j - 1]]
      BY StopFacts
    <3> HIDE DEF stop, w
    <3>3. i - 1 \in 0..Len(labels) /\ w[i - 1] = k
      BY <1>1, <3>1, <3>2
    <3> QED
      BY <3>3
  <2>7. n + 1 <= Len(labels)
    <3>1. w[Len(labels)] = Null
      BY WalkEnds DEF Ends
    <3> HIDE DEF w
    <3> QED
      BY <1>1, <2>2, <2>6, <3>1 DEF Null
  <2>8. w[n + 1] = l
    <3>1. n \in Nat /\ w[n] # Null
      BY <2>2, <2>6 DEF Null
    <3>2. w[n + 1] = next[w[n]]
      BY <2>7, <3>1, WalkOn
    <3> HIDE DEF w
    <3> QED
      BY <2>4, <2>6, <3>2
  <2>9. l # Null /\ n + 1 \in 0..Len(labels)
    BY <1>1, <1>5, <2>7 DEF Null
  <2>10. w[n + 1] \in Listed(sw)
    <3>1. w[n + 1] # Null
      <4> HIDE DEF w
      <4> QED
        BY <2>8, <2>9
    <3> QED
      BY <2>9, <3>1, ListedAre
  <2> HIDE DEF w
  <2> QED
    BY <1>5, <2>8, <2>10
<1> QED
  BY <1>6, <1>7

\* The invariant is as strong as the property.
LEMMA ListsOwn == IInv => ListsOwnLabels
<1> SUFFICES ASSUME IInv, NEW sw \in Switches
             PROVE  /\ Ends(sw.first)
                    /\ Listed(sw) \subseteq OwnLabels(sw.scope)
                    /\ \A l \in OwnLabels(sw.scope) : InBody(l, sw) => l \in Listed(sw)
  BY DEF ListsOwnLabels
<1>1. ASSUME NEW l \in OwnLabels(sw.scope), InBody(l, sw)
      PROVE  l \in Listed(sw)
  <2>1. /\ ITypes /\ ITree /\ scopes[sw.scope].isSwitch /\ sw.scope \in 1..Len(scopes)
        /\ sw.scope + 1 \in 1..Len(scopes)
    BY SwitchTypes DEF IInv, IHeads, HeadRight
  <2>2. l \in 1..Len(labels) /\ ScopeOf(l) \in 1..Len(scopes)
    BY <2>1, LabelTypes DEF OwnLabels
  <2>3. ScopeOf(l) \in Children(sw.scope)
    BY <1>1, <2>2 DEF InBody, Children, ScopeOf
  <2>4. ScopeOf(l) = sw.scope + 1
    BY <2>1, <2>3 DEF ITree
  <2>5. l \in At(sw.scope + 1)
    BY <2>2, <2>4 DEF At, ScopeOf
  <2> QED
    BY <2>5, BodyListed
<1> QED
  BY <1>1, WalkEnds, ListedAre

-----------------------------------------------------------------------------
(* The theorems about lists and jumps *)

(***************************************************************************)
(* Every variable holds values of its type, for every number of scopes and *)
(* labels and every set of values.                                         *)
(***************************************************************************)
THEOREM Typing == Spec => []TypeOK
<1>1. IInv => TypeOK
  <2> SUFFICES ASSUME IInv
               PROVE  TypeOK
    OBVIOUS
  <2>1. ITypes
    BY DEF IInv
  <2>2. \A sw \in Switches : sw.scope \in 1..Len(scopes) /\ sw.first \in 0..Len(labels)
    BY <2>1, SwitchTypes
  <2> QED
    BY <2>1, <2>2 DEF ITypes, TypeOK
<1> QED
  BY <1>1, Invariance, PTL

(***************************************************************************)
(* "Except if in another switch": gen_asm_switch walks a list that ends at *)
(* NULL and holds only labels of its own switch, among them all those that *)
(* stand directly in its body, whatever is nested in between.              *)
(***************************************************************************)
THEOREM Lists == Spec => []ListsOwnLabels
BY ListsOwn, Invariance, PTL

\* The comparisons find the label with the value, or else the default.
LEMMA DispatchFinds ==
  ASSUME IInv, NEW sw \in Switches, NEW v,
         \A l \in OwnLabels(sw.scope) : InBody(l, sw)
  PROVE  LET own == OwnLabels(sw.scope)
             target == Dispatch(sw, v)
         IN IF \E l \in own : labels[l].value = v
            THEN target \in own /\ labels[target].value = v
            ELSE IF \E l \in own : labels[l].value = Default
            THEN target \in own /\ labels[target].value = Default
            ELSE target = Null
<1> DEFINE own == OwnLabels(sw.scope)
           list == ListFrom(sw.first)
           stop == Min(Stops(sw.first))
           hits == {i \in DOMAIN list : labels[list[i]].value = v}
           defaults == {i \in DOMAIN list : labels[list[i]].value = Default}
<1>1. stop \in Nat /\ DOMAIN list = 1..stop
  <2>1. Len(labels) \in Nat /\ stop \in 0..Len(labels)
        /\ list = [i \in 1..stop |-> Walk(sw.first)[i - 1]]
    BY StopFacts DEF IInv, ITypes
  <2> HIDE DEF stop, list
  <2> QED
    BY <2>1
<1>2. own = Listed(sw)
  BY ListsOwn DEF ListsOwnLabels
<1>3. Listed(sw) = {list[i] : i \in DOMAIN list}
  BY DEF Listed, ToSet
<1> HIDE DEF stop, list
<1>4. hits # {} => Min(hits) \in hits
  <2>1. hits \subseteq 0..stop
    BY <1>1
  <2> HIDE DEF hits
  <2> QED
    BY <1>1, <2>1, LeastOf
<1>5. defaults # {} => Max(defaults) \in defaults
  <2>1. defaults \subseteq 0..stop
    BY <1>1
  <2> HIDE DEF defaults
  <2> QED
    BY <1>1, <2>1, GreatestOf
<1>6. Dispatch(sw, v) = IF hits # {} THEN list[Min(hits)]
                        ELSE IF defaults # {} THEN list[Max(defaults)] ELSE Null
  BY DEF Dispatch, list
<1>7. hits # {} <=> \E l \in own : labels[l].value = v
  BY <1>2, <1>3
<1>8. defaults # {} <=> \E l \in own : labels[l].value = Default
  BY <1>2, <1>3
<1>9. hits # {} => list[Min(hits)] \in own /\ labels[list[Min(hits)]].value = v
  BY <1>2, <1>3, <1>4
<1>10. defaults # {} => list[Max(defaults)] \in own /\ labels[list[Max(defaults)]].value = Default
  BY <1>2, <1>3, <1>5
<1> HIDE DEF hits, defaults, own
<1> QED
  BY <1>6, <1>7, <1>8, <1>9, <1>10 DEF own

(***************************************************************************)
(* The comparisons of gen_asm_switch transfer control where C does if all  *)
(* labels of the switch stand directly in its body, for every nesting of   *)
(* switches and blocks.                                                    *)
(***************************************************************************)
THEOREM Dispatching == Spec => []DispatchesCorrectly
<1>1. IInv => DispatchesCorrectly
  BY DispatchFinds DEF DispatchesCorrectly
<1> QED
  BY <1>1, Invariance, PTL

\* What a walk from first is, as a formula of one state,
WalkOf(first) ==
  LET stop == Min(Stops(first))
  IN /\ Walk(first)[0] = first
     /\ \A n \in 1..Len(labels) :
          Walk(first)[n] = IF Walk(first)[n - 1] \in 1..Len(labels)
                           THEN next[Walk(first)[n - 1]] ELSE Walk(first)[n - 1]
     /\ stop \in 0..Len(labels)
     /\ \A n \in 0..Len(labels) :
          IF n < stop THEN Walk(first)[n] \in 1..Len(labels) ELSE Walk(first)[n] = Null
     /\ ListFrom(first) = [i \in 1..stop |-> Walk(first)[i - 1]]

WalksOf == \A sw \in Switches : WalkOf(sw.first)

\* which holds in every state,
LEMMA WalkNow == IInv => WalksOf
<1> SUFFICES ASSUME IInv, NEW sw \in Switches
             PROVE  WalkOf(sw.first)
  BY DEF WalksOf
<1>1. ITypes /\ sw.first \in Int
  <2>1. ITypes
    BY DEF IInv
  <2> QED
    BY <2>1, SwitchTypes
<1>2. OwnLabels(sw.scope) \subseteq 1..Len(labels)
  BY DEF OwnLabels
<1> DEFINE stop == Min(Stops(sw.first))
<1>3. /\ stop \in 0..Len(labels)
      /\ \A n \in 0..Len(labels) :
           IF n < stop THEN Walk(sw.first)[n] \in OwnLabels(sw.scope) ELSE Walk(sw.first)[n] = Null
      /\ ListFrom(sw.first) = [i \in 1..stop |-> Walk(sw.first)[i - 1]]
  BY StopFacts
<1>4. /\ Walk(sw.first)[0] = sw.first
      /\ \A n \in 1..Len(labels) :
            Walk(sw.first)[n] = IF Walk(sw.first)[n - 1] \in 1..Len(labels)
                                THEN next[Walk(sw.first)[n - 1]] ELSE Walk(sw.first)[n - 1]
  BY <1>1, WalkEq
<1> QED
  BY <1>2, <1>3, <1>4 DEF WalkOf

\* and so in the state after a step.
LEMMA WalkAfter == IInv' => WalksOf'
BY WalkNow, PTL

\* A step that leaves the links of a switch's labels alone leaves its list
\* alone: the walk takes the same turns and stops at the same place.
LEMMA SameList ==
  ASSUME IInv, IInv', NEW sw \in Switches, sw \in Switches', Len(labels) <= Len(labels'),
         \A l \in OwnLabels(sw.scope) : next'[l] = next[l]
  PROVE  ListFrom(sw.first)' = ListFrom(sw.first)
<1>0. PICK first : first = sw.first
  OBVIOUS
<1> DEFINE L == Len(labels)
           M == Len(labels')
           w == Walk(first)
           v == Walk(first)'
           stop == Min(Stops(first))
           halt == Min(Stops(first))'
<1>1. L \in Nat /\ M \in Nat /\ L <= M
  BY DEF IInv, ITypes
<1>2. /\ w[0] = first
      /\ \A n \in 1..L : w[n] = IF w[n - 1] \in 1..L THEN next[w[n - 1]] ELSE w[n - 1]
      /\ stop \in 0..L
      /\ \A n \in 0..L : IF n < stop THEN w[n] \in 1..L ELSE w[n] = Null
      /\ ListFrom(first) = [i \in 1..stop |-> w[i - 1]]
  BY <1>0, WalkNow DEF WalksOf, WalkOf
<1>3. /\ v[0] = first
      /\ \A n \in 1..M : v[n] = IF v[n - 1] \in 1..M THEN next'[v[n - 1]] ELSE v[n - 1]
      /\ halt \in 0..M
      /\ \A n \in 0..M : IF n < halt THEN v[n] \in 1..M ELSE v[n] = Null
      /\ ListFrom(first)' = [i \in 1..halt |-> v[i - 1]]
  BY <1>0, WalkAfter DEF WalksOf, WalkOf
<1>4. \A n \in 0..L : w[n] = Null \/ (w[n] \in OwnLabels(sw.scope) /\ w[n] \in 1..L)
  BY <1>0, WalkStays DEF OwnLabels
<1> HIDE DEF w, v, stop, halt
<1>5. \A n \in 0..L : v[n] = w[n]
  <2> DEFINE good == {n \in Nat : n <= L => v[n] = w[n]}
  <2>1. 0 \in good
    BY <1>2, <1>3
  <2>2. ASSUME NEW n \in Nat, n \in good
        PROVE  n + 1 \in good
    <3>1. SUFFICES ASSUME n + 1 <= L
                   PROVE  v[n + 1] = w[n + 1]
      OBVIOUS
    <3>2. n + 1 \in 1..L /\ n + 1 \in 1..M /\ (n + 1) - 1 = n /\ n \in 0..L /\ v[n] = w[n]
      BY <1>1, <2>2, <3>1
    <3>3. v[n + 1] = IF w[n] \in 1..M THEN next'[w[n]] ELSE w[n]
      BY <1>3, <3>2
    <3>4. w[n + 1] = IF w[n] \in 1..L THEN next[w[n]] ELSE w[n]
      BY <1>2, <3>2
    <3>5. CASE w[n] = Null
      BY <3>3, <3>4, <3>5 DEF Null
    <3>6. CASE w[n] # Null
      <4>1. w[n] \in OwnLabels(sw.scope) /\ w[n] \in 1..L /\ w[n] \in 1..M
        BY <1>1, <1>4, <3>2, <3>6
      <4> QED
        BY <3>3, <3>4, <4>1
    <3> QED
      BY <3>5, <3>6
  <2>3. \A n \in Nat : n \in good
    <3> HIDE DEF good
    <3> QED
      BY <2>1, <2>2, Induction
  <2> QED
    BY <1>1, <2>3
<1>6. halt = stop
  <2>1. stop \in 0..M /\ w[stop] = Null /\ v[stop] = Null
    BY <1>1, <1>2, <1>5
  <2>2. ~(stop < halt)
    BY <1>3, <2>1 DEF Null
  <2>3. halt \in 0..L /\ v[halt] = Null /\ w[halt] = Null
    BY <1>1, <1>2, <1>3, <1>5, <2>2
  <2>4. ~(halt < stop)
    BY <1>2, <2>3 DEF Null
  <2> QED
    BY <1>1, <1>2, <1>3, <2>2, <2>4
<1>7. \A i \in 1..stop : v[i - 1] = w[i - 1]
  BY <1>1, <1>2, <1>5
<1>8. ListFrom(first)' = ListFrom(first)
  BY <1>2, <1>3, <1>6, <1>7
<1> QED
  BY <1>0, <1>8

\* No step writes the link of a label of a finished switch.
LEMMA LinksKept ==
  ASSUME IInv, [Next]_vars, NEW sw \in Switches
  PROVE  /\ Len(labels) <= Len(labels')
         /\ \A l \in OwnLabels(sw.scope) : next'[l] = next[l]
<1>1. /\ ITypes /\ Len(labels) \in Nat /\ Len(next) = Len(labels)
      /\ next \in Seq({Unset} \union (0..Len(labels)))
      /\ labels \in Seq([scope : 1..Len(scopes), value : Values \union {Default}])
  BY DEF IInv, ITypes
<1>2. OwnLabels(sw.scope) \subseteq 1..Len(labels)
  BY DEF OwnLabels
<1>3. CASE labels' = labels /\ next' = next
  BY <1>1, <1>3
<1>4. ASSUME NEW value, InsertLabel(value)
      PROVE  /\ Len(labels) <= Len(labels')
             /\ \A l \in OwnLabels(sw.scope) : next'[l] = next[l]
  <2>1. Len(labels') = Len(labels) + 1
    BY <1>1, <1>4 DEF InsertLabel
  <2>2. \A l \in 1..Len(labels) : next'[l] = next[l]
    BY <1>1, <1>4 DEF InsertLabel
  <2> QED
    BY <1>1, <1>2, <2>1, <2>2
<1>5. CASE CloseSwitch
  <2>1. labels' = labels /\ next' = [l \in 1..Len(labels) |-> LinkedFrom(cur)[l]]
    BY <1>5 DEF CloseSwitch
  <2>2. \A l \in 1..Len(labels) : LinkedFrom(cur)[l] # next[l] => l \in OwnLabels(cur)
    BY <1>5, SwitchClosed
  <2>3. sw.scope # cur
    BY <1>1, <1>5, SwitchClosed, SwitchTypes
  <2>4. \A l \in OwnLabels(sw.scope) : l \notin OwnLabels(cur)
    BY <2>3 DEF OwnLabels
  <2> QED
    BY <1>1, <1>2, <2>1, <2>2, <2>4
<1> QED
  BY <1>3, <1>4, <1>5 DEF Next, vars, OpenBlock, OpenSwitch, NewScope, Case, DefaultCase, CloseBlock

(***************************************************************************)
(* ASTNode.switch_cases stays good: no later label and no later lookup, of *)
(* an enclosing, a nested or a following switch, changes the list of a     *)
(* switch that is already parsed.                                          *)
(***************************************************************************)
THEOREM ListsStay == Spec => ListsKept
<1>1. ASSUME IInv, IInv', [Next]_vars, NEW i \in 1..Len(switchCases)
      PROVE  ListFrom(switchCases[i].first)' = ListFrom(switchCases[i].first)
  <2>1. switchCases \in Seq([scope : 1..Len(scopes), first : 0..Len(labels)])
    BY <1>1 DEF IInv, ITypes
  <2>2. PICK sw : sw = switchCases[i]
    OBVIOUS
  <2>3. switchCases'[i] = switchCases[i] /\ i \in 1..Len(switchCases')
    <3>1. switchCases' = switchCases \/ \E new : switchCases' = Append(switchCases, new)
      BY <1>1 DEF Next, vars, OpenBlock, OpenSwitch, NewScope, Case, DefaultCase, InsertLabel,
                  CloseBlock, CloseSwitch
    <3> QED
      BY <2>1, <3>1
  <2>4. sw \in Switches /\ sw \in Switches'
    BY <2>2, <2>3 DEF Switches
  <2>5. ListFrom(sw.first)' = ListFrom(sw.first)
    BY <1>1, <2>4, LinksKept, SameList
  <2> QED
    BY <2>2, <2>3, <2>5
<1>2. IInv /\ IInv' /\ [Next]_vars =>
        [\A i \in 1..Len(switchCases) :
           ListFrom(switchCases[i].first)' = ListFrom(switchCases[i].first)]_vars
  BY <1>1
<1> QED
  BY <1>2, Invariance, PTL DEF Spec, ListsKept

=============================================================================

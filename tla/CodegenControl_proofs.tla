------------------------- MODULE CodegenControl_proofs -------------------------
(***************************************************************************)
(* Proofs about CodegenControl: every label of a function is placed once   *)
(* and none is freed under a context that still uses it, and the jumps     *)
(* made where JumpSafe holds lead where C says, however deep the nesting.  *)
(*                                                                         *)
(* The invariant says who owns a label (the statement that made it), what  *)
(* of it is still to be placed, and which of the statements around a list  *)
(* the list's context points to.                                           *)
(***************************************************************************)
EXTENDS CodegenControl, Induction, SequenceTheorems

Kinds == {"func", "block", "while", "for", "do", "switch", "if", "ifelse", "else"}

FrameSet ==
  [kind : Kinds, top : Nat, brk : Nat, cont : Nat, start : Nat, end : Nat,
   afterLoop : BOOLEAN]

\* The labels the statement made.
Own(frame) == {frame.top, frame.brk, frame.cont} \ {None}

\* Those of them that are placed when the statement is left.
Pending(frame) ==
  CASE frame.kind \in {"func", "if", "ifelse", "else"} -> {frame.top}
    [] frame.kind \in {"while", "switch"} -> {frame.brk}
    [] frame.kind = "for" -> {frame.brk, frame.cont}
    [] OTHER -> {}

\* Which labels a statement of each kind has.
Shaped(frame) ==
  /\ frame.kind \notin {"block"} => frame.top # None
  /\ frame.kind \in {"while", "for", "switch"} => frame.brk # None
  /\ frame.kind \in {"while", "for"} => frame.cont # None
  /\ frame.kind = "for" => frame.brk # frame.cont

IFrames ==
  /\ frames \in Seq(FrameSet)
  /\ \A i \in 1..Len(frames) : (frames[i].kind = "func" <=> i = 1) /\ Shaped(frames[i])

\* Every label was made by the function, and a statement's by the statement.
ILabels ==
  /\ labelCount \in 1..MaxLabels
  /\ freed \subseteq 1..labelCount
  /\ placed \in Seq(1..labelCount)
  /\ \A i \in 1..Len(frames) :
       /\ Own(frames[i]) \subseteq 1..labelCount
       /\ frames[i].start <= labelCount /\ frames[i].end <= labelCount
       /\ Own(frames[i]) \intersect freed = {}
       /\ \A j \in 1..Len(frames) : i # j => Own(frames[i]) \intersect Own(frames[j]) = {}

\* A label is placed once: it is in the code or its statement is still open.
IPlaced ==
  /\ IsInjective(placed)
  /\ \A i \in 1..Len(frames) : Pending(frames[i]) \intersect ToSet(placed) = {}
  /\ \A label \in 1..labelCount :
       label \in ToSet(placed) \/ \E i \in 1..Len(frames) : label \in Pending(frames[i])

\* Up to the first loop that ended before, a context has the labels of
\* statements that are still open.
IContexts ==
  \A i \in 1..Len(frames) :
    (\A j \in 1..i : ~frames[j].afterLoop) =>
      \A label \in {frames[i].start, frames[i].end} \ {None} :
        \E k \in 1..i : label \in Own(frames[k])

\* It has those of the innermost statement that break or continue is about.
IInner ==
  \A b, i \in 1..Len(frames) :
    b <= i /\ (\A j \in b..i : ~frames[j].afterLoop) =>
      /\ /\ frames[b].kind \in Breakable \ {"do"}
         /\ \A j \in (b + 1)..i : frames[j].kind \notin Breakable
         => frames[i].end = frames[b].brk
      /\ /\ frames[b].kind \in Loops \ {"do"}
         /\ \A j \in (b + 1)..i : frames[j].kind \notin Loops
         => frames[i].start = frames[b].cont

IJumps ==
  /\ \A j \in jumps : j.to \in (1..labelCount) \union {None, Dangling}
  /\ Careful => \A j \in jumps : j.wanted \in 1..labelCount /\ j.to = j.wanted

IInv == IFrames /\ ILabels /\ IPlaced /\ IContexts /\ IInner /\ IJumps

-----------------------------------------------------------------------------
(* Sequences *)

LEMMA Appended ==
  ASSUME NEW S, NEW s \in Seq(S), NEW x \in S
  PROVE  /\ Append(s, x) \in Seq(S) /\ Len(Append(s, x)) = Len(s) + 1
         /\ \A i \in 1..Len(s) : Append(s, x)[i] = s[i]
         /\ Append(s, x)[Len(s) + 1] = x
OBVIOUS

LEMMA Replaced ==
  ASSUME NEW S, NEW s \in Seq(S), NEW x \in S, NEW n \in 1..Len(s),
         NEW t, t = Append(SubSeq(s, 1, n - 1), x)
  PROVE  /\ t \in Seq(S) /\ Len(t) = n
         /\ \A i \in 1..(n - 1) : t[i] = s[i]
         /\ t[n] = x
<1> DEFINE u == SubSeq(s, 1, n - 1)
<1>1. n - 1 \in Int /\ \A i \in 1..(n - 1) : s[i] \in S
  OBVIOUS
<1>2. /\ u \in Seq(S) /\ Len(u) = n - 1
      /\ \A i \in 1..(n - 1) : u[i] = s[i]
  BY <1>1, SubSeqProperties
<1> HIDE DEF u
<1>3. QED
  BY <1>2, Appended

\* A sequence without repetitions, followed by another one with other elements.
LEMMA PlacedMore ==
  ASSUME NEW S, NEW s \in Seq(S), NEW t \in Seq(S),
         IsInjective(s), IsInjective(t), ToSet(s) \intersect ToSet(t) = {}
  PROVE  /\ s \o t \in Seq(S) /\ IsInjective(s \o t)
         /\ ToSet(s \o t) = ToSet(s) \union ToSet(t)
<1> DEFINE u == s \o t
<1>1. /\ u \in Seq(S) /\ Len(u) = Len(s) + Len(t)
      /\ \A i \in 1..Len(u) : u[i] = IF i <= Len(s) THEN s[i] ELSE t[i - Len(s)]
  BY ConcatProperties
<1> HIDE DEF u
<1>2. \A i \in 1..Len(s) : u[i] = s[i] /\ s[i] \in ToSet(s)
  BY <1>1 DEF ToSet
<1>3. \A i \in 1..Len(t) : u[Len(s) + i] = t[i] /\ t[i] \in ToSet(t)
  BY <1>1 DEF ToSet
<1>4. ToSet(u) = ToSet(s) \union ToSet(t)
  <2>1. ToSet(u) \subseteq ToSet(s) \union ToSet(t)
    <3> SUFFICES ASSUME NEW i \in 1..Len(u) PROVE u[i] \in ToSet(s) \union ToSet(t)
      BY <1>1 DEF ToSet
    <3>1. CASE i <= Len(s)
      BY <1>2, <3>1
    <3>2. CASE i > Len(s)
      <4>1. i - Len(s) \in 1..Len(t) /\ i = Len(s) + (i - Len(s))
        BY <1>1, <3>2
      <4> QED
        BY <1>3, <4>1
    <3> QED
      BY <3>1, <3>2
  <2>2. \A i \in 1..Len(s) : s[i] \in ToSet(u)
    <3> TAKE i \in 1..Len(s)
    <3>1. i \in 1..Len(u) /\ u[i] = s[i]
      BY <1>1
    <3> QED
      BY <1>1, <3>1 DEF ToSet
  <2>3. \A i \in 1..Len(t) : t[i] \in ToSet(u)
    <3> TAKE i \in 1..Len(t)
    <3>1. Len(s) + i \in 1..Len(u) /\ u[Len(s) + i] = t[i]
      BY <1>1, <1>3
    <3> QED
      BY <1>1, <3>1 DEF ToSet
  <2> QED
    BY <2>1, <2>2, <2>3 DEF ToSet
<1>5. IsInjective(u)
  <2> SUFFICES ASSUME NEW i \in 1..Len(u), NEW j \in 1..Len(u), u[i] = u[j]
               PROVE  i = j
    BY <1>1 DEF IsInjective
  <2>1. CASE i <= Len(s) /\ j <= Len(s)
    BY <1>2, <2>1 DEF IsInjective
  <2>2. CASE i > Len(s) /\ j > Len(s)
    <3>1. /\ i - Len(s) \in 1..Len(t) /\ j - Len(s) \in 1..Len(t)
          /\ t[i - Len(s)] = t[j - Len(s)]
      BY <1>1, <2>2
    <3> QED
      BY <3>1 DEF IsInjective
  <2>3. ASSUME NEW k \in 1..Len(u), NEW l \in 1..Len(u), k <= Len(s), l > Len(s)
        PROVE  u[k] # u[l]
    <3>1. PICK m \in 1..Len(t) : l = Len(s) + m
      <4>1. l - Len(s) \in 1..Len(t) /\ l = Len(s) + (l - Len(s))
        BY <1>1, <2>3
      <4> QED
        BY <4>1
    <3>2. u[l] \in ToSet(t)
      BY <1>3, <3>1
    <3>3. k \in 1..Len(s)
      BY <1>1, <2>3
    <3>4. u[k] \in ToSet(s)
      BY <1>2, <3>3
    <3> QED
      BY <3>2, <3>4
  <2> QED
    BY <2>1, <2>2, <2>3
<1> QED
  BY <1>1, <1>4, <1>5 DEF u

LEMMA SeqWidens ==
  ASSUME NEW S, NEW T, S \subseteq T, NEW s \in Seq(S)
  PROVE  s \in Seq(T)
BY SeqMonotonic

-----------------------------------------------------------------------------
(***************************************************************************)
(* What the invariant needs of a statement that is entered: its labels are *)
(* the k new ones, each is either placed at once or pending, and the       *)
(* context of its body has the labels that its kind asks for.              *)
(***************************************************************************)
Fits(frame, k, newPlaced, newJumps) ==
  LET New == (labelCount + 1)..(labelCount + k)
  IN /\ frame \in FrameSet /\ frame.kind # "func" /\ Shaped(frame) /\ ~frame.afterLoop
     /\ Own(frame) \subseteq New
     /\ newPlaced \in Seq(New) /\ IsInjective(newPlaced)
     /\ Pending(frame) \intersect ToSet(newPlaced) = {}
     /\ Pending(frame) \union ToSet(newPlaced) = New
     /\ frame.start \in {Here.start} \union Own(frame)
     /\ frame.end \in {Here.end} \union Own(frame)
     /\ frame.kind \in Breakable \ {"do"} => frame.end = frame.brk
     /\ frame.kind \notin Breakable => frame.end = Here.end
     /\ frame.kind \in Loops \ {"do"} => frame.start = frame.cont
     /\ frame.kind \notin Loops => frame.start = Here.start
     /\ \A j \in newJumps : j.wanted \in New /\ j.to = j.wanted

LEMMA EnterKeeps ==
  ASSUME IInv, NEW f, NEW k \in Nat, NEW p, NEW J, Fits(f, k, p, J), Enter(f, k, p, J)
  PROVE  IInv'
<1> DEFINE n == Len(frames)
<1> DEFINE New == (labelCount + 1)..(labelCount + k)
<1>1. /\ labelCount \in Nat /\ labelCount >= 1 /\ MaxLabels \in Nat
      /\ frames \in Seq(FrameSet) /\ n \in Nat /\ n >= 1 /\ Here = frames[n]
  BY ControlAssumption DEF IInv, IFrames, ILabels, Enter, Here, Last
<1>2. /\ frames' \in Seq(FrameSet) /\ Len(frames') = n + 1
      /\ \A i \in 1..n : frames'[i] = frames[i]
      /\ frames'[n + 1] = f
  BY <1>1, Appended DEF Enter, Fits
<1>3. /\ labelCount' = labelCount + k /\ labelCount + k <= MaxLabels
      /\ placed' = placed \o p /\ jumps' = jumps \union J /\ freed' = freed
  BY DEF Enter
<1>4. /\ New \intersect (1..labelCount) = {} /\ 1..labelCount' = (1..labelCount) \union New
  BY <1>1, <1>3
<1>5. Own(f) \subseteq New /\ Pending(f) \subseteq New /\ Pending(f) \intersect ToSet(p) = {}
      /\ Pending(f) \union ToSet(p) = New
  BY DEF Fits
<1> HIDE DEF New
<1>6. IFrames'
  <2>1. \A i \in 1..Len(frames') : (frames'[i].kind = "func" <=> i = 1) /\ Shaped(frames'[i])
    <3> TAKE i \in 1..Len(frames')
    <3>1. CASE i \in 1..n
      BY <1>2, <3>1 DEF IInv, IFrames
    <3>2. CASE i = n + 1
      BY <1>1, <1>2, <3>2 DEF Fits
    <3> QED
      BY <1>1, <1>2, <3>1, <3>2
  <2> QED
    BY <1>2, <2>1 DEF IFrames, Shaped
<1>7. /\ placed' \in Seq(1..labelCount') /\ IsInjective(placed')
      /\ ToSet(placed') = ToSet(placed) \union ToSet(p)
  <2>1. placed \in Seq(1..labelCount') /\ p \in Seq(1..labelCount')
    BY <1>4, SeqWidens DEF IInv, ILabels, Fits, New
  <2>2. ToSet(placed) \subseteq 1..labelCount
    BY DEF IInv, ILabels, ToSet
  <2>3. ToSet(placed) \intersect ToSet(p) = {}
    BY <2>2, <1>4, <1>5
  <2>4. IsInjective(placed) /\ IsInjective(p)
    BY DEF IInv, IPlaced, Fits
  <2> QED
    BY <1>3, <2>1, <2>3, <2>4, PlacedMore
<1>8. ILabels'
  <2>1. labelCount' \in 1..MaxLabels /\ freed' \subseteq 1..labelCount'
    BY <1>1, <1>3, <1>4 DEF IInv, ILabels
  <2>2. ASSUME NEW i \in 1..n
        PROVE  /\ Own(frames[i]) \subseteq 1..labelCount
               /\ frames[i].start \in Nat /\ frames[i].end \in Nat
               /\ frames[i].start <= labelCount /\ frames[i].end <= labelCount
               /\ Own(frames[i]) \intersect freed = {}
               /\ \A j \in 1..n : i # j => Own(frames[i]) \intersect Own(frames[j]) = {}
    <3>1. frames[i] \in FrameSet
      BY <1>1
    <3>2. frames[i].start \in Nat /\ frames[i].end \in Nat
      BY <3>1 DEF FrameSet
    <3> QED
      BY <3>2, Zenon DEF IInv, ILabels
  <2>3. Own(f) \subseteq 1..labelCount' /\ Own(f) \intersect freed = {}
    BY <1>4, <1>5 DEF IInv, ILabels
  <2>4. f.start <= labelCount' /\ f.end <= labelCount'
    BY <1>1, <1>3, <1>4, <1>5, <2>2 DEF Fits
  <2>5. \A i \in 1..n : Own(frames[i]) \intersect Own(f) = {}
    BY <1>4, <1>5, <2>2
  <2>6. \A i \in 1..Len(frames') :
          /\ Own(frames'[i]) \subseteq 1..labelCount'
          /\ frames'[i].start <= labelCount' /\ frames'[i].end <= labelCount'
          /\ Own(frames'[i]) \intersect freed' = {}
    <3> TAKE i \in 1..Len(frames')
    <3>1. CASE i \in 1..n
      BY <1>1, <1>2, <1>3, <1>4, <2>2, <3>1
    <3>2. CASE i = n + 1
      BY <1>2, <1>3, <2>3, <2>4, <3>2
    <3> QED
      BY <1>1, <1>2, <3>1, <3>2
  <2>7. \A i, j \in 1..Len(frames') : i # j => Own(frames'[i]) \intersect Own(frames'[j]) = {}
    <3> TAKE i, j \in 1..Len(frames')
    <3>1. CASE i \in 1..n /\ j \in 1..n
      BY <1>2, <2>2, <3>1
    <3>2. CASE i \in 1..n /\ j = n + 1
      BY <1>2, <2>5, <3>2
    <3>3. CASE i = n + 1 /\ j \in 1..n
      BY <1>2, <2>5, <3>3
    <3> QED
      BY <1>1, <1>2, <3>1, <3>2, <3>3
  <2> QED
    BY <1>7, <2>1, <2>6, <2>7 DEF ILabels, Own
<1>9. IPlaced'
  <2>1. ASSUME NEW i \in 1..n
        PROVE  Pending(frames[i]) \subseteq 1..labelCount
    BY <1>1 DEF IInv, IFrames, ILabels, Shaped, Pending, Own, FrameSet, Kinds
  <2>2. \A i \in 1..Len(frames') : Pending(frames'[i]) \intersect ToSet(placed') = {}
    <3> TAKE i \in 1..Len(frames')
    <3>1. CASE i \in 1..n
      BY <1>2, <1>4, <1>5, <1>7, <2>1, <3>1 DEF IInv, IPlaced
    <3>2. CASE i = n + 1
      <4>1. ToSet(placed) \subseteq 1..labelCount
        BY DEF IInv, ILabels, ToSet
      <4> QED
        BY <1>2, <1>4, <1>5, <1>7, <3>2, <4>1
    <3> QED
      BY <1>1, <1>2, <3>1, <3>2
  <2>3. ASSUME NEW label \in 1..labelCount'
        PROVE  \/ label \in ToSet(placed')
               \/ \E i \in 1..Len(frames') : label \in Pending(frames'[i])
    <3>1. CASE label \in 1..labelCount
      <4>1. label \in ToSet(placed) \/ \E i \in 1..n : label \in Pending(frames[i])
        BY <3>1 DEF IInv, IPlaced
      <4>2. \A i \in 1..n : i \in 1..Len(frames') /\ frames'[i] = frames[i]
        BY <1>1, <1>2
      <4> QED
        BY <1>7, <4>1, <4>2
    <3>2. CASE label \in New
      <4>1. n + 1 \in 1..Len(frames') /\ frames'[n + 1] = f
        BY <1>1, <1>2
      <4> QED
        BY <1>5, <1>7, <3>2, <4>1
    <3> QED
      BY <1>4, <3>1, <3>2
  <2> QED
    BY <1>7, <2>2, <2>3 DEF IPlaced, Pending
<1>10. IContexts'
  <2> SUFFICES ASSUME NEW i \in 1..Len(frames'), \A j \in 1..i : ~frames'[j].afterLoop,
                      NEW label \in {frames'[i].start, frames'[i].end} \ {None}
               PROVE  \E m \in 1..i : label \in Own(frames'[m])
    BY DEF IContexts, Own
  <2>1. ASSUME NEW h \in 1..n, h <= i, NEW l \in {frames[h].start, frames[h].end} \ {None}
        PROVE  \E m \in 1..i : l \in Own(frames'[m])
    <3>1. \A j \in 1..h : j \in 1..i /\ j \in 1..n /\ frames'[j] = frames[j]
      BY <1>1, <1>2, <2>1
    <3>2. \A j \in 1..h : ~frames[j].afterLoop
      BY <3>1
    <3>3. PICK m \in 1..h : l \in Own(frames[m])
      BY <2>1, <3>2 DEF IInv, IContexts
    <3> QED
      BY <3>1, <3>3
  <2>2. CASE i \in 1..n
    <3>1. i <= i /\ label \in {frames[i].start, frames[i].end} \ {None}
      BY <1>1, <1>2, <2>2
    <3> QED
      BY <2>1, <2>2, <3>1
  <2>3. CASE i = n + 1
    <3>1. CASE label \in Own(f)
      BY <1>1, <1>2, <2>3, <3>1
    <3>2. CASE label \in {frames[n].start, frames[n].end}
      <4>1. n \in 1..n /\ n <= i /\ label \in {frames[n].start, frames[n].end} \ {None}
        BY <1>1, <2>3, <3>2
      <4> QED
        BY <2>1, <4>1
    <3> QED
      BY <1>1, <1>2, <2>3, <3>1, <3>2 DEF Fits
  <2> QED
    BY <1>1, <1>2, <2>2, <2>3
<1>11. IInner'
  <2> SUFFICES ASSUME NEW b \in 1..Len(frames'), NEW i \in 1..Len(frames'),
                      b <= i, \A j \in b..i : ~frames'[j].afterLoop
               PROVE  /\ /\ frames'[b].kind \in Breakable \ {"do"}
                         /\ \A j \in (b + 1)..i : frames'[j].kind \notin Breakable
                         => frames'[i].end = frames'[b].brk
                      /\ /\ frames'[b].kind \in Loops \ {"do"}
                         /\ \A j \in (b + 1)..i : frames'[j].kind \notin Loops
                         => frames'[i].start = frames'[b].cont
    BY DEF IInner
  <2>1. ASSUME NEW h \in 1..n, b <= h, h <= i
        PROVE  /\ /\ frames'[b].kind \in Breakable \ {"do"}
                  /\ \A j \in (b + 1)..i : frames'[j].kind \notin Breakable
                  => frames[h].end = frames'[b].brk
               /\ /\ frames'[b].kind \in Loops \ {"do"}
                  /\ \A j \in (b + 1)..i : frames'[j].kind \notin Loops
                  => frames[h].start = frames'[b].cont
    <3>1. \A j \in b..h : j \in b..i /\ j \in 1..n /\ frames'[j] = frames[j]
      BY <1>1, <1>2, <2>1
    <3>2. \A j \in (b + 1)..h : j \in (b + 1)..i /\ j \in b..h
      BY <1>1, <2>1
    <3>3. b \in 1..n /\ frames'[b] = frames[b]
      BY <1>1, <1>2, <2>1
    <3>4. \A j \in b..h : ~frames[j].afterLoop
      BY <3>1
    <3>5. /\ /\ frames[b].kind \in Breakable \ {"do"}
             /\ \A j \in (b + 1)..h : frames[j].kind \notin Breakable
             => frames[h].end = frames[b].brk
          /\ /\ frames[b].kind \in Loops \ {"do"}
             /\ \A j \in (b + 1)..h : frames[j].kind \notin Loops
             => frames[h].start = frames[b].cont
      BY <2>1, <3>3, <3>4 DEF IInv, IInner
    <3>6. \A j \in (b + 1)..h : j \in (b + 1)..i /\ frames'[j] = frames[j]
      BY <3>1, <3>2
    <3> HIDE DEF n
    <3> QED
      BY <3>3, <3>5, <3>6
  <2>2. CASE i \in 1..n
    BY <1>1, <1>2, <2>1, <2>2
  <2>3. CASE i = n + 1 /\ b = n + 1
    BY <1>2, <2>3 DEF Fits
  <2>4. CASE i = n + 1 /\ b \in 1..n
    <3>1. i \in (b + 1)..i /\ frames'[i] = f /\ n \in 1..n /\ b <= n /\ n <= i
      BY <1>1, <1>2, <2>4
    <3> QED
      BY <1>1, <2>1, <3>1 DEF Fits
  <2> QED
    BY <1>1, <1>2, <2>2, <2>3, <2>4
<1>12. IJumps'
  <2>1. \A j \in J : j.wanted \in 1..labelCount' /\ j.to = j.wanted
    BY <1>4 DEF Fits, New
  <2>2. \A j \in jumps : j.to \in (1..labelCount') \union {None, Dangling}
    BY <1>4 DEF IInv, IJumps
  <2>3. Careful => \A j \in jumps : j.wanted \in 1..labelCount' /\ j.to = j.wanted
    BY <1>4 DEF IInv, IJumps
  <2> QED
    BY <1>3, <2>1, <2>2, <2>3 DEF IJumps
<1> QED
  BY <1>6, <1>8, <1>9, <1>10, <1>11, <1>12 DEF IInv

(***************************************************************************)
(* What it needs of a statement that is left: its pending labels are       *)
(* placed, only labels of its own are freed, and the list around it goes   *)
(* on with its own context unless a loop ended in it.                      *)
(***************************************************************************)
Resumes(listAfter, newPlaced, newJumps, newFreed) ==
  /\ listAfter \in FrameSet
  /\ listAfter.kind = Outer.kind /\ listAfter.top = Outer.top
  /\ listAfter.brk = Outer.brk /\ listAfter.cont = Outer.cont
  /\ listAfter.start \in {Outer.start} \union Own(Here)
  /\ listAfter.end \in {Outer.end} \union Own(Here)
  /\ listAfter = Outer \/ listAfter.afterLoop
  /\ newPlaced \in Seq(Pending(Here)) /\ IsInjective(newPlaced)
  /\ ToSet(newPlaced) = Pending(Here)
  /\ newFreed \subseteq Own(Here)
  /\ \A j \in newJumps : j.wanted \in Own(Here) /\ j.to = j.wanted

\* The labels pending are the statement's own.
LEMMA PendingOwn ==
  ASSUME IFrames, NEW i \in 1..Len(frames)
  PROVE  Pending(frames[i]) \subseteq Own(frames[i])
<1>1. frames[i] \in FrameSet /\ Shaped(frames[i])
  BY DEF IFrames
<1> QED
  BY <1>1 DEF Shaped, Pending, Own, FrameSet, Kinds

\* Inside a statement there is the list around it.
LEMMA Inside ==
  ASSUME IInv, frames # << >>, Here.kind # "func"
  PROVE  LET n == Len(frames)
         IN /\ labelCount \in Nat /\ labelCount >= 1
            /\ frames \in Seq(FrameSet) /\ n \in Nat /\ n >= 2
            /\ Here = frames[n] /\ Outer = frames[n - 1] /\ n - 1 \in 1..n
<1> DEFINE n == Len(frames)
<1>1. labelCount \in Nat /\ labelCount >= 1 /\ frames \in Seq(FrameSet)
  BY ControlAssumption DEF IInv, IFrames, ILabels
<1>2. /\ n \in Nat /\ n >= 1
      /\ Here = frames[n]
  BY <1>1 DEF Here, Last
<1>3. n # 1
  BY <1>1, <1>2 DEF IInv, IFrames
<1>4. n >= 2
  <2> HIDE DEF n
  <2> QED
    BY <1>2, <1>3
<1>5. Outer = frames[n - 1]
  BY DEF Outer
<1> HIDE DEF n
<1>6. n - 1 \in 1..n
  BY <1>2, <1>4
<1> QED
  BY <1>1, <1>2, <1>4, <1>5, <1>6 DEF n

LEMMA LeaveKeeps ==
  ASSUME IInv, NEW kind, kind # "func", NEW listAfter, NEW p, NEW J, NEW F,
         Resumes(listAfter, p, J, F), Leave(kind, listAfter, p, J, F)
  PROVE  IInv'
<1> DEFINE n == Len(frames)
<1>1. /\ labelCount \in Nat /\ labelCount >= 1
      /\ frames \in Seq(FrameSet) /\ n \in Nat /\ n >= 2
      /\ Here = frames[n] /\ Outer = frames[n - 1] /\ n - 1 \in 1..n
  BY Inside DEF Leave
<1>2. /\ frames' \in Seq(FrameSet) /\ Len(frames') = n - 1
      /\ \A i \in 1..(n - 2) : frames'[i] = frames[i]
      /\ frames'[n - 1] = listAfter
  <2>1. frames' = Append(SubSeq(frames, 1, (n - 1) - 1), listAfter)
    BY <1>1 DEF Leave
  <2>2. listAfter \in FrameSet
    BY DEF Resumes
  <2>3. n - 2 = (n - 1) - 1
    BY <1>1
  <2>4. /\ frames' \in Seq(FrameSet) /\ Len(frames') = n - 1
        /\ \A i \in 1..((n - 1) - 1) : frames'[i] = frames[i]
        /\ frames'[n - 1] = listAfter
    <3> HIDE DEF n
    <3>1. n - 1 \in 1..Len(frames)
      BY <1>1 DEF n
    <3> QED
      BY <1>1, <2>1, <2>2, <3>1, Replaced
  <2> HIDE DEF n
  <2> QED
    BY <2>3, <2>4
<1>3. /\ labelCount' = labelCount /\ placed' = placed \o p
      /\ jumps' = jumps \union J /\ freed' = freed \union F
  BY DEF Leave
\* All frames that are left have the labels they had.
<1>4. ASSUME NEW i \in 1..(n - 1)
      PROVE  /\ frames'[i].kind = frames[i].kind
             /\ frames'[i].top = frames[i].top /\ frames'[i].brk = frames[i].brk
             /\ frames'[i].cont = frames[i].cont
             /\ frames'[i].start \in {frames[i].start} \union Own(frames[n])
             /\ frames'[i].end \in {frames[i].end} \union Own(frames[n])
             /\ frames'[i].afterLoop \/ frames'[i] = frames[i]
  <2>1. CASE i \in 1..(n - 2)
    BY <1>2, <2>1
  <2>2. CASE i = n - 1
    BY <1>1, <1>2, <2>2 DEF Resumes
  <2> QED
    BY <1>1, <2>1, <2>2
<1>5. ASSUME NEW i \in 1..(n - 1)
      PROVE  Own(frames'[i]) = Own(frames[i]) /\ Pending(frames'[i]) = Pending(frames[i])
  BY <1>4 DEF Own, Pending
<1>6. /\ Pending(frames[n]) \subseteq Own(frames[n]) /\ Own(frames[n]) \subseteq 1..labelCount
      /\ F \subseteq Own(frames[n]) /\ ToSet(p) = Pending(frames[n])
      /\ p \in Seq(Pending(frames[n])) /\ IsInjective(p)
  <2>1. n \in 1..n
    BY <1>1
  <2>2. Pending(frames[n]) \subseteq Own(frames[n]) /\ Own(frames[n]) \subseteq 1..labelCount
    BY <2>1, PendingOwn DEF IInv, ILabels
  <2>3. /\ F \subseteq Own(Here) /\ ToSet(p) = Pending(Here)
        /\ p \in Seq(Pending(Here)) /\ IsInjective(p)
    BY DEF Resumes
  <2> QED
    BY <1>1, <2>2, <2>3
<1>7. IFrames'
  <2>1. \A i \in 1..Len(frames') : (frames'[i].kind = "func" <=> i = 1) /\ Shaped(frames'[i])
    <3> TAKE i \in 1..Len(frames')
    <3>1. i \in 1..(n - 1) /\ i \in 1..n
      BY <1>1, <1>2
    <3>2. (frames[i].kind = "func" <=> i = 1) /\ Shaped(frames[i])
      BY <3>1 DEF IInv, IFrames
    <3> QED
      BY <1>4, <3>1, <3>2 DEF Shaped
  <2> QED
    BY <1>2, <2>1 DEF IFrames, Shaped
<1>8. /\ placed' \in Seq(1..labelCount') /\ IsInjective(placed')
      /\ ToSet(placed') = ToSet(placed) \union Pending(frames[n])
  <2>1. placed \in Seq(1..labelCount) /\ p \in Seq(1..labelCount)
    BY <1>6, SeqWidens DEF IInv, ILabels
  <2>2. ToSet(placed) \intersect ToSet(p) = {}
    BY <1>1, <1>6 DEF IInv, IPlaced
  <2>3. IsInjective(placed) /\ IsInjective(p)
    BY <1>6 DEF IInv, IPlaced
  <2> QED
    BY <1>3, <1>6, <2>1, <2>2, <2>3, PlacedMore
<1>9. ILabels'
  <2>1. labelCount' \in 1..MaxLabels /\ freed' \subseteq 1..labelCount'
    BY <1>3, <1>6 DEF IInv, ILabels
  <2>2. ASSUME NEW i \in 1..n
        PROVE  /\ Own(frames[i]) \subseteq 1..labelCount
               /\ frames[i].start <= labelCount /\ frames[i].end <= labelCount
               /\ Own(frames[i]) \intersect freed = {}
               /\ \A j \in 1..n : i # j => Own(frames[i]) \intersect Own(frames[j]) = {}
    BY <1>1, Zenon DEF IInv, ILabels
  <2>3. \A i \in 1..Len(frames') : i \in 1..(n - 1) /\ i \in 1..n /\ i # n
    BY <1>1, <1>2
  <2>4. \A i \in 1..Len(frames') :
          /\ Own(frames'[i]) \subseteq 1..labelCount'
          /\ Own(frames'[i]) \intersect freed' = {}
          /\ \A j \in 1..Len(frames') : i # j => Own(frames'[i]) \intersect Own(frames'[j]) = {}
    <3> TAKE i \in 1..Len(frames')
    <3>1. Own(frames[i]) \intersect Own(frames[n]) = {}
      BY <1>1, <2>2, <2>3
    <3>2. Own(frames'[i]) \intersect freed' = {}
      BY <1>3, <1>5, <1>6, <2>2, <2>3, <3>1
    <3> QED
      BY <1>3, <1>5, <2>2, <2>3, <3>2
  <2>5. \A i \in 1..Len(frames') :
          frames'[i].start <= labelCount' /\ frames'[i].end <= labelCount'
    <3> TAKE i \in 1..Len(frames')
    <3>1. \A label \in Own(frames[n]) : label <= labelCount
      BY <1>1, <1>6
    <3>2. frames[i].start <= labelCount /\ frames[i].end <= labelCount
      BY <2>2, <2>3
    <3> QED
      BY <1>3, <1>4, <2>3, <3>1, <3>2
  <2> QED
    BY <1>8, <2>1, <2>4, <2>5 DEF ILabels, Own
<1>10. IPlaced'
  <2>1. \A i \in 1..Len(frames') : i \in 1..(n - 1) /\ i \in 1..n /\ i # n
    BY <1>1, <1>2
  <2>2. \A i \in 1..Len(frames') : Pending(frames'[i]) \intersect ToSet(placed') = {}
    <3> TAKE i \in 1..Len(frames')
    <3>1. Pending(frames[i]) \intersect Pending(frames[n]) = {}
      <4>1. Own(frames[i]) \intersect Own(frames[n]) = {}
        <5>1. n \in 1..n
          BY <1>1
        <5> QED
          BY <2>1, <5>1, Zenon DEF IInv, ILabels
      <4>2. Pending(frames[i]) \subseteq Own(frames[i])
        BY <2>1, PendingOwn DEF IInv
      <4> QED
        BY <1>6, <4>1, <4>2
    <3>2. Pending(frames[i]) \intersect ToSet(placed) = {}
      BY <2>1 DEF IInv, IPlaced
    <3> QED
      BY <1>5, <1>8, <2>1, <3>1, <3>2
  <2>3. ASSUME NEW label \in 1..labelCount'
        PROVE  \/ label \in ToSet(placed')
               \/ \E i \in 1..Len(frames') : label \in Pending(frames'[i])
    <3>1. label \in ToSet(placed) \/ \E i \in 1..n : label \in Pending(frames[i])
      BY <1>3 DEF IInv, IPlaced
    <3>2. \A i \in 1..n : i = n \/ (i \in 1..(n - 1) /\ i \in 1..Len(frames'))
      BY <1>1, <1>2
    <3> QED
      BY <1>5, <1>8, <3>1, <3>2
  <2> QED
    BY <1>8, <2>2, <2>3 DEF IPlaced, Pending
<1>11. IContexts'
  <2> SUFFICES ASSUME NEW i \in 1..Len(frames'), \A j \in 1..i : ~frames'[j].afterLoop,
                      NEW label \in {frames'[i].start, frames'[i].end} \ {None}
               PROVE  \E m \in 1..i : label \in Own(frames'[m])
    BY DEF IContexts, Own
  <2>1. i \in 1..n /\ \A j \in 1..i : j \in 1..(n - 1)
    BY <1>1, <1>2
  <2>2. \A j \in 1..i : frames'[j] = frames[j]
    BY <1>4, <2>1
  <2>3. i \in 1..i /\ \A j \in 1..i : ~frames[j].afterLoop
    BY <2>1, <2>2
  <2>4. PICK m \in 1..i : label \in Own(frames[m])
    BY <2>1, <2>2, <2>3 DEF IInv, IContexts
  <2> QED
    BY <2>2, <2>4
<1>12. IInner'
  <2> SUFFICES ASSUME NEW b \in 1..Len(frames'), NEW i \in 1..Len(frames'),
                      b <= i, \A j \in b..i : ~frames'[j].afterLoop
               PROVE  /\ /\ frames'[b].kind \in Breakable \ {"do"}
                         /\ \A j \in (b + 1)..i : frames'[j].kind \notin Breakable
                         => frames'[i].end = frames'[b].brk
                      /\ /\ frames'[b].kind \in Loops \ {"do"}
                         /\ \A j \in (b + 1)..i : frames'[j].kind \notin Loops
                         => frames'[i].start = frames'[b].cont
    BY DEF IInner
  <2>1. b \in 1..n /\ i \in 1..n /\ \A j \in b..i : j \in 1..(n - 1)
    BY <1>1, <1>2
  <2>2. \A j \in b..i : frames'[j] = frames[j]
    BY <1>4, <2>1
  <2>3. b \in b..i /\ i \in b..i /\ \A j \in (b + 1)..i : j \in b..i
    BY <2>1
  <2>4. \A j \in b..i : ~frames[j].afterLoop
    BY <2>2
  <2>5. /\ /\ frames[b].kind \in Breakable \ {"do"}
           /\ \A j \in (b + 1)..i : frames[j].kind \notin Breakable
           => frames[i].end = frames[b].brk
        /\ /\ frames[b].kind \in Loops \ {"do"}
           /\ \A j \in (b + 1)..i : frames[j].kind \notin Loops
           => frames[i].start = frames[b].cont
    BY <2>1, <2>4 DEF IInv, IInner
  <2> HIDE DEF n
  <2> QED
    BY <2>2, <2>3, <2>5
<1>13. IJumps'
  <2>1. \A j \in J : j.wanted \in 1..labelCount /\ j.to = j.wanted
    BY <1>1, <1>6 DEF Resumes
  <2> QED
    BY <1>3, <2>1 DEF IInv, IJumps
<1> QED
  BY <1>7, <1>9, <1>10, <1>11, <1>12, <1>13 DEF IInv

LEMMA ElseKeeps == IInv /\ ElseBranch => IInv'
<1> SUFFICES ASSUME IInv, ElseBranch PROVE IInv'
  OBVIOUS
<1> DEFINE n == Len(frames)
<1> DEFINE new == labelCount + 1
<1> DEFINE T == frames[n].top
<1> DEFINE g == Frame("else", new, None, None, frames[n - 1].start, frames[n - 1].end)
<1>1. /\ labelCount \in Nat /\ labelCount >= 1 /\ frames \in Seq(FrameSet)
      /\ n \in Nat /\ n >= 2 /\ Here = frames[n] /\ Outer = frames[n - 1]
  BY Inside DEF ElseBranch
<1>2. /\ labelCount' = new /\ new <= MaxLabels /\ MaxLabels \in Nat
      /\ frames' = Append(SubSeq(frames, 1, n - 1), g)
      /\ jumps' = jumps \union {Branch(new)}
      /\ placed' = Append(placed, T) /\ freed' = freed \union {T}
      /\ frames[n].kind = "ifelse"
  BY <1>1, ControlAssumption DEF ElseBranch, Front
<1>3. n \in 1..n /\ frames[n] \in FrameSet /\ frames[n - 1] \in FrameSet
  BY <1>1
<1>4. /\ g \in FrameSet /\ g.kind = "else" /\ Shaped(g) /\ ~g.afterLoop
      /\ Own(g) = {new} /\ Pending(g) = {new}
      /\ g.start = frames[n - 1].start /\ g.end = frames[n - 1].end
  <2>1. new \in Nat /\ new # 0
    BY <1>1
  <2>2. frames[n - 1].start \in Nat /\ frames[n - 1].end \in Nat
    BY <1>3 DEF FrameSet
  <2>3. g = [kind |-> "else", top |-> new, brk |-> 0, cont |-> 0,
             start |-> frames[n - 1].start, end |-> frames[n - 1].end, afterLoop |-> FALSE]
    BY DEF Frame, None
  <2> HIDE DEF g, n, new
  <2>4. g \in FrameSet
    BY <2>1, <2>2, <2>3 DEF FrameSet, Kinds
  <2>5. /\ g.kind = "else" /\ g.top = new /\ g.brk = 0 /\ g.cont = 0 /\ ~g.afterLoop
        /\ g.start = frames[n - 1].start /\ g.end = frames[n - 1].end
    BY <2>3
  <2> QED
    BY <2>1, <2>4, <2>5 DEF Shaped, Own, Pending, None
<1> HIDE DEF g
<1>5. /\ frames' \in Seq(FrameSet) /\ Len(frames') = n
      /\ \A i \in 1..(n - 1) : frames'[i] = frames[i]
      /\ frames'[n] = g
  BY <1>1, <1>2, <1>3, <1>4, Replaced
<1>6. /\ T \in Own(frames[n]) /\ Pending(frames[n]) = {T}
      /\ Own(frames[n]) \subseteq 1..labelCount /\ T \in 1..labelCount
  <2>1. Shaped(frames[n])
    BY <1>3 DEF IInv, IFrames
  <2>2. T \in Own(frames[n]) /\ Pending(frames[n]) = {T}
    BY <1>2, <2>1 DEF Shaped, Own, Pending
  <2>3. Own(frames[n]) \subseteq 1..labelCount
    BY <1>3 DEF IInv, ILabels
  <2> QED
    BY <2>2, <2>3
<1>7. \A i \in 1..(n - 1) : i \in 1..n /\ i # n
  BY <1>1
<1>8. 1..labelCount' = (1..labelCount) \union {new} /\ new \notin 1..labelCount
  BY <1>1, <1>2
<1>9. \A i \in 1..Len(frames') : i \in 1..(n - 1) \/ i = n
  BY <1>1, <1>5
<1>10. ASSUME NEW i \in 1..n
       PROVE  /\ Own(frames[i]) \subseteq 1..labelCount
              /\ Pending(frames[i]) \subseteq Own(frames[i])
              /\ frames[i].start \in Nat /\ frames[i].end \in Nat
              /\ frames[i].start <= labelCount /\ frames[i].end <= labelCount
              /\ Own(frames[i]) \intersect freed = {}
              /\ \A j \in 1..n : i # j => Own(frames[i]) \intersect Own(frames[j]) = {}
  <2>1. frames[i] \in FrameSet
    BY <1>1
  <2>2. frames[i].start \in Nat /\ frames[i].end \in Nat
    BY <2>1 DEF FrameSet
  <2>3. Pending(frames[i]) \subseteq Own(frames[i])
    BY PendingOwn DEF IInv
  <2> QED
    BY <2>2, <2>3, Zenon DEF IInv, ILabels
<1> HIDE DEF T, new
<1>11. IFrames'
  <2>1. \A i \in 1..Len(frames') : (frames'[i].kind = "func" <=> i = 1) /\ Shaped(frames'[i])
    <3> TAKE i \in 1..Len(frames')
    <3>1. CASE i \in 1..(n - 1)
      BY <1>5, <1>7, <3>1 DEF IInv, IFrames
    <3>2. CASE i = n
      BY <1>1, <1>4, <1>5, <3>2
    <3> QED
      BY <1>9, <3>1, <3>2
  <2> QED
    BY <1>5, <2>1 DEF IFrames, Shaped
<1>12. /\ placed' \in Seq(1..labelCount') /\ IsInjective(placed')
       /\ ToSet(placed') = ToSet(placed) \union {T}
  <2>1. /\ <<T>> \in Seq(1..labelCount') /\ IsInjective(<<T>>) /\ ToSet(<<T>>) = {T}
    BY <1>6, <1>8 DEF IsInjective, ToSet
  <2>2. placed \in Seq(1..labelCount') /\ IsInjective(placed)
    BY <1>8, SeqWidens DEF IInv, ILabels, IPlaced
  <2>3. ToSet(placed) \intersect {T} = {}
    BY <1>3, <1>6 DEF IInv, IPlaced
  <2>4. placed' = placed \o <<T>>
    BY <1>2, <2>2
  <2> DEFINE t == <<T>>
  <2> HIDE DEF t
  <2>5. /\ t \in Seq(1..labelCount') /\ IsInjective(t) /\ ToSet(t) = {T}
        /\ placed' = placed \o t
    BY <2>1, <2>4 DEF t
  <2>6. ToSet(placed) \intersect ToSet(t) = {}
    BY <2>3, <2>5
  <2>7. /\ placed \o t \in Seq(1..labelCount') /\ IsInjective(placed \o t)
        /\ ToSet(placed \o t) = ToSet(placed) \union ToSet(t)
    BY <2>2, <2>5, <2>6, PlacedMore
  <2> QED
    BY <2>5, <2>7
<1>13. ILabels'
  <2>1. labelCount' \in 1..MaxLabels /\ freed' \subseteq 1..labelCount'
    <3>1. labelCount' \in 1..MaxLabels
      BY <1>1, <1>2 DEF new
    <3>2. freed \subseteq 1..labelCount
      BY DEF IInv, ILabels
    <3> QED
      BY <1>2, <1>6, <1>8, <3>1, <3>2
  <2>2. \A i \in 1..Len(frames') :
          /\ Own(frames'[i]) \subseteq 1..labelCount'
          /\ Own(frames'[i]) \intersect freed' = {}
    <3> TAKE i \in 1..Len(frames')
    <3>1. CASE i \in 1..(n - 1)
      <4>1. T \notin Own(frames[i])
        BY <1>3, <1>6, <1>7, <1>10, <3>1
      <4> QED
        BY <1>2, <1>5, <1>7, <1>8, <1>10, <3>1, <4>1
    <3>2. CASE i = n
      <4>1. new # T /\ new \notin freed
        BY <1>6, <1>8 DEF IInv, ILabels
      <4> QED
        BY <1>2, <1>4, <1>5, <1>8, <3>2, <4>1
    <3> QED
      BY <1>9, <3>1, <3>2
  <2>3. \A i, j \in 1..Len(frames') : i # j => Own(frames'[i]) \intersect Own(frames'[j]) = {}
    <3>1. \A i \in 1..(n - 1) : Own(frames'[i]) \intersect Own(g) = {}
      <4> TAKE i \in 1..(n - 1)
      <4>1. Own(frames[i]) \subseteq 1..labelCount
        BY <1>7, <1>10
      <4> QED
        BY <1>4, <1>5, <1>8, <4>1
    <3>2. \A i, j \in 1..(n - 1) : i # j => Own(frames'[i]) \intersect Own(frames'[j]) = {}
      BY <1>5, <1>7, <1>10
    <3> QED
      BY <1>5, <1>9, <3>1, <3>2
  <2>4. \A i \in 1..Len(frames') :
          frames'[i].start <= labelCount' /\ frames'[i].end <= labelCount'
    <3>1. \A i \in 1..(n - 1) : frames[i].start <= labelCount' /\ frames[i].end <= labelCount'
      <4> TAKE i \in 1..(n - 1)
      <4>1. /\ frames[i].start \in Nat /\ frames[i].end \in Nat
            /\ frames[i].start <= labelCount /\ frames[i].end <= labelCount
        BY <1>7, <1>10
      <4> QED
        BY <1>1, <1>2, <4>1 DEF new
    <3>2. n - 1 \in 1..(n - 1)
      BY <1>1
    <3> QED
      BY <1>4, <1>5, <1>9, <3>1, <3>2
  <2> QED
    BY <1>12, <2>1, <2>2, <2>3, <2>4 DEF ILabels, Own
<1>14. IPlaced'
  <2>1. \A i \in 1..Len(frames') : Pending(frames'[i]) \intersect ToSet(placed') = {}
    <3> TAKE i \in 1..Len(frames')
    <3>1. CASE i \in 1..(n - 1)
      <4>1. T \notin Pending(frames[i])
        BY <1>3, <1>6, <1>7, <1>10, <3>1
      <4>2. Pending(frames[i]) \intersect ToSet(placed) = {}
        BY <1>7, <3>1 DEF IInv, IPlaced
      <4> QED
        BY <1>5, <1>12, <3>1, <4>1, <4>2
    <3>2. CASE i = n
      <4>1. ToSet(placed) \subseteq 1..labelCount
        BY DEF IInv, ILabels, ToSet
      <4> QED
        BY <1>4, <1>5, <1>6, <1>8, <1>12, <3>2, <4>1
    <3> QED
      BY <1>9, <3>1, <3>2
  <2>2. ASSUME NEW label \in 1..labelCount'
        PROVE  \/ label \in ToSet(placed')
               \/ \E i \in 1..Len(frames') : label \in Pending(frames'[i])
    <3>1. CASE label \in 1..labelCount
      <4>1. label \in ToSet(placed) \/ \E i \in 1..n : label \in Pending(frames[i])
        BY <3>1 DEF IInv, IPlaced
      <4>2. \A i \in 1..n : i = n \/ (i \in 1..Len(frames') /\ frames'[i] = frames[i])
        BY <1>1, <1>5
      <4> QED
        BY <1>6, <1>12, <4>1, <4>2
    <3>2. CASE label = new
      BY <1>3, <1>4, <1>5, <3>2
    <3> QED
      BY <1>8, <3>1, <3>2
  <2> QED
    BY <1>12, <2>1, <2>2 DEF IPlaced, Pending
<1>15. IContexts'
  <2> SUFFICES ASSUME NEW i \in 1..Len(frames'), \A j \in 1..i : ~frames'[j].afterLoop,
                      NEW label \in {frames'[i].start, frames'[i].end} \ {None}
               PROVE  \E m \in 1..i : label \in Own(frames'[m])
    BY DEF IContexts, Own
  <2>1. PICK h \in 1..(n - 1) :
          h <= i /\ label \in {frames[h].start, frames[h].end} \ {None}
    <3>1. n - 1 \in 1..(n - 1) /\ n - 1 <= n
      BY <1>1
    <3> QED
      BY <1>4, <1>5, <1>9, <3>1
  <2>2. \A j \in 1..h : j \in 1..i /\ j \in 1..(n - 1) /\ frames'[j] = frames[j]
    BY <1>1, <1>5, <2>1
  <2>3. h \in 1..n /\ \A j \in 1..h : ~frames[j].afterLoop
    BY <1>7, <2>2
  <2>4. PICK m \in 1..h : label \in Own(frames[m])
    BY <2>1, <2>3 DEF IInv, IContexts
  <2> QED
    BY <2>2, <2>4
<1>16. IInner'
  <2> SUFFICES ASSUME NEW b \in 1..Len(frames'), NEW i \in 1..Len(frames'),
                      b <= i, \A j \in b..i : ~frames'[j].afterLoop
               PROVE  /\ /\ frames'[b].kind \in Breakable \ {"do"}
                         /\ \A j \in (b + 1)..i : frames'[j].kind \notin Breakable
                         => frames'[i].end = frames'[b].brk
                      /\ /\ frames'[b].kind \in Loops \ {"do"}
                         /\ \A j \in (b + 1)..i : frames'[j].kind \notin Loops
                         => frames'[i].start = frames'[b].cont
    BY DEF IInner
  <2>1. CASE b = n
    BY <1>4, <1>5, <2>1 DEF Breakable, Loops
  <2>2. CASE b \in 1..(n - 1)
    <3>1. PICK h \in 1..(n - 1) :
            /\ b <= h /\ h <= i
            /\ frames'[i].end = frames[h].end /\ frames'[i].start = frames[h].start
      <4>1. n - 1 \in 1..(n - 1) /\ b <= n - 1 /\ n - 1 <= n
        BY <1>1, <2>2
      <4>2. CASE i = n
        BY <1>4, <1>5, <4>1, <4>2
      <4>3. CASE i \in 1..(n - 1)
        BY <1>5, <4>3
      <4> QED
        BY <1>9, <4>2, <4>3
    <3>2. \A j \in b..h : j \in b..i /\ frames'[j] = frames[j]
      <4> TAKE j \in b..h
      <4>1. j \in 1..(n - 1) /\ j \in b..i
        <5> HIDE DEF n
        <5> QED
          BY <1>1, <2>2, <3>1
      <4> QED
        BY <1>5, <4>1
    <3>3. \A j \in (b + 1)..h : j \in (b + 1)..i /\ j \in b..h
      BY <1>1, <3>1
    <3>4. b \in b..h /\ b \in 1..n /\ h \in 1..n /\ frames'[b] = frames[b]
      BY <1>1, <1>5, <2>2, <3>1
    <3>5. \A j \in b..h : ~frames[j].afterLoop
      BY <3>2
    <3>6. /\ /\ frames[b].kind \in Breakable \ {"do"}
             /\ \A j \in (b + 1)..h : frames[j].kind \notin Breakable
             => frames[h].end = frames[b].brk
          /\ /\ frames[b].kind \in Loops \ {"do"}
             /\ \A j \in (b + 1)..h : frames[j].kind \notin Loops
             => frames[h].start = frames[b].cont
      BY <3>1, <3>4, <3>5 DEF IInv, IInner
    <3>7. \A j \in (b + 1)..h : j \in (b + 1)..i /\ frames'[j] = frames[j]
      BY <3>2, <3>3
    <3> HIDE DEF n
    <3> QED
      BY <3>1, <3>4, <3>6, <3>7
  <2> QED
    BY <1>9, <2>1, <2>2
<1>17. IJumps'
  <2>1. Branch(new).wanted = new /\ Branch(new).to = new
    <3>1. new \notin freed
      BY <1>8 DEF IInv, ILabels
    <3> QED
      BY <3>1 DEF Branch, Jump, Read
  <2>2. new \in 1..labelCount'
    BY <1>8
  <2>3. jumps' = jumps \union {Branch(new)}
    BY <1>2
  <2> QED
    BY <1>8, <2>1, <2>2, <2>3 DEF IInv, IJumps
<1> QED
  BY <1>11, <1>13, <1>14, <1>15, <1>16, <1>17 DEF IInv

-----------------------------------------------------------------------------
(* The statements entered *)

LEMMA OneLabel ==
  ASSUME NEW x
  PROVE  <<x>> \in Seq({x}) /\ IsInjective(<<x>>) /\ ToSet(<<x>>) = {x}
BY DEF IsInjective, ToSet

LEMMA NoLabel ==
  ASSUME NEW S
  PROVE  << >> \in Seq(S) /\ IsInjective(<< >>) /\ ToSet(<< >>) = {}
BY DEF IsInjective, ToSet

\* A jump to a label that is not freed is to that label.
LEMMA BranchTo ==
  ASSUME NEW label, label \notin freed
  PROVE  Branch(label).to = label /\ Branch(label).wanted = label
BY DEF Branch, Jump, Read

LEMMA HereTyped ==
  ASSUME IInv, frames # << >>
  PROVE  LET n == Len(frames)
         IN /\ labelCount \in Nat /\ labelCount >= 1 /\ freed \subseteq 1..labelCount
            /\ n \in 1..n /\ Here = frames[n] /\ Here \in FrameSet /\ Shaped(Here)
            /\ Here.start \in 0..labelCount /\ Here.end \in 0..labelCount
            /\ Own(Here) \intersect freed = {} /\ Own(Here) \subseteq 1..labelCount
            /\ Pending(Here) \subseteq Own(Here)
<1> DEFINE n == Len(frames)
<1>1. /\ labelCount \in Nat /\ labelCount >= 1 /\ freed \subseteq 1..labelCount
      /\ frames \in Seq(FrameSet)
  BY ControlAssumption DEF IInv, IFrames, ILabels
<1>2. n \in 1..n /\ Here = frames[n] /\ Here \in FrameSet
  BY <1>1 DEF Here, Last
<1>3. /\ Shaped(Here) /\ Pending(Here) \subseteq Own(Here)
  BY <1>2, PendingOwn DEF IInv, IFrames
<1>4. /\ Here.start <= labelCount /\ Here.end <= labelCount
      /\ Own(Here) \intersect freed = {} /\ Own(Here) \subseteq 1..labelCount
  <2> HIDE DEF n
  <2> QED
    BY <1>2, Zenon DEF IInv, ILabels, n
<1>5. Here.start \in 0..labelCount /\ Here.end \in 0..labelCount
  <2>1. Here.start \in Nat /\ Here.end \in Nat
    BY <1>2 DEF FrameSet
  <2> QED
    BY <1>1, <1>4, <2>1
<1> QED
  BY <1>1, <1>2, <1>3, <1>4, <1>5

LEMMA OpenBlockKeeps == IInv /\ OpenBlock => IInv'
<1> SUFFICES ASSUME IInv, OpenBlock PROVE IInv'
  OBVIOUS
<1> DEFINE f == Frame("block", None, None, None, Here.start, Here.end)
<1>1. Enter(f, 0, << >>, {}) /\ frames # << >>
  BY DEF OpenBlock
<1>2. /\ labelCount \in Nat /\ Here.start \in Nat /\ Here.end \in Nat
  BY <1>1, HereTyped
<1>3. /\ f \in FrameSet /\ f.kind = "block" /\ f.top = 0 /\ f.brk = 0 /\ f.cont = 0
      /\ f.start = Here.start /\ f.end = Here.end /\ f.afterLoop = FALSE
  <2>1. "block" \in Kinds
    BY DEF Kinds
  <2>2. None \in Nat /\ Here.start \in Nat /\ Here.end \in Nat
    BY <1>2 DEF None
  <2>3. f = [kind |-> "block", top |-> 0, brk |-> 0, cont |-> 0,
             start |-> Here.start, end |-> Here.end, afterLoop |-> FALSE]
    BY DEF Frame, None
  <2> HIDE DEF f
  <2> QED
    BY <2>1, <2>2, <2>3 DEF FrameSet, None
<1> HIDE DEF f
<1>4. Own(f) = {} /\ Pending(f) = {} /\ Shaped(f)
  BY <1>3 DEF Own, Pending, Shaped, None
<1>5. (labelCount + 1)..(labelCount + 0) = {}
  BY <1>2
<1>6. Fits(f, 0, << >>, {})
  BY <1>3, <1>4, <1>5, NoLabel DEF Fits, Breakable, Loops
<1> QED
  BY <1>1, <1>6, EnterKeeps

LEMMA OpenWhileKeeps == IInv /\ OpenWhile => IInv'
<1> SUFFICES ASSUME IInv, OpenWhile PROVE IInv'
  OBVIOUS
<1> DEFINE n == labelCount
<1> DEFINE f == Frame("while", n + 1, n + 2, n + 1, n + 1, n + 2)
<1>1. Enter(f, 2, <<n + 1>>, {Branch(n + 2)}) /\ frames # << >>
  BY DEF OpenWhile, Enter
<1>2. n \in Nat /\ freed \subseteq 1..n
  BY <1>1, HereTyped
<1>3. /\ f \in FrameSet /\ f.kind = "while" /\ f.top = n + 1 /\ f.brk = n + 2 /\ f.cont = n + 1
      /\ f.start = n + 1 /\ f.end = n + 2 /\ f.afterLoop = FALSE
  <2>1. "while" \in Kinds
    BY DEF Kinds
  <2>2. n + 1 \in Nat /\ n + 2 \in Nat
    BY <1>2 DEF None
  <2>3. f = [kind |-> "while", top |-> n + 1, brk |-> n + 2, cont |-> n + 1,
             start |-> n + 1, end |-> n + 2, afterLoop |-> FALSE]
    BY DEF Frame, None
  <2> HIDE DEF f
  <2> QED
    BY <2>1, <2>2, <2>3 DEF FrameSet, None
<1> HIDE DEF f
<1>4. Own(f) = {n + 1, n + 2} /\ Pending(f) = {n + 2} /\ Shaped(f)
  BY <1>2, <1>3 DEF Own, Pending, Shaped, None
<1>5. (n + 1)..(n + 2) = {n + 1, n + 2} /\ n + 1 # n + 2 /\ n + 2 \notin freed
  BY <1>2
<1>6. Branch(n + 2).to = n + 2 /\ Branch(n + 2).wanted = n + 2
  BY <1>5, BranchTo
<1>7. /\ <<n + 1>> \in Seq((n + 1)..(n + 2)) /\ IsInjective(<<n + 1>>)
      /\ ToSet(<<n + 1>>) = {n + 1}
  BY <1>5, OneLabel, SeqWidens
<1>8. Fits(f, 2, <<n + 1>>, {Branch(n + 2)})
  BY <1>3, <1>4, <1>5, <1>6, <1>7 DEF Fits, Breakable, Loops
<1> QED
  BY <1>1, <1>8, EnterKeeps

LEMMA OpenForKeeps == IInv /\ OpenFor => IInv'
<1> SUFFICES ASSUME IInv, OpenFor PROVE IInv'
  OBVIOUS
<1> DEFINE n == labelCount
<1> DEFINE f == Frame("for", n + 1, n + 2, n + 3, n + 3, n + 2)
<1>1. Enter(f, 3, <<n + 1>>, {Branch(n + 2)}) /\ frames # << >>
  BY DEF OpenFor, Enter
<1>2. n \in Nat /\ freed \subseteq 1..n
  BY <1>1, HereTyped
<1>3. /\ f \in FrameSet /\ f.kind = "for" /\ f.top = n + 1 /\ f.brk = n + 2 /\ f.cont = n + 3
      /\ f.start = n + 3 /\ f.end = n + 2 /\ f.afterLoop = FALSE
  <2>1. "for" \in Kinds
    BY DEF Kinds
  <2>2. n + 1 \in Nat /\ n + 2 \in Nat /\ n + 3 \in Nat
    BY <1>2 DEF None
  <2>3. f = [kind |-> "for", top |-> n + 1, brk |-> n + 2, cont |-> n + 3,
             start |-> n + 3, end |-> n + 2, afterLoop |-> FALSE]
    BY DEF Frame, None
  <2> HIDE DEF f
  <2> QED
    BY <2>1, <2>2, <2>3 DEF FrameSet, None
<1> HIDE DEF f
<1>4. Own(f) = {n + 1, n + 2, n + 3} /\ Pending(f) = {n + 2, n + 3} /\ Shaped(f)
  BY <1>2, <1>3 DEF Own, Pending, Shaped, None
<1>5. /\ (n + 1)..(n + 3) = {n + 1, n + 2, n + 3}
      /\ n + 1 # n + 2 /\ n + 1 # n + 3 /\ n + 2 \notin freed
  BY <1>2
<1>6. Branch(n + 2).to = n + 2 /\ Branch(n + 2).wanted = n + 2
  BY <1>5, BranchTo
<1>7. /\ <<n + 1>> \in Seq((n + 1)..(n + 3)) /\ IsInjective(<<n + 1>>)
      /\ ToSet(<<n + 1>>) = {n + 1}
  BY <1>5, OneLabel, SeqWidens
<1>8. Fits(f, 3, <<n + 1>>, {Branch(n + 2)})
  BY <1>3, <1>4, <1>5, <1>6, <1>7 DEF Fits, Breakable, Loops
<1> QED
  BY <1>1, <1>8, EnterKeeps

LEMMA OpenDoKeeps == IInv /\ OpenDo => IInv'
<1> SUFFICES ASSUME IInv, OpenDo PROVE IInv'
  OBVIOUS
<1> DEFINE n == labelCount
<1> DEFINE f == Frame("do", n + 1, None, None, n + 1, Here.end)
<1>1. Enter(f, 1, <<n + 1>>, {}) /\ frames # << >>
  BY DEF OpenDo
<1>2. n \in Nat /\ Here.end \in Nat
  BY <1>1, HereTyped
<1>3. /\ f \in FrameSet /\ f.kind = "do" /\ f.top = n + 1 /\ f.brk = 0 /\ f.cont = 0
      /\ f.start = n + 1 /\ f.end = Here.end /\ f.afterLoop = FALSE
  <2>1. "do" \in Kinds
    BY DEF Kinds
  <2>2. n + 1 \in Nat /\ None \in Nat /\ Here.end \in Nat
    BY <1>2 DEF None
  <2>3. f = [kind |-> "do", top |-> n + 1, brk |-> 0, cont |-> 0,
             start |-> n + 1, end |-> Here.end, afterLoop |-> FALSE]
    BY DEF Frame, None
  <2> HIDE DEF f
  <2> QED
    BY <2>1, <2>2, <2>3 DEF FrameSet, None
<1> HIDE DEF f
<1>4. Own(f) = {n + 1} /\ Pending(f) = {} /\ Shaped(f)
  BY <1>2, <1>3 DEF Own, Pending, Shaped, None
<1>5. (n + 1)..(n + 1) = {n + 1}
  BY <1>2
<1>6. Fits(f, 1, <<n + 1>>, {})
  BY <1>3, <1>4, <1>5, OneLabel DEF Fits, Breakable, Loops
<1> QED
  BY <1>1, <1>6, EnterKeeps

LEMMA OpenSwitchKeeps == IInv /\ OpenSwitch => IInv'
<1> SUFFICES ASSUME IInv, OpenSwitch PROVE IInv'
  OBVIOUS
<1> DEFINE n == labelCount
<1> DEFINE f == Frame("switch", n + 1, n + 1, None, Here.start, n + 1)
<1>1. Enter(f, 1, << >>, {Branch(n + 1)}) /\ frames # << >>
  BY DEF OpenSwitch
<1>2. n \in Nat /\ Here.start \in Nat /\ freed \subseteq 1..n
  BY <1>1, HereTyped
<1>3. /\ f \in FrameSet /\ f.kind = "switch" /\ f.top = n + 1 /\ f.brk = n + 1 /\ f.cont = 0
      /\ f.start = Here.start /\ f.end = n + 1 /\ f.afterLoop = FALSE
  <2>1. "switch" \in Kinds
    BY DEF Kinds
  <2>2. n + 1 \in Nat /\ None \in Nat /\ Here.start \in Nat
    BY <1>2 DEF None
  <2>3. f = [kind |-> "switch", top |-> n + 1, brk |-> n + 1, cont |-> 0,
             start |-> Here.start, end |-> n + 1, afterLoop |-> FALSE]
    BY DEF Frame, None
  <2> HIDE DEF f
  <2> QED
    BY <2>1, <2>2, <2>3 DEF FrameSet, None
<1> HIDE DEF f
<1>4. Own(f) = {n + 1} /\ Pending(f) = {n + 1} /\ Shaped(f)
  BY <1>2, <1>3 DEF Own, Pending, Shaped, None
<1>5. (n + 1)..(n + 1) = {n + 1} /\ n + 1 \notin freed
  BY <1>2
<1>6. Branch(n + 1).to = n + 1 /\ Branch(n + 1).wanted = n + 1
  BY <1>5, BranchTo
<1>7. Fits(f, 1, << >>, {Branch(n + 1)})
  BY <1>3, <1>4, <1>5, <1>6, NoLabel DEF Fits, Breakable, Loops
<1> QED
  BY <1>1, <1>7, EnterKeeps

LEMMA OpenIfKeeps == ASSUME NEW kind \in {"if", "ifelse"} PROVE IInv /\ OpenIf(kind) => IInv'
<1> SUFFICES ASSUME IInv, OpenIf(kind) PROVE IInv'
  OBVIOUS
<1> DEFINE n == labelCount
<1> DEFINE f == Frame(kind, n + 1, None, None, Here.start, Here.end)
<1>1. Enter(f, 1, << >>, {Branch(n + 1)}) /\ frames # << >>
  BY DEF OpenIf
<1>2. n \in Nat /\ Here.start \in Nat /\ Here.end \in Nat /\ freed \subseteq 1..n
  BY <1>1, HereTyped
<1>3. /\ f \in FrameSet /\ f.kind = kind /\ f.top = n + 1 /\ f.brk = 0 /\ f.cont = 0
      /\ f.start = Here.start /\ f.end = Here.end /\ f.afterLoop = FALSE
  <2>1. kind \in Kinds
    BY DEF Kinds
  <2>2. n + 1 \in Nat /\ None \in Nat /\ Here.start \in Nat /\ Here.end \in Nat
    BY <1>2 DEF None
  <2>3. f = [kind |-> kind, top |-> n + 1, brk |-> 0, cont |-> 0,
             start |-> Here.start, end |-> Here.end, afterLoop |-> FALSE]
    BY DEF Frame, None
  <2> HIDE DEF f
  <2> QED
    BY <2>1, <2>2, <2>3 DEF FrameSet, None
<1> HIDE DEF f
<1>4. Own(f) = {n + 1} /\ Pending(f) = {n + 1} /\ Shaped(f)
  BY <1>2, <1>3 DEF Own, Pending, Shaped, None
<1>5. (n + 1)..(n + 1) = {n + 1} /\ n + 1 \notin freed
  BY <1>2
<1>6. Branch(n + 1).to = n + 1 /\ Branch(n + 1).wanted = n + 1
  BY <1>5, BranchTo
<1>7. Fits(f, 1, << >>, {Branch(n + 1)})
  BY <1>3, <1>4, <1>5, <1>6, NoLabel DEF Fits, Breakable, Loops
<1> QED
  BY <1>1, <1>7, EnterKeeps

-----------------------------------------------------------------------------
(* The statements left *)

\* The list goes on with its own context when there was no loop: what is
\* left to show is that the right labels are placed and freed.
LEMMA ResumesOuter ==
  ASSUME IInv, frames # << >>, Here.kind # "func",
         NEW p, p \in Seq(Pending(Here)), IsInjective(p), ToSet(p) = Pending(Here),
         NEW F, F \subseteq Own(Here),
         NEW J, \A j \in J : j.wanted \in Own(Here) /\ j.to = j.wanted
  PROVE  Resumes(Outer, p, J, F)
<1>1. Outer \in FrameSet
  BY Inside
<1> QED
  BY <1>1 DEF Resumes

LEMMA CloseBlockKeeps == IInv /\ CloseBlock => IInv'
<1> SUFFICES ASSUME IInv, CloseBlock PROVE IInv'
  OBVIOUS
<1>1. Leave("block", Outer, << >>, {}, {}) /\ frames # << >> /\ Here.kind = "block"
  BY DEF CloseBlock, Leave
<1>2. Pending(Here) = {}
  BY <1>1 DEF Pending
<1>3. Resumes(Outer, << >>, {}, {})
  BY <1>1, <1>2, NoLabel, ResumesOuter
<1> QED
  BY <1>1, <1>3, LeaveKeeps

LEMMA CloseWhileKeeps == IInv /\ CloseWhile => IInv'
<1> SUFFICES ASSUME IInv, CloseWhile PROVE IInv'
  OBVIOUS
<1> DEFINE after == [Outer EXCEPT !.start = Here.cont, !.end = Here.brk, !.afterLoop = TRUE]
<1> DEFINE F == {Here.top, Here.brk}
<1>1. /\ Leave("while", after, <<Here.brk>>, {Branch(Here.top)}, F)
      /\ frames # << >> /\ Here.kind = "while"
  BY DEF CloseWhile, Leave
<1>2. /\ Outer \in FrameSet /\ Here \in FrameSet /\ Shaped(Here)
      /\ Own(Here) \intersect freed = {}
  BY <1>1, Inside, HereTyped
<1>3. /\ Pending(Here) = {Here.brk} /\ F \subseteq Own(Here)
      /\ Here.cont \in Own(Here) /\ Here.brk \in Own(Here) /\ Here.top \in Own(Here)
  BY <1>1, <1>2 DEF Pending, Own, Shaped, Loops
<1>4. Branch(Here.top).to = Here.top /\ Branch(Here.top).wanted = Here.top
  BY <1>2, <1>3, BranchTo
<1>5. /\ after \in FrameSet /\ after.kind = Outer.kind /\ after.top = Outer.top
      /\ after.brk = Outer.brk /\ after.cont = Outer.cont
      /\ after.start = Here.cont /\ after.end = Here.brk /\ after.afterLoop
  BY <1>2 DEF FrameSet
<1> HIDE DEF after, F
<1>6. Resumes(after, <<Here.brk>>, {Branch(Here.top)}, F)
  BY <1>3, <1>4, <1>5, OneLabel DEF Resumes
<1> QED
  BY <1>1, <1>6, LeaveKeeps

LEMMA CloseForKeeps == IInv /\ CloseFor => IInv'
<1> SUFFICES ASSUME IInv, CloseFor PROVE IInv'
  OBVIOUS
<1> DEFINE p == <<Here.cont, Here.brk>>
<1> DEFINE F == {Here.cont, Here.top, Here.brk}
<1>1. /\ Leave("for", Outer, p, {Branch(Here.top)}, F)
      /\ frames # << >> /\ Here.kind = "for"
  BY DEF CloseFor, Leave
<1>2. Here \in FrameSet /\ Shaped(Here) /\ Own(Here) \intersect freed = {}
  BY <1>1, HereTyped
<1>3. /\ Pending(Here) = {Here.brk, Here.cont} /\ F \subseteq Own(Here)
      /\ Here.cont # Here.brk /\ Here.top \in Own(Here)
  BY <1>1, <1>2 DEF Pending, Own, Shaped
<1>4. Branch(Here.top).to = Here.top /\ Branch(Here.top).wanted = Here.top
  BY <1>2, <1>3, BranchTo
<1>5. p \in Seq(Pending(Here)) /\ IsInjective(p) /\ ToSet(p) = Pending(Here)
  BY <1>3 DEF IsInjective, ToSet
<1> HIDE DEF p, F
<1>6. Resumes(Outer, p, {Branch(Here.top)}, F)
  BY <1>1, <1>3, <1>4, <1>5, ResumesOuter
<1> QED
  BY <1>1, <1>6, LeaveKeeps

LEMMA CloseDoKeeps == IInv /\ CloseDo => IInv'
<1> SUFFICES ASSUME IInv, CloseDo PROVE IInv'
  OBVIOUS
<1> DEFINE after == [Outer EXCEPT !.start = Here.top, !.afterLoop = TRUE]
<1>1. /\ Leave("do", after, << >>, {Branch(Here.top)}, {Here.top})
      /\ frames # << >> /\ Here.kind = "do"
  BY DEF CloseDo, Leave
<1>2. /\ Outer \in FrameSet /\ Here \in FrameSet /\ Shaped(Here)
      /\ Own(Here) \intersect freed = {}
  BY <1>1, Inside, HereTyped
<1>3. Pending(Here) = {} /\ Here.top \in Own(Here)
  BY <1>1, <1>2 DEF Pending, Own, Shaped
<1>4. Branch(Here.top).to = Here.top /\ Branch(Here.top).wanted = Here.top
  BY <1>2, <1>3, BranchTo
<1>5. /\ after \in FrameSet /\ after.kind = Outer.kind /\ after.top = Outer.top
      /\ after.brk = Outer.brk /\ after.cont = Outer.cont
      /\ after.start = Here.top /\ after.end = Outer.end /\ after.afterLoop
  BY <1>2 DEF FrameSet
<1> HIDE DEF after
<1>6. Resumes(after, << >>, {Branch(Here.top)}, {Here.top})
  BY <1>3, <1>4, <1>5, NoLabel DEF Resumes
<1> QED
  BY <1>1, <1>6, LeaveKeeps

LEMMA CloseSwitchKeeps == IInv /\ CloseSwitch => IInv'
<1> SUFFICES ASSUME IInv, CloseSwitch PROVE IInv'
  OBVIOUS
<1>1. /\ Leave("switch", Outer, <<Here.brk>>, {}, {Here.brk})
      /\ frames # << >> /\ Here.kind = "switch"
  BY DEF CloseSwitch, Leave
<1>2. Here \in FrameSet /\ Shaped(Here)
  BY <1>1, HereTyped
<1>3. Pending(Here) = {Here.brk} /\ {Here.brk} \subseteq Own(Here)
  BY <1>1, <1>2 DEF Pending, Own, Shaped
<1>4. Resumes(Outer, <<Here.brk>>, {}, {Here.brk})
  BY <1>1, <1>3, OneLabel, ResumesOuter
<1> QED
  BY <1>1, <1>4, LeaveKeeps

LEMMA CloseIfKeeps == IInv /\ CloseIf => IInv'
<1> SUFFICES ASSUME IInv, CloseIf PROVE IInv'
  OBVIOUS
<1>1. PICK kind \in {"if", "else"} : Leave(kind, Outer, <<Here.top>>, {}, {Here.top})
  BY DEF CloseIf
<1>2. frames # << >> /\ Here.kind = kind /\ kind # "func"
  BY <1>1 DEF Leave
<1>3. Here \in FrameSet /\ Shaped(Here)
  BY <1>2, HereTyped
<1>4. Pending(Here) = {Here.top} /\ {Here.top} \subseteq Own(Here)
  BY <1>1, <1>2, <1>3 DEF Pending, Own, Shaped
<1>5. Resumes(Outer, <<Here.top>>, {}, {Here.top})
  BY <1>2, <1>4, OneLabel, ResumesOuter
<1> QED
  BY <1>1, <1>2, <1>5, LeaveKeeps

-----------------------------------------------------------------------------
(* Jumps, the beginning and the end of the function *)

\* Innermost finds the last of the statements around the list.
LEMMA InnermostIsLast ==
  ASSUME NEW S, frames \in Seq(S), NEW kinds, Innermost(kinds) # 0
  PROVE  /\ Innermost(kinds) \in 1..Len(frames)
         /\ frames[Innermost(kinds)].kind \in kinds
         /\ \A j \in (Innermost(kinds) + 1)..Len(frames) : frames[j].kind \notin kinds
<1> DEFINE around == {i \in 1..Len(frames) : frames[i].kind \in kinds}
<1>1. around # {} /\ Innermost(kinds) = CHOOSE i \in around : \A j \in around : j <= i
  BY DEF Innermost
<1>2. Len(frames) \in Nat /\ around \subseteq 0..Len(frames)
  OBVIOUS
<1>3. \E i \in around : \A j \in around : j <= i
  <2> HIDE DEF around
  <2> QED
    BY <1>1, <1>2, GreatestNumber
<1>4. Innermost(kinds) \in around /\ \A j \in around : j <= Innermost(kinds)
  <2> HIDE DEF around
  <2> QED
    BY <1>1, <1>3
<1>5. ASSUME NEW j \in (Innermost(kinds) + 1)..Len(frames)
      PROVE  j \in 1..Len(frames) /\ ~(j <= Innermost(kinds))
  BY <1>2, <1>4
<1> QED
  BY <1>4, <1>5

\* Nothing but the set of jumps changes.
LEMMA JumpKeeps ==
  ASSUME IInv, UNCHANGED <<frames, labelCount, freed, placed>>, IJumps'
  PROVE  IInv'
<1>1. frames' = frames /\ labelCount' = labelCount /\ freed' = freed /\ placed' = placed
  OBVIOUS
<1> QED
  BY <1>1 DEF IInv, IFrames, ILabels, IPlaced, IContexts, IInner

\* What is read of a context is a label of the function, none, or freed.
LEMMA ReadTyped ==
  ASSUME NEW label \in 0..labelCount, labelCount \in Nat
  PROVE  Read(label) \in (1..labelCount) \union {None, Dangling}
BY DEF Read, None, Dangling

LEMMA BreakKeeps == IInv /\ Break => IInv'
<1> SUFFICES ASSUME IInv, Break PROVE IInv'
  OBVIOUS
<1> DEFINE n == Len(frames)
<1> DEFINE i == Innermost(Breakable)
<1>1. /\ i # 0 /\ (Careful => JumpSafe(i))
      /\ jumps' = jumps \union {Jump("break", Read(Here.end), frames[i].brk)}
      /\ UNCHANGED <<frames, labelCount, freed, placed>>
  BY DEF Break, EmitJump
<1>2. frames \in Seq(FrameSet)
  BY DEF IInv, IFrames
<1>3. /\ i \in 1..n /\ frames[i].kind \in Breakable
      /\ \A j \in (i + 1)..n : frames[j].kind \notin Breakable
  BY <1>1, <1>2, InnermostIsLast
<1>4. frames # << >>
  BY <1>2, <1>3
<1>5. /\ labelCount \in Nat /\ n \in 1..n /\ Here = frames[n] /\ Here.end \in 0..labelCount
  BY <1>4, HereTyped
<1>6. Read(Here.end) \in (1..labelCount) \union {None, Dangling}
  BY <1>5, ReadTyped
<1>7. ASSUME Careful
      PROVE  frames[i].brk \in 1..labelCount /\ Read(Here.end) = frames[i].brk
  <2>1. frames[i].kind \in Breakable \ {"do"} /\ \A j \in i..n : ~frames[j].afterLoop
    BY <1>1, <1>3, <1>7 DEF JumpSafe
  <2>2. Here.end = frames[i].brk
    <3>1. i <= n /\ n \in 1..n
      BY <1>3, <1>5
    <3> HIDE DEF i, n
    <3> QED
      BY <1>3, <1>5, <2>1, <3>1 DEF IInv, IInner, n
  <2>3. /\ Shaped(frames[i]) /\ Own(frames[i]) \subseteq 1..labelCount
        /\ Own(frames[i]) \intersect freed = {}
    BY <1>3, Zenon DEF IInv, IFrames, ILabels
  <2>4. frames[i].brk \in Own(frames[i])
    BY <2>1, <2>3 DEF Shaped, Own, Breakable
  <2> QED
    BY <2>2, <2>3, <2>4 DEF Read
<1>8. IJumps'
  BY <1>1, <1>6, <1>7 DEF IInv, IJumps, Jump
<1> QED
  BY <1>1, <1>8, JumpKeeps

LEMMA ContinueKeeps == IInv /\ Continue => IInv'
<1> SUFFICES ASSUME IInv, Continue PROVE IInv'
  OBVIOUS
<1> DEFINE n == Len(frames)
<1> DEFINE i == Innermost(Loops)
<1>1. /\ i # 0 /\ (Careful => JumpSafe(i))
      /\ jumps' = jumps \union {Jump("continue", Read(Here.start), frames[i].cont)}
      /\ UNCHANGED <<frames, labelCount, freed, placed>>
  BY DEF Continue, EmitJump
<1>2. frames \in Seq(FrameSet)
  BY DEF IInv, IFrames
<1>3. /\ i \in 1..n /\ frames[i].kind \in Loops
      /\ \A j \in (i + 1)..n : frames[j].kind \notin Loops
  BY <1>1, <1>2, InnermostIsLast
<1>4. frames # << >>
  BY <1>2, <1>3
<1>5. /\ labelCount \in Nat /\ n \in 1..n /\ Here = frames[n] /\ Here.start \in 0..labelCount
  BY <1>4, HereTyped
<1>6. Read(Here.start) \in (1..labelCount) \union {None, Dangling}
  BY <1>5, ReadTyped
<1>7. ASSUME Careful
      PROVE  frames[i].cont \in 1..labelCount /\ Read(Here.start) = frames[i].cont
  <2>1. frames[i].kind \in Loops \ {"do"} /\ \A j \in i..n : ~frames[j].afterLoop
    BY <1>1, <1>3, <1>7 DEF JumpSafe
  <2>2. Here.start = frames[i].cont
    <3>1. i <= n /\ n \in 1..n
      BY <1>3, <1>5
    <3> HIDE DEF i, n
    <3> QED
      BY <1>3, <1>5, <2>1, <3>1 DEF IInv, IInner, n
  <2>3. /\ Shaped(frames[i]) /\ Own(frames[i]) \subseteq 1..labelCount
        /\ Own(frames[i]) \intersect freed = {}
    BY <1>3, Zenon DEF IInv, IFrames, ILabels
  <2>4. frames[i].cont \in Own(frames[i])
    BY <2>1, <2>3 DEF Shaped, Own, Loops
  <2> QED
    BY <2>2, <2>3, <2>4 DEF Read
<1>8. IJumps'
  BY <1>1, <1>6, <1>7 DEF IInv, IJumps, Jump
<1> QED
  BY <1>1, <1>8, JumpKeeps

LEMMA ReturnKeeps == IInv /\ Return => IInv'
<1> SUFFICES ASSUME IInv, Return PROVE IInv'
  OBVIOUS
<1>1. /\ frames # << >> /\ frames \in Seq(FrameSet)
      /\ jumps' = jumps \union {Jump("return", Read(frames[1].top), frames[1].top)}
      /\ UNCHANGED <<frames, labelCount, freed, placed>>
  BY DEF Return, IInv, IFrames
<1>2. 1 \in 1..Len(frames)
  BY <1>1
<1>3. frames[1].kind = "func" /\ Shaped(frames[1])
  BY <1>2 DEF IInv, IFrames
<1>4. Own(frames[1]) \subseteq 1..labelCount /\ Own(frames[1]) \intersect freed = {}
  BY <1>2, Zenon DEF IInv, ILabels
<1>5. frames[1].top \in Own(frames[1])
  BY <1>3 DEF Shaped, Own
<1>6. frames[1].top \in 1..labelCount /\ Read(frames[1].top) = frames[1].top
  BY <1>4, <1>5 DEF Read
<1>7. IJumps'
  BY <1>1, <1>6 DEF IInv, IJumps, Jump
<1> QED
  BY <1>1, <1>7, JumpKeeps

LEMMA EndFuncKeeps == IInv /\ EndFunc => IInv'
<1> SUFFICES ASSUME IInv, EndFunc PROVE IInv'
  OBVIOUS
<1>1. /\ frames # << >> /\ Here.kind = "func"
      /\ frames' = << >> /\ placed' = Append(placed, Here.top)
      /\ freed' = freed \union {Here.top} /\ labelCount' = labelCount /\ jumps' = jumps
  BY DEF EndFunc
<1>2. /\ labelCount \in Nat /\ Len(frames) \in 1..Len(frames) /\ Here = frames[Len(frames)]
      /\ Shaped(Here) /\ Own(Here) \subseteq 1..labelCount
  BY <1>1, HereTyped
<1>3. Len(frames) = 1
  BY <1>1, <1>2 DEF IInv, IFrames
<1>4. Pending(Here) = {Here.top} /\ Here.top \in 1..labelCount
  BY <1>1, <1>2 DEF Pending, Own, Shaped
<1>5. Pending(Here) \intersect ToSet(placed) = {}
  BY <1>2 DEF IInv, IPlaced
<1> DEFINE t == <<Here.top>>
<1>6. /\ t \in Seq(1..labelCount) /\ IsInjective(t) /\ ToSet(t) = {Here.top}
  BY <1>4, OneLabel, SeqWidens
<1>7. /\ placed \in Seq(1..labelCount) /\ IsInjective(placed)
      /\ freed \subseteq 1..labelCount /\ labelCount \in 1..MaxLabels
  BY DEF IInv, ILabels, IPlaced
<1>8. placed' = placed \o t
  BY <1>1, <1>7
<1> HIDE DEF t
<1>9. ToSet(placed) \intersect ToSet(t) = {}
  BY <1>4, <1>5, <1>6
<1>10. /\ placed' \in Seq(1..labelCount) /\ IsInjective(placed')
       /\ ToSet(placed') = ToSet(placed) \union {Here.top}
  BY <1>6, <1>7, <1>8, <1>9, PlacedMore
<1>11. frames' \in Seq(FrameSet) /\ Len(frames') = 0
  BY <1>1
<1>12. IFrames' /\ IContexts' /\ IInner'
  BY <1>11 DEF IFrames, IContexts, IInner
<1>13. ILabels'
  <2>1. \A i \in 1..Len(frames') : FALSE
    BY <1>11
  <2>2. labelCount' \in 1..MaxLabels /\ placed' \in Seq(1..labelCount')
    BY <1>1, <1>7, <1>10
  <2>3. freed' \subseteq 1..labelCount'
    BY <1>1, <1>4, <1>7
  <2> QED
    BY <2>1, <2>2, <2>3 DEF ILabels
<1>14. IPlaced'
  <2>1. \A i \in 1..Len(frames) : frames[i] = Here
    BY <1>2, <1>3
  <2>2. \A label \in 1..labelCount : label \in ToSet(placed')
    BY <1>4, <1>10, <2>1 DEF IInv, IPlaced
  <2> QED
    BY <1>1, <1>10, <1>11, <2>2 DEF IPlaced
<1>15. IJumps'
  BY <1>1 DEF IInv, IJumps
<1> QED
  BY <1>12, <1>13, <1>14, <1>15 DEF IInv

LEMMA InitIInv == Init => IInv
<1> SUFFICES ASSUME Init PROVE IInv
  OBVIOUS
<1> DEFINE f == Frame("func", 1, None, None, None, None)
<1>1. frames = <<f>> /\ labelCount = 1 /\ freed = {} /\ placed = << >> /\ jumps = {}
  BY DEF Init
<1>2. f = [kind |-> "func", top |-> 1, brk |-> 0, cont |-> 0, start |-> 0, end |-> 0,
           afterLoop |-> FALSE]
  BY DEF Frame, None
<1> HIDE DEF f
<1>3. f \in FrameSet
  BY <1>2 DEF FrameSet, Kinds
<1>4. f.kind = "func" /\ Own(f) = {1} /\ Pending(f) = {1} /\ Shaped(f)
  BY <1>2 DEF Own, Pending, Shaped, None
<1>5. frames \in Seq(FrameSet) /\ Len(frames) = 1 /\ \A i \in 1..Len(frames) : i = 1 /\ frames[i] = f
  BY <1>1, <1>3
<1>6. IFrames
  BY <1>4, <1>5 DEF IFrames
<1>7. placed \in Seq(1..1) /\ IsInjective(placed) /\ ToSet(placed) = {}
  BY <1>1, NoLabel
<1>8. ILabels
  BY <1>1, <1>2, <1>4, <1>5, <1>7, ControlAssumption DEF ILabels
<1>9. IPlaced
  BY <1>1, <1>4, <1>5, <1>7 DEF IPlaced
<1>10. IContexts /\ IInner
  BY <1>2, <1>5 DEF IContexts, IInner, Breakable, Loops, None
<1> QED
  BY <1>1, <1>6, <1>8, <1>9, <1>10 DEF IInv, IJumps

LEMMA NextIInv == IInv /\ [Next]_vars => IInv'
<1> SUFFICES ASSUME IInv, [Next]_vars PROVE IInv'
  OBVIOUS
<1>1. CASE Next
  BY <1>1, OpenBlockKeeps, OpenWhileKeeps, OpenForKeeps, OpenDoKeeps, OpenSwitchKeeps,
     OpenIfKeeps, CloseBlockKeeps, CloseWhileKeeps, CloseForKeeps, CloseDoKeeps,
     CloseSwitchKeeps, CloseIfKeeps, ElseKeeps, BreakKeeps, ContinueKeeps, ReturnKeeps,
     EndFuncKeeps, Zenon DEF Next
<1>2. CASE UNCHANGED vars
  BY <1>2 DEF vars, IInv, IFrames, ILabels, IPlaced, IContexts, IInner, IJumps
<1> QED
  BY <1>1, <1>2

-----------------------------------------------------------------------------
(* The inductive invariant holds in every state of every behaviour.        *)
THEOREM Invariance == Spec => []IInv
BY InitIInv, NextIInv, PTL DEF Spec

(* Every variable keeps its type: a context never holds a label that the   *)
(* function did not make.                                                  *)
THEOREM Typing == Spec => []TypeOK
<1>1. IInv => TypeOK
  <2> SUFFICES ASSUME IInv PROVE TypeOK
    OBVIOUS
  <2>1. labelCount \in 0..MaxLabels /\ labelCount \in Nat
    BY ControlAssumption DEF IInv, ILabels
  <2>2. freed \subseteq 1..labelCount /\ placed \in Seq(1..labelCount)
    BY DEF IInv, ILabels
  <2>3. ASSUME NEW i \in 1..Len(frames)
        PROVE  {frames[i].top, frames[i].brk, frames[i].cont,
                frames[i].start, frames[i].end} \subseteq (1..labelCount) \union {None}
    <3>1. frames[i] \in FrameSet
      BY DEF IInv, IFrames
    <3>2. frames[i].start \in Nat /\ frames[i].end \in Nat
      BY <3>1 DEF FrameSet
    <3>3. /\ Own(frames[i]) \subseteq 1..labelCount
          /\ frames[i].start <= labelCount /\ frames[i].end <= labelCount
      BY Zenon DEF IInv, ILabels
    <3>4. {frames[i].top, frames[i].brk, frames[i].cont} \subseteq (1..labelCount) \union {None}
      BY <3>3 DEF Own
    <3> QED
      BY <2>1, <3>2, <3>3, <3>4 DEF None
  <2> QED
    BY <2>1, <2>2, <2>3 DEF IInv, IJumps, TypeOK
<1> QED
  BY <1>1, Invariance, PTL

(* Freeing a label never hits a context that is still in use, up to the    *)
(* first while or do loop of a list.                                       *)
THEOREM ContextsIntact == Spec => []ContextsUsable
<1>1. IInv => ContextsUsable
  <2> SUFFICES ASSUME IInv, NEW i \in 1..Len(frames), \A j \in 1..i : ~frames[j].afterLoop,
                      NEW label \in {frames[i].start, frames[i].end}
               PROVE  label \notin freed
    BY DEF ContextsUsable
  <2>1. CASE label = None
    BY <2>1 DEF IInv, ILabels, None
  <2>2. CASE label # None
    <3>1. PICK k \in 1..i : label \in Own(frames[k])
      BY <2>2 DEF IInv, IContexts
    <3>2. k \in 1..Len(frames)
      BY DEF IInv, IFrames
    <3> QED
      BY <3>1, <3>2, Zenon DEF IInv, ILabels
  <2> QED
    BY <2>1, <2>2
<1> QED
  BY <1>1, Invariance, PTL

(* Without a jump out of a do loop, or one after a loop in the same list,  *)
(* every break, continue, return and branch of the function goes where C   *)
(* says.                                                                   *)
THEOREM JumpsReachTarget == ASSUME Careful PROVE Spec => []JumpsCorrect
<1>1. IInv => JumpsCorrect
  <2> SUFFICES ASSUME IInv, NEW j \in jumps PROVE j.wanted # None /\ j.to = j.wanted
    BY DEF JumpsCorrect
  <2>1. j.wanted \in 1..labelCount /\ j.to = j.wanted
    BY Careful DEF IInv, IJumps
  <2> QED
    BY <2>1 DEF None
<1> QED
  BY <1>1, Invariance, PTL

(* Then the assembler accepts the function too: every label is defined     *)
(* once, and at the end there is none that is not defined.                 *)
THEOREM LabelsDefined == ASSUME Careful PROVE Spec => []LabelsResolved
<1>1. IInv => LabelsResolved
  <2> SUFFICES ASSUME IInv PROVE LabelsResolved
    OBVIOUS
  <2>1. IsInjective(placed)
    BY DEF IInv, IPlaced
  <2>2. ASSUME frames = << >>, NEW j \in jumps
        PROVE  j.to \in ToSet(placed)
    <3>1. j.to \in 1..labelCount
      BY DEF IInv, IJumps
    <3>2. Len(frames) = 0
      BY <2>2
    <3> QED
      BY <3>1, <3>2 DEF IInv, IPlaced
  <2> QED
    BY <2>1, <2>2 DEF LabelsResolved
<1> QED
  BY <1>1, Invariance, PTL

(* Whatever breaks and continues the function has, no label of it is       *)
(* defined twice, and at its end every label that was made is defined.     *)
THEOREM EachLabelOnce ==
  Spec => [](/\ IsInjective(placed)
             /\ frames = << >> => ToSet(placed) = 1..labelCount)
<1>1. IInv => /\ IsInjective(placed)
              /\ frames = << >> => ToSet(placed) = 1..labelCount
  <2> SUFFICES ASSUME IInv
               PROVE  /\ IsInjective(placed)
                      /\ frames = << >> => ToSet(placed) = 1..labelCount
    OBVIOUS
  <2>1. ToSet(placed) \subseteq 1..labelCount
    BY DEF IInv, ILabels, ToSet
  <2>2. ASSUME frames = << >> PROVE 1..labelCount \subseteq ToSet(placed)
    <3>1. Len(frames) = 0
      BY <2>2
    <3> QED
      BY <3>1 DEF IInv, IPlaced
  <2> QED
    BY <2>1, <2>2 DEF IInv, IPlaced
<1> QED
  BY <1>1, Invariance, PTL

=================================================================================

------------------------- MODULE SymbolTable_proofs -------------------------
(***************************************************************************)
(* Proofs about SymbolTable, for every set of types, every bound and any   *)
(* nesting of scopes.                                                      *)
(***************************************************************************)
EXTENDS SymbolTable, Induction, SequenceTheorems

(***************************************************************************)
(* The elements of declared arrays have at most 8 bytes: the condition     *)
(* under which adding 8 bytes per element is enough.                       *)
(***************************************************************************)
SmallElements == \A t \in ArrayTypes : t.bytes <= 8

-----------------------------------------------------------------------------
(* Arithmetic of stack offsets *)

\* Division by a positive number leaves a remainder below it.
LEMMA Division ==
  \A a \in Nat, b \in Nat \ {0} :
    /\ a \div b \in Nat
    /\ a % b \in 0..(b - 1)
    /\ a = (b * (a \div b)) + (a % b)
  BY SMTT(20)

\* align_stack_address leaves room for the bytes it was asked for.
LEMMA AlignRoom ==
  ASSUME NEW addr \in Nat, NEW bytes \in Nat \ {0}
  PROVE  Align(addr, bytes) \in Nat /\ Align(addr, bytes) >= addr + bytes
<1> DEFINE q == (addr + bytes - 1) \div bytes
           r == (addr + bytes - 1) % bytes
<1>1. addr + bytes - 1 \in Nat
  OBVIOUS
<1>2. q \in Nat /\ r \in 0..(bytes - 1) /\ addr + bytes - 1 = (bytes * q) + r
  BY <1>1, Division
<1>3. bytes * q \in Nat
  BY <1>2
<1> HIDE DEF q, r
<1>4. Align(addr, bytes) = (bytes * q) + bytes
  BY <1>2 DEF Align, q
<1>5. QED
  BY <1>2, <1>3, <1>4

\* func_get_aligned_stack_usage rounds up.
LEMMA AlignedUsageCovers ==
  ASSUME NEW space \in Nat
  PROVE  space <= AlignedStackUsage(space)
  BY DEF AlignedStackUsage

\* insert_var leaves room for the variable, for a pointer to a struct with a
\* first member wider than the pointer too.
LEMMA SlotEndRoom ==
  ASSUME NEW cur \in Nat, NEW t \in Types
  PROVE  SlotEnd(cur, t) \in Nat /\ SlotEnd(cur, t) >= cur + t.bytes
<1>1. t.bytes \in Nat \ {0} /\ t.unit \in Nat \ {0}
  BY TypesAssumption
<1>2. Align(cur, t.unit) \in Nat /\ Align(cur, t.unit) >= cur + t.unit
  BY <1>1, AlignRoom
<1>3. QED
  BY <1>1, <1>2 DEF SlotEnd

\* With the 8 bytes per element that follow, an array of small elements fits.
LEMMA ArrayRoom ==
  ASSUME NEW cur \in Nat, NEW t \in ArrayTypes, NEW n \in ArraySizes, SmallElements
  PROVE  /\ SlotEnd(cur, t) + 8 * n \in Nat
         /\ n * t.bytes \in Nat \ {0}
         /\ SlotEnd(cur, t) + 8 * n >= cur + n * t.bytes
<1>1. t \in Types /\ t.bytes \in Nat \ {0} /\ t.bytes <= 8 /\ n \in Nat \ {0}
  BY TypesAssumption DEF SmallElements
<1>2. SlotEnd(cur, t) \in Nat /\ SlotEnd(cur, t) >= cur
  BY <1>1, SlotEndRoom
<1>3. n * t.bytes <= n * 8 /\ n * t.bytes \in Nat \ {0}
  BY <1>1
<1>4. QED
  BY <1>1, <1>2, <1>3

-----------------------------------------------------------------------------
(* The structure of the scope tree *)

\* Where parse_func is decides how many scopes are open.
PhaseInv ==
  /\ IsFiniteSet(slots)
  /\ phase = "global" => open = << >>
  /\ phase = "params" => open = << 1 >> /\ Len(scopes) = 1
  /\ phase = "body" => Len(open) >= 2

\* What holds whatever the sizes of array elements are.
Structure == TypeOK /\ PhaseInv /\ OffsetsNested

\* A scope of the function has an offset.
LEMMA ScopeCur ==
  ASSUME TypeOK, NEW i \in 1..Len(scopes)
  PROVE  scopes[i] \in Scope /\ scopes[i].cur \in Nat
<1>1. scopes[i] \in Scope
  BY DEF TypeOK
<1>2. QED
  BY <1>1 DEF Scope

\* The open scopes are scopes of the function.
LEMMA OpenScope ==
  ASSUME TypeOK, NEW i \in 1..Len(open)
  PROVE  open[i] \in 1..Len(scopes) /\ scopes[open[i]].cur \in Nat
<1>1. open[i] \in 1..Len(scopes)
  BY DEF TypeOK
<1>2. QED
  BY <1>1, ScopeCur

\* The innermost scope is the last one opened and has the largest offset.
LEMMA TopScope ==
  ASSUME Structure, phase # "global"
  PROVE  /\ Len(open) \in Nat \ {0} /\ Top = open[Len(open)]
         /\ Top \in 1..Len(scopes) /\ Top \in OpenScopes
         /\ scopes[Top] \in Scope /\ scopes[Top].cur \in Nat
         /\ \A i \in 1..Len(open) :
              /\ scopes[open[i]].cur <= scopes[Top].cur
              /\ i < Len(open) => open[i] < Top
<1>1. Len(open) \in Nat \ {0} /\ Top = open[Len(open)]
  BY DEF Structure, TypeOK, PhaseInv, Top
<1>2. /\ Top \in 1..Len(scopes) /\ Top \in OpenScopes
      /\ scopes[Top] \in Scope /\ scopes[Top].cur \in Nat
  BY <1>1, OpenScope, ScopeCur DEF Structure, OpenScopes
<1>3. ASSUME NEW i \in 1..Len(open)
      PROVE  /\ scopes[open[i]].cur <= scopes[Top].cur
             /\ i < Len(open) => open[i] < Top
  <2>1. CASE i = Len(open)
    BY <1>1, <1>2, <2>1
  <2>2. CASE i < Len(open)
    BY <1>1, <2>2 DEF Structure, OffsetsNested
  <2>3. QED
    BY <1>1, <2>1, <2>2
<1>4. QED
  BY <1>1, <1>2, <1>3

-----------------------------------------------------------------------------
(* The kinds of steps *)

\* A variable is declared, by whatever construct.
InsertStep(name, kind, t, size, extra) ==
  /\ phase # "global"
  /\ name \in Names => Undeclared(name)
  /\ kind = "var" => size = t.bytes /\ extra = 0
  /\ \E n \in Nat : extra = 8 * n
  /\ SmallElements => SlotEnd(scopes[Top].cur, t) + extra >= scopes[Top].cur + size
  /\ InsertVar(name, kind, t, size, extra)
  /\ UNCHANGED <<phase, open, stackSpaceUsed>>

AnyInsertStep ==
  \E name \in Names \union {TempName}, kind \in {"var", "array"}, t \in Types,
     size \in Nat \ {0}, extra \in Nat : InsertStep(name, kind, t, size, extra)

\* A scope is opened below the innermost one.
ChildStep ==
  /\ phase # "global" /\ phase' = "body"
  /\ \E kind \in {"block", "forInit", "switch"}, reserved \in Nat : CreateChild(kind, reserved)
  /\ UNCHANGED <<slots, stackSpaceUsed>>

\* The innermost scope reserves bytes.
GrowStep == Conditional \/ ForCondition \/ ForIncrement

\* A step that declares a variable is an InsertStep.
LEMMA DeclarationSteps ==
  ASSUME Structure,
         \/ \E name \in Names, t \in Types : Param(name, t)
         \/ \E name \in Names, t \in Types : DeclareVar(name, t)
         \/ \E name \in Names, t \in ArrayTypes, n \in ArraySizes : DeclareArray(name, t, n)
         \/ \E t \in Types : CallReturningStruct(t)
  PROVE  AnyInsertStep
<1>1. ASSUME NEW name \in Names, NEW t \in Types, Param(name, t) \/ DeclareVar(name, t)
      PROVE  AnyInsertStep
  <2>1. phase # "global" /\ InsertVar(name, "var", t, t.bytes, 0) /\ Undeclared(name)
        /\ UNCHANGED <<phase, open, stackSpaceUsed>>
    BY <1>1 DEF Param, DeclareVar, In
  <2>2. t.bytes \in Nat \ {0} /\ SlotEnd(scopes[Top].cur, t) + 0 >= scopes[Top].cur + t.bytes
    <3>1. scopes[Top].cur \in Nat
      BY <2>1, TopScope
    <3>2. QED
      BY <3>1, SlotEndRoom, TypesAssumption
  <2>3. 0 = 8 * 0
    OBVIOUS
  <2>4. InsertStep(name, "var", t, t.bytes, 0)
    BY <2>1, <2>2, <2>3 DEF InsertStep
  <2>5. QED
    BY <2>2, <2>4 DEF AnyInsertStep
<1>2. ASSUME NEW name \in Names, NEW t \in ArrayTypes, NEW n \in ArraySizes,
             DeclareArray(name, t, n)
      PROVE  AnyInsertStep
  <2>1. phase # "global" /\ InsertVar(name, "array", t, n * t.bytes, 8 * n) /\ Undeclared(name)
        /\ UNCHANGED <<phase, open, stackSpaceUsed>>
    BY <1>2 DEF DeclareArray, In
  <2>2. t \in Types /\ t.bytes \in Nat \ {0} /\ n \in Nat \ {0}
    BY TypesAssumption
  <2>3. n * t.bytes \in Nat \ {0} /\ 8 * n \in Nat
    BY <2>2
  <2>4. SmallElements =>
          SlotEnd(scopes[Top].cur, t) + 8 * n >= scopes[Top].cur + n * t.bytes
    BY <2>1, TopScope, ArrayRoom
  <2>5. InsertStep(name, "array", t, n * t.bytes, 8 * n)
    BY <2>1, <2>2, <2>4 DEF InsertStep
  <2>6. QED
    BY <2>2, <2>3, <2>5 DEF AnyInsertStep
<1>3. ASSUME NEW t \in Types, CallReturningStruct(t)
      PROVE  AnyInsertStep
  <2>1. phase # "global" /\ InsertVar(TempName, "var", t, t.bytes, 0)
        /\ UNCHANGED <<phase, open, stackSpaceUsed>>
    BY <1>3 DEF CallReturningStruct, In
  <2>2. t.bytes \in Nat \ {0} /\ SlotEnd(scopes[Top].cur, t) + 0 >= scopes[Top].cur + t.bytes
    <3>1. scopes[Top].cur \in Nat
      BY <2>1, TopScope
    <3>2. QED
      BY <3>1, SlotEndRoom, TypesAssumption
  <2>3. InsertStep(TempName, "var", t, t.bytes, 0)
    BY <2>1, <2>2, BoundsAssumption DEF InsertStep
  <2>4. QED
    BY <2>2, <2>3 DEF AnyInsertStep
<1>4. QED
  BY <1>1, <1>2, <1>3

\* Every step is of one of these kinds.
LEMMA StepKinds ==
  ASSUME Structure, [Next]_vars
  PROVE  \/ BeginFunc \/ EndPrototype \/ EndFunc \/ CloseScope
         \/ AnyInsertStep \/ ChildStep \/ GrowStep
         \/ UNCHANGED vars
<1>1. CASE BeginBody \/ OpenBlock \/ OpenFor \/ OpenSwitch
  BY <1>1 DEF BeginBody, OpenBlock, OpenFor, OpenSwitch, In, ChildStep
<1>2. CASE \/ \E name \in Names, t \in Types : Param(name, t)
           \/ \E name \in Names, t \in Types : DeclareVar(name, t)
           \/ \E name \in Names, t \in ArrayTypes, n \in ArraySizes : DeclareArray(name, t, n)
           \/ \E t \in Types : CallReturningStruct(t)
  BY <1>2, DeclarationSteps
<1>3. QED
  BY <1>1, <1>2, Zenon DEF Next, GrowStep

\* What declaring a variable does to the scopes and variables.
LEMMA InsertFacts ==
  ASSUME Structure,
         NEW name \in Names \union {TempName}, NEW kind \in {"var", "array"},
         NEW t \in Types, NEW size \in Nat \ {0}, NEW extra \in Nat,
         InsertStep(name, kind, t, size, extra)
  PROVE  LET end == SlotEnd(scopes[Top].cur, t) + extra
             new == [name |-> name, kind |-> kind, scope |-> Top, off |-> end,
                     size |-> size, bytes |-> t.bytes, unit |-> t.unit, id |-> Cardinality(slots) + 1]
         IN /\ end \in Nat /\ end >= scopes[Top].cur + t.bytes
            /\ Cardinality(slots) \in Nat
            /\ new \in Slot
            /\ slots' = slots \union {new}
            /\ scopes' \in Seq(Scope) /\ Len(scopes') = Len(scopes)
            /\ \A i \in 1..Len(scopes) :
                 scopes'[i].cur = IF i = Top THEN end ELSE scopes[i].cur
<1> DEFINE end == SlotEnd(scopes[Top].cur, t) + extra
           new == [name |-> name, kind |-> kind, scope |-> Top, off |-> end,
                   size |-> size, bytes |-> t.bytes, unit |-> t.unit, id |-> Cardinality(slots) + 1]
<1>1. /\ Top \in 1..Len(scopes) /\ scopes[Top] \in Scope /\ scopes[Top].cur \in Nat
      /\ scopes \in Seq(Scope)
  BY TopScope DEF InsertStep, Structure, TypeOK
<1>2. t.bytes \in Nat \ {0} /\ t.unit \in Nat \ {0}
  BY TypesAssumption
<1>3. end \in Nat /\ end >= scopes[Top].cur + t.bytes
  <2>1. /\ SlotEnd(scopes[Top].cur, t) \in Nat
        /\ SlotEnd(scopes[Top].cur, t) >= scopes[Top].cur + t.bytes
    BY <1>1, SlotEndRoom
  <2>2. QED
    BY <1>1, <1>2, <2>1
<1>4. Cardinality(slots) \in Nat
  BY FS_CardinalityType DEF Structure, PhaseInv
<1>5. scopes' = [scopes EXCEPT ![Top].cur = end] /\ slots' = slots \union {new}
  BY DEF InsertStep, InsertVar
<1> HIDE DEF end
<1>6. new \in Slot
  BY <1>1, <1>2, <1>3, <1>4 DEF Slot
<1>7. [scopes[Top] EXCEPT !.cur = end] \in Scope
      /\ [scopes[Top] EXCEPT !.cur = end].cur = end
  BY <1>1, <1>3 DEF Scope
<1>8. scopes' = [scopes EXCEPT ![Top] = [scopes[Top] EXCEPT !.cur = end]]
  BY <1>5
<1>9. /\ scopes' \in Seq(Scope) /\ Len(scopes') = Len(scopes)
      /\ \A i \in 1..Len(scopes) :
           scopes'[i].cur = IF i = Top THEN end ELSE scopes[i].cur
  BY <1>1, <1>7, <1>8
<1>10. QED
  BY <1>3, <1>4, <1>5, <1>6, <1>9 DEF end

\* What opening a scope does.
LEMMA ChildFacts ==
  ASSUME Structure, ChildStep
  PROVE  /\ scopes' \in Seq(Scope) /\ Len(scopes') = Len(scopes) + 1
         /\ \A i \in 1..Len(scopes) : scopes'[i] = scopes[i]
         /\ scopes'[Len(scopes) + 1].cur >= scopes[Top].cur
         /\ open' = Append(open, Len(scopes) + 1)
         /\ open' \in Seq(1..(Len(scopes) + 1)) /\ Len(open') = Len(open) + 1
         /\ \A i \in 1..Len(open) : open'[i] = open[i]
         /\ open'[Len(open) + 1] = Len(scopes) + 1
<1>1. PICK kind \in {"block", "forInit", "switch"}, reserved \in Nat :
        CreateChild(kind, reserved)
  BY DEF ChildStep
<1> DEFINE child == [kind |-> kind, cur |-> scopes[Top].cur + reserved]
           n == Len(scopes)
<1>2. /\ n \in Nat \ {0} /\ scopes \in Seq(Scope) /\ scopes[Top].cur \in Nat
      /\ open \in Seq(1..n)
  BY TopScope DEF ChildStep, Structure, TypeOK
<1>3. child \in Scope /\ child.cur >= scopes[Top].cur
  BY <1>2 DEF Scope
<1>4. scopes' = Append(scopes, child) /\ open' = Append(open, n + 1)
  BY <1>1 DEF CreateChild
<1> HIDE DEF child
<1>5. /\ scopes' \in Seq(Scope) /\ Len(scopes') = n + 1
      /\ \A i \in 1..n : scopes'[i] = scopes[i]
      /\ scopes'[n + 1] = child
  BY <1>2, <1>3, <1>4
<1>6. open \in Seq(1..(n + 1)) /\ n + 1 \in 1..(n + 1)
  BY <1>2
<1>7. /\ open' \in Seq(1..(n + 1)) /\ Len(open') = Len(open) + 1
      /\ \A i \in 1..Len(open) : open'[i] = open[i]
      /\ open'[Len(open) + 1] = n + 1
  BY <1>4, <1>6
<1>8. QED
  BY <1>3, <1>4, <1>5, <1>7

\* What reserving bytes does.
LEMMA GrowFacts ==
  ASSUME Structure, GrowStep
  PROVE  /\ phase = "body" /\ UNCHANGED <<phase, open, slots, stackSpaceUsed>>
         /\ scopes' \in Seq(Scope) /\ Len(scopes') = Len(scopes)
         /\ \A i \in 1..Len(scopes) :
              scopes'[i].cur = IF i = Top THEN scopes[Top].cur + 8 ELSE scopes[i].cur
<1>1. PICK newKind \in {"forCond", "forBody"} \union StatementScopes :
        \E kinds : Grow(kinds, newKind)
  BY DEF GrowStep, Conditional, ForCondition, ForIncrement
<1>2. phase = "body" /\ UNCHANGED <<phase, open, slots, stackSpaceUsed>>
  BY <1>1 DEF Grow, In
<1>3. Top \in 1..Len(scopes) /\ scopes[Top].cur \in Nat /\ scopes \in Seq(Scope)
  BY <1>2, TopScope DEF Structure, TypeOK
<1>4. scopes' = [scopes EXCEPT ![Top] = [kind |-> newKind, cur |-> scopes[Top].cur + 8]]
  BY <1>1, <1>3 DEF Grow
<1>5. [kind |-> newKind, cur |-> scopes[Top].cur + 8] \in Scope
  BY <1>3 DEF Scope, StatementScopes
<1>6. QED
  BY <1>2, <1>3, <1>4, <1>5

\* What closing a scope does.
LEMMA CloseFacts ==
  ASSUME Structure, CloseScope
  PROVE  /\ phase = "body" /\ UNCHANGED <<phase, scopes, slots, stackSpaceUsed>>
         /\ open' = SubSeq(open, 1, Len(open) - 1)
         /\ open' \in Seq(1..Len(scopes)) /\ Len(open') = Len(open) - 1 /\ Len(open') >= 2
         /\ \A i \in 1..Len(open') : i \in 1..Len(open) /\ open'[i] = open[i]
  BY DEF CloseScope, In, Structure, TypeOK

-----------------------------------------------------------------------------
(* The scope tree keeps its structure *)

\* Raising the offset of the innermost scope keeps the chain of offsets.
LEMMA RaiseTop ==
  ASSUME Structure, phase # "global", NEW offset \in Nat, offset >= scopes[Top].cur,
         \A i \in 1..Len(scopes) :
           scopes'[i].cur = IF i = Top THEN offset ELSE scopes[i].cur
  PROVE  /\ \A i, j \in 1..Len(open) :
              i < j => open[i] < open[j] /\ scopes'[open[i]].cur <= scopes'[open[j]].cur
         /\ \A i \in 1..Len(scopes) : scopes[i].cur <= scopes'[i].cur
<1>1. ASSUME NEW i \in 1..Len(scopes)
      PROVE  scopes[i].cur <= scopes'[i].cur
  BY ScopeCur, TopScope DEF Structure
<1>2. ASSUME NEW i \in 1..Len(open), NEW j \in 1..Len(open), i < j
      PROVE  open[i] < open[j] /\ scopes'[open[i]].cur <= scopes'[open[j]].cur
  <2>1. open[i] < open[j] /\ scopes[open[i]].cur <= scopes[open[j]].cur
    BY <1>2 DEF Structure, OffsetsNested
  <2>2. /\ open[i] \in 1..Len(scopes) /\ scopes[open[i]].cur \in Nat
        /\ open[j] \in 1..Len(scopes) /\ scopes[open[j]].cur \in Nat
    BY OpenScope DEF Structure
  <2>3. i < Len(open)
    BY <1>2, TopScope
  <2>4. open[i] < Top
    BY <2>3, TopScope
  <2>5. Top \in 1..Len(scopes)
    BY TopScope
  <2>6. scopes'[open[i]].cur = scopes[open[i]].cur
    BY <2>2, <2>4, <2>5
  <2>7. scopes[open[j]].cur <= scopes'[open[j]].cur
    BY <1>1, <2>2
  <2>8. scopes'[open[j]].cur \in Nat
    BY <2>2
  <2>9. QED
    BY <2>1, <2>2, <2>6, <2>7, <2>8
<1>3. QED
  BY <1>1, <1>2

\* Init establishes the structure.
LEMMA InitStructure == Init => Structure
  BY FS_EmptySet
     DEF Init, Structure, TypeOK, PhaseInv, OffsetsNested, OpenScopes, Scope, Slot

\* Declaring a variable keeps it.
LEMMA InsertStructure ==
  ASSUME Structure, AnyInsertStep
  PROVE  Structure'
<1>1. PICK name \in Names \union {TempName}, kind \in {"var", "array"}, t \in Types,
           size \in Nat \ {0}, extra \in Nat : InsertStep(name, kind, t, size, extra)
  BY DEF AnyInsertStep
<1> DEFINE end == SlotEnd(scopes[Top].cur, t) + extra
           new == [name |-> name, kind |-> kind, scope |-> Top, off |-> end,
                   size |-> size, bytes |-> t.bytes, unit |-> t.unit, id |-> Cardinality(slots) + 1]
<1>2. /\ end \in Nat /\ end >= scopes[Top].cur + t.bytes
      /\ new \in Slot
      /\ slots' = slots \union {new}
      /\ scopes' \in Seq(Scope) /\ Len(scopes') = Len(scopes)
      /\ \A i \in 1..Len(scopes) :
           scopes'[i].cur = IF i = Top THEN end ELSE scopes[i].cur
  BY <1>1, InsertFacts
<1>3. phase # "global" /\ UNCHANGED <<phase, open, stackSpaceUsed>>
  BY <1>1 DEF InsertStep
<1>4. Top \in 1..Len(scopes) /\ scopes[Top].cur \in Nat /\ t.bytes \in Nat
  BY <1>3, TopScope, TypesAssumption
<1> HIDE DEF end
<1>5. TypeOK'
  BY <1>2, <1>3 DEF Structure, TypeOK
<1>6. PhaseInv'
  BY <1>2, <1>3, FS_AddElement DEF Structure, PhaseInv
<1>7. OffsetsNested'
  <2>1. end >= scopes[Top].cur
    BY <1>2, <1>4
  <2>2. /\ \A i, j \in 1..Len(open) :
             i < j => open[i] < open[j] /\ scopes'[open[i]].cur <= scopes'[open[j]].cur
        /\ \A i \in 1..Len(scopes) : scopes[i].cur <= scopes'[i].cur
    BY <1>2, <1>3, <2>1, RaiseTop
  <2>3. ASSUME NEW s \in slots'
        PROVE  s.scope \in 1..Len(scopes') /\ s.off <= scopes'[s.scope].cur
    <3>1. CASE s = new
      BY <1>2, <1>4, <3>1
    <3>2. CASE s \in slots
      <4>1. s.scope \in 1..Len(scopes) /\ s.off <= scopes[s.scope].cur /\ s.off \in Int
        BY <3>2 DEF Structure, OffsetsNested, TypeOK, Slot
      <4>2. scopes[s.scope].cur \in Nat /\ scopes[s.scope].cur <= scopes'[s.scope].cur
        BY <2>2, <4>1, ScopeCur DEF Structure
      <4>3. scopes'[s.scope].cur \in Nat
        BY <1>2, <4>1, <4>2
      <4>4. QED
        BY <1>2, <4>1, <4>2, <4>3
    <3>3. QED
      BY <1>2, <2>3, <3>1, <3>2
  <2>4. QED
    BY <1>3, <2>2, <2>3 DEF OffsetsNested
<1>8. QED
  BY <1>5, <1>6, <1>7 DEF Structure

\* Opening a scope keeps it.
LEMMA ChildStructure ==
  ASSUME Structure, ChildStep
  PROVE  Structure'
<1> DEFINE n == Len(scopes)
<1>1. /\ phase # "global" /\ phase' = "body" /\ UNCHANGED <<slots, stackSpaceUsed>>
  BY DEF ChildStep
<1>2. /\ Len(open) \in Nat \ {0} /\ n \in Nat \ {0}
      /\ Top \in 1..n /\ scopes[Top].cur \in Nat
  BY <1>1, TopScope
<1>3. /\ scopes' \in Seq(Scope) /\ Len(scopes') = n + 1
      /\ \A i \in 1..n : scopes'[i] = scopes[i]
      /\ scopes'[n + 1].cur >= scopes[Top].cur
      /\ open' \in Seq(1..(n + 1)) /\ Len(open') = Len(open) + 1
      /\ \A i \in 1..Len(open) : open'[i] = open[i]
      /\ open'[Len(open) + 1] = n + 1
  BY ChildFacts
<1>4. TypeOK'
  <2>1. open' # << >>
    BY <1>2, <1>3
  <2>2. QED
    BY <1>1, <1>2, <1>3, <2>1 DEF Structure, TypeOK
<1>5. PhaseInv'
  BY <1>1, <1>2, <1>3 DEF Structure, PhaseInv
<1>6. ASSUME NEW i \in 1..Len(open'), NEW j \in 1..Len(open'), i < j
      PROVE  open'[i] < open'[j] /\ scopes'[open'[i]].cur <= scopes'[open'[j]].cur
  <2>1. i \in 1..Len(open)
    BY <1>2, <1>3, <1>6
  <2>2. open'[i] = open[i] /\ open[i] \in 1..n /\ scopes[open[i]].cur \in Nat
    BY <1>3, <2>1, OpenScope DEF Structure
  <2>3. scopes'[open'[i]] = scopes[open[i]]
    BY <1>3, <2>2
  <2>4. CASE j = Len(open) + 1
    <3>1. open'[j] = n + 1 /\ scopes'[open'[j]].cur >= scopes[Top].cur
      BY <1>3, <2>4
    <3>2. scopes[open[i]].cur <= scopes[Top].cur
      BY <1>1, <2>1, TopScope
    <3>3. scopes'[n + 1].cur \in Nat
      <4>1. scopes'[n + 1] \in Scope
        BY <1>2, <1>3
      <4>2. QED
        BY <4>1 DEF Scope
    <3>4. QED
      BY <1>2, <2>2, <2>3, <2>4, <1>3, <3>1, <3>2, <3>3
  <2>5. CASE j \in 1..Len(open)
    <3>1. open[i] < open[j] /\ scopes[open[i]].cur <= scopes[open[j]].cur
      BY <1>6, <2>1, <2>5 DEF Structure, OffsetsNested
    <3>2. open[j] \in 1..n
      BY <2>5, OpenScope DEF Structure
    <3>3. open'[j] = open[j] /\ scopes'[open[j]] = scopes[open[j]]
      BY <1>3, <2>5, <3>2
    <3>4. QED
      BY <2>2, <2>3, <3>1, <3>3
  <2>6. QED
    BY <1>2, <1>3, <2>4, <2>5
<1>7. \A s \in slots' :
        s.scope \in 1..Len(scopes') /\ s.off <= scopes'[s.scope].cur
  BY <1>1, <1>2, <1>3 DEF Structure, OffsetsNested
<1>8. QED
  BY <1>4, <1>5, <1>6, <1>7 DEF Structure, OffsetsNested

\* Reserving bytes keeps it.
LEMMA GrowStructure ==
  ASSUME Structure, GrowStep
  PROVE  Structure'
<1>1. /\ phase = "body" /\ UNCHANGED <<phase, open, slots, stackSpaceUsed>>
      /\ scopes' \in Seq(Scope) /\ Len(scopes') = Len(scopes)
      /\ \A i \in 1..Len(scopes) :
           scopes'[i].cur = IF i = Top THEN scopes[Top].cur + 8 ELSE scopes[i].cur
  BY GrowFacts
<1>2. scopes[Top].cur \in Nat
  BY <1>1, TopScope
<1>3. TypeOK' /\ PhaseInv'
  BY <1>1 DEF Structure, TypeOK, PhaseInv
<1>4. /\ \A i, j \in 1..Len(open) :
           i < j => open[i] < open[j] /\ scopes'[open[i]].cur <= scopes'[open[j]].cur
      /\ \A i \in 1..Len(scopes) : scopes[i].cur <= scopes'[i].cur
  <2> DEFINE offset == scopes[Top].cur + 8
  <2>1. offset \in Nat /\ offset >= scopes[Top].cur
    BY <1>2
  <2>2. \A i \in 1..Len(scopes) : scopes'[i].cur = IF i = Top THEN offset ELSE scopes[i].cur
    BY <1>1
  <2> HIDE DEF offset
  <2>3. QED
    BY <1>1, <2>1, <2>2, RaiseTop
<1>5. ASSUME NEW s \in slots
      PROVE  s.scope \in 1..Len(scopes') /\ s.off <= scopes'[s.scope].cur
  <2>1. s.scope \in 1..Len(scopes) /\ s.off <= scopes[s.scope].cur /\ s.off \in Int
    BY DEF Structure, OffsetsNested, TypeOK, Slot
  <2>2. scopes[s.scope].cur \in Nat /\ scopes'[s.scope].cur \in Nat
    BY <1>1, <1>2, <2>1, ScopeCur DEF Structure
  <2>3. QED
    BY <1>1, <1>4, <2>1, <2>2
<1>6. QED
  BY <1>1, <1>3, <1>4, <1>5 DEF Structure, OffsetsNested

\* Every step keeps it.
LEMMA NextStructure ==
  ASSUME Structure, [Next]_vars
  PROVE  Structure'
<1>1. CASE BeginFunc
  <2>1. scopes' = << [kind |-> "func", cur |-> 0] >> /\ open' = << 1 >> /\ slots' = {}
        /\ phase' = "params" /\ stackSpaceUsed' = 0
    BY <1>1 DEF BeginFunc
  <2>2. [kind |-> "func", cur |-> 0] \in Scope
    BY DEF Scope
  <2>3. TypeOK'
    BY <2>1, <2>2 DEF TypeOK
  <2>4. QED
    BY <2>1, <2>3, FS_EmptySet DEF Structure, PhaseInv, OffsetsNested
<1>2. CASE EndPrototype
  BY <1>2, FS_EmptySet DEF EndPrototype, Structure, TypeOK, PhaseInv, OffsetsNested
<1>3. CASE EndFunc
  <2>1. /\ phase' = "global" /\ open' = << >> /\ UNCHANGED <<scopes, slots>>
        /\ stackSpaceUsed' \in {scopes[s].cur : s \in DOMAIN scopes}
    BY <1>3 DEF EndFunc
  <2>2. stackSpaceUsed' \in Nat
    BY <2>1, ScopeCur DEF Structure, TypeOK
  <2>3. QED
    BY <2>1, <2>2 DEF Structure, TypeOK, PhaseInv, OffsetsNested
<1>4. CASE CloseScope
  <2>1. /\ phase = "body" /\ UNCHANGED <<phase, scopes, slots, stackSpaceUsed>>
        /\ open' \in Seq(1..Len(scopes)) /\ Len(open') = Len(open) - 1 /\ Len(open') >= 2
        /\ \A i \in 1..Len(open') : i \in 1..Len(open) /\ open'[i] = open[i]
    BY <1>4, CloseFacts
  <2>2. open' # << >>
    BY <2>1
  <2>3. TypeOK' /\ PhaseInv'
    BY <2>1, <2>2 DEF Structure, TypeOK, PhaseInv
  <2>4. OffsetsNested'
    BY <2>1 DEF Structure, OffsetsNested
  <2>5. QED
    BY <2>3, <2>4 DEF Structure
<1>5. CASE UNCHANGED vars
  BY <1>5 DEF vars, Structure, TypeOK, PhaseInv, OffsetsNested
<1>6. QED
  BY <1>1, <1>2, <1>3, <1>4, <1>5, StepKinds, InsertStructure, ChildStructure, GrowStructure

-----------------------------------------------------------------------------
(* Room: what needs small array elements *)

\* What the frame must hold, before and after its size is computed.
FrameInv ==
  /\ \A s \in slots : s.off - s.size >= 0
  /\ phase = "global" =>
       \A i \in 1..Len(scopes) : scopes[i].cur <= stackSpaceUsed

IInv == Structure /\ FrameInv /\ LiveSlotsDisjoint

\* A live variable ends at or above the offset of the innermost scope.
LEMMA LiveBelowTop ==
  ASSUME Structure, phase # "global", NEW s \in Live
  PROVE  s.off \in Int /\ s.off <= scopes[Top].cur
<1>1. PICK i \in 1..Len(open) : open[i] = s.scope
  BY DEF Live, OpenScopes
<1>2. s.off \in Int /\ s.off <= scopes[open[i]].cur
  BY <1>1 DEF Structure, OffsetsNested, TypeOK, Live, Slot
<1>3. /\ scopes[open[i]].cur <= scopes[Top].cur
      /\ scopes[open[i]].cur \in Nat /\ scopes[Top].cur \in Nat
  BY TopScope, OpenScope DEF Structure
<1>4. QED
  BY <1>2, <1>3

\* Opening a scope brings no variable to life.
LEMMA ChildLive ==
  ASSUME Structure, ChildStep
  PROVE  Live' = Live
<1>1. slots' = slots
  BY DEF ChildStep
<1>2. /\ Len(open') = Len(open) + 1 /\ Len(open) \in Nat
      /\ \A i \in 1..Len(open) : open'[i] = open[i]
      /\ open'[Len(open) + 1] = Len(scopes) + 1 /\ Len(scopes) \in Nat
  BY ChildFacts DEF Structure, TypeOK
<1>3. OpenScopes' = OpenScopes \union {Len(scopes) + 1}
  <2>1. ASSUME NEW i \in 1..Len(open')
        PROVE  open'[i] \in OpenScopes \union {Len(scopes) + 1}
    BY <1>2 DEF OpenScopes
  <2>2. ASSUME NEW i \in 1..Len(open)
        PROVE  open[i] \in OpenScopes'
    BY <1>2 DEF OpenScopes
  <2>3. Len(scopes) + 1 \in OpenScopes'
    BY <1>2 DEF OpenScopes
  <2>4. QED
    BY <2>1, <2>2, <2>3 DEF OpenScopes
<1>4. \A s \in slots : s.scope # Len(scopes) + 1
  BY <1>2 DEF Structure, OffsetsNested
<1>5. QED
  BY <1>1, <1>3, <1>4 DEF Live

\* Closing one brings none to life.
LEMMA CloseLive ==
  ASSUME Structure, CloseScope
  PROVE  Live' \subseteq Live
<1>1. /\ slots' = slots
      /\ \A i \in 1..Len(open') : i \in 1..Len(open) /\ open'[i] = open[i]
  BY CloseFacts
<1>2. QED
  BY <1>1 DEF Live, OpenScopes

\* Init establishes the invariant.
LEMMA InitIInv == Init => IInv
  BY InitStructure
     DEF Init, IInv, FrameInv, LiveSlotsDisjoint, Live, OpenScopes

\* A variable that is declared is apart from every live one, and above rbp.
LEMMA InsertRoom ==
  ASSUME SmallElements, IInv, AnyInsertStep
  PROVE  FrameInv' /\ LiveSlotsDisjoint'
<1>1. PICK name \in Names \union {TempName}, kind \in {"var", "array"}, t \in Types,
           size \in Nat \ {0}, extra \in Nat : InsertStep(name, kind, t, size, extra)
  BY DEF AnyInsertStep
<1> DEFINE end == SlotEnd(scopes[Top].cur, t) + extra
           new == [name |-> name, kind |-> kind, scope |-> Top, off |-> end,
                   size |-> size, bytes |-> t.bytes, unit |-> t.unit, id |-> Cardinality(slots) + 1]
<1>2. end \in Nat /\ slots' = slots \union {new}
  BY <1>1, InsertFacts DEF IInv
<1>3. phase # "global" /\ UNCHANGED <<phase, open>>
  BY <1>1 DEF InsertStep
<1>4. end >= scopes[Top].cur + size /\ scopes[Top].cur \in Nat
  BY <1>1, <1>3, TopScope DEF InsertStep, IInv
<1>5. new.off = end /\ new.size = size
  OBVIOUS
<1> HIDE DEF new, end
<1>6. FrameInv'
  BY <1>2, <1>3, <1>4, <1>5 DEF IInv, FrameInv
<1>7. ASSUME NEW s \in Live
      PROVE  Disjoint(s, new) /\ Disjoint(new, s)
  <2>1. s.off \in Int /\ s.off <= scopes[Top].cur
    BY <1>3, LiveBelowTop DEF IInv
  <2>2. s.off <= new.off - new.size
    BY <1>2, <1>4, <1>5, <2>1
  <2>3. QED
    BY <2>2 DEF Disjoint
<1>8. Live' \subseteq Live \union {new}
  BY <1>2, <1>3 DEF Live, OpenScopes
<1>9. LiveSlotsDisjoint'
  BY <1>7, <1>8 DEF IInv, LiveSlotsDisjoint, Disjoint
<1>10. QED
  BY <1>6, <1>9

\* Every step preserves the invariant.
LEMMA NextIInv ==
  ASSUME SmallElements, IInv, [Next]_vars
  PROVE  IInv'
<1>1. Structure /\ Structure'
  BY NextStructure DEF IInv
<1>2. CASE BeginFunc \/ EndPrototype
  BY <1>1, <1>2 DEF BeginFunc, EndPrototype, IInv, FrameInv, LiveSlotsDisjoint, Live
<1>3. CASE EndFunc
  <2>1. /\ phase' = "global" /\ open' = << >> /\ UNCHANGED <<scopes, slots>>
        /\ IsMaxStackSpace(stackSpaceUsed')
    BY <1>3 DEF EndFunc
  <2>2. FrameInv'
    BY <1>1, <2>1 DEF IInv, FrameInv, IsMaxStackSpace, Structure, TypeOK
  <2>3. Live' = {}
    BY <2>1 DEF Live, OpenScopes
  <2>4. QED
    BY <1>1, <2>2, <2>3 DEF IInv, LiveSlotsDisjoint
<1>4. CASE CloseScope
  <2>1. phase = "body" /\ UNCHANGED <<phase, scopes, slots, stackSpaceUsed>>
    BY <1>1, <1>4, CloseFacts
  <2>2. Live' \subseteq Live
    BY <1>1, <1>4, CloseLive
  <2>3. QED
    BY <1>1, <2>1, <2>2 DEF IInv, FrameInv, LiveSlotsDisjoint, Disjoint
<1>5. CASE AnyInsertStep
  BY <1>1, <1>5, InsertRoom DEF IInv
<1>6. CASE ChildStep
  <2>1. phase # "global" /\ phase' = "body" /\ slots' = slots
    BY <1>6 DEF ChildStep
  <2>2. Live' = Live
    BY <1>1, <1>6, ChildLive
  <2>3. QED
    BY <1>1, <2>1, <2>2 DEF IInv, FrameInv, LiveSlotsDisjoint, Disjoint
<1>7. CASE GrowStep
  <2>1. phase = "body" /\ UNCHANGED <<phase, open, slots, stackSpaceUsed>>
    BY <1>1, <1>7, GrowFacts
  <2>2. QED
    BY <1>1, <2>1 DEF IInv, FrameInv, LiveSlotsDisjoint, Live, OpenScopes, Disjoint
<1>8. CASE UNCHANGED vars
  BY <1>1, <1>8 DEF vars, IInv, FrameInv, LiveSlotsDisjoint, Live, OpenScopes, Disjoint
<1>9. QED
  BY <1>1, <1>2, <1>3, <1>4, <1>5, <1>6, <1>7, <1>8, StepKinds

-----------------------------------------------------------------------------
(* Alignment *)

\* A multiple of b leaves no remainder.
LEMMA MultipleRemainder ==
  ASSUME NEW k \in Nat, NEW b \in Nat \ {0}
  PROVE  (k * b) % b = 0
<1> DEFINE a == k * b
           q == a \div b
           r == a % b
<1>1. a \in Nat
  OBVIOUS
<1>2. q \in Nat /\ r \in 0..(b - 1) /\ a = (b * q) + r
  BY <1>1, Division
<1> HIDE DEF q, r
<1>3. b * (k - q) = r
  BY <1>2
<1>4. CASE k - q >= 1
  <2>1. b * (k - q) >= b
    BY <1>2, <1>4
  <2>2. QED
    BY <1>2, <1>3, <2>1
<1>5. CASE k - q <= -1
  <2>1. b * (k - q) <= -b
    BY <1>2, <1>5
  <2>2. QED
    BY <1>2, <1>3, <2>1
<1>6. CASE k - q = 0
  BY <1>2, <1>3, <1>6 DEF r
<1>7. QED
  BY <1>2, <1>4, <1>5, <1>6

\* Where a variable ends whose size is a multiple of its unit, with room for
\* n elements of 8 bytes in front of it, if the unit divides them.
LEMMA SlotEndAligned ==
  ASSUME NEW cur \in Nat, NEW t \in Types, NEW n \in Nat,
         t.bytes % t.unit = 0, n = 0 \/ 8 % t.unit = 0
  PROVE  (SlotEnd(cur, t) + 8 * n) % t.unit = 0
<1> DEFINE u == t.unit
           b == t.bytes
           k == (cur + u - 1) \div u + 1
           q == b \div u
           r == IF n = 0 THEN 0 ELSE 8 \div u
<1>1. u \in Nat \ {0} /\ b \in Nat \ {0}
  BY TypesAssumption
<1>2. k \in Nat
  <2> HIDE DEF u
  <2>1. cur + u - 1 \in Nat
    BY <1>1
  <2>2. (cur + u - 1) \div u \in Nat
    BY <1>1, <2>1, Division
  <2>3. QED
    BY <2>2
<1>3. SlotEnd(cur, t) = k * u + (b - u)
  BY DEF SlotEnd, Align
<1> HIDE DEF k
<1>4. q \in Nat \ {0} /\ b = u * q
  <2>1. q \in Nat /\ b % u = 0 /\ b = (u * q) + (b % u)
    BY <1>1, Division
  <2> HIDE DEF q, b, u
  <2>2. q # 0
    BY <1>1, <2>1
  <2>3. QED
    BY <1>1, <2>1, <2>2
<1>5. r \in Nat /\ 8 * n = u * r * n
  <2>1. CASE n = 0
    BY <1>1, <2>1
  <2>2. CASE n # 0
    <3>1. r \in Nat /\ 8 = u * r
      <4> DEFINE e == 8 \div u
      <4>1. e \in Nat /\ 8 % u = 0 /\ 8 = (u * e) + (8 % u)
        BY <1>1, <2>2, Division
      <4>2. r = e
        BY <2>2
      <4> HIDE DEF e, u, r
      <4> QED
        BY <1>1, <4>1, <4>2
    <3> HIDE DEF r, u
    <3> QED
      BY <3>1
  <2> QED
    BY <2>1, <2>2
<1> HIDE DEF q, r, u, b
<1>6. k + (q - 1) + r * n \in Nat
  BY <1>2, <1>4, <1>5
<1>7. (k + (q - 1) + r * n) * u = k * u + (b - u) + 8 * n
  BY <1>1, <1>2, <1>4, <1>5
<1>8. ((k + (q - 1) + r * n) * u) % u = 0
  BY <1>1, <1>6, MultipleRemainder
<1> QED
  BY <1>3, <1>7, <1>8 DEF u

\* Every step keeps variables aligned.
LEMMA NextAligned ==
  ASSUME Structure, VariablesAligned, [Next]_vars
  PROVE  VariablesAligned'
<1>1. CASE AnyInsertStep
  <2>1. PICK name \in Names \union {TempName}, kind \in {"var", "array"}, t \in Types,
             size \in Nat \ {0}, extra \in Nat : InsertStep(name, kind, t, size, extra)
    BY <1>1 DEF AnyInsertStep
  <2> DEFINE end == SlotEnd(scopes[Top].cur, t) + extra
             new == [name |-> name, kind |-> kind, scope |-> Top, off |-> end,
                     size |-> size, bytes |-> t.bytes, unit |-> t.unit, id |-> Cardinality(slots) + 1]
  <2>2. slots' = slots \union {new}
    BY <2>1, InsertFacts
  <2>3. ASSUME t.bytes % t.unit = 0, kind = "array" => 8 % t.unit = 0
        PROVE  end % t.unit = 0
    <3>1. phase # "global" /\ (kind = "var" => extra = 0)
      BY <2>1 DEF InsertStep
    <3>2. PICK n \in Nat : extra = 8 * n
      BY <2>1 DEF InsertStep
    <3>3. scopes[Top].cur \in Nat
      BY <3>1, TopScope
    <3>4. n = 0 \/ 8 % t.unit = 0
      BY <2>3, <3>1, <3>2
    <3>5. QED
      BY <2>3, <3>2, <3>3, <3>4, SlotEndAligned
  <2> HIDE DEF end
  <2>4. QED
    BY <2>2, <2>3 DEF VariablesAligned
<1>2. CASE BeginFunc \/ EndPrototype \/ EndFunc \/ UNCHANGED vars
  BY <1>2 DEF BeginFunc, EndPrototype, EndFunc, vars, VariablesAligned
<1>3. CASE CloseScope \/ ChildStep \/ GrowStep
  BY <1>3, CloseFacts, GrowFacts DEF ChildStep, VariablesAligned
<1>4. QED
  BY <1>1, <1>2, <1>3, StepKinds

-----------------------------------------------------------------------------
(* Theorems *)

(***************************************************************************)
(* The structure of the scope tree holds in every reachable state,         *)
(* whatever the array elements are.                                        *)
(***************************************************************************)
THEOREM StructureInvariance == Spec => []Structure
<1>1. Init => Structure
  BY InitStructure
<1>2. Structure /\ [Next]_vars => Structure'
  BY NextStructure
<1>3. QED
  BY <1>1, <1>2, PTL DEF Spec

(***************************************************************************)
(* parse_func and the functions below it keep every variable of the model  *)
(* in its type: no scope is entered that was not created, no offset is     *)
(* negative, and a body always has an innermost scope.                     *)
(***************************************************************************)
THEOREM Typing == Spec => []TypeOK
<1>1. Structure => TypeOK
  BY DEF Structure
<1>2. QED
  BY <1>1, StructureInvariance, PTL

(***************************************************************************)
(* Scope offsets nest: symbol_table_create_child hands a closed scope's    *)
(* bytes out again without touching a variable in scope.                   *)
(***************************************************************************)
THEOREM Nesting == Spec => []OffsetsNested
<1>1. Structure => OffsetsNested
  BY DEF Structure
<1>2. QED
  BY <1>1, StructureInvariance, PTL

(***************************************************************************)
(* insert_var aligns every variable whose size is a multiple of what it    *)
(* aligns by, and the arrays of elements that divide their 8 bytes,        *)
(* whatever the scopes around them have reserved.                          *)
(***************************************************************************)
THEOREM Alignment == Spec => []VariablesAligned
<1>1. Init => VariablesAligned
  BY DEF Init, VariablesAligned
<1>2. Structure /\ VariablesAligned /\ [Next]_vars => VariablesAligned'
  BY NextAligned
<1>3. QED
  BY <1>1, <1>2, StructureInvariance, PTL DEF Spec

(***************************************************************************)
(* The invariant holds in every reachable state when the elements of       *)
(* arrays have at most 8 bytes.                                            *)
(***************************************************************************)
THEOREM Invariance == ASSUME SmallElements PROVE Spec => []IInv
<1>1. Init => IInv
  BY InitIInv
<1>2. IInv /\ [Next]_vars => IInv'
  BY NextIInv
<1>3. QED
  BY <1>1, <1>2, PTL DEF Spec

(***************************************************************************)
(* No two variables in scope share a byte of the frame, for every set of   *)
(* types and every nesting, if array elements have at most 8 bytes.        *)
(***************************************************************************)
THEOREM SlotsDisjoint == ASSUME SmallElements PROVE Spec => []LiveSlotsDisjoint
<1>1. IInv => LiveSlotsDisjoint
  BY DEF IInv
<1>2. QED
  BY <1>1, Invariance, PTL

(***************************************************************************)
(* The bytes gen_asm_func reserves hold every variable of the function,    *)
(* and none of them reaches the saved rbp.                                 *)
(***************************************************************************)
THEOREM FrameSuffices == ASSUME SmallElements PROVE Spec => []FrameHoldsSlots
<1>1. IInv => FrameHoldsSlots
  <2> SUFFICES ASSUME IInv, NEW s \in slots, phase = "global"
               PROVE  s.off <= AlignedStackUsage(stackSpaceUsed)
    BY DEF FrameHoldsSlots, IInv, FrameInv
  <2>1. s.scope \in 1..Len(scopes) /\ s.off <= scopes[s.scope].cur /\ s.off \in Int
    BY DEF IInv, Structure, OffsetsNested, TypeOK, Slot
  <2>2. scopes[s.scope].cur \in Nat /\ scopes[s.scope].cur <= stackSpaceUsed
    BY <2>1, ScopeCur DEF IInv, Structure, FrameInv
  <2>3. stackSpaceUsed \in Nat /\ stackSpaceUsed <= AlignedStackUsage(stackSpaceUsed)
    BY AlignedUsageCovers DEF IInv, Structure, TypeOK
  <2>4. AlignedStackUsage(stackSpaceUsed) \in Int
    BY <2>3 DEF AlignedStackUsage
  <2>5. QED
    BY <2>1, <2>2, <2>3, <2>4
<1>2. QED
  BY <1>1, Invariance, PTL

-----------------------------------------------------------------------------
(***************************************************************************)
(* lookup_var_ptr follows C's scoping rules, whatever is declared in       *)
(* whatever nesting of scopes.                                             *)
(*                                                                         *)
(* The search goes by scopes and C's rule by the order of declarations.    *)
(* They agree because ids follow the nesting: a scope is closed before its *)
(* parent declares anything more.                                          *)
(***************************************************************************)

\* Of two live variables the one further in was declared later, and a scope
\* has one variable of a name.
LookupInv ==
  /\ \A s \in slots : s.id <= Cardinality(slots)
  /\ \A s, r \in Live : s.scope < r.scope => s.id < r.id
  /\ \A s, r \in slots :
       s.name \in Names /\ s.name = r.name /\ s.scope = r.scope => s = r

LEMMA InitLookupInv == Init => LookupInv
  BY DEF Init, LookupInv, Live

\* A declaration comes last, in the innermost scope, with a name that is new there.
LEMMA InsertLookupInv ==
  ASSUME Structure, LookupInv, AnyInsertStep
  PROVE  LookupInv'
<1>1. PICK name \in Names \union {TempName}, kind \in {"var", "array"}, t \in Types,
           size \in Nat \ {0}, extra \in Nat : InsertStep(name, kind, t, size, extra)
  BY DEF AnyInsertStep
<1> DEFINE end == SlotEnd(scopes[Top].cur, t) + extra
           last == Cardinality(slots)
           new == [name |-> name, kind |-> kind, scope |-> Top, off |-> end,
                   size |-> size, bytes |-> t.bytes, unit |-> t.unit, id |-> last + 1]
<1>2. last \in Nat /\ slots' = slots \union {new} /\ new \in Slot
  BY <1>1, InsertFacts
<1>3. new.id = last + 1 /\ new.scope = Top /\ new.name = name
  OBVIOUS
<1>4. phase # "global" /\ open' = open /\ (name \in Names => Undeclared(name))
  BY <1>1 DEF InsertStep
<1>5. new \notin slots
  BY <1>2, <1>3 DEF LookupInv
<1>6. Cardinality(slots') = last + 1
  BY <1>2, <1>5, FS_AddElement DEF Structure, PhaseInv
<1>7. \A s \in slots : s \in Slot /\ s.id \in Nat /\ s.id <= last
  BY DEF Structure, TypeOK, Slot, LookupInv
<1> HIDE DEF new, last
<1>8. \A s \in slots' : s.id <= Cardinality(slots')
  BY <1>2, <1>3, <1>6, <1>7
<1>9. ASSUME NEW s \in Live', NEW r \in Live', s.scope < r.scope
      PROVE  s.id < r.id
  <2>1. \A v \in Live : v.scope <= Top /\ v \in slots
    <3>1. SUFFICES ASSUME NEW v \in Live PROVE v.scope <= Top
      BY DEF Live
    <3>2. PICK i \in 1..Len(open) : open[i] = v.scope
      BY DEF Live, OpenScopes
    <3>3. i < Len(open) => open[i] < Top
      BY <1>4, TopScope
    <3>4. Top = open[Len(open)] /\ Top \in Nat /\ Len(open) \in Nat
      BY <1>4, TopScope
    <3>5. open[i] \in Nat
      BY OpenScope DEF Structure
    <3>6. QED
      BY <3>2, <3>3, <3>4, <3>5
  <2>2. Live' \subseteq Live \union {new}
    BY <1>2, <1>4 DEF Live, OpenScopes
  <2>3. Top \in Nat
    BY <1>4, TopScope
  <2>4. CASE s \in Live /\ r \in Live
    BY <1>9, <2>4 DEF LookupInv
  <2>5. CASE s \in Live /\ r = new
    BY <1>2, <1>3, <1>7, <2>1, <2>5
  <2>6. CASE s = new
    <3>1. r.scope > Top
      BY <1>3, <1>9, <2>6
    <3>2. r \in Live
      BY <1>3, <2>2, <2>3, <3>1
    <3>3. r.scope <= Top /\ r.scope \in Nat
      BY <2>1, <3>2, <1>7 DEF Slot
    <3>4. QED
      BY <2>3, <3>1, <3>3
  <2>7. QED
    BY <2>2, <2>4, <2>5, <2>6
<1>10. ASSUME NEW s \in slots', NEW r \in slots',
              s.name \in Names, s.name = r.name, s.scope = r.scope
       PROVE  s = r
  BY <1>2, <1>3, <1>4, <1>10 DEF LookupInv, Undeclared
<1>11. QED
  BY <1>8, <1>9, <1>10 DEF LookupInv

\* Every step keeps ids in the order of the scopes.
LEMMA NextLookupInv ==
  ASSUME Structure, LookupInv, [Next]_vars
  PROVE  LookupInv'
<1>1. CASE BeginFunc \/ EndPrototype
  BY <1>1 DEF BeginFunc, EndPrototype, LookupInv, Live
<1>2. CASE EndFunc
  BY <1>2 DEF EndFunc, LookupInv, Live, OpenScopes
<1>3. CASE CloseScope
  <2>1. slots' = slots /\ Live' \subseteq Live
    BY <1>3, CloseFacts, CloseLive
  <2>2. QED
    BY <2>1 DEF LookupInv
<1>4. CASE AnyInsertStep
  BY <1>4, InsertLookupInv
<1>5. CASE ChildStep
  <2>1. slots' = slots /\ Live' = Live
    BY <1>5, ChildLive DEF ChildStep
  <2>2. QED
    BY <2>1 DEF LookupInv
<1>6. CASE GrowStep
  <2>1. UNCHANGED <<slots, open>>
    BY <1>6, GrowFacts
  <2>2. QED
    BY <2>1 DEF LookupInv, Live, OpenScopes
<1>7. CASE UNCHANGED vars
  BY <1>7 DEF vars, LookupInv, Live, OpenScopes
<1>8. QED
  BY <1>1, <1>2, <1>3, <1>4, <1>5, <1>6, <1>7, StepKinds

\* The search finds a variable of the name in the innermost scope that has one.
LEMMA LookupFinds ==
  ASSUME Structure, LookupInv, NEW name \in Names, NEW r \in Live, r.name = name
  PROVE  LookupVar(name).id >= r.id
<1> DEFINE declaring == {i \in 1..Len(open) : \E s \in slots : s.scope = open[i] /\ s.name = name}
           i == CHOOSE i \in declaring : \A j \in declaring : j <= i
           found == {s \in slots : s.scope = open[i] /\ s.name = name}
           x == CHOOSE s \in found : \A q \in found : s.id <= q.id
<1>1. PICK k \in 1..Len(open) : open[k] = r.scope
  BY DEF Live, OpenScopes
<1>2. k \in declaring /\ r \in slots
  BY <1>1 DEF Live
<1>3. \E n \in declaring : \A j \in declaring : j <= n
  <2>1. Len(open) \in Nat /\ declaring \subseteq 0..Len(open) /\ declaring # {}
    BY <1>2 DEF Structure, TypeOK
  <2> HIDE DEF declaring
  <2>2. QED
    BY <2>1, GreatestNumber
<1>4. i \in declaring /\ \A j \in declaring : j <= i
  BY <1>3
<1>5. PICK s \in found : TRUE
  BY <1>4
<1>6. found = {s}
  BY <1>5 DEF LookupInv
<1>7. s.id \in Int /\ r.id \in Int
  <2>1. s \in slots /\ r \in slots /\ slots \subseteq Slot
    BY <1>2, <1>5 DEF Structure, TypeOK
  <2>2. \A v \in Slot : v.id \in Int
    BY DEF Slot
  <2>3. QED
    BY <2>1, <2>2
<1>8. x = s
  <2> HIDE DEF found
  <2>1. \A q \in found : s.id <= q.id
    BY <1>6, <1>7
  <2>2. QED
    BY <1>6, <2>1
<1>9. LookupVar(name) = x
  BY DEF LookupVar
<1>10. s.id >= r.id
  <2>1. CASE k = i
    <3>1. s.scope = r.scope /\ s.name = r.name
      BY <1>1, <1>5, <2>1
    <3>2. QED
      BY <1>2, <1>5, <1>7, <3>1 DEF LookupInv
  <2>2. CASE k < i
    <3>1. r.scope < s.scope
      BY <1>1, <1>4, <1>5, <2>2 DEF Structure, OffsetsNested
    <3>2. s \in Live
      BY <1>4, <1>5 DEF Live, OpenScopes
    <3>3. QED
      BY <1>7, <3>1, <3>2 DEF LookupInv
  <2>3. QED
    BY <1>2, <1>4, <2>1, <2>2
<1>11. QED
  BY <1>8, <1>9, <1>10

(***************************************************************************)
(* lookup_var_ptr finds, of the live variables with a name, the one        *)
(* declared last, for every set of names and types and every nesting.      *)
(***************************************************************************)
THEOREM LookupCorrect == Spec => []LookupIsInnermost
<1>1. Init => Structure /\ LookupInv
  BY InitStructure, InitLookupInv
<1>2. Structure /\ LookupInv /\ [Next]_vars => (Structure /\ LookupInv)'
  BY NextStructure, NextLookupInv
<1>3. Structure /\ LookupInv => LookupIsInnermost
  BY LookupFinds DEF LookupIsInnermost
<1>4. QED
  BY <1>1, <1>2, <1>3, PTL DEF Spec

-----------------------------------------------------------------------------
(***************************************************************************)
(* SymbolTable implements BlockStorage when the elements of arrays have at *)
(* most 8 bytes: each step of the parser enters a block, creates an        *)
(* object, leaves one or all blocks, or moves nothing.                     *)
(***************************************************************************)

VarsOf(scope) == {s \in slots : s.scope = scope}

\* The refinement mapping: the stack of blocks.
Blocks == [i \in 1..Len(open) |-> VarsOf(open[i])]

\* It is a sequence, with one block for each open scope.
LEMMA BlocksSeq ==
  ASSUME open \in Seq(Nat)
  PROVE  /\ Blocks \in Seq(SUBSET slots) /\ Len(Blocks) = Len(open)
         /\ \A i \in 1..Len(open) : Blocks[i] = VarsOf(open[i])
  BY DEF Blocks, VarsOf

\* The objects alive are the variables in scope.
LEMMA AliveIsLive ==
  ASSUME Structure
  PROVE  Storage!Alive = Live
<1>1. open \in Seq(Nat) /\ Len(open) \in Nat
  BY DEF Structure, TypeOK
<1>2. /\ Len(Blocks) = Len(open)
      /\ \A i \in 1..Len(open) : Blocks[i] = VarsOf(open[i])
  BY <1>1, BlocksSeq
<1>3. Storage!Alive = UNION {Blocks[i] : i \in 1..Len(Blocks)}
  BY DEF Storage!Alive, Blocks, VarsOf
<1>4. QED
  BY <1>2, <1>3 DEF VarsOf, Live, OpenScopes

LEMMA InitBlocks == Init => Storage!Init
<1>1. ASSUME Init PROVE Blocks = << >>
  BY <1>1 DEF Init, Blocks
<1>2. QED
  BY <1>1 DEF Blocks, VarsOf, Storage!Init

\* Opening a scope enters a block that has no objects.
LEMMA ChildEntersBlock ==
  ASSUME Structure, Structure', ChildStep
  PROVE  Storage!EnterBlock
<1>1. /\ Len(open') = Len(open) + 1 /\ Len(open) \in Nat /\ Len(scopes) \in Nat
      /\ \A i \in 1..Len(open) : open'[i] = open[i]
      /\ open'[Len(open) + 1] = Len(scopes) + 1
      /\ slots' = slots
  BY ChildFacts DEF Structure, TypeOK, ChildStep
<1>2. VarsOf(Len(scopes) + 1) = {}
  BY <1>1 DEF Structure, OffsetsNested, VarsOf
<1>3. open \in Seq(Nat) /\ open' \in Seq(Nat)
  BY DEF Structure, TypeOK
<1>4. Blocks \in Seq(SUBSET slots) /\ Len(Blocks) = Len(open)
      /\ \A i \in 1..Len(open) : Blocks[i] = VarsOf(open[i])
  BY <1>3, BlocksSeq
<1>5. Blocks' = [i \in 1..(Len(open) + 1) |-> IF i <= Len(open) THEN Blocks[i] ELSE {}]
  BY <1>1, <1>2, <1>4 DEF Blocks, VarsOf
<1>6. Blocks' = Append(Blocks, {})
  <2> DEFINE B == Blocks
             C == Blocks'
  <2>1. B \in Seq(SUBSET slots) /\ Len(B) = Len(open) /\ Len(open) \in Nat
        /\ C = [i \in 1..(Len(open) + 1) |-> IF i <= Len(open) THEN B[i] ELSE {}]
    BY <1>1, <1>4, <1>5
  <2> HIDE DEF B, C
  <2>2. C \in Seq(SUBSET slots) /\ Len(C) = Len(open) + 1
    BY <2>1
  <2>3. Append(B, {}) \in Seq(SUBSET slots) /\ Len(Append(B, {})) = Len(open) + 1
        /\ \A i \in 1..(Len(open) + 1) : Append(B, {})[i] = IF i <= Len(open) THEN B[i] ELSE {}
    BY <2>1
  <2>4. C = Append(B, {})
    BY <2>1, <2>2, <2>3, SeqEqual
  <2>5. QED
    BY <2>4 DEF B, C
<1>7. QED
  BY <1>6 DEF Blocks, VarsOf, Storage!EnterBlock

\* Beginning a function enters its block.
LEMMA BeginEntersBlock ==
  ASSUME Structure, BeginFunc
  PROVE  Storage!EnterBlock
<1>1. open = << >> /\ open' = <<1>> /\ slots' = {}
  BY DEF BeginFunc, Structure, PhaseInv
<1>2. Blocks = << >>
  BY <1>1 DEF Blocks
<1>3. Blocks' = << {} >>
  BY <1>1 DEF Blocks, VarsOf
<1>4. Blocks' = Append(Blocks, {})
  BY <1>2, <1>3
<1>5. QED
  BY <1>4 DEF Blocks, VarsOf, Storage!EnterBlock

\* Declaring a variable creates an object in the innermost block.
LEMMA InsertCreates ==
  ASSUME SmallElements, IInv, IInv', AnyInsertStep
  PROVE  Storage!Create
<1>1. PICK name \in Names \union {TempName}, kind \in {"var", "array"}, t \in Types,
           size \in Nat \ {0}, extra \in Nat : InsertStep(name, kind, t, size, extra)
  BY DEF AnyInsertStep
<1> DEFINE end == SlotEnd(scopes[Top].cur, t) + extra
           new == [name |-> name, kind |-> kind, scope |-> Top, off |-> end,
                   size |-> size, bytes |-> t.bytes, unit |-> t.unit, id |-> Cardinality(slots) + 1]
           top == Len(open)
<1>2. slots' = slots \union {new} /\ new.scope = Top /\ end \in Nat
  BY <1>1, InsertFacts DEF IInv
<1>3. phase # "global" /\ open' = open
  BY <1>1 DEF InsertStep
<1>4. /\ top \in Nat \ {0} /\ Top = open[top] /\ Top \in Nat
      /\ \A i \in 1..top : i < top => open[i] < Top
      /\ open \in Seq(Nat)
  BY <1>3, TopScope DEF IInv, Structure, TypeOK
<1>5. Blocks \in Seq(SUBSET slots) /\ Len(Blocks) = top
      /\ \A i \in 1..top : Blocks[i] = VarsOf(open[i])
  BY <1>4, BlocksSeq
<1>6. \A p \in Live : new.off <= p.off - p.size \/ p.off <= new.off - new.size
  <2>1. SUFFICES ASSUME NEW p \in Live PROVE p.off <= new.off - new.size
    OBVIOUS
  <2>2. p.off \in Int /\ p.off <= scopes[Top].cur
    BY <1>3, LiveBelowTop DEF IInv
  <2>3. end >= scopes[Top].cur + size /\ scopes[Top].cur \in Nat
    BY <1>1, <1>3, TopScope DEF InsertStep, IInv
  <2>4. new.off = end /\ new.size = size
    OBVIOUS
  <2> HIDE DEF new, end
  <2>5. QED
    BY <1>2, <2>2, <2>3, <2>4
<1> HIDE DEF new, end
<1>7. Blocks' = [Blocks EXCEPT ![top] = Blocks[top] \union {new}]
  <2>1. Blocks' = [i \in 1..top |-> {s \in slots \union {new} : s.scope = open[i]}]
    BY <1>2, <1>3 DEF Blocks, VarsOf
  <2>2. ASSUME NEW i \in 1..top
        PROVE  {s \in slots \union {new} : s.scope = open[i]}
               = IF i = top THEN Blocks[top] \union {new} ELSE Blocks[i]
    <3>1. open[i] = Top <=> i = top
      BY <1>4
    <3>2. QED
      BY <1>2, <1>5, <3>1 DEF VarsOf
  <2>3. Blocks = [i \in 1..top |-> Blocks[i]]
    BY DEF Blocks
  <2>4. QED
    BY <1>4, <2>1, <2>2, <2>3
<1>8. Len(Blocks') = top /\ new \in Blocks'[top] /\ Blocks # << >>
  BY <1>4, <1>5, <1>7
<1>9. \A p \in Storage!Alive : Storage!Apart(new, p)
  BY <1>6, AliveIsLive DEF IInv, Storage!Apart
<1>10. QED
  BY <1>5, <1>7, <1>8, <1>9 DEF Blocks, VarsOf, Storage!Create

\* Closing a scope leaves exactly its block.
LEMMA CloseLeavesBlock ==
  ASSUME Structure, CloseScope
  PROVE  Storage!LeaveBlock
<1>1. /\ slots' = slots /\ Len(open') = Len(open) - 1 /\ Len(open') >= 2
      /\ \A i \in 1..Len(open') : open'[i] = open[i]
      /\ open \in Seq(Nat) /\ Len(open) \in Nat
  BY CloseFacts DEF Structure, TypeOK
<1>2. Blocks \in Seq(SUBSET slots) /\ Len(Blocks) = Len(open)
      /\ \A i \in 1..Len(open) : Blocks[i] = VarsOf(open[i])
  BY <1>1, BlocksSeq
<1>3. Blocks' = [i \in 1..(Len(open) - 1) |-> Blocks[i]]
  BY <1>1, <1>2 DEF Blocks, VarsOf
<1>4. Blocks' = SubSeq(Blocks, 1, Len(Blocks) - 1)
  BY <1>1, <1>2, <1>3
<1>5. Blocks # << >>
  BY <1>1, <1>2
<1>6. QED
  BY <1>4, <1>5 DEF Blocks, VarsOf, Storage!LeaveBlock

\* The end of a function or prototype leaves every block.
LEMMA EndReturns ==
  ASSUME EndFunc \/ EndPrototype
  PROVE  Storage!Return
<1>1. open' = << >>
  BY DEF EndFunc, EndPrototype
<1>2. Blocks' = << >>
  BY <1>1 DEF Blocks
<1>3. QED
  BY <1>2 DEF Blocks, VarsOf, Storage!Return

\* Every step is a step of BlockStorage or leaves the blocks as they are.
LEMMA NextBlocks ==
  ASSUME SmallElements, IInv, IInv', [Next]_vars
  PROVE  [Storage!Next]_Blocks
<1>1. Structure /\ Structure'
  BY DEF IInv
<1>2. CASE BeginFunc \/ ChildStep
  BY <1>1, <1>2, BeginEntersBlock, ChildEntersBlock DEF Storage!Next
<1>3. CASE EndFunc \/ EndPrototype
  BY <1>3, EndReturns DEF Storage!Next
<1>4. CASE CloseScope
  BY <1>1, <1>4, CloseLeavesBlock DEF Storage!Next
<1>5. CASE AnyInsertStep
  BY <1>5, InsertCreates DEF Storage!Next
<1>6. CASE GrowStep \/ UNCHANGED vars
  <2>1. UNCHANGED <<open, slots>>
    BY <1>1, <1>6, GrowFacts DEF vars
  <2>2. Blocks' = Blocks
    BY <2>1 DEF Blocks, VarsOf
  <2>3. QED
    BY <2>2
<1>7. QED
  BY <1>1, <1>2, <1>3, <1>4, <1>5, <1>6, StepKinds

(***************************************************************************)
(* The scope tree implements block-structured storage, for every set of    *)
(* types, every nesting and every sequence of functions, if array elements *)
(* have at most 8 bytes: a declaration creates an object that is apart     *)
(* from all alive, and no object moves or disappears before its block is   *)
(* left.                                                                   *)
(***************************************************************************)
THEOREM Refinement == ASSUME SmallElements PROVE Spec => ImplementsBlockStorage
<1>1. Init => Storage!Init
  BY InitBlocks
<1>2. IInv /\ IInv' /\ [Next]_vars => [Storage!Next]_Blocks
  BY NextBlocks
<1>3. QED
  BY <1>1, <1>2, Invariance, PTL DEF Spec, ImplementsBlockStorage, Storage!Spec, Blocks, VarsOf

=============================================================================

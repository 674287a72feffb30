----------------------------- MODULE Calls_proofs -----------------------------
(***************************************************************************)
(* Proofs about Calls: caller and callee agree on where every argument is, *)
(* for any number of parameters of each class and of registers, and the    *)
(* caller's stack is as it was when the call has returned.                 *)
(*                                                                         *)
(* Both sides count: the caller from the last argument down, the callee    *)
(* from the first parameter up, each for itself.  The first part shows     *)
(* that all of these counts are ranks among the arguments of one class;    *)
(* the second follows the stack from phase to phase.                       *)
(***************************************************************************)
EXTENDS Calls, Induction, SequenceTheorems

\* A call that the code gets right.
Good == sig \in Signatures /\ Plain(sig)

Floats == {i \in 1..Given : IsFloat(AbiClass(i))}
Ints == {i \in 1..Given : ~IsFloat(AbiClass(i))}

\* The arguments that are passed in registers, and the others.
FloatsIn == First(Floats, FloatRegs)
IntsIn == First(Ints, IntRegs)
Spilled == {i \in 1..Given : ~InRegister(i)}

-----------------------------------------------------------------------------
(* Ranks *)

\* The smaller of two numbers.
LEMMA LeastIs ==
  ASSUME NEW a \in Int, NEW b \in Int
  PROVE  Least(a, b) = IF a <= b THEN a ELSE b
<1> DEFINE x == IF a <= b THEN a ELSE b
<1>1. x \in {a, b} /\ \A y \in {a, b} : x <= y
  OBVIOUS
<1>2. \A z \in {a, b} : (\A y \in {a, b} : z <= y) => z = x
  OBVIOUS
<1> QED
  BY <1>1, <1>2 DEF Least, Min

\* The larger of two numbers.
LEMMA GreatestIs ==
  ASSUME NEW a \in Int, NEW b \in Int
  PROVE  Greatest(a, b) = IF a >= b THEN a ELSE b
<1> DEFINE x == IF a >= b THEN a ELSE b
<1>1. x \in {a, b} /\ \A y \in {a, b} : x >= y
  OBVIOUS
<1>2. \A z \in {a, b} : (\A y \in {a, b} : z >= y) => z = x
  OBVIOUS
<1> QED
  BY <1>1, <1>2 DEF Greatest, Max

\* There are registers of both classes, and a frame.
LEMMA RegsType == /\ IntRegs \in Nat /\ IntRegs >= 1
                  /\ FloatRegs \in Nat /\ FloatRegs >= 1
                  /\ FrameWords \in Nat /\ FrameWords >= 1
BY CallsAssumption

\* A signature that the code gets right has classes for all arguments and parameters.
LEMMA SigFacts ==
  ASSUME Good
  PROVE  /\ Given \in Nat /\ Fixed \in Nat /\ Fixed <= Given
         /\ \A i \in 1..Fixed : sig.params[i] \in Classes /\ AbiClass(i) = sig.params[i]
         /\ \A i \in 1..Given : AbiClass(i) \in Classes
         /\ sig.variadic \in BOOLEAN /\ sig.odd \in BOOLEAN /\ sig.ret \in Classes
         /\ ~sig.variadic => Given = Fixed
         /\ sig.variadic => Fixed <= IntRegs
<1>1. /\ sig.params \in Seq(Classes) /\ sig.args \in Seq(Classes) /\ sig.ret \in Classes
      /\ {sig.variadic, sig.odd} \subseteq BOOLEAN
      /\ IF sig.variadic THEN sig.params # << >> /\ Len(sig.params) <= Len(sig.args)
         ELSE Len(sig.params) = Len(sig.args)
  BY CallsAssumption DEF Good, IsSignature
<1>2. Given \in Nat /\ Fixed \in Nat /\ Fixed <= Given
  BY <1>1 DEF Given, Fixed
<1>3. ASSUME NEW i \in 1..Fixed
      PROVE  sig.params[i] \in Classes /\ AbiClass(i) = sig.params[i]
  <2>1. i <= Fixed
    BY <1>2
  <2>2. sig.params[i] \in Classes
    BY <1>1 DEF Fixed
  <2> QED
    BY <2>1, <2>2 DEF AbiClass
<1>4. ASSUME NEW i \in 1..Given
      PROVE  AbiClass(i) \in Classes
  <2>1. CASE i <= Fixed
    BY <1>2, <1>3, <2>1
  <2>2. CASE ~(i <= Fixed)
    <3>1. sig.args[i] \in Classes
      BY <1>1 DEF Given
    <3> QED
      BY <2>2, <3>1 DEF AbiClass, Classes
  <2> QED
    BY <2>1, <2>2
<1>5. sig.variadic => Fixed <= IntRegs
  BY DEF Good, Plain, Fixed
<1>6. ~sig.variadic => Given = Fixed
  BY <1>1 DEF Given, Fixed
<1> QED
  BY <1>1, <1>2, <1>3, <1>4, <1>5, <1>6

\* The type the caller casts an argument to is the one the convention asks for.
LEMMA ArgTypeIsAbi ==
  ASSUME Good, NEW i \in 1..Given
  PROVE  ArgType(i) = AbiClass(i) /\ IsFloat(CountedType(i)) = IsFloat(AbiClass(i))
<1>1. Given \in Nat /\ Fixed \in Nat /\ Fixed <= Given
  BY SigFacts
<1>2. CASE i > Fixed
  BY <1>1, <1>2 DEF ArgType, AbiClass, PromoteType, CountedType, IsFloat
<1>3. CASE i <= Fixed
  <2>1. ParamAt(i) = sig.params[i]
    <3>1. i \in 1..Fixed /\ Fixed - (Given - i) \in Int
      BY <1>1, <1>3
    <3>2. CASE Given = Fixed
      <4>1. Fixed - (Given - i) = i
        BY <1>1, <3>2
      <4>2. Greatest(i, 1) = i
        BY <3>1, GreatestIs
      <4> QED
        BY <4>1, <4>2 DEF ParamAt
    <3>3. CASE Given > Fixed
      <4>1. \A k \in 1..Fixed : sig.params[k] = sig.params[1]
        <5>1. Len(sig.args) > Len(sig.params)
          BY <3>3 DEF Given, Fixed
        <5>2. DOMAIN sig.params = 1..Fixed
          BY CallsAssumption DEF Good, IsSignature, Fixed
        <5> QED
          BY <5>1, <5>2 DEF Good, Plain
      <4>2. Greatest(Fixed - (Given - i), 1) \in 1..Fixed
        BY <1>1, <3>1, <3>3, GreatestIs
      <4> QED
        BY <3>1, <4>1, <4>2 DEF ParamAt
    <3> QED
      BY <1>1, <3>2, <3>3
  <2> QED
    BY <1>1, <1>3, <2>1 DEF ArgType, AbiClass, CountedType
<1> QED
  BY <1>1, <1>2, <1>3

\* Up to each argument there are as many integers and floats as arguments.
LEMMA IntsOrFloats ==
  ASSUME Good, NEW n \in 0..Given
  PROVE  /\ CountTo(Floats, n) \in Nat /\ CountTo(Ints, n) \in Nat
         /\ CountTo(Floats, n) + CountTo(Ints, n) = n
         /\ Floats \intersect Ints = {} /\ Floats \union Ints = 1..Given
<1>1. Floats \intersect Ints = {} /\ Floats \union Ints = 1..Given
  BY DEF Floats, Ints
<1>2. n \in Nat /\ 1..n \subseteq 1..Given
  BY SigFacts
<1>3. CountTo(1..Given, n) = n
  BY <1>2, CountAll
<1>4. CountTo(1..Given, n) = CountTo(Floats, n) + CountTo(Ints, n)
  <2> DEFINE all == 1..Given
  <2> HIDE DEF all
  <2>1. Floats \intersect Ints = {} /\ Floats \union Ints = all
    BY <1>1 DEF all
  <2>2. \A k \in Nat : CountTo(all, k) = CountTo(Floats, k) + CountTo(Ints, k)
    BY <2>1, CountSplit
  <2> QED
    BY <1>2, <2>2 DEF all
<1>5. CountTo(Floats, n) \in Nat /\ CountTo(Ints, n) \in Nat
  BY <1>2, CountNat
<1> QED
  BY <1>1, <1>3, <1>4, <1>5

\* The place of an argument among those of its class.
LEMMA RankIs ==
  ASSUME Good, NEW i \in 1..Given
  PROVE  /\ Rank(i) = IF i \in Floats THEN CountTo(Floats, i) ELSE CountTo(Ints, i)
         /\ Rank(i) \in Nat
         /\ InRegister(i) <=> i \in FloatsIn \union IntsIn
         /\ i \in Floats => i \notin Ints
<1>1. i \in 1..Given /\ i \in Nat /\ 1..i \subseteq 1..Given
  BY SigFacts
<1>2. CASE IsFloat(AbiClass(i))
  <2>1. {j \in 1..i : IsFloat(AbiClass(j)) = IsFloat(AbiClass(i))} = UpTo(Floats, i)
    BY <1>1, <1>2 DEF UpTo, Floats, IsFloat
  <2>2. Rank(i) = CountTo(Floats, i) /\ i \in Floats /\ i \notin Ints
    BY <1>2, <2>1 DEF Rank, CountTo, Floats, Ints
  <2> QED
    BY <1>1, <1>2, <2>2, CountNat DEF InRegister, FloatsIn, IntsIn, First
<1>3. CASE ~IsFloat(AbiClass(i))
  <2>1. {j \in 1..i : IsFloat(AbiClass(j)) = IsFloat(AbiClass(i))} = UpTo(Ints, i)
    BY <1>1, <1>3 DEF UpTo, Ints, IsFloat
  <2>2. Rank(i) = CountTo(Ints, i) /\ i \notin Floats /\ i \in Ints
    BY <1>3, <2>1 DEF Rank, CountTo, Floats, Ints
  <2> QED
    BY <1>1, <1>3, <2>2, CountNat DEF InRegister, FloatsIn, IntsIn, First
<1> QED
  BY <1>2, <1>3

\* The first loop of gen_asm_func_call counts the arguments of each class.
LEMMA CountsAre ==
  ASSUME Good
  PROVE  FloatArgCount = CountTo(Floats, Given) /\ IntArgCount = CountTo(Ints, Given)
<1>1. {i \in 1..Given : IsFloat(CountedType(i))} = UpTo(Floats, Given)
  BY ArgTypeIsAbi DEF UpTo, Floats
<1>2. FloatArgCount = CountTo(Floats, Given)
  BY <1>1 DEF FloatArgCount, CountTo
<1>3. Given \in 0..Given
  BY SigFacts
<1> QED
  BY <1>2, <1>3, IntsOrFloats DEF IntArgCount

\* Counting from the last argument down gives the rank from the first one up.
LEMMA AfterIs ==
  ASSUME Good, NEW i \in 1..Given
  PROVE  /\ FloatsAfter(i) = CountTo(Floats, Given) - CountTo(Floats, i)
         /\ IntsAfter(i) = CountTo(Ints, Given) - CountTo(Ints, i)
<1> DEFINE low == {j \in Floats : j <= i}
<1> DEFINE high == {j \in Floats : j > i}
<1>1. Given \in Nat /\ i \in 0..Given /\ Given \in 0..Given
  BY SigFacts
<1>2. low \intersect high = {} /\ low \union high = Floats
  BY <1>1 DEF Floats
<1>3. UpTo(low, Given) = UpTo(Floats, i)
  BY <1>1 DEF UpTo, Floats
<1>4. {j \in (i + 1)..Given : IsFloat(ArgType(j))} = UpTo(high, Given)
  <2>1. \A j \in 1..Given : IsFloat(ArgType(j)) <=> j \in Floats
    BY ArgTypeIsAbi DEF Floats
  <2>2. \A j : j \in (i + 1)..Given <=> j \in 1..Given /\ j > i
    BY <1>1
  <2> QED
    BY <2>1, <2>2 DEF UpTo
<1> HIDE DEF low, high
<1>5. CountTo(Floats, Given) = CountTo(low, Given) + CountTo(high, Given)
  BY <1>1, <1>2, CountSplit
<1>6. CountTo(low, Given) = CountTo(Floats, i) /\ FloatsAfter(i) = CountTo(high, Given)
  BY <1>3, <1>4 DEF CountTo, FloatsAfter
<1>7. /\ CountTo(Floats, i) \in Nat /\ CountTo(Floats, Given) \in Nat
      /\ CountTo(Ints, i) \in Nat /\ CountTo(Ints, Given) \in Nat
      /\ CountTo(high, Given) \in Nat
      /\ CountTo(Floats, i) + CountTo(Ints, i) = i
      /\ CountTo(Floats, Given) + CountTo(Ints, Given) = Given
  BY <1>1, IntsOrFloats, CountNat
<1>8. FloatsAfter(i) = CountTo(Floats, Given) - CountTo(Floats, i)
  BY <1>5, <1>6, <1>7
<1> QED
  BY <1>1, <1>7, <1>8 DEF IntsAfter

\* The caller and the convention agree on which arguments go on the stack.
LEMMA OnStackIs ==
  ASSUME Good, NEW i \in 1..Given
  PROVE  OnStack(i) <=> i \in Spilled
<1>1. /\ CountTo(Floats, i) \in Nat /\ CountTo(Floats, Given) \in Nat
      /\ CountTo(Ints, i) \in Nat /\ CountTo(Ints, Given) \in Nat
  BY SigFacts, CountNat
<1>2. /\ FloatArgCount - FloatsAfter(i) = CountTo(Floats, i)
      /\ IntArgCount - IntsAfter(i) = CountTo(Ints, i)
  BY <1>1, CountsAre, AfterIs
<1>3. IsFloat(ArgType(i)) <=> i \in Floats
  BY ArgTypeIsAbi DEF Floats
<1>4. IsFloat(AbiClass(i)) <=> i \in Floats
  BY DEF Floats
<1>5. InRegister(i) <=> Rank(i) <= IF i \in Floats THEN FloatRegs ELSE IntRegs
  BY <1>4 DEF InRegister
<1>6. Rank(i) = IF i \in Floats THEN CountTo(Floats, i) ELSE CountTo(Ints, i)
  BY RankIs
<1> QED
  BY <1>1, <1>2, <1>3, <1>5, <1>6, RegsType DEF OnStack, Spilled

\* Each pass takes the arguments that it should.
LEMMA PassesAre ==
  ASSUME Good
  PROVE  /\ {i \in 1..Given : OnStack(i)} = Spilled
         /\ {i \in 1..Given : ~OnStack(i) /\ IsFloat(ArgType(i))} = FloatsIn
         /\ {i \in 1..Given : ~OnStack(i) /\ ~IsFloat(ArgType(i))} = IntsIn
<1>1. FloatsIn \subseteq Floats /\ IntsIn \subseteq Ints
  BY DEF FloatsIn, IntsIn, First
<1>2. Floats \subseteq 1..Given /\ Ints \subseteq 1..Given /\ Spilled \subseteq 1..Given
  BY DEF Floats, Ints, Spilled
<1>3. \A i \in 1..Given :
        /\ OnStack(i) <=> i \in Spilled
        /\ i \in Spilled <=> i \notin FloatsIn \union IntsIn
        /\ IsFloat(ArgType(i)) <=> i \in Floats
        /\ i \in Floats <=> i \notin Ints
  <2> TAKE i \in 1..Given
  <2>1. OnStack(i) <=> i \in Spilled
    BY OnStackIs
  <2>2. i \in Spilled <=> i \notin FloatsIn \union IntsIn
    BY RankIs DEF Spilled
  <2>3. IsFloat(ArgType(i)) <=> i \in Floats
    BY ArgTypeIsAbi DEF Floats
  <2>4. i \in Floats <=> i \notin Ints
    BY DEF Floats, Ints
  <2> QED
    BY <2>1, <2>2, <2>3, <2>4
<1> QED
  BY <1>1, <1>2, <1>3

\* How many arguments are passed in each way.
LEMMA PassedCounts ==
  ASSUME Good
  PROVE  /\ CountTo(IntsIn, Given) = Least(IntArgCount, IntRegs)
         /\ CountTo(FloatsIn, Given) = Least(FloatArgCount, FloatRegs)
         /\ PushedWords = CountTo(Spilled, Given) + Count(StructRet)
         /\ CountTo(Spilled, Given) \in Nat /\ PushedWords \in Nat
         /\ CountTo(IntsIn, Given) \in Nat /\ CountTo(FloatsIn, Given) \in Nat
<1>1. Given \in Nat
  BY SigFacts
<1>2. CountTo(Ints, Given) \in Nat /\ CountTo(Floats, Given) \in Nat
  BY <1>1, CountNat
<1>3. /\ CountTo(IntsIn, Given) = Least(IntArgCount, IntRegs)
      /\ CountTo(FloatsIn, Given) = Least(FloatArgCount, FloatRegs)
  BY <1>1, <1>2, CountsAre, CountFirst, LeastIs, RegsType DEF IntsIn, FloatsIn
<1>4. /\ CountTo(Ints \ IntsIn, Given) = Greatest(IntArgCount - IntRegs, 0)
      /\ CountTo(Floats \ FloatsIn, Given) = Greatest(FloatArgCount - FloatRegs, 0)
  <2>1. /\ CountTo(Ints \ IntsIn, Given) =
             IF CountTo(Ints, Given) <= IntRegs THEN 0 ELSE CountTo(Ints, Given) - IntRegs
        /\ CountTo(Floats \ FloatsIn, Given) =
             IF CountTo(Floats, Given) <= FloatRegs THEN 0 ELSE CountTo(Floats, Given) - FloatRegs
    BY <1>1, CountOthers, RegsType DEF IntsIn, FloatsIn
  <2>2. /\ IntArgCount - IntRegs \in Int /\ FloatArgCount - FloatRegs \in Int
        /\ IntArgCount = CountTo(Ints, Given) /\ FloatArgCount = CountTo(Floats, Given)
    BY <1>2, CountsAre, RegsType
  <2>3. /\ Greatest(IntArgCount - IntRegs, 0) =
             IF IntArgCount - IntRegs >= 0 THEN IntArgCount - IntRegs ELSE 0
        /\ Greatest(FloatArgCount - FloatRegs, 0) =
             IF FloatArgCount - FloatRegs >= 0 THEN FloatArgCount - FloatRegs ELSE 0
    BY <2>2, GreatestIs
  <2> QED
    BY <1>2, <2>1, <2>2, <2>3, RegsType
<1>5. /\ (Ints \ IntsIn) \intersect (Floats \ FloatsIn) = {}
      /\ (Ints \ IntsIn) \union (Floats \ FloatsIn) = Spilled
  <2>1. FloatsIn \subseteq Floats /\ IntsIn \subseteq Ints
    BY DEF FloatsIn, IntsIn, First
  <2>2. Floats \intersect Ints = {} /\ Floats \union Ints = 1..Given
    BY DEF Floats, Ints
  <2>3. Spilled = {i \in 1..Given : i \notin FloatsIn \union IntsIn}
    BY RankIs DEF Spilled
  <2> QED
    BY <2>1, <2>2, <2>3
<1>6. CountTo(Spilled, Given) = CountTo(Ints \ IntsIn, Given) + CountTo(Floats \ FloatsIn, Given)
  <2> DEFINE a == Ints \ IntsIn
  <2> DEFINE b == Floats \ FloatsIn
  <2>1. a \intersect b = {} /\ a \union b = Spilled
    BY <1>5
  <2> HIDE DEF a, b
  <2>2. CountTo(Spilled, Given) = CountTo(a, Given) + CountTo(b, Given)
    BY <1>1, <2>1, CountSplit
  <2> QED
    BY <2>2 DEF a, b
<1>7. /\ CountTo(Spilled, Given) \in Nat
      /\ CountTo(IntsIn, Given) \in Nat /\ CountTo(FloatsIn, Given) \in Nat
  BY <1>1, CountNat
<1>8. Count(StructRet) \in Nat
  BY DEF Count
<1> QED
  BY <1>3, <1>4, <1>6, <1>7, <1>8 DEF PushedWords

\* The place on the stack.
LEMMA StackPlaceIs ==
  ASSUME Good, NEW i \in 1..Given
  PROVE  StackPlace(i) = CountTo(Spilled, i)
<1>1. 1..i \subseteq 1..Given
  BY SigFacts
<1>2. {j \in 1..i : ~InRegister(j)} = UpTo(Spilled, i)
  BY <1>1 DEF UpTo, Spilled
<1> QED
  BY <1>2 DEF StackPlace, CountTo

-----------------------------------------------------------------------------
(* The callee's counts *)

\* The callee's counts of the parameters in front of one are ranks.
LEMMA BeforeIs ==
  ASSUME Good, NEW i \in 1..(Fixed + 1)
  PROVE  IntsBefore(i) = CountTo(Ints, i - 1) /\ FloatsBefore(i) = CountTo(Floats, i - 1)
<1>1. i - 1 \in 0..Given /\ \A j \in 1..(i - 1) : j \in 1..Fixed /\ j \in 1..Given
  BY SigFacts
<1>2. {j \in 1..(i - 1) : ~IsFloat(sig.params[j])} = UpTo(Ints, i - 1)
  BY <1>1, SigFacts DEF UpTo, Ints
<1>3. IntsBefore(i) = CountTo(Ints, i - 1)
  BY <1>2 DEF IntsBefore, CountTo
<1> QED
  BY <1>1, <1>3, IntsOrFloats DEF FloatsBefore

\* Caller and callee agree on which parameters are in registers.
LEMMA ByRegisterIs ==
  ASSUME Good, NEW i \in 1..Fixed
  PROVE  /\ ByRegister(i) <=> InRegister(i)
         /\ i \in Floats => CountTo(Floats, i) = FloatsBefore(i) + 1
         /\ i \in Ints => CountTo(Ints, i) = IntsBefore(i) + 1
         /\ i \in Floats <=> IsFloat(sig.params[i])
         /\ i \in Ints <=> ~IsFloat(sig.params[i])
<1>1. i - 1 \in Nat /\ (i - 1) + 1 = i /\ i \in 1..(Fixed + 1) /\ i \in 1..Given
  BY SigFacts
<1>2. /\ CountTo(Floats, i) = IF i \in Floats THEN CountTo(Floats, i - 1) + 1
                                ELSE CountTo(Floats, i - 1)
      /\ CountTo(Ints, i) = IF i \in Ints THEN CountTo(Ints, i - 1) + 1
                              ELSE CountTo(Ints, i - 1)
  BY <1>1, CountNext
<1>3. IntsBefore(i) = CountTo(Ints, i - 1) /\ FloatsBefore(i) = CountTo(Floats, i - 1)
  BY <1>1, BeforeIs
<1>4. /\ i \in Floats <=> IsFloat(sig.params[i])
      /\ i \in Ints <=> ~IsFloat(sig.params[i])
  BY <1>1, SigFacts DEF Floats, Ints
<1>5. CountTo(Floats, i - 1) \in Nat /\ CountTo(Ints, i - 1) \in Nat
  BY <1>1, CountNat
<1>6. /\ Rank(i) = IF i \in Floats THEN CountTo(Floats, i) ELSE CountTo(Ints, i)
  BY <1>1, RankIs
<1>7. InRegister(i) <=> Rank(i) <= IF i \in Floats THEN FloatRegs ELSE IntRegs
  BY <1>1 DEF InRegister, Floats
<1>8. i \in Floats <=> i \notin Ints
  BY <1>1 DEF Floats, Ints
<1> QED
  BY <1>2, <1>3, <1>4, <1>5, <1>6, <1>7, <1>8, RegsType DEF ByRegister

\* The callee's count of parameters on the stack is the caller's.
LEMMA StackArgsBeforeIs ==
  ASSUME Good, NEW i \in 1..(Fixed + 1)
  PROVE  StackArgsBefore(i) = CountTo(Spilled, i - 1)
<1>1. \A j \in 1..(i - 1) : j \in 1..Fixed /\ j \in 1..Given
  BY SigFacts
<1>2. {j \in 1..(i - 1) : ~ByRegister(j)} = UpTo(Spilled, i - 1)
  BY <1>1, ByRegisterIs DEF UpTo, Spilled
<1> QED
  BY <1>2 DEF StackArgsBefore, CountTo

-----------------------------------------------------------------------------
(* The stack, from its top *)

\* The k-th word from the top.
FromTop(stack, k) == stack[Len(stack) + 1 - k]

\* The words that were pushed last are on top, the others below them.
LEMMA TopOfConcat ==
  ASSUME NEW S, NEW s \in Seq(S), NEW t \in Seq(S)
  PROVE  /\ s \o t \in Seq(S) /\ Len(s \o t) = Len(s) + Len(t)
         /\ \A k \in 1..Len(t) : FromTop(s \o t, k) = FromTop(t, k)
         /\ \A k \in 1..Len(s) : FromTop(s \o t, Len(t) + k) = FromTop(s, k)
<1> DEFINE u == s \o t
<1>1. /\ u \in Seq(S) /\ Len(u) = Len(s) + Len(t)
      /\ \A i \in 1..Len(s) + Len(t) : u[i] = IF i <= Len(s) THEN s[i] ELSE t[i - Len(s)]
  BY ConcatProperties
<1>2. Len(s) \in Nat /\ Len(t) \in Nat
  OBVIOUS
<1> HIDE DEF u
<1>3. ASSUME NEW k \in 1..Len(t)
      PROVE  FromTop(u, k) = FromTop(t, k)
  <2>1. /\ Len(u) + 1 - k \in 1..Len(s) + Len(t) /\ ~(Len(u) + 1 - k <= Len(s))
        /\ Len(u) + 1 - k - Len(s) = Len(t) + 1 - k
    BY <1>1, <1>2
  <2> QED
    BY <1>1, <2>1 DEF FromTop
<1>4. ASSUME NEW k \in 1..Len(s)
      PROVE  FromTop(u, Len(t) + k) = FromTop(s, k)
  <2>1. /\ Len(u) + 1 - (Len(t) + k) \in 1..Len(s) + Len(t)
        /\ Len(u) + 1 - (Len(t) + k) = Len(s) + 1 - k
        /\ Len(s) + 1 - k <= Len(s)
    BY <1>1, <1>2
  <2> QED
    BY <1>1, <2>1 DEF FromTop
<1> QED
  BY <1>1, <1>3, <1>4 DEF u

\* Dropping what was pushed leaves the stack of before.
LEMMA DropConcat ==
  ASSUME NEW S, NEW s \in Seq(S), NEW t \in Seq(S)
  PROVE  Dropped(s \o t, Len(t)) = s
<1> DEFINE u == s \o t
<1> DEFINE d == SubSeq(u, 1, Len(s))
<1>1. /\ u \in Seq(S) /\ Len(u) = Len(s) + Len(t)
      /\ \A i \in 1..Len(s) + Len(t) : u[i] = IF i <= Len(s) THEN s[i] ELSE t[i - Len(s)]
  BY ConcatProperties
<1>2. Len(s) \in Nat /\ Len(t) \in Nat /\ \A i \in 1..Len(s) : s[i] \in S
  OBVIOUS
<1> HIDE DEF u
<1>3. \A i \in 1..Len(s) : u[i] = s[i] /\ u[i] \in S
  BY <1>1, <1>2
<1>4. d \in Seq(S) /\ Len(d) = Len(s) /\ \A i \in 1..Len(s) : d[i] = u[i]
  BY <1>2, <1>3, SubSeqProperties
<1> HIDE DEF d
<1>5. d = s
  BY <1>3, <1>4, SeqEqual
<1>6. Len(u) - Len(t) = Len(s)
  BY <1>1, <1>2
<1> QED
  BY <1>5, <1>6 DEF Dropped, d, u

-----------------------------------------------------------------------------
(* The words of a call, and what is pushed *)

\* All words that the machine ever holds.
CallWords ==
  {Junk, TempAddress, ReturnAddress, SavedRbp, Result, SavedRsp(0)} \union Values
  \union {AddressOf(i) : i \in 1..Given}

\* The words that a machine may hold.
LEMMA WordsHeld ==
  /\ {Junk, TempAddress, ReturnAddress, SavedRbp, Result, SavedRsp(0)} \subseteq CallWords
  /\ \A i \in 1..Given : AddressOf(i) \in CallWords
  /\ \A i \in 1..Given : \A class \in Classes : Value(i, class) \in CallWords
BY DEF CallWords, Values

\* The word an argument is passed as.
LEMMA EvaluatedIs ==
  ASSUME Good, NEW i \in 1..Given
  PROVE  Evaluated(i, ArgType(i)) = AbiWord(i) /\ AbiWord(i) \in CallWords
<1>1. AbiClass(i) \in Classes /\ ArgType(i) = AbiClass(i)
  BY SigFacts, ArgTypeIsAbi
<1> QED
  BY <1>1, WordsHeld DEF Evaluated, AbiWord

\* The arguments of a pass lie on the stack with the leftmost on top.
LEMMA PushedIs ==
  ASSUME Good, NEW A, A \subseteq 1..Given
  PROVE  /\ Pushed(A) \in Seq(CallWords)
         /\ Len(Pushed(A)) = CountTo(A, Given)
         /\ \A i \in A : /\ CountTo(A, i) \in 1..CountTo(A, Given)
                         /\ FromTop(Pushed(A), CountTo(A, i)) = AbiWord(i)
<1> DEFINE c == Cardinality(A)
<1> DEFINE the(k) == CHOOSE j \in A : Cardinality({n \in A : n <= j}) = k
<1> DEFINE q == [k \in 1..c |-> Evaluated(the(k), ArgType(the(k)))]
<1>1. Given \in Nat /\ \A j \in A : j \in Nat /\ j \in 1..Given
  BY SigFacts
<1>2. c = CountTo(A, Given) /\ c \in Nat
  <2>1. UpTo(A, Given) = A
    BY DEF UpTo
  <2> QED
    BY <1>1, <2>1, CountNat DEF CountTo
<1>3. \A j \in A : Cardinality({n \in A : n <= j}) = CountTo(A, j)
  <2> TAKE j \in A
  <2>1. {n \in A : n <= j} = UpTo(A, j)
    <3>1. \A n \in A : n >= 1 /\ n \in Nat
      BY <1>1
    <3>2. \A n \in A : n <= j <=> n \in 1..j
      BY <1>1, <3>1
    <3> QED
      BY <3>2 DEF UpTo
  <2> QED
    BY <2>1 DEF CountTo
<1>4. ASSUME NEW j \in A
      PROVE  CountTo(A, j) \in 1..c
  <2>1. CountTo(A, 0) < CountTo(A, j)
    BY <1>1, CountGrows
  <2>2. CountTo(A, j) <= CountTo(A, Given)
    BY <1>1, CountMonotone
  <2>3. CountTo(A, j) \in Nat
    BY <1>1, CountNat
  <2> QED
    BY <1>2, <2>1, <2>2, <2>3, CountZero
<1>5. ASSUME NEW j \in A, NEW h \in A, CountTo(A, j) = CountTo(A, h)
      PROVE  j = h
  <2>1. CountTo(A, j) \in Nat
    BY <1>1, CountNat
  <2>2. j < h => CountTo(A, j) < CountTo(A, h)
    BY <1>1, CountGrows
  <2>3. h < j => CountTo(A, h) < CountTo(A, j)
    BY <1>1, CountGrows
  <2> QED
    BY <1>1, <1>5, <2>1, <2>2, <2>3
<1>6. ASSUME NEW k \in 1..c
      PROVE  the(k) \in A /\ CountTo(A, the(k)) = k
  <2>1. \E j \in A : CountTo(A, j) = k
    BY <1>1, <1>2, CountSelects
  <2>2. \E j \in A : Cardinality({n \in A : n <= j}) = k
    BY <1>3, <2>1
  <2>3. the(k) \in A /\ Cardinality({n \in A : n <= the(k)}) = k
    BY <2>2
  <2> HIDE DEF the
  <2> QED
    BY <1>3, <2>3
<1> HIDE DEF the, c
<1>7. \A k \in 1..c : q[k] = AbiWord(the(k)) /\ q[k] \in CallWords
  <2> TAKE k \in 1..c
  <2>1. the(k) \in 1..Given
    BY <1>1, <1>6
  <2> QED
    BY <2>1, EvaluatedIs
<1>8. q \in Seq(CallWords) /\ Len(q) = c
  <2>1. DOMAIN q = 1..c /\ q \in [1..c -> CallWords]
    BY <1>7
  <2> HIDE DEF q
  <2> QED
    BY <1>2, <2>1
<1> HIDE DEF q
<1>9. Pushed(A) = [k \in 1..c |-> q[c - k + 1]]
  <2>1. Pushed(A) = Reverse(q)
    BY DEF Pushed, q, the, c
  <2> QED
    BY <1>8, <2>1 DEF Reverse
<1>10. \A k \in 1..c : c - k + 1 \in 1..c /\ Pushed(A)[k] = q[c - k + 1]
  BY <1>2, <1>9
<1>11. Pushed(A) \in Seq(CallWords) /\ Len(Pushed(A)) = c
  <2>1. \A k \in 1..c : q[c - k + 1] \in CallWords
    BY <1>7, <1>10
  <2>2. Pushed(A) \in [1..c -> CallWords]
    BY <1>9, <2>1
  <2> QED
    BY <1>2, <2>2
<1>12. ASSUME NEW i \in A
       PROVE  FromTop(Pushed(A), CountTo(A, i)) = AbiWord(i)
  <2>1. CountTo(A, i) \in 1..c
    BY <1>4
  <2>2. the(CountTo(A, i)) = i
    BY <1>5, <1>6, <2>1
  <2>3. c + 1 - CountTo(A, i) \in 1..c /\ c - (c + 1 - CountTo(A, i)) + 1 = CountTo(A, i)
    BY <1>2, <2>1
  <2>4. Pushed(A)[c + 1 - CountTo(A, i)] = q[CountTo(A, i)]
    BY <1>10, <2>3
  <2> QED
    BY <1>7, <1>11, <2>1, <2>2, <2>4 DEF FromTop
<1> QED
  BY <1>2, <1>4, <1>11, <1>12

-----------------------------------------------------------------------------
(* The invariant *)

AlignedStack == AlignStackForFuncCall(<< >>, PushedWords)
TempWords == IF StructRet THEN <<TempAddress>> ELSE << >>

\* The caller's stack before any argument, at the call, and in the function.
Prepared == AlignedStack \o TempWords
CallerStack == Prepared \o Pushed(Spilled)
FloatsPushed == CallerStack \o Pushed(FloatsIn)
AllPushed == FloatsPushed \o Pushed(IntsIn)
Entered ==
  (CallerStack \o <<ReturnAddress, SavedRbp>>) \o [k \in 1..FrameWords |-> Junk]

\* The registers behind the parameters that a variadic function keeps.
VariadicWords == IF sig.variadic THEN IntRegs - Fixed ELSE 0

Machines ==
  [stack : Seq(CallWords), ints : [1..IntRegs -> CallWords],
   floats : [1..FloatRegs -> CallWords], rax : CallWords, al : Int, rbp : Nat,
   slots : Seq({Junk} \union Values), temp : CallWords]

\* The arguments from the first one on are still in their registers.
IntsKept(from) == \A i \in IntsIn : i >= from => m.ints[CountTo(Ints, i)] = AbiWord(i)
FloatsKept(from) == \A i \in FloatsIn : i >= from => m.floats[CountTo(Floats, i)] = AbiWord(i)

ResultReturned ==
  IF StructRet THEN m.rax = TempAddress /\ m.temp = Result ELSE m.rax = Result

\* From the call on the caller's part of the stack is as the caller left it.
AtCaller(here, stack) == phase = here => m.stack = stack /\ m.rbp = 0

ICall ==
  phase = "call" =>
    /\ IntsKept(1) /\ FloatsKept(1)
    /\ sig.variadic => m.al = CountTo(FloatsIn, Given)

InFunction == m.rbp = Len(CallerStack) + 2

\* A structure that is copied costs the floating point registers, so Plain
\* wants no such parameter behind it.
IParams ==
  phase = "params" =>
    /\ InFunction /\ m.stack = Entered
    /\ param \in 1..(Fixed + 1)
    /\ Len(m.slots) = param - 1
    /\ \A i \in 1..(param - 1) : m.slots[i] = Value(i, sig.params[i])
    /\ IntsKept(param)
    /\ (\A j \in 1..(param - 1) : sig.params[j] # "struct") => FloatsKept(param)

\* The additional integers that came in registers, as a va_list reads them.
Readable(kept) ==
  (sig.variadic /\ Given <= IntRegs /\ \A i \in 1..Given : AbiClass(i) = "int") =>
    \A i \in (Fixed + 1)..Given : FromTop(kept, i - Fixed) = Value(i, "int")

IBody ==
  phase = "body" =>
    /\ InFunction
    /\ Len(m.slots) = Fixed /\ \A i \in 1..Fixed : m.slots[i] = Value(i, sig.params[i])
    /\ \E kept \in Seq(CallWords) :
         m.stack = Entered \o kept /\ Len(kept) = VariadicWords /\ Readable(kept)

IReturn ==
  phase = "return" =>
    /\ InFunction /\ m.rax = Result
    /\ \E kept \in Seq(CallWords) : m.stack = Entered \o kept /\ Len(kept) = VariadicWords

IInv ==
  /\ Good /\ m \in Machines
  /\ phase \in {"prepare", "stack args", "float args", "int args", "pops", "call",
                "params", "body", "return", "restore", "done"}
  /\ phase \in {"prepare", "stack args", "float args", "int args", "pops"} => m.slots = << >>
  /\ phase = "call" => m.slots = << >>
  /\ AtCaller("prepare", << >>)
  /\ AtCaller("stack args", Prepared)
  /\ AtCaller("float args", CallerStack)
  /\ AtCaller("int args", FloatsPushed)
  /\ AtCaller("pops", AllPushed)
  /\ AtCaller("call", CallerStack)
  /\ AtCaller("restore", CallerStack)
  /\ AtCaller("done", << >>)
  /\ ICall /\ IParams /\ IBody /\ IReturn
  /\ phase \in {"restore", "done"} => ResultReturned

-----------------------------------------------------------------------------
(* What depends on the signature alone does not change in a step *)

\* Classes and words are those of the signature.
LEMMA SigSame ==
  ASSUME sig' = sig
  PROVE  /\ Good' = Good /\ Given' = Given /\ Fixed' = Fixed /\ StructRet' = StructRet
         /\ CallWords' = CallWords
         /\ \A i : AbiClass(i)' = AbiClass(i) /\ AbiWord(i)' = AbiWord(i)
         /\ Floats' = Floats /\ Ints' = Ints
         /\ FloatsIn' = FloatsIn /\ IntsIn' = IntsIn
         /\ VariadicWords' = VariadicWords
<1>1. Good' = Good
  BY DEF Good, Plain
<1>2. Given' = Given /\ Fixed' = Fixed /\ StructRet' = StructRet
  BY DEF Given, Fixed, StructRet
<1>3. CallWords' = CallWords
  BY <1>2 DEF CallWords, Values, Result
<1>4. \A i : AbiClass(i)' = AbiClass(i)
  BY <1>2 DEF AbiClass
<1>5. \A i : AbiWord(i)' = AbiWord(i)
  BY <1>4 DEF AbiWord
<1>6. Floats' = Floats /\ Ints' = Ints
  BY <1>2, <1>4 DEF Floats, Ints
<1>7. FloatsIn' = FloatsIn /\ IntsIn' = IntsIn
  BY <1>6 DEF FloatsIn, IntsIn
<1>8. VariadicWords' = VariadicWords
  BY <1>2 DEF VariadicWords
<1> QED
  BY <1>1, <1>2, <1>3, <1>4, <1>5, <1>6, <1>7, <1>8

\* What is pushed for a signature is the same in each state.
LEMMA StacksSame ==
  ASSUME sig' = sig
  PROVE  /\ Spilled' = Spilled /\ PushedWords' = PushedWords
         /\ \A A : Pushed(A)' = Pushed(A)
         /\ Prepared' = Prepared /\ CallerStack' = CallerStack /\ Entered' = Entered
         /\ FloatsPushed' = FloatsPushed /\ AllPushed' = AllPushed
<1>1. \A i : InRegister(i)' = InRegister(i)
  BY SigSame DEF InRegister, Rank
<1>2. Spilled' = Spilled
  BY <1>1, SigSame DEF Spilled
<1>3. FloatArgCount' = FloatArgCount
  BY SigSame DEF FloatArgCount, CountedType
<1>4. IntArgCount' = IntArgCount
  BY <1>3, SigSame DEF IntArgCount
<1>5. PushedWords' = PushedWords
  BY <1>3, <1>4, SigSame DEF PushedWords
<1>6. \A i : ArgType(i)' = ArgType(i)
  BY SigSame DEF ArgType, ParamAt
<1>7. ASSUME NEW A PROVE Pushed(A)' = Pushed(A)
  <2> DEFINE the(k) == CHOOSE j \in A : Cardinality({n \in A : n <= j}) = k
  <2> DEFINE q == [k \in 1..Cardinality(A) |-> Evaluated(the(k), ArgType(the(k)))]
  <2>1. \A k : Evaluated(the(k), ArgType(the(k)))' = Evaluated(the(k), ArgType(the(k)))
    BY <1>6 DEF Evaluated
  <2>2. q' = q
    BY <2>1
  <2>3. Pushed(A) = Reverse(q)
    BY DEF Pushed
  <2>4. Pushed(A)' = Reverse(q')
    BY DEF Pushed
  <2> QED
    BY <2>2, <2>3, <2>4
<1>8. AlignedStack' = AlignedStack
  BY <1>5 DEF AlignedStack, AlignStackForFuncCall, Aligned
<1>9. Prepared' = Prepared
  BY <1>8, SigSame DEF Prepared, TempWords
<1>10. CallerStack' = CallerStack
  BY <1>9, <1>7, <1>2 DEF CallerStack
<1>11. Entered' = Entered
  BY <1>10 DEF Entered
<1>12. FloatsPushed' = FloatsPushed
  BY <1>7, <1>10, SigSame DEF FloatsPushed
<1>13. AllPushed' = AllPushed
  BY <1>7, <1>12, SigSame DEF AllPushed
<1> QED
  BY <1>2, <1>5, <1>7, <1>9, <1>10, <1>11, <1>12, <1>13

-----------------------------------------------------------------------------
(* The stack of the caller *)

\* What is passed are arguments.
LEMMA PassesIn == /\ FloatsIn \subseteq Floats /\ IntsIn \subseteq Ints
                  /\ Floats \subseteq 1..Given /\ Ints \subseteq 1..Given
                  /\ Spilled \subseteq 1..Given
BY DEF FloatsIn, IntsIn, First, Floats, Ints, Spilled

\* rsp is aligned when all of the words have been pushed, and the caller's old rsp lies below them.
LEMMA AlignedStackIs ==
  ASSUME Good
  PROVE  /\ AlignedStack \in Seq(CallWords) /\ Len(AlignedStack) >= 1
         /\ Last(AlignedStack) = SavedRsp(0)
         /\ (Len(AlignedStack) + PushedWords + Count(sig.odd)) % 2 = 0
<1> DEFINE pad == IF Aligned(<< >>) THEN << >> ELSE Append(<< >>, Junk)
<1> DEFINE fill == IF (PushedWords + 1) % 2 = 1 THEN <<Junk>> ELSE << >>
<1> DEFINE rsp == <<SavedRsp(0)>>
<1>1. PushedWords \in Nat
  BY PassedCounts
<1>2. sig.odd \in BOOLEAN
  BY SigFacts
<1>3. pad \in Seq(CallWords) /\ Len(pad) = Count(sig.odd)
  <2>1. Aligned(<< >>) <=> ~sig.odd
    BY <1>2 DEF Aligned, Count
  <2> QED
    BY <1>2, <2>1, WordsHeld DEF Count
<1>4. fill \in Seq(CallWords) /\ Len(fill) = IF PushedWords % 2 = 0 THEN 1 ELSE 0
  <2>1. (PushedWords + 1) % 2 = 1 <=> PushedWords % 2 = 0
    BY <1>1
  <2> QED
    BY <2>1, WordsHeld
<1>5. rsp \in Seq(CallWords) /\ Len(rsp) = 1 /\ rsp[1] = SavedRsp(0)
  BY WordsHeld
<1>6. AlignedStack = (pad \o fill) \o rsp
  BY DEF AlignedStack, AlignStackForFuncCall
<1>7. Count(sig.odd) \in {0, 1}
  BY DEF Count
<1> HIDE DEF pad, fill, rsp
<1>8. pad \o fill \in Seq(CallWords) /\ Len(pad \o fill) = Len(pad) + Len(fill)
  BY <1>3, <1>4, ConcatProperties
<1>9. /\ AlignedStack \in Seq(CallWords) /\ Len(AlignedStack) = Len(pad) + Len(fill) + 1
      /\ AlignedStack[Len(pad) + Len(fill) + 1] = SavedRsp(0)
  <2> DEFINE low == pad \o fill
  <2>1. low \in Seq(CallWords) /\ Len(low) = Len(pad) + Len(fill)
    BY <1>8
  <2> HIDE DEF low
  <2>2. /\ low \o rsp \in Seq(CallWords) /\ Len(low \o rsp) = Len(low) + 1
        /\ (low \o rsp)[Len(low) + 1] = rsp[1]
    <3>1. /\ low \o rsp \in Seq(CallWords) /\ Len(low \o rsp) = Len(low) + Len(rsp)
          /\ \A i \in 1..Len(low) + Len(rsp) :
               (low \o rsp)[i] = IF i <= Len(low) THEN low[i] ELSE rsp[i - Len(low)]
      <4>1. low \in Seq(CallWords) /\ rsp \in Seq(CallWords)
        BY <1>5, <2>1
      <4> QED
        BY <4>1, ConcatProperties
    <3>2. Len(low) \in Nat /\ Len(low) + 1 \in 1..Len(low) + Len(rsp)
      BY <1>5, <2>1
    <3> QED
      BY <1>5, <3>1, <3>2
  <2> QED
    BY <1>5, <1>6, <2>1, <2>2 DEF low
<1>10. (Len(AlignedStack) + PushedWords + Count(sig.odd)) % 2 = 0
  <2> DEFINE n == PushedWords
  <2> DEFINE o == Count(sig.odd)
  <2> DEFINE l == Len(AlignedStack)
  <2>1. l = o + (IF n % 2 = 0 THEN 1 ELSE 0) + 1 /\ n \in Nat /\ o \in {0, 1}
    BY <1>1, <1>3, <1>4, <1>7, <1>9
  <2> HIDE DEF n, o, l
  <2>2. (l + n + o) % 2 = 0
    BY <2>1
  <2> QED
    BY <2>2 DEF n, o, l
<1>11. Len(AlignedStack) >= 1
  BY <1>3, <1>4, <1>7, <1>9
<1> QED
  BY <1>3, <1>4, <1>7, <1>9, <1>10, <1>11 DEF Last

\* The parts of the caller's stack, of which as many words as are popped lie above rsp.
LEMMA StackShapes ==
  ASSUME Good
  PROVE  /\ TempWords \in Seq(CallWords) /\ Len(TempWords) = Count(StructRet)
         /\ Prepared \in Seq(CallWords)
         /\ Pushed(Spilled) \in Seq(CallWords)
         /\ CallerStack \in Seq(CallWords)
         /\ Len(CallerStack) = Len(AlignedStack) + PushedWords
         /\ Aligned(CallerStack)
         /\ CallerStack = AlignedStack \o (TempWords \o Pushed(Spilled))
         /\ TempWords \o Pushed(Spilled) \in Seq(CallWords)
         /\ Len(TempWords \o Pushed(Spilled)) = PushedWords
<1>1. TempWords \in Seq(CallWords) /\ Len(TempWords) = Count(StructRet)
  BY WordsHeld DEF TempWords, Count
<1>2. /\ Pushed(Spilled) \in Seq(CallWords)
      /\ Len(Pushed(Spilled)) = CountTo(Spilled, Given)
  BY PassesIn, PushedIs
<1>3. AlignedStack \in Seq(CallWords)
  BY AlignedStackIs
<1>4. /\ Prepared \in Seq(CallWords) /\ Len(Prepared) = Len(AlignedStack) + Len(TempWords)
      /\ CallerStack \in Seq(CallWords)
      /\ Len(CallerStack) = Len(Prepared) + Len(Pushed(Spilled))
      /\ TempWords \o Pushed(Spilled) \in Seq(CallWords)
      /\ Len(TempWords \o Pushed(Spilled)) = Len(TempWords) + Len(Pushed(Spilled))
      /\ CallerStack = AlignedStack \o (TempWords \o Pushed(Spilled))
  <2>1. Prepared \in Seq(CallWords) /\ Len(Prepared) = Len(AlignedStack) + Len(TempWords)
    BY <1>1, <1>3, ConcatProperties DEF Prepared
  <2>2. /\ CallerStack \in Seq(CallWords)
        /\ Len(CallerStack) = Len(Prepared) + Len(Pushed(Spilled))
    <3>1. Prepared \in Seq(CallWords) /\ Pushed(Spilled) \in Seq(CallWords)
      BY <1>2, <2>1
    <3> QED
      BY <3>1, ConcatProperties DEF CallerStack
  <2>3. /\ TempWords \o Pushed(Spilled) \in Seq(CallWords)
        /\ Len(TempWords \o Pushed(Spilled)) = Len(TempWords) + Len(Pushed(Spilled))
    BY <1>1, <1>2, ConcatProperties
  <2>4. CallerStack = AlignedStack \o (TempWords \o Pushed(Spilled))
    BY <1>1, <1>2, <1>3, ConcatAssociative DEF CallerStack, Prepared
  <2> QED
    BY <2>1, <2>2, <2>3, <2>4
<1>5. /\ PushedWords = CountTo(Spilled, Given) + Count(StructRet)
      /\ CountTo(Spilled, Given) \in Nat /\ PushedWords \in Nat
  BY PassedCounts
<1>6. Count(StructRet) \in Nat /\ Count(sig.odd) \in Nat
  BY DEF Count
<1>7. Len(AlignedStack) \in Nat
  BY <1>3, LenProperties
<1>8. Len(CallerStack) = Len(AlignedStack) + PushedWords
  BY <1>1, <1>2, <1>4, <1>5, <1>6, <1>7
<1>9. Aligned(CallerStack)
  BY <1>8, AlignedStackIs DEF Aligned
<1>10. Len(TempWords \o Pushed(Spilled)) = PushedWords
  BY <1>1, <1>2, <1>4, <1>5, <1>6
<1> QED
  BY <1>1, <1>2, <1>4, <1>8, <1>9, <1>10

-----------------------------------------------------------------------------
(* The steps of the caller *)

\* The machines of a signature are the same in each state.
LEMMA MachinesSame ==
  ASSUME sig' = sig
  PROVE  Machines' = Machines /\ \A v : v \in Machines' <=> v \in Machines
<1>1. Values' = Values
  BY SigSame DEF Values
<1> QED
  BY <1>1, SigSame DEF Machines

\* A machine with another stack is a machine.
LEMMA StackChanged ==
  ASSUME m \in Machines, NEW s, s \in Seq(CallWords)
  PROVE  LET changed == [m EXCEPT !.stack = s]
         IN  /\ changed \in Machines /\ changed.stack = s
             /\ changed.rbp = m.rbp /\ changed.slots = m.slots
BY DEF Machines

\* A step up to the pops puts words on the caller's stack and does no more.
LEMMA CallerStep ==
  ASSUME IInv, sig' = sig, m' \in Machines, m'.rbp = m.rbp, m'.slots = m.slots,
         phase \in {"prepare", "stack args", "float args", "int args"},
         phase' \in {"stack args", "float args", "int args", "pops"},
         phase' = "stack args" => m'.stack = Prepared,
         phase' = "float args" => m'.stack = CallerStack,
         phase' = "int args" => m'.stack = FloatsPushed,
         phase' = "pops" => m'.stack = AllPushed
  PROVE  IInv'
<1>1. m.rbp = 0 /\ m.slots = << >>
  BY DEF IInv, AtCaller
<1>2. /\ AtCaller("prepare", << >>)'
      /\ AtCaller("stack args", Prepared)'
      /\ AtCaller("float args", CallerStack)'
  BY <1>1, StacksSame DEF AtCaller
<1>3. /\ AtCaller("int args", FloatsPushed)'
      /\ AtCaller("pops", AllPushed)'
  BY <1>1, StacksSame DEF AtCaller
<1>4. /\ AtCaller("call", CallerStack)'
      /\ AtCaller("restore", CallerStack)'
      /\ AtCaller("done", << >>)'
  BY DEF AtCaller
<1>5. Good' /\ (m \in Machines)'
  BY SigSame, MachinesSame DEF IInv
<1>6. (ICall /\ IParams /\ IBody /\ IReturn)'
  BY DEF ICall, IParams, IBody, IReturn
<1>7. m'.slots = << >>
  BY <1>1
<1> QED
  BY <1>2, <1>3, <1>4, <1>5, <1>6, <1>7 DEF IInv

\* gen_asm_align_stack_for_func_call, and the temporary of a returned structure.
LEMMA PrepareStep == ASSUME IInv, PrepareCall PROVE IInv'
<1>1. Good /\ m \in Machines /\ m.stack = << >> /\ phase = "prepare"
  BY DEF IInv, PrepareCall, AtCaller
<1>2. AlignStackForFuncCall(m.stack, PushedWords) = AlignedStack
  BY <1>1 DEF AlignedStack
<1>3. m' = [m EXCEPT !.stack = IF StructRet THEN Append(AlignedStack, TempAddress)
                               ELSE AlignedStack]
  BY <1>2 DEF PrepareCall
<1>4. AlignedStack \in Seq(CallWords)
  BY <1>1, AlignedStackIs
<1>5. (IF StructRet THEN Append(AlignedStack, TempAddress) ELSE AlignedStack) = Prepared
  <2>1. CASE StructRet
    BY <1>4, <2>1, AppendIsConcat, WordsHeld DEF Prepared, TempWords
  <2>2. CASE ~StructRet
    BY <1>4, <2>2, ConcatEmptySeq DEF Prepared, TempWords
  <2> QED
    BY <2>1, <2>2
<1>6. Prepared \in Seq(CallWords)
  BY <1>1, StackShapes
<1>7. m' = [m EXCEPT !.stack = Prepared]
  BY <1>3, <1>5
<1>8. phase' = "stack args" /\ sig' = sig
  BY DEF PrepareCall, Goto
<1>9. m' \in Machines /\ m'.stack = Prepared /\ m'.rbp = m.rbp /\ m'.slots = m.slots
  BY <1>1, <1>6, <1>7, StackChanged
<1> QED
  BY <1>1, <1>8, <1>9, CallerStep

\* The three passes over the arguments.
LEMMA PushStep ==
  ASSUME IInv, PushStackArgs \/ PushFloatArgs \/ PushIntArgs
  PROVE  IInv'
<1>1. Good /\ m \in Machines
  BY DEF IInv
<1>2. /\ CallerStack \in Seq(CallWords)
      /\ Pushed(FloatsIn) \in Seq(CallWords) /\ Pushed(IntsIn) \in Seq(CallWords)
  BY <1>1, StackShapes, PassesIn, PushedIs
<1>3. FloatsPushed \in Seq(CallWords)
  BY <1>2, ConcatProperties DEF FloatsPushed
<1>4. AllPushed \in Seq(CallWords)
  BY <1>2, <1>3, ConcatProperties DEF AllPushed
<1>5. CASE PushStackArgs
  <2>1. phase = "stack args" /\ phase' = "float args" /\ sig' = sig
    BY <1>5 DEF PushStackArgs, PushArgs, Goto
  <2>2. m' = [m EXCEPT !.stack = m.stack \o Pushed(Spilled)]
    BY <1>1, <1>5, PassesAre DEF PushStackArgs, PushArgs
  <2>3. m' = [m EXCEPT !.stack = CallerStack]
    BY <2>1, <2>2 DEF IInv, AtCaller, CallerStack
  <2>4. /\ m' \in Machines /\ m'.stack = CallerStack
        /\ m'.rbp = m.rbp /\ m'.slots = m.slots
    BY <1>1, <1>2, <2>3, StackChanged
  <2> QED
    BY <2>1, <2>4, CallerStep
<1>6. CASE PushFloatArgs
  <2>1. phase = "float args" /\ phase' = "int args" /\ sig' = sig
    BY <1>6 DEF PushFloatArgs, PushArgs, Goto
  <2>2. m' = [m EXCEPT !.stack = m.stack \o Pushed(FloatsIn)]
    BY <1>1, <1>6, PassesAre DEF PushFloatArgs, PushArgs
  <2>3. m' = [m EXCEPT !.stack = FloatsPushed]
    BY <2>1, <2>2 DEF IInv, AtCaller, FloatsPushed
  <2>4. /\ m' \in Machines /\ m'.stack = FloatsPushed
        /\ m'.rbp = m.rbp /\ m'.slots = m.slots
    BY <1>1, <1>3, <2>3, StackChanged
  <2> QED
    BY <2>1, <2>4, CallerStep
<1>7. CASE PushIntArgs
  <2>1. phase = "int args" /\ phase' = "pops" /\ sig' = sig
    BY <1>7 DEF PushIntArgs, PushArgs, Goto
  <2>2. m' = [m EXCEPT !.stack = m.stack \o Pushed(IntsIn)]
    BY <1>1, <1>7, PassesAre DEF PushIntArgs, PushArgs
  <2>3. m' = [m EXCEPT !.stack = AllPushed]
    BY <2>1, <2>2 DEF IInv, AtCaller, AllPushed
  <2>4. /\ m' \in Machines /\ m'.stack = AllPushed
        /\ m'.rbp = m.rbp /\ m'.slots = m.slots
    BY <1>1, <1>4, <2>3, StackChanged
  <2> QED
    BY <2>1, <2>4, CallerStep
<1> QED
  BY <1>5, <1>6, <1>7

\* The arguments for the registers are the topmost words, the leftmost integer on top.
LEMMA ArgsOnTop ==
  ASSUME Good
  PROVE  /\ AllPushed \in Seq(CallWords)
         /\ Len(AllPushed) = Len(CallerStack) + CountTo(FloatsIn, Given) + CountTo(IntsIn, Given)
         /\ \A i \in IntsIn : /\ CountTo(Ints, i) \in 1..CountTo(IntsIn, Given)
                              /\ FromTop(AllPushed, CountTo(Ints, i)) = AbiWord(i)
         /\ \A i \in FloatsIn :
              /\ CountTo(Floats, i) \in 1..CountTo(FloatsIn, Given)
              /\ FromTop(AllPushed, CountTo(IntsIn, Given) + CountTo(Floats, i)) = AbiWord(i)
         /\ Dropped(AllPushed, CountTo(IntsIn, Given) + CountTo(FloatsIn, Given)) = CallerStack
<1> DEFINE pf == Pushed(FloatsIn)
<1> DEFINE pi == Pushed(IntsIn)
<1>1. /\ CallerStack \in Seq(CallWords)
      /\ pf \in Seq(CallWords) /\ Len(pf) = CountTo(FloatsIn, Given)
      /\ pi \in Seq(CallWords) /\ Len(pi) = CountTo(IntsIn, Given)
  BY StackShapes, PassesIn, PushedIs
<1>2. /\ CountTo(FloatsIn, Given) \in Nat /\ CountTo(IntsIn, Given) \in Nat
      /\ Len(CallerStack) \in Nat
  BY <1>1, PassedCounts, LenProperties
<1>3. \A i \in IntsIn : /\ CountTo(Ints, i) \in 1..CountTo(IntsIn, Given)
                        /\ FromTop(pi, CountTo(Ints, i)) = AbiWord(i)
  <2> TAKE i \in IntsIn
  <2>1. i \in Nat
    BY PassesIn, SigFacts
  <2>2. CountTo(IntsIn, i) = CountTo(Ints, i)
    BY <2>1, CountInFirst, RegsType DEF IntsIn
  <2>3. IntsIn \subseteq 1..Given
    BY PassesIn
  <2>4. /\ CountTo(IntsIn, i) \in 1..CountTo(IntsIn, Given)
        /\ FromTop(Pushed(IntsIn), CountTo(IntsIn, i)) = AbiWord(i)
    BY <2>3, PushedIs
  <2> QED
    BY <2>2, <2>4
<1>4. \A i \in FloatsIn : /\ CountTo(Floats, i) \in 1..CountTo(FloatsIn, Given)
                          /\ FromTop(pf, CountTo(Floats, i)) = AbiWord(i)
  <2> TAKE i \in FloatsIn
  <2>1. i \in Nat
    BY PassesIn, SigFacts
  <2>2. CountTo(FloatsIn, i) = CountTo(Floats, i)
    BY <2>1, CountInFirst, RegsType DEF FloatsIn
  <2>3. FloatsIn \subseteq 1..Given
    BY PassesIn
  <2>4. /\ CountTo(FloatsIn, i) \in 1..CountTo(FloatsIn, Given)
        /\ FromTop(Pushed(FloatsIn), CountTo(FloatsIn, i)) = AbiWord(i)
    BY <2>3, PushedIs
  <2> QED
    BY <2>2, <2>4
<1>5. AllPushed = (CallerStack \o pf) \o pi
  BY DEF AllPushed, FloatsPushed
<1> HIDE DEF pf, pi
<1> DEFINE low == CallerStack \o pf
<1>6. /\ low \in Seq(CallWords) /\ Len(low) = Len(CallerStack) + Len(pf)
      /\ \A k \in 1..Len(pf) : FromTop(low, k) = FromTop(pf, k)
  <2>1. CallerStack \in Seq(CallWords) /\ pf \in Seq(CallWords)
    BY <1>1
  <2> QED
    BY <2>1, TopOfConcat
<1>7. AllPushed = low \o pi
  BY <1>5
<1> HIDE DEF low
<1>8. /\ AllPushed \in Seq(CallWords) /\ Len(AllPushed) = Len(low) + Len(pi)
      /\ \A k \in 1..Len(pi) : FromTop(AllPushed, k) = FromTop(pi, k)
      /\ \A k \in 1..Len(low) : FromTop(AllPushed, Len(pi) + k) = FromTop(low, k)
  <2>1. low \in Seq(CallWords) /\ pi \in Seq(CallWords)
    BY <1>1, <1>6
  <2> QED
    BY <1>7, <2>1, TopOfConcat
<1>9. \A i \in IntsIn : FromTop(AllPushed, CountTo(Ints, i)) = AbiWord(i)
  BY <1>1, <1>3, <1>8
<1>10. ASSUME NEW i \in FloatsIn
       PROVE  FromTop(AllPushed, CountTo(IntsIn, Given) + CountTo(Floats, i)) = AbiWord(i)
  <2>1. CountTo(Floats, i) \in 1..Len(pf) /\ FromTop(pf, CountTo(Floats, i)) = AbiWord(i)
    BY <1>1, <1>4
  <2>2. CountTo(Floats, i) \in 1..Len(low)
    BY <1>1, <1>2, <1>6, <2>1
  <2> QED
    BY <1>1, <1>6, <1>8, <2>1, <2>2
<1>11. Dropped(AllPushed, CountTo(IntsIn, Given) + CountTo(FloatsIn, Given)) = CallerStack
  <2> DEFINE top == pf \o pi
  <2>1. top \in Seq(CallWords) /\ Len(top) = Len(pf) + Len(pi)
    BY <1>1, ConcatProperties
  <2>2. AllPushed = CallerStack \o top
    BY <1>1, <1>5, ConcatAssociative
  <2> HIDE DEF top
  <2>3. Dropped(CallerStack \o top, Len(top)) = CallerStack
    BY <1>1, <2>1, DropConcat
  <2>4. Len(top) = CountTo(IntsIn, Given) + CountTo(FloatsIn, Given)
    BY <1>1, <1>2, <2>1
  <2> QED
    BY <2>2, <2>3, <2>4
<1>12. Len(AllPushed) = Len(CallerStack) + CountTo(FloatsIn, Given) + CountTo(IntsIn, Given)
  BY <1>1, <1>2, <1>6, <1>8
<1> QED
  BY <1>3, <1>4, <1>8, <1>9, <1>10, <1>11, <1>12

\* The pops into the registers.
LEMMA PopsStep == ASSUME IInv, PopArgs PROVE IInv'
<1> DEFINE ni == CountTo(IntsIn, Given)
<1> DEFINE nf == CountTo(FloatsIn, Given)
<1> DEFINE word(k) == IF k < Len(m.stack) THEN m.stack[Len(m.stack) - k] ELSE Junk
<1> DEFINE ints == [r \in 1..IntRegs |-> IF r <= ni THEN word(r - 1) ELSE m.ints[r]]
<1> DEFINE floats == [r \in 1..FloatRegs |-> IF r <= nf THEN word(ni + r - 1) ELSE m.floats[r]]
<1> DEFINE al == IF sig.variadic THEN nf ELSE m.al
<1>1. /\ Good /\ m \in Machines /\ m.stack = AllPushed /\ m.rbp = 0 /\ m.slots = << >>
      /\ phase = "pops" /\ phase' = "call" /\ sig' = sig
  BY DEF IInv, PopArgs, Goto, AtCaller
<1>2. Least(IntArgCount, IntRegs) = ni /\ Least(FloatArgCount, FloatRegs) = nf
  BY <1>1, PassedCounts
<1>3. m' = [m EXCEPT !.ints = ints, !.floats = floats, !.stack = Dropped(m.stack, ni + nf),
                     !.al = al]
  BY <1>2 DEF PopArgs
<1>4. ni \in Nat /\ nf \in Nat
  BY <1>1, PassedCounts
<1>5. ni <= IntRegs /\ nf <= FloatRegs
  <2>1. /\ CountTo(IntsIn, Given) =
             IF CountTo(Ints, Given) <= IntRegs THEN CountTo(Ints, Given) ELSE IntRegs
        /\ CountTo(FloatsIn, Given) =
             IF CountTo(Floats, Given) <= FloatRegs THEN CountTo(Floats, Given) ELSE FloatRegs
    BY <1>1, SigFacts, RegsType, CountFirst DEF IntsIn, FloatsIn
  <2>2. CountTo(Ints, Given) \in Nat /\ CountTo(Floats, Given) \in Nat
    BY <1>1, SigFacts, CountNat
  <2> QED
    BY <2>1, <2>2, RegsType
<1>6. /\ m.stack \in Seq(CallWords) /\ Len(m.stack) \in Nat
      /\ Len(m.stack) >= ni + nf
      /\ Dropped(m.stack, ni + nf) = CallerStack
  <2>1. /\ Len(AllPushed) = Len(CallerStack) + nf + ni
        /\ Dropped(AllPushed, ni + nf) = CallerStack /\ AllPushed \in Seq(CallWords)
    BY <1>1, ArgsOnTop
  <2>2. CallerStack \in Seq(CallWords)
    BY <1>1, StackShapes
  <2>3. Len(CallerStack) \in Nat
    BY <2>2, LenProperties
  <2> QED
    BY <1>1, <1>4, <2>1, <2>3
<1>7. \A k \in Nat : word(k) \in CallWords
  <2> TAKE k \in Nat
  <2>1. k < Len(m.stack) => Len(m.stack) - k \in 1..Len(m.stack)
    BY <1>6
  <2>2. \A i \in 1..Len(m.stack) : m.stack[i] \in CallWords
    BY <1>6
  <2> QED
    BY <2>1, <2>2, WordsHeld
<1>8. ints \in [1..IntRegs -> CallWords] /\ floats \in [1..FloatRegs -> CallWords]
  <2>1. m.ints \in [1..IntRegs -> CallWords] /\ m.floats \in [1..FloatRegs -> CallWords]
    BY <1>1 DEF Machines
  <2>2. \A r \in 1..IntRegs : r - 1 \in Nat
    OBVIOUS
  <2>3. \A r \in 1..FloatRegs : ni + r - 1 \in Nat
    BY <1>4
  <2> HIDE DEF word, ni, nf
  <2> QED
    BY <1>7, <2>1, <2>2, <2>3
<1>9. \A i \in IntsIn : ints[CountTo(Ints, i)] = AbiWord(i)
  <2> TAKE i \in IntsIn
  <2> DEFINE r == CountTo(Ints, i)
  <2>1. r \in 1..ni /\ FromTop(m.stack, r) = AbiWord(i)
    BY <1>1, ArgsOnTop
  <2> HIDE DEF r, ni, nf
  <2>2. /\ r \in 1..IntRegs /\ r <= ni /\ r - 1 < Len(m.stack)
        /\ Len(m.stack) - (r - 1) = Len(m.stack) + 1 - r
    BY <1>4, <1>5, <1>6, <2>1, RegsType
  <2>3. word(r - 1) = FromTop(m.stack, r)
    BY <2>2 DEF FromTop
  <2> HIDE DEF word
  <2>4. ints[r] = word(r - 1)
    BY <2>2
  <2> QED
    BY <2>1, <2>3, <2>4 DEF r
<1>10. \A i \in FloatsIn : floats[CountTo(Floats, i)] = AbiWord(i)
  <2> TAKE i \in FloatsIn
  <2> DEFINE r == CountTo(Floats, i)
  <2>1. r \in 1..nf /\ FromTop(m.stack, ni + r) = AbiWord(i)
    BY <1>1, ArgsOnTop
  <2> HIDE DEF r, ni, nf
  <2>2. /\ r \in 1..FloatRegs /\ r <= nf /\ ni + r - 1 < Len(m.stack)
        /\ Len(m.stack) - (ni + r - 1) = Len(m.stack) + 1 - (ni + r)
    BY <1>4, <1>5, <1>6, <2>1, RegsType
  <2>3. word(ni + r - 1) = FromTop(m.stack, ni + r)
    BY <2>2 DEF FromTop
  <2> HIDE DEF word
  <2>4. floats[r] = word(ni + r - 1)
    BY <2>2
  <2> QED
    BY <2>1, <2>3, <2>4 DEF r
<1> HIDE DEF ints, floats
<1>11. /\ m' \in Machines /\ m'.stack = CallerStack /\ m'.rbp = 0 /\ m'.slots = << >>
       /\ m'.ints = ints /\ m'.floats = floats /\ m'.al = al
  <2>1. CallerStack \in Seq(CallWords)
    BY <1>1, StackShapes
  <2>2. al \in Int
    BY <1>1, <1>4 DEF Machines
  <2> HIDE DEF al, ni, nf
  <2>3. m' = [m EXCEPT !.ints = ints, !.floats = floats, !.stack = CallerStack, !.al = al]
    BY <1>3, <1>6
  <2> QED
    BY <1>1, <1>8, <2>1, <2>2, <2>3 DEF Machines
<1>12. ICall'
  <2>1. IntsKept(1)'
    BY <1>1, <1>9, <1>11, SigSame DEF IntsKept
  <2>2. FloatsKept(1)'
    BY <1>1, <1>10, <1>11, SigSame DEF FloatsKept
  <2>3. (sig.variadic => m.al = CountTo(FloatsIn, Given))'
    BY <1>1, <1>11, SigSame
  <2> QED
    BY <2>1, <2>2, <2>3 DEF ICall
<1>13. Good' /\ (m \in Machines)'
  BY <1>1, <1>11, SigSame, MachinesSame
<1>14. (IParams /\ IBody /\ IReturn)'
  BY <1>1 DEF IParams, IBody, IReturn
<1>15. AtCaller("call", CallerStack)'
  BY <1>1, <1>11, StacksSame DEF AtCaller
<1> QED
  BY <1>1, <1>11, <1>12, <1>13, <1>14, <1>15 DEF IInv, AtCaller

-----------------------------------------------------------------------------
(* The steps of the function, and the return *)

\* Below the return address: the arguments on the stack, the leftmost on top, then temp's address.
LEMMA SpilledOnTop ==
  ASSUME Good
  PROVE  /\ \A i \in Spilled : /\ CountTo(Spilled, i) \in 1..CountTo(Spilled, Given)
                               /\ CountTo(Spilled, i) \in 1..Len(CallerStack)
                               /\ FromTop(CallerStack, CountTo(Spilled, i)) = AbiWord(i)
         /\ StructRet => /\ CountTo(Spilled, Given) + 1 \in 1..Len(CallerStack)
                         /\ FromTop(CallerStack, CountTo(Spilled, Given) + 1) = TempAddress
<1> DEFINE ps == Pushed(Spilled)
<1> DEFINE n == CountTo(Spilled, Given)
<1>1. /\ Prepared \in Seq(CallWords) /\ ps \in Seq(CallWords) /\ Len(ps) = n
      /\ CallerStack = Prepared \o ps
      /\ \A i \in Spilled : /\ CountTo(Spilled, i) \in 1..n
                            /\ FromTop(ps, CountTo(Spilled, i)) = AbiWord(i)
  BY StackShapes, PassesIn, PushedIs DEF CallerStack
<1>2. n \in Nat /\ Len(Prepared) \in Nat
  BY <1>1, PassedCounts, LenProperties
<1> HIDE DEF ps
<1>3. /\ Len(CallerStack) = Len(Prepared) + Len(ps)
      /\ \A k \in 1..Len(ps) : FromTop(CallerStack, k) = FromTop(ps, k)
      /\ \A k \in 1..Len(Prepared) : FromTop(CallerStack, Len(ps) + k) = FromTop(Prepared, k)
  <2>1. Prepared \in Seq(CallWords) /\ ps \in Seq(CallWords) /\ CallerStack = Prepared \o ps
    BY <1>1
  <2> QED
    BY <2>1, TopOfConcat
<1>4. ASSUME NEW i \in Spilled
      PROVE  /\ CountTo(Spilled, i) \in 1..n /\ CountTo(Spilled, i) \in 1..Len(CallerStack)
             /\ FromTop(CallerStack, CountTo(Spilled, i)) = AbiWord(i)
  <2> DEFINE r == CountTo(Spilled, i)
  <2>1. r \in 1..n /\ FromTop(ps, r) = AbiWord(i)
    BY <1>1
  <2> HIDE DEF r, n
  <2>2. r \in 1..n /\ r \in 1..Len(CallerStack) /\ FromTop(CallerStack, r) = AbiWord(i)
    BY <1>1, <1>2, <1>3, <2>1
  <2> QED
    BY <2>2 DEF r
<1>5. ASSUME StructRet
      PROVE  n + 1 \in 1..Len(CallerStack) /\ FromTop(CallerStack, n + 1) = TempAddress
  <2>1. Prepared = AlignedStack \o <<TempAddress>> /\ AlignedStack \in Seq(CallWords)
    BY <1>5, AlignedStackIs DEF Prepared, TempWords
  <2>2. /\ <<TempAddress>> \in Seq(CallWords) /\ Len(<<TempAddress>>) = 1
        /\ <<TempAddress>>[1] = TempAddress
    BY WordsHeld
  <2> DEFINE temp == <<TempAddress>>
  <2>3. temp \in Seq(CallWords) /\ Len(temp) = 1 /\ FromTop(temp, 1) = TempAddress
    BY <2>2 DEF FromTop
  <2> HIDE DEF temp
  <2>4. /\ Len(AlignedStack \o temp) = Len(AlignedStack) + Len(temp)
        /\ \A k \in 1..Len(temp) : FromTop(AlignedStack \o temp, k) = FromTop(temp, k)
    <3>1. AlignedStack \in Seq(CallWords) /\ temp \in Seq(CallWords)
      BY <2>1, <2>3
    <3> QED
      BY <3>1, TopOfConcat
  <2>5. AlignedStack \o temp = Prepared
    BY <2>1 DEF temp
  <2>6. FromTop(Prepared, 1) = TempAddress /\ Len(Prepared) >= 1
    <3>1. Len(AlignedStack) \in Nat
      BY <2>1, LenProperties
    <3> QED
      BY <2>3, <2>4, <2>5, <3>1
  <2> HIDE DEF n
  <2> QED
    BY <1>1, <1>2, <1>3, <2>6
<1> QED
  BY <1>4, <1>5

\* The stack in the function.
LEMMA EnteredIs ==
  ASSUME Good, NEW kept \in Seq(CallWords)
  PROVE  /\ Entered \in Seq(CallWords) /\ Entered \o kept \in Seq(CallWords)
         /\ Len(Entered \o kept) = Len(CallerStack) + 2 + FrameWords + Len(kept)
         /\ \A k \in 1..Len(CallerStack) : (Entered \o kept)[k] = CallerStack[k]
         /\ Dropped(Entered \o kept, FrameWords + Len(kept)) =
              CallerStack \o <<ReturnAddress, SavedRbp>>
<1> DEFINE link == <<ReturnAddress, SavedRbp>>
<1> DEFINE frame == [k \in 1..FrameWords |-> Junk]
<1> DEFINE low == CallerStack \o link
<1> DEFINE up == frame \o kept
<1>1. CallerStack \in Seq(CallWords) /\ Len(CallerStack) \in Nat /\ Len(kept) \in Nat
  BY StackShapes, LenProperties
<1>2. link \in Seq(CallWords) /\ Len(link) = 2
  BY WordsHeld
<1>3. frame \in Seq(CallWords) /\ Len(frame) = FrameWords
  <2>1. frame \in [1..FrameWords -> CallWords] /\ FrameWords \in Nat
    BY WordsHeld, RegsType
  <2> HIDE DEF frame
  <2> QED
    BY <2>1
<1>4. Entered = low \o frame
  BY DEF Entered
<1> HIDE DEF link, frame
<1>5. /\ low \in Seq(CallWords) /\ Len(low) = Len(CallerStack) + 2
      /\ \A k \in 1..Len(CallerStack) : low[k] = CallerStack[k]
  <2>1. CallerStack \in Seq(CallWords) /\ link \in Seq(CallWords)
    BY <1>1, <1>2
  <2>2. /\ low \in Seq(CallWords) /\ Len(low) = Len(CallerStack) + Len(link)
        /\ \A k \in 1..Len(CallerStack) + Len(link) :
             low[k] = IF k <= Len(CallerStack) THEN CallerStack[k] ELSE link[k - Len(CallerStack)]
    BY <2>1, ConcatProperties
  <2> HIDE DEF low
  <2> QED
    BY <1>1, <1>2, <2>2
<1>6. up \in Seq(CallWords) /\ Len(up) = FrameWords + Len(kept)
  <2>1. frame \in Seq(CallWords)
    BY <1>3
  <2> QED
    BY <1>3, <2>1, ConcatProperties
<1> HIDE DEF low
<1>7. Entered \in Seq(CallWords)
  <2>1. low \in Seq(CallWords) /\ frame \in Seq(CallWords)
    BY <1>3, <1>5
  <2> QED
    BY <1>4, <2>1, ConcatProperties
<1>8. Entered \o kept = low \o up
  <2>1. low \in Seq(CallWords) /\ frame \in Seq(CallWords)
    BY <1>3, <1>5
  <2> QED
    BY <1>4, <2>1, ConcatAssociative
<1> HIDE DEF up
<1>9. /\ low \o up \in Seq(CallWords) /\ Len(low \o up) = Len(low) + Len(up)
      /\ \A k \in 1..Len(low) + Len(up) :
           (low \o up)[k] = IF k <= Len(low) THEN low[k] ELSE up[k - Len(low)]
      /\ Dropped(low \o up, Len(up)) = low
  <2>1. low \in Seq(CallWords) /\ up \in Seq(CallWords)
    BY <1>5, <1>6
  <2> QED
    BY <2>1, ConcatProperties, DropConcat
<1>10. Len(Entered \o kept) = Len(CallerStack) + 2 + FrameWords + Len(kept)
  BY <1>1, <1>5, <1>6, <1>8, <1>9, RegsType
<1>11. ASSUME NEW k \in 1..Len(CallerStack)
       PROVE  (Entered \o kept)[k] = CallerStack[k]
  <2>1. k \in 1..Len(low) + Len(up) /\ k <= Len(low)
    BY <1>1, <1>5, <1>6, RegsType
  <2> QED
    BY <1>5, <1>8, <1>9, <2>1
<1> QED
  BY <1>6, <1>7, <1>8, <1>9, <1>10, <1>11 DEF low, link

\* What the function finds above the return address.
LEMMA AboveIs ==
  ASSUME Good, InFunction, NEW kept \in Seq(CallWords), m.stack = Entered \o kept
  PROVE  \A w \in 1..Len(CallerStack) : AboveRbp(w + 1) = FromTop(CallerStack, w)
<1> TAKE w \in 1..Len(CallerStack)
<1> DEFINE n == Len(CallerStack)
<1>1. CallerStack \in Seq(CallWords) /\ n \in Nat /\ Len(kept) \in Nat
  BY StackShapes, LenProperties
<1>2. /\ m.stack \in Seq(CallWords) /\ Len(m.stack) = n + 2 + FrameWords + Len(kept)
      /\ \A k \in 1..n : m.stack[k] = CallerStack[k]
  BY EnteredIs
<1>3. m.rbp = n + 2
  BY DEF InFunction
<1>4. DOMAIN m.stack = 1..Len(m.stack)
  BY <1>2
<1> HIDE DEF n
<1>5. m.rbp - (w + 1) = n + 1 - w /\ n + 1 - w \in 1..n /\ n + 1 - w \in 1..Len(m.stack)
  <2>1. w \in 1..n
    BY DEF n
  <2> QED
    BY <1>1, <1>2, <1>3, <2>1, RegsType
<1> QED
  BY <1>2, <1>4, <1>5 DEF AboveRbp, FromTop, n

\* call and the function's first instructions.
LEMMA EnterStep == ASSUME IInv, Enter PROVE IInv'
<1>1. /\ Good /\ m \in Machines /\ m.stack = CallerStack /\ m.slots = << >>
      /\ phase = "call" /\ phase' = "params" /\ sig' = sig /\ param' = 1
  BY DEF IInv, Enter, AtCaller
<1>2. m' = [m EXCEPT !.stack = Entered, !.rbp = Len(CallerStack) + 2]
  BY <1>1 DEF Enter, Entered
<1>3. Entered \in Seq(CallWords) /\ Len(CallerStack) + 2 \in Nat
  <2>1. << >> \in Seq(CallWords)
    OBVIOUS
  <2>2. Entered \in Seq(CallWords)
    BY <1>1, <2>1, EnteredIs
  <2>3. Len(CallerStack) \in Nat
    BY <1>1, StackShapes, LenProperties
  <2> QED
    BY <2>2, <2>3
<1>4. /\ m' \in Machines /\ m'.stack = Entered /\ m'.rbp = Len(CallerStack) + 2
      /\ m'.slots = << >> /\ m'.ints = m.ints /\ m'.floats = m.floats
  BY <1>1, <1>2, <1>3 DEF Machines
<1>5. IParams'
  <2>1. InFunction' /\ (m.stack = Entered)'
    BY <1>1, <1>4, StacksSame DEF InFunction
  <2>2. (param \in 1..(Fixed + 1))' /\ (Len(m.slots) = param - 1)'
    BY <1>1, <1>4, SigFacts, SigSame
  <2>3. (\A i \in 1..(param - 1) : m.slots[i] = Value(i, sig.params[i]))'
    BY <1>1
  <2>4. IntsKept(param)'
    BY <1>1, <1>4, SigSame DEF IInv, ICall, IntsKept
  <2>5. FloatsKept(param)'
    BY <1>1, <1>4, SigSame DEF IInv, ICall, FloatsKept
  <2> QED
    BY <2>1, <2>2, <2>3, <2>4, <2>5 DEF IParams
<1>6. Good' /\ (m \in Machines)'
  BY <1>1, <1>4, SigSame, MachinesSame
<1>7. (ICall /\ IBody /\ IReturn)'
  BY <1>1 DEF ICall, IBody, IReturn
<1> QED
  BY <1>1, <1>5, <1>6, <1>7 DEF IInv, AtCaller

\* A parameter is found where its argument was put.
LEMMA PassedIs ==
  ASSUME IInv, phase = "params", param <= Fixed
  PROVE  Passed(param) = AbiWord(param)
<1>1. /\ Good /\ InFunction /\ m.stack = Entered /\ IntsKept(param)
      /\ (\A j \in 1..(param - 1) : sig.params[j] # "struct") => FloatsKept(param)
      /\ param \in 1..(Fixed + 1)
  BY DEF IInv, IParams
<1>2. param \in 1..Fixed /\ param \in 1..Given /\ param \in Nat /\ param >= param
  BY <1>1, SigFacts
<1>3. /\ ByRegister(param) <=> InRegister(param)
      /\ param \in Floats => CountTo(Floats, param) = FloatsBefore(param) + 1
      /\ param \in Ints => CountTo(Ints, param) = IntsBefore(param) + 1
      /\ param \in Floats <=> IsFloat(sig.params[param])
      /\ param \in Ints <=> ~IsFloat(sig.params[param])
  BY <1>1, <1>2, ByRegisterIs
<1>4. CASE ~ByRegister(param)
  <2>1. param \in Spilled
    BY <1>2, <1>3, <1>4 DEF Spilled
  <2>2. StackArgsBefore(param) = CountTo(Spilled, param - 1)
    BY <1>1, StackArgsBeforeIs
  <2>3. CountTo(Spilled, param) = CountTo(Spilled, param - 1) + 1
    <3>1. param - 1 \in Nat /\ (param - 1) + 1 = param
      BY <1>2
    <3> QED
      BY <2>1, <3>1, CountNext
  <2>4. CountTo(Spilled, param - 1) \in Nat
    BY <1>2, CountNat
  <2>5. /\ CountTo(Spilled, param) \in 1..Len(CallerStack)
        /\ FromTop(CallerStack, CountTo(Spilled, param)) = AbiWord(param)
    BY <1>1, <2>1, SpilledOnTop
  <2>6. AboveRbp(CountTo(Spilled, param) + 1) = FromTop(CallerStack, CountTo(Spilled, param))
    <3>1. << >> \in Seq(CallWords) /\ m.stack = Entered \o << >>
      <4>1. << >> \in Seq(CallWords)
        OBVIOUS
      <4>2. Entered \in Seq(CallWords)
        BY <1>1, <4>1, EnteredIs
      <4> QED
        BY <1>1, <4>1, <4>2, ConcatEmptySeq
    <3>2. \A w \in 1..Len(CallerStack) : AboveRbp(w + 1) = FromTop(CallerStack, w)
      BY <1>1, <3>1, AboveIs
    <3> QED
      BY <2>5, <3>2
  <2>7. StackArgsBefore(param) + 2 = CountTo(Spilled, param) + 1
    BY <2>2, <2>3, <2>4
  <2> QED
    BY <1>4, <2>5, <2>6, <2>7 DEF Passed
<1>5. CASE ByRegister(param) /\ IsFloat(sig.params[param])
  <2>1. param \in FloatsIn
    <3>1. param \in FloatsIn \union IntsIn /\ param \notin Ints
      BY <1>1, <1>2, <1>3, <1>5, RankIs
    <3> QED
      BY <3>1, PassesIn
  <2>2. \A j \in 1..(param - 1) : sig.params[j] # "struct"
    <3>1. DOMAIN sig.params = 1..Fixed
      BY <1>1, CallsAssumption DEF Good, IsSignature, Fixed
    <3>2. \A j \in 1..(param - 1) : j \in 1..Fixed /\ j < param
      BY <1>1, <1>2, SigFacts
    <3> QED
      BY <1>1, <1>2, <1>5, <3>1, <3>2 DEF Good, Plain
  <2>3. m.floats[CountTo(Floats, param)] = AbiWord(param)
    BY <1>1, <1>2, <2>1, <2>2 DEF FloatsKept
  <2> QED
    BY <1>3, <1>5, <2>3 DEF Passed
<1>6. CASE ByRegister(param) /\ ~IsFloat(sig.params[param])
  <2>1. param \in IntsIn
    <3>1. param \in FloatsIn \union IntsIn /\ param \notin Floats
      BY <1>1, <1>2, <1>3, <1>6, RankIs
    <3> QED
      BY <3>1, PassesIn
  <2>2. m.ints[CountTo(Ints, param)] = AbiWord(param)
    BY <1>1, <1>2, <2>1 DEF IntsKept
  <2> QED
    BY <1>3, <1>6, <2>2 DEF Passed
<1> QED
  BY <1>4, <1>5, <1>6

\* One parameter: registers of later ones stay as they are.
LEMMA StoreStep == ASSUME IInv, StoreParam PROVE IInv'
<1> DEFINE class == sig.params[param]
<1> DEFINE slots == Append(m.slots, Value(param, class))
<1>1. /\ Good /\ m \in Machines /\ InFunction /\ m.stack = Entered /\ IntsKept(param)
      /\ (\A j \in 1..(param - 1) : sig.params[j] # "struct") => FloatsKept(param)
      /\ Len(m.slots) = param - 1
      /\ \A i \in 1..(param - 1) : m.slots[i] = Value(i, sig.params[i])
      /\ phase = "params" /\ phase' = "params" /\ sig' = sig /\ param' = param + 1
      /\ param \in 1..Fixed /\ Fixed \in Nat /\ param \in 1..Given
  <2>1. phase = "params" /\ param <= Fixed /\ IInv
    BY DEF StoreParam
  <2>2. param \in 1..(Fixed + 1) /\ Good
    BY <2>1 DEF IInv, IParams
  <2>3. param \in 1..Fixed /\ Fixed \in Nat /\ param \in 1..Given
    BY <2>1, <2>2, SigFacts
  <2> QED
    BY <2>1, <2>3 DEF IInv, IParams, StoreParam
<1>2. Passed(param) = IF class = "struct" THEN AddressOf(param) ELSE Value(param, class)
  <2>1. Passed(param) = AbiWord(param)
    BY PassedIs DEF StoreParam
  <2>2. AbiClass(param) = class
    BY <1>1, SigFacts
  <2> QED
    BY <2>1, <2>2 DEF AbiWord
<1>3. /\ slots \in Seq({Junk} \union Values) /\ Len(slots) = param
      /\ \A i \in 1..param : slots[i] = Value(i, sig.params[i])
  <2> DEFINE W == {Junk} \union Values
  <2>1. m.slots \in Seq(W)
    BY <1>1 DEF Machines
  <2>2. Value(param, class) \in W
    BY <1>1, SigFacts DEF Values
  <2> DEFINE v == Value(param, class)
  <2> HIDE DEF W, v
  <2>3. /\ Append(m.slots, v) \in Seq(W) /\ Len(Append(m.slots, v)) = Len(m.slots) + 1
        /\ \A i \in 1..Len(m.slots) : Append(m.slots, v)[i] = m.slots[i]
        /\ Append(m.slots, v)[Len(m.slots) + 1] = v
    BY <2>1, <2>2, AppendProperties DEF v
  <2>4. \A i \in 1..param : i = param \/ i \in 1..(param - 1)
    BY <1>1
  <2>5. Len(m.slots) + 1 = param /\ 1..Len(m.slots) = 1..(param - 1)
    BY <1>1
  <2>6. \A i \in 1..param : Append(m.slots, v)[i] = Value(i, sig.params[i])
    <3> TAKE i \in 1..param
    <3>1. CASE i = param
      BY <2>3, <2>5, <3>1 DEF v
    <3>2. CASE i \in 1..(param - 1)
      BY <1>1, <2>3, <2>5, <3>2
    <3> QED
      BY <2>4, <3>1, <3>2
  <2> QED
    BY <2>3, <2>5, <2>6 DEF W, v
<1> HIDE DEF slots
<1>4. /\ m' \in Machines /\ m'.stack = m.stack /\ m'.rbp = m.rbp /\ m'.slots = slots
      /\ IntsKept(param)'
      /\ (\A j \in 1..param : sig.params[j] # "struct") => FloatsKept(param)'
  <2>1. CASE class # "struct"
    <3>1. m' = [m EXCEPT !.slots = slots]
      BY <1>2, <2>1 DEF StoreParam, slots
    <3>2. /\ m' \in Machines /\ m'.stack = m.stack /\ m'.rbp = m.rbp /\ m'.slots = slots
          /\ m'.ints = m.ints /\ m'.floats = m.floats
      BY <1>1, <1>3, <3>1 DEF Machines
    <3>3. \A i \in Nat : i >= param + 1 => i >= param
      BY <1>1
    <3>4. \A i \in 1..Given : i \in Nat
      BY <1>1, SigFacts
    <3>5. IntsKept(param)'
      BY <1>1, <3>2, <3>3, <3>4, SigSame, PassesIn DEF IntsKept
    <3>6. FloatsKept(param) => FloatsKept(param)'
      BY <1>1, <3>2, <3>3, <3>4, SigSame, PassesIn DEF FloatsKept
    <3>7. (\A j \in 1..param : sig.params[j] # "struct")
            => \A j \in 1..(param - 1) : sig.params[j] # "struct"
      BY <1>1
    <3> QED
      BY <1>1, <3>2, <3>5, <3>6, <3>7
  <2>2. CASE class = "struct"
    <3> DEFINE kept == IntsBefore(param) + 1
    <3> DEFINE ints == [r \in 1..IntRegs |-> IF r > kept THEN m.ints[r] ELSE Junk]
    <3> DEFINE floats == [r \in 1..FloatRegs |-> Junk]
    <3>1. Copied(Passed(param)) = Value(param, class)
      BY <1>2, <2>2 DEF Copied, AddressOf
    <3>2. m' = [[m EXCEPT !.ints = ints, !.floats = floats]
                  EXCEPT !.slots = Append(@, Value(param, class))]
      BY <2>2, <3>1 DEF StoreParam, CalledMemcpy
    <3>3. m' = [m EXCEPT !.ints = ints, !.floats = floats, !.slots = slots]
      BY <1>1, <3>2 DEF Machines, slots
    <3>4. ints \in [1..IntRegs -> CallWords] /\ floats \in [1..FloatRegs -> CallWords]
      <4>1. m.ints \in [1..IntRegs -> CallWords]
        BY <1>1 DEF Machines
      <4> QED
        BY <4>1, WordsHeld
    <3>5. param \in Ints /\ CountTo(Ints, param) = kept
      BY <1>1, <2>2, ByRegisterIs DEF IsFloat
    <3>6. \A i \in IntsIn : i >= param + 1 => ints[CountTo(Ints, i)] = m.ints[CountTo(Ints, i)]
      <4> TAKE i \in IntsIn
      <4> HAVE i >= param + 1
      <4> DEFINE c == CountTo(Ints, i)
      <4>1. i \in Nat /\ i \in Ints /\ param < i /\ c <= IntRegs /\ param \in Nat
        BY <1>1, PassesIn, SigFacts DEF IntsIn, First
      <4>2. kept < c
        BY <3>5, <4>1, CountGrows
      <4>3. kept \in Nat /\ c \in Nat
        BY <3>5, <4>1, CountNat
      <4> HIDE DEF c, kept
      <4>4. c \in 1..IntRegs /\ c > kept
        BY <4>1, <4>2, <4>3, RegsType
      <4> QED
        BY <4>4 DEF c
    <3> HIDE DEF ints, floats
    <3>7. /\ m' \in Machines /\ m'.stack = m.stack /\ m'.rbp = m.rbp /\ m'.slots = slots
          /\ m'.ints = ints
      BY <1>1, <1>3, <3>3, <3>4 DEF Machines
    <3>8. IntsKept(param)'
      <4>1. \A i \in IntsIn : i >= param + 1 => i >= param
        <5>1. Given \in Nat /\ IntsIn \subseteq 1..Given
          <6>1. Good
            BY <1>1
          <6> QED
            BY <6>1, PassesIn, SigFacts
        <5> QED
          BY <1>1, <5>1
      <4> QED
        BY <1>1, <3>6, <3>7, <4>1, SigSame DEF IntsKept
    <3>9. ~(\A j \in 1..param : sig.params[j] # "struct")
      BY <1>1, <2>2
    <3> QED
      BY <3>7, <3>8, <3>9
  <2> QED
    BY <2>1, <2>2
<1>5. IParams'
  <2>1. InFunction' /\ (m.stack = Entered)'
    BY <1>1, <1>4, StacksSame DEF InFunction
  <2>2. (param \in 1..(Fixed + 1))' /\ (Len(m.slots) = param - 1)'
    BY <1>1, <1>3, <1>4, SigSame
  <2>3. (\A i \in 1..(param - 1) : m.slots[i] = Value(i, sig.params[i]))'
    BY <1>1, <1>3, <1>4
  <2>4. /\ IntsKept(param)'
        /\ ((\A j \in 1..(param - 1) : sig.params[j] # "struct") => FloatsKept(param))'
    <3>1. 1..(param' - 1) = 1..param /\ param' = param + 1
      BY <1>1
    <3> QED
      BY <1>1, <1>4, <3>1 DEF IntsKept, FloatsKept
  <2> QED
    BY <2>1, <2>2, <2>3, <2>4 DEF IParams
<1>6. Good' /\ (m \in Machines)'
  BY <1>1, <1>4, SigSame, MachinesSame
<1>7. (ICall /\ IBody /\ IReturn)'
  BY <1>1 DEF ICall, IBody, IReturn
<1> QED
  BY <1>1, <1>5, <1>6, <1>7 DEF IInv, AtCaller

\* Nothing pushed.
LEMMA NoWords == << >> \in Seq(CallWords) /\ Len(<< >>) = 0
OBVIOUS

\* The registers behind the parameters, kept in the order in which a va_list reads them.
LEMMA KeptIs ==
  ASSUME IInv, phase = "params", param = Fixed + 1, sig.variadic
  PROVE  /\ PushFutureCallRegs(Fixed) \in Seq(CallWords)
         /\ Len(PushFutureCallRegs(Fixed)) = IntRegs - Fixed
         /\ Readable(PushFutureCallRegs(Fixed))
<1> DEFINE kept == [k \in 1..(IntRegs - Fixed) |-> m.ints[IntRegs + 1 - k]]
<1>1. Good /\ m \in Machines /\ Fixed \in Nat /\ Given \in Nat /\ Fixed <= IntRegs
  BY SigFacts DEF IInv
<1>2. IntRegs - Fixed \in Nat
  BY <1>1, RegsType
<1>3. kept \in Seq(CallWords) /\ Len(kept) = IntRegs - Fixed
  <2>1. m.ints \in [1..IntRegs -> CallWords]
    BY <1>1 DEF Machines
  <2>2. \A k \in 1..(IntRegs - Fixed) : IntRegs + 1 - k \in 1..IntRegs
    BY <1>1, RegsType
  <2>3. kept \in [1..(IntRegs - Fixed) -> CallWords]
    BY <2>1, <2>2
  <2> HIDE DEF kept
  <2> QED
    BY <1>2, <2>3
<1>4. PushFutureCallRegs(Fixed) = kept
  <2>1. CASE Fixed >= IntRegs
    <3>1. 1..(IntRegs - Fixed) = {}
      BY <1>1, <2>1, RegsType
    <3>2. kept = << >>
      BY <3>1
    <3> QED
      BY <2>1, <3>2 DEF PushFutureCallRegs
  <2>2. CASE ~(Fixed >= IntRegs)
    BY <2>2 DEF PushFutureCallRegs
  <2> QED
    BY <2>1, <2>2
<1>5. ASSUME Given <= IntRegs, \A i \in 1..Given : AbiClass(i) = "int",
             NEW i \in (Fixed + 1)..Given
      PROVE  FromTop(kept, i - Fixed) = Value(i, "int")
  <2>1. i \in 1..Given /\ i \in Nat /\ i <= IntRegs /\ i > Fixed
    BY <1>1, <1>5, RegsType
  <2>2. 1..i \subseteq Ints
    <3>1. \A j \in 1..i : j \in 1..Given
      BY <1>1, <2>1
    <3> QED
      BY <1>5, <3>1 DEF Ints, IsFloat
  <2>3. CountTo(Ints, i) = i
    BY <2>1, <2>2, CountAll
  <2>4. i \in IntsIn
    BY <2>1, <2>2, <2>3 DEF IntsIn, First
  <2>5. m.ints[i] = AbiWord(i)
    <3>1. i >= param
      BY <1>1, <2>1
    <3>2. IntsKept(param)
      BY DEF IInv, IParams
    <3> QED
      BY <2>3, <2>4, <3>1, <3>2 DEF IntsKept
  <2>6. AbiWord(i) = Value(i, "int")
    BY <1>5, <2>1 DEF AbiWord
  <2>7. /\ Len(kept) + 1 - (i - Fixed) = IntRegs + 1 - i
        /\ IntRegs + 1 - i \in 1..(IntRegs - Fixed) /\ IntRegs + 1 - (IntRegs + 1 - i) = i
    <3> HIDE DEF kept
    <3> QED
      BY <1>1, <1>3, <2>1, RegsType
  <2> QED
    BY <2>5, <2>6, <2>7 DEF FromTop
<1> HIDE DEF kept
<1>6. Readable(kept)
  BY <1>5 DEF Readable
<1> QED
  BY <1>3, <1>4, <1>6

\* What a va_list reads of the saved registers does not change.
LEMMA ReadableSame ==
  ASSUME sig' = sig, NEW CONSTANT kept, Readable(kept)
  PROVE  Readable(kept)'
BY SigSame DEF Readable, FromTop

\* The registers kept for va_begin.
LEMMA SaveStep == ASSUME IInv, SaveVariadic PROVE IInv'
<1> DEFINE kept == IF sig.variadic THEN PushFutureCallRegs(Fixed) ELSE << >>
<1>1. /\ Good /\ m \in Machines /\ InFunction /\ m.stack = Entered
      /\ Len(m.slots) = Fixed
      /\ \A i \in 1..Fixed : m.slots[i] = Value(i, sig.params[i])
      /\ phase = "params" /\ param = Fixed + 1 /\ phase' = "body" /\ sig' = sig
  <2>1. phase = "params" /\ param = Fixed + 1 /\ phase' = "body" /\ sig' = sig
    BY DEF SaveVariadic, Goto
  <2>2. param - 1 = Fixed
    <3>1. Good
      BY DEF IInv
    <3>2. Fixed \in Nat
      BY <3>1, SigFacts
    <3> QED
      BY <2>1, <3>2
  <2> QED
    BY <2>1, <2>2 DEF IInv, IParams
<1>2. kept \in Seq(CallWords) /\ Len(kept) = VariadicWords /\ Readable(kept)
  <2>1. CASE sig.variadic
    BY <1>1, <2>1, KeptIs DEF VariadicWords
  <2>2. CASE ~sig.variadic
    <3>1. kept = << >> /\ VariadicWords = 0
      BY <2>2 DEF VariadicWords
    <3>2. Readable(kept)
      BY <2>2 DEF Readable
    <3> HIDE DEF kept
    <3> QED
      BY <3>1, <3>2, NoWords
  <2> QED
    BY <2>1, <2>2
<1>3. Entered \in Seq(CallWords) /\ Entered \o kept \in Seq(CallWords)
  <2> HIDE DEF kept
  <2> QED
    BY <1>1, <1>2, EnteredIs
<1>4. m' = [m EXCEPT !.stack = Entered \o kept]
  <2>1. CASE sig.variadic
    BY <1>1, <2>1 DEF SaveVariadic
  <2>2. CASE ~sig.variadic
    <3>1. Entered \o << >> = Entered
      BY <1>3, ConcatEmptySeq
    <3>2. m' = m
      BY <2>2 DEF SaveVariadic
    <3>3. m = [m EXCEPT !.stack = m.stack]
      BY <1>1 DEF Machines
    <3> QED
      BY <1>1, <2>2, <3>1, <3>2, <3>3
  <2> QED
    BY <2>1, <2>2
<1> HIDE DEF kept
<1>5. /\ m' \in Machines /\ m'.stack = Entered \o kept /\ m'.rbp = m.rbp /\ m'.slots = m.slots
  BY <1>1, <1>3, <1>4, StackChanged
<1>6. IBody'
  <2>1. InFunction'
    BY <1>1, <1>5, StacksSame DEF InFunction
  <2>2. (Len(m.slots) = Fixed /\ \A i \in 1..Fixed : m.slots[i] = Value(i, sig.params[i]))'
    BY <1>1, <1>5, SigSame
  <2>3. PICK k : k = kept
    OBVIOUS
  <2>4. k \in Seq(CallWords)' /\ (m.stack)' = Entered' \o k /\ Len(k) = VariadicWords'
    BY <1>1, <1>2, <1>5, <2>3, SigSame, StacksSame
  <2>5. Readable(k)
    BY <1>2, <2>3
  <2>6. Readable(k)'
    BY <1>1, <2>5, ReadableSame
  <2> QED
    BY <2>1, <2>2, <2>4, <2>6 DEF IBody
<1>7. Good' /\ (m \in Machines)'
  BY <1>1, <1>5, SigSame, MachinesSame
<1>8. (ICall /\ IParams /\ IReturn)'
  BY <1>1 DEF ICall, IParams, IReturn
<1> QED
  BY <1>1, <1>6, <1>7, <1>8 DEF IInv, AtCaller

\* The body loses registers, not the stack.
LEMMA BodyStep == ASSUME IInv, Body PROVE IInv'
<1>1. /\ Good /\ m \in Machines /\ InFunction
      /\ phase = "body" /\ phase' = "return" /\ sig' = sig
  BY DEF IInv, IBody, Body, Goto
<1>2. /\ m' \in Machines /\ m'.stack = m.stack /\ m'.rbp = m.rbp /\ m'.rax = Result
  BY <1>1, WordsHeld DEF Body, CalledMemcpy, Machines
<1>3. PICK kept \in Seq(CallWords) : m.stack = Entered \o kept /\ Len(kept) = VariadicWords
  BY <1>1 DEF IInv, IBody
<1>4. IReturn'
  <2>1. InFunction'
    BY <1>1, <1>2, StacksSame DEF InFunction
  <2>2. (m.rax = Result)'
    BY <1>1, <1>2 DEF Result
  <2>3. kept \in Seq(CallWords)' /\ (m.stack)' = Entered' \o kept /\ Len(kept) = VariadicWords'
    BY <1>1, <1>2, <1>3, SigSame, StacksSame
  <2> QED
    BY <2>1, <2>2, <2>3 DEF IReturn
<1>5. Good' /\ (m \in Machines)'
  BY <1>1, <1>2, SigSame, MachinesSame
<1>6. (ICall /\ IParams /\ IBody)'
  BY <1>1 DEF ICall, IParams, IBody
<1> QED
  BY <1>1, <1>4, <1>5, <1>6 DEF IInv, AtCaller

\* The function finds the address of the caller's temporary above all arguments on the stack.
LEMMA ReturnSlotIs ==
  ASSUME Good, InFunction, StructRet, NEW kept \in Seq(CallWords), m.stack = Entered \o kept
  PROVE  ReturnSlot = TempAddress
<1>1. Given \in Nat /\ Fixed \in Nat /\ Fixed + 1 \in 1..(Fixed + 1) /\ (Fixed + 1) - 1 = Fixed
  BY SigFacts
<1>2. StackArgsBefore(Fixed + 1) = CountTo(Spilled, Fixed)
  BY <1>1, StackArgsBeforeIs
<1>3. CountTo(Spilled, Fixed) = CountTo(Spilled, Given)
  <2>1. CASE sig.variadic
    <3>1. Given <= IntRegs /\ Given <= FloatRegs
      <4>1. Given <= Least(IntRegs, FloatRegs)
        BY <2>1 DEF Good, Plain, StructRet, Given
      <4>2. Least(IntRegs, FloatRegs) = IF IntRegs <= FloatRegs THEN IntRegs ELSE FloatRegs
        BY RegsType, LeastIs
      <4> QED
        BY <1>1, <4>1, <4>2, RegsType
    <3>2. \A i \in 1..Given : i \notin Spilled
      <4> TAKE i \in 1..Given
      <4>1. i \in Nat /\ i <= Given
        BY <1>1
      <4>2. /\ Rank(i) = IF i \in Floats THEN CountTo(Floats, i) ELSE CountTo(Ints, i)
            /\ Rank(i) \in Nat
        BY RankIs
      <4>3. CountTo(Floats, i) \in 0..i /\ CountTo(Ints, i) \in 0..i
        BY <4>1, CountNat
      <4>4. Rank(i) <= IntRegs /\ Rank(i) <= FloatRegs
        BY <1>1, <3>1, <4>1, <4>2, <4>3, RegsType
      <4> QED
        BY <4>4 DEF Spilled, InRegister
    <3>3. Spilled = {}
      BY <3>2 DEF Spilled
    <3>4. \A n \in Nat : UpTo(Spilled, n) = {}
      BY <3>3 DEF UpTo
    <3> QED
      BY <1>1, <3>4 DEF CountTo
  <2>2. CASE ~sig.variadic
    BY <2>2, SigFacts
  <2> QED
    BY <2>1, <2>2
<1>4. /\ CountTo(Spilled, Given) + 1 \in 1..Len(CallerStack)
      /\ FromTop(CallerStack, CountTo(Spilled, Given) + 1) = TempAddress
  BY SpilledOnTop
<1>5. AboveRbp((CountTo(Spilled, Given) + 1) + 1) = TempAddress
  BY <1>4, AboveIs
<1>6. StackArgsBefore(Fixed + 1) + 2 = (CountTo(Spilled, Given) + 1) + 1
  <2>1. CountTo(Spilled, Given) \in Nat
    BY PassedCounts
  <2> QED
    BY <1>2, <1>3, <2>1
<1> QED
  BY <1>5, <1>6 DEF ReturnSlot

\* The epilogue: the frame and the kept registers are taken down.
LEMMA ReturnStep == ASSUME IInv, Return PROVE IInv'
<1> DEFINE copied == IF StructRet
                     THEN [CalledMemcpy(m, 0) EXCEPT
                             !.temp = IF ReturnSlot = TempAddress THEN Result ELSE @,
                             !.rax = ReturnSlot]
                     ELSE m
<1> DEFINE words == FrameWords + (IF sig.variadic THEN IntRegs - Fixed ELSE 0)
<1> DEFINE left == IF words <= Len(copied.stack) THEN Dropped(copied.stack, words) ELSE << >>
<1> DEFINE link == <<ReturnAddress, SavedRbp>>
<1>1. /\ Good /\ m \in Machines /\ InFunction /\ m.rax = Result
      /\ phase = "return"
  BY DEF IInv, IReturn, Return
<1>2. PICK kept \in Seq(CallWords) : m.stack = Entered \o kept /\ Len(kept) = VariadicWords
  BY <1>1 DEF IInv, IReturn
<1>3. words = FrameWords + Len(kept) /\ words \in Nat
  <2>1. Len(kept) \in Nat
    BY <1>2, LenProperties
  <2> QED
    BY <1>2, <2>1, RegsType DEF VariadicWords
<1>4. /\ copied \in Machines /\ copied.stack = m.stack
      /\ IF StructRet THEN copied.rax = TempAddress /\ copied.temp = Result
         ELSE copied.rax = Result
  <2>1. CASE StructRet
    <3>1. ReturnSlot = TempAddress
      BY <1>1, <1>2, <2>1, ReturnSlotIs
    <3>2. copied = [CalledMemcpy(m, 0) EXCEPT !.temp = Result, !.rax = TempAddress]
      BY <2>1, <3>1
    <3> DEFINE ints == [r \in 1..IntRegs |-> IF r > 0 THEN m.ints[r] ELSE Junk]
    <3> DEFINE floats == [r \in 1..FloatRegs |-> Junk]
    <3>3. CalledMemcpy(m, 0) = [m EXCEPT !.ints = ints, !.floats = floats]
      BY DEF CalledMemcpy
    <3>4. ints \in [1..IntRegs -> CallWords] /\ floats \in [1..FloatRegs -> CallWords]
      <4>1. m.ints \in [1..IntRegs -> CallWords]
        BY <1>1 DEF Machines
      <4> QED
        BY <4>1, WordsHeld
    <3> HIDE DEF copied, ints, floats
    <3> QED
      BY <1>1, <2>1, <3>2, <3>3, <3>4, WordsHeld DEF Machines
  <2>2. CASE ~StructRet
    BY <1>1, <2>2
  <2> QED
    BY <2>1, <2>2
<1> HIDE DEF copied
<1>5. /\ CallerStack \in Seq(CallWords) /\ Len(CallerStack) \in Nat
      /\ Len(m.stack) = Len(CallerStack) + 2 + FrameWords + Len(kept)
      /\ Dropped(m.stack, FrameWords + Len(kept)) = CallerStack \o link
  BY <1>1, <1>2, EnteredIs, StackShapes, LenProperties
<1>6. left = CallerStack \o link
  <2>1. words <= Len(copied.stack)
    <3>1. Len(kept) \in Nat
      BY <1>2, LenProperties
    <3> HIDE DEF words
    <3> QED
      BY <1>3, <1>4, <1>5, <3>1, RegsType
  <2> HIDE DEF words
  <2> QED
    BY <1>3, <1>4, <1>5, <2>1
<1>7. /\ Len(left) = Len(CallerStack) + 2 /\ Top(left) = SavedRbp
      /\ left[Len(left) - 1] = ReturnAddress /\ Dropped(left, 2) = CallerStack
  <2>1. /\ link \in Seq(CallWords) /\ Len(link) = 2
        /\ link[1] = ReturnAddress /\ link[2] = SavedRbp
    BY WordsHeld
  <2> DEFINE s == CallerStack \o link
  <2> HIDE DEF link
  <2>2. /\ Len(s) = Len(CallerStack) + Len(link) /\ s \in Seq(CallWords)
        /\ \A k \in 1..Len(CallerStack) + Len(link) :
             s[k] = IF k <= Len(CallerStack) THEN CallerStack[k] ELSE link[k - Len(CallerStack)]
        /\ Dropped(s, Len(link)) = CallerStack
    <3>1. CallerStack \in Seq(CallWords) /\ link \in Seq(CallWords)
      BY <1>5, <2>1
    <3> QED
      BY <3>1, ConcatProperties, DropConcat
  <2> HIDE DEF s
  <2>3. Len(s) = Len(CallerStack) + 2 /\ Dropped(s, 2) = CallerStack
    BY <2>1, <2>2
  <2>4. s[Len(CallerStack) + 2] = SavedRbp
    <3>1. /\ Len(CallerStack) + 2 \in 1..Len(CallerStack) + Len(link)
          /\ ~(Len(CallerStack) + 2 <= Len(CallerStack))
          /\ Len(CallerStack) + 2 - Len(CallerStack) = 2
      BY <1>5, <2>1
    <3> QED
      BY <2>1, <2>2, <3>1
  <2>5. s[Len(CallerStack) + 1] = ReturnAddress
    <3>1. /\ Len(CallerStack) + 1 \in 1..Len(CallerStack) + Len(link)
          /\ ~(Len(CallerStack) + 1 <= Len(CallerStack))
          /\ Len(CallerStack) + 1 - Len(CallerStack) = 1
      BY <1>5, <2>1
    <3> QED
      BY <2>1, <2>2, <3>1
  <2>6. Top(s) = SavedRbp
    <3>1. s # << >>
      BY <1>5, <2>3
    <3> QED
      BY <2>3, <2>4, <3>1 DEF Top, Last
  <2>7. Len(s) - 1 = Len(CallerStack) + 1
    BY <1>5, <2>3
  <2>8. left = s
    BY <1>6 DEF s
  <2> HIDE DEF left
  <2> QED
    BY <2>3, <2>5, <2>6, <2>7, <2>8
<1>8. ~(Len(left) < 2 \/ words < 0 \/ Top(left) # SavedRbp \/ left[Len(left) - 1] # ReturnAddress)
  <2> HIDE DEF left, words
  <2> QED
    BY <1>3, <1>5, <1>7
<1>9. /\ m' = [copied EXCEPT !.stack = Dropped(left, 2), !.rbp = 0]
      /\ phase' = "restore" /\ sig' = sig
  BY <1>8 DEF Return, Goto, copied
<1> HIDE DEF left, words
<1>10. /\ m' \in Machines /\ m'.stack = CallerStack /\ m'.rbp = 0
       /\ m'.rax = copied.rax /\ m'.temp = copied.temp
  BY <1>4, <1>5, <1>7, <1>9 DEF Machines
<1>11. ResultReturned'
  BY <1>4, <1>9, <1>10, SigSame DEF ResultReturned, Result
<1>12. AtCaller("restore", CallerStack)'
  BY <1>9, <1>10, StacksSame DEF AtCaller
<1>13. Good' /\ (m \in Machines)'
  BY <1>1, <1>9, <1>10, SigSame, MachinesSame
<1>14. (ICall /\ IParams /\ IBody /\ IReturn)'
  BY <1>9 DEF ICall, IParams, IBody, IReturn
<1> QED
  BY <1>9, <1>11, <1>12, <1>13, <1>14 DEF IInv, AtCaller

\* Back in the caller: the pushed words are dropped, and pop rsp.
LEMMA RestoreStep == ASSUME IInv, RestoreStack PROVE IInv'
<1> DEFINE above == TempWords \o Pushed(Spilled)
<1>1. /\ Good /\ m \in Machines /\ m.stack = CallerStack /\ m.rbp = 0 /\ ResultReturned
      /\ phase = "restore" /\ phase' = "done" /\ sig' = sig
  BY DEF IInv, RestoreStack, Goto, AtCaller
<1>2. /\ CallerStack = AlignedStack \o above
      /\ above \in Seq(CallWords) /\ Len(above) = PushedWords
      /\ Len(CallerStack) = Len(AlignedStack) + PushedWords
  BY <1>1, StackShapes
<1>3. /\ AlignedStack \in Seq(CallWords) /\ Len(AlignedStack) >= 1
      /\ Last(AlignedStack) = SavedRsp(0)
  BY <1>1, AlignedStackIs
<1> HIDE DEF above
<1>4. Least(PopCount, Len(CallerStack)) = PushedWords
  <2>1. PushedWords \in Nat /\ Len(AlignedStack) \in Nat
    BY <1>1, <1>3, PassedCounts, LenProperties
  <2>2. PopCount \in Int /\ Len(CallerStack) \in Int /\ PopCount <= Len(CallerStack)
    BY <1>2, <2>1 DEF PopCount
  <2> QED
    BY <2>2, LeastIs DEF PopCount
<1>5. Dropped(CallerStack, PushedWords) = AlignedStack
  BY <1>2, <1>3, DropConcat
<1>6. PopRsp(AlignedStack) = << >>
  <2>1. Top(AlignedStack) = SavedRsp(0)
    BY <1>3 DEF Top
  <2>2. 0 \in 0..Len(AlignedStack)
    BY <1>3, LenProperties
  <2>3. PopRsp(AlignedStack) = SubSeq(AlignedStack, 1, 0)
    BY <2>1, <2>2 DEF PopRsp, SavedRsp
  <2> QED
    BY <1>3, <2>3, SubSeqProperties
<1>7. m' = [m EXCEPT !.stack = << >>]
  BY <1>1, <1>4, <1>5, <1>6 DEF RestoreStack
<1>8. /\ m' \in Machines /\ m'.stack = << >> /\ m'.rbp = 0
      /\ m'.rax = m.rax /\ m'.temp = m.temp
  BY <1>1, <1>7, NoWords DEF Machines
<1>9. ResultReturned'
  BY <1>1, <1>8, SigSame DEF ResultReturned, Result
<1>10. Good' /\ (m \in Machines)'
  BY <1>1, <1>8, SigSame, MachinesSame
<1>11. (ICall /\ IParams /\ IBody /\ IReturn)'
  BY <1>1 DEF ICall, IParams, IBody, IReturn
<1> QED
  BY <1>1, <1>8, <1>9, <1>10, <1>11 DEF IInv, AtCaller

-----------------------------------------------------------------------------
(* The steps together *)

\* No step at all.
LEMMA StutterStep == ASSUME IInv, UNCHANGED vars PROVE IInv'
<1>1. sig' = sig /\ m' = m /\ phase' = phase /\ param' = param
  BY DEF vars
<1>2. Good' /\ (m \in Machines)'
  BY <1>1, SigSame, MachinesSame DEF IInv
<1>3. ICall' /\ IParams'
  BY <1>1, SigSame, StacksSame DEF IInv, ICall, IParams, InFunction, IntsKept, FloatsKept
<1>4. IBody'
  <2>1. CASE phase = "body"
    <3>1. PICK kept \in Seq(CallWords) :
            m.stack = Entered \o kept /\ Len(kept) = VariadicWords /\ Readable(kept)
      BY <2>1 DEF IInv, IBody
    <3>2. Readable(kept)'
      BY <1>1, <3>1, ReadableSame
    <3>3. kept \in Seq(CallWords)' /\ (m.stack = Entered \o kept /\ Len(kept) = VariadicWords)'
      BY <1>1, <3>1, SigSame, StacksSame
    <3>4. (InFunction /\ Len(m.slots) = Fixed
           /\ \A i \in 1..Fixed : m.slots[i] = Value(i, sig.params[i]))'
      BY <1>1, <2>1, SigSame, StacksSame DEF IInv, IBody, InFunction
    <3> QED
      BY <3>2, <3>3, <3>4 DEF IBody
  <2>2. CASE phase # "body"
    BY <1>1, <2>2 DEF IBody
  <2> QED
    BY <2>1, <2>2
<1>5. IReturn'
  BY <1>1, SigSame, StacksSame DEF IInv, IReturn, InFunction, Result
<1>6. (phase \in {"restore", "done"} => ResultReturned)'
  BY <1>1 DEF IInv, ResultReturned, StructRet, Result
<1>7. /\ AtCaller("prepare", << >>)' /\ AtCaller("stack args", Prepared)'
      /\ AtCaller("float args", CallerStack)' /\ AtCaller("int args", FloatsPushed)'
      /\ AtCaller("pops", AllPushed)' /\ AtCaller("call", CallerStack)'
      /\ AtCaller("restore", CallerStack)' /\ AtCaller("done", << >>)'
  BY <1>1, StacksSame DEF IInv, AtCaller
<1> QED
  BY <1>1, <1>2, <1>3, <1>4, <1>5, <1>6, <1>7 DEF IInv

-----------------------------------------------------------------------------
(* The theorems *)

\* Before the call.
LEMMA Starts == ASSUME Init, Careful PROVE IInv
<1>1. Good
  BY DEF Init, Good
<1>2. m \in Machines /\ m.stack = << >> /\ m.rbp = 0 /\ m.slots = << >> /\ phase = "prepare"
  BY WordsHeld DEF Init, Machines
<1> QED
  BY <1>1, <1>2 DEF IInv, AtCaller, ICall, IParams, IBody, IReturn

\* Each step keeps the invariant.
LEMMA Steps == ASSUME IInv, [Next]_vars PROVE IInv'
<1>1. CASE PrepareCall
  BY <1>1, PrepareStep
<1>2. CASE PushStackArgs \/ PushFloatArgs \/ PushIntArgs
  BY <1>2, PushStep
<1>3. CASE PopArgs
  BY <1>3, PopsStep
<1>4. CASE Enter
  BY <1>4, EnterStep
<1>5. CASE StoreParam
  BY <1>5, StoreStep
<1>6. CASE SaveVariadic
  BY <1>6, SaveStep
<1>7. CASE Body
  BY <1>7, BodyStep
<1>8. CASE Return
  BY <1>8, ReturnStep
<1>9. CASE RestoreStack
  BY <1>9, RestoreStep
<1>10. CASE UNCHANGED vars
  BY <1>10, StutterStep
<1> QED
  BY <1>1, <1>2, <1>3, <1>4, <1>5, <1>6, <1>7, <1>8, <1>9, <1>10 DEF Next

\* In every state of a call that the code gets right the stack and the registers
\* hold what the part of gen_asm_func_call or gen_asm_func to come relies on.
THEOREM Invariance == ASSUME Careful PROVE Spec => []IInv
<1>1. Init => IInv
  BY Starts
<1>2. IInv /\ [Next]_vars => IInv'
  BY Steps
<1> QED
  BY <1>1, <1>2, PTL DEF Spec

\* Words are moved around, rbp points into the stack, and each parameter that has
\* been stored has one slot.
THEOREM Typing == ASSUME Careful PROVE Spec => []TypeOK
<1>1. IInv => TypeOK
  <2> SUFFICES ASSUME IInv
               PROVE  TypeOK
    OBVIOUS
  <2>1. Good /\ m \in Machines
    BY DEF IInv
  <2>2. /\ m.stack \in Seq(CallWords) /\ m.ints \in [1..IntRegs -> CallWords]
        /\ m.floats \in [1..FloatRegs -> CallWords] /\ m.rax \in CallWords /\ m.temp \in CallWords
        /\ m.slots \in Seq({Junk} \union Values) /\ m.rbp \in Nat
    BY <2>1 DEF Machines
  <2>3. CallWords \subseteq Words
    <3>1. 0 \in 0..Len(m.stack)
      BY <2>2, LenProperties
    <3> QED
      BY <3>1 DEF CallWords, Words
  <2>4. /\ Range(m.stack) \subseteq CallWords /\ Range(m.ints) \subseteq CallWords
        /\ Range(m.floats) \subseteq CallWords
    <3>1. Range(m.stack) \subseteq CallWords
      <4>1. m.stack \in Seq(CallWords)
        BY <2>2
      <4> QED
        BY <4>1 DEF Range
    <3> QED
      BY <2>2, <3>1 DEF Range
  <2>5. Range(m.slots) \subseteq {Junk} \union Values
    <3> DEFINE W == {Junk} \union Values
    <3>1. m.slots \in Seq(W)
      BY <2>2
    <3> HIDE DEF W
    <3>2. Range(m.slots) \subseteq W
      BY <3>1 DEF Range
    <3> QED
      BY <3>2 DEF W
  <2>6. m.rbp \in 0..Len(m.stack)
    <3>1. Len(m.stack) \in Nat
      BY <2>2, LenProperties
    <3>2. CASE phase = "params"
      <4>1. m.stack = Entered /\ m.rbp = Len(CallerStack) + 2
        BY <3>2 DEF IInv, IParams, InFunction
      <4>2. Entered \o << >> = Entered
        BY <2>1, NoWords, EnteredIs, ConcatEmptySeq
      <4>3. Len(Entered \o << >>) = Len(CallerStack) + 2 + FrameWords + Len(<< >>)
        BY <2>1, NoWords, EnteredIs
      <4>4. Len(CallerStack) \in Nat
        BY <2>1, StackShapes, LenProperties
      <4> QED
        BY <2>2, <4>1, <4>2, <4>3, <4>4, NoWords, RegsType
    <3>3. CASE phase \in {"body", "return"}
      <4>1. PICK kept \in Seq(CallWords) : m.stack = Entered \o kept
        BY <3>3 DEF IInv, IBody, IReturn
      <4>2. m.rbp = Len(CallerStack) + 2
        BY <3>3 DEF IInv, IBody, IReturn, InFunction
      <4>3. Len(Entered \o kept) = Len(CallerStack) + 2 + FrameWords + Len(kept)
        BY <2>1, EnteredIs
      <4>4. Len(CallerStack) \in Nat /\ Len(kept) \in Nat
        BY <2>1, StackShapes, LenProperties
      <4> QED
        BY <2>2, <4>1, <4>2, <4>3, <4>4, RegsType
    <3>4. CASE phase \notin {"params", "body", "return"}
      <4>1. m.rbp = 0
        BY <3>4 DEF IInv, AtCaller
      <4> QED
        BY <3>1, <4>1
    <3> QED
      BY <3>2, <3>3, <3>4
  <2>7. phase = "params" => Len(m.slots) = param - 1
    BY DEF IInv, IParams
  <2> QED
    BY <2>2, <2>3, <2>4, <2>5, <2>6, <2>7 DEF TypeOK
<1> QED
  BY <1>1, Invariance, PTL

\* gen_asm_func_call has every argument where the convention wants it: the
\* argument with rank r of its class in register r of that class, or on the
\* stack with the leftmost on top, and rsp aligned at the call.
THEOREM CallConvention == ASSUME Careful PROVE Spec => []ArgumentsByAbi
<1>1. IInv => ArgumentsByAbi
  <2> SUFFICES ASSUME IInv, phase = "call"
               PROVE  /\ \A i \in 1..Given :
                           AbiWord(i) =
                             (IF ~InRegister(i) THEN FromTop(m.stack, StackPlace(i))
                              ELSE IF IsFloat(AbiClass(i)) THEN m.floats[Rank(i)]
                              ELSE m.ints[Rank(i)])
                      /\ sig.variadic =>
                           m.al = Cardinality({i \in 1..Given : IsFloat(AbiClass(i)) /\ InRegister(i)})
                      /\ Aligned(m.stack)
    BY DEF ArgumentsByAbi, FromTop
  <2>1. /\ Good /\ m.stack = CallerStack /\ IntsKept(1) /\ FloatsKept(1)
        /\ sig.variadic => m.al = CountTo(FloatsIn, Given)
    BY DEF IInv, AtCaller, ICall
  <2>2. ASSUME NEW i \in 1..Given
        PROVE  AbiWord(i) = (IF ~InRegister(i) THEN FromTop(m.stack, StackPlace(i))
                             ELSE IF IsFloat(AbiClass(i)) THEN m.floats[Rank(i)]
                             ELSE m.ints[Rank(i)])
    <3>1. i >= 1
      BY <2>1, SigFacts
    <3>2. /\ Rank(i) = IF i \in Floats THEN CountTo(Floats, i) ELSE CountTo(Ints, i)
          /\ InRegister(i) <=> i \in FloatsIn \union IntsIn
      BY <2>1, RankIs
    <3>3. i \in Floats <=> IsFloat(AbiClass(i))
      BY DEF Floats
    <3>4. i \in Ints <=> ~IsFloat(AbiClass(i))
      BY DEF Ints
    <3>5. CASE ~InRegister(i)
      <4>1. i \in Spilled
        BY <3>5 DEF Spilled
      <4> QED
        BY <2>1, <3>5, <4>1, SpilledOnTop, StackPlaceIs
    <3>6. CASE InRegister(i) /\ IsFloat(AbiClass(i))
      <4>1. i \in FloatsIn
        BY <3>2, <3>4, <3>6, PassesIn
      <4> QED
        BY <2>1, <3>1, <3>2, <3>3, <3>6, <4>1 DEF FloatsKept
    <3>7. CASE InRegister(i) /\ ~IsFloat(AbiClass(i))
      <4>1. i \in IntsIn
        BY <3>2, <3>3, <3>7, PassesIn
      <4> QED
        BY <2>1, <3>1, <3>2, <3>3, <3>7, <4>1 DEF IntsKept
    <3> QED
      BY <3>5, <3>6, <3>7
  <2>3. CountTo(FloatsIn, Given) =
          Cardinality({i \in 1..Given : IsFloat(AbiClass(i)) /\ InRegister(i)})
    <3>1. \A i \in 1..Given : i \in FloatsIn <=> IsFloat(AbiClass(i)) /\ InRegister(i)
      <4> TAKE i \in 1..Given
      <4>1. InRegister(i) <=> i \in FloatsIn \union IntsIn
        BY <2>1, RankIs
      <4>2. i \in Floats <=> IsFloat(AbiClass(i))
        BY DEF Floats
      <4>3. i \in Ints <=> ~IsFloat(AbiClass(i))
        BY DEF Ints
      <4> QED
        BY <4>1, <4>2, <4>3, PassesIn
    <3>2. UpTo(FloatsIn, Given) = {i \in 1..Given : IsFloat(AbiClass(i)) /\ InRegister(i)}
      BY <3>1 DEF UpTo
    <3> QED
      BY <3>2 DEF CountTo
  <2>4. Aligned(m.stack)
    BY <2>1, StackShapes
  <2> QED
    BY <2>1, <2>2, <2>3, <2>4
<1> QED
  BY <1>1, Invariance, PTL

\* gen_asm_func stores in the slot of each parameter the argument that
\* gen_asm_func_call passed for it, and keeps for va_begin the registers in
\* the order in which the additional integers are read.
THEOREM ParamsRight == ASSUME Careful PROVE Spec => []ParamsArrive
<1>1. IInv => ParamsArrive
  <2> SUFFICES ASSUME IInv, phase = "body"
               PROVE  /\ m.slots = [i \in 1..Fixed |-> Value(i, sig.params[i])]
                      /\ (sig.variadic /\ Given <= IntRegs /\ \A i \in 1..Given : AbiClass(i) = "int")
                           => \A i \in (Fixed + 1)..Given :
                                FromTop(m.stack, i - Fixed) = Value(i, "int")
    BY DEF ParamsArrive, FromTop
  <2>1. /\ Good /\ m \in Machines
        /\ Len(m.slots) = Fixed /\ \A i \in 1..Fixed : m.slots[i] = Value(i, sig.params[i])
    BY DEF IInv, IBody
  <2>2. m.slots = [i \in 1..Fixed |-> Value(i, sig.params[i])]
    <3>1. m.slots \in Seq({Junk} \union Values)
      BY <2>1 DEF Machines
    <3>2. m.slots = [i \in 1..Len(m.slots) |-> m.slots[i]]
      <4> DEFINE W == {Junk} \union Values
      <4>1. m.slots \in Seq(W)
        BY <3>1
      <4> HIDE DEF W
      <4> QED
        BY <4>1
    <3> QED
      BY <2>1, <3>2
  <2>3. PICK kept \in Seq(CallWords) :
          m.stack = Entered \o kept /\ Len(kept) = VariadicWords /\ Readable(kept)
    BY DEF IInv, IBody
  <2>4. ASSUME sig.variadic, Given <= IntRegs, \A i \in 1..Given : AbiClass(i) = "int",
               NEW i \in (Fixed + 1)..Given
        PROVE  FromTop(m.stack, i - Fixed) = Value(i, "int")
    <3>1. FromTop(kept, i - Fixed) = Value(i, "int")
      BY <2>3, <2>4 DEF Readable
    <3>2. Entered \in Seq(CallWords)
      BY <2>1, <2>3, EnteredIs
    <3>3. \A k \in 1..Len(kept) : FromTop(Entered \o kept, k) = FromTop(kept, k)
      BY <2>3, <3>2, TopOfConcat
    <3>4. i - Fixed \in 1..Len(kept)
      <4>1. Fixed \in Nat /\ Given \in Nat
        BY <2>1, SigFacts
      <4>2. Len(kept) = IntRegs - Fixed
        BY <2>3, <2>4 DEF VariadicWords
      <4> QED
        BY <2>4, <4>1, <4>2, RegsType
    <3> QED
      BY <2>3, <3>1, <3>3, <3>4
  <2> QED
    BY <2>2, <2>4
<1> QED
  BY <1>1, Invariance, PTL

\* However many words the call pushed, pop rsp finds the rsp of before the
\* call, the function never returns to a wrong place, and the result is in rax,
\* or in the caller's temporary whose address is in rax.
THEOREM Restoration == ASSUME Careful PROVE Spec => []CallerRestored
<1>1. IInv => CallerRestored
  <2> SUFFICES ASSUME IInv
               PROVE  CallerRestored
    OBVIOUS
  <2>1. phase # "crash"
    BY DEF IInv
  <2>2. phase = "done" => m.stack = << >> /\ ResultReturned
    BY DEF IInv, AtCaller
  <2> QED
    BY <2>1, <2>2 DEF CallerRestored, ResultReturned
<1> QED
  BY <1>1, Invariance, PTL

===============================================================================

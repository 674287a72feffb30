-------------------------------- MODULE Calls ---------------------------------
(***************************************************************************)
(* The code of a call and of the function called: gen_asm_func_call hands  *)
(* arguments over in registers and on the stack, gen_asm_func takes them   *)
(* from there into its frame and takes everything down again.  The two are *)
(* generated apart and agree only by counting the same parameters.         *)
(*                                                                         *)
(* A behaviour is one call, executed.  A word of the stack has 8 bytes;    *)
(* the stack of the caller is what this call puts on it.  A value is known *)
(* by the argument it comes from and its class, which a cast changes.  A   *)
(* structure is handed over by its address and copied with memcpy.         *)
(*                                                                         *)
(* Abstracted: the code of arguments and of the body leaves the stack as   *)
(* it was (CodegenExpr); the slots of a frame do not overlap (SymbolTable).*)
(* External: memcpy, which leaves the registers a function may change      *)
(* with values of its own, and a reader of va_list in the C library.       *)
(***************************************************************************)
EXTENDS Integers, Sequences, SequencesExt, FiniteSetsExt

CONSTANTS
  IntRegs,     \* registers for integer arguments (6)
  FloatRegs,   \* registers for floating point arguments (8)
  FrameWords,  \* words of the frame of the function
  Signatures,  \* the functions and what they are called with
  Careful      \* TRUE: only signatures that are Plain

Classes == {"int", "float", "double", "struct"}

\* C has a parameter in front of "..." and, but for what comes after it, an
\* argument for each parameter; parse_func_call only refuses too many.
IsSignature(s) ==
  /\ s.params \in Seq(Classes) /\ s.args \in Seq(Classes) /\ s.ret \in Classes
  /\ {s.variadic, s.odd} \subseteq BOOLEAN
  /\ IF s.variadic THEN s.params # << >> /\ Len(s.params) <= Len(s.args)
     ELSE Len(s.params) = Len(s.args)

ASSUME CallsAssumption ==
  /\ {IntRegs, FloatRegs, FrameWords} \subseteq Nat \ {0}
  /\ Careful \in BOOLEAN
  /\ \A s \in Signatures : IsSignature(s)

VARIABLES
  sig,    \* params, args, variadic, ret of the call, and whether the stack is odd
  m,      \* the machine
  phase,  \* the part of the code to come
  param   \* the parameter to come in the function's prologue

vars == <<sig, m, phase, param>>

-----------------------------------------------------------------------------
(* Values and words *)

Junk == <<"junk">>
Value(i, class) == <<"arg", i, class>>
AddressOf(i) == <<"address", i>>
TempAddress == <<"address of temp">>
ReturnAddress == <<"return address">>
Result == <<"result", sig.ret>>
SavedRsp(n) == <<"rsp", n>>
SavedRbp == <<"rbp">>

IsFloat(class) == class \in {"float", "double"}

\* What the code of argument i leaves in rax or xmm0 after gen_asm_unary_op_cast.
Evaluated(i, class) == IF class = "struct" THEN AddressOf(i) ELSE Value(i, class)

\* promote_type
PromoteType(class) == IF IsFloat(class) THEN "double" ELSE class

Fixed == Len(sig.params)
Given == Len(sig.args)
StructRet == sig.ret = "struct"

Count(set) == IF set THEN 1 ELSE 0

Least(a, b) == Min({a, b})
Greatest(a, b) == Max({a, b})

-----------------------------------------------------------------------------
(* The caller *)

\* The first loop of gen_asm_func_call.
CountedType(i) == IF i > Fixed THEN sig.args[i] ELSE sig.params[i]

FloatArgCount == Cardinality({i \in 1..Given : IsFloat(CountedType(i))})
IntArgCount == Given - FloatArgCount

\* The parameter that current_func_def_arg points to in the loops from the last argument down.
ParamAt(i) == sig.params[Greatest(Fixed - (Given - i), 1)]

\* The type argument i is passed with.
ArgType(i) == IF i > Fixed THEN PromoteType(sig.args[i]) ELSE ParamAt(i)

FloatsAfter(i) == Cardinality({j \in (i + 1)..Given : IsFloat(ArgType(j))})
IntsAfter(i) == Given - i - FloatsAfter(i)

\* temp_float_param_count and temp_int_param_count against the number of registers.
OnStack(i) ==
  IF IsFloat(ArgType(i)) THEN FloatArgCount - FloatsAfter(i) > FloatRegs
  ELSE IntArgCount - IntsAfter(i) > IntRegs

\* The arguments of a pass, evaluated and pushed from the last one down.
Pushed(args) ==
  Reverse([k \in 1..Cardinality(args) |->
             LET i == CHOOSE j \in args : Cardinality({n \in args : n <= j}) = k
             IN Evaluated(i, ArgType(i))])

PushedWords ==
  Greatest(IntArgCount - IntRegs, 0) + Greatest(FloatArgCount - FloatRegs, 0) + Count(StructRet)

\* Whether rsp is a multiple of 16 with these words on the stack.
Aligned(stack) == (Len(stack) + Count(sig.odd)) % 2 = 0

AlignStackForFuncCallMutant(stack, pushes) ==
  (IF Aligned(stack) THEN stack ELSE Append(stack, Junk)) \o <<SavedRsp(Len(stack))>>

\* gen_asm_align_stack_for_func_call
AlignStackForFuncCall(stack, pushes) ==
  (IF Aligned(stack) THEN stack ELSE Append(stack, Junk))
  \o (IF (pushes + 1) % 2 = 1 THEN <<Junk>> ELSE << >>) \o <<SavedRsp(Len(stack))>>

Top(stack) == IF stack = << >> THEN Junk ELSE Last(stack)

\* The words below the n topmost ones.
Dropped(stack, n) == SubSeq(stack, 1, Len(stack) - n)

\* pop rsp, which takes the stack anywhere when another word is on top.
PopRsp(stack) ==
  IF \E n \in 0..Len(stack) : Top(stack) = SavedRsp(n)
  THEN SubSeq(stack, 1, Top(stack)[2]) ELSE <<Junk>>

Goto(next) == phase' = next /\ UNCHANGED <<sig, param>>

\* Up to the arguments that go on the stack.
PrepareCall ==
  /\ phase = "prepare"
  /\ LET aligned == AlignStackForFuncCall(m.stack, PushedWords)
     IN m' = [m EXCEPT !.stack = IF StructRet THEN Append(aligned, TempAddress) ELSE aligned]
  /\ Goto("stack args")

PushArgs(here, next, args) ==
  /\ phase = here
  /\ m' = [m EXCEPT !.stack = @ \o Pushed(args)]
  /\ Goto(next)

PushStackArgs == PushArgs("stack args", "float args", {i \in 1..Given : OnStack(i)})

PushFloatArgs ==
  PushArgs("float args", "int args", {i \in 1..Given : ~OnStack(i) /\ IsFloat(ArgType(i))})

PushIntArgs ==
  PushArgs("int args", "pops", {i \in 1..Given : ~OnStack(i) /\ ~IsFloat(ArgType(i))})

\* The topmost words go to registers, one after the other.
PopArgs ==
  /\ phase = "pops"
  /\ LET ints == Least(IntArgCount, IntRegs)
         floats == Least(FloatArgCount, FloatRegs)
         Word(k) == IF k < Len(m.stack) THEN m.stack[Len(m.stack) - k] ELSE Junk
     IN m' = [m EXCEPT !.ints = [r \in 1..IntRegs |-> IF r <= ints THEN Word(r - 1) ELSE @[r]],
                       !.floats = [r \in 1..FloatRegs |->
                                     IF r <= floats THEN Word(ints + r - 1) ELSE @[r]],
                       !.stack = Dropped(@, ints + floats),
                       !.al = IF sig.variadic THEN floats ELSE @]
  /\ Goto("call")

-----------------------------------------------------------------------------
(* The function *)

\* call, and the prologue up to the parameters.
Enter ==
  /\ phase = "call"
  /\ m' = [m EXCEPT !.stack = @ \o <<ReturnAddress, SavedRbp>> \o [k \in 1..FrameWords |-> Junk],
                    !.rbp = Len(m.stack) + 2]
  /\ phase' = "params" /\ param' = 1
  /\ UNCHANGED sig

IntsBefore(i) == Cardinality({j \in 1..(i - 1) : ~IsFloat(sig.params[j])})
FloatsBefore(i) == i - 1 - IntsBefore(i)

ByRegister(i) ==
  IF IsFloat(sig.params[i]) THEN FloatsBefore(i) < FloatRegs ELSE IntsBefore(i) < IntRegs

\* stack_arg_count at parameter i
StackArgsBefore(i) == Cardinality({j \in 1..(i - 1) : ~ByRegister(j)})

\* [rbp + 8 * words]
AboveRbp(words) == IF m.rbp - words \in DOMAIN m.stack THEN m.stack[m.rbp - words] ELSE Junk

Passed(i) ==
  IF ~ByRegister(i) THEN AboveRbp(StackArgsBefore(i) + 2)
  ELSE IF IsFloat(sig.params[i]) THEN m.floats[FloatsBefore(i) + 1]
  ELSE m.ints[IntsBefore(i) + 1]

CopiedMutant(word) == word

\* The bytes at an address, copied.
Copied(word) == IF word[1] = "address" THEN Value(word[2], "struct") ELSE Junk

\* memcpy leaves nothing in the registers that a function may change.
CalledMemcpy(machine, kept) ==
  [machine EXCEPT !.ints = [r \in 1..IntRegs |-> IF r > kept THEN @[r] ELSE Junk],
                  !.floats = [r \in 1..FloatRegs |-> Junk]]

\* One round of the loop over the parameters.  The registers of later ones are kept on the stack.
StoreParam ==
  /\ phase = "params" /\ param <= Fixed
  /\ m' = IF sig.params[param] = "struct"
          THEN [CalledMemcpy(m, IntsBefore(param) + 1)
                  EXCEPT !.slots = Append(@, Copied(Passed(param)))]
          ELSE [m EXCEPT !.slots = Append(@, Passed(param))]
  /\ param' = param + 1
  /\ UNCHANGED <<sig, phase>>

PushFutureCallRegsMutant(from) == [k \in 1..(IntRegs - from) |-> m.ints[from + k]]

\* gen_asm_push_future_call_regs: the last register first.
PushFutureCallRegs(from) ==
  IF from >= IntRegs THEN << >> ELSE [k \in 1..(IntRegs - from) |-> m.ints[IntRegs + 1 - k]]

\* The registers behind those of the parameters are kept for va_begin.
SaveVariadic ==
  /\ phase = "params" /\ param = Fixed + 1
  /\ m' = IF sig.variadic THEN [m EXCEPT !.stack = @ \o PushFutureCallRegs(Fixed)] ELSE m
  /\ Goto("body")

\* The body, up to the return label: its calls change the registers.
Body ==
  /\ phase = "body"
  /\ m' = [CalledMemcpy(m, IntRegs) EXCEPT !.ints = [r \in 1..IntRegs |-> Junk], !.rax = Result]
  /\ Goto("return")

ReturnSlot == AboveRbp(StackArgsBefore(Fixed + 1) + 2)

\* From the return label to the end of gen_asm_func.
Return ==
  /\ phase = "return"
  /\ LET copied == IF StructRet
                   THEN [CalledMemcpy(m, 0) EXCEPT
                           !.temp = IF ReturnSlot = TempAddress THEN Result ELSE @,
                           !.rax = ReturnSlot]
                   ELSE m
         words == FrameWords + (IF sig.variadic THEN IntRegs - Fixed ELSE 0)
         left == IF words <= Len(copied.stack) THEN Dropped(copied.stack, words) ELSE << >>
     IN IF Len(left) < 2 \/ words < 0 \/ Top(left) # SavedRbp \/ left[Len(left) - 1] # ReturnAddress
        THEN /\ m' = [copied EXCEPT !.stack = << >>, !.rbp = 0]
             /\ Goto("crash")
        ELSE /\ m' = [copied EXCEPT !.stack = Dropped(left, 2), !.rbp = 0]
             /\ Goto("restore")

PopCountMutant ==
  Greatest(IntArgCount - IntRegs, 0) + Greatest(FloatArgCount - FloatRegs, 0)

\* pop_count
PopCount == PushedWords

\* Back in the caller.
RestoreStack ==
  /\ phase = "restore"
  /\ m' = [m EXCEPT !.stack = PopRsp(Dropped(@, Least(PopCount, Len(@))))]
  /\ Goto("done")

-----------------------------------------------------------------------------

(***************************************************************************)
(* The calls the code gets right.  In a variadic call with additional      *)
(* arguments the loops take the types of the fixed ones from parameters    *)
(* further to the left; memcpy for a structure loses floating point        *)
(* registers that are still to be stored; the epilogue of a variadic       *)
(* function, and where it looks for the address of a returned structure,   *)
(* do not know of more parameters than there are registers.                *)
(***************************************************************************)
Plain(s) ==
  /\ Len(s.args) > Len(s.params) => \A i \in DOMAIN s.params : s.params[i] = s.params[1]
  /\ \A i, j \in DOMAIN s.params : i < j /\ s.params[i] = "struct" => ~IsFloat(s.params[j])
  /\ s.variadic => Len(s.params) <= IntRegs
  /\ (s.variadic /\ s.ret = "struct") => Len(s.args) <= Least(IntRegs, FloatRegs)

Init ==
  /\ sig \in {s \in Signatures : Careful => Plain(s)}
  /\ m = [stack |-> << >>, ints |-> [r \in 1..IntRegs |-> Junk],
          floats |-> [r \in 1..FloatRegs |-> Junk], rax |-> Junk, al |-> -1, rbp |-> 0,
          slots |-> << >>, temp |-> Junk]
  /\ phase = "prepare"
  /\ param = 0

Next ==
  \/ PrepareCall \/ PushStackArgs \/ PushFloatArgs \/ PushIntArgs \/ PopArgs
  \/ Enter \/ StoreParam \/ SaveVariadic \/ Body \/ Return \/ RestoreStack

Spec == Init /\ [][Next]_vars /\ WF_vars(Next)

-----------------------------------------------------------------------------
(* Properties *)

Values == {Value(i, class) : i \in 1..Given, class \in Classes}

Words ==
  {Junk, TempAddress, ReturnAddress, SavedRbp, Result}
  \union {SavedRsp(n) : n \in 0..Len(m.stack)}
  \union Values
  \union {AddressOf(i) : i \in 1..Given}

\* Words are moved around, the frame is on the stack, each parameter has one slot and in it a value.
TypeOK ==
  /\ Range(m.stack) \union Range(m.ints) \union Range(m.floats) \union {m.rax, m.temp}
       \subseteq Words
  /\ Range(m.slots) \subseteq {Junk} \union Values
  /\ DOMAIN m.ints = 1..IntRegs /\ DOMAIN m.floats = 1..FloatRegs
  /\ m.rbp \in 0..Len(m.stack)
  /\ phase = "params" => Len(m.slots) = param - 1

(***************************************************************************)
(* Where gen_asm_func_call "x86 Linux Calling convention" has the          *)
(* arguments at the call: the first of each class in registers, in order,  *)
(* the rest on the stack with the leftmost on top, the number of floating  *)
(* point registers in al, rsp a multiple of 16.  What a function of the C  *)
(* library relies on; structures are not passed as the convention has it.  *)
(***************************************************************************)
AbiClass(i) ==
  IF i <= Fixed THEN sig.params[i] ELSE IF IsFloat(sig.args[i]) THEN "double" ELSE sig.args[i]

Rank(i) == Cardinality({j \in 1..i : IsFloat(AbiClass(j)) = IsFloat(AbiClass(i))})

InRegister(i) == Rank(i) <= IF IsFloat(AbiClass(i)) THEN FloatRegs ELSE IntRegs

StackPlace(i) == Cardinality({j \in 1..i : ~InRegister(j)})

AbiWord(i) == IF AbiClass(i) = "struct" THEN AddressOf(i) ELSE Value(i, AbiClass(i))

ArgumentsByAbi ==
  phase = "call" =>
    /\ \A i \in 1..Given :
         AbiWord(i) = (IF ~InRegister(i) THEN m.stack[Len(m.stack) + 1 - StackPlace(i)]
                       ELSE IF IsFloat(AbiClass(i)) THEN m.floats[Rank(i)] ELSE m.ints[Rank(i)])
    /\ sig.variadic => m.al = Cardinality({i \in 1..Given : IsFloat(AbiClass(i)) /\ InRegister(i)})
    /\ Aligned(m.stack)

(***************************************************************************)
(* When the body begins each parameter has its argument, converted to the  *)
(* parameter's type, and a structure is a copy.  A va_list set up there by *)
(* gen_asm_builtin_va_begin finds the additional arguments in the saved    *)
(* registers when all arguments are integers and fit in registers.         *)
(***************************************************************************)
ParamsArrive ==
  phase = "body" =>
    /\ m.slots = [i \in 1..Fixed |-> Value(i, sig.params[i])]
    /\ (sig.variadic /\ Given <= IntRegs /\ \A i \in 1..Given : AbiClass(i) = "int") =>
         \A i \in (Fixed + 1)..Given :
           m.stack[Len(m.stack) + 1 - (i - Fixed)] = Value(i, "int")

(***************************************************************************)
(* The function returns to its caller, whose stack is as it was before the *)
(* call, with the result in rax or xmm0; a structure is in the caller's    *)
(* own temporary, whose address is in rax.                                 *)
(***************************************************************************)
CallerRestored ==
  /\ phase # "crash"
  /\ phase = "done" =>
       /\ m.stack = << >>
       /\ IF StructRet THEN m.rax = TempAddress /\ m.temp = Result ELSE m.rax = Result

=============================================================================

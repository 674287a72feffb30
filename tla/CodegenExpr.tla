------------------------------ MODULE CodegenExpr ------------------------------
(***************************************************************************)
(* An expression from its tokens to the machine: parsed by Parser, the     *)
(* tree given to the generator of ExprCode, and the instructions run,      *)
(* against what C says the expression does, ExprMeaning.                   *)
(*                                                                         *)
(* The stack has one entry for 8 bytes; it is empty, and rsp a multiple of *)
(* 16, where a statement begins.  Memory has one cell for each scalar      *)
(* object, and an access of other bytes than one object's traps.           *)
(***************************************************************************)
EXTENDS ExprMeaning

VARIABLES
  code,    \* the instructions of the expression
  machine  \* registers, stack, memory, the calls made, pc

vars == <<expr, tokens, node, start, code, machine>>

-----------------------------------------------------------------------------
(* The machine *)

Started(mem) ==
  [pc |-> 1, rax |-> 0, rbx |-> 0, r12 |-> 0, xmm0 |-> 0, xmm1 |-> 0, args |-> << >>,
   floats |-> << >>, stack |-> << >>, mem |-> mem, calls |-> << >>, trapped |-> FALSE]

NoMemory == << >>

Init ==
  /\ Begin({e \in Exprs : Careful => Plain(e) /\ Safe(e)})
  /\ start = NoMemory /\ code = << >> /\ machine = Started(NoMemory)

ParseTokens == Parse /\ UNCHANGED <<start, code, machine>>

Generate ==
  LET generated == Gen(node, NoContext, 0).code
  IN /\ code = << >> /\ node \notin {Unparsed, Error}
     /\ \A i \in DOMAIN generated : generated[i] # CodegenError[1]
     /\ code' = generated
     /\ UNCHANGED <<expr, tokens, node, start, machine>>

\* The program is started and gets to the expression.
Run ==
  /\ code # << >> /\ start = NoMemory
  /\ start' \in Memories /\ machine' = Started(start')
  /\ UNCHANGED <<expr, tokens, node, code>>

Running == start # NoMemory

Finished == Running /\ (machine.trapped \/ machine.pc > Len(code))

Instr == code[machine.pc]

\* The next instruction has this name and turns the machine into next.
Execute(name, next) ==
  /\ Running /\ ~Finished /\ Instr[1] = name
  /\ machine' = [next EXCEPT !.pc = @ + 1]
  /\ UNCHANGED <<expr, tokens, node, start, code>>

Trap == [machine EXCEPT !.trapped = TRUE]

Top == Last(machine.stack)

Popped == [machine EXCEPT !.stack = Front(@)]

CanPop == machine.stack # << >>

\* The address that the instruction names at i.
At(i) == IF Instr[i] = R12 THEN machine.r12 ELSE Instr[i]

Mov == Execute("mov", [machine EXCEPT !.rax = Instr[2]])
MoveRegister == Execute("move", [machine EXCEPT ![Instr[2]] = machine[Instr[3]]])
Push == Execute("push", [machine EXCEPT !.stack = Append(@, machine[Instr[2]])])
Pop == CanPop /\ Execute("pop", [Popped EXCEPT ![Instr[2]] = Top])
PopArg == CanPop /\ Execute("pop_arg", [Popped EXCEPT ![Instr[2]] = Append(@, Top)])
Add == Execute("add", [machine EXCEPT !.rax = @ + Instr[2]])
Scale == Execute("scale", [machine EXCEPT !.rbx = @ * Instr[2]])
ToInt == Execute("to_int", [machine EXCEPT !.rax = Trunc(Halves(machine.xmm0))])
ToDouble == Execute("to_double", [machine EXCEPT !.xmm0 = DoubleBits(2 * machine.rax)])
Label == Execute("label", machine)

Load ==
  Execute("load", IF IsObject(machine.mem, At(3), Instr[4])
                  THEN [machine EXCEPT ![Instr[2]] = machine.mem[At(3)].value] ELSE Trap)

Store ==
  Execute("store", IF IsObject(machine.mem, At(3), Instr[4])
                   THEN [machine EXCEPT !.mem[At(3)].value = Kept(machine[Instr[2]], Instr[4])]
                   ELSE Trap)

\* External: memcpy.
Memcpy ==
  Execute("memcpy", IF CanCopy(machine.mem, machine.rax, machine.rbx, Instr[2])
                    THEN [machine EXCEPT !.mem = Copied(@, machine.rax, machine.rbx, Instr[2])]
                    ELSE Trap)

\* From the pop of the structure's address to where the member's is in r12.
Member ==
  CanPop /\ Execute("member", [machine EXCEPT !.rax = Top, !.r12 = Top + Instr[2]])

JumpIf ==
  LET target == CHOOSE i \in 1..Len(code) : code[i] = <<"label", Instr[3]>>
  IN Execute("jump_if", IF machine.rax = Instr[2] THEN [machine EXCEPT !.pc = target] ELSE machine)

Compute ==
  Execute("alu", [machine EXCEPT !.rax = Alu(Instr[2], machine.rax, machine.rbx)])

\* A comparison leaves its result in rax, too, and a negation goes through rax.
ComputeFloat ==
  LET result == Fpu(Instr[2], machine.xmm0, machine.xmm1)
      rax == CASE Instr[2] \in Comparisons -> Trunc(Halves(result))
               [] Instr[2] = "neg" -> result
               [] OTHER -> machine.rax
  IN Execute("fpu", [machine EXCEPT !.xmm0 = result, !.rax = rax])

\* mov rdx, 0: the dividend is rax without its sign.
Dividend == IF machine.rax < 0 THEN machine.rax + 2 ^ Bits ELSE machine.rax

\* idiv traps when the quotient is not a signed number of Bits bits.
Divides ==
  /\ machine.rbx # 0
  /\ Dividend \div AbsVal(machine.rbx) < 2 ^ (Bits - 1) + Bool(machine.rbx < 0)

Divide ==
  LET quotient == Dividend \div AbsVal(machine.rbx)
  IN Execute("div", IF ~Divides THEN Trap
                    ELSE [machine EXCEPT !.rax = IF machine.rbx < 0 THEN -quotient ELSE quotient])

Modulo ==
  Execute("mod", IF ~Divides THEN Trap
                 ELSE [machine EXCEPT !.rax = Dividend % AbsVal(machine.rbx)])

AlignStack ==
  Execute("align",
    LET rsp == Len(machine.stack)
        padding == [i \in 1..((rsp % 2) + Instr[2]) |-> 0]
    IN [machine EXCEPT !.rbx = rsp, !.stack = Append(@ \o padding, rsp)])

Call ==
  LET f == Instr[2]
      depth == Len(machine.stack)
      Received(i) == IF i \in OnStack(f) THEN machine.stack[depth + 1 - Rank(i, OnStack(f))]
                     ELSE IF i \in FloatParams(f) THEN machine.floats[Rank(i, FloatParams(f))]
                     ELSE machine.args[Rank(i, IntParams(f))]
      args == [i \in DOMAIN Funcs[f].of |-> Received(i)]
      isFloat == Funcs[f].type = <<"double", 0>>
  IN Execute("call",
       [machine EXCEPT !.rax = IF isFloat THEN 99 ELSE Result(f, args),
                       !.xmm0 = IF isFloat THEN Result(f, args) ELSE 99,
                       !.rbx = 99, !.r12 = Counter, !.args = << >>, !.floats = << >>,
                       !.calls = Append(@, Called(f, args)), !.mem[Counter].value = @ + 1])

Drop == Execute("drop", [machine EXCEPT !.stack = SubSeq(@, 1, Len(@) - Instr[2])])

PopRsp ==
  /\ CanPop /\ Top \in 0..Len(machine.stack)
  /\ Execute("pop_rsp", [machine EXCEPT !.stack = SubSeq(@, 1, Top)])

Done == Finished /\ UNCHANGED vars

Next ==
  \/ ParseTokens \/ Generate \/ Run
  \/ Mov \/ MoveRegister \/ Load \/ Store \/ Memcpy \/ Member
  \/ Push \/ Pop \/ PopArg \/ Label \/ JumpIf
  \/ Add \/ Scale \/ Compute \/ ComputeFloat \/ Divide \/ Modulo \/ ToInt \/ ToDouble
  \/ AlignStack \/ Call \/ Drop \/ PopRsp
  \/ Done

Spec == Init /\ [][Next]_vars

-----------------------------------------------------------------------------
(* Properties *)

\* Every variable holds values of its type, and no more arguments are given
\* registers than the machine has of their class.
TypeOK ==
  /\ start \in Memories \union {NoMemory}
  /\ machine.pc \in 1..(Len(code) + 1)
  /\ {machine.stack, machine.args, machine.floats} \subseteq Seq(Int)
  /\ Len(machine.args) <= ArgRegs /\ Len(machine.floats) <= FloatRegs
  /\ DOMAIN machine.mem = DOMAIN start
  /\ \A address \in DOMAIN start : machine.mem[address].bytes = start[address].bytes
  /\ {machine.rax, machine.rbx, machine.r12, machine.xmm0, machine.xmm1} \subseteq Int

(***************************************************************************)
(* The expression has the value C gives it, whatever was parsed, converted *)
(* and jumped over on the way, and every object is accessed where it is    *)
(* and with the bytes it has.                                              *)
(***************************************************************************)
ValueRight ==
  Finished =>
    LET c == InC
        value == IF CType(expr) = Double THEN machine.xmm0 ELSE machine.rax
    IN c.unsure \/ (~machine.trapped /\ (value = c.value \/ IsStruct(expr)))

(***************************************************************************)
(* The expression assigns what C assigns and makes the calls C makes, in   *)
(* order and with the same arguments: no operand of a short-circuit        *)
(* operator is evaluated that C skips, or skipped that C evaluates, and no *)
(* lvalue's address is lost while the value for it is computed.            *)
(***************************************************************************)
EffectsRight ==
  Finished => LET c == InC IN c.unsure \/ (machine.mem = c.mem /\ machine.calls = c.calls)

(***************************************************************************)
(* Whatever is jumped over, the stack is left as it was: the function      *)
(* finds its return address above its frame.  "Align stack to 16 bytes for *)
(* function call": at a call it is aligned, with every value pending on it *)
(* and however calls nest in the arguments of others.                      *)
(***************************************************************************)
StackRight ==
  /\ Finished => machine.trapped \/ machine.stack = << >>
  /\ Running /\ ~Finished /\ Instr[1] = "call" => Len(machine.stack) % 2 = 0

================================================================================

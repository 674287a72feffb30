------------------------------- MODULE ExprCode --------------------------------
(***************************************************************************)
(* The code generator for expressions: the instructions that gen_asm_expr  *)
(* makes of a tree that the parser built, and the arithmetic in them.      *)
(*                                                                         *)
(* The generator keeps intermediate values on the stack, the address of an *)
(* lvalue in r12, doubles in xmm0, and hands the label that a short-       *)
(* circuit jump goes to down the expression in its context.  What it       *)
(* generates for an operator depends on the type that the parser gave it.  *)
(*                                                                         *)
(* Instructions that always follow each other are one.  Doubles are        *)
(* multiples of 1/2, and DoubleBits stands for the bit pattern.            *)
(***************************************************************************)
EXTENDS Parser, FiniteSets
LOCAL INSTANCE Bitwise

CONSTANTS
  Memories,   \* the contents of memory: of each address, an object's bytes and value
  Places,     \* the address of each variable
  Offsets,    \* of each structure: the offset of each of its members
  Globals,    \* the variables that are global
  Arrays,     \* the number of elements of each variable and member that is an array
  Literals,   \* the value of the literals of each kind
  ArgRegs,    \* the number of registers for integer arguments (6)
  FloatRegs,  \* the number of registers for double arguments (8)
  Bits        \* bits of a register (64)

ASSUME ExprAssumption ==
  /\ {ArgRegs, FloatRegs, Bits} \subseteq Nat
  /\ DOMAIN Vars = DOMAIN Places

NoLabel == 0

\* The address a load or store has when it is in r12.
R12 == -1

\* What a local variable with stack offset 0 would have for its address.
FrameBase == 0

Kind(e) == e[1]

Logical == {"and", "or"}
Incr == {"pre_incr", "pre_decr", "post_incr", "post_decr"}
Arithmetic == {"add", "sub", "mul", "div"}

\* The operator that an assignment applies before it assigns.
Applied ==
  [assign_add |-> "add", assign_sub |-> "sub", assign_mult |-> "mul", assign_div |-> "div",
   assign_mod |-> "mod", assign_leftshift |-> "leftshift",
   assign_rightshift |-> "rightshift", assign_bitand |-> "bitand",
   assign_bitor |-> "bitor", assign_bitxor |-> "bitxor"]

BaseOp(op) == IF op \in DOMAIN Applied THEN Applied[op] ELSE op

-----------------------------------------------------------------------------
(* Generating: a context and the number of labels made so far go in, *)
(* instructions and the new number of labels come out.               *)

Code(instrs, labels) == [code |-> instrs, labels |-> labels]

Then(first, instrs) == [first EXCEPT !.code = @ \o instrs]

\* codegen_error: the compiler exits.
CodegenError == <<<<"error">>>>

Move(to, from) == <<"move", to, from>>

\* How gen_asm_unary_op, gen_asm_binary_op and gen_asm_variable tell types apart.
Class(type) ==
  IF type.ptr_level > 0 THEN "ptr"
  ELSE IF type.type = "double" THEN "float"
  ELSE IF type.type \in DOMAIN Members THEN "struct" ELSE "int"

IntBase(type) == type.type \notin DOMAIN Members \union {"double", "void"}

(***************************************************************************)
(* gen_asm_unary_op_cast.  Only the first test and two that change nothing *)
(* look at the level of indirection.                                       *)
(***************************************************************************)
Cast(to, from) ==
  CASE to.ptr_level > 0 /\ from.ptr_level > 0 -> << >>
    [] ~(to.ptr_level > 0 /\ from.ptr_level > 0) /\ IntBase(to) /\ from.type = "double" ->
         <<<<"to_int">>>>
    [] ~(to.ptr_level > 0 /\ from.ptr_level > 0) /\ to.type = "double" /\ IntBase(from) ->
         <<<<"to_double">>>>
    [] OTHER -> IF \/ IntBase(to) /\ (from.ptr_level > 0 \/ IntBase(from))
                   \/ to.ptr_level > 0 /\ IntBase(from)
                   \/ to.type = "double" /\ from.type = "double"
                   \/ to.type = "void" \/ from.type \in DOMAIN Members
                THEN << >> ELSE CodegenError

NoContext == [and |-> NoLabel, or |-> NoLabel, end |-> FALSE]

SetupMutant(op, ctx, labels) ==
  LET new == op \in Logical /\ ctx[op] = NoLabel
  IN IF op \in Logical
     THEN [[ctx EXCEPT !.end = new] EXCEPT ![op] = IF new THEN labels + 1 ELSE @]
     ELSE [ctx EXCEPT !.end = FALSE]

(***************************************************************************)
(* gen_asm_setup_short_circuiting: the first operator of a kind makes a    *)
(* label, operators of that kind below it keep it, any other binary        *)
(* operator forgets it.                                                    *)
(***************************************************************************)
Setup(op, ctx, labels) ==
  LET new == op \in Logical /\ ctx[op] = NoLabel
  IN IF op \in Logical
     THEN [[NoContext EXCEPT !.end = new] EXCEPT ![op] = IF new THEN labels + 1 ELSE ctx[op]]
     ELSE NoContext

\* gen_asm_add_short_circuit_jumps: on rax = 0 for an AND, on rax = 1 for an OR.
Jumps(op, ctx) ==
  IF op = "and" THEN <<<<"jump_if", 0, ctx.and>>>>
  ELSE IF op = "or" THEN <<<<"jump_if", 1, ctx.or>>>> ELSE << >>

EndLabel(op, ctx) == IF ctx.end THEN <<<<"label", ctx[op]>>>> ELSE << >>

\* gen_asm_variable, but for members: arrays and structures are their address.
GenVar(n) ==
  IF n.name \in DOMAIN Arrays \/ Class(n.cast) = "struct" THEN <<<<"mov", Places[n.name]>>>>
  ELSE <<<<"load", IF Class(n.cast) = "float" THEN "xmm0" ELSE "rax",
           Places[n.name], n.cast.bytes>>>>

\* gen_asm_variable for a member; a pointer to a double is loaded like a double.
GenMember(n) ==
  <<<<"member", Offsets[n.args[1].struct][n.name]>>,
    IF n.name \in DOMAIN Arrays \/ Class(n.cast) = "struct" THEN Move("rax", "r12")
    ELSE <<"load", IF n.cast.type = "double" THEN "xmm0" ELSE "rax", R12, n.cast.bytes>>>>

\* gen_asm_literal
GenLiteral(n) ==
  <<<<"mov", Literals[n.name]>>>> \o (IF n.name = "float" THEN <<Move("xmm0", "rax")>> ELSE << >>)

\* gen_asm_binary_op_assign_int and _float: to the variable, or to the address in r12.
Assign(lvalue, reg) ==
  IF lvalue.op \notin {"var", "deref", "member"} THEN CodegenError
  ELSE <<<<"store", reg, IF lvalue.op = "var" THEN Places[lvalue.name] ELSE R12,
           lvalue.cast.bytes>>>>

\* gen_asm_binary_op_assign_struct: from the address in rbx to that in rax.
AssignStruct(n) ==
  LET struct == n.args[2].struct
  IN IF struct \in DOMAIN Members /\ Sizes[struct] = n.args[1].cast.bytes
     THEN <<<<"memcpy", Sizes[struct]>>>> ELSE CodegenError

\* gen_asm_unary_op_address
Address(operand) ==
  CASE operand.op = "var" ->
         <<<<"mov", IF operand.name \in Globals THEN FrameBase ELSE Places[operand.name]>>>>
    [] operand.op \in {"deref", "member"} -> <<Move("rax", "r12")>>
    [] OTHER -> CodegenError

\* The bytes a pointer moves by, gen_asm_binary_op_load_ptr_size.
PtrSize(n) == GetDerefVarType(n.cast).bytes

\* ++ and --, by so many.
GenIncr(n, by) ==
  LET set == <<<<"add", IF n.op \in {"pre_incr", "post_incr"} THEN by ELSE -by>>>>
               \o Assign(n.args[1], "rax")
  IN IF n.op \in {"pre_incr", "pre_decr"} THEN set
     ELSE <<<<"push", "rax">>>> \o set \o <<<<"pop", "rax">>>>

\* gen_asm_unary_op_int, behind the operand.
UnaryInt(n) ==
  CASE n.op \in {"neg", "compl", "not"} -> <<<<"alu", n.op>>>>
    [] n.op \in Incr -> GenIncr(n, 1)
    [] n.op = "cast" -> Cast(n.cast, n.args[1].cast)
    [] n.op = "deref" -> <<Move("r12", "rax"), <<"load", "rax", R12, n.cast.bytes>>>>
    [] OTHER -> CodegenError

\* gen_asm_unary_op_float
UnaryFloat(n) ==
  CASE n.op = "neg" -> <<<<"fpu", "neg">>>>
    [] n.op = "cast" -> Cast(n.cast, n.args[1].cast)
    [] n.op = "deref" -> <<Move("r12", "rax"), <<"load", "rax", R12, n.cast.bytes>>,
                           Move("xmm0", "rax")>>
    [] OTHER -> CodegenError

\* gen_asm_unary_op_ptr
UnaryPtr(n) ==
  CASE n.op = "addr" -> Address(n.args[1])
    [] n.op = "deref" -> <<Move("r12", "rax"), <<"load", "rax", R12, 8>>>>
    [] n.op = "cast" -> Cast(n.cast, n.args[1].cast)
    [] n.op \in Incr -> GenIncr(n, PtrSize(n))
    [] n.op = "not" -> <<<<"alu", "not">>>>
    [] OTHER -> CodegenError

\* gen_asm_unary_op_struct: the structure's address stays in rax.
UnaryStruct(n) == IF n.op = "deref" THEN <<Move("r12", "rax")>> ELSE CodegenError

\* gen_asm_unary_op
GenUnary(n) ==
  LET class == Class(n.cast)
  IN CASE class = "int"    -> UnaryInt(n)
       [] class = "float"  -> UnaryFloat(n)
       [] class = "ptr"    -> UnaryPtr(n)
       [] class = "struct" -> UnaryStruct(n)

\* UOP_SIZEOF, for which the operand generates nothing.
GenSizeof(operand) ==
  <<<<"mov", IF operand.name \in DOMAIN Arrays
             THEN Arrays[operand.name] * operand.cast.ptr_value_bytes
             ELSE operand.cast.bytes>>>>

RhsType(n) == IF n.op = "member" THEN n.cast ELSE n.args[2].cast

\* is_binary_operation_assignment: r12 is saved while the right operand is evaluated.
SavesMutant(n) == n.op = "assign"

Saves(n) == n.op \in Assignments

Saved(n, instrs) == IF Saves(n) THEN instrs ELSE << >>

\* gen_asm_binary_op_int, behind the right operand.
BinaryInt(n) ==
  LET op == BaseOp(n.op)
  IN Cast(n.cast, RhsType(n)) \o <<Move("rbx", "rax"), <<"pop", "rax">>>>
     \o (CASE op \in {"assign", "member"} -> <<Move("rax", "rbx")>>
           [] op \in {"div", "mod"} -> <<<<op>>>>
           [] OTHER -> <<<<"alu", op>>>>)
     \o Saved(n, <<<<"pop", "r12">>>> \o Assign(n.args[1], "rax"))

\* gen_asm_binary_op_float, behind the right operand.
BinaryFloat(n) ==
  LET op == BaseOp(n.op)
  IN Cast(n.cast, RhsType(n))
     \o <<Move("xmm1", "xmm0"), <<"pop", "rax">>, Move("xmm0", "rax")>>
     \o (CASE op \in {"assign", "member"} -> <<Move("xmm0", "xmm1")>>
           [] op \in Arithmetic \union Comparisons -> <<<<"fpu", op>>>>
           [] OTHER -> CodegenError)
     \o Saved(n, <<<<"pop", "r12">>>> \o Assign(n.args[1], "xmm0"))

\* Its left operand is kept in rax, or else the address that is there.
FloatLeft(n) ==
  LET left == n.args[1]
  IN Cast(n.cast, left.cast)
     \o (IF left.op = "var" /\ left.cast.type \in DOMAIN Members THEN << >>
         ELSE <<Move("rax", "xmm0")>>)

\* gen_asm_binary_op_ptr, behind the right operand.
BinaryPtr(n) ==
  LET op == BaseOp(n.op)
  IN <<Move("rbx", "rax")>> \o Cast(n.cast, RhsType(n)) \o <<<<"pop", "rax">>>>
     \o (CASE op \in {"assign", "member"} -> <<Move("rax", "rbx")>>
           [] op \in {"add", "sub"} -> <<<<"scale", PtrSize(n)>>, <<"alu", op>>>>
           [] op \in Comparisons \union Logical -> <<<<"alu", op>>>>
           [] OTHER -> CodegenError)
     \o Saved(n, <<<<"pop", "r12">>>> \o Assign(n.args[1], "rax"))

\* gen_asm_binary_op_struct, behind the right operand.
BinaryStruct(n) ==
  <<Move("rbx", "rax"), <<"pop", "rax">>>>
  \o (CASE n.op = "member" -> <<Move("rax", "rbx")>>
        [] n.op = "assign" -> <<<<"pop", "r12">>>> \o AssignStruct(n)
        [] OTHER -> CodegenError)

AlignMutant(pushes) == <<"align", IF pushes % 2 = 1 THEN 1 ELSE 0>>

\* gen_asm_align_stack_for_func_call: "mov rbx, rsp" to "push rbx".
Align(pushes) == <<"align", IF (pushes + 1) % 2 = 1 THEN 1 ELSE 0>>

\* The parameters of a function that are doubles, and those that are not.
FloatParams(f) == {i \in DOMAIN Funcs[f].of : Funcs[f].of[i] = <<"double", 0>>}
IntParams(f) == DOMAIN Funcs[f].of \ FloatParams(f)

\* i is the Rank-th of the parameters in S.
Rank(i, S) == Cardinality({j \in S : j <= i})

OnStackMutant(f) ==
  {i \in IntParams(f) : Rank(i, IntParams(f)) > ArgRegs + 1}
  \union {i \in FloatParams(f) : Rank(i, FloatParams(f)) > FloatRegs}

\* Too late for a register of its class.
OnStack(f) ==
  {i \in IntParams(f) : Rank(i, IntParams(f)) > ArgRegs}
  \union {i \in FloatParams(f) : Rank(i, FloatParams(f)) > FloatRegs}

RECURSIVE Gen(_, _, _), GenArgs(_, _, _, _, _)

\* Arguments i down to 1 of n, each converted and pushed, of those in the set.
GenArgs(n, i, set, ctx, labels) ==
  IF i = 0 THEN Code(<< >>, labels)
  ELSE IF i \notin set THEN GenArgs(n, i - 1, set, ctx, labels)
  ELSE LET type == Complete(Funcs[n.name].of[i])
           this == Gen(n.args[i], ctx, labels)
           others == GenArgs(n, i - 1, set, ctx, this.labels)
       IN Code(this.code \o Cast(type, n.args[i].cast)
                 \o (IF Class(type) = "float" THEN <<Move("rax", "xmm0")>> ELSE << >>)
                 \o <<<<"push", "rax">>>> \o others.code,
               others.labels)

(***************************************************************************)
(* gen_asm_func_call: the arguments that go on the stack, then doubles and *)
(* then integers for registers, each group from right to left.             *)
(***************************************************************************)
GenCall(n, ctx, labels) ==
  LET last == Len(n.args)
      pushed == Cardinality(OnStack(n.name))
      floats == FloatParams(n.name) \ OnStack(n.name)
      ints == IntParams(n.name) \ OnStack(n.name)
      stacked == GenArgs(n, last, OnStack(n.name), ctx, labels)
      inFloats == GenArgs(n, last, floats, ctx, stacked.labels)
      inInts == GenArgs(n, last, ints, ctx, inFloats.labels)
  IN Code(<<Align(pushed)>> \o stacked.code \o inFloats.code \o inInts.code
            \o [i \in 1..Cardinality(ints) |-> <<"pop_arg", "args">>]
            \o [i \in 1..Cardinality(floats) |-> <<"pop_arg", "floats">>]
            \o <<<<"call", n.name>>, <<"drop", pushed>>, <<"pop_rsp">>>>,
          inInts.labels)

(***************************************************************************)
(* gen_asm_binary_op.  The right operand of . and -> finds the address of  *)
(* the structure on the stack; operations on structures pass the context   *)
(* of the operator above them on to their operands.                        *)
(***************************************************************************)
GenBinary(n, ctx, labels) ==
  LET class == Class(n.cast)
      own == IF class = "struct" THEN [ctx EXCEPT !.end = FALSE] ELSE Setup(n.op, ctx, labels)
      lhs == Gen(n.args[1], own, IF own.end THEN labels + 1 ELSE labels)
      rhs == IF n.op = "member" THEN Code(GenMember(n), lhs.labels)
             ELSE Gen(n.args[2], own, lhs.labels)
      left == CASE class = "float" -> FloatLeft(n)
                [] class = "ptr" -> Cast(n.cast, n.args[1].cast)
                [] class \in {"int", "struct"} -> << >>
      result == CASE class = "int"    -> BinaryInt(n)
                  [] class = "float"  -> BinaryFloat(n)
                  [] class = "ptr"    -> BinaryPtr(n)
                  [] class = "struct" -> BinaryStruct(n)
  IN Code(lhs.code \o Saved(n, <<<<"push", "r12">>>>) \o left \o Jumps(n.op, own)
            \o <<<<"push", "rax">>>> \o rhs.code \o result \o EndLabel(n.op, own),
          rhs.labels)

\* gen_asm_expr
Gen(n, ctx, labels) ==
  CASE n.op = "literal" -> Code(GenLiteral(n), labels)
    [] n.op = "var"     -> Code(GenVar(n), labels)
    [] n.op = "sizeof"  -> Code(GenSizeof(n.args[1]), labels)
    [] n.op = "call"    -> GenCall(n, ctx, labels)
    [] n.op = "member" \/ Len(n.args) = 2 -> GenBinary(n, ctx, labels)
    [] OTHER -> Then(Gen(n.args[1], ctx, labels), GenUnary(n))

-----------------------------------------------------------------------------
(* What the instructions of an operator compute *)

Halves(bits) == bits - 1000
DoubleBits(halves) == 1000 + halves

Trunc(halves) == IF halves < 0 THEN -((-halves) \div 2) ELSE halves \div 2

Bool(b) == IF b THEN 1 ELSE 0

AbsVal(n) == IF n < 0 THEN -n ELSE n

Signed(bits) == IF bits >= 2 ^ (Bits - 1) THEN bits - 2 ^ Bits ELSE bits
Unsigned(n) == n % 2 ^ Bits

\* What the instructions of an operator make of rax and rbx.
Alu(op, rax, rbx) ==
  CASE op = "not"  -> Bool(rax = 0)
    [] op = "neg"  -> -rax
    [] op = "compl" -> -rax - 1
    [] op = "add"  -> rax + rbx
    [] op = "sub"  -> rax - rbx
    [] op = "mul"  -> rax * rbx
    [] op = "eq"   -> Bool(rax = rbx)
    [] op = "neq"  -> Bool(rax # rbx)
    [] op = "lt"   -> Bool(rax < rbx)
    [] op = "lte"  -> Bool(rax <= rbx)
    [] op = "gt"   -> Bool(rax > rbx)
    [] op = "gte"  -> Bool(rax >= rbx)
    [] op = "and"  -> Bool(rax # 0 /\ rbx # 0)
    [] op = "or"   -> Bool(rax # 0 \/ rbx # 0)
    [] op = "bitand" -> Signed(Unsigned(rax) & Unsigned(rbx))
    [] op = "bitor"  -> Signed(Unsigned(rax) | Unsigned(rbx))
    [] op = "bitxor" -> Signed(Unsigned(rax) ^^ Unsigned(rbx))
    [] op = "leftshift"  -> Signed(Unsigned(rax * 2 ^ (rbx % Bits)))
    [] op = "rightshift" -> rax \div 2 ^ (rbx % Bits)

\* The same of xmm0 and xmm1; a comparison is 0.0 or 1.0.
Fpu(op, xmm0, xmm1) ==
  LET l == Halves(xmm0)
      r == Halves(xmm1)
  IN CASE op = "neg" -> DoubleBits(-l)
       [] op = "mul" -> DoubleBits((l * r) \div 2)
       [] op = "div" -> DoubleBits(IF r = 0 THEN 0 ELSE Trunc((4 * l) \div r))
       [] op \in {"add", "sub"} -> DoubleBits(Alu(op, l, r))
       [] OTHER -> DoubleBits(2 * Alu(op, l, r))

================================================================================

------------------------------ MODULE ExprMeaning ------------------------------
(***************************************************************************)
(* What C says an expression does, and for which expressions the parser    *)
(* and the generator are known to agree with it.                           *)
(***************************************************************************)
EXTENDS ExprCode

VARIABLE start  \* memory before the expression is evaluated

-----------------------------------------------------------------------------
(* Where the parser and the generator are right *)

Double == <<"double", 0>>
IsPointer(e) == CType(e)[2] > 0
IsDoublePointer(e) == IsPointer(e) /\ CType(e)[1] = "double"
IsStruct(e) == CType(e)[1] \in DOMAIN Members /\ ~IsPointer(e)

RECURSIVE Bare(_), Exposed(_), Effectless(_), ZeroSized(_), Safe(_)

Bare(e) == IF Kind(e) = "paren" THEN Bare(e[2]) ELSE e

Below(e) == Range(Operands(e))

Operand(e) == Operands(e)[1]

IsBinary(e) == Kind(e) = "index" \/ \E str \in DOMAIN BinaryOps : BinaryOps[str] = Kind(e)

Objects == {"var", "deref", "member", "arrow", "index"}

\* Logical operators in e whose context is the one that e itself is given.
Exposed(e) ==
  IF Kind(e) \in Logical THEN {Kind(e)}
  ELSE IF IsBinary(e) THEN {} ELSE UNION {Exposed(x) : x \in Below(e)}

\* Evaluating e for nothing cannot be noticed.
Effectless(e) ==
  /\ Kind(e) \notin Incr \union Assignments \union {"call", "div", "mod", "index", "arrow"}
  /\ Kind(e) = "deref" => Kind(Bare(e[2])) = "var"
  /\ \A x \in Below(e) : Effectless(x)

\* The parser gives literals a type of no bytes.
ZeroSized(e) ==
  \/ Kind(e) = "literal"
  \/ Kind(e) \in Arithmetic \union {"paren", "neg"} /\ \A x \in Below(e) : ZeroSized(x)

Narrow(e) ==
  ZeroSized(e) \/ (Kind(Bare(e)) \in Objects /\ Sizes[CType(e)[1]] < 8 /\ ~IsPointer(e))

(***************************************************************************)
(* An operator shares the label of the one above it only as that one's     *)
(* left operand, and the left operand of an OR is 0 or 1 or else its right *)
(* operand may be evaluated for nothing.                                   *)
(***************************************************************************)
SafeLogical(e) ==
  LET left == Bare(e[2])
  IN /\ Kind(e) \notin Exposed(e[3])
     /\ Kind(e) = Kind(left) \/ Kind(e) \notin Exposed(left)
     /\ Kind(e) = "or" =>
          Kind(left) \in Logical \union Comparisons \union {"not"} \/ Effectless(e[3])

(***************************************************************************)
(* Doubles have no logical operators, no ++ and --; an operation is one on *)
(* doubles when the parser finds the double the wider operand, and then    *)
(* also one that assigns to an integer; a pointer to a double is mistaken  *)
(* for one where a conversion to an integer may be needed, and as a        *)
(* member; a double member is only found in a structure with a name.       *)
(***************************************************************************)
SafeDouble(e) ==
  /\ Kind(e) \in Logical \union Incr \union {"not"} => \A x \in Below(e) : CType(x) # Double
  /\ Kind(e) \in Logical \union Comparisons \union {"cast"} =>
       \A x \in Below(e) : ~IsDoublePointer(x)
  /\ Kind(e) \in DOMAIN Applied => CType(e[2]) = Double \/ CType(e[3]) # Double
  /\ Kind(e) \in Arithmetic \union Comparisons =>
       CType(e[2]) = Double \/ CType(e[3]) # Double \/ ~ZeroSized(e[3]) \/ Narrow(e[2])
  /\ Kind(e) \in {"member", "arrow"} => ~IsDoublePointer(e)
  /\ Kind(e) \in {"member", "arrow"} /\ CType(e) = Double =>
       Kind(e) = "member" /\ Kind(Bare(e[2])) = "var"

(***************************************************************************)
(* The address of a global variable is taken for that of a local one, the  *)
(* right operand of a pointer is scaled when it is a pointer, too, and     *)
(* sizeof has the parser's size of an operator.                            *)
(***************************************************************************)
SafeAddress(e) ==
  /\ Kind(e) = "addr" => Bare(e[2]) \notin {<<"var", g>> : g \in Globals}
  /\ Kind(e) = "sub" => ~(IsPointer(e[2]) /\ IsPointer(e[3]))
  /\ Kind(e) = "sizeof" => Kind(Bare(e[2])) \in Objects

Safe(e) ==
  /\ Kind(e) \in Logical => SafeLogical(e)
  /\ SafeDouble(e) /\ SafeAddress(e)
  /\ \A x \in Below(e) : Safe(x)

-----------------------------------------------------------------------------
(* Memory and functions *)

IsObject(mem, address, bytes) == address \in DOMAIN mem /\ mem[address].bytes = bytes

\* An object of one byte keeps one byte.
Kept(value, bytes) == IF bytes = 1 THEN ((value + 128) % 256) - 128 ELSE value

CanCopy(mem, to, from, bytes) ==
  \A i \in 0..(bytes - 1) :
    (to + i) \in DOMAIN mem => IsObject(mem, from + i, mem[to + i].bytes)

Copied(mem, to, from, bytes) ==
  [address \in DOMAIN mem |-> IF address \in to..(to + bytes - 1)
                              THEN mem[from + address - to] ELSE mem[address]]

\* External: a function changes rbx and r12, as the code generated here does
\* itself, and the global variable; its result tells its arguments apart.
Result(f, args) ==
  IF Len(args) = 2 /\ Funcs[f].type = <<"int", 0>> THEN args[1] - args[2] ELSE args[1]

Counter == Places[CHOOSE g \in Globals : TRUE]

Called(f, args) == [func |-> f, args |-> args]

-----------------------------------------------------------------------------
(* What C says.  Where C leaves an order of evaluation open it is the       *)
(* generator's: left to right, arguments on the stack before doubles before *)
(* integers, each from right to left.                                       *)

\* The state of an evaluation: the last value, the address of the object that
\* it was read from (an array or structure is its address), memory, the calls
\* made, and whether the behaviour is undefined or a dividend was negative.
Value(value, s) == [s EXCEPT !.value = value]

Unsure(s) == [s EXCEPT !.unsure = TRUE]

SizeOf(type) == Complete(type).bytes

Pointee(type) == <<type[1], type[2] - 1>>

Converted(value, from, to) ==
  IF from = Double /\ to # Double THEN Trunc(Halves(value))
  ELSE IF from # Double /\ to = Double THEN DoubleBits(2 * value) ELSE value

IsArray(e) == Kind(e) \in {"var", "member", "arrow"} /\ e[Len(e)] \in DOMAIN Arrays

\* The object that e is, found at the address.
Object(e, address, s) ==
  LET found == [s EXCEPT !.at = address, !.value = address]
  IN IF IsArray(e) \/ IsStruct(e) THEN found
     ELSE IF IsObject(s.mem, address, SizeOf(CType(e))) THEN Value(s.mem[address].value, found)
     ELSE Unsure(found)

Put(type, address, value, s) ==
  IF IsObject(s.mem, address, SizeOf(type))
  THEN [s EXCEPT !.mem[address].value = Kept(value, SizeOf(type)), !.value = value]
  ELSE Unsure(s)

Copy(type, to, from, s) ==
  IF CanCopy(s.mem, to, from, SizeOf(type))
  THEN [s EXCEPT !.mem = Copied(@, to, from, SizeOf(type)), !.value = to] ELSE Unsure(s)

\* x op y for operands of these types, in the type that C gives it.
Combined(op, x, y, left, right) ==
  CASE Double \in {left, right} ->
         LET bits == Fpu(op, Converted(x, left, Double), Converted(y, right, Double))
         IN IF op \in Comparisons THEN Trunc(Halves(bits)) ELSE bits
    [] left[2] > 0 /\ right[2] > 0 /\ op = "sub" -> (x - y) \div SizeOf(Pointee(left))
    [] left[2] > 0 /\ right[2] = 0 /\ op \in {"add", "sub"} -> Alu(op, x, y * SizeOf(Pointee(left)))
    [] left[2] = 0 /\ right[2] > 0 /\ op = "add" -> y + x * SizeOf(Pointee(right))
    [] op = "mod" -> x % AbsVal(y)
    [] op = "div" /\ Double \notin {left, right} -> IF y < 0 THEN -(x \div (-y)) ELSE x \div y
    [] OTHER -> Alu(op, x, y)

Undefined(op, x, y, left, right) ==
  \/ op = "div" /\ Double \in {left, right} /\ Converted(y, right, Double) = DoubleBits(0)
  \/ op \in {"div", "mod"} /\ Double \notin {left, right} /\ (y = 0 \/ x < 0)
  \/ op \in {"leftshift", "rightshift"} /\ y \notin 0..(Bits - 1)

Apply(op, x, y, left, right, s) ==
  IF Undefined(op, x, y, left, right) THEN Unsure(s)
  ELSE Value(Combined(op, x, y, left, right), s)

\* What is at e, between its operand, with which its address begins, and an index.
Located(e, operand, index) ==
  CASE Kind(e) = "var"    -> Object(e, Places[e[2]], operand)
    [] Kind(e) = "deref"  -> Object(e, operand.value, operand)
    [] Kind(e) = "index"  -> Object(e, operand.value + index.value * SizeOf(CType(e)), index)
    [] Kind(e) = "member" -> Object(e, operand.at + Offsets[CType(e[2])[1]][e[3]], operand)
    [] Kind(e) = "arrow"  -> Object(e, operand.value + Offsets[CType(e[2])[1]][e[3]], operand)

\* e assigns right to the object left.
AssignedTo(e, left, right) ==
  LET type == CType(e[2])
      result == Apply(BaseOp(Kind(e)), left.value, right.value, type, CType(e[3]), right)
      both == CType(<<BaseOp(Kind(e)), e[2], e[3]>>)
  IN IF IsStruct(e) THEN Copy(type, left.at, right.value, right)
     ELSE IF Kind(e) = "assign"
     THEN Put(type, left.at, Converted(right.value, CType(e[3]), type), right)
     ELSE IF right.unsure \/ result.unsure THEN Unsure(left)
     ELSE Put(type, left.at, Converted(result.value, both, type), result)

Stepped(e, object) ==
  LET type == CType(e[2])
      by == IF type[2] > 0 THEN SizeOf(Pointee(type)) ELSE 1
      new == object.value + (IF Kind(e) \in {"pre_incr", "post_incr"} THEN by ELSE -by)
      after == Put(type, object.at, new, object)
  IN IF Kind(e) \in {"pre_incr", "pre_decr"} THEN after ELSE Value(object.value, after)

SizeofObject(object) ==
  IF IsArray(object) THEN Arrays[object[Len(object)]] * SizeOf(Pointee(CType(object)))
  ELSE SizeOf(CType(object))

\* The order of the arguments of f: those on the stack, then doubles, then integers.
ArgOrder(f) ==
  LET Down(set) == Reverse(SetToSortSeq(set, <))
  IN Down(OnStack(f)) \o Down(FloatParams(f) \ OnStack(f)) \o Down(IntParams(f) \ OnStack(f))

CallOf(f, acc) ==
  [acc.s EXCEPT !.calls = Append(@, Called(f, acc.args)), !.mem[Counter].value = @ + 1,
                !.value = Result(f, acc.args)]

RECURSIVE Eval(_, _), EvalArgs(_, _, _)

\* The arguments in this order, each converted, added to acc.args.
EvalArgs(e, order, acc) ==
  LET i == Head(order)
      arg == Eval(e[3][i], acc.s)
      value == Converted(arg.value, CType(e[3][i]), Funcs[e[2]].of[i])
  IN IF order = << >> THEN acc
     ELSE EvalArgs(e, Tail(order), [s |-> arg, args |-> [acc.args EXCEPT ![i] = value]])

Eval(e, s) ==
  LET left == Eval(Operand(e), s)
      right == Eval(e[3], left)
  IN CASE Kind(e) = "literal" -> Value(Literals[e[2]], s)
       [] Kind(e) = "var"   -> Located(e, s, s)
       [] Kind(e) \in {"deref", "member", "arrow"} -> Located(e, left, left)
       [] Kind(e) = "index" -> Located(e, left, right)
       [] Kind(e) = "paren" -> left
       [] Kind(e) = "addr"  -> Value(left.at, left)
       [] Kind(e) = "call"  ->
            CallOf(e[2], EvalArgs(e, ArgOrder(e[2]), [s |-> s, args |-> [i \in DOMAIN e[3] |-> 0]]))
       [] Kind(e) = "cast"  -> Value(Converted(left.value, CType(e[3]), CType(e)), left)
       [] Kind(e) = "sizeof_type" -> Value(SizeOf(Types[e[2]]), s)
       [] Kind(e) = "sizeof" -> Value(SizeofObject(Bare(e[2])), s)
       [] Kind(e) \in Incr -> Stepped(e, left)
       [] Kind(e) \in Assignments -> AssignedTo(e, left, right)
       [] Kind(e) \in {"neg", "compl", "not"} ->
            Value(IF CType(e) = Double THEN Fpu("neg", left.value, 0)
                  ELSE Alu(Kind(e), left.value, 0), left)
       [] Kind(e) = "and" -> IF left.value = 0 THEN Value(0, left)
                             ELSE Value(Bool(right.value # 0), right)
       [] Kind(e) = "or"  -> IF left.value # 0 THEN Value(1, left)
                             ELSE Value(Bool(right.value # 0), right)
       [] OTHER -> Apply(Kind(e), left.value, right.value, CType(e[2]), CType(e[3]), right)

InC == Eval(expr, [value |-> 0, at |-> 0, mem |-> start, calls |-> << >>, unsure |-> FALSE])

================================================================================

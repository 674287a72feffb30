------------------------------ MODULE ParseExpr -------------------------------
(***************************************************************************)
(* A behaviour writes one C expression down as C's grammar has it, parses  *)
(* it, and is compared with the expression: every operator has its own     *)
(* operands and every object is accessed with its own type.                *)
(***************************************************************************)
EXTENDS Parser

vars == <<expr, tokens, node>>

Init == Begin({e \in Exprs : Careful => Plain(e)})

Spec == Init /\ [][Parse]_vars /\ WF_vars(Parse)

-----------------------------------------------------------------------------
(* The tree that C's grammar gives, and what it accesses *)

\* How an object is accessed: what the generated loads, stores and additions depend on.
Access(type) ==
  [kind |-> IF type.type = "double" THEN "float"
            ELSE IF type.type \in Structs \union {"void"} THEN type.type ELSE "int",
   ptr_level |-> type.ptr_level,
   bytes |-> type.bytes,
   ptr_value_bytes |-> IF type.ptr_level > 0 THEN type.ptr_value_bytes ELSE 0]

Accessed == {"var", "deref", "member", "call"}

\* A tree of operators, the names in it, and the accesses it makes.
Shaped(op, name, args) == <<op, name, args>>

RECURSIVE CShape(_)

\* a[b] is *(a + b), x->m is ( *x).m, and a comparison is made an int by a cast.
CShape(e) ==
  CASE e[1] \in {"var", "literal"} -> Shaped(e[1], e[2], << >>)
    [] e[1] = "paren" -> CShape(e[2])
    [] e[1] = "call" -> Shaped("call", e[2], [i \in DOMAIN e[3] |-> CShape(e[3][i])])
    [] e[1] = "index" ->
         Shaped("deref", "", <<Shaped("add", "", <<CShape(e[2]), CShape(e[3])>>)>>)
    [] e[1] = "member" -> Shaped("member", e[3], <<CShape(e[2])>>)
    [] e[1] = "arrow" -> Shaped("member", e[3], <<Shaped("deref", "", <<CShape(e[2])>>)>>)
    [] e[1] = "cast" -> Shaped("cast", "", <<CShape(e[3])>>)
    [] e[1] = "sizeof_type" -> Shaped("sizeof", "", <<Shaped("type", "", << >>)>>)
    [] e[1] \in Comparisons ->
         Shaped("cast", "", <<Shaped(e[1], "", <<CShape(e[2]), CShape(e[3])>>)>>)
    [] Len(e) = 2 -> Shaped(e[1], "", <<CShape(e[2])>>)
    [] OTHER -> Shaped(e[1], "", <<CShape(e[2]), CShape(e[3])>>)

RECURSIVE Shape(_)

Shape(n) == Shaped(n.op, n.name, [i \in DOMAIN n.args |-> Shape(n.args[i])])

RECURSIVE CAccesses(_)

CAccesses(e) ==
  LET objects == CASE e[1] \in {"var", "call", "deref", "member", "index"} -> <<CType(e)>>
                   [] e[1] = "arrow" -> <<CType(e), CType(<<"deref", e[2]>>)>>
                   [] OTHER -> << >>
  IN [i \in DOMAIN objects |-> Access(Complete(objects[i]))]
     \o FlattenSeq([i \in DOMAIN Operands(e) |-> CAccesses(Operands(e)[i])])

RECURSIVE Accesses(_)

Accesses(n) ==
  (IF n.op \in Accessed THEN <<Access(n.cast)>> ELSE << >>)
  \o FlattenSeq([i \in DOMAIN n.args |-> Accesses(n.args[i])])

-----------------------------------------------------------------------------
(* Properties *)

IsType(type) ==
  /\ type.type \in DOMAIN Sizes \union {"void", "long", "double"}
  /\ {type.ptr_level, type.bytes, type.ptr_value_bytes} \subseteq Nat

RECURSIVE IsNode(_)

IsNode(n) ==
  /\ IsType(n.cast)
  /\ n.struct \in Structs \union {NoStruct}
  /\ \A i \in DOMAIN n.args : IsNode(n.args[i])

\* Every node has a type with a level of indirection that exists, and a structure that exists.
TypeOK == node # Unparsed => IsNode(node)

Accepted == node \notin {Unparsed, Error}

(***************************************************************************)
(* An expression of C is parsed, without an error, into the tree of        *)
(* operators that C's grammar gives it: by precedence, with assignments    *)
(* grouped from the right and everything else from the left, postfix       *)
(* operators before prefix operators, and the members of the structure     *)
(* that the operand has.                                                   *)
(***************************************************************************)
GroupedRight == node # Unparsed => Accepted /\ Shape(node) = CShape(expr)

(***************************************************************************)
(* Every variable, member, call and dereference has the type of its object *)
(* (how many bytes are loaded or stored there, and how many a step of the  *)
(* pointer is), whatever the parser's types of the operators in between.   *)
(***************************************************************************)
AccessesRight == Accepted => Accesses(node) = CAccesses(expr)

=============================================================================

----------------------------- MODULE MCParseExpr ------------------------------
EXTENDS ParseExpr, FiniteSetsExt

MCTypes == [char |-> <<"char", 0>>, chars |-> <<"char", 1>>, struct |-> <<"S", 1>>]

MCSizes == [char |-> 1, int |-> 4, long |-> 8, S |-> 24, T |-> 2]

MCMembers == [S |-> [n |-> <<"int", 0>>, q |-> <<"S", 1>>, t |-> <<"T", 0>>],
              T |-> [c |-> <<"char", 0>>]]

MCVars == [c |-> <<"char", 0>>, i |-> <<"int", 0>>, pc |-> <<"char", 1>>,
           s |-> <<"S", 0>>, p |-> <<"S", 1>>, pp |-> <<"S", 2>>]

MCFuncs == [f |-> [type |-> <<"S", 1>>, params |-> 2]]

Var(x) == <<"var", x>>
One == <<"literal", "int">>

(* C's grammar: what binds tighter has the higher level. *)

CBinary ==
  ("mul" :> 13) @@ ("div" :> 13) @@ ("mod" :> 13) @@ ("add" :> 12) @@ ("sub" :> 12) @@
  ("leftshift" :> 11) @@ ("rightshift" :> 11) @@ ("lt" :> 10) @@ ("lte" :> 10) @@
  ("gt" :> 10) @@ ("gte" :> 10) @@ ("eq" :> 9) @@ ("neq" :> 9) @@ ("bitand" :> 8) @@
  ("bitxor" :> 7) @@ ("bitor" :> 6) @@ ("and" :> 5) @@ ("or" :> 4)

CLevel(e) ==
  IF e[1] \in DOMAIN CBinary THEN CBinary[e[1]]
  ELSE IF e[1] \in Assignments THEN 2
  ELSE IF e[1] = "cast" \/ IsIn(e[1], PrefixOps) THEN 14
  ELSE 15

\* e where the grammar asks for a level, in parentheses where they are needed.
Fit(e, level) == IF CLevel(e) < level THEN <<"paren", e>> ELSE e

Binary(op, a, b) == <<op, Fit(a, CBinary[op]), Fit(b, CBinary[op] + 1)>>

Assign(op, a, b) == <<op, Fit(a, 14), Fit(b, 2)>>

Pointer(e) == CType(e)[2] > 0
Scalar(e) == Pointer(e) \/ CType(e)[1] \notin Structs
Integer(e) == Scalar(e) /\ ~Pointer(e)

RECURSIVE Lvalue(_)

Lvalue(e) ==
  \/ e[1] \in {"var", "deref", "index", "arrow"}
  \/ e[1] \in {"paren", "member"} /\ Lvalue(e[2])

(* The expressions made from e by one more operator, as their types allow. *)

Prefixed(e) ==
  {<<op, Fit(e, 14)>> : op \in (IF Integer(e) THEN {"neg", "compl"} ELSE {})
                               \union (IF Scalar(e) THEN {"not"} ELSE {})
                               \union (IF Scalar(e) /\ Lvalue(e) THEN {"pre_incr", "pre_decr"} ELSE {})
                               \union (IF Lvalue(e) THEN {"addr"} ELSE {})
                               \union (IF Pointer(e) THEN {"deref"} ELSE {})}
  \union {<<"sizeof", <<"paren", e>>>>}
  \union {<<"cast", type, Fit(e, 14)>> : type \in IF Scalar(e) THEN DOMAIN MCTypes ELSE {}}

Postfixed(e) ==
  (IF Pointer(e) THEN {<<"index", Fit(e, 15), Var("i")>>} ELSE {})
  \union (IF Pointer(e) \/ CType(e)[1] \notin Structs THEN {}
          ELSE {<<"member", Fit(e, 15), m>> : m \in DOMAIN MCMembers[CType(e)[1]]})
  \union (IF CType(e)[2] # 1 \/ CType(e)[1] \notin Structs THEN {}
          ELSE {<<"arrow", Fit(e, 15), m>> : m \in DOMAIN MCMembers[CType(e)[1]]})
  \union (IF Scalar(e) /\ Lvalue(e)
          THEN {<<op, Fit(e, 15)>> : op \in {"post_incr", "post_decr"}} ELSE {})

Combined(e) ==
  (IF Pointer(e) THEN {Binary("add", e, Var("i")), Binary("add", One, e), Binary("sub", e, e)} ELSE {})
  \union (IF Integer(e) THEN {Binary("mul", e, Var("i")), <<"index", Var("pc"), e>>} ELSE {})
  \union (IF Lvalue(e) THEN {Assign("assign", e, e)} ELSE {})
  \union (IF Scalar(e) THEN {Binary("eq", e, e), <<"call", "f", <<e, <<"paren", Var("c")>>>>>>} ELSE {})
  \union {<<"paren", e>>}

Grown(set) == UNION {Prefixed(e) \union Postfixed(e) \union Combined(e) : e \in set}

Leaves == {Var(x) : x \in DOMAIN MCVars}
          \union {<<"call", "f", << >>>>, One, <<"sizeof_type", "struct">>}

Typed == Leaves \union Grown(Leaves) \union Grown(Grown(Leaves)) \union Grown(Grown(Grown(Leaves)))

(* Two operators, grouped in each way. *)

Made(op, a, b) ==
  IF op \in Assignments THEN Assign(op, a, b) ELSE Binary(op, a, b)

Ops == DOMAIN CBinary \union Assignments

Grouped ==
  {Made(op1, Var("i"), Made(op2, Var("c"), Var("i"))) : op1 \in Ops, op2 \in Ops}
  \union {Made(op1, Made(op2, Var("i"), Var("c")), Var("i")) : op1 \in DOMAIN CBinary, op2 \in Ops}
  \union {Binary(op1, <<"neg", Var("i")>>, e) :
            op1 \in DOMAIN CBinary,
            e \in {<<"neg", Var("i")>>, <<"deref", Var("pc")>>, <<"post_decr", Var("i")>>}}

MCExprs == Typed \union Grouped

=============================================================================

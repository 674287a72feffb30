----------------------------- MODULE MCCodegenExpr -----------------------------
(***************************************************************************)
(* Integer expressions over i, the global g and *p: all of one operator,   *)
(* and those of two or three where context, stack, r12 and calls meet.     *)
(* Then, each with every type it has, the operators on narrow integers,    *)
(* pointers, doubles, arrays and structures.                               *)
(***************************************************************************)
EXTENDS CodegenExpr, TLC

MCTypes == [char |-> <<"char", 0>>, int |-> <<"int", 0>>, long |-> <<"long", 0>>,
            double |-> <<"double", 0>>, chars |-> <<"char", 1>>, struct |-> <<"S", 0>>]

MCSizes == [char |-> 1, int |-> 4, long |-> 8, double |-> 8, S |-> 24, T |-> 1]

MCMembers == [S |-> [n |-> <<"int", 0>>, t |-> <<"T", 0>>, x |-> <<"double", 0>>,
                     q |-> <<"S", 1>>],
              T |-> [b |-> <<"char", 0>>]]

MCOffsets == [S |-> [n |-> 0, t |-> 4, x |-> 8, q |-> 16], T |-> [b |-> 0]]

MCVars == [i |-> <<"int", 0>>, g |-> <<"int", 0>>, c |-> <<"char", 0>>, l |-> <<"long", 0>>,
           p |-> <<"int", 1>>, pp |-> <<"int", 2>>, a |-> <<"int", 1>>,
           d |-> <<"double", 0>>, pd |-> <<"double", 1>>,
           s |-> <<"S", 0>>, u |-> <<"S", 0>>, ps |-> <<"S", 1>>]

MCPlaces == [c |-> 1, i |-> 4, g |-> 8, a |-> 12, p |-> 24, pp |-> 32, l |-> 40, d |-> 48,
             pd |-> 56, ps |-> 64, s |-> 72, u |-> 96]

MCArrays == [a |-> 2]

MCGlobals == {"g"}

MCLiterals == [int |-> 1, float |-> 1003, char |-> 97, string |-> 120]

Of(type, params) == [type |-> type, params |-> Len(params), of |-> params]

MCFuncs == [f |-> Of(<<"int", 0>>, <<<<"int", 0>>>>),
            h |-> Of(<<"int", 0>>, <<<<"int", 0>>, <<"int", 0>>>>),
            h3 |-> Of(<<"int", 0>>, <<<<"int", 0>>, <<"long", 0>>, <<"int", 0>>>>),
            fd |-> Of(<<"double", 0>>, <<<<"double", 0>>, <<"int", 0>>, <<"double", 0>>>>),
            fs |-> Of(<<"S", 1>>, <<<<"S", 1>>>>)]

(* Memory: what varies is i, g and where p points. *)

Cell(bytes, value) == [bytes |-> bytes, value |-> value]

Struct(at, n, b, x, q) ==
  (at :> Cell(4, n)) @@ ((at + 4) :> Cell(1, b)) @@ ((at + 8) :> Cell(8, x))
  @@ ((at + 16) :> Cell(8, q))

Memory(i, g, p) ==
  (1 :> Cell(1, 3)) @@ (4 :> Cell(4, i)) @@ (8 :> Cell(4, g))
  @@ (12 :> Cell(4, 5)) @@ (16 :> Cell(4, 6)) @@ (24 :> Cell(8, p)) @@ (32 :> Cell(8, 24))
  @@ (40 :> Cell(8, 0)) @@ (48 :> Cell(8, DoubleBits(-3))) @@ (56 :> Cell(8, 48))
  @@ (64 :> Cell(8, 72)) @@ Struct(72, 7, 2, DoubleBits(5), 96) @@ Struct(96, 9, 3, DoubleBits(4), 72)

MCMemories == {Memory(i, g, p) : i \in {0, 1, 2}, g \in {-1, 0, 1}, p \in {8, 12}}

Var(x) == <<"var", x>>
I == Var("i")
G == Var("g")
StarP == <<"deref", Var("p")>>
One == <<"literal", "int">>
Float == <<"literal", "float">>

\* As an operand: in parentheses unless it binds tighter than every operator.
In(e) == IF Kind(e) \in {"var", "literal", "call", "paren", "index", "member", "arrow"} THEN e
         ELSE <<"paren", e>>

Calls1(S) == {<<"call", "f", <<x>>>> : x \in S}
Calls2(S, T) == {<<"call", "h", <<x, y>>>> : x \in S, y \in T}

Prefixed(ops, S) == {<<op, In(x)>> : op \in ops, x \in S}

Sizeof(S) == {<<"sizeof", <<"paren", x>>>> : x \in S}

\* *p is assigned to without parentheses.
Assigned(ops, S, T) == {<<op, x, In(y)>> : op \in ops, x \in S, y \in T}

Binaries(ops, S, T) == {<<op, In(x), In(y)>> : op \in ops, x \in S, y \in T}

-----------------------------------------------------------------------------
(* Control: short circuits, calls and effects *)

Leaves == {I, G, StarP, One}

Ops == Logical \union {"sub", "mod", "lt", "eq"}

OneOp ==
  UNION {Prefixed({"not", "neg"}, Leaves), Calls1(Leaves), Calls2({I, G}, Leaves),
         Prefixed({"pre_incr", "post_incr"}, {I, StarP}),
         Assigned({"assign", "assign_sub"}, {I, StarP}, Leaves), Binaries(Ops, Leaves, Leaves)}

\* Operands with an effect or a context of their own.
Telling ==
  UNION {Calls1({I, StarP}), {<<"post_incr", I>>, <<"pre_incr", In(StarP)>>},
         {<<"assign", StarP, G>>, <<"assign_sub", StarP, I>>},
         Binaries(Logical, {I}, {G, <<"call", "f", <<G>>>>}), {<<"lt", G, I>>, <<"not", I>>}}

TwoOps ==
  UNION {Prefixed({"not", "neg"}, Telling), Calls1(Telling), Calls2(Telling, Telling),
         Assigned({"assign", "assign_sub"}, {I, StarP}, Telling), Binaries(Ops, Telling, Telling)}

Small == Binaries(Logical, {I}, {<<"call", "f", <<G>>>>})

\* Logical operators below other operators below logical operators.
ThreeOps ==
  LET under == UNION {Prefixed({"not", "neg"}, Small), Calls1(Small),
                      Assigned({"assign", "assign_sub"}, {I, StarP}, Small), Calls2(Small, {G}),
                      Binaries({"eq"}, Small, {Var("l")}), Binaries(Logical, Small, {StarP})}
  IN UNION {Binaries(Logical, under, Telling), Binaries(Logical, Telling, under),
            Calls2(under, under)}

Calls3 ==
  {<<"call", "h3", <<x, y, z>>>> :
     x \in {I, <<"call", "f", <<G>>>>}, y, z \in {StarP, <<"post_incr", I>>}}

-----------------------------------------------------------------------------
(* Types *)

Arrow(e, m) == <<"arrow", e, m>>
Dot(e, m) == <<"member", e, m>>
Addr(e) == <<"addr", e>>

Ints == {I, G, Var("c"), Var("l"), StarP, <<"deref", <<"deref", Var("pp")>>>>,
         <<"index", Var("a"), I>>, Dot(Var("s"), "n"), Arrow(Var("ps"), "n"),
         Arrow(Arrow(Var("ps"), "q"), "n"), Dot(Dot(Var("s"), "t"), "b"),
         Dot(Arrow(Var("ps"), "t"), "b")}

Pointers == {Var("p"), <<"deref", Var("pp")>>, Var("ps"), Dot(Var("u"), "q"),
             Arrow(Var("ps"), "q")}

Doubles == {Var("d"), <<"deref", Var("pd")>>, Dot(Var("s"), "x")}

Structures == {Var("s"), Var("u"), <<"deref", Var("ps")>>, <<"deref", Arrow(Var("ps"), "q")>>}

Called1 == {<<"call", "f", <<x>>>> : x \in {I, Var("d")}}
CalledDouble == {<<"call", "fd", <<x, y, z>>>> : x, z \in {Var("d"), I}, y \in {I, Float}}
CalledStruct == {<<"call", "fs", <<x>>>> : x \in {Var("ps"), Addr(Var("u"))}}

OfInts ==
  UNION {Ints, Prefixed({"neg", "compl", "not", "pre_incr", "pre_decr", "post_incr", "post_decr",
                         "addr"}, Ints), Sizeof(Ints),
         {<<"deref", In(Addr(In(x)))>> : x \in Ints},
         Binaries({"add", "sub", "mul", "div", "mod", "eq", "neq", "lt", "lte", "gt", "gte", "bitand",
                   "bitor", "bitxor", "leftshift", "rightshift"}, {I, Var("c")}, {One, G, Var("c")}),
         Assigned(DOMAIN Applied, {Var("c"), Arrow(Var("ps"), "n")}, {I, One} \union Called1),
         Assigned({"assign"}, Ints, {Var("c"), StarP, Var("d")} \union Called1)}

OfPointers ==
  LET moved == {<<op, In(x), y>> : op \in {"add", "sub"}, x \in {Var("a"), Var("p"), Var("ps")},
                                   y \in {One, I}}
  IN UNION {Pointers, moved, Prefixed({"deref"}, moved),
            Prefixed({"not", "pre_incr", "pre_decr", "post_incr", "post_decr", "addr"}, Pointers), Sizeof(Pointers),
            {<<"deref", <<op, Var("p")>>>> : op \in {"post_incr", "pre_decr"}},
            {<<"assign", <<"deref", <<"post_incr", Var("p")>>>>, x>> : x \in {I, Var("c")}},
            {Arrow(<<"paren", <<"add", Var("ps"), I>>>>, m) : m \in {"n", "q"}},
            {Arrow(x, "n") : x \in CalledStruct},
            Assigned({"assign_add", "assign_sub"}, {Var("p"), Arrow(Var("ps"), "q")}, {One, I}),
            Assigned({"assign"}, {Var("p"), <<"deref", Var("pp")>>},
                     {Var("a"), Addr(I), <<"add", Var("a"), I>>, <<"deref", Var("pp")>>}),
            Assigned({"assign"}, {Var("ps"), Arrow(Var("ps"), "q")},
                     {Addr(Var("u")), Arrow(Var("ps"), "q")} \union CalledStruct),
            Binaries({"eq", "neq", "lt", "lte", "gt", "gte", "and"}, {Var("p"), Var("ps")},
                     {Var("a"), Arrow(Var("ps"), "q"), I}),
            Binaries({"or", "and"}, {<<"not", Var("p")>>, I}, {Var("p"), In(<<"eq", Var("p"), Var("a")>>)})}

OfDoubles ==
  UNION {Doubles, CalledDouble, Prefixed({"neg", "addr"}, Doubles), Sizeof(Doubles),
         Binaries(Arithmetic \union {"eq", "neq", "lt", "lte", "gt", "gte"}, Doubles,
                  {I, Var("c"), Var("d"), Float, <<"call", "fd", <<I, I, Float>>>>}),
         Binaries({"sub", "lt"}, {I, One, Var("l")}, Doubles \union {Float}),
         Assigned({"assign", "assign_add", "assign_sub", "assign_mult", "assign_div"}, Doubles,
                  {Var("d"), I, Float, <<"call", "f", <<I>>>>}),
         Assigned({"assign"}, {I, Arrow(Var("ps"), "n")}, Doubles \union CalledDouble),
         {<<"cast", type, x>> : type \in {"int", "char", "long", "double"}, x \in {Var("d"), I, Float}},
         {<<"index", Var("pd"), Var("l")>>}}

OfStructures ==
  UNION {Assigned({"assign"}, Structures, Structures), Prefixed({"addr"}, Structures), Sizeof(Structures),
         {<<"assign", Var("u"), <<"assign", Var("s"), <<"deref", Var("ps")>>>>>>},
         Sizeof({Var("a")}), {<<"sizeof_type", type>> : type \in DOMAIN MCTypes}}

MCExprs ==
  UNION {Leaves, Calls3, OneOp, TwoOps, ThreeOps, OfInts, OfPointers, OfDoubles, OfStructures}

================================================================================

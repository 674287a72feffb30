----------------------------- MODULE SymbolTable -----------------------------
(***************************************************************************)
(* The scope tree of one function and the stack offsets it hands out:      *)
(* symbol_table.c as parser.c drives it.                                   *)
(*                                                                         *)
(* Every scope carries cur_stack_offset, the number of bytes below rbp it  *)
(* has used; a child scope starts from its parent's value.  A variable is  *)
(* addressed as [rbp - stack_offset], so it occupies the bytes             *)
(* stack_offset - size + 1 .. stack_offset below rbp.  A scope that closed *)
(* gives its bytes back: the parent goes on from its own offset.           *)
(*                                                                         *)
(* Abstracted: expressions and statements that declare nothing and open no *)
(* scope; the name and member lists of struct types; the global scope,     *)
(* whose variables have no stack offset.                                   *)
(***************************************************************************)
EXTENDS Integers, Sequences, FiniteSets

CONSTANTS
  Types,       \* the types variables are declared with, see TypesAssumption
  ArrayTypes,  \* the element types of the arrays that are declared
  ArraySizes,  \* the lengths of those arrays
  Names,       \* identifiers
  TempName,    \* "temp_struct_return", which no program refers to
  MaxScopes,   \* bound: scopes in one function
  MaxVars,     \* bound: variables in one function
  MaxOffset    \* bound: cur_stack_offset where an if or a loop reserves 8 bytes

(***************************************************************************)
(* bytes is VarType.bytes.  unit is what insert_var aligns by: bytes       *)
(* itself, but the size of the first member when the base type is a        *)
(* struct, for a pointer to it too, where unit may exceed bytes.           *)
(***************************************************************************)
ASSUME TypesAssumption ==
  /\ Types \subseteq [kind : {"scalar", "struct", "structptr"},
                      bytes : Nat \ {0}, unit : Nat \ {0}]
  /\ \A t \in Types :
       /\ t.kind = "scalar" => t.unit = t.bytes
       /\ t.kind = "struct" => t.unit <= t.bytes
  /\ ArrayTypes \subseteq Types
  /\ ArraySizes \subseteq Nat \ {0}

ASSUME BoundsAssumption ==
  /\ TempName \notin Names
  /\ MaxScopes \in Nat /\ MaxVars \in Nat /\ MaxOffset \in Nat

VARIABLES
  phase,            \* "global", "params" or "body": what parse_func is at
  scopes,           \* the function's scope, then its descendants in order
  open,             \* the scopes the recursive descent is inside, outermost first
  slots,            \* the variables inserted since the function began
  stackSpaceUsed    \* Function.stack_space_used of this definition

vars == <<phase, scopes, open, slots, stackSpaceUsed>>

Slot == [name : Names \union {TempName}, kind : {"var", "array"},
         scope : Nat \ {0}, off : Int, size : Nat \ {0},
         bytes : Nat \ {0}, unit : Nat \ {0}, id : Nat \ {0}]

Scope == [kind : {"func", "block", "forInit", "forCond", "forBody", "switch"},
          cur : Nat]

Top == open[Len(open)]

OpenScopes == {open[i] : i \in 1..Len(open)}

-----------------------------------------------------------------------------
(* Stack offsets *)

AlignMutant(addr, bytes) == ((addr + bytes - 1) \div bytes) * bytes

\* align_stack_address: a multiple of bytes with room for bytes above addr.
Align(addr, bytes) == ((addr + bytes - 1) \div bytes + 1) * bytes

SlotEndMutant(cur, t) == cur + (t.bytes - t.unit)

\* Where insert_var ends a variable of type t in a scope that used cur bytes.
SlotEnd(cur, t) == Align(cur, t.unit) + (t.bytes - t.unit)

AlignedStackUsage(space) == ((space + 16 - 1) \div 16) * 16

IsMaxStackSpaceMutant(m) == m = scopes[1].cur

\* get_max_stack_space of the function's scope: it and all its descendants.
IsMaxStackSpace(m) ==
  /\ \E s \in DOMAIN scopes : m = scopes[s].cur
  /\ \A s \in DOMAIN scopes : scopes[s].cur <= m

InsertVarMutant(name, kind, t, size, extra) ==
  LET end == scopes[Top].cur + t.bytes + extra
  IN /\ scopes' = [scopes EXCEPT ![Top].cur = end]
     /\ slots' = slots \union
          {[name |-> name, kind |-> kind, scope |-> Top, off |-> end,
            size |-> size, bytes |-> t.bytes, unit |-> t.unit,
            id |-> Cardinality(slots) + 1]}

(***************************************************************************)
(* insert_var in the innermost scope; extra is what an array declaration   *)
(* adds to the offset afterwards, before it overwrites stack_offset.       *)
(* id is unique_id counted from the first variable of the function.        *)
(***************************************************************************)
InsertVar(name, kind, t, size, extra) ==
  LET end == SlotEnd(scopes[Top].cur, t) + extra
  IN /\ scopes' = [scopes EXCEPT ![Top].cur = end]
     /\ slots' = slots \union
          {[name |-> name, kind |-> kind, scope |-> Top, off |-> end,
            size |-> size, bytes |-> t.bytes, unit |-> t.unit,
            id |-> Cardinality(slots) + 1]}

CreateChild(kind, reserved) ==
  /\ Len(scopes) < MaxScopes
  /\ scopes' = Append(scopes, [kind |-> kind, cur |-> scopes[Top].cur + reserved])
  /\ open' = Append(open, Len(scopes) + 1)

-----------------------------------------------------------------------------
(* parse_func *)

Init ==
  /\ phase = "global"
  /\ scopes = << >>
  /\ open = << >>
  /\ slots = {}
  /\ stackSpaceUsed = 0

BeginFunc ==
  /\ phase = "global"
  /\ phase' = "params"
  /\ scopes' = << [kind |-> "func", cur |-> 0] >>
  /\ open' = << 1 >>
  /\ slots' = {}
  /\ stackSpaceUsed' = 0   \* a new Function, not computed yet

\* Valid C declares a name once in a scope; the parser does not check it.
Undeclared(name) == \A s \in slots : s.scope = Top => s.name # name

Param(name, t) ==
  /\ phase = "params"
  /\ Cardinality(slots) < MaxVars
  /\ Undeclared(name)
  /\ InsertVar(name, "var", t, t.bytes, 0)
  /\ UNCHANGED <<phase, open, stackSpaceUsed>>

\* A prototype: no body, no frame.
EndPrototype ==
  /\ phase = "params"
  /\ phase' = "global"
  /\ scopes' = << >> /\ open' = << >> /\ slots' = {}
  /\ UNCHANGED stackSpaceUsed

\* The body is a scope of its own, a child of the one with the parameters.
BeginBody ==
  /\ phase = "params"
  /\ phase' = "body"
  /\ CreateChild("block", 0)
  /\ UNCHANGED <<slots, stackSpaceUsed>>

EndFunc ==
  /\ phase = "body"
  /\ Len(open) = 2
  /\ phase' = "global"
  /\ open' = << >>
  /\ \E m \in {scopes[s].cur : s \in DOMAIN scopes} :
       IsMaxStackSpace(m) /\ stackSpaceUsed' = m
  /\ UNCHANGED <<scopes, slots>>

-----------------------------------------------------------------------------
(* Declarations and statements *)

In(kinds) == phase = "body" /\ scopes[Top].kind \in kinds

StatementScopes == {"block", "forBody", "switch"}

DeclareVar(name, t) ==
  /\ In({"block", "forInit"})
  /\ Cardinality(slots) < MaxVars
  /\ Undeclared(name)
  /\ InsertVar(name, "var", t, t.bytes, 0)
  /\ UNCHANGED <<phase, open, stackSpaceUsed>>

(***************************************************************************)
(* insert_var first, as for a variable of the element type; then the array *)
(* becomes a pointer of 8 bytes, and 8 bytes per element are added.        *)
(***************************************************************************)
DeclareArray(name, t, n) ==
  /\ In({"block", "forInit"})
  /\ Cardinality(slots) < MaxVars
  /\ Undeclared(name)
  /\ InsertVar(name, "array", t, n * t.bytes, 8 * n)
  /\ UNCHANGED <<phase, open, stackSpaceUsed>>

\* A call of a function that returns a struct by value, in any expression.
CallReturningStruct(t) ==
  /\ In(StatementScopes \union {"forInit", "forCond"})
  /\ t.kind = "struct"
  /\ Cardinality(slots) < MaxVars
  /\ InsertVar(TempName, "var", t, t.bytes, 0)
  /\ UNCHANGED <<phase, open, stackSpaceUsed>>

Grow(kinds, newKind) ==
  /\ In(kinds)
  /\ scopes' = [scopes EXCEPT ![Top] = [kind |-> newKind, cur |-> @.cur + 8]]
  /\ UNCHANGED <<phase, open, slots, stackSpaceUsed>>

\* if, while and do-while add 8 to the scope they stand in.
Conditional ==
  \E k \in StatementScopes : Grow({k}, k) /\ scopes[Top].cur < MaxOffset

OpenBlock ==
  /\ In(StatementScopes)
  /\ CreateChild("block", 0)
  /\ UNCHANGED <<phase, slots, stackSpaceUsed>>

OpenFor ==
  /\ In(StatementScopes)
  /\ CreateChild("forInit", 0)
  /\ UNCHANGED <<phase, slots, stackSpaceUsed>>

ForCondition == Grow({"forInit"}, "forCond")

ForIncrement == Grow({"forCond"}, "forBody")

OpenSwitch ==
  /\ In(StatementScopes)
  /\ CreateChild("switch", 8)
  /\ UNCHANGED <<phase, slots, stackSpaceUsed>>

CloseScope ==
  /\ In(StatementScopes)
  /\ Len(open) > 2
  /\ open' = SubSeq(open, 1, Len(open) - 1)
  /\ UNCHANGED <<phase, scopes, slots, stackSpaceUsed>>

Next ==
  \/ BeginFunc
  \/ \E name \in Names, t \in Types : Param(name, t)
  \/ EndPrototype
  \/ BeginBody
  \/ EndFunc
  \/ \E name \in Names, t \in Types : DeclareVar(name, t)
  \/ \E name \in Names, t \in ArrayTypes, n \in ArraySizes : DeclareArray(name, t, n)
  \/ \E t \in Types : CallReturningStruct(t)
  \/ Conditional
  \/ OpenBlock
  \/ OpenFor
  \/ ForCondition
  \/ ForIncrement
  \/ OpenSwitch
  \/ CloseScope

Spec == Init /\ [][Next]_vars

-----------------------------------------------------------------------------
(* lookup_var_ptr *)

LookupVarMutant(name) ==
  LET declaring == {i \in 1..Len(open) : \E s \in slots : s.scope = open[i] /\ s.name = name}
      i == CHOOSE i \in declaring : \A j \in declaring : j >= i
      found == {s \in slots : s.scope = open[i] /\ s.name = name}
  IN CHOOSE s \in found : \A r \in found : s.id <= r.id

\* The first match in the innermost scope that has one.
LookupVar(name) ==
  LET declaring == {i \in 1..Len(open) : \E s \in slots : s.scope = open[i] /\ s.name = name}
      i == CHOOSE i \in declaring : \A j \in declaring : j <= i
      found == {s \in slots : s.scope = open[i] /\ s.name = name}
  IN CHOOSE s \in found : \A r \in found : s.id <= r.id

-----------------------------------------------------------------------------
(* Properties *)

Live == {s \in slots : s.scope \in OpenScopes}

Disjoint(s, t) == s.off <= t.off - t.size \/ t.off <= s.off - s.size

\* Every variable holds values of its type.
TypeOK ==
  /\ phase \in {"global", "params", "body"}
  /\ scopes \in Seq(Scope)
  /\ open \in Seq(1..Len(scopes))
  /\ (phase # "global") => open # << >>
  /\ slots \subseteq Slot
  /\ stackSpaceUsed \in Nat

(***************************************************************************)
(* Two variables that are in scope at the same point never share a byte of *)
(* the frame, across any nesting of blocks, for headers, switches, arrays  *)
(* and hidden struct-return temporaries (insert_var and                    *)
(* parse_array_declaration).                                               *)
(***************************************************************************)
LiveSlotsDisjoint == \A s, t \in Live : s # t => Disjoint(s, t)

(***************************************************************************)
(* No variable reaches rbp or above, and once parse_func has computed      *)
(* stack_space_used every variable of the function, those of closed scopes *)
(* included, lies in the bytes gen_asm_func subtracts from rsp.            *)
(***************************************************************************)
FrameHoldsSlots ==
  \A s \in slots :
    /\ s.off - s.size >= 0
    /\ phase = "global" => s.off <= AlignedStackUsage(stackSpaceUsed)

(***************************************************************************)
(* Along the chain of open scopes the offsets never decrease, each scope's *)
(* offset covers the variables declared in it, and the scopes are distinct *)
(* and in order of creation: what makes handing a closed scope's bytes out *)
(* again (symbol_table_create_child from the parent's offset) safe.        *)
(***************************************************************************)
OffsetsNested ==
  /\ \A i, j \in 1..Len(open) :
       i < j => open[i] < open[j] /\ scopes[open[i]].cur <= scopes[open[j]].cur
  /\ \A s \in slots :
       s.scope \in 1..Len(scopes) /\ s.off <= scopes[s.scope].cur

(***************************************************************************)
(* "The cur_stack_offset needs to be a multiple of var.type.bytes": every  *)
(* scalar, and every structure whose size is a multiple of its first       *)
(* member's, starts at a multiple of the unit it is aligned by, and so     *)
(* does an array of these if the unit divides the 8 bytes that an element  *)
(* gets, although blocks, temporaries, arrays and reservations of 8        *)
(* precede it.                                                             *)
(***************************************************************************)
VariablesAligned ==
  \A s \in slots :
    s.bytes % s.unit = 0 /\ (s.kind = "array" => 8 % s.unit = 0) => s.off % s.unit = 0

(***************************************************************************)
(* lookup_var_ptr finds the declaration C's scoping rules select: of the   *)
(* live variables with the name, the one declared last.  The static and    *)
(* the array declaration rely on it to find the variable just inserted.    *)
(***************************************************************************)
LookupIsInnermost ==
  \A s \in Live : \A r \in Live :
    (s.name \in Names /\ r.name = s.name) => LookupVar(s.name).id >= r.id

(***************************************************************************)
(* The scope tree implements block-structured storage: a declaration       *)
(* creates a fresh object in the innermost block, closing a scope drops    *)
(* exactly that block, and no object in between moves or disappears.       *)
(***************************************************************************)
Storage == INSTANCE BlockStorage WITH
  blocks <- [i \in 1..Len(open) |-> {s \in slots : s.scope = open[i]}]

ImplementsBlockStorage == Storage!Spec

=============================================================================

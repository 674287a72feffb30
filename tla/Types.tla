-------------------------------- MODULE Types ---------------------------------
(***************************************************************************)
(* accept_type and parse_struct: types are read into the globals           *)
(* latest_parsed_var_type and latest_struct.  A type specifier overwrites  *)
(* some of their fields and leaves in others what the declaration before   *)
(* put there; a structure is read by reading its members into the same     *)
(* globals, and an object table keeps structures and typedefs.             *)
(*                                                                         *)
(* A behaviour is a sequence of declarations of C, each by a type that is  *)
(* complete where C asks for it, with what C says of them beside it.       *)
(*                                                                         *)
(* Abstracted: one scope; a member is known by its position; unsigned,     *)
(* arrays of a size and the names of enums.  static, extern and const are  *)
(* written in front of variables alone.  At file scope a type is read      *)
(* twice from the same tokens, which only inserts a structure twice.       *)
(***************************************************************************)
EXTENDS Integers, Sequences, SequencesExt, FiniteSetsExt

CONSTANTS
  StructNames,   \* names of structures
  TypedefNames,  \* names of typedefs
  Scalars,       \* the size of each scalar type
  MaxDecls,      \* bound on the declarations
  MaxMembers,    \* bound on the members of a structure
  MaxLevel,      \* bound on the level of indirection behind a definition
  Specs          \* the types that are written

\* A type as it is written: a scalar or enum, struct with a name, or the name of a typedef,
\* with stars, and perhaps empty brackets behind the name that it declares.
AllSpecs ==
  [base : DOMAIN Scalars \union {"enum", "struct", "typedef"},
   name : StructNames \union TypedefNames \union {"none"},
   level : Nat,
   brackets : BOOLEAN,
   flags : SUBSET {"static", "extern", "const"}]

ASSUME TypesAssumption ==
  /\ Specs \subseteq AllSpecs
  /\ \A scalar \in DOMAIN Scalars : Scalars[scalar] \in Nat \ {0}
  /\ DOMAIN Scalars \intersect {"enum", "struct", "typedef"} = {}
  /\ StructNames \intersect TypedefNames = {} /\ "none" \notin StructNames \union TypedefNames
  /\ {MaxDecls, MaxMembers, MaxLevel} \subseteq Nat

VARIABLES
  latest,        \* latest_parsed_var_type
  latestStruct,  \* latest_struct
  objects,       \* the object table
  open,          \* the structures being read, the innermost last
  var,           \* the variable declared last
  crashed,       \* the compiler has divided by zero
  refused,       \* the compiler has ended with an error
  structsC,      \* what C says of each complete structure
  typedefsC,     \* and of each typedef, and whether its structure was complete when it was written
  decls          \* the number of declarations so far

parser == <<latest, latestStruct, objects, open, crashed, refused>>
vars == <<parser, var, structsC, typedefsC, decls>>

NoName == "none"

\* The globals before the first type, from their static initialisation.
NoType ==
  [type |-> "void", bytes |-> 0, ptr_level |-> 0, ptr_value_bytes |-> 0, is_static |-> FALSE,
   is_extern |-> FALSE, is_const |-> FALSE, struct_name |-> NoName, widest |-> 0]

NoObject == [kind |-> "none", name |-> NoName, type |-> NoType, members |-> << >>]

NoVar == [spec |-> "none"]

-----------------------------------------------------------------------------
(* Reading a type *)

\* symbol_table_lookup_object
Lookup(kind, name) ==
  LET found == {i \in DOMAIN objects : objects[i].kind = kind /\ objects[i].name = name}
  IN IF found = {} THEN NoObject ELSE objects[Min(found)]

Read(type, struct) == [type |-> type, struct |-> struct]

Flagged(flags) ==
  [latest EXCEPT !.is_static = "static" \in flags, !.is_extern = "extern" \in flags,
                 !.is_const = "const" \in flags, !.ptr_level = 0]

ReadTypedefMutant(name, type) ==
  Read([Lookup("typedef", name).type EXCEPT !.is_static = type.is_static], latestStruct)

\* accept_object_type of a typedef
ReadTypedef(name, type) ==
  LET old == [Lookup("typedef", name).type EXCEPT !.is_static = type.is_static]
      struct == Lookup("struct", old.struct_name)
  IN IF old.type # "struct" THEN Read(old, latestStruct)
     ELSE IF struct = NoObject THEN Read(old, [latestStruct EXCEPT !.name = "ERROR!"])
     ELSE Read([old EXCEPT !.bytes = struct.type.bytes], struct)

\* parse_struct of a name
ReadStruct(name, type) ==
  LET struct == Lookup("struct", name)
  IN IF struct = NoObject
     THEN Read([type EXCEPT !.type = "struct", !.struct_name = name], latestStruct)
     ELSE Read(struct.type, struct)

\* The end of parse_enum.
ReadEnum(type) == Read([type EXCEPT !.type = "int", !.bytes = 8], latestStruct)

\* The stars behind a type.
Pointers(type, level) ==
  IF level = 0 THEN type
  ELSE [type EXCEPT !.ptr_level = @ + level,
                    !.ptr_value_bytes = IF type.ptr_level = 0 THEN type.bytes ELSE @,
                    !.bytes = 8]

\* The end of accept_type, for empty brackets behind the name; the tokens are read again.
Brackets(type, brackets) ==
  IF ~brackets THEN type
  ELSE [type EXCEPT !.ptr_value_bytes = type.bytes, !.bytes = 8, !.ptr_level = @ + 1]

\* accept_type
AcceptType(spec) ==
  LET type == Flagged(spec.flags)
      read == CASE spec.base = "typedef" -> ReadTypedef(spec.name, type)
                [] spec.base = "struct" -> ReadStruct(spec.name, type)
                [] spec.base = "enum" -> ReadEnum(type)
                [] OTHER ->
                     Read([type EXCEPT !.type = "int", !.bytes = Scalars[spec.base]],
                          latestStruct)
  IN [read EXCEPT !.type = Brackets(Pointers(@, spec.level), spec.brackets)]

-----------------------------------------------------------------------------
(* What C says *)

\* What is known, with one more name.
Known(known, name, value) ==
  [other \in DOMAIN known \union {name} |-> IF other = name THEN value ELSE known[other]]

CType(kind, name, level) == [kind |-> kind, name |-> name, level |-> level]

\* The type that spec writes.
Meaning(spec) ==
  IF spec.base # "typedef" THEN CType(spec.base, spec.name, spec.level)
  ELSE LET type == typedefsC[spec.name].type
       IN [type EXCEPT !.level = @ + spec.level]

ByValue(type) == type.kind = "struct" /\ type.level = 0

Complete(type) == ByValue(type) => type.name \in DOMAIN structsC

\* Of the structures, those in known are complete.  C leaves the size of an enum to the compiler.
CSize(type, known) ==
  IF type.level > 0 \/ type.kind = "enum" THEN 8
  ELSE IF type.kind = "struct" THEN known[type.name].size ELSE Scalars[type.kind]

CAlign(type, known) == IF ByValue(type) THEN known[type.name].align ELSE CSize(type, known)

Up(n, align) == ((n + align - 1) \div align) * align

\* A typedef of a pointer to a structure gets the size of the structure.
PlainType(spec) ==
  spec.base = "typedef" =>
    LET type == typedefsC[spec.name].type IN type.kind = "struct" => type.level = 0

(***************************************************************************)
(* A member whose layout the compiler gets right: a structure is aligned   *)
(* by the size of its first member, and what a typedef knows of the widest *)
(* member is from the time of the typedef.                                 *)
(***************************************************************************)
PlainMember(spec, known) ==
  LET type == Meaning(spec)
      struct == known[type.name]
  IN /\ PlainType(spec)
     /\ ByValue(type) =>
       /\ struct.plain /\ CSize(Head(struct.types), known) = struct.align
       /\ spec.base = "typedef" => typedefsC[spec.name].complete

\* What C says of a structure without members, and of one with another member
\* behind those it has: the layout of the ABI, for enums of 8 bytes.
NothingSaid == [types |-> << >>, offsets |-> << >>, size |-> 0, align |-> 1, plain |-> TRUE]

Said(said, spec, known) ==
  LET type == Meaning(spec)
      at == Up(said.size, CAlign(type, known))
  IN [types |-> Append(said.types, type), offsets |-> Append(said.offsets, at),
      size |-> at + CSize(type, known), align |-> Max({said.align, CAlign(type, known)}),
      plain |-> said.plain /\ PlainMember(spec, known)]

\* Flags that a structure or a typedef does not overwrite.
PlainFlags(spec) ==
  /\ spec.base = "struct" => spec.flags = {}
  /\ spec.base = "typedef" => spec.flags \subseteq {"static"}

-----------------------------------------------------------------------------
(* Declarations *)

\* The specs of this state: names that are declared, complete where they have to be.
Usable(spec) ==
  /\ (spec.base = "struct") = (spec.name \in StructNames)
  /\ (spec.base = "typedef") = (spec.name \in TypedefNames)
  /\ spec.base = "typedef" => spec.name \in DOMAIN typedefsC

Init ==
  /\ latest = NoType
  /\ latestStruct = NoObject
  /\ objects = << >>
  /\ open = << >>
  /\ var = NoVar
  /\ crashed = FALSE /\ refused = FALSE
  /\ structsC = << >>
  /\ typedefsC = << >>
  /\ decls = 0

Running == ~crashed /\ ~refused

Declaration == Running /\ open = << >> /\ decls < MaxDecls /\ decls' = decls + 1

Update(read) == latest' = read.type /\ latestStruct' = read.struct

\* parse_single_statement: the variable of a declaration.
DeclareVar(spec) ==
  /\ Declaration
  /\ Usable(spec) /\ Complete(Meaning(spec)) /\ ~spec.brackets
  /\ LET read == AcceptType(spec)
     IN /\ Update(read)
        /\ var' = [spec |-> spec, type |-> read.type, struct |-> read.struct]
  /\ UNCHANGED <<objects, open, crashed, refused, structsC, typedefsC>>

(***************************************************************************)
(* Empty brackets are read by accept_type and then refused by whoever      *)
(* called it: an array of a variable needs an expression for its size, and *)
(* behind the name of a parameter, a member or a typedef no bracket comes. *)
(***************************************************************************)
RefuseBrackets(spec) ==
  /\ Running
  /\ IF open = << >> THEN decls < MaxDecls ELSE Len(Last(open).members) < MaxMembers
  /\ Usable(spec) /\ Complete(Meaning(spec)) /\ spec.brackets
  /\ Update(AcceptType(spec))
  /\ refused' = TRUE
  /\ var' = NoVar
  /\ UNCHANGED <<objects, open, crashed, structsC, typedefsC, decls>>

TypedefObjectMutant(name, type) ==
  [kind |-> "struct", name |-> name, type |-> type, members |-> << >>]

TypedefObject(name, type) ==
  [kind |-> "typedef", name |-> name, type |-> type, members |-> << >>]

TypedefOfC(spec) ==
  LET type == Meaning(spec)
  IN [type |-> type,
      complete |-> IF spec.base = "typedef" THEN typedefsC[spec.name].complete
                   ELSE type.kind = "struct" => type.name \in DOMAIN structsC']

ParseTypedef(name, spec) ==
  /\ Declaration
  /\ name \notin DOMAIN typedefsC
  /\ Usable(spec) /\ spec.flags = {} /\ ~spec.brackets
  /\ LET read == AcceptType(spec)
     IN /\ Update(read)
        /\ objects' = Append(objects, TypedefObject(name, read.type))
  /\ UNCHANGED structsC
  /\ typedefsC' = Known(typedefsC, name, TypedefOfC(spec))
  /\ var' = NoVar
  /\ UNCHANGED <<open, crashed, refused>>

\* A structure with the members read so far, and what C says of it.
Opened(name) ==
  [name |-> name, members |-> << >>, said |-> NothingSaid,
   type |-> [Flagged({}) EXCEPT !.type = "struct", !.bytes = 0, !.ptr_level = 0,
                                !.is_static = FALSE, !.struct_name = name, !.widest = 0]]

\* accept_type and parse_struct up to the first member.
OpenStruct(name) ==
  /\ Running
  /\ name \notin DOMAIN structsC \union {open[i].name : i \in DOMAIN open}
  /\ IF open = << >> THEN decls < MaxDecls /\ decls' = decls + 1
     ELSE Len(Last(open).members) < MaxMembers /\ UNCHANGED decls
  /\ latest' = Flagged({})
  /\ open' = Append(open, Opened(name))
  /\ var' = NoVar
  /\ UNCHANGED <<latestStruct, objects, crashed, refused, structsC, typedefsC>>

\* align_stack_address_no_add
AlignStackAddressNoAddMutant(addr, bytes) == (addr \div bytes) * bytes

AlignStackAddressNoAdd(addr, bytes) == ((addr + bytes - 1) \div bytes) * bytes

\* The loop of parse_struct, for a member of this type; table is the object table.
WithMember(struct, type, spec, table, known) ==
  LET found == {i \in DOMAIN table : table[i].kind = "struct" /\ table[i].name = type.struct_name}
      inner == table[Min(found)]
      nested == type.type = "struct" /\ type.ptr_level = 0
      at == AlignStackAddressNoAdd(struct.type.bytes,
                                   IF nested THEN inner.members[1].type.bytes ELSE type.bytes)
      size == IF nested THEN inner.type.bytes ELSE type.bytes
      widest == IF nested THEN type.widest ELSE type.bytes
  IN [struct EXCEPT !.members = Append(@, [type |-> type, offset |-> at, size |-> size]),
                    !.said = Said(@, spec, known),
                    !.type.bytes = at + size,
                    !.type.widest = Max({@, widest})]

StructMember(spec) ==
  /\ Running /\ open # << >>
  /\ Len(Last(open).members) < MaxMembers
  /\ Usable(spec) /\ spec.flags = {} /\ ~spec.brackets /\ Complete(Meaning(spec))
  /\ LET read == AcceptType(spec)
     IN /\ Update(read)
        /\ open' = ReplaceAt(open, Len(open),
                              WithMember(Last(open), read.type, spec, objects, structsC))
  /\ UNCHANGED <<objects, crashed, refused, var, structsC, typedefsC, decls>>

Described(struct) == [struct.said EXCEPT !.size = Up(@, struct.said.align)]

Closed(struct) ==
  [kind |-> "struct", name |-> struct.name, members |-> struct.members,
   type |-> [struct.type EXCEPT !.bytes = AlignStackAddressNoAdd(@, struct.type.widest)]]

(***************************************************************************)
(* parse_struct from the closing brace on.  The definition is the type of  *)
(* a member of the structure around it, of a typedef, or of nothing.       *)
(***************************************************************************)
CloseStruct(name, level) ==
  /\ Running /\ open # << >>
  /\ Last(open).members # << >>
  /\ Len(open) > 1 => name = NoName
  /\ name = NoName \/ name \notin DOMAIN typedefsC
  /\ LET struct == Last(open)
         object == Closed(struct)
         type == Pointers(object.type, level)
         spec == [base |-> "struct", name |-> struct.name, level |-> level,
                  brackets |-> FALSE, flags |-> {}]
         table == Append(objects, object)
     IN /\ structsC' = Known(structsC, struct.name, Described(struct))
        /\ IF struct.type.widest = 0
           THEN /\ crashed' = TRUE
                /\ UNCHANGED <<latest, latestStruct, objects, open, typedefsC>>
           ELSE /\ latest' = type
                /\ latestStruct' = object
                /\ objects' = IF name = NoName THEN table
                              ELSE Append(table, TypedefObject(name, type))
                /\ typedefsC' = IF name = NoName THEN typedefsC
                                ELSE Known(typedefsC, name, TypedefOfC(spec))
                /\ open' = IF Len(open) = 1 THEN << >>
                           ELSE ReplaceAt(Front(open), Len(open) - 1,
                                          WithMember(Last(Front(open)), type, spec, table,
                                                     structsC'))
                /\ UNCHANGED crashed
  /\ var' = NoVar
  /\ UNCHANGED <<refused, decls>>

Next ==
  \/ \E spec \in Specs : DeclareVar(spec) \/ StructMember(spec) \/ RefuseBrackets(spec)
  \/ \E spec \in Specs, name \in TypedefNames : ParseTypedef(name, spec)
  \/ \E name \in StructNames : OpenStruct(name)
  \/ \E name \in TypedefNames \union {NoName}, level \in 0..MaxLevel : CloseStruct(name, level)

Spec == Init /\ [][Next]_vars

-----------------------------------------------------------------------------
(* Properties *)

IsType(type) ==
  /\ type.type \in {"void", "int", "struct"}
  /\ {type.bytes, type.ptr_level, type.ptr_value_bytes, type.widest} \subseteq Nat
  /\ type.struct_name \in StructNames \union {NoName}

IsObject(object) ==
  /\ object.kind \in {"struct", "typedef"}
  /\ object.name \in IF object.kind = "struct" THEN StructNames ELSE TypedefNames
  /\ IsType(object.type)

\* The globals and the table hold types; only a structure has members and every one has some.
TypeOK ==
  /\ IsType(latest)
  /\ \A i \in DOMAIN objects :
       IsObject(objects[i]) /\ (objects[i].kind = "struct") = (objects[i].members # << >>)
  /\ {crashed, refused} \subseteq BOOLEAN /\ decls \in 0..MaxDecls

StructObjects == {objects[i] : i \in {j \in DOMAIN objects : objects[j].kind = "struct"}}

(***************************************************************************)
(* The members of a structure come one after the other without overlap, in *)
(* the bytes the structure has, whatever types were read before it and in  *)
(* between: two members never share memory.  It has the layout that the    *)
(* ABI gives it, with enums of the compiler's 8 bytes, and the compiler    *)
(* does not divide by zero, unless it holds a structure that is aligned by *)
(* its first member or came through a typedef made before the structure.   *)
(***************************************************************************)
LayoutRight ==
  /\ \A object \in StructObjects :
       LET struct == structsC[object.name]
           members == object.members
       IN /\ \A i \in 1..(Len(members) - 1) :
               members[i].offset + members[i].size <= members[i + 1].offset
          /\ Last(members).offset + Last(members).size <= object.type.bytes
          /\ struct.plain =>
            /\ struct.offsets = [i \in DOMAIN members |-> members[i].offset]
            /\ struct.size = object.type.bytes
  /\ crashed => \E name \in DOMAIN structsC : ~structsC[name].plain

(***************************************************************************)
(* A variable gets the type that was written, whatever the globals held    *)
(* before: its size and what it points to, its level of indirection, its   *)
(* structure, its storage, and const.                                       *)
(***************************************************************************)
DeclaredRight ==
  var # NoVar =>
    LET type == Meaning(var.spec)
        struct == Lookup("struct", type.name)
        size == IF type.kind = "struct" THEN struct.type.bytes
                ELSE CSize([type EXCEPT !.level = 0], structsC)
    IN /\ var.type.type = IF type.kind = "struct" THEN "struct" ELSE "int"
       /\ var.type.ptr_level = type.level
       /\ type.kind = "struct" => var.type.struct_name = type.name
       /\ struct # NoObject => var.struct = struct
       /\ PlainType(var.spec) =>
            /\ var.type.bytes = IF type.level > 0 THEN 8 ELSE size
            /\ (type.level > 0 /\ (type.kind = "struct" => struct # NoObject)) =>
                 var.type.ptr_value_bytes = size
       /\ PlainFlags(var.spec) =>
            /\ var.type.is_static = ("static" \in var.spec.flags)
            /\ var.type.is_extern = ("extern" \in var.spec.flags)
            /\ var.type.is_const = ("const" \in var.spec.flags)

=============================================================================

------------------------------ MODULE Types_proofs -----------------------------
(***************************************************************************)
(* Proofs about Types: a structure gets its members without overlap and,   *)
(* where PlainMember holds of them, in the layout of the ABI, and a        *)
(* variable gets the type that is written, after any declarations, however *)
(* deeply structures are nested and typedefs name each other.              *)
(*                                                                         *)
(* The invariant relates every entry of the object table, and every        *)
(* structure that is still being read, to what C says of its name; that    *)
(* accept_type reads the type that is written follows from it alone, since *)
(* it says nothing of what latest_parsed_var_type holds.                   *)
(***************************************************************************)
EXTENDS Types, SequenceTheorems, TLAPS
-----------------------------------------------------------------------------
(* The invariant *)

TypeRecords ==
  [type : {"void", "int", "struct"}, bytes : Nat, ptr_level : Nat, ptr_value_bytes : Nat,
   is_static : BOOLEAN, is_extern : BOOLEAN, is_const : BOOLEAN,
   struct_name : StructNames \union {NoName}, widest : Nat]

\* Storage and const, as a structure's own type has them, and that of a typedef.
Flagless(type) == ~type.is_static /\ ~type.is_extern /\ ~type.is_const

SameFlags(type, other) ==
  /\ type.is_static = other.is_static
  /\ type.is_extern = other.is_extern
  /\ type.is_const = other.is_const

AsFlagged(type, flags) ==
  /\ type.is_static = ("static" \in flags)
  /\ type.is_extern = ("extern" \in flags)
  /\ type.is_const = ("const" \in flags)

Members == [type : TypeRecords, offset : Nat, size : Nat]

Objects ==
  [kind : {"struct", "typedef"}, name : StructNames \union TypedefNames, type : TypeRecords,
   members : Seq(Members)]

CTypes ==
  {type \in [kind : DOMAIN Scalars \union {"enum", "struct"},
             name : StructNames \union TypedefNames \union {NoName}, level : Nat] :
     type.kind = "struct" <=> type.name \in StructNames}

Sayings ==
  [types : Seq(CTypes), offsets : Seq(Nat), size : Nat, align : Nat \ {0}, plain : BOOLEAN]

Opens == [name : StructNames, members : Seq(Members), said : Sayings, type : TypeRecords]

IsStruct(object, name) == object.kind = "struct" /\ object.name = name

CompleteIn(type, known) == ByValue(type) => type.name \in DOMAIN known

\* The members of a structure where the compiler has placed them.
Placed(struct) ==
  /\ struct.members \in Seq(Members)
  /\ \A i \in DOMAIN struct.members :
       struct.members[i].type.bytes >= 1 /\ struct.members[i].size >= 1
  /\ \A i \in 1..(Len(struct.members) - 1) :
       struct.members[i].offset + struct.members[i].size <= struct.members[i + 1].offset
  /\ struct.members # << >> =>
       Last(struct.members).offset + Last(struct.members).size <= struct.type.bytes

\* The members where C has them.
AsSaid(struct, said, known) ==
  /\ said.offsets = [i \in DOMAIN struct.members |-> struct.members[i].offset]
  /\ said.size = struct.type.bytes
  /\ IF struct.members = << >> THEN struct.type.widest = 0 /\ said.align = 1
     ELSE /\ struct.type.widest = said.align
          /\ struct.members[1].type.bytes = CSize(said.types[1], known)

\* A structure, finished or not, and what C says of the members it has.
Laid(struct, said, known) ==
  /\ struct.name \in StructNames
  /\ struct.type \in TypeRecords
  /\ struct.type.type = "struct" /\ struct.type.struct_name = struct.name
  /\ struct.type.ptr_level = 0 /\ Flagless(struct.type)
  /\ Placed(struct)
  /\ said \in Sayings /\ Len(said.types) = Len(struct.members)
  /\ struct.members # << >> => CompleteIn(said.types[1], known)
  /\ said.plain => AsSaid(struct, said, known)

BaseSize(type) == IF type.kind = "enum" THEN 8 ELSE Scalars[type.kind]

\* A type as the parser has it, and what C says of it.
Named(type, said, table, known) ==
  /\ type \in TypeRecords /\ said.type \in CTypes /\ said.complete \in BOOLEAN
  /\ type.type = IF said.type.kind = "struct" THEN "struct" ELSE "int"
  /\ type.ptr_level = said.type.level
  /\ Flagless(type)
  /\ said.type.level > 0 => type.bytes >= 1
  /\ IF said.type.kind = "struct"
     THEN /\ type.struct_name = said.type.name
          /\ said.complete =>
            /\ said.type.name \in DOMAIN known
            /\ said.type.level = 0 =>
                 \A i \in DOMAIN table :
                   IsStruct(table[i], said.type.name) => type.widest = table[i].type.widest
     ELSE /\ type.bytes = IF said.type.level > 0 THEN 8 ELSE BaseSize(said.type)
          /\ said.type.level > 0 => type.ptr_value_bytes = BaseSize(said.type)

\* The object table against what C says of structures and typedefs.
Tables(table, known, names) ==
  /\ table \in Seq(Objects)
  /\ DOMAIN known \subseteq StructNames /\ \A name \in DOMAIN known : known[name] \in Sayings
  /\ DOMAIN names \subseteq TypedefNames
  /\ \A i \in DOMAIN table :
       IF table[i].kind = "struct"
       THEN /\ table[i].name \in DOMAIN known /\ table[i].members # << >>
            /\ Laid(table[i], known[table[i].name], known)
       ELSE /\ table[i].name \in DOMAIN names /\ table[i].members = << >>
            /\ Named(table[i].type, names[table[i].name], table, known)
  /\ \A i, j \in DOMAIN table :
       table[i].kind = table[j].kind /\ table[i].name = table[j].name => i = j
  /\ \A name \in DOMAIN names :
       \E i \in DOMAIN table : table[i].kind = "typedef" /\ table[i].name = name

\* Every complete structure is in the table.
AllStored(table, known) ==
  \A name \in DOMAIN known : \E i \in DOMAIN table : IsStruct(table[i], name)

\* The structures being read.
OpensIn(seq, known) ==
  /\ seq \in Seq(Opens)
  /\ \A i \in DOMAIN seq :
       Laid(seq[i], seq[i].said, known) /\ seq[i].name \notin DOMAIN known
  /\ \A i, j \in DOMAIN seq : seq[i].name = seq[j].name => i = j

IInv ==
  /\ latest \in TypeRecords /\ {crashed, refused} \subseteq BOOLEAN /\ decls \in 0..MaxDecls
  /\ Tables(objects, structsC, typedefsC)
  /\ ~crashed => AllStored(objects, structsC) /\ OpensIn(open, structsC)
  /\ crashed => \E name \in DOMAIN structsC : ~structsC[name].plain
  /\ DeclaredRight

-----------------------------------------------------------------------------
(* Arithmetic and tables *)

\* What the division that rounds up is made of.
LEMMA Division ==
  ASSUME NEW a \in Nat, NEW b \in Nat \ {0}
  PROVE  /\ a \div b \in Nat
         /\ a % b \in 0..(b - 1)
         /\ a = (b * (a \div b)) + (a % b)
OBVIOUS

\* align_stack_address_no_add never moves an address down.
LEMMA AlignedUp ==
  ASSUME NEW addr \in Nat, NEW bytes \in Nat, bytes >= 1
  PROVE  /\ AlignStackAddressNoAdd(addr, bytes) \in Nat
         /\ AlignStackAddressNoAdd(addr, bytes) >= addr
         /\ AlignStackAddressNoAdd(addr, bytes) = Up(addr, bytes)
<1> DEFINE q == (addr + bytes - 1) \div bytes
           r == (addr + bytes - 1) % bytes
<1>1. addr + bytes - 1 \in Nat /\ bytes \in Nat \ {0}
  OBVIOUS
<1>2. q \in Nat /\ r \in 0..(bytes - 1) /\ addr + bytes - 1 = (bytes * q) + r
  BY <1>1, Division
<1>3. bytes * q \in Nat /\ q * bytes = bytes * q
  BY <1>2
<1> HIDE DEF q, r
<1>4. AlignStackAddressNoAdd(addr, bytes) = bytes * q
  BY <1>3 DEF AlignStackAddressNoAdd, q
<1>5. bytes * q >= addr
  BY <1>2, <1>3
<1> QED
  BY <1>3, <1>4, <1>5 DEF AlignStackAddressNoAdd, Up

\* The least of one index, by which a lookup chooses.
LEMMA MinOfOne == \A i \in Nat : Min({i}) = i
<1> TAKE i \in Nat
<1>1. i \in {i} /\ \A y \in {i} : i <= y
  OBVIOUS
<1> QED
  BY <1>1 DEF Min

\* The greater of two sizes.
LEMMA MaxIs ==
  ASSUME NEW a \in Nat, NEW b \in Nat
  PROVE  Max({a, b}) = IF a >= b THEN a ELSE b
<1> DEFINE x == IF a >= b THEN a ELSE b
<1>1. x \in {a, b} /\ \A y \in {a, b} : x >= y
  OBVIOUS
<1>2. \A z \in {a, b} : (\A y \in {a, b} : z >= y) => z = x
  OBVIOUS
<1> QED
  BY <1>1, <1>2 DEF Max

\* symbol_table_lookup_object finds the one object of a name.
LEMMA LookupFound ==
  ASSUME Tables(objects, structsC, typedefsC), NEW i \in DOMAIN objects
  PROVE  /\ Lookup(objects[i].kind, objects[i].name) = objects[i]
         /\ objects[i] # NoObject
<1> DEFINE found == {j \in DOMAIN objects : objects[j].kind = objects[i].kind
                                             /\ objects[j].name = objects[i].name}
<1>1. found = {i}
  BY DEF Tables
<1>2. i \in Nat /\ objects[i] \in Objects
  BY DEF Tables
<1>3. Lookup(objects[i].kind, objects[i].name) =
        IF found = {} THEN NoObject ELSE objects[Min(found)]
  BY DEF Lookup
<1> HIDE DEF found
<1>4. Lookup(objects[i].kind, objects[i].name) = objects[i]
  BY <1>1, <1>2, <1>3, MinOfOne
<1>5. objects[i].kind # "none"
  BY <1>2 DEF Objects
<1> QED
  BY <1>4, <1>5 DEF NoObject

\* symbol_table_lookup_object without an object of the name.
LEMMA LookupNone ==
  ASSUME NEW kind, NEW name,
         \A i \in DOMAIN objects : ~(objects[i].kind = kind /\ objects[i].name = name)
  PROVE  Lookup(kind, name) = NoObject
<1>1. {i \in DOMAIN objects : objects[i].kind = kind /\ objects[i].name = name} = {}
  OBVIOUS
<1> QED
  BY <1>1 DEF Lookup

-----------------------------------------------------------------------------
(* Reading a type *)

(***************************************************************************)
(* What accept_type gives for a type of which C says said.  Plain is as of *)
(* PlainType; a type that is not complete knows nothing of its widest      *)
(* member.                                                                 *)
(***************************************************************************)
Accepted(type, said, plain, complete, table, known) ==
  /\ type \in TypeRecords
  /\ type.type = IF said.kind = "struct" THEN "struct" ELSE "int"
  /\ type.ptr_level = said.level
  /\ CompleteIn(said, known) => type.bytes >= 1
  /\ said.kind # "struct" =>
       /\ type.bytes = IF said.level > 0 THEN 8 ELSE BaseSize(said)
       /\ said.level > 0 => type.ptr_value_bytes = BaseSize(said)
  /\ said.kind = "struct" =>
       /\ type.struct_name = said.name
       /\ plain /\ said.level > 0 => type.bytes = 8
       /\ \A i \in DOMAIN table :
            IsStruct(table[i], said.name) =>
              /\ said.level = 0 => type.bytes = table[i].type.bytes
              /\ plain /\ said.level > 0 => type.ptr_value_bytes = table[i].type.bytes
              /\ said.level = 0 /\ complete => type.widest = table[i].type.widest

\* The stars behind a type, which point to what a typedef of a pointer names.
LEMMA PointersAccepted ==
  ASSUME NEW type, NEW said \in CTypes, NEW plain \in BOOLEAN, NEW complete \in BOOLEAN,
         NEW table, NEW known, NEW level \in Nat,
         Accepted(type, said, plain, complete, table, known),
         said.kind = "struct" /\ plain => said.level = 0
  PROVE  Accepted(Pointers(type, level), [said EXCEPT !.level = @ + level],
                  plain, complete, table, known)
<1> DEFINE to == [said EXCEPT !.level = @ + level]
<1>1. /\ to.kind = said.kind /\ to.name = said.name /\ to.level = said.level + level
      /\ said.level \in Nat
  BY DEF CTypes
<1>2. CASE level = 0
  <2>1. Pointers(type, level) = type
    BY <1>2 DEF Pointers
  <2>2. to = said
    BY <1>2 DEF CTypes
  <2> QED
    BY <2>1, <2>2
<1>3. CASE level # 0
  <2> DEFINE new == Pointers(type, level)
  <2>1. /\ type \in TypeRecords /\ type.ptr_level = said.level
        /\ type.type = IF said.kind = "struct" THEN "struct" ELSE "int"
    BY DEF Accepted
  <2>0. new = [type EXCEPT !.ptr_level = type.ptr_level + level,
                           !.ptr_value_bytes = IF type.ptr_level = 0 THEN type.bytes
                                               ELSE type.ptr_value_bytes,
                           !.bytes = 8]
    BY <1>3 DEF Pointers
  <2> HIDE DEF new
  <2>9. type.ptr_level \in Nat /\ type.bytes \in Nat /\ type.ptr_value_bytes \in Nat
    BY <2>1 DEF TypeRecords
  <2>10. new \in TypeRecords
    <3>1. type.ptr_level + level \in Nat
      BY <2>9
    <3> QED
      BY <2>0, <2>1, <2>9, <3>1 DEF TypeRecords
  <2>2. /\ new \in TypeRecords
        /\ new.type = type.type /\ new.struct_name = type.struct_name /\ new.bytes = 8
        /\ new.ptr_level = said.level + level
        /\ new.ptr_value_bytes = IF said.level = 0 THEN type.bytes ELSE type.ptr_value_bytes
    BY <1>1, <2>0, <2>1, <2>10 DEF TypeRecords
  <2>3. BaseSize(to) = BaseSize(said)
    BY <1>1 DEF BaseSize
  <2>4. to.level > 0
    BY <1>1, <1>3
  <2>5. ASSUME said.kind # "struct"
        PROVE  new.ptr_value_bytes = BaseSize(said)
    BY <1>1, <2>2, <2>5 DEF Accepted
  <2>6. ASSUME said.kind = "struct", plain, NEW i \in DOMAIN table, IsStruct(table[i], said.name)
        PROVE  new.ptr_value_bytes = table[i].type.bytes
    BY <2>2, <2>6 DEF Accepted
  <2>7. said.kind = "struct" => new.struct_name = said.name
    BY <2>2 DEF Accepted
  <2> HIDE DEF to
  <2>8. Accepted(new, to, plain, complete, table, known)
    BY <1>1, <2>1, <2>2, <2>3, <2>4, <2>5, <2>6, <2>7 DEF Accepted
  <2> QED
    BY <2>8 DEF new, to
  <1> QED
    BY <1>2, <1>3

\* A structure has members, so it has bytes.
LEMMA StructSized ==
  ASSUME NEW struct, NEW said, NEW known, Laid(struct, said, known), struct.members # << >>
  PROVE  /\ struct.type.bytes \in Nat /\ struct.type.bytes >= 1
         /\ struct.members[1].type.bytes \in Nat /\ struct.members[1].type.bytes >= 1
<1>1. /\ struct.members \in Seq(Members) /\ struct.type \in TypeRecords
      /\ \A i \in DOMAIN struct.members :
           struct.members[i].type.bytes >= 1 /\ struct.members[i].size >= 1
      /\ Last(struct.members).offset + Last(struct.members).size <= struct.type.bytes
  BY DEF Laid, Placed
<1>2. Len(struct.members) \in DOMAIN struct.members /\ 1 \in DOMAIN struct.members
  BY <1>1
<1>3. /\ struct.members[1] \in Members /\ struct.members[Len(struct.members)] \in Members
      /\ struct.members[1].type.bytes >= 1 /\ struct.members[Len(struct.members)].size >= 1
  BY <1>1, <1>2
<1>4. /\ struct.members[Len(struct.members)].offset \in Nat
      /\ struct.members[Len(struct.members)].size \in Nat
      /\ struct.type.bytes \in Nat
      /\ struct.members[1].type.bytes \in Nat
  BY <1>1, <1>3 DEF Members, TypeRecords
<1> QED
  BY <1>1, <1>3, <1>4 DEF Last

\* The typedef that accept_object_type finds.
LEMMA TypedefFound ==
  ASSUME Tables(objects, structsC, typedefsC), NEW name \in DOMAIN typedefsC
  PROVE  Named(Lookup("typedef", name).type, typedefsC[name], objects, structsC)
<1>1. PICK i \in DOMAIN objects : objects[i].kind = "typedef" /\ objects[i].name = name
  BY DEF Tables
<1>2. Lookup("typedef", name) = objects[i]
  BY <1>1, LookupFound
<1>3. Named(objects[i].type, typedefsC[objects[i].name], objects, structsC)
  BY <1>1 DEF Tables
<1> QED
  BY <1>1, <1>2, <1>3

CompleteOf(spec) == spec.base = "typedef" => typedefsC[spec.name].complete

\* What C says of the type that is written, before the stars.
Base(spec) ==
  IF spec.base # "typedef" THEN CType(spec.base, spec.name, 0) ELSE typedefsC[spec.name].type

\* What C says of a type that may be written, with and without the stars.
LEMMA MeaningIs ==
  ASSUME Tables(objects, structsC, typedefsC), NEW spec \in AllSpecs, Usable(spec)
  PROVE  /\ Base(spec) \in CTypes
         /\ Meaning(spec) \in CTypes
         /\ Meaning(spec) = [Base(spec) EXCEPT !.level = @ + spec.level]
         /\ CompleteOf(spec) \in BOOLEAN /\ PlainType(spec) \in BOOLEAN
         /\ Base(spec).kind = "struct" /\ PlainType(spec) => Base(spec).level = 0
<1>1. /\ spec.level \in Nat /\ spec.name \in StructNames \union TypedefNames \union {NoName}
      /\ spec.base \in DOMAIN Scalars \union {"enum", "struct", "typedef"}
  BY DEF AllSpecs, NoName
<1>2. CASE spec.base # "typedef"
  <2>1. Base(spec) = [kind |-> spec.base, name |-> spec.name, level |-> 0]
    BY <1>2 DEF Base, CType
  <2>2. Meaning(spec) = [kind |-> spec.base, name |-> spec.name, level |-> spec.level]
    BY <1>2 DEF Meaning, CType
  <2>3. spec.base = "struct" <=> spec.name \in StructNames
    BY DEF Usable
  <2>4. Base(spec) \in CTypes /\ Meaning(spec) \in CTypes
    BY <1>1, <1>2, <2>1, <2>2, <2>3 DEF CTypes
  <2>5. Meaning(spec) = [Base(spec) EXCEPT !.level = @ + spec.level]
    BY <1>1, <2>1, <2>2
  <2> QED
    BY <1>2, <2>1, <2>4, <2>5 DEF CompleteOf, PlainType
<1>3. CASE spec.base = "typedef"
  <2>1. spec.name \in DOMAIN typedefsC
    BY <1>3 DEF Usable
  <2>2. typedefsC[spec.name].type \in CTypes /\ typedefsC[spec.name].complete \in BOOLEAN
    BY <2>1, TypedefFound DEF Named
  <2>3. Meaning(spec) = [Base(spec) EXCEPT !.level = @ + spec.level]
    BY <1>3 DEF Meaning, Base
  <2>4. Base(spec) = typedefsC[spec.name].type
    BY <1>3 DEF Base
  <2>5. Meaning(spec) \in CTypes
    BY <1>1, <2>2, <2>3, <2>4 DEF CTypes
  <2> QED
    BY <1>3, <2>2, <2>3, <2>4, <2>5 DEF CompleteOf, PlainType
<1> QED
  BY <1>2, <1>3

\* The sizes of scalar types, whose names are those of no other types.
LEMMA ScalarsAre ==
  /\ \A scalar \in DOMAIN Scalars : Scalars[scalar] \in Nat /\ Scalars[scalar] >= 1
  /\ "enum" \notin DOMAIN Scalars /\ "struct" \notin DOMAIN Scalars
BY TypesAssumption

\* accept_type sets the storage, const and the level before it reads the type.
LEMMA FlaggedIs ==
  ASSUME latest \in TypeRecords, NEW flags
  PROVE  /\ Flagged(flags) \in TypeRecords
         /\ Flagged(flags).ptr_level = 0
         /\ AsFlagged(Flagged(flags), flags)
<1> DEFINE static == "static" \in flags
           extern == "extern" \in flags
           const == "const" \in flags
<1>1. Flagged(flags) = [latest EXCEPT !.is_static = static, !.is_extern = extern,
                                      !.is_const = const, !.ptr_level = 0]
  BY DEF Flagged
<1>2. static \in BOOLEAN /\ extern \in BOOLEAN /\ const \in BOOLEAN
  OBVIOUS
<1> HIDE DEF static, extern, const
<1>3. Flagged(flags) \in TypeRecords
  <2> DEFINE one == [latest EXCEPT !.is_static = static]
             two == [one EXCEPT !.is_extern = extern]
             three == [two EXCEPT !.is_const = const]
  <2>1. one \in TypeRecords
    BY <1>2 DEF TypeRecords
  <2>2. Flagged(flags) = [three EXCEPT !.ptr_level = 0]
    BY <1>1
  <2> HIDE DEF one
  <2>3. two \in TypeRecords
    BY <1>2, <2>1 DEF TypeRecords
  <2> HIDE DEF two
  <2>4. three \in TypeRecords
    BY <1>2, <2>3 DEF TypeRecords
  <2> HIDE DEF three
  <2> QED
    BY <2>2, <2>4 DEF TypeRecords
<1>4. DOMAIN latest = {"type", "bytes", "ptr_level", "ptr_value_bytes", "is_static",
                       "is_extern", "is_const", "struct_name", "widest"}
  BY DEF TypeRecords
<1>5. /\ Flagged(flags).ptr_level = 0
      /\ Flagged(flags).is_static = static /\ Flagged(flags).is_extern = extern
      /\ Flagged(flags).is_const = const
  BY <1>1, <1>4
<1> QED
  BY <1>3, <1>5 DEF static, extern, const, AsFlagged

\* The type specifier alone.
ReadBase(spec) ==
  LET type == Flagged(spec.flags)
  IN CASE spec.base = "typedef" -> ReadTypedef(spec.name, type)
       [] spec.base = "struct" -> ReadStruct(spec.name, type)
       [] spec.base = "enum" -> ReadEnum(type)
       [] OTHER ->
            Read([type EXCEPT !.type = "int", !.bytes = Scalars[spec.base]], latestStruct)

\* accept_type reads a type specifier, then the stars, and looks for brackets.
LEMMA BaseThenStars ==
  ASSUME NEW spec
  PROVE  AcceptType(spec) =
           [ReadBase(spec) EXCEPT !.type = Brackets(Pointers(@, spec.level), spec.brackets)]
BY DEF AcceptType, ReadBase

\* A scalar type or an enum.
LEMMA ScalarBase ==
  ASSUME latest \in TypeRecords, NEW spec \in AllSpecs, spec.base \notin {"struct", "typedef"},
         NEW plain, NEW complete
  PROVE  Accepted(ReadBase(spec).type, Base(spec), plain, complete, objects, structsC)
<1> DEFINE type == Flagged(spec.flags)
           new == ReadBase(spec).type
<1>1. type \in TypeRecords /\ type.ptr_level = 0
  BY FlaggedIs
<1>2. spec.base = "enum" \/ (spec.base # "enum" /\ spec.base \in DOMAIN Scalars)
  BY DEF AllSpecs
<1>3. Base(spec) = [kind |-> spec.base, name |-> spec.name, level |-> 0]
  BY DEF Base, CType
<1>4. BaseSize(Base(spec)) \in Nat /\ BaseSize(Base(spec)) >= 1
  BY <1>2, <1>3, ScalarsAre DEF BaseSize
<1>5. new = [type EXCEPT !.type = "int", !.bytes = BaseSize(Base(spec))]
  <2>1. CASE spec.base = "enum"
    BY <1>3, <2>1 DEF ReadBase, ReadEnum, Read, BaseSize
  <2>2. CASE spec.base # "enum"
    BY <1>3, <2>2 DEF ReadBase, Read, BaseSize
  <2> QED
    BY <2>1, <2>2
<1> HIDE DEF type, new
<1>6. /\ new \in TypeRecords /\ new.type = "int" /\ new.ptr_level = 0
      /\ new.bytes = BaseSize(Base(spec))
  BY <1>1, <1>4, <1>5 DEF TypeRecords
<1>7. Base(spec).kind # "struct" /\ Base(spec).level = 0
  BY <1>3
<1>8. Accepted(new, Base(spec), plain, complete, objects, structsC)
  BY <1>4, <1>6, <1>7 DEF Accepted
<1> QED
  BY <1>8 DEF new

\* parse_struct of a name, whether the table has the structure or not.
LEMMA StructBase ==
  ASSUME latest \in TypeRecords, Tables(objects, structsC, typedefsC),
         AllStored(objects, structsC),
         NEW spec \in AllSpecs, spec.base = "struct", spec.name \in StructNames, NEW plain,
         NEW complete
  PROVE  /\ Accepted(ReadBase(spec).type, Base(spec), plain, complete, objects, structsC)
         /\ \A i \in DOMAIN objects :
              IsStruct(objects[i], spec.name) => ReadBase(spec).struct = objects[i]
<1> DEFINE type == Flagged(spec.flags)
           new == ReadBase(spec).type
<1>1. type \in TypeRecords /\ type.ptr_level = 0
  BY FlaggedIs
<1>2. Base(spec) = [kind |-> "struct", name |-> spec.name, level |-> 0]
  BY DEF Base, CType
<1>3. ReadBase(spec) = ReadStruct(spec.name, type)
  BY DEF ReadBase
<1>4. CASE \E i \in DOMAIN objects : IsStruct(objects[i], spec.name)
  <2>1. PICK i \in DOMAIN objects : IsStruct(objects[i], spec.name)
    BY <1>4
  <2>2. Lookup("struct", spec.name) = objects[i] /\ objects[i] # NoObject
    BY <2>1, LookupFound DEF IsStruct
  <2>3. ReadBase(spec) = Read(objects[i].type, objects[i])
    BY <1>3, <2>2 DEF ReadStruct
  <2>4. new = objects[i].type /\ ReadBase(spec).struct = objects[i]
    BY <2>3 DEF Read
  <2>5. \A j \in DOMAIN objects : IsStruct(objects[j], spec.name) => j = i
    BY <2>1 DEF Tables, IsStruct
  <2>6. Laid(objects[i], structsC[objects[i].name], structsC) /\ objects[i].members # << >>
    BY <2>1 DEF Tables, IsStruct
  <2>7. /\ new \in TypeRecords /\ new.type = "struct" /\ new.struct_name = spec.name
        /\ new.ptr_level = 0
    BY <2>1, <2>4, <2>6 DEF Laid, IsStruct
  <2>8. new.bytes >= 1
    BY <2>4, <2>6, StructSized
  <2>9. \A j \in DOMAIN objects : IsStruct(objects[j], spec.name) =>
          objects[j].type = new /\ objects[j] = objects[i]
    BY <2>4, <2>5
  <2>10. Base(spec).kind = "struct" /\ Base(spec).level = 0 /\ Base(spec).name = spec.name
    BY <1>2
  <2> HIDE DEF new
  <2>11. Accepted(new, Base(spec), plain, complete, objects, structsC)
    BY <2>7, <2>8, <2>9, <2>10 DEF Accepted
  <2> QED
    BY <2>4, <2>9, <2>11 DEF new
<1>5. CASE ~\E i \in DOMAIN objects : IsStruct(objects[i], spec.name)
  <2>1. Lookup("struct", spec.name) = NoObject
    BY <1>5, LookupNone DEF IsStruct
  <2>2. new = [type EXCEPT !.type = "struct", !.struct_name = spec.name]
    BY <1>3, <2>1 DEF ReadStruct, Read
  <2> HIDE DEF new, type
  <2>3. /\ new \in TypeRecords /\ new.type = "struct" /\ new.struct_name = spec.name
        /\ new.ptr_level = 0
    BY <1>1, <2>2 DEF TypeRecords
  <2>4. Base(spec).kind = "struct" /\ Base(spec).level = 0 /\ Base(spec).name = spec.name
    BY <1>2
  <2>5. ~CompleteIn(Base(spec), structsC)
    BY <1>5, <2>4 DEF CompleteIn, ByValue, AllStored
  <2>6. Accepted(new, Base(spec), plain, complete, objects, structsC)
    BY <1>5, <2>3, <2>4, <2>5 DEF Accepted
  <2> QED
    BY <1>5, <2>6 DEF new
<1> QED
  BY <1>4, <1>5

\* accept_object_type of a typedef.
LEMMA TypedefBase ==
  ASSUME latest \in TypeRecords, Tables(objects, structsC, typedefsC),
         AllStored(objects, structsC),
         NEW spec \in AllSpecs, spec.base = "typedef", spec.name \in DOMAIN typedefsC
  PROVE  /\ Accepted(ReadBase(spec).type, Base(spec), PlainType(spec), CompleteOf(spec),
                     objects, structsC)
         /\ \A i \in DOMAIN objects :
              Base(spec).kind = "struct" /\ IsStruct(objects[i], Base(spec).name)
                => ReadBase(spec).struct = objects[i]
         /\ ReadBase(spec).type.is_static = ("static" \in spec.flags)
         /\ ~ReadBase(spec).type.is_extern /\ ~ReadBase(spec).type.is_const
<1> DEFINE said == typedefsC[spec.name]
           type == Lookup("typedef", spec.name).type
           static == Flagged(spec.flags).is_static
           old == [type EXCEPT !.is_static = static]
           new == ReadBase(spec).type
<1>1. Named(type, said, objects, structsC)
  BY TypedefFound
<1>2. Base(spec) = said.type
  BY DEF Base
<1>3. static = ("static" \in spec.flags)
  BY FlaggedIs DEF AsFlagged
<1>4. ReadBase(spec) = ReadTypedef(spec.name, Flagged(spec.flags))
  BY DEF ReadBase
<1>5. PlainType(spec) /\ said.type.kind = "struct" => said.type.level = 0
  BY DEF PlainType
<1>6. CompleteOf(spec) = said.complete
  <2>1. said.complete \in BOOLEAN
    BY <1>1 DEF Named
  <2> QED
    BY <2>1 DEF CompleteOf
<1> HIDE DEF static, type, said
<1>7. /\ old \in TypeRecords /\ old.is_static = static /\ ~old.is_extern /\ ~old.is_const
      /\ old.type = type.type /\ old.bytes = type.bytes /\ old.ptr_level = type.ptr_level
      /\ old.ptr_value_bytes = type.ptr_value_bytes /\ old.struct_name = type.struct_name
      /\ old.widest = type.widest
  <2>1. type \in TypeRecords /\ ~type.is_extern /\ ~type.is_const /\ static \in BOOLEAN
    BY <1>1, <1>3 DEF Named, Flagless
  <2> QED
    BY <2>1 DEF TypeRecords
<1>8. said.type \in CTypes /\ said.type.level \in Nat
  BY <1>1 DEF Named, CTypes
<1>9. ReadBase(spec) =
        LET struct == Lookup("struct", old.struct_name)
        IN IF old.type # "struct" THEN Read(old, latestStruct)
           ELSE IF struct = NoObject THEN Read(old, [latestStruct EXCEPT !.name = "ERROR!"])
           ELSE Read([old EXCEPT !.bytes = struct.type.bytes], struct)
  BY <1>4 DEF ReadTypedef, type, static
<1> HIDE DEF old, new
<1>10. CASE said.type.kind # "struct"
  <2>1. old.type = "int"
    BY <1>1, <1>7, <1>10 DEF Named
  <2>2. new = old
    BY <1>9, <2>1 DEF Read, new
  <2>3. BaseSize(said.type) \in Nat /\ BaseSize(said.type) >= 1
    BY <1>8, <1>10, ScalarsAre DEF BaseSize, CTypes
  <2>4. Accepted(new, said.type, PlainType(spec), CompleteOf(spec), objects, structsC)
    BY <1>1, <1>7, <1>8, <1>10, <2>1, <2>2, <2>3 DEF Accepted, Named
  <2> QED
    BY <1>2, <1>3, <1>7, <1>10, <2>2, <2>4 DEF new
<1>11. CASE said.type.kind = "struct"
               /\ ~\E i \in DOMAIN objects : IsStruct(objects[i], said.type.name)
  <2>1. old.type = "struct" /\ old.struct_name = said.type.name
    BY <1>1, <1>7, <1>11 DEF Named
  <2>2. Lookup("struct", old.struct_name) = NoObject
    BY <1>11, <2>1, LookupNone DEF IsStruct
  <2>3. new = old
    BY <1>9, <2>1, <2>2 DEF Read, new
  <2>4. CompleteIn(said.type, structsC) => said.type.level > 0
    BY <1>8, <1>11 DEF CompleteIn, ByValue, AllStored
  <2>5. CompleteIn(said.type, structsC) => new.bytes >= 1
    BY <1>1, <1>7, <2>3, <2>4 DEF Named
  <2>6. old.ptr_level = said.type.level
    BY <1>1, <1>7 DEF Named
  <2>7. PlainType(spec) => ~(said.type.level > 0)
    BY <1>5, <1>11
  <2>8. Accepted(new, said.type, PlainType(spec), CompleteOf(spec), objects, structsC)
    BY <1>7, <1>11, <2>1, <2>3, <2>5, <2>6, <2>7 DEF Accepted
  <2> QED
    BY <1>2, <1>3, <1>7, <1>11, <2>3, <2>8 DEF new
<1>12. CASE said.type.kind = "struct"
               /\ \E i \in DOMAIN objects : IsStruct(objects[i], said.type.name)
  <2>1. old.type = "struct" /\ old.struct_name = said.type.name
    BY <1>1, <1>7, <1>12 DEF Named
  <2>2. PICK i \in DOMAIN objects : IsStruct(objects[i], said.type.name)
    BY <1>12
  <2>3. Lookup("struct", old.struct_name) = objects[i] /\ objects[i] # NoObject
    BY <2>1, <2>2, LookupFound DEF IsStruct
  <2>4. new = [old EXCEPT !.bytes = objects[i].type.bytes] /\ ReadBase(spec).struct = objects[i]
    BY <1>9, <2>1, <2>3 DEF Read, new
  <2>5. \A j \in DOMAIN objects : IsStruct(objects[j], said.type.name) => j = i
    BY <2>2 DEF Tables, IsStruct
  <2>6. Laid(objects[i], structsC[objects[i].name], structsC) /\ objects[i].members # << >>
    BY <2>2 DEF Tables, IsStruct
  <2>7. objects[i].type.bytes \in Nat /\ objects[i].type.bytes >= 1
    BY <2>6, StructSized
  <2>8. /\ new \in TypeRecords /\ new.is_static = static /\ ~new.is_extern /\ ~new.is_const
        /\ new.type = "struct" /\ new.bytes = objects[i].type.bytes
        /\ new.ptr_level = old.ptr_level /\ new.struct_name = said.type.name
        /\ new.widest = type.widest
    BY <1>7, <2>1, <2>4, <2>7 DEF TypeRecords
  <2>9. old.ptr_level = said.type.level
    BY <1>1, <1>7 DEF Named
  <2>10. CompleteOf(spec) /\ said.type.level = 0 => type.widest = objects[i].type.widest
    BY <1>1, <1>6, <1>12, <2>2 DEF Named
  <2>11. PlainType(spec) => ~(said.type.level > 0)
    BY <1>5, <1>12
  <2>12. Accepted(new, said.type, PlainType(spec), CompleteOf(spec), objects, structsC)
    BY <1>12, <2>5, <2>7, <2>8, <2>9, <2>10, <2>11 DEF Accepted
  <2> QED
    BY <1>2, <1>3, <2>4, <2>5, <2>8, <2>12 DEF new
<1> QED
  BY <1>10, <1>11, <1>12

\* The storage and const that a base type gets, where the code sets them.
LEMMA BaseFlags ==
  ASSUME latest \in TypeRecords, Tables(objects, structsC, typedefsC),
         AllStored(objects, structsC), NEW spec \in AllSpecs, Usable(spec), PlainFlags(spec)
  PROVE  AsFlagged(ReadBase(spec).type, spec.flags)
<1> DEFINE type == Flagged(spec.flags)
<1>1. type \in TypeRecords /\ AsFlagged(type, spec.flags)
  BY FlaggedIs
<1>2. CASE spec.base \notin {"struct", "typedef"}
  <2>1. ReadBase(spec).type = IF spec.base = "enum" THEN [type EXCEPT !.type = "int", !.bytes = 8]
                              ELSE [type EXCEPT !.type = "int", !.bytes = Scalars[spec.base]]
    BY <1>2 DEF ReadBase, ReadEnum, Read
  <2> HIDE DEF type
  <2>2. SameFlags(ReadBase(spec).type, type)
    BY <1>1, <2>1 DEF TypeRecords, SameFlags
  <2> QED
    BY <1>1, <2>2 DEF SameFlags, AsFlagged
<1>3. CASE spec.base = "typedef"
  <2>1. spec.name \in DOMAIN typedefsC /\ "extern" \notin spec.flags /\ "const" \notin spec.flags
    BY <1>3 DEF Usable, PlainFlags
  <2>2. /\ ReadBase(spec).type.is_static = ("static" \in spec.flags)
        /\ ~ReadBase(spec).type.is_extern /\ ~ReadBase(spec).type.is_const
    BY <1>3, <2>1, TypedefBase
  <2>3. Accepted(ReadBase(spec).type, Base(spec), PlainType(spec), CompleteOf(spec),
                 objects, structsC)
    BY <1>3, <2>1, TypedefBase
  <2>4. ReadBase(spec).type.is_extern \in BOOLEAN /\ ReadBase(spec).type.is_const \in BOOLEAN
    BY <2>3 DEF Accepted, TypeRecords
  <2> QED
    BY <2>1, <2>2, <2>4 DEF AsFlagged
<1>4. CASE spec.base = "struct"
  <2>1. spec.flags = {}
    BY <1>4 DEF PlainFlags
  <2>2. ReadBase(spec) = ReadStruct(spec.name, type)
    BY <1>4 DEF ReadBase
  <2>3. CASE \E i \in DOMAIN objects : IsStruct(objects[i], spec.name)
    <3>1. PICK i \in DOMAIN objects : IsStruct(objects[i], spec.name)
      BY <2>3
    <3>2. Lookup("struct", spec.name) = objects[i] /\ objects[i] # NoObject
      BY <3>1, LookupFound DEF IsStruct
    <3>3. ReadBase(spec).type = objects[i].type
      BY <2>2, <3>2 DEF ReadStruct, Read
    <3>4. Laid(objects[i], structsC[objects[i].name], structsC)
      BY <3>1 DEF Tables, IsStruct
    <3>5. /\ objects[i].type.is_static = FALSE /\ objects[i].type.is_extern = FALSE
          /\ objects[i].type.is_const = FALSE
      BY <3>4 DEF Laid, Flagless, TypeRecords
    <3>6. "static" \notin spec.flags /\ "extern" \notin spec.flags /\ "const" \notin spec.flags
      BY <2>1
    <3>7. /\ ("static" \in spec.flags) = FALSE
          /\ ("extern" \in spec.flags) = FALSE
          /\ ("const" \in spec.flags) = FALSE
      BY <3>6
    <3> QED
      BY <3>3, <3>5, <3>7 DEF AsFlagged
  <2>4. CASE ~\E i \in DOMAIN objects : IsStruct(objects[i], spec.name)
    <3>1. Lookup("struct", spec.name) = NoObject
      BY <2>4, LookupNone DEF IsStruct
    <3>2. ReadBase(spec).type = [type EXCEPT !.type = "struct", !.struct_name = spec.name]
      BY <2>2, <3>1 DEF ReadStruct, Read
    <3> HIDE DEF type
    <3>3. SameFlags(ReadBase(spec).type, type)
      BY <1>1, <3>2 DEF TypeRecords, SameFlags
    <3> QED
      BY <1>1, <3>3 DEF SameFlags, AsFlagged
  <2> QED
    BY <2>3, <2>4
<1> QED
  BY <1>2, <1>3, <1>4

\* A type specifier gives a type and a structure.
LEMMA ReadsBoth ==
  ASSUME NEW spec
  PROVE  ReadBase(spec) = [type |-> ReadBase(spec).type, struct |-> ReadBase(spec).struct]
<1>1. CASE spec.base = "typedef"
  BY <1>1 DEF ReadBase, ReadTypedef, Read
<1>2. CASE spec.base = "struct"
  BY <1>2 DEF ReadBase, ReadStruct, Read
<1>3. CASE spec.base = "enum"
  BY <1>3 DEF ReadBase, ReadEnum, Read
<1>4. CASE spec.base \notin {"typedef", "struct", "enum"}
  BY <1>4 DEF ReadBase, Read
<1> QED
  BY <1>1, <1>2, <1>3, <1>4

\* The specifier and its stars give the type that is written, whatever the globals held.
LEMMA StarsAre ==
  ASSUME latest \in TypeRecords, Tables(objects, structsC, typedefsC),
         AllStored(objects, structsC), NEW spec \in AllSpecs, Usable(spec)
  PROVE  LET stars == Pointers(ReadBase(spec).type, spec.level)
         IN /\ Accepted(stars, Meaning(spec), PlainType(spec), CompleteOf(spec), objects, structsC)
            /\ \A i \in DOMAIN objects :
                 Meaning(spec).kind = "struct" /\ IsStruct(objects[i], Meaning(spec).name)
                   => ReadBase(spec).struct = objects[i]
            /\ PlainFlags(spec) => AsFlagged(stars, spec.flags)
<1> DEFINE base == ReadBase(spec).type
<1>2. /\ Base(spec) \in CTypes
      /\ Meaning(spec) = [Base(spec) EXCEPT !.level = @ + spec.level]
      /\ CompleteOf(spec) \in BOOLEAN /\ PlainType(spec) \in BOOLEAN
      /\ Base(spec).kind = "struct" /\ PlainType(spec) => Base(spec).level = 0
  BY MeaningIs
<1>3. Meaning(spec).kind = Base(spec).kind /\ Meaning(spec).name = Base(spec).name
  BY <1>2 DEF CTypes
<1>4. /\ Accepted(base, Base(spec), PlainType(spec), CompleteOf(spec), objects, structsC)
      /\ \A i \in DOMAIN objects :
           Base(spec).kind = "struct" /\ IsStruct(objects[i], Base(spec).name)
             => ReadBase(spec).struct = objects[i]
  <2>1. CASE spec.base \notin {"struct", "typedef"}
    <3>1. Base(spec).kind # "struct"
      BY <2>1 DEF Base, CType
    <3> QED
      BY <2>1, <3>1, ScalarBase
  <2>2. CASE spec.base = "struct"
    <3>1. spec.name \in StructNames
      BY <2>2 DEF Usable
    <3>2. Base(spec).name = spec.name
      BY <2>2 DEF Base, CType
    <3> QED
      BY <2>2, <3>1, <3>2, StructBase
  <2>3. CASE spec.base = "typedef"
    <3>1. spec.name \in DOMAIN typedefsC
      BY <2>3 DEF Usable
    <3> QED
      BY <2>3, <3>1, TypedefBase
  <2> QED
    BY <2>1, <2>2, <2>3
<1>5. spec.level \in Nat
  BY DEF AllSpecs
<1>6. base \in TypeRecords
  BY <1>4 DEF Accepted
<1>7. SameFlags(Pointers(base, spec.level), base)
  <2> HIDE DEF base
  <2> QED
    BY <1>6 DEF Pointers, TypeRecords, SameFlags
<1>8. Accepted(Pointers(base, spec.level), Meaning(spec), PlainType(spec), CompleteOf(spec),
               objects, structsC)
  <2> HIDE DEF base
  <2> QED
    BY <1>2, <1>4, <1>5, PointersAccepted
<1>9. PlainFlags(spec) => AsFlagged(Pointers(base, spec.level), spec.flags)
  <2>1. PlainFlags(spec) => AsFlagged(base, spec.flags)
    BY BaseFlags
  <2> QED
    BY <1>7, <2>1 DEF SameFlags, AsFlagged
<1> QED
  BY <1>3, <1>4, <1>8, <1>9

\* The type and the structure that accept_type gives.
LEMMA AcceptParts ==
  ASSUME NEW spec
  PROVE  /\ AcceptType(spec).type = Brackets(Pointers(ReadBase(spec).type, spec.level),
                                             spec.brackets)
         /\ AcceptType(spec).struct = ReadBase(spec).struct
<1> DEFINE read == ReadBase(spec)
           type == Brackets(Pointers(read.type, spec.level), spec.brackets)
<1>1. AcceptType(spec) = [read EXCEPT !.type = type]
  BY BaseThenStars
<1>2. read = [type |-> read.type, struct |-> read.struct]
  BY ReadsBoth
<1> HIDE DEF read, type
<1>3. AcceptType(spec).type = type /\ AcceptType(spec).struct = read.struct
  BY <1>1, <1>2
<1> QED
  BY <1>3 DEF read, type

\* accept_type gives the type that is written, where no empty brackets are behind it.
LEMMA AcceptIs ==
  ASSUME latest \in TypeRecords, Tables(objects, structsC, typedefsC),
         AllStored(objects, structsC), NEW spec \in AllSpecs, Usable(spec), ~spec.brackets
  PROVE  /\ Accepted(AcceptType(spec).type, Meaning(spec), PlainType(spec), CompleteOf(spec),
                     objects, structsC)
         /\ \A i \in DOMAIN objects :
              Meaning(spec).kind = "struct" /\ IsStruct(objects[i], Meaning(spec).name)
                => AcceptType(spec).struct = objects[i]
         /\ PlainFlags(spec) => AsFlagged(AcceptType(spec).type, spec.flags)
<1> DEFINE stars == Pointers(ReadBase(spec).type, spec.level)
<1>1. /\ AcceptType(spec).type = Brackets(stars, spec.brackets)
      /\ AcceptType(spec).struct = ReadBase(spec).struct
  BY AcceptParts
<1>2. Brackets(stars, spec.brackets) = stars
  BY DEF Brackets
<1> QED
  BY <1>1, <1>2, StarsAre

\* With empty brackets it is still a type.
LEMMA AcceptTyped ==
  ASSUME latest \in TypeRecords, Tables(objects, structsC, typedefsC),
         AllStored(objects, structsC), NEW spec \in AllSpecs, Usable(spec)
  PROVE  AcceptType(spec).type \in TypeRecords
<1> DEFINE stars == Pointers(ReadBase(spec).type, spec.level)
<1>1. AcceptType(spec).type = Brackets(stars, spec.brackets)
  BY AcceptParts
<1>2. stars \in TypeRecords
  BY StarsAre DEF Accepted
<1> HIDE DEF stars
<1>3. ASSUME spec.brackets PROVE Brackets(stars, spec.brackets) \in TypeRecords
  <2> DEFINE one == [stars EXCEPT !.ptr_value_bytes = stars.bytes]
             two == [one EXCEPT !.bytes = 8]
  <2>1. stars.bytes \in Nat /\ stars.ptr_level + 1 \in Nat
    BY <1>2 DEF TypeRecords
  <2>2. one \in TypeRecords /\ one.ptr_level = stars.ptr_level
    BY <1>2, <2>1 DEF TypeRecords
  <2>3. two \in TypeRecords /\ two.ptr_level = stars.ptr_level
    <3> HIDE DEF one
    <3> QED
      BY <2>2 DEF TypeRecords
  <2>4. Brackets(stars, spec.brackets) = [two EXCEPT !.ptr_level = stars.ptr_level + 1]
    BY <1>2, <1>3 DEF Brackets, TypeRecords
  <2> HIDE DEF two
  <2> QED
    BY <2>1, <2>3, <2>4 DEF TypeRecords
<1>4. ASSUME ~spec.brackets PROVE Brackets(stars, spec.brackets) \in TypeRecords
  BY <1>2, <1>4 DEF Brackets
<1> QED
  BY <1>1, <1>3, <1>4

-----------------------------------------------------------------------------
(* Adding a member *)

InnerOf(type, table) ==
  table[Min({i \in DOMAIN table :
               table[i].kind = "struct" /\ table[i].name = type.struct_name})]

Nested(type) == type.type = "struct" /\ type.ptr_level = 0

AlignOf(type, table) ==
  IF Nested(type) THEN InnerOf(type, table).members[1].type.bytes ELSE type.bytes

SizeOf(type, table) == IF Nested(type) THEN InnerOf(type, table).type.bytes ELSE type.bytes

WidestOf(type) == IF Nested(type) THEN type.widest ELSE type.bytes

Member(struct, type, table) ==
  [type |-> type, offset |-> AlignStackAddressNoAdd(struct.type.bytes, AlignOf(type, table)),
   size |-> SizeOf(type, table)]

Grown(struct, member, said, widest) ==
  [struct EXCEPT !.members = Append(@, member), !.said = said,
                 !.type.bytes = member.offset + member.size, !.type.widest = Max({@, widest})]

\* The loop of parse_struct adds one member.
LEMMA GrownIs ==
  ASSUME NEW struct, NEW type, NEW spec, NEW table, NEW known
  PROVE  WithMember(struct, type, spec, table, known) =
           Grown(struct, Member(struct, type, table), Said(struct.said, spec, known),
                 WidestOf(type))
BY DEF WithMember, Grown, Member, AlignOf, SizeOf, WidestOf, Nested, InnerOf

\* The sizes of C are numbers.
LEMMA CSizes ==
  ASSUME NEW said \in CTypes, NEW known, CompleteIn(said, known),
         \A name \in DOMAIN known : known[name] \in Sayings
  PROVE  CSize(said, known) \in Nat /\ CAlign(said, known) \in Nat /\ CAlign(said, known) >= 1
<1>1. CASE ByValue(said)
  <2>1. known[said.name] \in Sayings /\ said.kind = "struct" /\ said.level = 0
    BY <1>1 DEF CompleteIn, ByValue
  <2>2. CSize(said, known) = known[said.name].size /\ CAlign(said, known) = known[said.name].align
    BY <1>1, <2>1 DEF CSize, CAlign
  <2> QED
    BY <2>1, <2>2 DEF Sayings
<1>2. CASE ~ByValue(said)
  <2>1. CAlign(said, known) = CSize(said, known)
    BY <1>2 DEF CAlign
  <2>2. CSize(said, known) = 8 \/ (said.kind \in DOMAIN Scalars
                                     /\ CSize(said, known) = Scalars[said.kind])
    BY <1>2 DEF CSize, ByValue, CTypes
  <2> QED
    BY <2>1, <2>2, ScalarsAre
<1> QED
  BY <1>1, <1>2

\* What a member of an accepted type takes, and that it is what C says where the compiler is right.
LEMMA PartsAre ==
  ASSUME NEW table, NEW known, NEW names, Tables(table, known, names), AllStored(table, known),
         NEW said \in CTypes, CompleteIn(said, known), NEW plain \in BOOLEAN,
         NEW complete \in BOOLEAN, NEW type, Accepted(type, said, plain, complete, table, known)
  PROVE  /\ AlignOf(type, table) \in Nat /\ AlignOf(type, table) >= 1
         /\ SizeOf(type, table) \in Nat /\ SizeOf(type, table) >= 1
         /\ WidestOf(type) \in Nat /\ type.bytes >= 1
         /\ plain /\ (ByValue(said) =>
              /\ complete /\ known[said.name].plain
              /\ CSize(Head(known[said.name].types), known) = known[said.name].align) =>
            /\ AlignOf(type, table) = CAlign(said, known) /\ SizeOf(type, table) = CSize(said, known)
            /\ WidestOf(type) = CAlign(said, known) /\ type.bytes = CSize(said, known)
<1>1. /\ type \in TypeRecords /\ type.bytes \in Nat /\ type.widest \in Nat /\ type.bytes >= 1
      /\ type.ptr_level = said.level
      /\ type.type = "struct" <=> said.kind = "struct"
      /\ said.level \in Nat
  BY DEF Accepted, TypeRecords, CTypes
<1>2. Nested(type) <=> ByValue(said)
  BY <1>1 DEF Nested, ByValue
<1>3. CASE ByValue(said)
  <2>1. said.kind = "struct" /\ said.level = 0 /\ said.name \in DOMAIN known
    BY <1>3 DEF ByValue, CompleteIn
  <2>2. PICK i \in DOMAIN table : IsStruct(table[i], said.name)
    BY <2>1 DEF AllStored
  <2>3. type.struct_name = said.name
    BY <2>1 DEF Accepted
  <2>4. {j \in DOMAIN table : table[j].kind = "struct" /\ table[j].name = type.struct_name} = {i}
    BY <2>2, <2>3 DEF Tables, IsStruct
  <2>5. i \in Nat
    BY DEF Tables
  <2>6. InnerOf(type, table) = table[i]
    BY <2>4, <2>5, MinOfOne DEF InnerOf
  <2>7. /\ Laid(table[i], known[said.name], known) /\ table[i].members # << >>
    BY <2>2 DEF Tables, IsStruct
  <2>8. /\ table[i].type.bytes \in Nat /\ table[i].type.bytes >= 1
        /\ table[i].members[1].type.bytes \in Nat /\ table[i].members[1].type.bytes >= 1
    BY <2>7, StructSized
  <2>9. /\ AlignOf(type, table) = table[i].members[1].type.bytes
        /\ SizeOf(type, table) = table[i].type.bytes
        /\ WidestOf(type) = type.widest
    BY <1>2, <1>3, <2>6 DEF AlignOf, SizeOf, WidestOf
  <2>10. /\ type.bytes = table[i].type.bytes
         /\ complete => type.widest = table[i].type.widest
    BY <2>1, <2>2 DEF Accepted
  <2>11. CSize(said, known) = known[said.name].size /\ CAlign(said, known) = known[said.name].align
    BY <1>3, <2>1 DEF CSize, CAlign
  <2>12. known[said.name].plain =>
           /\ known[said.name].size = table[i].type.bytes
           /\ table[i].type.widest = known[said.name].align
           /\ table[i].members[1].type.bytes = CSize(known[said.name].types[1], known)
    BY <2>7 DEF Laid, AsSaid
  <2>13. Head(known[said.name].types) = known[said.name].types[1]
    OBVIOUS
  <2> QED
    BY <1>1, <1>3, <2>8, <2>9, <2>10, <2>11, <2>12, <2>13
<1>4. CASE ~ByValue(said)
  <2>1. /\ AlignOf(type, table) = type.bytes /\ SizeOf(type, table) = type.bytes
        /\ WidestOf(type) = type.bytes
    BY <1>2, <1>4 DEF AlignOf, SizeOf, WidestOf
  <2>2. CAlign(said, known) = CSize(said, known)
    BY <1>4 DEF CAlign
  <2>3. plain => type.bytes = CSize(said, known)
    BY <1>1, <1>4 DEF Accepted, CSize, ByValue, BaseSize
  <2> QED
    BY <1>1, <1>4, <2>1, <2>2, <2>3
<1> QED
  BY <1>3, <1>4

Says(new, old, spec, known) ==
  /\ new \in Sayings
  /\ new.types = Append(old.types, Meaning(spec))
  /\ new.offsets = Append(old.offsets, Up(old.size, CAlign(Meaning(spec), known)))
  /\ new.size = Up(old.size, CAlign(Meaning(spec), known)) + CSize(Meaning(spec), known)
  /\ new.align = Max({old.align, CAlign(Meaning(spec), known)})
  /\ new.plain = (old.plain /\ PlainMember(spec, known))

\* What C says of the structure stays well formed.
LEMMA SaidIs ==
  ASSUME NEW old \in Sayings, NEW spec, NEW known, Meaning(spec) \in CTypes,
         CompleteIn(Meaning(spec), known), \A name \in DOMAIN known : known[name] \in Sayings
  PROVE  Says(Said(old, spec, known), old, spec, known)
<1> DEFINE type == Meaning(spec)
           size == CSize(type, known)
           align == CAlign(type, known)
           at == Up(old.size, align)
           widest == Max({old.align, align})
           plain == old.plain /\ PlainMember(spec, known)
<1>1. Said(old, spec, known) =
        [types |-> Append(old.types, type), offsets |-> Append(old.offsets, at),
         size |-> at + size, align |-> widest, plain |-> plain]
  BY DEF Said
<1>2. size \in Nat /\ align \in Nat /\ align >= 1
  BY CSizes
<1>3. /\ old.types \in Seq(CTypes) /\ old.offsets \in Seq(Nat) /\ old.size \in Nat
      /\ old.align \in Nat /\ old.align >= 1
  BY DEF Sayings
<1> HIDE DEF size, align
<1>4. at \in Nat
  BY <1>2, <1>3, AlignedUp
<1>5. widest \in Nat \ {0}
  BY <1>2, <1>3, MaxIs
<1>6. plain \in BOOLEAN
  OBVIOUS
<1>7. Append(old.types, type) \in Seq(CTypes)
  BY <1>3
<1>8. Append(old.offsets, at) \in Seq(Nat)
  BY <1>3, <1>4
<1> HIDE DEF at, widest, plain, type
<1>9. Said(old, spec, known) \in Sayings
  BY <1>1, <1>2, <1>4, <1>5, <1>6, <1>7, <1>8 DEF Sayings
<1>10. /\ Said(old, spec, known).types = Append(old.types, type)
       /\ Said(old, spec, known).offsets = Append(old.offsets, at)
       /\ Said(old, spec, known).size = at + size
       /\ Said(old, spec, known).align = widest
       /\ Said(old, spec, known).plain = plain
  BY <1>1
<1> QED
  BY <1>9, <1>10 DEF at, widest, plain, type, size, align, Says

\* A sequence of offsets is the function of its places.
LEMMA SeqIsFunction == \A s \in Seq(Nat) : s = [i \in 1..Len(s) |-> s[i]]
<1> TAKE s \in Seq(Nat)
<1>1. s \in [1..Len(s) -> Nat]
  BY LenProperties
<1> QED
  BY <1>1

\* The members of a structure with one more.
LEMMA MembersAppended ==
  ASSUME NEW members \in Seq(Members), NEW member \in Members
  PROVE  /\ Append(members, member) \in Seq(Members)
         /\ Len(Append(members, member)) = Len(members) + 1
         /\ Len(members) \in Nat
         /\ DOMAIN Append(members, member) = 1..(Len(members) + 1)
         /\ \A i \in 1..Len(members) : Append(members, member)[i] = members[i]
         /\ Append(members, member)[Len(members) + 1] = member
         /\ Last(Append(members, member)) = member
         /\ Append(members, member) # << >>
<1>1. /\ Append(members, member) \in Seq(Members)
      /\ Len(Append(members, member)) = Len(members) + 1
      /\ Len(members) \in Nat
      /\ \A i \in 1..Len(members) : Append(members, member)[i] = members[i]
      /\ Append(members, member)[Len(members) + 1] = member
  OBVIOUS
<1>2. DOMAIN Append(members, member) = 1..(Len(members) + 1)
  BY <1>1
<1> QED
  BY <1>1, <1>2 DEF Last

\* A structure that is another with one more member.
Grows(new, struct, member, said, widest) ==
  /\ new \in Opens /\ new.name = struct.name /\ new.said = said
  /\ new.members = Append(struct.members, member)
  /\ new.type.bytes = member.offset + member.size
  /\ new.type.widest = Max({struct.type.widest, widest})
  /\ new.type.type = struct.type.type /\ new.type.struct_name = struct.type.struct_name
  /\ new.type.ptr_level = struct.type.ptr_level
  /\ SameFlags(new.type, struct.type)

\* What one more member changes of a structure, and what it leaves.
LEMMA GrownFields ==
  ASSUME NEW struct \in Opens, NEW member \in Members, NEW said \in Sayings, NEW widest \in Nat
  PROVE  Grows(Grown(struct, member, said, widest), struct, member, said, widest)
<1> DEFINE max == Max({struct.type.widest, widest})
           bytes == member.offset + member.size
           one == [struct.type EXCEPT !.bytes = bytes]
           type == [one EXCEPT !.widest = max]
           members == Append(struct.members, member)
           new == Grown(struct, member, said, widest)
<1>1. struct.type \in TypeRecords /\ struct.members \in Seq(Members)
  BY DEF Opens
<1>2. max \in Nat
  <2>1. struct.type.widest \in Nat
    BY <1>1 DEF TypeRecords
  <2> QED
    BY <2>1, MaxIs
<1>3. bytes \in Nat
  BY DEF Members
<1>4. members \in Seq(Members)
  BY <1>1
<1>5. new = [struct EXCEPT !.members = members, !.said = said, !.type.bytes = bytes,
                           !.type.widest = max]
  BY DEF Grown
<1> HIDE DEF max, bytes, members, new
<1>6. one \in TypeRecords
  BY <1>1, <1>3 DEF TypeRecords
<1>7. /\ one.bytes = bytes /\ one.type = struct.type.type
      /\ one.struct_name = struct.type.struct_name /\ one.ptr_level = struct.type.ptr_level
      /\ SameFlags(one, struct.type)
  BY <1>1 DEF TypeRecords, SameFlags
<1>8. new = [struct EXCEPT !.members = members, !.said = said, !.type = type]
  BY <1>5 DEF Opens
<1>9. type \in TypeRecords /\ type.widest = max
  <2> HIDE DEF one
  <2> QED
    BY <1>2, <1>6 DEF TypeRecords
<1>10. /\ type.bytes = bytes /\ type.type = struct.type.type
       /\ type.struct_name = struct.type.struct_name /\ type.ptr_level = struct.type.ptr_level
       /\ SameFlags(type, struct.type)
  <2> HIDE DEF one
  <2> QED
    BY <1>6, <1>7 DEF TypeRecords, SameFlags
<1> HIDE DEF type
<1>11. /\ new.members = members /\ new.said = said /\ new.type = type /\ new.name = struct.name
  BY <1>8 DEF Opens
<1>12. new \in Opens
  BY <1>4, <1>8, <1>9 DEF Opens
<1>13. Grows(new, struct, member, said, widest)
  BY <1>9, <1>10, <1>11, <1>12 DEF members, max, bytes, Grows
<1> QED
  BY <1>13 DEF new

\* A structure with one more member behind the others.
LEMMA GrownLaid ==
  ASSUME NEW struct \in Opens, NEW known, Laid(struct, struct.said, known),
         NEW member \in Members, member.type.bytes >= 1, member.size >= 1,
         member.offset >= struct.type.bytes, NEW widest \in Nat, NEW said \in Sayings,
         NEW type \in CTypes, said.types = Append(struct.said.types, type), CompleteIn(type, known),
         said.plain =>
           /\ struct.said.plain /\ widest >= 1
           /\ said.offsets = Append(struct.said.offsets, member.offset)
           /\ said.size = member.offset + member.size
           /\ said.align = Max({struct.said.align, widest})
           /\ member.type.bytes = CSize(type, known)
  PROVE  Laid(Grown(struct, member, said, widest), said, known)
<1> DEFINE new == Grown(struct, member, said, widest)
           n == Len(struct.members)
<1>1. Grows(new, struct, member, said, widest)
  BY GrownFields
<1> HIDE DEF new
<1>2. /\ struct.members \in Seq(Members) /\ Placed(struct)
      /\ struct.type \in TypeRecords /\ struct.said \in Sayings
      /\ Len(struct.said.types) = n
  BY DEF Laid, Opens
<1>3. /\ new.members \in Seq(Members) /\ Len(new.members) = n + 1 /\ n \in Nat
      /\ DOMAIN new.members = 1..(n + 1)
      /\ \A i \in 1..n : new.members[i] = struct.members[i]
      /\ new.members[n + 1] = member /\ Last(new.members) = member /\ new.members # << >>
  BY <1>1, <1>2, MembersAppended DEF Grows
<1>4. DOMAIN struct.members = 1..n
  BY <1>2
<1>5. /\ member.offset \in Nat /\ member.size \in Nat
      /\ struct.type.bytes \in Nat /\ struct.type.widest \in Nat
  BY <1>2 DEF Members, TypeRecords
<1>6. \A i \in DOMAIN new.members : new.members[i].type.bytes >= 1 /\ new.members[i].size >= 1
  <2> SUFFICES ASSUME NEW i \in 1..(n + 1)
               PROVE  new.members[i].type.bytes >= 1 /\ new.members[i].size >= 1
    BY <1>3
  <2>1. CASE i = n + 1
    BY <1>3, <2>1
  <2>2. CASE i \in 1..n
    BY <1>2, <1>3, <1>4, <2>2 DEF Placed
  <2> QED
    BY <1>3, <2>1, <2>2
<1>7. \A i \in 1..(Len(new.members) - 1) :
        new.members[i].offset + new.members[i].size <= new.members[i + 1].offset
  <2> SUFFICES ASSUME NEW i \in 1..n
               PROVE  new.members[i].offset + new.members[i].size <= new.members[i + 1].offset
    BY <1>3
  <2>1. new.members[i] = struct.members[i] /\ struct.members # << >>
    BY <1>3, <1>4
  <2>2. CASE i = n
    <3>1. Last(struct.members) = struct.members[n]
      BY DEF Last
    <3>2. struct.members[n].offset + struct.members[n].size <= struct.type.bytes
      BY <1>2, <2>1, <3>1 DEF Placed
    <3>3. struct.members[n] \in Members
      BY <1>2, <1>4, <2>2
    <3>4. struct.members[n].offset \in Nat /\ struct.members[n].size \in Nat
      BY <3>3 DEF Members
    <3> QED
      BY <1>3, <1>5, <2>1, <2>2, <3>2, <3>4
  <2>3. CASE i # n
    <3>1. i \in 1..(n - 1) /\ i + 1 \in 1..n
      BY <1>3, <2>3
    <3>2. new.members[i + 1] = struct.members[i + 1]
      BY <1>3, <3>1
    <3> QED
      BY <1>2, <2>1, <3>1, <3>2 DEF Placed
  <2> QED
    BY <2>2, <2>3
<1>8. Last(new.members).offset + Last(new.members).size <= new.type.bytes
  BY <1>1, <1>3, <1>5 DEF Grows
<1>9. Placed(new)
  BY <1>3, <1>6, <1>7, <1>8 DEF Placed
<1>10. /\ struct.said.types \in Seq(CTypes) /\ said.types \in Seq(CTypes)
  BY <1>2 DEF Sayings
<1>11. Len(said.types) = n + 1 /\ \A i \in 1..n : said.types[i] = struct.said.types[i]
  <2> DEFINE types == struct.said.types
  <2>1. types \in Seq(CTypes) /\ Len(types) = n
    BY <1>2, <1>10
  <2> HIDE DEF types
  <2>2. Len(Append(types, type)) = n + 1 /\ \A i \in 1..n : Append(types, type)[i] = types[i]
    BY <2>1
  <2> QED
    BY <2>2 DEF types
<1>12. said.types[1] = IF n = 0 THEN type ELSE struct.said.types[1]
  BY <1>2, <1>3, <1>10, <1>11
<1>13. n = 0 <=> struct.members = << >>
  BY <1>2
<1>14. CompleteIn(said.types[1], known)
  BY <1>12, <1>13 DEF Laid
<1>15. ASSUME said.plain
       PROVE  AsSaid(new, said, known)
  <2>1. AsSaid(struct, struct.said, known)
    BY <1>15 DEF Laid
  <2>2. said.offsets = [i \in DOMAIN new.members |-> new.members[i].offset]
    <3>1. struct.said.offsets = [i \in 1..n |-> struct.members[i].offset]
      BY <1>4, <2>1 DEF AsSaid
    <3>2. struct.said.offsets \in Seq(Nat)
      BY <1>2 DEF Sayings
    <3>3. Len(struct.said.offsets) = n
      BY <1>3, <3>1, <3>2
    <3>4. said.offsets = Append(struct.said.offsets, member.offset)
      BY <1>15
    <3>5. /\ said.offsets = [i \in 1..(n + 1) |-> said.offsets[i]]
          /\ \A i \in 1..n : said.offsets[i] = struct.said.offsets[i]
          /\ said.offsets[n + 1] = member.offset
      <4> DEFINE offsets == struct.said.offsets
                 offset == member.offset
      <4> HIDE DEF offsets, offset
      <4>1. offsets \in Seq(Nat) /\ Len(offsets) = n /\ offset \in Nat
        BY <1>5, <3>2, <3>3 DEF offsets, offset
      <4>2. /\ Append(offsets, offset) \in Seq(Nat)
            /\ Len(Append(offsets, offset)) = n + 1
            /\ \A i \in 1..n : Append(offsets, offset)[i] = offsets[i]
            /\ Append(offsets, offset)[n + 1] = offset
        BY <4>1
      <4>3. Append(offsets, offset) = [i \in 1..(n + 1) |-> Append(offsets, offset)[i]]
        BY <4>2, SeqIsFunction
      <4> QED
        BY <3>4, <4>2, <4>3 DEF offsets, offset
    <3>6. \A i \in 1..(n + 1) : said.offsets[i] = new.members[i].offset
      <4> SUFFICES ASSUME NEW i \in 1..(n + 1) PROVE said.offsets[i] = new.members[i].offset
        OBVIOUS
      <4>1. CASE i = n + 1
        BY <1>3, <3>5, <4>1
      <4>2. CASE i \in 1..n
        BY <1>3, <3>1, <3>5, <4>2
      <4> QED
        BY <1>3, <4>1, <4>2
    <3> QED
      BY <1>3, <3>5, <3>6
  <2>3. said.size = new.type.bytes
    BY <1>1, <1>15 DEF Grows
  <2>4. new.type.widest = said.align
    <3>1. struct.said.align \in Nat
      BY <1>2 DEF Sayings
    <3>2. IF struct.members = << >> THEN struct.type.widest = 0 /\ struct.said.align = 1
          ELSE struct.type.widest = struct.said.align
      BY <2>1 DEF AsSaid
    <3>3. widest >= 1
      BY <1>15
    <3>4. Max({struct.type.widest, widest}) = Max({struct.said.align, widest})
      BY <1>5, <3>1, <3>2, <3>3, MaxIs
    <3> QED
      BY <1>1, <1>15, <3>4 DEF Grows
  <2>5. new.members[1].type.bytes = CSize(said.types[1], known)
    <3>1. CASE n = 0
      BY <1>3, <1>12, <1>15, <3>1
    <3>2. CASE n # 0
      <4>1. struct.members[1].type.bytes = CSize(struct.said.types[1], known)
        BY <1>13, <2>1, <3>2 DEF AsSaid
      <4>2. new.members[1] = struct.members[1]
        BY <1>3, <3>2
      <4> QED
        BY <1>12, <3>2, <4>1, <4>2
    <3> QED
      BY <3>1, <3>2
  <2> QED
    BY <1>3, <2>2, <2>3, <2>4, <2>5 DEF AsSaid
<1>16. new.type \in TypeRecords
  BY <1>1 DEF Opens, Grows
<1>17. Flagless(new.type)
  BY <1>1 DEF Laid, Grows, SameFlags, Flagless
<1>18. Laid(new, said, known)
  BY <1>1, <1>3, <1>9, <1>11, <1>14, <1>15, <1>16, <1>17 DEF Laid, Grows
<1> QED
  BY <1>18 DEF new

\* The loop of parse_struct keeps a structure where C has it.
LEMMA MemberLaid ==
  ASSUME NEW table, NEW known, NEW names, Tables(table, known, names), AllStored(table, known),
         NEW struct \in Opens, Laid(struct, struct.said, known),
         NEW spec, Meaning(spec) \in CTypes, CompleteIn(Meaning(spec), known),
         PlainType(spec) \in BOOLEAN, CompleteOf(spec) \in BOOLEAN, NEW type,
         Accepted(type, Meaning(spec), PlainType(spec), CompleteOf(spec), table, known)
  PROVE  /\ WithMember(struct, type, spec, table, known) \in Opens
         /\ Laid(WithMember(struct, type, spec, table, known),
                 WithMember(struct, type, spec, table, known).said, known)
         /\ WithMember(struct, type, spec, table, known).name = struct.name
<1> DEFINE member == Member(struct, type, table)
           said == Said(struct.said, spec, known)
           widest == WidestOf(type)
           meant == Meaning(spec)
           new == WithMember(struct, type, spec, table, known)
<1>1. new = Grown(struct, member, said, widest)
  BY GrownIs
<1>2. \A name \in DOMAIN known : known[name] \in Sayings
  BY DEF Tables
<1>3. /\ AlignOf(type, table) \in Nat /\ AlignOf(type, table) >= 1
      /\ SizeOf(type, table) \in Nat /\ SizeOf(type, table) >= 1
      /\ widest \in Nat /\ type.bytes >= 1
      /\ PlainType(spec) /\ (ByValue(meant) =>
           /\ CompleteOf(spec) /\ known[meant.name].plain
           /\ CSize(Head(known[meant.name].types), known) = known[meant.name].align) =>
         /\ AlignOf(type, table) = CAlign(meant, known) /\ SizeOf(type, table) = CSize(meant, known)
         /\ widest = CAlign(meant, known) /\ type.bytes = CSize(meant, known)
  BY PartsAre
<1>4. struct.said \in Sayings /\ struct.type \in TypeRecords
  BY DEF Opens
<1>5. struct.type.bytes \in Nat /\ type \in TypeRecords
  BY <1>4 DEF Accepted, TypeRecords
<1>6. /\ member.offset = AlignStackAddressNoAdd(struct.type.bytes, AlignOf(type, table))
      /\ member.size = SizeOf(type, table) /\ member.type = type
      /\ member = [type |-> type, offset |-> member.offset, size |-> member.size]
  BY DEF Member
<1>7. /\ member.offset \in Nat /\ member.offset >= struct.type.bytes
      /\ member.offset = Up(struct.type.bytes, AlignOf(type, table))
  BY <1>3, <1>5, <1>6, AlignedUp
<1>8. Says(said, struct.said, spec, known)
  BY <1>2, <1>4, SaidIs
<1>9. PlainMember(spec, known) =>
        /\ PlainType(spec)
        /\ ByValue(meant) =>
             /\ CompleteOf(spec) /\ known[meant.name].plain
             /\ CSize(Head(known[meant.name].types), known) = known[meant.name].align
  BY DEF PlainMember, CompleteOf
<1>10. CAlign(meant, known) \in Nat /\ CAlign(meant, known) >= 1
  BY <1>2, CSizes
<1> HIDE DEF member, said, widest, meant, new
<1>11. member \in Members
  BY <1>3, <1>5, <1>6, <1>7 DEF Members
<1>12. ASSUME said.plain
       PROVE  /\ struct.said.plain /\ widest >= 1
              /\ said.offsets = Append(struct.said.offsets, member.offset)
              /\ said.size = member.offset + member.size
              /\ said.align = Max({struct.said.align, widest})
              /\ member.type.bytes = CSize(meant, known)
  <2>1. struct.said.plain /\ PlainMember(spec, known)
    BY <1>8, <1>12 DEF Says
  <2>2. /\ AlignOf(type, table) = CAlign(meant, known) /\ SizeOf(type, table) = CSize(meant, known)
        /\ widest = CAlign(meant, known) /\ type.bytes = CSize(meant, known)
    BY <1>3, <1>9, <2>1
  <2>3. struct.said.size = struct.type.bytes
    BY <2>1 DEF Laid, AsSaid
  <2>4. member.offset = Up(struct.said.size, CAlign(meant, known))
    BY <1>7, <2>2, <2>3
  <2> QED
    BY <1>6, <1>8, <1>10, <2>1, <2>2, <2>4 DEF Says, meant
<1>13. CompleteIn(meant, known) /\ meant \in CTypes
  BY DEF meant
<1>14. member.type.bytes >= 1 /\ member.size >= 1
  BY <1>3, <1>6
<1>18. said \in Sayings /\ said.types = Append(struct.said.types, meant)
  BY <1>8 DEF Says, meant
<1>15. Laid(Grown(struct, member, said, widest), said, known)
  BY <1>3, <1>7, <1>11, <1>12, <1>13, <1>14, <1>18, GrownLaid
<1>16. Grows(Grown(struct, member, said, widest), struct, member, said, widest)
  BY <1>3, <1>11, <1>18, GrownFields
<1>17. new \in Opens /\ Laid(new, new.said, known) /\ new.name = struct.name
  BY <1>1, <1>15, <1>16 DEF Grows
<1> QED
  BY <1>17 DEF new

-----------------------------------------------------------------------------
(* Adding to the table *)

\* A structure keeps its layout when another is complete.
LEMMA LaidExtended ==
  ASSUME NEW struct, NEW said, NEW known, Laid(struct, said, known),
         NEW name, name \notin DOMAIN known, NEW value
  PROVE  Laid(struct, said, Known(known, name, value))
<1> DEFINE wider == Known(known, name, value)
<1>1. /\ DOMAIN wider = DOMAIN known \union {name}
      /\ \A other \in DOMAIN known : wider[other] = known[other]
  BY DEF Known
<1> HIDE DEF wider
<1>2. ASSUME struct.members # << >>
      PROVE  /\ CompleteIn(said.types[1], wider)
             /\ CSize(said.types[1], wider) = CSize(said.types[1], known)
  <2> DEFINE type == said.types[1]
  <2>1. CompleteIn(type, known)
    BY <1>2 DEF Laid
  <2>2. type \in CTypes
    <3>1. said.types \in Seq(CTypes) /\ Len(said.types) = Len(struct.members)
      BY DEF Laid, Sayings
    <3>2. struct.members \in Seq(Members)
      BY DEF Laid, Placed
    <3>3. Len(said.types) >= 1 /\ Len(said.types) \in Nat
      BY <1>2, <3>1, <3>2
    <3> QED
      BY <3>1, <3>3
  <2> HIDE DEF type
  <2>3. CASE ByValue(type)
    <3>1. type.name \in DOMAIN known
      BY <2>1, <2>3 DEF CompleteIn
    <3> QED
      BY <1>1, <2>3, <3>1 DEF CompleteIn, CSize, type
  <2>4. CASE ~ByValue(type)
    <3>1. type.kind = "struct" => type.level > 0
      BY <2>2, <2>4 DEF ByValue, CTypes
    <3> QED
      BY <2>4, <3>1 DEF CompleteIn, CSize, type
  <2> QED
    BY <2>3, <2>4
<1>3. ASSUME AsSaid(struct, said, known) PROVE AsSaid(struct, said, wider)
  BY <1>2, <1>3 DEF AsSaid
<1>4. Laid(struct, said, wider)
  BY <1>2, <1>3 DEF Laid
<1> QED
  BY <1>4 DEF wider

\* The object table with one more object.
LEMMA TableAppended ==
  ASSUME NEW table \in Seq(Objects), NEW object \in Objects
  PROVE  /\ Append(table, object) \in Seq(Objects)
         /\ DOMAIN Append(table, object) = DOMAIN table \union {Len(table) + 1}
         /\ Len(table) + 1 \notin DOMAIN table
         /\ Append(table, object)[Len(table) + 1] = object
         /\ \A i \in DOMAIN table : Append(table, object)[i] = table[i]
<1>1. /\ Append(table, object) \in Seq(Objects)
      /\ Len(Append(table, object)) = Len(table) + 1
      /\ Len(table) \in Nat
      /\ \A i \in 1..Len(table) : Append(table, object)[i] = table[i]
      /\ Append(table, object)[Len(table) + 1] = object
  OBVIOUS
<1>2. DOMAIN Append(table, object) = 1..(Len(table) + 1) /\ DOMAIN table = 1..Len(table)
  BY <1>1
<1> QED
  BY <1>1, <1>2

\* A complete structure is added to the table.
LEMMA StructAdded ==
  ASSUME NEW table, NEW known, NEW names, Tables(table, known, names),
         NEW object \in Objects, object.kind = "struct", object.members # << >>,
         object.name \notin DOMAIN known, NEW said \in Sayings, Laid(object, said, known)
  PROVE  /\ Tables(Append(table, object), Known(known, object.name, said), names)
         /\ AllStored(table, known) =>
              AllStored(Append(table, object), Known(known, object.name, said))
<1> DEFINE name == object.name
           wider == Known(known, name, said)
           longer == Append(table, object)
           new == Len(table) + 1
<1>1. /\ DOMAIN wider = DOMAIN known \union {name} /\ wider[name] = said
      /\ \A other \in DOMAIN known : wider[other] = known[other]
  BY DEF Known
<1>2. table \in Seq(Objects)
  BY DEF Tables
<1>3. /\ longer \in Seq(Objects)
      /\ DOMAIN longer = DOMAIN table \union {new} /\ new \notin DOMAIN table
      /\ longer[new] = object /\ \A i \in DOMAIN table : longer[i] = table[i]
  BY <1>2, TableAppended
<1>4. name \in StructNames
  BY DEF Laid
<1>5. \A i \in DOMAIN table : table[i].kind = "struct" => table[i].name \in DOMAIN known
  BY DEF Tables
<1>6. Laid(object, said, wider)
  BY LaidExtended
<1>7. \A i \in DOMAIN table :
        table[i].kind = "struct" => Laid(table[i], known[table[i].name], wider)
  <2> SUFFICES ASSUME NEW i \in DOMAIN table, table[i].kind = "struct"
               PROVE  Laid(table[i], known[table[i].name], wider)
    OBVIOUS
  <2>1. Laid(table[i], known[table[i].name], known)
    BY DEF Tables
  <2> QED
    BY <2>1, LaidExtended
<1> HIDE DEF wider, longer, new
<1>8. /\ DOMAIN wider \subseteq StructNames /\ \A other \in DOMAIN wider : wider[other] \in Sayings
      /\ DOMAIN names \subseteq TypedefNames
  BY <1>1, <1>4 DEF Tables
<1>9. ASSUME NEW i \in DOMAIN longer
      PROVE  IF longer[i].kind = "struct"
             THEN /\ longer[i].name \in DOMAIN wider /\ longer[i].members # << >>
                  /\ Laid(longer[i], wider[longer[i].name], wider)
             ELSE /\ longer[i].name \in DOMAIN names /\ longer[i].members = << >>
                  /\ Named(longer[i].type, names[longer[i].name], longer, wider)
  <2>1. CASE i = new
    BY <1>1, <1>3, <1>6, <2>1
  <2>2. CASE i \in DOMAIN table /\ table[i].kind = "struct"
    <3>1. table[i].name \in DOMAIN known /\ table[i].members # << >>
      BY <2>2 DEF Tables
    <3> QED
      BY <1>1, <1>3, <1>7, <2>2, <3>1
  <2>3. CASE i \in DOMAIN table /\ table[i].kind # "struct"
    <3> DEFINE to == names[table[i].name]
    <3>1. /\ table[i].name \in DOMAIN names /\ table[i].members = << >>
          /\ Named(table[i].type, to, table, known)
      BY <2>3 DEF Tables
    <3> HIDE DEF to
    <3>2. ASSUME to.type.kind = "struct", to.complete
          PROVE  /\ to.type.name \in DOMAIN wider
                 /\ to.type.level = 0 =>
                      \A j \in DOMAIN longer :
                        IsStruct(longer[j], to.type.name)
                          => table[i].type.widest = longer[j].type.widest
      <4>1. to.type.name \in DOMAIN known
        BY <3>1, <3>2 DEF Named
      <4>2. ~IsStruct(object, to.type.name)
        BY <4>1 DEF IsStruct
      <4> QED
        BY <1>1, <1>3, <3>1, <3>2, <4>1, <4>2 DEF Named
    <3>3. Named(table[i].type, to, longer, wider)
      BY <3>1, <3>2 DEF Named
    <3> QED
      BY <1>3, <2>3, <3>1, <3>3 DEF to
  <2> QED
    BY <1>3, <2>1, <2>2, <2>3
<1>10. ASSUME NEW i \in DOMAIN longer, NEW j \in DOMAIN longer,
              longer[i].kind = longer[j].kind, longer[i].name = longer[j].name
       PROVE  i = j
  <2>1. CASE i \in DOMAIN table /\ j \in DOMAIN table
    BY <1>3, <1>10, <2>1 DEF Tables
  <2>2. CASE i = new \/ j = new
    BY <1>3, <1>5, <1>10, <2>2
  <2> QED
    BY <1>3, <2>1, <2>2
<1>11. \A other \in DOMAIN names :
         \E i \in DOMAIN longer : longer[i].kind = "typedef" /\ longer[i].name = other
  <2> SUFFICES ASSUME NEW other \in DOMAIN names
               PROVE  \E i \in DOMAIN longer : longer[i].kind = "typedef" /\ longer[i].name = other
    OBVIOUS
  <2>1. PICK i \in DOMAIN table : table[i].kind = "typedef" /\ table[i].name = other
    BY DEF Tables
  <2> QED
    BY <1>3, <2>1
<1>12. Tables(longer, wider, names)
  BY <1>3, <1>8, <1>9, <1>10, <1>11 DEF Tables
<1>13. ASSUME AllStored(table, known)
       PROVE  AllStored(longer, wider)
  <2> SUFFICES ASSUME NEW other \in DOMAIN wider
               PROVE  \E i \in DOMAIN longer : IsStruct(longer[i], other)
    BY DEF AllStored
  <2>1. CASE other = name
    BY <1>3, <2>1 DEF IsStruct
  <2>2. CASE other \in DOMAIN known
    <3>1. PICK i \in DOMAIN table : IsStruct(table[i], other)
      BY <1>13, <2>2 DEF AllStored
    <3> QED
      BY <1>3, <3>1
  <2> QED
    BY <1>1, <2>1, <2>2
<1> QED
  BY <1>12, <1>13 DEF longer, wider

\* A typedef is added to the table.
LEMMA TypedefAdded ==
  ASSUME NEW table, NEW known, NEW names, Tables(table, known, names),
         NEW name \in TypedefNames, name \notin DOMAIN names, NEW type, NEW said,
         Named(type, said, table, known)
  PROVE  /\ Tables(Append(table, TypedefObject(name, type)), known, Known(names, name, said))
         /\ AllStored(table, known) => AllStored(Append(table, TypedefObject(name, type)), known)
<1> DEFINE object == TypedefObject(name, type)
           wider == Known(names, name, said)
           longer == Append(table, object)
           new == Len(table) + 1
<1>1. /\ DOMAIN wider = DOMAIN names \union {name} /\ wider[name] = said
      /\ \A other \in DOMAIN names : wider[other] = names[other]
  BY DEF Known
<1>2. /\ object.kind = "typedef" /\ object.name = name /\ object.type = type
      /\ object.members = << >> /\ object \in Objects
  BY DEF TypedefObject, Objects, Named
<1>3. table \in Seq(Objects)
  BY DEF Tables
<1> HIDE DEF object
<1>4. /\ longer \in Seq(Objects)
      /\ DOMAIN longer = DOMAIN table \union {new} /\ new \notin DOMAIN table
      /\ longer[new] = object /\ \A i \in DOMAIN table : longer[i] = table[i]
  BY <1>2, <1>3, TableAppended
<1> HIDE DEF wider, longer, new
<1>6. ASSUME NEW to, NEW its, Named(its, to, table, known)
      PROVE  Named(its, to, longer, known)
  <2>1. \A j \in DOMAIN longer : \A other :
          IsStruct(longer[j], other) => j \in DOMAIN table /\ longer[j] = table[j]
    BY <1>2, <1>4 DEF IsStruct
  <2> QED
    BY <1>6, <2>1 DEF Named
<1>7. ASSUME NEW i \in DOMAIN longer
      PROVE  IF longer[i].kind = "struct"
             THEN /\ longer[i].name \in DOMAIN known /\ longer[i].members # << >>
                  /\ Laid(longer[i], known[longer[i].name], known)
             ELSE /\ longer[i].name \in DOMAIN wider /\ longer[i].members = << >>
                  /\ Named(longer[i].type, wider[longer[i].name], longer, known)
  <2>1. CASE i = new
    BY <1>1, <1>2, <1>4, <1>6, <2>1
  <2>2. CASE i \in DOMAIN table /\ table[i].kind = "struct"
    BY <1>4, <2>2 DEF Tables
  <2>3. CASE i \in DOMAIN table /\ table[i].kind # "struct"
    <3>1. /\ table[i].name \in DOMAIN names /\ table[i].members = << >>
          /\ Named(table[i].type, names[table[i].name], table, known)
      BY <2>3 DEF Tables
    <3> QED
      BY <1>1, <1>4, <1>6, <2>3, <3>1
  <2> QED
    BY <1>4, <2>1, <2>2, <2>3
<1>8. ASSUME NEW i \in DOMAIN longer, NEW j \in DOMAIN longer,
             longer[i].kind = longer[j].kind, longer[i].name = longer[j].name
      PROVE  i = j
  <2>1. CASE i \in DOMAIN table /\ j \in DOMAIN table
    BY <1>4, <1>8, <2>1 DEF Tables
  <2>2. \A k \in DOMAIN table : table[k].kind # "struct" => table[k].name \in DOMAIN names
    BY DEF Tables
  <2>3. CASE i = new \/ j = new
    BY <1>2, <1>4, <1>8, <2>2, <2>3
  <2> QED
    BY <1>4, <2>1, <2>3
<1>9. \A other \in DOMAIN wider :
        \E i \in DOMAIN longer : longer[i].kind = "typedef" /\ longer[i].name = other
  <2> SUFFICES ASSUME NEW other \in DOMAIN wider
               PROVE  \E i \in DOMAIN longer : longer[i].kind = "typedef" /\ longer[i].name = other
    OBVIOUS
  <2>1. CASE other = name
    BY <1>2, <1>4, <2>1
  <2>2. CASE other \in DOMAIN names
    <3>1. PICK i \in DOMAIN table : table[i].kind = "typedef" /\ table[i].name = other
      BY <2>2 DEF Tables
    <3> QED
      BY <1>4, <3>1
  <2> QED
    BY <1>1, <2>1, <2>2
<1>10. /\ DOMAIN known \subseteq StructNames /\ \A other \in DOMAIN known : known[other] \in Sayings
       /\ DOMAIN wider \subseteq TypedefNames
  BY <1>1 DEF Tables
<1>11. Tables(longer, known, wider)
  BY <1>4, <1>7, <1>8, <1>9, <1>10 DEF Tables
<1>12. ASSUME AllStored(table, known)
       PROVE  AllStored(longer, known)
  <2> SUFFICES ASSUME NEW other \in DOMAIN known
               PROVE  \E i \in DOMAIN longer : IsStruct(longer[i], other)
    BY DEF AllStored
  <2>1. PICK i \in DOMAIN table : IsStruct(table[i], other)
    BY <1>12 DEF AllStored
  <2> QED
    BY <1>4, <2>1
<1> QED
  BY <1>11, <1>12 DEF longer, wider, object

\* What an accepted type says to a typedef of it.
LEMMA AcceptedNamed ==
  ASSUME NEW type, NEW said, NEW plain, NEW complete, NEW table, NEW known,
         Accepted(type, said.type, plain, complete, table, known),
         said.type \in CTypes, said.complete \in BOOLEAN, said.complete => complete,
         said.complete /\ said.type.kind = "struct" => said.type.name \in DOMAIN known,
         Flagless(type)
  PROVE  Named(type, said, table, known)
<1>1. said.type.level \in Nat
  BY DEF CTypes
<1>2. said.type.level > 0 => type.bytes >= 1
  <2>1. said.type.level > 0 => CompleteIn(said.type, known)
    BY <1>1 DEF CompleteIn, ByValue
  <2> QED
    BY <2>1 DEF Accepted
<1>3. said.type.kind = "struct" =>
        /\ type.struct_name = said.type.name
        /\ said.complete =>
          /\ said.type.name \in DOMAIN known
          /\ said.type.level = 0 =>
               \A i \in DOMAIN table :
                 IsStruct(table[i], said.type.name) => type.widest = table[i].type.widest
  BY DEF Accepted
<1> QED
  BY <1>2, <1>3 DEF Accepted, Named

-----------------------------------------------------------------------------
(* The structures being read *)

\* At file scope no structure is being read.
LEMMA NoneOpen == ASSUME NEW known PROVE OpensIn(<< >>, known)
BY DEF OpensIn

\* The innermost structure grows.
LEMMA OpenReplaced ==
  ASSUME NEW known, NEW seq, OpensIn(seq, known), seq # << >>, NEW new \in Opens,
         Laid(new, new.said, known), new.name = Last(seq).name
  PROVE  OpensIn(ReplaceAt(seq, Len(seq), new), known)
<1> DEFINE n == Len(seq)
           other == ReplaceAt(seq, n, new)
<1>1. seq \in Seq(Opens)
  BY DEF OpensIn
<1>2. n \in Nat /\ n >= 1 /\ DOMAIN seq = 1..n
  BY <1>1
<1>3. other = [seq EXCEPT ![n] = new]
  BY DEF ReplaceAt
<1>4. other \in Seq(Opens)
  BY <1>1, <1>2, <1>3, ExceptSeq
<1>5. /\ DOMAIN other = DOMAIN seq /\ other[n] = new
      /\ \A i \in DOMAIN seq : i # n => other[i] = seq[i]
  BY <1>2, <1>3
<1>6. new.name = seq[n].name
  BY DEF Last
<1> HIDE DEF other, n
<1>7. \A i \in DOMAIN seq : other[i].name = seq[i].name
  BY <1>5, <1>6
<1>8. \A i \in DOMAIN other : Laid(other[i], other[i].said, known)
  BY <1>5 DEF OpensIn
<1>9. OpensIn(other, known)
  BY <1>4, <1>5, <1>7, <1>8 DEF OpensIn
<1> QED
  BY <1>9 DEF other, n

\* The structures around the innermost.
LEMMA FrontIs ==
  ASSUME NEW seq \in Seq(Opens), seq # << >>
  PROVE  /\ Front(seq) \in Seq(Opens) /\ Len(Front(seq)) = Len(seq) - 1
         /\ \A i \in 1..(Len(seq) - 1) : Front(seq)[i] = seq[i]
<1>1. Len(seq) \in Nat /\ Len(seq) >= 1 /\ DOMAIN seq = 1..Len(seq)
  OBVIOUS
<1> QED
  BY <1>1, SubSeqProperties DEF Front

\* The innermost structure is complete, and those around it stay as they are.
LEMMA OpenClosed ==
  ASSUME NEW known, NEW seq, OpensIn(seq, known), seq # << >>, NEW value
  PROVE  OpensIn(Front(seq), Known(known, Last(seq).name, value))
<1> DEFINE n == Len(seq)
           name == Last(seq).name
           wider == Known(known, name, value)
           front == Front(seq)
<1>1. seq \in Seq(Opens)
  BY DEF OpensIn
<1>2. n \in Nat /\ n >= 1 /\ DOMAIN seq = 1..n
  BY <1>1
<1>3. front \in Seq(Opens) /\ Len(front) = n - 1 /\ \A i \in 1..(n - 1) : front[i] = seq[i]
  BY <1>1, FrontIs
<1>4. DOMAIN front = 1..(n - 1)
  BY <1>2, <1>3
<1>5. name = seq[n].name
  BY DEF Last
<1>6. DOMAIN wider = DOMAIN known \union {name}
  BY DEF Known
<1>7. name \notin DOMAIN known
  BY <1>2, <1>5 DEF OpensIn
<1> HIDE DEF name, front, n
<1>8. \A i \in 1..(n - 1) : i \in DOMAIN seq /\ seq[i].name # name
  BY <1>2, <1>5 DEF OpensIn
<1>9. \A i \in 1..(n - 1) : Laid(seq[i], seq[i].said, wider)
  <2> SUFFICES ASSUME NEW i \in 1..(n - 1) PROVE Laid(seq[i], seq[i].said, wider)
    OBVIOUS
  <2>1. Laid(seq[i], seq[i].said, known)
    BY <1>8 DEF OpensIn
  <2> QED
    BY <1>7, <2>1, LaidExtended
<1> HIDE DEF wider
<1>10. OpensIn(front, wider)
  BY <1>3, <1>4, <1>6, <1>8, <1>9 DEF OpensIn
<1> QED
  BY <1>10 DEF front, wider, name, n

\* A structure starts inside the others.
LEMMA OpenAppended ==
  ASSUME NEW known, NEW seq, OpensIn(seq, known), NEW new \in Opens,
         Laid(new, new.said, known), new.name \notin DOMAIN known,
         \A i \in DOMAIN seq : seq[i].name # new.name
  PROVE  OpensIn(Append(seq, new), known)
<1> DEFINE n == Len(seq)
           other == Append(seq, new)
<1>1. seq \in Seq(Opens)
  BY DEF OpensIn
<1>2. /\ other \in Seq(Opens) /\ n \in Nat /\ Len(other) = n + 1 /\ other[n + 1] = new
      /\ \A i \in 1..n : other[i] = seq[i]
  BY <1>1
<1>3. DOMAIN seq = 1..n /\ DOMAIN other = 1..n \union {n + 1} /\ n + 1 \notin 1..n
  BY <1>1, <1>2
<1> HIDE DEF other, n
<1>4. OpensIn(other, known)
  BY <1>2, <1>3 DEF OpensIn
<1> QED
  BY <1>4 DEF other, n

\* A structure before its first member.
LEMMA OpenedIs ==
  ASSUME latest \in TypeRecords, NEW name \in StructNames, NEW known
  PROVE  LET new == Opened(name)
         IN new \in Opens /\ Laid(new, new.said, known) /\ new.name = name
<1> DEFINE new == Opened(name)
           none == Flagged({})
           one == [none EXCEPT !.type = "struct", !.bytes = 0]
           two == [one EXCEPT !.ptr_level = 0, !.is_static = FALSE]
           last == [two EXCEPT !.struct_name = name, !.widest = 0]
<1>0. none \in TypeRecords /\ Flagless(none)
  <2>1. none \in TypeRecords /\ AsFlagged(none, {})
    BY FlaggedIs
  <2>2. ("static" \in {}) = FALSE /\ ("extern" \in {}) = FALSE /\ ("const" \in {}) = FALSE
    OBVIOUS
  <2>3. none.is_static = FALSE /\ none.is_extern = FALSE /\ none.is_const = FALSE
    BY <2>1, <2>2, Zenon DEF AsFlagged
  <2> QED
    BY <2>1, <2>3 DEF Flagless
<1> HIDE DEF none
<1>1. one \in TypeRecords /\ one.type = "struct" /\ one.bytes = 0 /\ Flagless(one)
  BY <1>0 DEF TypeRecords, Flagless
<1>2. two \in TypeRecords /\ two.type = "struct" /\ two.bytes = 0 /\ two.ptr_level = 0
        /\ Flagless(two)
  <2> HIDE DEF one
  <2> QED
    BY <1>1 DEF TypeRecords, Flagless
<1>3. last \in TypeRecords /\ last.type = "struct" /\ last.bytes = 0 /\ last.ptr_level = 0
        /\ Flagless(last) /\ last.struct_name = name /\ last.widest = 0
  <2> HIDE DEF two
  <2> QED
    BY <1>2 DEF TypeRecords, Flagless
<1>4. new = [name |-> name, members |-> << >>, said |-> NothingSaid, type |-> last]
  BY DEF Opened, none
<1>7. NothingSaid \in Sayings /\ NothingSaid.types = << >> /\ NothingSaid.align = 1
        /\ NothingSaid.size = 0 /\ NothingSaid.offsets = << >>
  BY DEF NothingSaid, Sayings
<1> HIDE DEF new, last
<1>8. new \in Opens /\ new.name = name /\ new.said = NothingSaid /\ new.type = last
        /\ new.members = << >>
  BY <1>3, <1>4, <1>7 DEF Opens
<1>9. Placed(new)
  BY <1>8 DEF Placed
<1>10. NothingSaid.offsets = [i \in DOMAIN new.members |-> new.members[i].offset]
  BY <1>7, <1>8
<1>11. AsSaid(new, NothingSaid, known)
  BY <1>3, <1>7, <1>8, <1>10 DEF AsSaid
<1>12. Laid(new, NothingSaid, known)
  BY <1>3, <1>7, <1>8, <1>9, <1>11 DEF Laid
<1> QED
  BY <1>8, <1>12 DEF new

\* The structure at its closing brace, rounded up to its widest member.
LEMMA ClosedIs ==
  ASSUME NEW known, NEW struct \in Opens, Laid(struct, struct.said, known),
         struct.members # << >>
  PROVE  /\ Described(struct) \in Sayings /\ Described(struct).plain = struct.said.plain
         /\ struct.type.widest = 0 => ~struct.said.plain
         /\ struct.type.widest # 0 =>
              /\ Closed(struct) \in Objects
              /\ Closed(struct).kind = "struct" /\ Closed(struct).name = struct.name
              /\ Closed(struct).members = struct.members
              /\ Laid(Closed(struct), Described(struct), known)
<1> DEFINE said == struct.said
           type == struct.type
           size == Up(said.size, said.align)
           new == Described(struct)
<1>1. said \in Sayings /\ type \in TypeRecords
  BY DEF Opens
<1>2. said.size \in Nat /\ said.align \in Nat /\ said.align >= 1
  BY <1>1 DEF Sayings
<1>3. type.bytes \in Nat /\ type.widest \in Nat
  BY <1>1 DEF TypeRecords
<1>4. size \in Nat
  BY <1>2, AlignedUp
<1>5. new = [said EXCEPT !.size = size]
  BY DEF Described
<1> HIDE DEF new, size, said, type
<1>6. /\ new \in Sayings /\ new.plain = said.plain /\ new.types = said.types
      /\ new.offsets = said.offsets /\ new.align = said.align /\ new.size = size
  BY <1>1, <1>4, <1>5 DEF Sayings
<1>7. said.plain => type.widest = said.align
  BY DEF Laid, AsSaid, said, type
<1>8. ASSUME type.widest # 0
      PROVE  /\ Closed(struct) \in Objects
             /\ Closed(struct).kind = "struct" /\ Closed(struct).name = struct.name
             /\ Closed(struct).members = struct.members
             /\ Laid(Closed(struct), new, known)
  <2> DEFINE bytes == AlignStackAddressNoAdd(type.bytes, type.widest)
             its == [type EXCEPT !.bytes = bytes]
             object == Closed(struct)
  <2>0. type.widest >= 1
    BY <1>3, <1>8
  <2>1. /\ bytes \in Nat /\ bytes >= type.bytes /\ bytes = Up(type.bytes, type.widest)
    BY <1>3, <2>0, AlignedUp
  <2>2. object = [kind |-> "struct", name |-> struct.name, members |-> struct.members,
                  type |-> its]
    BY DEF Closed, type
  <2> HIDE DEF bytes, object
  <2>3. /\ its \in TypeRecords /\ its.bytes = bytes /\ its.widest = type.widest
        /\ its.type = type.type /\ its.struct_name = type.struct_name
        /\ its.ptr_level = type.ptr_level /\ (Flagless(type) => Flagless(its))
    BY <1>1, <2>1 DEF TypeRecords, Flagless
  <2> HIDE DEF its
  <2>4. /\ struct.name \in StructNames /\ struct.members \in Seq(Members)
    BY DEF Opens
  <2>5. /\ object.kind = "struct" /\ object.name = struct.name
        /\ object.members = struct.members /\ object.type = its
        /\ object \in Objects
    BY <2>2, <2>3, <2>4 DEF Objects
  <2>6. Placed(object)
    <3>1. Len(struct.members) \in DOMAIN struct.members
      BY <2>4
    <3>2. struct.members[Len(struct.members)] \in Members
      BY <2>4, <3>1
    <3>3. Last(struct.members).offset \in Nat /\ Last(struct.members).size \in Nat
      BY <3>2 DEF Last, Members
    <3>4. Last(struct.members).offset + Last(struct.members).size <= type.bytes
      BY DEF Laid, Placed, type
    <3>5. Last(struct.members).offset + Last(struct.members).size <= its.bytes
      BY <1>3, <2>1, <2>3, <3>3, <3>4
    <3> QED
      BY <2>5, <3>5 DEF Laid, Placed
  <2>7. ASSUME new.plain PROVE AsSaid(object, new, known)
    <3>1. AsSaid(struct, said, known)
      BY <1>6, <2>7 DEF Laid, said
    <3>2. said.size = type.bytes /\ type.widest = said.align
      BY <3>1 DEF AsSaid, type
    <3>3. new.size = its.bytes
      BY <1>6, <2>1, <2>3, <3>2 DEF size
    <3> QED
      BY <1>6, <2>3, <2>5, <3>1, <3>3 DEF AsSaid, type
  <2>8. Laid(object, new, known)
    BY <1>6, <2>3, <2>5, <2>6, <2>7 DEF Laid, said, type
  <2> QED
    BY <2>5, <2>8 DEF object
<1> QED
  BY <1>2, <1>6, <1>7, <1>8 DEF new, said, type

\* The type of a finished structure is what accept_type would give for its name.
LEMMA ClosedAccepted ==
  ASSUME NEW object, NEW said, NEW known, NEW table, Laid(object, said, known),
         object.members # << >>,
         \A i \in DOMAIN table : IsStruct(table[i], object.name) => table[i] = object,
         NEW wider
  PROVE  Accepted(object.type, CType("struct", object.name, 0), TRUE, TRUE, table, wider)
<1>1. object.type.bytes >= 1
  BY StructSized
<1>2. /\ CType("struct", object.name, 0).kind = "struct"
      /\ CType("struct", object.name, 0).name = object.name
      /\ CType("struct", object.name, 0).level = 0
  BY DEF CType
<1> QED
  BY <1>1, <1>2 DEF Accepted, Laid

-----------------------------------------------------------------------------
(* Steps *)

\* DeclaredRight, of a variable and a state that are parameters.
LookupIn(kind, name, table) ==
  LET found == {i \in DOMAIN table : table[i].kind = kind /\ table[i].name = name}
  IN IF found = {} THEN NoObject ELSE table[Min(found)]

MeaningIn(spec, names) ==
  IF spec.base # "typedef" THEN CType(spec.base, spec.name, spec.level)
  ELSE LET type == names[spec.name].type
       IN [type EXCEPT !.level = @ + spec.level]

PlainTypeIn(spec, names) ==
  spec.base = "typedef" =>
    LET type == names[spec.name].type IN type.kind = "struct" => type.level = 0

RightIn(v, table, known, names) ==
  LET type == MeaningIn(v.spec, names)
      struct == LookupIn("struct", type.name, table)
      size == IF type.kind = "struct" THEN struct.type.bytes
              ELSE CSize([type EXCEPT !.level = 0], known)
  IN /\ v.type.type = IF type.kind = "struct" THEN "struct" ELSE "int"
     /\ v.type.ptr_level = type.level
     /\ type.kind = "struct" => v.type.struct_name = type.name
     /\ struct # NoObject => v.struct = struct
     /\ PlainTypeIn(v.spec, names) =>
          /\ v.type.bytes = IF type.level > 0 THEN 8 ELSE size
          /\ (type.level > 0 /\ (type.kind = "struct" => struct # NoObject)) =>
               v.type.ptr_value_bytes = size
     /\ PlainFlags(v.spec) =>
          /\ v.type.is_static = ("static" \in v.spec.flags)
          /\ v.type.is_extern = ("extern" \in v.spec.flags)
          /\ v.type.is_const = ("const" \in v.spec.flags)

\* The state as a parameter, before a step and after it.
LEMMA DeclaredIs ==
  /\ \A spec : Meaning(spec) = MeaningIn(spec, typedefsC)
  /\ \A spec : PlainType(spec) = PlainTypeIn(spec, typedefsC)
  /\ \A kind, name : Lookup(kind, name) = LookupIn(kind, name, objects)
  /\ DeclaredRight <=> (var # NoVar => RightIn(var, objects, structsC, typedefsC))
  /\ DeclaredRight' <=> (var' # NoVar => RightIn(var', objects', structsC', typedefsC'))
<1>1. /\ \A spec : Meaning(spec) = MeaningIn(spec, typedefsC)
      /\ \A spec : PlainType(spec) = PlainTypeIn(spec, typedefsC)
      /\ \A kind, name : Lookup(kind, name) = LookupIn(kind, name, objects)
  BY Zenon DEF Meaning, MeaningIn, Lookup, LookupIn, PlainType, PlainTypeIn
<1>2. DeclaredRight <=> (var # NoVar => RightIn(var, objects, structsC, typedefsC))
  BY Zenon DEF DeclaredRight, RightIn, Meaning, MeaningIn, Lookup, LookupIn, PlainType, PlainTypeIn
<1>3. DeclaredRight' <=> (var' # NoVar => RightIn(var', objects', structsC', typedefsC'))
  BY Zenon DEF DeclaredRight, RightIn, Meaning, MeaningIn, Lookup, LookupIn, PlainType, PlainTypeIn
<1> QED
  BY <1>1, <1>2, <1>3

\* The variable has the type that was accepted.
LEMMA AcceptedRight ==
  ASSUME latest \in TypeRecords, Tables(objects, structsC, typedefsC),
         AllStored(objects, structsC), NEW spec \in AllSpecs, Usable(spec), Complete(Meaning(spec)),
         ~spec.brackets, NEW v, v.spec = spec, v.type = AcceptType(spec).type, v.struct = AcceptType(spec).struct
  PROVE  RightIn(v, objects, structsC, typedefsC)
<1> DEFINE type == Meaning(spec)
           read == AcceptType(spec)
           struct == Lookup("struct", type.name)
<1>1. /\ Accepted(v.type, type, PlainType(spec), CompleteOf(spec), objects, structsC)
      /\ \A i \in DOMAIN objects :
           type.kind = "struct" /\ IsStruct(objects[i], type.name) => v.struct = objects[i]
      /\ PlainFlags(spec) =>
           /\ v.type.is_static = ("static" \in spec.flags)
           /\ v.type.is_extern = ("extern" \in spec.flags)
           /\ v.type.is_const = ("const" \in spec.flags)
  BY AcceptIs DEF AsFlagged
<1>2. type \in CTypes
  BY MeaningIs
<1>3. type.level \in Nat
  BY <1>2 DEF CTypes
<1>4. CompleteIn(type, structsC)
  BY DEF Complete, CompleteIn
<1>8. /\ MeaningIn(v.spec, typedefsC) = type
      /\ LookupIn("struct", type.name, objects) = struct
      /\ PlainTypeIn(v.spec, typedefsC) = PlainType(spec)
  BY DeclaredIs
<1> HIDE DEF type, struct
<1>5. CASE type.kind # "struct"
  <2>1. type.name \notin StructNames
    BY <1>2, <1>5 DEF CTypes
  <2>2. \A i \in DOMAIN objects : ~(objects[i].kind = "struct" /\ objects[i].name = type.name)
    BY <2>1 DEF Tables
  <2>3. struct = NoObject
    BY <2>2, LookupNone DEF struct
  <2>4. CSize([type EXCEPT !.level = 0], structsC) = BaseSize(type)
    <3>1. /\ [type EXCEPT !.level = 0].kind = type.kind
          /\ [type EXCEPT !.level = 0].level = 0
      BY <1>2 DEF CTypes
    <3> QED
      BY <1>5, <3>1 DEF CSize, BaseSize
  <2>5. /\ v.type.type = "int" /\ v.type.ptr_level = type.level
        /\ v.type.bytes = IF type.level > 0 THEN 8 ELSE BaseSize(type)
        /\ type.level > 0 => v.type.ptr_value_bytes = BaseSize(type)
    BY <1>1, <1>5 DEF Accepted
  <2> QED
    BY <1>1, <1>5, <1>8, <2>3, <2>4, <2>5 DEF RightIn
<1>6. CASE type.kind = "struct" /\ \E i \in DOMAIN objects : IsStruct(objects[i], type.name)
  <2>1. PICK i \in DOMAIN objects : IsStruct(objects[i], type.name)
    BY <1>6
  <2>2. struct = objects[i] /\ struct # NoObject
    BY <2>1, LookupFound DEF IsStruct, struct
  <2>3. /\ v.type.type = "struct" /\ v.type.ptr_level = type.level
        /\ v.type.struct_name = type.name
        /\ PlainType(spec) /\ type.level > 0 =>
             v.type.bytes = 8 /\ v.type.ptr_value_bytes = struct.type.bytes
        /\ type.level = 0 => v.type.bytes = struct.type.bytes
    BY <1>1, <1>6, <2>1, <2>2 DEF Accepted
  <2>4. v.struct = struct
    BY <1>1, <1>6, <2>1, <2>2
  <2> QED
    BY <1>1, <1>3, <1>6, <1>8, <2>2, <2>3, <2>4 DEF RightIn
<1>7. CASE type.kind = "struct" /\ ~\E i \in DOMAIN objects : IsStruct(objects[i], type.name)
  <2>1. struct = NoObject
    BY <1>7, LookupNone DEF IsStruct, struct
  <2>2. type.level > 0
    BY <1>3, <1>4, <1>7 DEF CompleteIn, ByValue, AllStored
  <2>3. /\ v.type.type = "struct" /\ v.type.ptr_level = type.level
        /\ v.type.struct_name = type.name
        /\ PlainType(spec) => v.type.bytes = 8
    BY <1>1, <1>7, <2>2 DEF Accepted
  <2> QED
    BY <1>1, <1>7, <1>8, <2>1, <2>2, <2>3 DEF RightIn
<1> QED
  BY <1>5, <1>6, <1>7

\* The types that are written are types.
LEMMA SpecsAre == ASSUME NEW spec \in Specs PROVE spec \in AllSpecs
BY TypesAssumption

\* The bounds are numbers.
LEMMA BoundsAre == MaxDecls \in Nat /\ MaxMembers \in Nat /\ MaxLevel \in Nat
BY TypesAssumption

\* A variable is declared.
LEMMA DeclareStep == ASSUME IInv, NEW spec \in Specs, DeclareVar(spec) PROVE IInv'
<1> DEFINE read == AcceptType(spec)
<1>1. /\ ~crashed /\ open = << >> /\ decls < MaxDecls /\ decls' = decls + 1
      /\ Usable(spec) /\ Complete(Meaning(spec)) /\ ~spec.brackets
      /\ latest' = read.type
      /\ var' = [spec |-> spec, type |-> read.type, struct |-> read.struct]
      /\ objects' = objects /\ open' = open /\ crashed' = crashed /\ refused' = refused
      /\ structsC' = structsC /\ typedefsC' = typedefsC
  BY DEF DeclareVar, Declaration, Running, Update
<1>2. /\ latest \in TypeRecords /\ Tables(objects, structsC, typedefsC)
      /\ AllStored(objects, structsC) /\ decls \in 0..MaxDecls
      /\ {crashed, refused} \subseteq BOOLEAN
  BY <1>1 DEF IInv
<1>3. spec \in AllSpecs
  BY SpecsAre
<1> DEFINE v == [spec |-> spec, type |-> read.type, struct |-> read.struct]
<1>4. RightIn(v, objects, structsC, typedefsC)
  BY <1>1, <1>2, <1>3, AcceptedRight
<1>5. read.type \in TypeRecords
  <2>1. Accepted(read.type, Meaning(spec), PlainType(spec), CompleteOf(spec), objects, structsC)
    BY <1>1, <1>2, <1>3, AcceptIs
  <2> QED
    BY <2>1 DEF Accepted
<1>6. DeclaredRight'
  <2> HIDE DEF v, read
  <2>1. var' = v
    BY <1>1 DEF v
  <2> QED
    BY <1>1, <1>4, <2>1, DeclaredIs
<1>7. decls' \in 0..MaxDecls
  BY <1>1, <1>2, BoundsAre
<1> QED
  BY <1>1, <1>2, <1>5, <1>6, <1>7 DEF IInv, OpensIn

\* A typedef is made of a type that has a name, or of a scalar.
LEMMA TypedefStep ==
  ASSUME IInv, NEW spec \in Specs, NEW name \in TypedefNames, ParseTypedef(name, spec)
  PROVE  IInv'
<1> DEFINE type == AcceptType(spec).type
           said == TypedefOfC(spec)
<1>1. /\ ~crashed /\ open = << >> /\ decls < MaxDecls /\ decls' = decls + 1
      /\ name \notin DOMAIN typedefsC /\ Usable(spec) /\ spec.flags = {} /\ ~spec.brackets
      /\ latest' = type /\ objects' = Append(objects, TypedefObject(name, type))
      /\ structsC' = structsC /\ typedefsC' = Known(typedefsC, name, said)
      /\ var' = NoVar /\ open' = open /\ crashed' = crashed /\ refused' = refused
  BY DEF ParseTypedef, Declaration, Running, Update
<1>2. /\ latest \in TypeRecords /\ Tables(objects, structsC, typedefsC)
      /\ AllStored(objects, structsC) /\ decls \in 0..MaxDecls
      /\ {crashed, refused} \subseteq BOOLEAN
  BY <1>1 DEF IInv
<1>3. spec \in AllSpecs
  BY SpecsAre
<1>4. Meaning(spec) \in CTypes /\ CompleteOf(spec) \in BOOLEAN
  BY <1>1, <1>2, <1>3, MeaningIs
<1>5. /\ said.type = Meaning(spec)
      /\ said.complete = IF spec.base = "typedef" THEN typedefsC[spec.name].complete
                         ELSE Meaning(spec).kind = "struct" => Meaning(spec).name \in DOMAIN structsC
  BY <1>1 DEF TypedefOfC
<1>6. said.complete \in BOOLEAN
  <2>1. CASE spec.base # "typedef"
    BY <1>5, <2>1
  <2>2. CASE spec.base = "typedef"
    <3>1. spec.name \in DOMAIN typedefsC
      BY <1>1, <2>2 DEF Usable
    <3>2. Named(Lookup("typedef", spec.name).type, typedefsC[spec.name], objects, structsC)
      BY <1>2, <3>1, TypedefFound
    <3> QED
      BY <1>5, <2>2, <3>2 DEF Named
  <2> QED
    BY <2>1, <2>2
<1>7. said.complete => CompleteOf(spec)
  BY <1>5 DEF CompleteOf
<1>8. said.complete /\ said.type.kind = "struct" => said.type.name \in DOMAIN structsC
  <2>1. CASE spec.base # "typedef"
    BY <1>5, <2>1
  <2>2. CASE spec.base = "typedef"
    <3>1. spec.name \in DOMAIN typedefsC
      BY <1>1, <2>2 DEF Usable
    <3>2. Named(Lookup("typedef", spec.name).type, typedefsC[spec.name], objects, structsC)
      BY <1>2, <3>1, TypedefFound
    <3>3. typedefsC[spec.name].type \in CTypes
      BY <3>2 DEF Named
    <3>4. /\ Meaning(spec).kind = typedefsC[spec.name].type.kind
          /\ Meaning(spec).name = typedefsC[spec.name].type.name
      BY <2>2, <3>3 DEF Meaning, CTypes
    <3> QED
      BY <1>5, <2>2, <3>2, <3>4 DEF Named
  <2> QED
    BY <2>1, <2>2
<1>9. /\ Accepted(type, Meaning(spec), PlainType(spec), CompleteOf(spec), objects, structsC)
      /\ PlainFlags(spec) => AsFlagged(type, spec.flags)
  BY <1>1, <1>2, <1>3, AcceptIs
<1>10. Flagless(type)
  <2>1. /\ PlainFlags(spec)
        /\ "static" \notin spec.flags /\ "extern" \notin spec.flags /\ "const" \notin spec.flags
    BY <1>1 DEF PlainFlags
  <2> QED
    BY <1>9, <2>1 DEF AsFlagged, Flagless
<1> HIDE DEF type, said
<1>11. Named(type, said, objects, structsC)
  BY <1>4, <1>5, <1>6, <1>7, <1>8, <1>9, <1>10, AcceptedNamed
<1>12. /\ Tables(objects', structsC', typedefsC')
       /\ AllStored(objects', structsC')
  BY <1>1, <1>2, <1>11, TypedefAdded
<1>13. decls' \in 0..MaxDecls
  BY <1>1, <1>2, BoundsAre
<1>14. type \in TypeRecords
  BY <1>9 DEF Accepted
<1>15. OpensIn(open', structsC')
  BY <1>1, NoneOpen
<1>16. DeclaredRight'
  BY <1>1, DeclaredIs
<1> QED
  BY <1>1, <1>2, <1>12, <1>13, <1>14, <1>15, <1>16 DEF IInv

\* A structure begins.
LEMMA OpenStep == ASSUME IInv, NEW name \in StructNames, OpenStruct(name) PROVE IInv'
<1> DEFINE new == Opened(name)
<1>1. /\ ~crashed /\ name \notin DOMAIN structsC \union {open[i].name : i \in DOMAIN open}
      /\ (decls < MaxDecls /\ decls' = decls + 1) \/ decls' = decls
      /\ latest' = Flagged({}) /\ open' = Append(open, new) /\ var' = NoVar
      /\ objects' = objects /\ crashed' = crashed /\ refused' = refused
      /\ structsC' = structsC /\ typedefsC' = typedefsC
  BY DEF OpenStruct, Running
<1>2. /\ latest \in TypeRecords /\ Tables(objects, structsC, typedefsC)
      /\ AllStored(objects, structsC) /\ decls \in 0..MaxDecls
      /\ {crashed, refused} \subseteq BOOLEAN
      /\ OpensIn(open, structsC)
  BY <1>1 DEF IInv
<1>3. new \in Opens /\ Laid(new, new.said, structsC) /\ new.name = name
  BY <1>2, OpenedIs
<1> HIDE DEF new
<1>4. name \notin DOMAIN structsC /\ \A i \in DOMAIN open : open[i].name # name
  BY <1>1
<1>5. OpensIn(open', structsC')
  BY <1>1, <1>2, <1>3, <1>4, OpenAppended
<1>6. decls' \in 0..MaxDecls
  BY <1>1, <1>2, BoundsAre
<1>7. latest' \in TypeRecords
  BY <1>1, <1>2, FlaggedIs
<1>8. DeclaredRight'
  BY <1>1, DeclaredIs
<1> QED
  BY <1>1, <1>2, <1>5, <1>6, <1>7, <1>8 DEF IInv

\* A member is read into the innermost structure.
LEMMA MemberStep == ASSUME IInv, NEW spec \in Specs, StructMember(spec) PROVE IInv'
<1> DEFINE type == AcceptType(spec).type
           new == WithMember(Last(open), type, spec, objects, structsC)
<1>1. /\ ~crashed /\ open # << >> /\ Usable(spec) /\ Complete(Meaning(spec)) /\ ~spec.brackets
      /\ latest' = type /\ open' = ReplaceAt(open, Len(open), new)
      /\ objects' = objects /\ crashed' = crashed /\ refused' = refused /\ var' = var
      /\ structsC' = structsC /\ typedefsC' = typedefsC /\ decls' = decls
  BY DEF StructMember, Running, Update
<1>2. /\ latest \in TypeRecords /\ Tables(objects, structsC, typedefsC)
      /\ AllStored(objects, structsC) /\ decls \in 0..MaxDecls
      /\ {crashed, refused} \subseteq BOOLEAN
      /\ OpensIn(open, structsC) /\ DeclaredRight
  BY <1>1 DEF IInv
<1>3. spec \in AllSpecs
  BY SpecsAre
<1>4. Accepted(type, Meaning(spec), PlainType(spec), CompleteOf(spec), objects, structsC)
  BY <1>1, <1>2, <1>3, AcceptIs
<1>5. /\ Meaning(spec) \in CTypes /\ CompleteOf(spec) \in BOOLEAN /\ PlainType(spec) \in BOOLEAN
      /\ CompleteIn(Meaning(spec), structsC)
  BY <1>1, <1>2, <1>3, MeaningIs DEF Complete, CompleteIn
<1>6. /\ Last(open) \in Opens /\ Laid(Last(open), Last(open).said, structsC)
  <2>1. open \in Seq(Opens)
    BY <1>2 DEF OpensIn
  <2>2. Len(open) \in DOMAIN open
    BY <1>1, <2>1
  <2> QED
    BY <1>2, <2>1, <2>2 DEF OpensIn, Last
<1> HIDE DEF type
<1>7. new \in Opens /\ Laid(new, new.said, structsC) /\ new.name = Last(open).name
  BY <1>2, <1>4, <1>5, <1>6, MemberLaid
<1> HIDE DEF new
<1>8. OpensIn(open', structsC')
  BY <1>1, <1>2, <1>7, OpenReplaced
<1>9. DeclaredRight'
  BY <1>1, <1>2, DeclaredIs
<1>10. type \in TypeRecords
  BY <1>4 DEF Accepted
<1> QED
  BY <1>1, <1>2, <1>8, <1>9, <1>10 DEF IInv

\* The closing brace of a structure that holds something to align by.
LEMMA CloseGood ==
  ASSUME IInv, NEW name \in TypedefNames \union {NoName}, NEW level \in 0..MaxLevel,
         CloseStruct(name, level), Last(open).type.widest # 0
  PROVE  IInv'
<1> DEFINE struct == Last(open)
           object == Closed(struct)
           said == Described(struct)
           type == Pointers(object.type, level)
           spec == [base |-> "struct", name |-> struct.name, level |-> level,
                    brackets |-> FALSE, flags |-> {}]
           table == Append(objects, object)
           names == TypedefOfC(spec)
           known == Known(structsC, struct.name, said)
           front == Front(open)
           new == WithMember(Last(front), type, spec, table, known)
<1>1. /\ ~crashed /\ open # << >> /\ struct.members # << >>
      /\ Len(open) > 1 => name = NoName
      /\ name = NoName \/ name \notin DOMAIN typedefsC
      /\ structsC' = known
      /\ latest' = type /\ crashed' = crashed /\ refused' = refused /\ decls' = decls
      /\ var' = NoVar
      /\ objects' = IF name = NoName THEN table ELSE Append(table, TypedefObject(name, type))
      /\ typedefsC' = IF name = NoName THEN typedefsC ELSE Known(typedefsC, name, names)
      /\ open' = IF Len(open) = 1 THEN << >>
                 ELSE ReplaceAt(front, Len(open) - 1,
                                WithMember(Last(front), type, spec, table, structsC'))
  BY DEF CloseStruct, Running
<1>2. /\ latest \in TypeRecords /\ Tables(objects, structsC, typedefsC)
      /\ AllStored(objects, structsC) /\ decls \in 0..MaxDecls
      /\ {crashed, refused} \subseteq BOOLEAN
      /\ OpensIn(open, structsC)
  BY <1>1 DEF IInv
<1>3. open \in Seq(Opens)
  BY <1>2 DEF OpensIn
<1>4. Len(open) \in DOMAIN open /\ Len(open) \in Nat /\ Len(open) >= 1
  BY <1>1, <1>3
<1>5. /\ struct \in Opens /\ Laid(struct, struct.said, structsC)
      /\ struct.name \notin DOMAIN structsC
  BY <1>2, <1>3, <1>4 DEF OpensIn, Last
<1>6. /\ said \in Sayings /\ object \in Objects
      /\ object.kind = "struct" /\ object.name = struct.name
      /\ object.members = struct.members /\ Laid(object, said, structsC)
  BY <1>1, <1>5, ClosedIs
<1>7. level \in Nat
  BY BoundsAre
<1> HIDE DEF said, object, front
<1>8. Tables(table, known, typedefsC) /\ AllStored(table, known)
  <2>1. /\ Tables(table, Known(structsC, object.name, said), typedefsC)
        /\ AllStored(objects, structsC) => AllStored(table, Known(structsC, object.name, said))
    BY <1>1, <1>2, <1>5, <1>6, StructAdded
  <2> QED
    BY <1>2, <1>6, <2>1
<1>9. struct.name \in DOMAIN known
  BY DEF Known
<1> DEFINE base == CType("struct", struct.name, 0)
<1>10. Accepted(object.type, base, TRUE, TRUE, table, known)
  <2>1. objects \in Seq(Objects)
    BY <1>2 DEF Tables
  <2>2. \A i \in DOMAIN objects : objects[i].kind = "struct" => objects[i].name \in DOMAIN structsC
    BY <1>2 DEF Tables
  <2>3. \A i \in DOMAIN table : IsStruct(table[i], struct.name) => table[i] = object
    BY <1>5, <1>6, <2>1, <2>2, TableAppended DEF IsStruct
  <2>4. Accepted(object.type, CType("struct", object.name, 0), TRUE, TRUE, table, known)
    BY <1>1, <1>6, <2>3, ClosedAccepted
  <2> QED
    BY <1>6, <2>4
<1>11. struct.name \in StructNames
  BY <1>5 DEF Opens
<1>12. base \in CTypes /\ base.level = 0
  BY <1>11 DEF CType, CTypes
<1>13. Meaning(spec) = [base EXCEPT !.level = @ + level]
  BY <1>7 DEF Meaning, CType
<1>14. /\ Meaning(spec) \in CTypes
       /\ Meaning(spec).kind = "struct" /\ Meaning(spec).name = struct.name
  BY <1>7, <1>11 DEF Meaning, CType, CTypes
<1>15. /\ PlainType(spec) = TRUE /\ CompleteOf(spec) = TRUE
  BY DEF PlainType, CompleteOf
<1> HIDE DEF base, known, table
<1>16. Accepted(type, Meaning(spec), TRUE, TRUE, table, known)
  <2>1. Accepted(type, [base EXCEPT !.level = @ + level], TRUE, TRUE, table, known)
    BY <1>7, <1>10, <1>12, PointersAccepted
  <2> QED
    BY <1>13, <2>1
<1>17. type \in TypeRecords /\ Flagless(type)
  <2>1. object.type \in TypeRecords /\ Flagless(object.type)
    BY <1>6 DEF Laid
  <2>2. SameFlags(type, object.type)
    BY <2>1 DEF Pointers, TypeRecords, SameFlags
  <2> QED
    BY <1>16, <2>1, <2>2 DEF Accepted, SameFlags, Flagless
<1>18. CompleteIn(Meaning(spec), known)
  BY <1>9, <1>14 DEF CompleteIn
<1> HIDE DEF type, spec
<1>19. Tables(objects', structsC', typedefsC') /\ AllStored(objects', structsC')
  <2>1. CASE name = NoName
    BY <1>1, <1>8, <2>1
  <2>2. CASE name # NoName
    <3>1. name \in TypedefNames /\ name \notin DOMAIN typedefsC
      BY <1>1, <2>2
    <3>2. /\ names.type = Meaning(spec) /\ names.complete \in BOOLEAN
      <4>1. /\ names.type = Meaning(spec)
            /\ names.complete = (Meaning(spec).kind = "struct" => Meaning(spec).name \in DOMAIN structsC')
        BY DEF TypedefOfC, spec
      <4> QED
        BY <4>1
    <3> HIDE DEF names
    <3>3. Named(type, names, table, known)
      BY <1>9, <1>14, <1>16, <1>17, <3>2, AcceptedNamed
    <3>4. /\ Tables(Append(table, TypedefObject(name, type)), known, Known(typedefsC, name, names))
          /\ AllStored(Append(table, TypedefObject(name, type)), known)
      BY <1>8, <3>1, <3>3, TypedefAdded
    <3> QED
      BY <1>1, <2>2, <3>4
  <2> QED
    BY <2>1, <2>2
<1>20. OpensIn(open', structsC')
  <2>1. CASE Len(open) = 1
    BY <1>1, <2>1, NoneOpen
  <2>2. CASE Len(open) # 1
    <3>1. OpensIn(front, known)
      BY <1>1, <1>2, OpenClosed DEF front, known
    <3>2. front \in Seq(Opens) /\ Len(front) = Len(open) - 1
      BY <1>1, <1>3, FrontIs DEF front
    <3>3. Len(front) \in DOMAIN front /\ front # << >>
      BY <1>4, <2>2, <3>2
    <3>4. Last(front) \in Opens /\ Laid(Last(front), Last(front).said, known)
      BY <3>1, <3>2, <3>3 DEF OpensIn, Last
    <3>7. /\ PlainType(spec) \in BOOLEAN /\ CompleteOf(spec) \in BOOLEAN
          /\ Accepted(type, Meaning(spec), PlainType(spec), CompleteOf(spec), table, known)
      BY <1>15, <1>16
    <3>5. new \in Opens /\ Laid(new, new.said, known) /\ new.name = Last(front).name
      BY <1>8, <1>14, <1>18, <3>4, <3>7, MemberLaid
    <3> HIDE DEF new
    <3>6. OpensIn(ReplaceAt(front, Len(front), new), known)
      BY <3>1, <3>3, <3>5, OpenReplaced
    <3> QED
      BY <1>1, <2>2, <3>2, <3>6 DEF new
  <2> QED
    BY <2>1, <2>2
<1>21. DeclaredRight'
  BY <1>1, DeclaredIs
<1> QED
  BY <1>1, <1>2, <1>17, <1>19, <1>20, <1>21 DEF IInv

\* A structure that holds nothing to align by stops the compiler, and is not plain.
LEMMA CloseCrash ==
  ASSUME IInv, NEW name, NEW level, CloseStruct(name, level), Last(open).type.widest = 0
  PROVE  IInv'
<1> DEFINE struct == Last(open)
           said == Described(struct)
           known == Known(structsC, struct.name, said)
<1>1. /\ ~crashed /\ open # << >> /\ struct.members # << >>
      /\ structsC' = known /\ crashed' = TRUE /\ refused' = refused /\ latest' = latest
      /\ decls' = decls
      /\ objects' = objects /\ open' = open /\ typedefsC' = typedefsC /\ var' = NoVar
  BY DEF CloseStruct, Running
<1>2. /\ latest \in TypeRecords /\ Tables(objects, structsC, typedefsC)
      /\ decls \in 0..MaxDecls /\ OpensIn(open, structsC) /\ refused \in BOOLEAN
  BY <1>1 DEF IInv
<1>3. open \in Seq(Opens)
  BY <1>2 DEF OpensIn
<1>4. Len(open) \in DOMAIN open
  BY <1>1, <1>3
<1>5. /\ struct \in Opens /\ Laid(struct, struct.said, structsC)
      /\ struct.name \notin DOMAIN structsC
  BY <1>2, <1>3, <1>4 DEF OpensIn, Last
<1>6. said \in Sayings /\ ~said.plain
  BY <1>1, <1>5, ClosedIs
<1>7. struct.name \in StructNames
  BY <1>5 DEF Opens
<1> HIDE DEF said, struct
<1>8. /\ DOMAIN known = DOMAIN structsC \union {struct.name} /\ known[struct.name] = said
      /\ \A other \in DOMAIN structsC : known[other] = structsC[other]
  BY <1>5 DEF Known
<1>9. Tables(objects, known, typedefsC)
  <2>1. \A i \in DOMAIN objects : objects[i].kind = "struct" =>
          /\ objects[i].name \in DOMAIN structsC
          /\ Laid(objects[i], structsC[objects[i].name], known)
    <3> SUFFICES ASSUME NEW i \in DOMAIN objects, objects[i].kind = "struct"
                 PROVE  /\ objects[i].name \in DOMAIN structsC
                        /\ Laid(objects[i], structsC[objects[i].name], known)
      OBVIOUS
    <3>1. /\ objects[i].name \in DOMAIN structsC
          /\ Laid(objects[i], structsC[objects[i].name], structsC)
      BY <1>2 DEF Tables
    <3> QED
      BY <1>5, <3>1, LaidExtended
  <2> HIDE DEF known
  <2>2. \A its, to : Named(its, to, objects, structsC) => Named(its, to, objects, known)
    BY <1>8 DEF Named
  <2>3. /\ DOMAIN known \subseteq StructNames /\ \A other \in DOMAIN known : known[other] \in Sayings
    BY <1>2, <1>6, <1>7, <1>8 DEF Tables
  <2> QED
    BY <1>2, <1>8, <2>1, <2>2, <2>3 DEF Tables
<1>10. \E other \in DOMAIN known : ~known[other].plain
  BY <1>6, <1>8
<1>11. DeclaredRight'
  BY <1>1, DeclaredIs
<1> QED
  BY <1>1, <1>2, <1>9, <1>10, <1>11 DEF IInv

\* Empty brackets are refused: the type is read, and the tables stay.
LEMMA RefuseStep == ASSUME IInv, NEW spec \in Specs, RefuseBrackets(spec) PROVE IInv'
<1>1. /\ ~crashed /\ Usable(spec)
      /\ latest' = AcceptType(spec).type /\ refused' = TRUE /\ var' = NoVar
      /\ objects' = objects /\ open' = open /\ crashed' = crashed /\ decls' = decls
      /\ structsC' = structsC /\ typedefsC' = typedefsC
  BY DEF RefuseBrackets, Running, Update
<1>2. /\ latest \in TypeRecords /\ Tables(objects, structsC, typedefsC)
      /\ AllStored(objects, structsC) /\ decls \in 0..MaxDecls /\ OpensIn(open, structsC)
  BY <1>1 DEF IInv
<1>3. latest' \in TypeRecords
  BY <1>1, <1>2, SpecsAre, AcceptTyped
<1>4. DeclaredRight'
  BY <1>1, DeclaredIs
<1> QED
  BY <1>1, <1>2, <1>3, <1>4 DEF IInv

-----------------------------------------------------------------------------
(* The theorems *)

\* Nothing happens.
LEMMA StutterStep == ASSUME IInv, UNCHANGED vars PROVE IInv'
<1>1. /\ latest' = latest /\ objects' = objects /\ open' = open
      /\ crashed' = crashed /\ refused' = refused
      /\ var' = var /\ structsC' = structsC /\ typedefsC' = typedefsC /\ decls' = decls
  BY DEF vars, parser
<1>2. DeclaredRight'
  BY <1>1, DeclaredIs DEF IInv
<1> QED
  BY <1>1, <1>2 DEF IInv

\* Before the first declaration the tables are empty.
LEMMA Starts == ASSUME Init PROVE IInv
<1>1. /\ latest = NoType /\ objects = << >> /\ open = << >> /\ var = NoVar
      /\ crashed = FALSE /\ refused = FALSE
      /\ structsC = << >> /\ typedefsC = << >> /\ decls = 0
  BY DEF Init
<1>2. latest \in TypeRecords
  BY <1>1 DEF NoType, TypeRecords, NoName
<1>3. Tables(objects, structsC, typedefsC)
  BY <1>1 DEF Tables
<1>4. AllStored(objects, structsC) /\ OpensIn(open, structsC)
  BY <1>1, NoneOpen DEF AllStored
<1>5. decls \in 0..MaxDecls
  BY <1>1, BoundsAre
<1>6. DeclaredRight
  BY <1>1, DeclaredIs
<1> QED
  BY <1>1, <1>2, <1>3, <1>4, <1>5, <1>6 DEF IInv

\* Every action keeps the invariant.
LEMMA Steps == ASSUME IInv, [Next]_vars PROVE IInv'
<1>1. ASSUME NEW spec \in Specs,
             DeclareVar(spec) \/ StructMember(spec) \/ RefuseBrackets(spec)
      PROVE  IInv'
  BY <1>1, DeclareStep, MemberStep, RefuseStep
<1>2. ASSUME NEW spec \in Specs, NEW name \in TypedefNames, ParseTypedef(name, spec) PROVE IInv'
  BY <1>2, TypedefStep
<1>3. ASSUME NEW name \in StructNames, OpenStruct(name) PROVE IInv'
  BY <1>3, OpenStep
<1>4. ASSUME NEW name \in TypedefNames \union {NoName}, NEW level \in 0..MaxLevel,
             CloseStruct(name, level)
      PROVE  IInv'
  BY <1>4, CloseGood, CloseCrash
<1>5. CASE UNCHANGED vars
  BY <1>5, StutterStep
<1> QED
  BY <1>1, <1>2, <1>3, <1>4, <1>5 DEF Next

(***************************************************************************)
(* The tables agree with what C says of every name in them, and so do the  *)
(* structures that are still being read, after any declarations.           *)
(***************************************************************************)
THEOREM Invariance == Spec => []IInv
<1>1. Init => IInv
  BY Starts
<1>2. IInv /\ [Next]_vars => IInv'
  BY Steps
<1> QED
  BY <1>1, <1>2, PTL DEF Spec

\* latest_parsed_var_type and the object table hold types that the parser can have made.
THEOREM Typing == Spec => []TypeOK
<1>1. ASSUME IInv PROVE TypeOK
  <2>1. \A type \in TypeRecords : IsType(type)
    BY DEF TypeRecords, IsType
  <2>2. latest \in TypeRecords /\ {crashed, refused} \subseteq BOOLEAN /\ decls \in 0..MaxDecls
        /\ Tables(objects, structsC, typedefsC)
    BY <1>1 DEF IInv
  <2>3. ASSUME NEW i \in DOMAIN objects
        PROVE  IsObject(objects[i]) /\ (objects[i].kind = "struct") = (objects[i].members # << >>)
    <3>1. objects[i].kind \in {"struct", "typedef"} /\ objects[i].type \in TypeRecords
      <4>1. objects \in Seq(Objects)
        BY <2>2 DEF Tables
      <4>2. objects[i] \in Objects
        BY <4>1
      <4> QED
        BY <4>2 DEF Objects
    <3>2. CASE objects[i].kind = "struct"
      <4>1. objects[i].name \in StructNames /\ objects[i].members # << >>
        BY <2>2, <3>2 DEF Tables
      <4> QED
        BY <2>1, <3>1, <3>2, <4>1 DEF IsObject
    <3>3. CASE objects[i].kind = "typedef"
      <4>1. objects[i].name \in TypedefNames /\ objects[i].members = << >>
        BY <2>2, <3>3 DEF Tables
      <4> QED
        BY <2>1, <3>1, <3>3, <4>1 DEF IsObject
    <3> QED
      BY <3>1, <3>2, <3>3
  <2> QED
    BY <2>1, <2>2, <2>3 DEF TypeOK
<1> QED
  BY <1>1, Invariance, PTL

(***************************************************************************)
(* parse_struct lays the members of a structure out one behind the other,  *)
(* inside the structure, and where the ABI wants them unless the structure *)
(* holds what the compiler is known to align by something else.            *)
(***************************************************************************)
THEOREM Layout == Spec => []LayoutRight
<1>1. ASSUME IInv PROVE LayoutRight
  <2>1. /\ Tables(objects, structsC, typedefsC)
        /\ crashed => \E name \in DOMAIN structsC : ~structsC[name].plain
    BY <1>1 DEF IInv
  <2>2. ASSUME NEW i \in DOMAIN objects, objects[i].kind = "struct"
        PROVE  LET struct == structsC[objects[i].name]
                   members == objects[i].members
               IN /\ \A j \in 1..(Len(members) - 1) :
                       members[j].offset + members[j].size <= members[j + 1].offset
                  /\ Last(members).offset + Last(members).size <= objects[i].type.bytes
                  /\ struct.plain =>
                    /\ struct.offsets = [j \in DOMAIN members |-> members[j].offset]
                    /\ struct.size = objects[i].type.bytes
    <3>1. /\ Laid(objects[i], structsC[objects[i].name], structsC)
          /\ objects[i].members # << >>
      BY <2>1, <2>2 DEF Tables
    <3> QED
      BY <3>1 DEF Laid, Placed, AsSaid
  <2>3. \A object \in StructObjects :
          \E i \in DOMAIN objects : objects[i].kind = "struct" /\ object = objects[i]
    BY DEF StructObjects
  <2> QED
    BY <2>1, <2>2, <2>3 DEF LayoutRight
<1> QED
  BY <1>1, Invariance, PTL

(***************************************************************************)
(* accept_type gives a variable the type that is written, whatever the     *)
(* declarations before left in latest_parsed_var_type and latest_struct.   *)
(***************************************************************************)
THEOREM Declared == Spec => []DeclaredRight
<1>1. IInv => DeclaredRight
  BY DEF IInv
<1> QED
  BY <1>1, Invariance, PTL
=============================================================================

---------------------------- MODULE MCSymbolTable ----------------------------
(***************************************************************************)
(* Types for model checking SymbolTable: a char, a long, a struct of       *)
(* 16 bytes that starts with an int, and a pointer to a struct whose    *)
(* first member is a nested struct of 12 bytes.                            *)
(***************************************************************************)
EXTENDS SymbolTable, TLC

Char  == [kind |-> "scalar", bytes |-> 1, unit |-> 1]
Long  == [kind |-> "scalar", bytes |-> 8, unit |-> 8]
Pair  == [kind |-> "struct", bytes |-> 16, unit |-> 4]
Outer == [kind |-> "structptr", bytes |-> 8, unit |-> 12]

MCTypes == {Char, Long, Pair, Outer}

MCArrayTypes == {Char, Long}

Symmetry == Permutations(Names)

=============================================================================

------------------------------- MODULE MCTypes --------------------------------
EXTENDS Types, TLC

CONSTANTS A, B, T, U

MCScalars == [char |-> 1]

Written(base, names, levels, flags) ==
  [base : {base}, name : names, level : levels, brackets : {FALSE}, flags : {flags}]

\* Structures, typedefs of them and of each other, and what points to them.
MCSpecs ==
  Written("char", {"none"}, {0}, {}) \union Written("enum", {"none"}, {0}, {})
  \union Written("char", {"none"}, {1}, {"extern", "const"})
  \union Written("struct", StructNames, {0}, {})
  \union Written("struct", StructNames, {1}, {"static"})
  \union Written("typedef", TypedefNames, 0..1, {})
  \union Written("typedef", TypedefNames, {0}, {"static"})
  \union {[spec EXCEPT !.brackets = TRUE] : spec \in Written("char", {"none"}, {1}, {})}

Symmetry == Permutations(StructNames) \union Permutations(TypedefNames)

=============================================================================

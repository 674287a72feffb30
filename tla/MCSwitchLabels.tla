---------------------------- MODULE MCSwitchLabels ----------------------------
EXTENDS SwitchLabels, TLC

Symmetry == Permutations(Values)

=============================================================================

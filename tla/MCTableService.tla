--------------------------- MODULE MCTableService ---------------------------
EXTENDS TableServiceSlots, TLC

Symmetry == Permutations(Devices) \cup Permutations(Workers) \cup Permutations(Keys)
=============================================================================

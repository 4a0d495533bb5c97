----------------------------- MODULE MCDocument -----------------------------
EXTENDS Document, TLC
Symmetry == Permutations(Chars) \cup Permutations(Dirs)
=============================================================================

--------------------------- MODULE MCUserManager ---------------------------
EXTENDS UserManager, TLC

Symmetry == Permutations(Sessions) \cup Permutations(Users)
=============================================================================

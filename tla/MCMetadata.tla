----------------------------- MODULE MCMetadata -----------------------------
(* Metadata for TLC: the name server's thread and one client's. *)
EXTENDS Metadata, TLC

CONSTANTS client

Symmetry == Permutations(Files) \cup Permutations(Users)

=============================================================================

--------------------------- MODULE MCStorageSwitch ---------------------------
(* A small instance of StorageSwitch. *)
EXTENDS StorageSwitch

Symmetry == Permutations(Conns) \cup Permutations(Transfers)

=============================================================================

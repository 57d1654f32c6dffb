--------------------------- MODULE MCConfigLoading ---------------------------
(***************************************************************************)
(* A small instance of ConfigLoading: the first reference is a file of its *)
(* own, the second one names a shared file with $ref.                      *)
(***************************************************************************)
EXTENDS ConfigLoading, TLC

CONSTANTS l1, l2, f1, f2, shared

MCReads == << <<f1>>, <<f2, shared>> >>
Symmetric == Permutations(Loader) \cup Permutations(Version)
=============================================================================

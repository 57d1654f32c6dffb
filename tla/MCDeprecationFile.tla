-------------------------- MODULE MCDeprecationFile --------------------------
(***************************************************************************)
(* A small instance of DeprecationFile: u1 and u2 are one deletion that is *)
(* delivered twice, u3 removes the same file from a second target and      *)
(* another file with it, u4 has nothing to record.                         *)
(***************************************************************************)
EXTENDS DeprecationFile, TLC

CONSTANTS u1, u2, u3, u4, x, y, z, a, b

Of(name, target) == [name |-> name, target |-> target]

MCDeprecate ==
  (u1 :> {Of(x, a)}) @@ (u2 :> {Of(x, a)}) @@ (u3 :> {Of(x, b), Of(y, a)})
  @@ (u4 :> {})

MCInitialRows == <<[entry |-> Of(z, a), deleted_on |-> Earlier]>>
=============================================================================

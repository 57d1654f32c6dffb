---------------------------- MODULE MCTargetWrite ----------------------------
(***************************************************************************)
(* Small instances of TargetWrite: u1 is left for review, u2 is merged at  *)
(* once, u3 is committed directly.  u1 and u2 copy the same file with the  *)
(* same content, u3 writes to it what others write.                        *)
(***************************************************************************)
EXTENDS TargetWrite, TLC

CONSTANTS u1, u2, u3, x, old, new

MCFiles == [u \in UploadID |-> {x}]
MCContent == [u \in UploadID |-> IF u = u3 THEN Theirs ELSE new]
MCStrategy == [u \in UploadID |-> IF u = u3 THEN "direct" ELSE "pull_request"]
MCAutoMerge == [u \in UploadID |-> u = u2]
MCInitialTree == [p \in Path |-> old]
=============================================================================

---------------------------- MODULE MCSharedBatch ----------------------------
(***************************************************************************)
(* A small instance of SharedBatch: the fourth file of the first delivery  *)
(* is the first one that finds spare capacity; the other one queues one.   *)
(***************************************************************************)
EXTENDS SharedBatch

CONSTANTS d1, d2

Counts == [d \in Delivery |-> IF d = d1 THEN 4 ELSE 1]
Wishes == [d \in Delivery |-> d = d1]
=============================================================================

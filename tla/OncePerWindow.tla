---------------------------- MODULE OncePerWindow ----------------------------
(***************************************************************************)
(* What webhook deduplication promises: after a delivery ID is let         *)
(* through, the same ID is turned away until a full window has passed, and *)
(* being turned away never lengthens the wait.  Nothing is said of how the *)
(* IDs are remembered, nor of when they are forgotten.                     *)
(***************************************************************************)
EXTENDS Integers

CONSTANTS DeliveryID, \* the values of the X-GitHub-Delivery header
          Window      \* length of the deduplication window

VARIABLES since,   \* since[id]: time since id was let through, at most Window
          verdict  \* the answer to the latest delivery

vars == <<since, verdict>>

Init == /\ since = [id \in DeliveryID |-> Window]
        /\ verdict = [none |-> TRUE]

LetThrough(id) ==
  /\ since[id] = Window
  /\ since' = [since EXCEPT ![id] = 0]
  /\ verdict' = [id |-> id, new |-> TRUE]

TurnAway(id) ==
  /\ since[id] < Window
  /\ verdict' = [id |-> id, new |-> FALSE]
  /\ UNCHANGED since

TimePasses ==
  /\ since' = [id \in DeliveryID |->
                 IF since[id] < Window THEN since[id] + 1 ELSE Window]
  /\ UNCHANGED verdict

Next == \/ \E id \in DeliveryID : LetThrough(id) \/ TurnAway(id)
        \/ TimePasses

Spec == Init /\ [][Next]_vars
=============================================================================

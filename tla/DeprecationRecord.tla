--------------------------- MODULE DeprecationRecord ---------------------------
(***************************************************************************)
(* What a deprecation file is meant to be: a list to which an update adds  *)
(* its entries at one instant, or does not add any.  There is no time      *)
(* between reading and writing, so no update works on rows that others     *)
(* have changed since.  That an update may end without recording is not    *)
(* excused here; DeprecationFile says for which reasons it does.           *)
(***************************************************************************)
EXTENDS Sequences

CONSTANTS
  Update,
  Deprecate,   \* Deprecate[u]: the entries u records
  InitialRows

VARIABLES
  file, \* its state and its rows
  open  \* the updates that have not ended

vars == <<file, open>>

Entries(rows) == {rows[i].entry : i \in DOMAIN rows}

OncePerEntry(rows) == \A i, j \in DOMAIN rows : rows[i].entry = rows[j].entry => i = j

Init ==
  /\ file \in {[state |-> "missing", rows |-> <<>>], [state |-> "present", rows |-> InitialRows]}
  /\ open = Update

Ends(u) == u \in open /\ open' = open \ {u}

(* The rows stay, and those that are added record just what was missing.   *)
Adds(u, old, new) ==
  /\ DOMAIN old \subseteq DOMAIN new
  /\ \A i \in DOMAIN old : new[i] = old[i]
  /\ \A i \in DOMAIN new \ DOMAIN old :
       new[i].entry \in Deprecate[u] \ Entries(old) /\ new[i].deleted_on = u
  /\ Deprecate[u] \subseteq Entries(new)
  /\ OncePerEntry(new)

Record(u) ==
  /\ Ends(u)
  /\ file.state # "malformed"
  /\ ~ (Deprecate[u] \subseteq Entries(file.rows))
  /\ file'.state = "present"
  /\ Adds(u, file.rows, file'.rows)

RecordNothing(u) == Ends(u) /\ UNCHANGED file

(* People take rows away, break the file or delete it; they add no row.    *)
CleanUp ==
  /\ \A i \in DOMAIN file'.rows : \E j \in DOMAIN file.rows : file'.rows[i] = file.rows[j]
  /\ OncePerEntry(file'.rows)
  /\ UNCHANGED open

Next == (\E u \in Update : Record(u) \/ RecordNothing(u)) \/ CleanUp

Spec == Init /\ [][Next]_vars
=============================================================================

---------------------------- MODULE DeprecationFile ----------------------------
(***************************************************************************)
(* The deprecation file of a source repository and the updates that record *)
(* deletions in it (UpdateDeprecationFile): read the file, add the entries *)
(* it does not have, write it back as an update of what was read.          *)
(*                                                                         *)
(* Updates of different deliveries run side by side, and the people who    *)
(* clean up remove rows, break the file or delete it.  The file is the     *)
(* external part: a write names the version it replaces (the SHA of the    *)
(* blob), and GitHub refuses it when that is no longer the content.        *)
(* The requests use the default installation token, which is obtained at   *)
(* startup and never renewed.                                              *)
(*                                                                         *)
(* A file whose content cannot be used (a directory, a blob too large to   *)
(* be sent along, text that is no JSON array) is Malformed.  deleted_on,   *)
(* the time of the update, stands for the update itself.                   *)
(***************************************************************************)
EXTENDS Integers, Sequences, FiniteSets

CONSTANTS
  Update,       \* calls of UpdateDeprecationFile
  FileName,     \* paths in the target repositories
  Target,       \* target repository and branch
  Deprecate,    \* Deprecate[u]: filesToDeprecate, a set of entries
  DryRun,       \* config.DryRun
  Earlier,      \* deleted_on of the rows there at the start
  InitialRows,  \* those rows
  MaxEdits,     \* bound: edits by others
  MayExpire     \* may the default token expire?

DeprecatedEntry == [name : FileName, target : Target]
Row == [entry : DeprecatedEntry, deleted_on : Update \cup {Earlier}]

(* Rows that name no entry twice.                                          *)
Distinct(rows) ==
  \A i, j \in DOMAIN rows : rows[i].entry = rows[j].entry => i = j

ASSUME DeprecationFileAssumption ==
  /\ Deprecate \in [Update -> SUBSET DeprecatedEntry]
  /\ \A u \in Update : IsFiniteSet(Deprecate[u])
  /\ DryRun \in BOOLEAN
  /\ InitialRows \in Seq(Row)
  /\ Distinct(InitialRows)
  /\ MaxEdits \in Nat
  /\ MayExpire \in BOOLEAN

VARIABLES
  file,     \* the file: its state, and its rows when it is there
  edits,    \* edits by others so far
  token,    \* is the default installation token good?
  pc,       \* pc[u]: where the update stands
  base,     \* base[u]: the file as read, the version its write replaces
  written,  \* written[u]: updatedJSON, the rows to write
  hindered  \* history: what kept u from reading or writing

vars == <<file, edits, token, pc, base, written, hindered>>

Missing   == [state |-> "missing", rows |-> <<>>]
Malformed == [state |-> "malformed", rows |-> <<>>]
Holding(rows) == [state |-> "present", rows |-> rows]

EntriesOf(rows) == {rows[i].entry : i \in DOMAIN rows}

-----------------------------------------------------------------------------
(* What a write holds.                                                     *)

Mut_AllEntries(u, rows) == Deprecate[u]
Mut_NewByName(u, rows) ==
  {e \in Deprecate[u] : \A f \in EntriesOf(rows) : f.name # e.name}

(* existingEntries: an entry of the same name, repository and branch is    *)
(* not recorded again.                                                     *)
NewEntries(u, rows) == Deprecate[u] \ EntriesOf(rows)

(* The rows that record a set of entries, in any order: the entries come   *)
(* from a map.                                                             *)
RowsFor(u, entries) ==
  {[i \in 1 .. Cardinality(entries) |-> [entry |-> order[i], deleted_on |-> u]] :
     order \in {f \in [1 .. Cardinality(entries) -> entries] :
                  \A i, j \in 1 .. Cardinality(entries) : f[i] = f[j] => i = j}}

Mut_Overwrites(u) == base[u].state = "present" \/ file = Missing

(* GitHub takes a write that replaces the current content, and a creation  *)
(* where there is no file.                                                 *)
Accepted(u) == file = base[u]

-----------------------------------------------------------------------------
Init ==
  /\ file \in {Missing, Holding(InitialRows)}
  /\ edits = 0
  /\ token = TRUE
  /\ pc = [u \in Update |-> "read"]
  /\ base = [u \in Update |-> Missing]
  /\ written = [u \in Update |-> <<>>]
  /\ hindered = [u \in Update |-> FALSE]

Goto(u, place) == pc' = [pc EXCEPT ![u] = place]

(* The updates that were about to write find another file.                 *)
Overtake(u) ==
  hindered' = [v \in Update |-> hindered[v] \/ (v # u /\ pc[v] = "write")]

Hinder(u) == hindered' = [hindered EXCEPT ![u] = TRUE]

(* Nothing to record, or a dry run.                                        *)
Skip(u) ==
  /\ pc[u] = "read"
  /\ Deprecate[u] = {} \/ DryRun
  /\ Goto(u, "done")
  /\ UNCHANGED <<file, edits, token, base, written, hindered>>

Reading(u) == pc[u] = "read" /\ Deprecate[u] # {} /\ ~ DryRun

(* With the rows that are there, those to add; if there are none to add,   *)
(* the update is over.                                                     *)
Merge(u, found) ==
  LET new == NewEntries(u, found.rows)
  IN  /\ base' = [base EXCEPT ![u] = found]
      /\ IF new = {}
         THEN Goto(u, "done") /\ UNCHANGED written
         ELSE /\ Goto(u, "write")
              /\ \E rows \in RowsFor(u, new) :
                   written' = [written EXCEPT ![u] = found.rows \o rows]

Read(u) ==
  /\ Reading(u) /\ token
  /\ file # Malformed
  /\ Merge(u, file)
  /\ UNCHANGED <<file, edits, token, hindered>>

(* Content that cannot be used ends the update.                            *)
ReadMalformed(u) ==
  /\ Reading(u) /\ token
  /\ file = Malformed
  /\ Goto(u, "done") /\ Hinder(u)
  /\ UNCHANGED <<file, edits, token, base, written>>

(* GetContents fails, and any failure means that there is no file yet.     *)
ReadFails(u) ==
  /\ Reading(u)
  /\ Merge(u, Missing) /\ Hinder(u)
  /\ UNCHANGED <<file, edits, token>>

(* uploadDeprecationFileChanges: UpdateFile of what was read, CreateFile   *)
(* when nothing was.                                                       *)
Write(u) ==
  /\ pc[u] = "write" /\ token
  /\ Accepted(u)
  /\ file' = Holding(written[u])
  /\ Overtake(u)
  /\ Goto(u, "done")
  /\ UNCHANGED <<edits, token, base, written>>

(* A write that GitHub refuses, or a request that fails, is logged, and    *)
(* the entries are dropped.  A request whose answer is lost is a Write.    *)
Refused(u) ==
  /\ pc[u] = "write" /\ token
  /\ ~ Accepted(u)
  /\ Goto(u, "done")
  /\ UNCHANGED <<file, edits, token, base, written, hindered>>

WriteFails(u) ==
  /\ pc[u] = "write"
  /\ Goto(u, "done") /\ Hinder(u)
  /\ UNCHANGED <<file, edits, token, base, written>>

-----------------------------------------------------------------------------
(* Others: they remove a row once the target is cleaned up, break the file *)
(* or repair it, or delete it.                                             *)
Without(rows, i) ==
  [k \in 1 .. Len(rows) - 1 |-> IF k < i THEN rows[k] ELSE rows[k + 1]]

Edit ==
  /\ edits < MaxEdits
  /\ file' \in {Missing, Malformed, Holding(<<>>)}
               \cup {Holding(Without(file.rows, i)) : i \in DOMAIN file.rows}
  /\ edits' = edits + 1
  /\ hindered' = [v \in Update |-> hindered[v] \/ pc[v] = "write"]
  /\ UNCHANGED <<token, pc, base, written>>

(* The hour of the token passes.                                           *)
TokenExpires ==
  /\ MayExpire /\ token
  /\ token' = FALSE
  /\ UNCHANGED <<file, edits, pc, base, written, hindered>>

Step(u) ==
  \/ Skip(u) \/ Read(u) \/ ReadMalformed(u) \/ ReadFails(u)
  \/ Write(u) \/ Refused(u) \/ WriteFails(u)

Next == (\E u \in Update : Step(u)) \/ Edit \/ TokenExpires

Spec == Init /\ [][Next]_vars

-----------------------------------------------------------------------------
File == [state : {"missing", "malformed", "present"}, rows : Seq(Row)]

TypeOK ==
  /\ file \in File
  /\ file.state # "present" => file.rows = <<>>
  /\ edits \in 0 .. MaxEdits
  /\ token \in BOOLEAN
  /\ pc \in [Update -> {"read", "write", "done"}]
  /\ base \in [Update -> File]
  /\ written \in [Update -> Seq(Row)]
  /\ hindered \in [Update -> BOOLEAN]

(* No entry is recorded twice, though the same deletion is reported again  *)
(* by a redelivery or a retry and the updates overlap: what an update has  *)
(* not seen in the file it read it cannot write over.                      *)
NoEntryTwice == Distinct(file.rows)

(* An update loses its entries only to a request that failed, a file it    *)
(* could not use, or somebody who changed the file between its read and    *)
(* its write; otherwise they are in the file when it ends, and stay until  *)
(* people remove them.  UpdateDeprecationFile returns nothing, so nothing  *)
(* brings back what is lost.                                               *)
UnhinderedIsRecorded ==
  \A u \in Update :
    pc[u] = "done" /\ ~ hindered[u] /\ edits = 0 /\ ~ DryRun =>
      Deprecate[u] \subseteq EntriesOf(file.rows)

(* The app itself never takes a row away, reorders rows or replaces a file *)
(* it could not read, though it writes the whole file back and takes any   *)
(* failed read for a file that is not there.                               *)
RowsAreKept ==
  [][edits' = edits /\ file' # file =>
       /\ file # Malformed
       /\ Len(file.rows) <= Len(file'.rows)
       /\ \A i \in DOMAIN file.rows : file'.rows[i] = file.rows[i]]_vars

(* Though an update reads the file in one request and writes it in another *)
(* one, with other updates and people in between, it is as if it added its *)
(* entries at one instant, or none: GitHub takes a write only over what    *)
(* the update has read.                                                    *)
AtOnce == INSTANCE DeprecationRecord WITH open <- {u \in Update : pc[u] # "done"}

RecordsAtOnce == AtOnce!Spec
=============================================================================

------------------------ MODULE DeprecationFileProofs ------------------------
(***************************************************************************)
(* DeprecationFile is well typed, names no entry twice, keeps the rows it  *)
(* has, loses no entry but for a reason, and implements DeprecationRecord, *)
(* for any number of updates.                                              *)
(***************************************************************************)
EXTENDS DeprecationFile, FiniteSetTheorems, FunctionTheorems, TLAPS

(* What an update is about to write: the file it has read, continued with  *)
(* what was missing; and unless it is hindered, the file is still that.    *)
Pending ==
  \A u \in Update : pc[u] = "write" =>
    /\ base[u].state # "malformed"
    /\ Distinct(written[u])
    /\ Len(base[u].rows) <= Len(written[u])
    /\ \A i \in DOMAIN base[u].rows : written[u][i] = base[u].rows[i]
    /\ Deprecate[u] \subseteq EntriesOf(written[u])
    /\ ~ hindered[u] => file = base[u]

IInv == TypeOK /\ NoEntryTwice /\ UnhinderedIsRecorded /\ Pending

-----------------------------------------------------------------------------
(* Files and rows.                                                         *)

LEMMA FileFacts ==
  /\ Missing \in File /\ Malformed \in File
  /\ Missing.rows = <<>> /\ Malformed.rows = <<>>
  /\ Missing.state = "missing" /\ Malformed.state = "malformed"
  /\ \A rows \in Seq(Row) :
       /\ Holding(rows) \in File
       /\ Holding(rows).rows = rows /\ Holding(rows).state = "present"
  BY DEF File, Missing, Malformed, Holding

LEMMA EmptyIsDistinct == Distinct(<<>>)
  BY DEF Distinct

(* The rows for a set of entries are well typed and name each of them once.*)
LEMMA RowsForFacts ==
  ASSUME NEW u \in Update, NEW S \in SUBSET DeprecatedEntry, IsFiniteSet(S),
         NEW rows \in RowsFor(u, S)
  PROVE  rows \in Seq(Row) /\ Distinct(rows) /\ EntriesOf(rows) = S
<1> DEFINE n == Cardinality(S)
<1>1. n \in Nat
  BY FS_CardinalityType
<1>2. PICK order \in [1 .. n -> S] :
        /\ \A i, j \in 1 .. n : order[i] = order[j] => i = j
        /\ rows = [i \in 1 .. n |-> [entry |-> order[i], deleted_on |-> u]]
  BY DEF RowsFor
<1>3. \A i \in 1 .. n : [entry |-> order[i], deleted_on |-> u] \in Row
  BY <1>2 DEF Row
<1>4. rows \in [1 .. n -> Row]
  BY <1>2, <1>3
<1>5. rows \in Seq(Row)
  BY <1>1, <1>4
<1>6. DOMAIN rows = 1 .. n /\ \A i \in 1 .. n : rows[i].entry = order[i]
  BY <1>2
<1>7. Distinct(rows)
  BY <1>2, <1>6 DEF Distinct
<1>8. order \in Injection(1 .. n, S)
  BY <1>2 DEF Injection, IsInjective
<1>9. IsFiniteSet(1 .. n) /\ Cardinality(1 .. n) = n
  BY <1>1, FS_Interval
<1>10. order \in Surjection(1 .. n, S)
  BY <1>8, <1>9, FS_Injection
<1>11. \A e \in S : \E i \in 1 .. n : order[i] = e
  BY <1>10 DEF Surjection
<1>12. EntriesOf(rows) = S
  BY <1>2, <1>6, <1>11 DEF EntriesOf
<1> QED
  BY <1>5, <1>7, <1>12

(* What is read, continued with the rows for the new entries.              *)
LEMMA MergedRows ==
  ASSUME NEW u \in Update, NEW found \in Seq(Row), Distinct(found),
         NEW rows \in RowsFor(u, NewEntries(u, found))
  PROVE  LET all == found \o rows
         IN  /\ all \in Seq(Row) /\ Distinct(all)
             /\ Len(found) <= Len(all)
             /\ \A i \in DOMAIN found : all[i] = found[i]
             /\ Deprecate[u] \subseteq EntriesOf(all)
<1> DEFINE new == NewEntries(u, found)
           all == found \o rows
<1>1. new \subseteq DeprecatedEntry /\ new \subseteq Deprecate[u]
      /\ new \cap EntriesOf(found) = {}
      /\ Deprecate[u] \subseteq new \cup EntriesOf(found)
  BY DeprecationFileAssumption DEF NewEntries
<1>2. IsFiniteSet(new)
  BY <1>1, FS_Subset, DeprecationFileAssumption
<1>3. rows \in Seq(Row) /\ Distinct(rows) /\ EntriesOf(rows) = new
  BY <1>1, <1>2, RowsForFacts
<1>4. /\ all \in Seq(Row)
      /\ Len(all) = Len(found) + Len(rows)
      /\ Len(found) \in Nat /\ Len(rows) \in Nat
      /\ DOMAIN found = 1 .. Len(found) /\ DOMAIN rows = 1 .. Len(rows)
      /\ DOMAIN all = 1 .. Len(all)
      /\ \A i \in DOMAIN found : all[i] = found[i]
      /\ \A i \in DOMAIN all : i \notin DOMAIN found =>
           i - Len(found) \in DOMAIN rows /\ all[i] = rows[i - Len(found)]
  BY <1>3
<1>5. \A i \in DOMAIN rows :
        i + Len(found) \in DOMAIN all /\ all[i + Len(found)] = rows[i]
  BY <1>3, <1>4
<1>6. \A i \in DOMAIN found : found[i].entry \in EntriesOf(found)
  BY DEF EntriesOf
<1>7. \A i \in DOMAIN rows : rows[i].entry \in new
  BY <1>3 DEF EntriesOf
<1>8. ASSUME NEW i \in DOMAIN all, NEW j \in DOMAIN all,
             all[i].entry = all[j].entry
      PROVE  i = j
  <2>1. CASE i \in DOMAIN found /\ j \in DOMAIN found
    BY <2>1, <1>4, <1>8 DEF Distinct
  <2>2. CASE i \in DOMAIN found /\ j \notin DOMAIN found
    BY <2>2, <1>1, <1>4, <1>6, <1>7, <1>8
  <2>3. CASE i \notin DOMAIN found /\ j \in DOMAIN found
    BY <2>3, <1>1, <1>4, <1>6, <1>7, <1>8
  <2>4. CASE i \notin DOMAIN found /\ j \notin DOMAIN found
    <3>1. i - Len(found) = j - Len(found)
      BY <2>4, <1>3, <1>4, <1>8 DEF Distinct
    <3> QED
      BY <3>1, <1>4
  <2> QED
    BY <2>1, <2>2, <2>3, <2>4
<1>9. Distinct(all)
  BY <1>8 DEF Distinct
<1>10. EntriesOf(found) \subseteq EntriesOf(all)
  BY <1>4 DEF EntriesOf
<1>11. new \subseteq EntriesOf(all)
  BY <1>3, <1>5 DEF EntriesOf
<1> QED
  BY <1>1, <1>4, <1>9, <1>10, <1>11

(* Without one of its rows, a file still names no entry twice.             *)
LEMMA WithoutFacts ==
  ASSUME NEW rows \in Seq(Row), Distinct(rows), NEW i \in DOMAIN rows
  PROVE  Without(rows, i) \in Seq(Row) /\ Distinct(Without(rows, i))
<1> DEFINE n == Len(rows) - 1
           rest == Without(rows, i)
<1>1. Len(rows) \in Nat /\ DOMAIN rows = 1 .. Len(rows) /\ i \in 1 .. Len(rows)
      /\ n \in Nat
      /\ \A k \in DOMAIN rows : rows[k] \in Row
  OBVIOUS
<1>2. rest = [k \in 1 .. n |-> IF k < i THEN rows[k] ELSE rows[k + 1]]
  BY DEF Without
<1>3. \A k \in 1 .. n : (IF k < i THEN rows[k] ELSE rows[k + 1]) \in Row
  BY <1>1
<1>4. rest \in [1 .. n -> Row]
  BY <1>2, <1>3
<1>5. rest \in Seq(Row)
  BY <1>1, <1>4
<1>6. ASSUME NEW k \in 1 .. n, NEW l \in 1 .. n, rest[k].entry = rest[l].entry
      PROVE  k = l
  <2> DEFINE at(m) == IF m < i THEN m ELSE m + 1
  <2>1. at(k) \in DOMAIN rows /\ at(l) \in DOMAIN rows
    BY <1>1
  <2>2. rest[k] = rows[at(k)] /\ rest[l] = rows[at(l)]
    BY <1>2
  <2>3. at(k) = at(l)
    BY <1>6, <2>1, <2>2 DEF Distinct
  <2> QED
    BY <2>3, <1>1
<1>7. DOMAIN rest = 1 .. n
  BY <1>2
<1> QED
  BY <1>5, <1>6, <1>7 DEF Distinct

-----------------------------------------------------------------------------
(* The initial states.                                                     *)

LEMMA InitInv == Init => IInv
<1> SUFFICES ASSUME Init PROVE IInv
  OBVIOUS
<1> USE DeprecationFileAssumption, FileFacts
<1>1. file \in File /\ Distinct(file.rows)
      /\ (file.state # "present" => file.rows = <<>>)
  BY EmptyIsDistinct DEF Init
<1>2. <<>> \in Seq(Row)
  OBVIOUS
<1>3. TypeOK
  BY <1>1, <1>2 DEF Init, TypeOK
<1>4. UnhinderedIsRecorded /\ Pending
  BY DEF Init, UnhinderedIsRecorded, Pending
<1> QED
  BY <1>1, <1>3, <1>4 DEF IInv, NoEntryTwice

-----------------------------------------------------------------------------
(* The steps of an update.                                                 *)

LEMMA SkipInv ==
  ASSUME IInv, NEW u \in Update, Skip(u)
  PROVE  IInv'
<1> USE DEF Skip, Goto, IInv
<1>1. TypeOK'
  BY DEF TypeOK
<1>2. NoEntryTwice'
  BY DEF NoEntryTwice
<1>3. UnhinderedIsRecorded'
  BY DEF UnhinderedIsRecorded, TypeOK
<1>4. Pending'
  BY DEF Pending, TypeOK
<1> QED
  BY <1>1, <1>2, <1>3, <1>4

(* What Merge leaves behind, whether the file was found or taken for       *)
(* missing.                                                                *)
LEMMA MergeFacts ==
  ASSUME TypeOK, NEW u \in Update, NEW found \in File, Distinct(found.rows),
         found.state # "malformed", Merge(u, found)
  PROVE  /\ pc' \in [Update -> {"read", "write", "done"}]
         /\ base' \in [Update -> File]
         /\ written' \in [Update -> Seq(Row)]
         /\ \A v \in Update \ {u} :
              pc'[v] = pc[v] /\ base'[v] = base[v] /\ written'[v] = written[v]
         /\ base'[u] = found
         /\ pc'[u] = "done" => Deprecate[u] \subseteq EntriesOf(found.rows)
         /\ pc'[u] = "write" =>
              /\ Distinct(written'[u])
              /\ Len(found.rows) <= Len(written'[u])
              /\ \A i \in DOMAIN found.rows : written'[u][i] = found.rows[i]
              /\ Deprecate[u] \subseteq EntriesOf(written'[u])
<1> USE DEF Goto
<1>1. found.rows \in Seq(Row)
  BY DEF File
<1>2. base' = [base EXCEPT ![u] = found] /\ base' \in [Update -> File]
  BY DEF Merge, TypeOK
<1>3. CASE NewEntries(u, found.rows) = {}
  <2>1. pc' = [pc EXCEPT ![u] = "done"] /\ written' = written
    BY <1>3 DEF Merge
  <2>2. Deprecate[u] \subseteq EntriesOf(found.rows)
    BY <1>3 DEF NewEntries
  <2> QED
    BY <1>2, <2>1, <2>2 DEF TypeOK
<1>4. CASE NewEntries(u, found.rows) # {}
  <2>1. PICK rows \in RowsFor(u, NewEntries(u, found.rows)) :
          /\ pc' = [pc EXCEPT ![u] = "write"]
          /\ written' = [written EXCEPT ![u] = found.rows \o rows]
    BY <1>4 DEF Merge
  <2> DEFINE all == found.rows \o rows
  <2>2. /\ all \in Seq(Row) /\ Distinct(all)
        /\ Len(found.rows) <= Len(all)
        /\ \A i \in DOMAIN found.rows : all[i] = found.rows[i]
        /\ Deprecate[u] \subseteq EntriesOf(all)
    BY <1>1, <2>1, MergedRows
  <2>3. written' = [written EXCEPT ![u] = all]
    BY <2>1
  <2> HIDE DEF all
  <2>4. written'[u] = all
    BY <2>3 DEF TypeOK
  <2> QED
    BY <1>2, <2>1, <2>2, <2>3, <2>4 DEF TypeOK
<1> QED
  BY <1>3, <1>4

LEMMA ReadInv ==
  ASSUME IInv, NEW u \in Update, Read(u)
  PROVE  IInv'
<1> USE DEF IInv
<1>1. /\ file \in File /\ Distinct(file.rows) /\ file.state # "malformed"
      /\ pc[u] = "read" /\ Merge(u, file)
      /\ UNCHANGED <<file, edits, token, hindered>>
  <2>1. file.state = "malformed" => file = Malformed
    BY DEF TypeOK, File, Malformed
  <2> QED
    BY <2>1 DEF Read, Reading, TypeOK, NoEntryTwice
<1>2. TypeOK'
  BY <1>1, MergeFacts DEF TypeOK
<1>3. NoEntryTwice'
  BY <1>1 DEF NoEntryTwice
<1>4. UnhinderedIsRecorded'
  BY <1>1, MergeFacts DEF UnhinderedIsRecorded
<1>5. Pending'
  BY <1>1, MergeFacts DEF Pending
<1> QED
  BY <1>2, <1>3, <1>4, <1>5

LEMMA ReadMalformedInv ==
  ASSUME IInv, NEW u \in Update, ReadMalformed(u)
  PROVE  IInv'
<1> USE DEF ReadMalformed, Reading, Goto, Hinder, IInv
<1>1. TypeOK'
  BY DEF TypeOK
<1>2. NoEntryTwice'
  BY DEF NoEntryTwice
<1>3. UnhinderedIsRecorded'
  BY DEF UnhinderedIsRecorded, TypeOK
<1>4. Pending'
  BY DEF Pending, TypeOK
<1> QED
  BY <1>1, <1>2, <1>3, <1>4

(* A read that failed hinders the update, so nothing is claimed of it but  *)
(* that it writes over a file that is not there.                           *)
LEMMA ReadFailsInv ==
  ASSUME IInv, NEW u \in Update, ReadFails(u)
  PROVE  IInv'
<1> USE DEF IInv
<1>1. /\ pc[u] = "read" /\ Merge(u, Missing)
      /\ hindered' = [hindered EXCEPT ![u] = TRUE]
      /\ UNCHANGED <<file, edits, token>>
  BY DEF ReadFails, Reading, Hinder
<1>2. Missing \in File /\ Distinct(Missing.rows) /\ Missing.state # "malformed"
  BY FileFacts, EmptyIsDistinct
<1>3. TypeOK'
  BY <1>1, <1>2, MergeFacts DEF TypeOK
<1>4. NoEntryTwice'
  BY <1>1 DEF NoEntryTwice
<1>5. UnhinderedIsRecorded'
  BY <1>1, <1>2, MergeFacts DEF UnhinderedIsRecorded, TypeOK
<1>6. Pending'
  BY <1>1, <1>2, MergeFacts DEF Pending, TypeOK
<1> QED
  BY <1>3, <1>4, <1>5, <1>6

LEMMA WriteInv ==
  ASSUME IInv, NEW u \in Update, Write(u)
  PROVE  IInv'
<1> USE DEF IInv
<1>1. /\ pc[u] = "write" /\ file = base[u] /\ file' = Holding(written[u])
      /\ hindered' = [v \in Update |-> hindered[v] \/ (v # u /\ pc[v] = "write")]
      /\ pc' = [pc EXCEPT ![u] = "done"]
      /\ UNCHANGED <<edits, token, base, written>>
  BY DEF Write, Accepted, Overtake, Goto
<1>2. written[u] \in Seq(Row)
  BY DEF TypeOK
<1>3. file' \in File /\ file'.rows = written[u] /\ file'.state = "present"
  BY <1>1, <1>2, FileFacts
<1>4. TypeOK'
  BY <1>1, <1>3 DEF TypeOK
<1>5. NoEntryTwice'
  BY <1>1, <1>3 DEF NoEntryTwice, Pending
<1>6. UnhinderedIsRecorded'
  <2> SUFFICES ASSUME NEW v \in Update, pc'[v] = "done", ~ hindered'[v],
                      edits' = 0, ~ DryRun
               PROVE  Deprecate[v] \subseteq EntriesOf(file'.rows)
    BY DEF UnhinderedIsRecorded
  <2>1. CASE v = u
    BY <1>1, <1>3, <2>1 DEF Pending
  <2>2. CASE v # u
    <3>1. pc[v] = "done" /\ ~ hindered[v] /\ edits = 0
      BY <1>1, <2>2 DEF TypeOK
    <3>2. Deprecate[v] \subseteq EntriesOf(file.rows)
      BY <3>1 DEF UnhinderedIsRecorded
    <3>3. EntriesOf(file.rows) \subseteq EntriesOf(written[u])
      <4>1. file.rows \in Seq(Row)
        BY DEF TypeOK, File
      <4>2. \A i \in DOMAIN file.rows :
              i \in DOMAIN written[u] /\ written[u][i] = file.rows[i]
        BY <1>1, <1>2, <4>1 DEF Pending
      <4> QED
        BY <4>2 DEF EntriesOf
    <3> QED
      BY <1>3, <3>2, <3>3
  <2> QED
    BY <2>1, <2>2
<1>7. Pending'
  BY <1>1 DEF Pending, TypeOK
<1> QED
  BY <1>4, <1>5, <1>6, <1>7

(* A refused write was hindered before: the file is no longer what the     *)
(* update has read.                                                        *)
LEMMA RefusedInv ==
  ASSUME IInv, NEW u \in Update, Refused(u)
  PROVE  IInv'
<1> USE DEF Refused, Accepted, Goto, IInv
<1>1. TypeOK'
  BY DEF TypeOK
<1>2. NoEntryTwice'
  BY DEF NoEntryTwice
<1>3. UnhinderedIsRecorded'
  BY DEF UnhinderedIsRecorded, Pending, TypeOK
<1>4. Pending'
  BY DEF Pending, TypeOK
<1> QED
  BY <1>1, <1>2, <1>3, <1>4

LEMMA WriteFailsInv ==
  ASSUME IInv, NEW u \in Update, WriteFails(u)
  PROVE  IInv'
<1> USE DEF WriteFails, Goto, Hinder, IInv
<1>1. TypeOK'
  BY DEF TypeOK
<1>2. NoEntryTwice'
  BY DEF NoEntryTwice
<1>3. UnhinderedIsRecorded'
  BY DEF UnhinderedIsRecorded, TypeOK
<1>4. Pending'
  BY DEF Pending, TypeOK
<1> QED
  BY <1>1, <1>2, <1>3, <1>4

-----------------------------------------------------------------------------
(* What others do.                                                         *)

LEMMA EditInv ==
  ASSUME IInv, Edit
  PROVE  IInv'
<1> USE DEF IInv
<1>1. /\ edits < MaxEdits /\ edits' = edits + 1
      /\ hindered' = [v \in Update |-> hindered[v] \/ pc[v] = "write"]
      /\ UNCHANGED <<token, pc, base, written>>
  BY DEF Edit
<1>2. file' \in File /\ Distinct(file'.rows)
      /\ (file'.state # "present" => file'.rows = <<>>)
  <2>1. CASE file' \in {Missing, Malformed, Holding(<<>>)}
    <3>1. <<>> \in Seq(Row)
      OBVIOUS
    <3> QED
      BY <2>1, <3>1, FileFacts, EmptyIsDistinct
  <2>2. CASE \E i \in DOMAIN file.rows : file' = Holding(Without(file.rows, i))
    <3>1. file.rows \in Seq(Row) /\ Distinct(file.rows)
      BY DEF TypeOK, File, NoEntryTwice
    <3> QED
      BY <2>2, <3>1, WithoutFacts, FileFacts
  <2> QED
    BY <2>1, <2>2 DEF Edit
<1>3. TypeOK'
  BY <1>1, <1>2, DeprecationFileAssumption DEF TypeOK
<1>4. NoEntryTwice'
  BY <1>2 DEF NoEntryTwice
<1>5. UnhinderedIsRecorded'
  BY <1>1 DEF UnhinderedIsRecorded, TypeOK
<1>6. Pending'
  BY <1>1 DEF Pending, TypeOK
<1> QED
  BY <1>3, <1>4, <1>5, <1>6

LEMMA TokenExpiresInv ==
  ASSUME IInv, TokenExpires
  PROVE  IInv'
  BY DEF IInv, TokenExpires, TypeOK, NoEntryTwice, UnhinderedIsRecorded, Pending

LEMMA StutterInv ==
  ASSUME IInv, UNCHANGED vars
  PROVE  IInv'
  BY DEF IInv, vars, TypeOK, NoEntryTwice, UnhinderedIsRecorded, Pending

LEMMA NextInv == IInv /\ [Next]_vars => IInv'
<1> SUFFICES ASSUME IInv, [Next]_vars PROVE IInv'
  OBVIOUS
<1>1. ASSUME NEW u \in Update, Step(u)
      PROVE  IInv'
  BY <1>1, SkipInv, ReadInv, ReadMalformedInv, ReadFailsInv, WriteInv,
     RefusedInv, WriteFailsInv DEF Step
<1> QED
  BY <1>1, EditInv, TokenExpiresInv, StutterInv DEF Next

LEMMA Invariance == Spec => []IInv
  BY InitInv, NextInv, PTL DEF Spec

-----------------------------------------------------------------------------
(* File and updates stay well typed: what is written back is a list of     *)
(* rows, dated by the update that adds them.                               *)
THEOREM TypeCorrect == Spec => []TypeOK
<1>1. IInv => TypeOK
  BY DEF IInv
<1> QED
  BY <1>1, Invariance, PTL

(* However many updates report the same deletion, one after the other or   *)
(* side by side, the file names an entry once.                             *)
THEOREM RecordedOnce == Spec => []NoEntryTwice
<1>1. IInv => NoEntryTwice
  BY DEF IInv
<1> QED
  BY <1>1, Invariance, PTL

(* An update whose entries are not in the file when it ends had a failing  *)
(* request, a file it could not use, or somebody who changed it meanwhile. *)
THEOREM LostForAReason == Spec => []UnhinderedIsRecorded
<1>1. IInv => UnhinderedIsRecorded
  BY DEF IInv
<1> QED
  BY <1>1, Invariance, PTL

(* Only people take rows away: no update drops, reorders or replaces what  *)
(* is in the file, nor writes over a file it could not read.               *)
THEOREM NothingIsDropped == Spec => RowsAreKept
<1> DEFINE Kept == edits' = edits /\ file' # file =>
                     /\ file # Malformed
                     /\ Len(file.rows) <= Len(file'.rows)
                     /\ \A i \in DOMAIN file.rows : file'.rows[i] = file.rows[i]
<1>1. IInv /\ [Next]_vars => [Kept]_vars
  <2> SUFFICES ASSUME IInv, Next, edits' = edits, file' # file
               PROVE  /\ file # Malformed
                      /\ Len(file.rows) <= Len(file'.rows)
                      /\ \A i \in DOMAIN file.rows : file'.rows[i] = file.rows[i]
    OBVIOUS
  <2>1. PICK u \in Update : Write(u)
    <3>1. ~ Edit
      BY DEF Edit, IInv, TypeOK
    <3> QED
      BY <3>1 DEF Next, Step, Skip, Read, ReadMalformed, ReadFails, Refused,
                  WriteFails, TokenExpires
  <2>2. pc[u] = "write" /\ file = base[u] /\ file' = Holding(written[u])
    BY <2>1 DEF Write, Accepted
  <2>3. file'.rows = written[u]
    BY <2>2 DEF Holding
  <2> QED
    BY <2>2, <2>3, FileFacts DEF IInv, Pending
<1>2. Init /\ [][Next]_vars => [][Kept]_vars
  BY <1>1, InitInv, NextInv, PTL
<1> QED
  BY <1>2 DEF Spec, RowsAreKept

-----------------------------------------------------------------------------
(* Every update takes effect at one instant.                               *)

(* What an update is about to write beyond what it has read: just what was *)
(* missing there, and something was.                                       *)
Additions ==
  \A u \in Update : pc[u] = "write" =>
    /\ ~ (Deprecate[u] \subseteq EntriesOf(base[u].rows))
    /\ \A i \in DOMAIN written[u] \ DOMAIN base[u].rows :
         /\ written[u][i].entry \in Deprecate[u] \ EntriesOf(base[u].rows)
         /\ written[u][i].deleted_on = u

LEMMA MergedAdditions ==
  ASSUME NEW u \in Update, NEW found \in Seq(Row),
         NEW rows \in RowsFor(u, NewEntries(u, found))
  PROVE  \A i \in DOMAIN (found \o rows) \ DOMAIN found :
           /\ (found \o rows)[i].entry \in Deprecate[u] \ EntriesOf(found)
           /\ (found \o rows)[i].deleted_on = u
<1>. DEFINE new == NewEntries(u, found)
            n == Cardinality(new)
<1>1. new \in SUBSET DeprecatedEntry /\ new = Deprecate[u] \ EntriesOf(found)
  BY DeprecationFileAssumption DEF NewEntries
<1>2. IsFiniteSet(new)
  BY <1>1, FS_Subset, DeprecationFileAssumption
<1>3. rows \in Seq(Row) /\ n \in Nat
  BY <1>1, <1>2, RowsForFacts, FS_CardinalityType
<1>. HIDE DEF new
<1>4. \A i \in DOMAIN rows : rows[i].entry \in new /\ rows[i].deleted_on = u
  <2>1. PICK order \in [1 .. n -> new] :
          rows = [i \in 1 .. n |-> [entry |-> order[i], deleted_on |-> u]]
    BY DEF RowsFor, new
  <2>. QED
    BY <2>1
<1>5. \A i \in DOMAIN (found \o rows) \ DOMAIN found :
        i - Len(found) \in DOMAIN rows /\ (found \o rows)[i] = rows[i - Len(found)]
  BY <1>3
<1>. QED
  BY <1>1, <1>4, <1>5

LEMMA MergeAdds ==
  ASSUME TypeOK, Additions, NEW u \in Update, NEW found \in File, Merge(u, found)
  PROVE  Additions'
<1>. USE DEF Goto, TypeOK
<1>1. found.rows \in Seq(Row)
  BY DEF File
<1>2. base' = [base EXCEPT ![u] = found]
  BY DEF Merge
<1>3. CASE NewEntries(u, found.rows) = {}
  BY <1>2, <1>3 DEF Merge, Additions
<1>4. CASE NewEntries(u, found.rows) # {}
  <2>1. PICK rows \in RowsFor(u, NewEntries(u, found.rows)) :
          /\ pc' = [pc EXCEPT ![u] = "write"]
          /\ written' = [written EXCEPT ![u] = found.rows \o rows]
    BY <1>4 DEF Merge
  <2>. DEFINE all == found.rows \o rows
  <2>2. \A i \in DOMAIN all \ DOMAIN found.rows :
          all[i].entry \in Deprecate[u] \ EntriesOf(found.rows) /\ all[i].deleted_on = u
    BY <1>1, <2>1, MergedAdditions
  <2>3. ~ (Deprecate[u] \subseteq EntriesOf(found.rows))
    BY <1>4 DEF NewEntries
  <2>4. written' = [written EXCEPT ![u] = all]
    BY <2>1
  <2>. HIDE DEF all
  <2>5. pc'[u] = "write" /\ base'[u] = found /\ written'[u] = all
    BY <1>2, <2>1, <2>4
  <2>6. \A v \in Update \ {u} : pc'[v] = pc[v] /\ base'[v] = base[v] /\ written'[v] = written[v]
    BY <1>2, <2>1, <2>4
  <2>7. ASSUME NEW v \in Update, pc'[v] = "write"
        PROVE  /\ ~ (Deprecate[v] \subseteq EntriesOf(base'[v].rows))
               /\ \A i \in DOMAIN written'[v] \ DOMAIN base'[v].rows :
                    /\ written'[v][i].entry \in Deprecate[v] \ EntriesOf(base'[v].rows)
                    /\ written'[v][i].deleted_on = v
    <3>1. CASE v = u
      BY <2>2, <2>3, <2>5, <3>1
    <3>2. CASE v # u
      BY <2>6, <2>7, <3>2 DEF Additions
    <3>. QED
      BY <3>1, <3>2
  <2>. QED
    BY <2>7 DEF Additions
<1>. QED
  BY <1>3, <1>4

LEMMA AdditionsStep == IInv /\ Additions /\ [Next]_vars => Additions'
<1>. SUFFICES ASSUME IInv, Additions, [Next]_vars PROVE Additions'
  OBVIOUS
<1>1. TypeOK /\ Missing \in File /\ file \in File
  BY FileFacts DEF IInv, TypeOK
<1>2. ASSUME NEW u \in Update, Read(u) \/ ReadFails(u) PROVE Additions'
  BY <1>1, <1>2, MergeAdds DEF Read, ReadFails
<1>3. ASSUME NEW u \in Update,
             pc' = [pc EXCEPT ![u] = "done"] /\ UNCHANGED <<base, written>>
      PROVE  Additions'
  <2>1. \A v \in Update : pc'[v] = "write" => pc[v] = "write"
    BY <1>1, <1>3 DEF TypeOK
  <2>. QED
    BY <1>3, <2>1 DEF Additions
<1>4. ASSUME UNCHANGED <<pc, base, written>> PROVE Additions'
  BY <1>4 DEF Additions
<1>5. ASSUME NEW u \in Update, Step(u) PROVE Additions'
  BY <1>2, <1>3, <1>5
  DEF Step, Skip, ReadMalformed, Write, Refused, WriteFails, Goto
<1>. QED
  BY <1>4, <1>5 DEF Next, Edit, TokenExpires, vars

(* A write is where the update records, and it adds to what is there.      *)
LEMMA WriteRecords ==
  ASSUME IInv, Additions, NEW u \in Update, Write(u)
  PROVE  AtOnce!Record(u)
<1>1. /\ pc[u] = "write" /\ file = base[u] /\ file' = Holding(written[u])
      /\ pc' = [pc EXCEPT ![u] = "done"]
  BY DEF Write, Accepted, Goto
<1>2. AtOnce!Ends(u)
  BY <1>1 DEF AtOnce!Ends, IInv, TypeOK
<1>3. /\ file.rows \in Seq(Row) /\ written[u] \in Seq(Row)
      /\ file'.rows = written[u] /\ file'.state = "present"
  BY <1>1, FileFacts DEF IInv, TypeOK, File
<1>4. /\ file.state # "malformed"
      /\ Distinct(written[u])
      /\ Len(file.rows) <= Len(written[u])
      /\ \A i \in DOMAIN file.rows : written[u][i] = file.rows[i]
      /\ Deprecate[u] \subseteq EntriesOf(written[u])
  BY <1>1 DEF IInv, Pending
<1>5. /\ ~ (Deprecate[u] \subseteq EntriesOf(file.rows))
      /\ \A i \in DOMAIN written[u] \ DOMAIN file.rows :
           /\ written[u][i].entry \in Deprecate[u] \ EntriesOf(file.rows)
           /\ written[u][i].deleted_on = u
  BY <1>1 DEF Additions
<1>6. DOMAIN file.rows \subseteq DOMAIN written[u]
  BY <1>3, <1>4
<1>7. AtOnce!Adds(u, file.rows, written[u])
  BY <1>4, <1>5, <1>6
  DEF AtOnce!Adds, AtOnce!Entries, AtOnce!OncePerEntry, EntriesOf, Distinct
<1>. QED
  BY <1>2, <1>3, <1>4, <1>5, <1>7 DEF AtOnce!Record, AtOnce!Entries, EntriesOf

(* People add no row.                                                      *)
LEMMA EditCleansUp ==
  ASSUME IInv, Edit
  PROVE  AtOnce!CleanUp
<1>1. Distinct(file'.rows) /\ file.rows \in Seq(Row)
  <2>1. IInv'
    BY EditInv
  <2>. QED
    BY <2>1 DEF IInv, NoEntryTwice, TypeOK, File
<1>2. \A i \in DOMAIN file'.rows : \E j \in DOMAIN file.rows : file'.rows[i] = file.rows[j]
  <2>1. CASE file' \in {Missing, Malformed, Holding(<<>>)}
    BY <2>1 DEF Missing, Malformed, Holding
  <2>2. ASSUME NEW k \in DOMAIN file.rows, file' = Holding(Without(file.rows, k))
        PROVE  \A i \in DOMAIN file'.rows : \E j \in DOMAIN file.rows : file'.rows[i] = file.rows[j]
    <3>1. file'.rows = Without(file.rows, k)
      BY <2>2 DEF Holding
    <3>2. /\ DOMAIN file.rows = 1 .. Len(file.rows) /\ Len(file.rows) \in Nat
          /\ DOMAIN Without(file.rows, k) = 1 .. Len(file.rows) - 1
          /\ \A i \in 1 .. Len(file.rows) - 1 :
               Without(file.rows, k)[i] = IF i < k THEN file.rows[i] ELSE file.rows[i + 1]
      BY <1>1 DEF Without
    <3>3. ASSUME NEW i \in 1 .. Len(file.rows) - 1
          PROVE  \E j \in DOMAIN file.rows : Without(file.rows, k)[i] = file.rows[j]
      <4>1. i \in DOMAIN file.rows /\ i + 1 \in DOMAIN file.rows
        BY <3>2
      <4>. QED
        BY <3>2, <4>1
    <3>. QED
      BY <3>1, <3>2, <3>3
  <2>. QED
    BY <2>1, <2>2 DEF Edit
<1>3. pc' = pc
  BY DEF Edit
<1>. QED
  BY <1>1, <1>2, <1>3 DEF AtOnce!CleanUp, AtOnce!OncePerEntry, Distinct

LEMMA StepAtOnce ==
  IInv /\ Additions /\ [Next]_vars => [AtOnce!Next]_(AtOnce!vars)
<1>. SUFFICES ASSUME IInv, Additions, [Next]_vars PROVE [AtOnce!Next]_(AtOnce!vars)
  OBVIOUS
<1>1. ASSUME UNCHANGED <<file, pc>> PROVE UNCHANGED AtOnce!vars
  BY <1>1 DEF AtOnce!vars
<1>2. ASSUME NEW u \in Update, pc[u] # "done", pc' = [pc EXCEPT ![u] = "done"], file' = file
      PROVE  AtOnce!Next
  <2>1. AtOnce!Ends(u)
    BY <1>2 DEF AtOnce!Ends, IInv, TypeOK
  <2>. QED
    BY <1>2, <2>1 DEF AtOnce!RecordNothing, AtOnce!Next
<1>3. ASSUME NEW u \in Update, NEW found, pc[u] = "read", Merge(u, found), file' = file
      PROVE  [AtOnce!Next]_(AtOnce!vars)
  <2>1. CASE pc' = [pc EXCEPT ![u] = "done"]
    BY <1>2, <1>3, <2>1
  <2>2. CASE pc' = [pc EXCEPT ![u] = "write"]
    <3>1. pc'[u] # "done" /\ pc[u] # "done" /\ \A v \in Update \ {u} : pc'[v] = pc[v]
      BY <1>3, <2>2 DEF IInv, TypeOK
    <3>2. {v \in Update : pc'[v] # "done"} = {v \in Update : pc[v] # "done"}
      BY <3>1
    <3>. QED
      BY <1>3, <3>2 DEF AtOnce!vars
  <2>. QED
    BY <1>3, <2>1, <2>2 DEF Merge, Goto
<1>4. ASSUME NEW u \in Update, Step(u) PROVE [AtOnce!Next]_(AtOnce!vars)
  <2>1. CASE Skip(u) \/ ReadMalformed(u) \/ Refused(u) \/ WriteFails(u)
    BY <1>2, <2>1 DEF Skip, ReadMalformed, Refused, WriteFails, Reading, Goto
  <2>2. CASE Read(u) \/ ReadFails(u)
    BY <1>3, <2>2 DEF Read, ReadFails, Reading
  <2>3. CASE Write(u)
    BY <2>3, WriteRecords DEF AtOnce!Next
  <2>. QED
    BY <1>4, <2>1, <2>2, <2>3 DEF Step
<1>. QED
  BY <1>1, <1>4, EditCleansUp DEF Next, TokenExpires, vars, AtOnce!Next

(* However updates, failures and people interleave between the request     *)
(* that reads the file and the one that writes it, each update is as if it *)
(* added what is missing at one instant, or nothing.                       *)
THEOREM RecordedAtOnce == Spec => RecordsAtOnce
<1>1. Init => AtOnce!Init
  <2>. SUFFICES ASSUME Init PROVE AtOnce!Init
    OBVIOUS
  <2>. QED
    BY DEF Init, AtOnce!Init, Missing, Holding
<1>2. Init => IInv /\ Additions
  <2>1. Init => Additions
    BY DEF Init, Additions
  <2>. QED
    BY <2>1, InitInv
<1>3. IInv /\ Additions /\ [Next]_vars => (IInv /\ Additions)'
  BY NextInv, AdditionsStep
<1>4. IInv /\ Additions /\ [Next]_vars => [AtOnce!Next]_(AtOnce!vars)
  BY StepAtOnce
<1>5. Init /\ [][Next]_vars => AtOnce!Init /\ [][AtOnce!Next]_(AtOnce!vars)
  BY <1>1, <1>2, <1>3, <1>4, PTL
<1>. QED
  BY <1>5 DEF Spec, RecordsAtOnce, AtOnce!Spec
=============================================================================

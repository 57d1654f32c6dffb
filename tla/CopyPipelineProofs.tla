-------------------------- MODULE CopyPipelineProofs --------------------------
(***************************************************************************)
(* Proofs about CopyPipeline and FileCounts, for any deliveries, workflows,*)
(* plans and matches, any number of attempts, with and without panics.     *)
(***************************************************************************)
EXTENDS FileCounts, FiniteSetTheorems, FunctionTheorems, WellFoundedInduction, TLAPS

-----------------------------------------------------------------------------
(* Where a goroutine stands constrains its counters and what it holds.     *)
PlaceOK ==
  \A d \in Delivery :
    /\ pc[d] \in {"prepare", "workflow", "put", "upload", "drain", "record",
                  "clear", "finish", "failed", "waiting"} => attempt[d] \in 1 .. MaxAttempts
    /\ pc[d] = "waiting" => attempt[d] < MaxAttempts
    /\ pc[d] = "put" => matches[d] # <<>>

TypeInv == TypeOK /\ PlaceOK

(* The key of a workflow is an upload key.                                 *)
LEMMA KeyType == ASSUME NEW w \in Workflow PROVE KeyOf(w) \in UploadKey
  BY CopyPipelineAssumption
     DEF KeyOf, UploadKey, Dest, Strategy, getCommitStrategyType, CopyPipelineAssumption

(* Merging a file into a batch gives a batch.                              *)
LEMMA MergeType ==
  ASSUME NEW b \in Batch, NEW w \in Workflow, NEW f \in CopiedFile
  PROVE  Merge(b, w, f) \in Batch
<1>1. Append(b.files, f) \in Seq(CopiedFile)
  BY DEF Batch
<1>2. Merge(b, w, f).autoMerge \in BOOLEAN
  BY CopyPipelineAssumption DEF Merge, Batch, CopyPipelineAssumption
<1>3. Merge(b, w, f).prTemplate \in BOOLEAN
  BY CopyPipelineAssumption DEF Merge, Batch, CopyPipelineAssumption
<1>. QED
  BY <1>1, <1>2, <1>3 DEF Merge, Batch

(* The first of a delivery's matches is a file of one of its workflows.    *)
LEMMA HeadType ==
  ASSUME TypeOK, NEW d \in Delivery, matches[d] # <<>>
  PROVE  /\ Head(matches[d]) \in PendingMatch
         /\ Tail(matches[d]) \in Seq(PendingMatch)
         /\ Head(matches[d]).workflow \in Workflow
         /\ FileOf(d) \in CopiedFile
<1>1. matches[d] \in Seq(PendingMatch)
  BY DEF TypeOK, LocalType
<1>2. Head(matches[d]) \in PendingMatch /\ Tail(matches[d]) \in Seq(PendingMatch)
  BY <1>1
<1>. QED
  BY <1>2 DEF PendingMatch, FileOf, CopiedFile

(* The matches of a workflow, tagged with it, are a sequence of matches.   *)
LEMMA TaggedType ==
  ASSUME NEW d \in Delivery, NEW w \in Workflow
  PROVE  [i \in DOMAIN Matches[d][w] |->
            [workflow |-> w, path |-> Matches[d][w][i].path,
             deleted |-> Matches[d][w][i].deleted]] \in Seq(PendingMatch)
<1>1. Matches[d][w] \in Seq(Match)
  BY CopyPipelineAssumption DEF CopyPipelineAssumption
<1>2. \A i \in DOMAIN Matches[d][w] : Matches[d][w][i] \in Match
  BY <1>1
<1>. DEFINE tag(i) == [workflow |-> w, path |-> Matches[d][w][i].path,
                       deleted |-> Matches[d][w][i].deleted]
<1>3. \A i \in DOMAIN Matches[d][w] : tag(i) \in PendingMatch
  BY <1>2 DEF Match, PendingMatch
<1>4. DOMAIN Matches[d][w] = 1 .. Len(Matches[d][w]) /\ Len(Matches[d][w]) \in Nat
  BY <1>1
<1>. HIDE DEF tag
<1>5. [i \in 1 .. Len(Matches[d][w]) |-> tag(i)] \in Seq(PendingMatch)
  BY <1>3, <1>4
<1>. QED
  BY <1>4, <1>5 DEF tag

(* Flattening yields queued entries.                                       *)
LEMMA FlattenedType ==
  ASSUME filesToDeprecate \in [DepFile -> Seq(Entry)], NEW order
  PROVE  Flattened(order) \subseteq Entry
  BY DEF Flattened

LEMMA EmptyTypes ==
  /\ NoBatch \in Batch
  /\ NoUploads \in [UploadKey -> Batch]
  /\ NoDeprecations \in [DepFile -> Seq(Entry)]
<1>1. NoBatch \in Batch
  BY DEF NoBatch, Batch
<1>. QED
  BY <1>1 DEF NoUploads, NoDeprecations

-----------------------------------------------------------------------------
LEMMA AttemptsType == MaxAttempts \in Nat /\ MaxAttempts >= 1
<1>1. MaxAttempts \in Nat \ {0}
  BY CopyPipelineAssumption, Zenon DEF CopyPipelineAssumption
<1>. QED
  BY <1>1

LEMMA PlanType == \A d \in Delivery : Plan[d] \in Seq(Workflow)
  BY CopyPipelineAssumption DEF CopyPipelineAssumption

LEMMA TypeInit == Init => TypeInv
<1>. SUFFICES ASSUME Init PROVE TypeInv
  OBVIOUS
<1>1. QueueType
  BY EmptyTypes DEF Init, QueueType
<1>2. ControlType
  BY AttemptsType DEF Init, ControlType, Retired
<1>3. LocalType
  <2>1. content \in [Delivery -> Batch] /\ snapshot \in [Delivery -> [UploadKey -> Batch]]
    BY EmptyTypes DEF Init
  <2>2. workflows \in [Delivery -> Seq(Workflow)]
    BY DEF Init
  <2>3. matches \in [Delivery -> Seq(PendingMatch)]
    BY DEF Init
  <2>. QED
    BY <2>1, <2>2, <2>3 DEF Init, LocalType
<1>4. HistoryType
  BY DEF Init, HistoryType
<1>5. PlaceOK
  BY DEF Init, PlaceOK
<1>. QED
  BY <1>1, <1>2, <1>3, <1>4, <1>5 DEF TypeInv, TypeOK

(* Every step keeps the types.                                             *)
LEMMA TypeStep == TypeInv /\ [Next]_vars => TypeInv'
<1>. SUFFICES ASSUME TypeInv, [Next]_vars PROVE TypeInv'
  OBVIOUS
<1>. USE DEF TypeInv, TypeOK, queues, control, locals, history, Goto, Fail,
        Retired, Attempting
<1>u. CASE UNCHANGED vars
  <2>1. TypeOK'
    BY <1>u DEF vars, QueueType, ControlType, LocalType, HistoryType
  <2>2. PlaceOK'
    BY <1>u DEF vars, PlaceOK
  <2>. QED
    BY <2>1, <2>2
<1>. SUFFICES ASSUME NEW d \in Delivery,
                     Start(d) \/ Step(d) \/ ContextExpires(d) \/ Panic(d)
              PROVE  TypeInv'
  BY <1>u DEF Next
<1>1. CASE Start(d)
  <2>1. QueueType'
    BY <1>1 DEF Start, QueueType
  <2>2. ControlType'
    BY <1>1, AttemptsType DEF Start, ControlType, PlaceOK
  <2>3. LocalType'
    BY <1>1 DEF Start, LocalType
  <2>4. HistoryType'
    BY <1>1 DEF Start, HistoryType
  <2>5. PlaceOK'
    BY <1>1, AttemptsType DEF Start, PlaceOK, ControlType
  <2>. QED
    BY <2>1, <2>2, <2>3, <2>4, <2>5
<1>2. CASE ContextExpires(d)
  <2>1. QueueType'
    BY <1>2 DEF ContextExpires, QueueType
  <2>2. ControlType'
    BY <1>2, AttemptsType DEF ContextExpires, ControlType, PlaceOK
  <2>3. LocalType'
    BY <1>2 DEF ContextExpires, LocalType
  <2>4. HistoryType'
    BY <1>2 DEF ContextExpires, HistoryType
  <2>5. PlaceOK'
    BY <1>2 DEF ContextExpires, PlaceOK, ControlType
  <2>. QED
    BY <2>1, <2>2, <2>3, <2>4, <2>5
<1>3. CASE Prepare(d)
  <2>1. QueueType'
    BY <1>3 DEF Prepare, QueueType
  <2>2. ControlType'
    BY <1>3, AttemptsType DEF Prepare, ControlType, PlaceOK
  <2>3. LocalType'
    <3>1. workflows' \in [Delivery -> Seq(Workflow)]
      BY <1>3, PlanType DEF Prepare, LocalType
    <3>. QED
      BY <1>3, <3>1 DEF Prepare, LocalType
  <2>4. HistoryType'
    BY <1>3 DEF Prepare, HistoryType
  <2>5. PlaceOK'
    BY <1>3 DEF Prepare, PlaceOK, ControlType
  <2>. QED
    BY <2>1, <2>2, <2>3, <2>4, <2>5
<1>4. CASE PrepareFails(d)
  <2>1. QueueType'
    BY <1>4 DEF PrepareFails, QueueType
  <2>2. ControlType'
    BY <1>4, AttemptsType DEF PrepareFails, ControlType, PlaceOK
  <2>3. LocalType'
    BY <1>4 DEF PrepareFails, LocalType
  <2>4. HistoryType'
    BY <1>4 DEF PrepareFails, HistoryType
  <2>5. PlaceOK'
    BY <1>4 DEF PrepareFails, PlaceOK, ControlType
  <2>. QED
    BY <2>1, <2>2, <2>3, <2>4, <2>5
<1>5. CASE CancelWorkflow(d)
  <2>1. QueueType'
    BY <1>5 DEF CancelWorkflow, QueueType
  <2>2. ControlType'
    BY <1>5 DEF CancelWorkflow, ControlType
  <2>3. LocalType'
    BY <1>5, EmptyTypes DEF CancelWorkflow, LocalType
  <2>4. HistoryType'
    BY <1>5 DEF CancelWorkflow, HistoryType
  <2>5. PlaceOK'
    BY <1>5 DEF CancelWorkflow, PlaceOK, ControlType
  <2>. QED
    BY <2>1, <2>2, <2>3, <2>4, <2>5
<1>6. CASE MatchFiles(d)
  <2>1. QueueType'
    BY <1>6 DEF MatchFiles, QueueType
  <2>2. ControlType'
    BY <1>6 DEF MatchFiles, ControlType
  <2>3. LocalType'
    <3>1. Head(workflows[d]) \in Workflow /\ Tail(workflows[d]) \in Seq(Workflow)
      BY <1>6 DEF MatchFiles, LocalType
    <3>2. matches' \in [Delivery -> Seq(PendingMatch)]
      BY <1>6, <3>1, TaggedType DEF MatchFiles, LocalType
    <3>3. workflows' \in [Delivery -> Seq(Workflow)]
      BY <1>6, <3>1 DEF MatchFiles, LocalType
    <3>. QED
      BY <1>6, <3>2, <3>3 DEF MatchFiles, LocalType
  <2>4. HistoryType'
    BY <1>6 DEF MatchFiles, HistoryType
  <2>5. PlaceOK'
    BY <1>6 DEF MatchFiles, PlaceOK, ControlType
  <2>. QED
    BY <2>1, <2>2, <2>3, <2>4, <2>5
<1>7. CASE SkipUnfetched(d)
  <2>1. QueueType'
    BY <1>7 DEF SkipUnfetched, QueueType
  <2>2. ControlType'
    BY <1>7 DEF SkipUnfetched, ControlType
  <2>3. LocalType'
    BY <1>7, EmptyTypes DEF SkipUnfetched, LocalType
  <2>4. HistoryType'
    BY <1>7 DEF SkipUnfetched, HistoryType
  <2>5. PlaceOK'
    BY <1>7 DEF SkipUnfetched, PlaceOK, ControlType
  <2>. QED
    BY <2>1, <2>2, <2>3, <2>4, <2>5
<1>8. CASE QueueRead(d)
  <2>1. QueueType'
    BY <1>8 DEF QueueRead, QueueType
  <2>2. ControlType'
    BY <1>8, AttemptsType DEF QueueRead, ControlType, PlaceOK
  <2>3. LocalType'
    <3>1. filesToUpload[KeyOf(Head(matches[d]).workflow)] \in Batch
      BY <1>8, HeadType, KeyType DEF QueueRead, QueueType
    <3>2. content' \in [Delivery -> Batch]
      BY <1>8, <3>1 DEF QueueRead, LocalType
    <3>. QED
      BY <1>8, <3>2 DEF QueueRead, LocalType
  <2>4. HistoryType'
    BY <1>8 DEF QueueRead, HistoryType
  <2>5. PlaceOK'
    BY <1>8 DEF QueueRead, PlaceOK, ControlType
  <2>. QED
    BY <2>1, <2>2, <2>3, <2>4, <2>5
<1>9. CASE QueueWrite(d)
  <2>1. QueueType'
    <3>1. matches[d] # <<>>
      BY <1>9 DEF QueueWrite, PlaceOK
    <3>2. Merge(content[d], Head(matches[d]).workflow, FileOf(d)) \in Batch
      BY <3>1, HeadType, MergeType DEF LocalType
    <3>. QED
      BY <1>9, <3>2 DEF QueueWrite, QueueType
  <2>2. ControlType'
    BY <1>9, AttemptsType DEF QueueWrite, ControlType, PlaceOK
  <2>3. LocalType'
    <3>1. Tail(matches[d]) \in Seq(PendingMatch)
      BY <1>9, HeadType DEF QueueWrite, PlaceOK
    <3>2. matches' \in [Delivery -> Seq(PendingMatch)]
      BY <1>9, <3>1 DEF QueueWrite, LocalType
    <3>3. content' \in [Delivery -> Batch]
      BY <1>9, EmptyTypes DEF QueueWrite, LocalType
    <3>. QED
      BY <1>9, <3>2, <3>3 DEF QueueWrite, LocalType
  <2>4. HistoryType'
    <3>1. FileOf(d) \in CopiedFile
      BY <1>9, HeadType DEF QueueWrite, PlaceOK
    <3>2. queued' \in [Delivery -> SUBSET CopiedFile]
      BY <1>9, <3>1 DEF QueueWrite, HistoryType
    <3>. QED
      BY <1>9, <3>2 DEF QueueWrite, HistoryType
  <2>5. PlaceOK'
    BY <1>9 DEF QueueWrite, PlaceOK, ControlType
  <2>. QED
    BY <2>1, <2>2, <2>3, <2>4, <2>5
<1>10. CASE QueueDeprecation(d)
  <2>1. QueueType'
    <3>. DEFINE m == Head(matches[d])
                e == [path |-> m.path, dest |-> Destination[m.workflow]]
    <3>1. e \in Entry
      BY <1>10, HeadType DEF QueueDeprecation, Entry, Dest, PendingMatch
    <3>2. CASE DeprecationFile[m.workflow] = NoFile
      BY <1>10, <3>2 DEF QueueDeprecation, QueueType
    <3>3. CASE DeprecationFile[m.workflow] # NoFile
      <4>1. DeprecationFile[m.workflow] \in DepFile
        BY <1>10, <3>3, HeadType DEF QueueDeprecation, DepFile
      <4>2. filesToDeprecate' =
              [filesToDeprecate EXCEPT ![DeprecationFile[m.workflow]] = Append(@, e)]
        BY <1>10, <3>3 DEF QueueDeprecation
      <4>. HIDE DEF m, e
      <4>3. filesToDeprecate' \in [DepFile -> Seq(Entry)]
        BY <3>1, <4>1, <4>2 DEF QueueType
      <4>. QED
        BY <1>10, <4>3 DEF QueueDeprecation, QueueType
    <3>. QED
      BY <3>2, <3>3
  <2>2. ControlType'
    BY <1>10 DEF QueueDeprecation, ControlType
  <2>3. LocalType'
    BY <1>10, EmptyTypes DEF QueueDeprecation, LocalType
  <2>4. HistoryType'
    <3>. DEFINE m == Head(matches[d])
                e == [path |-> m.path, dest |-> Destination[m.workflow]]
    <3>1. e \in Entry
      BY <1>10, HeadType DEF QueueDeprecation, Entry, Dest, PendingMatch
    <3>2. noted' \in [Delivery -> SUBSET Entry]
      BY <1>10, <3>1 DEF QueueDeprecation, HistoryType
    <3>. QED
      BY <1>10, <3>2 DEF QueueDeprecation, HistoryType
  <2>5. PlaceOK'
    BY <1>10 DEF QueueDeprecation, PlaceOK, ControlType
  <2>. QED
    BY <2>1, <2>2, <2>3, <2>4, <2>5
<1>11. CASE TakeUploads(d)
  <2>1. QueueType'
    BY <1>11 DEF TakeUploads, QueueType
  <2>2. ControlType'
    BY <1>11, AttemptsType DEF TakeUploads, ControlType, PlaceOK
  <2>3. LocalType'
    <3>1. snapshot' \in [Delivery -> [UploadKey -> Batch]]
      BY <1>11, EmptyTypes DEF TakeUploads, LocalType, QueueType
    <3>. QED
      BY <1>11, <3>1 DEF TakeUploads, LocalType
  <2>4. HistoryType'
    BY <1>11 DEF TakeUploads, HistoryType
  <2>5. PlaceOK'
    BY <1>11 DEF TakeUploads, PlaceOK, ControlType
  <2>. QED
    BY <2>1, <2>2, <2>3, <2>4, <2>5
<1>12. CASE \E k \in UploadKey : Upload(d, k)
  <2>1. QueueType'
    BY <1>12 DEF Upload, QueueType
  <2>2. ControlType'
    BY <1>12 DEF Upload, ControlType
  <2>3. LocalType'
    BY <1>12, EmptyTypes DEF Upload, LocalType
  <2>4. HistoryType'
    <3>1. PICK k \in UploadKey, ok \in BOOLEAN :
            uploads' = [uploads EXCEPT ![d] =
              @ \cup {[key |-> k, batch |-> snapshot[d][k], ok |-> ok]}]
      BY <1>12 DEF Upload
    <3>2. [key |-> k, batch |-> snapshot[d][k], ok |-> ok] \in UploadTried
      BY DEF LocalType, UploadTried
    <3>3. uploads' \in [Delivery -> SUBSET UploadTried]
      BY <3>1, <3>2 DEF HistoryType
    <3>. QED
      BY <1>12, <3>3 DEF Upload, HistoryType
  <2>5. PlaceOK'
    BY <1>12 DEF Upload, PlaceOK, ControlType
  <2>. QED
    BY <2>1, <2>2, <2>3, <2>4, <2>5
<1>13. CASE ClearUploads(d)
  <2>1. QueueType'
    BY <1>13, EmptyTypes DEF ClearUploads, QueueType
  <2>2. ControlType'
    BY <1>13, AttemptsType DEF ClearUploads, ControlType, PlaceOK
  <2>3. LocalType'
    BY <1>13 DEF ClearUploads, LocalType
  <2>4. HistoryType'
    BY <1>13 DEF ClearUploads, HistoryType
  <2>5. PlaceOK'
    BY <1>13 DEF ClearUploads, PlaceOK, ControlType
  <2>. QED
    BY <2>1, <2>2, <2>3, <2>4, <2>5
<1>14. CASE TakeDeprecations(d)
  <2>1. QueueType'
    BY <1>14 DEF TakeDeprecations, QueueType
  <2>2. ControlType'
    BY <1>14, AttemptsType DEF TakeDeprecations, ControlType, PlaceOK
  <2>3. LocalType'
    <3>1. PICK order : deprecated' = [deprecated EXCEPT ![d] = Flattened(order)]
      BY <1>14 DEF TakeDeprecations
    <3>2. deprecated' \in [Delivery -> SUBSET Entry]
      BY <3>1, FlattenedType DEF LocalType, QueueType
    <3>. QED
      BY <1>14, <3>2 DEF TakeDeprecations, LocalType
  <2>4. HistoryType'
    BY <1>14 DEF TakeDeprecations, HistoryType
  <2>5. PlaceOK'
    BY <1>14 DEF TakeDeprecations, PlaceOK, ControlType
  <2>. QED
    BY <2>1, <2>2, <2>3, <2>4, <2>5
<1>15. CASE RecordDeprecations(d)
  <2>1. QueueType'
    BY <1>15 DEF RecordDeprecations, QueueType
  <2>2. ControlType'
    BY <1>15, AttemptsType DEF RecordDeprecations, ControlType, PlaceOK
  <2>3. LocalType'
    BY <1>15, EmptyTypes DEF RecordDeprecations, LocalType
  <2>4. HistoryType'
    <3>1. recorded' \in [Delivery -> SUBSET Entry]
      BY <1>15 DEF RecordDeprecations, HistoryType, LocalType
    <3>. QED
      BY <1>15, <3>1 DEF RecordDeprecations, HistoryType
  <2>5. PlaceOK'
    BY <1>15 DEF RecordDeprecations, PlaceOK, ControlType
  <2>. QED
    BY <2>1, <2>2, <2>3, <2>4, <2>5
<1>16. CASE ClearDeprecations(d)
  <2>1. QueueType'
    BY <1>16, EmptyTypes DEF ClearDeprecations, QueueType
  <2>2. ControlType'
    BY <1>16, AttemptsType DEF ClearDeprecations, ControlType, PlaceOK
  <2>3. LocalType'
    BY <1>16 DEF ClearDeprecations, LocalType
  <2>4. HistoryType'
    BY <1>16 DEF ClearDeprecations, HistoryType
  <2>5. PlaceOK'
    BY <1>16 DEF ClearDeprecations, PlaceOK, ControlType
  <2>. QED
    BY <2>1, <2>2, <2>3, <2>4, <2>5
<1>17. CASE Finish(d)
  <2>1. QueueType'
    BY <1>17 DEF Finish, QueueType
  <2>2. ControlType'
    BY <1>17, AttemptsType DEF Finish, ControlType, PlaceOK
  <2>3. LocalType'
    BY <1>17 DEF Finish, LocalType
  <2>4. HistoryType'
    BY <1>17 DEF Finish, HistoryType
  <2>5. PlaceOK'
    BY <1>17 DEF Finish, PlaceOK, ControlType
  <2>. QED
    BY <2>1, <2>2, <2>3, <2>4, <2>5
<1>18. CASE Panic(d)
  <2>1. QueueType'
    BY <1>18 DEF Panic, QueueType
  <2>2. ControlType'
    BY <1>18, AttemptsType DEF Panic, ControlType, PlaceOK
  <2>3. LocalType'
    BY <1>18, EmptyTypes DEF Panic, LocalType
  <2>4. HistoryType'
    BY <1>18 DEF Panic, HistoryType
  <2>5. PlaceOK'
    BY <1>18 DEF Panic, PlaceOK, ControlType
  <2>. QED
    BY <2>1, <2>2, <2>3, <2>4, <2>5
<1>19. CASE GiveUp(d)
  <2>1. QueueType'
    BY <1>19 DEF GiveUp, QueueType
  <2>2. ControlType'
    BY <1>19, AttemptsType DEF GiveUp, ControlType, PlaceOK
  <2>3. LocalType'
    BY <1>19 DEF GiveUp, LocalType
  <2>4. HistoryType'
    BY <1>19 DEF GiveUp, HistoryType
  <2>5. PlaceOK'
    BY <1>19 DEF GiveUp, PlaceOK, ControlType
  <2>. QED
    BY <2>1, <2>2, <2>3, <2>4, <2>5
<1>20. CASE WaitToRetry(d)
  <2>1. QueueType'
    BY <1>20 DEF WaitToRetry, QueueType
  <2>2. ControlType'
    BY <1>20, AttemptsType DEF WaitToRetry, ControlType, PlaceOK
  <2>3. LocalType'
    BY <1>20 DEF WaitToRetry, LocalType
  <2>4. HistoryType'
    BY <1>20 DEF WaitToRetry, HistoryType
  <2>5. PlaceOK'
    BY <1>20 DEF WaitToRetry, MayRetry, PlaceOK, ControlType
  <2>. QED
    BY <2>1, <2>2, <2>3, <2>4, <2>5
<1>21. CASE Retry(d)
  <2>1. QueueType'
    BY <1>21 DEF Retry, QueueType
  <2>2. ControlType'
    BY <1>21, AttemptsType DEF Retry, ControlType, PlaceOK
  <2>3. LocalType'
    BY <1>21 DEF Retry, LocalType
  <2>4. HistoryType'
    BY <1>21 DEF Retry, HistoryType
  <2>5. PlaceOK'
    BY <1>21, AttemptsType DEF Retry, PlaceOK, ControlType
  <2>. QED
    BY <2>1, <2>2, <2>3, <2>4, <2>5
<1>. QED
  BY <1>1, <1>2, <1>3, <1>4, <1>5, <1>6, <1>7, <1>8, <1>9, <1>10, <1>11,
     <1>12, <1>13, <1>14, <1>15, <1>16, <1>17, <1>18, <1>19, <1>20, <1>21 DEF
     Step

(* The goroutines and the queues stay well typed, and no delivery is       *)
(* attempted more than MaxAttempts times, however the deliveries           *)
(* interleave, fail, panic and retry.                                      *)
THEOREM TypeCorrect == Spec => []TypeOK
<1>1. TypeInv => TypeOK
  BY DEF TypeInv
<1>. QED
  BY TypeInit, TypeStep, <1>1, PTL DEF Spec

-----------------------------------------------------------------------------
(* What the pipeline holds comes from the plan: the workflows left to      *)
(* process are of the plan, and the matches left to queue are matches.     *)
Planned(d, w) == \E i \in DOMAIN Plan[d] : Plan[d][i] = w

Matched(d, w, path, deleted) ==
  \E i \in DOMAIN Matches[d][w] :
    Matches[d][w][i].path = path /\ Matches[d][w][i].deleted = deleted

MatchInv ==
  \A d \in Delivery :
    /\ \A i \in DOMAIN workflows[d] : Planned(d, workflows[d][i])
    /\ \A i \in DOMAIN matches[d] :
         LET m == matches[d][i]
         IN  Planned(d, m.workflow) /\ Matched(d, m.workflow, m.path, m.deleted)

(* Every batch, wherever it is, agrees with its files on the settings and  *)
(* on the place, and its files are files a pull request changed.  The      *)
(* batch a goroutine has read and not yet written back counts: this is     *)
(* what makes the invariant inductive across the unlocked gap.             *)
Wanted(f) ==
  Planned(f.pr, f.workflow) /\ Matched(f.pr, f.workflow, f.path, FALSE)

GoodBatch(k, b) ==
  /\ SettingsAgree(b)
  /\ \A f \in FilesOf(b) : KeyOf(f.workflow) = k /\ Wanted(f)

BatchInv ==
  /\ \A k \in UploadKey : GoodBatch(k, filesToUpload[k])
  /\ \A d \in Delivery : \A k \in UploadKey : GoodBatch(k, snapshot[d][k])
  /\ \A d \in Delivery : \A u \in uploads[d] : GoodBatch(u.key, u.batch)
  /\ \A d \in Delivery : pc[d] = "put" =>
       /\ ~ Head(matches[d]).deleted
       /\ GoodBatch(KeyOf(Head(matches[d]).workflow), content[d])

(* Head and tail of a sequence take their elements from it.                *)
LEMMA HeadTail ==
  ASSUME NEW S, NEW s \in Seq(S), s # <<>>
  PROVE  /\ 1 \in DOMAIN s /\ Head(s) = s[1]
         /\ \A i \in DOMAIN Tail(s) : i + 1 \in DOMAIN s /\ Tail(s)[i] = s[i + 1]
OBVIOUS

LEMMA EmptyIsGood == ASSUME NEW k PROVE GoodBatch(k, NoBatch)
  BY DEF GoodBatch, SettingsAgree, Exists, FilesOf, NoBatch

LEMMA NoUploadsIsGood == \A k \in UploadKey : GoodBatch(k, NoUploads[k])
  BY EmptyIsGood DEF NoUploads

(* The files of a merged batch are those it had and the new one.           *)
LEMMA MergeFiles ==
  ASSUME NEW b \in Batch, NEW w, NEW f \in CopiedFile
  PROVE  FilesOf(Merge(b, w, f)) = FilesOf(b) \cup {f} /\ Exists(Merge(b, w, f))
<1>1. b.files \in Seq(CopiedFile) /\ Merge(b, w, f).files = Append(b.files, f)
  BY DEF Batch, Merge
<1>2. /\ DOMAIN Append(b.files, f) = 1 .. Len(b.files) + 1
      /\ DOMAIN b.files = 1 .. Len(b.files)
      /\ Len(b.files) \in Nat
      /\ Append(b.files, f)[Len(b.files) + 1] = f
      /\ \A i \in 1 .. Len(b.files) : Append(b.files, f)[i] = b.files[i]
  BY <1>1
<1>3. Append(b.files, f) # <<>>
  BY <1>1
<1>. QED
  BY <1>1, <1>2, <1>3 DEF FilesOf, Exists

(* Merging a wanted file of the batch's own key keeps the batch good.      *)
LEMMA MergeIsGood ==
  ASSUME NEW b \in Batch, NEW w \in Workflow, NEW f \in CopiedFile,
         GoodBatch(KeyOf(w), b), f.workflow = w, Wanted(f)
  PROVE  GoodBatch(KeyOf(w), Merge(b, w, f))
<1>1. FilesOf(Merge(b, w, f)) = FilesOf(b) \cup {f}
  BY MergeFiles
<1>2. \A g \in FilesOf(Merge(b, w, f)) : KeyOf(g.workflow) = KeyOf(w) /\ Wanted(g)
  BY <1>1 DEF GoodBatch
<1>3. SettingsAgree(Merge(b, w, f))
  <2>1. CASE Exists(b)
    <3>1. b.autoMerge <=> \A g \in FilesOf(b) : AutoMerge[g.workflow]
      BY <2>1 DEF GoodBatch, SettingsAgree
    <3>2. b.prTemplate <=> \E g \in FilesOf(b) : UsePRTemplate[g.workflow]
      BY <2>1 DEF GoodBatch, SettingsAgree
    <3>3. /\ Merge(b, w, f).autoMerge = (b.autoMerge /\ AutoMerge[w])
          /\ Merge(b, w, f).prTemplate = (b.prTemplate \/ UsePRTemplate[w])
      BY <2>1 DEF Merge
    <3>. QED
      BY <1>1, <3>1, <3>2, <3>3, Zenon DEF SettingsAgree
  <2>2. CASE ~ Exists(b)
    <3>1. FilesOf(b) = {}
      BY <2>2 DEF Exists, FilesOf
    <3>2. /\ Merge(b, w, f).autoMerge = AutoMerge[w]
          /\ Merge(b, w, f).prTemplate = UsePRTemplate[w]
      BY <2>2 DEF Merge
    <3>. QED
      BY <1>1, <3>1, <3>2, Zenon DEF SettingsAgree
  <2>. QED
    BY <2>1, <2>2
<1>. QED
  BY <1>2, <1>3 DEF GoodBatch

LEMMA MatchInit == Init => MatchInv /\ BatchInv
<1>. SUFFICES ASSUME Init PROVE MatchInv /\ BatchInv
  OBVIOUS
<1>1. MatchInv
  BY DEF Init, MatchInv
<1>2. BatchInv
  BY NoUploadsIsGood DEF Init, BatchInv
<1>. QED
  BY <1>1, <1>2

(* Every step keeps to the plan.                                          *)
LEMMA MatchStep == TypeInv /\ MatchInv /\ [Next]_vars => MatchInv'
<1>. SUFFICES ASSUME TypeInv, MatchInv, [Next]_vars PROVE MatchInv'
  OBVIOUS
<1>. USE DEF TypeInv, TypeOK, MatchInv, LocalType, Goto, Fail, queues,
        control, locals, history
<1>u. CASE UNCHANGED vars
  BY <1>u DEF vars
<1>. SUFFICES ASSUME NEW d \in Delivery,
                     Start(d) \/ Step(d) \/ ContextExpires(d) \/ Panic(d)
              PROVE  MatchInv'
  BY <1>u DEF Next
<1>1. CASE Start(d)
  BY <1>1 DEF Start
<1>2. CASE ContextExpires(d)
  BY <1>2 DEF ContextExpires
<1>3. CASE Prepare(d)
  <2>1. workflows'[d] = Plan[d] /\ UNCHANGED matches
    BY <1>3 DEF Prepare
  <2>2. \A e \in Delivery \ {d} : workflows'[e] = workflows[e]
    BY <1>3 DEF Prepare
  <2>3. \A i \in DOMAIN workflows'[d] : Planned(d, workflows'[d][i])
    BY <2>1 DEF Planned
  <2>. QED
    BY <2>1, <2>2, <2>3 DEF MatchInv
<1>4. CASE PrepareFails(d)
  BY <1>4 DEF PrepareFails
<1>5. CASE CancelWorkflow(d)
  BY <1>5 DEF CancelWorkflow
<1>6. CASE MatchFiles(d)
  <2>. DEFINE w == Head(workflows[d])
  <2>1. Planned(d, w) /\ w \in Workflow
    BY <1>6, HeadTail DEF MatchFiles, MatchInv, LocalType
  <2>2. \A i \in DOMAIN workflows'[d] : Planned(d, workflows'[d][i])
    BY <1>6, HeadTail DEF MatchFiles, MatchInv, LocalType
  <2>3. matches'[d] = [i \in DOMAIN Matches[d][w] |->
                        [workflow |-> w, path |-> Matches[d][w][i].path,
                         deleted |-> Matches[d][w][i].deleted]]
    BY <1>6 DEF MatchFiles
  <2>4. \A i \in DOMAIN matches'[d] :
          LET m == matches'[d][i]
          IN  Planned(d, m.workflow) /\ Matched(d, m.workflow, m.path, m.deleted)
    <3>. SUFFICES ASSUME NEW i \in DOMAIN matches'[d]
                  PROVE  /\ Planned(d, matches'[d][i].workflow)
                         /\ Matched(d, matches'[d][i].workflow, matches'[d][i].path,
                                    matches'[d][i].deleted)
      OBVIOUS
    <3>. HIDE DEF w
    <3>1. i \in DOMAIN Matches[d][w]
      BY <2>3
    <3>2. /\ matches'[d][i].workflow = w
          /\ matches'[d][i].path = Matches[d][w][i].path
          /\ matches'[d][i].deleted = Matches[d][w][i].deleted
      BY <2>3, <3>1
    <3>. QED
      BY <2>1, <3>1, <3>2 DEF Matched
  <2>5. \A e \in Delivery \ {d} : workflows'[e] = workflows[e] /\ matches'[e] = matches[e]
    BY <1>6 DEF MatchFiles
  <2>. QED
    BY <2>2, <2>4, <2>5 DEF MatchInv
<1>7. CASE SkipUnfetched(d)
  BY <1>7 DEF SkipUnfetched
<1>8. CASE QueueRead(d)
  BY <1>8 DEF QueueRead
<1>9. CASE QueueWrite(d)
  <2>1. matches[d] # <<>> /\ matches' = [matches EXCEPT ![d] = Tail(@)]
    BY <1>9 DEF QueueWrite, PlaceOK
  <2>2. matches'[d] = Tail(matches[d]) /\ matches[d] \in Seq(PendingMatch)
    BY <2>1
  <2>3. \A i \in DOMAIN matches'[d] :
          LET m == matches'[d][i]
          IN  Planned(d, m.workflow) /\ Matched(d, m.workflow, m.path, m.deleted)
    BY <2>1, <2>2, HeadTail DEF MatchInv
  <2>4. UNCHANGED workflows /\ \A e \in Delivery \ {d} : matches'[e] = matches[e]
    BY <1>9 DEF QueueWrite
  <2>. QED
    BY <2>3, <2>4 DEF MatchInv
<1>10. CASE QueueDeprecation(d)
  BY <1>10 DEF QueueDeprecation
<1>11. CASE TakeUploads(d)
  BY <1>11 DEF TakeUploads
<1>12. CASE \E k \in UploadKey : Upload(d, k)
  BY <1>12 DEF Upload
<1>13. CASE ClearUploads(d)
  BY <1>13 DEF ClearUploads
<1>14. CASE TakeDeprecations(d)
  BY <1>14 DEF TakeDeprecations
<1>15. CASE RecordDeprecations(d)
  BY <1>15 DEF RecordDeprecations
<1>16. CASE ClearDeprecations(d)
  BY <1>16 DEF ClearDeprecations
<1>17. CASE Finish(d)
  BY <1>17 DEF Finish
<1>18. CASE Panic(d)
  BY <1>18 DEF Panic
<1>19. CASE GiveUp(d)
  BY <1>19 DEF GiveUp
<1>20. CASE WaitToRetry(d)
  BY <1>20 DEF WaitToRetry
<1>21. CASE Retry(d)
  BY <1>21 DEF Retry
<1>. QED
  BY <1>1, <1>2, <1>3, <1>4, <1>5, <1>6, <1>7, <1>8, <1>9, <1>10, <1>11,
     <1>12, <1>13, <1>14, <1>15, <1>16, <1>17, <1>18, <1>19, <1>20, <1>21 DEF
     Step

(* Every step keeps every batch good.                                      *)
LEMMA BatchStep == TypeInv /\ MatchInv /\ BatchInv /\ [Next]_vars => BatchInv'
<1>. SUFFICES ASSUME TypeInv, MatchInv, BatchInv, [Next]_vars PROVE BatchInv'
  OBVIOUS
<1>. USE DEF TypeInv, TypeOK, ControlType, LocalType, Goto, Fail, queues,
        history
<1>u. CASE UNCHANGED vars
  BY <1>u DEF vars, control, locals, BatchInv
<1>. SUFFICES ASSUME NEW d \in Delivery,
                     Start(d) \/ Step(d) \/ ContextExpires(d) \/ Panic(d)
              PROVE  BatchInv'
  BY <1>u DEF Next
<1>1. CASE Start(d)
  BY <1>1 DEF Start, BatchInv, QueueType, control, locals
<1>2. CASE ContextExpires(d)
  BY <1>2 DEF ContextExpires, BatchInv, QueueType, control, locals
<1>3. CASE Prepare(d)
  BY <1>3 DEF Prepare, BatchInv, QueueType, control, locals
<1>4. CASE PrepareFails(d)
  BY <1>4 DEF PrepareFails, BatchInv, QueueType, control, locals
<1>5. CASE CancelWorkflow(d)
  BY <1>5 DEF CancelWorkflow, BatchInv, QueueType, control, locals
<1>6. CASE MatchFiles(d)
  BY <1>6 DEF MatchFiles, BatchInv, QueueType, control, locals
<1>7. CASE SkipUnfetched(d)
  BY <1>7 DEF SkipUnfetched, BatchInv, QueueType, control, locals
<1>8. CASE QueueRead(d)
  <2>1. KeyOf(Head(matches[d]).workflow) \in UploadKey
    BY <1>8, HeadType, KeyType DEF QueueRead
  <2>2. content'[d] = filesToUpload[KeyOf(Head(matches[d]).workflow)]
    BY <1>8 DEF QueueRead
  <2>3. /\ UNCHANGED <<filesToUpload, snapshot, uploads, matches>>
        /\ ~ Head(matches[d]).deleted
        /\ \A e \in Delivery \ {d} : pc'[e] = pc[e] /\ content'[e] = content[e]
    BY <1>8 DEF QueueRead
  <2>. QED
    BY <2>1, <2>2, <2>3 DEF BatchInv
<1>9. CASE QueueWrite(d)
  <2>. DEFINE w == Head(matches[d]).workflow
  <2>1. matches[d] # <<>> /\ pc[d] = "put"
    BY <1>9 DEF QueueWrite, PlaceOK
  <2>2. w \in Workflow /\ FileOf(d) \in CopiedFile /\ content[d] \in Batch
    BY <2>1, HeadType DEF LocalType
  <2>3. FileOf(d).workflow = w /\ Wanted(FileOf(d))
    <3>1. 1 \in DOMAIN matches[d] /\ Head(matches[d]) = matches[d][1]
      BY <2>1, HeadTail DEF LocalType
    <3>2. Head(matches[d]).deleted = FALSE
      BY <2>1, HeadType DEF BatchInv, PendingMatch
    <3>. QED
      BY <3>1, <3>2 DEF FileOf, Wanted, MatchInv
  <2>4. GoodBatch(KeyOf(w), Merge(content[d], w, FileOf(d)))
    BY <2>1, <2>2, <2>3, MergeIsGood DEF BatchInv
  <2>5. \A k \in UploadKey : GoodBatch(k, filesToUpload'[k])
    <3>1. filesToUpload' =
            [filesToUpload EXCEPT ![KeyOf(w)] = Merge(content[d], w, FileOf(d))]
      BY <1>9 DEF QueueWrite
    <3>. QED
      BY <2>4, <3>1 DEF BatchInv, QueueType
  <2>6. /\ UNCHANGED <<snapshot, uploads>>
        /\ pc'[d] # "put"
        /\ \A e \in Delivery \ {d} :
             pc'[e] = pc[e] /\ content'[e] = content[e] /\ matches'[e] = matches[e]
    BY <1>9 DEF QueueWrite
  <2>. QED
    BY <2>5, <2>6 DEF BatchInv
<1>10. CASE QueueDeprecation(d)
  BY <1>10 DEF QueueDeprecation, BatchInv, QueueType, control, locals
<1>11. CASE TakeUploads(d)
  <2>1. snapshot'[d] = filesToUpload \/ snapshot'[d] = NoUploads
    BY <1>11 DEF TakeUploads
  <2>2. \A k \in UploadKey : GoodBatch(k, snapshot'[d][k])
    BY <2>1, NoUploadsIsGood DEF BatchInv
  <2>3. \A e \in Delivery \ {d} : snapshot'[e] = snapshot[e] /\ pc'[e] = pc[e]
    BY <1>11 DEF TakeUploads
  <2>4. pc'[d] # "put" /\ UNCHANGED <<filesToUpload, uploads, content, matches>>
    BY <1>11 DEF TakeUploads
  <2>. QED
    BY <2>2, <2>3, <2>4 DEF BatchInv
<1>12. CASE \E k \in UploadKey : Upload(d, k)
  <2>1. PICK k \in UploadKey : Upload(d, k)
    BY <1>12
  <2>2. /\ snapshot' = [snapshot EXCEPT ![d] = [@ EXCEPT ![k] = NoBatch]]
        /\ UNCHANGED <<filesToUpload, pc, content, matches>>
    BY <2>1 DEF Upload
  <2>3. \A e \in Delivery : \A j \in UploadKey : GoodBatch(j, snapshot'[e][j])
    BY <2>2, EmptyIsGood DEF BatchInv, LocalType
  <2>4. PICK ok \in BOOLEAN :
          uploads' = [uploads EXCEPT ![d] =
            @ \cup {[key |-> k, batch |-> snapshot[d][k], ok |-> ok]}]
    BY <2>1 DEF Upload
  <2>5. GoodBatch(k, snapshot[d][k])
    BY DEF BatchInv
  <2>6. \A e \in Delivery : \A u \in uploads'[e] : GoodBatch(u.key, u.batch)
    BY <2>4, <2>5 DEF BatchInv, HistoryType
  <2>. QED
    BY <2>2, <2>3, <2>6 DEF BatchInv
<1>13. CASE ClearUploads(d)
  BY <1>13 DEF ClearUploads, BatchInv, QueueType, control, locals
<1>14. CASE TakeDeprecations(d)
  BY <1>14 DEF TakeDeprecations, BatchInv, QueueType, control, locals
<1>15. CASE RecordDeprecations(d)
  BY <1>15 DEF RecordDeprecations, BatchInv, QueueType, control, locals
<1>16. CASE ClearDeprecations(d)
  BY <1>16 DEF ClearDeprecations, BatchInv, QueueType, control, locals
<1>17. CASE Finish(d)
  BY <1>17 DEF Finish, BatchInv, QueueType, control, locals
<1>18. CASE Panic(d)
  <2>1. /\ UNCHANGED <<filesToUpload, uploads>>
        /\ pc'[d] # "put"
        /\ snapshot'[d] = NoUploads
    BY <1>18 DEF Panic
  <2>2. \A e \in Delivery \ {d} :
          /\ pc'[e] = pc[e] /\ content'[e] = content[e]
          /\ matches'[e] = matches[e] /\ snapshot'[e] = snapshot[e]
    BY <1>18 DEF Panic
  <2>. QED
    BY <2>1, <2>2, NoUploadsIsGood DEF BatchInv
<1>19. CASE GiveUp(d)
  BY <1>19 DEF GiveUp, BatchInv, QueueType, control, locals
<1>20. CASE WaitToRetry(d)
  BY <1>20 DEF WaitToRetry, BatchInv, QueueType, control, locals
<1>21. CASE Retry(d)
  BY <1>21 DEF Retry, BatchInv, QueueType, control, locals
<1>. QED
  BY <1>1, <1>2, <1>3, <1>4, <1>5, <1>6, <1>7, <1>8, <1>9, <1>10, <1>11,
     <1>12, <1>13, <1>14, <1>15, <1>16, <1>17, <1>18, <1>19, <1>20, <1>21 DEF
     Step

-----------------------------------------------------------------------------
(* However many deliveries share the queue and however they interleave,    *)
(* a batch is uploaded without review only if every workflow with a file   *)
(* in it wants that (queueUpload's AND), and with the template if one of   *)
(* them does (its OR).                                                     *)
THEOREM SettingsAreKept == Spec => []BatchSettingsAgree
<1>1. Init => TypeInv /\ MatchInv /\ BatchInv
  BY TypeInit, MatchInit
<1>2. TypeInv /\ MatchInv /\ BatchInv /\ [Next]_vars
        => (TypeInv /\ MatchInv /\ BatchInv)'
  BY TypeStep, MatchStep, BatchStep
<1>3. BatchInv => BatchSettingsAgree
  BY DEF BatchInv, GoodBatch, BatchSettingsAgree
<1>. QED
  BY <1>1, <1>2, <1>3, PTL DEF Spec

(* What reaches a target repository, branch and strategy was matched for   *)
(* exactly that place by a workflow of its own pull request, also when     *)
(* another delivery uploads it or when a panic left it in the queue.       *)
THEOREM UploadsBelong == Spec => []UploadedWhereItBelongs
<1>1. Init => TypeInv /\ MatchInv /\ BatchInv
  BY TypeInit, MatchInit
<1>2. TypeInv /\ MatchInv /\ BatchInv /\ [Next]_vars
        => (TypeInv /\ MatchInv /\ BatchInv)'
  BY TypeStep, MatchStep, BatchStep
<1>3. TypeInv /\ BatchInv => UploadedWhereItBelongs
  <2>. SUFFICES ASSUME TypeInv, BatchInv,
                       NEW d \in Delivery, NEW u \in uploads[d], NEW f \in FilesOf(u.batch)
                PROVE  /\ u.key.dest = Destination[f.workflow]
                       /\ u.key.strategy = getCommitStrategyType(f.workflow)
                       /\ \E i \in DOMAIN Plan[f.pr] : Plan[f.pr][i] = f.workflow
                       /\ \E i \in DOMAIN Matches[f.pr][f.workflow] :
                            LET m == Matches[f.pr][f.workflow][i]
                            IN  m.path = f.path /\ ~ m.deleted
    BY DEF UploadedWhereItBelongs
  <2>1. KeyOf(f.workflow) = u.key /\ Wanted(f)
    BY DEF BatchInv, GoodBatch
  <2>. QED
    BY <2>1 DEF KeyOf, Wanted, Planned, Matched
<1>. QED
  BY <1>1, <1>2, <1>3, PTL DEF Spec

-----------------------------------------------------------------------------
(* A queue that is not empty has a goroutine on its way to clear it.       *)
SomeoneClears ==
  ~ MayPanic =>
    /\ filesToUpload # NoUploads =>
         \E d \in Delivery : pc[d] \in {"workflow", "put", "upload"}
    /\ filesToDeprecate # NoDeprecations =>
         \E d \in Delivery : pc[d] \in {"workflow", "put", "upload", "drain",
                                       "record", "clear"}

(* No step leaves a queue that nobody will clear.                          *)
LEMMA ClearStep == TypeInv /\ SomeoneClears /\ [Next]_vars => SomeoneClears'
<1>. SUFFICES ASSUME TypeInv, SomeoneClears, [Next]_vars PROVE SomeoneClears'
  OBVIOUS
<1>. USE DEF TypeInv, TypeOK, SomeoneClears, ControlType, Goto, Fail, queues,
        control, locals, history
<1>u. CASE UNCHANGED vars
  BY <1>u DEF vars
<1>. SUFFICES ASSUME NEW d \in Delivery,
                     Start(d) \/ Step(d) \/ ContextExpires(d) \/ Panic(d)
              PROVE  SomeoneClears'
  BY <1>u DEF Next
<1>1. CASE Start(d)
  BY <1>1 DEF Start
<1>2. CASE ContextExpires(d)
  BY <1>2 DEF ContextExpires
<1>3. CASE Prepare(d)
  BY <1>3 DEF Prepare
<1>4. CASE PrepareFails(d)
  BY <1>4 DEF PrepareFails
<1>5. CASE CancelWorkflow(d)
  BY <1>5 DEF CancelWorkflow
<1>6. CASE MatchFiles(d)
  BY <1>6 DEF MatchFiles
<1>7. CASE SkipUnfetched(d)
  BY <1>7 DEF SkipUnfetched
<1>8. CASE QueueRead(d)
  BY <1>8 DEF QueueRead
<1>9. CASE QueueWrite(d)
  BY <1>9 DEF QueueWrite
<1>10. CASE QueueDeprecation(d)
  BY <1>10 DEF QueueDeprecation
<1>11. CASE TakeUploads(d)
  BY <1>11 DEF TakeUploads
<1>12. CASE \E k \in UploadKey : Upload(d, k)
  BY <1>12 DEF Upload
<1>13. CASE ClearUploads(d)
  BY <1>13 DEF ClearUploads
<1>14. CASE TakeDeprecations(d)
  BY <1>14 DEF TakeDeprecations
<1>15. CASE RecordDeprecations(d)
  BY <1>15 DEF RecordDeprecations
<1>16. CASE ClearDeprecations(d)
  BY <1>16 DEF ClearDeprecations
<1>17. CASE Finish(d)
  BY <1>17 DEF Finish
<1>18. CASE Panic(d)
  BY <1>18 DEF Panic
<1>19. CASE GiveUp(d)
  BY <1>19 DEF GiveUp
<1>20. CASE WaitToRetry(d)
  BY <1>20 DEF WaitToRetry
<1>21. CASE Retry(d)
  BY <1>21 DEF Retry
<1>. QED
  BY <1>1, <1>2, <1>3, <1>4, <1>5, <1>6, <1>7, <1>8, <1>9, <1>10, <1>11,
     <1>12, <1>13, <1>14, <1>15, <1>16, <1>17, <1>18, <1>19, <1>20, <1>21 DEF
     Step

(* Without panics, the last goroutine to end leaves nothing behind for the *)
(* next delivery to upload or record as its own.                           *)
THEOREM QueuesDrain == Spec => []DrainedWhenQuiet
<1>1. Init => TypeInv /\ SomeoneClears
  BY TypeInit DEF Init, SomeoneClears
<1>2. TypeInv /\ SomeoneClears /\ [Next]_vars => (TypeInv /\ SomeoneClears)'
  BY TypeStep, ClearStep
<1>3. SomeoneClears => DrainedWhenQuiet
  BY DEF SomeoneClears, DrainedWhenQuiet, InFlight, Retired
<1>. QED
  BY <1>1, <1>2, <1>3, PTL DEF Spec

-----------------------------------------------------------------------------
(* A file whose upload nobody has tried is held by everyone who could make *)
(* it disappear: it is in the queue, in what a goroutine is about to write *)
(* back over its batch, and in what a goroutine is about to upload before  *)
(* it clears the queue.                                                    *)
Tried(f) == \E e \in Delivery : \E u \in uploads[e] : f \in FilesOf(u.batch)

Held(f) ==
  LET k == KeyOf(f.workflow)
  IN  /\ f \in FilesOf(filesToUpload[k])
      /\ \A e \in Delivery :
           /\ pc[e] = "put" /\ KeyOf(Head(matches[e]).workflow) = k
                => f \in FilesOf(content[e])
           /\ pc[e] = "upload" => f \in FilesOf(snapshot[e][k])

(* A delivery without company has had the service to itself so far.        *)
AloneInv ==
  \A d \in Delivery :
    /\ pc[d] = "idle" => queued[d] = {}
    /\ company[d] = {} /\ InFlight(d) =>
         \A e \in Delivery \ {d} : ~ InFlight(e)

HeldInv ==
  \A d \in Delivery :
    company[d] = {} /\ ~ DryRun => \A f \in queued[d] : Tried(f) \/ Held(f)

LEMMA AloneInit == Init => AloneInv /\ HeldInv
  BY DEF Init, AloneInv, HeldInv, InFlight, Retired

(* Whoever starts while others are in flight is in their company.          *)
LEMMA AloneStep == TypeInv /\ AloneInv /\ [Next]_vars => AloneInv'
<1>. SUFFICES ASSUME TypeInv, AloneInv, [Next]_vars PROVE AloneInv'
  OBVIOUS
<1>. USE DEF TypeInv, TypeOK, AloneInv, ControlType, HistoryType, InFlight,
        Retired, Goto, Fail, queues, control, locals, history
<1>u. CASE UNCHANGED vars
  BY <1>u DEF vars
<1>. SUFFICES ASSUME NEW d \in Delivery,
                     Start(d) \/ Step(d) \/ ContextExpires(d) \/ Panic(d)
              PROVE  AloneInv'
  BY <1>u DEF Next
<1>1. CASE Start(d)
  BY <1>1 DEF Start
<1>2. CASE ContextExpires(d)
  BY <1>2 DEF ContextExpires
<1>3. CASE Prepare(d)
  BY <1>3 DEF Prepare
<1>4. CASE PrepareFails(d)
  BY <1>4 DEF PrepareFails
<1>5. CASE CancelWorkflow(d)
  BY <1>5 DEF CancelWorkflow
<1>6. CASE MatchFiles(d)
  BY <1>6 DEF MatchFiles
<1>7. CASE SkipUnfetched(d)
  BY <1>7 DEF SkipUnfetched
<1>8. CASE QueueRead(d)
  BY <1>8 DEF QueueRead
<1>9. CASE QueueWrite(d)
  BY <1>9 DEF QueueWrite
<1>10. CASE QueueDeprecation(d)
  BY <1>10 DEF QueueDeprecation
<1>11. CASE TakeUploads(d)
  BY <1>11 DEF TakeUploads
<1>12. CASE \E k \in UploadKey : Upload(d, k)
  BY <1>12 DEF Upload
<1>13. CASE ClearUploads(d)
  BY <1>13 DEF ClearUploads
<1>14. CASE TakeDeprecations(d)
  BY <1>14 DEF TakeDeprecations
<1>15. CASE RecordDeprecations(d)
  BY <1>15 DEF RecordDeprecations
<1>16. CASE ClearDeprecations(d)
  BY <1>16 DEF ClearDeprecations
<1>17. CASE Finish(d)
  BY <1>17 DEF Finish
<1>18. CASE Panic(d)
  <2>1. InFlight(d) /\ pc[d] # "idle"
    BY <1>18 DEF Panic, Attempting
  <2>2. /\ UNCHANGED <<company, queued>>
        /\ pc'[d] = "failed"
        /\ \A e \in Delivery \ {d} : pc'[e] = pc[e]
    BY <1>18 DEF Panic
  <2>. QED
    BY <2>1, <2>2 DEF AloneInv, InFlight
<1>19. CASE GiveUp(d)
  BY <1>19 DEF GiveUp
<1>20. CASE WaitToRetry(d)
  BY <1>20 DEF WaitToRetry
<1>21. CASE Retry(d)
  BY <1>21 DEF Retry
<1>. QED
  BY <1>1, <1>2, <1>3, <1>4, <1>5, <1>6, <1>7, <1>8, <1>9, <1>10, <1>11,
     <1>12, <1>13, <1>14, <1>15, <1>16, <1>17, <1>18, <1>19, <1>20, <1>21 DEF
     Step

(* No step drops a file whose upload nobody has tried.                     *)
LEMMA HeldStep == TypeInv /\ AloneInv /\ HeldInv /\ [Next]_vars => HeldInv'
<1>. SUFFICES ASSUME TypeInv, AloneInv, HeldInv, [Next]_vars PROVE HeldInv'
  OBVIOUS
<1>. USE DEF TypeInv, TypeOK, queues, locals, history, HeldInv, Tried
<1>u. CASE UNCHANGED vars
  BY <1>u DEF vars, control, Held
<1>. SUFFICES ASSUME NEW d \in Delivery,
                     Start(d) \/ Step(d) \/ ContextExpires(d) \/ Panic(d)
              PROVE  HeldInv'
  BY <1>u DEF Next
<1>1. CASE Start(d)
  <2>1. /\ UNCHANGED <<queues, locals, history>>
        /\ queued[d] = {}
        /\ \A e \in Delivery \ {d} : pc'[e] = pc[e] /\ company[e] \subseteq company'[e]
        /\ pc'[d] = "prepare"
    BY <1>1 DEF Start, Goto, AloneInv, ControlType, HistoryType
  <2>2. UNCHANGED <<filesToUpload, matches, content, snapshot, queued, uploads>>
    BY <2>1
  <2>3. ASSUME NEW f, Tried(f) \/ Held(f) PROVE Tried(f)' \/ Held(f)'
    BY <2>1, <2>2, <2>3 DEF Tried, Held
  <2>. QED
    BY <2>1, <2>2, <2>3 DEF HeldInv
<1>2. CASE ContextExpires(d)
  BY <1>2 DEF ContextExpires, Held, ControlType, LocalType, Goto, Fail, control
<1>3. CASE Prepare(d)
  BY <1>3 DEF Prepare, Held, ControlType, LocalType, Goto, Fail, control
<1>4. CASE PrepareFails(d)
  BY <1>4 DEF PrepareFails, Held, ControlType, LocalType, Goto, Fail, control
<1>5. CASE CancelWorkflow(d)
  BY <1>5 DEF CancelWorkflow, Held, ControlType, LocalType, Goto, Fail, control
<1>6. CASE MatchFiles(d)
  BY <1>6 DEF MatchFiles, Held, ControlType, LocalType, Goto, Fail, control
<1>7. CASE SkipUnfetched(d)
  BY <1>7 DEF SkipUnfetched, Held, ControlType, LocalType, Goto, Fail, control
<1>8. CASE QueueRead(d)
  BY <1>8 DEF QueueRead, Held, ControlType, LocalType, Goto, Fail, control
<1>9. CASE QueueWrite(d)
  <2>1. pc[d] = "put" /\ matches[d] # <<>>
    BY <1>9 DEF QueueWrite, PlaceOK
  <2>2. PICK w \in Workflow, g \in CopiedFile :
          w = Head(matches[d]).workflow /\ g = FileOf(d) /\ g.workflow = w
    BY <2>1, HeadType DEF FileOf
  <2>3. /\ filesToUpload' = [filesToUpload EXCEPT ![KeyOf(w)] = Merge(content[d], w, g)]
        /\ KeyOf(w) \in UploadKey
        /\ FilesOf(Merge(content[d], w, g)) = FilesOf(content[d]) \cup {g}
    BY <1>9, <2>2, KeyType, MergeFiles DEF QueueWrite, LocalType
  <2>4. /\ UNCHANGED <<uploads, snapshot, company>>
        /\ queued'[d] = queued[d] \cup {g}
        /\ pc'[d] = "workflow"
        /\ \A e \in Delivery \ {d} :
             /\ pc'[e] = pc[e] /\ content'[e] = content[e]
             /\ matches'[e] = matches[e] /\ queued'[e] = queued[e]
    BY <1>9, <2>2 DEF QueueWrite, Goto, ControlType, LocalType, HistoryType
  <2>5. ASSUME NEW f, KeyOf(f.workflow) \in UploadKey, Held(f) PROVE Held(f)'
    <3>1. f \in FilesOf(filesToUpload'[KeyOf(f.workflow)])
      <4>1. CASE KeyOf(f.workflow) = KeyOf(w)
        BY <2>1, <2>2, <2>3, <2>5, <4>1 DEF Held, QueueType
      <4>2. CASE KeyOf(f.workflow) # KeyOf(w)
        BY <2>3, <2>5, <4>2 DEF Held, QueueType
      <4>. QED
        BY <4>1, <4>2
    <3>. QED
      BY <2>4, <2>5, <3>1 DEF Held
  <2>6. \A f \in CopiedFile : KeyOf(f.workflow) \in UploadKey
    BY KeyType DEF CopiedFile
  <2>7. \A f : Tried(f) => Tried(f)'
    BY <2>4
  <2>8. ASSUME company[d] = {} PROVE Held(g)'
    <3>1. \A e \in Delivery : pc'[e] # "put" /\ pc'[e] # "upload"
      BY <2>1, <2>4, <2>8 DEF AloneInv, InFlight, Retired
    <3>2. g \in FilesOf(filesToUpload'[KeyOf(g.workflow)])
      BY <2>2, <2>3 DEF QueueType
    <3>. QED
      BY <3>1, <3>2 DEF Held
  <2>9. ASSUME NEW e \in Delivery, company'[e] = {}, ~ DryRun, NEW f \in queued'[e]
        PROVE  Tried(f)' \/ Held(f)'
    <3>1. CASE f \in queued[e]
      <4>1. f \in CopiedFile
        BY <3>1 DEF HistoryType
      <4>. QED
        BY <2>4, <2>5, <2>6, <2>7, <2>9, <3>1, <4>1 DEF HeldInv
    <3>2. CASE f \notin queued[e]
      BY <2>4, <2>8, <2>9, <3>2
    <3>. QED
      BY <3>1, <3>2
  <2>. QED
    BY <2>9
<1>10. CASE QueueDeprecation(d)
  BY <1>10 DEF QueueDeprecation, Held, ControlType, LocalType, Goto, Fail, control
<1>11. CASE TakeUploads(d)
  BY <1>11 DEF TakeUploads, Held, ControlType, LocalType, Goto, Fail, control
<1>12. CASE \E k \in UploadKey : Upload(d, k)
  <2>1. PICK k \in UploadKey : Upload(d, k)
    BY <1>12
  <2>2. PICK ok \in BOOLEAN :
          uploads' = [uploads EXCEPT ![d] =
            @ \cup {[key |-> k, batch |-> snapshot[d][k], ok |-> ok]}]
    BY <2>1 DEF Upload
  <2>3. /\ snapshot' = [snapshot EXCEPT ![d] = [@ EXCEPT ![k] = NoBatch]]
        /\ UNCHANGED <<filesToUpload, pc, content, matches, queued, company>>
        /\ pc[d] = "upload"
    BY <2>1 DEF Upload
  <2>4. \A f \in FilesOf(snapshot[d][k]) : Tried(f)'
    <3>1. [key |-> k, batch |-> snapshot[d][k], ok |-> ok] \in uploads'[d]
      BY <2>2 DEF HistoryType
    <3>. QED
      BY <3>1
  <2>5. \A f : Tried(f) => Tried(f)'
    BY <2>2 DEF HistoryType
  <2>6. ASSUME NEW f, Held(f) PROVE Tried(f)' \/ Held(f)'
    <3>1. CASE KeyOf(f.workflow) = k
      BY <2>3, <2>4, <2>6, <3>1 DEF Held
    <3>2. CASE KeyOf(f.workflow) # k
      BY <2>3, <2>6, <3>2 DEF Held, LocalType
    <3>. QED
      BY <3>1, <3>2
  <2>. QED
    BY <2>3, <2>5, <2>6 DEF HeldInv
<1>13. CASE ClearUploads(d)
  BY <1>13 DEF ClearUploads, Held, ControlType, LocalType, Goto, Fail, control
<1>14. CASE TakeDeprecations(d)
  BY <1>14 DEF TakeDeprecations, Held, ControlType, LocalType, Goto, Fail, control
<1>15. CASE RecordDeprecations(d)
  BY <1>15 DEF RecordDeprecations, Held, ControlType, LocalType, Goto, Fail, control
<1>16. CASE ClearDeprecations(d)
  BY <1>16 DEF ClearDeprecations, Held, ControlType, LocalType, Goto, Fail, control
<1>17. CASE Finish(d)
  <2>1. /\ UNCHANGED <<filesToUpload, matches, content, snapshot, queued, uploads, company>>
        /\ pc'[d] \notin {"put", "upload"}
        /\ \A e \in Delivery \ {d} : pc'[e] = pc[e]
    BY <1>17 DEF Finish, Fail, Goto, ControlType
  <2>. QED
    BY <2>1 DEF Held
<1>18. CASE Panic(d)
  BY <1>18 DEF Panic, Held, ControlType, LocalType, Goto, Fail, control
<1>19. CASE GiveUp(d)
  BY <1>19 DEF GiveUp, Held, ControlType, LocalType, Goto, Fail, control
<1>20. CASE WaitToRetry(d)
  BY <1>20 DEF WaitToRetry, Held, ControlType, LocalType, Goto, Fail, control
<1>21. CASE Retry(d)
  BY <1>21 DEF Retry, Held, ControlType, LocalType, Goto, Fail, control
<1>. QED
  BY <1>1, <1>2, <1>3, <1>4, <1>5, <1>6, <1>7, <1>8, <1>9, <1>10, <1>11,
     <1>12, <1>13, <1>14, <1>15, <1>16, <1>17, <1>18, <1>19, <1>20, <1>21 DEF
     Step

(* A file queued by a delivery that had the service to itself is not lost  *)
(* before its upload was tried: panics, retries and any number of later,   *)
(* overlapping deliveries keep it.                                         *)
THEOREM LoneFilesSurvive == Spec => []LoneFileSurvives
<1>1. Init => TypeInv /\ AloneInv /\ HeldInv
  BY TypeInit, AloneInit
<1>2. TypeInv /\ AloneInv /\ HeldInv /\ [Next]_vars
        => (TypeInv /\ AloneInv /\ HeldInv)'
  BY TypeStep, AloneStep, HeldStep
<1>3. TypeInv /\ HeldInv => LoneFileSurvives
  <2>. SUFFICES ASSUME TypeInv, HeldInv, NEW d \in Delivery,
                       company[d] = {}, ~ DryRun, NEW f \in queued[d], ~ Tried(f)
                PROVE  \E k \in UploadKey : f \in FilesOf(filesToUpload[k])
    BY DEF LoneFileSurvives, Tried
  <2>1. f \in FilesOf(filesToUpload[KeyOf(f.workflow)])
    BY DEF HeldInv, Held
  <2>2. KeyOf(f.workflow) \in UploadKey
    BY KeyType DEF TypeInv, TypeOK, HistoryType, CopiedFile
  <2>. QED
    BY <2>1, <2>2
<1>. QED
  BY <1>1, <1>2, <1>3, PTL DEF Spec
-----------------------------------------------------------------------------
(* A step of a delivery in flight changes nothing of the others but the    *)
(* queues they share.                                                      *)
LEMMA OthersStay ==
  ASSUME TypeInv, NEW d \in Delivery, Step(d) \/ ContextExpires(d) \/ Panic(d)
  PROVE  /\ InFlight(d) /\ pc'[d] # "idle" /\ company' = company
         /\ \A e \in Delivery \ {d} :
              /\ pc'[e] = pc[e] /\ queued'[e] = queued[e]
              /\ uploads'[e] = uploads[e] /\ snapshot'[e] = snapshot[e]
              /\ noted'[e] = noted[e] /\ recorded'[e] = recorded[e]
<1>. USE DEF TypeInv, TypeOK, queues, control, locals, history, Goto, Fail
<1>1. InFlight(d)
  BY DEF InFlight, Retired, Attempting,
         Step, Prepare, PrepareFails,
         CancelWorkflow, MatchFiles, SkipUnfetched, QueueRead, QueueWrite,
         QueueDeprecation, TakeUploads, Upload, ClearUploads, TakeDeprecations,
         RecordDeprecations, ClearDeprecations, Finish, GiveUp, WaitToRetry,
         Retry, ContextExpires, Panic
<1>2. pc'[d] # "idle"
  BY <1>1 DEF InFlight, Retired, ControlType,
         Step, Prepare, PrepareFails,
         CancelWorkflow, MatchFiles, SkipUnfetched, QueueRead, QueueWrite,
         QueueDeprecation, TakeUploads, Upload, ClearUploads, TakeDeprecations,
         RecordDeprecations, ClearDeprecations, Finish, GiveUp, WaitToRetry,
         Retry, ContextExpires, Panic
<1>3. company' = company
  BY DEF Step, Prepare, PrepareFails,
         CancelWorkflow, MatchFiles, SkipUnfetched, QueueRead, QueueWrite,
         QueueDeprecation, TakeUploads, Upload, ClearUploads, TakeDeprecations,
         RecordDeprecations, ClearDeprecations, Finish, GiveUp, WaitToRetry,
         Retry, ContextExpires, Panic
<1>4. \A e \in Delivery \ {d} : pc'[e] = pc[e]
  BY DEF ControlType,
         Step, Prepare, PrepareFails,
         CancelWorkflow, MatchFiles, SkipUnfetched, QueueRead, QueueWrite,
         QueueDeprecation, TakeUploads, Upload, ClearUploads, TakeDeprecations,
         RecordDeprecations, ClearDeprecations, Finish, GiveUp, WaitToRetry,
         Retry, ContextExpires, Panic
<1>5. \A e \in Delivery \ {d} : queued'[e] = queued[e]
  BY DEF HistoryType,
         Step, Prepare, PrepareFails,
         CancelWorkflow, MatchFiles, SkipUnfetched, QueueRead, QueueWrite,
         QueueDeprecation, TakeUploads, Upload, ClearUploads, TakeDeprecations,
         RecordDeprecations, ClearDeprecations, Finish, GiveUp, WaitToRetry,
         Retry, ContextExpires, Panic
<1>6. \A e \in Delivery \ {d} : uploads'[e] = uploads[e]
  BY DEF HistoryType,
         Step, Prepare, PrepareFails,
         CancelWorkflow, MatchFiles, SkipUnfetched, QueueRead, QueueWrite,
         QueueDeprecation, TakeUploads, Upload, ClearUploads, TakeDeprecations,
         RecordDeprecations, ClearDeprecations, Finish, GiveUp, WaitToRetry,
         Retry, ContextExpires, Panic
<1>7. \A e \in Delivery \ {d} : snapshot'[e] = snapshot[e]
  BY DEF LocalType,
         Step, Prepare, PrepareFails,
         CancelWorkflow, MatchFiles, SkipUnfetched, QueueRead, QueueWrite,
         QueueDeprecation, TakeUploads, Upload, ClearUploads, TakeDeprecations,
         RecordDeprecations, ClearDeprecations, Finish, GiveUp, WaitToRetry,
         Retry, ContextExpires, Panic
<1>8. \A e \in Delivery \ {d} : noted'[e] = noted[e]
  BY DEF HistoryType,
         Step, Prepare, PrepareFails,
         CancelWorkflow, MatchFiles, SkipUnfetched, QueueRead, QueueWrite,
         QueueDeprecation, TakeUploads, Upload, ClearUploads, TakeDeprecations,
         RecordDeprecations, ClearDeprecations, Finish, GiveUp, WaitToRetry,
         Retry, ContextExpires, Panic
<1>9. \A e \in Delivery \ {d} : recorded'[e] = recorded[e]
  BY DEF HistoryType,
         Step, Prepare, PrepareFails,
         CancelWorkflow, MatchFiles, SkipUnfetched, QueueRead, QueueWrite,
         QueueDeprecation, TakeUploads, Upload, ClearUploads, TakeDeprecations,
         RecordDeprecations, ClearDeprecations, Finish, GiveUp, WaitToRetry,
         Retry, ContextExpires, Panic
<1>. QED
  BY <1>1, <1>2, <1>3, <1>4, <1>5, <1>6, <1>7, <1>8, <1>9

-----------------------------------------------------------------------------
(* While a delivery has the service to itself, its files are in the hands  *)
(* of its own goroutine: uploaded by it, or still to be; once it has       *)
(* cleared the queue, uploaded by it.                                      *)
Own(d, f) == \E u \in uploads[d] : f \in FilesOf(u.batch)

PastUpload == {"drain", "record", "clear", "finish", "processed_ok"}

HandedInv ==
  \A d \in Delivery : company[d] = {} /\ ~ DryRun =>
    /\ InFlight(d) => \A f \in queued[d] : Own(d, f) \/ Held(f)
    /\ pc[d] \in PastUpload => \A f \in queued[d] : Own(d, f)

LEMMA HandedInit == Init => HandedInv
  BY DEF Init, HandedInv, InFlight, Retired, PastUpload

(* A step of one delivery leaves the others' standing as it is: those in   *)
(* flight beside it are not alone.                                         *)
LEMMA HandedFrame ==
  ASSUME TypeInv, AloneInv, HandedInv, NEW d \in Delivery, InFlight(d),
         company' = company,
         \A e \in Delivery \ {d} : /\ pc'[e] = pc[e] /\ queued'[e] = queued[e]
                                   /\ uploads'[e] = uploads[e],
         company[d] = {} /\ ~ DryRun =>
           /\ InFlight(d)' => \A f \in queued'[d] : Own(d, f)' \/ Held(f)'
           /\ pc'[d] \in PastUpload => \A f \in queued'[d] : Own(d, f)'
  PROVE  HandedInv'
<1>. SUFFICES ASSUME NEW e \in Delivery \ {d}, company[e] = {}, ~ DryRun
              PROVE  /\ InFlight(e)' => \A f \in queued'[e] : Own(e, f)' \/ Held(f)'
                     /\ pc'[e] \in PastUpload => \A f \in queued'[e] : Own(e, f)'
  BY DEF HandedInv
<1>1. ~ InFlight(e)
  BY DEF AloneInv
<1>2. ~ InFlight(e)'
  BY <1>1 DEF InFlight
<1>. QED
  BY <1>2 DEF HandedInv, Own

(* Every step keeps it: what is queued is held until it is uploaded.       *)
LEMMA HandedStep ==
  TypeInv /\ AloneInv /\ HandedInv /\ [Next]_vars => HandedInv'
<1>. SUFFICES ASSUME TypeInv, AloneInv, HandedInv, [Next]_vars PROVE HandedInv'
  OBVIOUS
<1>. USE DEF TypeInv, TypeOK, queues, control, locals, history
<1>u. CASE UNCHANGED vars
  BY <1>u DEF vars, HandedInv, InFlight, Own, Held
<1>. SUFFICES ASSUME NEW d \in Delivery,
                     Start(d) \/ Step(d) \/ ContextExpires(d) \/ Panic(d)
              PROVE  HandedInv'
  BY <1>u DEF Next
<1>1. CASE Start(d)
  <2>1. /\ UNCHANGED <<queued, uploads>>
        /\ queued[d] = {}
        /\ pc'[d] = "prepare"
    BY <1>1 DEF Start, Goto, AloneInv, ControlType
  <2>2. ASSUME NEW e \in Delivery \ {d}, company'[e] = {}
        PROVE  pc'[e] = pc[e] /\ company[e] = {} /\ ~ InFlight(e)
    BY <1>1, <2>2 DEF Start, Goto, ControlType, HistoryType
  <2>3. ASSUME NEW e \in Delivery \ {d}, company'[e] = {} PROVE ~ InFlight(e)'
    BY <2>2, <2>3 DEF InFlight
  <2>. QED
    BY <2>1, <2>2, <2>3 DEF HandedInv, Own, PastUpload
<1>. SUFFICES ASSUME Step(d) \/ ContextExpires(d) \/ Panic(d)  PROVE HandedInv'
  BY <1>1
<1>a. /\ InFlight(d) /\ company' = company
      /\ \A e \in Delivery \ {d} : /\ pc'[e] = pc[e] /\ queued'[e] = queued[e]
                                   /\ uploads'[e] = uploads[e]
  BY OthersStay
<1>b. SUFFICES ASSUME company[d] = {}, ~ DryRun
               PROVE  /\ InFlight(d)' => \A f \in queued'[d] : Own(d, f)' \/ Held(f)'
                      /\ pc'[d] \in PastUpload => \A f \in queued'[d] : Own(d, f)'
  BY <1>a, HandedFrame
<1>c. /\ \A f \in queued[d] : Own(d, f) \/ Held(f)
      /\ pc[d] \in PastUpload => \A f \in queued[d] : Own(d, f)
  BY <1>a, <1>b DEF HandedInv
<1>. USE DEF Own, Held, PastUpload, ControlType, LocalType, Goto, Fail
<1>d. \A e \in Delivery \ {d} : pc[e] \notin {"put", "upload"} /\ pc'[e] = pc[e]
  BY <1>a, <1>b DEF AloneInv, InFlight, Retired
<1>2. CASE ContextExpires(d)
  BY <1>2, <1>c, <1>d DEF ContextExpires
<1>3. CASE Prepare(d)
  BY <1>3, <1>c, <1>d DEF Prepare
<1>4. CASE PrepareFails(d)
  BY <1>4, <1>c, <1>d DEF PrepareFails
<1>5. CASE CancelWorkflow(d)
  BY <1>5, <1>c, <1>d DEF CancelWorkflow
<1>6. CASE MatchFiles(d)
  BY <1>6, <1>c, <1>d DEF MatchFiles
<1>7. CASE SkipUnfetched(d)
  BY <1>7, <1>c, <1>d DEF SkipUnfetched
<1>8. CASE QueueRead(d)
  BY <1>8, <1>c, <1>d DEF QueueRead
<1>9. CASE QueueWrite(d)
  <2>1. pc[d] = "put" /\ matches[d] # <<>>
    BY <1>9 DEF QueueWrite, PlaceOK
  <2>2. PICK w \in Workflow, g \in CopiedFile :
          w = Head(matches[d]).workflow /\ g = FileOf(d) /\ g.workflow = w
    BY <2>1, HeadType DEF FileOf
  <2>3. /\ filesToUpload' = [filesToUpload EXCEPT ![KeyOf(w)] = Merge(content[d], w, g)]
        /\ KeyOf(w) \in UploadKey
        /\ FilesOf(Merge(content[d], w, g)) = FilesOf(content[d]) \cup {g}
    BY <1>9, <2>2, KeyType, MergeFiles DEF QueueWrite
  <2>4. /\ uploads' = uploads /\ queued'[d] = queued[d] \cup {g} /\ pc'[d] = "workflow"
    BY <1>9, <2>2 DEF QueueWrite, HistoryType
  <2>5. \A e \in Delivery : pc'[e] \notin {"put", "upload"}
    BY <2>4, <1>d
  <2>6. ASSUME NEW f \in CopiedFile, Held(f) \/ f = g PROVE Held(f)'
    <3>1. KeyOf(f.workflow) \in UploadKey
      BY KeyType DEF CopiedFile
    <3>2. f \in FilesOf(filesToUpload'[KeyOf(f.workflow)])
      BY <2>1, <2>2, <2>3, <2>6, <3>1 DEF QueueType
    <3>. QED
      BY <2>5, <3>2
  <2>. QED
    BY <1>c, <2>4, <2>6 DEF HistoryType
<1>10. CASE QueueDeprecation(d)
  BY <1>10, <1>c, <1>d DEF QueueDeprecation
<1>11. CASE TakeUploads(d)
  <2>1. /\ UNCHANGED <<filesToUpload, uploads, queued>>
        /\ pc'[d] = "upload" /\ snapshot'[d] = filesToUpload
    BY <1>11, <1>b DEF TakeUploads
  <2>2. ASSUME NEW f, Held(f) PROVE Held(f)'
    BY <1>d, <2>1, <2>2
  <2>. QED
    BY <1>c, <2>1, <2>2
<1>12. CASE \E k \in UploadKey : Upload(d, k)
  <2>1. PICK k \in UploadKey : Upload(d, k)
    BY <1>12
  <2>2. PICK ok \in BOOLEAN :
          uploads' = [uploads EXCEPT ![d] =
            @ \cup {[key |-> k, batch |-> snapshot[d][k], ok |-> ok]}]
    BY <2>1 DEF Upload
  <2>3. /\ snapshot' = [snapshot EXCEPT ![d] = [@ EXCEPT ![k] = NoBatch]]
        /\ UNCHANGED <<filesToUpload, pc, content, matches, queued>>
        /\ pc[d] = "upload"
    BY <2>1 DEF Upload
  <2>4. /\ \A f \in FilesOf(snapshot[d][k]) : Own(d, f)'
        /\ \A f : Own(d, f) => Own(d, f)'
    <3>1. uploads'[d] = uploads[d]
            \cup {[key |-> k, batch |-> snapshot[d][k], ok |-> ok]}
      BY <2>2 DEF HistoryType
    <3> DEFINE u == [key |-> k, batch |-> snapshot[d][k], ok |-> ok]
    <3>2. u \in uploads'[d] /\ u.batch = snapshot[d][k]
      BY <3>1
    <3>3. ASSUME NEW f, f \in FilesOf(snapshot[d][k]) PROVE Own(d, f)'
      <4>1. \E v \in uploads'[d] : f \in FilesOf(v.batch)
        BY <3>2, <3>3
      <4>2. Own(d, f)' <=> \E v \in uploads'[d] : f \in FilesOf(v.batch)'
        OBVIOUS
      <4>. QED
        BY <4>1, <4>2 DEF FilesOf
    <3>4. \A f : Own(d, f) => Own(d, f)'
      BY <3>1 DEF FilesOf
    <3>. QED
      BY <3>3, <3>4
  <2>5. ASSUME NEW f, Held(f) PROVE Own(d, f)' \/ Held(f)'
    <3>1. CASE KeyOf(f.workflow) = k
      BY <2>3, <2>4, <2>5, <3>1
    <3>2. CASE KeyOf(f.workflow) # k
      BY <2>3, <2>5, <3>2
    <3>. QED
      BY <3>1, <3>2
  <2>. QED
    BY <1>c, <2>3, <2>4, <2>5
<1>13. CASE ClearUploads(d)
  <2>1. /\ UNCHANGED <<uploads, queued>>
        /\ pc[d] = "upload" /\ snapshot[d] = NoUploads
    BY <1>13 DEF ClearUploads
  <2>2. ASSUME NEW f \in queued[d] PROVE ~ Held(f)
    <3>1. KeyOf(f.workflow) \in UploadKey
      BY KeyType DEF HistoryType, CopiedFile
    <3>2. FilesOf(snapshot[d][KeyOf(f.workflow)]) = {}
      BY <2>1, <3>1 DEF NoUploads, NoBatch, FilesOf
    <3>. QED
      BY <2>1, <3>2
  <2>. QED
    BY <1>c, <2>1, <2>2
<1>14. CASE TakeDeprecations(d)
  BY <1>14, <1>c, <1>d DEF TakeDeprecations
<1>15. CASE RecordDeprecations(d)
  BY <1>15, <1>c, <1>d DEF RecordDeprecations
<1>16. CASE ClearDeprecations(d)
  BY <1>16, <1>c, <1>d DEF ClearDeprecations
<1>17. CASE Finish(d)
  BY <1>17, <1>c, <1>d DEF Finish
<1>18. CASE Panic(d)
  BY <1>18, <1>c, <1>d DEF Panic
<1>19. CASE GiveUp(d)
  BY <1>19, <1>c, <1>d DEF GiveUp
<1>20. CASE WaitToRetry(d)
  BY <1>20, <1>c, <1>d DEF WaitToRetry
<1>21. CASE Retry(d)
  BY <1>21, <1>c, <1>d DEF Retry
<1>. QED
  BY <1>2, <1>3, <1>4, <1>5, <1>6, <1>7, <1>8, <1>9, <1>10, <1>11, <1>12,
     <1>13, <1>14, <1>15, <1>16, <1>17, <1>18, <1>19, <1>20, <1>21 DEF Step

(* A delivery that had the service to itself and is reported processed_ok  *)
(* has handed every file it queued to the target repositories, whatever    *)
(* attempts failed or panicked before.                                     *)
THEOREM LoneFilesUploaded == Spec => []LoneDeliveryUploadsAll
<1>1. Init => TypeInv /\ AloneInv /\ HandedInv
  BY TypeInit, AloneInit, HandedInit
<1>2. TypeInv /\ AloneInv /\ HandedInv /\ [Next]_vars
        => (TypeInv /\ AloneInv /\ HandedInv)'
  BY TypeStep, AloneStep, HandedStep
<1>3. HandedInv => LoneDeliveryUploadsAll
  BY DEF HandedInv, LoneDeliveryUploadsAll, PastUpload, Own
<1>. QED
  BY <1>1, <1>2, <1>3, PTL DEF Spec
-----------------------------------------------------------------------------
(* Without panics a delivery that has the service to itself finds the      *)
(* queue empty, and from then on whatever the queue, its snapshot or its   *)
(* uploads hold it has queued itself.                                      *)
OwnFiles(d, b) == FilesOf(b) \subseteq queued[d]

ItsOwnInv ==
  \A d \in Delivery :
    /\ pc[d] = "idle" => snapshot[d] = NoUploads /\ uploads[d] = {}
    /\ company[d] = {} /\ ~ MayPanic =>
         /\ \A u \in uploads[d] : OwnFiles(d, u.batch)
         /\ InFlight(d) =>
              /\ \A k \in UploadKey : OwnFiles(d, filesToUpload[k])
              /\ \A k \in UploadKey : OwnFiles(d, snapshot[d][k])
              /\ pc[d] = "put" => OwnFiles(d, content[d])

LEMMA EmptyIsOwn == \A d : \A k \in UploadKey : OwnFiles(d, NoUploads[k])
  BY DEF OwnFiles, NoUploads, NoBatch, FilesOf

LEMMA ItsOwnInit == Init => ItsOwnInv
  BY DEF Init, ItsOwnInv, InFlight, Retired

(* As before: a step of one delivery only matters to itself.               *)
LEMMA ItsOwnFrame ==
  ASSUME TypeInv, AloneInv, ItsOwnInv, NEW d \in Delivery, InFlight(d),
         company' = company, pc'[d] # "idle",
         \A e \in Delivery \ {d} : /\ pc'[e] = pc[e] /\ queued'[e] = queued[e]
                                   /\ uploads'[e] = uploads[e]
                                   /\ snapshot'[e] = snapshot[e],
         company[d] = {} /\ ~ MayPanic =>
           /\ \A u \in uploads'[d] : OwnFiles(d, u.batch)'
           /\ InFlight(d)' =>
                /\ \A k \in UploadKey : OwnFiles(d, filesToUpload[k])'
                /\ \A k \in UploadKey : OwnFiles(d, snapshot[d][k])'
                /\ pc'[d] = "put" => OwnFiles(d, content[d])'
  PROVE  ItsOwnInv'
<1>1. ASSUME NEW e \in Delivery \ {d}, pc'[e] = "idle"
      PROVE  snapshot'[e] = NoUploads /\ uploads'[e] = {}
  BY <1>1 DEF ItsOwnInv
<1>2. ASSUME NEW e \in Delivery \ {d}, company[e] = {}, ~ MayPanic
      PROVE  ~ InFlight(e)' /\ \A u \in uploads'[e] : OwnFiles(e, u.batch)'
  <2>1. ~ InFlight(e)
    BY <1>2 DEF AloneInv
  <2>. QED
    BY <1>2, <2>1 DEF InFlight, ItsOwnInv, OwnFiles, FilesOf
<1>. QED
  BY <1>1, <1>2 DEF ItsOwnInv

(* Every step keeps it.                                                    *)
LEMMA ItsOwnStep ==
  TypeInv /\ SomeoneClears /\ AloneInv /\ ItsOwnInv /\ [Next]_vars => ItsOwnInv'
<1>. SUFFICES ASSUME TypeInv, SomeoneClears, AloneInv, ItsOwnInv, [Next]_vars
              PROVE  ItsOwnInv'
  OBVIOUS
<1>. USE DEF TypeInv, TypeOK, queues, control, locals, history
<1>u. CASE UNCHANGED vars
  BY <1>u DEF vars, ItsOwnInv, InFlight, OwnFiles, FilesOf
<1>. SUFFICES ASSUME NEW d \in Delivery,
                     Start(d) \/ Step(d) \/ ContextExpires(d) \/ Panic(d)
              PROVE  ItsOwnInv'
  BY <1>u DEF Next
<1>1. CASE Start(d)
  <2>1. /\ UNCHANGED <<filesToUpload, queued, uploads, snapshot>>
        /\ pc[d] = "idle" /\ pc'[d] = "prepare"
        /\ \A e \in Delivery \ {d} : pc'[e] = pc[e]
    BY <1>1 DEF Start, Goto, ControlType
  <2>2. ASSUME NEW e \in Delivery \ {d}, company'[e] = {}
        PROVE  company[e] = {} /\ ~ InFlight(e) /\ ~ InFlight(e)'
    BY <1>1, <2>1, <2>2 DEF Start, HistoryType, InFlight
  <2>3. ASSUME company'[d] = {}, ~ MayPanic PROVE filesToUpload = NoUploads
    <3>1. \A e \in Delivery : ~ InFlight(e)
      BY <1>1, <2>3 DEF Start, HistoryType
    <3>. QED
      BY <2>3, <3>1 DEF SomeoneClears, InFlight, Retired
  <2>4. snapshot[d] = NoUploads /\ uploads[d] = {}
    BY <2>1 DEF ItsOwnInv
  <2>5. ASSUME NEW e \in Delivery \ {d}, company'[e] = {}, ~ MayPanic
        PROVE  \A u \in uploads'[e] : OwnFiles(e, u.batch)'
    BY <2>1, <2>2, <2>5 DEF ItsOwnInv, OwnFiles, FilesOf
  <2>6. ASSUME company'[d] = {}, ~ MayPanic
        PROVE  \A k \in UploadKey : /\ OwnFiles(d, filesToUpload[k])'
                                    /\ OwnFiles(d, snapshot[d][k])'
    BY <2>1, <2>3, <2>4, <2>6 DEF OwnFiles, NoUploads, NoBatch, FilesOf
  <2>7. \A e \in Delivery : pc'[e] = "idle" => snapshot'[e] = NoUploads /\ uploads'[e] = {}
    BY <2>1 DEF ItsOwnInv
  <2>. QED
    BY <2>1, <2>2, <2>4, <2>5, <2>6, <2>7 DEF ItsOwnInv
<1>. SUFFICES ASSUME Step(d) \/ ContextExpires(d) \/ Panic(d)  PROVE ItsOwnInv'
  BY <1>1
<1>. USE DEF Goto, Fail, ControlType, LocalType
<1>a. /\ InFlight(d) /\ company' = company /\ pc'[d] # "idle"
      /\ \A e \in Delivery \ {d} : /\ pc'[e] = pc[e] /\ queued'[e] = queued[e]
                                   /\ uploads'[e] = uploads[e]
                                   /\ snapshot'[e] = snapshot[e]
  BY OthersStay
<1>b. SUFFICES ASSUME company[d] = {}, ~ MayPanic
               PROVE  /\ \A u \in uploads'[d] : OwnFiles(d, u.batch)'
                      /\ InFlight(d)' =>
                           /\ \A k \in UploadKey : OwnFiles(d, filesToUpload[k])'
                           /\ \A k \in UploadKey : OwnFiles(d, snapshot[d][k])'
                           /\ pc'[d] = "put" => OwnFiles(d, content[d])'
  BY <1>a, ItsOwnFrame
<1>c. /\ \A u \in uploads[d] : OwnFiles(d, u.batch)
      /\ \A k \in UploadKey : OwnFiles(d, filesToUpload[k])
      /\ \A k \in UploadKey : OwnFiles(d, snapshot[d][k])
      /\ pc[d] = "put" => OwnFiles(d, content[d])
  BY <1>a, <1>b DEF ItsOwnInv
<1>. USE DEF OwnFiles
<1>2. CASE ContextExpires(d)
  BY <1>2, <1>b, <1>c DEF ContextExpires
<1>3. CASE Prepare(d)
  BY <1>3, <1>b, <1>c DEF Prepare
<1>4. CASE PrepareFails(d)
  BY <1>4, <1>b, <1>c DEF PrepareFails
<1>5. CASE CancelWorkflow(d)
  BY <1>5, <1>b, <1>c DEF CancelWorkflow
<1>6. CASE MatchFiles(d)
  BY <1>6, <1>b, <1>c DEF MatchFiles
<1>7. CASE SkipUnfetched(d)
  BY <1>7, <1>b, <1>c DEF SkipUnfetched
<1>8. CASE QueueRead(d)
  <2>1. KeyOf(Head(matches[d]).workflow) \in UploadKey
    BY <1>8, HeadType, KeyType DEF QueueRead
  <2>. QED
    BY <1>8, <1>c, <2>1 DEF QueueRead
<1>9. CASE QueueWrite(d)
  <2>1. pc[d] = "put" /\ matches[d] # <<>>
    BY <1>9 DEF QueueWrite, PlaceOK
  <2>2. PICK w \in Workflow, g \in CopiedFile :
          w = Head(matches[d]).workflow /\ g = FileOf(d) /\ g.workflow = w
    BY <2>1, HeadType DEF FileOf
  <2>3. /\ filesToUpload' = [filesToUpload EXCEPT ![KeyOf(w)] = Merge(content[d], w, g)]
        /\ KeyOf(w) \in UploadKey
        /\ FilesOf(Merge(content[d], w, g)) = FilesOf(content[d]) \cup {g}
    BY <1>9, <2>2, KeyType, MergeFiles DEF QueueWrite
  <2>4. /\ uploads' = uploads /\ queued'[d] = queued[d] \cup {g} /\ pc'[d] = "workflow"
        /\ snapshot' = snapshot
    BY <1>9, <2>2 DEF QueueWrite, HistoryType
  <2>5. ASSUME NEW k \in UploadKey
        PROVE  FilesOf(filesToUpload'[k]) \subseteq queued'[d]
    <3>1. CASE k = KeyOf(w)
      BY <1>c, <2>1, <2>3, <2>4, <3>1 DEF QueueType
    <3>2. CASE k # KeyOf(w)
      BY <1>c, <2>3, <2>4, <3>2 DEF QueueType
    <3>. QED
      BY <3>1, <3>2
  <2>. QED
    BY <1>c, <2>4, <2>5
<1>10. CASE QueueDeprecation(d)
  BY <1>10, <1>b, <1>c DEF QueueDeprecation
<1>11. CASE TakeUploads(d)
  <2>1. /\ UNCHANGED <<filesToUpload, uploads, queued>>
        /\ pc'[d] = "upload" /\ snapshot'[d] \in {NoUploads, filesToUpload}
    BY <1>11 DEF TakeUploads
  <2>2. \A k \in UploadKey : FilesOf(snapshot'[d][k]) \subseteq queued[d]
    BY <1>c, <2>1, EmptyIsOwn
  <2>. QED
    BY <1>c, <2>1, <2>2
<1>12. CASE \E k \in UploadKey : Upload(d, k)
  <2>1. PICK k \in UploadKey : Upload(d, k)
    BY <1>12
  <2>2. PICK ok \in BOOLEAN :
          uploads' = [uploads EXCEPT ![d] =
            @ \cup {[key |-> k, batch |-> snapshot[d][k], ok |-> ok]}]
    BY <2>1 DEF Upload
  <2>3. /\ snapshot' = [snapshot EXCEPT ![d] = [@ EXCEPT ![k] = NoBatch]]
        /\ UNCHANGED <<filesToUpload, pc, content, queued>>
        /\ pc[d] = "upload"
    BY <2>1 DEF Upload
  <2>4. uploads'[d] = uploads[d]
          \cup {[key |-> k, batch |-> snapshot[d][k], ok |-> ok]}
    BY <2>2 DEF HistoryType
  <2>5. \A u \in uploads'[d] : FilesOf(u.batch) \subseteq queued'[d]
    BY <1>c, <2>3, <2>4
  <2>6. ASSUME NEW j \in UploadKey PROVE FilesOf(snapshot'[d][j]) \subseteq queued'[d]
    <3>1. CASE j = k
      <4>1. snapshot'[d][j] = NoBatch
        BY <2>3, <3>1
      <4>. QED
        BY <4>1 DEF NoBatch, FilesOf
    <3>2. CASE j # k
      BY <1>c, <2>3, <3>2
    <3>. QED
      BY <3>1, <3>2
  <2>. QED
    BY <1>c, <2>3, <2>5, <2>6
<1>13. CASE ClearUploads(d)
  BY <1>13, <1>b, <1>c DEF ClearUploads, NoUploads, NoBatch
<1>14. CASE TakeDeprecations(d)
  BY <1>14, <1>b, <1>c DEF TakeDeprecations
<1>15. CASE RecordDeprecations(d)
  BY <1>15, <1>b, <1>c DEF RecordDeprecations
<1>16. CASE ClearDeprecations(d)
  BY <1>16, <1>b, <1>c DEF ClearDeprecations
<1>17. CASE Finish(d)
  BY <1>17, <1>b, <1>c DEF Finish
<1>18. CASE Panic(d)
  BY <1>18, <1>b, <1>c DEF Panic
<1>19. CASE GiveUp(d)
  BY <1>19, <1>b, <1>c DEF GiveUp
<1>20. CASE WaitToRetry(d)
  BY <1>20, <1>b, <1>c DEF WaitToRetry
<1>21. CASE Retry(d)
  BY <1>21, <1>b, <1>c DEF Retry
<1>. QED
  BY <1>2, <1>3, <1>4, <1>5, <1>6, <1>7, <1>8, <1>9, <1>10, <1>11, <1>12,
     <1>13, <1>14, <1>15, <1>16, <1>17, <1>18, <1>19, <1>20, <1>21 DEF Step

(* A delivery that had the service to itself uploads its own files alone:  *)
(* no earlier delivery has left any behind, unless attempts panic.         *)
THEOREM NobodyElsesFiles == Spec => []LoneDeliveryUploadsItsOwn
<1>1. Init => TypeInv /\ SomeoneClears /\ AloneInv /\ ItsOwnInv
  BY TypeInit, AloneInit, ItsOwnInit DEF Init, SomeoneClears
<1>2. TypeInv /\ SomeoneClears /\ AloneInv /\ ItsOwnInv /\ [Next]_vars
        => (TypeInv /\ SomeoneClears /\ AloneInv /\ ItsOwnInv)'
  BY TypeStep, ClearStep, AloneStep, ItsOwnStep
<1>3. ItsOwnInv => LoneDeliveryUploadsItsOwn
  BY DEF ItsOwnInv, LoneDeliveryUploadsItsOwn, OwnFiles
<1>. QED
  BY <1>1, <1>2, <1>3, PTL DEF Spec
-----------------------------------------------------------------------------
(* A set of naturals with a bound has a greatest element.                  *)
LEMMA Greatest ==
  ASSUME NEW P \in SUBSET Nat, P # {}, NEW n \in Nat, \A x \in P : x <= n
  PROVE  \E m \in P : \A x \in P : x <= m
<1>. DEFINE Above(x) == x + 1 .. n
            T == {Above(x) : x \in P}
<1>1. T \subseteq FiniteSubsetsOf(Nat) /\ T # {}
  <2>1. ASSUME NEW x \in P PROVE Above(x) \in FiniteSubsetsOf(Nat)
    <3>1. x + 1 \in Int /\ n \in Int /\ Above(x) \subseteq Nat
      OBVIOUS
    <3>2. IsFiniteSet(Above(x))
      BY <3>1, FS_Interval
    <3>. QED
      BY <3>1, <3>2 DEF FiniteSubsetsOf
  <2>. QED
    BY <2>1
<1>2. PICK m \in P : \A x \in P : ~ (<<Above(x), Above(m)>> \in StrictSubsetOrdering(Nat))
  <2>1. \E t \in T : \A u \in T : ~ (<<u, t>> \in StrictSubsetOrdering(Nat))
    <3>. HIDE DEF T
    <3>. QED
      BY <1>1, FS_StrictSubsetOrderingWellFounded, WFMin
  <2>. QED
    BY <2>1
<1>3. ASSUME NEW x \in P, x > m PROVE FALSE
  <2>1. Above(x) \subseteq Above(m) /\ Above(m) \subseteq Nat
    BY <1>3
  <2>2. x \in Above(m) /\ x \notin Above(x)
    BY <1>3
  <2>. QED
    BY <1>2, <2>1, <2>2 DEF StrictSubsetOrdering
<1>. QED
  BY <1>3

(* There are finitely many deprecation files.                              *)
LEMMA DepFileFinite == IsFiniteSet(DepFile) /\ Cardinality(DepFile) \in Nat
<1>. DEFINE f == [w \in Workflow |-> DeprecationFile[w]]
            S == {DeprecationFile[w] : w \in Workflow}
<1>1. f \in Surjection(Workflow, S)
  BY DEF Surjection
<1>2. IsFiniteSet(Workflow)
  BY CopyPipelineAssumption DEF CopyPipelineAssumption
<1>3. IsFiniteSet(S)
  <2>. HIDE DEF f, S
  <2>. QED
    BY <1>1, <1>2, FS_Surjection
<1>4. DepFile \in SUBSET S
  BY DEF DepFile
<1>. HIDE DEF S
<1>. QED
  BY <1>3, <1>4, FS_Subset, FS_CardinalityType

(* Flattening keeps a last entry of every file name that is queued.        *)
LEMMA FlattenedNames ==
  ASSUME filesToDeprecate \in [DepFile -> Seq(Entry)], NEW order \in Orders,
         NEW f \in DepFile, NEW i \in DOMAIN filesToDeprecate[f]
  PROVE  \E r \in Flattened(order) : r.path = filesToDeprecate[f][i].path
<1>. DEFINE Slots == UNION {{<<g, j>> : j \in DOMAIN filesToDeprecate[g]} : g \in DepFile}
            EntryAt(s) == filesToDeprecate[s[1]][s[2]]
            After(s, t) == order[s[1]] > order[t[1]] \/ (s[1] = t[1] /\ s[2] > t[2])
            Same == {s \in Slots : EntryAt(s).path = filesToDeprecate[f][i].path}
            Ranks == {order[s[1]] : s \in Same}
<1>1. \A s \in Slots : /\ s[1] \in DepFile /\ s[2] \in DOMAIN filesToDeprecate[s[1]]
                       /\ s = <<s[1], s[2]>>
  OBVIOUS
<1>2. \A g \in DepFile : order[g] \in 1 .. Cardinality(DepFile)
  BY DEF Orders
<1>3. <<f, i>> \in Same
  OBVIOUS
<1>4. PICK s \in Same : \A t \in Same : order[t[1]] <= order[s[1]]
  <2>1. Ranks \in SUBSET Nat /\ Ranks # {} /\ \A x \in Ranks : x <= Cardinality(DepFile)
    BY <1>1, <1>2, <1>3, DepFileFinite
  <2>2. \E m \in Ranks : \A x \in Ranks : x <= m
    <3>. HIDE DEF Ranks
    <3>. QED
      BY <2>1, DepFileFinite, Greatest
  <2>. QED
    BY <2>2
<1>. DEFINE g == s[1]
            Places == {j \in DOMAIN filesToDeprecate[g] : <<g, j>> \in Same}
<1>5. g \in DepFile /\ s[2] \in Places
  BY <1>1
<1>6. PICK m \in Places : \A j \in Places : j <= m
  <2>1. /\ Len(filesToDeprecate[g]) \in Nat
        /\ DOMAIN filesToDeprecate[g] = 1 .. Len(filesToDeprecate[g])
    BY <1>5
  <2>2. Places \in SUBSET Nat /\ \A x \in Places : x <= Len(filesToDeprecate[g])
    BY <2>1
  <2>. HIDE DEF Places
  <2>. QED
    BY <1>5, <2>1, <2>2, Greatest
<1>7. <<g, m>> \in Same
  OBVIOUS
<1>8. ASSUME NEW t \in Slots, EntryAt(t).path = EntryAt(<<g, m>>).path
      PROVE  ~ After(t, <<g, m>>)
  <2>1. t \in Same
    BY <1>7, <1>8
  <2>2. ~ (order[t[1]] > order[g])
    <3>1. order[t[1]] <= order[g]
      BY <1>4, <2>1
    <3>2. order[t[1]] \in Int /\ order[g] \in Int
      BY <1>1, <1>2, <1>5, <2>1, DepFileFinite
    <3>. QED
      BY <3>1, <3>2
  <2>3. ASSUME t[1] = g, t[2] > m PROVE FALSE
    <3>1. t[2] \in Places
      BY <1>1, <2>1, <2>3
    <3>2. t[2] <= m /\ m \in Int /\ t[2] \in Int
      BY <1>5, <1>6, <3>1
    <3>. QED
      BY <2>3, <3>2
  <2>. QED
    BY <2>2, <2>3
<1>9. EntryAt(<<g, m>>) \in Flattened(order)
  <2>. DEFINE Latest == {x \in Slots : \A t \in Slots :
                           EntryAt(t).path = EntryAt(x).path => ~ After(t, x)}
  <2>1. <<g, m>> \in Latest
    <3>1. <<g, m>> \in Slots
      BY <1>7
    <3>. HIDE DEF Slots, EntryAt, After
    <3>. QED
      BY <1>8, <3>1
  <2>2. Flattened(order) = {EntryAt(x) : x \in Latest}
    BY DEF Flattened
  <2>3. Flattened(order) = {filesToDeprecate[x[1]][x[2]] : x \in Latest}
    BY <2>2
  <2>. HIDE DEF Latest
  <2>. QED
    BY <2>1, <2>3
<1>. QED
  BY <1>7, <1>9

-----------------------------------------------------------------------------
(* What becomes of the deprecations a delivery has queued: while it has    *)
(* the service to itself each waits in the queue, or a name like it has    *)
(* been recorded; between the two the flattened map has the name.          *)
Waits(e) == \E f \in DepFile : \E i \in DOMAIN filesToDeprecate[f] : filesToDeprecate[f][i] = e

Named(S, e) == \E r \in S : r.path = e.path

PastRecord == {"clear", "finish", "processed_ok"}

NotedInv ==
  \A d \in Delivery :
    /\ pc[d] = "idle" => noted[d] = {}
    /\ company[d] = {} /\ ~ DryRun =>
         /\ InFlight(d) => \A e \in noted[d] : Waits(e) \/ Named(recorded[d], e)
         /\ pc[d] = "record" =>
              \A e \in noted[d] : Named(deprecated[d], e) \/ Named(recorded[d], e)
         /\ pc[d] \in PastRecord => \A e \in noted[d] : Named(recorded[d], e)

LEMMA NotedInit == Init => NotedInv
  BY DEF Init, NotedInv, InFlight, Retired, PastRecord

(* As before: a step of one delivery only matters to itself.               *)
LEMMA NotedFrame ==
  ASSUME TypeInv, AloneInv, NotedInv, NEW d \in Delivery, InFlight(d),
         company' = company, pc'[d] # "idle",
         \A e \in Delivery \ {d} : /\ pc'[e] = pc[e] /\ noted'[e] = noted[e]
                                   /\ recorded'[e] = recorded[e],
         company[d] = {} /\ ~ DryRun =>
           /\ InFlight(d)' => \A e \in noted'[d] : Waits(e)' \/ Named(recorded'[d], e)
           /\ pc'[d] = "record" =>
                \A e \in noted'[d] : Named(deprecated'[d], e) \/ Named(recorded'[d], e)
           /\ pc'[d] \in PastRecord => \A e \in noted'[d] : Named(recorded'[d], e)
  PROVE  NotedInv'
<1>1. ASSUME NEW g \in Delivery \ {d}, company[g] = {}, ~ DryRun
      PROVE  /\ ~ InFlight(g)'
             /\ pc'[g] # "record"
             /\ pc'[g] \in PastRecord => \A e \in noted'[g] : Named(recorded'[g], e)
  <2>1. ~ InFlight(g) /\ pc'[g] = pc[g]
    BY <1>1 DEF AloneInv
  <2>. QED
    BY <1>1, <2>1 DEF InFlight, Retired, NotedInv
<1>2. ASSUME NEW g \in Delivery \ {d}, pc'[g] = "idle" PROVE noted'[g] = {}
  BY <1>2 DEF NotedInv
<1>. QED
  BY <1>1, <1>2 DEF NotedInv, Named

(* Every step keeps it: the queue is cleared only once it was recorded.    *)
LEMMA NotedStep == TypeInv /\ AloneInv /\ NotedInv /\ [Next]_vars => NotedInv'
<1>. SUFFICES ASSUME TypeInv, AloneInv, NotedInv, [Next]_vars PROVE NotedInv'
  OBVIOUS
<1>. USE DEF TypeInv, TypeOK, queues, control, locals, history
<1>u. CASE UNCHANGED vars
  BY <1>u DEF vars, NotedInv, InFlight, Waits, Named
<1>. SUFFICES ASSUME NEW d \in Delivery,
                     Start(d) \/ Step(d) \/ ContextExpires(d) \/ Panic(d)
              PROVE  NotedInv'
  BY <1>u DEF Next
<1>1. CASE Start(d)
  <2>1. /\ UNCHANGED <<noted, recorded>>
        /\ noted[d] = {}
        /\ pc'[d] = "prepare"
    BY <1>1 DEF Start, Goto, NotedInv, ControlType
  <2>2. ASSUME NEW e \in Delivery \ {d}
        PROVE  /\ pc'[e] = pc[e]
               /\ company'[e] = {} => company[e] = {} /\ ~ InFlight(e)
    BY <1>1 DEF Start, Goto, ControlType, HistoryType
  <2>3. ASSUME NEW e \in Delivery \ {d}, company'[e] = {}
        PROVE  ~ InFlight(e)' /\ pc'[e] # "record"
    BY <2>2, <2>3 DEF InFlight, Retired
  <2>. QED
    BY <2>1, <2>2, <2>3 DEF NotedInv, Named, PastRecord
<1>. SUFFICES ASSUME Step(d) \/ ContextExpires(d) \/ Panic(d)  PROVE NotedInv'
  BY <1>1
<1>a. /\ InFlight(d) /\ company' = company /\ pc'[d] # "idle"
      /\ \A e \in Delivery \ {d} : /\ pc'[e] = pc[e] /\ noted'[e] = noted[e]
                                   /\ recorded'[e] = recorded[e]
  BY OthersStay
<1>. SUFFICES ASSUME company[d] = {}, ~ DryRun
     PROVE  /\ InFlight(d)' => \A e \in noted'[d] : Waits(e)' \/ Named(recorded'[d], e)
            /\ pc'[d] = "record" =>
                 \A e \in noted'[d] : Named(deprecated'[d], e) \/ Named(recorded'[d], e)
            /\ pc'[d] \in PastRecord => \A e \in noted'[d] : Named(recorded'[d], e)
  BY <1>a, NotedFrame
<1>c. /\ \A e \in noted[d] : Waits(e) \/ Named(recorded[d], e)
      /\ pc[d] = "record" =>
           \A e \in noted[d] : Named(deprecated[d], e) \/ Named(recorded[d], e)
      /\ pc[d] \in PastRecord => \A e \in noted[d] : Named(recorded[d], e)
  BY <1>a DEF NotedInv
<1>. USE DEF PastRecord, ControlType, Goto, Fail
<1>q. ASSUME UNCHANGED <<filesToDeprecate, noted, recorded>>, pc'[d] # "record",
             pc'[d] \in PastRecord => pc[d] \in PastRecord
      PROVE  /\ InFlight(d)' => \A e \in noted'[d] : Waits(e)' \/ Named(recorded'[d], e)
             /\ pc'[d] = "record" =>
                  \A e \in noted'[d] : Named(deprecated'[d], e) \/ Named(recorded'[d], e)
             /\ pc'[d] \in PastRecord => \A e \in noted'[d] : Named(recorded'[d], e)
  BY <1>c, <1>q DEF Waits
<1>2. CASE ContextExpires(d)
  BY <1>2, <1>c DEF ContextExpires, Waits
<1>3. CASE Prepare(d)
  BY <1>3, <1>q DEF Prepare
<1>4. CASE PrepareFails(d)
  BY <1>4, <1>q DEF PrepareFails
<1>5. CASE CancelWorkflow(d)
  BY <1>5, <1>q DEF CancelWorkflow
<1>6. CASE MatchFiles(d)
  BY <1>6, <1>q DEF MatchFiles
<1>7. CASE SkipUnfetched(d)
  BY <1>7, <1>q DEF SkipUnfetched
<1>8. CASE QueueRead(d)
  BY <1>8, <1>q DEF QueueRead
<1>9. CASE QueueWrite(d)
  BY <1>9, <1>q DEF QueueWrite
<1>10. CASE QueueDeprecation(d)
  <2>1. /\ pc'[d] = "workflow" /\ recorded' = recorded
        /\ pc[d] = "workflow" /\ matches[d] # <<>>
    BY <1>10 DEF QueueDeprecation
  <2>2. PICK m \in PendingMatch : m = Head(matches[d]) /\ m.workflow \in Workflow
    BY <2>1, HeadType
  <2>. DEFINE f == DeprecationFile[m.workflow]
              e == [path |-> m.path, dest |-> Destination[m.workflow]]
  <2>3. CASE f = NoFile
    BY <1>10, <1>c, <2>1, <2>2, <2>3 DEF QueueDeprecation, Waits
  <2>4. CASE f # NoFile
    <3>1. /\ f \in DepFile /\ e \in Entry
          /\ filesToDeprecate' = [filesToDeprecate EXCEPT ![f] = Append(@, e)]
          /\ noted'[d] = noted[d] \cup {e}
      BY <1>10, <2>2, <2>4
         DEF QueueDeprecation, HistoryType, DepFile, Entry, Dest, PendingMatch
    <3>2. filesToDeprecate[f] \in Seq(Entry)
      BY <3>1 DEF QueueType
    <3>3. ASSUME NEW x, Waits(x) PROVE Waits(x)'
      <4>1. PICK g \in DepFile : \E j \in DOMAIN filesToDeprecate[g] : filesToDeprecate[g][j] = x
        BY <3>3 DEF Waits
      <4>2. PICK i \in DOMAIN filesToDeprecate[g] : filesToDeprecate[g][i] = x
        BY <4>1
      <4>3. i \in DOMAIN filesToDeprecate'[g] /\ filesToDeprecate'[g][i] = x
        <5>1. CASE g = f
          BY <3>1, <3>2, <4>2, <5>1 DEF QueueType
        <5>2. CASE g # f
          BY <3>1, <4>2, <5>2 DEF QueueType
        <5>. QED
          BY <5>1, <5>2
      <4>. QED
        BY <4>3 DEF Waits
    <3>4. Waits(e)'
      <4>1. filesToDeprecate'[f] = Append(filesToDeprecate[f], e)
        BY <3>1 DEF QueueType
      <4>2. /\ Len(filesToDeprecate[f]) + 1 \in DOMAIN filesToDeprecate'[f]
            /\ filesToDeprecate'[f][Len(filesToDeprecate[f]) + 1] = e
        BY <3>2, <4>1
      <4>. QED
        BY <3>1, <4>2 DEF Waits
    <3>. QED
      BY <1>c, <2>1, <3>1, <3>3, <3>4
  <2>. QED
    BY <2>3, <2>4
<1>11. CASE TakeUploads(d)
  BY <1>11, <1>q DEF TakeUploads
<1>12. CASE \E k \in UploadKey : Upload(d, k)
  BY <1>12, <1>q DEF Upload
<1>13. CASE ClearUploads(d)
  BY <1>13, <1>q DEF ClearUploads
<1>14. CASE TakeDeprecations(d)
  <2>1. PICK order \in Orders : deprecated' = [deprecated EXCEPT ![d] = Flattened(order)]
    BY <1>14 DEF TakeDeprecations
  <2>2. /\ UNCHANGED <<filesToDeprecate, noted, recorded>>
        /\ pc'[d] = "record" /\ deprecated'[d] = Flattened(order)
    BY <1>14, <2>1 DEF TakeDeprecations, LocalType
  <2>3. ASSUME NEW e, Waits(e) PROVE Named(deprecated'[d], e)
    <3>1. PICK f \in DepFile : \E j \in DOMAIN filesToDeprecate[f] : filesToDeprecate[f][j] = e
      BY <2>3 DEF Waits
    <3>2. PICK i \in DOMAIN filesToDeprecate[f] : filesToDeprecate[f][i] = e
      BY <3>1
    <3>3. \E r \in Flattened(order) : r.path = filesToDeprecate[f][i].path
      BY FlattenedNames DEF QueueType
    <3>. QED
      BY <2>2, <3>2, <3>3 DEF Named
  <2>. QED
    BY <1>c, <2>2, <2>3 DEF Waits
<1>15. CASE RecordDeprecations(d)
  <2>1. /\ UNCHANGED <<filesToDeprecate, noted>>
        /\ pc[d] = "record" /\ pc'[d] = "clear"
        /\ recorded'[d] = recorded[d] \cup deprecated[d]
    BY <1>15 DEF RecordDeprecations, HistoryType
  <2>2. \A e : Named(deprecated[d], e) \/ Named(recorded[d], e) => Named(recorded'[d], e)
    BY <2>1 DEF Named
  <2>. QED
    BY <1>c, <2>1, <2>2
<1>16. CASE ClearDeprecations(d)
  BY <1>16, <1>c DEF ClearDeprecations
<1>17. CASE Finish(d)
  BY <1>17, <1>q DEF Finish
<1>18. CASE Panic(d)
  BY <1>18, <1>q DEF Panic
<1>19. CASE GiveUp(d)
  BY <1>19, <1>q DEF GiveUp
<1>20. CASE WaitToRetry(d)
  BY <1>20, <1>q DEF WaitToRetry
<1>21. CASE Retry(d)
  BY <1>21, <1>q DEF Retry
<1>. QED
  BY <1>2, <1>3, <1>4, <1>5, <1>6, <1>7, <1>8, <1>9, <1>10, <1>11, <1>12,
     <1>13, <1>14, <1>15, <1>16, <1>17, <1>18, <1>19, <1>20, <1>21 DEF Step

(* A delivery that had the service to itself and is reported processed_ok  *)
(* has tried to record every deprecation it queued, or another of the same *)
(* file name, in whatever order the deprecation files were visited.        *)
THEOREM LoneNamesRecorded == Spec => []LoneDeliveryRecordsNames
<1>1. Init => TypeInv /\ AloneInv /\ NotedInv
  BY TypeInit, AloneInit, NotedInit
<1>2. TypeInv /\ AloneInv /\ NotedInv /\ [Next]_vars
        => (TypeInv /\ AloneInv /\ NotedInv)'
  BY TypeStep, AloneStep, NotedStep
<1>3. NotedInv => LoneDeliveryRecordsNames
  BY DEF NotedInv, LoneDeliveryRecordsNames, PastRecord, Named
<1>. QED
  BY <1>1, <1>2, <1>3, PTL DEF Spec
-----------------------------------------------------------------------------
(* The counters of FileCounts ride along: every step of theirs is one of   *)
(* the pipeline.                                                           *)
Counts == [uploaded : Nat, failed : Nat]

CountsType == since \in [Delivery -> Counts] /\ own \in [Delivery -> Counts]

Prepared == {"workflow", "put", "upload", "drain", "record", "clear", "finish"}

(* While a delivery has the service to itself nobody else counts, so what  *)
(* the counters have grown since its attempt began is its own work.        *)
ReportInv ==
  \A d \in Delivery : company[d] = {} /\ pc[d] \in Prepared => since[d] = own[d]

CountsInv == CountsType /\ ReportInv

LEMMA ZeroType == Zero \in Counts
  BY DEF Zero, Counts

LEMMA CountsInitInv == CountsInit => CountsInv
<1>. SUFFICES ASSUME CountsInit PROVE CountsInv
  OBVIOUS
<1>1. CountsType
  BY ZeroType DEF CountsInit, CountsType
<1>2. ReportInv
  <2>1. \A d \in Delivery : pc[d] \notin Prepared
    BY DEF CountsInit, Init, Prepared
  <2>. QED
    BY <2>1 DEF ReportInv
<1>. QED
  BY <1>1, <1>2 DEF CountsInv

(* Counting a file or more keeps the counters counters.                    *)
LEMMA CountedType ==
  ASSUME CountsType, NEW d \in Delivery, NEW name \in {"uploaded", "failed"},
         NEW n \in Nat, Counted(d, name, n)
  PROVE  /\ CountsType'
         /\ InFlight(d) => since'[d] = [since[d] EXCEPT ![name] = @ + n]
         /\ own'[d] = [own[d] EXCEPT ![name] = @ + n]
<1>1. ASSUME NEW c \in Counts PROVE [c EXCEPT ![name] = @ + n] \in Counts
  BY DEF Counts
<1>2. own' \in [Delivery -> Counts] /\ own'[d] = [own[d] EXCEPT ![name] = @ + n]
  <2>1. own' = [own EXCEPT ![d] = [own[d] EXCEPT ![name] = @ + n]]
    BY DEF Counted
  <2>2. [own[d] EXCEPT ![name] = @ + n] \in Counts
    BY <1>1 DEF CountsType
  <2>. QED
    BY <2>1, <2>2 DEF CountsType
<1>3. since' \in [Delivery -> Counts]
  <2>1. \A e \in Delivery : [since[e] EXCEPT ![name] = @ + n] \in Counts
    BY <1>1 DEF CountsType
  <2>. QED
    BY <2>1 DEF Counted, CountsType
<1>4. InFlight(d) => since'[d] = [since[d] EXCEPT ![name] = @ + n]
  BY DEF Counted
<1>. QED
  BY <1>2, <1>3, <1>4 DEF CountsType

(* Only the goroutine that counts can see a difference: beside it nobody   *)
(* in flight is alone.                                                     *)
LEMMA CountedAlone ==
  ASSUME TypeInv, AloneInv, CountsInv, NEW d \in Delivery, InFlight(d),
         company' = company, \A e \in Delivery \ {d} : pc'[e] = pc[e],
         pc[d] \in Prepared,
         NEW name \in {"uploaded", "failed"}, NEW n \in Nat, Counted(d, name, n)
  PROVE  CountsInv'
<1>1. CountsType'
  BY CountedType DEF CountsInv
<1>2. ASSUME NEW e \in Delivery \ {d}, company[e] = {} PROVE pc'[e] \notin Prepared
  <2>1. pc[e] \in {"idle", "processed_ok", "processing_failed"}
    BY <1>2 DEF AloneInv, InFlight, Retired
  <2>. QED
    BY <2>1 DEF Prepared
<1>3. company[d] = {} => since'[d] = own'[d]
  <2>1. /\ since'[d] = [since[d] EXCEPT ![name] = @ + n]
        /\ own'[d] = [own[d] EXCEPT ![name] = @ + n]
    BY CountedType DEF CountsInv
  <2>2. company[d] = {} => since[d] = own[d]
    BY DEF CountsInv, ReportInv
  <2>. QED
    BY <2>1, <2>2
<1>. QED
  BY <1>1, <1>2, <1>3 DEF CountsInv, ReportInv

(* A step that counts nothing brings no other goroutine into an attempt.   *)
LEMMA UncountedStep ==
  ASSUME TypeInv, CountsInv, UNCHANGED counts,
         \A e \in Delivery : company'[e] = {} /\ pc'[e] \in Prepared
                               => company[e] = {} /\ pc[e] \in Prepared
  PROVE  CountsInv'
  BY DEF CountsInv, CountsType, ReportInv, counts

LEMMA CountsStep ==
  TypeInv /\ AloneInv /\ CountsInv /\ [CountsNext]_<<vars, counts>>
    => CountsInv' /\ [Next]_vars
<1>. SUFFICES ASSUME TypeInv, AloneInv, CountsInv, [CountsNext]_<<vars, counts>>
              PROVE  CountsInv' /\ [Next]_vars
  OBVIOUS
<1>u. CASE UNCHANGED <<vars, counts>>
  BY <1>u DEF vars, history, CountsInv, CountsType, ReportInv, counts
<1>. SUFFICES ASSUME NEW d \in Delivery,
       \/ PrepareCounted(d) \/ QueueCounted(d)
       \/ \E k \in UploadKey : UploadCounted(d, k)
       \/ /\ \/ Start(d) \/ ContextExpires(d) \/ Panic(d)
             \/ PrepareFails(d) \/ CancelWorkflow(d) \/ MatchFiles(d) \/ SkipUnfetched(d)
             \/ QueueRead(d) \/ QueueDeprecation(d) \/ TakeUploads(d) \/ ClearUploads(d)
             \/ TakeDeprecations(d) \/ RecordDeprecations(d) \/ ClearDeprecations(d)
             \/ Finish(d) \/ GiveUp(d) \/ WaitToRetry(d) \/ Retry(d)
          /\ UNCHANGED counts
     PROVE  CountsInv' /\ [Next]_vars
  BY <1>u DEF CountsNext
<1>1. CASE PrepareCounted(d)
  <2>1. Prepare(d)
    BY <1>1 DEF PrepareCounted
  <2>2. /\ company' = company /\ \A e \in Delivery \ {d} : pc'[e] = pc[e]
        /\ since' = [since EXCEPT ![d] = Zero] /\ own' = [own EXCEPT ![d] = Zero]
    BY <1>1, <2>1, OthersStay DEF PrepareCounted, Step
  <2>3. CountsInv'
    BY <2>2, ZeroType DEF CountsInv, CountsType, ReportInv
  <2>. QED
    BY <2>1, <2>3 DEF Next, Step
<1>2. CASE QueueCounted(d)
  <2>1. QueueWrite(d) /\ Counted(d, "uploaded", 1)
    BY <1>2 DEF QueueCounted
  <2>2. Step(d) /\ pc[d] \in Prepared
    BY <2>1 DEF Step, QueueWrite, Prepared
  <2>3. CountsInv'
    BY <2>1, <2>2, OthersStay, CountedAlone
  <2>. QED
    BY <2>2, <2>3 DEF Next
<1>3. CASE \E k \in UploadKey : UploadCounted(d, k)
  <2>1. PICK k \in UploadKey : UploadCounted(d, k)
    BY <1>3
  <2>2. Upload(d, k) /\ Step(d) /\ pc[d] = "upload"
    BY <2>1 DEF UploadCounted, Step, Upload
  <2>3. \/ UNCHANGED counts
        \/ Counted(d, "failed", Len(snapshot[d][k].files))
    BY <2>1 DEF UploadCounted
  <2>4. Len(snapshot[d][k].files) \in Nat
    <3>1. snapshot[d][k] \in Batch
      BY DEF TypeInv, TypeOK, LocalType
    <3>. QED
      BY <3>1 DEF Batch
  <2>5. CASE UNCHANGED counts
    <3>1. pc' = pc /\ company' = company
      BY <2>2 DEF Upload
    <3>. QED
      BY <2>2, <2>5, <3>1, UncountedStep DEF Next
  <2>6. CASE Counted(d, "failed", Len(snapshot[d][k].files))
    <3>1. CountsInv'
      BY <2>2, <2>4, <2>6, OthersStay, CountedAlone DEF Prepared
    <3>. QED
      BY <2>2, <3>1 DEF Next
  <2>. QED
    BY <2>3, <2>5, <2>6
<1>4. CASE /\ \/ Start(d) \/ ContextExpires(d) \/ Panic(d)
              \/ PrepareFails(d) \/ CancelWorkflow(d) \/ MatchFiles(d) \/ SkipUnfetched(d)
              \/ QueueRead(d) \/ QueueDeprecation(d) \/ TakeUploads(d) \/ ClearUploads(d)
              \/ TakeDeprecations(d) \/ RecordDeprecations(d) \/ ClearDeprecations(d)
              \/ Finish(d) \/ GiveUp(d) \/ WaitToRetry(d) \/ Retry(d)
           /\ UNCHANGED counts
  <2>1. Start(d) \/ Step(d) \/ ContextExpires(d) \/ Panic(d)
    BY <1>4 DEF Step
  <2>2. pc'[d] \in Prepared => pc[d] \in Prepared
    BY <1>4 DEF TypeInv, TypeOK, ControlType, Prepared, Goto, Fail, control,
         Start, ContextExpires, Panic, PrepareFails, CancelWorkflow, MatchFiles,
         SkipUnfetched, QueueRead, QueueDeprecation, TakeUploads, ClearUploads,
         TakeDeprecations, RecordDeprecations, ClearDeprecations, Finish, GiveUp,
         WaitToRetry, Retry
  <2>3. CASE Start(d)
    <3>1. \A e \in Delivery : /\ e # d => pc'[e] = pc[e]
                              /\ e # d /\ company'[e] = {} => company[e] = {}
      BY <2>3 DEF Start, Goto, TypeInv, TypeOK, ControlType, HistoryType
    <3>2. pc'[d] \notin Prepared
      BY <2>3 DEF Start, Goto, TypeInv, TypeOK, ControlType, Prepared
    <3>3. CountsInv'
      BY <1>4, <3>1, <3>2, UncountedStep
    <3>. QED
      BY <2>1, <3>3 DEF Next
  <2>4. CASE Step(d) \/ ContextExpires(d) \/ Panic(d)
    <3>1. company' = company /\ \A e \in Delivery \ {d} : pc'[e] = pc[e]
      BY <2>4, OthersStay
    <3>2. CountsInv'
      BY <1>4, <2>2, <3>1, UncountedStep
    <3>. QED
      BY <2>1, <3>2 DEF Next
  <2>. QED
    BY <2>1, <2>3, <2>4
<1>. QED
  BY <1>1, <1>2, <1>3, <1>4

(* The notification of a delivery that overlaps no other counts the work   *)
(* of its own last attempt, whatever other deliveries and failed attempts  *)
(* have counted before.                                                    *)
THEOREM LoneReportsAreExact == CountsSpec => []LoneReportIsExact
<1>1. CountsInit => TypeInv /\ AloneInv /\ CountsInv
  BY TypeInit, AloneInit, CountsInitInv DEF CountsInit
<1>2. TypeInv /\ AloneInv /\ CountsInv /\ [CountsNext]_<<vars, counts>>
        => (TypeInv /\ AloneInv /\ CountsInv)'
  BY TypeStep, AloneStep, CountsStep
<1>3. CountsInv => LoneReportIsExact
  BY DEF CountsInv, ReportInv, LoneReportIsExact, Report, Prepared
<1>. QED
  BY <1>1, <1>2, <1>3, PTL DEF CountsSpec

(* The counters are bookkeeping beside the pipeline: what holds of every   *)
(* behaviour of CopyPipeline holds of those that count, too.               *)
THEOREM CountingChangesNothing == CountsSpec => Spec
<1>1. CountsInit => Init /\ TypeInv /\ AloneInv /\ CountsInv
  BY TypeInit, AloneInit, CountsInitInv DEF CountsInit
<1>2. TypeInv /\ AloneInv /\ CountsInv /\ [CountsNext]_<<vars, counts>>
        => (TypeInv /\ AloneInv /\ CountsInv)' /\ [Next]_vars
  BY TypeStep, AloneStep, CountsStep
<1>. QED
  BY <1>1, <1>2, PTL DEF CountsSpec, Spec
-----------------------------------------------------------------------------
(* Without panics: the context has run out once a workflow was cancelled;  *)
(* while it has not, a delivery that is not past its uploads has tried     *)
(* none, so an attempt that is prepared begins without any; and from its   *)
(* preparation on a failed upload shows in what the counters have grown.   *)
Unsent == {"idle", "prepare", "workflow", "put", "failed", "waiting"}

SeenFor(d) ==
  /\ cancelled[d] => expired[d]
  /\ ~ expired[d] /\ pc[d] \in Unsent => uploads[d] = {}
  /\ pc[d] \in Prepared \cup {"processed_ok"} /\ since[d].failed = 0
       => \A u \in uploads[d] : u.ok

SeenInv == ~ MayPanic => \A d \in Delivery : SeenFor(d)

LEMMA SeenInit == CountsInit => SeenInv
  BY DEF CountsInit, Init, SeenInv, SeenFor, Prepared

(* What was counted does not become uncounted.                             *)
LEMMA StaysCounted ==
  ASSUME CountsType, NEW d \in Delivery, NEW name \in {"uploaded", "failed"},
         NEW n \in Nat, Counted(d, name, n), NEW e \in Delivery
  PROVE  since'[e].failed = 0 => since[e].failed = 0
<1>1. since[e] \in Counts
  BY DEF CountsType
<1>2. CASE since'[e] = since[e]
  BY <1>2
<1>3. CASE since'[e] = [since[e] EXCEPT ![name] = @ + n]
  <2>1. CASE name = "failed"
    BY <1>1, <1>3, <2>1 DEF Counts
  <2>2. CASE name = "uploaded"
    BY <1>1, <1>3, <2>2 DEF Counts
  <2>. QED
    BY <2>1, <2>2
<1>. QED
  BY <1>2, <1>3 DEF Counted

(* The context and the cancelled workflows of a delivery are its own.      *)
LEMMA OthersKeep ==
  ASSUME TypeInv, NEW d \in Delivery, Start(d) \/ Step(d) \/ ContextExpires(d)
  PROVE  \A e \in Delivery \ {d} :
           /\ pc'[e] = pc[e] /\ uploads'[e] = uploads[e]
           /\ expired'[e] = expired[e] /\ cancelled'[e] = cancelled[e]
<1>. USE DEF TypeInv, TypeOK, queues, control, locals, history, Goto, Fail
<1>1. \A e \in Delivery \ {d} : pc'[e] = pc[e] /\ uploads'[e] = uploads[e]
  BY OthersStay DEF Start, ControlType
<1>2. \A e \in Delivery \ {d} : expired'[e] = expired[e]
  BY DEF ControlType, Start,
         Step, Prepare, PrepareFails,
         CancelWorkflow, MatchFiles, SkipUnfetched, QueueRead, QueueWrite,
         QueueDeprecation, TakeUploads, Upload, ClearUploads, TakeDeprecations,
         RecordDeprecations, ClearDeprecations, Finish, GiveUp, WaitToRetry,
         Retry, ContextExpires
<1>3. \A e \in Delivery \ {d} : cancelled'[e] = cancelled[e]
  BY DEF LocalType, Start,
         Step, Prepare, PrepareFails,
         CancelWorkflow, MatchFiles, SkipUnfetched, QueueRead, QueueWrite,
         QueueDeprecation, TakeUploads, Upload, ClearUploads, TakeDeprecations,
         RecordDeprecations, ClearDeprecations, Finish, GiveUp, WaitToRetry,
         Retry, ContextExpires
<1>. QED
  BY <1>1, <1>2, <1>3

(* It is enough to look at the delivery that takes the step.               *)
LEMMA SeenFrame ==
  ASSUME TypeInv, SeenInv, ~ MayPanic, NEW d \in Delivery,
         Start(d) \/ Step(d) \/ ContextExpires(d),
         \A e \in Delivery \ {d} : since'[e].failed = 0 => since[e].failed = 0,
         SeenFor(d)'
  PROVE  SeenInv'
<1>1. \A e \in Delivery \ {d} : SeenFor(e)'
  BY OthersKeep DEF SeenInv, SeenFor
<1>. QED
  BY <1>1 DEF SeenInv

LEMMA SeenStep ==
  TypeInv /\ CountsInv /\ SeenInv /\ [CountsNext]_<<vars, counts>> => SeenInv'
<1>. SUFFICES ASSUME TypeInv, CountsInv, SeenInv, ~ MayPanic,
                     [CountsNext]_<<vars, counts>>
              PROVE  SeenInv'
  BY DEF SeenInv
<1>u. CASE UNCHANGED <<vars, counts>>
  BY <1>u DEF vars, locals, control, history, counts, SeenInv, SeenFor
<1>. SUFFICES ASSUME NEW d \in Delivery,
       \/ PrepareCounted(d) \/ QueueCounted(d)
       \/ \E k \in UploadKey : UploadCounted(d, k)
       \/ /\ \/ Start(d) \/ ContextExpires(d) \/ Panic(d)
             \/ PrepareFails(d) \/ CancelWorkflow(d) \/ MatchFiles(d) \/ SkipUnfetched(d)
             \/ QueueRead(d) \/ QueueDeprecation(d) \/ TakeUploads(d) \/ ClearUploads(d)
             \/ TakeDeprecations(d) \/ RecordDeprecations(d) \/ ClearDeprecations(d)
             \/ Finish(d) \/ GiveUp(d) \/ WaitToRetry(d) \/ Retry(d)
          /\ UNCHANGED counts
     PROVE  SeenInv'
  BY <1>u DEF CountsNext
<1>s. SeenFor(d)
  BY DEF SeenInv
<1>1. CASE PrepareCounted(d)
  <2>1. Prepare(d) /\ Step(d) /\ since' = [since EXCEPT ![d] = Zero]
    BY <1>1 DEF PrepareCounted, Step
  <2>2. uploads'[d] = {} /\ cancelled'[d] = FALSE
    BY <2>1, <1>s DEF Prepare, SeenFor, Unsent, history, TypeInv, TypeOK, LocalType
  <2>3. SeenFor(d)'
    BY <2>2 DEF SeenFor
  <2>4. \A e \in Delivery \ {d} : since'[e] = since[e]
    BY <2>1 DEF CountsInv, CountsType
  <2>. QED
    BY <2>1, <2>3, <2>4, SeenFrame
<1>2. CASE QueueCounted(d)
  <2>1. QueueWrite(d) /\ Step(d) /\ Counted(d, "uploaded", 1)
    BY <1>2 DEF QueueCounted, Step
  <2>2. \A e \in Delivery : since'[e].failed = 0 => since[e].failed = 0
    BY <2>1, StaysCounted DEF CountsInv
  <2>3. /\ pc[d] = "put" /\ pc'[d] = "workflow" /\ uploads' = uploads
        /\ expired' = expired /\ cancelled' = cancelled
    BY <2>1 DEF QueueWrite, Goto, control, TypeInv, TypeOK, ControlType
  <2>4. SeenFor(d)'
    BY <1>s, <2>2, <2>3 DEF SeenFor, Unsent, Prepared
  <2>. QED
    BY <2>1, <2>2, <2>4, SeenFrame
<1>3. CASE \E k \in UploadKey : UploadCounted(d, k)
  <2>1. PICK k \in UploadKey : UploadCounted(d, k)
    BY <1>3
  <2>2. PICK ok \in BOOLEAN :
          /\ Upload(d, k)
          /\ uploads'[d] = uploads[d] \cup
               {[key |-> k, batch |-> snapshot[d][k], ok |-> ok]}
          /\ IF ok THEN UNCHANGED counts
             ELSE Counted(d, "failed", Len(snapshot[d][k].files))
    BY <2>1 DEF UploadCounted
  <2>3. /\ Step(d) /\ pc[d] = "upload" /\ pc' = pc
        /\ expired' = expired /\ cancelled' = cancelled
    BY <2>2 DEF Upload, Step, control
  <2>4. Len(snapshot[d][k].files) \in Nat \ {0}
    <3>1. snapshot[d][k] \in Batch /\ snapshot[d][k].files # <<>>
      BY <2>2 DEF Upload, Exists, TypeInv, TypeOK, LocalType
    <3>2. snapshot[d][k].files \in Seq(CopiedFile)
      BY <3>1 DEF Batch
    <3>. QED
      BY <3>1, <3>2
  <2>5. CASE ok
    <3>1. UNCHANGED counts
      BY <2>2, <2>5
    <3>2. since' = since
      BY <3>1 DEF counts
    <3>3. \A u \in uploads'[d] : u \in uploads[d] \/ u.ok
      BY <2>2, <2>5
    <3>4. SeenFor(d)'
      BY <1>s, <2>3, <3>2, <3>3 DEF SeenFor, Unsent, Prepared
    <3>. QED
      BY <2>3, <3>2, <3>4, SeenFrame
  <2>6. CASE ~ ok
    <3>1. Counted(d, "failed", Len(snapshot[d][k].files))
      BY <2>2, <2>6
    <3>2. \A e \in Delivery : since'[e].failed = 0 => since[e].failed = 0
      BY <2>4, <3>1, StaysCounted DEF CountsInv
    <3>3. since'[d].failed # 0
      <4>1. since[d] \in Counts
        BY DEF CountsInv, CountsType
      <4>2. InFlight(d)
        BY <2>3 DEF InFlight, Retired
      <4>3. PICK n \in Nat \ {0} : since'[d] = [since[d] EXCEPT !.failed = @ + n]
        BY <2>4, <3>1, <4>2 DEF Counted
      <4>4. since'[d].failed = since[d].failed + n
        BY <4>1, <4>3 DEF Counts
      <4>. QED
        BY <4>1, <4>4 DEF Counts
    <3>4. SeenFor(d)'
      BY <1>s, <2>3, <3>3 DEF SeenFor, Unsent
    <3>. QED
      BY <2>3, <3>2, <3>4, SeenFrame
  <2>. QED
    BY <2>5, <2>6
<1>4. ASSUME \/ Start(d) \/ ContextExpires(d) \/ Panic(d)
             \/ PrepareFails(d) \/ CancelWorkflow(d) \/ MatchFiles(d) \/ SkipUnfetched(d)
             \/ QueueRead(d) \/ QueueDeprecation(d) \/ TakeUploads(d) \/ ClearUploads(d)
             \/ TakeDeprecations(d) \/ RecordDeprecations(d) \/ ClearDeprecations(d)
             \/ Finish(d) \/ GiveUp(d) \/ WaitToRetry(d) \/ Retry(d),
             UNCHANGED counts
      PROVE  SeenInv'
  <2>1. Start(d) \/ Step(d) \/ ContextExpires(d)
    BY <1>4 DEF Step, Panic
  <2>2. since' = since
    BY <1>4 DEF counts
  <2>3. uploads' = uploads
    BY <1>4 DEF history, Panic,
       Start, ContextExpires, PrepareFails, CancelWorkflow, MatchFiles,
       SkipUnfetched, QueueRead, QueueDeprecation, TakeUploads, ClearUploads,
       TakeDeprecations, RecordDeprecations, ClearDeprecations, Finish, GiveUp,
       WaitToRetry, Retry
  <2>4. /\ expired[d] => expired'[d]
        /\ cancelled'[d] => cancelled[d] \/ expired[d]
    BY <1>4 DEF control, locals, TypeInv, TypeOK, ControlType, LocalType, Panic,
       Start, ContextExpires, PrepareFails, CancelWorkflow, MatchFiles,
       SkipUnfetched, QueueRead, QueueDeprecation, TakeUploads, ClearUploads,
       TakeDeprecations, RecordDeprecations, ClearDeprecations, Finish, GiveUp,
       WaitToRetry, Retry
  <2>5. pc'[d] \in Unsent => pc[d] \in Unsent \/ cancelled[d]
    BY <1>4 DEF Unsent, TypeInv, TypeOK, ControlType, Goto, Fail, Panic,
       Start, ContextExpires, PrepareFails, CancelWorkflow, MatchFiles,
       SkipUnfetched, QueueRead, QueueDeprecation, TakeUploads, ClearUploads,
       TakeDeprecations, RecordDeprecations, ClearDeprecations, Finish, GiveUp,
       WaitToRetry, Retry
  <2>6. pc'[d] \in Prepared \cup {"processed_ok"}
          => pc[d] \in Prepared \cup {"processed_ok"}
    BY <1>4 DEF Prepared, TypeInv, TypeOK, ControlType, Goto, Fail, Panic,
       Start, ContextExpires, PrepareFails, CancelWorkflow, MatchFiles,
       SkipUnfetched, QueueRead, QueueDeprecation, TakeUploads, ClearUploads,
       TakeDeprecations, RecordDeprecations, ClearDeprecations, Finish, GiveUp,
       WaitToRetry, Retry
  <2>7. SeenFor(d)'
    BY <1>s, <2>2, <2>3, <2>4, <2>5, <2>6 DEF SeenFor
  <2>. QED
    BY <2>1, <2>2, <2>7, SeenFrame
<1>. QED
  BY <1>1, <1>2, <1>3, <1>4

(* A delivery whose notification counts no failed file has no failed       *)
(* upload behind it, whoever overlapped it; and if nobody did, its files   *)
(* were all in its uploads.                                                *)
THEOREM FailuresAreShown == CountsSpec => []FailuresShow
<1>1. CountsInit => TypeInv /\ AloneInv /\ CountsInv /\ HandedInv /\ SeenInv
  BY TypeInit, AloneInit, CountsInitInv, HandedInit, SeenInit DEF CountsInit
<1>2. TypeInv /\ AloneInv /\ CountsInv /\ HandedInv /\ SeenInv
        /\ [CountsNext]_<<vars, counts>>
        => (TypeInv /\ AloneInv /\ CountsInv /\ HandedInv /\ SeenInv)'
  BY TypeStep, AloneStep, CountsStep, HandedStep, SeenStep
<1>3. HandedInv /\ SeenInv => FailuresShow
  BY DEF HandedInv, SeenInv, SeenFor, FailuresShow, Report, PastUpload, Own
<1>. QED
  BY <1>1, <1>2, <1>3, PTL DEF CountsSpec
===============================================================================

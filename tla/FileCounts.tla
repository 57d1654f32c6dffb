------------------------------ MODULE FileCounts ------------------------------
(***************************************************************************)
(* What the service says it has done: the counters of files beside the     *)
(* pipeline of CopyPipeline, and the notification at the end of an attempt *)
(* with the differences they have made since its beginning.                *)
(*                                                                         *)
(* All deliveries share the counters.  A file is counted as uploaded when  *)
(* it is queued and as failed when the upload of its batch fails; nothing  *)
(* in the code counts matched or deprecated files.  The reads at the       *)
(* beginning of an attempt are taken as one step, and so are those at its  *)
(* end.  Only differences of the counters are ever used, so what the model *)
(* keeps is how far they have grown since each attempt began.              *)
(***************************************************************************)
EXTENDS CopyPipeline

VARIABLES
  since, \* since[d]: growth of the counters since the attempt of d began
  own    \* history: own[d], what d itself has added to the counters since

counts == <<since, own>>

Zero == [uploaded |-> 0, failed |-> 0]

CountsInit ==
  /\ Init
  /\ since = [d \in Delivery |-> Zero]
  /\ own = [d \in Delivery |-> Zero]

(* Nobody reads the counters for a delivery that has been reported.        *)
Counted(d, name, n) ==
  /\ since' = [e \in Delivery |->
       IF InFlight(e) \/ pc[e] = "idle" THEN [since[e] EXCEPT ![name] = @ + n] ELSE since[e]]
  /\ own' = [own EXCEPT ![d][name] = @ + n]

-----------------------------------------------------------------------------
Mut_KeepsBaseline(d) ==
  /\ Prepare(d)
  /\ own' = [own EXCEPT ![d] = Zero]
  /\ UNCHANGED since

(* The snapshot of the counters comes after all that may fail early.       *)
PrepareCounted(d) ==
  /\ Prepare(d)
  /\ since' = [since EXCEPT ![d] = Zero]
  /\ own' = [own EXCEPT ![d] = Zero]

(* queueUpload ends with RecordFileUploaded.                               *)
QueueCounted(d) == QueueWrite(d) /\ Counted(d, "uploaded", 1)

Mut_FailureUncounted(d, k) ==
  /\ Upload(d, k)
  /\ UNCHANGED counts

(* A batch whose upload failed counts every file in it as failed, on top   *)
(* of what was counted when it was queued.                                 *)
UploadCounted(d, k) ==
  \E ok \in BOOLEAN :
    /\ Upload(d, k)
    /\ ok => ~ expired[d]
    /\ uploads'[d] = uploads[d] \cup {[key |-> k, batch |-> snapshot[d][k], ok |-> ok]}
    /\ IF ok THEN UNCHANGED counts ELSE Counted(d, "failed", Len(snapshot[d][k].files))

CountsNext ==
  \E d \in Delivery :
    \/ PrepareCounted(d) \/ QueueCounted(d)
    \/ \E k \in UploadKey : UploadCounted(d, k)
    \/ /\ \/ Start(d) \/ ContextExpires(d) \/ Panic(d)
          \/ PrepareFails(d) \/ CancelWorkflow(d) \/ MatchFiles(d) \/ SkipUnfetched(d)
          \/ QueueRead(d) \/ QueueDeprecation(d) \/ TakeUploads(d) \/ ClearUploads(d)
          \/ TakeDeprecations(d) \/ RecordDeprecations(d) \/ ClearDeprecations(d)
          \/ Finish(d) \/ GiveUp(d) \/ WaitToRetry(d) \/ Retry(d)
       /\ UNCHANGED counts

CountsSpec == CountsInit /\ [][CountsNext]_<<vars, counts>>

-----------------------------------------------------------------------------
(* The counts in the notification that the attempt ends with.              *)
Report(d) == since[d]

(* The notification of a delivery that overlaps no other is about its own  *)
(* last attempt alone, whatever came before: it counts the files that were *)
(* queued in it, whether copied or not, and as failed those in the batches *)
(* whose upload failed.                                                    *)
LoneReportIsExact ==
  \A d \in Delivery : pc[d] = "finish" /\ company[d] = {} => Report(d) = own[d]

(* A failed upload is logged and the attempt goes on to processed_ok, so   *)
(* that only the notification can tell.  When that counts no failed file   *)
(* (Slack shows green), every upload the delivery tried has succeeded,     *)
(* also under a context that ran out and beside deliveries that overlap;   *)
(* and if it overlapped none, each file it queued was in one of them.      *)
FailuresShow ==
  \A d \in Delivery :
    pc[d] = "processed_ok" /\ Report(d).failed = 0 /\ ~ MayPanic /\ ~ DryRun =>
      /\ \A u \in uploads[d] : u.ok
      /\ company[d] = {} =>
           queued[d] \subseteq UNION {FilesOf(u.batch) : u \in uploads[d]}
=============================================================================

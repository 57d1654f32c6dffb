----------------------------- MODULE CopyPipeline -----------------------------
(***************************************************************************)
(* The background half of the webhook service: the goroutines that process *)
(* accepted deliveries (processWebhookWithRetry and everything it calls),  *)
(* and the FileStateService they share.                                    *)
(*                                                                         *)
(* One FileStateService hangs off the ServiceContainer, so the deliveries  *)
(* in flight queue into the same two maps, drain them and clear them.      *)
(* Each method of the service holds its lock for its whole body and is one *)
(* step; what a goroutine does between two of them interleaves.            *)
(*                                                                         *)
(* A delivery's match results (matchFile on the changed files of its PR)   *)
(* are given as constants, a batch is uploaded or fails as a whole, and    *)
(* commit messages, titles and audit events are left out.  Batches have    *)
(* value semantics: the shallow copy GetFilesToUpload makes of a slice     *)
(* only shows once two goroutines append to a slice with spare capacity,   *)
(* that is from the fourth file of a batch on; SharedBatch has the slices. *)
(***************************************************************************)
EXTENDS Integers, Sequences, FiniteSets

CONSTANTS
  Delivery,        \* accepted deliveries: one merged pull request each
  Workflow,        \* workflows of the configuration
  Path,            \* target paths
  Destination,     \* Destination[w]: target repository and branch
  CommitStrategy,  \* CommitStrategy[w].type, "" when the workflow sets none
  AutoMerge,       \* CommitStrategy[w].auto_merge, FALSE when not set
  UsePRTemplate,   \* CommitStrategy[w].use_pr_template, FALSE when not set
  DeprecationFile, \* DeprecationCheck[w].file, NoFile when not enabled
  NoFile,
  Plan,            \* Plan[d]: the workflows of the PR's repository and branch
  Matches,         \* Matches[d][w]: the match results, in the order of the PR
  MaxAttempts,     \* WebhookMaxRetries + 1
  MayPanic,        \* may an attempt panic?
  DryRun           \* config.DryRun

Dest == {Destination[w] : w \in Workflow}
DepFile == {DeprecationFile[w] : w \in Workflow} \ {NoFile}
Match == [path : Path, deleted : BOOLEAN]

ASSUME CopyPipelineAssumption ==
  /\ IsFiniteSet(Workflow)
  /\ CommitStrategy \in [Workflow -> {"", "direct", "pull_request"}]
  /\ AutoMerge \in [Workflow -> BOOLEAN]
  /\ UsePRTemplate \in [Workflow -> BOOLEAN]
  /\ Plan \in [Delivery -> Seq(Workflow)]
  /\ Matches \in [Delivery -> [Workflow -> Seq(Match)]]
  /\ MaxAttempts \in Nat \ {0}
  /\ MayPanic \in BOOLEAN
  /\ DryRun \in BOOLEAN

VARIABLES
  filesToUpload,     \* the shared upload queue
  filesToDeprecate,  \* the shared deprecation queue
  pc,                \* pc[d]: where the goroutine of d stands
  attempt,           \* attempt[d]: the attempt it is at
  expired,           \* expired[d]: has the context of d run out?
  permanent,         \* permanent[d]: is lastErr permanent?
  workflows,         \* workflows[d]: those the loop has yet to process
  matches,           \* matches[d]: those of the current workflow yet to queue
  cancelled,         \* cancelled[d]: is workflowErrors non-empty?
  content,           \* content[d]: the batch queueUpload has read
  snapshot,          \* snapshot[d]: batches AddFilesToTargetRepos has to upload
  deprecated,        \* deprecated[d]: the map UpdateDeprecationFile gets
  queued,            \* history: the files d has queued for upload
  uploads,           \* history: the batches d has tried to upload
  noted,             \* history: the deprecations d has queued
  recorded,          \* history: the deprecations d has tried to record
  company            \* history: the deliveries in flight together with d

queues  == <<filesToUpload, filesToDeprecate>>
locals  == <<workflows, matches, cancelled, content, snapshot, deprecated>>
control == <<attempt, expired, permanent>>
history == <<queued, uploads, noted, recorded>>
vars    == <<queues, pc, control, locals, history, company>>

-----------------------------------------------------------------------------
(* Keys, files and batches.                                                *)

Strategy == {"direct", "pull_request"}
UploadKey == [dest : Dest, strategy : Strategy]
CopiedFile == [pr : Delivery, workflow : Workflow, path : Path]
Batch == [files : Seq(CopiedFile), autoMerge : BOOLEAN, prTemplate : BOOLEAN]
Entry == [path : Path, dest : Dest]

getCommitStrategyType(w) ==
  IF CommitStrategy[w] = "" THEN "pull_request" ELSE CommitStrategy[w]

Mut_KeyWithoutStrategy(w) ==
  [dest |-> Destination[w], strategy |-> "pull_request"]

KeyOf(w) == [dest |-> Destination[w], strategy |-> getCommitStrategyType(w)]

(* A key the map does not hold.  A batch the map holds has a file.         *)
NoBatch == [files |-> <<>>, autoMerge |-> FALSE, prTemplate |-> FALSE]
Exists(b) == b.files # <<>>
NoUploads == [k \in UploadKey |-> NoBatch]
NoDeprecations == [f \in DepFile |-> <<>>]

Mut_MergeLastWins(b, w, file) ==
  [files      |-> Append(b.files, file),
   autoMerge  |-> AutoMerge[w],
   prTemplate |-> IF Exists(b) THEN b.prTemplate \/ UsePRTemplate[w]
                  ELSE UsePRTemplate[w]]

(* queueUpload: a new batch takes the settings of the workflow; for a      *)
(* batch that exists, auto-merge is switched off when the two disagree and *)
(* the template is used when either asks for it.                           *)
Merge(b, w, file) ==
  [files      |-> Append(b.files, file),
   autoMerge  |-> IF Exists(b) THEN b.autoMerge /\ AutoMerge[w]
                  ELSE AutoMerge[w],
   prTemplate |-> IF Exists(b) THEN b.prTemplate \/ UsePRTemplate[w]
                  ELSE UsePRTemplate[w]]

Retired == {"idle", "processed_ok", "processing_failed"}
InFlight(d) == pc[d] \notin Retired
Attempting == {"prepare", "workflow", "put", "upload", "drain", "record",
               "clear", "finish"}

FileOf(d) == [pr |-> d, workflow |-> Head(matches[d]).workflow,
              path |-> Head(matches[d]).path]

-----------------------------------------------------------------------------
Init ==
  /\ filesToUpload = NoUploads
  /\ filesToDeprecate = NoDeprecations
  /\ pc = [d \in Delivery |-> "idle"]
  /\ attempt = [d \in Delivery |-> 0]
  /\ expired = [d \in Delivery |-> FALSE]
  /\ permanent = [d \in Delivery |-> FALSE]
  /\ workflows = [d \in Delivery |-> <<>>]
  /\ matches = [d \in Delivery |-> <<>>]
  /\ cancelled = [d \in Delivery |-> FALSE]
  /\ content = [d \in Delivery |-> NoBatch]
  /\ snapshot = [d \in Delivery |-> NoUploads]
  /\ deprecated = [d \in Delivery |-> {}]
  /\ queued = [d \in Delivery |-> {}]
  /\ uploads = [d \in Delivery |-> {}]
  /\ noted = [d \in Delivery |-> {}]
  /\ recorded = [d \in Delivery |-> {}]
  /\ company = [d \in Delivery |-> {}]

Goto(d, place) == pc' = [pc EXCEPT ![d] = place]

(* The handler has answered 202 and starts the background goroutine.       *)
Start(d) ==
  LET others == {e \in Delivery : InFlight(e)}
  IN  /\ pc[d] = "idle"
      /\ Goto(d, "prepare")
      /\ attempt' = [attempt EXCEPT ![d] = 1]
      /\ company' = [e \in Delivery |->
                       IF e = d THEN others
                       ELSE IF e \in others THEN company[e] \cup {d}
                       ELSE company[e]]
      /\ UNCHANGED <<queues, expired, permanent, locals, history>>

(* The processing timeout of the delivery passes.                          *)
ContextExpires(d) ==
  /\ InFlight(d) /\ ~ expired[d]
  /\ expired' = [expired EXCEPT ![d] = TRUE]
  /\ UNCHANGED <<queues, pc, attempt, permanent, locals, history, company>>

(* Authentication, configuration, workflow selection and the list of       *)
(* changed files.  Listing the files asks GitHub under the context, so it  *)
(* fails once that has run out.                                            *)
Prepare(d) ==
  /\ pc[d] = "prepare"
  /\ ~ expired[d]
  /\ Plan[d] # <<>>
  /\ workflows' = [workflows EXCEPT ![d] = Plan[d]]
  /\ cancelled' = [cancelled EXCEPT ![d] = FALSE]
  /\ Goto(d, "workflow")
  /\ UNCHANGED <<queues, control, matches, content, snapshot, deprecated,
                 history, company>>

Fail(d, isPermanent) ==
  /\ Goto(d, "failed")
  /\ permanent' = [permanent EXCEPT ![d] = isPermanent]

PrepareFails(d) ==
  /\ pc[d] = "prepare"
  /\ \E isPermanent \in BOOLEAN : Fail(d, isPermanent)
  /\ UNCHANGED <<queues, attempt, expired, locals, history, company>>

(* processFilesWithWorkflows: with the context gone, the workflows that    *)
(* remain are recorded as failed.                                          *)
CancelWorkflow(d) ==
  /\ pc[d] = "workflow" /\ matches[d] = <<>> /\ workflows[d] # <<>>
  /\ expired[d]
  /\ cancelled' = [cancelled EXCEPT ![d] = TRUE]
  /\ workflows' = [workflows EXCEPT ![d] = Tail(@)]
  /\ UNCHANGED <<queues, pc, control, matches, content, snapshot, deprecated,
                 history, company>>

(* ProcessWorkflow: the files that match, whose contents are then fetched. *)
MatchFiles(d) ==
  /\ pc[d] = "workflow" /\ matches[d] = <<>> /\ workflows[d] # <<>>
  /\ ~ expired[d]
  /\ LET w     == Head(workflows[d])
         found == Matches[d][w]
     IN  matches' = [matches EXCEPT ![d] =
           [i \in DOMAIN found |->
              [workflow |-> w, path |-> found[i].path,
               deleted |-> found[i].deleted]]]
  /\ workflows' = [workflows EXCEPT ![d] = Tail(@)]
  /\ UNCHANGED <<queues, pc, control, cancelled, content, snapshot,
                 deprecated, history, company>>

(* A fetch that failed was logged, and only shows as a content that is     *)
(* missing when the file's turn comes.                                     *)
SkipUnfetched(d) ==
  /\ pc[d] = "workflow" /\ matches[d] # <<>> /\ ~ Head(matches[d]).deleted
  /\ matches' = [matches EXCEPT ![d] = Tail(@)]
  /\ UNCHANGED <<queues, pc, control, workflows, cancelled, content, snapshot,
                 deprecated, history, company>>

(* queueUpload reads the queue ...                                         *)
QueueRead(d) ==
  /\ pc[d] = "workflow" /\ matches[d] # <<>> /\ ~ Head(matches[d]).deleted
  /\ content' = [content EXCEPT ![d] =
                   filesToUpload[KeyOf(Head(matches[d]).workflow)]]
  /\ Goto(d, "put")
  /\ UNCHANGED <<queues, control, workflows, matches, cancelled, snapshot,
                 deprecated, history, company>>

(* ... and, without having held the lock, writes the batch back.           *)
QueueWrite(d) ==
  LET w == Head(matches[d]).workflow
  IN  /\ pc[d] = "put"
      /\ filesToUpload' = [filesToUpload EXCEPT ![KeyOf(w)] =
                             Merge(content[d], w, FileOf(d))]
      /\ queued' = [queued EXCEPT ![d] = @ \cup {FileOf(d)}]
      /\ matches' = [matches EXCEPT ![d] = Tail(@)]
      /\ content' = [content EXCEPT ![d] = NoBatch]
      /\ Goto(d, "workflow")
      /\ UNCHANGED <<filesToDeprecate, control, workflows, cancelled, snapshot,
                     deprecated, uploads, noted, recorded, company>>

(* addToDeprecationMap: append under the lock, if the workflow asks for it. *)
QueueDeprecation(d) ==
  LET m == Head(matches[d])
      f == DeprecationFile[m.workflow]
      e == [path |-> m.path, dest |-> Destination[m.workflow]]
  IN  /\ pc[d] = "workflow" /\ matches[d] # <<>> /\ m.deleted
      /\ IF f = NoFile THEN UNCHANGED <<filesToDeprecate, noted>>
         ELSE /\ filesToDeprecate' = [filesToDeprecate EXCEPT ![f] = Append(@, e)]
              /\ noted' = [noted EXCEPT ![d] = @ \cup {e}]
      /\ matches' = [matches EXCEPT ![d] = Tail(@)]
      /\ UNCHANGED <<filesToUpload, pc, control, workflows, cancelled, content,
                     snapshot, deprecated, queued, uploads, recorded, company>>

(* uploadAndDeprecateFiles: the snapshot handed to AddFilesToTargetRepos,  *)
(* which uploads nothing in a dry run.                                     *)
TakeUploads(d) ==
  /\ pc[d] = "workflow" /\ matches[d] = <<>> /\ workflows[d] = <<>>
  /\ snapshot' = [snapshot EXCEPT ![d] =
                    IF DryRun THEN NoUploads ELSE filesToUpload]
  /\ Goto(d, "upload")
  /\ UNCHANGED <<queues, control, workflows, matches, cancelled, content,
                 deprecated, history, company>>

(* AddFilesToTargetRepos takes the batches in any order.  One that fails   *)
(* is counted, audited and forgotten; all fail without a context.          *)
Upload(d, k) ==
  /\ pc[d] = "upload"
  /\ Exists(snapshot[d][k])
  /\ \E ok \in BOOLEAN :
       /\ ok => ~ expired[d]
       /\ uploads' = [uploads EXCEPT ![d] =
            @ \cup {[key |-> k, batch |-> snapshot[d][k], ok |-> ok]}]
  /\ snapshot' = [snapshot EXCEPT ![d][k] = NoBatch]
  /\ UNCHANGED <<queues, pc, control, workflows, matches, cancelled, content,
                 deprecated, queued, noted, recorded, company>>

Mut_NothingCleared(d) ==
  /\ pc[d] = "upload" /\ snapshot[d] = NoUploads
  /\ Goto(d, "drain")
  /\ UNCHANGED <<queues, control, locals, history, company>>

Mut_EverythingCleared(d) ==
  /\ pc[d] = "upload" /\ snapshot[d] = NoUploads
  /\ filesToUpload' = NoUploads
  /\ filesToDeprecate' = NoDeprecations
  /\ Goto(d, "drain")
  /\ UNCHANGED <<control, locals, history, company>>

ClearUploads(d) ==
  /\ pc[d] = "upload" /\ snapshot[d] = NoUploads
  /\ filesToUpload' = NoUploads
  /\ Goto(d, "drain")
  /\ UNCHANGED <<filesToDeprecate, control, locals, history, company>>

(* The entries are flattened into a map keyed by file name alone: of two   *)
(* entries of the same name the later one wins, and the deprecation files  *)
(* are visited in the random order of a Go map.                            *)
Flattened(order) ==
  LET Slots == UNION {{<<f, i>> : i \in DOMAIN filesToDeprecate[f]} : f \in DepFile}
      EntryAt(s) == filesToDeprecate[s[1]][s[2]]
      After(s, t) == \/ order[s[1]] > order[t[1]]
                     \/ s[1] = t[1] /\ s[2] > t[2]
  IN  {EntryAt(s) : s \in {s \in Slots :
         \A t \in Slots : EntryAt(t).path = EntryAt(s).path => ~ After(t, s)}}

Orders == {o \in [DepFile -> 1 .. Cardinality(DepFile)] :
             \A f, g \in DepFile : o[f] = o[g] => f = g}

TakeDeprecations(d) ==
  /\ pc[d] = "drain"
  /\ \E order \in Orders :
       deprecated' = [deprecated EXCEPT ![d] = Flattened(order)]
  /\ Goto(d, "record")
  /\ UNCHANGED <<queues, control, workflows, matches, cancelled, content,
                 snapshot, history, company>>

(* UpdateDeprecationFile; its failures are logged and forgotten.           *)
RecordDeprecations(d) ==
  /\ pc[d] = "record"
  /\ recorded' = [recorded EXCEPT ![d] =
                    IF DryRun THEN @ ELSE @ \cup deprecated[d]]
  /\ deprecated' = [deprecated EXCEPT ![d] = {}]
  /\ Goto(d, "clear")
  /\ UNCHANGED <<queues, control, workflows, matches, cancelled, content,
                 snapshot, queued, uploads, noted, company>>

ClearDeprecations(d) ==
  /\ pc[d] = "clear"
  /\ filesToDeprecate' = NoDeprecations
  /\ Goto(d, "finish")
  /\ UNCHANGED <<filesToUpload, control, locals, history, company>>

(* The attempt succeeds unless a workflow was cancelled; the aggregate     *)
(* error is made of text, so it is never a permanent one.                  *)
Finish(d) ==
  /\ pc[d] = "finish"
  /\ IF cancelled[d] THEN Fail(d, FALSE)
     ELSE Goto(d, "processed_ok") /\ UNCHANGED permanent
  /\ UNCHANGED <<queues, attempt, expired, locals, history, company>>

Mut_PanicClearsQueue(d) ==
  /\ MayPanic
  /\ pc[d] \in Attempting
  /\ Fail(d, FALSE)
  /\ filesToUpload' = NoUploads
  /\ workflows' = [workflows EXCEPT ![d] = <<>>]
  /\ matches' = [matches EXCEPT ![d] = <<>>]
  /\ cancelled' = [cancelled EXCEPT ![d] = FALSE]
  /\ content' = [content EXCEPT ![d] = NoBatch]
  /\ snapshot' = [snapshot EXCEPT ![d] = NoUploads]
  /\ deprecated' = [deprecated EXCEPT ![d] = {}]
  /\ UNCHANGED <<filesToDeprecate, attempt, expired, history, company>>

(* A panic anywhere in the attempt: runWithRecovery turns it into an       *)
(* error, and whatever was queued stays in the queues.                     *)
Panic(d) ==
  /\ MayPanic
  /\ pc[d] \in Attempting
  /\ Fail(d, FALSE)
  /\ workflows' = [workflows EXCEPT ![d] = <<>>]
  /\ matches' = [matches EXCEPT ![d] = <<>>]
  /\ cancelled' = [cancelled EXCEPT ![d] = FALSE]
  /\ content' = [content EXCEPT ![d] = NoBatch]
  /\ snapshot' = [snapshot EXCEPT ![d] = NoUploads]
  /\ deprecated' = [deprecated EXCEPT ![d] = {}]
  /\ UNCHANGED <<queues, attempt, expired, history, company>>

Mut_OneAttemptTooMany(d) ==
  ~ expired[d] /\ ~ permanent[d] /\ attempt[d] <= MaxAttempts

(* processWebhookWithRetry after a failed attempt.                         *)
MayRetry(d) == ~ expired[d] /\ ~ permanent[d] /\ attempt[d] < MaxAttempts

Mut_NeverExhausted(d) ==
  /\ pc[d] = "failed"
  /\ expired[d] \/ permanent[d]
  /\ Goto(d, "processing_failed")
  /\ UNCHANGED <<queues, control, locals, history, company>>

GiveUp(d) ==
  /\ pc[d] = "failed"
  /\ ~ MayRetry(d)
  /\ Goto(d, "processing_failed")
  /\ UNCHANGED <<queues, control, locals, history, company>>

WaitToRetry(d) ==
  /\ pc[d] = "failed"
  /\ MayRetry(d)
  /\ Goto(d, "waiting")
  /\ UNCHANGED <<queues, control, locals, history, company>>

(* The wait ends with the timer or with the context; in both cases the     *)
(* break leaves the select only, and the loop goes on.                     *)
Retry(d) ==
  /\ pc[d] = "waiting"
  /\ attempt' = [attempt EXCEPT ![d] = @ + 1]
  /\ Goto(d, "prepare")
  /\ UNCHANGED <<queues, expired, permanent, locals, history, company>>

Step(d) ==
  \/ Prepare(d) \/ PrepareFails(d)
  \/ CancelWorkflow(d) \/ MatchFiles(d) \/ SkipUnfetched(d)
  \/ QueueRead(d) \/ QueueWrite(d) \/ QueueDeprecation(d)
  \/ TakeUploads(d) \/ (\E k \in UploadKey : Upload(d, k)) \/ ClearUploads(d)
  \/ TakeDeprecations(d) \/ RecordDeprecations(d) \/ ClearDeprecations(d)
  \/ Finish(d) \/ GiveUp(d) \/ WaitToRetry(d) \/ Retry(d)

Next ==
  \E d \in Delivery :
    \/ Start(d)
    \/ Step(d)
    \/ ContextExpires(d)
    \/ Panic(d)

Spec == Init /\ [][Next]_vars

(* The Go scheduler runs every goroutine, and every call it waits for      *)
(* returns: GitHub answers, or the context runs out; for the requests for  *)
(* tokens, which have no deadline, GitHub or the network ends them.        *)
FairSpec == Spec /\ \A d \in Delivery : WF_vars(Step(d))

-----------------------------------------------------------------------------
PendingMatch == [workflow : Workflow, path : Path, deleted : BOOLEAN]
UploadTried == [key : UploadKey, batch : Batch, ok : BOOLEAN]

QueueType ==
  /\ filesToUpload \in [UploadKey -> Batch]
  /\ filesToDeprecate \in [DepFile -> Seq(Entry)]

ControlType ==
  /\ pc \in [Delivery -> Retired \cup Attempting \cup {"failed", "waiting"}]
  /\ attempt \in [Delivery -> 0 .. MaxAttempts]
  /\ expired \in [Delivery -> BOOLEAN]
  /\ permanent \in [Delivery -> BOOLEAN]

LocalType ==
  /\ workflows \in [Delivery -> Seq(Workflow)]
  /\ matches \in [Delivery -> Seq(PendingMatch)]
  /\ cancelled \in [Delivery -> BOOLEAN]
  /\ content \in [Delivery -> Batch]
  /\ snapshot \in [Delivery -> [UploadKey -> Batch]]
  /\ deprecated \in [Delivery -> SUBSET Entry]

HistoryType ==
  /\ queued \in [Delivery -> SUBSET CopiedFile]
  /\ uploads \in [Delivery -> SUBSET UploadTried]
  /\ noted \in [Delivery -> SUBSET Entry]
  /\ recorded \in [Delivery -> SUBSET Entry]
  /\ company \in [Delivery -> SUBSET Delivery]

TypeOK == QueueType /\ ControlType /\ LocalType /\ HistoryType

FilesOf(b) == {b.files[i] : i \in DOMAIN b.files}

(* A batch carries the settings its files ask for together: it is merged   *)
(* without review only if every workflow in it wants that, and uses the    *)
(* template if one of them does.                                           *)
SettingsAgree(b) ==
  Exists(b) =>
    /\ b.autoMerge  <=> \A f \in FilesOf(b) : AutoMerge[f.workflow]
    /\ b.prTemplate <=> \E f \in FilesOf(b) : UsePRTemplate[f.workflow]

(* However the deliveries interleave between queueUpload's read and its    *)
(* write, what is uploaded without review never contains a file whose      *)
(* workflow asked for review (AND logic of queueUpload, OR logic for the   *)
(* template).                                                              *)
BatchSettingsAgree ==
  /\ \A k \in UploadKey : SettingsAgree(filesToUpload[k])
  /\ \A d \in Delivery : \A u \in uploads[d] : SettingsAgree(u.batch)

(* A batch uploaded to a repository, branch and strategy holds the files   *)
(* of that repository, branch and strategy only, each matched by a         *)
(* workflow of its pull request and not deleted by it.                     *)
UploadedWhereItBelongs ==
  \A d \in Delivery : \A u \in uploads[d] : \A f \in FilesOf(u.batch) :
    /\ u.key.dest = Destination[f.workflow]
    /\ u.key.strategy = getCommitStrategyType(f.workflow)
    /\ \E i \in DOMAIN Plan[f.pr] : Plan[f.pr][i] = f.workflow
    /\ \E i \in DOMAIN Matches[f.pr][f.workflow] :
         LET m == Matches[f.pr][f.workflow][i]
         IN  m.path = f.path /\ ~ m.deleted

(* When no goroutine is left, none of their files and deprecations is left *)
(* in the queues, for the next delivery to find, unless an attempt         *)
(* panicked.                                                               *)
DrainedWhenQuiet ==
  (\A d \in Delivery : ~ InFlight(d)) /\ ~ MayPanic
    => filesToUpload = NoUploads /\ filesToDeprecate = NoDeprecations

(* A delivery that had the service to itself and is reported processed_ok  *)
(* has handed each file it queued to the target repositories, whatever     *)
(* attempts failed or panicked before and whatever became of the uploads   *)
(* (FileCounts says what is reported of those).                            *)
LoneDeliveryUploadsAll ==
  \A d \in Delivery :
    pc[d] = "processed_ok" /\ company[d] = {} /\ ~ DryRun
      => queued[d] \subseteq UNION {FilesOf(u.batch) : u \in uploads[d]}

(* A delivery that had the service to itself uploads its own files alone,  *)
(* unless an earlier attempt panicked and left its files behind.           *)
LoneDeliveryUploadsItsOwn ==
  \A d \in Delivery :
    company[d] = {} /\ ~ MayPanic
      => \A u \in uploads[d] : FilesOf(u.batch) \subseteq queued[d]

(* A delivery that had the service to itself and is reported processed_ok  *)
(* has tried to record each deprecation it queued, or another of the same  *)
(* file name.                                                              *)
LoneDeliveryRecordsNames ==
  \A d \in Delivery :
    pc[d] = "processed_ok" /\ company[d] = {} /\ ~ DryRun
      => \A e \in noted[d] : \E r \in recorded[d] : r.path = e.path

(* A file queued by a delivery that had the service to itself stays in the *)
(* queue until some goroutine has tried to upload it: neither a panic, nor *)
(* a retry, nor the deliveries that come later (and may overlap each       *)
(* other) drop it.                                                         *)
LoneFileSurvives ==
  \A d \in Delivery :
    company[d] = {} /\ ~ DryRun =>
      \A f \in queued[d] :
        \/ \E k \in UploadKey : f \in FilesOf(filesToUpload[k])
        \/ \E e \in Delivery : \E u \in uploads[e] : f \in FilesOf(u.batch)

(* Every accepted delivery ends, reported one way or the other.            *)
EveryDeliveryEnds ==
  \A d \in Delivery : InFlight(d) ~> ~ InFlight(d)

-----------------------------------------------------------------------------
(* What the documentation says, and the code does not do.                  *)

(* README.md:30, "Thread-Safe - Concurrent webhook processing with proper  *)
(* state management": when every delivery has been reported processed_ok,  *)
(* each file one of them queued has been handed to its target.             *)
NoQueuedFileLost ==
  (\A d \in Delivery : pc[d] = "processed_ok") /\ ~ DryRun
    => UNION {queued[d] : d \in Delivery}
         \subseteq UNION {FilesOf(u.batch) : u \in UNION {uploads[d] : d \in Delivery}}
=============================================================================

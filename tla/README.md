# TLA+ models of github-copier

github-copier is a webhook service.  When a pull request is merged in a source
repository it copies the files that match the configured workflows to target
repositories, by direct commits or through pull requests, and records deletions
in a deprecation file of the source repository.  This directory holds TLA+
modules of the service, TLC configurations that check them on small instances,
and TLAPS proofs of their main properties for instances of any size.

    tlc -config DeliveryTracker.cfg DeliveryTracker   # the other runs: see the tables under Runs
    tlapm CopyPipelineProofs.tla                      # likewise for the other *Proofs

`PROJECT.json` names the runs, the lines of code each definition stands for, the
mutation that each property was shown to catch, the hazards and the theorems.

## How the system works

    GitHub --POST--> handleWebhook (app.go)                        WebhookIntake
                       HandleWebhookWithContainer
                         DeliveryTracker.TryRecord                 OncePerWindow <- DeliveryTracker
                         signature, payload, merged?
                         202 and go processWebhookWithRetry ...
                                          |
      operator replay  ------------------>|                        OperatorUI
                                          v
                       handleMergedPRWithContainer                 CopyPipeline, FileCounts
                         GetRestClientForOrg, RoundTrip            GitHubAccess
                         LoadConfig                                ConfigLoading, WorkflowRules
                         ProcessWorkflow per workflow
                           matchFile                               PathRules
                           queueUpload, addToDeprecationMap
                             -> FileStateService, shared by all deliveries
                                and its slices                     BatchOfFiles <- SharedBatch
                         uploadAndDeprecateFiles
                           AddFilesToTargetRepos --> uploadToTarget    TargetWrite
                           UpdateDeprecationFile                       DeprecationRecord <- DeprecationFile
                         reportCompletion                          FileCounts

Everything the service remembers is in the memory of one process: the delivery
tracker, the two queues, the caches, the counters and rings.  The handler answers
202 before the work is done; the work runs in a goroutine per delivery, under one
context with the processing timeout, for at most `WebhookMaxRetries + 1` attempts.
Deliveries in flight share one `FileStateService`, whose methods lock but whose
callers read, merge and write back in separate calls.  Repositories are shared with
people and with other programs.

## Inventory

State and operations are those of the code; "must hold" is what makes the part
correct; the last column says where it stands.

| Component | State | Operations | Hard part | Must hold | Status |
| --- | --- | --- | --- | --- | --- |
| Webhook handler, process lifecycle (`app.go`, `webhook_handler_new.go`, `service_container.go`) | one goroutine per accepted delivery; server and signal state | `handleWebhook`, `HandleWebhookWithContainer`, `startWebServer`, `Close` | answer before work; redeliveries side by side; shutdown and crash | no delivery is let through twice within the window; every request is answered and reported once; shutdown ends and cuts nothing short needlessly | WebhookIntake |
| Delivery tracker (`delivery_tracker.go`) | map of ID to time, ring of 200 observations, purge goroutine | `TryRecord`, `purgeExpired`, `RecentDeliveries`, `Stop` | boundary at the TTL; purge beside deliveries | once per window; the map empties; diagnostics agree with decisions | DeliveryTracker, OncePerWindow |
| Background processing (`webhook_handler_new.go`, `errors.go`) | attempt, backoff, last error, context | `processWebhookWithRetry`, `runWithRecovery`, `handleMergedPRWithContainer`, `processFilesWithWorkflows`, `uploadAndDeprecateFiles` | deliveries overlap; panic; timeout between steps | every delivery ends in a report; its files reach their targets, and only theirs | CopyPipeline |
| File state service (`file_state_service.go`) | upload queue, deprecation queue | add, get, clear, each under a lock | read-modify-write across calls; shared backing arrays | nothing lost, mixed up or left behind | CopyPipeline, SharedBatch, BatchOfFiles |
| Workflow processor (`workflow_processor.go`) | none | `ProcessWorkflow`, `matchFile`, `queueUpload`, `addToDeprecationMap` | workflows that share a batch disagree; rules tried in order, some of which fail | nothing is merged unreviewed whose workflow wants a review; files land where the rules put them | CopyPipeline, PathRules |
| Target writer (`github_write_to_target.go`) | none; the target repository | `AddFilesToTargetRepos`, direct and pull-request paths, merge, cleanup | a dozen calls of an API, interleaved with people and with other uploads, any of which may fail or lose its answer | the target only grows; ok means it is there | TargetWrite |
| Deprecation writer (`github_write_to_source.go`) | none; one JSON file | `UpdateDeprecationFile` | optimistic write of a whole file; failures swallowed | no row lost or doubled, updates as if indivisible; entries recorded or a reason | DeprecationFile, DeprecationRecord |
| Tokens and clients (`github_auth.go`, `token_manager.go`) | default token, tokens per organization, JWT | `ConfigurePermissions`, `GetRestClientForOrg`, `getOrRefreshJWT` | expiry with margins; refresh by several goroutines; one token per client | a client never sends an expired token | GitHubAccess; the default token in DeprecationFile |
| Rate-limit transport (`rate_limit.go`) | last known limits | `RoundTrip` | wait and retry under a context | one retry at most; waiting ends with the context | GitHubAccess; the limits it shows are left out |
| Configuration cache and loaders (`config_cache.go`, `main_config_loader.go`, `config_loader.go`, `types/config.go`) | cached configuration with its time | `LoadConfig`, `InvalidateCache`, reference resolution, defaults, validation | loads that overlap edits and each other; partial configurations cached; defaults shared by pointer | what is served, and what is missing, is recent; a workflow has the settings of its own file | ConfigLoading, WorkflowRules |
| Pattern matcher (`pattern_matcher.go`) | none | `Match`, `Transform` | overlapping variables, what is left unreplaced | files land in the directory the rule means | PathRules |
| GitHub reader, PR template fetcher (`github_read.go`, `pr_template_fetcher.go`) | none | reads | failures | - | not modelled, but their failures |
| Health and metrics (`health_metrics.go`) | counters, rings of samples | `Record...`, handlers | counters shared by deliveries, read as differences | a notification is about its own delivery | WebhookIntake, FileCounts; rates and timings are left out |
| Webhook trace (`webhook_trace_buffer.go`) | ring of 120 entries | `Append`, `Recent`, `RepoForDelivery` | one entry per request, when it is over | nothing is traced twice or not at all | WebhookIntake; the ring is left out |
| Log buffer (`log_buffer.go`) | lines per delivery, both bounded | `Append`, `Get` | eviction of a delivery in progress | newest kept | not modelled |
| Operator UI (`operator_ui.go`, `operator_auth.go`, `operator_repo_filter.go`) | permission caches, replay guard | requests of operators and writers, `handleReplay` | cached and overwritten answers, failures cached as refusals; a guard that outlives its request | one replay of a pull request at a time; no row without a recent right | OperatorUI; releases and audit queries are left out |
| Request limiter (`operator_ratelimit.go`) | fixed windows per token | `Allow` | edges of windows | - | not modelled |
| LLM suggestions and administration | ping cache | requests to a model service | - | - | not modelled |
| Audit logger, Slack notifier, logger | connection | one write each, failures logged | - | - | not modelled |
| Environment configuration | constants | read at start-up | - | - | constants of the modules |
| Command-line tools | none | - | - | - | not modelled |

## The modules

| Module | Stands for | Extends or composes |
| --- | --- | --- |
| `OncePerWindow` | what deduplication promises (abstract) | - |
| `DeliveryTracker` | `delivery_tracker.go` | `INSTANCE OncePerWindow WITH` a refinement mapping |
| `WebhookIntake` | requests, goroutines, shutdown, crash, restart | `INSTANCE OncePerWindow` as its tracker |
| `CopyPipeline` | the goroutines and the queues they share | - |
| `FileCounts` | the counters of files and the notification | extends `CopyPipeline`, whose actions it conjoins with those of the counters |
| `BatchOfFiles` | one batch of the queue as a list of files (abstract) | - |
| `SharedBatch` | one batch of the queue, with its Go slices | `INSTANCE BatchOfFiles WITH` a refinement mapping |
| `TargetWrite` | uploads to one branch of a target | - |
| `DeprecationRecord` | a deprecation file whose updates are indivisible (abstract) | - |
| `DeprecationFile` | updates of one deprecation file | `INSTANCE DeprecationRecord WITH` a refinement mapping |
| `ConfigLoading` | loads of the configuration and their cache | - |
| `PathRules` | rules and paths (operators only) | - |
| `WorkflowRules` | from the text of the configuration to workflows that copy | extends `PathRules` |
| `GitHubAccess` | tokens per organization, the rate-limit transport | - |
| `OperatorUI` | permissions, what is shown, replays | - |
| `MC*` | constants of the small instances | the module after `MC` |
| `*Proofs` | theorems | the module before `Proofs`; `CopyPipelineProofs` has `FileCounts`, too |
| `ConfigurationProofs` | theorems | `ConfigLoading` and `WorkflowRules` |
| `ExpiryProofs` | theorems | `DeliveryTracker` and `GitHubAccess` |

The cut between `WebhookIntake` and `CopyPipeline` is the `go` statement: the
first knows of a goroutine only that it makes attempts and ends, the second only
that deliveries start.  The cut between `CopyPipeline` and the two writers is the
call of `AddFilesToTargetRepos` and of `UpdateDeprecationFile`: above it a batch is
tried and succeeds or fails, below it every call to GitHub is a step.  What a
delivery gets from `ConfigLoading`, `WorkflowRules` and `PathRules` is the constant
`Plan` and `Matches` of `CopyPipeline`: an attempt loads the configuration once.  A
replay is a further delivery to `CopyPipeline`.

### DeliveryTracker

The code stores the time at which an ID was recorded and compares its distance
from now with the TTL; the module keeps that distance, up to the TTL, where the
comparisons of the code stop telling ages apart.  Every method holds the lock for
its whole body and is one action.  The ticker of `cleanupLoop` fires every half TTL
into a channel of capacity one and drops ticks when it is full; `select` may pick a
tick even when `Stop` has closed the other channel.

- `ImplementsOncePerWindow`: seen from outside the tracker is `OncePerWindow`,
  whatever the purge does.  An entry that is absent stands for an ID whose window
  is over, so a purge is a stutter, and one that came a moment early would not be.
- `ExpiredEntriesLeave`: an expired entry is purged or renewed, unless the tracker
  is being stopped.

### WebhookIntake

One action per exit of the handler: wrong method (405, no trace), missing headers
(400), duplicate (200), bad signature or payload (401, 400), ignored (204, 400),
accepted (202).  `Record` comes before `Refuse`, as in the code.  A goroutine makes
attempts (`AttemptFails`), some of whose failures count in the metrics and some do
not, and ends reported (`JobSucceeds`, `JobFails`), each time with one trace entry.
`Signal`, `Drained`, `ShutdownTimesOut` and `Exit` are `startWebServer` after the
signal: `server.Shutdown` waits for the handlers but not for the goroutines, and
`ServiceContainer.Wait` is never called, so `Exit` ends running goroutines as a
crash does.  `Restart` starts with an empty tracker, trace and metrics.

Time passes at any step, and nothing bounds how long a handler or a goroutine takes.
The processing timeout ends a context, not the goroutine: requests for tokens and
installations carry no context (`github_auth.go:215`, `:339`), the waits for a merge
and for a ref do not look at it (`github_write_to_target.go:450`, `:568`), one more
attempt starts after it (`webhook_handler_new.go:398`), and it can be disabled.  So a
delivery can be let through again while a goroutine is still at work on it, and in
the run it is.

- `TwinsAreAWindowApart`: two goroutines work on one delivery only if a whole window
  has passed since one of their requests got past `TryRecord`.  Neither two handlers
  side by side, nor a restart, which empties the tracker, nor failures bring it about:
  after a restart the goroutines have gone with the process.
- `DuplicateHasPredecessor`, `OneTracePerRequest`, `ShutdownCutsNoRequest`,
  `AnsweredAndReported`: see the comments in the module.

### CopyPipeline

One goroutine per delivery; the variable `pc` follows `processWebhookWithRetry`,
`handleMergedPRWithContainer` and `uploadAndDeprecateFiles`.  `QueueRead` and
`QueueWrite` are the two halves of `queueUpload`, with the lock released in between;
`TakeUploads`, `Upload` and `ClearUploads` are the snapshot, its use and the clearing
of the whole queue.  What matches in a pull request is a constant, and so are the
workflows.  Fetches may fail (`SkipUnfetched`), the context may expire anywhere
(`ContextExpires`), an attempt may panic anywhere (`Panic`), and what it has queued
stays.  The deprecations are flattened by file name in the random order of a Go map
(`TakeDeprecations`).

Batches have value semantics.  The copy that `GetFilesToUpload` makes shares the
slices with the queue, which only shows once two goroutines append to a slice with
spare capacity, from the fourth file of a batch on; that is `SharedBatch`.

- Under every interleaving: `BatchSettingsAgree` (auto-merge only if every file's
  workflow wants it, the template if one does), `UploadedWhereItBelongs`,
  `DrainedWhenQuiet`.
- For a delivery nobody overlaps (`company[d] = {}`, a history variable):
  `LoneDeliveryUploadsItsOwn`, `LoneDeliveryRecordsNames`, and, with panics and retries
  and others after it, `LoneFileSurvives`.  `LoneDeliveryUploadsAll`, that it has tried
  to upload each file it queued, is proved; the run checks `FailuresShow` of
  `FileCounts`, which has it as a part.
- `EveryDeliveryEnds` under `FairSpec`.

The lone deliveries are not a convenience: of deliveries that overlap, files are lost
and uploaded by others (run `lost_files`).

### FileCounts

The counters of `MetricsCollector` that the notification reports, beside the steps of
`CopyPipeline` that change or read them: the snapshot in
`handleMergedPRWithContainer` (`PrepareCounted`), `RecordFileUploaded` at the end of
`queueUpload`, `RecordFileUploadFailed` for each file of a batch that failed, and the
differences in `reportCompletion` (`Report`).  Only differences matter, so the module
keeps how far the counters have grown since each snapshot.  A file counts as uploaded
when it is queued, and stays counted when its upload fails; matched and deprecated
files are never counted.

- `LoneReportIsExact`: the notification of a delivery that overlaps no other counts
  what its own last attempt has queued and failed to upload, nothing of earlier
  attempts and nothing of earlier deliveries.  Deliveries that overlap are credited
  with the files of each other.
- `FailuresShow`: an upload that failed is logged, and the delivery is processed_ok all
  the same, so only the notification can tell.  If that counts no failed file, no
  upload of the delivery failed, whoever overlapped it, and a delivery without overlap
  has copied each file it queued.  With overlap it need not: the failure may be
  counted for another delivery, and files get lost (run `lost_files`).  Files that
  could not be fetched are not queued and show nowhere.

### SharedBatch

`GetFilesToUpload` copies the map, not the slices `Content` and `FileMeta` in it.  The
module has one batch, arrays in a heap, slices that point into them, and `append` as
Go has it for small slices: in place while there is room, otherwise to an array of
twice the length (1, 2, 4).  The two appends of `queueUpload` are steps of their own,
since no lock is held then.  The commit and the audit read the arrays at different
times.  Panics, retries and failing uploads are left to `CopyPipeline`.

- `LoneBatchIsSound`: a delivery that overlaps no other commits and audits exactly
  its own files, in order, whatever arrays earlier deliveries have left behind.
- `SmallBatchesAgree`: what `BatchSettingsAgree` says under value semantics holds of
  slices, too, up to three files, where no append finds room.  With a fourth file it
  does not: two goroutines hold the batch of three, one appends a file of a workflow
  that wants to be merged and the other one of a workflow that wants a review; both
  write to the fourth element, and the batch that is merged without review may hold
  the other file.  Without the premise `Len(sent[d]) <= 3` TLC finds this behaviour
  in the instance of the run.
- `ListsWhileSmall`: a step that leaves no batch above three files is a step of
  `BatchOfFiles`, where a batch is a list of files that nobody else writes to, an
  append adds to the end of one's own list, and the audit finds with each file of the
  commit what was queued with it.  The mapping reads a batch off its `Content`; the
  file is there once `Content` has it, and the append to `FileMeta` is a stutter.
  Three is sharp: with four in the place of three TLC finds two goroutines whose
  fourth files are written to the same element, so that the list of one of them ends
  in the file of the other.  The queue is read and written in two steps in both
  modules: `BatchOfFiles` loses files as `CopyPipeline` does.

### TargetWrite

Commits with their trees and histories, branches, and pull requests are state;
each call to GitHub is an action whose effect may take place although its answer is
lost (`Proceed`) and which may fail (`Fails`).  `UpdateRef` is not forced, so it
needs a descendant (`FastForward`); deleting a branch closes the pull requests from
it (`PRsWithout`).  A temporary branch is named after the second, so it is the
second.  Reviewers merge, close and delete (`Review`, `DeleteReviewed`), others push
(`OthersPush`).  The merge is the three-way merge per file, with conflicts.

- `BaseOnlyGrows`: no commit leaves the history of the target branch.
- `OkIsInBase`: an upload reported ok that was direct or to be merged is there.
  TLC found the exception the property names: when two uploads name their branches
  in the same second, the second deletes the branch of the first, and the first may
  then open and merge a pull request with the other's commit only.  It says nothing of
  an upload that made no commit (the step `NothingToCommit`): with nothing new to push
  to the pull request it found, the upload ends ok, and that pull request stays open
  although its batch was to be merged.
- `OrphansNeedTwins`: that is the only way an open pull request loses its branch.
- `EndsProposed`: an upload left for review and not disturbed is in an open pull
  request at its end.

### DeprecationFile

The file is missing, malformed or holds rows.  A read that fails for any reason
counts as a missing file (`ReadFails`); a write replaces the version that was read
(`Accepted`, the SHA of the blob) or creates the file, and is refused otherwise
(`Refused`), which is logged only.  People remove rows, break, repair or delete the
file (`Edit`); the default token, obtained at start-up, expires (`TokenExpires`).

- `RecordsAtOnce`: the module implements `DeprecationRecord`, in which an update adds
  to the rows that are there just what is missing, at one instant, or ends without
  recording.  The instant is the write, although the rows were read in an earlier
  request and failed reads are taken for missing files.  What makes it so is that
  GitHub takes an update only of the version it names and refuses a creation where
  there is a file.  That no update drops a row (`RowsAreKept`) follows, and is proved
  of its own.
- `NoEntryTwice`: no entry is there twice, however often a deletion is reported.
- `UnhinderedIsRecorded`: entries are lost only to a failed request, an unusable
  file, or a change between the read and the write.  The variable `hindered` says
  which; nothing in the code reports it.

### ConfigLoading

Goroutines that call `LoadConfig`, the cache entry and the files in their
repositories, which people edit and break (`Edit`).  A load is a sequence of reads,
one step per file: the main configuration, then for each reference its file and the
files that one names with `$ref`.  A reference with a file that cannot be read or is
not valid is skipped; the load fails if none is left.  Nothing keeps two goroutines
from loading at once, and each stores what it has.  Ages are counted up to `Window`,
one load and a stay in the cache (`MaxLoad + TTL - 1`).  `MaxLoad` stands for the
longest load there is.  The context of the caller bounds its reads; requests for
tokens have no deadline, so the bound on ages is only as good as theirs.

- `ServedIsRecent`: each part of what is served was in its repository within
  `Window`, and each reference that is missing had a bad file, or a failed call for
  one, within `Window`.  The parts need not have been there at the same time.
- `InvalidationForgets`: what is served after `InvalidateCache` is no older than the
  loads in flight then, which still store what they read before.  Nothing in the
  program calls `InvalidateCache`; the property is about what a caller would get.

### PathRules and WorkflowRules

Paths are sequences of symbols, so that the module can tell `a/f` from `ab/f` without
characters.  `PathRules` has `matchFile`: exclusion, then the rules in order until one
matches or fails, with move, copy, glob and regex and the substitution of variables.
What a regex or a glob matches is given with it.  The names of a path are listed in
the order of where they begin (`Rank`, `InOrder`), without recursion, so that they can
be reasoned about.  A path is one as git has them (`PathsAssumption`); what a rule
moves from and to may be any text, but for `..` and absolute directories, which are
left out.  `WorkflowRules` takes each reference
through `loadWorkflowConfig`, `ApplySourceContext`, `ApplyGlobalDefaults`,
`SetDefaults` and `Validate`.  Settings are structs in a heap: the code hands on the
pointer to the defaults, so workflows share one struct and `SetDefaults` writes to it.

- `SettingsAsWritten`: each merged workflow has the settings that follow from its own
  file and the main one, also after everything that is merged later.
- `InvalidCostsOnlyItself`: an invalid workflow costs the workflows of its own file;
  only an inline one takes the whole configuration with it.
- `FilesLandInPlace`: a file goes where the first rule about it puts it when paths
  are read as directories, and nowhere if it is excluded or no rule is about it.  A
  rule that moves from a text with an empty name, such as `a//`, is about no file.

A configuration is one that can be written: types of its structs are sets given at the
top of `WorkflowRules`, and `Text` stands for strings.  An inline reference without
workflows fails the whole configuration, as an invalid one does, and a file without
workflows is left out.  A module that is proved about together with another has names
of its own for state and next-state relation (`rulesVars`, `RulesNext`, and likewise
`trackerVars`, `TrackerNext` in `DeliveryTracker`).

### GitHubAccess

A goroutine under a deadline asks for a client of an organization: the cached token if
it has the margin left (`Usable`), otherwise a JWT, the installation and a new token,
by requests that know nothing of the deadline, cached when they return.  A client
keeps its token.  `RoundTrip` sends, waits for a rate limit as long as the timer and
the context let it, sends again once, and returns.  That the first attempt has read
the body of the request it sends again is left out.

- `TokenOutlivesContext`: no goroutine holds a token that expires before its context
  does.  It needs the assumption `0 < Deadline <= Margin <= TokenLife`.  Timeout and
  margin are both five minutes unless `WEBHOOK_PROCESSING_TIMEOUT_SECONDS` says
  otherwise, and the value 0, no deadline, is excluded.
- `RoundTripsEnd`: nobody stays in the transport.

### OperatorUI

Requests that carry a user's token: the role, then the permissions a view needs, each
from the cache or from GitHub.  Failures, the end of a context included, are cached as
refusals, and an answer overwrites whatever was cached meanwhile.  Whether a user who
is no operator is a writer or turned away is left open.  `MaxRequest` stands for the
longest request; its calls have timeouts, but those for tokens of an organization have
none.  `Respond` shows the rows that the filter lets through, and views that do not
filter are left out; `Replay`, `ReplayRefused`, `FetchFails`, `Dispatch` and
`ReplayEnds` are the ways through `handleReplay` and the goroutine it starts.  There
is one pull request per repository and one spelling of its name: the guard's key is
the name as the request has it, so two spellings of one repository, which GitHub
accepts, have guards of their own.

- `AllowedLately`, `HiddenForAReason`: what is shown or replayed its user had the
  right to within the cache's time and two requests; what is hidden the user lacked
  the right to, or a lookup failed, within that time.
- `OneReplayPerPR`: the guard is held by exactly one request or goroutine, and
  released on every way out.

## Runs

Passing runs; every action of the modules is taken in one of them.

| Run | Module, configuration | Instance | Why it is large enough |
| --- | --- | --- | --- |
| `delivery_tracker` | `DeliveryTracker` | 2 IDs, TTL 4, ring of 2 | a tick falls inside and at the end of a TTL, the ring overflows, a delivery meets an entry that is live, expired, purged |
| `copy_pipeline` | `MCFileCounts`, `CopyPipeline.cfg` | 2 deliveries, 3 workflows, 2 files and a deletion against 2 files, one attempt, the counters | two workflows share a batch and disagree, a third has another strategy to the same branch; every interleaving of two goroutines; uploads that fail |
| `copy_pipeline_retry` | `MCCopyPipeline`, `CopyPipelineRetry.cfg` | 2 deliveries, 2 attempts, panics, fairness | a retry finds what a panic left behind, another delivery, about a deletion that no workflow records, may find it first; a third attempt adds nothing new over the second |
| `shared_batch` | `MCSharedBatch` | 2 deliveries of 4 files and of one | the fourth file is the first whose append finds room; arrays grow twice before |
| `webhook_intake` | `MCWebhookIntake` | one delivery sent twice, 2 attempts, 2 lives, window 2, fairness | time passes at any step, so that a window ends while a goroutine works; two handlers and a goroutine overlap; shutdown, crash and restart at every step |
| `target_write` | `MCTargetWrite` | 3 uploads (review, auto-merge, direct), 1 file, 3 contents, 2 seconds, 1 push, reviewers, failures | same second and different seconds, a conflict, an unchanged tree, a pull request that is found |
| `deprecation_file` | `MCDeprecationFile` | 4 updates, two of them the same deletion, 2 edits, token expiry | same entry twice at once, same name in two targets, an edit between read and write and one after |
| `config_loading` | `MCConfigLoading` | 2 loaders, 2 references of 3 files, 2 versions, TTL 2, loads of 1, 2 edits or failing calls; loaders and versions symmetric | loads overlap each other, an edit and an invalidation; one reference has two files, which change in between; an entry is fresh, about to expire and expired |
| `workflow_rules` | `MCWorkflowRules` | every combination of settings in two files and the main one; every pair of 21 rules over a tree of 5 files; references without workflows | defaults shared inside a file and across files, an own setting before and after; a directory whose name begins another's, one written with two slashes; no reference is good, or an inline one is empty |
| `github_access` | `MCGitHubAccess` | 2 goroutines, 2 organizations, tokens for 4, margin and deadline 2, a JWT for 1, waits of 1, fairness | a cached token just has the margin left or just has not; both goroutines exchange at once; a wait crosses a deadline |
| `operator_ui` | `MCOperatorUI` | 3 requests of one user, 1 repository, TTL 1, requests of 1; requests symmetric | two requests overwrite each other's answer while a third finds it; the right changes at any time; two replays and a view |

The configuration has the name of its module without `MC` where none is given.

`TypeOK` (`TrackerTypeOK` in `DeliveryTracker`) is an invariant of the runs where it
says more than types; that of `TargetWrite`, `DeprecationFile`, `ConfigLoading`, `GitHubAccess` and
`OperatorUI` is proved for every instance.  `WorkflowRules` has none: its heap is typed
by the invariant of its proofs.

Deadlock is not checked where the system may stop: all deliveries done, all
uploads over, no more starts allowed by the bound.  The bounds are `MaxPushes`,
`MaxSecond`, `MaxEdits`, `MaxLives`, `MaxTroubles` and the finite sets of
deliveries, requests, uploads and updates; all other counters are bounded by the
code.

One run TLC must refute, against a sentence of the documentation:

| Run | Sentence | What the code does |
| --- | --- | --- |
| `lost_files` (`MCCopyPipeline`, `LostFiles.cfg`) | README.md:30, "Thread-Safe - Concurrent webhook processing with proper state management" | `queueUpload` of one delivery overwrites the batch of another, and the queue is cleared after an older snapshot was uploaded; the files are lost though both deliveries report processed_ok |

Further disagreements between code and documents, read in the code and not run.

Deliveries and targets:

- AGENT.md:116 speaks of file state per request; `file_state_service.go:21` is one
  for the whole container.
- docs/ARCHITECTURE.md:508 lets the last workflow decide on auto-merge;
  `workflow_processor.go:436` takes the conjunction.
- docs/ARCHITECTURE.md:361-364 counts requests as processed or failed; `app.go:312`
  counts every request as processed.
- `service_container.go:40` describes waiting for background goroutines on
  shutdown; nothing calls `Wait` then.
- DEPRECATION-TRACKING-EXPLAINED.md:129 describes a deprecation file per workflow;
  `UpdateDeprecationFile` always writes `config.DeprecationFile`.
- `github_write_to_source.go:124` logs "Successfully updated" after a failed write.
- docs/ARCHITECTURE.md:91-93 has composite keys prevent collisions of deprecations;
  `webhook_handler_new.go:589` flattens the entries by file name.
- docs/RECOMMENDATIONS.md:88 skips retries once the deadline is exceeded; the `break`
  at `webhook_handler_new.go:398` leaves the `select`, and one more attempt starts.
- docs/ARCHITECTURE.md:682 answers 200 for deliveries already processed;
  `webhook_handler_new.go:116` records the ID before signature and payload are
  checked, so a refused delivery sent again is answered so, too.
- docs/RECOMMENDATIONS.md:64-70 calls duplicate pull requests resolved; two uploads
  may look for an open one (`github_write_to_target.go:312`) before either has
  opened one.
- `workflow_processor.go:437` enables auto-merge "only if ALL workflows in the batch
  want it", and `types/types.go:115` aligns `FileMeta` with `Content`; from the fourth
  file on, goroutines that share an array can break both (see SharedBatch).  FAQ.md:461
  speaks of proper synchronization.
- docs/SLACK-NOTIFICATIONS.md:78-80 has 18 files copied of 20 when 2 failed;
  `workflow_processor.go:522` counts files when they are queued, so the 2 are counted
  in both.  Line 69 has green for "All files copied successfully"; files that could
  not be fetched count nowhere, and `slack_notifier.go:170` shows green.
- docs/ARCHITECTURE.md:388 counts matched and deprecated files; nothing outside the
  tests calls `RecordFileMatched` or `RecordFileDeprecated`.

Configuration and rules:

- Nothing calls `InvalidateCache` of the configuration cache.
- `$ref` in inline workflows is never resolved, against docs/CONFIG-REFERENCE.md:398,
  and that in files is relative to the directory of the file, against the examples
  near line 414 there.  The loader of the old format resolves none.
- Built-in variables override named groups (`pattern_matcher.go:157`), against
  docs/CONFIG-REFERENCE.md:343; `${ext}` and `${name}` differ from
  docs/PATTERN-MATCHING-GUIDE.md:308-318; `${relative_path}` is set for globs with
  `**` only.
- The exclude example "*.test.go" of docs/CONFIG-REFERENCE.md:179 is no valid regex
  and is skipped without an error.
- A workflow that names another repository than the one of its file still gets the
  branch of the file's reference.
- A move from `a//` moves nothing, since one slash is trimmed
  (`workflow_processor.go:265`) and no path has two.
- A move of a single file whose `to` ends in a slash yields a path that ends in one.

Access:

- `rate_limit.go:41` waits and "retries once"; the request at line 95 is the same
  object, whose body the first attempt has read, so a write that was refused for the
  rate limit is sent again without its body or fails.  The tests use requests without
  a body.
- docs/RECOMMENDATIONS.md:108 has requests carry the context; those for tokens and
  installations carry none.  `/app/installations` is read without pagination.
- docs/ARCHITECTURE.md:389 counts calls of the GitHub API; `newRateLimitTransport` is
  given no metrics, so nothing is counted.
- docs/CONFIG-REFERENCE.md:156 limits suggestions to 30 an hour; the windows of
  `operator_ratelimit.go:43` are fixed, so up to 60 pass within an hour around an edge.

## Fairness

Only steps of the program are fair.  The Go scheduler runs every handler and
goroutine that is ready, and every call a goroutine waits for returns: GitHub answers
or the context runs out.  Requests for tokens carry no context; that they return rests
on GitHub, or on the network, which ends a dead connection.  Nothing is assumed of how
long any of this takes: `WF` on `Step(d)` in `CopyPipeline`, on `Handle(r)`
and `Work(r)` in `WebhookIntake`, on the main goroutine after a signal
(`Shutdown`: `server.Shutdown` has half a minute), on the purge goroutine and the
clock in `DeliveryTracker`, and on the clock and the ways out of the transport
(`Tick`, `Retry`, `GiveUp`, `Answer`) in `GitHubAccess`.  Nothing is assumed of the
environment: deliveries, signals, restarts, panics, expiry, reviewers, pushes and
edits need not happen.
Weak fairness on a delivery's steps as a whole suffices because attempts are
bounded and each has finitely many steps.

## Proofs

For all values of the constants that satisfy the assumptions each module states.  The
assumptions beyond types: there are finitely many workflows (`CopyPipeline`), the
deadline is no longer than the margin and the margin no longer than a token's life
(`GitHubAccess`), changed files have paths without empty names and dots
(`WorkflowRules`), and model values such as `None`, `Blank`, `Bad` and `Skipped` are
none of the values they stand beside.

| Theorem | Says | Argument |
| --- | --- | --- |
| `ExpiryProofs!TrackerTypeCorrect` | `[]TrackerTypeOK` | inductive as it stands, with lemmas on ages and the ring |
| `ExpiryProofs!Deduplicates` | `TrackerSpec => ImplementsOncePerWindow` | with `TrackerTypeOK`, each action maps to an abstract one; purge, stop and return are stutters |
| `CopyPipelineProofs!TypeCorrect` | `[]TypeOK`, with attempts within `MaxAttempts` | `TypeOK` with `PlaceOK`: where a goroutine stands decides how far its counter may be |
| `CopyPipelineProofs!SettingsAreKept`, `UploadsBelong` | `[]BatchSettingsAgree`, `[]UploadedWhereItBelongs` | one invariant: every batch anywhere - queue, a goroutine's copy, a snapshot, an upload - is good for its key, and every pending match belongs to its delivery's plan; a stale copy is still a good batch, which is why lost updates cannot break it |
| `CopyPipelineProofs!QueuesDrain` | `[]DrainedWhenQuiet` | while something is queued, a goroutine that has yet to clear that queue is in flight: the last to leave clears |
| `CopyPipelineProofs!LoneFilesSurvive` | `[]LoneFileSurvives` | a file of a lone delivery is in the queue, tried, or in every snapshot and copy that may overwrite or clear it |
| `CopyPipelineProofs!LoneFilesUploaded` | `[]LoneDeliveryUploadsAll` | `HandedInv`: while a delivery has the service to itself its files are uploaded by it or still held; a cleared queue had an empty snapshot, so they are uploaded |
| `CopyPipelineProofs!NobodyElsesFiles` | `[]LoneDeliveryUploadsItsOwn` | with the invariant of `QueuesDrain` a delivery that starts alone finds the queue empty; from then on queue, copy, snapshot and uploads hold its own files (`ItsOwnInv`) |
| `CopyPipelineProofs!LoneNamesRecorded` | `[]LoneDeliveryRecordsNames` | `NotedInv`: an entry a lone delivery has noted waits in the queue until its name is recorded; flattening keeps every name, since of the finitely many workflows that claim a name some comes last |
| `CopyPipelineProofs!LoneReportsAreExact` | `[]LoneReportIsExact` | `ReportInv`: while a delivery has the service to itself, what the counters have grown since its snapshot is what its attempt has counted |
| `CopyPipelineProofs!FailuresAreShown` | `[]FailuresShow` | `SeenInv`: a delivery whose context has not run out comes to an attempt without uploads, since an attempt that got to its uploads without a panic ends in success or has found the context gone; from its snapshot on a failed upload counts at least one file, and what is counted stays; with `HandedInv` for the files |
| `CopyPipelineProofs!CountingChangesNothing` | `CountsSpec => Spec` | every action of `FileCounts` is one of `CopyPipeline` with the counters beside it, so the theorems above hold with them, too |
| `SharedBatchProofs!SlicesAreWritten` | `[]TypeOK` | arrays have 1, 2 or at least 4 elements, and of the last at least 3 are in use (`Fits`); a step allocates, or writes to the fourth or a later element (`Keeps`), so what a slice reaches stays written |
| `SharedBatchProofs!SmallBatchesAreSafe` | `[]SmallBatchesAgree` | the first three elements of an array are written once, so a batch of up to three files is a value: what its slices say when the batch is put together they say when it is committed |
| `SharedBatchProofs!LoneBatchesAreSound` | `[]LoneBatchIsSound` | a lone delivery's queue and copies have two arrays to themselves, which hold a run of its own files from the first on |
| `SharedBatchProofs!SlicesAreLists`, `SmallBatchesAreLists` | `ListsWhileSmall`; `Spec /\ []Small => BatchOfFiles` | `SliceInv` with `PairInv`: the first three elements of `Content` and `FileMeta` agree in every batch that is queued, held or put together; no step writes to a first, second or third element that is in use (`Keeps`), so a batch a step leaves alone keeps its list (`ValueKept`), and an append is `Append` (`ListLonger`) |
| `WebhookIntakeProofs!TypeCorrect`, `TracedOnce` | `[]TypeOK`, `[]OneTracePerRequest` | `RequestInv`: what the progress of a request says of its trace, goroutine and life |
| `WebhookIntakeProofs!TwinsApart` | `[]TwinsAreAWindowApart` | `TwinInv`: what the tracker remembers of an ID is no older than any request of it that is at work, so another gets past `TryRecord` only when those are a window old, and they stay so |
| `WebhookIntakeProofs!NoneCutShort` | `[]ShutdownCutsNoRequest` | a drained server has nobody in a handler and lets nobody in (`DrainInv`) |
| `WebhookIntakeProofs!DuplicatesFollow` | `[]DuplicateHasPredecessor` | what the tracker remembers a request of the present life has brought past `TryRecord` (`PredecessorInv`) |
| `TargetWriteProofs!TypeCorrect`, `NothingIsOverwritten` | `[]TypeOK`, `BaseOnlyGrows` | histories are closed under ancestors (`HistoriesClosed`), and an upload that merges has a pull request (`Ready`); a fast-forward to a commit that has the old head in its history then keeps the whole of it |
| `TargetWriteProofs!OrphansHaveTwins` | `[]OrphansNeedTwins` | `OwnersInv`: the head of an open pull request was chosen by an upload that opened it, and a branch is deleted by an upload that chose it |
| `TargetWriteProofs!OkMeansMerged` | `[]OkIsInBase` | `CommitsInv`: without a twin, the commit an upload made is in its branch until that is merged, then in the target, whose history `NothingIsOverwritten` keeps |
| `TargetWriteProofs!LeftForReview` | `[]EndsProposed` | `AloneInv`: no other upload works beside an undisturbed one, so the pull request it found is still open and its branch is where it pushed |
| `DeprecationFileProofs!TypeCorrect`, `RecordedOnce`, `LostForAReason`, `NothingIsDropped` | `[]TypeOK`, `[]NoEntryTwice`, `[]UnhinderedIsRecorded`, `RowsAreKept` | `Pending`: what is about to be written extends what was read, names no entry twice and has all the entries of the update; an accepted write replaces just what was read |
| `DeprecationFileProofs!RecordedAtOnce` | `RecordsAtOnce` | with `Additions`: what is about to be written beyond what was read is just what was missing there, dated by the update, and there is some; an accepted write is then a `Record`, reads are stutters |
| `ConfigurationProofs!TypeCorrect`, `ServedRecently`, `Forgets` | `[]TypeOK`, `[]ServedIsRecent`, `InvalidationForgets` | `LoadsHold`: what a load has read so far was there since it began; `CacheHolds`: what is cached was there within a load and its own age; a hit then adds the two |
| `ConfigurationProofs!SettingsFollow` | `[]SettingsAsWritten` | `HeapInv`: the defaults are as written or have their type filled in, which makes no difference to who fills in blanks from them (`FilledFacts`); the own structs of a workflow are as written until `SetDefaults` comes to it, and from then on as expected, since every later write to a shared struct writes what is there |
| `ConfigurationProofs!OnlyItselfIsLost` | `[]InvalidCostsOnlyItself` | `MergedInv`: merged are the final workflows of the good references that have been dealt with, and no others; by `HeapInv` a reference is found valid just if it is good |
| `ConfigurationProofs!FilesLand` | `[]FilesLandInPlace` | lemmas about paths: the names of a path below a directory are those of the directory and then those of the rest (`AllNamesBelow`), tidying keeps the proper names (`TidiedNames`), and two paths whose names agree agree symbol by symbol, so the text of a directory begins a path just if its names do (`SameNamesUnder`); where an induction over a path would be needed, the argument looks at the first position that differs |
| `ExpiryProofs!AccessTypeCorrect`, `TokensOutlive` | `[]TypeOK`, `[]TokenOutlivesContext` | a token that is handed out has the margin or its whole life left, and the deadline is no longer than either; both shrink together |
| `OperatorUIProofs!TypeCorrect`, `ShownByRight`, `HiddenByReason`, `ReplaysApart` | `[]TypeOK`, `AllowedLately`, `HiddenForAReason`, `[]OneReplayPerPR` | each place an answer passes through - on its way, in the cache, as the role or memory of a request - bounds how old the truth behind it may be (`AnswersTrue`, `CacheTrue`, `RolesTrue`, `KnownTrue`), and the bounds add up to the window |

Only model-checked: the liveness properties (`ExpiredEntriesLeave`,
`EveryDeliveryEnds`, `AnsweredAndReported`, `RoundTripsEnd`), as the prover does no
liveness under fairness and no ENABLED.

## What is left

1. A compositional argument that `CopyPipeline` with the slices of `SharedBatch`
   implements it for batches of up to three files; `SmallBatchesAreLists` is its core,
   for one key and without panics and retries.
2. The ring of the trace, the log buffer and the request limiter: small, bounded, each
   under one lock.  The loader of the old configuration format; rates and timings of
   the metrics and the health endpoints.

## Not modelled

LLM suggestions with their request limiter, the audit logger, Slack, the logger, the
log buffer and the command-line tools keep no state the copying depends on: they
format, send, log and display.  The environment is read once at start-up and appears
as constants.  The readers of files and PR templates have no state; that they fail is
in the modules that call them.  Commit messages, titles, bodies and their templates
are left out of `CopyPipeline` and `TargetWrite` because no property is about them;
the edit of a pull request's title, whose failure is only logged, changes nothing
else.  Left out of components that are modelled in part: the default token's first
exchange and the secrets read at start-up, the limits recorded for display, the
counters of GitHub calls, releases and audit queries of the operator interface,
`matchPrefix` and the exclusion of source patterns, which no workflow uses.  A batch is
written to GitHub with one tree and one commit, so it fails as a whole.

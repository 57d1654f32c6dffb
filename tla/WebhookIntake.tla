---------------------------- MODULE WebhookIntake ----------------------------
(***************************************************************************)
(* The front half of the service: the HTTP handlers of the webhook         *)
(* endpoint (handleWebhook and HandleWebhookWithContainer), the goroutines *)
(* they leave running, and the life of the process around them - signal,   *)
(* graceful shutdown, crash, restart.  Everything the service remembers is *)
(* in memory and starts empty in every life.                               *)
(*                                                                         *)
(* Deduplication is taken from OncePerWindow, which DeliveryTracker        *)
(* implements; what a goroutine does is the subject of CopyPipeline and    *)
(* only its end matters here.  The checks a request can fail are decided   *)
(* when the handler makes them.  Nothing bounds how long a handler or a    *)
(* goroutine takes: the processing timeout ends a context, but requests    *)
(* for tokens do not carry it, the waits for a merge or a ref do not look  *)
(* at it, and one more attempt may start after it.  So a goroutine may     *)
(* well be at work when its delivery is let through again.                 *)
(***************************************************************************)
EXTENDS Integers, FiniteSets

CONSTANTS
  Request,            \* the requests sent to the endpoint
  DeliveryID,         \* the values of the X-GitHub-Delivery header
  NoID,               \* the header is missing
  DeliveryOf,         \* DeliveryOf[r]: the header of r; redeliveries repeat it
  Window,             \* the TTL of the DeliveryTracker: an hour
  MaxAttempts,        \* WebhookMaxRetries + 1
  MaxLives            \* bound: starts of the process

ASSUME WebhookIntakeAssumption ==
  /\ NoID \notin DeliveryID
  /\ DeliveryOf \in [Request -> DeliveryID \cup {NoID}]
  /\ Window \in Nat
  /\ MaxAttempts \in Nat \ {0}
  /\ MaxLives \in Nat \ {0}

VARIABLES
  since, verdict,   \* the DeliveryTracker, as OncePerWindow describes it
  server,           \* where the main goroutine stands
  life,             \* how often the process has been started
  pc,               \* pc[r]: where the handler of r stands
  servedBy,         \* servedBy[r]: the life that received r
  answer,           \* answer[r]: the status code r was answered with
  job,              \* job[r]: the background goroutine of r
  attempt,          \* attempt[r]: the attempt it is at
  age,              \* age[r]: time since r got past TryRecord, at most Window
  traces,           \* traces[r]: entries of the webhook trace about r
  metrics           \* webhooks received, processed and failed

tracker == <<since, verdict>>
process == <<server, life>>
handler == <<pc, servedBy, answer>>
work    == <<job, attempt, age>>
vars    == <<tracker, process, handler, work, traces, metrics>>

Tracker == INSTANCE OncePerWindow

InHandler == {r \in Request : pc[r] \in {"received", "read", "recorded", "answered"}}
Running   == {r \in Request : job[r] = "running"}
Busy(r)   == pc[r] = "recorded" \/ r \in Running
Zero      == [received |-> 0, processed |-> 0, failed |-> 0]

Count(field) == metrics' = [metrics EXCEPT ![field] = @ + 1]

-----------------------------------------------------------------------------
Init ==
  /\ Tracker!Init
  /\ server = "up"
  /\ life = 1
  /\ pc = [r \in Request |-> "sent"]
  /\ servedBy = [r \in Request |-> 0]
  /\ answer = [r \in Request |-> 0]
  /\ job = [r \in Request |-> "none"]
  /\ attempt = [r \in Request |-> 0]
  /\ age = [r \in Request |-> 0]
  /\ traces = [r \in Request |-> 0]
  /\ metrics = Zero

(* handleWebhook: the request is counted and handed to the handler.        *)
Receive(r) ==
  /\ server = "up" /\ pc[r] = "sent"
  /\ pc' = [pc EXCEPT ![r] = "received"]
  /\ servedBy' = [servedBy EXCEPT ![r] = life]
  /\ Count("received")
  /\ UNCHANGED <<tracker, process, answer, work, traces>>

Answer(r, status) ==
  /\ answer' = [answer EXCEPT ![r] = status]
  /\ pc' = [pc EXCEPT ![r] = "answered"]
  /\ UNCHANGED servedBy

AppendWebhookTrace(r) == traces' = [traces EXCEPT ![r] = @ + 1]

(* Only POST is served; anything else leaves no trace entry.               *)
RejectMethod(r) ==
  /\ pc[r] = "received"
  /\ Answer(r, 405)
  /\ UNCHANGED <<tracker, process, work, traces, metrics>>

(* The body cannot be read, or X-GitHub-Event is missing.                  *)
RejectHeaders(r) ==
  /\ pc[r] = "received"
  /\ Answer(r, 400)
  /\ AppendWebhookTrace(r)
  /\ Count("failed")
  /\ UNCHANGED <<tracker, process, work>>

ReadRequest(r) ==
  /\ pc[r] = "received"
  /\ pc' = [pc EXCEPT ![r] = "read"]
  /\ UNCHANGED <<tracker, process, servedBy, answer, work, traces, metrics>>

Mut_NothingTracked(r) == FALSE

(* A request without the header is never a duplicate.                      *)
Deduplicated(r) == DeliveryOf[r] # NoID

(* TryRecord comes before the signature is verified and the payload read.  *)
Record(r) ==
  /\ pc[r] = "read"
  /\ IF Deduplicated(r) THEN Tracker!LetThrough(DeliveryOf[r]) ELSE UNCHANGED tracker
  /\ pc' = [pc EXCEPT ![r] = "recorded"]
  /\ UNCHANGED <<process, servedBy, answer, work, traces, metrics>>

AnswerDuplicate(r) ==
  /\ pc[r] = "read"
  /\ Deduplicated(r) /\ Tracker!TurnAway(DeliveryOf[r])
  /\ Answer(r, 200)
  /\ AppendWebhookTrace(r)
  /\ UNCHANGED <<process, work, metrics>>

(* A wrong signature (401) or a payload that cannot be parsed (400).       *)
Refuse(r) ==
  /\ pc[r] = "recorded"
  /\ \E status \in {401, 400} : Answer(r, status)
  /\ AppendWebhookTrace(r)
  /\ Count("failed")
  /\ UNCHANGED <<tracker, process, work>>

(* Not about a merged pull request (204), or about no repository (400).    *)
Ignore(r) ==
  /\ pc[r] = "recorded"
  /\ \E status \in {204, 400} : Answer(r, status)
  /\ AppendWebhookTrace(r)
  /\ UNCHANGED <<tracker, process, work, metrics>>

(* A merged pull request: 202 at once, the rest in the background.         *)
Accept(r) ==
  /\ pc[r] = "recorded"
  /\ Answer(r, 202)
  /\ job' = [job EXCEPT ![r] = "running"]
  /\ attempt' = [attempt EXCEPT ![r] = 1]
  /\ UNCHANGED <<tracker, process, age, traces, metrics>>

(* Back in handleWebhook: every request counts as processed.               *)
Return(r) ==
  /\ pc[r] = "answered"
  /\ pc' = [pc EXCEPT ![r] = "returned"]
  /\ Count("processed")
  /\ UNCHANGED <<tracker, process, servedBy, answer, work, traces>>

-----------------------------------------------------------------------------
(* The goroutines.  Some failures of an attempt are counted by the attempt *)
(* itself (authentication, configuration, listing the files), some are not *)
(* (a panic, a cancelled workflow); the loop counts the last one again.    *)
CountAttempt == Count("failed") \/ UNCHANGED metrics

Mut_TraceEveryAttempt(r) ==
  /\ job[r] = "running" /\ attempt[r] < MaxAttempts
  /\ attempt' = [attempt EXCEPT ![r] = @ + 1]
  /\ CountAttempt
  /\ AppendWebhookTrace(r)
  /\ UNCHANGED <<tracker, process, handler, job, age>>

Mut_OneAttemptTooMany(r) ==
  /\ job[r] = "running" /\ attempt[r] <= MaxAttempts
  /\ attempt' = [attempt EXCEPT ![r] = @ + 1]
  /\ CountAttempt
  /\ UNCHANGED <<tracker, process, handler, job, age, traces>>

Mut_AttemptsWrapAround(r) ==
  /\ job[r] = "running"
  /\ attempt' = [attempt EXCEPT ![r] = (@ % MaxAttempts) + 1]
  /\ UNCHANGED <<tracker, process, handler, job, age, traces, metrics>>

AttemptFails(r) ==
  /\ job[r] = "running" /\ attempt[r] < MaxAttempts
  /\ attempt' = [attempt EXCEPT ![r] = @ + 1]
  /\ CountAttempt
  /\ UNCHANGED <<tracker, process, handler, job, age, traces>>

JobSucceeds(r) ==
  /\ job[r] = "running"
  /\ job' = [job EXCEPT ![r] = "processed_ok"]
  /\ AppendWebhookTrace(r)
  /\ UNCHANGED <<tracker, process, handler, attempt, age, metrics>>

(* Out of attempts, a permanent error, or out of time.                     *)
JobFails(r) ==
  /\ job[r] = "running"
  /\ job' = [job EXCEPT ![r] = "processing_failed"]
  /\ AppendWebhookTrace(r)
  /\ \E n \in {1, 2} : metrics' = [metrics EXCEPT !.failed = @ + n]
  /\ UNCHANGED <<tracker, process, handler, attempt, age>>

(* Time passes, wherever handlers and goroutines stand.                    *)
TimePasses ==
  /\ Tracker!TimePasses
  /\ age' = [r \in Request |->
               IF Busy(r) /\ age[r] < Window THEN age[r] + 1 ELSE age[r]]
  /\ UNCHANGED <<process, handler, job, attempt, traces, metrics>>

-----------------------------------------------------------------------------
(* SIGTERM or an interrupt: server.Shutdown accepts no more requests ...   *)
Signal ==
  /\ server = "up"
  /\ server' = "draining"
  /\ UNCHANGED <<tracker, life, handler, work, traces, metrics>>

Mut_ShutdownDoesNotWait ==
  /\ server = "draining"
  /\ server' = "drained"
  /\ UNCHANGED <<tracker, life, handler, work, traces, metrics>>

(* ... and waits for the handlers, ...                                     *)
Drained ==
  /\ server = "draining" /\ InHandler = {}
  /\ server' = "drained"
  /\ UNCHANGED <<tracker, life, handler, work, traces, metrics>>

(* ... for half a minute at most.                                          *)
ShutdownTimesOut ==
  /\ server = "draining" /\ InHandler # {}
  /\ server' = "timed_out"
  /\ UNCHANGED <<tracker, life, handler, work, traces, metrics>>

(* The process is gone, and with it the handlers and goroutines.           *)
End(how) ==
  /\ server' = "down"
  /\ pc' = [r \in Request |-> IF r \in InHandler THEN how ELSE pc[r]]
  /\ job' = [r \in Request |-> IF r \in Running THEN how ELSE job[r]]
  /\ UNCHANGED <<tracker, life, servedBy, answer, attempt, age, traces, metrics>>

(* container.Close and the return of startWebServer.                       *)
Exit ==
  \/ server = "drained" /\ End("exited")
  \/ server = "timed_out" /\ End("timed_out")

Crash == server # "down" /\ End("crashed")

Mut_RestartKeepsTracker ==
  /\ server = "down" /\ life < MaxLives
  /\ server' = "up"
  /\ life' = life + 1
  /\ traces' = [r \in Request |-> 0]
  /\ metrics' = Zero
  /\ UNCHANGED <<tracker, handler, work>>

(* A new process knows nothing of the earlier ones.                        *)
Restart ==
  /\ server = "down" /\ life < MaxLives
  /\ server' = "up"
  /\ life' = life + 1
  /\ since' = [id \in DeliveryID |-> Window]
  /\ verdict' = [none |-> TRUE]
  /\ traces' = [r \in Request |-> 0]
  /\ metrics' = Zero
  /\ UNCHANGED <<handler, work>>

Handle(r) ==
  /\ server # "down"
  /\ \/ RejectMethod(r) \/ RejectHeaders(r) \/ ReadRequest(r)
     \/ Record(r) \/ AnswerDuplicate(r)
     \/ Refuse(r) \/ Ignore(r) \/ Accept(r)
     \/ Return(r)

Work(r) == AttemptFails(r) \/ JobSucceeds(r) \/ JobFails(r)

Shutdown == Drained \/ ShutdownTimesOut \/ Exit

Next ==
  \/ \E r \in Request : Receive(r) \/ Handle(r) \/ Work(r)
  \/ TimePasses
  \/ Signal \/ Shutdown \/ Crash \/ Restart

Spec == Init /\ [][Next]_vars

(* The Go scheduler runs every handler and goroutine and the main          *)
(* goroutine; nobody has to send a request, a signal or a restart.         *)
FairSpec ==
  /\ Spec
  /\ \A r \in Request : WF_vars(Handle(r)) /\ WF_vars(Work(r))
  /\ WF_vars(Shutdown)

-----------------------------------------------------------------------------
Ends == {"exited", "timed_out", "crashed"}

TypeOK ==
  /\ since \in [DeliveryID -> 0 .. Window]
  /\ server \in {"up", "draining", "drained", "timed_out", "down"}
  /\ life \in 1 .. MaxLives
  /\ pc \in [Request -> {"sent", "received", "read", "recorded", "answered",
                         "returned"} \cup Ends]
  /\ servedBy \in [Request -> 0 .. MaxLives]
  /\ answer \in [Request -> {0, 200, 202, 204, 400, 401, 405}]
  /\ job \in [Request -> {"none", "running", "processed_ok",
                          "processing_failed"} \cup Ends]
  /\ attempt \in [Request -> 0 .. MaxAttempts]
  /\ age \in [Request -> 0 .. Window]
  /\ traces \in [Request -> 0 .. 1]
  /\ metrics \in [{"received", "processed", "failed"} -> Nat]

SameDelivery(r, s) == DeliveryOf[r] = DeliveryOf[s] /\ DeliveryOf[r] # NoID

(* Two goroutines process the same delivery at once only if one of their   *)
(* requests got past TryRecord a whole window ago, whatever the handlers   *)
(* do at the same time and however long each of them takes, and through    *)
(* restarts, which forget the tracker but end the goroutines, too.         *)
TwinsAreAWindowApart ==
  \A r, s \in Running :
    SameDelivery(r, s) /\ r # s => age[r] = Window \/ age[s] = Window

(* A request is answered as a duplicate only if another request of the     *)
(* same delivery has passed TryRecord in the same life of the process.     *)
DuplicateHasPredecessor ==
  \A r \in Request : answer[r] = 200 =>
    \E s \in Request :
      /\ SameDelivery(r, s) /\ s # r /\ servedBy[s] = servedBy[r]
      /\ pc[s] \in {"recorded", "answered", "returned"} \cup Ends

(* Every request the present life has dealt with left exactly one entry in *)
(* the webhook trace, an accepted one when its goroutine has ended and not *)
(* before, however often it was attempted; only a wrong method leaves none. *)
OneTracePerRequest ==
  \A r \in Request : servedBy[r] = life /\ pc[r] = "returned" =>
    traces[r] = IF answer[r] = 405 \/ job[r] = "running" \/ job[r] \in Ends
                THEN 0 ELSE 1

(* A shutdown that had the time cuts no request short.                     *)
ShutdownCutsNoRequest == \A r \in Request : pc[r] # "exited"

(* As long as the process stays up, every request is answered and every    *)
(* accepted one reported.                                                  *)
AnsweredAndReported ==
  \A r \in Request :
    pc[r] = "received" ~> \/ server # "up"
                          \/ pc[r] = "returned" /\ job[r] # "running"
=============================================================================

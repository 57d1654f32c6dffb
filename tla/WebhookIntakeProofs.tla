-------------------------- MODULE WebhookIntakeProofs --------------------------
(***************************************************************************)
(* Proofs about WebhookIntake, for any requests, any number of lives of    *)
(* the process, any window, and however long handlers and goroutines take. *)
(***************************************************************************)
EXTENDS WebhookIntake, TLAPS

-----------------------------------------------------------------------------
(* How far a request has come decides what is known of it: nothing is      *)
(* traced and nothing runs before the answer, handlers and goroutines      *)
(* belong to the present life, and a goroutine only follows an answer.     *)
Unanswered == {"sent", "received", "read", "recorded"}

RequestInv ==
  \A r \in Request :
    /\ servedBy[r] <= life
    /\ pc[r] = "sent" => servedBy[r] = 0
    /\ pc[r] \in Unanswered => job[r] = "none" /\ traces[r] = 0
    /\ pc[r] \in Unanswered \ {"recorded"} => age[r] = 0
    /\ pc[r] \in {"received", "read", "recorded", "answered"} \/ job[r] = "running"
         => server # "down" /\ servedBy[r] = life
    /\ job[r] = "running" => pc[r] \in {"answered", "returned"} /\ answer[r] # 405
    /\ pc[r] \in {"answered", "returned"} /\ servedBy[r] = life =>
         traces[r] = IF answer[r] = 405 \/ job[r] = "running" \/ job[r] \in Ends
                     THEN 0 ELSE 1

LEMMA TypeInit == Init => TypeOK
  BY WebhookIntakeAssumption
     DEF Init, TypeOK, Tracker!Init, Zero, WebhookIntakeAssumption

LEMMA RequestInit == Init => RequestInv
  BY DEF Init, RequestInv, Unanswered

(* Every step keeps the types.                                             *)
LEMMA TypeStep == TypeOK /\ RequestInv /\ [Next]_vars => TypeOK'
<1>. SUFFICES ASSUME TypeOK, RequestInv, [Next]_vars PROVE TypeOK'
  OBVIOUS
<1>. USE WebhookIntakeAssumption DEF WebhookIntakeAssumption, Answer,
        AppendWebhookTrace, Count, Deduplicated, Tracker!LetThrough,
        Tracker!TurnAway, tracker, process, handler, work, TypeOK, RequestInv,
        Unanswered, Ends, InHandler, Running, Busy, Zero
<1>u. CASE UNCHANGED vars
  BY <1>u DEF vars
<1>h. ASSUME NEW r \in Request, Receive(r) \/ Handle(r) \/ Work(r) PROVE TypeOK'
  <2>1. CASE Receive(r)
    BY <2>1 DEF Receive
  <2>2. CASE RejectMethod(r)
    BY <2>2 DEF RejectMethod
  <2>3. CASE RejectHeaders(r)
    BY <2>3 DEF RejectHeaders
  <2>4. CASE ReadRequest(r)
    BY <2>4 DEF ReadRequest
  <2>5. CASE Record(r)
    BY <2>5 DEF Record
  <2>6. CASE AnswerDuplicate(r)
    BY <2>6 DEF AnswerDuplicate
  <2>7. CASE Refuse(r)
    BY <2>7 DEF Refuse
  <2>8. CASE Ignore(r)
    BY <2>8 DEF Ignore
  <2>9. CASE Accept(r)
    BY <2>9 DEF Accept
  <2>10. CASE Return(r)
    BY <2>10 DEF Return
  <2>11. CASE AttemptFails(r)
    BY <2>11 DEF AttemptFails, CountAttempt
  <2>12. CASE JobSucceeds(r)
    BY <2>12 DEF JobSucceeds
  <2>13. CASE JobFails(r)
    BY <2>13 DEF JobFails
  <2>. QED
    BY <1>h, <2>1, <2>2, <2>3, <2>4, <2>5, <2>6, <2>7, <2>8, <2>9, <2>10,
       <2>11, <2>12, <2>13 DEF Handle, Work
<1>1. CASE TimePasses
  BY <1>1 DEF TimePasses, Tracker!TimePasses
<1>2. CASE Signal
  BY <1>2 DEF Signal
<1>3. CASE Drained
  BY <1>3 DEF Drained
<1>4. CASE ShutdownTimesOut
  BY <1>4 DEF ShutdownTimesOut
<1>5. CASE Exit
  BY <1>5 DEF Exit, End
<1>6. CASE Crash
  BY <1>6 DEF Crash, End
<1>7. CASE Restart
  BY <1>7 DEF Restart
<1>. QED
  BY <1>u, <1>h, <1>1, <1>2, <1>3, <1>4, <1>5, <1>6, <1>7 DEF Next, Shutdown

(* Every step keeps what is known of the requests.                         *)
LEMMA RequestStep == TypeOK /\ RequestInv /\ [Next]_vars => RequestInv'
<1>. SUFFICES ASSUME TypeOK, RequestInv, [Next]_vars PROVE RequestInv'
  OBVIOUS
<1>. USE WebhookIntakeAssumption DEF WebhookIntakeAssumption, Answer,
        AppendWebhookTrace, Count, Deduplicated, Tracker!LetThrough,
        Tracker!TurnAway, tracker, process, handler, work, TypeOK, RequestInv,
        Unanswered, Ends, InHandler, Running, Busy
<1>u. CASE UNCHANGED vars
  BY <1>u DEF vars
<1>h. ASSUME NEW r \in Request, Receive(r) \/ Handle(r) \/ Work(r) PROVE RequestInv'
  <2>1. CASE Receive(r)
    BY <2>1 DEF Receive
  <2>2. CASE RejectMethod(r)
    BY <2>2 DEF RejectMethod
  <2>3. CASE RejectHeaders(r)
    BY <2>3 DEF RejectHeaders
  <2>4. CASE ReadRequest(r)
    BY <2>4 DEF ReadRequest
  <2>5. CASE Record(r)
    BY <2>5 DEF Record
  <2>6. CASE AnswerDuplicate(r)
    BY <2>6 DEF AnswerDuplicate
  <2>7. CASE Refuse(r)
    BY <2>7 DEF Refuse
  <2>8. CASE Ignore(r)
    BY <2>8 DEF Ignore
  <2>9. CASE Accept(r)
    BY <2>9 DEF Accept
  <2>10. CASE Return(r)
    BY <2>10 DEF Return
  <2>11. CASE AttemptFails(r)
    BY <2>11 DEF AttemptFails, CountAttempt
  <2>12. CASE JobSucceeds(r)
    BY <2>12 DEF JobSucceeds
  <2>13. CASE JobFails(r)
    BY <2>13 DEF JobFails
  <2>. QED
    BY <1>h, <2>1, <2>2, <2>3, <2>4, <2>5, <2>6, <2>7, <2>8, <2>9, <2>10,
       <2>11, <2>12, <2>13 DEF Handle, Work
<1>1. CASE TimePasses
  BY <1>1 DEF TimePasses, Tracker!TimePasses
<1>2. CASE Signal
  BY <1>2 DEF Signal
<1>3. CASE Drained
  BY <1>3 DEF Drained
<1>4. CASE ShutdownTimesOut
  BY <1>4 DEF ShutdownTimesOut
<1>5. CASE Exit
  BY <1>5 DEF Exit, End
<1>6. CASE Crash
  BY <1>6 DEF Crash, End
<1>7. CASE Restart
  BY <1>7 DEF Restart
<1>. QED
  BY <1>u, <1>h, <1>1, <1>2, <1>3, <1>4, <1>5, <1>6, <1>7 DEF Next, Shutdown

(* The service stays well typed in every life: each request leaves at most *)
(* one trace entry and no delivery is attempted more than MaxAttempts      *)
(* times.                                                                  *)
THEOREM TypeCorrect == Spec => []TypeOK
<1>. QED
  BY TypeInit, RequestInit, TypeStep, RequestStep, PTL DEF Spec

(* Every request the present life has dealt with is traced exactly once,   *)
(* when it is refused, ignored, turned away or reported, and a wrong       *)
(* method never.                                                           *)
THEOREM TracedOnce == Spec => []OneTracePerRequest
<1>1. RequestInv => OneTracePerRequest
  BY DEF RequestInv, OneTracePerRequest
<1>. QED
  BY TypeInit, RequestInit, TypeStep, RequestStep, <1>1, PTL DEF Spec

-----------------------------------------------------------------------------
(* From TryRecord to the end of its goroutine a request is no younger than *)
(* what the tracker remembers of its delivery.  So another request of the  *)
(* delivery, which gets past TryRecord only when the tracker has forgotten *)
(* it, finds it a whole window old.                                        *)
TwinInv ==
  /\ \A r \in Request : Busy(r) /\ DeliveryOf[r] # NoID => since[DeliveryOf[r]] <= age[r]
  /\ \A r, s \in Request :
       SameDelivery(r, s) /\ Busy(r) /\ Busy(s) /\ r # s => age[r] = Window \/ age[s] = Window

LEMMA TwinInit == Init => TwinInv
  BY DEF Init, TwinInv, Busy, Running

(* No step lets a twin in within the window.                               *)
LEMMA TwinStep == TypeOK /\ RequestInv /\ TwinInv /\ [Next]_vars => TwinInv'
<1>. SUFFICES ASSUME TypeOK, RequestInv, TwinInv, [Next]_vars PROVE TwinInv'
  OBVIOUS
<1>. USE WebhookIntakeAssumption DEF WebhookIntakeAssumption, Answer,
        AppendWebhookTrace, Count, Deduplicated, Tracker!LetThrough,
        Tracker!TurnAway, tracker, process, handler, work, TypeOK, RequestInv,
        Unanswered, Ends, InHandler, Running, TwinInv, Busy, SameDelivery
<1>u. CASE UNCHANGED vars
  BY <1>u DEF vars
<1>h. ASSUME NEW r \in Request, Receive(r) \/ Handle(r) \/ Work(r) PROVE TwinInv'
  <2>1. CASE Receive(r)
    BY <2>1 DEF Receive
  <2>2. CASE RejectMethod(r)
    BY <2>2 DEF RejectMethod
  <2>3. CASE RejectHeaders(r)
    BY <2>3 DEF RejectHeaders
  <2>4. CASE ReadRequest(r)
    BY <2>4 DEF ReadRequest
  <2>5. CASE Record(r)
    BY <2>5 DEF Record
  <2>6. CASE AnswerDuplicate(r)
    BY <2>6 DEF AnswerDuplicate
  <2>7. CASE Refuse(r)
    BY <2>7 DEF Refuse
  <2>8. CASE Ignore(r)
    BY <2>8 DEF Ignore
  <2>9. CASE Accept(r)
    BY <2>9 DEF Accept
  <2>10. CASE Return(r)
    BY <2>10 DEF Return
  <2>11. CASE AttemptFails(r)
    BY <2>11 DEF AttemptFails, CountAttempt
  <2>12. CASE JobSucceeds(r)
    BY <2>12 DEF JobSucceeds
  <2>13. CASE JobFails(r)
    BY <2>13 DEF JobFails
  <2>. QED
    BY <1>h, <2>1, <2>2, <2>3, <2>4, <2>5, <2>6, <2>7, <2>8, <2>9, <2>10,
       <2>11, <2>12, <2>13 DEF Handle, Work
<1>1. CASE TimePasses
  BY <1>1 DEF TimePasses, Tracker!TimePasses
<1>2. CASE Signal
  BY <1>2 DEF Signal
<1>3. CASE Drained
  BY <1>3 DEF Drained
<1>4. CASE ShutdownTimesOut
  BY <1>4 DEF ShutdownTimesOut
<1>5. CASE Exit
  BY <1>5 DEF Exit, End
<1>6. CASE Crash
  BY <1>6 DEF Crash, End
<1>7. CASE Restart
  BY <1>7 DEF Restart
<1>. QED
  BY <1>u, <1>h, <1>1, <1>2, <1>3, <1>4, <1>5, <1>6, <1>7 DEF Next, Shutdown

(* However often a delivery is redelivered and however handlers,           *)
(* goroutines and restarts interleave, two goroutines process it at once   *)
(* only if one of their requests got past TryRecord a whole window ago: no *)
(* goroutine that ends within the window ever has a twin younger than it.  *)
THEOREM TwinsApart == Spec => []TwinsAreAWindowApart
<1>1. TwinInv => TwinsAreAWindowApart
  BY DEF TwinInv, TwinsAreAWindowApart, Busy, Running
<1>. QED
  BY TypeInit, RequestInit, TwinInit, TypeStep, RequestStep, TwinStep, <1>1, PTL DEF Spec
-----------------------------------------------------------------------------
(* Once the server has drained nobody is in a handler, and nobody gets     *)
(* into one: it takes no more requests.                                    *)
DrainInv ==
  /\ server = "drained" => InHandler = {}
  /\ ShutdownCutsNoRequest

LEMMA DrainInit == Init => DrainInv
  BY DEF Init, DrainInv, ShutdownCutsNoRequest

(* No step cuts a handler short, but a shutdown out of time and a crash.   *)
LEMMA DrainStep == TypeOK /\ RequestInv /\ DrainInv /\ [Next]_vars => DrainInv'
<1>. SUFFICES ASSUME TypeOK, RequestInv, DrainInv, [Next]_vars PROVE DrainInv'
  OBVIOUS
<1>. USE WebhookIntakeAssumption DEF WebhookIntakeAssumption, Answer,
        tracker, process, handler, work, TypeOK, DrainInv, ShutdownCutsNoRequest,
        InHandler
<1>u. CASE UNCHANGED vars
  BY <1>u DEF vars
<1>h. ASSUME NEW r \in Request, Receive(r) \/ Handle(r) \/ Work(r) PROVE DrainInv'
  <2>1. CASE Receive(r)
    BY <2>1 DEF Receive
  <2>2. CASE RejectMethod(r)
    BY <2>2 DEF RejectMethod
  <2>3. CASE RejectHeaders(r)
    BY <2>3 DEF RejectHeaders
  <2>4. CASE ReadRequest(r)
    BY <2>4 DEF ReadRequest
  <2>5. CASE Record(r)
    BY <2>5 DEF Record
  <2>6. CASE AnswerDuplicate(r)
    BY <2>6 DEF AnswerDuplicate
  <2>7. CASE Refuse(r)
    BY <2>7 DEF Refuse
  <2>8. CASE Ignore(r)
    BY <2>8 DEF Ignore
  <2>9. CASE Accept(r)
    BY <2>9 DEF Accept
  <2>10. CASE Return(r)
    BY <2>10 DEF Return
  <2>11. CASE AttemptFails(r)
    BY <2>11 DEF AttemptFails
  <2>12. CASE JobSucceeds(r)
    BY <2>12 DEF JobSucceeds
  <2>13. CASE JobFails(r)
    BY <2>13 DEF JobFails
  <2>. QED
    BY <1>h, <2>1, <2>2, <2>3, <2>4, <2>5, <2>6, <2>7, <2>8, <2>9, <2>10, <2>11,
       <2>12, <2>13 DEF Handle, Work
<1>1. CASE TimePasses
  BY <1>1 DEF TimePasses, Tracker!TimePasses
<1>2. CASE Signal
  BY <1>2 DEF Signal
<1>3. CASE Drained
  BY <1>3 DEF Drained
<1>4. CASE ShutdownTimesOut
  BY <1>4 DEF ShutdownTimesOut
<1>5. CASE Exit
  BY <1>5 DEF Exit, End
<1>6. CASE Crash
  BY <1>6 DEF Crash, End
<1>7. CASE Restart
  BY <1>7 DEF Restart
<1>. QED
  BY <1>u, <1>h, <1>1, <1>2, <1>3, <1>4, <1>5, <1>6, <1>7 DEF Next, Shutdown

(* A shutdown that had the time cuts no request short.                     *)
THEOREM NoneCutShort == Spec => []ShutdownCutsNoRequest
<1>1. DrainInv => ShutdownCutsNoRequest
  BY DEF DrainInv
<1>. QED
  BY TypeInit, RequestInit, DrainInit, TypeStep, RequestStep, DrainStep, <1>1, PTL
     DEF Spec

-----------------------------------------------------------------------------
(* The tracker only remembers deliveries that a request of the present     *)
(* life has brought past TryRecord.                                        *)
Passed == {"recorded", "answered", "returned"} \cup Ends

PredecessorInv ==
  /\ \A id \in DeliveryID : since[id] < Window =>
       \E s \in Request :
         DeliveryOf[s] = id /\ servedBy[s] = life /\ pc[s] \in Passed
  /\ \A r \in Request : pc[r] \in Unanswered => answer[r] = 0
  /\ DuplicateHasPredecessor

LEMMA PredecessorInit == Init => PredecessorInv
  BY WebhookIntakeAssumption
     DEF Init, Tracker!Init, PredecessorInv, DuplicateHasPredecessor,
         WebhookIntakeAssumption

(* No step forgets the predecessor of a duplicate.                         *)
LEMMA PredecessorStep ==
  TypeOK /\ RequestInv /\ PredecessorInv /\ [Next]_vars => PredecessorInv'
<1>. SUFFICES ASSUME TypeOK, RequestInv, PredecessorInv, [Next]_vars PROVE PredecessorInv'
  OBVIOUS
<1>. USE WebhookIntakeAssumption DEF WebhookIntakeAssumption, Answer,
        Deduplicated, Tracker!LetThrough, Tracker!TurnAway, tracker, process,
        handler, work, TypeOK, RequestInv, Unanswered, Ends, InHandler, Passed,
        PredecessorInv, DuplicateHasPredecessor, SameDelivery
<1>u. CASE UNCHANGED vars
  BY <1>u DEF vars
<1>h. ASSUME NEW r \in Request, Receive(r) \/ Handle(r) \/ Work(r) PROVE PredecessorInv'
  <2>1. CASE Receive(r)
    BY <2>1 DEF Receive
  <2>2. CASE RejectMethod(r)
    BY <2>2 DEF RejectMethod
  <2>3. CASE RejectHeaders(r)
    BY <2>3 DEF RejectHeaders
  <2>4. CASE ReadRequest(r)
    BY <2>4 DEF ReadRequest
  <2>5. CASE Record(r)
    BY <2>5 DEF Record
  <2>6. CASE AnswerDuplicate(r)
    BY <2>6 DEF AnswerDuplicate
  <2>7. CASE Refuse(r)
    BY <2>7 DEF Refuse
  <2>8. CASE Ignore(r)
    BY <2>8 DEF Ignore
  <2>9. CASE Accept(r)
    BY <2>9 DEF Accept
  <2>10. CASE Return(r)
    BY <2>10 DEF Return
  <2>11. CASE AttemptFails(r)
    BY <2>11 DEF AttemptFails
  <2>12. CASE JobSucceeds(r)
    BY <2>12 DEF JobSucceeds
  <2>13. CASE JobFails(r)
    BY <2>13 DEF JobFails
  <2>. QED
    BY <1>h, <2>1, <2>2, <2>3, <2>4, <2>5, <2>6, <2>7, <2>8, <2>9, <2>10, <2>11,
       <2>12, <2>13 DEF Handle, Work
<1>1. CASE TimePasses
  BY <1>1 DEF TimePasses, Tracker!TimePasses
<1>2. CASE Signal
  BY <1>2 DEF Signal
<1>3. CASE Drained
  BY <1>3 DEF Drained
<1>4. CASE ShutdownTimesOut
  BY <1>4 DEF ShutdownTimesOut
<1>5. CASE Exit
  BY <1>5 DEF Exit, End
<1>6. CASE Crash
  BY <1>6 DEF Crash, End
<1>7. CASE Restart
  BY <1>7 DEF Restart
<1>. QED
  BY <1>u, <1>h, <1>1, <1>2, <1>3, <1>4, <1>5, <1>6, <1>7 DEF Next, Shutdown

(* Nothing is answered as a duplicate that has no predecessor in the same  *)
(* life of the process.                                                    *)
THEOREM DuplicatesFollow == Spec => []DuplicateHasPredecessor
<1>1. PredecessorInv => DuplicateHasPredecessor
  BY DEF PredecessorInv
<1>. QED
  BY TypeInit, RequestInit, PredecessorInit, TypeStep, RequestStep, PredecessorStep,
     <1>1, PTL DEF Spec
===============================================================================

--------------------------- MODULE DeliveryTracker ---------------------------
(***************************************************************************)
(* services/delivery_tracker.go: the in-memory record of the webhook       *)
(* delivery IDs seen within the last TTL, and the goroutine that purges    *)
(* it.                                                                     *)
(*                                                                         *)
(* The code stores the time an ID was recorded and compares its distance   *)
(* from time.Now() with the TTL.  The module keeps that distance, the age  *)
(* of the entry, and stops counting at TTL: no comparison of the code can  *)
(* tell two ages beyond it apart.  Every method holds dt.mu for its whole  *)
(* body, so each is one step.                                              *)
(*                                                                         *)
(* The names that every module has are prefixed: ExpiryProofs extends this *)
(* module and GitHubAccess.                                                *)
(***************************************************************************)
EXTENDS Integers, Sequences

CONSTANTS DeliveryID,  \* the values of the X-GitHub-Delivery header
          TTL,         \* time to live of an entry, in clock units
          HistoryMax   \* deliveryHistoryMax

ASSUME DeliveryTrackerAssumption ==
  /\ TTL \in Nat /\ TTL >= 2          \* time.NewTicker(ttl / 2) needs ttl / 2 > 0
  /\ HistoryMax \in Nat \ {0}

VARIABLES
  entries,  \* entries[id]: the age of the entry of id, or Absent
  history,  \* the latest HistoryMax outcomes of TryRecord, oldest first
  ticker,   \* time since the ticker of cleanupLoop last fired
  tick,     \* does the channel of the ticker, of capacity one, hold a tick?
  cleanup,  \* the purge goroutine: running, told to stop, or returned
  outcome   \* what the latest call of TryRecord returned

trackerVars == <<entries, history, ticker, tick, cleanup, outcome>>

Absent == -1

Outcome == [id : DeliveryID, new : BOOLEAN]
NoCall  == [none |-> TRUE]

TrackerTypeOK ==
  /\ entries \in [DeliveryID -> Absent .. TTL]
  /\ history \in Seq(Outcome) /\ Len(history) <= HistoryMax
  /\ ticker \in 0 .. (TTL \div 2) - 1
  /\ tick \in BOOLEAN
  /\ cleanup \in {"running", "stopping", "returned"}
  /\ outcome \in Outcome \cup {NoCall}

-----------------------------------------------------------------------------
(* NewDeliveryTracker: no entry, and the purge goroutine started.          *)
TrackerInit ==
  /\ entries = [id \in DeliveryID |-> Absent]
  /\ history = <<>>
  /\ ticker = 0
  /\ tick = FALSE
  /\ cleanup = "running"
  /\ outcome = NoCall

Live(id)    == entries[id] # Absent /\ entries[id] < TTL
Expired(id) == entries[id] = TTL

Mut_AppendHistoryUntrimmed(h, o) == Append(h, o)

(* appendHistoryLocked: append, then keep the last HistoryMax.             *)
AppendHistory(h, o) ==
  LET longer == Append(h, o)
  IN  IF Len(longer) > HistoryMax
      THEN SubSeq(longer, Len(longer) - HistoryMax + 1, Len(longer))
      ELSE longer

Reply(id, new) ==
  /\ outcome' = [id |-> id, new |-> new]
  /\ history' = AppendHistory(history, [id |-> id, new |-> new])

Mut_DuplicateRenewsEntry(id) ==
  /\ Live(id)
  /\ entries' = [entries EXCEPT ![id] = 0]
  /\ Reply(id, FALSE)
  /\ UNCHANGED <<ticker, tick, cleanup>>

(* TryRecord finds an entry younger than the TTL: a duplicate.  The entry  *)
(* keeps its age.                                                          *)
TryRecordDuplicate(id) ==
  /\ Live(id)
  /\ Reply(id, FALSE)
  /\ UNCHANGED <<entries, ticker, tick, cleanup>>

(* TryRecord finds no entry, or one that has expired and was not purged.   *)
TryRecordNew(id) ==
  /\ ~ Live(id)
  /\ entries' = [entries EXCEPT ![id] = 0]
  /\ Reply(id, TRUE)
  /\ UNCHANGED <<ticker, tick, cleanup>>

TryRecord(id) == TryRecordDuplicate(id) \/ TryRecordNew(id)

Older(age) == IF age # Absent /\ age < TTL THEN age + 1 ELSE age

(* One unit of time.  The ticker fires every TTL/2, and a tick that finds  *)
(* the channel full is dropped; a ticker that was stopped fires no more.   *)
TimePasses ==
  LET fires == ticker + 1 = TTL \div 2
  IN  /\ entries' = [id \in DeliveryID |-> Older(entries[id])]
      /\ ticker' = IF fires THEN 0 ELSE ticker + 1
      /\ tick' = (tick \/ (fires /\ cleanup # "returned"))
      /\ UNCHANGED <<history, cleanup, outcome>>

Mut_PurgeNothing ==
  /\ tick
  /\ cleanup # "returned"
  /\ tick' = FALSE
  /\ UNCHANGED <<entries, history, ticker, cleanup, outcome>>

(* The loop receives a tick and calls purgeExpired.  When Stop has closed  *)
(* the other channel too, select may still choose the tick.                *)
PurgeExpired ==
  /\ tick
  /\ cleanup # "returned"
  /\ tick' = FALSE
  /\ entries' = [id \in DeliveryID |->
                   IF Expired(id) THEN Absent ELSE entries[id]]
  /\ UNCHANGED <<history, ticker, cleanup, outcome>>

(* Stop closes the channel, once: Close of the container calls it under a  *)
(* sync.Once.                                                              *)
Stop ==
  /\ cleanup = "running"
  /\ cleanup' = "stopping"
  /\ UNCHANGED <<entries, history, ticker, tick, outcome>>

CleanupReturns ==
  /\ cleanup = "stopping"
  /\ cleanup' = "returned"
  /\ tick' = FALSE
  /\ UNCHANGED <<entries, history, ticker, outcome>>

TrackerNext ==
  \/ \E id \in DeliveryID : TryRecordDuplicate(id) \/ TryRecordNew(id)
  \/ TimePasses
  \/ PurgeExpired
  \/ Stop
  \/ CleanupReturns

TrackerSpec == TrackerInit /\ [][TrackerNext]_trackerVars

(* The clock runs and the purge goroutine is scheduled; nothing obliges    *)
(* GitHub to deliver.                                                      *)
TrackerFairSpec ==
  /\ TrackerSpec
  /\ WF_trackerVars(TimePasses)
  /\ WF_trackerVars(PurgeExpired)
  /\ WF_trackerVars(CleanupReturns)

-----------------------------------------------------------------------------
(* TryRecord keeps the promise of OncePerWindow: an ID accepted once is    *)
(* refused for a whole TTL, whatever the purge goroutine does in between,  *)
(* and a duplicate never prolongs the refusal.  An absent entry stands for *)
(* an ID whose window is over.                                             *)
Window == INSTANCE OncePerWindow WITH
            Window  <- TTL,
            since   <- [id \in DeliveryID |->
                          IF entries[id] = Absent THEN TTL ELSE entries[id]],
            verdict <- outcome

ImplementsOncePerWindow == Window!Spec

(* The map does not grow for ever: an expired entry leaves it, or is       *)
(* renewed by a new delivery, unless the tracker is being stopped.         *)
ExpiredEntriesLeave ==
  \A id \in DeliveryID :
    Expired(id) ~> (~ Expired(id) \/ cleanup # "running")
=============================================================================

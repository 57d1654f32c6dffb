----------------------------- MODULE ExpiryProofs -----------------------------
(***************************************************************************)
(* What the service remembers for a limited time: the delivery IDs of      *)
(* DeliveryTracker and the tokens of GitHubAccess.                         *)
(*                                                                         *)
(* For every set of delivery IDs, every TTL and every history length, the  *)
(* tracker is well typed and implements OncePerWindow.  For any goroutines,*)
(* organizations and times within the assumption, GitHubAccess is well     *)
(* typed, and no token expires before the work it was taken for is over.   *)
(***************************************************************************)
EXTENDS DeliveryTracker, GitHubAccess, TLAPS

-----------------------------------------------------------------------------
(* The delivery tracker.                                                   *)

(* One unit of time keeps an age in its range.                             *)
LEMMA OlderInRange ==
  ASSUME NEW a \in Absent .. TTL
  PROVE  Older(a) \in Absent .. TTL
BY DeliveryTrackerAssumption DEF Older, Absent

(* appendHistoryLocked never lets the ring outgrow HistoryMax.             *)
LEMMA AppendHistoryBounded ==
  ASSUME NEW h \in Seq(Outcome), Len(h) <= HistoryMax, NEW o \in Outcome
  PROVE  /\ AppendHistory(h, o) \in Seq(Outcome)
         /\ Len(AppendHistory(h, o)) <= HistoryMax
<1> DEFINE longer == Append(h, o)
<1>1. longer \in Seq(Outcome) /\ Len(longer) = Len(h) + 1
  OBVIOUS
<1>2. CASE Len(longer) > HistoryMax
  <2>1. Len(longer) = HistoryMax + 1
    BY <1>1, <1>2, DeliveryTrackerAssumption
  <2>2. AppendHistory(h, o) = SubSeq(longer, 2, HistoryMax + 1)
    BY <2>1, <1>2, DeliveryTrackerAssumption DEF AppendHistory
  <2>3. AppendHistory(h, o) \in Seq(Outcome)
    <3>1. SubSeq(longer, 2, HistoryMax + 1) \in Seq(Outcome)
      BY <1>1, <2>1, DeliveryTrackerAssumption
    <3>. QED  BY <3>1, <2>2, Zenon
  <2>4. Len(AppendHistory(h, o)) = HistoryMax
    <3>1. Len(SubSeq(longer, 2, HistoryMax + 1)) = HistoryMax
      BY <1>1, <2>1, DeliveryTrackerAssumption
    <3>. QED  BY <3>1, <2>2, Zenon
  <2>. QED  BY <2>3, <2>4, DeliveryTrackerAssumption
<1>3. CASE Len(longer) <= HistoryMax
  BY <1>1, <1>3, DeliveryTrackerAssumption DEF AppendHistory
<1>. QED  BY <1>1, <1>2, <1>3, DeliveryTrackerAssumption

-----------------------------------------------------------------------------
(* What every call of TryRecord leaves behind is well typed.               *)
LEMMA ReplyTyped ==
  ASSUME TrackerTypeOK, NEW id \in DeliveryID, NEW new \in BOOLEAN, Reply(id, new)
  PROVE  /\ outcome' \in Outcome
         /\ history' \in Seq(Outcome) /\ Len(history') <= HistoryMax
<1>1. [id |-> id, new |-> new] \in Outcome
  BY DEF Outcome
<1>. QED  BY <1>1, AppendHistoryBounded DEF TrackerTypeOK, Reply

(* The type invariant: ages within the TTL, the ring within its bound.     *)
THEOREM TrackerTypeCorrect == TrackerSpec => []TrackerTypeOK
<1>1. TrackerInit => TrackerTypeOK
  <2> SUFFICES ASSUME TrackerInit  PROVE TrackerTypeOK
    OBVIOUS
  <2>1. entries \in [DeliveryID -> Absent .. TTL]
    BY DeliveryTrackerAssumption DEF TrackerInit, Absent
  <2>2. ticker \in 0 .. (TTL \div 2) - 1
    BY DeliveryTrackerAssumption DEF TrackerInit
  <2>3. history \in Seq(Outcome) /\ Len(history) <= HistoryMax
    BY DeliveryTrackerAssumption DEF TrackerInit
  <2>. QED  BY <2>1, <2>2, <2>3 DEF TrackerInit, TrackerTypeOK, NoCall
<1>2. TrackerTypeOK /\ [TrackerNext]_trackerVars => TrackerTypeOK'
  <2> SUFFICES ASSUME TrackerTypeOK, [TrackerNext]_trackerVars  PROVE TrackerTypeOK'
    OBVIOUS
  <2>1. ASSUME NEW id \in DeliveryID, TryRecordDuplicate(id)  PROVE TrackerTypeOK'
    BY <2>1, ReplyTyped DEF TrackerTypeOK, TryRecordDuplicate
  <2>2. ASSUME NEW id \in DeliveryID, TryRecordNew(id)  PROVE TrackerTypeOK'
    <3>1. entries' \in [DeliveryID -> Absent .. TTL]
      BY <2>2, DeliveryTrackerAssumption DEF TrackerTypeOK, TryRecordNew, Absent
    <3>. QED  BY <2>2, <3>1, ReplyTyped DEF TrackerTypeOK, TryRecordNew
  <2>3. CASE TimePasses
    <3>1. entries' \in [DeliveryID -> Absent .. TTL]
      BY <2>3, OlderInRange DEF TrackerTypeOK, TimePasses
    <3>2. ticker' \in 0 .. (TTL \div 2) - 1
      BY <2>3, DeliveryTrackerAssumption DEF TrackerTypeOK, TimePasses
    <3>3. tick' \in BOOLEAN
      BY <2>3 DEF TrackerTypeOK, TimePasses
    <3>. QED  BY <2>3, <3>1, <3>2, <3>3 DEF TrackerTypeOK, TimePasses
  <2>4. CASE PurgeExpired
    <3>1. entries' \in [DeliveryID -> Absent .. TTL]
      BY <2>4, DeliveryTrackerAssumption DEF TrackerTypeOK, PurgeExpired, Absent
    <3>. QED  BY <2>4, <3>1 DEF TrackerTypeOK, PurgeExpired
  <2>5. CASE Stop
    BY <2>5 DEF TrackerTypeOK, Stop
  <2>6. CASE CleanupReturns
    BY <2>6 DEF TrackerTypeOK, CleanupReturns
  <2>7. CASE UNCHANGED trackerVars
    BY <2>7 DEF TrackerTypeOK, trackerVars
  <2>. QED  BY <2>1, <2>2, <2>3, <2>4, <2>5, <2>6, <2>7 DEF TrackerNext
<1>. QED  BY <1>1, <1>2, PTL DEF TrackerSpec

-----------------------------------------------------------------------------
Since == [id \in DeliveryID |->
            IF entries[id] = Absent THEN TTL ELSE entries[id]]

(* Every behaviour of the tracker is one of OncePerWindow: no purge, clock *)
(* reading or duplicate lets an ID through before its window is over.      *)
THEOREM Deduplicates == TrackerSpec => ImplementsOncePerWindow
<1>1. TrackerInit => Window!Init
  BY DEF TrackerInit, Window!Init, NoCall
<1>2. TrackerTypeOK /\ [TrackerNext]_trackerVars => [Window!Next]_(Window!vars)
  <2> SUFFICES ASSUME TrackerTypeOK, [TrackerNext]_trackerVars  PROVE [Window!Next]_(Window!vars)
    OBVIOUS
  <2>1. ASSUME NEW id \in DeliveryID, TryRecordDuplicate(id)
        PROVE  Window!TurnAway(id)
    BY <2>1 DEF TrackerTypeOK, TryRecordDuplicate, Reply, Live, Window!TurnAway
  <2>2. ASSUME NEW id \in DeliveryID, TryRecordNew(id)
        PROVE  Window!LetThrough(id)
    <3>1. Since[id] = TTL
      <4>1. entries[id] \in Absent .. TTL
        BY DEF TrackerTypeOK
      <4>2. entries[id] = Absent \/ entries[id] = TTL
        BY <2>2, <4>1, DeliveryTrackerAssumption DEF TryRecordNew, Live, Absent
      <4>. QED  BY <4>2 DEF Since
    <3>2. ASSUME NEW x \in DeliveryID
          PROVE  Since'[x] = IF x = id THEN 0 ELSE Since[x]
      BY <2>2 DEF TrackerTypeOK, TryRecordNew, Since, Absent
    <3>3. Since' = [Since EXCEPT ![id] = 0]
      BY <3>2 DEF Since
    <3>. QED  BY <2>2, <3>1, <3>3
              DEF TryRecordNew, Reply, Window!LetThrough, Since
  <2>3. CASE TimePasses
    <3>1. ASSUME NEW id \in DeliveryID
          PROVE  Since'[id] = IF Since[id] < TTL THEN Since[id] + 1 ELSE TTL
      BY <2>3, DeliveryTrackerAssumption
      DEF TrackerTypeOK, TimePasses, Older, Since, Absent
    <3>2. Since' = [id \in DeliveryID |->
                      IF Since[id] < TTL THEN Since[id] + 1 ELSE TTL]
      BY <3>1 DEF Since
    <3>. QED  BY <2>3, <3>2 DEF TimePasses, Window!Next, Window!TimePasses, Since
  <2>4. CASE PurgeExpired
    <3>1. Since' = Since
      BY <2>4, DeliveryTrackerAssumption
      DEF TrackerTypeOK, PurgeExpired, Expired, Since, Absent
    <3>. QED  BY <2>4, <3>1 DEF PurgeExpired, Window!vars, Since
  <2>5. CASE Stop
    <3>1. Since' = Since
      BY <2>5 DEF Stop, Since
    <3>. QED  BY <2>5, <3>1 DEF Stop, Window!vars, Since
  <2>6. CASE CleanupReturns
    <3>1. Since' = Since
      BY <2>6 DEF CleanupReturns, Since
    <3>. QED  BY <2>6, <3>1 DEF CleanupReturns, Window!vars, Since
  <2>7. CASE UNCHANGED trackerVars
    BY <2>7 DEF trackerVars, Window!vars
  <2>. QED  BY <2>1, <2>2, <2>3, <2>4, <2>5, <2>6, <2>7 DEF TrackerNext, Window!Next
<1>. QED  BY <1>1, <1>2, TrackerTypeCorrect, PTL
          DEF TrackerSpec, ImplementsOncePerWindow, Window!Spec

-----------------------------------------------------------------------------
(* Tokens, deadlines and waits.                                            *)

HasToken == {"issued", "ready", "sent", "waiting", "resent"}

LEMMA Times ==
  /\ TokenLife \in Nat /\ Margin \in Nat /\ Deadline \in Nat /\ JwtCache \in Nat /\ MaxWait \in Nat
  /\ 0 < Deadline /\ Deadline <= Margin /\ Margin <= TokenLife /\ 0 < MaxWait
  /\ 0 \in 0 .. JwtCache /\ 0 \in 0 .. TokenLife /\ 0 \in 0 .. Deadline /\ 0 \in 0 .. MaxWait
  /\ JwtCache \in 0 .. JwtCache /\ TokenLife \in 0 .. TokenLife /\ Deadline \in 0 .. Deadline
  BY GitHubAccessAssumption

LEMMA LessFacts ==
  ASSUME NEW n \in Nat, NEW k \in 0 .. n
  PROVE  /\ Less(k) \in 0 .. n /\ Less(k) <= k
         /\ \A j \in Nat : j <= k => Less(j) <= Less(k)
  BY DEF Less

(* A step that takes one goroutine from one place to another.              *)
LEMMA Moves ==
  ASSUME TypeOK, NEW c \in Caller, NEW from, NEW to \in Place, Goes(c, from, to)
  PROVE  /\ pc[c] = from /\ pc'[c] = to /\ pc' \in [Caller -> Place]
         /\ \A d \in Caller : d # c => pc'[d] = pc[d]
  BY DEF TypeOK, Goes

LEMMA TypeStep == TypeOK /\ [Next]_vars => TypeOK'
<1> SUFFICES ASSUME TypeOK, [Next]_vars PROVE TypeOK'
  OBVIOUS
<1> USE DEF TypeOK
<1>1. ASSUME NEW c \in Caller, Begin(c) PROVE TypeOK'
  BY <1>1, Times, Moves DEF Begin, Place
<1>2. ASSUME NEW c \in Caller, Drop(c) PROVE TypeOK'
  <2>1. CASE Goes(c, "working", "idle")
    BY <1>2, <2>1, Times, Moves DEF Drop, Place
  <2>2. CASE Goes(c, "ready", "working")
    BY <1>2, <2>2, Times, Moves DEF Drop, Place
  <2> QED
    BY <1>2, <2>1, <2>2 DEF Drop
<1>3. ASSUME UseJWT PROVE jwt' \in 0 .. JwtCache
  BY <1>3, Times DEF UseJWT
<1>4. ASSUME NEW c \in Caller, ExchangeJWT(c) PROVE TypeOK'
  BY <1>3, <1>4, Moves DEF ExchangeJWT, Place
<1>5. ASSUME NEW c \in Caller, Issue(c) PROVE TypeOK'
  BY <1>5, Times, Moves DEF Issue, Place
<1>6. ASSUME NEW c \in Caller, StoreToken(c) PROVE TypeOK'
  BY <1>6, Moves DEF StoreToken, Place
<1>7. ASSUME NEW c \in Caller, NoClient(c) PROVE TypeOK'
  BY <1>7, Times DEF NoClient, Place
<1>8. ASSUME NEW c \in Caller, Send(c) PROVE TypeOK'
  BY <1>8, Moves DEF Send, Place
<1>9. ASSUME NEW c \in Caller, Retry(c) PROVE TypeOK'
  BY <1>9, Moves DEF Retry, Place
<1>10. ASSUME NEW c \in Caller, GiveUp(c) PROVE TypeOK'
  BY <1>10, Times, Moves DEF GiveUp, Place
<1>11. ASSUME NEW c \in Caller, Answer(c) PROVE TypeOK'
  BY <1>11 DEF Answer, Place
<1>12. ASSUME NEW c \in Caller, NEW o \in Org, CachedToken(c, o) PROVE TypeOK'
  BY <1>12, Moves DEF CachedToken, Place
<1>13. ASSUME NEW c \in Caller, NEW o \in Org, FindInstallation(c, o) PROVE TypeOK'
  BY <1>3, <1>13, Moves DEF FindInstallation, Place
<1>14. ASSUME NEW c \in Caller, NEW d \in 1 .. MaxWait, RateLimited(c, d) PROVE TypeOK'
  <2>1. d \in 0 .. MaxWait
    BY Times
  <2> QED
    BY <1>14, <2>1, Moves DEF RateLimited, Place
<1>15. CASE Tick
  BY <1>15, Times, LessFacts DEF Tick
<1>16. CASE UNCHANGED vars
  BY <1>16 DEF vars
<1> QED
  BY <1>1, <1>2, <1>4, <1>5, <1>6, <1>7, <1>8, <1>9, <1>10, <1>11, <1>12, <1>13, <1>14, <1>15, <1>16
  DEF Next

(* Tokens, deadlines and waits stay within their bounds, and whoever has a *)
(* client or is after one knows its organization.                          *)
THEOREM AccessTypeCorrect == Spec => []TypeOK
<1>1. Init => TypeOK
  BY Times DEF Init, TypeOK, Place
<1>2. TypeOK /\ [Next]_vars => TypeOK'
  BY TypeStep
<1> QED
  BY <1>1, <1>2, PTL DEF Spec

-----------------------------------------------------------------------------
LEMMA TokenStep == TypeOK /\ TokenOutlivesContext /\ [Next]_vars => TokenOutlivesContext'
<1> SUFFICES ASSUME TypeOK, TokenOutlivesContext, [Next]_vars,
                    NEW c \in Caller, pc'[c] \in HasToken
             PROVE  token'[c] >= left'[c]
  BY DEF TokenOutlivesContext, HasToken
<1> USE DEF TypeOK, HasToken
<1>1. left[c] \in 0 .. Deadline /\ token[c] \in 0 .. TokenLife /\ left[c] <= Margin /\ left[c] <= TokenLife
  BY Times
<1>2. ASSUME pc[c] \in HasToken, token'[c] = token[c], left'[c] = left[c]
      PROVE  token'[c] >= left'[c]
  BY <1>2 DEF TokenOutlivesContext
<1>3. ASSUME NEW d \in Caller, NEW from, NEW to \in Place, Goes(d, from, to),
             d = c => to \notin HasToken,
             \A e \in Caller : e # d => token'[e] = token[e] /\ left'[e] = left[e]
      PROVE  token'[c] >= left'[c]
  BY <1>2, <1>3, Moves
<1>4. ASSUME NEW d \in Caller, NEW from \in HasToken, NEW to \in Place, Goes(d, from, to),
             UNCHANGED <<token, left>>
      PROVE  token'[c] >= left'[c]
  BY <1>2, <1>4, Moves
<1>5. ASSUME NEW d \in Caller, Begin(d) PROVE token'[c] >= left'[c]
  BY <1>3, <1>5 DEF Begin, Place
<1>6. ASSUME NEW d \in Caller, Drop(d) PROVE token'[c] >= left'[c]
  BY <1>3, <1>6 DEF Drop, Place
<1>7. ASSUME NEW d \in Caller, ExchangeJWT(d) PROVE token'[c] >= left'[c]
  BY <1>3, <1>7 DEF ExchangeJWT, Place
<1>8. ASSUME NEW d \in Caller, Issue(d) PROVE token'[c] >= left'[c]
  <2>1. CASE d = c
    BY <1>1, <1>8, <2>1, Times DEF Issue
  <2>2. CASE d # c
    BY <1>2, <1>8, <2>2, Moves DEF Issue, Place
  <2> QED
    BY <2>1, <2>2
<1>9. ASSUME NEW d \in Caller, StoreToken(d) PROVE token'[c] >= left'[c]
  BY <1>4, <1>9 DEF StoreToken, Place
<1>10. ASSUME NEW d \in Caller, NoClient(d) PROVE token'[c] >= left'[c]
  <2>1. d # c /\ pc[c] = pc'[c]
    BY <1>10 DEF NoClient
  <2> QED
    BY <1>2, <1>10, <2>1 DEF NoClient
<1>11. ASSUME NEW d \in Caller, Send(d) PROVE token'[c] >= left'[c]
  BY <1>4, <1>11 DEF Send, Place
<1>12. ASSUME NEW d \in Caller, Retry(d) PROVE token'[c] >= left'[c]
  BY <1>4, <1>12 DEF Retry, Place
<1>13. ASSUME NEW d \in Caller, GiveUp(d) PROVE token'[c] >= left'[c]
  BY <1>4, <1>13 DEF GiveUp, Place
<1>14. ASSUME NEW d \in Caller, Answer(d) PROVE token'[c] >= left'[c]
  <2>1. pc[c] \in HasToken
    BY <1>14 DEF Answer
  <2> QED
    BY <1>2, <1>14, <2>1 DEF Answer
<1>15. ASSUME NEW d \in Caller, NEW o \in Org, CachedToken(d, o) PROVE token'[c] >= left'[c]
  <2>1. CASE d = c
    <3>1. token'[c] = cache[o] /\ left'[c] = left[c] /\ cache[o] >= Margin
      BY <1>15, <2>1 DEF CachedToken, Usable
    <3> QED
      BY <1>1, <3>1, Times
  <2>2. CASE d # c
    BY <1>2, <1>15, <2>2, Moves DEF CachedToken, Place
  <2> QED
    BY <2>1, <2>2
<1>16. ASSUME NEW d \in Caller, NEW o \in Org, FindInstallation(d, o) PROVE token'[c] >= left'[c]
  BY <1>3, <1>16 DEF FindInstallation, Place
<1>17. ASSUME NEW d \in Caller, NEW n \in 1 .. MaxWait, RateLimited(d, n) PROVE token'[c] >= left'[c]
  BY <1>4, <1>17 DEF RateLimited, Place
<1>18. CASE Tick
  <2>1. token[c] >= left[c] /\ token'[c] = Less(token[c]) /\ left'[c] = Less(left[c])
    BY <1>18 DEF Tick, TokenOutlivesContext
  <2> QED
    BY <1>1, <2>1, Times DEF Less
<1>19. CASE UNCHANGED vars
  BY <1>2, <1>19 DEF vars
<1> QED
  BY <1>5, <1>6, <1>7, <1>8, <1>9, <1>10, <1>11, <1>12, <1>13, <1>14, <1>15, <1>16, <1>17, <1>18, <1>19
  DEF Next

(* A client never outlives its token: whenever it was taken, and however   *)
(* long requests wait, the context of the goroutine ends first.            *)
THEOREM TokensOutlive == Spec => []TokenOutlivesContext
<1>1. Init => TokenOutlivesContext
  BY DEF Init, TokenOutlivesContext
<1>2. TypeOK /\ TokenOutlivesContext /\ [Next]_vars => TokenOutlivesContext'
  BY TokenStep
<1> QED
  BY <1>1, <1>2, AccessTypeCorrect, PTL DEF Spec
=============================================================================

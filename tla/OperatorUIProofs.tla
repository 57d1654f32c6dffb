--------------------------- MODULE OperatorUIProofs ---------------------------
(***************************************************************************)
(* OperatorUI is well typed, keeps replays of one pull request apart, and  *)
(* shows, hides and replays by what was true within the window, for any    *)
(* users, requests, repositories and times.                                *)
(*                                                                         *)
(* The argument for the window: every belief a request may act on, be it   *)
(* on its way, cached or noted by the request, was true so long ago, or    *)
(* could not be looked up then; the bound grows with the clock as the      *)
(* entry and the request grow older.                                       *)
(***************************************************************************)
EXTENDS OperatorUI, TLAPS

Granted(says) == says \in {"operator", "read"}

(* u has x or not, as believed; or that changed, or x could not be looked  *)
(* up, no more than n ago.                                                 *)
Truth(u, x, yes, n) == (x \in has[u] <=> yes) \/ since[u][x] <= n

(* Where the age of a request stands for what is known to it.              *)
Noted(q) == MaxRequest + TTL - 1 + age[q]

AnswersTrue ==
  \A q \in Request : pc[q] = "asking" =>
    Truth(UserOf[q], about[q], Granted(answer[q]), age[q])

CacheTrue ==
  \A u \in User, x \in Thing : cache[u][x].left > 0 =>
    Truth(u, x, Granted(cache[u][x].says), MaxRequest + TTL - cache[u][x].left)

RolesTrue ==
  \A q \in Request : role[q] # "denied" =>
    Truth(UserOf[q], Admin, role[q] = "operator", Noted(q))

KnownTrue ==
  \A q \in Request : \A x \in known[q] : Truth(UserOf[q], x, x \in ok[q], Noted(q))

(* Roles come from what is said of the right of an operator.               *)
RoleSays == {"operator", "writer", "denied"}
Sorted ==
  /\ \A u \in User : cache[u][Admin].says \in RoleSays
  /\ \A u \in User, r \in Repo : cache[u][r].says \in {"read", "denied"}
  /\ \A q \in Request : pc[q] = "asking" =>
       answer[q] \in IF about[q] = Admin THEN RoleSays ELSE {"read", "denied"}

Phases ==
  \A q \in Request :
    /\ pc[q] \in {"idle", "running"} =>
         role[q] = "denied" /\ known[q] = {} /\ ok[q] = {} /\ age[q] = 0
    /\ pc[q] = "asking" /\ about[q] = Admin => role[q] = "denied" /\ known[q] = {}
    /\ pc[q] = "asking" /\ about[q] # Admin => role[q] # "denied"
    /\ pc[q] \in {"open", "fetching"} => role[q] # "denied"

IInv ==
  /\ TypeOK
  /\ AnswersTrue
  /\ CacheTrue
  /\ RolesTrue
  /\ KnownTrue
  /\ Sorted
  /\ Phases

(* TypeOK without the guard of the replays.                                *)
Typed ==
  /\ has \in [User -> SUBSET Thing]
  /\ since \in [User -> [Thing -> 0 .. Window]]
  /\ cache \in [User -> [Thing -> [says : Says, left : 0 .. TTL]]]
  /\ pc \in [Request -> Place]
  /\ role \in [Request -> {"operator", "writer", "denied"}]
  /\ about \in [Request -> Thing]
  /\ answer \in [Request -> Says]
  /\ known \in [Request -> SUBSET Repo]
  /\ ok \in [Request -> SUBSET Repo]
  /\ age \in [Request -> 0 .. MaxRequest]
  /\ \A q \in Request : ok[q] \subseteq known[q]
  /\ \A q \in Request : pc[q] \in {"fetching", "running"} => about[q] \in Repo

Beliefs == AnswersTrue /\ CacheTrue /\ RolesTrue /\ KnownTrue /\ Sorted /\ Phases

LEMMA Split == IInv <=> Typed /\ Beliefs /\ inFlight \in SUBSET Repo
  BY DEF IInv, TypeOK, Typed, Beliefs

LEMMA SplitPrimed == IInv' <=> Typed' /\ Beliefs' /\ inFlight' \in SUBSET Repo
  BY DEF IInv, TypeOK, Typed, Beliefs

LEMMA Times ==
  /\ TTL \in Nat /\ TTL > 0 /\ MaxRequest \in Nat /\ Window \in Nat
  /\ Window = TTL + 2 * MaxRequest
  BY OperatorUIAssumption DEF Window

LEMMA InitIInv == Init => IInv
<1> SUFFICES ASSUME Init PROVE IInv
  OBVIOUS
<1>1. TypeOK
  BY Times DEF Init, TypeOK, Thing, NoEntry, Says, Place
<1>2. AnswersTrue /\ CacheTrue /\ RolesTrue /\ KnownTrue
  BY DEF Init, AnswersTrue, CacheTrue, RolesTrue, KnownTrue, NoEntry, Thing
<1>3. Sorted /\ Phases
  BY DEF Init, Sorted, Phases, NoEntry, Thing, RoleSays
<1> QED
  BY <1>1, <1>2, <1>3 DEF IInv

-----------------------------------------------------------------------------
(* What a request is told is noted as true as it was.                      *)
LEMMA LearnKeeps ==
  ASSUME IInv, NEW q \in Request, NEW x \in Thing, NEW says,
         Learn(q, x, says), UNCHANGED <<has, since>>,
         says \in IF x = Admin THEN RoleSays ELSE {"read", "denied"},
         x = Admin => role[q] = "denied" /\ known[q] = {} /\ ok[q] = {},
         x # Admin => role[q] # "denied",
         Truth(UserOf[q], x, Granted(says), Noted(q))
  PROVE  /\ (cache' \in [User -> [Thing -> [says : Says, left : 0 .. TTL]]]) => Typed'
         /\ AnswersTrue' /\ RolesTrue' /\ KnownTrue' /\ Phases'
         /\ \A p \in Request : pc'[p] = "asking" => pc[p] = "asking" /\ p # q
<1>1. Typed
  BY Split
<1>2. (cache' \in [User -> [Thing -> [says : Says, left : 0 .. TTL]]]) => Typed'
  <2> SUFFICES ASSUME cache' \in [User -> [Thing -> [says : Says, left : 0 .. TTL]]]
               PROVE  Typed'
    OBVIOUS
  <2>1. has' \in [User -> SUBSET Thing] /\ since' \in [User -> [Thing -> 0 .. Window]]
    BY <1>1 DEF Typed
  <2>2. about' \in [Request -> Thing] /\ answer' \in [Request -> Says]
    BY <1>1 DEF Typed, Learn, Thing, Says
  <2>3. /\ pc' \in [Request -> Place]
        /\ age' \in [Request -> 0 .. MaxRequest]
    <3>1. PICK to \in {"idle", "open"} : pc' = [pc EXCEPT ![q] = to]
      BY DEF Learn
    <3>2. age' = age \/ age' = [age EXCEPT ![q] = 0] \/ age' = [age EXCEPT ![q] = age[q]]
      BY DEF Learn
    <3>3. 0 \in 0 .. MaxRequest /\ age[q] \in 0 .. MaxRequest
      BY <1>1, Times DEF Typed
    <3>4. pc' \in [Request -> Place]
      BY <1>1, <3>1 DEF Typed, Place
    <3> QED
      BY <1>1, <3>2, <3>3, <3>4 DEF Typed
  <2>4. role' \in [Request -> {"operator", "writer", "denied"}]
    BY <1>1 DEF Typed, Learn, RoleSays
  <2>5. /\ known' \in [Request -> SUBSET Repo] /\ ok' \in [Request -> SUBSET Repo]
        /\ \A p \in Request : ok'[p] \subseteq known'[p]
    <3>1. CASE x = Admin
      BY <1>1, <3>1 DEF Typed, Learn
    <3>2. CASE x # Admin
      <4>1. x \in Repo
        BY <3>2 DEF Thing
      <4>2. /\ known' = [known EXCEPT ![q] = known[q] \cup {x}]
            /\ ok' = [ok EXCEPT ![q] = IF says = "read" THEN ok[q] \cup {x} ELSE ok[q]]
        BY <3>2 DEF Learn
      <4> QED
        BY <1>1, <4>1, <4>2 DEF Typed
    <3> QED
      BY <3>1, <3>2
  <2>6. \A p \in Request : pc'[p] \in {"fetching", "running"} => about'[p] \in Repo
    BY <1>1 DEF Typed, Learn
  <2> QED
    BY <2>1, <2>2, <2>3, <2>4, <2>5, <2>6 DEF Typed
<1>3. \A p \in Request : pc'[p] = "asking" => pc[p] = "asking" /\ p # q
  BY <1>1 DEF Typed, Learn
<1>4. AnswersTrue'
  <2>1. \A p \in Request : p # q => about'[p] = about[p] /\ answer'[p] = answer[p] /\ age'[p] = age[p]
    BY <1>1 DEF Typed, Learn
  <2> QED
    BY <1>3, <2>1 DEF IInv, AnswersTrue, Truth
<1>5. RolesTrue'
  <2> SUFFICES ASSUME NEW p \in Request, role'[p] # "denied"
               PROVE  Truth(UserOf[p], Admin, role[p] = "operator", Noted(p))'
    BY DEF RolesTrue
  <2>1. CASE p = q /\ x = Admin
    <3>1. role'[p] = says /\ age'[p] = age[p]
      BY <1>1, <2>1 DEF Typed, Learn
    <3>2. says \in RoleSays
      BY <2>1
    <3> QED
      BY <2>1, <3>1, <3>2 DEF Truth, Granted, Noted, RoleSays
  <2>2. CASE p # q \/ x # Admin
    <3>1. role'[p] = role[p] /\ age'[p] = age[p]
      BY <1>1, <2>2 DEF Typed, Learn
    <3> QED
      BY <3>1 DEF IInv, RolesTrue, Truth, Noted
  <2> QED
    BY <2>1, <2>2
<1>6. KnownTrue'
  <2> SUFFICES ASSUME NEW p \in Request, NEW y \in known'[p]
               PROVE  Truth(UserOf[p], y, y \in ok[p], Noted(p))'
    BY DEF KnownTrue
  <2>1. CASE p = q /\ y = x /\ x # Admin
    <3>1. age'[p] = age[p] /\ ok'[p] = IF says = "read" THEN ok[p] \cup {x} ELSE ok[p]
      BY <1>1, <2>1 DEF Typed, Learn
    <3>2. CASE x \notin known[q]
      <4>1. x \notin ok[q]
        BY <1>1, <3>2 DEF Typed
      <4>2. says \in {"read", "denied"}
        BY <2>1
      <4>3. (y \in ok'[p]) <=> says = "read"
        BY <2>1, <3>1, <4>1
      <4>4. Granted(says) <=> says = "read"
        BY <4>2 DEF Granted
      <4> QED
        BY <2>1, <3>1, <4>3, <4>4 DEF Truth, Noted
    <3>3. CASE x \in known[q]
      <4>1. Truth(UserOf[q], x, x \in ok[q], Noted(q))
        BY <3>3 DEF IInv, KnownTrue
      <4>2. says \in {"read", "denied"}
        BY <2>1
      <4>3. (y \in ok'[p]) <=> says = "read" \/ x \in ok[q]
        BY <2>1, <3>1
      <4>4. Granted(says) <=> says = "read"
        BY <4>2 DEF Granted
      <4> QED
        BY <2>1, <3>1, <4>1, <4>3, <4>4 DEF Truth, Noted
    <3> QED
      BY <3>2, <3>3
  <2>2. CASE ~ (p = q /\ y = x /\ x # Admin)
    <3>1. y \in known[p]
      BY <1>1, <2>2 DEF Typed, Learn
    <3>2. age'[p] = age[p]
      <4>1. CASE p = q /\ x = Admin
        BY <3>1, <4>1
      <4>2. CASE p # q \/ x # Admin
        BY <1>1, <4>2 DEF Typed, Learn
      <4> QED
        BY <4>1, <4>2
    <3>3. (y \in ok'[p]) <=> y \in ok[p]
      BY <1>1, <2>2 DEF Typed, Learn
    <3>4. Truth(UserOf[p], y, y \in ok[p], Noted(p))
      BY <3>1 DEF IInv, KnownTrue
    <3> QED
      BY <3>2, <3>3, <3>4 DEF Truth, Noted
  <2> QED
    BY <2>1, <2>2
<1>7. Phases'
  <2> SUFFICES ASSUME NEW p \in Request
               PROVE
       /\ pc'[p] \in {"idle", "running"} =>
            role'[p] = "denied" /\ known'[p] = {} /\ ok'[p] = {} /\ age'[p] = 0
       /\ pc'[p] = "asking" /\ about'[p] = Admin => role'[p] = "denied" /\ known'[p] = {}
       /\ pc'[p] = "asking" /\ about'[p] # Admin => role'[p] # "denied"
       /\ pc'[p] \in {"open", "fetching"} => role'[p] # "denied"
    BY DEF Phases
  <2>1. CASE p # q
    BY <1>1, <2>1 DEF Typed, Learn, IInv, Phases
  <2>2. CASE p = q /\ x = Admin
    BY <1>1, <2>2 DEF Typed, Learn
  <2>3. CASE p = q /\ x # Admin
    BY <1>1, <2>3 DEF Typed, Learn
  <2> QED
    BY <2>1, <2>2, <2>3
<1> QED
  BY <1>2, <1>3, <1>4, <1>5, <1>6, <1>7

(* A request that ends leaves nothing behind.                              *)
LEMMA EndsKeeps ==
  ASSUME IInv, NEW q \in Request, Ends(q)
  PROVE  Typed' /\ Beliefs'
<1>1. Typed
  BY Split
<1>2. Typed'
  <2>1. 0 \in 0 .. MaxRequest /\ Admin \in Thing
    BY Times DEF Thing
  <2>2. pc' \in [Request -> Place] /\ role' \in [Request -> {"operator", "writer", "denied"}]
    BY <1>1 DEF Typed, Ends, Place
  <2>3. about' \in [Request -> Thing] /\ age' \in [Request -> 0 .. MaxRequest]
    BY <1>1, <2>1 DEF Typed, Ends
  <2>4. /\ known' \in [Request -> SUBSET Repo] /\ ok' \in [Request -> SUBSET Repo]
        /\ \A p \in Request : ok'[p] \subseteq known'[p]
    BY <1>1 DEF Typed, Ends
  <2>5. \A p \in Request : pc'[p] \in {"fetching", "running"} => about'[p] \in Repo
    BY <1>1 DEF Typed, Ends
  <2> QED
    BY <1>1, <2>2, <2>3, <2>4, <2>5 DEF Typed, Ends
<1>3. \A p \in Request : p # q =>
        /\ pc'[p] = pc[p] /\ role'[p] = role[p] /\ known'[p] = known[p]
        /\ ok'[p] = ok[p] /\ age'[p] = age[p] /\ about'[p] = about[p]
  BY <1>1 DEF Typed, Ends
<1>4. /\ pc'[q] = "idle" /\ role'[q] = "denied" /\ known'[q] = {}
      /\ ok'[q] = {} /\ age'[q] = 0
  BY <1>1 DEF Typed, Ends
<1>5. UNCHANGED <<has, since, cache, answer>>
  BY DEF Ends
<1>6. AnswersTrue'
  BY <1>3, <1>4, <1>5 DEF IInv, AnswersTrue, Truth
<1>7. CacheTrue'
  BY <1>5 DEF IInv, CacheTrue, Truth
<1>8. RolesTrue'
  BY <1>3, <1>4, <1>5 DEF IInv, RolesTrue, Truth, Noted
<1>9. KnownTrue'
  <2> SUFFICES ASSUME NEW p \in Request, NEW y \in known'[p]
               PROVE  Truth(UserOf[p], y, y \in ok[p], Noted(p))'
    BY DEF KnownTrue
  <2>1. p # q
    BY <1>4
  <2>2. Truth(UserOf[p], y, y \in ok[p], Noted(p))
    BY <1>3, <2>1 DEF IInv, KnownTrue
  <2> QED
    BY <1>3, <1>5, <2>1, <2>2 DEF Truth, Noted
<1>10. Sorted'
  BY <1>3, <1>4, <1>5 DEF IInv, Sorted
<1>11. Phases'
  BY <1>3, <1>4 DEF IInv, Phases
<1> QED
  BY <1>2, <1>6, <1>7, <1>8, <1>9, <1>10, <1>11 DEF Beliefs

LEMMA FromCacheKeeps ==
  ASSUME IInv, NEW q \in Request, NEW x \in Thing, FromCache(q, x)
  PROVE  IInv'
<1> DEFINE u == UserOf[q]
           says == Entry(q, x).says
<1>1. Typed /\ u \in User
  BY Split, OperatorUIAssumption
<1>2. says \in IF x = Admin THEN RoleSays ELSE {"read", "denied"}
  BY <1>1 DEF IInv, Sorted, Entry, Thing
<1>3. /\ x = Admin => role[q] = "denied" /\ known[q] = {} /\ ok[q] = {}
      /\ x # Admin => role[q] # "denied"
  BY DEF IInv, Phases, FromCache, Asks
<1>4. Truth(u, x, Granted(says), Noted(q))
  <2>1. cache[u][x].left \in 1 .. TTL /\ age[q] \in Nat /\ since[u][x] \in Nat
    <3>1. cache[u][x].left > 0
      BY DEF FromCache, Hit, Entry
    <3> QED
      BY <1>1, <3>1, Times DEF Typed
  <2>2. Truth(u, x, Granted(says), MaxRequest + TTL - cache[u][x].left)
    BY <1>1, <2>1, Times DEF IInv, CacheTrue, Entry
  <2>3. MaxRequest + TTL - cache[u][x].left <= Noted(q)
    BY <2>1, Times DEF Noted
  <2>4. MaxRequest + TTL - cache[u][x].left \in Int /\ Noted(q) \in Int
    BY <2>1, Times DEF Noted
  <2> QED
    BY <2>1, <2>2, <2>3, <2>4 DEF Truth
<1>5. Learn(q, x, says) /\ UNCHANGED <<has, since, cache, inFlight>>
  BY DEF FromCache
<1>6. /\ (cache' \in [User -> [Thing -> [says : Says, left : 0 .. TTL]]]) => Typed'
      /\ AnswersTrue' /\ RolesTrue' /\ KnownTrue' /\ Phases'
      /\ \A p \in Request : pc'[p] = "asking" => pc[p] = "asking" /\ p # q
  BY <1>2, <1>3, <1>4, <1>5, LearnKeeps
<1>7. Typed'
  BY <1>1, <1>5, <1>6 DEF Typed
<1>8. CacheTrue'
  BY <1>5 DEF IInv, CacheTrue, Truth
<1>9. Sorted'
  <2>1. \A p \in Request : p # q => answer'[p] = answer[p] /\ about'[p] = about[p]
    BY <1>1, <1>5 DEF Typed, Learn
  <2> QED
    BY <1>5, <1>6, <2>1 DEF IInv, Sorted
<1> QED
  BY <1>5, <1>6, <1>7, <1>8, <1>9, Split, SplitPrimed DEF Beliefs

LEMMA StoreKeeps ==
  ASSUME IInv, NEW q \in Request, Store(q)
  PROVE  IInv'
<1> DEFINE u == UserOf[q]
           x == about[q]
           says == answer[q]
<1>1. Typed /\ u \in User /\ x \in Thing /\ pc[q] = "asking"
  BY Split, OperatorUIAssumption DEF Typed, Store
<1>2. says \in IF x = Admin THEN RoleSays ELSE {"read", "denied"}
  BY <1>1 DEF IInv, Sorted
<1>3. /\ x = Admin => role[q] = "denied" /\ known[q] = {} /\ ok[q] = {}
      /\ x # Admin => role[q] # "denied"
  BY <1>1 DEF IInv, Phases, Typed
<1>4. Truth(u, x, Granted(says), age[q])
  BY <1>1 DEF IInv, AnswersTrue
<1>5. age[q] \in 0 .. MaxRequest /\ since[u][x] \in Nat
  BY <1>1, Times DEF Typed
<1>6. Truth(u, x, Granted(says), Noted(q))
  BY <1>4, <1>5, Times DEF Truth, Noted
<1>7. Learn(q, x, says) /\ UNCHANGED <<has, since, inFlight>>
  BY DEF Store
<1>8. cache' = [cache EXCEPT ![u][x] = [says |-> says, left |-> TTL]]
  BY DEF Store, Stored
<1>9. says \in Says
  BY <1>1 DEF Typed
<1>10. cache' \in [User -> [Thing -> [says : Says, left : 0 .. TTL]]]
  BY <1>1, <1>8, <1>9, Times DEF Typed
<1>11. /\ Typed'
       /\ AnswersTrue' /\ RolesTrue' /\ KnownTrue' /\ Phases'
       /\ \A p \in Request : pc'[p] = "asking" => pc[p] = "asking" /\ p # q
  BY <1>1, <1>2, <1>3, <1>6, <1>7, <1>10, LearnKeeps
<1>12. \A v \in User, y \in Thing :
         cache'[v][y] = IF v = u /\ y = x THEN [says |-> says, left |-> TTL] ELSE cache[v][y]
  BY <1>1, <1>8 DEF Typed
<1>13. CacheTrue'
  <2> SUFFICES ASSUME NEW v \in User, NEW y \in Thing, cache'[v][y].left > 0
               PROVE  Truth(v, y, Granted(cache[v][y].says), MaxRequest + TTL - cache[v][y].left)'
    BY DEF CacheTrue
  <2>1. CASE v = u /\ y = x
    BY <1>4, <1>5, <1>7, <1>12, <2>1, Times DEF Truth
  <2>2. CASE ~ (v = u /\ y = x)
    BY <1>7, <1>12, <2>2 DEF IInv, CacheTrue, Truth
  <2> QED
    BY <2>1, <2>2
<1>14. Sorted'
  <2>1. \A p \in Request : p # q => answer'[p] = answer[p] /\ about'[p] = about[p]
    BY <1>1, <1>7 DEF Typed, Learn
  <2>2. \A v \in User : cache'[v][Admin].says \in RoleSays
    BY <1>2, <1>12 DEF IInv, Sorted, Thing
  <2>3. \A v \in User, r \in Repo : cache'[v][r].says \in {"read", "denied"}
    BY <1>2, <1>12, OperatorUIAssumption DEF IInv, Sorted, Thing
  <2> QED
    BY <1>11, <2>1, <2>2, <2>3 DEF IInv, Sorted
<1> QED
  BY <1>7, <1>11, <1>13, <1>14, Split, SplitPrimed DEF Beliefs

LEMMA AskGitHubKeeps ==
  ASSUME IInv, NEW q \in Request, NEW x \in Thing, AskGitHub(q, x)
  PROVE  IInv'
<1> DEFINE u == UserOf[q]
<1>1. Typed /\ u \in User
  BY Split, OperatorUIAssumption
<1>2. PICK says : answer' = [answer EXCEPT ![q] = says]
                  /\ says \in Replies(u, x) \cup Failures(x)
                  /\ \/ says \in Replies(u, x) /\ since' = since
                     \/ /\ says \in Failures(x)
                        /\ since' = [since EXCEPT ![u][x] = IF x \in has[u] THEN 0 ELSE @]
  BY DEF AskGitHub
<1>3. says \in IF x = Admin THEN RoleSays ELSE {"read", "denied"}
  BY <1>2 DEF Replies, Failures, RoleSays
<1>4. /\ pc' = [pc EXCEPT ![q] = "asking"] /\ about' = [about EXCEPT ![q] = x]
      /\ UNCHANGED <<has, cache, role, known, ok, age, inFlight>>
  BY DEF AskGitHub
<1>5. /\ since' \in [User -> [Thing -> 0 .. Window]]
      /\ \A v \in User, y \in Thing :
           /\ since[v][y] \in 0 .. Window
           /\ since'[v][y] = since[v][y] \/ since'[v][y] = 0
  <2>1. CASE since' = since
    BY <1>1, <2>1 DEF Typed
  <2>2. CASE since' # since
    <3>1. PICK n \in 0 .. Window : since' = [since EXCEPT ![u][x] = n] /\ n \in {0, since[u][x]}
      <4>1. 0 \in 0 .. Window /\ since[u][x] \in 0 .. Window
        BY <1>1, Times DEF Typed
      <4>2. since' = [since EXCEPT ![u][x] = IF x \in has[u] THEN 0 ELSE since[u][x]]
        BY <1>2, <2>2
      <4> QED
        BY <4>1, <4>2
    <3>2. since[u] \in [Thing -> 0 .. Window]
      BY <1>1 DEF Typed
    <3>3. since' = [since EXCEPT ![u] = [since[u] EXCEPT ![x] = n]]
      BY <3>1
    <3>4. [since[u] EXCEPT ![x] = n] \in [Thing -> 0 .. Window]
      BY <3>2
    <3>5. since' \in [User -> [Thing -> 0 .. Window]]
      BY <1>1, <3>3, <3>4 DEF Typed
    <3>6. \A v \in User, y \in Thing :
            since'[v][y] = IF v = u /\ y = x THEN n ELSE since[v][y]
      BY <1>1, <3>2, <3>3 DEF Typed
    <3> QED
      BY <1>1, <3>1, <3>5, <3>6 DEF Typed
  <2> QED
    BY <2>1, <2>2
<1>7. Typed'
  <2>1. answer' \in [Request -> Says]
    BY <1>1, <1>2, <1>3 DEF Typed, Says, RoleSays
  <2>2. pc' \in [Request -> Place] /\ about' \in [Request -> Thing]
    BY <1>1, <1>4 DEF Typed, Place
  <2>3. \A p \in Request : pc'[p] \in {"fetching", "running"} => about'[p] \in Repo
    BY <1>1, <1>4 DEF Typed
  <2> QED
    BY <1>1, <1>4, <1>5, <2>1, <2>2, <2>3 DEF Typed
<1>8. \A v \in User, y \in Thing, yes \in BOOLEAN, n \in Nat :
        Truth(v, y, yes, n) => Truth(v, y, yes, n)'
  BY <1>4, <1>5, Times DEF Truth
<1>9. Truth(u, x, Granted(says), age[q])'
  <2>1. age[q] \in Nat
    BY <1>1, Times DEF Typed
  <2>2. CASE says \in Replies(u, x)
    BY <1>4, <2>2 DEF Replies, Granted, Truth
  <2>3. CASE says \in Failures(x) /\ since' = [since EXCEPT ![u][x] = IF x \in has[u] THEN 0 ELSE @]
    <3>1. ~ Granted(says)
      BY <2>3 DEF Failures, Granted
    <3>2. x \in has[u] => since'[u][x] = 0
      BY <1>1, <2>3 DEF Typed
    <3> QED
      BY <1>4, <2>1, <3>1, <3>2 DEF Truth
  <2> QED
    BY <1>2, <2>2, <2>3
<1>10. \A p \in Request : age[p] \in Nat /\ Noted(p) \in Nat /\ UserOf[p] \in User
  BY <1>1, Times, OperatorUIAssumption DEF Typed, Noted
<1>11. AnswersTrue'
  <2> SUFFICES ASSUME NEW p \in Request, pc'[p] = "asking"
               PROVE  Truth(UserOf[p], about[p], Granted(answer[p]), age[p])'
    BY DEF AnswersTrue
  <2>1. CASE p = q
    <3>1. about'[q] = x /\ answer'[q] = says /\ age' = age
      BY <1>1, <1>2, <1>4 DEF Typed
    <3> QED
      BY <1>9, <2>1, <3>1 DEF Truth
  <2>2. CASE p # q
    <3>1. pc[p] = "asking" /\ about'[p] = about[p] /\ answer'[p] = answer[p] /\ age' = age
      BY <1>1, <1>2, <1>4, <2>2 DEF Typed
    <3>2. Truth(UserOf[p], about[p], Granted(answer[p]), age[p])
      BY <3>1 DEF IInv, AnswersTrue
    <3>3. about[p] \in Thing /\ Granted(answer[p]) \in BOOLEAN
      BY <1>1 DEF Typed, Granted
    <3> QED
      BY <1>4, <1>5, <1>10, <3>1, <3>2, <3>3 DEF Truth
  <2> QED
    BY <2>1, <2>2
<1>12. CacheTrue'
  <2> SUFFICES ASSUME NEW v \in User, NEW y \in Thing, cache[v][y].left > 0
               PROVE  Truth(v, y, Granted(cache[v][y].says), MaxRequest + TTL - cache[v][y].left)'
    BY <1>4 DEF CacheTrue
  <2>1. MaxRequest + TTL - cache[v][y].left \in Nat
    BY <1>1, Times DEF Typed
  <2>2. Truth(v, y, Granted(cache[v][y].says), MaxRequest + TTL - cache[v][y].left)
    BY DEF IInv, CacheTrue
  <2> QED
    BY <1>4, <1>5, <2>1, <2>2 DEF Truth
<1>13. RolesTrue'
  BY <1>4, <1>5, <1>10, OperatorUIAssumption DEF IInv, RolesTrue, Truth, Noted, Thing
<1>14. KnownTrue'
  <2> SUFFICES ASSUME NEW p \in Request, NEW y \in known[p]
               PROVE  Truth(UserOf[p], y, y \in ok[p], Noted(p))'
    BY <1>4 DEF KnownTrue
  <2>1. y \in Thing
    BY <1>1 DEF Typed, Thing
  <2>2. Truth(UserOf[p], y, y \in ok[p], Noted(p))
    BY DEF IInv, KnownTrue
  <2> QED
    BY <1>4, <1>5, <1>10, <2>1, <2>2 DEF Truth, Noted
<1>15. Sorted'
  BY <1>1, <1>2, <1>3, <1>4 DEF IInv, Sorted, Typed
<1>16. Phases'
  BY <1>1, <1>4 DEF IInv, Phases, Typed, AskGitHub, Asks
<1> QED
  BY <1>4, <1>7, <1>11, <1>12, <1>13, <1>14, <1>15, <1>16, Split, SplitPrimed DEF Beliefs

(* Steps of a replay, which change nothing that is believed.               *)
LEMMA ReplayKeeps ==
  ASSUME IInv, NEW q \in Request, NEW r \in Repo, Replay(q, r)
  PROVE  IInv'
<1>1. Typed /\ inFlight \in SUBSET Repo
  BY Split
<1>2. /\ pc[q] = "open" /\ pc' = [pc EXCEPT ![q] = "fetching"]
      /\ about' = [about EXCEPT ![q] = r] /\ inFlight' = inFlight \cup {r}
      /\ UNCHANGED <<has, since, cache, role, answer, known, ok, age>>
  BY DEF Replay, MayReplay
<1>3. Typed'
  BY <1>1, <1>2 DEF Typed, Place, Thing
<1>4. \A p \in Request : pc'[p] = "asking" => pc[p] = "asking" /\ about'[p] = about[p]
  BY <1>1, <1>2 DEF Typed
<1>5. AnswersTrue' /\ CacheTrue' /\ RolesTrue' /\ KnownTrue'
  BY <1>2, <1>4 DEF IInv, AnswersTrue, CacheTrue, RolesTrue, KnownTrue, Truth, Noted
<1>6. Sorted' /\ Phases'
  BY <1>1, <1>2, <1>4 DEF IInv, Sorted, Phases, Typed
<1> QED
  BY <1>1, <1>2, <1>3, <1>5, <1>6, Split, SplitPrimed DEF Beliefs

LEMMA DispatchKeeps ==
  ASSUME IInv, NEW q \in Request, Dispatch(q)
  PROVE  IInv'
<1>1. Typed /\ inFlight \in SUBSET Repo
  BY Split
<1>2. /\ pc[q] = "fetching" /\ pc' = [pc EXCEPT ![q] = "running"]
      /\ role' = [role EXCEPT ![q] = "denied"]
      /\ known' = [known EXCEPT ![q] = {}]
      /\ ok' = [ok EXCEPT ![q] = {}]
      /\ age' = [age EXCEPT ![q] = 0]
      /\ UNCHANGED <<has, since, cache, about, answer, inFlight>>
  BY DEF Dispatch
<1>3. Typed'
  <2>1. 0 \in 0 .. MaxRequest
    BY Times
  <2>2. age' \in [Request -> 0 .. MaxRequest]
    BY <1>1, <1>2, <2>1 DEF Typed
  <2> QED
    BY <1>1, <1>2, <2>2 DEF Typed, Place
<1>4. \A p \in Request : p # q =>
        /\ pc'[p] = pc[p] /\ role'[p] = role[p] /\ known'[p] = known[p]
        /\ ok'[p] = ok[p] /\ age'[p] = age[p]
  BY <1>1, <1>2 DEF Typed
<1>5. /\ pc'[q] = "running" /\ role'[q] = "denied" /\ known'[q] = {}
      /\ ok'[q] = {} /\ age'[q] = 0
  BY <1>1, <1>2 DEF Typed
<1>6. AnswersTrue' /\ CacheTrue' /\ RolesTrue'
  BY <1>2, <1>4, <1>5 DEF IInv, AnswersTrue, CacheTrue, RolesTrue, Truth, Noted
<1>7. KnownTrue'
  <2> SUFFICES ASSUME NEW p \in Request, NEW y \in known'[p]
               PROVE  Truth(UserOf[p], y, y \in ok[p], Noted(p))'
    BY DEF KnownTrue
  <2>1. p # q
    BY <1>5
  <2>2. Truth(UserOf[p], y, y \in ok[p], Noted(p))
    BY <1>4, <2>1 DEF IInv, KnownTrue
  <2> QED
    BY <1>2, <1>4, <2>1, <2>2 DEF Truth, Noted
<1>8. Sorted' /\ Phases'
  BY <1>2, <1>4, <1>5 DEF IInv, Sorted, Phases
<1> QED
  BY <1>1, <1>2, <1>3, <1>6, <1>7, <1>8, Split, SplitPrimed DEF Beliefs

(* A right that changes makes everything that was believed of it recent.   *)
LEMMA ChangeKeeps ==
  ASSUME IInv, NEW u \in User, NEW x \in Thing, Change(u, x)
  PROVE  IInv'
<1>1. Typed
  BY Split
<1>2. /\ has' = [has EXCEPT ![u] = IF x \in @ THEN @ \ {x} ELSE @ \cup {x}]
      /\ since' = [since EXCEPT ![u] = [since[u] EXCEPT ![x] = 0]]
      /\ UNCHANGED <<cache, pc, role, about, answer, known, ok, age, inFlight>>
  BY DEF Change
<1>3. since[u] \in [Thing -> 0 .. Window] /\ 0 \in 0 .. Window
  BY <1>1, Times DEF Typed
<1>4. [since[u] EXCEPT ![x] = 0] \in [Thing -> 0 .. Window]
  BY <1>3
<1>5. since' \in [User -> [Thing -> 0 .. Window]]
  BY <1>1, <1>2, <1>4 DEF Typed
<1>6. has' \in [User -> SUBSET Thing]
  BY <1>1, <1>2 DEF Typed
<1>7. \A v \in User, y \in Thing :
        \/ since'[v][y] = 0
        \/ since'[v][y] = since[v][y] /\ (y \in has'[v] <=> y \in has[v])
  BY <1>1, <1>2, <1>3 DEF Typed
<1>8. Typed'
  BY <1>1, <1>2, <1>5, <1>6 DEF Typed
<1>9. \A v \in User, y \in Thing, yes \in BOOLEAN, n \in Nat :
        Truth(v, y, yes, n) =>
          (y \in has'[v] <=> yes) \/ since'[v][y] <= n
  BY <1>7, Times DEF Truth
<1>10. \A p \in Request :
         /\ UserOf[p] \in User /\ age[p] \in Nat /\ Noted(p) \in Nat /\ about[p] \in Thing
         /\ known[p] \subseteq Thing
  BY <1>1, Times, OperatorUIAssumption DEF Typed, Noted, Thing
<1>11. AnswersTrue'
  BY <1>2, <1>9, <1>10 DEF IInv, AnswersTrue, Truth, Granted
<1>12. CacheTrue'
  <2> SUFFICES ASSUME NEW v \in User, NEW y \in Thing, cache[v][y].left > 0
               PROVE  Truth(v, y, Granted(cache[v][y].says), MaxRequest + TTL - cache[v][y].left)'
    BY <1>2 DEF CacheTrue
  <2>1. MaxRequest + TTL - cache[v][y].left \in Nat
    BY <1>1, Times DEF Typed
  <2>2. Truth(v, y, Granted(cache[v][y].says), MaxRequest + TTL - cache[v][y].left)
    BY DEF IInv, CacheTrue
  <2>3. Granted(cache[v][y].says) \in BOOLEAN
    BY DEF Granted
  <2> QED
    BY <1>2, <1>9, <2>1, <2>2, <2>3 DEF Truth
<1>13. RolesTrue'
  <2> SUFFICES ASSUME NEW q \in Request, role[q] # "denied"
               PROVE  Truth(UserOf[q], Admin, role[q] = "operator", Noted(q))'
    BY <1>2 DEF RolesTrue
  <2>1. Truth(UserOf[q], Admin, role[q] = "operator", Noted(q)) /\ Admin \in Thing
    BY DEF IInv, RolesTrue, Thing
  <2>2. (role[q] = "operator") \in BOOLEAN
    OBVIOUS
  <2>3. (Admin \in has'[UserOf[q]] <=> role[q] = "operator") \/ since'[UserOf[q]][Admin] <= Noted(q)
    BY <1>9, <1>10, <2>1, <2>2
  <2> QED
    BY <1>2, <2>3 DEF Truth, Noted
<1>14. KnownTrue'
  <2> SUFFICES ASSUME NEW p \in Request, NEW y \in known[p]
               PROVE  Truth(UserOf[p], y, y \in ok[p], Noted(p))'
    BY <1>2 DEF KnownTrue
  <2>1. Truth(UserOf[p], y, y \in ok[p], Noted(p))
    BY DEF IInv, KnownTrue
  <2>2. (y \in ok[p]) \in BOOLEAN /\ y \in Thing
    BY <1>10
  <2>3. (y \in has'[UserOf[p]] <=> y \in ok[p]) \/ since'[UserOf[p]][y] <= Noted(p)
    BY <1>9, <1>10, <2>1, <2>2
  <2> QED
    BY <1>2, <2>3 DEF Truth, Noted
<1>15. Sorted' /\ Phases'
  BY <1>2 DEF IInv, Sorted, Phases
<1> QED
  BY <1>2, <1>8, <1>11, <1>12, <1>13, <1>14, <1>15, Split, SplitPrimed DEF Beliefs

(* Time makes beliefs and what bounds their age older together.            *)
LEMMA TickKeeps ==
  ASSUME IInv, Tick
  PROVE  IInv'
<1>1. Typed
  BY Split
<1>2. /\ since' = [u \in User |-> [x \in Thing |->
           IF since[u][x] = Window THEN since[u][x] ELSE since[u][x] + 1]]
      /\ cache' = [u \in User |-> [x \in Thing |-> Older(cache[u][x])]]
      /\ age' = [q \in Request |-> IF Alive(q) THEN age[q] + 1 ELSE 0]
      /\ UNCHANGED <<has, pc, role, about, answer, known, ok, inFlight>>
  BY DEF Tick
<1>3. \A u \in User, x \in Thing :
        /\ since[u][x] \in 0 .. Window
        /\ since'[u][x] = IF since[u][x] = Window THEN since[u][x] ELSE since[u][x] + 1
        /\ since'[u][x] \in 0 .. Window
  <2>1. \A u \in User, x \in Thing : since[u][x] \in 0 .. Window
    BY <1>1 DEF Typed
  <2>2. \A u \in User, x \in Thing :
          since'[u][x] = IF since[u][x] = Window THEN since[u][x] ELSE since[u][x] + 1
    BY <1>2
  <2> QED
    BY <2>1, <2>2, Times
<1>4. \A q \in Request :
        /\ Alive(q) => age[q] < MaxRequest /\ age'[q] = age[q] + 1
        /\ ~ Alive(q) => age'[q] = 0
        /\ age[q] \in 0 .. MaxRequest /\ age'[q] \in 0 .. MaxRequest
  <2>1. \A q \in Request : Alive(q) => age[q] < MaxRequest
    BY DEF Tick
  <2>2. \A q \in Request : age'[q] = IF Alive(q) THEN age[q] + 1 ELSE 0
    BY <1>2
  <2>3. \A q \in Request : age[q] \in 0 .. MaxRequest
    BY <1>1 DEF Typed
  <2> QED
    BY <2>1, <2>2, <2>3, Times
<1>5. \A u \in User, x \in Thing :
        /\ cache[u][x].left \in 0 .. TTL /\ cache[u][x].says \in Says
        /\ cache'[u][x] = Older(cache[u][x])
  BY <1>1, <1>2 DEF Typed
<1>6. \A u \in User, x \in Thing :
        /\ cache'[u][x] \in [says : Says, left : 0 .. TTL]
        /\ cache[u][x].left > 1 =>
             cache'[u][x].left = cache[u][x].left - 1 /\ cache'[u][x].says = cache[u][x].says
        /\ ~ cache[u][x].left > 1 => cache'[u][x].left = 0 /\ cache'[u][x].says = "denied"
  <2> SUFFICES ASSUME NEW u \in User, NEW x \in Thing
               PROVE
        /\ cache'[u][x] \in [says : Says, left : 0 .. TTL]
        /\ cache[u][x].left > 1 =>
             cache'[u][x].left = cache[u][x].left - 1 /\ cache'[u][x].says = cache[u][x].says
        /\ ~ cache[u][x].left > 1 => cache'[u][x].left = 0 /\ cache'[u][x].says = "denied"
    OBVIOUS
  <2>1. cache[u][x] \in [says : Says, left : 0 .. TTL]
    BY <1>1 DEF Typed
  <2>2. CASE cache[u][x].left > 1
    <3>1. cache'[u][x] = [cache[u][x] EXCEPT !.left = cache[u][x].left - 1]
      BY <1>5, <2>2 DEF Older
    <3>2. cache[u][x].left - 1 \in 0 .. TTL
      BY <1>5, <2>2, Times
    <3> QED
      BY <2>1, <2>2, <3>1, <3>2
  <2>3. CASE ~ cache[u][x].left > 1
    <3>1. cache'[u][x] = NoEntry
      BY <1>5, <2>3 DEF Older
    <3> QED
      BY <2>3, <3>1, Times DEF NoEntry, Says
  <2> QED
    BY <2>2, <2>3
<1>7. Typed'
  <2>1. since' \in [User -> [Thing -> 0 .. Window]]
    BY <1>2, <1>3
  <2>2. cache' \in [User -> [Thing -> [says : Says, left : 0 .. TTL]]]
    BY <1>2, <1>6
  <2>3. age' \in [Request -> 0 .. MaxRequest]
    BY <1>2, <1>4
  <2> QED
    BY <1>1, <1>2, <2>1, <2>2, <2>3 DEF Typed
<1>8. \A u \in User, x \in Thing, yes \in BOOLEAN, n \in Nat :
        Truth(u, x, yes, n) => (x \in has'[u] <=> yes) \/ since'[u][x] <= n + 1
  BY <1>2, <1>3, Times DEF Truth
<1>9. \A q \in Request :
        /\ UserOf[q] \in User /\ Noted(q) \in Nat /\ about[q] \in Thing
        /\ known[q] \subseteq Thing
  BY <1>1, Times, OperatorUIAssumption DEF Typed, Noted, Thing
<1>10. AnswersTrue'
  <2> SUFFICES ASSUME NEW q \in Request, pc[q] = "asking"
               PROVE  Truth(UserOf[q], about[q], Granted(answer[q]), age[q])'
    BY <1>2 DEF AnswersTrue
  <2>1. age'[q] = age[q] + 1 /\ age[q] \in Nat
    BY <1>4, Times DEF Alive
  <2>2. Granted(answer[q]) \in BOOLEAN
    BY DEF Granted
  <2>3. Truth(UserOf[q], about[q], Granted(answer[q]), age[q])
    BY DEF IInv, AnswersTrue
  <2> QED
    BY <1>2, <1>8, <1>9, <2>1, <2>2, <2>3 DEF Truth
<1>11. CacheTrue'
  <2> SUFFICES ASSUME NEW u \in User, NEW x \in Thing, cache'[u][x].left > 0
               PROVE  Truth(u, x, Granted(cache[u][x].says), MaxRequest + TTL - cache[u][x].left)'
    BY DEF CacheTrue
  <2>1. /\ cache'[u][x].left = cache[u][x].left - 1 /\ cache'[u][x].says = cache[u][x].says
        /\ cache[u][x].left \in 2 .. TTL
    BY <1>5, <1>6, Times
  <2>2. Truth(u, x, Granted(cache[u][x].says), MaxRequest + TTL - cache[u][x].left)
    BY <2>1, Times DEF IInv, CacheTrue
  <2>3. /\ MaxRequest + TTL - cache[u][x].left \in Nat
        /\ MaxRequest + TTL - cache'[u][x].left = MaxRequest + TTL - cache[u][x].left + 1
    BY <2>1, Times
  <2>4. Granted(cache[u][x].says) \in BOOLEAN
    BY DEF Granted
  <2> QED
    BY <1>8, <2>1, <2>2, <2>3, <2>4 DEF Truth
<1>12. \A q \in Request : role[q] # "denied" \/ known[q] # {} => Noted(q)' = Noted(q) + 1
  <2> SUFFICES ASSUME NEW q \in Request, role[q] # "denied" \/ known[q] # {}
               PROVE  Noted(q)' = Noted(q) + 1
    OBVIOUS
  <2>1. Alive(q)
    BY <1>1 DEF Typed, IInv, Phases, Alive
  <2>2. age'[q] = age[q] + 1 /\ age[q] \in Nat
    BY <1>4, <2>1, Times
  <2> QED
    BY <2>2, Times DEF Noted
<1>13. RolesTrue'
  <2> SUFFICES ASSUME NEW q \in Request, role[q] # "denied"
               PROVE  Truth(UserOf[q], Admin, role[q] = "operator", Noted(q))'
    BY <1>2 DEF RolesTrue
  <2>1. Truth(UserOf[q], Admin, role[q] = "operator", Noted(q)) /\ Admin \in Thing
    BY DEF IInv, RolesTrue, Thing
  <2>2. (role[q] = "operator") \in BOOLEAN
    OBVIOUS
  <2>3. (Admin \in has'[UserOf[q]] <=> role[q] = "operator") \/ since'[UserOf[q]][Admin] <= Noted(q) + 1
    BY <1>8, <1>9, <2>1, <2>2
  <2> QED
    BY <1>2, <1>12, <2>3 DEF Truth
<1>14. KnownTrue'
  <2> SUFFICES ASSUME NEW q \in Request, NEW y \in known[q]
               PROVE  Truth(UserOf[q], y, y \in ok[q], Noted(q))'
    BY <1>2 DEF KnownTrue
  <2>1. Truth(UserOf[q], y, y \in ok[q], Noted(q)) /\ y \in Thing
    BY <1>9 DEF IInv, KnownTrue
  <2>2. (y \in ok[q]) \in BOOLEAN
    OBVIOUS
  <2>3. (y \in has'[UserOf[q]] <=> y \in ok[q]) \/ since'[UserOf[q]][y] <= Noted(q) + 1
    BY <1>8, <1>9, <2>1, <2>2
  <2>4. Noted(q)' = Noted(q) + 1
    BY <1>12
  <2> QED
    BY <1>2, <2>3, <2>4 DEF Truth
<1>15. Sorted'
  <2>1. \A u \in User, x \in Thing : cache'[u][x].says \in {cache[u][x].says, "denied"}
    BY <1>6
  <2> QED
    BY <1>2, <2>1 DEF IInv, Sorted, RoleSays, Thing
<1>16. Phases'
  BY <1>2, <1>4 DEF IInv, Phases, Alive
<1> QED
  BY <1>2, <1>7, <1>10, <1>11, <1>13, <1>14, <1>15, <1>16, Split, SplitPrimed DEF Beliefs

-----------------------------------------------------------------------------
LEMMA NextIInv == IInv /\ [Next]_vars => IInv'
<1> SUFFICES ASSUME IInv, [Next]_vars PROVE IInv'
  OBVIOUS
<1>1. inFlight \in SUBSET Repo
  BY Split
<1>2. ASSUME NEW q \in Request, Ends(q), inFlight' \in SUBSET inFlight PROVE IInv'
  BY <1>1, <1>2, EndsKeeps, SplitPrimed
<1>3. ASSUME NEW q \in Request, Respond(q) PROVE IInv'
  BY <1>2, <1>3 DEF Respond
<1>4. ASSUME NEW q \in Request, FetchFails(q) PROVE IInv'
  BY <1>2, <1>4 DEF FetchFails
<1>5. ASSUME NEW q \in Request, ReplayEnds(q) PROVE IInv'
  BY <1>2, <1>5 DEF ReplayEnds
<1>6. ASSUME NEW q \in Request, NEW r \in Repo, ReplayRefused(q, r) PROVE IInv'
  BY <1>2, <1>6 DEF ReplayRefused
<1>7. CASE UNCHANGED vars
  <2>1. Typed' /\ inFlight' = inFlight
    BY <1>7, Split DEF vars, Typed
  <2>2. AnswersTrue' /\ CacheTrue' /\ RolesTrue' /\ KnownTrue'
    BY <1>7 DEF vars, IInv, AnswersTrue, CacheTrue, RolesTrue, KnownTrue, Truth, Noted
  <2>3. Sorted' /\ Phases'
    BY <1>7 DEF vars, IInv, Sorted, Phases
  <2> QED
    BY <1>1, <2>1, <2>2, <2>3, SplitPrimed DEF Beliefs
<1>8. CASE Next
  BY <1>3, <1>4, <1>5, <1>6, <1>8, StoreKeeps, DispatchKeeps, FromCacheKeeps, AskGitHubKeeps,
     ReplayKeeps, ChangeKeeps, TickKeeps DEF Next
<1> QED
  BY <1>7, <1>8

LEMMA Invariance == Spec => []IInv
<1>1. Init => IInv
  BY InitIInv
<1>2. IInv /\ [Next]_vars => IInv'
  BY NextIInv
<1> QED
  BY <1>1, <1>2, PTL DEF Spec

(* The interface is well typed for any users, requests and times.          *)
THEOREM TypeCorrect == Spec => []TypeOK
<1>1. IInv => TypeOK
  BY DEF IInv
<1> QED
  BY <1>1, Invariance, PTL

-----------------------------------------------------------------------------
(* What a request acts on is recent.                                       *)
LEMMA NotesAreRecent ==
  ASSUME IInv, NEW q \in Request
  PROVE  /\ role[q] = "operator" => HadLately(UserOf[q], Admin)
         /\ role[q] = "writer" => LackedLately(UserOf[q], Admin)
         /\ \A r \in ok[q] : HadLately(UserOf[q], r)
         /\ \A r \in known[q] \ ok[q] : LackedLately(UserOf[q], r)
<1>1. Typed /\ UserOf[q] \in User /\ Admin \in Thing /\ Repo \subseteq Thing
  BY Split, OperatorUIAssumption DEF Thing
<1>2. Noted(q) \in Nat /\ Noted(q) < Window
  BY <1>1, Times DEF Typed, Noted
<1>3. \A x \in Thing : since[UserOf[q]][x] \in Nat
  BY <1>1, Times DEF Typed
<1>4. ASSUME NEW x \in Thing, NEW yes \in BOOLEAN, Truth(UserOf[q], x, yes, Noted(q))
      PROVE  IF yes THEN HadLately(UserOf[q], x) ELSE LackedLately(UserOf[q], x)
  BY <1>2, <1>3, <1>4, Times DEF Truth, HadLately, LackedLately
<1>5. role[q] = "operator" => HadLately(UserOf[q], Admin)
  BY <1>1, <1>4 DEF IInv, RolesTrue
<1>6. role[q] = "writer" => LackedLately(UserOf[q], Admin)
  BY <1>1, <1>4 DEF IInv, RolesTrue
<1>7. \A r \in ok[q] : r \in known[q] /\ r \in Thing
  BY <1>1 DEF Typed
<1>8. \A r \in known[q] : r \in Thing
  BY <1>1 DEF Typed
<1>9. \A r \in ok[q] : HadLately(UserOf[q], r)
  BY <1>4, <1>7 DEF IInv, KnownTrue
<1>10. \A r \in known[q] \ ok[q] : LackedLately(UserOf[q], r)
  <2> SUFFICES ASSUME NEW r \in known[q], r \notin ok[q] PROVE LackedLately(UserOf[q], r)
    OBVIOUS
  <2>1. Truth(UserOf[q], r, FALSE, Noted(q))
    BY DEF IInv, KnownTrue, Truth
  <2> QED
    BY <1>4, <1>8, <2>1
<1> QED
  BY <1>5, <1>6, <1>9, <1>10

(* Whatever requests overlap and overwrite in the cache, nobody is shown a *)
(* row, or gets a pull request replayed, without a right to it within the  *)
(* window.                                                                 *)
THEOREM ShownByRight == Spec => AllowedLately
<1> DEFINE A == \A q \in Request :
       /\ Respond(q) => HadLately(UserOf[q], Admin) \/
            \A row \in Shown(q) : row # {} /\ \A r \in row : HadLately(UserOf[q], r)
       /\ pc[q] = "open" /\ pc'[q] = "fetching" =>
            HadLately(UserOf[q], Admin) /\ HadLately(UserOf[q], about'[q])
<1>1. IInv /\ [Next]_vars => A
  <2> SUFFICES ASSUME IInv, [Next]_vars, NEW q \in Request PROVE
       /\ Respond(q) => HadLately(UserOf[q], Admin) \/
            \A row \in Shown(q) : row # {} /\ \A r \in row : HadLately(UserOf[q], r)
       /\ pc[q] = "open" /\ pc'[q] = "fetching" =>
            HadLately(UserOf[q], Admin) /\ HadLately(UserOf[q], about'[q])
    OBVIOUS
  <2>1. Respond(q) => HadLately(UserOf[q], Admin) \/
            \A row \in Shown(q) : row # {} /\ \A r \in row : HadLately(UserOf[q], r)
    BY NotesAreRecent DEF Shown
  <2>2. ASSUME pc[q] = "open", pc'[q] = "fetching"
        PROVE  HadLately(UserOf[q], Admin) /\ HadLately(UserOf[q], about'[q])
    <3>1. pc \in [Request -> Place] /\ about \in [Request -> Thing]
      BY DEF IInv, TypeOK
    <3>2. \E r \in Repo : Replay(q, r)
      <4>1. ASSUME NEW p \in Request, NEW to \in Place \ {"fetching"}, pc' = [pc EXCEPT ![p] = to]
            PROVE  FALSE
        BY <2>2, <3>1, <4>1
      <4>2. \A p \in Request : ~ Ends(p)
        BY <4>1 DEF Ends, Place
      <4>3. \A p \in Request, x \in Thing : \A says : ~ Learn(p, x, says)
        BY <4>1 DEF Learn, Place
      <4>4. \A p \in Request : ~ Dispatch(p) /\ \A x \in Thing : ~ AskGitHub(p, x)
        BY <4>1 DEF Dispatch, AskGitHub, Place
      <4>5. \A p \in Request : ~ Respond(p) /\ ~ FetchFails(p) /\ ~ ReplayEnds(p)
                                /\ \A r \in Repo : ~ ReplayRefused(p, r)
        BY <4>2 DEF Respond, FetchFails, ReplayEnds, ReplayRefused
      <4>6. \A p \in Request : ~ Store(p) /\ \A x \in Thing : ~ FromCache(p, x)
        BY <3>1, <4>3 DEF Store, FromCache
      <4>7. pc' # pc
        BY <2>2
      <4>8. PICK p \in Request, r \in Repo : Replay(p, r)
        BY <4>4, <4>5, <4>6, <4>7 DEF Next, vars, Change, Tick
      <4>9. p = q
        BY <2>2, <3>1, <4>8 DEF Replay
      <4> QED
        BY <4>8, <4>9
    <3>3. PICK r \in Repo : Replay(q, r)
      BY <3>2
    <3>4. role[q] = "operator" /\ r \in ok[q] /\ about'[q] = r
      BY <3>1, <3>3 DEF Replay, MayReplay
    <3> QED
      BY <3>4, NotesAreRecent
  <2> QED
    BY <2>1, <2>2
<1>2. IInv /\ [Next]_vars => [A]_vars
  BY <1>1
<1>3. Spec => [][A]_vars
  BY <1>2, Invariance, PTL DEF Spec
<1> QED
  BY <1>3 DEF AllowedLately

(* Nothing is hidden from a user but for a right that was missing, or      *)
(* could not be looked up, within the window.                              *)
THEOREM HiddenByReason == Spec => HiddenForAReason
<1> DEFINE A == \A q \in Request : Respond(q) =>
       \A row \in Row \ Shown(q) :
         /\ LackedLately(UserOf[q], Admin)
         /\ row # {} => \E r \in row : LackedLately(UserOf[q], r)
<1>1. IInv => A
  <2> SUFFICES ASSUME IInv, NEW q \in Request, Respond(q), NEW row \in Row \ Shown(q)
               PROVE  /\ LackedLately(UserOf[q], Admin)
                      /\ row # {} => \E r \in row : LackedLately(UserOf[q], r)
    OBVIOUS
  <2>1. pc[q] = "open" /\ role[q] \in {"operator", "writer", "denied"}
    BY DEF Respond, IInv, TypeOK
  <2>2. role[q] = "writer"
    BY <2>1 DEF Shown, IInv, Phases
  <2>3. LackedLately(UserOf[q], Admin)
    BY <2>2, NotesAreRecent
  <2>4. ASSUME row # {} PROVE \E r \in row : LackedLately(UserOf[q], r)
    <3>1. ~ (row \subseteq ok[q])
      BY <2>2, <2>4 DEF Shown
    <3>2. row \subseteq known[q] \/ row \cap (known[q] \ ok[q]) # {}
      BY <2>2 DEF Respond
    <3>3. PICK r \in row : r \in known[q] \ ok[q]
      BY <3>1, <3>2
    <3> QED
      BY <3>3, NotesAreRecent
  <2> QED
    BY <2>3, <2>4
<1>2. Spec => [][A]_vars
  BY <1>1, Invariance, PTL DEF Spec
<1> QED
  BY <1>2 DEF HiddenForAReason

-----------------------------------------------------------------------------
Replaying(q) == pc[q] \in {"fetching", "running"}

LEMMA GuardStep == TypeOK /\ OneReplayPerPR /\ [Next]_vars => OneReplayPerPR'
<1> SUFFICES ASSUME TypeOK, OneReplayPerPR, [Next]_vars PROVE OneReplayPerPR'
  OBVIOUS
<1>1. pc \in [Request -> Place] /\ about \in [Request -> Thing]
  BY DEF TypeOK
<1>2. ASSUME inFlight' = inFlight,
             \A p \in Request : Replaying(p) <=> Replaying(p)',
             \A p \in Request : Replaying(p) => about'[p] = about[p]
      PROVE  OneReplayPerPR'
  BY <1>2 DEF OneReplayPerPR, Replaying
<1>3. ASSUME NEW q \in Request, Replaying(q), Ends(q), inFlight' = inFlight \ {about[q]}
      PROVE  OneReplayPerPR'
  <2>1. ~ Replaying(q)' /\ \A p \in Request : p # q => pc'[p] = pc[p] /\ about'[p] = about[p]
    BY <1>1, <1>3 DEF Ends, Replaying
  <2> QED
    BY <1>3, <2>1 DEF OneReplayPerPR, Replaying
<1>4. ASSUME NEW q \in Request, FetchFails(q) PROVE OneReplayPerPR'
  BY <1>3, <1>4 DEF FetchFails, Replaying
<1>5. ASSUME NEW q \in Request, ReplayEnds(q) PROVE OneReplayPerPR'
  BY <1>3, <1>5 DEF ReplayEnds, Replaying
<1>6. ASSUME NEW q \in Request, NEW r \in Repo, Replay(q, r) PROVE OneReplayPerPR'
  <2>1. /\ ~ Replaying(q) /\ Replaying(q)' /\ about'[q] = r
        /\ r \notin inFlight /\ inFlight' = inFlight \cup {r}
        /\ \A p \in Request : p # q => pc'[p] = pc[p] /\ about'[p] = about[p]
    BY <1>1, <1>6 DEF Replay, MayReplay, Replaying
  <2> QED
    BY <2>1 DEF OneReplayPerPR, Replaying
<1>7. ASSUME NEW q \in Request, Dispatch(q) PROVE OneReplayPerPR'
  BY <1>1, <1>2, <1>7 DEF Dispatch, Replaying
<1>8. ASSUME NEW q \in Request, pc[q] = "open", Ends(q), UNCHANGED inFlight PROVE OneReplayPerPR'
  BY <1>1, <1>2, <1>8 DEF Ends, Replaying
<1>9. ASSUME NEW q \in Request, Respond(q) PROVE OneReplayPerPR'
  BY <1>8, <1>9 DEF Respond
<1>10. ASSUME NEW q \in Request, NEW r \in Repo, ReplayRefused(q, r) PROVE OneReplayPerPR'
  BY <1>8, <1>10 DEF ReplayRefused
<1>11. ASSUME NEW q \in Request, NEW x \in Thing, NEW says, ~ Replaying(q),
              Learn(q, x, says), UNCHANGED inFlight
       PROVE  OneReplayPerPR'
  BY <1>1, <1>2, <1>11 DEF Learn, Replaying
<1>12. ASSUME NEW q \in Request, Store(q) PROVE OneReplayPerPR'
  BY <1>1, <1>11, <1>12 DEF Store, Replaying
<1>13. ASSUME NEW q \in Request, NEW x \in Thing, FromCache(q, x) PROVE OneReplayPerPR'
  BY <1>11, <1>13 DEF FromCache, Asks, Replaying
<1>14. ASSUME NEW q \in Request, NEW x \in Thing, AskGitHub(q, x) PROVE OneReplayPerPR'
  BY <1>1, <1>2, <1>14 DEF AskGitHub, Asks, Replaying
<1>15. ASSUME UNCHANGED <<pc, about, inFlight>> PROVE OneReplayPerPR'
  BY <1>2, <1>15 DEF Replaying
<1> QED
  BY <1>4, <1>5, <1>6, <1>7, <1>9, <1>10, <1>12, <1>13, <1>14, <1>15 DEF Next, vars, Change, Tick

(* One replay of a pull request at a time, and the guard is released.      *)
THEOREM ReplaysApart == Spec => []OneReplayPerPR
<1>1. Init => OneReplayPerPR
  BY DEF Init, OneReplayPerPR
<1>2. TypeOK /\ OneReplayPerPR /\ [Next]_vars => OneReplayPerPR'
  BY GuardStep
<1> QED
  BY <1>1, <1>2, TypeCorrect, PTL DEF Spec
=============================================================================

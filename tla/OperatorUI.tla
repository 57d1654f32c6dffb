------------------------------ MODULE OperatorUI ------------------------------
(***************************************************************************)
(* The operator interface: who its users are, what it shows them, and the  *)
(* replays they start.                                                     *)
(*                                                                         *)
(* Every request carries the token of a user.  What GitHub says of the     *)
(* role of the user, and of the repositories that the user can read, is    *)
(* cached for a while, refusals and failures like everything else.         *)
(* Operators see every row; for writers a filter, which remembers for the  *)
(* length of the request what it has looked up, drops the rows that name a *)
(* repository they cannot read.  An operator may have a merged pull        *)
(* request processed again by a goroutine; a guard per pull request keeps  *)
(* two such replays apart.                                                 *)
(*                                                                         *)
(* The module has one pull request per repository, named like it, and one  *)
(* spelling of the name of a repository.                                   *)
(***************************************************************************)
EXTENDS Integers

CONSTANTS
  User,
  Repo,
  Admin,      \* the right that makes an operator: maintaining the auth repo
  Request,    \* requests that may be dealt with at once
  UserOf,     \* UserOf[q]: whose token request q carries
  Row,        \* what views have rows about: the repositories named by a row
  TTL,        \* for how long a cached answer is used: 5 minutes
  MaxRequest  \* how long a request takes at most, those for tokens included

Thing == Repo \cup {Admin}

(* How old the truth behind an answer may be: GitHub says it to a request, *)
(* which stores it when it ends, for the TTL; a request that finds it      *)
(* there may itself take long.                                             *)
Window == TTL + 2 * MaxRequest

ASSUME OperatorUIAssumption ==
  /\ Admin \notin Repo
  /\ UserOf \in [Request -> User]
  /\ Row \subseteq SUBSET Repo
  /\ TTL \in Nat \ {0} /\ MaxRequest \in Nat

VARIABLES
  has,      \* has[u]: the rights that u has at GitHub
  since,    \* since[u][x]: time since u got or lost x or could not be asked about
  cache,    \* cache[u][x]: ghAuthCache, its entries and its repoPerm
  pc,       \* pc[q]: where the request is
  role,     \* role[q]: what its user is taken for
  about,    \* about[q]: what it asks GitHub, or the repository it replays
  answer,   \* answer[q]: what GitHub said, on its way
  known,    \* known[q]: repositories it has looked up
  ok,       \* ok[q]: those of them that may be read
  age,      \* age[q]: time since it came in
  inFlight  \* replayInFlight

vars == <<has, since, cache, pc, role, about, answer, known, ok, age, inFlight>>

Says == {"operator", "writer", "read", "denied"}
NoEntry == [says |-> "denied", left |-> 0]
Place == {"idle", "asking", "open", "fetching", "running"}

TypeOK ==
  /\ has \in [User -> SUBSET Thing]
  /\ since \in [User -> [Thing -> 0 .. Window]]
  /\ cache \in [User -> [Thing -> [says : Says, left : 0 .. TTL]]]
  /\ pc \in [Request -> Place]
  /\ role \in [Request -> {"operator", "writer", "denied"}]
  /\ about \in [Request -> Thing]
  /\ answer \in [Request -> Says]
  /\ known \in [Request -> SUBSET Repo]
  /\ ok \in [Request -> SUBSET Repo]
  /\ age \in [Request -> 0 .. MaxRequest]
  /\ inFlight \in SUBSET Repo
  /\ \A q \in Request : ok[q] \subseteq known[q]
  /\ \A q \in Request : pc[q] \in {"fetching", "running"} => about[q] \in Repo

Init ==
  /\ has \in [User -> SUBSET Thing]
  /\ since = [u \in User |-> [x \in Thing |-> Window]]
  /\ cache = [u \in User |-> [x \in Thing |-> NoEntry]]
  /\ pc = [q \in Request |-> "idle"]
  /\ role = [q \in Request |-> "denied"]
  /\ about = [q \in Request |-> Admin]
  /\ answer = [q \in Request |-> "denied"]
  /\ known = [q \in Request |-> {}]
  /\ ok = [q \in Request |-> {}]
  /\ age = [q \in Request |-> 0]
  /\ inFlight = {}

-----------------------------------------------------------------------------
(* Looking up a role or a permission.                                      *)

Entry(q, x) == cache[UserOf[q]][x]

(* Expired entries are as good as none.                                    *)
Hit(q, x) == Entry(q, x).left > 0

(* authenticateGitHub comes first, then CanUserReadRepo for repositories   *)
(* that the filter of this request does not remember.                      *)
Asks(q, x) == IF x = Admin THEN pc[q] = "idle" ELSE pc[q] = "open" /\ x \notin known[q]

(* What the handler makes of it: a user without a role is refused.         *)
Learn(q, x, says) ==
  /\ about' = [about EXCEPT ![q] = Admin]
  /\ answer' = [answer EXCEPT ![q] = "denied"]
  /\ IF x = Admin
     THEN /\ role' = [role EXCEPT ![q] = says]
          /\ pc' = [pc EXCEPT ![q] = IF says = "denied" THEN "idle" ELSE "open"]
          /\ age' = [age EXCEPT ![q] = IF says = "denied" THEN 0 ELSE @]
          /\ UNCHANGED <<known, ok>>
     ELSE /\ known' = [known EXCEPT ![q] = @ \cup {x}]
          /\ ok' = [ok EXCEPT ![q] = IF says = "read" THEN @ \cup {x} ELSE @]
          /\ pc' = [pc EXCEPT ![q] = "open"]
          /\ UNCHANGED <<role, age>>

FromCache(q, x) ==
  /\ Asks(q, x) /\ Hit(q, x)
  /\ Learn(q, x, Entry(q, x).says)
  /\ UNCHANGED <<has, since, cache, inFlight>>

(* validateGitHubPAT: admin and maintain make operators, and less makes    *)
(* writers or nothing.  ghAPIGetRepoPermission of another repository.      *)
Replies(u, x) ==
  IF x = Admin THEN IF x \in has[u] THEN {"operator"} ELSE {"writer", "denied"}
               ELSE IF x \in has[u] THEN {"read"} ELSE {"denied"}

(* A failing lookup: with a 5xx the user is taken for a writer, otherwise  *)
(* for nobody; a repository cannot be read.                                *)
Failures(x) == IF x = Admin THEN {"writer", "denied"} ELSE {"denied"}

(* GitHub answers, or does not ...                                         *)
AskGitHub(q, x) ==
  /\ Asks(q, x) /\ ~ Hit(q, x)
  /\ pc' = [pc EXCEPT ![q] = "asking"]
  /\ about' = [about EXCEPT ![q] = x]
  /\ \/ /\ \E says \in Replies(UserOf[q], x) : answer' = [answer EXCEPT ![q] = says]
        /\ UNCHANGED since
     \/ /\ \E says \in Failures(x) : answer' = [answer EXCEPT ![q] = says]
        /\ since' = [since EXCEPT ![UserOf[q]][x] = IF x \in has[UserOf[q]] THEN 0 ELSE @]
  /\ UNCHANGED <<has, cache, role, known, ok, age, inFlight>>

Stored(q) == [says |-> answer[q], left |-> TTL]

(* ... and the answer is cached, whatever was cached meanwhile.            *)
Store(q) ==
  /\ pc[q] = "asking"
  /\ cache' = [cache EXCEPT ![UserOf[q]][about[q]] = Stored(q)]
  /\ Learn(q, about[q], answer[q])
  /\ UNCHANGED <<has, since, inFlight>>

-----------------------------------------------------------------------------
Mut_MemoKept(q) ==
  /\ pc' = [pc EXCEPT ![q] = "idle"]
  /\ role' = [role EXCEPT ![q] = "denied"]
  /\ age' = [age EXCEPT ![q] = 0]
  /\ about' = [about EXCEPT ![q] = Admin]
  /\ UNCHANGED <<has, since, cache, answer, known, ok>>

Ends(q) ==
  /\ pc' = [pc EXCEPT ![q] = "idle"]
  /\ role' = [role EXCEPT ![q] = "denied"]
  /\ known' = [known EXCEPT ![q] = {}]
  /\ ok' = [ok EXCEPT ![q] = {}]
  /\ age' = [age EXCEPT ![q] = 0]
  /\ about' = [about EXCEPT ![q] = Admin]
  /\ UNCHANGED <<has, since, cache, answer>>

(* The rows that a request gets to see, of audit events, traces and        *)
(* workflows, and of the logs of a delivery, which are a row about its     *)
(* repository.  A row that names no repository is for operators.           *)
Mut_NoBypass(q) == {row \in Row : row # {} /\ row \subseteq ok[q]}
Shown(q) == IF role[q] = "operator" THEN Row
            ELSE {row \in Row : row # {} /\ row \subseteq ok[q]}

(* The filter has decided about every row: one refused repository will do. *)
Respond(q) ==
  /\ pc[q] = "open"
  /\ role[q] = "writer" =>
       \A row \in Row : row \subseteq known[q] \/ row \cap (known[q] \ ok[q]) # {}
  /\ Ends(q)
  /\ UNCHANGED inFlight

-----------------------------------------------------------------------------
(* handleReplay.                                                           *)

MayReplay(q, r) == pc[q] = "open" /\ role[q] = "operator" /\ r \in ok[q]

(* The guard is taken in one step ...                                      *)
Replay(q, r) ==
  /\ MayReplay(q, r)
  /\ r \notin inFlight
  /\ inFlight' = inFlight \cup {r}
  /\ pc' = [pc EXCEPT ![q] = "fetching"]
  /\ about' = [about EXCEPT ![q] = r]
  /\ UNCHANGED <<has, since, cache, role, answer, known, ok, age>>

(* ... or held already: 409.  403 if the user is no operator, or cannot     *)
(* read the repository.                                                    *)
ReplayRefused(q, r) ==
  /\ pc[q] = "open"
  /\ role[q] # "operator" \/ r \in known[q] \ ok[q] \/ r \in ok[q] \cap inFlight
  /\ Ends(q)
  /\ UNCHANGED inFlight

Mut_GuardKept(q) ==
  /\ pc[q] = "fetching"
  /\ Ends(q)
  /\ UNCHANGED inFlight

(* No client, no such pull request, not merged, no merge commit.           *)
FetchFails(q) ==
  /\ pc[q] = "fetching"
  /\ inFlight' = inFlight \ {about[q]}
  /\ Ends(q)

(* 202: from here on it is a goroutine, with no token and a context of its *)
(* own.                                                                    *)
Dispatch(q) ==
  /\ pc[q] = "fetching"
  /\ pc' = [pc EXCEPT ![q] = "running"]
  /\ role' = [role EXCEPT ![q] = "denied"]
  /\ known' = [known EXCEPT ![q] = {}]
  /\ ok' = [ok EXCEPT ![q] = {}]
  /\ age' = [age EXCEPT ![q] = 0]
  /\ UNCHANGED <<has, since, cache, about, answer, inFlight>>

(* processWebhookWithRetry returns, whatever became of the delivery.       *)
ReplayEnds(q) ==
  /\ pc[q] = "running"
  /\ inFlight' = inFlight \ {about[q]}
  /\ Ends(q)

-----------------------------------------------------------------------------
(* GitHub and the clock.                                                   *)

(* A user gets a right or loses it.                                        *)
Change(u, x) ==
  /\ has' = [has EXCEPT ![u] = IF x \in @ THEN @ \ {x} ELSE @ \cup {x}]
  /\ since' = [since EXCEPT ![u][x] = 0]
  /\ UNCHANGED <<cache, pc, role, about, answer, known, ok, age, inFlight>>

Alive(q) == pc[q] \notin {"idle", "running"}
Older(e) == IF e.left > 1 THEN [e EXCEPT !.left = @ - 1] ELSE NoEntry

(* The contexts of a request see to it that it ends in time.               *)
Tick ==
  /\ \A q \in Request : Alive(q) => age[q] < MaxRequest
  /\ since' = [u \in User |-> [x \in Thing |->
       IF since[u][x] = Window THEN since[u][x] ELSE since[u][x] + 1]]
  /\ cache' = [u \in User |-> [x \in Thing |-> Older(cache[u][x])]]
  /\ age' = [q \in Request |-> IF Alive(q) THEN age[q] + 1 ELSE 0]
  /\ UNCHANGED <<has, pc, role, about, answer, known, ok, inFlight>>

Next ==
  \/ \E q \in Request :
       \/ Store(q) \/ Respond(q) \/ FetchFails(q) \/ Dispatch(q) \/ ReplayEnds(q)
       \/ \E x \in Thing : FromCache(q, x) \/ AskGitHub(q, x)
       \/ \E r \in Repo : Replay(q, r) \/ ReplayRefused(q, r)
  \/ \E u \in User, x \in Thing : Change(u, x)
  \/ Tick

Spec == Init /\ [][Next]_vars

-----------------------------------------------------------------------------
HadLately(u, x) == x \in has[u] \/ since[u][x] < Window
LackedLately(u, x) == x \notin has[u] \/ since[u][x] < Window

(* However requests of a user overlap and overwrite each other's cached    *)
(* answers, what is shown, and what is replayed, is what its user had the  *)
(* right to within the window.                                             *)
AllowedLately ==
  [][\A q \in Request :
       /\ Respond(q) => HadLately(UserOf[q], Admin) \/
            \A row \in Shown(q) : row # {} /\ \A r \in row : HadLately(UserOf[q], r)
       /\ pc[q] = "open" /\ pc'[q] = "fetching" =>
            HadLately(UserOf[q], Admin) /\ HadLately(UserOf[q], about'[q])]_vars

(* A row is only hidden from a user who lacked a right to it within the    *)
(* window, or about whom a lookup failed then: failures are forgotten in   *)
(* time.                                                                   *)
HiddenForAReason ==
  [][\A q \in Request : Respond(q) =>
       \A row \in Row \ Shown(q) :
         /\ LackedLately(UserOf[q], Admin)
         /\ row # {} => \E r \in row : LackedLately(UserOf[q], r)]_vars

(* The guard of a pull request is held by exactly one request or goroutine *)
(* that replays it, and by nobody when there is none.                      *)
OneReplayPerPR ==
  /\ \A r \in inFlight : \E q \in Request : pc[q] \in {"fetching", "running"} /\ about[q] = r
  /\ \A p, q \in Request :
       {pc[p], pc[q]} \subseteq {"fetching", "running"} =>
         about[p] \in inFlight /\ (about[p] = about[q] => p = q)
=============================================================================

----------------------------- MODULE GitHubAccess -----------------------------
(***************************************************************************)
(* How goroutines get at GitHub: the installation tokens of the            *)
(* TokenManager and the transport that waits for rate limits.              *)
(*                                                                         *)
(* A goroutine that works under a deadline asks for a client of an         *)
(* organization.  The client keeps ONE token as long as it lives: the      *)
(* cached one, if that has the safety margin left, or a new one, for which *)
(* the App first looks up its installation and then exchanges a JWT, by    *)
(* two plain requests that know nothing of the deadline.  A request of the *)
(* client that GitHub refuses for its rate limit waits, no longer than the *)
(* cap and the deadline, and is sent once more.                            *)
(*                                                                         *)
(* Times are what is left of them, in a unit of which the margin (five     *)
(* minutes) and the life of a token (an hour) are multiples.               *)
(***************************************************************************)
EXTENDS Integers

CONSTANTS
  Caller,    \* goroutines: deliveries and replays
  Org,       \* organizations the App is installed in
  TokenLife, \* of a token that GitHub has just issued
  Margin,    \* the 5-minute buffer of GetTokenForOrg
  Deadline,  \* WEBHOOK_PROCESSING_TIMEOUT_SECONDS
  JwtCache,  \* for how long getOrRefreshJWT uses a JWT again
  MaxWait,   \* the cap of retryAfterDuration
  NoOrg

(* The processing timeout is at most the margin: both are 5 minutes unless *)
(* the environment says otherwise.                                         *)
ASSUME GitHubAccessAssumption ==
  /\ TokenLife \in Nat /\ Margin \in Nat /\ Deadline \in Nat
  /\ JwtCache \in Nat /\ MaxWait \in Nat \ {0}
  /\ 0 < Deadline /\ Deadline <= Margin /\ Margin <= TokenLife
  /\ NoOrg \notin Org

VARIABLES
  jwt,    \* time left in which the cached JWT is used, 0: none
  cache,  \* cache[o]: life left of the cached token of o, 0: none or expired
  pc,     \* pc[c]: where the goroutine is
  left,   \* left[c]: time to the deadline of its context
  org,    \* org[c]: the organization of its client or exchange
  token,  \* token[c]: life left of the token that was issued to it
  wait    \* wait[c]: time left of a wait for the rate limit

vars == <<jwt, cache, pc, left, org, token, wait>>

Place == {"idle", "working", "finding", "exchanging", "issued",
          "ready", "sent", "waiting", "resent"}

TypeOK ==
  /\ jwt \in 0 .. JwtCache
  /\ cache \in [Org -> 0 .. TokenLife]
  /\ pc \in [Caller -> Place]
  /\ left \in [Caller -> 0 .. Deadline]
  /\ org \in [Caller -> Org \cup {NoOrg}]
  /\ token \in [Caller -> 0 .. TokenLife]
  /\ wait \in [Caller -> 0 .. MaxWait]
  /\ \A c \in Caller : pc[c] \notin {"idle", "working"} => org[c] \in Org

Init ==
  /\ jwt = 0
  /\ cache = [o \in Org |-> 0]
  /\ pc = [c \in Caller |-> "idle"]
  /\ left = [c \in Caller |-> 0]
  /\ org = [c \in Caller |-> NoOrg]
  /\ token = [c \in Caller |-> 0]
  /\ wait = [c \in Caller |-> 0]

Goes(c, from, to) == pc[c] = from /\ pc' = [pc EXCEPT ![c] = to]

(* A delivery or a replay begins, with the deadline of its context.        *)
Begin(c) ==
  /\ Goes(c, "idle", "working")
  /\ left' = [left EXCEPT ![c] = Deadline]
  /\ UNCHANGED <<jwt, cache, org, token, wait>>

(* The goroutine ends, or has no more use for its client.                  *)
Drop(c) ==
  /\ \/ Goes(c, "working", "idle")
     \/ Goes(c, "ready", "working")
  /\ org' = [org EXCEPT ![c] = NoOrg]
  /\ token' = [token EXCEPT ![c] = 0]
  /\ UNCHANGED <<jwt, cache, left, wait>>

-----------------------------------------------------------------------------
(* GetRestClientForOrg and GetGraphQLClientForOrg.                         *)

Mut_NoMargin(o) == cache[o] > 0
Usable(o) == cache[o] > 0 /\ cache[o] >= Margin

CachedToken(c, o) ==
  /\ Goes(c, "working", "ready")
  /\ Usable(o)
  /\ org' = [org EXCEPT ![c] = o]
  /\ token' = [token EXCEPT ![c] = cache[o]]
  /\ UNCHANGED <<jwt, cache, left, wait>>

(* getOrRefreshJWT: the cached JWT, or a new one signed with the key of    *)
(* the App.                                                                *)
UseJWT == jwt' = IF jwt > 0 THEN jwt ELSE JwtCache

(* getInstallationIDForOrg: GET /app/installations.                        *)
FindInstallation(c, o) ==
  /\ Goes(c, "working", "finding")
  /\ ~ Usable(o)
  /\ UseJWT
  /\ org' = [org EXCEPT ![c] = o]
  /\ UNCHANGED <<cache, left, token, wait>>

(* The App is installed there: POST .../access_tokens.                     *)
ExchangeJWT(c) ==
  /\ Goes(c, "finding", "exchanging")
  /\ UseJWT
  /\ UNCHANGED <<cache, left, org, token, wait>>

(* GitHub issues a token, ...                                              *)
Issue(c) ==
  /\ Goes(c, "exchanging", "issued")
  /\ token' = [token EXCEPT ![c] = TokenLife]
  /\ UNCHANGED <<jwt, cache, left, org, wait>>

(* ... which reaches the goroutine some time later and is cached for all.  *)
StoreToken(c) ==
  /\ Goes(c, "issued", "ready")
  /\ cache' = [cache EXCEPT ![org[c]] = token[c]]
  /\ UNCHANGED <<jwt, left, org, token, wait>>

(* No key, no installation, an error or refusal of GitHub: no client.      *)
NoClient(c) ==
  /\ pc[c] \in {"working", "finding", "exchanging", "issued"}
  /\ pc' = [pc EXCEPT ![c] = "working"]
  /\ org' = [org EXCEPT ![c] = NoOrg]
  /\ token' = [token EXCEPT ![c] = 0]
  /\ UNCHANGED <<jwt, cache, left, wait>>

-----------------------------------------------------------------------------
(* RoundTrip.                                                              *)

(* A read or a write is sent, unless its context is over.                  *)
Send(c) ==
  /\ Goes(c, "ready", "sent")
  /\ left[c] > 0
  /\ UNCHANGED <<jwt, cache, left, org, token, wait>>

(* 429, or 403 with no budget left or a Retry-After: wait, if the response *)
(* says for how long.                                                      *)
RateLimited(c, d) ==
  /\ Goes(c, "sent", "waiting")
  /\ wait' = [wait EXCEPT ![c] = d]
  /\ UNCHANGED <<jwt, cache, left, org, token>>

Mut_WaitOut(c) == FALSE
Cancelled(c) == left[c] = 0

(* waitWithContext ends with the timer, and the very request goes out once *)
(* more; that the first attempt has read its body is left out, as such a   *)
(* request fails like any other in Answer.                                 *)
Retry(c) ==
  /\ Goes(c, "waiting", "resent")
  /\ wait[c] = 0 /\ left[c] > 0
  /\ UNCHANGED <<jwt, cache, left, org, token, wait>>

(* It ends with the context: the caller gets the refusal.                  *)
GiveUp(c) ==
  /\ Goes(c, "waiting", "ready")
  /\ Cancelled(c)
  /\ wait' = [wait EXCEPT ![c] = 0]
  /\ UNCHANGED <<jwt, cache, left, org, token>>

(* Any other answer, an error of the transport, or the end of the context. *)
Answer(c) ==
  /\ pc[c] \in {"sent", "resent"}
  /\ pc' = [pc EXCEPT ![c] = "ready"]
  /\ UNCHANGED <<jwt, cache, left, org, token, wait>>

-----------------------------------------------------------------------------
Less(n) == IF n > 0 THEN n - 1 ELSE 0

Tick ==
  /\ jwt' = Less(jwt)
  /\ cache' = [o \in Org |-> Less(cache[o])]
  /\ left' = [c \in Caller |-> Less(left[c])]
  /\ token' = [c \in Caller |-> Less(token[c])]
  /\ wait' = [c \in Caller |-> Less(wait[c])]
  /\ UNCHANGED <<pc, org>>

Next ==
  \/ \E c \in Caller :
       \/ Begin(c) \/ Drop(c) \/ ExchangeJWT(c) \/ Issue(c) \/ StoreToken(c)
       \/ NoClient(c) \/ Send(c) \/ Retry(c) \/ GiveUp(c) \/ Answer(c)
       \/ \E o \in Org : CachedToken(c, o) \/ FindInstallation(c, o)
       \/ \E d \in 1 .. MaxWait : RateLimited(c, d)
  \/ Tick

Spec == Init /\ [][Next]_vars

(* Time passes, timers and contexts fire, and every request gets an answer *)
(* or an error.                                                            *)
FairSpec ==
  /\ Spec
  /\ WF_vars(Tick)
  /\ \A c \in Caller : WF_vars(Retry(c)) /\ WF_vars(GiveUp(c)) /\ WF_vars(Answer(c))

-----------------------------------------------------------------------------
(* A client that is asked for in time never sends an expired token, not    *)
(* even after its waits for rate limits: the token outlives the context of *)
(* the goroutine.                                                          *)
TokenOutlivesContext ==
  \A c \in Caller : pc[c] \in {"issued", "ready", "sent", "waiting", "resent"} =>
    token[c] >= left[c]

(* Nobody stays in the transport: a wait ends with its timer or with the   *)
(* context, and there is one at most.                                      *)
RoundTripsEnd ==
  \A c \in Caller : pc[c] \in {"sent", "waiting", "resent"} ~> pc[c] = "ready"
=============================================================================

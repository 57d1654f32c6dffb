----------------------------- MODULE ConfigLoading -----------------------------
(***************************************************************************)
(* The loader of the workflow configuration and its cache.                 *)
(*                                                                         *)
(* Goroutines (deliveries, the operator's page, /config) ask for the       *)
(* configuration.  A fresh entry of the cache answers at once; otherwise   *)
(* the goroutine reads the main configuration, then, one reference after   *)
(* the other, the workflow configuration it names and the files that one   *)
(* names with $ref, leaves out the references that cannot be loaded or are *)
(* not valid, and stores what it has.  Nothing keeps two goroutines from   *)
(* loading at once, and the files change meanwhile.                        *)
(*                                                                         *)
(* A file is its version, or Bad: unreadable, empty, no YAML, not valid.   *)
(* The main configuration is the set of references it enables, or Bad.     *)
(* Times are kept as ages, counted up to where the code and the properties *)
(* stop telling them apart.  What the workflows of a file say is the       *)
(* matter of WorkflowRules.                                                *)
(***************************************************************************)
EXTENDS Integers, Sequences

CONSTANTS
  Loader,     \* goroutines that call LoadConfig
  Main,       \* the main configuration file
  File,       \* workflow configurations and files named by $ref
  Version,    \* what a good file can hold
  RefCount,   \* len(workflow_configs)
  Reads,      \* Reads[r]: the files reference r is made of, in reading order
  TTL,        \* CONFIG_CACHE_TTL_SECONDS; 0 disables the cache
  MaxLoad,    \* how long a load takes at most, its requests for tokens included
  Bad, Skipped, NoEntry,
  MaxTroubles \* bound: edits of the files and failing calls for them

Ref == 1 .. RefCount
Document == File \cup {Main}
FileContent == {Bad} \cup Version
MainContent == {Bad} \cup SUBSET Ref
Content == FileContent \cup MainContent

(* How long a configuration may be served after a file was read: its load  *)
(* and a stay in the cache that is shorter than the TTL.                   *)
Window == IF TTL = 0 THEN MaxLoad ELSE MaxLoad + TTL - 1

ASSUME ConfigLoadingAssumption ==
  /\ RefCount \in Nat /\ TTL \in Nat /\ MaxLoad \in Nat /\ MaxTroubles \in Nat
  /\ Reads \in [Ref -> Seq(File)] /\ \A r \in Ref : Reads[r] # <<>>
  /\ Main \notin File /\ Bad \notin Version /\ \A S \in SUBSET Ref : S # Bad
  /\ Skipped \notin Seq(Version)

VARIABLES
  doc,      \* doc[d]: the content of d in its repository
  entry,    \* the cache: enabled, merged and the age of the load, or NoEntry
  pc,       \* pc[l]: "idle", "main", "refs", "served" or "failed"
  age,      \* age[l]: time since the call of l began
  enabled,  \* enabled[l]: the main configuration as read
  next,     \* next[l]: the reference at hand
  part,     \* part[l]: the versions read for it so far
  merged,   \* merged[l]: what came of the references before it
  past,     \* history: contents that are gone, and since when
  cleared,  \* history: time since InvalidateCache, at most Window
  troubles

loads == <<pc, age, enabled, next, part, merged>>
vars == <<doc, entry, loads, past, cleared, troubles>>

(* A reference is merged with all of its files, or skipped.                *)
Merged == {m \in [Ref -> {Skipped} \cup Seq(Version)] :
             \A r \in Ref : m[r] # Skipped => Len(m[r]) = Len(Reads[r])}
Entry == [enabled : SUBSET Ref, merged : Merged, age : 0 .. TTL]
PastContent == [doc : Document, value : Content, age : 0 .. Window]

TypeOK ==
  /\ doc \in [Document -> Content]
  /\ \A f \in File : doc[f] \in FileContent
  /\ doc[Main] \in MainContent
  /\ entry \in {NoEntry} \cup Entry
  /\ pc \in [Loader -> {"idle", "main", "refs", "served", "failed"}]
  /\ age \in [Loader -> 0 .. MaxLoad]
  /\ enabled \in [Loader -> SUBSET Ref]
  /\ next \in [Loader -> 1 .. RefCount + 1]
  /\ part \in [Loader -> Seq(Version)]
  /\ merged \in [Loader -> Merged]
  /\ past \subseteq PastContent
  /\ cleared \in 0 .. Window
  /\ troubles \in 0 .. MaxTroubles

NoneMerged == [r \in Ref |-> Skipped]

Init ==
  /\ \E v \in Version : doc = [d \in Document |-> IF d = Main THEN Ref ELSE v]
  /\ entry = NoEntry
  /\ pc = [l \in Loader |-> "idle"]
  /\ age = [l \in Loader |-> 0]
  /\ enabled = [l \in Loader |-> {}]
  /\ next = [l \in Loader |-> 1]
  /\ part = [l \in Loader |-> <<>>]
  /\ merged = [l \in Loader |-> NoneMerged]
  /\ past = {}
  /\ cleared = Window
  /\ troubles = 0

-----------------------------------------------------------------------------
(* LoadConfig: the fast path under the read lock.                          *)

Mut_FreshAtTTL == entry # NoEntry /\ entry.age <= TTL

Fresh == entry # NoEntry /\ entry.age < TTL

Hit(l) ==
  /\ pc[l] = "idle" /\ Fresh
  /\ pc' = [pc EXCEPT ![l] = "served"]
  /\ enabled' = [enabled EXCEPT ![l] = entry.enabled]
  /\ merged' = [merged EXCEPT ![l] = entry.merged]
  /\ UNCHANGED <<doc, entry, age, next, part, past, cleared, troubles>>

Miss(l) ==
  /\ pc[l] = "idle" /\ ~ Fresh
  /\ pc' = [pc EXCEPT ![l] = "main"]
  /\ UNCHANGED <<doc, entry, age, enabled, next, part, merged, past, cleared,
                 troubles>>

(* LoadMainConfig: read, parse and validate the main configuration.        *)
LoadMain(l) ==
  /\ pc[l] = "main" /\ doc[Main] # Bad
  /\ pc' = [pc EXCEPT ![l] = "refs"]
  /\ enabled' = [enabled EXCEPT ![l] = doc[Main]]
  /\ next' = [next EXCEPT ![l] = 1]
  /\ part' = [part EXCEPT ![l] = <<>>]
  /\ merged' = [merged EXCEPT ![l] = NoneMerged]
  /\ UNCHANGED <<doc, entry, age, past, cleared, troubles>>

(* It cannot be read, not be used, or the deadline has passed: an error,   *)
(* which is not cached.                                                    *)
LoadMainFails(l) ==
  /\ pc[l] = "main"
  /\ pc' = [pc EXCEPT ![l] = "failed"]
  /\ UNCHANGED <<doc, entry, age, enabled, next, part, merged, past, cleared,
                 troubles>>

-----------------------------------------------------------------------------
(* resolveWorkflowReferences.                                              *)

AtRef(l) == pc[l] = "refs" /\ next[l] \in Ref

SkipDisabled(l) ==
  /\ AtRef(l) /\ next[l] \notin enabled[l]
  /\ next' = [next EXCEPT ![l] = @ + 1]
  /\ UNCHANGED <<doc, entry, pc, age, enabled, part, merged, past, cleared,
                 troubles>>

Reading(l, f) ==
  /\ AtRef(l) /\ next[l] \in enabled[l]
  /\ f = Reads[next[l]][Len(part[l]) + 1]

(* One file of the reference; with the last one the reference is merged.   *)
ReadFile(l, f) ==
  LET read == Append(part[l], doc[f])
  IN  /\ Reading(l, f) /\ doc[f] # Bad
      /\ IF Len(read) = Len(Reads[next[l]])
         THEN /\ merged' = [merged EXCEPT ![l] = [@ EXCEPT ![next[l]] = read]]
              /\ part' = [part EXCEPT ![l] = <<>>]
              /\ next' = [next EXCEPT ![l] = @ + 1]
         ELSE /\ part' = [part EXCEPT ![l] = read]
              /\ UNCHANGED <<merged, next>>
      /\ UNCHANGED <<doc, entry, pc, age, enabled, past, cleared, troubles>>

Gone(d, value) == past \cup {[doc |-> d, value |-> value, age |-> 0]}

(* The file is Bad, or the call for it fails, as every call does after the *)
(* deadline: the reference is skipped.                                     *)
SkipReference(l, f) ==
  /\ Reading(l, f)
  /\ \/ doc[f] = Bad /\ UNCHANGED <<past, troubles>>
     \/ /\ troubles < MaxTroubles
        /\ past' = Gone(f, Bad)
        /\ troubles' = troubles + 1
  /\ next' = [next EXCEPT ![l] = @ + 1]
  /\ part' = [part EXCEPT ![l] = <<>>]
  /\ UNCHANGED <<doc, entry, pc, age, enabled, merged, cleared>>

(* The merged configuration is stored, with the time of now, and returned; *)
(* without a workflow it is an error.                                      *)
SomeMerged(l) == \E r \in Ref : merged[l][r] # Skipped

Store(l) ==
  IF TTL = 0 THEN NoEntry
  ELSE [enabled |-> enabled[l], merged |-> merged[l], age |-> 0]

Finish(l) ==
  /\ pc[l] = "refs" /\ next[l] = RefCount + 1
  /\ IF SomeMerged(l)
     THEN pc' = [pc EXCEPT ![l] = "served"] /\ entry' = Store(l)
     ELSE pc' = [pc EXCEPT ![l] = "failed"] /\ UNCHANGED entry
  /\ UNCHANGED <<doc, age, enabled, next, part, merged, past, cleared, troubles>>

(* The caller has its answer, and some goroutine will call again.          *)
Return(l) ==
  /\ pc[l] \in {"served", "failed"}
  /\ pc' = [pc EXCEPT ![l] = "idle"]
  /\ age' = [age EXCEPT ![l] = 0]
  /\ enabled' = [enabled EXCEPT ![l] = {}]
  /\ next' = [next EXCEPT ![l] = 1]
  /\ part' = [part EXCEPT ![l] = <<>>]
  /\ merged' = [merged EXCEPT ![l] = NoneMerged]
  /\ UNCHANGED <<doc, entry, past, cleared, troubles>>

-----------------------------------------------------------------------------
Mut_KeepEntry == entry
Emptied == NoEntry

InvalidateCache ==
  /\ entry' = Emptied
  /\ cleared' = 0
  /\ UNCHANGED <<doc, loads, past, troubles>>

(* Somebody pushes to a repository that holds the configuration.           *)
Edit(d, content) ==
  /\ troubles < MaxTroubles
  /\ content # doc[d]
  /\ doc' = [doc EXCEPT ![d] = content]
  /\ past' = Gone(d, doc[d])
  /\ troubles' = troubles + 1
  /\ UNCHANGED <<entry, loads, cleared>>

Busy(l) == pc[l] \in {"main", "refs"}

(* Time passes; no load takes longer than MaxLoad: the context of its      *)
(* caller bounds its reads, and how long the requests for tokens, which    *)
(* do not carry it, take is in MaxLoad.  An answer is looked at when it is *)
(* given.                                                                  *)
Tick ==
  /\ \A l \in Loader : /\ Busy(l) => age[l] < MaxLoad
                       /\ pc[l] \notin {"served", "failed"}
  /\ age' = [l \in Loader |-> IF Busy(l) THEN age[l] + 1 ELSE age[l]]
  /\ entry' = IF entry = NoEntry \/ entry.age = TTL THEN entry
              ELSE [entry EXCEPT !.age = @ + 1]
  /\ past' = {[p EXCEPT !.age = @ + 1] : p \in {q \in past : q.age < Window}}
  /\ cleared' = IF cleared = Window THEN Window ELSE cleared + 1
  /\ UNCHANGED <<doc, pc, enabled, next, part, merged, troubles>>

Next ==
  \/ \E l \in Loader :
       \/ Hit(l) \/ Miss(l) \/ LoadMain(l) \/ LoadMainFails(l)
       \/ SkipDisabled(l) \/ Finish(l) \/ Return(l)
       \/ \E f \in File : ReadFile(l, f) \/ SkipReference(l, f)
  \/ InvalidateCache
  \/ \E d \in Document :
       \E content \in IF d = Main THEN MainContent ELSE FileContent : Edit(d, content)
  \/ Tick

Spec == Init /\ [][Next]_vars

-----------------------------------------------------------------------------
(* Did d hold the value at some time in the last n units?  A failed call   *)
(* counts as a moment at which the file was Bad.                           *)
Held(d, value, n) ==
  \/ doc[d] = value
  \/ \E p \in past : p.doc = d /\ p.value = value /\ p.age <= n

PartHeld(r, outcome, n) ==
  IF outcome = Skipped
  THEN \E i \in DOMAIN Reads[r] : Held(Reads[r][i], Bad, n)
  ELSE \A i \in DOMAIN outcome : Held(Reads[r][i], outcome[i], n)

ConfigHeld(refs, outcomes, n) ==
  /\ Held(Main, refs, n)
  /\ \A r \in refs : PartHeld(r, outcomes[r], n)

(* Every part of a configuration that LoadConfig returns, the references   *)
(* it lists included, was in its repository within the last TTL and load;  *)
(* a reference is missing from it only if a file of it could not be had    *)
(* within that time.  So an edit is seen, and a reference once skipped is  *)
(* back, at most that long after the repositories are in order.            *)
ServedIsRecent ==
  \A l \in Loader : pc[l] = "served" => ConfigHeld(enabled[l], merged[l], Window)

(* What is served after InvalidateCache was in the repositories no earlier *)
(* than the loads that were in flight then: they still store what they     *)
(* read before, everything else is forgotten.                              *)
InvalidationForgets ==
  [][\A l \in Loader : pc[l] # "served" /\ pc'[l] = "served" =>
       ConfigHeld(enabled[l], merged[l], cleared + MaxLoad)']_vars
=============================================================================

------------------------- MODULE ConfigurationProofs --------------------------
(***************************************************************************)
(* ConfigLoading is well typed, and what it serves was in the repositories *)
(* within the window, and since the last invalidation but for the loads in *)
(* flight then, for any goroutines, files, references and edits.           *)
(*                                                                         *)
(* The argument: every part of a load was there since the load began,      *)
(* every part of the cached configuration was there that long before the   *)
(* load ended, and both bounds grow with the clock.                        *)
(*                                                                         *)
(* WorkflowRules gives every merged workflow the settings of its own file, *)
(* and loses the workflows of an invalid file and no others, for any       *)
(* configurations.                                                         *)
(*                                                                         *)
(* The argument: a struct that workflows share is one of the defaults.     *)
(* Filling in its blanks a second time changes nothing, and a workflow     *)
(* that fills its own from it gets the same whether it was filled in       *)
(* before, so every struct is as written or as its readers expect.         *)
(*                                                                         *)
(* And files land where the rules put them in the directory tree, for any  *)
(* rules and paths.                                                        *)
(*                                                                         *)
(* The argument: the names of a path below a directory are the names of    *)
(* the directory and those of the rest; tidying a path keeps its names;    *)
(* and of two paths whose names agree, the first symbol that differs would *)
(* belong to a name or end one, so the text of a directory begins a path   *)
(* just if its names begin the names of the path.                          *)
(***************************************************************************)
EXTENDS ConfigLoading, WorkflowRules, FiniteSetTheorems, TLAPS

-----------------------------------------------------------------------------
(* ConfigLoading.                                                          *)


(* A load in flight has read what was there since it began.                *)
LoadsHold ==
  \A l \in Loader : pc[l] = "refs" =>
    /\ Held(Main, enabled[l], age[l])
    /\ \A r \in enabled[l] : r < next[l] => PartHeld(r, merged[l][r], age[l])
    /\ part[l] # <<>> => next[l] \in enabled[l]
    /\ \A s \in Ref : s >= next[l] => merged[l][s] = Skipped
    /\ next[l] \in Ref => Len(part[l]) < Len(Reads[next[l]])
    /\ next[l] \in Ref => \A i \in DOMAIN part[l] : Held(Reads[next[l]][i], part[l][i], age[l])

(* So is what is cached, and it was stored after the last invalidation.    *)
CacheHolds ==
  Fresh => /\ ConfigHeld(entry.enabled, entry.merged, MaxLoad + entry.age)
           /\ entry.age <= cleared

LoadingInv == TypeOK /\ LoadsHold /\ CacheHolds /\ ServedIsRecent

LEMMA LoadingConstants ==
  /\ RefCount \in Nat /\ TTL \in Nat /\ MaxLoad \in Nat /\ Window \in Nat /\ MaxTroubles \in Nat
  /\ MaxLoad <= Window
  /\ \A n \in Nat : n < TTL => MaxLoad + n <= Window
  /\ \A r \in Ref : Reads[r] \in Seq(File) /\ Len(Reads[r]) \in Nat \ {0}
  /\ \A r \in Ref : \A i \in 1 .. Len(Reads[r]) : Reads[r][i] \in File
  /\ Ref \subseteq Nat /\ File \subseteq Document /\ Main \in Document
  BY ConfigLoadingAssumption DEF Window, Ref, Document

-----------------------------------------------------------------------------
(* What was held so long ago was held longer ago.                          *)
LEMMA HeldLonger ==
  ASSUME TypeOK, NEW n \in Int, NEW m \in Int, n <= m, NEW d, NEW v, Held(d, v, n)
  PROVE  Held(d, v, m)
<1>1. \A p \in past : p.age \in Nat
  BY LoadingConstants DEF TypeOK, PastContent
<1> QED
  BY <1>1 DEF Held

LEMMA ConfigHeldLonger ==
  ASSUME TypeOK, NEW n \in Int, NEW m \in Int, n <= m, NEW refs, NEW outs, ConfigHeld(refs, outs, n)
  PROVE  ConfigHeld(refs, outs, m)
<1>1. \A d, v : Held(d, v, n) => Held(d, v, m)
  BY HeldLonger
<1> QED
  BY <1>1 DEF ConfigHeld, PartHeld

(* The files of a part and of a configuration are files.                   *)
LEMMA PartSteps ==
  ASSUME NEW n, NEW m, NEW r \in Ref, NEW outcome,
         outcome # Skipped => outcome \in Seq(Version) /\ Len(outcome) = Len(Reads[r]),
         \A d \in Document : \A v : Held(d, v, n) => Held(d, v, m)',
         PartHeld(r, outcome, n)
  PROVE  PartHeld(r, outcome, m)'
<1>1. DOMAIN Reads[r] = 1 .. Len(Reads[r]) /\ \A i \in DOMAIN Reads[r] : Reads[r][i] \in Document
  BY LoadingConstants
<1>2. CASE outcome = Skipped
  BY <1>1, <1>2 DEF PartHeld
<1>3. CASE outcome # Skipped
  <2>1. DOMAIN outcome = DOMAIN Reads[r]
    BY <1>1, <1>3
  <2> QED
    BY <1>1, <1>3, <2>1 DEF PartHeld
<1> QED
  BY <1>2, <1>3

LEMMA ConfigSteps ==
  ASSUME NEW n, NEW m, NEW refs \in SUBSET Ref, NEW outs \in Merged,
         \A d \in Document : \A v : Held(d, v, n) => Held(d, v, m)',
         ConfigHeld(refs, outs, n)
  PROVE  ConfigHeld(refs, outs, m)'
<1>1. \A r \in refs : PartHeld(r, outs[r], n) => PartHeld(r, outs[r], m)'
  <2> SUFFICES ASSUME NEW r \in refs, PartHeld(r, outs[r], n) PROVE PartHeld(r, outs[r], m)'
    OBVIOUS
  <2>1. r \in Ref
    OBVIOUS
  <2>2. outs \in [Ref -> {Skipped} \cup Seq(Version)] /\ (outs[r] # Skipped => Len(outs[r]) = Len(Reads[r]))
    BY <2>1 DEF Merged
  <2>3. outs[r] # Skipped => outs[r] \in Seq(Version) /\ Len(outs[r]) = Len(Reads[r])
    BY <2>1, <2>2
  <2> QED
    BY <2>1, <2>3, PartSteps
<1>2. Held(Main, refs, m)'
  BY LoadingConstants DEF ConfigHeld
<1> QED
  BY <1>1, <1>2 DEF ConfigHeld

(* Nothing that was held is forgotten by edits and failing calls, ...      *)
LEMMA HeldKept ==
  ASSUME TypeOK, past \subseteq past',
         \A d \in Document : doc'[d] = doc[d] \/ [doc |-> d, value |-> doc[d], age |-> 0] \in past',
         NEW n \in Nat, NEW d \in Document, NEW v, Held(d, v, n)
  PROVE  Held(d, v, n)'
<1>1. CASE doc[d] = v /\ doc'[d] # doc[d]
  <2> DEFINE p == [doc |-> d, value |-> v, age |-> 0]
  <2>1. p \in past' /\ p.doc = d /\ p.value = v /\ p.age = 0
    BY <1>1
  <2> HIDE DEF p
  <2> QED
    BY <2>1 DEF Held
<1>2. CASE doc[d] = v /\ doc'[d] = doc[d]
  BY <1>2 DEF Held
<1>3. CASE doc[d] # v
  BY <1>3 DEF Held
<1> QED
  BY <1>1, <1>2, <1>3

(* ... and with time it was held one unit longer ago.                      *)
LEMMA HeldTick ==
  ASSUME TypeOK, Tick, NEW n \in Nat, n < Window, NEW d \in Document, NEW v, Held(d, v, n)
  PROVE  Held(d, v, n + 1)'
<1>1. CASE doc[d] = v
  BY <1>1 DEF Tick, Held
<1>2. CASE doc[d] # v
  <2>1. PICK p \in past : p.doc = d /\ p.value = v /\ p.age <= n
    BY <1>2 DEF Held
  <2>2. p \in PastContent /\ p.age \in Nat
    BY LoadingConstants DEF TypeOK, PastContent
  <2>3. p.age < Window
    BY <2>1, <2>2, LoadingConstants
  <2>4. [p EXCEPT !.age = p.age + 1] \in past'
    BY <2>3 DEF Tick
  <2>5. /\ [p EXCEPT !.age = p.age + 1].doc = d /\ [p EXCEPT !.age = p.age + 1].value = v
        /\ [p EXCEPT !.age = p.age + 1].age = p.age + 1
    BY <2>1, <2>2 DEF PastContent
  <2>6. p.age + 1 <= n + 1
    BY <2>1, <2>2
  <2> QED
    BY <2>4, <2>5, <2>6 DEF Held
<1> QED
  BY <1>1, <1>2

-----------------------------------------------------------------------------
LEMMA LoadingInitInv == Init => LoadingInv
<1> SUFFICES ASSUME Init PROVE LoadingInv
  OBVIOUS
<1>1. NoneMerged \in Merged
  BY DEF NoneMerged, Merged
<1>2. PICK v \in Version : doc = [d \in Document |-> IF d = Main THEN Ref ELSE v]
  BY DEF Init
<1>3. /\ doc \in [Document -> Content] /\ doc[Main] \in MainContent
      /\ \A f \in File : doc[f] \in FileContent
  BY <1>2, ConfigLoadingAssumption DEF Document, Content, MainContent, FileContent
<1>4. TypeOK
  <2>1. /\ age \in [Loader -> 0 .. MaxLoad] /\ next \in [Loader -> 1 .. RefCount + 1]
        /\ cleared \in 0 .. Window /\ troubles \in 0 .. MaxTroubles
    BY LoadingConstants DEF Init
  <2>2. /\ enabled \in [Loader -> SUBSET Ref] /\ part \in [Loader -> Seq(Version)]
        /\ merged \in [Loader -> Merged]
        /\ pc \in [Loader -> {"idle", "main", "refs", "served", "failed"}]
    BY <1>1 DEF Init
  <2>3. past \subseteq PastContent /\ entry \in {NoEntry} \cup Entry
    BY DEF Init
  <2> QED
    BY <1>3, <2>1, <2>2, <2>3 DEF TypeOK
<1>5. LoadsHold /\ CacheHolds /\ ServedIsRecent
  BY DEF Init, LoadsHold, CacheHolds, Fresh, ServedIsRecent
<1> QED
  BY <1>4, <1>5 DEF LoadingInv

(* What a read adds to a load.                                             *)
LEMMA ReadFacts ==
  ASSUME LoadingInv, NEW l \in Loader, NEW f \in File, Reading(l, f)
  PROVE  /\ next[l] \in Ref /\ next[l] \in enabled[l] /\ pc[l] = "refs"
         /\ part[l] \in Seq(Version) /\ Len(part[l]) < Len(Reads[next[l]])
         /\ \A i \in 1 .. Len(part[l]) : Held(Reads[next[l]][i], part[l][i], age[l])
         /\ doc[f] # Bad => /\ Append(part[l], doc[f]) \in Seq(Version)
                            /\ \A i \in 1 .. Len(part[l]) + 1 :
                                 Held(Reads[next[l]][i], Append(part[l], doc[f])[i], age[l])
<1>1. /\ next[l] \in Ref /\ next[l] \in enabled[l] /\ pc[l] = "refs"
      /\ f = Reads[next[l]][Len(part[l]) + 1]
  BY DEF Reading, AtRef
<1>2. part[l] \in Seq(Version) /\ Len(part[l]) \in Nat /\ DOMAIN part[l] = 1 .. Len(part[l])
  BY DEF LoadingInv, TypeOK
<1>3. /\ Len(part[l]) < Len(Reads[next[l]])
      /\ \A i \in 1 .. Len(part[l]) : Held(Reads[next[l]][i], part[l][i], age[l])
  BY <1>1, <1>2 DEF LoadingInv, LoadsHold
<1>4. ASSUME doc[f] # Bad
      PROVE  /\ Append(part[l], doc[f]) \in Seq(Version)
             /\ \A i \in 1 .. Len(part[l]) + 1 :
                  Held(Reads[next[l]][i], Append(part[l], doc[f])[i], age[l])
  <2>1. doc[f] \in Version
    BY <1>4 DEF LoadingInv, TypeOK, FileContent
  <2>2. Append(part[l], doc[f]) \in Seq(Version)
    BY <1>2, <2>1
  <2>3. Held(Reads[next[l]][Len(part[l]) + 1], doc[f], age[l])
    BY <1>1 DEF Held
  <2>4. \A i \in 1 .. Len(part[l]) : Append(part[l], doc[f])[i] = part[l][i]
    BY <1>2, <2>1
  <2>5. Append(part[l], doc[f])[Len(part[l]) + 1] = doc[f]
    BY <1>2, <2>1
  <2>6. \A i \in 1 .. Len(part[l]) + 1 : i \in 1 .. Len(part[l]) \/ i = Len(part[l]) + 1
    BY <1>2
  <2> QED
    BY <1>3, <2>2, <2>3, <2>4, <2>5, <2>6
<1> QED
  BY <1>1, <1>2, <1>3, <1>4

-----------------------------------------------------------------------------
(* What a step leaves alone.                                               *)

LoadHolds(l) ==
  pc[l] = "refs" =>
    /\ Held(Main, enabled[l], age[l])
    /\ \A r \in enabled[l] : r < next[l] => PartHeld(r, merged[l][r], age[l])
    /\ part[l] # <<>> => next[l] \in enabled[l]
    /\ \A s \in Ref : s >= next[l] => merged[l][s] = Skipped
    /\ next[l] \in Ref => Len(part[l]) < Len(Reads[next[l]])
    /\ next[l] \in Ref => \A i \in DOMAIN part[l] : Held(Reads[next[l]][i], part[l][i], age[l])

ServedHolds(l) == pc[l] = "served" => ConfigHeld(enabled[l], merged[l], Window)

(* Whatever was held for so long is still held for so long.                *)
Kept == \A n \in Nat : \A d \in Document : \A v : Held(d, v, n) => Held(d, v, n)'

LEMMA KeptWithoutChange ==
  ASSUME UNCHANGED <<doc, past>>
  PROVE  Kept
  BY DEF Kept, Held

LEMMA Outcomes ==
  ASSUME NEW m \in Merged, NEW r \in Ref
  PROVE  m[r] # Skipped => m[r] \in Seq(Version) /\ Len(m[r]) = Len(Reads[r])
<1>1. m \in [Ref -> {Skipped} \cup Seq(Version)] /\ (m[r] # Skipped => Len(m[r]) = Len(Reads[r]))
  BY DEF Merged
<1> QED
  BY <1>1

LEMMA Carried ==
  ASSUME LoadingInv, Kept, NEW k \in Loader,
         /\ pc'[k] = pc[k] /\ age'[k] = age[k] /\ enabled'[k] = enabled[k]
         /\ next'[k] = next[k] /\ part'[k] = part[k] /\ merged'[k] = merged[k]
  PROVE  LoadHolds(k)' /\ ServedHolds(k)'
<1>1. age[k] \in Nat /\ enabled[k] \in SUBSET Ref /\ merged[k] \in Merged /\ part[k] \in Seq(Version)
  BY LoadingConstants DEF LoadingInv, TypeOK
<1>2. ServedHolds(k)'
  <2> SUFFICES ASSUME pc[k] = "served" PROVE ConfigHeld(enabled[k], merged[k], Window)'
    BY DEF ServedHolds
  <2>1. ConfigHeld(enabled[k], merged[k], Window)
    BY DEF LoadingInv, ServedIsRecent
  <2>2. \A d \in Document : \A v : Held(d, v, Window) => Held(d, v, Window)'
    BY LoadingConstants DEF Kept
  <2>3. \A refs \in SUBSET Ref, outs \in Merged :
          ConfigHeld(refs, outs, Window) => ConfigHeld(refs, outs, Window)'
    BY <2>2, ConfigSteps
  <2> QED
    BY <1>1, <2>1, <2>3
<1>3. LoadHolds(k)'
  <2> SUFFICES ASSUME pc[k] = "refs"
               PROVE
       /\ Held(Main, enabled[k], age[k])'
       /\ \A r \in enabled[k] : r < next[k] => PartHeld(r, merged[k][r], age[k])'
       /\ part[k] # <<>> => next[k] \in enabled[k]
       /\ \A s \in Ref : s >= next[k] => merged[k][s] = Skipped
       /\ next[k] \in Ref => Len(part[k]) < Len(Reads[next[k]])
       /\ next[k] \in Ref => \A i \in DOMAIN part[k] : Held(Reads[next[k]][i], part[k][i], age[k])'
    BY DEF LoadHolds
  <2>1. Held(Main, enabled[k], age[k])'
    BY <1>1, LoadingConstants DEF LoadingInv, LoadsHold, Kept
  <2>2. ASSUME NEW r \in enabled[k], r < next[k] PROVE PartHeld(r, merged[k][r], age[k])'
    <3>1. PartHeld(r, merged[k][r], age[k]) /\ r \in Ref
      BY <1>1, <2>2 DEF LoadingInv, LoadsHold
    <3>2. merged[k][r] # Skipped => merged[k][r] \in Seq(Version) /\ Len(merged[k][r]) = Len(Reads[r])
      BY <1>1, <3>1, Outcomes
    <3>3. \A d \in Document : \A v : Held(d, v, age[k]) => Held(d, v, age[k])'
      BY <1>1 DEF Kept
    <3>4. \A n \in Nat : (\A d \in Document : \A v : Held(d, v, n) => Held(d, v, n)') =>
            \A outcome : (outcome # Skipped => outcome \in Seq(Version) /\ Len(outcome) = Len(Reads[r]))
              /\ PartHeld(r, outcome, n) => PartHeld(r, outcome, n)'
      BY <3>1, PartSteps
    <3> QED
      BY <1>1, <3>1, <3>2, <3>3, <3>4 DEF Kept
  <2>3. ASSUME next[k] \in Ref
        PROVE  /\ Len(part[k]) < Len(Reads[next[k]])
               /\ \A i \in DOMAIN part[k] : Held(Reads[next[k]][i], part[k][i], age[k])'
    <3>1. /\ Len(part[k]) < Len(Reads[next[k]])
          /\ \A i \in DOMAIN part[k] : Held(Reads[next[k]][i], part[k][i], age[k])
      BY <2>3 DEF LoadingInv, LoadsHold
    <3>2. \A i \in DOMAIN part[k] : i \in 1 .. Len(Reads[next[k]])
      BY <1>1, <2>3, <3>1, LoadingConstants
    <3>3. \A i \in DOMAIN part[k] : Reads[next[k]][i] \in Document
      BY <2>3, <3>2, LoadingConstants
    <3> QED
      BY <1>1, <3>1, <3>3 DEF Kept
  <2>4. /\ part[k] # <<>> => next[k] \in enabled[k]
        /\ \A s \in Ref : s >= next[k] => merged[k][s] = Skipped
    BY DEF LoadingInv, LoadsHold
  <2> QED
    BY <2>1, <2>2, <2>3, <2>4
<1> QED
  BY <1>2, <1>3

LEMMA CacheCarried ==
  ASSUME LoadingInv, Kept, entry' = entry, cleared' = cleared
  PROVE  CacheHolds'
<1> SUFFICES ASSUME Fresh
             PROVE  ConfigHeld(entry.enabled, entry.merged, MaxLoad + entry.age)' /\ entry.age <= cleared
  BY DEF CacheHolds, Fresh
<1>1. entry.enabled \in SUBSET Ref /\ entry.merged \in Merged /\ entry.age \in Nat
  BY LoadingConstants DEF Fresh, LoadingInv, TypeOK, Entry
<1>2. ConfigHeld(entry.enabled, entry.merged, MaxLoad + entry.age) /\ entry.age <= cleared
  BY DEF LoadingInv, CacheHolds
<1>3. MaxLoad + entry.age \in Nat
  BY <1>1, LoadingConstants
<1>4. \A d \in Document : \A v : Held(d, v, MaxLoad + entry.age) => Held(d, v, MaxLoad + entry.age)'
  BY <1>3 DEF Kept
<1> QED
  BY <1>1, <1>2, <1>4, ConfigSteps

(* Enough for a step of one load to keep the invariant.                    *)
LEMMA OneMoves ==
  ASSUME LoadingInv, TypeOK', Kept, NEW l \in Loader,
         \A k \in Loader : k # l =>
           /\ pc'[k] = pc[k] /\ age'[k] = age[k] /\ enabled'[k] = enabled[k]
           /\ next'[k] = next[k] /\ part'[k] = part[k] /\ merged'[k] = merged[k],
         LoadHolds(l)', ServedHolds(l)', CacheHolds'
  PROVE  LoadingInv'
<1>1. \A k \in Loader : LoadHolds(k)' /\ ServedHolds(k)'
  BY Carried
<1> QED
  BY <1>1 DEF LoadingInv, LoadsHold, ServedIsRecent, LoadHolds, ServedHolds

-----------------------------------------------------------------------------
LEMMA HitKeeps ==
  ASSUME LoadingInv, NEW l \in Loader, Hit(l)
  PROVE  LoadingInv'
<1>1. Kept /\ CacheHolds'
  BY KeptWithoutChange, CacheCarried DEF Hit
<1>2. entry \in Entry /\ entry # NoEntry /\ entry.age \in Nat /\ entry.age < TTL
  BY LoadingConstants DEF Hit, Fresh, LoadingInv, TypeOK, Entry
<1>3. entry.enabled \in SUBSET Ref /\ entry.merged \in Merged
  BY <1>2 DEF Entry
<1>4. TypeOK'
  BY <1>3 DEF Hit, LoadingInv, TypeOK
<1>5. ConfigHeld(entry.enabled, entry.merged, MaxLoad + entry.age)
  BY DEF Hit, LoadingInv, CacheHolds
<1>6. MaxLoad + entry.age \in Int /\ Window \in Int /\ MaxLoad + entry.age <= Window
  BY <1>2, LoadingConstants
<1>7. ConfigHeld(entry.enabled, entry.merged, Window)
  BY <1>5, <1>6, ConfigHeldLonger DEF LoadingInv
<1>8. ConfigHeld(entry.enabled, entry.merged, Window)'
  <2>1. \A d \in Document : \A v : Held(d, v, Window) => Held(d, v, Window)'
    BY <1>1, LoadingConstants DEF Kept
  <2>2. \A refs \in SUBSET Ref, outs \in Merged :
          ConfigHeld(refs, outs, Window) => ConfigHeld(refs, outs, Window)'
    BY <2>1, ConfigSteps
  <2>3. UNCHANGED entry
    BY DEF Hit
  <2> QED
    BY <1>3, <1>7, <2>2, <2>3
<1>9. /\ pc'[l] = "served" /\ enabled'[l] = entry.enabled /\ merged'[l] = entry.merged
      /\ entry' = entry
      /\ \A k \in Loader : k # l =>
           /\ pc'[k] = pc[k] /\ age'[k] = age[k] /\ enabled'[k] = enabled[k]
           /\ next'[k] = next[k] /\ part'[k] = part[k] /\ merged'[k] = merged[k]
  BY DEF Hit, LoadingInv, TypeOK
<1>10. LoadHolds(l)' /\ ServedHolds(l)'
  BY <1>8, <1>9 DEF LoadHolds, ServedHolds
<1> QED
  BY <1>1, <1>4, <1>9, <1>10, OneMoves

LEMMA MissKeeps ==
  ASSUME LoadingInv, NEW l \in Loader, Miss(l) \/ LoadMainFails(l)
  PROVE  LoadingInv'
<1>1. Kept /\ CacheHolds'
  BY KeptWithoutChange, CacheCarried DEF Miss, LoadMainFails
<1>2. TypeOK'
  BY DEF Miss, LoadMainFails, LoadingInv, TypeOK
<1>3. /\ pc'[l] \in {"main", "failed"}
      /\ \A k \in Loader : k # l =>
           /\ pc'[k] = pc[k] /\ age'[k] = age[k] /\ enabled'[k] = enabled[k]
           /\ next'[k] = next[k] /\ part'[k] = part[k] /\ merged'[k] = merged[k]
  BY DEF Miss, LoadMainFails, LoadingInv, TypeOK
<1>4. LoadHolds(l)' /\ ServedHolds(l)'
  BY <1>3 DEF LoadHolds, ServedHolds
<1> QED
  BY <1>1, <1>2, <1>3, <1>4, OneMoves

LEMMA LoadMainKeeps ==
  ASSUME LoadingInv, NEW l \in Loader, LoadMain(l)
  PROVE  LoadingInv'
<1>1. Kept /\ CacheHolds'
  BY KeptWithoutChange, CacheCarried DEF LoadMain
<1>2. NoneMerged \in Merged /\ 1 \in 1 .. RefCount + 1 /\ doc[Main] \in SUBSET Ref
  BY LoadingConstants DEF NoneMerged, Merged, LoadMain, LoadingInv, TypeOK, MainContent
<1>3. TypeOK'
  BY <1>2 DEF LoadMain, LoadingInv, TypeOK
<1>4. /\ pc'[l] = "refs" /\ enabled'[l] = doc[Main] /\ next'[l] = 1 /\ part'[l] = <<>>
      /\ \A k \in Loader : k # l =>
           /\ pc'[k] = pc[k] /\ age'[k] = age[k] /\ enabled'[k] = enabled[k]
           /\ next'[k] = next[k] /\ part'[k] = part[k] /\ merged'[k] = merged[k]
  BY DEF LoadMain, LoadingInv, TypeOK
<1>5. LoadHolds(l)'
  <2>1. Held(Main, enabled[l], age[l])'
    BY <1>4 DEF LoadMain, Held
  <2>2. \A r \in enabled'[l] : ~ r < next'[l]
    BY <1>2, <1>4, LoadingConstants DEF Ref
  <2>3. next'[l] \in Ref => Len(part'[l]) < Len(Reads[next'[l]])
    BY <1>4, LoadingConstants
  <2>4. DOMAIN part'[l] = {} /\ \A s \in Ref : merged'[l][s] = Skipped
    BY <1>4 DEF NoneMerged, LoadMain, LoadingInv, TypeOK
  <2> QED
    BY <1>4, <2>1, <2>2, <2>3, <2>4 DEF LoadHolds
<1>6. ServedHolds(l)'
  BY <1>4 DEF ServedHolds
<1> QED
  BY <1>1, <1>3, <1>4, <1>5, <1>6, OneMoves

(* One more reference is dealt with.                                       *)
LEMMA ReferenceSteps ==
  ASSUME LoadingInv, NEW l \in Loader, pc[l] = "refs", next[l] \in Ref, Kept, TypeOK', CacheHolds',
         pc' = pc, age' = age, enabled' = enabled,
         next' = [next EXCEPT ![l] = next[l] + 1],
         part' = [part EXCEPT ![l] = <<>>],
         \A k \in Loader : k # l => merged'[k] = merged[k],
         \A r \in Ref : r # next[l] => merged'[l][r] = merged[l][r],
         \A r \in enabled[l] : r = next[l] => PartHeld(r, merged[l][r], age[l])'
  PROVE  LoadingInv'
<1>1. /\ age[l] \in Nat /\ enabled[l] \in SUBSET Ref /\ merged[l] \in Merged
      /\ next[l] \in Nat /\ next'[l] = next[l] + 1 /\ part'[l] = <<>>
  BY LoadingConstants DEF LoadingInv, TypeOK
<1>2. Held(Main, enabled[l], age[l])'
  BY <1>1, LoadingConstants DEF LoadingInv, LoadsHold, Kept
<1>3. ASSUME NEW r \in enabled[l], r < next[l] + 1 PROVE PartHeld(r, merged[l][r], age[l])'
  <2>1. r \in Ref /\ r \in Nat
    BY <1>1, LoadingConstants
  <2>2. CASE r = next[l]
    BY <2>2
  <2>3. CASE r # next[l]
    <3>1. r < next[l]
      BY <1>1, <1>3, <2>1, <2>3
    <3>2. PartHeld(r, merged[l][r], age[l])
      BY <3>1 DEF LoadingInv, LoadsHold
    <3>3. merged[l][r] # Skipped => merged[l][r] \in Seq(Version) /\ Len(merged[l][r]) = Len(Reads[r])
      BY <1>1, <2>1, Outcomes
    <3>4. \A n \in Nat : (\A d \in Document : \A v : Held(d, v, n) => Held(d, v, n)') =>
            \A outcome : (outcome # Skipped => outcome \in Seq(Version) /\ Len(outcome) = Len(Reads[r]))
              /\ PartHeld(r, outcome, n) => PartHeld(r, outcome, n)'
      BY <2>1, PartSteps
    <3>5. \A outcome : (outcome # Skipped => outcome \in Seq(Version) /\ Len(outcome) = Len(Reads[r]))
              /\ PartHeld(r, outcome, age[l]) => PartHeld(r, outcome, age[l])'
      BY <1>1, <3>4 DEF Kept
    <3>6. merged'[l][r] = merged[l][r]
      BY <2>1, <2>3
    <3> QED
      BY <3>2, <3>3, <3>5, <3>6
  <2> QED
    BY <2>2, <2>3
<1>4. next'[l] \in Ref => Len(part'[l]) < Len(Reads[next'[l]])
  BY <1>1, LoadingConstants
<1>5. DOMAIN part'[l] = {} /\ \A s \in Ref : s >= next'[l] => merged'[l][s] = Skipped
  <2>1. \A s \in Ref : s >= next[l] + 1 => s # next[l] /\ s >= next[l]
    BY <1>1, LoadingConstants
  <2> QED
    BY <1>1, <2>1 DEF LoadingInv, LoadsHold
<1>6. LoadHolds(l)' /\ ServedHolds(l)'
  BY <1>1, <1>2, <1>3, <1>4, <1>5 DEF LoadHolds, ServedHolds
<1>7. \A k \in Loader : k # l => next'[k] = next[k] /\ part'[k] = part[k]
  BY DEF LoadingInv, TypeOK
<1> QED
  BY <1>6, <1>7, OneMoves

LEMMA NextInRange ==
  ASSUME TypeOK, NEW l \in Loader, next[l] \in Ref
  PROVE  next[l] + 1 \in 1 .. RefCount + 1
  BY LoadingConstants DEF Ref

LEMMA SkipDisabledKeeps ==
  ASSUME LoadingInv, NEW l \in Loader, SkipDisabled(l)
  PROVE  LoadingInv'
<1>1. Kept /\ CacheHolds'
  BY KeptWithoutChange, CacheCarried DEF SkipDisabled
<1>2. pc[l] = "refs" /\ next[l] \in Ref /\ next[l] + 1 \in 1 .. RefCount + 1
  BY NextInRange DEF SkipDisabled, AtRef, LoadingInv
<1>3. TypeOK'
  BY <1>2 DEF SkipDisabled, LoadingInv, TypeOK
<1>4. \A k \in Loader : k # l =>
        /\ pc'[k] = pc[k] /\ age'[k] = age[k] /\ enabled'[k] = enabled[k]
        /\ next'[k] = next[k] /\ part'[k] = part[k] /\ merged'[k] = merged[k]
  BY DEF SkipDisabled, LoadingInv, TypeOK
<1>5. CASE part[l] = <<>>
  <2>1. part' = [part EXCEPT ![l] = <<>>]
    BY <1>5 DEF SkipDisabled, LoadingInv, TypeOK
  <2>2. /\ pc' = pc /\ age' = age /\ enabled' = enabled /\ merged' = merged
        /\ next' = [next EXCEPT ![l] = next[l] + 1] /\ next[l] \notin enabled[l]
    BY DEF SkipDisabled
  <2> QED
    BY <1>1, <1>2, <1>3, <2>1, <2>2, ReferenceSteps
<1>6. part[l] = <<>>
  BY <1>2 DEF LoadingInv, LoadsHold, SkipDisabled
<1> QED
  BY <1>5, <1>6

LEMMA ReadFileKeeps ==
  ASSUME LoadingInv, NEW l \in Loader, NEW f \in File, ReadFile(l, f)
  PROVE  LoadingInv'
<1> DEFINE read == Append(part[l], doc[f])
           r == next[l]
<1>1. Kept /\ CacheHolds'
  BY KeptWithoutChange, CacheCarried DEF ReadFile
<1>2. Reading(l, f) /\ doc[f] # Bad
  BY DEF ReadFile
<1>3. /\ r \in Ref /\ r \in enabled[l] /\ pc[l] = "refs"
      /\ part[l] \in Seq(Version) /\ Len(part[l]) \in Nat /\ Len(part[l]) < Len(Reads[r])
      /\ read \in Seq(Version) /\ Len(read) = Len(part[l]) + 1 /\ DOMAIN read = 1 .. Len(part[l]) + 1
      /\ \A i \in DOMAIN read : Held(Reads[r][i], read[i], age[l])
  <2>1. part[l] \in Seq(Version) /\ read \in Seq(Version)
    BY <1>2, ReadFacts
  <2>2. Len(read) = Len(part[l]) + 1 /\ DOMAIN read = 1 .. Len(part[l]) + 1 /\ Len(part[l]) \in Nat
    BY <2>1
  <2> QED
    BY <1>2, <2>1, <2>2, ReadFacts
<1>4. age[l] \in Nat /\ merged[l] \in Merged
  BY LoadingConstants DEF LoadingInv, TypeOK
<1>5. CASE Len(read) = Len(Reads[r])
  <2>1. /\ merged' = [merged EXCEPT ![l] = [merged[l] EXCEPT ![r] = read]]
        /\ part' = [part EXCEPT ![l] = <<>>] /\ next' = [next EXCEPT ![l] = r + 1]
        /\ pc' = pc /\ age' = age /\ enabled' = enabled
    BY <1>5 DEF ReadFile
  <2>2. [merged[l] EXCEPT ![r] = read] \in Merged
    BY <1>3, <1>4, <1>5 DEF Merged
  <2>3. TypeOK'
    BY <1>3, <2>1, <2>2, NextInRange DEF ReadFile, LoadingInv, TypeOK
  <2>4. /\ \A k \in Loader : k # l => merged'[k] = merged[k]
        /\ merged'[l][r] = read
        /\ \A s \in Ref : s # r => merged'[l][s] = merged[l][s]
    <3>1. merged[l] \in [Ref -> {Skipped} \cup Seq(Version)]
      BY <1>4 DEF Merged
    <3> QED
      BY <1>3, <2>1, <3>1 DEF LoadingInv, TypeOK
  <2>5. PartHeld(r, read, age[l])
    <3>1. read # Skipped
      BY <1>3, ConfigLoadingAssumption
    <3> QED
      BY <1>3, <3>1 DEF PartHeld
  <2>7. \A s \in Ref : \A outcome :
          (outcome # Skipped => outcome \in Seq(Version) /\ Len(outcome) = Len(Reads[s]))
            /\ PartHeld(s, outcome, age[l]) => PartHeld(s, outcome, age[l])'
    <3> SUFFICES ASSUME NEW s \in Ref
                 PROVE  \A outcome :
          (outcome # Skipped => outcome \in Seq(Version) /\ Len(outcome) = Len(Reads[s]))
            /\ PartHeld(s, outcome, age[l]) => PartHeld(s, outcome, age[l])'
      OBVIOUS
    <3>1. \A n \in Nat : (\A d \in Document : \A v : Held(d, v, n) => Held(d, v, n)') =>
            \A outcome : (outcome # Skipped => outcome \in Seq(Version) /\ Len(outcome) = Len(Reads[s]))
              /\ PartHeld(s, outcome, n) => PartHeld(s, outcome, n)'
      BY PartSteps
    <3>2. age'[l] = age[l]
      BY <2>1
    <3> QED
      BY <1>1, <1>4, <3>1, <3>2 DEF Kept
  <2>8. \A s \in enabled[l] : s = r => PartHeld(s, merged[l][s], age[l])'
    BY <1>3, <1>5, <2>4, <2>5, <2>7
  <2> QED
    BY <1>1, <1>3, <2>1, <2>3, <2>4, <2>8, ReferenceSteps
<1>6. CASE Len(read) # Len(Reads[r])
  <2>1. /\ part' = [part EXCEPT ![l] = read]
        /\ UNCHANGED <<merged, next, pc, age, enabled, doc, entry, past, cleared, troubles>>
    BY <1>6 DEF ReadFile
  <2>2. TypeOK'
    BY <1>3, <2>1 DEF LoadingInv, TypeOK
  <2>3. part'[l] = read /\ \A k \in Loader : k # l => part'[k] = part[k]
    BY <2>1 DEF LoadingInv, TypeOK
  <2>4. Len(read) < Len(Reads[r])
    BY <1>3, <1>6, LoadingConstants
  <2>5. LoadHolds(l)' /\ ServedHolds(l)'
    BY <1>3, <2>1, <2>3, <2>4 DEF LoadHolds, ServedHolds, LoadingInv, LoadsHold, Held, PartHeld
  <2> QED
    BY <1>1, <2>1, <2>2, <2>3, <2>5, OneMoves
<1> QED
  BY <1>5, <1>6

LEMMA SkipReferenceKeeps ==
  ASSUME LoadingInv, NEW l \in Loader, NEW f \in File, SkipReference(l, f)
  PROVE  LoadingInv'
<1> DEFINE r == next[l]
<1>1. /\ r \in Ref /\ r \in enabled[l] /\ pc[l] = "refs"
      /\ f = Reads[r][Len(part[l]) + 1] /\ Len(part[l]) + 1 \in 1 .. Len(Reads[r])
  <2>1. Reading(l, f) /\ f = Reads[r][Len(part[l]) + 1]
    BY DEF SkipReference, Reading
  <2>2. part[l] \in Seq(Version) /\ Len(part[l]) < Len(Reads[r]) /\ r \in Ref
    BY <2>1, ReadFacts
  <2> QED
    BY <2>1, <2>2, ReadFacts, LoadingConstants
<1>2. past \subseteq past' /\ doc' = doc
  BY DEF SkipReference, Gone
<1>3. Kept
  BY <1>2, HeldKept DEF Kept, LoadingInv
<1>4. CacheHolds'
  BY <1>3, CacheCarried DEF SkipReference
<1>5. TypeOK'
  <2>1. past' \subseteq PastContent /\ troubles' \in 0 .. MaxTroubles
    <3>1. CASE UNCHANGED <<past, troubles>>
      BY <3>1 DEF LoadingInv, TypeOK
    <3>2. CASE troubles < MaxTroubles /\ past' = Gone(f, Bad) /\ troubles' = troubles + 1
      <4>1. [doc |-> f, value |-> Bad, age |-> 0] \in PastContent
        BY LoadingConstants DEF PastContent, Content, FileContent
      <4> QED
        BY <3>2, <4>1, LoadingConstants DEF Gone, LoadingInv, TypeOK
    <3> QED
      BY <3>1, <3>2 DEF SkipReference
  <2> QED
    BY <1>1, <2>1, NextInRange DEF SkipReference, LoadingInv, TypeOK
<1>6. (doc[f] = Bad \/ \E p \in past : p.doc = f /\ p.value = Bad /\ p.age <= 0)'
  <2>1. CASE doc[f] = Bad
    BY <1>2, <2>1
  <2>2. CASE doc[f] # Bad
    <3> DEFINE p == [doc |-> f, value |-> Bad, age |-> 0]
    <3>1. p \in past' /\ p.doc = f /\ p.value = Bad /\ p.age = 0
      BY <2>2 DEF SkipReference, Gone
    <3> HIDE DEF p
    <3> QED
      BY <3>1
  <2> QED
    BY <2>1, <2>2
<1>7. /\ pc' = pc /\ age' = age /\ enabled' = enabled /\ merged' = merged
      /\ next' = [next EXCEPT ![l] = r + 1] /\ part' = [part EXCEPT ![l] = <<>>]
  BY DEF SkipReference
<1>8. age[l] \in Nat /\ merged[l][r] = Skipped
  BY <1>1, LoadingConstants DEF LoadingInv, TypeOK, LoadsHold
<1>9. \A s \in enabled[l] : s = r => PartHeld(s, merged[l][s], age[l])'
  <2> SUFFICES ASSUME NEW s \in enabled[l], s = r
               PROVE  \E i \in DOMAIN Reads[s] : Held(Reads[s][i], Bad, age[l])'
    BY <1>7, <1>8 DEF PartHeld
  <2> DEFINE i == Len(part[l]) + 1
  <2>1. i \in DOMAIN Reads[s] /\ Reads[s][i] = f
    BY <1>1, LoadingConstants
  <2>2. doc'[f] = Bad \/ \E p \in past' : p.doc = f /\ p.value = Bad /\ p.age <= age[l]
    <3>1. past' \subseteq PastContent
      BY <1>5 DEF TypeOK
    <3>2. \A p \in past' : p.age \in Nat
      BY <3>1, LoadingConstants DEF PastContent
    <3> QED
      BY <1>6, <1>8, <3>2
  <2>3. age'[l] = age[l]
    BY <1>7
  <2> QED
    BY <2>1, <2>2, <2>3 DEF Held
<1> QED
  BY <1>1, <1>3, <1>4, <1>5, <1>7, <1>9, ReferenceSteps

(* With the last reference, the whole configuration was there since the    *)
(* load began.                                                             *)
LEMMA FinishKeeps ==
  ASSUME LoadingInv, NEW l \in Loader, Finish(l)
  PROVE  LoadingInv' /\ (pc'[l] = "served" => ConfigHeld(enabled[l], merged[l], age[l])')
<1>1. /\ Kept /\ pc[l] = "refs" /\ next[l] = RefCount + 1
      /\ UNCHANGED <<doc, age, enabled, next, part, merged, past, cleared, troubles>>
  BY KeptWithoutChange DEF Finish
<1>2. /\ age[l] \in Nat /\ age[l] <= MaxLoad /\ enabled[l] \in SUBSET Ref /\ merged[l] \in Merged
      /\ cleared \in Nat
  BY LoadingConstants DEF LoadingInv, TypeOK
<1>3. ConfigHeld(enabled[l], merged[l], age[l])
  <2>1. \A r \in enabled[l] : r \in Ref
    BY <1>2
  <2>2. \A r \in Ref : r < next[l]
    BY <1>1, LoadingConstants DEF Ref
  <2> QED
    BY <1>1, <2>1, <2>2 DEF LoadingInv, LoadsHold, ConfigHeld
<1>4. \A n \in Nat : age[l] <= n => ConfigHeld(enabled[l], merged[l], n)
  BY <1>2, <1>3, ConfigHeldLonger DEF LoadingInv
<1>5. \A n \in Nat, refs \in SUBSET Ref, outs \in Merged :
        ConfigHeld(refs, outs, n) => ConfigHeld(refs, outs, n)'
  <2> SUFFICES ASSUME NEW n \in Nat
               PROVE  \A refs \in SUBSET Ref, outs \in Merged :
                        ConfigHeld(refs, outs, n) => ConfigHeld(refs, outs, n)'
    OBVIOUS
  <2>1. \A d \in Document : \A v : Held(d, v, n) => Held(d, v, n)'
    BY <1>1 DEF Kept
  <2> QED
    BY <2>1, ConfigSteps
<1>6. /\ entry' \in {entry, NoEntry} \/ entry' = [enabled |-> enabled[l], merged |-> merged[l], age |-> 0]
      /\ TTL = 0 => entry' \in {entry, NoEntry}
  BY DEF Finish, Store
<1>7. TypeOK'
  <2>1. [enabled |-> enabled[l], merged |-> merged[l], age |-> 0] \in Entry
    BY <1>2, LoadingConstants DEF Entry
  <2>2. entry' \in {NoEntry} \cup Entry
    BY <1>6, <2>1 DEF LoadingInv, TypeOK
  <2>3. pc' \in [Loader -> {"idle", "main", "refs", "served", "failed"}]
    <3>1. pc' = [pc EXCEPT ![l] = "served"] \/ pc' = [pc EXCEPT ![l] = "failed"]
      BY DEF Finish
    <3> QED
      BY <3>1 DEF LoadingInv, TypeOK
  <2> QED
    BY <1>1, <2>2, <2>3 DEF LoadingInv, TypeOK
<1>8. CacheHolds'
  <2>1. CASE entry' = entry
    BY <1>1, <2>1, CacheCarried
  <2>2. CASE entry' = NoEntry
    BY <2>2 DEF CacheHolds, Fresh
  <2>3. CASE entry' = [enabled |-> enabled[l], merged |-> merged[l], age |-> 0]
    <3>1. /\ entry'.enabled = enabled[l] /\ entry'.merged = merged[l] /\ entry'.age = 0
      BY <2>3
    <3>2. ConfigHeld(enabled[l], merged[l], MaxLoad)
      BY <1>2, <1>4, LoadingConstants
    <3>3. ConfigHeld(entry.enabled, entry.merged, MaxLoad)'
      BY <1>1, <1>2, <1>5, <3>1, <3>2, LoadingConstants
    <3>4. MaxLoad + 0 = MaxLoad
      BY LoadingConstants
    <3> QED
      BY <1>1, <1>2, <3>1, <3>3, <3>4 DEF CacheHolds
  <2> QED
    BY <1>6, <2>1, <2>2, <2>3
<1>9. pc'[l] \in {"served", "failed"} /\ \A k \in Loader : k # l => pc'[k] = pc[k]
  BY DEF Finish, LoadingInv, TypeOK
<1>10. ConfigHeld(enabled[l], merged[l], age[l])'
  BY <1>1, <1>2, <1>3, <1>5
<1>11. ConfigHeld(enabled[l], merged[l], Window)'
  <2>1. ConfigHeld(enabled[l], merged[l], Window)
    BY <1>2, <1>4, LoadingConstants
  <2> QED
    BY <1>1, <1>2, <1>5, <2>1, LoadingConstants
<1>12. LoadHolds(l)' /\ ServedHolds(l)'
  BY <1>9, <1>11 DEF LoadHolds, ServedHolds
<1> QED
  BY <1>1, <1>7, <1>8, <1>9, <1>10, <1>12, OneMoves

LEMMA ReturnKeeps ==
  ASSUME LoadingInv, NEW l \in Loader, Return(l)
  PROVE  LoadingInv'
<1>1. Kept /\ CacheHolds'
  BY KeptWithoutChange, CacheCarried DEF Return
<1>2. NoneMerged \in Merged /\ 1 \in 1 .. RefCount + 1 /\ 0 \in 0 .. MaxLoad
  BY LoadingConstants DEF NoneMerged, Merged
<1>3. TypeOK'
  <2>1. age' \in [Loader -> 0 .. MaxLoad] /\ next' \in [Loader -> 1 .. RefCount + 1]
    BY <1>2 DEF Return, LoadingInv, TypeOK
  <2>2. merged' \in [Loader -> Merged] /\ part' \in [Loader -> Seq(Version)]
    BY <1>2 DEF Return, LoadingInv, TypeOK
  <2> QED
    BY <2>1, <2>2 DEF Return, LoadingInv, TypeOK
<1>4. /\ pc'[l] = "idle"
      /\ \A k \in Loader : k # l =>
           /\ pc'[k] = pc[k] /\ age'[k] = age[k] /\ enabled'[k] = enabled[k]
           /\ next'[k] = next[k] /\ part'[k] = part[k] /\ merged'[k] = merged[k]
  BY DEF Return, LoadingInv, TypeOK
<1>5. LoadHolds(l)' /\ ServedHolds(l)'
  BY <1>4 DEF LoadHolds, ServedHolds
<1> QED
  BY <1>1, <1>3, <1>4, <1>5, OneMoves

(* Steps that move no load.                                                *)
LEMMA NoneMoves ==
  ASSUME LoadingInv, TypeOK', Kept, UNCHANGED loads, CacheHolds'
  PROVE  LoadingInv'
<1>1. \A k \in Loader : LoadHolds(k)' /\ ServedHolds(k)'
  BY Carried DEF loads
<1> QED
  BY <1>1 DEF LoadingInv, LoadsHold, ServedIsRecent, LoadHolds, ServedHolds

LEMMA InvalidateKeeps ==
  ASSUME LoadingInv, InvalidateCache
  PROVE  LoadingInv'
<1>1. Kept
  BY KeptWithoutChange DEF InvalidateCache
<1>2. TypeOK'
  BY LoadingConstants DEF InvalidateCache, Emptied, loads, LoadingInv, TypeOK
<1>3. CacheHolds'
  BY DEF InvalidateCache, Emptied, CacheHolds, Fresh
<1> QED
  BY <1>1, <1>2, <1>3, NoneMoves DEF InvalidateCache

LEMMA EditKeeps ==
  ASSUME LoadingInv, NEW d \in Document, NEW content \in IF d = Main THEN MainContent ELSE FileContent,
         Edit(d, content)
  PROVE  LoadingInv'
<1>1. /\ doc' = [doc EXCEPT ![d] = content]
      /\ past' = past \cup {[doc |-> d, value |-> doc[d], age |-> 0]}
      /\ troubles < MaxTroubles /\ troubles' = troubles + 1
      /\ UNCHANGED <<entry, loads, cleared>>
  BY DEF Edit, Gone
<1>2. doc \in [Document -> Content] /\ doc[d] \in Content
  BY DEF LoadingInv, TypeOK
<1>3. \A e \in Document : doc'[e] = doc[e] \/ [doc |-> e, value |-> doc[e], age |-> 0] \in past'
  BY <1>1, <1>2
<1>4. Kept
  BY <1>1, <1>3, HeldKept DEF Kept, LoadingInv
<1>5. TypeOK'
  <2>1. content \in Content
    BY DEF Content
  <2>2. doc' \in [Document -> Content]
    BY <1>1, <1>2, <2>1
  <2>3. doc'[Main] \in MainContent /\ \A f \in File : doc'[f] \in FileContent
    BY <1>1, <1>2, ConfigLoadingAssumption, LoadingConstants DEF LoadingInv, TypeOK
  <2>4. past' \subseteq PastContent
    BY <1>1, <1>2, LoadingConstants DEF PastContent, LoadingInv, TypeOK
  <2>5. troubles' \in 0 .. MaxTroubles
    BY <1>1, LoadingConstants DEF LoadingInv, TypeOK
  <2> QED
    BY <1>1, <2>2, <2>3, <2>4, <2>5 DEF LoadingInv, TypeOK, loads
<1>6. CacheHolds'
  BY <1>1, <1>4, CacheCarried
<1> QED
  BY <1>1, <1>4, <1>5, <1>6, NoneMoves

LEMMA TickKeeps ==
  ASSUME LoadingInv, Tick
  PROVE  LoadingInv'
<1>1. /\ \A k \in Loader : pc[k] = "refs" => age[k] < MaxLoad /\ age'[k] = age[k] + 1
      /\ \A k \in Loader : pc[k] # "served"
      /\ UNCHANGED <<doc, pc, enabled, next, part, merged, troubles>>
  BY DEF Tick, Busy
<1>2. TypeOK'
  <2>1. age' \in [Loader -> 0 .. MaxLoad]
    BY LoadingConstants DEF Tick, Busy, LoadingInv, TypeOK
  <2>2. entry' \in {NoEntry} \cup Entry
    <3>1. CASE entry = NoEntry \/ entry.age = TTL
      BY <3>1 DEF Tick, LoadingInv, TypeOK
    <3>2. CASE ~ (entry = NoEntry \/ entry.age = TTL)
      <4>1. entry \in Entry /\ entry.age + 1 \in 0 .. TTL
        BY <3>2, LoadingConstants DEF LoadingInv, TypeOK, Entry
      <4>2. entry' = [entry EXCEPT !.age = entry.age + 1]
        BY <3>2 DEF Tick
      <4> QED
        BY <4>1, <4>2 DEF Entry
    <3> QED
      BY <3>1, <3>2
  <2>3. past' \subseteq PastContent
    <3>1. ASSUME NEW q \in past, q.age < Window PROVE [q EXCEPT !.age = q.age + 1] \in PastContent
      <4>1. q \in PastContent /\ q.age + 1 \in 0 .. Window
        BY <3>1, LoadingConstants DEF LoadingInv, TypeOK, PastContent
      <4> QED
        BY <4>1 DEF PastContent
    <3> QED
      BY <3>1 DEF Tick
  <2>4. cleared' \in 0 .. Window
    BY LoadingConstants DEF Tick, LoadingInv, TypeOK
  <2> QED
    BY <1>1, <2>1, <2>2, <2>3, <2>4 DEF LoadingInv, TypeOK
<1>3. \A n \in Nat : n < Window => \A d \in Document : \A v : Held(d, v, n) => Held(d, v, n + 1)'
  BY HeldTick DEF LoadingInv
<1>4. ASSUME NEW k \in Loader, pc[k] = "refs" PROVE LoadHolds(k)'
  <2>0. PICK a \in Nat : a = age[k]
    BY LoadingConstants DEF LoadingInv, TypeOK
  <2>1. a < Window /\ a + 1 \in Nat /\ age'[k] = a + 1
    BY <1>1, <1>4, <2>0, LoadingConstants DEF LoadingInv, TypeOK
  <2>2. enabled[k] \in SUBSET Ref /\ merged[k] \in Merged /\ part[k] \in Seq(Version)
    BY DEF LoadingInv, TypeOK
  <2>3. \A d \in Document : \A v : Held(d, v, a) => Held(d, v, a + 1)'
    BY <1>3, <2>1
  <2>4. Held(Main, enabled[k], a + 1)'
    <3>1. Held(Main, enabled[k], a) /\ enabled'[k] = enabled[k]
      BY <1>1, <1>4, <2>0 DEF LoadingInv, LoadsHold
    <3> QED
      BY <1>1, <2>3, <3>1, LoadingConstants
  <2>5. ASSUME NEW r \in enabled[k], r < next[k] PROVE PartHeld(r, merged[k][r], a + 1)'
    <3>1. PartHeld(r, merged[k][r], a) /\ r \in Ref
      BY <1>4, <2>0, <2>2, <2>5 DEF LoadingInv, LoadsHold
    <3>2. merged[k][r] # Skipped => merged[k][r] \in Seq(Version) /\ Len(merged[k][r]) = Len(Reads[r])
      BY <2>2, <3>1, Outcomes
    <3>3. \A n, m : (\A d \in Document : \A v : Held(d, v, n) => Held(d, v, m)') =>
            \A outcome : (outcome # Skipped => outcome \in Seq(Version) /\ Len(outcome) = Len(Reads[r]))
              /\ PartHeld(r, outcome, n) => PartHeld(r, outcome, m)'
      BY <3>1, PartSteps
    <3>4. PartHeld(r, merged[k][r], a) => \A o : o = merged[k][r] => PartHeld(r, o, a + 1)'
      BY <2>3, <3>2, <3>3
    <3> QED
      BY <1>1, <3>1, <3>4
  <2>6. ASSUME next[k] \in Ref
        PROVE  /\ Len(part[k]) < Len(Reads[next[k]])
               /\ \A i \in DOMAIN part[k] : Held(Reads[next[k]][i], part[k][i], a + 1)'
    <3>1. /\ Len(part[k]) < Len(Reads[next[k]])
          /\ \A i \in DOMAIN part[k] : Held(Reads[next[k]][i], part[k][i], a)
      BY <1>4, <2>0, <2>6 DEF LoadingInv, LoadsHold
    <3>2. \A i \in DOMAIN part[k] : i \in 1 .. Len(Reads[next[k]])
      BY <2>2, <2>6, <3>1, LoadingConstants
    <3>3. \A i \in DOMAIN part[k] : Reads[next[k]][i] \in Document
      BY <2>6, <3>2, LoadingConstants
    <3> QED
      BY <1>1, <2>3, <3>1, <3>3
  <2>7. /\ part[k] # <<>> => next[k] \in enabled[k]
        /\ \A s \in Ref : s >= next[k] => merged[k][s] = Skipped
    BY <1>4 DEF LoadingInv, LoadsHold
  <2> QED
    BY <1>1, <2>1, <2>4, <2>5, <2>6, <2>7 DEF LoadHolds
<1>5. LoadsHold'
  BY <1>1, <1>4 DEF LoadsHold, LoadHolds
<1>6. ServedIsRecent'
  BY <1>1 DEF ServedIsRecent
<1>7. CacheHolds'
  <2> SUFFICES ASSUME Fresh'
               PROVE  /\ ConfigHeld(entry.enabled, entry.merged, MaxLoad + entry.age)'
                      /\ entry'.age <= cleared'
    BY DEF CacheHolds
  <2>1. entry' # NoEntry /\ entry'.age < TTL
    BY DEF Fresh
  <2>2. entry # NoEntry /\ entry.age # TTL /\ entry' = [entry EXCEPT !.age = entry.age + 1]
    BY <2>1, LoadingConstants DEF Tick
  <2>3. /\ entry \in Entry /\ entry.age \in Nat /\ entry'.age = entry.age + 1
        /\ entry'.enabled = entry.enabled /\ entry'.merged = entry.merged
        /\ entry.enabled \in SUBSET Ref /\ entry.merged \in Merged
    BY <2>2, LoadingConstants DEF LoadingInv, TypeOK, Entry
  <2>4. ConfigHeld(entry.enabled, entry.merged, MaxLoad + entry.age) /\ entry.age <= cleared
    <3>1. Fresh
      BY <2>1, <2>2, <2>3, LoadingConstants DEF Fresh
    <3> QED
      BY <3>1 DEF LoadingInv, CacheHolds
  <2>5. PICK n \in Nat : n = MaxLoad + entry.age
    BY <2>3, LoadingConstants
  <2>6. /\ n < Window /\ n + 1 = MaxLoad + entry'.age
        /\ entry.age + 1 <= Window
    <3>1. MaxLoad + (entry.age + 1) <= Window
      BY <2>1, <2>3, LoadingConstants
    <3> QED
      BY <2>3, <2>5, <3>1, LoadingConstants
  <2>7. entry'.age <= cleared'
    <3>1. cleared \in Nat /\ (cleared' = Window \/ cleared' = cleared + 1)
      BY LoadingConstants DEF Tick, LoadingInv, TypeOK
    <3> QED
      BY <2>3, <2>4, <2>6, <3>1
  <2>8. \A refs \in SUBSET Ref, outs \in Merged :
          ConfigHeld(refs, outs, n) => ConfigHeld(refs, outs, n + 1)'
    <3>1. \A d \in Document : \A v : Held(d, v, n) => Held(d, v, n + 1)'
      BY <1>3, <2>6
    <3>2. \A m : (\A d \in Document : \A v : Held(d, v, n) => Held(d, v, m)') =>
            \A refs \in SUBSET Ref, outs \in Merged :
              ConfigHeld(refs, outs, n) => ConfigHeld(refs, outs, m)'
      BY ConfigSteps
    <3> QED
      BY <3>1, <3>2
  <2>9. \A refs, outs : refs = entry.enabled /\ outs = entry.merged => ConfigHeld(refs, outs, n + 1)'
    BY <2>3, <2>4, <2>5, <2>8
  <2>10. ConfigHeld(entry.enabled, entry.merged, MaxLoad + entry.age)'
    BY <2>3, <2>6, <2>9
  <2> QED
    BY <2>7, <2>10
<1> QED
  BY <1>2, <1>5, <1>6, <1>7 DEF LoadingInv

LEMMA StutterKeeps ==
  ASSUME LoadingInv, UNCHANGED vars
  PROVE  LoadingInv'
<1>1. Kept /\ CacheHolds'
  BY KeptWithoutChange, CacheCarried DEF vars
<1>2. TypeOK'
  BY DEF LoadingInv, TypeOK, vars, loads
<1> QED
  BY <1>1, <1>2, NoneMoves DEF vars

LEMMA LoadingNextInv == LoadingInv /\ [Next]_vars => LoadingInv'
<1> SUFFICES ASSUME LoadingInv, [Next]_vars PROVE LoadingInv'
  OBVIOUS
<1>1. ASSUME NEW l \in Loader,
             \/ Hit(l) \/ Miss(l) \/ LoadMain(l) \/ LoadMainFails(l)
             \/ SkipDisabled(l) \/ Finish(l) \/ Return(l)
             \/ \E f \in File : ReadFile(l, f) \/ SkipReference(l, f)
      PROVE  LoadingInv'
  BY <1>1, HitKeeps, MissKeeps, LoadMainKeeps, SkipDisabledKeeps, FinishKeeps, ReturnKeeps,
     ReadFileKeeps, SkipReferenceKeeps
<1>2. CASE InvalidateCache
  BY <1>2, InvalidateKeeps
<1>3. ASSUME NEW d \in Document, NEW content \in IF d = Main THEN MainContent ELSE FileContent,
             Edit(d, content)
      PROVE  LoadingInv'
  BY <1>3, EditKeeps
<1>4. CASE Tick
  BY <1>4, TickKeeps
<1>5. CASE UNCHANGED vars
  BY <1>5, StutterKeeps
<1> QED
  BY <1>1, <1>2, <1>3, <1>4, <1>5 DEF Next

LEMMA LoadingInvariance == Spec => []LoadingInv
  BY LoadingInitInv, LoadingNextInv, PTL DEF Spec

-----------------------------------------------------------------------------
(* The loads, the cache and the history are well typed.                    *)
THEOREM TypeCorrect == Spec => []TypeOK
<1>1. LoadingInv => TypeOK
  BY DEF LoadingInv
<1> QED
  BY <1>1, LoadingInvariance, PTL

(* Every part of a configuration that LoadConfig returns was in its        *)
(* repository within the last TTL and load (config_cache.go).              *)
THEOREM ServedRecently == Spec => []ServedIsRecent
<1>1. LoadingInv => ServedIsRecent
  BY DEF LoadingInv
<1> QED
  BY <1>1, LoadingInvariance, PTL

(* A hit serves what was stored after the last invalidation.               *)
LEMMA HitForgets ==
  ASSUME LoadingInv, NEW l \in Loader, Hit(l)
  PROVE  ConfigHeld(enabled[l], merged[l], cleared + MaxLoad)'
<1>1. entry \in Entry /\ entry.age \in Nat /\ cleared \in Nat
  BY LoadingConstants DEF Hit, Fresh, LoadingInv, TypeOK, Entry
<1>2. entry.enabled \in SUBSET Ref /\ entry.merged \in Merged
  BY <1>1 DEF Entry
<1>3. ConfigHeld(entry.enabled, entry.merged, MaxLoad + entry.age) /\ entry.age <= cleared
  BY DEF Hit, LoadingInv, CacheHolds
<1>4. /\ MaxLoad + entry.age \in Int /\ cleared + MaxLoad \in Int /\ cleared + MaxLoad \in Nat
      /\ MaxLoad + entry.age <= cleared + MaxLoad
  BY <1>1, <1>3, LoadingConstants
<1>5. ConfigHeld(entry.enabled, entry.merged, cleared + MaxLoad)
  BY <1>3, <1>4, ConfigHeldLonger DEF LoadingInv
<1>6. \A n \in Nat : \A refs \in SUBSET Ref, outs \in Merged :
        ConfigHeld(refs, outs, n) => ConfigHeld(refs, outs, n)'
  BY KeptWithoutChange, ConfigSteps DEF Hit, Kept
<1>7. enabled'[l] = entry.enabled /\ merged'[l] = entry.merged /\ cleared' = cleared
  BY DEF Hit, LoadingInv, TypeOK
<1>8. \A refs \in SUBSET Ref, outs \in Merged :
        ConfigHeld(refs, outs, cleared + MaxLoad) => ConfigHeld(refs, outs, cleared + MaxLoad)'
  BY <1>4, <1>6, <1>7
<1>9. \A refs, outs : refs = entry.enabled /\ outs = entry.merged =>
        ConfigHeld(refs, outs, cleared + MaxLoad)'
  BY <1>2, <1>5, <1>8
<1> QED
  BY <1>7, <1>9

(* A load serves what it read, which is no older than the load.            *)
LEMMA FinishForgets ==
  ASSUME LoadingInv, NEW l \in Loader, Finish(l), pc'[l] = "served"
  PROVE  ConfigHeld(enabled[l], merged[l], cleared + MaxLoad)'
<1>1. ConfigHeld(enabled[l], merged[l], age[l])' /\ TypeOK'
  BY FinishKeeps DEF LoadingInv
<1>2. age'[l] \in Int /\ cleared' + MaxLoad \in Int /\ age'[l] <= cleared' + MaxLoad
  BY <1>1, LoadingConstants DEF TypeOK
<1>3. \A p \in past' : p.age \in Nat
  BY <1>1, LoadingConstants DEF TypeOK, PastContent
<1>4. \A d, v : Held(d, v, age[l])' => Held(d, v, cleared + MaxLoad)'
  BY <1>2, <1>3 DEF Held
<1> QED
  BY <1>1, <1>4 DEF ConfigHeld, PartHeld

(* What is served after InvalidateCache was in the repositories no earlier *)
(* than the loads that were in flight then (config_cache.go:85).           *)
THEOREM Forgets == Spec => InvalidationForgets
<1>1. LoadingInv /\ [Next]_vars =>
        [\A l \in Loader : pc[l] # "served" /\ pc'[l] = "served" =>
           ConfigHeld(enabled[l], merged[l], cleared + MaxLoad)']_vars
  <2> SUFFICES ASSUME LoadingInv, Next, NEW l \in Loader, pc[l] # "served", pc'[l] = "served"
               PROVE  ConfigHeld(enabled[l], merged[l], cleared + MaxLoad)'
    OBVIOUS
  <2>1. Hit(l) \/ Finish(l)
    BY DEF Next, Hit, Miss, LoadMain, LoadMainFails, SkipDisabled, Finish, Return, ReadFile,
           SkipReference, InvalidateCache, Edit, Tick, loads, LoadingInv, TypeOK
  <2> QED
    BY <2>1, HitForgets, FinishForgets
<1> QED
  BY <1>1, LoadingInvariance, PTL DEF Spec, InvalidationForgets

-----------------------------------------------------------------------------
(* PathRules.  First the order of a finite set of positions.               *)

(* A set of naturals has a least member.                                   *)
LEMMA Least ==
  ASSUME NEW P \in SUBSET Nat, P # {}
  PROVE  \E m \in P : \A x \in P : m <= x
<1>. DEFINE Below(x) == 0 .. x - 1
            T == {Below(x) : x \in P}
<1>1. T \subseteq FiniteSubsetsOf(Nat) /\ T # {}
  <2>1. ASSUME NEW x \in P PROVE Below(x) \in FiniteSubsetsOf(Nat)
    <3>1. 0 \in Int /\ x - 1 \in Int /\ Below(x) \subseteq Nat
      OBVIOUS
    <3>2. IsFiniteSet(Below(x))
      BY <3>1, FS_Interval
    <3>. QED
      BY <3>1, <3>2 DEF FiniteSubsetsOf
  <2>. QED
    BY <2>1
<1>2. PICK m \in P : \A x \in P : ~ (<<Below(x), Below(m)>> \in StrictSubsetOrdering(Nat))
  <2>1. \E t \in T : \A u \in T : ~ (<<u, t>> \in StrictSubsetOrdering(Nat))
    <3>. HIDE DEF T
    <3>. QED
      BY <1>1, FS_StrictSubsetOrderingWellFounded, WFMin
  <2>. QED
    BY <2>1
<1>3. ASSUME NEW x \in P, x < m PROVE FALSE
  <2>1. Below(x) \subseteq Below(m) /\ Below(m) \subseteq Nat
    BY <1>3
  <2>2. x \in Below(m) /\ x \notin Below(x)
    BY <1>3
  <2>. QED
    BY <1>2, <2>1, <2>2 DEF StrictSubsetOrdering
<1>. QED
  BY <1>3

(* The rank numbers the members in their order, ...                        *)
LEMMA RankFacts ==
  ASSUME NEW S \in SUBSET Nat, IsFiniteSet(S)
  PROVE  /\ Cardinality(S) \in Nat
         /\ \A i \in S : Rank(S, i) \in 1 .. Cardinality(S)
         /\ \A i, j \in S : i < j => Rank(S, i) < Rank(S, j)
<1>. DEFINE UpTo(i) == {j \in S : j <= i}
<1>1. Cardinality(S) \in Nat
  BY FS_CardinalityType
<1>2. ASSUME NEW i \in S
      PROVE  /\ IsFiniteSet(UpTo(i)) /\ Rank(S, i) = Cardinality(UpTo(i))
             /\ Rank(S, i) \in 1 .. Cardinality(S)
  <2>1. UpTo(i) \in SUBSET S /\ UpTo(i) # {}
    BY <1>2
  <2>2. IsFiniteSet(UpTo(i)) /\ Cardinality(UpTo(i)) <= Cardinality(S)
    BY <2>1, FS_Subset
  <2>3. Cardinality(UpTo(i)) \in Nat /\ Cardinality(UpTo(i)) # 0
    <3>. HIDE DEF UpTo
    <3>. QED
      BY <2>1, <2>2, FS_CardinalityType, FS_EmptySet
  <2>4. Rank(S, i) = Cardinality(UpTo(i))
    BY DEF Rank
  <2>. HIDE DEF UpTo
  <2>. QED
    BY <1>1, <2>2, <2>3, <2>4
<1>3. ASSUME NEW i \in S, NEW j \in S, i < j PROVE Rank(S, i) < Rank(S, j)
  <2>1. UpTo(i) \in SUBSET UpTo(j) /\ UpTo(i) # UpTo(j)
    <3>1. ASSUME NEW k \in UpTo(i) PROVE k \in UpTo(j)
      <4>1. k \in S /\ k \in Nat /\ i \in Nat /\ j \in Nat /\ k <= i
        OBVIOUS
      <4>. QED
        BY <1>3, <4>1
    <3>2. j \in UpTo(j) /\ j \notin UpTo(i)
      BY <1>3
    <3>. QED
      BY <3>1, <3>2
  <2>2. /\ IsFiniteSet(UpTo(j)) /\ Rank(S, i) = Cardinality(UpTo(i))
        /\ Rank(S, j) = Cardinality(UpTo(j)) /\ Rank(S, i) \in Nat /\ Rank(S, j) \in Nat
    BY <1>1, <1>2
  <2>3. Cardinality(UpTo(i)) <= Cardinality(UpTo(j)) /\ Cardinality(UpTo(i)) # Cardinality(UpTo(j))
    <3>. HIDE DEF UpTo
    <3>. QED
      BY <2>1, <2>2, FS_Subset
  <2>. QED
    BY <2>2, <2>3
<1>. QED
  BY <1>1, <1>2, <1>3

(* ... and InOrder lists them by it.                                       *)
LEMMA InOrderFacts ==
  ASSUME NEW S \in SUBSET Nat, IsFiniteSet(S)
  PROVE  /\ Cardinality(S) \in Nat
         /\ \A n \in 1 .. Cardinality(S) :
              InOrder(S)[n] \in S /\ Rank(S, InOrder(S)[n]) = n
         /\ \A i \in S : Rank(S, i) \in 1 .. Cardinality(S) /\ InOrder(S)[Rank(S, i)] = i
<1>. DEFINE rank == [i \in S |-> Rank(S, i)]
            N == Cardinality(S)
<1>1. /\ N \in Nat
      /\ \A i \in S : Rank(S, i) \in 1 .. N
      /\ \A i, j \in S : i < j => Rank(S, i) < Rank(S, j)
  BY RankFacts
<1>2. \A i, j \in S : Rank(S, i) = Rank(S, j) => i = j
  BY <1>1
<1>3. rank \in Injection(S, 1 .. N)
  <2>1. rank \in [S -> 1 .. N]
    BY <1>1
  <2>2. IsInjective(rank)
    BY <1>2 DEF IsInjective
  <2>. QED
    BY <2>1, <2>2 DEF Injection
<1>4. IsFiniteSet(1 .. N) /\ Cardinality(1 .. N) = N
  <2>. HIDE DEF N
  <2>. QED
    BY <1>1, FS_Interval
<1>5. rank \in Surjection(S, 1 .. N)
  <2>. HIDE DEF rank
  <2>. QED
    BY <1>3, <1>4, FS_Injection
<1>6. \A n \in 1 .. N : \E i \in S : Rank(S, i) = n
  BY <1>5 DEF Surjection
<1>7. ASSUME NEW n \in 1 .. N PROVE InOrder(S)[n] \in S /\ Rank(S, InOrder(S)[n]) = n
  BY <1>6, <1>7 DEF InOrder
<1>8. ASSUME NEW i \in S PROVE InOrder(S)[Rank(S, i)] = i
  BY <1>1, <1>2, <1>7, <1>8
<1>. QED
  BY <1>1, <1>7, <1>8

(* A map that keeps the order keeps the ranks.                             *)
LEMMA SameOrder ==
  ASSUME NEW S \in SUBSET Nat, NEW T \in SUBSET Nat, IsFiniteSet(S), NEW e \in [S -> T],
         \A i, j \in S : i < j => e[i] < e[j],
         \A t \in T : \E i \in S : e[i] = t
  PROVE  /\ IsFiniteSet(T) /\ Cardinality(T) = Cardinality(S)
         /\ \A i \in S : Rank(T, e[i]) = Rank(S, i)
         /\ \A n \in 1 .. Cardinality(S) : InOrder(T)[n] = e[InOrder(S)[n]]
<1>1. ASSUME NEW i \in S, NEW j \in S, e[i] = e[j] PROVE i = j
  <2>1. i \in Nat /\ j \in Nat /\ e[i] \in Nat
    OBVIOUS
  <2>2. ~ (i < j) /\ ~ (j < i)
    BY <1>1, <2>1
  <2>. QED
    BY <2>1, <2>2
<1>2. IsFiniteSet(T) /\ Cardinality(T) = Cardinality(S)
  <2>1. e \in Bijection(S, T)
    BY <1>1 DEF Bijection, Injection, Surjection, IsInjective
  <2>. QED
    BY <2>1, FS_Bijection DEF ExistsBijection
<1>3. ASSUME NEW i \in S PROVE Rank(T, e[i]) = Rank(S, i)
  <2>. DEFINE A == {j \in S : j <= i}
              B == {t \in T : t <= e[i]}
              g == [j \in A |-> e[j]]
  <2>1. IsFiniteSet(A)
    BY FS_Subset
  <2>2. g \in [A -> B]
    <3>1. ASSUME NEW j \in A PROVE e[j] \in B
      <4>1. j \in Nat /\ i \in Nat /\ e[j] \in Nat /\ e[i] \in Nat /\ (j < i => e[j] < e[i])
        OBVIOUS
      <4>2. j = i \/ j < i
        BY <4>1
      <4>. QED
        BY <4>1, <4>2
    <3>. QED
      BY <3>1
  <2>3. \A j, k \in A : g[j] = g[k] => j = k
    BY <1>1
  <2>4. ASSUME NEW t \in B PROVE \E j \in A : g[j] = t
    <3>1. PICK j \in S : e[j] = t
      BY <2>4
    <3>2. j \in Nat /\ i \in Nat /\ e[j] \in Nat /\ e[i] \in Nat /\ e[j] <= e[i]
      BY <2>4, <3>1
    <3>3. ~ (i < j)
      BY <3>2
    <3>4. j \in A
      BY <3>2, <3>3
    <3>. QED
      BY <3>1, <3>4
  <2>5. g \in Bijection(A, B)
    BY <2>2, <2>3, <2>4 DEF Bijection, Injection, Surjection, IsInjective
  <2>6. Cardinality(A) = Cardinality(B)
    <3>. HIDE DEF A, B, g
    <3>. QED
      BY <2>1, <2>5, FS_Bijection DEF ExistsBijection
  <2>7. Rank(S, i) = Cardinality(A) /\ Rank(T, e[i]) = Cardinality(B)
    BY DEF Rank
  <2>. QED
    BY <2>6, <2>7
<1>4. ASSUME NEW n \in 1 .. Cardinality(S) PROVE InOrder(T)[n] = e[InOrder(S)[n]]
  <2>1. InOrder(S)[n] \in S /\ Rank(S, InOrder(S)[n]) = n
    BY <1>4, InOrderFacts
  <2>2. e[InOrder(S)[n]] \in T /\ Rank(T, e[InOrder(S)[n]]) = n
    BY <1>3, <2>1
  <2>3. \A t \in T : InOrder(T)[Rank(T, t)] = t
    BY <1>2, InOrderFacts
  <2>. QED
    BY <2>2, <2>3
<1>. QED
  BY <1>2, <1>3, <1>4

(* Two sets, the one behind the other.                                     *)
Behind(A, B, m) == A \cup {i + m : i \in B}

LEMMA InOrderBehind ==
  ASSUME NEW A \in SUBSET Nat, IsFiniteSet(A), NEW B \in SUBSET Nat, IsFiniteSet(B),
         NEW m \in Nat, \A i \in A : i <= m, 0 \notin B
  PROVE  LET C == Behind(A, B, m) IN
         /\ C \in SUBSET Nat /\ IsFiniteSet(C)
         /\ Cardinality(C) = Cardinality(A) + Cardinality(B)
         /\ \A n \in 1 .. Cardinality(A) : InOrder(C)[n] = InOrder(A)[n]
         /\ \A n \in 1 .. Cardinality(B) : InOrder(C)[Cardinality(A) + n] = InOrder(B)[n] + m
<1>. DEFINE C == Behind(A, B, m)
            D == {i + m : i \in B}
            e == [i \in B |-> i + m]
<1>1. D \in SUBSET Nat /\ e \in [B -> D]
  OBVIOUS
<1>2. \A i, j \in B : i < j => e[i] < e[j]
  OBVIOUS
<1>3. \A t \in D : \E i \in B : e[i] = t
  OBVIOUS
<1>4. IsFiniteSet(D) /\ Cardinality(D) = Cardinality(B) /\ \A i \in B : Rank(D, e[i]) = Rank(B, i)
  <2>. HIDE DEF D, e
  <2>. QED
    BY <1>1, <1>2, <1>3, SameOrder
<1>5. \A i \in D : i > m
  OBVIOUS
<1>6. A \cap D = {} /\ C = A \cup D
  BY <1>5 DEF Behind
<1>7. C \in SUBSET Nat /\ IsFiniteSet(C) /\ Cardinality(C) = Cardinality(A) + Cardinality(B)
  <2>1. IsFiniteSet({}) /\ Cardinality({}) = 0
    BY FS_EmptySet
  <2>2. Cardinality(A) \in Nat /\ Cardinality(B) \in Nat
    BY FS_CardinalityType
  <2>3. IsFiniteSet(A \cup D) /\ Cardinality(A \cup D) = Cardinality(A) + Cardinality(D) - Cardinality(A \cap D)
    <3>. HIDE DEF D
    <3>. QED
      BY <1>4, FS_Union
  <2>4. Cardinality(A \cap D) = 0
    BY <1>6, <2>1
  <2>5. IsFiniteSet(C) /\ Cardinality(C) = Cardinality(A) + Cardinality(B)
    <3>. HIDE DEF D
    <3>1. Cardinality(A \cup D) = Cardinality(A) + Cardinality(B)
      BY <1>4, <2>2, <2>3, <2>4
    <3>. QED
      BY <1>6, <2>3, <3>1, Zenon
  <2>. QED
    BY <1>1, <1>6, <2>5
<1>8. /\ Cardinality(A) \in Nat /\ Cardinality(B) \in Nat
      /\ \A n \in 1 .. Cardinality(A) : InOrder(A)[n] \in A /\ Rank(A, InOrder(A)[n]) = n
      /\ \A n \in 1 .. Cardinality(B) : InOrder(B)[n] \in B /\ Rank(B, InOrder(B)[n]) = n
      /\ \A i \in C : InOrder(C)[Rank(C, i)] = i
  <2>1. /\ Cardinality(A) \in Nat
        /\ \A n \in 1 .. Cardinality(A) : InOrder(A)[n] \in A /\ Rank(A, InOrder(A)[n]) = n
    BY InOrderFacts
  <2>2. /\ Cardinality(B) \in Nat
        /\ \A n \in 1 .. Cardinality(B) : InOrder(B)[n] \in B /\ Rank(B, InOrder(B)[n]) = n
    BY InOrderFacts
  <2>3. \A i \in C : InOrder(C)[Rank(C, i)] = i
    BY <1>7, InOrderFacts
  <2>. QED
    BY <2>1, <2>2, <2>3
<1>9. ASSUME NEW i \in A PROVE i \in C /\ Rank(C, i) = Rank(A, i)
  <2>1. {j \in C : j <= i} = {j \in A : j <= i}
    <3>1. i \in Nat /\ i <= m
      OBVIOUS
    <3>2. \A j \in D : ~ (j <= i)
      BY <1>1, <1>5, <3>1
    <3>. QED
      BY <1>6, <3>2
  <2>. QED
    BY <1>6, <2>1 DEF Rank
<1>10. ASSUME NEW i \in B PROVE i + m \in C /\ Rank(C, i + m) = Cardinality(A) + Rank(B, i)
  <2>. DEFINE E == {j \in D : j <= i + m}
  <2>1. {j \in C : j <= i + m} = A \cup E
    <3>1. i \in Nat /\ \A j \in A : j \in Nat /\ j <= i + m
      OBVIOUS
    <3>. QED
      BY <1>6, <3>1
  <2>2. IsFiniteSet(E) /\ A \cap E = {}
    <3>1. E \in SUBSET D
      OBVIOUS
    <3>. HIDE DEF D, E
    <3>. QED
      BY <1>4, <1>6, <3>1, FS_Subset
  <2>3. Cardinality(E) = Rank(B, i)
    <3>1. Rank(D, e[i]) = Cardinality(E)
      BY DEF Rank
    <3>. QED
      BY <1>4, <3>1
  <2>4. Cardinality(A \cup E) = Cardinality(A) + Cardinality(E)
    <3>1. Cardinality({}) = 0
      BY FS_EmptySet
    <3>2. Cardinality(E) \in Nat
      BY <2>2, FS_CardinalityType
    <3>3. Cardinality(A \cup E) = Cardinality(A) + Cardinality(E) - Cardinality(A \cap E)
      <4>. HIDE DEF E
      <4>. QED
        BY <2>2, FS_Union
    <3>4. Cardinality(A \cap E) = 0
      BY <2>2, <3>1
    <3>. HIDE DEF D, E
    <3>. QED
      BY <1>8, <3>2, <3>3, <3>4
  <2>5. i + m \in C
    BY <1>6
  <2>6. Rank(C, i + m) = Cardinality(A \cup E)
    BY <2>1 DEF Rank
  <2>. QED
    BY <2>3, <2>4, <2>5, <2>6
<1>11. ASSUME NEW n \in 1 .. Cardinality(A) PROVE InOrder(C)[n] = InOrder(A)[n]
  BY <1>8, <1>9, <1>11
<1>12. ASSUME NEW n \in 1 .. Cardinality(B) PROVE InOrder(C)[Cardinality(A) + n] = InOrder(B)[n] + m
  <2>. DEFINE i == InOrder(B)[n]
  <2>1. i \in B /\ Rank(B, i) = n
    BY <1>8, <1>12
  <2>2. i + m \in C /\ Rank(C, i + m) = Cardinality(A) + n
    BY <1>10, <2>1
  <2>3. InOrder(C)[Rank(C, i + m)] = i + m
    BY <1>8, <2>2
  <2>. QED
    BY <2>2, <2>3
<1>13. \A n \in 1 .. Cardinality(A) : InOrder(C)[n] = InOrder(A)[n]
  BY <1>11
<1>14. \A n \in 1 .. Cardinality(B) : InOrder(C)[Cardinality(A) + n] = InOrder(B)[n] + m
  BY <1>12
<1>. QED
  BY <1>7, <1>13, <1>14, Zenon

(* Sequences that agree are the same.                                      *)
LEMMA SameSequence ==
  ASSUME NEW X, NEW u \in Seq(X), NEW v \in Seq(X), Len(u) = Len(v),
         \A n \in 1 .. Len(u) : u[n] = v[n]
  PROVE  u = v
  OBVIOUS

-----------------------------------------------------------------------------
(* The names of a path.                                                    *)

(* A name takes the places from i to j.                                    *)
Spans(s, i, j) ==
  /\ j \in i .. Len(s)
  /\ \A k \in i .. j : s[k] # "/"
  /\ j = Len(s) \/ s[j + 1] = "/"

LEMMA EndIs ==
  ASSUME NEW s \in Seq(Symbol), NEW i \in Nat, NEW j, Spans(s, i, j)
  PROVE  End(s, i) = j
<1>1. ASSUME NEW k, Spans(s, i, k) PROVE k = j
  BY <1>1 DEF Spans
<1>2. j \in i .. Len(s) /\ (\A k \in i .. j : s[k] # "/") /\ (j = Len(s) \/ s[j + 1] = "/")
  BY DEF Spans
<1>3. \A k \in i .. Len(s) :
        (\A l \in i .. k : s[l] # "/") /\ (k = Len(s) \/ s[k + 1] = "/") => k = j
  BY <1>1 DEF Spans
<1>. QED
  BY <1>2, <1>3 DEF End

LEMMA StartsAre ==
  ASSUME NEW s \in Seq(Symbol), NEW A \in SUBSET Starts(s)
  PROVE  /\ Len(s) \in Nat
         /\ A \in SUBSET Nat /\ A \in SUBSET (1 .. Len(s)) /\ IsFiniteSet(A) /\ 0 \notin A
<1>1. Starts(s) \subseteq 1 .. Len(s) /\ Len(s) \in Nat
  BY DEF Starts
<1>2. IsFiniteSet(1 .. Len(s))
  BY <1>1, FS_Interval
<1>3. IsFiniteSet(A)
  BY <1>1, <1>2, FS_Subset
<1>. QED
  BY <1>1, <1>3

LEMMA EndSpans ==
  ASSUME NEW s \in Seq(Symbol), NEW i \in Starts(s)
  PROVE  Spans(s, i, End(s, i))
<1>1. i \in Nat /\ i \in 1 .. Len(s) /\ s[i] # "/" /\ Len(s) \in Nat
  BY DEF Starts
<1>. DEFINE P == {j \in i .. Len(s) : j = Len(s) \/ s[j + 1] = "/"}
<1>2. PICK j \in P : \A k \in P : j <= k
  <2>1. P \in SUBSET Nat /\ Len(s) \in P
    BY <1>1
  <2>. HIDE DEF P
  <2>. QED
    BY <2>1, Least
<1>3. ASSUME NEW k \in i .. j, s[k] = "/" PROVE FALSE
  <2>1. k # i /\ k - 1 \in i .. Len(s) /\ k - 1 < j
    BY <1>1, <1>3
  <2>2. k - 1 \in P
    BY <1>1, <1>3, <2>1
  <2>3. j <= k - 1
    BY <1>2, <2>2
  <2>. QED
    BY <1>1, <1>3, <2>1, <2>3
<1>4. Spans(s, i, j)
  BY <1>2, <1>3 DEF Spans
<1>. QED
  BY <1>1, <1>4, EndIs

LEMMA NameFacts ==
  ASSUME NEW s \in Seq(Symbol), NEW i \in Starts(s)
  PROVE  /\ i \in 1 .. Len(s) /\ End(s, i) \in i .. Len(s)
         /\ NameAt(s, i) \in Seq(Symbol) /\ Len(NameAt(s, i)) = End(s, i) - i + 1
         /\ \A k \in 1 .. End(s, i) - i + 1 : NameAt(s, i)[k] = s[i + k - 1]
<1>1. i \in 1 .. Len(s) /\ Len(s) \in Nat
  BY DEF Starts
<1>2. End(s, i) \in i .. Len(s)
  BY EndSpans DEF Spans
<1>. QED
  BY <1>1, <1>2 DEF NameAt

LEMMA NamesAreListed ==
  ASSUME NEW s \in Seq(Symbol), NEW A \in SUBSET Starts(s)
  PROVE  /\ NamesAt(s, A) \in Seq(Seq(Symbol)) /\ Len(NamesAt(s, A)) = Cardinality(A)
         /\ Cardinality(A) \in Nat
         /\ \A n \in 1 .. Cardinality(A) :
              NamesAt(s, A)[n] = NameAt(s, InOrder(A)[n]) /\ InOrder(A)[n] \in A
<1>1. /\ Cardinality(A) \in Nat
      /\ \A n \in 1 .. Cardinality(A) : InOrder(A)[n] \in A
  BY StartsAre, InOrderFacts
<1>2. \A n \in 1 .. Cardinality(A) : NameAt(s, InOrder(A)[n]) \in Seq(Symbol)
  BY <1>1, NameFacts
<1>. QED
  BY <1>1, <1>2 DEF NamesAt

Under(a, b) == a \o <<"/">> \o b
After(a) == Len(a) + 1

(* A path below a directory: its names are those of the directory, then    *)
(* those of the path.                                                      *)
LEMMA BelowFacts ==
  ASSUME NEW a \in Seq(Symbol), NEW b \in Seq(Symbol)
  PROVE  /\ After(a) = Len(a) + 1
         /\ Under(a, b) \in Seq(Symbol) /\ Len(Under(a, b)) = After(a) + Len(b)
         /\ Len(a) \in Nat /\ Len(b) \in Nat
         /\ \A i \in 1 .. Len(a) : Under(a, b)[i] = a[i]
         /\ Under(a, b)[After(a)] = "/"
         /\ \A i \in 1 .. Len(b) : Under(a, b)[i + After(a)] = b[i]
<1>. DEFINE t == Under(a, b)
            m == After(a)
<1>1. /\ a \o <<"/">> \in Seq(Symbol) /\ Len(a \o <<"/">>) = m
      /\ \A i \in 1 .. Len(a) : (a \o <<"/">>)[i] = a[i]
      /\ (a \o <<"/">>)[m] = "/"
  BY PathsAssumption DEF After
<1>. DEFINE c == a \o <<"/">>
<1>2. /\ c \in Seq(Symbol) /\ Len(c) = m /\ t = c \o b
      /\ \A i \in 1 .. Len(a) : c[i] = a[i]
      /\ c[m] = "/"
  BY <1>1, PathsAssumption DEF Under, After
<1>0. m = Len(a) + 1
  BY DEF After
<1>. HIDE DEF c, t, m
<1>3. t \in Seq(Symbol) /\ Len(t) = m + Len(b) /\ Len(a) \in Nat /\ Len(b) \in Nat
  <2>1. t \in Seq(Symbol) /\ Len(a) \in Nat /\ Len(b) \in Nat
    BY <1>2
  <2>2. Len(c \o b) = Len(c) + Len(b)
    BY <1>2
  <2>. QED
    BY <1>2, <2>1, <2>2
<1>4. \A i \in 1 .. m : t[i] = c[i]
  BY <1>2
<1>5. \A i \in 1 .. Len(b) : t[i + m] = b[i]
  BY <1>2
<1>6. \A i \in 1 .. Len(a) : i \in 1 .. m
  BY <1>0, <1>3
<1>7. m \in 1 .. m
  BY <1>0, <1>3
<1>8. /\ \A i \in 1 .. Len(a) : t[i] = a[i]
      /\ t[m] = "/"
  BY <1>2, <1>4, <1>6, <1>7
<1>. QED
  BY <1>0, <1>3, <1>5, <1>8 DEF t, m

LEMMA StartsBelow ==
  ASSUME NEW a \in Seq(Symbol), NEW b \in Seq(Symbol)
  PROVE  Starts(Under(a, b)) = Behind(Starts(a), Starts(b), After(a))
<1>. DEFINE t == Under(a, b)
            m == After(a)
<1>1. /\ t \in Seq(Symbol) /\ Len(t) = m + Len(b) /\ m = Len(a) + 1
      /\ Len(a) \in Nat /\ Len(b) \in Nat
      /\ \A i \in 1 .. Len(a) : t[i] = a[i]
      /\ t[m] = "/"
      /\ \A i \in 1 .. Len(b) : t[i + m] = b[i]
  BY BelowFacts
<1>2. DOMAIN t = 1 .. Len(t) /\ DOMAIN a = 1 .. Len(a) /\ DOMAIN b = 1 .. Len(b)
  BY <1>1
<1>3. ASSUME NEW i \in 1 .. Len(a) PROVE i \in Starts(t) <=> i \in Starts(a)
  <2>1. i \in 1 .. Len(t) /\ t[i] = a[i]
    BY <1>1
  <2>2. i # 1 => i - 1 \in 1 .. Len(a) /\ t[i - 1] = a[i - 1]
    BY <1>1
  <2>. QED
    BY <1>2, <2>1, <2>2 DEF Starts
<1>4. m \notin Starts(t)
  BY <1>1 DEF Starts
<1>5. ASSUME NEW i \in 1 .. Len(b) PROVE i + m \in Starts(t) <=> i \in Starts(b)
  <2>1. i + m \in 1 .. Len(t) /\ t[i + m] = b[i] /\ i + m # 1
    BY <1>1
  <2>2. CASE i = 1
    <3>1. t[(i + m) - 1] = "/"
      BY <1>1, <2>2
    <3>. QED
      BY <1>2, <2>1, <2>2, <3>1 DEF Starts
  <2>3. CASE i # 1
    <3>1. i - 1 \in 1 .. Len(b) /\ (i + m) - 1 = (i - 1) + m
      BY <1>1, <2>3
    <3>2. t[(i + m) - 1] = b[i - 1]
      BY <1>1, <3>1
    <3>. QED
      BY <1>2, <2>1, <2>3, <3>2 DEF Starts
  <2>. QED
    BY <2>2, <2>3
<1>6. Starts(t) \subseteq 1 .. Len(t) /\ Starts(a) \subseteq 1 .. Len(a) /\ Starts(b) \subseteq 1 .. Len(b)
  BY <1>2 DEF Starts
<1>7. ASSUME NEW i \in Starts(t) PROVE i \in Starts(a) \cup {j + m : j \in Starts(b)}
  <2>1. i \in 1 .. m + Len(b)
    BY <1>1, <1>6
  <2>2. CASE i \in 1 .. Len(a)
    BY <1>3, <2>2
  <2>3. CASE i = m
    BY <1>4, <2>3
  <2>4. CASE i > m
    <3>1. i - m \in 1 .. Len(b) /\ i = (i - m) + m
      BY <1>1, <2>1, <2>4
    <3>2. i - m \in Starts(b)
      BY <1>5, <3>1
    <3>. QED
      BY <3>1, <3>2
  <2>. QED
    BY <1>1, <2>1, <2>2, <2>3, <2>4
<1>8. \A i \in Starts(a) : i \in Starts(t)
  BY <1>3, <1>6
<1>9. \A i \in Starts(b) : i + m \in Starts(t)
  BY <1>5, <1>6
<1>. QED
  BY <1>7, <1>8, <1>9 DEF Behind

LEMMA NamesBelow ==
  ASSUME NEW a \in Seq(Symbol), NEW b \in Seq(Symbol)
  PROVE  /\ \A i \in Starts(a) : NameAt(Under(a, b), i) = NameAt(a, i)
         /\ \A i \in Starts(b) : NameAt(Under(a, b), i + After(a)) = NameAt(b, i)
<1>. DEFINE t == Under(a, b)
            m == After(a)
<1>1. /\ t \in Seq(Symbol) /\ Len(t) = m + Len(b) /\ m = Len(a) + 1
      /\ Len(a) \in Nat /\ Len(b) \in Nat
      /\ \A i \in 1 .. Len(a) : t[i] = a[i]
      /\ t[m] = "/"
      /\ \A i \in 1 .. Len(b) : t[i + m] = b[i]
  BY BelowFacts
<1>2. Starts(t) = Behind(Starts(a), Starts(b), m)
  BY StartsBelow
<1>3. ASSUME NEW i \in Starts(a) PROVE NameAt(t, i) = NameAt(a, i)
  <2>. DEFINE j == End(a, i)
  <2>1. i \in 1 .. Len(a) /\ Spans(a, i, j)
    BY EndSpans, NameFacts
  <2>2. Spans(t, i, j)
    <3>1. j \in i .. Len(a) /\ i \in Nat /\ j \in Nat
      BY <1>1, <2>1 DEF Spans
    <3>2. \A k \in i .. j : t[k] # "/"
      BY <1>1, <2>1, <3>1 DEF Spans
    <3>3. j = Len(a) => t[j + 1] = "/"
      BY <1>1, <3>1
    <3>4. j # Len(a) => j + 1 \in 1 .. Len(a) /\ a[j + 1] = "/"
      BY <1>1, <2>1, <3>1 DEF Spans
    <3>5. t[j + 1] = "/" /\ j \in i .. Len(t)
      BY <1>1, <3>1, <3>3, <3>4
    <3>. QED
      BY <3>2, <3>5 DEF Spans
  <2>3. End(t, i) = j
    BY <1>1, <2>1, <2>2, EndIs
  <2>4. /\ NameAt(a, i) \in Seq(Symbol) /\ Len(NameAt(a, i)) = j - i + 1
        /\ \A k \in 1 .. j - i + 1 : NameAt(a, i)[k] = a[i + k - 1]
    BY NameFacts
  <2>5. /\ NameAt(t, i) \in Seq(Symbol) /\ Len(NameAt(t, i)) = j - i + 1
        /\ \A k \in 1 .. j - i + 1 : NameAt(t, i)[k] = t[i + k - 1]
    <3>1. i \in Starts(t)
      BY <1>2 DEF Behind
    <3>. QED
      BY <1>1, <2>3, <3>1, NameFacts
  <2>6. \A k \in 1 .. j - i + 1 : i + k - 1 \in 1 .. Len(a)
    BY <1>1, <2>1 DEF Spans
  <2>7. \A k \in 1 .. j - i + 1 : NameAt(t, i)[k] = NameAt(a, i)[k]
    BY <1>1, <2>4, <2>5, <2>6
  <2>. QED
    BY <2>4, <2>5, <2>7, SameSequence
<1>4. ASSUME NEW i \in Starts(b) PROVE NameAt(t, i + m) = NameAt(b, i)
  <2>. DEFINE j == End(b, i)
  <2>1. i \in 1 .. Len(b) /\ Spans(b, i, j)
    BY EndSpans, NameFacts
  <2>2. Spans(t, i + m, j + m)
    <3>1. j \in i .. Len(b) /\ i \in Nat /\ j \in Nat
      BY <1>1, <2>1 DEF Spans
    <3>2. ASSUME NEW k \in i + m .. j + m PROVE t[k] # "/"
      <4>1. k - m \in i .. j /\ k - m \in 1 .. Len(b) /\ k = (k - m) + m
        BY <1>1, <2>1, <3>1
      <4>. QED
        BY <1>1, <2>1, <4>1 DEF Spans
    <3>3. j # Len(b) => j + 1 \in 1 .. Len(b) /\ b[j + 1] = "/"
      BY <1>1, <2>1, <3>1 DEF Spans
    <3>4. j # Len(b) => t[(j + 1) + m] = "/"
      BY <1>1, <3>3
    <3>5. j + m = Len(t) \/ t[(j + m) + 1] = "/"
      <4>1. (j + m) + 1 = (j + 1) + m
        BY <1>1, <3>1
      <4>2. j = Len(b) => j + m = Len(t)
        BY <1>1, <3>1
      <4>. QED
        BY <3>4, <4>1, <4>2
    <3>6. j + m \in i + m .. Len(t)
      BY <1>1, <3>1
    <3>. QED
      BY <3>2, <3>5, <3>6 DEF Spans
  <2>3. End(t, i + m) = j + m
    BY <1>1, <2>1, <2>2, EndIs
  <2>4. /\ NameAt(b, i) \in Seq(Symbol) /\ Len(NameAt(b, i)) = j - i + 1
        /\ \A k \in 1 .. j - i + 1 : NameAt(b, i)[k] = b[i + k - 1]
    BY NameFacts
  <2>5. /\ NameAt(t, i + m) \in Seq(Symbol) /\ Len(NameAt(t, i + m)) = j - i + 1
        /\ \A k \in 1 .. j - i + 1 : NameAt(t, i + m)[k] = t[i + m + k - 1]
    <3>1. i + m \in Starts(t)
      BY <1>2 DEF Behind
    <3>2. /\ NameAt(t, i + m) \in Seq(Symbol) /\ Len(NameAt(t, i + m)) = (j + m) - (i + m) + 1
          /\ \A k \in 1 .. (j + m) - (i + m) + 1 : NameAt(t, i + m)[k] = t[i + m + k - 1]
      BY <1>1, <2>3, <3>1, NameFacts
    <3>3. (j + m) - (i + m) + 1 = j - i + 1
      BY <1>1, <2>1 DEF Spans
    <3>. QED
      BY <3>2, <3>3
  <2>6. \A k \in 1 .. j - i + 1 : i + k - 1 \in 1 .. Len(b) /\ i + m + k - 1 = (i + k - 1) + m
    BY <1>1, <2>1 DEF Spans
  <2>7. \A k \in 1 .. j - i + 1 : t[i + m + k - 1] = b[i + k - 1]
    BY <1>1, <2>6
  <2>. QED
    BY <2>4, <2>5, <2>7
<1>. QED
  BY <1>3, <1>4

LEMMA ListedBelow ==
  ASSUME NEW a \in Seq(Symbol), NEW b \in Seq(Symbol),
         NEW A \in SUBSET Starts(a), NEW B \in SUBSET Starts(b)
  PROVE  NamesAt(Under(a, b), Behind(A, B, After(a))) = NamesAt(a, A) \o NamesAt(b, B)
<1>. DEFINE t == Under(a, b)
            m == After(a)
            C == Behind(A, B, m)
<1>1. /\ t \in Seq(Symbol) /\ Len(a) \in Nat /\ m \in Nat /\ m = Len(a) + 1
      /\ Starts(t) = Behind(Starts(a), Starts(b), m)
      /\ \A i \in Starts(a) : NameAt(t, i) = NameAt(a, i)
      /\ \A i \in Starts(b) : NameAt(t, i + m) = NameAt(b, i)
  <2>1. t \in Seq(Symbol) /\ Len(a) \in Nat /\ m = Len(a) + 1
    BY BelowFacts
  <2>. QED
    BY <2>1, StartsBelow, NamesBelow
<1>12. C \in SUBSET Starts(t)
  BY <1>1 DEF Behind
<1>2. /\ A \in SUBSET Nat /\ IsFiniteSet(A) /\ A \in SUBSET (1 .. Len(a))
  BY StartsAre
<1>3. B \in SUBSET Nat /\ IsFiniteSet(B) /\ 0 \notin B
  BY StartsAre
<1>4. /\ Cardinality(C) = Cardinality(A) + Cardinality(B)
      /\ \A n \in 1 .. Cardinality(A) : InOrder(C)[n] = InOrder(A)[n]
      /\ \A n \in 1 .. Cardinality(B) : InOrder(C)[Cardinality(A) + n] = InOrder(B)[n] + m
  <2>1. \A i \in A : i <= m
    BY <1>1, <1>2
  <2>. QED
    BY <1>1, <1>2, <1>3, <1>12, <2>1, InOrderBehind
<1>5. /\ NamesAt(a, A) \in Seq(Seq(Symbol)) /\ Len(NamesAt(a, A)) = Cardinality(A)
      /\ Cardinality(A) \in Nat
      /\ \A n \in 1 .. Cardinality(A) :
           NamesAt(a, A)[n] = NameAt(a, InOrder(A)[n]) /\ InOrder(A)[n] \in A
  BY NamesAreListed
<1>6. /\ NamesAt(b, B) \in Seq(Seq(Symbol)) /\ Len(NamesAt(b, B)) = Cardinality(B)
      /\ Cardinality(B) \in Nat
      /\ \A n \in 1 .. Cardinality(B) :
           NamesAt(b, B)[n] = NameAt(b, InOrder(B)[n]) /\ InOrder(B)[n] \in B
  BY NamesAreListed
<1>7. /\ NamesAt(t, C) \in Seq(Seq(Symbol)) /\ Len(NamesAt(t, C)) = Cardinality(C)
      /\ \A n \in 1 .. Cardinality(C) : NamesAt(t, C)[n] = NameAt(t, InOrder(C)[n])
  BY <1>1, <1>12, NamesAreListed
<1>8. ASSUME NEW n \in 1 .. Cardinality(A) PROVE NamesAt(t, C)[n] = NamesAt(a, A)[n]
  <2>1. InOrder(A)[n] \in Starts(a) /\ n \in 1 .. Cardinality(C)
    BY <1>4, <1>5, <1>6
  <2>2. NameAt(t, InOrder(A)[n]) = NameAt(a, InOrder(A)[n])
    BY <1>1, <2>1
  <2>. QED
    BY <1>4, <1>5, <1>7, <2>1, <2>2
<1>9. ASSUME NEW n \in 1 .. Cardinality(B) PROVE NamesAt(t, C)[Cardinality(A) + n] = NamesAt(b, B)[n]
  <2>1. InOrder(B)[n] \in Starts(b) /\ Cardinality(A) + n \in 1 .. Cardinality(C)
    BY <1>4, <1>5, <1>6
  <2>2. NameAt(t, InOrder(B)[n] + m) = NameAt(b, InOrder(B)[n])
    BY <1>1, <2>1
  <2>. QED
    BY <1>4, <1>6, <1>7, <2>1, <2>2
<1>. DEFINE u == NamesAt(a, A)
            v == NamesAt(b, B)
            w == NamesAt(t, C)
<1>. HIDE DEF u, v, w
<1>10. /\ u \in Seq(Seq(Symbol)) /\ v \in Seq(Seq(Symbol)) /\ w \in Seq(Seq(Symbol))
       /\ Len(w) = Len(u) + Len(v)
       /\ \A n \in 1 .. Len(u) : w[n] = u[n]
       /\ \A n \in 1 .. Len(v) : w[Len(u) + n] = v[n]
  BY <1>4, <1>5, <1>6, <1>7, <1>8, <1>9 DEF u, v, w
<1>11. w = u \o v
  <2>1. ASSUME NEW n \in 1 .. Len(w) PROVE w[n] = (u \o v)[n]
    <3>1. CASE n <= Len(u)
      BY <1>10, <3>1
    <3>2. CASE n > Len(u)
      <4>1. n - Len(u) \in 1 .. Len(v) /\ n = Len(u) + (n - Len(u))
        BY <1>10, <3>2
      <4>2. w[n] = v[n - Len(u)]
        BY <1>10, <4>1
      <4>. QED
        BY <1>10, <3>2, <4>2
    <3>. QED
      BY <1>10, <3>1, <3>2
  <2>2. w \in Seq(Seq(Symbol)) /\ u \o v \in Seq(Seq(Symbol)) /\ Len(w) = Len(u \o v)
    BY <1>10
  <2>. QED
    BY <2>1, <2>2, SameSequence
<1>. QED
  BY <1>11 DEF u, v, w

LEMMA AllNamesBelow ==
  ASSUME NEW a \in Seq(Symbol), NEW b \in Seq(Symbol)
  PROVE  /\ Names(a \o <<"/">> \o b) = Names(a) \o Names(b)
         /\ ProperNames(a \o <<"/">> \o b) = ProperNames(a) \o ProperNames(b)
<1>. DEFINE t == Under(a, b)
            m == After(a)
<1>1. /\ Starts(t) = Behind(Starts(a), Starts(b), m)
      /\ \A i \in Starts(a) : NameAt(t, i) = NameAt(a, i)
      /\ \A i \in Starts(b) : NameAt(t, i + m) = NameAt(b, i)
  BY StartsBelow, NamesBelow
<1>2. \A A \in SUBSET Starts(a), B \in SUBSET Starts(b) :
        NamesAt(t, Behind(A, B, m)) = NamesAt(a, A) \o NamesAt(b, B)
  BY ListedBelow
<1>3. t = a \o <<"/">> \o b
  BY DEF Under
<1>4. Names(t) = Names(a) \o Names(b)
  BY <1>1, <1>2 DEF Names
<1>5. ProperStarts(t) = Behind(ProperStarts(a), ProperStarts(b), m)
  <2>1. ASSUME NEW i \in ProperStarts(t)
        PROVE  i \in ProperStarts(a) \cup {j + m : j \in ProperStarts(b)}
    BY <1>1 DEF Behind, ProperStarts
  <2>2. \A i \in ProperStarts(a) : i \in ProperStarts(t)
    BY <1>1 DEF Behind, ProperStarts
  <2>3. \A i \in ProperStarts(b) : i + m \in ProperStarts(t)
    BY <1>1 DEF Behind, ProperStarts
  <2>. QED
    BY <2>1, <2>2, <2>3 DEF Behind
<1>6. ProperStarts(a) \in SUBSET Starts(a) /\ ProperStarts(b) \in SUBSET Starts(b)
  BY DEF ProperStarts
<1>7. ProperNames(t) = ProperNames(a) \o ProperNames(b)
  BY <1>2, <1>5, <1>6 DEF ProperNames
<1>. QED
  BY <1>3, <1>4, <1>7

LEMMA EmptyHasNoNames == Names(<<>>) = <<>>
<1>1. Starts(<<>>) = {}
  BY DEF Starts
<1>2. Cardinality({}) = 0
  BY FS_EmptySet
<1>. QED
  BY <1>1, <1>2 DEF Names, NamesAt

(* Nothing is lost with the last slash.                                    *)
LEMMA TrimmedNames ==
  ASSUME NEW s \in Seq(Symbol)
  PROVE  TrimSlash(s) \in Seq(Symbol) /\ Names(TrimSlash(s)) = Names(s)
<1>1. CASE s # <<>> /\ Last(s) = "/"
  <2>1. Front(s) \in Seq(Symbol) /\ <<>> \in Seq(Symbol) /\ TrimSlash(s) = Front(s)
    BY <1>1 DEF Front, TrimSlash
  <2>2. Front(s) \o <<"/">> \o <<>> = s
    BY <1>1 DEF Front, Last
  <2>3. Names(s) = Names(Front(s)) \o Names(<<>>)
    BY <2>1, <2>2, AllNamesBelow
  <2>4. Names(Front(s)) \in Seq(Seq(Symbol))
    BY <2>1, NamesAreListed DEF Names
  <2>. QED
    BY <2>1, <2>3, <2>4, EmptyHasNoNames
<1>2. CASE ~ (s # <<>> /\ Last(s) = "/")
  BY <1>2 DEF TrimSlash
<1>. QED
  BY <1>1, <1>2

-----------------------------------------------------------------------------
(* filepath.Clean.                                                         *)

LEMMA InOrderGrows ==
  ASSUME NEW S \in SUBSET Nat, IsFiniteSet(S)
  PROVE  \A m, n \in 1 .. Cardinality(S) : m < n => InOrder(S)[m] < InOrder(S)[n]
<1>. SUFFICES ASSUME NEW m \in 1 .. Cardinality(S), NEW n \in 1 .. Cardinality(S), m < n
              PROVE  InOrder(S)[m] < InOrder(S)[n]
  OBVIOUS
<1>. DEFINE i == InOrder(S)[m]
            j == InOrder(S)[n]
<1>1. i \in S /\ j \in S /\ Rank(S, i) = m /\ Rank(S, j) = n /\ i \in Nat /\ j \in Nat
  BY InOrderFacts
<1>. HIDE DEF i, j
<1>2. j < i => n < m
  BY <1>1, RankFacts
<1>3. i # j
  BY <1>1
<1>4. Cardinality(S) \in Nat
  BY RankFacts
<1>5. i < j
  BY <1>1, <1>2, <1>3, <1>4
<1>. QED
  BY <1>5 DEF i, j

(* Neighbours have neighbouring ranks.                                     *)
LEMMA NeighboursInOrder ==
  ASSUME NEW S \in SUBSET Nat, IsFiniteSet(S), NEW i \in S, i + 1 \in S
  PROVE  Rank(S, i + 1) = Rank(S, i) + 1
<1>. DEFINE r == Rank(S, i)
            N == Cardinality(S)
<1>1. N \in Nat /\ i \in Nat /\ r \in 1 .. N /\ Rank(S, i + 1) \in 1 .. N /\ r < Rank(S, i + 1)
  BY RankFacts
<1>2. CASE Rank(S, i + 1) # r + 1
  <2>1. r + 1 \in 1 .. N /\ r + 1 < Rank(S, i + 1)
    BY <1>1, <1>2
  <2>2. PICK k \in S : Rank(S, k) = r + 1
    BY <2>1, InOrderFacts
  <2>3. k \in Nat /\ ~ (k < i) /\ k # i /\ ~ (i + 1 < k) /\ k # i + 1
    BY <1>1, <2>1, <2>2, RankFacts
  <2>. QED
    BY <1>1, <2>3
<1>. QED
  BY <1>2

(* So a run of members is a run of ranks.                                  *)
LEMMA RunInOrder ==
  ASSUME NEW S \in SUBSET Nat, IsFiniteSet(S), NEW i \in Nat, NEW j \in Nat, i .. j \subseteq S
  PROVE  \A k \in i .. j : Rank(S, k) = Rank(S, i) + (k - i)
<1>. DEFINE Apart == {k \in i .. j : Rank(S, k) # Rank(S, i) + (k - i)}
<1>1. CASE Apart # {}
  <2>1. PICK k \in Apart : \A l \in Apart : k <= l
    <3>1. Apart \in SUBSET Nat
      OBVIOUS
    <3>. HIDE DEF Apart
    <3>. QED
      BY <1>1, <3>1, Least
  <2>2. k \in i .. j /\ Rank(S, k) # Rank(S, i) + (k - i)
    OBVIOUS
  <2>3. Rank(S, i) \in Nat
    BY <2>2, RankFacts
  <2>4. k # i
    BY <2>2, <2>3
  <2>5. k - 1 \in i .. j /\ (k - 1) + 1 = k /\ ~ (k <= k - 1)
    BY <2>2, <2>4
  <2>6. k - 1 \notin Apart
    BY <2>1, <2>5
  <2>7. Rank(S, k - 1) = Rank(S, i) + ((k - 1) - i)
    BY <2>5, <2>6
  <2>8. k - 1 \in S /\ (k - 1) + 1 \in S
    BY <2>2, <2>5
  <2>9. Rank(S, k) = Rank(S, k - 1) + 1
    BY <2>5, <2>8, NeighboursInOrder
  <2>. QED
    BY <2>2, <2>3, <2>7, <2>9
<1>. QED
  BY <1>1

(* Of two names one ends, and a slash comes, before the other begins.      *)
LEMMA NamesApart ==
  ASSUME NEW s \in Seq(Symbol), NEW p \in Starts(s), NEW q \in Starts(s), p < q
  PROVE  End(s, p) + 1 < q
<1>1. /\ p \in 1 .. Len(s) /\ q \in 1 .. Len(s) /\ Len(s) \in Nat
      /\ s[q] # "/" /\ (q = 1 \/ s[q - 1] = "/")
  BY DEF Starts
<1>2. Spans(s, p, End(s, p))
  BY EndSpans
<1>3. /\ End(s, p) \in p .. Len(s) /\ \A k \in p .. End(s, p) : s[k] # "/"
      /\ End(s, p) = Len(s) \/ s[End(s, p) + 1] = "/"
  BY <1>2 DEF Spans
<1>4. q - 1 >= p /\ s[q - 1] = "/"
  BY <1>1
<1>5. ~ (q - 1 <= End(s, p))
  BY <1>1, <1>3, <1>4
<1>6. q # End(s, p) + 1
  BY <1>1, <1>3
<1>. QED
  BY <1>1, <1>3, <1>5, <1>6

(* What stays: the proper names, and a slash before each but the first.    *)
LEMMA StaysAre ==
  ASSUME NEW s \in Seq(Symbol)
  PROVE  /\ Stays(s) \in SUBSET Nat /\ Stays(s) \in SUBSET (1 .. Len(s)) /\ IsFiniteSet(Stays(s))
         /\ Len(s) \in Nat
         /\ \A p \in ProperStarts(s) : p \in Starts(s) /\ p .. End(s, p) \subseteq Stays(s)
         /\ \A p, q \in ProperStarts(s) : q < p => p - 1 \in Stays(s) /\ s[p - 1] = "/"
         /\ \A i \in Stays(s) :
              \/ s[i] # "/" /\ \E p \in ProperStarts(s) : i \in p .. End(s, p)
              \/ s[i] = "/" /\ \E p, q \in ProperStarts(s) : i = p - 1 /\ q < p
<1>1. DOMAIN s = 1 .. Len(s) /\ Len(s) \in Nat /\ ProperStarts(s) \subseteq Starts(s)
  BY DEF ProperStarts
<1>2. Stays(s) \subseteq 1 .. Len(s)
  BY <1>1 DEF Stays
<1>3. IsFiniteSet(Stays(s))
  <2>1. IsFiniteSet(1 .. Len(s))
    BY <1>1, FS_Interval
  <2>. QED
    BY <1>2, <2>1, FS_Subset
<1>4. ASSUME NEW p \in ProperStarts(s)
      PROVE  /\ p \in 1 .. Len(s) /\ s[p] # "/" /\ (p = 1 \/ s[p - 1] = "/")
             /\ End(s, p) \in p .. Len(s) /\ \A k \in p .. End(s, p) : s[k] # "/"
  <2>1. p \in Starts(s)
    BY <1>1
  <2>2. Spans(s, p, End(s, p))
    BY <2>1, EndSpans
  <2>. QED
    BY <1>1, <2>1, <2>2 DEF Starts, Spans
<1>5. ASSUME NEW p \in ProperStarts(s) PROVE p .. End(s, p) \subseteq Stays(s)
  <2>1. ASSUME NEW i \in p .. End(s, p) PROVE i \in Stays(s)
    <3>1. i \in 1 .. Len(s)
      BY <1>1, <1>4
    <3>. QED
      BY <1>1, <3>1 DEF Stays
  <2>. QED
    BY <2>1
<1>6. ASSUME NEW p \in ProperStarts(s), NEW q \in ProperStarts(s), q < p
      PROVE  p - 1 \in Stays(s) /\ s[p - 1] = "/"
  <2>1. p \in 1 .. Len(s) /\ q \in 1 .. Len(s) /\ (p = 1 \/ s[p - 1] = "/")
    BY <1>4
  <2>2. p # 1 /\ p - 1 \in 1 .. Len(s)
    BY <1>1, <1>6, <2>1
  <2>3. p - 1 \in Stays(s)
    BY <1>1, <1>6, <2>2 DEF Stays
  <2>. QED
    BY <2>1, <2>2, <2>3
<1>7. ASSUME NEW i \in Stays(s)
      PROVE  \/ s[i] # "/" /\ \E p \in ProperStarts(s) : i \in p .. End(s, p)
             \/ s[i] = "/" /\ \E p, q \in ProperStarts(s) : i = p - 1 /\ q < p
  <2>1. PICK p \in ProperStarts(s) :
          i \in p .. End(s, p) \/ (i = p - 1 /\ \E q \in ProperStarts(s) : q < p)
    BY DEF Stays
  <2>2. CASE i \in p .. End(s, p)
    BY <1>4, <2>2
  <2>3. CASE i = p - 1 /\ \E q \in ProperStarts(s) : q < p
    BY <1>6, <2>3
  <2>. QED
    BY <2>1, <2>2, <2>3
<1>8. Stays(s) \in SUBSET Nat
  BY <1>2
<1>. QED
  BY <1>1, <1>2, <1>3, <1>5, <1>6, <1>7, <1>8

(* Nothing stays between the end of a name and the slash before the next.  *)
LEMMA NothingBetween ==
  ASSUME NEW s \in Seq(Symbol), NEW p \in ProperStarts(s), NEW k \in Stays(s), k > End(s, p),
         s[k] # "/"
  PROVE  \E i \in Stays(s) : End(s, p) < i /\ i < k
<1>1. PICK q \in ProperStarts(s) : k \in q .. End(s, q)
  BY StaysAre
<1>2. /\ p \in Starts(s) /\ q \in Starts(s) /\ p \in 1 .. Len(s) /\ q \in 1 .. Len(s)
      /\ Len(s) \in Nat /\ End(s, p) \in p .. Len(s) /\ End(s, q) \in q .. Len(s)
  BY StaysAre, NameFacts
<1>3. ~ (q < p)
  <2>1. q < p => End(s, q) + 1 < p
    BY <1>2, NamesApart
  <2>. QED
    BY <1>1, <1>2, <2>1
<1>4. q # p
  BY <1>1, <1>2
<1>5. p < q
  BY <1>2, <1>3, <1>4
<1>6. End(s, p) + 1 < q
  BY <1>2, <1>5, NamesApart
<1>7. q - 1 \in Stays(s)
  BY <1>5, StaysAre
<1>8. End(s, p) < q - 1 /\ q - 1 < k
  BY <1>1, <1>2, <1>6
<1>. QED
  BY <1>7, <1>8

LEMMA TidiedFacts ==
  ASSUME NEW s \in Seq(Symbol)
  PROVE  /\ Tidied(s) \in Seq(Symbol) /\ Len(Tidied(s)) = Cardinality(Stays(s))
         /\ Cardinality(Stays(s)) \in Nat
         /\ \A n \in 1 .. Cardinality(Stays(s)) :
              /\ InOrder(Stays(s))[n] \in Stays(s)
              /\ Rank(Stays(s), InOrder(Stays(s))[n]) = n
              /\ Tidied(s)[n] = s[InOrder(Stays(s))[n]]
         /\ \A i \in Stays(s) :
              /\ Rank(Stays(s), i) \in 1 .. Cardinality(Stays(s))
              /\ InOrder(Stays(s))[Rank(Stays(s), i)] = i
              /\ Tidied(s)[Rank(Stays(s), i)] = s[i]
<1>. DEFINE K == Stays(s)
            N == Cardinality(K)
<1>1. K \in SUBSET (1 .. Len(s)) /\ K \in SUBSET Nat /\ IsFiniteSet(K)
  BY StaysAre
<1>2. /\ N \in Nat
      /\ \A n \in 1 .. N : InOrder(K)[n] \in K /\ Rank(K, InOrder(K)[n]) = n
      /\ \A i \in K : Rank(K, i) \in 1 .. N /\ InOrder(K)[Rank(K, i)] = i
  BY <1>1, InOrderFacts
<1>3. \A n \in 1 .. N : s[InOrder(K)[n]] \in Symbol
  BY <1>1, <1>2
<1>4. Tidied(s) = [n \in 1 .. N |-> s[InOrder(K)[n]]]
  BY DEF Tidied
<1>. HIDE DEF K, N
<1>5. Tidied(s) \in Seq(Symbol) /\ Len(Tidied(s)) = N /\ \A n \in 1 .. N : Tidied(s)[n] = s[InOrder(K)[n]]
  BY <1>2, <1>3, <1>4
<1>6. \A i \in K : Tidied(s)[Rank(K, i)] = s[i]
  BY <1>2, <1>5
<1>. QED
  BY <1>2, <1>5, <1>6 DEF K, N

(* The names of what stays begin where the proper names began, ...         *)
LEMMA TidiedStarts ==
  ASSUME NEW s \in Seq(Symbol)
  PROVE  /\ \A n \in Starts(Tidied(s)) : InOrder(Stays(s))[n] \in ProperStarts(s)
         /\ \A p \in ProperStarts(s) : p \in Stays(s) /\ Rank(Stays(s), p) \in Starts(Tidied(s))
<1>. DEFINE K == Stays(s)
            N == Cardinality(K)
            P == ProperStarts(s)
            u == Tidied(s)
<1>1. /\ K \in SUBSET Nat /\ IsFiniteSet(K) /\ Len(s) \in Nat
      /\ \A p \in P : p \in Starts(s) /\ p .. End(s, p) \subseteq K
      /\ \A p, q \in P : q < p => p - 1 \in K /\ s[p - 1] = "/"
      /\ \A i \in K : \/ s[i] # "/" /\ \E p \in P : i \in p .. End(s, p)
                      \/ s[i] = "/" /\ \E p, q \in P : i = p - 1 /\ q < p
  BY StaysAre
<1>2. /\ u \in Seq(Symbol) /\ Len(u) = N /\ N \in Nat
      /\ \A n \in 1 .. N : InOrder(K)[n] \in K /\ Rank(K, InOrder(K)[n]) = n
                           /\ u[n] = s[InOrder(K)[n]]
      /\ \A i \in K : Rank(K, i) \in 1 .. N /\ InOrder(K)[Rank(K, i)] = i /\ u[Rank(K, i)] = s[i]
  BY TidiedFacts
<1>3. \A p \in P : p \in Nat /\ p \in 1 .. Len(s) /\ End(s, p) \in p .. Len(s) /\ s[p] # "/"
  <2>1. \A p \in P : p \in 1 .. Len(s) /\ End(s, p) \in p .. Len(s)
    BY <1>1, NameFacts
  <2>2. \A p \in P : s[p] # "/"
    BY <1>1 DEF Starts
  <2>. QED
    BY <1>1, <2>1, <2>2
<1>4. \A i \in K : i + 1 \in K => Rank(K, i + 1) = Rank(K, i) + 1
  BY <1>1, NeighboursInOrder
<1>5. DOMAIN u = 1 .. N
  BY <1>2
<1>. HIDE DEF K, N, P, u
<1>6. ASSUME NEW n \in Starts(u) PROVE InOrder(K)[n] \in P
  <2>. DEFINE i == InOrder(K)[n]
  <2>1. n \in 1 .. N /\ u[n] # "/" /\ (n = 1 \/ u[n - 1] = "/")
    BY <1>5 DEF Starts
  <2>2. i \in K /\ Rank(K, i) = n /\ s[i] # "/" /\ i \in Nat
    BY <1>1, <1>2, <2>1
  <2>3. PICK p \in P : i \in p .. End(s, p)
    BY <1>1, <2>2
  <2>. HIDE DEF i
  <2>4. ASSUME i # p PROVE FALSE
    <3>1. i - 1 \in p .. End(s, p) /\ (i - 1) + 1 = i
      BY <1>3, <2>2, <2>3, <2>4
    <3>2. i - 1 \in K /\ s[i - 1] # "/"
      <4>1. Spans(s, p, End(s, p))
        BY <1>1, EndSpans
      <4>. QED
        BY <1>1, <3>1, <4>1 DEF Spans
    <3>3. n = Rank(K, i - 1) + 1
      BY <1>4, <2>2, <3>1, <3>2
    <3>4. Rank(K, i - 1) \in 1 .. N /\ u[Rank(K, i - 1)] # "/"
      BY <1>2, <3>2
    <3>5. n - 1 = Rank(K, i - 1) /\ n # 1
      BY <1>2, <2>1, <3>3, <3>4
    <3>. QED
      BY <2>1, <3>4, <3>5
  <2>5. i = p
    BY <2>4
  <2>6. i \in P
    BY <2>3, <2>5
  <2>. QED
    BY <2>6 DEF i
<1>7. ASSUME NEW p \in P PROVE p \in K /\ Rank(K, p) \in Starts(u)
  <2>. DEFINE n == Rank(K, p)
  <2>1. p \in K
    BY <1>1, <1>3
  <2>2. n \in 1 .. N /\ u[n] # "/"
    BY <1>2, <1>3, <2>1
  <2>3. CASE \E q \in P : q < p
    <3>1. p - 1 \in K /\ s[p - 1] = "/" /\ (p - 1) + 1 = p
      BY <1>1, <1>3, <2>3
    <3>2. n = Rank(K, p - 1) + 1
      BY <1>4, <2>1, <3>1
    <3>3. Rank(K, p - 1) \in 1 .. N /\ u[Rank(K, p - 1)] = "/"
      BY <1>2, <3>1
    <3>4. u[n - 1] = "/"
      BY <1>2, <3>2, <3>3
    <3>. QED
      BY <1>5, <2>1, <2>2, <3>4 DEF Starts
  <2>4. CASE ~ \E q \in P : q < p
    <3>1. ASSUME NEW k \in K PROVE ~ (k < p)
      <4>1. k \in Nat
        BY <1>1
      <4>2. CASE \E q \in P : k \in q .. End(s, q)
        BY <1>3, <2>4, <4>1, <4>2
      <4>3. CASE \E q, r \in P : k = q - 1 /\ r < q
        BY <1>3, <2>4, <4>1, <4>3
      <4>. QED
        BY <1>1, <4>2, <4>3
    <3>2. CASE n # 1
      <4>1. 1 \in 1 .. N /\ 1 < n
        BY <1>2, <2>2, <3>2
      <4>2. InOrder(K)[1] \in K /\ Rank(K, InOrder(K)[1]) = 1
        BY <1>2, <4>1
      <4>3. InOrder(K)[1] \in Nat /\ p \in Nat /\ InOrder(K)[1] # p
        BY <1>1, <1>3, <3>2, <4>2
      <4>4. p < InOrder(K)[1]
        BY <3>1, <4>2, <4>3
      <4>5. \A i, k \in K : i < k => Rank(K, i) < Rank(K, k)
        BY <1>1, RankFacts
      <4>6. n < 1
        BY <2>1, <4>2, <4>4, <4>5
      <4>. QED
        BY <1>2, <2>2, <4>6
    <3>. QED
      BY <1>5, <2>1, <2>2, <3>2 DEF Starts
  <2>. QED
    BY <2>3, <2>4
<1>. QED
  BY <1>6, <1>7 DEF K, P, u

(* ... and are the same.                                                   *)
LEMMA TidiedNameAt ==
  ASSUME NEW s \in Seq(Symbol), NEW p \in ProperStarts(s)
  PROVE  NameAt(Tidied(s), Rank(Stays(s), p)) = NameAt(s, p)
<1>. DEFINE K == Stays(s)
            N == Cardinality(K)
            u == Tidied(s)
            n == Rank(K, p)
            j == End(s, p)
            d == j - p
<1>1. /\ K \in SUBSET Nat /\ IsFiniteSet(K) /\ Len(s) \in Nat
      /\ p \in Starts(s) /\ p .. j \subseteq K
  BY StaysAre
<1>2. /\ u \in Seq(Symbol) /\ Len(u) = N /\ N \in Nat
      /\ \A m \in 1 .. N : InOrder(K)[m] \in K /\ Rank(K, InOrder(K)[m]) = m
                           /\ u[m] = s[InOrder(K)[m]]
      /\ \A i \in K : Rank(K, i) \in 1 .. N /\ InOrder(K)[Rank(K, i)] = i /\ u[Rank(K, i)] = s[i]
  BY TidiedFacts
<1>3. /\ p \in 1 .. Len(s) /\ j \in p .. Len(s) /\ p \in Nat /\ j \in Nat /\ d \in Nat
      /\ \A k \in p .. j : s[k] # "/"
  <2>1. p \in 1 .. Len(s) /\ Spans(s, p, j)
    BY <1>1, NameFacts, EndSpans
  <2>. QED
    BY <1>1, <2>1 DEF Spans
<1>4. n \in Starts(u) /\ p \in K /\ n \in 1 .. N
  BY <1>2, TidiedStarts
<1>5. \A k \in p .. j : Rank(K, k) = n + (k - p)
  BY <1>1, <1>3, RunInOrder
<1>6. /\ NameAt(s, p) \in Seq(Symbol) /\ Len(NameAt(s, p)) = d + 1
      /\ \A k \in 1 .. d + 1 : NameAt(s, p)[k] = s[p + k - 1]
  BY <1>1, NameFacts
<1>7. \A k \in Stays(s) : k > j /\ s[k] # "/" => \E i \in Stays(s) : j < i /\ i < k
  BY NothingBetween
<1>8. \A i, k \in K : i < k => Rank(K, i) < Rank(K, k)
  BY <1>1, RankFacts
<1>. HIDE DEF K, N, u, n, j
<1>9. ASSUME NEW k \in 0 .. d PROVE n + k \in 1 .. N /\ u[n + k] = s[p + k] /\ s[p + k] # "/"
  <2>1. p + k \in p .. j /\ (p + k) - p = k
    BY <1>3, <1>9
  <2>2. Rank(K, p + k) = n + k /\ p + k \in K
    BY <1>1, <1>5, <2>1
  <2>. QED
    BY <1>2, <1>3, <2>1, <2>2
<1>10. Rank(K, j) = n + d /\ j \in K
  BY <1>1, <1>3, <1>5
<1>11. n + d = N \/ u[n + d + 1] = "/"
  <2>. DEFINE k == InOrder(K)[n + d + 1]
  <2>. SUFFICES ASSUME n + d # N, u[n + d + 1] # "/" PROVE FALSE
    OBVIOUS
  <2>1. n + d \in 1 .. N
    BY <1>3, <1>9
  <2>2. n + d + 1 \in 1 .. N
    BY <1>2, <2>1
  <2>3. k \in K /\ Rank(K, k) = n + d + 1 /\ s[k] # "/"
    BY <1>2, <2>2
  <2>. HIDE DEF k
  <2>4. k \in Nat /\ ~ (k < j) /\ k # j
    BY <1>1, <1>8, <1>10, <2>1, <2>3
  <2>5. k > j
    BY <1>3, <2>4
  <2>6. PICK i \in K : j < i /\ i < k
    BY <1>7, <2>3, <2>5 DEF K
  <2>7. n + d < Rank(K, i) /\ Rank(K, i) < n + d + 1
    BY <1>8, <1>10, <2>3, <2>6
  <2>8. Rank(K, i) \in 1 .. N
    BY <1>2
  <2>. QED
    BY <1>2, <2>1, <2>7, <2>8
<1>12. Spans(u, n, n + d)
  <2>1. n + d \in n .. Len(u)
    <3>1. d \in 0 .. d
      BY <1>3
    <3>2. n + d \in 1 .. N
      BY <1>9, <3>1
    <3>3. n \in Nat /\ n <= n + d
      BY <1>2, <1>3, <1>4
    <3>. QED
      BY <1>2, <1>3, <3>2, <3>3
  <2>2. ASSUME NEW k \in n .. n + d PROVE u[k] # "/"
    <3>1. k - n \in 0 .. d /\ n + (k - n) = k
      BY <1>2, <1>3, <1>4
    <3>. QED
      BY <1>9, <3>1
  <2>. QED
    BY <1>2, <1>11, <2>1, <2>2 DEF Spans
<1>13. End(u, n) = n + d
  BY <1>2, <1>4, <1>12, EndIs
<1>14. /\ NameAt(u, n) \in Seq(Symbol) /\ Len(NameAt(u, n)) = d + 1
       /\ \A k \in 1 .. d + 1 : NameAt(u, n)[k] = u[n + k - 1]
  <2>1. /\ NameAt(u, n) \in Seq(Symbol) /\ Len(NameAt(u, n)) = (n + d) - n + 1
        /\ \A k \in 1 .. (n + d) - n + 1 : NameAt(u, n)[k] = u[n + k - 1]
    BY <1>2, <1>4, <1>13, NameFacts
  <2>2. (n + d) - n + 1 = d + 1
    BY <1>2, <1>3, <1>4
  <2>. QED
    BY <2>1, <2>2
<1>15. ASSUME NEW k \in 1 .. d + 1 PROVE NameAt(u, n)[k] = NameAt(s, p)[k]
  <2>1. k - 1 \in 0 .. d /\ n + k - 1 = n + (k - 1) /\ p + k - 1 = p + (k - 1)
    BY <1>2, <1>3, <1>4
  <2>2. u[n + (k - 1)] = s[p + (k - 1)]
    BY <1>9, <2>1
  <2>. QED
    BY <1>6, <1>14, <2>1, <2>2
<1>16. NameAt(u, n) = NameAt(s, p)
  BY <1>6, <1>14, <1>15, SameSequence
<1>. QED
  BY <1>16 DEF u, n, K

LEMMA TidiedNames ==
  ASSUME NEW s \in Seq(Symbol)
  PROVE  Tidied(s) \in Seq(Symbol) /\ ProperNames(Tidied(s)) = ProperNames(s)
<1>. DEFINE K == Stays(s)
            P == ProperStarts(s)
            u == Tidied(s)
            S == Starts(u)
            e == [n \in S |-> InOrder(K)[n]]
<1>1. /\ K \in SUBSET Nat /\ IsFiniteSet(K) /\ P \in SUBSET Starts(s)
  BY StaysAre DEF ProperStarts
<1>2. /\ u \in Seq(Symbol) /\ Len(u) = Cardinality(K) /\ Cardinality(K) \in Nat
      /\ \A n \in 1 .. Cardinality(K) : Rank(K, InOrder(K)[n]) = n
      /\ \A i \in K : InOrder(K)[Rank(K, i)] = i
  BY TidiedFacts
<1>3. /\ \A n \in S : InOrder(K)[n] \in P
      /\ \A p \in P : p \in K /\ Rank(K, p) \in S
  BY TidiedStarts
<1>4. \A p \in P : NameAt(u, Rank(K, p)) = NameAt(s, p)
  BY TidiedNameAt
<1>5. /\ S \in SUBSET Nat /\ IsFiniteSet(S) /\ S \in SUBSET (1 .. Cardinality(K))
      /\ P \in SUBSET Nat /\ S \in SUBSET Starts(u)
  <2>1. S \in SUBSET Starts(u)
    OBVIOUS
  <2>2. S \in SUBSET Nat /\ IsFiniteSet(S) /\ S \in SUBSET (1 .. Len(u))
    BY <1>2, <2>1, StartsAre
  <2>3. P \in SUBSET Nat
    BY <1>1, StartsAre
  <2>. QED
    BY <1>2, <2>1, <2>2, <2>3
<1>6. \A m, n \in 1 .. Cardinality(K) : m < n => InOrder(K)[m] < InOrder(K)[n]
  BY <1>1, InOrderGrows
<1>7. \A n \in S : NameAt(u, n) = NameAt(s, e[n])
  BY <1>2, <1>3, <1>4, <1>5
<1>8. e \in [S -> P]
  BY <1>3
<1>9. \A m, n \in S : m < n => e[m] < e[n]
  BY <1>5, <1>6
<1>10. \A p \in P : \E n \in S : e[n] = p
  BY <1>2, <1>3
<1>11. ProperStarts(u) = S
  BY <1>3, <1>7 DEF ProperStarts
<1>12. /\ NamesAt(u, S) \in Seq(Seq(Symbol)) /\ Len(NamesAt(u, S)) = Cardinality(S)
       /\ \A n \in 1 .. Cardinality(S) :
            NamesAt(u, S)[n] = NameAt(u, InOrder(S)[n]) /\ InOrder(S)[n] \in S
  BY <1>2, <1>5, NamesAreListed
<1>13. /\ NamesAt(s, P) \in Seq(Seq(Symbol)) /\ Len(NamesAt(s, P)) = Cardinality(P)
       /\ \A n \in 1 .. Cardinality(P) : NamesAt(s, P)[n] = NameAt(s, InOrder(P)[n])
  BY <1>1, NamesAreListed
<1>. HIDE DEF K, P, u, S, e
<1>14. /\ Cardinality(P) = Cardinality(S)
       /\ \A n \in 1 .. Cardinality(S) : InOrder(P)[n] = e[InOrder(S)[n]]
  BY <1>5, <1>8, <1>9, <1>10, SameOrder
<1>15. \A n \in 1 .. Cardinality(S) : NamesAt(u, S)[n] = NamesAt(s, P)[n]
  BY <1>7, <1>12, <1>13, <1>14
<1>16. NamesAt(u, S) = NamesAt(s, P)
  BY <1>12, <1>13, <1>14, <1>15, SameSequence
<1>. QED
  BY <1>2, <1>11, <1>16 DEF ProperNames, u, P

-----------------------------------------------------------------------------
(* Paths that begin with the same names begin alike.                       *)

LEMMA PrefixFacts ==
  ASSUME NEW X, NEW u \in Seq(X), NEW v \in Seq(X)
  PROVE  IsPrefix(u, v) <=> Len(u) <= Len(v) /\ \A n \in 1 .. Len(u) : u[n] = v[n]
<1>1. Len(u) \in Nat /\ Len(v) \in Nat
  OBVIOUS
<1>. DEFINE a == SubSeq(u, 1, Len(u))
            b == SubSeq(v, 1, Len(u))
<1>2. /\ a \in Seq(X) /\ Len(a) = Len(u)
      /\ \A n \in 1 .. Len(u) : a[n] = u[n]
  OBVIOUS
<1>3. ASSUME Len(u) <= Len(v)
      PROVE  /\ b \in Seq(X) /\ Len(b) = Len(u)
             /\ \A n \in 1 .. Len(u) : b[n] = v[n]
  BY <1>1, <1>3
<1>. HIDE DEF a, b
<1>4. ASSUME Len(u) <= Len(v), \A n \in 1 .. Len(u) : u[n] = v[n] PROVE a = b
  BY <1>2, <1>3, <1>4, SameSequence
<1>5. ASSUME Len(u) <= Len(v), a = b PROVE \A n \in 1 .. Len(u) : u[n] = v[n]
  BY <1>2, <1>3, <1>5
<1>. QED
  BY <1>4, <1>5 DEF IsPrefix, a, b

(* A place that is no slash is in a name.                                  *)
LEMMA NameAround ==
  ASSUME NEW s \in Seq(Symbol), NEW i \in 1 .. Len(s), s[i] # "/"
  PROVE  \E p \in Starts(s) : p <= i /\ i <= End(s, p)
<1>. DEFINE B == {q \in 1 .. i : \A k \in q .. i : s[k] # "/"}
<1>1. i \in Nat /\ Len(s) \in Nat /\ DOMAIN s = 1 .. Len(s)
  OBVIOUS
<1>2. PICK p \in B : \A q \in B : p <= q
  <2>1. B \in SUBSET Nat /\ i \in B
    BY <1>1
  <2>. HIDE DEF B
  <2>. QED
    BY <2>1, Least
<1>3. p \in 1 .. i /\ p \in 1 .. Len(s) /\ \A k \in p .. i : s[k] # "/"
  BY <1>1, <1>2
<1>4. p # 1 => s[p - 1] = "/"
  <2>. SUFFICES ASSUME p # 1, s[p - 1] # "/" PROVE FALSE
    OBVIOUS
  <2>1. p - 1 \in 1 .. i /\ ~ (p <= p - 1)
    BY <1>3
  <2>2. ASSUME NEW k \in p - 1 .. i PROVE s[k] # "/"
    <3>1. k = p - 1 \/ k \in p .. i
      BY <1>3
    <3>. QED
      BY <1>3, <3>1
  <2>3. p - 1 \in B
    BY <2>1, <2>2
  <2>. QED
    BY <1>2, <2>1, <2>3
<1>5. s[p] # "/"
  BY <1>3
<1>6. p \in Starts(s)
  BY <1>1, <1>3, <1>4, <1>5 DEF Starts
<1>7. i <= End(s, p)
  <2>1. Spans(s, p, End(s, p))
    BY <1>6, EndSpans
  <2>2. End(s, p) \in p .. Len(s) /\ (End(s, p) = Len(s) \/ s[End(s, p) + 1] = "/")
    BY <2>1 DEF Spans
  <2>3. ~ (End(s, p) + 1 \in p .. i) \/ End(s, p) = Len(s)
    BY <1>3, <2>2
  <2>. QED
    BY <1>1, <1>3, <2>2, <2>3
<1>. QED
  BY <1>3, <1>6, <1>7

(* Texts that agree so far have the same names so far.                     *)
Agree(s, t, m) == \A k \in 1 .. m : k \in DOMAIN s /\ k \in DOMAIN t /\ s[k] = t[k]

LEMMA SameStarts ==
  ASSUME NEW s \in Seq(Symbol), NEW t \in Seq(Symbol), NEW m \in Nat, Agree(s, t, m)
  PROVE  \A p \in 1 .. m : p \in Starts(s) <=> p \in Starts(t)
<1>. SUFFICES ASSUME NEW p \in 1 .. m PROVE p \in Starts(s) <=> p \in Starts(t)
  OBVIOUS
<1>1. p \in DOMAIN s /\ p \in DOMAIN t /\ s[p] = t[p]
  BY DEF Agree
<1>2. p # 1 => s[p - 1] = t[p - 1]
  <2>1. p # 1 => p - 1 \in 1 .. m
    OBVIOUS
  <2>. QED
    BY <2>1 DEF Agree
<1>. QED
  BY <1>1, <1>2 DEF Starts

LEMMA SameRank ==
  ASSUME NEW s \in Seq(Symbol), NEW t \in Seq(Symbol), NEW m \in Nat, Agree(s, t, m),
         NEW p \in Starts(s), p \in Starts(t), p <= m + 1
  PROVE  Rank(Starts(s), p) = Rank(Starts(t), p)
<1>1. \A q \in 1 .. m : q \in Starts(s) <=> q \in Starts(t)
  BY SameStarts
<1>2. /\ \A q \in Starts(s) : q \in Nat /\ q >= 1
      /\ \A q \in Starts(t) : q \in Nat /\ q >= 1
  BY DEF Starts
<1>3. ASSUME NEW q, q \in Starts(s), q <= p PROVE q \in Starts(t)
  <2>1. q = p \/ q \in 1 .. m
    BY <1>2, <1>3
  <2>. QED
    BY <1>1, <1>3, <2>1
<1>4. ASSUME NEW q, q \in Starts(t), q <= p PROVE q \in Starts(s)
  <2>1. q = p \/ q \in 1 .. m
    BY <1>2, <1>4
  <2>. QED
    BY <1>1, <1>4, <2>1
<1>5. {q \in Starts(s) : q <= p} = {q \in Starts(t) : q <= p}
  BY <1>3, <1>4
<1>. QED
  BY <1>5 DEF Rank

LEMMA SameNameAt ==
  ASSUME NEW s \in Seq(Symbol), NEW t \in Seq(Symbol), IsPrefix(Names(s), Names(t)),
         NEW m \in Nat, Agree(s, t, m), NEW p \in Starts(s), p \in Starts(t), p <= m + 1
  PROVE  /\ End(t, p) = End(s, p) /\ End(s, p) \in p .. Len(s) /\ End(s, p) \in p .. Len(t)
         /\ p \in Nat /\ \A k \in p .. End(s, p) : s[k] = t[k]
         /\ End(s, p) = Len(t) \/ t[End(s, p) + 1] = "/"
<1>. DEFINE n == Rank(Starts(s), p)
<1>1. /\ Starts(s) \in SUBSET Nat /\ IsFiniteSet(Starts(s))
      /\ Starts(t) \in SUBSET Nat /\ IsFiniteSet(Starts(t))
  BY StartsAre
<1>2. n = Rank(Starts(t), p)
  BY SameRank
<1>3. n \in 1 .. Cardinality(Starts(s)) /\ InOrder(Starts(s))[n] = p
  BY <1>1, InOrderFacts
<1>4. n \in 1 .. Cardinality(Starts(t)) /\ InOrder(Starts(t))[n] = p
  BY <1>1, <1>2, InOrderFacts
<1>. HIDE DEF n
<1>5. /\ Names(s) \in Seq(Seq(Symbol)) /\ Len(Names(s)) = Cardinality(Starts(s))
      /\ Names(s)[n] = NameAt(s, p)
  BY <1>3, NamesAreListed DEF Names
<1>6. /\ Names(t) \in Seq(Seq(Symbol)) /\ Len(Names(t)) = Cardinality(Starts(t))
      /\ Names(t)[n] = NameAt(t, p)
  BY <1>4, NamesAreListed DEF Names
<1>7. NameAt(s, p) = NameAt(t, p)
  BY <1>3, <1>5, <1>6, PrefixFacts
<1>8. /\ p \in 1 .. Len(s) /\ End(s, p) \in p .. Len(s) /\ Len(NameAt(s, p)) = End(s, p) - p + 1
      /\ \A k \in 1 .. End(s, p) - p + 1 : NameAt(s, p)[k] = s[p + k - 1]
      /\ Len(s) \in Nat
  BY NameFacts
<1>9. /\ p \in 1 .. Len(t) /\ End(t, p) \in p .. Len(t) /\ Len(NameAt(t, p)) = End(t, p) - p + 1
      /\ \A k \in 1 .. End(t, p) - p + 1 : NameAt(t, p)[k] = t[p + k - 1]
      /\ Len(t) \in Nat
  BY NameFacts
<1>10. End(t, p) = End(s, p)
  BY <1>7, <1>8, <1>9
<1>11. ASSUME NEW k \in p .. End(s, p) PROVE s[k] = t[k]
  <2>1. (k - p) + 1 \in 1 .. End(s, p) - p + 1 /\ p + ((k - p) + 1) - 1 = k
    BY <1>8
  <2>. QED
    BY <1>7, <1>8, <1>9, <1>10, <2>1
<1>12. End(t, p) = Len(t) \/ t[End(t, p) + 1] = "/"
  BY EndSpans DEF Spans
<1>. QED
  BY <1>8, <1>9, <1>10, <1>11, <1>12

LEMMA SameNamesAgree ==
  ASSUME NEW s \in Seq(Symbol), NEW t \in Seq(Symbol), Clean(s), Clean(t),
         IsPrefix(Names(s), Names(t))
  PROVE  Agree(s, t, Len(s))
<1>. DEFINE Apart == {i \in 1 .. Len(s) : ~ (i \in DOMAIN t /\ s[i] = t[i])}
<1>1. /\ Len(s) \in Nat /\ Len(t) \in Nat /\ DOMAIN s = 1 .. Len(s) /\ DOMAIN t = 1 .. Len(t)
  OBVIOUS
<1>2. CASE Apart = {}
  BY <1>1, <1>2 DEF Agree
<1>3. ASSUME Apart # {} PROVE FALSE
  <2>1. PICK i \in Apart : \A j \in Apart : i <= j
    <3>1. Apart \in SUBSET Nat
      OBVIOUS
    <3>. HIDE DEF Apart
    <3>. QED
      BY <1>3, <3>1, Least
  <2>2. i \in 1 .. Len(s) /\ i \in Nat /\ i - 1 \in Nat /\ ~ (i \in 1 .. Len(t) /\ s[i] = t[i])
    BY <1>1
  <2>3. ASSUME NEW k \in 1 .. i - 1 PROVE k \in DOMAIN s /\ k \in DOMAIN t /\ s[k] = t[k]
    <3>1. k \in 1 .. Len(s) /\ ~ (i <= k)
      BY <1>1, <2>2
    <3>2. k \notin Apart
      BY <2>1, <3>1
    <3>. QED
      BY <1>1, <3>1, <3>2
  <2>4. Agree(s, t, i - 1)
    BY <2>3 DEF Agree
  <2>. HIDE DEF Apart
  <2>5. \A p \in 1 .. i - 1 : p \in Starts(s) <=> p \in Starts(t)
    BY <2>2, <2>4, SameStarts
  <2>6. ASSUME NEW p \in Starts(s), p \in Starts(t), p <= i
        PROVE  /\ End(t, p) = End(s, p) /\ End(s, p) \in p .. Len(s) /\ End(s, p) \in p .. Len(t)
               /\ p \in Nat /\ \A k \in p .. End(s, p) : s[k] = t[k]
               /\ End(s, p) = Len(t) \/ t[End(s, p) + 1] = "/"
    <3>1. p <= (i - 1) + 1
      BY <2>2, <2>6
    <3>. QED
      BY <2>2, <2>4, <2>6, <3>1, SameNameAt
  <2>7. /\ s[1] # "/" /\ s[Len(s)] # "/"
        /\ \A k \in 2 .. Len(s) : ~ (s[k - 1] = "/" /\ s[k] = "/")
        /\ t # <<>> /\ t[1] # "/" /\ t[Len(t)] # "/"
        /\ \A k \in 2 .. Len(t) : ~ (t[k - 1] = "/" /\ t[k] = "/")
    BY DEF Clean
  <2>8. CASE s[i] # "/"
    <3>1. PICK p \in Starts(s) : p <= i /\ i <= End(s, p)
      BY <2>2, <2>8, NameAround
    <3>2. p \in 1 .. Len(s) /\ (p = 1 \/ s[p - 1] = "/")
      BY <1>1 DEF Starts
    <3>3. CASE p < i
      <4>1. p \in 1 .. i - 1
        BY <1>1, <2>2, <3>2, <3>3
      <4>2. p \in Starts(t)
        BY <2>5, <4>1
      <4>3. End(s, p) \in p .. Len(t) /\ p \in Nat /\ i \in p .. End(s, p) /\ s[i] = t[i]
        BY <2>2, <2>6, <3>1, <4>2
      <4>. QED
        BY <1>1, <2>2, <4>3
    <3>4. CASE p = i
      <4>1. i \in 1 .. Len(t) /\ t[i] # "/" /\ (i = 1 \/ t[i - 1] = "/")
        <5>1. CASE i = 1
          <6>1. Len(t) # 0
            BY <2>7
          <6>. QED
            BY <1>1, <2>7, <5>1, <6>1
        <5>2. CASE i # 1
          <6>1. i - 1 \in 1 .. i - 1 /\ s[i - 1] = "/"
            BY <2>2, <3>2, <3>4, <5>2
          <6>2. i - 1 \in 1 .. Len(t) /\ t[i - 1] = "/"
            BY <1>1, <2>3, <6>1
          <6>3. i - 1 # Len(t)
            BY <2>7, <6>2
          <6>4. i \in 2 .. Len(t)
            BY <1>1, <2>2, <6>2, <6>3
          <6>. QED
            BY <2>7, <6>2, <6>4
        <5>. QED
          BY <5>1, <5>2
      <4>2. i \in Starts(t)
        BY <1>1, <4>1 DEF Starts
      <4>3. s[i] = t[i]
        <5>1. End(s, i) \in i .. Len(s) /\ \A k \in i .. End(s, i) : s[k] = t[k]
          BY <2>2, <2>6, <3>4, <4>2
        <5>. QED
          BY <1>1, <2>2, <5>1
      <4>. QED
        BY <2>2, <4>1, <4>3
    <3>. QED
      BY <1>1, <2>2, <3>1, <3>2, <3>3, <3>4
  <2>9. CASE s[i] = "/"
    <3>1. i \in 2 .. Len(s) /\ i + 1 \in 2 .. Len(s)
      <4>1. i # 1 /\ i # Len(s)
        <5>. HIDE DEF Clean
        <5>. QED
          BY <2>7, <2>9, Zenon
      <4>2. Len(s) \in Nat /\ i \in Nat /\ 1 <= i /\ i <= Len(s)
        BY <1>1, <2>2
      <4>3. 2 <= i /\ i + 1 <= Len(s)
        BY <4>1, <4>2
      <4>. QED
        BY <4>2, <4>3
    <3>2. i - 1 \in 1 .. Len(s) /\ s[i - 1] # "/" /\ s[i + 1] # "/"
      <4>1. (i + 1) - 1 = i /\ i - 1 \in 1 .. Len(s)
        BY <1>1, <2>2, <3>1
      <4>2. ~ (s[i - 1] = "/" /\ s[i] = "/")
        BY <2>7, <3>1
      <4>3. ~ (s[(i + 1) - 1] = "/" /\ s[i + 1] = "/")
        BY <2>7, <3>1
      <4>4. ~ (s[i] = "/" /\ s[i + 1] = "/")
        BY <4>1, <4>3, Zenon
      <4>. QED
        BY <2>9, <4>1, <4>2, <4>4, Zenon
    <3>3. PICK p \in Starts(s) : p <= i - 1 /\ i - 1 <= End(s, p)
      BY <3>2, NameAround
    <3>4. p \in 1 .. i - 1
      BY <1>1, <2>2, <3>3 DEF Starts
    <3>5. End(s, p) = i - 1
      <4>1. End(s, p) \in p .. Len(s) /\ \A k \in p .. End(s, p) : s[k] # "/"
        BY EndSpans DEF Spans
      <4>2. ~ (i <= End(s, p))
        BY <1>1, <2>2, <2>9, <3>4, <4>1
      <4>. QED
        BY <1>1, <2>2, <3>3, <4>1, <4>2
    <3>6. i - 1 \in p .. Len(t) /\ (i - 1 = Len(t) \/ t[(i - 1) + 1] = "/")
      <4>1. p \in Starts(t) /\ p <= i
        BY <2>2, <2>5, <3>4
      <4>. QED
        BY <2>6, <3>5, <4>1
    <3>7. i - 1 = Len(t)
      <4>1. (i - 1) + 1 = i
        BY <2>2
      <4>. QED
        BY <1>1, <2>2, <2>9, <3>6, <4>1
    <3>8. Starts(t) \in SUBSET Starts(s) /\ i + 1 \in Starts(s) /\ i + 1 \notin Starts(t)
      <4>1. Starts(t) \subseteq 1 .. i - 1
        BY <1>1, <3>7 DEF Starts
      <4>2. i + 1 \in Starts(s)
        <5>1. (i + 1) - 1 = i /\ i + 1 \in DOMAIN s
          BY <1>1, <2>2, <3>1
        <5>2. s[(i + 1) - 1] = "/"
          BY <2>9, <5>1, Zenon
        <5>. QED
          BY <3>2, <5>1, <5>2 DEF Starts
      <4>. QED
        BY <2>2, <2>5, <4>1, <4>2
    <3>9. /\ IsFiniteSet(Starts(s)) /\ IsFiniteSet(Starts(t))
      BY StartsAre
    <3>10. Cardinality(Starts(t)) # Cardinality(Starts(s)) /\ Cardinality(Starts(t)) <= Cardinality(Starts(s))
      BY <3>8, <3>9, FS_Subset
    <3>11. Cardinality(Starts(s)) <= Cardinality(Starts(t))
      <4>1. /\ Names(s) \in Seq(Seq(Symbol)) /\ Len(Names(s)) = Cardinality(Starts(s))
            /\ Names(t) \in Seq(Seq(Symbol)) /\ Len(Names(t)) = Cardinality(Starts(t))
        BY NamesAreListed DEF Names
      <4>. QED
        BY <4>1, PrefixFacts
    <3>12. Cardinality(Starts(s)) \in Nat /\ Cardinality(Starts(t)) \in Nat
      BY <3>9, FS_CardinalityType
    <3>. QED
      BY <3>10, <3>11, <3>12
  <2>. QED
    BY <2>8, <2>9
<1>. QED
  BY <1>2, <1>3

LEMMA SameNamesUnder ==
  ASSUME NEW s \in Seq(Symbol), NEW t \in Seq(Symbol), Clean(s), Clean(t),
         IsPrefix(Names(s), Names(t))
  PROVE  t = s \/ IsPrefix(Append(s, "/"), t)
<1>1. Agree(s, t, Len(s))
  BY SameNamesAgree
<1>2. /\ Len(s) \in Nat /\ Len(t) \in Nat /\ DOMAIN s = 1 .. Len(s) /\ DOMAIN t = 1 .. Len(t)
  OBVIOUS
<1>3. \A k \in 1 .. Len(s) : k \in 1 .. Len(t) /\ s[k] = t[k]
  BY <1>1, <1>2 DEF Agree
<1>4. Len(s) \in 1 .. Len(s) /\ s[Len(s)] # "/"
  <2>1. Len(s) # 0
    BY DEF Clean
  <2>. QED
    BY <1>2, <2>1 DEF Clean
<1>5. PICK p \in Starts(s) : p <= Len(s) /\ Len(s) <= End(s, p)
  BY <1>4, NameAround
<1>6. p \in 1 .. Len(s) /\ p \in Starts(t)
  <2>1. p \in 1 .. Len(s)
    BY <1>2 DEF Starts
  <2>. QED
    BY <1>1, <1>2, <2>1, SameStarts
<1>7. /\ End(s, p) \in p .. Len(s) /\ (End(s, p) = Len(t) \/ t[End(s, p) + 1] = "/")
  <2>1. p <= Len(s) + 1
    BY <1>2, <1>6
  <2>. QED
    BY <1>1, <1>2, <1>6, <2>1, SameNameAt
<1>8. Len(s) = Len(t) \/ t[Len(s) + 1] = "/"
  <2>1. End(s, p) = Len(s)
    BY <1>2, <1>5, <1>6, <1>7
  <2>. QED
    BY <1>7, <2>1, Zenon
<1>9. CASE Len(s) = Len(t)
  BY <1>3, <1>9, SameSequence
<1>10. CASE Len(s) # Len(t) /\ t[Len(s) + 1] = "/"
  <2>. DEFINE u == Append(s, "/")
  <2>1. /\ u \in Seq(Symbol) /\ Len(u) = Len(s) + 1 /\ u[Len(s) + 1] = "/"
        /\ \A k \in 1 .. Len(s) : u[k] = s[k]
    BY PathsAssumption
  <2>. HIDE DEF u
  <2>2. Len(u) <= Len(t)
    <3>1. Len(s) \in 1 .. Len(t)
      BY <1>3, <1>4
    <3>2. Len(s) \in Nat /\ Len(t) \in Nat
      OBVIOUS
    <3>4. Len(s) <= Len(t)
      BY <3>1, <3>2
    <3>5. Len(s) # Len(t)
      BY <1>10
    <3>3. Len(s) + 1 <= Len(t)
      BY <3>2, <3>4, <3>5
    <3>. QED
      BY <2>1, <3>3
  <2>3. ASSUME NEW k \in 1 .. Len(u) PROVE u[k] = t[k]
    <3>1. k \in 1 .. Len(s) \/ k = Len(s) + 1
      BY <1>2, <2>1
    <3>. QED
      BY <1>3, <1>10, <2>1, <3>1
  <2>4. IsPrefix(u, t)
    BY <2>1, <2>2, <2>3, PrefixFacts
  <2>. QED
    BY <2>4 DEF u
<1>. QED
  BY <1>8, <1>9, <1>10

LEMMA DropFacts ==
  ASSUME NEW X, NEW u \in Seq(X), NEW v \in Seq(X)
  PROVE  /\ Drop(u \o v, Len(u)) = v /\ IsPrefix(u, u \o v)
         /\ Drop(u, Len(u)) = <<>> /\ IsPrefix(u, u) /\ u \o <<>> = u
<1>. DEFINE w == u \o v
<1>1. /\ w \in Seq(X) /\ Len(w) = Len(u) + Len(v) /\ Len(u) \in Nat /\ Len(v) \in Nat
      /\ \A n \in 1 .. Len(u) : w[n] = u[n]
      /\ \A n \in 1 .. Len(v) : w[n + Len(u)] = v[n]
  <2>1. w \in Seq(X) /\ Len(w) = Len(u) + Len(v) /\ Len(u) \in Nat /\ Len(v) \in Nat
    OBVIOUS
  <2>2. \A n \in 1 .. Len(u) : w[n] = u[n]
    OBVIOUS
  <2>3. ASSUME NEW n \in 1 .. Len(v) PROVE w[n + Len(u)] = v[n]
    <3>1. n + Len(u) \in 1 .. Len(u) + Len(v) /\ ~ (n + Len(u) <= Len(u)) /\ (n + Len(u)) - Len(u) = n
      BY <2>1
    <3>. QED
      BY <3>1
  <2>. QED
    BY <2>1, <2>2, <2>3
<1>. HIDE DEF w
<1>2. IsPrefix(u, w)
  BY <1>1, PrefixFacts
<1>3. Drop(w, Len(u)) = v
  <2>1. /\ Drop(w, Len(u)) \in Seq(X) /\ Len(Drop(w, Len(u))) = Len(v)
        /\ \A n \in 1 .. Len(v) : Drop(w, Len(u))[n] = w[n + Len(u)]
    BY <1>1 DEF Drop
  <2>. QED
    BY <1>1, <2>1, SameSequence
<1>4. Drop(u, Len(u)) = <<>>
  BY DEF Drop
<1>5. IsPrefix(u, u)
  BY PrefixFacts
<1>6. u \o <<>> = u
  OBVIOUS
<1>. QED
  BY <1>2, <1>3, <1>4, <1>5, <1>6 DEF w

LEMMA SplitAtSlash ==
  ASSUME NEW s \in Seq(Symbol), NEW path \in Seq(Symbol), IsPrefix(Append(s, "/"), path)
  PROVE  /\ Drop(path, Len(s) + 1) \in Seq(Symbol)
         /\ path = Under(s, Drop(path, Len(s) + 1))
<1>. DEFINE u == Append(s, "/")
<1>. DEFINE r == Drop(path, Len(s) + 1)
<1>1. /\ u \in Seq(Symbol) /\ Len(u) = Len(s) + 1 /\ u[Len(s) + 1] = "/"
      /\ \A k \in 1 .. Len(s) : u[k] = s[k]
      /\ Len(s) \in Nat /\ Len(path) \in Nat
  BY PathsAssumption
<1>. HIDE DEF u
<1>2. IsPrefix(u, path)
  BY DEF u
<1>3. Len(u) <= Len(path) /\ \A n \in 1 .. Len(u) : u[n] = path[n]
  BY <1>1, <1>2, PrefixFacts
<1>4. Len(s) + 1 <= Len(path)
  BY <1>1, <1>3
<1>5. /\ r \in Seq(Symbol) /\ Len(r) = Len(path) - (Len(s) + 1)
      /\ \A n \in 1 .. Len(r) : r[n] = path[n + (Len(s) + 1)]
  BY <1>1, <1>4 DEF Drop
<1>. HIDE DEF r
<1>6. /\ After(s) = Len(s) + 1
      /\ Under(s, r) \in Seq(Symbol) /\ Len(Under(s, r)) = After(s) + Len(r)
      /\ \A i \in 1 .. Len(s) : Under(s, r)[i] = s[i]
      /\ Under(s, r)[After(s)] = "/"
      /\ \A i \in 1 .. Len(r) : Under(s, r)[i + After(s)] = r[i]
  BY <1>5, BelowFacts
<1>7. Len(path) = Len(Under(s, r))
  BY <1>1, <1>5, <1>6
<1>8. ASSUME NEW n \in 1 .. Len(path) PROVE path[n] = Under(s, r)[n]
  <2>1. CASE n \in 1 .. Len(s)
    <3>1. n \in 1 .. Len(u)
      BY <1>1, <2>1
    <3>. QED
      BY <1>1, <1>3, <1>6, <2>1, <3>1
  <2>2. CASE n = Len(s) + 1
    <3>1. n \in 1 .. Len(u)
      BY <1>1, <2>2
    <3>. QED
      BY <1>1, <1>3, <1>6, <2>2, <3>1
  <2>3. CASE n > Len(s) + 1
    <3>. DEFINE i == n - (Len(s) + 1)
    <3>1. i \in 1 .. Len(r) /\ i + (Len(s) + 1) = n
      BY <1>1, <1>5, <2>3
    <3>. HIDE DEF i
    <3>2. r[i] = path[n] /\ Under(s, r)[n] = r[i]
      BY <1>5, <1>6, <3>1
    <3>. QED
      BY <3>2
  <2>. QED
    BY <1>1, <2>1, <2>2, <2>3
<1>9. path = Under(s, r)
  BY <1>6, <1>7, <1>8, SameSequence
<1>. QED
  BY <1>5, <1>9 DEF r

LEMMA ProperBelow ==
  ASSUME NEW a \in Seq(Symbol), NEW b \in Seq(Symbol),
         ProperStarts(Under(a, b)) = Starts(Under(a, b))
  PROVE  ProperNames(b) = Names(b)
<1>1. ASSUME NEW i \in Starts(b) PROVE i \in ProperStarts(b)
  <2>1. i + After(a) \in Starts(Under(a, b))
    BY StartsBelow DEF Behind
  <2>2. NameAt(Under(a, b), i + After(a)) # <<".">>
    BY <2>1 DEF ProperStarts
  <2>. QED
    BY <2>2, NamesBelow DEF ProperStarts
<1>2. ProperStarts(b) = Starts(b)
  BY <1>1 DEF ProperStarts
<1>. QED
  BY <1>2 DEF ProperNames, Names

LEMMA MoveLands ==
  ASSUME NEW t, t.from \in Seq(Symbol), t.to \in Seq(Symbol),
         NEW path \in Seq(Symbol), ProperStarts(path) = Starts(path),
         Move(t, path) # Unmatched
  PROVE  /\ Move(t, path).status = "matched"
         /\ IsPrefix(Names(t.from), Names(path))
         /\ ProperNames(Move(t, path).path)
              = ProperNames(t.to) \o Drop(Names(path), Len(Names(t.from)))
<1>. DEFINE from == TrimSlash(t.from)
<1>. DEFINE rest == Drop(path, Len(from) + 1)
<1>1. from \in Seq(Symbol) /\ Names(from) = Names(t.from)
  BY TrimmedNames
<1>2. /\ Names(t.from) \in Seq(Seq(Symbol)) /\ ProperNames(t.to) \in Seq(Seq(Symbol))
      /\ Names(path) \in Seq(Seq(Symbol))
  <2>1. ProperStarts(t.to) \in SUBSET Starts(t.to)
    BY DEF ProperStarts
  <2>. QED
    BY <2>1, NamesAreListed DEF Names, ProperNames
<1>3. CASE path = from
  <2>0. ~ IsPrefix(Append(from, "/"), path)
    <3>1. Len(Append(from, "/")) = Len(from) + 1 /\ Len(from) \in Nat
      BY <1>1
    <3>. QED
      BY <1>3, <3>1 DEF IsPrefix
  <2>1. Move(t, path) = To(t.to)
    BY <1>3, <2>0 DEF Move
  <2>2. Names(path) = Names(t.from)
    BY <1>1, <1>3, Zenon
  <2>3. /\ IsPrefix(Names(path), Names(path)) /\ Drop(Names(path), Len(Names(path))) = <<>>
        /\ ProperNames(t.to) \o <<>> = ProperNames(t.to)
    BY <1>2, DropFacts
  <2>. QED
    BY <2>1, <2>2, <2>3 DEF To
<1>4. CASE path # from /\ IsPrefix(Append(from, "/"), path)
  <2>1. Move(t, path) = To(Join(t.to, rest))
    BY <1>4 DEF Move
  <2>. HIDE DEF from
  <2>2. rest \in Seq(Symbol) /\ path = Under(from, rest)
    BY <1>1, <1>4, SplitAtSlash
  <2>. HIDE DEF rest
  <2>3. Names(path) = Names(from) \o Names(rest)
    BY <1>1, <2>2, AllNamesBelow DEF Under
  <2>4. ProperNames(rest) = Names(rest)
    <3>1. ProperStarts(Under(from, rest)) = Starts(Under(from, rest))
      BY <2>2
    <3>. QED
      BY <1>1, <2>2, <3>1, ProperBelow
  <2>5. ProperNames(Join(t.to, rest)) = ProperNames(t.to) \o Names(rest)
    <3>. DEFINE joined == t.to \o <<"/">> \o rest
    <3>1. joined \in Seq(Symbol)
      BY <2>2, BelowFacts DEF Under
    <3>2. ProperNames(joined) = ProperNames(t.to) \o ProperNames(rest)
      BY <2>2, AllNamesBelow
    <3>. HIDE DEF joined
    <3>3. ProperNames(Tidied(joined)) = ProperNames(joined)
      BY <3>1, TidiedNames
    <3>. QED
      BY <2>4, <3>2, <3>3 DEF Join, joined
  <2>6. Names(rest) \in Seq(Seq(Symbol))
    BY <2>2, NamesAreListed DEF Names
  <2>7. /\ IsPrefix(Names(t.from), Names(path))
        /\ Drop(Names(path), Len(Names(t.from))) = Names(rest)
    BY <1>1, <1>2, <2>3, <2>6, DropFacts
  <2>. QED
    BY <2>1, <2>5, <2>7 DEF To
<1>5. CASE path # from /\ ~ IsPrefix(Append(from, "/"), path)
  <2>1. Move(t, path) = Unmatched
    BY <1>5 DEF Move
  <2>. QED
    BY <2>1
<1>. QED
  BY <1>3, <1>4, <1>5

LEMMA MoveMisses ==
  ASSUME NEW t, t.from \in Seq(Symbol), Clean(TrimSlash(t.from)),
         NEW path \in Seq(Symbol), Clean(path), Move(t, path) = Unmatched
  PROVE  ~ IsPrefix(Names(t.from), Names(path))
<1>. DEFINE from == TrimSlash(t.from)
<1>1. from \in Seq(Symbol) /\ Names(from) = Names(t.from)
  BY TrimmedNames
<1>2. path # from
  BY DEF Move, To, Unmatched
<1>3. ~ IsPrefix(Append(from, "/"), path)
  BY <1>2 DEF Move, To, Unmatched
<1>. HIDE DEF from
<1>4. Clean(from)
  BY DEF from
<1>. QED
  BY <1>1, <1>2, <1>3, <1>4, SameNamesUnder

LEMMA TransformOutcomes ==
  ASSUME NEW path, NEW template, NEW captured
  PROVE  LET out == Transform(path, template, captured) IN
         out = Failed \/ out.status = "matched"
<1>. QED
  BY DEF Transform, Filled, Failed, To

LEMMA ApplyOutcomes ==
  ASSUME NEW t \in Rule, NEW path \in Path
  PROVE  /\ \/ Apply(t, path) = Unmatched
            \/ Apply(t, path) = Failed
            \/ Apply(t, path).status = "matched"
         /\ Apply(t, path).status = "matched" => Puts(t, path, ProperNames(Apply(t, path).path))
<1>1. CASE t.kind = "move"
  <2>1. Apply(t, path) = Move(t, path)
    BY <1>1 DEF Apply
  <2>2. /\ t.from \in Seq(Symbol) /\ t.to \in Seq(Symbol) /\ path \in Seq(Symbol)
        /\ ProperStarts(path) = Starts(path)
    BY <1>1, PathsAssumption
  <2>3. CASE Move(t, path) = Unmatched
    BY <2>1, <2>3 DEF Unmatched
  <2>4. CASE Move(t, path) # Unmatched
    <3>1. /\ Move(t, path).status = "matched"
          /\ IsPrefix(Names(t.from), Names(path))
          /\ ProperNames(Move(t, path).path)
               = ProperNames(t.to) \o Drop(Names(path), Len(Names(t.from)))
      BY <2>2, <2>4, MoveLands
    <3>2. Puts(t, path, ProperNames(Move(t, path).path))
      BY <1>1, <3>1 DEF Puts
    <3>. QED
      BY <2>1, <3>1, <3>2
  <2>. QED
    BY <2>3, <2>4
<1>2. CASE t.kind = "copy"
  <2>1. Apply(t, path) = IF path = t.from THEN To(t.to) ELSE Unmatched
    BY <1>2 DEF Apply, Copy
  <2>2. CASE path = t.from
    <3>1. Apply(t, path) = To(t.to) /\ Apply(t, path).path = t.to
      BY <2>1, <2>2 DEF To
    <3>2. Puts(t, path, ProperNames(t.to))
      BY <1>2, <2>2 DEF Puts
    <3>. QED
      BY <3>1, <3>2 DEF To
  <2>3. CASE path # t.from
    BY <2>1, <2>3 DEF Unmatched
  <2>. QED
    BY <2>2, <2>3
<1>3. CASE t.kind = "glob"
  <2>1. Apply(t, path) = Glob(t, path)
    BY <1>3 DEF Apply
  <2>2. \/ Glob(t, path) = Unmatched \/ Glob(t, path) = Failed
        \/ Glob(t, path).status = "matched"
    BY TransformOutcomes DEF Glob
  <2>3. Apply(t, path).status = "matched" => Puts(t, path, ProperNames(Apply(t, path).path))
    BY <1>3 DEF Puts
  <2>. QED
    BY <2>1, <2>2, <2>3
<1>4. CASE t.kind = "regex"
  <2>1. Apply(t, path) = Regex(t, path)
    BY <1>4 DEF Apply
  <2>2. \/ Regex(t, path) = Unmatched \/ Regex(t, path) = Failed
        \/ Regex(t, path).status = "matched"
    BY TransformOutcomes DEF Regex
  <2>3. Apply(t, path).status = "matched" => Puts(t, path, ProperNames(Apply(t, path).path))
    BY <1>4 DEF Puts
  <2>. QED
    BY <2>1, <2>2, <2>3
<1>. QED
  BY <1>1, <1>2, <1>3, <1>4, PathsAssumption

LEMMA MatchFileFacts ==
  ASSUME NEW rules \in Seq(Rule), NEW exclude, NEW path
  PROVE  \/ Excluded(path, exclude) /\ MatchFile(rules, exclude, path) = Unmatched
         \/ /\ \A j \in DOMAIN rules : Apply(rules[j], path) = Unmatched
            /\ MatchFile(rules, exclude, path) = Unmatched
         \/ /\ ~ Excluded(path, exclude)
            /\ \E k \in DOMAIN rules :
                 /\ MatchFile(rules, exclude, path) = Apply(rules[k], path)
                 /\ Apply(rules[k], path) # Unmatched
                 /\ \A j \in 1 .. k - 1 : Apply(rules[j], path) = Unmatched
<1>. DEFINE about == {i \in 1 .. Len(rules) : Apply(rules[i], path) # Unmatched}
<1>1. /\ about \in SUBSET Nat /\ about \in SUBSET (1 .. Len(rules))
      /\ DOMAIN rules = 1 .. Len(rules) /\ Len(rules) \in Nat
  OBVIOUS
<1>2. MatchFile(rules, exclude, path)
        = LET k == IF about # {} THEN CHOOSE x \in about : \A y \in about : x <= y ELSE 0
          IN  IF Excluded(path, exclude) \/ k = 0 THEN Unmatched ELSE Apply(rules[k], path)
  BY DEF MatchFile, SelectInSeq, Min
<1>3. CASE about = {}
  <2>1. MatchFile(rules, exclude, path) = Unmatched
    BY <1>2, <1>3
  <2>. QED
    BY <1>1, <1>3, <2>1
<1>4. CASE about # {}
  <2>. DEFINE k == CHOOSE x \in about : \A y \in about : x <= y
  <2>1. k \in about /\ \A y \in about : k <= y
    <3>1. \E x \in about : \A y \in about : x <= y
      BY <1>1, <1>4, Least
    <3>. QED
      BY <3>1
  <2>2. MatchFile(rules, exclude, path)
          = IF Excluded(path, exclude) \/ k = 0 THEN Unmatched ELSE Apply(rules[k], path)
    BY <1>2, <1>4
  <2>. HIDE DEF k
  <2>3. k \in DOMAIN rules /\ k \in Nat /\ k # 0 /\ Apply(rules[k], path) # Unmatched
    BY <1>1, <2>1
  <2>4. ASSUME NEW j \in 1 .. k - 1 PROVE Apply(rules[j], path) = Unmatched
    <3>1. j \in 1 .. Len(rules) /\ ~ (k <= j)
      BY <1>1, <2>3
    <3>. QED
      BY <2>1, <3>1
  <2>. HIDE DEF about
  <2>5. CASE Excluded(path, exclude)
    BY <2>2, <2>5
  <2>6. CASE ~ Excluded(path, exclude)
    <3>1. MatchFile(rules, exclude, path) = Apply(rules[k], path)
      BY <2>2, <2>3, <2>6
    <3>. QED
      BY <2>3, <2>4, <2>6, <3>1
  <2>. QED
    BY <2>5, <2>6
<1>. QED
  BY <1>3, <1>4

LEMMA RulesLand ==
  ASSUME NEW rules \in Seq(Rule), NEW exclude, NEW path \in Path
  PROVE  LET out == MatchFile(rules, exclude, path)
             decides(k, names) ==
               /\ Puts(rules[k], path, names)
               /\ \A j \in 1 .. k - 1 : Apply(rules[j], path) = Unmatched
         IN  IF out.status = "matched"
             THEN /\ ~ Excluded(path, exclude)
                  /\ \E k \in DOMAIN rules : decides(k, ProperNames(out.path))
             ELSE \/ Excluded(path, exclude)
                  \/ \E k \in DOMAIN rules : Apply(rules[k], path) = Failed
                  \/ \A k \in DOMAIN rules :
                       /\ rules[k].kind = "move" /\ Clean(TrimSlash(rules[k].from)) =>
                            ~ IsPrefix(Names(rules[k].from), Names(path))
                       /\ rules[k].kind = "copy" => path # rules[k].from
<1>. DEFINE out == MatchFile(rules, exclude, path)
<1>0. Unmatched.status # "matched" /\ Failed.status # "matched"
  BY DEF Unmatched, Failed
<1>1. CASE Excluded(path, exclude)
  <2>1. out = Unmatched
    BY <1>1 DEF MatchFile
  <2>. QED
    BY <1>0, <1>1, <2>1
<1>2. CASE out = Unmatched /\ \A j \in DOMAIN rules : Apply(rules[j], path) = Unmatched
  <2>1. ASSUME NEW k \in DOMAIN rules,
               rules[k].kind = "move", Clean(TrimSlash(rules[k].from))
        PROVE  ~ IsPrefix(Names(rules[k].from), Names(path))
    <3>1. rules[k] \in Rule /\ Apply(rules[k], path) = Unmatched
      BY <1>2
    <3>2. rules[k].from \in Seq(Symbol) /\ path \in Seq(Symbol) /\ Clean(path)
      BY <2>1, <3>1, PathsAssumption
    <3>3. Move(rules[k], path) = Unmatched
      BY <2>1, <3>1 DEF Apply
    <3>. QED
      BY <2>1, <3>2, <3>3, MoveMisses
  <2>2. ASSUME NEW k \in DOMAIN rules, rules[k].kind = "copy" PROVE path # rules[k].from
    <3>1. Apply(rules[k], path) = Copy(rules[k], path) /\ Apply(rules[k], path) = Unmatched
      BY <1>2, <2>2 DEF Apply
    <3>. QED
      BY <3>1 DEF Copy, To, Unmatched
  <2>. QED
    BY <1>0, <1>2, <2>1, <2>2
<1>3. ASSUME NEW k \in DOMAIN rules, out = Apply(rules[k], path), ~ Excluded(path, exclude),
             Apply(rules[k], path) # Unmatched,
             \A j \in 1 .. k - 1 : Apply(rules[j], path) = Unmatched
      PROVE  IF out.status = "matched"
             THEN /\ ~ Excluded(path, exclude)
                  /\ \E m \in DOMAIN rules :
                       /\ Puts(rules[m], path, ProperNames(out.path))
                       /\ \A j \in 1 .. m - 1 : Apply(rules[j], path) = Unmatched
             ELSE \E m \in DOMAIN rules : Apply(rules[m], path) = Failed
  <2>1. rules[k] \in Rule
    OBVIOUS
  <2>. HIDE DEF out
  <2>2. \/ Apply(rules[k], path) = Failed
        \/ Apply(rules[k], path).status = "matched"
    BY <1>3, <2>1, ApplyOutcomes
  <2>3. CASE out.status = "matched"
    <3>1. Puts(rules[k], path, ProperNames(out.path))
      BY <1>3, <2>1, <2>3, ApplyOutcomes
    <3>. QED
      BY <1>3, <2>3, <3>1
  <2>4. CASE out.status # "matched"
    BY <1>3, <2>2, <2>4
  <2>. QED
    BY <2>3, <2>4
<1>4. \/ Excluded(path, exclude)
      \/ out = Unmatched /\ \A j \in DOMAIN rules : Apply(rules[j], path) = Unmatched
      \/ /\ ~ Excluded(path, exclude)
         /\ \E k \in DOMAIN rules :
              /\ out = Apply(rules[k], path) /\ Apply(rules[k], path) # Unmatched
              /\ \A j \in 1 .. k - 1 : Apply(rules[j], path) = Unmatched
  BY MatchFileFacts
<1>5. CASE /\ ~ Excluded(path, exclude)
           /\ \E k \in DOMAIN rules :
                /\ out = Apply(rules[k], path) /\ Apply(rules[k], path) # Unmatched
                /\ \A j \in 1 .. k - 1 : Apply(rules[j], path) = Unmatched
  <2>. HIDE DEF out
  <2>1. PICK k \in DOMAIN rules :
          /\ out = Apply(rules[k], path) /\ Apply(rules[k], path) # Unmatched
          /\ \A j \in 1 .. k - 1 : Apply(rules[j], path) = Unmatched
    BY <1>5
  <2>2. IF out.status = "matched"
        THEN /\ ~ Excluded(path, exclude)
             /\ \E m \in DOMAIN rules :
                  /\ Puts(rules[m], path, ProperNames(out.path))
                  /\ \A j \in 1 .. m - 1 : Apply(rules[j], path) = Unmatched
        ELSE \E m \in DOMAIN rules : Apply(rules[m], path) = Failed
    BY <1>3, <1>5, <2>1
  <2>3. CASE out.status = "matched"
    BY <2>2, <2>3 DEF out
  <2>4. CASE out.status # "matched"
    BY <2>2, <2>4 DEF out
  <2>. QED
    BY <2>3, <2>4
<1>. QED
  BY <1>1, <1>2, <1>4, <1>5

-----------------------------------------------------------------------------
(* WorkflowRules.                                                          *)

(* The configuration as merged: what a workflow looks like in the end, and *)
(* which structs it points to.                                             *)

DeprecationAt(a) == WrittenAt(a).deprecation

Typed(s) == IF s = None THEN None ELSE [s EXCEPT !.type = Or(@, "pull_request")]
WithFile(d) == IF d = None THEN None ELSE [d EXCEPT !.file = Or(@, "deprecated_examples.json")]

(* Where a workflow of reference r finds the defaults it inherits.         *)
StrategySource(r) == Nearest(r, "strategy", None)
DeprecationSource(r) == Nearest(r, "deprecation", None)

StrategyFrom(a) == IF StrategyAt(a) = None THEN None ELSE a
DeprecationFrom(a) == IF DeprecationAt(a) = None THEN None ELSE a

StrategyOf(r, k) ==
  IF StrategyAt(<<r, k>>) # None THEN <<r, k>> ELSE StrategyFrom(StrategySource(r))
DeprecationOf(r, k) ==
  IF DeprecationAt(<<r, k>>) # None THEN <<r, k>> ELSE DeprecationFrom(DeprecationSource(r))

Unfilled(r, k) == InContext(r, LoadedWorkflow(r, k))

(* The defaults of a reference, those of the main configuration included.  *)
DefaultsOf(r) ==
  [strategy |-> StrategyFrom(StrategySource(r)),
   deprecation |-> DeprecationFrom(DeprecationSource(r)),
   exclude |-> WrittenAt(Nearest(r, "exclude", {})).exclude]

WithSettings(w, s, d, e) ==
  [w EXCEPT !.branch = Or(@, "main"), !.strategy = s, !.deprecation = d, !.exclude = e]
Final(r, k) ==
  WithSettings(Unfilled(r, k), StrategyOf(r, k), DeprecationOf(r, k), ExpectedExclude(<<r, k>>))

Place == Nat \X Nat
Flow == [origin : Place, sound : BOOLEAN, repo : Text, branch : Text,
         strategy : Place \cup {None}, deprecation : Place \cup {None},
         exclude : Excludes, transformations : Seq(Rule)]

Flows(r) == References[r].workflows

-----------------------------------------------------------------------------
LEMMA RulesConstants ==
  /\ "" \in Text /\ "main" \in Text /\ "pull_request" \in Text
  /\ "deprecated_examples.json" \in Text
  /\ None \notin StrategyStruct /\ None \notin DeprecationStruct
  /\ \A r, k \in Nat : <<r, k>> # None
<1>1. None \notin Nat \X Nat
  BY WorkflowRulesAssumption
<1>2. \A r, k \in Nat : <<r, k>> # None
  BY <1>1
<1>3. /\ "" \in Text /\ "main" \in Text /\ "pull_request" \in Text
      /\ "deprecated_examples.json" \in Text
  BY WorkflowRulesAssumption
<1>4. None \notin StrategyStruct /\ None \notin DeprecationStruct
  BY WorkflowRulesAssumption
<1>. QED
  BY <1>2, <1>3, <1>4

(* The configuration is what it may be written as.                         *)
LEMMA Shape ==
  ASSUME main \in Written
  PROVE  /\ References \in Seq(WrittenReference) /\ Len(References) \in Nat
         /\ DOMAIN References = 1 .. Len(References)
         /\ \A r \in DOMAIN References :
              /\ r \in Nat /\ r # 0
              /\ References[r] \in WrittenReference
              /\ Flows(r) \in Seq(WrittenWorkflow) /\ Len(Flows(r)) \in Nat
              /\ DOMAIN Flows(r) = 1 .. Len(Flows(r))
              /\ \A k \in DOMAIN Flows(r) : k \in Nat /\ k # 0 /\ Flows(r)[k] \in WrittenWorkflow
         /\ main.defaults \in WrittenDefaults
<1>1. References \in Seq(WrittenReference) /\ main.defaults \in WrittenDefaults
  BY WorkflowRulesAssumption DEF References
<1>2. /\ Len(References) \in Nat /\ DOMAIN References = 1 .. Len(References)
      /\ \A r \in DOMAIN References : References[r] \in WrittenReference
  BY <1>1
<1>3. \A r \in DOMAIN References : r \in Nat /\ r # 0
  BY <1>2
<1>4. ASSUME NEW r \in DOMAIN References
      PROVE  /\ Flows(r) \in Seq(WrittenWorkflow) /\ Len(Flows(r)) \in Nat
             /\ DOMAIN Flows(r) = 1 .. Len(Flows(r))
             /\ \A k \in DOMAIN Flows(r) : k \in Nat /\ k # 0 /\ Flows(r)[k] \in WrittenWorkflow
  <2>1. Flows(r) \in Seq(WrittenWorkflow)
    BY <1>2, <1>4 DEF Flows, WrittenReference
  <2>. QED
    BY <2>1
<1>. QED
  BY <1>1, <1>2, <1>3, <1>4

(* Where structs are written.                                              *)
LEMMA Addresses ==
  ASSUME main \in Written
  PROVE  /\ <<0, 0>> \in Address
         /\ \A r \in DOMAIN References :
              /\ <<r, 0>> \in Address
              /\ \A k \in DOMAIN Flows(r) : <<r, k>> \in Address
         /\ \A a \in Address :
              /\ a \in Place
              /\ a[2] # 0 => /\ a = <<a[1], a[2]>> /\ a[1] \in DOMAIN References
                             /\ a[2] \in DOMAIN Flows(a[1])
<1>1. <<0, 0>> \in Address
  BY DEF Address
<1>2. ASSUME NEW r \in DOMAIN References, NEW k \in 0 .. Len(Flows(r))
      PROVE  <<r, k>> \in Address
  BY <1>2 DEF Address, Flows
<1>3. \A r \in DOMAIN References : Len(Flows(r)) \in Nat /\ DOMAIN Flows(r) = 1 .. Len(Flows(r)) /\ r \in Nat
  BY Shape
<1>4. ASSUME NEW a \in Address
      PROVE  /\ a \in Place
             /\ a[2] # 0 => /\ a = <<a[1], a[2]>> /\ a[1] \in DOMAIN References
                            /\ a[2] \in DOMAIN Flows(a[1])
  <2>1. CASE a = <<0, 0>>
    BY <2>1 DEF Place
  <2>2. CASE a # <<0, 0>>
    <3>1. PICK r \in DOMAIN References : a \in {r} \X (0 .. Len(Flows(r)))
      BY <1>4, <2>2 DEF Address, Flows
    <3>2. a[1] = r /\ a = <<a[1], a[2]>> /\ a[2] \in 0 .. Len(Flows(r))
      BY <3>1
    <3>. QED
      BY <1>3, <3>1, <3>2 DEF Place
  <2>. QED
    BY <2>1, <2>2
<1>. QED
  BY <1>1, <1>2, <1>3, <1>4

LEMMA SourcesAre ==
  ASSUME main \in Written, NEW r \in DOMAIN References
  PROVE  /\ StrategySource(r) \in {<<0, 0>>, <<r, 0>>} /\ StrategySource(r) \in Address
         /\ DeprecationSource(r) \in {<<0, 0>>, <<r, 0>>} /\ DeprecationSource(r) \in Address
         /\ Nearest(r, "exclude", {}) \in {<<0, 0>>, <<r, 0>>}
  BY Addresses DEF StrategySource, DeprecationSource, Nearest

(* What is written at an address.                                          *)
LEMMA StructsAre ==
  ASSUME main \in Written, NEW a \in Address
  PROVE  /\ StrategyAt(a) \in StrategyStruct \cup {None}
         /\ DeprecationAt(a) \in DeprecationStruct \cup {None}
         /\ ExcludeAt(a) \in Excludes
<1>1. CASE a = <<0, 0>>
  BY <1>1, Shape DEF StrategyAt, DeprecationAt, ExcludeAt, WrittenAt, WrittenDefaults
<1>2. CASE a # <<0, 0>>
  <2>. PICK r \in DOMAIN References : a \in {r} \X (0 .. Len(Flows(r)))
    BY <1>2 DEF Address, Flows
  <2>1. PICK k \in 0 .. Len(Flows(r)) : a = <<r, k>>
    OBVIOUS
  <2>2. r # 0 /\ References[r].defaults \in WrittenDefaults
    BY Shape DEF WrittenReference
  <2>3. CASE k = 0
    BY <2>1, <2>2, <2>3 DEF StrategyAt, DeprecationAt, ExcludeAt, WrittenAt, WrittenDefaults
  <2>4. CASE k # 0
    <3>1. Flows(r)[k] \in WrittenWorkflow
      BY <2>1, <2>4, Shape
    <3>2. WrittenAt(a) = Flows(r)[k]
      BY <2>1, <2>2, <2>4 DEF WrittenAt, Flows
    <3>3. {} \in Excludes
      BY DEF Excludes
    <3>. QED
      BY <2>1, <2>4, <3>1, <3>2, <3>3
      DEF StrategyAt, DeprecationAt, ExcludeAt, ReadField, WrittenWorkflow, OrRef
  <2>. QED
    BY <2>3, <2>4
<1>. QED
  BY <1>1, <1>2

-----------------------------------------------------------------------------
(* Filling in blanks: a blank that was filled in stays, and it makes no    *)
(* difference whether the defaults have had their type filled in before.   *)
LEMMA TypedFacts ==
  ASSUME NEW s \in StrategyStruct \cup {None}
  PROVE  /\ Typed(s) \in StrategyStruct \cup {None} /\ Typed(Typed(s)) = Typed(s)
         /\ Typed(s) = None <=> s = None
<1>1. CASE s = None
  BY <1>1 DEF Typed
<1>2. CASE s \in StrategyStruct
  <2>1. s # None /\ Typed(s) = [s EXCEPT !.type = Or(@, "pull_request")]
    BY <1>2, RulesConstants DEF Typed
  <2>2. Or(s.type, "pull_request") \in Text /\ Or(s.type, "pull_request") # ""
    BY <1>2, RulesConstants DEF StrategyStruct, Or
  <2>3. Typed(s) \in StrategyStruct /\ Typed(s).type = Or(s.type, "pull_request")
    BY <1>2, <2>1, <2>2 DEF StrategyStruct
  <2>4. Typed(Typed(s)) = [Typed(s) EXCEPT !.type = Or(@, "pull_request")]
    BY <2>3, RulesConstants DEF Typed
  <2>5. Or(Typed(s).type, "pull_request") = Typed(s).type
    BY <2>2, <2>3 DEF Or
  <2>. QED
    BY <2>1, <2>3, <2>4, <2>5, RulesConstants DEF StrategyStruct
<1>. QED
  BY <1>1, <1>2

LEMMA FilledFacts ==
  ASSUME NEW o \in StrategyStruct, NEW i \in StrategyStruct, NEW j \in {i, Typed(i)}
  PROVE  /\ FillBlanks(o, j) \in StrategyStruct
         /\ Typed(FillBlanks(o, j)) = Typed(FillBlanks(o, i))
<1>1. Or(i.type, "pull_request") \in Text /\ i # None
  BY RulesConstants DEF StrategyStruct, Or
<1>2. j \in StrategyStruct /\ j.text = i.text /\ j.usePRTemplate = i.usePRTemplate
      /\ j.type \in {i.type, Or(i.type, "pull_request")}
  BY <1>1 DEF StrategyStruct, Typed
<1>3. \A x \in StrategyStruct :
        /\ Or(o.type, x.type) \in Text /\ Or(o.text, x.text) \in Text
        /\ (o.usePRTemplate \/ x.usePRTemplate) \in BOOLEAN
  BY DEF StrategyStruct, Or
<1>4. \A x \in StrategyStruct :
        /\ FillBlanks(o, x) \in StrategyStruct /\ FillBlanks(o, x) # None
        /\ FillBlanks(o, x) = [type |-> Or(o.type, x.type), text |-> Or(o.text, x.text),
             usePRTemplate |-> o.usePRTemplate \/ x.usePRTemplate, autoMerge |-> o.autoMerge]
  <2>1. ASSUME NEW t \in Text, NEW u \in Text, NEW b \in BOOLEAN, NEW f,
               f = [o EXCEPT !.type = t, !.text = u, !.usePRTemplate = b]
        PROVE  /\ f \in StrategyStruct
               /\ f = [type |-> t, text |-> u, usePRTemplate |-> b, autoMerge |-> o.autoMerge]
    BY <2>1 DEF StrategyStruct
  <2>2. ASSUME NEW x \in StrategyStruct
        PROVE  /\ FillBlanks(o, x) \in StrategyStruct
               /\ FillBlanks(o, x) = [type |-> Or(o.type, x.type), text |-> Or(o.text, x.text),
                    usePRTemplate |-> o.usePRTemplate \/ x.usePRTemplate,
                    autoMerge |-> o.autoMerge]
    BY <1>3, <2>1, Zenon DEF FillBlanks
  <2>. QED
    BY <2>2, RulesConstants
<1>5. \A x \in StrategyStruct : Typed(FillBlanks(o, x)) =
        [type |-> Or(Or(o.type, x.type), "pull_request"), text |-> Or(o.text, x.text),
         usePRTemplate |-> o.usePRTemplate \/ x.usePRTemplate, autoMerge |-> o.autoMerge]
  BY <1>4 DEF Typed
<1>6. Or(Or(o.type, j.type), "pull_request") = Or(Or(o.type, i.type), "pull_request")
  BY <1>2 DEF Or
<1>. QED
  BY <1>2, <1>4, <1>5, <1>6

LEMMA WithFileFacts ==
  ASSUME NEW d \in DeprecationStruct \cup {None}
  PROVE  /\ WithFile(d) \in DeprecationStruct \cup {None} /\ WithFile(WithFile(d)) = WithFile(d)
         /\ WithFile(d) = None <=> d = None
<1>1. CASE d = None
  BY <1>1 DEF WithFile
<1>2. CASE d \in DeprecationStruct
  <2>1. d # None /\ WithFile(d) = [d EXCEPT !.file = Or(@, "deprecated_examples.json")]
    BY <1>2, RulesConstants DEF WithFile
  <2>2. /\ Or(d.file, "deprecated_examples.json") \in Text
        /\ Or(d.file, "deprecated_examples.json") # ""
    BY <1>2, RulesConstants DEF DeprecationStruct, Or
  <2>3. /\ WithFile(d) \in DeprecationStruct
        /\ WithFile(d).file = Or(d.file, "deprecated_examples.json")
    BY <1>2, <2>1, <2>2 DEF DeprecationStruct
  <2>4. WithFile(WithFile(d)) = [WithFile(d) EXCEPT !.file = Or(@, "deprecated_examples.json")]
    BY <2>3, RulesConstants DEF WithFile
  <2>5. Or(WithFile(d).file, "deprecated_examples.json") = WithFile(d).file
    BY <2>2, <2>3 DEF Or
  <2>. QED
    BY <2>1, <2>3, <2>4, <2>5, RulesConstants DEF DeprecationStruct
<1>. QED
  BY <1>1, <1>2

(* What the settings of a workflow should be, and where they are found.    *)
LEMMA SettingsAre ==
  ASSUME main \in Written, NEW r \in DOMAIN References, NEW k \in DOMAIN Flows(r),
         NEW o, o = StrategyAt(<<r, k>>), NEW i, i = StrategyAt(StrategySource(r)),
         NEW c, c = DeprecationAt(<<r, k>>), NEW e, e = DeprecationAt(DeprecationSource(r))
  PROVE  /\ ExpectedStrategy(<<r, k>>) =
              IF o = None THEN Typed(i) ELSE IF i = None THEN Typed(o) ELSE Typed(FillBlanks(o, i))
         /\ ExpectedDeprecation(<<r, k>>) = IF c = None THEN WithFile(e) ELSE WithFile(c)
         /\ o \in StrategyStruct \cup {None} /\ i \in StrategyStruct \cup {None}
         /\ c \in DeprecationStruct \cup {None} /\ e \in DeprecationStruct \cup {None}
         /\ ExpectedStrategy(<<r, k>>) \in StrategyStruct \cup {None}
         /\ ExpectedStrategy(<<r, k>>) = None <=> o = None /\ i = None
<1>1. /\ o \in StrategyStruct \cup {None} /\ i \in StrategyStruct \cup {None}
      /\ c \in DeprecationStruct \cup {None} /\ e \in DeprecationStruct \cup {None}
  BY StructsAre, SourcesAre, Addresses
<1>2. i = WrittenAt(StrategySource(r)).strategy
  BY SourcesAre DEF StrategyAt
<1>3. o # None /\ i # None => FillBlanks(o, i) \in StrategyStruct
  BY <1>1, FilledFacts
<1>4. ExpectedStrategy(<<r, k>>) =
        IF o = None THEN Typed(i) ELSE IF i = None THEN Typed(o) ELSE Typed(FillBlanks(o, i))
  BY <1>1, <1>2, <1>3, RulesConstants DEF ExpectedStrategy, StrategySource, Typed
<1>5. ExpectedDeprecation(<<r, k>>) = IF c = None THEN WithFile(e) ELSE WithFile(c)
  BY DEF ExpectedDeprecation, DeprecationAt, DeprecationSource, WithFile
<1>. QED
  BY <1>1, <1>3, <1>4, <1>5, TypedFacts, RulesConstants

-----------------------------------------------------------------------------
(* The configuration as written does not change, nor does what follows     *)
(* from it.                                                                *)
LEMMA Unchanging ==
  ASSUME main' = main
  PROVE  /\ References' = References /\ Address' = Address
         /\ \A r : Source(r)' = Source(r) /\ Flows(r)' = Flows(r) /\ Good(r)' = Good(r)
         /\ \A a : /\ StrategyAt(a)' = StrategyAt(a) /\ DeprecationAt(a)' = DeprecationAt(a)
                   /\ ExpectedStrategy(a)' = ExpectedStrategy(a)
                   /\ ExpectedDeprecation(a)' = ExpectedDeprecation(a)
                   /\ ExpectedExclude(a)' = ExpectedExclude(a)
         /\ \A r, k : /\ StrategyOf(r, k)' = StrategyOf(r, k)
                      /\ DeprecationOf(r, k)' = DeprecationOf(r, k)
                      /\ Unfilled(r, k)' = Unfilled(r, k) /\ Final(r, k)' = Final(r, k)
         /\ \A r : DefaultsOf(r)' = DefaultsOf(r)
<1>1. References' = References
  BY DEF References
<1>2. Address' = Address /\ \A r : Source(r)' = Source(r) /\ Flows(r)' = Flows(r)
  BY <1>1 DEF Address, Source, Flows
<1>3. \A a : WrittenAt(a)' = WrittenAt(a)
  BY <1>1 DEF WrittenAt
<1>4. \A r, f, u : Nearest(r, f, u)' = Nearest(r, f, u)
  BY <1>1 DEF Nearest
<1>5. \A r, f, u : ReadField(r, f, u)' = ReadField(r, f, u)
  BY <1>2 DEF ReadField
<1>6. \A a : StrategyAt(a)' = StrategyAt(a) /\ ExcludeAt(a)' = ExcludeAt(a)
             /\ DeprecationAt(a)' = DeprecationAt(a)
  BY <1>3, <1>5 DEF StrategyAt, ExcludeAt, DeprecationAt
<1>7. \A a : /\ ExpectedStrategy(a)' = ExpectedStrategy(a)
             /\ ExpectedDeprecation(a)' = ExpectedDeprecation(a)
             /\ ExpectedExclude(a)' = ExpectedExclude(a)
  BY <1>3, <1>4, <1>6 DEF ExpectedStrategy, ExpectedDeprecation, ExpectedExclude
<1>8. \A r, k : /\ StrategyOf(r, k)' = StrategyOf(r, k)
                /\ DeprecationOf(r, k)' = DeprecationOf(r, k)
  BY <1>4, <1>6 DEF StrategyOf, DeprecationOf, StrategyFrom, DeprecationFrom, StrategySource,
                    DeprecationSource
<1>9. \A r, k : LoadedWorkflow(r, k)' = LoadedWorkflow(r, k)
  BY <1>1, <1>5, <1>6 DEF LoadedWorkflow
<1>10. \A r, k : Unfilled(r, k)' = Unfilled(r, k)
  BY <1>1, <1>2, <1>9 DEF Unfilled, InContext
<1>11. \A r, k : Final(r, k)' = Final(r, k)
  BY <1>7, <1>8, <1>10 DEF Final
<1>12. \A r : Good(r)' = Good(r)
  BY <1>1, <1>7, <1>10 DEF Good, Unfilled
<1>13. \A r : DefaultsOf(r)' = DefaultsOf(r)
  BY <1>3, <1>4, <1>6 DEF DefaultsOf, StrategyFrom, DeprecationFrom, StrategySource,
                          DeprecationSource
<1>. QED
  BY <1>1, <1>2, <1>6, <1>7, <1>8, <1>10, <1>11, <1>12, <1>13

-----------------------------------------------------------------------------
(* The invariant.  SetDefaults has been through the workflows of earlier   *)
(* references and those before the index.                                  *)
Through(r, k) == r < at \/ (r = at /\ k < index)

(* The defaults are as written, or with their type filled in; a workflow's *)
(* own structs are as written until it is settled.  From then on its       *)
(* settings are those that it should have, though others share them.       *)
HeapInv ==
  /\ strategies \in [Address -> StrategyStruct \cup {None}]
  /\ deprecations \in [Address -> DeprecationStruct \cup {None}]
  /\ \A a \in Address : a[2] = 0 =>
       /\ strategies[a] \in {StrategyAt(a), Typed(StrategyAt(a))}
       /\ deprecations[a] \in {DeprecationAt(a), WithFile(DeprecationAt(a))}
  /\ \A r \in DOMAIN References : \A k \in DOMAIN Flows(r) :
       IF Through(r, k)
       THEN /\ Deref(strategies, StrategyOf(r, k)) = ExpectedStrategy(<<r, k>>)
            /\ Deref(deprecations, DeprecationOf(r, k)) = ExpectedDeprecation(<<r, k>>)
       ELSE /\ strategies[<<r, k>>] = StrategyAt(<<r, k>>)
            /\ deprecations[<<r, k>>] = DeprecationAt(<<r, k>>)

(* The reference at hand.                                                  *)
ReferenceInv ==
  /\ at \in 1 .. Len(References) + 1
  /\ loaded \in Seq(Flow) /\ index \in 0 .. Len(loaded) + 1
  /\ index = 0 => loaded = <<>>
  /\ index # 0 =>
       /\ at \in DOMAIN References /\ Len(loaded) = Len(Flows(at))
       /\ \A k \in DOMAIN loaded : loaded[k] = IF k < index THEN Final(at, k) ELSE Unfilled(at, k)
       /\ defaults = DefaultsOf(at)

(* What has been merged are the workflows of the good references before.   *)
MergedInv ==
  /\ workflows \in Seq(Flow)
  /\ \A i \in DOMAIN workflows :
       \E r \in DOMAIN References : \E k \in DOMAIN Flows(r) :
         r < at /\ Good(r) /\ workflows[i] = Final(r, k)
  /\ \A r \in DOMAIN References : r < at /\ Good(r) =>
       \A k \in DOMAIN Flows(r) : \E i \in DOMAIN workflows : workflows[i] = Final(r, k)

StageInv ==
  /\ stage = "validate" => at = 1 /\ index = 0 /\ workflows = <<>>
  /\ stage = "merged" => at = Len(References) + 1
  /\ stage = "failed" =>
       \/ \E r \in DOMAIN References : Source(r) = "inline" /\ ~ Good(r)
       \/ \A r \in DOMAIN References : ~ Good(r)

RulesInv == main \in Written /\ HeapInv /\ ReferenceInv /\ MergedInv /\ StageInv

-----------------------------------------------------------------------------
(* Workflows before and after SetDefaults.                                 *)
LEMMA FlowsAre ==
  ASSUME main \in Written, NEW r \in DOMAIN References, NEW k \in DOMAIN Flows(r)
  PROVE  /\ Unfilled(r, k) \in Flow
         /\ Unfilled(r, k).origin = <<r, k>>
         /\ Unfilled(r, k).strategy = StrategyFrom(<<r, k>>)
         /\ Unfilled(r, k).deprecation = DeprecationFrom(<<r, k>>)
         /\ Unfilled(r, k).exclude = ExcludeAt(<<r, k>>)
<1>1. /\ Flows(r)[k] \in WrittenWorkflow /\ r \in Nat /\ r # 0 /\ k \in Nat /\ k # 0
      /\ References[r] \in WrittenReference
  BY Shape
<1>2. WrittenAt(<<r, k>>) = Flows(r)[k]
  BY <1>1 DEF WrittenAt, Flows
<1>3. ReadField(r, Flows(r)[k].transformations, <<>>) \in Seq(Rule)
  BY <1>1 DEF ReadField, WrittenWorkflow, OrRef
<1>4. ExcludeAt(<<r, k>>) \in Excludes
  BY Addresses, StructsAre
<1>5. <<r, k>> \in Place
  BY <1>1 DEF Place
<1>. DEFINE w == LoadedWorkflow(r, k)
<1>6. w = [origin |-> <<r, k>>, sound |-> Flows(r)[k].sound, repo |-> Flows(r)[k].repo,
           branch |-> Flows(r)[k].branch, strategy |-> StrategyFrom(<<r, k>>),
           deprecation |-> DeprecationFrom(<<r, k>>), exclude |-> ExcludeAt(<<r, k>>),
           transformations |-> ReadField(r, Flows(r)[k].transformations, <<>>)]
  BY <1>2 DEF LoadedWorkflow, StrategyFrom, DeprecationFrom, DeprecationAt, Flows
<1>7. /\ StrategyFrom(<<r, k>>) \in Place \cup {None}
      /\ DeprecationFrom(<<r, k>>) \in Place \cup {None}
  BY <1>5 DEF StrategyFrom, DeprecationFrom
<1>8. /\ Flows(r)[k].sound \in BOOLEAN /\ Flows(r)[k].repo \in Text /\ Flows(r)[k].branch \in Text
      /\ References[r].repo \in Text /\ References[r].branch \in Text
  BY <1>1 DEF WrittenWorkflow, WrittenReference
<1>9. w \in Flow
  BY <1>3, <1>4, <1>5, <1>6, <1>7, <1>8 DEF Flow
<1>10. ASSUME NEW x \in Text, NEW y \in Text, NEW v, v = [w EXCEPT !.repo = x, !.branch = y]
       PROVE  /\ v \in Flow /\ v.origin = w.origin /\ v.strategy = w.strategy
              /\ v.deprecation = w.deprecation /\ v.exclude = w.exclude
  BY <1>9, <1>10 DEF Flow
<1>11. Unfilled(r, k) \in Flow /\ Unfilled(r, k).origin = w.origin
       /\ Unfilled(r, k).strategy = w.strategy
       /\ Unfilled(r, k).deprecation = w.deprecation /\ Unfilled(r, k).exclude = w.exclude
  <2>. HIDE DEF w
  <2>1. CASE Source(r) # "repo"
    BY <1>9, <2>1 DEF Unfilled, InContext, w
  <2>2. CASE Source(r) = "repo"
    <3>. DEFINE x == IF w.repo = "" THEN References[r].repo ELSE w.repo
                y == IF w.branch = "" THEN References[r].branch ELSE w.branch
    <3>1. Unfilled(r, k) = [w EXCEPT !.repo = x, !.branch = y]
      BY <2>2 DEF Unfilled, InContext, w
    <3>2. x \in Text /\ y \in Text
      BY <1>8, <1>9 DEF Flow
    <3>. HIDE DEF x, y
    <3>. QED
      BY <1>10, <3>1, <3>2
  <2>. QED
    BY <2>1, <2>2
<1>. QED
  BY <1>6, <1>11

(* Where the settings of a workflow are, once it is settled.               *)
LEMMA PointersAre ==
  ASSUME main \in Written, NEW r \in DOMAIN References, NEW k \in DOMAIN Flows(r)
  PROVE  /\ \/ StrategyAt(<<r, k>>) # None /\ StrategyOf(r, k) = <<r, k>>
            \/ /\ StrategyAt(<<r, k>>) = None /\ StrategyAt(StrategySource(r)) = None
               /\ StrategyOf(r, k) = None
            \/ /\ StrategyAt(<<r, k>>) = None /\ StrategyAt(StrategySource(r)) # None
               /\ StrategyOf(r, k) = StrategySource(r)
         /\ \/ DeprecationAt(<<r, k>>) # None /\ DeprecationOf(r, k) = <<r, k>>
            \/ /\ DeprecationAt(<<r, k>>) = None /\ DeprecationAt(DeprecationSource(r)) = None
               /\ DeprecationOf(r, k) = None
            \/ /\ DeprecationAt(<<r, k>>) = None /\ DeprecationAt(DeprecationSource(r)) # None
               /\ DeprecationOf(r, k) = DeprecationSource(r)
         /\ StrategyOf(r, k) \in (Address \cap Place) \cup {None}
         /\ DeprecationOf(r, k) \in (Address \cap Place) \cup {None}
         /\ StrategySource(r) # None /\ DeprecationSource(r) # None /\ <<r, k>> # None
<1>1. /\ StrategySource(r) \in Address \cap Place /\ DeprecationSource(r) \in Address \cap Place
      /\ <<r, k>> \in Address \cap Place
  BY SourcesAre, Addresses
<1>2. None \notin Place
  BY WorkflowRulesAssumption DEF Place
<1>. QED
  BY <1>1, <1>2 DEF StrategyOf, DeprecationOf, StrategyFrom, DeprecationFrom

LEMMA FinalFlows ==
  ASSUME main \in Written, NEW r \in DOMAIN References, NEW k \in DOMAIN Flows(r)
  PROVE  /\ Final(r, k) \in Flow
         /\ Final(r, k).origin = <<r, k>>
         /\ Final(r, k).strategy = StrategyOf(r, k)
         /\ Final(r, k).deprecation = DeprecationOf(r, k)
         /\ Final(r, k).exclude = ExpectedExclude(<<r, k>>)
         /\ Final(r, k).sound = Unfilled(r, k).sound /\ Final(r, k).repo = Unfilled(r, k).repo
         /\ Final(r, k).transformations = Unfilled(r, k).transformations
<1>1. Unfilled(r, k) \in Flow /\ Unfilled(r, k).origin = <<r, k>>
  BY FlowsAre
<1>2. ExpectedExclude(<<r, k>>) \in Excludes
  <2>1. /\ ExcludeAt(<<r, k>>) \in Excludes /\ Nearest(r, "exclude", {}) \in {<<0, 0>>, <<r, 0>>}
        /\ ExcludeAt(<<0, 0>>) \in Excludes /\ ExcludeAt(<<r, 0>>) \in Excludes
    BY SourcesAre, Addresses, StructsAre
  <2>2. WrittenAt(Nearest(r, "exclude", {})).exclude = ExcludeAt(Nearest(r, "exclude", {}))
    BY <2>1 DEF ExcludeAt
  <2>. QED
    BY <2>1, <2>2 DEF ExpectedExclude
<1>3. Or(Unfilled(r, k).branch, "main") \in Text
  BY <1>1, RulesConstants DEF Flow, Or
<1>4. StrategyOf(r, k) \in Place \cup {None} /\ DeprecationOf(r, k) \in Place \cup {None}
  BY PointersAre
<1>. QED
  BY <1>1, <1>2, <1>3, <1>4 DEF Final, WithSettings, Flow

LEMMA FunctionIsSeq ==
  ASSUME NEW S, NEW n \in Nat, NEW f \in [1 .. n -> S]
  PROVE  f \in Seq(S) /\ Len(f) = n
  OBVIOUS

LEMMA RulesInitInv == RulesInit => RulesInv
<1>. SUFFICES ASSUME RulesInit PROVE RulesInv
  OBVIOUS
<1>1. /\ main \in Written /\ at = 1 /\ index = 0
      /\ loaded = <<>> /\ workflows = <<>> /\ stage = "validate"
  BY DEF RulesInit
<1>2. Len(References) \in Nat /\ \A r \in DOMAIN References : r \in Nat /\ r # 0
  BY <1>1, Shape
<1>3. HeapInv
  <2>1. \A r \in DOMAIN References : \A k \in DOMAIN Flows(r) :
          /\ ~ Through(r, k) /\ <<r, k>> \in Address
    <3>1. ASSUME NEW r \in DOMAIN References, NEW k \in DOMAIN Flows(r)
          PROVE  ~ Through(r, k) /\ <<r, k>> \in Address
      <4>1. r \in Nat /\ r # 0 /\ k \in Nat /\ k # 0
        BY <1>1, Shape
      <4>2. ~ Through(r, k)
        BY <1>1, <4>1 DEF Through
      <4>. QED
        BY <1>1, <4>2, Addresses
    <3>. QED
      BY <3>1
  <2>2. /\ strategies = [a \in Address |-> StrategyAt(a)]
        /\ deprecations = [a \in Address |-> DeprecationAt(a)]
    BY DEF RulesInit, DeprecationAt
  <2>. QED
    BY <1>1, <2>1, <2>2, StructsAre DEF HeapInv
<1>4. ReferenceInv
  BY <1>1, <1>2 DEF ReferenceInv
<1>5. MergedInv
  BY <1>1, <1>2 DEF MergedInv
<1>. QED
  BY <1>1, <1>3, <1>4, <1>5 DEF RulesInv, StageInv

-----------------------------------------------------------------------------
(* The invariant says what the properties say.                             *)

(* A workflow that SetDefaults has been through has the strategy type that *)
(* Good asks about, and it is valid if and only if the reference's good.   *)
LEMMA ThroughAndValid ==
  ASSUME RulesInv, NEW r \in DOMAIN References, NEW k \in DOMAIN Flows(r), Through(r, k)
  PROVE  Valid(Final(r, k), TypeOf(Final(r, k))) <=>
           LET s == ExpectedStrategy(<<r, k>>)
           IN  Valid(Unfilled(r, k), IF s = None THEN "" ELSE s.type)
<1>1. Deref(strategies, StrategyOf(r, k)) = ExpectedStrategy(<<r, k>>)
  BY DEF RulesInv, HeapInv
<1>2. main \in Written
  BY DEF RulesInv
<1>3. /\ Final(r, k).strategy = StrategyOf(r, k) /\ Final(r, k).sound = Unfilled(r, k).sound
      /\ Final(r, k).repo = Unfilled(r, k).repo
      /\ Final(r, k).transformations = Unfilled(r, k).transformations
  BY <1>2, FinalFlows
<1>4. StrategyOf(r, k) = None <=> ExpectedStrategy(<<r, k>>) = None
  <2>1. StrategyOf(r, k) = None <=>
          StrategyAt(<<r, k>>) = None /\ StrategyAt(StrategySource(r)) = None
    BY <1>2, PointersAre
  <2>2. ExpectedStrategy(<<r, k>>) = None <=>
          StrategyAt(<<r, k>>) = None /\ StrategyAt(StrategySource(r)) = None
    BY <1>2, SettingsAre
  <2>. QED
    BY <2>1, <2>2
<1>5. TypeOf(Final(r, k)) =
        IF ExpectedStrategy(<<r, k>>) = None THEN "" ELSE ExpectedStrategy(<<r, k>>).type
  BY <1>1, <1>3, <1>4 DEF TypeOf, Deref
<1>. QED
  BY <1>3, <1>5 DEF Valid

LEMMA RulesInvSettings == RulesInv => SettingsAsWritten
<1>. SUFFICES ASSUME RulesInv, NEW i \in DOMAIN workflows, NEW w, w = workflows[i]
              PROVE  /\ Deref(strategies, w.strategy) = ExpectedStrategy(w.origin)
                     /\ Deref(deprecations, w.deprecation) = ExpectedDeprecation(w.origin)
                     /\ w.exclude = ExpectedExclude(w.origin)
  BY DEF SettingsAsWritten
<1>1. PICK r \in DOMAIN References : \E k \in DOMAIN Flows(r) : r < at /\ w = Final(r, k)
  BY DEF RulesInv, MergedInv
<1>2. PICK k \in DOMAIN Flows(r) : r < at /\ w = Final(r, k)
  BY <1>1
<1>3. /\ Deref(strategies, StrategyOf(r, k)) = ExpectedStrategy(<<r, k>>)
      /\ Deref(deprecations, DeprecationOf(r, k)) = ExpectedDeprecation(<<r, k>>)
  BY <1>2 DEF RulesInv, HeapInv, Through
<1>4. main \in Written
  BY DEF RulesInv
<1>. QED
  BY <1>2, <1>3, <1>4, FinalFlows

LEMMA RulesInvCosts == RulesInv => InvalidCostsOnlyItself
<1>. SUFFICES ASSUME RulesInv, stage = "merged"
              PROVE  {workflows[i].origin : i \in DOMAIN workflows}
                       = {a \in Address : a[2] # 0 /\ Good(a[1])}
  BY DEF RulesInv, StageInv, InvalidCostsOnlyItself
<1>1. main \in Written /\ at = Len(References) + 1
  BY DEF RulesInv, StageInv
<1>2. \A r \in DOMAIN References : r < at
  BY <1>1, Shape
<1>3. ASSUME NEW i \in DOMAIN workflows
      PROVE  workflows[i].origin \in {a \in Address : a[2] # 0 /\ Good(a[1])}
  <2>1. PICK r \in DOMAIN References :
          \E k \in DOMAIN Flows(r) : Good(r) /\ workflows[i] = Final(r, k)
    BY DEF RulesInv, MergedInv
  <2>2. PICK k \in DOMAIN Flows(r) : Good(r) /\ workflows[i] = Final(r, k)
    BY <2>1
  <2>3. workflows[i].origin = <<r, k>> /\ k # 0 /\ <<r, k>> \in Address
    <3>1. workflows[i].origin = <<r, k>>
      BY <1>1, <2>2, FinalFlows
    <3>2. k # 0 /\ <<r, k>> \in Address
      BY <1>1, Shape, Addresses
    <3>. QED
      BY <3>1, <3>2
  <2>. QED
    BY <2>2, <2>3
<1>4. ASSUME NEW a \in Address, a[2] # 0, Good(a[1])
      PROVE  \E i \in DOMAIN workflows : workflows[i].origin = a
  <2>1. a = <<a[1], a[2]>> /\ a[1] \in DOMAIN References /\ a[2] \in DOMAIN Flows(a[1])
    BY <1>1, <1>4, Addresses
  <2>2. PICK i \in DOMAIN workflows : workflows[i] = Final(a[1], a[2])
    BY <1>2, <1>4, <2>1 DEF RulesInv, MergedInv
  <2>3. workflows[i].origin = a
    BY <1>1, <2>1, <2>2, FinalFlows
  <2>. QED
    BY <2>3
<1>. QED
  BY <1>3, <1>4

LEMMA RulesInvLands == RulesInv => FilesLandInPlace
<1>. SUFFICES ASSUME RulesInv, NEW i \in DOMAIN workflows
              PROVE  workflows[i].transformations \in Seq(Rule)
  BY RulesLand DEF FilesLandInPlace
<1>1. main \in Written
  BY DEF RulesInv
<1>2. PICK r \in DOMAIN References : \E k \in DOMAIN Flows(r) : workflows[i] = Final(r, k)
  BY DEF RulesInv, MergedInv
<1>3. PICK k \in DOMAIN Flows(r) : workflows[i] = Final(r, k)
  BY <1>2
<1>4. workflows[i] \in Flow
  BY <1>1, <1>3, FinalFlows
<1>. QED
  BY <1>4 DEF Flow

-----------------------------------------------------------------------------
(* What a step leaves alone.                                               *)
LEMMA SameHeap ==
  ASSUME RulesInv, main' = main, strategies' = strategies, deprecations' = deprecations,
         \A r \in DOMAIN References : \A k \in DOMAIN Flows(r) : Through(r, k)' <=> Through(r, k)
  PROVE  HeapInv'
<1>1. HeapInv
  BY DEF RulesInv
<1>. QED
  BY <1>1, Unchanging DEF HeapInv, Deref, Typed, WithFile

LEMMA SameMerged ==
  ASSUME RulesInv, main' = main, at' = at, workflows' = workflows
  PROVE  MergedInv'
<1>1. MergedInv
  BY DEF RulesInv
<1>. QED
  BY <1>1, Unchanging DEF MergedInv

-----------------------------------------------------------------------------
(* Every action keeps the invariant.                                       *)
LEMMA ValidateStep == ASSUME RulesInv, Validate PROVE RulesInv'
<1>1. /\ stage = "validate" /\ main' = main /\ strategies' = strategies
      /\ deprecations' = deprecations /\ at' = at /\ loaded' = loaded /\ defaults' = defaults
      /\ index' = index /\ workflows' = workflows
  BY DEF Validate
<1>2. main \in Written /\ at = 1 /\ index = 0 /\ workflows = <<>>
  BY <1>1 DEF RulesInv, StageInv
<1>3. main' \in Written
  BY <1>1, <1>2
<1>4. HeapInv'
  BY <1>1, SameHeap DEF Through
<1>5. ReferenceInv'
  BY <1>1, <1>2, Unchanging DEF RulesInv, ReferenceInv
<1>6. MergedInv'
  BY <1>1, SameMerged
<1>7. ASSUME NEW r \in DOMAIN References, Source(r) = "inline", NEW k \in DOMAIN Flows(r),
             ~ Valid(LoadedWorkflow(r, k), TypeOf(LoadedWorkflow(r, k)))
      PROVE  ~ Good(r)
  <2>. DEFINE w == LoadedWorkflow(r, k)
              s == ExpectedStrategy(<<r, k>>)
              o == StrategyAt(<<r, k>>)
              i == StrategyAt(StrategySource(r))
  <2>1. Unfilled(r, k) = w /\ w.strategy = StrategyFrom(<<r, k>>)
    BY <1>2, <1>7, FlowsAre DEF Unfilled, InContext
  <2>2. strategies[<<r, k>>] = o
    <3>1. r \in Nat /\ r # 0 /\ k \in Nat /\ k # 0
      BY <1>2, Shape
    <3>2. ~ Through(r, k)
      BY <1>2, <3>1 DEF Through
    <3>. QED
      BY <3>2 DEF RulesInv, HeapInv
  <2>3. TypeOf(w) = IF o = None THEN "" ELSE o.type
    <3>1. <<r, k>> # None
      BY <1>2, Shape, RulesConstants
    <3>. QED
      BY <2>1, <2>2, <3>1 DEF TypeOf, StrategyFrom
  <2>4. /\ s = IF o = None THEN Typed(i) ELSE IF i = None THEN Typed(o) ELSE Typed(FillBlanks(o, i))
        /\ o \in StrategyStruct \cup {None} /\ i \in StrategyStruct \cup {None}
    BY <1>2, SettingsAre
  <2>5. o # None /\ o.type # "" => s # None /\ s.type = o.type
    <3>. SUFFICES ASSUME o # None, o.type # "" PROVE s # None /\ s.type = o.type
      OBVIOUS
    <3>1. \A x \in StrategyStruct : x.type # "" => Typed(x) # None /\ Typed(x).type = x.type
      BY RulesConstants, TypedFacts DEF Typed, Or, StrategyStruct
    <3>2. i # None => FillBlanks(o, i) \in StrategyStruct /\ FillBlanks(o, i).type = o.type
      <4>1. i # None => FillBlanks(o, i) \in StrategyStruct
        BY <2>4, FilledFacts
      <4>2. FillBlanks(o, i).type = o.type
        BY <2>4 DEF FillBlanks, Or, StrategyStruct
      <4>. QED
        BY <4>1, <4>2
    <3>. HIDE DEF s, o, i
    <3>3. CASE i = None
      BY <2>4, <3>1, <3>3
    <3>4. CASE i # None
      <4>. DEFINE f == FillBlanks(o, i)
      <4>1. f \in StrategyStruct /\ f.type = o.type /\ s = Typed(f)
        BY <2>4, <3>2, <3>4
      <4>. HIDE DEF f
      <4>. QED
        BY <3>1, <4>1
    <3>. QED
      BY <3>3, <3>4
  <2>. HIDE DEF w, s, o, i
  <2>6. ~ Valid(w, TypeOf(w))
    BY <1>7 DEF w
  <2>7. ~ Valid(w, IF s = None THEN "" ELSE s.type)
    BY <2>3, <2>5, <2>6 DEF Valid
  <2>. QED
    BY <2>1, <2>7 DEF Good, Unfilled, s, Flows
<1>8. stage' = "failed" => \E r \in DOMAIN References : Source(r) = "inline" /\ ~ Good(r)
  <2>. SUFFICES ASSUME stage' = "failed"
                PROVE  \E r \in DOMAIN References : Source(r) = "inline" /\ ~ Good(r)
    OBVIOUS
  <2>1. PICK r \in DOMAIN References : Source(r) = "inline" /\
          \/ Flows(r) = <<>>
          \/ \E k \in DOMAIN Flows(r) : ~ Valid(LoadedWorkflow(r, k), TypeOf(LoadedWorkflow(r, k)))
    BY DEF Validate, Flows
  <2>2. Flows(r) = <<>> => ~ Good(r)
    BY DEF Good, Flows
  <2>. QED
    BY <1>7, <2>1, <2>2
<1>9. StageInv'
  <2>1. stage' \in {"resolve", "failed"}
    BY DEF Validate
  <2>. QED
    BY <1>1, <1>8, <2>1, Unchanging DEF StageInv
<1>. QED
  BY <1>3, <1>4, <1>5, <1>6, <1>9 DEF RulesInv

LEMMA LoadStep == ASSUME RulesInv, Load PROVE RulesInv'
<1>1. /\ stage = "resolve" /\ at \in DOMAIN References /\ index = 0 /\ index' = 1
      /\ main' = main /\ strategies' = strategies /\ deprecations' = deprecations
      /\ at' = at /\ stage' = stage /\ workflows' = workflows
      /\ loaded' = [k \in DOMAIN Flows(at) |-> Unfilled(at, k)]
  BY DEF Load, Unfilled, Flows
<1>2. main \in Written
  BY DEF RulesInv
<1>3. main' \in Written
  BY <1>1, <1>2
<1>4. \A r \in DOMAIN References : \A k \in DOMAIN Flows(r) : k \in Nat /\ k # 0
  BY <1>2, Shape
<1>5. HeapInv'
  <2>1. ASSUME NEW r \in DOMAIN References, NEW k \in DOMAIN Flows(r)
        PROVE  Through(r, k)' <=> Through(r, k)
    BY <1>1, <1>4 DEF Through
  <2>. QED
    BY <1>1, <2>1, SameHeap
<1>6. /\ Len(Flows(at)) \in Nat /\ DOMAIN Flows(at) = 1 .. Len(Flows(at))
      /\ \A k \in DOMAIN Flows(at) : Unfilled(at, k) \in Flow
  BY <1>1, <1>2, Shape, FlowsAre
<1>7. loaded' \in Seq(Flow) /\ Len(loaded') = Len(Flows(at)) /\ DOMAIN loaded' = DOMAIN Flows(at)
  <2>1. loaded' \in [1 .. Len(Flows(at)) -> Flow]
    BY <1>1, <1>6
  <2>. QED
    BY <1>6, <2>1, FunctionIsSeq
<1>8. defaults' = DefaultsOf(at)
  <2>. DEFINE a == StrategySource(at)
              b == DeprecationSource(at)
  <2>1. a \in Address /\ b \in Address /\ a[2] = 0 /\ b[2] = 0
    BY <1>1, <1>2, SourcesAre
  <2>2. /\ strategies[a] \in {StrategyAt(a), Typed(StrategyAt(a))}
        /\ deprecations[b] \in {DeprecationAt(b), WithFile(DeprecationAt(b))}
    BY <2>1 DEF RulesInv, HeapInv
  <2>3. strategies[a] = None <=> StrategyAt(a) = None
    BY <1>2, <2>1, <2>2, StructsAre, TypedFacts
  <2>4. deprecations[b] = None <=> DeprecationAt(b) = None
    BY <1>2, <2>1, <2>2, StructsAre, WithFileFacts
  <2>5. Pointer(strategies, a) = StrategyFrom(a) /\ Pointer(deprecations, b) = DeprecationFrom(b)
    BY <2>3, <2>4 DEF Pointer, StrategyFrom, DeprecationFrom
  <2>. QED
    BY <2>5 DEF Load, StrategySource, DeprecationSource, DefaultsOf
<1>9. ReferenceInv'
  <2>1. at' \in 1 .. Len(References)' + 1 /\ at' \in DOMAIN References'
    BY <1>1, Unchanging DEF RulesInv, ReferenceInv
  <2>2. /\ index' \in 0 .. Len(loaded') + 1 /\ index' # 0 /\ Len(loaded') = Len(Flows(at)')
        /\ Flows(at)' = Flows(at)
    <3>1. Flows(at)' = Flows(at)
      BY <1>1, Unchanging DEF Flows
    <3>. QED
      BY <1>1, <1>6, <1>7, <3>1
  <2>3. ASSUME NEW k \in DOMAIN loaded'
        PROVE  loaded'[k] = IF k < index' THEN Final(at, k)' ELSE Unfilled(at, k)'
    <3>1. ~ (k < index')
      BY <1>1, <1>4, <1>7
    <3>2. Unfilled(at, k)' = Unfilled(at', k)
      BY <1>1, Unchanging
    <3>. QED
      BY <1>1, <1>7, <3>1, <3>2
  <2>4. defaults' = DefaultsOf(at)'
    BY <1>1, <1>8, Unchanging DEF DefaultsOf
  <2>. QED
    BY <1>7, <2>1, <2>2, <2>3, <2>4 DEF ReferenceInv
<1>10. MergedInv'
  BY <1>1, SameMerged
<1>11. StageInv'
  BY <1>1 DEF StageInv
<1>. QED
  BY <1>3, <1>5, <1>9, <1>10, <1>11 DEF RulesInv

(* SetDefaults settles one workflow: the struct it points to gets the      *)
(* settings that workflow should have.                                     *)
LEMMA SettledAre ==
  ASSUME RulesInv, SetDefaults
  PROVE  /\ at \in DOMAIN References /\ index \in DOMAIN Flows(at) /\ index \in Nat
         /\ strategies' = IF StrategyOf(at, index) = None THEN strategies
              ELSE [strategies EXCEPT ![StrategyOf(at, index)] = ExpectedStrategy(<<at, index>>)]
         /\ deprecations' = IF DeprecationOf(at, index) = None THEN deprecations
              ELSE [deprecations EXCEPT ![DeprecationOf(at, index)] =
                      ExpectedDeprecation(<<at, index>>)]
         /\ loaded' = [loaded EXCEPT ![index] = Final(at, index)]
<1>. DEFINE r == at
            k == index
            o == StrategyAt(<<r, k>>)
            i == StrategyAt(StrategySource(r))
            c == DeprecationAt(<<r, k>>)
            e == DeprecationAt(DeprecationSource(r))
            s == StrategyOf(r, k)
            d == DeprecationOf(r, k)
            w == loaded[k]
<1>1. main \in Written /\ index \in DOMAIN loaded /\ index # 0 /\ index \in Nat
  BY DEF SetDefaults, RulesInv, ReferenceInv
<1>2. /\ r \in DOMAIN References /\ k \in DOMAIN Flows(r) /\ w = Unfilled(r, k)
      /\ defaults.strategy = StrategyFrom(StrategySource(r))
      /\ defaults.deprecation = DeprecationFrom(DeprecationSource(r))
      /\ defaults.exclude = WrittenAt(Nearest(r, "exclude", {})).exclude
  <2>1. /\ at \in DOMAIN References /\ Len(loaded) = Len(Flows(at)) /\ loaded \in Seq(Flow)
        /\ \A n \in DOMAIN loaded : loaded[n] = IF n < index THEN Final(at, n) ELSE Unfilled(at, n)
        /\ defaults = DefaultsOf(at)
    BY <1>1 DEF RulesInv, ReferenceInv
  <2>2. index \in DOMAIN Flows(at)
    BY <1>1, <2>1, Shape
  <2>. QED
    BY <1>1, <2>1, <2>2 DEF DefaultsOf
<1>3. /\ w.strategy = StrategyFrom(<<r, k>>) /\ w.deprecation = DeprecationFrom(<<r, k>>)
      /\ w.exclude = ExcludeAt(<<r, k>>)
  BY <1>1, <1>2, FlowsAre
<1>4. /\ <<r, k>> # None /\ StrategySource(r) # None /\ DeprecationSource(r) # None
  BY <1>1, <1>2, PointersAre
<1>5. Settled(w.strategy, defaults.strategy) = s /\ Settled(w.deprecation, defaults.deprecation) = d
  BY <1>2, <1>3, <1>4 DEF Settled, StrategyOf, DeprecationOf, StrategyFrom, DeprecationFrom
<1>6. strategies[<<r, k>>] = o /\ deprecations[<<r, k>>] = c
  <2>1. ~ Through(r, k)
    BY <1>1, <1>2, Shape DEF Through
  <2>. QED
    BY <1>2, <2>1 DEF RulesInv, HeapInv
<1>7. /\ strategies[StrategySource(r)] \in {i, Typed(i)}
      /\ deprecations[DeprecationSource(r)] \in {e, WithFile(e)}
  <2>1. /\ StrategySource(r) \in Address /\ DeprecationSource(r) \in Address
        /\ StrategySource(r)[2] = 0 /\ DeprecationSource(r)[2] = 0
    BY <1>1, <1>2, SourcesAre
  <2>. QED
    BY <2>1 DEF RulesInv, HeapInv
<1>8. /\ strategies \in [Address -> StrategyStruct \cup {None}]
      /\ deprecations \in [Address -> DeprecationStruct \cup {None}]
      /\ <<r, k>> \in Address
  BY <1>1, <1>2, Addresses DEF RulesInv, HeapInv
<1>9. /\ ExpectedStrategy(<<r, k>>) =
           IF o = None THEN Typed(i) ELSE IF i = None THEN Typed(o) ELSE Typed(FillBlanks(o, i))
      /\ ExpectedDeprecation(<<r, k>>) = IF c = None THEN WithFile(e) ELSE WithFile(c)
      /\ o \in StrategyStruct \cup {None} /\ i \in StrategyStruct \cup {None}
      /\ c \in DeprecationStruct \cup {None} /\ e \in DeprecationStruct \cup {None}
  BY <1>1, <1>2, SettingsAre
<1>10. /\ s = IF o # None THEN <<r, k>> ELSE IF i = None THEN None ELSE StrategySource(r)
       /\ d = IF c # None THEN <<r, k>> ELSE IF e = None THEN None ELSE DeprecationSource(r)
  BY DEF StrategyOf, StrategyFrom, DeprecationOf, DeprecationFrom
<1>. DEFINE filled == IF w.strategy # None /\ defaults.strategy # None
                      THEN FillBlanks(strategies[w.strategy], strategies[defaults.strategy])
                      ELSE strategies[s]
<1>11. s # None => [filled EXCEPT !.type = Or(@, "pull_request")] = ExpectedStrategy(<<r, k>>)
  <2>. SUFFICES ASSUME s # None
                PROVE  [filled EXCEPT !.type = Or(@, "pull_request")] = ExpectedStrategy(<<r, k>>)
    OBVIOUS
  <2>1. filled # None /\ Typed(filled) = ExpectedStrategy(<<r, k>>)
    <3>1. CASE o = None
      <4>1. i # None /\ filled = strategies[StrategySource(r)]
        BY <1>3, <1>10, <3>1 DEF StrategyFrom
      <4>. QED
        BY <1>7, <1>9, <3>1, <4>1, TypedFacts
    <3>2. CASE o # None /\ i = None
      <4>1. filled = o
        BY <1>2, <1>6, <1>10, <3>2 DEF StrategyFrom
      <4>. QED
        BY <1>9, <3>2, <4>1
    <3>3. CASE o # None /\ i # None
      <4>1. filled = FillBlanks(o, strategies[StrategySource(r)])
        BY <1>2, <1>3, <1>4, <1>6, <3>3 DEF StrategyFrom
      <4>2. /\ FillBlanks(o, strategies[StrategySource(r)]) \in StrategyStruct
            /\ Typed(FillBlanks(o, strategies[StrategySource(r)])) = Typed(FillBlanks(o, i))
        BY <1>7, <1>9, <3>3, FilledFacts
      <4>. QED
        BY <1>9, <3>3, <4>1, <4>2, RulesConstants
    <3>. QED
      BY <3>1, <3>2, <3>3
  <2>. HIDE DEF filled
  <2>. QED
    BY <2>1 DEF Typed
<1>12. d # None => [deprecations[d] EXCEPT !.file = Or(@, "deprecated_examples.json")]
                     = ExpectedDeprecation(<<r, k>>)
  <2>. SUFFICES ASSUME d # None
                PROVE  [deprecations[d] EXCEPT !.file = Or(@, "deprecated_examples.json")]
                         = ExpectedDeprecation(<<r, k>>)
    OBVIOUS
  <2>1. deprecations[d] # None /\ WithFile(deprecations[d]) = ExpectedDeprecation(<<r, k>>)
    <3>1. CASE c = None
      BY <1>7, <1>9, <1>10, <3>1, WithFileFacts
    <3>2. CASE c # None
      BY <1>6, <1>9, <1>10, <3>2
    <3>. QED
      BY <3>1, <3>2
  <2>. QED
    BY <2>1 DEF WithFile
<1>13. strategies' = IF s = None THEN strategies
                     ELSE [strategies EXCEPT ![s] = ExpectedStrategy(<<r, k>>)]
  <2>1. strategies' = IF s = None THEN strategies
          ELSE [strategies EXCEPT ![s] = [filled EXCEPT !.type = Or(@, "pull_request")]]
    BY <1>5 DEF SetDefaults
  <2>. HIDE DEF filled, s
  <2>. QED
    BY <1>11, <2>1
<1>14. deprecations' = IF d = None THEN deprecations
                       ELSE [deprecations EXCEPT ![d] = ExpectedDeprecation(<<r, k>>)]
  <2>1. deprecations' = IF d = None THEN deprecations
          ELSE [deprecations EXCEPT ![d] =
                  [deprecations[d] EXCEPT !.file = Or(@, "deprecated_examples.json")]]
    BY <1>5 DEF SetDefaults
  <2>. HIDE DEF d
  <2>. QED
    BY <1>12, <2>1
<1>15. loaded' = [loaded EXCEPT ![index] = Final(at, index)]
  <2>. DEFINE x == IF w.exclude = {} THEN defaults.exclude ELSE w.exclude
  <2>1. loaded' = [loaded EXCEPT ![k] =
          WithSettings(w, Settled(w.strategy, defaults.strategy),
                       Settled(w.deprecation, defaults.deprecation), x)]
    BY DEF SetDefaults, WithSettings
  <2>2. x = ExpectedExclude(<<r, k>>)
    BY <1>2, <1>3 DEF ExpectedExclude
  <2>3. Final(at, index) = WithSettings(w, s, d, x)
    BY <1>2, <2>2 DEF Final
  <2>. HIDE DEF w, s, d, x
  <2>. QED
    BY <1>5, <2>1, <2>3
<1>. QED
  BY <1>1, <1>2, <1>13, <1>14, <1>15

(* Writing to a struct that others point to as well gives them what they   *)
(* have already, and a workflow that is not settled has a struct of its    *)
(* own.                                                                    *)
LEMMA SetDefaultsHeap == ASSUME RulesInv, SetDefaults PROVE HeapInv'
<1>. DEFINE r == at
            k == index
            s == StrategyOf(r, k)
            d == DeprecationOf(r, k)
            X == ExpectedStrategy(<<r, k>>)
            Y == ExpectedDeprecation(<<r, k>>)
<1>1. /\ r \in DOMAIN References /\ k \in DOMAIN Flows(r) /\ k \in Nat
      /\ strategies' = IF s = None THEN strategies ELSE [strategies EXCEPT ![s] = X]
      /\ deprecations' = IF d = None THEN deprecations ELSE [deprecations EXCEPT ![d] = Y]
  BY SettledAre
<1>2. main' = main /\ at' = at /\ index' = index + 1 /\ main \in Written /\ HeapInv
  BY DEF SetDefaults, RulesInv
<1>3. \A p \in DOMAIN References : \A q \in DOMAIN Flows(p) :
        /\ p \in Nat /\ p # 0 /\ q \in Nat /\ q # 0 /\ <<p, q>> \in Address
        /\ StrategySource(p)[2] = 0 /\ DeprecationSource(p)[2] = 0
        /\ StrategySource(p) \in Address /\ DeprecationSource(p) \in Address
  BY <1>2, Shape, Addresses, SourcesAre
<1>4. ASSUME NEW p \in DOMAIN References, NEW q \in DOMAIN Flows(p)
      PROVE  Through(p, q)' <=> Through(p, q) \/ <<p, q>> = <<r, k>>
  <2>1. p \in Nat /\ q \in Nat /\ r \in Nat /\ k \in Nat
    BY <1>1, <1>3
  <2>. QED
    BY <1>2, <2>1 DEF Through
<1>5. /\ X \in StrategyStruct \cup {None} /\ Y \in DeprecationStruct \cup {None}
      /\ X = None <=> s = None
      /\ StrategyAt(<<r, k>>) = None => X = Typed(StrategyAt(StrategySource(r)))
      /\ DeprecationAt(<<r, k>>) = None => Y = WithFile(DeprecationAt(DeprecationSource(r)))
      /\ Y = None <=> d = None
  <2>1. /\ X = IF StrategyAt(<<r, k>>) = None THEN Typed(StrategyAt(StrategySource(r)))
               ELSE IF StrategyAt(StrategySource(r)) = None THEN Typed(StrategyAt(<<r, k>>))
               ELSE Typed(FillBlanks(StrategyAt(<<r, k>>), StrategyAt(StrategySource(r))))
        /\ Y = IF DeprecationAt(<<r, k>>) = None THEN WithFile(DeprecationAt(DeprecationSource(r)))
               ELSE WithFile(DeprecationAt(<<r, k>>))
        /\ DeprecationAt(<<r, k>>) \in DeprecationStruct \cup {None}
        /\ DeprecationAt(DeprecationSource(r)) \in DeprecationStruct \cup {None}
        /\ X \in StrategyStruct \cup {None}
        /\ X = None <=> StrategyAt(<<r, k>>) = None /\ StrategyAt(StrategySource(r)) = None
    BY <1>1, <1>2, SettingsAre
  <2>2. Y \in DeprecationStruct \cup {None}
        /\ (Y = None <=>
              DeprecationAt(<<r, k>>) = None /\ DeprecationAt(DeprecationSource(r)) = None)
    BY <2>1, WithFileFacts
  <2>3. (s = None <=> StrategyAt(<<r, k>>) = None /\ StrategyAt(StrategySource(r)) = None)
        /\ (d = None <=>
              DeprecationAt(<<r, k>>) = None /\ DeprecationAt(DeprecationSource(r)) = None)
    BY <1>1, <1>2, PointersAre
  <2>. QED
    BY <2>1, <2>2, <2>3
<1>6. ASSUME NEW p \in DOMAIN References, NEW q \in DOMAIN Flows(p)
      PROVE  /\ \/ StrategyOf(p, q) = None
                \/ StrategyOf(p, q) = <<p, q>>
                \/ /\ StrategyAt(<<p, q>>) = None /\ StrategyOf(p, q) = StrategySource(p)
                   /\ ExpectedStrategy(<<p, q>>) = Typed(StrategyAt(StrategySource(p)))
             /\ \/ DeprecationOf(p, q) = None
                \/ DeprecationOf(p, q) = <<p, q>>
                \/ /\ DeprecationAt(<<p, q>>) = None /\ DeprecationOf(p, q) = DeprecationSource(p)
                   /\ ExpectedDeprecation(<<p, q>>) = WithFile(DeprecationAt(DeprecationSource(p)))
             /\ StrategyOf(p, q) \in Address \cup {None}
             /\ DeprecationOf(p, q) \in Address \cup {None}
  <2>1. /\ StrategyAt(<<p, q>>) = None
             => ExpectedStrategy(<<p, q>>) = Typed(StrategyAt(StrategySource(p)))
        /\ DeprecationAt(<<p, q>>) = None
             => ExpectedDeprecation(<<p, q>>) = WithFile(DeprecationAt(DeprecationSource(p)))
    BY <1>2, SettingsAre
  <2>. QED
    BY <1>2, <2>1, PointersAre
<1>. HIDE DEF r, k, s, d, X, Y
<1>7. /\ strategies' \in [Address -> StrategyStruct \cup {None}]
      /\ deprecations' \in [Address -> DeprecationStruct \cup {None}]
  BY <1>1, <1>2, <1>5 DEF HeapInv
<1>8. ASSUME NEW a \in Address, a[2] = 0
      PROVE  /\ strategies'[a] \in {StrategyAt(a), Typed(StrategyAt(a))}
             /\ deprecations'[a] \in {DeprecationAt(a), WithFile(DeprecationAt(a))}
  <2>1. <<r, k>> # a
    BY <1>1, <1>3, <1>8
  <2>. a # None
    BY <1>2, Addresses, WorkflowRulesAssumption DEF Place
  <2>2. s = a => X = Typed(StrategyAt(a))
    <3>1. \/ s = None \/ s = <<r, k>>
          \/ s = StrategySource(r) /\ X = Typed(StrategyAt(StrategySource(r)))
      BY <1>1, <1>6 DEF s, X
    <3>. QED
      BY <2>1, <3>1
  <2>3. d = a => Y = WithFile(DeprecationAt(a))
    <3>1. \/ d = None \/ d = <<r, k>>
          \/ d = DeprecationSource(r) /\ Y = WithFile(DeprecationAt(DeprecationSource(r)))
      BY <1>1, <1>6 DEF d, Y
    <3>. QED
      BY <2>1, <3>1
  <2>4. /\ strategies[a] \in {StrategyAt(a), Typed(StrategyAt(a))}
        /\ deprecations[a] \in {DeprecationAt(a), WithFile(DeprecationAt(a))}
    BY <1>2, <1>8 DEF HeapInv
  <2>5. strategies'[a] = IF s = a /\ s # None THEN X ELSE strategies[a]
    BY <1>1, <1>2 DEF HeapInv
  <2>6. deprecations'[a] = IF d = a /\ d # None THEN Y ELSE deprecations[a]
    BY <1>1, <1>2 DEF HeapInv
  <2>. QED
    BY <2>2, <2>3, <2>4, <2>5, <2>6
<1>9. ASSUME NEW p \in DOMAIN References, NEW q \in DOMAIN Flows(p), Through(p, q)'
      PROVE  /\ Deref(strategies', StrategyOf(p, q)) = ExpectedStrategy(<<p, q>>)
             /\ Deref(deprecations', DeprecationOf(p, q)) = ExpectedDeprecation(<<p, q>>)
  <2>1. CASE <<p, q>> = <<r, k>>
    <3>1. StrategyOf(p, q) = s /\ DeprecationOf(p, q) = d
      BY <2>1 DEF s, d
    <3>2. ExpectedStrategy(<<p, q>>) = X /\ ExpectedDeprecation(<<p, q>>) = Y
      BY <2>1 DEF X, Y
    <3>3. s # None => strategies'[s] = X
      BY <1>1, <1>2, <1>6, <3>1 DEF HeapInv
    <3>4. d # None => deprecations'[d] = Y
      BY <1>1, <1>2, <1>6, <3>1 DEF HeapInv
    <3>. QED
      BY <1>5, <3>1, <3>2, <3>3, <3>4 DEF Deref
  <2>2. CASE <<p, q>> # <<r, k>>
    <3>1. /\ Deref(strategies, StrategyOf(p, q)) = ExpectedStrategy(<<p, q>>)
          /\ Deref(deprecations, DeprecationOf(p, q)) = ExpectedDeprecation(<<p, q>>)
      <4>1. Through(p, q)
        BY <1>4, <1>9, <2>2
      <4>. QED
        BY <1>2, <4>1 DEF HeapInv
    <3>2. StrategyOf(p, q) = s /\ s # None => ExpectedStrategy(<<p, q>>) = X
      BY <1>1, <1>3, <1>5, <1>6, <2>2 DEF s
    <3>3. DeprecationOf(p, q) = d /\ d # None => ExpectedDeprecation(<<p, q>>) = Y
      BY <1>1, <1>3, <1>5, <1>6, <2>2 DEF d
    <3>4. Deref(strategies', StrategyOf(p, q)) = ExpectedStrategy(<<p, q>>)
      <4>1. StrategyOf(p, q) # None => strategies'[StrategyOf(p, q)] =
              IF s = StrategyOf(p, q) THEN X ELSE strategies[StrategyOf(p, q)]
        BY <1>1, <1>2, <1>6 DEF HeapInv
      <4>. QED
        BY <3>1, <3>2, <4>1 DEF Deref
    <3>5. Deref(deprecations', DeprecationOf(p, q)) = ExpectedDeprecation(<<p, q>>)
      <4>1. DeprecationOf(p, q) # None => deprecations'[DeprecationOf(p, q)] =
              IF d = DeprecationOf(p, q) THEN Y ELSE deprecations[DeprecationOf(p, q)]
        BY <1>1, <1>2, <1>6 DEF HeapInv
      <4>. QED
        BY <3>1, <3>3, <4>1 DEF Deref
    <3>. QED
      BY <3>4, <3>5
  <2>. QED
    BY <2>1, <2>2
<1>10. ASSUME NEW p \in DOMAIN References, NEW q \in DOMAIN Flows(p), ~ Through(p, q)'
       PROVE  /\ strategies'[<<p, q>>] = StrategyAt(<<p, q>>)
              /\ deprecations'[<<p, q>>] = DeprecationAt(<<p, q>>)
  <2>1. ~ Through(p, q) /\ <<p, q>> # <<r, k>>
    BY <1>4, <1>10
  <2>2. /\ strategies[<<p, q>>] = StrategyAt(<<p, q>>)
        /\ deprecations[<<p, q>>] = DeprecationAt(<<p, q>>)
    BY <1>2, <2>1 DEF HeapInv
  <2>3. s # <<p, q>> /\ d # <<p, q>>
    <3>1. s \in {None, <<r, k>>, StrategySource(r)} /\ d \in {None, <<r, k>>, DeprecationSource(r)}
      BY <1>1, <1>6 DEF s, d
    <3>2. <<p, q>> # None /\ <<p, q>>[2] # 0
      BY <1>3, RulesConstants
    <3>. QED
      BY <1>1, <1>3, <2>1, <3>1, <3>2
  <2>. QED
    BY <1>1, <1>2, <1>3, <2>2, <2>3 DEF HeapInv
<1>11. \A p, q : /\ Deref(strategies, StrategyOf(p, q))' = Deref(strategies', StrategyOf(p, q))
                 /\ Deref(deprecations, DeprecationOf(p, q))'
                      = Deref(deprecations', DeprecationOf(p, q))
  BY <1>2, Unchanging DEF Deref
<1>12. \A a : /\ Typed(StrategyAt(a))' = Typed(StrategyAt(a))
              /\ WithFile(DeprecationAt(a))' = WithFile(DeprecationAt(a))
  BY <1>2, Unchanging DEF Typed, WithFile
<1>13. References' = References /\ Address' = Address
       /\ \A p : Flows(p)' = Flows(p)
       /\ \A a : StrategyAt(a)' = StrategyAt(a) /\ DeprecationAt(a)' = DeprecationAt(a)
                /\ ExpectedStrategy(a)' = ExpectedStrategy(a)
                /\ ExpectedDeprecation(a)' = ExpectedDeprecation(a)
  BY <1>2, Unchanging
<1>. QED
  BY <1>7, <1>8, <1>9, <1>10, <1>11, <1>12, <1>13 DEF HeapInv

LEMMA SetDefaultsStep == ASSUME RulesInv, SetDefaults PROVE RulesInv'
<1>1. /\ at \in DOMAIN References /\ index \in DOMAIN Flows(at) /\ index \in Nat
      /\ loaded' = [loaded EXCEPT ![index] = Final(at, index)]
  BY SettledAre
<1>2. /\ main' = main /\ at' = at /\ index' = index + 1 /\ stage' = stage /\ stage = "resolve"
      /\ defaults' = defaults /\ workflows' = workflows /\ index \in DOMAIN loaded
      /\ main \in Written /\ main' \in Written /\ ReferenceInv
  BY DEF SetDefaults, RulesInv
<1>3. HeapInv'
  BY SetDefaultsHeap
<1>4. ReferenceInv'
  <2>1. /\ loaded \in Seq(Flow) /\ Len(loaded) = Len(Flows(at)) /\ index # 0
        /\ at \in 1 .. Len(References) + 1
        /\ \A k \in DOMAIN loaded : loaded[k] = IF k < index THEN Final(at, k) ELSE Unfilled(at, k)
        /\ defaults = DefaultsOf(at)
    BY <1>2 DEF ReferenceInv
  <2>2. Final(at, index) \in Flow
    BY <1>1, <1>2, FinalFlows
  <2>3. /\ loaded' \in Seq(Flow) /\ Len(loaded') = Len(loaded) /\ DOMAIN loaded' = DOMAIN loaded
        /\ index' \in 0 .. Len(loaded') + 1 /\ index' # 0
    BY <1>1, <1>2, <2>1, <2>2
  <2>4. ASSUME NEW k \in DOMAIN loaded'
        PROVE  loaded'[k] = IF k < index' THEN Final(at, k)' ELSE Unfilled(at, k)'
    <3>1. Final(at, k)' = Final(at, k) /\ Unfilled(at, k)' = Unfilled(at, k)
      BY <1>2, Unchanging DEF Final, Unfilled
    <3>2. k \in DOMAIN loaded /\ k \in Nat
      BY <2>1, <2>3
    <3>3. loaded'[k] = IF k = index THEN Final(at, index) ELSE loaded[k]
      BY <1>1, <2>1, <3>2
    <3>. QED
      BY <1>1, <1>2, <2>1, <3>1, <3>2, <3>3
  <2>5. defaults' = DefaultsOf(at)'
    BY <1>2, <2>1, Unchanging DEF DefaultsOf
  <2>6. Flows(at)' = Flows(at) /\ References' = References
    BY <1>2, Unchanging DEF Flows
  <2>. QED
    BY <1>1, <1>2, <2>1, <2>3, <2>4, <2>5, <2>6 DEF ReferenceInv
<1>5. MergedInv'
  BY <1>2, SameMerged
<1>6. StageInv'
  BY <1>2 DEF StageInv
<1>. QED
  BY <1>2, <1>3, <1>4, <1>5, <1>6 DEF RulesInv

(* A concatenation holds what its parts hold, and nothing else.            *)
LEMMA Concatenation ==
  ASSUME NEW S, NEW u \in Seq(S), NEW v \in Seq(S)
  PROVE  /\ u \o v \in Seq(S)
         /\ \A i \in DOMAIN (u \o v) :
              \/ i \in DOMAIN u /\ (u \o v)[i] = u[i]
              \/ i - Len(u) \in DOMAIN v /\ (u \o v)[i] = v[i - Len(u)]
         /\ \A i \in DOMAIN u : i \in DOMAIN (u \o v) /\ (u \o v)[i] = u[i]
         /\ \A i \in DOMAIN v : Len(u) + i \in DOMAIN (u \o v) /\ (u \o v)[Len(u) + i] = v[i]
  OBVIOUS

LEMMA MergeStep == ASSUME RulesInv, Merge PROVE RulesInv'
<1>1. /\ stage = "resolve" /\ stage' = stage /\ index = Len(loaded) + 1
      /\ at' = at + 1 /\ loaded' = <<>> /\ index' = 0
      /\ main' = main /\ strategies' = strategies /\ deprecations' = deprecations
  BY DEF Merge, NextReference
<1>2. main \in Written /\ main' \in Written
  BY <1>1 DEF RulesInv
<1>3. /\ loaded \in Seq(Flow) /\ workflows \in Seq(Flow) /\ index # 0
      /\ at \in DOMAIN References /\ Len(loaded) = Len(Flows(at))
      /\ DOMAIN loaded = DOMAIN Flows(at)
      /\ \A k \in DOMAIN loaded : loaded[k] = Final(at, k)
  <2>1. loaded \in Seq(Flow) /\ workflows \in Seq(Flow) /\ index # 0
    BY <1>1 DEF RulesInv, ReferenceInv, MergedInv
  <2>2. /\ at \in DOMAIN References /\ Len(loaded) = Len(Flows(at))
        /\ \A k \in DOMAIN loaded : loaded[k] = IF k < index THEN Final(at, k) ELSE Unfilled(at, k)
    BY <2>1 DEF RulesInv, ReferenceInv
  <2>3. \A k \in DOMAIN loaded : k < index
    BY <1>1, <2>1
  <2>4. DOMAIN loaded = DOMAIN Flows(at)
    BY <1>2, <2>1, <2>2, Shape
  <2>. QED
    BY <2>1, <2>2, <2>3, <2>4
<1>4. \A r \in DOMAIN References : \A k \in DOMAIN Flows(r) :
        k \in Nat /\ k # 0 /\ r \in Nat /\ (r = at => k < index)
  BY <1>1, <1>2, <1>3, Shape
<1>5. HeapInv'
  <2>1. ASSUME NEW r \in DOMAIN References, NEW k \in DOMAIN Flows(r)
        PROVE  Through(r, k)' <=> Through(r, k)
    BY <1>1, <1>3, <1>4 DEF Through
  <2>. QED
    BY <1>1, <2>1, SameHeap
<1>6. ReferenceInv'
  <2>1. at + 1 \in 1 .. Len(References) + 1
    BY <1>2, <1>3, Shape
  <2>2. loaded' \in Seq(Flow) /\ index' \in 0 .. Len(loaded') + 1
    BY <1>1
  <2>. QED
    BY <1>1, <2>1, <2>2, Unchanging DEF ReferenceInv
<1>7. workflows' = IF Good(at) THEN workflows \o loaded ELSE workflows
  <2>1. loaded # <<>> <=> Flows(at) # <<>>
    BY <1>2, <1>3, Shape
  <2>2. ASSUME NEW k \in DOMAIN loaded
        PROVE  Valid(loaded[k], TypeOf(loaded[k])) <=>
                 LET s == ExpectedStrategy(<<at, k>>)
                 IN  Valid(Unfilled(at, k), IF s = None THEN "" ELSE s.type)
    <3>1. Through(at, k) /\ k \in DOMAIN Flows(at) /\ loaded[k] = Final(at, k)
      BY <1>3, <1>4 DEF Through
    <3>. QED
      BY <1>3, <3>1, ThroughAndValid
  <2>3. Good(at) <=> loaded # <<>> /\ \A k \in DOMAIN loaded : Valid(loaded[k], TypeOf(loaded[k]))
    BY <1>3, <2>1, <2>2 DEF Good, Flows, Unfilled
  <2>. QED
    BY <2>3 DEF Merge
<1>8. MergedInv'
  <2>1. /\ \A i \in DOMAIN workflows :
             \E r \in DOMAIN References : \E k \in DOMAIN Flows(r) :
               r < at /\ Good(r) /\ workflows[i] = Final(r, k)
        /\ \A r \in DOMAIN References : r < at /\ Good(r) =>
             \A k \in DOMAIN Flows(r) : \E i \in DOMAIN workflows : workflows[i] = Final(r, k)
    BY DEF RulesInv, MergedInv
  <2>2. workflows' \in Seq(Flow)
    BY <1>3, <1>7, Concatenation
  <2>3. ASSUME NEW i \in DOMAIN workflows'
        PROVE  \E r \in DOMAIN References : \E k \in DOMAIN Flows(r) :
                 r < at + 1 /\ Good(r) /\ workflows'[i] = Final(r, k)
    <3>1. CASE i \in DOMAIN workflows /\ workflows'[i] = workflows[i]
      <4>1. \A r \in DOMAIN References : r < at => r < at + 1
        BY <1>2, <1>3, Shape
      <4>. QED
        BY <2>1, <3>1, <4>1
    <3>2. CASE /\ Good(at) /\ i - Len(workflows) \in DOMAIN loaded
               /\ workflows'[i] = loaded[i - Len(workflows)]
      BY <1>3, <1>4, <3>2
    <3>. QED
      BY <1>3, <1>7, <3>1, <3>2, Concatenation
  <2>4. ASSUME NEW r \in DOMAIN References, r < at + 1, Good(r), NEW k \in DOMAIN Flows(r)
        PROVE  \E i \in DOMAIN workflows' : workflows'[i] = Final(r, k)
    <3>1. CASE r < at
      <4>1. PICK i \in DOMAIN workflows : workflows[i] = Final(r, k)
        BY <2>1, <2>4, <3>1
      <4>2. i \in DOMAIN workflows' /\ workflows'[i] = workflows[i]
        BY <1>3, <1>7, Concatenation
      <4>. QED
        BY <4>1, <4>2
    <3>2. CASE r = at
      <4>1. k \in DOMAIN loaded /\ loaded[k] = Final(r, k) /\ workflows' = workflows \o loaded
        BY <1>3, <1>7, <2>4, <3>2
      <4>2. Len(workflows) + k \in DOMAIN workflows' /\ workflows'[Len(workflows) + k] = loaded[k]
        BY <1>3, <4>1, Concatenation
      <4>. QED
        BY <4>1, <4>2
    <3>3. r < at \/ r = at
      BY <1>2, <1>3, <2>4, Shape
    <3>. QED
      BY <3>1, <3>2, <3>3
  <2>5. References' = References /\ \A r : Flows(r)' = Flows(r) /\ Good(r)' = Good(r)
        /\ \A k : Final(r, k)' = Final(r, k)
    BY <1>1, Unchanging
  <2>. QED
    BY <1>1, <2>2, <2>3, <2>4, <2>5 DEF MergedInv
<1>9. StageInv'
  BY <1>1 DEF StageInv
<1>. QED
  BY <1>2, <1>5, <1>6, <1>8, <1>9 DEF RulesInv

LEMMA ValidateMergedStep == ASSUME RulesInv, ValidateMerged PROVE RulesInv'
<1>1. /\ stage = "resolve" /\ at = Len(References) + 1 /\ stage' \in {"merged", "failed"}
      /\ main' = main /\ strategies' = strategies /\ deprecations' = deprecations /\ at' = at
      /\ loaded' = loaded /\ defaults' = defaults /\ index' = index /\ workflows' = workflows
  BY DEF ValidateMerged
<1>2. main \in Written /\ main' \in Written
  BY <1>1 DEF RulesInv
<1>3. HeapInv'
  BY <1>1, SameHeap DEF Through
<1>4. ReferenceInv'
  <2>1. ReferenceInv /\ index = 0
    BY <1>1, <1>2, Shape DEF RulesInv, ReferenceInv
  <2>. QED
    BY <1>1, <2>1, Unchanging DEF ReferenceInv
<1>5. MergedInv'
  BY <1>1, SameMerged
<1>6. ASSUME NEW i \in DOMAIN workflows PROVE Valid(workflows[i], TypeOf(workflows[i]))
  <2>1. PICK r \in DOMAIN References : \E k \in DOMAIN Flows(r) :
          r < at /\ Good(r) /\ workflows[i] = Final(r, k)
    BY DEF RulesInv, MergedInv
  <2>2. PICK k \in DOMAIN Flows(r) : r < at /\ Good(r) /\ workflows[i] = Final(r, k)
    BY <2>1
  <2>3. Through(r, k)
    BY <2>2 DEF Through
  <2>4. LET s == ExpectedStrategy(<<r, k>>)
        IN  Valid(Unfilled(r, k), IF s = None THEN "" ELSE s.type)
    BY <2>2 DEF Good, Unfilled, Flows
  <2>. QED
    BY <2>2, <2>3, <2>4, ThroughAndValid
<1>7. ASSUME stage' = "failed", NEW r \in DOMAIN References PROVE ~ Good(r)
  <2>1. workflows = <<>>
    BY <1>6, <1>7 DEF ValidateMerged
  <2>2. SUFFICES ASSUME Good(r) PROVE FALSE
    OBVIOUS
  <2>3. Flows(r) # <<>> /\ r < at
    <3>1. Flows(r) # <<>>
      BY <2>2 DEF Good, Flows
    <3>2. r < at
      BY <1>1, <1>2, Shape
    <3>. QED
      BY <3>1, <3>2
  <2>4. 1 \in DOMAIN Flows(r)
    BY <1>2, <2>3, Shape
  <2>5. \E i \in DOMAIN workflows : workflows[i] = Final(r, 1)
    BY <2>2, <2>3, <2>4 DEF RulesInv, MergedInv
  <2>. QED
    BY <2>1, <2>5
<1>8. StageInv'
  BY <1>1, <1>7, Unchanging DEF StageInv
<1>. QED
  BY <1>2, <1>3, <1>4, <1>5, <1>8 DEF RulesInv

LEMMA UnchangedRules == ASSUME RulesInv, UNCHANGED rulesVars PROVE RulesInv'
<1>1. /\ main' = main /\ strategies' = strategies /\ deprecations' = deprecations /\ at' = at
      /\ loaded' = loaded /\ defaults' = defaults /\ index' = index /\ workflows' = workflows
      /\ stage' = stage
  BY DEF rulesVars
<1>2. HeapInv'
  BY <1>1, SameHeap DEF Through
<1>3. MergedInv'
  BY <1>1, SameMerged
<1>4. ReferenceInv'
  <2>1. DefaultsOf(at)' = DefaultsOf(at)
    BY <1>1, Unchanging DEF DefaultsOf
  <2>2. /\ References' = References /\ Flows(at)' = Flows(at)
        /\ \A k : Final(at, k)' = Final(at, k) /\ Unfilled(at, k)' = Unfilled(at, k)
    BY <1>1, Unchanging DEF Flows, Final, Unfilled
  <2>. QED
    BY <1>1, <2>1, <2>2 DEF RulesInv, ReferenceInv
<1>5. StageInv'
  BY <1>1, Unchanging DEF RulesInv, StageInv
<1>6. main' \in Written
  BY <1>1 DEF RulesInv
<1>. QED
  BY <1>2, <1>3, <1>4, <1>5, <1>6 DEF RulesInv

(* The steps taken together.                                               *)
LEMMA RulesInvariant == RulesSpec => []RulesInv
<1>1. RulesInv /\ [RulesNext]_rulesVars => RulesInv'
  BY ValidateStep, LoadStep, SetDefaultsStep, MergeStep, ValidateMergedStep, UnchangedRules
  DEF RulesNext
<1>. QED
  BY <1>1, RulesInitInv, PTL DEF RulesSpec

(* Every merged workflow keeps the strategy, the deprecation check and the *)
(* excludes that its own file and the main one say, though SetDefaults     *)
(* writes to structs other workflows point to (types/config.go).           *)
THEOREM SettingsFollow == RulesSpec => []SettingsAsWritten
<1>. QED
  BY RulesInvariant, RulesInvSettings, PTL

(* The merged workflows are those of the references whose workflows are    *)
(* all valid, and loading fails only for an invalid inline workflow or     *)
(* for want of any good reference (resolveWorkflowReferences).             *)
THEOREM OnlyItselfIsLost == RulesSpec => []InvalidCostsOnlyItself
<1>. QED
  BY RulesInvariant, RulesInvCosts, PTL

(* A changed file goes where the first rule that is about it puts it in    *)
(* the directory tree, whatever the spelling of the rule's directories,    *)
(* and stays behind only if it is excluded, a rule fails for it or no rule *)
(* is about it (matchFile, applyMoveTransformation).                       *)
THEOREM FilesLand == RulesSpec => []FilesLandInPlace
<1>. QED
  BY RulesInvariant, RulesInvLands, PTL

===============================================================================

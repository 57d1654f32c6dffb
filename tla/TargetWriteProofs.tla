--------------------------- MODULE TargetWriteProofs ---------------------------
(***************************************************************************)
(* TargetWrite for any uploads, files and repository: it is well typed,    *)
(* the target branch only ever grows, pull requests lose their branches    *)
(* to twins only, what is reported ok is in the target branch, and what is *)
(* left for review is proposed.                                            *)
(***************************************************************************)
EXTENDS TargetWrite, TLAPS

(* Histories are transitively closed: whoever moves a branch to a commit   *)
(* with the old head in its history keeps all that the old head had.       *)
HistoriesClosed ==
  \A c \in CommitID :
    /\ c \in History(c)
    /\ History(c) \subseteq CommitID
    /\ \A d \in History(c) : History(d) \subseteq History(c)

(* Where an upload stands, it works on a temporary branch (unless it       *)
(* commits directly), has read a head, and knows its pull request.         *)
OnTempBranch == {"base", "stale", "create", "discard", "open", "poll", "merge", "cleanup"}

Ready ==
  \A u \in UploadID :
    /\ pc[u] \in OnTempBranch => branch[u] \in Second
    /\ pc[u] \in {"read", "push"} /\ Strategy[u] # "direct" => branch[u] \in Second
    /\ pc[u] \in {"stale", "create", "push"} => parent[u] # None
    /\ pc[u] \in {"poll", "merge"} => target(u) # 0

IInv == TypeOK /\ HistoriesClosed /\ Ready

(* What a step does to the repository: it stays well formed, and neither   *)
(* commits, nor pull requests, nor the history of the target are lost.     *)
Advance ==
  /\ RepoType' /\ HistoriesClosed'
  /\ History(refs[Base]) \subseteq History(refs[Base])'
  /\ CommitID \subseteq CommitID'
  /\ DOMAIN prs \subseteq DOMAIN prs'

(* Pull requests are closed or stay as they are.                           *)
Closing ==
  /\ prs' \in Seq(PRType)
  /\ DOMAIN prs' = DOMAIN prs
  /\ \A n \in OpenPRs' : n \in OpenPRs /\ prs'[n].head = prs[n].head

-----------------------------------------------------------------------------
(* Constants and commits.                                                  *)

(* Second 0 does not exist: it stands for the target branch.               *)
LEMMA BranchFacts ==
  /\ Base \in Branch /\ Base \notin Second /\ Second \subseteq Branch
  /\ 1 \in Second
  BY TargetWriteAssumption DEF Base, Branch, Second

LEMMA TreeType ==
  ASSUME RepoType, NEW c \in CommitID
  PROVE  TreeOf(c) \in [Path -> Version]
<1>1. commits \in Seq(CommitType) /\ c \in DOMAIN commits
  BY DEF RepoType, CommitID
<1>2. commits[c] \in CommitType
  BY <1>1
<1> QED
  BY <1>2 DEF CommitType, TreeOf

(* Open pull requests have a temporary branch.                             *)
LEMMA OpenHead ==
  ASSUME RepoType, NEW n \in OpenPRs
  PROVE  /\ prs[n].head \in Second /\ prs[n].head \in Branch
         /\ refs[prs[n].head] \in CommitID
<1>1. prs \in Seq(PRType) /\ n \in DOMAIN prs
  BY DEF RepoType, OpenPRs
<1>2. prs[n] \in PRType
  BY <1>1
<1>3. prs[n].head \in Second /\ prs[n].head \in Branch
  BY <1>2, BranchFacts DEF PRType
<1> QED
  BY <1>3 DEF RepoType

(* The tree an upload commits is a tree.                                   *)
LEMMA NewTreeType ==
  ASSUME RepoType, NEW u \in UploadID, NEW c \in CommitID
  PROVE  NewTree(u, c) \in [Path -> Version]
<1>1. Content \in [UploadID -> Version]
  BY TargetWriteAssumption, Zenon
<1>2. TreeOf(c) \in [Path -> Version]
  BY TreeType
<1> QED
  BY <1>1, <1>2 DEF NewTree

(* So is the tree of a merge.                                              *)
LEMMA MergedType ==
  ASSUME RepoType, NEW h \in CommitID, NEW b \in CommitID
  PROVE  Merged(h, b) \in [Path -> Version]
<1>1. TreeOf(h) \in [Path -> Version] /\ TreeOf(b) \in [Path -> Version]
  BY TreeType
<1> QED
  BY <1>1 DEF Merged

(* A new commit leaves the old ones alone, and histories stay closed.      *)
LEMMA NewCommit ==
  ASSUME RepoType, HistoriesClosed,
         NEW tree \in [Path -> Version], NEW parents \in SUBSET CommitID,
         NEW id, id = Len(commits) + 1,
         commits' = Append(commits, Commit(tree, parents))
  PROVE  /\ commits' # << >> /\ commits' \in Seq(CommitType)
         /\ CommitID' = CommitID \cup {id}
         /\ \A c \in CommitID : History(c)' = History(c)
         /\ History(id)' = Commit(tree, parents).history
         /\ HistoriesClosed'
<1>0. PICK new : new = Commit(tree, parents)
  OBVIOUS
<1>1. commits \in Seq(CommitType) /\ Len(commits) \in Nat /\ CommitID = 1 .. Len(commits)
  BY DEF RepoType, CommitID
<1>2. \A c \in CommitID : History(c) \in SUBSET CommitID
  BY DEF HistoriesClosed
<1>3. new.history = {id} \cup UNION {History(c) : c \in parents} /\ new.tree = tree
  BY <1>0 DEF Commit
<1>4. new.history \subseteq CommitID \cup {id} /\ new.history \in SUBSET Nat
  BY <1>1, <1>2, <1>3
<1>5. new \in CommitType
  BY <1>0, <1>3, <1>4 DEF Commit, CommitType
<1>6. commits' # << >> /\ commits' \in Seq(CommitType)
  BY <1>0, <1>1, <1>5
<1>7. CommitID' = CommitID \cup {id}
  BY <1>0, <1>1, <1>5 DEF CommitID
<1>8. \A c \in CommitID : History(c)' = History(c)
  BY <1>0, <1>1, <1>5 DEF History
<1>9. History(id)' = new.history
  BY <1>0, <1>1, <1>5 DEF History
<1>10. HistoriesClosed'
  <2> SUFFICES ASSUME NEW c \in CommitID'
               PROVE  /\ c \in History(c)'
                      /\ History(c)' \subseteq CommitID'
                      /\ \A d \in History(c)' : History(d)' \subseteq History(c)'
    BY DEF HistoriesClosed
  <2>1. CASE c \in CommitID
    BY <2>1, <1>2, <1>7, <1>8 DEF HistoriesClosed
  <2>2. CASE c = id
    <3>1. c \in History(c)' /\ History(c)' \subseteq CommitID'
      BY <2>2, <1>3, <1>4, <1>7, <1>9
    <3>2. ASSUME NEW d \in History(c)', d # id PROVE History(d)' \subseteq History(c)'
      <4>1. PICK p \in parents : d \in History(p)
        BY <3>2, <2>2, <1>3, <1>9
      <4>2. d \in CommitID /\ History(d) \subseteq History(p)
        BY <4>1, <1>2 DEF HistoriesClosed
      <4> QED
        BY <4>1, <4>2, <2>2, <1>3, <1>8, <1>9
    <3> QED
      BY <2>2, <3>1, <3>2
  <2> QED
    BY <2>1, <2>2, <1>7
<1> QED
  BY <1>0, <1>6, <1>7, <1>8, <1>9, <1>10

-----------------------------------------------------------------------------
(* The operations on the repository.                                       *)

LEMMA NothingAdvances ==
  ASSUME RepoType, HistoriesClosed, UNCHANGED repo
  PROVE  Advance
<1>1. commits' = commits /\ refs' = refs /\ prs' = prs
  BY DEF repo
<1> QED
  BY <1>1 DEF Advance, RepoType, HistoriesClosed, History, CommitID, OpenPRs

(* A commit put on a branch that is in its history.                        *)
LEMMA PushAdvances ==
  ASSUME RepoType, HistoriesClosed,
         NEW tree \in [Path -> Version], NEW parents \in SUBSET CommitID,
         NEW b \in Branch, refs[b] \in Commit(tree, parents).history,
         NEW id, id = Len(commits) + 1,
         commits' = Append(commits, Commit(tree, parents)),
         refs' = [refs EXCEPT ![b] = id],
         Closing
  PROVE  Advance
<1>1. /\ commits' # << >> /\ commits' \in Seq(CommitType)
      /\ CommitID' = CommitID \cup {id}
      /\ \A c \in CommitID : History(c)' = History(c)
      /\ History(id)' = Commit(tree, parents).history
      /\ HistoriesClosed'
  BY NewCommit
<1>2. id # None
  BY DEF None, RepoType
<1>3. RepoType'
  <2>1. refs' \in [Branch -> CommitID' \cup {None}]
    BY <1>1 DEF RepoType
  <2>2. refs'[Base] # None
    BY <1>2, BranchFacts DEF RepoType
  <2>3. \A n \in OpenPRs' : refs'[prs'[n].head] # None
    <3> SUFFICES ASSUME NEW n \in OpenPRs' PROVE refs'[prs'[n].head] # None
      OBVIOUS
    <3>1. n \in OpenPRs /\ prs'[n].head = prs[n].head
      BY DEF Closing
    <3>2. prs[n].head \in Branch
      BY <3>1, OpenHead
    <3> QED
      BY <1>2, <3>1, <3>2 DEF RepoType
  <2> QED
    BY <1>1, <2>1, <2>2, <2>3 DEF RepoType, Closing
<1>4. refs[Base] \in CommitID
  BY BranchFacts DEF RepoType
<1>5. History(refs[Base]) \subseteq History(refs[Base])'
  <2>1. CASE b = Base
    <3>1. refs'[Base] = id
      BY <2>1, BranchFacts DEF RepoType
    <3>2. History(refs[Base])' = History(id)'
      BY <3>1 DEF History
    <3>3. PICK h \in CommitID : h = refs[Base]
      BY <1>4
    <3>4. h \in History(id)'
      BY <3>3, <2>1, <1>1
    <3>5. History(h)' \subseteq History(id)'
      BY <3>4, <1>1 DEF HistoriesClosed
    <3>6. History(h)' = History(refs[Base])
      BY <3>3, <1>1
    <3> QED
      BY <3>2, <3>5, <3>6
  <2>2. CASE b # Base
    <3>1. refs'[Base] = refs[Base]
      BY <2>2, BranchFacts DEF RepoType
    <3> QED
      BY <3>1, <1>1, <1>4 DEF History
  <2> QED
    BY <2>1, <2>2
<1> QED
  BY <1>1, <1>3, <1>5 DEF Advance, Closing

(* A commit that no branch gets.                                           *)
LEMMA DanglingAdvances ==
  ASSUME RepoType, HistoriesClosed,
         NEW tree \in [Path -> Version], NEW parents \in SUBSET CommitID,
         commits' = Append(commits, Commit(tree, parents)),
         refs' = refs, prs' = prs
  PROVE  Advance
<1>0. PICK id : id = Len(commits) + 1
  OBVIOUS
<1>1. /\ commits' # << >> /\ commits' \in Seq(CommitType)
      /\ CommitID' = CommitID \cup {id}
      /\ \A c \in CommitID : History(c)' = History(c)
      /\ HistoriesClosed'
  BY <1>0, NewCommit
<1>2. RepoType'
  BY <1>1 DEF RepoType, OpenPRs
<1>3. refs[Base] \in CommitID
  BY BranchFacts DEF RepoType
<1>4. History(refs[Base])' = History(refs[Base])
  <2>1. PICK h \in CommitID : h = refs[Base]
    BY <1>3
  <2>2. History(h)' = History(h)
    BY <1>1
  <2> QED
    BY <2>1, <2>2 DEF History
<1> QED
  BY <1>1, <1>2, <1>4 DEF Advance

(* Changes to branches other than the target, and to pull requests.        *)
LEMMA BranchesAdvance ==
  ASSUME RepoType, HistoriesClosed, commits' = commits,
         refs' \in [Branch -> CommitID \cup {None}], refs'[Base] = refs[Base],
         prs' \in Seq(PRType), DOMAIN prs \subseteq DOMAIN prs',
         \A n \in OpenPRs' : refs'[prs'[n].head] # None
  PROVE  Advance
<1>1. CommitID' = CommitID /\ HistoriesClosed'
  BY DEF CommitID, HistoriesClosed, History
<1>2. RepoType'
  BY <1>1 DEF RepoType
<1>3. History(refs[Base])' = History(refs[Base])
  BY DEF History
<1> QED
  BY <1>1, <1>2, <1>3 DEF Advance

LEMMA DeleteAdvances ==
  ASSUME RepoType, HistoriesClosed, NEW b \in Second, DeleteRef(b)
  PROVE  Advance
<1>1. prs \in Seq(PRType) /\ prs' = PRsWithout(b)
  BY DEF RepoType, DeleteRef
<1>2. prs' \in Seq(PRType) /\ DOMAIN prs' = DOMAIN prs
  <2>1. \A n \in DOMAIN prs : prs[n] \in PRType
    BY <1>1
  <2>2. DOMAIN prs = 1 .. Len(prs) /\ Len(prs) \in Nat
    BY <1>1
  <2>3. \A n \in DOMAIN prs : PRsWithout(b)[n] \in PRType
    BY <2>1 DEF PRsWithout, PRType
  <2>4. DOMAIN PRsWithout(b) = 1 .. Len(prs)
    BY <2>2 DEF PRsWithout
  <2>5. PRsWithout(b) = [n \in 1 .. Len(prs) |-> PRsWithout(b)[n]]
    BY <2>2 DEF PRsWithout
  <2> QED
    BY <1>1, <2>2, <2>3, <2>4, <2>5
<1>3. \A n \in OpenPRs' : n \in OpenPRs /\ prs'[n] = prs[n] /\ prs[n].head # b
  BY <1>1, <1>2 DEF OpenPRs, PRsWithout, PRType
<1>4. refs' \in [Branch -> CommitID \cup {None}] /\ refs'[Base] = refs[Base]
  BY BranchFacts DEF RepoType, DeleteRef
<1>5. \A n \in OpenPRs' : refs'[prs'[n].head] # None
  <2> SUFFICES ASSUME NEW n \in OpenPRs' PROVE refs'[prs'[n].head] # None
    OBVIOUS
  <2>1. n \in OpenPRs /\ prs'[n] = prs[n] /\ prs[n].head # b
    BY <1>3
  <2>2. refs[prs[n].head] # None /\ prs[n].head \in Branch
    BY <2>1, OpenHead DEF RepoType
  <2> QED
    BY <2>1, <2>2 DEF DeleteRef, RepoType
<1> QED
  BY <1>2, <1>4, <1>5, BranchesAdvance DEF DeleteRef

LEMMA CreateAdvances ==
  ASSUME RepoType, HistoriesClosed, NEW b \in Second, NEW c \in CommitID,
         refs' = [refs EXCEPT ![b] = c], commits' = commits, prs' = prs
  PROVE  Advance
<1>1. c # None
  BY DEF CommitID, None, RepoType
<1>2. refs' \in [Branch -> CommitID \cup {None}] /\ refs'[Base] = refs[Base]
  BY BranchFacts DEF RepoType
<1>3. \A n \in OpenPRs' : refs'[prs'[n].head] # None
  BY <1>1, BranchFacts DEF RepoType, OpenPRs, PRType
<1> QED
  BY <1>2, <1>3, BranchesAdvance DEF RepoType

LEMMA OpenAdvances ==
  ASSUME RepoType, HistoriesClosed, NEW b \in Second, refs[b] # None,
         prs' = Append(prs, [head |-> b, state |-> "open"]),
         commits' = commits, refs' = refs
  PROVE  Advance /\ Len(prs) + 1 \in DOMAIN prs'
<1>1. prs \in Seq(PRType) /\ [head |-> b, state |-> "open"] \in PRType
  BY DEF RepoType, PRType
<1>2. prs' \in Seq(PRType) /\ DOMAIN prs' = DOMAIN prs \cup {Len(prs) + 1}
  BY <1>1
<1>3. \A n \in OpenPRs' : (n \in OpenPRs /\ prs'[n] = prs[n]) \/ prs'[n].head = b
  BY <1>1, <1>2 DEF OpenPRs
<1>4. \A n \in OpenPRs' : refs'[prs'[n].head] # None
  BY <1>3 DEF RepoType
<1>5. Advance
  BY <1>2, <1>4, BranchesAdvance, BranchFacts DEF RepoType
<1> QED
  BY <1>2, <1>5

(* A pull request is merged or closed by a reviewer.                       *)
LEMMA ClosingOne ==
  ASSUME RepoType, NEW n \in DOMAIN prs,
         NEW state \in {"merged", "closed", "orphaned"},
         prs' = [prs EXCEPT ![n].state = state]
  PROVE  Closing
<1>1. prs \in Seq(PRType) /\ prs[n] \in PRType
  BY DEF RepoType
<1>2. [prs[n] EXCEPT !.state = state] \in PRType
  BY <1>1 DEF PRType
<1>3. prs' = [prs EXCEPT ![n] = [prs[n] EXCEPT !.state = state]]
  BY <1>1
<1>4. prs' \in Seq(PRType) /\ DOMAIN prs' = DOMAIN prs
  BY <1>1, <1>2, <1>3
<1>5. prs'[n].state = state /\ \A m \in DOMAIN prs : m # n => prs'[m] = prs[m]
  BY <1>1, <1>3 DEF PRType
<1> QED
  BY <1>4, <1>5 DEF Closing, OpenPRs

LEMMA CloseAdvances ==
  ASSUME RepoType, HistoriesClosed, NEW n \in DOMAIN prs,
         prs' = [prs EXCEPT ![n].state = "closed"],
         commits' = commits, refs' = refs
  PROVE  Advance
<1>1. Closing
  BY ClosingOne
<1> QED
  BY <1>1, BranchesAdvance DEF Closing, RepoType

LEMMA MergeAdvances ==
  ASSUME RepoType, HistoriesClosed, NEW n \in OpenPRs, MergePR(n)
  PROVE  Advance
<1>1. Closing
  BY ClosingOne DEF OpenPRs, MergePR
<1>2. PICK h : h = refs[prs[n].head]
  OBVIOUS
<1>3. h \in CommitID /\ refs[Base] \in CommitID
  BY <1>2, BranchFacts, OpenHead DEF RepoType
<1>4. PICK parents \in SUBSET CommitID : parents = {h, refs[Base]}
  BY <1>3
<1>5. PICK tree \in [Path -> Version] : tree = Merged(h, refs[Base])
  BY <1>3, MergedType
<1>6. refs[Base] \in Commit(tree, parents).history
  BY <1>3, <1>4 DEF Commit, HistoriesClosed
<1>7. PICK id : id = Len(commits) + 1
  OBVIOUS
<1>8. /\ commits' = Append(commits, Commit(tree, parents))
      /\ refs' = [refs EXCEPT ![Base] = id]
  BY <1>2, <1>4, <1>5, <1>7 DEF MergePR
<1> QED
  BY <1>1, <1>6, <1>7, <1>8, BranchFacts, PushAdvances
-----------------------------------------------------------------------------
(* The steps.                                                              *)

LEMMA StartStep ==
  ASSUME IInv, NEW u \in UploadID, Start(u)
  PROVE  IInv' /\ Advance
<1>1. Advance
  BY NothingAdvances DEF IInv, TypeOK, repo, Start
<1>2. UploadType'
  <2>1. /\ clock' = clock /\ pushes' = pushes
        /\ pc' \in [UploadID -> {"idle", "find", "base", "stale", "create", "read",
                                 "discard", "push", "open", "poll", "merge",
                                 "cleanup"} \cup Ended]
    BY DEF Start, Goto, Proceed, Ended, locals, IInv, TypeOK, UploadType
  <2>2. alone' \in [UploadID -> BOOLEAN]
    BY Zenon DEF Start, IInv, TypeOK, UploadType
  <2> QED
    BY <1>1, <2>2, <2>1 DEF Advance, Start, locals, IInv, TypeOK, UploadType
<1>3. Ready'
  BY DEF Start, Goto, locals, IInv, TypeOK, UploadType,
      Ready, OnTempBranch, target
<1> QED
  BY <1>1, <1>2, <1>3 DEF IInv, TypeOK, Advance

LEMMA FindPRStep ==
  ASSUME IInv, NEW u \in UploadID, FindPR(u)
  PROVE  IInv' /\ Advance
<1>1. Advance
  BY NothingAdvances DEF IInv, TypeOK, repo, FindPR
<1>2. PICK n \in OpenPRs : /\ existing' = [existing EXCEPT ![u] = n]
                         /\ branch' = [branch EXCEPT ![u] = prs[n].head]
  BY DEF FindPR
<1>3. prs[n].head \in Second /\ n \in DOMAIN prs /\ n # 0
  BY OpenHead DEF OpenPRs, IInv, TypeOK, RepoType
<1>4. UploadType'
  BY <1>1, <1>2, <1>3, BranchFacts
  DEF Advance, FindPR, Goto, IInv, TypeOK, UploadType
<1>5. Ready'
  BY <1>2, <1>3
  DEF FindPR, Goto, IInv, TypeOK, UploadType, Ready, OnTempBranch, target
<1> QED
  BY <1>1, <1>4, <1>5 DEF IInv, TypeOK, Advance

LEMMA FindNoPRStep ==
  ASSUME IInv, NEW u \in UploadID, FindNoPR(u)
  PROVE  IInv' /\ Advance
<1>1. Advance
  BY NothingAdvances DEF IInv, TypeOK, repo, FindNoPR
<1>2. UploadType'
  BY <1>1, BranchFacts
  DEF Advance, FindNoPR, Goto, locals, IInv, TypeOK, UploadType
<1>3. Ready'
  BY BranchFacts
  DEF FindNoPR, Goto, locals, IInv, TypeOK, UploadType,
      Ready, OnTempBranch, target
<1> QED
  BY <1>1, <1>2, <1>3 DEF IInv, TypeOK, Advance

LEMMA ReadBaseStep ==
  ASSUME IInv, NEW u \in UploadID, ReadBase(u)
  PROVE  IInv' /\ Advance
<1>1. Advance
  BY NothingAdvances DEF IInv, TypeOK, repo, ReadBase
<1>2. UploadType'
  BY <1>1, BranchFacts
  DEF Advance, ReadBase, Goto, locals, IInv, TypeOK, RepoType, UploadType
<1>3. Ready'
  BY BranchFacts
  DEF ReadBase, Goto, locals, IInv, TypeOK, RepoType, UploadType,
      Ready, OnTempBranch, target
<1> QED
  BY <1>1, <1>2, <1>3 DEF IInv, TypeOK, Advance

LEMMA DeleteStaleStep ==
  ASSUME IInv, NEW u \in UploadID, DeleteStale(u)
  PROVE  IInv' /\ Advance
<1>1. Advance
  <2>1. branch[u] \in Second
    BY DEF DeleteStale, IInv, Ready, OnTempBranch
  <2>2. CASE refs[branch[u]] = None
    BY <2>2, NothingAdvances DEF DeleteStale, IInv, TypeOK, repo
  <2>3. CASE refs[branch[u]] # None
    BY <2>1, <2>3, DeleteAdvances DEF DeleteStale, IInv, TypeOK
  <2> QED
    BY <2>2, <2>3
<1>2. UploadType'
  BY <1>1
  DEF Advance, DeleteStale, Goto, Proceed, Ended, locals, IInv, TypeOK, UploadType
<1>3. Ready'
  BY DEF DeleteStale, Goto, Proceed, Ended, locals, IInv, TypeOK, UploadType,
      Ready, OnTempBranch, target
<1> QED
  BY <1>1, <1>2, <1>3 DEF IInv, TypeOK, Advance

LEMMA CreateRefStep ==
  ASSUME IInv, NEW u \in UploadID, CreateRef(u)
  PROVE  IInv' /\ Advance
<1>1. Advance
  <2>1. branch[u] \in Second
    BY DEF CreateRef, IInv, Ready, OnTempBranch
  <2>2. parent[u] \in CommitID
    BY DEF CreateRef, IInv, Ready, TypeOK, UploadType
  <2>3. CASE refs[branch[u]] = None
    BY <2>1, <2>2, <2>3, CreateAdvances DEF CreateRef, IInv, TypeOK
  <2>4. CASE refs[branch[u]] # None
    BY <2>4, NothingAdvances DEF CreateRef, IInv, TypeOK, repo
  <2> QED
    BY <2>3, <2>4
<1>2. UploadType'
  BY <1>1
  DEF Advance, CreateRef, Goto, Proceed, Ended, locals, IInv, TypeOK, RepoType, UploadType
<1>3. Ready'
  BY DEF CreateRef, Goto, Proceed, Ended, locals, IInv, TypeOK, RepoType, UploadType,
      Ready, OnTempBranch, target
<1> QED
  BY <1>1, <1>2, <1>3 DEF IInv, TypeOK, Advance

LEMMA ReadHeadStep ==
  ASSUME IInv, NEW u \in UploadID, ReadHead(u)
  PROVE  IInv' /\ Advance
<1>1. Advance
  BY NothingAdvances DEF IInv, TypeOK, repo, ReadHead
<1>2. UploadType'
  BY <1>1
  DEF Advance, ReadHead, Goto, locals, IInv, TypeOK, RepoType, UploadType
<1>3. Ready'
  BY DEF ReadHead, Goto, locals, IInv, TypeOK, RepoType, UploadType,
      Ready, OnTempBranch, target
<1> QED
  BY <1>1, <1>2, <1>3 DEF IInv, TypeOK, Advance

LEMMA HeadMissingStep ==
  ASSUME IInv, NEW u \in UploadID, HeadMissing(u)
  PROVE  IInv' /\ Advance
<1>1. Advance
  BY NothingAdvances DEF IInv, TypeOK, repo, HeadMissing
<1>2. UploadType'
  BY <1>1
  DEF Advance, HeadMissing, Goto, Ended, locals, IInv, TypeOK, UploadType
<1>3. Ready'
  BY DEF HeadMissing, Goto, Ended, locals, IInv, TypeOK, UploadType,
      Ready, OnTempBranch, target
<1> QED
  BY <1>1, <1>2, <1>3 DEF IInv, TypeOK, Advance

LEMMA NothingToCommitStep ==
  ASSUME IInv, NEW u \in UploadID, NothingToCommit(u)
  PROVE  IInv' /\ Advance
<1>1. Advance
  BY NothingAdvances DEF IInv, TypeOK, repo, NothingToCommit
<1>2. UploadType'
  BY <1>1
  DEF Advance, NothingToCommit, Goto, Ended, locals, IInv, TypeOK, UploadType
<1>3. Ready'
  BY DEF NothingToCommit, Goto, Ended, locals, IInv, TypeOK, UploadType,
      Ready, OnTempBranch, target
<1> QED
  BY <1>1, <1>2, <1>3 DEF IInv, TypeOK, Advance

LEMMA DiscardStep ==
  ASSUME IInv, NEW u \in UploadID, Discard(u)
  PROVE  IInv' /\ Advance
<1>1. Advance
  <2>1. branch[u] \in Second
    BY DEF Discard, IInv, Ready, OnTempBranch
  <2>2. CASE DeleteRef(branch[u])
    BY <2>1, <2>2, DeleteAdvances DEF IInv, TypeOK
  <2>3. CASE UNCHANGED repo
    BY <2>3, NothingAdvances DEF IInv, TypeOK
  <2> QED
    BY <2>2, <2>3 DEF Discard
<1>2. UploadType'
  BY <1>1
  DEF Advance, Discard, Goto, Ended, locals, IInv, TypeOK, UploadType
<1>3. Ready'
  BY DEF Discard, Goto, Ended, locals, IInv, TypeOK, UploadType,
      Ready, OnTempBranch, target
<1> QED
  BY <1>1, <1>2, <1>3 DEF IInv, TypeOK, Advance

LEMMA PushStep ==
  ASSUME IInv, NEW u \in UploadID, Push(u)
  PROVE  IInv' /\ Advance
<1>1. Advance
  <2>1. branch[u] \in Branch /\ parent[u] \in CommitID
    BY DEF Push, IInv, Ready, TypeOK, UploadType
  <2>2. PICK tree \in [Path -> Version] : tree = NewTree(u, parent[u])
    BY <2>1, NewTreeType DEF IInv, TypeOK
  <2>3. PICK parents \in SUBSET CommitID : parents = {parent[u]}
    BY <2>1
  <2>4. PICK id : id = Len(commits) + 1
    OBVIOUS
  <2>5. PICK b \in Branch : b = branch[u]
    BY <2>1
  <2>6. commits' = Append(commits, Commit(tree, parents)) /\ prs' = prs
    BY <2>2, <2>3 DEF Push
  <2>7. CASE FastForward(branch[u], Commit(tree, parents))
    <3>1. refs' = [refs EXCEPT ![b] = id]
      BY <2>7, <2>2, <2>3, <2>4, <2>5 DEF Push
    <3>2. refs[b] \in Commit(tree, parents).history
      BY <2>5, <2>7 DEF FastForward
    <3>3. Closing
      BY <2>6 DEF Closing, OpenPRs, IInv, TypeOK, RepoType
    <3> QED
      BY <2>4, <2>6, <3>1, <3>2, <3>3, PushAdvances DEF IInv, TypeOK
  <2>8. CASE ~ FastForward(branch[u], Commit(tree, parents))
    <3>1. refs' = refs
      BY <2>8, <2>2, <2>3 DEF Push
    <3> QED
      BY <2>6, <3>1, DanglingAdvances DEF IInv, TypeOK
  <2> QED
    BY <2>7, <2>8
<1>2. Len(commits) + 1 \in CommitID'
  BY DEF Push, CommitID, IInv, TypeOK, RepoType
<1>3. UploadType'
  <2>1. /\ clock' = clock /\ pushes' = pushes
        /\ pc' \in [UploadID -> {"idle", "find", "base", "stale", "create", "read",
                                 "discard", "push", "open", "poll", "merge",
                                 "cleanup"} \cup Ended]
    BY DEF Push, Goto, Proceed, Ended, locals, IInv, TypeOK, UploadType
  <2>2. made' \in [UploadID -> CommitID' \cup {None}]
    BY <1>1, <1>2 DEF Advance, Push, IInv, TypeOK, UploadType
  <2> QED
    BY <1>1, <2>2, <2>1 DEF Advance, Push, locals, IInv, TypeOK, UploadType
<1>4. Ready'
  BY <1>2
  DEF Push, Goto, Proceed, Ended, locals, IInv, TypeOK, UploadType,
      Ready, OnTempBranch, target
<1> QED
  BY <1>1, <1>3, <1>4 DEF IInv, TypeOK, Advance

LEMMA OpenPRStep ==
  ASSUME IInv, NEW u \in UploadID, OpenPR(u)
  PROVE  IInv' /\ Advance
<1>1. Advance
  <2>1. branch[u] \in Second
    BY DEF OpenPR, IInv, Ready, OnTempBranch
  <2>2. CASE Refused(branch[u])
    BY <2>2, NothingAdvances DEF OpenPR, IInv, TypeOK, repo
  <2>3. CASE ~ Refused(branch[u])
    BY <2>1, <2>3, OpenAdvances DEF OpenPR, Refused, IInv, TypeOK
  <2> QED
    BY <2>2, <2>3
<1>2. ~ Refused(branch[u]) => Len(prs) + 1 \in DOMAIN prs'
  BY OpenAdvances DEF OpenPR, Refused, IInv, TypeOK, Ready, OnTempBranch
<1>3. UploadType'
  BY <1>1, <1>2
  DEF Advance, OpenPR, Goto, Proceed, Ended, locals, IInv, TypeOK, UploadType
<1>4. Ready'
  BY <1>2
  DEF OpenPR, Goto, Proceed, Ended, locals, IInv, TypeOK, UploadType,
      Ready, OnTempBranch, target
<1> QED
  BY <1>1, <1>3, <1>4 DEF IInv, TypeOK, Advance

LEMMA PollStep ==
  ASSUME IInv, NEW u \in UploadID, Poll(u)
  PROVE  IInv' /\ Advance
<1>1. Advance
  BY NothingAdvances DEF IInv, TypeOK, repo, Poll
<1>2. UploadType'
  BY <1>1
  DEF Advance, Poll, Goto, Ended, locals, IInv, TypeOK, UploadType
<1>3. Ready'
  BY DEF Poll, Goto, Ended, locals, IInv, TypeOK, UploadType,
      Ready, OnTempBranch, target
<1> QED
  BY <1>1, <1>2, <1>3 DEF IInv, TypeOK, Advance

LEMMA MergeStep ==
  ASSUME IInv, NEW u \in UploadID, Merge(u)
  PROVE  IInv' /\ Advance
<1>1. Advance
  <2>1. PICK n : n = target(u)
    OBVIOUS
  <2>2. n \in DOMAIN prs
    BY <2>1 DEF Merge, target, IInv, Ready, TypeOK, UploadType
  <2>3. CASE Mergeable(n)
    BY <2>1, <2>2, <2>3, MergeAdvances DEF Merge, Mergeable, OpenPRs, IInv, TypeOK
  <2>4. CASE ~ Mergeable(n)
    BY <2>1, <2>4, NothingAdvances DEF Merge, IInv, TypeOK
  <2> QED
    BY <2>3, <2>4
<1>2. UploadType'
  <2>1. /\ clock' = clock /\ pushes' = pushes
        /\ pc' \in [UploadID -> {"idle", "find", "base", "stale", "create", "read",
                                 "discard", "push", "open", "poll", "merge",
                                 "cleanup"} \cup Ended]
    BY DEF Merge, Goto, Proceed, Ended, locals, IInv, TypeOK, UploadType
  <2> QED
    BY <1>1, <2>1 DEF Advance, Merge, locals, IInv, TypeOK, UploadType
<1>3. Ready'
  BY DEF Merge, Goto, Proceed, Ended, locals, IInv, TypeOK, UploadType,
      Ready, OnTempBranch, target
<1> QED
  BY <1>1, <1>2, <1>3 DEF IInv, TypeOK, Advance

LEMMA CleanupStep ==
  ASSUME IInv, NEW u \in UploadID, Cleanup(u)
  PROVE  IInv' /\ Advance
<1>1. Advance
  <2>1. branch[u] \in Second
    BY DEF Cleanup, IInv, Ready, OnTempBranch
  <2>2. CASE DeleteRef(branch[u])
    BY <2>1, <2>2, DeleteAdvances DEF IInv, TypeOK
  <2>3. CASE UNCHANGED repo
    BY <2>3, NothingAdvances DEF IInv, TypeOK
  <2> QED
    BY <2>2, <2>3 DEF Cleanup
<1>2. UploadType'
  BY <1>1
  DEF Advance, Cleanup, Goto, Ended, locals, IInv, TypeOK, UploadType
<1>3. Ready'
  BY DEF Cleanup, Goto, Ended, locals, IInv, TypeOK, UploadType,
      Ready, OnTempBranch, target
<1> QED
  BY <1>1, <1>2, <1>3 DEF IInv, TypeOK, Advance

LEMMA FailsStep ==
  ASSUME IInv, NEW u \in UploadID, Fails(u)
  PROVE  IInv' /\ Advance
<1>1. Advance
  BY NothingAdvances DEF IInv, TypeOK, repo, Fails
<1>2. UploadType'
  BY <1>1
  DEF Advance, Fails, Goto, Ended, locals, IInv, TypeOK, UploadType
<1>3. Ready'
  BY DEF Fails, Goto, Ended, locals, IInv, TypeOK, UploadType,
      Ready, OnTempBranch, target
<1> QED
  BY <1>1, <1>2, <1>3 DEF IInv, TypeOK, Advance

LEMMA TimePassesStep ==
  ASSUME IInv, TimePasses
  PROVE  IInv' /\ Advance
<1>1. Advance
  BY NothingAdvances DEF IInv, TypeOK, repo, TimePasses
<1>2. MaxSecond \in Nat
  BY TargetWriteAssumption, Zenon
<1>3. UploadType'
  BY <1>2, <1>1 DEF Advance, TimePasses, locals, repo, IInv, TypeOK, UploadType, Second
<1>4. Ready'
  BY <1>1 DEF TimePasses, locals, repo, IInv, Ready, target
<1> QED
  BY <1>1, <1>3, <1>4 DEF IInv, TypeOK, Advance

LEMMA OthersPushStep ==
  ASSUME IInv, OthersPush
  PROVE  IInv' /\ Advance
<1>1. MaxPushes \in Nat
  BY TargetWriteAssumption, Zenon
<1>2. Advance
  <2>1. PICK p \in Path : commits' = Append(commits,
          Commit([TreeOf(refs[Base]) EXCEPT ![p] = Theirs], {refs[Base]}))
    BY DEF OthersPush
  <2>2. refs[Base] \in CommitID
    BY BranchFacts DEF IInv, TypeOK, RepoType
  <2>3. Theirs \in Version
    BY TargetWriteAssumption, Zenon
  <2>4. PICK tree \in [Path -> Version] :
          tree = [TreeOf(refs[Base]) EXCEPT ![p] = Theirs]
    BY <2>2, <2>3, TreeType DEF IInv, TypeOK
  <2>5. PICK parents \in SUBSET CommitID : parents = {refs[Base]}
    BY <2>2
  <2>6. PICK id : id = Len(commits) + 1
    OBVIOUS
  <2>7. refs[Base] \in Commit(tree, parents).history
    BY <2>2, <2>5 DEF Commit, IInv, HistoriesClosed
  <2>8. Closing
    BY DEF OthersPush, Closing, OpenPRs, IInv, TypeOK, RepoType
  <2>9. refs' = [refs EXCEPT ![Base] = id]
    BY <2>6 DEF OthersPush
  <2> QED
    BY <2>1, <2>4, <2>5, <2>6, <2>7, <2>8, <2>9, BranchFacts, PushAdvances
       DEF IInv, TypeOK
<1>3. UploadType'
  BY <1>1, <1>2 DEF Advance, OthersPush, locals, repo, IInv, TypeOK, UploadType, Second
<1>4. Ready'
  BY <1>2 DEF OthersPush, locals, repo, IInv, Ready, target
<1> QED
  BY <1>2, <1>3, <1>4 DEF IInv, TypeOK, Advance

LEMMA ReviewStep ==
  ASSUME IInv, NEW n \in DOMAIN prs, Review(n)
  PROVE  IInv' /\ Advance
<1>1. Advance
  <2>1. CASE MergePR(n)
    BY <2>1, MergeAdvances DEF Review, OpenPRs, IInv, TypeOK
  <2>2. CASE prs' = [prs EXCEPT ![n].state = "closed"] /\ UNCHANGED <<commits, refs>>
    BY <2>2, CloseAdvances DEF IInv, TypeOK
  <2> QED
    BY <2>1, <2>2 DEF Review
<1>2. UploadType'
  <2>1. alone' \in [UploadID -> BOOLEAN]
    BY Zenon DEF Review, IInv, TypeOK, UploadType
  <2> QED
    BY <1>1, <2>1 DEF Advance, Review, locals, IInv, TypeOK, UploadType
<1>3. Ready'
  BY <1>1 DEF Review, locals, IInv, Ready, target
<1> QED
  BY <1>1, <1>2, <1>3 DEF IInv, TypeOK, Advance

LEMMA DeleteReviewedStep ==
  ASSUME IInv, NEW n \in DOMAIN prs, DeleteReviewed(n)
  PROVE  IInv' /\ Advance
<1>1. Advance
  <2>1. prs \in Seq(PRType)
    BY DEF IInv, TypeOK, RepoType
  <2>3. prs[n] \in PRType
    BY <2>1
  <2>2. prs[n].head \in Second
    BY <2>3 DEF PRType
  <2> QED
    BY <2>2, DeleteAdvances DEF DeleteReviewed, IInv, TypeOK
<1>2. UploadType'
  <2>1. alone' \in [UploadID -> BOOLEAN]
    BY Zenon DEF DeleteReviewed, IInv, TypeOK, UploadType
  <2> QED
    BY <1>1, <2>1 DEF Advance, DeleteReviewed, locals, IInv, TypeOK, UploadType
<1>3. Ready'
  BY <1>1 DEF DeleteReviewed, locals, IInv, Ready, target
<1> QED
  BY <1>1, <1>2, <1>3 DEF IInv, TypeOK, Advance

LEMMA NextStep ==
  ASSUME IInv, Next
  PROVE  IInv' /\ Advance
<1>1. ASSUME NEW u \in UploadID, Start(u) PROVE IInv' /\ Advance
  BY <1>1, StartStep
<1>2. ASSUME NEW u \in UploadID, FindPR(u) PROVE IInv' /\ Advance
  BY <1>2, FindPRStep
<1>3. ASSUME NEW u \in UploadID, FindNoPR(u) PROVE IInv' /\ Advance
  BY <1>3, FindNoPRStep
<1>4. ASSUME NEW u \in UploadID, ReadBase(u) PROVE IInv' /\ Advance
  BY <1>4, ReadBaseStep
<1>5. ASSUME NEW u \in UploadID, DeleteStale(u) PROVE IInv' /\ Advance
  BY <1>5, DeleteStaleStep
<1>6. ASSUME NEW u \in UploadID, CreateRef(u) PROVE IInv' /\ Advance
  BY <1>6, CreateRefStep
<1>7. ASSUME NEW u \in UploadID, ReadHead(u) PROVE IInv' /\ Advance
  BY <1>7, ReadHeadStep
<1>8. ASSUME NEW u \in UploadID, HeadMissing(u) PROVE IInv' /\ Advance
  BY <1>8, HeadMissingStep
<1>9. ASSUME NEW u \in UploadID, NothingToCommit(u) PROVE IInv' /\ Advance
  BY <1>9, NothingToCommitStep
<1>10. ASSUME NEW u \in UploadID, Discard(u) PROVE IInv' /\ Advance
  BY <1>10, DiscardStep
<1>11. ASSUME NEW u \in UploadID, Push(u) PROVE IInv' /\ Advance
  BY <1>11, PushStep
<1>12. ASSUME NEW u \in UploadID, OpenPR(u) PROVE IInv' /\ Advance
  BY <1>12, OpenPRStep
<1>13. ASSUME NEW u \in UploadID, Poll(u) PROVE IInv' /\ Advance
  BY <1>13, PollStep
<1>14. ASSUME NEW u \in UploadID, Merge(u) PROVE IInv' /\ Advance
  BY <1>14, MergeStep
<1>15. ASSUME NEW u \in UploadID, Cleanup(u) PROVE IInv' /\ Advance
  BY <1>15, CleanupStep
<1>16. ASSUME NEW u \in UploadID, Fails(u) PROVE IInv' /\ Advance
  BY <1>16, FailsStep
<1>17. ASSUME NEW n \in DOMAIN prs, Review(n) \/ DeleteReviewed(n) PROVE IInv' /\ Advance
  BY <1>17, ReviewStep, DeleteReviewedStep
<1>18. CASE OthersPush \/ TimePasses
  BY <1>18, OthersPushStep, TimePassesStep
<1> QED
  BY <1>1, <1>2, <1>3, <1>4, <1>5, <1>6, <1>7, <1>8, <1>9, <1>10, <1>11,
     <1>12, <1>13, <1>14, <1>15, <1>16, <1>17, <1>18, Zenon DEF Next, Step

LEMMA StutterStep ==
  ASSUME IInv, UNCHANGED vars
  PROVE  IInv' /\ Advance
<1>1. Advance
  BY NothingAdvances DEF IInv, TypeOK, vars
<1>2. UploadType' /\ Ready'
  BY DEF vars, repo, locals, IInv, TypeOK, UploadType, Ready, target, CommitID
<1> QED
  BY <1>1, <1>2 DEF IInv, TypeOK, Advance

LEMMA InitInv ==
  ASSUME Init
  PROVE  IInv
<1>1. InitialTree \in [Path -> Version] /\ MaxPushes \in Nat
  BY TargetWriteAssumption, Zenon
<1>2. DOMAIN commits = {1} /\ commits[1] = [tree |-> InitialTree, history |-> {1}]
  BY DEF Init
<1>3. commits # << >> /\ commits \in Seq(CommitType)
  BY <1>1, <1>2 DEF Init, CommitType
<1>4. refs \in [Branch -> CommitID \cup {None}] /\ refs[Base] # None
  BY <1>2, BranchFacts DEF Init, CommitID, None
<1>5. prs \in Seq(PRType) /\ OpenPRs = {}
  BY DEF Init, OpenPRs
<1>6. HistoriesClosed
  BY <1>2 DEF HistoriesClosed, CommitID, History
<1>7. UploadType
  BY <1>1, BranchFacts DEF Init, UploadType, Ended
<1>8. Ready
  BY DEF Init, Ready, OnTempBranch
<1> QED
  BY <1>3, <1>4, <1>5, <1>6, <1>7, <1>8 DEF IInv, TypeOK, RepoType

-----------------------------------------------------------------------------
(* The repository, the uploads and what each knows stay well typed, for    *)
(* any number of uploads, files and seconds: in particular the target      *)
(* branch is never deleted, and an open pull request has its branch.       *)
THEOREM TypeCorrect == Spec => []TypeOK
<1>1. Init => IInv
  BY InitInv
<1>2. IInv /\ [Next]_vars => IInv'
  BY NextStep, StutterStep
<1>3. IInv => TypeOK
  BY DEF IInv
<1> QED
  BY <1>1, <1>2, <1>3, PTL DEF Spec

(* What has reached the target branch stays in its history, whatever       *)
(* uploads, reviewers and others do at once.                               *)
THEOREM NothingIsOverwritten == Spec => BaseOnlyGrows
<1>1. Init => IInv
  BY InitInv
<1>2. IInv /\ [Next]_vars => IInv'
  BY NextStep, StutterStep
<1>3. IInv /\ [Next]_vars => [History(refs[Base]) \subseteq History(refs[Base])']_vars
  BY NextStep DEF Advance
<1> QED
  BY <1>1, <1>2, <1>3, PTL DEF Spec, BaseOnlyGrows

-----------------------------------------------------------------------------
(* Who owns a pull request and its branch.                                 *)

Opened == {"poll", "merge", "cleanup", "ok", "failed"}

(* The upload that has opened a pull request, and still has its branch.    *)
Owns(u, n) ==
  /\ Named(u) /\ opened[u] = n /\ branch[u] = prs[n].head
  /\ pc[u] \in Opened

Owned == \A n \in DOMAIN prs : \E u \in UploadID : Owns(u, n)

(* What an upload has, by where it stands.                                 *)
PlacedFor(u) ==
  /\ pc[u] \in {"idle", "find"} => branch[u] = Base
  /\ pc[u] \in {"idle", "find", "base", "stale", "create", "discard", "open"} =>
       existing[u] = 0
  /\ pc[u] \notin Opened => opened[u] = 0
  /\ existing[u] # 0 => branch[u] = prs[existing[u]].head
  /\ opened[u] # 0 => branch[u] = prs[opened[u]].head
  /\ pc[u] \in {"idle", "find", "base", "stale", "create", "read", "discard", "push"} =>
       made[u] = None
  /\ pc[u] \in {"open", "poll", "merge", "cleanup"} => made[u] # None
  /\ pc[u] \in {"poll", "merge", "cleanup"} => AutoMerge[u]
  /\ made[u] # None /\ Strategy[u] # "direct" => branch[u] \in Second
  /\ pc[u] = "cleanup" => target(u) # 0 /\ prs[target(u)].state = "merged"
  /\ Strategy[u] = "direct" =>
       /\ branch[u] = Base /\ existing[u] = 0
       /\ pc[u] \in {"idle", "read", "push"} \cup Ended

Placed == \A u \in UploadID : PlacedFor(u)

OwnersInv == IInv /\ Owned /\ Placed /\ OrphansNeedTwins

(* Pull requests keep their heads, and only open ones change their state.  *)
PRsLast ==
  \A n \in DOMAIN prs :
    /\ n \in DOMAIN prs'
    /\ prs'[n].head = prs[n].head
    /\ prs[n].state # "open" => prs'[n].state = prs[n].state

(* Nobody but an upload that has just started is given another branch.     *)
BranchesLast ==
  \A u \in UploadID :
    pc[u] = "find" \/ (branch'[u] = branch[u] /\ existing'[u] = existing[u])

(* Only u moves.                                                           *)
OthersRest(u) ==
  \A v \in UploadID \ {u} :
    /\ pc'[v] = pc[v] /\ branch'[v] = branch[v] /\ existing'[v] = existing[v]
    /\ opened'[v] = opened[v] /\ made'[v] = made[v] /\ parent'[v] = parent[v]

LEMMA DeleteLasts ==
  ASSUME RepoType, NEW b \in Second, DeleteRef(b)
  PROVE  /\ PRsLast /\ DOMAIN prs' = DOMAIN prs
         /\ \A n \in DOMAIN prs :
              prs'[n].state = "orphaned" =>
                prs[n].state = "orphaned" \/ (n \in OpenPRs /\ prs[n].head = b)
<1>1. prs' = PRsWithout(b) /\ prs \in Seq(PRType)
  BY DEF DeleteRef, RepoType
<1>2. \A n \in DOMAIN prs : prs[n] \in PRType
  BY <1>1
<1> QED
  BY <1>1, <1>2 DEF PRsWithout, PRsLast, OpenPRs, PRType

LEMMA ClosingLasts ==
  ASSUME RepoType, NEW n \in OpenPRs, NEW state \in {"merged", "closed"},
         prs' = [prs EXCEPT ![n].state = state]
  PROVE  /\ PRsLast /\ DOMAIN prs' = DOMAIN prs
         /\ prs'[n].state = state
         /\ \A m \in DOMAIN prs :
              prs'[m].state = "orphaned" => prs[m].state = "orphaned"
<1>1. prs \in Seq(PRType) /\ n \in DOMAIN prs /\ prs[n].state = "open"
  BY DEF RepoType, OpenPRs
<1>2. \A m \in DOMAIN prs : prs[m] \in PRType
  BY <1>1
<1> QED
  BY <1>1, <1>2 DEF PRsLast, PRType

LEMMA OpenLasts ==
  ASSUME RepoType, NEW b \in Second,
         prs' = Append(prs, [head |-> b, state |-> "open"])
  PROVE  /\ PRsLast /\ DOMAIN prs' = DOMAIN prs \cup {Len(prs) + 1}
         /\ Len(prs) + 1 \notin DOMAIN prs
         /\ prs'[Len(prs) + 1] = [head |-> b, state |-> "open"]
         /\ \A n \in DOMAIN prs : prs'[n] = prs[n]
<1>1. prs \in Seq(PRType) /\ [head |-> b, state |-> "open"] \in PRType
  BY DEF RepoType, PRType
<1>2. \A m \in DOMAIN prs : prs'[m] = prs[m]
  BY <1>1
<1> QED
  BY <1>1, <1>2 DEF PRsLast

(* Twins stay twins.                                                       *)
LEMMA TwinsLast ==
  ASSUME Placed, BranchesLast, NEW b \in Second, Twins(b)
  PROVE  Twins(b)'
<1>1. PICK u, v \in UploadID :
        /\ u # v /\ Named(u) /\ Named(v) /\ branch[u] = b /\ branch[v] = b
  BY DEF Twins
<1>2. pc[u] # "find" /\ pc[v] # "find"
  BY <1>1, BranchFacts DEF Placed, PlacedFor
<1>3. branch'[u] = b /\ branch'[v] = b /\ Named(u)' /\ Named(v)'
  BY <1>1, <1>2 DEF BranchesLast, Named
<1> QED
  BY <1>1, <1>3 DEF Twins

(* Whoever deletes a branch under an open pull request has a twin.         *)
LEMMA DeleterHasTwin ==
  ASSUME OwnersInv, NEW u \in UploadID, pc[u] \in {"stale", "discard", "cleanup"},
         NEW n \in OpenPRs, prs[n].head = branch[u]
  PROVE  Twins(branch[u])
<1>1. n \in DOMAIN prs /\ prs[n].state = "open"
  BY DEF OpenPRs
<1>2. PICK v \in UploadID : Owns(v, n)
  BY <1>1 DEF OwnersInv, Owned
<1>3. CASE existing[u] = 0 /\ Strategy[u] # "direct"
  <2>1. opened[u] # n
    <3>1. CASE pc[u] = "cleanup"
      BY <1>3, <3>1, <1>1 DEF OwnersInv, Placed, PlacedFor, target
    <3>2. CASE pc[u] # "cleanup"
      BY <3>2, <1>1 DEF OwnersInv, Placed, PlacedFor, Opened, IInv, TypeOK, RepoType
    <3> QED
      BY <3>1, <3>2
  <2>2. Named(u)
    BY <1>3, TargetWriteAssumption DEF Named
  <2> QED
    BY <1>2, <2>1, <2>2 DEF Owns, Twins
<1>4. CASE existing[u] # 0
  <2>1. /\ pc[u] = "cleanup" /\ target(u) = existing[u]
        /\ prs[existing[u]].state = "merged" /\ prs[existing[u]].head = branch[u]
    BY <1>4 DEF OwnersInv, Placed, PlacedFor, target
  <2>2. existing[u] \in DOMAIN prs
    BY <1>4 DEF OwnersInv, IInv, TypeOK, UploadType
  <2>3. PICK w \in UploadID : Owns(w, existing[u])
    BY <2>2 DEF OwnersInv, Owned
  <2>4. w # v
    BY <1>1, <1>2, <2>1, <2>3 DEF Owns
  <2> QED
    BY <1>2, <2>1, <2>3, <2>4 DEF Owns, Twins
<1> QED
  BY <1>3, <1>4 DEF OwnersInv, Placed, PlacedFor, Ended

(* So OrphansNeedTwins survives a deletion.                                *)
LEMMA OrphansLast ==
  ASSUME OwnersInv, BranchesLast, DOMAIN prs' = DOMAIN prs, PRsLast,
         \A n \in DOMAIN prs :
           prs'[n].state = "orphaned" =>
             prs[n].state = "orphaned" \/ Twins(prs[n].head)
  PROVE  OrphansNeedTwins'
<1> SUFFICES ASSUME NEW n \in DOMAIN prs, prs'[n].state = "orphaned"
             PROVE  Twins(prs[n].head)'
  BY DEF OrphansNeedTwins
<1>1. Twins(prs[n].head)
  BY DEF OwnersInv, OrphansNeedTwins
<1>2. prs[n] \in PRType
  <2>1. prs \in Seq(PRType)
    BY DEF OwnersInv, IInv, TypeOK, RepoType
  <2> QED
    BY <2>1
<1>3. PICK b \in Second : b = prs[n].head
  BY <1>2 DEF PRType
<1>4. Twins(b)'
  BY <1>1, <1>3, TwinsLast DEF OwnersInv
<1>5. prs'[n].head = b
  BY <1>3 DEF PRsLast
<1> QED
  BY <1>4, <1>5 DEF Twins

(* Owners stay owners, and a pull request that is new has one.             *)
LEMMA OwnersLast ==
  ASSUME OwnersInv, PRsLast, BranchesLast, DOMAIN prs' = DOMAIN prs,
         \A u \in UploadID :
           pc[u] \in Opened => opened'[u] = opened[u] /\ pc'[u] \in Opened
  PROVE  Owned'
<1> SUFFICES ASSUME NEW n \in DOMAIN prs
             PROVE  \E u \in UploadID : Owns(u, n)'
  BY DEF Owned
<1>1. PICK u \in UploadID : Owns(u, n)
  BY DEF OwnersInv, Owned
<1>2. Owns(u, n)'
  BY <1>1 DEF Owns, Named, PRsLast, BranchesLast, Opened
<1> QED
  BY <1>2

-----------------------------------------------------------------------------
(* No step takes a pull request from its owner, or orphans one whose owner *)
(* has no twin.                                                            *)

(* A step that changes no pull request.                                    *)
LEMMA QuietLasts ==
  ASSUME OwnersInv, prs' = prs, BranchesLast,
         \A u \in UploadID :
           pc[u] \in Opened => opened'[u] = opened[u] /\ pc'[u] \in Opened
  PROVE  PRsLast /\ Owned' /\ OrphansNeedTwins'
<1>1. PRsLast
  BY DEF PRsLast
<1>2. Owned'
  BY <1>1, OwnersLast
<1>3. \A n \in DOMAIN prs :
        prs[n].state = "orphaned" => Twins(prs[n].head)
  BY DEF OwnersInv, OrphansNeedTwins
<1>4. OrphansNeedTwins'
  BY <1>1, <1>3, OrphansLast
<1> QED
  BY <1>1, <1>2, <1>4

(* What holds of those who rest goes on holding.                           *)
LEMMA RestPlaced ==
  ASSUME OwnersInv, NEW u \in UploadID, OthersRest(u), PRsLast, PlacedFor(u)'
  PROVE  Placed'
<1> SUFFICES ASSUME NEW v \in UploadID \ {u} PROVE PlacedFor(v)'
  BY DEF Placed
<1>1. PlacedFor(v)
  BY DEF OwnersInv, Placed
<1>2. /\ pc'[v] = pc[v] /\ branch'[v] = branch[v] /\ existing'[v] = existing[v]
      /\ opened'[v] = opened[v] /\ made'[v] = made[v]
  BY DEF OthersRest
<1>3. existing[v] \in DOMAIN prs \cup {0} /\ opened[v] \in DOMAIN prs \cup {0}
  BY DEF OwnersInv, IInv, TypeOK, UploadType
<1>4. target(v)' = target(v) /\ target(v) \in DOMAIN prs \cup {0}
  BY <1>2, <1>3 DEF target
<1> QED
  BY <1>1, <1>2, <1>3, <1>4 DEF PlacedFor, PRsLast

LEMMA StartOwns ==
  ASSUME OwnersInv, NEW u \in UploadID, Start(u)
  PROVE  Owned' /\ Placed' /\ OrphansNeedTwins' /\ PRsLast /\ BranchesLast
<1>1. prs' = prs /\ BranchesLast /\ OthersRest(u) /\ PRsLast
  BY DEF Start, Goto, Proceed, repo, locals, OwnersInv, IInv, TypeOK, UploadType, BranchesLast,
         OthersRest, PRsLast
<1>2. \A v \in UploadID :
        pc[v] \in Opened => opened'[v] = opened[v] /\ pc'[v] \in Opened
  BY DEF Start, Goto, Proceed, locals, Opened, Ended, Working, OwnersInv, IInv, TypeOK, UploadType
<1>3. PlacedFor(u)'
  BY <1>1 DEF Start, Goto, Proceed, locals, Opened, Ended, Working, target, OwnersInv, Placed, PlacedFor,
              IInv, TypeOK, UploadType
<1> QED
  BY <1>1, <1>2, <1>3, QuietLasts, RestPlaced

LEMMA FindPROwns ==
  ASSUME OwnersInv, NEW u \in UploadID, FindPR(u)
  PROVE  Owned' /\ Placed' /\ OrphansNeedTwins' /\ PRsLast /\ BranchesLast
<1>1. prs' = prs /\ BranchesLast /\ OthersRest(u) /\ PRsLast
  BY DEF FindPR, Goto, Proceed, repo, locals, OwnersInv, IInv, TypeOK, UploadType, BranchesLast,
         OthersRest, PRsLast
<1>2. \A v \in UploadID :
        pc[v] \in Opened => opened'[v] = opened[v] /\ pc'[v] \in Opened
  BY DEF FindPR, Goto, Proceed, locals, Opened, Ended, Working, OwnersInv, IInv, TypeOK, UploadType
<1>3. PlacedFor(u)'
  BY <1>1 DEF FindPR, Goto, Proceed, locals, Opened, Ended, Working, target, OwnersInv, Placed, PlacedFor,
              IInv, TypeOK, UploadType
<1> QED
  BY <1>1, <1>2, <1>3, QuietLasts, RestPlaced

LEMMA FindNoPROwns ==
  ASSUME OwnersInv, NEW u \in UploadID, FindNoPR(u)
  PROVE  Owned' /\ Placed' /\ OrphansNeedTwins' /\ PRsLast /\ BranchesLast
<1>1. prs' = prs /\ BranchesLast /\ OthersRest(u) /\ PRsLast
  BY DEF FindNoPR, Goto, Proceed, repo, locals, OwnersInv, IInv, TypeOK, UploadType, BranchesLast,
         OthersRest, PRsLast
<1>2. \A v \in UploadID :
        pc[v] \in Opened => opened'[v] = opened[v] /\ pc'[v] \in Opened
  BY DEF FindNoPR, Goto, Proceed, locals, Opened, Ended, Working, OwnersInv, IInv, TypeOK, UploadType
<1>3. PlacedFor(u)'
  BY <1>1 DEF FindNoPR, Goto, Proceed, locals, Opened, Ended, Working, target, OwnersInv, Placed, PlacedFor,
              IInv, TypeOK, UploadType
<1> QED
  BY <1>1, <1>2, <1>3, QuietLasts, RestPlaced

LEMMA ReadBaseOwns ==
  ASSUME OwnersInv, NEW u \in UploadID, ReadBase(u)
  PROVE  Owned' /\ Placed' /\ OrphansNeedTwins' /\ PRsLast /\ BranchesLast
<1>1. prs' = prs /\ BranchesLast /\ OthersRest(u) /\ PRsLast
  BY DEF ReadBase, Goto, Proceed, repo, locals, OwnersInv, IInv, TypeOK, UploadType, BranchesLast,
         OthersRest, PRsLast
<1>2. \A v \in UploadID :
        pc[v] \in Opened => opened'[v] = opened[v] /\ pc'[v] \in Opened
  BY DEF ReadBase, Goto, Proceed, locals, Opened, Ended, Working, OwnersInv, IInv, TypeOK, UploadType
<1>3. PlacedFor(u)'
  BY <1>1 DEF ReadBase, Goto, Proceed, locals, Opened, Ended, Working, target, OwnersInv, Placed, PlacedFor,
              IInv, TypeOK, UploadType
<1> QED
  BY <1>1, <1>2, <1>3, QuietLasts, RestPlaced

LEMMA ReadHeadOwns ==
  ASSUME OwnersInv, NEW u \in UploadID, ReadHead(u)
  PROVE  Owned' /\ Placed' /\ OrphansNeedTwins' /\ PRsLast /\ BranchesLast
<1>1. prs' = prs /\ BranchesLast /\ OthersRest(u) /\ PRsLast
  BY DEF ReadHead, Goto, Proceed, repo, locals, OwnersInv, IInv, TypeOK, UploadType, BranchesLast,
         OthersRest, PRsLast
<1>2. \A v \in UploadID :
        pc[v] \in Opened => opened'[v] = opened[v] /\ pc'[v] \in Opened
  BY DEF ReadHead, Goto, Proceed, locals, Opened, Ended, Working, OwnersInv, IInv, TypeOK, UploadType
<1>3. PlacedFor(u)'
  BY <1>1 DEF ReadHead, Goto, Proceed, locals, Opened, Ended, Working, target, OwnersInv, Placed, PlacedFor,
              IInv, TypeOK, UploadType
<1> QED
  BY <1>1, <1>2, <1>3, QuietLasts, RestPlaced

LEMMA HeadMissingOwns ==
  ASSUME OwnersInv, NEW u \in UploadID, HeadMissing(u)
  PROVE  Owned' /\ Placed' /\ OrphansNeedTwins' /\ PRsLast /\ BranchesLast
<1>1. prs' = prs /\ BranchesLast /\ OthersRest(u) /\ PRsLast
  BY DEF HeadMissing, Goto, Proceed, repo, locals, OwnersInv, IInv, TypeOK, UploadType, BranchesLast,
         OthersRest, PRsLast
<1>2. \A v \in UploadID :
        pc[v] \in Opened => opened'[v] = opened[v] /\ pc'[v] \in Opened
  BY DEF HeadMissing, Goto, Proceed, locals, Opened, Ended, Working, OwnersInv, IInv, TypeOK, UploadType
<1>3. PlacedFor(u)'
  BY <1>1 DEF HeadMissing, Goto, Proceed, locals, Opened, Ended, Working, target,
    OwnersInv, Placed, PlacedFor,
              IInv, TypeOK, UploadType
<1> QED
  BY <1>1, <1>2, <1>3, QuietLasts, RestPlaced

LEMMA NothingToCommitOwns ==
  ASSUME OwnersInv, NEW u \in UploadID, NothingToCommit(u)
  PROVE  Owned' /\ Placed' /\ OrphansNeedTwins' /\ PRsLast /\ BranchesLast
<1>1. prs' = prs /\ BranchesLast /\ OthersRest(u) /\ PRsLast
  BY DEF NothingToCommit, Goto, Proceed, repo, locals, OwnersInv, IInv, TypeOK, UploadType, BranchesLast,
         OthersRest, PRsLast
<1>2. \A v \in UploadID :
        pc[v] \in Opened => opened'[v] = opened[v] /\ pc'[v] \in Opened
  BY DEF NothingToCommit, Goto, Proceed, locals, Opened, Ended, Working, OwnersInv, IInv, TypeOK, UploadType
<1>3. PlacedFor(u)'
  BY <1>1 DEF NothingToCommit, Goto, Proceed, locals, Opened, Ended, Working, target,
    OwnersInv, Placed, PlacedFor,
              IInv, TypeOK, UploadType
<1> QED
  BY <1>1, <1>2, <1>3, QuietLasts, RestPlaced

LEMMA PushOwns ==
  ASSUME OwnersInv, NEW u \in UploadID, Push(u)
  PROVE  Owned' /\ Placed' /\ OrphansNeedTwins' /\ PRsLast /\ BranchesLast
<1>1. prs' = prs /\ BranchesLast /\ OthersRest(u) /\ PRsLast
  BY DEF Push, Goto, Proceed, repo, locals, OwnersInv, IInv, TypeOK, UploadType, BranchesLast,
         OthersRest, PRsLast
<1>2. \A v \in UploadID :
        pc[v] \in Opened => opened'[v] = opened[v] /\ pc'[v] \in Opened
  BY DEF Push, Goto, Proceed, locals, Opened, Ended, Working, OwnersInv, IInv, TypeOK, UploadType
<1>3. /\ branch'[u] = branch[u] /\ existing'[u] = existing[u] /\ opened'[u] = opened[u]
      /\ target(u)' = target(u)
  BY DEF Push, target
<1>4. /\ pc'[u] \in {"ok", "failed", "open", "poll"}
      /\ pc'[u] \in {"open", "poll"} => made'[u] # None /\ Strategy[u] # "direct"
      /\ pc'[u] = "open" => existing[u] = 0
      /\ pc'[u] = "poll" => AutoMerge[u]
  BY DEF Push, Goto, Proceed, OwnersInv, IInv, TypeOK, RepoType, UploadType, None
<1>5. PlacedFor(u)'
  BY <1>1, <1>3, <1>4 DEF Push, Opened, Ended, OwnersInv, Placed, PlacedFor, IInv, Ready
<1> QED
  BY <1>1, <1>2, <1>5, QuietLasts, RestPlaced

LEMMA PollOwns ==
  ASSUME OwnersInv, NEW u \in UploadID, Poll(u)
  PROVE  Owned' /\ Placed' /\ OrphansNeedTwins' /\ PRsLast /\ BranchesLast
<1>1. prs' = prs /\ BranchesLast /\ OthersRest(u) /\ PRsLast
  BY DEF Poll, Goto, Proceed, repo, locals, OwnersInv, IInv, TypeOK, UploadType, BranchesLast,
         OthersRest, PRsLast
<1>2. \A v \in UploadID :
        pc[v] \in Opened => opened'[v] = opened[v] /\ pc'[v] \in Opened
  BY DEF Poll, Goto, Proceed, locals, Opened, Ended, Working, OwnersInv, IInv, TypeOK, UploadType
<1>3. PlacedFor(u)'
  BY <1>1 DEF Poll, Goto, Proceed, locals, Opened, Ended, Working, target, OwnersInv, Placed, PlacedFor,
              IInv, TypeOK, UploadType
<1> QED
  BY <1>1, <1>2, <1>3, QuietLasts, RestPlaced

LEMMA FailsOwns ==
  ASSUME OwnersInv, NEW u \in UploadID, Fails(u)
  PROVE  Owned' /\ Placed' /\ OrphansNeedTwins' /\ PRsLast /\ BranchesLast
<1>1. prs' = prs /\ BranchesLast /\ OthersRest(u) /\ PRsLast
  BY DEF Fails, Goto, Proceed, repo, locals, OwnersInv, IInv, TypeOK, UploadType, BranchesLast,
         OthersRest, PRsLast
<1>2. \A v \in UploadID :
        pc[v] \in Opened => opened'[v] = opened[v] /\ pc'[v] \in Opened
  BY DEF Fails, Goto, Proceed, locals, Opened, Ended, Working, OwnersInv, IInv, TypeOK, UploadType
<1>3. PlacedFor(u)'
  BY <1>1 DEF Fails, Goto, Proceed, locals, Opened, Ended, Working, target, OwnersInv, Placed, PlacedFor,
              IInv, TypeOK, UploadType
<1> QED
  BY <1>1, <1>2, <1>3, QuietLasts, RestPlaced

LEMMA CreateRefOwns ==
  ASSUME OwnersInv, NEW u \in UploadID, CreateRef(u)
  PROVE  Owned' /\ Placed' /\ OrphansNeedTwins' /\ PRsLast /\ BranchesLast
<1>1. prs' = prs /\ BranchesLast /\ OthersRest(u) /\ PRsLast
  BY DEF CreateRef, Goto, Proceed, repo, locals, OwnersInv, IInv, TypeOK, UploadType, BranchesLast,
         OthersRest, PRsLast
<1>2. \A v \in UploadID :
        pc[v] \in Opened => opened'[v] = opened[v] /\ pc'[v] \in Opened
  BY DEF CreateRef, Goto, Proceed, locals, Opened, Ended, Working, OwnersInv, IInv, TypeOK, UploadType
<1>3. PlacedFor(u)'
  BY <1>1 DEF CreateRef, Goto, Proceed, locals, Opened, Ended, Working, target, OwnersInv, Placed, PlacedFor,
              IInv, TypeOK, UploadType
<1> QED
  BY <1>1, <1>2, <1>3, QuietLasts, RestPlaced

LEMMA DeleteStaleOwns ==
  ASSUME OwnersInv, NEW u \in UploadID, DeleteStale(u)
  PROVE  Owned' /\ Placed' /\ OrphansNeedTwins' /\ PRsLast /\ BranchesLast
<1>1. BranchesLast /\ OthersRest(u)
  BY DEF DeleteStale, Goto, Proceed, locals, OwnersInv, IInv, TypeOK, UploadType, BranchesLast, OthersRest
<1>2. \A v \in UploadID :
        pc[v] \in Opened => opened'[v] = opened[v] /\ pc'[v] \in Opened
  BY DEF DeleteStale, Goto, Proceed, locals, Opened, Ended, OwnersInv, IInv, TypeOK, UploadType
<1>3. /\ PRsLast /\ DOMAIN prs' = DOMAIN prs
      /\ \A n \in DOMAIN prs :
           prs'[n].state = "orphaned" => prs[n].state = "orphaned" \/ Twins(prs[n].head)
  <2>1. CASE DeleteRef(branch[u])
    <3>1. branch[u] \in Second /\ RepoType /\ pc[u] \in {"stale", "discard", "cleanup"}
      BY DEF DeleteStale, OwnersInv, IInv, TypeOK, Ready, OnTempBranch
    <3>2. \A n \in OpenPRs : prs[n].head = branch[u] => Twins(branch[u])
      BY <3>1, DeleterHasTwin
    <3> QED
      BY <2>1, <3>1, <3>2, DeleteLasts
  <2>2. CASE UNCHANGED prs
    BY <2>2 DEF PRsLast
  <2> QED
    BY <2>1, <2>2 DEF DeleteStale, repo
<1>4. PlacedFor(u)'
  BY <1>3 DEF DeleteStale, Goto, Proceed, locals, Opened, Ended, target, OwnersInv, Placed, PlacedFor,
              PRsLast, IInv, TypeOK, UploadType
<1> QED
  BY <1>1, <1>2, <1>3, <1>4, OwnersLast, OrphansLast, RestPlaced

LEMMA DiscardOwns ==
  ASSUME OwnersInv, NEW u \in UploadID, Discard(u)
  PROVE  Owned' /\ Placed' /\ OrphansNeedTwins' /\ PRsLast /\ BranchesLast
<1>1. BranchesLast /\ OthersRest(u)
  BY DEF Discard, Goto, Proceed, locals, OwnersInv, IInv, TypeOK, UploadType, BranchesLast, OthersRest
<1>2. \A v \in UploadID :
        pc[v] \in Opened => opened'[v] = opened[v] /\ pc'[v] \in Opened
  BY DEF Discard, Goto, Proceed, locals, Opened, Ended, OwnersInv, IInv, TypeOK, UploadType
<1>3. /\ PRsLast /\ DOMAIN prs' = DOMAIN prs
      /\ \A n \in DOMAIN prs :
           prs'[n].state = "orphaned" => prs[n].state = "orphaned" \/ Twins(prs[n].head)
  <2>1. CASE DeleteRef(branch[u])
    <3>1. branch[u] \in Second /\ RepoType /\ pc[u] \in {"stale", "discard", "cleanup"}
      BY DEF Discard, OwnersInv, IInv, TypeOK, Ready, OnTempBranch
    <3>2. \A n \in OpenPRs : prs[n].head = branch[u] => Twins(branch[u])
      BY <3>1, DeleterHasTwin
    <3> QED
      BY <2>1, <3>1, <3>2, DeleteLasts
  <2>2. CASE UNCHANGED prs
    BY <2>2 DEF PRsLast
  <2> QED
    BY <2>1, <2>2 DEF Discard, repo
<1>4. PlacedFor(u)'
  BY <1>3 DEF Discard, Goto, Proceed, locals, Opened, Ended, target, OwnersInv, Placed, PlacedFor,
              PRsLast, IInv, TypeOK, UploadType
<1> QED
  BY <1>1, <1>2, <1>3, <1>4, OwnersLast, OrphansLast, RestPlaced

LEMMA CleanupOwns ==
  ASSUME OwnersInv, NEW u \in UploadID, Cleanup(u)
  PROVE  Owned' /\ Placed' /\ OrphansNeedTwins' /\ PRsLast /\ BranchesLast
<1>1. BranchesLast /\ OthersRest(u)
  BY DEF Cleanup, Goto, Proceed, locals, OwnersInv, IInv, TypeOK, UploadType, BranchesLast, OthersRest
<1>2. \A v \in UploadID :
        pc[v] \in Opened => opened'[v] = opened[v] /\ pc'[v] \in Opened
  BY DEF Cleanup, Goto, Proceed, locals, Opened, Ended, OwnersInv, IInv, TypeOK, UploadType
<1>3. /\ PRsLast /\ DOMAIN prs' = DOMAIN prs
      /\ \A n \in DOMAIN prs :
           prs'[n].state = "orphaned" => prs[n].state = "orphaned" \/ Twins(prs[n].head)
  <2>1. CASE DeleteRef(branch[u])
    <3>1. branch[u] \in Second /\ RepoType /\ pc[u] \in {"stale", "discard", "cleanup"}
      BY DEF Cleanup, OwnersInv, IInv, TypeOK, Ready, OnTempBranch
    <3>2. \A n \in OpenPRs : prs[n].head = branch[u] => Twins(branch[u])
      BY <3>1, DeleterHasTwin
    <3> QED
      BY <2>1, <3>1, <3>2, DeleteLasts
  <2>2. CASE UNCHANGED prs
    BY <2>2 DEF PRsLast
  <2> QED
    BY <2>1, <2>2 DEF Cleanup, repo
<1>4. PlacedFor(u)'
  BY <1>3 DEF Cleanup, Goto, Proceed, locals, Opened, Ended, target, OwnersInv, Placed, PlacedFor,
              PRsLast, IInv, TypeOK, UploadType
<1> QED
  BY <1>1, <1>2, <1>3, <1>4, OwnersLast, OrphansLast, RestPlaced

LEMMA MergePRLasts ==
  ASSUME OwnersInv, NEW n \in OpenPRs, MergePR(n)
  PROVE  /\ PRsLast /\ DOMAIN prs' = DOMAIN prs /\ prs'[n].state = "merged"
         /\ \A m \in DOMAIN prs :
              prs'[m].state = "orphaned" => prs[m].state = "orphaned" \/ Twins(prs[m].head)
  BY ClosingLasts DEF MergePR, OwnersInv, IInv, TypeOK

LEMMA MergeOwns ==
  ASSUME OwnersInv, NEW u \in UploadID, Merge(u)
  PROVE  Owned' /\ Placed' /\ OrphansNeedTwins' /\ PRsLast /\ BranchesLast
<1>1. BranchesLast /\ OthersRest(u)
  BY DEF Merge, Goto, Proceed, locals, OwnersInv, IInv, TypeOK, UploadType, BranchesLast, OthersRest
<1>2. \A v \in UploadID :
        pc[v] \in Opened => opened'[v] = opened[v] /\ pc'[v] \in Opened
  BY DEF Merge, Goto, Proceed, locals, Opened, Ended, OwnersInv, IInv, TypeOK, UploadType
<1>3. target(u) \in DOMAIN prs
  BY DEF Merge, target, OwnersInv, IInv, Ready, TypeOK, UploadType
<1>4. /\ PRsLast /\ DOMAIN prs' = DOMAIN prs
      /\ \A n \in DOMAIN prs :
           prs'[n].state = "orphaned" => prs[n].state = "orphaned" \/ Twins(prs[n].head)
      /\ Mergeable(target(u)) => prs'[target(u)].state = "merged"
  <2>1. CASE Mergeable(target(u))
    <3>1. target(u) \in OpenPRs /\ MergePR(target(u))
      BY <1>3, <2>1 DEF Merge, Mergeable, OpenPRs
    <3> QED
      BY <3>1, MergePRLasts
  <2>2. CASE ~ Mergeable(target(u))
    BY <2>2 DEF Merge, repo, PRsLast
  <2> QED
    BY <2>1, <2>2
<1>5. target(u)' = target(u)
  BY DEF Merge, locals, target
<1>6. PlacedFor(u)'
  BY <1>3, <1>4, <1>5 DEF Merge, Goto, Proceed, locals, Opened, Ended, OwnersInv, Placed, PlacedFor,
              PRsLast, IInv, TypeOK, UploadType, Ready, OnTempBranch
<1> QED
  BY <1>1, <1>2, <1>4, <1>6, OwnersLast, OrphansLast, RestPlaced

LEMMA OpenPROwns ==
  ASSUME OwnersInv, NEW u \in UploadID, OpenPR(u)
  PROVE  Owned' /\ Placed' /\ OrphansNeedTwins' /\ PRsLast /\ BranchesLast
<1>1. BranchesLast /\ OthersRest(u)
  BY DEF OpenPR, Goto, Proceed, OwnersInv, IInv, TypeOK, UploadType, BranchesLast, OthersRest
<1>2. \A v \in UploadID :
        pc[v] \in Opened => opened'[v] = opened[v] /\ pc'[v] \in Opened
  BY DEF OpenPR, Goto, Proceed, Opened, Ended, OwnersInv, IInv, TypeOK, UploadType
<1>3. /\ branch[u] \in Second /\ RepoType /\ existing[u] = 0 /\ Named(u)
      /\ pc[u] = "open"
  BY TargetWriteAssumption
  DEF OpenPR, OwnersInv, IInv, TypeOK, Ready, OnTempBranch, Placed, PlacedFor, Named, Ended
<1>4. CASE Refused(branch[u])
  <2>1. prs' = prs
    BY <1>4 DEF OpenPR
  <2>2. PRsLast
    BY <2>1 DEF PRsLast
  <2>3. PlacedFor(u)'
    BY <1>4, <2>1 DEF OpenPR, Goto, Opened, Ended, target, OwnersInv, Placed, PlacedFor,
              IInv, TypeOK, UploadType
  <2> QED
    BY <1>1, <1>2, <2>1, <2>2, <2>3, QuietLasts, RestPlaced
<1>5. CASE ~ Refused(branch[u])
  <2>1. /\ prs' = Append(prs, [head |-> branch[u], state |-> "open"])
        /\ opened' = [opened EXCEPT ![u] = Len(prs) + 1]
        /\ pc'[u] \in {"ok", "failed", "poll"} /\ made'[u] # None
        /\ pc'[u] = "poll" => AutoMerge[u]
    BY <1>5 DEF OpenPR, Goto, Proceed, OwnersInv, Placed, PlacedFor, IInv, TypeOK, UploadType
  <2>2. /\ PRsLast /\ DOMAIN prs' = DOMAIN prs \cup {Len(prs) + 1}
        /\ Len(prs) + 1 \notin DOMAIN prs
        /\ prs'[Len(prs) + 1] = [head |-> branch[u], state |-> "open"]
        /\ \A n \in DOMAIN prs : prs'[n] = prs[n]
    BY <1>3, <2>1, OpenLasts
  <2>3. opened'[u] = Len(prs) + 1 /\ branch'[u] = branch[u] /\ existing'[u] = existing[u]
    BY <2>1 DEF OpenPR, OwnersInv, IInv, TypeOK, UploadType
  <2>4. Owned'
    <3> SUFFICES ASSUME NEW n \in DOMAIN prs' PROVE \E v \in UploadID : Owns(v, n)'
      BY DEF Owned
    <3>1. CASE n = Len(prs) + 1
      <4>1. Owns(u, n)'
        BY <3>1, <1>3, <2>1, <2>2, <2>3 DEF Owns, Named, Opened
      <4> QED
        BY <4>1
    <3>2. CASE n \in DOMAIN prs
      <4>1. PICK v \in UploadID : Owns(v, n)
        BY <3>2 DEF OwnersInv, Owned
      <4>2. v # u
        BY <4>1, <1>3 DEF Owns, Opened
      <4>3. Owns(v, n)'
        BY <4>1, <4>2, <3>2, <1>1, <2>2 DEF OthersRest, Owns, Named
      <4> QED
        BY <4>3
    <3> QED
      BY <2>2, <3>1, <3>2
  <2>5. PlacedFor(u)'
    BY <1>3, <2>1, <2>2, <2>3, BranchFacts
    DEF PlacedFor, Opened, Ended, Named, OwnersInv, Placed, IInv, TypeOK, UploadType, target
  <2>6. OrphansNeedTwins'
    <3> SUFFICES ASSUME NEW n \in DOMAIN prs', prs'[n].state = "orphaned"
                 PROVE  Twins(prs[n].head)'
      BY DEF OrphansNeedTwins
    <3>1. n \in DOMAIN prs /\ prs'[n] = prs[n]
      BY <2>2
    <3>2. prs[n] \in PRType
      BY <1>3, <3>1 DEF RepoType
    <3>3. PICK b \in Second : b = prs[n].head
      BY <3>2 DEF PRType
    <3>4. Twins(b)
      BY <3>1, <3>3 DEF OwnersInv, OrphansNeedTwins
    <3>5. Twins(b)'
      BY <3>4, <1>1, TwinsLast DEF OwnersInv
    <3> QED
      BY <3>1, <3>3, <3>5 DEF Twins
  <2> QED
    BY <1>1, <2>2, <2>4, <2>5, <2>6, RestPlaced
<1> QED
  BY <1>4, <1>5

(* Reviewers and others move no upload.                                    *)
LEMMA EnvironmentPlaced ==
  ASSUME OwnersInv, PRsLast, UNCHANGED <<pc, locals>>
  PROVE  Placed' /\ BranchesLast
<1>1. \A v \in UploadID :
        /\ existing[v] \in DOMAIN prs \cup {0} /\ opened[v] \in DOMAIN prs \cup {0}
        /\ target(v) \in DOMAIN prs \cup {0}
  BY DEF OwnersInv, IInv, TypeOK, UploadType, target
<1>2. \A v \in UploadID : target(v)' = target(v)
  BY DEF target, locals
<1> QED
  BY <1>1, <1>2 DEF OwnersInv, Placed, PlacedFor, PRsLast, BranchesLast, locals

LEMMA EnvironmentOwns ==
  ASSUME OwnersInv, OthersPush \/ TimePasses \/ UNCHANGED vars
  PROVE  Owned' /\ Placed' /\ OrphansNeedTwins' /\ PRsLast /\ BranchesLast
<1>1. prs' = prs /\ UNCHANGED <<pc, locals>>
  BY DEF OthersPush, TimePasses, vars, repo
<1>2. PRsLast
  BY <1>1 DEF PRsLast
<1>3. \A v \in UploadID :
        pc[v] \in Opened => opened'[v] = opened[v] /\ pc'[v] \in Opened
  BY <1>1 DEF locals
<1> QED
  BY <1>1, <1>2, <1>3, EnvironmentPlaced, QuietLasts

LEMMA ReviewOwns ==
  ASSUME OwnersInv, NEW n \in DOMAIN prs, Review(n) \/ DeleteReviewed(n)
  PROVE  Owned' /\ Placed' /\ OrphansNeedTwins' /\ PRsLast /\ BranchesLast
<1>1. UNCHANGED <<pc, locals>>
  BY DEF Review, DeleteReviewed
<1>2. /\ PRsLast /\ DOMAIN prs' = DOMAIN prs
      /\ \A m \in DOMAIN prs :
           prs'[m].state = "orphaned" => prs[m].state = "orphaned" \/ Twins(prs[m].head)
  <2>1. CASE Review(n) /\ MergePR(n)
    BY <2>1, MergePRLasts DEF Review, OpenPRs
  <2>2. CASE Review(n) /\ ~ MergePR(n)
    BY <2>2, ClosingLasts DEF Review, OpenPRs, OwnersInv, IInv, TypeOK
  <2>3. CASE DeleteReviewed(n)
    <3>1. prs[n] \in PRType /\ RepoType
      <4>1. RepoType /\ prs \in Seq(PRType)
        BY DEF OwnersInv, IInv, TypeOK, RepoType
      <4> QED
        BY <4>1
    <3>2. prs[n].head \in Second
      BY <3>1 DEF PRType
    <3> QED
      BY <2>3, <3>1, <3>2, DeleteLasts DEF DeleteReviewed
  <2> QED
    BY <2>1, <2>2, <2>3
<1>3. \A v \in UploadID :
        pc[v] \in Opened => opened'[v] = opened[v] /\ pc'[v] \in Opened
  BY <1>1 DEF locals
<1> QED
  BY <1>1, <1>2, <1>3, EnvironmentPlaced, OwnersLast, OrphansLast

LEMMA NextOwns ==
  ASSUME OwnersInv, [Next]_vars
  PROVE  OwnersInv' /\ PRsLast /\ BranchesLast
<1>1. IInv'
  BY NextStep, StutterStep DEF OwnersInv
<1>2. ASSUME NEW u \in UploadID, Start(u) \/ Step(u) \/ Fails(u)
      PROVE  Owned' /\ Placed' /\ OrphansNeedTwins' /\ PRsLast /\ BranchesLast
  BY <1>2, StartOwns, FindPROwns, FindNoPROwns, ReadBaseOwns, DeleteStaleOwns, CreateRefOwns,
     ReadHeadOwns, HeadMissingOwns, NothingToCommitOwns, DiscardOwns, PushOwns, OpenPROwns,
     PollOwns, MergeOwns, CleanupOwns, FailsOwns, Zenon DEF Step
<1>3. ASSUME NEW n \in DOMAIN prs, Review(n) \/ DeleteReviewed(n)
      PROVE  Owned' /\ Placed' /\ OrphansNeedTwins' /\ PRsLast /\ BranchesLast
  BY <1>3, ReviewOwns
<1>4. CASE OthersPush \/ TimePasses \/ UNCHANGED vars
  BY <1>1, <1>4, EnvironmentOwns DEF OwnersInv
<1> QED
  BY <1>1, <1>2, <1>3, <1>4, Zenon DEF Next, OwnersInv

LEMMA InitOwns ==
  ASSUME Init
  PROVE  OwnersInv
  BY InitInv DEF Init, OwnersInv, Owned, Placed, PlacedFor, OrphansNeedTwins, Opened, Ended, target

(* The branch of an open pull request is only deleted under it when two    *)
(* uploads named their branches in the same second, however many uploads,  *)
(* reviewers and seconds there are.                                        *)
THEOREM OrphansHaveTwins == Spec => []OrphansNeedTwins
<1>1. Init => OwnersInv
  BY InitOwns
<1>2. OwnersInv /\ [Next]_vars => OwnersInv'
  BY NextOwns
<1>3. OwnersInv => OrphansNeedTwins
  BY DEF OwnersInv
<1> QED
  BY <1>1, <1>2, <1>3, PTL DEF Spec

-----------------------------------------------------------------------------
(* Where the commit of an upload is: on its branch until the branch has    *)
(* been merged, unless a twin has replaced it, and then in the target.     *)
Merging(u) == pc[u] = "cleanup" \/ (pc[u] = "ok" /\ AutoMerge[u])

ReachesFor(u) ==
  made[u] # None =>
    /\ made[u] \in CommitID
    /\ Strategy[u] = "direct" => made[u] \in History(refs[Base])
    /\ Strategy[u] # "direct" /\ ~ Twins(branch[u]) =>
         /\ pc[u] \in {"open", "poll", "merge"} /\ refs[branch[u]] # None =>
              made[u] \in History(refs[branch[u]])
         /\ Merging(u) => made[u] \in History(refs[Base])

CommitsInv == OwnersInv /\ \A u \in UploadID : ReachesFor(u)

(* Commits do not change.                                                  *)
LEMMA CommitsLast ==
  ASSUME IInv, [Next]_vars, NEW c \in CommitID
  PROVE  c \in CommitID' /\ History(c)' = History(c)
<1>1. CommitID \subseteq CommitID'
  BY NextStep, StutterStep DEF Advance
<1>2. commits \in Seq(CommitType) /\ c \in 1 .. Len(commits)
  BY DEF IInv, TypeOK, RepoType, CommitID
<1>3. ASSUME NEW x, commits' = Append(commits, x) PROVE History(c)' = History(c)
  BY <1>2, <1>3 DEF History
<1>4. ASSUME commits' = commits PROVE History(c)' = History(c)
  BY <1>4 DEF History
<1>5. commits' = commits \/ \E x : commits' = Append(commits, x)
  <2>1. ASSUME NEW u \in UploadID, Start(u) \/ FindPR(u) \/ FindNoPR(u) \/ ReadBase(u)
                 \/ DeleteStale(u) \/ CreateRef(u) \/ ReadHead(u) \/ HeadMissing(u)
                 \/ NothingToCommit(u) \/ Discard(u) \/ OpenPR(u) \/ Poll(u) \/ Cleanup(u)
                 \/ Fails(u)
        PROVE  commits' = commits
    BY <2>1 DEF Start, FindPR, FindNoPR, ReadBase, DeleteStale, CreateRef, ReadHead,
         HeadMissing, NothingToCommit, Discard, OpenPR, Poll, Cleanup, Fails, DeleteRef, repo
  <2>2. ASSUME NEW u \in UploadID, Push(u) PROVE \E x : commits' = Append(commits, x)
    BY <2>2 DEF Push
  <2>3. ASSUME NEW u \in UploadID, Merge(u)
        PROVE commits' = commits \/ \E x : commits' = Append(commits, x)
    BY <2>3 DEF Merge, MergePR, repo
  <2>4. ASSUME NEW n \in DOMAIN prs, Review(n) \/ DeleteReviewed(n)
        PROVE commits' = commits \/ \E x : commits' = Append(commits, x)
    BY <2>4 DEF Review, DeleteReviewed, MergePR, DeleteRef
  <2>5. CASE OthersPush \/ TimePasses \/ UNCHANGED vars
    BY <2>5 DEF OthersPush, TimePasses, vars, repo
  <2> QED
    BY <2>1, <2>2, <2>3, <2>4, <2>5, Zenon DEF Next, Step
<1> QED
  BY <1>1, <1>3, <1>4, <1>5

(* What a step does to a temporary branch: nothing, delete it, put a       *)
(* commit on its head, or create it.                                       *)
Creating(b) == \E v \in UploadID : pc[v] = "create" /\ branch[v] = b

RefLasts(b) ==
  \/ refs'[b] = refs[b]
  \/ refs'[b] = None
  \/ refs[b] # None /\ refs'[b] \in CommitID' /\ refs[b] \in History(refs[b])'
  \/ Creating(b)

LEMMA PushedHead ==
  ASSUME IInv, NEW u \in UploadID, Push(u), refs' # refs, NEW id, id = Len(commits) + 1
  PROVE  /\ made'[u] = id /\ id \in CommitID'
         /\ refs' = [refs EXCEPT ![branch[u]] = id]
         /\ refs[branch[u]] # None
         /\ refs[branch[u]] \in History(id)'
<1> DEFINE commit == Commit(NewTree(u, parent[u]), {parent[u]})
<1>1. FastForward(branch[u], commit) /\ commits' = Append(commits, commit)
  BY DEF Push
<1>2. /\ made'[u] = id
      /\ refs' = [refs EXCEPT ![branch[u]] = id]
  BY <1>1 DEF Push, IInv, TypeOK, UploadType
<1>3. commits'[id] = commit
  BY <1>1 DEF IInv, TypeOK, RepoType
<1>4. id \in CommitID'
  BY <1>1 DEF CommitID, IInv, TypeOK, RepoType
<1> QED
  BY <1>1, <1>2, <1>3, <1>4 DEF FastForward, History

LEMMA RefsLast ==
  ASSUME IInv, [Next]_vars, NEW b \in Second
  PROVE  RefLasts(b)
<1>0. b \in Branch /\ b # Base
  BY BranchFacts
<1>1. refs \in [Branch -> CommitID \cup {None}]
  BY DEF IInv, TypeOK, RepoType
<1>2. ASSUME NEW u \in UploadID, Start(u) \/ FindPR(u) \/ FindNoPR(u) \/ ReadBase(u)
               \/ ReadHead(u) \/ HeadMissing(u) \/ NothingToCommit(u) \/ OpenPR(u)
               \/ Poll(u) \/ Fails(u)
      PROVE  RefLasts(b)
  BY <1>2 DEF Start, FindPR, FindNoPR, ReadBase, ReadHead, HeadMissing, NothingToCommit,
       OpenPR, Poll, Fails, repo, RefLasts
<1>3. ASSUME NEW u \in UploadID, DeleteStale(u) \/ Discard(u) \/ Cleanup(u)
      PROVE  RefLasts(b)
  BY <1>0, <1>1, <1>3 DEF DeleteStale, Discard, Cleanup, DeleteRef, repo, RefLasts
<1>4. ASSUME NEW u \in UploadID, CreateRef(u) PROVE RefLasts(b)
  BY <1>0, <1>1, <1>4 DEF CreateRef, RefLasts, Creating
<1>5. ASSUME NEW u \in UploadID, Push(u) PROVE RefLasts(b)
  <2>1. CASE refs' = refs
    BY <2>1 DEF RefLasts
  <2>2. CASE refs' # refs
    <3>0. PICK id : id = Len(commits) + 1
      OBVIOUS
    <3>1. /\ id \in CommitID'
          /\ refs' = [refs EXCEPT ![branch[u]] = id]
          /\ refs[branch[u]] # None
          /\ refs[branch[u]] \in History(id)'
      BY <1>5, <2>2, <3>0, PushedHead
    <3>2. CASE branch[u] = b
      <4>1. refs'[b] = id
        BY <1>0, <1>1, <3>1, <3>2
      <4> QED
        BY <3>1, <3>2, <4>1 DEF RefLasts, History
    <3>3. CASE branch[u] # b
      BY <1>0, <1>1, <3>1, <3>3 DEF RefLasts
    <3> QED
      BY <3>2, <3>3
  <2> QED
    BY <2>1, <2>2
<1>6. ASSUME NEW u \in UploadID, Merge(u) PROVE RefLasts(b)
  BY <1>0, <1>1, <1>6 DEF Merge, MergePR, repo, RefLasts
<1>7. ASSUME NEW n \in DOMAIN prs, Review(n) \/ DeleteReviewed(n) PROVE RefLasts(b)
  BY <1>0, <1>1, <1>7 DEF Review, DeleteReviewed, MergePR, DeleteRef, RefLasts
<1>8. CASE OthersPush \/ TimePasses \/ UNCHANGED vars
  BY <1>0, <1>1, <1>8 DEF OthersPush, TimePasses, vars, repo, RefLasts
<1> QED
  BY <1>2, <1>3, <1>4, <1>5, <1>6, <1>7, <1>8, Zenon DEF Next, Step

(* A branch that is created anew is that of another upload of the second.  *)
LEMMA CreatorHasTwin ==
  ASSUME OwnersInv, NEW u \in UploadID, pc[u] \in {"open", "poll", "merge"},
         Strategy[u] # "direct", Creating(branch[u])
  PROVE  Twins(branch[u])
<1>1. PICK v \in UploadID : pc[v] = "create" /\ branch[v] = branch[u]
  BY DEF Creating
<1>2. Named(v) /\ v # u
  BY <1>1, TargetWriteAssumption DEF Named, OwnersInv, Placed, PlacedFor, Ended
<1>3. CASE existing[u] = 0
  <2>1. Named(u)
    BY <1>3, TargetWriteAssumption DEF Named
  <2> QED
    BY <1>1, <1>2, <2>1 DEF Twins
<1>4. CASE existing[u] # 0
  <2>1. existing[u] \in DOMAIN prs /\ branch[u] = prs[existing[u]].head
    BY <1>4 DEF OwnersInv, Placed, PlacedFor, IInv, TypeOK, UploadType
  <2>2. PICK w \in UploadID : Owns(w, existing[u])
    BY <2>1 DEF OwnersInv, Owned
  <2>3. w # v
    BY <1>1, <2>2 DEF Owns, Opened
  <2> QED
    BY <1>1, <1>2, <2>1, <2>2, <2>3 DEF Owns, Twins
<1> QED
  BY <1>3, <1>4

(* An upload whose commit is there keeps it there, whatever others do and  *)
(* however it goes on, short of merging.                                   *)
LEMMA ReachesStill ==
  ASSUME CommitsInv, [Next]_vars, NEW u \in UploadID,
         made'[u] = made[u], branch'[u] = branch[u],
         pc'[u] \in {"open", "poll", "merge"} => pc[u] \in {"open", "poll", "merge"},
         Merging(u)' => Merging(u)
  PROVE  ReachesFor(u)'
<1> SUFFICES ASSUME made[u] # None
             PROVE  ReachesFor(u)'
  BY DEF ReachesFor
<1>0. ReachesFor(u) /\ OwnersInv /\ IInv
  BY DEF CommitsInv, OwnersInv
<1>1. made[u] \in CommitID' /\ HistoriesClosed' /\ BranchesLast
  BY <1>0, CommitsLast, NextOwns DEF ReachesFor, OwnersInv, IInv
<1>2. made[u] \in History(refs[Base]) => made[u] \in History(refs[Base])'
  BY <1>0, NextStep, StutterStep DEF Advance
<1>3. ASSUME Strategy[u] # "direct", ~ Twins(branch[u])',
             pc'[u] \in {"open", "poll", "merge"}, refs'[branch[u]] # None
      PROVE  made[u] \in History(refs[branch[u]])'
  <2>1. branch[u] \in Second
    BY <1>0, <1>3 DEF IInv, Ready, OnTempBranch
  <2>2. PICK b \in Second : b = branch[u]
    BY <2>1
  <2>3. ~ Twins(b)
    <3>1. Twins(b) => Twins(b)'
      BY <1>0, <1>1, TwinsLast DEF OwnersInv
    <3> QED
      BY <3>1, <1>3, <2>2 DEF Twins
  <2>4. RefLasts(b) /\ ~ Creating(b)
    BY <1>0, <1>3, <2>2, <2>3, RefsLast, CreatorHasTwin
  <2>5. refs'[b] # None
    BY <1>3, <2>2
  <2>6. refs[b] # None
    BY <2>4, <2>5 DEF RefLasts
  <2>7. made[u] \in History(refs[b])
    BY <1>0, <1>3, <2>2, <2>3, <2>6 DEF ReachesFor
  <2>8. PICK h \in CommitID : h = refs[b]
    BY <1>0, <2>6, BranchFacts DEF IInv, TypeOK, RepoType
  <2>9. History(h)' = History(h) /\ h \in CommitID'
    BY <1>0, CommitsLast
  <2>10. History(h)' \subseteq History(refs[b])'
    <3>1. CASE refs'[b] = refs[b]
      BY <3>1, <2>8 DEF History
    <3>2. CASE refs'[b] \in CommitID' /\ refs[b] \in History(refs[b])'
      BY <3>2, <2>8, <1>1 DEF HistoriesClosed
    <3> QED
      BY <3>1, <3>2, <2>4, <2>5 DEF RefLasts
  <2> QED
    BY <2>2, <2>7, <2>8, <2>9, <2>10 DEF History
<1>4. ASSUME Strategy[u] # "direct", ~ Twins(branch[u])', Merging(u)'
      PROVE  made[u] \in History(refs[Base])'
  <2>1. Merging(u) /\ branch[u] \in Second
    BY <1>0, <1>4 DEF OwnersInv, Placed, PlacedFor
  <2>2. PICK b \in Second : b = branch[u]
    BY <2>1
  <2>3. Twins(b) => Twins(b)'
    BY <1>0, <1>1, TwinsLast DEF OwnersInv
  <2>4. ~ Twins(branch[u])
    BY <2>2, <2>3, <1>4 DEF Twins
  <2> QED
    BY <1>0, <1>2, <1>4, <2>1, <2>4 DEF ReachesFor
<1> QED
  BY <1>0, <1>1, <1>2, <1>3, <1>4 DEF ReachesFor

(* All steps but its own push and merge are of that kind.                  *)
Quiet(u) ==
  /\ made'[u] = made[u]
  /\ made[u] # None =>
       /\ branch'[u] = branch[u]
       /\ pc'[u] \in {"open", "poll", "merge"} => pc[u] \in {"open", "poll", "merge"}
       /\ Merging(u)' => Merging(u)

LEMMA QuietSteps ==
  ASSUME OwnersInv, [Next]_vars, NEW u \in UploadID
  PROVE  Quiet(u) \/ Push(u) \/ Merge(u)
<1>1. ASSUME NEW v \in UploadID, Start(v) \/ FindPR(v) \/ FindNoPR(v) \/ ReadBase(v)
               \/ DeleteStale(v) \/ CreateRef(v) \/ ReadHead(v) \/ HeadMissing(v)
               \/ NothingToCommit(v) \/ Discard(v) \/ Push(v)
      PROVE  Quiet(u) \/ Push(u)
  <2>1. CASE v # u
    <3>1. made'[u] = made[u] /\ branch'[u] = branch[u]
      BY <1>1, <2>1 DEF Start, FindPR, FindNoPR, ReadBase, DeleteStale, CreateRef, ReadHead,
           HeadMissing, NothingToCommit, Discard, Push, locals, OwnersInv, IInv, TypeOK, UploadType
    <3>2. pc'[u] = pc[u]
      BY <1>1, <2>1 DEF Start, FindPR, FindNoPR, ReadBase, DeleteStale, CreateRef, ReadHead,
           HeadMissing, NothingToCommit, Discard, Push, Goto, Proceed, OwnersInv, IInv, TypeOK,
           UploadType
    <3> QED
      BY <3>1, <3>2 DEF Quiet, Merging
  <2>2. CASE v = u /\ ~ Push(u)
    <3>1. made[u] = None
      BY <1>1, <2>2 DEF Start, FindPR, FindNoPR, ReadBase, DeleteStale, CreateRef, ReadHead,
           HeadMissing, NothingToCommit, Discard, OwnersInv, Placed, PlacedFor
    <3>2. made' = made
      BY <1>1, <2>2 DEF Start, FindPR, FindNoPR, ReadBase, DeleteStale, CreateRef, ReadHead,
           HeadMissing, NothingToCommit, Discard, locals
    <3> QED
      BY <3>1, <3>2 DEF Quiet
  <2> QED
    BY <2>1, <2>2
<1>2. ASSUME NEW v \in UploadID, OpenPR(v) \/ Poll(v) \/ Cleanup(v) \/ Fails(v) \/ Merge(v)
      PROVE  Quiet(u) \/ Merge(u)
  <2>1. CASE v # u
    BY <1>2, <2>1 DEF OpenPR, Poll, Cleanup, Fails, Merge, Goto, Proceed, locals, Quiet,
         Merging, OwnersInv, IInv, TypeOK, UploadType
  <2>2. CASE v = u /\ OpenPR(u)
    BY <2>2 DEF OpenPR, Goto, Proceed, Quiet, Merging, OwnersInv, IInv, TypeOK, UploadType
  <2>3. CASE v = u /\ (Poll(u) \/ Cleanup(u) \/ Fails(u))
    BY <2>3 DEF Poll, Cleanup, Fails, Goto, locals, Quiet, Merging, OwnersInv, IInv, TypeOK, UploadType
  <2> QED
    BY <1>2, <2>1, <2>2, <2>3
<1>3. ASSUME NEW n \in DOMAIN prs, Review(n) \/ DeleteReviewed(n) PROVE Quiet(u)
  BY <1>3 DEF Review, DeleteReviewed, locals, Quiet, Merging
<1>4. CASE OthersPush \/ TimePasses \/ UNCHANGED vars
  BY <1>4 DEF OthersPush, TimePasses, vars, locals, Quiet, Merging
<1> QED
  BY <1>1, <1>2, <1>3, <1>4, Zenon DEF Next, Step

LEMMA PushReaches ==
  ASSUME CommitsInv, NEW u \in UploadID, Push(u)
  PROVE  ReachesFor(u)'
<1>0. IInv /\ OwnersInv /\ HistoriesClosed' /\ IInv' /\ made[u] = None
  BY PushStep DEF CommitsInv, OwnersInv, IInv, Placed, PlacedFor, Push
<1>1. CASE refs' = refs
  <2>1. made'[u] = None
    BY <1>0, <1>1 DEF Push, IInv, TypeOK, RepoType, UploadType, CommitID
  <2> QED
    BY <2>1 DEF ReachesFor
<1>2. CASE refs' # refs
  <2>0. PICK id : id = Len(commits) + 1
    OBVIOUS
  <2>1. /\ made'[u] = id /\ id \in CommitID'
        /\ refs' = [refs EXCEPT ![branch[u]] = id]
    BY <1>0, <1>2, <2>0, PushedHead
  <2>2. branch'[u] = branch[u] /\ refs'[branch[u]] = id /\ id \in History(id)'
    BY <1>0, <2>1 DEF Push, IInv, TypeOK, RepoType, UploadType, HistoriesClosed
  <2>3. ~ Merging(u)' \/ Strategy[u] = "direct"
    BY <1>0 DEF Push, Goto, Proceed, Merging, IInv, TypeOK, UploadType
  <2>4. Strategy[u] = "direct" => branch[u] = Base
    BY <1>0 DEF OwnersInv, Placed, PlacedFor
  <2> QED
    BY <2>1, <2>2, <2>3, <2>4 DEF ReachesFor, History
<1> QED
  BY <1>1, <1>2

LEMMA MergeReaches ==
  ASSUME CommitsInv, NEW u \in UploadID, Merge(u)
  PROVE  ReachesFor(u)'
<1>0. /\ IInv /\ OwnersInv /\ HistoriesClosed' /\ ReachesFor(u) /\ pc[u] = "merge"
      /\ branch'[u] = branch[u] /\ made'[u] = made[u]
  BY MergeStep DEF CommitsInv, OwnersInv, IInv, Merge, locals
<1>1. Strategy[u] # "direct" /\ made[u] # None
  BY <1>0 DEF OwnersInv, Placed, PlacedFor, Ended
<1>2. made[u] \in CommitID /\ made[u] \in CommitID'
  BY <1>0, <1>1, MergeStep DEF ReachesFor, Advance
<1>3. CASE ~ Mergeable(target(u))
  <2>1. pc'[u] = "failed"
    BY <1>0, <1>3 DEF Merge, Goto, IInv, TypeOK, UploadType
  <2> QED
    BY <1>0, <1>1, <1>2, <2>1 DEF ReachesFor, Merging
<1>4. CASE Mergeable(target(u))
  <2>1. /\ target(u) \in OpenPRs /\ MergePR(target(u))
        /\ pc'[u] \in {"cleanup", "failed"}
    BY <1>0, <1>4
    DEF Merge, Mergeable, OpenPRs, Goto, Proceed, target, IInv, TypeOK, UploadType, Ready
  <2>2. prs[target(u)].head = branch[u]
    BY <1>0 DEF OwnersInv, Placed, PlacedFor, IInv, Ready, target
  <2>3. refs[branch[u]] \in CommitID
    BY <1>0, <2>1, <2>2, OpenHead DEF IInv, TypeOK
  <2>4. PICK id : id = Len(commits) + 1
    OBVIOUS
  <2>5. PICK c : c = Commit(Merged(refs[branch[u]], refs[Base]), {refs[branch[u]], refs[Base]})
    OBVIOUS
  <2>6. commits' = Append(commits, c) /\ refs' = [refs EXCEPT ![Base] = id]
    BY <2>1, <2>2, <2>4, <2>5 DEF MergePR
  <2>7. commits'[id] = c /\ refs'[Base] = id
    BY <1>0, <2>4, <2>6, BranchFacts DEF IInv, TypeOK, RepoType
  <2>8. History(refs[branch[u]]) \subseteq c.history
    BY <2>5 DEF Commit
  <2>9. ~ Twins(branch[u])' => made[u] \in History(refs[branch[u]])
    <3>1. Twins(branch[u]) => Twins(branch[u])'
      BY DEF Twins, Named, Merge, locals
    <3> QED
      BY <1>0, <1>1, <2>3, <3>1 DEF ReachesFor, IInv, TypeOK, RepoType, CommitID, None
  <2> QED
    BY <1>0, <1>1, <1>2, <2>1, <2>7, <2>8, <2>9 DEF ReachesFor, Merging, History
<1> QED
  BY <1>3, <1>4

LEMMA NextReaches ==
  ASSUME CommitsInv, [Next]_vars
  PROVE  CommitsInv'
<1>1. OwnersInv'
  BY NextOwns DEF CommitsInv
<1>2. ASSUME NEW u \in UploadID PROVE ReachesFor(u)'
  <2>1. CASE Quiet(u)
    <3>1. CASE made[u] = None
      BY <2>1, <3>1 DEF Quiet, ReachesFor
    <3>2. CASE made[u] # None
      BY <2>1, <3>2, ReachesStill DEF Quiet
    <3> QED
      BY <3>1, <3>2
  <2>2. CASE Push(u)
    BY <2>2, PushReaches
  <2>3. CASE Merge(u)
    BY <2>3, MergeReaches
  <2> QED
    BY <2>1, <2>2, <2>3, QuietSteps DEF CommitsInv
<1> QED
  BY <1>1, <1>2 DEF CommitsInv

(* An upload that was direct or to be merged and is reported ok has its    *)
(* commit in the target branch, for any number of uploads and seconds.     *)
THEOREM OkMeansMerged == Spec => []OkIsInBase
<1>1. Init => CommitsInv
  BY InitOwns DEF Init, CommitsInv, ReachesFor
<1>2. CommitsInv /\ [Next]_vars => CommitsInv'
  BY NextReaches
<1>3. CommitsInv => OkIsInBase
  BY DEF CommitsInv, ReachesFor, OkIsInBase, Merging
<1> QED
  BY <1>1, <1>2, <1>3, PTL DEF Spec

-----------------------------------------------------------------------------
(* An upload that has the repository to itself, but for pushes to the      *)
(* target: nobody else is at work, the pull request it has found stays     *)
(* open, and the branch it has pushed to stays where it is.                *)
UndisturbedFor(u) ==
  Working(u) /\ alone[u] =>
    /\ \A v \in UploadID : Working(v) => v = u
    /\ existing[u] # 0 /\ pc[u] \in {"read", "push"} => prs[existing[u]].state = "open"
    /\ pc[u] = "open" => refs[branch[u]] = made[u]

AloneInv == OwnersInv /\ \A u \in UploadID : UndisturbedFor(u)

LEMMA StartAlone ==
  ASSUME AloneInv, NEW u \in UploadID, NEW v \in UploadID, Start(v)
  PROVE  UndisturbedFor(u)'
<1>1. CASE v = u
  BY <1>1 DEF Start, Goto, Working, UndisturbedFor, Ended, locals,
       AloneInv, OwnersInv, IInv, TypeOK, UploadType, Placed, PlacedFor
<1>2. CASE v # u
  BY <1>2 DEF Start, Goto, Working, UndisturbedFor, Ended, locals,
       AloneInv, OwnersInv, IInv, TypeOK, UploadType
<1> QED
  BY <1>1, <1>2

LEMMA StepAlone ==
  ASSUME AloneInv, NEW u \in UploadID, NEW v \in UploadID, Step(v) \/ Fails(v)
  PROVE  UndisturbedFor(u)'
<1> SUFFICES ASSUME Working(u)', alone'[u]
             PROVE  UndisturbedFor(u)'
  BY DEF UndisturbedFor
<1>1. Working(v) /\ alone' = alone /\ \A w \in UploadID : w # v => pc'[w] = pc[w]
  BY DEF Step, Fails, FindPR, FindNoPR, ReadBase, DeleteStale, CreateRef, ReadHead,
         HeadMissing, NothingToCommit, Discard, Push, OpenPR, Poll, Merge, Cleanup,
         Working, Ended, Goto, Proceed, AloneInv, OwnersInv, IInv, TypeOK, UploadType
<1>2. v = u
  BY <1>1 DEF AloneInv, UndisturbedFor, Working
<1>3. \A w \in UploadID : Working(w)' => w = u
  BY <1>1, <1>2 DEF AloneInv, UndisturbedFor, Working
<1>4. existing'[u] # 0 /\ pc'[u] \in {"read", "push"} => prs'[existing'[u]].state = "open"
  <2>1. CASE FindPR(u)
    BY <2>1 DEF FindPR, repo, OpenPRs, AloneInv, OwnersInv, IInv, TypeOK, UploadType
  <2>2. CASE CreateRef(u) \/ FindNoPR(u)
    BY <2>2 DEF CreateRef, FindNoPR, locals, AloneInv, OwnersInv, Placed, PlacedFor
  <2>3. CASE ReadHead(u)
    BY <1>1, <1>2, <2>3 DEF ReadHead, repo, AloneInv, UndisturbedFor
  <2> QED
    BY <1>2, <2>1, <2>2, <2>3
    DEF Step, Fails, ReadBase, DeleteStale, HeadMissing, NothingToCommit, Discard, Push, OpenPR,
        Poll, Merge, Cleanup, Goto, Proceed, AloneInv, OwnersInv, IInv, TypeOK, UploadType
<1>5. pc'[u] = "open" => (refs[branch[u]] = made[u])'
  <2>1. CASE Push(u)
    BY <2>1 DEF Push, Goto, Proceed, AloneInv, OwnersInv, IInv, TypeOK, RepoType, UploadType
  <2> QED
    BY <1>2, <2>1
    DEF Step, Fails, FindPR, FindNoPR, ReadBase, DeleteStale, CreateRef, ReadHead, HeadMissing,
        NothingToCommit, Discard, OpenPR,
        Poll, Merge, Cleanup, Goto, Proceed, AloneInv, OwnersInv, IInv, TypeOK, UploadType
<1> QED
  BY <1>3, <1>4, <1>5 DEF UndisturbedFor

LEMMA EnvironmentAlone ==
  ASSUME AloneInv, NEW u \in UploadID,
         \/ \E n \in DOMAIN prs : Review(n) \/ DeleteReviewed(n)
         \/ OthersPush \/ TimePasses \/ UNCHANGED vars
  PROVE  UndisturbedFor(u)'
<1>1. CASE \E n \in DOMAIN prs : Review(n) \/ DeleteReviewed(n)
  BY <1>1 DEF Review, DeleteReviewed, Working, UndisturbedFor
<1>2. CASE OthersPush
  <2>1. pc[u] = "open" => branch[u] \in Branch /\ branch[u] # Base
    BY BranchFacts DEF AloneInv, OwnersInv, IInv, Ready, OnTempBranch
  <2> QED
    BY <1>2, <2>1 DEF OthersPush, locals, Working, UndisturbedFor, AloneInv, OwnersInv, IInv, TypeOK, RepoType
<1>3. CASE TimePasses \/ UNCHANGED vars
  BY <1>3 DEF TimePasses, vars, repo, locals, Working, UndisturbedFor, AloneInv
<1> QED
  BY <1>1, <1>2, <1>3

LEMMA NextAlone ==
  ASSUME AloneInv, [Next]_vars
  PROVE  AloneInv'
<1>1. OwnersInv'
  BY NextOwns DEF AloneInv
<1>2. \A u \in UploadID : UndisturbedFor(u)'
  BY StartAlone, StepAlone, EnvironmentAlone, Zenon DEF Next
<1> QED
  BY <1>1, <1>2 DEF AloneInv

(* The steps that end an upload.                                           *)
LEMMA EndsWithProposal ==
  ASSUME AloneInv, [Next]_vars, NEW u \in UploadID,
         pc[u] # "ok", pc'[u] = "ok", made'[u] # None,
         Strategy[u] = "pull_request", ~ AutoMerge[u], alone[u]
  PROVE  Proposed(u)'
<1>0. OwnersInv /\ IInv /\ IInv' /\ Strategy[u] # "direct"
  BY NextStep, StutterStep DEF AloneInv, OwnersInv
<1>1. Push(u) \/ OpenPR(u)
  <2>1. ASSUME NEW v \in UploadID, Start(v) \/ Step(v) \/ Fails(v), v # u PROVE FALSE
    <3>1. pc'[u] = pc[u]
      BY <1>0, <2>1
      DEF Start, Step, Fails, FindPR, FindNoPR, ReadBase, DeleteStale, CreateRef, ReadHead,
          HeadMissing, NothingToCommit, Discard, Push, OpenPR, Poll, Merge, Cleanup,
          Goto, Proceed, IInv, TypeOK, UploadType
    <3> QED
      BY <3>1
  <2>2. CASE Start(u) \/ FindPR(u) \/ FindNoPR(u) \/ ReadBase(u) \/ DeleteStale(u)
             \/ CreateRef(u) \/ ReadHead(u) \/ HeadMissing(u) \/ Poll(u) \/ Merge(u) \/ Fails(u)
    <3>1. pc'[u] # "ok"
      BY <1>0, <2>2
      DEF Start, FindPR, FindNoPR, ReadBase, DeleteStale, CreateRef, ReadHead, HeadMissing, Poll,
          Merge, Fails, Goto, Proceed, IInv, TypeOK, UploadType
    <3> QED
      BY <3>1
  <2>3. CASE NothingToCommit(u) \/ Discard(u) \/ Cleanup(u)
    BY <1>0, <2>3 DEF NothingToCommit, Discard, Cleanup, locals, OwnersInv, Placed, PlacedFor
  <2>4. CASE \E n \in DOMAIN prs : Review(n) \/ DeleteReviewed(n)
    BY <2>4 DEF Review, DeleteReviewed
  <2>5. CASE OthersPush \/ TimePasses \/ UNCHANGED vars
    BY <2>5 DEF OthersPush, TimePasses, vars
  <2> QED
    BY <2>1, <2>2, <2>3, <2>4, <2>5, Zenon DEF Next, Step
<1>2. CASE Push(u)
  <2>0. PICK id : id = Len(commits) + 1
    OBVIOUS
  <2>1. refs' # refs /\ existing[u] # 0
    BY <1>0, <1>2 DEF Push, Goto, Proceed, OwnersInv, Placed, PlacedFor, IInv, TypeOK, UploadType,
                      RepoType, CommitID
  <2>2. /\ made'[u] = id /\ id \in CommitID'
        /\ refs' = [refs EXCEPT ![branch[u]] = id]
    BY <1>0, <1>2, <2>0, <2>1, PushedHead
  <2>3. refs'[branch[u]] = id /\ id \in History(id)'
    BY <1>0, <2>2 DEF IInv, TypeOK, RepoType, UploadType, HistoriesClosed
  <2>4. /\ existing[u] \in OpenPRs' /\ prs'[existing[u]].head = branch[u]
    BY <1>0, <1>2, <2>1
    DEF AloneInv, UndisturbedFor, Working, Ended, Push, OpenPRs, OwnersInv, Placed, PlacedFor,
        IInv, TypeOK, UploadType
  <2> QED
    BY <2>2, <2>3, <2>4 DEF Proposed, History
<1>3. CASE OpenPR(u)
  <2>1. /\ ~ Refused(branch[u]) /\ pc[u] = "open" /\ branch[u] \in Second
        /\ refs' = refs /\ made' = made /\ commits' = commits
    BY <1>0, <1>3 DEF OpenPR, Goto, OwnersInv, IInv, TypeOK, UploadType, Ready, OnTempBranch
  <2>2. prs' = Append(prs, [head |-> branch[u], state |-> "open"])
    BY <1>3, <2>1 DEF OpenPR
  <2>3. PICK n : n = Len(prs) + 1
    OBVIOUS
  <2>4. n \in OpenPRs' /\ prs'[n].head = branch[u]
    BY <1>0, <2>1, <2>2, <2>3, OpenLasts DEF OpenPRs, IInv, TypeOK
  <2>5. refs[branch[u]] = made[u]
    BY <2>1 DEF AloneInv, UndisturbedFor, Working, Ended
  <2>6. made[u] \in CommitID
    BY <1>0, <2>1, <2>5, BranchFacts DEF Refused, IInv, TypeOK, RepoType
  <2>7. made[u] \in History(refs[branch[u]])
    BY <1>0, <2>5, <2>6 DEF IInv, HistoriesClosed
  <2> QED
    BY <2>1, <2>4, <2>7 DEF Proposed, History
<1> QED
  BY <1>1, <1>2, <1>3

(* An upload left for review that nobody has disturbed is in an open pull  *)
(* request when it is reported ok.                                         *)
THEOREM LeftForReview == Spec => EndsProposed
<1>1. Init => AloneInv
  BY InitOwns DEF Init, AloneInv, UndisturbedFor
<1>2. AloneInv /\ [Next]_vars => AloneInv'
  BY NextAlone
<1>3. AloneInv /\ [Next]_vars =>
        [\A u \in UploadID :
           /\ pc[u] # "ok" /\ pc'[u] = "ok" /\ made'[u] # None
           /\ Strategy[u] = "pull_request" /\ ~ AutoMerge[u] /\ alone[u]
           => Proposed(u)']_vars
  BY EndsWithProposal, Zenon
<1> QED
  BY <1>1, <1>2, <1>3, PTL DEF Spec, EndsProposed
=============================================================================

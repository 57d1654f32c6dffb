------------------------------ MODULE TargetWrite ------------------------------
(***************************************************************************)
(* How batches of files reach one branch of a target repository            *)
(* (uploadToTarget): committed directly, or through a pull request from a  *)
(* temporary branch that is merged at once or left for review.             *)
(*                                                                         *)
(* Uploads of different deliveries run side by side, and each call of the  *)
(* GitHub API is a step of its own.  The repository is the external part:  *)
(* its commits, branches and pull requests, reviewers who merge or close   *)
(* them, and others who push to the target branch.  A temporary branch is  *)
(* named after the second in which it is created, so it is that second     *)
(* here.  Messages, titles and bodies are left out, and with them the      *)
(* edit of a pull request that exists, whose failure is only logged.       *)
(***************************************************************************)
EXTENDS Integers, Sequences, FiniteSets

CONSTANTS
  UploadID,     \* the batches to upload to this branch
  Path,         \* the files of the repository
  Version,      \* their contents
  Files,        \* Files[u]: the paths batch u writes
  Content,      \* Content[u]: what it writes there
  Strategy,     \* Strategy[u]: "direct" or "pull_request"
  AutoMerge,    \* AutoMerge[u]: merge without review?
  Theirs,       \* what others write
  InitialTree,  \* the target branch at the start
  MaxPushes,    \* bound: pushes to the target branch by others
  MaxSecond,    \* bound: seconds of the clock
  MayReview,    \* do reviewers merge and close pull requests?
  MayFail       \* may calls of the API fail, before or after their effect?

ASSUME TargetWriteAssumption ==
  /\ Files \in [UploadID -> SUBSET Path]
  /\ Content \in [UploadID -> Version]
  /\ Strategy \in [UploadID -> {"direct", "pull_request"}]
  /\ AutoMerge \in [UploadID -> BOOLEAN]
  /\ Theirs \in Version
  /\ InitialTree \in [Path -> Version]
  /\ MaxPushes \in Nat
  /\ MaxSecond \in Nat \ {0}
  /\ MayReview \in BOOLEAN
  /\ MayFail \in BOOLEAN

VARIABLES
  commits,   \* the commits of the repository, in the order they were made
  refs,      \* refs[b]: the head of branch b, None where there is no branch
  prs,       \* the pull requests, in the order they were opened
  clock,     \* the second
  pushes,    \* pushes by others so far
  pc,        \* pc[u]: where the upload of u stands
  branch,    \* branch[u]: the branch it commits to
  existing,  \* existing[u]: the open pull request it has found, 0 if none
  opened,    \* opened[u]: the pull request it has opened, 0 if none
  parent,    \* parent[u]: the head it has read
  made,      \* made[u]: the commit it has put on the branch
  alone      \* history: has no other upload run and no reviewer acted beside u?

repo   == <<commits, refs, prs>>
locals == <<branch, existing, opened, parent, made>>
vars   == <<repo, clock, pushes, pc, locals, alone>>

Second == 1 .. MaxSecond
Base   == 0
Branch == {Base} \cup Second
None   == 0
CommitID == DOMAIN commits

-----------------------------------------------------------------------------
(* The repository: a commit has a tree and its history, itself included.   *)

History(c) == commits[c].history
TreeOf(c)  == commits[c].tree

Commit(tree, parents) ==
  [tree |-> tree,
   history |-> {Len(commits) + 1} \cup UNION {History(c) : c \in parents}]

Mut_ForcedUpdate(b, commit) == refs[b] # None

(* UpdateRef without force: a branch only moves to a descendant.           *)
FastForward(b, commit) == refs[b] # None /\ refs[b] \in commit.history

OpenPRs == {n \in DOMAIN prs : prs[n].state = "open"}

(* A pull request is closed with the branch it comes from.                 *)
PRsWithout(b) ==
  [n \in DOMAIN prs |-> IF prs[n].head = b /\ prs[n].state = "open"
                        THEN [prs[n] EXCEPT !.state = "orphaned"] ELSE prs[n]]

DeleteRef(b) ==
  /\ refs' = [refs EXCEPT ![b] = None]
  /\ prs' = PRsWithout(b)
  /\ UNCHANGED commits

(* The three-way merge of the head of a pull request into the target.      *)
Latest(S) == CHOOSE c \in S : \A d \in S : d <= c

Merged(h, b) ==
  LET o == Latest(History(h) \cap History(b))
  IN  [p \in Path |-> IF TreeOf(h)[p] = TreeOf(o)[p] THEN TreeOf(b)[p]
                      ELSE TreeOf(h)[p]]

Conflict(h, b) ==
  LET o == Latest(History(h) \cap History(b))
  IN  \E p \in Path : /\ TreeOf(h)[p] # TreeOf(o)[p]
                      /\ TreeOf(b)[p] # TreeOf(o)[p]
                      /\ TreeOf(h)[p] # TreeOf(b)[p]

Mergeable(n) ==
  /\ prs[n].state = "open"
  /\ ~ Conflict(refs[prs[n].head], refs[Base])

MergePR(n) ==
  LET h == refs[prs[n].head]
  IN  /\ commits' = Append(commits, Commit(Merged(h, refs[Base]), {h, refs[Base]}))
      /\ refs' = [refs EXCEPT ![Base] = Len(commits) + 1]
      /\ prs' = [prs EXCEPT ![n].state = "merged"]

-----------------------------------------------------------------------------
Init ==
  /\ commits = << [tree |-> InitialTree, history |-> {1}] >>
  /\ refs = [b \in Branch |-> IF b = Base THEN 1 ELSE None]
  /\ prs = << >>
  /\ clock = 1
  /\ pushes = 0
  /\ pc = [u \in UploadID |-> "idle"]
  /\ branch = [u \in UploadID |-> Base]
  /\ existing = [u \in UploadID |-> 0]
  /\ opened = [u \in UploadID |-> 0]
  /\ parent = [u \in UploadID |-> None]
  /\ made = [u \in UploadID |-> None]
  /\ alone = [u \in UploadID |-> FALSE]

Ended == {"ok", "failed"}
Working(u) == pc[u] \notin {"idle"} \cup Ended

Goto(u, place) == pc' = [pc EXCEPT ![u] = place]

(* The effect took place; the answer may get lost on its way.              *)
Proceed(u, place) ==
  \/ Goto(u, place)
  \/ MayFail /\ Goto(u, "failed")

(* A call fails without effect, or the context runs out.                   *)
Fails(u) ==
  /\ MayFail /\ Working(u)
  /\ Goto(u, "failed")
  /\ UNCHANGED <<repo, clock, pushes, locals, alone>>

(* uploadToTarget dispatches on the strategy.                              *)
Start(u) ==
  /\ pc[u] = "idle"
  /\ Goto(u, IF Strategy[u] = "direct" THEN "read" ELSE "find")
  /\ alone' = [v \in UploadID |->
                 IF v = u THEN \A w \in UploadID : ~ Working(w)
                 ELSE alone[v] /\ ~ Working(v)]
  /\ UNCHANGED <<repo, clock, pushes, locals>>

(* findExistingCopierPR: the branch of an open pull request is used again. *)
FindPR(u) ==
  /\ pc[u] = "find"
  /\ \E n \in OpenPRs :
       /\ existing' = [existing EXCEPT ![u] = n]
       /\ branch' = [branch EXCEPT ![u] = prs[n].head]
  /\ Goto(u, "read")
  /\ UNCHANGED <<repo, clock, pushes, opened, parent, made, alone>>

(* With none open, or when the list cannot be had, a branch is named after *)
(* the second.                                                             *)
FindNoPR(u) ==
  /\ pc[u] = "find"
  /\ OpenPRs = {} \/ MayFail
  /\ branch' = [branch EXCEPT ![u] = clock]
  /\ Goto(u, "base")
  /\ UNCHANGED <<repo, clock, pushes, existing, opened, parent, made, alone>>

(* createBranch: the head of the target is read, ...                       *)
ReadBase(u) ==
  /\ pc[u] = "base"
  /\ parent' = [parent EXCEPT ![u] = refs[Base]]
  /\ Goto(u, "stale")
  /\ UNCHANGED <<repo, clock, pushes, branch, existing, opened, made, alone>>

(* ... a branch of the same name is deleted, ...                           *)
DeleteStale(u) ==
  /\ pc[u] = "stale"
  /\ IF refs[branch[u]] = None THEN UNCHANGED repo ELSE DeleteRef(branch[u])
  /\ Proceed(u, "create")
  /\ UNCHANGED <<clock, pushes, locals, alone>>

(* ... and the new one is created, if none has been created meanwhile.     *)
CreateRef(u) ==
  /\ pc[u] = "create"
  /\ IF refs[branch[u]] = None
     THEN /\ refs' = [refs EXCEPT ![branch[u]] = parent[u]]
          /\ Proceed(u, "read")
     ELSE Goto(u, "failed") /\ UNCHANGED refs
  /\ UNCHANGED <<commits, prs, clock, pushes, locals, alone>>

(* createCommitTree: the new tree is the old one with the files of u.      *)
NewTree(u, c) ==
  [p \in Path |-> IF p \in Files[u] THEN Content[u] ELSE TreeOf(c)[p]]

Unchanged(u, c) == NewTree(u, c) = TreeOf(c)

ReadHead(u) ==
  /\ pc[u] = "read"
  /\ refs[branch[u]] # None
  /\ ~ Unchanged(u, refs[branch[u]])
  /\ parent' = [parent EXCEPT ![u] = refs[branch[u]]]
  /\ Goto(u, "push")
  /\ UNCHANGED <<repo, clock, pushes, branch, existing, opened, made, alone>>

HeadMissing(u) ==
  /\ pc[u] = "read"
  /\ refs[branch[u]] = None
  /\ Goto(u, "failed")
  /\ UNCHANGED <<repo, clock, pushes, locals, alone>>

Mut_DiscardFoundBranch(u) ==
  /\ pc[u] = "read"
  /\ refs[branch[u]] # None
  /\ Unchanged(u, refs[branch[u]])
  /\ Goto(u, IF Strategy[u] = "direct" THEN "ok" ELSE "discard")
  /\ UNCHANGED <<repo, clock, pushes, locals, alone>>

(* errTreeUnchanged: nothing to commit, and nothing to merge either.  A    *)
(* branch made for the files goes again.                                   *)
NothingToCommit(u) ==
  /\ pc[u] = "read"
  /\ refs[branch[u]] # None
  /\ Unchanged(u, refs[branch[u]])
  /\ Goto(u, IF Strategy[u] = "direct" \/ existing[u] # 0 THEN "ok" ELSE "discard")
  /\ UNCHANGED <<repo, clock, pushes, locals, alone>>

Discard(u) ==
  /\ pc[u] = "discard"
  /\ \/ DeleteRef(branch[u])
     \/ MayFail /\ UNCHANGED repo
  /\ Goto(u, "ok")
  /\ UNCHANGED <<clock, pushes, locals, alone>>

(* createCommit: a commit on the head that was read, put on the branch     *)
(* unless the branch has moved on.                                         *)
Push(u) ==
  LET commit == Commit(NewTree(u, parent[u]), {parent[u]})
  IN  /\ pc[u] = "push"
      /\ commits' = Append(commits, commit)
      /\ IF FastForward(branch[u], commit)
         THEN /\ refs' = [refs EXCEPT ![branch[u]] = Len(commits) + 1]
              /\ made' = [made EXCEPT ![u] = Len(commits) + 1]
              /\ Proceed(u, IF Strategy[u] = "direct" THEN "ok"
                            ELSE IF existing[u] = 0 THEN "open"
                            ELSE IF AutoMerge[u] THEN "poll" ELSE "ok")
         ELSE Goto(u, "failed") /\ UNCHANGED <<refs, made>>
      /\ UNCHANGED <<prs, clock, pushes, branch, existing, opened, parent, alone>>

(* createPullRequest; GitHub refuses a second one of the same branch, and  *)
(* one that has nothing to merge.                                          *)
Refused(b) ==
  \/ refs[b] = None
  \/ refs[b] \in History(refs[Base])
  \/ \E n \in OpenPRs : prs[n].head = b

Mut_PRErrorLogged(u) ==
  /\ pc[u] = "open"
  /\ Goto(u, IF AutoMerge[u] THEN "cleanup" ELSE "ok")
  /\ UNCHANGED <<repo, clock, pushes, locals, alone>>

OpenPR(u) ==
  /\ pc[u] = "open"
  /\ IF Refused(branch[u])
     THEN Goto(u, "failed") /\ UNCHANGED <<prs, opened>>
     ELSE /\ prs' = Append(prs, [head |-> branch[u], state |-> "open"])
          /\ opened' = [opened EXCEPT ![u] = Len(prs) + 1]
          /\ Proceed(u, IF AutoMerge[u] THEN "poll" ELSE "ok")
  /\ UNCHANGED <<commits, refs, clock, pushes, branch, existing, parent, made,
                 alone>>

target(u) == IF existing[u] # 0 THEN existing[u] ELSE opened[u]

(* pollMergeability: only a conflict found stops the merge.                *)
Poll(u) ==
  /\ pc[u] = "poll"
  /\ \/ Goto(u, "merge")
     \/ ~ Mergeable(target(u)) /\ Goto(u, "failed")
  /\ UNCHANGED <<repo, clock, pushes, locals, alone>>

Mut_MergeFailureIgnored(u) ==
  /\ pc[u] = "merge"
  /\ IF Mergeable(target(u)) THEN MergePR(target(u)) ELSE UNCHANGED repo
  /\ Goto(u, "cleanup")
  /\ UNCHANGED <<clock, pushes, locals, alone>>

Merge(u) ==
  /\ pc[u] = "merge"
  /\ IF Mergeable(target(u))
     THEN MergePR(target(u)) /\ Proceed(u, "cleanup")
     ELSE Goto(u, "failed") /\ UNCHANGED repo
  /\ UNCHANGED <<clock, pushes, locals, alone>>

(* deleteBranchIfExists; a failure is only logged.                         *)
Cleanup(u) ==
  /\ pc[u] = "cleanup"
  /\ \/ refs[branch[u]] # None /\ DeleteRef(branch[u])
     \/ (MayFail \/ refs[branch[u]] = None) /\ UNCHANGED repo
  /\ Goto(u, "ok")
  /\ UNCHANGED <<clock, pushes, locals, alone>>

-----------------------------------------------------------------------------
(* The others.                                                             *)

TimePasses ==
  /\ clock < MaxSecond
  /\ clock' = clock + 1
  /\ UNCHANGED <<repo, pushes, pc, locals, alone>>

OthersPush ==
  /\ pushes < MaxPushes
  /\ pushes' = pushes + 1
  /\ \E p \in Path :
       commits' = Append(commits,
         Commit([TreeOf(refs[Base]) EXCEPT ![p] = Theirs], {refs[Base]}))
  /\ refs' = [refs EXCEPT ![Base] = Len(commits) + 1]
  /\ UNCHANGED <<prs, clock, pc, locals, alone>>

(* A reviewer merges or closes a pull request, ...                         *)
Review(n) ==
  /\ MayReview
  /\ prs[n].state = "open"
  /\ \/ Mergeable(n) /\ MergePR(n)
     \/ prs' = [prs EXCEPT ![n].state = "closed"] /\ UNCHANGED <<commits, refs>>
  /\ alone' = [u \in UploadID |-> alone[u] /\ ~ Working(u)]
  /\ UNCHANGED <<clock, pushes, pc, locals>>

(* ... and deletes the branch of one that is not open any more.            *)
DeleteReviewed(n) ==
  /\ MayReview
  /\ prs[n].state \in {"merged", "closed"}
  /\ refs[prs[n].head] # None
  /\ \A m \in OpenPRs : prs[m].head # prs[n].head
  /\ DeleteRef(prs[n].head)
  /\ alone' = [u \in UploadID |-> alone[u] /\ ~ Working(u)]
  /\ UNCHANGED <<clock, pushes, pc, locals>>

Step(u) ==
  \/ FindPR(u) \/ FindNoPR(u)
  \/ ReadBase(u) \/ DeleteStale(u) \/ CreateRef(u)
  \/ ReadHead(u) \/ HeadMissing(u) \/ NothingToCommit(u) \/ Discard(u)
  \/ Push(u) \/ OpenPR(u)
  \/ Poll(u) \/ Merge(u) \/ Cleanup(u)

Next ==
  \/ \E u \in UploadID : Start(u) \/ Step(u) \/ Fails(u)
  \/ \E n \in DOMAIN prs : Review(n) \/ DeleteReviewed(n)
  \/ OthersPush \/ TimePasses

Spec == Init /\ [][Next]_vars

-----------------------------------------------------------------------------
CommitType == [tree : [Path -> Version], history : SUBSET Nat]
PRType == [head : Second, state : {"open", "merged", "closed", "orphaned"}]

RepoType ==
  /\ commits # << >> /\ commits \in Seq(CommitType)
  /\ refs \in [Branch -> CommitID \cup {None}]
  /\ refs[Base] # None
  /\ prs \in Seq(PRType)
  /\ \A n \in OpenPRs : refs[prs[n].head] # None

UploadType ==
  /\ clock \in Second
  /\ pushes \in 0 .. MaxPushes
  /\ pc \in [UploadID -> {"idle", "find", "base", "stale", "create", "read",
                          "discard", "push", "open", "poll", "merge",
                          "cleanup"} \cup Ended]
  /\ branch \in [UploadID -> Branch]
  /\ existing \in [UploadID -> DOMAIN prs \cup {0}]
  /\ opened \in [UploadID -> DOMAIN prs \cup {0}]
  /\ parent \in [UploadID -> CommitID \cup {None}]
  /\ made \in [UploadID -> CommitID \cup {None}]
  /\ alone \in [UploadID -> BOOLEAN]

TypeOK == RepoType /\ UploadType

(* Whatever uploads, reviewers and others do at the same time, a commit    *)
(* that has reached the target branch stays in its history: UpdateRef is   *)
(* never forced, and the head was read before.                             *)
BaseOnlyGrows ==
  [][History(refs[Base]) \subseteq History(refs[Base])']_vars

(* Two uploads created their branches in the same second: the second one   *)
(* deletes the branch of the first, or finds it in its way.                *)
Named(u) == Strategy[u] = "pull_request" /\ existing[u] = 0

Twins(b) ==
  \E u, v \in UploadID : /\ u # v /\ Named(u) /\ Named(v)
                         /\ branch[u] = b /\ branch[v] = b

(* A direct or auto-merged upload that is reported ok has its commit in    *)
(* the target branch, unless it had nothing to commit, or had its branch   *)
(* replaced by a twin.                                                     *)
OkIsInBase ==
  \A u \in UploadID :
    /\ pc[u] = "ok" /\ made[u] # None
    /\ \/ Strategy[u] = "direct"
       \/ AutoMerge[u] /\ ~ Twins(branch[u])
    => made[u] \in History(refs[Base])

(* An upload left for review is in an open pull request when it is         *)
(* reported ok, if no other upload and no reviewer came in between.        *)
Proposed(u) ==
  \E n \in OpenPRs : made[u] \in History(refs[prs[n].head])

EndsProposed ==
  [][\A u \in UploadID :
       /\ pc[u] # "ok" /\ pc'[u] = "ok" /\ made'[u] # None
       /\ Strategy[u] = "pull_request" /\ ~ AutoMerge[u] /\ alone[u]
       => Proposed(u)']_vars

(* The branch of an open pull request is only deleted under it when two    *)
(* uploads named their branches in the same second.                        *)
OrphansNeedTwins ==
  \A n \in DOMAIN prs : prs[n].state = "orphaned" => Twins(prs[n].head)
=============================================================================

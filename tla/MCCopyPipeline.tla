--------------------------- MODULE MCCopyPipeline ---------------------------
(***************************************************************************)
(* Small instances of CopyPipeline.  Workflows a and b copy to the same    *)
(* branch with the same strategy and disagree on auto-merge, so their      *)
(* files share a batch; c commits directly to that branch; b and c track   *)
(* deprecations.  Pull request p1 changes a file of a and one of b and     *)
(* deletes one; p2 changes files of a and of c.                            *)
(***************************************************************************)
EXTENDS CopyPipeline, TLC

CONSTANTS p1, p2, a, b, c, x, y, z, main, deprecatedJson

MCDestination == [w \in Workflow |-> main]
MCCommitStrategy == a :> "pull_request" @@ b :> "" @@ c :> "direct"
MCAutoMerge == [w \in Workflow |-> w # b]
MCUsePRTemplate == [w \in Workflow |-> w = b]
MCDeprecationFile == a :> NoFile @@ b :> deprecatedJson @@ c :> deprecatedJson

Changed(p) == [path |-> p, deleted |-> FALSE]
Removed(p) == [path |-> p, deleted |-> TRUE]
Nothing    == [w \in Workflow |-> <<>>]

MCPlan == p1 :> <<a, b>> @@ p2 :> <<a, c>>
MCMatches ==
  p1 :> (a :> <<Changed(x)>> @@ b :> <<Removed(z), Changed(y)>> @@ Nothing) @@
  p2 :> (a :> <<Changed(y)>> @@ c :> <<Changed(x)>> @@ Nothing)

(* Retries and panics: the goroutine of p1 copies one file; that of p2,    *)
(* about a deletion nobody records, finds what p1 left in the queue.       *)
RetryPlan == p1 :> <<b>> @@ p2 :> <<a>>
RetryMatches ==
  p1 :> (b :> <<Changed(y)>> @@ Nothing) @@ p2 :> (a :> <<Removed(z)>> @@ Nothing)

(* Two deliveries that copy one file each into the same batch.             *)
PairPlan == [d \in Delivery |-> <<b>>]
PairMatches == [d \in Delivery |-> b :> <<Changed(y)>> @@ Nothing]
=============================================================================

---------------------------- MODULE MCGitHubAccess ----------------------------
(***************************************************************************)
(* A small instance of GitHubAccess: two goroutines and two organizations. *)
(***************************************************************************)
EXTENDS GitHubAccess

CONSTANTS c1, c2, o1, o2
=============================================================================

----------------------------- MODULE MCFileCounts -----------------------------
(***************************************************************************)
(* FileCounts with the small instances of CopyPipeline.                    *)
(***************************************************************************)
EXTENDS FileCounts, MCCopyPipeline
=============================================================================

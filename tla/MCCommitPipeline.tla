-------------------------- MODULE MCCommitPipeline --------------------------
(* Small instances of CommitPipeline.                                      *)
EXTENDS CommitPipeline

CONSTANTS p1, p2
=============================================================================

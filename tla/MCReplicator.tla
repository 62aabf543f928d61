---------------------------- MODULE MCReplicator ----------------------------
(* Small instances of Replicator.                                          *)
EXTENDS Replicator
=============================================================================

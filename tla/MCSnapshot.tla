----------------------------- MODULE MCSnapshot -----------------------------
(* Small instances of Snapshot.                                            *)
EXTENDS Snapshot
MCSums == <<1, 2, 1>>
=============================================================================

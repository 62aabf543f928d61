---------------------------- MODULE MCReplication ----------------------------
(* Small instances of Replication.                                         *)
EXTENDS Replication
CONSTANTS s1, s2, s3

\* Two leaderships, of different servers.
TwoLeaders == <<{}, {s1}, {s2}>>
=============================================================================

-------------------------- MODULE MCSegmentStorage --------------------------
(* The instance of SegmentStorage that TLC checks. *)
EXTENDS SegmentStorage
=============================================================================

---------------------------- MODULE MCMembership ----------------------------
(* The instance of Membership that TLC checks. *)
EXTENDS Membership

MCInitConf == {1, 2, 3}
MCTargets == {{2, 4}, {1, 2}}
=============================================================================

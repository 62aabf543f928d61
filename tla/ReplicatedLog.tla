--------------------------- MODULE ReplicatedLog ---------------------------
(***************************************************************************)
(* What a braft group promises to the state machines it drives: there is   *)
(* one log, which only grows, and every replica is given a prefix of it    *)
(* (StateMachine::on_apply, src/src/braft/raft.h). A replica that restarts *)
(* is given the log from the start.                                        *)
(***************************************************************************)
EXTENDS SequencesExt

CONSTANT Replica

VARIABLES chosen,    \* the log
          delivered  \* what each replica has been given since its start

Init == chosen = <<>> /\ delivered = [n \in Replica |-> <<>>]

\* The log grows, a replica is given more of it, or both in one step.
Deliver(n) ==
    /\ delivered' = [delivered EXCEPT ![n] = delivered'[n]]
    /\ IsPrefix(chosen, chosen')
    /\ IsPrefix(delivered[n], delivered'[n])
    /\ IsPrefix(delivered'[n], chosen')

Restart(n) ==
    /\ delivered' = [delivered EXCEPT ![n] = <<>>]
    /\ UNCHANGED chosen

Next == \E n \in Replica : Deliver(n) \/ Restart(n)

Spec == Init /\ [][Next]_<<chosen, delivered>>
=============================================================================

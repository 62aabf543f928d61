------------------------- MODULE RepeatedTimerTask -------------------------
(***************************************************************************)
(* The timers of a node (repeated_timer_task.cpp in src/src/braft, for the *)
(* election, vote, step down and snapshot timers of node.cpp): start,      *)
(* stop, reset, run_once_now and destroy, from any thread and from run()   *)
(* itself, against a timer that is pending, has just run out, or runs.     *)
(*                                                                         *)
(* Each call holds the timer's mutex; run() and on_destroy() do not. The   *)
(* time itself is left out: a pending timer may run out at any moment.     *)
(***************************************************************************)
EXTENDS Integers

VARIABLES
    flags,     \* which of _stopped, _running and _destroyed are set
    pending,   \* timers in the timer thread
    due,       \* calls of on_timedout that have not taken the mutex yet
    runs,      \* calls of run() in progress: _invoking
    destroys,  \* history: calls of on_destroy
    failed     \* history: CHECKs that failed
vars == <<flags, pending, due, runs, destroys, failed>>

Flag == {"stopped", "running", "destroyed"}
stopped == "stopped" \in flags
running == "running" \in flags
destroyed == "destroyed" \in flags

\* init.
Init ==
    /\ flags = {"stopped"}
    /\ pending = 0 /\ due = 0 /\ runs = 0 /\ destroys = 0 /\ failed = 0

\* A condition that the code CHECKs.
Check(cond) == failed' = IF cond THEN failed ELSE failed + 1

\* schedule: bthread_timer_add, and on_timedout at once when it fails; `left' are the
\* timers that are pending before.
Schedule(left) == \/ pending' = left + 1 /\ due' = due
                  \/ pending' = left /\ due' = due + 1

Start ==
    /\ ~destroyed /\ stopped
    /\ flags' = (flags \ {"stopped"}) \union {"running"}
    /\ IF running THEN UNCHANGED <<pending, due>> ELSE Schedule(pending)
    /\ UNCHANGED <<runs, destroys, failed>>

\* bthread_timer_del succeeds for a timer that has not run out.
Stop ==
    /\ ~stopped
    /\ Check(running)
    /\ IF pending > 0
       THEN /\ flags' = (flags \union {"stopped"}) \ {"running"}
            /\ pending' = pending - 1
       ELSE flags' = flags \union {"stopped"} /\ UNCHANGED pending
    /\ UNCHANGED <<due, runs, destroys>>

Reset ==
    /\ ~stopped
    /\ Check(running)
    /\ IF pending > 0 THEN Schedule(pending - 1) ELSE UNCHANGED <<pending, due>>
    /\ UNCHANGED <<flags, runs, destroys>>

RunOnceNow ==
    /\ pending > 0 /\ pending' = pending - 1 /\ due' = due + 1
    /\ UNCHANGED <<flags, runs, destroys, failed>>

\* destroy: on_destroy is called here, or left to the run in progress.
Destroy ==
    /\ ~destroyed
    /\ \/ /\ ~running /\ Check(stopped)
          /\ flags' = flags \union {"destroyed"}
          /\ destroys' = destroys + 1 /\ UNCHANGED pending
       \/ /\ running /\ (stopped \/ pending = 0)
          /\ flags' = flags \union {"destroyed", "stopped"}
          /\ UNCHANGED <<pending, destroys, failed>>
       \/ /\ running /\ ~stopped /\ pending > 0
          /\ flags' = (flags \union {"destroyed", "stopped"}) \ {"running"}
          /\ pending' = pending - 1
          /\ destroys' = destroys + 1 /\ UNCHANGED failed
    /\ UNCHANGED <<due, runs>>

\* The timer runs out: a bthread is started.
Timeout ==
    /\ pending > 0 /\ pending' = pending - 1 /\ due' = due + 1
    /\ UNCHANGED <<flags, runs, destroys, failed>>

\* on_timedout up to run(), and after it.
Invoke ==
    /\ due > 0 /\ due' = due - 1 /\ runs' = runs + 1
    /\ UNCHANGED <<flags, pending, destroys, failed>>
Return ==
    /\ runs > 0 /\ runs' = runs - 1
    /\ Check(running)
    /\ IF stopped
       THEN /\ flags' = flags \ {"running"}
            /\ destroys' = IF destroyed THEN destroys + 1 ELSE destroys
            /\ UNCHANGED <<pending, due>>
       ELSE Schedule(pending) /\ UNCHANGED <<flags, destroys>>

Next == \/ Start \/ Stop \/ Reset \/ RunOnceNow \/ Destroy
        \/ Timeout \/ Invoke \/ Return
Spec == Init /\ [][Next]_vars

----------------------------------------------------------------------------
(* Properties *)

\* However calls and runs meet, at most one run of the handler is pending, due or in
\* progress; stop() followed by start() during a run does not make a second one.
OneRun == pending + due + runs <= 1

\* A timer that was started goes on: no stop, start, reset or failed timer_add in
\* whatever order leaves it without its next run.
GoesOn == ~stopped => pending + due + runs = 1

\* on_destroy, which lets go of the node, is called once, when nothing of the timer
\* is left that could run on a node that is gone: CHECK(!_running) in the destructor.
DestroyedLast ==
    /\ destroys <= 1
    /\ destroys = 1 => destroyed /\ ~running /\ pending + due + runs = 0
    /\ destroyed /\ pending + due + runs = 0 => destroys = 1

ChecksHold == failed = 0

TypeOK == /\ flags \in SUBSET Flag
          /\ pending \in Nat /\ due \in Nat /\ runs \in Nat
\* _running says that one run is pending, due or in progress.
RunningMeansOne == pending + due + runs = (IF running THEN 1 ELSE 0)
FlagsAgree == (~stopped => running) /\ (destroyed => stopped)
DestroysAgree == destroys = (IF destroyed /\ ~running THEN 1 ELSE 0)
Inv == TypeOK /\ RunningMeansOne /\ FlagsAgree /\ DestroysAgree /\ ChecksHold
=============================================================================

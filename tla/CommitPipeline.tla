--------------------------- MODULE CommitPipeline ---------------------------
(***************************************************************************)
(* The commit pipeline of one braft node: NodeImpl::apply, the BallotBox,  *)
(* the ClosureQueue and the FSMCaller with its queue of tasks (ballot_box, *)
(* closure_queue, fsm_caller and node.cpp in src/src/braft). The node      *)
(* leads and follows in turn; the disk, the replicators, RPC handlers and  *)
(* the state machine run in threads of their own, and every place where    *)
(* one of them has let a mutex go before its next call is a step apart.    *)
(*                                                                         *)
(* The rest of the group is given by `chosen', the log it has committed:   *)
(* leaders have all of it (Replication.tla), a follower never loses any.   *)
(* An entry is its term and type. Own tasks are numbered; their closures   *)
(* and those of configuration entries are followed one by one.             *)
(***************************************************************************)
EXTENDS SequencesExt, Integers

CONSTANTS
    Peers,         \* the other voters of the group
    Failures,      \* what fails: a subset of {"log", "fsm", "load", "late"}; with
                   \* "late" a late answer waits until its entries have been cut
                   \* off this node's log and the node leads again
    MaxTerm,       \* bound on terms
    MaxLog,        \* bound on the length of the log
    MaxTasks,      \* bound on the tasks of users
    MaxCalls       \* bound on calls under way when a message of another leader,
                   \* a transfer or a snapshot comes, or an answer starts to wait

ASSUME PeersAssumption == IsFiniteSet(Peers)
ASSUME PipelineAssumption ==
    /\ Failures \subseteq {"log", "fsm", "load", "late"}
    /\ MaxTerm \in Nat \ {0} /\ MaxLog \in Nat
    /\ {MaxTasks, MaxCalls} \subseteq Nat

VARIABLES
    node,      \* NodeImpl: state, term, leader, whether _conf_ctx is busy
    log,       \* the log: terms and types
    box,       \* BallotBox: pending index, ballots, committed index
    closures,  \* ClosureQueue: first index and closures
    stable,    \* StableClosures in the disk queue
    calls,     \* calls to come of threads that have let a mutex go
    late,      \* answers of peers that wait for the lock of their replicator
    fsm,       \* FSMCaller: queue, running task, applied index, error
    user,      \* the StateMachine: applied entries, role, and whether a
               \* snapshot was saved under an id that is not the one of its content
    tasks,     \* history: where each task went and how its closure ran
    stored,    \* history: what each peer has stored of the leader's log
    chosen,    \* history: the log that the group has committed
    failed     \* history: the CHECKs that have failed
vars == <<node, log, box, closures, stable, calls, late, fsm, user, tasks, stored,
          chosen, failed>>

Self == "self"
Leading == node.state \in {"LEADER", "TRANSFERRING"}
Id(l, i) == [index |-> i, term |-> IF i = 0 THEN 0 ELSE l[i].term]
Greatest(S) == CHOOSE x \in S : \A y \in S : y <= x
Least(a, b) == IF a < b THEN a ELSE b
Prefix(i) == SubSeq(chosen, 1, i)

\* The node has led in its term, which starts with an entry of become_leader:
\* nobody else does.
HasLed == \E i \in DOMAIN log : log[i] = [term |-> node.term, type |-> "conf"]

\* Closures: of a user's task, or the ConfigurationChangeDone of a term.
Task(k) == [kind |-> "task", n |-> k]
Conf(t) == [kind |-> "conf", n |-> t]
ApplyTask(type, arg) == [type |-> type, arg |-> arg]
Idle == [type |-> "IDLE", upto |-> 0, first |-> 0, done |-> <<>>, index |-> 0]

Init ==
    /\ node = [state |-> "FOLLOWER", term |-> 1, leader |-> "none", busy |-> FALSE]
    /\ log = <<>> /\ chosen = <<>> /\ stable = <<>> /\ calls = {} /\ late = {}
    /\ failed = {}
    /\ box = [pending |-> 0, ballots |-> <<>>, committed |-> 0]
    /\ closures = [first |-> 0, queue |-> <<>>]
    /\ fsm = [queue |-> <<>>, cur |-> Idle, applied |-> 0, term |-> 0,
              applied_id |-> 0, error |-> FALSE, stopped |-> FALSE]
    /\ user = [applied |-> <<>>, leading |-> 0, following |-> 0,
               torn |-> FALSE]
    /\ tasks = <<>> /\ stored = [p \in Peers |-> 0]

-----------------------------------------------------------------------------
(* The helpers, as functions from a part of the state to its next value.   *)

\* Closure::Run, of the closures in a sequence, with one status. A task whose
\* closure runs twice shows in `ran'.
Ran(ts, cs, ok) ==
    [k \in DOMAIN ts |->
        IF \E i \in DOMAIN cs : cs[i] = Task(k)
        THEN [ts[k] EXCEPT !.ran = @ + 1, !.ok = ok] ELSE ts[k]]

\* bthread::execution_queue_execute: nothing is taken after shutdown().
Queue(f, ts) == IF f.stopped THEN f ELSE [f EXCEPT !.queue = @ \o ts]

\* Mutant: the closures stay in the queue.
ClearedKeepsClosures == [first |-> 0, queue |-> closures.queue]
\* ClosureQueue::clear, in BallotBox::clear_pending_tasks.
Cleared == [first |-> 0, queue |-> <<>>]

\* Mutant: the queue of the state machine is not told.
LeaderStopNoticesNone(x) == <<>>
\* What step_down tells the state machine: on_leader_stop, unless a transfer has
\* said so already, or reset_leader_id's on_stop_following.
LeaderStopNotices(x) ==
    (IF x.state = "LEADER" THEN <<ApplyTask("LEADER_STOP", x.term)>> ELSE <<>>) \o
    (IF x.leader = "other" THEN <<ApplyTask("STOP_FOLLOWING", x.term)>> ELSE <<>>)

\* step_down to the term t and the state s, after which nobody is followed.
StepDown(t, s) ==
    /\ node' = [state |-> s, term |-> t, leader |-> "none", busy |-> FALSE]
    /\ box' = IF Leading THEN [box EXCEPT !.pending = 0, !.ballots = <<>>] ELSE box
    /\ closures' = IF Leading THEN Cleared ELSE closures
    /\ UNCHANGED calls

\* The closures that step_down runs with "leader stepped down".
Dropped == IF Leading THEN closures.queue ELSE <<>>

\* Mutant: the entries after the ones of the request count as well.
CommittedBoundNone(c, last) == c
\* What a follower takes of the leader's commit index: not more than the entries
\* it has just been given or asked for.
CommittedBound(c, last) == Least(c, last)

\* The StableClosures of a leadership run in order: what is on its disk.
StableUpTo(queue) == IF queue = <<>> THEN Len(log) ELSE Head(queue).first - 1

\* What the group has committed when the peers have stored `has' and this leader
\* its log up to `own': entries of its term that a majority has.
Chosen(has, own) ==
    LET Holders(i) == {p \in Peers : has[p] >= i} \union
                         (IF own >= i THEN {Self} ELSE {})
        up == {i \in Len(chosen) + 1..Len(log) : /\ log[i].term = node.term
                  /\ 2 * Cardinality(Holders(i)) > Cardinality(Peers) + 1}
    IN  IF up = {} THEN chosen ELSE SubSeq(log, 1, Greatest(up))

Installing == \E i \in DOMAIN fsm.queue : fsm.queue[i].type = "SNAPSHOT_LOAD"
SnapshotQueued == \E i \in DOMAIN fsm.queue :
                     fsm.queue[i].type \in {"SNAPSHOT_LOAD", "SNAPSHOT_SAVE"}

\* New work comes while not too much is under way.
Room == Len(stable) + Cardinality(calls \union late) + Len(fsm.queue) < MaxCalls

\* check_step_down on the first message of a leader.
StartFollowing == IF node.leader = "other" THEN <<>>
                  ELSE <<ApplyTask("START_FOLLOWING", node.term)>>

Check(name, holds) == IF holds THEN {} ELSE {name}

-----------------------------------------------------------------------------
(* The node: leaderships, tasks, followers' messages.                      *)

\* become_leader: the index that reset_pending_index is given.
PendingIndex == Len(log) + 1

\* become_leader, in a new term: reset_pending_index, then the configuration
\* entry of ConfigurationCtx::flush. elect_self has waited for the disk, and the
\* votes are given for a log that has all that is committed.
BecomeLeader ==
    LET entry == [term |-> node.term + 1, type |-> "conf"] IN
    /\ node.state = "FOLLOWER" /\ node.term < MaxTerm /\ Len(log) < MaxLog
    /\ stable = <<>> /\ IsPrefix(chosen, log)
    /\ "late" \in Failures \/ \A a \in late : a.last <= Len(log)
    /\ failed' = Check("pending", box.pending = 0 /\ box.ballots = <<>>) \union
                 Check("committed", PendingIndex > box.committed) \union
                 Check("closures", closures.queue = <<>>)
    /\ node' = [state |-> "LEADER", term |-> node.term + 1, leader |-> Self,
                busy |-> TRUE]
    /\ log' = Append(log, entry)
    /\ box' = [box EXCEPT !.pending = PendingIndex, !.ballots = <<{}>>]
    /\ closures' = [first |-> PendingIndex, queue |-> <<Conf(node.term + 1)>>]
    /\ stable' = <<[op |-> "leader", first |-> Len(log) + 1]>>
    /\ fsm' = Queue(fsm, LeaderStopNotices(node))
    /\ stored' = [p \in Peers |-> 0]
    /\ UNCHANGED <<calls, user, tasks, chosen, late>>

\* apply: a task whose expected term is another is refused.
Rejected(expected) == expected # -1 /\ expected # node.term

\* apply, of one task of execute_applying_tasks: refused unless LEADER, else a
\* ballot, a closure and an entry. A batch of tasks is a sequence of these.
Apply(expected) ==
    LET new   == [index |-> 0, term |-> 0, expected |-> -1, ran |-> 0,
                  ok |-> FALSE]
        index == Len(log) + 1
    IN  /\ Len(tasks) < MaxTasks
        /\ \/ /\ node.state # "LEADER" \/ Rejected(expected)
              /\ tasks' = Append(tasks, [new EXCEPT !.ran = 1])
              /\ UNCHANGED <<log, box, closures, stable, failed>>
           \/ /\ node.state = "LEADER" /\ ~Rejected(expected) /\ index <= MaxLog
              /\ failed' = Check("append", box.pending > 0)
              /\ tasks' = Append(tasks, [new EXCEPT !.index = index,
                                                   !.term = node.term,
                                                   !.expected = expected])
              /\ log' = Append(log, [term |-> node.term, type |-> "data"])
              /\ box' = [box EXCEPT !.ballots = Append(@, {})]
              /\ closures' = [closures EXCEPT !.queue =
                                 Append(@, Task(Len(tasks) + 1))]
              /\ stable' = Append(stable, [op |-> "leader", first |-> index])
        /\ UNCHANGED <<node, calls, fsm, user, stored, chosen, late>>

\* step_down, of any RPC or timer: to a higher term, or of a leader in its own
\* (check_dead_nodes, or a configuration without it).
StepsDown(t) ==
    /\ Leading \/ (node.state = "FOLLOWER" /\ t > node.term)
    /\ StepDown(t, "FOLLOWER")
    /\ fsm' = Queue(fsm, LeaderStopNotices(node))
    /\ tasks' = Ran(tasks, Dropped, FALSE)
    /\ UNCHANGED <<log, stable, user, stored, chosen, failed, late>>

\* transfer_leadership_to, and handle_transfer_timeout.
TransferLeadership ==
    /\ node.state = "LEADER" /\ ~node.busy /\ Room
    /\ node' = [node EXCEPT !.state = "TRANSFERRING"]
    /\ fsm' = Queue(fsm, <<ApplyTask("LEADER_STOP", node.term)>>)
    /\ UNCHANGED <<log, box, closures, stable, calls, user, tasks, stored,
                   chosen, failed, late>>
HandleTransferTimeout ==
    /\ node.state = "TRANSFERRING"
    /\ node' = [node EXCEPT !.state = "LEADER"]
    /\ fsm' = Queue(fsm, <<ApplyTask("LEADER_START", node.term)>>)
    /\ UNCHANGED <<log, box, closures, stable, calls, user, tasks, stored,
                   chosen, failed, late>>

\* handle_append_entries_request of another leader of this term, with entries:
\* after the entries that the logs share, or after the ones it has sent. The
\* commit index of the request may be ahead of the entries it comes with.
HandleAppendEntries(prev, k, c) ==
    LET mine == \E i \in DOMAIN log : log[i].term = node.term
        new  == SubSeq(log, 1, prev) \o
                   [i \in 1..k |-> [term |-> node.term, type |-> "data"]]
    IN  /\ node.state = "FOLLOWER" /\ ~HasLed /\ ~Installing /\ Room
        /\ prev \in IF mine THEN {Len(log)} ELSE Len(chosen)..Len(log)
        /\ node' = [node EXCEPT !.leader = "other"]
        /\ fsm' = Queue(fsm, StartFollowing)
        /\ log' = new
        /\ chosen' = IF c > Len(chosen) THEN SubSeq(new, 1, Least(c, Len(new)))
                                        ELSE chosen
        /\ stable' = Append(stable, [op |-> "follower", term |-> node.term,
                                     committed |-> CommittedBound(c, prev + k)])
        /\ UNCHANGED <<box, closures, calls, user, tasks, stored, failed, late>>

\* The same without entries, a heartbeat or a probe: the commit index is taken
\* up to prev after the mutex is free.
HandleHeartbeat(prev, c) ==
    /\ node.state = "FOLLOWER" /\ ~HasLed /\ Room
    /\ IsPrefix(Prefix(Least(prev, Len(chosen))), log)
    /\ node' = [node EXCEPT !.leader = "other"]
    /\ fsm' = Queue(fsm, StartFollowing)
    /\ chosen' = IF Least(c, prev) > Len(chosen) THEN SubSeq(log, 1, Least(c, prev))
                                                ELSE chosen
    /\ calls' = calls \union {[op |-> "set_committed", arg |-> CommittedBound(c, prev)]}
    /\ UNCHANGED <<log, box, closures, stable, user, tasks, stored, failed, late>>

\* The FSMCaller is given a snapshot that the leader has sent, of entries that
\* the group has committed; or asked to save one. The executor does one at a time.
InstallSnapshot(i) ==
    /\ node.state = "FOLLOWER" /\ node.leader = "other" /\ ~SnapshotQueued /\ Room
    /\ chosen' = IF i <= Len(chosen) THEN chosen
                 ELSE Append(chosen, [term |-> node.term, type |-> "data"])
    /\ i <= Len(chosen) \/ ~\E j \in DOMAIN log : j >= i /\ log[j].term = node.term
    /\ fsm' = Queue(fsm, <<ApplyTask("SNAPSHOT_LOAD", i)>>)
    /\ UNCHANGED <<node, log, box, closures, stable, calls, user, tasks, stored,
                   failed, late>>
SaveSnapshot ==
    /\ ~SnapshotQueued /\ Room
    /\ fsm' = Queue(fsm, <<ApplyTask("SNAPSHOT_SAVE", 0)>>)
    /\ UNCHANGED <<node, log, box, closures, stable, calls, user, tasks, stored,
                   chosen, failed, late>>

\* on_error, in the thread of the caller: the FSMCaller is told with priority,
\* a leader steps down, and the node stops. f is the FSMCaller as it is then.
OnError(f) ==
    LET active == node.state \in {"LEADER", "TRANSFERRING", "FOLLOWER"} IN
    /\ IF active THEN StepDown(node.term, "ERROR")
                 ELSE UNCHANGED <<node, box, closures, calls>>
    /\ fsm' = IF f.stopped THEN f
              ELSE [f EXCEPT !.queue = <<ApplyTask("ERROR", 0)>> \o @ \o
                      (IF active THEN LeaderStopNotices(node) ELSE <<>>)]

\* shutdown: the queue takes nothing more, and do_shutdown runs at its end.
Shutdown ==
    /\ node.state \in {"LEADER", "TRANSFERRING", "FOLLOWER"}
    /\ StepDown(node.term, "SHUTTING")
    /\ fsm' = [Queue(fsm, LeaderStopNotices(node)) EXCEPT !.stopped = TRUE]
    /\ tasks' = Ran(tasks, Dropped, FALSE)
    /\ UNCHANGED <<log, stable, user, stored, chosen, failed, late>>

-----------------------------------------------------------------------------
(* The disk thread and the replicators: ballots.                           *)

\* commit_at: the index is beyond the ballots (ERANGE).
BeyondQueue(last) == last >= box.pending + Len(box.ballots)

\* commit_at. The call of on_committed comes after the mutex is free.
CommitAt(first, last, peer) ==
    LET from    == IF first > box.pending THEN first ELSE box.pending
        granted == [i \in DOMAIN box.ballots |->
                      IF box.pending + i - 1 \in from..last
                      THEN box.ballots[i] \union {peer} ELSE box.ballots[i]]
        done    == {i \in from..last :
                      2 * Cardinality(granted[i - box.pending + 1])
                         > Cardinality(Peers) + 1}
        upto    == Greatest(done)
    IN  IF box.pending = 0 \/ last < box.pending \/ BeyondQueue(last)
        THEN UNCHANGED <<box, calls>>
        ELSE IF done = {}
        THEN box' = [box EXCEPT !.ballots = granted] /\ UNCHANGED calls
        ELSE /\ box' = [pending |-> upto + 1, committed |-> upto,
                        ballots |-> SubSeq(granted, upto - box.pending + 2,
                                           Len(granted))]
             /\ calls' = calls \union {[op |-> "on_committed", arg |-> upto]}

\* FollowerStableClosure::run: the term is still the one of the request.
SameTerm(t) == t = node.term

\* The disk thread runs the next StableClosure with OK: LeaderStableClosure, or
\* FollowerStableClosure, which sets the commit index without the node's mutex.
RunStableClosure ==
    LET c == Head(stable) IN
    /\ stable # <<>> /\ stable' = Tail(stable)
    /\ \/ /\ c.op = "leader" /\ CommitAt(c.first, c.first, Self)
          /\ chosen' = IF Leading THEN Chosen(stored, c.first) ELSE chosen
       \/ /\ c.op = "follower"
          /\ calls' = IF SameTerm(c.term)
                      THEN calls \union {[op |-> "set_committed", arg |-> c.committed]}
                      ELSE calls
          /\ UNCHANGED <<box, chosen>>
    /\ UNCHANGED <<node, log, closures, fsm, user, tasks, stored, failed, late>>

\* The storage fails: the closures run with an error and on_error is called.
StorageFails ==
    /\ "log" \in Failures /\ stable # <<>> /\ stable' = <<>>
    /\ tasks' = Ran(tasks, Dropped, FALSE)
    /\ OnError(fsm)
    /\ UNCHANGED <<log, user, stored, chosen, failed, late>>

\* A peer has stored entries up to i, and _on_rpc_returned calls commit_at, or
\* waits for the lock of its replicator.
PeerStored(p, i) ==
    /\ Leading /\ i > stored[p]
    /\ stored' = [stored EXCEPT ![p] = i]
    /\ chosen' = Chosen(stored', StableUpTo(stable))
    /\ \/ CommitAt(stored[p] + 1, i, p) /\ UNCHANGED late
       \/ /\ Room
          /\ late' = late \union {[first |-> stored[p] + 1, last |-> i, peer |-> p]}
          /\ UNCHANGED <<box, calls>>
    /\ UNCHANGED <<node, log, closures, stable, fsm, user, tasks, failed>>

\* Replicator::stop, which step_down calls, lets the lock go before it raises
\* ESTOP: who waits for it gets it then and calls commit_at, whatever the node has
\* become meanwhile, or finds the replicator destroyed.
AnswerComes(a) ==
    /\ late' = late \ {a}
    /\ CommitAt(a.first, a.last, a.peer) \/ UNCHANGED <<box, calls>>
    /\ chosen' = IF Leading THEN Chosen(stored, StableUpTo(stable)) ELSE chosen
    /\ UNCHANGED <<node, log, closures, stable, fsm, user, tasks, stored, failed>>

\* set_last_committed_index: a CHECK when the node leads by now, an older index
\* is ignored, a newer one goes to the FSMCaller after the mutex is free.
SetLastCommittedIndex(c) ==
    LET leads == box.pending # 0 \/ box.ballots # <<>>
        newer == ~leads /\ c.arg > box.committed
    IN  /\ c.op = "set_committed"
        /\ failed' = Check("follower_commit", leads => c.arg < box.pending)
        /\ box' = IF newer THEN [box EXCEPT !.committed = c.arg] ELSE box
        /\ calls' = (calls \ {c}) \union
             (IF newer THEN {[op |-> "on_committed", arg |-> c.arg]} ELSE {})
        /\ UNCHANGED <<node, log, closures, stable, fsm, user, tasks, stored,
                       chosen, late>>

\* FSMCaller::on_committed, in whatever order the callers get there.
OnCommitted(c) ==
    /\ c.op = "on_committed" /\ calls' = calls \ {c}
    /\ fsm' = Queue(fsm, <<ApplyTask("COMMITTED", c.arg)>>)
    /\ UNCHANGED <<node, log, box, closures, stable, user, tasks, stored, chosen,
                   failed, late>>

-----------------------------------------------------------------------------
(* FSMCaller::run.                                                         *)

FsmIdle == fsm.cur = Idle /\ fsm.queue # <<>>
Rest == [fsm EXCEPT !.queue = Tail(@)]

\* Mutant: the closures of an index that has been popped already come again.
PopUntilAgain(i) == [closures EXCEPT !.first = i + 1]
\* pop_closure_until: what is left in the queue.
PopUntil(i) == [first |-> i + 1, queue |-> SubSeq(closures.queue,
                                             i - closures.first + 2,
                                             Len(closures.queue))]

\* Mutant: the first committed index of a batch is taken for all.
BatchIndexFirst(batch) == batch[1].arg
\* run merges a batch of COMMITTED tasks into the largest index.
BatchIndex(batch) == Greatest({batch[i].arg : i \in DOMAIN batch})

\* do_committed, up to the iterator, for the first n tasks of the queue.
DoCommitted(n) ==
    LET batch == SubSeq(fsm.queue, 1, n)
        upto  == BatchIndex(batch)
        f     == [fsm EXCEPT !.queue = SubSeq(@, n + 1, Len(@))]
        none  == closures.queue = <<>> \/ upto < closures.first
        known == upto <= closures.first + Len(closures.queue) - 1
        cur   == [type |-> "COMMITTED", upto |-> upto, index |-> fsm.applied + 1,
                  first |-> IF none THEN upto + 1 ELSE closures.first,
                  done |-> IF none THEN <<>>
                           ELSE SubSeq(closures.queue, 1, upto - closures.first + 1)]
    IN  /\ FsmIdle /\ \A i \in 1..n : fsm.queue[i].type = "COMMITTED"
        /\ IF fsm.error \/ fsm.applied >= upto
           THEN fsm' = f /\ UNCHANGED <<closures, failed>>
           ELSE /\ failed' = Check("pop", none \/ known)
                /\ IF none \/ known
                   THEN /\ fsm' = [f EXCEPT !.cur = cur]
                        /\ closures' = IF none THEN closures ELSE PopUntil(upto)
                   ELSE UNCHANGED <<fsm, closures>>
        /\ UNCHANGED <<node, log, box, stable, calls, user, tasks, stored,
                       chosen, late>>

Cur == fsm.cur
Applying == Cur.type = "COMMITTED" /\ Cur.index <= Cur.upto
\* IteratorImpl::done: the closure of the entry i, if this node has one.
DoneOf(i) == IF i < Cur.first THEN <<>> ELSE <<Cur.done[i - Cur.first + 1]>>
DonesOf(i, j) == IF j < i \/ j < Cur.first THEN <<>>
                 ELSE SubSeq(Cur.done, (IF i < Cur.first THEN Cur.first ELSE i)
                                          - Cur.first + 1, j - Cur.first + 1)

\* A configuration entry, and ConfigurationChangeDone::Run: the change is over,
\* and a leader that starts tells the state machine so.
ApplyConfiguration ==
    LET done == DoneOf(Cur.index)
        mine == done # <<>> /\ done[1].kind = "conf"
    IN  /\ Applying /\ Cur.index <= Len(log) /\ log[Cur.index].type = "conf"
        /\ node' = IF mine /\ Leading /\ done[1].n = node.term
                   THEN [node EXCEPT !.busy = FALSE] ELSE node
        /\ user' = [user EXCEPT !.applied = Append(@, log[Cur.index]),
                                !.leading = IF mine THEN done[1].n ELSE @]
        /\ tasks' = Ran(tasks, done, TRUE)
        /\ fsm' = [fsm EXCEPT !.cur.index = @ + 1]
        /\ UNCHANGED <<log, box, closures, stable, calls, stored, chosen,
                       failed, late>>

\* StateMachine::on_apply takes the entries up to i, and runs their closures.
OnApply(i) ==
    /\ Applying /\ i <= Len(log)
    /\ \A j \in Cur.index..i : log[j].type = "data"
    /\ user' = [user EXCEPT !.applied = @ \o SubSeq(log, Cur.index, i)]
    /\ tasks' = Ran(tasks, DonesOf(Cur.index, i), TRUE)
    /\ fsm' = [fsm EXCEPT !.cur.index = i + 1]
    /\ UNCHANGED <<node, log, box, closures, stable, calls, stored, chosen,
                   failed, late>>

\* The id that do_committed gives to set_applied_id when it has come to i.
LastAppliedId(i) == i - 1

\* The end of do_committed, at entry i: last_applied_index moves to what was
\* committed, also when the state machine has stopped before it.
Finished(i) ==
    [fsm EXCEPT !.cur = Idle, !.applied = Cur.upto, !.term = Id(log, i - 1).term,
                !.applied_id = IF LastAppliedId(i) > @ THEN LastAppliedId(i) ELSE @]
FinishCommitted ==
    /\ Cur.type = "COMMITTED" /\ Cur.index > Cur.upto
    /\ fsm' = Finished(Cur.index)
    /\ UNCHANGED <<node, log, box, closures, stable, calls, user, tasks, stored,
                   chosen, failed, late>>

\* on_apply stops before i with set_error_and_rollback, or get_entry finds
\* nothing: set_error, with on_error of the node, and the closures of the rest.
ApplyFails(i) ==
    /\ Applying /\ i >= Cur.index
    /\ \/ "fsm" \in Failures /\ i <= Len(log)
       \/ i = Cur.index /\ i > Len(log)
    /\ \A j \in Cur.index..i : j <= Len(log) => log[j].type = "data"
    /\ user' = [user EXCEPT !.applied = @ \o SubSeq(log, Cur.index, i - 1)]
    /\ tasks' = Ran(Ran(Ran(tasks, DonesOf(Cur.index, i - 1), TRUE), Dropped, FALSE),
                    DonesOf(i, Cur.upto), FALSE)
    /\ OnError([Finished(i) EXCEPT !.error = TRUE])
    /\ UNCHANGED <<log, stable, stored, chosen, failed, late>>

\* pass_by_status.
PassByStatus == ~fsm.error

\* do_snapshot_save: the id is the last applied one, the content what the state
\* machine has.
DoSnapshotSave ==
    /\ FsmIdle /\ Head(fsm.queue).type = "SNAPSHOT_SAVE"
    /\ fsm' = Rest
    /\ user' = IF ~PassByStatus THEN user
               ELSE [user EXCEPT !.torn = @ \/
                       Id(user.applied, Len(user.applied)) #
                          [index |-> fsm.applied, term |-> fsm.term]]
    /\ UNCHANGED <<node, log, box, closures, stable, calls, tasks, stored, chosen,
                   failed, late>>

\* Mutant: only the index is compared.
StaleSnapshotNever(id) == FALSE
\* do_snapshot_load refuses a snapshot that is older than what is applied.
StaleSnapshot(id) == \/ fsm.term > id.term
                     \/ fsm.term = id.term /\ fsm.applied > id.index

\* do_snapshot_load; when it succeeds the log manager is given the snapshot.
DoSnapshotLoad ==
    LET i  == Head(fsm.queue).arg
        id == Id(chosen, i)
        kept == i <= Len(log) /\ log[i] = chosen[i]
    IN  /\ FsmIdle /\ Head(fsm.queue).type = "SNAPSHOT_LOAD"
        /\ \/ /\ ~PassByStatus \/ StaleSnapshot(id)
              /\ fsm' = Rest
              /\ UNCHANGED <<node, log, box, closures, calls, user, tasks>>
           \/ /\ PassByStatus /\ ~StaleSnapshot(id)
              /\ fsm' = [Rest EXCEPT !.applied = i, !.term = id.term,
                           !.applied_id = IF i > @ THEN i ELSE @]
              /\ user' = [user EXCEPT !.applied = Prefix(i)]
              /\ log' = IF kept THEN log ELSE Prefix(i)
              /\ UNCHANGED <<node, box, closures, calls, tasks>>
           \/ /\ PassByStatus /\ "load" \in Failures
              /\ tasks' = Ran(tasks, Dropped, FALSE)
              /\ OnError([Rest EXCEPT !.error = TRUE])
              /\ UNCHANGED <<log, user>>
        /\ UNCHANGED <<stable, stored, chosen, failed, late>>

\* The other tasks: notices to the state machine, and do_on_error.
DoNotice ==
    LET t == Head(fsm.queue) IN
    /\ FsmIdle
    /\ t.type \in {"LEADER_STOP", "LEADER_START", "START_FOLLOWING", "STOP_FOLLOWING"}
    /\ fsm' = Rest
    /\ user' = [user EXCEPT
         !.leading = IF t.type = "LEADER_STOP" THEN 0
                     ELSE IF t.type = "LEADER_START" THEN t.arg ELSE @,
         !.following = IF t.type = "STOP_FOLLOWING" THEN 0
                       ELSE IF t.type = "START_FOLLOWING" THEN t.arg ELSE @]
    /\ UNCHANGED <<node, log, box, closures, stable, calls, tasks, stored, chosen,
                   failed, late>>
DoOnError ==
    /\ FsmIdle /\ Head(fsm.queue).type = "ERROR"
    /\ IF fsm.error
       THEN fsm' = Rest /\ UNCHANGED <<node, box, closures, calls, tasks>>
       ELSE /\ OnError([Rest EXCEPT !.error = TRUE])
            /\ tasks' = Ran(tasks, Dropped, FALSE)
    /\ UNCHANGED <<log, stable, user, stored, chosen, failed, late>>
DoShutdown ==
    /\ fsm.stopped /\ fsm.queue = <<>> /\ fsm.cur = Idle /\ node.state = "SHUTTING"
    /\ node' = [node EXCEPT !.state = "SHUTDOWN"]
    /\ UNCHANGED <<log, box, closures, stable, calls, fsm, user, tasks, stored,
                   chosen, failed, late>>

-----------------------------------------------------------------------------
FsmThread ==
    \/ \E n \in 1..Len(fsm.queue) : DoCommitted(n)
    \/ ApplyConfiguration
    \/ \E i \in Cur.index..Cur.upto : OnApply(i) \/ ApplyFails(i)
    \/ FinishCommitted
    \/ DoSnapshotSave \/ DoSnapshotLoad \/ DoNotice \/ DoOnError \/ DoShutdown
Calls == \E c \in calls :
            SetLastCommittedIndex(c) \/ OnCommitted(c)

Expected == {-1, MaxTerm}
Next ==
    /\ failed = {}
    /\ \/ BecomeLeader
       \/ \E e \in Expected : Apply(e)
       \/ \E t \in {node.term, node.term + 1} : t <= MaxTerm /\ StepsDown(t)
       \/ TransferLeadership \/ HandleTransferTimeout
       \/ \E prev \in 0..Len(log) : \E k \in 1..MaxLog - prev :
             \E c \in prev..prev + k + 1 : HandleAppendEntries(prev, k, c)
       \/ \E prev \in box.committed..Len(log) : \E c \in prev..prev + 1 :
             HandleHeartbeat(prev, c)
       \/ \E i \in 1..Least(Len(chosen) + 1, MaxLog) : InstallSnapshot(i)
       \/ SaveSnapshot \/ Shutdown
       \/ RunStableClosure \/ StorageFails
       \/ \E p \in Peers, i \in 1..Len(log) : PeerStored(p, i)
       \/ \E a \in late : AnswerComes(a)
       \/ Calls \/ FsmThread
Spec == Init /\ [][Next]_vars

\* bthreads and execution queues run what is ready.
Fairness == WF_vars(failed = {} /\ FsmThread) /\ WF_vars(failed = {} /\ Calls)
FairSpec == Spec /\ Fairness

-----------------------------------------------------------------------------
(* Properties.                                                             *)

Entry == [term: 1..MaxTerm, type: {"conf", "data"}]
Logs == UNION {[1..k -> Entry] : k \in 0..MaxLog}
\* Every part of the state has its type. Behind a pending index there is a
\* ballot and, until it is popped, a closure for every entry of the log
\* (append_pending_task, commit_at, pop_closure_until).
TypeOK ==
    /\ node \in [state: {"LEADER", "TRANSFERRING", "FOLLOWER", "ERROR", "SHUTTING",
                         "SHUTDOWN"},
                 term: 1..MaxTerm, leader: {"none", Self, "other"}, busy: BOOLEAN]
    /\ log \in Logs /\ chosen \in Logs
    /\ box.pending \in 0..MaxLog + 1 /\ box.committed \in 0..MaxLog
    /\ Leading => /\ box.pending + Len(box.ballots) = Len(log) + 1
                  /\ closures.first + Len(closures.queue) = Len(log) + 1
                  /\ closures.first <= box.pending
    /\ ~Leading => box.pending = 0 /\ box.ballots = <<>> /\ closures.queue = <<>>
    /\ fsm.applied \in 0..MaxLog /\ fsm.applied_id \in 0..MaxLog
    /\ user.applied \in Logs /\ stored \in [Peers -> 0..MaxLog]

\* No CHECK of the ballot box and the closure queue fails, whoever gets there
\* late: reset_pending_index, append_pending_task, set_last_committed_index after
\* the node has become leader, pop_closure_until; and every variable keeps its type.
ChecksHold == TypeOK /\ failed = {}

\* The state machine is given the entries that the group has committed, each
\* once and in order, whatever is loaded and however notices of commitment are
\* delayed, merged and reordered; the log manager is told of no more; and a snapshot
\* holds exactly the entries up to the id it is saved under, also after an error at
\* which last_applied_index has run ahead.
AppliedInOrder ==
    /\ IsPrefix(user.applied, chosen)
    /\ fsm.applied_id <= Len(user.applied)
    /\ ~user.torn

\* What the ballot box calls committed a majority has stored, whatever answers and
\* commit indexes of other leaderships come late: a late commit_at finds nothing
\* pending, or a pending index beyond what it is about. (Not so with "late": entries
\* that were cut may give their indexes to others before the answer is let go.)
CommittedIsChosen == box.committed <= Len(chosen)

\* The closure of a task runs at most once, and with OK only when the state
\* machine has applied that very task; a task that was refused, or expected
\* another term, has no entry that is acknowledged.
AckedOnceApplied ==
    \A k \in DOMAIN tasks :
       /\ tasks[k].ran <= 1
       /\ tasks[k].ok => /\ tasks[k].index \in 1..Len(user.applied)
                         /\ user.applied[tasks[k].index] =
                               [term |-> tasks[k].term, type |-> "data"]
                         /\ tasks[k].expected \in {-1, tasks[k].term}

\* When the queue of the FSMCaller is empty, a state machine that believes to
\* lead or to follow does so, in the term it was told.
RoleIsFresh ==
    fsm.queue = <<>> /\ fsm.cur = Idle /\ ~fsm.stopped =>
       /\ user.leading # 0 => node.state = "LEADER" /\ node.term = user.leading
       /\ user.following # 0 => node.leader = "other" /\ node.term = user.following

\* The closure of a task whose entry has been committed here runs in the end,
\* whether the node leads, follows, fails or is shut down meanwhile. (Both sides
\* stay true once they are, so that []<> says what ~> would, and is cheaper.)
CommittedTaskRuns ==
    \A k \in 1..MaxTasks :
       []<>(k \in DOMAIN tasks /\ tasks[k].index \in 1..box.committed =>
               tasks[k].ran > 0)
=============================================================================

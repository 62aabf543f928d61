----------------------------- MODULE Replicator -----------------------------
(***************************************************************************)
(* A leader's Replicator and the follower it sends to, over one leadership *)
(* (replicator.cpp and node.cpp in src/src/braft): the pipeline of         *)
(* AppendEntries, probing, blocking, snapshots, catch up, the transfer of  *)
(* leadership, read-only followers, and the follower's AppendEntriesCache. *)
(*                                                                         *)
(* The leader's log is its first and last index. The follower's log is how *)
(* much of it is the leader's (match), how long it is (len), and how much  *)
(* is on disk (synced). How much of it is applied, once the group has      *)
(* committed it, is left open: a heartbeat may at any time have brought a  *)
(* commit index up to match. RPCs are delayed, reordered, lost, and        *)
(* handled after the replicator has given them up; a call id is used again *)
(* only when nothing of its last call is under way.                        *)
(***************************************************************************)
EXTENDS SequencesExt, Integers

CONSTANTS
    Parallel,      \* raft_max_parallel_append_entries_rpc_num
    MaxEntries,    \* raft_max_entries_size
    CacheSize,     \* raft_max_append_entries_cache_size; 0: no cache
    Margin,        \* the margin of wait_for_caught_up
    Readonly,      \* what the follower does with its read-only mode: "enter", "leave"
    InitLast,      \* the leader's last index when it is elected
    MaxLog,        \* bound on its last index
    MaxRpcs,       \* bound on calls under way
    MaxWaits,      \* bound on calls of wait_for_caught_up
    MaxFailures    \* bound on failed calls, crashes and refusals

ASSUME ReplicatorAssumption ==
    /\ {Parallel, MaxEntries, MaxRpcs} \subseteq Nat \ {0}
    /\ {CacheSize, Margin, InitLast, MaxLog, MaxWaits, MaxFailures} \subseteq Nat
    /\ InitLast <= MaxLog /\ MaxLog > 0
    /\ Readonly \subseteq {"enter", "leave"}

VARIABLES
    log,       \* the leader's log: first and last index
    r,         \* the replicator, its waiters in the log manager, its timers
    rpcs,      \* calls: requests, cached ones, answers
    f,         \* the follower: match, len, synced, cache, read-only mode;
               \* history: early, the greatest index that was answered early,
               \* being applied, while it was not on disk, until it is
    catchup,   \* the CatchupClosure and its timer, a timer it left behind
    granted,   \* history: the last index given to commit_at
    faults,    \* history: failures so far
    failed     \* history: what went wrong at a step (a CHECK, a wrong notice)
vars == <<log, r, rpcs, f, catchup, granted, faults, failed>>

Ids == 1..MaxRpcs
Least(a, b) == IF a < b THEN a ELSE b
Most(a, b) == IF a > b THEN a ELSE b

Rpc(id, op, prev, n) ==
    [id |-> id, op |-> op, prev |-> prev, n |-> n, at |-> "sent",
     ok |-> "none", last |-> 0]
NoCatchup == [waiting |-> FALSE, set |-> FALSE, timer |-> "none", stray |-> FALSE,
              waits |-> 0]

\* Calls under way: an id is free when neither a message nor the replicator has it.
UsedIds == {m.id : m \in rpcs}
FreeId == CHOOSE i \in Ids : i \notin UsedIds
CanSend == UsedIds # Ids

\* _min_flying_index
MinFlying(x) == x.next - x.size

\* get_term finds nothing: the entry before next_index has been compacted.
Compacted(x) == x.next < log.first

-----------------------------------------------------------------------------
(* The methods of the replicator, under its lock, as functions of it. What *)
(* they send comes back in `out'.                                          *)

\* Mutant: the waiter is removed and its id kept.
ResetKeepsWait(x) == [x EXCEPT !.next = MinFlying(x), !.size = 0, !.flying = <<>>,
                               !.canceled = TRUE, !.waiters = @ \ {x.wait}]
\* _reset_next_index: the calls in flight are cancelled, the waiter is removed.
Reset(x) == [x EXCEPT !.next = MinFlying(x), !.size = 0, !.flying = <<>>,
                      !.canceled = TRUE, !.wait = 0,
                      !.waiters = @ \ {x.wait}]

\* _block, with its timer.
Block(x) == IF x.st = "BLOCKING" THEN x
            ELSE [x EXCEPT !.st = "BLOCKING", !.timers = @ + 1]

\* LogManager::wait calls back at once when the log has grown; its id is then 0.
WakesAtOnce(x) == log.last # x.next - 1

WaiterId(x) == CHOOSE w \in 1..Cardinality(x.waiters) + 1 : w \notin x.waiters
\* _wait_more_entries
WaitMore(x) ==
    LET y == IF x.wait = 0 /\ MaxEntries > x.size /\ Parallel > Len(x.flying)
             THEN IF WakesAtOnce(x)
                  THEN [x EXCEPT !.canceled = FALSE, !.woken = @ + 1]
                  ELSE [x EXCEPT !.canceled = FALSE, !.wait = WaiterId(x),
                                 !.waiters = @ \union {WaiterId(x)}]
             ELSE x
    IN  IF y.size = 0 THEN [y EXCEPT !.st = "IDLE"] ELSE y

\* _install_snapshot: refused while one is under way, blocked by the throttle, the
\* leader's being a witness or an empty uri; else sent.
InstallSnapshot(x, throttled) ==
    IF x.reader THEN [x |-> x, out |-> {}]
    ELSE IF throttled THEN [x |-> Block(x), out |-> {}]
    ELSE [x |-> [x EXCEPT !.st = "INSTALLING_SNAPSHOT", !.reader = TRUE],
          out |-> {Rpc(FreeId, "install", log.first - 1, 0)}]

\* _send_empty_entries(false), a probe at next_index.
SendEmpty(x, throttled) ==
    IF Compacted(x) THEN InstallSnapshot(x, throttled)
    ELSE [x |-> [x EXCEPT !.st = "APPENDING_ENTRIES",
                   !.flying = Append(@, [index |-> x.next, size |-> 0, id |-> FreeId])],
          out |-> {Rpc(FreeId, "append", x.next - 1, 0)}]
\* Its CHECKs: nothing is in flight.
SendEmptyChecks(x) == IF x.flying = <<>> /\ x.size = 0 THEN {} ELSE {"in_fly"}

\* The pipeline is full.
Full(x) == x.size >= MaxEntries \/ Len(x.flying) >= Parallel

\* _send_entries with at most k entries, as raft_max_body_size allows;
\* _prepare_entry stops at the read-only index.
SendEntries(x, k, throttled) ==
    LET upto == IF x.readonly # 0 THEN Least(log.last, x.readonly - 1) ELSE log.last
        n    == Least(k, Least(MaxEntries - x.size, upto - x.next + 1))
        sent == [x EXCEPT !.flying = Append(@, [index |-> x.next, size |-> n,
                                                id |-> FreeId]),
                          !.next = @ + n, !.size = @ + n,
                          !.st = "APPENDING_ENTRIES"]
    IN  IF Full(x) \/ x.st = "BLOCKING"
        THEN [x |-> x, out |-> {}]
        ELSE IF Compacted(x) THEN InstallSnapshot(Reset(x), throttled)
        ELSE IF n > 0 THEN [x |-> WaitMore(sent),
                            out |-> {Rpc(FreeId, "append", x.next - 1, n)}]
        ELSE IF x.next <= log.last
        THEN [x |-> IF x.size = 0 THEN [x EXCEPT !.st = "IDLE"] ELSE x, out |-> {}]
        ELSE [x |-> WaitMore(x), out |-> {}]

\* _is_catchup
CaughtUp(x) == ~Compacted(x) /\ MinFlying(x) - 1 + Margin >= log.last

\* Mutant: a timer that is running does not keep the closure.
TimerRunsNever(c) == FALSE
\* bthread_timer_del finds the timer's callback on its way.
TimerRuns(c) == c.timer = "running"

\* The closure runs; its timer is deleted, or left behind when it is running.
EndCatchup(c) == [c EXCEPT !.waiting = FALSE, !.set = FALSE, !.timer = "none",
                           !.stray = @ \/ c.timer = "running"]
\* _notify_on_caught_up(0, false), after an answer: a running timer will run the
\* closure, with the success that was set.
NotifyOk(c, x) ==
    IF ~c.waiting \/ ~CaughtUp(x) \/ c.set THEN c
    ELSE IF TimerRuns(c) THEN [c EXCEPT !.set = TRUE] ELSE EndCatchup(c)
\* Mutant: a closure whose status is set is left to the one who set it.
NotifyErrorUnset(c) == IF c.waiting /\ ~c.set THEN EndCatchup(c) ELSE c
\* _notify_on_caught_up with ETIMEDOUT or EPERM: the status that was set is kept.
NotifyError(c) == IF c.waiting THEN EndCatchup(c) ELSE c
\* What the follower has, or had applied when it answered early.
Had == Most(f.match, f.early)
\* A closure that is told of a success too early is noted.
EarlyCatchup(c, x) ==
    IF NotifyOk(c, x) # c /\ Had + Margin < log.last THEN {"catchup"} ELSE {}

\* _send_timeout_now, once _timeout_now_index is behind.
TimeoutNowDue(x) == x.timeout_now > 0 /\ x.timeout_now < MinFlying(x)
TimeoutNow(x) == IF TimeoutNowDue(x) THEN [x EXCEPT !.timeout_now = 0] ELSE x
\* A TimeoutNow for a transfer at an index the follower does not have is noted.
Early(index) == IF index <= Had THEN {} ELSE {"timeout_now"}
\* What an answer that moves the replicator to x notes.
Notes(x) == EarlyCatchup(catchup, x)
              \union IF TimeoutNowDue(x) THEN Early(x.timeout_now) ELSE {}

-----------------------------------------------------------------------------
\* Replicator::start, for a follower with any log.
Init ==
    LET x == [next |-> InitLast + 1, size |-> 0, flying |-> <<>>, st |-> "IDLE",
              wait |-> 0, waiters |-> {}, woken |-> 0, canceled |-> FALSE,
              reader |-> FALSE, succeeded |-> FALSE, errors |-> FALSE,
              timeout_now |-> 0, readonly |-> 0, timers |-> 0, resumes |-> 0,
              change |-> {}, alive |-> TRUE]
    IN  /\ log = [first |-> 1, last |-> InitLast]
        /\ \E m \in 0..InitLast, n \in 0..InitLast + 1 :
              /\ m <= n
              /\ f = [match |-> m, len |-> n, synced |-> n, early |-> 0,
                      queue |-> <<>>, timer |-> 0, readonly |-> FALSE]
        /\ r = [x EXCEPT !.st = "APPENDING_ENTRIES",
                         !.flying = <<[index |-> x.next, size |-> 0, id |-> 1]>>]
        /\ rpcs = {Rpc(1, "append", InitLast, 0)}
        /\ catchup = NoCatchup /\ granted = 0 /\ faults = 0 /\ failed = {}

\* The calls of the replicator that are over: what is answered.
Answered(m) == m.at = "answered" /\ r.alive
Others(m) == rpcs \ {m}
\* The next state of the replicator and its calls, with the calls `rest' left.
Sends(s, rest) == r' = s.x /\ rpcs' = rest \union s.out
\* The throttle, or a snapshot that cannot be read, blocks the replicator.
Throttles(throttled) ==
    /\ throttled => r'.st = "BLOCKING"
    /\ faults' = faults + IF throttled THEN 1 ELSE 0

\* The log grows, wakes the waiters, and is compacted.
AppendEntry ==
    /\ r.alive /\ log.last < MaxLog
    /\ log' = [log EXCEPT !.last = @ + 1]
    /\ r' = [r EXCEPT !.woken = @ + Cardinality(r.waiters), !.waiters = {}]
    /\ UNCHANGED <<rpcs, f, catchup, granted, faults, failed>>
Compact(i) ==
    /\ r.alive /\ i > log.first /\ i <= log.last
    /\ log' = [log EXCEPT !.first = i]
    /\ UNCHANGED <<r, rpcs, f, catchup, granted, faults, failed>>

\* _continue_sending of a waiter; which one it does not look at.
ContinueSending(k, throttled) ==
    /\ r.alive /\ r.woken > 0 /\ CanSend
    /\ LET x == [r EXCEPT !.woken = @ - 1] IN
       Sends(IF r.canceled THEN [x |-> x, out |-> {}]
             ELSE SendEntries([x EXCEPT !.wait = 0], k, throttled), rpcs)
    /\ Throttles(throttled)
    /\ UNCHANGED <<log, f, catchup, granted, failed>>

\* The timer of _block: the lock is let go between the two steps.
BlockTimedout ==
    /\ r.alive /\ r.timers > 0
    /\ r' = [r EXCEPT !.st = "IDLE", !.timers = @ - 1, !.resumes = @ + 1]
    /\ UNCHANGED <<log, rpcs, f, catchup, granted, faults, failed>>
ContinueTimedout(throttled) ==
    /\ r.alive /\ r.resumes > 0 /\ CanSend
    /\ LET x == [r EXCEPT !.resumes = @ - 1] IN
       IF r.wait # 0 THEN Sends([x |-> x, out |-> {}], rpcs) /\ UNCHANGED failed
       ELSE /\ Sends(SendEmpty(x, throttled), rpcs)
            /\ failed' = failed \union SendEmptyChecks(x)
    /\ Throttles(throttled)
    /\ UNCHANGED <<log, f, catchup, granted>>

\* _on_rpc_returned: the call is in flight.
Valid(m) == \E i \in DOMAIN r.flying : /\ r.flying[i].id = m.id
                                       /\ r.flying[i].index <= m.prev + 1
\* A call that is not is ignored.
IgnoreReturned(m) ==
    /\ Answered(m) /\ m.op = "append" /\ ~Valid(m)
    /\ rpcs' = Others(m)
    /\ UNCHANGED <<log, r, f, catchup, granted, faults, failed>>

\* The call failed.
RpcFailed(m) ==
    /\ Answered(m) /\ m.op = "append" /\ Valid(m) /\ m.ok = "failed"
    /\ r' = Block([Reset(r) EXCEPT !.errors = TRUE])
    /\ rpcs' = Others(m)
    /\ UNCHANGED <<log, f, catchup, granted, faults, failed>>

\* prev_log_index does not match: where to look next.
NextIndex(x, last) == IF last + 1 < x.next THEN last + 1
                      ELSE IF x.next > 1 THEN x.next - 1 ELSE x.next
RpcMismatched(m, throttled) ==
    LET x == [Reset(r) EXCEPT !.errors = FALSE] IN
    /\ Answered(m) /\ m.op = "append" /\ Valid(m) /\ m.ok = "no" /\ CanSend
    /\ Sends(SendEmpty([x EXCEPT !.next = NextIndex(x, m.last)], throttled),
             Others(m))
    /\ failed' = failed \union SendEmptyChecks(x)
    /\ Throttles(throttled)
    /\ UNCHANGED <<log, f, catchup, granted>>

\* Mutant: the answer ends its own call only.
StillFlyingOthers(m) == SelectSeq(r.flying, LAMBDA c : c.id # m.id)
\* An answer ends all calls up to its own: they are popped from the front.
Popped(m) == CHOOSE p \in 0..Len(r.flying) :
    /\ \A i \in 1..p : r.flying[i].index <= m.prev + 1
    /\ p < Len(r.flying) => r.flying[p + 1].index > m.prev + 1
StillFlying(m) == SubSeq(r.flying, Popped(m) + 1, Len(r.flying))
\* The entries of the calls fl, each by its call and its place there.
EntriesOf(fl) == {e \in (1..Len(fl)) \X (1..MaxEntries) : e[2] <= fl[e[1]].size}
\* Success: commit_at from the first index in flight.
RpcSucceeded(m, k, throttled) ==
    LET x == [r EXCEPT !.flying = StillFlying(m),
                       !.size = Cardinality(EntriesOf(StillFlying(m))),
                       !.succeeded = TRUE, !.errors = FALSE]
    IN  /\ Answered(m) /\ m.op = "append" /\ Valid(m) /\ m.ok = "yes" /\ CanSend
        /\ granted' = IF m.n > 0 THEN Most(granted, m.prev + m.n) ELSE granted
        /\ catchup' = NotifyOk(catchup, x)
        /\ failed' = failed \union Notes(x)
        /\ Sends(SendEntries(TimeoutNow(x), k, throttled), Others(m))
        /\ Throttles(throttled)
        /\ UNCHANGED <<log, f>>

\* _on_install_snapshot_returned.
InstallReturned(m, k, throttled) ==
    LET y == [r EXCEPT !.reader = FALSE]
        x == [y EXCEPT !.next = m.prev + 1, !.succeeded = TRUE]
    IN  /\ Answered(m) /\ m.op = "install" /\ CanSend
        /\ \/ /\ m.ok # "yes"
              /\ r' = Block([y EXCEPT !.errors = @ \/ m.ok = "failed"])
              /\ rpcs' = Others(m)
              /\ UNCHANGED <<catchup, failed>>
           \/ /\ m.ok = "yes"
              /\ catchup' = NotifyOk(catchup, x)
              /\ failed' = failed \union Notes(x)
              /\ Sends(SendEntries(TimeoutNow(x), k, throttled), Others(m))
        /\ Throttles(throttled)
        /\ UNCHANGED <<log, f, granted>>

\* wait_for_caught_up with a timer, and _on_catch_up_timedout, whose thread may
\* wait for the lock.
WaitForCaughtUp ==
    /\ r.alive /\ ~catchup.waiting /\ catchup.waits < MaxWaits
    /\ LET c == [catchup EXCEPT !.waits = @ + 1] IN
       IF r.succeeded /\ CaughtUp(r)
       THEN /\ catchup' = c
            /\ failed' = failed \union
                  EarlyCatchup([c EXCEPT !.waiting = TRUE], r)
       ELSE /\ catchup' = [c EXCEPT !.waiting = TRUE, !.timer = "armed"]
            /\ UNCHANGED failed
    /\ UNCHANGED <<log, r, rpcs, f, granted, faults>>
CatchupTimerFires ==
    /\ r.alive /\ catchup.timer = "armed"
    /\ catchup' = [catchup EXCEPT !.timer = "running"]
    /\ UNCHANGED <<log, r, rpcs, f, granted, faults, failed>>
CatchupTimedout ==
    /\ r.alive
    /\ \/ /\ catchup.timer = "running"
          /\ catchup' = [NotifyError(catchup) EXCEPT !.stray = catchup.stray]
          /\ UNCHANGED failed
       \/ /\ catchup.stray
          /\ catchup' = [NotifyError(catchup) EXCEPT !.stray = FALSE]
          /\ failed' = failed \union IF catchup.waiting THEN {"timer"} ELSE {}
    /\ UNCHANGED <<log, r, rpcs, f, granted, faults>>

\* _transfer_leadership: the follower has the log up to the index.
TransferNow(index) == r.succeeded /\ MinFlying(r) > index
\* ReplicatorGroup::transfer_leadership_to and stop_transfer_leadership, for the
\* leader's last index.
TransferLeadership ==
    /\ r.alive /\ ~r.errors /\ r.timeout_now = 0
    /\ IF TransferNow(log.last)
       THEN failed' = failed \union Early(log.last) /\ UNCHANGED r
       ELSE r' = [r EXCEPT !.timeout_now = log.last] /\ UNCHANGED failed
    /\ UNCHANGED <<log, rpcs, f, catchup, granted, faults>>
StopTransferLeadership ==
    /\ r.alive /\ r.timeout_now # 0
    /\ r' = [r EXCEPT !.timeout_now = 0]
    /\ UNCHANGED <<log, rpcs, f, catchup, granted, faults, failed>>

\* _on_heartbeat_returned, with the follower's mode, and change_readonly_config of
\* the node once the replicator's lock is free.
HeartbeatReturned ==
    /\ r.alive /\ r.change = {} /\ f.readonly # (r.readonly # 0)
    /\ r' = [r EXCEPT !.change = {f.readonly}]
    /\ UNCHANGED <<log, rpcs, f, catchup, granted, faults, failed>>
ChangeReadonlyConfig ==
    /\ r.alive /\ r.change # {}
    /\ LET on == TRUE \in r.change
           x  == [r EXCEPT !.change = {}]
       IN  r' = IF on = (r.readonly # 0) THEN x
                ELSE IF on THEN [x EXCEPT !.readonly = log.last + 1]
                ELSE WaitMore([x EXCEPT !.readonly = 0])
    /\ UNCHANGED <<log, rpcs, f, catchup, granted, faults, failed>>

\* stop, or an answer of a higher term: who waits for catch up is told EPERM, then
\* _on_error(ESTOP) and _destroy cancel everything.
Stop ==
    /\ r.alive
    /\ r' = [r EXCEPT !.alive = FALSE, !.flying = <<>>, !.size = 0, !.waiters = {},
                      !.woken = 0, !.timers = 0, !.resumes = 0, !.change = {},
                      !.wait = 0, !.reader = FALSE, !.st = "IDLE", !.next = 1,
                      !.timeout_now = 0, !.readonly = 0, !.canceled = FALSE]
    /\ catchup' = [NotifyError(catchup) EXCEPT !.timer = "none", !.stray = FALSE]
    /\ rpcs' = {}
    /\ UNCHANGED <<log, f, granted, faults, failed>>

-----------------------------------------------------------------------------
(* The follower.                                                           *)

Answer(m, ok) == [m EXCEPT !.at = "answered", !.ok = ok, !.last = f.len]
Ready(m, at) == m.at = at /\ m.op = "append"
Cached == {m \in rpcs : m.at = "cached"}
\* start_to_handle: what leaves the cache is handled by a thread of its own.
Released(ms) == {[m EXCEPT !.at = "released"] : m \in ms}
Removed(q, ms) == SelectSeq(q, LAMBDA id : ~\E m \in ms : m.id = id)

\* Mutant: a request that starts behind the log is matched at its end.
MatchesEnd(m) == m.prev <= f.len
\* get_term(prev_log_index) is prev_log_term.
Matches(m) == m.prev <= f.match

\* No match, and it cannot wait: the answer tells how long the log is.
HandleMismatch(m) ==
    /\ \/ Ready(m, "released")
       \/ Ready(m, "sent") /\ (CacheSize = 0 \/ f.len >= m.prev \/ m.n = 0)
    /\ ~Matches(m)
    /\ rpcs' = Others(m) \union {Answer(m, "no")}
    /\ UNCHANGED <<log, r, f, catchup, granted, faults, failed>>

\* AppendEntriesCache::store: an overlap clears the cache first; the last ones of
\* a cache that is full are handled at once.
Overlaps(m) == \E c \in Cached : c.prev < m.prev + m.n /\ m.prev < c.prev + c.n
HandleOutOfOrder(m) ==
    LET cleared == IF Overlaps(m) THEN Cached ELSE {}
        kept    == (Cached \ cleared) \union {m}
        evicted == IF Cardinality(kept) <= CacheSize THEN {}
                   ELSE {c \in kept : \A d \in kept : d.prev <= c.prev}
        queue   == Removed(f.queue, cleared)
    IN  /\ Ready(m, "sent") /\ CacheSize > 0 /\ f.len < m.prev /\ m.n > 0
        /\ ~Matches(m)
        /\ rpcs' = (Others(m) \ Cached)
                     \union Released(cleared \union evicted)
                     \union {[c EXCEPT !.at = "cached"] : c \in kept \ evicted}
        /\ f' = [f EXCEPT !.queue = Removed(Append(queue, m.id), evicted),
                          !.timer = IF queue = <<>> THEN m.id ELSE @]
        /\ UNCHANGED <<log, r, catchup, granted, faults, failed>>

\* process_runable_rpcs: the cached calls that follow on, one after the other.
Runable(last) ==
    {m \in Cached : \A i \in last + 1..m.prev :
                       \E c \in Cached : c.prev < i /\ i <= c.prev + c.n}

\* A probe that matches is answered at once, entries once they are stable; what
\* conflicts is truncated. Entries that are all applied are answered at once too,
\* on disk or not, and change nothing.
MayBeApplied(m) == m.n > 0 /\ m.prev + m.n <= f.match
HandleAppendEntries(m, applied) ==
    LET last == m.prev + m.n
        run  == IF m.n = 0 THEN {} ELSE Runable(last)
        queue == Removed(f.queue, run)
    IN  /\ Ready(m, "sent") \/ Ready(m, "released")
        /\ Matches(m) /\ (applied => MayBeApplied(m))
        /\ rpcs' = (Others(m) \ run) \union Released(run) \union
             {IF m.n = 0 \/ applied THEN Answer(m, "yes")
              ELSE [m EXCEPT !.at = "stable"]}
        /\ f' = [f EXCEPT !.match = IF m.prev <= @ THEN Most(@, last) ELSE @,
                          !.len = IF last > f.match THEN last ELSE @,
                          !.synced = IF last > f.match THEN Least(@, f.match) ELSE @,
                          !.early = IF applied /\ last > f.synced
                                    THEN Most(@, last) ELSE @,
                          !.queue = queue,
                          !.timer = IF queue = <<>> THEN 0 ELSE @]
        /\ UNCHANGED <<log, r, catchup, granted, faults, failed>>

\* The disk: everything in its queue becomes stable.
Flush ==
    /\ \E m \in rpcs : m.at = "stable"
    /\ f' = [f EXCEPT !.synced = f.len,
                      !.early = IF @ <= f.match THEN 0 ELSE @]
    /\ rpcs' = {IF m.at = "stable" THEN Answer(m, "yes") ELSE m : m \in rpcs}
    /\ UNCHANGED <<log, r, catchup, granted, faults, failed>>

\* The cache is cleared, and a snapshot is installed.
HandleInstallSnapshot(m) ==
    LET y == [f EXCEPT !.queue = <<>>, !.timer = 0] IN
    /\ m.at = "sent" /\ m.op = "install"
    /\ f' = IF m.prev <= f.match THEN [y EXCEPT !.synced = Most(@, m.prev)]
            ELSE [y EXCEPT !.match = m.prev, !.len = m.prev, !.synced = m.prev]
    /\ rpcs' = (Others(m) \ Cached) \union Released(Cached)
                 \union {Answer(m, "yes")}
    /\ UNCHANGED <<log, r, catchup, granted, faults, failed>>

\* on_append_entries_cache_timedout: when the head is still the one of the timer
\* the cache is cleared, else the timer starts again.
CacheTimedout ==
    /\ f.timer # 0 /\ f.queue # <<>>
    /\ IF Head(f.queue) = f.timer
       THEN /\ rpcs' = (rpcs \ Cached) \union Released(Cached)
            /\ f' = [f EXCEPT !.queue = <<>>, !.timer = 0]
       ELSE f' = [f EXCEPT !.timer = Head(f.queue)] /\ UNCHANGED rpcs
    /\ UNCHANGED <<log, r, catchup, granted, faults, failed>>

\* The follower loses what is not on disk, its cache and its answers.
FollowerCrash ==
    LET lost == {m \in rpcs : m.at \in {"cached", "released", "stable"}} IN
    /\ faults < MaxFailures /\ faults' = faults + 1
    /\ f' = [f EXCEPT !.match = Least(@, f.synced), !.len = Least(@, f.synced),
                      !.queue = <<>>, !.timer = 0]
    /\ rpcs' = (rpcs \ lost) \union {Answer(m, "failed") : m \in lost}
    /\ UNCHANGED <<log, r, catchup, granted, failed>>

\* A call fails: lost, refused (EBUSY), or its answer lost. Of a call that was
\* given up nothing comes back.
CallFails(m) ==
    /\ r.alive /\ m.at \in {"sent", "answered"} /\ m.ok # "failed"
    /\ faults < MaxFailures /\ faults' = faults + 1
    /\ rpcs' = Others(m) \union {[m EXCEPT !.at = "answered", !.ok = "failed"]}
    /\ UNCHANGED <<log, r, f, catchup, granted, failed>>

ToggleReadonly ==
    /\ (IF f.readonly THEN "leave" ELSE "enter") \in Readonly
    /\ faults < MaxFailures /\ faults' = faults + 1
    /\ f' = [f EXCEPT !.readonly = ~@]
    /\ UNCHANGED <<log, r, rpcs, catchup, granted, failed>>

-----------------------------------------------------------------------------
Throttled == IF faults < MaxFailures THEN BOOLEAN ELSE {FALSE}
Sizes == 1..MaxEntries
LeaderStep ==
    \/ \E k \in Sizes, t \in Throttled : ContinueSending(k, t)
    \/ BlockTimedout \/ \E t \in Throttled : ContinueTimedout(t)
    \/ \E m \in rpcs : \/ IgnoreReturned(m) \/ RpcFailed(m)
                       \/ \E t \in Throttled : RpcMismatched(m, t)
                       \/ \E k \in Sizes, t \in Throttled :
                             RpcSucceeded(m, k, t) \/ InstallReturned(m, k, t)
    \/ HeartbeatReturned \/ ChangeReadonlyConfig
    \/ CatchupTimerFires \/ CatchupTimedout
FollowerStep ==
    \/ \E m \in rpcs : \/ HandleMismatch(m) \/ HandleOutOfOrder(m)
                       \/ \E applied \in BOOLEAN : HandleAppendEntries(m, applied)
                       \/ HandleInstallSnapshot(m)
    \/ Flush \/ CacheTimedout
Next ==
    \/ AppendEntry \/ \E i \in 2..MaxLog : Compact(i)
    \/ WaitForCaughtUp \/ TransferLeadership \/ StopTransferLeadership \/ Stop
    \/ LeaderStep \/ FollowerStep
    \/ FollowerCrash \/ \E m \in rpcs : CallFails(m)
    \/ ToggleReadonly
Spec == Init /\ [][Next]_vars

\* Timers fire, bthreads run, calls are delivered and answered once no more of
\* them fail: weak fairness of both sides, with the conditions under which they
\* can move spelled out (TLC is slow at ENABLED here).
LeaderReady ==
    /\ r.alive
    /\ \/ (r.woken > 0 \/ r.resumes > 0) /\ CanSend
       \/ r.timers > 0 \/ r.change # {} \/ catchup.timer # "none" \/ catchup.stray
       \/ f.readonly # (r.readonly # 0)
       \/ \E m \in rpcs :
             /\ m.at = "answered"
             /\ CanSend \/ (m.op = "append" /\ (m.ok = "failed" \/ ~Valid(m)))
FollowerReady ==
    \/ f.timer # 0 \/ \E m \in rpcs : m.at \in {"sent", "released", "stable"}
Fairness ==
    /\ <>[]LeaderReady => []<><<LeaderStep>>_vars
    /\ <>[]FollowerReady => []<><<FollowerStep>>_vars
FairSpec == Spec /\ Fairness

-----------------------------------------------------------------------------
(* Properties.                                                             *)

\* Every part of the state has its type; next_index is never beyond the log.
TypeOK ==
    /\ log \in [first: 1..MaxLog, last: 0..MaxLog]
    /\ r.next \in 1..log.last + 1 /\ r.size \in 0..MaxEntries
    /\ Len(r.flying) <= Parallel
    /\ r.st \in {"IDLE", "BLOCKING", "APPENDING_ENTRIES", "INSTALLING_SNAPSHOT"}
    /\ f.match \in 0..MaxLog /\ f.synced \in 0..MaxLog + 1
    /\ f.match <= f.len /\ \A m \in rpcs : m.id \in Ids
    /\ granted \in 0..MaxLog /\ faults \in 0..MaxFailures

\* The calls in flight are one after the other and fill the indexes from
\* _min_flying_index to next_index: what _on_rpc_returned takes for granted when
\* one answer ends all calls before it, and _reset_next_index when it goes back.
FlyingIsContiguous ==
    LET fl == r.flying IN
    /\ \A i \in 1..Len(fl) - 1 : fl[i].index + fl[i].size = fl[i + 1].index
    /\ fl # <<>> => /\ Head(fl).index = MinFlying(r)
                    /\ Last(fl).index + Last(fl).size = r.next
    /\ fl = <<>> => r.size = 0

\* commit_at is told only of entries that the follower has on disk, whatever
\* answers are late, out of order or of calls given up. The one exception is what
\* was answered early: the follower had applied it, so that the group had it
\* committed without this answer, and a crash may take it from this disk.
GrantedIsStored == granted <= Most(f.early, Least(f.match, f.synced))

\* At no step does anything go wrong: a probe starts with nothing in flight (the
\* CHECKs of _send_empty_entries); a transfer sends its TimeoutNow only to a follower
\* that has the log up to the index it was asked for, or had applied it when it
\* answered early; of answers, timers and stop, whoever is first, only a follower
\* that has (or had applied) the log but for the margin ends a wait with success, and
\* only a wait's own timer times it out, never the one of the wait before.
NothingWrong == TypeOK /\ failed = {}

\* Whoever waits for a follower to catch up is told in the end, by an answer, the
\* timer or the end of the replicator: an answer that leaves the closure to a timer
\* on its way does not leave it to nobody. (p ~> ~p is []<>~p, which is cheaper.)
CatchupEnds == []<>(~catchup.waiting)

\* Once calls stop failing, everything in the leader's log, up to the read-only
\* index of a follower that has one, reaches the follower's disk: no wakeup, timer
\* or cached call is forgotten.
Replicated ==
    LET upto == IF r.readonly # 0 THEN r.readonly - 1 ELSE log.last
    IN  <>[](r.alive => f.match >= upto /\ f.synced >= upto)
=============================================================================

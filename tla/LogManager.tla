----------------------------- MODULE LogManager -----------------------------
(***************************************************************************)
(* The LogManager of one braft node (src/src/braft/log_manager.cpp): the   *)
(* log as the node sees it, its tail in memory, the queue of the disk      *)
(* thread, the log storage behind it, snapshots, waiters, failed writes,   *)
(* crashes and restarts.                                                   *)
(*                                                                         *)
(* An entry is its LogId: by the log matching property of Raft two entries *)
(* with the same index and term are the same entry. The group is given by  *)
(* LeaderLog, the whole log of the leader of each term; the node receives  *)
(* segments of it as a follower, or appends to it in a term of its own.    *)
(* Each action is one critical section of LogManager::_mutex, or one step  *)
(* of the disk thread.                                                     *)
(***************************************************************************)
EXTENDS Integers, Sequences, FiniteSets

CONSTANTS
    LeaderLog,      \* the terms of the entries of each term's leader
    OwnTerms,       \* the terms that this node leads
    Waiters,        \* the replicators that wait for new logs
    AppendMayFail,  \* LogStorage::append_entries may fail
    Delayed,        \* AppendEntries may arrive after the log they continue
                    \* has been compacted
    KeepStable,     \* the histories stable and early are kept (a run of which
                    \* no property reads them does without)
    Snapshots,      \* bound: the indexes at which snapshots are taken
    MaxQueue,       \* bound on the length of the disk queue
    MaxCrashes      \* bound on the number of crashes

Terms == 1..Len(LeaderLog)
LastTerm == Len(LeaderLog)
Agree(a, b, k) == k <= Len(a) /\ k <= Len(b) /\ \A i \in 1..k : a[i] = b[i]

ASSUME LeaderLogAssumption ==
    /\ LeaderLog \in Seq(Seq(Terms)) /\ LeaderLog # <<>>
    /\ \A t \in Terms : \A i \in 1..Len(LeaderLog[t]) :
          /\ LeaderLog[t][i] <= t
          /\ i > 1 => LeaderLog[t][i - 1] <= LeaderLog[t][i]
    /\ \A t, u \in Terms : \A i \in 1..Len(LeaderLog[t]) :
          i <= Len(LeaderLog[u]) /\ LeaderLog[t][i] = LeaderLog[u][i] =>
             Agree(LeaderLog[t], LeaderLog[u], i)
ASSUME BoundAssumption ==
    /\ OwnTerms \subseteq Terms /\ IsFiniteSet(Waiters)
    /\ AppendMayFail \in BOOLEAN /\ Delayed \in BOOLEAN
    /\ KeepStable \in BOOLEAN
    /\ Snapshots \subseteq Nat
    /\ MaxQueue \in Nat \ {0} /\ MaxCrashes \in Nat

VARIABLES
    lm,        \* the fields of LogManager
    queue,     \* the closures in _disk_queue
    disk,      \* the disk thread, with its AppendBatcher
    storage,   \* the LogStorage, durable
    snapshot,  \* the last snapshot, durable in the SnapshotStorage
    executor,  \* what the SnapshotExecutor has yet to tell the log manager
    clearing,  \* the argument of the clear_memory_logs that each thread is in
    waiting,   \* _wait_map, and the index that every waiter has read up to
    term,      \* the term of the node
    log,       \* history: the terms of the log the node means to have
    stable,    \* history: entries that a StableClosure has declared stable,
               \* without those that a durable snapshot covers since
    early,     \* history: of these, the applied ones that were not on disk then
    failed,    \* history: the CHECKs of the code that have failed
    crashes    \* number of crashes so far
vars == <<lm, queue, disk, storage, snapshot, executor, clearing, waiting,
          term, log, stable, early, failed, crashes>>

-----------------------------------------------------------------------------
(* Log ids, and reading the log.                                           *)

Id(i, t) == [index |-> i, term |-> t]
NoId == Id(0, 0)
Less(a, b) == a.term < b.term \/ (a.term = b.term /\ a.index < b.index)

StorageLast(s) == s.first + Len(s.terms) - 1
StorageTerm(s, i) ==
    IF i \in s.first..StorageLast(s) THEN s.terms[i - s.first + 1] ELSE 0

InMemory(x, i) == x.mem # <<>> /\ i \in x.mem[1].index..x.mem[Len(x.mem)].index
\* get_entry_from_memory.
MemoryTerm(x, i) == x.mem[i - x.mem[1].index + 1].term

\* get_entry: from memory, or from the storage.
EntryTerm(x, s, i) ==
    IF InMemory(x, i) THEN MemoryTerm(x, i) ELSE StorageTerm(s, i)

\* unsafe_get_term and get_term.
GetTerm(x, s, i) ==
    IF i = 0 THEN 0
    ELSE IF i = x.vfirst.index THEN x.vfirst.term
    ELSE IF i = x.snap.index THEN x.snap.term
    ELSE IF i \notin x.first..x.last THEN 0
    ELSE EntryTerm(x, s, i)

\* The log the node means to have, and its last id.
LogTerm(i) == IF i = 0 THEN 0 ELSE log[i]
LastId == Id(Len(log), LogTerm(Len(log)))

\* An index that the leader of term t may have committed: it has an entry of
\* its own at or above it, and every later leader has the same log up to it.
Committable(t, k) ==
    /\ \E j \in k..Len(LeaderLog[t]) : LeaderLog[t][j] = t
    /\ \A u \in t..LastTerm : Agree(LeaderLog[t], LeaderLog[u], k)
CommittedUpTo(k) == \E t \in 1..term : Committable(t, k)
CommittedId(k) == Id(k, LeaderLog[LastTerm][k])

-----------------------------------------------------------------------------
(* The state.                                                              *)

LogIds == [index: Nat, term: 0..LastTerm]
Closure == [op: {"append", "last_id", "prefix", "suffix", "reset"},
            entries: Seq(LogIds), arg: LogIds, promise: SUBSET LogIds]
Checks == {"truncate_applied", "truncate_term", "truncate_prefix",
           "append_gap", "last_id_term", "inconsistent"}

\* The fields of the log manager, its queue and the storage have their types,
\* and the entries in memory are the end of the log, without a gap: what the
\* CHECK of get_entry_from_memory says, and what its arithmetic needs.
TypeOK ==
    /\ lm \in [first: Nat, last: Nat, mem: Seq(LogIds), vfirst: LogIds,
               snap: LogIds, disk_id: LogIds, applied_id: LogIds,
               has_error: BOOLEAN]
    /\ \A j \in 1..Len(lm.mem) :
          lm.mem[j].index = lm.last - Len(lm.mem) + j
    /\ queue \in Seq(Closure) /\ Len(queue) <= MaxQueue + 1
    /\ disk \in [busy: BOOLEAN, last_id: LogIds, closures: Seq(Closure),
                 to_append: Seq(LogIds)]
    /\ storage \in [first: Nat, terms: Seq(Terms)]
    /\ snapshot \in LogIds
    /\ executor \in {"idle", "save", "install"}
    /\ clearing \in [{"disk", "fsm"} -> LogIds]
    /\ waiting \in [Waiters -> [asleep: BOOLEAN, seen: Nat]]
    /\ term \in 0..LastTerm
    /\ log \in Seq(Terms)
    /\ stable \subseteq LogIds /\ early \subseteq LogIds
    /\ failed \subseteq Checks
    /\ crashes \in 0..MaxCrashes

\* The disk thread between two batches: disk_thread starts with _disk_id.
DiskIdle(id) ==
    [busy |-> FALSE, last_id |-> id, closures |-> <<>>, to_append |-> <<>>]

Init ==
    /\ lm = [first |-> 1, last |-> 0, mem |-> <<>>, vfirst |-> NoId,
             snap |-> NoId, disk_id |-> NoId, applied_id |-> NoId,
             has_error |-> FALSE]
    /\ queue = <<>> /\ disk = DiskIdle(NoId)
    /\ storage = [first |-> 1, terms |-> <<>>]
    /\ snapshot = NoId /\ executor = "idle"
    /\ clearing = [th \in {"disk", "fsm"} |-> NoId]
    /\ waiting = [w \in Waiters |-> [asleep |-> FALSE, seen |-> 0]]
    /\ term = 0 /\ log = <<>> /\ stable = {} /\ early = {}
    /\ failed = {} /\ crashes = 0

\* The CHECK named c, in a step in which its condition is ok.
Check(c, ok) == IF ok THEN {} ELSE {c}

Op(op, id) == [op |-> op, entries |-> <<>>, arg |-> id, promise |-> {}]
\* The StableClosure of an append, with the term it was made in.
AppendOp(es, promise) ==
    [op |-> "append", entries |-> es, arg |-> Id(0, term), promise |-> promise]

-----------------------------------------------------------------------------
(* The storage, as LogManager uses it.                                     *)

TruncatePrefix(s, f) ==
    IF s.first >= f THEN s
    ELSE IF f > StorageLast(s) THEN [first |-> f, terms |-> <<>>]
    ELSE [first |-> f, terms |-> SubSeq(s.terms, f - s.first + 1, Len(s.terms))]
\* Mutant: one entry too many is cut.
TruncateSuffixOneMore(s, k) == [s EXCEPT !.terms = SubSeq(@, 1, k - s.first)]
TruncateSuffix(s, k) ==
    IF k < s.first THEN [first |-> k + 1, terms |-> <<>>]
    ELSE [s EXCEPT !.terms =
             SubSeq(@, 1, IF k > StorageLast(s) THEN Len(@) ELSE k - s.first + 1)]
Reset(s, next) == [first |-> next, terms |-> <<>>]
Store(s, es) == [s EXCEPT !.terms = @ \o [j \in 1..Len(es) |-> es[j].term]]

-----------------------------------------------------------------------------
(* Changes of the log in memory. Every call puts what the disk thread has  *)
(* to do at the end of its queue, in the same critical section.            *)

Room(n) == Len(queue) + n <= MaxQueue

\* LogManager::truncate_prefix; the caller queues the TruncatePrefixClosure.
DropPrefix(x, f) ==
    [x EXCEPT !.first = f,
              !.last = IF f > @ THEN f - 1 ELSE @,
              !.mem = SelectSeq(@, LAMBDA e : e.index >= f)]

\* What append_entries does once the entries es, that start at index c, are
\* known to continue the first c - 1 entries.
\* (unsafe_truncate_suffix has cut the log to them).
AddEntries(x, c, es) ==
    [x EXCEPT !.last = c + Len(es) - 1,
              !.mem = SelectSeq(@, LAMBDA e : e.index < c) \o es]
Ids(l, a, b) == [j \in 1..b - a + 1 |-> Id(a + j - 1, l[a + j - 1])]
IdSet(l, a, b) == {Id(i, l[i]) : i \in a..b}
Above(ids, k) == {id \in ids : id.index > k}
Declared(ids) ==
    IF KeepStable THEN stable \union Above(ids, snapshot.index)
    ELSE stable
NotOnDisk(ids, s) == {id \in ids : StorageTerm(s, id.index) # id.term}
KeptIn(ids, l) == {id \in ids : id.index <= Len(l) /\ l[id.index] = id.term}
WakeUpAll == [w \in Waiters |-> [waiting[w] EXCEPT !.asleep = FALSE]]

\* A new term starts. The node leads it only with the log that its leader
\* starts from; the replicators of an older term are gone.
NewTerm(t) ==
    /\ t > term
    /\ t \in OwnTerms => /\ executor # "install"
                         /\ log = SelectSeq(LeaderLog[t], LAMBDA u : u < t)
    /\ term' = t
    /\ waiting' = [w \in Waiters |-> [asleep |-> FALSE, seen |-> Len(log)]]
    /\ UNCHANGED <<lm, queue, disk, storage, snapshot, executor, clearing,
                   log, stable, early, failed, crashes>>

\* append_entries with entries of the leader, which have no index yet.
LeaderAppend ==
    /\ term \in OwnTerms /\ ~lm.has_error /\ Room(1)
    /\ Len(log) < Len(LeaderLog[term])
    /\ LET i  == lm.last + 1
           es == <<Id(i, term)>>
       IN  /\ lm' = AddEntries(lm, i, es)
           /\ queue' = Append(queue, AppendOp(es, {es[1]}))
           /\ log' = Append(log, term)
    /\ waiting' = WakeUpAll
    /\ UNCHANGED <<disk, storage, snapshot, executor, clearing, term, stable,
                   early, failed, crashes>>

\* Mutant: only entries beyond the log are taken for new.
FirstConflictUnchecked(prev, k) == IF k > lm.last THEN lm.last + 1 ELSE k + 1
\* The first of the leader's entries prev + 1 .. k that the log lacks, or k + 1.
FirstConflict(prev, k) ==
    LET differ == {i \in prev + 1..k :
                     GetTerm(lm, storage, i) # LeaderLog[term][i]}
    IN  CHOOSE i \in differ \union {k + 1} : \A j \in differ : i <= j

\* handle_append_entries_request reaches check_and_resolve_conflict with the
\* entries prev + 1 .. k of the leader's log, which it finds to continue its own.
FollowerTakes(prev, k) ==
    /\ ~lm.has_error /\ executor # "install"
    /\ Delayed \/ prev >= lm.first - 1
    /\ GetTerm(lm, storage, prev) =
          IF prev = 0 THEN 0 ELSE LeaderLog[term][prev]
    /\ prev <= lm.last

\* Entries that are all applied are not looked at: the closure runs with OK at
\* once, and nothing changes. They were applied when they were in memory, and
\* need not be on disk yet: the commit index of a heartbeat is believed at once.
FollowerAppendApplied(prev, k) ==
    /\ FollowerTakes(prev, k) /\ k <= lm.applied_id.index
    /\ LET ids == IdSet(LeaderLog[term], prev + 1, k)
       IN  /\ stable' = Declared(ids)
           /\ early' = early \union NotOnDisk(stable' \ stable, storage)
    /\ UNCHANGED <<lm, queue, disk, storage, snapshot, executor, clearing,
                   waiting, term, log, failed, crashes>>

\* Other entries: check_and_resolve_conflict finds the first that differs, c,
\* cuts the log there, and append_entries adds the rest. A duplicate adds
\* nothing, but its closure goes through the queue.
FollowerAppend(prev, k) ==
    LET leader == LeaderLog[term]
        c      == FirstConflict(prev, k)
        cut    == c <= k /\ c <= lm.last
        kept   == [lm EXCEPT !.last = c - 1]
        bad    == IF ~cut THEN {}
                  ELSE IF c - 1 < lm.applied_id.index THEN {"truncate_applied"}
                  ELSE IF c > 1 /\ GetTerm(kept, storage, c - 1) = 0
                  THEN {"truncate_term"} ELSE {}
        suffix == <<Op("suffix", Id(c - 1, GetTerm(kept, storage, c - 1)))>>
        append == <<AppendOp(Ids(leader, c, k), IdSet(leader, prev + 1, k))>>
    IN  /\ FollowerTakes(prev, k) /\ k > lm.applied_id.index /\ Room(2)
        /\ failed' = bad
        /\ IF bad # {} THEN UNCHANGED <<lm, queue, log, stable, waiting>>
           ELSE /\ lm' = IF c <= k THEN AddEntries(lm, c, Ids(leader, c, k))
                                   ELSE lm
                /\ queue' = queue \o (IF cut THEN suffix ELSE <<>>) \o append
                /\ log' = IF c <= k THEN SubSeq(log, 1, c - 1) \o
                                         SubSeq(leader, c, k)
                                    ELSE log
                /\ stable' = KeptIn(stable, log')
                /\ waiting' = WakeUpAll
        /\ UNCHANGED <<disk, storage, snapshot, executor, clearing, term, early,
                       crashes>>

\* last_log_id(true): ask the disk thread for the id of the last entry on disk
\* (at once when the log ends with the snapshot).
LastLogId ==
    /\ lm.last # lm.snap.index /\ Room(1)
    /\ \A i \in 1..Len(queue) : queue[i].op # "last_id"
    /\ queue' = Append(queue, Op("last_id", LastId))
    /\ UNCHANGED <<lm, disk, storage, snapshot, executor, clearing, waiting,
                   term, log, stable, early, failed, crashes>>

-----------------------------------------------------------------------------
(* The disk thread. It takes its closures in batches; the entries of       *)
(* several closures are written with one call.                             *)

DiskReady == queue # <<>> /\ clearing["disk"] = NoId

\* AppendBatcher::append.
DiskCollect ==
    /\ DiskReady /\ Head(queue).entries # <<>>
    /\ disk' = [disk EXCEPT !.busy = TRUE,
                            !.closures = Append(@, Head(queue)),
                            !.to_append = @ \o Head(queue).entries]
    /\ queue' = Tail(queue)
    /\ UNCHANGED <<lm, storage, snapshot, executor, clearing, waiting, term,
                   log, stable, early, failed, crashes>>

\* The entries that the closures cs declare stable when they run with OK: a
\* FollowerStableClosure answers success only in the term it was made in, and
\* what a LeaderStableClosure grants in a later term is no ballot's.
Promises(cs) ==
    UNION {cs[i].promise : i \in {j \in 1..Len(cs) : cs[j].arg.term = term}}

\* Mutant: the last id is not moved on by a write.
LastIdAppendedSame(es, n, id) == id
\* The id of the last of the n entries written.
LastIdAppended(es, n, id) == IF n > 0 THEN es[n] ELSE id

\* AppendBatcher::flush and append_to_storage: when n entries out of all have
\* been written, report_error, and every closure fails.
FlushAll ==
    /\ LET es  == disk.to_append
           gap == es[1].index # StorageLast(storage) + 1
       IN  IF lm.has_error
           THEN /\ disk' = [disk EXCEPT !.closures = <<>>, !.to_append = <<>>]
                /\ UNCHANGED <<lm, storage, stable, early, failed>>
           ELSE \E n \in 0..Len(es) :
                /\ n < Len(es) => AppendMayFail \/ (gap /\ n = 0)
                /\ gap => n = 0
                /\ failed' = IF gap THEN {"append_gap"} ELSE {}
                /\ storage' = Store(storage, SubSeq(es, 1, n))
                /\ disk' = [disk EXCEPT !.closures = <<>>, !.to_append = <<>>,
                               !.last_id = LastIdAppended(es, n, @)]
                /\ lm' = [lm EXCEPT !.has_error = n < Len(es)]
                /\ stable' = IF n < Len(es) THEN stable
                             ELSE Declared(KeptIn(Promises(disk.closures), log))
                /\ early' = NotOnDisk(early, storage')
    /\ UNCHANGED <<queue, snapshot, executor, clearing, waiting, term, log, crashes>>

\* Mutant: no flush at the end of a batch.
DiskFlushNotAtEnd == disk.closures # <<>> /\ queue # <<>> /\ FlushAll
\* A batch is flushed when it is full, when a closure without entries comes,
\* and at its end.
DiskFlush == disk.closures # <<>> /\ FlushAll

\* A closure without entries, after the flush: the id of the last entry, a
\* truncation, a reset, or a duplicate append, whose closure runs with OK.
DiskOp ==
    /\ DiskReady /\ Head(queue).entries = <<>> /\ disk.closures = <<>>
    /\ LET c  == Head(queue)
           ok == c.op = "suffix" => storage.terms # <<>>
       IN  /\ storage' = CASE c.op = "prefix" -> TruncatePrefix(storage, c.arg.index)
                           [] c.op = "suffix" -> TruncateSuffix(storage, c.arg.index)
                           [] c.op = "reset"  -> Reset(storage, c.arg.index)
                           [] OTHER           -> storage
           /\ disk' = [disk EXCEPT !.busy = TRUE,
                          !.last_id = IF c.op = "suffix" /\ ok THEN c.arg ELSE @]
           /\ failed' = Check("last_id_term",
                              c.op = "last_id" =>
                                 disk.last_id.index = 0 \/ disk.last_id.term # 0)
           /\ lm' = [lm EXCEPT !.has_error = @ \/ ~ok]
           /\ stable' = Declared(KeptIn(Promises(<<c>>), log))
    /\ queue' = Tail(queue)
    /\ UNCHANGED <<snapshot, executor, clearing, waiting, term, log, early,
                   crashes>>

\* Mutant: memory is cleared up to the applied id, on disk or not.
MinIdApplied(a, b) == b
MinId(a, b) == IF Less(b, a) THEN b ELSE a

\* The end of a batch: set_disk_id, which ignores an id below the last one.
DiskEnd ==
    /\ disk.busy /\ disk.closures = <<>>
    /\ LET id == IF Less(disk.last_id, lm.disk_id) THEN lm.disk_id
                 ELSE disk.last_id
       IN  /\ lm' = [lm EXCEPT !.disk_id = id]
           /\ disk' = DiskIdle(id)
           /\ clearing' = IF Less(disk.last_id, lm.disk_id) THEN clearing
                          ELSE [clearing EXCEPT !["disk"] = MinId(id, lm.applied_id)]
    /\ UNCHANGED <<queue, storage, snapshot, executor, waiting, term, log,
                   stable, early, failed, crashes>>

DiskThread == DiskCollect \/ DiskFlush \/ DiskOp \/ DiskEnd

\* clear_memory_logs, called by the disk thread or by the FSMCaller: ids grow
\* along the log, so the entries up to the id are popped from the front.
ClearMemoryLogs(th) ==
    /\ clearing[th] # NoId
    /\ lm' = [lm EXCEPT !.mem = SelectSeq(@, LAMBDA e : Less(clearing[th], e))]
    /\ clearing' = [clearing EXCEPT ![th] = NoId]
    /\ UNCHANGED <<queue, disk, storage, snapshot, executor, waiting, term,
                   log, stable, early, failed, crashes>>

-----------------------------------------------------------------------------
(* Applied entries and snapshots.                                          *)

\* FSMCaller::do_committed ends with set_applied_id. The entries up to k are
\* committed, and the log of the node has them.
SetAppliedId(k) ==
    /\ clearing["fsm"] = NoId
    /\ k \in lm.applied_id.index + 1..lm.last
    /\ CommittedUpTo(k) /\ Agree(log, LeaderLog[LastTerm], k)
    /\ lm' = [lm EXCEPT !.applied_id = CommittedId(k)]
    /\ clearing' = [clearing EXCEPT !["fsm"] = MinId(lm.disk_id, CommittedId(k))]
    /\ UNCHANGED <<queue, disk, storage, snapshot, executor, waiting, term,
                   log, stable, early, failed, crashes>>

\* on_snapshot_save_done up to the close of the writer: a snapshot of the
\* entries up to k, which are applied, is durable.
SaveSnapshot(k) ==
    /\ executor = "idle" /\ k \in snapshot.index + 1..lm.applied_id.index
    /\ snapshot' = CommittedId(k)
    /\ executor' = "save"
    /\ stable' = Above(stable, k) /\ early' = Above(early, k)
    /\ UNCHANGED <<lm, queue, disk, storage, clearing, waiting, term, log,
                   failed, crashes>>

\* A snapshot of the leader has been downloaded and is durable. From then on
\* it overrules a log that disagrees with it.
InstallSnapshot(k) ==
    /\ term \notin OwnTerms /\ executor = "idle"
    /\ k > snapshot.index /\ CommittedUpTo(k)
    /\ snapshot' = CommittedId(k)
    /\ executor' = "install"
    /\ stable' = IF k \in 1..Len(log) /\ log[k] # CommittedId(k).term
                 THEN {} ELSE Above(stable, k)
    /\ early' = Above(early, k)
    /\ UNCHANGED <<lm, queue, disk, storage, clearing, waiting, term, log,
                   failed, crashes>>

\* Mutant: the storage is not reset with the log in memory.
SnapshotOpNoReset(x, s, id) ==
    IF GetTerm(x, s, id.index) = 0 THEN <<Op("prefix", Id(id.index + 1, 0))>>
    ELSE IF x.snap.index > 0 THEN <<Op("prefix", Id(x.snap.index + 1, 0))>>
    ELSE <<>>

\* The closure that LogManager::set_snapshot queues, none for the first
\* snapshot of a log that reaches it.
SnapshotOp(x, s, id) ==
    LET t == GetTerm(x, s, id.index)
    IN  IF t = 0 THEN <<Op("prefix", Id(id.index + 1, 0))>>
        ELSE IF t # id.term THEN <<Op("reset", Id(id.index + 1, 0))>>
        ELSE IF x.snap.index > 0 THEN <<Op("prefix", Id(x.snap.index + 1, 0))>>
        ELSE <<>>

\* set_snapshot: a log that does not reach the snapshot is dropped, one that
\* disagrees with it is reset, any other loses what the snapshot before covers.
WithSnapshot(x, s, id) ==
    LET t == GetTerm(x, s, id.index)
        y == [x EXCEPT !.snap = id,
                       !.applied_id = IF Less(@, id) THEN id ELSE @]
    IN  IF t = 0
        THEN [DropPrefix(y, id.index + 1) EXCEPT !.vfirst = id]
        ELSE IF t # id.term
        THEN [y EXCEPT !.vfirst = id, !.first = id.index + 1,
                       !.last = id.index, !.mem = <<>>]
        ELSE IF x.snap.index > 0
        THEN [DropPrefix(y, x.snap.index + 1) EXCEPT !.vfirst = x.snap]
        ELSE y
\* The log that this means: the end of the old one, or just the snapshot.
LogWithSnapshot(x, s, l, id) ==
    IF \/ GetTerm(x, s, id.index) = id.term
       \/ id.index \in 1..x.first - 1 /\ id.index <= Len(l) THEN l
    ELSE SubSeq(LeaderLog[LastTerm], 1, id.index)

\* on_snapshot_save_done and on_snapshot_load_done: set_snapshot. A snapshot
\* older than what the state machine has applied is not loaded.
SetSnapshot ==
    /\ executor # "idle" /\ Room(1)
    /\ executor = "install" => clearing["fsm"] = NoId
    /\ executor' = "idle"
    /\ IF \/ snapshot.index <= lm.snap.index
          \/ executor = "install" /\ Less(snapshot, lm.applied_id)
       THEN UNCHANGED <<lm, queue, log, stable, failed>>
       ELSE /\ lm' = WithSnapshot(lm, storage, snapshot)
            /\ queue' = queue \o SnapshotOp(lm, storage, snapshot)
            /\ log' = LogWithSnapshot(lm, storage, log, snapshot)
            /\ stable' = KeptIn(stable, log')
            /\ failed' = Check("truncate_prefix", lm'.first >= lm.first)
    /\ UNCHANGED <<disk, storage, snapshot, clearing, waiting, term, early,
                   crashes>>

\* do_snapshot with nothing new to save: clear_bufferred_logs. The test of the
\* gap is made before an unlock, and binds nothing when the call is made.
ClearBufferedLogs ==
    /\ lm.snap.index # 0 /\ lm.first <= lm.snap.index /\ Room(1)
    /\ lm' = [DropPrefix(lm, lm.snap.index + 1) EXCEPT !.vfirst = lm.snap]
    /\ queue' = Append(queue, Op("prefix", Id(lm.snap.index + 1, 0)))
    /\ UNCHANGED <<disk, storage, snapshot, executor, clearing, waiting, term,
                   log, stable, early, failed, crashes>>

-----------------------------------------------------------------------------
(* Waiters: a replicator sends what it finds, then waits for more.         *)

ReadAll(w) ==
    /\ term \in OwnTerms /\ ~waiting[w].asleep /\ waiting[w].seen # lm.last
    /\ waiting' = [waiting EXCEPT ![w].seen = lm.last]
    /\ UNCHANGED <<lm, queue, disk, storage, snapshot, executor, clearing,
                   term, log, stable, early, failed, crashes>>

\* Mutant: sleep whatever has been added since the read.
WaitUnchecked(w) ==
    /\ term \in OwnTerms /\ ~waiting[w].asleep
    /\ waiting' = [waiting EXCEPT ![w].asleep = TRUE]
    /\ UNCHANGED <<lm, queue, disk, storage, snapshot, executor, clearing,
                   term, log, stable, early, failed, crashes>>

\* notify_on_new_log: sleep only if nothing was added since.
Wait(w) ==
    /\ term \in OwnTerms /\ ~waiting[w].asleep
    /\ waiting[w].seen = lm.last
    /\ waiting' = [waiting EXCEPT ![w].asleep = TRUE]
    /\ UNCHANGED <<lm, queue, disk, storage, snapshot, executor, clearing,
                   term, log, stable, early, failed, crashes>>

-----------------------------------------------------------------------------
(* A crash, and the restart: LogManager::init, the load of the snapshot,   *)
(* check_consistency. A write that was under way may have reached the disk *)
(* in part. A leader that restarts hears of its group in the next term.    *)

\* LogManager::init.
Loaded(s) ==
    [first |-> s.first, last |-> StorageLast(s), mem |-> <<>>,
     vfirst |-> NoId, snap |-> NoId,
     disk_id |-> Id(StorageLast(s), StorageTerm(s, StorageLast(s))),
     applied_id |-> NoId, has_error |-> FALSE]
\* check_consistency.
Consistent(x) ==
    IF x.snap = NoId THEN x.first = 1
    ELSE x.snap.index \in x.first - 1..x.last
LoadedLog(s) ==
    [i \in 1..StorageLast(s) |-> IF i < s.first THEN LeaderLog[LastTerm][i]
                                 ELSE StorageTerm(s, i)]

Crash ==
    /\ crashes < MaxCrashes
    /\ crashes' = crashes + 1
    /\ \E n \in 0..Len(disk.to_append) :
         LET s == IF lm.has_error THEN storage
                  ELSE Store(storage, SubSeq(disk.to_append, 1, n))
             x == Loaded(s)
             y == IF snapshot = NoId THEN x ELSE WithSnapshot(x, s, snapshot)
             bad == Check("inconsistent",
                       Consistent(y) /\ s.first - 1 <= snapshot.index)
         IN  /\ storage' = s
             /\ lm' = y
             /\ queue' = IF snapshot = NoId THEN <<>> ELSE SnapshotOp(x, s, snapshot)
             /\ disk' = DiskIdle(x.disk_id)
             /\ failed' = bad
             /\ early' = NotOnDisk(early, s)
             /\ log' = IF bad # {} THEN log
                       ELSE IF snapshot = NoId THEN LoadedLog(s)
                       ELSE LogWithSnapshot(x, s, LoadedLog(s), snapshot)
    /\ executor' = "idle"
    /\ clearing' = [th \in {"disk", "fsm"} |-> NoId]
    /\ waiting' = [w \in Waiters |-> [asleep |-> FALSE, seen |-> 0]]
    /\ term \in OwnTerms => term + 1 \in Terms \ OwnTerms
    /\ term' = IF term \in OwnTerms THEN term + 1 ELSE term
    /\ UNCHANGED <<snapshot, stable>>

-----------------------------------------------------------------------------
\* A failed CHECK, or a LOG(FATAL), aborts the process.
Next ==
    /\ failed = {}
    /\ \/ \E t \in Terms : NewTerm(t)
       \/ LeaderAppend
       \/ /\ term \in Terms \ OwnTerms
          /\ \E k \in 1..Len(LeaderLog[term]) : \E prev \in 0..k - 1 :
                FollowerAppend(prev, k) \/ FollowerAppendApplied(prev, k)
       \/ LastLogId
       \/ DiskThread
       \/ \E th \in {"disk", "fsm"} : ClearMemoryLogs(th)
       \/ \E k \in 1..Len(log) : SetAppliedId(k)
       \/ \E k \in Snapshots : SaveSnapshot(k)
       \/ \E k \in Snapshots : InstallSnapshot(k)
       \/ SetSnapshot
       \/ ClearBufferedLogs
       \/ \E w \in Waiters : ReadAll(w) \/ Wait(w)
       \/ Crash

Spec == Init /\ [][Next]_vars

-----------------------------------------------------------------------------
(* Properties.                                                             *)

\* Every entry of the log can be read, from memory or from the storage, and is
\* the entry the node means to have: nothing leaves the memory before it is on
\* disk (clear_memory_logs), and no entry of a truncated suffix is ever read
\* (unsafe_truncate_suffix, get_entry). The id of the last entry, which votes
\* are asked and granted with, is right also when the log ends with a snapshot.
EntriesReadable ==
    /\ lm.last = Len(log)
    /\ \A i \in lm.first..lm.last : EntryTerm(lm, storage, i) = log[i]
    /\ lm.last > 0 => GetTerm(lm, storage, lm.last) = log[lm.last]

\* An entry whose StableClosure has run with OK, and that no leader has told
\* the node to drop, is on disk or covered by a durable snapshot: a follower
\* answers success, and a leader counts itself, for such entries only. The one
\* exception is what check_and_resolve_conflict answers early (lines 357-363),
\* and has not reached the disk since: these entries were applied, so they are
\* committed without this node's answer, and a crash of it takes nothing away.
StableMeansDurable ==
    \A id \in stable : \/ StorageTerm(storage, id.index) = id.term
                       \/ /\ id \in early /\ CommittedUpTo(id.index)
                          /\ id = CommittedId(id.index)

\* When the disk thread answers last_log_id(true), the answer is the id that
\* was last in the log when the question was queued.
LastLogIdFresh ==
    DiskReady /\ disk.closures = <<>> /\ ~lm.has_error
       /\ Head(queue).op = "last_id" => disk.last_id = Head(queue).arg

\* No CHECK or LOG(FATAL) of the log manager and of the log storage fails: what
\* is applied is never truncated, the entry before a truncation is known, the
\* storage is written without a gap, and a restart finds a log that continues
\* its snapshot (check_consistency). Every variable keeps its type.
ChecksHold == TypeOK /\ failed = {}

\* What is on disk is at any time part of the log of one leader, whatever of
\* the queue a crash loses: the log matching property of Raft, on disk.
DiskMatchesALeader ==
    \E t \in Terms : \A i \in storage.first..StorageLast(storage) :
       i <= Len(LeaderLog[t]) /\ LeaderLog[t][i] = StorageTerm(storage, i)

\* The disk thread and its queue run whatever is queued; a replicator that is
\* awake reads the log.
Fairness ==
    /\ WF_vars(failed = {} /\ DiskThread)
    /\ WF_vars(failed = {} /\ ClearMemoryLogs("disk"))
    /\ \A w \in Waiters : WF_vars(failed = {} /\ ReadAll(w))
FairSpec == Spec /\ Fairness

Pending == Promises(queue) \union Promises(disk.closures)
AllIds == UNION {{Id(i, LeaderLog[t][i]) : i \in 1..Len(LeaderLog[t])} : t \in Terms}
\* The StableClosure of every entry that is handed to append_entries runs in the
\* end, also when the storage has failed: none is left in a batch or in the queue,
\* and no leader waits for an answer of a follower, or of its own disk, for ever.
StableClosureRuns ==
    \A id \in AllIds : id \in Pending ~> (id \notin Pending \/ failed # {})

\* A replicator learns of every entry its leader appends, whether it reads the
\* log at that moment, is about to wait or waits: no wakeup is lost between the
\* read and notify_on_new_log.
WaiterCatchesUp ==
    \A w \in Waiters, t \in OwnTerms : \A i \in 1..Len(LeaderLog[t]) :
       (term = t /\ lm.last >= i) ~> (waiting[w].seen >= i \/ term # t \/ failed # {})

=============================================================================

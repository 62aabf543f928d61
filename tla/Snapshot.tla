------------------------------ MODULE Snapshot ------------------------------
(***************************************************************************)
(* Snapshots on one node (snapshot_executor.cpp, snapshot.cpp,             *)
(* remote_file_copier.cpp and snapshot_throttle.cpp in src/src/braft):     *)
(* saving, installing from the leader with retries, the copier and its     *)
(* reuse of files, the directories and their references, the compaction of *)
(* the log, crashes at every step.                                         *)
(*                                                                         *)
(* A snapshot has one file, whose content is known by its checksum; the    *)
(* state machine is deterministic, so the file of a snapshot at index i is *)
(* Sums[i] on every node. Removing or renaming a directory is one step.    *)
(***************************************************************************)
EXTENDS Integers, FiniteSets, FiniteSetsExt

CONSTANTS
    MaxIndex,    \* bound on log indexes
    Sums,        \* the checksum of the file at each index; 0: it has none
    Filter,      \* filter_before_copy_remote: the temp directory is reused
    Tasks,       \* raft_max_install_snapshot_tasks_num
    Rpcs,        \* bound: the InstallSnapshot calls
    MaxTerm,     \* bound on terms
    MaxRetry,    \* max_retry of a copying session
    Faults,      \* what may fail
    MaxFaults    \* bound on faults

FaultKinds == {"crash", "save", "load", "create", "rename", "piece", "sync",
               "close_sync", "link"}
ASSUME SnapshotAssumption ==
    /\ {MaxIndex, Tasks, MaxTerm} \subseteq Nat \ {0}
    /\ {MaxRetry, MaxFaults} \subseteq Nat
    /\ Sums \in [1..MaxIndex -> Nat] /\ Filter \in BOOLEAN
    /\ Faults \subseteq FaultKinds

VARIABLES
    up,       \* the process runs
    d,        \* on disk: the log's first and last index, snapshots, temp
    snap,     \* _last_snapshot_id of the log manager
    applied,  \* the state machine's last index
    bad,      \* the node is in its error state
    ex,       \* SnapshotExecutor
    dl,       \* _downloading_snapshot: whose RPC, which index
    load,     \* where the loading is
    cp,       \* the LocalSnapshotCopier
    ses,      \* its RemoteFileCopier::Session
    w,        \* the SnapshotWriter of the temp directory
    st,       \* LocalSnapshotStorage: the last index, _ref_map
    readers,  \* open readers: of the installing, of a replicator
    rpc,      \* the calls
    faults    \* history: faults so far
vars == <<up, d, snap, applied, bad, ex, dl, load, cp, ses, w, st, readers, rpc, faults>>

Indexes == 1..MaxIndex
Torn == 99
Size == 2       \* the size of a file
Count == 2      \* raft_max_byte_count_per_rpc
Content(i) == IF Sums[i] = 0 THEN 10 + i ELSE Sums[i]
NoTemp == [there |-> FALSE, index |-> 0, sum |-> 0, file |-> 0]
NoDl == [rpc |-> 0, index |-> 0]
NoCopier == [pc |-> "none", index |-> 0, canceled |-> FALSE, err |-> "ok"]
NoSession == [offset |-> 0, count |-> 0, got |-> {}, tries |-> 0]
NoWriter == [on |-> "none", index |-> 0, sum |-> 0, err |-> "ok", pc |-> "none",
             old |-> 0]
NoReaders == [h \in {"install", "leader"} |-> 0]
Latest(disk) == Max({0} \union {i \in Indexes : disk.snaps[i] # 0})

Fault(kind) == /\ kind \in Faults /\ faults < MaxFaults
               /\ faults' = faults + 1
Answer(calls, id) == [calls EXCEPT ![id] = IF @ = "waiting" THEN "answered" ELSE "twice"]

-----------------------------------------------------------------------------
(* LocalSnapshotStorage.                                                   *)

Ref(s, i) == [s EXCEPT !.ref[i] = @ + 1]
\* unref: the directory goes with its last reference.
Unref(s, disk, i) ==
    IF i = 0 \/ s.ref[i] = 0 THEN [s |-> s, d |-> disk]
    ELSE [s |-> [s EXCEPT !.ref[i] = @ - 1],
          d |-> IF s.ref[i] = 1 THEN [disk EXCEPT !.snaps[i] = 0] ELSE disk]

\* create: the temp directory, empty, or with the files its table names.
Create(disk, from_empty) ==
    [disk EXCEPT !.temp =
        IF from_empty \/ ~@.there THEN [NoTemp EXCEPT !.there = TRUE]
        ELSE IF @.sum = 0 THEN [@ EXCEPT !.file = 0] ELSE @]
Writer(on, temp) == [NoWriter EXCEPT !.on = on, !.pc = "open", !.index = temp.index,
                                     !.sum = temp.sum]
\* The writer's table is written to the temp directory.
Sync(disk, wr) == [disk EXCEPT !.temp.index = wr.index, !.temp.sum = wr.sum]

\* init: the temp directory is removed unless it is reused, and all snapshots but
\* the last.
StorageInit(disk) ==
    [disk EXCEPT !.temp = IF Filter THEN @ ELSE NoTemp,
                 !.snaps = [i \in Indexes |-> IF i = Latest(disk) THEN @[i] ELSE 0]]

\* close(writer): the directory is renamed after its table is on disk; the old
\* snapshot goes after that.
Keeps == w.on = "copy" /\ Filter
Discarded(disk) == IF Keeps THEN disk ELSE [disk EXCEPT !.temp = NoTemp]
CloseWriter ==
    /\ w.pc = "close"
    /\ \/ /\ w.err # "ok"
          /\ w' = [w EXCEPT !.pc = "closed", !.err = IF @ = "EIO" THEN "EIO" ELSE "ok"]
          /\ d' = Discarded(d) /\ UNCHANGED faults
       \* Every error but EIO is a success to the caller: the failed sync is -1.
       \/ /\ w.err = "ok" /\ Fault("close_sync")
          /\ w' = [w EXCEPT !.pc = "closed"]
          /\ d' = Discarded(d)
       \/ /\ w.err = "ok" /\ w.index = st.last
          /\ w' = [w EXCEPT !.pc = "closed"]
          /\ d' = Discarded(Sync(d, w)) /\ UNCHANGED faults
       \/ /\ w.err = "ok" /\ w.index # st.last
          /\ w' = [w EXCEPT !.pc = "rename", !.old = st.last]
          /\ d' = Sync(d, w) /\ UNCHANGED faults
    /\ UNCHANGED <<up, snap, applied, bad, ex, dl, load, cp, ses, st, readers, rpc>>
CloseRename ==
    /\ w.pc = "rename"
    /\ \/ /\ d' = [d EXCEPT !.snaps[w.index] = d.temp.file, !.temp = NoTemp]
          /\ w' = [w EXCEPT !.pc = "ref"] /\ UNCHANGED faults
       \/ /\ Fault("rename")
          /\ d' = Discarded([d EXCEPT !.snaps[w.index] = 0])
          /\ w' = [w EXCEPT !.pc = "closed", !.err = "EIO"]
    /\ UNCHANGED <<up, snap, applied, bad, ex, dl, load, cp, ses, st, readers, rpc>>
CloseRef ==
    /\ w.pc = "ref"
    /\ st' = [Ref(st, w.index) EXCEPT !.last = w.index]
    /\ w' = [w EXCEPT !.pc = "unref"]
    /\ UNCHANGED <<up, d, snap, applied, bad, ex, dl, load, cp, ses, readers, rpc, faults>>
CloseUnref ==
    /\ w.pc = "unref"
    /\ st' = Unref(st, d, w.old).s /\ d' = Unref(st, d, w.old).d
    /\ w' = [w EXCEPT !.pc = "closed"]
    /\ UNCHANGED <<up, snap, applied, bad, ex, dl, load, cp, ses, readers, rpc, faults>>

\* A replicator of this node reads the snapshot for another follower.
OpenReader ==
    /\ up /\ readers["leader"] = 0 /\ st.last # 0
    /\ readers' = [readers EXCEPT !["leader"] = st.last]
    /\ st' = Ref(st, st.last)
    /\ UNCHANGED <<up, d, snap, applied, bad, ex, dl, load, cp, ses, w, rpc, faults>>
CloseReader ==
    /\ readers["leader"] # 0
    /\ st' = Unref(st, d, readers["leader"]).s
    /\ d' = Unref(st, d, readers["leader"]).d
    /\ readers' = [readers EXCEPT !["leader"] = 0]
    /\ UNCHANGED <<up, snap, applied, bad, ex, dl, load, cp, ses, w, rpc, faults>>

-----------------------------------------------------------------------------
(* The log manager and the state machine.                                  *)

AppendLog ==
    /\ up /\ d.last < MaxIndex
    /\ d' = [d EXCEPT !.last = @ + 1]
    /\ UNCHANGED <<up, snap, applied, bad, ex, dl, load, cp, ses, w, st, readers, rpc, faults>>
Apply ==
    /\ up /\ ~bad /\ applied < d.last /\ applied >= d.first - 1
    /\ load # "queued" /\ applied' = applied + 1
    /\ UNCHANGED <<up, d, snap, bad, ex, dl, load, cp, ses, w, st, readers, rpc, faults>>

\* LogManager::set_snapshot: the log is kept from the last snapshot but one, unless
\* it ends before the new one or conflicts with it.
SetSnapshot(disk, old, i, conflict) ==
    IF i <= old THEN disk
    ELSE IF i > disk.last \/ conflict
    THEN [disk EXCEPT !.first = i + 1, !.last = IF i > @ \/ conflict THEN i ELSE @]
    ELSE IF old > 0 THEN [disk EXCEPT !.first = Max({@, old + 1})]
    ELSE disk

-----------------------------------------------------------------------------
(* Saving.                                                                 *)

\* do_snapshot is refused while a snapshot is downloaded or loaded.
BusyInstalling == dl # NoDl

\* do_snapshot: nothing new to save, and the log is cut at the last snapshot.
ClearBufferedLogs ==
    /\ up /\ ~ex.stopped /\ ~BusyInstalling /\ ~ex.saving
    /\ applied - ex.last < 1 /\ snap # 0
    /\ d' = [d EXCEPT !.first = Max({@, snap + 1}), !.last = Max({@, snap})]
    /\ UNCHANGED <<up, snap, applied, bad, ex, dl, load, cp, ses, w, st, readers, rpc, faults>>
DoSnapshot ==
    /\ up /\ ~ex.stopped /\ ~BusyInstalling /\ ~ex.saving /\ applied - ex.last >= 1
    /\ \/ /\ Fault("create") /\ bad' = TRUE
          /\ UNCHANGED <<d, w, ex>>
       \/ /\ d' = Create(d, TRUE)
          /\ w' = Writer("save", d'.temp)
          /\ ex' = [ex EXCEPT !.saving = TRUE, !.jobs = @ + 1]
          /\ UNCHANGED <<bad, faults>>
    /\ UNCHANGED <<up, snap, applied, dl, load, cp, ses, st, readers, rpc>>

\* do_snapshot_save and the user's on_snapshot_save, which may fail; then
\* on_snapshot_save_done, which discards a stale one.
FsmSave ==
    /\ w.on = "save" /\ w.pc = "open" /\ load # "queued"
    /\ \/ /\ ~bad
          /\ d' = [d EXCEPT !.temp.file = Content(applied)]
          /\ w' = [w EXCEPT !.index = applied, !.sum = Sums[applied], !.pc = "close",
                            !.err = IF applied <= ex.last THEN "ESTALE" ELSE "ok"]
          /\ UNCHANGED faults
       \/ /\ Fault("save") \/ (bad /\ UNCHANGED faults)
          /\ w' = [w EXCEPT !.err = "failed", !.pc = "close"] /\ UNCHANGED d
    /\ UNCHANGED <<up, snap, applied, bad, ex, dl, load, cp, ses, st, readers, rpc>>
\* Mutant: the result of close is not looked at.
SavedAnyway == w.index > ex.last
\* ret of on_snapshot_save_done is that of the status, of the check and of close; the
\* index of a writer with an error stays 0.
Saved == w.err = "ok" /\ w.index > ex.last
SaveDone ==
    /\ w.on = "save" /\ w.pc = "closed"
    /\ ex' = [ex EXCEPT !.saving = FALSE, !.jobs = @ - 1,
                        !.last = IF Saved THEN w.index ELSE @]
    /\ d' = IF Saved THEN SetSnapshot(d, snap, w.index, FALSE) ELSE d
    /\ snap' = IF Saved THEN Max({snap, w.index}) ELSE snap
    /\ bad' = (bad \/ w.err = "EIO")
    /\ w' = NoWriter
    /\ UNCHANGED <<up, applied, dl, load, cp, ses, st, readers, rpc, faults>>

-----------------------------------------------------------------------------
(* Installing.                                                             *)

Cancel(c) == IF c.pc = "none" THEN c ELSE [c EXCEPT !.canceled = TRUE]

\* register_downloading_snapshot is refused while a snapshot is saved.
BusySaving == ex.saving

\* add_one_more_task of the throttle.
Throttled == ex.tasks = Tasks
\* register_downloading_snapshot: stopped, another term, nothing newer.
Registers(i, fresh) == fresh /\ ~ex.stopped /\ i > ex.last /\ ~BusySaving

\* Mutant: the call that is replaced is not answered.
ReplacedSilently(id) == [rpc EXCEPT ![id] = "waiting"]
\* A retry takes the place of the call before, which fails with EINTR.
Replaced(id) == [Answer(rpc, dl.rpc) EXCEPT ![id] = "waiting"]
\* Mutant: the session goes on for the call that was answered.
TakenOverNot(id) == dl
\* The session under way answers the retry.
TakenOver(id) == [dl EXCEPT !.rpc = id]

\* install_snapshot up to the copier's start, for a call of the current term
\* (`fresh') or one that lost a race with step_down.
InstallSnapshot(id, i, fresh) ==
    LET refused == rpc' = [rpc EXCEPT ![id] = "answered"] IN
    /\ up /\ rpc[id] = "none" /\ ~bad
    /\ \/ /\ Throttled \/ ~Registers(i, fresh)
          /\ refused /\ UNCHANGED <<ex, dl, cp>>
       \/ /\ ~Throttled /\ Registers(i, fresh)
          /\ \/ /\ dl = NoDl
                /\ dl' = [rpc |-> id, index |-> i]
                /\ cp' = [NoCopier EXCEPT !.pc = "meta", !.index = i]
                /\ ex' = [ex EXCEPT !.jobs = @ + 1, !.tasks = @ + 1]
                /\ rpc' = [rpc EXCEPT ![id] = "waiting"]
             \/ /\ dl # NoDl /\ dl.index = i
                /\ rpc' = Replaced(id)
                /\ dl' = TakenOver(id)
                /\ UNCHANGED <<ex, cp>>
             \/ /\ dl # NoDl /\ dl.index > i
                /\ refused /\ UNCHANGED <<ex, dl, cp>>
             \/ /\ dl # NoDl /\ dl.index < i
                /\ refused /\ UNCHANGED <<ex, dl>>
                /\ cp' = IF ex.loading # 0 THEN cp ELSE Cancel(cp)
    /\ UNCHANGED <<up, d, snap, applied, bad, load, ses, w, st, readers, faults>>

\* interrupt_downloading_snapshot, from step_down or shutdown.
Interrupted == IF dl = NoDl \/ ex.loading # 0 THEN cp ELSE Cancel(cp)
StepDown ==
    /\ up /\ ~ex.stopped /\ ex.term < MaxTerm
    /\ ex' = [ex EXCEPT !.term = @ + 1] /\ cp' = Interrupted
    /\ UNCHANGED <<up, d, snap, applied, bad, dl, load, ses, w, st, readers, rpc, faults>>
Shutdown ==
    /\ up /\ ~ex.stopped
    /\ ex' = [ex EXCEPT !.stopped = TRUE] /\ cp' = Interrupted
    /\ UNCHANGED <<up, d, snap, applied, bad, dl, load, ses, w, st, readers, rpc, faults>>

Copying(pc) == up /\ cp.pc = pc
CopyEnds(err) == cp' = [cp EXCEPT !.err = err, !.pc = "close"]

\* load_meta_table.
CopyMeta ==
    /\ Copying("meta")
    /\ \/ /\ ~cp.canceled /\ cp' = [cp EXCEPT !.pc = "filter"] /\ UNCHANGED faults
       \/ /\ IF cp.canceled THEN UNCHANGED faults ELSE Fault("piece")
          /\ CopyEnds("ECANCELED")
    /\ UNCHANGED <<up, d, snap, applied, bad, ex, dl, load, ses, w, st, readers, rpc>>

\* filter_before_copy: the file is kept, linked from the last snapshot, or removed.
Kept(wr, disk, i) ==
    LET s == Sums[i] IN
    IF s # 0 /\ wr.sum = s THEN [sum |-> s, file |-> disk.temp.file]
    ELSE IF s # 0 /\ st.last # 0 /\ Sums[IF st.last = 0 THEN 1 ELSE st.last] = s
    THEN [sum |-> s, file |-> disk.snaps[st.last]]
    ELSE [sum |-> 0, file |-> 0]
\* filter; a failed sync of the reused directory starts an empty one.
CopyFilter ==
    LET made   == Create(d, ~Filter)
        wr     == Writer("copy", made.temp)
        kept   == Kept(wr, made, cp.index)
        empty  == Create(d, TRUE)
        ready  == [wr EXCEPT !.index = cp.index, !.sum = kept.sum]
    IN  /\ Copying("filter")
        /\ \/ /\ Fault("create") /\ CopyEnds("EIO") /\ UNCHANGED <<d, w, st>>
           \/ /\ Filter
              /\ d' = Sync([made EXCEPT !.temp.file = kept.file], ready)
              /\ w' = ready
              /\ cp' = [cp EXCEPT !.pc = "copy"] /\ UNCHANGED <<st, faults>>
           \/ /\ IF Filter THEN Fault("sync") ELSE UNCHANGED faults
              /\ w' = [Writer("copy", empty.temp) EXCEPT !.index = cp.index]
              /\ d' = Sync(empty, w')
              /\ cp' = [cp EXCEPT !.pc = "copy"] /\ UNCHANGED st
           \/ /\ Fault("sync") /\ CopyEnds("EIO")
              /\ d' = made /\ w' = wr /\ UNCHANGED st
        /\ UNCHANGED <<up, snap, applied, bad, ex, dl, load, ses, readers, rpc>>

\* copy_file: a file that is in the table is skipped.
CopyFile ==
    /\ Copying("copy")
    /\ \/ /\ w.sum # 0 /\ CopyEnds("ok") /\ UNCHANGED <<d, ses>>
       \/ /\ w.sum = 0 /\ cp.canceled
          /\ CopyEnds("ECANCELED") /\ UNCHANGED <<d, ses>>
       \/ /\ w.sum = 0 /\ ~cp.canceled
          /\ d' = [d EXCEPT !.temp.file = Torn]
          /\ ses' = NoSession
          /\ cp' = [cp EXCEPT !.pc = "session"]
    /\ UNCHANGED <<up, snap, applied, bad, ex, dl, load, w, st, readers, rpc, faults>>

\* Mutant: the next call starts behind the piece that failed.
RetryCountKept(n) == Count
\* A failed call is sent again at its own offset.
RetryCount(n) == 0
\* send_next_rpc and on_rpc_returned: n bytes arrive, all or a part of what is asked
\* for; at the end of the file it is synced, added to the table and the table synced.
\* A call that fails is retried up to max_retry times; throttled ones for ever.
Piece(n) ==
    LET offset == ses.offset + ses.count
        got    == ses.got \union {i \in offset + 1..offset + n : i <= Size}
    IN  /\ Copying("session") /\ ~cp.canceled
        /\ n > 0 \/ offset >= Size
        /\ n <= Count /\ (offset < Size => offset + n <= Size)
        /\ \/ /\ offset + n < Size
              /\ ses' = [offset |-> offset, count |-> n, got |-> got, tries |-> 0]
              /\ UNCHANGED <<d, w, cp, faults>>
           \/ /\ offset + n >= Size
              /\ ses' = NoSession
              /\ \/ /\ w' = [w EXCEPT !.sum = Content(cp.index)]
                    /\ d' = Sync([d EXCEPT !.temp.file =
                                    IF got = 1..Size THEN Content(cp.index) ELSE Torn], w')
                    /\ CopyEnds("ok") /\ UNCHANGED faults
                 \/ /\ Fault("sync") /\ CopyEnds("EIO") /\ UNCHANGED <<d, w>>
        /\ UNCHANGED <<up, snap, applied, bad, ex, dl, load, st, readers, rpc>>
PieceFails ==
    /\ Copying("session")
    /\ \/ /\ ~cp.canceled /\ ses.tries < MaxRetry /\ Fault("piece")
          /\ ses' = [ses EXCEPT !.offset = @ + ses.count, !.count = RetryCount(0),
                                !.tries = @ + 1]
          /\ UNCHANGED cp
       \/ /\ \/ (cp.canceled /\ UNCHANGED faults)
             \/ (~cp.canceled /\ ses.tries >= MaxRetry /\ Fault("piece"))
          /\ ses' = NoSession /\ CopyEnds("ECANCELED")
    /\ UNCHANGED <<up, d, snap, applied, bad, ex, dl, load, w, st, readers, rpc>>

\* The writer is closed, and the reader of the last snapshot opened.
CopyClose ==
    /\ Copying("close")
    /\ \/ /\ w.on = "none" /\ cp' = [cp EXCEPT !.pc = "done"]
          /\ UNCHANGED <<w, st, readers>>
       \/ /\ w.on = "copy" /\ w.pc = "open"
          /\ w' = [w EXCEPT !.pc = "close", !.err = cp.err]
          /\ UNCHANGED <<cp, st, readers>>
       \/ /\ w.on = "copy" /\ w.pc = "closed"
          /\ LET err == IF cp.err = "ok" /\ w.err = "EIO" THEN "EIO" ELSE cp.err
                 i   == IF err = "ok" THEN st.last ELSE 0
             IN  /\ cp' = [cp EXCEPT !.pc = "done", !.err = err]
                 /\ readers' = [readers EXCEPT !["install"] = i]
                 /\ st' = IF i = 0 THEN st ELSE Ref(st, i)
          /\ w' = NoWriter
    /\ UNCHANGED <<up, d, snap, applied, bad, ex, dl, load, ses, rpc, faults>>

\* on_snapshot_load fails once the state machine's queue is stopped.
LoadStarts == IF ex.stopped THEN "failed" ELSE "queued"
\* load_downloading_snapshot.
LoadDownloading ==
    /\ Copying("done")
    /\ cp' = NoCopier
    /\ IF cp.err # "ok" \/ readers["install"] = 0
       THEN /\ bad' = (bad \/ cp.err = "EIO")
            /\ dl' = NoDl /\ rpc' = Answer(rpc, dl.rpc)
            /\ ex' = [ex EXCEPT !.jobs = @ - 1, !.tasks = @ - 1]
            /\ UNCHANGED load
       ELSE /\ ex' = [ex EXCEPT !.loading = cp.index, !.tasks = @ - 1]
            /\ load' = LoadStarts
            /\ UNCHANGED <<bad, dl, rpc>>
    /\ UNCHANGED <<up, d, snap, applied, ses, w, st, readers, faults>>

\* do_snapshot_load: what the reader has, unless it is stale.
FsmLoad ==
    LET i == readers["install"] IN
    /\ load = "queued"
    /\ \/ /\ ~bad /\ applied <= i
          /\ applied' = i /\ load' = "ok" /\ UNCHANGED <<bad, faults>>
       \/ /\ bad \/ applied > i
          /\ load' = "failed" /\ UNCHANGED <<applied, bad, faults>>
       \/ /\ ~bad /\ Fault("load")
          /\ load' = "failed" /\ bad' = TRUE /\ UNCHANGED applied
    /\ UNCHANGED <<up, d, snap, ex, dl, cp, ses, w, st, readers, rpc>>
Loaded == load = "ok"
\* on_snapshot_load_done: the lock is let go before the call is answered. The log
\* may conflict with the snapshot above what was applied.
LoadDone(conflict) ==
    /\ load \in {"ok", "failed"}
    /\ IF Loaded
       THEN /\ ex' = [ex EXCEPT !.last = ex.loading]
            /\ d' = SetSnapshot(d, snap, ex.loading, conflict)
            /\ snap' = Max({snap, ex.loading})
       ELSE ~conflict /\ UNCHANGED <<ex, d, snap>>
    /\ load' = "done"
    /\ UNCHANGED <<up, applied, bad, dl, cp, ses, w, st, readers, rpc, faults>>
InstallDone ==
    LET i == readers["install"] IN
    /\ load = "done"
    /\ load' = "none" /\ dl' = NoDl
    /\ ex' = [ex EXCEPT !.loading = 0, !.jobs = @ - 1]
    /\ rpc' = Answer(rpc, dl.rpc)
    /\ st' = Unref(st, d, i).s /\ d' = Unref(st, d, i).d
    /\ readers' = [readers EXCEPT !["install"] = 0]
    /\ UNCHANGED <<up, snap, applied, bad, cp, ses, w, faults>>

-----------------------------------------------------------------------------
(* Crashes.                                                                *)

Down ==
    /\ up' = FALSE /\ snap' = 0 /\ applied' = 0 /\ bad' = FALSE
    /\ ex' = [last |-> 0, term |-> ex.term, saving |-> FALSE, loading |-> 0,
              stopped |-> FALSE, jobs |-> 0, tasks |-> 0]
    /\ dl' = NoDl /\ load' = "none" /\ cp' = NoCopier /\ ses' = NoSession
    /\ w' = NoWriter /\ readers' = NoReaders
    /\ st' = [last |-> 0, ref |-> [i \in Indexes |-> 0]]
    /\ rpc' = [id \in Rpcs |-> IF rpc[id] = "waiting" THEN "answered" ELSE rpc[id]]
\* "link": after filter_before_copy has linked a file, before the table is synced.
Crash ==
    LET wr == Writer("copy", d.temp) IN
    /\ up /\ Down
    /\ \/ Fault("crash") /\ UNCHANGED d
       \/ /\ Copying("filter") /\ Filter /\ d.temp.there /\ Fault("link")
          /\ wr.sum # Sums[cp.index] /\ Kept(wr, d, cp.index).sum # 0
          /\ d' = [d EXCEPT !.temp.file = Kept(wr, d, cp.index).file]

\* Storage and executor start; the last snapshot is loaded and the log follows it.
Restart ==
    LET disk == StorageInit(d)
        i    == Latest(d)
    IN  /\ ~up /\ up' = TRUE
        /\ d' = IF i = 0 THEN disk ELSE SetSnapshot(disk, 0, i, FALSE)
        /\ snap' = i /\ applied' = i
        /\ ex' = [ex EXCEPT !.last = i]
        /\ st' = [last |-> i, ref |-> [j \in Indexes |-> IF j = i THEN 1 ELSE 0]]
        /\ UNCHANGED <<bad, dl, load, cp, ses, w, readers, rpc, faults>>

-----------------------------------------------------------------------------
Init ==
    /\ up = TRUE
    /\ d = [first |-> 1, last |-> 0, snaps |-> [i \in Indexes |-> 0], temp |-> NoTemp]
    /\ snap = 0 /\ applied = 0 /\ bad = FALSE
    /\ ex = [last |-> 0, term |-> 1, saving |-> FALSE, loading |-> 0,
             stopped |-> FALSE, jobs |-> 0, tasks |-> 0]
    /\ dl = NoDl /\ load = "none" /\ cp = NoCopier /\ ses = NoSession
    /\ w = NoWriter /\ readers = NoReaders
    /\ st = [last |-> 0, ref |-> [i \in Indexes |-> 0]]
    /\ rpc = [id \in Rpcs |-> "none"]
    /\ faults = 0

StorageStep == CloseWriter \/ CloseRename \/ CloseRef \/ CloseUnref
ExecutorStep ==
    \/ FsmSave \/ SaveDone
    \/ CopyMeta \/ CopyFilter \/ CopyFile \/ PieceFails \/ CopyClose
    \/ \E n \in 0..Count : Piece(n)
    \/ LoadDownloading \/ FsmLoad \/ InstallDone
    \/ \E conflict \in BOOLEAN : LoadDone(conflict)
Next ==
    \/ AppendLog \/ Apply
    \/ StorageStep \/ ExecutorStep
    \/ OpenReader \/ CloseReader
    \/ ClearBufferedLogs \/ DoSnapshot
    \/ \E id \in Rpcs, i \in Indexes, fresh \in BOOLEAN : InstallSnapshot(id, i, fresh)
    \/ StepDown \/ Shutdown
    \/ Crash \/ Restart
Spec == Init /\ [][Next]_vars
\* bthreads run, and calls of the copier come back or fail.
Fairness == WF_vars(StorageStep \/ ExecutorStep)
FairSpec == Spec /\ Fairness

-----------------------------------------------------------------------------
(* Properties.                                                             *)

\* Every part of the state has its type.
TypeOK ==
    /\ up \in BOOLEAN /\ bad \in BOOLEAN
    /\ d.first \in 1..MaxIndex + 1 /\ d.last \in 0..MaxIndex /\ d.first <= d.last + 1
    /\ {snap, applied, ex.last, ex.loading, st.last} \subseteq 0..MaxIndex
    /\ ex.jobs \in 0..2 /\ ex.tasks \in 0..Tasks
    /\ st.ref \in [Indexes -> 0..3]
    /\ rpc \in [Rpcs -> {"none", "waiting", "answered", "twice"}]

\* What the log has lost is in a snapshot on disk, at every moment, so that a
\* restart finds every entry that was applied; and the snapshot the executor says it
\* has is one the state machine has, and not newer than the last one on disk.
Recoverable ==
    /\ d.first <= Latest(d) + 1
    /\ up => ex.last <= applied /\ ex.last <= Latest(d)

\* Readers, the storage itself and a writer at work hold the references of the map.
RefsExact ==
    /\ \A h \in DOMAIN readers : readers[h] # 0 => d.snaps[readers[h]] # 0
    /\ \A i \in Indexes :
          /\ st.ref[i] = Cardinality({h \in DOMAIN readers : readers[h] = i})
                         + (IF st.last = i THEN 1 ELSE 0)
                         + (IF w.pc = "unref" /\ w.old = i THEN 1 ELSE 0)
          /\ d.snaps[i] # 0 => st.ref[i] > 0 \/ (w.pc = "ref" /\ w.index = i)

\* A directory with a snapshot's name holds all of that snapshot, however often its
\* copying was cut off, retried, cancelled and taken up again. The directory of an
\* open reader is there; every directory has a reader or is the last one, once the
\* storage is at rest.
SnapshotIntact ==
    /\ \A i \in Indexes : d.snaps[i] \in {0, Content(i)}
    /\ up => RefsExact

\* Saving and installing exclude each other, so that the temp directory has one
\* writer; what describe, interrupt_downloading_snapshot and the destructor CHECK holds;
\* no InstallSnapshot call is answered twice: a retry takes over the session of the
\* call before, which is answered when it is replaced.
ChecksHold ==
    /\ TypeOK
    /\ ex.saving => dl = NoDl /\ w.on # "copy"
    /\ (dl # NoDl /\ ex.loading = 0) => cp.pc # "none"
    /\ ex.jobs = (IF ex.saving THEN 1 ELSE 0) + (IF dl # NoDl THEN 1 ELSE 0)
    /\ \A id \in Rpcs : rpc[id] # "twice"

\* Every InstallSnapshot call is answered, and join returns after a shutdown.
JobsEnd ==
    /\ \A id \in Rpcs : rpc[id] = "waiting" ~> rpc[id] # "waiting"
    /\ ex.stopped ~> (ex.jobs = 0 \/ ~up)
=============================================================================

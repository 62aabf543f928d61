# A TLA+ verification project for QuorumKit (braft)

QuorumKit is a fork of braft, a C++ implementation of the Raft consensus
protocol on brpc. This directory models its core (`src/src/braft`), checks the
models with TLC and proves theorems about them with TLAPS. `PROJECT.json` maps
every definition to the lines it stands for and lists runs, mutants, findings,
hazards and theorems.

## 1. Inventory

| component | state | operations | interacts with |
|---|---|---|---|
| `NodeImpl` (node.cpp) | state, term, vote, leader, vote contexts, configuration, timers, leases | elections, vote and AppendEntries handlers, step down, apply, transfer, membership change, shutdown | everything below, under one mutex that some calls release half-way |
| `RaftMetaStorage` (raft_meta.cpp) | durable term and vote; two formats and a mixed one | `set_/get_term_and_votedfor` | called by `NodeImpl` under its mutex |
| `LogManager` (log_manager.cpp) | first and last index, entries in memory, disk id, applied id, snapshot id, waiters, disk queue | append, resolve conflicts, truncate, reset, snapshot, wait | disk thread, FSM thread, snapshot executor, replicators |
| `SegmentLogStorage` (log.cpp) | segment files, first index | append, truncate, reset, load | the disk thread |
| `Replicator`, `ReplicatorGroup` (replicator.cpp) | next index, RPCs in flight, mode | send entries, probe, heartbeat, install snapshot, transfer | `LogManager` waiters, `BallotBox`, remote nodes |
| `BallotBox`, `ClosureQueue` | pending index, ballots, closures, commit index | `commit_at`, `append_pending_task`, `set_last_committed_index` | replicators, stable closures, `FSMCaller` |
| `FSMCaller` (fsm_caller.cpp) | applied index, error, one task queue | apply committed entries, snapshots, leader changes, errors | `LogManager`, user state machine |
| `SnapshotExecutor` and snapshot storage | current saving, loading or downloading; directories and reference counts | save, install, interrupt | `FSMCaller`, `LogManager`, remote copier |
| `ConfigurationCtx` | stage, peers of the change | catch up, joint, stable, reset | `NodeImpl`, replicators, `BallotBox` |
| leases (lease.cpp) | last contact times | renew, expire, votable time | elections, heartbeats |
| `AppendEntriesCache` | out-of-order AppendEntries | store, run, time out | AppendEntries handler |
| timers (repeated_timer_task.cpp) | running, stopped, destroyed, invoking | start, stop, run once, destroy | `NodeImpl` |
| CLI, route table, services, utilities | cached leaders | forwarding | `NodeImpl` |

What is hard in this code:

* `elect_self`, `pre_vote` and `handle_request_vote_request` release the node's
  mutex while they read the last log id, and compare only the term afterwards;
* the vote is saved after the requests are sent; saves fail; processes crash
  between any two steps;
* the log manager's disk thread, the FSM thread and the node's handlers share
  ids that are computed under the mutex and used after it;
* truncations, resets and appends share a queue, of which a crash loses the rest;
* AppendEntries, votes and their answers arrive late, in any order, or never;
* snapshots overtake, continue or contradict the log they are installed over.

What makes each component correct: one leadership per term and one durable vote
per server and term (elections); every entry of the log readable, what is called
stable on disk, no assertion reachable, no wakeup lost (log manager); committed
entries never lost or changed, and every replica given a prefix of one log
(replication); closures run once and in order (commit pipeline); a restart finds
one complete snapshot and a log that continues it (storages); at most one
configuration change at a time, in stages that survive a new leader (membership).

## 2. Modules

| module | models | state and actions |
|---|---|---|
| `Election` | elections of `NodeImpl`, meta storage, follower lease | `node` holds the fields of `NodeImpl` and its durable meta; a call that has released the mutex is a record in `electing` or `handling`; RPCs are sets of requests and answers. One action per handler, two for those that unlock. |
| `ElectionProofs` | the theorems about `Election` | |
| `LogManager` | `LogManager`, its disk thread, the storage and the snapshot executor as it sees them | `lm` holds the fields, `queue` and `disk` the disk thread's closures and its batch, `storage` and `snapshot` what is durable. `log` is history: the log the node means to have. |
| `Replication` | AppendEntries, conflict resolution, stable closures, ballot box, the log comparison of votes | `node` has a log in memory and one on disk; `led` what each leader has said, from which any message may arrive at any time; `acked` what leaders have been told. |
| `ReplicationProofs` | the theorems about `Replication`, with the refinement of `ReplicatedLog` | |
| `ReplicatedLog` | the promise to state machines (`Iterator::index` in raft.h) | one log that grows, a prefix of it at each replica |
| `CommitPipeline` | `NodeImpl::apply`, `BallotBox`, `ClosureQueue`, `FSMCaller` of one node that leads and follows in turn | `box`, `closures`, `fsm` hold the fields; `stable` the closures in the disk queue; `calls` the calls to come of threads that have let a mutex go (`set_last_committed_index`, `on_committed`); `late` the answers that wait for the lock of a replicator, also of one that `Replicator::stop` has let go. `chosen` is history: what the group has committed. |
| `CommitPipelineProofs` | the theorems about `CommitPipeline` | |
| `Replicator` | a leader's `Replicator` and its follower: pipeline, probes, block, waiting, snapshot, catch up, transfer, read-only; on the other side `AppendEntriesCache` | `r` holds the fields and its timers and waiters; `rpcs` the calls, each sent, cached, handled, answered or lost; `f` the follower's log and cache; `catchup` the closure and its timer. |
| `ReplicatorProofs` | the theorems about `Replicator` | |
| `Snapshot` | `SnapshotExecutor`, `LocalSnapshotStorage`, writer, copier, a copy session, throttle | `d` is the disk: log bounds, directories, temp; `ex`, `dl`, `load` the executor; `cp`, `ses`, `w` copier, session, writer; `st`, `readers` the references. |
| `LogStore` | the contract of `LogStorage`; `MemoryLogStorage` is its plain form | `entries` and the operation in progress; a crash keeps it before or after |
| `SegmentStorage` | `SegmentLogStorage` | `files` and `meta` on disk; `first`, `last`, `closed`, `open` in memory, with `is_open` for the name a segment gives its file; `op` the disk thread's next step. Refines `LogStore`. |
| `SegmentStorageProofs` | the theorems about `SegmentStorage`, with the refinement of `LogStore` | |
| `Membership` | `ConfigurationCtx`, `ConfigurationManager`, the quorums of `BallotBox` | `log`, `term`, `role`, `ctx` per node; `repl`, `match` per leader; `waits` and `dones` are the closures about to run |
| `MembershipProofs` | the theorems about `Membership` | |
| `MetaStorage` | `FileBasedSingleMetaStorage`, `KVBasedMergedMetaStorage`, `MixedMetaStorage` | `file` and `db` on disk, `call` the get or set in progress, `promised` what was saved with success |
| `MetaStorageProofs` | its theorem | |
| `RepeatedTimerTask` | the timers | the three flags, and the runs that are pending, due or in progress |
| `RepeatedTimerTaskProofs` | its theorems | |
| `MC*` | instances of the above for TLC | |

How they fit. `Replication` composes elections and logs in abstract form: elections
with saves that succeed (what `Election` proves they give) and a log manager whose
closures run when memory has become disk (what `LogManager` checks). It refines
`ReplicatedLog` with the longest committed log as `chosen`. `CommitPipeline` takes
that `chosen` log as its surroundings and splits at every unlock what is one step
there. `Replicator` says which of the messages that `Replication` allows are sent,
and that the needed ones are. `LogManager` writes to one durable sequence with a
first index, which is `LogStore`; `SegmentStorage` refines it
(`Contract == INSTANCE LogStore WITH entries <- Log.entries, ...`). `Election`
writes one durable record of term and vote; `MetaStorage` proves that the three
storages behave like it. `Membership` takes an election, and the copying of a part
of a log, as one step.

Abstractions. An entry is its index and term: payloads do not matter to any
property. The clock is a free choice: a lease may have run out whenever the code
looks, a timer may fire in any state that has it running. In `LogManager` the
rest of the group is `LeaderLog`, the log of the leader of each term. In
`Replication` the messages of a leader are not kept one by one, and a follower
may be sent any segment of its log, so that losses, delays, reorderings and
duplicates are all there; an AppendEntries carries the newest commit index of its
leader, which for a new leader is the one its ballot box knew before
(`_fill_common_fields` sends `last_committed_index()`, which no change of role resets),
and one FollowerStableClosure per peer and term waits at a time. Entries that are all
applied are answered at once (log_manager.cpp:356-363), on disk or not, in
`LogManager`, `Replication` and `Replicator` alike. In
`Replicator` the leader's log is its first and last index, and the follower's is how
much of it agrees, how long it is and how much is on disk; when the leadership begins,
all of the follower's log is on disk. In `Snapshot` a snapshot
has one file, known by its checksum; in `SegmentStorage` a segment finds its
file by name, and what is done under a name that no file has fails; creations, renames and
removals of files are durable in order, and a loss of power keeps a part of what was
written since the last fsync. In `Membership` what a node has in its log, and its
term, survive a restart.

## 3. Runs

Every property of a passing run has a mutant: a plausible bug in a mapped definition
that TLC must find. The type invariant of each module is a part of one of the
properties (`ChecksHold`, `NothingWrong`, `LogMatching`, `RestartSucceeds`,
`ElectionInv`), or stands for itself (`ElectionLease`).

| run | shows |
|---|---|
| `ElectionJoint` | a joint configuration, two candidates, a voter that fails and cannot always save, a candidate that crashes in and out of `elect_self`: `VoteOncePerTerm`, `ElectionSafety`, and `ElectionInv`, the inductive invariant of the proofs |
| `ElectionLease` | leases, transfer, disrupted leaders, reserved peers, failed saves, a log ahead of the meta: `TypeOK`, `FollowsElectedLeader`, `BecomeLeaderChecked` |
| `LogManagerFollower` | two leaders, conflicts, snapshots, a crash anywhere: `EntriesReadable`, `LastLogIdFresh`, `StableMeansDurable`, `ChecksHold` |
| `LogManagerFaults` | three leaders, delayed messages, writes that fail in part, a crash: `DiskMatchesALeader`; every closure runs and no wakeup is lost: `StableClosureRuns`, `WaiterCatchesUp` |
| `Replication` | two leaderships of different servers, late messages, a voter that crashes and restarts: `LeaderCompleteness`, `LogMatching`, `CommittedIsDurable`, and the refinement `ImplementsReplicatedLog` |
| `CommitPipeline` | a node that leads, follows, leads again, fails, is shut down: `ChecksHold`, `AppliedInOrder`, `CommittedIsChosen`, `AckedOnceApplied`, `RoleIsFresh`, and `CommittedTaskRuns` |
| `Replicator` | two calls in flight, a cache, lost and reordered calls, a crash or a refusal, compaction, catch up, transfer, read-only: `FlyingIsContiguous`, `GrantedIsStored`, `NothingWrong`, and `Replicated`, `CatchupEnds` |
| `Snapshot` | saving, installing with retries, readers, step downs, shutdown, two faults or crashes: `Recoverable`, `SnapshotIntact`, `ChecksHold`, and `JobsEnd` |
| `SegmentStorage` | appends over segments, truncations, reset, two crashes, power losses or failing writes: `RestartSucceeds`, `ReadsDisk`, and the refinement `Implements` |
| `Membership` | a removal and a replacement of two peers, three terms: `OneLeaderPerTerm`, `NothingLost`, `JointIsLeft`, `ChecksHold`, and `ChangeEnds` |

Violations, each a disagreement of the code with its own words (quoted in
`PROJECT.json`):

| run | what the code does |
|---|---|
| `ElectionSaveFails` | `elect_self` asks for votes before it saves its own; when the save fails it can still win, and after a crash win the same term again |
| `ReplicationVoteWindow` | the log may grow between a voter's look at it and its vote; a committed entry is then replaced |

Bounds, and why they are enough; every bound is a constant of its module. Elections:
three servers in a joint configuration, two that run for term 2, of which one crashes,
and a voter that fails: two competing rounds of a term and one round before or after a
crash, which is what the invariants relate; with leases two servers, one of which
runs for term 2, the other for term 3 and may crash, so that a later leader meets what
the first one left. The proofs cover all other instances. Log manager: two leaders'
logs of three entries that conflict at the second, three leaders' logs where an old entry comes
back; a queue of two closures and a batch of as many beside it, enough for a
truncation, an append and a question to be in one batch or in several; one crash.
Replication: three servers, two leaderships of different servers, logs of two
entries, one crash of the third; the proofs cover the rest. Commit pipeline: three
terms, so that a leadership comes between two others; two peers, two entries, one task
of a user beside the configuration entries, two calls under way. Replicator: three call
ids and a pipeline of two, so that a probe meets two calls of the time before it; one
cached call; two waits for catching up, of which the first leaves its timer; one
failure. Snapshot: three indexes, of which two have files that are equal; two
InstallSnapshot calls, one retry of a piece, files of two pieces; two faults. Segments:
two entries in a segment, six indexes, that is three segments; two terms; batches of up
to three entries, which go over a segment; two faults, so that a crash meets what the
recovery of another has left. Membership: four peers, two targets, one joint and one of
a single removal; three terms, logs of four entries, two changes ended per node.
Deadlock is not checked: every bounded instance comes to an end.

Restrictions of passing runs, each of which stands for something the code does
not withstand. The first two are the violations above; the others show when the
constant named is changed in the `.cfg`:

* `SaveMayFail` without `"elect_self"` where safety is checked;
* `Spec` instead of `SpecWindow` in `Replication`, which lets a vote be decided in
  two steps;
* `LeaderLog` without an entry of an older term coming back where memory is checked
  (`LogManagerFollower`). With `ThreeTerms` the run finds that `set_disk_id` ignores
  an id that is smaller because of a truncation (log_manager.cpp:803): with the stale
  disk id a committed entry leaves the memory before it is on disk
  (`EntriesReadable`), against log_manager.cpp:651-654, "keep these logs in memory
  all the time until they are flushed to disk"; and `last_log_id(true)` answers with
  an entry that has been truncated (`LastLogIdFresh`);
* `Conf` with two voters where `BecomeLeaderChecked` is checked: a candidate that
  steps down within its term while `elect_self` has let the mutex go continues, and a
  single voter that fails or is shut down there meets the `CHECK` of `become_leader`
  (node.cpp:1936). With two voters it cannot, which is proved (`CheckNeverFails`);
* an entry that was answered early, while it was applied but only in memory, is exempt
  where success is said to mean durable (`StableMeansDurable` by `early`,
  `GrantedIsStored` and `NothingWrong` by `f.early`), until it is on disk: a crash may
  take it from this node, but the group had it committed without this answer. What is
  claimed of it is that it is committed (`CommittedUpTo`), and for the group that a
  committed entry is on a majority of disks all the same (`CommittedIsDurable`).
  `KeepStable = FALSE` in `LogManagerFaults` leaves out these histories, which no
  property of that run reads;
* `Failures` without `"late"` in `CommitPipeline`: `Replicator::stop` lets its lock go
  before it raises `ESTOP` (replicator.cpp:156-167), so that an answer that waits for
  the lock calls `commit_at` in a later leadership. The run has such calls, as long as
  the entries they are about are in the log when the node leads again, and there they
  are harmless. One that waits until these entries were cut and others have their
  indexes lets a ballot count a peer that may not have them: with `"late"` and
  `MaxTerm = 4` TLC finds an entry committed that the group has not chosen
  (`CommittedIsChosen`, 16 steps). ballot_box.h says of `commit_at`: "Called by
  leader, otherwise the behavior is undefined";
* `AppendMayFail = FALSE` where `StableMeansDurable` is checked: the closure of a
  duplicate AppendEntries succeeds although the entries it repeats could not be
  written (log_manager.cpp:613);
* `Delayed = FALSE` where `ChecksHold` of the log manager is checked: a delayed
  AppendEntries from before a compaction that reaches beyond the applied index is
  taken for a conflict and stops the process (log_manager.cpp:309); no snapshots
  where messages are delayed;
* `Readonly` without `"leave"` in `Replicator`: a follower that leaves its read-only
  mode while its replicator is blocked is probed with calls still accounted for
  (the CHECKs of `_send_empty_entries`, replicator.cpp:577);
* `Faults` of `Snapshot` without `"close_sync"`: `close` of the writer answers
  success for every error but `EIO` (snapshot.cpp:670), and the log is then truncated
  behind a snapshot that was not renamed (`Recoverable`); and without `"link"`: after
  a crash a file that was linked into the temp directory may be there without its
  place in the table, and is completed with the pieces of another
  (`SnapshotIntact`);
* `Faults` of `SegmentStorage` without `"stale"`: `truncate_prefix` and `reset` do not
  look at what `unlink` returns (log.cpp:873-876, 992-995). A removal that fails is in
  the run where init drops the file (a closed segment below the first index, the
  purpose of the comment at log.cpp:855-858). With `"stale"` also the file of a popped
  open segment stays, or one that reaches beyond the first index: a second
  `log_inprogress` file is refused by the next init (`RestartSucceeds`, 13 steps), and
  otherwise what was removed is loaded again (`Implements`), or written after
  (`ReadsDisk`);
* without `"behind"`: after an error only `append_to_storage` stops
  (log_manager.cpp:451); truncations and resets that were queued are executed
  (log_manager.cpp:576-606) on a storage that stopped half-way. With `"behind"` a
  segment that was closed but not followed by a new one is opened by a truncation over
  the one in `_open_segment` (the CHECK of log.cpp:957, `RestartSucceeds`, 12 steps),
  and a truncation may keep an index that was never written (`ReadsDisk`, 5 steps);
* without `"reset_crash"`: a crash between the files
  that `reset` removes leaves a log that is neither the one before nor the one after
  (`Implements`), or has a hole (`RestartSucceeds`); without `"fsync"`: the result of
  `sync` is dropped (log.cpp:781),
  so that a loss of power takes entries that were reported stable (`Implements`);
* `SyncSegments = TRUE` and `EntryBytes <= MaxSegment`: with `raft_sync_segments` off a
  closed segment may come back short, and `init` refuses to start (`RestartSucceeds`).
  So it may with an entry larger than `raft_max_segment_size`, which fills a segment of
  its own: `Segment::close` syncs only segments of two entries or more (log.cpp:553),
  and the sync of `append_entries` reaches only the last segment (log.cpp:780).

Fairness. In `LogManager`: weak fairness of the disk thread (a bthread execution
queue runs whatever is queued), of its clearing of memory, and of each replicator that
is awake. In `CommitPipeline`: of the FSM queue, and of the threads that have let a
mutex go. In `Replicator`: of the leader's bthreads, timers and answers, and of the
follower's handlers; the failures of calls are bounded, so that a call is answered in
the end. In `Snapshot`: of the executor's queue, the copier's bthread and the writer.
In `Membership`: replicators send while a peer lacks entries, a leader hears of a
higher term from peers it sends to, what can be committed is, closures run, and a
`CatchupClosure` has its timer. Where many actions may be enabled the condition under
which they are is spelled out (`LeaderReady`, `FollowerReady`, `Ready`) in place of
`ENABLED`. Nothing is assumed of clients, elections, other leaders, or the network.

## 4. Proofs

Everything here is proved for all values of the constants that the named `ASSUME`s of
the module admit: any finite set of servers or peers, any bounds. The proofs are
hierarchical, with a lemma for each action; each invariant was checked by TLC on small
instances before it was proved.

### Elections

`ElectionProofs` holds, for any configurations, flags and failures:

* `TypeCorrect`: `Spec => []TypeOK`;
* provided the save in `elect_self` does not fail (`ElectionSaveFails` shows that
  it must not), `Inductive`: `[]ElectionInv`, and from it `OneLeaderPerTerm`
  (`ElectionSafety`), `OneVotePerTerm` (`VoteOncePerTerm`), `LeaderIsElected`
  (`FollowsElectedLeader`) and `LeaderVoteIsDurable` (`LeaderVoteDurable`);
* provided no single server is a majority, and whatever fails, `CheckNeverFails`
  (`BecomeLeaderChecked`).

The argument of the first: a leadership is backed by durable votes of a quorum
(`ElectedInv`), two quorums of the same configurations meet (`QuorumsMeet`), and a
server has one durable vote per term. That the votes a candidate counts are durable
needs the messages and the suspended calls in the invariant (`MessagesInv`,
`ElectingInv`): requests go out before the vote is saved, so a round counts only while
its candidate has not crashed, which the version of the vote context tells (`Backed`).
`VersionsGrow` says that versions never go back.

The argument of the second (`RoundInv`): a suspended `elect_self` of the current term
has sent nothing yet, so the round of the vote context has no messages and no votes
(`Unasked`), also when its node has failed meanwhile and has gone back to no other
term. An answer is of the round of its request, so it counts only when no `elect_self`
of the term is suspended, and then only for a candidate; an own vote, late by the lock
or by the `grant_self` timer, meets no vote of another at a node that is no candidate,
and alone it elects nobody. `Passing` collects what all steps that begin no round do to
a node.

### Replication

`ReplicationProofs` proves, for `Spec`, that is without the window of a vote
(`ReplicationVoteWindow` shows what the window does), and from `ServerAssumption` and
`BoundAssumption` alone: `Inductive` (`[]IInv`), `LeadersAreComplete`
(`LeaderCompleteness`), `CommittedStays` (`CommittedIsDurable`), `LogsMatch`
(`LogMatching`) and `Implements` (`ImplementsReplicatedLog`: the initial state maps to
that of `ReplicatedLog`, every step to one of its steps or to a stutter).

The parts of `IInv`, each there because the next needs it:

* `VotesInv`: a vote is kept over crashes and is the only one of its server in its
  term, and a request shows the log of its candidate as long as it runs;
* `LedInv`: a term has a log only when a majority has voted for its leader, so that
  there is one leader per term;
* `LogsInv`: every entry on a server, in memory and on disk, was written by the leader
  of its term and comes after what that leader has before it (`Rooted`). Two logs with
  one entry in common then agree up to it (`RootsMatch`), which is log matching; what a
  FollowerStableClosure will acknowledge is in the follower's memory as long as its
  term lasts;
* `CommitInv`: what is acknowledged is in the leader's log; a leader commits only an
  entry of its own term, which a majority has acknowledged (`Granted`); and whatever a
  server calls committed, or a new leader tells its followers before it has committed
  anything, a leader of this or an earlier term has so committed, with the same entries
  up to it (`Backed`);
* `SafeInv`, the heart: for an entry of the leader's own term, a server that has
  acknowledged it keeps it on disk and has since voted only for candidates that have it
  (`Keeps`), or the entry is dead: a majority has gone to later terms without
  acknowledging it, so that it can never be committed (`Dead`). What is committed, a
  majority keeps; so the majority that elects a later leader has a server that keeps
  it, and the log comparison of the vote gives it to the leader. That an acknowledged
  but uncommitted entry may be overwritten is why `Dead` is needed.

For the refinement: what a leader says it has committed of its own term is among the
commits (`ShownInv`); what a new leader says of older terms is such a commit of a term
before (`Backed`); and the longest committed log, which `chosen` stands for, has all
others, and what each server may show its state machine, as prefixes (`ChosenInv`).

### The commit pipeline

`CommitPipelineProofs` proves, from `PeersAssumption` and `PipelineAssumption`:
`Inductive` (`[]IInv`), `NoCheckFails` (`ChecksHold`), `EntriesAppliedInOrder`
(`AppliedInOrder`), `OnlyChosenIsCommitted` (`CommittedIsChosen`),
`TaskAckedOnceApplied` (`AckedOnceApplied`) and `RolesAreFresh` (`RoleIsFresh`). `Inductive`
and `OnlyChosenIsCommitted`, like the others, are for `Failures` without `"late"`, the
restriction of section 3. The
invariant follows an entry through the pipeline, each part about what one stage may
hand to the next while calls of threads that have let a mutex go are under way:

* `TypeInv`, with `failed = {}`: no CHECK has failed;
* `LogInv`: the terms of a log do not fall, and an active node has all of `chosen`,
  but for one entry that a snapshot has which is about to be loaded;
* `KnownInv`: whatever is called committed, in the box, in a suspended call, in a
  follower's closure or in the FSM queue, is in the log and chosen; a leader's box
  commits nothing before its pending index;
* `BallotInv`: a ballot of a leader is for an entry of its term, and has been granted
  only by who has stored that entry; the closures in the disk queue are those of the
  last entries, one each;
* `FsmInv`: what the state machine has been given, against `last_applied_index`, the
  applied id and the batch that is in progress, also after an error in its middle;
* `TaskInv`: a closure that waits in the queue, or has been popped with a batch,
  belongs to its entry and has not run (`Fits`); popped ones come before waiting ones; a
  leader has one configuration entry of its own, and is busy until it is popped;
* `LateInv`: an answer that waits for the lock of a replicator, of this leadership or of
  one that has ended, is about entries before the pending index of a leader, where
  `commit_at` does nothing, or its peer has stored them;
* `NoticeInv`: the last notice of a kind in the queue tells the truth about the node,
  and without one the state machine knows it already.

### Replicator

`ReplicatorProofs` proves, from `ReplicatorAssumption` and for a follower that does not
leave its read-only mode (`"leave" \notin Readonly`, the restriction of section 3: what
then goes wrong is a CHECK of `_send_empty_entries`): `ReplicatorInductive`
(`[]IInv`), `CallsAreContiguous` (`FlyingIsContiguous`), `CommitAtIsStored`
(`GrantedIsStored`) and `NothingGoesWrong` (`NothingWrong`); for any depth of the
pipeline, batch, cache, log, number of calls and of failures. The parts of `IInv`:

* `TypeInv`, `BoundInv`: the types, and how far the logs of the model go;
* `FlightInv`: the calls in flight follow each other up to `next_index`
  (`FlyingOK`), each has one message of its own, wherever that is (`CallsOK`), and
  being blocked, installing a snapshot and having calls in flight exclude each other.
  A blocked, installing or probing replicator has no waiter that could wake it
  (`Quiet`), or its wake up will be ignored (`ModeOK`): a second sender would find
  calls that it does not know of. Leaving the read-only mode breaks just this;
* `StoredInv`: an answer that says yes tells of entries that are durable and agree, or
  that were answered early (`MessageOK`), wherever it is delayed. What is safe
  (`Safe`: the lesser of what agrees and what is on disk, or what was answered early)
  never decreases, so a late answer is still true. Until the first
  success there are only probes, and the follower has nothing that is on disk later
  than it agrees; from then on all before the first call in flight is durable, which
  is why `commit_at` may begin at `_min_flying_index`;
* `CleanInv`: nothing has gone wrong, and no timer of an ended wait is left.

`PoppedFlight` is about the loop of `_on_rpc_returned` that pops the calls up to the one
answered: what is left is in order, its sizes are what is taken off
`_flying_append_entries_size`, and it begins where the answered call ended
(`CountEntries` counts the entries of consecutive calls, by induction on their number).
`SentOK` collects what each of the methods that send, one calling the next, makes of the
replicator it was given (`_send_entries`, `_send_empty_entries`, `_install_snapshot`,
`_wait_more_entries`, `_block`).

### Segments

`SegmentStorageProofs` proves, for any sizes of entries and segments, bounds and number
of faults: `SegmentsInductive` (`[]IInv`), `RestartAcceptsFiles` (`RestartSucceeds`),
`ReadsMatchDisk` (`ReadsDisk`) and `SegmentsImplementLogStorage` (`Implements`). Assumed of
the kinds of faults are the restrictions of section 3: a loss of power meets synced
segments, entries that fit in a segment and the right to cut a torn one (`PowerOK`), `reset`
is not interrupted (`ResetOK`), no removal fails unnoticed of a file that init would use
(`StaleOK`), nothing is executed behind an error (`BehindOK`), and, for `Implements` only, no
sync fails where the machine may lose its power (`FsyncOK`). Failing writes and renames,
reported or ignored failures to remove other files, also in `init`, and crashes at all other
steps, are all admitted. The parts of `IInv`:

* `DiskInv`, what the next `init` needs, at every step: a file is known by its first index,
  a last index in its name tells what is in it, and is on disk for good (`NamesOK`); the
  files that are not below the first index follow each other without a hole, and only the
  last is in progress (`FilesOK`, `Tiled`);
* `MemoryInv`, what readers need, also after an error: the segments in memory are in order,
  follow each other and cover the log (`ExtentOK`), and each has its file with the same
  content (`HeldOK`);
* `StepInv`, while no error has been reported: which segments an operation still has to
  remove, in which order, and that the files `init` needs are of those or of the segments
  in memory (`OpOK`, `OwnedOK`). That
  `truncate_suffix` removes from the back, and `truncate_prefix` only what is below the
  index that the meta file already has, is why `DiskInv` holds after each removal;
* `NameInv`: no two files have one name (`ApartOK`), and while no error has been reported
  each segment knows the name its file has (`OpenOK`), so that the next rename or removal
  finds it. An error may end this: a segment that was synced, but not renamed, believes to
  be closed.

`Covers` is the heart of `ReadsDisk`: pieces that follow each other reach every index up to
the last of them. `NothingRefused` goes through the tests of `list_segments` and
`Segment::load` one by one. `EndBelow`, `UpTo` and `bySegment`, which say by `CHOOSE` where
a loop stops and how a `std::map` is ordered, are shown to have the values meant.

The refinement needs more, for the contract is about the log that a crash at this very
moment would leave. `RecoverInv` says it of the files: what those that `init` needs hold
from the first index of the meta file on is the log, or the other log of the running
operation (`LeavesALog`), and the last entry reported stable is among them, in the part
that survives (`SafeOnDisk`: what is synced, when the power may go). Between operations,
and through `append_entries` and most of `truncate_prefix`, the first follows from `IInv`
(`MemoryIsDisk`); in the middle of `truncate_prefix`, `truncate_suffix` and `reset` the index
in memory is ahead of the files, and it is carried from step to step (`SaysLess`,
`SaysAfter`). There is one lemma for each action (`RefinesWrite` and so on) which says
that the action keeps `RecoverInv` and is a step of `LogStore`, or none;
`RefinesRestart` is the one where the two meet: what `init` loads is a prefix of such a log
(`LoadedIs`) and reaches the last stable entry (`LogReaches`). `ResetOK` is needed
because `reset` saves its index before it removes the files: those that are still there
hold entries from that index on, and belong to neither log.

### Membership

`MembershipProofs` proves, from `MembershipAssumption` alone, that is for any set of
peers, any targets and any bounds: `MembershipInductive` (`[]IInv`),
`ChecksAlwaysHold` (`ChecksHold`), `JointIsAlwaysLeft` (`JointIsLeft`),
`OneLeaderOfATerm` (`OneLeaderPerTerm`) and `NothingIsLost` (`NothingLost`). The quorums
of a group that changes are the difficulty: a leader is elected by the quorum of the
last configuration in its own log, and an entry is committed by that of the entry. The
parts of `IInv`:

* `StageInv`: no CHECK has failed; what the stage of a `ConfigurationCtx` says is the
  last configuration in the leader's log (`StageOK`); a closure that waits for a peer to
  catch up, or that is to run for a committed configuration, is of the change in progress
  or will be ignored (`WaitInv`, `DoneInv`, `Unhandled`: the version and the term say which);
* `LogsInv`: two logs with an entry of one term agree up to it (`Matching`); the first
  entry of a term in a log was written by a leader for which a quorum of the
  configuration before it has voted (`VotedOK`); and consecutive configurations of a log
  have quorums that meet, where the later one was appended only after an entry of the same
  leader was settled under the earlier (`ChangeOK`). That is what
  `unsafe_register_conf_change` and the no-op at the start of a leadership are for;
* `LeadersInv`: what a leader knows of its peers' logs is so, and it has the votes of a
  quorum of its own last configuration;
* `SafeInv`: an entry that can still be committed (`Alive`: some quorum of its
  configuration has either acknowledged it or gone to no later term) is in every log of a
  later term (`SafeOK`);
* `CommitInv`: what is called committed is settled, and is in the log of whoever calls it so.

The heart is `ConfsOverlap`: the last configurations of two logs, of which neither is
behind by more than what was settled, have quorums that meet, although any number of
changes may lie between their terms. From it follow `ElectedTermIsNew` (a term has one
leader) and `ElectedHasSettled` (a new leader has what was settled). `SmallChangeOverlaps`
and `MajoritiesOfNextMeet` are about the sets themselves: with and without one peer, and
each half of a joint configuration. `NothingIsLost` also covers the remark at
`BallotBox::commit_at` that committing the entries before a removal by the smaller quorum
"is not well proved right now".

### Meta storage and timers

`MetaStorageProofs` proves `VoteSurvivesMigration`: for any nodes on a disk, peers,
batches and terms, a node that has started never has an older term, or another vote in
its term, than it was told it had saved (`PromiseKept`). Nodes may move between the file,
the database and both (always by way of both, as the code asks), writes may fail and be
written all the same, the process may crash at any step. The invariant says where the
promise is: in the storage last started with, and in both halves of the mixed one
(`InFile`, `InDb`), and that a call under way writes nothing that is behind it
(`CallKeeps`); `NewerKeeps` is the heart of it: the newer of two values keeps what either
keeps. What is not so, and is not claimed: that the two halves are never in conflict. When
the write to the database fails but is there, the node forgets its vote, votes for another,
has that vote in the file and crashes before it is in the database, the halves name two
votes of one term, and a start meets the CHECK that says "this case is theoretically
impossible" (raft_meta.cpp:341-345). The node then does not start, and no promise is broken.

`RepeatedTimerTaskProofs` proves `OneRunAtATime` (however the calls meet a timer that is
pending, has run out or runs, there is at most one run, and a started timer always has
its next) and `DestroyedOnceAtTheEnd` (`on_destroy` comes exactly once, when nothing of
the timer is left, and no CHECK fails). The invariant is that `_running` says that one run
is pending, due or in progress.

The last two modules have no run of their own: what they state is proved for all values
(the timers have but nine states), and TLC has agreed with it on small instances.

### Only model-checked

* Liveness everywhere (`Replicated`, `CatchupEnds`, `CommittedTaskRuns`, `JobsEnd`,
  `ChangeEnds`, `StableClosureRuns`, `WaiterCatchesUp`): fairness and `ENABLED` are out of
  the prover's reach.
* `LogManager`. Its disk thread folds a queue of closures of four kinds into batches,
  truncations and their answers, and its properties hold under restrictions of what
  leaders have in their logs (`LeaderLog` without an entry that comes back,
  `AppendMayFail`, `Delayed`), which are sets of logs chosen for an instance and not a
  condition that could be assumed of all logs.
* `Snapshot`: the content of three directories is related between the steps of the copier,
  the writer and the executor; its properties hold without two kinds of faults.
* The two violations, of which the vote window of `Replication` is one.

What the proofs do not say either: they are about the modules, which split a program
in parts, and the parts meet at the interfaces named in section 2 (how they fit), not in
one theorem.

## 5. Plan

Done: all modules of section 2 and the proofs of section 4. What would come next, and is
not done:

1. the memory and disk invariants of `LogManager`, once the condition that an entry of
   an older term does not come back is stated of `LeaderLog` itself;
2. the pre-vote phase in `Election`, and a timed model of both leases: no two leaders
   believe to hold one;
3. a follower that leaves its read-only mode, once it is decided what
   `_change_readonly_config` should do while the replicator is blocked.

## 6. Not modelled

* The pre-vote phase. It changes neither term nor vote, and ends in `elect_self`, which
  `Election` lets start at any time; what it is for, fewer elections, is not a property
  of any state.
* The clocks of the leases: in `Election` a follower's lease has run out, or not, whenever
  the code looks. That a leader's lease ends before another can be elected is therefore
  neither used nor shown.
* `reset_peers`, which gives up the guarantees of Raft by intent; the node's test of a
  read-only majority; `send_timeout_now_and_stop`; garbage collection of old groups
  (`gc_instance`, `delete_meta`).
* The CLI, the route table and the RPC services, which look up a node and hand the call
  on; file service and readers, throughput, HTTP pages, metrics.
* Payloads, checksums, wire and file formats, logging, memory management, and the brpc
  library itself.

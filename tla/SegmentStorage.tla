--------------------------- MODULE SegmentStorage ---------------------------
(***************************************************************************)
(* SegmentLogStorage (log.cpp, log.h in src/src/braft): the log of one     *)
(* node in segment files, with the index of each in memory. The disk       *)
(* thread of the LogManager runs one operation at a time, in steps; the    *)
(* process may die, or the machine lose its power, between any two, and    *)
(* readers look at the index between any two.                              *)
(*                                                                         *)
(* An entry is known by its term. The names of files (creations, renames   *)
(* and removals) are durable at once and in order; of what was written to  *)
(* a file since its last fsync a loss of power keeps a part. An operation  *)
(* that fails is reported to the node; append_to_storage writes nothing    *)
(* from then on. Syncing is RAFT_SYNC_IMMEDIATELY.                         *)
(*                                                                         *)
(* Faults says what may happen: the process or the machine stops ("crash", *)
(* "power"), also while reset removes its files ("reset_crash"); an        *)
(* operation on a file fails ("io"), or the sync of an append ("fsync"),   *)
(* or the removal of a file that init would still use, of which nobody is  *)
(* told ("stale"); truncations and resets queued behind an error are       *)
(* executed, as disk_thread does ("behind").                               *)
(***************************************************************************)
EXTENDS Integers, Sequences, SequencesExt, FiniteSets, FiniteSetsExt

CONSTANTS
    MaxIndex,        \* bound on log indexes
    MaxTerm,         \* bound on terms
    MaxBatch,        \* bound on the entries of an append
    EntryBytes,      \* the size of an entry
    MaxSegment,      \* raft_max_segment_size
    SyncSegments,    \* raft_sync_segments
    RecoverCorrupt,  \* raft_recover_log_from_corrupt
    Faults,          \* what may fail
    MaxFaults        \* bound on faults

ASSUME SegmentStorageAssumption ==
    /\ {MaxIndex, MaxTerm, MaxBatch, EntryBytes, MaxSegment} \subseteq Nat \ {0}
    /\ MaxFaults \in Nat /\ {SyncSegments, RecoverCorrupt} \subseteq BOOLEAN
    /\ Faults \subseteq {"crash", "reset_crash", "power", "io", "fsync", "stale", "behind"}

VARIABLES
    up,       \* the process runs; if not, its memory is as it was at the end
    files,    \* segment files: the indexes in the name, the content
    meta,     \* log_meta: first_log_index
    first,    \* _first_log_index
    last,     \* _last_log_index
    closed,   \* _segments, by first index
    open,     \* _open_segment, a sequence of at most one
    is_open,  \* the first indexes of the segments whose _is_open is set
    op,       \* the operation of the disk thread and its next step
    broken,   \* the storage has reported an error
    refused,  \* init has failed
    faults,   \* history: faults so far
    other,    \* history: the log before, or after, the running operation
    safe,     \* history: the entries up to here have been reported stable
    bad       \* history: a CHECK failed
memory == <<first, last, closed, open, is_open>>
vars == <<up, files, meta, first, last, closed, open, is_open, op, broken, refused,
          faults, other, safe, bad>>

Terms == 1..MaxTerm
Idle == [of |-> "none", pc |-> "idle", left |-> <<>>, k |-> 0, cut |-> FALSE,
         renamed |-> FALSE]

\* A segment in memory: its first index and the terms of its entries.
NewSegment(i) == [first |-> i, terms |-> <<>>]
LastOf(s) == s.first + Len(s.terms) - 1
Bytes(s) == Len(s.terms) * EntryBytes

\* A file: log_inprogress_F has no last index in its name; how many of its
\* entries are on the disk for good, and what follows its last whole entry.
NewFile(i) == [first |-> i, last |-> 0, terms |-> <<>>, synced |-> 0, tail |-> "none"]
SameName(f, g) == f.first = g.first /\ f.last = g.last
\* A file takes the place of one of the same name.
Put(f, g) == {h \in files \ {f} : ~SameName(h, g)} \union {g}

IsOpen(s) == s.first \in is_open
\* The file that a segment believes to be its own.
Named(s, f) == f.first = s.first /\ f.last = IF IsOpen(s) THEN 0 ELSE LastOf(s)
OnDisk(s) == \E f \in files : Named(s, f)
File(s) == CHOOSE f \in files : Named(s, f)

Init ==
    /\ up = TRUE /\ files = {} /\ meta = 1
    /\ first = 1 /\ last = 0 /\ closed = <<>> /\ open = <<>> /\ is_open = {}
    /\ op = Idle /\ broken = FALSE /\ refused = FALSE /\ faults = 0
    /\ other = [first |-> 1, entries |-> <<>>] /\ safe = 0 /\ bad = FALSE

----------------------------------------------------------------------------
(* Reading, by any thread. *)

segments == ToSet(closed \o open)

\* The last segment that starts at or before the index.
get_segment(i) ==
    {s \in segments : s.first <= i /\ \A t \in segments : t.first <= i => t.first <= s.first}

\* 0: there is no such entry.
get_term(i) ==
    LET found == {s \in get_segment(i) : i \in first..last /\ i <= LastOf(s)}
    IN  IF found = {} THEN 0 ELSE LET s == CHOOSE s \in found : TRUE
                                  IN  s.terms[i - s.first + 1]

Log == [first |-> first, entries |-> [n \in 1..(last - first + 1) |-> get_term(first + n - 1)]]

----------------------------------------------------------------------------
(* Steps of an operation. *)

Fault(kind) == kind \in Faults /\ faults < MaxFaults /\ faults' = faults + 1

Goto(pc) == op' = [op EXCEPT !.pc = pc]
Begin(of, pc, left, k) ==
    op' = [Idle EXCEPT !.of = of, !.pc = pc, !.left = left, !.k = k]

\* The operation returns to the disk thread.
Returns == op' = Idle /\ other' = Log

Succeeds == UNCHANGED <<broken, faults>>

\* The operation fails: the disk thread reports the error.
Stops == op' = Idle /\ broken' = TRUE
Fails == Fault("io") /\ Stops

\* What is done under a name that no file has fails.
FaultAt(s, kind) == IF OnDisk(s) THEN Fault(kind) ELSE UNCHANGED faults

\* list_segments: closed segments below the first index are dropped.
Needed(f) == f.last = 0 \/ f.last >= meta

\* The kind of fault that leaves a file although its segment is gone.
Stays(f) == IF Needed(f) THEN "stale" ELSE "io"

\* Truncations and resets do not look at _has_error.
Executes == ~broken \/ "behind" \in Faults

----------------------------------------------------------------------------
(* append_entries: for each entry open_segment and Segment::append, then   *)
(* one sync. *)

append_entries ==
    /\ up /\ op = Idle /\ ~broken
    /\ \E n \in 1..MaxBatch, t \in Terms :
        /\ last + n <= MaxIndex
        /\ last >= first => t >= get_term(last)
        /\ Begin("append", "open", [i \in 1..n |-> t], 0)
    /\ UNCHANGED <<up, files, meta, memory, broken, refused, faults, other, safe, bad>>

IsFull(s) == Bytes(s) > MaxSegment

create_segment ==
    /\ up
    /\ \/ op.pc = "open" /\ open = <<>>
       \/ op.pc = "create"
    /\ open' = <<NewSegment(last + 1)>>
    /\ files' = Put(NewFile(last + 1), NewFile(last + 1))
    /\ is_open' = is_open \union {last + 1}
    /\ Goto("open")
    /\ UNCHANGED <<up, meta, first, last, closed, broken, refused, faults, other, safe, bad>>

\* The full segment is found among the others while it is closed.
open_segment_full ==
    /\ up /\ op.pc = "open" /\ open # <<>> /\ IsFull(open[1])
    /\ closed' = closed \o open /\ open' = <<>>
    /\ Goto("close")
    /\ UNCHANGED <<up, files, meta, first, last, is_open, broken, refused, faults, other, safe, bad>>

\* Segment::close syncs a segment of more than one entry.
SyncedAtClose(s, f) ==
    IF LastOf(s) > s.first /\ SyncSegments THEN Len(f.terms) ELSE f.synced

close_segment ==
    LET s == Last(closed)
        f == File(s)
    IN  /\ up /\ op.pc = "close"
        /\ files' = Put(f, [f EXCEPT !.last = LastOf(s), !.synced = SyncedAtClose(s, f)])
        /\ is_open' = is_open \ {s.first}
        /\ Goto("create")
        /\ UNCHANGED <<up, meta, first, last, closed, open, broken, refused, faults, other,
                       safe, bad>>

write ==
    LET s == open[1]
        f == File(s)
        t == Head(op.left)
    IN  /\ up /\ op.pc = "open" /\ open # <<>> /\ ~IsFull(s)
        /\ files' = Put(f, [f EXCEPT !.terms = Append(@, t)])
        /\ open' = <<[s EXCEPT !.terms = Append(@, t)]>>
        /\ last' = last + 1
        /\ other' = [Log EXCEPT !.entries = Append(@, t)]
        /\ op' = [op EXCEPT !.left = Tail(@), !.pc = IF Len(op.left) = 1 THEN "sync" ELSE "open"]
        /\ UNCHANGED <<up, meta, first, closed, is_open, broken, refused, faults, safe, bad>>

\* Mutant: the sync does nothing.
FlushedNot(f) == f
Flushed(f) == [f EXCEPT !.synced = Len(f.terms)]

\* The result of the sync is not looked at.
sync ==
    LET f == File(open[1])
    IN  /\ up /\ op.pc = "sync"
        /\ \/ files' = Put(f, Flushed(f)) /\ UNCHANGED faults
           \/ Fault("fsync") /\ UNCHANGED files
        /\ safe' = last
        /\ Returns
        /\ UNCHANGED <<up, meta, memory, broken, refused, bad>>

\* A segment that could not be closed, or followed by a new one, is the open
\* one again, but its _is_open is not set if it was synced; a write that fails
\* may leave a part of the entry in the file.
append_fails ==
    /\ up /\ Fails
    /\ \/ /\ op.pc \in {"close", "create"}
          /\ closed' = Front(closed) /\ open' = <<Last(closed)>>
          /\ is_open' \in {is_open, is_open \ {Last(closed).first}}
          /\ UNCHANGED files
       \/ /\ op.pc = "open" /\ open = <<>>
          /\ UNCHANGED <<files, closed, open, is_open>>
       \/ /\ op.pc = "open" /\ open # <<>> /\ ~IsFull(open[1])
          /\ files' \in {files, Put(File(open[1]), [File(open[1]) EXCEPT !.tail = "torn"])}
          /\ UNCHANGED <<closed, open, is_open>>
    /\ UNCHANGED <<up, meta, first, last, refused, other, safe, bad>>

----------------------------------------------------------------------------
(* truncate_prefix: the meta file, the index in memory, then the files. *)

After(l, k) == [first |-> k, entries |-> SubSeq(l.entries, k - l.first + 1, Len(l.entries))]

truncate_prefix ==
    /\ up /\ op = Idle /\ Executes
    /\ \E k \in (first + 1)..(last + 2) :
        /\ k <= MaxIndex
        /\ Begin("prefix", "meta", <<>>, k)
        /\ other' = After(Log, k)
    /\ UNCHANGED <<up, files, meta, memory, broken, refused, faults, safe, bad>>

save_meta ==
    /\ up /\ op.pc = "meta"
    /\ \/ /\ meta' = op.k
          /\ Goto(IF op.of = "prefix" THEN "pop" ELSE "unlink")
          /\ Succeeds
       \/ Fails /\ UNCHANGED meta
    /\ UNCHANGED <<up, files, memory, refused, other, safe, bad>>

\* How many segments at the front end below index k.
EndBelow(q, k) == CHOOSE n \in 0..Len(q) : /\ \A i \in 1..n : LastOf(q[i]) < k
                                           /\ n < Len(q) => LastOf(q[n + 1]) >= k

\* Segments whose last index is below first_index_kept go, from the front.
pop_segments ==
    LET k == op.k
        popped == SubSeq(closed, 1, EndBelow(closed, k))
        kept == SubSeq(closed, EndBelow(closed, k) + 1, Len(closed))
        popOpen == kept = <<>> /\ open # <<>> /\ LastOf(open[1]) < k
    IN  /\ up /\ op.pc = "pop"
        /\ first' = k
        /\ closed' = kept
        /\ open' = IF popOpen THEN <<>> ELSE open
        /\ last' = IF kept = <<>> /\ (popOpen \/ open = <<>>) THEN k - 1 ELSE last
        /\ bad' = (bad \/ (kept = <<>> /\ open # <<>> /\ ~popOpen /\ open[1].first > k))
        /\ op' = [op EXCEPT !.pc = "unlink", !.left = popped \o (IF popOpen THEN open ELSE <<>>)]
        /\ other' = After(Log, k)
        /\ UNCHANGED <<up, files, meta, is_open, broken, refused, faults, safe>>

\* Segment::unlink, for each segment popped; a file that was renamed to .tmp is
\* gone, as list_segments removes it. truncate_suffix stops where it fails,
\* truncate_prefix and reset do not look at what it returns.
unlink ==
    LET s == Head(op.left)
        goesOn == op' = [op EXCEPT !.left = Tail(@)] /\ is_open' = is_open \ {s.first}
    IN  /\ up /\ op.pc = "unlink" /\ op.left # <<>>
        /\ \/ OnDisk(s) /\ files' = files \ {File(s)} /\ goesOn /\ Succeeds
           \/ /\ op.of = "suffix" /\ FaultAt(s, "io") /\ Stops
              /\ UNCHANGED <<files, is_open>>
           \/ /\ op.of # "suffix" /\ FaultAt(s, Stays(File(s))) /\ goesOn
              /\ UNCHANGED <<files, broken>>
        /\ UNCHANGED <<up, meta, first, last, closed, open, refused, other, safe, bad>>

LastSegment == Last(closed \o open)

\* Segment::truncate has nothing to do if the segment ends there.
unlinked ==
    /\ up /\ op.pc = "unlink" /\ op.left = <<>>
    /\ IF op.cut /\ op.k < LastOf(LastSegment)
       THEN /\ Goto(IF IsOpen(LastSegment) THEN "ftruncate" ELSE "rename")
            /\ UNCHANGED other
       ELSE Returns
    /\ UNCHANGED <<up, files, meta, memory, broken, refused, faults, safe, bad>>

----------------------------------------------------------------------------
(* truncate_suffix: the index in memory, then the files from the back. *)

\* The place of the last segment that starts at or before index k.
UpTo(q, k) == CHOOSE n \in 0..Len(q) : /\ \A i \in n + 1..Len(q) : q[i].first > k
                                       /\ n > 0 => q[n].first <= k
\* Mutant: the first of the log first.
PoppedFromFront(q, k) == SubSeq(q, UpTo(q, k) + 1, Len(q))
\* The segments to remove, the last of the log first.
PoppedFromBack(q, k) == Reverse(SubSeq(q, UpTo(q, k) + 1, Len(q)))

\* pop_segments_from_back and the decision to drop the last segment as well. Behind
\* an error the storage may end before the index that it is told to keep.
truncate_suffix ==
    /\ up /\ op = Idle /\ Executes
    /\ \E k \in (first - 1)..(IF broken THEN MaxIndex - 1 ELSE last - 1) :
        LET all == closed \o open
            kept == SubSeq(all, 1, UpTo(all, k))
            first1 == IF kept = <<>> THEN k + 1 ELSE first
            cut == kept # <<>> /\ first1 <= k
            left == IF kept # <<>> /\ ~cut THEN Front(kept) ELSE kept
            openKept == open # <<>> /\ open[1] \in ToSet(left)
        IN  /\ last' = k /\ first' = first1
            /\ closed' = IF openKept THEN Front(left) ELSE left
            /\ open' = IF openKept THEN open ELSE <<>>
            /\ op' = [Idle EXCEPT !.of = "suffix", !.pc = "unlink", !.k = k, !.cut = cut,
                         !.left = PoppedFromBack(all, k) \o
                                  (IF kept # <<>> /\ ~cut THEN <<Last(kept)>> ELSE <<>>)]
            /\ other' = Log /\ safe' = Min({safe, k})
    /\ UNCHANGED <<up, files, meta, is_open, broken, refused, faults, bad>>

\* A closed segment is given back the name of an open one before it is cut.
NameToCut(f) == [f EXCEPT !.last = 0]

rename ==
    LET s == LastSegment
    IN  /\ up /\ op.pc = "rename"
        /\ \/ /\ OnDisk(s) /\ files' = Put(File(s), NameToCut(File(s)))
              /\ is_open' = is_open \union {s.first}
              /\ op' = [op EXCEPT !.pc = "ftruncate", !.renamed = TRUE]
              /\ Succeeds
           \/ FaultAt(s, "io") /\ Stops /\ UNCHANGED <<files, is_open>>
        /\ UNCHANGED <<up, meta, first, last, closed, open, refused, other, safe, bad>>

\* Mutant: the file is not cut.
CutNothing(f, k) == f
Cut(f, k) == [f EXCEPT !.terms = SubSeq(@, 1, k - f.first + 1),
                       !.synced = Min({@, k - f.first + 1}), !.tail = "none"]

\* A segment that was closed becomes the open one: CHECK(!_open_segment).
ftruncate ==
    LET s == LastSegment
        f == File(s)
        s1 == [s EXCEPT !.terms = SubSeq(@, 1, op.k - s.first + 1)]
    IN  /\ up /\ op.pc = "ftruncate"
        /\ \/ /\ files' = Put(f, Cut(f, op.k))
              /\ open' = IF op.renamed \/ open # <<>> THEN <<s1>> ELSE <<>>
              /\ closed' = IF open # <<>> THEN closed
                           ELSE IF op.renamed THEN Front(closed) ELSE Append(Front(closed), s1)
              /\ bad' = (bad \/ (op.renamed /\ open # <<>>))
              /\ Returns /\ Succeeds
           \/ Fails /\ UNCHANGED <<files, open, closed, other, bad>>
        /\ UNCHANGED <<up, meta, first, last, is_open, refused, safe>>

----------------------------------------------------------------------------
(* reset: the index in memory, the meta file, then the files. *)

reset ==
    /\ up /\ op = Idle /\ Executes
    /\ \E k \in (first + 1)..(last + 1) :
        /\ k <= MaxIndex
        /\ first' = k /\ last' = k - 1 /\ closed' = <<>> /\ open' = <<>>
        /\ Begin("reset", "meta", closed \o open, k)
        /\ other' = Log /\ safe' = Min({safe, k - 1})
    /\ UNCHANGED <<up, files, meta, is_open, broken, refused, faults, bad>>

----------------------------------------------------------------------------
(* Crashes and init. *)

\* The process dies, perhaps in a write.
Crash ==
    /\ up
    /\ \/ Fault("crash") /\ ~(op.of = "reset" /\ op.pc = "unlink")
       \/ Fault("reset_crash") /\ op.of = "reset" /\ op.pc = "unlink"
    /\ files' \in {files} \union
                  {Put(File(s), [File(s) EXCEPT !.tail = "torn"]) :
                     s \in {s \in ToSet(open) : op.pc = "open"}}
    /\ up' = FALSE /\ op' = Idle
    /\ UNCHANGED <<meta, memory, broken, refused, other, safe, bad>>

\* The machine goes down: of what was not synced a part is left.
PowerLoss ==
    /\ up /\ Fault("power") /\ ~(op.of = "reset" /\ op.pc = "unlink")
    /\ \E kept \in [files -> 0..MaxIndex], tail \in {"none", "torn", "corrupt"} :
        /\ \A f \in files : kept[f] \in f.synced..Len(f.terms)
        /\ files' = {[f EXCEPT !.terms = SubSeq(@, 1, kept[f]),
                               !.tail = IF kept[f] < Len(f.terms) THEN tail ELSE @] : f \in files}
    /\ up' = FALSE /\ op' = Idle
    /\ UNCHANGED <<meta, memory, broken, refused, other, safe, bad>>

\* Segment::load: the file is cut after the last whole entry.
Loaded(f) == [first |-> f.first, terms |-> f.terms]
LoadFails(f) ==
    \/ f.last # 0 /\ (f.tail = "corrupt" \/ Len(f.terms) # f.last - f.first + 1)
    \/ f.last = 0 /\ f.tail = "corrupt" /\ ~RecoverCorrupt

\* list_segments has one closed segment for each first index in the names.
Listings ==
    LET all == {f \in files : f.last # 0}
    IN  {F \in SUBSET all : /\ \A f \in all : \E g \in F : g.first = f.first
                            /\ \A f, g \in F : f.first = g.first => f = g}

\* Closed segments below the first index are dropped, from the front.
Outdated(F) == {f \in F : \A g \in F : g.first <= f.first => ~Needed(g)}

ListFails(full) ==
    \/ Cardinality({f \in files : f.last = 0}) > 1
    \/ \E f \in full : /\ \A g \in full : f.first <= g.first
                       /\ f.first > meta
    \/ \E f, g \in full : /\ f.first < g.first
                          /\ \A h \in full : h.first <= f.first \/ h.first >= g.first
                          /\ g.first # f.last + 1

\* std::map orders the segments by their first index.
bySegment(fs) ==
    CHOOSE q \in [1..Cardinality(fs) -> {Loaded(f) : f \in fs}] :
       \A i, j \in 1..Cardinality(fs) : i < j => q[i].first < q[j].first

LastLoaded(closed1, open1) ==
    IF closed1 \o open1 = <<>> THEN meta - 1 ELSE LastOf(Last(closed1 \o open1))

Restart ==
    /\ ~up /\ ~refused
    /\ \E listed \in Listings :
        LET full == listed \ Outdated(listed)
            part == {f \in files : f.last = 0}
            keep == {f \in part : LastOf(Loaded(f)) >= meta}
            dropped == Outdated(listed) \union (part \ keep)
        IN  IF ListFails(full) \/ \E f \in full \union part : LoadFails(f)
            THEN /\ refused' = TRUE
                 /\ UNCHANGED <<up, files, memory, broken, faults, other, bad>>
            ELSE /\ closed' = bySegment(full) /\ open' = bySegment(keep)
                 /\ is_open' = {f.first : f \in keep}
                 /\ \E left \in SUBSET dropped :
                      /\ files' = {[f EXCEPT !.tail = "none"] : f \in full \union keep}
                                  \union ((files \ (full \union keep)) \ (dropped \ left))
                      /\ \/ left = {} /\ UNCHANGED faults
                         \/ {Stays(f) : f \in left} \subseteq Faults /\ \E f \in left : Fault(Stays(f))
                 /\ first' = meta
                 /\ last' = LastLoaded(closed', open')
                 /\ up' = TRUE /\ broken' = FALSE
                 /\ other' = Log'
                 \* CHECK_LE(last_log_index, _open_segment->last_index())
                 /\ bad' = (bad \/ \E f \in part, g \in full : g.last > f.first - 1)
                 /\ UNCHANGED refused
    /\ UNCHANGED <<meta, op, safe>>

Next ==
    \/ append_entries \/ create_segment \/ open_segment_full \/ close_segment \/ write \/ sync
    \/ append_fails
    \/ truncate_prefix \/ save_meta \/ pop_segments \/ unlink \/ unlinked
    \/ truncate_suffix \/ rename \/ ftruncate
    \/ reset
    \/ Crash \/ PowerLoss \/ Restart

Spec == Init /\ [][Next]_vars

----------------------------------------------------------------------------
(* Properties *)

\* The range of every variable; the log has no negative length.
TypeOK ==
    /\ {up, broken, refused, bad} \subseteq BOOLEAN
    /\ meta \in 1..MaxIndex /\ first \in 1..MaxIndex /\ last \in 0..MaxIndex
    /\ last >= first - 1
    /\ Len(open) <= 1
    /\ \A s \in segments : s.first \in 1..(MaxIndex + 1) /\ s.terms \in Seq(Terms)
    /\ \A f \in files : f.synced \in 0..Len(f.terms)

Contract == INSTANCE LogStore WITH entries <- Log.entries, Entry <- Terms,
                                   Index <- 1..MaxIndex

\* The segments are a LogStorage: whatever operation a crash or a loss of power
\* interrupts, init brings back the log as it was before or after that
\* operation, with every entry that an append has reported stable. (Not so with
\* "reset_crash", "fsync", "stale" and "behind".)
Implements == Contract!Spec

\* At every moment each index of the log has its entry, in the segment that
\* get_segment finds, and the file says the same as the index in memory
\* (CHECK_EQ(meta.term, header.term) in Segment::get).
ReadsDisk ==
    up => \A i \in first..last :
             \E s \in get_segment(i) :
                /\ i <= LastOf(s)
                /\ \E f \in files : /\ f.first = s.first
                                    /\ i - f.first + 1 <= Len(f.terms)
                                    /\ f.terms[i - f.first + 1] = get_term(i)

\* No crash leaves files that init refuses ("open segment conflict", "closed
\* segment not in order", "closed segment has hole", "data lost in a full
\* segment"), and no CHECK of the storage fails: the segments in memory and on disk
\* have no hole that pop_segments or list_segments would meet. (init does refuse what
\* "stale" leaves, and the CHECK of truncate_suffix fails with "behind".)
RestartSucceeds == TypeOK /\ ~refused /\ ~bad
=============================================================================

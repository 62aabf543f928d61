------------------------------ MODULE LogStore ------------------------------
(***************************************************************************)
(* What a LogStorage promises to the LogManager (storage.h in              *)
(* src/src/braft): the operations of MemoryLogStorage (memory_log.cpp),    *)
(* each one step on one deque of entries, and what a storage on disk owes  *)
(* after a crash: the log as it was before or after the operation that the *)
(* crash interrupted, with every entry whose append has returned.          *)
(***************************************************************************)
EXTENDS Integers, Sequences, SequencesExt, FiniteSetsExt

CONSTANTS Entry, Index

VARIABLES up,       \* the process runs
          first,    \* _first_log_index
          entries,  \* _log_entry_data
          other,    \* the log before, or after, the running operation
          safe      \* the entries up to here have been reported stable

LastIndex == first + Len(entries) - 1
Log == [first |-> first, entries |-> entries]
After(l, k) == [first |-> k, entries |-> SubSeq(l.entries, k - l.first + 1, Len(l.entries))]

Init == up = TRUE /\ first = 1 /\ entries = <<>> /\ other = Log /\ safe = 0

append_entry(e) ==
    /\ entries' = Append(entries, e)
    /\ other' = [Log EXCEPT !.entries = entries']
    /\ UNCHANGED <<up, first, safe>>

\* A crash may from now on leave the log that truncate_prefix(k) makes.
begin_truncate_prefix(k) ==
    /\ k >= first /\ other' = After(Log, k)
    /\ UNCHANGED <<up, first, entries, safe>>

truncate_prefix(k) ==
    /\ k >= first
    /\ first' = k /\ entries' = After(Log, k).entries
    /\ other' = After(Log, k)
    /\ UNCHANGED <<up, safe>>

truncate_suffix(k) ==
    /\ k <= LastIndex
    /\ entries' = SubSeq(entries, 1, k - first + 1)
    /\ first' = Min({first, k + 1})
    /\ other' = Log /\ safe' = Min({safe, k})
    /\ UNCHANGED up

reset(k) ==
    /\ first' = k /\ entries' = <<>>
    /\ other' = Log /\ safe' = Min({safe, k - 1})
    /\ UNCHANGED up

\* The running operation returns: what it appended is stable.
Return ==
    /\ other' = Log /\ safe' \in {safe, LastIndex}
    /\ UNCHANGED <<up, first, entries>>

Crash == up' = FALSE /\ UNCHANGED <<first, entries, other, safe>>

Restart ==
    /\ ~up /\ up'
    /\ \E l \in {Log, other} : first' = l.first /\ IsPrefix(entries', l.entries)
    /\ first' + Len(entries') - 1 >= safe
    /\ other' = [first |-> first', entries |-> entries']
    /\ UNCHANGED safe

Next ==
    \/ up /\ \/ \E e \in Entry : append_entry(e)
             \/ \E k \in Index : \/ begin_truncate_prefix(k) \/ truncate_prefix(k)
                                 \/ truncate_suffix(k - 1) \/ reset(k)
             \/ Return
             \/ Crash
    \/ Restart

Spec == Init /\ [][Next]_<<up, first, entries, other, safe>>
=============================================================================

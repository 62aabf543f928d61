----------------------------- MODULE MetaStorage -----------------------------
(***************************************************************************)
(* Where a node keeps its term and vote (raft_meta.cpp and                 *)
(* protobuf_file.cpp in src/src/braft): a file of its own (single), a      *)
(* database that the nodes on a disk share (merged), or both (mixed) while *)
(* a node is moved from one to the other. Nodes stop, crash and start with *)
(* another storage; writes fail.                                           *)
(*                                                                         *)
(* A node waits for its write, so that the database's queue holds one      *)
(* write of each node, and the order among nodes does not matter.          *)
(***************************************************************************)
EXTENDS Integers, FiniteSets

CONSTANTS
    Group,    \* the nodes of a process, each of another group
    Peer,     \* who may be voted for
    Any,      \* ANY_PEER
    Batch,    \* raft_meta_write_batch
    MaxTerm   \* bound on terms

VARIABLES
    file,     \* the StablePBMeta in the file of each node
    db,       \* and that under its key in the database
    kind,     \* the storage that the node last started with
    call,     \* its get or set in progress
    cur,      \* _current_term and _voted_id of the node
    promised, \* history: the last term and vote whose save succeeded
    bad       \* history: "Unexpected conflict when mixed stable storage"
vars == <<file, db, kind, call, cur, promised, bad>>

Kinds == {"single", "mixed", "merged"}
Meta == [term : 1..MaxTerm, vote : Peer \union {Any}]
Initial == [term |-> 1, vote |-> Any]
Absent == [term |-> 0, vote |-> Any]
Down == [term |-> -1, vote |-> Any]
NoCall == [step |-> "none", kind |-> "single", boot |-> FALSE, val |-> Initial]
Call == [step : {"none", "get", "save", "put", "ok", "failed"}, kind : Kinds,
         boot : BOOLEAN, val : Meta]

Init ==
    /\ file = [g \in Group |-> Initial]
    /\ db = [g \in Group |-> Absent]
    /\ kind \in [Group -> Kinds]
    /\ call = [g \in Group |-> NoCall]
    /\ cur = [g \in Group |-> Down]
    /\ promised = [g \in Group |-> Initial]
    /\ bad = FALSE

At(g, step) == call[g].step = step
Go(g, step, val) == call' = [call EXCEPT ![g].step = step, ![g].val = val]

----------------------------------------------------------------------------
(* Starting. *)

\* A storage is replaced by way of the mixed one.
Successor(old, new) == old = new \/ "mixed" \in {old, new}

Start(g, k) ==
    /\ cur[g] = Down /\ At(g, "none") /\ Successor(kind[g], k)
    /\ call' = [call EXCEPT ![g] = [NoCall EXCEPT !.step = "get", !.kind = k,
                                                  !.boot = TRUE]]
    /\ UNCHANGED <<file, db, kind, cur, promised, bad>>

Started(g, val) ==
    /\ kind' = [kind EXCEPT ![g] = call[g].kind]
    /\ cur' = [cur EXCEPT ![g] = val]
    /\ call' = [call EXCEPT ![g] = NoCall]
    /\ UNCHANGED <<file, db, promised, bad>>
Stopped(g) ==
    /\ cur' = [cur EXCEPT ![g] = Down]
    /\ call' = [call EXCEPT ![g] = NoCall]

\* FileBasedSingleMetaStorage: load, in init; without a file the term is 1.
GetSingle(g) ==
    /\ At(g, "get") /\ call[g].kind = "single"
    /\ Started(g, file[g])

\* Not in the database: the initial value is put there first, and is then found.
PutInitial(g) ==
    /\ At(g, "get") /\ call[g].kind # "single" /\ db[g] = Absent
    /\ Go(g, "put", Initial)
    /\ UNCHANGED <<file, db, kind, cur, promised, bad>>
GetMerged(g) ==
    /\ At(g, "get") /\ call[g].kind = "merged" /\ db[g] # Absent
    /\ Started(g, db[g])

\* MixedMetaStorage: which of two values is newer.
Newer(a, b) ==
    a.term > b.term \/ (a.term = b.term /\ a.vote # Any /\ b.vote = Any)
Conflict(a, b) == a.term = b.term /\ a # b /\ Any \notin {a.vote, b.vote}
\* The stale side catches up, and is then found equal.
GetMixed(g) ==
    /\ At(g, "get") /\ call[g].kind = "mixed" /\ db[g] # Absent
    /\ \/ file[g] = db[g] /\ Started(g, file[g])
       \/ /\ Conflict(file[g], db[g])
          /\ Stopped(g) /\ bad' = TRUE
          /\ UNCHANGED <<file, db, kind, promised>>
       \/ /\ file[g] # db[g] /\ ~Conflict(file[g], db[g])
          /\ IF Newer(file[g], db[g]) THEN Go(g, "put", file[g])
                                      ELSE Go(g, "save", db[g])
          /\ UNCHANGED <<file, db, kind, cur, promised, bad>>

\* The directory, the file or the database cannot be opened, read or parsed.
GetFails(g) ==
    /\ At(g, "get")
    /\ call' = [call EXCEPT ![g].step = "failed"]
    /\ UNCHANGED <<file, db, kind, cur, promised, bad>>

----------------------------------------------------------------------------
(* set_term_and_votedfor. *)

\* elect_self and step_down go to a new term; a vote is cast once in a term.
Set(g, val) ==
    /\ cur[g] # Down /\ At(g, "none")
    /\ \/ val.term > cur[g].term
       \/ val.term = cur[g].term /\ cur[g].vote = Any /\ val.vote # Any
    /\ call' = [call EXCEPT ![g] =
                  [step |-> IF kind[g] = "merged" THEN "put" ELSE "save",
                   kind |-> kind[g], boot |-> FALSE, val |-> val]]
    /\ UNCHANGED <<file, db, kind, cur, promised, bad>>

\* What follows a write: the answer, the read of get, or the write of the mixed
\* storage to its other half.
AfterSave(c) == IF c.boot THEN "get" ELSE IF c.kind = "mixed" THEN "put" ELSE "ok"
AfterPut(c) == IF c.boot THEN "get" ELSE "ok"

\* ProtoBufFile::save: a temporary file is written, synced, and renamed.
Save(g) ==
    /\ At(g, "save")
    /\ \/ /\ file' = [file EXCEPT ![g] = call[g].val]
          /\ call' = [call EXCEPT ![g].step = AfterSave(call[g])]
       \/ /\ call' = [call EXCEPT ![g].step = "failed"]
          /\ UNCHANGED file
    /\ UNCHANGED <<db, kind, cur, promised, bad>>

\* The database's queue: the writes of a batch are in the database together. A write
\* that fails may be there all the same.
RunTasks(B) ==
    /\ B # {} /\ Cardinality(B) <= Batch /\ \A g \in B : At(g, "put")
    /\ \E ok, written \in BOOLEAN :
        /\ ok => written
        /\ db' = IF written THEN [g \in Group |-> IF g \in B THEN call[g].val ELSE db[g]]
                 ELSE db
        /\ call' = [g \in Group |->
                      IF g \in B
                      THEN [call[g] EXCEPT !.step = IF ok THEN AfterPut(call[g])
                                                          ELSE "failed"]
                      ELSE call[g]]
    /\ UNCHANGED <<file, kind, cur, promised, bad>>

\* The node's caller is answered; it forgets its vote when the save has failed.
Saved(g) ==
    /\ At(g, "ok")
    /\ cur' = [cur EXCEPT ![g] = call[g].val]
    /\ promised' = [promised EXCEPT ![g] = call[g].val]
    /\ call' = [call EXCEPT ![g] = NoCall]
    /\ UNCHANGED <<file, db, kind, bad>>
SaveFailed(g) ==
    /\ At(g, "failed") /\ ~call[g].boot
    /\ cur' = [cur EXCEPT ![g] = [call[g].val EXCEPT !.vote = Any]]
    /\ call' = [call EXCEPT ![g] = NoCall]
    /\ UNCHANGED <<file, db, kind, promised, bad>>

\* init fails.
StartFailed(g) ==
    /\ At(g, "failed") /\ call[g].boot
    /\ Stopped(g)
    /\ UNCHANGED <<file, db, kind, promised, bad>>

----------------------------------------------------------------------------
(* Stops. *)

Stop(g) ==
    /\ cur[g] # Down /\ At(g, "none")
    /\ Stopped(g)
    /\ UNCHANGED <<file, db, kind, promised, bad>>

\* The process of all nodes ends.
Crash ==
    /\ cur' = [g \in Group |-> Down]
    /\ call' = [g \in Group |-> NoCall]
    /\ UNCHANGED <<file, db, kind, promised, bad>>

Step(g) ==
    \/ \E k \in Kinds : Start(g, k)
    \/ GetSingle(g) \/ PutInitial(g) \/ GetMerged(g) \/ GetMixed(g) \/ GetFails(g)
    \/ \E val \in Meta : Set(g, val)
    \/ Save(g) \/ Saved(g) \/ SaveFailed(g) \/ StartFailed(g) \/ Stop(g)
Next ==
    \/ \E g \in Group : Step(g)
    \/ \E B \in SUBSET Group : RunTasks(B)
    \/ Crash

Spec == Init /\ [][Next]_vars

----------------------------------------------------------------------------
(* Properties *)

\* The range of every variable.
TypeOK ==
    /\ file \in [Group -> Meta]
    /\ db \in [Group -> Meta \union {Absent}]
    /\ kind \in [Group -> Kinds]
    /\ call \in [Group -> Call]
    /\ cur \in [Group -> Meta \union {Down}]
    /\ promised \in [Group -> Meta]
    /\ bad \in BOOLEAN

\* A node that has saved p may go on from v.
Keeps(p, v) == v.term > p.term \/ (v.term = p.term /\ p.vote \in {Any, v.vote})

\* A node that has started, with whatever storage it has been moved to and whatever
\* write of the move has failed or been cut off, knows the last term it has saved,
\* and the vote it has saved in it: set_term_and_votedfor of both halves, and the
\* catching up in get_term_and_votedfor.
PromiseKept == \A g \in Group : cur[g] # Down => Keeps(promised[g], cur[g])

\* The disk holds what was promised: the storage last started with, and of the
\* mixed one both halves.
InFile(g) == kind[g] \in {"single", "mixed"} => Keeps(promised[g], file[g])
InDb(g) ==
    kind[g] \in {"mixed", "merged"} =>
        IF db[g] = Absent THEN Keeps(promised[g], Initial) ELSE Keeps(promised[g], db[g])
\* A set goes on from what was promised, also when it fails; a get writes what the
\* other half has.
CallKeeps(g) ==
    ~At(g, "none") =>
        IF call[g].boot
        THEN /\ Successor(kind[g], call[g].kind)
             /\ cur[g] = Down /\ ~At(g, "ok")
             /\ At(g, "save") => /\ call[g].kind = "mixed"
                                 /\ Keeps(promised[g], call[g].val)
             /\ At(g, "put") =>
                  \/ db[g] = Absent /\ call[g].val = Initial
                  \/ Keeps(promised[g], call[g].val)
        ELSE /\ call[g].kind = kind[g]
             /\ Keeps(promised[g], [call[g].val EXCEPT !.vote = Any])
             /\ ~At(g, "get")
             /\ At(g, "save") => kind[g] # "merged"
             /\ At(g, "put") => kind[g] # "single"
             /\ At(g, "ok") =>
                  /\ kind[g] # "merged" => file[g] = call[g].val
                  /\ kind[g] # "single" => db[g] = call[g].val
             /\ At(g, "put") /\ kind[g] = "mixed" => file[g] = call[g].val
Inv ==
    /\ TypeOK
    /\ PromiseKept
    /\ \A g \in Group : InFile(g) /\ InDb(g) /\ CallKeeps(g)
=============================================================================

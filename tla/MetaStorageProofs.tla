------------------------- MODULE MetaStorageProofs -------------------------
(***************************************************************************)
(* No node forgets the term and the vote that it has saved, for any groups *)
(* on a disk, any peers, terms and batches, and any sequence of failing    *)
(* writes, crashes and moves between the storages.                         *)
(***************************************************************************)
EXTENDS MetaStorage, TLAPS

Bounds == MaxTerm \in Nat \ {0}

\* The newer of two values keeps whatever one of them keeps: the choice of
\* get_term_and_votedfor of the mixed storage is safe whichever half is stale.
LEMMA NewerKeeps ==
    ASSUME Bounds, NEW p \in Meta, NEW a \in Meta, NEW b \in Meta,
           a # b, ~Conflict(a, b), Keeps(p, a) \/ Keeps(p, b)
    PROVE  Keeps(p, IF Newer(a, b) THEN a ELSE b)
<1>1. /\ p.term \in Int /\ a.term \in Int /\ b.term \in Int
      /\ a = [term |-> a.term, vote |-> a.vote]
      /\ b = [term |-> b.term, vote |-> b.vote]
  BY DEF Bounds, Meta
<1> QED
  BY <1>1 DEF Keeps, Newer, Conflict

\* What is kept without its vote is kept with any.
LEMMA KeepsAnyVote ==
    ASSUME Bounds, NEW p \in Meta, NEW v \in Meta, Keeps(p, [v EXCEPT !.vote = Any])
    PROVE  Keeps(p, v) /\ [v EXCEPT !.vote = Any] \in Meta
BY DEF Bounds, Keeps, Meta

\* What a save promises is kept by what it wrote.
LEMMA KeepsItself ==
    ASSUME NEW v \in Meta
    PROVE  Keeps(v, v)
BY DEF Keeps

\* The values that mark "none" are told apart from the others.
LEMMA Values ==
    ASSUME Bounds
    PROVE  /\ Initial \in Meta /\ Absent \notin Meta /\ Down \notin Meta
           /\ NoCall \in Call /\ NoCall.step = "none"
<1>1. Initial \in Meta /\ Absent \notin Meta /\ Down \notin Meta
  BY DEF Bounds, Meta, Initial, Absent, Down
<1>2. NoCall \in Call /\ NoCall.step = "none"
  BY <1>1 DEF NoCall, Call, Kinds
<1> QED
  BY <1>1, <1>2

\* It holds of empty storages.
LEMMA InitInv == Bounds /\ Init => Inv
<1> SUFFICES ASSUME Bounds, Init PROVE Inv
  OBVIOUS
<1>1. TypeOK
  BY Values DEF Init, TypeOK
<1>2. PromiseKept
  BY DEF Init, PromiseKept
<1>3. ASSUME NEW g \in Group PROVE InFile(g) /\ InDb(g) /\ CallKeeps(g)
  BY Values, KeepsItself DEF Init, InFile, InDb, CallKeeps, At
<1> QED
  BY <1>1, <1>2, <1>3 DEF Inv

-----------------------------------------------------------------------------
(* One lemma for each action. *)

\* What a step of node g leaves alone of another node h.
Same(h) == /\ file'[h] = file[h] /\ db'[h] = db[h] /\ kind'[h] = kind[h]
           /\ call'[h] = call[h] /\ cur'[h] = cur[h] /\ promised'[h] = promised[h]

Good(g) == /\ cur[g] # Down => Keeps(promised[g], cur[g])
           /\ InFile(g) /\ InDb(g) /\ CallKeeps(g)

\* The invariant, node by node.
LEMMA OfNodes == Inv <=> TypeOK /\ \A g \in Group : Good(g)
BY DEF Inv, Good, PromiseKept

\* A node that a step leaves alone stays good.
LEMMA SameGood ==
    ASSUME NEW h \in Group, Good(h), Same(h)
    PROVE  Good(h)'
BY DEF Same, Good, InFile, InDb, CallKeeps, At

\* A step of one node: its own part, and the types.
LEMMA OneNode ==
    ASSUME Inv, NEW g \in Group, TypeOK', Good(g)', \A h \in Group \ {g} : Same(h)
    PROVE  Inv'
<1>1. \A h \in Group : Good(h)'
  BY SameGood, OfNodes
<1>2. Inv' <=> TypeOK' /\ \A h \in Group : Good(h)'
  BY DEF Inv, Good, PromiseKept
<1> QED
  BY <1>1, <1>2

\* A node starts, or starts again.
LEMMA StartInv ==
    ASSUME Bounds, Inv, NEW g \in Group, NEW k \in Kinds, Start(g, k)
    PROVE  Inv'
<1> USE DEF Inv
<1>1. [NoCall EXCEPT !.step = "get", !.kind = k, !.boot = TRUE] \in Call
  BY Values DEF Call
<1>2. call' = [call EXCEPT ![g] = [NoCall EXCEPT !.step = "get", !.kind = k,
                                                 !.boot = TRUE]]
  BY DEF Start
<1>3. TypeOK'
  BY <1>1, <1>2 DEF Start, TypeOK
<1>4. /\ call'[g].step = "get" /\ call'[g].boot /\ call'[g].kind = k
  BY <1>2 DEF TypeOK, NoCall
<1>5. CallKeeps(g)'
  BY <1>4 DEF Start, CallKeeps, At
<1>6. Good(g)'
  BY <1>5 DEF Start, Good, InFile, InDb
<1>7. \A h \in Group \ {g} : Same(h)
  BY <1>2 DEF Start, Same, TypeOK
<1> QED
  BY <1>3, <1>6, <1>7, OneNode

\* A start ends with what the storage has.
LEMMA StartedInv ==
    ASSUME Bounds, Inv, NEW g \in Group, NEW val \in Meta, At(g, "get"),
           Started(g, val), Keeps(promised[g], val),
           call[g].kind \in {"single", "mixed"} => Keeps(promised[g], file[g]),
           call[g].kind \in {"mixed", "merged"} =>
                db[g] # Absent /\ Keeps(promised[g], db[g])
    PROVE  Inv'
<1> USE DEF Inv
<1>1. call[g].kind \in Kinds
  BY DEF TypeOK, Call
<1>2. TypeOK'
  BY <1>1, Values DEF Started, TypeOK
<1>3. /\ kind'[g] = call[g].kind /\ cur'[g] = val /\ call'[g] = NoCall
      /\ file'[g] = file[g] /\ db'[g] = db[g] /\ promised'[g] = promised[g]
  BY DEF Started, TypeOK
<1>4. Good(g)'
  BY <1>3, Values DEF Good, InFile, InDb, CallKeeps, At
<1>5. \A h \in Group \ {g} : Same(h)
  BY DEF Started, Same, TypeOK
<1> QED
  BY <1>2, <1>4, <1>5, OneNode

\* A node that is starting is down, and asks for a storage next to its last one.
LEMMA Getting ==
    ASSUME Bounds, Inv, NEW g \in Group, At(g, "get")
    PROVE  /\ call[g].boot /\ cur[g] = Down
           /\ Successor(kind[g], call[g].kind)
           /\ file[g] \in Meta /\ promised[g] \in Meta
           /\ kind[g] \in Kinds /\ call[g].kind \in Kinds
BY DEF Inv, CallKeeps, At, TypeOK, Call

\* The get of the file storage.
LEMMA GetSingleInv ==
    ASSUME Bounds, Inv, NEW g \in Group, GetSingle(g)
    PROVE  Inv'
<1>1. At(g, "get") /\ call[g].kind = "single" /\ Started(g, file[g])
  BY DEF GetSingle
<1>2. kind[g] \in {"single", "mixed"}
  BY <1>1, Getting DEF Successor, Kinds
<1>3. Keeps(promised[g], file[g])
  BY <1>2 DEF Inv, InFile
<1> QED
  BY <1>1, <1>3, Getting, StartedInv

\* The get of the merged storage.
LEMMA GetMergedInv ==
    ASSUME Bounds, Inv, NEW g \in Group, GetMerged(g)
    PROVE  Inv'
<1>1. At(g, "get") /\ call[g].kind = "merged" /\ db[g] # Absent /\ Started(g, db[g])
  BY DEF GetMerged
<1>2. kind[g] \in {"merged", "mixed"}
  BY <1>1, Getting DEF Successor, Kinds
<1>3. Keeps(promised[g], db[g]) /\ db[g] \in Meta
  BY <1>1, <1>2 DEF Inv, InDb, TypeOK
<1> QED
  BY <1>1, <1>3, Getting, StartedInv

\* A start that goes on to write val.
LEMMA BootWriteInv ==
    ASSUME Bounds, Inv, NEW g \in Group, NEW val \in Meta, At(g, "get"),
           NEW step \in {"save", "put"}, Go(g, step, val),
           step = "save" => call[g].kind = "mixed" /\ Keeps(promised[g], val),
           step = "put" => \/ db[g] = Absent /\ val = Initial
                           \/ Keeps(promised[g], val),
           UNCHANGED <<file, db, kind, cur, promised, bad>>
    PROVE  Inv'
<1> USE DEF Inv
<1>1. /\ call'[g].step = step /\ call'[g].val = val /\ call'[g].boot = call[g].boot
      /\ call'[g].kind = call[g].kind
  BY DEF Go, TypeOK, Call
<1>2. call'[g] \in Call
  BY DEF Go, TypeOK, Call
<1>3. TypeOK'
  BY <1>2 DEF Go, TypeOK
<1>4. CallKeeps(g)'
  BY <1>1, Getting DEF CallKeeps, At
<1>5. Good(g)'
  BY <1>4, Getting DEF Good, InFile, InDb
<1>6. \A h \in Group \ {g} : Same(h)
  BY DEF Go, Same, TypeOK
<1> QED
  BY <1>3, <1>5, <1>6, OneNode

\* The get that finds nothing and writes the initial values.
LEMMA PutInitialInv ==
    ASSUME Bounds, Inv, NEW g \in Group, PutInitial(g)
    PROVE  Inv'
BY BootWriteInv, Values DEF PutInitial

\* The mixed storage takes the newer of its two values.
LEMMA GetMixedInv ==
    ASSUME Bounds, Inv, NEW g \in Group, GetMixed(g)
    PROVE  Inv'
<1>1. /\ At(g, "get") /\ call[g].kind = "mixed"
      /\ file[g] \in Meta /\ db[g] \in Meta /\ promised[g] \in Meta
  BY Getting DEF GetMixed, Inv, TypeOK
<1>2. db[g] # Absent
  BY DEF GetMixed
<1>3. Keeps(promised[g], file[g]) \/ Keeps(promised[g], db[g])
  BY <1>1, <1>2, Getting DEF Inv, InFile, InDb, Kinds
<1>4. CASE file[g] = db[g] /\ Started(g, file[g])
  BY <1>1, <1>2, <1>3, <1>4, StartedInv
<1>5. CASE /\ Stopped(g) /\ bad' = TRUE
           /\ UNCHANGED <<file, db, kind, promised>>
  <2>1. TypeOK'
    BY <1>5, Values DEF Inv, TypeOK, Stopped
  <2>2. call'[g] = NoCall /\ cur'[g] = Down
    BY <1>5 DEF Inv, TypeOK, Stopped
  <2>3. Good(g)'
    BY <1>5, <2>2, Values DEF Inv, Good, InFile, InDb, CallKeeps, At
  <2>4. \A h \in Group \ {g} : Same(h)
    BY <1>5 DEF Inv, TypeOK, Same, Stopped
  <2> QED
    BY <2>1, <2>3, <2>4, OneNode
<1>6. CASE /\ file[g] # db[g] /\ ~Conflict(file[g], db[g])
           /\ IF Newer(file[g], db[g]) THEN Go(g, "put", file[g])
                                       ELSE Go(g, "save", db[g])
           /\ UNCHANGED <<file, db, kind, cur, promised, bad>>
  <2>1. Keeps(promised[g], IF Newer(file[g], db[g]) THEN file[g] ELSE db[g])
    BY <1>1, <1>3, <1>6, NewerKeeps
  <2>2. CASE Newer(file[g], db[g])
    BY <1>1, <1>6, <2>1, <2>2, BootWriteInv
  <2>3. CASE ~Newer(file[g], db[g])
    BY <1>1, <1>6, <2>1, <2>3, BootWriteInv
  <2> QED
    BY <2>2, <2>3
<1> QED
  BY <1>4, <1>5, <1>6 DEF GetMixed

\* A get that fails: the node does not start.
LEMMA GetFailsInv ==
    ASSUME Bounds, Inv, NEW g \in Group, GetFails(g)
    PROVE  Inv'
<1> USE DEF Inv
<1>1. call[g] \in Call
  BY DEF TypeOK
<1>2. /\ call'[g] \in Call /\ call'[g].step = "failed" /\ call'[g].boot = call[g].boot
      /\ call'[g].kind = call[g].kind
  BY <1>1 DEF GetFails, TypeOK, Call
<1>3. TypeOK'
  BY <1>2 DEF GetFails, TypeOK
<1>4. CallKeeps(g)'
  BY <1>2, Getting DEF GetFails, CallKeeps, At
<1>5. Good(g)'
  BY <1>4, Getting DEF GetFails, Good, InFile, InDb
<1>6. \A h \in Group \ {g} : Same(h)
  BY DEF GetFails, Same, TypeOK
<1> QED
  BY <1>3, <1>5, <1>6, OneNode

\* A set of any of the three storages.
LEMMA SetInv ==
    ASSUME Bounds, Inv, NEW g \in Group, NEW val \in Meta, Set(g, val)
    PROVE  Inv'
<1> USE DEF Inv
<1> DEFINE c == [step |-> IF kind[g] = "merged" THEN "put" ELSE "save",
                 kind |-> kind[g], boot |-> FALSE, val |-> val]
<1>1. c \in Call
  BY DEF Call, TypeOK
<1>2. call' = [call EXCEPT ![g] = c] /\ call'[g] = c
  BY DEF Set, TypeOK
<1> HIDE DEF c
<1>3. TypeOK'
  BY <1>1, <1>2 DEF Set, TypeOK
<1>4. /\ cur[g] \in Meta /\ promised[g] \in Meta
      /\ Keeps(promised[g], cur[g])
  BY DEF Set, TypeOK, PromiseKept
<1>5. Keeps(promised[g], [val EXCEPT !.vote = Any])
  BY <1>4 DEF Set, Keeps, Meta, Bounds
<1>6. c.step = (IF kind[g] = "merged" THEN "put" ELSE "save") /\ c.kind = kind[g]
      /\ c.boot = FALSE /\ c.val = val
  BY DEF c
<1>7. kind[g] = "mixed" => c.step = "save"
  BY <1>6
<1>8. CallKeeps(g)'
  BY <1>2, <1>5, <1>6, <1>7 DEF Set, CallKeeps, At
<1>9. Good(g)'
  BY <1>4, <1>8 DEF Set, Good, InFile, InDb
<1>10. \A h \in Group \ {g} : Same(h)
  BY <1>2 DEF Set, Same, TypeOK
<1> QED
  BY <1>3, <1>9, <1>10, OneNode

\* The file is written before the database.
LEMMA SaveInv ==
    ASSUME Bounds, Inv, NEW g \in Group, Save(g)
    PROVE  Inv'
<1> USE DEF Inv
<1>1. /\ At(g, "save") /\ call[g] \in Call /\ call[g].val \in Meta
      /\ call[g].kind \in Kinds /\ promised[g] \in Meta
  BY DEF Save, TypeOK, Call
<1>2. Keeps(promised[g], call[g].val)
  BY <1>1, KeepsAnyVote DEF CallKeeps, At
<1>3. CASE file' = [file EXCEPT ![g] = call[g].val]
           /\ call' = [call EXCEPT ![g].step = AfterSave(call[g])]
  <2>1. call'[g] \in Call
    BY <1>1, <1>3 DEF AfterSave, Call, TypeOK
  <2>2. TypeOK'
    BY <1>1, <1>3, <2>1 DEF Save, TypeOK
  <2>3. /\ call'[g].step = AfterSave(call[g]) /\ call'[g].val = call[g].val
        /\ call'[g].kind = call[g].kind /\ call'[g].boot = call[g].boot
        /\ file'[g] = call[g].val
    BY <1>1, <1>3 DEF TypeOK, Call
  <2>4. CallKeeps(g)'
    BY <1>1, <1>2, <2>3 DEF Save, CallKeeps, At, AfterSave, Kinds
  <2>5. Good(g)'
    BY <1>2, <2>3, <2>4 DEF Save, Good, InFile, InDb, PromiseKept
  <2>6. \A h \in Group \ {g} : Same(h)
    BY <1>3 DEF Save, Same, TypeOK
  <2> QED
    BY <2>2, <2>5, <2>6, OneNode
<1>4. CASE /\ call' = [call EXCEPT ![g].step = "failed"]
           /\ UNCHANGED file
  <2>1. call'[g] \in Call
    BY <1>1, <1>4 DEF Call, TypeOK
  <2>2. TypeOK'
    BY <1>1, <1>4, <2>1 DEF Save, TypeOK
  <2>3. /\ call'[g].step = "failed" /\ call'[g].val = call[g].val
        /\ call'[g].kind = call[g].kind /\ call'[g].boot = call[g].boot
    BY <1>1, <1>4 DEF TypeOK, Call
  <2>4. CallKeeps(g)'
    BY <1>1, <2>3 DEF Save, CallKeeps, At
  <2>5. Good(g)'
    BY <1>4, <2>4 DEF Save, Good, InFile, InDb, PromiseKept
  <2>6. \A h \in Group \ {g} : Same(h)
    BY <1>4 DEF Save, Same, TypeOK
  <2> QED
    BY <2>2, <2>5, <2>6, OneNode
<1> QED
  BY <1>3, <1>4 DEF Save

\* A batch writes for many nodes at once.
LEMMA RunTasksInv ==
    ASSUME Bounds, Inv, NEW B \in SUBSET Group, RunTasks(B)
    PROVE  Inv'
<1> USE DEF Inv
<1> PICK ok \in BOOLEAN, written \in BOOLEAN :
      /\ ok => written
      /\ db' = IF written THEN [g \in Group |-> IF g \in B THEN call[g].val ELSE db[g]]
               ELSE db
      /\ call' = [g \in Group |->
                    IF g \in B
                    THEN [call[g] EXCEPT !.step = IF ok THEN AfterPut(call[g])
                                                        ELSE "failed"]
                    ELSE call[g]]
  BY DEF RunTasks
<1>1. ASSUME NEW g \in Group
      PROVE  call[g] \in Call /\ call[g].val \in Meta /\ call'[g] \in Call
             /\ promised[g] \in Meta /\ call[g].kind \in Kinds /\ kind[g] \in Kinds
  BY DEF TypeOK, Call, AfterPut
<1>2. TypeOK'
  BY <1>1 DEF RunTasks, TypeOK
<1>3. ASSUME NEW g \in Group, g \notin B
      PROVE  Good(g)'
  <2>1. Same(g)
    BY <1>3 DEF RunTasks, Same, TypeOK
  <2> QED
    BY <2>1, SameGood, OfNodes
<1>4. ASSUME NEW g \in Group, g \in B
      PROVE  Good(g)'
  <2>1. /\ call'[g].val = call[g].val /\ call'[g].kind = call[g].kind
        /\ call'[g].boot = call[g].boot
        /\ call'[g].step = IF ok THEN AfterPut(call[g]) ELSE "failed"
        /\ db'[g] = IF written THEN call[g].val ELSE db[g]
    BY <1>1, <1>4 DEF Call
  <2>2. At(g, "put")
    BY <1>4 DEF RunTasks
  <2>3. Keeps(promised[g], call[g].val) \/ (db[g] = Absent /\ call[g].val = Initial)
    BY <1>1, <2>2, KeepsAnyVote DEF CallKeeps, At
  <2>4. CallKeeps(g)'
    <3>1. CASE call[g].boot
      BY <2>1, <2>2, <3>1 DEF RunTasks, CallKeeps, At, AfterPut
    <3>2. CASE ~call[g].boot
      BY <1>1, <2>1, <2>2, <3>2 DEF RunTasks, CallKeeps, At, AfterPut, Kinds
    <3> QED
      BY <3>1, <3>2
  <2>5. InDb(g)'
    <3>1. CASE written
      BY <1>1, <2>1, <2>3, <3>1, Values DEF RunTasks, InDb
    <3>2. CASE ~written
      BY <2>1, <3>2 DEF RunTasks, InDb
    <3> QED
      BY <3>1, <3>2
  <2> QED
    BY <2>4, <2>5 DEF RunTasks, Good, InFile, PromiseKept
<1>5. \A g \in Group : Good(g)'
  BY <1>3, <1>4
<1>6. Inv' <=> TypeOK' /\ \A h \in Group : Good(h)'
  BY DEF Good, PromiseKept
<1> QED
  BY <1>2, <1>5, <1>6

\* The save is promised once all its halves have it.
LEMMA SavedInv ==
    ASSUME Bounds, Inv, NEW g \in Group, Saved(g)
    PROVE  Inv'
<1> USE DEF Inv
<1>1. At(g, "ok") /\ call[g].val \in Meta /\ kind[g] \in Kinds
  BY DEF Saved, TypeOK, Call
<1>2. TypeOK'
  BY <1>1, Values DEF Saved, TypeOK
<1>3. /\ cur'[g] = call[g].val /\ promised'[g] = call[g].val /\ call'[g] = NoCall
      /\ file'[g] = file[g] /\ db'[g] = db[g] /\ kind'[g] = kind[g]
  BY DEF Saved, TypeOK
<1>4. /\ kind[g] # "merged" => file[g] = call[g].val
      /\ kind[g] # "single" => db[g] = call[g].val
  BY <1>1 DEF CallKeeps, At
<1>5. Good(g)'
  BY <1>1, <1>3, <1>4, KeepsItself, Values DEF Good, InFile, InDb, CallKeeps, At
<1>6. \A h \in Group \ {g} : Same(h)
  BY DEF Saved, Same, TypeOK
<1> QED
  BY <1>2, <1>5, <1>6, OneNode

\* A write that fails, and may be there all the same.
LEMMA SaveFailedInv ==
    ASSUME Bounds, Inv, NEW g \in Group, SaveFailed(g)
    PROVE  Inv'
<1> USE DEF Inv
<1>1. /\ At(g, "failed") /\ call[g].val \in Meta /\ promised[g] \in Meta
      /\ Keeps(promised[g], [call[g].val EXCEPT !.vote = Any])
  BY DEF SaveFailed, CallKeeps, At, TypeOK, Call
<1>2. [call[g].val EXCEPT !.vote = Any] \in Meta
  BY <1>1, KeepsAnyVote
<1>3. TypeOK'
  BY <1>2, Values DEF SaveFailed, TypeOK
<1>4. /\ cur'[g] = [call[g].val EXCEPT !.vote = Any] /\ call'[g] = NoCall
  BY DEF SaveFailed, TypeOK
<1>5. Good(g)'
  BY <1>1, <1>4, Values DEF SaveFailed, Good, InFile, InDb, CallKeeps, At
<1>6. \A h \in Group \ {g} : Same(h)
  BY DEF SaveFailed, Same, TypeOK
<1> QED
  BY <1>3, <1>5, <1>6, OneNode

\* A node that stops leaves the disk alone.
LEMMA StoppedInv ==
    ASSUME Bounds, Inv, NEW g \in Group, Stopped(g),
           UNCHANGED <<file, db, kind, promised, bad>>
    PROVE  Inv'
<1> USE DEF Inv
<1>1. TypeOK'
  BY Values DEF Stopped, TypeOK
<1>2. call'[g] = NoCall /\ cur'[g] = Down
  BY DEF Stopped, TypeOK
<1>3. Good(g)'
  BY <1>2, Values DEF Good, InFile, InDb, CallKeeps, At
<1>4. \A h \in Group \ {g} : Same(h)
  BY DEF Stopped, Same, TypeOK
<1> QED
  BY <1>1, <1>3, <1>4, OneNode

\* The process crashes.
LEMMA CrashInv ==
    ASSUME Bounds, Inv, Crash
    PROVE  Inv'
<1> USE DEF Inv
<1>1. TypeOK'
  BY Values DEF Crash, TypeOK
<1>2. PromiseKept'
  BY DEF Crash, PromiseKept
<1>3. ASSUME NEW g \in Group PROVE InFile(g)' /\ InDb(g)' /\ CallKeeps(g)'
  BY Values DEF Crash, InFile, InDb, CallKeeps, At
<1> QED
  BY <1>1, <1>2, <1>3

\* Every step keeps the invariant.
LEMMA StepInv == Bounds /\ Inv /\ [Next]_vars => Inv'
<1> SUFFICES ASSUME Bounds, Inv, [Next]_vars PROVE Inv'
  OBVIOUS
<1>1. ASSUME NEW g \in Group, Step(g) PROVE Inv'
  <2>1. ASSUME NEW k \in Kinds, Start(g, k) PROVE Inv'
    BY <2>1, StartInv
  <2>2. ASSUME NEW val \in Meta, Set(g, val) PROVE Inv'
    BY <2>2, SetInv
  <2>3. CASE GetSingle(g) \/ PutInitial(g) \/ GetMerged(g) \/ GetMixed(g) \/ GetFails(g)
    BY <2>3, GetSingleInv, PutInitialInv, GetMergedInv, GetMixedInv, GetFailsInv
  <2>4. CASE Save(g) \/ Saved(g) \/ SaveFailed(g)
    BY <2>4, SaveInv, SavedInv, SaveFailedInv
  <2>5. CASE StartFailed(g) \/ Stop(g)
    BY <2>5, StoppedInv DEF StartFailed, Stop
  <2> QED
    BY <1>1, <2>1, <2>2, <2>3, <2>4, <2>5 DEF Step
<1>2. ASSUME NEW B \in SUBSET Group, RunTasks(B) PROVE Inv'
  BY <1>2, RunTasksInv
<1>3. CASE Crash
  BY <1>3, CrashInv
<1>4. CASE UNCHANGED vars
  BY <1>4 DEF vars, Inv, TypeOK, PromiseKept, InFile, InDb, CallKeeps, At
<1> QED
  BY <1>1, <1>2, <1>3, <1>4 DEF Next

\* The term and vote of a node that runs are never behind what it has saved, in
\* whatever storage: what Election assumes of its durable record.
THEOREM VoteSurvivesMigration ==
    ASSUME Bounds
    PROVE  Spec => []PromiseKept
<1>1. Init => Inv
  BY InitInv
<1>2. Inv /\ [Next]_vars => Inv'
  BY StepInv
<1>3. Inv => PromiseKept
  BY DEF Inv
<1> QED
  BY <1>1, <1>2, <1>3, PTL DEF Spec
=============================================================================

------------------------ MODULE CommitPipelineProofs ------------------------
(***************************************************************************)
(* Proofs about CommitPipeline: its types and that no CHECK fails, that    *)
(* what is called committed has been chosen, that the state machine is     *)
(* given the chosen entries in order, that closures run once and succeed   *)
(* only for what has been applied, and that notices of roles are fresh.    *)
(***************************************************************************)
EXTENDS CommitPipeline, FiniteSetTheorems, SequenceTheorems,
        WellFoundedInduction, TLAPS

-----------------------------------------------------------------------------
(* The inductive invariant.                                                *)

\* The logs l and m have the same first k entries.
Agree(l, m, k) ==
    /\ k <= Len(l) /\ k <= Len(m)
    /\ \A j \in 1..k : l[j] = m[j]

\* What is committed up to a is in the log.
Known(a) == Agree(chosen, log, a)

Active == node.state \in {"LEADER", "TRANSFERRING", "FOLLOWER"}

\* The elements of the sequences and sets of the model.
Closure == [kind: {"task", "conf"}, n: Nat]
StableClosure == [op: {"leader"}, first: Nat] \union
                 [op: {"follower"}, term: Nat, committed: Nat]
Call == [op: {"set_committed", "on_committed"}, arg: Nat]
Ballot == SUBSET (Peers \union {Self})
FsmTask == [type: {"LEADER_STOP", "LEADER_START", "START_FOLLOWING",
                   "STOP_FOLLOWING", "COMMITTED", "SNAPSHOT_LOAD",
                   "SNAPSHOT_SAVE", "ERROR"}, arg: Nat]
Committing == [type: {"COMMITTED"}, upto: Nat, first: Nat, done: Seq(Closure),
               index: Nat]
TaskRecord == [index: Nat, term: Nat, expected: Int, ran: Nat, ok: BOOLEAN]

\* The types of all variables, with those that TypeOK does not need.
NodeState == [state: {"LEADER", "TRANSFERRING", "FOLLOWER", "ERROR", "SHUTTING",
                      "SHUTDOWN"},
              term: 1..MaxTerm, leader: {"none", Self, "other"}, busy: BOOLEAN]
BoxState == [pending: Nat, ballots: Seq(Ballot), committed: Nat]
ClosureState == [first: Nat, queue: Seq(Closure)]
FsmState == [queue: Seq(FsmTask), cur: Committing \union {Idle}, applied: Nat,
             term: Nat, applied_id: Nat, error: BOOLEAN, stopped: BOOLEAN]
UserState == [applied: Logs, leading: Nat, following: Nat, torn: BOOLEAN]
TypeInv ==
    /\ TypeOK /\ failed = {}
    /\ box \in BoxState
    /\ closures \in ClosureState
    /\ stable \in Seq(StableClosure)
    /\ calls \subseteq Call
    /\ fsm \in FsmState
    /\ user \in UserState
    /\ tasks \in Seq(TaskRecord)

\* The terms of a log do not fall and are at most t.
Sorted(l) == \A i, j \in 1..Len(l) : i <= j => l[i].term <= l[j].term
UpTo(l, t) == \A i \in 1..Len(l) : l[i].term <= t

\* What a sequence has in it.
Elements(q) == {q[i] : i \in 1..Len(q)}

\* An active node has all that is chosen in its log, but for one entry that a
\* snapshot has which is about to be loaded.
LogInv ==
    /\ Sorted(log) /\ Sorted(chosen)
    /\ UpTo(log, node.term) /\ UpTo(chosen, node.term)
    /\ \A t \in Elements(fsm.queue) :
          t.type = "SNAPSHOT_LOAD" => t.arg \in 1..Len(chosen)
    /\ Active =>
         \/ Known(Len(chosen))
         \/ /\ node.state = "FOLLOWER" /\ Len(chosen) > 0 /\ Known(Len(chosen) - 1)
            /\ ApplyTask("SNAPSHOT_LOAD", Len(chosen)) \in Elements(fsm.queue)

\* Whatever is called committed, wherever the call has got to, is known; the
\* FSMCaller is told of nothing else.
KnownInv ==
    /\ Known(box.committed)
    /\ \A c \in calls :
          /\ c.op = "set_committed" => Known(c.arg)
          /\ c.op = "on_committed" => c.arg <= box.committed
          /\ Leading /\ c.op = "set_committed" => c.arg < box.pending
    /\ \A c \in Elements(stable) : c.op = "follower" => Known(c.committed)
    /\ \A t \in Elements(fsm.queue) : t.type = "COMMITTED" => t.arg <= box.committed
    /\ Cur.type = "COMMITTED" => Cur.upto <= box.committed
    /\ Leading => box.committed < box.pending

\* Who has stored the entry i, by what the peers and the own disk have.
Holders(has, own, i) ==
    {p \in Peers : has[p] >= i} \union (IF own >= i THEN {Self} ELSE {})

\* A leader's ballots are for entries of its term, from pending on, and are
\* granted by those only who have stored them; the disk queue has its entries
\* one by one.
BallotInv ==
    Leading =>
       /\ box.pending >= 1
       /\ \A i \in box.pending..Len(log) : log[i].term = node.term
       /\ Len(stable) <= Len(log)
       /\ \A k \in 1..Len(stable) :
             stable[k].op = "leader" /\ stable[k].first = Len(log) - Len(stable) + k
       /\ \A i \in 1..Len(box.ballots) :
             box.ballots[i] \subseteq
                Holders(stored, Len(log) - Len(stable), box.pending + i - 1)

\* What the state machine has been given, against the indexes of the FSMCaller.
FsmInv ==
    /\ fsm.stopped \/ fsm.error => ~Active
    /\ fsm.error => Cur = Idle
    /\ fsm.applied_id <= Len(user.applied)
    /\ ~user.torn
    /\ Agree(user.applied, chosen, Len(user.applied))
    /\ ~fsm.error => fsm.applied_id <= fsm.applied
    /\ ~fsm.error /\ Cur = Idle =>
          /\ Len(user.applied) = fsm.applied
          /\ fsm.term = Id(user.applied, fsm.applied).term
    /\ Cur.type = "COMMITTED" =>
          /\ Len(user.applied) = Cur.index - 1
          /\ Cur.index \in 1..Cur.upto + 1
          /\ fsm.applied < Cur.upto /\ fsm.applied < Cur.index

\* The closure c belongs to the entry i of the log l: it is that of a task of ts
\* which has not run, or of the configuration entry of a leader.
Fits(c, i, l, ts) ==
    /\ i \in 1..Len(l)
    /\ c.kind = "task" =>
          /\ c.n \in 1..Len(ts) /\ ts[c.n].ran = 0 /\ ts[c.n].index = i
          /\ l[i] = [term |-> ts[c.n].term, type |-> "data"]
          /\ ts[c.n].expected \in {-1, ts[c.n].term}
    /\ c.kind = "conf" => l[i] = [term |-> c.n, type |-> "conf"]

\* The closures that are kept, with the indexes of their entries: in the closure
\* queue, and with the FSMCaller until they are run.
Waiting == {[i |-> closures.first + j - 1, c |-> closures.queue[j]] :
              j \in 1..Len(closures.queue)}
Popped == IF Cur.type = "COMMITTED"
          THEN {[i |-> j, c |-> Cur.done[j - Cur.first + 1]] :
                  j \in {k \in Cur.first..Cur.upto : Cur.index <= k}}
          ELSE {}

\* Every closure belongs to its entry; those that have been popped come before
\* those that have not; a leader has at most one configuration entry of its
\* own, and is busy until its closure is popped.
TaskInv ==
    /\ AckedOnceApplied
    /\ \A h \in Waiting \union Popped : Fits(h.c, h.i, log, tasks)
    /\ \A h \in Waiting : h.c.kind = "conf" =>
          node.state = "LEADER" /\ node.busy /\ h.c.n = node.term
    /\ Cur.type = "COMMITTED" =>
          /\ Cur.first \in 1..Cur.upto + 1 /\ Len(Cur.done) = Cur.upto - Cur.first + 1
          /\ Leading => Cur.upto < closures.first
    /\ Leading => \A i, j \in 1..Len(log) :
          log[i] = [term |-> node.term, type |-> "conf"] /\ log[j] = log[i] => i = j

\* The last task of the queue q with one of the types T, if there is one.
NoneOf(q, T) == \A i \in 1..Len(q) : q[i].type \notin T
Ends(q, T) ==
    {q[i] : i \in {j \in 1..Len(q) :
       q[j].type \in T /\ \A k \in j + 1..Len(q) : q[k].type \notin T}}

LeaderNotices == {"LEADER_STOP", "LEADER_START"}
FollowerNotices == {"STOP_FOLLOWING", "START_FOLLOWING"}
Leads(t) == node.state = "LEADER" /\ node.term = t
Follows(t) == node.leader = "other" /\ node.term = t

\* Where the notices under way end, the state machine is told the truth; it is
\* told of a new leader also by its configuration entry.
NoticeInv ==
    ~fsm.stopped =>
       /\ \A t \in Ends(fsm.queue, LeaderNotices) :
             t.type = "LEADER_START" => Leads(t.arg)
       /\ NoneOf(fsm.queue, LeaderNotices) =>
             /\ user.leading # 0 => Leads(user.leading)
             /\ \A h \in Popped : h.c.kind = "conf" => Leads(h.c.n)
       /\ \A t \in Ends(fsm.queue, FollowerNotices) :
             t.type = "START_FOLLOWING" => Follows(t.arg)
       /\ NoneOf(fsm.queue, FollowerNotices) =>
             (user.following # 0 => Follows(user.following))

\* An answer that waits is of a peer that has stored the entries of this leadership,
\* or about entries that are not pending any more.
LateInv ==
    \A a \in late :
       /\ a.first \in Nat /\ a.last \in Nat /\ a.peer \in Peers
       /\ box.pending # 0 => a.last < box.pending \/ stored[a.peer] >= a.last

\* From the log to the state machine: each part is about one stage of the
\* pipeline and what the stage before it may hand on.
IInv ==
    /\ TypeInv
    /\ LogInv /\ KnownInv /\ BallotInv /\ FsmInv /\ TaskInv /\ NoticeInv

-----------------------------------------------------------------------------
(* Sequences.                                                              *)

\* The length, the elements and the emptiness of a sequence.
LEMMA SeqFacts ==
    ASSUME NEW S, NEW q \in Seq(S)
    PROVE  /\ Len(q) \in Nat /\ \A i \in 1..Len(q) : q[i] \in S
           /\ q = <<>> <=> Len(q) = 0
           /\ Elements(q) \subseteq S
<1>1. Len(q) \in Nat /\ \A i \in 1..Len(q) : q[i] \in S
  BY LenProperties, ElementOfSeq
<1>2. q = <<>> <=> Len(q) = 0
  BY EmptySeq
<1> QED BY <1>1, <1>2 DEF Elements

\* The empty sequence, and one of one element.
LEMMA ShortSeqs ==
    ASSUME NEW S, NEW e \in S
    PROVE  /\ <<>> \in Seq(S) /\ Len(<<>>) = 0 /\ Elements(<<>>) = {}
           /\ <<e>> \in Seq(S) /\ Len(<<e>>) = 1 /\ <<e>>[1] = e
           /\ Elements(<<e>>) = {e}
<1>1. <<>> \in Seq(S) /\ Len(<<>>) = 0
  BY EmptySeq
<1>2. <<e>> \in Seq(S) /\ Len(<<e>>) = 1 /\ <<e>>[1] = e
  OBVIOUS
<1>3. Elements(<<>>) = {}
  BY <1>1 DEF Elements
<1>4. Elements(<<e>>) = {e}
  <2>1. 1..1 = {1}
    OBVIOUS
  <2>2. Elements(<<e>>) = {<<e>>[i] : i \in {1}}
    BY <1>2, <2>1 DEF Elements
  <2> QED BY <1>2, <2>2
<1> QED BY <1>1, <1>2, <1>3, <1>4

\* One element more.
LEMMA AppendElements ==
    ASSUME NEW S, NEW q \in Seq(S), NEW e \in S
    PROVE  /\ Append(q, e) \in Seq(S) /\ Len(Append(q, e)) = Len(q) + 1
           /\ \A i \in 1..Len(q) : Append(q, e)[i] = q[i]
           /\ Append(q, e)[Len(q) + 1] = e
           /\ Elements(Append(q, e)) = Elements(q) \union {e}
<1>1. /\ Append(q, e) \in Seq(S) /\ Len(Append(q, e)) = Len(q) + 1
      /\ \A i \in 1..Len(q) : Append(q, e)[i] = q[i]
      /\ Append(q, e)[Len(q) + 1] = e
  BY AppendProperties
<1>2. Len(q) \in Nat
  BY SeqFacts
<1>3. Elements(Append(q, e)) \subseteq Elements(q) \union {e}
  BY <1>1, <1>2 DEF Elements
<1>4. Elements(q) \subseteq Elements(Append(q, e))
  <2> SUFFICES ASSUME NEW i \in 1..Len(q) PROVE q[i] \in Elements(Append(q, e))
    BY DEF Elements
  <2>1. i \in 1..Len(Append(q, e)) /\ q[i] = Append(q, e)[i]
    BY <1>1, <1>2
  <2> QED BY <2>1 DEF Elements
<1>5. e \in Elements(Append(q, e))
  <2>1. Len(q) + 1 \in 1..Len(Append(q, e))
    BY <1>1, <1>2
  <2> QED BY <1>1, <2>1 DEF Elements
<1> QED BY <1>1, <1>3, <1>4, <1>5

\* One sequence after another.
LEMMA ConcatElements ==
    ASSUME NEW S, NEW q \in Seq(S), NEW r \in Seq(S)
    PROVE  /\ q \o r \in Seq(S) /\ Len(q \o r) = Len(q) + Len(r)
           /\ \A i \in 1..Len(q) : (q \o r)[i] = q[i]
           /\ \A i \in 1..Len(r) : (q \o r)[Len(q) + i] = r[i]
           /\ Elements(q \o r) = Elements(q) \union Elements(r)
<1>1. /\ q \o r \in Seq(S) /\ Len(q \o r) = Len(q) + Len(r)
      /\ \A i \in 1..Len(q) + Len(r) :
            (q \o r)[i] = IF i <= Len(q) THEN q[i] ELSE r[i - Len(q)]
  BY ConcatProperties
<1>2. Len(q) \in Nat /\ Len(r) \in Nat
  BY SeqFacts
<1>3. \A i \in 1..Len(q) : i \in 1..Len(q \o r) /\ (q \o r)[i] = q[i]
  BY <1>1, <1>2
<1>4. ASSUME NEW i \in 1..Len(r)
      PROVE  Len(q) + i \in 1..Len(q \o r) /\ (q \o r)[Len(q) + i] = r[i]
  <2>1. Len(q) + i \in 1..Len(q) + Len(r) /\ ~(Len(q) + i <= Len(q))
        /\ Len(q) + i - Len(q) = i
    BY <1>2
  <2> QED BY <1>1, <2>1
<1>5. Elements(q \o r) \subseteq Elements(q) \union Elements(r)
  <2> SUFFICES ASSUME NEW i \in 1..Len(q \o r)
               PROVE  (q \o r)[i] \in Elements(q) \union Elements(r)
    BY DEF Elements
  <2>1. CASE i <= Len(q)
    <3>1. i \in 1..Len(q)
      BY <2>1, <1>2
    <3> QED BY <3>1, <1>3 DEF Elements
  <2>2. CASE ~(i <= Len(q))
    <3>1. i - Len(q) \in 1..Len(r) /\ i \in 1..Len(q) + Len(r)
      BY <2>2, <1>1, <1>2
    <3>2. (q \o r)[i] = r[i - Len(q)]
      BY <1>1, <2>2, <3>1
    <3> QED BY <3>1, <3>2 DEF Elements
  <2> QED BY <2>1, <2>2
<1>6. Elements(q) \subseteq Elements(q \o r)
  BY <1>3 DEF Elements
<1>7. Elements(r) \subseteq Elements(q \o r)
  BY <1>4 DEF Elements
<1> QED BY <1>1, <1>3, <1>4, <1>5, <1>6, <1>7

\* A part of a sequence.
LEMMA PartElements ==
    ASSUME NEW S, NEW q \in Seq(S), NEW m \in 1..Len(q) + 1, NEW n \in m - 1..Len(q)
    PROVE  /\ SubSeq(q, m, n) \in Seq(S) /\ Len(SubSeq(q, m, n)) = n - m + 1
           /\ \A i \in 1..n - m + 1 : SubSeq(q, m, n)[i] = q[m + i - 1]
           /\ Elements(SubSeq(q, m, n)) = {q[i] : i \in m..n}
           /\ Elements(SubSeq(q, m, n)) \subseteq Elements(q)
<1>1. Len(q) \in Nat /\ \A i \in 1..Len(q) : q[i] \in S
  BY SeqFacts
<1>2. m \in Int /\ n \in Int /\ \A i \in m..n : i \in 1..Len(q) /\ q[i] \in S
  BY <1>1
<1>3. /\ SubSeq(q, m, n) \in Seq(S)
      /\ Len(SubSeq(q, m, n)) = IF m <= n THEN n - m + 1 ELSE 0
      /\ \A i \in 1..n - m + 1 : SubSeq(q, m, n)[i] = q[m + i - 1]
  BY <1>2, SubSeqProperties
<1>4. Len(SubSeq(q, m, n)) = n - m + 1
  BY <1>1, <1>3
<1>5. Elements(SubSeq(q, m, n)) \subseteq {q[i] : i \in m..n}
  <2> SUFFICES ASSUME NEW i \in 1..n - m + 1 PROVE SubSeq(q, m, n)[i] \in {q[k] : k \in m..n}
    BY <1>4 DEF Elements
  <2>1. m + i - 1 \in m..n
    BY <1>1
  <2> QED BY <2>1, <1>3
<1>6. {q[i] : i \in m..n} \subseteq Elements(SubSeq(q, m, n))
  <2> SUFFICES ASSUME NEW i \in m..n PROVE q[i] \in Elements(SubSeq(q, m, n))
    OBVIOUS
  <2>1. i - m + 1 \in 1..n - m + 1 /\ m + (i - m + 1) - 1 = i
    BY <1>1
  <2>2. SubSeq(q, m, n)[i - m + 1] = q[i]
    BY <1>3, <2>1
  <2> QED BY <1>4, <2>1, <2>2 DEF Elements
<1>7. {q[i] : i \in m..n} \subseteq Elements(q)
  BY <1>2 DEF Elements
<1> QED BY <1>3, <1>4, <1>5, <1>6, <1>7

\* The first element and the rest.
LEMMA TailElements ==
    ASSUME NEW S, NEW q \in Seq(S), q # <<>>
    PROVE  /\ Head(q) \in S /\ Head(q) = q[1]
           /\ Tail(q) \in Seq(S) /\ Len(q) \in Nat \ {0} /\ Len(Tail(q)) = Len(q) - 1
           /\ \A i \in 1..Len(q) - 1 : Tail(q)[i] = q[i + 1]
           /\ Elements(q) = {Head(q)} \union Elements(Tail(q))
<1>1. Len(q) \in Nat \ {0}
  BY EmptySeq
<1>2. /\ Head(q) \in S /\ Tail(q) \in Seq(S) /\ Len(Tail(q)) = Len(q) - 1
      /\ \A i \in 1..Len(Tail(q)) : Tail(q)[i] = q[i + 1]
  BY HeadTailProperties
<1>3. Head(q) = q[1]
  OBVIOUS
<1>4. Elements(q) \subseteq {Head(q)} \union Elements(Tail(q))
  <2> SUFFICES ASSUME NEW i \in 1..Len(q), i # 1 PROVE q[i] \in Elements(Tail(q))
    BY <1>3 DEF Elements
  <2>1. i - 1 \in 1..Len(Tail(q)) /\ (i - 1) + 1 = i
    BY <1>1, <1>2
  <2>2. Tail(q)[i - 1] = q[i]
    BY <1>2, <2>1
  <2> QED BY <2>1, <2>2 DEF Elements
<1>5. Elements(Tail(q)) \subseteq Elements(q)
  <2> SUFFICES ASSUME NEW i \in 1..Len(Tail(q)) PROVE Tail(q)[i] \in Elements(q)
    BY DEF Elements
  <2>1. i + 1 \in 1..Len(q)
    BY <1>1, <1>2
  <2> QED BY <1>2, <2>1 DEF Elements
<1>6. Head(q) \in Elements(q)
  <2>1. 1 \in 1..Len(q)
    BY <1>1
  <2> QED BY <1>3, <2>1 DEF Elements
<1> QED BY <1>1, <1>2, <1>3, <1>4, <1>5, <1>6

-----------------------------------------------------------------------------
(* Where the notices in a queue end.                                       *)

\* An empty queue has no notice.
LEMMA EndsOfNone ==
    ASSUME NEW T PROVE NoneOf(<<>>, T) /\ Ends(<<>>, T) = {}
<1>1. 1..Len(<<>>) = {}
  BY EmptySeq
<1> QED BY <1>1 DEF NoneOf, Ends

\* A task at the end of the queue is the last one if it has one of the types.
LEMMA EndsOfAppend ==
    ASSUME NEW q \in Seq(FsmTask), NEW e \in FsmTask, NEW T
    PROVE  /\ NoneOf(Append(q, e), T) <=> NoneOf(q, T) /\ e.type \notin T
           /\ e.type \in T => Ends(Append(q, e), T) = {e}
           /\ e.type \notin T => Ends(Append(q, e), T) = Ends(q, T)
<1> DEFINE r == Append(q, e)
<1>1. /\ Len(r) = Len(q) + 1 /\ Len(q) \in Nat /\ r[Len(q) + 1] = e
      /\ \A i \in 1..Len(q) : r[i] = q[i]
  BY AppendElements, SeqFacts
<1> HIDE DEF r
<1>2. NoneOf(r, T) <=> NoneOf(q, T) /\ e.type \notin T
  <2>1. ASSUME NoneOf(r, T) PROVE NoneOf(q, T) /\ e.type \notin T
    <3>1. \A i \in 1..Len(q) : i \in 1..Len(r)
      BY <1>1
    <3>2. Len(q) + 1 \in 1..Len(r)
      BY <1>1
    <3> QED BY <1>1, <2>1, <3>1, <3>2 DEF NoneOf
  <2>2. ASSUME NoneOf(q, T), e.type \notin T, NEW i \in 1..Len(r)
        PROVE  r[i].type \notin T
    <3>1. i \in 1..Len(q) \/ i = Len(q) + 1
      BY <1>1
    <3> QED BY <1>1, <2>2, <3>1 DEF NoneOf
  <2> QED BY <2>1, <2>2 DEF NoneOf
<1>3. ASSUME e.type \in T PROVE Ends(r, T) = {e}
  <2>1. ASSUME NEW j \in 1..Len(r),
               \A k \in j + 1..Len(r) : r[k].type \notin T
        PROVE  j = Len(q) + 1
    <3>1. Len(q) + 1 \in j + 1..Len(r) => FALSE
      BY <1>1, <1>3, <2>1
    <3> QED BY <1>1, <3>1
  <2>2. /\ Len(q) + 1 \in 1..Len(r)
        /\ \A k \in Len(q) + 1 + 1..Len(r) : r[k].type \notin T
    BY <1>1
  <2>3. {j \in 1..Len(r) : r[j].type \in T /\ \A k \in j + 1..Len(r) : r[k].type \notin T}
           = {Len(q) + 1}
    BY <1>1, <1>3, <2>1, <2>2
  <2> QED BY <1>1, <2>3 DEF Ends
<1>4. ASSUME e.type \notin T PROVE Ends(r, T) = Ends(q, T)
  <2> DEFINE P(x, j) == x[j].type \in T /\ \A k \in j + 1..Len(x) : x[k].type \notin T
  <2>1. ASSUME NEW j \in 1..Len(r), P(r, j)
        PROVE  j \in 1..Len(q) /\ P(q, j) /\ r[j] = q[j]
    <3>1. j # Len(q) + 1
      BY <1>1, <1>4, <2>1
    <3>2. j \in 1..Len(q)
      BY <1>1, <3>1
    <3>3. \A k \in j + 1..Len(q) : k \in j + 1..Len(r) /\ k \in 1..Len(q)
      BY <1>1, <3>2
    <3> QED BY <1>1, <2>1, <3>2, <3>3
  <2>2. ASSUME NEW j \in 1..Len(q), P(q, j)
        PROVE  j \in 1..Len(r) /\ P(r, j) /\ r[j] = q[j]
    <3>1. \A k \in j + 1..Len(r) : k = Len(q) + 1 \/ (k \in j + 1..Len(q) /\ k \in 1..Len(q))
      BY <1>1
    <3>2. \A k \in j + 1..Len(r) : r[k].type \notin T
      BY <1>1, <1>4, <2>2, <3>1
    <3> QED BY <1>1, <2>2, <3>2
  <2>3. Ends(r, T) = {r[i] : i \in {j \in 1..Len(r) : P(r, j)}}
    BY DEF Ends
  <2>4. Ends(q, T) = {q[i] : i \in {j \in 1..Len(q) : P(q, j)}}
    BY DEF Ends
  <2> HIDE DEF P
  <2> QED BY <2>1, <2>2, <2>3, <2>4
<1> QED BY <1>2, <1>3, <1>4 DEF r

\* What is left of a queue whose first n tasks are taken.
LEMMA EndsOfRest ==
    ASSUME NEW q \in Seq(FsmTask), NEW n \in 0..Len(q), NEW T
    PROVE  /\ Ends(SubSeq(q, n + 1, Len(q)), T) \subseteq Ends(q, T)
           /\ NoneOf(SubSeq(q, n + 1, Len(q)), T) /\ (\A i \in 1..n : q[i].type \notin T)
                => NoneOf(q, T)
           /\ n = 1 /\ NoneOf(SubSeq(q, 2, Len(q)), T) /\ q[1].type \in T
                => q[1] \in Ends(q, T)
<1> DEFINE r == SubSeq(q, n + 1, Len(q))
<1>1. /\ Len(q) \in Nat /\ n \in Nat /\ Len(r) = Len(q) - n
      /\ \A i \in 1..Len(q) - n : r[i] = q[n + i]
  <2>1. Len(q) \in Nat /\ n + 1 \in 1..Len(q) + 1 /\ Len(q) \in n + 1 - 1..Len(q)
        /\ Len(q) - (n + 1) + 1 = Len(q) - n /\ \A i \in Int : n + 1 + i - 1 = n + i
    BY SeqFacts
  <2> DEFINE m == n + 1
  <2>m. m \in 1..Len(q) + 1 /\ Len(q) \in m - 1..Len(q)
    BY <2>1
  <2> HIDE DEF m
  <2>2. /\ Len(SubSeq(q, m, Len(q))) = Len(q) - m + 1
        /\ \A i \in 1..Len(q) - m + 1 : SubSeq(q, m, Len(q))[i] = q[m + i - 1]
    BY <2>m, PartElements
  <2>3. Len(q) - m + 1 = Len(q) - n /\ \A i \in 1..Len(q) - n : m + i - 1 = n + i
    BY <2>1 DEF m
  <2>4. Len(SubSeq(q, m, Len(q))) = Len(q) - n
    BY <2>2, <2>3
  <2>5. \A i \in 1..Len(q) - n : SubSeq(q, m, Len(q))[i] = q[n + i]
    BY <2>2, <2>3
  <2>6. r = SubSeq(q, m, Len(q))
    BY DEF m
  <2> HIDE DEF r
  <2>7. n \in Nat
    BY <2>1
  <2>8. Len(r) = Len(q) - n
    BY <2>4, <2>6
  <2>9. \A i \in 1..Len(q) - n : r[i] = q[n + i]
    BY <2>5, <2>6
  <2> QED BY <2>1, <2>7, <2>8, <2>9
<1>r. n = 1 => r = SubSeq(q, 2, Len(q))
  OBVIOUS
<1> HIDE DEF r
<1>2. \A k \in n + 1..Len(q) : k - n \in 1..Len(r) /\ r[k - n] = q[k]
  <2> SUFFICES ASSUME NEW k \in n + 1..Len(q)
               PROVE  k - n \in 1..Len(r) /\ r[k - n] = q[k]
    OBVIOUS
  <2>1. k - n \in 1..Len(q) - n /\ n + (k - n) = k
    BY <1>1
  <2> QED BY <1>1, <2>1
<1>3. Ends(r, T) \subseteq Ends(q, T)
  <2> SUFFICES ASSUME NEW j \in 1..Len(r), r[j].type \in T,
                      \A k \in j + 1..Len(r) : r[k].type \notin T
               PROVE  r[j] \in Ends(q, T)
    BY DEF Ends
  <2>1. n + j \in 1..Len(q) /\ r[j] = q[n + j]
    BY <1>1
  <2>2. ASSUME NEW k \in n + j + 1..Len(q) PROVE q[k].type \notin T
    <3>1. k \in n + 1..Len(q) /\ k - n \in j + 1..Len(r)
      BY <1>1
    <3> QED BY <1>2, <3>1
  <2> QED BY <2>1, <2>2 DEF Ends
<1>4. ASSUME NoneOf(r, T), \A i \in 1..n : q[i].type \notin T PROVE NoneOf(q, T)
  <2> SUFFICES ASSUME NEW i \in 1..Len(q) PROVE q[i].type \notin T
    BY DEF NoneOf
  <2>1. i \in 1..n \/ i \in n + 1..Len(q)
    BY <1>1
  <2> QED BY <1>2, <1>4, <2>1 DEF NoneOf
<1>5. ASSUME n = 1, NoneOf(r, T), q[1].type \in T PROVE q[1] \in Ends(q, T)
  <2>1. \A k \in 1 + 1..Len(q) : q[k].type \notin T
    BY <1>2, <1>5 DEF NoneOf
  <2>2. 1 \in 1..Len(q)
    BY <1>1, <1>5
  <2> QED BY <1>5, <2>1, <2>2 DEF Ends
<1> QED BY <1>3, <1>4, <1>5, <1>r DEF r

\* A task before all others.
LEMMA EndsOfFirst ==
    ASSUME NEW q \in Seq(FsmTask), NEW e \in FsmTask, NEW T, e.type \notin T
    PROVE  /\ <<e>> \o q \in Seq(FsmTask)
           /\ Elements(<<e>> \o q) = {e} \union Elements(q)
           /\ Ends(<<e>> \o q, T) \subseteq Ends(q, T)
           /\ NoneOf(<<e>> \o q, T) <=> NoneOf(q, T)
<1> DEFINE r == <<e>> \o q
<1>1. /\ r \in Seq(FsmTask) /\ Len(r) = 1 + Len(q) /\ Len(q) \in Nat /\ r[1] = e
      /\ \A i \in 1..Len(q) : r[1 + i] = q[i]
      /\ Elements(r) = {e} \union Elements(q)
  <2>1. <<e>> \in Seq(FsmTask) /\ Len(<<e>>) = 1 /\ <<e>>[1] = e /\ Elements(<<e>>) = {e}
    BY ShortSeqs
  <2>2. /\ <<e>> \o q \in Seq(FsmTask) /\ Len(<<e>> \o q) = Len(<<e>>) + Len(q)
        /\ \A i \in 1..Len(<<e>>) : (<<e>> \o q)[i] = <<e>>[i]
        /\ \A i \in 1..Len(q) : (<<e>> \o q)[Len(<<e>>) + i] = q[i]
        /\ Elements(<<e>> \o q) = Elements(<<e>>) \union Elements(q)
    <3> DEFINE o == <<e>>
    <3>1. o \in Seq(FsmTask)
      BY <2>1
    <3> HIDE DEF o
    <3>2. /\ o \o q \in Seq(FsmTask) /\ Len(o \o q) = Len(o) + Len(q)
          /\ \A i \in 1..Len(o) : (o \o q)[i] = o[i]
          /\ \A i \in 1..Len(q) : (o \o q)[Len(o) + i] = q[i]
          /\ Elements(o \o q) = Elements(o) \union Elements(q)
      BY <3>1, ConcatElements
    <3> QED BY <3>2 DEF o
  <2>3. Len(q) \in Nat /\ 1 \in 1..1
    BY SeqFacts
  <2> QED BY <2>1, <2>2, <2>3
<1> HIDE DEF r
<1>2. \A k \in 2..Len(r) : k - 1 \in 1..Len(q) /\ r[k] = q[k - 1]
  <2> SUFFICES ASSUME NEW k \in 2..Len(r) PROVE k - 1 \in 1..Len(q) /\ r[k] = q[k - 1]
    OBVIOUS
  <2>1. k - 1 \in 1..Len(q) /\ 1 + (k - 1) = k
    BY <1>1
  <2> QED BY <1>1, <2>1
<1>3. Ends(r, T) \subseteq Ends(q, T)
  <2> SUFFICES ASSUME NEW j \in 1..Len(r), r[j].type \in T,
                      \A k \in j + 1..Len(r) : r[k].type \notin T
               PROVE  r[j] \in Ends(q, T)
    BY DEF Ends
  <2>1. j \in 2..Len(r)
    BY <1>1
  <2>2. ASSUME NEW k \in j - 1 + 1..Len(q) PROVE q[k].type \notin T
    <3>1. k + 1 \in j + 1..Len(r) /\ k \in 1..Len(q) /\ 1 + k = k + 1
      BY <1>1, <2>1
    <3> QED BY <1>1, <3>1
  <2> QED BY <1>2, <2>1, <2>2 DEF Ends
<1>4. NoneOf(r, T) <=> NoneOf(q, T)
  <2>1. ASSUME NoneOf(r, T), NEW i \in 1..Len(q) PROVE q[i].type \notin T
    <3>1. 1 + i \in 1..Len(r)
      BY <1>1
    <3> QED BY <1>1, <2>1, <3>1 DEF NoneOf
  <2>2. ASSUME NoneOf(q, T), NEW i \in 1..Len(r) PROVE r[i].type \notin T
    <3>1. i = 1 \/ i \in 2..Len(r)
      BY <1>1
    <3> QED BY <1>1, <1>2, <2>2, <3>1 DEF NoneOf
  <2> QED BY <2>1, <2>2 DEF NoneOf
<1> QED BY <1>1, <1>3, <1>4 DEF r

-----------------------------------------------------------------------------
(* Logs.                                                                   *)

\* A log is a sequence of at most MaxLog entries.
LEMMA LogType ==
    /\ <<>> \in Logs /\ Len(<<>>) = 0
    /\ \A l \in Logs : /\ l \in Seq(Entry) /\ Len(l) \in 0..MaxLog
                       /\ \A i \in 1..Len(l) : l[i] \in Entry
    /\ \A l \in Seq(Entry) : Len(l) <= MaxLog => l \in Logs
<1>1. ASSUME NEW l \in Logs
      PROVE  l \in Seq(Entry) /\ Len(l) \in 0..MaxLog
  <2>1. PICK k \in 0..MaxLog : l \in [1..k -> Entry]
    BY DEF Logs
  <2>2. k \in Nat
    BY PipelineAssumption
  <2> QED BY <2>1, <2>2
<1>2. ASSUME NEW l \in Logs, NEW i \in 1..Len(l) PROVE l[i] \in Entry
  BY <1>1, ElementOfSeq
<1>3. ASSUME NEW l \in Seq(Entry), Len(l) <= MaxLog PROVE l \in Logs
  <2>1. l \in [1..Len(l) -> Entry] /\ Len(l) \in Nat
    BY LenProperties
  <2>2. Len(l) \in 0..MaxLog
    BY <2>1, <1>3, PipelineAssumption
  <2> QED BY <2>1, <2>2 DEF Logs
<1>4. <<>> \in Seq(Entry) /\ Len(<<>>) = 0
  BY EmptySeq
<1>5. <<>> \in Logs
  <2>1. Len(<<>>) <= MaxLog
    BY <1>4, PipelineAssumption
  <2> QED BY <1>3, <1>4, <2>1, Zenon
<1> QED BY <1>1, <1>2, <1>3, <1>4, <1>5

\* Logs with the same entries are the same.
LEMMA LogEqual ==
    ASSUME NEW l \in Logs, NEW m \in Logs, Len(l) = Len(m),
           \A i \in 1..Len(l) : l[i] = m[i]
    PROVE  l = m
  BY LogType, SeqEqual

\* The first k entries of a log are a log.
LEMMA PrefixFacts ==
    ASSUME NEW l \in Logs, NEW k \in 0..Len(l)
    PROVE  /\ SubSeq(l, 1, k) \in Logs /\ Len(SubSeq(l, 1, k)) = k
           /\ \A i \in 1..k : SubSeq(l, 1, k)[i] = l[i]
<1>1. l \in Seq(Entry) /\ Len(l) \in Nat /\ \A i \in 1..Len(l) : l[i] \in Entry
  BY LogType
<1>2. \A i \in 1..k : l[i] \in Entry
  BY <1>1
<1>3. /\ SubSeq(l, 1, k) \in Seq(Entry)
      /\ Len(SubSeq(l, 1, k)) = IF 1 <= k THEN k - 1 + 1 ELSE 0
      /\ \A i \in 1..k - 1 + 1 : SubSeq(l, 1, k)[i] = l[1 + i - 1]
  BY <1>1, <1>2, SubSeqProperties
<1>4. Len(SubSeq(l, 1, k)) = k
  BY <1>1, <1>3
<1>5. \A i \in 1..k : SubSeq(l, 1, k)[i] = l[i]
  BY <1>1, <1>3
<1>6. Len(SubSeq(l, 1, k)) <= MaxLog
  BY <1>4, LogType, PipelineAssumption
<1>7. SubSeq(l, 1, k) \in Logs
  BY <1>3, <1>6, LogType
<1> QED BY <1>4, <1>5, <1>7

\* A log with one entry more.
LEMMA AppendFacts ==
    ASSUME NEW l \in Logs, NEW t \in Entry, Len(Append(l, t)) <= MaxLog
    PROVE  /\ Append(l, t) \in Logs /\ Len(Append(l, t)) = Len(l) + 1
           /\ \A i \in 1..Len(l) : Append(l, t)[i] = l[i]
           /\ Append(l, t)[Len(l) + 1] = t
<1>1. l \in Seq(Entry)
  BY LogType
<1>2. /\ Append(l, t) \in Seq(Entry) /\ Len(Append(l, t)) = Len(l) + 1
      /\ \A i \in 1..Len(l) : Append(l, t)[i] = l[i]
      /\ Append(l, t)[Len(l) + 1] = t
  BY <1>1, AppendProperties
<1>3. Append(l, t) \in Logs
  BY <1>2, LogType
<1> QED BY <1>2, <1>3

\* A prefix agrees as far as it goes.
LEMMA PrefixAgrees ==
    ASSUME NEW l \in Logs, NEW m \in Logs
    PROVE  IsPrefix(l, m) <=> Agree(l, m, Len(l))
<1>1. Len(l) \in Nat /\ Len(m) \in Nat
  BY LogType
<1>2. CASE Len(l) <= Len(m)
  <2>1. /\ SubSeq(l, 1, Len(l)) \in Logs /\ Len(SubSeq(l, 1, Len(l))) = Len(l)
        /\ \A i \in 1..Len(l) : SubSeq(l, 1, Len(l))[i] = l[i]
    BY <1>1, PrefixFacts
  <2>2. /\ SubSeq(m, 1, Len(l)) \in Logs /\ Len(SubSeq(m, 1, Len(l))) = Len(l)
        /\ \A i \in 1..Len(l) : SubSeq(m, 1, Len(l))[i] = m[i]
    BY <1>1, <1>2, PrefixFacts
  <2>3. Agree(l, m, Len(l)) => SubSeq(l, 1, Len(l)) = SubSeq(m, 1, Len(l))
    BY <2>1, <2>2, LogEqual DEF Agree
  <2> QED BY <2>1, <2>2, <2>3, <1>1, <1>2 DEF IsPrefix, Agree
<1>3. CASE ~(Len(l) <= Len(m))
  BY <1>3 DEF IsPrefix, Agree
<1> QED BY <1>2, <1>3

\* To agree up to an index is symmetric, transitive and closed downwards.
LEMMA AgreeFacts ==
    ASSUME NEW l \in Logs, NEW m \in Logs, NEW o \in Logs
    PROVE  /\ \A i \in Nat : Agree(l, m, i) => Agree(m, l, i)
           /\ \A i, j \in Nat : Agree(l, m, i) /\ Agree(m, o, j) /\ j <= i => Agree(l, o, j)
           /\ \A i, j \in Nat : Agree(l, m, i) /\ j <= i => Agree(l, m, j)
           /\ \A i \in 0..Len(l) : Agree(l, l, i)
<1>1. Len(l) \in Nat /\ Len(m) \in Nat /\ Len(o) \in Nat
  BY LogType
<1> QED BY <1>1 DEF Agree

\* A log cut after its first p entries, and k entries more.
Replaced(l, p, k, e) == SubSeq(l, 1, p) \o [i \in 1..k |-> e]
\* A log whose tail is replaced keeps what is before it.
LEMMA ReplacedFacts ==
    ASSUME NEW l \in Logs, NEW p \in 0..Len(l), NEW k \in Nat, p + k <= MaxLog,
           NEW e \in Entry
    PROVE  LET r == Replaced(l, p, k, e)
           IN  /\ r \in Logs /\ Len(r) = p + k
               /\ \A i \in 1..p : r[i] = l[i]
               /\ \A i \in p + 1..p + k : r[i] = e
<1> DEFINE a == SubSeq(l, 1, p)
           b == [i \in 1..k |-> e]
           r == a \o b
<1>1. a \in Logs /\ Len(a) = p /\ \A i \in 1..p : a[i] = l[i]
  BY PrefixFacts
<1>2. b \in Seq(Entry) /\ Len(b) = k /\ \A i \in 1..k : b[i] = e
  OBVIOUS
<1>3. p \in Nat /\ a \in Seq(Entry)
  BY <1>1, LogType
<1> HIDE DEF a, b
<1>4. /\ r \in Seq(Entry) /\ Len(r) = Len(a) + Len(b)
      /\ \A i \in 1..Len(a) : r[i] = a[i]
      /\ \A i \in 1..Len(b) : r[Len(a) + i] = b[i]
  <2>1. a \in Seq(Entry) /\ b \in Seq(Entry)
    BY <1>2, <1>3
  <2> QED BY <2>1, ConcatElements
<1> HIDE DEF r
<1>5. Len(r) = p + k
  BY <1>1, <1>2, <1>4
<1>6. r \in Logs
  BY <1>4, <1>5, LogType
<1>7. \A i \in 1..p : r[i] = l[i]
  BY <1>1, <1>4
<1>8. ASSUME NEW i \in p + 1..p + k PROVE r[i] = e
  <2>1. i - p \in 1..k /\ p + (i - p) = i
    BY <1>3
  <2> QED BY <1>1, <1>2, <1>4, <2>1
<1> QED BY <1>5, <1>6, <1>7, <1>8 DEF r, a, b, Replaced

-----------------------------------------------------------------------------
(* The parts of the state.                                                 *)

\* What the types of the variables say of their parts.
Typed ==
    /\ node \in NodeState
    /\ node.state \in {"LEADER", "TRANSFERRING", "FOLLOWER", "ERROR", "SHUTTING",
                       "SHUTDOWN"}
    /\ node.term \in Nat \ {0} /\ node.term <= MaxTerm /\ MaxTerm \in Nat
    /\ node.leader \in {"none", Self, "other"} /\ node.busy \in BOOLEAN
    /\ log \in Logs /\ Len(log) \in Nat /\ Len(log) <= MaxLog /\ MaxLog \in Nat
    /\ chosen \in Logs /\ Len(chosen) \in Nat /\ Len(chosen) <= MaxLog
    /\ \A i \in 1..Len(log) : log[i] \in Entry /\ log[i].term \in Nat
    /\ \A i \in 1..Len(chosen) : chosen[i] \in Entry /\ chosen[i].term \in Nat
    /\ box.pending \in Nat /\ box.committed \in Nat
    /\ box.ballots \in Seq(Ballot) /\ Len(box.ballots) \in Nat
    /\ closures.first \in Nat /\ closures.queue \in Seq(Closure)
    /\ Len(closures.queue) \in Nat
    /\ \A i \in 1..Len(closures.queue) : closures.queue[i] \in Closure
    /\ stable \in Seq(StableClosure) /\ Len(stable) \in Nat
    /\ \A i \in 1..Len(stable) : stable[i] \in StableClosure
    /\ Elements(stable) \subseteq StableClosure /\ calls \subseteq Call
    /\ \A c \in calls : c.arg \in Nat
    /\ \A c \in Elements(stable) : c.op = "follower" => c.committed \in Nat
    /\ stored \in [Peers -> 0..MaxLog]
    /\ fsm.queue \in Seq(FsmTask) /\ Len(fsm.queue) \in Nat
    /\ \A i \in 1..Len(fsm.queue) : fsm.queue[i] \in FsmTask
    /\ Elements(fsm.queue) \subseteq FsmTask
    /\ Cur \in Committing \union {Idle}
    /\ fsm.applied \in Nat /\ fsm.applied_id \in Nat /\ fsm.term \in Nat
    /\ fsm.error \in BOOLEAN /\ fsm.stopped \in BOOLEAN
    /\ user.applied \in Logs /\ Len(user.applied) \in Nat
    /\ user.leading \in Nat /\ user.following \in Nat /\ user.torn \in BOOLEAN
    /\ tasks \in Seq(TaskRecord) /\ Len(tasks) \in Nat
    /\ \A k \in 1..Len(tasks) : tasks[k] \in TaskRecord

\* What TypeInv says of the parts of the records.
LEMMA Types == TypeInv => Typed
<1> SUFFICES ASSUME TypeInv PROVE Typed
  OBVIOUS
<1>1. /\ node \in NodeState /\ log \in Logs /\ chosen \in Logs /\ box \in BoxState
      /\ closures \in ClosureState /\ stable \in Seq(StableClosure)
      /\ fsm \in FsmState /\ user \in UserState /\ tasks \in Seq(TaskRecord)
  BY DEF TypeInv, TypeOK, NodeState
<1>2. MaxTerm \in Nat /\ MaxLog \in Nat
  BY PipelineAssumption
<1>3. /\ node.state \in {"LEADER", "TRANSFERRING", "FOLLOWER", "ERROR", "SHUTTING",
                         "SHUTDOWN"}
      /\ node.term \in Nat \ {0} /\ node.term <= MaxTerm
      /\ node.leader \in {"none", Self, "other"} /\ node.busy \in BOOLEAN
  BY <1>1, <1>2 DEF NodeState
<1>4. \A l \in Logs : /\ Len(l) \in Nat /\ Len(l) <= MaxLog
                      /\ \A i \in 1..Len(l) : l[i] \in Entry /\ l[i].term \in Nat
  BY LogType, <1>2 DEF Entry
<1>5. /\ box.pending \in Nat /\ box.committed \in Nat
      /\ box.ballots \in Seq(Ballot) /\ Len(box.ballots) \in Nat
  BY <1>1, SeqFacts DEF BoxState
<1>6. /\ closures.first \in Nat /\ closures.queue \in Seq(Closure)
  BY <1>1 DEF ClosureState
<1>7. /\ Len(closures.queue) \in Nat
      /\ \A i \in 1..Len(closures.queue) : closures.queue[i] \in Closure
  BY <1>6, SeqFacts
<1>8. /\ Len(stable) \in Nat /\ \A i \in 1..Len(stable) : stable[i] \in StableClosure
      /\ Elements(stable) \subseteq StableClosure
  BY <1>1, SeqFacts
<1>13. /\ calls \subseteq Call /\ \A c \in calls : c.arg \in Nat
       /\ stored \in [Peers -> 0..MaxLog]
  BY DEF TypeInv, TypeOK, Call
<1>14. \A c \in Elements(stable) : c.op = "follower" => c.committed \in Nat
  BY <1>8 DEF StableClosure
<1>9. /\ fsm.queue \in Seq(FsmTask) /\ Cur \in Committing \union {Idle}
      /\ fsm.applied \in Nat /\ fsm.applied_id \in Nat /\ fsm.term \in Nat
      /\ fsm.error \in BOOLEAN /\ fsm.stopped \in BOOLEAN
  BY <1>1 DEF FsmState, Cur
<1>10. /\ Len(fsm.queue) \in Nat /\ Elements(fsm.queue) \subseteq FsmTask
       /\ \A i \in 1..Len(fsm.queue) : fsm.queue[i] \in FsmTask
  BY <1>9, SeqFacts
<1>11. /\ user.applied \in Logs
       /\ user.leading \in Nat /\ user.following \in Nat /\ user.torn \in BOOLEAN
  BY <1>1 DEF UserState
<1>12. Len(tasks) \in Nat /\ \A k \in 1..Len(tasks) : tasks[k] \in TaskRecord
  BY <1>1, SeqFacts
<1> QED BY <1>1, <1>2, <1>3, <1>4, <1>5, <1>6, <1>7, <1>8, <1>9, <1>10, <1>11, <1>12,
           <1>13, <1>14 DEF Typed

\* The term, and what step_down may make of it.
LEMMA TermFacts ==
    ASSUME Typed
    PROVE  /\ node.term \in 1..MaxTerm /\ node.term \in Nat /\ node.term >= node.term
           /\ node.term < MaxTerm =>
                 node.term + 1 \in 1..MaxTerm /\ node.term + 1 >= node.term
<1>1. node.term \in Nat \ {0} /\ node.term <= MaxTerm /\ MaxTerm \in Nat
  BY DEF Typed
<1> QED BY <1>1

\* The same of the next state.
LEMMA TypesNext == TypeInv' => Typed'
  BY Types, PTL

-----------------------------------------------------------------------------
(* The helpers of the model.                                               *)

\* Tasks are put at the end of the queue of the FSMCaller, unless it has stopped.
LEMMA QueueFacts ==
    ASSUME NEW f \in FsmState, NEW ts \in Seq(FsmTask)
    PROVE  /\ Queue(f, ts) \in FsmState
           /\ Queue(f, ts).queue = IF f.stopped THEN f.queue ELSE f.queue \o ts
           /\ Queue(f, ts).cur = f.cur /\ Queue(f, ts).applied = f.applied
           /\ Queue(f, ts).term = f.term /\ Queue(f, ts).applied_id = f.applied_id
           /\ Queue(f, ts).error = f.error /\ Queue(f, ts).stopped = f.stopped
<1>1. f.queue \in Seq(FsmTask)
  BY DEF FsmState
<1>2. f.queue \o ts \in Seq(FsmTask)
  BY <1>1, ConcatElements
<1> QED BY <1>2 DEF Queue, FsmState

\* A task of the FSMCaller has the type and the argument it is made with.
LEMMA TaskType ==
    /\ \A type \in {"LEADER_STOP", "LEADER_START", "START_FOLLOWING", "STOP_FOLLOWING",
                    "COMMITTED", "SNAPSHOT_LOAD", "SNAPSHOT_SAVE", "ERROR"} :
       \A arg \in Nat : ApplyTask(type, arg) \in FsmTask
    /\ \A type, arg : ApplyTask(type, arg).type = type /\ ApplyTask(type, arg).arg = arg
  BY DEF ApplyTask, FsmTask

\* One task put at the end.
LEMMA QueueOne ==
    ASSUME NEW q \in Seq(FsmTask), NEW e \in FsmTask
    PROVE  /\ <<e>> \in Seq(FsmTask) /\ q \o <<e>> = Append(q, e)
           /\ q \o <<>> = q /\ <<>> \in Seq(FsmTask)
<1>1. <<e>> \in Seq(FsmTask) /\ <<>> \in Seq(FsmTask)
  BY ShortSeqs
<1>2. q \o <<e>> = Append(q, e)
  <2>1. /\ Len(<<e>>) = 1 /\ <<e>>[1] = e
    BY ShortSeqs
  <2>2. Append(q, e) \in Seq(FsmTask) /\ Len(Append(q, e)) = Len(q) + 1
        /\ (\A i \in 1..Len(q) : Append(q, e)[i] = q[i]) /\ Append(q, e)[Len(q) + 1] = e
    BY AppendElements
  <2> DEFINE o == <<e>>
  <2>3. o \in Seq(FsmTask) /\ Len(o) = 1 /\ o[1] = e
    BY <1>1, <2>1
  <2> HIDE DEF o
  <2>4. /\ q \o o \in Seq(FsmTask) /\ Len(q \o o) = Len(q) + Len(o)
        /\ \A i \in 1..Len(q) : (q \o o)[i] = q[i]
        /\ \A i \in 1..Len(o) : (q \o o)[Len(q) + i] = o[i]
    BY <2>3, ConcatElements
  <2>5. Len(q) \in Nat
    BY SeqFacts
  <2>6. Len(q \o o) = Len(q) + 1 /\ (q \o o)[Len(q) + 1] = e
    <3>1. 1 \in 1..Len(o)
      BY <2>3
    <3> QED BY <2>3, <2>4, <3>1
  <2>7. \A i \in 1..Len(q) + 1 : (q \o o)[i] = Append(q, e)[i]
    <3> SUFFICES ASSUME NEW i \in 1..Len(q) + 1 PROVE (q \o o)[i] = Append(q, e)[i]
      OBVIOUS
    <3>1. i \in 1..Len(q) \/ i = Len(q) + 1
      BY <2>5
    <3> QED BY <2>2, <2>4, <2>6, <3>1
  <2>8. q \o o = Append(q, e)
    BY <2>2, <2>4, <2>6, <2>7, SeqEqual
  <2> QED BY <2>8 DEF o
<1>3. q \o <<>> = q
  BY ConcatEmptySeq
<1> QED BY <1>1, <1>2, <1>3

\* The notices of step_down: where they end, and what else is in the queue.
LEMMA StopNotices ==
    ASSUME NEW q \in Seq(FsmTask), NEW x \in NodeState
    PROVE  LET r == q \o LeaderStopNotices(x)
           IN  /\ r \in Seq(FsmTask) /\ LeaderStopNotices(x) \in Seq(FsmTask)
               /\ \A t : t.type \notin {"LEADER_STOP", "STOP_FOLLOWING"} =>
                     (t \in Elements(r) <=> t \in Elements(q))
               /\ x.state = "LEADER" =>
                     /\ ~NoneOf(r, LeaderNotices)
                     /\ \A t \in Ends(r, LeaderNotices) : t.type = "LEADER_STOP"
               /\ x.state # "LEADER" =>
                     /\ NoneOf(r, LeaderNotices) <=> NoneOf(q, LeaderNotices)
                     /\ Ends(r, LeaderNotices) = Ends(q, LeaderNotices)
               /\ x.leader = "other" =>
                     /\ ~NoneOf(r, FollowerNotices)
                     /\ \A t \in Ends(r, FollowerNotices) : t.type = "STOP_FOLLOWING"
               /\ x.leader # "other" =>
                     /\ NoneOf(r, FollowerNotices) <=> NoneOf(q, FollowerNotices)
                     /\ Ends(r, FollowerNotices) = Ends(q, FollowerNotices)
<1> DEFINE a == ApplyTask("LEADER_STOP", x.term)
           b == ApplyTask("STOP_FOLLOWING", x.term)
           m == IF x.state = "LEADER" THEN Append(q, a) ELSE q
           r == IF x.leader = "other" THEN Append(m, b) ELSE m
<1>1. /\ a \in FsmTask /\ a.type = "LEADER_STOP"
      /\ b \in FsmTask /\ b.type = "STOP_FOLLOWING"
  <2>1. x.term \in Nat
    BY PipelineAssumption DEF NodeState
  <2> QED BY <2>1, TaskType
<1>2. LeaderStopNotices(x) = (IF x.state = "LEADER" THEN <<a>> ELSE <<>>) \o
                             (IF x.leader = "other" THEN <<b>> ELSE <<>>)
  BY DEF LeaderStopNotices
<1> HIDE DEF a, b
<1>3. m \in Seq(FsmTask) /\ r \in Seq(FsmTask)
  BY <1>1, AppendElements
<1>4. q \o LeaderStopNotices(x) = r /\ LeaderStopNotices(x) \in Seq(FsmTask)
  <2> DEFINE u == IF x.state = "LEADER" THEN <<a>> ELSE <<>>
             v == IF x.leader = "other" THEN <<b>> ELSE <<>>
  <2>1. u \in Seq(FsmTask) /\ q \o u = m
    BY <1>1, QueueOne
  <2>2. v \in Seq(FsmTask) /\ m \o v = r
    BY <1>1, <1>3, QueueOne
  <2>3. LeaderStopNotices(x) = u \o v
    BY <1>2
  <2> HIDE DEF u, v, m, r
  <2>u. u \in Seq(FsmTask) /\ v \in Seq(FsmTask)
    BY <2>1, <2>2
  <2>4. q \o (u \o v) = (q \o u) \o v
    BY <2>u, ConcatAssociative
  <2>5. u \o v \in Seq(FsmTask)
    BY <2>1, <2>2, ConcatElements
  <2> QED BY <2>1, <2>2, <2>3, <2>4, <2>5
<1>5. \A t : t.type \notin {"LEADER_STOP", "STOP_FOLLOWING"} =>
                (t \in Elements(r) <=> t \in Elements(q))
  <2>1. Elements(Append(q, a)) = Elements(q) \union {a}
    BY <1>1, AppendElements
  <2>2. Elements(Append(m, b)) = Elements(m) \union {b}
    <3> HIDE DEF m
    <3> QED BY <1>1, <1>3, AppendElements
  <2> QED BY <1>1, <2>1, <2>2
<1>6. /\ \A T : NoneOf(Append(q, a), T) <=> NoneOf(q, T) /\ a.type \notin T
      /\ \A T : a.type \in T => Ends(Append(q, a), T) = {a}
      /\ \A T : a.type \notin T => Ends(Append(q, a), T) = Ends(q, T)
  BY <1>1, EndsOfAppend
<1>7. /\ \A T : NoneOf(Append(m, b), T) <=> NoneOf(m, T) /\ b.type \notin T
      /\ \A T : b.type \in T => Ends(Append(m, b), T) = {b}
      /\ \A T : b.type \notin T => Ends(Append(m, b), T) = Ends(m, T)
  <2> HIDE DEF m
  <2> QED BY <1>1, <1>3, EndsOfAppend
<1>8. /\ a.type \in LeaderNotices /\ a.type \notin FollowerNotices
      /\ b.type \notin LeaderNotices /\ b.type \in FollowerNotices
  BY <1>1 DEF LeaderNotices, FollowerNotices
<1>9. /\ x.state = "LEADER" => /\ ~NoneOf(r, LeaderNotices)
                               /\ Ends(r, LeaderNotices) = {a}
      /\ x.state # "LEADER" =>
                     /\ NoneOf(r, LeaderNotices) <=> NoneOf(q, LeaderNotices)
                     /\ Ends(r, LeaderNotices) = Ends(q, LeaderNotices)
  BY <1>6, <1>7, <1>8
<1>10. /\ x.leader = "other" => /\ ~NoneOf(r, FollowerNotices)
                                /\ Ends(r, FollowerNotices) = {b}
       /\ x.leader # "other" =>
                     /\ NoneOf(r, FollowerNotices) <=> NoneOf(q, FollowerNotices)
                     /\ Ends(r, FollowerNotices) = Ends(q, FollowerNotices)
  BY <1>6, <1>7, <1>8
<1> HIDE DEF m, r
<1> QED BY <1>1, <1>3, <1>4, <1>5, <1>9, <1>10

\* The greatest of some numbers, all of which are at most n.
LEMMA GreatestOf ==
    ASSUME NEW S \in SUBSET Nat, NEW n \in Nat, \A x \in S : x <= n, S # {}
    PROVE  Greatest(S) \in S /\ \A y \in S : y <= Greatest(S)
<1> DEFINE R == {ss \in Nat \X Nat : ss[1] < ss[2]}
           T == {n - x : x \in S}
<1>1. IsWellFoundedOn(R, Nat)
  BY NatLessThanWellFounded DEF OpToRel
<1>2. \A x, y \in Nat : <<x, y>> \in R <=> x < y
  OBVIOUS
<1>3. T \subseteq Nat /\ T # {}
  <2>1. PICK x \in S : TRUE
    OBVIOUS
  <2>2. n - x \in T
    OBVIOUS
  <2>3. \A y \in S : n - y \in Nat
    OBVIOUS
  <2> QED BY <2>2, <2>3
<1> HIDE DEF R
<1>4. \E x \in T : \A y \in T : ~(<<y, x>> \in R)
  <2> HIDE DEF T
  <2> QED BY <1>1, <1>3, WFMin
<1>5. PICK x \in S : \A y \in S : ~(<<n - y, n - x>> \in R)
  BY <1>4
<1>6. \A y \in S : y <= x
  <2> SUFFICES ASSUME NEW y \in S PROVE y <= x
    OBVIOUS
  <2>1. n - y \in Nat /\ n - x \in Nat
    OBVIOUS
  <2>2. ~(n - y < n - x)
    BY <1>2, <1>5, <2>1
  <2> QED BY <2>2
<1> QED BY <1>6 DEF Greatest

-----------------------------------------------------------------------------
(* Closures and tasks.                                                     *)

\* AckedOnceApplied, of the tasks ts and the applied entries m.
Acked(ts, m) ==
    \A k \in 1..Len(ts) :
       /\ ts[k].ran <= 1
       /\ ts[k].ok => /\ ts[k].index \in 1..Len(m)
                      /\ m[ts[k].index] = [term |-> ts[k].term, type |-> "data"]
                      /\ ts[k].expected \in {-1, ts[k].term}

\* AckedOnceApplied over the numbers of the tasks.
LEMMA AckedIs == Typed => (AckedOnceApplied <=> Acked(tasks, user.applied))
<1>1. Typed => DOMAIN tasks = 1..Len(tasks)
  BY LenProperties DEF Typed
<1> QED BY <1>1 DEF AckedOnceApplied, Acked

\* The same of the next state.
LEMMA AckedIsNext == Typed' => (AckedOnceApplied' <=> Acked(tasks', user.applied'))
<1>1. (Typed => (AckedOnceApplied <=> Acked(tasks, user.applied)))'
  BY AckedIs, PTL
<1> QED BY <1>1

\* More is applied.
LEMMA AckedGrows ==
    ASSUME NEW ts \in Seq(TaskRecord), NEW l \in Logs, NEW m \in Logs,
           Agree(l, m, Len(l)), Acked(ts, l)
    PROVE  Acked(ts, m)
<1>1. Len(l) \in Nat /\ Len(m) \in Nat
  BY LogType
<1> QED BY <1>1 DEF Acked, Agree

\* A closure still belongs to its entry when the log and the task are the same.
LEMMA FitsStays ==
    ASSUME NEW c, NEW i, NEW l \in Logs, NEW m \in Logs,
           NEW ts \in Seq(TaskRecord), NEW us \in Seq(TaskRecord),
           Fits(c, i, l, ts), i <= Len(m), m[i] = l[i],
           Len(us) >= Len(ts), \A k \in 1..Len(ts) : us[k] = ts[k]
    PROVE  Fits(c, i, m, us)
<1>1. Len(l) \in Nat /\ Len(m) \in Nat /\ Len(ts) \in Nat /\ Len(us) \in Nat
  BY LogType, SeqFacts
<1>2. i \in 1..Len(l) /\ i \in 1..Len(m)
  BY <1>1 DEF Fits
<1>3. ASSUME c.kind = "task"
      PROVE  /\ c.n \in 1..Len(us) /\ us[c.n] = ts[c.n]
             /\ ts[c.n].ran = 0 /\ ts[c.n].index = i
             /\ l[i] = [term |-> ts[c.n].term, type |-> "data"]
             /\ ts[c.n].expected \in {-1, ts[c.n].term}
  <2>1. /\ c.n \in 1..Len(ts)
        /\ ts[c.n].ran = 0 /\ ts[c.n].index = i
        /\ l[i] = [term |-> ts[c.n].term, type |-> "data"]
        /\ ts[c.n].expected \in {-1, ts[c.n].term}
    BY <1>3 DEF Fits
  <2>2. c.n \in 1..Len(us)
    BY <1>1, <2>1
  <2> QED BY <2>1, <2>2
<1>4. ASSUME c.kind = "conf" PROVE l[i] = [term |-> c.n, type |-> "conf"]
  BY <1>4 DEF Fits
<1> QED BY <1>2, <1>3, <1>4 DEF Fits

\* A task whose closure has run once more.
OneRun(t, ok) == [t EXCEPT !.ran = @ + 1, !.ok = ok]

\* A closure that runs changes what has become of its task, not the task.
LEMMA OneRunFacts ==
    ASSUME NEW t \in TaskRecord, NEW ok \in BOOLEAN
    PROVE  LET o == OneRun(t, ok)
           IN  /\ o \in TaskRecord /\ o.index = t.index /\ o.term = t.term
               /\ o.expected = t.expected /\ o.ran = t.ran + 1 /\ o.ok = ok
<1> DEFINE p == [t EXCEPT !.ran = @ + 1]
<1>1. t.ran + 1 \in Nat
  BY DEF TaskRecord
<1>2. /\ p \in TaskRecord /\ p.index = t.index /\ p.term = t.term
      /\ p.expected = t.expected /\ p.ran = t.ran + 1
  BY <1>1 DEF TaskRecord
<1> HIDE DEF p
<1> DEFINE o == [p EXCEPT !.ok = ok]
<1>3. /\ o \in TaskRecord /\ o.index = p.index /\ o.term = p.term
      /\ o.expected = p.expected /\ o.ran = p.ran /\ o.ok = ok
  BY <1>2 DEF TaskRecord
<1>4. OneRun(t, ok) = o
  BY Zenon DEF p, OneRun
<1> HIDE DEF o
<1> QED BY <1>2, <1>3, <1>4

\* Closures that run touch the tasks they belong to and no others.
LEMMA RanFacts ==
    ASSUME NEW ts \in Seq(TaskRecord), NEW cs \in Seq(Closure), NEW ok \in BOOLEAN
    PROVE  LET r == Ran(ts, cs, ok)
           IN  /\ r \in Seq(TaskRecord) /\ Len(r) = Len(ts)
               /\ \A k \in 1..Len(ts) :
                    /\ r[k].index = ts[k].index /\ r[k].term = ts[k].term
                    /\ r[k].expected = ts[k].expected
                    /\ Task(k) \in Elements(cs) =>
                          r[k].ran = ts[k].ran + 1 /\ r[k].ok = ok
                    /\ Task(k) \notin Elements(cs) => r[k] = ts[k]
<1> DEFINE r == Ran(ts, cs, ok)
           F(k) == IF \E i \in DOMAIN cs : cs[i] = Task(k)
                   THEN OneRun(ts[k], ok) ELSE ts[k]
<1>1. Len(ts) \in Nat /\ DOMAIN ts = 1..Len(ts) /\ DOMAIN cs = 1..Len(cs)
      /\ \A k \in 1..Len(ts) : ts[k] \in TaskRecord
  BY SeqFacts, LenProperties
<1>2. r = [k \in DOMAIN ts |-> F(k)]
  BY Zenon DEF Ran, OneRun
<1>3. \A k : Task(k) \in Elements(cs) <=> \E i \in DOMAIN cs : cs[i] = Task(k)
  BY <1>1 DEF Elements
<1>5. ASSUME NEW k \in 1..Len(ts)
      PROVE  /\ F(k) \in TaskRecord
             /\ F(k).index = ts[k].index /\ F(k).term = ts[k].term
             /\ F(k).expected = ts[k].expected
             /\ Task(k) \in Elements(cs) =>
                   F(k).ran = ts[k].ran + 1 /\ F(k).ok = ok
             /\ Task(k) \notin Elements(cs) => F(k) = ts[k]
  <2> DEFINE t == ts[k]
  <2>1. t \in TaskRecord
    BY <1>1
  <2> HIDE DEF t
  <2>2. LET o == OneRun(t, ok)
        IN  /\ o \in TaskRecord /\ o.index = t.index /\ o.term = t.term
            /\ o.expected = t.expected /\ o.ran = t.ran + 1 /\ o.ok = ok
    BY <2>1, OneRunFacts
  <2>3. F(k) = IF Task(k) \in Elements(cs) THEN OneRun(t, ok) ELSE t
    BY <1>3 DEF t
  <2> HIDE DEF F
  <2> QED BY <2>1, <2>2, <2>3 DEF t
<1> HIDE DEF F, r
<1>6. \A k \in 1..Len(ts) : r[k] = F(k)
  BY <1>1, <1>2
<1>7. r \in Seq(TaskRecord) /\ Len(r) = Len(ts)
  <2>1. r \in [1..Len(ts) -> TaskRecord]
    BY <1>1, <1>2, <1>5
  <2>2. r \in Seq(TaskRecord)
    BY <1>1, <2>1
  <2>3. DOMAIN r = 1..Len(r) /\ Len(r) \in Nat
    BY <2>2, LenProperties
  <2> QED BY <1>1, <2>1, <2>2, <2>3
<1> QED BY <1>5, <1>6, <1>7 DEF r

\* The closures cs of entries between a and b are run, with OK if these have been
\* applied: they run once, and those of other entries have not run yet.
LEMMA RanKeeps ==
    ASSUME NEW ts \in Seq(TaskRecord), NEW cs \in Seq(Closure), NEW ok \in BOOLEAN,
           NEW l \in Logs, NEW m \in Logs, NEW a \in Int, NEW b \in Int,
           Acked(ts, m),
           \A j \in 1..Len(cs) : \E i \in a..b : Fits(cs[j], i, l, ts),
           ok => b <= Len(m) /\ \A i \in a..b : i \in 1..Len(l) => m[i] = l[i]
    PROVE  /\ Ran(ts, cs, ok) \in Seq(TaskRecord)
           /\ Acked(Ran(ts, cs, ok), m)
           /\ \A c \in Closure, i \in Int :
                 Fits(c, i, l, ts) /\ (i \in a..b => c.kind = "conf") =>
                    Fits(c, i, l, Ran(ts, cs, ok))
<1> DEFINE r == Ran(ts, cs, ok)
<1>1. /\ r \in Seq(TaskRecord) /\ Len(r) = Len(ts)
      /\ \A k \in 1..Len(ts) :
           /\ r[k].index = ts[k].index /\ r[k].term = ts[k].term
           /\ r[k].expected = ts[k].expected
           /\ Task(k) \in Elements(cs) => r[k].ran = ts[k].ran + 1 /\ r[k].ok = ok
           /\ Task(k) \notin Elements(cs) => r[k] = ts[k]
  BY RanFacts
<1>2. Len(ts) \in Nat /\ Len(l) \in Nat /\ Len(m) \in Nat
      /\ \A k \in 1..Len(ts) : ts[k] \in TaskRecord
  BY SeqFacts, LogType
<1> HIDE DEF r
<1>3. ASSUME NEW k \in 1..Len(ts), Task(k) \in Elements(cs)
      PROVE  \E i \in a..b : Fits(Task(k), i, l, ts)
  BY <1>3 DEF Elements
<1>4. \A k : Task(k).kind = "task" /\ Task(k).n = k
  BY DEF Task
<1>5. Acked(r, m)
  <2> SUFFICES ASSUME NEW k \in 1..Len(ts)
               PROVE  /\ r[k].ran <= 1
                      /\ r[k].ok => /\ r[k].index \in 1..Len(m)
                                    /\ m[r[k].index] = [term |-> r[k].term, type |-> "data"]
                                    /\ r[k].expected \in {-1, r[k].term}
    BY <1>1 DEF Acked
  <2>1. CASE Task(k) \notin Elements(cs)
    BY <1>1, <2>1 DEF Acked
  <2>2. CASE Task(k) \in Elements(cs)
    <3>1. PICK i \in a..b : Fits(Task(k), i, l, ts)
      BY <1>3, <2>2
    <3>2. /\ i \in 1..Len(l) /\ ts[k].ran = 0 /\ ts[k].index = i
          /\ l[i] = [term |-> ts[k].term, type |-> "data"]
          /\ ts[k].expected \in {-1, ts[k].term}
      BY <1>4, <3>1 DEF Fits
    <3>3. r[k].ran = ts[k].ran + 1 /\ r[k].ok = ok
      BY <1>1, <2>2
    <3>4. ok => i \in 1..Len(m) /\ m[i] = l[i]
      BY <3>2, <1>2
    <3>5. r[k].index = i /\ r[k].term = ts[k].term /\ r[k].expected = ts[k].expected
      BY <1>1, <3>2
    <3>6. r[k].ran = 1
      BY <3>2, <3>3
    <3> QED BY <3>2, <3>3, <3>4, <3>5, <3>6
  <2> QED BY <2>1, <2>2
<1>6. ASSUME NEW c \in Closure, NEW i \in Int, Fits(c, i, l, ts), i \in a..b => c.kind = "conf"
      PROVE  Fits(c, i, l, r)
  <2>1. CASE c.kind = "conf"
    BY <1>6, <2>1 DEF Fits
  <2>2. CASE c.kind = "task"
    <3>1. c.n \in 1..Len(ts) /\ ts[c.n].index = i
      BY <1>6, <2>2 DEF Fits
    <3>2. Task(c.n) \notin Elements(cs)
      <4> SUFFICES ASSUME Task(c.n) \in Elements(cs) PROVE FALSE
        OBVIOUS
      <4>1. PICK h \in a..b : Fits(Task(c.n), h, l, ts)
        BY <1>3, <3>1
      <4>2. ts[c.n].index = h
        BY <1>4, <4>1 DEF Fits
      <4>3. c.kind # "conf"
        BY <2>2
      <4> QED BY <1>6, <3>1, <4>2, <4>3
    <3>3. r[c.n] = ts[c.n]
      BY <1>1, <3>1, <3>2
    <3> QED BY <1>1, <1>6, <2>2, <3>1, <3>3 DEF Fits
  <2> QED BY <2>1, <2>2 DEF Closure
<1> QED BY <1>1, <1>5, <1>6 DEF r

\* An index into a run of consecutive entries.
LEMMA Offset ==
    ASSUME NEW a \in Int, NEW b \in Int, NEW k \in a..b
    PROVE  k - a + 1 \in 1..b - a + 1
  OBVIOUS

\* The closures that a later part of a run of entries has are those popped for it.
LEMMA Window ==
    ASSUME NEW f \in Nat \ {0}, NEW u \in Nat, NEW c \in Nat, NEW i \in Nat,
           NEW j \in Nat, NEW b \in Nat, f <= b, i <= b, b <= j, j <= u, c <= i
    PROVE  /\ b - f + 1 \in 1..(u - f + 1) + 1 /\ b - f + 1 \in Nat
           /\ j - f + 1 \in (b - f + 1) - 1..u - f + 1 /\ j - f + 1 \in Nat
           /\ (j - f + 1) - (b - f + 1) + 1 = j - b + 1
           /\ \A x \in 1..j - b + 1 : /\ (b - f + 1) + x - 1 = (b + x - 1) - f + 1
                                      /\ b + x - 1 \in i..j
                                      /\ b + x - 1 \in f..u
                                      /\ c <= b + x - 1
  OBVIOUS

\* What a batch under way is made of.
LEMMA CurFacts ==
    ASSUME Typed, TaskInv, FsmInv, Cur.type = "COMMITTED"
    PROVE  /\ Cur \in Committing
           /\ Cur.upto \in Nat /\ Cur.first \in Nat \ {0} /\ Cur.index \in Nat \ {0}
           /\ Cur.index <= Cur.upto + 1 /\ Cur.first <= Cur.upto + 1
           /\ Cur.done \in Seq(Closure) /\ Len(Cur.done) = Cur.upto - Cur.first + 1
           /\ \A k \in Cur.first..Cur.upto : Cur.done[k - Cur.first + 1] \in Closure
<1>1. Cur \in Committing
  <2>1. Cur # Idle
    BY DEF Idle
  <2> QED BY <2>1 DEF Typed
<1>2. Cur.upto \in Nat /\ Cur.first \in Nat /\ Cur.index \in Nat /\ Cur.done \in Seq(Closure)
  BY <1>1 DEF Committing
<1>3. /\ Cur.index \in 1..Cur.upto + 1 /\ Cur.first \in 1..Cur.upto + 1
      /\ Len(Cur.done) = Cur.upto - Cur.first + 1
  BY DEF TaskInv, FsmInv
<1>4. ASSUME NEW k \in Cur.first..Cur.upto PROVE Cur.done[k - Cur.first + 1] \in Closure
  <2>1. k - Cur.first + 1 \in 1..Len(Cur.done)
    BY <1>2, <1>3, Offset
  <2> QED BY <1>2, <2>1, SeqFacts
<1> QED BY <1>1, <1>2, <1>3, <1>4

\* The closures kept, with the entries they belong to.
LEMMA KeptFacts ==
    ASSUME Typed, TaskInv, FsmInv
    PROVE  /\ \A h \in Waiting :
                 /\ h.c \in Closure /\ h.i \in Nat /\ h.i >= closures.first
                 /\ Fits(h.c, h.i, log, tasks)
           /\ \A j \in 1..Len(closures.queue) :
                 /\ [i |-> closures.first + j - 1, c |-> closures.queue[j]] \in Waiting
                 /\ closures.queue[j] \in Closure
                 /\ Fits(closures.queue[j], closures.first + j - 1, log, tasks)
           /\ \A h \in Popped :
                 /\ Cur.type = "COMMITTED"
                 /\ h.c \in Closure /\ h.i \in Cur.index..Cur.upto /\ h.i \in Nat
                 /\ Fits(h.c, h.i, log, tasks)
           /\ Cur.type = "COMMITTED" =>
                 \A k \in Cur.first..Cur.upto : Cur.index <= k =>
                    /\ [i |-> k, c |-> Cur.done[k - Cur.first + 1]] \in Popped
                    /\ Fits(Cur.done[k - Cur.first + 1], k, log, tasks)
           /\ Cur = Idle => Popped = {}
<1>t. closures.first \in Nat /\ \A j \in 1..Len(closures.queue) : closures.queue[j] \in Closure
  BY DEF Typed
<1>1. \A j \in 1..Len(closures.queue) :
         /\ [i |-> closures.first + j - 1, c |-> closures.queue[j]] \in Waiting
         /\ closures.queue[j] \in Closure
         /\ closures.first + j - 1 \in Nat /\ closures.first + j - 1 >= closures.first
  <2> SUFFICES ASSUME NEW j \in 1..Len(closures.queue)
               PROVE  /\ [i |-> closures.first + j - 1, c |-> closures.queue[j]] \in Waiting
                      /\ closures.queue[j] \in Closure
                      /\ closures.first + j - 1 \in Nat
                      /\ closures.first + j - 1 >= closures.first
    OBVIOUS
  <2>1. [i |-> closures.first + j - 1, c |-> closures.queue[j]] \in Waiting
    BY DEF Waiting
  <2> QED BY <1>t, <2>1
<1>2. \A h \in Waiting \union Popped : Fits(h.c, h.i, log, tasks)
  BY DEF TaskInv
<1>3. ASSUME NEW j \in 1..Len(closures.queue)
      PROVE  Fits(closures.queue[j], closures.first + j - 1, log, tasks)
  <2> DEFINE h == [i |-> closures.first + j - 1, c |-> closures.queue[j]]
  <2>1. h \in Waiting /\ h.i = closures.first + j - 1 /\ h.c = closures.queue[j]
    BY <1>1
  <2> HIDE DEF h
  <2>2. Fits(h.c, h.i, log, tasks)
    BY <1>2, <2>1
  <2> QED BY <2>1, <2>2
<1>4. ASSUME NEW h \in Waiting
      PROVE  h.c \in Closure /\ h.i \in Nat /\ h.i >= closures.first
  <2>1. PICK j \in 1..Len(closures.queue) :
           h = [i |-> closures.first + j - 1, c |-> closures.queue[j]]
    BY DEF Waiting
  <2> QED BY <1>1, <2>1
<1>5. ASSUME NEW h \in Popped
      PROVE  /\ Cur.type = "COMMITTED"
             /\ h.c \in Closure /\ h.i \in Cur.index..Cur.upto /\ h.i \in Nat
  <2>1. Cur.type = "COMMITTED"
    BY DEF Popped
  <2>2. PICK k \in Cur.first..Cur.upto :
           Cur.index <= k /\ h = [i |-> k, c |-> Cur.done[k - Cur.first + 1]]
    BY <2>1 DEF Popped
  <2> QED BY <2>1, <2>2, CurFacts
<1>6. ASSUME Cur.type = "COMMITTED", NEW k \in Cur.first..Cur.upto, Cur.index <= k
      PROVE  [i |-> k, c |-> Cur.done[k - Cur.first + 1]] \in Popped
  BY <1>6 DEF Popped
<1>7. ASSUME Cur.type = "COMMITTED", NEW k \in Cur.first..Cur.upto, Cur.index <= k
      PROVE  Fits(Cur.done[k - Cur.first + 1], k, log, tasks)
  <2> DEFINE h == [i |-> k, c |-> Cur.done[k - Cur.first + 1]]
  <2>1. h \in Popped /\ h.i = k /\ h.c = Cur.done[k - Cur.first + 1]
    BY <1>6, <1>7
  <2> HIDE DEF h
  <2>2. Fits(h.c, h.i, log, tasks)
    BY <1>2, <2>1
  <2> QED BY <2>1, <2>2
<1>8. Cur = Idle => Popped = {}
  BY DEF Popped, Idle
<1> QED BY <1>1, <1>2, <1>3, <1>4, <1>5, <1>6, <1>7, <1>8

\* The closures that are run for the entries from i to j have been popped for them.
LEMMA DonesFacts ==
    ASSUME Typed, TaskInv, FsmInv, Cur.type = "COMMITTED",
           NEW i \in Cur.index..Cur.upto + 1, NEW j \in i - 1..Cur.upto
    PROVE  /\ DonesOf(i, j) \in Seq(Closure)
           /\ \A m \in 1..Len(DonesOf(i, j)) : \E k \in i..j :
                 [i |-> k, c |-> DonesOf(i, j)[m]] \in Popped
<1>t. /\ Cur.upto \in Nat /\ Cur.first \in Nat \ {0} /\ Cur.index \in Nat \ {0}
      /\ Cur.done \in Seq(Closure) /\ Len(Cur.done) = Cur.upto - Cur.first + 1
  BY CurFacts
<1>1. CASE j < i \/ j < Cur.first
  <2>1. DonesOf(i, j) = <<>>
    BY <1>1 DEF DonesOf
  <2>2. <<>> \in Seq(Closure) /\ 1..Len(<<>>) = {}
    BY EmptySeq
  <2> QED BY <2>1, <2>2
<1>2. CASE ~(j < i \/ j < Cur.first)
  <2> DEFINE b == IF i < Cur.first THEN Cur.first ELSE i
             m == b - Cur.first + 1
             n == j - Cur.first + 1
  <2>1. DonesOf(i, j) = SubSeq(Cur.done, m, n)
    BY <1>2 DEF DonesOf
  <2>i. i \in Nat /\ j \in Nat /\ i >= Cur.index /\ j <= Cur.upto
    BY <1>t
  <2>b. b \in Nat /\ b >= Cur.first /\ b >= i /\ b <= j
    BY <1>t, <1>2, <2>i
  <2> HIDE DEF b
  <2>m. /\ m \in 1..(Cur.upto - Cur.first + 1) + 1
        /\ n \in m - 1..(Cur.upto - Cur.first + 1)
        /\ n - m + 1 = j - b + 1 /\ m \in Nat /\ n \in Nat
    <3>1. Cur.upto \in Int /\ Cur.first \in Int
      BY <1>t
    <3>2. m \in 1..(Cur.upto - Cur.first + 1) + 1
      BY <3>1, <2>i, <2>b
    <3>3. n \in m - 1..(Cur.upto - Cur.first + 1)
      BY <3>1, <2>i, <2>b
    <3>4. n - m + 1 = j - b + 1
      BY <3>1, <2>i, <2>b
    <3>5. m \in Nat /\ n \in Nat
      BY <3>1, <2>i, <2>b
    <3> QED BY <3>2, <3>3, <3>4, <3>5
  <2>2. m \in 1..Len(Cur.done) + 1 /\ n \in m - 1..Len(Cur.done)
    BY <1>t, <2>m
  <2>x. \A x \in 1..j - b + 1 : /\ m + x - 1 = (b + x - 1) - Cur.first + 1
                                /\ b + x - 1 \in i..j
                                /\ b + x - 1 \in Cur.first..Cur.upto
                                /\ Cur.index <= b + x - 1
    BY SMTT(30), <1>t, <2>i, <2>b, Window
  <2> HIDE DEF m, n
  <2> DEFINE q == Cur.done
  <2>q. q \in Seq(Closure) /\ m \in 1..Len(q) + 1 /\ n \in m - 1..Len(q)
    BY <1>t, <2>2
  <2> HIDE DEF q
  <2>y. /\ SubSeq(q, m, n) \in Seq(Closure)
        /\ Len(SubSeq(q, m, n)) = n - m + 1
        /\ \A x \in 1..n - m + 1 : SubSeq(q, m, n)[x] = q[m + x - 1]
    BY <2>q, PartElements
  <2>3. /\ SubSeq(Cur.done, m, n) \in Seq(Closure)
        /\ Len(SubSeq(Cur.done, m, n)) = n - m + 1
        /\ \A x \in 1..n - m + 1 : SubSeq(Cur.done, m, n)[x] = Cur.done[m + x - 1]
    BY <2>y DEF q
  <2>4. ASSUME NEW x \in 1..j - b + 1
        PROVE  [i |-> b + x - 1, c |-> SubSeq(Cur.done, m, n)[x]] \in Popped
    <3>1. SubSeq(Cur.done, m, n)[x] = Cur.done[(b + x - 1) - Cur.first + 1]
      BY <2>m, <2>x, <2>3
    <3>2. b + x - 1 \in Cur.first..Cur.upto /\ Cur.index <= b + x - 1
      BY <2>x
    <3>3. \A k \in Cur.first..Cur.upto : Cur.index <= k =>
             [i |-> k, c |-> Cur.done[k - Cur.first + 1]] \in Popped
      BY KeptFacts
    <3> QED BY <3>1, <3>2, <3>3
  <2>5. ASSUME NEW x \in 1..Len(DonesOf(i, j))
        PROVE  \E k \in i..j : [i |-> k, c |-> DonesOf(i, j)[x]] \in Popped
    <3>1. x \in 1..j - b + 1
      BY <2>1, <2>m, <2>3
    <3> QED BY <2>1, <2>x, <2>4, <3>1
  <2> QED BY <2>1, <2>3, <2>5
<1> QED BY <1>1, <1>2

\* The closures that a step down runs leave those that have been popped alone.
LEMMA DropKeeps ==
    ASSUME Typed, TaskInv, FsmInv, NEW ts \in Seq(TaskRecord), NEW m \in Logs,
           Acked(ts, m), \A h \in Waiting : Fits(h.c, h.i, log, ts)
    PROVE  /\ Ran(ts, Dropped, FALSE) \in Seq(TaskRecord)
           /\ Acked(Ran(ts, Dropped, FALSE), m)
           /\ \A c \in Closure, i \in Int :
                 Fits(c, i, log, ts) /\ (Leading => i < closures.first) =>
                    Fits(c, i, log, Ran(ts, Dropped, FALSE))
<1> DEFINE a == IF Leading THEN closures.first ELSE 1
           b == IF Leading THEN Len(log) ELSE 0
<1>1. Dropped \in Seq(Closure) /\ FALSE \in BOOLEAN /\ log \in Logs
  BY EmptySeq DEF Dropped, Typed
<1>2. a \in Int /\ b \in Int
  BY DEF Typed
<1>3. ASSUME NEW j \in 1..Len(Dropped) PROVE \E i \in a..b : Fits(Dropped[j], i, log, ts)
  <2>1. Leading /\ Dropped = closures.queue
    BY EmptySeq DEF Dropped
  <2>2. [i |-> closures.first + j - 1, c |-> closures.queue[j]] \in Waiting
    BY <2>1, KeptFacts
  <2>3. Fits(closures.queue[j], closures.first + j - 1, log, ts)
    BY <2>2
  <2>4. closures.first + j - 1 \in a..b
    <3>1. closures.first + j - 1 \in 1..Len(log)
      BY <2>3 DEF Fits
    <3>2. closures.first \in Nat /\ Len(log) \in Nat
      BY DEF Typed
    <3> QED BY <2>1, <3>1, <3>2
  <2> QED BY <2>1, <2>3, <2>4
<1>4. /\ Ran(ts, Dropped, FALSE) \in Seq(TaskRecord)
      /\ Acked(Ran(ts, Dropped, FALSE), m)
      /\ \A c \in Closure, i \in Int :
            Fits(c, i, log, ts) /\ (i \in a..b => c.kind = "conf") =>
               Fits(c, i, log, Ran(ts, Dropped, FALSE))
  <2> HIDE DEF a, b
  <2> QED BY <1>1, <1>2, <1>3, RanKeeps
<1>5. ASSUME NEW i \in Int, Leading => i < closures.first PROVE i \notin a..b
  BY SMTT(30), <1>5 DEF Typed
<1> QED BY <1>4, <1>5

-----------------------------------------------------------------------------
(* How the parts of the invariant are kept.                                *)

\* The notices under way are fewer, or the same.
FewerNotices(q, r) ==
    \A T \in {LeaderNotices, FollowerNotices} :
       Ends(r, T) \subseteq Ends(q, T) /\ (NoneOf(r, T) => NoneOf(q, T))

\* The node's role stays, and the state machine is told of nothing else.
LEMMA NoticeStays ==
    ASSUME NoticeInv, fsm.stopped => fsm'.stopped,
           FewerNotices(fsm.queue, fsm'.queue),
           \A t : Leads(t) => Leads(t)', \A t : Follows(t) => Follows(t)',
           user'.leading = user.leading, user'.following = user.following,
           \A h \in Popped' : h.c.kind = "conf" =>
              (\E g \in Popped : g.c = h.c) \/ Leads(h.c.n)'
    PROVE  NoticeInv'
<1> SUFFICES ASSUME ~fsm'.stopped
             PROVE
       /\ \A t \in Ends(fsm'.queue, LeaderNotices) :
             t.type = "LEADER_START" => Leads(t.arg)'
       /\ NoneOf(fsm'.queue, LeaderNotices) =>
             /\ user'.leading # 0 => Leads(user.leading)'
             /\ \A h \in Popped' : h.c.kind = "conf" => Leads(h.c.n)'
       /\ \A t \in Ends(fsm'.queue, FollowerNotices) :
             t.type = "START_FOLLOWING" => Follows(t.arg)'
       /\ NoneOf(fsm'.queue, FollowerNotices) =>
             (user'.following # 0 => Follows(user.following)')
  BY DEF NoticeInv
<1>1. /\ \A t \in Ends(fsm.queue, LeaderNotices) :
             t.type = "LEADER_START" => Leads(t.arg)
      /\ NoneOf(fsm.queue, LeaderNotices) =>
            /\ user.leading # 0 => Leads(user.leading)
            /\ \A h \in Popped : h.c.kind = "conf" => Leads(h.c.n)
      /\ \A t \in Ends(fsm.queue, FollowerNotices) :
            t.type = "START_FOLLOWING" => Follows(t.arg)
      /\ NoneOf(fsm.queue, FollowerNotices) =>
            (user.following # 0 => Follows(user.following))
  BY DEF NoticeInv
<1>2. /\ Ends(fsm'.queue, LeaderNotices) \subseteq Ends(fsm.queue, LeaderNotices)
      /\ NoneOf(fsm'.queue, LeaderNotices) => NoneOf(fsm.queue, LeaderNotices)
      /\ Ends(fsm'.queue, FollowerNotices) \subseteq Ends(fsm.queue, FollowerNotices)
      /\ NoneOf(fsm'.queue, FollowerNotices) => NoneOf(fsm.queue, FollowerNotices)
  BY DEF FewerNotices
<1>3. ASSUME NEW t \in Ends(fsm'.queue, LeaderNotices), t.type = "LEADER_START"
      PROVE  Leads(t.arg)'
  BY <1>1, <1>2, <1>3
<1>4. ASSUME NoneOf(fsm'.queue, LeaderNotices)
      PROVE  /\ user'.leading # 0 => Leads(user.leading)'
             /\ \A h \in Popped' : h.c.kind = "conf" => Leads(h.c.n)'
  <2>1. user'.leading # 0 => Leads(user.leading)'
    BY <1>1, <1>2, <1>4 DEF Leads
  <2>2. ASSUME NEW h \in Popped', h.c.kind = "conf" PROVE Leads(h.c.n)'
    <3>1. ASSUME NEW g \in Popped, g.c = h.c PROVE Leads(h.c.n)'
      BY <1>1, <1>2, <1>4, <2>2, <3>1
    <3> QED BY <2>2, <3>1
  <2> QED BY <2>1, <2>2
<1>5. ASSUME NEW t \in Ends(fsm'.queue, FollowerNotices), t.type = "START_FOLLOWING"
      PROVE  Follows(t.arg)'
  BY <1>1, <1>2, <1>5
<1>6. ASSUME NoneOf(fsm'.queue, FollowerNotices)
      PROVE  user'.following # 0 => Follows(user.following)'
  BY <1>1, <1>2, <1>6 DEF Follows
<1> QED BY <1>3, <1>4, <1>5, <1>6

\* The notices of step_down are put in the queue: whatever the node becomes, the
\* state machine is told that it does not lead and does not follow.
LEMMA NoticeSilent ==
    ASSUME Typed, NoticeInv, fsm.stopped => fsm'.stopped,
           NEW q \in Seq(FsmTask), FewerNotices(fsm.queue, q),
           fsm'.queue = q \o LeaderStopNotices(node),
           user'.leading = user.leading, user'.following = user.following,
           \A h \in Popped' : h.c.kind = "conf" => \E g \in Popped : g.c = h.c
    PROVE  NoticeInv'
<1> SUFFICES ASSUME ~fsm'.stopped
             PROVE
       /\ \A t \in Ends(fsm'.queue, LeaderNotices) :
             t.type = "LEADER_START" => Leads(t.arg)'
       /\ NoneOf(fsm'.queue, LeaderNotices) =>
             /\ user'.leading # 0 => Leads(user.leading)'
             /\ \A h \in Popped' : h.c.kind = "conf" => Leads(h.c.n)'
       /\ \A t \in Ends(fsm'.queue, FollowerNotices) :
             t.type = "START_FOLLOWING" => Follows(t.arg)'
       /\ NoneOf(fsm'.queue, FollowerNotices) =>
             (user'.following # 0 => Follows(user.following)')
  BY DEF NoticeInv
<1>1. /\ \A t \in Ends(fsm.queue, LeaderNotices) :
             t.type = "LEADER_START" => Leads(t.arg)
      /\ NoneOf(fsm.queue, LeaderNotices) =>
            /\ user.leading # 0 => Leads(user.leading)
            /\ \A h \in Popped : h.c.kind = "conf" => Leads(h.c.n)
      /\ \A t \in Ends(fsm.queue, FollowerNotices) :
            t.type = "START_FOLLOWING" => Follows(t.arg)
      /\ NoneOf(fsm.queue, FollowerNotices) =>
            (user.following # 0 => Follows(user.following))
  BY DEF NoticeInv
<1>2. /\ Ends(q, LeaderNotices) \subseteq Ends(fsm.queue, LeaderNotices)
      /\ NoneOf(q, LeaderNotices) => NoneOf(fsm.queue, LeaderNotices)
      /\ Ends(q, FollowerNotices) \subseteq Ends(fsm.queue, FollowerNotices)
      /\ NoneOf(q, FollowerNotices) => NoneOf(fsm.queue, FollowerNotices)
  BY DEF FewerNotices
<1> DEFINE r == q \o LeaderStopNotices(node)
<1>3. /\ node.state = "LEADER" =>
                     /\ ~NoneOf(r, LeaderNotices)
                     /\ \A t \in Ends(r, LeaderNotices) : t.type = "LEADER_STOP"
      /\ node.state # "LEADER" =>
                     /\ NoneOf(r, LeaderNotices) <=> NoneOf(q, LeaderNotices)
                     /\ Ends(r, LeaderNotices) = Ends(q, LeaderNotices)
      /\ node.leader = "other" =>
                     /\ ~NoneOf(r, FollowerNotices)
                     /\ \A t \in Ends(r, FollowerNotices) : t.type = "STOP_FOLLOWING"
      /\ node.leader # "other" =>
                     /\ NoneOf(r, FollowerNotices) <=> NoneOf(q, FollowerNotices)
                     /\ Ends(r, FollowerNotices) = Ends(q, FollowerNotices)
  <2>1. node \in NodeState
    BY DEF Typed
  <2> QED BY <2>1, StopNotices
<1>r. fsm'.queue = r
  OBVIOUS
<1> HIDE DEF r
<1>4. ASSUME NEW t \in Ends(r, LeaderNotices) PROVE t.type # "LEADER_START"
  BY <1>1, <1>2, <1>3 DEF Leads
<1>5. ASSUME NoneOf(r, LeaderNotices)
      PROVE  user.leading = 0 /\ \A h \in Popped' : h.c.kind # "conf"
  BY <1>1, <1>2, <1>3, <1>5 DEF Leads
<1>6. ASSUME NEW t \in Ends(r, FollowerNotices) PROVE t.type # "START_FOLLOWING"
  BY <1>1, <1>2, <1>3 DEF Follows
<1>7. ASSUME NoneOf(r, FollowerNotices) PROVE user.following = 0
  BY <1>1, <1>2, <1>3, <1>7 DEF Follows
<1> QED BY <1>r, <1>4, <1>5, <1>6, <1>7

\* The type invariant, in parts.
Kinds ==
    /\ node \in NodeState /\ log \in Logs /\ chosen \in Logs
    /\ box \in BoxState /\ closures \in ClosureState /\ stable \in Seq(StableClosure)
    /\ calls \subseteq Call /\ fsm \in FsmState /\ user \in UserState
    /\ tasks \in Seq(TaskRecord) /\ stored \in [Peers -> 0..MaxLog]
Shape ==
    /\ Leading => /\ box.pending + Len(box.ballots) = Len(log) + 1
                  /\ closures.first + Len(closures.queue) = Len(log) + 1
                  /\ closures.first <= box.pending
    /\ ~Leading => box.pending = 0 /\ box.ballots = <<>> /\ closures.queue = <<>>
Bounds ==
    box.committed <= MaxLog /\ fsm.applied <= MaxLog /\ fsm.applied_id <= MaxLog

\* TypeInv in three parts, which the steps change separately.
LEMMA TypeParts == TypeInv <=> Kinds /\ Shape /\ Bounds /\ failed = {}
<1>1. ASSUME TypeInv PROVE Kinds /\ Shape /\ failed = {}
  BY <1>1 DEF TypeInv, TypeOK, Kinds, Shape, NodeState
<1>2. ASSUME TypeInv PROVE Bounds
  BY <1>2, PipelineAssumption DEF TypeInv, TypeOK, Bounds
<1>3. ASSUME Kinds, Shape, Bounds, failed = {} PROVE TypeInv
  <2>1. /\ box.committed \in Nat /\ fsm.applied \in Nat /\ fsm.applied_id \in Nat
        /\ box.pending \in Nat /\ box.ballots \in Seq(Ballot)
    BY <1>3 DEF Kinds, BoxState, FsmState
  <2>2. Len(box.ballots) \in Nat /\ Len(log) \in Nat /\ Len(log) <= MaxLog
    BY <1>3, <2>1, SeqFacts, LogType, PipelineAssumption DEF Kinds
  <2>3. box.pending \in 0..MaxLog + 1
    BY <1>3, <2>1, <2>2, PipelineAssumption DEF Shape
  <2>4. box.committed \in 0..MaxLog /\ fsm.applied \in 0..MaxLog /\ fsm.applied_id \in 0..MaxLog
    BY <1>3, <2>1, PipelineAssumption DEF Bounds
  <2>5. user.applied \in Logs
    BY <1>3 DEF Kinds, UserState
  <2> QED BY <1>3, <2>3, <2>4, <2>5 DEF TypeInv, TypeOK, Kinds, Shape, NodeState
<1> QED BY <1>1, <1>2, <1>3

\* The same of the next state.
LEMMA TypePartsNext == TypeInv' <=> Kinds' /\ Shape' /\ Bounds' /\ (failed = {})'
  BY TypeParts, PTL

\* What is known stays known as long as the logs only grow, as far as is chosen.
LEMMA KnownGrows ==
    ASSUME Typed, Typed', NEW a \in Nat, Known(a), Len(chosen) <= Len(chosen'),
           \A j \in 1..Len(chosen) : chosen'[j] = chosen[j],
           \A j \in 1..Len(log) : j <= Len(chosen) =>
              j <= Len(log') /\ log'[j] = log[j]
    PROVE  Known(a)'
<1>1. /\ Len(chosen) \in Nat /\ Len(log) \in Nat
      /\ Len(chosen') \in Nat /\ Len(log') \in Nat
  BY DEF Typed
<1>2. a <= Len(chosen) /\ a <= Len(log) /\ \A j \in 1..a : chosen[j] = log[j]
  BY DEF Known, Agree
<1>3. a <= Len(chosen')
  BY <1>1, <1>2
<1>4. a <= Len(log')
  <2>1. CASE a = 0
    BY <2>1, <1>1
  <2>2. CASE a # 0
    <3>1. a \in 1..Len(log)
      BY <1>1, <1>2, <2>2
    <3> QED BY <1>2, <3>1
  <2> QED BY <2>1, <2>2
<1>5. ASSUME NEW j \in 1..a PROVE chosen'[j] = log'[j]
  <2>1. j \in 1..Len(chosen) /\ j \in 1..Len(log) /\ j <= Len(chosen)
    BY <1>1, <1>2
  <2> QED BY <1>2, <2>1
<1> QED BY <1>3, <1>4, <1>5 DEF Known, Agree

\* LogInv under a step that leaves the logs alone.
LEMMA LogStays ==
    ASSUME Typed, Typed', LogInv, log' = log, chosen' = chosen, node'.term >= node.term,
           Active' => Active, Active' /\ node.state = "FOLLOWER" => node'.state = "FOLLOWER",
           \A t \in Elements(fsm'.queue) :
              t.type = "SNAPSHOT_LOAD" => t \in Elements(fsm.queue),
           Active' => \/ Known(Len(chosen))
                      \/ ApplyTask("SNAPSHOT_LOAD", Len(chosen)) \in Elements(fsm'.queue)
                      \/ \A t \in Elements(fsm.queue) :
                            t.type = "SNAPSHOT_LOAD" => t \in Elements(fsm'.queue)
    PROVE  LogInv'
<1>1. /\ node.term \in Nat /\ node'.term \in Nat
      /\ \A i \in 1..Len(log) : log[i].term \in Nat
      /\ \A i \in 1..Len(chosen) : chosen[i].term \in Nat
  BY DEF Typed
<1>2. Sorted(log') /\ Sorted(chosen')
  BY DEF LogInv
<1>3. UpTo(log', node'.term) /\ UpTo(chosen', node'.term)
  BY <1>1 DEF LogInv, UpTo
<1>4. \A t \in Elements(fsm'.queue) :
         t.type = "SNAPSHOT_LOAD" => t.arg \in 1..Len(chosen')
  BY DEF LogInv
<1>5. ASSUME Active'
      PROVE  \/ Agree(chosen', log', Len(chosen'))
             \/ /\ node'.state = "FOLLOWER" /\ Len(chosen') > 0
                /\ Agree(chosen', log', Len(chosen') - 1)
                /\ ApplyTask("SNAPSHOT_LOAD", Len(chosen')) \in Elements(fsm'.queue)
  <2>1. \/ Known(Len(chosen))
        \/ /\ node.state = "FOLLOWER" /\ Len(chosen) > 0 /\ Known(Len(chosen) - 1)
           /\ ApplyTask("SNAPSHOT_LOAD", Len(chosen)) \in Elements(fsm.queue)
    BY <1>5 DEF LogInv
  <2>2. ApplyTask("SNAPSHOT_LOAD", Len(chosen)).type = "SNAPSHOT_LOAD"
    BY TaskType
  <2> QED BY <1>5, <2>1, <2>2 DEF Known
<1> QED BY <1>2, <1>3, <1>4, <1>5 DEF LogInv, Known

\* KnownInv under a step that makes nothing committed that is not known.
LEMMA KnownStays ==
    ASSUME Typed, Typed', KnownInv, \A a \in Nat : Known(a) => Known(a)',
           box'.committed >= box.committed,
           box'.committed = box.committed \/ Known(box.committed)',
           \A c \in calls' : \/ c \in calls
                             \/ c.op = "set_committed" /\ Known(c.arg)'
                             \/ c.op = "on_committed" /\ c.arg <= box'.committed,
           \A c \in Elements(stable') :
              c \in Elements(stable) \/ (c.op = "follower" => Known(c.committed)'),
           \A t \in Elements(fsm'.queue) : t.type = "COMMITTED" =>
              t \in Elements(fsm.queue) \/ t.arg <= box'.committed,
           Cur'.type = "COMMITTED" =>
              \/ Cur.type = "COMMITTED" /\ Cur'.upto = Cur.upto /\ Cur.upto \in Nat
              \/ Cur'.upto <= box'.committed,
           Leading' => /\ box'.committed < box'.pending
                       /\ \A c \in calls' : c.op = "set_committed" => c.arg < box'.pending
    PROVE  KnownInv'
<1>1. /\ box.committed \in Nat /\ box'.committed \in Nat
      /\ \A c \in calls : c.arg \in Nat
      /\ \A c \in Elements(stable) : c.op = "follower" => c.committed \in Nat
      /\ \A t \in Elements(fsm.queue) : t.arg \in Nat
  BY DEF Typed, FsmTask
<1>2. Agree(chosen', log', box'.committed)
  BY <1>1 DEF KnownInv, Known
<1>3. ASSUME NEW c \in calls'
      PROVE  /\ c.op = "set_committed" => Known(c.arg)'
             /\ c.op = "on_committed" => c.arg <= box'.committed
  BY <1>1 DEF KnownInv
<1>4. ASSUME NEW c \in Elements(stable'), c.op = "follower" PROVE Known(c.committed)'
  BY <1>1, <1>4 DEF KnownInv
<1>5. ASSUME NEW t \in Elements(fsm'.queue), t.type = "COMMITTED"
      PROVE  t.arg <= box'.committed
  BY <1>1, <1>5 DEF KnownInv
<1>6. Cur'.type = "COMMITTED" => Cur'.upto <= box'.committed
  BY <1>1 DEF KnownInv
<1> QED BY <1>2, <1>3, <1>4, <1>5, <1>6 DEF KnownInv, Known

\* A ballot box that is left alone has not fallen back.
LEMMA SameCommitted ==
    ASSUME Typed, box' = box
    PROVE  box'.committed >= box.committed /\ box'.committed = box.committed
<1>1. box.committed \in Nat
  BY DEF Typed
<1> QED BY <1>1

\* BallotInv under a step that leaves what a leader has alone, or ends the leadership.
LEMMA BallotStays ==
    ASSUME BallotInv, Leading' =>
              /\ Leading /\ node'.term = node.term /\ log' = log /\ box' = box
              /\ stable' = stable /\ stored' = stored
    PROVE  BallotInv'
  BY DEF BallotInv, Holders

\* FsmInv under a step that leaves the state machine alone.
LEMMA FsmStays ==
    ASSUME Typed, Typed', FsmInv, Len(chosen) <= Len(chosen'),
           \A j \in 1..Len(chosen) : chosen'[j] = chosen[j],
           user'.applied = user.applied, user'.torn = user.torn,
           fsm'.cur = fsm.cur, fsm'.applied = fsm.applied, fsm'.term = fsm.term,
           fsm'.applied_id = fsm.applied_id, fsm.error => fsm'.error,
           fsm'.error => fsm'.cur = Idle, fsm'.stopped \/ fsm'.error => ~Active'
    PROVE  FsmInv'
<1>1. Len(chosen) \in Nat /\ Len(chosen') \in Nat /\ Len(user.applied) \in Nat
  BY DEF Typed
<1>2. Agree(user'.applied, chosen', Len(user'.applied))
  BY <1>1 DEF FsmInv, Agree
<1> QED BY <1>2 DEF FsmInv, Cur, Id

\* Nothing is queued, popped or run.
LEMMA TaskStays ==
    ASSUME Typed, Typed', TaskInv, FsmInv, tasks' = tasks, fsm'.cur = fsm.cur,
           Acked(tasks, user'.applied), closures' = closures,
           \A h \in Waiting \union Popped : h.i <= Len(log') /\ log'[h.i] = log[h.i],
           \A h \in Waiting : h.c.kind = "conf" =>
              node'.state = "LEADER" /\ node'.busy /\ h.c.n = node'.term,
           Leading' => Leading /\ node'.term = node.term /\ log' = log
    PROVE  TaskInv'
<1>1. AckedOnceApplied'
  BY AckedIsNext
<1>2. ASSUME NEW h \in Waiting \union Popped PROVE Fits(h.c, h.i, log', tasks')
  <2>1. Fits(h.c, h.i, log, tasks)
    BY DEF TaskInv
  <2>2. /\ log \in Logs /\ log' \in Logs /\ tasks \in Seq(TaskRecord)
        /\ Len(tasks) \in Nat
    BY DEF Typed
  <2> QED BY <2>1, <2>2, FitsStays
<1>3. Waiting' = Waiting /\ Popped' = Popped
  BY DEF Waiting, Popped, Cur
<1>4. ASSUME NEW h \in (Waiting \union Popped)' PROVE Fits(h.c, h.i, log', tasks')
  BY <1>2, <1>3
<1>5. ASSUME NEW h \in Waiting', h.c.kind = "conf"
      PROVE  node'.state = "LEADER" /\ node'.busy /\ h.c.n = node'.term
  BY <1>3, <1>5
<1>6. Cur'.type = "COMMITTED" =>
          /\ Cur'.first \in 1..Cur'.upto + 1
          /\ Len(Cur'.done) = Cur'.upto - Cur'.first + 1
          /\ Leading' => Cur'.upto < closures'.first
  BY DEF TaskInv, Cur
<1>7. Leading' => \A i, j \in 1..Len(log') :
         log'[i] = [term |-> node'.term, type |-> "conf"] /\ log'[j] = log'[i] => i = j
  BY DEF TaskInv
<1> QED BY <1>1, <1>4, <1>5, <1>6, <1>7 DEF TaskInv

\* The node has stepped down, and no closure waits.
LEMMA TaskDropped ==
    ASSUME Typed, Typed', TaskInv, FsmInv, tasks' = Ran(tasks, Dropped, FALSE),
           fsm'.cur = fsm.cur, user'.applied = user.applied, log' = log,
           closures'.queue = <<>>, ~Leading'
    PROVE  TaskInv'
<1>t. log \in Logs /\ tasks \in Seq(TaskRecord) /\ user.applied \in Logs
  BY DEF Typed
<1>1. /\ Ran(tasks, Dropped, FALSE) \in Seq(TaskRecord)
      /\ Acked(Ran(tasks, Dropped, FALSE), user.applied)
      /\ \A c \in Closure, i \in Int :
            Fits(c, i, log, tasks) /\ (Leading => i < closures.first) =>
               Fits(c, i, log, Ran(tasks, Dropped, FALSE))
  <2>1. Acked(tasks, user.applied)
    BY AckedIs DEF TaskInv
  <2>2. \A h \in Waiting : Fits(h.c, h.i, log, tasks)
    BY DEF TaskInv
  <2> QED BY <1>t, <2>1, <2>2, DropKeeps
<1>2. AckedOnceApplied'
  BY <1>1, AckedIsNext
<1>3. Waiting' = {} /\ Popped' = Popped
  <2>1. 1..Len(closures'.queue) = {}
    BY EmptySeq
  <2> QED BY <2>1 DEF Waiting, Popped, Cur
<1>4. ASSUME NEW h \in Popped PROVE Fits(h.c, h.i, log', tasks')
  <2>1. /\ Cur.type = "COMMITTED" /\ h.c \in Closure /\ h.i \in Cur.index..Cur.upto
        /\ h.i \in Nat /\ Fits(h.c, h.i, log, tasks)
    BY KeptFacts
  <2>2. Leading => h.i < closures.first
    <3>1. Leading => Cur.upto < closures.first
      BY <2>1 DEF TaskInv
    <3>2. Cur.upto \in Nat /\ Cur.index \in Nat /\ closures.first \in Nat
      BY <2>1, CurFacts DEF Typed
    <3> QED BY <2>1, <3>1, <3>2
  <2>3. h.i \in Int
    BY <2>1
  <2>4. Fits(h.c, h.i, log, Ran(tasks, Dropped, FALSE))
    BY <1>1, <2>1, <2>2, <2>3, Zenon
  <2> QED BY <2>4
<1>5. Cur'.type = "COMMITTED" =>
          /\ Cur'.first \in 1..Cur'.upto + 1
          /\ Len(Cur'.done) = Cur'.upto - Cur'.first + 1
  BY DEF TaskInv, Cur
<1>6. (Waiting \union Popped)' = Popped
  BY <1>3
<1>7. \A h \in (Waiting \union Popped)' : Fits(h.c, h.i, log', tasks')
  BY <1>4, <1>6
<1>8. \A h \in Waiting' : h.c.kind = "conf" =>
          node'.state = "LEADER" /\ node'.busy /\ h.c.n = node'.term
  BY <1>3
<1> QED BY <1>2, <1>5, <1>7, <1>8 DEF TaskInv

\* What step_down does to the node and its queues.
LEMMA StepDownFacts ==
    ASSUME Kinds, Shape, Active, NEW t \in 1..MaxTerm,
           NEW s \in {"FOLLOWER", "ERROR", "SHUTTING"}, StepDown(t, s)
    PROVE  /\ node' \in NodeState /\ node'.state = s /\ node'.term = t
           /\ node'.leader = "none" /\ ~Leading' /\ calls' = calls
           /\ box' \in BoxState /\ box'.committed = box.committed
           /\ box'.pending = 0 /\ box'.ballots = <<>>
           /\ closures' \in ClosureState /\ closures'.queue = <<>>
<1>1. node' = [state |-> s, term |-> t, leader |-> "none", busy |-> FALSE] /\ calls' = calls
  BY DEF StepDown
<1>2. node' \in NodeState /\ node'.state = s /\ node'.term = t /\ node'.leader = "none"
  BY <1>1 DEF NodeState
<1>3. ~Leading'
  BY <1>2 DEF Leading
<1>4. <<>> \in Seq(Ballot) /\ <<>> \in Seq(Closure)
  BY EmptySeq
<1>5. box \in BoxState /\ closures \in ClosureState
  BY DEF Kinds
<1>6. /\ box' \in BoxState /\ box'.committed = box.committed
      /\ box'.pending = 0 /\ box'.ballots = <<>>
  <2>1. CASE Leading
    <3>1. box' = [box EXCEPT !.pending = 0, !.ballots = <<>>]
      BY <2>1 DEF StepDown
    <3> QED BY <1>4, <1>5, <3>1 DEF BoxState
  <2>2. CASE ~Leading
    BY <1>5, <2>2 DEF StepDown, Shape
  <2> QED BY <2>1, <2>2
<1>7. closures' \in ClosureState /\ closures'.queue = <<>>
  <2>1. CASE Leading
    BY <1>4, <2>1 DEF StepDown, Cleared, ClosureState
  <2>2. CASE ~Leading
    BY <1>5, <2>2 DEF StepDown, Shape
  <2> QED BY <2>1, <2>2
<1> QED BY <1>1, <1>2, <1>3, <1>6, <1>7

\* What every step down keeps, whoever takes it: all but what the FSMCaller and
\* the tasks are.
LEMMA StepDownFrame ==
    ASSUME IInv, Active, NEW t \in 1..MaxTerm, t >= node.term,
           NEW s \in {"FOLLOWER", "ERROR", "SHUTTING"}, StepDown(t, s),
           log' = log, chosen' = chosen, stored' = stored, failed' = {},
           stable' = stable \/ stable' = <<>>,
           NEW q \in Seq(FsmTask), FewerNotices(fsm.queue, q),
           \A e \in Elements(q) :
              e.type \in {"COMMITTED", "SNAPSHOT_LOAD"} => e \in Elements(fsm.queue),
           s = "FOLLOWER" => q = fsm.queue,
           fsm' \in FsmState, fsm'.queue = q \o LeaderStopNotices(node),
           fsm'.applied <= MaxLog, fsm'.applied_id <= MaxLog,
           fsm'.cur = fsm.cur \/ fsm'.cur = Idle,
           user' \in UserState, user'.leading = user.leading,
           user'.following = user.following, tasks' \in Seq(TaskRecord)
    PROVE  /\ TypeInv' /\ Typed' /\ LogInv' /\ KnownInv' /\ BallotInv' /\ NoticeInv'
           /\ node'.state = s /\ ~Leading' /\ closures'.queue = <<>>
<1>1. Kinds /\ Shape /\ Bounds /\ Typed
  BY TypeParts, Types DEF IInv
<1>2. /\ node' \in NodeState /\ node'.state = s /\ node'.term = t
      /\ node'.leader = "none" /\ ~Leading' /\ calls' = calls
      /\ box' \in BoxState /\ box'.committed = box.committed
      /\ box'.pending = 0 /\ box'.ballots = <<>>
      /\ closures' \in ClosureState /\ closures'.queue = <<>>
  BY <1>1, StepDownFacts
<1>3. stable' \in Seq(StableClosure) /\ Elements(stable') \subseteq Elements(stable)
  <2>1. <<>> \in Seq(StableClosure) /\ Elements(<<>>) = {}
    BY EmptySeq DEF Elements
  <2> QED BY <1>1, <2>1 DEF Kinds
<1>4. TypeInv'
  <2>1. Kinds'
    BY <1>1, <1>2, <1>3 DEF Kinds
  <2>2. Shape'
    BY <1>2 DEF Shape
  <2>3. Bounds'
    BY <1>1, <1>2 DEF Bounds
  <2> QED BY <2>1, <2>2, <2>3, TypePartsNext
<1>5. Typed'
  BY <1>4, TypesNext
<1>6. \A e : e.type \notin {"LEADER_STOP", "STOP_FOLLOWING"} =>
                (e \in Elements(fsm'.queue) <=> e \in Elements(q))
  BY <1>1, StopNotices DEF Typed
<1>7. LogInv'
  <2>1. node'.term >= node.term
    BY <1>2
  <2>2. Active' => s = "FOLLOWER"
    BY <1>2 DEF Active
  <2>3. \A e \in Elements(fsm'.queue) :
           e.type = "SNAPSHOT_LOAD" => e \in Elements(fsm.queue)
    BY <1>6
  <2>4. s = "FOLLOWER" => \A e \in Elements(fsm.queue) :
           e.type = "SNAPSHOT_LOAD" => e \in Elements(fsm'.queue)
    BY <1>6
  <2>5. LogInv
    BY DEF IInv
  <2> QED BY <1>1, <1>2, <1>5, <2>1, <2>2, <2>3, <2>4, <2>5, LogStays
<1>8. KnownInv'
  <2>1. \A a \in Nat : Known(a) => Known(a)'
    BY DEF Known
  <2>2. \A e \in Elements(fsm'.queue) : e.type = "COMMITTED" => e \in Elements(fsm.queue)
    BY <1>6
  <2>3. Cur'.type = "COMMITTED" =>
           Cur.type = "COMMITTED" /\ Cur'.upto = Cur.upto /\ Cur.upto \in Nat
    <3>1. ASSUME Cur'.type = "COMMITTED" PROVE Cur' = Cur
      BY <3>1 DEF Cur, Idle
    <3>2. Cur.type = "COMMITTED" => Cur.upto \in Nat
      BY <1>1, CurFacts DEF IInv
    <3> QED BY <3>1, <3>2
  <2>4. KnownInv /\ box.committed \in Nat
    BY <1>1 DEF IInv, Typed
  <2>5. box'.committed >= box.committed
    BY <1>2, <2>4
  <2> QED BY <1>1, <1>2, <1>3, <1>5, <2>1, <2>2, <2>3, <2>4, <2>5, KnownStays
<1>9. BallotInv'
  BY <1>2 DEF BallotInv
<1>10. NoticeInv'
  <2>1. NoticeInv
    BY DEF IInv
  <2>2. fsm.stopped => fsm'.stopped
    BY DEF IInv, FsmInv
  <2>3. Popped' \subseteq Popped
    <3>1. CASE fsm'.cur = fsm.cur
      BY <3>1 DEF Popped, Cur
    <3>2. CASE fsm'.cur = Idle
      BY <3>2 DEF Popped, Cur, Idle
    <3> QED BY <3>1, <3>2
  <2> QED BY <1>1, <2>1, <2>2, <2>3, NoticeSilent
<1> QED BY <1>2, <1>4, <1>5, <1>7, <1>8, <1>9, <1>10

\* An error is not a notice.
LEMMA ErrorFirst ==
    ASSUME NEW q \in Seq(FsmTask)
    PROVE  LET e == ApplyTask("ERROR", 0)
           IN  /\ <<e>> \o q \in Seq(FsmTask)
               /\ FewerNotices(q, <<e>> \o q)
               /\ Elements(<<e>> \o q) = {e} \union Elements(q) /\ e.type = "ERROR"
<1> DEFINE e == ApplyTask("ERROR", 0)
<1>1. e \in FsmTask /\ e.type = "ERROR"
  BY TaskType
<1> HIDE DEF e
<1>2. e.type \notin LeaderNotices /\ e.type \notin FollowerNotices
  BY <1>1 DEF LeaderNotices, FollowerNotices
<1>3. /\ <<e>> \o q \in Seq(FsmTask)
      /\ Elements(<<e>> \o q) = {e} \union Elements(q)
      /\ Ends(<<e>> \o q, LeaderNotices) \subseteq Ends(q, LeaderNotices)
      /\ NoneOf(<<e>> \o q, LeaderNotices) <=> NoneOf(q, LeaderNotices)
  BY <1>1, <1>2, EndsOfFirst
<1>4. /\ Ends(<<e>> \o q, FollowerNotices) \subseteq Ends(q, FollowerNotices)
      /\ NoneOf(<<e>> \o q, FollowerNotices) <=> NoneOf(q, FollowerNotices)
  BY <1>1, <1>2, EndsOfFirst
<1>5. FewerNotices(q, <<e>> \o q)
  BY <1>3, <1>4 DEF FewerNotices
<1> QED BY <1>1, <1>3, <1>5 DEF e

\* To have no more notices is transitive.
LEMMA FewerFacts ==
    ASSUME NEW q, NEW r, NEW o, FewerNotices(q, r), FewerNotices(r, o)
    PROVE  FewerNotices(q, o) /\ FewerNotices(q, q)
  BY DEF FewerNotices

\* What on_error keeps: the same, whether the node still has to step down or not.
LEMMA OnErrorFrame ==
    ASSUME IInv, NEW f \in FsmState, OnError(f), f.stopped = fsm.stopped,
           log' = log, chosen' = chosen, stored' = stored, failed' = {},
           stable' = stable \/ stable' = <<>>,
           FewerNotices(fsm.queue, f.queue),
           \A e \in Elements(f.queue) :
              e.type \in {"COMMITTED", "SNAPSHOT_LOAD"} => e \in Elements(fsm.queue),
           f.applied <= MaxLog, f.applied_id <= MaxLog,
           f.cur = fsm.cur \/ f.cur = Idle,
           user' \in UserState, user'.leading = user.leading,
           user'.following = user.following, tasks' \in Seq(TaskRecord)
    PROVE  /\ TypeInv' /\ Typed' /\ LogInv' /\ KnownInv' /\ BallotInv' /\ NoticeInv'
           /\ ~Active' /\ ~Leading' /\ closures'.queue = <<>>
           /\ fsm'.cur = f.cur /\ fsm'.applied = f.applied /\ fsm'.term = f.term
           /\ fsm'.applied_id = f.applied_id /\ fsm'.error = f.error
<1> DEFINE e == ApplyTask("ERROR", 0)
           q == <<e>> \o f.queue
<1>1. Kinds /\ Shape /\ Bounds /\ Typed
  BY TypeParts, Types DEF IInv
<1>2. f.queue \in Seq(FsmTask) /\ f.stopped \in BOOLEAN
  BY DEF FsmState
<1>3. /\ q \in Seq(FsmTask) /\ FewerNotices(f.queue, q)
      /\ Elements(q) = {e} \union Elements(f.queue) /\ e.type = "ERROR"
  BY <1>2, ErrorFirst
<1>4. /\ FewerNotices(fsm.queue, q)
      /\ \A x \in Elements(q) :
            x.type \in {"COMMITTED", "SNAPSHOT_LOAD"} => x \in Elements(fsm.queue)
  <2> HIDE DEF q, e
  <2> QED BY <1>3, FewerFacts
<1>5. ASSUME NEW r \in Seq(FsmTask)
      PROVE  LET g == [f EXCEPT !.queue = r]
             IN  /\ g \in FsmState /\ g.queue = r
                 /\ g.cur = f.cur /\ g.applied = f.applied /\ g.term = f.term
                 /\ g.applied_id = f.applied_id /\ g.error = f.error
                 /\ g.stopped = f.stopped
  BY DEF FsmState
<1>6. CASE Active
  <2>1. ~f.stopped
    BY <1>6 DEF IInv, FsmInv
  <2>2. /\ StepDown(node.term, "ERROR")
        /\ fsm' = [f EXCEPT !.queue = q \o LeaderStopNotices(node)]
    BY <1>6, <2>1 DEF OnError, Active
  <2> HIDE DEF q, e
  <2>3. q \o LeaderStopNotices(node) \in Seq(FsmTask)
    BY <1>1, <1>3, StopNotices DEF Typed
  <2>4. /\ fsm' \in FsmState /\ fsm'.queue = q \o LeaderStopNotices(node)
        /\ fsm'.cur = f.cur /\ fsm'.applied = f.applied /\ fsm'.term = f.term
        /\ fsm'.applied_id = f.applied_id /\ fsm'.error = f.error
    <3> DEFINE r == q \o LeaderStopNotices(node)
    <3>1. r \in Seq(FsmTask) /\ fsm' = [f EXCEPT !.queue = r]
      BY <2>2, <2>3
    <3>2. /\ fsm' \in FsmState /\ fsm'.queue = r
          /\ fsm'.cur = f.cur /\ fsm'.applied = f.applied /\ fsm'.term = f.term
          /\ fsm'.applied_id = f.applied_id /\ fsm'.error = f.error
      <4> HIDE DEF r
      <4> QED BY <1>5, <3>1
    <3> QED BY <3>2
  <2>5. node.term \in 1..MaxTerm /\ node.term >= node.term
    BY <1>1, TermFacts
  <2>6. /\ TypeInv' /\ Typed' /\ LogInv' /\ KnownInv' /\ BallotInv' /\ NoticeInv'
        /\ node'.state = "ERROR" /\ ~Leading' /\ closures'.queue = <<>>
    BY <1>1, <1>3, <1>4, <1>6, <2>2, <2>4, <2>5, StepDownFrame
  <2> QED BY <2>4, <2>6 DEF Active
<1>7. CASE ~Active
  <2>1. UNCHANGED <<node, box, closures, calls>>
    BY <1>7 DEF OnError, Active
  <2>2. fsm' = f \/ fsm' = [f EXCEPT !.queue = q]
    <3>1. q \o <<>> = q
      BY <1>3, QueueOne, TaskType
    <3>2. fsm' = IF f.stopped THEN f ELSE [f EXCEPT !.queue = q \o <<>>]
      BY <1>7 DEF OnError, Active
    <3> QED BY <3>1, <3>2
  <2>3. /\ fsm' \in FsmState
        /\ fsm'.cur = f.cur /\ fsm'.applied = f.applied /\ fsm'.term = f.term
        /\ fsm'.applied_id = f.applied_id /\ fsm'.error = f.error
        /\ fsm'.stopped = f.stopped /\ (fsm'.queue = f.queue \/ fsm'.queue = q)
    <3>1. CASE fsm' = f
      BY <3>1
    <3>2. CASE fsm' = [f EXCEPT !.queue = q]
      <4> HIDE DEF q, e
      <4> QED BY <1>3, <1>5, <3>2
    <3> QED BY <2>2, <3>1, <3>2
  <2> HIDE DEF q, e
  <2>4. /\ FewerNotices(fsm.queue, fsm'.queue)
        /\ \A x \in Elements(fsm'.queue) :
              x.type \in {"COMMITTED", "SNAPSHOT_LOAD"} => x \in Elements(fsm.queue)
    BY <1>4, <2>3
  <2>5. stable' \in Seq(StableClosure) /\ Elements(stable') \subseteq Elements(stable)
    <3>1. <<>> \in Seq(StableClosure) /\ Elements(<<>>) = {}
      BY EmptySeq DEF Elements
    <3> QED BY <1>1, <3>1 DEF Kinds
  <2>6. ~Active' /\ ~Leading' /\ ~Leading /\ closures'.queue = <<>>
    BY <1>1, <1>7, <2>1 DEF Active, Leading, Shape
  <2>7. TypeInv'
    <3>1. Kinds'
      BY <1>1, <2>1, <2>3, <2>5 DEF Kinds
    <3>2. Shape'
      BY <1>1, <2>1, <2>6 DEF Shape
    <3>3. Bounds'
      BY <1>1, <2>1, <2>3 DEF Bounds
    <3> QED BY <3>1, <3>2, <3>3, TypePartsNext
  <2>8. Typed'
    BY <2>7, TypesNext
  <2>9. LogInv'
    <3>1. LogInv /\ node'.term >= node.term
      BY <1>1, <2>1, TermFacts DEF IInv
    <3> QED BY <1>1, <2>4, <2>6, <2>8, <3>1, LogStays
  <2>c. Cur' = Cur \/ Cur' = Idle
    BY <2>3 DEF Cur
  <2>10. KnownInv'
    <3>1. \A a \in Nat : Known(a) => Known(a)'
      BY DEF Known
    <3>2. \A x \in Elements(fsm'.queue) : x.type = "COMMITTED" => x \in Elements(fsm.queue)
      BY <2>4
    <3>3. Cur'.type = "COMMITTED" =>
             Cur.type = "COMMITTED" /\ Cur'.upto = Cur.upto /\ Cur.upto \in Nat
      <4>1. ASSUME Cur'.type = "COMMITTED" PROVE Cur' = Cur
        BY <2>c, <4>1 DEF Idle
      <4>2. Cur.type = "COMMITTED" => Cur.upto \in Nat
        BY <1>1, CurFacts DEF IInv
      <4> QED BY <4>1, <4>2
    <3>4. KnownInv /\ box'.committed >= box.committed /\ box'.committed = box.committed
      BY <1>1, <2>1, SameCommitted DEF IInv
    <3> QED BY <1>1, <2>1, <2>5, <2>6, <2>8, <3>1, <3>2, <3>3, <3>4, KnownStays
  <2>11. BallotInv'
    BY <2>6 DEF BallotInv
  <2>12. NoticeInv'
    <3>1. NoticeInv /\ (fsm.stopped => fsm'.stopped)
      BY <2>3 DEF IInv
    <3>2. Popped' \subseteq Popped
      <4>1. CASE Cur' = Cur
        BY <4>1 DEF Popped
      <4>2. CASE Cur' = Idle
        BY <4>2 DEF Popped, Idle
      <4> QED BY <2>c, <4>1, <4>2
    <3>3. (\A t : Leads(t) => Leads(t)') /\ (\A t : Follows(t) => Follows(t)')
      BY <2>1 DEF Leads, Follows
    <3> QED BY <2>4, <3>1, <3>2, <3>3, NoticeStays
  <2> QED BY <2>3, <2>6, <2>7, <2>8, <2>9, <2>10, <2>11, <2>12
<1> QED BY <1>6, <1>7

\* What the actions keep that touch the FSMCaller's queue and the node's state at most.
LEMMA CalmKeeps ==
    ASSUME IInv, failed = {},
           UNCHANGED <<log, box, closures, stable, calls, tasks, stored, chosen, failed>>,
           node' \in NodeState, node'.term = node.term, Leading' <=> Leading,
           Active' => Active, node'.state = "FOLLOWER" <=> node.state = "FOLLOWER",
           fsm' \in FsmState, fsm'.cur = fsm.cur, fsm'.applied = fsm.applied,
           fsm'.term = fsm.term, fsm'.applied_id = fsm.applied_id,
           fsm'.error = fsm.error, fsm'.stopped = fsm.stopped,
           \A t \in Elements(fsm'.queue) :
              t.type \in {"COMMITTED", "SNAPSHOT_LOAD"} => t \in Elements(fsm.queue),
           Active' => \/ Known(Len(chosen))
                      \/ ApplyTask("SNAPSHOT_LOAD", Len(chosen)) \in Elements(fsm'.queue)
                      \/ \A t \in Elements(fsm.queue) :
                            t.type = "SNAPSHOT_LOAD" => t \in Elements(fsm'.queue),
           user' \in UserState, user'.applied = user.applied, user'.torn = user.torn,
           \A h \in Waiting : h.c.kind = "conf" => node'.state = "LEADER" /\ node'.busy,
           NoticeInv'
    PROVE  IInv'
<1>1. Kinds /\ Shape /\ Bounds /\ Typed
  BY TypeParts, Types DEF IInv
<1>2. TypeInv'
  <2>1. Kinds'
    BY <1>1 DEF Kinds
  <2>2. Shape'
    BY <1>1 DEF Shape
  <2>3. Bounds'
    BY <1>1 DEF Bounds
  <2> QED BY <2>1, <2>2, <2>3, TypePartsNext
<1>3. Typed'
  BY <1>2, TypesNext
<1>4. LogInv'
  <2>1. LogInv /\ node'.term >= node.term
    BY <1>1, TermFacts DEF IInv
  <2> QED BY <1>1, <1>3, <2>1, LogStays
<1>5. KnownInv'
  <2>1. \A a \in Nat : Known(a) => Known(a)'
    BY DEF Known
  <2>2. Cur' = Cur /\ (Cur.type = "COMMITTED" => Cur.upto \in Nat)
    BY <1>1, CurFacts DEF IInv, Cur
  <2>3. KnownInv /\ box'.committed >= box.committed /\ box'.committed = box.committed
    BY <1>1, SameCommitted DEF IInv
  <2>4. Leading' => /\ box'.committed < box'.pending
                    /\ \A c \in calls' : c.op = "set_committed" => c.arg < box'.pending
    BY <2>3 DEF KnownInv
  <2> QED BY <1>1, <1>3, <2>1, <2>2, <2>3, <2>4, KnownStays
<1>6. BallotInv'
  BY BallotStays DEF IInv
<1>7. FsmInv'
  <2>1. /\ FsmInv /\ (fsm'.error => fsm'.cur = Idle)
        /\ (fsm'.stopped \/ fsm'.error => ~Active')
    BY DEF IInv, FsmInv, Cur
  <2>2. Len(chosen) <= Len(chosen')
    BY <1>1 DEF Typed
  <2> QED BY <1>1, <1>3, <2>1, <2>2, FsmStays
<1>8. TaskInv'
  <2>1. TaskInv /\ FsmInv /\ Acked(tasks, user'.applied)
    BY <1>1, AckedIs DEF IInv, TaskInv
  <2>2. \A h \in Waiting \union Popped : h.i <= Len(log') /\ log'[h.i] = log[h.i]
    <3>1. ASSUME NEW h \in Waiting \union Popped PROVE h.i <= Len(log)
      <4>1. Fits(h.c, h.i, log, tasks)
        BY <2>1 DEF TaskInv
      <4>2. Len(log) \in Nat /\ h.i \in 1..Len(log)
        BY <1>1, <4>1 DEF Fits, Typed
      <4> QED BY <4>2
    <3> QED BY <3>1
  <2>3. \A h \in Waiting : h.c.kind = "conf" =>
           node'.state = "LEADER" /\ node'.busy /\ h.c.n = node'.term
    BY <2>1 DEF TaskInv
  <2> QED BY <1>1, <1>3, <2>1, <2>2, <2>3, TaskStays
<1> QED BY <1>2, <1>4, <1>5, <1>6, <1>7, <1>8 DEF IInv

\* One task put at the end of the FSMCaller's queue.
LEMMA QueueTask ==
    ASSUME NEW f \in FsmState, NEW e \in FsmTask
    PROVE  LET g == Queue(f, <<e>>)
           IN  /\ g \in FsmState /\ g.cur = f.cur /\ g.applied = f.applied
               /\ g.term = f.term /\ g.applied_id = f.applied_id
               /\ g.error = f.error /\ g.stopped = f.stopped
               /\ \A t \in Elements(g.queue) : t \in Elements(f.queue) \/ t = e
               /\ \A t \in Elements(f.queue) : t \in Elements(g.queue)
               /\ ~f.stopped => e \in Elements(g.queue)
               /\ \A T : e.type \notin T =>
                     /\ Ends(g.queue, T) = Ends(f.queue, T)
                     /\ NoneOf(g.queue, T) <=> NoneOf(f.queue, T)
               /\ \A T : e.type \in T /\ ~f.stopped =>
                     Ends(g.queue, T) = {e} /\ ~NoneOf(g.queue, T)
<1> DEFINE q == f.queue
           ts == <<e>>
           g == Queue(f, ts)
<1>1. q \in Seq(FsmTask)
  BY DEF FsmState
<1>2. ts \in Seq(FsmTask) /\ q \o ts = Append(q, e)
  <2> HIDE DEF q
  <2> QED BY <1>1, QueueOne
<1> HIDE DEF ts
<1>3. /\ g \in FsmState /\ g.queue = IF f.stopped THEN f.queue ELSE f.queue \o ts
      /\ g.cur = f.cur /\ g.applied = f.applied
      /\ g.term = f.term /\ g.applied_id = f.applied_id
      /\ g.error = f.error /\ g.stopped = f.stopped
  BY <1>2, QueueFacts
<1>4. g.queue = IF f.stopped THEN q ELSE Append(q, e)
  BY <1>2, <1>3
<1> HIDE DEF g
<1>5. Elements(Append(q, e)) = Elements(q) \union {e}
  <2> HIDE DEF q
  <2> QED BY <1>1, AppendElements
<1>6. /\ \A T : NoneOf(Append(q, e), T) <=> NoneOf(q, T) /\ e.type \notin T
      /\ \A T : e.type \in T => Ends(Append(q, e), T) = {e}
      /\ \A T : e.type \notin T => Ends(Append(q, e), T) = Ends(q, T)
  <2> HIDE DEF q
  <2> QED BY <1>1, EndsOfAppend
<1>7. CASE f.stopped
  BY <1>3, <1>4, <1>7 DEF g, ts
<1>8. CASE ~f.stopped
  <2>1. g.queue = Append(q, e)
    BY <1>4, <1>8
  <2>2. /\ \A t \in Elements(g.queue) : t \in Elements(f.queue) \/ t = e
        /\ \A t \in Elements(f.queue) : t \in Elements(g.queue)
        /\ e \in Elements(g.queue)
    BY <2>1, <1>5
  <2>3. /\ \A T : e.type \notin T =>
              /\ Ends(g.queue, T) = Ends(f.queue, T)
              /\ NoneOf(g.queue, T) <=> NoneOf(f.queue, T)
        /\ \A T : e.type \in T => Ends(g.queue, T) = {e} /\ ~NoneOf(g.queue, T)
    BY <2>1, <1>6
  <2> QED BY <1>3, <1>8, <2>2, <2>3 DEF g, ts
<1> QED BY <1>7, <1>8

-----------------------------------------------------------------------------
(* The node's actions.                                                     *)

\* NodeImpl::step_down for a higher term, or of a leader in its own.
LEMMA StepsDownKeeps ==
    ASSUME IInv, NEW t \in {node.term, node.term + 1}, t <= MaxTerm, StepsDown(t),
           failed = {}
    PROVE  IInv'
<1> DEFINE f == Queue(fsm, LeaderStopNotices(node))
<1>1. Kinds /\ Shape /\ Bounds /\ Typed /\ Active /\ ~fsm.stopped
  BY TypeParts, Types DEF IInv, StepsDown, Leading, Active, FsmInv
<1>2. /\ StepDown(t, "FOLLOWER")
      /\ fsm' = f /\ tasks' = Ran(tasks, Dropped, FALSE)
      /\ UNCHANGED <<log, stable, user, stored, chosen, failed>>
  BY DEF StepsDown
<1>3. LeaderStopNotices(node) \in Seq(FsmTask) /\ fsm \in FsmState
  BY <1>1, StopNotices DEF Typed, Kinds
<1>4. /\ f \in FsmState /\ f.queue = fsm.queue \o LeaderStopNotices(node)
      /\ f.cur = fsm.cur /\ f.applied = fsm.applied /\ f.term = fsm.term
      /\ f.applied_id = fsm.applied_id /\ f.error = fsm.error /\ f.stopped = fsm.stopped
  BY <1>1, <1>3, QueueFacts
<1> HIDE DEF f
<1>5. Ran(tasks, Dropped, FALSE) \in Seq(TaskRecord)
  BY <1>1, EmptySeq, RanFacts DEF Dropped, Typed
<1>6. /\ TypeInv' /\ Typed' /\ LogInv' /\ KnownInv' /\ BallotInv' /\ NoticeInv'
      /\ node'.state = "FOLLOWER" /\ ~Leading' /\ closures'.queue = <<>>
  <2>1. t \in 1..MaxTerm /\ t >= node.term /\ StepDown(t, "FOLLOWER")
    <3>1. node.term \in 1..MaxTerm /\ MaxTerm \in Nat
      BY <1>1, TermFacts, PipelineAssumption
    <3>2. t \in Int /\ t >= 1 /\ t >= node.term
      BY <3>1
    <3> QED BY <1>2, <3>1, <3>2
  <2>2. fsm.queue \in Seq(FsmTask) /\ FewerNotices(fsm.queue, fsm.queue)
    BY <1>1 DEF Typed, FewerNotices
  <2>3. fsm'.applied <= MaxLog /\ fsm'.applied_id <= MaxLog
    BY <1>1, <1>2, <1>4 DEF Bounds
  <2>4. user' \in UserState
    BY <1>1, <1>2 DEF Kinds
  <2> QED BY <1>1, <1>2, <1>4, <1>5, <2>1, <2>2, <2>3, <2>4, StepDownFrame
<1>7. FsmInv'
  <2>1. FsmInv /\ (fsm.error => Cur = Idle) /\ ~fsm.error
    BY <1>1 DEF IInv, FsmInv
  <2> QED BY <1>1, <1>2, <1>4, <1>6, <2>1, FsmStays
<1>8. TaskInv'
  <2>1. TaskInv /\ FsmInv
    BY DEF IInv
  <2> QED BY <1>1, <1>2, <1>4, <1>6, <2>1, TaskDropped
<1> QED BY <1>6, <1>7, <1>8 DEF IInv

\* NodeImpl::shutdown.
LEMMA ShutdownKeeps == ASSUME IInv, Shutdown, failed = {} PROVE IInv'
<1> DEFINE f == Queue(fsm, LeaderStopNotices(node))
<1>1. Kinds /\ Shape /\ Bounds /\ Typed /\ Active /\ ~fsm.stopped
  BY TypeParts, Types DEF IInv, Shutdown, Active, FsmInv
<1>2. /\ StepDown(node.term, "SHUTTING")
      /\ fsm' = [f EXCEPT !.stopped = TRUE] /\ tasks' = Ran(tasks, Dropped, FALSE)
      /\ UNCHANGED <<log, stable, user, stored, chosen, failed>>
  BY DEF Shutdown
<1>3. LeaderStopNotices(node) \in Seq(FsmTask) /\ fsm \in FsmState
  BY <1>1, StopNotices DEF Typed, Kinds
<1>4. /\ f \in FsmState /\ f.queue = fsm.queue \o LeaderStopNotices(node)
      /\ f.cur = fsm.cur /\ f.applied = fsm.applied /\ f.term = fsm.term
      /\ f.applied_id = fsm.applied_id /\ f.error = fsm.error /\ f.stopped = fsm.stopped
  BY <1>1, <1>3, QueueFacts
<1> HIDE DEF f
<1>a. /\ fsm' \in FsmState /\ fsm'.queue = fsm.queue \o LeaderStopNotices(node)
      /\ fsm'.cur = fsm.cur /\ fsm'.applied = fsm.applied /\ fsm'.term = fsm.term
      /\ fsm'.applied_id = fsm.applied_id /\ fsm'.error = fsm.error
  BY <1>2, <1>4 DEF FsmState
<1>5. Ran(tasks, Dropped, FALSE) \in Seq(TaskRecord)
  BY <1>1, EmptySeq, RanFacts DEF Dropped, Typed
<1>6. /\ TypeInv' /\ Typed' /\ LogInv' /\ KnownInv' /\ BallotInv' /\ NoticeInv'
      /\ node'.state = "SHUTTING" /\ ~Leading' /\ closures'.queue = <<>>
  <2>1. node.term \in 1..MaxTerm /\ node.term >= node.term
    BY <1>1, TermFacts
  <2>2. /\ fsm.queue \in Seq(FsmTask) /\ FewerNotices(fsm.queue, fsm.queue)
        /\ user' \in UserState
    BY <1>1, <1>2 DEF Typed, FewerNotices, Kinds
  <2>3. fsm'.applied <= MaxLog /\ fsm'.applied_id <= MaxLog
    BY <1>1, <1>a DEF Bounds
  <2> QED BY <1>1, <1>2, <1>a, <1>5, <2>1, <2>2, <2>3, StepDownFrame
<1>7. FsmInv'
  <2>1. FsmInv /\ ~fsm.error /\ ~Active'
    BY <1>1, <1>6 DEF IInv, FsmInv, Active
  <2> QED BY <1>1, <1>2, <1>a, <1>6, <2>1, FsmStays
<1>8. TaskInv'
  <2>1. TaskInv /\ FsmInv
    BY DEF IInv
  <2> QED BY <1>1, <1>2, <1>a, <1>6, <2>1, TaskDropped
<1> QED BY <1>6, <1>7, <1>8 DEF IInv

\* NodeImpl::on_error after a failed write.
LEMMA StorageFailsKeeps == ASSUME IInv, StorageFails, failed = {} PROVE IInv'
<1>1. Kinds /\ Shape /\ Bounds /\ Typed
  BY TypeParts, Types DEF IInv
<1>2. /\ stable' = <<>> /\ tasks' = Ran(tasks, Dropped, FALSE) /\ OnError(fsm)
      /\ UNCHANGED <<log, user, stored, chosen, failed>>
  BY DEF StorageFails
<1>3. fsm \in FsmState /\ user' \in UserState
  BY <1>1, <1>2 DEF Kinds
<1>4. fsm.applied <= MaxLog /\ fsm.applied_id <= MaxLog
  BY <1>1 DEF Bounds
<1>5. Ran(tasks, Dropped, FALSE) \in Seq(TaskRecord)
  BY <1>1, EmptySeq, RanFacts DEF Dropped, Typed
<1>6. /\ TypeInv' /\ Typed' /\ LogInv' /\ KnownInv' /\ BallotInv' /\ NoticeInv'
      /\ ~Active' /\ ~Leading' /\ closures'.queue = <<>>
      /\ fsm'.cur = fsm.cur /\ fsm'.applied = fsm.applied /\ fsm'.term = fsm.term
      /\ fsm'.applied_id = fsm.applied_id /\ fsm'.error = fsm.error
  <2>1. FewerNotices(fsm.queue, fsm.queue)
    BY DEF FewerNotices
  <2> QED BY <1>2, <1>3, <1>4, <1>5, <2>1, OnErrorFrame
<1>7. FsmInv'
  <2>1. FsmInv /\ (fsm'.error => fsm'.cur = Idle)
    BY <1>6 DEF IInv, FsmInv, Cur
  <2> QED BY <1>1, <1>2, <1>6, <2>1, FsmStays
<1>8. TaskInv'
  <2>1. TaskInv /\ FsmInv
    BY DEF IInv
  <2> QED BY <1>1, <1>2, <1>6, <2>1, TaskDropped
<1> QED BY <1>6, <1>7, <1>8 DEF IInv

\* NodeImpl::transfer_leadership_to tells the state machine to stop leading.
LEMMA TransferLeadershipKeeps == ASSUME IInv, TransferLeadership, failed = {} PROVE IInv'
<1> DEFINE e == ApplyTask("LEADER_STOP", node.term)
           g == Queue(fsm, <<e>>)
<1>1. Kinds /\ Typed /\ ~fsm.stopped
  BY TypeParts, Types DEF IInv, FsmInv, TransferLeadership, Active
<1>2. /\ node' = [node EXCEPT !.state = "TRANSFERRING"] /\ node.state = "LEADER"
      /\ ~node.busy /\ fsm' = g
      /\ UNCHANGED <<log, box, closures, stable, calls, user, tasks, stored,
                     chosen, failed>>
  BY DEF TransferLeadership
<1>3. e \in FsmTask /\ e.type = "LEADER_STOP" /\ fsm \in FsmState
  BY <1>1, TaskType, TermFacts DEF Kinds
<1> HIDE DEF e
<1>4. /\ g \in FsmState /\ g.cur = fsm.cur /\ g.applied = fsm.applied
      /\ g.term = fsm.term /\ g.applied_id = fsm.applied_id
      /\ g.error = fsm.error /\ g.stopped = fsm.stopped
      /\ \A t \in Elements(g.queue) : t \in Elements(fsm.queue) \/ t = e
      /\ \A t \in Elements(fsm.queue) : t \in Elements(g.queue)
      /\ \A T : e.type \notin T =>
            /\ Ends(g.queue, T) = Ends(fsm.queue, T)
            /\ NoneOf(g.queue, T) <=> NoneOf(fsm.queue, T)
      /\ \A T : e.type \in T /\ ~fsm.stopped =>
            Ends(g.queue, T) = {e} /\ ~NoneOf(g.queue, T)
  BY <1>3, QueueTask
<1> HIDE DEF g
<1>5. /\ node' \in NodeState /\ node'.state = "TRANSFERRING" /\ node'.term = node.term
      /\ node'.leader = node.leader
  <2>1. node \in NodeState
    BY <1>1 DEF Kinds
  <2> QED BY <1>2, <2>1 DEF NodeState
<1>6. NoticeInv'
  <2>1. e.type \in LeaderNotices /\ e.type \notin FollowerNotices
    BY <1>3 DEF LeaderNotices, FollowerNotices
  <2>2. Ends(fsm'.queue, LeaderNotices) = {e} /\ ~NoneOf(fsm'.queue, LeaderNotices)
    BY <1>1, <1>2, <1>4, <2>1
  <2>3. /\ Ends(fsm'.queue, FollowerNotices) = Ends(fsm.queue, FollowerNotices)
        /\ NoneOf(fsm'.queue, FollowerNotices) <=> NoneOf(fsm.queue, FollowerNotices)
    BY <1>2, <1>4, <2>1
  <2>4. /\ \A t \in Ends(fsm.queue, FollowerNotices) :
              t.type = "START_FOLLOWING" => Follows(t.arg)
        /\ NoneOf(fsm.queue, FollowerNotices) =>
              (user.following # 0 => Follows(user.following))
    BY <1>1 DEF IInv, NoticeInv
  <2>5. user' = user /\ \A t : Follows(t) => Follows(t)'
    BY <1>2, <1>5 DEF Follows
  <2> QED BY <1>3, <2>2, <2>3, <2>4, <2>5 DEF NoticeInv, Follows
<1>7. \A h \in Waiting : h.c.kind # "conf"
  BY <1>2 DEF IInv, TaskInv
<1>8. /\ Leading' /\ Leading /\ Active' /\ Active
      /\ node'.state = "FOLLOWER" <=> node.state = "FOLLOWER"
  BY <1>2, <1>5 DEF Leading, Active
<1>9. user' \in UserState /\ user'.applied = user.applied /\ user'.torn = user.torn
  BY <1>1, <1>2 DEF Kinds
<1>10. /\ \A t \in Elements(fsm'.queue) :
             t.type \in {"COMMITTED", "SNAPSHOT_LOAD"} => t \in Elements(fsm.queue)
       /\ \A t \in Elements(fsm.queue) :
             t.type = "SNAPSHOT_LOAD" => t \in Elements(fsm'.queue)
  BY <1>2, <1>3, <1>4
<1> QED BY <1>2, <1>4, <1>5, <1>6, <1>7, <1>8, <1>9, <1>10, CalmKeeps

\* A transfer that times out: the node leads again, in the same term.
LEMMA HandleTransferTimeoutKeeps ==
    ASSUME IInv, HandleTransferTimeout, failed = {} PROVE IInv'
<1> DEFINE e == ApplyTask("LEADER_START", node.term)
           g == Queue(fsm, <<e>>)
<1>1. Kinds /\ Typed /\ ~fsm.stopped
  BY TypeParts, Types DEF IInv, FsmInv, HandleTransferTimeout, Active
<1>2. /\ node' = [node EXCEPT !.state = "LEADER"] /\ node.state = "TRANSFERRING"
      /\ fsm' = g
      /\ UNCHANGED <<log, box, closures, stable, calls, user, tasks, stored,
                     chosen, failed>>
  BY DEF HandleTransferTimeout
<1>3. e \in FsmTask /\ e.type = "LEADER_START" /\ e.arg = node.term /\ fsm \in FsmState
  BY <1>1, TaskType, TermFacts DEF Kinds
<1> HIDE DEF e
<1>4. /\ g \in FsmState /\ g.cur = fsm.cur /\ g.applied = fsm.applied
      /\ g.term = fsm.term /\ g.applied_id = fsm.applied_id
      /\ g.error = fsm.error /\ g.stopped = fsm.stopped
      /\ \A t \in Elements(g.queue) : t \in Elements(fsm.queue) \/ t = e
      /\ \A t \in Elements(fsm.queue) : t \in Elements(g.queue)
      /\ \A T : e.type \notin T =>
            /\ Ends(g.queue, T) = Ends(fsm.queue, T)
            /\ NoneOf(g.queue, T) <=> NoneOf(fsm.queue, T)
      /\ \A T : e.type \in T /\ ~fsm.stopped =>
            Ends(g.queue, T) = {e} /\ ~NoneOf(g.queue, T)
  BY <1>3, QueueTask
<1> HIDE DEF g
<1>5. /\ node' \in NodeState /\ node'.state = "LEADER" /\ node'.term = node.term
      /\ node'.leader = node.leader
  <2>1. node \in NodeState
    BY <1>1 DEF Kinds
  <2> QED BY <1>2, <2>1 DEF NodeState
<1>6. NoticeInv'
  <2>1. e.type \in LeaderNotices /\ e.type \notin FollowerNotices
    BY <1>3 DEF LeaderNotices, FollowerNotices
  <2>2. Ends(fsm'.queue, LeaderNotices) = {e} /\ ~NoneOf(fsm'.queue, LeaderNotices)
    BY <1>1, <1>2, <1>4, <2>1
  <2>3. /\ Ends(fsm'.queue, FollowerNotices) = Ends(fsm.queue, FollowerNotices)
        /\ NoneOf(fsm'.queue, FollowerNotices) <=> NoneOf(fsm.queue, FollowerNotices)
    BY <1>2, <1>4, <2>1
  <2>4. /\ \A t \in Ends(fsm.queue, FollowerNotices) :
              t.type = "START_FOLLOWING" => Follows(t.arg)
        /\ NoneOf(fsm.queue, FollowerNotices) =>
              (user.following # 0 => Follows(user.following))
    BY <1>1 DEF IInv, NoticeInv
  <2>5. user' = user /\ \A t : Follows(t) => Follows(t)'
    BY <1>2, <1>5 DEF Follows
  <2>6. ASSUME NEW t \in Ends(fsm'.queue, LeaderNotices), t.type = "LEADER_START"
        PROVE  Leads(t.arg)'
    <3>1. node'.state = "LEADER" /\ node'.term = t.arg
      BY <1>3, <1>5, <2>2
    <3> QED BY <3>1 DEF Leads
  <2> QED BY <2>2, <2>3, <2>4, <2>5, <2>6 DEF NoticeInv, Follows
<1>7. \A h \in Waiting : h.c.kind # "conf"
  BY <1>2 DEF IInv, TaskInv
<1>8. /\ Leading' /\ Leading /\ Active' /\ Active
      /\ node'.state = "FOLLOWER" <=> node.state = "FOLLOWER"
  BY <1>2, <1>5 DEF Leading, Active
<1>9. user' \in UserState /\ user'.applied = user.applied /\ user'.torn = user.torn
  BY <1>1, <1>2 DEF Kinds
<1>10. /\ \A t \in Elements(fsm'.queue) :
             t.type \in {"COMMITTED", "SNAPSHOT_LOAD"} => t \in Elements(fsm.queue)
       /\ \A t \in Elements(fsm.queue) :
             t.type = "SNAPSHOT_LOAD" => t \in Elements(fsm'.queue)
  BY <1>2, <1>3, <1>4
<1> QED BY <1>2, <1>4, <1>5, <1>6, <1>7, <1>8, <1>9, <1>10, CalmKeeps

\* A task that is not a notice leaves the notices as they are.
LEMMA PlainTask ==
    ASSUME NEW f \in FsmState, NEW e \in FsmTask,
           e.type \in {"COMMITTED", "SNAPSHOT_LOAD", "SNAPSHOT_SAVE"}
    PROVE  FewerNotices(f.queue, Queue(f, <<e>>).queue)
<1> DEFINE g == Queue(f, <<e>>)
<1>1. \A T : e.type \notin T =>
         /\ Ends(g.queue, T) = Ends(f.queue, T)
         /\ NoneOf(g.queue, T) <=> NoneOf(f.queue, T)
  BY QueueTask
<1> HIDE DEF g
<1>2. \A T \in {LeaderNotices, FollowerNotices} : e.type \notin T
  BY DEF LeaderNotices, FollowerNotices
<1>3. FewerNotices(f.queue, g.queue)
  BY <1>1, <1>2 DEF FewerNotices
<1> QED BY <1>3 DEF g

\* The FSMCaller without the task at the head of its queue.
LEMMA RestFacts ==
    ASSUME fsm \in FsmState, fsm.queue # <<>>
    PROVE  /\ Rest \in FsmState /\ Rest.cur = fsm.cur /\ Rest.applied = fsm.applied
           /\ Rest.term = fsm.term /\ Rest.applied_id = fsm.applied_id
           /\ Rest.error = fsm.error /\ Rest.stopped = fsm.stopped
           /\ Head(fsm.queue) \in FsmTask /\ Head(fsm.queue) \in Elements(fsm.queue)
           /\ Elements(Rest.queue) \subseteq Elements(fsm.queue)
           /\ \A t \in Elements(fsm.queue) :
                 t = Head(fsm.queue) \/ t \in Elements(Rest.queue)
           /\ \A T : Ends(Rest.queue, T) \subseteq Ends(fsm.queue, T)
           /\ \A T : Head(fsm.queue).type \notin T /\ NoneOf(Rest.queue, T) =>
                        NoneOf(fsm.queue, T)
           /\ \A T : Head(fsm.queue).type \in T /\ NoneOf(Rest.queue, T) =>
                        Head(fsm.queue) \in Ends(fsm.queue, T)
<1> DEFINE q == fsm.queue
           r == Tail(q)
<1>1. q \in Seq(FsmTask) /\ q # <<>>
  BY DEF FsmState
<1> HIDE DEF q
<1>2. /\ Head(q) \in FsmTask /\ Head(q) = q[1]
      /\ r \in Seq(FsmTask) /\ Len(q) \in Nat \ {0}
      /\ Elements(q) = {Head(q)} \union Elements(r)
  BY <1>1, TailElements
<1>3. r = SubSeq(q, 2, Len(q))
  BY <1>1, TailIsSubSeq
<1> HIDE DEF r
<1>4. /\ Rest \in FsmState /\ Rest.cur = fsm.cur /\ Rest.applied = fsm.applied
      /\ Rest.term = fsm.term /\ Rest.applied_id = fsm.applied_id
      /\ Rest.error = fsm.error /\ Rest.stopped = fsm.stopped /\ Rest.queue = r
  <2>1. Rest = [fsm EXCEPT !.queue = r]
    BY DEF Rest, r, q
  <2> QED BY <1>2, <2>1 DEF FsmState
<1> HIDE DEF Rest
<1>5. ASSUME NEW T
      PROVE  /\ Ends(r, T) \subseteq Ends(q, T)
             /\ Head(q).type \notin T /\ NoneOf(r, T) => NoneOf(q, T)
             /\ Head(q).type \in T /\ NoneOf(r, T) => Head(q) \in Ends(q, T)
  <2>1. 1 \in 0..Len(q) /\ 1 + 1 = 2
    BY <1>2
  <2>2. /\ Ends(SubSeq(q, 1 + 1, Len(q)), T) \subseteq Ends(q, T)
        /\ NoneOf(SubSeq(q, 1 + 1, Len(q)), T) /\ (\A i \in 1..1 : q[i].type \notin T)
              => NoneOf(q, T)
        /\ 1 = 1 /\ NoneOf(SubSeq(q, 2, Len(q)), T) /\ q[1].type \in T
              => q[1] \in Ends(q, T)
    BY <1>1, <2>1, EndsOfRest
  <2>3. \A i \in 1..1 : i = 1
    OBVIOUS
  <2> QED BY <1>2, <1>3, <2>1, <2>2, <2>3
<1> QED BY <1>2, <1>4, <1>5 DEF q

\* The same when the task is not a notice.
LEMMA RestPlain ==
    ASSUME fsm \in FsmState, fsm.queue # <<>>,
           Head(fsm.queue).type \in {"COMMITTED", "SNAPSHOT_LOAD", "SNAPSHOT_SAVE", "ERROR"}
    PROVE  FewerNotices(fsm.queue, Rest.queue)
<1>1. /\ \A T : Ends(Rest.queue, T) \subseteq Ends(fsm.queue, T)
      /\ \A T : Head(fsm.queue).type \notin T /\ NoneOf(Rest.queue, T) =>
                   NoneOf(fsm.queue, T)
  BY RestFacts
<1>2. \A T \in {LeaderNotices, FollowerNotices} : Head(fsm.queue).type \notin T
  BY DEF LeaderNotices, FollowerNotices
<1> QED BY <1>1, <1>2, Zenon DEF FewerNotices

\* A snapshot is asked for.
LEMMA SaveSnapshotKeeps == ASSUME IInv, SaveSnapshot, failed = {} PROVE IInv'
<1> DEFINE e == ApplyTask("SNAPSHOT_SAVE", 0)
           g == Queue(fsm, <<e>>)
<1>1. Kinds /\ Typed
  BY TypeParts, Types DEF IInv
<1>2. /\ fsm' = g
      /\ UNCHANGED <<node, log, box, closures, stable, calls, user, tasks, stored,
                     chosen, failed>>
  BY DEF SaveSnapshot
<1>3. e \in FsmTask /\ e.type = "SNAPSHOT_SAVE" /\ fsm \in FsmState
  BY <1>1, TaskType DEF Kinds
<1> HIDE DEF e
<1>4. /\ g \in FsmState /\ g.cur = fsm.cur /\ g.applied = fsm.applied
      /\ g.term = fsm.term /\ g.applied_id = fsm.applied_id
      /\ g.error = fsm.error /\ g.stopped = fsm.stopped
      /\ \A t \in Elements(g.queue) : t \in Elements(fsm.queue) \/ t = e
      /\ \A t \in Elements(fsm.queue) : t \in Elements(g.queue)
  BY <1>3, QueueTask
<1>5. FewerNotices(fsm.queue, g.queue)
  BY <1>3, PlainTask
<1> HIDE DEF g
<1>6. NoticeInv'
  <2>1. NoticeInv /\ Popped' = Popped
    BY <1>2, <1>4 DEF IInv, Popped, Cur
  <2>2. (\A t : Leads(t) => Leads(t)') /\ (\A t : Follows(t) => Follows(t)')
    BY <1>2 DEF Leads, Follows
  <2> QED BY <1>2, <1>4, <1>5, <2>1, <2>2, NoticeStays
<1>7. /\ node' \in NodeState /\ user' \in UserState
      /\ (Leading' <=> Leading) /\ (Active' => Active)
  BY <1>1, <1>2 DEF Kinds, Leading, Active
<1>8. \A h \in Waiting : h.c.kind = "conf" => node'.state = "LEADER" /\ node'.busy
  BY <1>2 DEF IInv, TaskInv
<1>9. /\ \A t \in Elements(fsm'.queue) :
             t.type \in {"COMMITTED", "SNAPSHOT_LOAD"} => t \in Elements(fsm.queue)
      /\ \A t \in Elements(fsm.queue) :
             t.type = "SNAPSHOT_LOAD" => t \in Elements(fsm'.queue)
  BY <1>2, <1>3, <1>4
<1> QED BY <1>2, <1>4, <1>6, <1>7, <1>8, <1>9, CalmKeeps

\* FSMCaller::on_committed queues what has been committed.
LEMMA OnCommittedKeeps ==
    ASSUME IInv, NEW c \in calls, OnCommitted(c), failed = {} PROVE IInv'
<1> DEFINE e == ApplyTask("COMMITTED", c.arg)
           g == Queue(fsm, <<e>>)
<1>1. Kinds /\ Shape /\ Bounds /\ Typed
  BY TypeParts, Types DEF IInv
<1>2. /\ fsm' = g /\ calls' = calls \ {c} /\ c.op = "on_committed"
      /\ UNCHANGED <<node, log, box, closures, stable, user, tasks, stored,
                     chosen, failed>>
  BY DEF OnCommitted
<1>3. /\ e \in FsmTask /\ e.type = "COMMITTED" /\ e.arg = c.arg /\ fsm \in FsmState
  BY <1>1, TaskType DEF Kinds, Typed
<1> HIDE DEF e
<1>4. /\ g \in FsmState /\ g.cur = fsm.cur /\ g.applied = fsm.applied
      /\ g.term = fsm.term /\ g.applied_id = fsm.applied_id
      /\ g.error = fsm.error /\ g.stopped = fsm.stopped
      /\ \A t \in Elements(g.queue) : t \in Elements(fsm.queue) \/ t = e
      /\ \A t \in Elements(fsm.queue) : t \in Elements(g.queue)
  BY <1>3, QueueTask
<1>5. FewerNotices(fsm.queue, g.queue)
  BY <1>3, PlainTask
<1> HIDE DEF g
<1>6. TypeInv'
  <2>1. Kinds'
    BY <1>1, <1>2, <1>4 DEF Kinds
  <2>2. Shape'
    BY <1>1, <1>2 DEF Shape, Leading
  <2>3. Bounds'
    BY <1>1, <1>2, <1>4 DEF Bounds
  <2> QED BY <1>2, <2>1, <2>2, <2>3, TypePartsNext
<1>7. Typed'
  BY <1>6, TypesNext
<1>8. (Leading' <=> Leading) /\ (Active' <=> Active)
  BY <1>2 DEF Leading, Active
<1>9. LogInv'
  <2>1. LogInv /\ node'.term >= node.term
    BY <1>1, <1>2, TermFacts DEF IInv
  <2>2. \A t \in Elements(fsm'.queue) :
           t.type = "SNAPSHOT_LOAD" => t \in Elements(fsm.queue)
    BY <1>2, <1>3, <1>4
  <2> QED BY <1>1, <1>2, <1>4, <1>7, <1>8, <2>1, <2>2, LogStays
<1>10. KnownInv'
  <2>1. KnownInv /\ \A a \in Nat : Known(a) => Known(a)'
    BY <1>2 DEF IInv, Known
  <2>2. e.arg <= box'.committed
    BY <1>2, <1>3 DEF IInv, KnownInv
  <2>3. \A t \in Elements(fsm'.queue) : t.type = "COMMITTED" =>
           t \in Elements(fsm.queue) \/ t.arg <= box'.committed
    BY <1>2, <1>4, <2>2
  <2>4. Cur'.type = "COMMITTED" =>
           Cur.type = "COMMITTED" /\ Cur'.upto = Cur.upto /\ Cur.upto \in Nat
    <3>1. Cur' = Cur
      BY <1>2, <1>4 DEF Cur
    <3>2. Cur.type = "COMMITTED" => Cur.upto \in Nat
      BY <1>1, CurFacts DEF IInv
    <3> QED BY <3>1, <3>2
  <2>5. box'.committed >= box.committed /\ box'.committed = box.committed
    BY <1>1, <1>2, SameCommitted
  <2>6. Leading' => /\ box'.committed < box'.pending
                    /\ \A d \in calls' : d.op = "set_committed" => d.arg < box'.pending
    BY <1>2, <1>8, <2>1 DEF KnownInv
  <2> QED BY <1>1, <1>2, <1>7, <2>1, <2>3, <2>4, <2>5, <2>6, KnownStays
<1>11. BallotInv'
  BY <1>2, <1>8, BallotStays DEF IInv
<1>12. FsmInv'
  <2>1. /\ FsmInv /\ (fsm'.error => fsm'.cur = Idle)
        /\ (fsm'.stopped \/ fsm'.error => ~Active')
    BY <1>2, <1>4, <1>8 DEF IInv, FsmInv, Cur
  <2>2. Len(chosen) <= Len(chosen')
    BY <1>1, <1>2 DEF Typed
  <2> QED BY <1>1, <1>2, <1>4, <1>7, <2>1, <2>2, FsmStays
<1>13. TaskInv'
  <2>1. TaskInv /\ FsmInv /\ Acked(tasks, user'.applied)
    BY <1>1, <1>2, AckedIs DEF IInv, TaskInv
  <2>2. \A h \in Waiting \union Popped : h.i <= Len(log') /\ log'[h.i] = log[h.i]
    <3>1. ASSUME NEW h \in Waiting \union Popped PROVE h.i <= Len(log)
      <4>1. Fits(h.c, h.i, log, tasks)
        BY <2>1 DEF TaskInv
      <4>2. Len(log) \in Nat /\ h.i \in 1..Len(log)
        BY <1>1, <4>1 DEF Fits, Typed
      <4> QED BY <4>2
    <3> QED BY <1>2, <3>1
  <2>3. \A h \in Waiting : h.c.kind = "conf" =>
           node'.state = "LEADER" /\ node'.busy /\ h.c.n = node'.term
    BY <1>2, <2>1 DEF TaskInv
  <2> QED BY <1>1, <1>2, <1>4, <1>7, <1>8, <2>1, <2>2, <2>3, TaskStays
<1>14. NoticeInv'
  <2>1. NoticeInv /\ Popped' = Popped
    BY <1>2, <1>4 DEF IInv, Popped, Cur
  <2>2. (\A t : Leads(t) => Leads(t)') /\ (\A t : Follows(t) => Follows(t)')
    BY <1>2 DEF Leads, Follows
  <2> QED BY <1>2, <1>4, <1>5, <2>1, <2>2, NoticeStays
<1> QED BY <1>6, <1>9, <1>10, <1>11, <1>12, <1>13, <1>14 DEF IInv

\* FSMCaller::do_snapshot_save.
LEMMA DoSnapshotSaveKeeps == ASSUME IInv, DoSnapshotSave, failed = {} PROVE IInv'
<1>1. Kinds /\ Typed
  BY TypeParts, Types DEF IInv
<1>2. /\ fsm' = Rest /\ fsm.cur = Idle /\ fsm.queue # <<>>
      /\ Head(fsm.queue).type = "SNAPSHOT_SAVE"
      /\ UNCHANGED <<node, log, box, closures, stable, calls, tasks, stored,
                     chosen, failed>>
  BY DEF DoSnapshotSave, FsmIdle
<1>3. fsm \in FsmState /\ user \in UserState
  BY <1>1 DEF Kinds
<1>4. /\ Rest \in FsmState /\ Rest.cur = fsm.cur /\ Rest.applied = fsm.applied
      /\ Rest.term = fsm.term /\ Rest.applied_id = fsm.applied_id
      /\ Rest.error = fsm.error /\ Rest.stopped = fsm.stopped
      /\ Elements(Rest.queue) \subseteq Elements(fsm.queue)
      /\ \A t \in Elements(fsm.queue) :
            t = Head(fsm.queue) \/ t \in Elements(Rest.queue)
  BY <1>2, <1>3, RestFacts
<1>5. FewerNotices(fsm.queue, Rest.queue)
  BY <1>2, <1>3, RestPlain
<1> HIDE DEF Rest
<1>6. /\ user' \in UserState /\ user'.applied = user.applied /\ user'.torn = user.torn
      /\ user'.leading = user.leading /\ user'.following = user.following
  <2>1. CASE fsm.error
    BY <1>3, <2>1 DEF DoSnapshotSave, PassByStatus
  <2>2. CASE ~fsm.error
    <3>1. /\ Len(user.applied) = fsm.applied
          /\ fsm.term = Id(user.applied, fsm.applied).term
      BY <1>2, <2>2 DEF IInv, FsmInv, Cur
    <3>2. Id(user.applied, Len(user.applied)) = [index |-> fsm.applied, term |-> fsm.term]
      BY <3>1 DEF Id
    <3>3. user' = [user EXCEPT !.torn = @ \/ FALSE]
      BY <2>2, <3>2 DEF DoSnapshotSave, PassByStatus
    <3>4. user.torn \in BOOLEAN
      BY <1>1 DEF Typed
    <3> QED BY <1>3, <3>3, <3>4 DEF UserState
  <2> QED BY <2>1, <2>2
<1>7. NoticeInv'
  <2>1. NoticeInv /\ Popped' = Popped
    BY <1>2, <1>4 DEF IInv, Popped, Cur
  <2>2. (\A t : Leads(t) => Leads(t)') /\ (\A t : Follows(t) => Follows(t)')
    BY <1>2 DEF Leads, Follows
  <2> QED BY <1>2, <1>4, <1>5, <1>6, <2>1, <2>2, NoticeStays
<1>8. /\ node' \in NodeState /\ (Leading' <=> Leading) /\ (Active' => Active)
  BY <1>1, <1>2 DEF Kinds, Leading, Active
<1>9. \A h \in Waiting : h.c.kind = "conf" => node'.state = "LEADER" /\ node'.busy
  BY <1>2 DEF IInv, TaskInv
<1>10. /\ \A t \in Elements(fsm'.queue) :
              t.type \in {"COMMITTED", "SNAPSHOT_LOAD"} => t \in Elements(fsm.queue)
       /\ \A t \in Elements(fsm.queue) :
              t.type = "SNAPSHOT_LOAD" => t \in Elements(fsm'.queue)
  BY <1>2, <1>4
<1> QED BY <1>2, <1>4, <1>6, <1>7, <1>8, <1>9, <1>10, CalmKeeps

\* The FSMCaller gives the state machine a notice of its role.
LEMMA DoNoticeKeeps == ASSUME IInv, DoNotice, failed = {} PROVE IInv'
<1> DEFINE h == Head(fsm.queue)
           a == IF h.type = "LEADER_STOP" THEN 0
                ELSE IF h.type = "LEADER_START" THEN h.arg ELSE user.leading
           b == IF h.type = "STOP_FOLLOWING" THEN 0
                ELSE IF h.type = "START_FOLLOWING" THEN h.arg ELSE user.following
<1>1. Kinds /\ Typed
  BY TypeParts, Types DEF IInv
<1>2. /\ fsm' = Rest /\ fsm.cur = Idle /\ fsm.queue # <<>>
      /\ h.type \in {"LEADER_STOP", "LEADER_START", "START_FOLLOWING", "STOP_FOLLOWING"}
      /\ user' = [user EXCEPT !.leading = a, !.following = b]
      /\ UNCHANGED <<node, log, box, closures, stable, calls, tasks, stored,
                     chosen, failed>>
  BY DEF DoNotice, FsmIdle
<1>3. fsm \in FsmState /\ user \in UserState
  BY <1>1 DEF Kinds
<1>4. /\ Rest \in FsmState /\ Rest.cur = fsm.cur /\ Rest.applied = fsm.applied
      /\ Rest.term = fsm.term /\ Rest.applied_id = fsm.applied_id
      /\ Rest.error = fsm.error /\ Rest.stopped = fsm.stopped
      /\ h \in FsmTask
      /\ Elements(Rest.queue) \subseteq Elements(fsm.queue)
      /\ \A t \in Elements(fsm.queue) : t = h \/ t \in Elements(Rest.queue)
      /\ \A T : Ends(Rest.queue, T) \subseteq Ends(fsm.queue, T)
      /\ \A T : h.type \notin T /\ NoneOf(Rest.queue, T) => NoneOf(fsm.queue, T)
      /\ \A T : h.type \in T /\ NoneOf(Rest.queue, T) => h \in Ends(fsm.queue, T)
  BY <1>2, <1>3, RestFacts
<1> HIDE DEF Rest, h
<1>5. a \in Nat /\ b \in Nat
  BY <1>1, <1>4 DEF Typed, FsmTask
<1>6. /\ user' \in UserState /\ user'.applied = user.applied /\ user'.torn = user.torn
      /\ user'.leading = a /\ user'.following = b
  <2> HIDE DEF a, b
  <2> QED BY <1>2, <1>3, <1>5 DEF UserState
<1>7. NoticeInv'
  <2>1. ~fsm.stopped =>
           /\ \A t \in Ends(fsm.queue, LeaderNotices) :
                 t.type = "LEADER_START" => Leads(t.arg)
           /\ NoneOf(fsm.queue, LeaderNotices) =>
                 (user.leading # 0 => Leads(user.leading))
           /\ \A t \in Ends(fsm.queue, FollowerNotices) :
                 t.type = "START_FOLLOWING" => Follows(t.arg)
           /\ NoneOf(fsm.queue, FollowerNotices) =>
                 (user.following # 0 => Follows(user.following))
    BY DEF IInv, NoticeInv
  <2>2. Popped' = {}
    BY <1>2, <1>4 DEF Popped, Cur, Idle
  <2>3. ASSUME ~fsm.stopped, NoneOf(Rest.queue, LeaderNotices), a # 0 PROVE Leads(a)
    <3>1. CASE h.type \in LeaderNotices
      BY <1>4, <2>1, <2>3, <3>1 DEF LeaderNotices
    <3>2. CASE h.type \notin LeaderNotices
      BY <1>4, <2>1, <2>3, <3>2 DEF LeaderNotices
    <3> QED BY <3>1, <3>2
  <2>4. ASSUME ~fsm.stopped, NoneOf(Rest.queue, FollowerNotices), b # 0 PROVE Follows(b)
    <3>1. CASE h.type \in FollowerNotices
      BY <1>4, <2>1, <2>4, <3>1 DEF FollowerNotices
    <3>2. CASE h.type \notin FollowerNotices
      BY <1>4, <2>1, <2>4, <3>2 DEF FollowerNotices
    <3> QED BY <3>1, <3>2
  <2>5. \A t : (Leads(t) <=> Leads(t)') /\ (Follows(t) <=> Follows(t)')
    BY <1>2 DEF Leads, Follows
  <2> HIDE DEF a, b
  <2>6. ~fsm'.stopped =>
           /\ \A t \in Ends(fsm'.queue, LeaderNotices) :
                 t.type = "LEADER_START" => Leads(t.arg)'
           /\ \A t \in Ends(fsm'.queue, FollowerNotices) :
                 t.type = "START_FOLLOWING" => Follows(t.arg)'
    BY <1>2, <1>4, <2>1, <2>5
  <2>7. ~fsm'.stopped /\ NoneOf(fsm'.queue, LeaderNotices) /\ user'.leading # 0
           => node'.state = "LEADER" /\ node'.term = user'.leading
    BY <1>2, <1>4, <1>6, <2>3 DEF Leads
  <2>8. ~fsm'.stopped /\ NoneOf(fsm'.queue, FollowerNotices) /\ user'.following # 0
           => node'.leader = "other" /\ node'.term = user'.following
    BY <1>2, <1>4, <1>6, <2>4 DEF Follows
  <2> QED BY <2>2, <2>6, <2>7, <2>8 DEF NoticeInv, Leads, Follows
<1>8. /\ node' \in NodeState /\ (Leading' <=> Leading) /\ (Active' => Active)
  BY <1>1, <1>2 DEF Kinds, Leading, Active
<1>9. \A g \in Waiting : g.c.kind = "conf" => node'.state = "LEADER" /\ node'.busy
  BY <1>2 DEF IInv, TaskInv
<1>10. /\ \A t \in Elements(fsm'.queue) :
              t.type \in {"COMMITTED", "SNAPSHOT_LOAD"} => t \in Elements(fsm.queue)
       /\ \A t \in Elements(fsm.queue) :
              t.type = "SNAPSHOT_LOAD" => t \in Elements(fsm'.queue)
  BY <1>2, <1>4
<1> QED BY <1>2, <1>4, <1>6, <1>7, <1>8, <1>9, <1>10, CalmKeeps

\* A follower's commit, which is ignored when the node leads by now.
LEMMA SetLastCommittedIndexKeeps ==
    ASSUME IInv, NEW c \in calls, SetLastCommittedIndex(c), failed = {} PROVE IInv'
<1> DEFINE leads == box.pending # 0 \/ box.ballots # <<>>
           newer == ~leads /\ c.arg > box.committed
           d == [op |-> "on_committed", arg |-> c.arg]
<1>1. Kinds /\ Shape /\ Bounds /\ Typed
  BY TypeParts, Types DEF IInv
<1>2. /\ failed' = Check("follower_commit", leads => c.arg < box.pending)
      /\ c.op = "set_committed"
      /\ box' = IF newer THEN [box EXCEPT !.committed = c.arg] ELSE box
      /\ calls' = (calls \ {c}) \union (IF newer THEN {d} ELSE {})
      /\ UNCHANGED <<node, log, closures, stable, fsm, user, tasks, stored, chosen>>
  BY DEF SetLastCommittedIndex
<1>3. c.arg \in Nat /\ Known(c.arg) /\ c.arg <= MaxLog
  <2>1. c.arg \in Nat /\ Len(chosen) \in Nat /\ Len(chosen) <= MaxLog /\ MaxLog \in Nat
    BY <1>1 DEF Typed
  <2>2. Known(c.arg)
    BY <1>2 DEF IInv, KnownInv
  <2> QED BY <2>1, <2>2 DEF Known, Agree
<1>4. Leading <=> leads
  <2>1. box.pending \in Nat
    BY <1>1 DEF Typed
  <2> QED BY <1>1, <2>1 DEF IInv, Shape, BallotInv
<1>5. failed' = {}
  BY <1>2, <1>4 DEF IInv, KnownInv, Check
<1>6. /\ box' \in BoxState /\ box'.pending = box.pending /\ box'.ballots = box.ballots
      /\ box'.committed = IF newer THEN c.arg ELSE box.committed
  BY <1>1, <1>2, <1>3 DEF Kinds, BoxState
<1>7. calls' \subseteq Call /\ \A x \in calls' : x \in calls \/ (newer /\ x = d)
  BY <1>1, <1>2, <1>3 DEF Kinds, Call
<1>8. (Leading' <=> Leading) /\ (Active' <=> Active) /\ (Leading => box' = box)
  BY <1>2, <1>4 DEF Leading, Active
<1>9. d.op = "on_committed" /\ d.arg = c.arg
  OBVIOUS
<1> HIDE DEF leads, d
<1>10. TypeInv'
  <2>1. Kinds'
    BY <1>1, <1>2, <1>6, <1>7 DEF Kinds
  <2>2. Shape'
    BY <1>1, <1>2, <1>6 DEF Shape, Leading
  <2>3. Bounds'
    BY <1>1, <1>2, <1>3, <1>6 DEF Bounds
  <2> QED BY <1>5, <2>1, <2>2, <2>3, TypePartsNext
<1>11. Typed'
  BY <1>10, TypesNext
<1>12. LogInv'
  <2>1. LogInv /\ node'.term >= node.term
    BY <1>1, <1>2, TermFacts DEF IInv
  <2> QED BY <1>1, <1>2, <1>8, <1>11, <2>1, LogStays
<1>13. KnownInv'
  <2>1. KnownInv /\ \A a \in Nat : Known(a) => Known(a)'
    BY <1>2 DEF IInv, Known
  <2>2. box.committed \in Nat /\ Known(box.committed)'
    <3>1. box.committed \in Nat
      BY <1>1 DEF Typed
    <3>2. Agree(chosen, log, box'.committed)
      BY <1>3, <1>6, <2>1 DEF KnownInv, Known
    <3> QED BY <1>2, <3>1, <3>2 DEF Known
  <2>3. box'.committed >= box.committed /\ (newer => box'.committed = c.arg)
    BY <1>3, <1>6, <2>2
  <2>4. \A x \in calls' : \/ x \in calls
                          \/ x.op = "on_committed" /\ x.arg <= box'.committed
    BY <1>3, <1>7, <1>9, <2>3
  <2>5. Cur'.type = "COMMITTED" =>
           Cur.type = "COMMITTED" /\ Cur'.upto = Cur.upto /\ Cur.upto \in Nat
    <3>1. Cur' = Cur
      BY <1>2 DEF Cur
    <3>2. Cur.type = "COMMITTED" => Cur.upto \in Nat
      BY <1>1, CurFacts DEF IInv
    <3> QED BY <3>1, <3>2
  <2>6. Leading' => /\ box'.committed < box'.pending
                    /\ \A x \in calls' : x.op = "set_committed" => x.arg < box'.pending
    BY <1>7, <1>8, <1>9, <2>1 DEF KnownInv
  <2>7. \A t \in Elements(fsm'.queue) : t \in Elements(fsm.queue)
    BY <1>2
  <2>8. \A t \in Elements(stable') : t \in Elements(stable)
    BY <1>2
  <2> QED BY <1>1, <1>11, <2>1, <2>2, <2>3, <2>4, <2>5, <2>6, <2>7, <2>8, KnownStays
<1>14. BallotInv'
  BY <1>2, <1>8, BallotStays DEF IInv
<1>15. FsmInv'
  <2>1. /\ FsmInv /\ (fsm'.error => fsm'.cur = Idle)
        /\ (fsm'.stopped \/ fsm'.error => ~Active')
    BY <1>2, <1>8 DEF IInv, FsmInv, Cur
  <2>2. Len(chosen) <= Len(chosen')
    BY <1>1, <1>2 DEF Typed
  <2> QED BY <1>1, <1>2, <1>11, <2>1, <2>2, FsmStays
<1>16. TaskInv'
  <2>1. TaskInv /\ FsmInv /\ Acked(tasks, user'.applied)
    BY <1>1, <1>2, AckedIs DEF IInv, TaskInv
  <2>2. \A h \in Waiting \union Popped : h.i <= Len(log') /\ log'[h.i] = log[h.i]
    <3>1. ASSUME NEW h \in Waiting \union Popped PROVE h.i <= Len(log)
      <4>1. Fits(h.c, h.i, log, tasks)
        BY <2>1 DEF TaskInv
      <4>2. Len(log) \in Nat /\ h.i \in 1..Len(log)
        BY <1>1, <4>1 DEF Fits, Typed
      <4> QED BY <4>2
    <3> QED BY <1>2, <3>1
  <2>3. \A h \in Waiting : h.c.kind = "conf" =>
           node'.state = "LEADER" /\ node'.busy /\ h.c.n = node'.term
    BY <1>2, <2>1 DEF TaskInv
  <2> QED BY <1>1, <1>2, <1>8, <1>11, <2>1, <2>2, <2>3, TaskStays
<1>17. NoticeInv'
  <2>1. NoticeInv /\ Popped' = Popped
    BY <1>2 DEF IInv, Popped, Cur
  <2>2. (\A t : Leads(t) => Leads(t)') /\ (\A t : Follows(t) => Follows(t)')
    BY <1>2 DEF Leads, Follows
  <2>3. FewerNotices(fsm.queue, fsm'.queue)
    BY <1>2 DEF FewerNotices
  <2> QED BY <1>2, <2>1, <2>2, <2>3, NoticeStays
<1> QED BY <1>10, <1>12, <1>13, <1>14, <1>15, <1>16, <1>17 DEF IInv

\* FSMCaller::do_shutdown.
LEMMA DoShutdownKeeps == ASSUME IInv, DoShutdown, failed = {} PROVE IInv'
<1>1. Kinds /\ Typed
  BY TypeParts, Types DEF IInv
<1>2. /\ node' = [node EXCEPT !.state = "SHUTDOWN"] /\ node.state = "SHUTTING"
      /\ fsm.stopped /\ fsm' = fsm
      /\ UNCHANGED <<log, box, closures, stable, calls, user, tasks, stored,
                     chosen, failed>>
  BY DEF DoShutdown
<1>3. node' \in NodeState /\ node'.state = "SHUTDOWN" /\ node'.term = node.term
  <2>1. node \in NodeState
    BY <1>1 DEF Kinds
  <2> QED BY <1>2, <2>1 DEF NodeState
<1>4. /\ ~Leading' /\ ~Leading /\ ~Active'
      /\ node'.state = "FOLLOWER" <=> node.state = "FOLLOWER"
  BY <1>2, <1>3 DEF Leading, Active
<1>5. \A h \in Waiting : h.c.kind = "conf" => node'.state = "LEADER" /\ node'.busy
  BY <1>2 DEF IInv, TaskInv
<1>6. NoticeInv'
  BY <1>2 DEF NoticeInv
<1>7. fsm' \in FsmState /\ user' \in UserState
  BY <1>1, <1>2 DEF Kinds
<1> QED BY <1>2, <1>3, <1>4, <1>5, <1>6, <1>7, CalmKeeps

\* A task of the queue meets an error: on_error is called.
LEMMA RestErrorKeeps ==
    ASSUME IInv, failed = {}, fsm.cur = Idle, fsm.queue # <<>>,
           Head(fsm.queue).type \in {"SNAPSHOT_LOAD", "ERROR"},
           OnError([Rest EXCEPT !.error = TRUE]), tasks' = Ran(tasks, Dropped, FALSE),
           UNCHANGED <<log, stable, user, stored, chosen, failed>>
    PROVE  IInv'
<1> DEFINE f == [Rest EXCEPT !.error = TRUE]
<1>1. Kinds /\ Shape /\ Bounds /\ Typed
  BY TypeParts, Types DEF IInv
<1>2. fsm \in FsmState /\ user' \in UserState
  BY <1>1 DEF Kinds
<1>3. /\ Rest \in FsmState /\ Rest.cur = fsm.cur /\ Rest.applied = fsm.applied
      /\ Rest.term = fsm.term /\ Rest.applied_id = fsm.applied_id
      /\ Rest.error = fsm.error /\ Rest.stopped = fsm.stopped
      /\ Elements(Rest.queue) \subseteq Elements(fsm.queue)
  BY <1>2, RestFacts
<1>4. FewerNotices(fsm.queue, Rest.queue)
  BY <1>2, RestPlain
<1> HIDE DEF Rest
<1>5. /\ f \in FsmState /\ f.queue = Rest.queue /\ f.cur = fsm.cur
      /\ f.applied = fsm.applied /\ f.term = fsm.term /\ f.applied_id = fsm.applied_id
      /\ f.error /\ f.stopped = fsm.stopped
  BY <1>3 DEF FsmState
<1>6. OnError(f)
  OBVIOUS
<1> HIDE DEF f
<1>7. f.applied <= MaxLog /\ f.applied_id <= MaxLog
  BY <1>1, <1>5 DEF Bounds
<1>8. Ran(tasks, Dropped, FALSE) \in Seq(TaskRecord)
  BY <1>1, EmptySeq, RanFacts DEF Dropped, Typed
<1>9. /\ TypeInv' /\ Typed' /\ LogInv' /\ KnownInv' /\ BallotInv' /\ NoticeInv'
      /\ ~Active' /\ ~Leading' /\ closures'.queue = <<>>
      /\ fsm'.cur = f.cur /\ fsm'.applied = f.applied /\ fsm'.term = f.term
      /\ fsm'.applied_id = f.applied_id /\ fsm'.error = f.error
  <2>1. FewerNotices(fsm.queue, f.queue) /\ f.cur = fsm.cur
    BY <1>4, <1>5
  <2>2. \A e \in Elements(f.queue) :
           e.type \in {"COMMITTED", "SNAPSHOT_LOAD"} => e \in Elements(fsm.queue)
    BY <1>3, <1>5
  <2> QED BY <1>2, <1>5, <1>6, <1>7, <1>8, <2>1, <2>2, OnErrorFrame
<1>10. FsmInv'
  <2>1. FsmInv
    BY DEF IInv
  <2> QED BY <1>1, <1>5, <1>9, <2>1, FsmStays
<1>11. TaskInv'
  <2>1. TaskInv /\ FsmInv
    BY DEF IInv
  <2> QED BY <1>1, <1>5, <1>9, <2>1, TaskDropped
<1> QED BY <1>9, <1>10, <1>11 DEF IInv

\* A task of the queue that is neither a notice nor does anything.
LEMMA RestKeeps ==
    ASSUME IInv, failed = {}, fsm.cur = Idle, fsm.queue # <<>>,
           Head(fsm.queue).type \in {"COMMITTED", "SNAPSHOT_LOAD", "ERROR"},
           fsm' = Rest,
           UNCHANGED <<node, log, box, closures, stable, calls, user, tasks, stored,
                       chosen, failed>>,
           Active => \/ Known(Len(chosen))
                     \/ ApplyTask("SNAPSHOT_LOAD", Len(chosen)) # Head(fsm.queue)
    PROVE  IInv'
<1>1. Kinds /\ Typed
  BY TypeParts, Types DEF IInv
<1>2. fsm \in FsmState /\ user' \in UserState /\ node' \in NodeState
  BY <1>1 DEF Kinds
<1>3. /\ Rest \in FsmState /\ Rest.cur = fsm.cur /\ Rest.applied = fsm.applied
      /\ Rest.term = fsm.term /\ Rest.applied_id = fsm.applied_id
      /\ Rest.error = fsm.error /\ Rest.stopped = fsm.stopped
      /\ Elements(Rest.queue) \subseteq Elements(fsm.queue)
      /\ \A t \in Elements(fsm.queue) :
            t = Head(fsm.queue) \/ t \in Elements(Rest.queue)
  BY <1>2, RestFacts
<1>4. FewerNotices(fsm.queue, Rest.queue)
  BY <1>2, RestPlain
<1> HIDE DEF Rest
<1>5. NoticeInv'
  <2>1. NoticeInv /\ Popped' = Popped
    BY <1>3 DEF IInv, Popped, Cur
  <2>2. (\A t : Leads(t) => Leads(t)') /\ (\A t : Follows(t) => Follows(t)')
    BY DEF Leads, Follows
  <2> QED BY <1>3, <1>4, <2>1, <2>2, NoticeStays
<1>6. (Leading' <=> Leading) /\ (Active' <=> Active)
  BY DEF Leading, Active
<1>7. Active' => \/ Known(Len(chosen))
                 \/ ApplyTask("SNAPSHOT_LOAD", Len(chosen)) \in Elements(fsm'.queue)
  BY <1>3, <1>6 DEF IInv, LogInv
<1>8. \A h \in Waiting : h.c.kind = "conf" => node'.state = "LEADER" /\ node'.busy
  BY DEF IInv, TaskInv
<1>9. \A t \in Elements(fsm'.queue) : t \in Elements(fsm.queue)
  BY <1>3
<1> QED BY <1>2, <1>3, <1>5, <1>6, <1>7, <1>8, <1>9, CalmKeeps

\* FSMCaller::do_on_error.
LEMMA DoOnErrorKeeps == ASSUME IInv, DoOnError, failed = {} PROVE IInv'
<1>1. /\ fsm.cur = Idle /\ fsm.queue # <<>> /\ Head(fsm.queue).type = "ERROR"
      /\ UNCHANGED <<log, stable, user, stored, chosen, failed>>
  BY DEF DoOnError, FsmIdle
<1>2. CASE fsm.error
  <2>1. fsm' = Rest /\ UNCHANGED <<node, box, closures, calls, tasks>>
    BY <1>2 DEF DoOnError
  <2>2. ApplyTask("SNAPSHOT_LOAD", Len(chosen)) # Head(fsm.queue)
    BY <1>1, TaskType
  <2> QED BY <1>1, <2>1, <2>2, RestKeeps
<1>3. CASE ~fsm.error
  <2>1. OnError([Rest EXCEPT !.error = TRUE]) /\ tasks' = Ran(tasks, Dropped, FALSE)
    BY <1>3 DEF DoOnError
  <2> QED BY <1>1, <2>1, RestErrorKeeps
<1> QED BY <1>2, <1>3

\* What is loaded is not older than what is applied, unless it is refused.
LEMMA LoadFacts ==
    ASSUME Typed, LogInv, FsmInv, fsm.cur = Idle, ~fsm.error, NEW i \in 1..Len(chosen)
    PROVE  /\ ~StaleSnapshot(Id(chosen, i)) => fsm.applied <= i
           /\ i = Len(chosen) => ~StaleSnapshot(Id(chosen, i))
<1>1. /\ Len(user.applied) = fsm.applied /\ fsm.term = Id(user.applied, fsm.applied).term
      /\ Agree(user.applied, chosen, fsm.applied)
  <2>1. Len(user.applied) = fsm.applied /\ fsm.term = Id(user.applied, fsm.applied).term
    BY DEF FsmInv, Cur
  <2> QED BY <2>1 DEF FsmInv
<1>2. /\ fsm.applied \in Nat /\ Len(chosen) \in Nat /\ i \in Nat \ {0}
      /\ \A j \in 1..Len(chosen) : chosen[j].term \in Nat
  <2>1. /\ fsm.applied \in Nat /\ Len(chosen) \in Nat
        /\ \A j \in 1..Len(chosen) : chosen[j].term \in Nat
    BY DEF Typed
  <2>2. i \in Nat \ {0}
    BY <2>1
  <2> QED BY <2>1, <2>2
<1>3. Id(chosen, i).term = chosen[i].term /\ Id(chosen, i).index = i
  BY <1>2 DEF Id
<1>4. fsm.term = IF fsm.applied = 0 THEN 0 ELSE chosen[fsm.applied].term
  <2>1. fsm.applied # 0 => fsm.applied \in 1..fsm.applied
    BY <1>2
  <2> QED BY <1>1, <2>1 DEF Id, Agree
<1>5. fsm.applied <= Len(chosen)
  BY <1>1 DEF Agree
<1>6. \A j, k \in 1..Len(chosen) : j <= k => chosen[j].term <= chosen[k].term
  BY DEF LogInv, Sorted
<1>7. StaleSnapshot(Id(chosen, i)) <=> \/ fsm.term > chosen[i].term
                                       \/ fsm.term = chosen[i].term /\ fsm.applied > i
  BY <1>3 DEF StaleSnapshot
<1>8. ASSUME fsm.applied > i PROVE StaleSnapshot(Id(chosen, i))
  <2>1. fsm.applied \in 1..Len(chosen) /\ fsm.applied # 0
    BY <1>2, <1>5, <1>8
  <2>2. chosen[i].term <= fsm.term /\ fsm.term \in Nat /\ chosen[i].term \in Nat
    BY <1>2, <1>4, <1>6, <1>8, <2>1
  <2> QED BY <1>7, <1>8, <2>2
<1>9. ASSUME i = Len(chosen) PROVE ~StaleSnapshot(Id(chosen, i))
  <2>1. ~(fsm.applied > i)
    BY <1>2, <1>5, <1>9
  <2>2. chosen[i].term \in Nat /\ fsm.term \in Nat /\ fsm.term <= chosen[i].term
    <3>1. CASE fsm.applied = 0
      BY <1>2, <1>4, <3>1
    <3>2. CASE fsm.applied # 0
      <4>1. fsm.applied \in 1..Len(chosen) /\ fsm.applied <= i
        BY <1>2, <1>5, <1>9, <3>2
      <4> QED BY <1>2, <1>4, <1>6, <3>2, <4>1
    <3> QED BY <3>1, <3>2
  <2> QED BY <1>7, <2>1, <2>2
<1> QED BY <1>2, <1>8, <1>9

\* A snapshot that has been loaded puts the state machine at its index.
LEMMA LoadedKeeps ==
    ASSUME IInv, failed = {}, fsm.cur = Idle, fsm.queue # <<>>, ~fsm.error,
           NEW i \in 1..Len(chosen), Head(fsm.queue) = ApplyTask("SNAPSHOT_LOAD", i),
           ~StaleSnapshot(Id(chosen, i)),
           fsm' = [Rest EXCEPT !.applied = i, !.term = Id(chosen, i).term,
                          !.applied_id = IF i > @ THEN i ELSE @],
           user' = [user EXCEPT !.applied = Prefix(i)],
           log' = IF i <= Len(log) /\ log[i] = chosen[i] THEN log ELSE Prefix(i),
           UNCHANGED <<node, box, closures, stable, calls, tasks, stored, chosen, failed>>
    PROVE  IInv'
<1> DEFINE kept == i <= Len(log) /\ log[i] = chosen[i]
<1>1. Kinds /\ Shape /\ Bounds /\ Typed
  BY TypeParts, Types DEF IInv
<1>2. fsm \in FsmState /\ user \in UserState
  BY <1>1 DEF Kinds
<1>3. /\ Rest \in FsmState /\ Rest.cur = fsm.cur /\ Rest.applied = fsm.applied
      /\ Rest.term = fsm.term /\ Rest.applied_id = fsm.applied_id
      /\ Rest.error = fsm.error /\ Rest.stopped = fsm.stopped
      /\ Elements(Rest.queue) \subseteq Elements(fsm.queue)
      /\ \A t \in Elements(fsm.queue) :
            t = Head(fsm.queue) \/ t \in Elements(Rest.queue)
  BY <1>2, RestFacts
<1>4. FewerNotices(fsm.queue, Rest.queue)
  BY <1>2, RestPlain, TaskType
<1> HIDE DEF Rest
<1>5. /\ log \in Logs /\ Len(log) \in Nat /\ chosen \in Logs /\ Len(chosen) \in Nat
      /\ Len(chosen) <= MaxLog /\ i \in Nat \ {0} /\ i <= Len(chosen)
      /\ fsm.applied \in Nat /\ fsm.applied_id \in Nat
      /\ \A j \in 1..Len(chosen) : chosen[j].term \in Nat
  <2>1. /\ log \in Logs /\ Len(log) \in Nat /\ chosen \in Logs /\ Len(chosen) \in Nat
        /\ Len(chosen) <= MaxLog /\ fsm.applied \in Nat /\ fsm.applied_id \in Nat
        /\ \A j \in 1..Len(chosen) : chosen[j].term \in Nat
    BY <1>1 DEF Typed
  <2>2. i \in Nat \ {0} /\ i <= Len(chosen)
    BY <2>1
  <2> QED BY <2>1, <2>2
<1>6. fsm.applied <= i /\ fsm.applied_id <= i
  <2>1. fsm.applied <= i
    BY <1>1, LoadFacts DEF IInv
  <2>2. fsm.applied_id <= fsm.applied
    BY DEF IInv, FsmInv
  <2> QED BY <1>5, <2>1, <2>2
<1>7. /\ Prefix(i) \in Logs /\ Len(Prefix(i)) = i
      /\ \A j \in 1..i : Prefix(i)[j] = chosen[j]
  <2>1. i \in 0..Len(chosen)
    BY <1>5
  <2> QED BY <1>5, <2>1, PrefixFacts DEF Prefix
<1>8. /\ fsm' \in FsmState /\ fsm'.queue = Rest.queue /\ fsm'.cur = Idle
      /\ fsm'.applied = i /\ fsm'.term = Id(chosen, i).term /\ fsm'.applied_id = i
      /\ ~fsm'.error /\ fsm'.stopped = fsm.stopped
  <2> DEFINE a == IF i > Rest.applied_id THEN i ELSE Rest.applied_id
             t == Id(chosen, i).term
  <2>1. a = i /\ t \in Nat
    BY <1>3, <1>5, <1>6 DEF Id
  <2>2. fsm' = [Rest EXCEPT !.applied = i, !.term = t, !.applied_id = a]
    BY <1>3
  <2> HIDE DEF a, t
  <2>3. i \in Nat
    BY <1>5
  <2>4. /\ fsm' \in FsmState /\ fsm'.queue = Rest.queue /\ fsm'.cur = Idle
        /\ fsm'.applied = i /\ fsm'.term = t /\ fsm'.applied_id = i
        /\ ~fsm'.error /\ fsm'.stopped = fsm.stopped
    BY <1>3, <2>1, <2>2, <2>3 DEF FsmState
  <2> QED BY <2>4 DEF t
<1>9. /\ user' \in UserState /\ user'.applied = Prefix(i) /\ user'.torn = user.torn
      /\ user'.leading = user.leading /\ user'.following = user.following
  BY <1>2, <1>7 DEF UserState
<1>10. (Leading' <=> Leading) /\ (Active' <=> Active)
  BY DEF Leading, Active
<1>11. log' \in Logs /\ (kept => log' = log) /\ (~kept => log' = Prefix(i))
  BY <1>5, <1>7
<1>12. ASSUME NEW a \in Nat, Known(a)
       PROVE  Known(a)' /\ (~kept => a < i)
  <2>1. a <= Len(chosen) /\ a <= Len(log) /\ \A j \in 1..a : chosen[j] = log[j]
    BY <1>12 DEF Known, Agree
  <2>2. ASSUME ~kept PROVE a < i
    <3>1. i <= a => i \in 1..a /\ i <= Len(log)
      BY <1>5, <2>1
    <3> QED BY <1>5, <2>1, <2>2, <3>1
  <2>3. CASE kept
    BY <1>11, <1>12, <2>3 DEF Known
  <2>4. CASE ~kept
    <3>1. log' = Prefix(i) /\ a < i /\ \A j \in 1..a : j \in 1..i
      BY <1>5, <1>11, <2>2, <2>4
    <3> QED BY <1>5, <1>7, <2>1, <3>1 DEF Known, Agree
  <2> QED BY <2>2, <2>3, <2>4
<1>13. Leading => kept
  <2>1. ASSUME Leading PROVE Known(Len(chosen))
    BY <2>1 DEF IInv, LogInv, Leading, Active
  <2> QED BY <1>5, <1>12, <2>1
<1> HIDE DEF kept
<1>14. TypeInv'
  <2>1. Kinds'
    BY <1>1, <1>8, <1>9, <1>11 DEF Kinds
  <2>2. Shape'
    BY <1>1, <1>11, <1>13 DEF Shape, Leading
  <2>3. Bounds'
    BY <1>1, <1>5, <1>8, PipelineAssumption DEF Bounds
  <2> QED BY <2>1, <2>2, <2>3, TypePartsNext
<1>15. Typed'
  BY <1>14, TypesNext
<1>16. LogInv'
  <2>0. LogInv /\ node.term \in Nat
    BY <1>1 DEF IInv, Typed
  <2>1. \A j \in 1..i : j \in 1..Len(chosen)
    BY <1>5
  <2>2. Sorted(log')
    BY <1>7, <1>11, <2>0, <2>1 DEF LogInv, Sorted
  <2>3. UpTo(log', node'.term)
    BY <1>7, <1>11, <2>0, <2>1 DEF LogInv, UpTo
  <2>4. \A t \in Elements(fsm'.queue) : t.type = "SNAPSHOT_LOAD" => t.arg \in 1..Len(chosen')
    BY <1>3, <1>8, <2>0 DEF LogInv
  <2>5. ASSUME Active', ~Known(Len(chosen))'
        PROVE  /\ node'.state = "FOLLOWER" /\ Len(chosen') > 0
               /\ Agree(chosen', log', Len(chosen') - 1)
               /\ ApplyTask("SNAPSHOT_LOAD", Len(chosen')) \in Elements(fsm'.queue)
    <3>1. ~Known(Len(chosen))
      BY <1>5, <1>12, <2>5
    <3>2. /\ node.state = "FOLLOWER" /\ Len(chosen) > 0 /\ Known(Len(chosen) - 1)
          /\ ApplyTask("SNAPSHOT_LOAD", Len(chosen)) \in Elements(fsm.queue)
      BY <1>10, <2>0, <2>5, <3>1 DEF LogInv
    <3>3. Len(chosen) - 1 \in Nat
      BY <1>5, <3>2
    <3>4. Known(Len(chosen) - 1)' /\ (~kept => Len(chosen) - 1 < i)
      <4> DEFINE b == Len(chosen) - 1
      <4>1. b \in Nat /\ Known(b)
        BY <3>2, <3>3
      <4>2. Known(b) => Agree(chosen', log', b)
        <5> HIDE DEF b
        <5> QED BY <1>12, <4>1 DEF Known
      <4>3. ~kept => b < i
        <5> HIDE DEF b
        <5> QED BY <1>12, <4>1
      <4> QED BY <4>1, <4>2, <4>3 DEF Known
    <3>5. i # Len(chosen)
      <4>1. ASSUME i = Len(chosen), kept PROVE FALSE
        <5>1. \A j \in 1..Len(chosen) : j \in 1..Len(chosen) - 1 \/ j = i
          BY <1>5, <4>1
        <5>2. Known(Len(chosen))
          BY <1>5, <3>2, <4>1, <5>1 DEF Known, Agree, kept
        <5> QED BY <3>1, <5>2
      <4>2. ASSUME i = Len(chosen), ~kept PROVE FALSE
        <5>1. Agree(chosen', log', Len(chosen'))
          BY <1>5, <1>7, <1>11, <4>2 DEF Agree
        <5> QED BY <2>5, <5>1 DEF Known
      <4> QED BY <4>1, <4>2
    <3>6. ApplyTask("SNAPSHOT_LOAD", Len(chosen)) # Head(fsm.queue)
      BY <3>5, TaskType
    <3> QED BY <1>3, <1>8, <3>2, <3>4, <3>6 DEF Known
  <2>6. Active' => \/ Known(Len(chosen))'
                   \/ /\ node'.state = "FOLLOWER" /\ Len(chosen') > 0
                      /\ Known(Len(chosen) - 1)'
                      /\ ApplyTask("SNAPSHOT_LOAD", Len(chosen')) \in Elements(fsm'.queue)
    BY <2>5 DEF Known
  <2> QED BY <2>0, <2>2, <2>3, <2>4, <2>6 DEF LogInv
<1>17. KnownInv'
  <2>1. KnownInv /\ \A a \in Nat : Known(a) => Known(a)'
    BY <1>12 DEF IInv
  <2>2. \A t \in Elements(fsm'.queue) : t \in Elements(fsm.queue)
    BY <1>3, <1>8
  <2>3. Cur'.type # "COMMITTED"
    BY <1>8 DEF Cur, Idle
  <2>4. box'.committed >= box.committed /\ box'.committed = box.committed
    BY <1>1, SameCommitted
  <2>5. Leading' => /\ box'.committed < box'.pending
                    /\ \A d \in calls' : d.op = "set_committed" => d.arg < box'.pending
    BY <1>10, <2>1 DEF KnownInv
  <2>6. \A c \in Elements(stable') : c \in Elements(stable)
    OBVIOUS
  <2> QED BY <1>1, <1>15, <2>1, <2>2, <2>3, <2>4, <2>5, <2>6, KnownStays
<1>18. BallotInv'
  BY <1>10, <1>11, <1>13, BallotStays DEF IInv
<1>19. FsmInv'
  <2>1. /\ FsmInv /\ (fsm'.stopped => ~Active')
    BY <1>8, <1>10 DEF IInv, FsmInv
  <2>2. Agree(user'.applied, chosen', Len(user'.applied))
    BY <1>5, <1>7, <1>9 DEF Agree
  <2>3. Id(user'.applied, fsm'.applied).term = fsm'.term
    <3>1. i # 0 /\ i \in 1..i
      BY <1>5
    <3> QED BY <1>7, <1>8, <1>9, <3>1 DEF Id
  <2>4. fsm'.applied_id <= Len(user'.applied) /\ Len(user'.applied) = fsm'.applied
        /\ fsm'.applied_id <= fsm'.applied
    BY <1>5, <1>7, <1>8, <1>9
  <2> QED BY <1>8, <1>9, <2>1, <2>2, <2>3, <2>4 DEF FsmInv, Cur, Idle
<1>20. TaskInv'
  <2>1. TaskInv /\ FsmInv
    BY DEF IInv
  <2>2. Acked(tasks, user'.applied)
    <3>1. Acked(tasks, user.applied)
      BY <1>1, <2>1, AckedIs DEF TaskInv
    <3>2. Len(user.applied) = fsm.applied /\ Agree(user.applied, chosen, Len(user.applied))
      BY <2>1 DEF FsmInv, Cur
    <3>3. Agree(user.applied, Prefix(i), Len(user.applied))
      <4>1. \A j \in 1..Len(user.applied) : j \in 1..i
        BY <1>5, <1>6, <3>2
      <4> QED BY <1>5, <1>6, <1>7, <3>2, <4>1 DEF Agree
    <3>4. user.applied \in Logs /\ tasks \in Seq(TaskRecord)
      BY <1>1 DEF Typed
    <3> QED BY <1>7, <1>9, <3>1, <3>3, <3>4, AckedGrows
  <2>3. Popped = {}
    BY DEF Popped, Cur, Idle
  <2>4. \A h \in Waiting : Leading
    <3>1. ~Leading => 1..Len(closures.queue) = {}
      BY <1>1, EmptySeq DEF Shape
    <3> QED BY <3>1 DEF Waiting
  <2>5. \A h \in Waiting \union Popped : h.i <= Len(log') /\ log'[h.i] = log[h.i]
    <3>1. ASSUME NEW h \in Waiting \union Popped PROVE h.i <= Len(log) /\ log' = log
      <4>1. Fits(h.c, h.i, log, tasks)
        BY <2>1 DEF TaskInv
      <4>2. Len(log) \in Nat /\ h.i \in 1..Len(log)
        BY <1>5, <4>1 DEF Fits
      <4> QED BY <1>11, <1>13, <2>3, <2>4, <4>2
    <3> QED BY <3>1
  <2>6. \A h \in Waiting : h.c.kind = "conf" =>
           node'.state = "LEADER" /\ node'.busy /\ h.c.n = node'.term
    BY <2>1 DEF TaskInv
  <2> QED BY <1>1, <1>8, <1>10, <1>11, <1>13, <1>15, <2>1, <2>2, <2>5, <2>6, TaskStays
<1>21. NoticeInv'
  <2>1. NoticeInv /\ Popped' = {}
    BY <1>8 DEF IInv, Popped, Cur, Idle
  <2>2. (\A t : Leads(t) => Leads(t)') /\ (\A t : Follows(t) => Follows(t)')
    BY DEF Leads, Follows
  <2> QED BY <1>4, <1>8, <1>9, <2>1, <2>2, NoticeStays
<1> QED BY <1>14, <1>16, <1>17, <1>18, <1>19, <1>20, <1>21 DEF IInv

\* FSMCaller::do_snapshot_load.
LEMMA DoSnapshotLoadKeeps == ASSUME IInv, DoSnapshotLoad, failed = {} PROVE IInv'
<1> DEFINE i == Head(fsm.queue).arg
           id == Id(chosen, i)
           kept == i <= Len(log) /\ log[i] = chosen[i]
<1>1. /\ fsm.cur = Idle /\ fsm.queue # <<>> /\ Head(fsm.queue).type = "SNAPSHOT_LOAD"
      /\ UNCHANGED <<stable, stored, chosen, failed>>
      /\ \/ /\ ~PassByStatus \/ StaleSnapshot(id)
            /\ fsm' = Rest
            /\ UNCHANGED <<node, log, box, closures, calls, user, tasks>>
         \/ /\ PassByStatus /\ ~StaleSnapshot(id)
            /\ fsm' = [Rest EXCEPT !.applied = i, !.term = id.term,
                         !.applied_id = IF i > @ THEN i ELSE @]
            /\ user' = [user EXCEPT !.applied = Prefix(i)]
            /\ log' = IF kept THEN log ELSE Prefix(i)
            /\ UNCHANGED <<node, box, closures, calls, tasks>>
         \/ /\ PassByStatus /\ "load" \in Failures
            /\ tasks' = Ran(tasks, Dropped, FALSE)
            /\ OnError([Rest EXCEPT !.error = TRUE])
            /\ UNCHANGED <<log, user>>
  BY DEF DoSnapshotLoad, FsmIdle
<1>2. Kinds /\ Typed
  BY TypeParts, Types DEF IInv
<1>3. i \in 1..Len(chosen) /\ Head(fsm.queue) = ApplyTask("SNAPSHOT_LOAD", i)
  <2>1. fsm \in FsmState
    BY <1>2 DEF Kinds
  <2>2. Head(fsm.queue) \in FsmTask /\ Head(fsm.queue) \in Elements(fsm.queue)
    BY <1>1, <2>1, RestFacts
  <2> QED BY <1>1, <2>2 DEF IInv, LogInv, FsmTask, ApplyTask
<1>4. CASE /\ ~PassByStatus \/ StaleSnapshot(id)
           /\ fsm' = Rest
           /\ UNCHANGED <<node, log, box, closures, calls, user, tasks>>
  <2>1. Active => i # Len(chosen)
    <3>1. Active => PassByStatus
      BY DEF IInv, FsmInv, PassByStatus
    <3>2. PassByStatus /\ i = Len(chosen) => ~StaleSnapshot(id)
      BY <1>1, <1>2, <1>3, LoadFacts DEF IInv, PassByStatus
    <3> QED BY <1>4, <3>1, <3>2
  <2>2. Active => ApplyTask("SNAPSHOT_LOAD", Len(chosen)) # Head(fsm.queue)
    BY <1>3, <2>1, TaskType
  <2> QED BY <1>1, <1>4, <2>2, RestKeeps
<1>5. CASE /\ PassByStatus /\ ~StaleSnapshot(id)
           /\ fsm' = [Rest EXCEPT !.applied = i, !.term = id.term,
                        !.applied_id = IF i > @ THEN i ELSE @]
           /\ user' = [user EXCEPT !.applied = Prefix(i)]
           /\ log' = IF kept THEN log ELSE Prefix(i)
           /\ UNCHANGED <<node, box, closures, calls, tasks>>
  <2>1. ~fsm.error
    BY <1>5 DEF PassByStatus
  <2> QED BY <1>1, <1>3, <1>5, <2>1, LoadedKeeps
<1>6. CASE /\ PassByStatus /\ "load" \in Failures
           /\ tasks' = Ran(tasks, Dropped, FALSE)
           /\ OnError([Rest EXCEPT !.error = TRUE])
           /\ UNCHANGED <<log, user>>
  BY <1>1, <1>6, RestErrorKeeps
<1> QED BY <1>1, <1>4, <1>5, <1>6

\* What a step of a follower keeps that changes neither the closures nor the
\* state machine: the logs may only change after what is chosen.
LEMMA FollowerFrame ==
    ASSUME IInv, failed = {}, node.state = "FOLLOWER",
           node' \in NodeState, node'.state = "FOLLOWER", node'.term = node.term,
           UNCHANGED <<box, closures, user, tasks, stored, failed>>,
           log' \in Logs, chosen' \in Logs, Len(chosen) <= Len(chosen'),
           \A j \in 1..Len(chosen) : chosen'[j] = chosen[j],
           \A j \in 1..Len(log) : j <= Len(chosen) => j <= Len(log') /\ log'[j] = log[j],
           fsm' \in FsmState, fsm'.cur = fsm.cur, fsm'.applied = fsm.applied,
           fsm'.term = fsm.term, fsm'.applied_id = fsm.applied_id,
           fsm'.error = fsm.error, fsm'.stopped = fsm.stopped,
           \A t \in Elements(fsm'.queue) : t \in Elements(fsm.queue) \/ t.type # "COMMITTED",
           calls' \subseteq Call, stable' \in Seq(StableClosure),
           \A c \in calls' : c \in calls \/ (c.op = "set_committed" /\ Known(c.arg)'),
           \A c \in Elements(stable') :
              c \in Elements(stable) \/ (c.op = "follower" => Known(c.committed)')
    PROVE  /\ TypeInv' /\ Typed' /\ KnownInv' /\ BallotInv' /\ FsmInv' /\ TaskInv'
           /\ \A a \in Nat : Known(a) => Known(a)'
<1>1. Kinds /\ Shape /\ Bounds /\ Typed
  BY TypeParts, Types DEF IInv
<1>2. ~Leading /\ ~Leading' /\ Active /\ Active'
  BY DEF Leading, Active
<1>3. TypeInv'
  <2>1. Kinds'
    BY <1>1 DEF Kinds
  <2>2. Shape'
    BY <1>1, <1>2 DEF Shape
  <2>3. Bounds'
    BY <1>1 DEF Bounds
  <2> QED BY <2>1, <2>2, <2>3, TypePartsNext
<1>4. Typed'
  BY <1>3, TypesNext
<1>5. \A a \in Nat : Known(a) => Known(a)'
  BY <1>1, <1>4, KnownGrows
<1>6. KnownInv'
  <2>1. KnownInv /\ box.committed \in Nat
    BY <1>1 DEF IInv, Typed
  <2>2. box'.committed >= box.committed /\ box'.committed = box.committed
    BY <2>1
  <2>3. Cur'.type = "COMMITTED" =>
           Cur.type = "COMMITTED" /\ Cur'.upto = Cur.upto /\ Cur.upto \in Nat
    <3>1. Cur' = Cur
      BY DEF Cur
    <3>2. Cur.type = "COMMITTED" => Cur.upto \in Nat
      BY <1>1, CurFacts DEF IInv
    <3> QED BY <3>1, <3>2
  <2> QED BY <1>1, <1>2, <1>4, <1>5, <2>1, <2>2, <2>3, KnownStays
<1>7. BallotInv'
  BY <1>2 DEF BallotInv
<1>8. FsmInv'
  <2>1. /\ FsmInv /\ (fsm'.error => fsm'.cur = Idle)
        /\ (fsm'.stopped \/ fsm'.error => ~Active')
    BY <1>2 DEF IInv, FsmInv, Cur
  <2> QED BY <1>1, <1>4, <2>1, FsmStays
<1>9. TaskInv'
  <2>1. TaskInv /\ FsmInv /\ KnownInv /\ Acked(tasks, user'.applied)
    BY <1>1, AckedIs DEF IInv, TaskInv
  <2>2. Waiting = {}
    <3>1. 1..Len(closures.queue) = {}
      BY <1>1, <1>2, EmptySeq DEF Shape
    <3> QED BY <3>1 DEF Waiting
  <2>3. ASSUME NEW h \in Popped PROVE h.i <= Len(log') /\ log'[h.i] = log[h.i]
    <3>1. /\ Cur.type = "COMMITTED" /\ h.i \in Cur.index..Cur.upto /\ h.i \in Nat
          /\ Fits(h.c, h.i, log, tasks)
      BY <1>1, <2>1, KeptFacts
    <3>2. Cur.upto \in Nat /\ Cur.upto <= box.committed /\ Known(box.committed)
      BY <1>1, <2>1, <3>1, CurFacts DEF KnownInv
    <3>3. box.committed \in Nat /\ Len(chosen) \in Nat
      BY <1>1 DEF Typed
    <3>4. box.committed <= Len(chosen)
      BY <3>2 DEF Known, Agree
    <3>5. h.i <= Len(chosen)
      <4>1. h.i <= Cur.upto /\ Cur.index \in Nat
        BY <1>1, <2>1, <3>1, <3>2, CurFacts
      <4> QED BY <3>1, <3>2, <3>3, <3>4, <4>1
    <3>6. h.i \in 1..Len(log)
      BY <3>1 DEF Fits
    <3> QED BY <3>5, <3>6
  <2> QED BY <1>1, <1>2, <1>4, <2>1, <2>2, <2>3, TaskStays
<1> QED BY <1>3, <1>4, <1>5, <1>6, <1>7, <1>8, <1>9

\* A follower is sent a snapshot of what is chosen.
LEMMA InstallSnapshotKeeps ==
    ASSUME IInv, NEW i \in 1..Least(Len(chosen) + 1, MaxLog), InstallSnapshot(i),
           failed = {}
    PROVE  IInv'
<1> DEFINE e == ApplyTask("SNAPSHOT_LOAD", i)
           g == Queue(fsm, <<e>>)
           x == [term |-> node.term, type |-> "data"]
<1>1. Kinds /\ Typed
  BY TypeParts, Types DEF IInv
<1>2. /\ node.state = "FOLLOWER" /\ ~SnapshotQueued /\ fsm' = g
      /\ chosen' = IF i <= Len(chosen) THEN chosen ELSE Append(chosen, x)
      /\ UNCHANGED <<node, log, box, closures, stable, calls, user, tasks, stored,
                     failed>>
  BY DEF InstallSnapshot
<1>3. /\ Len(chosen) \in Nat /\ MaxLog \in Nat /\ chosen \in Logs /\ log \in Logs
      /\ node.term \in Nat /\ \A j \in 1..Len(chosen) : chosen[j].term \in Nat
  BY <1>1 DEF Typed
<1>4. i \in Nat \ {0} /\ i <= Len(chosen) + 1 /\ i <= MaxLog
  BY <1>3 DEF Least
<1>5. e \in FsmTask /\ e.type = "SNAPSHOT_LOAD" /\ e.arg = i /\ fsm \in FsmState
  BY <1>1, <1>4, TaskType DEF Kinds
<1>6. x \in Entry /\ x.term = node.term
  BY <1>1, TermFacts DEF Entry
<1>7. /\ g \in FsmState /\ g.cur = fsm.cur /\ g.applied = fsm.applied
      /\ g.term = fsm.term /\ g.applied_id = fsm.applied_id
      /\ g.error = fsm.error /\ g.stopped = fsm.stopped
      /\ \A t \in Elements(g.queue) : t \in Elements(fsm.queue) \/ t = e
      /\ \A t \in Elements(fsm.queue) : t \in Elements(g.queue)
      /\ ~fsm.stopped => e \in Elements(g.queue)
  <2> HIDE DEF e
  <2> QED BY <1>5, QueueTask
<1>8. FewerNotices(fsm.queue, g.queue)
  <2> HIDE DEF e
  <2> QED BY <1>5, PlainTask
<1> HIDE DEF g, x
<1>9. /\ chosen' \in Logs /\ Len(chosen') \in Nat /\ Len(chosen) <= Len(chosen')
      /\ i <= Len(chosen') /\ \A j \in 1..Len(chosen) : chosen'[j] = chosen[j]
      /\ \/ Len(chosen') = Len(chosen)
         \/ Len(chosen') = i /\ i = Len(chosen) + 1 /\ chosen'[i] = x
  <2>1. CASE i <= Len(chosen)
    BY <1>2, <1>3, <2>1
  <2>2. CASE ~(i <= Len(chosen))
    <3>1. i = Len(chosen) + 1 /\ chosen' = Append(chosen, x)
      BY <1>2, <1>3, <1>4, <2>2
    <3>2. Len(Append(chosen, x)) <= MaxLog
      <4>1. chosen \in Seq(Entry)
        BY <1>3, LogType
      <4> QED BY <1>4, <1>6, <3>1, <4>1, AppendElements
    <3>3. /\ Append(chosen, x) \in Logs /\ Len(Append(chosen, x)) = Len(chosen) + 1
          /\ \A j \in 1..Len(chosen) : Append(chosen, x)[j] = chosen[j]
          /\ Append(chosen, x)[Len(chosen) + 1] = x
      BY <1>3, <1>6, <3>2, AppendFacts
    <3> QED BY <1>3, <3>1, <3>3
  <2> QED BY <2>1, <2>2
<1>10. /\ TypeInv' /\ Typed' /\ KnownInv' /\ BallotInv' /\ FsmInv' /\ TaskInv'
       /\ \A a \in Nat : Known(a) => Known(a)'
  <2>1. calls' \subseteq Call /\ stable' \in Seq(StableClosure) /\ node' \in NodeState
    BY <1>1, <1>2 DEF Kinds
  <2>2. /\ \A c \in calls' : c \in calls
        /\ \A c \in Elements(stable') : c \in Elements(stable)
        /\ \A t \in Elements(fsm'.queue) :
              t \in Elements(fsm.queue) \/ t.type # "COMMITTED"
    BY <1>2, <1>5, <1>7
  <2>3. \A j \in 1..Len(log) : j <= Len(log') /\ log'[j] = log[j]
    BY <1>1, <1>2 DEF Typed
  <2> QED BY <1>2, <1>3, <1>7, <1>9, <2>1, <2>2, <2>3, FollowerFrame
<1>11. LogInv'
  <2>0. LogInv /\ ~fsm.stopped
    BY <1>2 DEF IInv, FsmInv, Active
  <2>1. \A j \in 1..Len(chosen') : \/ j \in 1..Len(chosen) /\ chosen'[j] = chosen[j]
                                   \/ j = Len(chosen) + 1 /\ chosen'[j].term = node.term
    BY <1>3, <1>6, <1>9
  <2>2. Sorted(chosen')
    <3> SUFFICES ASSUME NEW j \in 1..Len(chosen'), NEW k \in 1..Len(chosen'), j <= k
                 PROVE  chosen'[j].term <= chosen'[k].term
      BY DEF Sorted
    <3>1. j \in Nat /\ k \in Nat
      BY <1>9
    <3>2. /\ \A a, b \in 1..Len(chosen) : a <= b => chosen[a].term <= chosen[b].term
          /\ \A a \in 1..Len(chosen) : chosen[a].term <= node.term
      BY <2>0 DEF LogInv, Sorted, UpTo
    <3>3. CASE k \in 1..Len(chosen)
      <4>1. j \in 1..Len(chosen)
        BY <1>3, <3>1, <3>3
      <4> QED BY <1>9, <3>2, <3>3, <4>1
    <3>4. CASE k = Len(chosen) + 1 /\ chosen'[k].term = node.term
      BY <1>3, <2>1, <3>2, <3>4
    <3> QED BY <2>1, <3>3, <3>4
  <2>3. UpTo(chosen', node'.term)
    BY <1>2, <1>3, <2>0, <2>1 DEF LogInv, UpTo
  <2>4. Sorted(log') /\ UpTo(log', node'.term)
    BY <1>2, <2>0 DEF LogInv
  <2>5. ASSUME NEW t \in Elements(fsm'.queue), t.type = "SNAPSHOT_LOAD"
        PROVE  t.arg \in 1..Len(chosen')
    <3>1. t.arg \in 1..Len(chosen) \/ t.arg = i
      BY <1>2, <1>5, <1>7, <2>0, <2>5 DEF LogInv
    <3> QED BY <1>3, <1>4, <1>9, <3>1
  <2>6. Known(Len(chosen))
    <3>1. Active /\ Len(fsm.queue) \in Nat
      BY <1>1, <1>2 DEF Active, Typed
    <3>2. \A t \in Elements(fsm.queue) : t.type # "SNAPSHOT_LOAD"
      <4>1. fsm.queue \in Seq(FsmTask)
        BY <1>1 DEF Typed
      <4>2. DOMAIN fsm.queue = 1..Len(fsm.queue)
        BY <4>1, LenProperties
      <4> QED BY <1>2, <4>2 DEF SnapshotQueued, Elements
    <3> QED BY <2>0, <3>1, <3>2, TaskType DEF LogInv
  <2>7. Agree(chosen', log', Len(chosen))
    BY <1>3, <1>10, <2>6 DEF Known
  <2>8. \/ Agree(chosen', log', Len(chosen'))
        \/ /\ node'.state = "FOLLOWER" /\ Len(chosen') > 0
           /\ Agree(chosen', log', Len(chosen') - 1)
           /\ ApplyTask("SNAPSHOT_LOAD", Len(chosen')) \in Elements(fsm'.queue)
    <3>1. CASE Len(chosen') = Len(chosen)
      BY <2>7, <3>1
    <3>2. CASE Len(chosen') = i /\ i = Len(chosen) + 1
      <4>1. Len(chosen') - 1 = Len(chosen) /\ Len(chosen') > 0
        BY <1>3, <3>2
      <4>2. e \in Elements(fsm'.queue) /\ e = ApplyTask("SNAPSHOT_LOAD", Len(chosen'))
        BY <1>2, <1>7, <2>0, <3>2
      <4> QED BY <1>2, <2>7, <4>1, <4>2
    <3> QED BY <1>9, <3>1, <3>2
  <2> QED BY <2>2, <2>3, <2>4, <2>5, <2>8 DEF LogInv, Known
<1>12. NoticeInv'
  <2>1. NoticeInv /\ Popped' = Popped
    BY <1>2, <1>7 DEF IInv, Popped, Cur
  <2>2. (\A t : Leads(t) => Leads(t)') /\ (\A t : Follows(t) => Follows(t)')
    BY <1>2 DEF Leads, Follows
  <2> QED BY <1>2, <1>7, <1>8, <2>1, <2>2, NoticeStays
<1> QED BY <1>10, <1>11, <1>12 DEF IInv

\* The first message of a leader tells the state machine whom the node follows.
LEMMA FollowFrame ==
    ASSUME Typed, NoticeInv, node \in NodeState, fsm \in FsmState, ~fsm.stopped,
           node.state = "FOLLOWER", node' = [node EXCEPT !.leader = "other"],
           fsm' = Queue(fsm, StartFollowing), user' = user
    PROVE  /\ node' \in NodeState /\ node'.state = "FOLLOWER" /\ node'.term = node.term
           /\ fsm' \in FsmState /\ fsm'.cur = fsm.cur /\ fsm'.applied = fsm.applied
           /\ fsm'.term = fsm.term /\ fsm'.applied_id = fsm.applied_id
           /\ fsm'.error = fsm.error /\ fsm'.stopped = fsm.stopped
           /\ \A t \in Elements(fsm'.queue) :
                 t \in Elements(fsm.queue) \/ t.type = "START_FOLLOWING"
           /\ \A t \in Elements(fsm.queue) : t \in Elements(fsm'.queue)
           /\ NoticeInv'
<1> DEFINE e == ApplyTask("START_FOLLOWING", node.term)
<1>1. node' \in NodeState /\ node'.state = "FOLLOWER" /\ node'.term = node.term
      /\ node'.leader = "other"
  BY DEF NodeState
<1>2. e \in FsmTask /\ e.type = "START_FOLLOWING" /\ e.arg = node.term
  BY TaskType, TermFacts
<1>3. CASE node.leader = "other"
  <2>1. StartFollowing = <<>> /\ <<>> \in Seq(FsmTask)
    BY <1>2, <1>3, QueueOne DEF StartFollowing, FsmState
  <2>2. fsm.queue \in Seq(FsmTask) /\ fsm.queue \o <<>> = fsm.queue
    <3>1. fsm.queue \in Seq(FsmTask)
      BY DEF FsmState
    <3> QED BY <1>2, <3>1, QueueOne
  <2>3. /\ fsm' \in FsmState /\ fsm'.queue = fsm.queue
        /\ fsm'.cur = fsm.cur /\ fsm'.applied = fsm.applied
        /\ fsm'.term = fsm.term /\ fsm'.applied_id = fsm.applied_id
        /\ fsm'.error = fsm.error /\ fsm'.stopped = fsm.stopped
    BY <2>1, <2>2, QueueFacts
  <2>4. NoticeInv'
    <3>1. Popped' = Popped /\ FewerNotices(fsm.queue, fsm'.queue)
      BY <2>3 DEF Popped, Cur, FewerNotices
    <3>2. (\A t : Leads(t) => Leads(t)') /\ (\A t : Follows(t) => Follows(t)')
      BY <1>1, <1>3 DEF Leads, Follows
    <3> QED BY <2>3, <3>1, <3>2, NoticeStays
  <2> QED BY <1>1, <2>3, <2>4
<1>4. CASE node.leader # "other"
  <2>1. StartFollowing = <<e>>
    BY <1>4 DEF StartFollowing
  <2> HIDE DEF e
  <2>2. /\ fsm' \in FsmState /\ fsm'.cur = fsm.cur /\ fsm'.applied = fsm.applied
        /\ fsm'.term = fsm.term /\ fsm'.applied_id = fsm.applied_id
        /\ fsm'.error = fsm.error /\ fsm'.stopped = fsm.stopped
        /\ \A t \in Elements(fsm'.queue) : t \in Elements(fsm.queue) \/ t = e
        /\ \A t \in Elements(fsm.queue) : t \in Elements(fsm'.queue)
        /\ \A T : e.type \notin T =>
              /\ Ends(fsm'.queue, T) = Ends(fsm.queue, T)
              /\ NoneOf(fsm'.queue, T) <=> NoneOf(fsm.queue, T)
        /\ \A T : e.type \in T /\ ~fsm.stopped =>
              Ends(fsm'.queue, T) = {e} /\ ~NoneOf(fsm'.queue, T)
    <3> DEFINE g == Queue(fsm, <<e>>)
    <3>1. fsm' = g
      BY <2>1
    <3>2. /\ g \in FsmState /\ g.cur = fsm.cur /\ g.applied = fsm.applied
          /\ g.term = fsm.term /\ g.applied_id = fsm.applied_id
          /\ g.error = fsm.error /\ g.stopped = fsm.stopped
          /\ \A t \in Elements(g.queue) : t \in Elements(fsm.queue) \/ t = e
          /\ \A t \in Elements(fsm.queue) : t \in Elements(g.queue)
          /\ \A T : e.type \notin T =>
                /\ Ends(g.queue, T) = Ends(fsm.queue, T)
                /\ NoneOf(g.queue, T) <=> NoneOf(fsm.queue, T)
          /\ \A T : e.type \in T /\ ~fsm.stopped =>
                Ends(g.queue, T) = {e} /\ ~NoneOf(g.queue, T)
      BY <1>2, QueueTask
    <3> HIDE DEF g
    <3> QED BY <3>1, <3>2
  <2>3. e.type \notin LeaderNotices /\ e.type \in FollowerNotices
    BY <1>2 DEF LeaderNotices, FollowerNotices
  <2>4. /\ Ends(fsm'.queue, LeaderNotices) = Ends(fsm.queue, LeaderNotices)
        /\ NoneOf(fsm'.queue, LeaderNotices) <=> NoneOf(fsm.queue, LeaderNotices)
        /\ Ends(fsm'.queue, FollowerNotices) = {e}
        /\ ~NoneOf(fsm'.queue, FollowerNotices)
    BY <2>2, <2>3
  <2>5. /\ \A t \in Ends(fsm.queue, LeaderNotices) :
              t.type = "LEADER_START" => Leads(t.arg)
        /\ NoneOf(fsm.queue, LeaderNotices) =>
              /\ user.leading # 0 => Leads(user.leading)
              /\ \A h \in Popped : h.c.kind = "conf" => Leads(h.c.n)
    BY DEF NoticeInv
  <2>6. \A t : Leads(t) => Leads(t)'
    BY <1>1 DEF Leads
  <2>7. Popped' = Popped
    BY <2>2 DEF Popped, Cur
  <2>8. \A t \in Ends(fsm'.queue, FollowerNotices) : node'.leader = "other" /\ node'.term = t.arg
    BY <1>1, <1>2, <2>4
  <2>9. NoticeInv'
    <3>1. \A t \in Ends(fsm'.queue, LeaderNotices) :
              t.type = "LEADER_START" => Leads(t.arg)'
      BY <2>4, <2>5, <2>6
    <3>2. NoneOf(fsm'.queue, LeaderNotices) =>
              /\ user.leading # 0 => node'.state = "LEADER" /\ node'.term = user.leading
              /\ \A h \in Popped' : h.c.kind = "conf" => Leads(h.c.n)'
      BY <2>4, <2>5, <2>6, <2>7 DEF Leads
    <3> QED BY <2>4, <2>8, <3>1, <3>2 DEF NoticeInv, Leads, Follows
  <2> QED BY <1>1, <1>2, <2>2, <2>9
<1> QED BY <1>3, <1>4

\* A follower hears a heartbeat that names a committed index.
LEMMA HandleHeartbeatKeeps ==
    ASSUME IInv, NEW prev \in box.committed..Len(log), NEW c \in prev..prev + 1,
           HandleHeartbeat(prev, c), failed = {}
    PROVE  IInv'
<1> DEFINE x == [op |-> "set_committed", arg |-> prev]
<1>1. Kinds /\ Typed
  BY TypeParts, Types DEF IInv
<1>2. /\ box.committed \in Nat /\ log \in Logs /\ Len(log) \in Nat
      /\ chosen \in Logs /\ Len(chosen) \in Nat
      /\ \A j \in 1..Len(log) : log[j].term \in Nat
  BY <1>1 DEF Typed
<1>3. /\ prev \in Nat /\ prev <= Len(log) /\ prev \in 0..Len(log)
      /\ Least(c, prev) = prev /\ CommittedBound(c, prev) = prev
  <2>1. prev \in Nat /\ prev <= Len(log) /\ prev \in 0..Len(log) /\ c \in Nat /\ c >= prev
    BY <1>2
  <2> QED BY <2>1 DEF Least, CommittedBound
<1>4. /\ node.state = "FOLLOWER" /\ node' = [node EXCEPT !.leader = "other"]
      /\ fsm' = Queue(fsm, StartFollowing)
      /\ IsPrefix(Prefix(Least(prev, Len(chosen))), log)
      /\ chosen' = IF prev > Len(chosen) THEN SubSeq(log, 1, prev) ELSE chosen
      /\ calls' = calls \union {x}
      /\ UNCHANGED <<log, box, closures, stable, user, tasks, stored, failed>>
  BY <1>3 DEF HandleHeartbeat
<1>5. fsm \in FsmState /\ node \in NodeState /\ ~fsm.stopped /\ NoticeInv /\ LogInv
  BY <1>1, <1>4 DEF Kinds, IInv, FsmInv, Active
<1>6. /\ node' \in NodeState /\ node'.state = "FOLLOWER" /\ node'.term = node.term
      /\ fsm' \in FsmState /\ fsm'.cur = fsm.cur /\ fsm'.applied = fsm.applied
      /\ fsm'.term = fsm.term /\ fsm'.applied_id = fsm.applied_id
      /\ fsm'.error = fsm.error /\ fsm'.stopped = fsm.stopped
      /\ \A t \in Elements(fsm'.queue) :
            t \in Elements(fsm.queue) \/ t.type = "START_FOLLOWING"
      /\ \A t \in Elements(fsm.queue) : t \in Elements(fsm'.queue)
      /\ NoticeInv'
  BY <1>1, <1>4, <1>5, FollowFrame
<1>7. Agree(chosen, log, Least(prev, Len(chosen)))
  <2> DEFINE b == Least(prev, Len(chosen))
  <2>1. b \in 0..Len(chosen) /\ b \in Nat /\ b <= Len(log)
    BY <1>2, <1>3 DEF Least
  <2>2. IsPrefix(SubSeq(chosen, 1, b), log)
    BY <1>4 DEF Prefix
  <2> HIDE DEF b
  <2>3. /\ SubSeq(chosen, 1, b) \in Logs /\ Len(SubSeq(chosen, 1, b)) = b
        /\ \A j \in 1..b : SubSeq(chosen, 1, b)[j] = chosen[j]
    BY <1>2, <2>1, PrefixFacts
  <2>4. Agree(SubSeq(chosen, 1, b), log, b)
    BY <1>2, <2>2, <2>3, PrefixAgrees
  <2>5. Agree(chosen, log, b)
    BY <1>2, <2>1, <2>3, <2>4 DEF Agree
  <2> QED BY <2>5 DEF b
<1>8. /\ chosen' \in Logs /\ Len(chosen') \in Nat /\ Len(chosen) <= Len(chosen')
      /\ \A j \in 1..Len(chosen) : chosen'[j] = chosen[j]
      /\ Agree(chosen', log', prev)
      /\ chosen' = chosen \/ (Len(chosen') = prev /\ \A j \in 1..prev : chosen'[j] = log[j])
  <2>1. CASE prev > Len(chosen)
    <3>1. /\ chosen' \in Logs /\ Len(chosen') = prev
          /\ \A j \in 1..prev : chosen'[j] = log[j]
      BY <1>2, <1>3, <1>4, <2>1, PrefixFacts
    <3>2. Agree(chosen, log, Len(chosen))
      <4>1. Least(prev, Len(chosen)) = Len(chosen)
        BY <1>2, <1>3, <2>1 DEF Least
      <4> QED BY <1>7, <4>1
    <3>3. \A j \in 1..Len(chosen) : j \in 1..prev /\ chosen[j] = log[j]
      BY <1>2, <1>3, <2>1, <3>2 DEF Agree
    <3>4. Agree(chosen', log', prev)
      BY <1>3, <1>4, <3>1 DEF Agree
    <3> QED BY <1>2, <1>3, <2>1, <3>1, <3>3, <3>4
  <2>2. CASE ~(prev > Len(chosen))
    <3>1. Least(prev, Len(chosen)) = prev
      BY <1>2, <1>3, <2>2 DEF Least
    <3> QED BY <1>2, <1>4, <1>7, <2>2, <3>1
  <2> QED BY <2>1, <2>2
<1>9. x \in Call /\ x.op = "set_committed" /\ x.arg = prev
  BY <1>3 DEF Call
<1> HIDE DEF x
<1>10. /\ TypeInv' /\ Typed' /\ KnownInv' /\ BallotInv' /\ FsmInv' /\ TaskInv'
       /\ \A a \in Nat : Known(a) => Known(a)'
  <2>1. calls' \subseteq Call /\ stable' \in Seq(StableClosure)
    BY <1>1, <1>4, <1>9 DEF Kinds
  <2>2. ASSUME NEW d \in calls' PROVE d \in calls \/ (d.op = "set_committed" /\ Known(d.arg)')
    <3>1. d \in calls \/ d = x
      BY <1>4
    <3>2. d = x => d.arg = prev /\ d.op = "set_committed"
      BY <1>9
    <3>3. d.arg = prev => Agree(chosen', log', d.arg)
      BY <1>8
    <3> QED BY <3>1, <3>2, <3>3 DEF Known
  <2>3. /\ \A d \in Elements(stable') : d \in Elements(stable)
        /\ \A t \in Elements(fsm'.queue) :
              t \in Elements(fsm.queue) \/ t.type # "COMMITTED"
    BY <1>4, <1>6
  <2>4. log' \in Logs /\ \A j \in 1..Len(log) : j <= Len(log') /\ log'[j] = log[j]
    BY <1>2, <1>4
  <2> QED BY <1>4, <1>6, <1>8, <2>1, <2>2, <2>3, <2>4, FollowerFrame
<1>11. LogInv'
  <2>1. Sorted(log') /\ UpTo(log', node'.term)
    BY <1>4, <1>5, <1>6 DEF LogInv
  <2>2. Sorted(chosen') /\ UpTo(chosen', node'.term)
    <3>1. CASE chosen' = chosen
      BY <1>5, <1>6, <3>1 DEF LogInv
    <3>2. CASE Len(chosen') = prev /\ \A j \in 1..prev : chosen'[j] = log[j]
      <4>1. \A j \in 1..prev : j \in 1..Len(log)
        BY <1>2, <1>3
      <4> QED BY <1>5, <1>6, <3>2, <4>1 DEF LogInv, Sorted, UpTo
    <3> QED BY <1>8, <3>1, <3>2
  <2>3. \A t \in Elements(fsm'.queue) : t.type = "SNAPSHOT_LOAD" => t.arg \in 1..Len(chosen')
    <3>1. \A t \in Elements(fsm'.queue) :
             t.type = "SNAPSHOT_LOAD" => t.arg \in 1..Len(chosen)
      BY <1>5, <1>6 DEF LogInv
    <3>2. \A n \in 1..Len(chosen) : n \in 1..Len(chosen')
      BY <1>2, <1>8
    <3> QED BY <3>1, <3>2
  <2>4. \/ Agree(chosen', log', Len(chosen'))
        \/ /\ node'.state = "FOLLOWER" /\ Len(chosen') > 0
           /\ Agree(chosen', log', Len(chosen') - 1)
           /\ ApplyTask("SNAPSHOT_LOAD", Len(chosen')) \in Elements(fsm'.queue)
    <3>1. CASE chosen' = chosen
      <4>1. \/ Known(Len(chosen))
            \/ /\ node.state = "FOLLOWER" /\ Len(chosen) > 0 /\ Known(Len(chosen) - 1)
               /\ ApplyTask("SNAPSHOT_LOAD", Len(chosen)) \in Elements(fsm.queue)
        BY <1>4, <1>5 DEF LogInv, Active
      <4>2. log' = log
        BY <1>4
      <4> QED BY <1>6, <3>1, <4>1, <4>2 DEF Known
    <3>2. CASE Len(chosen') = prev
      BY <1>8, <3>2
    <3> QED BY <1>8, <3>1, <3>2
  <2> QED BY <2>1, <2>2, <2>3, <2>4 DEF LogInv, Known
<1> QED BY <1>6, <1>10, <1>11 DEF IInv

\* A follower takes the entries of another leader.
LEMMA HandleAppendEntriesKeeps ==
    ASSUME IInv, NEW prev \in 0..Len(log), NEW k \in 1..MaxLog - prev,
           NEW c \in prev..prev + k + 1, HandleAppendEntries(prev, k, c), failed = {}
    PROVE  IInv'
<1> DEFINE e == [term |-> node.term, type |-> "data"]
           new == Replaced(log, prev, k, e)
           m == Least(c, prev + k)
           x == [op |-> "follower", term |-> node.term, committed |-> m]
<1>1. Kinds /\ Typed
  BY TypeParts, Types DEF IInv
<1>2. /\ log \in Logs /\ Len(log) \in Nat /\ chosen \in Logs /\ Len(chosen) \in Nat
      /\ MaxLog \in Nat /\ node.term \in Nat
      /\ \A j \in 1..Len(log) : log[j].term \in Nat
  BY <1>1 DEF Typed
<1>3. prev \in Nat /\ k \in Nat /\ k >= 1 /\ prev + k <= MaxLog /\ c \in Nat /\ c >= prev
      /\ prev <= Len(log)
  BY <1>2
<1>4. /\ node.state = "FOLLOWER" /\ ~Installing
      /\ prev \in IF \E i \in DOMAIN log : log[i].term = node.term
                  THEN {Len(log)} ELSE Len(chosen)..Len(log)
      /\ node' = [node EXCEPT !.leader = "other"]
      /\ fsm' = Queue(fsm, StartFollowing)
      /\ log' = new
      /\ chosen' = IF c > Len(chosen) THEN SubSeq(new, 1, Least(c, Len(new))) ELSE chosen
      /\ stable' = Append(stable, x)
      /\ UNCHANGED <<box, closures, calls, user, tasks, stored, failed>>
  BY DEF HandleAppendEntries, CommittedBound, Replaced
<1>5. /\ fsm \in FsmState /\ node \in NodeState /\ ~fsm.stopped /\ NoticeInv /\ LogInv
      /\ Active
  BY <1>1, <1>4 DEF Kinds, IInv, FsmInv, Active
<1>6. /\ node' \in NodeState /\ node'.state = "FOLLOWER" /\ node'.term = node.term
      /\ fsm' \in FsmState /\ fsm'.cur = fsm.cur /\ fsm'.applied = fsm.applied
      /\ fsm'.term = fsm.term /\ fsm'.applied_id = fsm.applied_id
      /\ fsm'.error = fsm.error /\ fsm'.stopped = fsm.stopped
      /\ \A t \in Elements(fsm'.queue) :
            t \in Elements(fsm.queue) \/ t.type = "START_FOLLOWING"
      /\ \A t \in Elements(fsm.queue) : t \in Elements(fsm'.queue)
      /\ NoticeInv'
  BY <1>1, <1>4, <1>5, FollowFrame
<1>7. Known(Len(chosen)) /\ prev >= Len(chosen)
  <2>1. \A t \in Elements(fsm.queue) : t.type # "SNAPSHOT_LOAD"
    <3>1. fsm.queue \in Seq(FsmTask)
      BY <1>1 DEF Typed
    <3>2. DOMAIN fsm.queue = 1..Len(fsm.queue)
      BY <3>1, LenProperties
    <3> QED BY <1>4, <3>2 DEF Installing, Elements
  <2>2. Known(Len(chosen))
    BY <1>5, <2>1, TaskType DEF LogInv
  <2>3. Len(log) >= Len(chosen)
    BY <2>2 DEF Known, Agree
  <2> QED BY <1>2, <1>3, <1>4, <2>2, <2>3
<1>8. e \in Entry /\ e.term = node.term
  BY <1>1, TermFacts DEF Entry
<1>9. /\ new \in Logs /\ Len(new) = prev + k
      /\ \A i \in 1..prev : new[i] = log[i]
      /\ \A i \in prev + 1..prev + k : new[i] = e
  <2> HIDE DEF e
  <2> QED BY <1>2, <1>3, <1>8, ReplacedFacts
<1> HIDE DEF new
<1>10. /\ m \in Nat /\ m <= prev + k /\ m <= c /\ m >= prev /\ m \in 0..Len(new)
       /\ m = c \/ m = prev + k
  BY <1>3, <1>9 DEF Least
<1>m. c > Len(chosen) => chosen' = SubSeq(new, 1, m)
  BY <1>4, <1>9
<1>14. x \in StableClosure /\ x.op = "follower" /\ x.committed = m
  BY <1>2, <1>10 DEF StableClosure
<1> HIDE DEF m, x
<1>11. \A j \in 1..Len(chosen) : j \in 1..prev /\ j \in 1..Len(log) /\ chosen[j] = new[j]
  BY <1>2, <1>3, <1>7, <1>9 DEF Known, Agree
<1>12. /\ chosen' \in Logs /\ Len(chosen') \in Nat /\ Len(chosen) <= Len(chosen')
       /\ m <= Len(chosen') /\ Len(chosen') <= Len(new)
       /\ \A j \in 1..Len(chosen') : chosen'[j] = new[j]
  <2>1. CASE c > Len(chosen)
    <3>1. chosen' = SubSeq(new, 1, m)
      BY <1>m, <2>1
    <3>2. chosen' \in Logs /\ Len(chosen') = m /\ \A j \in 1..m : chosen'[j] = new[j]
      BY <1>9, <1>10, <3>1, PrefixFacts
    <3> QED BY <1>2, <1>3, <1>7, <1>9, <1>10, <3>2
  <2>2. CASE ~(c > Len(chosen))
    <3>1. chosen' = chosen
      BY <1>4, <2>2
    <3> QED BY <1>2, <1>3, <1>7, <1>9, <1>10, <1>11, <2>2, <3>1
  <2> QED BY <2>1, <2>2
<1>13. Agree(chosen', log', Len(chosen')) /\ Agree(chosen', log', m)
  <2>1. \A j \in 1..m : j \in 1..Len(chosen')
    BY <1>10, <1>12
  <2>2. log' = new
    BY <1>4
  <2>3. Len(new) \in Nat /\ m <= Len(new) /\ Len(chosen') <= Len(chosen')
    BY <1>3, <1>9, <1>10, <1>12
  <2>4. Agree(chosen', new, Len(chosen'))
    BY <1>12, <2>3 DEF Agree
  <2>5. Agree(chosen', new, m)
    BY <1>12, <2>1, <2>3 DEF Agree
  <2> QED BY <2>2, <2>4, <2>5
<1>15. stable' \in Seq(StableClosure) /\ Elements(stable') = Elements(stable) \union {x}
  BY <1>1, <1>4, <1>14, AppendElements DEF Kinds
<1>16. /\ TypeInv' /\ Typed' /\ KnownInv' /\ BallotInv' /\ FsmInv' /\ TaskInv'
       /\ \A a \in Nat : Known(a) => Known(a)'
  <2>1. calls' \subseteq Call
    BY <1>1, <1>4 DEF Kinds
  <2>2. ASSUME NEW d \in Elements(stable')
        PROVE d \in Elements(stable) \/ (d.op = "follower" => Known(d.committed)')
    <3>1. d \in Elements(stable) \/ d = x
      BY <1>15
    <3>2. d = x => d.committed = m
      BY <1>14
    <3>3. d.committed = m => Agree(chosen', log', d.committed)
      BY <1>13
    <3> QED BY <3>1, <3>2, <3>3 DEF Known
  <2>3. /\ \A d \in calls' : d \in calls
        /\ \A t \in Elements(fsm'.queue) :
              t \in Elements(fsm.queue) \/ t.type # "COMMITTED"
    BY <1>4, <1>6
  <2>4. log' \in Logs
    BY <1>4, <1>9
  <2>5. ASSUME NEW j \in 1..Len(log), j <= Len(chosen)
        PROVE  j <= Len(log') /\ log'[j] = log[j]
    <3>1. j \in 1..prev /\ j <= prev + k
      BY <1>2, <1>3, <1>7, <2>5
    <3> QED BY <1>4, <1>9, <3>1
  <2>6. \A j \in 1..Len(chosen) : chosen'[j] = chosen[j]
    <3>1. \A j \in 1..Len(chosen) : j \in 1..Len(chosen')
      BY <1>2, <1>12
    <3> QED BY <1>11, <1>12, <3>1
  <2> QED BY <1>4, <1>6, <1>12, <1>15, <2>1, <2>2, <2>3, <2>4, <2>5, <2>6, FollowerFrame
<1>17. LogInv'
  <2>1. /\ \A a, b \in 1..Len(log) : a <= b => log[a].term <= log[b].term
        /\ \A a \in 1..Len(log) : log[a].term <= node.term
    BY <1>5 DEF LogInv, Sorted, UpTo
  <2>2. \A j \in 1..Len(new) : \/ j \in 1..Len(log) /\ j <= prev /\ new[j] = log[j]
                               \/ j > prev /\ new[j].term = node.term
    <3> SUFFICES ASSUME NEW j \in 1..Len(new)
                 PROVE  \/ j \in 1..Len(log) /\ j <= prev /\ new[j] = log[j]
                        \/ j > prev /\ new[j].term = node.term
      OBVIOUS
    <3>1. j \in 1..prev \/ j \in prev + 1..prev + k
      BY <1>3, <1>9
    <3>2. CASE j \in 1..prev
      <4>1. j \in 1..Len(log) /\ j <= prev
        BY <1>2, <1>3, <3>2
      <4> QED BY <1>9, <3>2, <4>1
    <3>3. CASE j \in prev + 1..prev + k
      <4>1. j > prev
        BY <1>3, <3>3
      <4> QED BY <1>8, <1>9, <3>3, <4>1
    <3> QED BY <3>1, <3>2, <3>3
  <2>3. UpTo(new, node.term)
    <3> SUFFICES ASSUME NEW j \in 1..Len(new) PROVE new[j].term <= node.term
      BY DEF UpTo
    <3>1. CASE j \in 1..Len(log) /\ new[j] = log[j]
      BY <2>1, <3>1
    <3>2. CASE new[j].term = node.term
      BY <1>2, <3>2
    <3> QED BY <2>2, <3>1, <3>2
  <2>4. Sorted(new)
    <3> SUFFICES ASSUME NEW a \in 1..Len(new), NEW b \in 1..Len(new), a <= b
                 PROVE  new[a].term <= new[b].term
      BY DEF Sorted
    <3>1. a \in Nat /\ b \in Nat
      BY <1>3, <1>9
    <3>2. CASE b \in 1..Len(log) /\ b <= prev /\ new[b] = log[b]
      <4>1. a \in 1..Len(log) /\ new[a] = log[a]
        BY <1>3, <2>2, <3>1, <3>2
      <4> QED BY <2>1, <3>2, <4>1
    <3>3. CASE b > prev /\ new[b].term = node.term
      BY <2>3, <3>3 DEF UpTo
    <3> QED BY <2>2, <3>2, <3>3
  <2>5. Sorted(chosen') /\ UpTo(chosen', node'.term)
    <3>1. \A j \in 1..Len(chosen') : j \in 1..Len(new)
      BY <1>9, <1>12
    <3> QED BY <1>6, <1>12, <2>3, <2>4, <3>1 DEF Sorted, UpTo
  <2>6. \A t \in Elements(fsm'.queue) : t.type = "SNAPSHOT_LOAD" => t.arg \in 1..Len(chosen')
    <3>1. \A t \in Elements(fsm'.queue) :
             t.type = "SNAPSHOT_LOAD" => t.arg \in 1..Len(chosen)
      BY <1>5, <1>6 DEF LogInv
    <3>2. \A n \in 1..Len(chosen) : n \in 1..Len(chosen')
      BY <1>2, <1>12
    <3> QED BY <3>1, <3>2
  <2> QED BY <1>4, <1>6, <1>13, <2>3, <2>4, <2>5, <2>6 DEF LogInv, Known
<1> QED BY <1>6, <1>16, <1>17 DEF IInv

\* An entry of a term that is not lower is appended.
LEMMA LogAppended ==
    ASSUME NEW l \in Logs, NEW e \in Entry, NEW t \in Nat, Len(l) < MaxLog,
           Sorted(l), UpTo(l, t), e.term >= t
    PROVE  LET m == Append(l, e)
           IN  /\ m \in Logs /\ Len(m) = Len(l) + 1 /\ m[Len(l) + 1] = e
               /\ \A j \in 1..Len(l) : j <= Len(m) /\ m[j] = l[j]
               /\ Sorted(m) /\ UpTo(m, e.term)
<1> DEFINE m == Append(l, e)
<1>1. /\ Len(l) \in Nat /\ l \in Seq(Entry) /\ MaxLog \in Nat /\ e.term \in Nat
      /\ \A j \in 1..Len(l) : l[j].term \in Nat
  <2>1. \A d \in Entry : d.term \in Nat
    BY PipelineAssumption DEF Entry
  <2>2. /\ l \in Seq(Entry) /\ Len(l) \in 0..MaxLog /\ MaxLog \in Nat
        /\ \A j \in 1..Len(l) : l[j] \in Entry
    BY LogType, PipelineAssumption
  <2> QED BY <2>1, <2>2
<1>2. Len(Append(l, e)) <= MaxLog
  BY <1>1, AppendElements
<1>3. /\ m \in Logs /\ Len(m) = Len(l) + 1 /\ m[Len(l) + 1] = e
      /\ \A j \in 1..Len(l) : m[j] = l[j]
  BY <1>2, AppendFacts
<1> HIDE DEF m
<1>4. \A j \in 1..Len(m) : \/ j \in 1..Len(l) /\ m[j] = l[j]
                           \/ j = Len(l) + 1 /\ m[j] = e
  BY <1>1, <1>3
<1>5. /\ \A a, b \in 1..Len(l) : a <= b => l[a].term <= l[b].term
      /\ \A a \in 1..Len(l) : l[a].term <= t
  BY DEF Sorted, UpTo
<1>6. \A a \in 1..Len(l) : l[a].term <= e.term
  BY <1>1, <1>5
<1>7. UpTo(m, e.term)
  BY <1>1, <1>4, <1>6 DEF UpTo
<1>8. Sorted(m)
  <2> SUFFICES ASSUME NEW a \in 1..Len(m), NEW b \in 1..Len(m), a <= b
               PROVE  m[a].term <= m[b].term
    BY DEF Sorted
  <2>1. a \in Nat /\ b \in Nat
    BY <1>1, <1>3
  <2>2. CASE b \in 1..Len(l) /\ m[b] = l[b]
    <3>1. a \in 1..Len(l) /\ m[a] = l[a]
      BY <1>1, <1>4, <2>1, <2>2
    <3> QED BY <1>5, <2>2, <3>1
  <2>3. CASE m[b] = e
    BY <1>7, <2>3 DEF UpTo
  <2> QED BY <1>4, <2>2, <2>3
<1>9. \A j \in 1..Len(l) : j <= Len(m)
  BY <1>1, <1>3
<1> QED BY <1>3, <1>7, <1>8, <1>9 DEF m

\* NodeImpl::become_leader: the configuration entry is the first of the term.
LEMMA BecomeLeaderKeeps == ASSUME IInv, BecomeLeader, failed = {} PROVE IInv'
<1> DEFINE t == node.term + 1
           e == [term |-> t, type |-> "conf"]
           n == Len(log) + 1
           x == [op |-> "leader", first |-> n]
           c == Conf(t)
<1>1. Kinds /\ Shape /\ Bounds /\ Typed
  BY TypeParts, Types DEF IInv
<1>2. /\ node.state = "FOLLOWER" /\ node.term < MaxTerm /\ Len(log) < MaxLog
      /\ IsPrefix(chosen, log)
      /\ failed' = Check("pending", box.pending = 0 /\ box.ballots = <<>>) \union
                   Check("committed", n > box.committed) \union
                   Check("closures", closures.queue = <<>>)
      /\ node' = [state |-> "LEADER", term |-> t, leader |-> Self, busy |-> TRUE]
      /\ log' = Append(log, e)
      /\ box' = [box EXCEPT !.pending = n, !.ballots = <<{}>>]
      /\ closures' = [first |-> n, queue |-> <<c>>]
      /\ stable' = <<x>>
      /\ fsm' = Queue(fsm, LeaderStopNotices(node))
      /\ stored' = [p \in Peers |-> 0]
      /\ UNCHANGED <<calls, user, tasks, chosen>>
  BY DEF BecomeLeader, PendingIndex
<1>3. /\ log \in Logs /\ Len(log) \in Nat /\ chosen \in Logs /\ Len(chosen) \in Nat
      /\ node.term \in Nat /\ t \in Nat /\ t \in 1..MaxTerm /\ t > node.term
      /\ MaxLog \in Nat /\ box.committed \in Nat /\ n \in Nat
  <2>1. /\ log \in Logs /\ Len(log) \in Nat /\ chosen \in Logs /\ Len(chosen) \in Nat
        /\ MaxLog \in Nat /\ box.committed \in Nat
    BY <1>1 DEF Typed
  <2>2. node.term \in Nat /\ t \in 1..MaxTerm
    BY <1>1, <1>2, TermFacts
  <2> QED BY <2>1, <2>2
<1>4. /\ Active /\ ~Leading /\ ~fsm.stopped /\ ~fsm.error /\ LogInv /\ KnownInv
      /\ FsmInv /\ TaskInv /\ NoticeInv
  BY <1>2 DEF IInv, FsmInv, Active, Leading
<1>5. Known(Len(chosen)) /\ \A a \in Nat : Known(a) => a < n
  <2>1. Known(Len(chosen))
    BY <1>2, <1>3, PrefixAgrees DEF Known
  <2> QED BY <1>3, <2>1 DEF Known, Agree
<1>6. failed' = {}
  <2>1. box.pending = 0 /\ box.ballots = <<>> /\ closures.queue = <<>>
    BY <1>1, <1>4 DEF Shape
  <2>2. n > box.committed
    BY <1>3, <1>4, <1>5 DEF KnownInv
  <2> QED BY <1>2, <2>1, <2>2 DEF Check
<1>7. /\ e \in Entry /\ e.term = t /\ c \in Closure /\ c.kind = "conf" /\ c.n = t
      /\ e = [term |-> c.n, type |-> "conf"]
      /\ x \in StableClosure /\ x.op = "leader" /\ x.first = n
  BY <1>3 DEF Entry, Conf, Closure, StableClosure
<1>8. /\ node' \in NodeState /\ node'.state = "LEADER" /\ node'.term = t /\ node'.busy
      /\ Leading' /\ Active'
  BY <1>2, <1>3 DEF NodeState, Leading, Active
<1>9. /\ closures' \in ClosureState /\ closures'.first = n /\ closures'.queue = <<c>>
      /\ Len(closures'.queue) = 1 /\ closures'.queue[1] = c
  <2>1. <<c>> \in Seq(Closure) /\ Len(<<c>>) = 1 /\ <<c>>[1] = c
    BY <1>7, ShortSeqs
  <2> HIDE DEF c, n
  <2> QED BY <1>2, <1>3, <2>1 DEF ClosureState
<1>10. /\ stable' \in Seq(StableClosure) /\ Len(stable') = 1 /\ stable'[1] = x
       /\ Elements(stable') = {x}
  <2> HIDE DEF x
  <2> QED BY <1>2, <1>7, ShortSeqs
<1>11. /\ box' \in BoxState /\ box'.pending = n /\ box'.committed = box.committed
       /\ Len(box'.ballots) = 1 /\ box'.ballots[1] = {}
  <2> DEFINE b == {}
  <2>0. b \in Ballot /\ b = {}
    BY DEF Ballot
  <2> HIDE DEF b
  <2>1. <<b>> \in Seq(Ballot) /\ Len(<<b>>) = 1 /\ <<b>>[1] = b
    BY <2>0, ShortSeqs
  <2>2. box' = [box EXCEPT !.pending = n, !.ballots = <<b>>] /\ box \in BoxState
    BY <1>1, <1>2, <2>0 DEF Kinds
  <2> QED BY <1>3, <2>0, <2>1, <2>2 DEF BoxState
<1>12. LeaderStopNotices(node) \in Seq(FsmTask) /\ fsm \in FsmState
  BY <1>1, StopNotices DEF Typed, Kinds
<1>13. /\ fsm' \in FsmState /\ fsm'.queue = fsm.queue \o LeaderStopNotices(node)
       /\ fsm'.cur = fsm.cur /\ fsm'.applied = fsm.applied /\ fsm'.term = fsm.term
       /\ fsm'.applied_id = fsm.applied_id /\ fsm'.error = fsm.error
       /\ fsm'.stopped = fsm.stopped
  BY <1>2, <1>4, <1>12, QueueFacts
<1>q. \A q : q.type \in {"SNAPSHOT_LOAD", "COMMITTED"} =>
               (q \in Elements(fsm'.queue) <=> q \in Elements(fsm.queue))
  <2> DEFINE o == fsm.queue \o LeaderStopNotices(node)
  <2>1. fsm.queue \in Seq(FsmTask) /\ node \in NodeState
    BY <1>1 DEF Typed
  <2>2. \A q : q.type \notin {"LEADER_STOP", "STOP_FOLLOWING"} =>
               (q \in Elements(o) <=> q \in Elements(fsm.queue))
    BY <2>1, StopNotices
  <2>3. fsm'.queue = o
    BY <1>13
  <2> HIDE DEF o
  <2> QED BY <2>2, <2>3
<1> HIDE DEF e, c, x, t
<1>14. /\ log' \in Logs /\ Len(log') = n /\ log'[n] = e
       /\ \A j \in 1..Len(log) : j <= Len(log') /\ log'[j] = log[j]
       /\ Sorted(log') /\ UpTo(log', t)
  <2>1. Sorted(log) /\ UpTo(log, node.term) /\ e.term >= node.term
    BY <1>3, <1>4, <1>7 DEF LogInv
  <2> QED BY <1>2, <1>3, <1>7, <2>1, LogAppended
<1>15. TypeInv'
  <2>1. stored' \in [Peers -> 0..MaxLog]
    BY <1>2, <1>3
  <2>2. Kinds'
    BY <1>1, <1>2, <1>8, <1>9, <1>10, <1>11, <1>13, <1>14, <2>1 DEF Kinds
  <2>3. Shape'
    BY <1>3, <1>8, <1>9, <1>11, <1>14 DEF Shape
  <2>4. Bounds'
    BY <1>1, <1>11, <1>13 DEF Bounds
  <2> QED BY <1>6, <2>2, <2>3, <2>4, TypePartsNext
<1>16. Typed'
  BY <1>15, TypesNext
<1>17. \A a \in Nat : Known(a) => Known(a)'
  BY <1>1, <1>2, <1>3, <1>14, <1>16, KnownGrows
<1>18. LogInv'
  <2>1. \A q \in Elements(fsm'.queue) :
           q.type = "SNAPSHOT_LOAD" => q \in Elements(fsm.queue)
    BY <1>q
  <2>2. Agree(chosen', log', Len(chosen'))
    BY <1>2, <1>3, <1>5, <1>17 DEF Known
  <2>3. Sorted(chosen') /\ UpTo(chosen', node'.term)
    <3>1. UpTo(chosen, node.term) /\ \A j \in 1..Len(chosen) : chosen[j].term \in Nat
      BY <1>1, <1>4 DEF LogInv, Typed
    <3> QED BY <1>2, <1>3, <1>4, <1>8, <3>1 DEF LogInv, UpTo
  <2> QED BY <1>2, <1>4, <1>8, <1>14, <2>1, <2>2, <2>3 DEF LogInv, Known
<1>19. KnownInv'
  <2>1. \A q \in Elements(fsm'.queue) : q.type = "COMMITTED" => q \in Elements(fsm.queue)
    BY <1>q
  <2>2. Cur'.type = "COMMITTED" =>
           Cur.type = "COMMITTED" /\ Cur'.upto = Cur.upto /\ Cur.upto \in Nat
    <3>1. Cur' = Cur
      BY <1>13 DEF Cur
    <3>2. Cur.type = "COMMITTED" => Cur.upto \in Nat
      BY <1>1, <1>4, CurFacts
    <3> QED BY <3>1, <3>2
  <2>3. box'.committed >= box.committed /\ box'.committed < box'.pending
    BY <1>3, <1>4, <1>5, <1>11 DEF KnownInv
  <2>4. \A d \in calls' : d.op = "set_committed" => d.arg < box'.pending
    <3>1. \A d \in calls : d.arg \in Nat /\ (d.op = "set_committed" => Known(d.arg))
      BY <1>1, <1>4 DEF KnownInv, Typed
    <3> QED BY <1>2, <1>5, <1>11, <3>1
  <2>5. \A d \in Elements(stable') : d.op = "leader"
    BY <1>7, <1>10
  <2> QED BY <1>1, <1>2, <1>4, <1>11, <1>16, <1>17, <2>1, <2>2, <2>3, <2>4, <2>5, KnownStays
<1>20. BallotInv'
  <2>1. \A i \in box'.pending..Len(log') : log'[i].term = node'.term
    BY <1>3, <1>7, <1>8, <1>11, <1>14
  <2>2. box'.pending >= 1 /\ Len(stable') <= Len(log')
    BY <1>3, <1>10, <1>11, <1>14
  <2>3. \A k \in 1..Len(stable') :
           stable'[k].op = "leader" /\ stable'[k].first = Len(log') - Len(stable') + k
    BY <1>3, <1>7, <1>10, <1>14
  <2>4. \A i \in 1..Len(box'.ballots) : box'.ballots[i] = {}
    BY <1>11
  <2> QED BY <2>1, <2>2, <2>3, <2>4 DEF BallotInv
<1>21. FsmInv'
  <2>1. (fsm'.error => fsm'.cur = Idle) /\ (fsm'.stopped \/ fsm'.error => ~Active')
    BY <1>4, <1>13
  <2>2. Len(chosen) <= Len(chosen') /\ user' = user
    BY <1>2, <1>3
  <2> QED BY <1>1, <1>2, <1>4, <1>13, <1>16, <2>1, <2>2, FsmStays
<1>22. TaskInv'
  <2>1. AckedOnceApplied'
    BY <1>1, <1>2, <1>4, <1>16, AckedIs, AckedIsNext DEF TaskInv
  <2>2. Popped' = Popped /\ Cur' = Cur
    BY <1>13 DEF Popped, Cur
  <2>3. \A h \in Waiting' : h.i = n /\ h.c = c
    <3>1. \A j \in 1..Len(closures'.queue) :
             closures'.first + j - 1 = n /\ closures'.queue[j] = c
      BY <1>3, <1>9
    <3> QED BY <3>1 DEF Waiting
  <2>4. Fits(c, n, log', tasks')
    BY <1>3, <1>7, <1>14 DEF Fits
  <2>5. ASSUME NEW h \in Popped PROVE Fits(h.c, h.i, log', tasks')
    <3>1. Fits(h.c, h.i, log, tasks) /\ h.i \in 1..Len(log)
      BY <1>4 DEF TaskInv, Fits
    <3>2. /\ log' \in Logs /\ tasks \in Seq(TaskRecord) /\ Len(tasks) \in Nat
      BY <1>1, <1>14 DEF Typed
    <3>3. h.i <= Len(log') /\ log'[h.i] = log[h.i] /\ tasks' = tasks
      BY <1>2, <1>14, <3>1
    <3> QED BY <1>3, <3>1, <3>2, <3>3, FitsStays
  <2>6. \A h \in (Waiting \union Popped)' : Fits(h.c, h.i, log', tasks')
    BY <2>2, <2>3, <2>4, <2>5
  <2>7. \A h \in Waiting' : h.c.kind = "conf" =>
          node'.state = "LEADER" /\ node'.busy /\ h.c.n = node'.term
    BY <1>7, <1>8, <2>3
  <2>8. Cur'.type = "COMMITTED" =>
          /\ Cur'.first \in 1..Cur'.upto + 1 /\ Len(Cur'.done) = Cur'.upto - Cur'.first + 1
          /\ Leading' => Cur'.upto < closures'.first
    <3>1. ASSUME Cur.type = "COMMITTED" PROVE Cur.upto < n
      <4>1. Cur.upto \in Nat /\ Cur.upto <= box.committed
        BY <1>1, <1>4, <3>1, CurFacts DEF KnownInv
      <4>2. box.committed < n
        BY <1>3, <1>4, <1>5 DEF KnownInv
      <4> QED BY <1>3, <4>1, <4>2
    <3> QED BY <1>4, <1>9, <2>2, <3>1 DEF TaskInv
  <2>9. \A i, j \in 1..Len(log') :
           log'[i] = [term |-> node'.term, type |-> "conf"] /\ log'[j] = log'[i] => i = j
    <3>1. \A i \in 1..Len(log') : i = n \/ log'[i].term # t
      <4>1. \A i \in 1..Len(log) : log[i].term <= node.term /\ log[i].term \in Nat
        BY <1>1, <1>4 DEF LogInv, UpTo, Typed
      <4>2. \A i \in 1..n : i = n \/ i \in 1..Len(log)
        BY <1>3
      <4> QED BY <1>3, <1>14, <4>1, <4>2
    <3> QED BY <1>8, <3>1
  <2> QED BY <2>1, <2>6, <2>7, <2>8, <2>9 DEF TaskInv
<1>23. NoticeInv'
  <2>1. Popped' = Popped /\ FewerNotices(fsm.queue, fsm.queue) /\ fsm.queue \in Seq(FsmTask)
    BY <1>1, <1>13 DEF Popped, Cur, FewerNotices, Typed
  <2> QED BY <1>1, <1>2, <1>4, <1>13, <2>1, NoticeSilent
<1> QED BY <1>15, <1>18, <1>19, <1>20, <1>21, <1>22, <1>23 DEF IInv

\* One task more, which has not succeeded.
LEMMA TaskAdded ==
    ASSUME Typed, Typed', TaskInv, FsmInv, NEW r \in TaskRecord, r.ran <= 1, ~r.ok,
           tasks' = Append(tasks, r), user' = user,
           \A j \in 1..Len(log) : j <= Len(log') /\ log'[j] = log[j]
    PROVE  /\ AckedOnceApplied' /\ Len(tasks') = Len(tasks) + 1
           /\ tasks'[Len(tasks) + 1] = r
           /\ \A h \in Waiting \union Popped : Fits(h.c, h.i, log', tasks')
<1>1. /\ log \in Logs /\ log' \in Logs /\ tasks \in Seq(TaskRecord) /\ Len(tasks) \in Nat
      /\ tasks' \in Seq(TaskRecord)
  BY DEF Typed
<1>2. /\ Len(tasks') = Len(tasks) + 1 /\ tasks'[Len(tasks) + 1] = r
      /\ \A k \in 1..Len(tasks) : tasks'[k] = tasks[k]
  BY <1>1, AppendElements
<1>3. AckedOnceApplied'
  <2>1. Acked(tasks, user.applied)
    BY AckedIs DEF TaskInv
  <2>2. \A k \in 1..Len(tasks') : k \in 1..Len(tasks) \/ k = Len(tasks) + 1
    BY <1>1, <1>2
  <2>3. Acked(tasks', user'.applied)
    BY <1>2, <2>1, <2>2 DEF Acked
  <2> QED BY <2>3, AckedIsNext
<1>4. ASSUME NEW h \in Waiting \union Popped PROVE Fits(h.c, h.i, log', tasks')
  <2>1. Fits(h.c, h.i, log, tasks) /\ h.i \in 1..Len(log)
    BY DEF TaskInv, Fits
  <2>2. Len(tasks') >= Len(tasks) /\ h.i <= Len(log') /\ log'[h.i] = log[h.i]
    BY <1>1, <1>2, <2>1
  <2> QED BY <1>1, <1>2, <2>1, <2>2, FitsStays
<1> QED BY <1>2, <1>3, <1>4

\* A task that is refused runs its closure and has no entry.
LEMMA ApplyRefusedKeeps ==
    ASSUME IInv, NEW r \in TaskRecord, r.ran <= 1, ~r.ok, tasks' = Append(tasks, r),
           UNCHANGED <<node, log, box, closures, stable, calls, fsm, user, stored,
                       chosen, failed>>
    PROVE  IInv'
<1>1. Kinds /\ Shape /\ Bounds /\ Typed /\ failed = {}
  BY TypeParts, Types DEF IInv
<1>2. (Leading' <=> Leading) /\ (Active' <=> Active)
  BY DEF Leading, Active
<1>3. TypeInv'
  <2>1. tasks' \in Seq(TaskRecord)
    BY <1>1, AppendElements DEF Kinds
  <2>2. Kinds'
    BY <1>1, <2>1 DEF Kinds
  <2>3. Shape'
    BY <1>1 DEF Shape, Leading
  <2>4. Bounds'
    BY <1>1 DEF Bounds
  <2> QED BY <1>1, <2>2, <2>3, <2>4, TypePartsNext
<1>4. Typed'
  BY <1>3, TypesNext
<1>5. LogInv'
  BY <1>1, <1>2, <1>4, TermFacts, LogStays DEF IInv
<1>6. KnownInv'
  BY <1>2 DEF IInv, KnownInv, Known, Cur
<1>7. BallotInv'
  BY <1>2, BallotStays DEF IInv
<1>8. FsmInv'
  BY <1>2 DEF IInv, FsmInv, Cur
<1>9. TaskInv'
  <2>1. TaskInv /\ FsmInv
    BY DEF IInv
  <2>2. \A j \in 1..Len(log) : j <= Len(log') /\ log'[j] = log[j]
    BY <1>1 DEF Typed
  <2>3. /\ AckedOnceApplied'
        /\ \A h \in Waiting \union Popped : Fits(h.c, h.i, log', tasks')
    BY <1>1, <1>4, <2>1, <2>2, TaskAdded
  <2>4. Waiting' = Waiting /\ Popped' = Popped /\ Cur' = Cur
    BY DEF Waiting, Popped, Cur
  <2> QED BY <1>2, <2>1, <2>3, <2>4 DEF TaskInv
<1>10. NoticeInv'
  <2>1. NoticeInv /\ Popped' = Popped /\ FewerNotices(fsm.queue, fsm'.queue)
    BY DEF IInv, Popped, Cur, FewerNotices
  <2>2. (\A t : Leads(t) => Leads(t)') /\ (\A t : Follows(t) => Follows(t)')
    BY DEF Leads, Follows
  <2> QED BY <2>1, <2>2, NoticeStays
<1> QED BY <1>3, <1>5, <1>6, <1>7, <1>8, <1>9, <1>10 DEF IInv

\* Where one more is added to one part, the whole has one more.
LEMMA OneMore ==
    ASSUME NEW a \in Nat, NEW b \in Nat, NEW n \in Nat, a + b = n + 1
    PROVE  a + (b + 1) = n + 1 + 1
  OBVIOUS

\* A task is taken: a ballot, a closure and an entry more.
LEMMA ApplyTakenKeeps ==
    ASSUME IInv, node.state = "LEADER", Len(log) + 1 <= MaxLog, failed' = {},
           NEW r \in TaskRecord, r.ran = 0, ~r.ok, r.index = Len(log) + 1,
           r.term = node.term, r.expected \in {-1, node.term},
           tasks' = Append(tasks, r),
           log' = Append(log, [term |-> node.term, type |-> "data"]),
           box' = [box EXCEPT !.ballots = Append(@, {})],
           closures' = [closures EXCEPT !.queue = Append(@, Task(Len(tasks) + 1))],
           stable' = Append(stable, [op |-> "leader", first |-> Len(log) + 1]),
           UNCHANGED <<node, calls, fsm, user, stored, chosen>>
    PROVE  IInv'
<1> DEFINE n == Len(log) + 1
           e == [term |-> node.term, type |-> "data"]
           x == [op |-> "leader", first |-> n]
           c == Task(Len(tasks) + 1)
           b == {}
<1>1. Kinds /\ Shape /\ Bounds /\ Typed
  BY TypeParts, Types DEF IInv
<1>2. /\ log \in Logs /\ Len(log) \in Nat /\ chosen \in Logs /\ Len(chosen) \in Nat
      /\ MaxLog \in Nat /\ box.committed \in Nat /\ n \in Nat /\ Len(tasks) \in Nat
      /\ box.pending \in Nat /\ box.ballots \in Seq(Ballot) /\ Len(box.ballots) \in Nat
      /\ closures.first \in Nat /\ closures.queue \in Seq(Closure)
      /\ Len(closures.queue) \in Nat /\ Len(stable) \in Nat
  BY <1>1 DEF Typed
<1>3. node.term \in Nat /\ node.term \in 1..MaxTerm
  BY <1>1, TermFacts
<1>4. /\ Active /\ Leading /\ Leading' /\ (Active' <=> Active)
      /\ LogInv /\ KnownInv /\ BallotInv /\ FsmInv /\ TaskInv /\ NoticeInv
  BY DEF IInv, Active, Leading
<1>5. Known(Len(chosen))
  BY <1>4 DEF LogInv
<1>6. /\ e \in Entry /\ e.term = node.term /\ e = [term |-> r.term, type |-> "data"]
      /\ e.type = "data"
      /\ c \in Closure /\ c.kind = "task" /\ c.n = Len(tasks) + 1
      /\ x \in StableClosure /\ x.op = "leader" /\ x.first = n
      /\ b \in Ballot /\ b = {}
  BY <1>2, <1>3 DEF Entry, Task, Closure, StableClosure, Ballot
<1>7. /\ log' = Append(log, e) /\ stable' = Append(stable, x)
      /\ closures' = [closures EXCEPT !.queue = Append(closures.queue, c)]
      /\ box' = [box EXCEPT !.ballots = Append(box.ballots, b)]
  OBVIOUS
<1> HIDE DEF e, c, x, b
<1>8. /\ Append(closures.queue, c) \in Seq(Closure)
      /\ Len(Append(closures.queue, c)) = Len(closures.queue) + 1
      /\ \A i \in 1..Len(closures.queue) : Append(closures.queue, c)[i] = closures.queue[i]
      /\ Append(closures.queue, c)[Len(closures.queue) + 1] = c
  BY SMTT(30), <1>2, <1>6, AppendElements
<1>9. /\ closures' \in ClosureState /\ closures'.first = closures.first
      /\ closures'.queue = Append(closures.queue, c)
  BY <1>1, <1>7, <1>8 DEF Kinds, ClosureState
<1>10. /\ Append(box.ballots, b) \in Seq(Ballot)
       /\ Len(Append(box.ballots, b)) = Len(box.ballots) + 1
       /\ \A i \in 1..Len(box.ballots) : Append(box.ballots, b)[i] = box.ballots[i]
       /\ Append(box.ballots, b)[Len(box.ballots) + 1] = b
  <2> DEFINE q == box.ballots
             S == Ballot
  <2>1. q \in Seq(S) /\ b \in S
    BY <1>2, <1>6
  <2> HIDE DEF q, S
  <2>2. /\ Append(q, b) \in Seq(S) /\ Len(Append(q, b)) = Len(q) + 1
        /\ \A i \in 1..Len(q) : Append(q, b)[i] = q[i]
        /\ Append(q, b)[Len(q) + 1] = b
    BY <2>1, AppendElements
  <2> QED BY <2>2 DEF q, S
<1>11. /\ box' \in BoxState /\ box'.pending = box.pending /\ box'.committed = box.committed
       /\ box'.ballots = Append(box.ballots, b)
  BY <1>1, <1>7, <1>10 DEF Kinds, BoxState
<1>12. /\ stable' \in Seq(StableClosure) /\ Len(stable') = Len(stable) + 1
       /\ \A i \in 1..Len(stable) : stable'[i] = stable[i]
       /\ stable'[Len(stable) + 1] = x
       /\ Elements(stable') = Elements(stable) \union {x}
  BY <1>1, <1>6, <1>7, AppendElements DEF Kinds
<1>13. /\ log' \in Logs /\ Len(log') = n /\ log'[n] = e
       /\ \A j \in 1..Len(log) : j <= Len(log') /\ log'[j] = log[j]
       /\ Sorted(log') /\ UpTo(log', node.term)
  <2>1. Sorted(log) /\ UpTo(log, node.term)
    BY <1>4 DEF LogInv
  <2>2. e.term >= node.term /\ Len(log) < MaxLog
    BY SMTT(30), <1>2, <1>3, <1>6
  <2>3. /\ Append(log, e) \in Logs /\ Len(Append(log, e)) = Len(log) + 1
        /\ Append(log, e)[Len(log) + 1] = e
        /\ \A j \in 1..Len(log) : j <= Len(Append(log, e)) /\ Append(log, e)[j] = log[j]
        /\ Sorted(Append(log, e)) /\ UpTo(Append(log, e), e.term)
    BY SMTT(30), <1>2, <1>3, <1>6, <2>1, <2>2, LogAppended
  <2> QED BY <1>6, <1>7, <2>3
<1>a. Len(box'.ballots) = Len(box.ballots) + 1 /\ Len(box'.ballots) \in Nat
  <2>1. Len(box'.ballots) = Len(box.ballots) + 1
    BY <1>10, <1>11
  <2> QED BY <1>2, <2>1
<1>b. Len(closures'.queue) = Len(closures.queue) + 1 /\ Len(closures'.queue) \in Nat
  <2>1. Len(closures'.queue) = Len(closures.queue) + 1
    BY <1>8, <1>9
  <2> QED BY <1>2, <2>1
<1>c. /\ box.pending + Len(box.ballots) = Len(log) + 1
      /\ closures.first + Len(closures.queue) = Len(log) + 1
      /\ closures.first <= box.pending
  BY <1>1, <1>4 DEF Shape
<1>d. /\ Len(log) \in Nat /\ box.pending \in Nat /\ Len(box.ballots) \in Nat
      /\ closures.first \in Nat /\ Len(closures.queue) \in Nat
  BY <1>2
<1>14. TypeInv'
  <2>1. tasks' \in Seq(TaskRecord)
    BY <1>1, AppendElements DEF Kinds
  <2>2. Kinds'
    BY <1>1, <1>9, <1>11, <1>12, <1>13, <2>1 DEF Kinds
  <2>3. /\ box'.pending + Len(box'.ballots) = Len(log') + 1
        /\ closures'.first + Len(closures'.queue) = Len(log') + 1
        /\ closures'.first <= box'.pending
    <3>1. /\ box'.pending = box.pending /\ closures'.first = closures.first
          /\ Len(log') = Len(log) + 1
      BY <1>9, <1>11, <1>13
    <3>2. box'.pending + Len(box'.ballots) = Len(log') + 1
      <4> DEFINE i == box.pending
                 j == Len(box.ballots)
                 k == Len(log)
      <4>0. i \in Nat /\ j \in Nat /\ k \in Nat /\ i + j = k + 1
        BY <1>c, <1>d
      <4> HIDE DEF i, j, k
      <4>2. i + (j + 1) = k + 1 + 1
        BY <4>0, OneMore
      <4>1. box.pending + (Len(box.ballots) + 1) = (Len(log) + 1) + 1
        BY <4>2 DEF i, j, k
      <4> QED BY <1>a, <3>1, <4>1, Zenon
    <3>3. closures'.first + Len(closures'.queue) = Len(log') + 1
      <4> DEFINE i == closures.first
                 j == Len(closures.queue)
                 k == Len(log)
      <4>0. i \in Nat /\ j \in Nat /\ k \in Nat /\ i + j = k + 1
        BY <1>c, <1>d
      <4> HIDE DEF i, j, k
      <4>2. i + (j + 1) = k + 1 + 1
        BY <4>0, OneMore
      <4>1. closures.first + (Len(closures.queue) + 1) = (Len(log) + 1) + 1
        BY <4>2 DEF i, j, k
      <4> QED BY <1>b, <3>1, <4>1, Zenon
    <3> QED BY <1>c, <3>1, <3>2, <3>3
  <2>4. Shape'
    BY <1>4, <2>3 DEF Shape
  <2>5. Bounds'
    BY <1>1, <1>11 DEF Bounds
  <2> QED BY <2>2, <2>4, <2>5, TypePartsNext
<1>15. Typed'
  BY <1>14, TypesNext
<1>16. \A a \in Nat : Known(a) => Known(a)'
  BY <1>1, <1>2, <1>13, <1>15, KnownGrows
<1>17. LogInv'
  <2>1. Agree(chosen', log', Len(chosen'))
    BY <1>2, <1>5, <1>16 DEF Known
  <2> QED BY <1>4, <1>13, <2>1 DEF LogInv, Known
<1>18. KnownInv'
  <2>1. Cur'.type = "COMMITTED" =>
           Cur.type = "COMMITTED" /\ Cur'.upto = Cur.upto /\ Cur.upto \in Nat
    <3>1. Cur' = Cur
      BY DEF Cur
    <3>2. Cur.type = "COMMITTED" => Cur.upto \in Nat
      BY <1>1, <1>4, CurFacts
    <3> QED BY <3>1, <3>2
  <2>2. box'.committed >= box.committed /\ box'.committed < box'.pending
    BY <1>2, <1>4, <1>11 DEF KnownInv
  <2>3. \A d \in calls' : d.op = "set_committed" => d.arg < box'.pending
    BY <1>4, <1>11 DEF KnownInv
  <2>4. \A d \in Elements(stable') : d \in Elements(stable) \/ d.op = "leader"
    BY <1>6, <1>12
  <2>5. \A t \in Elements(fsm'.queue) : t \in Elements(fsm.queue)
    OBVIOUS
  <2> QED BY <1>1, <1>4, <1>11, <1>15, <1>16, <2>1, <2>2, <2>3, <2>4, <2>5, KnownStays
<1>19. BallotInv'
  <2>1. ASSUME NEW i \in box'.pending..Len(log') PROVE log'[i].term = node'.term
    <3>1. i \in box.pending..Len(log) \/ i = n
      BY <1>2, <1>11, <1>13
    <3>2. i \in box.pending..Len(log) => i \in 1..Len(log) /\ log[i].term = node.term
      BY <1>2, <1>4 DEF BallotInv
    <3> QED BY <1>6, <1>13, <3>1, <3>2
  <2>2. box'.pending >= 1 /\ Len(stable') <= Len(log')
    BY <1>2, <1>4, <1>11, <1>12, <1>13 DEF BallotInv
  <2>3. ASSUME NEW k \in 1..Len(stable')
        PROVE  stable'[k].op = "leader" /\ stable'[k].first = Len(log') - Len(stable') + k
    <3>1. k \in Nat /\ (k \in 1..Len(stable) \/ k = Len(stable) + 1)
      BY SMTT(30), <1>2, <1>12
    <3>2. Len(log') - Len(stable') = Len(log) - Len(stable)
      BY <1>2, <1>12, <1>13
    <3>3. CASE k \in 1..Len(stable)
      BY <1>4, <1>12, <3>2, <3>3 DEF BallotInv
    <3>4. CASE k = Len(stable) + 1
      BY <1>2, <1>6, <1>12, <3>2, <3>4
    <3> QED BY <3>1, <3>3, <3>4
  <2>4. ASSUME NEW i \in 1..Len(box'.ballots)
        PROVE  box'.ballots[i] \subseteq
                  Holders(stored', Len(log') - Len(stable'), box'.pending + i - 1)
    <3>1. i \in 1..Len(box.ballots) \/ i = Len(box.ballots) + 1
      <4>1. i \in 1..Len(box.ballots) + 1
        BY <1>a
      <4> QED BY <1>d, <4>1
    <3>2. Len(log') - Len(stable') = Len(log) - Len(stable)
      BY <1>2, <1>12, <1>13
    <3>3. CASE i \in 1..Len(box.ballots)
      <4>1. /\ box.ballots[i] \subseteq
                  Holders(stored, Len(log) - Len(stable), box.pending + i - 1)
            /\ box'.ballots[i] = box.ballots[i]
        BY <1>4, <1>10, <1>11, <3>3 DEF BallotInv
      <4> QED BY <1>11, <3>2, <4>1
    <3>4. CASE i = Len(box.ballots) + 1
      BY <1>6, <1>10, <1>11, <3>4
    <3> QED BY <3>1, <3>3, <3>4
  <2> QED BY <2>1, <2>2, <2>3, <2>4 DEF BallotInv
<1>20. FsmInv'
  BY <1>4 DEF FsmInv, Cur
<1>21. TaskInv'
  <2>1. /\ AckedOnceApplied' /\ Len(tasks') = Len(tasks) + 1
        /\ tasks'[Len(tasks) + 1] = r
        /\ \A h \in Waiting \union Popped : Fits(h.c, h.i, log', tasks')
    BY <1>1, <1>4, <1>13, <1>15, TaskAdded
  <2>2. Popped' = Popped /\ Cur' = Cur
    BY DEF Popped, Cur
  <2>3. ASSUME NEW h \in Waiting' PROVE h \in Waiting \/ (h.i = n /\ h.c = c)
    <3>1. PICK j \in 1..Len(closures'.queue) :
             h = [i |-> closures'.first + j - 1, c |-> closures'.queue[j]]
      BY DEF Waiting
    <3>2. j \in 1..Len(closures.queue) \/ j = Len(closures.queue) + 1
      BY SMTT(30), <1>2, <1>b
    <3>3. CASE j \in 1..Len(closures.queue)
      BY <1>8, <1>9, <3>1, <3>3 DEF Waiting
    <3>4. CASE j = Len(closures.queue) + 1
      <4>1. closures'.first + j - 1 = n
        BY <1>2, <1>c, <1>9, <3>4
      <4> QED BY <1>8, <1>9, <3>1, <3>4, <4>1
    <3> QED BY <3>2, <3>3, <3>4
  <2>4. Fits(c, n, log', tasks')
    <3>1. Len(tasks) + 1 \in 1..Len(tasks') /\ n \in 1..Len(log')
      BY SMTT(30), <1>2, <1>13, <2>1
    <3> QED BY <1>6, <1>13, <2>1, <3>1 DEF Fits
  <2>5. \A h \in (Waiting \union Popped)' : Fits(h.c, h.i, log', tasks')
    BY <2>1, <2>2, <2>3, <2>4
  <2>6. \A h \in Waiting' : h.c.kind = "conf" =>
          node'.state = "LEADER" /\ node'.busy /\ h.c.n = node'.term
    BY <1>4, <1>6, <2>3 DEF TaskInv
  <2>7. Cur'.type = "COMMITTED" =>
          /\ Cur'.first \in 1..Cur'.upto + 1 /\ Len(Cur'.done) = Cur'.upto - Cur'.first + 1
          /\ Leading' => Cur'.upto < closures'.first
    BY <1>4, <1>9, <2>2 DEF TaskInv
  <2>8. \A i, j \in 1..Len(log') :
           log'[i] = [term |-> node'.term, type |-> "conf"] /\ log'[j] = log'[i] => i = j
    <3>1. \A i \in 1..Len(log') : i \in 1..Len(log) \/ log'[i].type = "data"
      BY SMTT(30), <1>2, <1>6, <1>13
    <3>2. \A i, j \in 1..Len(log) :
             log[i] = [term |-> node.term, type |-> "conf"] /\ log[j] = log[i] => i = j
      BY <1>4 DEF TaskInv
    <3> QED BY <1>13, <3>1, <3>2
  <2> QED BY <2>1, <2>5, <2>6, <2>7, <2>8 DEF TaskInv
<1>22. NoticeInv'
  <2>1. Popped' = Popped /\ FewerNotices(fsm.queue, fsm'.queue)
    BY DEF Popped, Cur, FewerNotices
  <2>2. (\A t : Leads(t) => Leads(t)') /\ (\A t : Follows(t) => Follows(t)')
    BY DEF Leads, Follows
  <2> QED BY <1>4, <2>1, <2>2, NoticeStays
<1> QED BY <1>14, <1>17, <1>18, <1>19, <1>20, <1>21, <1>22 DEF IInv

\* The record of a new task, which expects the term x.
LEMMA NewTask ==
    ASSUME NEW x \in Int, NEW a \in Nat, NEW t \in Nat
    PROVE  LET new == [index |-> 0, term |-> 0, expected |-> -1, ran |-> 0,
                       ok |-> FALSE]
               r == [new EXCEPT !.ran = 1]
               s == [new EXCEPT !.index = a, !.term = t, !.expected = x]
           IN  /\ r \in TaskRecord /\ r.ran = 1 /\ ~r.ok
               /\ s \in TaskRecord /\ s.ran = 0 /\ ~s.ok /\ s.index = a
               /\ s.term = t /\ s.expected = x
<1> DEFINE new == [index |-> 0, term |-> 0, expected |-> -1, ran |-> 0, ok |-> FALSE]
           m == [new EXCEPT !.index = a]
           o == [m EXCEPT !.term = t]
           s == [o EXCEPT !.expected = x]
           r == [new EXCEPT !.ran = 1]
<1>1. new \in TaskRecord /\ new.ran = 0 /\ ~new.ok
  BY DEF TaskRecord
<1> HIDE DEF new
<1>2. r \in TaskRecord /\ r.ran = 1 /\ ~r.ok
  BY <1>1 DEF TaskRecord
<1>3. m \in TaskRecord /\ m.index = a /\ m.ran = 0 /\ ~m.ok
  BY <1>1 DEF TaskRecord
<1> HIDE DEF m
<1>4. o \in TaskRecord /\ o.index = a /\ o.term = t /\ o.ran = 0 /\ ~o.ok
  BY <1>3 DEF TaskRecord
<1> HIDE DEF o
<1>5. /\ s \in TaskRecord /\ s.index = a /\ s.term = t /\ s.expected = x /\ s.ran = 0
      /\ ~s.ok
  BY <1>4 DEF TaskRecord
<1> QED BY <1>2, <1>5 DEF m, new, o

\* NodeImpl::apply_tasks.
LEMMA ApplyKeeps == ASSUME IInv, NEW x \in Expected, Apply(x), failed = {} PROVE IInv'
<1> DEFINE new == [index |-> 0, term |-> 0, expected |-> -1, ran |-> 0, ok |-> FALSE]
           r == [new EXCEPT !.ran = 1]
           s == [new EXCEPT !.index = Len(log) + 1, !.term = node.term, !.expected = x]
<1>1. Typed /\ BallotInv
  BY Types DEF IInv
<1>2. x \in Int /\ node.term \in Nat /\ Len(log) \in Nat /\ box.pending \in Nat
  <2>1. x \in Int
    BY PipelineAssumption DEF Expected
  <2>2. node.term \in Nat
    BY <1>1, TermFacts
  <2>3. Len(log) \in Nat /\ box.pending \in Nat
    BY <1>1 DEF Typed
  <2> QED BY <2>1, <2>2, <2>3
<1>3. r \in TaskRecord /\ r.ran = 1 /\ ~r.ok
  BY <1>2, NewTask
<1>4. /\ s \in TaskRecord /\ s.ran = 0 /\ ~s.ok /\ s.index = Len(log) + 1
      /\ s.term = node.term /\ s.expected = x
  <2>1. Len(log) + 1 \in Nat
    BY <1>2
  <2> QED BY <1>2, <2>1, NewTask
<1>5. CASE /\ tasks' = Append(tasks, r)
           /\ UNCHANGED <<log, box, closures, stable, failed>>
  <2>1. UNCHANGED <<node, calls, fsm, user, stored, chosen>> /\ r.ran <= 1
    BY <1>3 DEF Apply
  <2> HIDE DEF r
  <2> QED BY <1>3, <1>5, <2>1, ApplyRefusedKeeps
<1>6. CASE /\ node.state = "LEADER" /\ ~Rejected(x) /\ Len(log) + 1 <= MaxLog
           /\ failed' = Check("append", box.pending > 0)
           /\ tasks' = Append(tasks, s)
           /\ log' = Append(log, [term |-> node.term, type |-> "data"])
           /\ box' = [box EXCEPT !.ballots = Append(@, {})]
           /\ closures' = [closures EXCEPT !.queue = Append(@, Task(Len(tasks) + 1))]
           /\ stable' = Append(stable, [op |-> "leader", first |-> Len(log) + 1])
  <2>1. UNCHANGED <<node, calls, fsm, user, stored, chosen>>
    BY DEF Apply
  <2>2. failed' = {}
    <3>1. Leading
      BY <1>6 DEF Leading
    <3>2. box.pending > 0
      BY <1>1, <1>2, <3>1 DEF BallotInv
    <3> QED BY <1>6, <3>2 DEF Check
  <2>3. s.expected \in {-1, node.term}
    BY <1>4, <1>6 DEF Rejected
  <2> HIDE DEF s
  <2> QED BY <1>4, <1>6, <2>1, <2>2, <2>3, ApplyTakenKeeps
<1> QED BY <1>5, <1>6 DEF Apply

\* Those who have stored an entry have stored the ones before it; some of them are
\* not more than all.
LEMMA HoldersFacts ==
    ASSUME NEW has \in [Peers -> 0..MaxLog], NEW own \in Int, NEW i \in Int
    PROVE  /\ Holders(has, own, i) \subseteq Peers \union {Self}
           /\ Cardinality(Peers) \in Nat /\ Cardinality(Holders(has, own, i)) \in Nat
           /\ \A b : b \subseteq Holders(has, own, i) =>
                 /\ Cardinality(b) \in Nat
                 /\ Cardinality(b) <= Cardinality(Holders(has, own, i))
           /\ \A j \in Int : j <= i => Holders(has, own, i) \subseteq Holders(has, own, j)
<1>1. Holders(has, own, i) \subseteq Peers \union {Self}
  BY DEF Holders
<1>2. IsFiniteSet(Peers \union {Self})
  BY PeersAssumption, FS_Singleton, FS_Union
<1>3. IsFiniteSet(Holders(has, own, i))
  BY <1>1, <1>2, FS_Subset
<1>4. Cardinality(Peers) \in Nat /\ Cardinality(Holders(has, own, i)) \in Nat
  BY <1>3, PeersAssumption, FS_CardinalityType
<1>5. ASSUME NEW b, b \subseteq Holders(has, own, i)
      PROVE  /\ Cardinality(b) \in Nat
             /\ Cardinality(b) <= Cardinality(Holders(has, own, i))
  <2>1. IsFiniteSet(b) /\ Cardinality(b) <= Cardinality(Holders(has, own, i))
    BY <1>3, <1>5, FS_Subset
  <2> QED BY <2>1, FS_CardinalityType
<1>6. ASSUME NEW j \in Int, j <= i
      PROVE  Holders(has, own, i) \subseteq Holders(has, own, j)
  <2>1. \A p \in Peers : has[p] \in Int
    BY PipelineAssumption
  <2>2. \A p \in Peers : has[p] >= i => has[p] >= j
    BY <1>6, <2>1
  <2>3. own >= i => own >= j
    BY <1>6
  <2> QED BY <2>2, <2>3 DEF Holders
<1> QED BY <1>1, <1>4, <1>5, <1>6

\* The ballots q for the entries from p on, when `peer' has those from `from' to
\* `last'.
Granted(q, p, from, last, peer) ==
    [i \in DOMAIN q |-> IF p + i - 1 \in from..last THEN q[i] \union {peer} ELSE q[i]]

IsGranted(g, q, p, last, peer) ==
    /\ g \in Seq(Ballot) /\ Len(g) = Len(q)
    /\ \A i \in 1..Len(q) :
          g[i] = q[i] \/ (g[i] = q[i] \union {peer} /\ p + i - 1 <= last)

\* A grant is counted for the entries that the voter has stored.
LEMMA GrantedFacts ==
    ASSUME NEW q \in Seq(Ballot), NEW p \in Nat, NEW from \in Nat, NEW last \in Nat,
           NEW peer \in Peers \union {Self}
    PROVE  IsGranted(Granted(q, p, from, last, peer), q, p, last, peer)
<1> DEFINE g == Granted(q, p, from, last, peer)
<1>1. Len(q) \in Nat /\ DOMAIN q = 1..Len(q) /\ \A i \in 1..Len(q) : q[i] \in Ballot
  BY SeqFacts
<1>2. \A i \in 1..Len(q) : q[i] \union {peer} \in Ballot
  BY <1>1 DEF Ballot
<1>3. g \in [1..Len(q) -> Ballot]
  BY <1>1, <1>2 DEF Granted
<1>4. g \in Seq(Ballot) /\ Len(g) = Len(q)
  <2>1. g \in Seq(Ballot)
    BY <1>1, <1>3
  <2> QED BY <1>1, <1>3, <2>1, LenProperties
<1>5. \A i \in 1..Len(q) :
         g[i] = q[i] \/ (g[i] = q[i] \union {peer} /\ p + i - 1 <= last)
  BY <1>1 DEF Granted
<1> QED BY <1>4, <1>5 DEF IsGranted

\* Where n ballots from p on end at k, and what is left of them after u.
Cut(p, n, k, u) ==
    /\ u - p + 1 \in 1..n /\ p + (u - p + 1) - 1 = u
    /\ u - p + 2 \in 1..n + 1 /\ n \in (u - p + 2) - 1..n
    /\ n - (u - p + 2) + 1 = k - u
    /\ \A i \in 1..k - u : /\ p + ((u - p + 2) + i - 1) - 1 = u + 1 + i - 1
                           /\ (u - p + 2) + i - 1 \in 1..n

\* The ballots that are left after a commit.
LEMMA CutAt ==
    ASSUME NEW p \in Nat, NEW n \in Nat, NEW k \in Nat, NEW u \in Nat, p + n = k + 1,
           p <= u, u <= k
    PROVE  Cut(p, n, k, u)
  BY DEF Cut

\* commit_at: ballots are granted by those who have the entries, and what is
\* committed a majority has.
CommitNow(has, own) ==
    /\ box' \in BoxState /\ box'.pending + Len(box'.ballots) = Len(log) + 1
    /\ \A i \in 1..Len(box'.ballots) :
          box'.ballots[i] \subseteq Holders(has, own, box'.pending + i - 1)
    /\ \/ /\ box'.pending = box.pending /\ box'.committed = box.committed
          /\ calls' = calls
       \/ \E u \in box.pending..Len(log) :
             /\ box'.pending = u + 1 /\ box'.committed = u
             /\ 2 * Cardinality(Holders(has, own, u)) > Cardinality(Peers) + 1
             /\ calls' = calls \union {[op |-> "on_committed", arg |-> u]}

\* BallotBox::commit_at commits up to the last ballot that is granted.
LEMMA CommitAtFacts ==
    ASSUME Typed, box \in BoxState, Leading, box.pending >= 1,
           box.pending + Len(box.ballots) = Len(log) + 1,
           NEW first \in Nat, NEW last \in Nat, NEW peer \in Peers \union {Self},
           CommitAt(first, last, peer),
           NEW has \in [Peers -> 0..MaxLog], NEW own \in Int,
           peer \in Holders(has, own, last),
           \A i \in 1..Len(box.ballots) :
              box.ballots[i] \subseteq Holders(has, own, box.pending + i - 1)
    PROVE  CommitNow(has, own)
<1> DEFINE from == IF first > box.pending THEN first ELSE box.pending
           g == Granted(box.ballots, box.pending, from, last, peer)
           done == {i \in from..last :
                      2 * Cardinality(g[i - box.pending + 1]) > Cardinality(Peers) + 1}
           upto == Greatest(done)
<1>1. /\ box.pending \in Nat /\ box.committed \in Nat /\ box.ballots \in Seq(Ballot)
      /\ Len(box.ballots) \in Nat /\ Len(log) \in Nat
  BY DEF Typed
<1>2. from \in Nat /\ from >= box.pending
  BY <1>1
<1>3. \/ /\ box.pending = 0 \/ last < box.pending \/ BeyondQueue(last)
         /\ box' = box /\ calls' = calls
      \/ /\ ~BeyondQueue(last) /\ done = {}
         /\ box' = [box EXCEPT !.ballots = g] /\ calls' = calls
      \/ /\ ~BeyondQueue(last) /\ done # {}
         /\ box' = [pending |-> upto + 1, committed |-> upto,
                    ballots |-> SubSeq(g, upto - box.pending + 2, Len(g))]
         /\ calls' = calls \union {[op |-> "on_committed", arg |-> upto]}
  BY DEF CommitAt, Granted
<1> HIDE DEF from
<1>4. /\ g \in Seq(Ballot) /\ Len(g) = Len(box.ballots)
      /\ \A i \in 1..Len(box.ballots) :
            \/ g[i] = box.ballots[i]
            \/ g[i] = box.ballots[i] \union {peer} /\ box.pending + i - 1 <= last
  <2>1. IsGranted(g, box.ballots, box.pending, last, peer)
    BY <1>1, <1>2, GrantedFacts
  <2> HIDE DEF g
  <2> QED BY <2>1 DEF IsGranted
<1> HIDE DEF g
<1>5. \A i \in 1..Len(g) : g[i] \subseteq Holders(has, own, box.pending + i - 1)
  <2> SUFFICES ASSUME NEW i \in 1..Len(g)
               PROVE  g[i] \subseteq Holders(has, own, box.pending + i - 1)
    OBVIOUS
  <2>0. i \in 1..Len(box.ballots)
    BY <1>4
  <2>1. /\ i \in 1..Len(box.ballots) /\ box.pending + i - 1 \in Int
        /\ box.ballots[i] \subseteq Holders(has, own, box.pending + i - 1)
    <3>1. box.pending + i - 1 \in Int
      BY <1>1
    <3> QED BY <2>0, <3>1
  <2>2. box.pending + i - 1 <= last => peer \in Holders(has, own, box.pending + i - 1)
    <3>1. last \in Int
      OBVIOUS
    <3> QED BY <2>1, <3>1, HoldersFacts
  <2> QED BY <1>4, <2>1, <2>2
<1>6. CASE box' = box /\ calls' = calls
  BY <1>6 DEF CommitNow
<1>7. CASE box' = [box EXCEPT !.ballots = g] /\ calls' = calls
  <2>1. /\ box' \in BoxState /\ box'.pending = box.pending
        /\ box'.committed = box.committed /\ box'.ballots = g
    BY <1>4, <1>7 DEF BoxState
  <2>2. Len(box'.ballots) = Len(box.ballots)
    BY <1>4, <2>1
  <2> QED BY <1>5, <1>7, <2>1, <2>2 DEF CommitNow
<1>8. CASE /\ ~BeyondQueue(last) /\ done # {}
           /\ box' = [pending |-> upto + 1, committed |-> upto,
                      ballots |-> SubSeq(g, upto - box.pending + 2, Len(g))]
           /\ calls' = calls \union {[op |-> "on_committed", arg |-> upto]}
  <2>1. last <= Len(log)
    <3>1. last < box.pending + Len(box.ballots)
      BY <1>1, <1>8 DEF BeyondQueue
    <3> QED BY <1>1, <3>1
  <2>2. upto \in done
    <3>1. done \in SUBSET Nat /\ \A i \in done : i <= last
      BY <1>2
    <3> HIDE DEF done
    <3> QED BY <1>8, <3>1, GreatestOf
  <2>3. /\ upto \in Nat /\ upto \in box.pending..Len(log)
        /\ 2 * Cardinality(g[upto - box.pending + 1]) > Cardinality(Peers) + 1
    <3>1. \A i \in done : /\ i \in from..last
                          /\ 2 * Cardinality(g[i - box.pending + 1]) > Cardinality(Peers) + 1
      OBVIOUS
    <3> HIDE DEF done, upto
    <3>2. upto \in from..last
      BY <2>2, <3>1
    <3>3. upto \in Nat /\ upto \in box.pending..Len(log)
      BY <1>1, <1>2, <2>1, <3>2
    <3> QED BY <2>2, <3>1, <3>3
  <2> HIDE DEF done, upto
  <2>b. /\ box.pending \in Nat /\ Len(box.ballots) \in Nat /\ Len(log) \in Nat
        /\ upto \in Nat /\ box.pending <= upto /\ upto <= Len(log)
    BY <1>1, <2>3
  <2>4. 2 * Cardinality(Holders(has, own, upto)) > Cardinality(Peers) + 1
    <3>1. /\ upto - box.pending + 1 \in 1..Len(box.ballots)
          /\ box.pending + (upto - box.pending + 1) - 1 = upto
      <4>1. Cut(box.pending, Len(box.ballots), Len(log), upto)
        BY <2>b, CutAt
      <4> QED BY <4>1 DEF Cut
    <3>2. g[upto - box.pending + 1] \subseteq Holders(has, own, upto)
      BY <1>4, <1>5, <3>1
    <3>3. /\ Cardinality(Peers) \in Nat /\ Cardinality(Holders(has, own, upto)) \in Nat
          /\ Cardinality(g[upto - box.pending + 1]) \in Nat
          /\ Cardinality(g[upto - box.pending + 1]) <= Cardinality(Holders(has, own, upto))
      <4>1. upto \in Int
        BY <2>3
      <4> QED BY <3>2, <4>1, HoldersFacts
    <3> QED BY <2>3, <3>3
  <2> DEFINE m == upto - box.pending + 2
             s == SubSeq(g, m, Len(g))
  <2>5. /\ m \in 1..Len(g) + 1 /\ Len(g) \in m - 1..Len(g)
        /\ Len(g) - m + 1 = Len(log) - upto
        /\ \A i \in 1..Len(log) - upto : box.pending + (m + i - 1) - 1 = upto + 1 + i - 1
                                         /\ m + i - 1 \in 1..Len(g)
    <3>1. Len(g) \in Nat /\ box.pending + Len(g) = Len(log) + 1
      BY <1>1, <1>4
    <3>2. Cut(box.pending, Len(g), Len(log), upto)
      BY <2>b, <3>1, CutAt
    <3> QED BY <3>2 DEF Cut
  <2>6. /\ s \in Seq(Ballot) /\ Len(s) = Len(log) - upto
        /\ \A i \in 1..Len(log) - upto : s[i] = g[m + i - 1]
    <3> HIDE DEF m
    <3> QED BY <1>4, <2>5, PartElements
  <2>7. /\ box' \in BoxState /\ box'.pending = upto + 1 /\ box'.committed = upto
        /\ box'.ballots = s
    <3> DEFINE o == [pending |-> upto + 1, committed |-> upto, ballots |-> s]
    <3>1. box' = o
      BY <1>8
    <3>2. upto + 1 \in Nat /\ upto \in Nat
      BY <2>3
    <3>3. s \in Seq(Ballot)
      BY <2>6
    <3> HIDE DEF s
    <3>4. o \in BoxState /\ o.pending = upto + 1 /\ o.committed = upto /\ o.ballots = s
      BY <3>2, <3>3 DEF BoxState
    <3> QED BY <3>1, <3>4
  <2>8. ASSUME NEW i \in 1..Len(box'.ballots)
        PROVE  box'.ballots[i] \subseteq Holders(has, own, box'.pending + i - 1)
    <3>1. i \in 1..Len(log) - upto /\ m + i - 1 \in 1..Len(g)
          /\ box.pending + (m + i - 1) - 1 = upto + 1 + i - 1
      BY <2>5, <2>6, <2>7
    <3>2. box'.ballots[i] = g[m + i - 1]
      BY <2>6, <2>7, <3>1
    <3>3. g[m + i - 1] \subseteq Holders(has, own, box.pending + (m + i - 1) - 1)
      BY <1>5, <3>1
    <3> QED BY <2>7, <3>1, <3>2, <3>3
  <2>9. box'.pending + Len(box'.ballots) = Len(log) + 1
    <3>1. upto + 1 + (Len(log) - upto) = Len(log) + 1
      BY <1>1, <2>3
    <3> QED BY <2>6, <2>7, <3>1
  <2> QED BY <1>8, <2>3, <2>4, <2>7, <2>8, <2>9 DEF CommitNow
<1> QED BY <1>3, <1>6, <1>7, <1>8

\* What the group has committed grows along the leader's log, and has every entry
\* of the leader's term that a majority has.
ChosenNow(c, has, own) ==
    /\ c \in Logs /\ Len(chosen) <= Len(c) /\ Agree(c, log, Len(c))
    /\ \A j \in 1..Len(chosen) : c[j] = chosen[j]
    /\ Sorted(c) /\ UpTo(c, node.term)
    /\ \A u \in 1..Len(log) :
          log[u].term = node.term
          /\ 2 * Cardinality(Holders(has, own, u)) > Cardinality(Peers) + 1
             => u <= Len(c)

\* What a majority has stored of the leader's term is chosen.
LEMMA ChosenFacts ==
    ASSUME Typed, LogInv, Known(Len(chosen)), NEW has \in [Peers -> 0..MaxLog],
           NEW own \in Int
    PROVE  ChosenNow(Chosen(has, own), has, own)
<1> DEFINE up == {i \in Len(chosen) + 1..Len(log) :
                    /\ log[i].term = node.term
                    /\ 2 * Cardinality(Holders(has, own, i)) > Cardinality(Peers) + 1}
           c == Chosen(has, own)
           k == Greatest(up)
<1>1. /\ log \in Logs /\ Len(log) \in Nat /\ chosen \in Logs /\ Len(chosen) \in Nat
  BY DEF Typed
<1>2. c = IF up = {} THEN chosen ELSE SubSeq(log, 1, k)
  BY DEF Chosen, Holders
<1> SUFFICES ChosenNow(c, has, own)
  OBVIOUS
<1> HIDE DEF c
<1>3. \A j \in 1..Len(chosen) : j <= Len(log) /\ log[j] = chosen[j]
  BY <1>1 DEF Known, Agree
<1>4. CASE up = {}
  <2>1. c = chosen
    BY <1>2, <1>4
  <2>2. ASSUME NEW u \in 1..Len(log), log[u].term = node.term,
               2 * Cardinality(Holders(has, own, u)) > Cardinality(Peers) + 1
        PROVE  u <= Len(c)
    <3>1. u \notin Len(chosen) + 1..Len(log)
      BY <1>4, <2>2
    <3> QED BY <1>1, <2>1, <3>1
  <2>3. Agree(c, log, Len(c))
    BY <2>1 DEF Known
  <2>4. Sorted(c) /\ UpTo(c, node.term) /\ Len(chosen) <= Len(c) /\ c \in Logs
    BY <1>1, <2>1 DEF LogInv
  <2>5. \A j \in 1..Len(chosen) : c[j] = chosen[j]
    BY <2>1
  <2> QED BY <2>2, <2>3, <2>4, <2>5 DEF ChosenNow
<1>5. CASE up # {}
  <2>1. k \in up /\ \A y \in up : y <= k
    <3>1. up \in SUBSET Nat /\ \A x \in up : x <= Len(log)
      BY <1>1
    <3> HIDE DEF up
    <3> QED BY <1>1, <1>5, <3>1, GreatestOf
  <2>2. k \in Nat /\ Len(chosen) <= k /\ k <= Len(log) /\ k \in 0..Len(log)
    <3>1. \A i \in up : i \in Len(chosen) + 1..Len(log)
      OBVIOUS
    <3> HIDE DEF up, k
    <3> QED BY <1>1, <2>1, <3>1
  <2>3. ASSUME NEW u \in 1..Len(log), log[u].term = node.term,
               2 * Cardinality(Holders(has, own, u)) > Cardinality(Peers) + 1
        PROVE  u <= k
    <3>1. u \in Len(chosen) + 1..Len(log) => u \in up
      BY <2>3
    <3> HIDE DEF up, k
    <3>2. CASE u \in Len(chosen) + 1..Len(log)
      BY <2>1, <3>1, <3>2
    <3>3. CASE u \notin Len(chosen) + 1..Len(log)
      BY <1>1, <2>2, <3>3
    <3> QED BY <3>2, <3>3
  <2>4. c = SubSeq(log, 1, k)
    BY <1>2, <1>5
  <2> HIDE DEF up, k
  <2>5. c \in Logs /\ Len(c) = k /\ \A i \in 1..k : c[i] = log[i]
    BY <1>1, <2>2, <2>4, PrefixFacts
  <2>6. Agree(c, log, Len(c))
    BY <2>2, <2>5 DEF Agree
  <2>7. \A j \in 1..Len(chosen) : c[j] = chosen[j]
    BY <1>1, <1>3, <2>2, <2>5
  <2>8. Sorted(c) /\ UpTo(c, node.term)
    <3>1. \A i \in 1..Len(c) : i \in 1..Len(log) /\ c[i] = log[i]
      BY <1>1, <2>2, <2>5
    <3> QED BY <3>1 DEF LogInv, Sorted, UpTo
  <2>9. \A u \in 1..Len(log) :
           log[u].term = node.term
           /\ 2 * Cardinality(Holders(has, own, u)) > Cardinality(Peers) + 1
              => u <= Len(c)
    BY <2>3, <2>5
  <2> QED BY <2>2, <2>5, <2>6, <2>7, <2>8, <2>9 DEF ChosenNow
<1> QED BY <1>4, <1>5

\* The end of a sequence; numbers that have not become less.
Ending(r, q) ==
    /\ Len(r) <= Len(q)
    /\ \A k \in 1..Len(r) : r[k] = q[Len(q) - Len(r) + k]
NotLess(f, g) == \A p \in Peers : f[p] >= g[p]

\* A ballot is granted by one who has what it is for: commit_at, of the disk thread or
\* of a replicator. Both leave all but the ballots alone.
Counted(first, last, peer) ==
    /\ Leading /\ CommitAt(first, last, peer)
    /\ stored' \in [Peers -> 0..MaxLog] /\ NotLess(stored', stored)
    /\ stable' \in Seq(StableClosure) /\ Ending(stable', stable)
    /\ peer \in Holders(stored', Len(log) - Len(stable'), last)
    /\ chosen' = Chosen(stored', Len(log) - Len(stable'))
    /\ UNCHANGED <<node, log, closures, fsm, user, tasks, failed>>

\* A grant is counted, by whomever it was given.
LEMMA CommitAtKeeps ==
    ASSUME IInv, NEW first \in Nat, NEW last \in Nat, NEW peer \in Peers \union {Self},
           Counted(first, last, peer)
    PROVE  IInv'
<1> DEFINE own == Len(log) - Len(stable')
<1>0. /\ node' = node /\ log' = log /\ closures' = closures /\ fsm' = fsm
      /\ user' = user /\ tasks' = tasks /\ failed' = failed
  BY DEF Counted
<1>n. /\ Leading /\ stored' \in [Peers -> 0..MaxLog] /\ NotLess(stored', stored)
      /\ stable' \in Seq(StableClosure) /\ Ending(stable', stable)
      /\ chosen' = Chosen(stored', own)
  BY DEF Counted
<1>1. Kinds /\ Shape /\ Bounds /\ Typed /\ failed = {}
  BY TypeParts, Types DEF IInv
<1>2. /\ log \in Logs /\ Len(log) \in Nat /\ chosen \in Logs /\ Len(chosen) \in Nat
      /\ Len(log) <= MaxLog /\ MaxLog \in Nat /\ box.pending \in Nat
      /\ box.committed \in Nat /\ Len(box.ballots) \in Nat /\ Len(stable) \in Nat
      /\ stored \in [Peers -> 0..MaxLog] /\ closures.first \in Nat
  BY <1>1 DEF Typed
<1>3. Len(stable') \in Nat /\ own \in Int /\ Len(stable') <= Len(stable)
  <2>1. Len(stable') \in Nat /\ Len(stable') <= Len(stable)
    BY <1>n, SeqFacts DEF Ending
  <2> QED BY <1>2, <2>1
<1>4. /\ Active /\ (Leading' <=> Leading) /\ (Active' <=> Active)
      /\ LogInv /\ KnownInv /\ BallotInv /\ FsmInv /\ TaskInv /\ NoticeInv
  BY <1>0, <1>n DEF IInv, Active, Leading
<1>5. Known(Len(chosen))
  BY <1>4, <1>n DEF LogInv, Leading
<1>c. ChosenNow(chosen', stored', own)
  <2> DEFINE has == stored'
  <2>1. has \in [Peers -> 0..MaxLog] /\ chosen' = Chosen(has, own)
    BY <1>n
  <2> HIDE DEF has, own
  <2>2. ChosenNow(Chosen(has, own), has, own)
    BY <1>1, <1>3, <1>4, <1>5, <2>1, ChosenFacts
  <2> QED BY <2>1, <2>2 DEF has
<1>6. /\ chosen' \in Logs /\ Len(chosen) <= Len(chosen') /\ Agree(chosen', log, Len(chosen'))
      /\ \A j \in 1..Len(chosen) : chosen'[j] = chosen[j]
      /\ Sorted(chosen') /\ UpTo(chosen', node.term)
      /\ \A u \in 1..Len(log) :
            log[u].term = node.term
            /\ 2 * Cardinality(Holders(stored', own, u)) > Cardinality(Peers) + 1
               => u <= Len(chosen')
  BY <1>c DEF ChosenNow
<1>7. /\ box.pending >= 1 /\ box.pending + Len(box.ballots) = Len(log) + 1
      /\ closures.first + Len(closures.queue) = Len(log) + 1
      /\ closures.first <= box.pending /\ box.committed < box.pending
      /\ \A i \in box.pending..Len(log) : log[i].term = node.term
      /\ Len(stable) <= Len(log)
  BY <1>1, <1>4, <1>n DEF Shape, BallotInv, KnownInv
<1>8. ASSUME NEW i \in 1..Len(box.ballots)
      PROVE  box.ballots[i] \subseteq Holders(stored', own, box.pending + i - 1)
  <2>1. box.ballots[i] \subseteq
           Holders(stored, Len(log) - Len(stable), box.pending + i - 1)
    BY <1>4, <1>n DEF BallotInv
  <2> DEFINE a == box.pending + i - 1
             old == Len(log) - Len(stable)
  <2>2. a \in Int /\ old \in Int /\ old <= own
    BY <1>2, <1>3
  <2> HIDE DEF a, own, old
  <2>3. ASSUME NEW p \in Peers, stored[p] >= a PROVE stored'[p] >= a
    <3>1. stored[p] \in Int /\ stored'[p] \in Int /\ stored'[p] >= stored[p]
      BY <1>2, <1>n DEF NotLess
    <3> QED BY <2>2, <2>3, <3>1
  <2>4. old >= a => own >= a
    BY <1>3, <2>2
  <2>5. Holders(stored, old, a) \subseteq Holders(stored', own, a)
    BY <2>3, <2>4 DEF Holders
  <2> QED BY <2>1, <2>5 DEF a, old
<1> HIDE DEF own
<1>9. /\ box' \in BoxState /\ box'.pending + Len(box'.ballots) = Len(log) + 1
      /\ \A i \in 1..Len(box'.ballots) :
            box'.ballots[i] \subseteq Holders(stored', own, box'.pending + i - 1)
      /\ \/ /\ box'.pending = box.pending /\ box'.committed = box.committed
            /\ calls' = calls
         \/ \E u \in box.pending..Len(log) :
               /\ box'.pending = u + 1 /\ box'.committed = u
               /\ 2 * Cardinality(Holders(stored', own, u)) > Cardinality(Peers) + 1
               /\ calls' = calls \union {[op |-> "on_committed", arg |-> u]}
  <2>1. peer \in Holders(stored', own, last)
    BY DEF own, Counted
  <2>2. box \in BoxState /\ CommitAt(first, last, peer) /\ Leading
    BY <1>1 DEF Kinds, Counted
  <2> DEFINE has == stored'
  <2>3. has \in [Peers -> 0..MaxLog] /\ peer \in Holders(has, own, last)
    BY <1>n, <2>1
  <2>4. \A i \in 1..Len(box.ballots) :
           box.ballots[i] \subseteq Holders(has, own, box.pending + i - 1)
    BY <1>8
  <2> HIDE DEF has
  <2>5. CommitNow(has, own)
    BY <1>1, <1>3, <1>7, <2>2, <2>3, <2>4, CommitAtFacts
  <2> QED BY <2>5 DEF has, CommitNow
<1> DEFINE moved(u) ==
             /\ box'.pending = u + 1 /\ box'.committed = u
             /\ calls' = calls \union {[op |-> "on_committed", arg |-> u]}
             /\ u \in Nat /\ u <= Len(log) /\ u <= Len(chosen') /\ box.pending <= u
           still == /\ box'.pending = box.pending /\ box'.committed = box.committed
                    /\ calls' = calls
<1>10. still \/ \E u \in Nat : moved(u)
  <2> SUFFICES ASSUME NEW u \in box.pending..Len(log),
                      box'.pending = u + 1, box'.committed = u,
                      2 * Cardinality(Holders(stored', own, u)) > Cardinality(Peers) + 1,
                      calls' = calls \union {[op |-> "on_committed", arg |-> u]}
               PROVE  moved(u) /\ u \in Nat
    BY <1>9
  <2>1. u \in Nat /\ u <= Len(log) /\ box.pending <= u /\ u \in 1..Len(log)
    BY SMTT(30), <1>2, <1>7
  <2>2. u <= Len(chosen')
    BY <1>6, <1>7, <2>1
  <2> QED BY <2>1, <2>2
<1>11. /\ box'.pending \in Nat /\ box'.committed \in Nat /\ box'.committed < box'.pending
       /\ box'.pending >= box.pending /\ box'.committed <= MaxLog
       /\ box'.committed >= box.committed /\ calls' \subseteq Call
  <2>1. CASE still
    <3>1. box'.committed < box'.pending /\ box'.pending >= box.pending
          /\ box'.committed >= box.committed
      BY SMTT(30), <1>2, <1>7, <2>1
    <3>2. box'.committed <= MaxLog /\ calls' \subseteq Call
      BY <1>1, <2>1 DEF Kinds, Bounds
    <3> QED BY <1>2, <2>1, <3>1, <3>2
  <2>2. ASSUME NEW u \in Nat, moved(u)
        PROVE  /\ box'.pending \in Nat /\ box'.committed \in Nat
               /\ box'.committed < box'.pending
               /\ box'.pending >= box.pending /\ box'.committed <= MaxLog
               /\ box'.committed >= box.committed /\ calls' \subseteq Call
    <3>1. [op |-> "on_committed", arg |-> u] \in Call
      BY <2>2 DEF Call
    <3>2. calls' \subseteq Call
      BY <1>1, <2>2, <3>1 DEF Kinds
    <3>3. /\ u + 1 \in Nat /\ u < u + 1 /\ u + 1 >= box.pending /\ u <= MaxLog
          /\ u >= box.committed
      <4>1. u <= Len(log) /\ box.pending <= u
        BY <2>2
      <4>2. u + 1 \in Nat /\ u < u + 1
        OBVIOUS
      <4>3. u + 1 >= box.pending /\ u >= box.committed
        BY SMTT(30), <1>2, <1>7, <4>1
      <4>4. u <= MaxLog
        BY <1>2, <4>1
      <4> QED BY <4>2, <4>3, <4>4
    <3> QED BY <2>2, <3>2, <3>3
  <2> QED BY <1>10, <2>1, <2>2
<1>12. TypeInv'
  <2>1. Kinds'
    BY <1>0, <1>1, <1>6, <1>9, <1>11, <1>n DEF Kinds
  <2>2. closures.first <= box'.pending
    BY SMTT(30), <1>2, <1>7, <1>11
  <2>3. Shape'
    BY <1>0, <1>4, <1>7, <1>9, <1>n, <2>2 DEF Shape
  <2>4. Bounds'
    BY <1>0, <1>1, <1>11 DEF Bounds
  <2> QED BY <1>0, <1>1, <2>1, <2>3, <2>4, TypePartsNext
<1>13. Typed'
  BY <1>12, TypesNext
<1>14. \A a \in Nat : Known(a) => Known(a)'
  <2>1. \A j \in 1..Len(log) : j <= Len(chosen) => j <= Len(log') /\ log'[j] = log[j]
    BY <1>0, <1>2
  <2> QED BY <1>1, <1>6, <1>13, <2>1, KnownGrows
<1>15. LogInv'
  <2>1. \A t \in Elements(fsm'.queue) :
           t.type = "SNAPSHOT_LOAD" => t.arg \in 1..Len(chosen')
    <3> SUFFICES ASSUME NEW t \in Elements(fsm.queue), t.type = "SNAPSHOT_LOAD"
                 PROVE  t.arg \in 1..Len(chosen')
      BY <1>0
    <3>1. t.arg \in 1..Len(chosen)
      BY <1>4 DEF LogInv
    <3>2. Len(chosen') \in Nat
      BY <1>13 DEF Typed
    <3> QED BY <1>2, <1>6, <3>1, <3>2
  <2> QED BY <1>0, <1>4, <1>6, <2>1 DEF LogInv, Known
<1>16. KnownInv'
  <2>1. Cur'.type = "COMMITTED" =>
           Cur.type = "COMMITTED" /\ Cur'.upto = Cur.upto /\ Cur.upto \in Nat
    <3>1. Cur' = Cur
      BY <1>0 DEF Cur
    <3>2. Cur.type = "COMMITTED" => Cur.upto \in Nat
      BY <1>1, <1>4, CurFacts
    <3> QED BY <3>1, <3>2
  <2>2. box'.committed = box.committed \/ Known(box.committed)'
    <3>1. ASSUME NEW u \in Nat, moved(u) PROVE Agree(chosen', log', box'.committed)
      <4>1. Len(chosen') \in Nat /\ u <= Len(chosen')
        BY <1>13, <3>1 DEF Typed
      <4>2. Agree(chosen', log', u)
        <5>1. \A j \in 1..u : j \in 1..Len(chosen')
          BY <4>1
        <5> QED BY <1>0, <1>6, <3>1, <5>1 DEF Agree
      <4> QED BY <3>1, <4>2
    <3> QED BY <1>10, <3>1 DEF Known
  <2>3. \A d \in calls' : \/ d \in calls
                          \/ d.op = "on_committed" /\ d.arg <= box'.committed
    <3>1. ASSUME NEW u \in Nat, moved(u), NEW d \in calls'
          PROVE  d \in calls \/ (d.op = "on_committed" /\ d.arg <= box'.committed)
      <4>1. d \in calls \/ (d.op = "on_committed" /\ d.arg = u)
        BY <3>1
      <4>2. box'.committed = u /\ u <= u
        BY <3>1
      <4> QED BY <4>1, <4>2
    <3> QED BY <1>10, <3>1
  <2>4. \A d \in Elements(stable') : d \in Elements(stable)
    <3> SUFFICES ASSUME NEW k \in 1..Len(stable') PROVE stable'[k] \in Elements(stable)
      BY DEF Elements
    <3>1. Len(stable) - Len(stable') + k \in 1..Len(stable)
      BY <1>2, <1>3
    <3>2. stable'[k] = stable[Len(stable) - Len(stable') + k]
      BY <1>n DEF Ending
    <3> QED BY <3>1, <3>2 DEF Elements
  <2>5. \A d \in calls' : d.op = "set_committed" => d.arg < box'.pending
    <3> SUFFICES ASSUME NEW d \in calls', d.op = "set_committed" PROVE d.arg < box'.pending
      OBVIOUS
    <3>1. d \in calls
      BY <2>3
    <3>2. d.arg < box.pending
      BY <1>4, <1>n, <3>1 DEF KnownInv
    <3>3. d.arg \in Nat
      BY <1>1, <3>1 DEF Typed
    <3> QED BY <1>2, <1>11, <3>2, <3>3
  <2> QED BY <1>0, <1>1, <1>4, <1>11, <1>13, <1>14, <2>1, <2>2, <2>3, <2>4, <2>5,
             KnownStays
<1>17. BallotInv'
  <2>1. box'.pending >= 1 /\ Len(stable') <= Len(log')
    <3>1. box'.pending >= box.pending /\ box'.pending \in Nat
      BY <1>11
    <3>2. box'.pending >= 1
      BY <1>2, <1>7, <3>1
    <3>3. Len(stable') <= Len(stable) /\ Len(stable) <= Len(log) /\ Len(stable') \in Nat
      BY <1>3, <1>7
    <3>4. Len(stable') <= Len(log)
      BY <1>2, <3>3
    <3> QED BY <1>0, <3>2, <3>4
  <2>2. \A i \in box'.pending..Len(log') : log'[i].term = node'.term
    <3>1. \A i \in box'.pending..Len(log) : i \in box.pending..Len(log)
      BY <1>2, <1>11
    <3> QED BY <1>0, <1>7, <3>1
  <2>3. ASSUME NEW k \in 1..Len(stable')
        PROVE  stable'[k].op = "leader" /\ stable'[k].first = Len(log') - Len(stable') + k
    <3> DEFINE m == Len(stable) - Len(stable') + k
    <3>1. m \in 1..Len(stable) /\ Len(log) - Len(stable) + m = Len(log) - Len(stable') + k
      BY <1>2, <1>3
    <3>2. stable'[k] = stable[m]
      BY <1>n DEF Ending
    <3> HIDE DEF m
    <3>3. stable[m].op = "leader" /\ stable[m].first = Len(log) - Len(stable) + m
      BY <1>4, <1>n, <3>1 DEF BallotInv
    <3> QED BY <1>0, <3>1, <3>2, <3>3
  <2>4. \A i \in 1..Len(box'.ballots) :
           box'.ballots[i] \subseteq
              Holders(stored', Len(log') - Len(stable'), box'.pending + i - 1)
    BY <1>0, <1>9 DEF own
  <2> QED BY <2>1, <2>2, <2>3, <2>4 DEF BallotInv
<1>18. FsmInv'
  BY <1>0, <1>1, <1>4, <1>6, <1>13, FsmStays DEF FsmInv
<1>19. TaskInv'
  <2>1. Acked(tasks, user'.applied)
    BY <1>0, <1>1, <1>4, AckedIs DEF TaskInv
  <2>2. \A h \in Waiting \union Popped : h.i <= Len(log') /\ log'[h.i] = log[h.i]
    <3> SUFFICES ASSUME NEW h \in Waiting \union Popped
                 PROVE  h.i <= Len(log) /\ log'[h.i] = log[h.i]
      BY <1>0
    <3>1. Fits(h.c, h.i, log, tasks)
      BY <1>4 DEF TaskInv
    <3>2. h.i \in 1..Len(log)
      BY <3>1 DEF Fits
    <3> QED BY <1>0, <1>2, <3>2
  <2>3. \A h \in Waiting : h.c.kind = "conf" =>
           node'.state = "LEADER" /\ node'.busy /\ h.c.n = node'.term
    BY <1>0, <1>4 DEF TaskInv
  <2> QED BY <1>0, <1>1, <1>4, <1>13, <2>1, <2>2, <2>3, TaskStays
<1>20. NoticeInv'
  <2>1. Popped' = Popped /\ FewerNotices(fsm.queue, fsm'.queue)
    BY <1>0 DEF Popped, Cur, FewerNotices
  <2>2. (\A t : Leads(t) => Leads(t)') /\ (\A t : Follows(t) => Follows(t)')
    BY <1>0 DEF Leads, Follows
  <2> QED BY <1>0, <1>4, <2>1, <2>2, NoticeStays
<1> QED BY <1>12, <1>15, <1>16, <1>17, <1>18, <1>19, <1>20 DEF IInv

\* Nothing happens, or nothing but that an answer is waited for no more.
LEMMA StutterKeeps ==
    ASSUME IInv, UNCHANGED <<node, log, box, closures, stable, calls, fsm, user, tasks,
                             stored, chosen, failed>>
    PROVE  IInv'
<1>1. Kinds /\ failed = {} /\ NoticeInv
  BY TypeParts DEF IInv
<1>0. UNCHANGED <<node, log, box, closures, stable, calls, fsm, user, tasks, stored,
                  chosen, failed>>
  OBVIOUS
<1>2. (Leading' <=> Leading) /\ (Active' <=> Active) /\ Popped' = Popped
  BY <1>0 DEF Leading, Active, Popped, Cur
<1>3. NoticeInv'
  <2>1. FewerNotices(fsm.queue, fsm'.queue)
    BY <1>0 DEF FewerNotices
  <2>2. (\A t : Leads(t) => Leads(t)') /\ (\A t : Follows(t) => Follows(t)')
    BY <1>0 DEF Leads, Follows
  <2> QED BY <1>0, <1>1, <1>2, <2>1, <2>2, NoticeStays
<1>4. \A h \in Waiting : h.c.kind = "conf" => node'.state = "LEADER" /\ node'.busy
  BY <1>0 DEF IInv, TaskInv
<1>5. node' \in NodeState /\ fsm' \in FsmState /\ user' \in UserState
  BY <1>0, <1>1 DEF Kinds
<1> QED BY <1>0, <1>1, <1>2, <1>3, <1>4, <1>5, CalmKeeps

\* What a leader has on its disk, when nothing is done there.
LEMMA DiskRests ==
    ASSUME Typed, BallotInv, Leading, stable' = stable
    PROVE  /\ Ending(stable', stable)
           /\ StableUpTo(stable) = Len(log) - Len(stable')
<1>1. Len(log) \in Nat /\ stable \in Seq(StableClosure) /\ Len(stable) \in Nat
  BY DEF Typed
<1>2. Ending(stable', stable)
  <2>1. \A k \in 1..Len(stable) : Len(stable) - Len(stable) + k = k
    BY <1>1
  <2> QED BY <1>1, <2>1 DEF Ending
<1>3. StableUpTo(stable) = Len(log) - Len(stable')
  <2>1. CASE stable = <<>>
    BY <1>1, <2>1 DEF StableUpTo
  <2>2. CASE stable # <<>>
    <3>1. Head(stable) = stable[1] /\ 1 \in 1..Len(stable)
      BY <1>1, <2>2, TailElements
    <3>2. stable[1].first = Len(log) - Len(stable) + 1
      BY <3>1 DEF BallotInv
    <3>3. Head(stable).first - 1 = Len(log) - Len(stable)
      BY <1>1, <3>1, <3>2
    <3> QED BY <2>2, <3>3 DEF StableUpTo
  <2> QED BY <2>1, <2>2
<1> QED BY <1>2, <1>3

\* A peer has stored entries: commit_at, now or later.
LEMMA PeerStoredKeeps ==
    ASSUME IInv, NEW p \in Peers, NEW i \in 1..Len(log), PeerStored(p, i)
    PROVE  IInv'
<1>1. Typed /\ BallotInv
  BY Types DEF IInv
<1>2. /\ Len(log) \in Nat /\ Len(log) <= MaxLog /\ MaxLog \in Nat
      /\ stored \in [Peers -> 0..MaxLog] /\ stable \in Seq(StableClosure)
      /\ Len(stable) \in Nat
  BY <1>1 DEF Typed
<1>3. /\ Leading /\ i > stored[p] /\ stored' = [stored EXCEPT ![p] = i]
      /\ chosen' = Chosen(stored', StableUpTo(stable))
      /\ CommitAt(stored[p] + 1, i, p) \/ UNCHANGED <<box, calls>>
      /\ stable' = stable
      /\ UNCHANGED <<node, log, closures, fsm, user, tasks, failed>>
  BY DEF PeerStored
<1>4. stored[p] \in Nat /\ i \in Nat /\ i \in 0..MaxLog
  BY <1>2
<1>5. /\ stored' \in [Peers -> 0..MaxLog] /\ stored'[p] = i
      /\ \A o \in Peers : o # p => stored'[o] = stored[o]
  BY <1>2, <1>3, <1>4
<1>6. NotLess(stored', stored)
  <2> SUFFICES ASSUME NEW o \in Peers PROVE stored'[o] >= stored[o]
    BY DEF NotLess
  <2>1. CASE o = p
    BY <1>3, <1>4, <1>5, <2>1
  <2>2. CASE o # p
    <3>1. stored[o] \in Int
      BY <1>2
    <3> QED BY <1>5, <2>2, <3>1
  <2> QED BY <2>1, <2>2
<1>7. Ending(stable', stable) /\ StableUpTo(stable) = Len(log) - Len(stable')
  BY <1>1, <1>3, DiskRests
<1>9. /\ p \in Holders(stored', Len(log) - Len(stable'), i)
      /\ p \in Holders(stored', Len(log) - Len(stable'), 0)
  BY <1>4, <1>5 DEF Holders
<1>10. CASE CommitAt(stored[p] + 1, i, p)
  <2>1. Counted(stored[p] + 1, i, p)
    BY <1>2, <1>3, <1>5, <1>6, <1>7, <1>9, <1>10 DEF Counted
  <2> QED BY <1>4, <2>1, CommitAtKeeps
<1>11. CASE UNCHANGED <<box, calls>>
  <2>1. CommitAt(0, 0, p)
    <3>1. box.pending \in Nat /\ box.pending >= 1
      BY <1>1, <1>3 DEF Typed, BallotInv
    <3> QED BY <1>11, <3>1 DEF CommitAt
  <2>2. Counted(0, 0, p)
    BY <1>2, <1>3, <1>5, <1>6, <1>7, <1>9, <2>1 DEF Counted
  <2> QED BY <2>2, CommitAtKeeps
<1> QED BY <1>3, <1>10, <1>11

\* A late answer: nothing is pending, or nothing that it is about, or its peer has
\* stored entries of this leadership.
LEMMA AnswerComesKeeps ==
    ASSUME IInv, LateInv, NEW a \in late, AnswerComes(a)
    PROVE  IInv'
<1>1. Kinds /\ Shape /\ Typed /\ BallotInv
  BY TypeParts, Types DEF IInv
<1>2. /\ stored \in [Peers -> 0..MaxLog] /\ stable \in Seq(StableClosure)
      /\ MaxLog \in Nat /\ box.pending \in Nat
  BY <1>1 DEF Typed
<1>3. /\ CommitAt(a.first, a.last, a.peer) \/ UNCHANGED <<box, calls>>
      /\ chosen' = IF Leading THEN Chosen(stored, StableUpTo(stable)) ELSE chosen
      /\ UNCHANGED <<node, log, closures, stable, fsm, user, tasks, stored, failed>>
  BY DEF AnswerComes
<1>4. /\ a.first \in Nat /\ a.last \in Nat /\ a.peer \in Peers
      /\ box.pending # 0 => a.last < box.pending \/ stored[a.peer] >= a.last
  BY DEF LateInv
<1>5. CASE ~Leading
  <2>1. box.pending = 0
    BY <1>1, <1>5 DEF Shape
  <2>2. UNCHANGED <<box, calls>>
    BY <1>3, <2>1 DEF CommitAt
  <2> QED BY <1>3, <1>5, <2>2, StutterKeeps
<1>6. CASE Leading
  <2>1. box.pending >= 1
    BY <1>1, <1>6 DEF BallotInv
  <2>2. NotLess(stored', stored)
    <3>1. \A p \in Peers : stored[p] >= stored[p]
      BY <1>2
    <3> QED BY <1>3, <3>1 DEF NotLess
  <2>3. Ending(stable', stable) /\ StableUpTo(stable) = Len(log) - Len(stable')
    BY <1>1, <1>3, <1>6, DiskRests
  <2>4. CASE CommitAt(a.first, a.last, a.peer) /\ stored[a.peer] >= a.last
    <3>1. a.peer \in Holders(stored', Len(log) - Len(stable'), a.last)
      BY <1>3, <1>4, <2>4 DEF Holders
    <3>2. Counted(a.first, a.last, a.peer)
      BY <1>2, <1>3, <1>6, <2>2, <2>3, <2>4, <3>1 DEF Counted
    <3> QED BY <1>4, <3>2, CommitAtKeeps
  <2>5. CASE UNCHANGED <<box, calls>>
    <3>1. a.peer \in Holders(stored', Len(log) - Len(stable'), 0)
      BY <1>2, <1>3, <1>4 DEF Holders
    <3>2. CommitAt(0, 0, a.peer)
      BY <1>2, <2>1, <2>5 DEF CommitAt
    <3>3. Counted(0, 0, a.peer)
      BY <1>2, <1>3, <1>6, <2>2, <2>3, <3>1, <3>2 DEF Counted
    <3> QED BY <1>4, <3>3, CommitAtKeeps
  <2>6. CASE CommitAt(a.first, a.last, a.peer) /\ a.last < box.pending
    BY <2>5, <2>6 DEF CommitAt
  <2> QED BY <1>2, <1>3, <1>4, <2>1, <2>4, <2>5, <2>6
<1> QED BY <1>5, <1>6

\* What the disk thread does for a follower, or for a leader that leads no longer.
LEMMA StableDoneKeeps ==
    ASSUME IInv, ~Leading, stable # <<>>, stable' = Tail(stable),
           \/ calls' = calls
           \/ /\ Head(stable).op = "follower"
              /\ calls' = calls \union {[op |-> "set_committed",
                                         arg |-> Head(stable).committed]},
           UNCHANGED <<node, log, box, closures, fsm, user, tasks, stored, chosen, failed>>
    PROVE  IInv'
<1>1. Kinds /\ Shape /\ Bounds /\ Typed /\ failed = {}
  BY TypeParts, Types DEF IInv
<1>2. LogInv /\ KnownInv /\ BallotInv /\ FsmInv /\ TaskInv /\ NoticeInv
  BY DEF IInv
<1>3. /\ stable' \in Seq(StableClosure) /\ Elements(stable') \subseteq Elements(stable)
      /\ Head(stable) \in Elements(stable) /\ Head(stable) \in StableClosure
  <2>1. stable \in Seq(StableClosure)
    BY <1>1 DEF Kinds
  <2> QED BY <2>1, TailElements
<1>4. \A d \in calls' : /\ d \in Call
                        /\ d \in calls \/ (d.op = "set_committed" /\ Known(d.arg))
  <2>1. CASE calls' = calls
    BY <1>1, <2>1 DEF Kinds
  <2>2. CASE /\ Head(stable).op = "follower"
             /\ calls' = calls \union {[op |-> "set_committed",
                                        arg |-> Head(stable).committed]}
    <3> DEFINE d == [op |-> "set_committed", arg |-> Head(stable).committed]
    <3>1. Head(stable).committed \in Nat /\ Known(Head(stable).committed)
      BY <1>1, <1>2, <1>3, <2>2 DEF Typed, KnownInv
    <3>2. d \in Call /\ d.op = "set_committed" /\ Known(d.arg)
      BY <3>1 DEF Call
    <3>3. calls' = calls \union {d} /\ calls \subseteq Call
      BY <1>1, <2>2 DEF Kinds
    <3> HIDE DEF d
    <3> QED BY <3>2, <3>3
  <2> QED BY <2>1, <2>2
<1>5. (Leading' <=> Leading) /\ (Active' <=> Active)
  BY DEF Leading, Active
<1>6. TypeInv'
  <2>1. Kinds'
    BY <1>1, <1>3, <1>4 DEF Kinds
  <2>2. Shape' /\ Bounds'
    BY <1>1, <1>5 DEF Shape, Bounds
  <2> QED BY <1>1, <2>1, <2>2, TypePartsNext
<1>7. Typed'
  BY <1>6, TypesNext
<1>8. LogInv'
  BY <1>1, <1>2, <1>5, <1>7, TermFacts, LogStays
<1>9. KnownInv'
  <2>1. \A a \in Nat : Known(a) => Known(a)'
    BY DEF Known
  <2>2. Cur'.type = "COMMITTED" =>
           Cur.type = "COMMITTED" /\ Cur'.upto = Cur.upto /\ Cur.upto \in Nat
    <3>1. Cur' = Cur
      BY DEF Cur
    <3>2. Cur.type = "COMMITTED" => Cur.upto \in Nat
      BY <1>1, <1>2, CurFacts
    <3> QED BY <3>1, <3>2
  <2>3. \A d \in calls' : \/ d \in calls
                          \/ d.op = "set_committed" /\ Known(d.arg)'
    <3> SUFFICES ASSUME NEW d \in calls', d \notin calls
                 PROVE  d.op = "set_committed" /\ Known(d.arg)'
      OBVIOUS
    <3>1. d.op = "set_committed" /\ Agree(chosen, log, d.arg)
      BY <1>4 DEF Known
    <3>2. Agree(chosen', log', d.arg)
      BY <3>1
    <3> QED BY <3>1, <3>2 DEF Known
  <2>4. box'.committed >= box.committed
    BY <1>1, SameCommitted
  <2> QED BY <1>1, <1>2, <1>3, <1>5, <1>7, <2>1, <2>2, <2>3, <2>4, KnownStays
<1>10. BallotInv'
  BY <1>2, <1>5, BallotStays
<1>11. FsmInv'
  BY <1>2, <1>5 DEF FsmInv, Cur
<1>12. TaskInv'
  <2>1. Waiting' = Waiting /\ Popped' = Popped /\ Cur' = Cur
    BY DEF Waiting, Popped, Cur
  <2>2. AckedOnceApplied'
    BY <1>2 DEF TaskInv, AckedOnceApplied
  <2> QED BY <1>2, <1>5, <2>1, <2>2 DEF TaskInv
<1>13. NoticeInv'
  <2>1. Popped' = Popped /\ FewerNotices(fsm.queue, fsm'.queue)
    BY DEF Popped, Cur, FewerNotices
  <2>2. (\A t : Leads(t) => Leads(t)') /\ (\A t : Follows(t) => Follows(t)')
    BY DEF Leads, Follows
  <2> QED BY <1>2, <2>1, <2>2, NoticeStays
<1> QED BY <1>6, <1>8, <1>9, <1>10, <1>11, <1>12, <1>13 DEF IInv

\* The disk thread.
LEMMA RunStableClosureKeeps == ASSUME IInv, RunStableClosure PROVE IInv'
<1> DEFINE c == Head(stable)
<1>1. Kinds /\ Shape /\ Typed /\ BallotInv
  BY TypeParts, Types DEF IInv
<1>2. /\ Len(log) \in Nat /\ stable \in Seq(StableClosure) /\ Len(stable) \in Nat
      /\ stored \in [Peers -> 0..MaxLog] /\ MaxLog \in Nat
  BY <1>1 DEF Typed
<1>3. /\ stable # <<>> /\ stable' = Tail(stable)
      /\ UNCHANGED <<node, log, closures, fsm, user, tasks, stored, failed>>
      /\ \/ /\ c.op = "leader" /\ CommitAt(c.first, c.first, Self)
            /\ chosen' = IF Leading THEN Chosen(stored, c.first) ELSE chosen
         \/ /\ c.op = "follower" /\ box' = box /\ chosen' = chosen
            /\ \/ calls' = calls
               \/ calls' = calls \union {[op |-> "set_committed", arg |-> c.committed]}
  BY DEF RunStableClosure
<1>4. CASE Leading
  <2>1. /\ c = stable[1] /\ 1 \in 1..Len(stable) /\ Tail(stable) \in Seq(StableClosure)
        /\ Len(stable) \in Nat \ {0} /\ Len(Tail(stable)) = Len(stable) - 1
        /\ \A i \in 1..Len(stable) - 1 : Tail(stable)[i] = stable[i + 1]
    BY <1>2, <1>3, TailElements
  <2>2. /\ stable[1].op = "leader" /\ stable[1].first = Len(log) - Len(stable) + 1
        /\ Len(stable) <= Len(log)
    BY <1>1, <1>4, <2>1 DEF BallotInv
  <2>3. /\ c.op = "leader" /\ c.first \in Nat /\ c.first = Len(log) - Len(Tail(stable))
    BY <1>2, <2>1, <2>2
  <2> HIDE DEF c
  <2>4. CommitAt(c.first, c.first, Self) /\ chosen' = Chosen(stored, c.first)
    BY <1>3, <1>4, <2>3
  <2>5. NotLess(stored', stored)
    <3>1. \A p \in Peers : stored[p] >= stored[p]
      BY <1>2
    <3> QED BY <1>3, <3>1 DEF NotLess
  <2>6. Ending(stable', stable)
    <3>1. Len(Tail(stable)) <= Len(stable)
      BY <1>2, <2>1
    <3>2. \A k \in 1..Len(Tail(stable)) : /\ k \in 1..Len(stable) - 1
                                          /\ Len(stable) - Len(Tail(stable)) + k = k + 1
      BY <1>2, <2>1
    <3> QED BY <1>3, <2>1, <3>1, <3>2 DEF Ending
  <2>7. Self \in Holders(stored', Len(log) - Len(stable'), c.first)
    BY <1>3, <2>3 DEF Holders
  <2>8. chosen' = Chosen(stored', Len(log) - Len(stable'))
    BY <1>3, <2>3, <2>4
  <2>9. Counted(c.first, c.first, Self)
    BY <1>2, <1>3, <1>4, <2>1, <2>4, <2>5, <2>6, <2>7, <2>8 DEF Counted
  <2> QED BY <2>3, <2>9, CommitAtKeeps
<1>5. CASE ~Leading
  <2>1. CASE c.op = "leader"
    <3>1. box.pending = 0
      BY <1>1, <1>5 DEF Shape
    <3>2. CommitAt(c.first, c.first, Self) /\ chosen' = chosen
      BY <1>3, <1>5, <2>1
    <3>3. box' = box /\ calls' = calls
      BY <3>1, <3>2 DEF CommitAt
    <3> QED BY <1>3, <1>5, <3>2, <3>3, StableDoneKeeps
  <2>2. CASE c.op = "follower"
    BY <1>3, <1>5, <2>2, StableDoneKeeps
  <2> QED BY <1>3, <2>1, <2>2
<1> QED BY <1>4, <1>5

\* The FSMCaller without the first n tasks of its queue, which are of commitment.
Taken(n) == [fsm EXCEPT !.queue = SubSeq(@, n + 1, Len(@))]

\* Tasks of commitment that are merged leave the rest of the queue alone.
LEMMA TakenFacts ==
    ASSUME fsm \in FsmState, NEW n \in 1..Len(fsm.queue),
           \A i \in 1..n : fsm.queue[i].type = "COMMITTED"
    PROVE  /\ Taken(n) \in FsmState /\ Taken(n).cur = fsm.cur
           /\ Taken(n).applied = fsm.applied /\ Taken(n).term = fsm.term
           /\ Taken(n).applied_id = fsm.applied_id /\ Taken(n).error = fsm.error
           /\ Taken(n).stopped = fsm.stopped
           /\ Elements(Taken(n).queue) \subseteq Elements(fsm.queue)
           /\ \A t \in Elements(fsm.queue) :
                 t.type = "COMMITTED" \/ t \in Elements(Taken(n).queue)
           /\ FewerNotices(fsm.queue, Taken(n).queue)
<1> DEFINE q == fsm.queue
           r == SubSeq(q, n + 1, Len(q))
<1>1. q \in Seq(FsmTask) /\ n \in 1..Len(q) /\ \A i \in 1..n : q[i].type = "COMMITTED"
  BY DEF FsmState
<1>2. Taken(n) = [fsm EXCEPT !.queue = r]
  BY DEF Taken
<1> HIDE DEF q
<1>3. Len(q) \in Nat /\ n \in Nat /\ n \in 0..Len(q)
  BY <1>1, SeqFacts
<1>4. r \in Seq(FsmTask) /\ Elements(r) = {q[i] : i \in n + 1..Len(q)}
      /\ Elements(r) \subseteq Elements(q)
  <2> DEFINE m == n + 1
             e == Len(q)
  <2>1. m \in 1..Len(q) + 1 /\ e \in m - 1..Len(q)
    BY <1>3
  <2> HIDE DEF m, e
  <2>2. /\ SubSeq(q, m, e) \in Seq(FsmTask)
        /\ Elements(SubSeq(q, m, e)) = {q[i] : i \in m..e}
        /\ Elements(SubSeq(q, m, e)) \subseteq Elements(q)
    BY <1>1, <2>1, PartElements
  <2> QED BY <2>2 DEF m, e
<1>5. \A t \in Elements(q) : t.type = "COMMITTED" \/ t \in Elements(r)
  <2> SUFFICES ASSUME NEW i \in 1..Len(q)
               PROVE  q[i].type = "COMMITTED" \/ q[i] \in Elements(r)
    BY DEF Elements
  <2>1. i \in 1..n \/ i \in n + 1..Len(q)
    BY <1>3
  <2> QED BY <1>1, <1>4, <2>1
<1>6. FewerNotices(q, r)
  <2> SUFFICES ASSUME NEW T \in {LeaderNotices, FollowerNotices}
               PROVE  Ends(r, T) \subseteq Ends(q, T) /\ (NoneOf(r, T) => NoneOf(q, T))
    BY DEF FewerNotices
  <2>1. \A i \in 1..n : q[i].type \notin T
    BY <1>1 DEF LeaderNotices, FollowerNotices
  <2> QED BY <1>1, <1>3, <2>1, EndsOfRest
<1> HIDE DEF r
<1>7. /\ Taken(n) \in FsmState /\ Taken(n).cur = fsm.cur
      /\ Taken(n).applied = fsm.applied /\ Taken(n).term = fsm.term
      /\ Taken(n).applied_id = fsm.applied_id /\ Taken(n).error = fsm.error
      /\ Taken(n).stopped = fsm.stopped /\ Taken(n).queue = r
  BY <1>2, <1>4 DEF FsmState
<1> HIDE DEF Taken
<1> QED BY <1>4, <1>5, <1>6, <1>7 DEF q

\* A batch takes the index of one of its tasks.
LEMMA BatchFacts ==
    ASSUME Typed, NEW n \in 1..Len(fsm.queue), NEW m \in Nat,
           \A i \in 1..n : fsm.queue[i].arg <= m
    PROVE  \E i \in 1..n : /\ BatchIndex(SubSeq(fsm.queue, 1, n)) = fsm.queue[i].arg
                           /\ fsm.queue[i] \in Elements(fsm.queue)
<1> DEFINE q == fsm.queue
           b == SubSeq(q, 1, n)
<1>1. q \in Seq(FsmTask) /\ n \in 1..Len(q)
  BY DEF Typed
<1> HIDE DEF q
<1>2. Len(q) \in Nat
  BY <1>1, SeqFacts
<1>3. b \in Seq(FsmTask) /\ Len(b) = n /\ \A i \in 1..n : b[i] = q[i]
  <2> DEFINE one == 1
  <2>1. one \in 1..Len(q) + 1 /\ n \in one - 1..Len(q) /\ n - one + 1 = n
        /\ \A i \in 1..n : one + i - 1 = i
    BY <1>1, <1>2
  <2> HIDE DEF one
  <2>2. /\ SubSeq(q, one, n) \in Seq(FsmTask) /\ Len(SubSeq(q, one, n)) = n - one + 1
        /\ \A i \in 1..n - one + 1 : SubSeq(q, one, n)[i] = q[one + i - 1]
    BY <1>1, <2>1, PartElements
  <2>3. SubSeq(q, one, n) = b
    BY DEF one
  <2> QED BY <2>1, <2>2, <2>3
<1>4. \A i \in 1..n : q[i] \in FsmTask /\ q[i].arg \in Nat /\ q[i] \in Elements(q)
  <2> SUFFICES ASSUME NEW i \in 1..n PROVE q[i] \in FsmTask /\ q[i] \in Elements(q)
    BY DEF FsmTask
  <2>1. i \in 1..Len(q)
    BY <1>1, <1>2
  <2> QED BY <1>1, <2>1, SeqFacts DEF Elements
<1> HIDE DEF b
<1> DEFINE S == {q[i].arg : i \in 1..n}
<1>5. BatchIndex(b) = Greatest(S)
  <2>1. DOMAIN b = 1..n
    BY <1>3, LenProperties
  <2>2. {b[i].arg : i \in DOMAIN b} = S
    BY <1>3, <2>1
  <2> QED BY <2>2 DEF BatchIndex
<1>6. Greatest(S) \in S
  <2>1. \A x \in S : x <= m
    BY DEF q
  <2>2. S \in SUBSET Nat /\ S # {}
    BY <1>1, <1>4
  <2> HIDE DEF S
  <2> QED BY <2>1, <2>2, GreatestOf
<1> QED BY <1>4, <1>5, <1>6 DEF b, q

\* A sequence of closures from the entry f on, split after the entry u.
SplitAt(q, f, u) ==
    LET a == SubSeq(q, 1, u - f + 1)
        b == SubSeq(q, u - f + 2, Len(q))
    IN  /\ a \in Seq(Closure) /\ Len(a) = u - f + 1
        /\ b \in Seq(Closure) /\ Len(b) = f + Len(q) - (u + 1)
        /\ \A k \in f..u : k - f + 1 \in 1..Len(q) /\ a[k - f + 1] = q[k - f + 1]
                           /\ f + (k - f + 1) - 1 = k
        /\ \A j \in 1..Len(b) : /\ u - f + 1 + j \in 1..Len(q)
                                /\ b[j] = q[u - f + 1 + j]
                                /\ f + (u - f + 1 + j) - 1 = u + 1 + j - 1

\* ClosureQueue::pop_closure_until splits the queue at an index.
LEMMA SplitFacts ==
    ASSUME NEW q \in Seq(Closure), NEW f \in Nat \ {0}, NEW u \in Nat,
           f <= u, u <= f + Len(q) - 1
    PROVE  SplitAt(q, f, u)
<1> DEFINE one == 1
           m == u - f + 1
           p == u - f + 2
           e == Len(q)
           a == SubSeq(q, one, m)
           b == SubSeq(q, p, e)
<1>1. Len(q) \in Nat
  BY SeqFacts
<1>2. /\ one \in 1..Len(q) + 1 /\ m \in one - 1..Len(q) /\ m - one + 1 = m
      /\ \A i \in 1..m : one + i - 1 = i
  BY <1>1
<1>3. /\ p \in 1..Len(q) + 1 /\ e \in p - 1..Len(q) /\ e - p + 1 = f + Len(q) - (u + 1)
      /\ \A j \in 1..e - p + 1 : /\ p + j - 1 = u - f + 1 + j
                                 /\ u - f + 1 + j \in 1..Len(q)
                                 /\ f + (u - f + 1 + j) - 1 = u + 1 + j - 1
  BY <1>1
<1>4. \A k \in f..u : /\ k - f + 1 \in 1..Len(q) /\ k - f + 1 \in 1..m
                      /\ f + (k - f + 1) - 1 = k
  BY <1>1
<1>m. m = u - f + 1
  OBVIOUS
<1> HIDE DEF one, m, p, e
<1>5. a \in Seq(Closure) /\ Len(a) = m /\ \A i \in 1..m : a[i] = q[i]
  <2>1. /\ a \in Seq(Closure) /\ Len(a) = m - one + 1
        /\ \A i \in 1..m - one + 1 : a[i] = q[one + i - 1]
    BY <1>2, PartElements
  <2> HIDE DEF a
  <2> QED BY <1>2, <2>1
<1>6. /\ b \in Seq(Closure) /\ Len(b) = f + Len(q) - (u + 1)
      /\ \A j \in 1..Len(b) : /\ u - f + 1 + j \in 1..Len(q)
                              /\ b[j] = q[u - f + 1 + j]
                              /\ f + (u - f + 1 + j) - 1 = u + 1 + j - 1
  <2>1. /\ b \in Seq(Closure) /\ Len(b) = e - p + 1
        /\ \A i \in 1..e - p + 1 : b[i] = q[p + i - 1]
    BY <1>3, PartElements
  <2> HIDE DEF b
  <2> QED BY <1>3, <2>1
<1>7. a = SubSeq(q, 1, u - f + 1) /\ b = SubSeq(q, u - f + 2, Len(q))
  BY DEF one, m, p, e
<1> HIDE DEF a, b
<1>8. \A k \in f..u : k - f + 1 \in 1..Len(q) /\ a[k - f + 1] = q[k - f + 1]
                      /\ f + (k - f + 1) - 1 = k
  BY <1>4, <1>5
<1>9. a \in Seq(Closure) /\ Len(a) = u - f + 1
  BY <1>5, <1>m
<1> QED BY <1>6, <1>7, <1>8, <1>9 DEF SplitAt

\* do_committed up to u: whether there is no closure to pop, the batch that is
\* started, and the closures that are left.
None(u) == closures.queue = <<>> \/ u < closures.first
NewCur(u) ==
    [type |-> "COMMITTED", upto |-> u, index |-> fsm.applied + 1,
     first |-> IF None(u) THEN u + 1 ELSE closures.first,
     done |-> IF None(u) THEN <<>>
              ELSE SubSeq(closures.queue, 1, u - closures.first + 1)]
Left(u) == IF None(u) THEN closures ELSE PopUntil(u)

\* What a batch c is made of when the closures d are left.
Popping(c, d, u) ==
    /\ c \in Committing /\ c.type = "COMMITTED" /\ c.upto = u
    /\ c.index = fsm.applied + 1 /\ c.first \in 1..u + 1
    /\ Len(c.done) = u - c.first + 1
    /\ \A k \in c.first..u : [i |-> k, c |-> c.done[k - c.first + 1]] \in Waiting
    /\ d \in ClosureState
    /\ \A j \in 1..Len(d.queue) : [i |-> d.first + j - 1, c |-> d.queue[j]] \in Waiting
    /\ Leading => /\ d.first + Len(d.queue) = Len(log) + 1
                  /\ d.first <= box.pending /\ u < d.first
    /\ ~Leading => d.queue = <<>>

\* The closures that are popped are those up to the committed index.
LEMMA PoppingFacts ==
    ASSUME IInv, NEW u \in Nat, u <= box.committed
    PROVE  /\ Popping(NewCur(u), Left(u), u)
           /\ None(u) \/ u <= closures.first + Len(closures.queue) - 1
<1>1. Kinds /\ Shape /\ Typed /\ KnownInv /\ TaskInv /\ FsmInv
  BY TypeParts, Types DEF IInv
<1>2. /\ closures.first \in Nat /\ closures.queue \in Seq(Closure)
      /\ Len(closures.queue) \in Nat /\ Len(log) \in Nat /\ box.committed \in Nat
      /\ box.pending \in Nat /\ fsm.applied \in Nat
  BY <1>1 DEF Typed
<1>3. /\ box.committed <= Len(log)
      /\ Leading => /\ closures.first + Len(closures.queue) = Len(log) + 1
                    /\ closures.first <= box.pending /\ box.committed < box.pending
      /\ ~Leading => closures.queue = <<>>
  BY <1>1 DEF KnownInv, Known, Agree, Shape
<1>4. closures.queue = <<>> <=> Len(closures.queue) = 0
  BY <1>2, EmptySeq
<1>5. \A j \in 1..Len(closures.queue) :
         [i |-> closures.first + j - 1, c |-> closures.queue[j]] \in Waiting
  BY DEF Waiting
<1>6. CASE None(u)
  <2>1. Left(u) = closures /\ closures \in ClosureState
    BY <1>1, <1>6 DEF Left, Kinds
  <2> DEFINE c == NewCur(u)
  <2>2. /\ c.type = "COMMITTED" /\ c.upto = u /\ c.index = fsm.applied + 1
        /\ c.first = u + 1 /\ c.done = <<>> /\ c \in Committing
    <3>1. <<>> \in Seq(Closure) /\ u + 1 \in Nat /\ fsm.applied + 1 \in Nat
      BY <1>2, EmptySeq
    <3> QED BY <1>6, <3>1 DEF NewCur, Committing
  <2> HIDE DEF c
  <2>3. /\ c.first \in 1..u + 1 /\ Len(c.done) = u - c.first + 1 /\ c.first..u = {}
    <3>1. Len(c.done) = 0
      BY <2>2, EmptySeq
    <3> QED BY <2>2, <3>1
  <2>4. Leading => u < closures.first
    BY <1>2, <1>3, <1>4, <1>6 DEF None
  <2> HIDE DEF Left
  <2>5. Popping(c, Left(u), u)
    BY <1>3, <1>5, <2>1, <2>2, <2>3, <2>4 DEF Popping
  <2> QED BY <1>6, <2>5 DEF c
<1>7. CASE ~None(u)
  <2>1. Leading /\ closures.queue # <<>> /\ closures.first <= u
    BY <1>2, <1>3, <1>7 DEF None
  <2>2. closures.first \in Nat \ {0}
    <3>1. 1 \in 1..Len(closures.queue)
      BY <1>2, <1>4, <2>1
    <3>2. Fits(closures.queue[1], closures.first + 1 - 1, log, tasks)
      BY <1>1, <3>1, KeptFacts
    <3>3. closures.first + 1 - 1 \in 1..Len(log)
      BY <3>2 DEF Fits
    <3> QED BY <1>2, <3>3
  <2>3. u <= closures.first + Len(closures.queue) - 1
    BY <1>2, <1>3, <2>1
  <2> DEFINE q == closures.queue
             f == closures.first
  <2>4. q \in Seq(Closure) /\ f \in Nat \ {0} /\ f <= u /\ u <= f + Len(q) - 1
    BY <1>2, <2>1, <2>2, <2>3
  <2>w. \A j \in 1..Len(q) : [i |-> f + j - 1, c |-> q[j]] \in Waiting
    BY <1>5
  <2>l. Len(log) + 1 = f + Len(q) /\ u < box.pending
    BY <1>2, <1>3, <2>1
  <2> HIDE DEF q, f
  <2>5. SplitAt(q, f, u)
    BY <2>4, SplitFacts
  <2> DEFINE a == SubSeq(q, 1, u - f + 1)
             b == SubSeq(q, u - f + 2, Len(q))
  <2>6. NewCur(u) = [type |-> "COMMITTED", upto |-> u, index |-> fsm.applied + 1,
                     first |-> f, done |-> a]
    BY <1>7 DEF NewCur, q, f
  <2>7. Left(u) = [first |-> u + 1, queue |-> b]
    BY <1>7 DEF Left, PopUntil, q, f
  <2>8. /\ a \in Seq(Closure) /\ Len(a) = u - f + 1
        /\ b \in Seq(Closure) /\ Len(b) = f + Len(q) - (u + 1)
        /\ \A k \in f..u : k - f + 1 \in 1..Len(q) /\ a[k - f + 1] = q[k - f + 1]
                           /\ f + (k - f + 1) - 1 = k
        /\ \A j \in 1..Len(b) : /\ u - f + 1 + j \in 1..Len(q)
                                /\ b[j] = q[u - f + 1 + j]
                                /\ f + (u - f + 1 + j) - 1 = u + 1 + j - 1
    BY <2>5, Zenon DEF SplitAt
  <2> HIDE DEF a, b
  <2>9. ASSUME NEW k \in f..u PROVE [i |-> k, c |-> a[k - f + 1]] \in Waiting
    BY <2>8, <2>w
  <2>10. ASSUME NEW j \in 1..Len(b) PROVE [i |-> u + 1 + j - 1, c |-> b[j]] \in Waiting
    BY <2>8, <2>w
  <2> DEFINE c == NewCur(u)
             d == Left(u)
  <2>11. /\ c \in Committing /\ c.type = "COMMITTED" /\ c.upto = u
         /\ c.index = fsm.applied + 1 /\ c.first = f /\ c.done = a
    <3>1. fsm.applied + 1 \in Nat /\ f \in Nat
      BY <1>2, <2>4
    <3> QED BY <2>6, <2>8, <3>1 DEF Committing
  <2>12. d \in ClosureState /\ d.first = u + 1 /\ d.queue = b
    <3>1. u + 1 \in Nat
      OBVIOUS
    <3> QED BY <2>7, <2>8, <3>1 DEF ClosureState
  <2> HIDE DEF c, d
  <2>13. /\ u + 1 + Len(b) = Len(log) + 1 /\ u + 1 <= box.pending /\ u < u + 1
         /\ f \in 1..u + 1
    <3>1. Len(q) \in Nat
      BY <2>4, SeqFacts
    <3>2. Len(b) = f + Len(q) - (u + 1)
      BY <2>8
    <3>3. u + 1 + Len(b) = Len(log) + 1
      <4>1. f \in Nat
        BY <2>4
      <4>2. u + 1 + (f + Len(q) - (u + 1)) = f + Len(q)
        BY <3>1, <4>1
      <4>3. u + 1 + Len(b) = f + Len(q)
        BY <3>2, <4>2
      <4> QED BY <2>l, <4>3
    <3>4. u + 1 <= box.pending /\ u < u + 1
      BY <1>2, <2>l
    <3>5. f \in 1..u + 1
      BY <2>4
    <3> QED BY <3>3, <3>4, <3>5
  <2>14. Popping(c, d, u)
    BY <2>1, <2>8, <2>9, <2>10, <2>11, <2>12, <2>13 DEF Popping
  <2> QED BY <2>3, <2>14 DEF c, d
<1> QED BY <1>6, <1>7

\* A batch up to u is started with the first n tasks of the queue.
Starts(n, u) ==
    /\ \A i \in 1..n : fsm.queue[i].type = "COMMITTED"
    /\ fsm.cur = Idle /\ ~fsm.error /\ fsm.applied < u
    /\ fsm' = [Taken(n) EXCEPT !.cur = NewCur(u)] /\ closures' = Left(u)
    /\ UNCHANGED <<node, log, box, stable, calls, user, tasks, stored, chosen, failed>>

\* FSMCaller::do_committed pops the closures and begins with the first entry.
LEMMA StartsKeeps ==
    ASSUME IInv, NEW n \in 1..Len(fsm.queue), NEW u \in Nat, u <= box.committed,
           Starts(n, u)
    PROVE  IInv'
<1>1. Kinds /\ Shape /\ Bounds /\ Typed /\ failed = {}
  BY TypeParts, Types DEF IInv
<1>2. LogInv /\ KnownInv /\ BallotInv /\ FsmInv /\ TaskInv /\ NoticeInv
  BY DEF IInv
<1>0. /\ node' = node /\ log' = log /\ box' = box /\ stable' = stable /\ calls' = calls
      /\ user' = user /\ tasks' = tasks /\ stored' = stored /\ chosen' = chosen
      /\ failed' = failed
  BY DEF Starts
<1>3. /\ Taken(n) \in FsmState /\ Taken(n).cur = fsm.cur
      /\ Taken(n).applied = fsm.applied /\ Taken(n).term = fsm.term
      /\ Taken(n).applied_id = fsm.applied_id /\ Taken(n).error = fsm.error
      /\ Taken(n).stopped = fsm.stopped
      /\ Elements(Taken(n).queue) \subseteq Elements(fsm.queue)
      /\ \A t \in Elements(fsm.queue) :
            t.type = "COMMITTED" \/ t \in Elements(Taken(n).queue)
      /\ FewerNotices(fsm.queue, Taken(n).queue)
  BY <1>1, TakenFacts DEF Kinds, Starts
<1> DEFINE c == NewCur(u)
<1>4. Popping(c, closures', u)
  <2>1. closures' = Left(u)
    BY DEF Starts
  <2> QED BY <2>1, PoppingFacts
<1>5. fsm' = [Taken(n) EXCEPT !.cur = c] /\ fsm.cur = Idle /\ ~fsm.error /\ fsm.applied < u
  BY DEF Starts
<1> HIDE DEF c
<1>6. /\ c \in Committing /\ c.type = "COMMITTED" /\ c.upto = u
      /\ c.index = fsm.applied + 1 /\ c.first \in 1..u + 1
      /\ Len(c.done) = u - c.first + 1
  BY <1>4 DEF Popping
<1>7. /\ fsm' \in FsmState /\ Cur' = c /\ fsm'.cur = c
      /\ fsm'.applied = fsm.applied /\ fsm'.term = fsm.term
      /\ fsm'.applied_id = fsm.applied_id /\ fsm'.error = fsm.error
      /\ fsm'.stopped = fsm.stopped /\ fsm'.queue = Taken(n).queue
  <2> DEFINE f == Taken(n)
  <2>1. f \in FsmState /\ fsm' = [f EXCEPT !.cur = c]
    BY <1>3, <1>5
  <2> HIDE DEF f
  <2>2. /\ fsm' \in FsmState /\ fsm'.cur = c
        /\ fsm'.applied = f.applied /\ fsm'.term = f.term
        /\ fsm'.applied_id = f.applied_id /\ fsm'.error = f.error
        /\ fsm'.stopped = f.stopped /\ fsm'.queue = f.queue
    BY <1>6, <2>1 DEF FsmState
  <2> QED BY <1>3, <2>2 DEF f, Cur
<1>8. (Leading' <=> Leading) /\ (Active' <=> Active)
  BY <1>0 DEF Leading, Active
<1>9. /\ closures' \in ClosureState
      /\ Leading => /\ closures'.first + Len(closures'.queue) = Len(log) + 1
                    /\ closures'.first <= box.pending /\ u < closures'.first
      /\ ~Leading => closures'.queue = <<>>
  BY <1>4 DEF Popping
<1>10. TypeInv'
  <2>1. Kinds'
    BY <1>0, <1>1, <1>7, <1>9 DEF Kinds
  <2>2. Shape'
    BY <1>0, <1>1, <1>8, <1>9 DEF Shape
  <2>3. Bounds'
    BY <1>0, <1>1, <1>7 DEF Bounds
  <2> QED BY <1>0, <1>1, <2>1, <2>2, <2>3, TypePartsNext
<1>11. Typed'
  BY <1>10, TypesNext
<1>q. \A t \in Elements(fsm'.queue) : t \in Elements(fsm.queue)
  BY <1>3, <1>7
<1>12. LogInv'
  <2>1. \A t \in Elements(fsm.queue) :
           t.type = "SNAPSHOT_LOAD" => t \in Elements(fsm'.queue)
    BY <1>3, <1>7
  <2>2. node'.term >= node.term
    BY <1>0, <1>1, TermFacts
  <2> QED BY <1>0, <1>1, <1>2, <1>8, <1>11, <1>q, <2>1, <2>2, LogStays DEF Active
<1>13. KnownInv'
  <2>1. \A a \in Nat : Known(a) => Known(a)'
    BY <1>0 DEF Known
  <2>2. box'.committed >= box.committed /\ Cur'.upto <= box'.committed
    <3>1. box.committed >= box.committed
      BY <1>0, <1>1, SameCommitted
    <3>2. Cur'.upto = u
      BY <1>6, <1>7
    <3> QED BY <1>0, <3>1, <3>2
  <2>3. Leading' => /\ box'.committed < box'.pending
                    /\ \A d \in calls' : d.op = "set_committed" => d.arg < box'.pending
    BY <1>0, <1>2, <1>8 DEF KnownInv
  <2> QED BY <1>0, <1>1, <1>2, <1>11, <1>q, <2>1, <2>2, <2>3, KnownStays
<1>14. BallotInv'
  BY <1>0, <1>2, <1>8, BallotStays
<1>15. FsmInv'
  <2>1. /\ fsm.stopped \/ fsm.error => ~Active
        /\ fsm.applied_id <= Len(user.applied) /\ ~user.torn
        /\ Agree(user.applied, chosen, Len(user.applied))
        /\ fsm.applied_id <= fsm.applied
        /\ Len(user.applied) = fsm.applied
    BY <1>2, <1>5 DEF FsmInv, Cur
  <2>2. fsm.applied \in Nat
    BY <1>1 DEF Typed
  <2>3. /\ Len(user.applied) = c.index - 1 /\ c.index \in 1..c.upto + 1
        /\ fsm.applied < c.upto /\ fsm.applied < c.index
    <3>1. c.upto = u /\ c.index = fsm.applied + 1 /\ fsm.applied < u
      BY <1>5, <1>6
    <3>2. /\ fsm.applied = (fsm.applied + 1) - 1 /\ fsm.applied + 1 \in 1..u + 1
          /\ fsm.applied < u /\ fsm.applied < fsm.applied + 1
      BY <2>2, <3>1
    <3> QED BY <2>1, <3>1, <3>2
  <2>4. c # Idle
    BY <1>6 DEF Idle
  <2> QED BY <1>0, <1>5, <1>7, <1>8, <2>1, <2>3, <2>4 DEF FsmInv
<1>16. Popped' \subseteq Waiting
  <2>1. Popped' = {[i |-> j, c |-> c.done[j - c.first + 1]] :
                     j \in {k \in c.first..c.upto : c.index <= k}}
    BY <1>6, <1>7 DEF Popped
  <2>2. \A k \in c.first..c.upto : [i |-> k, c |-> c.done[k - c.first + 1]] \in Waiting
    BY <1>4, <1>6 DEF Popping
  <2> QED BY <2>1, <2>2
<1>17. Waiting' \subseteq Waiting
  <2>1. Waiting' = {[i |-> closures'.first + j - 1, c |-> closures'.queue[j]] :
                      j \in 1..Len(closures'.queue)}
    BY DEF Waiting
  <2>2. \A j \in 1..Len(closures'.queue) :
           [i |-> closures'.first + j - 1, c |-> closures'.queue[j]] \in Waiting
    BY <1>4 DEF Popping
  <2> QED BY <2>1, <2>2
<1>18. TaskInv'
  <2>1. AckedOnceApplied'
    BY <1>0, <1>2 DEF TaskInv, AckedOnceApplied
  <2>2. \A h \in (Waiting \union Popped)' : Fits(h.c, h.i, log', tasks')
    BY <1>0, <1>2, <1>16, <1>17 DEF TaskInv
  <2>3. \A h \in Waiting' : h.c.kind = "conf" =>
           node'.state = "LEADER" /\ node'.busy /\ h.c.n = node'.term
    BY <1>0, <1>2, <1>17 DEF TaskInv
  <2>4. /\ Cur'.first \in 1..Cur'.upto + 1 /\ Len(Cur'.done) = Cur'.upto - Cur'.first + 1
        /\ Leading' => Cur'.upto < closures'.first
    BY <1>6, <1>7, <1>8, <1>9
  <2>5. Leading' => \A i, j \in 1..Len(log') :
           log'[i] = [term |-> node'.term, type |-> "conf"] /\ log'[j] = log'[i] => i = j
    BY <1>0, <1>2, <1>8 DEF TaskInv
  <2> QED BY <2>1, <2>2, <2>3, <2>4, <2>5 DEF TaskInv
<1>19. NoticeInv'
  <2>1. (\A t : Leads(t) => Leads(t)') /\ (\A t : Follows(t) => Follows(t)')
    BY <1>0 DEF Leads, Follows
  <2>2. \A h \in Popped' : h.c.kind = "conf" => Leads(h.c.n)'
    BY <1>0, <1>2, <1>16 DEF TaskInv, Leads
  <2> QED BY <1>0, <1>2, <1>3, <1>7, <2>1, <2>2, NoticeStays
<1> QED BY <1>10, <1>12, <1>13, <1>14, <1>15, <1>18, <1>19 DEF IInv

\* The batch is merged, and started if there is something to apply.
LEMMA DoCommittedKeeps ==
    ASSUME IInv, NEW n \in 1..Len(fsm.queue), DoCommitted(n), failed = {}
    PROVE  IInv'
<1> DEFINE u == BatchIndex(SubSeq(fsm.queue, 1, n))
<1>1. Kinds /\ Shape /\ Typed /\ KnownInv
  BY TypeParts, Types DEF IInv
<1>2. /\ fsm.cur = Idle /\ fsm.queue # <<>>
      /\ \A i \in 1..n : fsm.queue[i].type = "COMMITTED"
      /\ UNCHANGED <<node, log, box, stable, calls, user, tasks, stored, chosen>>
  BY DEF DoCommitted, FsmIdle
<1>3. u \in Nat /\ u <= box.committed
  <2>1. box.committed \in Nat /\ Len(fsm.queue) \in Nat
    BY <1>1 DEF Typed
  <2>2. \A i \in 1..n : fsm.queue[i] \in Elements(fsm.queue)
    <3>1. \A i \in 1..n : i \in 1..Len(fsm.queue)
      BY <2>1
    <3> QED BY <3>1 DEF Elements
  <2>3. \A i \in 1..n : fsm.queue[i].arg <= box.committed
    BY <1>1, <1>2, <2>2 DEF KnownInv
  <2>4. PICK i \in 1..n : /\ u = fsm.queue[i].arg /\ fsm.queue[i] \in Elements(fsm.queue)
    BY <1>1, <2>1, <2>3, BatchFacts
  <2>5. fsm.queue[i].arg \in Nat
    BY <1>1, <2>4 DEF Typed, FsmTask
  <2> QED BY <2>3, <2>4, <2>5
<1>4. None(u) \/ u <= closures.first + Len(closures.queue) - 1
  <2> HIDE DEF u
  <2> QED BY <1>3, PoppingFacts
<1>5. CASE fsm.error \/ fsm.applied >= u
  <2>1. fsm' = Taken(n) /\ UNCHANGED <<closures, failed>>
    BY <1>5 DEF DoCommitted, Taken
  <2>2. /\ Taken(n) \in FsmState /\ Taken(n).cur = fsm.cur
        /\ Taken(n).applied = fsm.applied /\ Taken(n).term = fsm.term
        /\ Taken(n).applied_id = fsm.applied_id /\ Taken(n).error = fsm.error
        /\ Taken(n).stopped = fsm.stopped
        /\ Elements(Taken(n).queue) \subseteq Elements(fsm.queue)
        /\ \A t \in Elements(fsm.queue) :
              t.type = "COMMITTED" \/ t \in Elements(Taken(n).queue)
        /\ FewerNotices(fsm.queue, Taken(n).queue)
    BY <1>1, <1>2, TakenFacts DEF Kinds
  <2> HIDE DEF Taken, u
  <2>3. NoticeInv'
    <3>1. NoticeInv /\ Popped' = Popped
      BY <2>1, <2>2 DEF IInv, Popped, Cur
    <3>2. (\A t : Leads(t) => Leads(t)') /\ (\A t : Follows(t) => Follows(t)')
      BY <1>2 DEF Leads, Follows
    <3> QED BY <1>2, <2>1, <2>2, <3>1, <3>2, NoticeStays
  <2>4. (Leading' <=> Leading) /\ (Active' <=> Active)
    BY <1>2 DEF Leading, Active
  <2>5. \A t \in Elements(fsm.queue) :
           t.type = "SNAPSHOT_LOAD" => t \in Elements(fsm'.queue)
    BY <2>1, <2>2
  <2>6. \A h \in Waiting : h.c.kind = "conf" => node'.state = "LEADER" /\ node'.busy
    BY <1>2 DEF IInv, TaskInv
  <2>7. \A t \in Elements(fsm'.queue) : t \in Elements(fsm.queue)
    BY <2>1, <2>2
  <2>8. user' \in UserState /\ node' \in NodeState
    BY <1>1, <1>2 DEF Kinds
  <2> QED BY <1>2, <2>1, <2>2, <2>3, <2>4, <2>5, <2>6, <2>7, <2>8, CalmKeeps
<1>6. CASE ~(fsm.error \/ fsm.applied >= u)
  <2>1. failed' = failed
    <3>1. failed' = Check("pop", None(u) \/ u <= closures.first + Len(closures.queue) - 1)
      BY <1>6 DEF DoCommitted, None
    <3> QED BY <1>4, <3>1 DEF Check
  <2>2. fsm' = [Taken(n) EXCEPT !.cur = NewCur(u)] /\ closures' = Left(u)
    BY <1>4, <1>6 DEF DoCommitted, None, NewCur, Left, Taken
  <2>3. ~fsm.error /\ fsm.applied < u
    <3> HIDE DEF u
    <3> QED BY <1>1, <1>3, <1>6 DEF Typed
  <2> HIDE DEF u
  <2>4. Starts(n, u)
    BY <1>2, <2>1, <2>2, <2>3 DEF Starts
  <2> QED BY <1>3, <2>4, StartsKeeps
<1> QED BY <1>5, <1>6

-----------------------------------------------------------------------------
(* Entries are applied.                                                    *)

\* More entries of the log g after those of l.
Grown(l, g, i) == l \o SubSeq(g, Len(l) + 1, i)

\* A log that is continued with entries of another one.
LEMMA GrownFacts ==
    ASSUME NEW l \in Logs, NEW g \in Logs, NEW i \in Len(l)..Len(g)
    PROVE  /\ Grown(l, g, i) \in Logs /\ Len(Grown(l, g, i)) = i
           /\ \A j \in 1..Len(l) : Grown(l, g, i)[j] = l[j]
           /\ \A j \in Len(l) + 1..i : Grown(l, g, i)[j] = g[j]
<1> DEFINE p == Len(l) + 1
           o == SubSeq(g, p, i)
           r == l \o o
<1>1. l \in Seq(Entry) /\ g \in Seq(Entry) /\ Len(l) \in Nat /\ Len(g) \in Nat
      /\ Len(g) <= MaxLog
  BY LogType, PipelineAssumption
<1>2. /\ i \in Nat /\ p \in 1..Len(g) + 1 /\ i \in p - 1..Len(g)
      /\ i - p + 1 = i - Len(l) /\ Len(l) + (i - Len(l)) = i /\ i <= MaxLog
  BY <1>1, PipelineAssumption
<1>3. \A j \in p..i : j - Len(l) \in 1..i - Len(l) /\ Len(l) + (j - Len(l)) = j
                      /\ p + (j - Len(l)) - 1 = j
  BY <1>1, <1>2
<1> HIDE DEF p
<1>4. o \in Seq(Entry) /\ Len(o) = i - Len(l)
      /\ \A j \in 1..i - Len(l) : o[j] = g[p + j - 1]
  <2>1. /\ o \in Seq(Entry) /\ Len(o) = i - p + 1
        /\ \A j \in 1..i - p + 1 : o[j] = g[p + j - 1]
    BY <1>1, <1>2, PartElements
  <2> HIDE DEF o
  <2> QED BY <1>2, <2>1
<1>o. Grown(l, g, i) = r
  BY DEF Grown, p
<1> HIDE DEF o
<1>5. /\ r \in Seq(Entry) /\ Len(r) = Len(l) + Len(o)
      /\ \A j \in 1..Len(l) : r[j] = l[j]
      /\ \A j \in 1..Len(o) : r[Len(l) + j] = o[j]
  BY <1>1, <1>4, ConcatElements
<1> HIDE DEF r
<1>6. Len(r) = i /\ r \in Logs
  <2>1. Len(r) = i
    BY <1>2, <1>4, <1>5
  <2> QED BY <1>2, <1>5, <2>1, LogType
<1>7. \A j \in Len(l) + 1..i : r[j] = g[j]
  <2> SUFFICES ASSUME NEW j \in p..i PROVE r[j] = g[j]
    BY DEF p
  <2>1. r[Len(l) + (j - Len(l))] = o[j - Len(l)] /\ o[j - Len(l)] = g[p + (j - Len(l)) - 1]
    BY <1>3, <1>4, <1>5
  <2> QED BY <1>3, <2>1
<1> QED BY <1>o, <1>5, <1>6, <1>7

\* The batch under way, after the entry i.
Moved(i) == [fsm EXCEPT !.cur.index = i + 1]

\* The FSMCaller moves on in the run of entries it gives to the state machine.
LEMMA MovedFacts ==
    ASSUME fsm \in FsmState, Cur \in Committing, NEW i \in Nat
    PROVE  LET f == Moved(i)
           IN  /\ f \in FsmState /\ f.queue = fsm.queue /\ f.applied = fsm.applied
               /\ f.term = fsm.term /\ f.applied_id = fsm.applied_id
               /\ f.error = fsm.error /\ f.stopped = fsm.stopped
               /\ f.cur \in Committing /\ f.cur.type = Cur.type /\ f.cur.upto = Cur.upto
               /\ f.cur.first = Cur.first /\ f.cur.done = Cur.done /\ f.cur.index = i + 1
<1> DEFINE c == [Cur EXCEPT !.index = i + 1]
<1>1. i + 1 \in Nat
  OBVIOUS
<1>2. /\ c \in Committing /\ c.type = Cur.type /\ c.upto = Cur.upto
      /\ c.first = Cur.first /\ c.done = Cur.done /\ c.index = i + 1
  BY <1>1 DEF Committing
<1>3. Moved(i) = [fsm EXCEPT !.cur = c]
  BY DEF Moved, Cur
<1> HIDE DEF c
<1>4. LET f == Moved(i)
      IN  /\ f \in FsmState /\ f.queue = fsm.queue /\ f.applied = fsm.applied
          /\ f.term = fsm.term /\ f.applied_id = fsm.applied_id
          /\ f.error = fsm.error /\ f.stopped = fsm.stopped /\ f.cur = c
  BY <1>2, <1>3 DEF FsmState
<1> HIDE DEF Moved
<1> QED BY <1>2, <1>4

\* What has been applied when the batch has come to the entry i.
GivenUpTo(i) ==
    LET m == Grown(user.applied, log, i)
    IN  /\ m \in Logs /\ Len(m) = i /\ i \in Nat
        /\ Agree(m, chosen, i) /\ Agree(m, log, i) /\ Agree(user.applied, m, Len(user.applied))
        /\ \A j \in Cur.index..i : m[j] = log[j]
        /\ Acked(tasks, m)

\* The entries given so far are chosen, and the state machine has them in order.
LEMMA GivenFacts ==
    ASSUME IInv, Cur.type = "COMMITTED", NEW i \in Cur.index - 1..Cur.upto, i <= Len(log)
    PROVE  GivenUpTo(i)
<1> DEFINE m == Grown(user.applied, log, i)
           l == user.applied
<1>1. Typed /\ TaskInv /\ FsmInv /\ KnownInv
  BY Types DEF IInv
<1>2. /\ Cur.upto \in Nat /\ Cur.index \in Nat \ {0}
      /\ Len(l) = Cur.index - 1 /\ Cur.upto <= box.committed
      /\ Agree(l, chosen, Len(l)) /\ Known(box.committed) /\ Acked(tasks, l)
  BY <1>1, CurFacts, AckedIs DEF FsmInv, KnownInv, TaskInv
<1>3. l \in Logs /\ log \in Logs /\ chosen \in Logs /\ Len(log) \in Nat /\ Len(l) \in Nat
      /\ box.committed \in Nat /\ tasks \in Seq(TaskRecord) /\ Len(chosen) \in Nat
  BY <1>1 DEF Typed
<1>4. i \in Len(l)..Len(log) /\ i \in Nat /\ i <= box.committed /\ Cur.index = Len(l) + 1
  BY <1>2, <1>3
<1> HIDE DEF l
<1>5. /\ m \in Logs /\ Len(m) = i
      /\ \A j \in 1..Len(l) : m[j] = l[j]
      /\ \A j \in Len(l) + 1..i : m[j] = log[j]
  BY <1>3, <1>4, GrownFacts DEF l
<1> HIDE DEF m
<1>6. \A j \in 1..box.committed : chosen[j] = log[j]
  BY <1>2 DEF Known, Agree
<1>7. \A j \in 1..Len(l) : l[j] = chosen[j]
  BY <1>2 DEF Agree
<1>8. i <= Len(chosen) /\ i <= Len(log)
  <2>1. box.committed <= Len(chosen)
    BY <1>2 DEF Known, Agree
  <2> QED BY <1>3, <1>4, <2>1
<1>9. ASSUME NEW j \in 1..i PROVE m[j] = chosen[j] /\ m[j] = log[j]
  <2>1. j \in 1..box.committed /\ (j \in 1..Len(l) \/ j \in Len(l) + 1..i)
    BY <1>3, <1>4
  <2> QED BY <1>5, <1>6, <1>7, <2>1
<1>10. Agree(m, chosen, i) /\ Agree(m, log, i)
  BY <1>4, <1>5, <1>8, <1>9 DEF Agree
<1>11. Agree(l, m, Len(l))
  BY <1>3, <1>4, <1>5 DEF Agree
<1>12. Acked(tasks, m)
  BY <1>2, <1>3, <1>5, <1>11, AckedGrows
<1>13. \A j \in Cur.index..i : m[j] = log[j]
  BY <1>4, <1>5
<1> QED BY <1>4, <1>5, <1>10, <1>11, <1>12, <1>13 DEF GivenUpTo, m, l

\* The closures cs have been popped for entries of the batch from a to b.
PoppedFor(cs, a, b) ==
    /\ cs \in Seq(Closure)
    /\ \A m \in 1..Len(cs) : \E k \in a..b : [i |-> k, c |-> cs[m]] \in Popped

\* The closures of entries that the state machine has been given are run.
LEMMA AppliedRun ==
    ASSUME IInv, Cur.type = "COMMITTED", NEW i \in Cur.index - 1..Cur.upto, i <= Len(log),
           NEW cs, PoppedFor(cs, Cur.index, i)
    PROVE  LET ts == Ran(tasks, cs, TRUE)
               m  == Grown(user.applied, log, i)
           IN  /\ ts \in Seq(TaskRecord) /\ Acked(ts, m)
               /\ \A c \in Closure, k \in Int :
                     Fits(c, k, log, tasks) /\ (k \in Cur.index..i => c.kind = "conf") =>
                        Fits(c, k, log, ts)
<1> DEFINE m == Grown(user.applied, log, i)
           a == Cur.index
<1>1. Typed /\ TaskInv /\ FsmInv
  BY Types DEF IInv
<1>2. GivenUpTo(i)
  BY GivenFacts
<1>3. /\ m \in Logs /\ Len(m) = i /\ i \in Nat /\ Acked(tasks, m)
      /\ \A j \in a..i : m[j] = log[j]
  BY <1>2 DEF GivenUpTo
<1>4. a \in Int /\ i \in Int /\ log \in Logs /\ tasks \in Seq(TaskRecord)
  <2>1. a \in Nat \ {0}
    BY <1>1, CurFacts
  <2>2. log \in Logs /\ tasks \in Seq(TaskRecord)
    BY <1>1 DEF Typed
  <2> HIDE DEF a, m
  <2> QED BY <1>3, <2>1, <2>2
<1>5. cs \in Seq(Closure) /\ TRUE \in BOOLEAN
  BY DEF PoppedFor
<1>6. ASSUME NEW j \in 1..Len(cs) PROVE \E k \in a..i : Fits(cs[j], k, log, tasks)
  <2>1. PICK k \in a..i : [i |-> k, c |-> cs[j]] \in Popped
    BY DEF PoppedFor
  <2> DEFINE h == [i |-> k, c |-> cs[j]]
  <2>2. h \in Popped /\ h.i = k /\ h.c = cs[j]
    BY <2>1
  <2> HIDE DEF h
  <2>3. Fits(h.c, h.i, log, tasks)
    BY <1>1, <2>2 DEF TaskInv
  <2> QED BY <2>2, <2>3
<1> HIDE DEF m, a
<1>7. TRUE => i <= Len(m) /\ \A k \in a..i : k \in 1..Len(log) => m[k] = log[k]
  BY <1>3, <1>4
<1> DEFINE ts == Ran(tasks, cs, TRUE)
<1>8. /\ ts \in Seq(TaskRecord) /\ Acked(ts, m)
      /\ \A c \in Closure, k \in Int :
            Fits(c, k, log, tasks) /\ (k \in a..i => c.kind = "conf") => Fits(c, k, log, ts)
  BY <1>3, <1>4, <1>5, <1>6, <1>7, RanKeeps
<1> QED BY <1>8 DEF m, a

\* The state machine has taken the entries of the batch up to i.
Applies(i, cs) ==
    /\ Applying /\ i \in Cur.index..Cur.upto /\ i <= Len(log)
    /\ PoppedFor(cs, Cur.index, i)
    /\ fsm' = Moved(i) /\ tasks' = Ran(tasks, cs, TRUE)
    /\ user' \in [applied: {Grown(user.applied, log, i)}, leading: Nat, following: Nat,
                  torn: {user.torn}]
    /\ node' \in NodeState /\ node'.state = node.state /\ node'.term = node.term
    /\ \A h \in Waiting : h.c.kind = "conf" => node'.busy
    /\ UNCHANGED <<log, box, closures, stable, calls, stored, chosen, failed>>

\* Entries are given to the state machine and their closures run.
LEMMA AppliesKeeps ==
    ASSUME IInv, NEW i, NEW cs, Applies(i, cs), NoticeInv'
    PROVE  IInv'
<1>1. Kinds /\ Shape /\ Bounds /\ Typed /\ failed = {}
  BY TypeParts, Types DEF IInv
<1>2. LogInv /\ KnownInv /\ BallotInv /\ FsmInv /\ TaskInv
  BY DEF IInv
<1>0. /\ log' = log /\ box' = box /\ closures' = closures /\ stable' = stable
      /\ calls' = calls /\ stored' = stored /\ chosen' = chosen /\ failed' = failed
      /\ node' \in NodeState /\ node'.state = node.state /\ node'.term = node.term
      /\ fsm' = Moved(i) /\ tasks' = Ran(tasks, cs, TRUE)
      /\ Cur.type = "COMMITTED" /\ Cur.index <= Cur.upto /\ i \in Cur.index..Cur.upto
      /\ i <= Len(log) /\ PoppedFor(cs, Cur.index, i)
  BY DEF Applies, Applying
<1>3. /\ Cur \in Committing /\ Cur.upto \in Nat /\ Cur.first \in Nat \ {0}
      /\ Cur.index \in Nat \ {0} /\ Cur.index <= Cur.upto + 1 /\ Cur.first <= Cur.upto + 1
      /\ Len(Cur.done) = Cur.upto - Cur.first + 1
  BY <1>0, <1>1, <1>2, CurFacts
<1>4. /\ i \in Nat /\ i \in Cur.index - 1..Cur.upto /\ i >= Cur.index /\ i <= Cur.upto
  BY <1>0, <1>3
<1> DEFINE m == Grown(user.applied, log, i)
<1>5. GivenUpTo(i)
  BY <1>0, <1>4, GivenFacts
<1>6. /\ m \in Logs /\ Len(m) = i /\ Agree(m, chosen, i)
  BY <1>5 DEF GivenUpTo
<1> DEFINE ts == Ran(tasks, cs, TRUE)
<1>7. /\ ts \in Seq(TaskRecord) /\ Acked(ts, m)
      /\ \A c \in Closure, k \in Int :
            Fits(c, k, log, tasks) /\ (k \in Cur.index..i => c.kind = "conf") =>
               Fits(c, k, log, ts)
  BY <1>0, <1>4, AppliedRun
<1>8. user' \in UserState /\ user'.applied = m /\ user'.torn = user.torn
  <2>1. user.torn \in BOOLEAN
    BY <1>1 DEF Typed
  <2>2. user' \in [applied: {m}, leading: Nat, following: Nat, torn: {user.torn}]
    BY DEF Applies
  <2> HIDE DEF m
  <2> QED BY <1>6, <2>1, <2>2 DEF UserState
<1> HIDE DEF m, ts
<1>9. /\ fsm' \in FsmState /\ fsm'.queue = fsm.queue /\ fsm'.applied = fsm.applied
      /\ fsm'.term = fsm.term /\ fsm'.applied_id = fsm.applied_id
      /\ fsm'.error = fsm.error /\ fsm'.stopped = fsm.stopped
      /\ Cur' \in Committing /\ Cur'.type = Cur.type /\ Cur'.upto = Cur.upto
      /\ Cur'.first = Cur.first /\ Cur'.done = Cur.done /\ Cur'.index = i + 1
  <2> DEFINE f == Moved(i)
  <2>1. /\ f \in FsmState /\ f.queue = fsm.queue /\ f.applied = fsm.applied
        /\ f.term = fsm.term /\ f.applied_id = fsm.applied_id
        /\ f.error = fsm.error /\ f.stopped = fsm.stopped
        /\ f.cur \in Committing /\ f.cur.type = Cur.type /\ f.cur.upto = Cur.upto
        /\ f.cur.first = Cur.first /\ f.cur.done = Cur.done /\ f.cur.index = i + 1
    BY <1>1, <1>3, <1>4, MovedFacts DEF Kinds
  <2>2. fsm' = f
    BY <1>0
  <2> HIDE DEF f
  <2> QED BY <2>1, <2>2 DEF Cur
<1>10. (Leading' <=> Leading) /\ (Active' <=> Active)
  BY <1>0 DEF Leading, Active
<1>11. TypeInv'
  <2>1. Kinds'
    BY <1>0, <1>1, <1>7, <1>8, <1>9 DEF Kinds, ts
  <2>2. Shape'
    BY <1>0, <1>1, <1>10 DEF Shape
  <2>3. Bounds'
    BY <1>0, <1>1, <1>9 DEF Bounds
  <2> QED BY <1>0, <1>1, <2>1, <2>2, <2>3, TypePartsNext
<1>12. Typed'
  BY <1>11, TypesNext
<1>13. LogInv'
  <2>1. node'.term >= node.term
    BY <1>0, <1>1, TermFacts
  <2> QED BY <1>0, <1>1, <1>2, <1>9, <1>10, <1>12, <2>1, LogStays
<1>14. KnownInv'
  <2>1. \A a \in Nat : Known(a) => Known(a)'
    BY <1>0 DEF Known
  <2>2. box'.committed >= box.committed /\ box'.committed = box.committed
    BY <1>0, <1>1, SameCommitted
  <2>3. Leading' => /\ box'.committed < box'.pending
                    /\ \A d \in calls' : d.op = "set_committed" => d.arg < box'.pending
    BY <1>0, <1>2, <1>10 DEF KnownInv
  <2>4. \A t \in Elements(fsm'.queue) : t \in Elements(fsm.queue)
    BY <1>9
  <2> QED BY <1>0, <1>1, <1>2, <1>3, <1>9, <1>12, <2>1, <2>2, <2>3, <2>4, KnownStays
<1>15. BallotInv'
  BY <1>0, <1>2, <1>10, BallotStays
<1>16. FsmInv'
  <2>1. /\ fsm.stopped \/ fsm.error => ~Active
        /\ fsm.error => Cur = Idle
        /\ fsm.applied_id <= Len(user.applied) /\ ~user.torn
        /\ ~fsm.error => fsm.applied_id <= fsm.applied
        /\ Len(user.applied) = Cur.index - 1
        /\ fsm.applied < Cur.upto /\ fsm.applied < Cur.index
    BY <1>0, <1>2 DEF FsmInv
  <2>2. ~fsm.error /\ Cur' # Idle
    BY <1>0, <1>9, <2>1 DEF Idle
  <2>3. fsm.applied \in Nat /\ fsm.applied_id \in Nat
    BY <1>1 DEF Typed
  <2>4. /\ fsm.applied_id <= i /\ i = (i + 1) - 1 /\ i + 1 \in 1..Cur.upto + 1
        /\ fsm.applied < i + 1
    <3>1. fsm.applied_id <= Cur.index - 1
      BY <2>1
    <3> QED BY SMTT(30), <1>3, <1>4, <2>1, <2>3, <3>1
  <2>5. Len(user'.applied) = i /\ Agree(user'.applied, chosen', Len(user'.applied))
    BY <1>0, <1>6, <1>8
  <2> QED BY <1>0, <1>8, <1>9, <1>10, <2>1, <2>2, <2>4, <2>5 DEF FsmInv
<1>17. Popped' \subseteq Popped /\ \A h \in Popped' : h.i > i
  <2>1. Popped = {[i |-> j, c |-> Cur.done[j - Cur.first + 1]] :
                    j \in {k \in Cur.first..Cur.upto : Cur.index <= k}}
    BY <1>0 DEF Popped
  <2>2. Popped' = {[i |-> j, c |-> Cur.done[j - Cur.first + 1]] :
                     j \in {k \in Cur.first..Cur.upto : i + 1 <= k}}
    BY <1>0, <1>9 DEF Popped
  <2>3. \A k \in Cur.first..Cur.upto : i + 1 <= k => Cur.index <= k /\ k > i
    BY <1>3, <1>4
  <2> QED BY <2>1, <2>2, <2>3
<1>18. Waiting' = Waiting
  BY <1>0 DEF Waiting
<1>19. ASSUME NEW h \in Waiting \union Popped' PROVE Fits(h.c, h.i, log', tasks')
  <2>1. h.c \in Closure /\ h.i \in Nat /\ Fits(h.c, h.i, log, tasks)
    BY <1>1, <1>2, <1>17, KeptFacts
  <2>2. h.i > i
    <3>1. CASE h \in Waiting
      <4>1. h.i >= closures.first
        BY <1>1, <1>2, <3>1, KeptFacts
      <4>2. Leading
        <5>1. ~Leading => 1..Len(closures.queue) = {}
          BY <1>1, EmptySeq DEF Shape
        <5> QED BY <3>1, <5>1 DEF Waiting
      <4>3. Cur.upto < closures.first /\ closures.first \in Nat
        BY <1>0, <1>1, <1>2, <4>2 DEF TaskInv, Typed
      <4> QED BY <1>3, <1>4, <2>1, <4>1, <4>3
    <3>2. CASE h \in Popped'
      BY <1>17, <3>2
    <3> QED BY <3>1, <3>2
  <2>3. h.i \in Int /\ h.i \notin Cur.index..i
    BY <1>3, <1>4, <2>1, <2>2
  <2>4. Fits(h.c, h.i, log, ts)
    BY <1>7, <2>1, <2>3, Zenon
  <2> QED BY <1>0, <2>4 DEF ts
<1>20. TaskInv'
  <2>1. AckedOnceApplied'
    <3>1. Acked(tasks', user'.applied)
      BY <1>0, <1>7, <1>8 DEF ts
    <3> QED BY <1>12, <3>1, AckedIsNext
  <2>2. \A h \in (Waiting \union Popped)' : Fits(h.c, h.i, log', tasks')
    BY <1>18, <1>19
  <2>3. \A h \in Waiting' : h.c.kind = "conf" =>
           node'.state = "LEADER" /\ node'.busy /\ h.c.n = node'.term
    BY <1>0, <1>2, <1>18 DEF TaskInv, Applies
  <2>4. /\ Cur'.first \in 1..Cur'.upto + 1 /\ Len(Cur'.done) = Cur'.upto - Cur'.first + 1
        /\ Leading' => Cur'.upto < closures'.first
    <3>1. /\ Cur.first \in 1..Cur.upto + 1 /\ Leading => Cur.upto < closures.first
      BY <1>0, <1>2 DEF TaskInv
    <3> QED BY <1>0, <1>3, <1>9, <1>10, <3>1
  <2>5. Leading' => \A j, k \in 1..Len(log') :
           log'[j] = [term |-> node'.term, type |-> "conf"] /\ log'[k] = log'[j] => j = k
    BY <1>0, <1>2, <1>10 DEF TaskInv
  <2> QED BY <2>1, <2>2, <2>3, <2>4, <2>5 DEF TaskInv
<1> QED BY <1>11, <1>13, <1>14, <1>15, <1>16, <1>20 DEF IInv

\* One element after a sequence.
LEMMA OneAppended ==
    ASSUME NEW S, NEW q \in Seq(S), NEW e \in S
    PROVE  Append(q, e) = q \o <<e>>
<1> DEFINE o == <<e>>
           a == Append(q, e)
           b == q \o o
<1>1. o \in Seq(S) /\ Len(o) = 1 /\ o[1] = e
  BY ShortSeqs
<1>2. /\ a \in Seq(S) /\ Len(a) = Len(q) + 1
      /\ \A i \in 1..Len(q) : a[i] = q[i]
      /\ a[Len(q) + 1] = e
  BY AppendElements
<1>o. b = q \o <<e>> /\ a = Append(q, e)
  OBVIOUS
<1> HIDE DEF o, a
<1>3. /\ b \in Seq(S) /\ Len(b) = Len(q) + Len(o)
      /\ \A i \in 1..Len(q) : b[i] = q[i]
      /\ \A i \in 1..Len(o) : b[Len(q) + i] = o[i]
  BY <1>1, ConcatElements
<1> HIDE DEF b
<1>4. Len(q) \in Nat /\ 1 \in 1..Len(o) /\ Len(b) = Len(a)
  BY <1>1, <1>2, <1>3, SeqFacts
<1>5. \A i \in 1..Len(a) : a[i] = b[i]
  <2> SUFFICES ASSUME NEW i \in 1..Len(a) PROVE a[i] = b[i]
    OBVIOUS
  <2>1. i \in 1..Len(q) \/ i = Len(q) + 1
    BY <1>2, <1>4
  <2> QED BY <1>1, <1>2, <1>3, <1>4, <2>1
<1>6. a = b
  BY <1>2, <1>3, <1>4, <1>5, SeqEqual
<1> QED BY <1>o, <1>6

\* A closure that has been popped for the configuration entry tells of the leader.
LEMMA NoticeMoves ==
    ASSUME NoticeInv, fsm'.queue = fsm.queue, fsm'.stopped = fsm.stopped,
           node'.state = node.state, node'.term = node.term, node'.leader = node.leader,
           user'.following = user.following, Popped' \subseteq Popped,
           \/ user'.leading = user.leading
           \/ \E h \in Popped : h.c.kind = "conf" /\ h.c.n = user'.leading
    PROVE  NoticeInv'
<1>1. (\A t : Leads(t)' <=> Leads(t)) /\ (\A t : Follows(t)' <=> Follows(t))
  BY DEF Leads, Follows
<1> SUFFICES ASSUME ~fsm.stopped
             PROVE
       /\ \A t \in Ends(fsm.queue, LeaderNotices) : t.type = "LEADER_START" => Leads(t.arg)'
       /\ NoneOf(fsm.queue, LeaderNotices) =>
             /\ user'.leading # 0 => Leads(user.leading)'
             /\ \A h \in Popped' : h.c.kind = "conf" => Leads(h.c.n)'
       /\ \A t \in Ends(fsm.queue, FollowerNotices) :
             t.type = "START_FOLLOWING" => Follows(t.arg)'
       /\ NoneOf(fsm.queue, FollowerNotices) =>
             (user'.following # 0 => Follows(user.following)')
  BY DEF NoticeInv
<1>2. /\ \A t \in Ends(fsm.queue, LeaderNotices) : t.type = "LEADER_START" => Leads(t.arg)
      /\ NoneOf(fsm.queue, LeaderNotices) =>
            /\ user.leading # 0 => Leads(user.leading)
            /\ \A h \in Popped : h.c.kind = "conf" => Leads(h.c.n)
      /\ \A t \in Ends(fsm.queue, FollowerNotices) :
            t.type = "START_FOLLOWING" => Follows(t.arg)
      /\ NoneOf(fsm.queue, FollowerNotices) =>
            (user.following # 0 => Follows(user.following))
  BY DEF NoticeInv
<1>3. \A t \in Ends(fsm.queue, LeaderNotices) : t.type = "LEADER_START" => Leads(t.arg)'
  BY <1>1, <1>2
<1>4. ASSUME NoneOf(fsm.queue, LeaderNotices)
      PROVE  /\ user'.leading # 0 => Leads(user.leading)'
             /\ \A h \in Popped' : h.c.kind = "conf" => Leads(h.c.n)'
  <2>1. \A h \in Popped : h.c.kind = "conf" => Leads(h.c.n)
    BY <1>2, <1>4
  <2>2. ASSUME user'.leading # 0
        PROVE  node'.state = "LEADER" /\ node'.term = user'.leading
    <3>1. CASE user'.leading = user.leading
      BY <1>2, <1>4, <2>2, <3>1 DEF Leads
    <3>2. CASE \E h \in Popped : h.c.kind = "conf" /\ h.c.n = user'.leading
      BY <2>1, <3>2 DEF Leads
    <3> QED BY <3>1, <3>2
  <2> QED BY <1>1, <2>1, <2>2 DEF Leads
<1>5. \A t \in Ends(fsm.queue, FollowerNotices) : t.type = "START_FOLLOWING" => Follows(t.arg)'
  BY <1>1, <1>2
<1>6. ASSUME NoneOf(fsm.queue, FollowerNotices)
      PROVE  user'.following # 0 => Follows(user.following)'
  BY <1>2, <1>6 DEF Follows
<1> QED BY <1>3, <1>4, <1>5, <1>6

\* Closures that come later in the batch have been popped as well.
LEMMA MovedPopped ==
    ASSUME Kinds, Cur \in Committing, NEW i \in Nat, fsm' = Moved(i),
           Cur.index <= i + 1, Cur.index \in Nat, Cur.first \in Nat, Cur.upto \in Nat
    PROVE  Popped' \subseteq Popped
<1>1. /\ Cur'.type = Cur.type /\ Cur'.upto = Cur.upto
      /\ Cur'.first = Cur.first /\ Cur'.done = Cur.done /\ Cur'.index = i + 1
  BY MovedFacts DEF Kinds, Cur
<1>2. CASE Cur.type = "COMMITTED"
  <2>1. Popped = {[i |-> j, c |-> Cur.done[j - Cur.first + 1]] :
                    j \in {k \in Cur.first..Cur.upto : Cur.index <= k}}
    BY <1>2 DEF Popped
  <2>2. Popped' = {[i |-> j, c |-> Cur.done[j - Cur.first + 1]] :
                     j \in {k \in Cur.first..Cur.upto : i + 1 <= k}}
    BY <1>1, <1>2 DEF Popped
  <2>3. \A k \in Cur.first..Cur.upto : i + 1 <= k => Cur.index <= k
    OBVIOUS
  <2> QED BY <2>1, <2>2, <2>3
<1>3. CASE Cur.type # "COMMITTED"
  BY <1>1, <1>3 DEF Popped
<1> QED BY <1>2, <1>3

\* on_apply takes entries of the batch.
LEMMA OnApplyKeeps ==
    ASSUME IInv, NEW i \in Cur.index..Cur.upto, OnApply(i), failed = {}
    PROVE  IInv'
<1>1. Kinds /\ Typed /\ TaskInv /\ FsmInv /\ NoticeInv
  BY TypeParts, Types DEF IInv
<1>2. /\ Applying /\ Cur.type = "COMMITTED" /\ i <= Len(log)
      /\ tasks' = Ran(tasks, DonesOf(Cur.index, i), TRUE)
      /\ user' = [user EXCEPT !.applied = @ \o SubSeq(log, Cur.index, i)]
      /\ fsm' = Moved(i)
      /\ UNCHANGED <<node, log, box, closures, stable, calls, stored, chosen, failed>>
  BY DEF OnApply, Applying, Moved
<1>3. /\ Cur \in Committing /\ Cur.upto \in Nat /\ Cur.first \in Nat \ {0}
      /\ Cur.index \in Nat \ {0} /\ Cur.index <= Cur.upto + 1
      /\ Len(user.applied) = Cur.index - 1
  BY <1>1, <1>2, CurFacts DEF FsmInv
<1>4. /\ i \in Nat /\ i \in Cur.index - 1..Cur.upto /\ Cur.index <= i + 1
      /\ Cur.index \in Cur.index..Cur.upto + 1 /\ Len(user.applied) + 1 = Cur.index
  BY <1>3
<1>5. PoppedFor(DonesOf(Cur.index, i), Cur.index, i)
  BY <1>1, <1>2, <1>4, DonesFacts DEF PoppedFor
<1>6. /\ user' \in [applied: {Grown(user.applied, log, i)}, leading: Nat, following: Nat,
                    torn: {user.torn}]
      /\ user'.leading = user.leading /\ user'.following = user.following
  <2> DEFINE m == Grown(user.applied, log, i)
  <2>1. user' = [user EXCEPT !.applied = m]
    BY <1>2, <1>4 DEF Grown
  <2> HIDE DEF m
  <2>2. user \in UserState
    BY <1>1 DEF Kinds
  <2>3. /\ user' \in [applied: {m}, leading: Nat, following: Nat, torn: {user.torn}]
        /\ user'.leading = user.leading /\ user'.following = user.following
    BY <2>1, <2>2 DEF UserState
  <2> QED BY <2>3 DEF m
<1>7. \A h \in Waiting : h.c.kind = "conf" => node'.busy
  BY <1>1, <1>2 DEF TaskInv
<1>8. node' \in NodeState
  BY <1>1, <1>2 DEF Kinds
<1>9. Applies(i, DonesOf(Cur.index, i))
  BY <1>2, <1>5, <1>6, <1>7, <1>8 DEF Applies
<1>10. NoticeInv'
  <2>1. Popped' \subseteq Popped
    BY <1>1, <1>2, <1>3, <1>4, MovedPopped
  <2>2. fsm'.queue = fsm.queue /\ fsm'.stopped = fsm.stopped
    BY <1>1, <1>2, <1>3, <1>4, MovedFacts DEF Kinds
  <2> QED BY <1>1, <1>2, <1>6, <2>1, <2>2, NoticeMoves
<1> QED BY <1>9, <1>10, AppliesKeeps

\* A configuration entry, and with the leader's own closure the end of the change.
LEMMA ApplyConfigurationKeeps == ASSUME IInv, ApplyConfiguration, failed = {} PROVE IInv'
<1> DEFINE i == Cur.index
           cs == DoneOf(Cur.index)
           mine == cs # <<>> /\ cs[1].kind = "conf"
<1>1. Kinds /\ Shape /\ Typed /\ TaskInv /\ FsmInv /\ NoticeInv
  BY TypeParts, Types DEF IInv
<1>2. /\ Applying /\ Cur.type = "COMMITTED" /\ i <= Cur.upto /\ i <= Len(log)
      /\ log[i].type = "conf" /\ tasks' = Ran(tasks, cs, TRUE)
      /\ node' = IF mine /\ Leading /\ cs[1].n = node.term
                 THEN [node EXCEPT !.busy = FALSE] ELSE node
      /\ user' = [user EXCEPT !.applied = Append(@, log[i]),
                              !.leading = IF mine THEN cs[1].n ELSE @]
      /\ UNCHANGED <<log, box, closures, stable, calls, stored, chosen, failed>>
  BY DEF ApplyConfiguration, Applying
<1>f. fsm' = [fsm EXCEPT !.cur.index = @ + 1]
  BY DEF ApplyConfiguration
<1>3. /\ Cur \in Committing /\ Cur.upto \in Nat /\ Cur.first \in Nat \ {0}
      /\ i \in Nat \ {0} /\ Len(user.applied) = i - 1
      /\ \A k \in Cur.first..Cur.upto : Cur.done[k - Cur.first + 1] \in Closure
  BY <1>1, <1>2, CurFacts DEF FsmInv
<1>4. /\ i \in i..Cur.upto /\ i \in Nat /\ Len(user.applied) + 1 = i /\ i <= i + 1
      /\ Len(log) \in Nat /\ i \in 1..Len(log)
  <2>1. /\ Len(log) \in Nat /\ i <= Cur.upto /\ i <= Len(log) /\ Cur.upto \in Nat
        /\ i \in Nat \ {0} /\ Len(user.applied) = i - 1
    BY <1>1, <1>2, <1>3 DEF Typed
  <2> HIDE DEF i
  <2> QED BY <2>1
<1>5. fsm' = Moved(i)
  BY <1>f DEF Moved, Cur
<1>6. \/ cs = <<>>
      \/ \E c \in Closure : /\ cs = <<c>> /\ [i |-> i, c |-> c] \in Popped
                            /\ Fits(c, i, log, tasks)
  <2>1. CASE i < Cur.first
    BY <2>1 DEF DoneOf
  <2>2. CASE ~(i < Cur.first)
    <3> DEFINE c == Cur.done[i - Cur.first + 1]
    <3>1. cs = <<c>>
      BY <2>2 DEF DoneOf
    <3>2. i \in Cur.first..Cur.upto /\ i <= i
      BY <1>2, <1>3, <2>2
    <3>3. c \in Closure
      BY <1>3, <3>2
    <3>4. [i |-> i, c |-> c] \in Popped /\ Fits(c, i, log, tasks)
      BY <1>1, <1>2, <3>2, KeptFacts
    <3> HIDE DEF c, i, cs
    <3> QED BY <3>1, <3>3, <3>4
  <2> QED BY <2>1, <2>2
<1> HIDE DEF cs
<1>7. /\ PoppedFor(cs, Cur.index, i)
      /\ mine => /\ [i |-> i, c |-> cs[1]] \in Popped /\ cs[1] \in Closure
                 /\ log[i] = [term |-> cs[1].n, type |-> "conf"]
  <2>1. CASE cs = <<>>
    <3>1. cs \in Seq(Closure) /\ 1..Len(cs) = {}
      BY <2>1, EmptySeq
    <3> QED BY <2>1, <3>1 DEF PoppedFor
  <2>2. ASSUME NEW c \in Closure, cs = <<c>>, [i |-> i, c |-> c] \in Popped,
               Fits(c, i, log, tasks)
        PROVE  /\ PoppedFor(cs, Cur.index, i)
               /\ mine => /\ [i |-> i, c |-> cs[1]] \in Popped /\ cs[1] \in Closure
                          /\ log[i] = [term |-> cs[1].n, type |-> "conf"]
    <3>1. cs \in Seq(Closure) /\ Len(cs) = 1 /\ cs[1] = c
      BY <2>2, ShortSeqs
    <3>2. 1..Len(cs) = {1}
      BY <3>1
    <3>3. PoppedFor(cs, Cur.index, i)
      BY <1>4, <2>2, <3>1, <3>2 DEF PoppedFor
    <3>4. c.kind = "conf" => log[i] = [term |-> c.n, type |-> "conf"]
      BY <2>2 DEF Fits
    <3> QED BY <2>2, <3>1, <3>3, <3>4
  <2> QED BY <1>6, <2>1, <2>2
<1>8. /\ user' \in [applied: {Grown(user.applied, log, i)}, leading: Nat, following: Nat,
                    torn: {user.torn}]
      /\ user'.following = user.following
      /\ user'.leading = IF mine THEN cs[1].n ELSE user.leading
  <2> DEFINE m == Grown(user.applied, log, i)
             n == IF mine THEN cs[1].n ELSE user.leading
  <2>1. Append(user.applied, log[i]) = m
    <3> DEFINE l == user.applied
    <3>1. l \in Seq(Entry) /\ log[i] \in Entry /\ log \in Seq(Entry)
      BY <1>1, <1>4, LogType DEF Typed
    <3>2. SubSeq(log, Len(l) + 1, i) = <<log[i]>>
      <4> DEFINE o == SubSeq(log, i, i)
      <4>1. i \in 1..Len(log) + 1 /\ i \in i - 1..Len(log) /\ i - i + 1 = 1
            /\ i + 1 - 1 = i
        BY <1>4
      <4> HIDE DEF i
      <4>2. o \in Seq(Entry) /\ Len(o) = i - i + 1
            /\ \A k \in 1..i - i + 1 : o[k] = log[i + k - 1]
        BY <3>1, <4>1, PartElements
      <4> HIDE DEF o
      <4>3. Len(o) = 1 /\ o[1] = log[i]
        BY <4>1, <4>2
      <4>4. <<log[i]>> \in Seq(Entry) /\ Len(<<log[i]>>) = 1 /\ <<log[i]>>[1] = log[i]
        BY <3>1, ShortSeqs
      <4>5. o = <<log[i]>>
        <5> DEFINE p == <<log[i]>>
        <5>1. p \in Seq(Entry) /\ Len(p) = 1 /\ p[1] = log[i]
          BY <4>4
        <5> HIDE DEF p
        <5>2. \A k \in 1..1 : k = 1
          OBVIOUS
        <5>3. \A k \in 1..Len(o) : o[k] = p[k]
          BY <4>3, <5>1, <5>2
        <5>4. o = p
          BY <4>2, <4>3, <5>1, <5>3, SeqEqual
        <5> QED BY <5>4 DEF p
      <4> QED BY <1>4, <4>5 DEF o
    <3>3. Append(l, log[i]) = l \o <<log[i]>>
      BY <3>1, OneAppended
    <3> QED BY <3>2, <3>3 DEF Grown
  <2>2. user' = [user EXCEPT !.applied = m, !.leading = n]
    BY <1>2, <2>1
  <2>3. n \in Nat /\ user \in UserState
    BY <1>1, <1>7 DEF Closure, Typed, Kinds
  <2>4. n = IF mine THEN cs[1].n ELSE user.leading
    OBVIOUS
  <2> HIDE DEF m, n
  <2>5. /\ user' \in [applied: {m}, leading: Nat, following: Nat, torn: {user.torn}]
        /\ user'.following = user.following /\ user'.leading = n
    BY <2>2, <2>3 DEF UserState
  <2> QED BY <2>4, <2>5 DEF m
<1>9. /\ node' \in NodeState /\ node'.state = node.state /\ node'.term = node.term
      /\ node'.leader = node.leader
  BY <1>1, <1>2 DEF Kinds, NodeState
<1>10. ASSUME NEW h \in Waiting, h.c.kind = "conf" PROVE node'.busy
  <2>1. /\ node.state = "LEADER" /\ node.busy /\ h.c.n = node.term
        /\ Fits(h.c, h.i, log, tasks) /\ h.i \in Nat /\ h.i >= closures.first /\ Leading
    BY <1>1, <1>10, KeptFacts DEF TaskInv, Leading
  <2>2. CASE node' = node
    BY <2>1, <2>2
  <2>3. CASE node' # node
    <3>1. mine /\ cs[1].n = node.term
      BY <1>2, <2>3
    <3>2. log[i] = [term |-> node.term, type |-> "conf"]
      BY <1>7, <3>1
    <3>3. h.i \in 1..Len(log) /\ log[h.i] = [term |-> node.term, type |-> "conf"]
      BY <1>10, <2>1 DEF Fits
    <3>4. i = h.i
      <4>1. \A j, k \in 1..Len(log) :
               log[j] = [term |-> node.term, type |-> "conf"] /\ log[k] = log[j] => j = k
        BY <1>1, <2>1 DEF TaskInv
      <4> HIDE DEF i
      <4> QED BY <1>4, <3>2, <3>3, <4>1
    <3>5. Cur.upto < closures.first /\ closures.first \in Nat
      BY <1>1, <1>2, <2>1 DEF TaskInv, Typed
    <3> HIDE DEF i
    <3> QED BY <1>2, <1>3, <2>1, <3>4, <3>5
  <2> QED BY <2>2, <2>3
<1>11. Applies(i, cs)
  BY <1>2, <1>4, <1>5, <1>7, <1>8, <1>9, <1>10 DEF Applies
<1>12. NoticeInv'
  <2>1. Popped' \subseteq Popped
    BY <1>1, <1>3, <1>4, <1>5, MovedPopped
  <2>2. fsm'.queue = fsm.queue /\ fsm'.stopped = fsm.stopped
    <3>1. fsm \in FsmState /\ Cur \in Committing /\ i \in Nat
      BY <1>1, <1>3 DEF Kinds
    <3> QED BY <1>5, <3>1, MovedFacts
  <2>3. \/ user'.leading = user.leading
        \/ \E h \in Popped : h.c.kind = "conf" /\ h.c.n = user'.leading
    <3> SUFFICES ASSUME mine
                 PROVE  \E h \in Popped : h.c.kind = "conf" /\ h.c.n = user'.leading
      BY <1>8
    <3> DEFINE h == [i |-> i, c |-> cs[1]]
    <3>1. h \in Popped /\ h.c = cs[1]
      BY <1>7
    <3> HIDE DEF h
    <3>2. h.c.kind = "conf" /\ h.c.n = user'.leading
      BY <1>8, <3>1
    <3> QED BY <3>1, <3>2
  <2> QED BY <1>1, <1>8, <1>9, <2>1, <2>2, <2>3, NoticeMoves
<1> HIDE DEF i, mine
<1> QED BY <1>11, <1>12, AppliesKeeps

\* The end of do_committed, when the batch has come to the entry i.
LEMMA FinishedFacts ==
    ASSUME IInv, Cur.type = "COMMITTED", NEW i \in Cur.index..Cur.upto + 1
    PROVE  LET f == Finished(i)
           IN  /\ f \in FsmState /\ f.queue = fsm.queue /\ f.cur = Idle
               /\ f.applied = Cur.upto /\ f.term = Id(log, i - 1).term
               /\ f.applied_id = i - 1 /\ f.error = fsm.error /\ f.stopped = fsm.stopped
               /\ Cur.upto <= MaxLog /\ Cur.upto <= Len(log) /\ i - 1 <= MaxLog
               /\ i - 1 \in Cur.index - 1..Cur.upto /\ i - 1 <= Len(log)
               /\ i - 1 \in Nat
<1>1. Kinds /\ Bounds /\ Typed /\ TaskInv /\ FsmInv /\ KnownInv
  BY TypeParts, Types DEF IInv
<1>2. /\ Cur.upto \in Nat /\ Cur.index \in Nat \ {0} /\ Cur.index <= Cur.upto + 1
  BY <1>1, CurFacts
<1>3. /\ Cur.upto <= box.committed /\ box.committed <= Len(log)
      /\ fsm.applied_id <= Len(user.applied) /\ Len(user.applied) = Cur.index - 1
  BY <1>1 DEF KnownInv, Known, Agree, FsmInv
<1>4. /\ box.committed \in Nat /\ Len(log) \in Nat /\ Len(log) <= MaxLog /\ MaxLog \in Nat
      /\ fsm.applied_id \in Nat /\ \A j \in 1..Len(log) : log[j].term \in Nat
  BY <1>1 DEF Typed
<1> DEFINE j == i - 1
<1>5. /\ j \in Nat /\ j \in Cur.index - 1..Cur.upto /\ j <= Cur.upto /\ Cur.upto <= MaxLog
      /\ j <= MaxLog /\ j <= Len(log) /\ fsm.applied_id <= j /\ Cur.upto <= Len(log)
  <2>1. i \in Nat /\ i >= 1 /\ i >= Cur.index /\ i <= Cur.upto + 1
    BY <1>2
  <2>2. Cur.upto <= MaxLog /\ Cur.upto <= Len(log)
    BY <1>2, <1>3, <1>4
  <2>3. j \in Nat /\ j <= Cur.upto /\ j \in Cur.index - 1..Cur.upto
    BY <1>2, <2>1
  <2>4. j <= MaxLog /\ j <= Len(log)
    <3> HIDE DEF j
    <3> QED BY <1>2, <1>4, <2>2, <2>3
  <2>5. fsm.applied_id <= j
    <3>1. fsm.applied_id <= Cur.index - 1
      BY <1>3
    <3> QED BY <1>2, <1>4, <2>1, <3>1
  <2> QED BY <2>2, <2>3, <2>4, <2>5
<1>6. Id(log, j).term \in Nat
  <2> HIDE DEF j
  <2>1. Id(log, j).term = IF j = 0 THEN 0 ELSE log[j].term
    BY DEF Id
  <2>2. j # 0 => j \in 1..Len(log)
    BY <1>4, <1>5
  <2> QED BY <1>4, <2>1, <2>2
<1> DEFINE t == Id(log, j).term
           d == IF LastAppliedId(i) > fsm.applied_id THEN LastAppliedId(i) ELSE fsm.applied_id
<1>7. d = j
  BY <1>4, <1>5 DEF LastAppliedId
<1>8. Finished(i) = [fsm EXCEPT !.cur = Idle, !.applied = Cur.upto, !.term = t,
                                !.applied_id = d]
  BY DEF Finished
<1> HIDE DEF t, d
<1>9. Finished(i) = [fsm EXCEPT !.cur = Idle, !.applied = Cur.upto, !.term = t,
                                !.applied_id = j]
  BY <1>7, <1>8
<1>10. fsm \in FsmState /\ t \in Nat
  BY <1>1, <1>6 DEF Kinds, t
<1> DEFINE u == Cur.upto
<1>u. u \in Nat
  BY <1>2
<1> HIDE DEF j, u
<1>11. /\ Finished(i) \in FsmState /\ Finished(i).queue = fsm.queue /\ Finished(i).cur = Idle
       /\ Finished(i).applied = u /\ Finished(i).term = t
       /\ Finished(i).applied_id = j /\ Finished(i).error = fsm.error
       /\ Finished(i).stopped = fsm.stopped
  <2>1. Finished(i) = [fsm EXCEPT !.cur = Idle, !.applied = u, !.term = t,
                                  !.applied_id = j]
    BY <1>9 DEF u
  <2> QED BY <1>5, <1>10, <1>u, <2>1 DEF FsmState
<1> HIDE DEF Finished
<1> QED BY <1>5, <1>11 DEF j, t, u

\* The batch is done.
LEMMA FinishCommittedKeeps == ASSUME IInv, FinishCommitted, failed = {} PROVE IInv'
<1>1. Kinds /\ Shape /\ Bounds /\ Typed
  BY TypeParts, Types DEF IInv
<1>2. LogInv /\ KnownInv /\ BallotInv /\ FsmInv /\ TaskInv /\ NoticeInv
  BY DEF IInv
<1>0. /\ Cur.type = "COMMITTED" /\ Cur.index > Cur.upto /\ fsm' = Finished(Cur.index)
      /\ UNCHANGED <<node, log, box, closures, stable, calls, user, tasks, stored,
                     chosen, failed>>
  BY DEF FinishCommitted
<1>3. Cur.upto \in Nat /\ Cur.index = Cur.upto + 1
  <2>1. Cur.upto \in Nat /\ Cur.index \in Nat \ {0} /\ Cur.index <= Cur.upto + 1
    BY <1>0, <1>1, <1>2, CurFacts
  <2> QED BY <1>0, <2>1
<1> DEFINE i == Cur.index
           u == Cur.upto
<1>4. /\ fsm' \in FsmState /\ fsm'.queue = fsm.queue /\ fsm'.cur = Idle
      /\ fsm'.applied = u /\ fsm'.term = Id(log, u).term
      /\ fsm'.applied_id = u /\ fsm'.error = fsm.error /\ fsm'.stopped = fsm.stopped
      /\ u <= MaxLog /\ u <= Len(log) /\ u \in Cur.index - 1..u
  <2>1. i \in Cur.index..Cur.upto + 1 /\ i - 1 = u
    BY <1>3
  <2> HIDE DEF i, u
  <2>2. LET f == Finished(i)
        IN  /\ f \in FsmState /\ f.queue = fsm.queue /\ f.cur = Idle
            /\ f.applied = Cur.upto /\ f.term = Id(log, i - 1).term
            /\ f.applied_id = i - 1 /\ f.error = fsm.error /\ f.stopped = fsm.stopped
            /\ Cur.upto <= MaxLog /\ Cur.upto <= Len(log) /\ i - 1 <= MaxLog
            /\ i - 1 \in Cur.index - 1..Cur.upto /\ i - 1 <= Len(log)
            /\ i - 1 \in Nat
    BY <1>0, <2>1, FinishedFacts
  <2>3. fsm' = Finished(i) /\ Cur.upto = u
    BY <1>0 DEF i, u
  <2> QED BY <2>1, <2>2, <2>3
<1>5. Cur' = Idle /\ Idle.type # "COMMITTED"
  BY <1>4 DEF Cur, Idle
<1>6. (Leading' <=> Leading) /\ (Active' <=> Active)
  BY <1>0 DEF Leading, Active
<1>7. TypeInv'
  <2>1. Kinds'
    BY <1>0, <1>1, <1>4 DEF Kinds
  <2>2. Shape'
    BY <1>0, <1>1, <1>6 DEF Shape
  <2>3. Bounds'
    BY <1>0, <1>1, <1>4 DEF Bounds
  <2> QED BY <1>0, <2>1, <2>2, <2>3, TypePartsNext
<1>8. Typed'
  BY <1>7, TypesNext
<1>9. LogInv'
  <2>1. node'.term >= node.term
    BY <1>0, <1>1, TermFacts
  <2> QED BY <1>0, <1>1, <1>2, <1>4, <1>6, <1>8, <2>1, LogStays DEF Active
<1>10. KnownInv'
  <2>1. \A a \in Nat : Known(a) => Known(a)'
    BY <1>0 DEF Known
  <2>2. box'.committed >= box.committed
    BY <1>0, <1>1, SameCommitted
  <2>3. Leading' => /\ box'.committed < box'.pending
                    /\ \A d \in calls' : d.op = "set_committed" => d.arg < box'.pending
    BY <1>0, <1>2, <1>6 DEF KnownInv
  <2>4. \A t \in Elements(fsm'.queue) : t \in Elements(fsm.queue)
    BY <1>4
  <2> QED BY <1>0, <1>1, <1>2, <1>5, <1>8, <2>1, <2>2, <2>3, <2>4, KnownStays
<1>11. BallotInv'
  BY <1>0, <1>2, <1>6, BallotStays
<1>12. FsmInv'
  <2>1. /\ fsm.stopped \/ fsm.error => ~Active
        /\ ~user.torn /\ Len(user.applied) = Cur.index - 1
        /\ Agree(user.applied, chosen, Len(user.applied))
    BY <1>0, <1>2 DEF FsmInv
  <2>2. Len(user.applied) = u
    BY <1>3, <2>1
  <2>3. Id(log, u).term = Id(user.applied, u).term
    <3>1. Id(log, u).term = (IF u = 0 THEN 0 ELSE log[u].term)
          /\ Id(user.applied, u).term = (IF u = 0 THEN 0 ELSE user.applied[u].term)
      BY DEF Id
    <3>2. ASSUME u # 0 PROVE log[u] = user.applied[u]
      <4>1. u \in 1..u /\ u \in 1..box.committed
        <5>1. Cur.upto <= box.committed /\ box.committed \in Nat
          BY <1>0, <1>1, <1>2 DEF KnownInv, Typed
        <5> QED BY <1>3, <3>2, <5>1
      <4>2. \A j \in 1..u : user.applied[j] = chosen[j]
        BY <2>1, <2>2 DEF Agree
      <4>3. \A j \in 1..box.committed : chosen[j] = log[j]
        BY <1>2 DEF KnownInv, Known, Agree
      <4> HIDE DEF u
      <4> QED BY <4>1, <4>2, <4>3
    <3> HIDE DEF u
    <3> QED BY <3>1, <3>2
  <2>4. u <= Len(user.applied) /\ u <= u
    BY <1>3, <2>2
  <2> HIDE DEF u
  <2> QED BY <1>0, <1>4, <1>5, <1>6, <2>1, <2>2, <2>3, <2>4 DEF FsmInv
<1>13. Popped' = {} /\ Waiting' = Waiting
  BY <1>0, <1>5 DEF Popped, Waiting
<1>14. TaskInv'
  <2>1. AckedOnceApplied'
    BY <1>0, <1>2 DEF TaskInv, AckedOnceApplied
  <2>2. \A h \in (Waiting \union Popped)' : Fits(h.c, h.i, log', tasks')
    BY <1>0, <1>2, <1>13 DEF TaskInv
  <2>3. \A h \in Waiting' : h.c.kind = "conf" =>
           node'.state = "LEADER" /\ node'.busy /\ h.c.n = node'.term
    BY <1>0, <1>2, <1>13 DEF TaskInv
  <2>4. Leading' => \A j, k \in 1..Len(log') :
           log'[j] = [term |-> node'.term, type |-> "conf"] /\ log'[k] = log'[j] => j = k
    BY <1>0, <1>2, <1>6 DEF TaskInv
  <2> QED BY <1>5, <2>1, <2>2, <2>3, <2>4 DEF TaskInv
<1>15. NoticeInv'
  <2>1. Popped' \subseteq Popped
    BY <1>13
  <2> QED BY <1>0, <1>2, <1>4, <2>1, NoticeMoves
<1> QED BY <1>7, <1>9, <1>10, <1>11, <1>12, <1>14, <1>15 DEF IInv

\* The closures that run when the state machine fails at the entry i: those of the
\* entries before it with OK, those that step_down drops and those of the rest
\* with an error.
LEMMA FailedRun ==
    ASSUME IInv, Cur.type = "COMMITTED", NEW i \in Cur.index..Cur.upto
    PROVE  LET ts == Ran(Ran(Ran(tasks, DonesOf(Cur.index, i - 1), TRUE), Dropped, FALSE),
                         DonesOf(i, Cur.upto), FALSE)
           IN  ts \in Seq(TaskRecord) /\ Acked(ts, Grown(user.applied, log, i - 1))
<1> DEFINE j == i - 1
           a == DonesOf(Cur.index, j)
           b == DonesOf(i, Cur.upto)
           m == Grown(user.applied, log, j)
<1>1. Typed /\ Shape /\ TaskInv /\ FsmInv /\ KnownInv
  BY Types, TypeParts DEF IInv
<1>2. /\ Cur.upto \in Nat /\ Cur.index \in Nat \ {0} /\ Cur.index <= Cur.upto + 1
      /\ Cur.first \in Nat \ {0}
  BY <1>1, CurFacts
<1>3. /\ Cur.upto <= box.committed /\ box.committed <= Len(log)
      /\ box.committed \in Nat /\ Len(log) \in Nat /\ log \in Logs
      /\ closures.first \in Nat
  BY <1>1 DEF KnownInv, Known, Agree, Typed
<1>4. /\ i \in Nat /\ j \in Nat /\ j \in Cur.index - 1..Cur.upto /\ j <= Len(log)
      /\ Cur.index \in Cur.index..Cur.upto + 1
      /\ i \in Cur.index..Cur.upto + 1 /\ Cur.upto \in i - 1..Cur.upto
  <2>1. i \in Nat /\ j \in Nat /\ j \in Cur.index - 1..Cur.upto /\ i <= Cur.upto
    BY <1>2
  <2>2. j <= Len(log)
    BY <1>2, <1>3, <2>1
  <2> QED BY <1>2, <2>1, <2>2
<1>5. PoppedFor(a, Cur.index, j)
  <2> DEFINE x == Cur.index
  <2>1. x \in Cur.index..Cur.upto + 1 /\ j \in x - 1..Cur.upto
    BY <1>4
  <2> HIDE DEF x, j
  <2>2. /\ DonesOf(x, j) \in Seq(Closure)
        /\ \A k \in 1..Len(DonesOf(x, j)) : \E o \in x..j :
              [i |-> o, c |-> DonesOf(x, j)[k]] \in Popped
    BY <1>1, <2>1, DonesFacts
  <2> QED BY <2>2 DEF PoppedFor, x
<1>6. PoppedFor(b, i, Cur.upto)
  <2> DEFINE y == Cur.upto
  <2>1. y \in i - 1..Cur.upto
    BY <1>4
  <2> HIDE DEF y
  <2>2. /\ DonesOf(i, y) \in Seq(Closure)
        /\ \A k \in 1..Len(DonesOf(i, y)) : \E o \in i..y :
              [i |-> o, c |-> DonesOf(i, y)[k]] \in Popped
    BY <1>1, <1>4, <2>1, DonesFacts
  <2> QED BY <2>2 DEF PoppedFor, y
<1>7. GivenUpTo(j)
  <2> HIDE DEF j
  <2> QED BY <1>4, GivenFacts
<1>8. m \in Logs
  BY <1>7 DEF GivenUpTo
<1> DEFINE t1 == Ran(tasks, a, TRUE)
<1>9. /\ t1 \in Seq(TaskRecord) /\ Acked(t1, m)
      /\ \A c \in Closure, k \in Int :
            Fits(c, k, log, tasks) /\ (k \in Cur.index..j => c.kind = "conf") =>
               Fits(c, k, log, t1)
  <2> HIDE DEF a, j
  <2> QED BY <1>4, <1>5, AppliedRun
<1> HIDE DEF t1, m, a, b
<1>10. ASSUME NEW h \in Waiting PROVE Fits(h.c, h.i, log, t1)
  <2>1. /\ h.c \in Closure /\ h.i \in Nat /\ Fits(h.c, h.i, log, tasks)
        /\ h.i >= closures.first
    BY <1>1, KeptFacts
  <2>2. Leading
    <3>1. ~Leading => 1..Len(closures.queue) = {}
      BY <1>1, EmptySeq DEF Shape
    <3> QED BY <3>1 DEF Waiting
  <2>3. Cur.upto < closures.first
    BY <1>1, <2>2 DEF TaskInv
  <2>4. h.i \in Int /\ h.i \notin Cur.index..j
    <3>1. j <= Cur.upto
      BY <1>2, <1>4
    <3> HIDE DEF j
    <3> QED BY <1>2, <1>3, <1>4, <2>1, <2>3, <3>1
  <2> QED BY <1>9, <2>1, <2>4, Zenon
<1> DEFINE t2 == Ran(t1, Dropped, FALSE)
<1>11. /\ t2 \in Seq(TaskRecord) /\ Acked(t2, m)
       /\ \A c \in Closure, k \in Int :
             Fits(c, k, log, t1) /\ (Leading => k < closures.first) => Fits(c, k, log, t2)
  BY <1>1, <1>8, <1>9, <1>10, DropKeeps
<1> HIDE DEF t2
<1>12. ASSUME NEW x \in 1..Len(b)
       PROVE  \E k \in i..Cur.upto : Fits(b[x], k, log, t2)
  <2>1. PICK k \in i..Cur.upto : [i |-> k, c |-> b[x]] \in Popped
    BY <1>6 DEF PoppedFor
  <2> DEFINE h == [i |-> k, c |-> b[x]]
  <2>2. h \in Popped /\ h.i = k /\ h.c = b[x]
    BY <2>1
  <2> HIDE DEF h
  <2>3. h.c \in Closure /\ Fits(h.c, h.i, log, tasks)
    BY <1>1, <2>2, KeptFacts
  <2>4. k \in Int /\ k \notin Cur.index..j
    BY <1>2, <1>4
  <2>5. Leading => k < closures.first
    <3>1. Leading => Cur.upto < closures.first
      BY <1>1 DEF TaskInv
    <3> QED BY <1>2, <1>3, <1>4, <3>1
  <2>6. Fits(b[x], k, log, t1)
    BY <1>9, <2>2, <2>3, <2>4, Zenon
  <2>7. b[x] \in Closure
    BY <2>2, <2>3
  <2>8. Fits(b[x], k, log, t2)
    BY <1>11, <2>4, <2>5, <2>6, <2>7, Zenon
  <2> QED BY <2>8
<1> DEFINE t3 == Ran(t2, b, FALSE)
<1>13. t3 \in Seq(TaskRecord) /\ Acked(t3, m)
  <2> DEFINE y == Cur.upto
             no == FALSE
  <2>1. /\ b \in Seq(Closure) /\ no \in BOOLEAN /\ i \in Int /\ y \in Int
        /\ \A x \in 1..Len(b) : \E k \in i..y : Fits(b[x], k, log, t2)
        /\ no => y <= Len(m) /\ \A k \in i..y : k \in 1..Len(log) => m[k] = log[k]
    BY <1>2, <1>4, <1>6, <1>12 DEF PoppedFor
  <2>2. t3 = Ran(t2, b, no)
    OBVIOUS
  <2> HIDE DEF y, no, t3
  <2>3. Ran(t2, b, no) \in Seq(TaskRecord) /\ Acked(Ran(t2, b, no), m)
    BY <1>3, <1>8, <1>11, <2>1, RanKeeps
  <2> QED BY <2>2, <2>3
<1> QED BY <1>13 DEF t1, t2, a, b, m

\* The state machine fails, or an entry cannot be read.
LEMMA ApplyFailsKeeps ==
    ASSUME IInv, NEW i \in Cur.index..Cur.upto, ApplyFails(i), failed = {}
    PROVE  IInv'
<1> DEFINE f == [Finished(i) EXCEPT !.error = TRUE]
           m == Grown(user.applied, log, i - 1)
<1>1. Kinds /\ Typed /\ TaskInv /\ FsmInv
  BY TypeParts, Types DEF IInv
<1>2. /\ Cur.type = "COMMITTED" /\ Cur.index <= Cur.upto
      /\ user' = [user EXCEPT !.applied = @ \o SubSeq(log, Cur.index, i - 1)]
      /\ OnError(f)
      /\ UNCHANGED <<log, stable, stored, chosen, failed>>
  BY DEF ApplyFails, Applying
<1>t. tasks' = Ran(Ran(Ran(tasks, DonesOf(Cur.index, i - 1), TRUE), Dropped, FALSE),
                   DonesOf(i, Cur.upto), FALSE)
  BY DEF ApplyFails
<1>3. /\ Cur.upto \in Nat /\ Cur.index \in Nat \ {0}
      /\ Len(user.applied) = Cur.index - 1
  BY <1>1, <1>2, CurFacts DEF FsmInv
<1>4. i \in Cur.index..Cur.upto + 1 /\ Len(user.applied) + 1 = Cur.index
  BY <1>3
<1>5. LET g == Finished(i)
      IN  /\ g \in FsmState /\ g.queue = fsm.queue /\ g.cur = Idle
          /\ g.applied = Cur.upto /\ g.term = Id(log, i - 1).term
          /\ g.applied_id = i - 1 /\ g.error = fsm.error /\ g.stopped = fsm.stopped
          /\ Cur.upto <= MaxLog /\ Cur.upto <= Len(log) /\ i - 1 <= MaxLog
          /\ i - 1 \in Cur.index - 1..Cur.upto /\ i - 1 <= Len(log)
          /\ i - 1 \in Nat
  BY <1>2, <1>4, FinishedFacts
<1>6. /\ f \in FsmState /\ f.queue = fsm.queue /\ f.cur = Idle /\ f.applied = Cur.upto
      /\ f.applied_id = i - 1 /\ f.error /\ f.stopped = fsm.stopped
  <2> DEFINE g == Finished(i)
  <2>1. g \in FsmState /\ g.queue = fsm.queue /\ g.cur = Idle
        /\ g.applied = Cur.upto /\ g.applied_id = i - 1 /\ g.stopped = fsm.stopped
    BY <1>5
  <2>2. f = [g EXCEPT !.error = TRUE]
    OBVIOUS
  <2> HIDE DEF g, f
  <2> QED BY <2>1, <2>2 DEF FsmState
<1> HIDE DEF f
<1> DEFINE j == i - 1
<1>j. j \in Cur.index - 1..Cur.upto /\ j <= Len(log) /\ j \in Nat /\ j <= MaxLog
  BY <1>5
<1>7. m \in Logs /\ Len(m) = j /\ Agree(m, chosen, j)
  <2>1. GivenUpTo(j)
    <3> HIDE DEF j
    <3> QED BY <1>2, <1>j, GivenFacts
  <2> QED BY <2>1 DEF GivenUpTo
<1>8. tasks' \in Seq(TaskRecord) /\ Acked(tasks', m)
  BY <1>2, <1>t, FailedRun
<1>9. /\ user' \in UserState /\ user'.leading = user.leading
      /\ user'.following = user.following /\ user'.applied = m /\ user'.torn = user.torn
  <2>1. user' = [user EXCEPT !.applied = m]
    BY <1>2, <1>4 DEF Grown
  <2> HIDE DEF m
  <2>2. user \in UserState
    BY <1>1 DEF Kinds
  <2> QED BY <1>7, <2>1, <2>2 DEF UserState
<1> HIDE DEF m
<1>10. /\ TypeInv' /\ Typed' /\ LogInv' /\ KnownInv' /\ BallotInv' /\ NoticeInv'
       /\ ~Active' /\ ~Leading' /\ closures'.queue = <<>>
       /\ fsm'.cur = f.cur /\ fsm'.applied = f.applied /\ fsm'.term = f.term
       /\ fsm'.applied_id = f.applied_id /\ fsm'.error = f.error
  <2>1. FewerNotices(fsm.queue, f.queue)
    BY <1>6 DEF FewerNotices
  <2>2. \A e \in Elements(f.queue) : e \in Elements(fsm.queue)
    BY <1>6
  <2>3. f.applied <= MaxLog /\ f.applied_id <= MaxLog
    BY <1>5, <1>6
  <2>4. failed' = {}
    BY <1>2
  <2> QED BY <1>2, <1>6, <1>8, <1>9, <2>1, <2>2, <2>3, <2>4, OnErrorFrame
<1>11. Cur' = Idle /\ Idle.type # "COMMITTED"
  BY <1>6, <1>10 DEF Cur, Idle
<1>12. FsmInv'
  <2>1. ~user.torn
    BY <1>1 DEF FsmInv
  <2>2. fsm'.applied_id <= Len(user'.applied)
    <3>1. fsm'.applied_id = j /\ Len(user'.applied) = j /\ j <= j
      BY <1>6, <1>7, <1>9, <1>10, <1>j
    <3> QED BY <3>1
  <2>3. Agree(user'.applied, chosen', Len(user'.applied))
    BY <1>2, <1>7, <1>9
  <2> QED BY <1>6, <1>9, <1>10, <1>11, <2>1, <2>2, <2>3 DEF FsmInv
<1>13. Popped' = {} /\ Waiting' = {}
  <2>1. 1..Len(closures'.queue) = {}
    BY <1>10, EmptySeq
  <2> QED BY <1>11, <2>1 DEF Popped, Waiting
<1>14. TaskInv'
  <2>1. AckedOnceApplied'
    BY <1>8, <1>9, <1>10, AckedIsNext
  <2> QED BY <1>10, <1>11, <1>13, <2>1 DEF TaskInv
<1> QED BY <1>10, <1>12, <1>14 DEF IInv

-----------------------------------------------------------------------------
(* The invariant.                                                          *)

\* The node starts as a follower that knows nothing.
LEMMA InitIInv == Init => IInv
<1> SUFFICES ASSUME Init PROVE IInv
  OBVIOUS
<1>1. /\ node = [state |-> "FOLLOWER", term |-> 1, leader |-> "none", busy |-> FALSE]
      /\ log = <<>> /\ chosen = <<>> /\ stable = <<>> /\ calls = {} /\ failed = {}
      /\ box = [pending |-> 0, ballots |-> <<>>, committed |-> 0]
      /\ closures = [first |-> 0, queue |-> <<>>]
      /\ fsm = [queue |-> <<>>, cur |-> Idle, applied |-> 0, term |-> 0,
                applied_id |-> 0, error |-> FALSE, stopped |-> FALSE]
      /\ user = [applied |-> <<>>, leading |-> 0, following |-> 0, torn |-> FALSE]
      /\ tasks = <<>> /\ stored = [p \in Peers |-> 0]
  BY DEF Init
<1>2. /\ \A S : <<>> \in Seq(S)
      /\ Len(<<>>) = 0 /\ 1..0 = {} /\ <<>> \in Logs
  BY EmptySeq, LogType
<1>3. ~Leading /\ Cur = Idle /\ Idle.type # "COMMITTED"
  BY <1>1 DEF Leading, Cur, Idle
<1>4. Elements(<<>>) = {}
  BY <1>2 DEF Elements
<1>5. TypeInv
  <2>1. node \in NodeState
    BY <1>1, PipelineAssumption DEF NodeState
  <2>2. box \in BoxState /\ closures \in ClosureState
    BY <1>1, <1>2 DEF BoxState, ClosureState
  <2>3. fsm \in FsmState
    BY <1>1, <1>2 DEF FsmState
  <2>4. user \in UserState
    BY <1>1, <1>2 DEF UserState
  <2>5. stored \in [Peers -> 0..MaxLog]
    BY <1>1, PipelineAssumption
  <2>6. Kinds
    BY <1>1, <1>2, <2>1, <2>2, <2>3, <2>4, <2>5 DEF Kinds
  <2>7. Shape
    BY <1>1, <1>3 DEF Shape
  <2>8. Bounds
    BY <1>1, PipelineAssumption DEF Bounds
  <2> QED BY <1>1, <2>6, <2>7, <2>8, TypeParts
<1>6. Agree(<<>>, <<>>, 0)
  BY <1>2 DEF Agree
<1>7. LogInv
  <2>1. Sorted(<<>>) /\ UpTo(<<>>, node.term)
    BY <1>2 DEF Sorted, UpTo
  <2> QED BY <1>1, <1>2, <1>4, <1>6, <2>1 DEF LogInv, Known
<1>8. KnownInv
  BY <1>1, <1>3, <1>4, <1>6 DEF KnownInv, Known
<1>9. BallotInv
  BY <1>3 DEF BallotInv
<1>10. FsmInv
  <2>1. Id(<<>>, 0).term = 0
    BY DEF Id
  <2> QED BY <1>1, <1>2, <1>3, <1>6, <2>1 DEF FsmInv, Cur
<1>11. TaskInv
  <2>1. AckedOnceApplied
    <3>1. DOMAIN tasks = {}
      BY <1>1
    <3> QED BY <3>1 DEF AckedOnceApplied
  <2>2. Waiting = {} /\ Popped = {}
    BY <1>1, <1>2, <1>3 DEF Waiting, Popped
  <2> QED BY <1>3, <2>1, <2>2 DEF TaskInv
<1>12. NoticeInv
  <2>1. Ends(<<>>, LeaderNotices) = {} /\ Ends(<<>>, FollowerNotices) = {}
    BY EndsOfNone
  <2>2. Popped = {}
    BY <1>3 DEF Popped
  <2> QED BY <1>1, <2>1, <2>2 DEF NoticeInv
<1> QED BY <1>5, <1>7, <1>8, <1>9, <1>10, <1>11, <1>12 DEF IInv

\* A step of the FSMCaller.
LEMMA FsmThreadKeeps == ASSUME IInv, FsmThread, failed = {} PROVE IInv'
<1>1. CASE \E n \in 1..Len(fsm.queue) : DoCommitted(n)
  BY <1>1, DoCommittedKeeps
<1>2. CASE ApplyConfiguration
  BY <1>2, ApplyConfigurationKeeps
<1>3. CASE \E i \in Cur.index..Cur.upto : OnApply(i) \/ ApplyFails(i)
  BY <1>3, OnApplyKeeps, ApplyFailsKeeps
<1>4. CASE FinishCommitted
  BY <1>4, FinishCommittedKeeps
<1>5. CASE DoSnapshotSave
  BY <1>5, DoSnapshotSaveKeeps
<1>6. CASE DoSnapshotLoad
  BY <1>6, DoSnapshotLoadKeeps
<1>7. CASE DoNotice
  BY <1>7, DoNoticeKeeps
<1>8. CASE DoOnError
  BY <1>8, DoOnErrorKeeps
<1>9. CASE DoShutdown
  BY <1>9, DoShutdownKeeps
<1> QED BY <1>1, <1>2, <1>3, <1>4, <1>5, <1>6, <1>7, <1>8, <1>9 DEF FsmThread

\* Every step keeps the invariant.
LEMMA NextIInv == ASSUME IInv, LateInv, [Next]_vars PROVE IInv'
<1>1. CASE UNCHANGED vars
  BY <1>1, StutterKeeps DEF vars
<1>2. CASE Next
  <2>0. failed = {}
    BY <1>2 DEF Next
  <2>1. CASE BecomeLeader
    BY <2>0, <2>1, BecomeLeaderKeeps
  <2>2. CASE \E e \in Expected : Apply(e)
    BY <2>0, <2>2, ApplyKeeps
  <2>3. CASE \/ \E t \in {node.term, node.term + 1} : t <= MaxTerm /\ StepsDown(t)
             \/ TransferLeadership \/ HandleTransferTimeout
    BY <2>0, <2>3, StepsDownKeeps, TransferLeadershipKeeps, HandleTransferTimeoutKeeps
  <2>4. CASE \E prev \in 0..Len(log) : \E k \in 1..MaxLog - prev :
               \E c \in prev..prev + k + 1 : HandleAppendEntries(prev, k, c)
    BY <2>0, <2>4, HandleAppendEntriesKeeps
  <2>5. CASE \E prev \in box.committed..Len(log) : \E c \in prev..prev + 1 :
               HandleHeartbeat(prev, c)
    BY <2>0, <2>5, HandleHeartbeatKeeps
  <2>6. CASE \E i \in 1..Least(Len(chosen) + 1, MaxLog) : InstallSnapshot(i)
    BY <2>0, <2>6, InstallSnapshotKeeps
  <2>7. CASE SaveSnapshot \/ Shutdown \/ RunStableClosure \/ StorageFails
    BY <2>0, <2>7, SaveSnapshotKeeps, ShutdownKeeps, RunStableClosureKeeps,
       StorageFailsKeeps
  <2>8. CASE \/ \E p \in Peers, i \in 1..Len(log) : PeerStored(p, i)
             \/ \E a \in late : AnswerComes(a)
    BY <2>8, PeerStoredKeeps, AnswerComesKeeps
  <2>9. CASE Calls
    BY <2>0, <2>9, SetLastCommittedIndexKeeps, OnCommittedKeeps DEF Calls
  <2>10. CASE FsmThread
    BY <2>0, <2>10, FsmThreadKeeps
  <2> QED BY <1>2, <2>1, <2>2, <2>3, <2>4, <2>5, <2>6, <2>7, <2>8, <2>9, <2>10 DEF Next
<1> QED BY <1>1, <1>2

-----------------------------------------------------------------------------
(* The answers that wait.                                                  *)

\* Nothing is pending, or what was pending still is or is not any more.
Onward ==
    \/ box'.pending = 0
    \/ /\ box.pending # 0 /\ box'.pending >= box.pending
       /\ NotLess(stored', stored)

\* An answer that waits stays what it is when the ballot box goes on.
LEMMA LateStays ==
    ASSUME LateInv, Typed, Typed', Onward, late' \subseteq late
    PROVE  LateInv'
<1> SUFFICES ASSUME NEW a \in late'
             PROVE  /\ a.first \in Nat /\ a.last \in Nat /\ a.peer \in Peers
                    /\ box'.pending # 0 =>
                          a.last < box'.pending \/ stored'[a.peer] >= a.last
  BY DEF LateInv
<1>1. /\ a.first \in Nat /\ a.last \in Nat /\ a.peer \in Peers
      /\ box.pending # 0 => a.last < box.pending \/ stored[a.peer] >= a.last
  BY DEF LateInv
<1>2. /\ stored[a.peer] \in Int /\ stored'[a.peer] \in Int
      /\ box.pending \in Nat /\ box'.pending \in Nat
  BY <1>1 DEF Typed
<1>3. ASSUME box'.pending # 0
      PROVE  a.last < box'.pending \/ stored'[a.peer] >= a.last
  <2>1. /\ box.pending # 0 /\ box'.pending >= box.pending
        /\ stored'[a.peer] >= stored[a.peer]
    BY <1>1, <1>3 DEF Onward, NotLess
  <2> QED BY <1>1, <1>2, <2>1
<1> QED BY <1>1, <1>3

\* stored is what it was, and so is the pending index, or nothing is pending.
LEMMA CalmOnward ==
    ASSUME Typed, stored' = stored, box'.pending \in {0, box.pending}
    PROVE  Onward
<1>1. stored \in [Peers -> 0..MaxLog] /\ box.pending \in Nat /\ MaxLog \in Nat
  BY DEF Typed
<1>2. \A p \in Peers : stored[p] >= stored[p]
  BY <1>1
<1> QED BY <1>1, <1>2 DEF Onward, NotLess

\* step_down, and on_error with it, end what is pending.
LEMMA StepDownOnward ==
    ASSUME Typed, box \in BoxState, stored' = stored, NEW t, NEW x,
           StepDown(t, x) \/ UNCHANGED <<node, box, closures, calls>>
    PROVE  Onward
<1>1. box'.pending \in {0, box.pending}
  BY DEF StepDown, BoxState
<1> QED BY <1>1, CalmOnward

\* commit_at moves the pending index on.
LEMMA CommitAtOnward ==
    ASSUME Typed, box \in BoxState, NEW first \in Nat, NEW last \in Nat, NEW peer,
           CommitAt(first, last, peer), NotLess(stored', stored)
    PROVE  Onward
<1> DEFINE from == IF first > box.pending THEN first ELSE box.pending
           g == Granted(box.ballots, box.pending, from, last, peer)
           done == {i \in from..last :
                      2 * Cardinality(g[i - box.pending + 1]) > Cardinality(Peers) + 1}
           upto == Greatest(done)
<1>1. box.pending \in Nat
  BY DEF Typed
<1>2. from \in Nat /\ from >= box.pending
  BY <1>1
<1>3. \/ box' = box
      \/ box.pending # 0 /\ box' = [box EXCEPT !.ballots = g]
      \/ /\ done # {} /\ box.pending # 0
         /\ box' = [pending |-> upto + 1, committed |-> upto,
                    ballots |-> SubSeq(g, upto - box.pending + 2, Len(g))]
  BY DEF CommitAt, Granted
<1> HIDE DEF from, g
<1>4. CASE box' = box \/ (box.pending # 0 /\ box' = [box EXCEPT !.ballots = g])
  <2>1. box'.pending = box.pending
    BY <1>1, <1>4 DEF BoxState
  <2> QED BY <1>1, <2>1 DEF Onward
<1>5. CASE /\ done # {} /\ box.pending # 0
           /\ box' = [pending |-> upto + 1, committed |-> upto,
                      ballots |-> SubSeq(g, upto - box.pending + 2, Len(g))]
  <2>1. /\ done \in SUBSET Nat /\ done \subseteq from..last /\ done # {}
        /\ \A x \in done : x <= last
    BY <1>2, <1>5
  <2> HIDE DEF done
  <2>2. upto \in from..last
    BY <1>2, <2>1, GreatestOf
  <2>3. box'.pending = upto + 1
    BY <1>5
  <2> HIDE DEF upto
  <2> QED BY <1>1, <1>2, <1>5, <2>2, <2>3 DEF Onward
<1> QED BY <1>3, <1>4, <1>5

\* A new leadership begins when no answer waits that is about entries beyond the
\* log: those of older leaderships are behind its pending index.
LEMMA BecomeLeaderLate ==
    ASSUME LateInv, Typed, box \in BoxState, "late" \notin Failures, BecomeLeader
    PROVE  LateInv'
<1>1. /\ \A a \in late : a.last <= Len(log)
      /\ box'.pending = Len(log) + 1 /\ late' = late /\ Len(log) \in Nat
  BY DEF BecomeLeader, PendingIndex, Typed, BoxState
<1> SUFFICES ASSUME NEW a \in late
             PROVE  /\ a.first \in Nat /\ a.last \in Nat /\ a.peer \in Peers
                    /\ a.last < box'.pending
  BY <1>1 DEF LateInv
<1>2. a.first \in Nat /\ a.last \in Nat /\ a.peer \in Peers
  BY DEF LateInv
<1> QED BY <1>1, <1>2

\* An answer starts to wait: its peer has stored what it is about.
LEMMA PeerStoredLate ==
    ASSUME LateInv, Typed, Typed', box \in BoxState,
           NEW p \in Peers, NEW i \in 1..Len(log), PeerStored(p, i)
    PROVE  LateInv'
<1> DEFINE b == [first |-> stored[p] + 1, last |-> i, peer |-> p]
<1>1. /\ Len(log) \in Nat /\ Len(log) <= MaxLog /\ MaxLog \in Nat
      /\ stored \in [Peers -> 0..MaxLog] /\ box.pending \in Nat
  BY DEF Typed
<1>2. /\ i > stored[p] /\ stored' = [stored EXCEPT ![p] = i]
      /\ stored[p] \in Nat /\ i \in Nat
      /\ \/ CommitAt(stored[p] + 1, i, p) /\ late' = late
         \/ late' = late \union {b} /\ UNCHANGED <<box, calls>>
  BY <1>1 DEF PeerStored
<1>3. /\ stored'[p] = i
      /\ NotLess(stored', stored)
  <2> SUFFICES ASSUME NEW o \in Peers PROVE stored'[p] = i /\ stored'[o] >= stored[o]
    BY DEF NotLess
  <2>1. stored[o] \in Nat
    BY <1>1
  <2> QED BY <1>1, <1>2, <2>1
<1>4. CASE CommitAt(stored[p] + 1, i, p) /\ late' = late
  <2>1. stored[p] + 1 \in Nat /\ i \in Nat
    BY <1>2
  <2>2. Onward
    BY <1>3, <1>4, <2>1, CommitAtOnward
  <2> QED BY <1>4, <2>2, LateStays
<1>5. CASE late' = late \union {b} /\ UNCHANGED <<box, calls>>
  <2> SUFFICES ASSUME NEW a \in late'
               PROVE  /\ a.first \in Nat /\ a.last \in Nat /\ a.peer \in Peers
                      /\ box'.pending # 0 =>
                            a.last < box'.pending \/ stored'[a.peer] >= a.last
    BY DEF LateInv
  <2>1. CASE a = b
    BY <1>2, <1>3, <2>1
  <2>2. CASE a \in late
    <3>1. /\ a.first \in Nat /\ a.last \in Nat /\ a.peer \in Peers
          /\ box.pending # 0 => a.last < box.pending \/ stored[a.peer] >= a.last
      BY <2>2 DEF LateInv
    <3>2. stored'[a.peer] >= stored[a.peer] /\ stored[a.peer] \in Int
          /\ stored'[a.peer] \in Int
      BY <1>1, <1>3, <3>1 DEF NotLess, Typed
    <3> QED BY <1>5, <3>1, <3>2
  <2> QED BY <1>5, <2>1, <2>2
<1> QED BY <1>2, <1>4, <1>5

\* Every step keeps what is true of the answers that wait.
LEMMA NextLate ==
    ASSUME IInv, IInv', LateInv, [Next]_vars, "late" \notin Failures
    PROVE  LateInv'
<1>1. Typed /\ Typed' /\ box \in BoxState
  BY Types, TypesNext, TypeParts DEF IInv, Kinds
<1>2. /\ NotLess(stored, stored) /\ box.pending \in Nat
  <2>1. stored \in [Peers -> 0..MaxLog] /\ MaxLog \in Nat /\ box.pending \in Nat
    BY <1>1 DEF Typed
  <2>2. \A p \in Peers : stored[p] >= stored[p]
    BY <2>1
  <2> QED BY <2>1, <2>2 DEF NotLess
<1>3. ASSUME box' = box, stored' = stored, late' = late
      PROVE  LateInv'
  BY <1>3 DEF LateInv
<1>4. CASE \/ UNCHANGED vars
           \/ TransferLeadership \/ HandleTransferTimeout \/ SaveSnapshot
           \/ \E prev \in 0..Len(log) : \E k \in 1..MaxLog - prev :
                 \E c \in prev..prev + k + 1 : HandleAppendEntries(prev, k, c)
           \/ \E prev \in box.committed..Len(log) : \E c \in prev..prev + 1 :
                 HandleHeartbeat(prev, c)
           \/ \E i \in 1..Least(Len(chosen) + 1, MaxLog) : InstallSnapshot(i)
  BY <1>3, <1>4 DEF vars, TransferLeadership, HandleTransferTimeout, SaveSnapshot,
     HandleAppendEntries, HandleHeartbeat, InstallSnapshot
<1>5. CASE BecomeLeader
  BY <1>1, <1>5, BecomeLeaderLate
<1>6. CASE \E e \in Expected : Apply(e)
  <2>1. stored' = stored /\ late' = late /\ box'.pending \in {0, box.pending}
    BY <1>1, <1>6 DEF Apply, BoxState
  <2> QED BY <1>1, <2>1, CalmOnward, LateStays
<1>7. CASE \/ \E t \in {node.term, node.term + 1} : t <= MaxTerm /\ StepsDown(t)
           \/ Shutdown \/ StorageFails
  <2>1. /\ stored' = stored /\ late' = late
        /\ \E t, x : StepDown(t, x) \/ UNCHANGED <<node, box, closures, calls>>
    BY <1>7 DEF StepsDown, Shutdown, StorageFails, OnError
  <2> QED BY <1>1, <2>1, StepDownOnward, LateStays
<1>8. CASE RunStableClosure
  <2> DEFINE c == Head(stable)
  <2>1. /\ stored' = stored /\ late' = late
        /\ CommitAt(c.first, c.first, Self) \/ box' = box
        /\ c.op = "leader" \/ box' = box
        /\ stable # <<>>
    BY <1>8 DEF RunStableClosure
  <2>2. CASE box' = box
    BY <1>3, <2>1, <2>2
  <2>3. CASE c.op = "leader" /\ CommitAt(c.first, c.first, Self)
    <3>1. c \in StableClosure
      BY <1>1, <2>1, TailElements DEF Typed
    <3>2. c.first \in Nat
      BY <2>3, <3>1 DEF StableClosure
    <3> QED BY <1>1, <1>2, <2>1, <2>3, <3>2, CommitAtOnward, LateStays
  <2> QED BY <2>1, <2>2, <2>3
<1>9. CASE \E p \in Peers, i \in 1..Len(log) : PeerStored(p, i)
  BY <1>1, <1>9, PeerStoredLate
<1>10. CASE \E a \in late : AnswerComes(a)
  <2> PICK a \in late : AnswerComes(a)
    BY <1>10
  <2>1. /\ late' \subseteq late /\ stored' = stored
        /\ CommitAt(a.first, a.last, a.peer) \/ box' = box
        /\ a.first \in Nat /\ a.last \in Nat
    BY DEF AnswerComes, LateInv
  <2>2. CASE CommitAt(a.first, a.last, a.peer)
    BY <1>1, <1>2, <2>1, <2>2, CommitAtOnward, LateStays
  <2>3. CASE box' = box
    BY <1>1, <2>1, <2>3, CalmOnward, LateStays
  <2> QED BY <2>1, <2>2, <2>3
<1>11. CASE Calls
  <2>1. /\ stored' = stored /\ late' = late /\ box'.pending = box.pending
    BY <1>1, <1>11 DEF Calls, SetLastCommittedIndex, OnCommitted, BoxState
  <2> QED BY <1>1, <2>1, CalmOnward, LateStays
<1>12. CASE FsmThread
  <2>1. /\ stored' = stored /\ late' = late
        /\ \E t, x : StepDown(t, x) \/ box' = box
    BY <1>12 DEF FsmThread, DoCommitted, ApplyConfiguration, OnApply, ApplyFails,
       FinishCommitted, DoSnapshotSave, DoSnapshotLoad, DoNotice, DoOnError, DoShutdown,
       OnError
  <2>2. box'.pending \in {0, box.pending}
    BY <1>1, <2>1 DEF StepDown, BoxState
  <2> QED BY <1>1, <2>1, <2>2, CalmOnward, LateStays
<1> QED BY <1>4, <1>5, <1>6, <1>7, <1>8, <1>9, <1>10, <1>11, <1>12 DEF Next

-----------------------------------------------------------------------------
(* What the invariant is for.                                              *)

\* The invariant holds in every reachable state, if no answer waits for the lock of
\* its replicator until its entries have been cut off this node's log and the node
\* leads again: with it, all that is proved below for one state holds whatever the
\* node, the ballot box, the closure queue and the FSMCaller have done before, in
\* whatever order, and whoever calls commit_at after its leadership.
THEOREM Inductive == ASSUME "late" \notin Failures PROVE Spec => [](IInv /\ LateInv)
<1>1. Init => IInv /\ LateInv
  BY InitIInv DEF Init, LateInv
<1>2. IInv /\ LateInv /\ [Next]_vars => IInv' /\ LateInv'
  BY NextIInv, NextLate
<1> QED BY <1>1, <1>2, PTL DEF Spec

\* No CHECK of BallotBox and ClosureQueue fails and every variable keeps its type:
\* a leader has a ballot and a closure for each of its entries
\* (reset_pending_index, append_pending_task, pop_closure_until), and nobody but a
\* leader has any.
THEOREM NoCheckFails ==
    ASSUME "late" \notin Failures PROVE Spec => []ChecksHold
<1>1. IInv => ChecksHold
  BY DEF IInv, TypeInv, ChecksHold
<1> QED BY <1>1, Inductive, PTL

\* FSMCaller::do_committed gives the state machine the chosen entries, each once
\* and in order; a snapshot is saved under the id of what has been applied.
THEOREM EntriesAppliedInOrder ==
    ASSUME "late" \notin Failures PROVE Spec => []AppliedInOrder
<1>1. IInv => AppliedInOrder
  <2> SUFFICES ASSUME IInv PROVE AppliedInOrder
    OBVIOUS
  <2>1. user.applied \in Logs /\ chosen \in Logs
    BY DEF IInv, TypeInv, TypeOK
  <2>2. /\ fsm.applied_id <= Len(user.applied) /\ ~user.torn
        /\ Agree(user.applied, chosen, Len(user.applied))
    BY DEF IInv, FsmInv
  <2>3. IsPrefix(user.applied, chosen)
    BY <2>1, <2>2, PrefixAgrees
  <2> QED BY <2>2, <2>3 DEF AppliedInOrder
<1> QED BY <1>1, Inductive, PTL

\* BallotBox::commit_at and set_last_committed_index call committed only what a
\* majority has stored, also when the leadership changes between the grants and
\* the call that counts them: a commit_at that Replicator::stop has let through
\* after its leadership finds nothing pending, or a pending index beyond what it is
\* about. The assumption is needed: commit_at does not know whose term it is for.
THEOREM OnlyChosenIsCommitted ==
    ASSUME "late" \notin Failures PROVE Spec => []CommittedIsChosen
<1>1. IInv => CommittedIsChosen
  BY DEF IInv, KnownInv, Known, Agree, CommittedIsChosen
<1> QED BY <1>1, Inductive, PTL

\* A closure of NodeImpl::apply runs at most once, and with OK only after the
\* state machine has applied the very entry of its task.
THEOREM TaskAckedOnceApplied ==
    ASSUME "late" \notin Failures PROVE Spec => []AckedOnceApplied
<1>1. IInv => AckedOnceApplied
  BY DEF IInv, TaskInv
<1> QED BY <1>1, Inductive, PTL

\* When the FSMCaller has run all its tasks, a state machine that was told to
\* lead or to follow by on_leader_start and on_start_following does so still.
THEOREM RolesAreFresh ==
    ASSUME "late" \notin Failures PROVE Spec => []RoleIsFresh
<1>1. IInv => RoleIsFresh
  <2> SUFFICES ASSUME IInv, fsm.queue = <<>>, ~fsm.stopped
               PROVE  /\ user.leading # 0 => Leads(user.leading)
                      /\ user.following # 0 => Follows(user.following)
    BY DEF RoleIsFresh, Leads, Follows
  <2>1. NoneOf(fsm.queue, LeaderNotices) /\ NoneOf(fsm.queue, FollowerNotices)
    BY EndsOfNone
  <2> QED BY <2>1 DEF IInv, NoticeInv
<1> QED BY <1>1, Inductive, PTL

=============================================================================

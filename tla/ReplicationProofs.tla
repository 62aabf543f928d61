------------------------- MODULE ReplicationProofs -------------------------
(***************************************************************************)
(* Proofs about Replication, without the window of a vote (Spec): its      *)
(* types, that logs match, that a leader has what earlier leaders have     *)
(* committed, that what is committed stays on the disks of a majority, and *)
(* that the group implements ReplicatedLog.                                *)
(***************************************************************************)
EXTENDS Replication, FiniteSetTheorems, SequenceTheorems, TLAPS

-----------------------------------------------------------------------------
(* The inductive invariant.                                                *)

\* The logs l and m have the same first k entries.
Agree(l, m, k) ==
    /\ k <= Len(l) /\ k <= Len(m)
    /\ \A j \in 1..k : l[j] = m[j]

\* The server n is a candidate of term t; until it is not, its log is fixed.
Running(n, t) == node[n].state = "CANDIDATE" /\ node[n].term = t

\* Who has voted for n in term t.
Granting(n, t) ==
    {n} \union {g.voter : g \in {h \in grants : h.cand = n /\ h.term = t}}

\* A vote is kept and is the only one of its term; a request shows the log of
\* its candidate.
VotesInv ==
    /\ \A n \in Server : node[n].state # "FOLLOWER" => node[n].voted = n
    /\ \A r \in requests :
          /\ r.term <= node[r.cand].term
          /\ Running(r.cand, r.term) => r.last = LastId(node[r.cand].log)
    /\ \A g \in grants :
          /\ g.voter # g.cand
          /\ g.term <= node[g.cand].term /\ g.term <= node[g.voter].term
          /\ g.term = node[g.voter].term => node[g.voter].voted = g.cand
    /\ \A g, h \in grants : g.voter = h.voter /\ g.term = h.term => g = h
    /\ \A n \in Server : node[n].voted \notin {NONE, n} =>
          [voter |-> n, cand |-> node[n].voted, term |-> node[n].term] \in grants

\* A term has a log when it has a leader, who has won the votes of a majority.
LedInv ==
    /\ \A n \in Server : node[n].state = "LEADER" =>
          led[node[n].term].leader = n /\ node[n].pending # 0
    /\ \A t \in Term :
          /\ led[t].leader = NONE => led[t].log = <<>> /\ led[t].committed = 0
          /\ led[t].leader # NONE =>
               /\ node[led[t].leader].term >= t
               /\ node[led[t].leader].term = t =>
                     /\ node[led[t].leader].voted = led[t].leader
                     /\ node[led[t].leader].state # "CANDIDATE"
               /\ \A g \in grants : g.voter = led[t].leader => g.term # t
               /\ Majority(Granting(led[t].leader, t))

\* Every entry of a log l was written by the leader of its term, as `by' shows
\* it, and comes after what that leader has before it.
Rooted(l, by) == \A i \in 1..Len(l) : Agree(l, by[l[i]].log, i)

\* The terms in l are at most t.
UpTo(l, t) == \A i \in 1..Len(l) : l[i] <= t

\* Where the entries of logs come from, and what followers have yet to answer.
LogsInv ==
    /\ \A t \in Term : Rooted(led[t].log, led) /\ UpTo(led[t].log, t)
    /\ \A n \in Server :
          /\ Rooted(node[n].log, led) /\ UpTo(node[n].log, node[n].term)
          /\ Rooted(node[n].disk, led) /\ UpTo(node[n].disk, node[n].term)
          /\ node[n].state = "CANDIDATE" => UpTo(node[n].log, node[n].term - 1)
          /\ node[n].state = "LEADER" =>
                /\ node[n].log = led[node[n].term].log
                /\ \A i \in node[n].pending..Len(node[n].log) :
                      node[n].log[i] = node[n].term
    /\ \A c \in closures :
          /\ c.term <= node[c.peer].term
          /\ c.committed <= c.last /\ c.committed <= led[c.term].committed
          /\ c.term = node[c.peer].term =>
                Agree(node[c.peer].log, led[c.term].log, c.last)
    /\ \A c, d \in closures : c.peer = d.peer /\ c.term = d.term => c = d

\* The entries of term t in the log of its leader.
Own(t) == {i \in 1..Len(led[t].log) : led[t].log[i] = t}

\* The leader of term t, as `by' shows it, has committed an entry of its own. What
\* it sends as its commit index before that it knows from leaders before it.
OwnCommit(t, by) ==
    /\ by[t].committed \in 1..Len(by[t].log)
    /\ by[t].log[by[t].committed] = t

\* A leader of a term up to t, as `by' shows it, has committed an entry of its own
\* at or after i, and l agrees with its log up to i.
Backed(l, i, t, by) ==
    i # 0 => \E u \in Term : /\ u <= t /\ OwnCommit(u, by)
                             /\ i <= by[u].committed /\ Agree(l, by[u].log, i)

\* What is acknowledged and committed, and where followers know it from.
CommitInv ==
    /\ \A t \in Term, p \in Server :
          /\ acked[t][p] <= Len(led[t].log)
          /\ acked[t][p] # 0 => t <= node[p].term
    /\ \A t \in Term : /\ Backed(led[t].log, led[t].committed, t, led)
                       /\ OwnCommit(t, led) => Granted(t, led[t].committed)
    /\ \A n \in Server : node[n].state = "LEADER" =>
          led[node[n].term].committed = node[n].committed
    /\ \A n \in Server :
          Backed(node[n].log, node[n].committed, node[n].term, led)
    /\ \A c \in commits :
          /\ Len(c.log) \in Own(c.term)
          /\ Len(c.log) <= led[c.term].committed
          /\ Agree(c.log, led[c.term].log, Len(c.log))
    /\ commits # {} => \E c \in commits : \A d \in commits : Len(d.log) <= Len(c.log)

\* The server p has the first i entries of the leader of term t, in memory and
\* on disk, and so has every candidate it has voted for since.
Keeps(p, t, i) ==
    /\ node[p].term >= t
    /\ Agree(node[p].log, led[t].log, i) /\ Agree(node[p].disk, led[t].log, i)
    /\ \A g \in grants : g.voter = p /\ g.term > t /\ Running(g.cand, g.term)
          => Agree(node[g.cand].log, led[t].log, i)

\* The leader of term t can never commit the entry i: a majority has gone to
\* later terms without it.
Dead(t, i) == Majority({p \in Server : node[p].term > t /\ acked[t][p] < i})

\* Who has acknowledged an entry of the leader's own term keeps it unless it is
\* dead, a majority keeps what is committed, and later leaders have it.
SafeInv ==
    \A t \in Term : \A i \in Own(t) :
       /\ i <= led[t].committed => Majority({p \in Server : Keeps(p, t, i)})
       /\ i > led[t].committed =>
             \A p \in Server : acked[t][p] >= i => Keeps(p, t, i) \/ Dead(t, i)
       /\ \A u \in Term : u > t /\ led[u].leader # NONE =>
             Agree(led[u].log, led[t].log, i) \/ Dead(t, i)

\* Votes are kept, logs come from leaders, what is acknowledged and committed
\* is in them, and a majority keeps it.
IInv ==
    /\ TypeOK
    /\ VotesInv /\ LedInv /\ LogsInv /\ CommitInv /\ SafeInv

-----------------------------------------------------------------------------
(* Majorities and logs.                                                    *)

\* Two majorities of the group have a server in common.
LEMMA MajoritiesMeet ==
    ASSUME NEW A \in SUBSET Server, NEW B \in SUBSET Server,
           Majority(A), Majority(B)
    PROVE  \E p \in A : p \in B
<1> SUFFICES ASSUME A \intersect B = {} PROVE FALSE
  OBVIOUS
<1>1. IsFiniteSet(Server) /\ IsFiniteSet(A) /\ IsFiniteSet(B)
  BY ServerAssumption, FS_Subset
<1>3. Cardinality(A \union B) <= Cardinality(Server)
  BY <1>1, FS_Subset
<1>4. /\ Cardinality(A) \in Nat /\ Cardinality(B) \in Nat
      /\ Cardinality(Server) \in Nat
  BY <1>1, FS_CardinalityType
<1>5. Cardinality(A \union B)
         = Cardinality(A) + Cardinality(B) - Cardinality(A \intersect B)
  BY <1>1, FS_Union
<1>2. Cardinality(A \union B) = Cardinality(A) + Cardinality(B)
  BY <1>4, <1>5, FS_EmptySet
<1> QED BY <1>2, <1>3, <1>4 DEF Majority

\* A set that has a majority in it is one.
LEMMA MajorityGrows ==
    ASSUME NEW A \in SUBSET Server, NEW B \in SUBSET Server,
           A \subseteq B, Majority(A)
    PROVE  Majority(B)
<1>1. IsFiniteSet(Server) /\ IsFiniteSet(A) /\ IsFiniteSet(B)
  BY ServerAssumption, FS_Subset
<1>2. /\ Cardinality(A) \in Nat /\ Cardinality(B) \in Nat
      /\ Cardinality(Server) \in Nat /\ Cardinality(A) <= Cardinality(B)
  BY <1>1, FS_CardinalityType, FS_Subset
<1> QED BY <1>2 DEF Majority

\* A log is a sequence of at most MaxLog terms.
LEMMA LogType ==
    /\ <<>> \in Logs /\ Len(<<>>) = 0
    /\ \A l \in Logs : /\ l \in Seq(Term) /\ Len(l) \in 0..MaxLog
                       /\ \A i \in 1..Len(l) : l[i] \in Term
    /\ \A l \in Seq(Term) : Len(l) <= MaxLog => l \in Logs
<1>1. ASSUME NEW l \in Logs
      PROVE  l \in Seq(Term) /\ Len(l) \in 0..MaxLog
  <2>1. PICK k \in 0..MaxLog : l \in [1..k -> Term]
    BY DEF Logs
  <2>2. k \in Nat
    BY BoundAssumption
  <2> QED BY <2>1, <2>2
<1>2. ASSUME NEW l \in Logs, NEW i \in 1..Len(l) PROVE l[i] \in Term
  BY <1>1, ElementOfSeq
<1>3. ASSUME NEW l \in Seq(Term), Len(l) <= MaxLog PROVE l \in Logs
  <2>1. l \in [1..Len(l) -> Term] /\ Len(l) \in Nat
    BY LenProperties
  <2>2. Len(l) \in 0..MaxLog
    BY <2>1, <1>3, BoundAssumption
  <2> QED BY <2>1, <2>2 DEF Logs
<1>4. <<>> \in Seq(Term) /\ Len(<<>>) = 0
  BY EmptySeq
<1>5. <<>> \in Logs
  <2>1. Len(<<>>) <= MaxLog
    BY <1>4, BoundAssumption
  <2> QED BY <1>3, <1>4, <2>1, Zenon
<1> QED BY <1>1, <1>2, <1>3, <1>4, <1>5

\* Logs that have the same entries are the same.
LEMMA LogEqual ==
    ASSUME NEW l \in Logs, NEW m \in Logs, Len(l) = Len(m),
           \A i \in 1..Len(l) : l[i] = m[i]
    PROVE  l = m
  BY LogType, SeqEqual

\* A prefix, entry by entry.
LEMMA PrefixFacts ==
    ASSUME NEW l \in Logs, NEW k \in 0..Len(l)
    PROVE  /\ SubSeq(l, 1, k) \in Logs /\ Len(SubSeq(l, 1, k)) = k
           /\ \A i \in 1..k : SubSeq(l, 1, k)[i] = l[i]
<1>1. l \in Seq(Term) /\ Len(l) \in Nat /\ \A i \in 1..Len(l) : l[i] \in Term
  BY LogType
<1>2. \A i \in 1..k : l[i] \in Term
  BY <1>1
<1>3. /\ SubSeq(l, 1, k) \in Seq(Term)
      /\ Len(SubSeq(l, 1, k)) = IF 1 <= k THEN k - 1 + 1 ELSE 0
      /\ \A i \in 1..k - 1 + 1 : SubSeq(l, 1, k)[i] = l[1 + i - 1]
  BY <1>1, <1>2, SubSeqProperties
<1>4. Len(SubSeq(l, 1, k)) = k
  BY <1>1, <1>3
<1>5. \A i \in 1..k : SubSeq(l, 1, k)[i] = l[i]
  BY <1>1, <1>3
<1>6. Len(SubSeq(l, 1, k)) <= MaxLog
  BY <1>4, LogType, BoundAssumption
<1>7. SubSeq(l, 1, k) \in Logs
  BY <1>3, <1>6, LogType
<1> QED BY <1>4, <1>5, <1>7

\* A log with one more entry.
LEMMA AppendFacts ==
    ASSUME NEW l \in Logs, NEW t \in Term, Len(Append(l, t)) <= MaxLog
    PROVE  /\ Append(l, t) \in Logs /\ Len(Append(l, t)) = Len(l) + 1
           /\ \A i \in 1..Len(l) : Append(l, t)[i] = l[i]
           /\ Append(l, t)[Len(l) + 1] = t
<1>1. l \in Seq(Term)
  BY LogType
<1>2. /\ Append(l, t) \in Seq(Term) /\ Len(Append(l, t)) = Len(l) + 1
      /\ \A i \in 1..Len(l) : Append(l, t)[i] = l[i]
      /\ Append(l, t)[Len(l) + 1] = t
  BY <1>1, AppendProperties
<1>3. Append(l, t) \in Logs
  BY <1>2, LogType
<1> QED BY <1>2, <1>3

\* IsPrefix, entry by entry.
LEMMA PrefixAgrees ==
    ASSUME NEW l \in Logs, NEW m \in Logs
    PROVE  IsPrefix(l, m) <=> Agree(l, m, Len(l))
<1>1. Len(l) \in Nat /\ Len(m) \in Nat
  BY LogType
<1>2. CASE Len(l) <= Len(m)
  <2>1. /\ SubSeq(l, 1, Len(l)) \in Logs /\ Len(SubSeq(l, 1, Len(l))) = Len(l)
        /\ \A i \in 1..Len(l) : SubSeq(l, 1, Len(l))[i] = l[i]
    BY <1>1, PrefixFacts
  <2>2. /\ SubSeq(m, 1, Len(l)) \in Logs /\ Len(SubSeq(m, 1, Len(l))) = Len(l)
        /\ \A i \in 1..Len(l) : SubSeq(m, 1, Len(l))[i] = m[i]
    BY <1>1, <1>2, PrefixFacts
  <2>3. Agree(l, m, Len(l)) => SubSeq(l, 1, Len(l)) = SubSeq(m, 1, Len(l))
    BY <2>1, <2>2, LogEqual DEF Agree
  <2> QED BY <2>1, <2>2, <2>3, <1>1, <1>2 DEF IsPrefix, Agree
<1>3. CASE ~(Len(l) <= Len(m))
  BY <1>3 DEF IsPrefix, Agree
<1> QED BY <1>2, <1>3

\* Logs that agree with a third one agree with each other.
LEMMA AgreeFacts ==
    ASSUME NEW l \in Logs, NEW m \in Logs, NEW o \in Logs
    PROVE  /\ \A i \in Nat : Agree(l, m, i) => Agree(m, l, i)
           /\ \A i, j \in Nat : Agree(l, m, i) /\ Agree(m, o, j) /\ j <= i => Agree(l, o, j)
           /\ \A i, j \in Nat : Agree(l, m, i) /\ j <= i => Agree(l, m, j)
           /\ \A i \in 0..Len(l) : Agree(l, l, i)
<1>1. Len(l) \in Nat /\ Len(m) \in Nat /\ Len(o) \in Nat
  BY LogType
<1> QED BY <1>1 DEF Agree

\* Two logs that come from leaders and have an entry of the same term at the
\* same index agree up to it.
LEMMA RootsMatch ==
    ASSUME NEW l \in Logs, NEW m \in Logs, Rooted(l, led), Rooted(m, led),
           led \in [Term -> [leader: Server \union {NONE}, log: Logs,
                             committed: 0..MaxLog]],
           NEW i \in 1..Len(l), i <= Len(m), l[i] = m[i]
    PROVE  Agree(l, m, i)
<1>1. /\ l[i] \in Term /\ Len(l) \in Nat /\ Len(m) \in Nat
  BY LogType
<1>2. led[l[i]].log \in Logs
  BY <1>1
<1>3. Agree(l, led[l[i]].log, i) /\ Agree(m, led[l[i]].log, i)
  BY <1>1 DEF Rooted
<1> QED BY <1>1, <1>3 DEF Agree

-----------------------------------------------------------------------------
(* What no step takes back.                                                *)

\* Terms, the logs and commit indices of leaders, acknowledgements and votes
\* only grow; who acknowledges is in that term; a log of a candidate changes
\* only when a candidacy of a new term starts.
Grows ==
    /\ \A p \in Server : node[p].term <= node'[p].term
    /\ \A t \in Term :
          /\ Agree(led[t].log, led'[t].log, Len(led[t].log))
          /\ led[t].leader # NONE => led'[t].leader = led[t].leader
          /\ led[t].committed <= led'[t].committed
          /\ \A p \in Server :
                \/ acked'[t][p] = acked[t][p]
                \/ acked[t][p] <= acked'[t][p] /\ node'[p].term = t
    /\ grants \subseteq grants'
    /\ \A n \in Server, t \in Term :
          node'[n].state = "CANDIDATE" /\ node'[n].term = t =>
             \/ Running(n, t) /\ node'[n].log = node[n].log
             \/ node[n].term < t

\* The types of what the invariants speak of.
Typed ==
    /\ \A n \in Server :
          /\ node[n] \in Node
          /\ node[n].state \in {"FOLLOWER", "CANDIDATE", "LEADER"}
          /\ node[n].term \in Term /\ node[n].term \in Nat
          /\ node[n].voted \in Server \union {NONE}
          /\ node[n].log \in Logs /\ node[n].disk \in Logs
          /\ node[n].pending \in Nat /\ node[n].committed \in Nat
    /\ \A t \in Term :
          /\ t \in Nat /\ led[t].log \in Logs /\ Len(led[t].log) \in Nat
          /\ led[t].committed \in Nat
          /\ led[t].leader \in Server \union {NONE}
          /\ \A p \in Server : acked[t][p] \in Nat
    /\ \A g \in grants : g.voter \in Server /\ g.cand \in Server /\ g.term \in Term
    /\ \A r \in requests : r.cand \in Server /\ r.term \in Term /\ r.last \in LogId
    /\ \A c \in closures : /\ c.peer \in Server /\ c.term \in Term
                           /\ c.last \in 1..MaxLog /\ c.last \in Nat
                           /\ c.committed \in Nat
    /\ \A c \in commits : c.log \in Logs /\ c.term \in Term

\* They follow from TypeOK.
LEMMA Types == TypeOK => Typed
<1> SUFFICES ASSUME TypeOK PROVE Typed
  OBVIOUS
<1>1. \A n \in Server :
         /\ node[n] \in Node
         /\ node[n].state \in {"FOLLOWER", "CANDIDATE", "LEADER"}
         /\ node[n].term \in Term /\ node[n].term \in Nat
         /\ node[n].voted \in Server \union {NONE}
         /\ node[n].log \in Logs /\ node[n].disk \in Logs
         /\ node[n].pending \in Nat /\ node[n].committed \in Nat
  BY BoundAssumption DEF TypeOK, Node, Term
<1>2. ASSUME NEW t \in Term
      PROVE  /\ t \in Nat /\ led[t].log \in Logs /\ Len(led[t].log) \in Nat
             /\ led[t].committed \in Nat
             /\ led[t].leader \in Server \union {NONE}
             /\ \A p \in Server : acked[t][p] \in Nat
  <2>1. led[t].log \in Logs /\ led[t].committed \in 0..MaxLog
    BY DEF TypeOK
  <2>2. led[t].leader \in Server \union {NONE}
    BY DEF TypeOK
  <2>3. \A p \in Server : acked[t][p] \in 0..MaxLog
    BY DEF TypeOK
  <2> QED BY <2>1, <2>2, <2>3, LogType DEF Term
<1>3. /\ \A g \in grants : g.voter \in Server /\ g.cand \in Server /\ g.term \in Term
      /\ \A r \in requests : r.cand \in Server /\ r.term \in Term /\ r.last \in LogId
  BY DEF TypeOK, Request
<1>4. /\ \A c \in closures : /\ c.peer \in Server /\ c.term \in Term
                             /\ c.last \in 1..MaxLog /\ c.last \in Nat
                             /\ c.committed \in Nat
      /\ \A c \in commits : c.log \in Logs /\ c.term \in Term
  BY DEF TypeOK
<1> QED BY <1>1, <1>2, <1>3, <1>4 DEF Typed

\* The same after a step.
LEMMA TypesNext == TypeOK' => Typed'
  BY Types, PTL

USE DEF Typed

\* What agrees with a leader's log goes on to.
LEMMA AgreeGrows ==
    ASSUME TypeOK, TypeOK', Grows,
           NEW t \in Term, NEW l \in Logs, NEW i \in Nat, Agree(l, led[t].log, i)
    PROVE  Agree(l, led'[t].log, i)
<1>1. led[t].log \in Logs /\ led'[t].log \in Logs
  BY Types DEF TypeOK
<1>2. Agree(led[t].log, led'[t].log, Len(led[t].log))
  BY DEF Grows
<1> QED BY <1>1, <1>2, LogType DEF Agree

\* What comes from leaders still does.
LEMMA RootedGrows ==
    ASSUME TypeOK, TypeOK', Grows, NEW l \in Logs, Rooted(l, led)
    PROVE  Rooted(l, led')
<1>1. Len(l) \in Nat /\ \A i \in 1..Len(l) : l[i] \in Term
  BY LogType
<1> QED BY <1>1, AgreeGrows DEF Rooted

\* What is dead stays dead.
LEMMA DeadStays ==
    ASSUME TypeOK, TypeOK', Grows, NEW t \in Term, NEW i \in Nat, Dead(t, i)
    PROVE  Dead(t, i)'
<1> DEFINE A == {p \in Server : node[p].term > t /\ acked[t][p] < i}
           B == {p \in Server : node'[p].term > t /\ acked'[t][p] < i}
<1>1. ASSUME NEW p \in A PROVE p \in B
  <2>1. /\ node[p].term \in Nat /\ node'[p].term \in Nat /\ t \in Nat
    BY Types, BoundAssumption DEF TypeOK, Node, Term
  <2> QED BY <2>1 DEF Grows
<1>2. Majority(A)
  BY DEF Dead
<1>3. Majority(B)
  BY <1>1, <1>2, MajorityGrows
<1> QED BY <1>3 DEF Dead, Majority

\* What has been granted is not dead.
LEMMA GrantedAlive ==
    ASSUME TypeOK, NEW t \in Term, NEW i \in Nat, NEW j \in Nat, i <= j, Granted(t, j)
    PROVE  ~Dead(t, i)
<1> SUFFICES ASSUME Dead(t, i) PROVE FALSE
  OBVIOUS
<1>1. \E p \in {q \in Server : acked[t][q] >= j} :
         p \in {q \in Server : node[q].term > t /\ acked[t][q] < i}
  BY MajoritiesMeet DEF Dead, Granted
<1> QED BY <1>1, Types

\* What is backed is in the log; an entry of the leader's own that is not above
\* what it sends as its commit index has been committed by it.
LEMMA BackedFacts ==
    ASSUME TypeOK, LogsInv, CommitInv
    PROVE  /\ \A t \in Term : /\ OwnCommit(t, led) <=> led[t].committed \in Own(t)
                             /\ led[t].committed <= Len(led[t].log)
           /\ \A t \in Term : \A i \in Own(t) :
                 i <= led[t].committed => OwnCommit(t, led) /\ Granted(t, led[t].committed)
<1>1. \A t \in Term : OwnCommit(t, led) <=> led[t].committed \in Own(t)
  BY DEF OwnCommit, Own
<1>2. ASSUME NEW t \in Term PROVE led[t].committed <= Len(led[t].log)
  <2>1. led[t].committed \in Nat /\ Len(led[t].log) \in Nat
    BY Types
  <2>2. Backed(led[t].log, led[t].committed, t, led)
    BY DEF CommitInv
  <2> QED BY <2>1, <2>2 DEF Backed, Agree
<1>3. ASSUME NEW t \in Term, NEW i \in Own(t), i <= led[t].committed
      PROVE  OwnCommit(t, led) /\ Granted(t, led[t].committed)
  <2>1. /\ led[t].committed \in Nat /\ led[t].committed # 0 /\ i \in Nat /\ t \in Nat
        /\ i \in 1..Len(led[t].log) /\ led[t].log[i] = t
    BY <1>3, Types DEF Own
  <2>2. PICK u \in Term : /\ u <= t /\ OwnCommit(u, led)
                          /\ led[t].committed <= led[u].committed
                          /\ Agree(led[t].log, led[u].log, led[t].committed)
    BY <2>1 DEF CommitInv, Backed
  <2>3. /\ u \in Nat /\ Len(led[u].log) \in Nat /\ UpTo(led[u].log, u)
    BY Types DEF LogsInv
  <2>4. i \in 1..Len(led[u].log) /\ led[u].log[i] = t
    BY <2>1, <2>2, <2>3, <1>3 DEF Agree
  <2>5. t <= u
    BY <2>3, <2>4 DEF UpTo
  <2>6. u = t
    BY <2>1, <2>2, <2>3, <2>5
  <2> QED BY <2>2, <2>6 DEF CommitInv
<1> QED BY <1>1, <1>2, <1>3

\* What is backed stays so while leaders keep what they have committed.
LEMMA BackedGrows ==
    ASSUME TypeOK, TypeOK', Grows,
           \A u \in Term : OwnCommit(u, led) => OwnCommit(u, led'),
           NEW l \in Logs, NEW i \in Nat, NEW t \in Nat, Backed(l, i, t, led)
    PROVE  Backed(l, i, t, led')
<1> SUFFICES ASSUME i # 0
             PROVE  \E u \in Term : /\ u <= t /\ OwnCommit(u, led')
                                    /\ i <= led'[u].committed /\ Agree(l, led'[u].log, i)
  BY DEF Backed
<1>1. PICK u \in Term : /\ u <= t /\ OwnCommit(u, led)
                        /\ i <= led[u].committed /\ Agree(l, led[u].log, i)
  BY DEF Backed
<1>2. Agree(l, led'[u].log, i)
  BY <1>1, AgreeGrows
<1>3. led[u].committed <= led'[u].committed
  BY DEF Grows
<1>4. led[u].committed \in Nat /\ led'[u].committed \in Nat
  BY Types, TypesNext
<1> QED BY <1>1, <1>2, <1>3, <1>4

\* And with fewer entries, in a log that agrees that far, and in later terms.
LEMMA BackedLess ==
    ASSUME TypeOK, NEW l \in Logs, NEW m \in Logs, NEW i \in Nat, NEW j \in Nat,
           NEW t \in Nat, NEW u \in Nat,
           Backed(l, i, t, led), j <= i, t <= u, Agree(m, l, j)
    PROVE  Backed(m, j, u, led)
<1> SUFFICES ASSUME j # 0
             PROVE  \E v \in Term : /\ v <= u /\ OwnCommit(v, led)
                                    /\ j <= led[v].committed /\ Agree(m, led[v].log, j)
  BY DEF Backed
<1>1. PICK v \in Term : /\ v <= t /\ OwnCommit(v, led)
                        /\ i <= led[v].committed /\ Agree(l, led[v].log, i)
  BY DEF Backed
<1>2. led[v].committed \in Nat /\ v \in Nat /\ led[v].log \in Logs
  BY Types
<1>3. Agree(l, led[v].log, j)
  BY <1>1, <1>2, AgreeFacts
<1>4. Agree(m, led[v].log, j)
  BY <1>2, <1>3, AgreeFacts
<1> QED BY <1>1, <1>2, <1>4

\* Leaders of later terms have what is committed.
LEMMA CommittedSafe ==
    ASSUME IInv, NEW t \in Term, NEW i \in Own(t), i <= led[t].committed
    PROVE  /\ ~Dead(t, i)
           /\ \A u \in Term : u > t /\ led[u].leader # NONE =>
                 Agree(led[u].log, led[t].log, i)
<1>1. i \in Nat /\ led[t].committed \in Nat
  BY Types DEF IInv, Own
<1>2. Granted(t, led[t].committed)
  BY BackedFacts DEF IInv
<1>3. ~Dead(t, i)
  BY <1>1, <1>2, GrantedAlive DEF IInv
<1> QED BY <1>3 DEF IInv, SafeInv

\* What keeps SafeInv, whatever the step: who has an entry keeps it, a new
\* acknowledgement is of an entry that is kept, a commit needs a majority, and
\* a new leader has what is not dead.
LEMMA SafeStep ==
    ASSUME IInv, TypeOK', Grows,
           \A t \in Term, p \in Server : \A i \in Own(t) :
              Keeps(p, t, i) => Keeps(p, t, i)' \/ Dead(t, i),
           \A t \in Term, p \in Server : \A i \in Own(t) :
              acked[t][p] < i /\ acked'[t][p] >= i /\ i > led'[t].committed
                 => Keeps(p, t, i)',
           \A t \in Term : led'[t].committed # led[t].committed =>
              \/ led[t].leader = NONE
              \/ acked' = acked /\ Granted(t, led'[t].committed),
           \A t \in Term : \A i \in Own(t)' : i > Len(led[t].log) =>
              led'[t].committed < i /\ \A p \in Server : acked'[t][p] < i,
           \A t, u \in Term : \A i \in Own(t) :
              t < u /\ led[u].leader = NONE /\ led'[u].leader # NONE =>
                 Agree(led'[u].log, led[t].log, i) \/ Dead(t, i),
           \A t, u \in Term : \A i \in Own(t)' :
              i > Len(led[t].log) /\ t < u /\ led'[u].leader # NONE =>
                 Dead(t, i)'
    PROVE  SafeInv'
<1> USE DEF IInv
<1> SUFFICES ASSUME NEW t \in Term, NEW i \in Own(t)'
             PROVE  /\ i <= led'[t].committed => Majority({p \in Server : Keeps(p, t, i)'})
                    /\ i > led'[t].committed =>
                          \A p \in Server : acked'[t][p] >= i => Keeps(p, t, i)' \/ Dead(t, i)'
                    /\ \A u \in Term : u > t /\ led'[u].leader # NONE =>
                          Agree(led'[u].log, led'[t].log, i) \/ Dead(t, i)'
  BY DEF SafeInv, Majority
<1>1. /\ Len(led[t].log) \in Nat /\ Len(led'[t].log) \in Nat /\ i \in 1..Len(led'[t].log)
      /\ led'[t].committed \in Nat /\ led[t].committed \in Nat
      /\ led[t].log \in Logs /\ led'[t].log \in Logs
      /\ \A p \in Server : acked[t][p] \in Nat /\ acked'[t][p] \in Nat
  BY Types, TypesNext, LogType DEF Own
<1>2. CASE i > Len(led[t].log)
  BY <1>1, <1>2
<1>3. CASE i <= Len(led[t].log)
  <2>1. i \in Own(t)
    BY <1>1, <1>3 DEF Own, Grows, Agree
  <2>2. Dead(t, i) => Dead(t, i)'
    BY <1>1, DeadStays
  <2>s. /\ i <= led[t].committed => Majority({p \in Server : Keeps(p, t, i)})
        /\ i > led[t].committed =>
              \A p \in Server : acked[t][p] >= i => Keeps(p, t, i) \/ Dead(t, i)
        /\ \A u \in Term : u > t /\ led[u].leader # NONE =>
              Agree(led[u].log, led[t].log, i) \/ Dead(t, i)
    BY <2>1 DEF SafeInv
  <2>3. ASSUME i <= led'[t].committed
        PROVE  Majority({p \in Server : Keeps(p, t, i)'})
    <3>1. CASE i <= led[t].committed
      <4>1. Majority({p \in Server : Keeps(p, t, i)})
        BY <2>1, <3>1 DEF SafeInv
      <4>2. ~Dead(t, i)
        BY <2>1, <3>1, CommittedSafe
      <4>3. {p \in Server : Keeps(p, t, i)} \subseteq {p \in Server : Keeps(p, t, i)'}
        BY <4>2, <2>1
      <4> QED BY <4>1, <4>3, MajorityGrows
    <3>2. CASE i > led[t].committed
      <4>0. led[t].leader # NONE
        BY <2>1, LogType DEF LedInv, Own
      <4>1. acked' = acked /\ Granted(t, led'[t].committed)
        BY <2>3, <3>2, <4>0, <1>1
      <4>2. ~Dead(t, i)
        BY <4>1, <2>3, <1>1, GrantedAlive
      <4>3. \A p \in Server : acked[t][p] >= led'[t].committed => Keeps(p, t, i)
        BY <2>s, <2>3, <3>2, <4>2, <1>1
      <4>4. {p \in Server : acked[t][p] >= led'[t].committed}
               \subseteq {p \in Server : Keeps(p, t, i)'}
        BY <4>2, <4>3, <2>1
      <4> QED BY <4>1, <4>4, MajorityGrows DEF Granted
    <3> QED BY <3>1, <3>2, <1>1
  <2>4. ASSUME i > led'[t].committed, NEW p \in Server, acked'[t][p] >= i
        PROVE  Keeps(p, t, i)' \/ Dead(t, i)'
    <3>1. CASE acked[t][p] < i
      BY <3>1, <2>1, <2>4
    <3>2. CASE acked[t][p] >= i
      <4>1. led[t].committed <= led'[t].committed
        BY DEF Grows
      <4>2. Keeps(p, t, i) \/ Dead(t, i)
        BY <3>2, <4>1, <2>s, <2>4, <1>1
      <4> QED BY <4>2, <2>1, <2>2
    <3> QED BY <3>1, <3>2, <1>1
  <2>5. ASSUME NEW u \in Term, u > t, led'[u].leader # NONE
        PROVE  Agree(led'[u].log, led'[t].log, i) \/ Dead(t, i)'
    <3>0. /\ led[u].log \in Logs /\ led'[u].log \in Logs
          /\ Len(led[u].log) \in Nat /\ u \in Nat /\ t \in Nat
      BY Types, TypesNext
    <3>1. Agree(led'[u].log, led[t].log, i) \/ Dead(t, i)
      <4>1. CASE led[u].leader = NONE
        BY <4>1, <2>1, <2>5, <3>0
      <4>2. CASE led[u].leader # NONE
        <5>1. Agree(led[u].log, led[t].log, i) \/ Dead(t, i)
          BY <4>2, <2>s, <2>5
        <5>2. Agree(led[u].log, led'[u].log, Len(led[u].log))
          BY DEF Grows
        <5>3. i \in Nat
          BY <1>1
        <5>4. ASSUME Agree(led[u].log, led[t].log, i)
              PROVE  Agree(led'[u].log, led[t].log, i)
          <6>1. i <= Len(led[u].log) /\ \A j \in 1..i : led[u].log[j] = led[t].log[j]
            BY <5>4 DEF Agree
          <6>2. /\ Len(led[u].log) <= Len(led'[u].log)
                /\ \A j \in 1..i : led[u].log[j] = led'[u].log[j]
            BY <5>2, <5>3, <6>1, <3>0 DEF Agree
          <6>3. Len(led'[u].log) \in Nat
            BY <3>0, LogType
          <6> QED BY <5>3, <6>1, <6>2, <6>3, <5>4, <3>0 DEF Agree
        <5> QED BY <5>1, <5>4
      <4> QED BY <4>1, <4>2
    <3> QED BY <3>1, <2>2, <3>0, <1>1, AgreeGrows
  <2> QED BY <2>3, <2>4, <2>5
<1> QED BY <1>1, <1>2, <1>3

\* Who keeps the logs it has, and votes for candidates who have them, keeps
\* an entry.
LEMMA KeepsStep ==
    ASSUME IInv, TypeOK', Grows, NEW t \in Term, NEW i \in Own(t), NEW p \in Server,
           Keeps(p, t, i),
           Agree(node'[p].log, led[t].log, i), Agree(node'[p].disk, led[t].log, i),
           \A g \in grants' \ grants :
              g.voter = p /\ g.term > t /\ Running(g.cand, g.term)'
                 => Agree(node'[g.cand].log, led[t].log, i)
    PROVE  Keeps(p, t, i)'
<1>1. /\ TypeOK /\ i \in Nat
      /\ node[p].term \in Nat /\ node'[p].term \in Nat /\ t \in Nat
      /\ \A n \in Server : /\ node'[n].log \in Logs /\ node'[n].disk \in Logs
  BY Types, TypesNext DEF IInv, Own
<1>2. node'[p].term >= t
  BY <1>1 DEF Grows, Keeps
<1>3. /\ Agree(node'[p].log, led'[t].log, i)
      /\ Agree(node'[p].disk, led'[t].log, i)
  BY <1>1, AgreeGrows
<1>4. ASSUME NEW g \in grants', g.voter = p, g.term > t, Running(g.cand, g.term)'
      PROVE  Agree(node'[g.cand].log, led'[t].log, i)
  <2>0. g.cand \in Server /\ g.term \in Term
    BY TypesNext
  <2>1. Agree(node'[g.cand].log, led[t].log, i)
    <3>1. CASE g \notin grants
      BY <3>1, <1>4
    <3>2. CASE g \in grants
      <4>1. g.term <= node[g.cand].term
        BY <3>2 DEF IInv, VotesInv
      <4>2. Running(g.cand, g.term) /\ node'[g.cand].log = node[g.cand].log
        BY <1>4, <2>0, <4>1, Types DEF Grows, Running, IInv
      <4> QED BY <4>2, <3>2, <1>4 DEF Keeps
    <3> QED BY <3>1, <3>2
  <2> QED BY <1>1, <2>0, <2>1, AgreeGrows
<1> QED BY <1>2, <1>3, <1>4 DEF Keeps, Running

-----------------------------------------------------------------------------
(* What keeps the other parts of the invariant.                            *)

\* A step that gives no vote, or takes it back with the term.
Calm ==
    /\ grants' = grants /\ requests' = requests
    /\ \A p \in Server :
          /\ \/ node'[p].term = node[p].term /\ node'[p].voted = node[p].voted
             \/ /\ node'[p].term > node[p].term /\ node'[p].voted = NONE
                /\ node'[p].state = "FOLLOWER"
          /\ node'[p].state # "FOLLOWER" => node[p].state # "FOLLOWER"
          /\ node'[p].state = "CANDIDATE" =>
                node[p].state = "CANDIDATE" /\ node'[p].log = node[p].log

\* Such a step keeps the votes.
LEMMA VotesCalm ==
    ASSUME IInv, TypeOK', Calm
    PROVE  VotesInv'
<1> USE DEF IInv, Calm
<1>t. Typed /\ Typed'
  BY Types, TypesNext
<1>1. \A n \in Server : node'[n].state # "FOLLOWER" => node'[n].voted = n
  BY <1>t DEF VotesInv
<1>2. ASSUME NEW r \in requests'
      PROVE  /\ r.term <= node'[r.cand].term
             /\ Running(r.cand, r.term)' => r.last = LastId(node'[r.cand].log)
  <2>1. /\ r.term <= node[r.cand].term
        /\ Running(r.cand, r.term) => r.last = LastId(node[r.cand].log)
    BY DEF VotesInv
  <2>2. r.cand \in Server /\ r.term \in Nat
    BY <1>t
  <2>3. node[r.cand].term \in Nat /\ node'[r.cand].term \in Nat
    BY <1>t, <2>2
  <2>4. /\ \/ node'[r.cand].term = node[r.cand].term
           \/ node'[r.cand].term > node[r.cand].term /\ node'[r.cand].state = "FOLLOWER"
        /\ node'[r.cand].state = "CANDIDATE" =>
              node[r.cand].state = "CANDIDATE" /\ node'[r.cand].log = node[r.cand].log
    BY <2>2
  <2> QED BY <2>1, <2>2, <2>3, <2>4 DEF Running
<1>3. ASSUME NEW g \in grants'
      PROVE  /\ g.voter # g.cand
             /\ g.term <= node'[g.cand].term /\ g.term <= node'[g.voter].term
             /\ g.term = node'[g.voter].term => node'[g.voter].voted = g.cand
  <2>1. /\ g.voter # g.cand
        /\ g.term <= node[g.cand].term /\ g.term <= node[g.voter].term
        /\ g.term = node[g.voter].term => node[g.voter].voted = g.cand
    BY DEF VotesInv
  <2>2. g.cand \in Server /\ g.voter \in Server /\ g.term \in Nat
    BY <1>t
  <2> QED BY <2>1, <2>2, <1>t
<1>4. \A g, h \in grants' : g.voter = h.voter /\ g.term = h.term => g = h
  BY DEF VotesInv
<1>5. \A n \in Server : node'[n].voted \notin {NONE, n} =>
          [voter |-> n, cand |-> node'[n].voted, term |-> node'[n].term] \in grants'
  BY DEF VotesInv
<1> QED BY <1>1, <1>2, <1>3, <1>4, <1>5 DEF VotesInv

\* A majority of votes stays one.
LEMMA GrantingGrows ==
    ASSUME TypeOK, TypeOK', grants \subseteq grants', NEW n \in Server, NEW t \in Term,
           Majority(Granting(n, t))
    PROVE  Majority(Granting(n, t))'
<1>1. Granting(n, t) \in SUBSET Server /\ Granting(n, t)' \in SUBSET Server
  BY Types, TypesNext DEF Granting
<1>2. Granting(n, t) \subseteq Granting(n, t)'
  BY DEF Granting
<1>3. Majority(Granting(n, t)')
  BY <1>1, <1>2, MajorityGrows
<1> QED BY <1>3 DEF Majority

\* Such a step keeps the leaders when it makes none.
LEMMA LedCalm ==
    ASSUME IInv, TypeOK', Calm,
           \A t \in Term : /\ led'[t].leader = led[t].leader
                           /\ led[t].leader = NONE => led'[t] = led[t],
           \A p \in Server : node'[p].state = "LEADER" =>
              node[p].state = "LEADER" /\ node'[p].pending # 0
    PROVE  LedInv'
<1> USE DEF IInv
<1>t. Typed /\ Typed'
  BY Types, TypesNext
<1>1. ASSUME NEW n \in Server, node'[n].state = "LEADER"
      PROVE  led'[node'[n].term].leader = n /\ node'[n].pending # 0
  BY <1>1, <1>t DEF LedInv, Calm
<1>2. ASSUME NEW t \in Term
      PROVE  led'[t].leader = NONE => led'[t].log = <<>> /\ led'[t].committed = 0
  BY DEF LedInv
<1>3. ASSUME NEW t \in Term, NEW m \in Server, m = led'[t].leader, m # NONE
      PROVE  /\ node'[m].term >= t
             /\ node'[m].term = t => node'[m].voted = m /\ node'[m].state # "CANDIDATE"
             /\ \A g \in grants' : g.voter = m => g.term # t
             /\ Majority(Granting(m, t))'
  <2>1. m = led[t].leader
    BY <1>3
  <2>2. /\ node[m].term >= t
        /\ node[m].term = t => node[m].voted = m /\ node[m].state # "CANDIDATE"
        /\ \A g \in grants : g.voter = m => g.term # t
        /\ Majority(Granting(m, t))
    BY <1>3, <2>1 DEF LedInv
  <2>3. grants \subseteq grants'
    BY DEF Calm
  <2>4. Majority(Granting(m, t))'
    BY <2>2, <2>3, GrantingGrows
  <2>5. node'[m].term \in Nat /\ node[m].term \in Nat /\ t \in Nat
    BY <1>t
  <2> QED BY <2>2, <2>4, <2>5 DEF Calm
<1>4. ASSUME NEW t \in Term
      PROVE  led'[t].leader \in Server \union {NONE}
  BY <1>t
<1> QED BY <1>1, <1>2, <1>3, <1>4 DEF LedInv

\* A step of the server n keeps LogsInv when it leaves the logs of the others
\* alone and those of n, its leadership and its closures are in order.
LEMMA LogsStep ==
    ASSUME IInv, TypeOK', Grows, NEW n \in Server,
           \A p \in Server : p # n => node'[p] = node[p],
           \A t \in Term :
              \/ led'[t].log = led[t].log
              \/ /\ led'[t].leader = n
                 /\ Rooted(led'[t].log, led') /\ UpTo(led'[t].log, t),
           Rooted(node'[n].log, led'), UpTo(node'[n].log, node'[n].term),
           Rooted(node'[n].disk, led'), UpTo(node'[n].disk, node'[n].term),
           node'[n].state = "CANDIDATE" => UpTo(node'[n].log, node'[n].term - 1),
           node'[n].state = "LEADER" =>
              /\ node'[n].log = led'[node'[n].term].log
              /\ \A i \in node'[n].pending..Len(node'[n].log) :
                    node'[n].log[i] = node'[n].term,
           \A c \in closures' : c \in closures \/ c.peer = n,
           \A c \in closures' : c.peer = n =>
              /\ c.term <= node'[n].term
              /\ c.committed <= c.last /\ c.committed <= led'[c.term].committed
              /\ c.term = node'[n].term =>
                    Agree(node'[n].log, led'[c.term].log, c.last),
           \A c, d \in closures' : c.peer = d.peer /\ c.term = d.term => c = d
    PROVE  LogsInv'
<1> USE DEF IInv
<1>t. Typed /\ Typed'
  BY Types, TypesNext
<1>1. ASSUME NEW t \in Term
      PROVE  Rooted(led'[t].log, led') /\ UpTo(led'[t].log, t)
  <2>1. CASE led'[t].log = led[t].log
    <3>1. Rooted(led[t].log, led) /\ UpTo(led[t].log, t) /\ led[t].log \in Logs
      BY <1>t DEF LogsInv
    <3> QED BY <2>1, <3>1, RootedGrows
  <2> QED BY <2>1
<1>2. ASSUME NEW p \in Server, p # n
      PROVE  /\ Rooted(node'[p].log, led') /\ UpTo(node'[p].log, node'[p].term)
             /\ Rooted(node'[p].disk, led') /\ UpTo(node'[p].disk, node'[p].term)
             /\ node'[p].state = "CANDIDATE" => UpTo(node'[p].log, node'[p].term - 1)
             /\ node'[p].state = "LEADER" =>
                   /\ node'[p].log = led'[node'[p].term].log
                   /\ \A i \in node'[p].pending..Len(node'[p].log) :
                         node'[p].log[i] = node'[p].term
  <2>1. node'[p] = node[p] /\ node[p].log \in Logs /\ node[p].disk \in Logs
    BY <1>2, <1>t
  <2>2. /\ Rooted(node[p].log, led) /\ UpTo(node[p].log, node[p].term)
        /\ Rooted(node[p].disk, led) /\ UpTo(node[p].disk, node[p].term)
        /\ node[p].state = "CANDIDATE" => UpTo(node[p].log, node[p].term - 1)
        /\ node[p].state = "LEADER" =>
              /\ node[p].log = led[node[p].term].log
              /\ \A i \in node[p].pending..Len(node[p].log) :
                    node[p].log[i] = node[p].term
    BY DEF LogsInv
  <2>3. Rooted(node[p].log, led') /\ Rooted(node[p].disk, led')
    BY <2>1, <2>2, RootedGrows
  <2>4. node[p].state = "LEADER" => led'[node[p].term].log = led[node[p].term].log
    <3> SUFFICES ASSUME node[p].state = "LEADER"
                 PROVE  led'[node[p].term].log = led[node[p].term].log
      OBVIOUS
    <3>1. led[node[p].term].leader = p /\ node[p].term \in Term
      BY <1>t DEF LedInv
    <3>2. led'[node[p].term].leader = p
      BY <3>1, ServerAssumption DEF Grows
    <3> QED BY <3>1, <3>2, <1>2
  <2> QED BY <2>1, <2>2, <2>3, <2>4
<1>3. ASSUME NEW c \in closures'
      PROVE  /\ c.term <= node'[c.peer].term
             /\ c.committed <= c.last /\ c.committed <= led'[c.term].committed
             /\ c.term = node'[c.peer].term =>
                   Agree(node'[c.peer].log, led'[c.term].log, c.last)
  <2>1. CASE c.peer = n
    BY <2>1
  <2>2. CASE c.peer # n
    <3>1. c \in closures /\ c.peer \in Server /\ node'[c.peer] = node[c.peer]
      BY <2>2, <1>t
    <3>2. /\ c.term <= node[c.peer].term
          /\ c.committed <= c.last /\ c.committed <= led[c.term].committed
          /\ c.term = node[c.peer].term =>
                Agree(node[c.peer].log, led[c.term].log, c.last)
      BY <3>1 DEF LogsInv
    <3>3. c.term \in Term /\ c.last \in Nat /\ node[c.peer].log \in Logs
      BY <3>1, <1>t
    <3>4. c.committed <= led'[c.term].committed
      <4>1. led[c.term].committed <= led'[c.term].committed
        BY <3>3 DEF Grows
      <4> QED BY <4>1, <3>1, <3>2, <3>3, <1>t
    <3> QED BY <3>1, <3>2, <3>3, <3>4, AgreeGrows
  <2> QED BY <2>1, <2>2
<1> QED BY <1>1, <1>2, <1>3 DEF LogsInv

\* A step of the server n keeps CommitInv when its acknowledgements, commits
\* and commit index are in order.
LEMMA CommitStep ==
    ASSUME IInv, TypeOK', Grows, NEW n \in Server,
           \A p \in Server : p # n => node'[p] = node[p],
           \A t \in Term, p \in Server :
              acked'[t][p] = acked[t][p] \/ acked'[t][p] <= Len(led'[t].log),
           \A t \in Term :
              \/ led'[t].committed = led[t].committed
              \/ /\ led'[t].leader = n
                 /\ Backed(led'[t].log, led'[t].committed, t, led')
                 /\ OwnCommit(t, led) => OwnCommit(t, led')
                 /\ OwnCommit(t, led') => Granted(t, led[t].committed)',
           node'[n].state = "LEADER" =>
              led'[node'[n].term].committed = node'[n].committed,
           Backed(node'[n].log, node'[n].committed, node'[n].term, led'),
           \/ commits' = commits
           \/ \E c : /\ commits' = commits \union {c}
                     /\ Len(c.log) \in Own(c.term)'
                     /\ Len(c.log) <= led'[c.term].committed
                     /\ Agree(c.log, led'[c.term].log, Len(c.log))
    PROVE  CommitInv'
<1> USE DEF IInv
<1>t. Typed /\ Typed'
  BY Types, TypesNext
<1>1. ASSUME NEW t \in Term, NEW p \in Server
      PROVE  /\ acked'[t][p] <= Len(led'[t].log)
             /\ acked'[t][p] # 0 => t <= node'[p].term
  <2>1. /\ acked[t][p] <= Len(led[t].log)
        /\ acked[t][p] # 0 => t <= node[p].term
    BY DEF CommitInv
  <2>2. /\ Len(led[t].log) <= Len(led'[t].log)
        /\ node[p].term <= node'[p].term
        /\ acked'[t][p] = acked[t][p] \/ node'[p].term = t
    BY DEF Grows, Agree
  <2>3. /\ acked[t][p] \in Nat /\ Len(led[t].log) \in Nat /\ Len(led'[t].log) \in Nat
        /\ node[p].term \in Nat /\ node'[p].term \in Nat /\ t \in Nat
    BY <1>t
  <2> QED BY <2>1, <2>2, <2>3
<1>2. ASSUME NEW t \in Term, NEW i \in Own(t)
      PROVE  i \in Own(t)'
  <2>1. Len(led[t].log) \in Nat /\ Len(led'[t].log) \in Nat
    BY <1>t
  <2> QED BY <2>1 DEF Grows, Agree, Own
<1>o. ASSUME NEW t \in Term, led'[t].committed = led[t].committed
      PROVE  OwnCommit(t, led) <=> OwnCommit(t, led')
  <2>1. /\ Len(led[t].log) \in Nat /\ Len(led'[t].log) \in Nat /\ led[t].committed \in Nat
        /\ led[t].committed <= Len(led[t].log)
    BY <1>t, BackedFacts
  <2> QED BY <2>1, <1>o DEF Grows, Agree, OwnCommit
<1>b. \A t \in Term : OwnCommit(t, led) => OwnCommit(t, led')
  BY <1>o
<1>3. ASSUME NEW t \in Term
      PROVE  /\ Backed(led'[t].log, led'[t].committed, t, led')
             /\ OwnCommit(t, led') => Granted(t, led[t].committed)'
  <2>1. CASE led'[t].committed = led[t].committed
    <3>1. /\ Backed(led[t].log, led[t].committed, t, led)
          /\ OwnCommit(t, led) => Granted(t, led[t].committed)
          /\ led[t].log \in Logs /\ led[t].committed \in Nat /\ t \in Nat
      BY <1>t DEF CommitInv
    <3>2. Backed(led[t].log, led[t].committed, t, led')
      BY <3>1, <1>b, BackedGrows
    <3>3. Agree(led'[t].log, led[t].log, led[t].committed)
      <4>1. Agree(led[t].log, led'[t].log, Len(led[t].log)) /\ led[t].committed <= Len(led[t].log)
        BY BackedFacts DEF Grows
      <4>2. Len(led[t].log) \in Nat /\ led'[t].log \in Logs
        BY <1>t
      <4>3. Agree(led[t].log, led'[t].log, led[t].committed)
        BY <3>1, <4>1, <4>2, AgreeFacts
      <4> QED BY <3>1, <4>2, <4>3, AgreeFacts
    <3>5. Backed(led'[t].log, led'[t].committed, t, led')
      <4> SUFFICES ASSUME led[t].committed # 0
                   PROVE  \E u \in Term : /\ u <= t /\ OwnCommit(u, led')
                             /\ led[t].committed <= led'[u].committed
                             /\ Agree(led'[t].log, led'[u].log, led[t].committed)
        BY <2>1 DEF Backed
      <4>1. PICK u \in Term : /\ u <= t /\ OwnCommit(u, led')
                              /\ led[t].committed <= led'[u].committed
                              /\ Agree(led[t].log, led'[u].log, led[t].committed)
        BY <3>2 DEF Backed
      <4>2. led'[t].log \in Logs /\ led'[u].log \in Logs
        BY <1>t
      <4>3. Agree(led'[t].log, led'[u].log, led[t].committed)
        BY <3>1, <3>3, <4>1, <4>2, AgreeFacts
      <4> QED BY <4>1, <4>3
    <3>6. ASSUME OwnCommit(t, led') PROVE Granted(t, led[t].committed)'
      <4>1. Granted(t, led[t].committed)
        BY <2>1, <3>1, <3>6, <1>o
      <4>2. {p \in Server : acked[t][p] >= led[t].committed}
               \subseteq {p \in Server : acked'[t][p] >= led'[t].committed}
        BY <2>1, <1>t DEF Grows
      <4>3. Majority({p \in Server : acked'[t][p] >= led'[t].committed})
        BY <4>1, <4>2, MajorityGrows DEF Granted
      <4> QED BY <4>3 DEF Granted, Majority
    <3> QED BY <3>5, <3>6
  <2> QED BY <2>1
<1>4. ASSUME NEW p \in Server, node'[p].state = "LEADER"
      PROVE  led'[node'[p].term].committed = node'[p].committed
  <2>1. CASE p # n
    <3>1. node'[p] = node[p] /\ node[p].term \in Term
      BY <2>1, <1>t
    <3>2. led[node[p].term].leader = p
      BY <3>1, <1>4 DEF LedInv
    <3>3. led'[node[p].term].leader = p
      BY <3>1, <3>2, ServerAssumption DEF Grows
    <3> QED BY <3>1, <3>3, <2>1, <1>4 DEF CommitInv
  <2> QED BY <2>1, <1>4
<1>5. ASSUME NEW p \in Server
      PROVE  Backed(node'[p].log, node'[p].committed, node'[p].term, led')
  <2>1. CASE p # n
    <3>1. /\ node'[p] = node[p] /\ node[p].log \in Logs /\ node[p].committed \in Nat
          /\ node[p].term \in Nat
      BY <2>1, <1>t
    <3>2. Backed(node[p].log, node[p].committed, node[p].term, led)
      BY DEF CommitInv
    <3> QED BY <3>1, <3>2, <1>b, BackedGrows
  <2> QED BY <2>1
<1>6. ASSUME NEW c \in commits
      PROVE  /\ Len(c.log) \in Own(c.term)'
             /\ Len(c.log) <= led'[c.term].committed
             /\ Agree(c.log, led'[c.term].log, Len(c.log))
  <2>1. c.term \in Term /\ c.log \in Logs /\ Len(c.log) \in Nat
    BY <1>t, LogType
  <2>2. /\ Len(c.log) \in Own(c.term)
        /\ Len(c.log) <= led[c.term].committed
        /\ Agree(c.log, led[c.term].log, Len(c.log))
    BY DEF CommitInv
  <2>3. Len(c.log) <= led'[c.term].committed
    BY <2>1, <2>2, <1>t DEF Grows
  <2> QED BY <2>1, <2>2, <2>3, <1>2, AgreeGrows
<1>7. commits' # {} => \E c \in commits' : \A d \in commits' : Len(d.log) <= Len(c.log)
  <2>1. CASE commits' = commits
    BY <2>1 DEF CommitInv
  <2>2. ASSUME NEW c, commits' = commits \union {c}
        PROVE  \E b \in commits' : \A d \in commits' : Len(d.log) <= Len(b.log)
    <3>1. \A d \in commits' : Len(d.log) \in Nat
      BY <1>t, LogType
    <3>2. CASE commits = {}
      BY <2>2, <3>1, <3>2
    <3>3. CASE commits # {}
      <4>1. PICK b \in commits : \A d \in commits : Len(d.log) <= Len(b.log)
        BY <3>3 DEF CommitInv
      <4>2. CASE Len(c.log) <= Len(b.log)
        BY <2>2, <4>1, <4>2
      <4>3. CASE Len(c.log) > Len(b.log)
        <5>1. c \in commits' /\ b \in commits' /\ commits \subseteq commits'
          BY <2>2
        <5>2. Len(b.log) \in Nat /\ Len(c.log) \in Nat
          BY <3>1, <5>1
        <5>3. ASSUME NEW d \in commits' PROVE Len(d.log) <= Len(c.log)
          <6>1. CASE d \in commits
            BY <3>1, <4>1, <4>3, <5>1, <5>2, <6>1
          <6> QED BY <2>2, <5>2, <6>1
        <5> QED BY <5>1, <5>3
      <4> QED BY <2>2, <3>1, <4>1, <4>2, <4>3
    <3> QED BY <3>2, <3>3
  <2> QED BY <2>1, <2>2
<1> QED BY <1>1, <1>3, <1>4, <1>5, <1>6, <1>7 DEF CommitInv

-----------------------------------------------------------------------------
(* The operators of the steps.                                             *)

\* step_down keeps the logs and the commit index, and the vote of its term.
LEMMA StepDownFacts ==
    ASSUME NEW x \in Node, NEW t \in Term, t >= x.term
    PROVE  /\ StepDown(x, t) \in Node
           /\ StepDown(x, t).state = "FOLLOWER" /\ StepDown(x, t).term = t
           /\ StepDown(x, t).voted = IF t > x.term THEN NONE ELSE x.voted
           /\ StepDown(x, t).log = x.log /\ StepDown(x, t).disk = x.disk
           /\ StepDown(x, t).pending = 0 /\ StepDown(x, t).committed = x.committed
<1>1. StepDown(x, t).voted = IF t > x.term THEN NONE ELSE x.voted
  BY DEF StepDown, Node
<1>2. /\ x.voted \in Server \union {NONE} /\ 0 \in 0..MaxLog + 1
  BY BoundAssumption DEF Node
<1>3. StepDown(x, t) \in Node
  BY <1>2 DEF StepDown, Node
<1>4. /\ StepDown(x, t).state = "FOLLOWER" /\ StepDown(x, t).term = t
      /\ StepDown(x, t).log = x.log /\ StepDown(x, t).disk = x.disk
      /\ StepDown(x, t).pending = 0 /\ StepDown(x, t).committed = x.committed
  BY DEF StepDown, Node
<1> QED BY <1>1, <1>3, <1>4

\* The nodes have their types when the one that changes has.
LEMMA NodeType ==
    ASSUME TypeOK, NEW n \in Server, NEW y \in Node, Update(n, y),
           y.committed <= Len(y.log),
           y.pending # 0 =>
              /\ y.state = "LEADER"
              /\ y.pending \in y.committed + 1..Len(y.log) + 1
    PROVE  /\ node'[n] = y /\ \A p \in Server : p # n => node'[p] = node[p]
           /\ node' \in [Server -> Node]
           /\ \A p \in Server :
                 /\ node'[p].committed <= Len(node'[p].log)
                 /\ node'[p].pending # 0 =>
                       /\ node'[p].state = "LEADER"
                       /\ node'[p].pending \in node'[p].committed + 1..Len(node'[p].log) + 1
<1>1. node \in [Server -> Node] /\ node' = [node EXCEPT ![n] = y]
  BY DEF TypeOK, Update
<1>2. node'[n] = y /\ \A p \in Server : p # n => node'[p] = node[p]
  BY <1>1
<1>3. node' \in [Server -> Node]
  BY <1>1
<1>4. ASSUME NEW p \in Server
      PROVE  /\ node'[p].committed <= Len(node'[p].log)
             /\ node'[p].pending # 0 =>
                   /\ node'[p].state = "LEADER"
                   /\ node'[p].pending \in node'[p].committed + 1..Len(node'[p].log) + 1
  <2>1. CASE p = n
    BY <2>1, <1>2
  <2>2. CASE p # n
    BY <2>2, <1>2 DEF TypeOK
  <2> QED BY <2>1, <2>2
<1> QED BY <1>2, <1>3, <1>4

\* A bound on the terms of a log, and on the terms before it.
LEMMA UpToGrows ==
    ASSUME NEW l \in Logs, NEW s \in Int, NEW t \in Int, s <= t, UpTo(l, s)
    PROVE  UpTo(l, t)
<1>1. \A i \in 1..Len(l) : l[i] \in Nat
  BY LogType, BoundAssumption DEF Term
<1> QED BY <1>1 DEF UpTo

\* A step of the server n that leaves logs, closures, leaderships,
\* acknowledgements and commits alone.
Quiet(n) ==
    /\ \A p \in Server : p # n => node'[p] = node[p]
    /\ node'[n].log = node[n].log /\ node'[n].disk = node[n].disk
    /\ node'[n].committed = node[n].committed
    /\ node[n].term <= node'[n].term
    /\ led' = led /\ closures' = closures /\ acked' = acked /\ commits' = commits
    /\ grants \subseteq grants'
    /\ node'[n].state # "LEADER"
    /\ node'[n].state = "CANDIDATE" =>
          \/ node[n].state = "CANDIDATE" /\ node'[n].term = node[n].term
          \/ node[n].term < node'[n].term

\* Nothing is taken back in such a step.
LEMMA QuietGrows ==
    ASSUME TypeOK, TypeOK', NEW n \in Server, Quiet(n)
    PROVE  Grows
<1>t. Typed /\ Typed'
  BY Types, TypesNext
<1>1. \A p \in Server : node[p].term <= node'[p].term
  BY <1>t DEF Quiet
<1>2. \A t \in Term : Agree(led[t].log, led'[t].log, Len(led[t].log))
  BY <1>t DEF Quiet, Agree
<1>3. ASSUME NEW p \in Server, NEW t \in Term,
             node'[p].state = "CANDIDATE", node'[p].term = t
      PROVE  \/ Running(p, t) /\ node'[p].log = node[p].log
             \/ node[p].term < t
  <2>1. CASE p = n
    BY <2>1, <1>3 DEF Quiet, Running
  <2>2. CASE p # n
    BY <2>2, <1>3 DEF Quiet, Running
  <2> QED BY <2>1, <2>2
<1> QED BY <1>1, <1>2, <1>3, <1>t DEF Quiet, Grows

\* It keeps the logs and the commits in order.
LEMMA QuietLogs ==
    ASSUME IInv, TypeOK', NEW n \in Server, Quiet(n),
           node'[n].state = "CANDIDATE" /\ node[n].term < node'[n].term =>
              UpTo(node'[n].log, node'[n].term - 1)
    PROVE  LogsInv' /\ CommitInv'
<1> USE DEF IInv
<1>t. Typed /\ Typed'
  BY Types, TypesNext
<1>g. Grows
  BY QuietGrows
<1>1. /\ Rooted(node'[n].log, led') /\ UpTo(node'[n].log, node'[n].term)
      /\ Rooted(node'[n].disk, led') /\ UpTo(node'[n].disk, node'[n].term)
  <2>1. /\ Rooted(node[n].log, led) /\ UpTo(node[n].log, node[n].term)
        /\ Rooted(node[n].disk, led) /\ UpTo(node[n].disk, node[n].term)
    BY DEF LogsInv
  <2> QED BY <2>1, <1>t, UpToGrows DEF Quiet
<1>2. node'[n].state = "CANDIDATE" => UpTo(node'[n].log, node'[n].term - 1)
  BY DEF Quiet, LogsInv
<1>3. ASSUME NEW c \in closures', c.peer = n
      PROVE  /\ c.term <= node'[n].term
             /\ c.committed <= c.last /\ c.committed <= led'[c.term].committed
             /\ c.term = node'[n].term =>
                   Agree(node'[n].log, led'[c.term].log, c.last)
  <2>1. /\ c.term <= node[n].term
        /\ c.committed <= c.last /\ c.committed <= led[c.term].committed
        /\ c.term = node[n].term => Agree(node[n].log, led[c.term].log, c.last)
    BY <1>3 DEF Quiet, LogsInv
  <2>2. c.term \in Nat /\ node[n].term \in Nat /\ node'[n].term \in Nat
    BY <1>t
  <2> QED BY <2>1, <2>2 DEF Quiet
<1>4. LogsInv'
  BY <1>g, <1>1, <1>2, <1>3, LogsStep DEF Quiet, LogsInv
<1>5. Backed(node'[n].log, node'[n].committed, node'[n].term, led')
  <2>1. /\ Backed(node[n].log, node[n].committed, node[n].term, led)
        /\ node[n].term \in Nat /\ node'[n].term \in Nat
    BY <1>t DEF CommitInv
  <2>2. \A u \in Term : u <= node[n].term => u <= node'[n].term
    BY <2>1, <1>t DEF Quiet
  <2> QED BY <2>1, <2>2 DEF Quiet, Backed
<1>6. CommitInv'
  BY <1>g, <1>5, CommitStep DEF Quiet
<1> QED BY <1>4, <1>6

\* What keeps SafeInv when leaderships and acknowledgements stay as they are.
LEMMA SafeQuiet ==
    ASSUME IInv, TypeOK', Grows, led' = led, acked' = acked,
           \A t \in Term, p \in Server : \A i \in Own(t) :
              Keeps(p, t, i) => Keeps(p, t, i)' \/ Dead(t, i)
    PROVE  SafeInv'
<1>1. \A t \in Term : Own(t)' = Own(t) /\ \A i \in Own(t) : i <= Len(led[t].log)
  BY Types DEF Own, IInv
<1> QED BY <1>1, Types, SafeStep DEF IInv, Own

-----------------------------------------------------------------------------
(* The steps of elections.                                                 *)

\* The last log id of a log, and its term.
LEMMA LastIdFacts ==
    ASSUME NEW l \in Logs
    PROVE  /\ LastId(l) \in LogId
           /\ LastId(l).index = Len(l) /\ LastId(l).term = LastTerm(l)
           /\ Len(l) = 0 => LastTerm(l) = 0
           /\ Len(l) # 0 => LastTerm(l) = l[Len(l)] /\ LastTerm(l) \in Term
<1>1. l \in Seq(Term) /\ Len(l) \in 0..MaxLog
  BY LogType
<1>2. CASE Len(l) = 0
  <2>1. l = <<>>
    BY <1>1, <1>2, EmptySeq
  <2>2. LastTerm(l) = 0
    BY <2>1 DEF LastTerm
  <2> QED BY <1>1, <1>2, <2>2, BoundAssumption DEF LastId, LogId
<1>3. CASE Len(l) # 0
  <2>1. l # <<>>
    BY <1>3, LogType
  <2>2. LastTerm(l) = l[Len(l)]
    BY <2>1 DEF LastTerm, Last
  <2>3. l[Len(l)] \in Term
    BY <1>1, <1>3, LogType
  <2> QED BY <1>1, <1>3, <2>2, <2>3 DEF LastId, LogId, Term
<1> QED BY <1>2, <1>3

\* step_down, to a higher term or within the term, keeps the invariant.
LEMMA StepDownKeeps ==
    ASSUME IInv, NEW n \in Server, NEW u \in Term, u >= node[n].term,
           Update(n, StepDown(node[n], u)),
           UNCHANGED <<led, closures, acked, requests, voting, grants, commits, crashes>>
    PROVE  IInv'
<1> DEFINE y == StepDown(node[n], u)
<1> USE DEF IInv
<1>t. Typed
  BY Types
<1>1. /\ u >= node[n].term /\ Update(n, y)
      /\ UNCHANGED <<led, closures, acked, requests, voting, grants, commits, crashes>>
  OBVIOUS
<1>2. /\ y \in Node /\ y.state = "FOLLOWER" /\ y.term = u
      /\ y.voted = (IF u > node[n].term THEN NONE ELSE node[n].voted)
      /\ y.log = node[n].log /\ y.disk = node[n].disk
      /\ y.pending = 0 /\ y.committed = node[n].committed
  BY <1>1, <1>t, StepDownFacts
<1>3. y.committed <= Len(y.log)
  BY <1>2 DEF TypeOK
<1> HIDE DEF y
<1>4. TypeOK'
  BY <1>1, <1>2, <1>3, NodeType DEF TypeOK
<1>5. node'[n] = y /\ \A p \in Server : p # n => node'[p] = node[p]
  BY <1>1, <1>2, <1>3, NodeType
<1>6. Quiet(n)
  BY <1>1, <1>2, <1>5, <1>t DEF Quiet
<1>7. Calm
  BY <1>1, <1>2, <1>5, <1>t DEF Calm
<1>8. VotesInv'
  BY <1>4, <1>7, VotesCalm
<1>9. LedInv'
  BY <1>1, <1>2, <1>4, <1>5, <1>7, LedCalm DEF LedInv
<1>10. LogsInv' /\ CommitInv' /\ Grows
  BY <1>2, <1>4, <1>5, <1>6, QuietLogs, QuietGrows
<1>11. ASSUME NEW t \in Term, NEW p \in Server, NEW i \in Own(t), Keeps(p, t, i)
       PROVE  Keeps(p, t, i)'
  <2>1. node'[p].log = node[p].log /\ node'[p].disk = node[p].disk
    BY <1>2, <1>5
  <2> QED BY <1>1, <1>4, <1>10, <1>11, <2>1, KeepsStep DEF Keeps
<1>12. SafeInv'
  BY <1>1, <1>4, <1>10, <1>11, SafeQuiet
<1> QED BY <1>4, <1>8, <1>9, <1>10, <1>12

\* An answer of a higher term keeps the invariant: increase_term_to.
LEMMA IncreaseTermToKeeps ==
    ASSUME IInv, NEW n \in Server, NEW m \in Server, IncreaseTermTo(n, m)
    PROVE  IInv'
<1>1. node[m].term \in Term /\ node[m].term \in Nat /\ node[n].term \in Nat
  BY Types DEF IInv
<1> QED BY <1>1, StepDownKeeps DEF IncreaseTermTo

\* elect_self keeps the invariant: its term is new, so no vote and no leader
\* has to do with it yet.
LEMMA ElectSelfKeeps ==
    ASSUME IInv, NEW n \in Server, ElectSelf(n)
    PROVE  IInv'
<1> DEFINE x == node[n]
           y == [x EXCEPT !.state = "CANDIDATE", !.term = @ + 1, !.voted = n]
           q == [cand |-> n, term |-> x.term + 1, last |-> LastId(x.log)]
<1> USE DEF IInv
<1>t. Typed
  BY Types
<1>1. /\ x.state # "LEADER" /\ x.term < MaxTerm /\ Update(n, y)
      /\ requests' = requests \union {q}
      /\ UNCHANGED <<led, closures, acked, voting, grants, commits, crashes>>
  BY DEF ElectSelf
<1>2. /\ y \in Node /\ y.state = "CANDIDATE" /\ y.term = x.term + 1
      /\ y.voted = n /\ y.log = x.log /\ y.disk = x.disk
      /\ y.pending = x.pending /\ y.committed = x.committed
  <2>1. x \in Node /\ x.term + 1 \in Term
    BY <1>1, <1>t, BoundAssumption DEF Term
  <2> QED BY <2>1 DEF Node
<1>3. /\ y.committed <= Len(y.log) /\ x.pending = 0
      /\ x.term + 1 \in Term /\ x.log \in Logs
  <2>1. y.committed <= Len(y.log) /\ x.pending = 0
    BY <1>1, <1>2 DEF TypeOK
  <2> QED BY <1>1, <1>t, <2>1, BoundAssumption DEF Term
<1>q. q \in Request /\ q.cand = n /\ q.term = x.term + 1 /\ q.last = LastId(x.log)
  BY <1>3, LastIdFacts DEF Request
<1> HIDE DEF y, q
<1>4. TypeOK'
  <2>1. requests' \subseteq Request
    BY <1>1, <1>q DEF TypeOK
  <2> QED BY <1>1, <1>2, <1>3, <2>1, NodeType DEF TypeOK
<1>5. node'[n] = y /\ \A p \in Server : p # n => node'[p] = node[p]
  BY <1>1, <1>2, <1>3, NodeType
<1>t2. Typed'
  BY <1>4, TypesNext
<1>6. Quiet(n)
  BY <1>1, <1>2, <1>5, <1>t DEF Quiet
<1>8. VotesInv'
  <2>1. \A p \in Server : node'[p].state # "FOLLOWER" => node'[p].voted = p
    BY <1>2, <1>5 DEF VotesInv
  <2>2. ASSUME NEW r \in requests'
        PROVE  /\ r.term <= node'[r.cand].term
               /\ Running(r.cand, r.term)' => r.last = LastId(node'[r.cand].log)
    <3>1. CASE r = q
      BY <3>1, <1>q, <1>2, <1>5, <1>t
    <3>2. CASE r \in requests
      <4>1. /\ r.term <= node[r.cand].term
            /\ Running(r.cand, r.term) => r.last = LastId(node[r.cand].log)
        BY <3>2 DEF VotesInv
      <4>2. r.cand \in Server /\ r.term \in Nat
        BY <3>2, <1>t
      <4>3. CASE r.cand = n
        BY <4>1, <4>2, <4>3, <1>2, <1>5, <1>t DEF Running
      <4>4. CASE r.cand # n
        BY <4>1, <4>2, <4>4, <1>5 DEF Running
      <4> QED BY <4>3, <4>4
    <3> QED BY <3>1, <3>2, <1>1
  <2>3. ASSUME NEW g \in grants'
        PROVE  /\ g.voter # g.cand
               /\ g.term <= node'[g.cand].term /\ g.term <= node'[g.voter].term
               /\ g.term = node'[g.voter].term => node'[g.voter].voted = g.cand
    <3>1. /\ g.voter # g.cand
          /\ g.term <= node[g.cand].term /\ g.term <= node[g.voter].term
          /\ g.term = node[g.voter].term => node[g.voter].voted = g.cand
      BY <1>1 DEF VotesInv
    <3>2. g.cand \in Server /\ g.voter \in Server /\ g.term \in Nat
      BY <1>1, <1>t
    <3> QED BY <3>1, <3>2, <1>2, <1>5, <1>t
  <2>4. /\ \A g, h \in grants' : g.voter = h.voter /\ g.term = h.term => g = h
        /\ \A p \in Server : node'[p].voted \notin {NONE, p} =>
              [voter |-> p, cand |-> node'[p].voted, term |-> node'[p].term] \in grants'
    BY <1>1, <1>2, <1>5 DEF VotesInv
  <2> QED BY <2>1, <2>2, <2>3, <2>4 DEF VotesInv
<1>9. LedInv'
  <2>1. \A p \in Server : node'[p].state = "LEADER" =>
           led'[node'[p].term].leader = p /\ node'[p].pending # 0
    BY <1>1, <1>2, <1>5 DEF LedInv
  <2>2. ASSUME NEW t \in Term, NEW m \in Server, m = led'[t].leader, m # NONE
        PROVE  /\ node'[m].term >= t
               /\ node'[m].term = t => node'[m].voted = m /\ node'[m].state # "CANDIDATE"
               /\ \A g \in grants' : g.voter = m => g.term # t
               /\ Majority(Granting(m, t))'
    <3>1. /\ node[m].term >= t
          /\ node[m].term = t => node[m].voted = m /\ node[m].state # "CANDIDATE"
          /\ \A g \in grants : g.voter = m => g.term # t
          /\ Majority(Granting(m, t))
      BY <1>1, <2>2 DEF LedInv
    <3>2. node[m].term \in Nat /\ t \in Nat /\ node[n].term \in Nat
      BY <1>t
    <3>3. Majority(Granting(m, t))'
      BY <3>1, <1>1, <1>4, GrantingGrows
    <3> QED BY <3>1, <3>2, <3>3, <1>1, <1>2, <1>5
  <2>3. \A t \in Term : /\ led'[t].leader \in Server \union {NONE}
                        /\ led'[t].leader = NONE => led'[t].log = <<>> /\ led'[t].committed = 0
    BY <1>1, <1>t DEF LedInv
  <2> QED BY <2>1, <2>2, <2>3 DEF LedInv
<1>10. LogsInv' /\ CommitInv' /\ Grows
  <2>1. UpTo(node'[n].log, node'[n].term - 1)
    BY <1>2, <1>5, <1>t DEF LogsInv
  <2> QED BY <2>1, <1>4, <1>6, QuietLogs, QuietGrows
<1>11. ASSUME NEW t \in Term, NEW p \in Server, NEW i \in Own(t), Keeps(p, t, i)
       PROVE  Keeps(p, t, i)'
  <2>1. node'[p].log = node[p].log /\ node'[p].disk = node[p].disk
    BY <1>2, <1>5
  <2> QED BY <1>1, <1>4, <1>10, <1>11, <2>1, KeepsStep DEF Keeps
<1>12. SafeInv'
  BY <1>1, <1>4, <1>10, <1>11, SafeQuiet
<1> QED BY <1>4, <1>8, <1>9, <1>10, <1>12

\* Nothing happens.
LEMMA StutterKeeps ==
    ASSUME IInv, UNCHANGED vars
    PROVE  IInv'
<1> USE DEF vars
<1>1. TypeOK'
  BY DEF IInv, TypeOK
<1>2. VotesInv'
  BY DEF IInv, VotesInv, Running
<1>6. LedInv'
  <2>1. \A t \in Term, n \in Server : Majority(Granting(n, t))' = Majority(Granting(n, t))
    BY DEF Granting, Majority
  <2>2. \A t \in Term : led[t].leader \in Server \union {NONE}
    BY Types DEF IInv
  <2> QED BY <2>1, <2>2 DEF IInv, LedInv
<1>3. LogsInv'
  <2>1. \A l : Rooted(l, led)' = Rooted(l, led)
    BY DEF Rooted, Agree
  <2>2. \A t \in Term : Rooted(led'[t].log, led') /\ UpTo(led'[t].log, t)
    BY <2>1 DEF IInv, LogsInv
  <2>3. \A n \in Server :
           /\ Rooted(node'[n].log, led') /\ UpTo(node'[n].log, node'[n].term)
           /\ Rooted(node'[n].disk, led') /\ UpTo(node'[n].disk, node'[n].term)
    BY <2>1 DEF IInv, LogsInv
  <2>4. \A n \in Server :
           /\ node'[n].state = "CANDIDATE" => UpTo(node'[n].log, node'[n].term - 1)
           /\ node'[n].state = "LEADER" =>
                 /\ node'[n].log = led'[node'[n].term].log
                 /\ \A i \in node'[n].pending..Len(node'[n].log) :
                       node'[n].log[i] = node'[n].term
    BY DEF IInv, LogsInv
  <2>5. \A c \in closures' :
           /\ c.term <= node'[c.peer].term
           /\ c.committed <= c.last /\ c.committed <= led'[c.term].committed
           /\ c.term = node'[c.peer].term =>
                 Agree(node'[c.peer].log, led'[c.term].log, c.last)
    BY DEF IInv, LogsInv
  <2>6. \A c, d \in closures' : c.peer = d.peer /\ c.term = d.term => c = d
    BY DEF IInv, LogsInv
  <2> QED BY <2>2, <2>3, <2>4, <2>5, <2>6 DEF LogsInv
<1>4. CommitInv'
  <2>1. \A t \in Term : Own(t)' = Own(t) /\ Granted(t, led[t].committed)' = Granted(t, led[t].committed)
    BY DEF Own, Granted, Majority
  <2>2. \A c \in commits : c.term \in Term
    BY Types DEF IInv
  <2>3. /\ \A t : OwnCommit(t, led') = OwnCommit(t, led)
        /\ \A l, i, t : Backed(l, i, t, led') = Backed(l, i, t, led)
    BY DEF OwnCommit, Backed
  <2> QED BY <2>1, <2>2, <2>3 DEF IInv, CommitInv
<1>5. SafeInv'
  <2>1. \A t \in Term : Own(t)' = Own(t)
    BY DEF Own
  <2>2. \A t \in Term, i \in Nat : Dead(t, i)' = Dead(t, i)
    BY DEF Dead, Majority
  <2>3. \A t \in Term, i \in Nat, p \in Server : Keeps(p, t, i)' = Keeps(p, t, i)
    BY DEF Keeps, Running, Agree
  <2>4. \A t \in Term, i \in Nat :
           Majority({p \in Server : Keeps(p, t, i)})' = Majority({p \in Server : Keeps(p, t, i)})
    BY <2>3 DEF Majority
  <2>5. \A t \in Term : \A i \in Own(t) : i \in Nat
    BY Types DEF IInv, Own
  <2> SUFFICES ASSUME NEW t \in Term, NEW i \in Own(t)
               PROVE  /\ i <= led'[t].committed =>
                            Majority({p \in Server : Keeps(p, t, i)})'
                      /\ i > led'[t].committed =>
                            \A p \in Server : acked'[t][p] >= i =>
                               Keeps(p, t, i)' \/ Dead(t, i)'
                      /\ \A u \in Term : u > t /\ led'[u].leader # NONE =>
                            Agree(led'[u].log, led'[t].log, i) \/ Dead(t, i)'
    BY <2>1 DEF SafeInv
  <2>6. /\ i <= led[t].committed => Majority({p \in Server : Keeps(p, t, i)})
        /\ i > led[t].committed =>
              \A p \in Server : acked[t][p] >= i => Keeps(p, t, i) \/ Dead(t, i)
        /\ \A u \in Term : u > t /\ led[u].leader # NONE =>
              Agree(led[u].log, led[t].log, i) \/ Dead(t, i)
    BY DEF IInv, SafeInv
  <2> QED BY <2>2, <2>3, <2>4, <2>5, <2>6
<1> QED BY <1>1, <1>2, <1>3, <1>4, <1>5, <1>6 DEF IInv

\* The test of the last log id: a log that is not older than one with the
\* entry i of the leader of term t has it too, unless it is dead.
LEMMA VoteSafe ==
    ASSUME IInv, NEW t \in Term, NEW i \in Own(t), NEW l \in Logs, NEW m \in Logs,
           Rooted(l, led), Rooted(m, led), Agree(l, led[t].log, i),
           LogIsOk(LastId(m), LastId(l))
    PROVE  Agree(m, led[t].log, i) \/ Dead(t, i)
<1> DEFINE a == LastTerm(m)
           b == LastTerm(l)
<1> USE DEF IInv
<1>t. Typed
  BY Types
<1>1. /\ i \in 1..Len(led[t].log) /\ led[t].log[i] = t /\ led[t].log \in Logs
      /\ i <= Len(l) /\ l[i] = t
      /\ Len(l) \in Nat /\ Len(m) \in Nat /\ Len(led[t].log) \in Nat /\ t \in Nat
  <2>1. i \in 1..Len(led[t].log) /\ led[t].log[i] = t
    BY DEF Own
  <2>2. i <= Len(l) /\ \A j \in 1..i : l[j] = led[t].log[j]
    BY DEF Agree
  <2>3. /\ led[t].log \in Logs /\ Len(led[t].log) \in Nat /\ t \in Nat
        /\ Len(l) \in Nat /\ Len(m) \in Nat
    BY <1>t, LogType
  <2> QED BY <2>1, <2>2, <2>3
<1>2. b = l[Len(l)] /\ b \in Term /\ Agree(l, led[b].log, Len(l)) /\ t <= b
  <2>1. b = l[Len(l)] /\ b \in Term
    BY <1>1, LastIdFacts
  <2>2. Agree(l, led[b].log, Len(l))
    BY <1>1, <2>1 DEF Rooted
  <2>3. led[b].log[i] = t /\ i \in 1..Len(led[b].log)
    BY <1>1, <2>1, <2>2, <1>t DEF Agree
  <2> QED BY <2>1, <2>2, <2>3 DEF LogsInv, UpTo
<1>3. a > b \/ (a = b /\ Len(m) >= Len(l))
  BY LastIdFacts DEF LogIsOk
<1>4. a = m[Len(m)] /\ a \in Term /\ Len(m) # 0 /\ Agree(m, led[a].log, Len(m))
  <2>1. a \in Nat /\ b \in Nat /\ b > 0
    BY <1>2, LastIdFacts, BoundAssumption DEF Term
  <2>2. Len(m) # 0
    BY <2>1, <1>3, LastIdFacts
  <2>3. a = m[Len(m)] /\ a \in Term
    BY <2>2, LastIdFacts
  <2> QED BY <1>1, <2>2, <2>3 DEF Rooted
<1> HIDE DEF a, b
<1>5. CASE a = b /\ Len(m) >= Len(l)
  BY <1>1, <1>2, <1>4, <1>5 DEF Agree
<1>6. CASE a > b
  <2>1. a > t /\ led[a].leader # NONE /\ led[a].log \in Logs
    <3>1. Len(led[a].log) # 0
      BY <1>1, <1>4, <1>t DEF Agree
    <3>2. led[a].log # <<>>
      BY <3>1, LogType
    <3> QED BY <3>2, <1>1, <1>2, <1>4, <1>6, <1>t DEF LedInv
  <2>2. Agree(led[a].log, led[t].log, i) \/ Dead(t, i)
    BY <2>1, <1>4 DEF SafeInv
  <2>3. ASSUME Agree(led[a].log, led[t].log, i) PROVE i <= Len(m)
    <3> SUFFICES ASSUME Len(m) < i PROVE FALSE
      BY <1>1
    <3>1. Len(m) \in 1..i /\ Len(m) \in 1..Len(led[t].log)
      BY <1>1, <1>4
    <3>2. m[Len(m)] = led[t].log[Len(m)]
      BY <2>3, <3>1, <1>4 DEF Agree
    <3>3. led[t].log[Len(m)] <= t
      BY <3>1 DEF LogsInv, UpTo
    <3> QED BY <3>2, <3>3, <2>1, <1>1, <1>4, <1>t
  <2>4. ASSUME Agree(led[a].log, led[t].log, i) PROVE Agree(m, led[t].log, i)
    <3>1. i <= Len(m)
      BY <2>3, <2>4
    <3> QED BY <3>1, <2>4, <1>1, <1>4 DEF Agree
  <2> QED BY <2>2, <2>4
<1> QED BY <1>3, <1>5, <1>6

\* What a call of handle_request_vote_request comes to: nothing, a step down,
\* or the first vote of the term.
LEMMA VoteFacts ==
    ASSUME IInv, NEW n \in Server, NEW r \in requests, HandleRequestVoteRequest(n, r)
    PROVE  \/ UNCHANGED vars
           \/ /\ r.term > node[n].term /\ Update(n, StepDown(node[n], r.term))
              /\ UNCHANGED <<led, closures, acked, requests, voting, grants, commits, crashes>>
           \/ \E y \in Node :
                 /\ LogIsOk(r.last, LastId(node[n].log))
                 /\ r.term > node[n].term \/ node[n].voted = NONE
                 /\ y.state = "FOLLOWER" /\ y.term = r.term /\ y.voted = r.cand
                 /\ y.log = node[n].log /\ y.disk = node[n].disk
                 /\ y.pending = 0 /\ y.committed = node[n].committed
                 /\ Update(n, y)
                 /\ grants' = grants \union {[voter |-> n, cand |-> r.cand, term |-> r.term]}
                 /\ UNCHANGED <<led, closures, acked, requests, voting, commits, crashes>>
<1> DEFINE x == node[n]
           z == IF r.term > x.term THEN StepDown(x, r.term) ELSE x
           y == [StepDown(z, r.term) EXCEPT !.voted = r.cand]
           g == [voter |-> n, cand |-> r.cand, term |-> r.term]
<1>t. Typed
  BY Types DEF IInv
<1>1. /\ n # r.cand /\ r.term >= x.term
      /\ Respond(n, r, Vote(x, r, LastId(x.log)))
      /\ UNCHANGED <<led, closures, acked, requests, voting, commits, crashes>>
  BY DEF HandleRequestVoteRequest
<1>2. x \in Node /\ r.term \in Term /\ r.cand \in Server /\ r.cand # NONE /\ x.term \in Nat
      /\ r.term \in Nat
  BY <1>t, ServerAssumption
<1>3. /\ z \in Node /\ z.term = r.term /\ z.log = x.log /\ z.disk = x.disk
      /\ z.committed = x.committed
      /\ z.voted = IF r.term > x.term THEN NONE ELSE x.voted
  BY <1>1, <1>2, StepDownFacts
<1>4. CASE LogIsOk(r.last, LastId(x.log)) /\ z.voted = NONE
  <2>1. Vote(x, r, LastId(x.log)) = y
    BY <1>4 DEF Vote
  <2>2. /\ StepDown(z, r.term) \in Node
        /\ StepDown(z, r.term).state = "FOLLOWER" /\ StepDown(z, r.term).term = r.term
        /\ StepDown(z, r.term).log = z.log /\ StepDown(z, r.term).disk = z.disk
        /\ StepDown(z, r.term).pending = 0 /\ StepDown(z, r.term).committed = z.committed
    BY <1>2, <1>3, StepDownFacts
  <2>3. /\ y \in Node /\ y.state = "FOLLOWER" /\ y.term = r.term /\ y.voted = r.cand
        /\ y.log = x.log /\ y.disk = x.disk
        /\ y.pending = 0 /\ y.committed = x.committed
    <3> HIDE DEF z
    <3> QED BY <1>2, <1>3, <2>2 DEF Node
  <2>4. Update(n, y) /\ grants' = grants \union {g}
    <3> HIDE DEF y
    <3> QED BY <1>1, <2>1, <2>3 DEF Respond
  <2>5. r.term > x.term \/ x.voted = NONE
    BY <1>3, <1>4
  <2> HIDE DEF y
  <2> QED BY <1>1, <1>4, <2>3, <2>4, <2>5
<1>5. CASE ~(LogIsOk(r.last, LastId(x.log)) /\ z.voted = NONE)
  <2>1. Vote(x, r, LastId(x.log)) = z
    BY <1>5 DEF Vote
  <2>2. Update(n, z) /\ (z.voted = r.cand => grants' = grants \union {g})
        /\ (z.voted # r.cand => grants' = grants)
    <3> HIDE DEF z
    <3> QED BY <1>1, <1>3, <2>1 DEF Respond
  <2>3. CASE r.term > x.term
    <3>1. z.voted = NONE /\ z = StepDown(x, r.term)
      BY <1>3, <2>3
    <3> QED BY <1>1, <1>2, <2>2, <2>3, <3>1
  <2>4. CASE ~(r.term > x.term)
    <3>1. z = x /\ r.term = x.term
      BY <1>1, <1>2, <2>4
    <3>2. x.voted = r.cand => g \in grants
      BY <1>1, <1>2, <3>1 DEF IInv, VotesInv
    <3>3. grants' = grants
      BY <2>2, <3>1, <3>2
    <3>4. node' = node
      BY <2>2, <3>1 DEF Update, IInv, TypeOK
    <3> QED BY <1>1, <3>3, <3>4 DEF vars
  <2> QED BY <2>3, <2>4
<1> QED BY <1>4, <1>5

\* handle_request_vote_request keeps the invariant: one vote in a term, and
\* none for a log that lacks what the voter keeps.
LEMMA HandleRequestVoteRequestKeeps ==
    ASSUME IInv, NEW n \in Server, NEW r \in requests, HandleRequestVoteRequest(n, r)
    PROVE  IInv'
<1> DEFINE x == node[n]
           g == [voter |-> n, cand |-> r.cand, term |-> r.term]
<1> USE DEF IInv
<1>t. Typed
  BY Types
<1>0. /\ n # r.cand /\ r.term >= x.term /\ r.cand \in Server /\ r.cand # NONE
      /\ r.term \in Term /\ r.term \in Nat /\ x.term \in Nat
  BY <1>t, ServerAssumption DEF HandleRequestVoteRequest
<1>1. CASE UNCHANGED vars
  BY <1>1, StutterKeeps
<1>2. CASE /\ r.term > x.term /\ Update(n, StepDown(x, r.term))
           /\ UNCHANGED <<led, closures, acked, requests, voting, grants, commits, crashes>>
  BY <1>0, <1>2, StepDownKeeps
<1>3. ASSUME NEW y \in Node,
             LogIsOk(r.last, LastId(x.log)),
             r.term > x.term \/ x.voted = NONE,
             y.state = "FOLLOWER", y.term = r.term, y.voted = r.cand,
             y.log = x.log, y.disk = x.disk,
             y.pending = 0, y.committed = x.committed,
             Update(n, y), grants' = grants \union {g},
             UNCHANGED <<led, closures, acked, requests, voting, commits, crashes>>
      PROVE  IInv'
  <2>1. y.committed <= Len(y.log)
    BY <1>3 DEF TypeOK
  <2>2. node'[n] = y /\ \A p \in Server : p # n => node'[p] = node[p]
    BY <1>3, <2>1, NodeType
  <2>3. TypeOK'
    <3>1. grants' \subseteq [voter: Server, cand: Server, term: Term]
      BY <1>0, <1>3 DEF TypeOK
    <3> QED BY <1>3, <2>1, <3>1, NodeType DEF TypeOK
  <2>t. Typed'
    BY <2>3, TypesNext
  <2>4. Quiet(n)
    BY <1>0, <1>3, <2>2 DEF Quiet
  <2>5. g.voter = n /\ g.cand = r.cand /\ g.term = r.term
    OBVIOUS
  <2>6. \A h \in grants : h.voter = n => h.term < r.term
    <3> SUFFICES ASSUME NEW h \in grants, h.voter = n PROVE h.term < r.term
      OBVIOUS
    <3>1. h.term <= x.term /\ (h.term = x.term => x.voted = h.cand) /\ h.cand # NONE
      BY <1>t, ServerAssumption DEF VotesInv
    <3> QED BY <3>1, <1>0, <1>3, <1>t
  <2>7. VotesInv'
    <3>1. \A p \in Server : node'[p].state # "FOLLOWER" => node'[p].voted = p
      BY <1>3, <2>2 DEF VotesInv
    <3>2. ASSUME NEW q \in requests'
          PROVE  /\ q.term <= node'[q.cand].term
                 /\ Running(q.cand, q.term)' => q.last = LastId(node'[q.cand].log)
      <4>1. /\ q.term <= node[q.cand].term
            /\ Running(q.cand, q.term) => q.last = LastId(node[q.cand].log)
        BY <1>3 DEF VotesInv
      <4>2. q.cand \in Server /\ q.term \in Nat
        BY <1>3, <1>t
      <4>3. CASE q.cand = n
        BY <4>1, <4>2, <4>3, <1>0, <1>3, <2>2 DEF Running
      <4>4. CASE q.cand # n
        BY <4>1, <4>2, <4>4, <2>2 DEF Running
      <4> QED BY <4>3, <4>4
    <3>3. ASSUME NEW h \in grants'
          PROVE  /\ h.voter # h.cand
                 /\ h.term <= node'[h.cand].term /\ h.term <= node'[h.voter].term
                 /\ h.term = node'[h.voter].term => node'[h.voter].voted = h.cand
      <4>1. CASE h = g
        <5>1. r.term <= node[r.cand].term
          BY DEF VotesInv
        <5> HIDE DEF g
        <5> QED BY <4>1, <5>1, <1>0, <1>3, <2>2, <2>5
      <4>2. CASE h \in grants
        <5>1. /\ h.voter # h.cand
              /\ h.term <= node[h.cand].term /\ h.term <= node[h.voter].term
              /\ h.term = node[h.voter].term => node[h.voter].voted = h.cand
          BY <4>2 DEF VotesInv
        <5>2. h.cand \in Server /\ h.voter \in Server /\ h.term \in Nat
          BY <4>2, <1>t
        <5>3. h.term <= node'[h.cand].term
          BY <5>1, <5>2, <1>0, <1>3, <2>2
        <5>4. CASE h.voter = n
          BY <4>2, <5>1, <5>2, <5>3, <5>4, <1>0, <1>3, <2>2, <2>6
        <5>5. CASE h.voter # n
          BY <5>1, <5>2, <5>3, <5>5, <2>2
        <5> QED BY <5>4, <5>5
      <4> QED BY <4>1, <4>2, <1>3
    <3>4. \A h, k \in grants' : h.voter = k.voter /\ h.term = k.term => h = k
      <4> HIDE DEF g
      <4> QED BY <1>0, <1>3, <2>5, <2>6 DEF VotesInv
    <3>5. \A p \in Server : node'[p].voted \notin {NONE, p} =>
             [voter |-> p, cand |-> node'[p].voted, term |-> node'[p].term] \in grants'
      BY <1>3, <2>2 DEF VotesInv
    <3> QED BY <3>1, <3>2, <3>3, <3>4, <3>5 DEF VotesInv
  <2>8. LedInv'
    <3>1. \A p \in Server : node'[p].state = "LEADER" =>
             led'[node'[p].term].leader = p /\ node'[p].pending # 0
      BY <1>3, <2>2 DEF LedInv
    <3>2. ASSUME NEW t \in Term, NEW m \in Server, m = led'[t].leader, m # NONE
          PROVE  /\ node'[m].term >= t
                 /\ node'[m].term = t => node'[m].voted = m /\ node'[m].state # "CANDIDATE"
                 /\ \A h \in grants' : h.voter = m => h.term # t
                 /\ Majority(Granting(m, t))'
      <4>1. /\ node[m].term >= t
            /\ node[m].term = t => node[m].voted = m /\ node[m].state # "CANDIDATE"
            /\ \A h \in grants : h.voter = m => h.term # t
            /\ Majority(Granting(m, t))
        BY <1>3, <3>2 DEF LedInv
      <4>2. node[m].term \in Nat /\ t \in Nat
        BY <1>t
      <4>3. Majority(Granting(m, t))'
        BY <4>1, <1>3, <2>3, GrantingGrows
      <4>4. CASE m = n
        <5>1. r.term > t
          BY <4>1, <4>2, <4>4, <1>0, <1>3, ServerAssumption
        <5> HIDE DEF g
        <5> QED BY <5>1, <4>1, <4>2, <4>3, <4>4, <1>0, <1>3, <2>2, <2>5
      <4>5. CASE m # n
        BY <4>1, <4>3, <4>5, <1>3, <2>2, <2>5
      <4> QED BY <4>4, <4>5
    <3>3. \A t \in Term : /\ led'[t].leader \in Server \union {NONE}
                          /\ led'[t].leader = NONE => led'[t].log = <<>> /\ led'[t].committed = 0
      BY <1>3, <1>t DEF LedInv
    <3> QED BY <3>1, <3>2, <3>3 DEF LedInv
  <2>9. LogsInv' /\ CommitInv' /\ Grows
    BY <1>3, <2>2, <2>3, <2>4, QuietLogs, QuietGrows
  <2>10. ASSUME NEW t \in Term, NEW p \in Server, NEW i \in Own(t), Keeps(p, t, i), ~Dead(t, i)
         PROVE  Keeps(p, t, i)'
    <3>1. node'[p].log = node[p].log /\ node'[p].disk = node[p].disk
      BY <1>3, <2>2
    <3>2. ASSUME NEW h \in grants' \ grants,
                 h.voter = p, h.term > t, Running(h.cand, h.term)'
          PROVE  Agree(node'[h.cand].log, led[t].log, i)
      <4>1. p = n /\ h.cand = r.cand /\ h.term = r.term
        BY <3>2, <1>3, <2>5
      <4>2. node'[r.cand] = node[r.cand] /\ Running(r.cand, r.term)
        BY <4>1, <3>2, <1>0, <2>2 DEF Running
      <4>3. r.last = LastId(node[r.cand].log)
        BY <4>2 DEF VotesInv
      <4>4. Agree(x.log, led[t].log, i)
        BY <4>1, <2>10 DEF Keeps
      <4>5. /\ Rooted(x.log, led) /\ Rooted(node[r.cand].log, led)
            /\ x.log \in Logs /\ node[r.cand].log \in Logs
        BY <1>0, <1>t DEF LogsInv
      <4> QED BY <4>1, <4>2, <4>3, <4>4, <4>5, <1>3, <2>10, VoteSafe
    <3> QED BY <2>3, <2>9, <2>10, <3>1, <3>2, KeepsStep DEF Keeps
  <2>11. SafeInv'
    BY <1>3, <2>3, <2>9, <2>10, SafeQuiet
  <2> QED BY <2>3, <2>7, <2>8, <2>9, <2>11
<1> QED BY <1>1, <1>2, <1>3, VoteFacts

\* Who wins the votes of a term is its first leader.
LEMMA NoLeaderYet ==
    ASSUME IInv, NEW n \in Server, node[n].state = "CANDIDATE",
           Majority(Granting(n, node[n].term))
    PROVE  led[node[n].term].leader = NONE
<1> DEFINE t == node[n].term
           m == led[t].leader
<1> USE DEF IInv
<1>t. Typed
  BY Types
<1> SUFFICES ASSUME m # NONE PROVE FALSE
  OBVIOUS
<1>1. m \in Server /\ t \in Term
  BY <1>t
<1>2. /\ node[m].term = t => node[m].voted = m /\ node[m].state # "CANDIDATE"
      /\ \A g \in grants : g.voter = m => g.term # t
      /\ Majority(Granting(m, t))
  BY <1>1 DEF LedInv
<1>3. m # n
  BY <1>2
<1>4. Granting(n, t) \in SUBSET Server /\ Granting(m, t) \in SUBSET Server
  BY <1>1, <1>t DEF Granting
<1>5. PICK v \in Granting(n, t) : v \in Granting(m, t)
  BY <1>2, <1>4, MajoritiesMeet
<1>6. ASSUME NEW g \in grants, g.term = t PROVE g.voter # n
  BY <1>6 DEF VotesInv
<1>7. PICK g \in grants : g.voter = v /\ g.cand = n /\ g.term = t
  BY <1>2, <1>3, <1>5, <1>6 DEF Granting
<1>8. PICK h \in grants : h.voter = v /\ h.cand = m /\ h.term = t
  BY <1>2, <1>3, <1>5, <1>7 DEF Granting
<1> QED BY <1>3, <1>7, <1>8 DEF VotesInv

\* Who wins the votes of a term has what is not dead.
LEMMA ElectedHas ==
    ASSUME IInv, NEW n \in Server, node[n].state = "CANDIDATE",
           Majority(Granting(n, node[n].term)),
           NEW t \in Term, t < node[n].term, NEW i \in Own(t)
    PROVE  Agree(node[n].log, led[t].log, i) \/ Dead(t, i)
<1> DEFINE u == node[n].term
           V == Granting(n, u)
<1> USE DEF IInv
<1>t. Typed
  BY Types
<1>1. V \in SUBSET Server /\ Running(n, u) /\ i \in Nat
  BY <1>t DEF Granting, Running, Own
<1>2. ASSUME NEW p \in V PROVE Keeps(p, t, i) => Agree(node[n].log, led[t].log, i)
  <2>1. CASE p = n
    BY <2>1 DEF Keeps
  <2>2. CASE p # n
    <3>1. PICK g \in grants : g.voter = p /\ g.cand = n /\ g.term = u
      BY <2>2 DEF Granting
    <3> QED BY <3>1, <1>1 DEF Keeps
  <2> QED BY <2>1, <2>2
<1>3. \A p \in V : node[p].term >= u
  BY <1>t DEF Granting, VotesInv
<1>4. CASE i <= led[t].committed
  <2>1. Majority({p \in Server : Keeps(p, t, i)})
    BY <1>4 DEF SafeInv
  <2>2. \E p \in V : p \in {q \in Server : Keeps(q, t, i)}
    BY <1>1, <2>1, MajoritiesMeet
  <2> QED BY <2>2, <1>2
<1>5. CASE i > led[t].committed
  <2>1. CASE \E p \in V : acked[t][p] >= i
    BY <2>1, <1>1, <1>2, <1>5 DEF SafeInv
  <2>2. CASE \A p \in V : acked[t][p] < i
    <3>1. V \subseteq {p \in Server : node[p].term > t /\ acked[t][p] < i}
      BY <1>1, <1>3, <1>t, <2>2
    <3> QED BY <3>1, <1>1, MajorityGrows DEF Dead
  <2> QED BY <2>1, <2>2, <1>1, <1>t
<1> QED BY <1>1, <1>4, <1>5, <1>t

\* A leader that appends an entry of its term keeps the invariant: become_leader
\* and apply.
LEMMA ExtendKeeps ==
    ASSUME IInv, NEW n \in Server, NEW x \in Node, Extend(n, x),
           node[n].state # "FOLLOWER", x.state = "LEADER",
           x.term = node[n].term, x.voted = node[n].voted,
           x.log = node[n].log, x.disk = node[n].disk, x.committed = node[n].committed,
           x.pending \in x.committed + 1..Len(x.log) + 1,
           \A i \in x.pending..Len(x.log) : x.log[i] = x.term,
           led[x.term].leader \in {NONE, n},
           Agree(led[x.term].log, x.log, Len(led[x.term].log)),
           \/ led[x.term].leader = NONE /\ UpTo(x.log, x.term - 1)
           \/ /\ led[x.term].leader = n /\ led[x.term].log = x.log
              /\ led[x.term].committed = x.committed,
           Majority(Granting(n, x.term)),
           led[x.term].leader = NONE =>
              \A t \in Term : \A i \in Own(t) :
                 t < x.term => Agree(x.log, led[t].log, i) \/ Dead(t, i),
           UNCHANGED <<closures, acked, requests, voting, grants, commits, crashes>>
    PROVE  IInv'
<1> DEFINE s == x.term
           l == Append(x.log, s)
           y == [x EXCEPT !.log = l]
           k == Len(x.log) + 1
<1> USE DEF IInv
<1>t. Typed
  BY Types
<1>1. /\ Len(l) <= MaxLog /\ Update(n, y)
      /\ led' = [led EXCEPT ![s] = [leader |-> n, log |-> l, committed |-> x.committed]]
  BY DEF Extend
<1>2. /\ l \in Logs /\ Len(l) = k /\ s \in Term /\ x.log \in Logs
      /\ Len(x.log) \in Nat /\ k \in Nat
      /\ \A i \in 1..Len(x.log) : l[i] = x.log[i]
      /\ l[k] = s
  <2>1. x.log \in Logs /\ s \in Term
    BY <1>t
  <2>2. Len(x.log) \in Nat /\ k \in Nat
    BY <2>1, LogType
  <2>3. /\ Append(x.log, s) \in Logs /\ Len(Append(x.log, s)) = Len(x.log) + 1
        /\ \A i \in 1..Len(x.log) : Append(x.log, s)[i] = x.log[i]
        /\ Append(x.log, s)[Len(x.log) + 1] = s
    BY <1>1, <2>1, AppendFacts
  <2> QED BY <2>1, <2>2, <2>3
<1> HIDE DEF l
<1>3. /\ y \in Node /\ y.state = "LEADER" /\ y.term = s /\ y.voted = x.voted
      /\ y.log = l /\ y.disk = x.disk /\ y.pending = x.pending
      /\ y.committed = x.committed
  BY <1>2 DEF Node
<1>4. /\ y.committed <= Len(y.log) /\ x.committed \in Nat /\ x.pending \in Nat
      /\ x.pending # 0 /\ y.pending \in y.committed + 1..Len(y.log) + 1
  <2>1. x.committed \in Nat
    BY <1>t
  <2>2. x.pending \in Nat /\ x.pending # 0 /\ x.committed < x.pending /\ x.pending <= Len(x.log) + 1
    BY <2>1, <1>2
  <2> QED BY <2>1, <2>2, <1>2, <1>3
<1> HIDE DEF y
<1>5. node'[n] = y /\ \A p \in Server : p # n => node'[p] = node[p]
  BY <1>1, <1>3, <1>4, NodeType
<1>6. /\ led'[s].leader = n /\ led'[s].log = l /\ led'[s].committed = x.committed
      /\ \A t \in Term : t # s => led'[t] = led[t]
  BY <1>1, <1>2 DEF TypeOK
<1>c. /\ x.committed <= Len(x.log) /\ led[s].committed <= x.committed
      /\ led[s].leader = NONE => led[s].committed = 0 /\ led[s].log = <<>>
  BY <1>2, <1>4 DEF LedInv, TypeOK
<1>7. TypeOK'
  <2>1. led' \in [Term -> [leader: Server \union {NONE}, log: Logs, committed: 0..MaxLog]]
    <3>1. x.committed \in 0..MaxLog
      BY DEF Node
    <3> QED BY <3>1, <1>1, <1>2 DEF TypeOK
  <2> QED BY <1>1, <1>3, <1>4, <2>1, NodeType DEF TypeOK
<1>u. Typed'
  BY <1>7, TypesNext
<1>8. ASSUME NEW m \in Logs, NEW i \in Nat, i <= Len(x.log)
      PROVE  Agree(x.log, m, i) <=> Agree(l, m, i)
  <2>1. i <= Len(l)
    BY <1>2, <1>8
  <2>2. \A j \in 1..i : l[j] = x.log[j]
    BY <1>2, <1>8
  <2> QED BY <1>8, <2>1, <2>2 DEF Agree
<1>9. Grows
  <2>1. ASSUME NEW t \in Term PROVE Agree(led[t].log, led'[t].log, Len(led[t].log))
    <3>1. CASE t = s
      <4>1. Len(led[s].log) \in Nat /\ Len(led[s].log) <= Len(x.log)
        BY <1>2, <1>t DEF Agree
      <4>2. \A j \in 1..Len(led[s].log) : j \in 1..Len(x.log) /\ led[s].log[j] = l[j]
        BY <4>1, <1>2 DEF Agree
      <4> QED BY <3>1, <4>1, <4>2, <1>2, <1>6 DEF Agree
    <3>2. CASE t # s
      BY <3>2, <1>6, <1>t DEF Agree
    <3> QED BY <3>1, <3>2
  <2>2. \A t \in Term : led[t].leader # NONE => led'[t].leader = led[t].leader
    BY <1>6
  <2>3. \A t \in Term : led[t].committed <= led'[t].committed
    BY <1>6, <1>c, <1>t
  <2>4. \A p \in Server : node[p].term <= node'[p].term
    BY <1>3, <1>5, <1>t
  <2>5. \A p \in Server, t \in Term :
           node'[p].state = "CANDIDATE" /\ node'[p].term = t =>
              Running(p, t) /\ node'[p].log = node[p].log
    BY <1>3, <1>5 DEF Running
  <2> QED BY <2>1, <2>2, <2>3, <2>4, <2>5 DEF Grows
<1>10. Calm
  BY <1>3, <1>5 DEF Calm
<1>11. VotesInv'
  BY <1>7, <1>10, VotesCalm
<1>12. LedInv'
  <2>1. ASSUME NEW p \in Server, node'[p].state = "LEADER"
        PROVE  led'[node'[p].term].leader = p /\ node'[p].pending # 0
    <3>1. CASE p = n
      BY <3>1, <1>3, <1>4, <1>5, <1>6
    <3>2. CASE p # n
      <4>1. led[node[p].term].leader = p /\ node[p].pending # 0 /\ node[p].term \in Term
        BY <2>1, <3>2, <1>5, <1>t DEF LedInv
      <4>2. node[p].term # s
        BY <4>1, <3>2, ServerAssumption
      <4> QED BY <4>1, <4>2, <3>2, <1>5, <1>6
    <3> QED BY <3>1, <3>2
  <2>2. ASSUME NEW t \in Term, NEW m \in Server, m = led'[t].leader, m # NONE
        PROVE  /\ node'[m].term >= t
               /\ node'[m].term = t => node'[m].voted = m /\ node'[m].state # "CANDIDATE"
               /\ \A h \in grants' : h.voter = m => h.term # t
               /\ Majority(Granting(m, t))'
    <3>1. CASE t = s
      <4>1. m = n
        BY <2>2, <3>1, <1>6
      <4>2. node[n].voted = n /\ \A h \in grants : h.voter = n => h.term # s
        BY DEF VotesInv
      <4>3. Majority(Granting(n, s))'
        BY <1>2, <1>7, GrantingGrows
      <4>4. node'[n].term >= s
        BY <1>2, <1>3, <1>5, <1>t
      <4> QED BY <3>1, <4>1, <4>2, <4>3, <4>4, <1>3, <1>5
    <3>2. CASE t # s
      <4>1. m = led[t].leader
        BY <2>2, <3>2, <1>6
      <4>2. /\ node[m].term >= t
            /\ node[m].term = t => node[m].voted = m /\ node[m].state # "CANDIDATE"
            /\ \A g \in grants : g.voter = m => g.term # t
            /\ Majority(Granting(m, t))
        BY <2>2, <4>1 DEF LedInv
      <4>3. Majority(Granting(m, t))'
        BY <4>2, <1>7, GrantingGrows
      <4> QED BY <3>2, <4>2, <4>3, <1>3, <1>5
    <3> QED BY <3>1, <3>2
  <2>3. \A t \in Term : /\ led'[t].leader \in Server \union {NONE}
                        /\ led'[t].leader = NONE => led'[t].log = <<>> /\ led'[t].committed = 0
    BY <1>6, <1>u, ServerAssumption DEF LedInv
  <2> QED BY <2>1, <2>2, <2>3 DEF LedInv
<1>13. LogsInv'
  <2>1. Rooted(x.log, led') /\ UpTo(x.log, s) /\ Rooted(x.disk, led') /\ UpTo(x.disk, s)
    <3>1. Rooted(x.log, led) /\ UpTo(x.log, s) /\ Rooted(x.disk, led) /\ UpTo(x.disk, s)
      BY DEF LogsInv
    <3>2. x.disk \in Logs
      BY <1>t
    <3> QED BY <3>1, <3>2, <1>2, <1>7, <1>9, RootedGrows
  <2>2. Rooted(l, led')
    <3> SUFFICES ASSUME NEW i \in 1..k PROVE Agree(l, led'[l[i]].log, i)
      BY <1>2 DEF Rooted
    <3>1. CASE i = k
      BY <3>1, <1>2, <1>6 DEF Agree
    <3>2. CASE i <= Len(x.log)
      <4>1. l[i] = x.log[i] /\ Agree(x.log, led'[x.log[i]].log, i) /\ x.log[i] \in Term
        BY <3>2, <2>1, <1>2, LogType DEF Rooted
      <4>2. led'[x.log[i]].log \in Logs
        BY <4>1, <1>u
      <4> QED BY <3>2, <4>1, <4>2, <1>8
    <3> QED BY <3>1, <3>2, <1>2
  <2>3. UpTo(l, s)
    <3>1. s \in Nat /\ \A i \in 1..Len(x.log) : x.log[i] <= s
      BY <2>1, <1>2, <1>t DEF UpTo
    <3>2. \A i \in 1..k : i = k \/ i \in 1..Len(x.log)
      BY <1>2
    <3>3. \A i \in 1..k : l[i] <= s
      BY <3>1, <3>2, <1>2
    <3> QED BY <3>3, <1>2 DEF UpTo
  <2>4. \A i \in y.pending..Len(l) : l[i] = s
    <3> SUFFICES ASSUME NEW i \in x.pending..k PROVE l[i] = s
      BY <1>2, <1>3
    <3>1. CASE i = k
      BY <1>2, <3>1
    <3>2. CASE i # k
      <4>1. i \in x.pending..Len(x.log) /\ i \in 1..Len(x.log)
        BY <1>2, <1>4, <3>2
      <4> QED BY <1>2, <4>1
    <3> QED BY <3>1, <3>2
  <2>5. ASSUME NEW c \in closures', c.peer = n
        PROVE  /\ c.term <= node'[n].term
               /\ c.committed <= c.last /\ c.committed <= led'[c.term].committed
               /\ c.term = node'[n].term => Agree(node'[n].log, led'[c.term].log, c.last)
    <3>1. /\ c.term <= s /\ c.committed <= c.last /\ c.committed <= led[c.term].committed
          /\ c.term = s => Agree(x.log, led[c.term].log, c.last)
          /\ c.term \in Term /\ c.last \in Nat
      BY <2>5, <1>t DEF LogsInv
    <3>2. c.committed <= led'[c.term].committed
      <4>1. led[c.term].committed <= led'[c.term].committed
        BY <3>1, <1>9 DEF Grows
      <4>2. led[c.term].committed \in Nat /\ led'[c.term].committed \in Nat /\ c.committed \in Nat
        BY <3>1, <2>5, <1>t, <1>u
      <4> QED BY <3>1, <4>1, <4>2
    <3>3. c.term = s => Agree(l, led'[c.term].log, c.last)
      BY <3>1, <1>2, <1>6 DEF Agree
    <3> QED BY <3>1, <3>2, <3>3, <1>3, <1>5
  <2>6. \A c, d \in closures' : c.peer = d.peer /\ c.term = d.term => c = d
    BY DEF LogsInv
  <2>7. \A t \in Term :
           \/ led'[t].log = led[t].log
           \/ /\ led'[t].leader = n
              /\ Rooted(led'[t].log, led') /\ UpTo(led'[t].log, t)
    BY <2>2, <2>3, <1>6
  <2> QED BY <2>1, <2>2, <2>3, <2>4, <2>5, <2>6, <2>7, <1>3, <1>5, <1>6, <1>7, <1>9, LogsStep
<1>o. /\ OwnCommit(s, led') <=> OwnCommit(s, led)
      /\ OwnCommit(s, led') => led'[s].committed = led[s].committed
  <2>1. ASSUME OwnCommit(s, led')
        PROVE  led[s].leader = n /\ led[s].log = x.log /\ led[s].committed = x.committed
    <3>1. x.committed \in 1..Len(x.log) /\ x.log[x.committed] = s
      BY <2>1, <1>2, <1>4, <1>6, <1>c DEF OwnCommit
    <3>2. ~UpTo(x.log, s - 1)
      BY <3>1, <1>t, <1>2 DEF UpTo
    <3> QED BY <3>2
  <2>2. ASSUME OwnCommit(s, led) PROVE led[s].leader # NONE
    <3>1. Len(<<>>) = 0
      BY LogType
    <3> QED BY <2>2, <3>1, <1>c DEF OwnCommit
  <2>3. ASSUME led[s].leader = n, led[s].log = x.log, led[s].committed = x.committed
        PROVE  OwnCommit(s, led') <=> OwnCommit(s, led)
    BY <2>3, <1>2, <1>4, <1>6, <1>c DEF OwnCommit
  <2>4. n # NONE
    BY ServerAssumption
  <2> QED BY <2>1, <2>2, <2>3, <2>4, <1>6
<1>b. \A u \in Term : OwnCommit(u, led) => OwnCommit(u, led')
  BY <1>o, <1>6 DEF OwnCommit
<1>p. Backed(l, x.committed, s, led')
  <2>1. Backed(x.log, x.committed, s, led)
    BY DEF CommitInv
  <2>2. Agree(l, x.log, x.committed)
    BY <1>2, <1>4, <1>c DEF Agree
  <2>4. s \in Nat /\ s <= s /\ x.committed <= x.committed
    BY <1>2, <1>4, <1>t
  <2>3. Backed(l, x.committed, s, led)
    BY <2>1, <2>2, <2>4, <1>2, <1>4, BackedLess
  <2> QED BY <2>3, <1>2, <1>4, <1>7, <1>9, <1>b, <1>t, BackedGrows
<1>14. CommitInv'
  <2>1. node'[n].state = "LEADER" => led'[node'[n].term].committed = node'[n].committed
    BY <1>3, <1>5, <1>6
  <2>2. Backed(node'[n].log, node'[n].committed, node'[n].term, led')
    BY <1>p, <1>3, <1>5
  <2>3. ASSUME NEW t \in Term
        PROVE  \/ led'[t].committed = led[t].committed
               \/ /\ led'[t].leader = n
                  /\ Backed(led'[t].log, led'[t].committed, t, led')
                  /\ OwnCommit(t, led) => OwnCommit(t, led')
                  /\ OwnCommit(t, led') => Granted(t, led[t].committed)'
    <3>1. CASE t # s
      BY <3>1, <1>6
    <3>2. CASE t = s /\ OwnCommit(s, led')
      BY <3>2, <1>o
    <3>3. CASE t = s /\ ~OwnCommit(s, led')
      BY <3>3, <1>b, <1>p, <1>6
    <3> QED BY <3>1, <3>2, <3>3
  <2>4. \A t \in Term, p \in Server : acked'[t][p] = acked[t][p]
    OBVIOUS
  <2> QED BY <2>1, <2>2, <2>3, <2>4, <1>5, <1>7, <1>9, CommitStep
<1>15. SafeInv'
  <2>1. ASSUME NEW t \in Term, NEW p \in Server, NEW i \in Own(t), Keeps(p, t, i)
        PROVE  Keeps(p, t, i)'
    <3>1. i \in Nat /\ Agree(node[p].log, led[t].log, i) /\ Agree(node[p].disk, led[t].log, i)
      BY <2>1, <1>t DEF Keeps, Own
    <3>2. Agree(node'[p].log, led[t].log, i)
      <4>1. CASE p = n
        <5>1. Agree(x.log, led[t].log, i) /\ i <= Len(x.log) /\ led[t].log \in Logs
          BY <3>1, <4>1, <1>t DEF Agree
        <5>2. Agree(l, led[t].log, i)
          BY <3>1, <5>1, <1>8
        <5> QED BY <4>1, <5>2, <1>3, <1>5
      <4>2. CASE p # n
        BY <3>1, <4>2, <1>5
      <4> QED BY <4>1, <4>2
    <3>3. node'[p].disk = node[p].disk
      BY <1>3, <1>5
    <3> QED BY <2>1, <3>1, <3>2, <3>3, <1>7, <1>9, KeepsStep
  <2>2. ASSUME NEW t \in Term, NEW i \in Own(t)', i > Len(led[t].log)
        PROVE  /\ t = s /\ led'[t].committed < i
               /\ i \in Nat /\ \A p \in Server : acked[t][p] < i
    <3>1. /\ Len(led[t].log) \in Nat /\ led[t].committed \in Nat
          /\ i \in Nat /\ i \in 1..Len(led'[t].log)
      BY <1>t, <1>u DEF Own
    <3>2. t = s
      BY <2>2, <3>1, <1>6
    <3>3. \A p \in Server : acked[t][p] <= Len(led[t].log)
      BY DEF CommitInv
    <3>4. x.committed < i
      <4>1. CASE led[s].log = x.log
        BY <2>2, <3>1, <3>2, <4>1, <1>2, <1>4, <1>c
      <4>2. CASE UpTo(x.log, s - 1)
        <5>1. i \in 1..k /\ l[i] = s
          BY <3>2, <1>2, <1>6 DEF Own
        <5>2. ~(i <= Len(x.log))
          <6> SUFFICES ASSUME i <= Len(x.log) PROVE FALSE
            OBVIOUS
          <6>1. i \in 1..Len(x.log) /\ x.log[i] = s
            BY <5>1, <1>2
          <6> QED BY <4>2, <6>1, <1>2, <1>t DEF UpTo
        <5> QED BY <3>1, <5>2, <1>2, <1>4, <1>c
      <4> QED BY <4>1, <4>2
    <3> QED BY <2>2, <3>1, <3>2, <3>3, <3>4, <1>6, <1>t
  <2>3. ASSUME NEW t \in Term, NEW u \in Term, NEW i \in Own(t),
               t < u, led[u].leader = NONE, led'[u].leader # NONE
        PROVE  Agree(led'[u].log, led[t].log, i) \/ Dead(t, i)
    <3>1. u = s
      BY <2>3, <1>6
    <3>2. Agree(x.log, led[t].log, i) \/ Dead(t, i)
      BY <2>3, <3>1
    <3>3. i \in Nat /\ led[t].log \in Logs
      BY <1>t DEF Own
    <3> QED BY <3>1, <3>2, <3>3, <1>2, <1>6, <1>8 DEF Agree
  <2>4. ASSUME NEW t \in Term, NEW u \in Term, NEW i \in Own(t)',
               i > Len(led[t].log), t < u, led'[u].leader # NONE
        PROVE  Dead(t, i)'
    <3>1. t = s /\ i \in Nat /\ \A p \in Server : acked[t][p] < i
      BY <2>2, <2>4
    <3>2. led[u].leader # NONE /\ led[u].leader \in Server
      <4>1. t \in Nat /\ u \in Nat /\ led[u].leader \in Server \union {NONE}
        BY <1>t
      <4>2. u # s
        BY <2>4, <3>1, <4>1
      <4> QED BY <2>4, <4>1, <4>2, <1>6
    <3>3. Majority(Granting(led[u].leader, u)) /\ node[led[u].leader].term >= u
      BY <3>2 DEF LedInv
    <3>4. Granting(led[u].leader, u) \subseteq {p \in Server : node[p].term > t /\ acked[t][p] < i}
      <4> SUFFICES ASSUME NEW p \in Granting(led[u].leader, u)
                   PROVE  p \in Server /\ node[p].term > t
        BY <3>1
      <4>1. p \in Server /\ node[p].term >= u
        BY <3>2, <3>3, <1>t DEF Granting, VotesInv
      <4> QED BY <2>4, <4>1, <1>t
    <3>5. Granting(led[u].leader, u) \in SUBSET Server
      BY <3>2, <1>t DEF Granting
    <3>6. Dead(t, i)
      BY <3>3, <3>4, <3>5, MajorityGrows DEF Dead
    <3> QED BY <3>1, <3>6, <1>7, <1>9, DeadStays
  <2>5. \A t \in Term : led'[t].committed # led[t].committed => led[t].leader = NONE
    BY <1>6
  <2>6. \A t \in Term, p \in Server : \A i \in Own(t) : ~(acked[t][p] < i /\ acked'[t][p] >= i)
    <3>1. \A t \in Term, p \in Server : \A i \in Own(t) : acked[t][p] \in Nat /\ i \in Nat
      BY <1>t DEF Own
    <3> QED BY <3>1
  <2> QED BY <2>1, <2>2, <2>3, <2>4, <2>5, <2>6, <1>7, <1>9, SafeStep
<1> QED BY <1>7, <1>11, <1>12, <1>13, <1>14, <1>15

\* become_leader keeps the invariant.
LEMMA BecomeLeaderKeeps ==
    ASSUME IInv, NEW n \in Server, BecomeLeader(n)
    PROVE  IInv'
<1> DEFINE z == node[n]
           x == [z EXCEPT !.state = "LEADER", !.pending = Len(z.log) + 1]
<1> USE DEF IInv
<1>t. Typed
  BY Types
<1>1. /\ z.state = "CANDIDATE" /\ Majority(Granting(n, z.term)) /\ Extend(n, x)
      /\ UNCHANGED <<closures, acked, requests, voting, grants, commits, crashes>>
  BY DEF BecomeLeader, Granting
<1>2. /\ z \in Node /\ z.log \in Logs /\ Len(z.log) \in 0..MaxLog
      /\ z.committed \in Nat /\ z.committed <= Len(z.log) /\ z.term \in Term
  BY <1>t, LogType DEF TypeOK
<1>3. Len(z.log) + 1 \in 0..MaxLog + 1 /\ Len(z.log) \in Nat
  BY <1>2, BoundAssumption
<1>4. /\ x \in Node /\ x.state = "LEADER" /\ x.term = z.term /\ x.voted = z.voted
      /\ x.log = z.log /\ x.disk = z.disk /\ x.committed = z.committed
      /\ x.pending = Len(z.log) + 1
  BY <1>2, <1>3 DEF Node
<1>5. led[z.term].leader = NONE
  BY <1>1, NoLeaderYet
<1>6. led[z.term].log = <<>> /\ led[z.term].committed = 0
  BY <1>2, <1>5 DEF LedInv
<1>7. Agree(led[z.term].log, z.log, Len(led[z.term].log))
  BY <1>3, <1>6, LogType DEF Agree
<1>8. \A t \in Term : \A i \in Own(t) :
         t < z.term => Agree(z.log, led[t].log, i) \/ Dead(t, i)
  BY <1>1, ElectedHas
<1>9. /\ x.pending \in x.committed + 1..Len(x.log) + 1
      /\ \A i \in x.pending..Len(x.log) : x.log[i] = x.term
  BY <1>2, <1>3, <1>4, <1>6
<1>10. UpTo(x.log, x.term - 1)
  BY <1>1, <1>4 DEF LogsInv
<1> HIDE DEF x
<1> QED BY <1>1, <1>4, <1>5, <1>7, <1>8, <1>9, <1>10, ExtendKeeps

\* apply keeps the invariant.
LEMMA ApplyKeeps ==
    ASSUME IInv, NEW n \in Server, Apply(n)
    PROVE  IInv'
<1> DEFINE x == node[n]
<1> USE DEF IInv
<1>t. Typed
  BY Types
<1>1. /\ x.state = "LEADER" /\ Extend(n, x)
      /\ UNCHANGED <<closures, acked, requests, voting, grants, commits, crashes>>
  BY DEF Apply
<1>2. x \in Node /\ x.term \in Term /\ n # NONE
  BY <1>t, ServerAssumption
<1>3. led[x.term].leader = n /\ x.pending # 0
  BY <1>1 DEF LedInv
<1>4. x.pending \in x.committed + 1..Len(x.log) + 1
  BY <1>3 DEF TypeOK
<1>5. /\ x.log = led[x.term].log /\ \A i \in x.pending..Len(x.log) : x.log[i] = x.term
  BY <1>1 DEF LogsInv
<1>6. Agree(led[x.term].log, x.log, Len(led[x.term].log))
  BY <1>5, <1>t DEF Agree
<1>7. led[x.term].committed = x.committed /\ led[x.term].log = x.log
  BY <1>1, <1>5 DEF CommitInv
<1>8. Majority(Granting(n, x.term))
  BY <1>2, <1>3 DEF LedInv
<1> HIDE DEF x
<1>9. node[n].state # "FOLLOWER" /\ x.term = node[n].term /\ x.voted = node[n].voted
      /\ x.log = node[n].log /\ x.disk = node[n].disk /\ x.committed = node[n].committed
  BY <1>1 DEF x
<1> QED BY <1>1, <1>2, <1>3, <1>4, <1>5, <1>6, <1>7, <1>8, <1>9, ExtendKeeps

-----------------------------------------------------------------------------
(* The steps of replication.                                               *)

\* An acknowledgement replaces a smaller one.
LEMMA AckFacts ==
    ASSUME TypeOK, NEW n \in Server, NEW t \in Term, NEW k \in 0..MaxLog
    PROVE  /\ Ack(n, t, k) \in [Term -> [Server -> 0..MaxLog]]
           /\ Ack(n, t, k)[t][n] = IF k > acked[t][n] THEN k ELSE acked[t][n]
           /\ \A u \in Term, p \in Server :
                 u # t \/ p # n => Ack(n, t, k)[u][p] = acked[u][p]
  BY DEF TypeOK, Ack

\* A step of a server on its own log keeps the invariant: what a leader or a
\* candidate has in memory stays, a log comes from leaders, what is kept and
\* not dead is kept, and what is newly acknowledged is stored.
LEMMA StoreKeeps ==
    ASSUME IInv, NEW n \in Server, NEW y \in Node, Update(n, y),
           y.committed <= Len(y.log),
           y.pending # 0 =>
              /\ y.state = "LEADER"
              /\ y.pending \in y.committed + 1..Len(y.log) + 1,
           \/ y.term = node[n].term /\ y.voted = node[n].voted
           \/ y.term > node[n].term /\ y.voted = NONE /\ y.state = "FOLLOWER",
           \/ y.state = "FOLLOWER"
           \/ /\ y.state = node[n].state /\ y.term = node[n].term
              /\ y.log = node[n].log /\ y.pending = node[n].pending
              /\ y.pending # 0 => y.committed = node[n].committed,
           Rooted(y.log, led), UpTo(y.log, y.term),
           Rooted(y.disk, led), UpTo(y.disk, y.term),
           Backed(y.log, y.committed, y.term, led),
           closures' \subseteq [peer: Server, term: Term, last: 1..MaxLog, committed: 0..MaxLog],
           \A c \in closures' : c \in closures \/ c.peer = n,
           \A c \in closures' : c.peer = n =>
              /\ c.term <= y.term
              /\ c.committed <= c.last /\ c.committed <= led[c.term].committed
              /\ c.term = y.term => Agree(y.log, led[c.term].log, c.last),
           \A c, d \in closures' : c.peer = d.peer /\ c.term = d.term => c = d,
           \A t \in Term : \A i \in Own(t) :
              Keeps(n, t, i) /\ ~Dead(t, i) =>
                 Agree(y.log, led[t].log, i) /\ Agree(y.disk, led[t].log, i),
           \/ acked' = acked
           \/ \E k \in 1..MaxLog :
                 /\ acked' = Ack(n, y.term, k) /\ k <= Len(led[y.term].log)
                 /\ \A i \in Own(y.term) :
                       i <= k /\ i > led[y.term].committed =>
                          /\ Agree(y.log, led[y.term].log, i)
                          /\ Agree(y.disk, led[y.term].log, i),
           voting' \subseteq voting, crashes' \in 0..MaxCrashes,
           UNCHANGED <<led, requests, grants, commits>>
    PROVE  IInv'
<1> USE DEF IInv
<1>t. Typed
  BY Types
<1>1. node'[n] = y /\ \A p \in Server : p # n => node'[p] = node[p]
  BY NodeType
<1>2. /\ y.state \in {"FOLLOWER", "CANDIDATE", "LEADER"} /\ y.term \in Term
      /\ y.term \in Nat /\ node[n].term \in Nat /\ node[n].term <= y.term
      /\ y.log \in Logs /\ y.disk \in Logs /\ y.committed \in Nat
  BY <1>t, BoundAssumption DEF Node, Term
<1>3. ASSUME acked' # acked
      PROVE  /\ acked' \in [Term -> [Server -> 0..MaxLog]]
             /\ \A t \in Term, p \in Server :
                   t # y.term \/ p # n => acked'[t][p] = acked[t][p]
             /\ acked[y.term][n] <= acked'[y.term][n]
             /\ acked'[y.term][n] <= Len(led[y.term].log)
             /\ \A i \in Own(y.term) :
                   acked[y.term][n] < i /\ i <= acked'[y.term][n] =>
                      (i > led[y.term].committed =>
                         /\ Agree(y.log, led[y.term].log, i)
                         /\ Agree(y.disk, led[y.term].log, i))
  <2>1. PICK k \in 1..MaxLog :
           /\ acked' = Ack(n, y.term, k) /\ k <= Len(led[y.term].log)
           /\ \A i \in Own(y.term) :
                 i <= k /\ i > led[y.term].committed =>
                    /\ Agree(y.log, led[y.term].log, i)
                    /\ Agree(y.disk, led[y.term].log, i)
    BY <1>3
  <2>2. k \in 0..MaxLog /\ k \in Nat
    BY BoundAssumption
  <2>3. /\ acked' \in [Term -> [Server -> 0..MaxLog]]
        /\ acked'[y.term][n] = IF k > acked[y.term][n] THEN k ELSE acked[y.term][n]
        /\ \A u \in Term, p \in Server :
              u # y.term \/ p # n => acked'[u][p] = acked[u][p]
    <3>1. /\ Ack(n, y.term, k) \in [Term -> [Server -> 0..MaxLog]]
          /\ Ack(n, y.term, k)[y.term][n] = IF k > acked[y.term][n] THEN k ELSE acked[y.term][n]
          /\ \A u \in Term, p \in Server :
                u # y.term \/ p # n => Ack(n, y.term, k)[u][p] = acked[u][p]
      BY <1>2, <2>2, AckFacts
    <3> QED BY <2>1, <3>1
  <2>4. /\ acked[y.term][n] \in Nat /\ Len(led[y.term].log) \in Nat
        /\ \A i \in Own(y.term) : i \in Nat
        /\ acked[y.term][n] <= Len(led[y.term].log)
    BY <1>2, <1>t DEF Own, CommitInv
  <2>5. acked[y.term][n] <= acked'[y.term][n] /\ acked'[y.term][n] <= Len(led[y.term].log)
    BY <2>1, <2>2, <2>3, <2>4
  <2>6. ASSUME NEW i \in Own(y.term), acked[y.term][n] < i, i <= acked'[y.term][n]
        PROVE  i > led[y.term].committed =>
                  /\ Agree(y.log, led[y.term].log, i)
                  /\ Agree(y.disk, led[y.term].log, i)
    <3>1. i <= k
      BY <2>2, <2>3, <2>4, <2>6
    <3> QED BY <2>1, <3>1
  <2>7. \A t \in Term, p \in Server :
           t # y.term \/ p # n => acked'[t][p] = acked[t][p]
    BY <2>3
  <2> QED BY <2>3, <2>5, <2>6, <2>7
<1>4. TypeOK'
  <2>1. acked' \in [Term -> [Server -> 0..MaxLog]]
    BY <1>3 DEF TypeOK
  <2> QED BY <2>1, NodeType DEF TypeOK
<1>u. Typed'
  BY <1>4, TypesNext
<1>5. Grows
  <2>1. \A t \in Term : Agree(led[t].log, led'[t].log, Len(led[t].log))
    BY <1>t DEF Agree
  <2>2. ASSUME NEW t \in Term, NEW p \in Server
        PROVE  \/ acked'[t][p] = acked[t][p]
               \/ acked[t][p] <= acked'[t][p] /\ node'[p].term = t
    BY <1>1, <1>3
  <2>3. \A p \in Server : node[p].term <= node'[p].term
    BY <1>1, <1>2, <1>t
  <2>4. ASSUME NEW p \in Server, NEW t \in Term,
               node'[p].state = "CANDIDATE", node'[p].term = t
        PROVE  Running(p, t) /\ node'[p].log = node[p].log
    <3>1. CASE p = n
      BY <2>4, <3>1, <1>1 DEF Running
    <3>2. CASE p # n
      BY <2>4, <3>2, <1>1 DEF Running
    <3> QED BY <3>1, <3>2
  <2> QED BY <2>1, <2>2, <2>3, <2>4, <1>t DEF Grows
<1>6. Calm
  BY <1>1, <1>2 DEF Calm
<1>7. VotesInv'
  BY <1>4, <1>6, VotesCalm
<1>8. LedInv'
  <2>1. ASSUME NEW p \in Server, node'[p].state = "LEADER"
        PROVE  node[p].state = "LEADER" /\ node'[p].pending # 0
    <3>1. CASE p = n
      BY <2>1, <3>1, <1>1 DEF LedInv
    <3>2. CASE p # n
      BY <2>1, <3>2, <1>1 DEF LedInv
    <3> QED BY <3>1, <3>2
  <2> QED BY <2>1, <1>4, <1>6, LedCalm
<1>9. LogsInv'
  <2>1. y.state = "CANDIDATE" => UpTo(y.log, y.term - 1)
    BY DEF LogsInv
  <2>2. y.state = "LEADER" =>
           /\ y.log = led[y.term].log
           /\ \A i \in y.pending..Len(y.log) : y.log[i] = y.term
    BY DEF LogsInv
  <2> QED BY <2>1, <2>2, <1>1, <1>4, <1>5, LogsStep
<1>10. CommitInv'
  <2>1. y.state = "LEADER" => led[y.term].committed = y.committed
    BY DEF CommitInv, LedInv
  <2>2. \A t \in Term, p \in Server :
           acked'[t][p] = acked[t][p] \/ acked'[t][p] <= Len(led'[t].log)
    BY <1>3
  <2> QED BY <2>1, <2>2, <1>1, <1>4, <1>5, CommitStep
<1>11. SafeInv'
  <2>1. ASSUME NEW t \in Term, NEW p \in Server, NEW i \in Own(t), Keeps(p, t, i), ~Dead(t, i)
        PROVE  Keeps(p, t, i)'
    <3>1. Agree(node'[p].log, led[t].log, i) /\ Agree(node'[p].disk, led[t].log, i)
      BY <2>1, <1>1 DEF Keeps
    <3> QED BY <2>1, <3>1, <1>4, <1>5, KeepsStep
  <2>2. ASSUME NEW t \in Term, NEW p \in Server, NEW i \in Own(t),
               acked[t][p] < i, acked'[t][p] >= i, i > led'[t].committed
        PROVE  Keeps(p, t, i)'
    <3>1. i \in Nat /\ acked[t][p] \in Nat /\ acked'[t][p] \in Nat
      BY <1>t, <1>u DEF Own
    <3>2. acked' # acked /\ t = y.term /\ p = n
      BY <2>2, <3>1, <1>3
    <3>3. Agree(y.log, led[t].log, i) /\ Agree(y.disk, led[t].log, i)
      BY <2>2, <3>1, <3>2, <1>3
    <3>4. \A g \in grants : g.voter = n => ~(g.term > y.term)
      <4>1. \A g \in grants : g.voter = n => g.term <= node[n].term /\ g.term \in Nat
        BY <1>t DEF VotesInv
      <4> QED BY <4>1, <1>2
    <3> QED BY <3>2, <3>3, <3>4, <1>1, <1>2 DEF Keeps
  <2>3. \A t \in Term : /\ Own(t)' = Own(t) /\ Len(led[t].log) \in Nat
                        /\ \A i \in Own(t) : i <= Len(led[t].log) /\ i \in Nat
    BY <1>t DEF Own
  <2>4. \A t \in Term : \A i \in Own(t)' : ~(i > Len(led[t].log))
    BY <2>3
  <2> QED BY <2>1, <2>2, <2>4, <1>4, <1>5, SafeStep
<1> QED BY <1>4, <1>7, <1>8, <1>9, <1>10, <1>11

\* A crash keeps the invariant: terms, votes and what is on disk are kept.
LEMMA CrashKeeps ==
    ASSUME IInv, NEW n \in Server, Crash(n)
    PROVE  IInv'
<1> DEFINE x == node[n]
           z == StepDown(x, x.term)
           y == [z EXCEPT !.log = x.disk, !.committed = 0]
<1> USE DEF IInv
<1>t. Typed
  BY Types
<1>1. /\ crashes < MaxCrashes /\ crashes' = crashes + 1 /\ Update(n, y)
      /\ closures' = {c \in closures : c.peer # n}
      /\ voting' = {v \in voting : v.voter # n}
      /\ UNCHANGED <<led, acked, requests, grants, commits>>
  BY DEF Crash
<1>2. /\ z \in Node /\ z.state = "FOLLOWER" /\ z.term = x.term /\ z.voted = x.voted
      /\ z.disk = x.disk /\ z.pending = 0
  BY <1>t, StepDownFacts
<1>3. /\ y \in Node /\ y.state = "FOLLOWER" /\ y.term = x.term /\ y.voted = x.voted
      /\ y.log = x.disk /\ y.disk = x.disk /\ y.pending = 0 /\ y.committed = 0
  <2> HIDE DEF z
  <2>1. x.disk \in Logs /\ 0 \in 0..MaxLog
    BY <1>t, BoundAssumption
  <2> QED BY <1>2, <2>1 DEF Node
<1>4. y.committed <= Len(y.log)
  BY <1>3, <1>t, LogType
<1> HIDE DEF y
<1>5. Rooted(y.log, led) /\ UpTo(y.log, y.term) /\ Rooted(y.disk, led) /\ UpTo(y.disk, y.term)
  BY <1>3 DEF LogsInv
<1>6. \A t \in Term : \A i \in Own(t) :
         Keeps(n, t, i) => Agree(y.log, led[t].log, i) /\ Agree(y.disk, led[t].log, i)
  BY <1>3 DEF Keeps
<1>7. /\ closures' \subseteq [peer: Server, term: Term, last: 1..MaxLog, committed: 0..MaxLog]
      /\ \A c \in closures' : c \in closures /\ c.peer # n
      /\ \A c, d \in closures' : c.peer = d.peer /\ c.term = d.term => c = d
  BY <1>1 DEF TypeOK, LogsInv
<1>8. crashes' \in 0..MaxCrashes /\ voting' \subseteq voting
  BY <1>1, BoundAssumption DEF TypeOK
<1>9. Backed(y.log, y.committed, y.term, led)
  BY <1>3 DEF Backed
<1> QED BY <1>1, <1>3, <1>4, <1>5, <1>6, <1>7, <1>8, <1>9, StoreKeeps

\* The greatest of one number.
LEMMA MaxFacts ==
    ASSUME NEW a \in Nat
    PROVE  Max({a}) = a /\ Max({0} \union {a}) = a /\ Max({0} \union {}) = 0
<1>1. \A b \in {a} : (\A c \in {a} : b >= c) <=> b = a
  OBVIOUS
<1>2. Max({a}) = a
  BY <1>1 DEF Max
<1>3. \A b \in {0, a} : (\A c \in {0, a} : b >= c) <=> b = a
  OBVIOUS
<1>4. Max({0, a}) = a
  BY <1>3 DEF Max
<1>5. \A b \in {0} : (\A c \in {0} : b >= c) <=> b = 0
  OBVIOUS
<1>6. Max({0}) = 0
  BY <1>5 DEF Max
<1>7. {0} \union {a} = {0, a} /\ {0} \union {} = {0}
  OBVIOUS
<1> QED BY <1>2, <1>4, <1>6, <1>7

\* Where a commit index is taken over.
LEMMA CommittedIndexFacts ==
    ASSUME NEW x \in Node, NEW i \in 0..MaxLog
    PROVE  LET y == SetLastCommittedIndex(x, i)
           IN  /\ y \in Node /\ y.state = x.state /\ y.term = x.term /\ y.voted = x.voted
               /\ y.log = x.log /\ y.disk = x.disk /\ y.pending = x.pending
               /\ \/ y.committed = x.committed
                  \/ y.committed = i /\ x.pending = 0 /\ i > x.committed
<1> DEFINE y == SetLastCommittedIndex(x, i)
<1>1. CASE x.pending = 0 /\ i > x.committed
  BY <1>1 DEF SetLastCommittedIndex, Node
<1>2. CASE ~(x.pending = 0 /\ i > x.committed)
  <2>1. y = x
    BY <1>2 DEF SetLastCommittedIndex
  <2> QED BY <2>1
<1> QED BY <1>1, <1>2

\* The disk thread keeps the invariant: what it acknowledges is then stored.
LEMMA FlushKeeps ==
    ASSUME IInv, NEW n \in Server, Flush(n)
    PROVE  IInv'
<1> DEFINE x == Written(node[n])
           run == {c \in closures : c.peer = n}
           live == {c \in run : c.term = x.term}
           m == Max({0} \union {c.committed : c \in live})
           y == SetLastCommittedIndex(x, m)
<1> USE DEF IInv
<1>t. Typed
  BY Types
<1>1. /\ closures' = closures \ run
      /\ acked' = IF x.state = "LEADER" THEN Ack(n, x.term, Len(x.log))
                  ELSE IF live = {} THEN acked
                  ELSE Ack(n, x.term, Max({c.last : c \in live}))
      /\ Update(n, y)
      /\ UNCHANGED <<led, requests, voting, grants, commits, crashes>>
  BY DEF Flush
<1>2. /\ x \in Node /\ x.state = node[n].state /\ x.term = node[n].term
      /\ x.voted = node[n].voted /\ x.log = node[n].log /\ x.disk = node[n].log
      /\ x.pending = node[n].pending /\ x.committed = node[n].committed
      /\ x.log \in Logs /\ x.term \in Term /\ Len(x.log) \in Nat /\ x.committed \in Nat
  <2>1. node[n] \in Node /\ node[n].log \in Logs
    BY <1>t
  <2>2. /\ x \in Node /\ x.state = node[n].state /\ x.term = node[n].term
        /\ x.voted = node[n].voted /\ x.log = node[n].log /\ x.disk = node[n].log
        /\ x.pending = node[n].pending /\ x.committed = node[n].committed
    BY <2>1 DEF Written, Node
  <2> HIDE DEF x
  <2> QED BY <2>1, <2>2, <1>t, LogType
<1> HIDE DEF x
<1>3. ASSUME NEW c \in live
      PROVE  /\ live = {c} /\ c.committed \in Nat /\ c.last \in Nat
             /\ c.committed \in 0..MaxLog /\ c.last \in 1..MaxLog
             /\ c.committed <= c.last /\ c.committed <= led[x.term].committed
             /\ Agree(x.log, led[x.term].log, c.last)
  <2>1. c \in closures /\ c.peer = n /\ c.term = x.term
    OBVIOUS
  <2>2. c.committed \in 0..MaxLog /\ c.last \in 1..MaxLog
    BY <2>1 DEF TypeOK
  <2>3. \A d \in live : d = c
    BY <2>1 DEF LogsInv
  <2>4. /\ c.committed <= c.last /\ c.committed <= led[c.term].committed
        /\ Agree(node[n].log, led[c.term].log, c.last)
    BY <2>1, <1>2 DEF LogsInv
  <2> QED BY <2>1, <2>2, <2>3, <2>4, <1>2, <1>t
<1>4. /\ m \in 0..MaxLog /\ m <= Len(x.log) /\ m <= led[x.term].committed
      /\ m # 0 => Agree(x.log, led[x.term].log, m)
  <2>1. CASE live = {}
    <3>1. {c.committed : c \in live} = {}
      BY <2>1
    <3>2. m = 0
      BY <3>1, MaxFacts
    <3> QED BY <3>2, <1>2, <1>t, BoundAssumption
  <2>2. ASSUME NEW c \in live PROVE m = c.committed /\ Agree(x.log, led[x.term].log, m)
    <3>1. {d.committed : d \in live} = {c.committed}
      BY <1>3
    <3>2. m = c.committed
      BY <3>1, <1>3, MaxFacts
    <3>3. /\ Agree(x.log, led[x.term].log, c.last) /\ c.committed <= c.last
          /\ c.last \in Nat /\ c.committed \in Nat
          /\ Len(x.log) \in Nat /\ Len(led[x.term].log) \in Nat
      BY <1>2, <1>3, <1>t
    <3> HIDE DEF m
    <3> QED BY <3>2, <3>3 DEF Agree
  <2>3. ASSUME NEW c \in live PROVE m \in 0..MaxLog /\ m <= Len(x.log) /\ m <= led[x.term].committed
    BY <2>2, <1>2, <1>3 DEF Agree
  <2> QED BY <2>1, <2>2, <2>3
<1> HIDE DEF m
<1>5. /\ y \in Node /\ y.state = x.state /\ y.term = x.term /\ y.voted = x.voted
      /\ y.log = x.log /\ y.disk = x.log /\ y.pending = x.pending
      /\ \/ y.committed = x.committed
         \/ y.committed = m /\ x.pending = 0 /\ m > x.committed
  BY <1>2, <1>4, CommittedIndexFacts
<1> HIDE DEF y
<1>6. /\ y.committed <= Len(y.log)
      /\ y.pending # 0 =>
            /\ y.state = "LEADER"
            /\ y.pending \in y.committed + 1..Len(y.log) + 1
  BY <1>2, <1>4, <1>5 DEF TypeOK
<1>7. Rooted(y.log, led) /\ UpTo(y.log, y.term) /\ Rooted(y.disk, led) /\ UpTo(y.disk, y.term)
  BY <1>2, <1>5 DEF LogsInv
<1>8. Backed(y.log, y.committed, y.term, led)
  <2>1. CASE y.committed = x.committed
    BY <1>2, <1>5, <2>1 DEF CommitInv
  <2>2. CASE y.committed = m
    <3>1. CASE m = 0
      BY <2>2, <3>1 DEF Backed
    <3>2. CASE m # 0
      <4>1. /\ Backed(led[x.term].log, led[x.term].committed, x.term, led)
            /\ led[x.term].log \in Logs /\ led[x.term].committed \in Nat /\ x.term \in Nat
        BY <1>2, <1>t DEF CommitInv
      <4>2. m \in Nat /\ Agree(x.log, led[x.term].log, m) /\ m <= led[x.term].committed
        BY <1>4, <3>2
      <4>3. Backed(x.log, m, x.term, led)
        BY <4>1, <4>2, <1>2, BackedLess
      <4> QED BY <4>3, <2>2, <1>5
    <3> QED BY <3>1, <3>2
  <2> QED BY <1>5, <2>1, <2>2
<1>9. /\ closures' \subseteq [peer: Server, term: Term, last: 1..MaxLog, committed: 0..MaxLog]
      /\ \A c \in closures' : c \in closures /\ c.peer # n
      /\ \A c, d \in closures' : c.peer = d.peer /\ c.term = d.term => c = d
  BY <1>1 DEF TypeOK, LogsInv
<1>10. \A t \in Term : \A i \in Own(t) :
          Keeps(n, t, i) => Agree(y.log, led[t].log, i) /\ Agree(y.disk, led[t].log, i)
  BY <1>2, <1>5 DEF Keeps
<1>11. ASSUME acked' # acked
       PROVE  \E k \in 1..MaxLog :
                 acked' = Ack(n, y.term, k) /\ Agree(x.log, led[y.term].log, k)
  <2>1. CASE x.state = "LEADER"
    <3>1. acked' = Ack(n, x.term, Len(x.log)) /\ x.log = led[x.term].log
      BY <1>1, <1>2, <2>1 DEF LogsInv
    <3>2. Len(x.log) \in 0..MaxLog /\ Agree(x.log, led[x.term].log, Len(x.log))
      BY <3>1, <1>2, LogType DEF Agree
    <3>3. Len(x.log) # 0
      <4> SUFFICES ASSUME Len(x.log) = 0 PROVE FALSE
        OBVIOUS
      <4>1. led[x.term].leader = n /\ node[n].pending # 0
        BY <1>2, <2>1 DEF LedInv
      <4>2. \A p \in Server : ~(0 > acked[x.term][p])
        BY <1>2, <1>t
      <4>3. Ack(n, x.term, 0) = acked
        BY <4>2, <1>2 DEF Ack, TypeOK
      <4> QED BY <3>1, <4>3, <1>11
    <3>4. Len(x.log) \in 1..MaxLog
      BY <3>2, <3>3
    <3> QED BY <3>1, <3>2, <3>4, <1>5
  <2>2. CASE x.state # "LEADER"
    <3>1. live # {} /\ acked' = Ack(n, x.term, Max({c.last : c \in live}))
      BY <1>1, <1>11, <2>2
    <3>2. PICK c \in live : TRUE
      BY <3>1
    <3>3. {d.last : d \in live} = {c.last}
      BY <1>3
    <3>4. Max({d.last : d \in live}) = c.last
      BY <3>3, <1>3, MaxFacts
    <3> QED BY <3>1, <3>4, <1>3, <1>5
  <2> QED BY <2>1, <2>2
<1>12. \/ acked' = acked
       \/ \E k \in 1..MaxLog :
             /\ acked' = Ack(n, y.term, k) /\ k <= Len(led[y.term].log)
             /\ \A i \in Own(y.term) :
                   i <= k /\ i > led[y.term].committed =>
                      /\ Agree(y.log, led[y.term].log, i)
                      /\ Agree(y.disk, led[y.term].log, i)
  <2> SUFFICES ASSUME NEW k \in 1..MaxLog,
                      acked' = Ack(n, y.term, k), Agree(x.log, led[y.term].log, k)
               PROVE  /\ k <= Len(led[y.term].log)
                      /\ \A i \in Own(y.term) : i <= k => Agree(x.log, led[y.term].log, i)
    BY <1>5, <1>11
  <2>1. k \in Nat /\ \A i \in Own(y.term) : i \in Nat
    BY <1>2, <1>5, <1>t, BoundAssumption DEF Own
  <2>2. x.log \in Logs /\ led[y.term].log \in Logs
    BY <1>2, <1>5, <1>t
  <2> QED BY <2>1, <2>2, LogType DEF Agree
<1>13. crashes' \in 0..MaxCrashes /\ voting' \subseteq voting
  BY <1>1 DEF TypeOK
<1>14. /\ y.term = node[n].term /\ y.voted = node[n].voted /\ y.state = node[n].state
       /\ y.log = node[n].log /\ y.pending = node[n].pending
       /\ y.pending # 0 => y.committed = node[n].committed
       /\ UNCHANGED <<led, requests, grants, commits>>
  BY <1>1, <1>2, <1>5
<1>15. \A d \in closures' : (d \in closures \/ d.peer = n) /\ d.peer # n
  BY <1>9
<1> HIDE DEF live, run
<1> QED BY <1>1, <1>5, <1>6, <1>7, <1>8, <1>9, <1>10, <1>12, <1>13, <1>14, <1>15, StoreKeeps

\* commit_at keeps the invariant: it commits an entry of the leader's own term
\* that a majority has stored.
LEMMA CommitAtKeeps ==
    ASSUME IInv, NEW n \in Server, NEW i \in 1..MaxLog, CommitAt(n, i)
    PROVE  IInv'
<1> DEFINE x == node[n]
           s == x.term
           y == [x EXCEPT !.committed = i, !.pending = i + 1]
           c == [log |-> SubSeq(x.log, 1, i), term |-> s]
<1> USE DEF IInv
<1>t. Typed
  BY Types
<1>1. /\ x.pending # 0 /\ i \in x.pending..Len(x.log) /\ Granted(s, i) /\ Update(n, y)
      /\ led' = [led EXCEPT ![s].committed = i]
      /\ commits' = commits \union {c}
      /\ UNCHANGED <<closures, acked, requests, voting, grants, crashes>>
  BY DEF CommitAt
<1>2. /\ x \in Node /\ x.log \in Logs /\ s \in Term /\ i \in Nat /\ x.pending \in Nat
      /\ Len(x.log) \in 0..MaxLog /\ Len(x.log) \in Nat
      /\ x.state = "LEADER" /\ led[s].leader = n /\ n # NONE
      /\ led[s].committed < i /\ led[s].committed \in Nat
      /\ x.log = led[s].log /\ x.log[i] = s
      /\ \A j \in x.pending..Len(x.log) : x.log[j] = s
  <2>1. x \in Node /\ x.log \in Logs /\ s \in Term /\ x.pending \in Nat /\ led[s].committed \in Nat
    BY <1>t
  <2>2. Len(x.log) \in 0..MaxLog /\ Len(x.log) \in Nat /\ i \in Nat
    BY <2>1, LogType, BoundAssumption
  <2>3. x.state = "LEADER"
    BY <1>1 DEF TypeOK
  <2>4. /\ led[s].leader = n /\ n # NONE /\ x.log = led[s].log
        /\ \A j \in x.pending..Len(x.log) : x.log[j] = s
        /\ led[s].committed = x.committed
    BY <2>3, ServerAssumption DEF LedInv, LogsInv, CommitInv
  <2>5. x.pending \in x.committed + 1..Len(x.log) + 1
    BY <1>1 DEF TypeOK
  <2> QED BY <1>1, <2>1, <2>2, <2>3, <2>4, <2>5
<1>3. /\ y \in Node /\ y.state = "LEADER" /\ y.term = s /\ y.voted = x.voted
      /\ y.log = x.log /\ y.disk = x.disk /\ y.pending = i + 1 /\ y.committed = i
  <2>1. i \in 0..MaxLog /\ i + 1 \in 0..MaxLog + 1
    BY <1>2, BoundAssumption
  <2> QED BY <1>2, <2>1 DEF Node
<1> HIDE DEF y
<1>4. y.committed <= Len(y.log) /\ y.pending \in y.committed + 1..Len(y.log) + 1
  BY <1>1, <1>2, <1>3
<1>5. node'[n] = y /\ \A p \in Server : p # n => node'[p] = node[p]
  BY <1>1, <1>3, <1>4, NodeType
<1>6. /\ led'[s].leader = n /\ led'[s].log = led[s].log /\ led'[s].committed = i
      /\ \A t \in Term : t # s => led'[t] = led[t]
      /\ led' \in [Term -> [leader: Server \union {NONE}, log: Logs, committed: 0..MaxLog]]
  <2>1. i \in 0..MaxLog
    BY <1>2
  <2>2. led \in [Term -> [leader: Server \union {NONE}, log: Logs, committed: 0..MaxLog]]
    BY DEF TypeOK
  <2>3. /\ led'[s].leader = led[s].leader /\ led'[s].log = led[s].log /\ led'[s].committed = i
        /\ \A t \in Term : t # s => led'[t] = led[t]
    BY <1>1, <1>2, <2>2
  <2>4. led' \in [Term -> [leader: Server \union {NONE}, log: Logs, committed: 0..MaxLog]]
    BY <1>1, <2>1, <2>2
  <2> QED BY <1>2, <2>3, <2>4
<1>7. /\ c.term = s /\ c.log \in Logs /\ Len(c.log) = i
      /\ Agree(c.log, x.log, i)
  <2>1. i \in 0..Len(x.log)
    BY <1>1, <1>2
  <2>2. c.log = SubSeq(x.log, 1, i) /\ c.term = s
    OBVIOUS
  <2>3. /\ SubSeq(x.log, 1, i) \in Logs /\ Len(SubSeq(x.log, 1, i)) = i
        /\ \A j \in 1..i : SubSeq(x.log, 1, i)[j] = x.log[j]
    BY <1>2, <2>1, PrefixFacts
  <2> QED BY <1>2, <2>1, <2>2, <2>3 DEF Agree
<1>8. TypeOK'
  <2>1. commits' \subseteq [log: Logs, term: Term]
    BY <1>1, <1>2, <1>7 DEF TypeOK
  <2> QED BY <1>1, <1>3, <1>4, <1>6, <2>1, NodeType DEF TypeOK
<1> HIDE DEF c
<1>u. Typed'
  BY <1>8, TypesNext
<1>9. \A t \in Term : led'[t].log = led[t].log /\ led'[t].leader = led[t].leader
  BY <1>2, <1>6
<1>10. Grows
  <2>1. \A t \in Term : Agree(led[t].log, led'[t].log, Len(led[t].log))
    BY <1>9, <1>t DEF Agree
  <2>2. \A t \in Term : led[t].committed <= led'[t].committed
    BY <1>2, <1>6, <1>t
  <2>3. \A p \in Server : node[p].term <= node'[p].term
    BY <1>3, <1>5, <1>t
  <2>4. \A p \in Server, t \in Term :
           node'[p].state = "CANDIDATE" /\ node'[p].term = t =>
              Running(p, t) /\ node'[p].log = node[p].log
    BY <1>3, <1>5 DEF Running
  <2> QED BY <1>1, <1>9, <2>1, <2>2, <2>3, <2>4 DEF Grows
<1>11. Calm
  BY <1>1, <1>2, <1>3, <1>5 DEF Calm
<1>12. VotesInv'
  BY <1>8, <1>11, VotesCalm
<1>13. LedInv'
  <2>1. \A t \in Term : led[t].leader = NONE => led'[t] = led[t]
    BY <1>2, <1>6
  <2>2. \A p \in Server : node'[p].state = "LEADER" =>
           node[p].state = "LEADER" /\ node'[p].pending # 0
    BY <1>2, <1>3, <1>5 DEF LedInv
  <2> QED BY <1>8, <1>9, <1>11, <2>1, <2>2, LedCalm
<1>14. LogsInv'
  <2>1. /\ Rooted(x.log, led') /\ UpTo(x.log, s) /\ Rooted(x.disk, led') /\ UpTo(x.disk, s)
    <3>1. /\ Rooted(x.log, led) /\ UpTo(x.log, s) /\ Rooted(x.disk, led) /\ UpTo(x.disk, s)
      BY DEF LogsInv
    <3>2. x.disk \in Logs
      BY <1>t
    <3> QED BY <1>2, <1>8, <1>10, <3>1, <3>2, RootedGrows
  <2>2. \A j \in y.pending..Len(y.log) : y.log[j] = s
    <3>1. \A j \in i + 1..Len(x.log) : j \in x.pending..Len(x.log)
      BY <1>1, <1>2
    <3> QED BY <3>1, <1>2, <1>3
  <2>3. ASSUME NEW d \in closures', d.peer = n
        PROVE  /\ d.term <= s
               /\ d.committed <= d.last /\ d.committed <= led'[d.term].committed
               /\ d.term = s => Agree(y.log, led'[d.term].log, d.last)
    <3>1. /\ d.term <= s /\ d.committed <= d.last /\ d.committed <= led[d.term].committed
          /\ d.term = s => Agree(x.log, led[d.term].log, d.last)
          /\ d.term \in Term /\ d.committed \in Nat
      BY <1>1, <2>3, <1>t DEF LogsInv
    <3>2. led[d.term].committed <= led'[d.term].committed
      BY <3>1, <1>10 DEF Grows
    <3>3. led[d.term].committed \in Nat /\ led'[d.term].committed \in Nat
      BY <3>1, <1>t, <1>u
    <3> QED BY <3>1, <3>2, <3>3, <1>3, <1>9
  <2>4. /\ \A d \in closures' : d \in closures
        /\ \A d, e \in closures' : d.peer = e.peer /\ d.term = e.term => d = e
    BY <1>1 DEF LogsInv
  <2> QED BY <2>1, <2>2, <2>3, <2>4, <1>2, <1>3, <1>5, <1>8, <1>9, <1>10, LogsStep
<1>15. CommitInv'
  <2>u. PICK u \in Term : u = s
    BY <1>2
  <2>d. PICK d : d = c
    OBVIOUS
  <2>1. i \in Own(u)' /\ Granted(u, led[u].committed)'
    <3>1. i \in Own(u)'
      <4>1. /\ i \in x.pending..Len(x.log) /\ i \in 1..MaxLog /\ i \in Nat
            /\ x.log = led[u].log /\ x.log[i] = u /\ led'[u].log = led[u].log
        BY <1>1, <1>2, <1>9, <2>u
      <4>2. i \in 1..Len(led'[u].log) /\ led'[u].log[i] = u
        BY <4>1
      <4> QED BY <4>2 DEF Own
    <3>2. Majority({p \in Server : acked'[u][p] >= led'[u].committed})
      BY <1>1, <1>6, <2>u DEF Granted
    <3>3. Granted(u, led[u].committed)'
      BY <3>2 DEF Granted, Majority
    <3> QED BY <3>1, <3>3
  <2>8. OwnCommit(u, led')
    BY <2>1, <2>u, <1>6 DEF Own, OwnCommit
  <2>9. Backed(led'[u].log, i, u, led') /\ Backed(node'[n].log, i, u, led')
    <3>1. led'[u].committed = i /\ led'[u].log = x.log /\ node'[n].log = x.log
      BY <2>u, <1>2, <1>3, <1>5, <1>6
    <3>2. Agree(x.log, x.log, i)
      BY <1>1, <1>2 DEF Agree
    <3>3. u <= u /\ i <= i
      BY <1>2, <1>t
    <3> QED BY <2>8, <3>1, <3>2, <3>3 DEF Backed
  <2>2. ASSUME NEW t \in Term
        PROVE  \/ led'[t].committed = led[t].committed
               \/ /\ led'[t].leader = n
                  /\ Backed(led'[t].log, led'[t].committed, t, led')
                  /\ OwnCommit(t, led) => OwnCommit(t, led')
                  /\ OwnCommit(t, led') => Granted(t, led[t].committed)'
    <3>1. CASE t = u
      BY <2>1, <2>8, <2>9, <2>u, <3>1, <1>6
    <3>2. CASE t # u
      BY <2>u, <3>2, <1>6
    <3> QED BY <3>1, <3>2
  <2>3. led'[node'[n].term].committed = node'[n].committed
    BY <1>2, <1>3, <1>5, <1>6
  <2>4. Backed(node'[n].log, node'[n].committed, node'[n].term, led')
    BY <2>9, <2>u, <1>3, <1>5
  <2>5. /\ commits' = commits \union {d} /\ d.term = u
        /\ Len(d.log) = i /\ i <= led'[u].committed /\ Agree(d.log, led'[u].log, i)
    BY <2>u, <2>d, <1>1, <1>2, <1>6, <1>7
  <2>7. /\ Len(d.log) \in Own(d.term)' /\ Len(d.log) <= led'[d.term].committed
        /\ Agree(d.log, led'[d.term].log, Len(d.log))
    BY <2>1, <2>5
  <2>6. \A t \in Term, p \in Server : acked'[t][p] = acked[t][p]
    BY <1>1
  <2> QED BY <2>2, <2>3, <2>4, <2>5, <2>6, <2>7, <1>2, <1>5, <1>8, <1>10, CommitStep
<1>16. SafeInv'
  <2>1. ASSUME NEW t \in Term, NEW p \in Server, NEW j \in Own(t), Keeps(p, t, j)
        PROVE  Keeps(p, t, j)'
    <3>1. node'[p].log = node[p].log /\ node'[p].disk = node[p].disk
      BY <1>3, <1>5
    <3> QED BY <1>1, <1>8, <1>10, <2>1, <3>1, KeepsStep DEF Keeps
  <2>2. \A t \in Term, p \in Server : \A j \in Own(t) : ~(acked[t][p] < j /\ acked'[t][p] >= j)
    <3>1. \A t \in Term, p \in Server : \A j \in Own(t) : acked[t][p] \in Nat /\ j \in Nat
      BY <1>t DEF Own
    <3> QED BY <1>1, <3>1
  <2>3. \A t \in Term : led'[t].committed # led[t].committed =>
           acked' = acked /\ Granted(t, led'[t].committed)
    BY <1>1, <1>6
  <2>4. \A t \in Term : \A j \in Own(t)' : ~(j > Len(led[t].log))
    <3>1. \A t \in Term : Own(t)' = Own(t) /\ Len(led[t].log) \in Nat
      BY <1>9, <1>t DEF Own
    <3>2. \A t \in Term : \A j \in Own(t) : j \in Nat /\ j <= Len(led[t].log)
      BY <3>1 DEF Own
    <3> QED BY <3>1, <3>2
  <2>5. \A u \in Term : ~(led[u].leader = NONE /\ led'[u].leader # NONE)
    BY <1>9
  <2> QED BY <2>1, <2>2, <2>3, <2>4, <2>5, <1>8, <1>10, SafeStep
<1> QED BY <1>8, <1>12, <1>13, <1>14, <1>15, <1>16

\* Conflict resolution: what the log l shares with the log e of the leader stays,
\* and it has the entries of e up to k then.
LEMMA AddEntriesFacts ==
    ASSUME NEW l \in Logs, NEW e \in Logs, NEW k \in 1..Len(e), NEW prev \in 0..k - 1,
           Agree(l, e, prev)
    PROVE  LET m == AddEntries(l, e, prev, k)
           IN  /\ m \in Logs /\ Agree(m, e, k)
               /\ m = l \/ m = SubSeq(e, 1, k)
               /\ \A i \in Nat : Agree(l, e, i) => Agree(m, e, i)
<1>1. Len(l) \in Nat /\ Len(e) \in Nat /\ k \in Nat /\ prev \in Nat /\ prev < k /\ k <= Len(e)
  BY LogType
<1>2. /\ SubSeq(e, 1, k) \in Logs /\ Len(SubSeq(e, 1, k)) = k
      /\ \A i \in 1..k : SubSeq(e, 1, k)[i] = e[i]
  BY <1>1, PrefixFacts
<1>3. CASE k <= Len(l) /\ \A i \in prev + 1..k : l[i] = e[i]
  <2>1. AddEntries(l, e, prev, k) = l
    BY <1>3 DEF AddEntries
  <2>2. Agree(l, e, k)
    BY <1>1, <1>3 DEF Agree
  <2> QED BY <2>1, <2>2
<1>4. CASE ~(k <= Len(l) /\ \A i \in prev + 1..k : l[i] = e[i])
  <2>1. AddEntries(l, e, prev, k) = SubSeq(e, 1, k)
    BY <1>4 DEF AddEntries
  <2>2. Agree(SubSeq(e, 1, k), e, k)
    BY <1>1, <1>2 DEF Agree
  <2>3. ASSUME NEW i \in Nat, Agree(l, e, i) PROVE Agree(SubSeq(e, 1, k), e, i)
    <3>1. i <= k
      <4> SUFFICES ASSUME i > k PROVE FALSE
        BY <1>1
      <4>1. k <= Len(l) /\ \A j \in prev + 1..k : l[j] = e[j]
        BY <1>1, <2>3 DEF Agree
      <4> QED BY <4>1, <1>4
    <3> QED BY <3>1, <1>1, <1>2, <2>3 DEF Agree
  <2> QED BY <1>2, <2>1, <2>2, <2>3
<1> QED BY <1>3, <1>4

\* What AppendEntries of a leader finds at the node: nothing above its term, a
\* log that agrees with that of the leader as far as the node has committed.
LEMMA FollowerCommitted ==
    ASSUME IInv, NEW n \in Server, NEW t \in Term, led[t].leader # NONE,
           t >= node[n].term, node[n].committed # 0
    PROVE  \/ /\ node[n].committed <= led[t].committed /\ OwnCommit(t, led)
              /\ Agree(node[n].log, led[t].log, node[n].committed)
           \/ \E u \in Term : /\ u < t /\ node[n].committed <= led[u].committed
                              /\ OwnCommit(u, led)
                              /\ Agree(node[n].log, led[t].log, node[n].committed)
                              /\ Agree(led[t].log, led[u].log, node[n].committed)
<1> USE DEF IInv
<1>t. Typed
  BY Types
<1>1. PICK u \in Term : /\ u <= node[n].term /\ node[n].committed <= led[u].committed
                        /\ Agree(node[n].log, led[u].log, node[n].committed)
                        /\ OwnCommit(u, led)
  BY DEF CommitInv, Backed
<1>2. CASE u = t
  BY <1>1, <1>2
<1>3. CASE u # t
  <2>1. u < t
    BY <1>1, <1>3, <1>t
  <2>2. led[u].committed # 0 /\ led[u].committed \in Own(u)
    BY <1>1, <1>t, BackedFacts
  <2>3. Agree(led[t].log, led[u].log, led[u].committed)
    <3>1. led[u].committed <= led[u].committed
      BY <1>t
    <3> QED BY <2>1, <2>2, <3>1, CommittedSafe
  <2>4. /\ led[t].log \in Logs /\ led[u].log \in Logs /\ node[n].log \in Logs
        /\ led[u].committed \in Nat /\ node[n].committed \in Nat
    BY <1>t
  <2>5. Agree(led[t].log, led[u].log, node[n].committed)
    BY <2>3, <2>4, <1>1, AgreeFacts
  <2>6. Agree(node[n].log, led[t].log, node[n].committed)
    BY <2>4, <2>5, <1>1, AgreeFacts
  <2> QED BY <2>1, <2>5, <2>6, <1>1
<1> QED BY <1>2, <1>3

\* A log with the entry before agrees with the leader's up to it.
LEMMA ReachesFacts ==
    ASSUME IInv, NEW n \in Server, NEW t \in Term, NEW prev \in 0..Len(led[t].log),
           Reaches(node[n].log, led[t].log, prev)
    PROVE  Agree(node[n].log, led[t].log, prev)
<1> USE DEF IInv
<1>1. /\ node[n].log \in Logs /\ led[t].log \in Logs
      /\ Rooted(node[n].log, led) /\ Rooted(led[t].log, led)
      /\ Len(node[n].log) \in Nat /\ Len(led[t].log) \in Nat
  BY Types, LogType DEF LogsInv
<1>2. prev <= Len(node[n].log)
  BY DEF Reaches
<1>3. CASE prev = 0
  BY <1>1, <1>3 DEF Agree
<1>4. CASE prev # 0
  <2>1. prev \in 1..Len(node[n].log) /\ prev <= Len(led[t].log)
    BY <1>1, <1>2, <1>4
  <2>2. node[n].log[prev] = led[t].log[prev]
    BY <1>4 DEF Reaches
  <2>3. led \in [Term -> [leader: Server \union {NONE}, log: Logs, committed: 0..MaxLog]]
    BY DEF TypeOK
  <2> QED BY <1>1, <2>1, <2>2, <2>3, RootsMatch
<1> QED BY <1>3, <1>4

\* handle_append_entries_request keeps the invariant: what it takes from a
\* leader leaves alone what the node shares with it, and what the node keeps of
\* earlier leaders this one has.
LEMMA HandleAppendEntriesRequestKeeps ==
    ASSUME IInv, NEW n \in Server, NEW t \in Term, NEW k \in 0..Len(led[t].log),
           NEW prev \in 0..k, HandleAppendEntriesRequest(n, t, prev, k)
    PROVE  IInv'
<1> DEFINE e == led[t].log
           c == led[t].committed
           x == IF t > node[n].term \/ node[n].state # "FOLLOWER"
                THEN StepDown(node[n], t) ELSE node[n]
<1> USE DEF IInv
<1>t. Typed
  BY Types
<1>0. /\ e \in Logs /\ Len(e) \in 0..MaxLog /\ Len(e) \in Nat /\ c \in Nat /\ t \in Nat
      /\ node[n] \in Node /\ node[n].term \in Nat /\ node[n].log \in Logs
      /\ Len(node[n].log) \in Nat
      /\ prev \in Nat /\ k \in Nat /\ prev \in 0..Len(e) /\ prev <= k /\ k <= Len(e)
      /\ node[n].committed \in Nat
      /\ n # NONE /\ Rooted(e, led) /\ UpTo(e, t)
  <2>1. e \in Logs /\ Len(e) \in Nat /\ c \in Nat /\ t \in Nat /\ node[n] \in Node
        /\ node[n].term \in Nat /\ node[n].log \in Logs /\ node[n].committed \in Nat
    BY <1>t
  <2>2. Len(e) \in 0..MaxLog /\ Len(node[n].log) \in Nat
    BY <2>1, LogType
  <2>3. prev \in Nat /\ k \in Nat /\ prev \in 0..Len(e) /\ prev <= k /\ k <= Len(e)
    BY <2>1
  <2> QED BY <2>1, <2>2, <2>3, ServerAssumption DEF LogsInv
<1>1. /\ led[t].leader \notin {NONE, n} /\ t >= node[n].term
      /\ UNCHANGED <<led, requests, voting, grants, commits, crashes>>
      /\ \/ /\ ~Reaches(x.log, e, prev)
            /\ node[n] # x /\ Update(n, x)
            /\ UNCHANGED <<closures, acked>>
         \/ /\ Reaches(x.log, e, prev)
            /\ k = prev
            /\ Update(n, SetLastCommittedIndex(x, Least(c, prev)))
            /\ UNCHANGED <<closures, acked>>
         \/ /\ Reaches(x.log, e, prev)
            /\ k \in prev + 1..x.committed
            /\ Update(n, x)
            /\ acked' = Ack(n, t, k) /\ UNCHANGED closures
         \/ /\ Reaches(x.log, e, prev)
            /\ k > prev
            /\ \A o \in closures : o.peer # n \/ o.term # t
            /\ Update(n, [x EXCEPT !.log = AddEntries(@, e, prev, k)])
            /\ closures' = closures \union
                  {[peer |-> n, term |-> t, last |-> k, committed |-> Least(c, k)]}
            /\ UNCHANGED acked
  BY DEF HandleAppendEntriesRequest
<1>2. /\ x \in Node /\ x.state = "FOLLOWER" /\ x.term = t
      /\ x.voted = (IF t > node[n].term THEN NONE ELSE node[n].voted)
      /\ x.log = node[n].log /\ x.disk = node[n].disk
      /\ x.pending = 0 /\ x.committed = node[n].committed
  <2>1. CASE t > node[n].term \/ node[n].state # "FOLLOWER"
    BY <1>0, <1>1, <2>1, StepDownFacts
  <2>2. CASE ~(t > node[n].term \/ node[n].state # "FOLLOWER")
    <3>1. node[n].pending = 0
      BY <2>2 DEF TypeOK
    <3> QED BY <1>0, <1>1, <2>2, <3>1
  <2> QED BY <2>1, <2>2
<1>3. CASE ~Reaches(x.log, e, prev)
  <2>1. x = StepDown(node[n], t) /\ Update(n, x) /\ UNCHANGED <<closures, acked>>
    BY <1>1, <1>3
  <2> QED BY <1>1, <2>1, StepDownKeeps
<1> SUFFICES ASSUME Reaches(x.log, e, prev) PROVE IInv'
  BY <1>3
<1>4. Agree(x.log, e, prev)
  BY <1>0, <1>2, ReachesFacts
<1> HIDE DEF x
<1>5. \/ x.term = node[n].term /\ x.voted = node[n].voted
      \/ x.term > node[n].term /\ x.voted = NONE /\ x.state = "FOLLOWER"
  BY <1>0, <1>1, <1>2
<1>6. /\ Rooted(x.log, led) /\ UpTo(x.log, t) /\ Rooted(x.disk, led) /\ UpTo(x.disk, t)
  <2>1. /\ Rooted(node[n].log, led) /\ UpTo(node[n].log, node[n].term)
        /\ Rooted(node[n].disk, led) /\ UpTo(node[n].disk, node[n].term)
        /\ node[n].disk \in Logs
    BY <1>t DEF LogsInv
  <2> QED BY <2>1, <1>0, <1>1, <1>2, UpToGrows
<1>7. x.committed <= Len(x.log)
  BY <1>2 DEF TypeOK
<1>8. \A d \in closures : d.peer = n =>
         /\ d.term <= t /\ d.committed <= d.last /\ d.committed <= led[d.term].committed
         /\ d.term = t => Agree(x.log, led[d.term].log, d.last)
  <2> SUFFICES ASSUME NEW d \in closures, d.peer = n
               PROVE  /\ d.term <= t /\ d.committed <= d.last
                      /\ d.committed <= led[d.term].committed
                      /\ d.term = t => Agree(x.log, led[d.term].log, d.last)
    OBVIOUS
  <2>1. /\ d.term <= node[n].term /\ d.committed <= d.last
        /\ d.committed <= led[d.term].committed
        /\ d.term = node[n].term => Agree(node[n].log, led[d.term].log, d.last)
        /\ d.term \in Term /\ d.term \in Nat
    BY <1>t DEF LogsInv
  <2> QED BY <2>1, <1>0, <1>1, <1>2
<1>9. Backed(x.log, x.committed, t, led)
  <2>1. Backed(node[n].log, node[n].committed, node[n].term, led)
    BY DEF CommitInv
  <2>2. Agree(node[n].log, node[n].log, node[n].committed)
    BY <1>0, <1>t DEF Agree, TypeOK
  <2>3. node[n].committed <= node[n].committed
    BY <1>0
  <2> QED BY <2>1, <2>2, <2>3, <1>0, <1>1, <1>2, BackedLess
<1>10. /\ closures \subseteq [peer: Server, term: Term, last: 1..MaxLog, committed: 0..MaxLog]
       /\ \A d, o \in closures : d.peer = o.peer /\ d.term = o.term => d = o
       /\ crashes' \in 0..MaxCrashes /\ voting' \subseteq voting
  BY <1>1 DEF TypeOK, LogsInv
<1>11. \A u \in Term : \A i \in Own(u) : Keeps(n, u, i) =>
          /\ u <= t /\ u \in Nat /\ i \in Nat
          /\ Agree(x.log, led[u].log, i) /\ Agree(x.disk, led[u].log, i)
  <2>1. \A u \in Term : u \in Nat /\ \A i \in Own(u) : i \in Nat
    BY <1>t DEF Own
  <2> QED BY <2>1, <1>0, <1>1, <1>2 DEF Keeps
<1>12. CASE /\ k = prev /\ Update(n, SetLastCommittedIndex(x, Least(c, prev)))
            /\ UNCHANGED <<closures, acked>>
  <2> DEFINE i == Least(c, prev)
             y == SetLastCommittedIndex(x, i)
  <2>1. i \in 0..MaxLog /\ i \in Nat /\ i <= c /\ i <= prev
    BY <1>0, BoundAssumption DEF Least
  <2> HIDE DEF i
  <2>2. /\ y \in Node /\ y.state = x.state /\ y.term = x.term /\ y.voted = x.voted
        /\ y.log = x.log /\ y.disk = x.disk /\ y.pending = x.pending
        /\ \/ y.committed = x.committed
           \/ y.committed = i /\ x.pending = 0 /\ i > x.committed
    BY <1>2, <2>1, CommittedIndexFacts
  <2>3. Update(n, y)
    BY <1>12 DEF i
  <2> HIDE DEF y
  <2>4. Agree(x.log, e, i)
    BY <1>0, <1>2, <1>4, <2>1 DEF Agree
  <2>5. y.committed <= Len(y.log)
    BY <1>7, <2>2, <2>4 DEF Agree
  <2>6. Backed(y.log, y.committed, y.term, led)
    <3>1. CASE y.committed = x.committed
      BY <3>1, <1>2, <1>9, <2>2
    <3>2. CASE y.committed = i
      <4>1. Backed(e, c, t, led)
        BY DEF CommitInv
      <4>2. t <= t
        BY <1>0
      <4>3. x.log \in Logs
        BY <1>0, <1>2
      <4>4. Backed(x.log, i, t, led)
        BY <4>1, <4>2, <4>3, <2>1, <2>4, <1>0, BackedLess
      <4> QED BY <4>4, <3>2, <1>2, <2>2
    <3> QED BY <3>1, <3>2, <2>2
  <2>7. y.pending = 0 /\ y.state = "FOLLOWER" /\ y.term = t /\ y.voted = x.voted
    BY <1>2, <2>2
  <2>8. /\ Rooted(y.log, led) /\ UpTo(y.log, y.term)
        /\ Rooted(y.disk, led) /\ UpTo(y.disk, y.term)
    BY <1>6, <2>2, <2>7
  <2>9. \A d \in closures' : d \in closures /\ (d.peer = n =>
           /\ d.term <= y.term /\ d.committed <= d.last
           /\ d.committed <= led[d.term].committed
           /\ d.term = y.term => Agree(y.log, led[d.term].log, d.last))
    BY <1>8, <1>12, <2>2, <2>7
  <2>10. \A u \in Term : \A j \in Own(u) : Keeps(n, u, j) =>
            Agree(y.log, led[u].log, j) /\ Agree(y.disk, led[u].log, j)
    BY <1>11, <2>2
  <2>11. \/ y.term = node[n].term /\ y.voted = node[n].voted
         \/ y.term > node[n].term /\ y.voted = NONE /\ y.state = "FOLLOWER"
    BY <1>2, <1>5, <2>7
  <2> QED BY <1>1, <1>10, <1>12, <2>2, <2>3, <2>5, <2>6, <2>7, <2>8, <2>9, <2>10, <2>11, StoreKeeps
<1>13. CASE /\ k \in prev + 1..x.committed /\ Update(n, x)
            /\ acked' = Ack(n, t, k) /\ UNCHANGED closures
  <2>1. k \in 1..MaxLog /\ node[n].committed # 0 /\ k <= node[n].committed
    BY <1>0, <1>2, <1>13, BoundAssumption
  <2>2. ASSUME NEW i \in Own(t), i <= k, i > c PROVE FALSE
    <3>1. i \in Nat /\ i \in 1..Len(e) /\ e[i] = t
      BY <1>0, <2>2 DEF Own
    <3>2. ~(node[n].committed <= led[t].committed)
      BY <1>0, <2>1, <2>2, <3>1
    <3>3. PICK u \in Term : u < t /\ Agree(e, led[u].log, node[n].committed)
      BY <1>0, <1>1, <2>1, <3>2, FollowerCommitted
    <3>4. i \in 1..Len(led[u].log) /\ led[u].log[i] = t
      <4>1. node[n].committed <= Len(led[u].log) /\ i \in 1..node[n].committed
        BY <1>0, <2>1, <2>2, <3>1, <3>3 DEF Agree
      <4>2. Len(led[u].log) \in Nat
        BY <1>t
      <4>3. e[i] = led[u].log[i]
        BY <3>3, <4>1 DEF Agree
      <4> QED BY <4>1, <4>2, <4>3, <1>0, <3>1
    <3>5. t <= u
      BY <3>4 DEF LogsInv, UpTo
    <3> QED BY <3>3, <3>5, <1>0, <1>t
  <2>3. \E j \in 1..MaxLog :
           /\ acked' = Ack(n, x.term, j) /\ j <= Len(led[x.term].log)
           /\ \A i \in Own(x.term) :
                 i <= j /\ i > led[x.term].committed =>
                    /\ Agree(x.log, led[x.term].log, i)
                    /\ Agree(x.disk, led[x.term].log, i)
    BY <1>0, <1>2, <1>13, <2>1, <2>2
  <2>4. \A u \in Term : \A j \in Own(u) : Keeps(n, u, j) =>
            Agree(x.log, led[u].log, j) /\ Agree(x.disk, led[u].log, j)
    BY <1>11
  <2>5. \A d \in closures' : d \in closures /\ (d.peer = n =>
           /\ d.term <= x.term /\ d.committed <= d.last
           /\ d.committed <= led[d.term].committed
           /\ d.term = x.term => Agree(x.log, led[d.term].log, d.last))
    BY <1>2, <1>8, <1>13
  <2> QED BY <1>1, <1>2, <1>5, <1>6, <1>7, <1>9, <1>10, <1>13, <2>3, <2>4, <2>5, StoreKeeps
<1>14. CASE /\ k > prev
            /\ \A o \in closures : o.peer # n \/ o.term # t
            /\ Update(n, [x EXCEPT !.log = AddEntries(@, e, prev, k)])
            /\ closures' = closures \union
                  {[peer |-> n, term |-> t, last |-> k, committed |-> Least(c, k)]}
            /\ UNCHANGED acked
  <2> DEFINE l == AddEntries(x.log, e, prev, k)
             y == [x EXCEPT !.log = l]
             o == [peer |-> n, term |-> t, last |-> k, committed |-> Least(c, k)]
  <2>1. /\ l \in Logs /\ Agree(l, e, k)
        /\ l = x.log \/ l = SubSeq(e, 1, k)
        /\ \A i \in Nat : Agree(x.log, e, i) => Agree(l, e, i)
    <3>1. k \in 1..Len(e) /\ prev \in 0..k - 1
      BY <1>0, <1>14
    <3> QED BY <3>1, <1>0, <1>2, <1>4, AddEntriesFacts
  <2> HIDE DEF l
  <2>2. /\ y \in Node /\ y.state = "FOLLOWER" /\ y.term = t /\ y.voted = x.voted
        /\ y.log = l /\ y.disk = x.disk /\ y.pending = 0 /\ y.committed = x.committed
    BY <1>2, <2>1 DEF Node
  <2>3. Update(n, y)
    BY <1>14 DEF l
  <2> HIDE DEF y
  <2>4. ASSUME x.committed # 0
        PROVE  /\ x.committed <= Len(l)
               /\ \E u \in Term : /\ u <= t /\ x.committed <= led[u].committed
                                  /\ OwnCommit(u, led)
                                  /\ Agree(l, led[u].log, x.committed)
    <3>1. \/ /\ x.committed <= led[t].committed /\ OwnCommit(t, led)
             /\ Agree(x.log, e, x.committed)
          \/ \E u \in Term : /\ u < t /\ x.committed <= led[u].committed
                             /\ OwnCommit(u, led)
                             /\ Agree(x.log, e, x.committed)
                             /\ Agree(e, led[u].log, x.committed)
      BY <1>1, <1>2, <2>4, FollowerCommitted
    <3>2. Agree(l, e, x.committed) /\ x.committed \in Nat
      BY <1>0, <1>2, <2>1, <3>1
    <3>3. x.committed <= Len(l)
      BY <3>2 DEF Agree
    <3>4. CASE x.committed <= led[t].committed /\ OwnCommit(t, led)
      BY <1>0, <3>2, <3>3, <3>4
    <3>5. ASSUME NEW u \in Term, u < t, x.committed <= led[u].committed,
                 Agree(e, led[u].log, x.committed)
          PROVE  u <= t /\ Agree(l, led[u].log, x.committed)
      <4>1. led[u].log \in Logs /\ u \in Nat
        BY <1>t
      <4> QED BY <4>1, <1>0, <2>1, <3>2, <3>5, AgreeFacts
    <3> QED BY <3>1, <3>3, <3>4, <3>5
  <2>5. y.committed <= Len(y.log)
    <3>1. CASE x.committed = 0
      BY <3>1, <2>1, <2>2, LogType
    <3> QED BY <3>1, <2>2, <2>4
  <2>6. Rooted(y.log, led) /\ UpTo(y.log, t)
    <3>1. CASE l = x.log
      BY <3>1, <1>6, <2>2
    <3>2. CASE l = SubSeq(e, 1, k)
      <4>1. Len(l) = k /\ \A i \in 1..k : l[i] = e[i]
        BY <3>2, <1>0, PrefixFacts
      <4>2. \A i \in 1..k : i \in 1..Len(e) /\ i \in Nat /\ e[i] \in Term /\ e[i] <= t
        BY <1>0, LogType DEF UpTo
      <4>3. UpTo(l, t)
        BY <4>1, <4>2 DEF UpTo
      <4>4. ASSUME NEW i \in 1..k PROVE Agree(l, led[e[i]].log, i)
        <5>1. Agree(e, led[e[i]].log, i) /\ led[e[i]].log \in Logs
          BY <4>2, <1>0, <1>t DEF Rooted
        <5>2. i <= k /\ i \in Nat
          BY <4>2, <1>0
        <5>3. Agree(l, e, i)
          BY <1>0, <2>1, <5>2, AgreeFacts
        <5> QED BY <5>1, <5>2, <5>3, <1>0, <2>1, AgreeFacts
      <4>5. Rooted(l, led)
        BY <4>1, <4>4 DEF Rooted
      <4> QED BY <4>3, <4>5, <2>2
    <3> QED BY <3>1, <3>2, <2>1
  <2>7. /\ o.peer = n /\ o.term = t /\ o.last = k /\ o.committed = Least(c, k)
        /\ o \in [peer: Server, term: Term, last: 1..MaxLog, committed: 0..MaxLog]
        /\ Least(c, k) <= k /\ Least(c, k) <= c
    BY <1>0, <1>14, BoundAssumption DEF Least
  <2>8. closures' = closures \union {o}
    BY <1>14
  <2> HIDE DEF o
  <2>9. closures' \subseteq [peer: Server, term: Term, last: 1..MaxLog, committed: 0..MaxLog]
    BY <1>10, <2>7, <2>8
  <2>10. \A d \in closures' : d \in closures \/ d.peer = n
    BY <2>7, <2>8
  <2>11. \A d \in closures' : d.peer = n =>
            /\ d.term <= y.term /\ d.committed <= d.last
            /\ d.committed <= led[d.term].committed
            /\ d.term = y.term => Agree(y.log, led[d.term].log, d.last)
    <3> SUFFICES ASSUME NEW d \in closures', d.peer = n
                 PROVE  /\ d.term <= t /\ d.committed <= d.last
                        /\ d.committed <= led[d.term].committed
                        /\ d.term = t => Agree(l, led[d.term].log, d.last)
      BY <2>2
    <3>1. CASE d = o
      BY <3>1, <1>0, <2>1, <2>7
    <3>2. CASE d \in closures
      BY <3>2, <1>8, <1>14
    <3> QED BY <3>1, <3>2, <2>8
  <2>12. \A d, b \in closures' : d.peer = b.peer /\ d.term = b.term => d = b
    BY <1>10, <1>14, <2>7, <2>8
  <2>13. ASSUME NEW u \in Term, NEW i \in Own(u), Keeps(n, u, i), ~Dead(u, i)
         PROVE  Agree(y.log, led[u].log, i) /\ Agree(y.disk, led[u].log, i)
    <3>1. /\ u <= t /\ u \in Nat /\ i \in Nat
          /\ Agree(x.log, led[u].log, i) /\ Agree(x.disk, led[u].log, i)
      BY <1>11, <2>13
    <3>2. Agree(e, led[u].log, i)
      <4>1. CASE u = t
        BY <4>1, <3>1, <1>0 DEF Agree
      <4>2. CASE u # t
        <5>1. t > u /\ led[t].leader # NONE
          BY <4>2, <3>1, <1>0, <1>1
        <5>2. Agree(led[t].log, led[u].log, i) \/ Dead(u, i)
          BY <5>1 DEF SafeInv
        <5> QED BY <5>2, <2>13
      <4> QED BY <4>1, <4>2
    <3>3. led[u].log \in Logs /\ x.log \in Logs
      BY <1>0, <1>2, <1>t
    <3>4. Agree(x.log, e, i)
      BY <3>1, <3>2, <3>3, <1>0, AgreeFacts
    <3>5. Agree(l, e, i)
      BY <3>1, <3>4, <2>1
    <3>6. Agree(l, led[u].log, i)
      BY <3>1, <3>2, <3>3, <3>5, <1>0, <2>1, AgreeFacts
    <3> QED BY <3>1, <3>6, <2>2
  <2>14. \/ y.term = node[n].term /\ y.voted = node[n].voted
         \/ y.term > node[n].term /\ y.voted = NONE /\ y.state = "FOLLOWER"
    BY <1>2, <1>5, <2>2
  <2>15. Backed(y.log, y.committed, y.term, led)
    BY <2>2, <2>4 DEF Backed
  <2>16. Rooted(y.log, led) /\ UpTo(y.log, y.term) /\ Rooted(y.disk, led) /\ UpTo(y.disk, y.term)
    BY <1>6, <2>2, <2>6
  <2>17. y.pending = 0 /\ y.state = "FOLLOWER" /\ y \in Node /\ acked' = acked
    BY <1>14, <2>2
  <2> QED BY <1>1, <1>10, <2>3, <2>5, <2>9, <2>10, <2>11, <2>12, <2>13, <2>14, <2>15, <2>16, <2>17, StoreKeeps
<1> QED BY <1>1, <1>12, <1>13, <1>14

-----------------------------------------------------------------------------
(* The theorems.                                                           *)

\* The invariant holds at the start.
LEMMA InitIInv == Init => IInv
<1> SUFFICES ASSUME Init PROVE IInv
  OBVIOUS
<1> USE DEF Init
<1>1. /\ <<>> \in Logs /\ Len(<<>>) = 0 /\ 1 \in Term /\ 0 \in 0..MaxLog + 1
      /\ 0 \in 0..MaxLog /\ 0 \in 0..MaxCrashes
  BY LogType, BoundAssumption DEF Term
<1>2. \A n \in Server :
         /\ node[n].state = "FOLLOWER" /\ node[n].term = 1 /\ node[n].voted = NONE
         /\ node[n].log = <<>> /\ node[n].disk = <<>>
         /\ node[n].pending = 0 /\ node[n].committed = 0
  OBVIOUS
<1>3. \A t \in Term : /\ led[t].leader = NONE /\ led[t].log = <<>> /\ led[t].committed = 0
                      /\ \A p \in Server : acked[t][p] = 0
  OBVIOUS
<1>4. TypeOK
  <2>1. node \in [Server -> Node]
    BY <1>1 DEF Node
  <2>2. led \in [Term -> [leader: Server \union {NONE}, log: Logs, committed: 0..MaxLog]]
    BY <1>1
  <2>3. acked \in [Term -> [Server -> 0..MaxLog]]
    BY <1>1
  <2> QED BY <1>1, <1>2, <2>1, <2>2, <2>3 DEF TypeOK
<1>5. closures = {} /\ requests = {} /\ grants = {} /\ commits = {}
  OBVIOUS
<1> USE DEF Init
<1>6. VotesInv /\ LedInv
  BY <1>2, <1>3, <1>5 DEF VotesInv, LedInv
<1>7. Rooted(<<>>, led) /\ \A t \in Int : UpTo(<<>>, t)
  BY <1>1 DEF Rooted, UpTo
<1>8. LogsInv
  <2>1. \A t \in Term : t \in Int
    BY BoundAssumption DEF Term
  <2> QED BY <1>2, <1>3, <1>5, <1>7, <2>1 DEF LogsInv
<1>9. \A t \in Term : Own(t) = {}
  BY <1>1, <1>3 DEF Own
<1>10. CommitInv
  <2>1. \A t \in Term, p \in Server : acked[t][p] <= Len(led[t].log) /\ acked[t][p] = 0
    BY <1>1, <1>3
  <2> QED BY <1>2, <1>3, <1>5, <2>1 DEF CommitInv, Backed, OwnCommit
<1>11. SafeInv
  BY <1>9 DEF SafeInv
<1> QED BY <1>4, <1>6, <1>8, <1>10, <1>11 DEF IInv

\* Every step keeps the invariant.
LEMMA NextIInv == IInv /\ [Next]_vars => IInv'
<1> SUFFICES ASSUME IInv, [Next]_vars PROVE IInv'
  OBVIOUS
<1>1. ASSUME NEW n \in Server, ElectSelf(n) PROVE IInv'
  BY <1>1, ElectSelfKeeps
<1>2. ASSUME NEW n \in Server, NEW r \in requests, HandleRequestVoteRequest(n, r) PROVE IInv'
  BY <1>2, HandleRequestVoteRequestKeeps
<1>3. ASSUME NEW n \in Server, BecomeLeader(n) PROVE IInv'
  BY <1>3, BecomeLeaderKeeps
<1>4. ASSUME NEW n \in Server, NEW m \in Server, IncreaseTermTo(n, m) PROVE IInv'
  BY <1>4, IncreaseTermToKeeps
<1>5. ASSUME NEW n \in Server, Apply(n) PROVE IInv'
  BY <1>5, ApplyKeeps
<1>6. ASSUME NEW n \in Server, NEW t \in Term, NEW k \in 0..Len(led[t].log),
             NEW prev \in 0..k, HandleAppendEntriesRequest(n, t, prev, k)
      PROVE  IInv'
  BY <1>6, HandleAppendEntriesRequestKeeps
<1>7. ASSUME NEW n \in Server, Flush(n) PROVE IInv'
  BY <1>7, FlushKeeps
<1>8. ASSUME NEW n \in Server, NEW i \in 1..MaxLog, CommitAt(n, i) PROVE IInv'
  BY <1>8, CommitAtKeeps
<1>9. ASSUME NEW n \in Crashing, Crash(n) PROVE IInv'
  <2>1. n \in Server
    BY BoundAssumption
  <2> QED BY <1>9, <2>1, CrashKeeps
<1>10. CASE UNCHANGED vars
  BY <1>10, StutterKeeps
<1> QED BY <1>1, <1>2, <1>3, <1>4, <1>5, <1>6, <1>7, <1>8, <1>9, <1>10 DEF Next

\* The invariant of the group: the types of its parts, one vote and one leader
\* in a term, where logs come from, what is acknowledged and what is committed.
THEOREM Inductive == Spec => []IInv
  BY InitIInv, NextIInv, PTL DEF Spec

\* What a leader has committed, leaders of later terms have.
LEMMA CommittedIsLed ==
    ASSUME IInv, NEW c \in commits
    PROVE  /\ Majority({n \in Server : IsPrefix(c.log, node[n].disk)})
           /\ \A t \in Term : t > c.term /\ led[t].leader # NONE =>
                 IsPrefix(c.log, led[t].log)
<1> DEFINE s == c.term
           i == Len(c.log)
<1> USE DEF IInv
<1>t. Typed
  BY Types
<1>1. /\ s \in Term /\ i \in Own(s) /\ i <= led[s].committed
      /\ Agree(c.log, led[s].log, i)
      /\ c.log \in Logs /\ led[s].log \in Logs /\ i \in Nat
  BY <1>t, LogType DEF CommitInv
<1>2. ASSUME NEW l \in Logs, Agree(l, led[s].log, i) PROVE IsPrefix(c.log, l)
  <2>1. Agree(c.log, l, i)
    BY <1>1, <1>2, AgreeFacts
  <2> QED BY <1>1, <2>1, PrefixAgrees
<1>3. ASSUME NEW t \in Term, t > s, led[t].leader # NONE
      PROVE  IsPrefix(c.log, led[t].log)
  <2>1. Agree(led[t].log, led[s].log, i)
    BY <1>1, <1>3, CommittedSafe
  <2> QED BY <1>2, <1>t, <2>1
<1>4. Majority({p \in Server : Keeps(p, s, i)})
  BY <1>1 DEF SafeInv
<1>5. {p \in Server : Keeps(p, s, i)} \subseteq {n \in Server : IsPrefix(c.log, node[n].disk)}
  <2> HIDE DEF i
  <2> SUFFICES ASSUME NEW p \in Server, Keeps(p, s, i) PROVE IsPrefix(c.log, node[p].disk)
    OBVIOUS
  <2> QED BY <1>2, <1>t DEF Keeps
<1>6. Majority({n \in Server : IsPrefix(c.log, node[n].disk)})
  BY <1>4, <1>5, MajorityGrows
<1> QED BY <1>3, <1>6

\* LeaderCompleteness: what handle_request_vote_request asks of a candidate's
\* log, and the ballot box counting entries of the leader's own term only,
\* bring every committed entry to every later leader.
THEOREM LeadersAreComplete == Spec => []LeaderCompleteness
<1>1. IInv => LeaderCompleteness
  BY CommittedIsLed DEF LeaderCompleteness
<1> QED BY <1>1, Inductive, PTL

\* CommittedIsDurable: an entry that commit_at has committed stays on the disk
\* of a majority, whatever handle_append_entries_request truncates and whoever
\* crashes.
THEOREM CommittedStays == Spec => []CommittedIsDurable
<1>1. IInv => CommittedIsDurable
  BY CommittedIsLed DEF CommittedIsDurable
<1> QED BY <1>1, Inductive, PTL

\* LogMatching: check_and_resolve_conflict leaves no two logs that have an
\* entry of one term at one index and differ before it.
THEOREM LogsMatch == Spec => []LogMatching
<1>1. ASSUME IInv,
             NEW l \in UNION {{node[n].log, node[n].disk} : n \in Server},
             NEW m \in UNION {{node[n].log, node[n].disk} : n \in Server}
      PROVE  Matching(l, m)
  <2>1. /\ l \in Logs /\ m \in Logs /\ Rooted(l, led) /\ Rooted(m, led)
    BY <1>1, Types DEF IInv, LogsInv
  <2> SUFFICES ASSUME NEW i \in 1..Least(Len(l), Len(m)), l[i] = m[i]
               PROVE  SubSeq(l, 1, i) = SubSeq(m, 1, i)
    BY DEF Matching
  <2>2. /\ Len(l) \in Nat /\ Len(m) \in Nat /\ i \in 1..Len(l) /\ i <= Len(m)
        /\ i \in 0..Len(l) /\ i \in 0..Len(m)
    BY <2>1, LogType DEF Least
  <2>3. led \in [Term -> [leader: Server \union {NONE}, log: Logs, committed: 0..MaxLog]]
    BY <1>1 DEF IInv, TypeOK
  <2>4. Agree(l, m, i)
    BY <2>1, <2>2, <2>3, RootsMatch
  <2>5. /\ SubSeq(l, 1, i) \in Logs /\ Len(SubSeq(l, 1, i)) = i
        /\ \A j \in 1..i : SubSeq(l, 1, i)[j] = l[j]
    BY <2>1, <2>2, PrefixFacts
  <2>6. /\ SubSeq(m, 1, i) \in Logs /\ Len(SubSeq(m, 1, i)) = i
        /\ \A j \in 1..i : SubSeq(m, 1, i)[j] = m[j]
    BY <2>1, <2>2, PrefixFacts
  <2> QED BY <2>4, <2>5, <2>6, LogEqual DEF Agree
<1>2. IInv => LogMatching
  BY <1>1 DEF LogMatching, IInv
<1> QED BY <1>2, Inductive, PTL

-----------------------------------------------------------------------------
(* The group implements ReplicatedLog.                                     *)

\* What a leader says it has committed of its own has been committed.
ShownInv ==
    \A t \in Term : OwnCommit(t, led) =>
       \E c \in commits : c.term = t /\ Len(c.log) = led[t].committed

\* Every step keeps that.
LEMMA NextShown == IInv /\ ShownInv /\ [Next]_vars => ShownInv'
<1> SUFFICES ASSUME IInv, ShownInv, [Next]_vars PROVE ShownInv'
  OBVIOUS
<1> USE DEF IInv
<1>t. Typed
  BY Types
<1>1. CASE led' = led /\ commits' = commits
  BY <1>1 DEF ShownInv
<1>2. ASSUME NEW n \in Server, NEW x \in Node, Extend(n, x), commits' = commits,
             x.log \in Logs, x.committed \in 0..Len(x.log),
             \/ UpTo(x.log, x.term - 1)
             \/ led[x.term].log = x.log /\ led[x.term].committed = x.committed
      PROVE  ShownInv'
  <2> DEFINE l == Append(x.log, x.term)
  <2>1. /\ Len(l) <= MaxLog /\ x.term \in Term /\ x.term \in Nat
        /\ led' = [led EXCEPT ![x.term] = [leader |-> n, log |-> l, committed |-> x.committed]]
    BY <1>2, <1>t DEF Extend, Node
  <2>2. /\ led'[x.term].log = l /\ led'[x.term].committed = x.committed
        /\ \A t \in Term : t # x.term => led'[t] = led[t]
    BY <2>1 DEF TypeOK
  <2>3. \A i \in 1..Len(x.log) : l[i] = x.log[i]
    BY <2>1, <1>2, AppendFacts
  <2> HIDE DEF l
  <2> SUFFICES ASSUME NEW t \in Term, OwnCommit(t, led')
               PROVE  OwnCommit(t, led) /\ led'[t].committed = led[t].committed
    BY <1>2 DEF ShownInv
  <2>4. CASE t # x.term
    BY <2>2, <2>4 DEF OwnCommit
  <2>5. CASE t = x.term
    <3>1. Len(x.log) \in Nat
      BY <1>2, LogType
    <3>2. x.committed \in 1..Len(x.log) /\ x.log[x.committed] = x.term
      BY <2>2, <2>3, <2>5, <3>1, <1>2 DEF OwnCommit
    <3>3. ~UpTo(x.log, x.term - 1)
      BY <2>1, <3>2 DEF UpTo
    <3> QED BY <2>2, <2>5, <3>2, <3>3, <1>2 DEF OwnCommit
  <2> QED BY <2>4, <2>5
<1>3. ASSUME NEW n \in Server, BecomeLeader(n) PROVE ShownInv'
  <2> DEFINE x == [node[n] EXCEPT !.state = "LEADER", !.pending = Len(node[n].log) + 1]
  <2>1. Extend(n, x) /\ commits' = commits /\ node[n].state = "CANDIDATE"
    BY <1>3 DEF BecomeLeader
  <2>2. /\ node[n] \in Node /\ node[n].log \in Logs /\ Len(node[n].log) \in 0..MaxLog
        /\ node[n].committed \in Nat /\ node[n].committed <= Len(node[n].log)
    BY <1>t, LogType DEF TypeOK
  <2>3. Len(node[n].log) + 1 \in 0..MaxLog + 1
    BY <2>2, BoundAssumption
  <2>4. /\ x \in Node /\ x.log = node[n].log /\ x.committed = node[n].committed
        /\ x.term = node[n].term
    BY <2>2, <2>3 DEF Node
  <2>5. UpTo(node[n].log, node[n].term - 1)
    BY <2>1 DEF LogsInv
  <2> HIDE DEF x
  <2>6. x.committed \in 0..Len(x.log)
    BY <2>2, <2>4
  <2> QED BY <2>1, <2>2, <2>4, <2>5, <2>6, <1>2
<1>4. ASSUME NEW n \in Server, Apply(n) PROVE ShownInv'
  <2>1. Extend(n, node[n]) /\ commits' = commits /\ node[n].state = "LEADER"
    BY <1>4 DEF Apply
  <2>2. /\ node[n] \in Node /\ node[n].log \in Logs /\ Len(node[n].log) \in Nat
        /\ node[n].committed \in Nat /\ node[n].committed <= Len(node[n].log)
    BY <1>t, LogType DEF TypeOK
  <2>3. /\ led[node[n].term].log = node[n].log
        /\ led[node[n].term].committed = node[n].committed
    BY <2>1 DEF LogsInv, CommitInv
  <2>4. node[n].committed \in 0..Len(node[n].log)
    BY <2>2
  <2> QED BY <2>1, <2>2, <2>3, <2>4, <1>2
<1>5. ASSUME NEW n \in Server, NEW i \in 1..MaxLog, CommitAt(n, i) PROVE ShownInv'
  <2> DEFINE x == node[n]
             c == [log |-> SubSeq(x.log, 1, i), term |-> x.term]
  <2>1. /\ x.pending # 0 /\ i \in x.pending..Len(x.log)
        /\ led' = [led EXCEPT ![x.term].committed = i]
        /\ commits' = commits \union {c}
    BY <1>5 DEF CommitAt
  <2>2. x.log \in Logs /\ Len(x.log) \in Nat /\ x.pending \in Nat /\ x.term \in Term
    BY <1>t, LogType
  <2>3. i \in 0..Len(x.log)
    BY <2>1, <2>2
  <2>4. c.term = x.term /\ c.log = SubSeq(x.log, 1, i)
    OBVIOUS
  <2>5. Len(c.log) = i
    BY <2>2, <2>3, <2>4, PrefixFacts
  <2> HIDE DEF c
  <2>6. /\ led'[x.term].committed = i
        /\ \A t \in Term : t # x.term => led'[t] = led[t]
    BY <2>1, <2>2 DEF TypeOK
  <2> SUFFICES ASSUME NEW t \in Term, OwnCommit(t, led')
               PROVE  \E d \in commits' : d.term = t /\ Len(d.log) = led'[t].committed
    BY DEF ShownInv
  <2>7. CASE t = x.term
    BY <2>1, <2>4, <2>5, <2>6, <2>7
  <2>8. CASE t # x.term
    BY <2>1, <2>6, <2>8 DEF ShownInv, OwnCommit
  <2> QED BY <2>7, <2>8
<1>6. ASSUME NEW n \in Server, ElectSelf(n) PROVE ShownInv'
  BY <1>1, <1>6 DEF ElectSelf
<1>7. ASSUME NEW n \in Server, NEW r \in requests, HandleRequestVoteRequest(n, r)
      PROVE  ShownInv'
  BY <1>1, <1>7 DEF HandleRequestVoteRequest
<1>8. ASSUME NEW n \in Server, NEW m \in Server, IncreaseTermTo(n, m) PROVE ShownInv'
  BY <1>1, <1>8 DEF IncreaseTermTo
<1>9. ASSUME NEW n \in Server, NEW t \in Term, NEW k \in 0..Len(led[t].log),
             NEW prev \in 0..k, HandleAppendEntriesRequest(n, t, prev, k)
      PROVE  ShownInv'
  BY <1>1, <1>9 DEF HandleAppendEntriesRequest
<1>10. ASSUME NEW n \in Server, Flush(n) PROVE ShownInv'
  BY <1>1, <1>10 DEF Flush
<1>11. ASSUME NEW n \in Crashing, Crash(n) PROVE ShownInv'
  BY <1>1, <1>11 DEF Crash
<1>12. CASE UNCHANGED vars
  BY <1>1, <1>12 DEF vars
<1> QED BY <1>3, <1>4, <1>5, <1>6, <1>7, <1>8, <1>9, <1>10, <1>11, <1>12 DEF Next

\* What a server has applied.
Applied(n) == SubSeq(node[n].log, 1, node[n].committed)

\* The log that has been chosen has all that is committed and all that is
\* applied, and nothing else.
ChosenInv ==
    /\ Chosen \in Logs
    /\ commits = {} => Chosen = <<>>
    /\ commits # {} => \E c \in commits : Chosen = c.log
    /\ \A c \in commits : IsPrefix(c.log, Chosen)
    /\ \A n \in Server : /\ Applied(n) \in Logs
                         /\ Len(Applied(n)) = node[n].committed
                         /\ IsPrefix(Applied(n), Chosen)

\* Of two prefixes of a log the shorter is one of the longer.
LEMMA PrefixesMeet ==
    ASSUME NEW l \in Logs, NEW m \in Logs, NEW o \in Logs,
           IsPrefix(l, o), IsPrefix(m, o), Len(l) <= Len(m)
    PROVE  IsPrefix(l, m)
<1>1. Len(l) \in Nat /\ Len(m) \in Nat /\ Agree(l, o, Len(l)) /\ Agree(m, o, Len(m))
  BY LogType, PrefixAgrees
<1>2. Agree(l, m, Len(l))
  BY <1>1 DEF Agree
<1> QED BY <1>2, PrefixAgrees

\* And a prefix of a prefix is one.
LEMMA PrefixOfPrefix ==
    ASSUME NEW l \in Logs, NEW m \in Logs, NEW o \in Logs,
           IsPrefix(l, m), IsPrefix(m, o)
    PROVE  IsPrefix(l, o)
<1>1. Len(l) \in Nat /\ Len(m) \in Nat /\ Agree(l, m, Len(l)) /\ Agree(m, o, Len(m))
  BY LogType, PrefixAgrees
<1>2. Agree(l, o, Len(l))
  BY <1>1 DEF Agree
<1> QED BY <1>2, PrefixAgrees

\* Two committed logs do not differ at any index.
LEMMA CommitsAgree ==
    ASSUME IInv, NEW c \in commits, NEW d \in commits, Len(c.log) <= Len(d.log)
    PROVE  IsPrefix(c.log, d.log)
<1> USE DEF IInv
<1>t. Typed
  BY Types
<1>1. ASSUME NEW b \in commits
      PROVE  /\ b.log \in Logs /\ b.term \in Term /\ b.term \in Nat
             /\ led[b.term].leader # NONE
             /\ IsPrefix(b.log, led[b.term].log)
  <2>1. /\ Len(b.log) \in Own(b.term) /\ Agree(b.log, led[b.term].log, Len(b.log))
        /\ b.log \in Logs /\ b.term \in Term /\ b.term \in Nat
    BY <1>t DEF CommitInv
  <2>2. led[b.term].log # <<>>
    BY <2>1, LogType DEF Own
  <2> QED BY <2>1, <2>2, <1>t, PrefixAgrees DEF LedInv
<1>2. ASSUME NEW t \in {c.term, d.term}, t >= c.term, t >= d.term
      PROVE  IsPrefix(c.log, led[t].log) /\ IsPrefix(d.log, led[t].log)
  <2>1. t \in Term /\ led[t].leader # NONE
    BY <1>1, <1>2
  <2>2. ASSUME NEW b \in commits, t >= b.term PROVE IsPrefix(b.log, led[t].log)
    <3>1. CASE b.term = t
      BY <1>1, <3>1
    <3>2. CASE b.term # t
      <4>1. t > b.term
        BY <1>1, <1>t, <2>1, <2>2, <3>2
      <4> QED BY <2>1, <2>2, <4>1, CommittedIsLed
    <3> QED BY <3>1, <3>2
  <2> QED BY <1>2, <2>2
<1>3. c.term >= d.term \/ d.term >= c.term
  BY <1>1
<1>4. PICK t \in Term : IsPrefix(c.log, led[t].log) /\ IsPrefix(d.log, led[t].log)
  <2>1. c.term >= c.term /\ d.term >= d.term
    BY <1>1
  <2> QED BY <1>1, <1>2, <1>3, <2>1
<1> QED BY <1>1, <1>4, <1>t, PrefixesMeet

\* The invariants give that.
LEMMA ChosenFacts == IInv /\ ShownInv => ChosenInv
<1> SUFFICES ASSUME IInv, ShownInv PROVE ChosenInv
  OBVIOUS
<1> USE DEF IInv
<1>t. Typed
  BY Types
<1>1. /\ Chosen \in Logs
      /\ commits = {} => Chosen = <<>>
      /\ commits # {} => \E c \in commits : Chosen = c.log
      /\ \A c \in commits : IsPrefix(c.log, Chosen)
  <2>1. CASE commits = {}
    BY <2>1, LogType DEF Chosen
  <2>2. CASE commits # {}
    <3> DEFINE longest == CHOOSE c \in commits : \A d \in commits : Len(d.log) <= Len(c.log)
    <3>1. longest \in commits /\ \A d \in commits : Len(d.log) <= Len(longest.log)
      BY <2>2 DEF CommitInv
    <3>2. Chosen = longest.log
      BY <2>2 DEF Chosen
    <3> HIDE DEF longest
    <3> QED BY <2>2, <3>1, <3>2, <1>t, CommitsAgree
  <2> QED BY <2>1, <2>2
<1>2. ASSUME NEW n \in Server
      PROVE  /\ Applied(n) \in Logs
             /\ Len(Applied(n)) = node[n].committed
             /\ IsPrefix(Applied(n), Chosen)
  <2> DEFINE k == node[n].committed
             l == node[n].log
  <2>1. l \in Logs /\ k \in Nat /\ Len(l) \in Nat /\ k <= Len(l)
    BY <1>t, LogType DEF TypeOK
  <2>2. /\ SubSeq(l, 1, k) \in Logs /\ Len(SubSeq(l, 1, k)) = k
        /\ \A i \in 1..k : SubSeq(l, 1, k)[i] = l[i]
    BY <2>1, PrefixFacts
  <2>3. Agree(SubSeq(l, 1, k), l, k)
    BY <2>1, <2>2 DEF Agree
  <2>4. Agree(SubSeq(l, 1, k), Chosen, k)
    <3>1. CASE k = 0
      <4>1. Len(Chosen) \in Nat
        BY <1>1, LogType
      <4> QED BY <2>2, <3>1, <4>1 DEF Agree
    <3>2. CASE k # 0
      <4>1. PICK t \in Term : /\ k <= led[t].committed /\ Agree(l, led[t].log, k)
                              /\ OwnCommit(t, led)
        BY <3>2 DEF CommitInv, Backed
      <4>3. PICK c \in commits : c.term = t /\ Len(c.log) = led[t].committed
        BY <4>1 DEF ShownInv
      <4>4. Agree(c.log, led[t].log, Len(c.log)) /\ c.log \in Logs
        BY <4>3, <1>t DEF CommitInv
      <4>5. Agree(c.log, Chosen, Len(c.log))
        BY <4>4, <1>1, PrefixAgrees
      <4>6. Agree(l, Chosen, k)
        BY <2>1, <4>1, <4>3, <4>4, <4>5 DEF Agree
      <4> QED BY <1>1, <2>1, <2>2, <2>3, <4>6, AgreeFacts
    <3> QED BY <3>1, <3>2
  <2>5. IsPrefix(SubSeq(l, 1, k), Chosen)
    BY <1>1, <2>2, <2>4, PrefixAgrees
  <2> QED BY <2>2, <2>5 DEF Applied
<1> QED BY <1>1, <1>2 DEF ChosenInv

\* The same after a step.
LEMMA ChosenFactsNext == (IInv /\ ShownInv)' => ChosenInv'
  BY ChosenFacts, PTL

\* What a step does to what is applied and committed: one server applies more,
\* or restarts.
Delivers(n) ==
    /\ \A p \in Server : p # n => node'[p] = node[p]
    /\ commits \subseteq commits'
    /\ \/ node[n].committed <= node'[n].committed
       \/ node'[n].committed = 0 /\ commits' = commits

\* A commit index is only taken over when it is higher.
LEMMA SetLastGrows ==
    ASSUME NEW x \in Node, NEW i, SetLastCommittedIndex(x, i).committed \in Nat
    PROVE  x.committed <= SetLastCommittedIndex(x, i).committed
<1>1. x.committed \in Nat
  BY BoundAssumption DEF Node
<1>2. CASE x.pending = 0 /\ i > x.committed
  <2>1. SetLastCommittedIndex(x, i).committed = i
    BY <1>2 DEF SetLastCommittedIndex, Node
  <2>2. i \in Nat
    BY <2>1
  <2> QED BY <1>1, <1>2, <2>1, <2>2
<1>3. CASE ~(x.pending = 0 /\ i > x.committed)
  BY <1>1, <1>3 DEF SetLastCommittedIndex
<1> QED BY <1>2, <1>3

\* Every step is one of those.
LEMMA NextDelivers ==
    ASSUME IInv, IInv', Next
    PROVE  \E n \in Server : Delivers(n)
<1> USE DEF IInv
<1>t. Typed /\ Typed'
  BY Types, TypesNext
<1>1. ASSUME NEW n \in Server, NEW y, Update(n, y), commits' = commits,
             node[n].committed <= y.committed
      PROVE  Delivers(n)
  <2>1. node'[n] = y /\ \A p \in Server : p # n => node'[p] = node[p]
    BY <1>1 DEF Update, TypeOK
  <2> QED BY <1>1, <2>1 DEF Delivers
<1>2. ASSUME NEW n \in Server, NEW u \in Term, u >= node[n].term
      PROVE  /\ StepDown(node[n], u) \in Node
             /\ node[n].committed <= StepDown(node[n], u).committed
  BY <1>2, <1>t, StepDownFacts
<1>3. ASSUME NEW n \in Server, ElectSelf(n) PROVE Delivers(n)
  <2> DEFINE y == [node[n] EXCEPT !.state = "CANDIDATE", !.term = @ + 1, !.voted = n]
  <2>1. Update(n, y) /\ commits' = commits
    BY <1>3 DEF ElectSelf
  <2>2. node[n].committed <= y.committed
    BY <1>t DEF Node
  <2> HIDE DEF y
  <2> QED BY <1>1, <2>1, <2>2
<1>4. ASSUME NEW n \in Server, NEW r \in requests, HandleRequestVoteRequest(n, r)
      PROVE  Delivers(n)
  <2>1. CASE UNCHANGED vars
    BY <2>1, <1>t DEF vars, Delivers
  <2>2. CASE /\ r.term > node[n].term /\ Update(n, StepDown(node[n], r.term))
             /\ commits' = commits
    <3>1. r.term \in Term /\ r.term >= node[n].term
      BY <1>t, <2>2
    <3> QED BY <1>1, <1>2, <2>2, <3>1
  <2>3. ASSUME NEW y \in Node, y.committed = node[n].committed, Update(n, y),
               commits' = commits
        PROVE  Delivers(n)
    BY <1>1, <1>t, <2>3
  <2> QED BY <1>4, <2>1, <2>2, <2>3, VoteFacts
<1>5. ASSUME NEW n \in Server, NEW x \in Node, Extend(n, x),
             x.committed = node[n].committed, commits' = commits
      PROVE  Delivers(n)
  <2> DEFINE y == [x EXCEPT !.log = Append(x.log, x.term)]
  <2>1. Update(n, y)
    BY <1>5 DEF Extend
  <2>2. y.committed = x.committed
    BY DEF Node
  <2> HIDE DEF y
  <2> QED BY <1>1, <1>5, <1>t, <2>1, <2>2
<1>6. ASSUME NEW n \in Server, BecomeLeader(n) PROVE Delivers(n)
  <2> DEFINE x == [node[n] EXCEPT !.state = "LEADER", !.pending = Len(node[n].log) + 1]
  <2>1. Extend(n, x) /\ commits' = commits
    BY <1>6 DEF BecomeLeader
  <2>2. Len(node[n].log) \in 0..MaxLog
    BY <1>t, LogType
  <2>3. Len(node[n].log) + 1 \in 0..MaxLog + 1
    BY <2>2, BoundAssumption
  <2>5. node[n] \in Node
    BY <1>t
  <2>4. x \in Node /\ x.committed = node[n].committed
    BY <2>3, <2>5 DEF Node
  <2> HIDE DEF x
  <2> QED BY <1>5, <2>1, <2>4
<1>7. ASSUME NEW n \in Server, Apply(n) PROVE Delivers(n)
  BY <1>5, <1>7, <1>t DEF Apply
<1>8. ASSUME NEW n \in Server, NEW m \in Server, IncreaseTermTo(n, m) PROVE Delivers(n)
  <2>1. node[m].term \in Term /\ node[m].term >= node[n].term
    BY <1>8, <1>t DEF IncreaseTermTo
  <2> QED BY <1>1, <1>2, <1>8, <2>1 DEF IncreaseTermTo
<1>9. ASSUME NEW n \in Server, NEW t \in Term, NEW k \in 0..Len(led[t].log),
             NEW prev \in 0..k, HandleAppendEntriesRequest(n, t, prev, k)
      PROVE  Delivers(n)
  <2> DEFINE x == IF t > node[n].term \/ node[n].state # "FOLLOWER"
                  THEN StepDown(node[n], t) ELSE node[n]
             z == [x EXCEPT !.log = AddEntries(@, led[t].log, prev, k)]
             v == SetLastCommittedIndex(x, Least(led[t].committed, prev))
  <2>1. /\ t >= node[n].term /\ commits' = commits
        /\ Update(n, x) \/ Update(n, v) \/ Update(n, z)
    BY <1>9 DEF HandleAppendEntriesRequest
  <2>2. x \in Node /\ node[n].committed <= x.committed
    BY <1>2, <1>t, <2>1
  <2>3. x.committed \in Nat /\ node[n].committed \in Nat
    BY <2>2, <1>t, BoundAssumption DEF Node
  <2> HIDE DEF x
  <2>4. v.committed \in Nat => x.committed <= v.committed
    BY <2>2, SetLastGrows
  <2>5. z.committed = x.committed
    BY <2>2 DEF Node
  <2> HIDE DEF v, z
  <2>6. CASE Update(n, x)
    BY <1>1, <2>1, <2>2, <2>6
  <2>7. CASE Update(n, z)
    BY <1>1, <2>1, <2>2, <2>5, <2>7
  <2>8. CASE Update(n, v)
    <3>1. node'[n] = v
      BY <2>8 DEF Update, TypeOK
    <3>2. v.committed \in Nat
      BY <3>1, <1>t
    <3> QED BY <1>1, <2>1, <2>2, <2>3, <2>4, <2>8, <3>2
  <2> QED BY <2>1, <2>6, <2>7, <2>8
<1>10. ASSUME NEW n \in Server, Flush(n) PROVE Delivers(n)
  <2> DEFINE x == Written(node[n])
             run == {c \in closures : c.peer = n}
             live == {c \in run : c.term = x.term}
             m == Max({0} \union {c.committed : c \in live})
             v == SetLastCommittedIndex(x, m)
  <2>1. Update(n, v) /\ commits' = commits
    BY <1>10 DEF Flush
  <2>6. node[n] \in Node /\ node[n].log \in Logs
    BY <1>t
  <2>2. x \in Node /\ x.committed = node[n].committed
    BY <2>6 DEF Written, Node
  <2> HIDE DEF m, x
  <2>3. v.committed \in Nat => x.committed <= v.committed
    BY <2>2, SetLastGrows
  <2> HIDE DEF v
  <2>4. node'[n] = v
    BY <2>1 DEF Update, TypeOK
  <2>5. v.committed \in Nat
    BY <2>4, <1>t
  <2> QED BY <1>1, <2>1, <2>2, <2>3, <2>5
<1>11. ASSUME NEW n \in Server, NEW i \in 1..MaxLog, CommitAt(n, i) PROVE Delivers(n)
  <2> DEFINE y == [node[n] EXCEPT !.committed = i, !.pending = i + 1]
  <2>1. /\ node[n].pending # 0 /\ i \in node[n].pending..Len(node[n].log)
        /\ Update(n, y) /\ commits \subseteq commits'
    BY <1>11 DEF CommitAt
  <2>2. /\ node[n].pending \in node[n].committed + 1..Len(node[n].log) + 1
        /\ node[n].committed \in Nat /\ Len(node[n].log) \in Nat
    <3>1. node[n].pending \in node[n].committed + 1..Len(node[n].log) + 1
      BY <2>1 DEF TypeOK
    <3>2. node[n].log \in Logs /\ node[n].committed \in Nat
      BY <1>t
    <3> QED BY <3>1, <3>2, LogType
  <2>3. node[n].committed <= i
    BY <2>1, <2>2
  <2>4. y.committed = i
    BY <1>t DEF Node
  <2> HIDE DEF y
  <2>5. node'[n] = y /\ \A p \in Server : p # n => node'[p] = node[p]
    BY <2>1 DEF Update, TypeOK
  <2> QED BY <2>1, <2>3, <2>4, <2>5 DEF Delivers
<1>12. ASSUME NEW n \in Crashing, Crash(n) PROVE n \in Server /\ Delivers(n)
  <2> DEFINE z == StepDown(node[n], node[n].term)
             y == [z EXCEPT !.log = node[n].disk, !.committed = 0]
  <2>1. n \in Server
    BY BoundAssumption
  <2>2. Update(n, y) /\ commits' = commits
    BY <1>12 DEF Crash
  <2>3. z \in Node
    BY <1>t, <2>1, StepDownFacts
  <2>4. y.committed = 0
    <3> HIDE DEF z
    <3> QED BY <2>3 DEF Node
  <2> HIDE DEF y
  <2>5. node'[n] = y /\ \A p \in Server : p # n => node'[p] = node[p]
    BY <2>1, <2>2 DEF Update, TypeOK
  <2> QED BY <2>1, <2>2, <2>4, <2>5 DEF Delivers
<1> QED BY <1>3, <1>4, <1>6, <1>7, <1>8, <1>9, <1>10, <1>11, <1>12 DEF Next

\* ImplementsReplicatedLog: there is one log of what leaders commit, which only
\* grows, and every server applies a prefix of it, from the start again when it
\* restarts.
THEOREM Implements == Spec => ImplementsReplicatedLog
<1> DEFINE delivered == [n \in Server |-> SubSeq(node[n].log, 1, node[n].committed)]
<1>1. Init => Abstract!Init
  <2> SUFFICES ASSUME Init PROVE Chosen = <<>> /\ delivered = [n \in Server |-> <<>>]
    BY DEF Abstract!Init
  <2>1. Chosen = <<>>
    BY DEF Init, Chosen
  <2>2. \A n \in Server : delivered[n] = <<>>
    <3>1. SubSeq(<<>>, 1, 0) \in Logs /\ Len(SubSeq(<<>>, 1, 0)) = 0
      BY LogType, PrefixFacts
    <3>2. SubSeq(<<>>, 1, 0) = <<>>
      BY <3>1, LogType, LogEqual
    <3> QED BY <3>2 DEF Init
  <2> QED BY <2>1, <2>2
<1>2. Init => ShownInv
  <2>1. Len(<<>>) = 0
    BY LogType
  <2>2. Init => \A t \in Term : led[t].committed = 0 /\ led[t].log = <<>>
    BY DEF Init
  <2> QED BY <2>1, <2>2 DEF ShownInv, OwnCommit
<1>3. IInv /\ ShownInv /\ (IInv /\ ShownInv)' /\ [Next]_vars
         => [Abstract!Next]_<<Chosen, delivered>>
  <2> SUFFICES ASSUME IInv, ShownInv, (IInv /\ ShownInv)', [Next]_vars
               PROVE  [Abstract!Next]_<<Chosen, delivered>>
    OBVIOUS
  <2>1. CASE UNCHANGED vars
    BY <2>1 DEF vars, Chosen
  <2>2. CASE Next
    <3>1. PICK n \in Server : Delivers(n)
      BY <2>2, NextDelivers
    <3>2. ChosenInv /\ ChosenInv' /\ Typed /\ Typed'
      BY ChosenFacts, ChosenFactsNext, Types, TypesNext DEF IInv
    <3>3. delivered' = [delivered EXCEPT ![n] = delivered'[n]]
      BY <3>1 DEF Delivers
    <3>4. \A p \in Server : delivered[p] = Applied(p) /\ delivered'[p] = Applied(p)'
      BY DEF Applied
    <3>5. CASE node[n].committed <= node'[n].committed
      <4>1. IsPrefix(Chosen, Chosen')
        <5>1. CASE commits = {}
          <6>1. Chosen = <<>> /\ Chosen \in Logs /\ Chosen' \in Logs
            BY <3>2, <5>1 DEF ChosenInv
          <6>2. Len(Chosen) = 0 /\ Len(Chosen') \in Nat
            BY <6>1, LogType
          <6>3. Agree(Chosen, Chosen', Len(Chosen))
            BY <6>2 DEF Agree
          <6> QED BY <6>1, <6>3, PrefixAgrees
        <5>2. CASE commits # {}
          <6>1. PICK c \in commits : Chosen = c.log
            BY <3>2, <5>2 DEF ChosenInv
          <6>2. c \in commits'
            BY <3>1 DEF Delivers
          <6> QED BY <3>2, <6>1, <6>2 DEF ChosenInv
        <5> QED BY <5>1, <5>2
      <4>2. /\ Applied(n) \in Logs /\ Applied(n)' \in Logs
            /\ Chosen \in Logs /\ Chosen' \in Logs
            /\ Len(Applied(n)) <= Len(Applied(n)')
            /\ IsPrefix(Applied(n), Chosen) /\ IsPrefix(Applied(n)', Chosen')
        BY <3>2, <3>5 DEF ChosenInv
      <4>3. IsPrefix(Applied(n), Applied(n)')
        BY <4>1, <4>2, PrefixOfPrefix, PrefixesMeet
      <4>4. Abstract!Deliver(n)
        <5> HIDE DEF delivered
        <5>1. \A l, m : Abstract!IsPrefix(l, m) <=> IsPrefix(l, m)
          BY DEF Abstract!IsPrefix, IsPrefix
        <5>2. /\ delivered' = [delivered EXCEPT ![n] = delivered'[n]]
              /\ IsPrefix(Chosen, Chosen') /\ IsPrefix(delivered[n], delivered'[n])
              /\ IsPrefix(delivered'[n], Chosen')
          BY <3>3, <3>4, <4>1, <4>2, <4>3
        <5>3. /\ Abstract!IsPrefix(Chosen, Chosen')
              /\ Abstract!IsPrefix(delivered[n], delivered'[n])
              /\ Abstract!IsPrefix(delivered'[n], Chosen')
          BY <5>1, <5>2
        <5> QED BY <5>2, <5>3 DEF Abstract!Deliver, delivered
      <4> QED BY <4>4 DEF Abstract!Next
    <3>6. CASE node'[n].committed = 0 /\ commits' = commits
      <4>1. Chosen' = Chosen
        BY <3>6 DEF Chosen
      <4>2. Applied(n)' = <<>>
        <5>1. Applied(n)' \in Logs /\ Len(Applied(n)') = 0
          BY <3>2, <3>6 DEF ChosenInv
        <5> QED BY <5>1, LogType, LogEqual
      <4>3. Abstract!Restart(n)
        BY <3>3, <3>4, <4>1, <4>2 DEF Abstract!Restart
      <4> QED BY <4>3 DEF Abstract!Next
    <3> QED BY <3>1, <3>5, <3>6 DEF Delivers
  <2> QED BY <2>1, <2>2
<1> QED BY <1>1, <1>2, <1>3, InitIInv, NextIInv, NextShown, PTL
        DEF Spec, ImplementsReplicatedLog, Abstract!Spec
=============================================================================

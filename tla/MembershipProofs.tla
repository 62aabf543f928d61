-------------------------- MODULE MembershipProofs --------------------------
(***************************************************************************)
(* Proofs about Membership: its types, that the stages of a change go on   *)
(* as the CHECKs of ConfigurationCtx expect and leave no replicator behind, *)
(* that a term has one leader although its voters count by different       *)
(* configurations, and that no later leader lacks what is committed.       *)
(***************************************************************************)
EXTENDS Membership, FiniteSetTheorems, SequenceTheorems, WellFoundedInduction, TLAPS

-----------------------------------------------------------------------------
(* The types.                                                              *)

ConfType == [new : SUBSET Node, old : SUBSET Node]
EntryType == [term : 2..MaxTerm, kind : {"data", "conf"},
              new : SUBSET Node, old : SUBSET Node]
CtxType == [stage : {"none", "catching", "joint", "stable"},
            new : SUBSET Node, old : SUBSET Node, nchanges : Nat,
            adding : SUBSET Node, version : Nat]
WaitType == [node : Node, term : 1..MaxTerm, peer : Node, version : Nat,
             st : {"wait", "ok", "fail"}]
DoneType == [node : Node, term : 1..MaxTerm, index : Nat]

TypeInv ==
    /\ term \in [Node -> 1..MaxTerm]
    /\ log \in [Node -> Seq(EntryType)]
    /\ role \in [Node -> {"follower", "leader"}]
    /\ ctx \in [Node -> CtxType]
    /\ repl \in [Node -> SUBSET Node]
    /\ match \in [Node -> [Node -> Nat]]
    /\ commit \in [Node -> 0..MaxLog]
    /\ waits \subseteq WaitType /\ dones \subseteq DoneType
    /\ chosen \in [log : Seq(EntryType), term : Nat]
    /\ bad \in BOOLEAN

-----------------------------------------------------------------------------
(* The stages of a change.                                                 *)

\* The configurations in a log, and the last of them.
Confs(l) == {j \in 1..Len(l) : l[j].kind = "conf"}
IsLastConf(l, j) == j \in Confs(l) /\ \A h \in Confs(l) : h <= j

\* A node that does not lead has no change in progress. One that leads has in
\* its log the configuration that its stage is of, and replicates to all peers
\* of the change.
StageIs(n, c, l, t, r, R) ==
    LET conf == ConfAt(l, Len(l))
    IN  /\ Len(l) + ToCome(c) <= MaxLog
        /\ \A i \in 1..Len(l) : l[i].term <= t
        /\ r = "follower" => c.stage = "none" /\ R = {}
        /\ r = "leader" => R = (Peers(conf) \union c.new \union c.old) \ {n}
        /\ c.stage = "none" =>
              /\ c.new = {} /\ c.old = {} /\ c.adding = {}
              /\ r = "leader" => conf.old = {} /\ n \in conf.new
        /\ c.stage = "catching" =>
              /\ conf = [new |-> c.old, old |-> {}]
              /\ n \in c.old /\ c.new # {} /\ c.new # c.old
              /\ c.adding # {} /\ c.adding \subseteq c.new \ c.old
              /\ c.nchanges = Cardinality((c.new \ c.old) \union (c.old \ c.new))
        /\ c.stage = "joint" => conf = [new |-> c.new, old |-> c.old]
        /\ c.stage = "stable" => conf = [new |-> c.new, old |-> {}]
StageOK(n) == StageIs(n, ctx[n], log[n], term[n], role[n], repl[n])

\* A closure that is of the leadership and of the change of its node.
IsLive(w) ==
    role[w.node] = "leader" /\ term[w.node] = w.term /\ ctx[w.node].version = w.version

\* The closures that wait for new peers: those of this change, one for each peer
\* that it still waits for, are the only ones that do something.
WaitInv ==
    /\ \A w \in waits :
          /\ w.term <= term[w.node] /\ w.version <= ctx[w.node].version
          /\ IsLive(w) => ctx[w.node].stage = "catching" /\ w.peer \in ctx[w.node].adding
    /\ \A w, x \in waits :
          w.node = x.node /\ w.term = x.term /\ w.version = x.version /\ w.peer = x.peer
             => w = x

\* The configurations of its own term for which a leader has yet to run
\* on_configuration_change_done: those not committed, and those committed whose
\* closures, D, are about to run.
Unhandled(l, t, k, D) == {j \in Confs(l) : l[j].term = t /\ j > k} \union D

\* A leader has its own configuration last; when it is to hear of one, it is of
\* this one, in a stage that waits for it.
DoneIs(l, t, k, D, stage) ==
    /\ \E j \in Confs(l) : l[j].term = t
    /\ \A j \in Unhandled(l, t, k, D) : IsLastConf(l, j) /\ stage \in {"joint", "stable"}
    /\ \A j \in D : j <= k
OpenDones(n) == {d.index : d \in {e \in dones : e.node = n /\ e.term = term[n]}}
DoneOK(n) ==
    role[n] = "leader" =>
       DoneIs(log[n], term[n], commit[n], OpenDones(n), ctx[n].stage)
DoneInv ==
    /\ \A n \in Node : DoneOK(n)
    /\ \A d \in dones : d.term <= term[d.node]

StageInv == ~bad /\ (\A n \in Node : StageOK(n)) /\ WaitInv /\ DoneInv

-----------------------------------------------------------------------------
(* The logs, L, and the terms, T, of all nodes.                            *)

\* The logs l and m have the same first k entries.
Agree(l, m, k) ==
    /\ k <= Len(l) /\ k <= Len(m)
    /\ \A j \in 1..k : l[j] = m[j]

\* Quorums of the two configurations meet.
Overlap(c, d) ==
    \A S, T \in SUBSET Node : Granted(S, c) /\ Granted(T, d) => S \intersect T # {}

\* Log l has an entry of a term later than t.
Later(l, t) == \E j \in 1..Len(l) : l[j].term > t

\* The first i entries of l are there to stay: a quorum of their configuration
\* has them, and so has every log with an entry of a later term.
Settled(L, l, i) ==
    /\ i \in 1..Len(l)
    /\ \E Q \in SUBSET Node : /\ Granted(Q, ConfAt(l, i))
                              /\ \A v \in Q : Agree(L[v], l, i)
    /\ \A m \in Node : Later(L[m], l[i].term) => Agree(L[m], l, i)

\* The entry j of l changes the configuration.
Changes(l, j) == ConfAt(l, j) # ConfAt(l, j - 1)

\* Entry i is of the term of entry j, and no configuration is between them.
SameStage(l, i, j) ==
    /\ l[i].term = l[j].term
    /\ \A h \in i..(j - 1) : ConfAt(l, h) = ConfAt(l, j - 1)

\* Another configuration has quorums that meet those of the one before it, which
\* has settled entries of the same leader.
ChangeOK(L, l, j) ==
    /\ Overlap(ConfAt(l, j - 1), ConfAt(l, j))
    /\ \E i \in 1..(j - 1) : SameStage(l, i, j) /\ Settled(L, l, i)

\* The first entry of its term: a quorum of the configuration before it has voted.
VotedOK(T, l, j) ==
    (j = 1 \/ l[j - 1].term < l[j].term) =>
       \E Q \in SUBSET Node : /\ Granted(Q, ConfAt(l, j - 1))
                              /\ \A v \in Q : T[v] >= l[j].term

\* Terms only grow along a log, and entries of one term come from one log.
Sorted(l) == \A i, j \in 1..Len(l) : i <= j => l[i].term <= l[j].term
Matching(l, m) ==
    \A i \in 1..Len(l), j \in 1..Len(m) :
       i <= j /\ l[i].term = m[j].term => Agree(l, m, i)
LogOK(L, T, l) ==
    \A j \in 1..Len(l) : VotedOK(T, l, j) /\ (Changes(l, j) => ChangeOK(L, l, j))
LogsOK(L, T) ==
    /\ \A n \in Node : Sorted(L[n]) /\ LogOK(L, T, L[n])
    /\ \A m, n \in Node : Matching(L[m], L[n])
LogsInv == LogsOK(log, term)

\* A leader is the only one of its term, ends with entries of its own, and has
\* all the entries of its term that there are.
Leads(L, T, n) ==
    /\ L[n] # <<>> /\ L[n][Len(L[n])].term = T[n]
    /\ \A s \in Node : \A i \in 1..Len(L[s]) :
          L[s][i].term = T[n] => Agree(L[s], L[n], i)
LeadersInv == OneLeaderPerTerm /\ \A n \in Leaders : Leads(log, term, n)

\* Those who may still come to acknowledge the entry i to the leader n, whose
\* replicators are at M; when they are no quorum it cannot commit the entry.
Alive(L, T, M, n, i) ==
    Granted({v \in Node : M[v] >= i \/ T[v] <= T[n]}, ConfAt(L[n], i))

\* What a peer has acknowledged, it has as long as that can count; and so has
\* every log that a later leader has written to.
SafeOK(L, T, M, n, i) ==
    /\ \A f \in Node : M[f] >= i => Agree(L[f], L[n], i)
    /\ \A m \in Node : Later(L[m], T[n]) => Agree(L[m], L[n], i)
Safe(L, T, M, n) ==
    /\ \A f \in Node : M[f] <= Len(L[n])
    /\ \A i \in 1..Len(L[n]) :
          L[n][i].term = T[n] /\ Alive(L, T, M, n, i) => SafeOK(L, T, M, n, i)
SafeInv == \A n \in Leaders : Safe(log, term, match[n], n)

\* What is committed is settled, and is one log.
ChosenOK(L, c) ==
    c.log = <<>> \/ (Settled(L, c.log, Len(c.log)) /\ c.log[Len(c.log)].term = c.term)
CommittedOK(L, l, k, c) == k # 0 => Settled(L, l, k) /\ Agree(l, c.log, k)
CommitInv ==
    ChosenOK(log, chosen) /\ \A n \in Node : CommittedOK(log, log[n], commit[n], chosen)

ReplicatedInv == LogsInv /\ LeadersInv /\ SafeInv /\ CommitInv

IInv == TypeInv /\ StageInv /\ ReplicatedInv

-----------------------------------------------------------------------------
(* Numbers, sequences and configurations.                                  *)

Logs == Seq(EntryType)

\* A nonempty set of numbers, all of which are at most n, has a greatest one.
LEMMA MaxOf ==
    ASSUME NEW S \in SUBSET Nat, NEW n \in Nat, \A x \in S : x <= n, S # {}
    PROVE  Max(S) \in S /\ \A y \in S : y <= Max(S)
<1> DEFINE R == {ss \in Nat \X Nat : ss[1] < ss[2]}
           T == {n - x : x \in S}
<1>1. IsWellFoundedOn(R, Nat)
  BY NatLessThanWellFounded DEF OpToRel
<1>2. \A x, y \in Nat : <<x, y>> \in R <=> x < y
  OBVIOUS
<1>3. T \subseteq Nat /\ T # {}
  <2>1. PICK x \in S : TRUE
    OBVIOUS
  <2>2. n - x \in T
    OBVIOUS
  <2>3. \A y \in S : n - y \in Nat
    OBVIOUS
  <2> QED BY <2>2, <2>3
<1> HIDE DEF R
<1>4. \E x \in T : \A y \in T : ~(<<y, x>> \in R)
  <2> HIDE DEF T
  <2> QED BY <1>1, <1>3, WFMin
<1>5. PICK x \in S : \A y \in S : ~(<<n - y, n - x>> \in R)
  BY <1>4
<1>6. \A y \in S : x >= y
  <2> SUFFICES ASSUME NEW y \in S PROVE x >= y
    OBVIOUS
  <2>1. n - y \in Nat /\ n - x \in Nat
    OBVIOUS
  <2>2. ~(n - y < n - x)
    BY <1>2, <1>5, <2>1
  <2> QED BY <2>2
<1>7. Max(S) \in S /\ \A y \in S : Max(S) >= y
  BY <1>6 DEF Max
<1> QED BY <1>7

\* A nonempty set of numbers has a least one.
LEMMA LeastOf ==
    ASSUME NEW S \in SUBSET Nat, S # {}
    PROVE  \E x \in S : \A y \in S : x <= y
<1> DEFINE R == {ss \in Nat \X Nat : ss[1] < ss[2]}
<1>1. IsWellFoundedOn(R, Nat)
  BY NatLessThanWellFounded DEF OpToRel
<1>2. \A x, y \in Nat : <<x, y>> \in R <=> x < y
  OBVIOUS
<1> HIDE DEF R
<1>3. PICK x \in S : \A y \in S : ~(<<y, x>> \in R)
  BY <1>1, WFMin
<1>4. \A y \in S : x <= y
  <2> SUFFICES ASSUME NEW y \in S PROVE x <= y
    OBVIOUS
  <2>1. ~(y < x)
    BY <1>2, <1>3
  <2>2. x \in Nat /\ y \in Nat
    OBVIOUS
  <2> QED BY <2>1, <2>2
<1> QED BY <1>4

\* Peers are finitely many.
LEMMA NodeFacts ==
    /\ IsFiniteSet(Node) /\ InitConf \in SUBSET Node /\ InitConf # {}
    /\ MaxTerm \in Nat /\ MaxLog \in Nat /\ MaxLog >= 1 /\ MaxTerm >= 1
    /\ \A S \in SUBSET Node : IsFiniteSet(S) /\ Cardinality(S) \in Nat
    /\ \A S \in SUBSET Node : Cardinality(S) = 0 <=> S = {}
    /\ \A S, T \in SUBSET Node : S \subseteq T => Cardinality(S) <= Cardinality(T)
<1>1. /\ IsFiniteSet(Node) /\ InitConf \in SUBSET Node /\ InitConf # {}
      /\ MaxTerm \in Nat /\ MaxLog \in Nat /\ MaxLog >= 1 /\ MaxTerm >= 1
  BY MembershipAssumption
<1>2. \A S \in SUBSET Node : IsFiniteSet(S) /\ Cardinality(S) \in Nat
  BY <1>1, FS_Subset, FS_CardinalityType
<1>3. \A S, T \in SUBSET Node : S \subseteq T => Cardinality(S) <= Cardinality(T)
  BY <1>2, FS_Subset
<1>4. \A S \in SUBSET Node : Cardinality(S) = 0 <=> S = {}
  BY <1>2, FS_EmptySet
<1> QED BY <1>1, <1>2, <1>3, <1>4

\* The entries of a log.
LEMMA LogType ==
    ASSUME NEW l \in Logs
    PROVE  /\ Len(l) \in Nat
           /\ \A i \in 1..Len(l) :
                 /\ l[i] \in EntryType /\ l[i].term \in 2..MaxTerm /\ l[i].term \in Nat
                 /\ l[i].kind \in {"data", "conf"}
                 /\ l[i].new \in SUBSET Node /\ l[i].old \in SUBSET Node
<1>1. l \in Seq(EntryType)
  BY DEF Logs
<1>2. \A i \in 1..Len(l) : l[i] \in EntryType
  BY <1>1, ElementOfSeq
<1>3. MaxTerm \in Nat
  BY NodeFacts
<1> QED BY <1>1, <1>2, <1>3 DEF EntryType

\* Logs that have the same entries are the same.
LEMMA LogEqual ==
    ASSUME NEW l \in Logs, NEW m \in Logs, Len(l) = Len(m),
           \A i \in 1..Len(l) : l[i] = m[i]
    PROVE  l = m
  BY SeqEqual DEF Logs

\* A prefix, entry by entry.
LEMMA PrefixFacts ==
    ASSUME NEW l \in Logs, NEW k \in 0..Len(l)
    PROVE  /\ SubSeq(l, 1, k) \in Logs /\ Len(SubSeq(l, 1, k)) = k
           /\ Agree(SubSeq(l, 1, k), l, k)
<1>1. l \in Seq(EntryType) /\ Len(l) \in Nat
  BY LogType DEF Logs
<1>2. \A i \in 1..k : l[i] \in EntryType
  BY <1>1, LogType
<1>3. /\ SubSeq(l, 1, k) \in Seq(EntryType)
      /\ Len(SubSeq(l, 1, k)) = IF 1 <= k THEN k - 1 + 1 ELSE 0
      /\ \A i \in 1..k - 1 + 1 : SubSeq(l, 1, k)[i] = l[1 + i - 1]
  BY <1>1, <1>2, SubSeqProperties
<1>4. Len(SubSeq(l, 1, k)) = k
  BY <1>1, <1>3
<1>5. \A i \in 1..k : SubSeq(l, 1, k)[i] = l[i]
  BY <1>1, <1>3
<1> QED BY <1>1, <1>3, <1>4, <1>5 DEF Agree, Logs

\* A log with one more entry.
LEMMA AppendFacts ==
    ASSUME NEW l \in Logs, NEW e \in EntryType
    PROVE  /\ Append(l, e) \in Logs /\ Len(Append(l, e)) = Len(l) + 1
           /\ \A i \in 1..Len(l) : Append(l, e)[i] = l[i]
           /\ Append(l, e)[Len(l) + 1] = e
           /\ Agree(l, Append(l, e), Len(l))
<1>1. /\ Append(l, e) \in Seq(EntryType) /\ Len(Append(l, e)) = Len(l) + 1
      /\ \A i \in 1..Len(l) : Append(l, e)[i] = l[i]
      /\ Append(l, e)[Len(l) + 1] = e
  BY AppendProperties DEF Logs
<1>2. Len(l) \in Nat
  BY LogType
<1> QED BY <1>1, <1>2 DEF Agree, Logs

\* IsPrefix, entry by entry.
LEMMA PrefixAgrees ==
    ASSUME NEW l \in Logs, NEW m \in Logs
    PROVE  IsPrefix(l, m) <=> Agree(l, m, Len(l))
<1>1. Len(l) \in Nat /\ Len(m) \in Nat
  BY LogType
<1>2. CASE Len(l) <= Len(m)
  <2>1. /\ SubSeq(l, 1, Len(l)) \in Logs /\ Len(SubSeq(l, 1, Len(l))) = Len(l)
        /\ Agree(SubSeq(l, 1, Len(l)), l, Len(l))
    BY <1>1, PrefixFacts
  <2>2. /\ SubSeq(m, 1, Len(l)) \in Logs /\ Len(SubSeq(m, 1, Len(l))) = Len(l)
        /\ Agree(SubSeq(m, 1, Len(l)), m, Len(l))
    BY <1>1, <1>2, PrefixFacts
  <2>3. Agree(l, m, Len(l)) => SubSeq(l, 1, Len(l)) = SubSeq(m, 1, Len(l))
    BY <2>1, <2>2, LogEqual DEF Agree
  <2>4. SubSeq(l, 1, Len(l)) = SubSeq(m, 1, Len(l)) => Agree(l, m, Len(l))
    BY <1>1, <1>2, <2>1, <2>2 DEF Agree
  <2> QED BY <2>3, <2>4, <1>2 DEF IsPrefix
<1>3. CASE ~(Len(l) <= Len(m))
  BY <1>3 DEF IsPrefix, Agree
<1> QED BY <1>2, <1>3

\* Logs that agree with a third one agree with each other.
LEMMA AgreeFacts ==
    ASSUME NEW l \in Logs, NEW m \in Logs, NEW o \in Logs
    PROVE  /\ \A i \in Nat : Agree(l, m, i) => Agree(m, l, i)
           /\ \A i, j \in Nat : Agree(l, m, i) /\ Agree(m, o, j) /\ j <= i => Agree(l, o, j)
           /\ \A i, j \in Nat : Agree(l, m, i) /\ Agree(m, o, j) /\ i <= j => Agree(l, o, i)
           /\ \A i, j \in Nat : Agree(l, m, i) /\ j <= i => Agree(l, m, j)
           /\ \A i \in 0..Len(l) : Agree(l, l, i)
<1>1. Len(l) \in Nat /\ Len(m) \in Nat /\ Len(o) \in Nat
  BY LogType
<1> QED BY <1>1 DEF Agree

\* The configuration at i is that of the last of the first i entries that has one.
LEMMA ConfIs ==
    ASSUME NEW l, NEW i \in Nat
    PROVE  /\ (\A j \in 1..i : l[j].kind # "conf")
                 => ConfAt(l, i) = [new |-> InitConf, old |-> {}]
           /\ \A h \in 1..i :
                 l[h].kind = "conf" /\ (\A j \in (h + 1)..i : l[j].kind # "conf")
                    => ConfAt(l, i) = [new |-> l[h].new, old |-> l[h].old]
           /\ (\E j \in 1..i : l[j].kind = "conf") =>
                 \E h \in 1..i : /\ l[h].kind = "conf"
                                 /\ \A j \in (h + 1)..i : l[j].kind # "conf"
<1> DEFINE C == {j \in 1..i : l[j].kind = "conf"}
<1>1. ConfAt(l, i) = IF C = {} THEN [new |-> InitConf, old |-> {}]
                     ELSE [new |-> l[Max(C)].new, old |-> l[Max(C)].old]
  BY DEF ConfAt
<1>2. C # {} => Max(C) \in C /\ \A j \in C : j <= Max(C)
  <2>1. C \in SUBSET Nat /\ \A j \in C : j <= i
    OBVIOUS
  <2> HIDE DEF C
  <2> QED BY <2>1, MaxOf
<1>3. (\A j \in 1..i : l[j].kind # "conf") => C = {}
  OBVIOUS
<1>4. ASSUME NEW h \in 1..i, l[h].kind = "conf", \A j \in (h + 1)..i : l[j].kind # "conf"
      PROVE  C # {} /\ Max(C) = h
  <2>1. h \in C
    BY <1>4
  <2>2. \A j \in C : j <= h
    BY <1>4
  <2>3. Max(C) \in C /\ h <= Max(C)
    BY <1>2, <2>1
  <2>4. Max(C) \in Nat /\ h \in Nat
    BY <2>3
  <2> HIDE DEF C
  <2> QED BY <2>1, <2>2, <2>3, <2>4
<1>5. ASSUME NEW j \in 1..i, l[j].kind = "conf"
      PROVE  \E h \in 1..i : /\ l[h].kind = "conf"
                             /\ \A g \in (h + 1)..i : l[g].kind # "conf"
  <2>1. j \in C
    BY <1>5
  <2>2. Max(C) \in 1..i /\ l[Max(C)].kind = "conf"
    BY <1>2, <2>1
  <2>3. \A g \in (Max(C) + 1)..i : l[g].kind # "conf"
    <3> SUFFICES ASSUME NEW g \in (Max(C) + 1)..i, l[g].kind = "conf" PROVE FALSE
      OBVIOUS
    <3>1. Max(C) \in Nat
      BY <2>2
    <3>2. g \in C
      BY <3>1
    <3>3. g <= Max(C)
      BY <1>2, <3>2
    <3> QED BY <3>1, <3>3
  <2> HIDE DEF C
  <2> QED BY <2>2, <2>3
<1> HIDE DEF C
<1> QED BY <1>1, <1>3, <1>4, <1>5

\* A configuration is two sets of peers.
LEMMA ConfAtType ==
    ASSUME NEW l \in Logs, NEW i \in 0..Len(l)
    PROVE  ConfAt(l, i) \in ConfType
<1>1. i \in Nat /\ Len(l) \in Nat
  BY LogType
<1>2. \A h \in 1..i : l[h].new \in SUBSET Node /\ l[h].old \in SUBSET Node
  BY <1>1, LogType
<1>3. CASE \A j \in 1..i : l[j].kind # "conf"
  BY <1>1, <1>3, ConfIs, NodeFacts DEF ConfType
<1>4. CASE \E j \in 1..i : l[j].kind = "conf"
  <2>1. PICK h \in 1..i : /\ l[h].kind = "conf"
                          /\ \A g \in (h + 1)..i : l[g].kind # "conf"
    BY <1>1, <1>4, ConfIs
  <2>2. ConfAt(l, i) = [new |-> l[h].new, old |-> l[h].old]
    BY <1>1, <2>1, ConfIs
  <2> QED BY <1>2, <2>2 DEF ConfType
<1> QED BY <1>3, <1>4

\* Logs that agree have the same configurations.
LEMMA ConfAgree ==
    ASSUME NEW l, NEW m, NEW i \in Nat, \A j \in 1..i : l[j] = m[j]
    PROVE  ConfAt(l, i) = ConfAt(m, i)
<1>1. CASE \A j \in 1..i : l[j].kind # "conf"
  BY <1>1, ConfIs
<1>2. CASE \E j \in 1..i : l[j].kind = "conf"
  <2>1. PICK h \in 1..i : /\ l[h].kind = "conf"
                          /\ \A g \in (h + 1)..i : l[g].kind # "conf"
    BY <1>2, ConfIs
  <2>2. l[h] = m[h] /\ \A g \in (h + 1)..i : l[g] = m[g]
    OBVIOUS
  <2> QED BY <2>1, <2>2, ConfIs
<1> QED BY <1>1, <1>2

\* The configuration at an entry is its own, or that before it.
LEMMA ConfStep ==
    ASSUME NEW l, NEW i \in Nat \ {0}
    PROVE  /\ l[i].kind = "conf" => ConfAt(l, i) = [new |-> l[i].new, old |-> l[i].old]
           /\ l[i].kind # "conf" => ConfAt(l, i) = ConfAt(l, i - 1)
<1>1. i - 1 \in Nat /\ i \in 1..i
  OBVIOUS
<1>2. ASSUME l[i].kind = "conf"
      PROVE  ConfAt(l, i) = [new |-> l[i].new, old |-> l[i].old]
  <2>1. \A j \in (i + 1)..i : l[j].kind # "conf"
    OBVIOUS
  <2> QED BY <1>1, <1>2, <2>1, ConfIs
<1>3. ASSUME l[i].kind # "conf"
      PROVE  ConfAt(l, i) = ConfAt(l, i - 1)
  <2>1. CASE \A j \in 1..(i - 1) : l[j].kind # "conf"
    <3>1. \A j \in 1..i : l[j].kind # "conf"
      BY <1>3, <2>1
    <3> QED BY <1>1, <2>1, <3>1, ConfIs
  <2>2. CASE \E j \in 1..(i - 1) : l[j].kind = "conf"
    <3>1. PICK h \in 1..(i - 1) : /\ l[h].kind = "conf"
                                  /\ \A g \in (h + 1)..(i - 1) : l[g].kind # "conf"
      BY <1>1, <2>2, ConfIs
    <3>2. h \in 1..i /\ \A g \in (h + 1)..i : l[g].kind # "conf"
      BY <1>3, <3>1
    <3>3. ConfAt(l, i) = [new |-> l[h].new, old |-> l[h].old]
      BY <3>1, <3>2, ConfIs
    <3> QED BY <1>1, <3>1, <3>3, ConfIs
  <2> QED BY <2>1, <2>2
<1> QED BY <1>2, <1>3

\* Majorities of one set of peers meet.
LEMMA MajoritiesMeet ==
    ASSUME NEW S \in SUBSET Node, NEW T \in SUBSET Node, NEW C \in SUBSET Node,
           IsQuorum(S, C), IsQuorum(T, C)
    PROVE  S \intersect T # {}
<1> DEFINE A == S \intersect C
           B == T \intersect C
<1>1. A \in SUBSET Node /\ B \in SUBSET Node /\ A \union B \in SUBSET Node
  OBVIOUS
<1>2. /\ Cardinality(A) \in Nat /\ Cardinality(B) \in Nat /\ Cardinality(C) \in Nat
      /\ IsFiniteSet(A) /\ IsFiniteSet(B)
      /\ Cardinality(A \union B) \in Nat /\ Cardinality(A \union B) <= Cardinality(C)
  BY <1>1, NodeFacts
<1>3. Cardinality(A \union B) = Cardinality(A) + Cardinality(B) - Cardinality(A \intersect B)
  BY <1>2, FS_Union
<1>4. 2 * Cardinality(A) > Cardinality(C) /\ 2 * Cardinality(B) > Cardinality(C)
  BY DEF IsQuorum
<1> SUFFICES ASSUME S \intersect T = {} PROVE FALSE
  OBVIOUS
<1>5. A \intersect B = {}
  OBVIOUS
<1>6. Cardinality(A \intersect B) = 0
  BY <1>5, FS_EmptySet
<1> HIDE DEF A, B
<1> QED BY <1>2, <1>3, <1>4, <1>6

\* So do majorities of sets that differ by one peer.
LEMMA MajoritiesOfNextMeet ==
    ASSUME NEW S \in SUBSET Node, NEW T \in SUBSET Node, NEW C \in SUBSET Node,
           NEW x \in Node, x \notin C,
           \/ IsQuorum(S, C) /\ IsQuorum(T, C \union {x})
           \/ IsQuorum(T, C) /\ IsQuorum(S, C \union {x})
    PROVE  S \intersect T # {}
<1>1. ASSUME NEW U \in SUBSET Node, NEW V \in SUBSET Node,
             IsQuorum(U, C), IsQuorum(V, C \union {x}), U \intersect V = {}
      PROVE  FALSE
  <2> DEFINE A == U \intersect C
             B == V \intersect (C \union {x})
             D == C \union {x}
  <2>1. A \in SUBSET Node /\ B \in SUBSET Node /\ A \union B \in SUBSET Node /\ D \in SUBSET Node
    OBVIOUS
  <2>2. /\ Cardinality(A) \in Nat /\ Cardinality(B) \in Nat /\ Cardinality(C) \in Nat
        /\ IsFiniteSet(A) /\ IsFiniteSet(B) /\ IsFiniteSet(C)
        /\ Cardinality(A \union B) \in Nat /\ Cardinality(A \union B) <= Cardinality(D)
    BY <2>1, NodeFacts
  <2>3. Cardinality(A \union B) = Cardinality(A) + Cardinality(B) - Cardinality(A \intersect B)
    BY <2>2, FS_Union
  <2>4. 2 * Cardinality(A) > Cardinality(C) /\ 2 * Cardinality(B) > Cardinality(D)
    BY <1>1 DEF IsQuorum
  <2>5. Cardinality(D) = Cardinality(C) + 1
    BY <2>2, FS_AddElement
  <2>6. A \intersect B = {}
    BY <1>1
  <2>7. Cardinality(A \intersect B) = 0
    BY <2>6, FS_EmptySet
  <2> HIDE DEF A, B, D
  <2> QED BY <2>2, <2>3, <2>4, <2>5, <2>7
<1>2. CASE IsQuorum(S, C) /\ IsQuorum(T, C \union {x})
  BY <1>1, <1>2
<1>3. CASE IsQuorum(T, C) /\ IsQuorum(S, C \union {x})
  BY <1>1, <1>3
<1> QED BY <1>2, <1>3

\* A configuration overlaps with itself, with the joint one that it enters, and
\* with the one that a joint one ends in.
LEMMA OverlapFacts ==
    /\ \A c \in ConfType : Overlap(c, c)
    /\ \A c, d \in ConfType : Overlap(c, d) => Overlap(d, c)
    /\ \A new, old \in SUBSET Node : old # {} =>
          Overlap([new |-> old, old |-> {}], [new |-> new, old |-> old])
    /\ \A new, old \in SUBSET Node :
          Overlap([new |-> new, old |-> old], [new |-> new, old |-> {}])
<1>1. \A c \in ConfType : Overlap(c, c)
  BY MajoritiesMeet DEF Overlap, Granted, ConfType
<1>2. \A c, d \in ConfType : Overlap(c, d) => Overlap(d, c)
  BY DEF Overlap
<1>3. \A new, old \in SUBSET Node : old # {} =>
          Overlap([new |-> old, old |-> {}], [new |-> new, old |-> old])
  BY MajoritiesMeet DEF Overlap, Granted
<1>4. \A new, old \in SUBSET Node :
          Overlap([new |-> new, old |-> old], [new |-> new, old |-> {}])
  BY MajoritiesMeet DEF Overlap, Granted
<1> QED BY <1>1, <1>2, <1>3, <1>4

\* NeedsJoint: a change of at most one peer needs no joint configuration.
LEMMA SmallChangeOverlaps ==
    ASSUME NEW new \in SUBSET Node, NEW old \in SUBSET Node,
           Cardinality((new \ old) \union (old \ new)) <= 1
    PROVE  Overlap([new |-> old, old |-> {}], [new |-> new, old |-> {}])
<1> DEFINE D == (new \ old) \union (old \ new)
<1>1. D \in SUBSET Node /\ IsFiniteSet(D) /\ Cardinality(D) \in Nat
  BY NodeFacts
<1>2. CASE D = {}
  <2>1. new = old
    BY <1>2
  <2> QED BY <2>1, MajoritiesMeet DEF Overlap, Granted
<1>3. CASE D # {}
  <2>1. PICK x \in Node : x \in D
    BY <1>1, <1>3
  <2>2. Cardinality(D \ {x}) = 0
    <3>1. Cardinality(D) <= 1
      OBVIOUS
    <3>2. Cardinality(D \ {x}) = Cardinality(D) - 1
      BY <1>1, <2>1, FS_RemoveElement
    <3>3. Cardinality(D \ {x}) \in Nat
      BY NodeFacts
    <3> HIDE DEF D
    <3> QED BY <1>1, <3>1, <3>2, <3>3
  <2>3. D \ {x} = {}
    BY <2>2, NodeFacts
  <2>4. CASE x \in new
    <3>1. x \notin old /\ new = old \union {x}
      BY <2>1, <2>3, <2>4
    <3> QED BY <3>1, MajoritiesOfNextMeet DEF Overlap, Granted
  <2>5. CASE x \notin new
    <3>1. old = new \union {x}
      BY <2>1, <2>3, <2>5
    <3> QED BY <2>5, <3>1, MajoritiesOfNextMeet DEF Overlap, Granted
  <2> QED BY <2>4, <2>5
<1> QED BY <1>2, <1>3

\* More peers grant what some grant, and nobody grants nothing.
LEMMA GrantedFacts ==
    ASSUME NEW c \in ConfType
    PROVE  /\ \A S, T \in SUBSET Node : S \subseteq T /\ Granted(S, c) => Granted(T, c)
           /\ ~Granted({}, c)
           /\ \A S \in SUBSET Node : Granted(S, c) => S # {}
<1>1. c.new \in SUBSET Node /\ c.old \in SUBSET Node
  BY DEF ConfType
<1>2. ASSUME NEW S \in SUBSET Node, NEW T \in SUBSET Node, S \subseteq T,
             NEW C \in SUBSET Node, IsQuorum(S, C)
      PROVE  IsQuorum(T, C)
  <2>1. S \intersect C \in SUBSET Node /\ T \intersect C \in SUBSET Node
        /\ S \intersect C \subseteq T \intersect C
    BY <1>2
  <2>2. /\ Cardinality(S \intersect C) <= Cardinality(T \intersect C)
        /\ Cardinality(S \intersect C) \in Nat /\ Cardinality(T \intersect C) \in Nat
        /\ Cardinality(C) \in Nat
    BY <2>1, NodeFacts
  <2> QED BY <1>2, <2>2 DEF IsQuorum
<1>3. ~IsQuorum({}, c.new)
  <2>1. {} \intersect c.new = {} /\ Cardinality({}) = 0 /\ Cardinality(c.new) \in Nat
    BY <1>1, NodeFacts, FS_EmptySet
  <2>2. Cardinality({} \intersect c.new) = 0
    BY <2>1
  <2> QED BY <2>1, <2>2 DEF IsQuorum
<1> QED BY <1>1, <1>2, <1>3 DEF Granted

-----------------------------------------------------------------------------
(* The types of what the invariants speak of.                              *)

Typed ==
    /\ \A n \in Node :
          /\ term[n] \in 1..MaxTerm /\ term[n] \in Nat
          /\ log[n] \in Logs /\ Len(log[n]) \in Nat
          /\ role[n] \in {"follower", "leader"}
          /\ ctx[n] \in CtxType
          /\ ctx[n].stage \in {"none", "catching", "joint", "stable"}
          /\ ctx[n].new \in SUBSET Node /\ ctx[n].old \in SUBSET Node
          /\ ctx[n].adding \in SUBSET Node /\ ctx[n].nchanges \in Nat
          /\ ctx[n].version \in Nat
          /\ repl[n] \in SUBSET Node
          /\ \A f \in Node : match[n][f] \in Nat
          /\ commit[n] \in 0..MaxLog /\ commit[n] \in Nat
    /\ \A w \in waits :
          /\ w.node \in Node /\ w.term \in 1..MaxTerm /\ w.term \in Nat
          /\ w.peer \in Node /\ w.version \in Nat /\ w.st \in {"wait", "ok", "fail"}
    /\ \A d \in dones : /\ d.node \in Node /\ d.term \in 1..MaxTerm
                        /\ d.term \in Nat /\ d.index \in Nat
    /\ chosen.log \in Logs /\ chosen.term \in Nat

\* They follow from TypeInv.
LEMMA Types == TypeInv => Typed
<1> SUFFICES ASSUME TypeInv PROVE Typed
  OBVIOUS
<1>1. MaxTerm \in Nat /\ MaxLog \in Nat
  BY NodeFacts
<1>2. ASSUME NEW n \in Node
      PROVE  /\ term[n] \in 1..MaxTerm /\ term[n] \in Nat
             /\ log[n] \in Logs /\ Len(log[n]) \in Nat
             /\ role[n] \in {"follower", "leader"}
             /\ ctx[n] \in CtxType
             /\ repl[n] \in SUBSET Node
             /\ \A f \in Node : match[n][f] \in Nat
             /\ commit[n] \in 0..MaxLog /\ commit[n] \in Nat
  <2>1. log[n] \in Logs
    BY DEF TypeInv, Logs
  <2>2. term[n] \in 1..MaxTerm /\ commit[n] \in 0..MaxLog
    BY DEF TypeInv
  <2>3. \A f \in Node : match[n][f] \in Nat
    BY DEF TypeInv
  <2>4. role[n] \in {"follower", "leader"} /\ ctx[n] \in CtxType /\ repl[n] \in SUBSET Node
    BY DEF TypeInv
  <2> QED BY <1>1, <2>1, <2>2, <2>3, <2>4, LogType
<1>3. \A c \in CtxType :
         /\ c.stage \in {"none", "catching", "joint", "stable"}
         /\ c.new \in SUBSET Node /\ c.old \in SUBSET Node
         /\ c.adding \in SUBSET Node /\ c.nchanges \in Nat /\ c.version \in Nat
  BY DEF CtxType
<1>4. \A w \in waits :
         /\ w.node \in Node /\ w.term \in 1..MaxTerm /\ w.term \in Nat
         /\ w.peer \in Node /\ w.version \in Nat /\ w.st \in {"wait", "ok", "fail"}
  BY <1>1 DEF TypeInv, WaitType
<1>5. \A d \in dones : /\ d.node \in Node /\ d.term \in 1..MaxTerm
                       /\ d.term \in Nat /\ d.index \in Nat
  BY <1>1 DEF TypeInv, DoneType
<1>6. chosen.log \in Logs /\ chosen.term \in Nat
  BY DEF TypeInv, Logs
<1> QED BY <1>2, <1>3, <1>4, <1>5, <1>6 DEF Typed

LEMMA TypesNext == TypeInv' => Typed'
  BY Types, PTL

\* The configuration of a node, and those at the entries of its log.
LEMMA ConfTyped ==
    ASSUME TypeInv, NEW n \in Node
    PROVE  /\ Conf(n) \in ConfType /\ Conf(n).new \in SUBSET Node
           /\ Conf(n).old \in SUBSET Node /\ Conf(n) = ConfAt(log[n], Len(log[n]))
           /\ Conf(n) = [new |-> Conf(n).new, old |-> Conf(n).old]
<1>1. log[n] \in Logs /\ Len(log[n]) \in 0..Len(log[n])
  BY Types DEF Typed
<1>2. ConfAt(log[n], Len(log[n])) \in ConfType
  BY <1>1, ConfAtType
<1> QED BY <1>2 DEF Conf, ConfType

\* The entries that leaders write.
LEMMA EntryTypes ==
    ASSUME NEW t \in 2..MaxTerm, NEW new \in SUBSET Node, NEW old \in SUBSET Node
    PROVE  /\ Data(t) \in EntryType /\ Data(t).term = t /\ Data(t).kind = "data"
           /\ ConfEntry(t, new, old) \in EntryType
           /\ ConfEntry(t, new, old).term = t /\ ConfEntry(t, new, old).kind = "conf"
           /\ ConfEntry(t, new, old).new = new /\ ConfEntry(t, new, old).old = old
  BY DEF Data, ConfEntry, EntryType

\* ConfigurationCtx::reset.
LEMMA ContextTypes ==
    ASSUME NEW c \in CtxType
    PROVE  /\ Reset(c) \in CtxType /\ Reset(c).stage = "none" /\ Reset(c).new = {}
           /\ Reset(c).old = {} /\ Reset(c).adding = {} /\ Reset(c).version = c.version + 1
           /\ ResetCtx(c) \in CtxType
           /\ ResetCtx(c) = c \/ ResetCtx(c) = Reset(c)
           /\ ResetCtx(c).stage = "none"
           /\ c.version \in Nat /\ ResetCtx(c).version \in Nat
           /\ c.version <= ResetCtx(c).version /\ c.version < Reset(c).version
<1>1. /\ Reset(c) \in CtxType /\ Reset(c).stage = "none" /\ Reset(c).new = {}
      /\ Reset(c).old = {} /\ Reset(c).adding = {} /\ Reset(c).version = c.version + 1
  BY DEF Reset, NoCtx, CtxType
<1>2. ResetCtx(c) = c \/ ResetCtx(c) = Reset(c)
  BY DEF ResetCtx
<1>3. ResetCtx(c).stage = "none"
  BY <1>1 DEF ResetCtx, is_busy
<1>4. c.version \in Nat
  BY DEF CtxType
<1>5. ResetCtx(c) \in CtxType
  BY <1>1, <1>2
<1>6. ResetCtx(c).version \in Nat /\ c.version <= ResetCtx(c).version
      /\ c.version < Reset(c).version
  BY <1>1, <1>2, <1>4
<1> QED BY <1>1, <1>2, <1>3, <1>4, <1>5, <1>6

\* ConfigurationCtx::flush.
LEMMA FlushTypes ==
    ASSUME NEW c \in CtxType, NEW conf \in ConfType
    PROVE  /\ Flush(c, conf) \in CtxType
           /\ Flush(c, conf).stage = IF conf.old = {} THEN "stable" ELSE "joint"
           /\ Flush(c, conf).new = conf.new
           /\ Flush(c, conf).old = IF conf.old = {} THEN conf.new ELSE conf.old
           /\ Flush(c, conf).adding = c.adding /\ Flush(c, conf).version = c.version
  BY DEF Flush, ConfType, CtxType

\* A context that goes on.
LEMMA StageSet ==
    ASSUME NEW c \in CtxType, NEW s \in {"none", "catching", "joint", "stable"}
    PROVE  /\ [c EXCEPT !.stage = s] \in CtxType
           /\ [c EXCEPT !.stage = s].stage = s
           /\ [c EXCEPT !.stage = s].new = c.new
           /\ [c EXCEPT !.stage = s].old = c.old
           /\ [c EXCEPT !.stage = s].adding = c.adding
           /\ [c EXCEPT !.stage = s].version = c.version
  BY DEF CtxType

LEMMA PeerDropped ==
    ASSUME NEW c \in CtxType, NEW p
    PROVE  /\ [c EXCEPT !.adding = @ \ {p}] \in CtxType
           /\ [c EXCEPT !.adding = @ \ {p}].stage = c.stage
           /\ [c EXCEPT !.adding = @ \ {p}].new = c.new
           /\ [c EXCEPT !.adding = @ \ {p}].old = c.old
           /\ [c EXCEPT !.adding = @ \ {p}].adding = c.adding \ {p}
           /\ [c EXCEPT !.adding = @ \ {p}].version = c.version
           /\ [c EXCEPT !.adding = @ \ {p}].nchanges = c.nchanges
  BY DEF CtxType

\* A node that steps down, with a log of its term.
LEMMA ResetStage ==
    ASSUME NEW n, NEW c \in CtxType, NEW l, NEW t, NEW r, NEW R, StageIs(n, c, l, t, r, R),
           NEW m, Len(m) \in Nat, Len(m) <= MaxLog, NEW u,
           \A i \in 1..Len(m) : m[i].term <= u
    PROVE  StageIs(n, ResetCtx(c), m, u, "follower", {})
<1> DEFINE d == ResetCtx(c)
<1>1. /\ d.stage = "none" /\ d.new = {} /\ d.old = {} /\ d.adding = {}
  <2>1. CASE d = c
    <3>1. c.stage = "none"
      BY <2>1, ContextTypes
    <3> QED BY <2>1, <3>1 DEF StageIs
  <2>2. CASE d = Reset(c)
    BY <2>2, ContextTypes
  <2> QED BY <2>1, <2>2, ContextTypes
<1>2. ToCome(d) = 0
  BY <1>1 DEF ToCome
<1>3. Len(m) + ToCome(d) <= MaxLog
  BY <1>2
<1>4. "follower" # "leader" /\ \A x \in {"catching", "joint", "stable"} : d.stage # x
  BY <1>1
<1> HIDE DEF d
<1> SUFFICES StageIs(n, d, m, u, "follower", {})
  BY DEF d
<1> QED BY <1>1, <1>3, <1>4 DEF StageIs

\* The closures that wait, when no new one comes and no change that they are of
\* begins or goes on.
LEMMA WaitsKept ==
    ASSUME Typed, WaitInv,
           \A n \in Node : term'[n] \in Nat /\ ctx'[n].version \in Nat,
           \A w \in waits' : \E x \in waits :
              /\ w.node = x.node /\ w.term = x.term /\ w.version = x.version
              /\ w.peer = x.peer,
           \A w, v \in waits' :
              w.node = v.node /\ w.term = v.term /\ w.version = v.version /\ w.peer = v.peer
                 => w = v,
           \A n \in Node :
              /\ term[n] <= term'[n] /\ ctx[n].version <= ctx'[n].version
              /\ role'[n] = "leader" /\ term'[n] = term[n] /\ ctx'[n].version = ctx[n].version
                    => /\ role[n] = "leader"
                       /\ ctx[n].stage = "catching" =>
                             ctx'[n].stage = "catching" /\ ctx'[n].adding = ctx[n].adding
    PROVE  WaitInv'
<1> SUFFICES ASSUME NEW w \in waits'
             PROVE  /\ w.term <= term'[w.node] /\ w.version <= ctx'[w.node].version
                    /\ IsLive(w)' => /\ ctx'[w.node].stage = "catching"
                                     /\ w.peer \in ctx'[w.node].adding
  BY DEF WaitInv
<1>1. PICK x \in waits : /\ w.node = x.node /\ w.term = x.term /\ w.version = x.version
                         /\ w.peer = x.peer
  OBVIOUS
<1> DEFINE n == x.node
<1>2. /\ n \in Node /\ x.term \in Nat /\ x.version \in Nat /\ term[n] \in Nat
      /\ ctx[n].version \in Nat /\ term'[n] \in Nat /\ ctx'[n].version \in Nat
  BY DEF Typed
<1>3. x.term <= term[n] /\ x.version <= ctx[n].version
  BY DEF WaitInv
<1>4. term[n] <= term'[n] /\ ctx[n].version <= ctx'[n].version
  BY <1>2
<1>5. ASSUME IsLive(w)'
      PROVE  ctx'[n].stage = "catching" /\ w.peer \in ctx'[n].adding
  <2>1. role'[n] = "leader" /\ term'[n] = x.term /\ ctx'[n].version = x.version
    BY <1>1, <1>5 DEF IsLive
  <2>2. term'[n] = term[n] /\ ctx'[n].version = ctx[n].version
    BY <1>2, <1>3, <1>4, <2>1
  <2>3. IsLive(x)
    BY <1>2, <2>1, <2>2 DEF IsLive
  <2>4. ctx[n].stage = "catching" /\ x.peer \in ctx[n].adding
    BY <2>3 DEF WaitInv
  <2> QED BY <1>1, <1>2, <2>1, <2>2, <2>4
<1> QED BY <1>1, <1>2, <1>3, <1>4, <1>5

\* The configurations that a leader is to hear of, when nothing about it changes
\* but that closures have run.
LEMMA DonesKept ==
    ASSUME Typed, NEW n \in Node, DoneOK(n), dones' \subseteq dones,
           role'[n] = "leader" =>
              /\ role[n] = "leader" /\ term'[n] = term[n] /\ log'[n] = log[n]
              /\ commit'[n] = commit[n]
              /\ ctx[n].stage \in {"joint", "stable"} => ctx'[n].stage \in {"joint", "stable"}
    PROVE  DoneOK(n)'
<1> SUFFICES ASSUME role'[n] = "leader"
             PROVE  DoneIs(log[n], term[n], commit[n], OpenDones(n)', ctx'[n].stage)
  BY DEF DoneOK
<1>1. DoneIs(log[n], term[n], commit[n], OpenDones(n), ctx[n].stage)
  BY DEF DoneOK
<1>2. OpenDones(n)' \subseteq OpenDones(n)
  BY DEF OpenDones
<1> QED BY <1>1, <1>2 DEF DoneIs, Unhandled

-----------------------------------------------------------------------------
(* The stages of a change, step by step.                                   *)

\* What a node's own invariant says of it in each stage.
LEMMA StageFacts ==
    ASSUME TypeInv, StageInv, NEW n \in Node
    PROVE  /\ Len(log[n]) + ToCome(ctx[n]) <= MaxLog /\ Len(log[n]) <= MaxLog
           /\ \A i \in 1..Len(log[n]) : log[n][i].term <= term[n]
           /\ role[n] = "follower" =>
                 /\ ctx[n].stage = "none" /\ repl[n] = {}
                 /\ ctx[n].new = {} /\ ctx[n].old = {} /\ ctx[n].adding = {}
           /\ role[n] = "leader" =>
                 repl[n] = (Peers(Conf(n)) \union ctx[n].new \union ctx[n].old) \ {n}
           /\ ctx[n].stage = "none" => ctx[n].new = {} /\ ctx[n].old = {} /\ ctx[n].adding = {}
           /\ role[n] = "leader" /\ ctx[n].stage = "none" =>
                 Conf(n).old = {} /\ n \in Conf(n).new
           /\ ctx[n].stage = "catching" =>
                 /\ Conf(n) = [new |-> ctx[n].old, old |-> {}]
                 /\ n \in ctx[n].old /\ ctx[n].new # {} /\ ctx[n].new # ctx[n].old
                 /\ ctx[n].adding # {} /\ ctx[n].adding \subseteq ctx[n].new \ ctx[n].old
                 /\ ctx[n].nchanges = Cardinality((ctx[n].new \ ctx[n].old)
                                                     \union (ctx[n].old \ ctx[n].new))
           /\ ctx[n].stage = "joint" => Conf(n) = [new |-> ctx[n].new, old |-> ctx[n].old]
           /\ ctx[n].stage = "stable" => Conf(n) = [new |-> ctx[n].new, old |-> {}]
           /\ DoneOK(n)
<1>1. StageIs(n, ctx[n], log[n], term[n], role[n], repl[n])
  BY DEF StageInv, StageOK
<1>2. Len(log[n]) \in Nat /\ ToCome(ctx[n]) \in {0, 1, 2} /\ MaxLog \in Nat
  BY Types, NodeFacts DEF Typed, ToCome
<1>3. Len(log[n]) + ToCome(ctx[n]) <= MaxLog
  BY <1>1 DEF StageIs
<1>4. Len(log[n]) <= MaxLog
  BY <1>2, <1>3
<1>5. DoneOK(n)
  BY DEF StageInv, DoneInv
<1> QED BY <1>1, <1>3, <1>4, <1>5 DEF StageIs, Conf

\* A leader that is not busy, or has a change that waits for its peers, has heard
\* of every configuration of its own term.
LEMMA HandledFacts ==
    ASSUME TypeInv, StageInv, NEW n \in Node, role[n] = "leader"
    PROVE  /\ \E j \in Confs(log[n]) : log[n][j].term = term[n]
           /\ term[n] \in 2..MaxTerm
           /\ ctx[n].stage \notin {"joint", "stable"} =>
                 Unhandled(log[n], term[n], commit[n], OpenDones(n)) = {}
<1>1. DoneIs(log[n], term[n], commit[n], OpenDones(n), ctx[n].stage)
  BY StageFacts DEF DoneOK
<1>2. \E j \in Confs(log[n]) : log[n][j].term = term[n]
  BY <1>1 DEF DoneIs
<1>3. term[n] \in 2..MaxTerm
  <2>1. log[n] \in Logs
    BY Types DEF Typed
  <2> QED BY <1>2, <2>1, LogType DEF Confs
<1> QED BY <1>1, <1>2, <1>3 DEF DoneIs

\* A leader begins.
LEMMA ElectStage ==
    ASSUME TypeInv, StageInv, NEW n \in Node, NEW t \in 2..MaxTerm,
           NEW Q \in SUBSET (Node \ {n}), Elect(n, t, Q)
    PROVE  TypeInv' /\ StageInv'
<1> DEFINE conf == Conf(n)
           e == ConfEntry(t, conf.new, conf.old)
           l == Append(log[n], e)
           c == Flush(ctx[n], conf)
<1>1. Typed /\ conf \in ConfType /\ conf.new \in SUBSET Node /\ conf.old \in SUBSET Node
      /\ conf = [new |-> conf.new, old |-> conf.old]
      /\ t \in Nat /\ t \in 1..MaxTerm /\ MaxLog \in Nat
  BY Types, ConfTyped, NodeFacts
<1>2. /\ e \in EntryType /\ e.term = t /\ e.kind = "conf"
      /\ e.new = conf.new /\ e.old = conf.old
  BY <1>1, EntryTypes
<1>3. /\ role[n] = "follower" /\ n \in Peers(conf) /\ t > term[n]
      /\ Q \subseteq Peers(conf) \ {n} /\ \A v \in Q : term[v] < t
      /\ Len(log[n]) + (IF conf.old = {} THEN 1 ELSE 2) <= MaxLog
  BY DEF Elect
<1>4. \A m \in Node :
         /\ term'[m] = IF m \in Q \union {n} THEN t ELSE term[m]
         /\ role'[m] = IF m = n THEN "leader" ELSE IF m \in Q THEN "follower" ELSE role[m]
         /\ ctx'[m] = IF m = n THEN c ELSE IF m \in Q THEN ResetCtx(ctx[m]) ELSE ctx[m]
         /\ repl'[m] = IF m = n THEN FollowersOf(n, conf)
                       ELSE IF m \in Q THEN {} ELSE repl[m]
  BY DEF Elect
<1>5. log' = [log EXCEPT ![n] = l]
  BY DEF Elect
<1>6. /\ commit' = commit /\ waits' = waits /\ dones' = dones
      /\ chosen' = chosen /\ bad' = bad
  BY DEF Elect
<1>7. log[n] \in Logs /\ Len(log[n]) \in Nat /\ commit[n] \in Nat
  BY <1>1 DEF Typed
<1>8. /\ l \in Logs /\ Len(l) = Len(log[n]) + 1
      /\ \A i \in 1..Len(log[n]) : l[i] = log[n][i]
      /\ l[Len(log[n]) + 1] = e
  BY <1>2, <1>7, AppendFacts
<1>9. log'[n] = l /\ \A m \in Node : m # n => log'[m] = log[m]
  BY <1>5 DEF TypeInv
<1>10. ConfAt(l, Len(l)) = conf
  <2>1. Len(l) \in Nat \ {0} /\ l[Len(l)] = e
    BY <1>7, <1>8
  <2> HIDE DEF conf, e, l
  <2> QED BY <1>1, <1>2, <2>1, ConfStep
<1>11. /\ c \in CtxType /\ c.stage \in {"stable", "joint"}
       /\ c.stage = "stable" <=> conf.old = {}
       /\ c.new = conf.new
       /\ c.old = IF conf.old = {} THEN conf.new ELSE conf.old
       /\ c.adding = ctx[n].adding /\ c.version = ctx[n].version
  <2>1. ctx[n] \in CtxType
    BY <1>1 DEF Typed
  <2> HIDE DEF conf
  <2> QED BY <1>1, <2>1, FlushTypes
<1>12. TypeInv'
  <2>1. term' \in [Node -> 1..MaxTerm]
    BY <1>1 DEF Elect, TypeInv
  <2>2. log' \in [Node -> Seq(EntryType)]
    BY <1>5, <1>8 DEF TypeInv, Logs
  <2>3. role' \in [Node -> {"follower", "leader"}]
    BY DEF Elect, TypeInv
  <2>4. ctx' \in [Node -> CtxType]
    <3>1. \A m \in Node : ResetCtx(ctx[m]) \in CtxType /\ ctx[m] \in CtxType
      BY <1>1, ContextTypes DEF Typed
    <3>2. ctx' = [m \in Node |-> IF m = n THEN c
                                 ELSE IF m \in Q THEN ResetCtx(ctx[m]) ELSE ctx[m]]
      BY DEF Elect
    <3> HIDE DEF c
    <3> QED BY <3>1, <3>2, <1>11
  <2>5. repl' \in [Node -> SUBSET Node]
    <3>1. FollowersOf(n, conf) \in SUBSET Node
      BY <1>1 DEF FollowersOf, Peers
    <3>2. repl' = [m \in Node |-> IF m = n THEN FollowersOf(n, conf)
                                  ELSE IF m \in Q THEN {} ELSE repl[m]]
      BY DEF Elect
    <3> QED BY <3>1, <3>2 DEF TypeInv
  <2>6. match' \in [Node -> [Node -> Nat]]
    <3>1. NoMatch \in [Node -> Nat]
      BY DEF NoMatch
    <3>2. match' = [m \in Node |-> IF m \in Q \union {n} THEN NoMatch ELSE match[m]]
      BY DEF Elect
    <3> QED BY <3>1, <3>2 DEF TypeInv
  <2> QED BY <1>6, <2>1, <2>2, <2>3, <2>4, <2>5, <2>6 DEF TypeInv
<1>13. ctx[n].stage = "none" /\ ctx[n].adding = {}
  BY <1>3, StageFacts
<1>14. \A i \in 1..Len(log[n]) : log[n][i].term <= term[n]
  BY StageFacts
<1> HIDE DEF e, l, c
<1>15. \A m \in Node : StageOK(m)'
  <2>1. StageIs(n, c, l, t, "leader", FollowersOf(n, conf))
    <3>1. Len(l) + ToCome(c) <= MaxLog
      <4>1. ToCome(c) = IF conf.old = {} THEN 0 ELSE 1
        BY <1>11 DEF ToCome
      <4>2. Len(log[n]) + 1 + ToCome(c) <= MaxLog
        <5>1. CASE conf.old = {}
          BY <1>3, <1>7, <4>1, <5>1
        <5>2. CASE conf.old # {}
          <6>1. Len(log[n]) + 2 <= MaxLog /\ ToCome(c) = 1
            BY <1>3, <4>1, <5>2
          <6> QED BY ONLY <6>1, <1>7
        <5> QED BY <5>1, <5>2
      <4> QED BY <1>8, <4>2
    <3>2. \A i \in 1..Len(l) : l[i].term <= t
      <4> SUFFICES ASSUME NEW i \in 1..Len(l) PROVE l[i].term <= t
        OBVIOUS
      <4>1. CASE i = Len(log[n]) + 1
        BY <1>1, <1>2, <1>8, <4>1
      <4>2. CASE i \in 1..Len(log[n])
        <5>1. l[i].term <= term[n] /\ l[i].term \in Nat /\ term[n] \in Nat
          BY <1>1, <1>7, <1>8, <1>14, <4>2, LogType DEF Typed
        <5> QED BY <1>1, <1>3, <5>1
      <4> QED BY <1>7, <1>8, <4>1, <4>2
    <3>3. FollowersOf(n, conf) = (Peers(conf) \union c.new \union c.old) \ {n}
      BY <1>11 DEF FollowersOf, Peers
    <3>4. c.stage = "joint" => conf = [new |-> c.new, old |-> c.old]
      BY <1>1, <1>11
    <3>5. c.stage = "stable" => conf = [new |-> c.new, old |-> {}]
      BY <1>1, <1>11
    <3>6. "leader" # "follower" /\ c.stage # "none" /\ c.stage # "catching"
      BY <1>11
    <3> HIDE DEF conf
    <3> QED BY <1>10, <3>1, <3>2, <3>3, <3>4, <3>5, <3>6 DEF StageIs
  <2>2. ASSUME NEW m \in Q
        PROVE  StageIs(m, ResetCtx(ctx[m]), log[m], t, "follower", {})
    <3>1. /\ StageIs(m, ctx[m], log[m], term[m], role[m], repl[m])
          /\ Len(log[m]) <= MaxLog /\ Len(log[m]) \in Nat
          /\ \A i \in 1..Len(log[m]) : log[m][i].term <= term[m]
      BY <1>1, StageFacts DEF StageInv, StageOK, Typed
    <3>2. \A i \in 1..Len(log[m]) : log[m][i].term <= t
      <4> SUFFICES ASSUME NEW i \in 1..Len(log[m]) PROVE log[m][i].term <= t
        OBVIOUS
      <4>1. log[m][i].term \in Nat /\ term[m] \in Nat /\ term[m] < t
        BY <1>1, <1>3, LogType DEF Typed
      <4> QED BY <1>1, <3>1, <4>1
    <3>3. ctx[m] \in CtxType
      BY <1>1 DEF Typed
    <3> QED BY <3>1, <3>2, <3>3, ResetStage
  <2> SUFFICES ASSUME NEW m \in Node PROVE StageOK(m)'
    OBVIOUS
  <2>3. CASE m = n
    BY <1>4, <1>9, <2>1, <2>3 DEF StageOK
  <2>4. CASE m \in Q
    BY <1>4, <1>9, <2>2, <2>4 DEF StageOK
  <2>5. CASE m # n /\ m \notin Q
    BY <1>4, <1>9, <2>5 DEF StageOK, StageInv
  <2> QED BY <2>3, <2>4, <2>5
<1>16. Typed'
  BY <1>12, TypesNext
<1>17. WaitInv'
  <2>1. ASSUME NEW m \in Node
        PROVE  /\ term[m] <= term'[m] /\ ctx[m].version <= ctx'[m].version
               /\ role'[m] = "leader" /\ term'[m] = term[m]
                     /\ ctx'[m].version = ctx[m].version
                    => /\ role[m] = "leader"
                       /\ ctx[m].stage = "catching" =>
                             ctx'[m].stage = "catching" /\ ctx'[m].adding = ctx[m].adding
    <3>1. term[m] \in Nat /\ ctx[m].version \in Nat /\ ctx[m] \in CtxType
      BY <1>1 DEF Typed
    <3>2. CASE m = n
      <4>1. term'[m] = t /\ ctx'[m].version = ctx[m].version
        BY <1>4, <1>11, <3>2
      <4> QED BY <1>1, <1>3, <3>1, <3>2, <4>1
    <3>3. CASE m # n /\ m \in Q
      <4>1. term'[m] = t /\ ctx'[m] = ResetCtx(ctx[m]) /\ term[m] < t
        BY <1>3, <1>4, <3>3
      <4>2. ctx'[m].version >= ctx[m].version /\ ResetCtx(ctx[m]).version \in Nat
        BY <3>1, <4>1, ContextTypes
      <4> QED BY <1>1, <3>1, <4>1, <4>2
    <3>4. CASE m # n /\ m \notin Q
      BY <1>4, <3>1, <3>4
    <3> QED BY <3>2, <3>3, <3>4
  <2>2. WaitInv /\ \A m \in Node : term'[m] \in Nat /\ ctx'[m].version \in Nat
    BY <1>16 DEF StageInv, Typed
  <2> QED BY <1>1, <1>6, <2>1, <2>2, WaitsKept DEF WaitInv
<1>18. DoneInv'
  <2>1. \A d \in dones' : d.term <= term'[d.node]
    <3> SUFFICES ASSUME NEW d \in dones PROVE d.term <= term'[d.node]
      BY <1>6
    <3>1. d.term <= term[d.node] /\ d.term \in Nat /\ d.node \in Node /\ term[d.node] \in Nat
      BY <1>1 DEF StageInv, DoneInv, Typed
    <3> QED BY <1>1, <1>3, <1>4, <3>1
  <2>2. ASSUME NEW m \in Node, m # n PROVE DoneOK(m)'
    <3>1. DoneOK(m)
      BY StageFacts
    <3> QED BY <1>1, <1>4, <1>6, <1>9, <2>2, <3>1, DonesKept
  <2>3. DoneOK(n)'
    <3>1. OpenDones(n)' = {}
      <4> SUFFICES ASSUME NEW d \in dones, d.node = n, d.term = t PROVE FALSE
        BY <1>4, <1>6 DEF OpenDones
      <4>1. t <= term[n] /\ term[n] \in Nat
        BY <1>1 DEF StageInv, DoneInv, Typed
      <4> QED BY <1>1, <1>3, <4>1
    <3>2. Confs(l) \subseteq 1..(Len(log[n]) + 1) /\ Len(log[n]) + 1 \in Confs(l)
      BY <1>2, <1>7, <1>8 DEF Confs
    <3>3. ASSUME NEW j \in Confs(l), l[j].term = t PROVE j = Len(log[n]) + 1
      <4> SUFFICES ASSUME j \in 1..Len(log[n]) PROVE FALSE
        BY <1>7, <3>2
      <4>1. t <= term[n] /\ term[n] \in Nat
        BY <1>1, <1>8, <1>14, <3>3 DEF Typed
      <4> QED BY <1>1, <1>3, <4>1
    <3>4. l[Len(log[n]) + 1].term = t
      BY <1>2, <1>8
    <3>5. IsLastConf(l, Len(log[n]) + 1)
      BY <1>7, <3>2 DEF IsLastConf
    <3>6. DoneIs(l, t, commit[n], {}, c.stage)
      BY <1>11, <3>2, <3>3, <3>4, <3>5 DEF DoneIs, Unhandled
    <3>7. term'[n] = t /\ ctx'[n] = c
      BY <1>4
    <3> QED BY <1>6, <1>9, <3>1, <3>6, <3>7 DEF DoneOK
  <2> QED BY <2>1, <2>2, <2>3 DEF DoneInv
<1>19. ~bad'
  BY <1>6 DEF StageInv
<1> QED BY <1>12, <1>15, <1>17, <1>18, <1>19 DEF StageInv

\* A leader stops being one.
LEMMA StepDownStage ==
    ASSUME TypeInv, StageInv, NEW n \in Node, StepDown(n)
    PROVE  TypeInv' /\ StageInv'
<1> DEFINE c == ResetCtx(ctx[n])
<1>1. /\ Typed /\ log[n] \in Logs /\ Len(log[n]) \in Nat /\ ctx[n] \in CtxType
  BY Types DEF Typed
<1>2. /\ role' = [role EXCEPT ![n] = "follower"] /\ ctx' = [ctx EXCEPT ![n] = c]
      /\ repl' = [repl EXCEPT ![n] = {}] /\ match' = [match EXCEPT ![n] = NoMatch]
      /\ term' = term /\ log' = log /\ commit' = commit /\ waits' = waits
      /\ dones' = dones /\ chosen' = chosen /\ bad' = bad
  BY DEF StepDown
<1>3. /\ c \in CtxType /\ c.stage = "none" /\ c.version \in Nat /\ ctx[n].version \in Nat
      /\ ctx[n].version <= c.version
  BY <1>1, ContextTypes
<1> HIDE DEF c
<1>4. TypeInv'
  <2>1. role' \in [Node -> {"follower", "leader"}]
    BY <1>2 DEF TypeInv
  <2>2. ctx' \in [Node -> CtxType]
    BY <1>2, <1>3 DEF TypeInv
  <2>3. repl' \in [Node -> SUBSET Node]
    BY <1>2 DEF TypeInv
  <2>4. match' \in [Node -> [Node -> Nat]]
    <3>1. NoMatch \in [Node -> Nat]
      BY DEF NoMatch
    <3> QED BY <1>2, <3>1 DEF TypeInv
  <2> QED BY <1>2, <2>1, <2>2, <2>3, <2>4 DEF TypeInv
<1>5. \A m \in Node :
         /\ role'[m] = IF m = n THEN "follower" ELSE role[m]
         /\ ctx'[m] = IF m = n THEN c ELSE ctx[m]
         /\ repl'[m] = IF m = n THEN {} ELSE repl[m]
  BY <1>2 DEF TypeInv
<1>6. Typed'
  BY <1>4, TypesNext
<1>7. \A m \in Node : StageOK(m)'
  <2> SUFFICES ASSUME NEW m \in Node PROVE StageOK(m)'
    OBVIOUS
  <2>1. StageIs(m, ctx[m], log[m], term[m], role[m], repl[m])
    BY DEF StageInv, StageOK
  <2>2. CASE m = n
    <3>1. /\ Len(log[n]) <= MaxLog /\ \A i \in 1..Len(log[n]) : log[n][i].term <= term[n]
      BY StageFacts
    <3>2. StageIs(n, c, log[n], term[n], "follower", {})
      BY <1>1, <2>1, <2>2, <3>1, ResetStage DEF c
    <3> QED BY <1>2, <1>5, <2>2, <3>2 DEF StageOK
  <2>3. CASE m # n
    BY <1>2, <1>5, <2>1, <2>3 DEF StageOK
  <2> QED BY <2>2, <2>3
<1>8. WaitInv'
  <2>1. ASSUME NEW m \in Node
        PROVE  /\ term[m] <= term'[m] /\ ctx[m].version <= ctx'[m].version
               /\ role'[m] = "leader" /\ term'[m] = term[m]
                     /\ ctx'[m].version = ctx[m].version
                    => /\ role[m] = "leader"
                       /\ ctx[m].stage = "catching" =>
                             ctx'[m].stage = "catching" /\ ctx'[m].adding = ctx[m].adding
    <3>1. term[m] \in Nat /\ ctx[m].version \in Nat
      BY <1>1 DEF Typed
    <3> QED BY <1>2, <1>3, <1>5, <3>1
  <2>2. WaitInv /\ \A m \in Node : term'[m] \in Nat /\ ctx'[m].version \in Nat
    BY <1>6 DEF StageInv, Typed
  <2> QED BY <1>1, <1>2, <2>1, <2>2, WaitsKept DEF WaitInv
<1>9. DoneInv'
  <2>1. \A m \in Node : DoneOK(m)'
    <3> SUFFICES ASSUME NEW m \in Node PROVE DoneOK(m)'
      OBVIOUS
    <3>1. DoneOK(m)
      BY StageFacts
    <3> QED BY <1>1, <1>2, <1>5, <3>1, DonesKept
  <2> QED BY <1>2, <2>1 DEF StageInv, DoneInv
<1> QED BY <1>2, <1>4, <1>7, <1>8, <1>9 DEF StageInv

\* A log with one more entry that is no configuration.
LEMMA DataAppended ==
    ASSUME NEW l \in Logs, NEW e \in EntryType, e.kind # "conf"
    PROVE  /\ Confs(Append(l, e)) = Confs(l)
           /\ ConfAt(Append(l, e), Len(Append(l, e))) = ConfAt(l, Len(l))
           /\ \A j : IsLastConf(Append(l, e), j) <=> IsLastConf(l, j)
<1> DEFINE m == Append(l, e)
<1>1. /\ m \in Logs /\ Len(m) = Len(l) + 1 /\ Len(l) \in Nat
      /\ \A i \in 1..Len(l) : m[i] = l[i]
      /\ m[Len(l) + 1] = e
  BY AppendFacts, LogType
<1> HIDE DEF m
<1>2. Confs(m) = Confs(l)
  BY <1>1 DEF Confs
<1>3. ConfAt(m, Len(m)) = ConfAt(l, Len(l))
  <2>1. ConfAt(m, Len(m)) = ConfAt(m, Len(m) - 1)
    BY <1>1, ConfStep
  <2>2. Len(m) - 1 = Len(l)
    BY <1>1
  <2>3. ConfAt(m, Len(l)) = ConfAt(l, Len(l))
    BY <1>1, ConfAgree
  <2> QED BY <2>1, <2>2, <2>3
<1> QED BY <1>2, <1>3 DEF IsLastConf, m

\* A leader writes an entry.
LEMMA ApplyStage ==
    ASSUME TypeInv, StageInv, NEW n \in Node, Apply(n)
    PROVE  TypeInv' /\ StageInv'
<1> DEFINE e == Data(term[n])
           l == Append(log[n], e)
<1>1. /\ Typed /\ log[n] \in Logs /\ Len(log[n]) \in Nat /\ term[n] \in Nat
      /\ ToCome(ctx[n]) \in Nat /\ MaxLog \in Nat
  BY Types, NodeFacts DEF Typed, ToCome
<1>2. /\ role[n] = "leader" /\ Len(log[n]) + 1 + ToCome(ctx[n]) < MaxLog
      /\ log' = [log EXCEPT ![n] = l]
      /\ role' = role /\ ctx' = ctx /\ repl' = repl /\ match' = match
      /\ term' = term /\ commit' = commit /\ waits' = waits
      /\ dones' = dones /\ chosen' = chosen /\ bad' = bad
  BY DEF Apply
<1>3. e \in EntryType /\ e.term = term[n] /\ e.kind = "data"
  BY <1>2, HandledFacts, EntryTypes
<1>4. /\ l \in Logs /\ Len(l) = Len(log[n]) + 1
      /\ \A i \in 1..Len(log[n]) : l[i] = log[n][i]
      /\ l[Len(log[n]) + 1] = e
      /\ Confs(l) = Confs(log[n])
      /\ ConfAt(l, Len(l)) = ConfAt(log[n], Len(log[n]))
      /\ \A j : IsLastConf(l, j) <=> IsLastConf(log[n], j)
  BY <1>1, <1>3, AppendFacts, DataAppended
<1> HIDE DEF e, l
<1>5. TypeInv'
  <2>1. log' \in [Node -> Seq(EntryType)]
    BY <1>2, <1>4 DEF TypeInv, Logs
  <2> QED BY <1>2, <2>1 DEF TypeInv
<1>6. \A m \in Node : log'[m] = IF m = n THEN l ELSE log[m]
  BY <1>2 DEF TypeInv
<1>7. \A m \in Node : StageOK(m)'
  <2> SUFFICES ASSUME NEW m \in Node PROVE StageOK(m)'
    OBVIOUS
  <2>1. StageIs(m, ctx[m], log[m], term[m], role[m], repl[m])
    BY DEF StageInv, StageOK
  <2>2. CASE m = n
    <3>1. Len(l) + ToCome(ctx[n]) <= MaxLog
      BY <1>1, <1>2, <1>4
    <3>2. \A i \in 1..Len(l) : l[i].term <= term[n]
      <4>1. \A i \in 1..Len(log[n]) : log[n][i].term <= term[n]
        BY StageFacts
      <4>2. \A i \in 1..Len(l) : i \in 1..Len(log[n]) \/ i = Len(log[n]) + 1
        BY <1>1, <1>4
      <4> QED BY <1>1, <1>3, <1>4, <4>1, <4>2
    <3>3. StageIs(n, ctx[n], l, term[n], role[n], repl[n])
      BY <1>4, <2>1, <2>2, <3>1, <3>2 DEF StageIs
    <3> QED BY <1>2, <1>6, <2>2, <3>3 DEF StageOK
  <2>3. CASE m # n
    BY <1>2, <1>6, <2>1, <2>3 DEF StageOK
  <2> QED BY <2>2, <2>3
<1>8. WaitInv'
  BY <1>2 DEF StageInv, WaitInv, IsLive
<1>9. DoneInv'
  <2>1. \A m \in Node : DoneOK(m)'
    <3> SUFFICES ASSUME NEW m \in Node PROVE DoneOK(m)'
      OBVIOUS
    <3>1. DoneOK(m)
      BY StageFacts
    <3>2. CASE m # n
      BY <1>1, <1>2, <1>6, <3>1, <3>2, DonesKept
    <3>3. CASE m = n
      <4>1. DoneIs(log[n], term[n], commit[n], OpenDones(n), ctx[n].stage)
        BY <1>2, <3>1, <3>3 DEF DoneOK
      <4>2. \A j \in Confs(l) : l[j] = log[n][j]
        BY <1>4 DEF Confs
      <4>3. OpenDones(n)' = OpenDones(n)
        BY <1>2 DEF OpenDones
      <4>4. Unhandled(l, term[n], commit[n], OpenDones(n))
               = Unhandled(log[n], term[n], commit[n], OpenDones(n))
        BY <1>4, <4>2 DEF Unhandled
      <4>5. DoneIs(l, term[n], commit[n], OpenDones(n), ctx[n].stage)
        BY <1>4, <4>1, <4>2, <4>4 DEF DoneIs
      <4> QED BY <1>2, <1>6, <3>3, <4>3, <4>5 DEF DoneOK
    <3> QED BY <3>2, <3>3
  <2> QED BY <1>2, <2>1 DEF StageInv, DoneInv
<1> QED BY <1>2, <1>5, <1>7, <1>8, <1>9 DEF StageInv

\* What AppendEntries leaves: the log of the peer, its term, and that it follows.
LEMMA ReplicateFacts ==
    ASSUME TypeInv, StageInv, NEW n \in Node, NEW f \in Node, NEW k \in 1..MaxLog,
           Replicate(n, f, k)
    PROVE  /\ f # n /\ role[n] = "leader" /\ term[f] <= term[n]
           /\ k \in 1..Len(log[n]) /\ k \in Nat
           /\ \A m \in Node :
                 /\ m # f => log'[m] = log[m]
                 /\ term'[m] = IF m = f THEN term[n] ELSE term[m]
                 /\ role'[m] = IF m = f THEN "follower" ELSE role[m]
                 /\ ctx'[m] = IF m = f THEN ResetCtx(ctx[m]) ELSE ctx[m]
                 /\ repl'[m] = IF m = f THEN {} ELSE repl[m]
                 /\ m # n /\ m # f => match'[m] = match[m]
                 /\ match'[n][m] = IF m = f THEN k ELSE match[n][m]
           /\ log'[f] \in Logs
           /\ log'[f] = log[f] \/ Len(log'[f]) = k
           /\ Agree(log'[f], log[n], k)
           /\ \/ log' = log
              \/ /\ log' = [log EXCEPT ![f] = log'[f]] /\ Len(log'[f]) = k
                 /\ \A i \in Nat : Agree(log[f], log[n], i) => i <= k
           /\ commit' = commit /\ waits' = waits /\ dones' = dones /\ chosen' = chosen
           /\ bad' = bad
           /\ TypeInv'
<1> DEFINE same == Common(log[n], log[f])
<1>1. /\ Typed /\ log[n] \in Logs /\ Len(log[n]) \in Nat /\ log[f] \in Logs
      /\ Len(log[f]) \in Nat /\ ctx[f] \in CtxType /\ MaxLog \in Nat
  BY Types, NodeFacts DEF Typed
<1>2. /\ role[n] = "leader" /\ f \in repl[n] /\ term[f] <= term[n]
      /\ k \in 1..Len(log[n]) /\ k >= same
      /\ log' = IF k > same THEN [log EXCEPT ![f] = SubSeq(log[n], 1, k)] ELSE log
      /\ term' = [term EXCEPT ![f] = term[n]]
      /\ role' = [role EXCEPT ![f] = "follower"]
      /\ ctx' = [ctx EXCEPT ![f] = ResetCtx(@)]
      /\ repl' = [repl EXCEPT ![f] = {}]
      /\ match' = [match EXCEPT ![n][f] = k, ![f] = NoMatch]
      /\ commit' = commit /\ waits' = waits /\ dones' = dones /\ chosen' = chosen
      /\ bad' = bad
  BY DEF Replicate
<1>3. f # n
  <2>1. repl[n] = (Peers(Conf(n)) \union ctx[n].new \union ctx[n].old) \ {n}
    BY <1>2, StageFacts
  <2> QED BY <1>2, <2>1
<1>4. k \in Nat /\ k \in 0..Len(log[n])
  BY <1>1, <1>2
<1>5. /\ SubSeq(log[n], 1, k) \in Logs /\ Len(SubSeq(log[n], 1, k)) = k
      /\ Agree(SubSeq(log[n], 1, k), log[n], k)
  BY <1>1, <1>4, PrefixFacts
\* The greatest common prefix is one.
<1>6. /\ same \in 0..Len(log[n]) /\ same <= Len(log[f]) /\ same \in Nat
      /\ SubSeq(log[n], 1, same) = SubSeq(log[f], 1, same)
      /\ \A i \in Nat : Agree(log[f], log[n], i) => i <= same
  <2> DEFINE I == {i \in 0..Min({Len(log[n]), Len(log[f])}) :
                      SubSeq(log[n], 1, i) = SubSeq(log[f], 1, i)}
  <2>1. /\ Min({Len(log[n]), Len(log[f])}) \in Nat
        /\ Min({Len(log[n]), Len(log[f])}) <= Len(log[n])
        /\ Min({Len(log[n]), Len(log[f])}) <= Len(log[f])
        /\ \A i \in Nat : i <= Len(log[n]) /\ i <= Len(log[f])
                            => i <= Min({Len(log[n]), Len(log[f])})
    <3> DEFINE a == Len(log[n])
               b == Len(log[f])
    <3>1. a \in Nat /\ b \in Nat
      BY <1>1
    <3> HIDE DEF a, b
    <3>2. \E x \in {a, b} : \A y \in {a, b} : x <= y
      <4>1. CASE a <= b
        BY <3>1, <4>1
      <4>2. CASE b <= a
        BY <3>1, <4>2
      <4> QED BY <3>1, <4>1, <4>2
    <3>3. Min({a, b}) \in {a, b} /\ \A y \in {a, b} : Min({a, b}) <= y
      BY <3>2 DEF Min
    <3>4. Min({a, b}) \in Nat /\ Min({a, b}) <= a /\ Min({a, b}) <= b
      BY <3>1, <3>3
    <3>5. \A i \in Nat : i <= a /\ i <= b => i <= Min({a, b})
      BY <3>3
    <3> QED BY <3>4, <3>5 DEF a, b
  <2>2. I \in SUBSET Nat /\ \A i \in I : i <= Len(log[n]) /\ i <= Len(log[f])
    <3> DEFINE x == Min({Len(log[n]), Len(log[f])})
    <3>1. x \in Nat /\ x <= Len(log[n]) /\ x <= Len(log[f])
      BY <2>1
    <3>2. \A i \in I : i \in 0..x
      OBVIOUS
    <3> HIDE DEF x, I
    <3>3. \A i \in I : i \in Nat /\ i <= Len(log[n]) /\ i <= Len(log[f])
      BY <1>1, <3>1, <3>2
    <3> QED BY <3>3
  <2>3. 0 \in I
    <3>1. /\ SubSeq(log[n], 1, 0) \in Logs /\ Len(SubSeq(log[n], 1, 0)) = 0
          /\ SubSeq(log[f], 1, 0) \in Logs /\ Len(SubSeq(log[f], 1, 0)) = 0
      BY <1>1, PrefixFacts
    <3>2. SubSeq(log[n], 1, 0) = SubSeq(log[f], 1, 0)
      BY <3>1, LogEqual
    <3> QED BY <2>1, <3>2
  <2>4. same = Max(I)
    BY DEF Common
  <2>5. \A i \in I : SubSeq(log[n], 1, i) = SubSeq(log[f], 1, i)
    OBVIOUS
  <2>10. ASSUME NEW i \in Nat, Agree(log[f], log[n], i) PROVE i \in I
    <3>1. i <= Len(log[f]) /\ i <= Len(log[n]) /\ \A j \in 1..i : log[f][j] = log[n][j]
      BY <2>10 DEF Agree
    <3>2. i \in 0..Len(log[f]) /\ i \in 0..Len(log[n])
      BY <1>1, <3>1
    <3>3. /\ SubSeq(log[n], 1, i) \in Logs /\ Len(SubSeq(log[n], 1, i)) = i
          /\ Agree(SubSeq(log[n], 1, i), log[n], i)
      BY <1>1, <3>2, PrefixFacts
    <3>4. /\ SubSeq(log[f], 1, i) \in Logs /\ Len(SubSeq(log[f], 1, i)) = i
          /\ Agree(SubSeq(log[f], 1, i), log[f], i)
      BY <1>1, <3>2, PrefixFacts
    <3>5. \A j \in 1..i : SubSeq(log[n], 1, i)[j] = SubSeq(log[f], 1, i)[j]
      BY <3>1, <3>3, <3>4 DEF Agree
    <3>6. SubSeq(log[n], 1, i) = SubSeq(log[f], 1, i)
      BY <3>3, <3>4, <3>5, LogEqual
    <3>7. i <= Min({Len(log[n]), Len(log[f])})
      BY <2>1, <3>1
    <3>8. i \in 0..Min({Len(log[n]), Len(log[f])})
      BY <2>1, <3>7
    <3> QED BY <3>6, <3>8
  <2> HIDE DEF I, same
  <2>6. Max(I) \in I /\ \A i \in I : i <= Max(I)
    BY <1>1, <2>2, <2>3, MaxOf
  <2>7. same \in I /\ same \in Nat
    BY <2>2, <2>4, <2>6
  <2>8. same <= Len(log[n]) /\ same <= Len(log[f])
    BY <2>2, <2>7
  <2>9. SubSeq(log[n], 1, same) = SubSeq(log[f], 1, same)
    BY <2>5, <2>7
  <2>11. \A i \in Nat : Agree(log[f], log[n], i) => i <= same
    BY <2>4, <2>6, <2>10
  <2> QED BY <1>1, <2>7, <2>8, <2>9, <2>11
<1> HIDE DEF same
<1>7. Agree(log[f], log[n], same)
  <2>1. /\ Len(SubSeq(log[f], 1, same)) = same /\ Agree(SubSeq(log[f], 1, same), log[f], same)
        /\ Agree(SubSeq(log[n], 1, same), log[n], same)
    BY <1>1, <1>6, PrefixFacts
  <2> QED BY <1>6, <2>1 DEF Agree
<1>8. /\ log'[f] \in Logs /\ (log'[f] = log[f] \/ Len(log'[f]) = k)
      /\ Agree(log'[f], log[n], k)
      /\ \A m \in Node : m # f => log'[m] = log[m]
      /\ log' \in [Node -> Seq(EntryType)]
      /\ \/ log' = log
         \/ /\ log' = [log EXCEPT ![f] = log'[f]] /\ Len(log'[f]) = k
            /\ \A i \in Nat : Agree(log[f], log[n], i) => i <= k
  <2>1. log \in [Node -> Seq(EntryType)]
    BY DEF TypeInv
  <2>2. CASE k > same
    <3>1. log' = [log EXCEPT ![f] = SubSeq(log[n], 1, k)]
      BY <1>2, <2>2
    <3>2. log'[f] = SubSeq(log[n], 1, k) /\ \A m \in Node : m # f => log'[m] = log[m]
      BY <2>1, <3>1
    <3>3. log' \in [Node -> Seq(EntryType)]
      BY <1>5, <2>1, <3>1 DEF Logs
    <3>4. \A i \in Nat : Agree(log[f], log[n], i) => i <= k
      BY <1>4, <1>6, <2>2
    <3>5. log' = [log EXCEPT ![f] = log'[f]]
      BY <3>1, <3>2
    <3> QED BY <1>5, <3>2, <3>3, <3>4, <3>5
  <2>3. CASE k = same
    <3>1. log' = log
      BY <1>2, <1>6, <2>3
    <3> QED BY <1>1, <1>7, <2>1, <2>3, <3>1
  <2> QED BY <1>2, <1>4, <1>6, <2>2, <2>3
<1>9. \A m \in Node :
         /\ term'[m] = IF m = f THEN term[n] ELSE term[m]
         /\ role'[m] = IF m = f THEN "follower" ELSE role[m]
         /\ ctx'[m] = IF m = f THEN ResetCtx(ctx[m]) ELSE ctx[m]
         /\ repl'[m] = IF m = f THEN {} ELSE repl[m]
  BY <1>2 DEF TypeInv
<1>10. /\ match' \in [Node -> [Node -> Nat]]
       /\ \A m \in Node :
             /\ m # n /\ m # f => match'[m] = match[m]
             /\ match'[n][m] = IF m = f THEN k ELSE match[n][m]
  <2>1. match \in [Node -> [Node -> Nat]] /\ NoMatch \in [Node -> Nat]
    BY DEF TypeInv, NoMatch
  <2>2. [match[n] EXCEPT ![f] = k] \in [Node -> Nat]
        /\ \A m \in Node : [match[n] EXCEPT ![f] = k][m] = IF m = f THEN k ELSE match[n][m]
    BY <1>4, <2>1
  <2> DEFINE r == [match[n] EXCEPT ![f] = k]
  <2>3. match' = [[match EXCEPT ![n] = r] EXCEPT ![f] = NoMatch]
    BY <1>2
  <2> HIDE DEF r
  <2>4. /\ match' \in [Node -> [Node -> Nat]] /\ match'[n] = r
        /\ \A m \in Node : m # n /\ m # f => match'[m] = match[m]
    BY <1>3, <2>1, <2>2, <2>3 DEF r
  <2> QED BY <2>2, <2>4 DEF r
<1>11. TypeInv'
  <2>1. term' \in [Node -> 1..MaxTerm] /\ role' \in [Node -> {"follower", "leader"}]
        /\ repl' \in [Node -> SUBSET Node]
    BY <1>2 DEF TypeInv
  <2>2. ctx' \in [Node -> CtxType]
    <3>1. ResetCtx(ctx[f]) \in CtxType
      BY <1>1, ContextTypes
    <3> QED BY <1>2, <3>1 DEF TypeInv
  <2> QED BY <1>2, <1>8, <1>10, <2>1, <2>2 DEF TypeInv
<1>12. \A m \in Node :
          /\ m # f => log'[m] = log[m]
          /\ term'[m] = IF m = f THEN term[n] ELSE term[m]
          /\ role'[m] = IF m = f THEN "follower" ELSE role[m]
          /\ ctx'[m] = IF m = f THEN ResetCtx(ctx[m]) ELSE ctx[m]
          /\ repl'[m] = IF m = f THEN {} ELSE repl[m]
          /\ m # n /\ m # f => match'[m] = match[m]
          /\ match'[n][m] = IF m = f THEN k ELSE match[n][m]
  BY <1>8, <1>9, <1>10
<1>13. role[n] = "leader" /\ term[f] <= term[n] /\ k \in 1..Len(log[n])
  BY <1>2
<1>14. commit' = commit /\ waits' = waits /\ dones' = dones /\ chosen' = chosen /\ bad' = bad
  BY <1>2
<1>15. log'[f] \in Logs /\ (log'[f] = log[f] \/ Len(log'[f]) = k) /\ Agree(log'[f], log[n], k)
  BY <1>8
<1>16. \/ log' = log
       \/ /\ log' = [log EXCEPT ![f] = log'[f]] /\ Len(log'[f]) = k
          /\ \A i \in Nat : Agree(log[f], log[n], i) => i <= k
  BY <1>8
<1> QED BY <1>16, <1>3, <1>4, <1>11, <1>12, <1>13, <1>14, <1>15

\* A peer takes the entries of a leader.
LEMMA ReplicateStage ==
    ASSUME TypeInv, StageInv, NEW n \in Node, NEW f \in Node, NEW k \in 1..MaxLog,
           Replicate(n, f, k)
    PROVE  TypeInv' /\ StageInv'
<1>1. /\ Typed /\ log[n] \in Logs /\ log[f] \in Logs /\ log'[f] \in Logs
      /\ Len(log[n]) \in Nat /\ Len(log[f]) \in Nat /\ Len(log'[f]) \in Nat
      /\ ctx[f] \in CtxType /\ term[f] \in Nat /\ term[n] \in Nat /\ MaxLog \in Nat
  BY Types, NodeFacts, ReplicateFacts, LogType DEF Typed
<1>2. /\ f # n /\ role[n] = "leader" /\ term[f] <= term[n]
      /\ k \in 1..Len(log[n]) /\ k \in Nat
      /\ \A m \in Node :
            /\ m # f => log'[m] = log[m]
            /\ term'[m] = IF m = f THEN term[n] ELSE term[m]
            /\ role'[m] = IF m = f THEN "follower" ELSE role[m]
            /\ ctx'[m] = IF m = f THEN ResetCtx(ctx[m]) ELSE ctx[m]
            /\ repl'[m] = IF m = f THEN {} ELSE repl[m]
  BY ReplicateFacts
<1>3. /\ log'[f] = log[f] \/ Len(log'[f]) = k
      /\ Agree(log'[f], log[n], k)
      /\ commit' = commit /\ waits' = waits /\ dones' = dones /\ chosen' = chosen
      /\ bad' = bad /\ TypeInv'
  BY ReplicateFacts
<1>4. Typed'
  BY <1>3, TypesNext
<1>5. \A m \in Node : StageOK(m)'
  <2> SUFFICES ASSUME NEW m \in Node PROVE StageOK(m)'
    OBVIOUS
  <2>1. StageIs(m, ctx[m], log[m], term[m], role[m], repl[m])
    BY DEF StageInv, StageOK
  <2>2. CASE m = f
    <3>1. /\ Len(log[f]) <= MaxLog /\ \A i \in 1..Len(log[f]) : log[f][i].term <= term[f]
          /\ Len(log[n]) <= MaxLog /\ \A i \in 1..Len(log[n]) : log[n][i].term <= term[n]
      BY StageFacts
    <3>2. Len(log'[f]) <= MaxLog
      BY <1>1, <1>2, <1>3, <3>1
    <3>3. ASSUME NEW i \in 1..Len(log'[f]) PROVE log'[f][i].term <= term[n]
      <4>1. CASE log'[f] = log[f]
        <5>1. log[f][i].term \in Nat /\ log[f][i].term <= term[f]
          BY <1>1, <3>1, <4>1, LogType
        <5> QED BY <1>1, <1>2, <4>1, <5>1
      <4>2. CASE Len(log'[f]) = k
        <5>1. i \in 1..Len(log[n]) /\ log'[f][i] = log[n][i]
          BY <1>1, <1>2, <1>3, <4>2 DEF Agree
        <5> QED BY <3>1, <5>1
      <4> QED BY <1>3, <4>1, <4>2
    <3>4. StageIs(f, ResetCtx(ctx[f]), log'[f], term[n], "follower", {})
      BY <1>1, <2>1, <2>2, <3>2, <3>3, ResetStage
    <3> QED BY <1>2, <2>2, <3>4 DEF StageOK
  <2>3. CASE m # f
    BY <1>2, <2>1, <2>3 DEF StageOK
  <2> QED BY <2>2, <2>3
<1>6. WaitInv'
  <2>1. ASSUME NEW m \in Node
        PROVE  /\ term[m] <= term'[m] /\ ctx[m].version <= ctx'[m].version
               /\ role'[m] = "leader" /\ term'[m] = term[m]
                     /\ ctx'[m].version = ctx[m].version
                    => /\ role[m] = "leader"
                       /\ ctx[m].stage = "catching" =>
                             ctx'[m].stage = "catching" /\ ctx'[m].adding = ctx[m].adding
    <3>1. term[m] \in Nat /\ ctx[m].version \in Nat /\ ctx[m] \in CtxType
      BY <1>1 DEF Typed
    <3>2. ctx[m].version <= ResetCtx(ctx[m]).version
      BY <3>1, ContextTypes
    <3> QED BY <1>2, <3>1, <3>2
  <2>2. WaitInv /\ \A m \in Node : term'[m] \in Nat /\ ctx'[m].version \in Nat
    BY <1>4 DEF StageInv, Typed
  <2> QED BY <1>1, <1>3, <2>1, <2>2, WaitsKept DEF WaitInv
<1>7. DoneInv'
  <2>1. \A m \in Node : DoneOK(m)'
    <3> SUFFICES ASSUME NEW m \in Node PROVE DoneOK(m)'
      OBVIOUS
    <3>1. DoneOK(m)
      BY StageFacts
    <3> QED BY <1>1, <1>2, <1>3, <3>1, DonesKept
  <2>2. \A d \in dones : d.term <= term'[d.node]
    <3> SUFFICES ASSUME NEW d \in dones PROVE d.term <= term'[d.node]
      OBVIOUS
    <3>1. d.term <= term[d.node] /\ d.term \in Nat /\ d.node \in Node /\ term[d.node] \in Nat
      BY <1>1 DEF StageInv, DoneInv, Typed
    <3> QED BY <1>1, <1>2, <3>1
  <2> QED BY <1>3, <2>1, <2>2 DEF DoneInv
<1> QED BY <1>3, <1>5, <1>6, <1>7 DEF StageInv

\* What commit_at commits: the last entry that a quorum has acknowledged.
LEMMA CommitFacts ==
    ASSUME TypeInv, StageInv, NEW n \in Node, Commit(n)
    PROVE  \E i \in 1..Len(log[n]) :
              /\ role[n] = "leader" /\ i > commit[n] /\ i \in Nat /\ i <= MaxLog
              /\ log[n][i].term = term[n]
              /\ Granted({n} \union {f \in Node : match[n][f] >= i}, ConfAt(log[n], i))
              /\ commit' = [commit EXCEPT ![n] = i]
              /\ dones' = dones \union
                          {[node |-> n, term |-> term[n], index |-> j] :
                             j \in {j \in (commit[n] + 1)..i :
                                      log[n][j].kind = "conf" /\ log[n][j].term = term[n]}}
              /\ chosen' = IF i > Len(chosen.log)
                           THEN [log |-> SubSeq(log[n], 1, i), term |-> term[n]] ELSE chosen
<1>1. /\ Typed /\ Len(log[n]) \in Nat /\ commit[n] \in Nat /\ MaxLog \in Nat
      /\ Len(log[n]) <= MaxLog
  BY Types, NodeFacts, StageFacts DEF Typed
<1> DEFINE C == Committable(n)
           i == Max(C)
<1>2. \A j \in C : /\ j \in (commit[n] + 1)..Len(log[n]) /\ log[n][j].term = term[n]
                   /\ Granted({n} \union {f \in Node : match[n][f] >= j}, ConfAt(log[n], j))
  BY DEF Committable
<1>3. C \in SUBSET Nat /\ \A j \in C : j <= Len(log[n])
  <2> HIDE DEF C
  <2> SUFFICES ASSUME NEW j \in C PROVE j \in Nat /\ j <= Len(log[n])
    OBVIOUS
  <2>1. j \in (commit[n] + 1)..Len(log[n])
    BY <1>2
  <2> QED BY <1>1, <2>1
<1>4. role[n] = "leader" /\ C # {}
  BY DEF Commit
<1>5. i \in C
  <2> HIDE DEF C
  <2> QED BY <1>1, <1>3, <1>4, MaxOf
<1>6. /\ commit' = [commit EXCEPT ![n] = i]
      /\ dones' = dones \union
                  {[node |-> n, term |-> term[n], index |-> j] :
                     j \in {j \in (commit[n] + 1)..i :
                              log[n][j].kind = "conf" /\ log[n][j].term = term[n]}}
      /\ chosen' = IF i > Len(chosen.log)
                   THEN [log |-> SubSeq(log[n], 1, i), term |-> term[n]] ELSE chosen
  BY DEF Commit
<1> HIDE DEF C, i
<1>7. i \in 1..Len(log[n]) /\ i > commit[n] /\ i \in Nat /\ i <= MaxLog
  <2>1. i \in (commit[n] + 1)..Len(log[n])
    BY <1>2, <1>5
  <2> QED BY <1>1, <2>1
<1> QED BY <1>2, <1>4, <1>5, <1>6, <1>7

\* A leader commits.
LEMMA CommitStage ==
    ASSUME TypeInv, StageInv, NEW n \in Node, Commit(n)
    PROVE  TypeInv' /\ StageInv'
<1>1. PICK i \in 1..Len(log[n]) :
         /\ role[n] = "leader" /\ i > commit[n] /\ i \in Nat /\ i <= MaxLog
         /\ commit' = [commit EXCEPT ![n] = i]
         /\ dones' = dones \union
                     {[node |-> n, term |-> term[n], index |-> j] :
                        j \in {j \in (commit[n] + 1)..i :
                                 log[n][j].kind = "conf" /\ log[n][j].term = term[n]}}
         /\ chosen' = IF i > Len(chosen.log)
                      THEN [log |-> SubSeq(log[n], 1, i), term |-> term[n]] ELSE chosen
  BY CommitFacts
<1>2. /\ term' = term /\ log' = log /\ role' = role /\ ctx' = ctx /\ repl' = repl
      /\ match' = match /\ waits' = waits /\ bad' = bad
  BY DEF Commit
<1>3. /\ Typed /\ log[n] \in Logs /\ Len(log[n]) \in Nat /\ commit[n] \in Nat
      /\ term[n] \in 1..MaxTerm /\ term[n] \in Nat
  BY Types DEF Typed
<1>4. TypeInv'
  <2>1. commit' \in [Node -> 0..MaxLog]
    BY <1>1 DEF TypeInv
  <2>2. dones' \subseteq DoneType
    <3>1. \A j \in (commit[n] + 1)..i :
             [node |-> n, term |-> term[n], index |-> j] \in DoneType
      BY <1>1, <1>3 DEF DoneType
    <3> QED BY <1>1, <3>1 DEF TypeInv
  <2>3. chosen' \in [log : Seq(EntryType), term : Nat]
    <3>1. SubSeq(log[n], 1, i) \in Logs
      BY <1>1, <1>3, PrefixFacts
    <3> QED BY <1>1, <1>3, <3>1 DEF TypeInv, Logs
  <2> QED BY <1>2, <2>1, <2>2, <2>3 DEF TypeInv
<1>5. \A m \in Node : commit'[m] = IF m = n THEN i ELSE commit[m]
  BY <1>1 DEF TypeInv
<1>6. \A m \in Node : StageOK(m)'
  BY <1>2 DEF StageInv, StageOK
<1>7. WaitInv'
  BY <1>2 DEF StageInv, WaitInv, IsLive
<1> DEFINE J == {j \in (commit[n] + 1)..i :
                    log[n][j].kind = "conf" /\ log[n][j].term = term[n]}
<1>8. /\ \A j \in J : /\ j \in Confs(log[n]) /\ log[n][j].term = term[n]
                      /\ j > commit[n] /\ j <= i
      /\ \A d \in dones' : d \in dones \/ (d.node = n /\ d.term = term[n] /\ d.index \in J)
  BY <1>1, <1>3 DEF Confs
<1> HIDE DEF J
<1>9. DoneInv'
  <2>1. \A d \in dones' : d.term <= term'[d.node]
    BY <1>2, <1>3, <1>8 DEF StageInv, DoneInv
  <2>2. ASSUME NEW m \in Node, role[m] = "leader"
        PROVE  DoneIs(log[m], term[m], commit'[m], OpenDones(m)', ctx[m].stage)
    <3>1. DoneIs(log[m], term[m], commit[m], OpenDones(m), ctx[m].stage)
      BY <2>2, StageFacts DEF DoneOK
    <3>2. CASE m # n
      <4>1. OpenDones(m)' \subseteq OpenDones(m)
        BY <1>2, <1>8, <3>2 DEF OpenDones
      <4> QED BY <1>5, <3>1, <3>2, <4>1 DEF DoneIs, Unhandled
    <3>3. CASE m = n
      <4>1. OpenDones(n)' \subseteq OpenDones(n) \union J
        BY <1>2, <1>8 DEF OpenDones
      <4>2. Unhandled(log[n], term[n], i, OpenDones(n)')
               \subseteq Unhandled(log[n], term[n], commit[n], OpenDones(n))
        <5>1. \A j \in Confs(log[n]) : j > i => j > commit[n]
          BY <1>1, <1>3 DEF Confs
        <5> QED BY <1>8, <4>1, <5>1 DEF Unhandled
      <4>3. \A j \in OpenDones(n)' : j <= i
        <5> SUFFICES ASSUME NEW j \in OpenDones(n) PROVE j <= i
          BY <1>8, <4>1
        <5>1. j <= commit[n] /\ j \in Nat
          BY <1>3, <3>1, <3>3 DEF DoneIs, OpenDones, Typed
        <5> QED BY <1>1, <1>3, <5>1
      <4> QED BY <1>5, <3>1, <3>3, <4>2, <4>3 DEF DoneIs
    <3> QED BY <3>2, <3>3
  <2> QED BY <1>2, <2>1, <2>2 DEF DoneInv, DoneOK
<1> QED BY <1>2, <1>4, <1>6, <1>7, <1>9 DEF StageInv

\* A closure is about to run.
LEMMA CatchUpStage ==
    ASSUME TypeInv, StageInv, NEW w \in waits, CatchUp(w)
    PROVE  TypeInv' /\ StageInv'
<1>1. PICK st \in {"ok", "fail"} : waits' = (waits \ {w}) \union {[w EXCEPT !.st = st]}
  BY DEF CatchUp
<1>2. /\ term' = term /\ log' = log /\ role' = role /\ ctx' = ctx /\ repl' = repl
      /\ match' = match /\ commit' = commit /\ dones' = dones /\ chosen' = chosen
      /\ bad' = bad
  BY DEF CatchUp
<1> DEFINE v == [w EXCEPT !.st = st]
<1>3. /\ v \in WaitType /\ v.node = w.node /\ v.term = w.term /\ v.version = w.version
      /\ v.peer = w.peer
  <2>1. w \in WaitType
    BY DEF TypeInv
  <2> QED BY <2>1 DEF WaitType
<1>4. waits' = (waits \ {w}) \union {v}
  BY <1>1
<1> HIDE DEF v
<1>5. TypeInv'
  BY <1>2, <1>3, <1>4 DEF TypeInv
<1>6. \A m \in Node : StageOK(m)'
  BY <1>2 DEF StageInv, StageOK
<1>7. WaitInv'
  <2>1. \A x \in waits' : \E y \in waits :
           /\ x.node = y.node /\ x.term = y.term /\ x.version = y.version
           /\ x.peer = y.peer
    BY <1>3, <1>4
  <2>2. ASSUME NEW x \in waits', NEW y \in waits',
               x.node = y.node /\ x.term = y.term /\ x.version = y.version
                  /\ x.peer = y.peer
        PROVE  x = y
    <3>1. \A a, b \in waits : a.node = b.node /\ a.term = b.term /\ a.version = b.version
                                 /\ a.peer = b.peer => a = b
      BY DEF StageInv, WaitInv
    <3> QED BY <1>3, <1>4, <2>2, <3>1
  <2>3. Typed /\ WaitInv /\ \A m \in Node : /\ term'[m] \in Nat /\ ctx'[m].version \in Nat
                                            /\ term[m] <= term'[m]
                                            /\ ctx[m].version <= ctx'[m].version
    BY <1>2, Types DEF StageInv, Typed
  <2> QED BY <1>2, <2>1, <2>2, <2>3, WaitsKept
<1>8. DoneInv'
  BY <1>2 DEF StageInv, DoneInv, DoneOK, OpenDones
<1> QED BY <1>2, <1>5, <1>6, <1>7, <1>8 DEF StageInv

\* A leader writes the configuration of a stage, when it has heard of those before.
LEMMA ConfWritten ==
    ASSUME TypeInv, StageInv, NEW n \in Node, role[n] = "leader", NEW c \in CtxType,
           NEW s \in {"joint", "stable"}, NEW old \in SUBSET Node,
           old = IF s = "joint" THEN c.old ELSE {},
           Len(log[n]) + (IF s = "joint" THEN 2 ELSE 1) <= MaxLog,
           repl[n] = (c.new \union c.old) \ {n},
           dones' \subseteq dones,
           Unhandled(log[n], term[n], commit[n], OpenDones(n)') = {},
           ctx' = [ctx EXCEPT ![n] = [c EXCEPT !.stage = s]],
           log' = [log EXCEPT ![n] = Append(@, ConfEntry(term[n], c.new, old))],
           role' = role, repl' = repl, term' = term, match' = match, commit' = commit,
           chosen' = chosen, bad' \in BOOLEAN, waits' \subseteq waits
    PROVE  TypeInv' /\ (\A m \in Node : StageOK(m)') /\ DoneInv'
<1> DEFINE e == ConfEntry(term[n], c.new, old)
           l == Append(log[n], e)
           d == [c EXCEPT !.stage = s]
           D == OpenDones(n)'
<1>1. /\ Typed /\ log[n] \in Logs /\ Len(log[n]) \in Nat /\ term[n] \in Nat
      /\ commit[n] \in Nat /\ MaxLog \in Nat
      /\ c.new \in SUBSET Node /\ c.old \in SUBSET Node
  BY Types, NodeFacts DEF Typed, CtxType
<1>2. /\ e \in EntryType /\ e.term = term[n] /\ e.kind = "conf"
      /\ e.new = c.new /\ e.old = old
  BY <1>1, HandledFacts, EntryTypes
<1>3. /\ l \in Logs /\ Len(l) = Len(log[n]) + 1
      /\ \A i \in 1..Len(log[n]) : l[i] = log[n][i]
      /\ l[Len(log[n]) + 1] = e
  BY <1>1, <1>2, AppendFacts
<1>4. /\ d \in CtxType /\ d.stage = s /\ d.new = c.new /\ d.old = c.old
  BY s \in {"none", "catching", "joint", "stable"}, StageSet
<1>5. log' = [log EXCEPT ![n] = l] /\ ctx' = [ctx EXCEPT ![n] = d]
  OBVIOUS
<1> HIDE DEF e, l, d, D
<1>6. ConfAt(l, Len(l)) = [new |-> c.new, old |-> old]
  <2>1. Len(l) \in Nat \ {0} /\ l[Len(l)] = e
    BY <1>1, <1>3
  <2> QED BY <1>2, <2>1, ConfStep
<1>7. TypeInv'
  <2>1. log' \in [Node -> Seq(EntryType)]
    BY <1>3, <1>5 DEF TypeInv, Logs
  <2>2. ctx' \in [Node -> CtxType]
    BY <1>4, <1>5 DEF TypeInv
  <2> QED BY <2>1, <2>2 DEF TypeInv
<1>8. \A m \in Node : /\ log'[m] = IF m = n THEN l ELSE log[m]
                      /\ ctx'[m] = IF m = n THEN d ELSE ctx[m]
  BY <1>5 DEF TypeInv
<1>9. \A m \in Node : StageOK(m)'
  <2> SUFFICES ASSUME NEW m \in Node PROVE StageOK(m)'
    OBVIOUS
  <2>1. StageIs(m, ctx[m], log[m], term[m], role[m], repl[m])
    BY DEF StageInv, StageOK
  <2>2. CASE m = n
    <3>1. Len(l) + ToCome(d) <= MaxLog
      <4>1. CASE s = "joint"
        <5>1. ToCome(d) = 1 /\ Len(log[n]) + 2 <= MaxLog
          BY <1>4, <4>1 DEF ToCome
        <5> QED BY ONLY <1>1, <1>3, <5>1
      <4>2. CASE s = "stable"
        <5>1. ToCome(d) = 0 /\ Len(log[n]) + 1 <= MaxLog
          BY <1>4, <4>2 DEF ToCome
        <5> QED BY ONLY <1>1, <1>3, <5>1
      <4> QED BY <4>1, <4>2
    <3>2. \A i \in 1..Len(l) : l[i].term <= term[n]
      <4>1. \A i \in 1..Len(log[n]) : log[n][i].term <= term[n]
        BY StageFacts
      <4>2. \A i \in 1..Len(l) : i \in 1..Len(log[n]) \/ i = Len(log[n]) + 1
        BY <1>1, <1>3
      <4> QED BY <1>1, <1>2, <1>3, <4>1, <4>2
    <3>3. repl[n] = (Peers(ConfAt(l, Len(l))) \union d.new \union d.old) \ {n}
      BY <1>4, <1>6 DEF Peers
    <3>4. /\ d.stage = "joint" => ConfAt(l, Len(l)) = [new |-> d.new, old |-> d.old]
          /\ d.stage = "stable" => ConfAt(l, Len(l)) = [new |-> d.new, old |-> {}]
      BY <1>4, <1>6
    <3>5. d.stage # "none" /\ d.stage # "catching"
      BY <1>4
    <3>6. StageIs(n, d, l, term[n], "leader", repl[n])
      BY <3>1, <3>2, <3>3, <3>4, <3>5 DEF StageIs
    <3> QED BY <1>8, <2>2, <3>6 DEF StageOK
  <2>3. CASE m # n
    BY <1>8, <2>1, <2>3 DEF StageOK
  <2> QED BY <2>2, <2>3
<1>10. DoneInv'
  <2>1. \A m \in Node : DoneOK(m)'
    <3> SUFFICES ASSUME NEW m \in Node PROVE DoneOK(m)'
      OBVIOUS
    <3>1. DoneOK(m)
      BY StageFacts
    <3>2. CASE m # n
      BY <1>1, <1>8, <3>1, <3>2, DonesKept
    <3>3. CASE m = n
      <4>1. /\ D = {} /\ \A j \in Confs(log[n]) : log[n][j].term = term[n] => ~(j > commit[n])
        BY DEF Unhandled, D
      <4>2. /\ Len(log[n]) + 1 \in Confs(l)
            /\ \A j \in Confs(l) : j \in Confs(log[n]) \/ j = Len(log[n]) + 1
            /\ \A j \in Confs(log[n]) : l[j] = log[n][j]
            /\ \A j \in Confs(l) : j <= Len(log[n]) + 1
        BY <1>1, <1>2, <1>3 DEF Confs
      <4>3. IsLastConf(l, Len(log[n]) + 1)
        BY <4>2 DEF IsLastConf
      <4>4. \A j \in Unhandled(l, term[n], commit[n], D) : j = Len(log[n]) + 1
        BY <4>1, <4>2 DEF Unhandled
      <4>5. l[Len(log[n]) + 1].term = term[n]
        BY <1>2, <1>3
      <4>6. DoneIs(l, term[n], commit[n], D, d.stage)
        BY <1>4, <4>1, <4>2, <4>3, <4>4, <4>5 DEF DoneIs
      <4> QED BY <1>8, <3>3, <4>6 DEF DoneOK, D
    <3> QED BY <3>2, <3>3
  <2> QED BY <2>1 DEF StageInv, DoneInv
<1> QED BY <1>7, <1>9, <1>10

\* A change ends: the leader leads on with the configuration that it has, or not.
LEMMA ChangeEnded ==
    ASSUME TypeInv, StageInv, NEW n \in Node, role[n] = "leader", NEW c \in CtxType,
           NEW r \in {"leader", "follower"}, NEW R \in SUBSET Node,
           \/ r = "leader" /\ Conf(n).old = {} /\ n \in Conf(n).new /\ R = Conf(n).new \ {n}
           \/ r = "follower" /\ R = {},
           dones' \subseteq dones,
           Unhandled(log[n], term[n], commit[n], OpenDones(n)') = {},
           ctx' = [ctx EXCEPT ![n] = Reset(c)],
           role' = [role EXCEPT ![n] = r], repl' = [repl EXCEPT ![n] = R],
           log' = log, term' = term, match' = match, commit' = commit,
           chosen' = chosen, bad' \in BOOLEAN, waits' \subseteq waits
    PROVE  TypeInv' /\ (\A m \in Node : StageOK(m)') /\ DoneInv'
<1> DEFINE d == Reset(c)
           D == OpenDones(n)'
<1>1. /\ Typed /\ log[n] \in Logs /\ Len(log[n]) \in Nat /\ MaxLog \in Nat
  BY Types, NodeFacts DEF Typed
<1>2. d \in CtxType /\ d.stage = "none" /\ d.new = {} /\ d.old = {} /\ d.adding = {}
  BY ContextTypes
<1>3. ctx' = [ctx EXCEPT ![n] = d]
  OBVIOUS
<1> HIDE DEF d, D
<1>4. TypeInv'
  <2>1. ctx' \in [Node -> CtxType]
    BY <1>2, <1>3 DEF TypeInv
  <2>2. role' \in [Node -> {"follower", "leader"}] /\ repl' \in [Node -> SUBSET Node]
    BY DEF TypeInv
  <2> QED BY <2>1, <2>2 DEF TypeInv
<1>5. \A m \in Node : /\ role'[m] = IF m = n THEN r ELSE role[m]
                      /\ ctx'[m] = IF m = n THEN d ELSE ctx[m]
                      /\ repl'[m] = IF m = n THEN R ELSE repl[m]
  BY <1>3 DEF TypeInv
<1>6. \A m \in Node : StageOK(m)'
  <2> SUFFICES ASSUME NEW m \in Node PROVE StageOK(m)'
    OBVIOUS
  <2>1. StageIs(m, ctx[m], log[m], term[m], role[m], repl[m])
    BY DEF StageInv, StageOK
  <2>2. CASE m = n
    <3>1. Len(log[n]) + ToCome(d) <= MaxLog
      <4>1. ToCome(d) = 0 /\ Len(log[n]) <= MaxLog
        BY <1>2, StageFacts DEF ToCome
      <4> QED BY <1>1, <4>1
    <3>2. \A i \in 1..Len(log[n]) : log[n][i].term <= term[n]
      BY StageFacts
    <3>3. r = "leader" => R = (Peers(Conf(n)) \union d.new \union d.old) \ {n}
      BY <1>2 DEF Peers
    <3>4. d.stage # "catching" /\ d.stage # "joint" /\ d.stage # "stable"
      BY <1>2
    <3>5. r = "leader" => Conf(n).old = {} /\ n \in Conf(n).new
      OBVIOUS
    <3>6. r = "follower" => d.stage = "none" /\ R = {}
      BY <1>2
    <3>7. StageIs(n, d, log[n], term[n], r, R)
      BY <1>2, <3>1, <3>2, <3>3, <3>4, <3>5, <3>6 DEF StageIs, Conf
    <3> QED BY <1>5, <2>2, <3>7 DEF StageOK
  <2>3. CASE m # n
    BY <1>5, <2>1, <2>3 DEF StageOK
  <2> QED BY <2>2, <2>3
<1>7. DoneInv'
  <2>1. \A m \in Node : DoneOK(m)'
    <3> SUFFICES ASSUME NEW m \in Node PROVE DoneOK(m)'
      OBVIOUS
    <3>1. DoneOK(m)
      BY StageFacts
    <3>2. CASE m # n
      BY <1>1, <1>5, <3>1, <3>2, DonesKept
    <3>3. CASE m = n
      <4>1. D = {} /\ Unhandled(log[n], term[n], commit[n], D) = {}
        BY DEF Unhandled, D
      <4>2. \E j \in Confs(log[n]) : log[n][j].term = term[n]
        BY HandledFacts
      <4>3. DoneIs(log[n], term[n], commit[n], D, d.stage)
        BY <4>1, <4>2 DEF DoneIs
      <4> QED BY <1>5, <3>3, <4>3 DEF DoneOK, D
    <3> QED BY <3>2, <3>3
  <2> QED BY <2>1 DEF StageInv, DoneInv
<1> QED BY <1>4, <1>6, <1>7

\* ConfigurationCtx::start.
LEMMA StartedFacts ==
    ASSUME TypeInv, StageInv, NEW n \in Node, role[n] = "leader", ~is_busy(ctx[n]),
           NEW new \in SUBSET Node
    PROVE  LET c == Started(n, new, Conf(n).new)
           IN  /\ c \in CtxType /\ c.stage = "catching" /\ c.new = new
               /\ c.old = Conf(n).new /\ c.old \in SUBSET Node
               /\ c.adding = new \ Conf(n).new
               /\ c.nchanges = Cardinality((c.new \ c.old) \union (c.old \ c.new))
               /\ c.version = ctx[n].version
               /\ Conf(n) = [new |-> c.old, old |-> {}] /\ n \in c.old
               /\ repl[n] = c.old \ {n}
               /\ Unhandled(log[n], term[n], commit[n], OpenDones(n)) = {}
<1> DEFINE o == Conf(n).new
           S == (new \ o) \union (o \ new)
           c == Started(n, new, o)
<1>1. ctx[n] \in CtxType /\ o \in SUBSET Node /\ Conf(n) = [new |-> o, old |-> Conf(n).old]
  BY Types, ConfTyped DEF Typed
<1>2. ctx[n].stage = "none"
  BY DEF is_busy
<1>3. S \in SUBSET Node /\ Cardinality(S) \in Nat
  BY <1>1, NodeFacts
<1>4. /\ c \in CtxType /\ c.stage = "catching" /\ c.new = new /\ c.old = o
      /\ c.adding = new \ o /\ c.nchanges = Cardinality(S)
      /\ c.version = ctx[n].version
  <2>1. c = [ctx[n] EXCEPT !.stage = "catching", !.new = new, !.old = o,
                           !.nchanges = Cardinality(S), !.adding = new \ o]
    BY DEF Started
  <2> HIDE DEF S, o, c
  <2>2. ctx[n] \in CtxType /\ o \in SUBSET Node /\ Cardinality(S) \in Nat
        /\ new \ o \in SUBSET Node
    BY <1>1, <1>3
  <2>3. c \in CtxType
    BY ONLY <2>1, <2>2, new \in SUBSET Node DEF CtxType
  <2>4. /\ c.stage = "catching" /\ c.new = new /\ c.old = o
        /\ c.adding = new \ o /\ c.nchanges = Cardinality(S)
        /\ c.version = ctx[n].version
    BY ONLY <2>1, <2>2 DEF CtxType
  <2> QED BY <2>3, <2>4
<1>5. /\ Conf(n).old = {} /\ n \in o
      /\ repl[n] = (Peers(Conf(n)) \union ctx[n].new \union ctx[n].old) \ {n}
      /\ ctx[n].new = {} /\ ctx[n].old = {}
  BY <1>2, StageFacts
<1>6. repl[n] = o \ {n}
  BY <1>5 DEF Peers
<1>7. Unhandled(log[n], term[n], commit[n], OpenDones(n)) = {}
  BY <1>2, HandledFacts
<1> HIDE DEF c
<1> QED BY <1>1, <1>4, <1>5, <1>6, <1>7 DEF c

\* A change of peers starts.
LEMMA ChangePeersStage ==
    ASSUME TypeInv, StageInv, NEW n \in Node, NEW new \in Targets, ChangePeers(n, new)
    PROVE  TypeInv' /\ StageInv'
<1> DEFINE c == Started(n, new, Conf(n).new)
<1>1. /\ Typed /\ log[n] \in Logs /\ Len(log[n]) \in Nat /\ MaxLog \in Nat
      /\ new \in SUBSET Node /\ new # {}
  BY Types, NodeFacts, MembershipAssumption DEF Typed
<1>2. /\ role[n] = "leader" /\ ~is_busy(ctx[n]) /\ new # Conf(n).new
      /\ Len(log[n]) + 2 <= MaxLog /\ Start(n, c)
      /\ term' = term /\ match' = match /\ commit' = commit /\ dones' = dones
      /\ chosen' = chosen /\ bad' = bad
  BY DEF ChangePeers
<1>3. /\ c \in CtxType /\ c.stage = "catching" /\ c.new = new
      /\ c.old = Conf(n).new /\ c.old \in SUBSET Node
      /\ c.adding = new \ Conf(n).new
      /\ c.nchanges = Cardinality((c.new \ c.old) \union (c.old \ c.new))
      /\ c.version = ctx[n].version
      /\ Conf(n) = [new |-> c.old, old |-> {}] /\ n \in c.old
      /\ repl[n] = c.old \ {n}
      /\ Unhandled(log[n], term[n], commit[n], OpenDones(n)) = {}
  BY <1>1, <1>2, StartedFacts
<1>4. ctx[n].stage = "none" /\ ~bad /\ bad \in BOOLEAN /\ ~bad'
  BY <1>2 DEF is_busy, StageInv, TypeInv
<1>5. OpenDones(n)' = OpenDones(n)
  BY <1>2 DEF OpenDones
<1> HIDE DEF c
\* No closure of this change waits yet.
<1>6. \A w \in waits : w.node = n /\ w.term = term[n] => w.version # ctx[n].version
  BY <1>2, <1>4 DEF StageInv, WaitInv, IsLive
<1>7. CASE c.adding = {}
  <2>1. /\ NextStage(n, c) /\ waits' = waits
    BY <1>2, <1>7 DEF Start
  <2>2. repl[n] = (c.new \union c.old) \ {n}
    BY <1>3, <1>7
  <2> DEFINE s == IF NeedsJoint(c) THEN "joint" ELSE "stable"
             old == IF s = "joint" THEN c.old ELSE {}
  <2>3. /\ ctx' = [ctx EXCEPT ![n] = [c EXCEPT !.stage = s]]
        /\ log' = [log EXCEPT ![n] = Append(@, ConfEntry(term[n], c.new, old))]
        /\ role' = role /\ repl' = repl
    <3>1. CASE NeedsJoint(c)
      BY <1>3, <2>1, <3>1 DEF NextStage
    <3>2. CASE ~NeedsJoint(c)
      BY <1>3, <2>1, <3>2 DEF NextStage
    <3> QED BY <3>1, <3>2
  <2>4. s \in {"joint", "stable"} /\ old \in SUBSET Node
    BY <1>3
  <2>5. old = IF s = "joint" THEN c.old ELSE {}
    OBVIOUS
  <2>6. Len(log[n]) + (IF s = "joint" THEN 2 ELSE 1) <= MaxLog
    <3> HIDE DEF s
    <3>1. CASE s = "joint"
      BY <1>2, <3>1
    <3>2. CASE s # "joint"
      <4>1. Len(log[n]) + 1 <= MaxLog
        BY <1>1, <1>2
      <4> QED BY <3>2, <4>1
    <3> QED BY <3>1, <3>2
  <2> HIDE DEF s, old
  <2>7. TypeInv' /\ (\A m \in Node : StageOK(m)') /\ DoneInv'
    BY <1>2, <1>3, <1>4, <1>5, <2>1, <2>2, <2>3, <2>4, <2>5, <2>6, ConfWritten
  <2>8. WaitInv'
    <3>1. \A m \in Node : ctx'[m] = IF m = n THEN [c EXCEPT !.stage = s] ELSE ctx[m]
      BY <2>3 DEF TypeInv
    <3>2. [c EXCEPT !.stage = s].version = ctx[n].version
      BY <1>3, <2>4, StageSet
    <3>3. \A m \in Node : ctx'[m].version = ctx[m].version
      BY <3>1, <3>2
    <3>4. \A w \in waits : IsLive(w)' <=> IsLive(w)
      BY <1>1, <1>2, <2>3, <3>3 DEF IsLive, Typed
    <3>5. \A w \in waits : IsLive(w) => w.node # n
      BY <1>6 DEF IsLive
    <3> QED BY <1>1, <1>2, <2>1, <3>1, <3>3, <3>4, <3>5 DEF StageInv, WaitInv, Typed
  <2> QED BY <1>4, <2>7, <2>8 DEF StageInv
<1>8. CASE c.adding # {}
  <2> DEFINE W == {[node |-> n, term |-> term[n], peer |-> p,
                    version |-> c.version, st |-> "wait"] : p \in c.adding}
  <2>1. /\ ctx' = [ctx EXCEPT ![n] = c] /\ repl' = [repl EXCEPT ![n] = @ \union c.adding]
        /\ waits' = waits \union W /\ role' = role /\ log' = log
    BY <1>2, <1>8 DEF Start
  <2>2. c.adding \in SUBSET Node /\ term[n] \in 1..MaxTerm /\ c.version \in Nat
    BY <1>1, <1>3 DEF CtxType, Typed
  <2>3. \A w \in W : /\ w \in WaitType /\ w.node = n /\ w.term = term[n]
                     /\ w.version = c.version /\ w.peer \in c.adding
                     /\ w = [node |-> n, term |-> term[n], peer |-> w.peer,
                             version |-> c.version, st |-> "wait"]
    BY <2>2 DEF WaitType
  <2> HIDE DEF W
  <2>4. \A m \in Node : /\ ctx'[m] = IF m = n THEN c ELSE ctx[m]
                        /\ repl'[m] = IF m = n THEN repl[n] \union c.adding ELSE repl[m]
    BY <2>1 DEF TypeInv
  <2>5. TypeInv'
    <3>1. ctx' \in [Node -> CtxType]
      BY <1>3, <2>1 DEF TypeInv
    <3>2. repl' \in [Node -> SUBSET Node]
      BY <2>1, <2>2 DEF TypeInv
    <3>3. waits' \subseteq WaitType
      BY <2>1, <2>3 DEF TypeInv
    <3> QED BY <1>2, <2>1, <3>1, <3>2, <3>3 DEF TypeInv
  <2>6. \A m \in Node : StageOK(m)'
    <3> SUFFICES ASSUME NEW m \in Node PROVE StageOK(m)'
      OBVIOUS
    <3>1. StageIs(m, ctx[m], log[m], term[m], role[m], repl[m])
      BY DEF StageInv, StageOK
    <3>2. CASE m = n
      <4>1. Len(log[n]) + ToCome(c) <= MaxLog
        <5>1. ToCome(c) = 2
          BY <1>3 DEF ToCome
        <5> QED BY <1>2, <5>1
      <4>2. \A i \in 1..Len(log[n]) : log[n][i].term <= term[n]
        BY StageFacts
      <4>3. repl[n] \union c.adding = (Peers(Conf(n)) \union c.new \union c.old) \ {n}
        BY <1>3 DEF Peers
      <4>4. c.stage # "none" /\ c.stage # "joint" /\ c.stage # "stable"
        BY <1>3
      <4>5. c.new # {} /\ c.new # c.old /\ c.adding \subseteq c.new \ c.old
        BY <1>1, <1>2, <1>3
      <4>6. StageIs(n, c, log[n], term[n], "leader", repl[n] \union c.adding)
        BY <1>3, <1>8, <4>1, <4>2, <4>3, <4>4, <4>5 DEF StageIs, Conf
      <4> QED BY <1>2, <2>1, <2>4, <3>2, <4>6 DEF StageOK
    <3>3. CASE m # n
      BY <1>2, <2>1, <2>4, <3>1, <3>3 DEF StageOK
    <3> QED BY <3>2, <3>3
  <2>7. WaitInv'
    <3>1. \A m \in Node : ctx'[m].version = ctx[m].version
      BY <1>3, <2>4
    <3>2. \A w \in waits' : w.node \in Node /\ (w \in waits \/ w \in W)
      BY <1>1, <2>1, <2>3 DEF Typed
    <3>3. ASSUME NEW w \in waits'
          PROVE  /\ w.term <= term'[w.node] /\ w.version <= ctx'[w.node].version
                 /\ IsLive(w)' => /\ ctx'[w.node].stage = "catching"
                                  /\ w.peer \in ctx'[w.node].adding
      <4>1. CASE w \in waits
        <5>1. IsLive(w)' => IsLive(w) /\ w.node # n
          BY <1>2, <1>6, <2>1, <3>1, <3>2, <4>1 DEF IsLive
        <5>2. /\ w.term <= term[w.node] /\ w.version <= ctx[w.node].version
              /\ IsLive(w) => ctx[w.node].stage = "catching" /\ w.peer \in ctx[w.node].adding
          BY <4>1 DEF StageInv, WaitInv
        <5> QED BY <1>2, <2>4, <3>1, <3>2, <5>1, <5>2
      <4>2. CASE w \in W
        <5>1. term[n] \in Nat /\ ctx[n].version \in Nat
          BY <1>1 DEF Typed
        <5> QED BY <1>2, <1>3, <2>3, <2>4, <4>2, <5>1
      <4> QED BY <3>2, <4>1, <4>2
    <3>4. ASSUME NEW w \in waits', NEW x \in waits',
                 w.node = x.node /\ w.term = x.term /\ w.version = x.version
                    /\ w.peer = x.peer
          PROVE  w = x
      <4>1. CASE w \in waits /\ x \in waits
        BY <3>4, <4>1 DEF StageInv, WaitInv
      <4>2. CASE w \in W /\ x \in W
        BY <2>3, <3>4, <4>2
      <4>3. CASE (w \in waits /\ x \in W) \/ (w \in W /\ x \in waits)
        BY <1>3, <1>6, <2>3, <3>4, <4>3
      <4> QED BY <3>2, <4>1, <4>2, <4>3
    <3> QED BY <3>3, <3>4 DEF WaitInv
  <2>8. DoneInv'
    <3>1. \A m \in Node : DoneOK(m)'
      <4> SUFFICES ASSUME NEW m \in Node PROVE DoneOK(m)'
        OBVIOUS
      <4>1. DoneOK(m)
        BY StageFacts
      <4>2. ctx[m].stage \in {"joint", "stable"} => ctx'[m].stage \in {"joint", "stable"}
        BY <1>4, <2>4
      <4> QED BY <1>1, <1>2, <2>1, <4>1, <4>2, DonesKept
    <3> QED BY <1>2, <3>1 DEF StageInv, DoneInv
  <2> QED BY <1>4, <2>5, <2>6, <2>7, <2>8 DEF StageInv
<1> QED BY <1>7, <1>8

\* A closure of a peer that has caught up, or not.
LEMMA OnCaughtUpStage ==
    ASSUME TypeInv, StageInv, NEW w \in waits, OnCaughtUp(w)
    PROVE  TypeInv' /\ StageInv'
<1> DEFINE n == w.node
           c == [ctx[n] EXCEPT !.adding = @ \ {w.peer}]
<1>1. w \in WaitType /\ n \in Node /\ w.peer \in Node
  BY DEF TypeInv, WaitType
<1>2. /\ Typed /\ log[n] \in Logs /\ Len(log[n]) \in Nat /\ MaxLog \in Nat
      /\ ctx[n] \in CtxType /\ repl[n] \in SUBSET Node
      /\ ctx[n].version \in Nat
  BY <1>1, Types, NodeFacts DEF Typed
<1>3. /\ waits' = waits \ {w} /\ term' = term /\ match' = match /\ commit' = commit
      /\ dones' = dones /\ chosen' = chosen
      /\ IF role[n] = "leader" /\ term[n] = w.term /\ VersionMatches(w, ctx[n])
         THEN CaughtUp(n, ctx[n], w)
         ELSE UNCHANGED <<log, role, ctx, repl, bad>>
  BY DEF OnCaughtUp
<1>4. /\ ~bad /\ bad \in BOOLEAN
      /\ \A x \in waits' : x \in waits /\ x # w /\ x.node \in Node
  BY <1>2, <1>3 DEF StageInv, TypeInv, Typed
<1>5. \A m \in Node : OpenDones(m)' = OpenDones(m)
  BY <1>3 DEF OpenDones
<1>6. \A x, y \in waits' :
         x.node = y.node /\ x.term = y.term /\ x.version = y.version /\ x.peer = y.peer
            => x = y
  BY <1>4 DEF StageInv, WaitInv
<1>7. \A x \in waits' : \E y \in waits :
         /\ x.node = y.node /\ x.term = y.term /\ x.version = y.version
         /\ x.peer = y.peer
  BY <1>4
<1>8. CASE ~(role[n] = "leader" /\ term[n] = w.term /\ VersionMatches(w, ctx[n]))
  <2>1. log' = log /\ role' = role /\ ctx' = ctx /\ repl' = repl /\ bad' = bad
    BY <1>3, <1>8
  <2>2. TypeInv'
    BY <1>3, <1>4, <2>1 DEF TypeInv
  <2>3. \A m \in Node : StageOK(m)'
    BY <1>3, <2>1 DEF StageInv, StageOK
  <2>4. WaitInv'
    BY <1>3, <1>4, <1>6, <2>1 DEF StageInv, WaitInv, IsLive
  <2>5. DoneInv'
    BY <1>3, <1>5, <2>1 DEF StageInv, DoneInv, DoneOK
  <2> QED BY <1>4, <2>1, <2>2, <2>3, <2>4, <2>5 DEF StageInv
<1>9. CASE role[n] = "leader" /\ term[n] = w.term /\ VersionMatches(w, ctx[n])
  <2>1. CaughtUp(n, ctx[n], w)
    BY <1>3, <1>9
  <2>2. IsLive(w)
    BY <1>9 DEF IsLive, VersionMatches
  <2>3. ctx[n].stage = "catching" /\ w.peer \in ctx[n].adding
    BY <2>2 DEF StageInv, WaitInv
  <2>4. ~bad' /\ bad' \in BOOLEAN
    BY <1>4, <2>1, <2>3 DEF CaughtUp
  <2>5. /\ Len(log[n]) + 2 <= MaxLog
        /\ repl[n] = (Peers(Conf(n)) \union ctx[n].new \union ctx[n].old) \ {n}
        /\ Conf(n) = [new |-> ctx[n].old, old |-> {}]
        /\ n \in ctx[n].old /\ ctx[n].old \in SUBSET Node
        /\ ctx[n].new \in SUBSET Node
        /\ Unhandled(log[n], term[n], commit[n], OpenDones(n)) = {}
    <3>1. ToCome(ctx[n]) = 2
      BY <2>3 DEF ToCome
    <3>2. ctx[n].new \in SUBSET Node /\ ctx[n].old \in SUBSET Node
      BY <1>2 DEF CtxType
    <3>3. Unhandled(log[n], term[n], commit[n], OpenDones(n)) = {}
      BY <1>1, <1>9, <2>3, HandledFacts
    <3> QED BY <1>1, <1>9, <2>3, <3>1, <3>2, <3>3, StageFacts
  <2>6. Conf(n).new = ctx[n].old /\ Conf(n).old = {} /\ Peers(Conf(n)) = ctx[n].old
    BY <2>5 DEF Peers
  <2>7. Unhandled(log[n], term[n], commit[n], OpenDones(n)') = {}
    BY <1>1, <1>5, <2>5
  <2>8. repl[n] = (ctx[n].new \union ctx[n].old) \ {n}
    BY <2>5, <2>6
  <2>9. /\ c \in CtxType /\ c.stage = "catching" /\ c.new = ctx[n].new
        /\ c.old = ctx[n].old /\ c.adding = ctx[n].adding \ {w.peer}
        /\ c.version = ctx[n].version /\ c.nchanges = ctx[n].nchanges
    BY <1>2, <2>3, PeerDropped
  \* Another closure of this change is of another of its new peers.
  <2>10. \A x \in waits' : IsLive(x) /\ x.node = n => x.peer \in c.adding
    <3> SUFFICES ASSUME NEW x \in waits', IsLive(x), x.node = n PROVE x.peer \in c.adding
      OBVIOUS
    <3>1. x.peer \in ctx[n].adding
      BY <1>4 DEF StageInv, WaitInv
    <3>2. x.term = w.term /\ x.version = w.version
      BY <2>2 DEF IsLive
    <3>3. x.peer # w.peer
      BY <1>4, <3>2 DEF StageInv, WaitInv
    <3> QED BY <2>9, <3>1, <3>3
  <2> HIDE DEF c
  <2>11. CASE w.st = "fail"
    <3> DEFINE R == repl[n] \ Stopped(ctx[n], FALSE)
    <3>1. /\ ctx' = [ctx EXCEPT ![n] = Reset(ctx[n])]
          /\ repl' = [repl EXCEPT ![n] = R] /\ log' = log /\ role' = role
      BY <1>1, <2>1, <2>11 DEF CaughtUp, TypeInv
    <3>2. R = Conf(n).new \ {n} /\ R \in SUBSET Node
      BY <2>5, <2>6, <2>8 DEF Stopped
    <3>3. role' = [role EXCEPT ![n] = "leader"]
      BY <1>1, <1>9, <3>1 DEF TypeInv
    <3> HIDE DEF R
    <3>4. n \in Conf(n).new /\ dones' \subseteq dones /\ waits' \subseteq waits
      BY <1>3, <2>5, <2>6
    <3>5. TypeInv' /\ (\A m \in Node : StageOK(m)') /\ DoneInv'
      <4> HIDE DEF n
      <4> QED BY <1>1, <1>2, <1>3, <1>9, <2>4, <2>6, <2>7, <3>1, <3>2, <3>3, <3>4,
                 "leader" \in {"leader", "follower"}, ChangeEnded
    <3>6. WaitInv'
      <4>1. \A m \in Node : ctx'[m] = IF m = n THEN Reset(ctx[n]) ELSE ctx[m]
        BY <3>1 DEF TypeInv
      <4>2. Reset(ctx[n]).version \in Nat /\ Reset(ctx[n]).version > ctx[n].version
        BY <1>2, ContextTypes
      <4>3. \A m \in Node :
               /\ term[m] <= term'[m] /\ ctx[m].version <= ctx'[m].version
               /\ term'[m] \in Nat /\ ctx'[m].version \in Nat
               /\ ctx[m].version = ctx'[m].version => m # n
        BY <1>2, <1>3, <4>1, <4>2 DEF Typed
      <4> HIDE DEF n
      <4> QED BY <1>2, <1>3, <1>6, <1>7, <3>1, <4>1, <4>3, WaitsKept DEF StageInv
    <3> QED BY <2>4, <3>5, <3>6 DEF StageInv
  <2>12. CASE w.st # "fail" /\ c.adding = {}
    <3>1. NextStage(n, c)
      BY <2>1, <2>12 DEF CaughtUp, c
    <3> DEFINE s == IF NeedsJoint(c) THEN "joint" ELSE "stable"
               old == IF s = "joint" THEN c.old ELSE {}
    <3>2. /\ ctx' = [ctx EXCEPT ![n] = [c EXCEPT !.stage = s]]
          /\ log' = [log EXCEPT ![n] = Append(@, ConfEntry(term[n], c.new, old))]
          /\ role' = role /\ repl' = repl
      <4>1. CASE NeedsJoint(c)
        BY <2>9, <3>1, <4>1 DEF NextStage
      <4>2. CASE ~NeedsJoint(c)
        BY <2>9, <3>1, <4>2 DEF NextStage
      <4> QED BY <4>1, <4>2
    <3>3. s \in {"joint", "stable"} /\ old \in SUBSET Node
      BY <2>5, <2>9
    <3>4. old = IF s = "joint" THEN c.old ELSE {}
      OBVIOUS
    <3>5. Len(log[n]) + (IF s = "joint" THEN 2 ELSE 1) <= MaxLog
      <4> HIDE DEF s
      <4>1. CASE s = "joint"
        BY <2>5, <4>1
      <4>2. CASE s # "joint"
        <5>1. Len(log[n]) + 1 <= MaxLog
          BY <1>2, <2>5
        <5> QED BY <4>2, <5>1
      <4> QED BY <4>1, <4>2
    <3> HIDE DEF s, old
    <3>6. dones' \subseteq dones /\ waits' \subseteq waits
          /\ repl[n] = (c.new \union c.old) \ {n}
      BY <1>3, <2>8, <2>9
    <3>7. TypeInv' /\ (\A m \in Node : StageOK(m)') /\ DoneInv'
      <4> HIDE DEF n
      <4> QED BY <1>1, <1>3, <1>9, <2>4, <2>7, <2>9, <3>2, <3>3, <3>4, <3>5, <3>6,
                 ConfWritten
    <3>8. WaitInv'
      <4>1. \A m \in Node : ctx'[m] = IF m = n THEN [c EXCEPT !.stage = s] ELSE ctx[m]
        BY <3>2 DEF TypeInv
      <4>2. [c EXCEPT !.stage = s].version = ctx[n].version
        BY <2>9, <3>3, StageSet
      <4>3. \A m \in Node : ctx'[m].version = ctx[m].version
        BY <4>1, <4>2
      <4>4. \A x \in waits' : IsLive(x)' <=> IsLive(x)
        BY <1>3, <1>4, <3>2, <4>3 DEF IsLive
      <4>5. \A x \in waits' : IsLive(x) => x.node # n
        BY <2>10, <2>12
      <4> QED BY <1>3, <1>4, <1>6, <4>1, <4>3, <4>4, <4>5 DEF StageInv, WaitInv
    <3> QED BY <2>4, <3>7, <3>8 DEF StageInv
  <2>13. CASE w.st # "fail" /\ c.adding # {}
    <3>1. ctx' = [ctx EXCEPT ![n] = c] /\ log' = log /\ role' = role /\ repl' = repl
      BY <2>1, <2>13 DEF CaughtUp, c
    <3>2. \A m \in Node : ctx'[m] = IF m = n THEN c ELSE ctx[m]
      BY <3>1 DEF TypeInv
    <3>3. TypeInv'
      <4>1. ctx' \in [Node -> CtxType]
        BY <2>9, <3>1 DEF TypeInv
      <4> QED BY <1>3, <1>4, <2>4, <3>1, <4>1 DEF TypeInv
    <3>4. \A m \in Node : StageOK(m)'
      <4> SUFFICES ASSUME NEW m \in Node PROVE StageOK(m)'
        OBVIOUS
      <4>1. StageIs(m, ctx[m], log[m], term[m], role[m], repl[m])
        BY DEF StageInv, StageOK
      <4>2. CASE m = n
        <5>1. StageIs(n, ctx[n], log[n], term[n], role[n], repl[n])
          BY <4>1, <4>2
        <5>2. ToCome(c) = ToCome(ctx[n])
          BY <2>3, <2>9 DEF ToCome
        <5>3. c.stage # "none" /\ c.stage # "joint" /\ c.stage # "stable"
          BY <2>9
        <5>4. StageIs(n, c, log[n], term[n], role[n], repl[n])
          <6>1. /\ Len(log[n]) + ToCome(c) <= MaxLog
                /\ \A i \in 1..Len(log[n]) : log[n][i].term <= term[n]
                /\ role[n] # "follower"
                /\ repl[n] = (Peers(ConfAt(log[n], Len(log[n]))) \union c.new \union c.old) \ {n}
            BY <1>9, <2>9, <5>1, <5>2 DEF StageIs
          <6>2. /\ ConfAt(log[n], Len(log[n])) = [new |-> c.old, old |-> {}]
                /\ n \in c.old /\ c.new # {} /\ c.new # c.old
                /\ c.adding \subseteq c.new \ c.old
                /\ c.nchanges = Cardinality((c.new \ c.old) \union (c.old \ c.new))
            BY <2>3, <2>9, <5>1 DEF StageIs
          <6> QED BY <2>13, <5>3, <6>1, <6>2 DEF StageIs
        <5> QED BY <1>3, <3>1, <3>2, <4>2, <5>4 DEF StageOK
      <4>3. CASE m # n
        BY <1>3, <3>1, <3>2, <4>1, <4>3 DEF StageOK
      <4> QED BY <4>2, <4>3
    <3>5. WaitInv'
      <4>1. \A m \in Node : ctx'[m].version = ctx[m].version
        BY <2>9, <3>2
      <4>2. \A x \in waits' : IsLive(x)' <=> IsLive(x)
        BY <1>3, <1>4, <3>1, <4>1 DEF IsLive
      <4>3. \A x \in waits' : /\ x.term <= term[x.node] /\ x.version <= ctx[x.node].version
                              /\ IsLive(x) => ctx[x.node].stage = "catching"
                                              /\ x.peer \in ctx[x.node].adding
        BY <1>4 DEF StageInv, WaitInv
      <4>4. ASSUME NEW x \in waits'
            PROVE  /\ x.term <= term'[x.node] /\ x.version <= ctx'[x.node].version
                   /\ IsLive(x)' => ctx'[x.node].stage = "catching"
                                    /\ x.peer \in ctx'[x.node].adding
        <5>1. x.term <= term'[x.node] /\ x.version <= ctx'[x.node].version
          BY <1>3, <1>4, <4>1, <4>3
        <5>2. ASSUME IsLive(x)
              PROVE  ctx'[x.node].stage = "catching" /\ x.peer \in ctx'[x.node].adding
          <6>1. CASE x.node = n
            BY <1>1, <2>9, <2>10, <3>2, <5>2, <6>1
          <6>2. CASE x.node # n
            BY <1>4, <3>2, <4>3, <5>2, <6>2
          <6> QED BY <6>1, <6>2
        <5> QED BY <4>2, <5>1, <5>2
      <4> QED BY <1>6, <4>4 DEF WaitInv
    <3>6. DoneInv'
      <4>1. \A m \in Node : DoneOK(m)'
        <5> SUFFICES ASSUME NEW m \in Node PROVE DoneOK(m)'
          OBVIOUS
        <5>1. DoneOK(m)
          BY StageFacts
        <5>2. ctx[m].stage \in {"joint", "stable"} => ctx'[m].stage \in {"joint", "stable"}
          BY <2>3, <3>2
        <5> QED BY <1>2, <1>3, <3>1, <5>1, <5>2, DonesKept
      <4> QED BY <1>3, <4>1 DEF StageInv, DoneInv
    <3> QED BY <2>4, <3>3, <3>4, <3>5, <3>6 DEF StageInv
  <2> QED BY <2>11, <2>12, <2>13
<1> QED BY <1>8, <1>9

\* A stage of the change is committed.
LEMMA OnConfigurationChangeDoneStage ==
    ASSUME TypeInv, StageInv, NEW d \in dones, OnConfigurationChangeDone(d)
    PROVE  TypeInv' /\ StageInv'
<1> DEFINE n == d.node
           c == ctx[n]
<1>1. d \in DoneType /\ n \in Node
  BY DEF TypeInv, DoneType
<1>2. /\ Typed /\ log[n] \in Logs /\ Len(log[n]) \in Nat /\ MaxLog \in Nat
      /\ c \in CtxType /\ repl[n] \in SUBSET Node /\ c.version \in Nat
      /\ commit[n] \in Nat /\ c.new \in SUBSET Node /\ c.old \in SUBSET Node
  BY <1>1, Types, NodeFacts DEF Typed, CtxType
<1>3. /\ dones' = dones \ {d} /\ term' = term /\ match' = match /\ commit' = commit
      /\ waits' = waits /\ chosen' = chosen
      /\ IF DoneIsFresh(d)
         THEN bad' = (bad \/ ~is_busy(c)) /\ NextStage(n, c)
         ELSE UNCHANGED <<log, role, ctx, repl, bad>>
  BY DEF OnConfigurationChangeDone
<1>4. /\ ~bad /\ bad \in BOOLEAN /\ dones' \subseteq dones /\ waits' \subseteq waits
  BY <1>3 DEF StageInv, TypeInv
<1>5. /\ \A x \in waits' : \E y \in waits :
            /\ x.node = y.node /\ x.term = y.term /\ x.version = y.version
            /\ x.peer = y.peer
      /\ \A x, y \in waits' :
            x.node = y.node /\ x.term = y.term /\ x.version = y.version /\ x.peer = y.peer
               => x = y
  BY <1>3 DEF StageInv, WaitInv
<1>6. CASE ~DoneIsFresh(d)
  <2>1. log' = log /\ role' = role /\ ctx' = ctx /\ repl' = repl /\ bad' = bad
    BY <1>3, <1>6
  <2>2. TypeInv'
    BY <1>3, <1>4, <2>1 DEF TypeInv
  <2>3. \A m \in Node : StageOK(m)'
    BY <1>3, <2>1 DEF StageInv, StageOK
  <2>4. WaitInv'
    BY <1>3, <2>1 DEF StageInv, WaitInv, IsLive
  <2>5. \A m \in Node : DoneOK(m)'
    <3> SUFFICES ASSUME NEW m \in Node PROVE DoneOK(m)'
      OBVIOUS
    <3>1. DoneOK(m)
      BY StageFacts
    <3> QED BY <1>2, <1>3, <1>4, <2>1, <3>1, DonesKept
  <2>6. DoneInv'
    BY <1>3, <1>4, <2>5 DEF StageInv, DoneInv
  <2> QED BY <1>4, <2>1, <2>2, <2>3, <2>4, <2>6 DEF StageInv
<1>7. CASE DoneIsFresh(d)
  <2>1. role[n] = "leader" /\ term[n] = d.term
    BY <1>7 DEF DoneIsFresh
  <2>2. d.index \in OpenDones(n)
    BY <2>1 DEF OpenDones
  <2>3. DoneIs(log[n], term[n], commit[n], OpenDones(n), c.stage)
    BY <1>1, <2>1, StageFacts DEF DoneOK
  <2>4. /\ \A j \in Unhandled(log[n], term[n], commit[n], OpenDones(n)) :
              IsLastConf(log[n], j) /\ c.stage \in {"joint", "stable"}
        /\ d.index \in Unhandled(log[n], term[n], commit[n], OpenDones(n))
        /\ d.index <= commit[n]
    BY <2>2, <2>3 DEF DoneIs, Unhandled
  <2>5. \A j \in Unhandled(log[n], term[n], commit[n], OpenDones(n)) : j = d.index
    <3>1. Confs(log[n]) \subseteq Nat
      BY DEF Confs
    <3>2. \A i, j \in Confs(log[n]) : IsLastConf(log[n], i) /\ IsLastConf(log[n], j) => i = j
      BY <3>1 DEF IsLastConf
    <3> QED BY <2>4, <3>2 DEF IsLastConf
  \* The closure was the last one to be heard of.
  <2>6. Unhandled(log[n], term[n], commit[n], OpenDones(n)') = {}
    <3>1. \A j \in Confs(log[n]) : log[n][j].term = term[n] => ~(j > commit[n])
      <4>1. \A j \in Confs(log[n]) : log[n][j].term = term[n] /\ j > commit[n] => j = d.index
        BY <2>5 DEF Unhandled
      <4>2. d.index \in Nat
        BY <1>1 DEF DoneType
      <4> QED BY <1>2, <2>4, <4>1, <4>2
    <3>2. OpenDones(n)' = {}
      <4> SUFFICES ASSUME NEW e \in dones', e.node = n, e.term = term[n] PROVE FALSE
        BY <1>3 DEF OpenDones
      <4>1. e \in dones /\ e # d /\ e \in DoneType
        BY <1>3 DEF TypeInv
      <4>2. e.index \in OpenDones(n)
        BY <4>1 DEF OpenDones
      <4>3. e.index = d.index
        BY <2>5, <4>2 DEF Unhandled
      <4> HIDE DEF n
      <4>4. e.node = d.node /\ e.term = d.term
        BY <2>1 DEF n
      <4> QED BY <1>1, <4>1, <4>3, <4>4 DEF DoneType
    <3> QED BY <3>1, <3>2 DEF Unhandled
  <2>7. c.stage \in {"joint", "stable"}
    BY <2>4
  <2>8. ~bad' /\ bad' \in BOOLEAN /\ NextStage(n, c)
    BY <1>3, <1>4, <1>7, <2>7 DEF is_busy
  <2>9. /\ Len(log[n]) + ToCome(c) <= MaxLog
        /\ repl[n] = (Peers(Conf(n)) \union c.new \union c.old) \ {n}
        /\ c.stage = "joint" => Conf(n) = [new |-> c.new, old |-> c.old]
        /\ c.stage = "stable" => Conf(n) = [new |-> c.new, old |-> {}]
    BY <1>1, <2>1, StageFacts
  <2>10. CASE c.stage = "joint"
    <3>1. /\ ctx' = [ctx EXCEPT ![n] = [c EXCEPT !.stage = "stable"]]
          /\ log' = [log EXCEPT ![n] = Append(@, ConfEntry(term[n], c.new, {}))]
          /\ role' = role /\ repl' = repl
      BY <2>8, <2>10 DEF NextStage
    <3>2. Len(log[n]) + (IF "stable" = "joint" THEN 2 ELSE 1) <= MaxLog
      <4>1. ToCome(c) = 1
        BY <2>10 DEF ToCome
      <4> QED BY <2>9, <4>1
    <3>3. repl[n] = (c.new \union c.old) \ {n}
      BY <2>9, <2>10 DEF Peers
    <3>4. \A m \in Node : ctx'[m] = IF m = n THEN [c EXCEPT !.stage = "stable"] ELSE ctx[m]
      BY <3>1 DEF TypeInv
    <3>5. [c EXCEPT !.stage = "stable"].version = c.version
      BY <1>2, StageSet
    <3> HIDE DEF n, c
    <3>6. TypeInv' /\ (\A m \in Node : StageOK(m)') /\ DoneInv'
      <4>1. "stable" \in {"joint", "stable"} /\ {} \in SUBSET Node
            /\ {} = (IF "stable" = "joint" THEN c.old ELSE {})
        OBVIOUS
      <4> QED BY <1>1, <1>2, <1>3, <1>4, <2>1, <2>6, <2>8, <3>1, <3>2, <3>3, <4>1,
                 ConfWritten
    <3>7. WaitInv'
      <4>1. \A m \in Node :
               /\ ctx'[m].version = ctx[m].version
               /\ ctx[m].stage = "catching" => ctx'[m] = ctx[m]
        BY <2>10, <3>4, <3>5 DEF c
      <4>2. \A m \in Node :
               /\ term[m] <= term'[m] /\ ctx[m].version <= ctx'[m].version
               /\ term'[m] \in Nat /\ ctx'[m].version \in Nat
        BY <1>2, <1>3, <4>1 DEF Typed
      <4> QED BY <1>2, <1>3, <1>5, <3>1, <4>1, <4>2, WaitsKept DEF StageInv
    <3> QED BY <2>8, <3>6, <3>7 DEF StageInv
  <2>11. CASE c.stage = "stable"
    <3> DEFINE r == IF n \in c.new THEN "leader" ELSE "follower"
               R == IF n \in c.new THEN repl[n] \ Stopped(c, TRUE) ELSE {}
    <3>1. /\ ctx' = [ctx EXCEPT ![n] = Reset(c)]
          /\ role' = [role EXCEPT ![n] = r] /\ repl' = [repl EXCEPT ![n] = R]
          /\ log' = log
      <4>1. /\ ctx' = [ctx EXCEPT ![n] = Reset(c)]
            /\ role' = [role EXCEPT ![n] = IF n \in c.new THEN @ ELSE "follower"]
            /\ repl' = [repl EXCEPT ![n] = IF n \in c.new THEN @ \ Stopped(c, TRUE) ELSE {}]
            /\ log' = log
        BY <2>8, <2>11 DEF NextStage
      <4> QED BY <1>1, <2>1, <4>1 DEF TypeInv
    <3>2. r \in {"leader", "follower"} /\ R \in SUBSET Node
      BY <1>2
    <3>3. \/ r = "leader" /\ Conf(n).old = {} /\ n \in Conf(n).new /\ R = Conf(n).new \ {n}
          \/ r = "follower" /\ R = {}
      BY <2>9, <2>11 DEF Peers, Stopped
    <3>4. \A m \in Node : /\ ctx'[m] = IF m = n THEN Reset(c) ELSE ctx[m]
                          /\ role'[m] = IF m = n THEN r ELSE role[m]
      BY <3>1 DEF TypeInv
    <3> HIDE DEF n, c, r, R
    <3>5. TypeInv' /\ (\A m \in Node : StageOK(m)') /\ DoneInv'
      BY <1>1, <1>2, <1>3, <1>4, <2>1, <2>6, <2>8, <3>1, <3>2, <3>3, ChangeEnded
    <3>6. WaitInv'
      <4>1. Reset(c).version \in Nat /\ Reset(c).version > c.version
        BY <1>2, ContextTypes
      <4>2. \A m \in Node :
               /\ term[m] <= term'[m] /\ ctx[m].version <= ctx'[m].version
               /\ term'[m] \in Nat /\ ctx'[m].version \in Nat
               /\ ctx'[m].version = ctx[m].version => m # n
        BY <1>2, <1>3, <3>4, <4>1 DEF Typed, c
      <4> QED BY <1>2, <1>3, <1>5, <3>4, <4>2, WaitsKept DEF StageInv
    <3> QED BY <2>8, <3>5, <3>6 DEF StageInv
  <2> QED BY <2>7, <2>10, <2>11
<1> QED BY <1>6, <1>7

\* Every step keeps the types and the stages.
LEMMA StageInit == Init => TypeInv /\ StageInv
<1> SUFFICES ASSUME Init PROVE TypeInv /\ StageInv
  OBVIOUS
<1>1. NoCtx \in CtxType /\ NoCtx.stage = "none" /\ NoCtx.new = {} /\ NoCtx.old = {}
      /\ NoCtx.adding = {}
  BY DEF NoCtx, CtxType
<1>2. MaxTerm \in Nat /\ MaxTerm >= 1 /\ MaxLog \in Nat /\ MaxLog >= 1
  BY NodeFacts
<1>3. TypeInv
  <2>1. << >> \in Seq(EntryType)
    OBVIOUS
  <2>2. NoMatch \in [Node -> Nat]
    BY DEF NoMatch
  <2>3. /\ term \in [Node -> 1..MaxTerm] /\ commit \in [Node -> 0..MaxLog]
    BY <1>2 DEF Init
  <2>4. chosen \in [log : Seq(EntryType), term : Nat]
    BY <2>1 DEF Init
  <2>5. match \in [Node -> [Node -> Nat]] /\ log \in [Node -> Seq(EntryType)]
    BY <2>1, <2>2 DEF Init
  <2>6. ctx \in [Node -> CtxType] /\ role \in [Node -> {"follower", "leader"}]
        /\ repl \in [Node -> SUBSET Node] /\ bad \in BOOLEAN
        /\ waits \subseteq WaitType /\ dones \subseteq DoneType
    BY <1>1 DEF Init
  <2> QED BY <2>3, <2>4, <2>5, <2>6 DEF TypeInv
<1>4. \A n \in Node : /\ log[n] = << >> /\ role[n] = "follower" /\ ctx[n] = NoCtx
                      /\ repl[n] = {} /\ Len(log[n]) = 0 /\ term[n] = 1
  BY DEF Init
<1>5. \A n \in Node : StageOK(n)
  <2> SUFFICES ASSUME NEW n \in Node PROVE StageOK(n)
    OBVIOUS
  <2>1. Len(log[n]) + ToCome(ctx[n]) <= MaxLog
    <3>1. ToCome(ctx[n]) = 0
      BY <1>1, <1>4 DEF ToCome
    <3> QED BY <1>2, <1>4, <3>1
  <2>2. 1..Len(log[n]) = {}
    BY <1>4
  <2> QED BY <1>1, <1>4, <2>1, <2>2 DEF StageOK, StageIs
<1>6. WaitInv /\ DoneInv /\ ~bad
  BY <1>4 DEF Init, WaitInv, DoneInv, DoneOK
<1> QED BY <1>3, <1>5, <1>6 DEF StageInv

LEMMA StageStep == TypeInv /\ StageInv /\ [Next]_vars => TypeInv' /\ StageInv'
<1> SUFFICES ASSUME TypeInv, StageInv, [Next]_vars PROVE TypeInv' /\ StageInv'
  OBVIOUS
<1>1. ASSUME NEW n \in Node, NEW t \in 2..MaxTerm, NEW Q \in SUBSET (Node \ {n}),
             Elect(n, t, Q)
      PROVE  TypeInv' /\ StageInv'
  BY <1>1, ElectStage
<1>2. ASSUME NEW n \in Node, StepDown(n) PROVE TypeInv' /\ StageInv'
  BY <1>2, StepDownStage
<1>3. ASSUME NEW n \in Node, Apply(n) PROVE TypeInv' /\ StageInv'
  BY <1>3, ApplyStage
<1>4. ASSUME NEW n \in Node, Commit(n) PROVE TypeInv' /\ StageInv'
  BY <1>4, CommitStage
<1>5. ASSUME NEW n \in Node, NEW f \in Node, NEW k \in 1..MaxLog, Replicate(n, f, k)
      PROVE  TypeInv' /\ StageInv'
  BY <1>5, ReplicateStage
<1>6. ASSUME NEW n \in Node, NEW new \in Targets, ChangePeers(n, new)
      PROVE  TypeInv' /\ StageInv'
  BY <1>6, ChangePeersStage
<1>7. ASSUME NEW w \in waits, CatchUp(w) PROVE TypeInv' /\ StageInv'
  BY <1>7, CatchUpStage
<1>8. ASSUME NEW w \in waits, OnCaughtUp(w) PROVE TypeInv' /\ StageInv'
  BY <1>8, OnCaughtUpStage
<1>9. ASSUME NEW d \in dones, OnConfigurationChangeDone(d) PROVE TypeInv' /\ StageInv'
  BY <1>9, OnConfigurationChangeDoneStage
<1>10. CASE UNCHANGED vars
  <2>1. TypeInv'
    BY <1>10 DEF vars, TypeInv
  <2>2. /\ (\A n \in Node : StageOK(n)') /\ WaitInv' /\ bad' = bad
    BY <1>10 DEF vars, StageInv, StageOK, WaitInv, IsLive
  <2>3. DoneInv'
    BY <1>10 DEF vars, StageInv, DoneInv, DoneOK, OpenDones
  <2> QED BY <2>1, <2>2, <2>3 DEF StageInv
<1> QED BY <1>1, <1>2, <1>3, <1>4, <1>5, <1>6, <1>7, <1>8, <1>9, <1>10 DEF Next

LEMMA StageKept == Spec => [](TypeInv /\ StageInv)
BY StageInit, StageStep, PTL DEF Spec

\* The CHECKs of ConfigurationCtx hold: no closure of an earlier leadership or of
\* an earlier change moves the stage of a later one, however late it runs.
THEOREM ChecksAlwaysHold == Spec => []ChecksHold
<1>1. TypeInv /\ StageInv => ChecksHold
  <2> SUFFICES ASSUME TypeInv, StageInv PROVE ChecksHold
    OBVIOUS
  <2>1. \A n \in Node : Len(log[n]) <= MaxLog /\ commit[n] \in 0..MaxLog
    BY StageFacts DEF TypeInv
  <2>2. \A n \in Node : ctx[n].stage \in {"none", "catching", "joint", "stable"}
    BY DEF TypeInv, CtxType
  <2>3. \A n \in Node : repl[n] \subseteq Node \ {n}
    <3> SUFFICES ASSUME NEW n \in Node PROVE repl[n] \subseteq Node \ {n}
      OBVIOUS
    <3>1. repl[n] \in SUBSET Node /\ role[n] \in {"follower", "leader"}
      BY DEF TypeInv
    <3>2. role[n] = "leader" => n \notin repl[n]
      BY StageFacts
    <3> QED BY <3>1, <3>2, StageFacts
  <2> QED BY <2>1, <2>2, <2>3 DEF ChecksHold, TypeOK, TypeInv, StageInv
<1> QED BY <1>1, StageKept, PTL

\* A leader is in a joint configuration only with a change that goes on from it,
\* and replicates to the peers of its configuration and of its change alone.
THEOREM JointIsAlwaysLeft == Spec => []JointIsLeft
<1>1. TypeInv /\ StageInv => JointIsLeft
  <2> SUFFICES ASSUME TypeInv, StageInv, NEW n \in Node, role[n] = "leader"
      PROVE  /\ ~is_busy(ctx[n]) => Conf(n).old = {}
             /\ Peers(Conf(n)) \ {n} \subseteq repl[n]
             /\ repl[n] \subseteq Peers(Conf(n)) \union ctx[n].new \union ctx[n].old
    BY DEF JointIsLeft, Leaders
  <2> QED BY StageFacts DEF is_busy
<1> QED BY <1>1, StageKept, PTL

-----------------------------------------------------------------------------
(* The logs of all nodes.                                                  *)

\* Where the configuration of a log changes after entry k, if at all.
LEMMA ConfUnchanged ==
    ASSUME NEW l, NEW a \in Nat, NEW k \in 0..a,
           \A j \in (k + 1)..a : ~Changes(l, j)
    PROVE  ConfAt(l, a) = ConfAt(l, k)
<1> DEFINE S == {j \in (k + 1)..a : ConfAt(l, j) # ConfAt(l, k)}
<1>1. CASE S = {}
  <2>1. a = k \/ a \in (k + 1)..a
    OBVIOUS
  <2> QED BY <1>1, <2>1
<1>2. CASE S # {}
  <2>1. S \in SUBSET Nat
    OBVIOUS
  <2> HIDE DEF S
  <2>2. PICK j \in S : \A h \in S : j <= h
    BY <1>2, <2>1, LeastOf
  <2>3. j \in (k + 1)..a /\ ConfAt(l, j) # ConfAt(l, k) /\ ConfAt(l, j) = ConfAt(l, j - 1)
    BY <2>2 DEF S, Changes
  <2>4. j - 1 # k
    BY <2>3
  <2>5. j - 1 \in (k + 1)..a
    BY <2>3, <2>4
  <2>6. j - 1 \in S
    BY <2>3, <2>5 DEF S
  <2> QED BY <2>2, <2>3, <2>6
<1> QED BY <1>1, <1>2

\* The last change of the configuration after entry k.
LEMMA LastChange ==
    ASSUME NEW l, NEW a \in Nat, NEW k \in 0..a, ConfAt(l, a) # ConfAt(l, k)
    PROVE  \E j \in (k + 1)..a : Changes(l, j) /\ ConfAt(l, j) = ConfAt(l, a)
<1> DEFINE S == {j \in (k + 1)..a : Changes(l, j)}
<1>1. S # {}
  BY ConfUnchanged
<1>2. S \in SUBSET Nat /\ \A j \in S : j <= a
  OBVIOUS
<1> HIDE DEF S
<1>3. Max(S) \in S /\ \A j \in S : j <= Max(S)
  BY <1>1, <1>2, MaxOf
<1> DEFINE x == Max(S)
<1> HIDE DEF x
<1>4. x \in (k + 1)..a /\ Changes(l, x) /\ \A j \in (x + 1)..a : ~Changes(l, j)
  <2>1. x \in (k + 1)..a /\ Changes(l, x) /\ x \in Nat
    BY <1>3 DEF S, x
  <2>2. ASSUME NEW j \in (x + 1)..a, Changes(l, j) PROVE FALSE
    <3>1. j \in S /\ j > x
      BY <2>1, <2>2 DEF S
    <3>2. j <= x
      BY <1>3, <3>1 DEF x
    <3> QED BY <2>1, <3>1, <3>2
  <2> QED BY <2>1, <2>2
<1>5. x \in 0..a
  BY <1>4
<1>6. ConfAt(l, a) = ConfAt(l, x)
  BY <1>4, <1>5, ConfUnchanged
<1> QED BY <1>4, <1>6

\* The changes among the first a entries of l come from entries that l shares with
\* the first b entries of m, or are shared themselves.
Near(l, m, a, b) ==
    \A j \in 1..a :
       Changes(l, j) /\ ~(j <= b /\ Agree(l, m, j)) =>
          /\ Overlap(ConfAt(l, j - 1), ConfAt(l, j))
          /\ \E i \in 1..(j - 1) : i <= b /\ SameStage(l, i, j) /\ Agree(l, m, i)

\* So at most one of them is after the k entries that the two share.
LEMMA OneChange ==
    ASSUME NEW l \in Logs, NEW m \in Logs, NEW a \in 0..Len(l), NEW b \in 0..Len(m),
           Near(l, m, a, b), NEW k \in 0..a, k <= b, Agree(l, m, k),
           ~(k + 1 <= a /\ k + 1 <= b /\ Agree(l, m, k + 1)),
           ConfAt(l, a) # ConfAt(l, k)
    PROVE  /\ Overlap(ConfAt(l, k), ConfAt(l, a))
           /\ \E i \in 1..k, j \in (k + 1)..a : l[i].term = l[j].term
<1>1. Len(l) \in Nat /\ Len(m) \in Nat /\ a \in Nat /\ b \in Nat /\ k \in Nat
  BY LogType
<1>2. PICK j \in (k + 1)..a : Changes(l, j) /\ ConfAt(l, j) = ConfAt(l, a)
  BY <1>1, LastChange
\* What is shared after j would be shared after k.
<1>3. \A i \in 1..a : i > k => ~(i <= b /\ Agree(l, m, i))
  <2> SUFFICES ASSUME NEW i \in 1..a, i > k, i <= b, Agree(l, m, i) PROVE FALSE
    OBVIOUS
  <2>1. k + 1 <= i /\ i \in Nat /\ k + 1 \in Nat
    BY <1>1
  <2>2. Agree(l, m, k + 1)
    BY <2>1, AgreeFacts
  <2> QED BY <1>1, <2>1, <2>2
<1>4. j \in 1..a /\ j > k
  BY <1>1
<1>5. /\ Overlap(ConfAt(l, j - 1), ConfAt(l, j))
      /\ \E i \in 1..(j - 1) : i <= b /\ SameStage(l, i, j) /\ Agree(l, m, i)
  BY <1>2, <1>3, <1>4 DEF Near
<1>6. PICK i \in 1..(j - 1) : i <= b /\ SameStage(l, i, j) /\ Agree(l, m, i)
  BY <1>5
<1>7. i \in 1..a /\ i \in Nat
  BY <1>1, <1>4
<1>8. i <= k
  BY <1>1, <1>3, <1>6, <1>7
<1>9. k \in i..(j - 1) /\ i \in 1..k
  BY <1>1, <1>4, <1>7, <1>8
<1>10. ConfAt(l, k) = ConfAt(l, j - 1) /\ l[i].term = l[j].term
  BY <1>6, <1>9 DEF SameStage
<1> QED BY <1>2, <1>5, <1>9, <1>10

\* The first a entries of l and the first b of m end in configurations whose
\* quorums meet.
LEMMA ConfsOverlap ==
    ASSUME NEW l \in Logs, NEW m \in Logs, NEW a \in 0..Len(l), NEW b \in 0..Len(m),
           Sorted(l), Sorted(m), Matching(l, m), Matching(m, l),
           Near(l, m, a, b), Near(m, l, b, a)
    PROVE  Overlap(ConfAt(l, a), ConfAt(m, b))
<1> DEFINE S == {i \in 0..a : i <= b /\ Agree(l, m, i)}
<1>1. /\ Len(l) \in Nat /\ Len(m) \in Nat /\ a \in Nat /\ b \in Nat
      /\ \A i \in 1..Len(l) : l[i].term \in Nat
      /\ \A i \in 1..Len(m) : m[i].term \in Nat
  BY LogType
<1>2. 0 \in S
  BY <1>1 DEF Agree
<1>3. S \in SUBSET Nat /\ \A i \in S : i <= a
  BY <1>1
<1> HIDE DEF S
<1>4. Max(S) \in S /\ \A i \in S : i <= Max(S)
  BY <1>1, <1>2, <1>3, MaxOf
<1> DEFINE k == Max(S)
<1> HIDE DEF k
<1>5. k \in 0..a /\ k \in 0..b /\ k <= b /\ k <= a /\ Agree(l, m, k) /\ k \in Nat
  BY <1>1, <1>4 DEF S, k
<1>6. ~(k + 1 <= a /\ k + 1 <= b /\ Agree(l, m, k + 1))
  <2> SUFFICES ASSUME k + 1 <= a, k + 1 <= b, Agree(l, m, k + 1) PROVE FALSE
    OBVIOUS
  <2>1. k + 1 \in S
    BY <1>1, <1>5 DEF S
  <2>2. k + 1 <= k
    BY <1>4, <2>1 DEF k
  <2> QED BY <1>5, <2>2
<1>7. \A i \in Nat : Agree(l, m, i) <=> Agree(m, l, i)
  BY AgreeFacts
<1>8. Agree(m, l, k) /\ ~(k + 1 <= b /\ k + 1 <= a /\ Agree(m, l, k + 1))
  BY <1>5, <1>6, <1>7
<1>9. ConfAt(l, k) = ConfAt(m, k)
  BY <1>5, ConfAgree DEF Agree
<1>10. ConfAt(l, a) \in ConfType /\ ConfAt(m, b) \in ConfType
  BY ConfAtType
<1>11. CASE ConfAt(l, a) = ConfAt(l, k) /\ ConfAt(m, b) = ConfAt(m, k)
  BY <1>9, <1>10, <1>11, OverlapFacts
<1>12. CASE ConfAt(l, a) # ConfAt(l, k) /\ ConfAt(m, b) = ConfAt(m, k)
  <2>1. Overlap(ConfAt(l, k), ConfAt(l, a))
    BY <1>5, <1>6, <1>12, OneChange
  <2> QED BY <1>9, <1>10, <1>12, <2>1, OverlapFacts
<1>13. CASE ConfAt(l, a) = ConfAt(l, k) /\ ConfAt(m, b) # ConfAt(m, k)
  <2>1. Overlap(ConfAt(m, k), ConfAt(m, b))
    BY <1>5, <1>8, <1>13, OneChange
  <2> QED BY <1>9, <1>13, <2>1
<1>14. CASE ConfAt(l, a) # ConfAt(l, k) /\ ConfAt(m, b) # ConfAt(m, k)
  <2>1. PICK i \in 1..k, j \in (k + 1)..a : l[i].term = l[j].term
    BY <1>5, <1>6, <1>14, OneChange
  <2>2. PICK g \in 1..k, h \in (k + 1)..b : m[g].term = m[h].term
    BY <1>5, <1>8, <1>14, OneChange
  <2>3. /\ i \in 1..Len(l) /\ j \in 1..Len(l) /\ g \in 1..Len(m) /\ h \in 1..Len(m)
        /\ i \in 1..Len(m) /\ g \in 1..Len(l) /\ l[i] = m[i] /\ l[g] = m[g]
        /\ i <= h /\ g <= j /\ k + 1 <= j /\ k + 1 <= h
        /\ i \in Nat /\ j \in Nat /\ g \in Nat /\ h \in Nat
    BY <1>1, <1>5 DEF Agree
  <2>4. m[i].term <= m[h].term /\ l[g].term <= l[j].term
    BY <2>3 DEF Sorted
  <2>5. l[j].term = m[h].term
    <3>1. l[j].term <= m[h].term /\ m[h].term <= l[j].term
      BY <2>1, <2>2, <2>3, <2>4
    <3> QED BY <1>1, <2>3, <3>1
  <2>6. CASE j <= h
    <3>1. Agree(l, m, j)
      BY <2>3, <2>5, <2>6 DEF Matching
    <3>2. Agree(l, m, k + 1)
      BY <1>5, <2>3, <3>1, AgreeFacts
    <3> QED BY <1>1, <1>5, <1>6, <2>3, <2>6, <3>2
  <2>7. CASE h <= j
    <3>1. Agree(m, l, h)
      BY <2>3, <2>5, <2>7 DEF Matching
    <3>2. Agree(m, l, k + 1)
      BY <1>5, <2>3, <3>1, AgreeFacts
    <3> QED BY <1>1, <1>5, <1>8, <2>3, <2>7, <3>2
  <2> QED BY <2>3, <2>6, <2>7
<1> QED BY <1>11, <1>12, <1>13, <1>14

LEMMA NearBy ==
    ASSUME NEW L \in [Node -> Logs], NEW T \in [Node -> Nat], LogsOK(L, T),
           NEW x \in Node, NEW m \in Logs, NEW a \in 0..Len(L[x]), NEW b \in 0..Len(m),
           \A i, j \in 1..a :
              /\ i < j /\ L[x][i].term = L[x][j].term /\ Settled(L, L[x], i)
              /\ ~(j <= b /\ Agree(L[x], m, j))
              => i <= b /\ Agree(L[x], m, i)
    PROVE  Near(L[x], m, a, b)
<1> SUFFICES ASSUME NEW j \in 1..a, Changes(L[x], j), ~(j <= b /\ Agree(L[x], m, j))
    PROVE  /\ Overlap(ConfAt(L[x], j - 1), ConfAt(L[x], j))
           /\ \E i \in 1..(j - 1) : i <= b /\ SameStage(L[x], i, j) /\ Agree(L[x], m, i)
  BY DEF Near
<1>1. L[x] \in Logs /\ Len(L[x]) \in Nat /\ j \in 1..Len(L[x])
  BY LogType
<1>2. ChangeOK(L, L[x], j)
  BY <1>1 DEF LogsOK, LogOK
<1>3. PICK i \in 1..(j - 1) : SameStage(L[x], i, j) /\ Settled(L, L[x], i)
  BY <1>2 DEF ChangeOK
<1>4. i \in 1..a /\ i < j
  BY <1>1
<1>5. i <= b /\ Agree(L[x], m, i)
  BY <1>3, <1>4 DEF SameStage
<1> QED BY <1>2, <1>3, <1>5 DEF ChangeOK

\* A log that has the settled entries of another has them settled.
LEMMA SettledMoves ==
    ASSUME NEW L \in [Node -> Logs], NEW l \in Logs, NEW m \in Logs, NEW i,
           Settled(L, l, i), Agree(l, m, i)
    PROVE  Settled(L, m, i)
<1>1. i \in 1..Len(l) /\ i \in Nat /\ i \in 1..Len(m) /\ Len(m) \in Nat
  BY LogType DEF Settled, Agree
<1>2. ConfAt(l, i) = ConfAt(m, i) /\ l[i] = m[i]
  BY <1>1, ConfAgree DEF Agree
<1>3. \A v \in Node : Agree(L[v], l, i) => Agree(L[v], m, i)
  <2> TAKE v \in Node
  <2>1. L[v] \in Logs
    OBVIOUS
  <2> QED BY <1>1, <2>1, AgreeFacts
<1>4. PICK Q \in SUBSET Node : Granted(Q, ConfAt(l, i)) /\ \A v \in Q : Agree(L[v], l, i)
  BY DEF Settled
<1>5. Granted(Q, ConfAt(m, i)) /\ \A v \in Q : Agree(L[v], m, i)
  BY <1>2, <1>3, <1>4
<1>6. \A v \in Node : Later(L[v], m[i].term) => Agree(L[v], m, i)
  BY <1>2, <1>3 DEF Settled
<1> QED BY <1>1, <1>5, <1>6 DEF Settled

\* Some node has what is settled.
LEMMA SettledHolder ==
    ASSUME NEW L \in [Node -> Logs], NEW l \in Logs, NEW i, Settled(L, l, i)
    PROVE  \E v \in Node : Agree(l, L[v], i) /\ Settled(L, L[v], i) /\ L[v][i] = l[i]
<1>1. i \in 1..Len(l) /\ i \in Nat /\ i \in 0..Len(l)
  BY LogType DEF Settled
<1>2. PICK Q \in SUBSET Node : Granted(Q, ConfAt(l, i)) /\ \A v \in Q : Agree(L[v], l, i)
  BY DEF Settled
<1>3. ConfAt(l, i) \in ConfType
  BY <1>1, ConfAtType
<1>4. PICK v \in Node : v \in Q
  BY <1>2, <1>3, GrantedFacts
<1>5. L[v] \in Logs /\ Agree(L[v], l, i)
  BY <1>2, <1>4
<1>6. Agree(l, L[v], i)
  BY <1>1, <1>5, AgreeFacts
<1>7. Settled(L, L[v], i)
  BY <1>5, <1>6, SettledMoves
<1> QED BY <1>1, <1>5, <1>6, <1>7 DEF Agree

\* What is settled is one log.
LEMMA SettledAgree ==
    ASSUME NEW L \in [Node -> Logs], NEW T \in [Node -> Nat], LogsOK(L, T),
           NEW l \in Logs, NEW m \in Logs, NEW a, NEW b, Settled(L, l, a), Settled(L, m, b),
           a <= b
    PROVE  Agree(l, m, a)
<1>1. PICK x \in Node : Agree(l, L[x], a) /\ Settled(L, L[x], a) /\ L[x][a] = l[a]
  BY SettledHolder
<1>2. PICK y \in Node : Agree(m, L[y], b) /\ Settled(L, L[y], b) /\ L[y][b] = m[b]
  BY SettledHolder
<1>3. /\ L[x] \in Logs /\ L[y] \in Logs
      /\ a \in 1..Len(L[x]) /\ b \in 1..Len(L[y]) /\ a \in Nat /\ b \in Nat
      /\ Len(L[x]) \in Nat /\ Len(L[y]) \in Nat /\ a \in 1..Len(L[y])
      /\ a \in 1..Len(l) /\ b \in 1..Len(m)
  BY <1>1, <1>2, LogType DEF Settled
<1>4. L[x][a].term \in Nat /\ L[y][b].term \in Nat
  BY <1>3, LogType
<1>5. Agree(L[x], L[y], a)
  <2>1. CASE L[y][b].term > L[x][a].term
    <3>1. Later(L[y], L[x][a].term)
      BY <1>3, <2>1 DEF Later
    <3>2. Agree(L[y], L[x], a)
      BY <1>1, <3>1 DEF Settled
    <3> QED BY <1>3, <3>2, AgreeFacts
  <2>2. CASE L[x][a].term > L[y][b].term
    <3>1. Later(L[x], L[y][b].term)
      BY <1>3, <2>2 DEF Later
    <3>2. Agree(L[x], L[y], b)
      BY <1>2, <3>1 DEF Settled
    <3> QED BY <1>3, <3>2, AgreeFacts
  <2>3. CASE L[x][a].term = L[y][b].term
    BY <1>3, <2>3 DEF LogsOK, Matching
  <2> QED BY <1>4, <2>1, <2>2, <2>3
<1>6. Agree(l, L[y], a)
  BY <1>1, <1>3, <1>5, AgreeFacts
<1>7. Agree(L[y], m, b)
  BY <1>2, <1>3, AgreeFacts
<1> QED BY <1>3, <1>6, <1>7, AgreeFacts

\* The last term of a log.
LEMMA LastTermFacts ==
    ASSUME NEW l \in Logs
    PROVE  /\ LastTerm(l) \in Nat
           /\ l # << >> => Len(l) \in 1..Len(l) /\ LastTerm(l) = l[Len(l)].term
           /\ Len(l) # 0 => l # << >>
           /\ Sorted(l) => \A i \in 1..Len(l) : l[i].term <= LastTerm(l)
<1>1. Len(l) \in Nat /\ \A i \in 1..Len(l) : l[i].term \in Nat
  BY LogType
<1>2. l # << >> => Len(l) \in 1..Len(l)
  BY EmptySeq, <1>1 DEF Logs
<1>3. l # << >> => LastTerm(l) = l[Len(l)].term
  BY DEF LastTerm, Last
<1>4. l = << >> => LastTerm(l) = 0 /\ Len(l) = 0
  BY DEF LastTerm
<1>5. Sorted(l) => \A i \in 1..Len(l) : l[i].term <= LastTerm(l)
  <2> SUFFICES ASSUME Sorted(l), NEW i \in 1..Len(l) PROVE l[i].term <= LastTerm(l)
    OBVIOUS
  <2>1. l # << >>
    BY <1>4
  <2>2. i <= Len(l)
    OBVIOUS
  <2> QED BY <1>2, <1>3, <2>1, <2>2 DEF Sorted
<1> QED BY <1>1, <1>2, <1>3, <1>4, <1>5

\* Those who may be elected have what is settled.
LEMMA ElectedHasSettled ==
    ASSUME NEW L \in [Node -> Logs], NEW T \in [Node -> Nat], LogsOK(L, T),
           NEW e \in Node, NEW Q \in SUBSET Node,
           Granted(Q \union {e}, ConfAt(L[e], Len(L[e]))),
           \A v \in Q : UpToDate(L[e], L[v]),
           NEW l \in Logs, NEW i, Settled(L, l, i)
    PROVE  Agree(L[e], l, i)
<1> DEFINE Bad(h) == \E y \in Node : Settled(L, L[y], h) /\ ~Agree(L[e], L[y], h)
           S == {h \in Nat : Bad(h)}
<1>1. L[e] \in Logs /\ Len(L[e]) \in Nat /\ Sorted(L[e])
  BY LogType DEF LogsOK
<1>2. S = {}
  <2> SUFFICES ASSUME S # {} PROVE FALSE
    OBVIOUS
  <2>1. S \in SUBSET Nat
    OBVIOUS
  <2> HIDE DEF S
  <2>2. PICK b \in S : \A h \in S : b <= h
    BY <2>1, LeastOf
  <2>3. b \in Nat
    BY <2>1
  <2>4. PICK y \in Node : Settled(L, L[y], b) /\ ~Agree(L[e], L[y], b)
    BY <2>2 DEF S
  <2> DEFINE m == L[y]
             a == Len(L[e])
  <2>5. /\ m \in Logs /\ Len(m) \in Nat /\ b \in 1..Len(m) /\ b \in 0..Len(m) /\ a \in 0..a
        /\ Sorted(m) /\ Matching(L[e], m) /\ Matching(m, L[e])
        /\ \A h \in 1..Len(m) : m[h].term \in Nat
        /\ \A h \in 1..Len(L[e]) : L[e][h].term \in Nat
    BY <1>1, <2>4, LogType DEF Settled, LogsOK
  <2>6. \A h \in Nat, z \in Node : h < b /\ Settled(L, L[z], h) => Agree(L[e], L[z], h)
    <3> SUFFICES ASSUME NEW h \in Nat, NEW z \in Node, h < b, Settled(L, L[z], h),
                        ~Agree(L[e], L[z], h)
        PROVE FALSE
      OBVIOUS
    <3>1. h \in S
      BY DEF S
    <3> QED BY <2>2, <2>3, <3>1
  <2>7. ~Later(L[e], m[b].term)
    BY <2>4 DEF Settled
  <2> HIDE DEF m, a
  <2>8. \A h \in 1..Len(L[e]) : L[e][h].term <= m[b].term
    BY <2>5, <2>7 DEF Later
  <2>9. Near(m, L[e], b, a)
    <3>1. \A g, h \in 1..b : g < h /\ Settled(L, m, g) => g <= a /\ Agree(m, L[e], g)
      <4> SUFFICES ASSUME NEW g \in 1..b, NEW h \in 1..b, g < h, Settled(L, m, g)
          PROVE  g <= a /\ Agree(m, L[e], g)
        OBVIOUS
      <4>1. g \in Nat /\ g < b
        BY <2>3
      <4>2. Agree(L[e], m, g)
        BY <2>6, <4>1 DEF m
      <4> QED BY <1>1, <2>5, <4>1, <4>2, AgreeFacts DEF Agree, a
    <3> QED BY <1>1, <2>5, <3>1, NearBy DEF m, a
  <2>10. Near(L[e], m, a, b)
    <3>1. ASSUME NEW g \in 1..a, NEW h \in 1..a, g < h, L[e][g].term = L[e][h].term,
                 Settled(L, L[e], g), ~(h <= b /\ Agree(L[e], m, h))
          PROVE  g <= b /\ Agree(L[e], m, g)
      <4>1. /\ g \in 1..Len(L[e]) /\ h \in 1..Len(L[e]) /\ L[e][g].term \in Nat
            /\ m[b].term \in Nat /\ L[e][g].term <= m[b].term
        BY <1>1, <2>5, <2>8 DEF a
      <4>2. CASE L[e][g].term < m[b].term
        <5>1. Later(m, L[e][g].term)
          BY <2>5, <4>2 DEF Later
        <5>2. Agree(m, L[e], g)
          BY <3>1, <5>1 DEF Settled, m
        <5>3. Agree(L[e], m, g) /\ m[g].term = L[e][g].term /\ g \in 1..Len(m)
          <6>1. Agree(L[e], m, g)
            BY <1>1, <2>5, <4>1, <5>2, AgreeFacts
          <6> QED BY <4>1, <6>1 DEF Agree
        <5>4. ~(b <= g)
          BY <2>5, <4>1, <4>2, <5>3 DEF Sorted
        <5> QED BY <2>3, <4>1, <5>3, <5>4
      <4>3. CASE L[e][g].term = m[b].term
        <5>1. CASE h <= b
          BY <2>5, <3>1, <4>1, <4>3, <5>1 DEF Matching
        <5>2. CASE b <= h
          <6>1. Agree(m, L[e], b)
            BY <2>5, <3>1, <4>1, <4>3, <5>2 DEF Matching
          <6> QED BY <1>1, <2>3, <2>4, <2>5, <6>1, AgreeFacts DEF m
        <5> QED BY <2>3, <4>1, <5>1, <5>2
      <4> QED BY <4>1, <4>2, <4>3
    <3> QED BY <1>1, <2>5, <3>1, NearBy DEF a
  <2>11. Overlap(ConfAt(L[e], a), ConfAt(m, b))
    BY <1>1, <2>5, <2>9, <2>10, ConfsOverlap DEF a
  <2>12. PICK R \in SUBSET Node : Granted(R, ConfAt(m, b)) /\ \A v \in R : Agree(L[v], m, b)
    BY <2>4 DEF Settled, m
  <2>13. PICK v \in Node : v \in Q \union {e} /\ v \in R
    BY <2>11, <2>12 DEF Overlap, a
  <2>14. /\ L[v] \in Logs /\ Len(L[v]) \in Nat /\ Agree(L[v], m, b) /\ v # e /\ v \in Q
         /\ b \in 1..Len(L[v]) /\ L[v][b] = m[b] /\ b <= Len(L[v])
         /\ Sorted(L[v]) /\ Matching(L[v], L[e]) /\ UpToDate(L[e], L[v])
    BY <2>4, <2>5, <2>12, <2>13, LogType DEF Agree, LogsOK, m
  <2>15. LastTerm(L[v]) \in Nat /\ LastTerm(L[e]) \in Nat /\ m[b].term <= LastTerm(L[v])
    BY <1>1, <2>14, LastTermFacts
  <2>16. L[e] # << >>
    <3> SUFFICES ASSUME L[e] = << >> PROVE FALSE
      OBVIOUS
    <3>1. LastTerm(L[e]) = 0 /\ Len(L[e]) = 0
      BY DEF LastTerm
    <3> QED BY <2>14, <2>15, <3>1 DEF UpToDate
  <2>17. a \in 1..Len(L[e]) /\ LastTerm(L[e]) = L[e][a].term
    BY <1>1, <2>16, LastTermFacts DEF a
  <2>18. LastTerm(L[e]) <= m[b].term
    BY <2>8, <2>17
  <2>19. LastTerm(L[e]) = LastTerm(L[v]) /\ LastTerm(L[e]) = m[b].term /\ Len(L[v]) <= a
    BY <2>5, <2>14, <2>15, <2>18 DEF UpToDate, a
  <2>20. b <= a /\ L[v][b].term = L[e][a].term
    BY <1>1, <2>3, <2>14, <2>17, <2>19 DEF a
  <2>21. Agree(L[v], L[e], b)
    BY <2>14, <2>17, <2>20 DEF Matching
  <2>22. Agree(L[e], m, b)
    BY <1>1, <2>3, <2>5, <2>14, <2>21, AgreeFacts
  <2> QED BY <2>4, <2>22 DEF m
<1>3. PICK y \in Node : Agree(l, L[y], i) /\ Settled(L, L[y], i) /\ L[y][i] = l[i]
  BY SettledHolder
<1>4. i \in Nat /\ L[y] \in Logs
  BY LogType DEF Settled
<1>5. Agree(L[e], L[y], i)
  BY <1>2, <1>3, <1>4
<1>6. Agree(L[y], l, i)
  BY <1>3, <1>4, AgreeFacts
<1> QED BY <1>1, <1>4, <1>5, <1>6, AgreeFacts

\* The first entry of a later term.
LEMMA FirstLater ==
    ASSUME NEW l \in Logs, Sorted(l), NEW t \in Int, Later(l, t)
    PROVE  \E p \in 1..Len(l) :
              /\ l[p].term > t /\ \A i \in 1..(p - 1) : l[i].term <= t
              /\ p = 1 \/ l[p - 1].term < l[p].term
<1> DEFINE S == {j \in 1..Len(l) : l[j].term > t}
<1>1. Len(l) \in Nat /\ \A i \in 1..Len(l) : l[i].term \in Nat
  BY LogType
<1>2. S # {} /\ S \in SUBSET Nat
  BY DEF Later
<1> HIDE DEF S
<1>3. PICK p \in S : \A j \in S : p <= j
  BY <1>2, LeastOf
<1>4. p \in 1..Len(l) /\ l[p].term > t /\ p \in Nat
  BY <1>3 DEF S
<1>5. \A i \in 1..(p - 1) : l[i].term <= t
  <2> SUFFICES ASSUME NEW i \in 1..(p - 1), ~(l[i].term <= t) PROVE FALSE
    OBVIOUS
  <2>1. i \in 1..Len(l) /\ i < p
    BY <1>1, <1>4
  <2>2. l[i].term > t
    BY <1>1, <2>1
  <2>3. i \in S
    BY <2>1, <2>2 DEF S
  <2> QED BY <1>3, <1>4, <2>1, <2>3
<1>6. p = 1 \/ l[p - 1].term < l[p].term
  <2> SUFFICES ASSUME p # 1 PROVE l[p - 1].term < l[p].term
    OBVIOUS
  <2>1. p - 1 \in 1..(p - 1) /\ p - 1 \in 1..Len(l)
    BY <1>1, <1>4
  <2>2. l[p - 1].term <= t /\ l[p - 1].term \in Nat /\ l[p].term \in Nat
    BY <1>1, <1>4, <1>5, <2>1
  <2> QED BY <1>4, <2>2
<1> QED BY <1>4, <1>5, <1>6

\* There are no terms later than t when the log of x has none, when a quorum of its
\* configuration has not heard of one, and it shares what others have settled.
LEMMA NoLaterTerm ==
    ASSUME NEW L \in [Node -> Logs], NEW T \in [Node -> Nat], LogsOK(L, T),
           NEW x \in Node, NEW s \in Node, NEW t \in Int, NEW S \in SUBSET Node,
           Granted(S, ConfAt(L[x], Len(L[x]))), \A v \in S : T[v] <= t,
           \A i \in 1..Len(L[x]) : L[x][i].term <= t,
           \A i, j \in 1..Len(L[s]) :
              i < j /\ L[s][i].term = L[s][j].term /\ L[s][j].term <= t /\ Settled(L, L[s], i)
                 => Agree(L[s], L[x], i) \/ Agree(L[s], L[x], j)
    PROVE  ~Later(L[s], t)
<1> SUFFICES ASSUME Later(L[s], t) PROVE FALSE
  OBVIOUS
<1> DEFINE l == L[x]
           m == L[s]
           a == Len(L[x])
<1>1. /\ l \in Logs /\ m \in Logs /\ Len(l) \in Nat /\ Len(m) \in Nat /\ a = Len(l)
      /\ a \in 0..Len(l) /\ a \in Nat
      /\ \A i \in 1..Len(l) : l[i].term \in Nat
      /\ \A i \in 1..Len(m) : m[i].term \in Nat
      /\ Sorted(l) /\ Sorted(m) /\ Matching(l, m) /\ Matching(m, l)
  BY LogType DEF LogsOK
<1>2. PICK p \in 1..Len(m) :
         /\ m[p].term > t /\ \A i \in 1..(p - 1) : m[i].term <= t
         /\ p = 1 \/ m[p - 1].term < m[p].term
  BY <1>1, FirstLater
<1>3. p - 1 \in 0..Len(m) /\ p \in Nat /\ p - 1 \in Nat
  BY <1>1
<1>4. PICK R \in SUBSET Node : /\ Granted(R, ConfAt(m, p - 1))
                               /\ \A v \in R : T[v] >= m[p].term
  <2>1. VotedOK(T, m, p)
    BY DEF LogsOK, LogOK
  <2> QED BY <1>2, <2>1 DEF VotedOK
<1>5. Near(l, m, a, p - 1)
  <2>1. ASSUME NEW i \in 1..a, Settled(L, L[x], i)
        PROVE  i <= p - 1 /\ Agree(L[x], m, i)
    <3>1. l[i].term <= t /\ l[i].term \in Nat /\ i \in Nat /\ i \in 1..Len(l)
      BY <1>1
    <3>2. Later(m, l[i].term)
      <4>1. m[p].term > l[i].term
        BY <1>1, <1>2, <3>1
      <4> QED BY <4>1 DEF Later
    <3>3. Agree(m, l, i)
      BY <2>1, <3>2 DEF Settled
    <3>4. m[i].term = l[i].term /\ i \in 1..Len(m)
      BY <1>1, <3>1, <3>3 DEF Agree
    <3>5. ~(p <= i)
      <4> SUFFICES ASSUME p <= i PROVE FALSE
        OBVIOUS
      <4>1. m[p].term <= m[i].term
        BY <1>1, <3>4 DEF Sorted
      <4> QED BY <1>1, <1>2, <3>1, <3>4, <4>1
    <3>6. Agree(l, m, i)
      BY <1>1, <3>1, <3>3, AgreeFacts
    <3> QED BY <1>3, <3>1, <3>5, <3>6
  <2> HIDE DEF m, a
  <2> QED BY <1>1, <1>3, <2>1, NearBy DEF a
<1>6. Near(m, l, p - 1, a)
  <2>1. ASSUME NEW i \in 1..(p - 1), NEW j \in 1..(p - 1), i < j,
               L[s][i].term = L[s][j].term, Settled(L, L[s], i),
               ~(j <= a /\ Agree(L[s], l, j))
        PROVE  i <= a /\ Agree(L[s], l, i)
    <3>1. i \in 1..Len(m) /\ j \in 1..Len(m) /\ m[j].term <= t
      BY <1>1, <1>2, <1>3
    <3>2. Agree(L[s], l, i)
      <4>1. Agree(L[s], l, j) => j <= a
        BY DEF Agree
      <4> QED BY <2>1, <3>1, <4>1
    <3> QED BY <3>2 DEF Agree
  <2> HIDE DEF l, a
  <2> QED BY <1>1, <1>3, <2>1, NearBy
<1>7. Overlap(ConfAt(l, a), ConfAt(m, p - 1))
  <2> HIDE DEF l, m, a
  <2> QED BY <1>1, <1>3, <1>5, <1>6, ConfsOverlap
<1>8. PICK v \in Node : v \in S /\ v \in R
  BY <1>4, <1>7 DEF Overlap
<1>9. T[v] <= t /\ T[v] >= m[p].term /\ T[v] \in Nat
  BY <1>4, <1>8
<1> QED BY <1>1, <1>2, <1>9

\* The term of one who may be elected is a new one.
LEMMA ElectedTermIsNew ==
    ASSUME NEW L \in [Node -> Logs], NEW T \in [Node -> Nat], LogsOK(L, T),
           NEW e \in Node, NEW Q \in SUBSET Node,
           Granted(Q \union {e}, ConfAt(L[e], Len(L[e]))),
           \A v \in Q : UpToDate(L[e], L[v]),
           NEW t \in Nat, \A v \in Q \union {e} : T[v] < t,
           \A i \in 1..Len(L[e]) : L[e][i].term <= T[e],
           NEW s \in Node
    PROVE  \A i \in 1..Len(L[s]) : L[s][i].term < t
<1>1. t - 1 \in Int /\ Q \union {e} \in SUBSET Node
  OBVIOUS
<1>2. \A v \in Q \union {e} : T[v] <= t - 1
  OBVIOUS
<1>3. \A i \in 1..Len(L[e]) : L[e][i].term <= t - 1
  <2> SUFFICES ASSUME NEW i \in 1..Len(L[e]) PROVE L[e][i].term <= t - 1
    OBVIOUS
  <2>1. L[e] \in Logs
    OBVIOUS
  <2>2. L[e][i].term \in Nat /\ T[e] \in Nat /\ T[e] <= t - 1
    BY <1>2, <2>1, LogType
  <2> QED BY <2>2
<1>4. \A i \in 1..Len(L[s]) : Settled(L, L[s], i) => Agree(L[s], L[e], i)
  <2> SUFFICES ASSUME NEW i \in 1..Len(L[s]), Settled(L, L[s], i)
      PROVE  Agree(L[s], L[e], i)
    OBVIOUS
  <2>1. L[s] \in Logs /\ L[e] \in Logs /\ i \in Nat
    OBVIOUS
  <2>2. Agree(L[e], L[s], i)
    BY <2>1, ElectedHasSettled
  <2> QED BY <2>1, <2>2, AgreeFacts
<1>5. ~Later(L[s], t - 1)
  <2> DEFINE u == t - 1
             S == Q \union {e}
  <2>1. \A v \in S : T[v] <= u
    BY <1>2
  <2>2. u \in Int /\ S \in SUBSET Node /\ Granted(S, ConfAt(L[e], Len(L[e])))
        /\ \A i \in 1..Len(L[e]) : L[e][i].term <= u
    BY <1>1, <1>3
  <2> HIDE DEF u, S
  <2>3. ~Later(L[s], u)
    BY <1>4, <2>1, <2>2, NoLaterTerm
  <2> QED BY <2>3 DEF u
<1> SUFFICES ASSUME NEW i \in 1..Len(L[s]) PROVE L[s][i].term < t
  OBVIOUS
<1>6. L[s] \in Logs
  OBVIOUS
<1>7. L[s][i].term \in Nat
  BY <1>6, LogType
<1>8. ~(L[s][i].term > t - 1)
  BY <1>5 DEF Later
<1> QED BY <1>7, <1>8

-----------------------------------------------------------------------------
(* How the logs change.                                                    *)

\* What is settled stays so, and whoever has it keeps it.
Keeps(L, K) ==
    \A l \in Logs, i \in Nat : Settled(L, l, i) =>
       Settled(K, l, i) /\ \A v \in Node : Agree(L[v], l, i) => Agree(K[v], l, i)

LEMMA KeepsBy ==
    ASSUME NEW L \in [Node -> Logs], NEW K \in [Node -> Logs],
           \A l \in Logs, i \in Nat, v \in Node :
              Settled(L, l, i) =>
                 /\ Agree(L[v], l, i) => Agree(K[v], l, i)
                 /\ Later(K[v], l[i].term) => Agree(K[v], l, i)
    PROVE  Keeps(L, K)
<1> SUFFICES ASSUME NEW l \in Logs, NEW i \in Nat, Settled(L, l, i)
    PROVE  Settled(K, l, i) /\ \A v \in Node : Agree(L[v], l, i) => Agree(K[v], l, i)
  BY DEF Keeps
<1>1. \A v \in Node : /\ Agree(L[v], l, i) => Agree(K[v], l, i)
                      /\ Later(K[v], l[i].term) => Agree(K[v], l, i)
  OBVIOUS
<1>2. PICK Q \in SUBSET Node : Granted(Q, ConfAt(l, i)) /\ \A v \in Q : Agree(L[v], l, i)
  BY DEF Settled
<1>3. \A v \in Q : Agree(K[v], l, i)
  BY <1>1, <1>2
<1>4. i \in 1..Len(l)
  BY DEF Settled
<1> QED BY <1>1, <1>2, <1>3, <1>4 DEF Settled

\* An entry in logs that are longer or copied.
LEMMA EntryKept ==
    ASSUME NEW L \in [Node -> Logs], NEW K \in [Node -> Logs],
           NEW T \in [Node -> Nat], NEW U \in [Node -> Nat], \A v \in Node : T[v] <= U[v],
           Keeps(L, K), NEW l \in Logs, NEW m \in Logs, NEW j \in 1..Len(l), Agree(l, m, j),
           LogOK(L, T, l)
    PROVE  VotedOK(U, m, j) /\ (Changes(m, j) => ChangeOK(K, m, j))
<1>1. /\ Len(l) \in Nat /\ Len(m) \in Nat /\ j \in Nat /\ j \in 1..Len(m)
      /\ \A i \in 1..Len(l) : l[i].term \in Nat
  BY LogType DEF Agree
<1>2. \A i \in 1..j : l[i] = m[i]
  BY DEF Agree
<1>3. \A i \in 0..j : ConfAt(l, i) = ConfAt(m, i)
  <2> SUFFICES ASSUME NEW i \in 0..j PROVE ConfAt(l, i) = ConfAt(m, i)
    OBVIOUS
  <2>1. i \in Nat /\ \A h \in 1..i : l[h] = m[h]
    BY <1>1, <1>2
  <2> QED BY <2>1, ConfAgree
<1>4. ConfAt(l, j) = ConfAt(m, j) /\ ConfAt(l, j - 1) = ConfAt(m, j - 1)
  BY <1>1, <1>3
<1>5. VotedOK(U, m, j)
  <2> SUFFICES ASSUME j = 1 \/ m[j - 1].term < m[j].term
      PROVE  \E Q \in SUBSET Node : /\ Granted(Q, ConfAt(m, j - 1))
                                    /\ \A v \in Q : U[v] >= m[j].term
    BY DEF VotedOK
  <2>1. j = 1 \/ l[j - 1].term < l[j].term
    <3>1. CASE j = 1
      BY <3>1
    <3>2. CASE j # 1
      <4>1. l[j] = m[j] /\ l[j - 1] = m[j - 1]
        BY <1>1, <1>2, <3>2
      <4> QED BY <3>2, <4>1
    <3> QED BY <3>1, <3>2
  <2>2. VotedOK(T, l, j)
    BY DEF LogOK
  <2>3. PICK Q \in SUBSET Node : /\ Granted(Q, ConfAt(l, j - 1))
                                 /\ \A v \in Q : T[v] >= l[j].term
    BY <2>1, <2>2 DEF VotedOK
  <2>4. l[j] = m[j] /\ l[j].term \in Nat
    BY <1>1, <1>2
  <2>5. \A v \in Q : U[v] >= m[j].term
    <3> SUFFICES ASSUME NEW v \in Q PROVE U[v] >= m[j].term
      OBVIOUS
    <3>1. T[v] \in Nat /\ U[v] \in Nat /\ T[v] <= U[v] /\ T[v] >= l[j].term
      BY <2>3
    <3> QED BY <2>4, <3>1
  <2> QED BY <1>4, <2>3, <2>5
<1>6. ASSUME Changes(m, j) PROVE ChangeOK(K, m, j)
  <2>1. Changes(l, j)
    BY <1>4, <1>6 DEF Changes
  <2>2. ChangeOK(L, l, j)
    BY <2>1 DEF LogOK
  <2>3. PICK i \in 1..(j - 1) : SameStage(l, i, j) /\ Settled(L, l, i)
    BY <2>2 DEF ChangeOK
  <2>4. i \in 1..j /\ i \in Nat /\ i <= j
    BY <1>1
  <2>5. SameStage(m, i, j)
    <3>1. m[i].term = m[j].term
      BY <1>1, <1>2, <2>3, <2>4 DEF SameStage
    <3>2. \A h \in i..(j - 1) : h \in 0..j
      BY <1>1, <2>4
    <3> QED BY <1>3, <1>4, <2>3, <3>1, <3>2 DEF SameStage
  <2>6. Agree(l, m, i)
    BY <1>1, <2>4, AgreeFacts
  <2>7. Settled(L, m, i)
    BY <2>3, <2>6, SettledMoves
  <2>8. Settled(K, m, i)
    BY <2>4, <2>7 DEF Keeps
  <2>9. Overlap(ConfAt(m, j - 1), ConfAt(m, j))
    BY <1>4, <2>2 DEF ChangeOK
  <2> QED BY <2>5, <2>8, <2>9 DEF ChangeOK
<1> QED BY <1>5, <1>6

\* The log of x gets one more entry.
LEMMA AppendKeeps ==
    ASSUME NEW L \in [Node -> Logs], NEW x \in Node, NEW e \in EntryType,
           NEW K, K = [L EXCEPT ![x] = Append(L[x], e)],
           \A l \in Logs, i \in Nat :
              Settled(L, l, i) /\ e.term > l[i].term => Agree(L[x], l, i)
    PROVE  /\ K \in [Node -> Logs] /\ Keeps(L, K) /\ K[x] = Append(L[x], e)
           /\ \A v \in Node \ {x} : K[v] = L[v]
           /\ \A v \in Node : Agree(L[v], K[v], Len(L[v]))
<1> DEFINE m == Append(L[x], e)
<1>1. /\ L[x] \in Logs /\ m \in Logs /\ Len(m) = Len(L[x]) + 1 /\ Len(L[x]) \in Nat
      /\ \A i \in 1..Len(L[x]) : m[i] = L[x][i]
      /\ m[Len(L[x]) + 1] = e /\ Agree(L[x], m, Len(L[x]))
  BY AppendFacts, LogType
<1>2. K = [L EXCEPT ![x] = m]
  OBVIOUS
<1> HIDE DEF m
<1>3. K \in [Node -> Logs] /\ K[x] = m /\ \A v \in Node \ {x} : K[v] = L[v]
  BY <1>1, <1>2
<1>4. \A v \in Node : Agree(L[v], K[v], Len(L[v]))
  <2> SUFFICES ASSUME NEW v \in Node PROVE Agree(L[v], K[v], Len(L[v]))
    OBVIOUS
  <2>1. CASE v = x
    BY <1>1, <1>3, <2>1
  <2>2. CASE v # x
    <3>1. L[v] \in Logs /\ Len(L[v]) \in Nat /\ K[v] = L[v]
      BY <1>3, <2>2, LogType
    <3> QED BY <3>1, AgreeFacts
  <2> QED BY <2>1, <2>2
<1>5. Keeps(L, K)
  <2>1. ASSUME NEW l \in Logs, NEW i \in Nat, NEW v \in Node, Settled(L, l, i)
        PROVE  /\ Agree(L[v], l, i) => Agree(K[v], l, i)
               /\ Later(K[v], l[i].term) => Agree(K[v], l, i)
    <3>1. L[v] \in Logs /\ K[v] \in Logs /\ Len(L[v]) \in Nat
      BY <1>3, LogType
    <3>2. Agree(L[v], l, i) => Agree(K[v], l, i)
      <4> SUFFICES ASSUME Agree(L[v], l, i) PROVE Agree(K[v], l, i)
        OBVIOUS
      <4>1. Agree(K[v], L[v], Len(L[v])) /\ i <= Len(L[v])
        BY <1>4, <3>1, AgreeFacts DEF Agree
      <4> QED BY <3>1, <4>1, AgreeFacts
    <3>3. ASSUME Later(K[v], l[i].term) PROVE Agree(L[v], l, i)
      <4>1. CASE v # x
        <5>1. K[v] = L[v]
          BY <1>3, <4>1
        <5> QED BY <2>1, <3>3, <5>1 DEF Settled
      <4>2. CASE v = x
        <5>1. PICK j \in 1..Len(m) : m[j].term > l[i].term
          BY <1>3, <3>3, <4>2 DEF Later
        <5>2. CASE j \in 1..Len(L[x])
          <6>1. Later(L[x], l[i].term)
            BY <1>1, <5>1, <5>2 DEF Later
          <6> QED BY <2>1, <4>2, <6>1 DEF Settled
        <5>3. CASE j = Len(L[x]) + 1
          BY <1>1, <2>1, <4>2, <5>1, <5>3
        <5> QED BY <1>1, <5>2, <5>3
      <4> QED BY <4>1, <4>2
    <3> QED BY <3>2, <3>3
  <2> QED BY <1>3, <2>1, KeepsBy
<1> QED BY <1>3, <1>4, <1>5 DEF m

LEMMA AppendLogs ==
    ASSUME NEW L \in [Node -> Logs], NEW K \in [Node -> Logs],
           NEW T \in [Node -> Nat], NEW U \in [Node -> Nat], \A v \in Node : T[v] <= U[v],
           LogsOK(L, T), NEW x \in Node, NEW e \in EntryType, Keeps(L, K),
           K[x] = Append(L[x], e), \A v \in Node \ {x} : K[v] = L[v],
           \A i \in 1..Len(L[x]) : L[x][i].term <= e.term,
           \A s \in Node : \A i \in 1..Len(L[s]) :
              L[s][i].term = e.term => Agree(L[s], L[x], i),
           VotedOK(U, K[x], Len(L[x]) + 1),
           Changes(K[x], Len(L[x]) + 1) => ChangeOK(K, K[x], Len(L[x]) + 1)
    PROVE  LogsOK(K, U)
<1> DEFINE m == K[x]
           k == Len(L[x])
<1>1. /\ L[x] \in Logs /\ m \in Logs /\ Len(m) = k + 1 /\ k \in Nat
      /\ \A i \in 1..k : m[i] = L[x][i]
      /\ m[k + 1] = e /\ Agree(L[x], m, k) /\ e.term \in Nat
      /\ \A i \in 1..k : L[x][i].term \in Nat
  <2>1. L[x] \in Logs
    OBVIOUS
  <2>2. e.term \in Nat
    BY NodeFacts DEF EntryType
  <2>3. /\ Len(L[x]) \in Nat /\ \A i \in 1..Len(L[x]) : L[x][i].term \in Nat
    BY <2>1, LogType
  <2> QED BY <2>1, <2>2, <2>3, AppendFacts
<1>2. \A i \in 1..Len(m) : i \in 1..k \/ i = k + 1
  BY <1>1
<1>3. \A n \in Node : Sorted(L[n]) /\ LogOK(L, T, L[n]) /\ L[n] \in Logs
                      /\ Len(L[n]) \in Nat
  BY LogType DEF LogsOK
<1>4. Sorted(m)
  <2> SUFFICES ASSUME NEW i \in 1..Len(m), NEW j \in 1..Len(m), i <= j
      PROVE  m[i].term <= m[j].term
    BY DEF Sorted
  <2>1. CASE j \in 1..k
    <3>1. i \in 1..k
      BY <1>1, <2>1
    <3> QED BY <1>1, <1>3, <2>1, <3>1 DEF Sorted
  <2>2. CASE j = k + 1
    BY <1>1, <1>2, <2>2
  <2> QED BY <1>2, <2>1, <2>2
<1>5. LogOK(K, U, m)
  <2> SUFFICES ASSUME NEW j \in 1..Len(m)
      PROVE  VotedOK(U, m, j) /\ (Changes(m, j) => ChangeOK(K, m, j))
    BY DEF LogOK
  <2>1. CASE j \in 1..k
    <3>1. Agree(L[x], m, j)
      BY <1>1, <2>1, AgreeFacts
    <3> HIDE DEF m, k
    <3> QED BY <1>1, <1>3, <2>1, <3>1, EntryKept DEF k
  <2>2. CASE j = k + 1
    BY <2>2
  <2> QED BY <1>2, <2>1, <2>2
<1>6. \A n \in Node : Sorted(K[n]) /\ LogOK(K, U, K[n])
  <2> SUFFICES ASSUME NEW n \in Node, n # x PROVE Sorted(K[n]) /\ LogOK(K, U, K[n])
    BY <1>4, <1>5
  <2>1. K[n] = L[n]
    OBVIOUS
  <2>2. LogOK(K, U, L[n])
    <3> SUFFICES ASSUME NEW j \in 1..Len(L[n])
        PROVE  VotedOK(U, L[n], j) /\ (Changes(L[n], j) => ChangeOK(K, L[n], j))
      BY DEF LogOK
    <3>1. Agree(L[n], L[n], j)
      BY <1>3, AgreeFacts
    <3> QED BY <1>3, <3>1, EntryKept
  <2> QED BY <1>3, <2>1, <2>2
<1>7. ASSUME NEW n \in Node, n # x PROVE Matching(L[n], m) /\ Matching(m, L[n])
  <2>1. ASSUME NEW i \in 1..Len(L[n]), NEW j \in 1..Len(m), i <= j,
               L[n][i].term = m[j].term
        PROVE  Agree(L[n], m, i)
    <3>1. Agree(L[n], L[x], i)
      <4>1. CASE j \in 1..k
        <5>1. Matching(L[n], L[x]) /\ m[j] = L[x][j]
          BY <1>1, <4>1 DEF LogsOK
        <5> QED BY <2>1, <4>1, <5>1 DEF Matching
      <4>2. CASE j = k + 1
        BY <1>1, <2>1, <4>2
      <4> QED BY <1>2, <4>1, <4>2
    <3>2. i <= k /\ i \in Nat
      BY <3>1 DEF Agree
    <3> QED BY <1>1, <1>3, <3>1, <3>2, AgreeFacts
  <2>2. ASSUME NEW i \in 1..Len(m), NEW j \in 1..Len(L[n]), i <= j,
               m[i].term = L[n][j].term
        PROVE  Agree(m, L[n], i)
    <3>1. CASE i \in 1..k
      <4>1. Matching(L[x], L[n]) /\ m[i] = L[x][i]
        BY <1>1, <3>1 DEF LogsOK
      <4>2. Agree(L[x], L[n], i)
        BY <2>2, <3>1, <4>1 DEF Matching
      <4>3. Agree(m, L[x], k)
        BY <1>1, AgreeFacts
      <4> QED BY <1>1, <1>3, <3>1, <4>2, <4>3, AgreeFacts
    <3>2. CASE i = k + 1
      <4>1. Agree(L[n], L[x], j)
        BY <1>1, <2>2, <3>2
      <4>2. j <= k
        BY <4>1 DEF Agree
      <4> QED BY <1>1, <2>2, <3>2, <4>2
    <3> QED BY <1>2, <3>1, <3>2
  <2> QED BY <2>1, <2>2 DEF Matching
<1>8. Matching(m, m)
  <2> SUFFICES ASSUME NEW i \in 1..Len(m) PROVE Agree(m, m, i)
    BY DEF Matching
  <2> QED BY <1>1 DEF Agree
<1>9. \A n, p \in Node : Matching(K[n], K[p])
  <2> SUFFICES ASSUME NEW n \in Node, NEW p \in Node PROVE Matching(K[n], K[p])
    OBVIOUS
  <2>1. CASE n # x /\ p # x
    BY <2>1 DEF LogsOK
  <2>2. CASE n # x /\ p = x
    BY <1>7, <2>2
  <2>3. CASE n = x /\ p # x
    BY <1>7, <2>3
  <2>4. CASE n = x /\ p = x
    BY <1>8, <2>4
  <2> QED BY <2>1, <2>2, <2>3, <2>4
<1> QED BY <1>6, <1>9 DEF LogsOK

\* The log of f becomes that of n, up to entry k, when they differ before it, or
\* the log of f ends before.
LEMMA CopyKeeps ==
    ASSUME NEW L \in [Node -> Logs], NEW T \in [Node -> Nat], LogsOK(L, T),
           NEW n \in Node, NEW f \in Node, Leads(L, T, n), T[f] <= T[n],
           \A i \in 1..Len(L[f]) : L[f][i].term <= T[f],
           NEW m \in Logs, NEW K, K = [L EXCEPT ![f] = m], Agree(m, L[n], Len(m)),
           \A i \in Nat : Agree(L[f], L[n], i) => i <= Len(m)
    PROVE  /\ K \in [Node -> Logs] /\ Keeps(L, K) /\ K[f] = m
           /\ \A v \in Node \ {f} : K[v] = L[v]
<1>1. /\ L[n] \in Logs /\ L[f] \in Logs /\ Len(m) \in Nat /\ Len(L[n]) \in Nat
      /\ T[n] \in Nat /\ T[f] \in Nat /\ Sorted(L[n])
      /\ \A i \in 1..Len(L[n]) : L[n][i].term \in Nat
      /\ \A i \in 1..Len(m) : m[i].term \in Nat
  BY LogType DEF LogsOK
<1>2. K \in [Node -> Logs] /\ K[f] = m /\ \A v \in Node \ {f} : K[v] = L[v]
  OBVIOUS
<1>3. ASSUME NEW l \in Logs, NEW i \in Nat, Settled(L, l, i), Agree(L[f], l, i)
      PROVE  Agree(m, l, i)
  <2>1. i \in 1..Len(l) /\ l[i].term \in Nat
    BY <1>3, LogType DEF Settled
  <2>2. i \in 1..Len(L[f]) /\ L[f][i] = l[i]
    BY <1>1, <1>3, <2>1 DEF Agree
  <2>3. l[i].term <= T[n]
    <3>1. l[i].term <= T[f]
      BY <2>2
    <3> QED BY <1>1, <2>1, <3>1
  <2>4. Agree(L[f], L[n], i)
    <3>1. CASE l[i].term = T[n]
      BY <2>2, <3>1 DEF Leads
    <3>2. CASE l[i].term < T[n]
      <4>1. L[n][Len(L[n])].term = T[n] /\ Len(L[n]) \in 1..Len(L[n])
        BY <1>1, LastTermFacts DEF Leads
      <4>2. Later(L[n], l[i].term)
        BY <3>2, <4>1 DEF Later
      <4>3. Agree(L[n], l, i)
        BY <1>3, <4>2 DEF Settled
      <4>4. Agree(l, L[n], i)
        BY <1>1, <4>3, AgreeFacts
      <4> QED BY <1>1, <1>3, <4>4, AgreeFacts
    <3> QED BY <1>1, <2>1, <2>3, <3>1, <3>2
  <2>5. i <= Len(m)
    BY <2>4
  <2>6. Agree(m, L[f], i)
    <3>1. Agree(L[n], L[f], i)
      BY <1>1, <2>4, AgreeFacts
    <3> QED BY <1>1, <2>5, <3>1, AgreeFacts
  <2> QED BY <1>1, <1>3, <2>6, AgreeFacts
<1>4. ASSUME NEW l \in Logs, NEW i \in Nat, Settled(L, l, i), Later(m, l[i].term)
      PROVE  Agree(m, l, i)
  <2>1. i \in 1..Len(l) /\ l[i].term \in Nat
    BY <1>4, LogType DEF Settled
  <2>2. PICK j \in 1..Len(m) : m[j].term > l[i].term
    BY <1>4 DEF Later
  <2>3. j \in 1..Len(L[n]) /\ L[n][j] = m[j] /\ j \in Nat
    BY <1>1 DEF Agree
  <2>4. Agree(L[n], l, i)
    <3>1. Later(L[n], l[i].term)
      BY <2>2, <2>3 DEF Later
    <3> QED BY <1>4, <3>1 DEF Settled
  <2>5. i < j
    <3>1. i \in 1..Len(L[n]) /\ L[n][i] = l[i]
      BY <1>1, <2>1, <2>4 DEF Agree
    <3>2. j <= i => L[n][j].term <= L[n][i].term
      BY <1>1, <2>3, <3>1 DEF Sorted
    <3> QED BY <1>1, <2>1, <2>2, <2>3, <3>1, <3>2
  <2>6. i <= Len(m)
    BY <1>1, <2>5
  <2> QED BY <1>1, <2>4, <2>6, AgreeFacts
<1>5. Keeps(L, K)
  <2>1. ASSUME NEW l \in Logs, NEW i \in Nat, NEW v \in Node, Settled(L, l, i)
        PROVE  /\ Agree(L[v], l, i) => Agree(K[v], l, i)
               /\ Later(K[v], l[i].term) => Agree(K[v], l, i)
    <3>1. CASE v = f
      BY <1>2, <1>3, <1>4, <2>1, <3>1
    <3>2. CASE v # f
      <4>1. K[v] = L[v]
        BY <1>2, <3>2
      <4> QED BY <2>1, <4>1 DEF Settled
    <3> QED BY <3>1, <3>2
  <2> QED BY <1>2, <2>1, KeepsBy
<1> QED BY <1>2, <1>5

LEMMA MatchingCopied ==
    ASSUME NEW l \in Logs, NEW m \in Logs, NEW o \in Logs, NEW p \in Logs,
           Agree(l, o, Len(l)), Agree(m, p, Len(m)), Matching(o, p)
    PROVE  Matching(l, m)
<1> SUFFICES ASSUME NEW i \in 1..Len(l), NEW j \in 1..Len(m), i <= j, l[i].term = m[j].term
    PROVE  Agree(l, m, i)
  BY DEF Matching
<1>1. /\ Len(l) \in Nat /\ Len(m) \in Nat /\ Len(o) \in Nat /\ Len(p) \in Nat
      /\ i \in Nat /\ j \in Nat
  BY LogType
<1>2. Len(l) <= Len(o) /\ l[i] = o[i]
  BY DEF Agree
<1>3. Len(m) <= Len(p) /\ m[j] = p[j]
  BY DEF Agree
<1>4. i \in 1..Len(o) /\ j \in 1..Len(p) /\ i <= Len(m) /\ i <= Len(l)
  BY <1>1, <1>2, <1>3
<1>5. Agree(o, p, i)
  BY <1>2, <1>3, <1>4 DEF Matching
<1>6. Agree(l, p, i)
  BY <1>1, <1>4, <1>5, AgreeFacts
<1>7. Agree(p, m, Len(m))
  BY <1>1, AgreeFacts
<1> QED BY <1>1, <1>4, <1>6, <1>7, AgreeFacts

LEMMA CopyLogs ==
    ASSUME NEW L \in [Node -> Logs], NEW K \in [Node -> Logs],
           NEW T \in [Node -> Nat], NEW U \in [Node -> Nat], \A v \in Node : T[v] <= U[v],
           LogsOK(L, T), NEW n \in Node, NEW f \in Node, Keeps(L, K),
           \A v \in Node \ {f} : K[v] = L[v], Agree(K[f], L[n], Len(K[f]))
    PROVE  LogsOK(K, U)
\* Every log is the beginning of one there was.
<1>1. \A v \in Node : \E w \in Node : Agree(K[v], L[w], Len(K[v]))
  <2> SUFFICES ASSUME NEW v \in Node PROVE \E w \in Node : Agree(K[v], L[w], Len(K[v]))
    OBVIOUS
  <2>1. CASE v = f
    BY <2>1
  <2>2. CASE v # f
    <3>1. L[v] \in Logs /\ Len(L[v]) \in Nat /\ K[v] = L[v]
      BY <2>2, LogType
    <3>2. Agree(L[v], L[v], Len(L[v]))
      BY <3>1, AgreeFacts
    <3> QED BY <3>1, <3>2
  <2> QED BY <2>1, <2>2
<1>2. \A v \in Node : K[v] \in Logs /\ Len(K[v]) \in Nat /\ L[v] \in Logs /\ Len(L[v]) \in Nat
  BY LogType
<1>3. ASSUME NEW v \in Node PROVE Sorted(K[v]) /\ LogOK(K, U, K[v])
  <2>1. PICK w \in Node : Agree(K[v], L[w], Len(K[v]))
    BY <1>1
  <2>2. Sorted(L[w]) /\ LogOK(L, T, L[w])
    BY DEF LogsOK
  <2>3. \A i \in 1..Len(K[v]) : i \in 1..Len(L[w]) /\ K[v][i] = L[w][i]
    BY <1>2, <2>1 DEF Agree
  <2>4. Sorted(K[v])
    BY <2>2, <2>3 DEF Sorted
  <2>5. LogOK(K, U, K[v])
    <3> SUFFICES ASSUME NEW j \in 1..Len(K[v])
        PROVE  VotedOK(U, K[v], j) /\ (Changes(K[v], j) => ChangeOK(K, K[v], j))
      BY DEF LogOK
    <3>1. /\ K[v] \in Logs /\ L[w] \in Logs /\ Len(K[v]) \in Nat
          /\ j \in Nat /\ j <= Len(K[v])
      BY <1>2
    <3>2. Agree(L[w], K[v], j)
      <4>1. Agree(L[w], K[v], Len(K[v]))
        BY <2>1, <3>1, AgreeFacts
      <4> QED BY <3>1, <4>1, AgreeFacts
    <3> QED BY <1>2, <2>2, <2>3, <3>2, EntryKept
  <2> QED BY <2>4, <2>5
<1>4. ASSUME NEW v \in Node, NEW u \in Node PROVE Matching(K[v], K[u])
  <2>1. PICK w \in Node : Agree(K[v], L[w], Len(K[v]))
    BY <1>1
  <2>2. PICK z \in Node : Agree(K[u], L[z], Len(K[u]))
    BY <1>1
  <2>3. Matching(L[w], L[z])
    BY DEF LogsOK
  <2> QED BY <1>2, <2>1, <2>2, <2>3, MatchingCopied
<1> QED BY <1>3, <1>4 DEF LogsOK

-----------------------------------------------------------------------------
(* What leaders have.                                                      *)

\* The leader x writes the entry e of its term: it has all entries of that term.
LEMMA WriterLeads ==
    ASSUME NEW L \in [Node -> Logs], NEW K \in [Node -> Logs], NEW U \in [Node -> Nat],
           NEW x \in Node, NEW e \in EntryType, e.term = U[x],
           K[x] = Append(L[x], e), \A v \in Node \ {x} : K[v] = L[v],
           \A s \in Node : \A i \in 1..Len(L[s]) :
              L[s][i].term = U[x] => Agree(L[s], L[x], i)
    PROVE  Leads(K, U, x)
<1>1. /\ L[x] \in Logs /\ K[x] \in Logs /\ Len(K[x]) = Len(L[x]) + 1 /\ Len(L[x]) \in Nat
      /\ K[x][Len(L[x]) + 1] = e /\ Agree(L[x], K[x], Len(L[x]))
  <2>1. L[x] \in Logs
    OBVIOUS
  <2>2. Len(L[x]) \in Nat
    BY <2>1, LogType
  <2> QED BY <2>1, <2>2, AppendFacts
<1>2. K[x] # << >> /\ K[x][Len(K[x])].term = U[x]
  <2>1. Len(K[x]) # 0
    BY <1>1
  <2> QED BY <1>1, <2>1, LastTermFacts
<1>3. ASSUME NEW s \in Node, NEW i \in 1..Len(K[s]), K[s][i].term = U[x]
      PROVE  Agree(K[s], K[x], i)
  <2>1. CASE s = x
    <3>1. i \in 0..Len(K[x])
      BY <2>1
    <3> QED BY <1>1, <2>1, <3>1, AgreeFacts
  <2>2. CASE s # x
    <3>1. K[s] = L[s] /\ L[s] \in Logs /\ i \in Nat
      BY <2>2
    <3>2. Agree(L[s], L[x], i)
      BY <1>3, <3>1
    <3>3. i <= Len(L[x])
      BY <3>2 DEF Agree
    <3> QED BY <1>1, <3>1, <3>2, <3>3, AgreeFacts
  <2> QED BY <2>1, <2>2
<1> QED BY <1>2, <1>3 DEF Leads

\* One log gets an entry; terms do not go back.
Appended(L, K, x, e) ==
    K[x] = Append(L[x], e) /\ \A v \in Node \ {x} : K[v] = L[v]
Grow(T, U) == \A v \in Node : T[v] <= U[v]

\* The others lead on, with entries of another term.
LEMMA AppendLeads ==
    ASSUME NEW L \in [Node -> Logs], NEW K \in [Node -> Logs],
           NEW T \in [Node -> Nat], NEW U \in [Node -> Nat], Grow(T, U),
           NEW x \in Node, NEW e \in EntryType, Appended(L, K, x, e),
           NEW n \in Node, n # x, Leads(L, T, n), U[n] = T[n], e.term # T[n]
    PROVE  Leads(K, U, n)
<1> USE DEF Appended
<1>1. /\ L[x] \in Logs /\ K[x] \in Logs /\ Len(K[x]) = Len(L[x]) + 1 /\ Len(L[x]) \in Nat
      /\ K[x][Len(L[x]) + 1] = e /\ Agree(L[x], K[x], Len(L[x]))
  <2>1. L[x] \in Logs
    OBVIOUS
  <2>2. Len(L[x]) \in Nat
    BY <2>1, LogType
  <2> QED BY <2>1, <2>2, AppendFacts
<1>2. K[n] = L[n] /\ L[n] \in Logs
  OBVIOUS
<1>3. ASSUME NEW s \in Node, NEW i \in 1..Len(K[s]), K[s][i].term = U[n]
      PROVE  Agree(K[s], K[n], i)
  <2>1. CASE s = x
    <3>1. i # Len(L[x]) + 1
      BY <1>1, <1>3, <2>1
    <3>2. i \in 1..Len(L[x]) /\ i \in Nat /\ i <= Len(L[x])
      BY <1>1, <2>1, <3>1
    <3>3. L[x][i] = K[x][i]
      BY <1>1, <3>2 DEF Agree
    <3>4. Agree(L[x], L[n], i)
      BY <1>3, <2>1, <3>2, <3>3 DEF Leads
    <3>5. Agree(K[x], L[x], Len(L[x]))
      BY <1>1, AgreeFacts
    <3> QED BY <1>1, <1>2, <2>1, <3>2, <3>4, <3>5, AgreeFacts
  <2>2. CASE s # x
    <3>1. K[s] = L[s]
      BY <2>2
    <3> QED BY <1>2, <1>3, <3>1 DEF Leads
  <2> QED BY <2>1, <2>2
<1> QED BY <1>2, <1>3 DEF Leads

\* The log of f is now the beginning of that of n; when it has changed, it is at
\* least what the two shared.
Copied(L, K, n, f) ==
    (\A v \in Node \ {f} : K[v] = L[v]) /\ Agree(K[f], L[n], Len(K[f]))
Sent(L, K, n, f) ==
    /\ \A v \in Node \ {f} : K[v] = L[v]
    /\ \/ K[f] = L[f]
       \/ /\ Agree(K[f], L[n], Len(K[f]))
          /\ \A i \in Nat : Agree(L[f], L[n], i) => i <= Len(K[f])

LEMMA CopyLeads ==
    ASSUME NEW L \in [Node -> Logs], NEW K \in [Node -> Logs],
           NEW T \in [Node -> Nat], NEW U \in [Node -> Nat], Grow(T, U),
           NEW n \in Node, NEW f \in Node, Copied(L, K, n, f),
           NEW p \in Node, p # f, Leads(L, T, p), U[p] = T[p]
    PROVE  Leads(K, U, p)
<1> USE DEF Copied
<1>1. K[p] = L[p] /\ L[p] \in Logs /\ K[f] \in Logs /\ L[n] \in Logs /\ Len(K[f]) \in Nat
  BY LogType
<1>2. ASSUME NEW s \in Node, NEW i \in 1..Len(K[s]), K[s][i].term = U[p]
      PROVE  Agree(K[s], K[p], i)
  <2>1. CASE s = f
    <3>1. i \in 1..Len(L[n]) /\ K[f][i] = L[n][i] /\ i \in Nat /\ i <= Len(K[f])
      BY <1>1, <2>1, LogType DEF Agree
    <3>2. Agree(L[n], L[p], i)
      BY <1>2, <2>1, <3>1 DEF Leads
    <3> QED BY <1>1, <2>1, <3>1, <3>2, AgreeFacts
  <2>2. CASE s # f
    <3>1. K[s] = L[s]
      BY <2>2
    <3> QED BY <1>1, <1>2, <3>1 DEF Leads
  <2> QED BY <2>1, <2>2
<1> QED BY <1>1, <1>2 DEF Leads

\* Fewer can still acknowledge an entry when terms grow.
LEMMA AliveBefore ==
    ASSUME NEW L \in [Node -> Logs], NEW T \in [Node -> Nat], NEW U \in [Node -> Nat],
           \A v \in Node : T[v] <= U[v],
           NEW M \in [Node -> Nat], NEW n \in Node, U[n] = T[n], NEW i \in 1..Len(L[n]),
           Alive(L, U, M, n, i)
    PROVE  Alive(L, T, M, n, i)
<1> DEFINE A == {v \in Node : M[v] >= i \/ U[v] <= U[n]}
           B == {v \in Node : M[v] >= i \/ T[v] <= T[n]}
<1>1. \A v \in Node : U[v] <= U[n] => T[v] <= T[n]
  <2> SUFFICES ASSUME NEW v \in Node, U[v] <= U[n] PROVE T[v] <= T[n]
    OBVIOUS
  <2>1. T[v] \in Nat /\ U[v] \in Nat /\ T[n] \in Nat /\ T[v] <= U[v]
    OBVIOUS
  <2> QED BY <2>1
<1>2. A \subseteq B /\ A \in SUBSET Node /\ B \in SUBSET Node
  BY <1>1
<1>3. ConfAt(L[n], i) \in ConfType
  <2>1. L[n] \in Logs /\ i \in 0..Len(L[n])
    BY LogType
  <2> QED BY <2>1, ConfAtType
<1>4. Granted(A, ConfAt(L[n], i))
  BY DEF Alive
<1> HIDE DEF A, B
<1>5. Granted(B, ConfAt(L[n], i))
  BY <1>2, <1>3, <1>4, GrantedFacts
<1> QED BY <1>5 DEF Alive, B

\* An entry that can still be committed is in the log of one who may be elected.
LEMMA ElectedHasAlive ==
    ASSUME NEW L \in [Node -> Logs], NEW T \in [Node -> Nat], LogsOK(L, T),
           NEW e \in Node, NEW Q \in SUBSET Node,
           Granted(Q \union {e}, ConfAt(L[e], Len(L[e]))),
           \A v \in Q : UpToDate(L[e], L[v]),
           NEW n \in Node, Leads(L, T, n), NEW M \in [Node -> Nat],
           NEW i \in 1..Len(L[n]), L[n][i].term = T[n], SafeOK(L, T, M, n, i),
           NEW U \in [Node -> Nat], U[n] = T[n], \A v \in Q \union {e} : U[v] > T[n],
           Alive(L, U, M, n, i)
    PROVE  Agree(L[e], L[n], i)
<1> SUFFICES ASSUME ~Agree(L[e], L[n], i) PROVE FALSE
  OBVIOUS
<1> DEFINE l == L[n]
           m == L[e]
           a == Len(L[e])
<1>1. /\ l \in Logs /\ m \in Logs /\ Len(l) \in Nat /\ Len(m) \in Nat
      /\ i \in 0..Len(l) /\ i \in 1..Len(l) /\ i \in Nat
      /\ a = Len(m) /\ a \in 0..Len(m) /\ a \in Nat
      /\ \A h \in 1..Len(l) : l[h].term \in Nat
      /\ \A h \in 1..Len(m) : m[h].term \in Nat
      /\ Sorted(l) /\ Sorted(m) /\ Matching(l, m) /\ Matching(m, l)
      /\ T[n] \in Nat /\ l[i].term = T[n]
  BY LogType DEF LogsOK
<1>2. ~Later(m, T[n])
  BY DEF SafeOK
<1>3. \A h \in 1..Len(m) : m[h].term <= T[n]
  BY <1>1, <1>2 DEF Later
<1>4. ~Agree(m, l, i) /\ ~Agree(l, m, i)
  BY <1>1, AgreeFacts
<1>5. Near(l, m, i, a)
  <2>1. ASSUME NEW g \in 1..i, Settled(L, L[n], g) PROVE g <= a /\ Agree(L[n], m, g)
    <3>1. Agree(L[e], L[n], g)
      <4>1. L[n] \in Logs
        OBVIOUS
      <4> QED BY <2>1, <4>1, ElectedHasSettled
    <3>2. g \in Nat
      OBVIOUS
    <3>3. Agree(L[n], m, g)
      BY <1>1, <3>1, <3>2, AgreeFacts
    <3> QED BY <1>1, <3>3 DEF Agree
  <2> HIDE DEF m, a
  <2> QED BY <1>1, <2>1, NearBy DEF l
<1>6. Near(m, l, a, i)
  <2>1. ASSUME NEW g \in 1..a, NEW h \in 1..a, g < h, L[e][g].term = L[e][h].term,
               Settled(L, L[e], g), ~(h <= i /\ Agree(L[e], l, h))
        PROVE  g <= i /\ Agree(L[e], l, g)
    <3>1. /\ g \in 1..Len(m) /\ h \in 1..Len(m) /\ m[g].term \in Nat /\ m[g].term <= T[n]
          /\ g \in Nat /\ h \in Nat
      BY <1>1, <1>3
    <3>2. CASE m[g].term = T[n]
      <4>1. Agree(L[e], l, h)
        BY <2>1, <3>1, <3>2 DEF Leads
      <4>2. h > i
        BY <1>1, <2>1, <3>1, <4>1
      <4>3. Agree(m, l, i)
        BY <1>1, <3>1, <4>1, <4>2, AgreeFacts
      <4> QED BY <1>4, <4>3
    <3>3. CASE m[g].term < T[n]
      <4>1. Later(l, m[g].term)
        BY <1>1, <3>3 DEF Later
      <4>2. Agree(l, m, g)
        BY <2>1, <4>1 DEF Settled
      <4>3. Agree(m, l, g)
        BY <1>1, <3>1, <4>2, AgreeFacts
      <4>4. g \in 1..Len(l) /\ l[g].term = m[g].term
        <5>1. g <= Len(l) /\ 1 <= g
          BY <4>2 DEF Agree
        <5>2. g \in 1..g
          OBVIOUS
        <5>3. l[g] = m[g]
          BY <4>2, <5>2 DEF Agree
        <5> QED BY <1>1, <3>1, <5>1, <5>3
      <4>5. ~(i <= g)
        <5> SUFFICES ASSUME i <= g PROVE FALSE
          OBVIOUS
        <5>1. l[i].term <= l[g].term
          BY <1>1, <4>4 DEF Sorted
        <5> QED BY <1>1, <3>1, <3>3, <4>4, <5>1
      <4> QED BY <1>1, <3>1, <4>3, <4>5
    <3> QED BY <1>1, <3>1, <3>2, <3>3
  <2> HIDE DEF l, a
  <2> QED BY <1>1, <2>1, NearBy
<1>7. Overlap(ConfAt(l, i), ConfAt(m, a))
  <2> HIDE DEF l, m, a
  <2> QED BY <1>1, <1>5, <1>6, ConfsOverlap
<1> DEFINE A == {v \in Node : M[v] >= i \/ U[v] <= U[n]}
<1>8. A \in SUBSET Node /\ Granted(A, ConfAt(l, i))
  BY DEF Alive
<1>9. Q \union {e} \in SUBSET Node
  OBVIOUS
<1>10. A \intersect (Q \union {e}) # {}
  <2> HIDE DEF A
  <2> QED BY <1>7, <1>8, <1>9 DEF Overlap
<1>11. PICK v \in Node : v \in Q \union {e} /\ v \in A
  BY <1>10
<1>12. M[v] >= i
  <2>1. U[v] > U[n] /\ U[v] \in Nat /\ U[n] \in Nat
    BY <1>11
  <2>2. ~(U[v] <= U[n])
    BY <2>1
  <2> QED BY <1>11, <2>2
<1>13. Agree(L[v], l, i)
  BY <1>12 DEF SafeOK
<1>14. /\ v # e /\ v \in Q /\ L[v] \in Logs /\ Len(L[v]) \in Nat
       /\ i \in 1..Len(L[v]) /\ L[v][i] = l[i] /\ i <= Len(L[v])
       /\ Sorted(L[v]) /\ UpToDate(m, L[v])
  BY <1>1, <1>4, <1>11, <1>13, LogType DEF Agree, LogsOK
<1>15. LastTerm(L[v]) \in Nat /\ LastTerm(m) \in Nat /\ T[n] <= LastTerm(L[v])
  BY <1>1, <1>14, LastTermFacts
<1>16. m # << >>
  <2> SUFFICES ASSUME m = << >> PROVE FALSE
    OBVIOUS
  <2>1. LastTerm(m) = 0 /\ Len(m) = 0
    BY DEF LastTerm
  <2> HIDE DEF m
  <2> QED BY <1>14, <1>15, <2>1 DEF UpToDate
<1>17. a \in 1..Len(m) /\ LastTerm(m) = m[a].term
  BY <1>1, <1>16, LastTermFacts
<1>18. LastTerm(m) <= T[n]
  BY <1>3, <1>17
<1>19. LastTerm(m) = T[n] /\ Len(L[v]) <= a
  <2> HIDE DEF m, a
  <2> QED BY <1>1, <1>14, <1>15, <1>18 DEF UpToDate
<1>20. i <= a
  BY <1>1, <1>14, <1>19
<1>21. Agree(m, l, a)
  BY <1>17, <1>19 DEF Leads
<1>22. Agree(m, l, i)
  <2> HIDE DEF m, l, a
  <2> QED BY <1>1, <1>20, <1>21, AgreeFacts
<1> QED BY <1>4, <1>22

\* The leader x writes an entry.
LEMMA AppendSafeOwn ==
    ASSUME NEW L \in [Node -> Logs], NEW K \in [Node -> Logs], NEW T \in [Node -> Nat],
           LogsOK(K, T), NEW x \in Node, NEW e \in EntryType,
           K[x] = Append(L[x], e), \A v \in Node \ {x} : K[v] = L[v], e.term = T[x],
           Leads(K, T, x), NEW M \in [Node -> Nat], Safe(L, T, M, x)
    PROVE  Safe(K, T, M, x)
<1> DEFINE k == Len(L[x])
<1>1. /\ L[x] \in Logs /\ K[x] \in Logs /\ Len(K[x]) = k + 1 /\ k \in Nat /\ k = Len(L[x])
      /\ K[x][k + 1] = e /\ Agree(L[x], K[x], k)
      /\ \A i \in 1..k : K[x][i] = L[x][i]
  <2>1. L[x] \in Logs
    OBVIOUS
  <2>2. Len(L[x]) \in Nat
    BY <2>1, LogType
  <2> QED BY <2>1, <2>2, AppendFacts
<1> HIDE DEF k
<1>2. \A f \in Node : M[f] <= k
  BY <1>1 DEF Safe
<1>3. \A f \in Node : M[f] <= Len(K[x])
  BY <1>1, <1>2
<1>4. ASSUME NEW i \in 1..k, K[x][i].term = T[x], Alive(K, T, M, x, i)
      PROVE  SafeOK(K, T, M, x, i)
  <2>1. i \in Nat /\ i <= k /\ Agree(L[x], K[x], i) /\ i \in 1..Len(L[x])
    BY <1>1, AgreeFacts
  <2>2. ConfAt(K[x], i) = ConfAt(L[x], i)
    BY <2>1, ConfAgree DEF Agree
  <2>3. SafeOK(L, T, M, x, i)
    <3>1. Alive(L, T, M, x, i)
      BY <1>4, <2>2 DEF Alive
    <3>2. L[x][i].term = T[x]
      BY <1>1, <1>4
    <3> QED BY <2>1, <3>1, <3>2 DEF Safe
  <2>4. Agree(K[x], K[x], i)
    <3>1. i \in 0..Len(K[x])
      BY <1>1
    <3> QED BY <1>1, <3>1, AgreeFacts
  <2>5. ASSUME NEW f \in Node, f # x, Agree(L[f], L[x], i) PROVE Agree(K[f], K[x], i)
    <3>1. K[f] = L[f] /\ L[f] \in Logs
      BY <2>5
    <3> QED BY <1>1, <2>1, <2>5, <3>1, AgreeFacts
  <2>6. \A f \in Node : M[f] >= i => Agree(K[f], K[x], i)
    BY <2>3, <2>4, <2>5 DEF SafeOK
  <2>7. \A m \in Node : Later(K[m], T[x]) => Agree(K[m], K[x], i)
    BY <2>3, <2>4, <2>5 DEF SafeOK
  <2> QED BY <2>6, <2>7 DEF SafeOK
\* When another has written in a later term, the new entry cannot be committed.
<1>5. ASSUME Alive(K, T, M, x, k + 1), NEW m \in Node, Later(K[m], T[x]) PROVE FALSE
  <2> DEFINE S == {v \in Node : M[v] >= k + 1 \/ T[v] <= T[x]}
  <2>1. S \in SUBSET Node /\ Granted(S, ConfAt(K[x], Len(K[x])))
    BY <1>1, <1>5 DEF Alive
  <2>2. \A v \in S : T[v] <= T[x]
    <3> SUFFICES ASSUME NEW v \in Node, M[v] >= k + 1 PROVE FALSE
      OBVIOUS
    <3>1. M[v] \in Nat /\ M[v] <= k
      BY <1>2
    <3> QED BY <1>1, <3>1
  <2> HIDE DEF S
  <2>3. T[x] \in Int /\ T[x] \in Nat
    OBVIOUS
  <2>4. \A i \in 1..Len(K[x]) : K[x][i].term <= T[x]
    <3> SUFFICES ASSUME NEW i \in 1..Len(K[x]) PROVE K[x][i].term <= T[x]
      OBVIOUS
    <3>1. Len(K[x]) \in 1..Len(K[x]) /\ i <= Len(K[x]) /\ Sorted(K[x])
      <4>1. Len(K[x]) = k + 1 /\ k \in Nat
        BY <1>1
      <4>2. Len(K[x]) \in 1..Len(K[x]) /\ i <= Len(K[x])
        BY <4>1
      <4> QED BY <4>2 DEF LogsOK
    <3>2. K[x][i].term <= K[x][Len(K[x])].term
      BY <3>1 DEF Sorted
    <3> QED BY <3>2 DEF Leads
  <2>5. ASSUME NEW i \in 1..Len(K[m]), NEW j \in 1..Len(K[m]), i < j,
               K[m][i].term = K[m][j].term, K[m][j].term <= T[x], Settled(K, K[m], i)
        PROVE  Agree(K[m], K[x], i) \/ Agree(K[m], K[x], j)
    <3>1. K[m] \in Logs /\ K[m][i].term \in Nat /\ i \in Nat
      <4>1. K[m] \in Logs
        OBVIOUS
      <4> QED BY <4>1, LogType
    <3>2. CASE K[m][j].term = T[x]
      BY <3>2 DEF Leads
    <3>3. CASE K[m][j].term < T[x]
      <4>1. K[x][Len(K[x])].term = T[x] /\ Len(K[x]) \in 1..Len(K[x])
        BY <1>1 DEF Leads
      <4>2. Later(K[x], K[m][i].term)
        BY <2>5, <3>3, <4>1 DEF Later
      <4>3. Agree(K[x], K[m], i)
        BY <2>5, <4>2 DEF Settled
      <4> QED BY <1>1, <3>1, <4>3, AgreeFacts
    <3> QED BY <2>3, <2>5, <3>1, <3>2, <3>3
  <2>6. ~Later(K[m], T[x])
    BY <2>1, <2>2, <2>3, <2>4, <2>5, NoLaterTerm
  <2> QED BY <1>5, <2>6
<1>6. Alive(K, T, M, x, k + 1) => SafeOK(K, T, M, x, k + 1)
  <2>1. \A f \in Node : ~(M[f] >= k + 1)
    <3> SUFFICES ASSUME NEW f \in Node PROVE ~(M[f] >= k + 1)
      OBVIOUS
    <3>1. M[f] \in Nat /\ M[f] <= k
      BY <1>2
    <3> QED BY <1>1, <3>1
  <2> QED BY <1>5, <2>1 DEF SafeOK
<1>7. \A i \in 1..Len(K[x]) : i \in 1..k \/ i = k + 1
  <2>1. Len(K[x]) = k + 1 /\ k \in Nat
    BY <1>1
  <2>2. \A i \in 1..(k + 1) : i \in 1..k \/ i = k + 1
    BY <2>1
  <2> QED BY <2>1, <2>2
<1> QED BY <1>3, <1>4, <1>6, <1>7 DEF Safe

\* Node x has the entries that the leader n can still commit.
HasAlive(L, T, U, M, n, x) ==
    \A i \in 1..Len(L[n]) :
       L[n][i].term = T[n] /\ SafeOK(L, T, M, n, i) /\ Alive(L, U, M, n, i)
          => Agree(L[x], L[n], i)

\* Another one does, who has what the leader n can still commit.
LEMMA AppendSafeOther ==
    ASSUME NEW L \in [Node -> Logs], NEW K \in [Node -> Logs],
           NEW T \in [Node -> Nat], NEW U \in [Node -> Nat], Grow(T, U),
           NEW x \in Node, NEW e \in EntryType, Appended(L, K, x, e),
           NEW n \in Node, n # x, U[n] = T[n], NEW M \in [Node -> Nat], Safe(L, T, M, n),
           e.term > T[n] => HasAlive(L, T, U, M, n, x)
    PROVE  Safe(K, U, M, n)
<1> DEFINE k == Len(L[x])
<1> USE DEF Appended, Grow, HasAlive
<1>1. /\ L[x] \in Logs /\ K[x] \in Logs /\ Len(K[x]) = k + 1 /\ k \in Nat /\ k = Len(L[x])
      /\ K[x][k + 1] = e /\ Agree(L[x], K[x], k)
      /\ \A i \in 1..k : K[x][i] = L[x][i]
  <2>1. L[x] \in Logs
    OBVIOUS
  <2>2. Len(L[x]) \in Nat
    BY <2>1, LogType
  <2> QED BY <2>1, <2>2, AppendFacts
<1> HIDE DEF k
<1>2. K[n] = L[n] /\ L[n] \in Logs /\ Len(L[n]) \in Nat
  BY LogType
<1>3. ASSUME NEW i \in 1..Len(L[n]), Agree(L[x], L[n], i) PROVE Agree(K[x], L[n], i)
  <2>1. i \in Nat /\ i <= k /\ Agree(K[x], L[x], k)
    BY <1>1, <1>3, AgreeFacts DEF Agree
  <2> QED BY <1>1, <1>2, <1>3, <2>1, AgreeFacts
<1>4. ASSUME NEW i \in 1..Len(L[n]), L[n][i].term = T[n], Alive(K, U, M, n, i)
      PROVE  SafeOK(K, U, M, n, i)
  <2>1. Alive(L, U, M, n, i)
    BY <1>2, <1>4 DEF Alive
  <2>2. SafeOK(L, T, M, n, i)
    <3>1. Alive(L, T, M, n, i)
      BY <2>1, AliveBefore
    <3> QED BY <1>4, <3>1 DEF Safe
  <2>3. \A f \in Node : M[f] >= i => Agree(K[f], L[n], i)
    BY <1>3, <2>2 DEF SafeOK
  <2>4. ASSUME NEW m \in Node, Later(K[m], T[n]) PROVE Agree(K[m], L[n], i)
    <3>1. CASE m # x
      <4>1. K[m] = L[m]
        BY <3>1
      <4> QED BY <2>2, <2>4, <4>1 DEF SafeOK
    <3>2. CASE m = x
      <4>1. PICK j \in 1..Len(K[x]) : K[x][j].term > T[n]
        BY <2>4, <3>2 DEF Later
      <4>2. CASE j \in 1..k
        <5>1. Later(L[x], T[n])
          BY <1>1, <4>1, <4>2 DEF Later
        <5> QED BY <1>3, <2>2, <3>2, <5>1 DEF SafeOK
      <4>3. CASE j = k + 1
        BY <1>1, <1>3, <1>4, <2>1, <2>2, <3>2, <4>1, <4>3
      <4> QED BY <1>1, <4>2, <4>3
    <3> QED BY <3>1, <3>2
  <2> QED BY <1>2, <2>3, <2>4 DEF SafeOK
<1> QED BY <1>2, <1>4 DEF Safe

\* A new leader has been acknowledged nothing, and nobody writes in a later term.
LEMMA NewSafe ==
    ASSUME NEW K \in [Node -> Logs], NEW U \in [Node -> Nat], NEW x \in Node,
           \A s \in Node : ~Later(K[s], U[x])
    PROVE  Safe(K, U, NoMatch, x)
<1>1. K[x] \in Logs /\ Len(K[x]) \in Nat /\ \A f \in Node : NoMatch[f] = 0
  BY LogType DEF NoMatch
<1>2. \A f \in Node : NoMatch[f] <= Len(K[x])
  BY <1>1
<1>3. \A i \in 1..Len(K[x]) : SafeOK(K, U, NoMatch, x, i)
  BY <1>1 DEF SafeOK
<1> QED BY <1>2, <1>3 DEF Safe

\* The leader n has copied its log, up to entry k, to f.
LEMMA CopySafeOwn ==
    ASSUME NEW L \in [Node -> Logs], NEW K \in [Node -> Logs], NEW T \in [Node -> Nat],
           NEW n \in Node, NEW f \in Node, n # f, T[f] <= T[n],
           \A i \in 1..Len(L[n]) : L[n][i].term <= T[n],
           \A v \in Node \ {f} : K[v] = L[v],
           K[f] = L[f] \/ Agree(K[f], L[n], Len(K[f])),
           NEW k \in 1..Len(L[n]), Agree(K[f], L[n], k),
           NEW M \in [Node -> Nat], Safe(L, T, M, n)
    PROVE  Safe(K, [T EXCEPT ![f] = T[n]], [M EXCEPT ![f] = k], n)
<1> DEFINE U == [T EXCEPT ![f] = T[n]]
           N == [M EXCEPT ![f] = k]
<1>1. /\ K[n] = L[n] /\ L[n] \in Logs /\ Len(L[n]) \in Nat /\ K[f] \in Logs
      /\ Len(K[f]) \in Nat /\ T[n] \in Nat /\ T[f] \in Nat /\ k \in Nat
      /\ \A i \in 1..Len(L[n]) : L[n][i].term \in Nat
  BY LogType
<1>2. /\ U \in [Node -> Nat] /\ N \in [Node -> Nat] /\ U[n] = T[n] /\ U[f] = T[n]
      /\ N[f] = k /\ \A v \in Node \ {f} : U[v] = T[v] /\ N[v] = M[v]
  OBVIOUS
<1> HIDE DEF U, N
<1>3. \A v \in Node : N[v] <= Len(L[n])
  BY <1>2 DEF Safe
<1>4. ASSUME NEW i \in 1..Len(L[n]), L[n][i].term = T[n], Alive(K, U, N, n, i)
      PROVE  SafeOK(K, U, N, n, i)
  <2>1. Alive(L, T, M, n, i)
    <3> DEFINE A == {v \in Node : N[v] >= i \/ U[v] <= U[n]}
               B == {v \in Node : M[v] >= i \/ T[v] <= T[n]}
    <3>1. A \subseteq B /\ A \in SUBSET Node /\ B \in SUBSET Node
      BY <1>2
    <3>2. ConfAt(L[n], i) \in ConfType
      <4>1. i \in 0..Len(L[n])
        OBVIOUS
      <4> QED BY <1>1, <4>1, ConfAtType
    <3>3. Granted(A, ConfAt(L[n], i))
      BY <1>1, <1>4 DEF Alive
    <3> HIDE DEF A, B
    <3>4. Granted(B, ConfAt(L[n], i))
      BY <3>1, <3>2, <3>3, GrantedFacts
    <3> QED BY <3>4 DEF Alive, B
  <2>2. SafeOK(L, T, M, n, i)
    BY <1>4, <2>1 DEF Safe
  <2>3. ASSUME NEW v \in Node, N[v] >= i PROVE Agree(K[v], L[n], i)
    <3>1. CASE v = f
      <4>1. i <= k /\ i \in Nat
        BY <1>1, <1>2, <2>3, <3>1
      <4> QED BY <1>1, <3>1, <4>1, AgreeFacts
    <3>2. CASE v # f
      BY <1>2, <2>2, <2>3, <3>2 DEF SafeOK
    <3> QED BY <3>1, <3>2
  <2>4. ASSUME NEW m \in Node, Later(K[m], T[n]) PROVE Agree(K[m], L[n], i)
    <3>1. K[m] = L[m]
      <4> SUFFICES ASSUME m = f, Agree(K[f], L[n], Len(K[f])) PROVE FALSE
        OBVIOUS
      <4>1. PICK j \in 1..Len(K[f]) : K[f][j].term > T[n]
        BY <2>4 DEF Later
      <4>2. j \in 1..Len(L[n]) /\ K[f][j] = L[n][j]
        BY <1>1 DEF Agree
      <4> QED BY <1>1, <4>1, <4>2
    <3> QED BY <2>2, <2>4, <3>1 DEF SafeOK
  <2> QED BY <1>1, <1>2, <2>3, <2>4 DEF SafeOK
<1>5. Safe(K, U, N, n)
  BY <1>1, <1>2, <1>3, <1>4 DEF Safe
<1> QED BY <1>5 DEF U, N

\* It has done so while another, p, leads in another term.
LEMMA CopySafeOther ==
    ASSUME NEW L \in [Node -> Logs], NEW K \in [Node -> Logs],
           NEW T \in [Node -> Nat], NEW U \in [Node -> Nat], Grow(T, U),
           LogsOK(L, T), NEW n \in Node, NEW f \in Node, Leads(L, T, n), T[f] <= T[n],
           \A i \in 1..Len(L[f]) : L[f][i].term <= T[f], Sent(L, K, n, f),
           NEW p \in Node, p # f, U[p] = T[p], T[p] # T[n],
           NEW M \in [Node -> Nat], Safe(L, T, M, p)
    PROVE  Safe(K, U, M, p)
<1> USE DEF Sent, Grow
<1>1. /\ K[p] = L[p] /\ L[p] \in Logs /\ Len(L[p]) \in Nat /\ K[f] \in Logs /\ L[f] \in Logs
      /\ L[n] \in Logs /\ Len(L[n]) \in Nat
      /\ Len(K[f]) \in Nat /\ T[n] \in Nat /\ T[f] \in Nat /\ T[p] \in Nat
      /\ \A i \in 1..Len(L[n]) : L[n][i].term \in Nat
      /\ Sorted(L[n])
  BY LogType DEF LogsOK
<1>2. ASSUME NEW i \in 1..Len(L[p]), L[p][i].term = T[p], Alive(K, U, M, p, i)
      PROVE  SafeOK(K, U, M, p, i)
  <2>1. SafeOK(L, T, M, p, i)
    <3>1. Alive(L, U, M, p, i)
      BY <1>1, <1>2 DEF Alive
    <3>2. Alive(L, T, M, p, i)
      BY <3>1, AliveBefore
    <3> QED BY <1>2, <3>2 DEF Safe
  <2>2. i \in Nat
    OBVIOUS
  \* What f has of p, n has as well.
  <2>3. ASSUME Agree(L[f], L[p], i) PROVE Agree(K[f], L[p], i)
    <3> SUFFICES ASSUME Agree(K[f], L[n], Len(K[f])),
                        \A h \in Nat : Agree(L[f], L[n], h) => h <= Len(K[f])
        PROVE  Agree(K[f], L[p], i)
      BY <2>3
    <3>1. i \in 1..Len(L[f]) /\ L[f][i] = L[p][i]
      <4>1. i <= Len(L[f]) /\ Len(L[f]) \in Nat
        BY <1>1, <2>3, LogType DEF Agree
      <4>2. i \in 1..i
        OBVIOUS
      <4>3. L[f][i] = L[p][i]
        BY <2>3, <4>2 DEF Agree
      <4> QED BY <4>1, <4>3
    <3>2. T[p] < T[n]
      <4>1. T[p] <= T[f]
        BY <1>2, <3>1
      <4> QED BY <1>1, <4>1
    <3>3. Later(L[n], T[p])
      <4>1. L[n][Len(L[n])].term = T[n] /\ Len(L[n]) \in 1..Len(L[n])
        BY <1>1, LastTermFacts DEF Leads
      <4> QED BY <3>2, <4>1 DEF Later
    <3>4. Agree(L[n], L[p], i)
      BY <2>1, <3>3 DEF SafeOK
    <3>5. Agree(L[p], L[n], i)
      BY <1>1, <2>2, <3>4, AgreeFacts
    <3>6. Agree(L[f], L[n], i)
      BY <1>1, <2>2, <2>3, <3>5, AgreeFacts
    <3>7. i <= Len(K[f])
      BY <2>2, <3>6
    <3> QED BY <1>1, <2>2, <3>4, <3>7, AgreeFacts
  <2>4. \A v \in Node : M[v] >= i => Agree(K[v], L[p], i)
    BY <2>1, <2>3 DEF SafeOK
  <2>5. ASSUME NEW m \in Node, Later(K[m], T[p]) PROVE Agree(K[m], L[p], i)
    <3>1. CASE K[m] = L[m]
      BY <2>1, <2>5, <3>1 DEF SafeOK
    <3>2. CASE m = f /\ Agree(K[f], L[n], Len(K[f]))
      <4>1. PICK j \in 1..Len(K[f]) : K[f][j].term > T[p]
        BY <2>5, <3>2 DEF Later
      <4>2. j \in 1..Len(L[n]) /\ K[f][j] = L[n][j] /\ j \in Nat
        BY <1>1, <3>2 DEF Agree
      <4>3. Later(L[n], T[p])
        BY <4>1, <4>2 DEF Later
      <4>4. Agree(L[n], L[p], i)
        BY <2>1, <4>3 DEF SafeOK
      <4>5. i \in 1..Len(L[n]) /\ L[n][i].term = T[p]
        <5>1. i <= Len(L[n])
          BY <4>4 DEF Agree
        <5>2. i \in 1..i
          OBVIOUS
        <5>3. L[n][i] = L[p][i]
          BY <4>4, <5>2 DEF Agree
        <5> QED BY <1>1, <1>2, <5>1, <5>3
      <4>6. ~(j <= i)
        <5> SUFFICES ASSUME j <= i PROVE FALSE
          OBVIOUS
        <5>1. L[n][j].term <= L[n][i].term
          BY <1>1, <4>2, <4>5 DEF Sorted
        <5>2. L[n][j].term > T[p] /\ L[n][j].term <= T[p]
          BY <4>1, <4>2, <4>5, <5>1
        <5>3. L[n][j].term \in Nat /\ T[p] \in Nat
          BY <1>1, <4>2
        <5> QED BY <5>2, <5>3
      <4>7. i <= Len(K[f])
        BY <1>1, <2>2, <4>1, <4>2, <4>6
      <4> QED BY <1>1, <2>2, <3>2, <4>4, <4>7, AgreeFacts
    <3> QED BY <3>1, <3>2
  <2> QED BY <1>1, <2>4, <2>5 DEF SafeOK
<1> QED BY <1>1, <1>2 DEF Safe

-----------------------------------------------------------------------------
(* The steps, and the logs.                                                *)

LEMMA TypedLogs ==
    ASSUME TypeInv
    PROVE  /\ log \in [Node -> Logs] /\ term \in [Node -> Nat]
           /\ match \in [Node -> [Node -> Nat]] /\ commit \in [Node -> Nat]
           /\ chosen.log \in Logs /\ chosen.term \in Nat
           /\ \A n \in Node : match[n] \in [Node -> Nat] /\ commit[n] \in Nat
                              /\ term[n] \in Nat /\ log[n] \in Logs /\ Len(log[n]) \in Nat
<1>1. log \in [Node -> Logs] /\ match \in [Node -> [Node -> Nat]] /\ chosen.log \in Logs
      /\ chosen.term \in Nat
  BY DEF TypeInv, Logs
<1>2. \A n \in Node : term[n] \in Nat /\ commit[n] \in Nat
  BY Types DEF Typed
<1>3. term \in [Node -> Nat] /\ commit \in [Node -> Nat]
  BY <1>2 DEF TypeInv
<1> QED BY <1>1, <1>2, <1>3, LogType

\* Steps of the leader n that append the entry e to its log and change neither the
\* terms, nor who leads, nor what is acknowledged and committed. A configuration is
\* written when those before it, of this leader, are committed.
Writes(n, e) ==
    /\ role[n] = "leader" /\ e.term = term[n]
    /\ log' = [log EXCEPT ![n] = Append(@, e)]
    /\ term' = term /\ role' = role /\ match' = match /\ commit' = commit
    /\ chosen' = chosen
    /\ e.kind = "conf" =>
          /\ Overlap(Conf(n), [new |-> e.new, old |-> e.old])
          /\ \A j \in Confs(log[n]) : log[n][j].term = term[n] => j <= commit[n]

\* Steps that leave the logs and the terms as they are, after which nobody leads who
\* did not before.
Quiet ==
    /\ log' = log /\ term' = term /\ commit' = commit /\ chosen' = chosen
    /\ \A m \in Node : role'[m] = "leader" => role[m] = "leader" /\ match'[m] = match[m]

\* What is committed stays so.
LEMMA CommittedKept ==
    ASSUME NEW L \in [Node -> Logs], NEW K \in [Node -> Logs], Keeps(L, K),
           NEW c, c.log \in Logs
    PROVE  /\ ChosenOK(L, c) => ChosenOK(K, c)
           /\ \A n \in Node, k \in Nat :
                 CommittedOK(L, L[n], k, c) => CommittedOK(K, K[n], k, c)
<1>1. ChosenOK(L, c) => ChosenOK(K, c)
  <2>1. Len(c.log) \in Nat
    BY LogType
  <2> QED BY <2>1 DEF ChosenOK, Keeps
<1>2. ASSUME NEW n \in Node, NEW k \in Nat, CommittedOK(L, L[n], k, c), k # 0
      PROVE  Settled(K, K[n], k) /\ Agree(K[n], c.log, k)
  <2>1. L[n] \in Logs /\ K[n] \in Logs /\ Settled(L, L[n], k) /\ Agree(L[n], c.log, k)
    BY <1>2 DEF CommittedOK
  <2>2. k \in 0..Len(L[n])
    BY <2>1 DEF Settled
  <2>3. Agree(L[n], L[n], k)
    BY <2>1, <2>2, AgreeFacts
  <2>4. Settled(K, L[n], k) /\ Agree(K[n], L[n], k)
    BY <2>1, <2>3 DEF Keeps
  <2>5. Agree(L[n], K[n], k)
    BY <2>1, <2>4, AgreeFacts
  <2>6. Settled(K, K[n], k)
    BY <2>1, <2>4, <2>5, SettledMoves
  <2>7. Agree(K[n], c.log, k)
    BY <2>1, <2>4, AgreeFacts
  <2> QED BY <2>6, <2>7
<1>3. ASSUME NEW n \in Node, NEW k \in Nat, CommittedOK(L, L[n], k, c)
      PROVE  CommittedOK(K, K[n], k, c)
  BY <1>2, <1>3 DEF CommittedOK
<1> QED BY <1>1, <1>3

LEMMA QuietKeeps ==
    ASSUME ReplicatedInv, Quiet
    PROVE  ReplicatedInv'
<1>1. LogsInv' /\ CommitInv'
  BY DEF ReplicatedInv, Quiet, LogsInv, CommitInv
<1>2. LeadersInv'
  BY DEF ReplicatedInv, Quiet, LeadersInv, OneLeaderPerTerm, Leaders
<1>3. SafeInv'
  BY DEF ReplicatedInv, Quiet, SafeInv, Leaders
<1> QED BY <1>1, <1>2, <1>3 DEF ReplicatedInv

\* A leader may write a configuration when its last one is committed: the quorums of
\* the two meet, and entries of this leader are settled under the last one.
LEMMA WrittenIsOK ==
    ASSUME TypeInv, StageInv, ReplicatedInv, NEW n \in Node, NEW e \in EntryType,
           Writes(n, e), log' \in [Node -> Logs], Keeps(log, log'),
           log'[n] = Append(log[n], e)
    PROVE  Changes(log'[n], Len(log[n]) + 1) => ChangeOK(log', log'[n], Len(log[n]) + 1)
<1> DEFINE l == log[n]
           m == log'[n]
           k == Len(l)
           c == commit[n]
<1> SUFFICES ASSUME Changes(m, k + 1) PROVE ChangeOK(log', m, k + 1)
  OBVIOUS
<1>1. /\ l \in Logs /\ m \in Logs /\ k \in Nat /\ c \in Nat /\ Len(m) = k + 1
      /\ \A i \in 1..k : m[i] = l[i]
      /\ m[k + 1] = e /\ term[n] \in Nat /\ k = Len(l)
      /\ \A i \in 1..k : l[i].term \in Nat
  <2>1. l \in Logs /\ k \in Nat /\ c \in Nat /\ term[n] \in Nat
    BY TypedLogs
  <2>2. \A i \in 1..k : l[i].term \in Nat
    BY <2>1, LogType
  <2>3. m \in Logs
    OBVIOUS
  <2>4. Len(m) = k + 1 /\ m[k + 1] = e /\ \A i \in 1..k : m[i] = l[i]
    BY <2>1, AppendFacts
  <2> HIDE DEF l, m, k, c
  <2>5. k = Len(l)
    BY DEF k
  <2> QED BY <2>1, <2>2, <2>3, <2>4, <2>5
<1>2. ConfAt(m, k) = ConfAt(l, k)
  BY <1>1, ConfAgree
<1>3. role[n] = "leader" /\ e.term = term[n]
  BY DEF Writes
<1>4. ConfAt(l, k) = Conf(n)
  BY DEF Conf
<1> HIDE DEF l, m, k, c
<1>5. k + 1 \in Nat \ {0} /\ (k + 1) - 1 = k
  BY <1>1
<1>6. e.kind = "conf" /\ ConfAt(m, k + 1) = [new |-> e.new, old |-> e.old]
  BY <1>1, <1>5, ConfStep DEF Changes
<1>7. Overlap(ConfAt(m, k), ConfAt(m, k + 1))
  BY <1>2, <1>4, <1>6 DEF Writes
<1>8. \A j \in Confs(l) : l[j].term = term[n] => j <= c
  BY <1>6 DEF Writes, l, c
<1>9. PICK j \in Confs(l) : l[j].term = term[n]
  BY <1>3, HandledFacts DEF l
<1>10. j \in 1..k /\ j <= c
  BY <1>1, <1>8, <1>9 DEF Confs
<1>11. Settled(log, l, c)
  <2>1. c # 0
    BY <1>1, <1>10
  <2> QED BY <2>1 DEF ReplicatedInv, CommitInv, CommittedOK, l, c
<1>12. c \in 1..k /\ c \in Nat
  BY <1>1, <1>11 DEF Settled
<1>13. \A i \in 1..k : i >= c => l[i].term = term[n]
  <2>1. Sorted(l) /\ \A i \in 1..k : l[i].term <= term[n]
    BY StageFacts DEF ReplicatedInv, LogsInv, LogsOK, l, k
  <2> SUFFICES ASSUME NEW i \in 1..k, i >= c PROVE l[i].term = term[n]
    OBVIOUS
  <2>2. j <= i
    BY <1>1, <1>10, <1>12
  <2>3. l[j].term <= l[i].term
    BY <1>1, <1>10, <2>1, <2>2 DEF Sorted
  <2>4. l[i].term <= term[n] /\ term[n] <= l[i].term
    BY <1>9, <2>1, <2>3
  <2> QED BY <1>1, <2>4
<1>14. \A i \in (c + 1)..k : ~Changes(l, i)
  <2> SUFFICES ASSUME NEW i \in (c + 1)..k PROVE ~Changes(l, i)
    OBVIOUS
  <2>1. i \in 1..k /\ i > c /\ i \in Nat \ {0}
    BY <1>1, <1>12
  <2>2. l[i].kind # "conf"
    <3>1. ~(i <= c)
      BY <1>12, <2>1
    <3>2. l[i].term = term[n]
      BY <1>12, <1>13, <2>1
    <3> QED BY <1>1, <1>8, <2>1, <3>1, <3>2 DEF Confs
  <2> QED BY <2>1, <2>2, ConfStep DEF Changes
<1>15. ASSUME NEW h \in c..k PROVE ConfAt(m, h) = ConfAt(m, k)
  <2>1. h \in 0..k /\ h \in Nat /\ \A i \in (h + 1)..k : ~Changes(l, i)
    BY <1>1, <1>12, <1>14
  <2>2. ConfAt(l, k) = ConfAt(l, h)
    BY <1>1, <2>1, ConfUnchanged
  <2>3. \A i \in 1..h : m[i] = l[i]
    BY <1>1, <2>1
  <2>4. ConfAt(m, h) = ConfAt(l, h)
    BY <2>1, <2>3, ConfAgree
  <2> QED BY <1>2, <2>2, <2>4
<1>16. SameStage(m, c, k + 1)
  <2>1. m[c].term = m[k + 1].term
    BY <1>1, <1>3, <1>12, <1>13
  <2>2. \A h \in c..((k + 1) - 1) : ConfAt(m, h) = ConfAt(m, (k + 1) - 1)
    BY <1>5, <1>15
  <2> QED BY <2>1, <2>2 DEF SameStage
<1>17. Settled(log', m, c)
  <2>1. Settled(log', l, c)
    BY <1>1, <1>11, <1>12 DEF Keeps
  <2>2. Agree(l, m, c)
    BY <1>1, <1>12 DEF Agree
  <2> QED BY <1>1, <2>1, <2>2, SettledMoves
<1>18. Overlap(ConfAt(m, (k + 1) - 1), ConfAt(m, k + 1)) /\ c \in 1..((k + 1) - 1)
  BY <1>5, <1>7, <1>12
<1> QED BY <1>16, <1>17, <1>18 DEF ChangeOK

\* What a leader ends with.
LEMMA LeaderFacts ==
    ASSUME TypeInv, StageInv, ReplicatedInv, NEW n \in Node, role[n] = "leader"
    PROVE  /\ Leads(log, term, n) /\ Safe(log, term, match[n], n)
           /\ Len(log[n]) \in 1..Len(log[n]) /\ log[n][Len(log[n])].term = term[n]
           /\ \A t \in Nat : t < term[n] => Later(log[n], t)
           /\ \A m \in Node : role[m] = "leader" /\ m # n => term[m] # term[n]
<1>1. Leads(log, term, n) /\ Safe(log, term, match[n], n)
  BY DEF ReplicatedInv, LeadersInv, SafeInv, Leaders
<1>2. Len(log[n]) \in 1..Len(log[n]) /\ log[n][Len(log[n])].term = term[n]
  BY <1>1, TypedLogs, LastTermFacts DEF Leads
<1>3. \A t \in Nat : t < term[n] => Later(log[n], t)
  BY <1>2, TypedLogs DEF Later
<1>4. \A m \in Node : role[m] = "leader" /\ m # n => term[m] # term[n]
  BY DEF ReplicatedInv, LeadersInv, OneLeaderPerTerm, Leaders
<1> QED BY <1>1, <1>2, <1>3, <1>4

LEMMA WritesKeeps ==
    ASSUME TypeInv, StageInv, ReplicatedInv, NEW n \in Node, NEW e \in EntryType,
           Writes(n, e)
    PROVE  ReplicatedInv'
<1>1. /\ log \in [Node -> Logs] /\ term \in [Node -> Nat] /\ term[n] \in Nat
      /\ \A m \in Node : match[m] \in [Node -> Nat] /\ commit[m] \in Nat
                         /\ term[m] \in Nat /\ log[m] \in Logs /\ Len(log[m]) \in Nat
      /\ chosen.log \in Logs
  BY TypedLogs
<1>2. /\ role[n] = "leader" /\ e.term = term[n]
      /\ term' = term /\ role' = role /\ match' = match /\ commit' = commit
      /\ chosen' = chosen
      /\ log' = [log EXCEPT ![n] = Append(log[n], e)]
  BY DEF Writes
<1>3. /\ Leads(log, term, n) /\ Safe(log, term, match[n], n)
      /\ Len(log[n]) \in 1..Len(log[n]) /\ log[n][Len(log[n])].term = term[n]
      /\ \A t \in Nat : t < term[n] => Later(log[n], t)
      /\ \A m \in Node : role[m] = "leader" /\ m # n => term[m] # term[n]
  BY <1>2, LeaderFacts
<1>4. LogsOK(log, term)
  BY DEF ReplicatedInv, LogsInv
<1>5. \A l \in Logs, i \in Nat :
         Settled(log, l, i) /\ e.term > l[i].term => Agree(log[n], l, i)
  <2> SUFFICES ASSUME NEW l \in Logs, NEW i \in Nat, Settled(log, l, i), e.term > l[i].term
      PROVE  Agree(log[n], l, i)
    OBVIOUS
  <2>1. l[i].term \in Nat
    BY LogType DEF Settled
  <2>2. Later(log[n], l[i].term)
    BY <1>2, <1>3, <2>1
  <2> QED BY <2>2 DEF Settled
<1>6. /\ log' \in [Node -> Logs] /\ Keeps(log, log') /\ log'[n] = Append(log[n], e)
      /\ \A v \in Node \ {n} : log'[v] = log[v]
  BY <1>1, <1>2, <1>5, AppendKeeps
<1>7. \A i \in 1..Len(log[n]) : log[n][i].term <= e.term
  BY <1>2, StageFacts
<1>8. \A s \in Node : \A i \in 1..Len(log[s]) :
         log[s][i].term = term[n] => Agree(log[s], log[n], i)
  BY <1>3 DEF Leads
<1>9. LogsOK(log', term)
  <2>1. VotedOK(term, log'[n], Len(log[n]) + 1)
    <3>1. /\ log'[n][Len(log[n]) + 1] = e
          /\ log'[n][Len(log[n])] = log[n][Len(log[n])]
      BY <1>1, <1>3, <1>6, AppendFacts
    <3>2. /\ Len(log[n]) + 1 # 1 /\ Len(log[n]) + 1 - 1 = Len(log[n])
      BY <1>1, <1>3
    <3>3. ~(log'[n][Len(log[n]) + 1 - 1].term < log'[n][Len(log[n]) + 1].term)
      BY <1>1, <1>2, <1>3, <3>1, <3>2
    <3> QED BY <3>2, <3>3 DEF VotedOK
  <2>2. Changes(log'[n], Len(log[n]) + 1) => ChangeOK(log', log'[n], Len(log[n]) + 1)
    BY <1>6, WrittenIsOK
  <2>3. \A v \in Node : term[v] <= term[v]
    BY <1>1
  <2>4. \A s \in Node : \A i \in 1..Len(log[s]) :
           log[s][i].term = e.term => Agree(log[s], log[n], i)
    BY <1>2, <1>8
  <2> QED BY <1>1, <1>4, <1>6, <1>7, <2>1, <2>2, <2>3, <2>4, AppendLogs
<1>10. Leads(log', term, n)
  BY <1>1, <1>2, <1>6, <1>8, WriterLeads
<1>11. ASSUME NEW m \in Node, role[m] = "leader"
       PROVE  Leads(log', term, m) /\ Safe(log', term, match[m], m)
  <2>1. CASE m = n
    <3>1. Safe(log', term, match[n], n)
      BY <1>1, <1>2, <1>3, <1>6, <1>9, <1>10, AppendSafeOwn
    <3> QED BY <1>10, <2>1, <3>1
  <2>2. CASE m # n
    <3>1. /\ Leads(log, term, m) /\ Safe(log, term, match[m], m) /\ term[m] # term[n]
      BY <1>3, <1>11, <2>2, LeaderFacts
    <3>2. Leads(log', term, m)
      <4>1. e.term # term[m] /\ term[m] = term[m]
        BY <1>2, <3>1
      <4>4. Grow(term, term)
        BY <1>1 DEF Grow
      <4>2. log \in [Node -> Logs] /\ log' \in [Node -> Logs] /\ term \in [Node -> Nat]
        BY <1>1, <1>6
      <4>3. Appended(log, log', n, e)
        BY <1>6 DEF Appended
      <4> QED BY <2>2, <3>1, <4>1, <4>2, <4>3, <4>4, AppendLeads
    <3>3. e.term > term[m] => HasAlive(log, term, term, match[m], m, n)
      <4>1. e.term > term[m] => Later(log[n], term[m])
        BY <1>1, <1>2, <1>3
      <4> QED BY <4>1 DEF HasAlive, SafeOK
    <3>4. Safe(log', term, match[m], m)
      <4>1. Grow(term, term) /\ term[m] = term[m] /\ match[m] \in [Node -> Nat]
        BY <1>1 DEF Grow
      <4>2. log \in [Node -> Logs] /\ log' \in [Node -> Logs] /\ term \in [Node -> Nat]
        BY <1>1, <1>6
      <4>3. Appended(log, log', n, e)
        BY <1>6 DEF Appended
      <4> QED BY <2>2, <3>1, <3>3, <4>1, <4>2, <4>3, AppendSafeOther
    <3> QED BY <3>2, <3>4
  <2> QED BY <2>1, <2>2
<1>12. LogsInv' /\ LeadersInv' /\ SafeInv'
  BY <1>2, <1>9, <1>11
     DEF ReplicatedInv, LogsInv, LeadersInv, OneLeaderPerTerm, SafeInv, Leaders
<1>13. CommitInv'
  <2>1. ChosenOK(log, chosen)
        /\ \A m \in Node : CommittedOK(log, log[m], commit[m], chosen)
    BY DEF ReplicatedInv, CommitInv
  <2>2. ChosenOK(log', chosen)
    BY <1>1, <1>6, <2>1, CommittedKept
  <2>3. \A m \in Node : CommittedOK(log', log'[m], commit[m], chosen)
    BY <1>1, <1>6, <2>1, CommittedKept
  <2> QED BY <1>2, <2>2, <2>3 DEF CommitInv
<1> QED BY <1>12, <1>13 DEF ReplicatedInv

\* A leader is elected, in a term of which there is no entry, and writes its first one.
LEMMA ElectKeeps ==
    ASSUME TypeInv, StageInv, ReplicatedInv, NEW n \in Node, NEW t \in 2..MaxTerm,
           NEW Q \in SUBSET (Node \ {n}), Elect(n, t, Q)
    PROVE  ReplicatedInv'
<1> DEFINE conf == Conf(n)
           e == ConfEntry(t, conf.new, conf.old)
           k == Len(log[n])
<1>1. /\ log \in [Node -> Logs] /\ term \in [Node -> Nat] /\ term[n] \in Nat
      /\ \A m \in Node : match[m] \in [Node -> Nat] /\ commit[m] \in Nat
                         /\ term[m] \in Nat /\ log[m] \in Logs /\ Len(log[m]) \in Nat
      /\ chosen.log \in Logs
  BY TypedLogs
<1>2. t \in Nat /\ k \in Nat /\ log[n] \in Logs /\ k = Len(log[n])
  BY <1>1, NodeFacts
<1>3. /\ conf \in ConfType /\ conf = ConfAt(log[n], k)
      /\ conf.new \in SUBSET Node /\ conf.old \in SUBSET Node
      /\ conf = [new |-> conf.new, old |-> conf.old]
  BY ConfTyped
<1>4. /\ e \in EntryType /\ e.term = t /\ e.kind = "conf" /\ e.new = conf.new
      /\ e.old = conf.old
  BY <1>3, EntryTypes
<1>5. /\ role[n] = "follower" /\ t > term[n] /\ Granted(Q \union {n}, conf)
      /\ \A v \in Q : term[v] < t /\ UpToDate(log[n], log[v])
      /\ log' = [log EXCEPT ![n] = Append(log[n], e)]
      /\ commit' = commit /\ chosen' = chosen
      /\ \A m \in Node :
            /\ term'[m] = IF m \in Q \union {n} THEN t ELSE term[m]
            /\ role'[m] = IF m = n THEN "leader"
                          ELSE IF m \in Q THEN "follower" ELSE role[m]
            /\ match'[m] = IF m \in Q \union {n} THEN NoMatch ELSE match[m]
  BY DEF Elect
<1>6. Q \in SUBSET Node
  OBVIOUS
<1> HIDE DEF e, conf, k
<1>7. term' \in [Node -> Nat]
  <2>1. TypeInv'
    BY ElectStage
  <2>2. term' \in [Node -> 1..MaxTerm]
    BY <2>1 DEF TypeInv
  <2>3. 1..MaxTerm \subseteq Nat
    BY NodeFacts
  <2> QED BY <2>2, <2>3
<1>8. Grow(term, term') /\ \A v \in Node : term[v] <= term'[v]
  <2> SUFFICES ASSUME NEW v \in Node PROVE term[v] <= term'[v]
    BY DEF Grow
  <2>1. term[v] \in Nat /\ (v \in Q \union {n} => term[v] < t)
    BY <1>1, <1>5
  <2> QED BY <1>2, <1>5, <2>1
<1>9. LogsOK(log, term)
  BY DEF ReplicatedInv, LogsInv
<1>10. \A s \in Node : \A i \in 1..Len(log[s]) : log[s][i].term < t
  <2> SUFFICES ASSUME NEW s \in Node PROVE \A i \in 1..Len(log[s]) : log[s][i].term < t
    OBVIOUS
  <2>1. \A v \in Q \union {n} : term[v] < t
    BY <1>1, <1>2, <1>5
  <2>2. \A i \in 1..Len(log[n]) : log[n][i].term <= term[n]
    BY StageFacts
  <2>3. Granted(Q \union {n}, ConfAt(log[n], Len(log[n])))
    BY <1>2, <1>3, <1>5
  <2> QED BY <1>1, <1>2, <1>5, <1>6, <1>9, <2>1, <2>2, <2>3, ElectedTermIsNew
<1>11. \A l \in Logs, i \in Nat : Settled(log, l, i) => Agree(log[n], l, i)
  <2>1. Granted(Q \union {n}, ConfAt(log[n], Len(log[n])))
    BY <1>2, <1>3, <1>5
  <2> QED BY <1>1, <1>5, <1>6, <1>9, <2>1, ElectedHasSettled
<1>12. /\ log' \in [Node -> Logs] /\ Keeps(log, log') /\ log'[n] = Append(log[n], e)
       /\ \A v \in Node \ {n} : log'[v] = log[v]
  BY <1>1, <1>4, <1>5, <1>11, AppendKeeps
<1>13. Appended(log, log', n, e)
  BY <1>12 DEF Appended
<1>14. /\ log'[n][k + 1] = e /\ Len(log'[n]) = k + 1
       /\ \A i \in 1..k : log'[n][i] = log[n][i]
  BY <1>2, <1>4, <1>12, AppendFacts
<1>15. ConfAt(log'[n], k) = conf
  BY <1>2, <1>3, <1>14, ConfAgree
<1>16. k + 1 \in Nat \ {0} /\ (k + 1) - 1 = k
  BY <1>2
<1>17. VotedOK(term', log'[n], k + 1)
  <2>1. \A v \in Q \union {n} : term'[v] >= log'[n][k + 1].term
    BY <1>2, <1>4, <1>5, <1>14
  <2>2. Granted(Q \union {n}, ConfAt(log'[n], (k + 1) - 1))
    BY <1>5, <1>15, <1>16
  <2>3. Q \union {n} \in SUBSET Node
    BY <1>6
  <2> QED BY <2>1, <2>2, <2>3 DEF VotedOK
<1>18. ~Changes(log'[n], k + 1)
  <2>1. ConfAt(log'[n], k + 1) = conf
    BY <1>3, <1>4, <1>14, <1>16, ConfStep
  <2> QED BY <1>15, <1>16, <2>1 DEF Changes
<1>19. LogsOK(log', term')
  <2>1. \A i \in 1..Len(log[n]) : log[n][i].term <= e.term
    <3>1. \A i \in 1..Len(log[n]) : log[n][i].term \in Nat
      BY <1>2, LogType
    <3> QED BY <1>2, <1>4, <1>10, <3>1
  <2>2. \A s \in Node : \A i \in 1..Len(log[s]) :
           log[s][i].term = e.term => Agree(log[s], log[n], i)
    <3> SUFFICES ASSUME NEW s \in Node, NEW i \in 1..Len(log[s]), log[s][i].term = e.term
        PROVE  FALSE
      OBVIOUS
    <3> QED BY <1>2, <1>4, <1>10
  <2>3. VotedOK(term', log'[n], Len(log[n]) + 1)
        /\ (Changes(log'[n], Len(log[n]) + 1) => ChangeOK(log', log'[n], Len(log[n]) + 1))
    BY <1>2, <1>17, <1>18
  <2> QED BY <1>1, <1>4, <1>7, <1>8, <1>9, <1>12, <2>1, <2>2, <2>3, AppendLogs
<1>20. term'[n] = t
  BY <1>5
<1>21. Leads(log', term', n)
  <2>1. \A s \in Node : \A i \in 1..Len(log[s]) :
           log[s][i].term = term'[n] => Agree(log[s], log[n], i)
    <3> SUFFICES ASSUME NEW s \in Node, NEW i \in 1..Len(log[s]), log[s][i].term = t
        PROVE  FALSE
      BY <1>20
    <3> QED BY <1>2, <1>10
  <2> QED BY <1>1, <1>4, <1>7, <1>12, <1>20, <2>1, WriterLeads
<1>22. Safe(log', term', NoMatch, n)
  <2>1. \A s \in Node : ~Later(log'[s], term'[n])
    <3> SUFFICES ASSUME NEW s \in Node, NEW i \in 1..Len(log'[s]), log'[s][i].term > t
        PROVE  FALSE
      BY <1>20 DEF Later
    <3>1. CASE s # n
      <4>1. log'[s] = log[s]
        BY <1>12, <3>1
      <4>2. log[s][i].term < t /\ log[s][i].term \in Nat
        BY <1>1, <1>10, <4>1, LogType
      <4> QED BY <1>2, <4>1, <4>2
    <3>2. CASE s = n
      <4>1. i \in 1..k \/ i = k + 1
        BY <1>2, <1>14, <3>2
      <4>2. CASE i \in 1..k
        <5>1. log[n][i].term < t /\ log[n][i].term \in Nat /\ log'[n][i] = log[n][i]
          BY <1>2, <1>10, <1>14, <4>2, LogType
        <5> QED BY <1>2, <3>2, <5>1
      <4>3. CASE i = k + 1
        BY <1>2, <1>4, <1>14, <3>2, <4>3
      <4> QED BY <4>1, <4>2, <4>3
    <3> QED BY <3>1, <3>2
  <2> QED BY <1>7, <1>12, <2>1, NewSafe
\* Those who lead on do so in earlier terms.
<1>23. ASSUME NEW m \in Node, m # n, role'[m] = "leader"
       PROVE  /\ role[m] = "leader" /\ m \notin Q /\ term'[m] = term[m]
              /\ match'[m] = match[m] /\ term[m] < t
              /\ Leads(log, term, m) /\ Safe(log, term, match[m], m)
  <2>1. role[m] = "leader" /\ m \notin Q
    BY <1>5, <1>23
  <2>2. /\ Leads(log, term, m) /\ Safe(log, term, match[m], m)
        /\ Len(log[m]) \in 1..Len(log[m]) /\ log[m][Len(log[m])].term = term[m]
    BY <2>1, LeaderFacts
  <2>3. term[m] < t
    BY <1>10, <2>2
  <2> QED BY <1>5, <1>23, <2>1, <2>2, <2>3
<1>24. ASSUME NEW m \in Node, m # n, role'[m] = "leader"
       PROVE  Leads(log', term', m) /\ Safe(log', term', match[m], m)
  <2>1. /\ role[m] = "leader" /\ m \notin Q /\ term'[m] = term[m] /\ term[m] < t
        /\ Leads(log, term, m) /\ Safe(log, term, match[m], m)
        /\ e.term # term[m] /\ e.term > term[m]
        /\ match[m] \in [Node -> Nat]
    BY <1>1, <1>2, <1>4, <1>23, <1>24
  <2>2. Leads(log', term', m)
    <3>1. /\ log \in [Node -> Logs] /\ log' \in [Node -> Logs] /\ term \in [Node -> Nat]
          /\ e \in EntryType /\ m # n /\ Leads(log, term, m) /\ term'[m] = term[m]
          /\ e.term # term[m] /\ Grow(term, term')
      BY <1>1, <1>4, <1>8, <1>12, <1>24, <2>1
    <3> QED BY <1>7, <1>13, <3>1, AppendLeads
  <2>3. HasAlive(log, term, term', match[m], m, n)
    <3> SUFFICES ASSUME NEW i \in 1..Len(log[m]), log[m][i].term = term[m],
                        SafeOK(log, term, match[m], m, i), Alive(log, term', match[m], m, i)
        PROVE  Agree(log[n], log[m], i)
      BY DEF HasAlive
    <3>1. \A v \in Q \union {n} : term'[v] > term[m]
      BY <1>5, <2>1
    <3>2. Granted(Q \union {n}, ConfAt(log[n], Len(log[n])))
      BY <1>2, <1>3, <1>5
    <3> QED BY <1>1, <1>5, <1>6, <1>7, <1>9, <2>1, <3>1, <3>2, ElectedHasAlive
  <2>4. Safe(log', term', match[m], m)
    BY <1>1, <1>4, <1>7, <1>8, <1>12, <1>13, <1>24, <2>1, <2>3, AppendSafeOther
  <2> QED BY <2>2, <2>4
<1>25. OneLeaderPerTerm'
  <2> SUFFICES ASSUME NEW m \in Node, NEW s \in Node, role'[m] = "leader",
                      role'[s] = "leader", term'[m] = term'[s], m # s
      PROVE  FALSE
    BY DEF OneLeaderPerTerm, Leaders
  <2>1. CASE m = n
    <3>1. term'[s] = term[s] /\ term[s] < t
      BY <1>23, <2>1
    <3> QED BY <1>1, <1>2, <1>20, <2>1, <3>1
  <2>2. CASE s = n
    <3>1. term'[m] = term[m] /\ term[m] < t
      BY <1>23, <2>2
    <3> QED BY <1>1, <1>2, <1>20, <2>2, <3>1
  <2>3. CASE m # n /\ s # n
    <3>1. /\ term'[m] = term[m] /\ role[m] = "leader"
          /\ term'[s] = term[s] /\ role[s] = "leader"
      BY <1>23, <2>3
    <3>2. term[m] # term[s]
      BY <3>1, LeaderFacts
    <3> QED BY <3>1, <3>2
  <2> QED BY <2>1, <2>2, <2>3
<1>26. LogsInv' /\ LeadersInv' /\ SafeInv'
  <2>1. \A m \in Node : role'[m] = "leader" => Leads(log', term', m)
    BY <1>21, <1>24
  <2>2. \A m \in Node : role'[m] = "leader" => Safe(log', term', match'[m], m)
    <3> SUFFICES ASSUME NEW m \in Node, role'[m] = "leader"
        PROVE  Safe(log', term', match'[m], m)
      OBVIOUS
    <3>1. CASE m = n
      <4>1. match'[n] = NoMatch
        BY <1>5
      <4> QED BY <1>22, <3>1, <4>1
    <3>2. CASE m # n
      <4>1. match'[m] = match[m]
        BY <1>23, <3>2
      <4> QED BY <1>24, <3>2, <4>1
    <3> QED BY <3>1, <3>2
  <2> QED BY <1>19, <1>25, <2>1, <2>2 DEF LogsInv, LeadersInv, SafeInv, Leaders
<1>27. CommitInv'
  <2>1. ChosenOK(log, chosen)
        /\ \A m \in Node : CommittedOK(log, log[m], commit[m], chosen)
    BY DEF ReplicatedInv, CommitInv
  <2>2. ChosenOK(log', chosen)
    BY <1>1, <1>12, <2>1, CommittedKept
  <2>3. \A m \in Node : CommittedOK(log', log'[m], commit[m], chosen)
    BY <1>1, <1>12, <2>1, CommittedKept
  <2> QED BY <1>5, <2>2, <2>3 DEF CommitInv
<1> QED BY <1>26, <1>27 DEF ReplicatedInv

\* What depends on the terms stays so when they grow.
LEMMA TermsGrow ==
    ASSUME NEW L \in [Node -> Logs], NEW T \in [Node -> Nat], NEW U \in [Node -> Nat],
           Grow(T, U), LogsOK(L, T)
    PROVE  LogsOK(L, U)
<1> SUFFICES ASSUME NEW n \in Node, NEW j \in 1..Len(L[n]) PROVE VotedOK(U, L[n], j)
  BY DEF LogsOK, LogOK
<1>1. VotedOK(T, L[n], j)
  BY DEF LogsOK, LogOK
<1>2. L[n] \in Logs /\ L[n][j].term \in Nat
  BY LogType
<1> SUFFICES ASSUME j = 1 \/ L[n][j - 1].term < L[n][j].term
    PROVE  \E Q \in SUBSET Node : /\ Granted(Q, ConfAt(L[n], j - 1))
                                  /\ \A v \in Q : U[v] >= L[n][j].term
  BY DEF VotedOK
<1>3. PICK Q \in SUBSET Node : /\ Granted(Q, ConfAt(L[n], j - 1))
                               /\ \A v \in Q : T[v] >= L[n][j].term
  BY <1>1 DEF VotedOK
<1>4. \A v \in Q : U[v] >= L[n][j].term
  <2> SUFFICES ASSUME NEW v \in Q PROVE U[v] >= L[n][j].term
    OBVIOUS
  <2>1. v \in Node /\ T[v] \in Nat /\ U[v] \in Nat /\ T[v] <= U[v] /\ T[v] >= L[n][j].term
    BY <1>3 DEF Grow
  <2> QED BY <1>2, <2>1
<1> QED BY <1>3, <1>4

\* The leader n copies its log, up to entry k, to f.
LEMMA ReplicateKeeps ==
    ASSUME TypeInv, StageInv, ReplicatedInv, NEW n \in Node, NEW f \in Node,
           NEW k \in 1..MaxLog, Replicate(n, f, k)
    PROVE  ReplicatedInv'
<1>1. /\ log \in [Node -> Logs] /\ term \in [Node -> Nat] /\ term[n] \in Nat
      /\ \A m \in Node : match[m] \in [Node -> Nat] /\ commit[m] \in Nat
                         /\ term[m] \in Nat /\ log[m] \in Logs /\ Len(log[m]) \in Nat
      /\ chosen.log \in Logs
  BY TypedLogs
<1>2. /\ f # n /\ role[n] = "leader" /\ term[f] <= term[n]
      /\ k \in 1..Len(log[n]) /\ k \in Nat
      /\ \A m \in Node :
            /\ m # f => log'[m] = log[m]
            /\ term'[m] = IF m = f THEN term[n] ELSE term[m]
            /\ role'[m] = IF m = f THEN "follower" ELSE role[m]
            /\ m # n /\ m # f => match'[m] = match[m]
            /\ match'[n][m] = IF m = f THEN k ELSE match[n][m]
      /\ log'[f] \in Logs
      /\ Agree(log'[f], log[n], k)
      /\ \/ log' = log
         \/ /\ log' = [log EXCEPT ![f] = log'[f]] /\ Len(log'[f]) = k
            /\ \A i \in Nat : Agree(log[f], log[n], i) => i <= k
      /\ commit' = commit /\ chosen' = chosen /\ TypeInv'
  BY ReplicateFacts
<1>3. /\ Leads(log, term, n) /\ Safe(log, term, match[n], n)
      /\ \A m \in Node : role[m] = "leader" /\ m # n => term[m] # term[n]
  BY <1>2, LeaderFacts
<1>4. LogsOK(log, term)
  BY DEF ReplicatedInv, LogsInv
<1>5. term' \in [Node -> Nat] /\ term' = [term EXCEPT ![f] = term[n]]
  <2>1. term' = [term EXCEPT ![f] = term[n]]
    BY DEF Replicate
  <2> QED BY <1>1, <2>1
<1>6. Grow(term, term') /\ \A v \in Node : term[v] <= term'[v]
  <2> SUFFICES ASSUME NEW v \in Node PROVE term[v] <= term'[v]
    BY DEF Grow
  <2>1. term[v] \in Nat
    BY <1>1
  <2> QED BY <1>2, <2>1
<1>7. /\ \A i \in 1..Len(log[f]) : log[f][i].term <= term[f]
      /\ \A i \in 1..Len(log[n]) : log[n][i].term <= term[n]
  BY StageFacts
<1>8. ASSUME log' # log
      PROVE  /\ log' \in [Node -> Logs] /\ Keeps(log, log')
             /\ Agree(log'[f], log[n], Len(log'[f]))
             /\ \A i \in Nat : Agree(log[f], log[n], i) => i <= Len(log'[f])
  <2>1. /\ log' = [log EXCEPT ![f] = log'[f]] /\ Len(log'[f]) = k
        /\ \A i \in Nat : Agree(log[f], log[n], i) => i <= k
    BY <1>2, <1>8
  <2>2. /\ Agree(log'[f], log[n], Len(log'[f]))
        /\ \A i \in Nat : Agree(log[f], log[n], i) => i <= Len(log'[f])
    BY <1>2, <2>1
  <2>3. log' \in [Node -> Logs] /\ Keeps(log, log')
    BY <1>1, <1>2, <1>3, <1>4, <1>7, <2>1, <2>2, CopyKeeps
  <2> QED BY <2>2, <2>3
<1>9. log' \in [Node -> Logs] /\ Keeps(log, log')
  <2>1. ASSUME log' = log PROVE log' \in [Node -> Logs] /\ Keeps(log, log')
    BY <1>1, <2>1 DEF Keeps
  <2> QED BY <1>8, <2>1
<1>10. \A v \in Node \ {f} : log'[v] = log[v]
  BY <1>2
<1>11. LogsOK(log', term')
  <2>1. CASE log' = log
    BY <1>1, <1>4, <1>5, <1>6, <2>1, TermsGrow
  <2>2. CASE log' # log
    <3>1. Agree(log'[f], log[n], Len(log'[f]))
      BY <1>8, <2>2
    <3> QED BY <1>1, <1>4, <1>5, <1>6, <1>9, <1>10, <3>1, CopyLogs
  <2> QED BY <2>1, <2>2
<1>12. ASSUME NEW m \in Node, role'[m] = "leader"
       PROVE  m # f /\ role[m] = "leader" /\ term'[m] = term[m]
  BY <1>2, <1>12
<1>13. ASSUME NEW m \in Node, role'[m] = "leader" PROVE Leads(log', term', m)
  <2>1. Leads(log, term, m) /\ m # f /\ term'[m] = term[m]
    BY <1>12, <1>13, LeaderFacts
  <2>2. CASE log' = log
    BY <2>1, <2>2 DEF Leads
  <2>3. CASE log' # log
    <3>1. Agree(log'[f], log[n], Len(log'[f]))
      BY <1>8, <2>3
    <3>2. Copied(log, log', n, f) /\ Grow(term, term')
      BY <1>6, <1>10, <3>1 DEF Copied
    <3>3. log \in [Node -> Logs] /\ log' \in [Node -> Logs] /\ term \in [Node -> Nat]
          /\ term' \in [Node -> Nat]
      BY <1>1, <1>5, <1>9
    <3> QED BY <2>1, <3>2, <3>3, CopyLeads
  <2> QED BY <2>2, <2>3
<1>14. match'[n] = [match[n] EXCEPT ![f] = k]
  <2>1. match'[n] \in [Node -> Nat]
    BY <1>2 DEF TypeInv
  <2> DEFINE r == [match[n] EXCEPT ![f] = k]
  <2>2. r \in [Node -> Nat] /\ \A m \in Node : r[m] = IF m = f THEN k ELSE match[n][m]
    BY <1>1, <1>2
  <2> HIDE DEF r
  <2>3. \A m \in Node : match'[n][m] = r[m]
    BY <1>2, <2>2
  <2>4. match'[n] = r
    BY <2>1, <2>2, <2>3
  <2> QED BY <2>4 DEF r
<1>15. ASSUME NEW m \in Node, role'[m] = "leader" PROVE Safe(log', term', match'[m], m)
  <2>1. /\ Safe(log, term, match[m], m) /\ m # f /\ term'[m] = term[m] /\ role[m] = "leader"
        /\ match[m] \in [Node -> Nat]
    BY <1>1, <1>12, <1>15, LeaderFacts
  <2>2. CASE m = n
    <3>1. log'[f] = log[f] \/ Agree(log'[f], log[n], Len(log'[f]))
      BY <1>8
    <3>2. Safe(log', [term EXCEPT ![f] = term[n]], [match[n] EXCEPT ![f] = k], n)
      BY <1>1, <1>2, <1>3, <1>7, <1>9, <1>10, <3>1, CopySafeOwn
    <3> QED BY <1>5, <1>14, <2>2, <3>2
  <2>3. CASE m # n
    <3>1. \/ log'[f] = log[f]
          \/ /\ Agree(log'[f], log[n], Len(log'[f]))
             /\ \A i \in Nat : Agree(log[f], log[n], i) => i <= Len(log'[f])
      BY <1>8
    <3>2. term[m] # term[n] /\ match'[m] = match[m]
      BY <1>2, <1>3, <2>1, <2>3
    <3>3. Safe(log', term', match[m], m)
      <4>1. Sent(log, log', n, f) /\ Grow(term, term')
        BY <1>6, <1>10, <3>1 DEF Sent
      <4>2. log \in [Node -> Logs] /\ log' \in [Node -> Logs] /\ term \in [Node -> Nat]
            /\ term' \in [Node -> Nat]
        BY <1>1, <1>5, <1>9
      <4>3. Leads(log, term, n) /\ term[f] <= term[n]
        BY <1>2, <1>3
      <4> QED BY <1>4, <1>7, <2>1, <3>2, <4>1, <4>2, <4>3, CopySafeOther
    <3> QED BY <3>2, <3>3
  <2> QED BY <2>2, <2>3
<1>16. LeadersInv' /\ SafeInv' /\ LogsInv'
  <2>1. OneLeaderPerTerm'
    BY <1>12, LeaderFacts DEF OneLeaderPerTerm, Leaders
  <2> QED BY <1>11, <1>13, <1>15, <2>1 DEF LogsInv, LeadersInv, SafeInv, Leaders
<1>17. CommitInv'
  <2>1. ChosenOK(log, chosen)
        /\ \A m \in Node : CommittedOK(log, log[m], commit[m], chosen)
    BY DEF ReplicatedInv, CommitInv
  <2>2. ChosenOK(log', chosen)
    BY <1>1, <1>9, <2>1, CommittedKept
  <2>3. \A m \in Node : CommittedOK(log', log'[m], commit[m], chosen)
    BY <1>1, <1>9, <2>1, CommittedKept
  <2> QED BY <1>2, <2>2, <2>3 DEF CommitInv
<1> QED BY <1>16, <1>17 DEF ReplicatedInv

\* The leader n commits what a quorum has acknowledged.
LEMMA CommitKeeps ==
    ASSUME TypeInv, StageInv, ReplicatedInv, NEW n \in Node, Commit(n)
    PROVE  ReplicatedInv'
<1>1. /\ log \in [Node -> Logs] /\ term \in [Node -> Nat] /\ term[n] \in Nat
      /\ \A m \in Node : match[m] \in [Node -> Nat] /\ commit[m] \in Nat
                         /\ term[m] \in Nat /\ log[m] \in Logs /\ Len(log[m]) \in Nat
      /\ chosen.log \in Logs /\ commit \in [Node -> Nat]
  BY TypedLogs
<1>2. PICK i \in 1..Len(log[n]) :
         /\ role[n] = "leader" /\ i > commit[n] /\ i \in Nat
         /\ log[n][i].term = term[n]
         /\ Granted({n} \union {f \in Node : match[n][f] >= i}, ConfAt(log[n], i))
         /\ commit' = [commit EXCEPT ![n] = i]
         /\ chosen' = IF i > Len(chosen.log)
                      THEN [log |-> SubSeq(log[n], 1, i), term |-> term[n]] ELSE chosen
  BY CommitFacts
<1>3. UNCHANGED <<term, log, role, match>>
  BY DEF Commit
<1>4. LogsOK(log, term) /\ Safe(log, term, match[n], n)
  BY <1>2, LeaderFacts DEF ReplicatedInv, LogsInv
<1> DEFINE l == log[n]
           Q == {n} \union {f \in Node : match[n][f] >= i}
           c == ConfAt(log[n], i)
<1>5. /\ l \in Logs /\ i \in 0..Len(l) /\ i \in 1..Len(l) /\ i \in Nat /\ c \in ConfType
      /\ Q \in SUBSET Node /\ l[i].term = term[n] /\ Granted(Q, c) /\ l = log[n]
      /\ c = ConfAt(l, i)
  <2>1. l \in Logs /\ i \in 0..Len(l)
    BY <1>1
  <2> QED BY <1>2, <2>1, ConfAtType
<1>6. SafeOK(log, term, match[n], n, i)
  <2> DEFINE A == {v \in Node : match[n][v] >= i \/ term[v] <= term[n]}
  <2>1. Q \subseteq A /\ A \in SUBSET Node
    BY <1>1
  <2> HIDE DEF A, Q, c
  <2>2. Granted(A, c)
    BY <1>5, <2>1, GrantedFacts
  <2>3. Alive(log, term, match[n], n, i)
    BY <2>2 DEF Alive, A, c
  <2> QED BY <1>2, <1>4, <2>3 DEF Safe
<1>7. Settled(log, l, i)
  <2>1. \A v \in Q : Agree(log[v], l, i)
    <3>1. Agree(l, l, i)
      BY <1>5, AgreeFacts
    <3>2. \A f \in Node : match[n][f] >= i => Agree(log[f], l, i)
      BY <1>6 DEF SafeOK
    <3> QED BY <3>1, <3>2
  <2>2. \A m \in Node : Later(log[m], l[i].term) => Agree(log[m], l, i)
    BY <1>5, <1>6 DEF SafeOK
  <2> HIDE DEF Q, l, c
  <2> QED BY <1>5, <2>1, <2>2 DEF Settled
<1> HIDE DEF Q, c, l
<1>8. /\ chosen.log = <<>> \/ Settled(log, chosen.log, Len(chosen.log))
      /\ ChosenOK(log, chosen) /\ Len(chosen.log) \in Nat
      /\ \A m \in Node : commit[m] # 0 =>
            Settled(log, log[m], commit[m]) /\ Agree(log[m], chosen.log, commit[m])
  <2>1. Len(chosen.log) \in Nat
    BY <1>1, LogType
  <2> QED BY <2>1 DEF ReplicatedInv, CommitInv, ChosenOK, CommittedOK
<1>9. /\ commit'[n] = i /\ \A m \in Node : m # n => commit'[m] = commit[m]
  BY <1>1, <1>2
<1>10. CASE i > Len(chosen.log)
  <2> DEFINE new == SubSeq(log[n], 1, i)
  <2>1. new \in Logs /\ Len(new) = i /\ Agree(new, l, i)
    BY <1>5, PrefixFacts
  <2>2. chosen'.log = new /\ chosen'.term = term[n]
    BY <1>2, <1>10
  <2> HIDE DEF new
  <2>3. Agree(l, new, i) /\ Settled(log, new, i)
    <3>1. Agree(l, new, i)
      BY <1>5, <2>1, AgreeFacts
    <3> QED BY <1>1, <1>5, <1>7, <2>1, <3>1, SettledMoves
  <2>4. new[i].term = term[n]
    <3>1. i \in 1..i
      BY <1>5
    <3> QED BY <1>5, <2>1, <3>1 DEF Agree
  <2>5. ChosenOK(log, chosen')
    BY <2>1, <2>2, <2>3, <2>4 DEF ChosenOK
  <2>6. ASSUME NEW m \in Node, commit'[m] # 0
        PROVE  Settled(log, log[m], commit'[m]) /\ Agree(log[m], new, commit'[m])
    <3>1. CASE m = n
      BY <1>5, <1>7, <1>9, <2>3, <3>1
    <3>2. CASE m # n
      <4>1. /\ commit'[m] = commit[m] /\ commit[m] \in Nat /\ log[m] \in Logs
            /\ Settled(log, log[m], commit[m]) /\ Agree(log[m], chosen.log, commit[m])
        BY <1>1, <1>8, <1>9, <2>6, <3>2
      <4>2. commit[m] <= i
        <5>1. commit[m] <= Len(chosen.log)
          BY <4>1 DEF Agree
        <5> QED BY <1>5, <1>8, <1>10, <4>1, <5>1
      <4>3. Agree(log[m], l, commit[m])
        BY <1>1, <1>4, <1>5, <1>7, <4>1, <4>2, SettledAgree
      <4>4. Agree(log[m], new, commit[m])
        BY <1>5, <2>1, <2>3, <4>1, <4>2, <4>3, AgreeFacts
      <4> QED BY <4>1, <4>4
    <3> QED BY <3>1, <3>2
  <2>7. \A m \in Node : CommittedOK(log, log[m], commit'[m], chosen')
    BY <2>2, <2>6 DEF CommittedOK
  <2>8. CommitInv'
    BY <1>3, <2>5, <2>7 DEF CommitInv
  <2> QED BY <1>3, <2>8 DEF ReplicatedInv, LogsInv, LeadersInv, OneLeaderPerTerm, SafeInv,
                             Leaders
<1>11. CASE ~(i > Len(chosen.log))
  <2>1. chosen' = chosen /\ i <= Len(chosen.log)
    BY <1>2, <1>5, <1>8, <1>11
  <2>2. Settled(log, chosen.log, Len(chosen.log))
    <3>1. Len(<<>>) = 0 /\ Len(chosen.log) # 0
      BY <1>5, <1>8, <2>1
    <3> QED BY <1>8, <3>1
  <2>3. Agree(l, chosen.log, i)
    BY <1>1, <1>4, <1>5, <1>7, <1>8, <2>1, <2>2, SettledAgree
  <2>4. \A m \in Node : CommittedOK(log, log[m], commit'[m], chosen')
    <3> SUFFICES ASSUME NEW m \in Node, commit'[m] # 0
        PROVE  Settled(log, log[m], commit'[m]) /\ Agree(log[m], chosen.log, commit'[m])
      BY <2>1 DEF CommittedOK
    <3>1. CASE m = n
      BY <1>5, <1>7, <1>9, <2>3, <3>1
    <3>2. CASE m # n
      BY <1>8, <1>9, <3>2
    <3> QED BY <3>1, <3>2
  <2>5. CommitInv'
    BY <1>3, <1>8, <2>1, <2>4 DEF CommitInv
  <2> QED BY <1>3, <2>5 DEF ReplicatedInv, LogsInv, LeadersInv, OneLeaderPerTerm, SafeInv,
                             Leaders
<1> QED BY <1>10, <1>11

\* The stages write configurations whose quorums meet those of the one before.
LEMMA NextStageKeeps ==
    ASSUME TypeInv, StageInv, ReplicatedInv, NEW n \in Node, role[n] = "leader",
           NEW c \in CtxType, NextStage(n, c),
           term' = term, match' = match, commit' = commit, chosen' = chosen,
           c.stage = "catching" =>
              /\ Conf(n) = [new |-> c.old, old |-> {}] /\ c.old # {}
              /\ c.nchanges = Cardinality((c.new \ c.old) \union (c.old \ c.new)),
           c.stage = "joint" => Conf(n) = [new |-> c.new, old |-> c.old],
           \A j \in Confs(log[n]) : log[n][j].term = term[n] => j <= commit[n]
    PROVE  ReplicatedInv'
<1>1. /\ c.new \in SUBSET Node /\ c.old \in SUBSET Node /\ c.nchanges \in Nat
      /\ term[n] \in 2..MaxTerm /\ role \in [Node -> {"follower", "leader"}]
  BY HandledFacts DEF CtxType, TypeInv
<1>2. CASE c.stage = "catching" /\ NeedsJoint(c)
  <2> DEFINE e == ConfEntry(term[n], c.new, c.old)
  <2>1. log' = [log EXCEPT ![n] = Append(@, e)] /\ role' = role
    BY <1>2 DEF NextStage
  <2>2. e \in EntryType /\ e.term = term[n] /\ e.new = c.new /\ e.old = c.old
    BY <1>1, EntryTypes
  <2> HIDE DEF e
  <2>3. Overlap(Conf(n), [new |-> e.new, old |-> e.old])
    BY <1>1, <1>2, <2>2, OverlapFacts
  <2>4. Writes(n, e)
    BY <2>1, <2>2, <2>3 DEF Writes
  <2> QED BY <2>2, <2>4, WritesKeeps
<1>3. CASE c.stage \in {"catching", "joint"} /\ ~(c.stage = "catching" /\ NeedsJoint(c))
  <2> DEFINE e == ConfEntry(term[n], c.new, {})
  <2>1. log' = [log EXCEPT ![n] = Append(@, e)] /\ role' = role
    BY <1>3 DEF NextStage
  <2>2. e \in EntryType /\ e.term = term[n] /\ e.new = c.new /\ e.old = {}
    <3>1. {} \in SUBSET Node
      OBVIOUS
    <3> QED BY <1>1, <3>1, EntryTypes
  <2> HIDE DEF e
  <2>3. Overlap(Conf(n), [new |-> e.new, old |-> e.old])
    <3>1. CASE c.stage = "joint"
      BY <1>1, <2>2, <3>1, OverlapFacts
    <3>2. CASE c.stage = "catching"
      <4>1. ~(c.nchanges > 1)
        BY <1>3, <3>2 DEF NeedsJoint
      <4>2. c.nchanges <= 1
        BY <1>1, <4>1
      <4>3. Cardinality((c.new \ c.old) \union (c.old \ c.new)) <= 1
        BY <3>2, <4>2
      <4> QED BY <1>1, <2>2, <3>2, <4>3, SmallChangeOverlaps
    <3> QED BY <1>3, <3>1, <3>2
  <2>4. Writes(n, e)
    BY <2>1, <2>2, <2>3 DEF Writes
  <2> QED BY <2>2, <2>4, WritesKeeps
<1>4. CASE c.stage \notin {"catching", "joint"}
  <2>1. log' = log /\ role' = [role EXCEPT ![n] = IF n \in c.new THEN @ ELSE "follower"]
    BY <1>4 DEF NextStage
  <2>2. \A m \in Node : role'[m] = "leader" => role[m] = "leader"
    BY <1>1, <2>1
  <2>3. Quiet
    BY <2>1, <2>2 DEF Quiet
  <2> QED BY <2>3, QuietKeeps
<1> QED BY <1>2, <1>3, <1>4

\* A leader that has heard of all configurations of its own has committed them.
LEMMA AllCommitted ==
    ASSUME TypeInv, NEW n \in Node, NEW D, Unhandled(log[n], term[n], commit[n], D) = {}
    PROVE  \A j \in Confs(log[n]) : log[n][j].term = term[n] => j <= commit[n]
<1> SUFFICES ASSUME NEW j \in Confs(log[n]), log[n][j].term = term[n] PROVE j <= commit[n]
  OBVIOUS
<1>1. ~(j > commit[n])
  BY DEF Unhandled
<1>2. j \in Nat /\ commit[n] \in Nat
  BY TypedLogs DEF Confs
<1> QED BY <1>1, <1>2

LEMMA ApplyKeeps ==
    ASSUME TypeInv, StageInv, ReplicatedInv, NEW n \in Node, Apply(n)
    PROVE  ReplicatedInv'
<1>1. role[n] = "leader" /\ term[n] \in 2..MaxTerm
  BY HandledFacts DEF Apply
<1>2. /\ Data(term[n]) \in EntryType /\ Data(term[n]).term = term[n]
      /\ Data(term[n]).kind = "data"
  <2>1. {} \in SUBSET Node
    OBVIOUS
  <2> QED BY <1>1, <2>1, EntryTypes
<1>3. Writes(n, Data(term[n]))
  BY <1>1, <1>2 DEF Apply, Writes
<1> QED BY <1>2, <1>3, WritesKeeps

LEMMA StepDownKeeps ==
    ASSUME TypeInv, StageInv, ReplicatedInv, NEW n \in Node, StepDown(n)
    PROVE  ReplicatedInv'
<1>1. /\ role' = [role EXCEPT ![n] = "follower"] /\ match' = [match EXCEPT ![n] = NoMatch]
      /\ log' = log /\ term' = term /\ commit' = commit /\ chosen' = chosen
  BY DEF StepDown
<1>2. role \in [Node -> {"follower", "leader"}] /\ match \in [Node -> [Node -> Nat]]
  BY DEF TypeInv
<1>3. \A m \in Node : role'[m] = "leader" => role[m] = "leader" /\ match'[m] = match[m]
  BY <1>1, <1>2
<1> QED BY <1>1, <1>3, QuietKeeps DEF Quiet

LEMMA ChangePeersKeeps ==
    ASSUME TypeInv, StageInv, ReplicatedInv, NEW n \in Node, NEW new \in Targets,
           ChangePeers(n, new)
    PROVE  ReplicatedInv'
<1> DEFINE c == Started(n, new, Conf(n).new)
<1>1. /\ role[n] = "leader" /\ ~is_busy(ctx[n]) /\ Start(n, c)
      /\ term' = term /\ match' = match /\ commit' = commit /\ chosen' = chosen
  BY DEF ChangePeers
<1>2. new \in SUBSET Node
  BY MembershipAssumption
<1>3. /\ c \in CtxType /\ c.stage = "catching" /\ c.new = new
      /\ c.old = Conf(n).new /\ c.old \in SUBSET Node
      /\ c.adding = new \ Conf(n).new
      /\ c.nchanges = Cardinality((c.new \ c.old) \union (c.old \ c.new))
      /\ c.version = ctx[n].version
      /\ Conf(n) = [new |-> c.old, old |-> {}] /\ n \in c.old
      /\ repl[n] = c.old \ {n}
      /\ Unhandled(log[n], term[n], commit[n], OpenDones(n)) = {}
  BY <1>1, <1>2, StartedFacts
<1> HIDE DEF c
<1>4. CASE c.adding = {}
  <2>1. NextStage(n, c)
    BY <1>1, <1>4 DEF Start
  <2>2. \A j \in Confs(log[n]) : log[n][j].term = term[n] => j <= commit[n]
    BY <1>3, AllCommitted
  <2>3. /\ c.stage = "catching" =>
              /\ Conf(n) = [new |-> c.old, old |-> {}] /\ c.old # {}
              /\ c.nchanges = Cardinality((c.new \ c.old) \union (c.old \ c.new))
        /\ c.stage = "joint" => Conf(n) = [new |-> c.new, old |-> c.old]
    BY <1>3
  <2> QED BY <1>1, <1>3, <2>1, <2>2, <2>3, NextStageKeeps
<1>5. CASE c.adding # {}
  <2>1. log' = log /\ role' = role
    BY <1>1, <1>5 DEF Start
  <2> QED BY <1>1, <2>1, QuietKeeps DEF Quiet
<1> QED BY <1>4, <1>5

LEMMA OnCaughtUpKeeps ==
    ASSUME TypeInv, StageInv, ReplicatedInv, NEW w \in waits, OnCaughtUp(w)
    PROVE  ReplicatedInv'
<1> DEFINE n == w.node
           c == ctx[n]
           rest == [c EXCEPT !.adding = @ \ {w.peer}]
<1>1. n \in Node /\ c \in CtxType
  BY DEF TypeInv, WaitType
<1>2. /\ term' = term /\ match' = match /\ commit' = commit /\ chosen' = chosen
      /\ IF role[n] = "leader" /\ term[n] = w.term /\ VersionMatches(w, c)
         THEN CaughtUp(n, c, w)
         ELSE UNCHANGED <<log, role, ctx, repl, bad>>
  BY DEF OnCaughtUp
<1>3. CASE ~(role[n] = "leader" /\ term[n] = w.term /\ VersionMatches(w, c))
  BY <1>2, <1>3, QuietKeeps DEF Quiet
<1>4. CASE role[n] = "leader" /\ term[n] = w.term /\ VersionMatches(w, c)
  <2>1. CaughtUp(n, c, w) /\ role[n] = "leader"
    BY <1>2, <1>4
  <2>2. c.stage = "catching"
    BY <1>4 DEF StageInv, WaitInv, IsLive, VersionMatches
  <2>3. /\ rest \in CtxType /\ rest.stage = "catching" /\ rest.new = c.new /\ rest.old = c.old
        /\ rest.nchanges = c.nchanges
    BY <1>1, <2>2, PeerDropped
  <2>4. CASE w.st = "fail" \/ rest.adding # {}
    <3>1. log' = log /\ role' = role
      BY <2>1, <2>4 DEF CaughtUp
    <3> QED BY <1>2, <3>1, QuietKeeps DEF Quiet
  <2>5. CASE w.st # "fail" /\ rest.adding = {}
    <3>1. NextStage(n, rest)
      BY <2>1, <2>5 DEF CaughtUp
    <3>2. /\ Conf(n) = [new |-> c.old, old |-> {}] /\ n \in c.old
          /\ c.nchanges = Cardinality((c.new \ c.old) \union (c.old \ c.new))
      BY <1>1, <2>2, StageFacts
    <3>3. Unhandled(log[n], term[n], commit[n], OpenDones(n)) = {}
      BY <1>1, <2>1, <2>2, HandledFacts
    <3> HIDE DEF rest, c, n
    <3>4. \A j \in Confs(log[n]) : log[n][j].term = term[n] => j <= commit[n]
      BY <1>1, <3>3, AllCommitted
    <3>5. /\ rest.stage = "catching" =>
                /\ Conf(n) = [new |-> rest.old, old |-> {}] /\ rest.old # {}
                /\ rest.nchanges = Cardinality((rest.new \ rest.old) \union (rest.old \ rest.new))
          /\ rest.stage = "joint" => Conf(n) = [new |-> rest.new, old |-> rest.old]
      BY <2>3, <3>2
    <3> QED BY <1>1, <1>2, <2>1, <2>3, <3>1, <3>4, <3>5, NextStageKeeps
  <2> QED BY <2>4, <2>5
<1> QED BY <1>3, <1>4

LEMMA OnConfigurationChangeDoneKeeps ==
    ASSUME TypeInv, StageInv, ReplicatedInv, NEW d \in dones, OnConfigurationChangeDone(d)
    PROVE  ReplicatedInv'
<1> DEFINE n == d.node
           c == ctx[n]
<1>1. d \in DoneType /\ n \in Node /\ c \in CtxType
  BY DEF TypeInv, DoneType
<1>2. /\ term' = term /\ match' = match /\ commit' = commit /\ chosen' = chosen
      /\ IF DoneIsFresh(d)
         THEN bad' = (bad \/ ~is_busy(c)) /\ NextStage(n, c)
         ELSE UNCHANGED <<log, role, ctx, repl, bad>>
  BY DEF OnConfigurationChangeDone
<1>3. CASE ~DoneIsFresh(d)
  BY <1>2, <1>3, QuietKeeps DEF Quiet
<1>4. CASE DoneIsFresh(d)
  <2>1. role[n] = "leader" /\ term[n] = d.term /\ NextStage(n, c)
    BY <1>2, <1>4 DEF DoneIsFresh
  <2>2. d.index \in OpenDones(n)
    BY <2>1 DEF OpenDones
  <2>3. DoneIs(log[n], term[n], commit[n], OpenDones(n), c.stage)
    BY <1>1, <2>1, StageFacts DEF DoneOK
  <2>4. /\ \A j \in Unhandled(log[n], term[n], commit[n], OpenDones(n)) :
              IsLastConf(log[n], j) /\ c.stage \in {"joint", "stable"}
        /\ d.index \in Unhandled(log[n], term[n], commit[n], OpenDones(n))
        /\ d.index <= commit[n]
    BY <2>2, <2>3 DEF DoneIs, Unhandled
  <2>5. \A j \in Confs(log[n]) : log[n][j].term = term[n] => j <= commit[n]
    <3> SUFFICES ASSUME NEW j \in Confs(log[n]) PROVE j <= commit[n]
      OBVIOUS
    <3>1. j <= d.index
      BY <2>4 DEF IsLastConf
    <3>2. j \in Nat /\ d.index \in Nat /\ commit[n] \in Nat
      BY <1>1, TypedLogs DEF Confs, DoneType
    <3> QED BY <2>4, <3>1, <3>2
  <2>6. /\ c.stage = "catching" =>
              /\ Conf(n) = [new |-> c.old, old |-> {}] /\ c.old # {}
              /\ c.nchanges = Cardinality((c.new \ c.old) \union (c.old \ c.new))
        /\ c.stage = "joint" => Conf(n) = [new |-> c.new, old |-> c.old]
    BY <1>1, <2>4, StageFacts
  <2> HIDE DEF n, c
  <2> QED BY <1>1, <1>2, <2>1, <2>5, <2>6, NextStageKeeps
<1> QED BY <1>3, <1>4

-----------------------------------------------------------------------------
(* The invariant, and what follows from it.                                *)

LEMMA ReplicatedInit == Init => ReplicatedInv
<1> SUFFICES ASSUME Init PROVE ReplicatedInv
  OBVIOUS
<1>1. \A n \in Node : /\ log[n] = << >> /\ Len(log[n]) = 0 /\ role[n] = "follower"
                      /\ commit[n] = 0
  BY DEF Init
<1>2. \A n \in Node : 1..Len(log[n]) = {}
  BY <1>1
<1>3. LogsInv
  BY <1>2 DEF LogsInv, LogsOK, Sorted, LogOK, Matching
<1>4. LeadersInv /\ SafeInv
  BY <1>1 DEF LeadersInv, SafeInv, OneLeaderPerTerm, Leaders
<1>5. CommitInv
  BY <1>1 DEF Init, CommitInv, ChosenOK, CommittedOK
<1> QED BY <1>3, <1>4, <1>5 DEF ReplicatedInv

\* Every step keeps what is in the logs.
LEMMA ReplicatedStep ==
    TypeInv /\ StageInv /\ ReplicatedInv /\ [Next]_vars => ReplicatedInv'
<1> SUFFICES ASSUME TypeInv, StageInv, ReplicatedInv, [Next]_vars PROVE ReplicatedInv'
  OBVIOUS
<1>1. ASSUME NEW n \in Node, NEW t \in 2..MaxTerm, NEW Q \in SUBSET (Node \ {n}),
             Elect(n, t, Q)
      PROVE  ReplicatedInv'
  BY <1>1, ElectKeeps
<1>2. ASSUME NEW n \in Node, StepDown(n) PROVE ReplicatedInv'
  BY <1>2, StepDownKeeps
<1>3. ASSUME NEW n \in Node, Apply(n) PROVE ReplicatedInv'
  BY <1>3, ApplyKeeps
<1>4. ASSUME NEW n \in Node, Commit(n) PROVE ReplicatedInv'
  BY <1>4, CommitKeeps
<1>5. ASSUME NEW n \in Node, NEW f \in Node, NEW k \in 1..MaxLog, Replicate(n, f, k)
      PROVE  ReplicatedInv'
  BY <1>5, ReplicateKeeps
<1>6. ASSUME NEW n \in Node, NEW new \in Targets, ChangePeers(n, new) PROVE ReplicatedInv'
  BY <1>6, ChangePeersKeeps
<1>7. ASSUME NEW w \in waits, CatchUp(w) PROVE ReplicatedInv'
  <2>1. Quiet
    BY <1>7 DEF CatchUp, Quiet
  <2> QED BY <2>1, QuietKeeps
<1>8. ASSUME NEW w \in waits, OnCaughtUp(w) PROVE ReplicatedInv'
  BY <1>8, OnCaughtUpKeeps
<1>9. ASSUME NEW d \in dones, OnConfigurationChangeDone(d) PROVE ReplicatedInv'
  BY <1>9, OnConfigurationChangeDoneKeeps
<1>10. CASE UNCHANGED vars
  <2>1. Quiet
    BY <1>10 DEF vars, Quiet
  <2> QED BY <2>1, QuietKeeps
<1> QED BY <1>1, <1>2, <1>3, <1>4, <1>5, <1>6, <1>7, <1>8, <1>9, <1>10 DEF Next

\* The inductive invariant of the whole module.
THEOREM MembershipInductive == Spec => []IInv
<1>1. Init => IInv
  BY StageInit, ReplicatedInit DEF IInv
<1>2. IInv /\ [Next]_vars => IInv'
  BY StageStep, ReplicatedStep DEF IInv
<1> QED BY <1>1, <1>2, PTL DEF Spec

\* A term has one leader, by whatever configurations its voters and those of the
\* other leaders have counted.
THEOREM OneLeaderOfATerm == Spec => []OneLeaderPerTerm
<1>1. IInv => OneLeaderPerTerm
  BY DEF IInv, ReplicatedInv, LeadersInv
<1> QED BY <1>1, MembershipInductive, PTL

\* What is committed is never lost, and is the same for all leaders, whatever changes
\* of the peers come between: by one peer, or by way of a joint configuration, each
\* after the one before it is committed.
THEOREM NothingIsLost == Spec => []NothingLost
<1>1. IInv => NothingLost
  <2> SUFFICES ASSUME IInv, NEW n \in Node, role[n] = "leader"
      PROVE  /\ term[n] > chosen.term => IsPrefix(chosen.log, log[n])
             /\ IsPrefix(SubSeq(log[n], 1, commit[n]), chosen.log)
    BY DEF NothingLost, Leaders
  <2>1. TypeInv /\ StageInv /\ ReplicatedInv
    BY DEF IInv
  <2>2. /\ log \in [Node -> Logs] /\ log[n] \in Logs /\ Len(log[n]) \in Nat
        /\ chosen.log \in Logs /\ chosen.term \in Nat /\ commit[n] \in Nat
        /\ term[n] \in Nat /\ Len(chosen.log) \in Nat
    BY <2>1, TypedLogs, LogType
  <2>3. /\ ChosenOK(log, chosen) /\ CommittedOK(log, log[n], commit[n], chosen)
    BY <2>1 DEF ReplicatedInv, CommitInv
  <2>4. ASSUME term[n] > chosen.term PROVE IsPrefix(chosen.log, log[n])
    <3>1. Agree(log[n], chosen.log, Len(chosen.log))
      <4>1. CASE chosen.log = <<>>
        <5>1. Len(chosen.log) = 0
          BY <4>1
        <5> QED BY <2>2, <5>1 DEF Agree
      <4>2. CASE chosen.log # <<>>
        <5>1. /\ Settled(log, chosen.log, Len(chosen.log))
              /\ chosen.log[Len(chosen.log)].term = chosen.term
          BY <2>3, <4>2 DEF ChosenOK
        <5>2. Later(log[n], chosen.term)
          BY <2>1, <2>2, <2>4, LeaderFacts
        <5> QED BY <5>1, <5>2 DEF Settled
      <4> QED BY <4>1, <4>2
    <3>2. Agree(chosen.log, log[n], Len(chosen.log))
      BY <2>2, <3>1, AgreeFacts
    <3> QED BY <2>2, <3>2, PrefixAgrees
  <2>5. IsPrefix(SubSeq(log[n], 1, commit[n]), chosen.log)
    <3> DEFINE k == commit[n]
               p == SubSeq(log[n], 1, k)
    <3>1. Agree(log[n], chosen.log, k)
      <4>1. CASE k = 0
        BY <2>2, <4>1 DEF Agree
      <4>2. CASE k # 0
        BY <2>3, <4>2 DEF CommittedOK
      <4> QED BY <4>1, <4>2
    <3>2. k \in Nat /\ k \in 0..Len(log[n])
      BY <2>2, <3>1 DEF Agree
    <3>3. p \in Logs /\ Len(p) = k /\ Agree(p, log[n], k)
      BY <2>2, <3>2, PrefixFacts
    <3> HIDE DEF p, k
    <3>4. Agree(p, chosen.log, k)
      BY <2>2, <3>1, <3>2, <3>3, AgreeFacts
    <3>5. IsPrefix(p, chosen.log)
      BY <2>2, <3>3, <3>4, PrefixAgrees
    <3> QED BY <3>5 DEF p, k
  <2> QED BY <2>4, <2>5
<1> QED BY <1>1, MembershipInductive, PTL
=============================================================================

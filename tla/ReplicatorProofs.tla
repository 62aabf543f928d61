-------------------------- MODULE ReplicatorProofs --------------------------
(***************************************************************************)
(* Proofs about Replicator, for a follower that does not leave its         *)
(* read-only mode: the calls in flight are accounted for as the answers    *)
(* take for granted, commit_at is told of entries that are on disk or that *)
(* were applied when they were answered, and no CHECK fails, no transfer   *)
(* and no wait for catching up ends too early.                             *)
(***************************************************************************)
EXTENDS Replicator, FiniteSetTheorems, FunctionTheorems, SequenceTheorems,
        WellFoundedInduction, TLAPS

-----------------------------------------------------------------------------
(* The types.                                                              *)

CallType == [index : Nat \ {0}, size : Nat, id : Ids]
RpcType ==
    [id : Ids, op : {"append", "install"}, prev : Nat, n : Nat,
     at : {"sent", "cached", "released", "stable", "answered"},
     ok : {"none", "no", "yes", "failed"}, last : Nat]
ReplicatorType ==
    [next : Nat \ {0}, size : Nat, flying : Seq(CallType),
     st : {"IDLE", "BLOCKING", "APPENDING_ENTRIES", "INSTALLING_SNAPSHOT"},
     wait : Nat, waiters : SUBSET Nat, woken : Nat, canceled : BOOLEAN,
     reader : BOOLEAN, succeeded : BOOLEAN, errors : BOOLEAN,
     timeout_now : Nat, readonly : Nat, timers : Nat, resumes : Nat,
     change : SUBSET BOOLEAN, alive : BOOLEAN]
CatchupType ==
    [waiting : BOOLEAN, set : BOOLEAN, timer : {"none", "armed", "running"},
     stray : BOOLEAN, waits : Nat]

\* The fields of the follower that the proofs speak of have their types, the
\* cache and its timer are any.
FollowerType ==
    /\ DOMAIN f = {"match", "len", "synced", "early", "queue", "timer", "readonly"}
    /\ f.match \in Nat /\ f.len \in Nat /\ f.synced \in Nat /\ f.early \in Nat
    /\ f.readonly \in BOOLEAN

TypeInv ==
    /\ log \in [first : Nat \ {0}, last : Nat]
    /\ r \in ReplicatorType /\ IsFiniteSet(r.waiters)
    /\ rpcs \in SUBSET RpcType
    /\ FollowerType
    /\ catchup \in CatchupType
    /\ granted \in Nat /\ faults \in Nat

\* The bounds: those of the log, and what the bounds of the instance give.
BoundInv ==
    /\ log.first <= MaxLog /\ log.first <= log.last + 1 /\ log.last <= MaxLog
    /\ f.match <= f.len /\ f.match <= MaxLog
    /\ f.len <= MaxLog + 1 /\ f.synced <= MaxLog + 1 /\ f.early <= MaxLog
    /\ granted <= MaxLog /\ faults <= MaxFailures

-----------------------------------------------------------------------------
(* The calls in flight.                                                    *)

\* One after the other, from _min_flying_index to next_index; a probe alone.
InOrder(fl) ==
    /\ \A i \in 1..Len(fl) - 1 : fl[i].index + fl[i].size = fl[i + 1].index
    /\ \A i, j \in 1..Len(fl) : i < j => fl[i].index + fl[i].size <= fl[j].index
    /\ Len(fl) > 1 => \A i \in 1..Len(fl) : fl[i].size > 0
FlyingOK(x) ==
    /\ InOrder(x.flying) /\ Len(x.flying) <= Parallel /\ x.size <= MaxEntries
    /\ x.flying # <<>> => /\ x.flying[1].index = MinFlying(x)
                          /\ x.flying[Len(x.flying)].index
                               + x.flying[Len(x.flying)].size = x.next
    /\ x.flying = <<>> => x.size = 0
    /\ MinFlying(x) >= 1

\* Nothing that comes from a waiter will send.
Quiet(x) == x.canceled \/ (x.woken = 0 /\ x.waiters = {})
HasProbe(x) == \E i \in 1..Len(x.flying) : x.flying[i].size = 0

\* Blocked by a timer, installing a snapshot, probing, or sending: one of these.
ModeOK(x) ==
    /\ x.timers + x.resumes <= 1
    /\ x.timers + x.resumes = 1 => ~x.reader
    /\ x.timers + x.resumes = 1 \/ x.reader => x.flying = <<>>
    /\ x.timers + x.resumes = 1 \/ x.reader \/ HasProbe(x) => Quiet(x)

\* Every call in flight has its message; a snapshot is under way only while its
\* reader is held.
CallsOK(x, C) ==
    /\ \A i \in 1..Len(x.flying) :
          \E m \in C : /\ m.op = "append" /\ m.id = x.flying[i].id
                       /\ m.prev + 1 = x.flying[i].index /\ m.n = x.flying[i].size
    /\ \A m, k \in C : m.id = k.id => m = k
    /\ \A m, k \in C : m.op = "install" /\ k.op = "install" => m = k
    /\ \A m \in C : m.op = "install" => x.reader

\* The follower has entered its read-only mode for good.
ReadonlyOK(x, on) ==
    /\ x.change \subseteq {TRUE}
    /\ x.change # {} \/ x.readonly # 0 => on

FlightInv ==
    /\ FlyingOK(r) /\ ModeOK(r) /\ CallsOK(r, rpcs) /\ ReadonlyOK(r, f.readonly)
    /\ r.next <= log.last + 1

-----------------------------------------------------------------------------
(* What is stored.                                                         *)

\* The leader's entries up to here are on the follower's disk for good, or were
\* applied by it when it answered for them.
Safe == Most(f.early, Least(f.match, f.synced))

\* What a message says is within the leader's log, and what it has been answered
\* is so. Before the first success nothing but probes has been sent.
SaysTrue(m, succeeded, last, match, safe) ==
    /\ m.prev + m.n <= last /\ (m.op = "install" => m.n = 0)
    /\ m.at = "stable" => m.prev + m.n <= match
    /\ m.ok = "yes" /\ (m.n > 0 \/ m.op = "install") => m.prev + m.n <= safe
    /\ ~succeeded => m.n = 0 /\ (m.ok = "yes" => m.prev <= match)
MessageOK(m, succeeded) == SaysTrue(m, succeeded, log.last, f.match, Safe)

\* What comes before _min_flying_index is safe once a call has succeeded;
\* until then the follower has written nothing.
StoredInv ==
    /\ \A m \in rpcs : MessageOK(m, r.succeeded)
    /\ r.succeeded => MinFlying(r) - 1 <= Safe
    /\ ~r.succeeded => Quiet(r) /\ f.match <= f.synced
    /\ granted <= Safe

\* Nothing has gone wrong; no timer of a wait is left behind.
CleanInv == failed = {} /\ ~catchup.stray

IInv == TypeInv /\ BoundInv /\ FlightInv /\ StoredInv /\ CleanInv

-----------------------------------------------------------------------------
(* Sets and sequences.                                                     *)

\* A nonempty set of numbers that are at most n has a greatest one.
LEMMA GreatestOf ==
    ASSUME NEW S \in SUBSET Nat, NEW n \in Nat, \A x \in S : x <= n, S # {}
    PROVE  \E x \in S : \A y \in S : y <= x
<1> DEFINE R == {ss \in Nat \X Nat : ss[1] < ss[2]}
           T == {n - x : x \in S}
<1>1. IsWellFoundedOn(R, Nat)
  BY NatLessThanWellFounded DEF OpToRel
<1>2. \A x, y \in Nat : <<x, y>> \in R <=> x < y
  OBVIOUS
<1>3. T \subseteq Nat /\ T # {}
  <2>1. PICK x \in S : TRUE
    OBVIOUS
  <2>2. n - x \in T
    OBVIOUS
  <2>3. \A y \in S : n - y \in Nat
    OBVIOUS
  <2> QED BY <2>2, <2>3
<1> HIDE DEF R
<1>4. \E x \in T : \A y \in T : ~(<<y, x>> \in R)
  <2> HIDE DEF T
  <2> QED BY <1>1, <1>3, WFMin
<1>5. PICK x \in S : \A y \in S : ~(<<n - y, n - x>> \in R)
  BY <1>4
<1>6. \A y \in S : y <= x
  <2> SUFFICES ASSUME NEW y \in S PROVE y <= x
    OBVIOUS
  <2>1. n - y \in Nat /\ n - x \in Nat
    OBVIOUS
  <2>2. ~(n - y < n - x)
    BY <1>2, <1>5, <2>1
  <2> QED BY <2>2
<1> QED BY <1>6

\* Arithmetic of calls, of which one starts where another ends or later.
LEMMA NotAfter ==
    ASSUME NEW p \in Nat, NEW s \in Nat, NEW q \in Nat, NEW u \in Nat, p + s <= q
    PROVE  p + s <= q + u
OBVIOUS
LEMMA NotTheSame ==
    ASSUME NEW p \in Nat, NEW s \in Nat, NEW q \in Nat, NEW i \in Nat, NEW j \in Nat,
           p + s <= q, i <= s, 1 <= j
    PROVE  p + i - 1 # q + j - 1
OBVIOUS

\* The id of a new waiter is a number.
LEMMA WaiterIdIsNew ==
    ASSUME NEW x, IsFiniteSet(x.waiters)
    PROVE  WaiterId(x) \in Nat \ {0} /\ WaiterId(x) \notin x.waiters
<1> DEFINE W == x.waiters
           n == Cardinality(W)
<1> HIDE DEF W
<1>1. IsFiniteSet(W) /\ n \in Nat
  BY FS_CardinalityType DEF W
<1>2. Cardinality(1..n + 1) = n + 1
  BY <1>1, FS_Interval
<1>3. ~(1..n + 1 \subseteq W)
  BY <1>1, <1>2, FS_Subset
<1>4. \E w \in 1..n + 1 : w \notin W
  BY <1>3
<1>5. WaiterId(x) = CHOOSE w \in 1..n + 1 : w \notin W
  BY DEF WaiterId, W, n
<1>6. WaiterId(x) \in 1..n + 1 /\ WaiterId(x) \notin W
  BY <1>4, <1>5
<1> QED BY <1>1, <1>6 DEF W

\* A free id is no message's.
LEMMA FreeIdIsFree ==
    ASSUME TypeInv, CanSend
    PROVE  FreeId \in Ids /\ \A m \in rpcs : m.id # FreeId
<1>1. UsedIds \subseteq Ids
  BY DEF UsedIds, TypeInv, RpcType
<1>2. \E i \in Ids : i \notin UsedIds
  BY <1>1 DEF CanSend
<1>3. FreeId \in Ids /\ FreeId \notin UsedIds
  BY <1>2 DEF FreeId
<1> QED BY <1>3 DEF UsedIds

\* Of calls in order the entries are as many as the indexes they fill.
LEMMA CountEntries ==
    ASSUME NEW fl \in Seq(CallType), fl # <<>>, InOrder(fl),
           \A i \in 1..Len(fl) : fl[i].size <= MaxEntries
    PROVE  Cardinality(EntriesOf(fl))
              = (fl[Len(fl)].index + fl[Len(fl)].size) - fl[1].index
<1> DEFINE n == Len(fl)
           a == fl[1].index
           b == fl[n].index + fl[n].size
           g == [e \in EntriesOf(fl) |-> fl[e[1]].index + e[2] - 1]
<1>1. n \in Nat \ {0}
  BY EmptySeq, LenProperties
<1>2. /\ \A i \in 1..n : fl[i].index \in Nat \ {0} /\ fl[i].size \in Nat
      /\ MaxEntries \in Nat
  <2>1. \A i \in 1..n : fl[i] \in CallType
    BY ElementOfSeq
  <2>2. MaxEntries \in Nat
    BY ReplicatorAssumption
  <2> QED BY <2>1, <2>2 DEF CallType
<1>3. /\ \A i \in 1..n - 1 : fl[i].index + fl[i].size = fl[i + 1].index
      /\ \A i, j \in 1..n : i < j => fl[i].index + fl[i].size <= fl[j].index
  BY DEF InOrder
<1>4. \A e \in EntriesOf(fl) : /\ e[1] \in 1..n /\ e[2] \in 1..MaxEntries
                               /\ e[2] <= fl[e[1]].size
  BY DEF EntriesOf
<1>5. \A i \in 1..n, j \in 1..MaxEntries : j <= fl[i].size => <<i, j>> \in EntriesOf(fl)
  BY DEF EntriesOf
<1>6. a \in Nat /\ b \in Nat /\ a <= b
  <2>1. n = 1 \/ 1 < n
    BY <1>1
  <2>2. CASE n = 1
    BY <1>2, <2>2
  <2>3. CASE 1 < n
    BY <1>1, <1>2, <1>3, <2>3
  <2> QED BY <2>1, <2>2, <2>3
<1>7. \A e \in EntriesOf(fl) : g[e] \in a..b - 1
  <2> SUFFICES ASSUME NEW e \in EntriesOf(fl) PROVE g[e] \in a..b - 1
    OBVIOUS
  <2> DEFINE i == e[1]
             j == e[2]
  <2>1. i \in 1..n /\ j \in 1..MaxEntries /\ j <= fl[i].size
    BY <1>4
  <2>2. g[e] = fl[i].index + j - 1
    OBVIOUS
  <2>3. fl[i].index \in Nat /\ fl[i].size \in Nat /\ j \in Nat /\ j >= 1
    BY <1>2, <2>1
  <2>4. a <= fl[i].index
    <3>1. i = 1 \/ 1 < i
      BY <2>1
    <3>2. fl[1].size \in Nat /\ 1 \in 1..n
      BY <1>1, <1>2
    <3> QED BY <1>3, <1>6, <2>1, <2>3, <3>1, <3>2
  <2>5. fl[i].index + fl[i].size <= b
    <3>1. i = n \/ i < n
      BY <2>1, <1>1
    <3>2. fl[n].size \in Nat /\ fl[n].index \in Nat /\ n \in 1..n
      BY <1>1, <1>2
    <3>3. CASE i < n
      <4>1. fl[i].index + fl[i].size <= fl[n].index
        BY <1>3, <2>1, <3>2, <3>3
      <4> HIDE DEF i, n
      <4> QED BY <2>3, <3>2, <4>1, NotAfter
    <3>4. CASE i = n
      BY <2>3, <3>2, <3>4
    <3> QED BY <3>1, <3>3, <3>4
  <2> HIDE DEF g, i, j, a, b
  <2> QED BY <1>6, <2>1, <2>2, <2>3, <2>4, <2>5
<1>8. \A d, e \in EntriesOf(fl) : g[d] = g[e] => d = e
  <2> SUFFICES ASSUME NEW d \in EntriesOf(fl), NEW e \in EntriesOf(fl), g[d] = g[e]
               PROVE  d = e
    OBVIOUS
  <2>1. /\ d[1] \in 1..n /\ d[2] \in 1..MaxEntries /\ d[2] <= fl[d[1]].size
        /\ e[1] \in 1..n /\ e[2] \in 1..MaxEntries /\ e[2] <= fl[e[1]].size
    BY <1>4
  <2>2. /\ d = <<d[1], d[2]>> /\ e = <<e[1], e[2]>>
    BY DEF EntriesOf
  <2>3. fl[d[1]].index + d[2] - 1 = fl[e[1]].index + e[2] - 1
    OBVIOUS
  <2>4. /\ fl[d[1]].index \in Nat /\ fl[d[1]].size \in Nat
        /\ fl[e[1]].index \in Nat /\ fl[e[1]].size \in Nat
    BY <1>2, <2>1
  <2>5. ~(d[1] < e[1])
    <3> SUFFICES ASSUME d[1] < e[1] PROVE FALSE
      OBVIOUS
    <3>1. fl[d[1]].index + fl[d[1]].size <= fl[e[1]].index
      BY <1>3, <2>1
    <3>2. d[2] \in Nat /\ e[2] \in Nat /\ 1 <= e[2]
      BY <1>2, <2>1
    <3> QED BY <2>1, <2>3, <2>4, <3>1, <3>2, NotTheSame
  <2>6. ~(e[1] < d[1])
    <3> SUFFICES ASSUME e[1] < d[1] PROVE FALSE
      OBVIOUS
    <3>1. fl[e[1]].index + fl[e[1]].size <= fl[d[1]].index
      BY <1>3, <2>1
    <3>2. e[2] \in Nat /\ d[2] \in Nat /\ 1 <= d[2]
      BY <1>2, <2>1
    <3> QED BY <2>1, <2>3, <2>4, <3>1, <3>2, NotTheSame
  <2>7. d[1] = e[1]
    BY <2>1, <2>5, <2>6
  <2>8. d[2] = e[2]
    BY <2>1, <2>3, <2>4, <2>7
  <2> QED BY <2>2, <2>7, <2>8
<1>9. \A x \in a..b - 1 : \E e \in EntriesOf(fl) : g[e] = x
  <2> SUFFICES ASSUME NEW x \in a..b - 1 PROVE \E e \in EntriesOf(fl) : g[e] = x
    OBVIOUS
  <2> DEFINE S == {i \in 1..n : fl[i].index <= x}
  <2>1. x \in Nat /\ a <= x /\ x < b
    BY <1>6
  <2>2. 1 \in S
    BY <1>1, <2>1
  <2>3. S \in SUBSET Nat /\ \A i \in S : i <= n
    BY <1>1
  <2>4. PICK i \in S : \A k \in S : k <= i
    <3> HIDE DEF S
    <3> QED BY <1>1, <2>2, <2>3, GreatestOf
  <2>5. i \in 1..n /\ fl[i].index <= x /\ fl[i].index \in Nat /\ fl[i].size \in Nat
    BY <1>2, <2>4
  <2>6. x < fl[i].index + fl[i].size
    <3>1. CASE i = n
      BY <2>1, <3>1
    <3>2. CASE i < n
      <4>1. i + 1 \in 1..n /\ i \in 1..n - 1
        BY <1>1, <2>5, <3>2
      <4>2. i + 1 \notin S
        BY <2>4, <2>5
      <4>3. ~(fl[i + 1].index <= x) /\ fl[i + 1].index \in Nat
        BY <1>2, <4>1, <4>2
      <4>4. fl[i].index + fl[i].size = fl[i + 1].index
        BY <1>3, <4>1
      <4> QED BY <2>1, <4>3, <4>4
    <3> QED BY <1>1, <2>5, <3>1, <3>2
  <2> DEFINE j == x - fl[i].index + 1
  <2>7. j \in Nat /\ j >= 1 /\ j <= fl[i].size
    BY <2>1, <2>5, <2>6
  <2>8. fl[i].size <= MaxEntries
    BY <2>5
  <2>9. j \in 1..MaxEntries
    <3> HIDE DEF j
    <3> QED BY <1>2, <2>5, <2>7, <2>8
  <2>10. <<i, j>> \in EntriesOf(fl)
    <3> HIDE DEF j
    <3> QED BY <1>5, <2>5, <2>7, <2>9
  <2>11. g[<<i, j>>] = fl[i].index + j - 1
    BY <2>10
  <2>12. fl[i].index + j - 1 = x
    BY <2>1, <2>5
  <2> QED BY <2>10, <2>11, <2>12
<1>10. g \in Bijection(EntriesOf(fl), a..b - 1)
  <2> HIDE DEF a, b
  <2>1. DOMAIN g = EntriesOf(fl) /\ g = [e \in EntriesOf(fl) |-> g[e]]
    OBVIOUS
  <2> HIDE DEF g
  <2>2. g \in [EntriesOf(fl) -> a..b - 1]
    BY <1>7, <2>1
  <2>3. g \in Injection(EntriesOf(fl), a..b - 1)
    BY <1>8, <2>2, Fun_IsInj
  <2>4. g \in Surjection(EntriesOf(fl), a..b - 1)
    BY <1>9, <2>2, Fun_IsSurj
  <2> QED BY <2>3, <2>4 DEF Bijection
<1>11. IsFiniteSet(a..b - 1) /\ Cardinality(a..b - 1) = b - a
  <2> HIDE DEF a, b
  <2>1. IsFiniteSet(a..b - 1)
    BY <1>6, FS_Interval
  <2>2. Cardinality(a..b - 1) = IF a > b - 1 THEN 0 ELSE (b - 1) - a + 1
    BY <1>6, FS_Interval
  <2> QED BY <1>6, <2>1, <2>2
<1>12. Cardinality(EntriesOf(fl)) = Cardinality(a..b - 1)
  <2> HIDE DEF a, b, g
  <2>1. ExistsBijection(a..b - 1, EntriesOf(fl))
    BY <1>10, Fun_ExistsBijSymmetric DEF ExistsBijection
  <2> QED BY <1>11, <2>1, FS_Bijection
<1> QED BY <1>11, <1>12

-----------------------------------------------------------------------------
(* The calls in flight, when an answer ends the first of them.             *)

LEMMA PartIsLess ==
    ASSUME NEW e \in Nat, NEW z \in Nat, NEW a \in Nat, NEW b \in Nat, NEW s \in Nat,
           a = e - z, a <= b, b + s <= e
    PROVE  s <= z
OBVIOUS

\* Every call in flight is within the indexes in flight.
LEMMA FlightBounds ==
    ASSUME NEW x \in ReplicatorType, FlyingOK(x), NEW i \in 1..Len(x.flying)
    PROVE  /\ x.flying[i] \in CallType /\ MinFlying(x) \in Nat
           /\ MinFlying(x) <= x.flying[i].index
           /\ x.flying[i].index + x.flying[i].size <= x.next
           /\ x.flying[i].size <= MaxEntries
<1> DEFINE fl == x.flying
           n == Len(fl)
<1>1. fl \in Seq(CallType) /\ x.next \in Nat /\ x.size \in Nat
  BY DEF ReplicatorType
<1>2. n \in Nat /\ n >= 1 /\ \A j \in 1..n : fl[j] \in CallType
  BY <1>1, LenProperties, ElementOfSeq
<1>3. /\ fl[i].index \in Nat /\ fl[i].size \in Nat
      /\ fl[1].index \in Nat /\ fl[1].size \in Nat
      /\ fl[n].index \in Nat /\ fl[n].size \in Nat
  BY <1>2 DEF CallType
<1>4. /\ fl[1].index = x.next - x.size
      /\ fl[n].index + fl[n].size = x.next
      /\ \A j, k \in 1..n : j < k => fl[j].index + fl[j].size <= fl[k].index
      /\ x.size <= MaxEntries
  <2>1. fl # <<>>
    BY <1>2, <1>1, EmptySeq, LenProperties
  <2> QED BY <2>1 DEF FlyingOK, InOrder, MinFlying
<1>5. fl[1].index <= fl[i].index
  <2>1. i = 1 \/ 1 < i
    OBVIOUS
  <2>2. CASE 1 < i
    <3>1. fl[1].index + fl[1].size <= fl[i].index
      BY <1>2, <1>4, <2>2
    <3> HIDE DEF fl
    <3> QED BY <1>3, <3>1
  <2>3. CASE i = 1
    BY <1>3, <2>3
  <2> QED BY <2>1, <2>2, <2>3
<1>6. fl[i].index + fl[i].size <= fl[n].index + fl[n].size
  <2>1. i = n \/ i < n
    BY <1>2
  <2>2. CASE i < n
    <3>1. fl[i].index + fl[i].size <= fl[n].index
      BY <1>2, <1>4, <2>2
    <3> HIDE DEF fl, n
    <3> QED BY <1>3, <3>1, NotAfter
  <2>3. CASE i = n
    BY <1>3, <2>3
  <2> QED BY <2>1, <2>2, <2>3
<1>7. MaxEntries \in Nat
  BY ReplicatorAssumption
<1> HIDE DEF fl, n
<1>8. MinFlying(x) = fl[1].index /\ fl[i].index + fl[i].size <= x.next
  BY <1>4, <1>6 DEF MinFlying
<1>9. fl[i].size <= x.size
  <2>1. fl[1].index = x.next - x.size
    BY <1>4
  <2>2. fl[i].index + fl[i].size <= x.next
    BY <1>8
  <2>3. /\ fl[i].index \in Nat /\ fl[i].size \in Nat /\ fl[1].index \in Nat
        /\ x.next \in Nat /\ x.size \in Nat
    BY <1>1, <1>3
  <2> DEFINE a == fl[1].index
             b == fl[i].index
             z == fl[i].size
  <2>4. a \in Nat /\ b \in Nat /\ z \in Nat /\ a = x.next - x.size /\ a <= b /\ b + z <= x.next
    BY <1>5, <2>1, <2>2, <2>3
  <2> HIDE DEF a, b, z
  <2>5. z <= x.size
    BY <2>3, <2>4
  <2> QED BY <2>5 DEF z
<1> QED
  <2>1. fl[i].size <= MaxEntries
    BY <1>1, <1>3, <1>4, <1>7, <1>9
  <2> QED BY <1>2, <1>3, <1>5, <1>8, <2>1 DEF fl, n

\* The calls up to the one that was answered are popped, no others.
LEMMA StillFlyingIs ==
    ASSUME r \in ReplicatorType, FlyingOK(r), NEW m, NEW k \in 1..Len(r.flying),
           m.prev + 1 = r.flying[k].index
    PROVE  StillFlying(m) = SubSeq(r.flying, k + 1, Len(r.flying))
<1> DEFINE fl == r.flying
           n == Len(fl)
           P(p) == /\ \A i \in 1..p : fl[i].index <= m.prev + 1
                   /\ p < n => fl[p + 1].index > m.prev + 1
<1>1. fl \in Seq(CallType) /\ n \in Nat
  BY LenProperties DEF ReplicatorType
<1>2. \A i \in 1..n : fl[i].index \in Nat /\ fl[i].size \in Nat
  <2>1. \A i \in 1..n : fl[i] \in CallType
    BY <1>1, ElementOfSeq
  <2> QED BY <2>1 DEF CallType
<1>3. \A i, j \in 1..n : i < j => fl[i].index < fl[j].index
  <2> SUFFICES ASSUME NEW i \in 1..n, NEW j \in 1..n, i < j
               PROVE  fl[i].index < fl[j].index
    OBVIOUS
  <2>1. n > 1
    BY <1>1
  <2>2. fl[i].size > 0 /\ fl[i].index + fl[i].size <= fl[j].index
    BY <2>1 DEF FlyingOK, InOrder
  <2>3. fl[i].index \in Nat /\ fl[i].size \in Nat /\ fl[j].index \in Nat
    BY <1>2
  <2> HIDE DEF fl
  <2> QED BY <2>2, <2>3
<1>4. m.prev + 1 = fl[k].index /\ k \in 1..n
  OBVIOUS
<1>5. k \in 0..n /\ P(k)
  <2>1. ASSUME NEW i \in 1..k PROVE fl[i].index <= fl[k].index
    <3>1. i = k \/ i < k
      OBVIOUS
    <3>2. i \in 1..n /\ fl[i].index \in Nat /\ fl[k].index \in Nat
      BY <1>1, <1>2
    <3> HIDE DEF fl, n
    <3> QED BY <1>3, <1>4, <3>1, <3>2
  <2>2. ASSUME k < n PROVE fl[k + 1].index > fl[k].index
    <3>1. k + 1 \in 1..n /\ k < k + 1
      BY <1>1, <1>4, <2>2
    <3>2. fl[k + 1].index \in Nat /\ fl[k].index \in Nat
      BY <1>2, <1>4, <3>1
    <3> HIDE DEF fl, n
    <3> QED BY <1>3, <1>4, <3>1, <3>2
  <2> HIDE DEF fl, n
  <2> QED BY <1>1, <1>4, <2>1, <2>2
<1>6. ASSUME NEW p \in 0..n, P(p) PROVE p = k
  <2>1. ~(p < k)
    <3> SUFFICES ASSUME p < k PROVE FALSE
      OBVIOUS
    <3>1. p + 1 \in 1..n /\ p < n /\ (p + 1 = k \/ p + 1 < k)
      BY <1>1, <1>4
    <3>2. fl[p + 1].index > fl[k].index
      BY <1>4, <1>6, <3>1
    <3>3. fl[p + 1].index \in Nat /\ fl[k].index \in Nat
      BY <1>2, <1>4, <3>1
    <3> HIDE DEF fl, n, P
    <3> QED BY <1>3, <1>4, <3>1, <3>2, <3>3
  <2>2. ~(k < p)
    <3> SUFFICES ASSUME k < p PROVE FALSE
      OBVIOUS
    <3>1. p \in 1..p /\ p \in 1..n
      BY <1>1, <1>4
    <3>2. fl[p].index <= fl[k].index
      BY <1>4, <1>6, <3>1
    <3>3. fl[p].index \in Nat /\ fl[k].index \in Nat
      BY <1>2, <1>4, <3>1
    <3> HIDE DEF fl, n, P
    <3> QED BY <1>3, <1>4, <3>1, <3>2, <3>3
  <2> HIDE DEF fl, n, P
  <2> QED BY <1>1, <1>4, <2>1, <2>2
<1>7. Popped(m) = CHOOSE p \in 0..n : P(p)
  BY DEF Popped
<1>8. Popped(m) = k
  <2> HIDE DEF P, fl, n
  <2> QED BY <1>5, <1>6, <1>7
<1> QED BY <1>8 DEF StillFlying

\* What an answered call leaves in flight is in order again, from the end of the
\* entries that it carried.
LEMMA PoppedFlight ==
    ASSUME r \in ReplicatorType, FlyingOK(r), NEW m, NEW k \in 1..Len(r.flying),
           m.prev + 1 = r.flying[k].index, m.n = r.flying[k].size, m.prev \in Nat,
           NEW x \in ReplicatorType, x.flying = StillFlying(m), x.next = r.next,
           x.size = Cardinality(EntriesOf(StillFlying(m)))
    PROVE  /\ FlyingOK(x) /\ ~HasProbe(x)
           /\ MinFlying(x) = m.prev + 1 + m.n
           /\ \A i \in 1..Len(x.flying) :
                 i + k \in (k + 1)..Len(r.flying) /\ x.flying[i] = r.flying[i + k]
<1> DEFINE fl == r.flying
           n == Len(fl)
           q == SubSeq(fl, k + 1, n)
<1>1. fl \in Seq(CallType) /\ n \in Nat /\ r.next \in Nat /\ r.size \in Nat
  BY LenProperties DEF ReplicatorType
<1>2. x.flying = q
  BY StillFlyingIs
<1>3. q \in Seq(CallType) /\ Len(q) = n - k /\ \A i \in 1..n - k : q[i] = fl[i + k]
  <2>1. k + 1 \in 1..n + 1 /\ n \in k..n
    BY <1>1
  <2>2. q = [i \in 1..n - k |-> fl[i + k]]
    BY <1>1 DEF SubSeq
  <2>3. n - k \in Nat
    BY <1>1
  <2>4. \A i \in 1..n - k : fl[i + k] \in CallType
    <3> SUFFICES ASSUME NEW i \in 1..n - k PROVE fl[i + k] \in CallType
      OBVIOUS
    <3>1. i + k \in 1..n
      BY <1>1
    <3> QED BY <1>1, <3>1, ElementOfSeq
  <2> HIDE DEF q, fl, n
  <2>5. q \in [1..n - k -> CallType]
    BY <2>2, <2>4
  <2>6. q \in Seq(CallType)
    BY <2>3, <2>5, SeqDef
  <2>7. Len(q) = n - k
    BY <2>3, <2>5, LenProperties, <2>6
  <2> QED BY <2>2, <2>6, <2>7
<1>4. \A i \in 1..Len(q) : i + k \in (k + 1)..n /\ i + k \in 1..n /\ q[i] = fl[i + k]
  <2> SUFFICES ASSUME NEW i \in 1..Len(q)
               PROVE  i + k \in (k + 1)..n /\ i + k \in 1..n /\ q[i] = fl[i + k]
    OBVIOUS
  <2>1. k \in Nat /\ n \in Nat /\ k <= n /\ Len(q) = n - k
    BY <1>1, <1>3
  <2> HIDE DEF q, fl, n
  <2>2. i \in 1..n - k
    BY <2>1
  <2>3. i + k \in (k + 1)..n /\ i + k \in 1..n
    BY <2>1, <2>2
  <2> QED BY <1>3, <2>2, <2>3
<1>5. \A i \in 1..n : /\ fl[i].index \in Nat /\ fl[i].size \in Nat
                      /\ MinFlying(r) <= fl[i].index
                      /\ fl[i].index + fl[i].size <= r.next
                      /\ fl[i].size <= MaxEntries
  BY FlightBounds DEF CallType
<1>6. /\ \A i \in 1..n - 1 : fl[i].index + fl[i].size = fl[i + 1].index
      /\ \A i, j \in 1..n : i < j => fl[i].index + fl[i].size <= fl[j].index
      /\ n > 1 => \A i \in 1..n : fl[i].size > 0
      /\ fl[n].index + fl[n].size = r.next
      /\ n <= Parallel /\ r.size <= MaxEntries
  <2>1. fl # <<>>
    BY <1>1, EmptySeq, LenProperties
  <2> QED BY <2>1 DEF FlyingOK, InOrder
<1> HIDE DEF q
<1>7. InOrder(q)
  <2>1. ASSUME NEW i \in 1..Len(q) - 1 PROVE q[i].index + q[i].size = q[i + 1].index
    <3>1. i \in 1..Len(q) /\ i + 1 \in 1..Len(q) /\ i + k \in 1..n - 1
      <4>1. k \in Nat /\ k <= n /\ Len(q) = n - k /\ i \in Nat /\ 1 <= i /\ i <= n - k - 1
        BY <1>1, <1>3
      <4> DEFINE w == Len(q)
      <4>2. w \in Nat /\ w = n - k /\ n \in Nat
        BY <1>1, <4>1
      <4> HIDE DEF n, fl, w
      <4>3. i \in 1..w /\ i + 1 \in 1..w
        BY <4>1, <4>2
      <4>4. i + k \in 1..n - 1
        BY <4>1, <4>2
      <4> QED BY <4>3, <4>4 DEF w
    <3>2. q[i] = fl[i + k] /\ q[i + 1] = fl[(i + k) + 1]
      <4>1. (i + 1) + k = (i + k) + 1
        BY <3>1
      <4> QED BY <1>4, <3>1, <4>1
    <3> QED BY <1>6, <3>1, <3>2
  <2>2. ASSUME NEW i \in 1..Len(q), NEW j \in 1..Len(q), i < j
        PROVE  q[i].index + q[i].size <= q[j].index
    <3>1. i + k \in 1..n /\ j + k \in 1..n /\ i + k < j + k
      BY <1>1, <1>3, <2>2
    <3> QED BY <1>4, <1>6, <3>1
  <2>3. ASSUME NEW i \in 1..Len(q) PROVE q[i].size > 0
    <3>1. i + k \in 1..n /\ n > 1
      BY <1>1, <1>3
    <3> QED BY <1>4, <1>6, <3>1
  <2> QED BY <2>1, <2>2, <2>3 DEF InOrder
<1>8. \A i \in 1..Len(q) : q[i].size > 0
  <2> SUFFICES ASSUME NEW i \in 1..Len(q) PROVE q[i].size > 0
    OBVIOUS
  <2>1. i + k \in 1..n /\ n > 1
    BY <1>1, <1>3
  <2> QED BY <1>4, <1>6, <2>1
<1>9. MaxEntries \in Nat /\ Parallel \in Nat
  BY ReplicatorAssumption
<1>10. CASE k = n
  <2>1. q = <<>>
    BY <1>1, <1>3, <1>10, EmptySeq, LenProperties
  <2>2. EntriesOf(q) = {}
    BY <2>1 DEF EntriesOf
  <2>3. x.size = 0
    BY <1>2, <2>2, FS_EmptySet
  <2>4. x.next = m.prev + 1 + m.n
    BY <1>6, <1>10
  <2>5. MinFlying(x) = x.next /\ x.next \in Nat /\ x.next >= 1
    <3>1. x.next \in Nat \ {0}
      BY DEF ReplicatorType
    <3> QED BY <2>3, <3>1 DEF MinFlying
  <2>6. Len(q) = 0
    BY <2>1
  <2>7. FlyingOK(x)
    BY <1>2, <1>7, <1>9, <2>1, <2>3, <2>5, <2>6 DEF FlyingOK
  <2> QED BY <1>2, <1>4, <1>8, <2>4, <2>5, <2>7 DEF HasProbe
<1>11. CASE k < n
  <2>1. q # <<>> /\ Len(q) \in Nat /\ Len(q) >= 1
    BY <1>1, <1>3, <1>11
  <2>2. \A i \in 1..Len(q) : q[i].size <= MaxEntries
    BY <1>4, <1>5
  <2>3. Cardinality(EntriesOf(q)) = (q[Len(q)].index + q[Len(q)].size) - q[1].index
    BY <1>3, <1>7, <2>1, <2>2, CountEntries
  <2>4. q[Len(q)] = fl[n] /\ q[1] = fl[k + 1]
    <3>1. Len(q) \in 1..Len(q) /\ 1 \in 1..Len(q) /\ Len(q) + k = n /\ 1 + k = k + 1
      BY <1>1, <1>3, <2>1
    <3> QED BY <1>4, <3>1
  <2>5. /\ fl[k].index + fl[k].size = fl[k + 1].index
        /\ fl[k + 1].index \in Nat /\ MinFlying(r) <= fl[k + 1].index
    <3>1. k \in 1..n - 1 /\ k + 1 \in 1..n
      BY <1>1, <1>11
    <3> QED BY <1>5, <1>6, <3>1
  <2>6. x.size = r.next - fl[k + 1].index
    BY <1>2, <1>6, <2>3, <2>4
  <2>7. MinFlying(x) = fl[k + 1].index
    BY <1>1, <2>5, <2>6 DEF MinFlying
  <2>8. MinFlying(x) = m.prev + 1 + m.n
    BY <2>5, <2>7
  <2>9. MinFlying(r) \in Nat /\ MinFlying(r) >= 1 /\ MinFlying(r) = r.next - r.size
    <3>1. MinFlying(r) \in Int /\ MinFlying(r) = r.next - r.size
      BY <1>1 DEF MinFlying
    <3> QED BY <3>1 DEF FlyingOK
  <2>10. x.size <= MaxEntries
    <3> HIDE DEF fl
    <3>1. x.size <= r.size
      BY <1>1, <2>5, <2>6, <2>9
    <3> QED BY <1>1, <1>6, <1>9, <2>5, <2>6, <3>1
  <2>11. MinFlying(x) >= 1
    <3> HIDE DEF fl
    <3> QED BY <2>5, <2>7, <2>9
  <2>12. Len(q) <= Parallel
    <3> HIDE DEF fl, n
    <3> QED BY <1>1, <1>3, <1>6, <1>9, <2>1
  <2>13. /\ q[1].index = MinFlying(x)
         /\ q[Len(q)].index + q[Len(q)].size = x.next
    BY <1>6, <2>4, <2>7
  <2>14. FlyingOK(x)
    BY <1>2, <1>7, <2>1, <2>10, <2>11, <2>12, <2>13 DEF FlyingOK
  <2>15. ~HasProbe(x)
    <3> SUFFICES ASSUME NEW i \in 1..Len(q), q[i].size = 0 PROVE FALSE
      BY <1>2 DEF HasProbe
    <3> QED BY <1>8
  <2> QED BY <1>2, <1>4, <2>8, <2>14, <2>15
<1> QED BY <1>1, <1>10, <1>11

-----------------------------------------------------------------------------
(* The methods of the replicator, which work under its lock.               *)

Idle(x) == x.timers + x.resumes = 0 /\ ~x.reader

\* A replicator in good order, whatever calls it has.
Fit(x) ==
    /\ x \in ReplicatorType /\ IsFiniteSet(x.waiters)
    /\ FlyingOK(x) /\ ModeOK(x) /\ log.last \in Nat /\ x.next <= log.last + 1

\* What a method that sends leaves alone.
Frame(y, x) ==
    /\ y.succeeded = x.succeeded /\ y.change = x.change /\ y.readonly = x.readonly
    /\ MinFlying(y) = MinFlying(x)

\* A method has turned x into s.x and sent s.out, beside the calls C.
SentOK(s, x, C) ==
    /\ Fit(s.x) /\ CallsOK(s.x, C \union s.out) /\ s.out \subseteq RpcType
    /\ \A m \in s.out : /\ m.at = "sent" /\ m.ok = "none"
                        /\ m.prev + m.n <= log.last
                        /\ m.n > 0 => x.succeeded /\ m.op # "install"
    /\ Frame(s.x, x)
    /\ Quiet(s.x) \/ x.succeeded

\* When there are messages that a method may be called with.
Env(C) == TypeInv /\ BoundInv /\ CanSend /\ C \subseteq rpcs

LEMMA EnvFacts ==
    ASSUME NEW C, Env(C)
    PROVE  /\ log.first \in Nat \ {0} /\ log.last \in Nat /\ log.first <= log.last + 1
           /\ FreeId \in Ids /\ \A m \in C : m.id # FreeId
           /\ MaxEntries \in Nat \ {0} /\ Parallel \in Nat \ {0}
<1>1. FreeId \in Ids /\ \A m \in rpcs : m.id # FreeId
  BY FreeIdIsFree DEF Env
<1>2. log.first \in Nat \ {0} /\ log.last \in Nat /\ log.first <= log.last + 1
  BY DEF Env, TypeInv, BoundInv
<1>3. MaxEntries \in Nat \ {0} /\ Parallel \in Nat \ {0}
  BY ReplicatorAssumption
<1> QED BY <1>1, <1>2, <1>3 DEF Env

LEMMA EmptyFlight ==
    ASSUME NEW x \in ReplicatorType, x.flying = <<>>, x.size = 0
    PROVE  FlyingOK(x) /\ MinFlying(x) = x.next /\ ~HasProbe(x)
<1>1. x.next \in Nat /\ x.next >= 1
  BY DEF ReplicatorType
<1>2. MinFlying(x) = x.next
  BY <1>1 DEF MinFlying
<1>3. Len(x.flying) = 0
  OBVIOUS
<1>4. MaxEntries \in Nat /\ Parallel \in Nat
  BY ReplicatorAssumption
<1>5. InOrder(x.flying)
  BY <1>3 DEF InOrder
<1> QED BY <1>1, <1>2, <1>3, <1>4, <1>5 DEF FlyingOK, HasProbe

LEMMA FitFacts ==
    ASSUME NEW x, Fit(x)
    PROVE  /\ x.next \in Nat \ {0} /\ x.size \in Nat /\ x.size <= MaxEntries
           /\ MinFlying(x) \in Nat \ {0} /\ MinFlying(x) <= x.next
           /\ x.flying \in Seq(CallType) /\ Len(x.flying) \in Nat
           /\ x.timers \in Nat /\ x.resumes \in Nat /\ x.woken \in Nat
<1>1. /\ x.next \in Nat \ {0} /\ x.size \in Nat /\ x.flying \in Seq(CallType)
      /\ x.timers \in Nat /\ x.resumes \in Nat /\ x.woken \in Nat
  BY DEF Fit, ReplicatorType
<1>2. MinFlying(x) = x.next - x.size /\ MinFlying(x) >= 1 /\ x.size <= MaxEntries
  BY DEF MinFlying, Fit, FlyingOK
<1>3. MinFlying(x) \in Nat \ {0} /\ MinFlying(x) <= x.next
  BY <1>1, <1>2
<1> QED BY <1>1, <1>2, <1>3, LenProperties

\* _reset_next_index gives up all calls in flight.
LEMMA ResetFits ==
    ASSUME NEW x, Fit(x), Idle(x), NEW C, CallsOK(x, C)
    PROVE  /\ Fit(Reset(x)) /\ Idle(Reset(x)) /\ CallsOK(Reset(x), C)
           /\ Reset(x).flying = <<>> /\ Reset(x).size = 0 /\ Quiet(Reset(x))
           /\ Frame(Reset(x), x) /\ Reset(x).next = MinFlying(x)
<1> DEFINE y == Reset(x)
<1>1. /\ x \in ReplicatorType /\ IsFiniteSet(x.waiters) /\ x.next <= log.last + 1
      /\ MinFlying(x) \in Nat \ {0} /\ MinFlying(x) <= x.next
  BY FitFacts DEF Fit
<1>2. y \in ReplicatorType
  <2>1. <<>> \in Seq(CallType)
    OBVIOUS
  <2>2. x.waiters \ {x.wait} \in SUBSET Nat
    BY <1>1 DEF ReplicatorType
  <2> HIDE DEF CallType
  <2> QED BY <1>1, <2>1, <2>2 DEF Reset, ReplicatorType
<1>3. /\ y.flying = <<>> /\ y.size = 0 /\ y.next = MinFlying(x) /\ y.canceled
      /\ y.reader = x.reader /\ y.timers = x.timers /\ y.resumes = x.resumes
      /\ y.succeeded = x.succeeded /\ y.change = x.change /\ y.readonly = x.readonly
      /\ y.waiters = x.waiters \ {x.wait}
  BY <1>1 DEF Reset, ReplicatorType
<1>4. IsFiniteSet(y.waiters)
  BY <1>1, <1>3, FS_Subset
<1> HIDE DEF y
<1>5. FlyingOK(y) /\ MinFlying(y) = y.next
  BY <1>2, <1>3, EmptyFlight
<1>6. Quiet(y) /\ Idle(y)
  BY <1>3 DEF Quiet, Idle
<1>7. y.next <= log.last + 1
  <2>1. x.next \in Nat /\ log.last \in Nat
    BY FitFacts DEF Fit
  <2>2. y.next \in Nat /\ y.next <= x.next
    BY <1>1, <1>3
  <2> QED BY <1>1, <2>1, <2>2
<1>8. ModeOK(y)
  <2>1. x.timers + x.resumes = 0
    BY DEF Idle
  <2> QED BY <1>3, <1>6, <2>1 DEF ModeOK, Idle
<1>9. CallsOK(y, C)
  BY <1>3 DEF CallsOK
<1>10. Frame(y, x)
  BY <1>3, <1>5 DEF Frame
<1> QED BY <1>2, <1>3, <1>4, <1>5, <1>6, <1>7, <1>8, <1>9, <1>10, FitFacts DEF Fit, y

\* _block starts its timer.
LEMMA BlockFits ==
    ASSUME NEW x, Fit(x), Idle(x), x.flying = <<>>, x.size = 0, Quiet(x),
           NEW C, CallsOK(x, C)
    PROVE  Fit(Block(x)) /\ CallsOK(Block(x), C) /\ Frame(Block(x), x) /\ Quiet(Block(x))
<1> DEFINE y == Block(x)
<1>1. /\ x \in ReplicatorType /\ IsFiniteSet(x.waiters) /\ x.next <= log.last + 1
      /\ x.timers \in Nat /\ x.resumes \in Nat
  BY FitFacts DEF Fit
<1>2. y \in ReplicatorType
  <2>1. CASE x.st = "BLOCKING"
    BY <1>1, <2>1 DEF Block
  <2>2. CASE x.st # "BLOCKING"
    <3> DEFINE n == x.timers + 1
    <3>1. n \in Nat
      BY <1>1
    <3>2. y = [x EXCEPT !.st = "BLOCKING", !.timers = n]
      BY <2>2 DEF Block
    <3> HIDE DEF n, y
    <3> QED BY <1>1, <3>1, <3>2 DEF ReplicatorType
  <2> QED BY <2>1, <2>2
<1>3. /\ y.flying = <<>> /\ y.size = 0 /\ y.next = x.next /\ y.canceled = x.canceled
      /\ y.reader = x.reader /\ y.resumes = x.resumes /\ y.woken = x.woken
      /\ y.succeeded = x.succeeded /\ y.change = x.change /\ y.readonly = x.readonly
      /\ y.waiters = x.waiters /\ (y.timers = x.timers \/ y.timers = x.timers + 1)
  BY <1>1 DEF Block, ReplicatorType
<1> HIDE DEF y
<1>4. FlyingOK(y) /\ MinFlying(y) = y.next
  BY <1>2, <1>3, EmptyFlight
<1>5. MinFlying(x) = x.next
  BY <1>1, EmptyFlight
<1>6. Quiet(y)
  BY <1>3 DEF Quiet
<1>7. x.timers = 0 /\ x.resumes = 0 /\ ~x.reader
  BY <1>1 DEF Idle
<1>8. ModeOK(y)
  <2>1. y.timers + y.resumes \in {0, 1}
    BY <1>3, <1>7
  <2> QED BY <1>3, <1>6, <1>7, <2>1 DEF ModeOK
<1>9. CallsOK(y, C)
  BY <1>3 DEF CallsOK
<1>10. Frame(y, x)
  BY <1>3, <1>4, <1>5 DEF Frame
<1> QED BY <1>1, <1>2, <1>3, <1>4, <1>6, <1>8, <1>9, <1>10, FitFacts DEF Fit, y

\* _install_snapshot sends one request, and only one is under way.
LEMMA InstallFits ==
    ASSUME NEW x, Fit(x), Idle(x), x.flying = <<>>, x.size = 0, Quiet(x),
           NEW C, CallsOK(x, C), Env(C), NEW t \in BOOLEAN
    PROVE  SentOK(InstallSnapshot(x, t), x, C)
<1>1. ~x.reader /\ x.timers + x.resumes = 0
  BY DEF Idle
<1>2. CASE t
  <2>1. InstallSnapshot(x, t) = [x |-> Block(x), out |-> {}]
    BY <1>1, <1>2 DEF InstallSnapshot
  <2>2. Fit(Block(x)) /\ CallsOK(Block(x), C) /\ Frame(Block(x), x) /\ Quiet(Block(x))
    BY BlockFits
  <2> QED BY <2>1, <2>2 DEF SentOK
<1>3. CASE ~t
  <2> DEFINE y == [x EXCEPT !.st = "INSTALLING_SNAPSHOT", !.reader = TRUE]
             m == Rpc(FreeId, "install", log.first - 1, 0)
  <2>1. InstallSnapshot(x, t) = [x |-> y, out |-> {m}]
    BY <1>1, <1>3 DEF InstallSnapshot
  <2>2. x \in ReplicatorType /\ IsFiniteSet(x.waiters) /\ x.next <= log.last + 1
    BY DEF Fit
  <2>3. y \in ReplicatorType
    BY <2>2 DEF ReplicatorType
  <2>4. /\ y.flying = <<>> /\ y.size = 0 /\ y.next = x.next /\ y.canceled = x.canceled
        /\ y.reader = TRUE /\ y.resumes = x.resumes /\ y.woken = x.woken
        /\ y.succeeded = x.succeeded /\ y.change = x.change /\ y.readonly = x.readonly
        /\ y.waiters = x.waiters /\ y.timers = x.timers
    BY <2>2 DEF ReplicatorType
  <2> HIDE DEF y
  <2>5. FlyingOK(y) /\ MinFlying(y) = y.next /\ MinFlying(x) = x.next
    BY <2>2, <2>3, <2>4, EmptyFlight
  <2>6. Quiet(y)
    BY <2>4 DEF Quiet
  <2>7. ModeOK(y)
    BY <1>1, <2>4, <2>6 DEF ModeOK
  <2>8. /\ FreeId \in Ids /\ \A c \in C : c.id # FreeId
        /\ log.first \in Nat \ {0} /\ log.last \in Nat /\ log.first <= log.last + 1
    BY EnvFacts
  <2>9. /\ m \in RpcType /\ m.at = "sent" /\ m.ok = "none" /\ m.n = 0 /\ m.id = FreeId
        /\ m.prev = log.first - 1
    <3>1. log.first - 1 \in Nat
      BY <2>8
    <3> QED BY <2>8, <3>1 DEF Rpc, RpcType
  <2> HIDE DEF m
  <2>10. m.prev + m.n <= log.last
    BY <2>8, <2>9
  <2>11. CallsOK(y, C \union {m})
    <3>1. \A c \in C : c.op # "install"
      BY <1>1 DEF CallsOK
    <3>2. Len(y.flying) = 0
      BY <2>4
    <3>3. \A c, d \in C \union {m} : c.id = d.id => c = d
      BY <2>8, <2>9 DEF CallsOK
    <3>4. \A c, d \in C \union {m} : c.op = "install" /\ d.op = "install" => c = d
      BY <3>1
    <3> QED BY <2>4, <3>2, <3>3, <3>4 DEF CallsOK
  <2>12. Frame(y, x) /\ Fit(y)
    BY <2>2, <2>3, <2>4, <2>5, <2>7 DEF Frame, Fit
  <2> QED BY <2>1, <2>6, <2>9, <2>10, <2>11, <2>12 DEF SentOK
<1> QED BY <1>2, <1>3

\* What two replicators that differ in what they send have in common.
Alike(y, x) ==
    /\ y.reader = x.reader /\ y.timers = x.timers /\ y.resumes = x.resumes
    /\ y.succeeded = x.succeeded /\ y.change = x.change /\ y.readonly = x.readonly

\* Another call is sent, behind those in flight.
MayAppend(x, n) ==
    /\ Fit(x) /\ Idle(x) /\ n \in Nat
    /\ Len(x.flying) < Parallel /\ x.size + n <= MaxEntries
    /\ x.next + n <= log.last + 1
    /\ n = 0 => x.flying = <<>> /\ Quiet(x)
    /\ n > 0 => ~HasProbe(x) /\ x.succeeded
Appended(y, x, n) ==
    /\ y \in ReplicatorType /\ Alike(y, x) /\ IsFiniteSet(y.waiters)
    /\ y.flying = Append(x.flying, [index |-> x.next, size |-> n, id |-> FreeId])
    /\ y.next = x.next + n /\ y.size = x.size + n
    /\ Quiet(x) => Quiet(y)
CallOf(x, n) == Rpc(FreeId, "append", x.next - 1, n)

LEMMA AppendCall ==
    ASSUME NEW x, NEW y, NEW n, MayAppend(x, n), Appended(y, x, n),
           NEW C, CallsOK(x, C), Env(C)
    PROVE  /\ Fit(y) /\ Idle(y) /\ CallsOK(y, C \union {CallOf(x, n)})
           /\ Frame(y, x) /\ (n > 0 => ~HasProbe(y))
           /\ CallOf(x, n) \in RpcType /\ CallOf(x, n).at = "sent"
           /\ CallOf(x, n).op = "append"
           /\ CallOf(x, n).ok = "none" /\ CallOf(x, n).n = n
           /\ CallOf(x, n).prev + CallOf(x, n).n <= log.last
<1>0. /\ Fit(x) /\ Idle(x) /\ n \in Nat
      /\ Len(x.flying) < Parallel /\ x.size + n <= MaxEntries
      /\ x.next + n <= log.last + 1
      /\ n = 0 => x.flying = <<>> /\ Quiet(x)
      /\ n > 0 => ~HasProbe(x) /\ x.succeeded
  BY DEF MayAppend
<1>00. /\ y \in ReplicatorType /\ Alike(y, x) /\ IsFiniteSet(y.waiters)
       /\ y.flying = Append(x.flying, [index |-> x.next, size |-> n, id |-> FreeId])
       /\ y.next = x.next + n /\ y.size = x.size + n
       /\ Quiet(x) => Quiet(y)
  BY DEF Appended
<1> DEFINE m == CallOf(x, n)
<1> DEFINE fl == x.flying
           k == Len(fl)
           c == [index |-> x.next, size |-> n, id |-> FreeId]
           q == Append(fl, c)
<1>1. /\ x.next \in Nat \ {0} /\ x.size \in Nat /\ x.size <= MaxEntries
      /\ MinFlying(x) \in Nat \ {0} /\ MinFlying(x) <= x.next
      /\ fl \in Seq(CallType) /\ k \in Nat /\ log.last \in Nat
      /\ x.next <= log.last + 1 /\ x.timers \in Nat /\ x.resumes \in Nat
  BY <1>0, FitFacts DEF Fit
<1>2. /\ FreeId \in Ids /\ \A e \in C : e.id # FreeId
      /\ MaxEntries \in Nat /\ Parallel \in Nat
  BY EnvFacts
<1>3. c \in CallType /\ c.index = x.next /\ c.size = n /\ c.id = FreeId
  BY <1>0, <1>1, <1>2 DEF CallType
<1> HIDE DEF c
<1>4. /\ q \in Seq(CallType) /\ Len(q) = k + 1 /\ q[k + 1] = c
      /\ \A i \in 1..k : q[i] = fl[i]
  BY <1>1, <1>3, AppendProperties
<1>5. y.flying = q
  BY <1>00 DEF c
<1>6. \A i \in 1..k : /\ fl[i].index \in Nat /\ fl[i].size \in Nat
                      /\ fl[i].index + fl[i].size <= x.next
  BY <1>0, <1>1, FlightBounds DEF Fit, CallType
<1>7. /\ \A i \in 1..k - 1 : fl[i].index + fl[i].size = fl[i + 1].index
      /\ \A i, j \in 1..k : i < j => fl[i].index + fl[i].size <= fl[j].index
      /\ k > 1 => \A i \in 1..k : fl[i].size > 0
      /\ k > 0 => fl[k].index + fl[k].size = x.next /\ fl[1].index = MinFlying(x)
      /\ k = 0 => x.size = 0
  <2>1. k > 0 => fl # <<>>
    OBVIOUS
  <2>2. k = 0 => fl = <<>>
    BY <1>1, EmptySeq, LenProperties
  <2> QED BY <1>0, <2>1, <2>2 DEF Fit, FlyingOK, InOrder
<1>8. MinFlying(y) = MinFlying(x)
  BY <1>0, <1>00, <1>1 DEF MinFlying
<1>9. n > 0 => \A i \in 1..k : fl[i].size > 0
  BY <1>0, <1>6 DEF HasProbe
<1>10. n = 0 => k = 0
  BY <1>0
<1> HIDE DEF fl, q
<1>11. n > 0 => \A i \in 1..Len(q) : q[i].size > 0
  <2> SUFFICES ASSUME n > 0, NEW i \in 1..k + 1 PROVE q[i].size > 0
    BY <1>4
  <2> QED BY <1>1, <1>3, <1>4, <1>9
<1>12. InOrder(q)
  <2>1. ASSUME NEW i \in 1..k PROVE q[i].index + q[i].size = q[i + 1].index
    <3>1. CASE i = k
      BY <1>1, <1>3, <1>4, <1>7, <3>1
    <3>2. CASE i < k
      <4>1. i \in 1..k - 1 /\ i + 1 \in 1..k
        BY <1>1, <3>2
      <4> QED BY <1>4, <1>7, <4>1
    <3> QED BY <1>1, <3>1, <3>2
  <2>2. ASSUME NEW i \in 1..k + 1, NEW j \in 1..k + 1, i < j
        PROVE  q[i].index + q[i].size <= q[j].index
    <3>1. i \in 1..k
      BY <1>1, <2>2
    <3>2. CASE j = k + 1
      BY <1>3, <1>4, <1>6, <3>1, <3>2
    <3>3. CASE j \in 1..k
      BY <1>4, <1>7, <2>2, <3>1, <3>3
    <3>4. j = k + 1 \/ j \in 1..k
      BY <1>1
    <3> QED BY <3>2, <3>3, <3>4
  <2>3. Len(q) > 1 => n > 0
    BY <1>0, <1>1, <1>4, <1>10
  <2>4. Len(q) - 1 = k
    BY <1>1, <1>4
  <2> QED BY <1>4, <1>11, <2>1, <2>2, <2>3, <2>4 DEF InOrder
<1>13. FlyingOK(y)
  <2>1. q # <<>> /\ 1 \in 1..k + 1
    BY <1>1, <1>4
  <2>2. q[Len(q)].index + q[Len(q)].size = y.next
    BY <1>00, <1>3, <1>4
  <2>3. q[1].index = MinFlying(x)
    <3>1. CASE k = 0
      <4>1. MinFlying(x) = x.next
        BY <1>1, <1>7, <3>1 DEF MinFlying
      <4> QED BY <1>3, <1>4, <3>1, <4>1
    <3>2. CASE k > 0
      <4>1. 1 \in 1..k
        BY <1>1, <3>2
      <4> QED BY <1>4, <1>7, <3>2, <4>1
    <3> QED BY <1>1, <3>1, <3>2
  <2>4. Len(q) <= Parallel
    BY <1>0, <1>1, <1>2, <1>4 DEF fl
  <2>5. y.size <= MaxEntries
    BY <1>0, <1>00
  <2>6. MinFlying(y) >= 1
    BY <1>1, <1>8
  <2> HIDE DEF k
  <2> QED BY <1>5, <1>8, <1>12, <2>1, <2>2, <2>3, <2>4, <2>5, <2>6 DEF FlyingOK
<1>14. Idle(y)
  BY <1>0, <1>00 DEF Idle, Alike
<1>15. ~HasProbe(y) \/ Quiet(y)
  BY <1>0, <1>00, <1>5, <1>11 DEF HasProbe
<1>16. ModeOK(y)
  BY <1>14, <1>15 DEF ModeOK, Idle
<1>17. /\ m \in RpcType /\ m.at = "sent" /\ m.ok = "none" /\ m.n = n /\ m.id = FreeId
       /\ m.prev = x.next - 1 /\ m.op = "append"
  <2>1. x.next - 1 \in Nat
    BY <1>1
  <2> QED BY <1>0, <1>2, <2>1 DEF Rpc, RpcType, CallOf
<1> HIDE DEF m
<1>18. m.prev + m.n <= log.last
  BY <1>0, <1>1, <1>17
<1>19. CallsOK(y, C \union {m})
  <2>1. ASSUME NEW i \in 1..k + 1
        PROVE  \E e \in C \union {m} :
                  /\ e.op = "append" /\ e.id = q[i].id
                  /\ e.prev + 1 = q[i].index /\ e.n = q[i].size
    <3>1. CASE i = k + 1
      <4>1. m.prev + 1 = x.next
        BY <1>1, <1>17
      <4> QED BY <1>3, <1>4, <1>17, <3>1, <4>1
    <3>2. CASE i \in 1..k
      <4>1. PICK e \in C : /\ e.op = "append" /\ e.id = fl[i].id
                           /\ e.prev + 1 = fl[i].index /\ e.n = fl[i].size
        BY <3>2 DEF CallsOK, fl
      <4> QED BY <1>4, <3>2, <4>1
    <3> QED BY <1>1, <3>1, <3>2
  <2>2. \A d, e \in C \union {m} : d.id = e.id => d = e
    BY <1>2, <1>17 DEF CallsOK
  <2>3. \A d, e \in C \union {m} : d.op = "install" /\ e.op = "install" => d = e
    BY <1>17 DEF CallsOK
  <2>4. \A e \in C \union {m} : e.op = "install" => y.reader
    BY <1>00, <1>17 DEF CallsOK, Alike
  <2> QED BY <1>4, <1>5, <2>1, <2>2, <2>3, <2>4 DEF CallsOK
<1>20. Fit(y)
  <2>1. y.next <= log.last + 1
    BY <1>0, <1>00
  <2> QED BY <1>00, <1>1, <1>13, <1>16, <2>1 DEF Fit
<1>21. Frame(y, x)
  BY <1>00, <1>8 DEF Frame, Alike
<1>22. n > 0 => ~HasProbe(y)
  BY <1>5, <1>11 DEF HasProbe
<1> QED BY <1>14, <1>17, <1>18, <1>19, <1>20, <1>21, <1>22 DEF m

\* A probe is sent, or a snapshot, when nothing is in flight.
LEMMA SendEmptyFits ==
    ASSUME NEW x, Fit(x), Idle(x), x.flying = <<>>, x.size = 0, Quiet(x),
           NEW C, CallsOK(x, C), Env(C), NEW t \in BOOLEAN
    PROVE  SentOK(SendEmpty(x, t), x, C)
<1>1. CASE Compacted(x)
  BY <1>1, InstallFits DEF SendEmpty
<1>2. CASE ~Compacted(x)
  <2> DEFINE c == [index |-> x.next, size |-> 0, id |-> FreeId]
             y == [x EXCEPT !.st = "APPENDING_ENTRIES", !.flying = Append(@, c)]
             m == Rpc(FreeId, "append", x.next - 1, 0)
  <2>1. SendEmpty(x, t) = [x |-> y, out |-> {m}]
    BY <1>2 DEF SendEmpty
  <2>2. x \in ReplicatorType /\ IsFiniteSet(x.waiters) /\ x.next <= log.last + 1
    BY DEF Fit
  <2>3. x.next \in Nat \ {0} /\ x.size \in Nat /\ x.flying \in Seq(CallType)
    BY FitFacts
  <2>4. FreeId \in Ids /\ MaxEntries \in Nat /\ Parallel \in Nat \ {0}
    BY EnvFacts
  <2>5. c \in CallType
    BY <2>3, <2>4 DEF CallType
  <2> HIDE DEF c
  <2>6. Append(x.flying, c) \in Seq(CallType)
    BY <2>3, <2>5, AppendProperties
  <2>7. y \in ReplicatorType
    <3> HIDE DEF CallType
    <3> QED BY <2>2, <2>6 DEF ReplicatorType
  <2>8. /\ Alike(y, x) /\ y.waiters = x.waiters /\ y.woken = x.woken
        /\ y.canceled = x.canceled /\ y.flying = Append(x.flying, c)
        /\ y.next = x.next /\ y.size = x.size
    BY <2>2 DEF ReplicatorType, Alike
  <2> HIDE DEF y
  <2>9. Quiet(x) => Quiet(y)
    BY <2>8 DEF Quiet
  <2>10. Len(x.flying) < Parallel /\ x.size + 0 <= MaxEntries
    <3>1. Len(x.flying) = 0
      OBVIOUS
    <3> QED BY <2>4, <3>1
  <2>11. y.next = x.next + 0 /\ y.size = x.size + 0 /\ x.next + 0 <= log.last + 1
    BY <2>2, <2>3, <2>8
  <2>12. MayAppend(x, 0)
    BY <2>10, <2>11 DEF MayAppend
  <2>13. Appended(y, x, 0)
    BY <2>2, <2>7, <2>8, <2>9, <2>11 DEF Appended, c
  <2>14. m = CallOf(x, 0)
    BY DEF CallOf
  <2> HIDE DEF m
  <2>15. /\ Fit(y) /\ Idle(y) /\ CallsOK(y, C \union {m}) /\ Frame(y, x)
         /\ m \in RpcType /\ m.at = "sent" /\ m.ok = "none" /\ m.n = 0
         /\ m.prev + m.n <= log.last
    <3>1. /\ Fit(y) /\ Idle(y) /\ CallsOK(y, C \union {CallOf(x, 0)}) /\ Frame(y, x)
          /\ CallOf(x, 0) \in RpcType /\ CallOf(x, 0).at = "sent"
          /\ CallOf(x, 0).op = "append"
          /\ CallOf(x, 0).ok = "none" /\ CallOf(x, 0).n = 0
          /\ CallOf(x, 0).prev + CallOf(x, 0).n <= log.last
      BY <2>12, <2>13, AppendCall
    <3> QED BY <2>14, <3>1
  <2> QED BY <2>1, <2>9, <2>15 DEF SentOK
<1> QED BY <1>1, <1>2

\* _wait_more_entries leaves the calls in flight alone.
LEMMA WaitMoreFits ==
    ASSUME NEW x, Fit(x), Idle(x), ~HasProbe(x)
    PROVE  /\ Fit(WaitMore(x)) /\ Alike(WaitMore(x), x) /\ ~HasProbe(WaitMore(x))
           /\ WaitMore(x).flying = x.flying /\ WaitMore(x).next = x.next
           /\ WaitMore(x).size = x.size /\ Idle(WaitMore(x))
<1> DEFINE w == WaiterId(x)
           v == x.waiters \union {w}
           k == x.woken + 1
           woke == [x EXCEPT !.canceled = FALSE, !.woken = k]
           waits == [x EXCEPT !.canceled = FALSE, !.wait = w, !.waiters = v]
           y == IF x.wait = 0 /\ MaxEntries > x.size /\ Parallel > Len(x.flying)
                THEN IF WakesAtOnce(x) THEN woke ELSE waits
                ELSE x
           z == WaitMore(x)
<1>1. x \in ReplicatorType /\ IsFiniteSet(x.waiters)
  BY DEF Fit
<1>2. z = IF y.size = 0 THEN [y EXCEPT !.st = "IDLE"] ELSE y
  BY DEF WaitMore
<1>3. w \in Nat
  BY <1>1, WaiterIdIsNew
<1>4. k \in Nat
  BY <1>1 DEF ReplicatorType
<1> HIDE DEF w, k, z
<1>5. v \in SUBSET Nat /\ IsFiniteSet(v)
  BY <1>1, <1>3, FS_AddElement DEF ReplicatorType
<1> HIDE DEF v
<1>6. /\ woke \in ReplicatorType /\ waits \in ReplicatorType
      /\ woke.waiters = x.waiters /\ waits.waiters = v
      /\ Alike(woke, x) /\ Alike(waits, x)
      /\ woke.flying = x.flying /\ woke.next = x.next /\ woke.size = x.size
      /\ waits.flying = x.flying /\ waits.next = x.next /\ waits.size = x.size
  <2> HIDE DEF CallType
  <2> QED BY <1>1, <1>3, <1>4, <1>5 DEF ReplicatorType, Alike
<1> HIDE DEF woke, waits
<1>7. /\ y \in ReplicatorType /\ IsFiniteSet(y.waiters) /\ Alike(y, x)
      /\ y.flying = x.flying /\ y.next = x.next /\ y.size = x.size
  BY <1>1, <1>5, <1>6 DEF Alike
<1> HIDE DEF y
<1>8. /\ z \in ReplicatorType /\ IsFiniteSet(z.waiters) /\ Alike(z, x)
      /\ z.flying = x.flying /\ z.next = x.next /\ z.size = x.size
  <2>1. CASE y.size = 0
    <3> HIDE DEF CallType
    <3>1. z = [y EXCEPT !.st = "IDLE"]
      BY <1>2, <2>1
    <3> QED BY <1>7, <3>1 DEF ReplicatorType, Alike
  <2>2. CASE y.size # 0
    BY <1>2, <1>7, <2>2
  <2> QED BY <2>1, <2>2
<1>9. MinFlying(z) = MinFlying(x)
  BY <1>8 DEF MinFlying
<1>10. FlyingOK(z)
  BY <1>8, <1>9 DEF FlyingOK, Fit
<1>11. ~HasProbe(z) /\ Idle(z)
  BY <1>8 DEF HasProbe, Idle, Alike
<1>12. ModeOK(z)
  BY <1>11 DEF ModeOK, Idle
<1> QED BY <1>8, <1>10, <1>11, <1>12 DEF Fit, z

LEMMA CallsSame ==
    ASSUME NEW y, NEW x, NEW C, CallsOK(x, C), y.flying = x.flying, y.reader = x.reader
    PROVE  CallsOK(y, C)
BY DEF CallsOK

LEMMA LeastIs ==
    ASSUME NEW a \in Int, NEW b \in Int
    PROVE  Least(a, b) \in Int /\ Least(a, b) <= a /\ Least(a, b) <= b
BY DEF Least

LEMMA RoomLeft ==
    ASSUME NEW n \in Int, n > 0, NEW b \in Nat, NEW s \in Nat, NEW p \in Nat, NEW l \in Nat,
           NEW u \in Int, n <= b - s, n <= (u - p) + 1, u <= l
    PROVE  /\ n \in Nat \ {0} /\ s + n <= b /\ p + n <= l + 1
           /\ s + n \in Nat /\ p + n \in Nat \ {0}
OBVIOUS

\* _send_entries, once a call has succeeded.
Sending(x, C) ==
    Fit(x) /\ Idle(x) /\ ~HasProbe(x) /\ x.succeeded /\ CallsOK(x, C) /\ Env(C)
LEMMA SendEntriesFits ==
    ASSUME NEW x, NEW C, Sending(x, C), NEW k \in Sizes, NEW t \in BOOLEAN
    PROVE  SentOK(SendEntries(x, k, t), x, C)
<1> DEFINE upto == IF x.readonly # 0 THEN Least(log.last, x.readonly - 1) ELSE log.last
           n == Least(k, Least(MaxEntries - x.size, upto - x.next + 1))
           c == [index |-> x.next, size |-> n, id |-> FreeId]
           e == x.next + n
           u == x.size + n
           q == Append(x.flying, c)
           sent == [x EXCEPT !.flying = q, !.next = e, !.size = u,
                             !.st = "APPENDING_ENTRIES"]
<1>1. /\ Fit(x) /\ Idle(x) /\ ~HasProbe(x) /\ x.succeeded /\ CallsOK(x, C) /\ Env(C)
      /\ x \in ReplicatorType /\ IsFiniteSet(x.waiters)
  BY DEF Sending, Fit
<1>2. /\ x.next \in Nat \ {0} /\ x.size \in Nat /\ x.flying \in Seq(CallType)
      /\ Len(x.flying) \in Nat /\ x.readonly \in Nat
      /\ log.last \in Nat /\ MaxEntries \in Nat \ {0} /\ Parallel \in Nat
      /\ FreeId \in Ids /\ k \in Nat
  <2>1. x.readonly \in Nat
    BY <1>1 DEF ReplicatorType
  <2> QED BY <1>1, <2>1, FitFacts, EnvFacts DEF Sizes
<1>3. upto \in Int /\ upto <= log.last
  <2>1. x.readonly - 1 \in Int /\ log.last \in Int
    BY <1>2
  <2>2. Least(log.last, x.readonly - 1) \in Int
        /\ Least(log.last, x.readonly - 1) <= log.last
    BY <2>1, LeastIs
  <2> QED BY <1>2, <2>2
<1>4. n \in Int /\ n <= MaxEntries - x.size /\ n <= (upto - x.next) + 1
  <2> DEFINE b == MaxEntries - x.size
             d == upto - x.next + 1
             l == Least(b, d)
  <2>1. b \in Int /\ d \in Int /\ d = (upto - x.next) + 1 /\ k \in Int
    BY <1>2, <1>3
  <2> HIDE DEF b, d, upto
  <2>2. l \in Int /\ l <= b /\ l <= d
    BY <2>1, LeastIs
  <2> HIDE DEF l
  <2>3. Least(k, l) \in Int /\ Least(k, l) <= l
    BY <2>1, <2>2, LeastIs
  <2>4. Least(k, l) \in Int /\ Least(k, l) <= b /\ Least(k, l) <= d
    BY <2>1, <2>2, <2>3
  <2> QED BY <2>1, <2>4 DEF l, b, d
<1> HIDE DEF upto, n
<1>5. SendEntries(x, k, t)
        = IF Full(x) \/ x.st = "BLOCKING"
          THEN [x |-> x, out |-> {}]
          ELSE IF Compacted(x) THEN InstallSnapshot(Reset(x), t)
          ELSE IF n > 0 THEN [x |-> WaitMore(sent), out |-> {CallOf(x, n)}]
          ELSE IF x.next <= log.last
          THEN [x |-> IF x.size = 0 THEN [x EXCEPT !.st = "IDLE"] ELSE x, out |-> {}]
          ELSE [x |-> WaitMore(x), out |-> {}]
  BY DEF SendEntries, CallOf, n, upto
<1>6. ASSUME NEW y, Fit(y), y.flying = x.flying, y.next = x.next, y.size = x.size,
             Alike(y, x)
      PROVE  SentOK([x |-> y, out |-> {}], x, C)
  <2>1. CallsOK(y, C)
    BY <1>1, <1>6, CallsSame DEF Alike
  <2>2. Frame(y, x)
    BY <1>6 DEF Frame, MinFlying, Alike
  <2> QED BY <1>1, <1>6, <2>1, <2>2 DEF SentOK
<1>7. CASE Full(x) \/ x.st = "BLOCKING"
  <2>1. Alike(x, x)
    BY DEF Alike
  <2> QED BY <1>1, <1>5, <1>6, <1>7, <2>1
<1>8. CASE ~(Full(x) \/ x.st = "BLOCKING") /\ Compacted(x)
  <2> DEFINE y == Reset(x)
             s == InstallSnapshot(y, t)
  <2>1. /\ Fit(y) /\ Idle(y) /\ CallsOK(y, C) /\ y.flying = <<>> /\ y.size = 0
        /\ Quiet(y) /\ Frame(y, x)
    BY <1>1, ResetFits
  <2> HIDE DEF y
  <2>2. SentOK(s, y, C)
    BY <1>1, <2>1, InstallFits
  <2> HIDE DEF s
  <2>3. SentOK(s, x, C)
    BY <1>1, <2>1, <2>2 DEF SentOK, Frame
  <2> QED BY <1>5, <1>8, <2>3 DEF s, y
<1>9. CASE ~(Full(x) \/ x.st = "BLOCKING") /\ ~Compacted(x) /\ n > 0
  <2>1. n \in Nat \ {0} /\ u <= MaxEntries /\ e <= log.last + 1
        /\ u \in Nat /\ e \in Nat \ {0}
    BY <1>2, <1>3, <1>4, <1>9, RoomLeft
  <2>2. Len(x.flying) < Parallel
    BY <1>2, <1>9 DEF Full
  <2>3. MayAppend(x, n)
    BY <1>1, <2>1, <2>2 DEF MayAppend
  <2>4. c \in CallType
    BY <1>2, <2>1 DEF CallType
  <2> HIDE DEF c
  <2>5. q \in Seq(CallType)
    BY <1>2, <2>4, AppendProperties
  <2> HIDE DEF q, e, u
  <2>6. /\ sent \in ReplicatorType /\ Alike(sent, x) /\ sent.waiters = x.waiters
        /\ sent.flying = q /\ sent.next = e /\ sent.size = u
        /\ sent.woken = x.woken /\ sent.canceled = x.canceled
    <3> HIDE DEF CallType
    <3> QED BY <1>1, <2>1, <2>5 DEF ReplicatorType, Alike
  <2> HIDE DEF sent
  <2>7. Appended(sent, x, n)
    BY <1>1, <2>6 DEF Appended, q, e, u, c, Quiet
  <2> DEFINE m == CallOf(x, n)
  <2>8. /\ Fit(sent) /\ Idle(sent) /\ CallsOK(sent, C \union {m}) /\ Frame(sent, x)
        /\ ~HasProbe(sent)
        /\ m \in RpcType /\ m.at = "sent" /\ m.ok = "none" /\ m.op = "append"
        /\ m.prev + m.n <= log.last
    <3>1. /\ Fit(sent) /\ Idle(sent) /\ CallsOK(sent, C \union {CallOf(x, n)})
          /\ Frame(sent, x) /\ (n > 0 => ~HasProbe(sent))
          /\ CallOf(x, n) \in RpcType /\ CallOf(x, n).at = "sent"
          /\ CallOf(x, n).ok = "none" /\ CallOf(x, n).op = "append"
          /\ CallOf(x, n).prev + CallOf(x, n).n <= log.last
      BY <1>1, <2>3, <2>7, AppendCall
    <3> QED BY <1>9, <3>1
  <2> HIDE DEF m
  <2> DEFINE z == WaitMore(sent)
  <2>9. /\ Fit(z) /\ Alike(z, sent) /\ z.flying = sent.flying
        /\ z.next = sent.next /\ z.size = sent.size
    BY <2>8, WaitMoreFits
  <2> HIDE DEF z
  <2>10. CallsOK(z, C \union {m})
    BY <2>8, <2>9, CallsSame DEF Alike
  <2>11. Frame(z, x)
    BY <2>8, <2>9 DEF Frame, Alike, MinFlying
  <2>12. SentOK([x |-> z, out |-> {m}], x, C)
    BY <1>1, <2>8, <2>9, <2>10, <2>11 DEF SentOK
  <2> QED BY <1>5, <1>9, <2>12 DEF z, m
<1>10. CASE /\ ~(Full(x) \/ x.st = "BLOCKING") /\ ~Compacted(x) /\ ~(n > 0)
            /\ x.next <= log.last
  <2> DEFINE y == IF x.size = 0 THEN [x EXCEPT !.st = "IDLE"] ELSE x
  <2>1. /\ y \in ReplicatorType /\ y.waiters = x.waiters /\ Alike(y, x)
        /\ y.flying = x.flying /\ y.next = x.next /\ y.size = x.size
        /\ y.canceled = x.canceled /\ y.woken = x.woken
    <3> HIDE DEF CallType
    <3>1. CASE x.size = 0
      <4>1. y = [x EXCEPT !.st = "IDLE"]
        BY <3>1
      <4> HIDE DEF y
      <4> QED BY <1>1, <4>1 DEF ReplicatorType, Alike
    <3>2. CASE x.size # 0
      BY <1>1, <3>2 DEF Alike
    <3> QED BY <3>1, <3>2
  <2> HIDE DEF y
  <2>2. FlyingOK(y) /\ ModeOK(y)
    <3>1. MinFlying(y) = MinFlying(x)
      BY <2>1 DEF MinFlying
    <3>2. FlyingOK(y)
      BY <1>1, <2>1, <3>1 DEF Fit, FlyingOK
    <3>3. Idle(y) /\ ~HasProbe(y)
      BY <1>1, <2>1 DEF Idle, HasProbe, Alike
    <3> QED BY <3>2, <3>3 DEF ModeOK, Idle
  <2>3. Fit(y)
    BY <1>1, <2>1, <2>2 DEF Fit
  <2>4. SentOK([x |-> y, out |-> {}], x, C)
    BY <1>6, <2>1, <2>3
  <2> QED BY <1>5, <1>10, <2>4 DEF y
<1>11. CASE /\ ~(Full(x) \/ x.st = "BLOCKING") /\ ~Compacted(x) /\ ~(n > 0)
            /\ ~(x.next <= log.last)
  <2> DEFINE z == WaitMore(x)
  <2>1. /\ Fit(z) /\ Alike(z, x) /\ z.flying = x.flying
        /\ z.next = x.next /\ z.size = x.size
    BY <1>1, WaitMoreFits
  <2> HIDE DEF z
  <2>2. SentOK([x |-> z, out |-> {}], x, C)
    BY <1>6, <2>1
  <2> QED BY <1>5, <1>11, <2>2 DEF z
<1> QED BY <1>7, <1>8, <1>9, <1>10, <1>11

\* _send_timeout_now changes nothing else.
LEMMA TimeoutNowFits ==
    ASSUME NEW x, NEW C, Sending(x, C)
    PROVE  /\ Sending(TimeoutNow(x), C) /\ Frame(TimeoutNow(x), x)
<1> DEFINE y == TimeoutNow(x)
<1>1. /\ Fit(x) /\ Idle(x) /\ ~HasProbe(x) /\ x.succeeded /\ CallsOK(x, C) /\ Env(C)
      /\ x \in ReplicatorType /\ IsFiniteSet(x.waiters)
  BY DEF Sending, Fit
<1>2. /\ y \in ReplicatorType /\ y.waiters = x.waiters /\ Alike(y, x)
      /\ y.flying = x.flying /\ y.next = x.next /\ y.size = x.size
  <2> HIDE DEF CallType
  <2>1. CASE TimeoutNowDue(x)
    <3>1. y = [x EXCEPT !.timeout_now = 0]
      BY <2>1 DEF TimeoutNow
    <3> HIDE DEF y
    <3> QED BY <1>1, <3>1 DEF ReplicatorType, Alike
  <2>2. CASE ~TimeoutNowDue(x)
    BY <1>1, <2>2 DEF Alike, TimeoutNow
  <2> QED BY <2>1, <2>2
<1> HIDE DEF y
<1>3. MinFlying(y) = MinFlying(x)
  BY <1>2 DEF MinFlying
<1>4. FlyingOK(y)
  BY <1>1, <1>2, <1>3 DEF Fit, FlyingOK
<1>5. Idle(y) /\ ~HasProbe(y) /\ y.succeeded
  BY <1>1, <1>2 DEF Idle, HasProbe, Alike
<1>6. ModeOK(y)
  BY <1>5 DEF ModeOK, Idle
<1>7. Fit(y)
  BY <1>1, <1>2, <1>4, <1>6 DEF Fit
<1>8. CallsOK(y, C)
  BY <1>1, <1>2, CallsSame DEF Alike
<1>9. Frame(y, x)
  BY <1>2, <1>3 DEF Frame, Alike
<1> QED BY <1>1, <1>5, <1>7, <1>8, <1>9 DEF Sending, y

-----------------------------------------------------------------------------
(* The steps of the leader.                                                *)

\* What the steps that send leave to be shown.
RestInv == /\ faults \in Nat /\ faults <= MaxFailures /\ catchup \in CatchupType
           /\ CleanInv

\* What the invariant says, part by part.
LEMMA Facts ==
    ASSUME IInv
    PROVE  /\ TypeInv /\ BoundInv /\ FlightInv /\ StoredInv /\ CleanInv /\ RestInv
           /\ Fit(r) /\ CallsOK(r, rpcs) /\ ReadonlyOK(r, f.readonly)
           /\ r \in ReplicatorType /\ IsFiniteSet(r.waiters) /\ rpcs \in SUBSET RpcType
           /\ log.last \in Nat /\ f.match \in Nat /\ f.synced \in Nat /\ f.len \in Nat
           /\ f.early \in Nat /\ Safe \in Nat /\ Had \in Nat
           /\ Safe <= Had /\ Safe <= MaxLog
           /\ MaxLog \in Nat /\ MaxFailures \in Nat
           /\ (r.succeeded => MinFlying(r) - 1 <= Safe)
           /\ (~r.succeeded => Quiet(r) /\ f.match <= f.synced)
           /\ \A m \in rpcs : m \in RpcType /\ MessageOK(m, r.succeeded)
<1>1. TypeInv /\ BoundInv /\ FlightInv /\ StoredInv /\ CleanInv
  BY DEF IInv
<1>2. /\ r \in ReplicatorType /\ IsFiniteSet(r.waiters) /\ rpcs \in SUBSET RpcType
      /\ log.last \in Nat /\ f.match \in Nat /\ f.synced \in Nat /\ f.len \in Nat
  BY <1>1 DEF TypeInv, FollowerType
<1>3. MaxLog \in Nat /\ MaxFailures \in Nat
  BY ReplicatorAssumption
<1>4. /\ f.early \in Nat /\ Safe \in Nat /\ Had \in Nat
      /\ Safe <= Had /\ Safe <= MaxLog
  <2>1. f.early \in Nat /\ f.early <= MaxLog /\ f.match <= MaxLog
    BY <1>1 DEF TypeInv, FollowerType, BoundInv
  <2> QED BY <1>2, <1>3, <2>1 DEF Safe, Had, Least, Most
<1>5. Fit(r)
  BY <1>1, <1>2 DEF Fit, FlightInv
<1>6. RestInv
  BY <1>1 DEF RestInv, TypeInv, BoundInv
<1> QED BY <1>1, <1>2, <1>3, <1>4, <1>5, <1>6 DEF FlightInv, StoredInv

\* What a step that sends, and may succeed, preserves.
LEMMA SendsKeeps ==
    ASSUME IInv, NEW s, NEW x, NEW C, SentOK(s, x, C), C \subseteq rpcs, Sends(s, C),
           UNCHANGED <<log, f>>, ReadonlyOK(x, f.readonly), r.succeeded => x.succeeded,
           x.succeeded => MinFlying(x) - 1 <= Safe,
           granted' \in Nat, granted' <= Safe, RestInv'
    PROVE  IInv'
<1>1. /\ Fit(s.x) /\ CallsOK(s.x, C \union s.out) /\ s.out \subseteq RpcType
      /\ \A m \in s.out : /\ m.at = "sent" /\ m.ok = "none"
                          /\ m.prev + m.n <= log.last
                          /\ m.n > 0 => x.succeeded /\ m.op # "install"
      /\ Frame(s.x, x) /\ (Quiet(s.x) \/ x.succeeded)
  BY DEF SentOK
<1>2. /\ r' = s.x /\ rpcs' = C \union s.out /\ log' = log /\ f' = f
  BY DEF Sends
<1>3. Safe' = Safe
  BY <1>2 DEF Safe
<1>4. /\ TypeInv /\ BoundInv /\ StoredInv
      /\ rpcs \in SUBSET RpcType /\ log.last \in Nat /\ Safe \in Nat
      /\ Safe <= MaxLog /\ f.match \in Nat /\ MaxLog \in Nat
      /\ (~r.succeeded => f.match <= f.synced)
      /\ \A m \in rpcs : m \in RpcType /\ MessageOK(m, r.succeeded)
  BY Facts
<1>5. /\ s.x \in ReplicatorType /\ IsFiniteSet(s.x.waiters) /\ s.x.next <= log.last + 1
      /\ FlyingOK(s.x) /\ ModeOK(s.x)
  BY <1>1 DEF Fit
<1>6. TypeInv'
  <2>1. C \union s.out \in SUBSET RpcType
    BY <1>1, <1>4
  <2> QED BY <1>2, <1>4, <1>5, <2>1 DEF TypeInv, FollowerType, RestInv
<1>7. BoundInv'
  <2>1. granted' <= MaxLog
    BY <1>4 DEF BoundInv
  <2> QED BY <1>2, <1>4, <2>1 DEF BoundInv, RestInv
<1>8. FlightInv'
  <2>1. ReadonlyOK(s.x, f.readonly)
    BY <1>1 DEF ReadonlyOK, Frame
  <2> QED BY <1>1, <1>2, <1>5, <2>1 DEF FlightInv
<1>9. StoredInv'
  <2>1. s.x.succeeded = x.succeeded /\ MinFlying(s.x) = MinFlying(x)
    BY <1>1 DEF Frame
  <2>2. ASSUME NEW m \in C PROVE MessageOK(m, s.x.succeeded)'
    <3>1. MessageOK(m, r.succeeded)
      BY <1>4
    <3> QED BY <1>2, <1>3, <2>1, <3>1 DEF MessageOK, SaysTrue
  <2>3. ASSUME NEW m \in s.out PROVE MessageOK(m, s.x.succeeded)'
    <3>1. m.n \in Nat
      BY <1>1 DEF RpcType
    <3>2. /\ m.at = "sent" /\ m.ok = "none" /\ m.prev + m.n <= log.last
          /\ (m.n > 0 => x.succeeded /\ m.op # "install")
      BY <1>1
    <3> QED BY <1>2, <2>1, <3>1, <3>2 DEF MessageOK, SaysTrue
  <2>4. \A m \in rpcs' : MessageOK(m, r.succeeded)'
    BY <1>2, <2>2, <2>3
  <2>5. (r.succeeded => MinFlying(r) - 1 <= Safe)'
    BY <1>2, <1>3, <2>1
  <2>6. (~r.succeeded => Quiet(r) /\ f.match <= f.synced)'
    BY <1>1, <1>2, <1>4, <2>1
  <2>7. (granted <= Safe)'
    BY <1>3
  <2> QED BY <2>4, <2>5, <2>6, <2>7 DEF StoredInv
<1> QED BY <1>6, <1>7, <1>8, <1>9 DEF IInv, RestInv

\* A replicator that differs in its waiters, its mode for display or its requests,
\* and sends nothing.
Similar(y, x) ==
    /\ y \in ReplicatorType /\ IsFiniteSet(y.waiters)
    /\ y.flying = x.flying /\ y.next = x.next /\ y.size = x.size
    /\ y.reader = x.reader /\ y.succeeded = x.succeeded
    /\ y.timers + y.resumes = x.timers + x.resumes
    /\ Quiet(x) => Quiet(y)
LEMMA SimilarFits ==
    ASSUME NEW y, NEW x, Similar(y, x), Fit(x)
    PROVE  /\ Fit(y) /\ MinFlying(y) = MinFlying(x)
           /\ (Idle(x) => Idle(y)) /\ (~HasProbe(x) => ~HasProbe(y))
           /\ (\A C : CallsOK(x, C) => CallsOK(y, C))
<1>1. /\ y \in ReplicatorType /\ IsFiniteSet(y.waiters)
      /\ y.flying = x.flying /\ y.next = x.next /\ y.size = x.size
      /\ y.reader = x.reader /\ y.succeeded = x.succeeded
      /\ y.timers + y.resumes = x.timers + x.resumes
      /\ Quiet(x) => Quiet(y)
  BY DEF Similar
<1>2. MinFlying(y) = MinFlying(x)
  BY <1>1 DEF MinFlying
<1>3. /\ FlyingOK(x) /\ ModeOK(x) /\ log.last \in Nat /\ x.next <= log.last + 1
  BY DEF Fit
<1>4. FlyingOK(y)
  BY <1>1, <1>2, <1>3 DEF FlyingOK
<1>5. HasProbe(x) <=> HasProbe(y)
  BY <1>1 DEF HasProbe
<1>6. ModeOK(y)
  BY <1>1, <1>3, <1>5 DEF ModeOK
<1>7. Fit(y)
  BY <1>1, <1>3, <1>4, <1>6 DEF Fit
<1>8. Idle(x) => Idle(y)
  BY <1>1 DEF Idle
<1>9. ASSUME NEW C, CallsOK(x, C) PROVE CallsOK(y, C)
  BY <1>1, <1>9, CallsSame
<1> QED BY <1>2, <1>5, <1>7, <1>8, <1>9

\* Nothing is sent and no call answered.
LEMMA SimilarKeeps ==
    ASSUME IInv, Similar(r', r), UNCHANGED <<log, rpcs, f, granted>>, RestInv',
           ReadonlyOK(r', f.readonly)
    PROVE  IInv'
<1> DEFINE s == [x |-> r', out |-> {}]
<1>1. /\ Fit(r) /\ CallsOK(r, rpcs) /\ Safe \in Nat
      /\ (r.succeeded => MinFlying(r) - 1 <= Safe)
      /\ (~r.succeeded => Quiet(r) /\ f.match <= f.synced)
      /\ TypeInv /\ StoredInv
  BY Facts
<1>2. Fit(r') /\ MinFlying(r') = MinFlying(r) /\ CallsOK(r', rpcs)
  BY <1>1, SimilarFits
<1>3. r'.succeeded = r.succeeded /\ (Quiet(r) => Quiet(r'))
  BY DEF Similar
<1>4. Frame(r', r')
  BY DEF Frame
<1>5. SentOK(s, r', rpcs)
  BY <1>1, <1>2, <1>3, <1>4 DEF SentOK
<1>6. Sends(s, rpcs)
  BY DEF Sends
<1>7. /\ r.succeeded => r'.succeeded
      /\ r'.succeeded => MinFlying(r') - 1 <= Safe
  BY <1>1, <1>2, <1>3
<1>8. granted' \in Nat /\ granted' <= Safe
  BY <1>1 DEF TypeInv, StoredInv
<1> HIDE DEF s
<1> QED BY <1>5, <1>6, <1>7, <1>8, SendsKeeps

LEMMA ThrottleIs ==
    ASSUME IInv, NEW t \in Throttled, Throttles(t)
    PROVE  t \in BOOLEAN /\ faults' \in Nat /\ faults' <= MaxFailures
<1>1. faults \in Nat /\ faults <= MaxFailures /\ MaxFailures \in Nat
  BY Facts DEF RestInv
<1>2. faults' = faults + IF t THEN 1 ELSE 0
  BY DEF Throttles
<1>3. t \in BOOLEAN /\ (t => faults < MaxFailures)
  BY DEF Throttled
<1>4. CASE t
  BY <1>1, <1>2, <1>3, <1>4
<1>5. CASE ~t
  BY <1>1, <1>2, <1>3, <1>5
<1> QED BY <1>4, <1>5

\* The closures and the notes stay as they are.
LEMMA RestSame ==
    ASSUME IInv, UNCHANGED <<catchup, failed>>, faults' \in Nat, faults' <= MaxFailures
    PROVE  RestInv'
<1>1. catchup \in CatchupType /\ failed = {} /\ ~catchup.stray
  BY Facts DEF RestInv, CleanInv
<1> QED BY <1>1 DEF RestInv, CleanInv

LEMMA AppendEntryKeeps ==
    ASSUME IInv, AppendEntry PROVE IInv'
<1> DEFINE w == r.woken + Cardinality(r.waiters)
<1>1. /\ TypeInv /\ BoundInv /\ FlightInv /\ StoredInv /\ CleanInv
      /\ r \in ReplicatorType /\ IsFiniteSet(r.waiters) /\ Fit(r) /\ CallsOK(r, rpcs)
      /\ log.last \in Nat /\ MaxLog \in Nat
      /\ (~r.succeeded => Quiet(r) /\ f.match <= f.synced)
      /\ \A m \in rpcs : m \in RpcType /\ MessageOK(m, r.succeeded)
  BY Facts
<1>2. /\ log.last < MaxLog /\ log' = [log EXCEPT !.last = @ + 1]
      /\ r' = [r EXCEPT !.woken = w, !.waiters = {}]
      /\ UNCHANGED <<rpcs, f, catchup, granted, faults, failed>>
  BY DEF AppendEntry
<1>3. w \in Nat /\ (r.waiters = {} => w = r.woken)
  <2>1. r.woken \in Nat /\ Cardinality(r.waiters) \in Nat
    BY <1>1, FS_CardinalityType DEF ReplicatorType
  <2>2. Cardinality({}) = 0
    BY FS_EmptySet
  <2> QED BY <2>1, <2>2
<1> HIDE DEF w
<1>4. /\ r' \in ReplicatorType /\ r'.waiters = {} /\ r'.woken = w
      /\ r'.flying = r.flying /\ r'.next = r.next /\ r'.size = r.size
      /\ r'.reader = r.reader /\ r'.succeeded = r.succeeded
      /\ r'.timers = r.timers /\ r'.resumes = r.resumes /\ r'.canceled = r.canceled
      /\ r'.change = r.change /\ r'.readonly = r.readonly
  <2> HIDE DEF CallType
  <2> QED BY <1>1, <1>2, <1>3 DEF ReplicatorType
<1>5. Similar(r', r)
  <2>1. IsFiniteSet({})
    BY FS_EmptySet
  <2>2. Quiet(r) => Quiet(r')
    BY <1>3, <1>4 DEF Quiet
  <2> QED BY <1>4, <2>1, <2>2 DEF Similar
<1>6. /\ log'.first = log.first /\ log'.last = log.last + 1
      /\ log' \in [first : Nat \ {0}, last : Nat] /\ log'.last <= MaxLog
  <2>1. log \in [first : Nat \ {0}, last : Nat]
    BY <1>1 DEF TypeInv
  <2> QED BY <1>1, <1>2, <2>1
<1>7. TypeInv'
  BY <1>1, <1>2, <1>4, <1>5, <1>6 DEF TypeInv, FollowerType, Similar
<1>8. BoundInv'
  <2>1. log.first \in Nat /\ log.first <= log.last + 1
    BY <1>1 DEF TypeInv, BoundInv
  <2>2. log'.first <= log'.last + 1
    BY <1>1, <1>6, <2>1
  <2> QED BY <1>1, <1>2, <1>6, <2>2 DEF BoundInv
<1>9. FlightInv'
  <2>1. Fit(r') /\ CallsOK(r', rpcs)
    BY <1>1, <1>5, SimilarFits
  <2>2. FlyingOK(r') /\ ModeOK(r')
    BY <2>1 DEF Fit
  <2>3. ReadonlyOK(r', f.readonly)
    BY <1>1, <1>4 DEF FlightInv, ReadonlyOK
  <2>4. r'.next <= log'.last + 1
    <3>1. r'.next \in Nat /\ r'.next <= log.last + 1
      BY <2>1, FitFacts DEF Fit
    <3> QED BY <1>1, <1>6, <3>1
  <2> QED BY <1>2, <2>1, <2>2, <2>3, <2>4 DEF FlightInv
<1>10. StoredInv'
  <2>1. Safe' = Safe
    BY <1>2 DEF Safe
  <2>2. ASSUME NEW m \in rpcs PROVE MessageOK(m, r.succeeded)'
    <3>1. MessageOK(m, r.succeeded) /\ m.prev \in Nat /\ m.n \in Nat
      BY <1>1 DEF RpcType
    <3>2. m.prev + m.n <= log'.last
      BY <1>1, <1>6, <3>1 DEF MessageOK, SaysTrue
    <3> QED BY <1>2, <1>4, <2>1, <3>1, <3>2 DEF MessageOK, SaysTrue
  <2>3. MinFlying(r') = MinFlying(r)
    BY <1>4 DEF MinFlying
  <2> QED BY <1>1, <1>2, <1>4, <1>5, <2>1, <2>2, <2>3 DEF StoredInv, Similar
<1>11. CleanInv'
  BY <1>1, <1>2 DEF CleanInv
<1> QED BY <1>7, <1>8, <1>9, <1>10, <1>11 DEF IInv

LEMMA CompactKeeps ==
    ASSUME IInv, NEW i \in 2..MaxLog, Compact(i) PROVE IInv'
<1>1. /\ TypeInv /\ BoundInv /\ FlightInv /\ StoredInv /\ CleanInv
      /\ log.last \in Nat /\ MaxLog \in Nat
  BY Facts
<1>2. /\ log' = [log EXCEPT !.first = i] /\ i <= log.last
      /\ UNCHANGED <<r, rpcs, f, catchup, granted, faults, failed>>
  BY DEF Compact
<1>3. /\ log' \in [first : Nat \ {0}, last : Nat] /\ log'.last = log.last
      /\ log'.first = i
  BY <1>1, <1>2 DEF TypeInv
<1>4. TypeInv'
  BY <1>1, <1>2, <1>3 DEF TypeInv, FollowerType
<1>5. BoundInv'
  BY <1>1, <1>2, <1>3 DEF BoundInv
<1>6. FlightInv'
  BY <1>1, <1>2, <1>3 DEF FlightInv
<1>7. StoredInv'
  <2>1. Safe' = Safe
    BY <1>2 DEF Safe
  <2> QED BY <1>1, <1>2, <1>3, <2>1 DEF StoredInv, MessageOK, SaysTrue
<1>8. CleanInv'
  BY <1>1, <1>2 DEF CleanInv
<1> QED BY <1>4, <1>5, <1>6, <1>7, <1>8 DEF IInv

LEMMA ContinueSendingKeeps ==
    ASSUME IInv, NEW k \in Sizes, NEW t \in Throttled, ContinueSending(k, t)
    PROVE  IInv'
<1> DEFINE w == r.woken - 1
           x == [r EXCEPT !.woken = w]
           y == [x EXCEPT !.wait = 0]
           s == IF r.canceled THEN [x |-> x, out |-> {}] ELSE SendEntries(y, k, t)
<1>1. /\ r.woken > 0 /\ CanSend /\ Sends(s, rpcs) /\ Throttles(t)
      /\ UNCHANGED <<log, f, catchup, granted, failed>>
  BY DEF ContinueSending
<1>2. /\ TypeInv /\ BoundInv /\ StoredInv /\ ReadonlyOK(r, f.readonly)
      /\ r \in ReplicatorType /\ IsFiniteSet(r.waiters) /\ Fit(r) /\ CallsOK(r, rpcs)
      /\ Safe \in Nat
      /\ (r.succeeded => MinFlying(r) - 1 <= Safe)
      /\ (~r.succeeded => Quiet(r))
  BY Facts
<1>3. w \in Nat
  BY <1>1, <1>2 DEF ReplicatorType
<1> HIDE DEF w
<1>4. RestInv' /\ t \in BOOLEAN
  <2>1. t \in BOOLEAN /\ faults' \in Nat /\ faults' <= MaxFailures
    BY <1>1, ThrottleIs
  <2> QED BY <1>1, <2>1, RestSame
<1>5. granted' \in Nat /\ granted' <= Safe
  BY <1>1, <1>2 DEF TypeInv, StoredInv
<1>6. CASE r.canceled
  <2>1. /\ x \in ReplicatorType /\ x.waiters = r.waiters /\ x.canceled
        /\ x.flying = r.flying /\ x.next = r.next /\ x.size = r.size
        /\ x.reader = r.reader /\ x.succeeded = r.succeeded
        /\ x.timers = r.timers /\ x.resumes = r.resumes
        /\ x.change = r.change /\ x.readonly = r.readonly
    <3> HIDE DEF CallType
    <3> QED BY <1>2, <1>3, <1>6 DEF ReplicatorType
  <2>2. s = [x |-> x, out |-> {}]
    BY <1>6
  <2> HIDE DEF x, s
  <2>3. Similar(x, r)
    BY <1>2, <2>1 DEF Similar, Quiet
  <2>4. r' = x /\ rpcs' = rpcs
    BY <1>1, <2>2 DEF Sends
  <2>5. ReadonlyOK(r', f.readonly)
    BY <1>2, <2>1, <2>4 DEF ReadonlyOK
  <2>6. Similar(r', r) /\ UNCHANGED <<log, rpcs, f, granted>>
    BY <1>1, <2>3, <2>4
  <2> QED BY <1>4, <2>5, <2>6, SimilarKeeps
<1>7. CASE ~r.canceled
  <2>1. /\ y \in ReplicatorType /\ y.waiters = r.waiters
        /\ y.flying = r.flying /\ y.next = r.next /\ y.size = r.size
        /\ y.reader = r.reader /\ y.succeeded = r.succeeded
        /\ y.timers = r.timers /\ y.resumes = r.resumes
        /\ y.change = r.change /\ y.readonly = r.readonly
    <3> HIDE DEF CallType
    <3> QED BY <1>2, <1>3 DEF ReplicatorType
  <2>2. s = SendEntries(y, k, t)
    BY <1>7
  <2> HIDE DEF x, y, s
  <2>3. ~Quiet(r)
    <3>1. r.woken # 0
      BY <1>1
    <3> QED BY <1>7, <3>1 DEF Quiet
  <2>4. r.succeeded /\ Idle(r) /\ ~HasProbe(r)
    <3>1. r.timers \in Nat /\ r.resumes \in Nat
      BY <1>2 DEF ReplicatorType
    <3>2. /\ r.timers + r.resumes <= 1
          /\ r.timers + r.resumes # 1 /\ ~r.reader /\ ~HasProbe(r)
      BY <1>2, <2>3 DEF Fit, ModeOK
    <3> QED BY <1>2, <2>3, <3>1, <3>2 DEF Idle
  <2>5. Similar(y, r)
    BY <1>2, <2>1, <2>3 DEF Similar
  <2>6. /\ Fit(y) /\ MinFlying(y) = MinFlying(r) /\ Idle(y) /\ ~HasProbe(y)
        /\ CallsOK(y, rpcs)
    BY <1>2, <2>4, <2>5, SimilarFits
  <2>7. Sending(y, rpcs)
    BY <1>1, <1>2, <2>1, <2>4, <2>6 DEF Sending, Env
  <2>8. SentOK(s, y, rpcs)
    BY <1>4, <2>2, <2>7, SendEntriesFits
  <2>9. ReadonlyOK(y, f.readonly)
    BY <1>2, <2>1 DEF ReadonlyOK
  <2>10. (r.succeeded => y.succeeded) /\ (y.succeeded => MinFlying(y) - 1 <= Safe)
    BY <1>2, <2>1, <2>6
  <2>11. UNCHANGED <<log, f>> /\ Sends(s, rpcs)
    BY <1>1
  <2> QED BY <1>4, <1>5, <2>8, <2>9, <2>10, <2>11, SendsKeeps
<1> QED BY <1>6, <1>7

LEMMA BlockTimedoutKeeps ==
    ASSUME IInv, BlockTimedout PROVE IInv'
<1> DEFINE a == r.timers - 1
           b == r.resumes + 1
<1>1. /\ r.timers > 0 /\ r' = [r EXCEPT !.st = "IDLE", !.timers = a, !.resumes = b]
      /\ UNCHANGED <<log, rpcs, f, catchup, granted, faults, failed>>
  BY DEF BlockTimedout
<1>2. r \in ReplicatorType /\ IsFiniteSet(r.waiters) /\ ReadonlyOK(r, f.readonly)
  BY Facts
<1>3. a \in Nat /\ b \in Nat /\ a + b = r.timers + r.resumes
  BY <1>1, <1>2 DEF ReplicatorType
<1> HIDE DEF a, b
<1>4. /\ r' \in ReplicatorType /\ r'.waiters = r.waiters /\ r'.canceled = r.canceled
      /\ r'.flying = r.flying /\ r'.next = r.next /\ r'.size = r.size
      /\ r'.reader = r.reader /\ r'.succeeded = r.succeeded /\ r'.woken = r.woken
      /\ r'.timers = a /\ r'.resumes = b
      /\ r'.change = r.change /\ r'.readonly = r.readonly
  <2> HIDE DEF CallType
  <2> QED BY <1>1, <1>2, <1>3 DEF ReplicatorType
<1>5. Similar(r', r)
  BY <1>2, <1>3, <1>4 DEF Similar, Quiet
<1>6. ReadonlyOK(r', f.readonly)
  BY <1>2, <1>4 DEF ReadonlyOK
<1>7. RestInv'
  BY <1>1, Facts, RestSame DEF RestInv
<1> QED BY <1>1, <1>5, <1>6, <1>7, SimilarKeeps

LEMMA CallsFewer ==
    ASSUME NEW x, NEW C, NEW D, CallsOK(x, C), x.flying = <<>>, D \subseteq C
    PROVE  CallsOK(x, D)
<1>1. Len(x.flying) = 0
  OBVIOUS
<1>2. \A i \in 1..Len(x.flying) : FALSE
  BY <1>1
<1> QED BY <1>2 DEF CallsOK

LEMMA ContinueTimedoutKeeps ==
    ASSUME IInv, NEW t \in Throttled, ContinueTimedout(t) PROVE IInv'
<1> DEFINE w == r.resumes - 1
           x == [r EXCEPT !.resumes = w]
           s == IF r.wait # 0 THEN [x |-> x, out |-> {}] ELSE SendEmpty(x, t)
<1>1. /\ r.resumes > 0 /\ CanSend /\ Sends(s, rpcs) /\ Throttles(t)
      /\ failed' = failed \/ failed' = failed \union SendEmptyChecks(x)
      /\ UNCHANGED <<log, f, catchup, granted>>
  BY DEF ContinueTimedout
<1>2. /\ TypeInv /\ BoundInv /\ StoredInv /\ CleanInv /\ ReadonlyOK(r, f.readonly)
      /\ r \in ReplicatorType /\ IsFiniteSet(r.waiters) /\ Fit(r) /\ CallsOK(r, rpcs)
      /\ Safe \in Nat /\ log.last \in Nat
      /\ (r.succeeded => MinFlying(r) - 1 <= Safe)
  BY Facts
<1>3. w \in Nat /\ r.timers \in Nat /\ r.resumes = w + 1
  BY <1>1, <1>2 DEF ReplicatorType
<1> HIDE DEF w
<1>4. /\ r.timers = 0 /\ w = 0 /\ ~r.reader /\ r.flying = <<>> /\ Quiet(r)
      /\ r.size = 0
  <2>1. r.timers + r.resumes = 1
    BY <1>2, <1>3 DEF Fit, ModeOK
  <2>2. ~r.reader /\ r.flying = <<>> /\ Quiet(r)
    BY <1>2, <2>1 DEF Fit, ModeOK
  <2>3. r.size = 0
    BY <1>2, <2>2 DEF Fit, FlyingOK
  <2> QED BY <1>3, <2>1, <2>2, <2>3
<1>5. /\ x \in ReplicatorType /\ x.waiters = r.waiters /\ x.canceled = r.canceled
      /\ x.flying = r.flying /\ x.next = r.next /\ x.size = r.size
      /\ x.reader = r.reader /\ x.succeeded = r.succeeded /\ x.woken = r.woken
      /\ x.timers = r.timers /\ x.resumes = w
      /\ x.change = r.change /\ x.readonly = r.readonly
  <2> HIDE DEF CallType
  <2> QED BY <1>2, <1>3 DEF ReplicatorType
<1> HIDE DEF x, s
<1>6. Idle(x) /\ Quiet(x) /\ x.flying = <<>> /\ x.size = 0
  BY <1>3, <1>4, <1>5 DEF Idle, Quiet
<1>7. FlyingOK(x) /\ MinFlying(x) = MinFlying(r)
  BY <1>2, <1>5 DEF Fit, FlyingOK, MinFlying
<1>8. ModeOK(x)
  BY <1>6 DEF ModeOK, Idle
<1>9. Fit(x) /\ CallsOK(x, rpcs)
  <2>1. Fit(x)
    BY <1>2, <1>5, <1>7, <1>8 DEF Fit
  <2>2. CallsOK(x, rpcs)
    BY <1>2, <1>5, CallsSame
  <2> QED BY <2>1, <2>2
<1>10. SentOK(s, x, rpcs)
  <2>1. CASE r.wait # 0
    <3>1. s = [x |-> x, out |-> {}]
      BY <2>1 DEF s
    <3>2. Frame(x, x)
      BY DEF Frame
    <3> QED BY <1>6, <1>9, <3>1, <3>2 DEF SentOK
  <2>2. CASE r.wait = 0
    <3>1. s = SendEmpty(x, t)
      BY <2>2 DEF s
    <3>2. Env(rpcs) /\ t \in BOOLEAN
      BY <1>1, <1>2, ThrottleIs DEF Env
    <3> QED BY <1>6, <1>9, <3>1, <3>2, SendEmptyFits
  <2> QED BY <2>1, <2>2
<1>11. RestInv'
  <2>1. SendEmptyChecks(x) = {}
    BY <1>6 DEF SendEmptyChecks
  <2>2. failed' = failed
    BY <1>1, <2>1
  <2>3. faults' \in Nat /\ faults' <= MaxFailures
    BY <1>1, ThrottleIs
  <2> QED BY <1>1, <2>2, <2>3, RestSame
<1>12. ReadonlyOK(x, f.readonly)
  BY <1>2, <1>5 DEF ReadonlyOK
<1>13. (r.succeeded => x.succeeded) /\ (x.succeeded => MinFlying(x) - 1 <= Safe)
  BY <1>2, <1>5, <1>7
<1>14. granted' \in Nat /\ granted' <= Safe
  BY <1>1, <1>2 DEF TypeInv, StoredInv
<1>15. UNCHANGED <<log, f>> /\ Sends(s, rpcs)
  BY <1>1
<1> QED BY <1>10, <1>11, <1>12, <1>13, <1>14, <1>15, SendsKeeps

\* A call in flight and its answer belong together.
LEMMA ValidIs ==
    ASSUME IInv, NEW m \in rpcs, Valid(m)
    PROVE  /\ \E k \in 1..Len(r.flying) :
                 /\ m.prev + 1 = r.flying[k].index /\ m.n = r.flying[k].size
                 /\ m.op = "append"
           /\ Idle(r) /\ (m.n = 0 => HasProbe(r))
<1>1. r \in ReplicatorType /\ Fit(r) /\ CallsOK(r, rpcs)
  BY Facts
<1>2. PICK k \in 1..Len(r.flying) : r.flying[k].id = m.id
  <2>1. r.flying \in Seq(CallType)
    BY <1>1 DEF ReplicatorType
  <2>2. DOMAIN r.flying = 1..Len(r.flying)
    BY <2>1, LenProperties
  <2> QED BY <2>2 DEF Valid
<1>3. PICK c \in rpcs : /\ c.op = "append" /\ c.id = r.flying[k].id
                        /\ c.prev + 1 = r.flying[k].index /\ c.n = r.flying[k].size
  BY <1>1 DEF CallsOK
<1>4. c = m
  BY <1>1, <1>2, <1>3 DEF CallsOK
<1>5. m.n = 0 => HasProbe(r)
  BY <1>3, <1>4 DEF HasProbe
<1>6. r.flying # <<>>
  <2>1. Len(<<>>) = 0
    OBVIOUS
  <2> QED BY <2>1
<1>7. Idle(r)
  <2>1. r.timers \in Nat /\ r.resumes \in Nat
    BY <1>1 DEF ReplicatorType
  <2>2. r.timers + r.resumes <= 1 /\ r.timers + r.resumes # 1 /\ ~r.reader
    BY <1>1, <1>6 DEF Fit, ModeOK
  <2> QED BY <2>1, <2>2 DEF Idle
<1> QED BY <1>3, <1>4, <1>5, <1>7

LEMMA IgnoreReturnedKeeps ==
    ASSUME IInv, NEW m \in rpcs, IgnoreReturned(m) PROVE IInv'
<1> DEFINE C == rpcs \ {m}
           s == [x |-> r, out |-> {}]
<1>1. /\ ~Valid(m) /\ rpcs' = C /\ m.op = "append"
      /\ UNCHANGED <<log, r, f, catchup, granted, faults, failed>>
  BY DEF IgnoreReturned, Others
<1>2. /\ TypeInv /\ StoredInv /\ RestInv /\ ReadonlyOK(r, f.readonly)
      /\ r \in ReplicatorType /\ Fit(r) /\ CallsOK(r, rpcs)
      /\ Safe \in Nat /\ rpcs \in SUBSET RpcType
      /\ (r.succeeded => MinFlying(r) - 1 <= Safe)
      /\ (~r.succeeded => Quiet(r))
  BY Facts
<1>3. CallsOK(r, C)
  <2>1. DOMAIN r.flying = 1..Len(r.flying) /\ \A i \in 1..Len(r.flying) : r.flying[i] \in CallType
    <3>1. r.flying \in Seq(CallType)
      BY <1>2 DEF ReplicatorType
    <3> QED BY <3>1, LenProperties, ElementOfSeq
  <2>2. ASSUME NEW i \in 1..Len(r.flying)
        PROVE  \E c \in C : /\ c.op = "append" /\ c.id = r.flying[i].id
                            /\ c.prev + 1 = r.flying[i].index /\ c.n = r.flying[i].size
    <3>1. PICK c \in rpcs : /\ c.op = "append" /\ c.id = r.flying[i].id
                            /\ c.prev + 1 = r.flying[i].index /\ c.n = r.flying[i].size
      BY <1>2 DEF CallsOK
    <3>2. c.prev + 1 \in Nat
      BY <1>2 DEF RpcType
    <3>3. r.flying[i].index <= c.prev + 1
      <4>1. r.flying[i].index \in Nat
        BY <2>1 DEF CallType
      <4> QED BY <3>1, <4>1
    <3>4. Valid(c)
      BY <2>1, <3>1, <3>3 DEF Valid
    <3>5. c # m
      BY <1>1, <3>4
    <3> QED BY <3>1, <3>5
  <2> QED BY <1>2, <2>2 DEF CallsOK
<1>4. Frame(r, r)
  BY DEF Frame
<1>5. SentOK(s, r, C)
  BY <1>2, <1>3, <1>4 DEF SentOK
<1>6. Sends(s, C) /\ UNCHANGED <<log, f>>
  BY <1>1 DEF Sends
<1>7. granted' \in Nat /\ granted' <= Safe
  BY <1>1, <1>2 DEF TypeInv, StoredInv
<1>8. RestInv'
  BY <1>1, <1>2, RestSame DEF RestInv
<1>9. C \subseteq rpcs
  OBVIOUS
<1> HIDE DEF s, C
<1> QED BY <1>2, <1>5, <1>6, <1>7, <1>8, <1>9, SendsKeeps

\* The calls in flight are given up, and the replicator blocks or probes.
LEMMA ErrorsFits ==
    ASSUME NEW x, NEW b \in BOOLEAN, Fit(x)
    PROVE  Similar([x EXCEPT !.errors = b], x) /\ Alike([x EXCEPT !.errors = b], x)
<1> DEFINE y == [x EXCEPT !.errors = b]
<1>1. x \in ReplicatorType /\ IsFiniteSet(x.waiters)
  BY DEF Fit
<1>2. /\ y \in ReplicatorType /\ y.waiters = x.waiters /\ y.canceled = x.canceled
      /\ y.flying = x.flying /\ y.next = x.next /\ y.size = x.size
      /\ y.woken = x.woken /\ Alike(y, x)
  <2> HIDE DEF CallType
  <2> QED BY <1>1 DEF ReplicatorType, Alike
<1> HIDE DEF y
<1> QED BY <1>1, <1>2 DEF Similar, Quiet, Alike, y

LEMMA GivenUp ==
    ASSUME IInv, NEW m \in rpcs, Valid(m), NEW b \in BOOLEAN,
           NEW x, x = [Reset(r) EXCEPT !.errors = b]
    PROVE  /\ Fit(x) /\ Idle(x) /\ Quiet(x) /\ CallsOK(x, Others(m))
           /\ x.flying = <<>> /\ x.size = 0 /\ x.next = MinFlying(r) /\ Frame(x, r)
<1> DEFINE y == Reset(r)
<1>1. Fit(r) /\ CallsOK(r, rpcs) /\ Idle(r)
  BY Facts, ValidIs
<1>2. /\ Fit(y) /\ Idle(y) /\ CallsOK(y, rpcs)
      /\ y.flying = <<>> /\ y.size = 0 /\ Quiet(y)
      /\ Frame(y, r) /\ y.next = MinFlying(r)
  BY <1>1, ResetFits
<1>3. x = [y EXCEPT !.errors = b]
  OBVIOUS
<1> HIDE DEF y
<1>4. Similar(x, y) /\ Alike(x, y)
  BY <1>2, <1>3, ErrorsFits
<1>5. /\ Fit(x) /\ MinFlying(x) = MinFlying(y) /\ Idle(x) /\ CallsOK(x, rpcs)
  BY <1>2, <1>4, SimilarFits
<1>6. x.flying = <<>> /\ x.size = 0 /\ x.next = MinFlying(r) /\ Quiet(x)
  BY <1>2, <1>4 DEF Similar
<1>7. CallsOK(x, Others(m))
  <2>1. Others(m) \subseteq rpcs
    BY DEF Others
  <2> QED BY <1>5, <1>6, <2>1, CallsFewer
<1>8. Frame(x, r)
  BY <1>2, <1>4, <1>5 DEF Frame, Alike
<1> QED BY <1>5, <1>6, <1>7, <1>8

LEMMA RpcFailedKeeps ==
    ASSUME IInv, NEW m \in rpcs, RpcFailed(m) PROVE IInv'
<1> DEFINE x == [Reset(r) EXCEPT !.errors = TRUE]
           y == Block(x)
           C == Others(m)
           s == [x |-> y, out |-> {}]
<1>1. /\ Valid(m) /\ r' = y /\ rpcs' = C
      /\ UNCHANGED <<log, f, catchup, granted, faults, failed>>
  BY DEF RpcFailed
<1>2. /\ TypeInv /\ StoredInv /\ RestInv /\ ReadonlyOK(r, f.readonly)
      /\ Safe \in Nat /\ (r.succeeded => MinFlying(r) - 1 <= Safe)
  BY Facts
<1>3. /\ Fit(x) /\ Idle(x) /\ Quiet(x) /\ CallsOK(x, C)
      /\ x.flying = <<>> /\ x.size = 0 /\ Frame(x, r)
  <2> HIDE DEF x
  <2>1. x = [Reset(r) EXCEPT !.errors = TRUE]
    BY DEF x
  <2> QED BY <1>1, <2>1, GivenUp
<1> HIDE DEF x
<1>4. Fit(y) /\ CallsOK(y, C) /\ Frame(y, x) /\ Quiet(y)
  BY <1>3, BlockFits
<1> HIDE DEF y
<1>5. Frame(y, y) /\ Frame(y, r)
  BY <1>3, <1>4 DEF Frame
<1>6. SentOK(s, y, C)
  BY <1>4, <1>5 DEF SentOK
<1>7. Sends(s, C) /\ UNCHANGED <<log, f>> /\ C \subseteq rpcs
  BY <1>1 DEF Sends, Others
<1>8. granted' \in Nat /\ granted' <= Safe
  BY <1>1, <1>2 DEF TypeInv, StoredInv
<1>9. RestInv'
  BY <1>1, <1>2, RestSame DEF RestInv
<1>10. /\ ReadonlyOK(y, f.readonly) /\ (r.succeeded => y.succeeded)
       /\ (y.succeeded => MinFlying(y) - 1 <= Safe)
  BY <1>2, <1>5 DEF Frame, ReadonlyOK
<1> HIDE DEF s, C
<1> QED BY <1>6, <1>7, <1>8, <1>9, <1>10, SendsKeeps

LEMMA RpcMismatchedKeeps ==
    ASSUME IInv, NEW m \in rpcs, NEW t \in Throttled, RpcMismatched(m, t) PROVE IInv'
<1> DEFINE x == [Reset(r) EXCEPT !.errors = FALSE]
           n == NextIndex(x, m.last)
           y == [x EXCEPT !.next = n]
           C == Others(m)
           s == SendEmpty(y, t)
<1>1. /\ Valid(m) /\ CanSend /\ Sends(s, C) /\ Throttles(t)
      /\ failed' = failed \union SendEmptyChecks(x)
      /\ UNCHANGED <<log, f, catchup, granted>>
  BY DEF RpcMismatched
<1>2. /\ TypeInv /\ BoundInv /\ StoredInv /\ RestInv /\ ReadonlyOK(r, f.readonly)
      /\ Safe \in Nat /\ (r.succeeded => MinFlying(r) - 1 <= Safe)
      /\ m \in RpcType /\ Fit(r) /\ log.last \in Nat
  BY Facts
<1>3. /\ Fit(x) /\ Idle(x) /\ Quiet(x) /\ CallsOK(x, C)
      /\ x.flying = <<>> /\ x.size = 0 /\ x.next = MinFlying(r) /\ Frame(x, r)
  <2> HIDE DEF x
  <2>1. x = [Reset(r) EXCEPT !.errors = FALSE]
    BY DEF x
  <2> QED BY <1>1, <2>1, GivenUp
<1> HIDE DEF x
<1>4. n \in Nat \ {0} /\ n <= x.next /\ x.next \in Nat
  <2>1. x.next \in Nat \ {0} /\ m.last \in Nat
    BY <1>2, <1>3, FitFacts DEF RpcType
  <2> QED BY <2>1 DEF NextIndex
<1>5. x \in ReplicatorType /\ IsFiniteSet(x.waiters) /\ x.next <= log.last + 1
  BY <1>3 DEF Fit
<1> HIDE DEF n
<1>6. /\ y \in ReplicatorType /\ y.waiters = x.waiters /\ y.canceled = x.canceled
      /\ y.flying = x.flying /\ y.next = n /\ y.size = x.size
      /\ y.woken = x.woken /\ Alike(y, x)
  <2> HIDE DEF CallType
  <2> QED BY <1>4, <1>5 DEF ReplicatorType, Alike
<1> HIDE DEF y
<1>7. y.flying = <<>> /\ y.size = 0 /\ Idle(y) /\ Quiet(y) /\ CallsOK(y, C)
  <2>1. CallsOK(y, C)
    BY <1>3, <1>6, CallsSame DEF Alike
  <2> QED BY <1>3, <1>6, <2>1 DEF Alike, Idle, Quiet
<1>8. FlyingOK(y) /\ MinFlying(y) = n
  BY <1>6, <1>7, EmptyFlight
<1>9. Fit(y)
  <2>1. ModeOK(y)
    BY <1>7 DEF ModeOK, Idle
  <2>2. n <= log.last + 1
    BY <1>2, <1>4, <1>5
  <2> QED BY <1>2, <1>5, <1>6, <1>8, <2>1, <2>2 DEF Fit
<1>10. t \in BOOLEAN /\ faults' \in Nat /\ faults' <= MaxFailures
  BY <1>1, ThrottleIs
<1>11. SentOK(s, y, C)
  <2>1. C \subseteq rpcs
    BY DEF Others
  <2>2. Env(C)
    BY <1>1, <1>2, <2>1 DEF Env
  <2> HIDE DEF C
  <2> QED BY <1>7, <1>9, <1>10, <2>2, SendEmptyFits
<1>12. RestInv'
  <2>1. SendEmptyChecks(x) = {}
    BY <1>3 DEF SendEmptyChecks
  <2>2. failed' = failed
    BY <1>1, <2>1
  <2> QED BY <1>1, <1>10, <2>2, RestSame
<1>13. granted' \in Nat /\ granted' <= Safe
  BY <1>1, <1>2 DEF TypeInv, StoredInv
<1>14. ReadonlyOK(y, f.readonly) /\ (r.succeeded => y.succeeded)
  BY <1>2, <1>3, <1>6 DEF Frame, ReadonlyOK, Alike
<1>15. y.succeeded => MinFlying(y) - 1 <= Safe
  <2>1. y.succeeded = r.succeeded
    BY <1>3, <1>6 DEF Frame, Alike
  <2>2. n <= MinFlying(r) /\ MinFlying(r) \in Nat
    BY <1>3, <1>4
  <2> QED BY <1>2, <1>4, <1>8, <2>1, <2>2
<1>16. UNCHANGED <<log, f>> /\ C \subseteq rpcs /\ Sends(s, C)
  BY <1>1 DEF Others
<1> HIDE DEF s, C
<1> QED BY <1>11, <1>12, <1>13, <1>14, <1>15, <1>16, SendsKeeps

\* Whoever is told of a success is told of what the follower has.
LEMMA NotesAreNone ==
    ASSUME IInv, NEW x, MinFlying(x) \in Nat, MinFlying(x) - 1 <= Safe,
           x.timeout_now \in Nat, NEW c \in CatchupType, ~c.stray
    PROVE  /\ EarlyCatchup(c, x) = {} /\ (TimeoutNowDue(x) => Early(x.timeout_now) = {})
           /\ NotifyOk(c, x) \in CatchupType /\ ~NotifyOk(c, x).stray
<1>1. /\ Safe \in Nat /\ Safe <= Had /\ Had \in Nat /\ log.last \in Nat
  BY Facts
<1>2. Margin \in Nat
  BY ReplicatorAssumption
<1> DEFINE a == MinFlying(x) - 1
<1>3. a \in Int /\ a <= Had
  BY <1>1
<1>4. CaughtUp(x) => Had + Margin >= log.last
  <2>1. CaughtUp(x) => a + Margin >= log.last
    BY DEF CaughtUp
  <2> HIDE DEF a
  <2> QED BY <1>1, <1>2, <1>3, <2>1
<1>5. EarlyCatchup(c, x) = {}
  <2>1. CASE CaughtUp(x)
    <3>1. ~(Had + Margin < log.last)
      BY <1>1, <1>2, <1>4, <2>1
    <3> QED BY <3>1 DEF EarlyCatchup
  <2>2. CASE ~CaughtUp(x)
    BY <2>2 DEF EarlyCatchup, NotifyOk
  <2> QED BY <2>1, <2>2
<1>6. TimeoutNowDue(x) => x.timeout_now <= Had
  BY <1>1 DEF TimeoutNowDue
<1>7. NotifyOk(c, x) \in CatchupType /\ ~NotifyOk(c, x).stray
  <2>1. CASE ~c.waiting \/ ~CaughtUp(x) \/ c.set
    BY <2>1 DEF NotifyOk
  <2>2. CASE ~(~c.waiting \/ ~CaughtUp(x) \/ c.set) /\ TimerRuns(c)
    <3> DEFINE d == [c EXCEPT !.set = TRUE]
    <3>1. NotifyOk(c, x) = d
      BY <2>2 DEF NotifyOk
    <3>2. d \in CatchupType /\ d.stray = c.stray
      BY DEF CatchupType
    <3> HIDE DEF d
    <3> QED BY <3>1, <3>2
  <2>3. CASE ~(~c.waiting \/ ~CaughtUp(x) \/ c.set) /\ ~TimerRuns(c)
    <3> DEFINE b == (c.stray \/ c.timer = "running")
               d == [c EXCEPT !.waiting = FALSE, !.set = FALSE, !.timer = "none",
                              !.stray = b]
    <3>1. NotifyOk(c, x) = d
      BY <2>3 DEF NotifyOk, EndCatchup
    <3>2. b = FALSE
      BY <2>3 DEF TimerRuns
    <3> HIDE DEF b
    <3>3. d \in CatchupType /\ d.stray = FALSE
      BY <3>2 DEF CatchupType
    <3> HIDE DEF d
    <3> QED BY <3>1, <3>3
  <2> QED BY <2>1, <2>2, <2>3
<1> QED BY <1>5, <1>6, <1>7 DEF Early

\* A success, whatever of it, ends waits and transfers, and more is sent.
Success(x, C) ==
    /\ Sending(x, C) /\ C \subseteq rpcs /\ MinFlying(x) - 1 <= Safe
    /\ x.change = r.change /\ x.readonly = r.readonly
LEMMA SuccessKeeps ==
    ASSUME IInv, NEW x, NEW C, Success(x, C), NEW k \in Sizes, NEW t \in Throttled,
           Throttles(t), catchup' = NotifyOk(catchup, x), failed' = failed \union Notes(x),
           Sends(SendEntries(TimeoutNow(x), k, t), C), UNCHANGED <<log, f>>,
           granted' \in Nat, granted' <= Safe
    PROVE  IInv'
<1> DEFINE y == TimeoutNow(x)
           s == SendEntries(y, k, t)
<1>1. /\ Sending(x, C) /\ C \subseteq rpcs /\ MinFlying(x) - 1 <= Safe
      /\ x.change = r.change /\ x.readonly = r.readonly
  BY DEF Success
<1>2. Sending(y, C) /\ Frame(y, x)
  BY <1>1, TimeoutNowFits
<1>3. t \in BOOLEAN /\ faults' \in Nat /\ faults' <= MaxFailures
  BY ThrottleIs
<1> HIDE DEF y
<1>4. SentOK(s, y, C)
  BY <1>2, <1>3, SendEntriesFits
<1> HIDE DEF s
<1>5. RestInv'
  <2>1. MinFlying(x) \in Nat /\ x.timeout_now \in Nat
    <3>1. Fit(x) /\ x \in ReplicatorType
      BY <1>1 DEF Sending, Fit
    <3> QED BY <3>1, FitFacts DEF ReplicatorType
  <2>2. catchup \in CatchupType /\ ~catchup.stray /\ failed = {}
    BY Facts DEF RestInv, CleanInv
  <2>3. /\ EarlyCatchup(catchup, x) = {} /\ (TimeoutNowDue(x) => Early(x.timeout_now) = {})
        /\ NotifyOk(catchup, x) \in CatchupType /\ ~NotifyOk(catchup, x).stray
    BY <1>1, <2>1, <2>2, NotesAreNone
  <2>4. Notes(x) = {}
    BY <2>3 DEF Notes
  <2>5. failed' = {} /\ catchup' \in CatchupType /\ ~catchup'.stray
    BY <2>2, <2>3, <2>4
  <2> QED BY <1>3, <2>5 DEF RestInv, CleanInv
<1>6. ReadonlyOK(y, f.readonly)
  <2>1. ReadonlyOK(r, f.readonly)
    BY Facts
  <2> QED BY <1>1, <1>2, <2>1 DEF ReadonlyOK, Frame
<1>7. y.succeeded /\ MinFlying(y) - 1 <= Safe
  BY <1>1, <1>2 DEF Frame, Sending
<1>8. Sends(s, C)
  BY DEF s, y
<1> QED BY <1>1, <1>4, <1>5, <1>6, <1>7, <1>8, SendsKeeps

LEMMA RpcSucceededKeeps ==
    ASSUME IInv, NEW m \in rpcs, NEW k \in Sizes, NEW t \in Throttled,
           RpcSucceeded(m, k, t)
    PROVE  IInv'
<1> DEFINE q == StillFlying(m)
           z == Cardinality(EntriesOf(q))
           x == [r EXCEPT !.flying = q, !.size = z, !.succeeded = TRUE, !.errors = FALSE]
           C == Others(m)
           fl == r.flying
           n == Len(fl)
<1>1. /\ Valid(m) /\ m.ok = "yes" /\ CanSend
      /\ granted' = IF m.n > 0 THEN Most(granted, m.prev + m.n) ELSE granted
      /\ catchup' = NotifyOk(catchup, x) /\ failed' = failed \union Notes(x)
      /\ Sends(SendEntries(TimeoutNow(x), k, t), C) /\ Throttles(t)
      /\ UNCHANGED <<log, f>>
  BY DEF RpcSucceeded
<1>2. /\ TypeInv /\ BoundInv /\ StoredInv
      /\ r \in ReplicatorType /\ IsFiniteSet(r.waiters) /\ Fit(r) /\ CallsOK(r, rpcs)
      /\ Safe \in Nat /\ log.last \in Nat /\ f.match \in Nat /\ f.synced \in Nat
      /\ (r.succeeded => MinFlying(r) - 1 <= Safe)
      /\ (~r.succeeded => f.match <= f.synced)
      /\ m \in RpcType /\ MessageOK(m, r.succeeded)
  BY Facts
<1>3. PICK i \in 1..n : /\ m.prev + 1 = fl[i].index /\ m.n = fl[i].size
                        /\ m.op = "append"
  BY <1>1, ValidIs
<1>4. Idle(r) /\ (m.n = 0 => HasProbe(r)) /\ m.prev \in Nat /\ m.n \in Nat
  BY <1>1, <1>2, ValidIs DEF RpcType
<1>5. fl \in Seq(CallType) /\ n \in Nat /\ FlyingOK(r)
  BY <1>2, LenProperties DEF ReplicatorType, Fit
<1>6. q = SubSeq(fl, i + 1, n)
  BY <1>2, <1>3, <1>5, StillFlyingIs
<1>7. q \in Seq(CallType)
  BY <1>5, <1>6, SubSeqProperties
<1>8. z \in Nat
  <2> DEFINE S == (1..Len(q)) \X (1..MaxEntries)
  <2>1. Len(q) \in Nat /\ MaxEntries \in Nat
    BY <1>7, LenProperties, ReplicatorAssumption
  <2>2. IsFiniteSet(1..Len(q)) /\ IsFiniteSet(1..MaxEntries)
    BY <2>1, FS_Interval
  <2>3. IsFiniteSet(S)
    BY <2>2, FS_Product
  <2>4. EntriesOf(q) \subseteq S
    BY DEF EntriesOf
  <2> HIDE DEF S
  <2>5. IsFiniteSet(EntriesOf(q))
    BY <2>3, <2>4, FS_Subset
  <2> QED BY <2>5, FS_CardinalityType
<1> HIDE DEF z
<1>9. /\ x \in ReplicatorType /\ x.waiters = r.waiters /\ x.canceled = r.canceled
      /\ x.flying = q /\ x.next = r.next /\ x.size = z
      /\ x.reader = r.reader /\ x.succeeded = TRUE /\ x.woken = r.woken
      /\ x.timers = r.timers /\ x.resumes = r.resumes
      /\ x.change = r.change /\ x.readonly = r.readonly
  <2> HIDE DEF CallType, q
  <2> QED BY <1>2, <1>7, <1>8 DEF ReplicatorType
<1> HIDE DEF x
<1>10. /\ FlyingOK(x) /\ ~HasProbe(x) /\ MinFlying(x) = m.prev + 1 + m.n
       /\ \A j \in 1..Len(x.flying) : j + i \in (i + 1)..n /\ x.flying[j] = fl[j + i]
  <2>1. x.size = Cardinality(EntriesOf(StillFlying(m))) /\ x.flying = StillFlying(m)
    BY <1>9 DEF z
  <2> QED BY <1>2, <1>3, <1>4, <1>5, <1>9, <2>1, PoppedFlight
<1>11. Idle(x)
  BY <1>4, <1>9 DEF Idle
<1>12. Fit(x)
  <2>1. ModeOK(x)
    BY <1>10, <1>11 DEF ModeOK, Idle
  <2> QED BY <1>2, <1>9, <1>10, <2>1 DEF Fit
<1>13. CallsOK(x, C)
  <2>1. ASSUME NEW j \in 1..Len(x.flying)
        PROVE  \E c \in C : /\ c.op = "append" /\ c.id = x.flying[j].id
                            /\ c.prev + 1 = x.flying[j].index /\ c.n = x.flying[j].size
    <3> DEFINE l == j + i
    <3>1. l \in 1..n /\ i < l /\ x.flying[j] = fl[l] /\ n > 1
      <4>1. l \in (i + 1)..n /\ x.flying[j] = fl[l]
        BY <1>10
      <4> HIDE DEF l, n
      <4> QED BY <1>3, <1>5, <4>1
    <3> HIDE DEF l
    <3>2. PICK c \in rpcs : /\ c.op = "append" /\ c.id = fl[l].id
                            /\ c.prev + 1 = fl[l].index /\ c.n = fl[l].size
      BY <1>2, <3>1 DEF CallsOK
    <3>3. fl[i].index + fl[i].size <= fl[l].index /\ fl[i].size > 0
      BY <1>3, <1>5, <3>1 DEF FlyingOK, InOrder
    <3>4. fl[i].index \in Nat /\ fl[i].size \in Nat /\ fl[l].index \in Nat
      <4>1. fl[i] \in CallType /\ fl[l] \in CallType
        BY <1>5, <3>1, ElementOfSeq
      <4> QED BY <4>1 DEF CallType
    <3>5. fl[i].index # fl[l].index
      BY <3>3, <3>4
    <3>6. c # m
      BY <1>3, <3>2, <3>5
    <3> QED BY <3>1, <3>2, <3>6 DEF Others
  <2>2. \A c \in C : c \in rpcs
    BY DEF Others
  <2> HIDE DEF C
  <2>3. \A c \in C : c.op = "install" => x.reader
    BY <1>2, <1>9, <2>2 DEF CallsOK
  <2>4. /\ \A c, d \in C : c.id = d.id => c = d
        /\ \A c, d \in C : c.op = "install" /\ d.op = "install" => c = d
    BY <1>2, <2>2 DEF CallsOK
  <2> QED BY <2>1, <2>3, <2>4 DEF CallsOK
<1>14. m.prev + m.n \in Nat /\ m.prev + m.n <= Safe
  <2>1. CASE m.n > 0
    BY <1>1, <1>2, <1>4, <2>1 DEF MessageOK, SaysTrue
  <2>2. CASE m.n = 0
    <3>1. n = 1
      <4>1. ~(n > 1)
        BY <1>4, <1>5, <2>2 DEF HasProbe, FlyingOK, InOrder
      <4>2. n >= 1
        BY <1>3, <1>5
      <4>3. n \in Nat
        BY <1>5
      <4> HIDE DEF n, fl
      <4> QED BY <4>1, <4>2, <4>3
    <3>2. fl # <<>>
      BY <3>1
    <3>3. i = 1
      BY <1>3, <3>1
    <3>4. MinFlying(r) = m.prev + 1
      BY <1>3, <1>5, <3>2, <3>3 DEF FlyingOK
    <3>5. CASE r.succeeded
      BY <1>2, <1>4, <2>2, <3>4, <3>5
    <3>6. CASE ~r.succeeded
      <4>1. m.prev <= f.match
        BY <1>1, <1>2, <3>6 DEF MessageOK, SaysTrue
      <4>2. f.match <= Safe
        <5>1. f.early \in Nat /\ f.match \in Nat /\ f.synced \in Nat /\ f.match <= f.synced
          BY <3>6, Facts DEF TypeInv, FollowerType
        <5> QED BY <5>1 DEF Safe, Least, Most
      <4> QED BY <1>2, <1>4, <2>2, <4>1, <4>2
    <3> QED BY <3>5, <3>6
  <2> QED BY <1>4, <2>1, <2>2
<1>15. Success(x, C)
  <2>1. MinFlying(x) - 1 <= Safe
    BY <1>2, <1>4, <1>10, <1>14
  <2>2. C \subseteq rpcs
    BY DEF Others
  <2>3. Env(C)
    BY <1>1, <1>2, <2>2 DEF Env
  <2>4. Sending(x, C)
    BY <1>9, <1>10, <1>11, <1>12, <1>13, <2>3 DEF Sending
  <2> QED BY <1>9, <2>1, <2>2, <2>4 DEF Success
<1>16. granted' \in Nat /\ granted' <= Safe
  <2>1. granted \in Nat /\ granted <= Safe
    BY <1>2 DEF TypeInv, StoredInv
  <2> QED BY <1>1, <1>14, <2>1 DEF Most
<1>17. /\ catchup' = NotifyOk(catchup, x) /\ failed' = failed \union Notes(x)
       /\ Sends(SendEntries(TimeoutNow(x), k, t), C) /\ Throttles(t)
       /\ UNCHANGED <<log, f>>
  BY <1>1 DEF x, z
<1> HIDE DEF C
<1> QED BY <1>15, <1>16, <1>17, SuccessKeeps

LEMMA InstallReturnedKeeps ==
    ASSUME IInv, NEW m \in rpcs, NEW k \in Sizes, NEW t \in Throttled,
           InstallReturned(m, k, t)
    PROVE  IInv'
<1> DEFINE y == [r EXCEPT !.reader = FALSE]
           e == m.prev + 1
           x == [y EXCEPT !.next = e, !.succeeded = TRUE]
           b == (y.errors \/ m.ok = "failed")
           C == Others(m)
<1>1. /\ m.op = "install" /\ CanSend /\ Throttles(t) /\ UNCHANGED <<log, f, granted>>
      /\ \/ /\ m.ok # "yes" /\ r' = Block([y EXCEPT !.errors = b])
            /\ rpcs' = C /\ UNCHANGED <<catchup, failed>>
         \/ /\ m.ok = "yes" /\ catchup' = NotifyOk(catchup, x)
            /\ failed' = failed \union Notes(x)
            /\ Sends(SendEntries(TimeoutNow(x), k, t), C)
  BY DEF InstallReturned
<1>2. /\ TypeInv /\ BoundInv /\ StoredInv /\ ReadonlyOK(r, f.readonly)
      /\ r \in ReplicatorType /\ IsFiniteSet(r.waiters) /\ Fit(r) /\ CallsOK(r, rpcs)
      /\ Safe \in Nat /\ log.last \in Nat
      /\ (r.succeeded => MinFlying(r) - 1 <= Safe)
      /\ m \in RpcType /\ MessageOK(m, r.succeeded)
  BY Facts
<1>3. r.reader
  BY <1>1, <1>2 DEF CallsOK
<1>4. r.flying = <<>> /\ r.size = 0 /\ Quiet(r) /\ r.timers + r.resumes = 0
  <2>1. r.flying = <<>> /\ Quiet(r) /\ r.timers + r.resumes # 1 /\ r.timers + r.resumes <= 1
    BY <1>2, <1>3 DEF Fit, ModeOK
  <2>2. r.timers \in Nat /\ r.resumes \in Nat
    BY <1>2 DEF ReplicatorType
  <2>3. r.size = 0
    BY <1>2, <2>1 DEF Fit, FlyingOK
  <2> QED BY <2>1, <2>2, <2>3
<1>5. /\ y \in ReplicatorType /\ y.waiters = r.waiters /\ y.canceled = r.canceled
      /\ y.flying = <<>> /\ y.next = r.next /\ y.size = 0
      /\ y.reader = FALSE /\ y.succeeded = r.succeeded /\ y.woken = r.woken
      /\ y.timers = r.timers /\ y.resumes = r.resumes
      /\ y.change = r.change /\ y.readonly = r.readonly
  <2> HIDE DEF CallType
  <2> QED BY <1>2, <1>4 DEF ReplicatorType
<1>6. m.prev \in Nat /\ m.n \in Nat /\ m.n = 0 /\ m.prev <= log.last
  <2>1. m.prev \in Nat /\ m.n \in Nat
    BY <1>2 DEF RpcType
  <2>2. m.n = 0 /\ m.prev + m.n <= log.last
    BY <1>1, <1>2 DEF MessageOK, SaysTrue
  <2> QED BY <2>1, <2>2
<1>7. e \in Nat \ {0}
  BY <1>6
<1> HIDE DEF e
<1>8. /\ x \in ReplicatorType /\ x.waiters = r.waiters /\ x.canceled = r.canceled
      /\ x.flying = <<>> /\ x.next = e /\ x.size = 0
      /\ x.reader = FALSE /\ x.succeeded = TRUE /\ x.woken = r.woken
      /\ x.timers = r.timers /\ x.resumes = r.resumes
      /\ x.change = r.change /\ x.readonly = r.readonly
  <2> HIDE DEF CallType, y
  <2> QED BY <1>5, <1>7 DEF ReplicatorType
<1> HIDE DEF x, y
<1>9. C \subseteq rpcs /\ \A c \in C : c.op # "install"
  <2>1. \A c, d \in rpcs : c.op = "install" /\ d.op = "install" => c = d
    BY <1>2 DEF CallsOK
  <2> QED BY <1>1, <2>1 DEF Others
<1>10. ASSUME NEW u, u.flying = <<>>, u.size = 0, u.reader = FALSE, u \in ReplicatorType,
              u.waiters = r.waiters, u.canceled = r.canceled, u.woken = r.woken,
              u.timers + u.resumes = 0, u.next <= log.last + 1
       PROVE  Fit(u) /\ Idle(u) /\ Quiet(u) /\ CallsOK(u, C) /\ ~HasProbe(u)
                /\ MinFlying(u) = u.next
  <2>1. FlyingOK(u) /\ MinFlying(u) = u.next /\ ~HasProbe(u)
    BY <1>10, EmptyFlight
  <2>2. Idle(u) /\ Quiet(u)
    BY <1>4, <1>10 DEF Idle, Quiet
  <2>3. Fit(u)
    <3>1. ModeOK(u)
      BY <2>1, <2>2 DEF ModeOK, Idle
    <3> QED BY <1>2, <1>10, <2>1, <3>1 DEF Fit
  <2>4. Len(u.flying) = 0
    BY <1>10
  <2>5. CallsOK(u, C)
    <3>1. \A j \in 1..Len(u.flying) : FALSE
      BY <2>4
    <3>2. \A c, d \in C : c.id = d.id => c = d
      BY <1>2, <1>9 DEF CallsOK
    <3> QED BY <1>9, <3>1, <3>2 DEF CallsOK
  <2> QED BY <2>1, <2>2, <2>3, <2>5
<1>11. r.next <= log.last + 1 /\ MinFlying(r) = r.next
  <2>1. r.next \in Nat
    BY <1>2, FitFacts
  <2> QED BY <1>2, <1>4, <2>1 DEF Fit, MinFlying
<1>12. CASE /\ m.ok # "yes" /\ r' = Block([y EXCEPT !.errors = b])
            /\ rpcs' = C /\ UNCHANGED <<catchup, failed>>
  <2> DEFINE u == [y EXCEPT !.errors = b]
             v == Block(u)
             s == [x |-> v, out |-> {}]
  <2>1. /\ u \in ReplicatorType /\ u.waiters = r.waiters /\ u.canceled = r.canceled
        /\ u.flying = <<>> /\ u.next = r.next /\ u.size = 0
        /\ u.reader = FALSE /\ u.succeeded = r.succeeded /\ u.woken = r.woken
        /\ u.timers = r.timers /\ u.resumes = r.resumes
        /\ u.change = r.change /\ u.readonly = r.readonly
    <3>1. b \in BOOLEAN
      BY <1>5 DEF ReplicatorType
    <3> HIDE DEF CallType, b
    <3> QED BY <1>5, <3>1 DEF ReplicatorType
  <2> HIDE DEF u
  <2>2. Fit(u) /\ Idle(u) /\ Quiet(u) /\ CallsOK(u, C) /\ MinFlying(u) = u.next
    <3>1. u.timers + u.resumes = 0 /\ u.next <= log.last + 1
      BY <1>4, <1>11, <2>1
    <3> QED BY <1>10, <2>1, <3>1
  <2>3. Fit(v) /\ CallsOK(v, C) /\ Frame(v, u) /\ Quiet(v)
    BY <2>1, <2>2, BlockFits
  <2> HIDE DEF v
  <2>4. Frame(v, v)
    BY DEF Frame
  <2>5. SentOK(s, v, C)
    BY <2>3, <2>4 DEF SentOK
  <2>6. Sends(s, C)
    BY <1>12 DEF Sends, v, u
  <2>7. /\ ReadonlyOK(v, f.readonly) /\ (r.succeeded => v.succeeded)
        /\ (v.succeeded => MinFlying(v) - 1 <= Safe)
    BY <1>2, <1>11, <2>1, <2>2, <2>3 DEF ReadonlyOK, Frame
  <2>8. granted' \in Nat /\ granted' <= Safe /\ UNCHANGED <<log, f>>
    BY <1>1, <1>2 DEF TypeInv, StoredInv
  <2>9. RestInv'
    <3>1. faults' \in Nat /\ faults' <= MaxFailures
      BY <1>1, ThrottleIs
    <3> QED BY <1>12, <3>1, RestSame
  <2> HIDE DEF s, C
  <2> QED BY <1>9, <2>5, <2>6, <2>7, <2>8, <2>9, SendsKeeps
<1>13. CASE /\ m.ok = "yes" /\ catchup' = NotifyOk(catchup, x)
            /\ failed' = failed \union Notes(x)
            /\ Sends(SendEntries(TimeoutNow(x), k, t), C)
  <2>1. m.prev <= Safe
    <3>1. m.prev + m.n <= Safe
      BY <1>1, <1>2, <1>13 DEF MessageOK, SaysTrue
    <3> QED BY <1>6, <3>1
  <2>2. e <= log.last + 1 /\ e - 1 <= Safe
    BY <1>2, <1>6, <2>1 DEF e
  <2>3. Fit(x) /\ Idle(x) /\ CallsOK(x, C) /\ ~HasProbe(x) /\ MinFlying(x) = x.next
    <3>1. x.timers + x.resumes = 0 /\ x.next <= log.last + 1
      BY <1>4, <1>8, <2>2
    <3> QED BY <1>8, <1>10, <3>1
  <2>4. Success(x, C)
    BY <1>1, <1>2, <1>8, <1>9, <2>2, <2>3 DEF Success, Sending, Env
  <2>5. granted' \in Nat /\ granted' <= Safe /\ UNCHANGED <<log, f>> /\ Throttles(t)
    BY <1>1, <1>2 DEF TypeInv, StoredInv
  <2> HIDE DEF C
  <2> QED BY <1>13, <2>4, <2>5, SuccessKeeps
<1> QED BY <1>1, <1>12, <1>13

\* The steps that leave the calls alone.
LEMMA CatchupKeeps ==
    ASSUME IInv, UNCHANGED <<log, r, rpcs, f, granted, faults>>,
           catchup' \in CatchupType, ~catchup'.stray, failed' = {}
    PROVE  IInv'
<1>1. /\ r \in ReplicatorType /\ IsFiniteSet(r.waiters) /\ ReadonlyOK(r, f.readonly)
      /\ RestInv
  BY Facts
<1>2. Similar(r', r)
  BY <1>1 DEF Similar
<1>3. RestInv'
  BY <1>1 DEF RestInv, CleanInv
<1> QED BY <1>1, <1>2, <1>3, SimilarKeeps

LEMMA NotifyErrorIs ==
    ASSUME NEW c \in CatchupType
    PROVE  /\ NotifyError(c) \in CatchupType
           /\ [NotifyError(c) EXCEPT !.stray = FALSE] \in CatchupType
<1> DEFINE b == (c.stray \/ c.timer = "running")
           d == [c EXCEPT !.waiting = FALSE, !.set = FALSE, !.timer = "none", !.stray = b]
           e == NotifyError(c)
<1>1. d \in CatchupType
  <2>1. b \in BOOLEAN
    BY DEF CatchupType
  <2> HIDE DEF b
  <2> QED BY <2>1 DEF CatchupType
<1>2. e = d \/ e = c
  BY DEF NotifyError, EndCatchup
<1> HIDE DEF d
<1>3. e \in CatchupType
  BY <1>1, <1>2
<1> HIDE DEF e
<1>4. [e EXCEPT !.stray = FALSE] \in CatchupType
  BY <1>3 DEF CatchupType
<1> QED BY <1>3, <1>4 DEF e

LEMMA WaitForCaughtUpKeeps ==
    ASSUME IInv, WaitForCaughtUp PROVE IInv'
<1> DEFINE n == catchup.waits + 1
           c == [catchup EXCEPT !.waits = n]
           d == [c EXCEPT !.waiting = TRUE, !.timer = "armed"]
           e == [c EXCEPT !.waiting = TRUE]
<1>1. /\ catchup \in CatchupType /\ ~catchup.stray /\ failed = {}
      /\ (r.succeeded => MinFlying(r) - 1 <= Safe)
      /\ MinFlying(r) \in Nat /\ r.timeout_now \in Nat
  <2>1. Fit(r) /\ r \in ReplicatorType
    BY Facts
  <2> QED BY <2>1, Facts, FitFacts DEF RestInv, CleanInv, ReplicatorType
<1>2. /\ \/ /\ r.succeeded /\ catchup' = c
            /\ failed' = failed \union EarlyCatchup(e, r)
         \/ catchup' = d /\ UNCHANGED failed
      /\ UNCHANGED <<log, r, rpcs, f, granted, faults>>
  BY DEF WaitForCaughtUp
<1>3. n \in Nat
  BY <1>1 DEF CatchupType
<1> HIDE DEF n
<1>4. c \in CatchupType /\ ~c.stray
  BY <1>1, <1>3 DEF CatchupType
<1> HIDE DEF c
<1>5. d \in CatchupType /\ ~d.stray /\ e \in CatchupType /\ ~e.stray
  BY <1>4 DEF CatchupType
<1> HIDE DEF d, e
<1>6. r.succeeded => EarlyCatchup(e, r) = {}
  BY <1>1, <1>5, NotesAreNone
<1>7. catchup' \in CatchupType /\ ~catchup'.stray /\ failed' = {}
  BY <1>1, <1>2, <1>4, <1>5, <1>6
<1> QED BY <1>2, <1>7, CatchupKeeps

LEMMA CatchupTimerFiresKeeps ==
    ASSUME IInv, CatchupTimerFires PROVE IInv'
<1>1. catchup \in CatchupType /\ ~catchup.stray /\ failed = {}
  BY Facts DEF RestInv, CleanInv
<1>2. /\ catchup' = [catchup EXCEPT !.timer = "running"]
      /\ UNCHANGED <<log, r, rpcs, f, granted, faults, failed>>
  BY DEF CatchupTimerFires
<1>3. catchup' \in CatchupType /\ ~catchup'.stray
  BY <1>1, <1>2 DEF CatchupType
<1> QED BY <1>1, <1>2, <1>3, CatchupKeeps

LEMMA CatchupTimedoutKeeps ==
    ASSUME IInv, CatchupTimedout PROVE IInv'
<1> DEFINE d == [NotifyError(catchup) EXCEPT !.stray = FALSE]
<1>1. catchup \in CatchupType /\ catchup.stray = FALSE /\ failed = {}
  BY Facts DEF RestInv, CleanInv, CatchupType
<1>2. /\ catchup' = d /\ UNCHANGED failed
      /\ UNCHANGED <<log, r, rpcs, f, granted, faults>>
  BY <1>1 DEF CatchupTimedout
<1>3. d \in CatchupType
  BY <1>1, NotifyErrorIs
<1>4. ~d.stray
  <2> DEFINE e == NotifyError(catchup)
  <2>1. e = catchup \/ e = EndCatchup(catchup)
    BY DEF NotifyError
  <2>2. "stray" \in DOMAIN e
    BY <1>1, <2>1 DEF CatchupType, EndCatchup
  <2> HIDE DEF e
  <2>3. [e EXCEPT !.stray = FALSE].stray = FALSE
    BY <2>2
  <2> QED BY <2>3 DEF e
<1> HIDE DEF d
<1> QED BY <1>1, <1>2, <1>3, <1>4, CatchupKeeps

\* The steps that change what is asked of the replicator.
LEMMA AskedIs ==
    ASSUME IInv, NEW n \in Nat
    PROVE  Similar([r EXCEPT !.timeout_now = n], r) /\ Alike([r EXCEPT !.timeout_now = n], r)
<1> DEFINE y == [r EXCEPT !.timeout_now = n]
<1>1. r \in ReplicatorType /\ IsFiniteSet(r.waiters)
  BY Facts
<1>2. /\ y \in ReplicatorType /\ y.waiters = r.waiters /\ y.canceled = r.canceled
      /\ y.flying = r.flying /\ y.next = r.next /\ y.size = r.size
      /\ y.woken = r.woken /\ Alike(y, r)
  <2> HIDE DEF CallType
  <2> QED BY <1>1 DEF ReplicatorType, Alike
<1> HIDE DEF y
<1> QED BY <1>1, <1>2 DEF Similar, Quiet, Alike, y

LEMMA TransferLeadershipKeeps ==
    ASSUME IInv, TransferLeadership \/ StopTransferLeadership PROVE IInv'
<1>1. /\ RestInv /\ ReadonlyOK(r, f.readonly) /\ failed = {} /\ log.last \in Nat
      /\ r \in ReplicatorType /\ IsFiniteSet(r.waiters) /\ Fit(r)
      /\ Safe \in Nat /\ Safe <= Had /\ Had \in Nat
      /\ (r.succeeded => MinFlying(r) - 1 <= Safe)
  BY Facts DEF CleanInv
<1>2. /\ UNCHANGED <<log, rpcs, f, catchup, granted, faults>>
      /\ \/ UNCHANGED r /\ TransferNow(log.last)
            /\ failed' = failed \union Early(log.last)
         \/ UNCHANGED failed /\ \E n \in Nat : r' = [r EXCEPT !.timeout_now = n]
  <2>1. CASE TransferLeadership
    BY <1>1, <2>1 DEF TransferLeadership
  <2>2. CASE StopTransferLeadership
    BY <2>2 DEF StopTransferLeadership
  <2> QED BY <2>1, <2>2
<1>3. TransferNow(log.last) => Early(log.last) = {}
  <2>1. MinFlying(r) \in Nat
    BY <1>1, FitFacts
  <2>2. TransferNow(log.last) => log.last <= Had
    BY <1>1, <2>1 DEF TransferNow
  <2> QED BY <2>2 DEF Early
<1>4. failed' = {}
  BY <1>1, <1>2, <1>3
<1>5. RestInv'
  BY <1>1, <1>2, <1>4 DEF RestInv, CleanInv
<1>6. Similar(r', r) /\ Alike(r', r)
  <2>1. CASE UNCHANGED r
    BY <1>1, <2>1 DEF Similar, Alike
  <2>2. CASE \E n \in Nat : r' = [r EXCEPT !.timeout_now = n]
    BY <2>2, AskedIs
  <2> QED BY <1>2, <2>1, <2>2
<1>7. ReadonlyOK(r', f.readonly)
  BY <1>1, <1>6 DEF ReadonlyOK, Alike
<1> QED BY <1>2, <1>5, <1>6, <1>7, SimilarKeeps

\* A follower in its read-only mode stays there, and the replicator follows it.
LEMMA HeartbeatReturnedKeeps ==
    ASSUME IInv, HeartbeatReturned PROVE IInv'
<1> DEFINE s == {f.readonly}
<1>1. /\ RestInv /\ ReadonlyOK(r, f.readonly)
      /\ r \in ReplicatorType /\ IsFiniteSet(r.waiters) /\ TypeInv
  BY Facts
<1>2. /\ f.readonly # (r.readonly # 0) /\ r' = [r EXCEPT !.change = s]
      /\ UNCHANGED <<log, rpcs, f, catchup, granted, faults, failed>>
  BY DEF HeartbeatReturned
<1>3. f.readonly = TRUE /\ r.readonly = 0
  <2>1. f.readonly \in BOOLEAN
    BY <1>1 DEF TypeInv, FollowerType
  <2>2. CASE r.readonly # 0
    BY <1>1, <1>2, <2>1, <2>2 DEF ReadonlyOK
  <2>3. CASE r.readonly = 0
    BY <1>2, <2>1, <2>3
  <2> QED BY <2>2, <2>3
<1>4. s \in SUBSET BOOLEAN /\ s = {TRUE}
  BY <1>3
<1> HIDE DEF s
<1>5. /\ r' \in ReplicatorType /\ r'.waiters = r.waiters /\ r'.canceled = r.canceled
      /\ r'.flying = r.flying /\ r'.next = r.next /\ r'.size = r.size
      /\ r'.woken = r.woken /\ r'.change = s /\ r'.readonly = r.readonly
      /\ r'.reader = r.reader /\ r'.succeeded = r.succeeded
      /\ r'.timers = r.timers /\ r'.resumes = r.resumes
  <2> HIDE DEF CallType
  <2> QED BY <1>1, <1>2, <1>4 DEF ReplicatorType
<1>6. Similar(r', r)
  BY <1>1, <1>5 DEF Similar, Quiet
<1>7. ReadonlyOK(r', f.readonly)
  BY <1>3, <1>4, <1>5 DEF ReadonlyOK
<1>8. RestInv'
  BY <1>1, <1>2 DEF RestInv, CleanInv
<1> QED BY <1>2, <1>6, <1>7, <1>8, SimilarKeeps

LEMMA ChangeReadonlyConfigKeeps ==
    ASSUME IInv, ChangeReadonlyConfig PROVE IInv'
<1> DEFINE x == [r EXCEPT !.change = {}]
           n == log.last + 1
           y == [x EXCEPT !.readonly = n]
<1>1. /\ RestInv /\ ReadonlyOK(r, f.readonly) /\ log.last \in Nat
      /\ r \in ReplicatorType /\ IsFiniteSet(r.waiters) /\ TypeInv
  BY Facts
<1>2. /\ r.change # {}
      /\ r' = IF (TRUE \in r.change) = (r.readonly # 0) THEN x
              ELSE IF TRUE \in r.change THEN y
              ELSE WaitMore([x EXCEPT !.readonly = 0])
      /\ UNCHANGED <<log, rpcs, f, catchup, granted, faults, failed>>
  BY DEF ChangeReadonlyConfig
<1>3. TRUE \in r.change /\ f.readonly
  BY <1>1, <1>2 DEF ReadonlyOK
<1>4. r' = x \/ r' = y
  BY <1>2, <1>3
<1>5. n \in Nat
  BY <1>1
<1> HIDE DEF n
<1>6. ASSUME NEW z \in {x, y}
      PROVE  /\ z \in ReplicatorType /\ z.waiters = r.waiters /\ z.canceled = r.canceled
             /\ z.flying = r.flying /\ z.next = r.next /\ z.size = r.size
             /\ z.woken = r.woken /\ z.change = {}
             /\ z.reader = r.reader /\ z.succeeded = r.succeeded
             /\ z.timers = r.timers /\ z.resumes = r.resumes
  <2> HIDE DEF CallType
  <2>1. CASE z = x
    BY <1>1, <2>1 DEF ReplicatorType
  <2>2. CASE z = y
    BY <1>1, <1>5, <2>2 DEF ReplicatorType
  <2> QED BY <2>1, <2>2
<1> HIDE DEF x, y
<1>7. Similar(r', r) /\ r'.change = {}
  BY <1>1, <1>4, <1>6 DEF Similar, Quiet
<1>8. ReadonlyOK(r', f.readonly)
  BY <1>3, <1>7 DEF ReadonlyOK
<1>9. RestInv'
  BY <1>1, <1>2 DEF RestInv, CleanInv
<1> QED BY <1>2, <1>7, <1>8, <1>9, SimilarKeeps

LEMMA StopKeeps ==
    ASSUME IInv, Stop PROVE IInv'
<1> DEFINE y == [r EXCEPT !.alive = FALSE, !.flying = <<>>, !.size = 0, !.waiters = {},
                      !.woken = 0, !.timers = 0, !.resumes = 0, !.change = {},
                      !.wait = 0, !.reader = FALSE, !.st = "IDLE", !.next = 1,
                      !.timeout_now = 0, !.readonly = 0, !.canceled = FALSE]
           d == [NotifyError(catchup) EXCEPT !.timer = "none", !.stray = FALSE]
           s == [x |-> y, out |-> {}]
<1>1. /\ r' = y /\ catchup' = d /\ rpcs' = {}
      /\ UNCHANGED <<log, f, granted, faults, failed>>
  BY DEF Stop
<1>2. /\ TypeInv /\ StoredInv /\ RestInv /\ r \in ReplicatorType
      /\ Safe \in Nat /\ log.last \in Nat
  BY Facts
<1>3. d \in CatchupType /\ ~d.stray
  <2> DEFINE e == NotifyError(catchup)
  <2>1. e \in CatchupType
    BY <1>2, NotifyErrorIs DEF RestInv
  <2> HIDE DEF e
  <2>2. /\ [e EXCEPT !.timer = "none", !.stray = FALSE] \in CatchupType
        /\ [e EXCEPT !.timer = "none", !.stray = FALSE].stray = FALSE
    BY <2>1 DEF CatchupType
  <2> QED BY <2>2 DEF e
<1>4. /\ y \in ReplicatorType /\ y.waiters = {} /\ y.woken = 0
      /\ y.flying = <<>> /\ y.next = 1 /\ y.size = 0 /\ y.reader = FALSE
      /\ y.timers = 0 /\ y.resumes = 0 /\ y.change = {} /\ y.readonly = 0
      /\ y.succeeded = r.succeeded
  <2> DEFINE u == [r EXCEPT !.alive = FALSE, !.flying = <<>>, !.size = 0, !.waiters = {},
                            !.woken = 0]
             v == [u EXCEPT !.timers = 0, !.resumes = 0, !.change = {}, !.wait = 0,
                            !.reader = FALSE]
             one == 1
             z == [v EXCEPT !.st = "IDLE", !.next = one]
             w == [z EXCEPT !.timeout_now = 0, !.readonly = 0, !.canceled = FALSE]
  <2>1. <<>> \in Seq(CallType)
    OBVIOUS
  <2>2. y = w
    OBVIOUS
  <2> HIDE DEF CallType, y
  <2>3. /\ u \in ReplicatorType /\ u.waiters = {} /\ u.woken = 0
        /\ u.flying = <<>> /\ u.size = 0 /\ u.succeeded = r.succeeded
    BY <1>2, <2>1 DEF ReplicatorType
  <2> HIDE DEF u
  <2>4. /\ v \in ReplicatorType /\ v.waiters = {} /\ v.woken = 0
        /\ v.flying = <<>> /\ v.size = 0 /\ v.succeeded = r.succeeded
        /\ v.timers = 0 /\ v.resumes = 0 /\ v.change = {} /\ v.reader = FALSE
    BY <2>3 DEF ReplicatorType
  <2> HIDE DEF v
  <2>5. /\ z \in ReplicatorType /\ z.waiters = {} /\ z.woken = 0
         /\ z.flying = <<>> /\ z.size = 0 /\ z.succeeded = r.succeeded
         /\ z.timers = 0 /\ z.resumes = 0 /\ z.change = {} /\ z.reader = FALSE
         /\ z.next = one
    <3>1. one \in Nat \ {0}
      OBVIOUS
    <3> HIDE DEF one
    <3> QED BY <2>4, <3>1 DEF ReplicatorType
  <2> HIDE DEF z
  <2>6. /\ w \in ReplicatorType /\ w.waiters = {} /\ w.woken = 0
        /\ w.flying = <<>> /\ w.size = 0 /\ w.succeeded = r.succeeded
        /\ w.timers = 0 /\ w.resumes = 0 /\ w.change = {} /\ w.reader = FALSE
        /\ w.next = 1 /\ w.readonly = 0
    BY <2>5 DEF ReplicatorType
  <2> HIDE DEF w
  <2> QED BY <2>2, <2>6
<1> HIDE DEF y, d
<1>5. FlyingOK(y) /\ MinFlying(y) = 1 /\ ~HasProbe(y) /\ Idle(y) /\ Quiet(y)
  <2>1. FlyingOK(y) /\ MinFlying(y) = y.next /\ ~HasProbe(y)
    BY <1>4, EmptyFlight
  <2> QED BY <1>4, <2>1 DEF Idle, Quiet
<1>6. Fit(y)
  <2>1. IsFiniteSet(y.waiters)
    BY <1>4, FS_EmptySet
  <2>2. ModeOK(y)
    BY <1>5 DEF ModeOK, Idle
  <2>3. y.next <= log.last + 1
    BY <1>2, <1>4
  <2> QED BY <1>2, <1>4, <1>5, <2>1, <2>2, <2>3 DEF Fit
<1>7. CallsOK(y, {})
  <2>1. Len(y.flying) = 0
    BY <1>4
  <2>2. \A i \in 1..Len(y.flying) : FALSE
    BY <2>1
  <2> QED BY <2>2 DEF CallsOK
<1>8. SentOK(s, y, {})
  <2>1. Frame(y, y)
    BY DEF Frame
  <2> QED BY <1>5, <1>6, <1>7, <2>1 DEF SentOK
<1>9. Sends(s, {}) /\ {} \subseteq rpcs /\ UNCHANGED <<log, f>>
  BY <1>1 DEF Sends
<1>10. /\ ReadonlyOK(y, f.readonly) /\ (r.succeeded => y.succeeded)
       /\ MinFlying(y) - 1 <= Safe
  BY <1>2, <1>4, <1>5 DEF ReadonlyOK
<1>11. granted' \in Nat /\ granted' <= Safe
  BY <1>1, <1>2 DEF TypeInv, StoredInv
<1>12. RestInv'
  BY <1>1, <1>2, <1>3 DEF RestInv, CleanInv
<1> HIDE DEF s
<1> QED BY <1>8, <1>9, <1>10, <1>11, <1>12, SendsKeeps

-----------------------------------------------------------------------------
(* The steps of the follower and of the network.                           *)

\* What a step of the follower does to it.
FollowerMoves ==
    /\ FollowerType'
    /\ f'.match <= f'.len /\ f'.match <= MaxLog
    /\ f'.len <= MaxLog + 1 /\ f'.synced <= MaxLog + 1 /\ f'.early <= MaxLog
    /\ Safe <= Safe' /\ (f.readonly => f'.readonly)
    /\ ~r.succeeded => f'.match <= f'.synced
    /\ faults' \in Nat /\ faults' <= MaxFailures
    /\ UNCHANGED <<log, r, catchup, granted, failed>>

\* What a message says is true of the follower as it now is.
StillTrue(m) == SaysTrue(m, r.succeeded, log.last, f'.match, Safe')

\* The messages stay what they are, but for where they are and what is answered.
SameCall(k, m) == k \in RpcType /\ k.id = m.id /\ k.op = m.op /\ k.prev = m.prev /\ k.n = m.n

LEMMA FollowerKeeps ==
    ASSUME IInv, FollowerMoves, NEW g,
           \A m \in rpcs : SameCall(g[m], m) /\ StillTrue(g[m]),
           \A k : k \in rpcs' <=> \E m \in rpcs : k = g[m]
    PROVE  IInv'
<1>1. /\ TypeInv /\ BoundInv /\ FlightInv /\ StoredInv /\ CleanInv
      /\ (~r.succeeded => Quiet(r)) /\ CallsOK(r, rpcs) /\ ReadonlyOK(r, f.readonly)
      /\ (r.succeeded => MinFlying(r) - 1 <= Safe) /\ granted <= Safe
      /\ MinFlying(r) \in Nat /\ Safe \in Nat /\ granted \in Nat
  <2>1. Fit(r) /\ TypeInv /\ StoredInv
    BY Facts
  <2>2. MinFlying(r) \in Nat
    BY <2>1, FitFacts
  <2> QED BY <2>1, <2>2, Facts DEF TypeInv, StoredInv
<1>2. /\ FollowerType'
      /\ f'.match <= f'.len /\ f'.match <= MaxLog
      /\ f'.len <= MaxLog + 1 /\ f'.synced <= MaxLog + 1 /\ f'.early <= MaxLog
      /\ Safe <= Safe' /\ (f.readonly => f'.readonly)
      /\ (~r.succeeded => f'.match <= f'.synced)
      /\ faults' \in Nat /\ faults' <= MaxFailures
      /\ log' = log /\ r' = r /\ catchup' = catchup /\ granted' = granted
      /\ failed' = failed
  BY DEF FollowerMoves
<1>3. rpcs' \in SUBSET RpcType
  BY DEF SameCall
<1>4. TypeInv'
  BY <1>1, <1>2, <1>3 DEF TypeInv
<1>5. BoundInv'
  BY <1>1, <1>2 DEF BoundInv
<1>6. CallsOK(r, rpcs')
  <2>1. ASSUME NEW i \in 1..Len(r.flying)
        PROVE  \E k \in rpcs' : /\ k.op = "append" /\ k.id = r.flying[i].id
                                /\ k.prev + 1 = r.flying[i].index
                                /\ k.n = r.flying[i].size
    <3>1. PICK m \in rpcs : /\ m.op = "append" /\ m.id = r.flying[i].id
                            /\ m.prev + 1 = r.flying[i].index /\ m.n = r.flying[i].size
      BY <1>1 DEF CallsOK
    <3>2. g[m] \in rpcs' /\ SameCall(g[m], m)
      BY <3>1
    <3> QED BY <3>1, <3>2 DEF SameCall
  <2>2. ASSUME NEW k \in rpcs', NEW l \in rpcs', k.id = l.id PROVE k = l
    <3>1. PICK m \in rpcs : k = g[m] /\ SameCall(k, m)
      OBVIOUS
    <3>2. PICK p \in rpcs : l = g[p] /\ SameCall(l, p)
      OBVIOUS
    <3>3. m = p
      BY <1>1, <2>2, <3>1, <3>2 DEF CallsOK, SameCall
    <3> QED BY <3>1, <3>2, <3>3
  <2>3. ASSUME NEW k \in rpcs', NEW l \in rpcs', k.op = "install", l.op = "install"
        PROVE  k = l
    <3>1. PICK m \in rpcs : k = g[m] /\ SameCall(k, m)
      OBVIOUS
    <3>2. PICK p \in rpcs : l = g[p] /\ SameCall(l, p)
      OBVIOUS
    <3>3. m = p
      BY <1>1, <2>3, <3>1, <3>2 DEF CallsOK, SameCall
    <3> QED BY <3>1, <3>2, <3>3
  <2>4. ASSUME NEW k \in rpcs', k.op = "install" PROVE r.reader
    <3>1. PICK m \in rpcs : SameCall(k, m)
      OBVIOUS
    <3> QED BY <1>1, <2>4, <3>1 DEF CallsOK, SameCall
  <2> QED BY <2>1, <2>2, <2>3, <2>4 DEF CallsOK
<1>7. FlightInv'
  <2>1. ReadonlyOK(r, f'.readonly)
    BY <1>1, <1>2 DEF ReadonlyOK
  <2> QED BY <1>1, <1>2, <1>6, <2>1 DEF FlightInv
<1>8. StoredInv'
  <2>1. \A k \in rpcs' : MessageOK(k, r.succeeded)'
    <3>1. \A k \in rpcs' : StillTrue(k)
      OBVIOUS
    <3> QED BY <1>2, <3>1 DEF MessageOK, StillTrue
  <2>2. Safe' \in Nat
    BY <1>2 DEF FollowerType, Safe, Least, Most
  <2>3. (r.succeeded => MinFlying(r) - 1 <= Safe)'
    BY <1>1, <1>2, <2>2
  <2>4. (~r.succeeded => Quiet(r) /\ f.match <= f.synced)'
    BY <1>1, <1>2
  <2>5. (granted <= Safe)'
    BY <1>1, <1>2, <2>2
  <2> QED BY <2>1, <2>3, <2>4, <2>5 DEF StoredInv
<1>9. CleanInv'
  BY <1>1, <1>2 DEF CleanInv
<1> QED BY <1>4, <1>5, <1>7, <1>8, <1>9 DEF IInv

\* A message that is not answered anew keeps what it says.
LEMMA MessageKeeps ==
    ASSUME IInv, FollowerMoves, NEW m \in rpcs, f.match <= f'.match,
           NEW k, SameCall(k, m), k.ok = m.ok, k.at = "stable" => m.at = "stable"
    PROVE  StillTrue(k)
<1>1. /\ MessageOK(m, r.succeeded) /\ m \in RpcType
      /\ f.match \in Nat /\ Safe \in Nat
  BY Facts
<1>2. /\ Safe <= Safe' /\ Safe' \in Nat /\ f'.match \in Nat
      /\ log' = log /\ r' = r
  BY DEF FollowerMoves, FollowerType, Safe, Least, Most
<1>3. m.prev \in Nat /\ m.n \in Nat /\ m.prev + m.n \in Nat
  BY <1>1 DEF RpcType
<1>4. k.op = m.op /\ k.prev = m.prev /\ k.n = m.n
  BY DEF SameCall
<1> QED BY <1>1, <1>2, <1>3, <1>4 DEF MessageOK, SaysTrue, StillTrue

LEMMA AnswerIs ==
    ASSUME IInv, NEW m \in rpcs, NEW ok \in {"no", "yes", "failed"}
    PROVE  /\ SameCall(Answer(m, ok), m)
           /\ Answer(m, ok).at = "answered" /\ Answer(m, ok).ok = ok
<1>1. m \in RpcType /\ f.len \in Nat
  BY Facts
<1> QED BY <1>1 DEF Answer, RpcType, SameCall
LEMMA MovedIs ==
    ASSUME IInv, NEW m \in rpcs, NEW at \in {"cached", "released", "stable"}
    PROVE  /\ SameCall([m EXCEPT !.at = at], m)
           /\ [m EXCEPT !.at = at].at = at /\ [m EXCEPT !.at = at].ok = m.ok
<1>1. m \in RpcType
  BY Facts
<1> QED BY <1>1 DEF RpcType, SameCall

LEMMA SameCallSelf ==
    ASSUME IInv, NEW m \in rpcs PROVE SameCall(m, m)
<1>1. m \in RpcType
  BY Facts
<1> QED BY <1>1 DEF SameCall

\* The follower itself stays as it is, but for its cache.
LEMMA FollowerStays ==
    ASSUME IInv, FollowerType', f'.match = f.match, f'.len = f.len, f'.synced = f.synced,
           f'.early = f.early, f.readonly => f'.readonly, UNCHANGED <<log, r, catchup, granted, failed>>,
           faults' \in Nat, faults' <= MaxFailures
    PROVE  FollowerMoves /\ f.match <= f'.match
<1>1. /\ BoundInv /\ f.match \in Nat /\ Safe \in Nat
      /\ (~r.succeeded => f.match <= f.synced)
  BY Facts
<1>2. Safe' = Safe
  BY DEF Safe
<1> QED BY <1>1, <1>2 DEF FollowerMoves, BoundInv

\* One message changes.
LEMMA OneKeeps ==
    ASSUME IInv, FollowerMoves, f.match <= f'.match, NEW m \in rpcs, NEW k, SameCall(k, m),
           rpcs' = Others(m) \union {k}, StillTrue(k)
    PROVE  IInv'
<1> DEFINE g == [c \in rpcs |-> IF c = m THEN k ELSE c]
<1>1. \A c \in rpcs : g[c] = IF c = m THEN k ELSE c
  OBVIOUS
<1> HIDE DEF g
<1>2. ASSUME NEW c \in rpcs
      PROVE  SameCall(g[c], c) /\ StillTrue(g[c])
  <2>1. CASE c = m
    BY <1>1, <2>1
  <2>2. CASE c # m
    <3>1. g[c] = c /\ SameCall(c, c)
      BY <1>1, <2>2, SameCallSelf
    <3>2. StillTrue(c)
      BY <3>1, MessageKeeps
    <3> QED BY <3>1, <3>2
  <2> QED BY <2>1, <2>2
<1>3. ASSUME NEW j PROVE j \in rpcs' <=> \E c \in rpcs : j = g[c]
  BY <1>1 DEF Others
<1> QED BY <1>2, <1>3, FollowerKeeps

LEMMA HandleMismatchKeeps ==
    ASSUME IInv, NEW m \in rpcs, HandleMismatch(m) PROVE IInv'
<1> DEFINE k == Answer(m, "no")
<1>1. rpcs' = Others(m) \union {k} /\ UNCHANGED <<log, r, f, catchup, granted, faults, failed>>
  BY DEF HandleMismatch
<1>2. /\ TypeInv /\ RestInv /\ m \in RpcType /\ MessageOK(m, r.succeeded)
  BY Facts
<1>3. SameCall(k, m) /\ k.at = "answered" /\ k.ok = "no"
  BY AnswerIs
<1> HIDE DEF k
<1>4. FollowerMoves /\ f.match <= f'.match
  <2>1. FollowerType'
    BY <1>1, <1>2 DEF TypeInv, FollowerType
  <2> QED BY <1>1, <1>2, <2>1, FollowerStays DEF RestInv
<1>5. StillTrue(k)
  BY <1>1, <1>2, <1>3 DEF MessageOK, SaysTrue, StillTrue, SameCall
<1> QED BY <1>1, <1>3, <1>4, <1>5, OneKeeps

LEMMA CallFailsKeeps ==
    ASSUME IInv, NEW m \in rpcs, CallFails(m) PROVE IInv'
<1> DEFINE k == [m EXCEPT !.at = "answered", !.ok = "failed"]
           n == faults + 1
<1>1. /\ rpcs' = Others(m) \union {k} /\ faults < MaxFailures /\ faults' = n
      /\ UNCHANGED <<log, r, f, catchup, granted, failed>>
  BY DEF CallFails
<1>2. /\ TypeInv /\ RestInv /\ m \in RpcType /\ MessageOK(m, r.succeeded)
      /\ MaxFailures \in Nat
  BY Facts
<1>3. SameCall(k, m) /\ k.at = "answered" /\ k.ok = "failed"
  BY <1>2 DEF SameCall, RpcType
<1> HIDE DEF k
<1>4. FollowerMoves /\ f.match <= f'.match
  <2>1. FollowerType'
    BY <1>1, <1>2 DEF TypeInv, FollowerType
  <2>2. faults' \in Nat /\ faults' <= MaxFailures
    BY <1>1, <1>2 DEF RestInv
  <2> QED BY <1>1, <1>2, <2>1, <2>2, FollowerStays
<1>5. StillTrue(k)
  BY <1>1, <1>2, <1>3 DEF MessageOK, SaysTrue, StillTrue, SameCall
<1> QED BY <1>1, <1>3, <1>4, <1>5, OneKeeps

LEMMA ToggleReadonlyKeeps ==
    ASSUME IInv, "leave" \notin Readonly, ToggleReadonly PROVE IInv'
<1> DEFINE g == [c \in rpcs |-> c]
           b == ~f.readonly
<1>1. /\ (IF f.readonly THEN "leave" ELSE "enter") \in Readonly
      /\ faults < MaxFailures /\ faults' = faults + 1 /\ f' = [f EXCEPT !.readonly = b]
      /\ UNCHANGED <<log, r, rpcs, catchup, granted, failed>>
  BY DEF ToggleReadonly
<1>2. TypeInv /\ RestInv /\ MaxFailures \in Nat
  BY Facts
<1>3. ~f.readonly
  BY <1>1
<1>4. b = TRUE
  BY <1>3
<1> HIDE DEF b
<1>5. /\ FollowerType' /\ f'.match = f.match /\ f'.len = f.len /\ f'.synced = f.synced
      /\ f'.early = f.early /\ (f.readonly => f'.readonly)
  BY <1>1, <1>2, <1>3, <1>4 DEF TypeInv, FollowerType
<1>6. FollowerMoves /\ f.match <= f'.match
  <2>1. faults' \in Nat /\ faults' <= MaxFailures
    BY <1>1, <1>2 DEF RestInv
  <2> QED BY <1>1, <1>5, <2>1, FollowerStays
<1>7. \A c \in rpcs : g[c] = c
  OBVIOUS
<1> HIDE DEF g
<1>8. ASSUME NEW c \in rpcs PROVE SameCall(g[c], c) /\ StillTrue(g[c])
  <2>1. SameCall(c, c)
    BY SameCallSelf
  <2>2. StillTrue(c)
    BY <1>6, <2>1, MessageKeeps
  <2> QED BY <1>7, <2>1, <2>2
<1>9. ASSUME NEW j PROVE j \in rpcs' <=> \E c \in rpcs : j = g[c]
  BY <1>1, <1>7
<1> QED BY <1>6, <1>8, <1>9, FollowerKeeps

\* Where messages are moved to.
MovedTo(c, at) == [c EXCEPT !.at = at]
IntoCache(K) == {[c EXCEPT !.at = "cached"] : c \in K}
LEMMA MovedSets ==
    ASSUME NEW S
    PROVE  /\ \A j : j \in Released(S) <=> \E c \in S : j = MovedTo(c, "released")
           /\ \A j : j \in IntoCache(S) <=> \E c \in S : j = MovedTo(c, "cached")
BY DEF Released, IntoCache, MovedTo

\* Messages that only leave or enter the cache, or go on being handled.
LEMMA MovesKeep ==
    ASSUME IInv, FollowerMoves, f.match <= f'.match, NEW R, NEW K, R \subseteq rpcs,
           K \subseteq rpcs, R \intersect K = {},
           rpcs' = (rpcs \ (R \union K)) \union Released(R)
                      \union IntoCache(K)
    PROVE  IInv'
<1> DEFINE g == [c \in rpcs |-> IF c \in R THEN MovedTo(c, "released")
                                ELSE IF c \in K THEN MovedTo(c, "cached") ELSE c]
<1>1. \A c \in rpcs : /\ c \in R => g[c] = MovedTo(c, "released")
                      /\ c \in K => g[c] = MovedTo(c, "cached")
                      /\ c \notin R /\ c \notin K => g[c] = c
  OBVIOUS
<1> HIDE DEF g
<1>2. ASSUME NEW c \in rpcs PROVE SameCall(g[c], c) /\ StillTrue(g[c])
  <2>1. ASSUME NEW a \in {"cached", "released", "stable"}, a # "stable",
               g[c] = MovedTo(c, a)
        PROVE  SameCall(g[c], c) /\ StillTrue(g[c])
    <3> DEFINE k == [c EXCEPT !.at = a]
    <3>1. SameCall(k, c) /\ k.at = a /\ k.ok = c.ok
      BY MovedIs
    <3> HIDE DEF k
    <3>2. StillTrue(k)
      BY <2>1, <3>1, MessageKeeps
    <3>3. g[c] = k
      BY <2>1 DEF k, MovedTo
    <3> QED BY <3>1, <3>2, <3>3
  <2>2. CASE c \in R
    BY <1>1, <2>1, <2>2
  <2>3. CASE c \in K
    BY <1>1, <2>1, <2>3
  <2>4. CASE c \notin R /\ c \notin K
    <3>1. g[c] = c /\ SameCall(c, c)
      BY <1>1, <2>4, SameCallSelf
    <3>2. StillTrue(c)
      BY <3>1, MessageKeeps
    <3> QED BY <3>1, <3>2
  <2> QED BY <2>2, <2>3, <2>4
<1>3. ASSUME NEW j PROVE j \in rpcs' <=> \E c \in rpcs : j = g[c]
  <2>1. ASSUME j \in rpcs' PROVE \E c \in rpcs : j = g[c]
    BY <1>1, <2>1, MovedSets
  <2>2. ASSUME NEW c \in rpcs, j = g[c] PROVE j \in rpcs'
    <3>1. CASE c \in R
      BY <1>1, <2>2, <3>1, MovedSets
    <3>2. CASE c \in K
      BY <1>1, <2>2, <3>2, MovedSets
    <3>3. CASE c \notin R /\ c \notin K
      BY <1>1, <2>2, <3>3
    <3> QED BY <3>1, <3>2, <3>3
  <2> QED BY <2>1, <2>2
<1> QED BY <1>2, <1>3, FollowerKeeps

\* A step of the cache, which leaves the rest of the follower alone.
LEMMA CacheStays ==
    ASSUME IInv, NEW q, NEW u, f' = [f EXCEPT !.queue = q, !.timer = u],
           UNCHANGED <<log, r, catchup, granted, faults, failed>>
    PROVE  FollowerMoves /\ f.match <= f'.match
<1>1. FollowerType /\ RestInv
  BY Facts DEF TypeInv
<1>2. /\ FollowerType' /\ f'.match = f.match /\ f'.len = f.len /\ f'.synced = f.synced
      /\ f'.early = f.early /\ f'.readonly = f.readonly
  BY <1>1 DEF FollowerType
<1>3. faults' \in Nat /\ faults' <= MaxFailures
  BY <1>1 DEF RestInv
<1> QED BY <1>2, <1>3, FollowerStays

LEMMA HandleOutOfOrderKeeps ==
    ASSUME IInv, NEW m \in rpcs, HandleOutOfOrder(m) PROVE IInv'
<1> DEFINE cleared == IF Overlaps(m) THEN Cached ELSE {}
           kept    == (Cached \ cleared) \union {m}
           evicted == IF Cardinality(kept) <= CacheSize THEN {}
                      ELSE {c \in kept : \A d \in kept : d.prev <= c.prev}
           queue   == Removed(f.queue, cleared)
           R == cleared \union evicted
           K == kept \ evicted
           q == Removed(Append(queue, m.id), evicted)
           u == IF queue = <<>> THEN m.id ELSE f.timer
<1>1. /\ m.at = "sent"
      /\ rpcs' = (Others(m) \ Cached) \union Released(R)
                     \union {[c EXCEPT !.at = "cached"] : c \in K}
      /\ f' = [f EXCEPT !.queue = q, !.timer = u]
      /\ UNCHANGED <<log, r, catchup, granted, faults, failed>>
  BY DEF HandleOutOfOrder, Ready
<1> HIDE DEF q, u
<1>2. FollowerMoves /\ f.match <= f'.match
  BY <1>1, CacheStays
<1>3. Cached \subseteq rpcs /\ m \notin Cached
  BY <1>1 DEF Cached
<1>4. cleared \subseteq Cached /\ evicted \subseteq kept
  OBVIOUS
<1> HIDE DEF evicted, cleared
<1>5. kept \subseteq rpcs /\ kept \intersect cleared = {}
  BY <1>3, <1>4
<1>6. R \union K = Cached \union {m}
  BY <1>3, <1>4
<1>7. R \intersect K = {} /\ R \subseteq rpcs /\ K \subseteq rpcs
  BY <1>3, <1>4, <1>5
<1> HIDE DEF R, K
<1>8. rpcs \ (R \union K) = Others(m) \ Cached
  BY <1>6 DEF Others
<1>9. rpcs' = (rpcs \ (R \union K)) \union Released(R)
                 \union IntoCache(K)
  BY <1>1, <1>8 DEF IntoCache
<1> QED BY <1>2, <1>7, <1>9, MovesKeep

LEMMA CacheTimedoutKeeps ==
    ASSUME IInv, CacheTimedout PROVE IInv'
<1> DEFINE h == Head(f.queue)
<1>1. UNCHANGED <<log, r, catchup, granted, faults, failed>>
  BY DEF CacheTimedout
<1>2. CASE h = f.timer
  <2>1. /\ rpcs' = (rpcs \ Cached) \union Released(Cached)
        /\ f' = [f EXCEPT !.queue = <<>>, !.timer = 0]
    BY <1>2 DEF CacheTimedout
  <2>2. FollowerMoves /\ f.match <= f'.match
    BY <1>1, <2>1, CacheStays
  <2>3. Cached \subseteq rpcs /\ {} \subseteq rpcs /\ Cached \intersect {} = {}
    BY DEF Cached
  <2>4. rpcs' = (rpcs \ (Cached \union {})) \union Released(Cached)
                   \union IntoCache({})
    BY <2>1 DEF IntoCache
  <2> QED BY <2>2, <2>3, <2>4, MovesKeep
<1>3. CASE h # f.timer
  <2>1. rpcs' = rpcs /\ f' = [f EXCEPT !.timer = h]
    BY <1>3 DEF CacheTimedout
  <2>2. FollowerMoves /\ f.match <= f'.match
    <3>1. FollowerType /\ RestInv
      BY Facts DEF TypeInv
    <3> HIDE DEF h
    <3>2. /\ FollowerType' /\ f'.match = f.match /\ f'.len = f.len
          /\ f'.synced = f.synced /\ f'.early = f.early /\ f'.readonly = f.readonly
      BY <2>1, <3>1 DEF FollowerType
    <3>3. faults' \in Nat /\ faults' <= MaxFailures
      BY <1>1, <3>1 DEF RestInv
    <3> QED BY <1>1, <3>2, <3>3, FollowerStays
  <2>3. {} \subseteq rpcs /\ {} \intersect {} = {}
    OBVIOUS
  <2>4. rpcs' = (rpcs \ ({} \union {})) \union Released({})
                   \union IntoCache({})
    BY <2>1 DEF Released, IntoCache
  <2> QED BY <2>2, <2>3, <2>4, MovesKeep
<1> QED BY <1>2, <1>3

\* The entries of a request that matches, and what becomes of the log.
Written(p, n, a, b, c, l, x, y, z) ==
    /\ {p, n, a, b, c, l} \subseteq Nat
    /\ p <= a /\ a <= b /\ a <= l /\ b <= l + 1 /\ c <= l + 1 /\ p + n <= l
    /\ x = IF p <= a THEN Most(a, p + n) ELSE a
    /\ y = IF p + n > a THEN p + n ELSE b
    /\ z = IF p + n > a THEN Least(c, a) ELSE c
LEMMA WrittenIs ==
    ASSUME NEW p, NEW n, NEW a, NEW b, NEW c, NEW l, NEW x, NEW y, NEW z,
           Written(p, n, a, b, c, l, x, y, z)
    PROVE  /\ x \in Nat /\ y \in Nat /\ z \in Nat
           /\ x <= y /\ x <= l /\ y <= l + 1 /\ z <= l + 1 /\ a <= x /\ p + n <= x
           /\ Least(x, z) = Least(a, c) /\ (n = 0 => x = a /\ z = c)
<1>0. /\ p \in Nat /\ n \in Nat /\ a \in Nat /\ b \in Nat /\ c \in Nat /\ l \in Nat
      /\ p <= a /\ a <= b /\ a <= l /\ b <= l + 1 /\ c <= l + 1 /\ p + n <= l
      /\ x = IF p <= a THEN Most(a, p + n) ELSE a
      /\ y = IF p + n > a THEN p + n ELSE b
      /\ z = IF p + n > a THEN Least(c, a) ELSE c
  BY DEF Written
<1> DEFINE e == p + n
<1>1. e \in Nat /\ e <= l /\ (n = 0 => e <= a)
  BY <1>0
<1>2. x = Most(a, e) /\ y = (IF e > a THEN e ELSE b) /\ z = (IF e > a THEN Least(c, a) ELSE c)
  BY <1>0
<1> HIDE DEF e
<1>3. CASE e > a
  <2>1. x = e /\ y = e /\ z = Least(c, a)
    BY <1>0, <1>1, <1>2, <1>3 DEF Most
  <2> QED BY <1>0, <1>1, <1>3, <2>1 DEF Least, e
<1>4. CASE e <= a
  <2>1. x = a /\ y = b /\ z = c
    BY <1>0, <1>1, <1>2, <1>4 DEF Most
  <2> QED BY <1>0, <1>1, <1>4, <2>1 DEF e
<1>5. e > a \/ e <= a
  BY <1>0, <1>1
<1> QED BY <1>3, <1>4, <1>5

\* One message changes, and others leave the cache.
LEMMA OneAndMovesKeep ==
    ASSUME IInv, FollowerMoves, f.match <= f'.match, NEW m \in rpcs, NEW k, SameCall(k, m),
           NEW R, R \subseteq rpcs, m \notin R, StillTrue(k),
           rpcs' = ((Others(m) \ R) \union Released(R)) \union {k}
    PROVE  IInv'
<1> DEFINE g == [c \in rpcs |-> IF c = m THEN k
                                ELSE IF c \in R THEN MovedTo(c, "released") ELSE c]
<1>1. \A c \in rpcs : /\ c = m => g[c] = k
                      /\ c \in R => g[c] = MovedTo(c, "released")
                      /\ c # m /\ c \notin R => g[c] = c
  OBVIOUS
<1> HIDE DEF g
<1>2. ASSUME NEW c \in rpcs PROVE SameCall(g[c], c) /\ StillTrue(g[c])
  <2>1. CASE c = m
    BY <1>1, <2>1
  <2>2. CASE c \in R
    <3> DEFINE a == [c EXCEPT !.at = "released"]
    <3>1. SameCall(a, c) /\ a.at = "released" /\ a.ok = c.ok
      BY MovedIs
    <3>2. g[c] = a
      BY <1>1, <2>2 DEF MovedTo
    <3> HIDE DEF a
    <3>3. StillTrue(a)
      BY <3>1, MessageKeeps
    <3> QED BY <3>1, <3>2, <3>3
  <2>3. CASE c # m /\ c \notin R
    <3>1. g[c] = c /\ SameCall(c, c)
      BY <1>1, <2>3, SameCallSelf
    <3>2. StillTrue(c)
      BY <3>1, MessageKeeps
    <3> QED BY <3>1, <3>2
  <2> QED BY <2>1, <2>2, <2>3
<1>3. ASSUME NEW j PROVE j \in rpcs' <=> \E c \in rpcs : j = g[c]
  <2>1. ASSUME j \in rpcs' PROVE \E c \in rpcs : j = g[c]
    BY <1>1, <2>1, MovedSets DEF Others
  <2>2. ASSUME NEW c \in rpcs, j = g[c] PROVE j \in rpcs'
    <3>1. CASE c = m
      BY <1>1, <2>2, <3>1
    <3>2. CASE c \in R
      BY <1>1, <2>2, <3>2, MovedSets
    <3>3. CASE c # m /\ c \notin R
      BY <1>1, <2>2, <3>3 DEF Others
    <3> QED BY <3>1, <3>2, <3>3
  <2> QED BY <2>1, <2>2
<1> QED BY <1>2, <1>3, FollowerKeeps

LEMMA HandleAppendEntriesKeeps ==
    ASSUME IInv, NEW m \in rpcs, NEW e \in BOOLEAN, HandleAppendEntries(m, e) PROVE IInv'
<1> DEFINE last == m.prev + m.n
           R == IF m.n = 0 THEN {} ELSE Runable(last)
           queue == Removed(f.queue, R)
           k == IF m.n = 0 \/ e THEN Answer(m, "yes") ELSE [m EXCEPT !.at = "stable"]
           x == IF m.prev <= f.match THEN Most(f.match, last) ELSE f.match
           y == IF last > f.match THEN last ELSE f.len
           z == IF last > f.match THEN Least(f.synced, f.match) ELSE f.synced
           u == IF queue = <<>> THEN 0 ELSE f.timer
           v == IF e /\ last > f.synced THEN Most(f.early, last) ELSE f.early
<1>1. /\ (e => MayBeApplied(m))
      /\ m.at \in {"sent", "released"} /\ m.op = "append" /\ m.prev <= f.match
      /\ rpcs' = ((Others(m) \ R) \union Released(R)) \union {k}
      /\ f' = [f EXCEPT !.match = x, !.len = y, !.synced = z, !.early = v,
                      !.queue = queue, !.timer = u]
      /\ UNCHANGED <<log, r, catchup, granted, faults, failed>>
  BY DEF HandleAppendEntries, Ready, Matches
<1>2. /\ TypeInv /\ BoundInv /\ RestInv /\ m \in RpcType /\ MessageOK(m, r.succeeded)
      /\ f.match \in Nat /\ f.synced \in Nat /\ f.len \in Nat
      /\ MaxLog \in Nat /\ log.last \in Nat
      /\ (~r.succeeded => f.match <= f.synced)
  BY Facts
<1>3. /\ m.prev \in Nat /\ m.n \in Nat /\ last \in Nat /\ last <= log.last
      /\ last <= MaxLog
  <2>1. m.prev \in Nat /\ m.n \in Nat
    BY <1>2 DEF RpcType
  <2>2. last <= log.last /\ log.last <= MaxLog
    BY <1>2 DEF MessageOK, SaysTrue, BoundInv
  <2> QED BY <1>2, <2>1, <2>2
<1>4. /\ x \in Nat /\ y \in Nat /\ z \in Nat
      /\ x <= y /\ x <= MaxLog /\ y <= MaxLog + 1 /\ z <= MaxLog + 1
      /\ f.match <= x /\ last <= x
      /\ Least(x, z) = Least(f.match, f.synced) /\ (m.n = 0 => x = f.match /\ z = f.synced)
  <2>1. /\ f.match <= f.len /\ f.match <= MaxLog /\ f.len <= MaxLog + 1
        /\ f.synced <= MaxLog + 1
    BY <1>2 DEF BoundInv
  <2>2. /\ x = IF m.prev <= f.match THEN Most(f.match, m.prev + m.n) ELSE f.match
        /\ y = IF m.prev + m.n > f.match THEN m.prev + m.n ELSE f.len
        /\ z = IF m.prev + m.n > f.match THEN Least(f.synced, f.match) ELSE f.synced
    OBVIOUS
  <2> HIDE DEF x, y, z
  <2>3. Written(m.prev, m.n, f.match, f.len, f.synced, MaxLog, x, y, z)
    BY <1>1, <1>2, <1>3, <2>1, <2>2 DEF Written
  <2> HIDE DEF last
  <2> QED BY <2>3, WrittenIs DEF last
<1>5. R \subseteq rpcs /\ \A c \in R : c.at = "cached"
  BY DEF Runable, Cached
<1>a. /\ f.early \in Nat /\ f.early <= MaxLog /\ v \in Nat /\ v <= MaxLog
      /\ f.early <= v /\ (e /\ last > f.synced => last <= v)
  <2>1. f.early \in Nat /\ f.early <= MaxLog
    BY <1>2 DEF TypeInv, FollowerType, BoundInv
  <2> HIDE DEF last
  <2> QED BY <1>2, <1>3, <2>1 DEF Most
<1>b. e => last <= f.match
  BY <1>1 DEF MayBeApplied
<1> HIDE DEF x, y, z, queue, u, v, R
<1>6. /\ f'.match = x /\ f'.len = y /\ f'.synced = z /\ f'.early = v
      /\ f'.readonly = f.readonly /\ FollowerType'
  BY <1>1, <1>2, <1>4, <1>a DEF TypeInv, FollowerType
<1>7. Safe <= Safe' /\ (e => last <= Safe')
  <2>1. /\ Safe = Most(f.early, Least(f.match, f.synced))
        /\ Safe' = Most(v, Least(f.match, f.synced))
    BY <1>4, <1>6 DEF Safe
  <2> HIDE DEF last
  <2> QED BY <1>2, <1>3, <1>a, <1>b, <2>1 DEF Most, Least
<1>8. r.succeeded \/ m.n = 0
  BY <1>2 DEF MessageOK, SaysTrue
<1>9. FollowerMoves /\ f.match <= f'.match
  <2>1. ~r.succeeded => f'.match <= f'.synced
    BY <1>2, <1>4, <1>6, <1>8
  <2>2. Safe <= Safe'
    BY <1>7
  <2>3. faults' \in Nat /\ faults' <= MaxFailures
    BY <1>1, <1>2 DEF RestInv
  <2> QED BY <1>1, <1>4, <1>6, <1>a, <2>1, <2>2, <2>3 DEF FollowerMoves
<1>10. SameCall(k, m) /\ StillTrue(k)
  <2>1. CASE m.n = 0
    <3> DEFINE a == Answer(m, "yes")
    <3>1. SameCall(a, m) /\ a.at = "answered" /\ a.ok = "yes"
      BY AnswerIs
    <3>2. k = a
      BY <2>1
    <3> HIDE DEF a, k
    <3>3. m.prev <= f'.match
      BY <1>1, <1>4, <1>6, <2>1
    <3>4. StillTrue(a)
      BY <1>1, <1>2, <1>3, <2>1, <3>1, <3>3 DEF StillTrue, SaysTrue, MessageOK, SameCall
    <3> QED BY <3>1, <3>2, <3>4
  <2>3. CASE m.n # 0 /\ e
    <3> DEFINE a == Answer(m, "yes")
    <3>1. SameCall(a, m) /\ a.at = "answered" /\ a.ok = "yes"
      BY AnswerIs
    <3>2. k = a
      BY <2>3
    <3> HIDE DEF a, k
    <3>3. last <= Safe'
      BY <1>7, <2>3
    <3>4. StillTrue(a)
      BY <1>1, <1>2, <1>3, <1>8, <2>3, <3>1, <3>3
         DEF StillTrue, SaysTrue, MessageOK, SameCall
    <3> QED BY <3>1, <3>2, <3>4
  <2>2. CASE m.n # 0 /\ ~e
    <3> DEFINE a == [m EXCEPT !.at = "stable"]
    <3>1. SameCall(a, m) /\ a.at = "stable" /\ a.ok = m.ok
      BY MovedIs
    <3>2. k = a
      BY <2>2
    <3> HIDE DEF a, k
    <3>3. last <= f'.match
      BY <1>4, <1>6
    <3>4. StillTrue(a)
      BY <1>1, <1>2, <1>3, <1>8, <2>2, <3>1, <3>3, MessageKeeps, <1>9
         DEF StillTrue, SaysTrue, MessageOK, SameCall
    <3> QED BY <3>1, <3>2, <3>4
  <2> QED BY <2>1, <2>2, <2>3
<1>11. m \notin R
  BY <1>1, <1>5
<1> HIDE DEF k
<1> QED BY <1>1, <1>5, <1>9, <1>10, <1>11, OneAndMovesKeep

LEMMA FlushKeeps ==
    ASSUME IInv, Flush PROVE IInv'
<1> DEFINE g == [c \in rpcs |-> IF c.at = "stable" THEN Answer(c, "yes") ELSE c]
<1> DEFINE e == IF f.early <= f.match THEN 0 ELSE f.early
<1>1. /\ f' = [f EXCEPT !.synced = f.len, !.early = e]
      /\ rpcs' = {IF c.at = "stable" THEN Answer(c, "yes") ELSE c : c \in rpcs}
      /\ UNCHANGED <<log, r, catchup, granted, faults, failed>>
  BY DEF Flush
<1>2. /\ TypeInv /\ BoundInv /\ RestInv /\ f.match \in Nat /\ f.synced \in Nat
      /\ f.len \in Nat /\ MaxLog \in Nat
      /\ (~r.succeeded => f.match <= f.synced)
  BY Facts
<1>e. /\ f.early \in Nat /\ f.early <= MaxLog /\ e \in Nat /\ e <= MaxLog
      /\ Most(e, f.match) = Most(f.early, f.match)
  <2>1. f.early \in Nat /\ f.early <= MaxLog
    BY <1>2 DEF TypeInv, FollowerType, BoundInv
  <2> QED BY <1>2, <2>1 DEF Most
<1> HIDE DEF e
<1>3. /\ f'.match = f.match /\ f'.len = f.len /\ f'.synced = f.len /\ f'.early = e
      /\ f'.readonly = f.readonly /\ FollowerType'
  BY <1>1, <1>2, <1>e DEF TypeInv, FollowerType
<1>4. f.match <= f.len
  BY <1>2 DEF BoundInv
<1>5. /\ Safe' = Most(f.early, f.match) /\ Safe' \in Nat /\ f.match <= Safe'
      /\ Safe <= Safe'
  <2>1. Least(f.match, f.len) = f.match
    BY <1>2, <1>4 DEF Least
  <2>2. Safe' = Most(f.early, f.match)
    BY <1>3, <1>e, <2>1 DEF Safe
  <2> QED BY <1>2, <1>e, <2>2 DEF Safe, Most, Least
<1>6. FollowerMoves /\ f.match <= f'.match
  <2>1. Safe <= Safe'
    BY <1>5, Facts
  <2>2. faults' \in Nat /\ faults' <= MaxFailures
    BY <1>1, <1>2 DEF RestInv
  <2>3. /\ f.match <= MaxLog /\ f.len <= MaxLog + 1
    BY <1>2 DEF BoundInv
  <2> QED BY <1>1, <1>2, <1>3, <1>4, <1>e, <2>1, <2>2, <2>3 DEF FollowerMoves
<1>7. \A c \in rpcs : g[c] = IF c.at = "stable" THEN Answer(c, "yes") ELSE c
  OBVIOUS
<1> HIDE DEF g
<1>8. ASSUME NEW c \in rpcs PROVE SameCall(g[c], c) /\ StillTrue(g[c])
  <2>1. CASE c.at = "stable"
    <3> DEFINE a == Answer(c, "yes")
    <3>1. SameCall(a, c) /\ a.at = "answered" /\ a.ok = "yes"
      BY AnswerIs
    <3>2. g[c] = a
      BY <1>7, <2>1
    <3> HIDE DEF a
    <3>3. MessageOK(c, r.succeeded) /\ c \in RpcType
      BY Facts
    <3>4. c.prev + c.n <= f.match /\ c.prev \in Nat /\ c.n \in Nat
      BY <2>1, <3>3 DEF MessageOK, SaysTrue, RpcType
    <3>5. c.prev <= f.match
      BY <1>2, <3>4
    <3>6. a.prev + a.n <= Safe' /\ a.prev <= f'.match
      <4>1. a.prev = c.prev /\ a.n = c.n
        BY <3>1 DEF SameCall
      <4>2. c.prev + c.n <= Safe' /\ c.prev <= f'.match
        <5> DEFINE s == Safe'
        <5>1. s \in Nat /\ f.match <= s
          BY <1>5
        <5> HIDE DEF s
        <5>2. c.prev + c.n <= s
          BY <1>2, <3>4, <5>1
        <5> QED BY <1>3, <3>5, <5>2 DEF s
      <4> QED BY <4>1, <4>2
    <3>7. StillTrue(a)
      BY <3>1, <3>3, <3>6 DEF StillTrue, SaysTrue, MessageOK, SameCall
    <3> QED BY <3>1, <3>2, <3>7
  <2>2. CASE c.at # "stable"
    <3>1. g[c] = c /\ SameCall(c, c)
      BY <1>7, <2>2, SameCallSelf
    <3>2. StillTrue(c)
      BY <1>6, <3>1, MessageKeeps
    <3> QED BY <3>1, <3>2
  <2> QED BY <2>1, <2>2
<1>9. ASSUME NEW j PROVE j \in rpcs' <=> \E c \in rpcs : j = g[c]
  BY <1>1, <1>7
<1> QED BY <1>6, <1>8, <1>9, FollowerKeeps

LEMMA HandleInstallSnapshotKeeps ==
    ASSUME IInv, NEW m \in rpcs, HandleInstallSnapshot(m) PROVE IInv'
<1> DEFINE k == Answer(m, "yes")
           p == m.prev
           w == Most(f.synced, p)
<1>1. /\ m.op = "install" /\ m.at = "sent"
      /\ f' = IF p <= f.match THEN [f EXCEPT !.queue = <<>>, !.timer = 0, !.synced = w]
              ELSE [f EXCEPT !.queue = <<>>, !.timer = 0,
                             !.match = p, !.len = p, !.synced = p]
      /\ rpcs' = ((Others(m) \ Cached) \union Released(Cached)) \union {k}
      /\ UNCHANGED <<log, r, catchup, granted, faults, failed>>
  BY DEF HandleInstallSnapshot
<1>2. /\ TypeInv /\ BoundInv /\ RestInv /\ m \in RpcType /\ MessageOK(m, r.succeeded)
      /\ f.match \in Nat /\ f.synced \in Nat /\ f.len \in Nat
      /\ MaxLog \in Nat /\ log.last \in Nat
      /\ (~r.succeeded => f.match <= f.synced)
  BY Facts
<1>3. m.n = 0 /\ m.prev + m.n <= log.last /\ p \in Nat /\ p <= log.last /\ p <= MaxLog
  <2>1. p \in Nat
    BY <1>2 DEF RpcType
  <2>2. m.n = 0 /\ m.prev + m.n <= log.last /\ log.last <= MaxLog
    BY <1>1, <1>2 DEF MessageOK, SaysTrue, BoundInv
  <2>3. p <= log.last
    BY <2>1, <2>2
  <2> QED BY <1>2, <2>1, <2>2, <2>3
<1>4. /\ f.match <= f.len /\ f.match <= MaxLog /\ f.len <= MaxLog + 1
      /\ f.synced <= MaxLog + 1 /\ f.early <= MaxLog /\ f.early \in Nat
  BY <1>2 DEF BoundInv, TypeInv, FollowerType
<1>5. w \in Nat /\ w >= f.synced /\ w >= p /\ w <= MaxLog + 1
  BY <1>2, <1>3, <1>4 DEF Most
<1> HIDE DEF p, w
<1>6. /\ FollowerType' /\ f'.readonly = f.readonly /\ f'.early = f.early
      /\ p <= f'.match /\ f.match <= f'.match
      /\ f'.match <= f'.len /\ f'.match <= MaxLog /\ f'.len <= MaxLog + 1
      /\ f'.synced <= MaxLog + 1 /\ p <= f'.synced
      /\ (f.synced <= f'.synced \/ (f'.synced = p /\ f'.match = p /\ f.match <= p))
      /\ (f.match <= f.synced => f'.match <= f'.synced)
  <2>1. CASE p <= f.match
    <3>1. /\ FollowerType' /\ f'.match = f.match /\ f'.len = f.len /\ f'.synced = w
          /\ f'.early = f.early /\ f'.readonly = f.readonly
      BY <1>1, <1>2, <1>5, <2>1 DEF TypeInv, FollowerType
    <3> QED BY <1>2, <1>3, <1>4, <1>5, <2>1, <3>1
  <2>2. CASE ~(p <= f.match)
    <3>1. /\ FollowerType' /\ f'.match = p /\ f'.len = p /\ f'.synced = p
          /\ f'.early = f.early /\ f'.readonly = f.readonly
      BY <1>1, <1>2, <1>3, <2>2 DEF TypeInv, FollowerType
    <3>2. p <= MaxLog + 1 /\ f.match <= p
      BY <1>2, <1>3, <2>2
    <3> QED BY <1>3, <3>1, <3>2
  <2> QED BY <2>1, <2>2
<1>7. f'.match \in Nat /\ f'.synced \in Nat
  BY <1>6 DEF FollowerType
<1>8. Safe <= Safe' /\ p <= Safe'
  BY <1>2, <1>3, <1>4, <1>6, <1>7 DEF Safe, Least, Most
<1>9. FollowerMoves
  <2>1. faults' \in Nat /\ faults' <= MaxFailures
    BY <1>1, <1>2 DEF RestInv
  <2> QED BY <1>1, <1>2, <1>4, <1>6, <1>8, <2>1 DEF FollowerMoves
<1>10. SameCall(k, m) /\ k.at = "answered" /\ k.ok = "yes"
  BY AnswerIs
<1> HIDE DEF k
<1>11. StillTrue(k)
  <2>1. m.prev + m.n = p
    BY <1>3 DEF p
  <2> QED BY <1>3, <1>6, <1>8, <1>10, <2>1 DEF StillTrue, SaysTrue, SameCall, p
<1>12. Cached \subseteq rpcs /\ m \notin Cached
  BY <1>1 DEF Cached
<1> QED BY <1>1, <1>6, <1>9, <1>10, <1>11, <1>12, OneAndMovesKeep

LEMMA FollowerCrashKeeps ==
    ASSUME IInv, FollowerCrash PROVE IInv'
<1> DEFINE lost == {c \in rpcs : c.at \in {"cached", "released", "stable"}}
           a == Least(f.match, f.synced)
           b == Least(f.len, f.synced)
           g == [c \in rpcs |-> IF c \in lost THEN Answer(c, "failed") ELSE c]
<1>1. /\ faults < MaxFailures /\ faults' = faults + 1
      /\ f' = [f EXCEPT !.match = a, !.len = b, !.queue = <<>>, !.timer = 0]
      /\ rpcs' = (rpcs \ lost) \union {Answer(c, "failed") : c \in lost}
      /\ UNCHANGED <<log, r, catchup, granted, failed>>
  BY DEF FollowerCrash
<1>2. /\ TypeInv /\ BoundInv /\ RestInv
      /\ f.match \in Nat /\ f.synced \in Nat /\ f.len \in Nat
      /\ MaxLog \in Nat /\ MaxFailures \in Nat
      /\ (~r.succeeded => f.match <= f.synced)
  BY Facts
<1>3. /\ f.match <= f.len /\ f.match <= MaxLog /\ f.len <= MaxLog + 1
      /\ f.synced <= MaxLog + 1
  BY <1>2 DEF BoundInv
<1>4. /\ a \in Nat /\ b \in Nat /\ a <= b /\ a <= MaxLog /\ b <= MaxLog + 1
      /\ a <= f.synced /\ Least(a, f.synced) = a
      /\ (f.match <= f.synced => a = f.match)
  BY <1>2, <1>3 DEF Least
<1>5. Safe = Most(f.early, a)
  BY DEF Safe
<1> HIDE DEF a, b
<1>6. /\ FollowerType' /\ f'.match = a /\ f'.len = b /\ f'.synced = f.synced
      /\ f'.early = f.early /\ f'.readonly = f.readonly
  BY <1>1, <1>2, <1>4 DEF TypeInv, FollowerType
<1>7. Safe' = Safe
  BY <1>4, <1>5, <1>6 DEF Safe
<1>8. FollowerMoves
  <2>1. faults' \in Nat /\ faults' <= MaxFailures
    BY <1>1, <1>2 DEF RestInv
  <2>2. Safe <= Safe' /\ f.early <= MaxLog
    BY <1>2, <1>7, Facts DEF BoundInv
  <2> QED BY <1>1, <1>3, <1>4, <1>6, <2>1, <2>2 DEF FollowerMoves
<1>9. \A c \in rpcs : /\ c \in lost => g[c] = Answer(c, "failed")
                      /\ c \notin lost => g[c] = c
  OBVIOUS
<1> HIDE DEF g
<1>10. ASSUME NEW c \in rpcs PROVE SameCall(g[c], c) /\ StillTrue(g[c])
  <2>1. MessageOK(c, r.succeeded)
    BY Facts
  <2>2. CASE c \in lost
    <3> DEFINE k == Answer(c, "failed")
    <3>1. SameCall(k, c) /\ k.at = "answered" /\ k.ok = "failed"
      BY AnswerIs
    <3>2. g[c] = k
      BY <1>9, <2>2
    <3> HIDE DEF k
    <3>3. StillTrue(k)
      BY <2>1, <3>1 DEF StillTrue, SaysTrue, MessageOK, SameCall
    <3> QED BY <3>1, <3>2, <3>3
  <2>3. CASE c \notin lost
    <3>1. g[c] = c /\ SameCall(c, c) /\ c.at # "stable"
      BY <1>9, <2>3, SameCallSelf
    <3>2. ~r.succeeded => f'.match = f.match
      BY <1>2, <1>4, <1>6
    <3> HIDE DEF lost
    <3>3. StillTrue(c)
      BY <1>7, <2>1, <3>1, <3>2 DEF StillTrue, SaysTrue, MessageOK
    <3> QED BY <3>1, <3>3
  <2> QED BY <2>2, <2>3
<1>11. ASSUME NEW j PROVE j \in rpcs' <=> \E c \in rpcs : j = g[c]
  <2>1. lost \subseteq rpcs
    OBVIOUS
  <2> HIDE DEF lost
  <2>2. ASSUME j \in rpcs' PROVE \E c \in rpcs : j = g[c]
    BY <1>1, <1>9, <2>1, <2>2
  <2>3. ASSUME NEW c \in rpcs, j = g[c] PROVE j \in rpcs'
    <3>1. CASE c \in lost
      BY <1>1, <1>9, <2>3, <3>1
    <3>2. CASE c \notin lost
      BY <1>1, <1>9, <2>3, <3>2
    <3> QED BY <3>1, <3>2
  <2> QED BY <2>2, <2>3
<1> HIDE DEF lost
<1> QED BY <1>8, <1>10, <1>11, FollowerKeeps

-----------------------------------------------------------------------------
(* The invariant and what follows from it.                                 *)

LEMMA InitInv ==
    ASSUME Init PROVE IInv
<1> DEFINE e == InitLast + 1
           c == [index |-> e, size |-> 0, id |-> 1]
           m == Rpc(1, "append", InitLast, 0)
<1>1. /\ InitLast \in Nat /\ MaxLog \in Nat /\ InitLast <= MaxLog /\ MaxLog > 0
      /\ MaxFailures \in Nat /\ MaxEntries \in Nat \ {0} /\ Parallel \in Nat \ {0}
      /\ MaxRpcs \in Nat \ {0} /\ 1 \in Ids
  BY ReplicatorAssumption DEF Ids
<1>2. /\ log = [first |-> 1, last |-> InitLast]
      /\ r = [next |-> e, size |-> 0, flying |-> <<c>>, st |-> "APPENDING_ENTRIES",
              wait |-> 0, waiters |-> {}, woken |-> 0, canceled |-> FALSE,
              reader |-> FALSE, succeeded |-> FALSE, errors |-> FALSE,
              timeout_now |-> 0, readonly |-> 0, timers |-> 0, resumes |-> 0,
              change |-> {}, alive |-> TRUE]
      /\ rpcs = {m} /\ catchup = NoCatchup /\ granted = 0 /\ faults = 0 /\ failed = {}
  BY DEF Init
<1>3. PICK a \in 0..InitLast, b \in 0..InitLast + 1 :
         /\ a <= b
         /\ f = [match |-> a, len |-> b, synced |-> b, early |-> 0,
                 queue |-> <<>>, timer |-> 0, readonly |-> FALSE]
  BY DEF Init
<1>4. e \in Nat \ {0}
  BY <1>1
<1> HIDE DEF e
<1>5. c \in CallType /\ c.index = e /\ c.size = 0 /\ c.id = 1
  BY <1>1, <1>4 DEF CallType
<1> HIDE DEF c
<1>6. <<c>> \in Seq(CallType) /\ Len(<<c>>) = 1 /\ <<c>>[1] = c /\ <<c>> # <<>>
  BY <1>5
<1>7. /\ m \in RpcType /\ m.op = "append" /\ m.id = 1 /\ m.prev = InitLast /\ m.n = 0
      /\ m.at = "sent" /\ m.ok = "none"
  BY <1>1 DEF Rpc, RpcType
<1> HIDE DEF m
<1>8. r \in ReplicatorType
  <2> HIDE DEF CallType
  <2> QED BY <1>2, <1>4, <1>6 DEF ReplicatorType
<1>9. /\ r.next = e /\ r.size = 0 /\ r.flying = <<c>> /\ r.waiters = {} /\ r.woken = 0
      /\ r.reader = FALSE /\ r.succeeded = FALSE /\ r.timers = 0 /\ r.resumes = 0
      /\ r.change = {} /\ r.readonly = 0
  BY <1>2
<1>10. /\ f.match = a /\ f.len = b /\ f.synced = b /\ f.early = 0 /\ f.readonly = FALSE
       /\ a \in Nat /\ b \in Nat /\ a <= b /\ a <= InitLast /\ b <= InitLast + 1
       /\ FollowerType
  BY <1>1, <1>3 DEF FollowerType
<1>11. TypeInv
  <2>1. log \in [first : Nat \ {0}, last : Nat]
    BY <1>1, <1>2
  <2>2. IsFiniteSet(r.waiters)
    BY <1>9, FS_EmptySet
  <2>3. catchup \in CatchupType
    BY <1>2 DEF NoCatchup, CatchupType
  <2>4. rpcs \in SUBSET RpcType /\ granted \in Nat /\ faults \in Nat
    BY <1>2, <1>7
  <2> QED BY <1>8, <1>10, <2>1, <2>2, <2>3, <2>4 DEF TypeInv
<1>12. BoundInv
  <2>1. log.first = 1 /\ log.last = InitLast
    BY <1>2
  <2>2. a <= MaxLog /\ b <= MaxLog + 1
    BY <1>1, <1>10
  <2> QED BY <1>1, <1>2, <1>10, <2>1, <2>2 DEF BoundInv
<1>13. MinFlying(r) = e
  BY <1>4, <1>9 DEF MinFlying
<1>14. FlightInv
  <2>1. InOrder(r.flying)
    BY <1>6, <1>9 DEF InOrder
  <2>2. FlyingOK(r)
    BY <1>1, <1>4, <1>5, <1>6, <1>9, <1>13, <2>1 DEF FlyingOK
  <2>3. ModeOK(r)
    BY <1>9 DEF ModeOK, Quiet
  <2>4. CallsOK(r, rpcs)
    <3>1. m.prev + 1 = e
      BY <1>1, <1>7 DEF e
    <3>2. \A i \in 1..Len(r.flying) : i = 1 /\ r.flying[i] = c
      BY <1>6, <1>9
    <3> QED BY <1>2, <1>5, <1>7, <3>1, <3>2 DEF CallsOK
  <2>5. ReadonlyOK(r, f.readonly)
    BY <1>9 DEF ReadonlyOK
  <2>6. r.next <= log.last + 1
    BY <1>1, <1>2, <1>9 DEF e
  <2> QED BY <2>2, <2>3, <2>4, <2>5, <2>6 DEF FlightInv
<1>15. StoredInv
  <2>1. Quiet(r) /\ f.match <= f.synced
    BY <1>9, <1>10 DEF Quiet
  <2>2. granted <= Safe
    BY <1>2, <1>10 DEF Safe, Least, Most
  <2>3. MessageOK(m, r.succeeded)
    BY <1>1, <1>2, <1>7 DEF MessageOK, SaysTrue
  <2> QED BY <1>2, <1>9, <2>1, <2>2, <2>3 DEF StoredInv
<1>16. CleanInv
  BY <1>2 DEF CleanInv, NoCatchup
<1> QED BY <1>11, <1>12, <1>14, <1>15, <1>16 DEF IInv

LEMMA NextInv ==
    ASSUME "leave" \notin Readonly, IInv, [Next]_vars PROVE IInv'
<1>1. CASE UNCHANGED vars
  <2>1. UNCHANGED <<log, r, rpcs, f, granted, faults>> /\ UNCHANGED <<catchup, failed>>
    BY <1>1 DEF vars
  <2>2. catchup \in CatchupType /\ ~catchup.stray /\ failed = {}
    BY Facts DEF RestInv, CleanInv
  <2> QED BY <2>1, <2>2, CatchupKeeps
<1>2. CASE AppendEntry
  BY <1>2, AppendEntryKeeps
<1>3. ASSUME NEW i \in 2..MaxLog, Compact(i) PROVE IInv'
  BY <1>3, CompactKeeps
<1>4. CASE WaitForCaughtUp
  BY <1>4, WaitForCaughtUpKeeps
<1>5. CASE TransferLeadership \/ StopTransferLeadership
  BY <1>5, TransferLeadershipKeeps
<1>6. CASE Stop
  BY <1>6, StopKeeps
<1>7. CASE LeaderStep
  <2>1. ASSUME NEW k \in Sizes, NEW t \in Throttled, ContinueSending(k, t) PROVE IInv'
    BY <2>1, ContinueSendingKeeps
  <2>2. CASE BlockTimedout
    BY <2>2, BlockTimedoutKeeps
  <2>3. ASSUME NEW t \in Throttled, ContinueTimedout(t) PROVE IInv'
    BY <2>3, ContinueTimedoutKeeps
  <2>4. ASSUME NEW m \in rpcs, IgnoreReturned(m) PROVE IInv'
    BY <2>4, IgnoreReturnedKeeps
  <2>5. ASSUME NEW m \in rpcs, RpcFailed(m) PROVE IInv'
    BY <2>5, RpcFailedKeeps
  <2>6. ASSUME NEW m \in rpcs, NEW t \in Throttled, RpcMismatched(m, t) PROVE IInv'
    BY <2>6, RpcMismatchedKeeps
  <2>7. ASSUME NEW m \in rpcs, NEW k \in Sizes, NEW t \in Throttled, RpcSucceeded(m, k, t)
        PROVE  IInv'
    BY <2>7, RpcSucceededKeeps
  <2>8. ASSUME NEW m \in rpcs, NEW k \in Sizes, NEW t \in Throttled, InstallReturned(m, k, t)
        PROVE  IInv'
    BY <2>8, InstallReturnedKeeps
  <2>9. CASE HeartbeatReturned
    BY <2>9, HeartbeatReturnedKeeps
  <2>10. CASE ChangeReadonlyConfig
    BY <2>10, ChangeReadonlyConfigKeeps
  <2>11. CASE CatchupTimerFires
    BY <2>11, CatchupTimerFiresKeeps
  <2>12. CASE CatchupTimedout
    BY <2>12, CatchupTimedoutKeeps
  <2> QED BY <1>7, <2>1, <2>2, <2>3, <2>4, <2>5, <2>6, <2>7, <2>8, <2>9, <2>10, <2>11,
             <2>12 DEF LeaderStep
<1>8. CASE FollowerStep
  <2>1. ASSUME NEW m \in rpcs, HandleMismatch(m) PROVE IInv'
    BY <2>1, HandleMismatchKeeps
  <2>2. ASSUME NEW m \in rpcs, HandleOutOfOrder(m) PROVE IInv'
    BY <2>2, HandleOutOfOrderKeeps
  <2>3. ASSUME NEW m \in rpcs, NEW e \in BOOLEAN, HandleAppendEntries(m, e) PROVE IInv'
    BY <2>3, HandleAppendEntriesKeeps
  <2>4. ASSUME NEW m \in rpcs, HandleInstallSnapshot(m) PROVE IInv'
    BY <2>4, HandleInstallSnapshotKeeps
  <2>5. CASE Flush
    BY <2>5, FlushKeeps
  <2>6. CASE CacheTimedout
    BY <2>6, CacheTimedoutKeeps
  <2> QED BY <1>8, <2>1, <2>2, <2>3, <2>4, <2>5, <2>6 DEF FollowerStep
<1>9. CASE FollowerCrash
  BY <1>9, FollowerCrashKeeps
<1>10. ASSUME NEW m \in rpcs, CallFails(m) PROVE IInv'
  BY <1>10, CallFailsKeeps
<1>11. CASE ToggleReadonly
  BY <1>11, ToggleReadonlyKeeps
<1> QED BY <1>1, <1>2, <1>3, <1>4, <1>5, <1>6, <1>7, <1>8, <1>9, <1>10, <1>11 DEF Next

\* The invariant is inductive: through every order of answers, timers, failures,
\* crashes of the follower, snapshots and transfers, each call in flight has one
\* message under way, the calls follow each other, and what the replicator takes
\* for stored is on the follower's disk, unless the follower had applied it when
\* it answered (check_and_resolve_conflict).
THEOREM ReplicatorInductive ==
    ASSUME "leave" \notin Readonly PROVE Spec => []IInv
<1>1. Init => IInv
  BY InitInv
<1>2. IInv /\ [Next]_vars => IInv'
  BY NextInv
<1> QED BY <1>1, <1>2, PTL DEF Spec

\* The calls in flight are one after the other and fill the indexes from
\* _min_flying_index to next_index, which _on_rpc_returned takes for granted when
\* it pops all calls up to the one answered, and _reset_next_index when it goes back.
THEOREM CallsAreContiguous ==
    ASSUME "leave" \notin Readonly PROVE Spec => []FlyingIsContiguous
<1>1. IInv => FlyingIsContiguous
  <2> SUFFICES ASSUME IInv PROVE FlyingIsContiguous
    OBVIOUS
  <2>1. FlyingOK(r) /\ r.flying \in Seq(CallType)
    BY Facts DEF Fit, ReplicatorType
  <2>2. r.flying # <<>> => /\ Head(r.flying) = r.flying[1]
                           /\ Last(r.flying) = r.flying[Len(r.flying)]
    BY <2>1 DEF Last
  <2> QED BY <2>1, <2>2 DEF FlyingIsContiguous, FlyingOK, InOrder
<1> QED BY <1>1, ReplicatorInductive, PTL

\* What _on_rpc_returned tells commit_at is on the follower's disk, and stays
\* there: late answers, answers of calls given up, a flush or a crash of the
\* follower between a request and its answer notwithstanding. The exception is
\* what check_and_resolve_conflict acknowledges at once: entries that the follower
\* had applied from memory, which are committed and which a crash may take away.
THEOREM CommitAtIsStored ==
    ASSUME "leave" \notin Readonly PROVE Spec => []GrantedIsStored
<1>1. IInv => GrantedIsStored
  BY Facts DEF StoredInv, Safe, GrantedIsStored
<1> QED BY <1>1, ReplicatorInductive, PTL

\* No CHECK of _send_empty_entries fails, _send_timeout_now goes only to a follower
\* that has the log up to the index of the transfer or has acknowledged it as
\* applied before a crash, and a wait for catching up is ended neither too early,
\* by the same measure, nor by the timer of the wait before.
THEOREM NothingGoesWrong ==
    ASSUME "leave" \notin Readonly PROVE Spec => []NothingWrong
<1>1. IInv => NothingWrong
  <2> SUFFICES ASSUME IInv PROVE NothingWrong
    OBVIOUS
  <2>1. /\ TypeInv /\ BoundInv /\ CleanInv /\ r \in ReplicatorType /\ Fit(r)
        /\ f.match \in Nat /\ f.synced \in Nat /\ f.len \in Nat /\ MaxLog \in Nat
        /\ log.last \in Nat /\ MaxFailures \in Nat
    BY Facts
  <2>2. log \in [first : 1..MaxLog, last : 0..MaxLog]
    <3>1. log \in [first : Nat \ {0}, last : Nat] /\ log.first <= MaxLog /\ log.last <= MaxLog
      BY <2>1 DEF TypeInv, BoundInv
    <3> QED BY <2>1, <3>1
  <2>3. /\ r.next \in 1..log.last + 1 /\ r.size \in 0..MaxEntries
        /\ Len(r.flying) <= Parallel
    <3>1. /\ r.next \in Nat \ {0} /\ r.size \in Nat /\ r.size <= MaxEntries
          /\ r.next <= log.last + 1 /\ Len(r.flying) <= Parallel /\ MaxEntries \in Nat
      BY <2>1, FitFacts, ReplicatorAssumption DEF Fit, FlyingOK
    <3> QED BY <2>1, <3>1
  <2>4. r.st \in {"IDLE", "BLOCKING", "APPENDING_ENTRIES", "INSTALLING_SNAPSHOT"}
    BY <2>1 DEF ReplicatorType
  <2>5. \A m \in rpcs : m.id \in Ids
    BY <2>1 DEF TypeInv, RpcType
  <2>6. /\ f.match \in 0..MaxLog /\ f.synced \in 0..MaxLog + 1 /\ f.match <= f.len
        /\ granted \in 0..MaxLog /\ faults \in 0..MaxFailures
    BY <2>1 DEF TypeInv, BoundInv
  <2> QED BY <2>1, <2>2, <2>3, <2>4, <2>5, <2>6 DEF NothingWrong, TypeOK, CleanInv
<1> QED BY <1>1, ReplicatorInductive, PTL
=============================================================================

------------------------ MODULE SegmentStorageProofs ------------------------
(***************************************************************************)
(* Proofs about SegmentStorage: init never refuses the files that a crash  *)
(* or a loss of power has left, what is read is what the files say, and    *)
(* the segments are a LogStorage. For the faults that the code withstands: *)
(* PowerOK, ResetOK, FsyncOK, StaleOK and BehindOK say which; TLC finds    *)
(* the theorems false without any one of the last four.                    *)
(***************************************************************************)
EXTENDS SegmentStorage, FiniteSetTheorems, FunctionTheorems, SequenceTheorems,
        WellFoundedInduction, TLAPS

-----------------------------------------------------------------------------
(* What is assumed of the faults.                                          *)

\* A loss of power is survived when closed segments are synced, which Segment::close
\* does only for two entries or more, and a torn segment may be cut.
PowerOK ==
    "power" \in Faults => SyncSegments /\ RecoverCorrupt /\ EntryBytes <= MaxSegment
\* No crash while reset removes the files.
ResetOK == "reset_crash" \notin Faults
\* The removal of a file that init would still use does not fail in truncate_prefix
\* and reset, which do not look at what Segment::unlink returns, nor in init.
StaleOK == "stale" \notin Faults
\* No truncation or reset is queued behind an error of append_to_storage.
BehindOK == "behind" \notin Faults

-----------------------------------------------------------------------------
(* The types.                                                              *)

SegmentType == [first : Nat \ {0}, terms : Seq(Terms)]
FileType == [first : Nat \ {0}, last : Nat, terms : Seq(Terms), synced : Nat,
             tail : {"none", "torn", "corrupt"}]
OpType(L) == [of : {"none", "append", "prefix", "suffix", "reset"},
              pc : {"idle", "open", "create", "close", "sync", "meta", "pop", "unlink",
                    "rename", "ftruncate"},
              left : L, k : Nat, cut : BOOLEAN, renamed : BOOLEAN]

\* The variables have their types; the log stays within its bound.
TypeInv ==
    /\ up \in BOOLEAN /\ broken \in BOOLEAN /\ refused \in BOOLEAN /\ bad \in BOOLEAN
    /\ files \in SUBSET FileType /\ IsFiniteSet(files)
    /\ meta \in 1..MaxIndex /\ first \in 1..MaxIndex /\ last \in 0..MaxIndex
    /\ last >= first - 1
    /\ closed \in Seq(SegmentType) /\ open \in Seq(SegmentType) /\ Len(open) <= 1
    /\ op \in OpType(IF op.of = "append" THEN Seq(Terms) ELSE Seq(SegmentType)) /\ faults \in Nat
    /\ \A s \in segments : s.first <= MaxIndex + 1
    /\ \A f \in files : /\ f.synced <= Len(f.terms)
                        /\ f.first <= MaxIndex + 1 /\ LastOf(f) <= MaxIndex

-----------------------------------------------------------------------------
(* The files.                                                              *)

Sorted(q) == \A i, j \in 1..Len(q) : i < j => q[i].first < q[j].first

\* Segments, or files, S follow each other without hole or overlap, from k on.
Tiled(S, k) ==
    /\ \A s, t \in S : s.first < t.first => s.terms # <<>> /\ LastOf(s) < t.first
    /\ \A s \in S : \/ s.first <= k
                    \/ \E t \in S : t.first < s.first /\ LastOf(t) + 1 = s.first

\* A file is known by its first index; the last index in its name is that of its
\* content, which is on the disk for good.
NameOK(f) ==
    /\ f.tail = "corrupt" => "power" \in Faults /\ f.last = 0
    /\ f.last # 0 => /\ f.terms # <<>> /\ f.last = LastOf(f)
                     /\ "power" \in Faults => f.synced = Len(f.terms)
NamesOK ==
    /\ \A f, g \in files : f.first = g.first => f = g
    /\ \A f \in files : NameOK(f)

NeededFiles == {f \in files : Needed(f)}
\* Those that init needs are without a hole, and only the last is in progress.
FilesOK ==
    /\ Tiled(NeededFiles, meta)
    /\ \A f, g \in NeededFiles : f.first < g.first => f.last # 0

\* Nor do those that could not be removed overlap them.
ApartOK == \A f, g \in files : f.first < g.first => f.last # 0 /\ f.last < g.first

Resetting == op.of = "reset" /\ op.pc = "unlink"

-----------------------------------------------------------------------------
(* The segments in memory.                                                 *)

\* The segments that the operation is about to remove from the disk.
Leaving == IF op.of = "append" THEN {} ELSE ToSet(op.left)
\* The segment whose file is in progress.
Live == IF op.pc = "close" \/ (op.pc = "ftruncate" /\ open = <<>>)
        THEN {Last(closed)} ELSE ToSet(open)

Top(s, S) == s \in S /\ \A t \in S : t.first <= s.first

\* The segments in memory are in order and cover the log.
ExtentOK ==
    /\ Sorted(closed) /\ \A s \in ToSet(closed) : s.terms # <<>>
    /\ \A s \in ToSet(closed), t \in ToSet(open) : s.first < t.first
    /\ Tiled(segments, first)
    /\ segments = {} => last = first - 1
    /\ \A s \in segments : Top(s, segments) => last <= LastOf(s)
    /\ ~broken => /\ \A s \in segments : LastOf(s) >= first \/ s.terms = <<>>
                  /\ \A s \in segments : Top(s, segments) =>
                        last = LastOf(s) \/ (op.of = "suffix" /\ op.cut)

\* Each has its file, with the same content.
HasFile(s) == \E f \in files : f.first = s.first /\ f.terms = s.terms
HeldOK ==
    /\ \A s \in segments : HasFile(s)
    /\ \A f \in files : f.tail # "corrupt"

\* And, unless an error was reported, there are no other files than those, those
\* that the operation removes, and closed ones below the first index.
OwnedOK ==
    /\ \A s \in Leaving : HasFile(s)
    /\ \A f \in files : Needed(f) => \E s \in segments \union Leaving : s.first = f.first
    /\ \A s \in segments, t \in Leaving : s.first # t.first
    /\ \A f \in files : /\ \A s \in Live : s.first = f.first => f.last = 0
                        /\ \A s \in segments \ Live : s.first = f.first => f.last # 0

\* A segment knows the name of its file.
Knows(s) == \A f \in files : f.first = s.first => (f.last = 0 <=> IsOpen(s))
OpenOK == \A s \in segments \union Leaving : Knows(s)

-----------------------------------------------------------------------------
(* The operation and its steps.                                            *)

AppendOK ==
    /\ op.pc \in {"open", "create", "close", "sync"} /\ meta = first
    /\ op.pc # "sync" => /\ op.left # <<>>
                         /\ last + Len(op.left) <= MaxIndex
    /\ op.pc = "sync" => open # <<>>
    /\ op.pc \in {"create", "close"} => open = <<>> /\ closed # <<>>
    /\ op.pc = "close" => IsFull(Last(closed))
PrefixOK ==
    /\ op.pc \in {"meta", "pop", "unlink"} /\ ~op.cut /\ op.k \in 1..MaxIndex
    /\ op.pc # "unlink" => op.left = <<>> /\ first < op.k
    /\ op.pc = "meta" => meta = first
    /\ op.pc = "pop" => meta = op.k
    /\ op.pc = "unlink" => /\ meta = first /\ \A s \in Leaving : LastOf(s) < meta
SuffixOK ==
    /\ op.pc \in {"unlink", "rename", "ftruncate"} /\ meta = first
    /\ op.pc # "unlink" => op.cut /\ op.left = <<>>
    /\ op.pc # "ftruncate" => ~op.renamed
    /\ op.pc = "rename" => open = <<>>
    /\ op.pc = "ftruncate" => (op.renamed <=> open = <<>>)
    /\ op.cut => /\ segments # {} /\ last = op.k /\ first <= op.k
                 /\ \A s \in segments : s.first <= op.k
    /\ ~op.cut => segments = {}
    /\ \A s \in segments, t \in Leaving : s.first < t.first
    /\ \A i, j \in 1..Len(op.left) : i < j => op.left[i].first > op.left[j].first
ResetOpOK ==
    /\ op.pc \in {"meta", "unlink"} /\ ~op.cut
    /\ segments = {} /\ op.k = first
    /\ op.pc = "meta" => meta < op.k
    /\ op.pc = "unlink" => meta = first
OpOK ==
    /\ op.of = "none" => op = Idle /\ meta = first
    /\ op.of = "append" => AppendOK
    /\ op.of # "append" => \A i, j \in 1..Len(op.left) :
                              i # j => op.left[i].first # op.left[j].first
    /\ op.of = "prefix" => PrefixOK
    /\ op.of = "suffix" => SuffixOK
    /\ op.of = "reset" => ResetOpOK

DiskInv == NamesOK /\ (~Resetting => FilesOK)
MemoryInv == up => ExtentOK /\ HeldOK
StepInv == IF up /\ ~broken THEN OpOK /\ OwnedOK ELSE op = Idle
FineInv == ~refused /\ ~bad
NameInv == ApartOK /\ (up /\ ~broken => OpenOK)

IInv == TypeInv /\ DiskInv /\ MemoryInv /\ StepInv /\ FineInv /\ NameInv

-----------------------------------------------------------------------------
(* Sequences and sets.                                                     *)

LEMMA ElementsOf ==
    ASSUME NEW S, NEW q \in Seq(S)
    PROVE  /\ ToSet(q) = {q[i] : i \in 1..Len(q)} /\ ToSet(q) \subseteq S
           /\ q = <<>> <=> ToSet(q) = {}
           /\ q # <<>> => Len(q) \in 1..Len(q) /\ Last(q) \in ToSet(q) /\ Last(q) = q[Len(q)]
           /\ Len(q) \in Nat /\ (q = <<>> <=> Len(q) = 0)
<1>1. DOMAIN q = 1..Len(q) /\ Len(q) \in Nat
  BY LenProperties
<1>2. ToSet(q) = {q[i] : i \in 1..Len(q)}
  BY <1>1 DEF ToSet
<1>3. ToSet(q) \subseteq S
  BY <1>2, ElementOfSeq
<1>4. q = <<>> <=> Len(q) = 0
  BY <1>1, EmptySeq
<1>5. q # <<>> => Len(q) \in 1..Len(q)
  BY <1>1, <1>4
<1>6. q = <<>> => ToSet(q) = {}
  BY <1>2, <1>4
<1> QED BY <1>1, <1>2, <1>3, <1>4, <1>5, <1>6 DEF Last

LEMMA EmptyToSet == ToSet(<<>>) = {}
<1>1. <<>> \in Seq({})
  BY EmptySeq
<1> QED BY <1>1, ElementsOf

LEMMA ElementsOfConcat ==
    ASSUME NEW S, NEW c \in Seq(S), NEW o \in Seq(S)
    PROVE  c \o o \in Seq(S) /\ ToSet(c \o o) = ToSet(c) \union ToSet(o)
<1> DEFINE q == c \o o
           m == Len(c)
           n == Len(o)
<1>1. /\ q \in Seq(S) /\ Len(q) = m + n /\ m \in Nat /\ n \in Nat
      /\ \A i \in 1..m + n : q[i] = IF i <= m THEN c[i] ELSE o[i - m]
  BY ConcatProperties, LenProperties
<1>2. /\ ToSet(q) = {q[i] : i \in 1..Len(q)} /\ ToSet(c) = {c[i] : i \in 1..m}
      /\ ToSet(o) = {o[i] : i \in 1..n}
  <2> HIDE DEF q
  <2> QED BY <1>1, ElementsOf
<1>3. ASSUME NEW x \in ToSet(q) PROVE x \in ToSet(c) \union ToSet(o)
  <2>1. PICK i \in 1..m + n : x = q[i]
    BY <1>1, <1>2, <1>3
  <2> HIDE DEF q, m, n
  <2>2. CASE i <= m
    BY <1>1, <1>2, <2>1, <2>2
  <2>3. CASE i > m
    <3>1. i - m \in 1..n
      BY <1>1, <2>3
    <3> QED BY <1>1, <1>2, <2>1, <2>3, <3>1
  <2> QED BY <1>1, <2>2, <2>3
<1>4. ASSUME NEW x \in ToSet(c) PROVE x \in ToSet(q)
  <2>1. PICK i \in 1..m : x = c[i]
    BY <1>2, <1>4
  <2> HIDE DEF q, m, n
  <2>2. i \in 1..m + n /\ q[i] = c[i]
    BY <1>1
  <2> QED BY <1>1, <1>2, <2>1, <2>2
<1>5. ASSUME NEW x \in ToSet(o) PROVE x \in ToSet(q)
  <2>1. PICK i \in 1..n : x = o[i]
    BY <1>2, <1>5
  <2> HIDE DEF q, m, n
  <2>2. i + m \in 1..m + n /\ ~(i + m <= m) /\ (i + m) - m = i
    BY <1>1
  <2>3. q[i + m] = o[i]
    BY <1>1, <2>2
  <2> QED BY <1>1, <1>2, <2>1, <2>2, <2>3
<1> QED BY <1>1, <1>3, <1>4, <1>5

\* A sequence of at most one element.
LEMMA AtMostOne ==
    ASSUME NEW S, NEW o \in Seq(S), Len(o) <= 1, o # <<>>
    PROVE  /\ o = <<o[1]>> /\ ToSet(o) = {o[1]} /\ o[1] \in S /\ Len(o) = 1
           /\ Last(o) = o[1]
<1>1. ToSet(o) = {o[i] : i \in 1..Len(o)}
  BY ElementsOf
<1>2. Len(o) = 1
  <2>1. Len(o) \in Nat /\ Len(o) # 0
    BY ElementsOf
  <2> QED BY <2>1
<1>3. o[1] \in S
  BY <1>2, ElementOfSeq
<1>4. <<o[1]>> \in Seq(S) /\ Len(<<o[1]>>) = 1 /\ <<o[1]>>[1] = o[1]
  BY <1>3
<1>5. o = <<o[1]>>
  BY <1>2, <1>4, SeqEqual
<1>6. ToSet(o) = {o[1]}
  BY <1>1, <1>2
<1> QED BY <1>2, <1>3, <1>5, <1>6 DEF Last

LEMMA Singleton ==
    ASSUME NEW S, NEW x \in S
    PROVE  <<x>> \in Seq(S) /\ ToSet(<<x>>) = {x} /\ Len(<<x>>) = 1 /\ <<x>>[1] = x
           /\ <<x>> # <<>>
<1>1. <<x>> \in Seq(S) /\ Len(<<x>>) = 1 /\ <<x>>[1] = x
  OBVIOUS
<1> DEFINE o == <<x>>
<1> HIDE DEF o
<1>2. o # <<>>
  BY <1>1, ElementsOf DEF o
<1>3. o \in Seq(S) /\ Len(o) <= 1 /\ o[1] = x
  BY <1>1 DEF o
<1>4. ToSet(o) = {o[1]}
  BY <1>2, <1>3, AtMostOne
<1> QED BY <1>1, <1>2, <1>3, <1>4 DEF o

LEMMA FrontIs ==
    ASSUME NEW S, NEW q \in Seq(S), q # <<>>
    PROVE  /\ Front(q) \in Seq(S) /\ Len(Front(q)) = Len(q) - 1
           /\ \A i \in 1..Len(q) - 1 : Front(q)[i] = q[i]
           /\ ToSet(q) = ToSet(Front(q)) \union {Last(q)}
<1>1. Len(q) \in Nat \ {0} /\ \A i \in 1..Len(q) : q[i] \in S
  BY ElementsOf, ElementOfSeq
<1> DEFINE n == Len(q)
           w == SubSeq(q, 1, n - 1)
<1>2. w \in Seq(S) /\ Len(w) = n - 1 /\ \A i \in 1..n - 1 : w[i] = q[i]
  <2>1. /\ w \in Seq(S) /\ Len(w) = IF 1 <= n - 1 THEN n - 1 - 1 + 1 ELSE 0
        /\ \A i \in 1..n - 1 - 1 + 1 : w[i] = q[1 + i - 1]
    <3>1. \A i \in 1..n - 1 : q[i] \in S
      BY <1>1
    <3>2. 1 \in Int /\ n - 1 \in Int
      BY <1>1
    <3> HIDE DEF n
    <3> QED BY <3>1, <3>2, SubSeqProperties
  <2>2. n \in Nat \ {0}
    BY <1>1
  <2> HIDE DEF n, w
  <2>3. Len(w) = n - 1 /\ n - 1 - 1 + 1 = n - 1
    BY <2>1, <2>2
  <2>4. \A i \in 1..n - 1 : 1 + i - 1 = i
    OBVIOUS
  <2> QED BY <2>1, <2>3, <2>4
<1>3. w = Front(q)
  BY DEF Front
<1>4. /\ ToSet(w) = {w[i] : i \in 1..n - 1} /\ ToSet(q) = {q[i] : i \in 1..n}
      /\ Last(q) = q[n]
  <2>1. ToSet(q) = {q[i] : i \in 1..n} /\ Last(q) = q[n]
    BY ElementsOf
  <2> HIDE DEF w, n
  <2>2. ToSet(w) = {w[i] : i \in 1..n - 1}
    BY <1>2, ElementsOf
  <2> QED BY <2>1, <2>2
<1>5. ToSet(w) \subseteq ToSet(q) /\ Last(q) \in ToSet(q)
  BY <1>1, <1>2, <1>4
<1>6. ASSUME NEW x \in ToSet(q) PROVE x \in ToSet(w) \/ x = Last(q)
  <2>1. PICK i \in 1..n : x = q[i]
    BY <1>4, <1>6
  <2>2. i \in 1..n - 1 \/ i = n
    BY <1>1
  <2> HIDE DEF w, n
  <2> QED BY <1>2, <1>4, <2>1, <2>2
<1> QED BY <1>2, <1>3, <1>5, <1>6

\* A part of a sequence.
LEMMA PartOf ==
    ASSUME NEW S, NEW q \in Seq(S), NEW a \in 1..Len(q) + 1, NEW b \in 0..Len(q), a <= b + 1
    PROVE  /\ SubSeq(q, a, b) \in Seq(S) /\ Len(SubSeq(q, a, b)) = b - a + 1
           /\ \A i \in 1..b - a + 1 : SubSeq(q, a, b)[i] = q[a + i - 1]
           /\ ToSet(SubSeq(q, a, b)) = {q[i] : i \in a..b}
<1> DEFINE w == SubSeq(q, a, b)
<1>1. Len(q) \in Nat /\ a \in Nat /\ b \in Nat /\ a >= 1
  BY LenProperties
<1>2. \A i \in a..b : q[i] \in S
  <2> SUFFICES ASSUME NEW i \in a..b PROVE q[i] \in S
    OBVIOUS
  <2>1. i \in 1..Len(q)
    BY <1>1
  <2> QED BY <2>1, ElementOfSeq
<1>3. /\ w \in Seq(S) /\ Len(w) = IF a <= b THEN b - a + 1 ELSE 0
      /\ \A i \in 1..b - a + 1 : w[i] = q[a + i - 1]
  BY <1>1, <1>2, SubSeqProperties
<1> HIDE DEF w
<1>4. Len(w) = b - a + 1
  BY <1>1, <1>3
<1>5. ToSet(w) = {w[i] : i \in 1..b - a + 1}
  BY <1>3, <1>4, ElementsOf
<1>6. ASSUME NEW x \in ToSet(w) PROVE x \in {q[i] : i \in a..b}
  <2>1. PICK i \in 1..b - a + 1 : x = w[i]
    BY <1>5, <1>6
  <2>2. a + i - 1 \in a..b
    BY <1>1
  <2> QED BY <1>3, <2>1, <2>2
<1>7. ASSUME NEW i \in a..b PROVE q[i] \in ToSet(w)
  <2>1. i - a + 1 \in 1..b - a + 1 /\ a + (i - a + 1) - 1 = i
    BY <1>1
  <2> QED BY <1>3, <1>5, <2>1
<1> QED BY <1>3, <1>4, <1>6, <1>7 DEF w

\* What is last.
LEMMA LastOfConcat ==
    ASSUME NEW S, NEW c \in Seq(S), NEW o \in Seq(S), Len(o) <= 1, c \o o # <<>>
    PROVE  /\ Last(c \o o) = IF o = <<>> THEN Last(c) ELSE o[1]
           /\ o = <<>> => c # <<>>
<1>1. CASE o = <<>>
  BY <1>1, ConcatEmptySeq
<1>2. CASE o # <<>>
  <2>1. Len(o) = 1 /\ Len(c) \in Nat
    BY <1>2, AtMostOne, LenProperties
  <2>2. /\ Len(c \o o) = Len(c) + 1
        /\ (c \o o)[Len(c) + 1] = IF Len(c) + 1 <= Len(c) THEN c[Len(c) + 1] ELSE o[Len(c) + 1 - Len(c)]
    BY <2>1, ConcatProperties
  <2>3. ~(Len(c) + 1 <= Len(c)) /\ Len(c) + 1 - Len(c) = 1
    BY <2>1
  <2> QED BY <1>2, <2>2, <2>3 DEF Last
<1> QED BY <1>1, <1>2

-----------------------------------------------------------------------------
(* Segments, and files, that follow each other.                            *)

\* A segment or a file, of which the first index and the content count.
Piece(s) == s.first \in Nat \ {0} /\ s.terms \in Seq(Terms)
Pieces(S) == \A s \in S : Piece(s)

LEMMA LastOfIs ==
    ASSUME NEW s, Piece(s)
    PROVE  /\ LastOf(s) \in Nat /\ LastOf(s) + 1 >= s.first
           /\ s.first \in Nat \ {0} /\ Len(s.terms) \in Nat
           /\ LastOf(s) = s.first + Len(s.terms) - 1
           /\ s.terms # <<>> <=> LastOf(s) >= s.first
<1>1. Len(s.terms) \in Nat /\ (s.terms = <<>> <=> Len(s.terms) = 0)
  BY ElementsOf DEF Piece
<1> DEFINE n == Len(s.terms)
           a == s.first
<1>2. LastOf(s) = a + n - 1 /\ a \in Nat \ {0}
  BY DEF LastOf, Piece
<1> HIDE DEF n, a
<1>3. LastOf(s) \in Nat /\ LastOf(s) + 1 >= a /\ (n # 0 <=> LastOf(s) >= a)
  BY <1>1, <1>2 DEF n
<1> QED BY <1>1, <1>2, <1>3 DEF n, a

LEMMA LeastOf ==
    ASSUME NEW S \in SUBSET Nat, S # {}
    PROVE  \E x \in S : \A y \in S : x <= y
<1> DEFINE R == {ss \in Nat \X Nat : ss[1] < ss[2]}
<1>1. IsWellFoundedOn(R, Nat)
  BY NatLessThanWellFounded DEF OpToRel
<1>2. \A x, y \in Nat : <<x, y>> \in R <=> x < y
  OBVIOUS
<1> HIDE DEF R
<1>3. \E x \in S : \A y \in S : ~(<<y, x>> \in R)
  BY <1>1, WFMin
<1>4. PICK x \in S : \A y \in S : ~(<<y, x>> \in R)
  BY <1>3
<1>5. \A y \in S : x <= y
  <2> SUFFICES ASSUME NEW y \in S PROVE x <= y
    OBVIOUS
  <2>1. x \in Nat /\ y \in Nat /\ ~(<<y, x>> \in R)
    BY <1>4
  <2>2. ~(y < x)
    BY <1>2, <2>1
  <2> QED BY <2>1, <2>2
<1> QED BY <1>5

\* Every index from k on, up to the end of some piece, is in a piece.
LEMMA Covers ==
    ASSUME NEW S, Pieces(S), NEW k \in Nat, Tiled(S, k), NEW i \in Nat, i >= k,
           NEW e \in S, LastOf(e) >= i
    PROVE  \E s \in S : s.first <= i /\ i <= LastOf(s)
<1> DEFINE N == {s.first : s \in {t \in S : LastOf(t) >= i}}
<1>1. N \in SUBSET Nat
  BY DEF Pieces, Piece
<1>2. N # {}
  OBVIOUS
<1>3. PICK x \in N : \A y \in N : x <= y
  <2> HIDE DEF N
  <2> QED BY <1>1, <1>2, LeastOf
<1>4. PICK s \in S : LastOf(s) >= i /\ x = s.first
  BY <1>3
<1>5. Piece(s) /\ s.first \in Nat
  BY LastOfIs DEF Pieces
<1>6. s.first <= i
  <2> SUFFICES ASSUME s.first > i PROVE FALSE
    BY <1>5
  <2>1. PICK t \in S : t.first < s.first /\ LastOf(t) + 1 = s.first
    BY <1>5 DEF Tiled
  <2>2. Piece(t) /\ LastOf(t) \in Nat /\ t.first \in Nat
    BY LastOfIs DEF Pieces
  <2>3. LastOf(t) >= i
    BY <1>5, <2>1, <2>2
  <2>4. t.first \in N
    BY <2>3
  <2>5. x <= t.first
    BY <1>3, <2>4
  <2> QED BY <1>4, <1>5, <2>1, <2>2, <2>5
<1> QED BY <1>4, <1>6

\* Pieces with the same first indexes, and the same content but for the last.
LEMMA TiledLike ==
    ASSUME NEW S, NEW T, NEW k, Tiled(S, k),
           \A t \in T : \E s \in S : /\ s.first = t.first
                                     /\ s.terms = t.terms \/ \A x \in S : ~(s.first < x.first),
           \A s \in S : \E t \in T : /\ s.first = t.first
                                     /\ s.terms = t.terms \/ \A x \in S : ~(s.first < x.first)
    PROVE  Tiled(T, k)
<1>1. ASSUME NEW t \in T, NEW u \in T, t.first < u.first
      PROVE  t.terms # <<>> /\ LastOf(t) < u.first
  <2>1. PICK s \in S : /\ s.first = t.first
                       /\ s.terms = t.terms \/ \A x \in S : ~(s.first < x.first)
    OBVIOUS
  <2>2. PICK v \in S : v.first = u.first
    OBVIOUS
  <2>3. s.first < v.first
    BY <1>1, <2>1, <2>2
  <2>4. s.terms = t.terms /\ s.terms # <<>> /\ LastOf(s) < v.first
    BY <2>1, <2>3 DEF Tiled
  <2> QED BY <2>1, <2>2, <2>4 DEF LastOf
<1>2. ASSUME NEW t \in T
      PROVE  t.first <= k \/ \E u \in T : u.first < t.first /\ LastOf(u) + 1 = t.first
  <2>1. PICK s \in S : s.first = t.first
    OBVIOUS
  <2>2. CASE s.first <= k
    BY <2>1, <2>2
  <2>3. CASE \E v \in S : v.first < s.first /\ LastOf(v) + 1 = s.first
    <3>1. PICK v \in S : v.first < s.first /\ LastOf(v) + 1 = s.first
      BY <2>3
    <3>2. PICK u \in T : /\ v.first = u.first
                         /\ v.terms = u.terms \/ \A x \in S : ~(v.first < x.first)
      OBVIOUS
    <3>3. v.terms = u.terms
      BY <3>1, <3>2
    <3> QED BY <2>1, <3>1, <3>2, <3>3 DEF LastOf
  <2> QED BY <2>2, <2>3 DEF Tiled
<1> QED BY <1>1, <1>2 DEF Tiled

\* Some pieces, with all that come before them.
LEMMA TiledBelow ==
    ASSUME NEW S, NEW T \in SUBSET S, NEW k, Tiled(S, k),
           \A s \in S, t \in T : s.first < t.first => s \in T
    PROVE  Tiled(T, k)
<1>1. \A t, u \in T : t.first < u.first => t.terms # <<>> /\ LastOf(t) < u.first
  BY DEF Tiled
<1>2. ASSUME NEW t \in T
      PROVE  t.first <= k \/ \E u \in T : u.first < t.first /\ LastOf(u) + 1 = t.first
  BY DEF Tiled
<1> QED BY <1>1, <1>2 DEF Tiled

\* Some pieces, with all that reach index j.
LEMMA TiledFrom ==
    ASSUME NEW S, NEW T \in SUBSET S, NEW k \in Nat, NEW j \in Nat, k <= j, Tiled(S, k),
           Pieces(S), \A s \in S : LastOf(s) >= j /\ s.terms # <<>> => s \in T
    PROVE  Tiled(T, j)
<1>1. \A t, u \in T : t.first < u.first => t.terms # <<>> /\ LastOf(t) < u.first
  BY DEF Tiled
<1>2. ASSUME NEW t \in T, ~(t.first <= j)
      PROVE  \E u \in T : u.first < t.first /\ LastOf(u) + 1 = t.first
  <2>1. t.first \in Nat
    BY DEF Pieces, Piece
  <2>2. PICK s \in S : s.first < t.first /\ LastOf(s) + 1 = t.first
    BY <1>2, <2>1 DEF Tiled
  <2>3. LastOf(s) \in Nat /\ s.terms # <<>>
    BY <2>2, LastOfIs DEF Pieces, Tiled
  <2>4. LastOf(s) >= j
    BY <1>2, <2>1, <2>2, <2>3
  <2> QED BY <2>2, <2>3, <2>4
<1> QED BY <1>1, <1>2 DEF Tiled

\* One more piece after all others.
LEMMA TiledAdd ==
    ASSUME NEW S, NEW n, NEW k, Tiled(S, k), Pieces(S), Piece(n),
           \A s \in S : s.terms # <<>> /\ LastOf(s) < n.first,
           n.first <= k \/ \E s \in S : LastOf(s) + 1 = n.first
    PROVE  Tiled(S \union {n}, k)
<1>1. \A s \in S : s.first < n.first /\ s.first \in Nat /\ LastOf(s) \in Nat
  <2> SUFFICES ASSUME NEW s \in S PROVE s.first < n.first /\ s.first \in Nat /\ LastOf(s) \in Nat
    OBVIOUS
  <2>1. s.first \in Nat /\ LastOf(s) \in Nat /\ LastOf(s) >= s.first
    BY LastOfIs DEF Pieces
  <2> QED BY <2>1 DEF Piece
<1>2. ASSUME NEW t \in S \union {n}, NEW u \in S \union {n}, t.first < u.first
      PROVE  t.terms # <<>> /\ LastOf(t) < u.first
  <2>1. t \in S
    <3> SUFFICES ASSUME t = n PROVE FALSE
      OBVIOUS
    <3>1. ~(n.first < n.first)
      BY DEF Piece
    <3>2. u \in S
      BY <1>2, <3>1
    <3> QED BY <1>1, <1>2, <3>2 DEF Piece
  <2> QED BY <1>2, <2>1 DEF Tiled
<1>3. ASSUME NEW t \in S \union {n}
      PROVE  t.first <= k \/ \E u \in S \union {n} : u.first < t.first /\ LastOf(u) + 1 = t.first
  <2>1. CASE t \in S
    BY <2>1 DEF Tiled
  <2>2. CASE t = n
    BY <1>1, <2>2
  <2> QED BY <2>1, <2>2
<1> QED BY <1>2, <1>3 DEF Tiled

LEMMA TiledNone == ASSUME NEW k PROVE Tiled({}, k)
BY DEF Tiled

-----------------------------------------------------------------------------
(* Sequences of segments.                                                  *)

LEMMA SegmentIsPiece == \A s \in SegmentType : Piece(s)
BY DEF SegmentType, Piece
LEMMA FileIsPiece == \A f \in FileType : Piece(f)
BY DEF FileType, Piece

\* In order, what ends before what.
LEMMA SortedEnds ==
    ASSUME NEW q \in Seq(SegmentType), Sorted(q), NEW k, Tiled(ToSet(q), k),
           NEW i \in 1..Len(q), NEW j \in 1..Len(q), i < j
    PROVE  LastOf(q[i]) <= LastOf(q[j])
<1>1. q[i] \in ToSet(q) /\ q[j] \in ToSet(q) /\ ToSet(q) \subseteq SegmentType
  BY ElementsOf
<1>2. q[i].first < q[j].first
  BY DEF Sorted
<1>3. LastOf(q[i]) < q[j].first
  BY <1>1, <1>2 DEF Tiled
<1>4. /\ LastOf(q[i]) \in Nat /\ LastOf(q[j]) \in Nat /\ q[j].first \in Nat
      /\ LastOf(q[j]) + 1 >= q[j].first
  BY <1>1, LastOfIs, SegmentIsPiece
<1> QED BY <1>3, <1>4

LEMMA EndBelowIs ==
    ASSUME NEW q \in Seq(SegmentType), Sorted(q), NEW x, Tiled(ToSet(q), x), NEW k \in Nat
    PROVE  LET n == EndBelow(q, k)
           IN  /\ n \in 0..Len(q)
               /\ \A i \in 1..n : LastOf(q[i]) < k
               /\ \A i \in n + 1..Len(q) : LastOf(q[i]) >= k
<1> DEFINE N == Len(q)
           P(n) == /\ \A i \in 1..n : LastOf(q[i]) < k
                   /\ n < N => LastOf(q[n + 1]) >= k
           A == {i \in 1..N : LastOf(q[i]) >= k}
<1>1. N \in Nat /\ \A i \in 1..N : LastOf(q[i]) \in Nat
  BY LenProperties, ElementOfSeq, LastOfIs, SegmentIsPiece
<1>2. \E n \in 0..N : P(n)
  <2>1. CASE A = {}
    <3>1. \A i \in 1..N : LastOf(q[i]) < k
      BY <1>1, <2>1
    <3>2. N \in 0..N /\ ~(N < N)
      BY <1>1
    <3> QED BY <3>1, <3>2
  <2>2. CASE A # {}
    <3>1. PICK a \in A : \A b \in A : a <= b
      <4>1. A \in SUBSET Nat
        BY <1>1
      <4> HIDE DEF A
      <4> QED BY <2>2, <4>1, LeastOf
    <3>2. a \in 1..N /\ LastOf(q[a]) >= k
      BY <3>1
    <3>3. a - 1 \in 0..N /\ (a - 1) + 1 = a
      BY <1>1, <3>2
    <3>4. ASSUME NEW i \in 1..a - 1 PROVE LastOf(q[i]) < k
      <4>1. i \in 1..N /\ ~(a <= i)
        BY <1>1, <3>2
      <4>2. i \notin A
        BY <3>1, <4>1
      <4> QED BY <1>1, <4>1, <4>2
    <3> QED BY <3>2, <3>3, <3>4
  <2> QED BY <2>1, <2>2
<1> DEFINE n == EndBelow(q, k)
<1>3. n \in 0..N /\ P(n)
  <2>1. n = CHOOSE m \in 0..N : P(m)
    BY DEF EndBelow
  <2> HIDE DEF P, n, N
  <2> QED BY <1>2, <2>1
<1>4. ASSUME NEW i \in n + 1..N PROVE LastOf(q[i]) >= k
  <2>1. i \in 1..N /\ n + 1 \in 1..N /\ n < N /\ (i = n + 1 \/ n + 1 < i)
    BY <1>1, <1>3
  <2>2. LastOf(q[n + 1]) >= k
    BY <1>3, <2>1
  <2>3. n + 1 < i => LastOf(q[n + 1]) <= LastOf(q[i])
    BY <2>1, SortedEnds
  <2> HIDE DEF n, N
  <2> QED BY <1>1, <2>1, <2>2, <2>3
<1> QED BY <1>3, <1>4

LEMMA UpToIs ==
    ASSUME NEW q \in Seq(SegmentType), Sorted(q), NEW k \in Nat
    PROVE  LET n == UpTo(q, k)
           IN  /\ n \in 0..Len(q)
               /\ \A i \in 1..n : q[i].first <= k
               /\ \A i \in n + 1..Len(q) : q[i].first > k
<1> DEFINE N == Len(q)
           P(n) == /\ \A i \in n + 1..N : q[i].first > k
                   /\ n > 0 => q[n].first <= k
           A == {i \in 1..N : q[i].first > k}
<1>1. N \in Nat /\ \A i \in 1..N : q[i].first \in Nat
  <2>1. N \in Nat /\ \A i \in 1..N : q[i] \in SegmentType
    BY LenProperties, ElementOfSeq
  <2> QED BY <2>1 DEF SegmentType
<1>2. \E n \in 0..N : P(n)
  <2>1. CASE A = {}
    <3>1. \A i \in 1..N : q[i].first <= k
      BY <1>1, <2>1
    <3>2. N \in 0..N /\ N + 1..N = {} /\ (N > 0 => N \in 1..N)
      BY <1>1
    <3> QED BY <3>1, <3>2
  <2>2. CASE A # {}
    <3>1. PICK a \in A : \A b \in A : a <= b
      <4>1. A \in SUBSET Nat
        BY <1>1
      <4> HIDE DEF A
      <4> QED BY <2>2, <4>1, LeastOf
    <3>2. a \in 1..N /\ q[a].first > k
      BY <3>1
    <3>3. a - 1 \in 0..N /\ (a - 1) + 1 = a /\ (a - 1 > 0 => a - 1 \in 1..N)
      BY <1>1, <3>2
    <3>4. ASSUME a - 1 > 0 PROVE q[a - 1].first <= k
      <4>1. a - 1 \in 1..N /\ ~(a <= a - 1)
        BY <3>3, <3>4
      <4>2. a - 1 \notin A
        BY <3>1, <4>1
      <4> QED BY <1>1, <4>1, <4>2
    <3>5. ASSUME NEW i \in (a - 1) + 1..N PROVE q[i].first > k
      <4>1. i \in 1..N /\ (i = a \/ a < i) /\ a \in 1..N
        BY <1>1, <3>2, <3>3
      <4>2. a < i => q[a].first < q[i].first
        BY <4>1 DEF Sorted
      <4>3. q[a].first \in Nat /\ q[i].first \in Nat
        BY <1>1, <4>1
      <4> QED BY <3>2, <4>1, <4>2, <4>3
    <3> QED BY <3>3, <3>4, <3>5
  <2> QED BY <2>1, <2>2
<1> DEFINE n == UpTo(q, k)
<1>3. n \in 0..N /\ P(n)
  <2>1. n = CHOOSE m \in 0..N : P(m)
    BY DEF UpTo
  <2> HIDE DEF P, n, N
  <2> QED BY <1>2, <2>1
<1>4. ASSUME NEW i \in 1..n PROVE q[i].first <= k
  <2>1. i \in 1..N /\ n \in 1..N /\ n > 0 /\ (i = n \/ i < n)
    BY <1>1, <1>3
  <2>2. i < n => q[i].first < q[n].first
    BY <2>1 DEF Sorted
  <2>3. q[n].first <= k
    BY <1>3, <2>1
  <2> HIDE DEF n, N
  <2>4. q[i].first \in Nat /\ q[n].first \in Nat
    BY <1>1, <2>1
  <2> QED BY <2>1, <2>2, <2>3, <2>4
<1> QED BY <1>3, <1>4

-----------------------------------------------------------------------------
(* The segments of a set of files, in order.                               *)

\* A finite set of files with different first indexes can be put in order: each has as
\* its place the number of those that start at or before it.
LEMMA CanBeSorted ==
    ASSUME NEW fs \in SUBSET FileType, IsFiniteSet(fs),
           \A f, g \in fs : f.first = g.first => f = g
    PROVE  \E q \in [1..Cardinality(fs) -> {Loaded(f) : f \in fs}] :
              \A i, j \in 1..Cardinality(fs) : i < j => q[i].first < q[j].first
<1> DEFINE n == Cardinality(fs)
           B(f) == {g \in fs : g.first <= f.first}
           r == [f \in fs |-> Cardinality(B(f))]
<1>1. n \in Nat /\ \A f \in fs : f.first \in Nat
  BY FS_CardinalityType DEF FileType
<1>2. \A f \in fs : IsFiniteSet(B(f)) /\ Cardinality(B(f)) \in Nat /\ Cardinality(B(f)) <= n
  <2> SUFFICES ASSUME NEW f \in fs
               PROVE  IsFiniteSet(B(f)) /\ Cardinality(B(f)) \in Nat /\ Cardinality(B(f)) <= n
    OBVIOUS
  <2>1. B(f) \in SUBSET fs
    OBVIOUS
  <2> HIDE DEF B
  <2> QED BY <2>1, FS_Subset, FS_CardinalityType
<1>3. ASSUME NEW f \in fs, NEW g \in fs, f.first < g.first
      PROVE  Cardinality(B(f)) < Cardinality(B(g))
  <2>1. B(f) \in SUBSET B(g) /\ g \in B(g) /\ g \notin B(f)
    BY <1>1, <1>3
  <2> HIDE DEF B
  <2>2. Cardinality(B(f)) <= Cardinality(B(g)) /\ Cardinality(B(f)) # Cardinality(B(g))
    BY <1>2, <2>1, FS_Subset
  <2> QED BY <1>2, <2>2
<1>4. \A f \in fs : Cardinality(B(f)) >= 1
  <2> SUFFICES ASSUME NEW f \in fs PROVE Cardinality(B(f)) >= 1
    OBVIOUS
  <2>1. f \in B(f)
    BY <1>1
  <2> HIDE DEF B
  <2>2. Cardinality(B(f)) # 0
    BY <1>2, <2>1, FS_EmptySet
  <2> QED BY <1>2, <2>2
<1>5. \A f \in fs : r[f] = Cardinality(B(f)) /\ r[f] \in 1..n
  <2> SUFFICES ASSUME NEW f \in fs PROVE r[f] = Cardinality(B(f)) /\ r[f] \in 1..n
    OBVIOUS
  <2>1. r[f] = Cardinality(B(f))
    OBVIOUS
  <2> HIDE DEF B, r
  <2> QED BY <1>1, <1>2, <1>4, <2>1
<1> HIDE DEF B
<1>6. r \in Injection(fs, 1..n)
  <2>1. r \in [fs -> 1..n]
    <3>1. r = [f \in fs |-> r[f]]
      OBVIOUS
    <3> HIDE DEF r
    <3> QED BY <1>5, <3>1
  <2> HIDE DEF r
  <2>2. ASSUME NEW f \in fs, NEW g \in fs, r[f] = r[g] PROVE f = g
    <3>1. ~(f.first < g.first) /\ ~(g.first < f.first)
      <4>1. f.first < g.first => r[f] < r[g]
        BY <1>3, <1>5
      <4>2. g.first < f.first => r[g] < r[f]
        BY <1>3, <1>5
      <4>3. r[f] \in Nat /\ r[g] \in Nat
        BY <1>5
      <4> QED BY <2>2, <4>1, <4>2, <4>3
    <3>2. f.first = g.first
      BY <1>1, <3>1
    <3> QED BY <3>2
  <2> QED BY <2>1, <2>2, Fun_IsInj
<1>7. r \in Surjection(fs, 1..n)
  <2>1. IsFiniteSet(1..n) /\ Cardinality(1..n) = n
    <3>1. IsFiniteSet(1..n) /\ Cardinality(1..n) = IF 1 > n THEN 0 ELSE n - 1 + 1
      <4>1. 1 \in Int /\ n \in Int
        BY <1>1
      <4> HIDE DEF n
      <4> QED BY <4>1, FS_Interval
    <3> HIDE DEF n
    <3> QED BY <1>1, <3>1
  <2> HIDE DEF r
  <2> QED BY <1>6, <2>1, FS_Injection
<1> HIDE DEF r
<1>8. \A i \in 1..n : \E f \in fs : r[f] = i
  BY <1>7, Fun_IsSurj DEF Surjection
<1> DEFINE h(i) == CHOOSE f \in fs : r[f] = i
           q == [i \in 1..n |-> Loaded(h(i))]
<1>9. \A i \in 1..n : h(i) \in fs /\ r[h(i)] = i
  BY <1>8
<1> HIDE DEF h
<1>10. q \in [1..n -> {Loaded(f) : f \in fs}]
  BY <1>9
<1>11. ASSUME NEW i \in 1..n, NEW j \in 1..n, i < j PROVE q[i].first < q[j].first
  <2>1. q[i].first = h(i).first /\ q[j].first = h(j).first
    BY DEF Loaded
  <2>2. h(i) \in fs /\ h(j) \in fs /\ r[h(i)] = i /\ r[h(j)] = j
    BY <1>9
  <2>3. ~(h(j).first < h(i).first)
    <3> SUFFICES ASSUME h(j).first < h(i).first PROVE FALSE
      OBVIOUS
    <3>1. Cardinality(B(h(j))) < Cardinality(B(h(i)))
      BY <1>3, <2>2
    <3>2. j < i
      BY <1>5, <2>2, <3>1
    <3> QED BY <1>11, <3>2
  <2>4. h(i).first # h(j).first
    <3>1. h(i).first = h(j).first => h(i) = h(j)
      BY <2>2
    <3>2. i # j
      BY <1>11
    <3> QED BY <2>2, <3>1, <3>2
  <2> HIDE DEF q
  <2> QED BY <1>1, <2>1, <2>2, <2>3, <2>4
<1> HIDE DEF q
<1> QED BY <1>10, <1>11

LEMMA BySegmentIs ==
    ASSUME NEW fs \in SUBSET FileType, IsFiniteSet(fs),
           \A f, g \in fs : f.first = g.first => f = g
    PROVE  /\ bySegment(fs) \in Seq(SegmentType) /\ Sorted(bySegment(fs))
           /\ ToSet(bySegment(fs)) = {Loaded(f) : f \in fs}
           /\ Len(bySegment(fs)) = Cardinality(fs)
<1> DEFINE n == Cardinality(fs)
           L == {Loaded(f) : f \in fs}
           q == bySegment(fs)
           P(p) == \A i, j \in 1..n : i < j => p[i].first < p[j].first
<1>1. n \in Nat
  BY FS_CardinalityType
<1>2. q \in [1..n -> L] /\ P(q)
  <2>1. \E p \in [1..n -> L] : P(p)
    BY CanBeSorted
  <2>2. q = CHOOSE p \in [1..n -> L] : P(p)
    BY DEF bySegment
  <2> HIDE DEF q, P, L, n
  <2> QED BY <2>1, <2>2
<1>3. L \in SUBSET SegmentType
  <2>1. \A f \in fs : Loaded(f) \in SegmentType
    BY DEF Loaded, FileType, SegmentType
  <2> QED BY <2>1
<1> HIDE DEF q
<1>4. q \in Seq(SegmentType) /\ Len(q) = n /\ \A i \in 1..n : q[i] \in L
  <2>1. q \in [1..n -> SegmentType]
    <3> HIDE DEF L, n
    <3> QED BY <1>2, <1>3
  <2> HIDE DEF L, n
  <2>2. q \in Seq(SegmentType)
    BY <1>1, <2>1, SeqDef
  <2>3. Len(q) = n
    BY <1>1, <2>1, <2>2, LenProperties
  <2> QED BY <1>2, <2>2, <2>3
<1>5. Sorted(q)
  BY <1>2, <1>4 DEF Sorted
<1>6. ToSet(q) \in SUBSET L /\ IsFiniteSet(L) /\ Cardinality(L) <= n
  <2>1. ToSet(q) = {q[i] : i \in 1..n}
    BY <1>4, ElementsOf
  <2>2. IsFiniteSet(L) /\ Cardinality(L) <= n
    <3> DEFINE l == [f \in fs |-> Loaded(f)]
    <3>1. l \in [fs -> L] /\ \A y \in L : \E f \in fs : l[f] = y
      OBVIOUS
    <3> HIDE DEF l, L
    <3>2. l \in Surjection(fs, L)
      BY <3>1, Fun_IsSurj
    <3> QED BY <3>2, FS_Surjection
  <2> QED BY <1>4, <2>1, <2>2
<1>7. Cardinality(ToSet(q)) = n
  <2>1. ToSet(q) = {q[i] : i \in 1..n}
    BY <1>4, ElementsOf
  <2>2. q \in Injection(1..n, ToSet(q))
    <3>1. q \in [1..n -> ToSet(q)]
      <4>1. q = [i \in 1..n |-> q[i]]
        BY <1>2
      <4> HIDE DEF n
      <4> QED BY <2>1, <4>1
    <3>2. ASSUME NEW i \in 1..n, NEW j \in 1..n, q[i] = q[j] PROVE i = j
      <4>1. q[i].first \in Nat /\ q[j].first \in Nat
        BY <1>3, <1>4 DEF SegmentType
      <4>2. ~(q[i].first < q[j].first) /\ ~(q[j].first < q[i].first)
        BY <3>2, <4>1
      <4>3. ~(i < j) /\ ~(j < i)
        BY <1>2, <4>2
      <4> QED BY <4>3
    <3> QED BY <3>1, <3>2, Fun_IsInj
  <2>3. IsFiniteSet(ToSet(q))
    BY <1>6, FS_Subset
  <2>4. Cardinality(1..n) <= Cardinality(ToSet(q))
    BY <2>2, <2>3, FS_Injection
  <2>5. Cardinality(1..n) = n
    <3>1. Cardinality(1..n) = IF 1 > n THEN 0 ELSE n - 1 + 1
      <4>1. 1 \in Int /\ n \in Int
        BY <1>1
      <4> HIDE DEF n
      <4> QED BY <4>1, FS_Interval
    <3> HIDE DEF n
    <3> QED BY <1>1, <3>1
  <2>6. Cardinality(ToSet(q)) <= Cardinality(L) /\ Cardinality(ToSet(q)) \in Nat /\ Cardinality(L) \in Nat
    BY <1>6, <2>3, FS_Subset, FS_CardinalityType
  <2> HIDE DEF n
  <2> QED BY <1>1, <1>6, <2>4, <2>5, <2>6
<1>8. ToSet(q) = L
  <2>1. Cardinality(L) \in Nat /\ Cardinality(ToSet(q)) <= Cardinality(L)
    BY <1>6, FS_Subset, FS_CardinalityType
  <2>2. Cardinality(L) = Cardinality(ToSet(q))
    BY <1>1, <1>6, <1>7, <2>1
  <2> QED BY <1>6, <2>2, FS_Subset
<1> QED BY <1>4, <1>5, <1>8 DEF q

-----------------------------------------------------------------------------
(* What the invariant says of the segments and the files.                  *)

LEMMA SortedDistinct ==
    ASSUME NEW q \in Seq(SegmentType), Sorted(q)
    PROVE  \A s, t \in ToSet(q) : s.first = t.first => s = t
<1> SUFFICES ASSUME NEW s \in ToSet(q), NEW t \in ToSet(q), s.first = t.first PROVE s = t
  OBVIOUS
<1>1. PICK i \in 1..Len(q), j \in 1..Len(q) : s = q[i] /\ t = q[j]
  BY ElementsOf
<1>2. s.first \in Nat /\ t.first \in Nat /\ Len(q) \in Nat
  <2>1. s \in SegmentType /\ t \in SegmentType
    BY ElementsOf
  <2> QED BY <2>1, LenProperties DEF SegmentType
<1>3. ~(i < j) /\ ~(j < i)
  BY <1>1, <1>2 DEF Sorted
<1>4. i = j
  BY <1>2, <1>3
<1> QED BY <1>1, <1>4

LEMMA SortedParts ==
    ASSUME NEW c \in Seq(SegmentType), NEW o \in Seq(SegmentType), Len(o) <= 1, Sorted(c),
           \A s \in ToSet(c), t \in ToSet(o) : s.first < t.first
    PROVE  Sorted(c \o o)
<1>1. /\ Len(c \o o) = Len(c) + Len(o) /\ Len(c) \in Nat /\ Len(o) \in Nat
      /\ \A i \in 1..Len(c) + Len(o) : (c \o o)[i] = IF i <= Len(c) THEN c[i] ELSE o[i - Len(c)]
  BY ConcatProperties, LenProperties
<1>2. ToSet(c) = {c[i] : i \in 1..Len(c)} /\ ToSet(o) = {o[i] : i \in 1..Len(o)}
  BY ElementsOf
<1> DEFINE q == c \o o
           m == Len(c)
           n == Len(o)
<1>3. ASSUME NEW i \in 1..m + n, NEW j \in 1..m + n, i < j PROVE q[i].first < q[j].first
  <2>1. m \in Nat /\ n \in {0, 1}
    <3>1. m \in Nat /\ n \in Nat /\ n <= 1
      BY <1>1
    <3> HIDE DEF m, n
    <3> QED BY <3>1
  <2>2. CASE j <= m
    <3>1. i \in 1..m /\ j \in 1..m /\ q[i] = c[i] /\ q[j] = c[j]
      <4> HIDE DEF q, m, n
      <4>1. i \in 1..m /\ j \in 1..m /\ i <= m
        BY <1>3, <2>1, <2>2
      <4> QED BY <1>1, <2>2, <4>1 DEF q, m, n
    <3> QED BY <1>3, <3>1 DEF Sorted
  <2>3. CASE j > m
    <3>1. i \in 1..m /\ j - m \in 1..n /\ i <= m /\ ~(j <= m)
      <4> HIDE DEF q, m, n
      <4> QED BY <1>3, <2>1, <2>3
    <3>2. q[i] = c[i] /\ q[j] = o[j - m]
      BY <1>1, <3>1
    <3>3. c[i] \in ToSet(c) /\ o[j - m] \in ToSet(o)
      BY <1>2, <3>1
    <3> QED BY <3>2, <3>3
  <2> QED BY <2>1, <2>2, <2>3
<1> QED BY <1>1, <1>3 DEF Sorted

\* The segments in memory.
LEMMA Memory ==
    ASSUME TypeInv
    PROVE  /\ closed \in Seq(SegmentType) /\ open \in Seq(SegmentType) /\ Len(open) <= 1
           /\ closed \o open \in Seq(SegmentType)
           /\ segments = ToSet(closed) \union ToSet(open) /\ segments \in SUBSET SegmentType
           /\ Pieces(segments) /\ Pieces(files) /\ Pieces(NeededFiles)
           /\ segments = {} <=> closed = <<>> /\ open = <<>>
<1>1. closed \in Seq(SegmentType) /\ open \in Seq(SegmentType) /\ Len(open) <= 1
      /\ files \in SUBSET FileType
  BY DEF TypeInv
<1>2. closed \o open \in Seq(SegmentType) /\ segments = ToSet(closed) \union ToSet(open)
  BY <1>1, ElementsOfConcat DEF segments
<1>3. ToSet(closed) \subseteq SegmentType /\ ToSet(open) \subseteq SegmentType
      /\ (closed = <<>> <=> ToSet(closed) = {}) /\ (open = <<>> <=> ToSet(open) = {})
  BY <1>1, ElementsOf
<1>4. segments \in SUBSET SegmentType
  BY <1>2, <1>3
<1>5. Pieces(segments)
  BY <1>4, SegmentIsPiece DEF Pieces
<1>6. Pieces(files)
  BY <1>1, FileIsPiece DEF Pieces
<1>7. Pieces(NeededFiles)
  BY <1>6 DEF Pieces, NeededFiles
<1> QED BY <1>1, <1>2, <1>3, <1>4, <1>5, <1>6, <1>7

LEMMA MemoryNext ==
    ASSUME closed' \in Seq(SegmentType), open' \in Seq(SegmentType)
    PROVE  segments' = ToSet(closed') \union ToSet(open')
<1>1. segments' = ToSet(closed' \o open')
  BY DEF segments
<1> QED BY <1>1, ElementsOfConcat

LEMMA InOrder ==
    ASSUME TypeInv, ExtentOK
    PROVE  /\ Sorted(closed \o open)
           /\ \A s, t \in segments : s.first = t.first => s = t
           /\ segments # {} => /\ Top(LastSegment, segments)
                               /\ LastSegment = IF open = <<>> THEN Last(closed) ELSE open[1]
                               /\ open = <<>> => closed # <<>>
<1> USE Memory
<1>1. Sorted(closed \o open)
  BY SortedParts DEF ExtentOK
<1>2. \A s, t \in segments : s.first = t.first => s = t
  BY <1>1, SortedDistinct DEF segments
<1>3. ASSUME segments # {}
      PROVE  /\ Top(LastSegment, segments)
             /\ LastSegment = IF open = <<>> THEN Last(closed) ELSE open[1]
             /\ open = <<>> => closed # <<>>
  <2> DEFINE q == closed \o open
  <2>1. q # <<>>
    <3>1. segments = ToSet(q)
      BY DEF segments
    <3> HIDE DEF q
    <3> QED BY <1>3, <3>1, EmptyToSet
  <2>2. /\ LastSegment = IF open = <<>> THEN Last(closed) ELSE open[1]
        /\ open = <<>> => closed # <<>>
    BY <2>1, LastOfConcat DEF LastSegment
  <2>3. Len(q) \in 1..Len(q) /\ LastSegment \in ToSet(q) /\ LastSegment = q[Len(q)]
    <3>1. q \in Seq(SegmentType) /\ LastSegment = Last(q)
      BY DEF LastSegment
    <3> HIDE DEF q
    <3> QED BY <2>1, <3>1, ElementsOf
  <2>4. ASSUME NEW t \in ToSet(q) PROVE t.first <= LastSegment.first
    <3> HIDE DEF q
    <3>1. q \in Seq(SegmentType) /\ Sorted(q) /\ ToSet(q) \subseteq SegmentType
      BY <1>1, ElementsOf DEF q
    <3>2. PICK i \in 1..Len(q) : t = q[i]
      BY <3>1, ElementsOf
    <3>3. i = Len(q) \/ i < Len(q)
      BY <3>2, <2>3
    <3>4. i < Len(q) => q[i].first < q[Len(q)].first
      BY <2>3, <3>1, <3>2 DEF Sorted
    <3>5. q[i].first \in Nat /\ q[Len(q)].first \in Nat
      BY <2>3, <2>4, <3>1, <3>2 DEF SegmentType
    <3> QED BY <2>3, <3>2, <3>3, <3>4, <3>5
  <2> QED BY <2>2, <2>3, <2>4 DEF Top, segments
<1> QED BY <1>1, <1>2, <1>3

LEMMA TheFile ==
    ASSUME NamesOK, NEW s, HasFile(s), Knows(s)
    PROVE  /\ File(s) \in files /\ File(s).first = s.first
           /\ File(s).terms = s.terms /\ OnDisk(s)
           /\ \A f \in files : f.first = s.first => f = File(s)
<1>1. PICK f \in files : f.first = s.first /\ f.terms = s.terms
  BY DEF HasFile
<1>2. Named(s, f)
  <2>1. LastOf(f) = LastOf(s)
    BY <1>1 DEF LastOf
  <2>2. f.last # 0 => f.last = LastOf(f)
    BY <1>1 DEF NamesOK, NameOK
  <2>3. f.last = 0 <=> IsOpen(s)
    BY <1>1 DEF Knows
  <2> QED BY <1>1, <2>1, <2>2, <2>3 DEF Named
<1>4. OnDisk(s)
  BY <1>1, <1>2 DEF OnDisk
<1>5. File(s) \in files /\ File(s).first = s.first
  BY <1>4 DEF File, OnDisk, Named
<1>3. \A g \in files : g.first = s.first => g = File(s)
  BY <1>5 DEF NamesOK
<1> QED BY <1>1, <1>3, <1>4, <1>5

\* The step of an operation tells the operation.
LEMMA AtStep ==
    ASSUME TypeInv, StepInv, NameInv, up, op.pc # "idle"
    PROVE  /\ ~broken /\ OpOK /\ OwnedOK /\ OpenOK /\ ApartOK /\ op.of # "none"
           /\ op.pc \in {"open", "create", "close", "sync"} => op.of = "append"
           /\ op.of = "append" => AppendOK
           /\ op.pc = "pop" => op.of = "prefix"
           /\ op.pc \in {"rename", "ftruncate"} => op.of = "suffix" /\ op.cut
           /\ op.pc = "meta" => op.of \in {"prefix", "reset"}
           /\ op.pc = "unlink" => op.of \in {"prefix", "suffix", "reset"}
<1>1. ~broken /\ OpOK /\ OwnedOK /\ OpenOK /\ ApartOK /\ op.of # "none"
  BY DEF StepInv, OpOK, Idle, NameInv
<1>2. op.of \in {"append", "prefix", "suffix", "reset"}
  BY <1>1 DEF TypeInv, OpType
<1> QED BY <1>1, <1>2 DEF OpOK, AppendOK, PrefixOK, SuffixOK, ResetOpOK

\* The end of the log is that of the last segment.
LEMMA Ends ==
    ASSUME TypeInv, ExtentOK, ~broken, ~(op.of = "suffix" /\ op.cut)
    PROVE  /\ \A s \in segments : LastOf(s) <= last /\ s.first <= last + 1
           /\ segments = {} => last = first - 1
           /\ segments # {} => LastOf(LastSegment) = last /\ LastSegment \in segments
<1> USE Memory
<1>1. segments # {} => LastOf(LastSegment) = last /\ Top(LastSegment, segments)
  <2>1. segments # {} => Top(LastSegment, segments)
    BY InOrder
  <2> QED BY <2>1 DEF ExtentOK, Top
<1>2. ASSUME NEW s \in segments PROVE LastOf(s) <= last /\ s.first <= last + 1
  <2>1. /\ s.first \in Nat /\ LastOf(s) \in Nat /\ LastOf(s) + 1 >= s.first
        /\ LastSegment.first \in Nat /\ LastOf(LastSegment) \in Nat
        /\ LastOf(LastSegment) + 1 >= LastSegment.first
    BY <1>1, <1>2, LastOfIs DEF Pieces, Top
  <2>2. s.first <= LastSegment.first /\ LastSegment \in segments
    BY <1>1, <1>2 DEF Top
  <2>3. CASE s.first = LastSegment.first
    <3>1. s = LastSegment
      BY <1>2, <2>2, <2>3, InOrder
    <3> QED BY <1>1, <1>2, <2>1, <3>1
  <2>4. CASE s.first < LastSegment.first
    <3>1. LastOf(s) < LastSegment.first
      BY <1>2, <2>2, <2>4 DEF ExtentOK, Tiled
    <3>2. LastOf(LastSegment) = last
      BY <1>1, <1>2
    <3> QED BY <2>1, <3>1, <3>2
  <2> QED BY <2>1, <2>2, <2>3, <2>4
<1> QED BY <1>1, <1>2 DEF ExtentOK, Top

\* The file of a segment in memory, and what init makes of it.
LEMMA FileOf ==
    ASSUME TypeInv, NamesOK, HeldOK, OwnedOK, OpenOK, NEW s \in segments
    PROVE  LET f == File(s)
           IN  /\ f \in files /\ f.first = s.first /\ f.terms = s.terms /\ LastOf(f) = LastOf(s)
               /\ f \in FileType /\ NameOK(f) /\ f.synced <= Len(f.terms) /\ f.tail # "corrupt"
               /\ \A g \in files : g.first = s.first => g = f
               /\ s \in Live => f.last = 0
               /\ s \notin Live => f.last # 0
               /\ LastOf(s) >= meta => f \in NeededFiles
<1> DEFINE f == File(s)
<1>1. f \in files /\ f.first = s.first /\ f.terms = s.terms
      /\ \A g \in files : g.first = s.first => g = f
  BY TheFile DEF HeldOK, OpenOK
<1> HIDE DEF f
<1>2. f \in FileType /\ NameOK(f) /\ f.synced <= Len(f.terms) /\ f.tail # "corrupt"
  BY <1>1 DEF TypeInv, NamesOK, HeldOK
<1>3. (s \in Live => f.last = 0) /\ (s \notin Live => f.last # 0)
  BY <1>1 DEF OwnedOK
<1>4. LastOf(f) = LastOf(s)
  BY <1>1 DEF LastOf
<1>5. LastOf(s) >= meta => f \in NeededFiles
  BY <1>1, <1>2, <1>4 DEF NeededFiles, Needed, NameOK
<1> QED BY <1>1, <1>2, <1>3, <1>4, <1>5 DEF f

-----------------------------------------------------------------------------
(* Steps of the disk.                                                      *)

LEMMA DiskSame ==
    ASSUME NamesOK, FilesOK, files' = files, meta' = meta
    PROVE  NamesOK' /\ FilesOK' /\ NeededFiles' = NeededFiles
<1>1. NeededFiles' = NeededFiles
  BY DEF NeededFiles, Needed
<1>2. FilesOK'
  BY <1>1 DEF FilesOK
<1>3. NamesOK'
  BY DEF NamesOK, NameOK
<1> QED BY <1>1, <1>2, <1>3

LEMMA ExtentSame ==
    ASSUME ExtentOK, UNCHANGED <<first, last, closed, open>>,
           broken => broken', op.of = "suffix" /\ op.cut => broken' \/ (op'.of = "suffix" /\ op'.cut)
    PROVE  ExtentOK' /\ segments' = segments
<1>1. segments' = segments
  BY DEF segments
<1>2. ExtentOK'
  BY <1>1 DEF ExtentOK
<1> QED BY <1>1, <1>2

LEMMA HeldSame ==
    ASSUME HeldOK, UNCHANGED <<files, closed, open>>
    PROVE  HeldOK'
BY DEF HeldOK, HasFile, segments

\* A file without a last index in its name is the last one that is needed.
LEMMA InProgressIsLast ==
    ASSUME TypeInv, FilesOK, NEW f \in files, f.last = 0
    PROVE  f \in NeededFiles /\ \A g \in NeededFiles : g.first <= f.first
<1>1. f \in NeededFiles
  BY DEF NeededFiles, Needed
<1>2. ASSUME NEW g \in NeededFiles PROVE g.first <= f.first
  <2>1. ~(f.first < g.first)
    BY <1>1, <1>2 DEF FilesOK
  <2>2. f.first \in Nat /\ g.first \in Nat
    BY DEF TypeInv, FileType, NeededFiles
  <2> QED BY <2>1, <2>2
<1> QED BY <1>1, <1>2

\* No file follows the last that is needed.
LEMMA LastOfAll ==
    ASSUME TypeInv, NamesOK, ApartOK, NEW f \in NeededFiles, \A h \in NeededFiles : h.first <= f.first,
           NEW h \in files
    PROVE  h.first <= f.first
<1>1. f \in files /\ (f.last = 0 \/ f.last >= meta)
  BY DEF NeededFiles, Needed
<1>2. /\ f.first \in Nat /\ f.last \in Nat /\ h.first \in Nat /\ h.last \in Nat /\ meta \in Nat
      /\ LastOf(h) \in Nat /\ (h.terms # <<>> => LastOf(h) >= h.first)
  <2>1. f \in FileType /\ h \in FileType /\ meta \in Nat /\ Piece(h)
    BY <1>1, Memory DEF TypeInv, Pieces
  <2> QED BY <2>1, LastOfIs DEF FileType
<1>3. CASE h \in NeededFiles
  BY <1>3
<1>4. CASE h \notin NeededFiles
  <2>1. h.last # 0 /\ h.last < meta /\ h.first <= h.last
    BY <1>2, <1>4 DEF NeededFiles, Needed, NamesOK, NameOK
  <2>2. f.first < h.first => f.last # 0 /\ f.last < h.first
    BY <1>1 DEF ApartOK
  <2> QED BY <1>1, <1>2, <2>1, <2>2
<1> QED BY <1>3, <1>4

LEMMA PutIs ==
    ASSUME NamesOK, NEW f \in files, NEW g, g.first = f.first
    PROVE  Put(f, g) = (files \ {f}) \union {g}
<1>1. \A h \in files \ {f} : h.first # g.first
  BY DEF NamesOK
<1> QED BY <1>1 DEF Put, SameName

LEMMA ApartSame == ApartOK /\ files' \in SUBSET files => ApartOK'
BY DEF ApartOK

LEMMA OpenSame ==
    ASSUME OpenOK, files' \in SUBSET files,
           \A s \in (segments \union Leaving)' : s \in segments \union Leaving /\ (IsOpen(s)' <=> IsOpen(s))
    PROVE  OpenOK'
BY DEF OpenOK, Knows

\* Files keep their names, and segments know them.
LEMMA NamesLike ==
    ASSUME NameInv, is_open' = is_open,
           \A f \in files' : \E g \in files : g.first = f.first /\ g.last = f.last,
           up' /\ ~broken' => /\ up /\ ~broken
                             /\ \A s \in (segments \union Leaving)' :
                                   \E t \in segments \union Leaving : t.first = s.first
    PROVE  NameInv'
<1>1. ApartOK'
  BY DEF NameInv, ApartOK
<1>2. ASSUME up', ~broken' PROVE OpenOK'
  <2> SUFFICES ASSUME NEW s \in (segments \union Leaving)', NEW f \in files', f.first = s.first
               PROVE  f.last = 0 <=> s.first \in is_open
    BY DEF OpenOK, Knows, IsOpen
  <2>1. PICK t \in segments \union Leaving : t.first = s.first
    BY <1>2
  <2>2. PICK g \in files : g.first = f.first /\ g.last = f.last
    OBVIOUS
  <2> QED BY <1>2, <2>1, <2>2 DEF NameInv, OpenOK, Knows, IsOpen
<1> QED BY <1>1, <1>2 DEF NameInv

LEMMA NamesSame ==
    ASSUME NameInv, files' = files, is_open' = is_open,
           up' /\ ~broken' => /\ up /\ ~broken
                             /\ \A s \in (segments \union Leaving)' :
                                   \E t \in segments \union Leaving : t.first = s.first
    PROVE  NameInv'
BY NamesLike

LEMMA OwnedSame ==
    ASSUME OwnedOK, files' = files, meta' = meta, segments' = segments, Leaving' = Leaving, Live' = Live
    PROVE  OwnedOK'
BY DEF OwnedOK, HasFile, Needed

\* The file of the live segment.
LEMMA LiveFile ==
    ASSUME TypeInv, NamesOK, FilesOK, HeldOK, OwnedOK, OpenOK, NEW s \in segments, s \in Live
    PROVE  LET f == File(s)
           IN  /\ f \in NeededFiles /\ f \in files /\ f.first = s.first /\ f.terms = s.terms
               /\ f.last = 0 /\ f \in FileType /\ f.synced <= Len(f.terms) /\ f.tail # "corrupt"
               /\ \A g \in NeededFiles : g.first <= f.first
               /\ LastOf(f) = LastOf(s) /\ LastOf(f) <= MaxIndex /\ f.synced \in Nat
<1> DEFINE f == File(s)
<1>1. /\ f \in files /\ f.first = s.first /\ f.terms = s.terms /\ f.last = 0 /\ LastOf(f) = LastOf(s)
      /\ f \in FileType /\ f.synced <= Len(f.terms) /\ f.tail # "corrupt"
  BY FileOf
<1> HIDE DEF f
<1>2. f \in NeededFiles /\ \A g \in NeededFiles : g.first <= f.first
  BY <1>1, InProgressIsLast
<1>3. LastOf(f) <= MaxIndex /\ f.synced \in Nat
  BY <1>1 DEF TypeInv, FileType
<1> QED BY <1>1, <1>2, <1>3 DEF f

\* The last file that is needed is replaced.
LEMMA PutKeeps ==
    ASSUME TypeInv, NamesOK, FilesOK, ApartOK, NEW f \in NeededFiles, NEW g \in FileType,
           \A h \in NeededFiles : h.first <= f.first, g.first = f.first,
           NameOK(g), Needed(g), g.synced <= Len(g.terms), LastOf(g) <= MaxIndex,
           files' = Put(f, g), meta' = meta
    PROVE  /\ files' \in SUBSET FileType /\ IsFiniteSet(files') /\ NamesOK' /\ FilesOK' /\ ApartOK'
           /\ \A h \in files' : h.synced <= Len(h.terms) /\ h.first <= MaxIndex + 1
                                /\ LastOf(h) <= MaxIndex
           /\ g \in files' /\ \A h \in files' : h = g \/ (h \in files /\ h.first # g.first)
           /\ \A s : s.first # g.first /\ HasFile(s) => HasFile(s)'
           /\ \A s : s.first = g.first /\ s.terms = g.terms => HasFile(s)'
           /\ HeldOK /\ g.tail # "corrupt" => \A h \in files' : h.tail # "corrupt"
<1>1. f \in files /\ files \in SUBSET FileType /\ IsFiniteSet(files)
  BY DEF NeededFiles, TypeInv
<1>2. files' = (files \ {f}) \union {g}
  BY <1>1, PutIs
<1>3. \A h \in files' : h = g \/ (h \in files /\ h.first # g.first)
  BY <1>1, <1>2 DEF NamesOK
<1>4. files' \in SUBSET FileType /\ IsFiniteSet(files')
  <2>1. IsFiniteSet(files \ {f})
    BY <1>1, FS_Subset
  <2>2. IsFiniteSet((files \ {f}) \union {g})
    BY <2>1, FS_AddElement
  <2> QED BY <1>1, <1>2, <2>2
<1>5. \A h \in files' : h.synced <= Len(h.terms) /\ h.first <= MaxIndex + 1 /\ LastOf(h) <= MaxIndex
  BY <1>1, <1>3 DEF TypeInv
<1>6. NamesOK'
  <2>1. \A h, k \in files' : h.first = k.first => h = k
    BY <1>3 DEF NamesOK
  <2>2. \A h \in files' : NameOK(h)'
    BY <1>3 DEF NamesOK, NameOK
  <2> QED BY <2>1, <2>2 DEF NamesOK
<1>7. FilesOK'
  <2>1. NeededFiles' = (NeededFiles \ {f}) \union {g}
    BY <1>1, <1>2 DEF NeededFiles, Needed
  <2>2. \A h \in NeededFiles : ~(f.first < h.first)
    <3>1. \A h \in NeededFiles : h.first \in Nat /\ f.first \in Nat
      BY <1>1 DEF NeededFiles, FileType
    <3> QED BY <3>1
  <2>3. Tiled(NeededFiles', meta)
    <3>1. \A t \in NeededFiles' : \E s \in NeededFiles :
                /\ s.first = t.first
                /\ s.terms = t.terms \/ \A x \in NeededFiles : ~(s.first < x.first)
      BY <2>1, <2>2
    <3>2. \A s \in NeededFiles : \E t \in NeededFiles' :
                /\ s.first = t.first
                /\ s.terms = t.terms \/ \A x \in NeededFiles : ~(s.first < x.first)
      <4> SUFFICES ASSUME NEW s \in NeededFiles
                   PROVE  \E t \in NeededFiles' :
                      /\ s.first = t.first
                      /\ s.terms = t.terms \/ \A x \in NeededFiles : ~(s.first < x.first)
        OBVIOUS
      <4>1. CASE s = f
        BY <2>1, <2>2, <4>1
      <4>2. CASE s # f
        BY <2>1, <4>2
      <4> QED BY <4>1, <4>2
    <3>3. Tiled(NeededFiles, meta)
      BY DEF FilesOK
    <3> DEFINE N == NeededFiles
               M == NeededFiles'
    <3> HIDE DEF N, M
    <3>4. /\ \A t \in M : \E s \in N :
                /\ s.first = t.first
                /\ s.terms = t.terms \/ \A x \in N : ~(s.first < x.first)
          /\ \A s \in N : \E t \in M :
                /\ s.first = t.first
                /\ s.terms = t.terms \/ \A x \in N : ~(s.first < x.first)
          /\ Tiled(N, meta)
      BY <3>1, <3>2, <3>3 DEF N, M
    <3>5. Tiled(M, meta)
      BY <3>4, TiledLike
    <3> QED BY <3>5 DEF M
  <2>4. \A h, k \in NeededFiles' : h.first < k.first => h.last # 0
    <3> SUFFICES ASSUME NEW h \in NeededFiles', NEW k \in NeededFiles', h.first < k.first
                 PROVE  h.last # 0
      OBVIOUS
    <3>1. \E x \in NeededFiles : x.first = k.first
      BY <2>1
    <3>2. h # g
      BY <2>2, <3>1
    <3> QED BY <2>1, <3>1, <3>2 DEF FilesOK
  <2> QED BY <2>3, <2>4 DEF FilesOK
<1>8. g \in files'
  BY <1>2
<1>9. ASSUME NEW s, s.first # g.first, HasFile(s) PROVE HasFile(s)'
  <2>1. PICK h \in files : h.first = s.first /\ h.terms = s.terms
    BY <1>9 DEF HasFile
  <2>2. h \in files'
    BY <1>2, <1>9, <2>1
  <2> QED BY <2>1, <2>2 DEF HasFile
<1>10. ASSUME NEW s, s.first = g.first, s.terms = g.terms PROVE HasFile(s)'
  BY <1>8, <1>10 DEF HasFile
<1>11. HeldOK /\ g.tail # "corrupt" => \A h \in files' : h.tail # "corrupt"
  BY <1>3 DEF HeldOK
<1>12. ApartOK'
  <2>1. \A h \in files : h.first <= f.first /\ h.first \in Nat
    BY LastOfAll DEF TypeInv, FileType
  <2>2. f.first \in Nat
    BY <1>1, <2>1
  <2> SUFFICES ASSUME NEW h \in files', NEW k \in files', h.first < k.first
               PROVE  h.last # 0 /\ h.last < k.first
    BY DEF ApartOK
  <2>3. h \in files
    BY <1>3, <2>1, <2>2
  <2>4. \E x \in files : x.first = k.first
    BY <1>1, <1>3
  <2> QED BY <2>3, <2>4 DEF ApartOK
<1> QED BY <1>3, <1>4, <1>5, <1>6, <1>7, <1>8, <1>9, <1>10, <1>11, <1>12

\* A file is removed.
LEMMA RemoveKeeps ==
    ASSUME TypeInv, NamesOK, NEW f \in files, files' = files \ {f}, meta' = meta
    PROVE  /\ files' \in SUBSET FileType /\ IsFiniteSet(files') /\ NamesOK'
           /\ \A h \in files' : h \in files /\ h.first # f.first
           /\ \A s : s.first # f.first /\ HasFile(s) => HasFile(s)'
           /\ FilesOK /\ (f \notin NeededFiles \/ \A h \in NeededFiles : h.first <= f.first) => FilesOK'
<1>1. files' \in SUBSET FileType /\ IsFiniteSet(files')
  BY FS_Subset DEF TypeInv
<1>2. \A h \in files' : h \in files /\ h.first # f.first
  BY DEF NamesOK
<1>3. NamesOK'
  BY DEF NamesOK, NameOK
<1>4. ASSUME NEW s, s.first # f.first, HasFile(s) PROVE HasFile(s)'
  BY <1>4 DEF HasFile
<1>5. ASSUME FilesOK, f \notin NeededFiles \/ \A h \in NeededFiles : h.first <= f.first
      PROVE  FilesOK'
  <2>1. NeededFiles' = NeededFiles \ {f} /\ NeededFiles' \in SUBSET NeededFiles
    BY DEF NeededFiles, Needed
  <2>2. Tiled(NeededFiles', meta)
    <3>1. \A s \in NeededFiles, t \in NeededFiles' : s.first < t.first => s \in NeededFiles'
      <4> SUFFICES ASSUME NEW s \in NeededFiles, NEW t \in NeededFiles', s.first < t.first
                   PROVE  s \in NeededFiles'
        OBVIOUS
      <4>1. t \in NeededFiles /\ s.first \in Nat /\ t.first \in Nat
        BY <2>1 DEF NeededFiles, TypeInv, FileType
      <4>2. s # f
        BY <1>5, <4>1
      <4> QED BY <2>1, <4>2
    <3>2. Tiled(NeededFiles, meta)
      BY <1>5 DEF FilesOK
    <3> QED BY <2>1, <3>1, <3>2, TiledBelow
  <2> QED BY <1>5, <2>1, <2>2 DEF FilesOK
<1> QED BY <1>1, <1>2, <1>3, <1>4, <1>5

-----------------------------------------------------------------------------
(* append_entries.                                                         *)

LEMMA Starting == Init => IInv
<1> SUFFICES ASSUME Init PROVE IInv
  OBVIOUS
<1> USE SegmentStorageAssumption DEF Init
<1>1. segments = {} /\ <<>> \in Seq(SegmentType) /\ Len(<<>>) = 0
  <2>1. <<>> \in Seq(SegmentType) /\ Len(<<>>) = 0
    OBVIOUS
  <2>2. <<>> \o <<>> = <<>>
    BY <2>1, ConcatEmptySeq
  <2> QED BY <2>1, <2>2, EmptyToSet DEF segments
<1>2. TypeInv
  <2>1. MaxIndex \in Nat \ {0} /\ IsFiniteSet(files)
    BY FS_EmptySet
  <2>2. op.of # "append" /\ op \in OpType(Seq(SegmentType))
    BY <1>1 DEF Idle, OpType
  <2>3. op \in OpType(IF op.of = "append" THEN Seq(Terms) ELSE Seq(SegmentType))
    BY <2>2
  <2>4. closed \in Seq(SegmentType) /\ open \in Seq(SegmentType) /\ Len(open) <= 1
    BY <1>1
  <2>5. /\ \A s \in segments : s.first <= MaxIndex + 1
        /\ \A f \in files : /\ f.synced <= Len(f.terms)
                            /\ f.first <= MaxIndex + 1 /\ LastOf(f) <= MaxIndex
    BY <1>1
  <2>6. /\ meta \in 1..MaxIndex /\ first \in 1..MaxIndex /\ last \in 0..MaxIndex
        /\ last >= first - 1 /\ faults \in Nat
    BY <2>1
  <2> QED BY <2>1, <2>3, <2>4, <2>5, <2>6 DEF TypeInv
<1>3. NeededFiles = {} /\ DiskInv
  <2>1. NeededFiles = {}
    BY DEF NeededFiles
  <2>2. FilesOK
    BY <2>1, TiledNone DEF FilesOK
  <2> QED BY <2>1, <2>2 DEF DiskInv, NamesOK
<1>4. MemoryInv
  <2>1. Sorted(closed) /\ ToSet(closed) = {}
    BY <1>1, EmptyToSet DEF Sorted
  <2>2. ExtentOK
    BY <1>1, <2>1, TiledNone DEF ExtentOK
  <2> QED BY <1>1, <2>2 DEF MemoryInv, HeldOK
<1>5. StepInv
  <2>1. Leaving = {} /\ op.of = "none"
    BY EmptyToSet DEF Leaving, Idle
  <2>2. OwnedOK
    BY <1>1, <2>1 DEF OwnedOK
  <2>3. OpOK
    <3>1. op.left = <<>> /\ Len(<<>>) = 0
      BY DEF Idle
    <3> QED BY <2>1, <3>1 DEF OpOK
  <2> QED BY <2>2, <2>3 DEF StepInv
<1>6. NameInv
  <2>1. Leaving = {}
    BY EmptyToSet DEF Leaving, Idle
  <2> QED BY <1>1, <2>1 DEF NameInv, ApartOK, OpenOK
<1> QED BY <1>2, <1>3, <1>4, <1>5, <1>6 DEF IInv, FineInv

LEMMA BeforeAnOperation ==
    ASSUME IInv, up, op = Idle, ~broken
    PROVE  /\ NamesOK /\ FilesOK /\ ExtentOK /\ HeldOK /\ OwnedOK /\ OpenOK /\ ApartOK /\ meta = first
           /\ op.of = "none" /\ op.pc = "idle" /\ Leaving = {} /\ Live = ToSet(open)
<1>1. op.of = "none" /\ op.pc = "idle" /\ op.left = <<>>
  BY DEF Idle
<1> QED BY <1>1, EmptyToSet DEF IInv, DiskInv, MemoryInv, StepInv, OpOK, Resetting, Leaving, Live, NameInv

LEMMA InAppend ==
    ASSUME IInv, up, op.pc \in {"open", "create", "close", "sync"}
    PROVE  /\ NamesOK /\ FilesOK /\ ExtentOK /\ HeldOK /\ OwnedOK /\ OpenOK /\ ApartOK /\ meta = first
           /\ op.of = "append" /\ AppendOK /\ ~broken /\ Leaving = {}
           /\ op \in OpType(Seq(Terms))
           /\ op.pc # "close" => Live = ToSet(open)
<1>1. op.of = "append" /\ AppendOK /\ ~broken /\ OwnedOK /\ OpenOK /\ ApartOK
  BY AtStep DEF IInv
<1>2. NamesOK /\ FilesOK /\ ExtentOK /\ HeldOK
  BY <1>1 DEF IInv, DiskInv, MemoryInv, Resetting
<1> QED BY <1>1, <1>2 DEF AppendOK, Leaving, Live, IInv, TypeInv

LEMMA StepOfAppendEntries == IInv /\ append_entries => IInv'
<1> SUFFICES ASSUME IInv, append_entries PROVE IInv'
  OBVIOUS
<1> USE BeforeAnOperation DEF append_entries
<1>1. PICK n \in 1..MaxBatch, t \in Terms : /\ last + n <= MaxIndex
          /\ op' = [Idle EXCEPT !.of = "append", !.pc = "open", !.left = [i \in 1..n |-> t], !.k = 0]
  BY DEF Begin
<1>2. /\ op'.of = "append" /\ op'.pc = "open" /\ op' \in OpType(Seq(Terms))
      /\ op'.left # <<>> /\ Len(op'.left) = n /\ op'.left \in Seq(Terms)
  <2> DEFINE l == [i \in 1..n |-> t]
  <2>1. l \in Seq(Terms) /\ Len(l) = n /\ n # 0 /\ n \in Nat
    BY SegmentStorageAssumption
  <2> HIDE DEF l
  <2>2. l # <<>>
    BY <2>1, ElementsOf
  <2> QED BY <1>1, <2>1, <2>2 DEF Idle, OpType, l
<1>3. ExtentOK' /\ HeldOK' /\ segments' = segments
  BY ExtentSame, HeldSame DEF memory
<1>4. TypeInv'
  BY <1>2, <1>3 DEF IInv, TypeInv, memory
<1>5. DiskInv'
  BY DiskSame DEF DiskInv
<1>6. StepInv'
  <2>1. OpOK'
    BY <1>1, <1>2 DEF OpOK, AppendOK, memory
  <2>2. Leaving' = {} /\ Live' = Live
    BY <1>2 DEF Leaving, Live, memory
  <2>3. OwnedOK'
    BY <1>3, <2>2, OwnedSame DEF memory
  <2> QED BY <2>1, <2>3 DEF StepInv
<1>7. NameInv'
  <2>1. Leaving' = {}
    BY <1>2 DEF Leaving
  <2> QED BY <1>3, <2>1, NamesSame DEF IInv, memory
<1> QED BY <1>3, <1>4, <1>5, <1>6, <1>7 DEF IInv, MemoryInv, FineInv

LEMMA StepOfCreate == IInv /\ create_segment => IInv'
<1> SUFFICES ASSUME IInv, create_segment PROVE IInv'
  OBVIOUS
<1>0. PICK n, F : n = NewSegment(last + 1) /\ F = NewFile(last + 1)
  OBVIOUS
<1>1. /\ up /\ op.pc \in {"open", "create"} /\ open' = <<n>> /\ files' = Put(F, F)
      /\ is_open' = is_open \union {last + 1}
      /\ op' = [op EXCEPT !.pc = "open"] /\ UNCHANGED <<up, meta, first, last, closed, broken, refused, faults, bad>>
  BY <1>0 DEF create_segment, Goto
<1>2. /\ NamesOK /\ FilesOK /\ ExtentOK /\ HeldOK /\ OwnedOK /\ OpenOK /\ ApartOK /\ meta = first
      /\ op.of = "append" /\ AppendOK /\ ~broken /\ Leaving = {} /\ op \in OpType(Seq(Terms))
      /\ Live = ToSet(open) /\ TypeInv
  BY <1>1, InAppend DEF IInv
<1>3. open = <<>> /\ Live = {} /\ segments = ToSet(closed) /\ segments \in SUBSET SegmentType
      /\ Pieces(segments) /\ Pieces(NeededFiles)
  BY <1>2, EmptyToSet, Memory DEF create_segment, AppendOK
<1>4. /\ n \in SegmentType /\ n.first = last + 1 /\ n.terms = <<>> /\ LastOf(n) = last
      /\ F \in FileType /\ F.first = last + 1 /\ F.terms = <<>> /\ LastOf(F) = last /\ F.last = 0
      /\ F.synced = 0 /\ F.tail = "none" /\ Len(F.terms) = 0
      /\ last \in Nat /\ first \in Nat /\ meta \in Nat /\ last <= MaxIndex
  <2>1. last \in Nat /\ first \in Nat /\ meta \in Nat /\ last <= MaxIndex
    BY <1>2 DEF TypeInv
  <2>2. <<>> \in Seq(Terms) /\ Len(<<>>) = 0
    OBVIOUS
  <2> QED BY <1>0, <2>1, <2>2 DEF NewSegment, NewFile, SegmentType, FileType, LastOf
<1>5. op' \in OpType(Seq(Terms)) /\ op'.of = "append" /\ op'.pc = "open" /\ op'.left = op.left
  BY <1>1, <1>2 DEF OpType
<1>6. segments' = segments \union {n} /\ <<n>> \in Seq(SegmentType) /\ Len(<<n>>) = 1
      /\ ToSet(<<n>>) = {n} /\ open' # <<>>
  <2>1. <<n>> \in Seq(SegmentType) /\ Len(<<n>>) = 1 /\ ToSet(<<n>>) = {n} /\ <<n>> # <<>>
    BY <1>4, Singleton
  <2>2. closed \in Seq(SegmentType)
    BY <1>2, Memory
  <2>3. segments' = ToSet(closed') \union ToSet(open')
    BY <1>1, <2>1, <2>2, MemoryNext
  <2> QED BY <1>1, <1>3, <2>1, <2>3
<1>7. \A s \in segments : s.terms # <<>> /\ LastOf(s) < last + 1 /\ s.first < last + 1
  <2> SUFFICES ASSUME NEW s \in segments
               PROVE  s.terms # <<>> /\ LastOf(s) < last + 1 /\ s.first < last + 1
    OBVIOUS
  <2>1. s.terms # <<>>
    BY <1>2, <1>3 DEF ExtentOK
  <2>2. LastOf(s) <= last
    BY <1>2, Ends
  <2>3. LastOf(s) \in Nat /\ s.first \in Nat /\ LastOf(s) >= s.first
    BY <1>3, <2>1, LastOfIs DEF Pieces
  <2> QED BY <1>4, <2>1, <2>2, <2>3
<1>8. \A f \in NeededFiles : f.last # 0 /\ \E s \in segments : s.first = f.first
                                                /\ LastOf(f) = LastOf(s) /\ f.terms = s.terms
  <2> SUFFICES ASSUME NEW f \in NeededFiles
               PROVE  f.last # 0 /\ \E s \in segments : s.first = f.first /\ LastOf(f) = LastOf(s)
                                                      /\ f.terms = s.terms
    OBVIOUS
  <2>1. PICK s \in segments : s.first = f.first
    BY <1>2 DEF OwnedOK, NeededFiles
  <2>2. f = File(s) /\ f.last # 0 /\ LastOf(f) = LastOf(s) /\ f.terms = s.terms
    BY <1>2, <1>3, <2>1, FileOf DEF NeededFiles
  <2> QED BY <2>1, <2>2
<1>9. \A f \in files : f.last # 0 /\ f.first < last + 1 /\ f.last < last + 1
  <2> SUFFICES ASSUME NEW f \in files
               PROVE  f.last # 0 /\ f.first < last + 1 /\ f.last < last + 1
    OBVIOUS
  <2>1. NameOK(f) /\ f \in FileType /\ Piece(f) /\ last >= first - 1
    BY <1>2, Memory DEF NamesOK, TypeInv, Pieces
  <2>2. f.last # 0 => f.last = LastOf(f) /\ LastOf(f) >= f.first
    BY <2>1, LastOfIs DEF NameOK
  <2>3. CASE f \in NeededFiles
    <3>1. f.last # 0 /\ \E s \in segments : s.first = f.first /\ LastOf(f) = LastOf(s)
      BY <1>8, <2>3
    <3> QED BY <1>7, <2>2, <3>1
  <2>4. CASE f \notin NeededFiles
    <3>1. f.last # 0 /\ f.last < meta
      BY <1>4, <2>1, <2>4 DEF NeededFiles, Needed, FileType
    <3> QED BY <1>2, <1>4, <2>1, <2>2, <3>1 DEF FileType
  <2> QED BY <2>3, <2>4
<1>16. files' = files \union {F}
  <2>1. \A h \in files \ {F} : ~SameName(h, F)
    BY <1>4, <1>9 DEF SameName
  <2> QED BY <1>1, <2>1 DEF Put
<1>10. last + 1 <= first \/ \E s \in segments : LastOf(s) + 1 = last + 1 /\ LastOf(s) >= first
  <2>1. CASE segments = {}
    BY <1>2, <1>4, <2>1, Ends
  <2>2. CASE segments # {}
    <3>1. LastSegment \in segments /\ LastOf(LastSegment) = last
      BY <1>2, <2>2, Ends
    <3>2. LastOf(LastSegment) >= first
      BY <1>2, <1>7, <3>1 DEF ExtentOK
    <3> QED BY <3>1, <3>2
  <2> QED BY <2>1, <2>2
<1>11. TypeInv'
  <2>1. files' \in SUBSET FileType /\ IsFiniteSet(files')
    BY <1>16, <1>2, <1>4, FS_AddElement DEF TypeInv
  <2>2. /\ \A s \in segments' : s.first <= MaxIndex + 1
        /\ \A f \in files' : f.synced <= Len(f.terms) /\ f.first <= MaxIndex + 1 /\ LastOf(f) <= MaxIndex
    <3>1. last + 1 <= MaxIndex + 1 /\ 0 <= 0
      BY <1>4, SegmentStorageAssumption
    <3>2. F.synced <= Len(F.terms)
      BY <1>4
    <3> QED BY <1>1, <1>2, <1>4, <1>6, <1>16, <3>1, <3>2 DEF TypeInv
  <2> QED BY <1>1, <1>2, <1>5, <1>6, <2>1, <2>2 DEF TypeInv
<1>12. DiskInv'
  <2>1. NamesOK'
    <3>1. NameOK(F)'
      BY <1>4 DEF NameOK
    <3>2. \A f, g \in files' : f.first = g.first => f = g
      BY <1>16, <1>2, <1>4, <1>9 DEF NamesOK, TypeInv, FileType
    <3> QED BY <1>16, <1>2, <3>1, <3>2 DEF NamesOK, NameOK
  <2>2. NeededFiles' = NeededFiles \union {F}
    BY <1>1, <1>4, <1>16 DEF NeededFiles, Needed
  <2>3. Tiled(NeededFiles \union {F}, meta)
    <3>1. \A f \in NeededFiles : f.terms # <<>> /\ LastOf(f) < F.first
      BY <1>4, <1>7, <1>8
    <3>2. F.first <= meta \/ \E f \in NeededFiles : LastOf(f) + 1 = F.first
      <4>1. CASE last + 1 <= first
        BY <1>2, <1>4, <4>1
      <4>2. CASE \E s \in segments : LastOf(s) + 1 = last + 1 /\ LastOf(s) >= first
        <5>1. PICK s \in segments : LastOf(s) + 1 = last + 1 /\ LastOf(s) >= first
          BY <4>2
        <5>2. File(s) \in NeededFiles /\ LastOf(File(s)) = LastOf(s)
          BY <1>2, <5>1, FileOf
        <5> QED BY <1>4, <5>1, <5>2
      <4> QED BY <1>10, <4>1, <4>2
    <3>3. Piece(F) /\ Tiled(NeededFiles, meta)
      BY <1>2, <1>4, FileIsPiece DEF FilesOK
    <3> QED BY <1>3, <3>1, <3>2, <3>3, TiledAdd
  <2>4. FilesOK'
    <3>1. \A f, g \in NeededFiles' : f.first < g.first => f.last # 0
      <4> SUFFICES ASSUME NEW f \in NeededFiles', NEW g \in NeededFiles', f.first < g.first
                   PROVE  f.last # 0
        OBVIOUS
      <4>1. CASE f \in NeededFiles
        BY <1>8, <4>1
      <4>2. CASE f = F
        <5>1. g = F \/ g \in files
          BY <2>2 DEF NeededFiles
        <5>2. g \in files => g.first < last + 1 /\ g.first \in Nat
          BY <1>2, <1>9 DEF TypeInv, FileType
        <5> QED BY <1>4, <4>2, <5>1, <5>2
      <4> QED BY <2>2, <4>1, <4>2
    <3> QED BY <1>1, <2>2, <2>3, <3>1 DEF FilesOK
  <2> QED BY <2>1, <2>4 DEF DiskInv
<1>13. ExtentOK'
  <2>1. Tiled(segments', first')
    <3>1. Piece(n) /\ Tiled(segments, first)
      BY <1>2, <1>4, SegmentIsPiece DEF ExtentOK
    <3>2. \A s \in segments : s.terms # <<>> /\ LastOf(s) < n.first
      BY <1>4, <1>7
    <3>3. n.first <= first \/ \E s \in segments : LastOf(s) + 1 = n.first
      BY <1>4, <1>10
    <3> QED BY <1>1, <1>3, <1>6, <3>1, <3>2, <3>3, TiledAdd
  <2>2. \A s \in segments' : Top(s, segments') => s = n
    <3> SUFFICES ASSUME NEW s \in segments', Top(s, segments') PROVE s = n
      OBVIOUS
    <3>1. n.first <= s.first
      BY <1>6 DEF Top
    <3>2. s \in segments => s.first < n.first /\ s.first \in Nat /\ n.first \in Nat
      BY <1>3, <1>4, <1>7 DEF SegmentType
    <3> QED BY <1>6, <3>1, <3>2
  <2>3. \A s \in ToSet(closed'), t \in ToSet(open') : s.first < t.first
    BY <1>1, <1>3, <1>4, <1>6, <1>7
  <2>4. segments' # {} /\ last' = LastOf(n) /\ last' <= LastOf(n)
    BY <1>1, <1>4, <1>6
  <2>5. \A s \in segments' : LastOf(s) >= first' \/ s.terms = <<>>
    BY <1>1, <1>2, <1>4, <1>6 DEF ExtentOK
  <2> QED BY <1>1, <1>2, <2>1, <2>2, <2>3, <2>4, <2>5 DEF ExtentOK
<1>14. HeldOK'
  <2>1. \A s : HasFile(s) => HasFile(s)'
    BY <1>16 DEF HasFile
  <2>2. HasFile(n)'
    BY <1>16, <1>4, <1>6 DEF HasFile
  <2>3. \A f \in files' : f.tail # "corrupt"
    BY <1>16, <1>2, <1>4 DEF HeldOK
  <2> QED BY <1>2, <1>6, <2>1, <2>2, <2>3 DEF HeldOK, HasFile
<1>15. StepInv'
  <2>1. OpOK'
    BY <1>1, <1>2, <1>5 DEF OpOK, AppendOK
  <2>2. Leaving' = {} /\ Live' = {n}
    BY <1>1, <1>5, <1>6 DEF Leaving, Live
  <2>3. OwnedOK'
    <3>1. \A f \in files' : Needed(f)' => \E s \in segments' : s.first = f.first
      BY <1>1, <1>4, <1>6, <1>8, <1>16 DEF NeededFiles, Needed
    <3>2. \A f \in files' : f.first = n.first => f.last = 0
      BY <1>16, <1>4, <1>9 DEF NamesOK
    <3>3. \A f \in files' : \A s \in segments' \ {n} : s.first = f.first => f.last # 0
      BY <1>16, <1>4, <1>6, <1>7, <1>9
    <3> QED BY <2>2, <3>1, <3>2, <3>3 DEF OwnedOK
  <2> QED BY <1>1, <1>2, <2>1, <2>3 DEF StepInv
<1>17. NameInv'
  <2>1. ApartOK'
    <3> SUFFICES ASSUME NEW f \in files', NEW g \in files', f.first < g.first
                 PROVE  f.last # 0 /\ f.last < g.first
      BY DEF ApartOK
    <3>1. f \in files
      <4>1. f = F /\ g = F => ~(f.first < g.first)
        BY <1>4
      <4>2. f = F /\ g \in files => ~(f.first < g.first)
        BY <1>2, <1>4, <1>9 DEF TypeInv, FileType
      <4> QED BY <1>16, <4>1, <4>2
    <3> QED BY <1>2, <1>4, <1>9, <1>16, <3>1 DEF ApartOK
  <2>2. OpenOK'
    <3> SUFFICES ASSUME NEW s \in segments \union {n}, NEW f \in files', f.first = s.first
                 PROVE  f.last = 0 <=> IsOpen(s)'
      <4>1. Leaving' = {}
        BY <1>5 DEF Leaving
      <4> QED BY <1>6, <4>1 DEF OpenOK, Knows
    <3>1. CASE s = n
      <4>1. f = F
        BY <1>4, <1>9, <1>16, <3>1
      <4> QED BY <1>1, <1>4, <3>1, <4>1 DEF IsOpen
    <3>2. CASE s \in segments
      <4>1. s.first < last + 1 /\ s.first \in Nat
        BY <1>3, <1>7, <3>2 DEF SegmentType
      <4>2. f \in files /\ IsOpen(s)' = IsOpen(s)
        BY <1>1, <1>4, <1>16, <4>1 DEF IsOpen
      <4> QED BY <1>2, <3>2, <4>2 DEF OpenOK, Knows
    <3> QED BY <3>1, <3>2
  <2> QED BY <2>1, <2>2 DEF NameInv
<1> QED BY <1>1, <1>11, <1>12, <1>13, <1>14, <1>15, <1>17 DEF IInv, MemoryInv, FineInv

LEMMA FullIs ==
    ASSUME NEW s \in SegmentType, IsFull(s)
    PROVE  s.terms # <<>> /\ (EntryBytes <= MaxSegment => Len(s.terms) > 1)
<1> DEFINE n == Len(s.terms)
<1>1. n \in Nat /\ (s.terms = <<>> <=> n = 0)
  BY LastOfIs, SegmentIsPiece, ElementsOf DEF Piece
<1>2. n * EntryBytes > MaxSegment
  BY DEF IsFull, Bytes
<1>3. EntryBytes \in Nat \ {0} /\ MaxSegment \in Nat \ {0}
  BY SegmentStorageAssumption
<1> HIDE DEF n
<1>4. n # 0
  BY <1>2, <1>3
<1>5. n = 1 => n * EntryBytes = EntryBytes
  BY <1>3
<1>6. EntryBytes <= MaxSegment => n # 1
  BY <1>2, <1>3, <1>5
<1>7. EntryBytes <= MaxSegment => n > 1
  BY <1>1, <1>4, <1>6
<1> QED BY <1>1, <1>4, <1>7 DEF n

LEMMA StepOfOpenFull == IInv /\ open_segment_full => IInv'
<1> SUFFICES ASSUME IInv, open_segment_full PROVE IInv'
  OBVIOUS
<1>1. /\ up /\ op.pc = "open" /\ open # <<>> /\ IsFull(open[1])
      /\ closed' = closed \o open /\ open' = <<>> /\ op' = [op EXCEPT !.pc = "close"]
      /\ UNCHANGED <<up, files, meta, first, last, is_open, broken, refused, faults, bad>>
  BY DEF open_segment_full, Goto
<1>2. /\ NamesOK /\ FilesOK /\ ExtentOK /\ HeldOK /\ OwnedOK /\ OpenOK /\ ApartOK /\ meta = first
      /\ op.of = "append" /\ AppendOK /\ ~broken /\ Leaving = {} /\ op \in OpType(Seq(Terms))
      /\ Live = ToSet(open) /\ TypeInv
  BY <1>1, InAppend DEF IInv
<1>3. /\ closed \in Seq(SegmentType) /\ open \in Seq(SegmentType) /\ Len(open) <= 1
      /\ closed' \in Seq(SegmentType) /\ open' \in Seq(SegmentType) /\ Len(open') = 0
      /\ ToSet(open') = {} /\ ToSet(closed') = ToSet(closed) \union ToSet(open)
      /\ segments = ToSet(closed') /\ segments \in SUBSET SegmentType
  <2>1. /\ closed \in Seq(SegmentType) /\ open \in Seq(SegmentType) /\ Len(open) <= 1
        /\ segments = ToSet(closed) \union ToSet(open) /\ segments \in SUBSET SegmentType
    BY <1>2, Memory
  <2>2. <<>> \in Seq(SegmentType) /\ Len(<<>>) = 0
    OBVIOUS
  <2>3. closed \o open \in Seq(SegmentType) /\ ToSet(closed \o open) = ToSet(closed) \union ToSet(open)
    BY <2>1, ElementsOfConcat
  <2> QED BY <1>1, <2>1, <2>2, <2>3, EmptyToSet
<1>4. segments' = segments
  BY <1>3, MemoryNext
<1>5. /\ ToSet(open) = {open[1]} /\ open[1] \in SegmentType
      /\ closed' # <<>> /\ Last(closed') = open[1]
  <2>1. ToSet(open) = {open[1]} /\ open[1] \in SegmentType
    BY <1>1, <1>3, AtMostOne
  <2>2. closed' # <<>>
    BY <1>3, <2>1, EmptyToSet
  <2>3. Last(closed \o open) = IF open = <<>> THEN Last(closed) ELSE open[1]
    BY <1>1, <1>3, <2>2, LastOfConcat
  <2> QED BY <1>1, <2>1, <2>2, <2>3
<1>6. op' \in OpType(Seq(Terms)) /\ op'.of = "append" /\ op'.pc = "close" /\ op'.left = op.left
  BY <1>1, <1>2 DEF OpType
<1>7. TypeInv'
  BY <1>1, <1>2, <1>3, <1>4, <1>6 DEF TypeInv
<1>8. DiskInv'
  BY <1>1, <1>2, DiskSame DEF DiskInv
<1>9. ExtentOK'
  <2>1. Sorted(closed')
    BY <1>1, <1>2, InOrder
  <2>2. \A s \in ToSet(closed') : s.terms # <<>>
    <3>1. open[1].terms # <<>>
      BY <1>1, <1>5, FullIs
    <3> QED BY <1>2, <1>3, <1>5, <3>1 DEF ExtentOK
  <2>3. Tiled(segments', first')
    BY <1>1, <1>2, <1>4 DEF ExtentOK
  <2> QED BY <1>1, <1>2, <1>3, <1>4, <1>6, <2>1, <2>2, <2>3 DEF ExtentOK
<1>10. HeldOK'
  BY <1>1, <1>2, <1>4 DEF HeldOK, HasFile
<1>11. OpOK'
  BY <1>1, <1>2, <1>5, <1>6 DEF OpOK, AppendOK
<1>12. OwnedOK'
  <2>1. Leaving' = {} /\ Live' = Live
    BY <1>2, <1>5, <1>6 DEF Leaving, Live
  <2> QED BY <1>1, <1>2, <1>4, <2>1, OwnedSame
<1>13. NameInv'
  <2>1. Leaving' = {}
    BY <1>6 DEF Leaving
  <2> QED BY <1>1, <1>4, <2>1, NamesSame DEF IInv
<1> QED BY <1>1, <1>2, <1>7, <1>8, <1>9, <1>10, <1>11, <1>12, <1>13 DEF IInv, MemoryInv, StepInv, FineInv

LEMMA StepOfClose == IInv /\ PowerOK /\ close_segment => IInv'
<1> SUFFICES ASSUME IInv, PowerOK, close_segment PROVE IInv'
  OBVIOUS
<1>0. PICK s, f, g : /\ s = Last(closed) /\ f = File(s)
                     /\ g = [f EXCEPT !.last = LastOf(s), !.synced = SyncedAtClose(s, f)]
  OBVIOUS
<1>1. /\ up /\ op.pc = "close" /\ files' = Put(f, g) /\ op' = [op EXCEPT !.pc = "create"]
      /\ is_open' = is_open \ {s.first}
      /\ UNCHANGED <<up, meta, first, last, closed, open, broken, refused, faults, bad>>
  BY <1>0 DEF close_segment, Goto
<1>2. /\ NamesOK /\ FilesOK /\ ExtentOK /\ HeldOK /\ OwnedOK /\ OpenOK /\ ApartOK /\ meta = first
      /\ op.of = "append" /\ AppendOK /\ ~broken /\ Leaving = {} /\ op \in OpType(Seq(Terms))
      /\ TypeInv
  BY <1>1, InAppend DEF IInv
<1>3. /\ open = <<>> /\ closed # <<>> /\ s \in ToSet(closed) /\ segments = ToSet(closed)
      /\ s \in SegmentType /\ segments \in SUBSET SegmentType /\ Live = {s} /\ IsFull(s)
  <2>1. open = <<>> /\ closed # <<>> /\ IsFull(s)
    BY <1>0, <1>1, <1>2 DEF AppendOK
  <2>2. closed \in Seq(SegmentType) /\ segments = ToSet(closed) \union {} /\ segments \in SUBSET SegmentType
    BY <1>2, <2>1, Memory, EmptyToSet
  <2>3. s \in ToSet(closed)
    BY <1>0, <2>1, <2>2, ElementsOf
  <2> QED BY <1>0, <1>1, <2>1, <2>2, <2>3 DEF Live
<1>4. /\ f \in NeededFiles /\ f \in files /\ f.first = s.first /\ f.terms = s.terms
      /\ f.last = 0 /\ f \in FileType /\ f.synced <= Len(f.terms) /\ f.tail # "corrupt"
      /\ \A h \in NeededFiles : h.first <= f.first
      /\ LastOf(f) = LastOf(s) /\ LastOf(f) <= MaxIndex /\ f.synced \in Nat
  BY <1>0, <1>2, <1>3, LiveFile
<1>5. /\ LastOf(s) \in Nat /\ s.terms # <<>> /\ LastOf(s) >= s.first /\ Len(s.terms) \in Nat
      /\ LastOf(s) = s.first + Len(s.terms) - 1 /\ s.first \in Nat \ {0} /\ LastOf(s) >= first
      /\ first \in Nat \ {0}
  <2>1. s.terms # <<>> /\ LastOf(s) >= first
    BY <1>2, <1>3 DEF ExtentOK
  <2>2. first \in Nat \ {0}
    BY <1>2, SegmentStorageAssumption DEF TypeInv
  <2> QED BY <1>3, <2>1, <2>2, LastOfIs, SegmentIsPiece
<1>6. /\ g \in FileType /\ g.first = s.first /\ g.terms = s.terms /\ g.last = LastOf(s)
      /\ g.synced \in {f.synced, Len(s.terms)} /\ g.tail = f.tail
      /\ "power" \in Faults => g.synced = Len(g.terms)
  <2>1. SyncedAtClose(s, f) \in {f.synced, Len(s.terms)}
    BY <1>4 DEF SyncedAtClose
  <2>2. "power" \in Faults => SyncedAtClose(s, f) = Len(s.terms)
    <3> SUFFICES ASSUME "power" \in Faults PROVE SyncedAtClose(s, f) = Len(s.terms)
      OBVIOUS
    <3>1. SyncSegments /\ Len(s.terms) > 1
      BY <1>3, FullIs DEF PowerOK
    <3>2. LastOf(s) > s.first
      BY <1>5, <3>1
    <3> QED BY <1>4, <3>1, <3>2 DEF SyncedAtClose
  <2> QED BY <1>0, <1>4, <1>5, <2>1, <2>2 DEF FileType
<1>7. NameOK(g) /\ Needed(g) /\ g.synced <= Len(g.terms) /\ LastOf(g) <= MaxIndex /\ g.first = f.first
  <2>1. LastOf(g) = LastOf(s)
    BY <1>6 DEF LastOf
  <2> QED BY <1>2, <1>4, <1>5, <1>6, <2>1 DEF NameOK, Needed
<1>8. /\ files' \in SUBSET FileType /\ IsFiniteSet(files') /\ NamesOK' /\ FilesOK' /\ ApartOK'
      /\ \A h \in files' : h.synced <= Len(h.terms) /\ h.first <= MaxIndex + 1 /\ LastOf(h) <= MaxIndex
      /\ g \in files' /\ \A h \in files' : h = g \/ (h \in files /\ h.first # g.first)
      /\ \A x : x.first # g.first /\ HasFile(x) => HasFile(x)'
      /\ \A x : x.first = g.first /\ x.terms = g.terms => HasFile(x)'
      /\ \A h \in files' : h.tail # "corrupt"
  BY <1>1, <1>2, <1>4, <1>6, <1>7, PutKeeps
<1>9. op' \in OpType(Seq(Terms)) /\ op'.of = "append" /\ op'.pc = "create" /\ op'.left = op.left
  BY <1>1, <1>2 DEF OpType
<1>10. ExtentOK' /\ segments' = segments
  BY <1>1, <1>2, ExtentSame
<1>11. TypeInv'
  BY <1>1, <1>2, <1>8, <1>9, <1>10 DEF TypeInv
<1>12. DiskInv'
  BY <1>8 DEF DiskInv
<1>13. HeldOK'
  <2>1. \A x \in segments : x.first = g.first => x.terms = g.terms
    BY <1>2, <1>3, <1>6, InOrder
  <2>2. \A x \in segments : HasFile(x)'
    BY <1>2, <1>8, <2>1 DEF HeldOK
  <2> QED BY <1>8, <1>10, <2>2 DEF HeldOK, HasFile
<1>14. OpOK'
  BY <1>1, <1>2, <1>3, <1>9 DEF OpOK, AppendOK
<1>15. OwnedOK'
  <2>1. Leaving' = {} /\ Live' = {}
    BY <1>1, <1>3, <1>9, EmptyToSet DEF Leaving, Live
  <2>2. \A h \in files' : Needed(h)' => \E x \in segments : x.first = h.first
    BY <1>1, <1>2, <1>3, <1>6, <1>8 DEF OwnedOK, Needed
  <2>3. \A h \in files' : h.last # 0
    <3> SUFFICES ASSUME NEW h \in files' PROVE h.last # 0
      OBVIOUS
    <3>1. CASE h = g
      BY <1>5, <1>6, <3>1
    <3>2. CASE h \in files /\ h.first # g.first
      <4> SUFFICES ASSUME h.last = 0 PROVE FALSE
        OBVIOUS
      <4>1. PICK x \in segments : x.first = h.first
        BY <2>2 DEF Needed
      <4>2. x \notin Live
        BY <1>3, <1>6, <3>2, <4>1
      <4> QED BY <1>2, <3>2, <4>1, <4>2 DEF OwnedOK
    <3> QED BY <1>8, <3>1, <3>2
  <2> QED BY <1>10, <2>1, <2>2, <2>3 DEF OwnedOK
<1>16. NameInv'
  <2>1. OpenOK'
    <3> SUFFICES ASSUME NEW x \in segments, NEW h \in files', h.first = x.first
                 PROVE  h.last = 0 <=> IsOpen(x)'
      <4>1. Leaving' = {}
        BY <1>9 DEF Leaving
      <4> QED BY <1>10, <4>1 DEF OpenOK, Knows
    <3>1. CASE h = g
      BY <1>1, <1>5, <1>6, <3>1 DEF IsOpen
    <3>2. CASE h \in files /\ h.first # g.first
      <4>1. IsOpen(x)' = IsOpen(x)
        BY <1>1, <1>6, <3>2 DEF IsOpen
      <4> QED BY <1>2, <3>2, <4>1 DEF OpenOK, Knows
    <3> QED BY <1>8, <3>1, <3>2
  <2> QED BY <1>8, <2>1 DEF NameInv
<1> QED BY <1>1, <1>2, <1>10, <1>11, <1>12, <1>13, <1>14, <1>15, <1>16
        DEF IInv, MemoryInv, StepInv, FineInv

LEMMA StepOfWrite == IInv /\ write => IInv'
<1> SUFFICES ASSUME IInv, write PROVE IInv'
  OBVIOUS
<1>0. PICK s, f, g, t, s1 :
        /\ s = open[1] /\ f = File(s) /\ t = Head(op.left)
        /\ g = [f EXCEPT !.terms = Append(@, t)] /\ s1 = [s EXCEPT !.terms = Append(@, t)]
  OBVIOUS
<1>1. /\ up /\ op.pc = "open" /\ open # <<>> /\ files' = Put(f, g) /\ open' = <<s1>> /\ last' = last + 1
      /\ op' = [op EXCEPT !.left = Tail(@), !.pc = IF Len(op.left) = 1 THEN "sync" ELSE "open"]
      /\ UNCHANGED <<up, meta, first, closed, is_open, broken, refused, faults, bad>>
  BY <1>0 DEF write
<1>2. /\ NamesOK /\ FilesOK /\ ExtentOK /\ HeldOK /\ OwnedOK /\ OpenOK /\ ApartOK /\ meta = first
      /\ op.of = "append" /\ AppendOK /\ ~broken /\ Leaving = {} /\ op \in OpType(Seq(Terms))
      /\ TypeInv /\ Live = ToSet(open)
  BY <1>1, InAppend DEF IInv
<1>3. /\ s \in SegmentType /\ segments \in SUBSET SegmentType /\ Live = {s} /\ s \in segments
      /\ segments = ToSet(closed) \union {s} /\ closed \in Seq(SegmentType)
      /\ \A x \in segments : x.first <= s.first /\ ~(s.first < x.first)
      /\ \A x \in ToSet(closed) : x.first < s.first /\ x # s /\ x.first # s.first
  <2>1. /\ closed \in Seq(SegmentType) /\ open \in Seq(SegmentType) /\ Len(open) <= 1
        /\ segments = ToSet(closed) \union ToSet(open) /\ segments \in SUBSET SegmentType
    BY <1>2, Memory
  <2>2. ToSet(open) = {s}
    BY <1>0, <1>1, <2>1, AtMostOne
  <2>3. \A x \in ToSet(closed) : x.first < s.first
    BY <1>2, <2>2 DEF ExtentOK
  <2>4. \A x \in segments : x.first \in Nat
    BY <2>1 DEF SegmentType
  <2>5. s.first \in Nat
    BY <2>1, <2>2, <2>4
  <2>6. \A x \in ToSet(closed) : x.first \in Nat
    BY <2>1, <2>4
  <2> QED BY <1>2, <2>1, <2>2, <2>3, <2>5, <2>6
<1>4. /\ f \in NeededFiles /\ f \in files /\ f.first = s.first /\ f.terms = s.terms
      /\ f.last = 0 /\ f \in FileType /\ f.synced <= Len(f.terms) /\ f.tail # "corrupt"
      /\ \A h \in NeededFiles : h.first <= f.first
      /\ LastOf(f) = LastOf(s) /\ LastOf(f) <= MaxIndex /\ f.synced \in Nat
  BY <1>0, <1>2, <1>3, LiveFile
<1>5. /\ op.left \in Seq(Terms) /\ Len(op.left) \in Nat \ {0} /\ t \in Terms
      /\ Tail(op.left) \in Seq(Terms) /\ Len(Tail(op.left)) = Len(op.left) - 1
      /\ last + Len(op.left) <= MaxIndex
      /\ Len(op.left) # 1 => Tail(op.left) # <<>>
  <2>1. op.left \in Seq(Terms) /\ op.left # <<>> /\ last + Len(op.left) <= MaxIndex
    BY <1>1, <1>2 DEF OpType, AppendOK
  <2>2. /\ Head(op.left) \in Terms /\ Tail(op.left) \in Seq(Terms)
        /\ Len(Tail(op.left)) = Len(op.left) - 1
    BY <2>1, HeadTailProperties
  <2>3. Len(op.left) \in Nat \ {0}
    BY <2>1, ElementsOf
  <2>4. Len(op.left) # 1 => Tail(op.left) # <<>>
    <3>1. Tail(op.left) = <<>> => Len(op.left) - 1 = 0
      BY <2>2, ElementsOf
    <3> QED BY <2>3, <3>1
  <2> QED BY <1>0, <2>1, <2>2, <2>3, <2>4
<1>6. /\ s.terms \in Seq(Terms) /\ Append(s.terms, t) \in Seq(Terms)
      /\ Len(Append(s.terms, t)) = Len(s.terms) + 1 /\ Append(s.terms, t) # <<>>
      /\ Len(s.terms) \in Nat /\ s.first \in Nat \ {0} /\ LastOf(s) = s.first + Len(s.terms) - 1
      /\ LastOf(s) = last
  <2>1. s.terms \in Seq(Terms) /\ s.first \in Nat \ {0} /\ LastOf(s) = s.first + Len(s.terms) - 1
    BY <1>3 DEF SegmentType, LastOf
  <2>2. /\ Append(s.terms, t) \in Seq(Terms) /\ Append(s.terms, t) # <<>>
        /\ Len(Append(s.terms, t)) = Len(s.terms) + 1
    BY <1>5, <2>1, AppendProperties
  <2>3. segments # {} /\ LastSegment = s
    BY <1>0, <1>1, <1>2, <1>3, InOrder
  <2>4. LastOf(s) = last
    BY <1>2, <2>3, Ends
  <2> QED BY <2>1, <2>2, <2>4, LenProperties
<1>7. /\ s1 \in SegmentType /\ s1.first = s.first /\ s1.terms = Append(s.terms, t)
      /\ g \in FileType /\ g.first = s.first /\ g.terms = s1.terms /\ g.last = 0
      /\ g.synced = f.synced /\ g.tail = f.tail
      /\ LastOf(s1) = last + 1 /\ LastOf(g) = last + 1
  <2>1. /\ s1 \in SegmentType /\ s1.first = s.first /\ s1.terms = Append(s.terms, t)
    BY <1>0, <1>3, <1>6 DEF SegmentType
  <2>2. /\ g \in FileType /\ g.first = s.first /\ g.terms = Append(s.terms, t) /\ g.last = 0
        /\ g.synced = f.synced /\ g.tail = f.tail
    BY <1>0, <1>4, <1>6 DEF FileType
  <2>3. LastOf(s1) = last + 1 /\ LastOf(g) = last + 1
    <3>1. s.first + (Len(s.terms) + 1) - 1 = (s.first + Len(s.terms) - 1) + 1
      BY <1>6
    <3> QED BY <1>6, <2>1, <2>2, <3>1 DEF LastOf
  <2> QED BY <2>1, <2>2, <2>3
<1>8. last \in Nat /\ first \in Nat \ {0} /\ last + 1 <= MaxIndex /\ last >= first - 1 /\ MaxIndex \in Nat
  <2>1. last \in Nat /\ first \in Nat \ {0} /\ last >= first - 1 /\ MaxIndex \in Nat
    BY <1>2, SegmentStorageAssumption DEF TypeInv
  <2> QED BY <1>5, <2>1
<1>9. NameOK(g) /\ Needed(g) /\ g.synced <= Len(g.terms) /\ LastOf(g) <= MaxIndex /\ g.first = f.first
      /\ g.tail # "corrupt"
  <2>1. Len(g.terms) = Len(f.terms) + 1 /\ Len(f.terms) \in Nat
    BY <1>4, <1>6, <1>7
  <2>2. g.synced <= Len(g.terms)
    BY <1>4, <1>7, <2>1
  <2> QED BY <1>4, <1>7, <1>8, <2>2 DEF NameOK, Needed
<1>10. /\ files' \in SUBSET FileType /\ IsFiniteSet(files') /\ NamesOK' /\ FilesOK' /\ ApartOK'
       /\ \A h \in files' : h.synced <= Len(h.terms) /\ h.first <= MaxIndex + 1 /\ LastOf(h) <= MaxIndex
       /\ g \in files' /\ \A h \in files' : h = g \/ (h \in files /\ h.first # g.first)
       /\ \A x : x.first # g.first /\ HasFile(x) => HasFile(x)'
       /\ \A x : x.first = g.first /\ x.terms = g.terms => HasFile(x)'
       /\ \A h \in files' : h.tail # "corrupt"
  BY <1>1, <1>2, <1>4, <1>7, <1>9, PutKeeps
<1>11. /\ op' \in OpType(Seq(Terms)) /\ op'.of = "append" /\ op'.pc \in {"open", "sync"}
       /\ op'.left = Tail(op.left) /\ (op'.pc = "open" => op'.left # <<>>)
  BY <1>1, <1>2, <1>5 DEF OpType
<1>12. /\ open' \in Seq(SegmentType) /\ Len(open') = 1 /\ ToSet(open') = {s1} /\ open' # <<>>
       /\ segments' = ToSet(closed) \union {s1}
  <2>1. /\ open' \in Seq(SegmentType) /\ Len(open') = 1 /\ ToSet(open') = {s1} /\ open' # <<>>
    BY <1>1, <1>7, Singleton
  <2>2. closed' \in Seq(SegmentType)
    BY <1>1, <1>3
  <2>3. segments' = ToSet(closed') \union ToSet(open')
    BY <2>1, <2>2, MemoryNext
  <2> QED BY <1>1, <2>1, <2>3
<1>13. TypeInv'
  <2>1. \A x \in segments' : x.first <= MaxIndex + 1
    BY <1>2, <1>3, <1>7, <1>12 DEF TypeInv
  <2>2. last' \in 0..MaxIndex /\ last' >= first' - 1
    BY <1>1, <1>8
  <2> QED BY <1>1, <1>2, <1>10, <1>11, <1>12, <2>1, <2>2 DEF TypeInv
<1>14. ExtentOK'
  <2>1. Tiled(segments', first)
    <3> DEFINE S == segments
               T == segments'
    <3>1. \A x \in T : \E y \in S : /\ y.first = x.first
                                    /\ y.terms = x.terms \/ \A z \in S : ~(y.first < z.first)
      BY <1>3, <1>7, <1>12
    <3>2. \A y \in S : \E x \in T : /\ y.first = x.first
                                    /\ y.terms = x.terms \/ \A z \in S : ~(y.first < z.first)
      BY <1>3, <1>7, <1>12
    <3>3. Tiled(S, first)
      BY <1>2 DEF ExtentOK
    <3> HIDE DEF S, T
    <3>4. Tiled(T, first)
      BY <3>1, <3>2, <3>3, TiledLike
    <3> QED BY <3>4 DEF T
  <2>2. \A x \in ToSet(closed'), y \in ToSet(open') : x.first < y.first
    BY <1>1, <1>3, <1>7, <1>12
  <2>3. \A x \in segments' : Top(x, segments') => x = s1
    <3> SUFFICES ASSUME NEW x \in segments', Top(x, segments') PROVE x = s1
      OBVIOUS
    <3>1. s1.first <= x.first
      BY <1>12 DEF Top
    <3>2. x \in ToSet(closed) => x.first < s.first /\ x.first \in Nat /\ s.first \in Nat
      BY <1>3, <1>6 DEF SegmentType
    <3> QED BY <1>7, <1>12, <3>1, <3>2
  <2>4. segments' # {} /\ last' = LastOf(s1) /\ last' <= LastOf(s1) /\ LastOf(s1) >= first
    BY <1>1, <1>7, <1>8, <1>12
  <2>5. \A x \in segments' : LastOf(x) >= first' \/ x.terms = <<>>
    BY <1>1, <1>2, <1>3, <1>12, <2>4 DEF ExtentOK
  <2> QED BY <1>1, <1>2, <2>1, <2>2, <2>3, <2>4, <2>5 DEF ExtentOK
<1>15. HeldOK'
  <2>1. \A x \in segments' : HasFile(x)'
    BY <1>2, <1>3, <1>7, <1>10, <1>12 DEF HeldOK
  <2> QED BY <1>10, <2>1 DEF HeldOK, HasFile
<1>16. OpOK'
  <2>1. op'.pc # "sync" => last' + Len(op'.left) <= MaxIndex
    BY <1>1, <1>5, <1>8, <1>11
  <2> QED BY <1>1, <1>2, <1>11, <1>12, <2>1 DEF OpOK, AppendOK
<1>17. OwnedOK'
  <2>1. Leaving' = {} /\ Live' = {s1}
    BY <1>11, <1>12 DEF Leaving, Live
  <2>2. \A h \in files' : Needed(h)' => \E x \in segments' : x.first = h.first
    <3> SUFFICES ASSUME NEW h \in files', Needed(h)' PROVE \E x \in segments' : x.first = h.first
      OBVIOUS
    <3>1. h # g => \E x \in segments : x.first = h.first
      BY <1>1, <1>2, <1>10 DEF OwnedOK, Needed
    <3> QED BY <1>3, <1>7, <1>12, <3>1
  <2>3. \A h \in files' : s1.first = h.first => h.last = 0
    BY <1>7, <1>10
  <2>4. \A h \in files', x \in segments' \ {s1} : x.first = h.first => h.last # 0
    <3> SUFFICES ASSUME NEW h \in files', NEW x \in segments' \ {s1}, x.first = h.first
                 PROVE  h.last # 0
      OBVIOUS
    <3>1. x \in ToSet(closed) /\ x \in segments \ Live
      BY <1>3, <1>12
    <3>2. h \in files
      BY <1>3, <1>7, <1>10, <3>1
    <3> QED BY <1>2, <3>1, <3>2 DEF OwnedOK
  <2> QED BY <2>1, <2>2, <2>3, <2>4 DEF OwnedOK
<1>18. NameInv'
  <2>1. \A h \in files' : \E k \in files : k.first = h.first /\ k.last = h.last
    BY <1>4, <1>7, <1>10
  <2>2. \A x \in (segments \union Leaving)' : \E y \in segments \union Leaving : y.first = x.first
    <3>1. Leaving' = {}
      BY <1>11 DEF Leaving
    <3> QED BY <1>3, <1>7, <1>12, <3>1
  <2>3. NameInv
    BY DEF IInv
  <2> QED BY <1>1, <1>2, <2>1, <2>2, <2>3, NamesLike
<1> QED BY <1>1, <1>2, <1>10, <1>13, <1>14, <1>15, <1>16, <1>17, <1>18
        DEF IInv, MemoryInv, StepInv, FineInv, DiskInv

\* The file of the live segment is synced, or torn.
LEMMA TouchKeeps ==
    ASSUME TypeInv, NamesOK, FilesOK, HeldOK, OwnedOK, OpenOK, ApartOK, NEW s \in segments, s \in Live,
           NEW f, f = File(s), NEW g \in FileType, g.first = f.first, g.terms = f.terms,
           g.last = 0, g.synced <= Len(g.terms), g.tail # "corrupt",
           files' \in {files, Put(f, g)}, meta' = meta
    PROVE  /\ files' \in SUBSET FileType /\ IsFiniteSet(files') /\ NamesOK' /\ FilesOK'
           /\ \A h \in files' : h.synced <= Len(h.terms) /\ h.first <= MaxIndex + 1
                                /\ LastOf(h) <= MaxIndex
           /\ \A x : HasFile(x) => HasFile(x)'
           /\ \A h \in files' : \E h0 \in files : h0.first = h.first /\ h0.last = h.last
           /\ \A h \in files' : h.tail # "corrupt"
<1>1. CASE files' = files
  <2>1. NamesOK' /\ FilesOK'
    BY <1>1, DiskSame
  <2>2. \A x : HasFile(x) => HasFile(x)'
    BY <1>1 DEF HasFile
  <2> QED BY <1>1, <2>1, <2>2 DEF TypeInv, HeldOK
<1>2. CASE files' = Put(f, g)
  <2>1. /\ f \in NeededFiles /\ f \in files /\ f.first = s.first /\ f.terms = s.terms
        /\ f.last = 0 /\ \A h \in NeededFiles : h.first <= f.first
        /\ LastOf(f) = LastOf(s) /\ LastOf(f) <= MaxIndex
    BY LiveFile
  <2>2. NameOK(g) /\ Needed(g) /\ LastOf(g) <= MaxIndex
    BY <2>1 DEF NameOK, Needed, LastOf
  <2>3. /\ files' \in SUBSET FileType /\ IsFiniteSet(files') /\ NamesOK' /\ FilesOK'
        /\ \A h \in files' : h.synced <= Len(h.terms) /\ h.first <= MaxIndex + 1 /\ LastOf(h) <= MaxIndex
        /\ g \in files' /\ \A h \in files' : h = g \/ (h \in files /\ h.first # g.first)
        /\ \A x : x.first # g.first /\ HasFile(x) => HasFile(x)'
        /\ \A x : x.first = g.first /\ x.terms = g.terms => HasFile(x)'
        /\ \A h \in files' : h.tail # "corrupt"
    BY <1>2, <2>1, <2>2, PutKeeps
  <2>4. ASSUME NEW x, HasFile(x) PROVE HasFile(x)'
    <3>1. CASE x.first = g.first
      <4>1. PICK h \in files : h.first = x.first /\ h.terms = x.terms
        BY <2>4 DEF HasFile
      <4>2. h = f
        BY <2>1, <3>1, <4>1 DEF NamesOK
      <4> QED BY <2>3, <3>1, <4>1, <4>2
    <3>2. CASE x.first # g.first
      BY <2>3, <2>4, <3>2
    <3> QED BY <3>1, <3>2
  <2>5. \A h \in files' : \E h0 \in files : h0.first = h.first /\ h0.last = h.last
    BY <2>1, <2>3
  <2> QED BY <2>3, <2>4, <2>5
<1> QED BY <1>1, <1>2

LEMMA IdleIs ==
    Idle \in OpType(Seq(SegmentType)) /\ Idle.of = "none" /\ Idle.pc = "idle" /\ Idle.left = <<>>
    /\ ToSet(Idle.left) = {} /\ Len(Idle.left) = 0
<1>1. <<>> \in Seq(SegmentType) /\ Len(<<>>) = 0
  OBVIOUS
<1> QED BY <1>1, EmptyToSet DEF Idle, OpType

LEMMA StepOfSync == IInv /\ sync => IInv'
<1> SUFFICES ASSUME IInv, sync PROVE IInv'
  OBVIOUS
<1>0. PICK s, f : s = open[1] /\ f = File(s)
  OBVIOUS
<1>1. /\ up /\ op.pc = "sync" /\ files' \in {files, Put(f, Flushed(f))} /\ op' = Idle
      /\ UNCHANGED <<up, meta, first, last, closed, open, is_open, broken, refused, bad>>
      /\ faults' \in {faults, faults + 1}
  BY <1>0 DEF sync, Returns, Fault, memory
<1>2. /\ NamesOK /\ FilesOK /\ ExtentOK /\ HeldOK /\ OwnedOK /\ OpenOK /\ ApartOK /\ meta = first
      /\ op.of = "append" /\ AppendOK /\ ~broken /\ Leaving = {} /\ op \in OpType(Seq(Terms))
      /\ TypeInv /\ Live = ToSet(open)
  BY <1>1, InAppend DEF IInv
<1>3. s \in segments /\ s \in Live
  <2>1. open # <<>>
    BY <1>1, <1>2 DEF AppendOK
  <2>2. open \in Seq(SegmentType) /\ Len(open) <= 1 /\ segments = ToSet(closed) \union ToSet(open)
    BY <1>2, Memory
  <2>3. ToSet(open) = {s}
    BY <1>0, <2>1, <2>2, AtMostOne
  <2> QED BY <1>2, <2>2, <2>3
<1>4. /\ f \in FileType /\ f.last = 0 /\ f.tail # "corrupt" /\ Len(f.terms) \in Nat
  <2>1. f \in FileType /\ f.last = 0 /\ f.tail # "corrupt"
    BY <1>0, <1>2, <1>3, LiveFile
  <2> QED BY <2>1, LenProperties DEF FileType
<1>5. PICK g : g = Flushed(f)
  OBVIOUS
<1>6. /\ g \in FileType /\ g.first = f.first /\ g.terms = f.terms /\ g.last = 0
      /\ g.synced <= Len(g.terms) /\ g.tail # "corrupt"
  <2>1. g = [f EXCEPT !.synced = Len(f.terms)]
    BY <1>5 DEF Flushed
  <2>2. g \in FileType /\ g.first = f.first /\ g.terms = f.terms /\ g.last = 0
        /\ g.synced = Len(f.terms) /\ g.tail # "corrupt"
    BY <1>4, <2>1 DEF FileType
  <2> QED BY <1>4, <2>2
<1>7. /\ files' \in SUBSET FileType /\ IsFiniteSet(files') /\ NamesOK' /\ FilesOK'
      /\ \A h \in files' : h.synced <= Len(h.terms) /\ h.first <= MaxIndex + 1
                           /\ LastOf(h) <= MaxIndex
      /\ \A x : HasFile(x) => HasFile(x)'
      /\ \A h \in files' : \E h0 \in files : h0.first = h.first /\ h0.last = h.last
      /\ \A h \in files' : h.tail # "corrupt"
  BY <1>0, <1>1, <1>2, <1>3, <1>5, <1>6, TouchKeeps
<1>8. ExtentOK' /\ segments' = segments
  BY <1>1, <1>2, ExtentSame
<1>9. op'.of = "none" /\ op' \in OpType(Seq(SegmentType)) /\ op'.pc = "idle" /\ op'.left = <<>>
      /\ ToSet(op'.left) = {} /\ Len(op'.left) = 0
  BY <1>1, IdleIs
<1>10. TypeInv'
  BY <1>1, <1>2, <1>7, <1>8, <1>9 DEF TypeInv
<1>11. HeldOK'
  BY <1>2, <1>7, <1>8 DEF HeldOK, HasFile
<1>12. OpOK'
  BY <1>1, <1>2, <1>9 DEF OpOK
<1>13. OwnedOK'
  <2>1. Leaving' = {} /\ Live' = Live
    BY <1>1, <1>2, <1>9 DEF Leaving, Live
  <2>2. \A h \in files' : Needed(h)' => \E h0 \in files : h0.first = h.first /\ Needed(h0)
    BY <1>1, <1>7 DEF Needed
  <2> QED BY <1>2, <1>7, <1>8, <2>1, <2>2 DEF OwnedOK
<1>14. NameInv'
  <2>1. Leaving' = {}
    BY <1>9 DEF Leaving
  <2> QED BY <1>1, <1>2, <1>7, <1>8, <2>1, NamesLike DEF IInv
<1> QED BY <1>1, <1>2, <1>7, <1>8, <1>10, <1>11, <1>12, <1>13, <1>14
        DEF IInv, MemoryInv, StepInv, FineInv, DiskInv

\* An operation that has failed.
LEMMA FailedIs ==
    ASSUME Fails
    PROVE  /\ op' = Idle /\ broken' /\ broken' = TRUE /\ faults' = faults + 1
           /\ op'.of = "none" /\ op' \in OpType(Seq(SegmentType))
<1>1. op' = Idle /\ broken' = TRUE /\ faults' = faults + 1
  BY DEF Fails, Stops, Fault
<1> QED BY <1>1, IdleIs

LEMMA StepOfAppendFails == IInv /\ append_fails => IInv'
<1> SUFFICES ASSUME IInv, append_fails PROVE IInv'
  OBVIOUS
<1>1. /\ up /\ Fails /\ op.pc \in {"open", "create", "close"}
      /\ UNCHANGED <<up, meta, first, last, refused, bad>>
  BY DEF append_fails
<1>2. /\ NamesOK /\ FilesOK /\ ExtentOK /\ HeldOK /\ OwnedOK /\ OpenOK /\ ApartOK /\ meta = first
      /\ op.of = "append" /\ AppendOK /\ ~broken /\ Leaving = {} /\ op \in OpType(Seq(Terms))
      /\ TypeInv
  BY <1>1, InAppend DEF IInv
<1>3. /\ op' = Idle /\ broken' = TRUE /\ faults' = faults + 1
      /\ op'.of = "none" /\ op' \in OpType(Seq(SegmentType))
  BY <1>1, FailedIs
<1>4. /\ closed \in Seq(SegmentType) /\ open \in Seq(SegmentType) /\ Len(open) <= 1
      /\ segments = ToSet(closed) \union ToSet(open) /\ segments \in SUBSET SegmentType
  BY <1>2, Memory
<1>5. ASSUME op.pc \in {"close", "create"}, closed' = Front(closed), open' = <<Last(closed)>>, files' = files
      PROVE  IInv'
  <2>1. open = <<>> /\ closed # <<>>
    BY <1>2, <1>5 DEF AppendOK
  <2>2. /\ Front(closed) \in Seq(SegmentType) /\ Len(Front(closed)) = Len(closed) - 1
        /\ \A i \in 1..Len(closed) - 1 : Front(closed)[i] = closed[i]
        /\ ToSet(closed) = ToSet(Front(closed)) \union {Last(closed)}
    BY <1>4, <2>1, FrontIs
  <2>3. Last(closed) \in SegmentType /\ Last(closed) = closed[Len(closed)] /\ Len(closed) \in 1..Len(closed)
    BY <1>4, <2>1, ElementsOf
  <2>4. open' \in Seq(SegmentType) /\ Len(open') = 1 /\ ToSet(open') = {Last(closed)}
    BY <1>5, <2>3, Singleton
  <2>5. segments' = segments
    <3>1. segments' = ToSet(closed') \union ToSet(open')
      BY <1>5, <2>2, <2>4, MemoryNext
    <3>2. ToSet(open) = {}
      BY <2>1, EmptyToSet
    <3> QED BY <1>4, <1>5, <2>2, <2>4, <3>1, <3>2
  <2>6. TypeInv'
    BY <1>1, <1>2, <1>3, <1>5, <2>2, <2>4, <2>5 DEF TypeInv
  <2>7. NamesOK' /\ FilesOK'
    BY <1>1, <1>2, <1>5, DiskSame
  <2>8. Sorted(closed')
    <3>1. Sorted(closed)
      BY <1>2 DEF ExtentOK
    <3> DEFINE c == Front(closed)
    <3> HIDE DEF c
    <3>2. closed' = c /\ Len(c) = Len(closed) - 1 /\ \A i \in 1..Len(closed) - 1 : c[i] = closed[i]
      BY <1>5, <2>2 DEF c
    <3>3. Len(closed) \in Nat /\ 1..Len(closed) - 1 \subseteq 1..Len(closed)
      BY <2>3
    <3> QED BY <3>1, <3>2, <3>3 DEF Sorted
  <2>9. \A x \in ToSet(closed'), y \in ToSet(open') : x.first < y.first
    <3> DEFINE c == Front(closed)
    <3> HIDE DEF c
    <3> SUFFICES ASSUME NEW x \in ToSet(c) PROVE x.first < Last(closed).first
      BY <1>5, <2>4 DEF c
    <3>1. c \in Seq(SegmentType) /\ Len(c) = Len(closed) - 1 /\ \A i \in 1..Len(closed) - 1 : c[i] = closed[i]
      BY <2>2 DEF c
    <3>2. PICK i \in 1..Len(c) : x = c[i]
      BY <3>1, ElementsOf
    <3>3. i \in 1..Len(closed) /\ i < Len(closed) /\ x = closed[i]
      BY <2>3, <3>1, <3>2
    <3> QED BY <1>2, <2>3, <3>3 DEF ExtentOK, Sorted
  <2>10. ExtentOK'
    <3>1. \A x \in ToSet(closed') : x.terms # <<>>
      BY <1>2, <1>5, <2>2 DEF ExtentOK
    <3> QED BY <1>1, <1>2, <1>3, <2>5, <2>8, <2>9, <3>1 DEF ExtentOK
  <2>11. HeldOK'
    BY <1>2, <1>5, <2>5 DEF HeldOK, HasFile
  <2>12. NameInv'
    BY <1>2, <1>3, <1>5 DEF NameInv, ApartOK
  <2> QED BY <1>1, <1>3, <2>6, <2>7, <2>10, <2>11, <2>12 DEF IInv, MemoryInv, StepInv, FineInv, DiskInv
<1>6. ASSUME open' = open, closed' = closed,
             /\ files' \in SUBSET FileType /\ IsFiniteSet(files') /\ NamesOK' /\ FilesOK'
             /\ \A h \in files' : h.synced <= Len(h.terms) /\ h.first <= MaxIndex + 1
                                  /\ LastOf(h) <= MaxIndex
             /\ \A x : HasFile(x) => HasFile(x)'
             /\ \A h \in files' : h.tail # "corrupt"
             /\ \A h \in files' : \E h0 \in files : h0.first = h.first /\ h0.last = h.last
      PROVE  IInv'
  <2>1. ExtentOK' /\ segments' = segments
    BY <1>1, <1>2, <1>3, <1>6, ExtentSame
  <2>2. TypeInv'
    BY <1>1, <1>2, <1>3, <1>6, <2>1 DEF TypeInv
  <2>3. HeldOK'
    BY <1>2, <1>6, <2>1 DEF HeldOK, HasFile
  <2>4. NameInv'
    BY <1>2, <1>3, <1>6 DEF NameInv, ApartOK
  <2> QED BY <1>1, <1>3, <1>6, <2>1, <2>2, <2>3, <2>4 DEF IInv, MemoryInv, StepInv, FineInv, DiskInv
<1>7. ASSUME files' = files
      PROVE  /\ files' \in SUBSET FileType /\ IsFiniteSet(files') /\ NamesOK' /\ FilesOK'
             /\ \A h \in files' : h.synced <= Len(h.terms) /\ h.first <= MaxIndex + 1
                                  /\ LastOf(h) <= MaxIndex
             /\ \A x : HasFile(x) => HasFile(x)'
             /\ \A h \in files' : h.tail # "corrupt"
             /\ \A h \in files' : \E h0 \in files : h0.first = h.first /\ h0.last = h.last
  <2>1. NamesOK' /\ FilesOK'
    BY <1>1, <1>2, <1>7, DiskSame
  <2>2. \A x : HasFile(x) => HasFile(x)'
    BY <1>7 DEF HasFile
  <2> QED BY <1>2, <1>7, <2>1, <2>2 DEF TypeInv, HeldOK
<1>8. ASSUME op.pc = "open", open # <<>>, UNCHANGED <<closed, open>>,
             files' \in {files, Put(File(open[1]), [File(open[1]) EXCEPT !.tail = "torn"])}
      PROVE  IInv'
  <2>1. PICK s, f, g : s = open[1] /\ f = File(s) /\ g = [f EXCEPT !.tail = "torn"]
    OBVIOUS
  <2>2. s \in segments /\ s \in Live
    <3>1. ToSet(open) = {s}
      BY <1>4, <1>8, <2>1, AtMostOne
    <3>2. Live = ToSet(open)
      BY <1>1, <1>8, InAppend
    <3> QED BY <1>4, <3>1, <3>2
  <2>3. f \in FileType /\ f.last = 0 /\ f.synced <= Len(f.terms)
    BY <1>2, <2>1, <2>2, LiveFile
  <2>4. /\ g \in FileType /\ g.first = f.first /\ g.terms = f.terms /\ g.last = 0
        /\ g.synced <= Len(g.terms) /\ g.tail # "corrupt"
    BY <2>1, <2>3 DEF FileType
  <2>5. files' \in {files, Put(f, g)}
    BY <1>8, <2>1
  <2>6. /\ files' \in SUBSET FileType /\ IsFiniteSet(files') /\ NamesOK' /\ FilesOK'
        /\ \A h \in files' : h.synced <= Len(h.terms) /\ h.first <= MaxIndex + 1
                             /\ LastOf(h) <= MaxIndex
        /\ \A x : HasFile(x) => HasFile(x)'
        /\ \A h \in files' : h.tail # "corrupt"
        /\ \A h \in files' : \E h0 \in files : h0.first = h.first /\ h0.last = h.last
    BY <1>1, <1>2, <2>1, <2>2, <2>4, <2>5, TouchKeeps, ZenonT(60)
  <2> QED BY <1>6, <1>8, <2>6
<1> QED BY <1>5, <1>6, <1>7, <1>8 DEF append_fails

-----------------------------------------------------------------------------
(* truncate_prefix.                                                        *)

LEMMA SortedPart ==
    ASSUME NEW q \in Seq(SegmentType), Sorted(q), NEW a \in 1..Len(q) + 1, NEW b \in 0..Len(q), a <= b + 1
    PROVE  Sorted(SubSeq(q, a, b))
<1> DEFINE w == SubSeq(q, a, b)
<1>1. Len(w) = b - a + 1 /\ \A i \in 1..b - a + 1 : w[i] = q[a + i - 1]
  BY PartOf
<1> HIDE DEF w
<1>2. Len(q) \in Nat
  BY LenProperties
<1>3. ASSUME NEW i \in 1..Len(w), NEW j \in 1..Len(w), i < j PROVE w[i].first < w[j].first
  <2>1. a + i - 1 \in 1..Len(q) /\ a + j - 1 \in 1..Len(q) /\ a + i - 1 < a + j - 1
    BY <1>1, <1>2, <1>3
  <2>2. q[a + i - 1].first < q[a + j - 1].first
    BY <2>1 DEF Sorted
  <2> QED BY <1>1, <2>2
<1> QED BY <1>3 DEF Sorted, w

LEMMA SortedPlaces ==
    ASSUME NEW q \in Seq(SegmentType), Sorted(q)
    PROVE  \A i, j \in 1..Len(q) : i # j => q[i].first # q[j].first
<1> SUFFICES ASSUME NEW i \in 1..Len(q), NEW j \in 1..Len(q), i # j PROVE q[i].first # q[j].first
  OBVIOUS
<1>1. q[i] \in SegmentType /\ q[j] \in SegmentType /\ (i < j \/ j < i)
  BY ElementOfSeq
<1>2. q[i].first \in Nat /\ q[j].first \in Nat
  BY <1>1 DEF SegmentType
<1> QED BY <1>1, <1>2 DEF Sorted

LEMMA StepOfTruncatePrefix == IInv /\ BehindOK /\ truncate_prefix => IInv'
<1> SUFFICES ASSUME IInv, BehindOK, truncate_prefix PROVE IInv'
  OBVIOUS
<1>1. PICK k \in (first + 1)..(last + 2) : /\ k <= MaxIndex
          /\ op' = [Idle EXCEPT !.of = "prefix", !.pc = "meta", !.left = <<>>, !.k = k]
  BY DEF truncate_prefix, Begin
<1>2. /\ up /\ op = Idle /\ ~broken
      /\ UNCHANGED <<up, files, meta, first, last, closed, open, is_open, broken, refused, faults, bad>>
  BY DEF truncate_prefix, memory, Executes, BehindOK
<1>3. /\ NamesOK /\ FilesOK /\ ExtentOK /\ HeldOK /\ OwnedOK /\ OpenOK /\ ApartOK /\ meta = first
      /\ op.of = "none" /\ op.pc = "idle" /\ Leaving = {} /\ Live = ToSet(open) /\ TypeInv
  BY <1>2, BeforeAnOperation DEF IInv
<1>4. first \in Nat \ {0} /\ last \in Nat /\ k \in 1..MaxIndex /\ first < k /\ k \in Nat
  <2>1. first \in Nat \ {0} /\ last \in Nat /\ MaxIndex \in Nat
    BY <1>3, SegmentStorageAssumption DEF TypeInv
  <2> QED BY <1>1, <2>1
<1>5. /\ op'.of = "prefix" /\ op'.pc = "meta" /\ op'.left = <<>> /\ op'.k = k /\ ~op'.cut
      /\ op' \in OpType(Seq(SegmentType)) /\ ToSet(op'.left) = {} /\ Len(op'.left) = 0
  <2>1. <<>> \in Seq(SegmentType) /\ Len(<<>>) = 0
    OBVIOUS
  <2> QED BY <1>1, <1>4, <2>1, EmptyToSet DEF Idle, OpType
<1>6. ExtentOK' /\ HeldOK' /\ segments' = segments
  BY <1>2, <1>3, ExtentSame, HeldSame
<1>7. TypeInv'
  BY <1>2, <1>3, <1>5, <1>6 DEF TypeInv
<1>8. NamesOK' /\ FilesOK'
  BY <1>2, <1>3, DiskSame
<1>9. OpOK'
  BY <1>2, <1>3, <1>4, <1>5 DEF OpOK, PrefixOK
<1>10. OwnedOK'
  <2>1. Leaving' = {} /\ Live' = Live
    BY <1>2, <1>3, <1>5 DEF Leaving, Live
  <2> QED BY <1>2, <1>3, <1>6, <2>1, OwnedSame
<1>11. NameInv'
  <2>1. Leaving' = {}
    BY <1>5 DEF Leaving
  <2> QED BY <1>2, <1>6, <2>1, NamesSame DEF IInv
<1> QED BY <1>2, <1>6, <1>7, <1>8, <1>9, <1>10, <1>11 DEF IInv, MemoryInv, StepInv, FineInv, DiskInv

LEMMA StepOfSaveMeta == IInv /\ save_meta => IInv'
<1> SUFFICES ASSUME IInv, save_meta PROVE IInv'
  OBVIOUS
<1>1. /\ up /\ op.pc = "meta"
      /\ UNCHANGED <<up, files, first, last, closed, open, is_open, refused, bad>>
  BY DEF save_meta, memory
<1>2. /\ ~broken /\ OpOK /\ OwnedOK /\ OpenOK /\ ApartOK /\ op.of \in {"prefix", "reset"} /\ TypeInv
      /\ NamesOK /\ FilesOK /\ ExtentOK /\ HeldOK /\ op \in OpType(Seq(SegmentType))
  <2>1. ~broken /\ OpOK /\ OwnedOK /\ OpenOK /\ ApartOK /\ op.of \in {"prefix", "reset"}
    BY <1>1, AtStep DEF IInv
  <2> QED BY <1>1, <2>1 DEF IInv, DiskInv, MemoryInv, TypeInv, Resetting
<1>3. ASSUME Fails, meta' = meta PROVE IInv'
  <2>1. /\ op' = Idle /\ broken' = TRUE /\ faults' = faults + 1
        /\ op'.of = "none" /\ op' \in OpType(Seq(SegmentType))
    BY <1>3, FailedIs
  <2>2. ExtentOK' /\ HeldOK' /\ segments' = segments
    BY <1>1, <1>2, <2>1, ExtentSame, HeldSame
  <2>3. NamesOK' /\ FilesOK'
    BY <1>1, <1>2, <1>3, DiskSame
  <2>4. TypeInv'
    BY <1>1, <1>2, <1>3, <2>1, <2>2 DEF TypeInv
  <2>5. NameInv'
    BY <1>1, <1>2, <2>1 DEF NameInv, ApartOK
  <2> QED BY <1>1, <2>1, <2>2, <2>3, <2>4, <2>5 DEF IInv, MemoryInv, StepInv, FineInv, DiskInv
<1>4. ASSUME meta' = op.k, op' = [op EXCEPT !.pc = IF op.of = "prefix" THEN "pop" ELSE "unlink"],
             UNCHANGED <<broken, faults>>
      PROVE  IInv'
  <2>1. /\ op' \in OpType(Seq(SegmentType)) /\ op'.of = op.of /\ op'.left = op.left /\ op'.k = op.k
        /\ op'.cut = op.cut /\ op'.renamed = op.renamed /\ op'.pc = IF op.of = "prefix" THEN "pop" ELSE "unlink"
    BY <1>2, <1>4 DEF OpType
  <2>2. ExtentOK' /\ HeldOK' /\ segments' = segments
    BY <1>1, <1>2, <1>4, <2>1, ExtentSame, HeldSame
  <2>3. op.k \in 1..MaxIndex /\ ~op.cut
    BY <1>2 DEF OpOK, PrefixOK, ResetOpOK, TypeInv
  <2>4. TypeInv'
    BY <1>1, <1>2, <1>4, <2>1, <2>2, <2>3 DEF TypeInv
  <2>5. NamesOK'
    BY <1>1, <1>2 DEF NamesOK, NameOK
  <2>6. op.of = "prefix" => FilesOK'
    <3> SUFFICES ASSUME op.of = "prefix" PROVE FilesOK'
      OBVIOUS
    <3>1. meta = first /\ first < op.k
      BY <1>1, <1>2 DEF OpOK, PrefixOK
    <3>2. meta \in Nat /\ op.k \in Nat /\ meta <= op.k
      BY <1>2, <2>3, <3>1, SegmentStorageAssumption DEF TypeInv
    <3>3. NeededFiles' \in SUBSET NeededFiles
      <4> SUFFICES ASSUME NEW f \in NeededFiles' PROVE f \in NeededFiles
        OBVIOUS
      <4>1. f \in files /\ (f.last = 0 \/ f.last >= op.k)
        BY <1>1, <1>4 DEF NeededFiles, Needed
      <4>2. f.last \in Nat
        BY <1>2, <4>1 DEF TypeInv, FileType
      <4> QED BY <3>2, <4>1, <4>2 DEF NeededFiles, Needed
    <3>4. \A f \in NeededFiles : LastOf(f) >= op.k /\ f.terms # <<>> => f \in NeededFiles'
      <4> SUFFICES ASSUME NEW f \in NeededFiles, LastOf(f) >= op.k PROVE f \in NeededFiles'
        OBVIOUS
      <4>1. f \in files /\ NameOK(f)
        BY <1>2 DEF NeededFiles, NamesOK
      <4>2. f.last = 0 \/ f.last >= op.k
        BY <4>1 DEF NameOK
      <4> QED BY <1>1, <1>4, <4>1, <4>2 DEF NeededFiles, Needed
    <3>5. Tiled(NeededFiles', op.k)
      <4>1. Tiled(NeededFiles, meta) /\ Pieces(NeededFiles)
        BY <1>2, Memory DEF FilesOK
      <4> DEFINE N == NeededFiles
                 M == NeededFiles'
      <4> HIDE DEF N, M
      <4>2. /\ Tiled(N, meta) /\ Pieces(N) /\ M \in SUBSET N
            /\ \A f \in N : LastOf(f) >= op.k /\ f.terms # <<>> => f \in M
        BY <3>3, <3>4, <4>1 DEF N, M
      <4>3. Tiled(M, op.k)
        BY <3>2, <4>2, TiledFrom
      <4> QED BY <4>3 DEF M
    <3> QED BY <1>2, <1>4, <3>3, <3>5 DEF FilesOK
  <2>7. DiskInv'
    BY <1>2, <2>1, <2>5, <2>6 DEF DiskInv, Resetting
  <2>8. OpOK'
    BY <1>1, <1>2, <1>4, <2>1, <2>2, <2>3 DEF OpOK, PrefixOK, ResetOpOK
  <2>9. OwnedOK'
    <3>1. Leaving' = Leaving /\ Live' = Live
      BY <1>1, <1>2, <2>1 DEF Leaving, Live
    <3>2. \A x : HasFile(x) => HasFile(x)'
      BY <1>1 DEF HasFile
    <3>3. \A f \in files : Needed(f)' => Needed(f)
      <4> SUFFICES ASSUME NEW f \in files, Needed(f)' PROVE Needed(f)
        OBVIOUS
      <4>1. meta <= op.k /\ meta \in Nat /\ op.k \in Nat
        BY <1>1, <1>2, <2>3 DEF OpOK, PrefixOK, ResetOpOK, TypeInv
      <4>2. f.last \in Nat /\ (f.last = 0 \/ f.last >= op.k)
        BY <1>1, <1>2, <1>4 DEF TypeInv, FileType, Needed
      <4> QED BY <4>1, <4>2 DEF Needed
    <3> QED BY <1>1, <1>2, <2>2, <3>1, <3>2, <3>3 DEF OwnedOK, HasFile
  <2>10. NameInv'
    <3>1. Leaving' = Leaving
      BY <2>1 DEF Leaving
    <3> QED BY <1>1, <1>2, <1>4, <2>2, <3>1, NamesSame DEF IInv
  <2> QED BY <1>1, <1>2, <1>4, <2>2, <2>4, <2>7, <2>8, <2>9, <2>10 DEF IInv, MemoryInv, StepInv, FineInv
<1> QED BY <1>3, <1>4 DEF save_meta, Goto, Succeeds

\* The segments that pop_segments removes, and those it keeps.
LEMMA Popping ==
    ASSUME TypeInv, ExtentOK, NEW k \in Nat, k >= first
    PROVE  LET n == EndBelow(closed, k)
               popped == SubSeq(closed, 1, n)
               kept == SubSeq(closed, n + 1, Len(closed))
               popOpen == kept = <<>> /\ open # <<>> /\ LastOf(open[1]) < k
               left == popped \o (IF popOpen THEN open ELSE <<>>)
               rest == IF popOpen THEN <<>> ELSE open
           IN  /\ kept \in Seq(SegmentType) /\ left \in Seq(SegmentType) /\ rest \in Seq(SegmentType)
               /\ Len(rest) <= 1 /\ Sorted(kept) /\ Sorted(left)
               /\ ToSet(kept) \union ToSet(rest) = {s \in segments : LastOf(s) >= k}
               /\ ToSet(left) = {s \in segments : LastOf(s) < k}
               /\ ToSet(kept) \subseteq ToSet(closed) /\ ToSet(rest) \subseteq ToSet(open)
               /\ kept = <<>> /\ rest = <<>> <=> kept = <<>> /\ (popOpen \/ open = <<>>)
<1> DEFINE N == Len(closed)
           n == EndBelow(closed, k)
           popped == SubSeq(closed, 1, n)
           kept == SubSeq(closed, n + 1, N)
           popOpen == kept = <<>> /\ open # <<>> /\ LastOf(open[1]) < k
           out == IF popOpen THEN open ELSE <<>>
           rest == IF popOpen THEN <<>> ELSE open
<1>1. /\ closed \in Seq(SegmentType) /\ open \in Seq(SegmentType) /\ Len(open) <= 1
      /\ segments = ToSet(closed) \union ToSet(open) /\ segments \in SUBSET SegmentType
      /\ Sorted(closed) /\ N \in Nat /\ ToSet(closed) = {closed[i] : i \in 1..N}
  BY Memory, ElementsOf DEF ExtentOK
<1>2. Tiled(ToSet(closed), first)
  <2>1. \A s \in segments, t \in ToSet(closed) : s.first < t.first => s \in ToSet(closed)
    <3> SUFFICES ASSUME NEW s \in ToSet(open), NEW t \in ToSet(closed), s.first < t.first PROVE FALSE
      BY <1>1
    <3>1. t.first < s.first /\ s.first \in Nat /\ t.first \in Nat
      BY <1>1 DEF ExtentOK, SegmentType
    <3> QED BY <3>1
  <2>2. Tiled(segments, first) /\ ToSet(closed) \in SUBSET segments
    BY <1>1 DEF ExtentOK
  <2> QED BY <2>1, <2>2, TiledBelow
<1>3. /\ n \in 0..N /\ \A i \in 1..n : LastOf(closed[i]) < k
      /\ \A i \in n + 1..N : LastOf(closed[i]) >= k
  BY <1>1, <1>2, EndBelowIs
<1> HIDE DEF n
<1>4. /\ popped \in Seq(SegmentType) /\ Sorted(popped) /\ ToSet(popped) = {closed[i] : i \in 1..n}
  <2>1. 1 \in 1..Len(closed) + 1 /\ n \in 0..Len(closed) /\ 1 <= n + 1
    BY <1>1, <1>3
  <2>2. popped \in Seq(SegmentType) /\ ToSet(popped) = {closed[i] : i \in 1..n}
    BY <1>1, <2>1, PartOf
  <2>3. Sorted(popped)
    BY <1>1, <2>1, SortedPart
  <2> QED BY <2>2, <2>3
<1>5. /\ kept \in Seq(SegmentType) /\ Sorted(kept) /\ ToSet(kept) = {closed[i] : i \in n + 1..N}
  <2>1. n + 1 \in 1..Len(closed) + 1 /\ N \in 0..Len(closed) /\ n + 1 <= N + 1
    BY <1>1, <1>3
  <2> QED BY <1>1, <2>1, PartOf, SortedPart
<1> HIDE DEF popped, kept
<1>6. /\ \A s \in ToSet(popped) : LastOf(s) < k /\ s \in ToSet(closed)
      /\ \A s \in ToSet(kept) : LastOf(s) >= k /\ s \in ToSet(closed)
      /\ \A s \in ToSet(closed) : s \in ToSet(popped) \/ s \in ToSet(kept)
  <2>1. \A i \in 1..N : i \in 1..n \/ i \in n + 1..N
    BY <1>1, <1>3
  <2>2. \A i \in 1..n : i \in 1..N
    BY <1>1, <1>3
  <2>3. \A i \in n + 1..N : i \in 1..N
    BY <1>1, <1>3
  <2> HIDE DEF N
  <2> QED BY <1>1, <1>3, <1>4, <1>5, <2>1, <2>2, <2>3
<1>7. <<>> \in Seq(SegmentType) /\ Len(<<>>) = 0 /\ ToSet(<<>>) = {}
  <2>1. <<>> \in Seq(SegmentType) /\ Len(<<>>) = 0
    OBVIOUS
  <2> QED BY <2>1, EmptyToSet
<1>8. open # <<>> => ToSet(open) = {open[1]}
  BY <1>1, AtMostOne
<1>9. ASSUME kept # <<>> PROVE \A s \in ToSet(open) : LastOf(s) >= k
  <2> SUFFICES ASSUME NEW s \in ToSet(open) PROVE LastOf(s) >= k
    OBVIOUS
  <2>1. PICK y \in ToSet(kept) : TRUE
    BY <1>5, <1>9, ElementsOf
  <2>2. y \in segments /\ s \in segments /\ y.first < s.first /\ LastOf(y) >= k
    BY <1>1, <1>6, <2>1 DEF ExtentOK
  <2>3. LastOf(y) < s.first
    BY <2>2 DEF ExtentOK, Tiled
  <2>4. LastOf(y) \in Nat /\ LastOf(s) \in Nat /\ LastOf(s) + 1 >= s.first /\ s.first \in Nat
    BY <1>1, <2>2, LastOfIs, SegmentIsPiece
  <2> QED BY <2>2, <2>3, <2>4
<1>10. /\ \A s \in ToSet(out) : LastOf(s) < k /\ s \in ToSet(open)
       /\ \A s \in ToSet(rest) : LastOf(s) >= k /\ s \in ToSet(open)
       /\ ToSet(open) \subseteq ToSet(out) \union ToSet(rest)
  <2>1. CASE popOpen
    BY <1>7, <1>8, <2>1
  <2>2. CASE ~popOpen /\ open = <<>>
    BY <1>7, <2>2
  <2>3. CASE ~popOpen /\ open # <<>>
    <3>1. LastOf(open[1]) >= k
      <4>1. CASE kept = <<>>
        <5>1. open[1] \in SegmentType
          BY <1>1, <2>3, AtMostOne
        <5>2. LastOf(open[1]) \in Nat
          BY <5>1, LastOfIs, SegmentIsPiece
        <5> QED BY <2>3, <4>1, <5>2
      <4>2. CASE kept # <<>>
        BY <1>8, <1>9, <2>3, <4>2
      <4> QED BY <4>1, <4>2
    <3> QED BY <1>7, <1>8, <2>3, <3>1
  <2> QED BY <2>1, <2>2, <2>3
<1>11. out \in Seq(SegmentType) /\ Len(out) <= 1 /\ rest \in Seq(SegmentType) /\ Len(rest) <= 1
  BY <1>1, <1>7
<1>12. kept = <<>> /\ rest = <<>> <=> kept = <<>> /\ (popOpen \/ open = <<>>)
  OBVIOUS
<1> HIDE DEF out, rest, popOpen
<1>13. Sorted(popped \o out)
  <2>1. \A s \in ToSet(popped), t \in ToSet(out) : s.first < t.first
    BY <1>6, <1>10 DEF ExtentOK
  <2> QED BY <1>4, <1>11, <2>1, SortedParts
<1>14. popped \o out \in Seq(SegmentType) /\ ToSet(popped \o out) = ToSet(popped) \union ToSet(out)
  BY <1>4, <1>11, ElementsOfConcat
<1>15. \A s \in segments : LastOf(s) \in Nat
  BY <1>1, LastOfIs, SegmentIsPiece
<1>16. ToSet(kept) \union ToSet(rest) = {s \in segments : LastOf(s) >= k}
  BY <1>1, <1>6, <1>10, <1>15
<1>17. ToSet(popped \o out) = {s \in segments : LastOf(s) < k}
  BY <1>1, <1>6, <1>10, <1>14, <1>15
<1> QED BY <1>5, <1>6, <1>10, <1>11, <1>12, <1>13, <1>14, <1>16, <1>17
        DEF n, popped, kept, popOpen, out, rest

LEMMA StepOfPop == IInv /\ pop_segments => IInv'
<1> SUFFICES ASSUME IInv, pop_segments PROVE IInv'
  OBVIOUS
<1>1. /\ up /\ op.pc = "pop"
      /\ UNCHANGED <<up, files, meta, is_open, broken, refused, faults>>
  BY DEF pop_segments
<1>2. /\ ~broken /\ OpOK /\ OwnedOK /\ OpenOK /\ ApartOK /\ op.of = "prefix" /\ PrefixOK /\ TypeInv
      /\ NamesOK /\ FilesOK /\ ExtentOK /\ HeldOK /\ op \in OpType(Seq(SegmentType))
      /\ ~refused /\ ~bad
  <2>1. ~broken /\ OpOK /\ OwnedOK /\ OpenOK /\ ApartOK /\ op.of = "prefix"
    BY <1>1, AtStep DEF IInv
  <2> QED BY <1>1, <2>1 DEF IInv, DiskInv, MemoryInv, TypeInv, Resetting, FineInv, OpOK
<1>3. PICK k : k = op.k
  OBVIOUS
<1>4. /\ k \in 1..MaxIndex /\ first < k /\ meta = k /\ op.left = <<>> /\ ~op.cut
      /\ first \in Nat \ {0} /\ k \in Nat \ {0} /\ MaxIndex \in Nat /\ last \in Nat
  BY <1>1, <1>2, <1>3, SegmentStorageAssumption DEF PrefixOK, TypeInv
<1> DEFINE n == EndBelow(closed, k)
           popped == SubSeq(closed, 1, n)
           kept == SubSeq(closed, n + 1, Len(closed))
           popOpen == kept = <<>> /\ open # <<>> /\ LastOf(open[1]) < k
           left == popped \o (IF popOpen THEN open ELSE <<>>)
           rest == IF popOpen THEN <<>> ELSE open
<1>5. /\ first' = k /\ closed' = kept /\ open' = rest
      /\ last' = IF kept = <<>> /\ (popOpen \/ open = <<>>) THEN k - 1 ELSE last
      /\ bad' = (bad \/ (kept = <<>> /\ open # <<>> /\ ~popOpen /\ open[1].first > k))
      /\ op' = [op EXCEPT !.pc = "unlink", !.left = left]
  BY <1>3 DEF pop_segments
<1>6. /\ kept \in Seq(SegmentType) /\ left \in Seq(SegmentType) /\ rest \in Seq(SegmentType)
      /\ Len(rest) <= 1 /\ Sorted(kept) /\ Sorted(left)
      /\ ToSet(kept) \union ToSet(rest) = {s \in segments : LastOf(s) >= k}
      /\ ToSet(left) = {s \in segments : LastOf(s) < k}
      /\ ToSet(kept) \subseteq ToSet(closed) /\ ToSet(rest) \subseteq ToSet(open)
      /\ (kept = <<>> /\ rest = <<>> <=> kept = <<>> /\ (popOpen \/ open = <<>>))
      /\ (kept = <<>> /\ open # <<>> /\ ~popOpen => rest = open)
  <2>1. k >= first
    BY <1>4
  <2> QED BY <1>2, <1>4, <2>1, Popping
<1> HIDE DEF n, popped, kept, popOpen, left, rest
<1>7. /\ segments' = {s \in segments : LastOf(s) >= k} /\ segments' \in SUBSET segments
      /\ (segments' = {} <=> kept = <<>> /\ rest = <<>>)
  <2>1. segments' = ToSet(closed') \union ToSet(open')
    BY <1>5, <1>6, MemoryNext
  <2>2. (kept = <<>> <=> ToSet(kept) = {}) /\ (rest = <<>> <=> ToSet(rest) = {})
    BY <1>6, ElementsOf
  <2> QED BY <1>5, <1>6, <2>1, <2>2
<1>8. /\ segments \in SUBSET SegmentType /\ segments = ToSet(closed) \union ToSet(open)
      /\ \A s \in segments : LastOf(s) \in Nat /\ s.first \in Nat \ {0}
  <2>1. segments \in SUBSET SegmentType /\ segments = ToSet(closed) \union ToSet(open)
    BY <1>2, Memory
  <2> QED BY <2>1, LastOfIs, SegmentIsPiece
<1>9. /\ op'.of = "prefix" /\ op'.pc = "unlink" /\ op'.left = left /\ op'.k = k /\ ~op'.cut
      /\ op' \in OpType(Seq(SegmentType))
  BY <1>2, <1>3, <1>4, <1>5, <1>6 DEF OpType
<1>10. Tiled(segments', k)
  <2>1. Tiled(segments, first) /\ Pieces(segments)
    BY <1>2, Memory DEF ExtentOK
  <2> DEFINE S == segments
             T == segments'
  <2> HIDE DEF S, T
  <2>2. Tiled(S, first) /\ Pieces(S) /\ T = {s \in S : LastOf(s) >= k}
    BY <1>7, <2>1 DEF S, T
  <2>3. Tiled(T, k)
    BY <1>4, <2>2, TiledFrom
  <2> QED BY <2>3 DEF T
<1>11. ~bad'
  <2> SUFFICES ASSUME kept = <<>>, open # <<>>, ~popOpen, open[1].first > k PROVE FALSE
    BY <1>2, <1>5
  <2>1. ToSet(rest) = {open[1]}
    <3>1. open \in Seq(SegmentType) /\ Len(open) <= 1
      BY <1>2, Memory
    <3> QED BY <1>6, <3>1, AtMostOne
  <2>2. segments' = {open[1]}
    <3>1. segments' = ToSet(closed') \union ToSet(open')
      BY <1>5, <1>6, MemoryNext
    <3> QED BY <1>5, <2>1, <3>1, EmptyToSet
  <2>3. open[1].first \in Nat /\ ~(open[1].first <= k)
    BY <1>4, <1>7, <1>8, <2>2
  <2>4. \E t \in segments' : t.first < open[1].first
    BY <1>10, <2>2, <2>3 DEF Tiled
  <2> QED BY <2>2, <2>3, <2>4
<1>12. /\ segments' = {} => last' = k - 1
       /\ segments' # {} => /\ last' = last /\ last >= k
                            /\ LastSegment \in segments' /\ LastOf(LastSegment) = last
                            /\ \A s \in segments' : Top(s, segments') => s = LastSegment
  <2>1. segments' = {} => last' = k - 1
    BY <1>5, <1>6, <1>7
  <2>2. ASSUME segments' # {}
        PROVE /\ last' = last /\ last >= k
              /\ LastSegment \in segments' /\ LastOf(LastSegment) = last
              /\ \A s \in segments' : Top(s, segments') => s = LastSegment
    <3>1. last' = last
      BY <1>5, <1>6, <1>7, <2>2
    <3>2. PICK s \in segments : LastOf(s) >= k
      BY <1>7, <2>2
    <3>3. /\ LastOf(s) <= last /\ LastOf(LastSegment) = last /\ LastSegment \in segments
      BY <1>2, <3>2, Ends
    <3>4. last >= k
      BY <1>4, <1>8, <3>2, <3>3
    <3>5. LastSegment \in segments'
      BY <1>7, <3>3, <3>4
    <3>6. ASSUME NEW t \in segments', Top(t, segments') PROVE t = LastSegment
      <4>1. LastSegment.first <= t.first
        BY <3>5, <3>6 DEF Top
      <4>2. t.first <= LastSegment.first
        BY <1>2, <1>7, <3>2, <3>6, InOrder DEF Top
      <4>3. t.first = LastSegment.first
        BY <1>7, <1>8, <3>3, <4>1, <4>2
      <4> QED BY <1>2, <1>7, <3>3, <4>3, InOrder
    <3> QED BY <3>1, <3>3, <3>4, <3>5, <3>6
  <2> QED BY <2>1, <2>2
<1>13. TypeInv'
  <2>1. \A s \in segments' : s.first <= MaxIndex + 1
    BY <1>2, <1>7 DEF TypeInv
  <2>2. last' \in 0..MaxIndex /\ last' >= first' - 1
    <3>1. last \in 0..MaxIndex
      BY <1>2 DEF TypeInv
    <3>2. k - 1 \in 0..MaxIndex
      BY <1>4
    <3> QED BY <1>4, <1>5, <1>12, <3>1, <3>2
  <2>3. bad' \in BOOLEAN
    BY <1>5, <1>2 DEF TypeInv
  <2> QED BY <1>1, <1>2, <1>4, <1>5, <1>6, <1>9, <2>1, <2>2, <2>3 DEF TypeInv
<1>14. NamesOK' /\ FilesOK'
  BY <1>1, <1>2, DiskSame
<1>15. ExtentOK'
  <2>1. \A s \in ToSet(closed') : s.terms # <<>>
    BY <1>2, <1>5, <1>6 DEF ExtentOK
  <2>2. \A s \in ToSet(closed'), t \in ToSet(open') : s.first < t.first
    BY <1>2, <1>5, <1>6 DEF ExtentOK
  <2>3. \A s \in segments' : Top(s, segments') => last' = LastOf(s) /\ last' <= LastOf(s)
    BY <1>4, <1>12
  <2> QED BY <1>4, <1>5, <1>6, <1>7, <1>10, <1>12, <2>1, <2>2, <2>3 DEF ExtentOK
<1>16. HeldOK'
  BY <1>1, <1>2, <1>7 DEF HeldOK, HasFile
<1>17. OpOK'
  <2>1. Leaving' = ToSet(left)
    BY <1>9 DEF Leaving
  <2>2. \A i, j \in 1..Len(left) : i # j => left[i].first # left[j].first
    BY <1>6, SortedPlaces
  <2>3. PrefixOK'
    BY <1>1, <1>3, <1>4, <1>5, <1>6, <1>9, <2>1 DEF PrefixOK
  <2> QED BY <1>9, <2>2, <2>3 DEF OpOK
<1>18. OwnedOK'
  <2>1. Leaving' = {s \in segments : LastOf(s) < k} /\ Live' = ToSet(rest) /\ Live = ToSet(open)
        /\ Leaving = {}
    BY <1>1, <1>2, <1>4, <1>5, <1>6, <1>9, EmptyToSet DEF Leaving, Live
  <2>2. \A s \in Leaving' : HasFile(s)'
    BY <1>1, <1>2, <2>1 DEF HeldOK, HasFile
  <2>3. \A f \in files' : Needed(f)' => \E s \in segments' \union Leaving' : s.first = f.first
    <3>1. \A s \in segments : s \in segments' \/ s \in Leaving'
      BY <1>4, <1>7, <1>8, <2>1
    <3> QED BY <1>1, <1>2, <2>1, <3>1 DEF OwnedOK, Needed
  <2>4. \A s \in segments', t \in Leaving' : s.first # t.first
    BY <1>2, <1>4, <1>7, <1>8, <2>1, InOrder
  <2>5. \A f \in files' : \A s \in Live' : s.first = f.first => f.last = 0
    BY <1>1, <1>2, <1>6, <2>1 DEF OwnedOK
  <2>6. \A s \in segments' \ Live' : s \in segments \ Live
    <3>1. \A s \in ToSet(closed) : s \notin ToSet(open)
      <4>1. \A s \in ToSet(closed) : ~(s.first < s.first)
        BY <1>8
      <4> QED BY <1>2, <4>1 DEF ExtentOK
    <3>2. segments' = ToSet(kept) \union ToSet(rest)
      BY <1>6, <1>7
    <3> QED BY <1>6, <1>7, <2>1, <3>1, <3>2
  <2>7. \A f \in files' : \A s \in segments' \ Live' : s.first = f.first => f.last # 0
    BY <1>1, <1>2, <2>6 DEF OwnedOK
  <2> QED BY <2>2, <2>3, <2>4, <2>5, <2>7 DEF OwnedOK
<1>19. NameInv'
  <2>1. (segments \union Leaving)' \in SUBSET segments
    BY <1>6, <1>7, <1>9 DEF Leaving
  <2> QED BY <1>1, <1>2, <2>1, NamesSame DEF IInv
<1> QED BY <1>1, <1>2, <1>11, <1>13, <1>14, <1>15, <1>16, <1>17, <1>18, <1>19
        DEF IInv, MemoryInv, StepInv, FineInv, DiskInv

-----------------------------------------------------------------------------
(* The removal of files.                                                   *)

LEMMA TailIs ==
    ASSUME NEW S, NEW q \in Seq(S), q # <<>>
    PROVE  /\ Head(q) \in S /\ Head(q) = q[1] /\ Tail(q) \in Seq(S) /\ Len(Tail(q)) = Len(q) - 1
           /\ \A i \in 1..Len(Tail(q)) : Tail(q)[i] = q[i + 1]
           /\ ToSet(q) = {Head(q)} \union ToSet(Tail(q)) /\ Len(q) \in Nat \ {0}
<1> DEFINE t == Tail(q)
           n == Len(q)
<1>1. /\ Head(q) \in S /\ t \in Seq(S) /\ Len(t) = n - 1 /\ \A i \in 1..Len(t) : t[i] = q[i + 1]
  BY HeadTailProperties
<1>2. n \in Nat \ {0} /\ ToSet(q) = {q[i] : i \in 1..n}
  BY ElementsOf
<1>3. Head(q) = q[1]
  OBVIOUS
<1> HIDE DEF t, n
<1>4. ToSet(t) = {t[i] : i \in 1..n - 1}
  BY <1>1, ElementsOf
<1>5. ToSet(q) = {q[1]} \union ToSet(t)
  <2>1. \A i \in 1..n - 1 : t[i] = q[i + 1] /\ i + 1 \in 1..n
    BY <1>1, <1>2
  <2>2. \A i \in 1..n : i = 1 \/ (i - 1 \in 1..n - 1 /\ (i - 1) + 1 = i)
    BY <1>2
  <2>3. 1 \in 1..n
    BY <1>2
  <2>4. ASSUME NEW x \in ToSet(q) PROVE x = q[1] \/ x \in ToSet(t)
    <3>1. PICK i \in 1..n : x = q[i]
      BY <1>2, <2>4
    <3> QED BY <1>4, <2>1, <2>2, <3>1
  <2>5. \A x \in ToSet(t) : x \in ToSet(q)
    BY <1>2, <1>4, <2>1
  <2> QED BY <1>2, <2>3, <2>4, <2>5
<1> QED BY <1>1, <1>2, <1>3, <1>5 DEF t, n

LEMMA InUnlink ==
    ASSUME IInv, up, op.pc = "unlink"
    PROVE  /\ ~broken /\ OpOK /\ OwnedOK /\ OpenOK /\ ApartOK /\ op.of \in {"prefix", "suffix", "reset"} /\ TypeInv
           /\ NamesOK /\ ExtentOK /\ HeldOK /\ op \in OpType(Seq(SegmentType))
           /\ op.left \in Seq(SegmentType) /\ Leaving = ToSet(op.left) /\ Live = ToSet(open)
           /\ op.of = "prefix" => PrefixOK
           /\ op.of = "suffix" => SuffixOK
           /\ op.of = "reset" => ResetOpOK
           /\ op.of # "reset" => FilesOK
           /\ meta = first
<1>1. ~broken /\ OpOK /\ OwnedOK /\ OpenOK /\ ApartOK /\ op.of \in {"prefix", "suffix", "reset"} /\ TypeInv
  BY AtStep DEF IInv
<1>2. op \in OpType(Seq(SegmentType)) /\ op.left \in Seq(SegmentType)
  BY <1>1 DEF TypeInv, OpType
<1>3. NamesOK /\ ExtentOK /\ HeldOK /\ (op.of # "reset" => FilesOK)
  BY DEF IInv, DiskInv, MemoryInv, Resetting
<1>4. /\ op.of = "prefix" => PrefixOK
      /\ op.of = "suffix" => SuffixOK
      /\ op.of = "reset" => ResetOpOK
  BY <1>1 DEF OpOK
<1>5. meta = first
  BY <1>1, <1>4 DEF PrefixOK, SuffixOK, ResetOpOK
<1> QED BY <1>1, <1>2, <1>3, <1>4, <1>5 DEF Leaving, Live

LEMMA StepOfUnlink == IInv /\ StaleOK /\ unlink => IInv'
<1> SUFFICES ASSUME IInv, StaleOK, unlink PROVE IInv'
  OBVIOUS
<1>1. /\ up /\ op.pc = "unlink" /\ op.left # <<>>
      /\ UNCHANGED <<up, meta, first, last, closed, open, refused, bad>>
  BY DEF unlink, memory
<1>2. /\ ~broken /\ OpOK /\ OwnedOK /\ OpenOK /\ ApartOK /\ op.of \in {"prefix", "suffix", "reset"} /\ TypeInv
      /\ NamesOK /\ ExtentOK /\ HeldOK /\ op \in OpType(Seq(SegmentType))
      /\ op.left \in Seq(SegmentType) /\ Leaving = ToSet(op.left) /\ Live = ToSet(open)
      /\ op.of = "prefix" => PrefixOK
      /\ op.of = "suffix" => SuffixOK
      /\ op.of = "reset" => ResetOpOK
      /\ op.of # "reset" => FilesOK
      /\ meta = first
  BY <1>1, InUnlink
<1>5. PICK h, f : h = Head(op.left) /\ f = File(h)
  OBVIOUS
<1>6. /\ h \in SegmentType /\ h = op.left[1] /\ Tail(op.left) \in Seq(SegmentType)
      /\ Len(Tail(op.left)) = Len(op.left) - 1 /\ Len(op.left) \in Nat \ {0}
      /\ \A i \in 1..Len(Tail(op.left)) : Tail(op.left)[i] = op.left[i + 1]
      /\ Leaving = {h} \union ToSet(Tail(op.left))
  BY <1>1, <1>2, <1>5, TailIs
<1>7. /\ f \in files /\ f.first = h.first /\ f.terms = h.terms /\ OnDisk(h)
      /\ \A g \in files : g.first = h.first => g = f
  <2>1. HasFile(h) /\ Knows(h)
    BY <1>2, <1>6 DEF OwnedOK, OpenOK
  <2> QED BY <1>2, <1>5, <2>1, TheFile
<1>3. ASSUME Stops, files' = files, faults' = faults + 1, op.of = "suffix" PROVE IInv'
  <2>1. /\ op' = Idle /\ broken' = TRUE /\ faults' = faults + 1
        /\ op'.of = "none" /\ op' \in OpType(Seq(SegmentType))
    BY <1>3, IdleIs DEF Stops
  <2>2. ExtentOK' /\ HeldOK' /\ segments' = segments
    BY <1>1, <1>2, <1>3, <2>1, ExtentSame, HeldSame
  <2>3. NamesOK' /\ FilesOK'
    BY <1>1, <1>2, <1>3, DiskSame
  <2>4. TypeInv'
    BY <1>1, <1>2, <1>3, <2>1, <2>2 DEF TypeInv
  <2>5. NameInv'
    BY <1>2, <1>3, <2>1 DEF NameInv, ApartOK
  <2> QED BY <1>1, <2>1, <2>2, <2>3, <2>4, <2>5 DEF IInv, MemoryInv, StepInv, FineInv, DiskInv
<1>4. ASSUME files' = files \ {f} \/ (files' = files /\ ~Needed(f)), op' = [op EXCEPT !.left = Tail(@)],
             is_open' = is_open \ {h.first}, broken' = broken, faults' \in Nat
      PROVE  IInv'
  <2>3. /\ op'.of = op.of /\ op'.pc = "unlink" /\ op'.left = Tail(op.left) /\ op'.k = op.k
        /\ op'.cut = op.cut /\ op'.renamed = op.renamed
        /\ op' \in OpType(Seq(SegmentType)) /\ Leaving' = ToSet(Tail(op.left))
        /\ Live' = Live
    BY <1>1, <1>2, <1>4, <1>6 DEF OpType, Leaving, Live
  <2>5. \A i, j \in 1..Len(op.left) : i # j => op.left[i].first # op.left[j].first
    BY <1>2 DEF OpOK
  <2>6. \A x \in Leaving' : x.first # h.first
    <3> SUFFICES ASSUME NEW x \in ToSet(Tail(op.left)) PROVE x.first # h.first
      BY <2>3
    <3>1. PICK i \in 1..Len(Tail(op.left)) : x = Tail(op.left)[i]
      <4> DEFINE t == Tail(op.left)
      <4>1. t \in Seq(SegmentType) /\ x \in ToSet(t)
        BY <1>6
      <4> HIDE DEF t
      <4>2. \E i \in 1..Len(t) : x = t[i]
        BY <4>1, ElementsOf
      <4> QED BY <4>2 DEF t
    <3>2. x = op.left[i + 1] /\ i + 1 \in 1..Len(op.left) /\ i + 1 # 1 /\ 1 \in 1..Len(op.left)
      BY <1>6, <3>1
    <3> QED BY <1>6, <2>5, <3>2
  <2>7. \A s \in segments : s.first # h.first
    BY <1>2, <1>6 DEF OwnedOK
  <2>8. op.of # "reset" => f \notin NeededFiles \/ \A g \in NeededFiles : g.first <= f.first
    <3>1. CASE op.of = "prefix"
      <4>1. LastOf(h) < meta
        BY <1>1, <1>2, <1>6, <3>1 DEF PrefixOK
      <4>2. LastOf(f) < meta /\ LastOf(f) \in Nat /\ meta \in Nat
        <5>1. LastOf(f) = LastOf(h) /\ f \in FileType
          BY <1>2, <1>7 DEF LastOf, TypeInv
        <5> QED BY <1>2, <4>1, <5>1, LastOfIs, FileIsPiece, SegmentStorageAssumption DEF TypeInv
      <4>3. CASE f.last = 0
        BY <1>2, <1>7, <3>1, <4>3, InProgressIsLast
      <4>4. CASE f.last # 0
        <5>1. f.last = LastOf(f)
          BY <1>2, <1>7, <4>4 DEF NamesOK, NameOK
        <5> QED BY <4>2, <4>4, <5>1 DEF NeededFiles, Needed
      <4> QED BY <4>3, <4>4
    <3>2. CASE op.of = "suffix"
      <4> SUFFICES ASSUME NEW g \in NeededFiles PROVE g.first <= f.first
        OBVIOUS
      <4>1. g \in files
        BY DEF NeededFiles
      <4>2. PICK s \in segments \union Leaving : s.first = g.first
        BY <1>2, <4>1 DEF OwnedOK, NeededFiles
      <4>3. CASE s \in segments
        <5>1. s.first < h.first
          BY <1>2, <1>6, <3>2, <4>3 DEF SuffixOK
        <5>2. s.first \in Nat
          BY <1>2, <4>3, Memory DEF SegmentType
        <5> QED BY <1>6, <1>7, <4>2, <5>1, <5>2 DEF SegmentType
      <4>4. CASE s \in Leaving
        <5>1. PICK i \in 1..Len(op.left) : s = op.left[i]
          BY <1>2, <4>4, ElementsOf
        <5>2. s \in SegmentType
          BY <1>2, <5>1, ElementOfSeq
        <5>3. i = 1 \/ (1 < i /\ 1 \in 1..Len(op.left))
          BY <1>6, <5>1
        <5>4. 1 < i => op.left[1].first > op.left[i].first
          BY <1>2, <3>2, <5>1, <5>3 DEF SuffixOK
        <5> QED BY <1>6, <1>7, <4>2, <5>1, <5>2, <5>3, <5>4 DEF SegmentType
      <4> QED BY <4>2, <4>3, <4>4
    <3> QED BY <1>2, <3>1, <3>2
  <2>9. /\ files' \in SUBSET FileType /\ IsFiniteSet(files') /\ NamesOK'
        /\ \A g \in files' : g \in files /\ (Needed(g) => g.first # f.first)
        /\ \A s : s.first # f.first /\ HasFile(s) => HasFile(s)'
        /\ op.of # "reset" => FilesOK'
    <3>1. CASE files' = files \ {f}
      BY <1>1, <1>2, <1>7, <2>8, <3>1, RemoveKeeps
    <3>2. CASE files' = files /\ ~Needed(f)
      <4>1. NamesOK' /\ (op.of # "reset" => FilesOK')
        BY <1>1, <1>2, <3>2, DiskSame DEF NamesOK, NameOK
      <4>2. \A s : HasFile(s) => HasFile(s)'
        BY <3>2 DEF HasFile
      <4> QED BY <1>2, <1>7, <3>2, <4>1, <4>2 DEF TypeInv
    <3> QED BY <1>4, <3>1, <3>2
  <2>10. ExtentOK' /\ segments' = segments
    BY <1>1, <1>2, <1>4, <2>3, ExtentSame
  <2>11. TypeInv'
    BY <1>1, <1>2, <1>4, <2>3, <2>9, <2>10 DEF TypeInv
  <2>12. DiskInv'
    BY <1>1, <2>3, <2>9 DEF DiskInv, Resetting
  <2>13. HeldOK'
    BY <1>2, <1>7, <2>7, <2>9, <2>10 DEF HeldOK, HasFile
  <2>14. \A i, j \in 1..Len(op'.left) : i + 1 \in 1..Len(op.left) /\ j + 1 \in 1..Len(op.left)
            /\ op'.left[i] = op.left[i + 1] /\ op'.left[j] = op.left[j + 1]
    BY <1>6, <2>3
  <2>15. OpOK'
    <3>1. \A i, j \in 1..Len(op'.left) : i # j => op'.left[i].first # op'.left[j].first
      <4> SUFFICES ASSUME NEW i \in 1..Len(op'.left), NEW j \in 1..Len(op'.left), i # j
                   PROVE  op'.left[i].first # op'.left[j].first
        OBVIOUS
      <4>1. i + 1 # j + 1
        OBVIOUS
      <4>2. /\ i + 1 \in 1..Len(op.left) /\ j + 1 \in 1..Len(op.left)
            /\ op'.left[i] = op.left[i + 1] /\ op'.left[j] = op.left[j + 1]
        BY <2>14
      <4>3. op.left[i + 1].first # op.left[j + 1].first
        BY <2>5, <4>1, <4>2
      <4> QED BY <4>2, <4>3
    <3>2. op.of = "prefix" => PrefixOK'
      BY <1>1, <1>2, <1>6, <2>3 DEF PrefixOK
    <3>3. op.of = "suffix" => SuffixOK'
      <4> SUFFICES ASSUME op.of = "suffix" PROVE SuffixOK'
        OBVIOUS
      <4>1. \A i, j \in 1..Len(op'.left) : i < j => op'.left[i].first > op'.left[j].first
        <5> SUFFICES ASSUME NEW i \in 1..Len(op'.left), NEW j \in 1..Len(op'.left), i < j
                     PROVE  op'.left[i].first > op'.left[j].first
          OBVIOUS
        <5>1. i + 1 < j + 1
          OBVIOUS
        <5> QED BY <1>2, <2>14, <5>1 DEF SuffixOK
      <4> QED BY <1>1, <1>2, <1>6, <2>3, <2>10, <4>1 DEF SuffixOK
    <3>4. op.of = "reset" => ResetOpOK'
      BY <1>1, <1>2, <2>3, <2>10 DEF ResetOpOK
    <3> QED BY <1>2, <2>3, <3>1, <3>2, <3>3, <3>4 DEF OpOK
  <2>16. OwnedOK'
    <3>1. \A s \in Leaving' : HasFile(s)'
      BY <1>2, <1>6, <2>3, <1>7, <2>6, <2>9 DEF OwnedOK
    <3>2. \A g \in files' : Needed(g)' => \E s \in segments' \union Leaving' : s.first = g.first
      BY <1>1, <1>2, <1>6, <2>3, <1>7, <2>9, <2>10 DEF OwnedOK, Needed
    <3>3. \A s \in segments', t \in Leaving' : s.first # t.first
      BY <1>2, <1>6, <2>3, <2>10 DEF OwnedOK
    <3>4. \A g \in files' : /\ \A s \in Live' : s.first = g.first => g.last = 0
                            /\ \A s \in segments' \ Live' : s.first = g.first => g.last # 0
      BY <1>2, <2>3, <2>9, <2>10 DEF OwnedOK
    <3> QED BY <3>1, <3>2, <3>3, <3>4 DEF OwnedOK, HasFile
  <2>17. NameInv'
    <3>1. ApartOK'
      BY <1>2, <1>4, ApartSame
    <3>2. \A s \in (segments \union Leaving)' : s \in segments \union Leaving /\ s.first # h.first
      BY <1>6, <2>3, <2>6, <2>7, <2>10
    <3>3. \A s \in (segments \union Leaving)' : IsOpen(s)' <=> IsOpen(s)
      BY <1>4, <3>2 DEF IsOpen
    <3>4. OpenOK'
      <4>1. files' \in SUBSET files
        BY <2>9
      <4> QED BY <1>2, <3>2, <3>3, <4>1, OpenSame
    <3> QED BY <3>1, <3>4 DEF NameInv
  <2> QED BY <1>1, <1>2, <1>4, <2>10, <2>11, <2>12, <2>13, <2>15, <2>16, <2>17 DEF IInv, MemoryInv, StepInv, FineInv
<1>8. faults \in Nat
  BY <1>2 DEF TypeInv
<1>9. ASSUME FaultAt(h, Stays(f)) PROVE faults' = faults + 1 /\ ~Needed(f)
  BY <1>7, <1>9 DEF FaultAt, Fault, Stays, StaleOK
<1>10. FaultAt(h, "io") => faults' = faults + 1
  BY <1>7 DEF FaultAt, Fault
<1>11. \/ files' = files \ {f} /\ op' = [op EXCEPT !.left = Tail(@)] /\ is_open' = is_open \ {h.first} /\ Succeeds
       \/ op.of = "suffix" /\ FaultAt(h, "io") /\ Stops /\ UNCHANGED files
       \/ FaultAt(h, Stays(f)) /\ op' = [op EXCEPT !.left = Tail(@)] /\ is_open' = is_open \ {h.first}
          /\ UNCHANGED <<files, broken>>
  BY <1>5 DEF unlink
<1> QED BY <1>3, <1>4, <1>8, <1>9, <1>10, <1>11 DEF Succeeds

LEMMA StepOfUnlinked == IInv /\ unlinked => IInv'
<1> SUFFICES ASSUME IInv, unlinked PROVE IInv'
  OBVIOUS
<1>1. /\ up /\ op.pc = "unlink" /\ op.left = <<>>
      /\ UNCHANGED <<up, files, meta, first, last, closed, open, is_open, broken, refused, faults, bad>>
      /\ IF op.cut /\ op.k < LastOf(LastSegment)
         THEN op' = [op EXCEPT !.pc = IF IsOpen(LastSegment) THEN "ftruncate" ELSE "rename"]
         ELSE op' = Idle
  BY DEF unlinked, memory, Goto, Returns
<1>2. /\ ~broken /\ OpOK /\ OwnedOK /\ OpenOK /\ ApartOK /\ op.of \in {"prefix", "suffix", "reset"} /\ TypeInv
      /\ NamesOK /\ ExtentOK /\ HeldOK /\ op \in OpType(Seq(SegmentType))
      /\ op.left \in Seq(SegmentType) /\ Leaving = ToSet(op.left) /\ Live = ToSet(open)
      /\ op.of = "prefix" => PrefixOK
      /\ op.of = "suffix" => SuffixOK
      /\ op.of = "reset" => ResetOpOK
      /\ op.of # "reset" => FilesOK
      /\ meta = first
  BY <1>1, InUnlink
<1>3. op.cut => op.of = "suffix"
  BY <1>2 DEF PrefixOK, ResetOpOK
<1>4. Leaving = {} /\ Len(op.left) = 0
  BY <1>1, <1>2, EmptyToSet, ElementsOf
<1>5. FilesOK
  <2>1. CASE op.of = "reset"
    <3>2. NeededFiles = {}
      BY <1>2, <1>4, <2>1 DEF NeededFiles, OwnedOK, ResetOpOK
    <3> QED BY <3>2, TiledNone DEF FilesOK
  <2> QED BY <1>2, <2>1
<1> DEFINE cuts == op.cut /\ op.k < LastOf(LastSegment)
<1>6. /\ op' \in OpType(Seq(SegmentType)) /\ op'.of # "append" /\ op'.left = <<>>
      /\ cuts => /\ op'.of = op.of /\ op'.k = op.k /\ op'.cut = op.cut /\ op'.renamed = op.renamed
                 /\ op'.pc = IF open = <<>> THEN "rename" ELSE "ftruncate"
      /\ ~cuts => op' = Idle /\ op'.of = "none" /\ op'.pc = "idle"
  <2>1. op.cut => (IsOpen(LastSegment) <=> open # <<>>)
    <3> SUFFICES ASSUME op.cut PROVE IsOpen(LastSegment) <=> open # <<>>
      OBVIOUS
    <3>1. segments # {}
      BY <1>2, <1>3 DEF SuffixOK
    <3>2. /\ LastSegment \in segments
          /\ LastSegment = IF open = <<>> THEN Last(closed) ELSE open[1]
      BY <1>2, <3>1, InOrder DEF Top
    <3>3. LastSegment \in Live <=> open # <<>>
      <4>1. open \in Seq(SegmentType) /\ Len(open) <= 1
        BY <1>2, Memory
      <4> QED BY <1>2, <3>2, <4>1, AtMostOne, EmptyToSet
    <3>4. File(LastSegment) \in files /\ File(LastSegment).first = LastSegment.first
          /\ (File(LastSegment).last = 0 <=> LastSegment \in Live)
      BY <1>2, <3>2, FileOf
    <3> QED BY <1>2, <3>2, <3>3, <3>4 DEF OpenOK, Knows
  <2> QED BY <1>1, <1>2, <2>1, IdleIs DEF OpType
<1>7. ExtentOK' /\ HeldOK' /\ segments' = segments
  <2>1. CASE op.cut => cuts
    BY <1>1, <1>2, <1>3, <1>6, <2>1, ExtentSame, HeldSame
  <2>2. CASE op.cut /\ ~cuts
    <3>1. last = op.k /\ segments # {} /\ op.k \in Nat
      BY <1>2, <1>3, <2>2 DEF SuffixOK, OpType
    <3>2. Top(LastSegment, segments) /\ LastOf(LastSegment) \in Nat
      <4>1. Top(LastSegment, segments)
        BY <1>2, <3>1, InOrder
      <4> QED BY <1>2, <4>1, Memory, LastOfIs DEF Top, Pieces
    <3>3. \A s \in segments : Top(s, segments) => s = LastSegment
      <4> SUFFICES ASSUME NEW s \in segments, Top(s, segments) PROVE s = LastSegment
        OBVIOUS
      <4>1. s.first \in Nat /\ LastSegment.first \in Nat /\ LastSegment \in segments
        BY <1>2, <3>2, Memory DEF Top, Pieces, Piece
      <4>2. s.first = LastSegment.first
        BY <3>2, <4>1 DEF Top
      <4> QED BY <1>2, <4>1, <4>2, InOrder
    <3>4. last = LastOf(LastSegment)
      <4>1. last <= LastOf(LastSegment)
        BY <1>2, <3>2 DEF ExtentOK, Top
      <4> QED BY <2>2, <3>1, <3>2, <4>1
    <3>5. segments' = segments /\ HeldOK'
      BY <1>1, <1>2, HeldSame DEF segments
    <3>6. ExtentOK'
      BY <1>1, <1>2, <3>3, <3>4, <3>5 DEF ExtentOK
    <3> QED BY <3>5, <3>6
  <2> QED BY <2>1, <2>2
<1>8. NamesOK' /\ FilesOK'
  BY <1>1, <1>2, <1>5, DiskSame
<1>9. TypeInv'
  BY <1>1, <1>2, <1>6, <1>7 DEF TypeInv
<1>10. Leaving' = {} /\ Live' = ToSet(open)
  <2>1. Leaving' = {}
    BY <1>6, EmptyToSet DEF Leaving
  <2>2. Live' = ToSet(open)
    BY <1>1, <1>6 DEF Live
  <2> QED BY <2>1, <2>2
<1>11. OpOK'
  <2>1. CASE cuts
    <3>1. SuffixOK'
      BY <1>1, <1>2, <1>3, <1>4, <1>6, <1>7, <1>10, <2>1 DEF SuffixOK
    <3>2. op'.of = "suffix" /\ Len(op'.left) = 0
      BY <1>1, <1>3, <1>4, <1>6, <2>1
    <3> QED BY <3>1, <3>2 DEF OpOK
  <2>2. CASE ~cuts
    BY <1>1, <1>2, <1>4, <1>6, <2>2 DEF OpOK
  <2> QED BY <2>1, <2>2
<1>12. OwnedOK'
  BY <1>1, <1>2, <1>4, <1>7, <1>10, OwnedSame
<1>13. NameInv'
  BY <1>1, <1>7, <1>10, NamesSame DEF IInv
<1> QED BY <1>1, <1>2, <1>7, <1>8, <1>9, <1>11, <1>12, <1>13 DEF IInv, MemoryInv, StepInv, FineInv, DiskInv

-----------------------------------------------------------------------------
(* truncate_suffix.                                                        *)

\* What truncate_suffix keeps and removes. One segment or none starts at or before an
\* index before the first.
LEMMA Cutting ==
    ASSUME TypeInv, ExtentOK, ~broken, op = Idle, NEW k \in (first - 1)..(last - 1)
    PROVE  LET all == closed \o open
               kept == SubSeq(all, 1, UpTo(all, k))
               first1 == IF kept = <<>> THEN k + 1 ELSE first
               cut == kept # <<>> /\ first1 <= k
               left == IF kept # <<>> /\ ~cut THEN Front(kept) ELSE kept
               w == PoppedFromBack(all, k) \o
                       (IF kept # <<>> /\ ~cut THEN <<Last(kept)>> ELSE <<>>)
               m == IF cut THEN UpTo(all, k) ELSE 0
           IN  /\ first1 = first /\ cut \in BOOLEAN /\ (~cut => k = first - 1) /\ (cut => first <= k)
               /\ m \in 0..Len(all)
               /\ \A i \in 1..m : cut /\ all[i].first <= k
               /\ cut => m > 0 /\ \A i \in m + 1..Len(all) : all[i].first > k
               /\ left \in Seq(SegmentType) /\ Len(left) = m /\ \A i \in 1..m : left[i] = all[i]
               /\ w \in Seq(SegmentType) /\ Len(w) = Len(all) - m
               /\ \A i \in 1..Len(all) - m : w[i] = all[Len(all) + 1 - i]
<1> DEFINE all == closed \o open
           N == Len(all)
           n == UpTo(all, k)
           kept == SubSeq(all, 1, n)
           first1 == IF kept = <<>> THEN k + 1 ELSE first
           cut == kept # <<>> /\ first1 <= k
           left == IF kept # <<>> /\ ~cut THEN Front(kept) ELSE kept
           v == PoppedFromBack(all, k)
           w == v \o (IF kept # <<>> /\ ~cut THEN <<Last(kept)>> ELSE <<>>)
           m == IF cut THEN n ELSE 0
<1>1. /\ all \in Seq(SegmentType) /\ segments = ToSet(all) /\ Pieces(segments)
      /\ segments \in SUBSET SegmentType
      /\ Sorted(all) /\ N \in Nat /\ ToSet(all) = {all[i] : i \in 1..N}
      /\ \A i \in 1..N : all[i] \in segments /\ all[i].first \in Nat
  <2>1. all \in Seq(SegmentType) /\ segments = ToSet(all) /\ Pieces(segments) /\ Sorted(all)
        /\ segments \in SUBSET SegmentType
    BY Memory, InOrder DEF segments
  <2> HIDE DEF all
  <2>2. N \in Nat /\ ToSet(all) = {all[i] : i \in 1..N}
    BY <2>1, ElementsOf
  <2> QED BY <2>1, <2>2 DEF SegmentType
<1> HIDE DEF all
<1>2. first \in Nat \ {0} /\ last \in Nat /\ k \in Nat /\ k >= first - 1 /\ k < last /\ last >= first
  <2>1. first \in Nat \ {0} /\ last \in Nat
    BY SegmentStorageAssumption DEF TypeInv
  <2> QED BY <2>1
<1>3. /\ n \in 0..N /\ \A i \in 1..n : all[i].first <= k
      /\ \A i \in n + 1..N : all[i].first > k
  BY <1>1, <1>2, UpToIs
<1> HIDE DEF n
<1>4. /\ kept \in Seq(SegmentType) /\ Len(kept) = n /\ \A i \in 1..n : kept[i] = all[i]
  <2>1. 1 \in 1..Len(all) + 1 /\ n \in 0..Len(all) /\ 1 <= n + 1
    BY <1>1, <1>3
  <2>2. /\ kept \in Seq(SegmentType) /\ Len(kept) = n - 1 + 1
        /\ \A i \in 1..n - 1 + 1 : kept[i] = all[1 + i - 1]
    BY <1>1, <2>1, PartOf
  <2>3. n - 1 + 1 = n /\ \A i \in 1..n : 1 + i - 1 = i
    BY <1>3
  <2> HIDE DEF kept
  <2> QED BY <2>2, <2>3
<1> HIDE DEF kept
<1>5. kept = <<>> <=> n = 0
  BY <1>4, ElementsOf
<1>6. ~(op.of = "suffix" /\ op.cut) /\ segments # {}
      /\ LastOf(LastSegment) = last /\ LastSegment \in segments
  <2>1. ~(op.of = "suffix" /\ op.cut)
    BY IdleIs
  <2>2. segments # {}
    BY <1>2, <2>1, Ends
  <2> QED BY <2>1, <2>2, Ends
<1>7. k >= first => n # 0
  <2> SUFFICES ASSUME k >= first PROVE n # 0
    OBVIOUS
  <2>1. Tiled(segments, first) /\ LastOf(LastSegment) >= k
    BY <1>2, <1>6 DEF ExtentOK
  <2>2. \E s \in segments : s.first <= k /\ k <= LastOf(s)
    BY <1>1, <1>2, <1>6, <2>1, Covers
  <2>3. PICK i \in 1..N : all[i].first <= k
    BY <1>1, <2>2
  <2>4. i \notin n + 1..N
    BY <1>1, <1>2, <1>3, <2>3
  <2> QED BY <1>1, <1>3, <2>3, <2>4
<1>8. k < first => n <= 1
  <2> SUFFICES ASSUME k < first, n > 1 PROVE FALSE
    BY <1>3
  <2>1. 1 \in 1..N /\ 2 \in 1..N /\ 2 \in 1..n /\ 1 < 2
    BY <1>1, <1>3
  <2>2. all[1].first < all[2].first /\ all[2].first <= k
    BY <1>1, <1>3, <2>1 DEF Sorted
  <2>3. all[1] \in segments /\ all[2] \in segments
    BY <1>1, <2>1
  <2>4. all[1].terms # <<>> /\ LastOf(all[1]) < all[2].first
    BY <2>2, <2>3 DEF ExtentOK, Tiled
  <2>5. LastOf(all[1]) >= first
    BY <2>3, <2>4 DEF ExtentOK
  <2>6. LastOf(all[1]) \in Nat /\ all[2].first \in Nat
    BY <1>1, <2>1, <2>3, LastOfIs DEF Pieces
  <2> QED BY <1>2, <2>2, <2>4, <2>5, <2>6
<1>9. first1 = first /\ cut \in BOOLEAN /\ (~cut => k = first - 1) /\ (cut => first <= k)
      /\ (cut <=> n # 0 /\ first <= k)
  <2>1. kept = <<>> => k + 1 = first
    BY <1>2, <1>5, <1>7
  <2>2. first1 = first
    BY <2>1
  <2>3. ~cut => k = first - 1
    BY <1>2, <1>5, <1>7, <2>2
  <2> QED BY <1>5, <2>2, <2>3
<1> HIDE DEF first1, cut
<1>10. /\ m \in 0..N /\ \A i \in 1..m : cut /\ all[i].first <= k
       /\ cut => m > 0 /\ \A i \in m + 1..N : all[i].first > k
       /\ ~cut => m = 0
  BY <1>1, <1>3, <1>9
<1>11. kept # <<>> /\ ~cut => n = 1
  BY <1>2, <1>3, <1>5, <1>8, <1>9
<1>12. left \in Seq(SegmentType) /\ Len(left) = m /\ \A i \in 1..m : left[i] = all[i]
  <2>1. CASE kept # <<>> /\ ~cut
    <3>1. Front(kept) \in Seq(SegmentType) /\ Len(Front(kept)) = Len(kept) - 1
      BY <1>4, <2>1, FrontIs
    <3>2. Len(Front(kept)) = 0 /\ m = 0 /\ left = Front(kept)
      BY <1>4, <1>10, <1>11, <2>1, <3>1
    <3> QED BY <3>1, <3>2
  <2>2. CASE cut
    BY <1>4, <2>2
  <2>3. CASE kept = <<>>
    <3>1. n = 0 /\ ~cut
      BY <1>5, <1>9, <2>3
    <3> QED BY <1>4, <2>3, <3>1
  <2> QED BY <2>1, <2>2, <2>3
<1>13. v \in Seq(SegmentType) /\ Len(v) = N - n /\ \A i \in 1..N - n : v[i] = all[N + 1 - i]
  <2> DEFINE u == SubSeq(all, n + 1, N)
  <2>1. /\ u \in Seq(SegmentType) /\ Len(u) = N - (n + 1) + 1
        /\ \A i \in 1..N - (n + 1) + 1 : u[i] = all[n + 1 + i - 1]
    <3>1. n + 1 \in 1..Len(all) + 1 /\ N \in 0..Len(all) /\ n + 1 <= N + 1
      BY <1>1, <1>3
    <3> QED BY <1>1, <3>1, PartOf
  <2>2. v = Reverse(u)
    BY DEF PoppedFromBack, n
  <2> HIDE DEF u, N, v
  <2>3. Len(u) = N - n /\ N - (n + 1) + 1 = N - n
    BY <1>1, <1>3, <2>1
  <2>4. v = [i \in 1..N - n |-> u[(N - n) - i + 1]]
    BY <2>2, <2>3 DEF Reverse
  <2>5. \A i \in 1..N - n : (N - n) - i + 1 \in 1..N - n /\ n + 1 + ((N - n) - i + 1) - 1 = N + 1 - i
    BY <1>1, <1>3
  <2>6. \A i \in 1..N - n : v[i] = all[N + 1 - i]
    <3> SUFFICES ASSUME NEW i \in 1..N - n PROVE v[i] = all[N + 1 - i]
      OBVIOUS
    <3>1. v[i] = u[(N - n) - i + 1] /\ (N - n) - i + 1 \in 1..N - n
      BY <2>4, <2>5
    <3>2. u[(N - n) - i + 1] = all[n + 1 + ((N - n) - i + 1) - 1]
      BY <2>1, <2>3, <3>1
    <3> QED BY <2>5, <3>1, <3>2
  <2>7. v \in [1..N - n -> SegmentType] /\ N - n \in Nat
    <3>1. N - n \in Nat
      BY <1>1, <1>3
    <3>2. \A i \in 1..N - n : u[(N - n) - i + 1] \in SegmentType
      BY <2>1, <2>3, <2>5, ElementOfSeq
    <3> QED BY <2>4, <3>1, <3>2
  <2>8. v \in Seq(SegmentType)
    BY <2>7, SeqDef
  <2>9. Len(v) = N - n
    BY <2>7, <2>8, LenProperties
  <2> QED BY <2>6, <2>8, <2>9
<1> HIDE DEF v
<1>14. w \in Seq(SegmentType) /\ Len(w) = N - m /\ \A i \in 1..N - m : w[i] = all[N + 1 - i]
  <2>1. CASE kept # <<>> /\ ~cut
    <3>1. n = 1 /\ m = 0 /\ 1 \in 1..n
      BY <1>10, <1>11, <2>1
    <3>2. Last(kept) = all[1] /\ all[1] \in SegmentType
      <4>1. Last(kept) = kept[Len(kept)]
        BY <1>4, <2>1, ElementsOf
      <4>2. 1 \in 1..Len(all)
        BY <1>1, <1>3, <3>1
      <4> QED BY <1>1, <1>4, <3>1, <4>1, <4>2, ElementOfSeq
    <3> DEFINE z == <<Last(kept)>>
    <3>3. z \in Seq(SegmentType) /\ Len(z) = 1 /\ z[1] = all[1]
      BY <3>2
    <3>4. w = v \o z
      BY <2>1
    <3> HIDE DEF z, w
    <3>5. /\ v \o z \in Seq(SegmentType) /\ Len(v \o z) = Len(v) + Len(z)
          /\ \A i \in 1..Len(v) + Len(z) : (v \o z)[i] = IF i <= Len(v) THEN v[i] ELSE z[i - Len(v)]
      BY <1>13, <3>3, ConcatProperties
    <3>6. Len(w) = N
      BY <1>1, <1>13, <3>1, <3>3, <3>4, <3>5
    <3>7. ASSUME NEW i \in 1..N PROVE w[i] = all[N + 1 - i]
      <4>1. i <= N - 1 \/ (i = N /\ i - (N - 1) = 1 /\ N + 1 - i = 1 /\ ~(i <= N - 1))
        BY <1>1, <3>7
      <4>2. Len(v) = N - 1 /\ Len(z) = 1 /\ i \in 1..Len(v) + Len(z)
        BY <1>1, <1>13, <3>1, <3>3, <3>7
      <4>3. CASE i <= N - 1
        <5>1. i \in 1..N - n
          BY <1>1, <3>1, <3>7, <4>3
        <5> QED BY <1>13, <3>4, <3>5, <4>2, <4>3, <5>1
      <4>4. CASE i = N /\ i - (N - 1) = 1 /\ N + 1 - i = 1 /\ ~(i <= N - 1)
        BY <3>3, <3>4, <3>5, <4>2, <4>4
      <4> QED BY <4>1, <4>3, <4>4
    <3>8. N - m = N
      BY <1>1, <3>1
    <3> HIDE DEF m
    <3> QED BY <3>4, <3>5, <3>6, <3>7, <3>8
  <2>2. CASE ~(kept # <<>> /\ ~cut)
    <3>1. w = v
      BY <1>13, <2>2, ConcatEmptySeq
    <3>2. m = n
      BY <1>5, <1>9, <2>2
    <3> QED BY <1>13, <3>1, <3>2
  <2> QED BY <2>1, <2>2
<1> HIDE DEF left, w, m
<1>15. QED
  BY <1>9, <1>10, <1>12, <1>14 DEF first1, cut, left, w, m, v, kept, n, all

LEMMA StepOfTruncateSuffix == IInv /\ BehindOK /\ truncate_suffix => IInv'
<1> SUFFICES ASSUME IInv, BehindOK, truncate_suffix PROVE IInv'
  OBVIOUS
<1> DEFINE all == closed \o open
           N == Len(all)
           kept(k) == SubSeq(all, 1, UpTo(all, k))
           first1(k) == IF kept(k) = <<>> THEN k + 1 ELSE first
           cut(k) == kept(k) # <<>> /\ first1(k) <= k
           left(k) == IF kept(k) # <<>> /\ ~cut(k) THEN Front(kept(k)) ELSE kept(k)
           openKept(k) == open # <<>> /\ open[1] \in ToSet(left(k))
           w(k) == PoppedFromBack(all, k) \o
                     (IF kept(k) # <<>> /\ ~cut(k) THEN <<Last(kept(k))>> ELSE <<>>)
<1>1. PICK k \in (first - 1)..(last - 1) :
         /\ last' = k /\ first' = first1(k)
         /\ closed' = IF openKept(k) THEN Front(left(k)) ELSE left(k)
         /\ open' = IF openKept(k) THEN open ELSE <<>>
         /\ op' = [Idle EXCEPT !.of = "suffix", !.pc = "unlink", !.k = k, !.cut = cut(k),
                      !.left = w(k)]
  BY DEF truncate_suffix, Executes, BehindOK
<1>2. /\ up /\ op = Idle /\ ~broken
      /\ UNCHANGED <<up, files, meta, is_open, broken, refused, faults, bad>>
  BY DEF truncate_suffix, Executes, BehindOK
<1>3. /\ NamesOK /\ FilesOK /\ ExtentOK /\ HeldOK /\ OwnedOK /\ OpenOK /\ ApartOK /\ meta = first
      /\ op.of = "none" /\ op.pc = "idle" /\ Leaving = {} /\ Live = ToSet(open) /\ TypeInv
  BY <1>2, BeforeAnOperation DEF IInv
<1>4. PICK c, l, u, m :
         /\ c = cut(k) /\ l = left(k) /\ u = w(k) /\ m = IF cut(k) THEN UpTo(all, k) ELSE 0
  OBVIOUS
<1>5. /\ first1(k) = first /\ c \in BOOLEAN /\ (~c => k = first - 1) /\ (c => first <= k)
      /\ m \in 0..N
      /\ \A i \in 1..m : c /\ all[i].first <= k
      /\ c => m > 0 /\ \A i \in m + 1..N : all[i].first > k
      /\ l \in Seq(SegmentType) /\ Len(l) = m /\ \A i \in 1..m : l[i] = all[i]
      /\ u \in Seq(SegmentType) /\ Len(u) = N - m
      /\ \A i \in 1..N - m : u[i] = all[N + 1 - i]
  BY <1>2, <1>3, <1>4, Cutting
<1>6. /\ last' = k /\ first' = first
      /\ closed' = IF open # <<>> /\ open[1] \in ToSet(l) THEN Front(l) ELSE l
      /\ open' = IF open # <<>> /\ open[1] \in ToSet(l) THEN open ELSE <<>>
      /\ op' = [Idle EXCEPT !.of = "suffix", !.pc = "unlink", !.k = k, !.cut = c, !.left = u]
  BY <1>1, <1>4, <1>5
<1> HIDE DEF kept, first1, cut, left, openKept, w
<1>7. /\ all \in Seq(SegmentType) /\ segments = ToSet(all) /\ segments \in SUBSET SegmentType
      /\ Sorted(all) /\ N \in Nat /\ ToSet(all) = {all[i] : i \in 1..N}
      /\ \A i \in 1..N : all[i] \in segments /\ all[i].first \in Nat /\ all[i] \in SegmentType
  <2>1. all \in Seq(SegmentType) /\ segments = ToSet(all) /\ Sorted(all)
        /\ segments \in SUBSET SegmentType
    BY <1>3, Memory, InOrder DEF segments
  <2> HIDE DEF all
  <2>2. N \in Nat /\ ToSet(all) = {all[i] : i \in 1..N}
    BY <2>1, ElementsOf
  <2> QED BY <2>1, <2>2 DEF SegmentType
<1>8. /\ closed \in Seq(SegmentType) /\ open \in Seq(SegmentType) /\ Len(open) <= 1
      /\ segments = ToSet(closed) \union ToSet(open) /\ Pieces(segments)
      /\ Len(closed) \in Nat /\ N = Len(closed) + Len(open) /\ Len(open) \in Nat
      /\ \A i \in 1..Len(closed) + Len(open) :
            all[i] = IF i <= Len(closed) THEN closed[i] ELSE open[i - Len(closed)]
  <2>1. /\ closed \in Seq(SegmentType) /\ open \in Seq(SegmentType) /\ Len(open) <= 1
        /\ segments = ToSet(closed) \union ToSet(open) /\ Pieces(segments)
    BY <1>3, Memory
  <2> QED BY <2>1, ConcatProperties, LenProperties
<1>9. open # <<>> => /\ ToSet(open) = {open[1]} /\ N = Len(closed) + 1 /\ all[N] = open[1]
                     /\ N \in 1..N
  <2> SUFFICES ASSUME open # <<>>
               PROVE  ToSet(open) = {open[1]} /\ N = Len(closed) + 1 /\ all[N] = open[1] /\ N \in 1..N
    OBVIOUS
  <2>1. ToSet(open) = {open[1]} /\ Len(open) = 1
    BY <1>8, AtMostOne
  <2> HIDE DEF all, N
  <2>2. N = Len(closed) + 1 /\ N \in 1..Len(closed) + Len(open) /\ ~(N <= Len(closed)) /\ N - Len(closed) = 1
    BY <1>8, <2>1
  <2> QED BY <1>8, <2>1, <2>2
<1> HIDE DEF all, N
<1>10. ToSet(l) = {all[i] : i \in 1..m}
  <2>1. ToSet(l) = {l[i] : i \in 1..m}
    BY <1>5, ElementsOf
  <2> QED BY <1>5, <2>1
<1>11. Sorted(l)
  <2>1. 1..m \subseteq 1..N
    BY <1>5, <1>7
  <2> QED BY <1>5, <1>7, <2>1 DEF Sorted, N
<1>12. /\ closed' \in Seq(SegmentType) /\ open' \in Seq(SegmentType) /\ Len(open') <= 1
       /\ Sorted(closed') /\ ToSet(closed') \subseteq ToSet(closed) /\ ToSet(open') \subseteq ToSet(open)
       /\ ToSet(closed') \union ToSet(open') = {all[i] : i \in 1..m}
       /\ ToSet(open') = ToSet(open) \/ \A s \in ToSet(open) : s \notin ToSet(l)
  <2>1. CASE open # <<>> /\ open[1] \in ToSet(l)
    <3>1. PICK i \in 1..m : open[1] = all[i]
      BY <1>10, <2>1
    <3>2. i = N
      <4>1. ~(i < N)
        <5> SUFFICES ASSUME i < N PROVE FALSE
          OBVIOUS
        <5>1. i \in 1..N /\ N \in 1..N
          BY <1>5, <1>7, <1>9, <2>1
        <5>2. all[i].first < all[N].first
          BY <1>7, <5>1 DEF Sorted, N
        <5> QED BY <1>7, <1>9, <2>1, <3>1, <5>1, <5>2
      <4> QED BY <1>5, <1>7, <4>1
    <3>3. m = N
      BY <1>5, <1>7, <3>2
    <3>4. closed' = Front(l) /\ open' = open
      BY <1>6, <2>1
    <3>5. l # <<>>
      BY <2>1, EmptyToSet
    <3>6. /\ Front(l) \in Seq(SegmentType) /\ Len(Front(l)) = m - 1
          /\ \A j \in 1..m - 1 : Front(l)[j] = l[j]
      BY <1>5, <3>5, FrontIs
    <3>7. Front(l) = closed
      <4>1. Len(Front(l)) = Len(closed) /\ m - 1 = Len(closed)
        BY <1>8, <1>9, <2>1, <3>3, <3>6
      <4>2. \A j \in 1..Len(closed) : Front(l)[j] = closed[j]
        <5> SUFFICES ASSUME NEW j \in 1..Len(closed) PROVE Front(l)[j] = closed[j]
          OBVIOUS
        <5>1. j \in 1..m - 1 /\ j \in 1..m /\ j \in 1..Len(closed) + Len(open) /\ j <= Len(closed)
          <6>1. /\ Len(closed) \in Nat /\ Len(open) \in Nat /\ m - 1 = Len(closed) /\ m \in Int
                /\ j \in 1..Len(closed)
            BY <1>5, <1>7, <1>8, <4>1
          <6> DEFINE a == Len(closed)
                     b == Len(open)
          <6>2. a \in Nat /\ b \in Nat /\ m - 1 = a /\ m \in Int /\ j \in 1..a
            BY <6>1
          <6> HIDE DEF a, b
          <6>3. j \in 1..m - 1 /\ j \in 1..m /\ j \in 1..a + b /\ j <= a
            BY <6>2
          <6> QED BY <6>3 DEF a, b
        <5> QED BY <1>5, <1>8, <3>6, <5>1
      <4> QED BY <1>8, <3>6, <4>1, <4>2, SeqEqual
    <3>8. Sorted(closed)
      BY <1>3 DEF ExtentOK
    <3> QED BY <1>7, <1>8, <3>3, <3>4, <3>7, <3>8
  <2>2. CASE ~(open # <<>> /\ open[1] \in ToSet(l))
    <3>1. closed' = l /\ open' = <<>>
      BY <1>6, <2>2
    <3>2. \A s \in ToSet(open) : s \notin ToSet(l)
      BY <1>9, <2>2, EmptyToSet
    <3>3. ToSet(l) \subseteq ToSet(closed)
      <4>1. ToSet(l) \subseteq segments
        BY <1>5, <1>7, <1>10
      <4> QED BY <1>8, <3>2, <4>1
    <3>4. <<>> \in Seq(SegmentType) /\ Len(<<>>) = 0
      OBVIOUS
    <3> QED BY <1>5, <1>10, <1>11, <3>1, <3>2, <3>3, <3>4, EmptyToSet
  <2> QED BY <2>1, <2>2
<1>13. /\ segments' = {all[i] : i \in 1..m} /\ segments' \in SUBSET segments
       /\ \A s \in segments' : c /\ s.first <= k
       /\ c => segments' = {s \in segments : s.first <= k} /\ segments' # {}
  <2>1. segments' = {all[i] : i \in 1..m}
    BY <1>12, MemoryNext
  <2>2. \A i \in 1..m : i \in 1..N
    BY <1>5, <1>7
  <2>3. c => segments' # {}
    <3>1. c => 1 \in 1..m
      BY <1>5, <1>7
    <3> QED BY <2>1, <3>1
  <2>4. ASSUME c, NEW s \in segments, s.first <= k PROVE s \in segments'
    <3>1. PICK i \in 1..N : s = all[i]
      BY <1>7, <2>4
    <3>2. i \notin m + 1..N
      <4>1. k \in Int
        OBVIOUS
      <4> QED BY <1>5, <1>7, <2>4, <3>1, <4>1
    <3>3. i \in 1..m
      BY <1>5, <1>7, <3>1, <3>2
    <3> QED BY <2>1, <3>1, <3>3
  <2> QED BY <1>5, <1>7, <2>1, <2>2, <2>3, <2>4
<1>14. /\ op'.of = "suffix" /\ op'.pc = "unlink" /\ op'.k = k /\ op'.cut = c /\ op'.left = u
       /\ ~op'.renamed /\ op' \in OpType(Seq(SegmentType)) /\ Leaving' = ToSet(u)
  <2>1. k \in Nat
    BY <1>3, SegmentStorageAssumption DEF TypeInv
  <2>2. op'.of = "suffix" /\ op'.pc = "unlink" /\ op'.k = k /\ op'.cut = c /\ op'.left = u
        /\ ~op'.renamed /\ op' \in OpType(Seq(SegmentType))
    BY <1>5, <1>6, <2>1 DEF Idle, OpType
  <2> QED BY <2>2 DEF Leaving
<1>15. /\ Leaving' \in SUBSET segments /\ segments = segments' \union Leaving'
       /\ \A s \in Leaving' : c => s.first > k
  <2>1. ToSet(u) = {u[i] : i \in 1..N - m}
    BY <1>5, ElementsOf
  <2>2. \A i \in 1..N - m : N + 1 - i \in m + 1..N /\ N + 1 - i \in 1..N
    BY <1>5, <1>7
  <2>3. \A j \in m + 1..N : N + 1 - j \in 1..N - m /\ N + 1 - (N + 1 - j) = j
    BY <1>5, <1>7
  <2>4. \A j \in 1..N : j \in 1..m \/ j \in m + 1..N
    BY <1>5, <1>7
  <2>5. \A s \in Leaving' : s \in segments /\ (c => s.first > k)
    <3> SUFFICES ASSUME NEW s \in Leaving' PROVE s \in segments /\ (c => s.first > k)
      OBVIOUS
    <3>1. PICK i \in 1..N - m : s = u[i]
      BY <1>14, <2>1
    <3>2. s = all[N + 1 - i] /\ N + 1 - i \in m + 1..N /\ N + 1 - i \in 1..N
      BY <1>5, <2>2, <3>1
    <3> QED BY <1>5, <1>7, <3>2
  <2>6. ASSUME NEW s \in segments PROVE s \in segments' \/ s \in Leaving'
    <3>1. PICK j \in 1..N : s = all[j]
      BY <1>7
    <3>2. CASE j \in 1..m
      BY <1>13, <3>1, <3>2
    <3>3. CASE j \in m + 1..N
      <4>1. s = u[N + 1 - j] /\ N + 1 - j \in 1..N - m
        BY <1>5, <2>3, <3>1, <3>3
      <4> QED BY <1>14, <2>1, <4>1
    <3> QED BY <2>4, <3>2, <3>3
  <2> QED BY <1>13, <2>5, <2>6
<1>16. first \in Nat \ {0} /\ last \in Nat /\ k \in Nat /\ k < last /\ last <= MaxIndex /\ k >= first - 1
       /\ MaxIndex \in Nat
  <2>1. first \in Nat \ {0} /\ last \in Nat /\ last <= MaxIndex /\ MaxIndex \in Nat
    BY <1>3, SegmentStorageAssumption DEF TypeInv
  <2> QED BY <2>1
<1>17. TypeInv'
  <2>1. \A s \in segments' : s.first <= MaxIndex + 1
    BY <1>3, <1>13 DEF TypeInv
  <2>2. last' \in 0..MaxIndex /\ last' >= first' - 1
    BY <1>6, <1>16
  <2> QED BY <1>2, <1>3, <1>6, <1>12, <1>14, <2>1, <2>2 DEF TypeInv
<1>18. NamesOK' /\ FilesOK'
  BY <1>2, <1>3, DiskSame
<1>19. ExtentOK'
  <2>1. Tiled(segments', first)
    <3>1. CASE c
      <4>1. \A s \in segments, t \in segments' : s.first < t.first => s \in segments'
        <5> SUFFICES ASSUME NEW s \in segments, NEW t \in segments', s.first < t.first
                     PROVE  s \in segments'
          OBVIOUS
        <5>1. t.first <= k /\ s.first \in Nat /\ t.first \in Nat
          BY <1>7, <1>13 DEF SegmentType
        <5> QED BY <1>13, <1>16, <3>1, <5>1
      <4>2. Tiled(segments, first)
        BY <1>3 DEF ExtentOK
      <4> QED BY <1>13, <4>1, <4>2, TiledBelow
    <3>2. CASE ~c
      <4>1. segments' = {}
        BY <1>13, <3>2
      <4> QED BY <4>1, TiledNone
    <3> QED BY <3>1, <3>2
  <2>2. segments' = {} => last' = first' - 1
    BY <1>5, <1>6, <1>13
  <2>3. ASSUME NEW s \in segments', Top(s, segments') PROVE last' <= LastOf(s)
    <3>1. c /\ first <= k /\ s \in segments
      BY <1>5, <1>13
    <3>2. segments # {} /\ LastSegment \in segments /\ LastOf(LastSegment) = last
      <4>1. ~(op.of = "suffix" /\ op.cut)
        BY <1>3
      <4> QED BY <1>2, <1>3, <3>1, <4>1, Ends
    <3>3. PICK t \in segments : t.first <= k /\ k <= LastOf(t)
      <4>1. LastOf(LastSegment) >= k /\ Tiled(segments, first)
        BY <1>3, <1>16, <3>2 DEF ExtentOK
      <4> QED BY <1>8, <1>16, <3>1, <3>2, <4>1, Covers
    <3>4. t \in segments' /\ t.first <= s.first /\ s.first <= k
      BY <1>13, <2>3, <3>1, <3>3 DEF Top
    <3>5. LastOf(t) \in Nat /\ t.first \in Nat /\ s.first \in Nat /\ LastOf(s) \in Nat
      BY <1>8, <3>1, <3>3, LastOfIs DEF Pieces
    <3>6. ~(t.first < s.first)
      <4> SUFFICES ASSUME t.first < s.first PROVE FALSE
        OBVIOUS
      <4>1. LastOf(t) < s.first
        BY <1>3, <3>1, <3>3 DEF ExtentOK, Tiled
      <4> QED BY <1>16, <3>3, <3>4, <3>5, <4>1
    <3>7. t = s
      BY <1>3, <3>1, <3>3, <3>4, <3>5, <3>6, InOrder
    <3> QED BY <1>6, <3>3, <3>7
  <2>4. \A s \in ToSet(closed') : s.terms # <<>>
    BY <1>3, <1>12 DEF ExtentOK
  <2>5. \A s \in ToSet(closed'), t \in ToSet(open') : s.first < t.first
    BY <1>3, <1>12 DEF ExtentOK
  <2>6. \A s \in segments' : LastOf(s) >= first' \/ s.terms = <<>>
    BY <1>2, <1>3, <1>6, <1>13 DEF ExtentOK
  <2>7. \A s \in segments' : op'.of = "suffix" /\ op'.cut
    BY <1>13, <1>14
  <2> QED BY <1>6, <1>12, <2>1, <2>2, <2>3, <2>4, <2>5, <2>6, <2>7 DEF ExtentOK
<1>20. HeldOK'
  BY <1>2, <1>3, <1>13 DEF HeldOK, HasFile
<1>21. OpOK'
  <2>1. \A i, j \in 1..Len(u) : i < j => u[i].first > u[j].first
    <3> SUFFICES ASSUME NEW i \in 1..Len(u), NEW j \in 1..Len(u), i < j
                 PROVE  u[i].first > u[j].first
      OBVIOUS
    <3>1. /\ i \in 1..N - m /\ j \in 1..N - m
          /\ N + 1 - i \in 1..N /\ N + 1 - j \in 1..N /\ N + 1 - j < N + 1 - i
      BY <1>5, <1>7
    <3>2. all[N + 1 - j].first < all[N + 1 - i].first
      BY <1>7, <3>1 DEF Sorted, N
    <3>3. all[N + 1 - j].first \in Nat /\ all[N + 1 - i].first \in Nat
      BY <1>7, <3>1
    <3>4. u[i] = all[N + 1 - i] /\ u[j] = all[N + 1 - j]
      BY <1>5, <3>1
    <3> QED BY <3>2, <3>3, <3>4
  <2>2. \A i, j \in 1..Len(u) : i # j => u[i].first # u[j].first
    <3> SUFFICES ASSUME NEW i \in 1..Len(u), NEW j \in 1..Len(u), i # j PROVE u[i].first # u[j].first
      OBVIOUS
    <3>1. u[i].first \in Nat /\ u[j].first \in Nat
      <4>1. u[i] \in SegmentType /\ u[j] \in SegmentType
        BY <1>5, ElementOfSeq
      <4> QED BY <4>1 DEF SegmentType
    <3>2. i < j \/ j < i
      OBVIOUS
    <3> QED BY <2>1, <3>1, <3>2
  <2>3. \A s \in segments', t \in Leaving' : s.first < t.first
    <3> SUFFICES ASSUME NEW s \in segments', NEW t \in Leaving' PROVE s.first < t.first
      OBVIOUS
    <3>1. s.first <= k /\ t.first > k /\ s.first \in Nat /\ t.first \in Nat
      BY <1>7, <1>13, <1>15 DEF SegmentType
    <3> QED BY <1>16, <3>1
  <2>4. SuffixOK'
    BY <1>2, <1>3, <1>5, <1>6, <1>13, <1>14, <2>1, <2>3 DEF SuffixOK
  <2> QED BY <1>14, <2>2, <2>4 DEF OpOK
<1>22. OwnedOK'
  <2>1. Live' = ToSet(open')
    BY <1>14 DEF Live
  <2>2. \A s \in Leaving' : HasFile(s)'
    BY <1>2, <1>3, <1>15 DEF HeldOK, HasFile
  <2>3. \A f \in files' : Needed(f)' => \E s \in segments' \union Leaving' : s.first = f.first
    BY <1>2, <1>3, <1>15 DEF OwnedOK, Needed
  <2>4. \A s \in segments', t \in Leaving' : s.first # t.first
    <3> SUFFICES ASSUME NEW s \in segments', NEW t \in Leaving' PROVE s.first # t.first
      OBVIOUS
    <3>1. s.first <= k /\ t.first > k /\ s.first \in Nat /\ t.first \in Nat
      BY <1>7, <1>13, <1>15 DEF SegmentType
    <3> QED BY <1>16, <3>1
  <2>5. \A s \in segments' \ Live' : s \in segments \ Live
    <3>1. segments' = ToSet(l)
      BY <1>10, <1>13
    <3> QED BY <1>3, <1>12, <1>13, <2>1, <3>1
  <2>6. \A f \in files' : /\ \A s \in Live' : s.first = f.first => f.last = 0
                          /\ \A s \in segments' \ Live' : s.first = f.first => f.last # 0
    BY <1>2, <1>3, <1>12, <2>1, <2>5 DEF OwnedOK
  <2> QED BY <2>2, <2>3, <2>4, <2>6 DEF OwnedOK
<1>23. NameInv'
  BY <1>2, <1>3, <1>15, NamesSame DEF IInv
<1> QED BY <1>2, <1>17, <1>18, <1>19, <1>20, <1>21, <1>22, <1>23, SMTT(30) DEF IInv, MemoryInv, StepInv, FineInv, DiskInv

-----------------------------------------------------------------------------
(* truncate_suffix cuts the last segment that stays; reset.                *)

LEMMA MinOfTwo ==
    ASSUME NEW a \in Nat, NEW b \in Nat
    PROVE  Min({a, b}) \in Nat /\ Min({a, b}) <= a /\ Min({a, b}) <= b
<1>1. \E x \in {a, b} : \A y \in {a, b} : x <= y
  OBVIOUS
<1> QED BY <1>1 DEF Min

LEMMA SortedFront ==
    ASSUME NEW q \in Seq(SegmentType), Sorted(q), q # <<>>
    PROVE  /\ Sorted(Front(q)) /\ \A s \in ToSet(Front(q)) : s.first < Last(q).first
           /\ Front(q) \in Seq(SegmentType)
           /\ ToSet(q) = ToSet(Front(q)) \union {Last(q)}
<1> DEFINE c == Front(q)
<1>1. /\ c \in Seq(SegmentType) /\ Len(c) = Len(q) - 1 /\ \A i \in 1..Len(q) - 1 : c[i] = q[i]
      /\ ToSet(q) = ToSet(c) \union {Last(q)}
  BY FrontIs
<1>2. Last(q) = q[Len(q)] /\ Len(q) \in 1..Len(q) /\ Len(q) \in Nat
  BY ElementsOf
<1> HIDE DEF c
<1>3. 1..Len(q) - 1 \subseteq 1..Len(q) /\ \A i \in 1..Len(q) - 1 : i < Len(q)
  BY <1>2
<1>4. Sorted(c)
  BY <1>1, <1>3 DEF Sorted
<1>5. ASSUME NEW s \in ToSet(c) PROVE s.first < Last(q).first
  <2>1. PICK i \in 1..Len(c) : s = c[i]
    BY <1>1, ElementsOf
  <2> QED BY <1>1, <1>2, <1>3, <2>1 DEF Sorted
<1> QED BY <1>1, <1>4, <1>5 DEF c

\* What the steps that cut a file start from.
LEMMA InCut ==
    ASSUME IInv, up, op.pc \in {"rename", "ftruncate"}
    PROVE  LET s == LastSegment
               f == File(s)
           IN  /\ ~broken /\ OpOK /\ OwnedOK /\ TypeInv /\ NamesOK /\ FilesOK /\ ExtentOK /\ HeldOK
               /\ OpenOK /\ ApartOK /\ OnDisk(s)
               /\ op.of = "suffix" /\ op.cut /\ op.left = <<>> /\ Leaving = {} /\ SuffixOK
               /\ meta = first /\ op \in OpType(Seq(SegmentType))
               /\ s \in segments /\ s \in SegmentType /\ Top(s, segments)
               /\ s = (IF open = <<>> THEN Last(closed) ELSE open[1]) /\ (open = <<>> => closed # <<>>)
               /\ last = op.k /\ first <= op.k /\ s.first <= op.k /\ op.k <= LastOf(s)
               /\ f \in NeededFiles /\ f \in files /\ f \in FileType /\ NameOK(f) /\ f.tail # "corrupt"
               /\ f.first = s.first /\ f.terms = s.terms /\ f.synced <= Len(f.terms)
               /\ LastOf(f) <= MaxIndex
               /\ \A h \in NeededFiles : h.first <= f.first
               /\ op.k \in Nat /\ op.k <= MaxIndex /\ first \in Nat
<1> DEFINE s == LastSegment
           f == File(s)
<1>1. /\ ~broken /\ OpOK /\ OwnedOK /\ OpenOK /\ ApartOK /\ op.of = "suffix" /\ op.cut /\ TypeInv
  BY AtStep DEF IInv
<1>2. /\ NamesOK /\ FilesOK /\ ExtentOK /\ HeldOK /\ op \in OpType(Seq(SegmentType)) /\ SuffixOK
  BY <1>1 DEF IInv, DiskInv, MemoryInv, TypeInv, OpOK, Resetting
<1>3. op.left = <<>> /\ Leaving = {} /\ meta = first
  BY <1>1, <1>2, EmptyToSet DEF SuffixOK, Leaving
<1>4. segments # {} /\ last = op.k /\ first <= op.k /\ \A t \in segments : t.first <= op.k
  BY <1>1, <1>2 DEF SuffixOK
<1>5. /\ s \in segments /\ Top(s, segments) /\ s \in SegmentType /\ (open = <<>> => closed # <<>>)
      /\ s = IF open = <<>> THEN Last(closed) ELSE open[1]
  BY <1>1, <1>2, <1>4, InOrder, Memory DEF Top
<1> HIDE DEF s
<1>6. s.first <= op.k /\ op.k <= LastOf(s) /\ op.k \in Nat /\ first \in Nat /\ op.k <= MaxIndex
  BY <1>1, <1>2, <1>4, <1>5, SegmentStorageAssumption DEF ExtentOK, TypeInv
<1>7. LastOf(s) >= meta
  BY <1>3, <1>4, <1>5, <1>6, LastOfIs, SegmentIsPiece
<1>8. /\ f \in files /\ f.first = s.first /\ f.terms = s.terms /\ f \in FileType /\ NameOK(f)
      /\ f.synced <= Len(f.terms) /\ f.tail # "corrupt" /\ f \in NeededFiles
  BY <1>1, <1>2, <1>5, <1>7, FileOf
<1>11. OnDisk(s)
  BY <1>1, <1>2, <1>5, TheFile DEF HeldOK, OpenOK
<1>9. \A h \in NeededFiles : h.first <= f.first
  BY <1>1, <1>3, <1>5, <1>8 DEF OwnedOK, NeededFiles, Top
<1>10. LastOf(f) <= MaxIndex
  BY <1>1, <1>8 DEF TypeInv
<1> QED BY <1>1, <1>2, <1>3, <1>4, <1>5, <1>6, <1>8, <1>9, <1>10, <1>11 DEF s

\* An operation fails and leaves everything as it is.
LEMMA FailedKeeps ==
    ASSUME TypeInv, NamesOK, FilesOK, ApartOK, ExtentOK, HeldOK, FineInv, up, Fails,
           UNCHANGED <<up, files, meta, first, last, closed, open, refused, bad>>
    PROVE  IInv'
<1>1. /\ op' = Idle /\ broken' = TRUE /\ faults' = faults + 1
      /\ op'.of = "none" /\ op' \in OpType(Seq(SegmentType))
  BY FailedIs
<1>2. ExtentOK' /\ HeldOK' /\ segments' = segments
  BY <1>1, ExtentSame, HeldSame
<1>3. NamesOK' /\ FilesOK'
  BY DiskSame
<1>4. TypeInv'
  BY <1>1, <1>2 DEF TypeInv
<1>5. NameInv'
  BY <1>1 DEF NameInv, ApartOK
<1> QED BY <1>1, <1>2, <1>3, <1>4, <1>5 DEF IInv, MemoryInv, StepInv, FineInv, DiskInv

LEMMA StepOfRename == IInv /\ rename => IInv'
<1> SUFFICES ASSUME IInv, rename PROVE IInv'
  OBVIOUS
<1>1. PICK s, f, g : s = LastSegment /\ f = File(s) /\ g = NameToCut(f)
  OBVIOUS
<1>2. /\ up /\ op.pc = "rename" /\ UNCHANGED <<up, meta, first, last, closed, open, refused, bad>>
  BY DEF rename, memory
<1>3. /\ ~broken /\ OpOK /\ OwnedOK /\ TypeInv /\ NamesOK /\ FilesOK /\ ExtentOK /\ HeldOK
      /\ OpenOK /\ ApartOK /\ OnDisk(s)
      /\ op.of = "suffix" /\ op.cut /\ op.left = <<>> /\ Leaving = {} /\ SuffixOK
      /\ meta = first /\ op \in OpType(Seq(SegmentType))
      /\ s \in segments /\ s = (IF open = <<>> THEN Last(closed) ELSE open[1])
      /\ f \in NeededFiles /\ f \in files /\ f \in FileType /\ f.tail # "corrupt"
      /\ f.first = s.first /\ f.terms = s.terms /\ f.synced <= Len(f.terms) /\ LastOf(f) <= MaxIndex
      /\ \A h \in NeededFiles : h.first <= f.first
  BY <1>1, <1>2, InCut
<1>4. open = <<>> /\ s = Last(closed)
  BY <1>2, <1>3 DEF SuffixOK
<1>5. ASSUME Fails, files' = files PROVE IInv'
  BY <1>2, <1>3, <1>5, FailedKeeps DEF IInv
<1>6. ASSUME files' = Put(f, g), op' = [op EXCEPT !.pc = "ftruncate", !.renamed = TRUE],
             is_open' = is_open \union {s.first}, UNCHANGED <<broken, faults>>
      PROVE  IInv'
  <2>1. /\ g \in FileType /\ g.first = f.first /\ g.terms = f.terms /\ g.last = 0
        /\ g.synced = f.synced /\ g.tail = f.tail /\ LastOf(g) = LastOf(f)
    BY <1>1, <1>3 DEF NameToCut, FileType, LastOf
  <2>2. NameOK(g) /\ Needed(g)
    BY <1>3, <2>1 DEF NameOK, Needed
  <2>3. /\ files' \in SUBSET FileType /\ IsFiniteSet(files') /\ NamesOK' /\ FilesOK' /\ ApartOK'
        /\ \A h \in files' : h.synced <= Len(h.terms) /\ h.first <= MaxIndex + 1
                             /\ LastOf(h) <= MaxIndex
        /\ g \in files' /\ \A h \in files' : h = g \/ (h \in files /\ h.first # g.first)
        /\ \A x : x.first # g.first /\ HasFile(x) => HasFile(x)'
        /\ \A x : x.first = g.first /\ x.terms = g.terms => HasFile(x)'
        /\ \A h \in files' : h.tail # "corrupt"
    BY <1>2, <1>3, <1>6, <2>1, <2>2, PutKeeps
  <2>4. /\ op' \in OpType(Seq(SegmentType)) /\ op'.of = "suffix" /\ op'.pc = "ftruncate"
        /\ op'.left = <<>> /\ op'.k = op.k /\ op'.cut = op.cut /\ op'.renamed
    BY <1>3, <1>6 DEF OpType
  <2>5. ExtentOK' /\ segments' = segments
    BY <1>2, <1>3, <1>6, <2>4, ExtentSame
  <2>6. \A x : HasFile(x) /\ x \in segments => HasFile(x)'
    <3>1. \A x \in segments : x.first = s.first => x = s
      BY <1>3, InOrder
    <3> QED BY <1>3, <2>1, <2>3, <3>1
  <2>7. TypeInv'
    BY <1>2, <1>3, <1>6, <2>3, <2>4, <2>5 DEF TypeInv
  <2>8. HeldOK'
    BY <1>3, <2>3, <2>5, <2>6 DEF HeldOK
  <2>9. Leaving' = {} /\ Live' = {s} /\ Live = {}
    <3>1. Leaving' = {}
      BY <2>4, EmptyToSet DEF Leaving
    <3>2. Live' = {s}
      BY <1>2, <1>4, <2>4 DEF Live
    <3>3. Live = {}
      BY <1>2, <1>4, EmptyToSet DEF Live
    <3> QED BY <3>1, <3>2, <3>3
  <2>10. OpOK'
    <3>1. SuffixOK'
      BY <1>2, <1>3, <1>4, <2>4, <2>5, <2>9 DEF SuffixOK
    <3>2. Len(op'.left) = 0
      BY <2>4
    <3> QED BY <2>4, <3>1, <3>2 DEF OpOK
  <2>11. OwnedOK'
    <3>1. \A h \in files' : Needed(h)' => \E x \in segments' \union Leaving' : x.first = h.first
      BY <1>2, <1>3, <2>1, <2>3, <2>5, <2>9 DEF OwnedOK, Needed
    <3>2. ASSUME NEW h \in files' PROVE \A x \in Live' : x.first = h.first => h.last = 0
      BY <1>3, <2>1, <2>3, <2>9
    <3>3. ASSUME NEW h \in files', NEW x \in segments' \ Live', x.first = h.first PROVE h.last # 0
      <4>1. x \in segments /\ x # s
        BY <2>5, <2>9
      <4>2. h # g
        BY <1>3, <2>1, <3>3, <4>1, InOrder
      <4>3. h \in files
        BY <2>3, <4>2
      <4> QED BY <1>3, <2>9, <3>3, <4>1, <4>3 DEF OwnedOK
    <3> QED BY <2>9, <3>1, <3>2, <3>3 DEF OwnedOK
  <2>12. NameInv'
    <3> SUFFICES ASSUME NEW x \in segments, NEW h \in files', h.first = x.first
                 PROVE  h.last = 0 <=> x.first \in is_open \union {s.first}
      BY <1>6, <2>3, <2>5, <2>9 DEF NameInv, OpenOK, Knows, IsOpen
    <3> QED BY <1>3, <2>1, <2>3 DEF OpenOK, Knows, IsOpen
  <2> QED BY <1>2, <1>3, <1>6, <2>3, <2>5, <2>7, <2>8, <2>10, <2>11, <2>12
          DEF IInv, MemoryInv, StepInv, FineInv, DiskInv
<1> QED BY <1>1, <1>3, <1>5, <1>6 DEF rename, Succeeds, FaultAt, Fails

LEMMA StepOfFtruncate == IInv /\ ftruncate => IInv'
<1> SUFFICES ASSUME IInv, ftruncate PROVE IInv'
  OBVIOUS
<1>1. PICK s, f, g, s1, n :
         /\ s = LastSegment /\ f = File(s) /\ g = Cut(f, op.k)
         /\ s1 = [s EXCEPT !.terms = SubSeq(@, 1, op.k - s.first + 1)] /\ n = op.k - s.first + 1
  OBVIOUS
<1>2. /\ up /\ op.pc = "ftruncate" /\ UNCHANGED <<up, meta, first, last, is_open, refused>>
  BY DEF ftruncate
<1>3. /\ ~broken /\ OpOK /\ OwnedOK /\ TypeInv /\ NamesOK /\ FilesOK /\ ExtentOK /\ HeldOK
      /\ OpenOK /\ ApartOK /\ OnDisk(s)
      /\ op.of = "suffix" /\ op.cut /\ op.left = <<>> /\ Leaving = {} /\ SuffixOK
      /\ meta = first /\ op \in OpType(Seq(SegmentType))
      /\ s \in segments /\ s \in SegmentType /\ Top(s, segments)
      /\ s = (IF open = <<>> THEN Last(closed) ELSE open[1]) /\ (open = <<>> => closed # <<>>)
      /\ last = op.k /\ first <= op.k /\ s.first <= op.k /\ op.k <= LastOf(s)
      /\ f \in NeededFiles /\ f \in files /\ f \in FileType /\ f.tail # "corrupt"
      /\ f.first = s.first /\ f.terms = s.terms /\ f.synced <= Len(f.terms)
      /\ \A h \in NeededFiles : h.first <= f.first
      /\ op.k \in Nat /\ op.k <= MaxIndex /\ first \in Nat
  BY <1>1, <1>2, InCut
<1>4. ASSUME Fails, UNCHANGED <<files, open, closed, bad>> PROVE IInv'
  BY <1>2, <1>3, <1>4, FailedKeeps DEF IInv
<1>5. /\ closed \in Seq(SegmentType) /\ open \in Seq(SegmentType) /\ Len(open) <= 1
      /\ segments = ToSet(closed) \union ToSet(open) /\ segments \in SUBSET SegmentType
      /\ Pieces(segments) /\ \A x, y \in segments : x.first = y.first => x = y
  BY <1>3, Memory, InOrder
<1>6. /\ s1 \in SegmentType /\ s1.first = s.first /\ LastOf(s1) = op.k /\ s1.terms # <<>>
      /\ s1.terms = SubSeq(s.terms, 1, n) /\ Len(s1.terms) = n /\ n \in Nat \ {0}
      /\ s1.terms \in Seq(Terms)
  <2>1. s.terms \in Seq(Terms) /\ s.first \in Nat \ {0}
    BY <1>3 DEF SegmentType
  <2>2. n \in 1..Len(s.terms) /\ Len(s.terms) \in Nat
    <3>1. Len(s.terms) \in Nat
      BY <2>1, LenProperties
    <3>2. LastOf(s) = s.first + Len(s.terms) - 1
      BY DEF LastOf
    <3> QED BY <1>1, <1>3, <2>1, <3>1, <3>2, SMTT(30)
  <2>3. SubSeq(s.terms, 1, n) \in Seq(Terms) /\ Len(SubSeq(s.terms, 1, n)) = n - 1 + 1
    <3>1. n \in 0..Len(s.terms) /\ 1 \in 1..Len(s.terms) + 1 /\ 1 <= n + 1
      BY <2>2
    <3> QED BY <2>1, <3>1, PartOf
  <2>4. s1 \in SegmentType /\ s1.first = s.first /\ s1.terms = SubSeq(s.terms, 1, n)
    BY <1>1, <1>3, <2>3 DEF SegmentType
  <2>5. Len(s1.terms) = n /\ LastOf(s1) = s.first + n - 1
    BY <2>2, <2>3, <2>4 DEF LastOf
  <2>6. LastOf(s1) = op.k
    BY <1>1, <1>3, <2>1, <2>5
  <2>7. s1.terms # <<>>
    BY <2>2, <2>3, <2>4, <2>5, ElementsOf
  <2> QED BY <2>2, <2>3, <2>4, <2>5, <2>6, <2>7
<1>7. s \in Live /\ Live = {s}
  <2>1. CASE open = <<>>
    BY <1>2, <1>3, <2>1 DEF Live
  <2>2. CASE open # <<>>
    <3>1. ToSet(open) = {open[1]}
      BY <1>5, <2>2, AtMostOne
    <3> QED BY <1>2, <1>3, <2>2, <3>1 DEF Live
  <2> QED BY <2>1, <2>2
<1>8. f.last = 0
  BY <1>3, <1>7 DEF OwnedOK
<1>9. /\ g \in FileType /\ g.first = s.first /\ g.terms = s1.terms /\ g.last = 0
      /\ g.tail # "corrupt" /\ g.synced <= Len(g.terms) /\ LastOf(g) <= MaxIndex
      /\ NameOK(g) /\ Needed(g)
  <2>1. f.synced \in Nat /\ op.k - f.first + 1 = n
    BY <1>1, <1>3 DEF FileType
  <2>2. Min({f.synced, n}) \in Nat /\ Min({f.synced, n}) <= n
    BY <1>6, <2>1, MinOfTwo
  <2>3. g = [f EXCEPT !.terms = SubSeq(f.terms, 1, n), !.synced = Min({f.synced, n}), !.tail = "none"]
    BY <1>1, <2>1 DEF Cut
  <2>4. /\ g.first = s.first /\ g.terms = s1.terms /\ g.last = 0 /\ g.tail = "none"
        /\ g.synced = Min({f.synced, n}) /\ g \in FileType
    BY <1>3, <1>6, <1>8, <2>2, <2>3 DEF FileType
  <2>5. LastOf(g) = LastOf(s1)
    BY <1>6, <2>4 DEF LastOf
  <2> QED BY <1>3, <1>6, <2>2, <2>4, <2>5 DEF NameOK, Needed
<1>10. ASSUME files' = Put(f, g), open' = <<s1>>,
              closed' = IF open = <<>> THEN Front(closed) ELSE closed,
              op' = Idle, UNCHANGED <<broken, faults, bad>>
       PROVE  IInv'
  <2>1. /\ files' \in SUBSET FileType /\ IsFiniteSet(files') /\ NamesOK' /\ FilesOK'
        /\ \A h \in files' : h.synced <= Len(h.terms) /\ h.first <= MaxIndex + 1
                             /\ LastOf(h) <= MaxIndex
        /\ g \in files' /\ \A h \in files' : h = g \/ (h \in files /\ h.first # g.first)
        /\ \A x : x.first # g.first /\ HasFile(x) => HasFile(x)'
        /\ \A x : x.first = g.first /\ x.terms = g.terms => HasFile(x)'
        /\ \A h \in files' : h.tail # "corrupt"
    BY <1>2, <1>3, <1>9, <1>10, PutKeeps
  <2>2. op'.of = "none" /\ op' \in OpType(Seq(SegmentType)) /\ op'.pc = "idle" /\ op'.left = <<>>
        /\ ToSet(op'.left) = {} /\ Len(op'.left) = 0
    BY <1>10, IdleIs
  <2>3. open' \in Seq(SegmentType) /\ Len(open') <= 1 /\ ToSet(open') = {s1}
    BY <1>6, <1>10, Singleton
  <2>4. /\ closed' \in Seq(SegmentType) /\ Sorted(closed') /\ ToSet(closed') \subseteq ToSet(closed)
        /\ \A x \in ToSet(closed') : x.first < s.first
        /\ segments = ToSet(closed') \union {s}
    <3>1. CASE open = <<>>
      <4>1. segments = ToSet(closed)
        BY <1>5, <3>1, EmptyToSet
      <4> QED BY <1>3, <1>5, <1>10, <3>1, <4>1, SortedFront DEF ExtentOK
    <3>2. CASE open # <<>>
      <4>1. ToSet(open) = {s}
        BY <1>3, <1>5, <3>2, AtMostOne
      <4> QED BY <1>3, <1>5, <1>10, <3>2, <4>1 DEF ExtentOK
    <3> QED BY <3>1, <3>2
  <2>5. \A x \in ToSet(closed') : x.first # s.first
    <3> SUFFICES ASSUME NEW x \in ToSet(closed') PROVE x.first # s.first
      OBVIOUS
    <3>1. x.first \in Nat /\ s.first \in Nat /\ x.first < s.first
      BY <1>3, <1>5, <2>4 DEF SegmentType
    <3> QED BY <3>1
  <2>6. segments' = ToSet(closed') \union {s1}
    BY <2>3, <2>4, MemoryNext
  <2>7. TypeInv'
    <3>1. \A x \in segments' : x.first <= MaxIndex + 1
      BY <1>3, <1>6, <2>4, <2>6 DEF TypeInv
    <3> QED BY <1>2, <1>3, <1>10, <2>1, <2>2, <2>3, <2>4, <3>1 DEF TypeInv
  <2>8. ExtentOK'
    <3>1. Tiled(segments', first)
      <4>1. Tiled(segments, first) /\ \A x \in segments : ~(s.first < x.first)
        <5>1. \A x \in segments : x.first \in Nat /\ s.first \in Nat /\ x.first <= s.first
          BY <1>3, <1>5 DEF Top, SegmentType
        <5> QED BY <1>3, <5>1 DEF ExtentOK
      <4>2. \A t \in segments' : \E x \in segments : /\ x.first = t.first
                                                     /\ x.terms = t.terms \/ \A y \in segments : ~(x.first < y.first)
        BY <1>6, <2>4, <2>6, <4>1
      <4>3. \A x \in segments : \E t \in segments' : /\ x.first = t.first
                                                     /\ x.terms = t.terms \/ \A y \in segments : ~(x.first < y.first)
        BY <1>6, <2>4, <2>6, <4>1
      <4> DEFINE A == segments
                 B == segments'
      <4> HIDE DEF A, B
      <4>4. Tiled(A, first)
        BY <4>1 DEF A
      <4>5. \A t \in B : \E x \in A : /\ x.first = t.first
                                      /\ x.terms = t.terms \/ \A y \in A : ~(x.first < y.first)
        BY <4>2 DEF A, B
      <4>6. \A x \in A : \E t \in B : /\ x.first = t.first
                                      /\ x.terms = t.terms \/ \A y \in A : ~(x.first < y.first)
        BY <4>3 DEF A, B
      <4>7. Tiled(B, first)
        BY <4>4, <4>5, <4>6, TiledLike
      <4> QED BY <4>7 DEF B
    <3>2. \A x \in ToSet(closed') : x.terms # <<>>
      BY <1>3, <2>4 DEF ExtentOK
    <3>3. \A x \in ToSet(closed'), y \in ToSet(open') : x.first < y.first
      BY <1>6, <2>3, <2>4
    <3>4. ASSUME NEW x \in segments', Top(x, segments') PROVE x = s1
      <4>1. s1.first <= x.first
        BY <2>6, <3>4 DEF Top
      <4>2. x \in ToSet(closed') => x.first \in Nat /\ s.first \in Nat /\ x.first < s.first
        BY <1>3, <1>5, <2>4 DEF SegmentType
      <4> QED BY <1>6, <2>6, <4>1, <4>2
    <3>5. \A x \in segments' : LastOf(x) >= first \/ x.terms = <<>>
      BY <1>3, <1>6, <2>4, <2>6 DEF ExtentOK
    <3>6. last <= LastOf(s1) /\ last = LastOf(s1)
      BY <1>3, <1>6
    <3> QED BY <1>2, <2>3, <2>4, <2>6, <3>1, <3>2, <3>3, <3>4, <3>5, <3>6 DEF ExtentOK
  <2>9. HeldOK'
    <3>1. HasFile(s1)'
      BY <1>6, <1>9, <2>1
    <3>2. \A x \in ToSet(closed') : HasFile(x)'
      BY <1>3, <1>9, <2>1, <2>4, <2>5 DEF HeldOK
    <3> QED BY <2>1, <2>6, <3>1, <3>2 DEF HeldOK
  <2>10. OpOK'
    BY <1>2, <1>3, <1>10, <2>2 DEF OpOK
  <2>11. OwnedOK'
    <3>1. Leaving' = {} /\ Live' = {s1}
      BY <2>2, <2>3 DEF Leaving, Live
    <3>2. \A h \in files' : Needed(h)' => \E x \in segments' \union Leaving' : x.first = h.first
      <4> SUFFICES ASSUME NEW h \in files', Needed(h)' PROVE \E x \in segments' : x.first = h.first
        OBVIOUS
      <4>1. CASE h = g
        BY <1>6, <1>9, <2>6, <4>1
      <4>2. CASE h # g
        <5>1. h \in files /\ h.first # s.first
          BY <1>9, <2>1, <4>2
        <5>2. PICK x \in segments : x.first = h.first
          BY <1>2, <1>3, <5>1 DEF OwnedOK, Needed
        <5> QED BY <2>4, <2>6, <5>1, <5>2
      <4> QED BY <4>1, <4>2
    <3>3. ASSUME NEW h \in files' PROVE \A x \in Live' : x.first = h.first => h.last = 0
      BY <1>6, <1>9, <2>1, <3>1
    <3>4. ASSUME NEW h \in files', NEW x \in segments' \ Live', x.first = h.first PROVE h.last # 0
      <4>1. x \in ToSet(closed') /\ x \in segments /\ x # s /\ x.first # s.first
        BY <2>4, <2>5, <2>6, <3>1
      <4>2. h \in files
        BY <1>9, <2>1, <3>4, <4>1
      <4> QED BY <1>3, <1>7, <3>4, <4>1, <4>2 DEF OwnedOK
    <3> QED BY <3>1, <3>2, <3>3, <3>4 DEF OwnedOK
  <2>12. NameInv'
    <3>1. Leaving' = {}
      BY <2>2 DEF Leaving
    <3>2. \A x \in segments' : \E y \in segments : y.first = x.first
      BY <1>6, <2>4, <2>6
    <3>3. \A h \in files' : \E h0 \in files : h0.first = h.first /\ h0.last = h.last
      BY <1>3, <1>8, <1>9, <2>1
    <3> QED BY <1>2, <1>3, <3>1, <3>2, <3>3, NamesLike DEF IInv
  <2> QED BY <1>2, <1>3, <1>10, <2>1, <2>7, <2>8, <2>9, <2>10, <2>11, <2>12
          DEF IInv, MemoryInv, StepInv, FineInv, DiskInv
<1>11. op.renamed <=> open = <<>>
  BY <1>2, <1>3 DEF SuffixOK
<1>12. bad \in BOOLEAN
  BY <1>3 DEF TypeInv
<1> QED BY <1>1, <1>4, <1>10, <1>11, <1>12 DEF ftruncate, Returns, Succeeds

LEMMA StepOfReset == IInv /\ BehindOK /\ reset => IInv'
<1> SUFFICES ASSUME IInv, BehindOK, reset PROVE IInv'
  OBVIOUS
<1>1. PICK k \in (first + 1)..(last + 1) :
         /\ k <= MaxIndex
         /\ first' = k /\ last' = k - 1 /\ closed' = <<>> /\ open' = <<>>
         /\ op' = [Idle EXCEPT !.of = "reset", !.pc = "meta", !.left = closed \o open, !.k = k]
  BY DEF reset, Begin
<1>2. /\ up /\ op = Idle /\ ~broken
      /\ UNCHANGED <<up, files, meta, is_open, broken, refused, faults, bad>>
  BY DEF reset, Executes, BehindOK
<1>3. /\ NamesOK /\ FilesOK /\ ExtentOK /\ HeldOK /\ OwnedOK /\ OpenOK /\ ApartOK /\ Leaving = {} /\ TypeInv
  BY <1>2, BeforeAnOperation DEF IInv
<1>4. /\ closed \o open \in Seq(SegmentType) /\ segments = ToSet(closed \o open) /\ Sorted(closed \o open)
  BY <1>3, Memory, InOrder DEF segments
<1>5. k \in 1..MaxIndex /\ k - 1 \in 0..MaxIndex /\ k - 1 >= k - 1
  <2>1. first \in Nat /\ first >= 1 /\ last \in Nat /\ MaxIndex \in Nat
    BY <1>3, SegmentStorageAssumption DEF TypeInv
  <2> QED BY <1>1, <2>1
<1>6. /\ closed' \in Seq(SegmentType) /\ open' \in Seq(SegmentType) /\ Len(open') = 0 /\ segments' = {}
      /\ ToSet(closed') = {} /\ ToSet(open') = {} /\ Len(closed') = 0
  <2>1. <<>> \in Seq(SegmentType) /\ Len(<<>>) = 0
    OBVIOUS
  <2> QED BY <1>1, <2>1, EmptyToSet, MemoryNext
<1>7. /\ op'.of = "reset" /\ op'.pc = "meta" /\ op'.k = k /\ op'.cut = FALSE
      /\ op'.left = closed \o open /\ op' \in OpType(Seq(SegmentType))
  <2> DEFINE q == closed \o open
  <2>1. q \in Seq(SegmentType) /\ op' = [Idle EXCEPT !.of = "reset", !.pc = "meta", !.left = q, !.k = k]
    BY <1>1, <1>4
  <2>2. k \in Nat
    BY <1>5
  <2> HIDE DEF q
  <2>3. /\ op'.of = "reset" /\ op'.pc = "meta" /\ op'.k = k /\ op'.cut = FALSE
        /\ op'.left = q /\ op' \in OpType(Seq(SegmentType))
    BY <2>1, <2>2 DEF Idle, OpType
  <2> QED BY <2>3 DEF q
<1>8. Leaving' = segments /\ Live' = {}
  <2>1. Leaving' = ToSet(closed \o open)
    BY <1>7 DEF Leaving
  <2>2. Live' = ToSet(open')
    BY <1>7 DEF Live
  <2> QED BY <1>4, <1>6, <2>1, <2>2
<1>9. TypeInv'
  BY <1>1, <1>2, <1>3, <1>5, <1>6, <1>7 DEF TypeInv
<1>10. NamesOK' /\ FilesOK'
  BY <1>2, <1>3, DiskSame
<1>11. ExtentOK'
  <2>1. Sorted(closed')
    BY <1>6 DEF Sorted
  <2>2. Tiled(segments', first')
    BY <1>6, TiledNone
  <2> QED BY <1>1, <1>6, <2>1, <2>2 DEF ExtentOK
<1>12. HeldOK'
  BY <1>2, <1>3, <1>6 DEF HeldOK
<1>13. OpOK'
  <2>1. ResetOpOK'
    <3>1. meta' < k
      <4>1. meta = first /\ first \in Nat
        BY <1>2, <1>3, BeforeAnOperation DEF TypeInv
      <4> QED BY <1>1, <1>2, <4>1
    <3> QED BY <1>1, <1>6, <1>7, <3>1 DEF ResetOpOK
  <2>2. \A i, j \in 1..Len(op'.left) : i # j => op'.left[i].first # op'.left[j].first
    <3> DEFINE q == closed \o open
    <3> HIDE DEF q
    <3>1. q \in Seq(SegmentType) /\ Sorted(q) /\ op'.left = q
      BY <1>4, <1>7 DEF q
    <3> QED BY <3>1, SortedPlaces
  <2> QED BY <1>7, <2>1, <2>2 DEF OpOK
<1>14. OwnedOK'
  BY <1>2, <1>3, <1>6, <1>8 DEF OwnedOK, HeldOK, HasFile, Needed
<1>15. NameInv'
  BY <1>2, <1>6, <1>8, NamesSame DEF IInv
<1> QED BY <1>2, <1>9, <1>10, <1>11, <1>12, <1>13, <1>14, <1>15 DEF IInv, MemoryInv, StepInv, FineInv, DiskInv

-----------------------------------------------------------------------------
(* The process dies, or the machine goes down.                             *)

LEMMA StepOfCrash == IInv /\ ResetOK /\ Crash => IInv'
<1> SUFFICES ASSUME IInv, ResetOK, Crash PROVE IInv'
  OBVIOUS
<1>1. /\ up /\ ~Resetting /\ faults' = faults + 1 /\ up' = FALSE /\ op' = Idle
      /\ UNCHANGED <<meta, first, last, closed, open, broken, refused, bad>>
      /\ \/ files' = files
         \/ \E s \in ToSet(open) : /\ op.pc = "open"
                                   /\ files' = Put(File(s), [File(s) EXCEPT !.tail = "torn"])
  BY DEF Crash, Fault, ResetOK, Resetting, memory
<1>2. TypeInv /\ NamesOK /\ FilesOK /\ ApartOK
  BY <1>1 DEF IInv, DiskInv, NameInv
<1>3. /\ files' \in SUBSET FileType /\ IsFiniteSet(files') /\ NamesOK' /\ FilesOK'
      /\ \A h \in files' : h.synced <= Len(h.terms) /\ h.first <= MaxIndex + 1
                           /\ LastOf(h) <= MaxIndex
      /\ \A h \in files' : \E h0 \in files : h0.first = h.first /\ h0.last = h.last
  <2>1. CASE files' = files
    BY <1>1, <1>2, <2>1, DiskSame DEF TypeInv
  <2>2. ASSUME NEW s \in ToSet(open), op.pc = "open",
               files' = Put(File(s), [File(s) EXCEPT !.tail = "torn"])
        PROVE  /\ files' \in SUBSET FileType /\ IsFiniteSet(files') /\ NamesOK' /\ FilesOK'
               /\ \A h \in files' : h.synced <= Len(h.terms) /\ h.first <= MaxIndex + 1
                                    /\ LastOf(h) <= MaxIndex
               /\ \A h \in files' : \E h0 \in files : h0.first = h.first /\ h0.last = h.last
    <3>1. PICK f, g : f = File(s) /\ g = [f EXCEPT !.tail = "torn"]
      OBVIOUS
    <3>2. HeldOK /\ OwnedOK /\ OpenOK /\ ApartOK /\ Live = ToSet(open)
      BY <1>1, <2>2, InAppend
    <3>3. s \in segments /\ s \in Live
      BY <1>2, <3>2, Memory
    <3>4. f \in FileType /\ f.last = 0 /\ f.synced <= Len(f.terms)
      BY <1>2, <3>1, <3>2, <3>3, LiveFile
    <3>5. /\ g \in FileType /\ g.first = f.first /\ g.terms = f.terms /\ g.last = 0
          /\ g.synced <= Len(g.terms) /\ g.tail # "corrupt"
      BY <3>1, <3>4 DEF FileType
    <3> QED BY <1>1, <1>2, <2>2, <3>1, <3>2, <3>3, <3>5, TouchKeeps
  <2> QED BY <1>1, <2>1, <2>2
<1>4. op'.of = "none" /\ op' \in OpType(Seq(SegmentType))
  BY <1>1, IdleIs
<1>5. segments' = segments
  BY <1>1 DEF segments
<1>6. TypeInv'
  <2>1. up' \in BOOLEAN /\ broken' \in BOOLEAN /\ refused' \in BOOLEAN /\ bad' \in BOOLEAN /\ faults' \in Nat
    <3>1. broken' = broken /\ refused' = refused /\ bad' = bad /\ up' = FALSE /\ faults' = faults + 1
      BY <1>1
    <3>2. broken \in BOOLEAN /\ refused \in BOOLEAN /\ bad \in BOOLEAN /\ faults \in Nat
      BY <1>2 DEF TypeInv
    <3>3. faults' \in Nat
      BY <3>1, <3>2
    <3> QED BY <3>1, <3>2, <3>3, Zenon
  <2>2. /\ meta' \in 1..MaxIndex /\ first' \in 1..MaxIndex /\ last' \in 0..MaxIndex
        /\ last' >= first' - 1
        /\ closed' \in Seq(SegmentType) /\ open' \in Seq(SegmentType) /\ Len(open') <= 1
        /\ \A s \in segments' : s.first <= MaxIndex + 1
    BY <1>1, <1>2, <1>5 DEF TypeInv
  <2> QED BY <1>3, <1>4, <2>1, <2>2 DEF TypeInv
<1>7. NameInv'
  BY <1>1, <1>2, <1>3 DEF NameInv, ApartOK
<1> QED BY <1>1, <1>3, <1>6, <1>7 DEF IInv, MemoryInv, StepInv, FineInv, DiskInv

LEMMA Whole ==
    ASSUME NEW S, NEW q \in Seq(S), NEW n \in 0..Len(q)
    PROVE  /\ SubSeq(q, 1, n) \in Seq(S) /\ Len(SubSeq(q, 1, n)) = n
           /\ n = Len(q) => SubSeq(q, 1, n) = q
<1> DEFINE w == SubSeq(q, 1, n)
<1>1. Len(q) \in Nat /\ n \in Nat
  BY LenProperties
<1>2. w \in Seq(S) /\ Len(w) = n - 1 + 1 /\ \A i \in 1..n - 1 + 1 : w[i] = q[1 + i - 1]
  <2>1. 1 \in 1..Len(q) + 1 /\ 1 <= n + 1
    BY <1>1
  <2> QED BY <2>1, PartOf
<1> HIDE DEF w
<1>3. Len(w) = n /\ \A i \in 1..n : w[i] = q[i]
  <2>1. n - 1 + 1 = n /\ \A i \in 1..n : 1 + i - 1 = i
    BY <1>1
  <2> QED BY <1>2, <2>1
<1>4. n = Len(q) => w = q
  BY <1>2, <1>3, SeqEqual
<1> QED BY <1>2, <1>3, <1>4 DEF w

\* What a function makes of a finite set is finite.
LEMMA FiniteImage ==
    ASSUME NEW S, IsFiniteSet(S), NEW T, NEW g \in [S -> T], T = {g[x] : x \in S}
    PROVE  IsFiniteSet(T)
<1>1. g \in Surjection(S, T)
  BY DEF Surjection
<1> QED BY <1>1, FS_Surjection

\* What is closed is synced; of the file in progress a part is left.
LEMMA StepOfPowerLoss == IInv /\ PowerOK /\ PowerLoss => IInv'
<1> SUFFICES ASSUME IInv, PowerOK, PowerLoss PROVE IInv'
  OBVIOUS
<1>1. /\ up /\ ~Resetting /\ "power" \in Faults /\ faults' = faults + 1 /\ up' = FALSE /\ op' = Idle
      /\ UNCHANGED <<meta, first, last, closed, open, broken, refused, bad>>
  BY DEF PowerLoss, Fault, Resetting, memory
<1>2. PICK kept \in [files -> 0..MaxIndex], tail \in {"none", "torn", "corrupt"} :
         /\ \A f \in files : kept[f] \in f.synced..Len(f.terms)
         /\ files' = {[f EXCEPT !.terms = SubSeq(@, 1, kept[f]),
                                !.tail = IF kept[f] < Len(f.terms) THEN tail ELSE @] : f \in files}
  BY DEF PowerLoss
<1> DEFINE F(f) == [f EXCEPT !.terms = SubSeq(@, 1, kept[f]),
                             !.tail = IF kept[f] < Len(f.terms) THEN tail ELSE @]
<1>3. TypeInv /\ NamesOK /\ FilesOK /\ ApartOK
  BY <1>1 DEF IInv, DiskInv, NameInv
<1>4. files' = {F(f) : f \in files}
  BY <1>2
<1>5. ASSUME NEW f \in files
      PROVE  /\ F(f) \in FileType /\ F(f).first = f.first /\ F(f).last = f.last
             /\ F(f).synced <= Len(F(f).terms) /\ F(f).first <= MaxIndex + 1
             /\ LastOf(F(f)) <= MaxIndex /\ NameOK(F(f))
             /\ f.last # 0 => F(f).terms = f.terms
  <2>1. /\ f \in FileType /\ f.synced <= Len(f.terms) /\ f.first <= MaxIndex + 1
        /\ LastOf(f) <= MaxIndex /\ NameOK(f) /\ f.terms \in Seq(Terms) /\ f.synced \in Nat
        /\ f.first \in Nat /\ Len(f.terms) \in Nat
    <3>1. f \in FileType /\ f.synced <= Len(f.terms) /\ f.first <= MaxIndex + 1
          /\ LastOf(f) <= MaxIndex /\ NameOK(f)
      BY <1>3 DEF TypeInv, NamesOK
    <3>2. f.terms \in Seq(Terms) /\ f.synced \in Nat /\ f.first \in Nat
      BY <3>1 DEF FileType
    <3> QED BY <3>1, <3>2, LenProperties
  <2>2. PICK n : n = kept[f]
    OBVIOUS
  <2>3. n \in 0..Len(f.terms) /\ n >= f.synced /\ n \in Nat
    <3>1. n \in f.synced..Len(f.terms)
      BY <1>2, <2>2
    <3> QED BY <2>1, <3>1
  <2>4. /\ SubSeq(f.terms, 1, n) \in Seq(Terms) /\ Len(SubSeq(f.terms, 1, n)) = n
        /\ n = Len(f.terms) => SubSeq(f.terms, 1, n) = f.terms
    BY <2>1, <2>3, Whole
  <2>5. PICK g : g = F(f)
    OBVIOUS
  <2>6. g = [f EXCEPT !.terms = SubSeq(f.terms, 1, n), !.tail = IF n < Len(f.terms) THEN tail ELSE f.tail]
    BY <2>2, <2>5
  <2>7. /\ g \in FileType /\ g.first = f.first /\ g.last = f.last /\ g.synced = f.synced
        /\ g.terms = SubSeq(f.terms, 1, n) /\ g.tail = IF n < Len(f.terms) THEN tail ELSE f.tail
    BY <2>1, <2>4, <2>6 DEF FileType
  <2>8. LastOf(g) <= LastOf(f) /\ LastOf(g) \in Int /\ LastOf(f) \in Int
    <3>1. LastOf(g) = f.first + n - 1 /\ LastOf(f) = f.first + Len(f.terms) - 1
      BY <2>4, <2>7 DEF LastOf
    <3> QED BY <2>1, <2>3, <3>1
  <2>9. f.last # 0 => /\ n = Len(f.terms) /\ g.terms = f.terms /\ g.tail = f.tail
                      /\ LastOf(g) = LastOf(f)
    <3> SUFFICES ASSUME f.last # 0
                 PROVE  n = Len(f.terms) /\ g.terms = f.terms /\ g.tail = f.tail /\ LastOf(g) = LastOf(f)
      OBVIOUS
    <3>1. f.synced = Len(f.terms)
      BY <1>1, <2>1 DEF NameOK
    <3>2. n = Len(f.terms) /\ ~(n < Len(f.terms))
      BY <2>1, <2>3, <3>1
    <3> QED BY <2>4, <2>7, <3>2 DEF LastOf
  <2>10. NameOK(g)
    BY <1>1, <2>1, <2>7, <2>9 DEF NameOK
  <2>11. LastOf(g) <= MaxIndex
    BY <2>1, <2>8, SegmentStorageAssumption
  <2>12. g.synced <= Len(g.terms)
    BY <2>3, <2>4, <2>7
  <2> QED BY <2>1, <2>5, <2>7, <2>9, <2>10, <2>11, <2>12
<1> HIDE DEF F
<1>6. files' \in SUBSET FileType /\ IsFiniteSet(files')
  <2>1. IsFiniteSet({F(f) : f \in files})
    <3> DEFINE T == {F(f) : f \in files}
               g == [f \in files |-> F(f)]
    <3>1. g \in [files -> T] /\ T = {g[f] : f \in files} /\ IsFiniteSet(files)
      BY <1>3 DEF TypeInv
    <3> HIDE DEF g, T
    <3>2. IsFiniteSet(T)
      BY <3>1, FiniteImage
    <3> QED BY <3>2 DEF T
  <2> QED BY <1>4, <1>5, <2>1
<1>7. NamesOK'
  <2>1. ASSUME NEW g \in files', NEW h \in files', g.first = h.first PROVE g = h
    <3>1. PICK a \in files, b \in files : g = F(a) /\ h = F(b)
      BY <1>4
    <3>2. a = b
      BY <1>3, <1>5, <2>1, <3>1 DEF NamesOK
    <3> QED BY <3>1, <3>2
  <2>2. \A h \in files' : NameOK(h)
    BY <1>4, <1>5
  <2>3. \A h : NameOK(h)' <=> NameOK(h)
    BY DEF NameOK, LastOf
  <2> QED BY <2>1, <2>2, <2>3 DEF NamesOK, NameOK
<1>8. NeededFiles' = {F(f) : f \in NeededFiles}
  <2>1. \A f \in files : F(f).last = f.last
    BY <1>5
  <2>2. NeededFiles' = {h \in files' : h.last = 0 \/ h.last >= meta}
    BY <1>1 DEF NeededFiles, Needed
  <2>3. NeededFiles = {h \in files : h.last = 0 \/ h.last >= meta}
    BY DEF NeededFiles, Needed
  <2> QED BY <1>4, <2>1, <2>2, <2>3
<1>9. FilesOK'
  <2>1. ASSUME NEW f \in NeededFiles
        PROVE  /\ F(f).first = f.first
               /\ f.terms = F(f).terms \/ \A x \in NeededFiles : ~(f.first < x.first)
    <3>1. f \in files
      BY DEF NeededFiles
    <3>2. CASE f.last # 0
      BY <1>5, <3>1, <3>2
    <3>3. CASE f.last = 0
      <4>1. \A x \in NeededFiles : x.first <= f.first
        BY <1>3, <3>1, <3>3, InProgressIsLast
      <4>2. \A x \in NeededFiles : x.first \in Nat /\ f.first \in Nat
        BY <1>3, <3>1 DEF NeededFiles, TypeInv, FileType
      <4> QED BY <1>5, <3>1, <4>1, <4>2
    <3> QED BY <3>2, <3>3
  <2> DEFINE N == NeededFiles
             M == NeededFiles'
  <2>2. \A t \in M : \E s \in N : /\ s.first = t.first
                                  /\ s.terms = t.terms \/ \A x \in N : ~(s.first < x.first)
    BY <1>8, <2>1
  <2>3. \A s \in N : \E t \in M : /\ s.first = t.first
                                  /\ s.terms = t.terms \/ \A x \in N : ~(s.first < x.first)
    BY <1>8, <2>1
  <2>4. Tiled(N, meta)
    BY <1>3 DEF FilesOK
  <2> HIDE DEF N, M
  <2>5. Tiled(M, meta)
    BY <2>2, <2>3, <2>4, TiledLike
  <2>6. ASSUME NEW g \in M, NEW h \in M, g.first < h.first PROVE g.last # 0
    <3>1. PICK a \in NeededFiles, b \in NeededFiles : g = F(a) /\ h = F(b)
      BY <1>8 DEF M
    <3>2. a \in files /\ b \in files
      BY DEF NeededFiles
    <3> QED BY <1>3, <1>5, <2>6, <3>1, <3>2 DEF FilesOK
  <2> QED BY <1>1, <2>5, <2>6 DEF FilesOK, M
<1>10. op'.of = "none" /\ op' \in OpType(Seq(SegmentType))
  BY <1>1, IdleIs
<1>11. segments' = segments
  BY <1>1 DEF segments
<1>12. \A h \in files' : h.synced <= Len(h.terms) /\ h.first <= MaxIndex + 1 /\ LastOf(h) <= MaxIndex
  BY <1>4, <1>5
<1>13. TypeInv'
  <2>1. up' \in BOOLEAN /\ broken' \in BOOLEAN /\ refused' \in BOOLEAN /\ bad' \in BOOLEAN /\ faults' \in Nat
    <3>1. broken' = broken /\ refused' = refused /\ bad' = bad /\ up' = FALSE /\ faults' = faults + 1
      BY <1>1
    <3>2. broken \in BOOLEAN /\ refused \in BOOLEAN /\ bad \in BOOLEAN /\ faults \in Nat
      BY <1>3 DEF TypeInv
    <3>3. faults' \in Nat
      BY <3>1, <3>2
    <3> QED BY <3>1, <3>2, <3>3, Zenon
  <2>2. /\ meta' \in 1..MaxIndex /\ first' \in 1..MaxIndex /\ last' \in 0..MaxIndex
        /\ last' >= first' - 1
        /\ closed' \in Seq(SegmentType) /\ open' \in Seq(SegmentType) /\ Len(open') <= 1
        /\ \A s \in segments' : s.first <= MaxIndex + 1
    BY <1>1, <1>3, <1>11 DEF TypeInv
  <2> QED BY <1>6, <1>10, <1>12, <2>1, <2>2 DEF TypeInv
<1>14. NameInv'
  <2>1. \A h \in files' : \E h0 \in files : h0.first = h.first /\ h0.last = h.last
    BY <1>4, <1>5
  <2> QED BY <1>1, <1>3, <2>1 DEF NameInv, ApartOK
<1> QED BY <1>1, <1>7, <1>9, <1>13, <1>14 DEF IInv, MemoryInv, StepInv, FineInv, DiskInv

-----------------------------------------------------------------------------
(* init.                                                                   *)

\* The files that init finds with a last index in their names and needs, the file in
\* progress, and that one when it has an entry that is needed.
Full == {f \in files : f.last # 0 /\ Needed(f)}
Part == {f \in files : f.last = 0}
Keep == {f \in Part : LastOf(Loaded(f)) >= meta}
\* Those that it removes, or leaves when it cannot.
Below == {f \in files : ~Needed(f)}

\* What init needs is what has a last index in its name, and one file in progress.
LEMMA FoundIs ==
    ASSUME TypeInv, NamesOK, FilesOK
    PROVE  /\ NeededFiles = Full \union Part /\ Full \union Part \in SUBSET FileType
           /\ \A f \in Full : /\ f \in files /\ f \in NeededFiles /\ f.last = LastOf(f)
                              /\ LastOf(f) >= meta /\ f.terms # <<>> /\ f.last # 0
           /\ \A f \in Part : f \in files /\ f \in NeededFiles /\ f.last = 0
           /\ \A f, g \in Full \union Part : f.first = g.first => f = g
           /\ \A f, g \in Part : f = g
           /\ \A f \in Part, g \in Full : g.first < f.first /\ LastOf(g) < f.first
           /\ \A f \in Full \union Part : f.first \in Nat /\ LastOf(f) \in Nat /\ f.last \in Nat
           /\ meta \in Nat
<1>1. files \in SUBSET FileType
  BY DEF TypeInv
<1>2. NeededFiles = Full \union Part /\ Full \union Part \in SUBSET files
  BY DEF NeededFiles, Full, Part, Needed
<1>3. \A f \in Full \union Part : /\ f.first \in Nat /\ LastOf(f) \in Nat /\ f.last \in Nat
                                  /\ f \in FileType
  <2> SUFFICES ASSUME NEW f \in files
               PROVE  f.first \in Nat /\ LastOf(f) \in Nat /\ f.last \in Nat /\ f \in FileType
    BY <1>2
  <2> QED BY <1>1, LastOfIs, FileIsPiece DEF FileType
<1>4. ASSUME NEW f \in Full
      PROVE  /\ f \in files /\ f \in NeededFiles /\ f.last = LastOf(f)
             /\ LastOf(f) >= meta /\ f.terms # <<>> /\ f.last # 0
  <2>1. f \in files /\ f.last # 0 /\ f.last >= meta
    BY DEF Full, Needed
  <2> QED BY <1>2, <2>1 DEF NamesOK, NameOK
<1>5. \A f \in Part : f \in files /\ f \in NeededFiles /\ f.last = 0
  BY <1>2 DEF Part
<1>6. \A f, g \in Full \union Part : f.first = g.first => f = g
  BY <1>2 DEF NamesOK
<1>7. \A f \in Part : \A g \in Full \union Part : g.first <= f.first
  BY <1>2, <1>5, InProgressIsLast
<1>8. ASSUME NEW f \in Part, NEW g \in Part PROVE f = g
  <2>1. f.first <= g.first /\ g.first <= f.first /\ f.first \in Nat /\ g.first \in Nat
    BY <1>3, <1>7
  <2>2. f.first = g.first
    BY <2>1
  <2> QED BY <1>6, <2>2
<1>9. ASSUME NEW f \in Part, NEW g \in Full PROVE g.first < f.first /\ LastOf(g) < f.first
  <2>1. g.first <= f.first /\ g.first \in Nat /\ f.first \in Nat
    BY <1>3, <1>7
  <2>2. g.first # f.first
    BY <1>4, <1>5, <1>6
  <2>3. g.first < f.first
    BY <2>1, <2>2
  <2> QED BY <1>4, <1>5, <2>3 DEF FilesOK, Tiled
<1>10. meta \in Nat
  BY SegmentStorageAssumption DEF TypeInv
<1> QED BY <1>2, <1>3, <1>4, <1>5, <1>6, <1>8, <1>9, <1>10

LEMMA OneElement ==
    ASSUME NEW S, \A x, y \in S : x = y
    PROVE  ~(Cardinality(S) > 1) /\ Cardinality(S) <= 1
<1>1. CASE S = {}
  <2>1. Cardinality({}) = 0
    BY FS_EmptySet
  <2> QED BY <1>1, <2>1
<1>2. ASSUME NEW z \in S PROVE ~(Cardinality(S) > 1) /\ Cardinality(S) <= 1
  <2>1. S = {z}
    OBVIOUS
  <2>2. Cardinality({z}) = 1
    BY FS_Singleton
  <2> QED BY <2>1, <2>2
<1> QED BY <1>1, <1>2

\* list_segments reports no conflict and no hole, and Segment::load no lost data.
LEMMA NothingRefused ==
    ASSUME TypeInv, NamesOK, FilesOK, PowerOK
    PROVE  ~ListFails(Full) /\ \A f \in Full \union Part : ~LoadFails(f)
<1>1. /\ NeededFiles = Full \union Part
      /\ \A f \in Full : /\ f \in files /\ f \in NeededFiles /\ f.last = LastOf(f)
                         /\ LastOf(f) >= meta /\ f.terms # <<>> /\ f.last # 0
      /\ \A f \in Part : f \in files /\ f \in NeededFiles /\ f.last = 0
      /\ \A f, g \in Full \union Part : f.first = g.first => f = g
      /\ \A f, g \in Part : f = g
      /\ \A f \in Full \union Part : f.first \in Nat /\ LastOf(f) \in Nat /\ f.last \in Nat
      /\ meta \in Nat
  BY FoundIs
<1>2. ~(Cardinality(Part) > 1)
  BY <1>1, OneElement
<1>3. \A t \in NeededFiles, g \in Full : t.first < g.first => t \in Full
  BY <1>1 DEF FilesOK
<1>4. \A g \in Full : \/ g.first <= meta
                      \/ \E t \in Full : t.first < g.first /\ LastOf(t) + 1 = g.first
  BY <1>1, <1>3 DEF FilesOK, Tiled
<1>5. \A f, g \in Full : f.first < g.first => LastOf(f) < g.first
  BY <1>1 DEF FilesOK, Tiled
<1>6. ASSUME NEW f \in Full, \A g \in Full : f.first <= g.first PROVE ~(f.first > meta)
  <2>1. CASE f.first <= meta
    BY <1>1, <2>1
  <2>2. ASSUME NEW t \in Full, t.first < f.first PROVE FALSE
    <3>1. f.first <= t.first /\ t.first \in Nat /\ f.first \in Nat
      BY <1>1, <1>6
    <3> QED BY <2>2, <3>1
  <2> QED BY <1>4, <2>1, <2>2
<1>7. ASSUME NEW f \in Full, NEW g \in Full, f.first < g.first,
             \A h \in Full : h.first <= f.first \/ h.first >= g.first
      PROVE  g.first = f.last + 1
  <2>1. LastOf(f) < g.first /\ f.last = LastOf(f) /\ LastOf(f) >= meta
    BY <1>1, <1>5, <1>7
  <2>2. f.first \in Nat /\ g.first \in Nat /\ f.last \in Nat
    BY <1>1
  <2>3. CASE g.first <= meta
    BY <1>1, <2>1, <2>2, <2>3
  <2>4. ASSUME NEW t \in Full, t.first < g.first, LastOf(t) + 1 = g.first PROVE g.first = f.last + 1
    <3>1. t.first \in Nat /\ LastOf(t) \in Nat /\ (t.first <= f.first \/ t.first >= g.first)
      BY <1>1, <1>7
    <3>2. t.first <= f.first
      BY <2>2, <2>4, <3>1
    <3>3. ~(t.first < f.first)
      <4> SUFFICES ASSUME t.first < f.first PROVE FALSE
        OBVIOUS
      <4>1. LastOf(t) < f.first
        BY <1>5
      <4> QED BY <1>7, <2>2, <2>4, <3>1, <4>1
    <3>4. t = f
      <4>1. t.first = f.first
        BY <2>2, <3>1, <3>2, <3>3
      <4> QED BY <1>1, <4>1
    <3> QED BY <2>1, <2>4, <3>4
  <2> QED BY <1>4, <2>3, <2>4
<1>8. ~ListFails(Full)
  BY <1>2, <1>6, <1>7 DEF ListFails, Full, Part
<1>9. ASSUME NEW f \in Full PROVE ~LoadFails(f)
  <2>1. f.tail # "corrupt" /\ f.last # 0
    BY <1>1 DEF NamesOK, NameOK
  <2>2. Len(f.terms) = f.last - f.first + 1
    <3>1. f.last = f.first + Len(f.terms) - 1 /\ f.first \in Nat
      BY <1>1 DEF LastOf
    <3>2. f \in FileType
      BY <1>1 DEF TypeInv
    <3>3. Len(f.terms) \in Nat
      BY <3>2, LenProperties DEF FileType
    <3> QED BY <3>1, <3>3
  <2> QED BY <2>1, <2>2 DEF LoadFails
<1>10. ASSUME NEW f \in Part PROVE ~LoadFails(f)
  <2>1. f.last = 0 /\ NameOK(f)
    BY <1>1 DEF NamesOK
  <2>2. f.tail = "corrupt" => RecoverCorrupt
    BY <2>1 DEF NameOK, PowerOK
  <2> QED BY <2>1, <2>2 DEF LoadFails
<1> QED BY <1>8, <1>9, <1>10

\* No two closed segments have the same first index, and those that end below the first
\* index of the log are in front.
LEMMA ListedIs ==
    ASSUME TypeInv, NamesOK, ApartOK, NEW listed \in Listings
    PROVE  listed \ Outdated(listed) = Full /\ Outdated(listed) = Below
<1> DEFINE all == {f \in files : f.last # 0}
<1>1. listed = all
  BY DEF Listings, NamesOK
<1>2. ASSUME NEW f \in all, ~Needed(f), NEW g \in all, g.first <= f.first PROVE ~Needed(g)
  <2>1. /\ f \in FileType /\ g \in FileType /\ f.first \in Nat /\ g.first \in Nat /\ f.last \in Nat
        /\ g.last \in Nat /\ meta \in Nat /\ f.last # 0 /\ g.last # 0 /\ f.last < meta
    <3>1. f \in FileType /\ g \in FileType /\ meta \in Nat /\ f.last # 0 /\ g.last # 0
      BY SegmentStorageAssumption DEF TypeInv
    <3>2. f.first \in Nat /\ g.first \in Nat /\ f.last \in Nat /\ g.last \in Nat
      BY <3>1 DEF FileType
    <3> QED BY <1>2, <3>1, <3>2 DEF Needed
  <2>2. f.first <= f.last
    <3>1. f.terms # <<>> /\ f.last = LastOf(f)
      BY <2>1 DEF NamesOK, NameOK
    <3>2. f.terms \in Seq(Terms) /\ Len(f.terms) \in Nat /\ Len(f.terms) # 0
      BY <2>1, <3>1, LenProperties, EmptySeq DEF FileType
    <3> QED BY <2>1, <3>1, <3>2 DEF LastOf
  <2>3. CASE g.first = f.first
    BY <1>2, <2>3 DEF NamesOK
  <2>4. CASE g.first < f.first
    BY <2>1, <2>2, <2>4 DEF ApartOK, Needed
  <2> QED BY <1>2, <2>1, <2>3, <2>4
<1>3. \A f \in all : f.first <= f.first
  BY DEF TypeInv, FileType
<1>4. Outdated(listed) = {f \in all : ~Needed(f)}
  BY <1>1, <1>2, <1>3 DEF Outdated
<1> QED BY <1>1, <1>4 DEF Full, Below, Needed

\* What init makes of the files.
LEMMA RestartIs ==
    ASSUME TypeInv, NamesOK, FilesOK, ApartOK, PowerOK, StaleOK, Restart
    PROVE  /\ closed' = bySegment(Full) /\ open' = bySegment(Keep)
           /\ is_open' = {f.first : f \in Keep}
           /\ \E left \in SUBSET Below :
                 files' = {[f EXCEPT !.tail = "none"] : f \in Full \union Keep} \union left
           /\ first' = meta /\ last' = LastLoaded(closed', open')
           /\ up' = TRUE /\ broken' = FALSE /\ refused' = refused /\ other' = Log'
           /\ bad' = (bad \/ \E f \in Part, g \in Full : g.last > f.first - 1)
           /\ faults' \in Nat /\ UNCHANGED <<meta, op, safe>>
<1>1. ~(ListFails(Full) \/ \E f \in Full \union Part : LoadFails(f))
  BY NothingRefused
<1> DEFINE all == Full \union Keep
           dropped == Below \union (Part \ Keep)
           loaded == {[f EXCEPT !.tail = "none"] : f \in all}
<1>2. /\ closed' = bySegment(Full) /\ open' = bySegment(Keep)
      /\ is_open' = {f.first : f \in Keep}
      /\ \E left \in SUBSET dropped :
            /\ files' = loaded \union ((files \ all) \ (dropped \ left))
            /\ \/ left = {} /\ UNCHANGED faults
               \/ {Stays(f) : f \in left} \subseteq Faults /\ \E f \in left : Fault(Stays(f))
      /\ first' = meta /\ last' = LastLoaded(closed', open')
      /\ up' = TRUE /\ broken' = FALSE /\ refused' = refused /\ other' = Log'
      /\ bad' = (bad \/ \E f \in Part, g \in Full : g.last > f.first - 1)
      /\ UNCHANGED <<meta, op, safe>>
  <2>1. PICK listed \in Listings :
          LET full == listed \ Outdated(listed)
              part == {f \in files : f.last = 0}
              keep == {f \in part : LastOf(Loaded(f)) >= meta}
              gone == Outdated(listed) \union (part \ keep)
          IN  ~(ListFails(full) \/ \E f \in full \union part : LoadFails(f))
              => /\ closed' = bySegment(full) /\ open' = bySegment(keep)
                 /\ is_open' = {f.first : f \in keep}
                 /\ \E left \in SUBSET gone :
                      /\ files' = {[f EXCEPT !.tail = "none"] : f \in full \union keep}
                                  \union ((files \ (full \union keep)) \ (gone \ left))
                      /\ \/ left = {} /\ UNCHANGED faults
                         \/ {Stays(f) : f \in left} \subseteq Faults /\ \E f \in left : Fault(Stays(f))
                 /\ first' = meta /\ last' = LastLoaded(closed', open')
                 /\ up' = TRUE /\ broken' = FALSE /\ other' = Log'
                 /\ bad' = (bad \/ \E f \in part, g \in full : g.last > f.first - 1)
                 /\ UNCHANGED refused
    BY DEF Restart
  <2>2. listed \ Outdated(listed) = Full /\ Outdated(listed) = Below
    BY ListedIs
  <2>3. UNCHANGED <<meta, op, safe>>
    BY DEF Restart
  <2> QED BY <1>1, <2>1, <2>2, <2>3 DEF Part, Keep
<1>3. PICK left \in SUBSET dropped :
         /\ files' = loaded \union ((files \ all) \ (dropped \ left))
         /\ \/ left = {} /\ UNCHANGED faults
            \/ {Stays(f) : f \in left} \subseteq Faults /\ \E f \in left : Fault(Stays(f))
  BY <1>2
<1>4. left \in SUBSET Below
  <2>1. \A f \in left : Stays(f) \in Faults
    BY <1>3
  <2>2. \A f \in left : ~Needed(f)
    BY <2>1 DEF StaleOK, Stays
  <2> QED BY <1>3, <2>2 DEF Part, Needed
<1>5. files \ all = dropped
  BY DEF Full, Part, Keep, Below, Needed
<1>6. files' = loaded \union left
  BY <1>3, <1>5
<1>7. faults' \in Nat
  BY <1>3 DEF TypeInv, Fault
<1> QED BY <1>2, <1>4, <1>6, <1>7

LEMMA StepOfRestart == IInv /\ PowerOK /\ StaleOK /\ Restart => IInv'
<1> SUFFICES ASSUME IInv, PowerOK, StaleOK, Restart PROVE IInv'
  OBVIOUS
<1>1. ~up /\ op = Idle /\ UNCHANGED <<meta, op>>
  BY DEF Restart, IInv, StepInv
<1>2. TypeInv /\ NamesOK /\ FilesOK /\ ApartOK /\ ~refused /\ ~bad
  <2>1. ~Resetting
    BY <1>1, IdleIs DEF Resetting
  <2> QED BY <2>1 DEF IInv, DiskInv, FineInv, NameInv
<1>3. PICK left \in SUBSET Below :
         files' = {[f EXCEPT !.tail = "none"] : f \in Full \union Keep} \union left
  BY <1>2, RestartIs
<1>4. /\ closed' = bySegment(Full) /\ open' = bySegment(Keep)
      /\ is_open' = {f.first : f \in Keep} /\ faults' \in Nat
      /\ first' = meta /\ last' = LastLoaded(closed', open')
      /\ up' = TRUE /\ broken' = FALSE /\ refused' = refused
      /\ bad' = (bad \/ \E f \in Part, g \in Full : g.last > f.first - 1)
  BY <1>2, RestartIs
<1>5. /\ NeededFiles = Full \union Part /\ Full \union Part \in SUBSET FileType
      /\ \A f \in Full : /\ f \in files /\ f \in NeededFiles /\ f.last = LastOf(f)
                         /\ LastOf(f) >= meta /\ f.terms # <<>> /\ f.last # 0
      /\ \A f \in Part : f \in files /\ f \in NeededFiles /\ f.last = 0
      /\ \A f, g \in Full \union Part : f.first = g.first => f = g
      /\ \A f, g \in Part : f = g
      /\ \A f \in Part, g \in Full : g.first < f.first /\ LastOf(g) < f.first
      /\ \A f \in Full \union Part : f.first \in Nat /\ LastOf(f) \in Nat /\ f.last \in Nat
      /\ meta \in Nat
  BY <1>2, FoundIs
<1>6. ~bad'
  <2>1. ~\E f \in Part, g \in Full : g.last > f.first - 1
    <3> SUFFICES ASSUME NEW f \in Part, NEW g \in Full PROVE ~(g.last > f.first - 1)
      OBVIOUS
    <3>1. g.last < f.first /\ f.first \in Nat /\ g.last \in Nat
      BY <1>5
    <3> QED BY <3>1
  <2> QED BY <1>2, <1>4, <2>1
<1>7. \A f : Loaded(f).first = f.first /\ Loaded(f).terms = f.terms /\ LastOf(Loaded(f)) = LastOf(f)
  BY DEF Loaded, LastOf
<1>8. Keep \in SUBSET Part /\ \A f \in Keep : LastOf(f) >= meta
  BY <1>7 DEF Keep
<1>9. IsFiniteSet(Full) /\ IsFiniteSet(Keep) /\ Cardinality(Keep) <= 1
  <2>1. Full \subseteq files /\ Keep \subseteq files /\ IsFiniteSet(files)
    BY <1>2, <1>5, <1>8 DEF TypeInv
  <2>2. IsFiniteSet(Full) /\ IsFiniteSet(Keep)
    BY <2>1, FS_Subset
  <2>3. \A f, g \in Keep : f = g
    BY <1>5, <1>8
  <2> QED BY <2>2, <2>3, OneElement
<1>10. /\ closed' \in Seq(SegmentType) /\ Sorted(closed') /\ ToSet(closed') = {Loaded(f) : f \in Full}
       /\ open' \in Seq(SegmentType) /\ ToSet(open') = {Loaded(f) : f \in Keep} /\ Len(open') <= 1
  BY <1>4, <1>5, <1>8, <1>9, BySegmentIs
<1> DEFINE K == Full \union Keep
<1>11. /\ K \in SUBSET FileType /\ K \in SUBSET files /\ K \in SUBSET NeededFiles
       /\ \A f, g \in K : f.first = g.first => f = g
       /\ \A f \in K : LastOf(f) >= meta /\ LastOf(f) \in Nat /\ f.first \in Nat
  BY <1>5, <1>8
<1>12. segments' = {Loaded(f) : f \in K} /\ segments' \in SUBSET SegmentType
  BY <1>10, MemoryNext, ElementsOf
<1> DEFINE R(f) == [f EXCEPT !.tail = "none"]
<1> DEFINE M == {R(f) : f \in K}
<1>13. files' = M \union left
  BY <1>3
<1>14. ASSUME NEW f \in K
       PROVE  /\ R(f) \in FileType /\ R(f).first = f.first /\ R(f).last = f.last
              /\ R(f).terms = f.terms /\ R(f).synced = f.synced /\ R(f).tail = "none"
              /\ LastOf(R(f)) = LastOf(f)
  <2>1. f \in FileType
    BY <1>11
  <2>2. PICK g : g = R(f)
    OBVIOUS
  <2>3. /\ g \in FileType /\ g.first = f.first /\ g.last = f.last
        /\ g.terms = f.terms /\ g.synced = f.synced /\ g.tail = "none"
    BY <2>1, <2>2 DEF FileType
  <2> QED BY <2>2, <2>3 DEF LastOf
<1> HIDE DEF R, K
<1>15. ASSUME NEW f \in K
       PROVE  /\ NameOK(f) /\ f.synced <= Len(f.terms) /\ f.first <= MaxIndex + 1
              /\ LastOf(f) <= MaxIndex
  BY <1>2, <1>11 DEF NamesOK, TypeInv
<1>30. /\ left \in SUBSET files /\ left \in SUBSET FileType
       /\ \A f \in left : /\ ~Needed(f) /\ f.last # 0 /\ NameOK(f) /\ f.tail # "corrupt"
                          /\ f.synced <= Len(f.terms) /\ f.first <= MaxIndex + 1
                          /\ LastOf(f) <= MaxIndex
  BY <1>2 DEF Below, Needed, NamesOK, NameOK, TypeInv
<1>31. \A f \in left, g \in K : f.first # g.first
  BY <1>2, <1>11, <1>30 DEF NamesOK, NeededFiles
<1>32. \A f \in left, h \in M : f.first # h.first
  BY <1>14, <1>31
<1>16. /\ files' \in SUBSET FileType /\ IsFiniteSet(files')
       /\ \A h \in files' : /\ h.synced <= Len(h.terms) /\ h.first <= MaxIndex + 1
                            /\ LastOf(h) <= MaxIndex /\ h.tail # "corrupt"
  <2>1. IsFiniteSet(files')
    <3> DEFINE g == [f \in K |-> R(f)]
    <3>1. g \in [K -> M] /\ M = {g[f] : f \in K}
      OBVIOUS
    <3>2. IsFiniteSet(K)
      BY <1>9, FS_Union DEF K
    <3> HIDE DEF g, M
    <3>3. IsFiniteSet(M)
      BY <3>1, <3>2, FiniteImage
    <3>4. IsFiniteSet(left)
      BY <1>2, <1>30, FS_Subset DEF TypeInv
    <3> QED BY <1>13, <3>3, <3>4, FS_Union
  <2>2. \A h \in M : /\ h \in FileType /\ h.synced <= Len(h.terms) /\ h.first <= MaxIndex + 1
                     /\ LastOf(h) <= MaxIndex /\ h.tail # "corrupt"
    BY <1>14, <1>15
  <2> QED BY <1>13, <1>30, <2>1, <2>2
<1>17. NamesOK'
  <2>1. ASSUME NEW g \in files', NEW h \in files', g.first = h.first PROVE g = h
    <3>1. CASE g \in left /\ h \in left
      BY <1>2, <1>30, <2>1, <3>1 DEF NamesOK
    <3>2. ASSUME g \in M, h \in M PROVE g = h
      <4>1. PICK a \in K, b \in K : g = R(a) /\ h = R(b)
        BY <3>2
      <4>2. a = b
        BY <1>11, <1>14, <2>1, <4>1
      <4> QED BY <4>1, <4>2
    <3> QED BY <1>13, <1>32, <2>1, <3>1, <3>2
  <2>2. \A h \in files' : NameOK(h)
    <3> SUFFICES ASSUME NEW f \in K PROVE NameOK(R(f))
      BY <1>13, <1>30
    <3> QED BY <1>14, <1>15 DEF NameOK
  <2> QED BY <2>1, <2>2 DEF NamesOK, NameOK
<1>18. Tiled(K, meta)
  <2>1. \A f \in NeededFiles : LastOf(f) >= meta /\ f.terms # <<>> => f \in K
    BY <1>5, <1>7 DEF K, Keep
  <2>2. Pieces(NeededFiles) /\ Tiled(NeededFiles, meta)
    BY <1>2, Memory DEF FilesOK
  <2> DEFINE N == NeededFiles
  <2>3. K \in SUBSET N /\ Tiled(N, meta) /\ Pieces(N)
        /\ \A f \in N : LastOf(f) >= meta /\ f.terms # <<>> => f \in K
    BY <1>11, <2>1, <2>2
  <2> HIDE DEF N
  <2>4. meta <= meta
    BY <1>5
  <2> QED BY <1>5, <2>3, <2>4, TiledFrom
<1>19. FilesOK'
  <2>1. NeededFiles' = M
    <3>1. \A h \in left : ~(h.last = 0 \/ h.last >= meta')
      BY <1>1, <1>30 DEF Needed
    <3>2. ASSUME NEW h \in M PROVE h.last = 0 \/ h.last >= meta'
      <4>1. PICK f \in K : h = R(f)
        BY <3>2
      <4>2. f.last = 0 \/ f.last >= meta
        BY <1>5, <1>8 DEF K
      <4> QED BY <1>1, <1>14, <4>1, <4>2
    <3> QED BY <1>13, <3>1, <3>2 DEF NeededFiles, Needed
  <2>2. \A t \in M : \E s \in K : /\ s.first = t.first
                                  /\ s.terms = t.terms \/ \A x \in K : ~(s.first < x.first)
    BY <1>13, <1>14
  <2>3. \A s \in K : \E t \in M : /\ s.first = t.first
                                  /\ s.terms = t.terms \/ \A x \in K : ~(s.first < x.first)
    BY <1>13, <1>14
  <2>4. ASSUME NEW g \in M, NEW h \in M, g.first < h.first PROVE g.last # 0
    <3>1. PICK a \in K, b \in K : g = R(a) /\ h = R(b)
      BY <2>4
    <3>2. a \in NeededFiles /\ b \in NeededFiles
      BY <1>11
    <3> QED BY <1>2, <1>14, <2>4, <3>1, <3>2 DEF FilesOK
  <2> HIDE DEF M
  <2>5. Tiled(M, meta)
    BY <1>18, <2>2, <2>3, TiledLike
  <2> QED BY <1>1, <2>1, <2>4, <2>5 DEF FilesOK
<1>20. \A x, y \in ToSet(closed'), z \in ToSet(open') : x.first < z.first
  BY <1>5, <1>7, <1>8, <1>10
<1>21. Tiled(segments', meta)
  <2> DEFINE N == segments'
  <2>1. \A t \in N : \E s \in K : /\ s.first = t.first
                                  /\ s.terms = t.terms \/ \A x \in K : ~(s.first < x.first)
    BY <1>7, <1>12
  <2>2. \A s \in K : \E t \in N : /\ s.first = t.first
                                  /\ s.terms = t.terms \/ \A x \in K : ~(s.first < x.first)
    BY <1>7, <1>12
  <2> HIDE DEF N
  <2>3. Tiled(N, meta)
    BY <1>18, <2>1, <2>2, TiledLike
  <2> QED BY <2>3 DEF N
<1>22. /\ segments' = {} => last' = meta - 1
       /\ segments' # {} => \E x \in segments' : last' = LastOf(x)
       /\ \A s \in segments' : Top(s, segments') => last' = LastOf(s)
  <2> DEFINE q == closed' \o open'
  <2>1. q \in Seq(SegmentType) /\ ToSet(q) = segments'
    BY <1>10, ElementsOfConcat, MemoryNext, ZenonT(40)
  <2>2. Sorted(q)
    <3>1. \A s \in ToSet(closed'), t \in ToSet(open') : s.first < t.first
      BY <1>20
    <3> QED BY <1>10, <3>1, SortedParts
  <2>3. last' = IF q = <<>> THEN meta - 1 ELSE LastOf(Last(q))
    BY <1>4 DEF LastLoaded
  <2> HIDE DEF q
  <2>4. q = <<>> <=> segments' = {}
    BY <2>1, ElementsOf
  <2>5. q # <<>> => Last(q) \in segments' /\ Last(q) = q[Len(q)] /\ Len(q) \in 1..Len(q) /\ Len(q) \in Nat
    BY <2>1, ElementsOf
  <2>6. ASSUME NEW s \in segments', Top(s, segments') PROVE last' = LastOf(s)
    <3>1. q # <<>>
      BY <2>4
    <3>2. PICK i \in 1..Len(q) : s = q[i]
      BY <2>1, ElementsOf
    <3>3. i = Len(q)
      <4>1. ~(i < Len(q))
        <5> SUFFICES ASSUME i < Len(q) PROVE FALSE
          OBVIOUS
        <5>1. s.first < Last(q).first
          BY <2>2, <2>5, <3>1, <3>2 DEF Sorted
        <5>2. Last(q).first <= s.first
          BY <2>5, <2>6, <3>1 DEF Top
        <5>3. s.first \in Nat /\ Last(q).first \in Nat
          BY <1>12, <2>5, <3>1 DEF SegmentType
        <5> QED BY <5>1, <5>2, <5>3
      <4> QED BY <2>5, <3>1, <4>1
    <3> QED BY <2>3, <2>5, <3>1, <3>2, <3>3
  <2> QED BY <2>3, <2>4, <2>5, <2>6
<1>23. last' \in 0..MaxIndex /\ last' >= first' - 1 /\ meta \in 1..MaxIndex /\ meta - 1 \in 0..MaxIndex
  <2>1. meta \in 1..MaxIndex /\ meta - 1 \in 0..MaxIndex /\ MaxIndex \in Nat
    BY <1>2, SegmentStorageAssumption DEF TypeInv
  <2>2. CASE segments' = {}
    BY <1>4, <1>22, <2>1, <2>2
  <2>3. CASE segments' # {}
    <3>1. PICK f \in K : last' = LastOf(f)
      BY <1>7, <1>12, <1>22, <2>3
    <3>2. last' \in Nat /\ last' >= meta /\ last' <= MaxIndex
      BY <1>11, <1>15, <3>1
    <3> QED BY <1>4, <2>1, <3>2
  <2> QED BY <2>1, <2>2, <2>3
<1>24. TypeInv'
  <2>1. up' \in BOOLEAN /\ broken' \in BOOLEAN /\ refused' \in BOOLEAN /\ bad' \in BOOLEAN
    <3> DEFINE E == \E f \in Part, g \in Full : g.last > f.first - 1
    <3>1. up' = TRUE /\ broken' = FALSE /\ refused' = refused /\ bad' = (bad \/ E)
      BY <1>4
    <3>2. refused \in BOOLEAN
      BY <1>2 DEF TypeInv
    <3> HIDE DEF E
    <3> QED BY <3>1, <3>2, Zenon
  <2>2. faults' \in Nat
    BY <1>4
  <2>3. op'.of = "none" /\ op' \in OpType(Seq(SegmentType))
    BY <1>1, IdleIs
  <2>4. \A s \in segments' : s.first <= MaxIndex + 1
    BY <1>7, <1>12, <1>15
  <2>5. meta' \in 1..MaxIndex /\ first' \in 1..MaxIndex
    BY <1>1, <1>4, <1>23
  <2> QED BY <1>10, <1>16, <1>23, <2>1, <2>2, <2>3, <2>4, <2>5 DEF TypeInv
<1>25. ExtentOK'
  <2>1. \A s \in ToSet(closed') : s.terms # <<>>
    BY <1>5, <1>7, <1>10
  <2>2. \A s \in segments' : LastOf(s) >= first'
    BY <1>4, <1>7, <1>11, <1>12
  <2>3. \A s \in segments' : Top(s, segments') => last' <= LastOf(s) /\ last' = LastOf(s)
    BY <1>22, <1>23
  <2> QED BY <1>4, <1>10, <1>20, <1>21, <1>22, <2>1, <2>2, <2>3 DEF ExtentOK
<1>26. \A f \in K : HasFile(Loaded(f))'
  BY <1>7, <1>13, <1>14 DEF HasFile
<1>27. HeldOK'
  BY <1>12, <1>16, <1>26 DEF HeldOK
<1>28. OpOK'
  BY <1>1, <1>4, IdleIs DEF OpOK
<1>29. OwnedOK'
  <2>1. Leaving' = {} /\ Live' = ToSet(open')
    BY <1>1, IdleIs DEF Leaving, Live
  <2>2. ASSUME NEW h \in files', Needed(h)' PROVE \E s \in segments' \union Leaving' : s.first = h.first
    <3>1. h \in M
      BY <1>1, <1>13, <1>30, <2>2 DEF Needed
    <3> QED BY <1>7, <1>12, <1>14, <3>1
  <2>3. ASSUME NEW h \in files', NEW s \in Live', s.first = h.first PROVE h.last = 0
    <3>1. PICK g \in Keep : s = Loaded(g)
      BY <1>10, <2>1, <2>3
    <3>2. g \in K
      BY DEF K
    <3>4. PICK f \in K : h = R(f)
      BY <1>7, <1>13, <1>31, <2>3, <3>1, <3>2
    <3>3. f = g
      BY <1>7, <1>11, <1>14, <2>3, <3>1, <3>2, <3>4
    <3> QED BY <1>5, <1>8, <1>14, <3>1, <3>2, <3>3, <3>4
  <2>4. ASSUME NEW h \in files', NEW s \in segments' \ Live', s.first = h.first PROVE h.last # 0
    <3>1. PICK g \in K : s = Loaded(g)
      BY <1>12, <2>4
    <3>4. CASE h \in left
      BY <1>30, <3>4
    <3>5. SUFFICES ASSUME NEW f \in K, h = R(f) PROVE h.last # 0
      BY <1>13, <3>4
    <3>2. g \in Full
      BY <1>10, <2>1, <2>4, <3>1 DEF K
    <3>3. f = g
      BY <1>7, <1>11, <1>14, <2>4, <3>1, <3>5
    <3> QED BY <1>5, <1>14, <3>1, <3>2, <3>3, <3>5
  <2> QED BY <2>1, <2>2, <2>3, <2>4 DEF OwnedOK
<1>33. ApartOK'
  <2>1. \A h \in files' : \E f \in files : f.first = h.first /\ f.last = h.last
    BY <1>11, <1>13, <1>14, <1>30
  <2> QED BY <1>2, <2>1 DEF ApartOK
<1>34. OpenOK'
  <2> SUFFICES ASSUME NEW s \in segments', NEW h \in files', h.first = s.first
               PROVE  h.last = 0 <=> s.first \in is_open'
    BY <1>1, IdleIs DEF OpenOK, Knows, IsOpen, Leaving
  <2>1. PICK g \in K : s = Loaded(g)
    BY <1>12
  <2>2. PICK f \in K : h = R(f)
    BY <1>7, <1>13, <1>31, <2>1
  <2>3. f = g
    BY <1>7, <1>11, <1>14, <2>1, <2>2
  <2>4. g.last = 0 => g \in Keep
    BY <1>5 DEF K
  <2>5. g.first \in is_open' => g \in Keep
    BY <1>4, <1>11 DEF K
  <2> QED BY <1>4, <1>5, <1>7, <1>8, <1>14, <2>1, <2>2, <2>3, <2>4, <2>5
<1> QED BY <1>1, <1>2, <1>4, <1>6, <1>17, <1>19, <1>24, <1>25, <1>27, <1>28, <1>29, <1>33, <1>34
        DEF IInv, MemoryInv, StepInv, FineInv, DiskInv, NameInv

-----------------------------------------------------------------------------
(* The specification.                                                      *)

LEMMA StepKeeps ==
    IInv /\ PowerOK /\ ResetOK /\ StaleOK /\ BehindOK /\ [Next]_vars => IInv'
<1> SUFFICES ASSUME IInv, PowerOK, ResetOK, StaleOK, BehindOK, [Next]_vars PROVE IInv'
  OBVIOUS
<1>1. CASE UNCHANGED vars
  <2>1. /\ UNCHANGED <<files, meta, first, last, closed, open, is_open>> /\ op' = op /\ (up' <=> up)
        /\ (broken' <=> broken) /\ (refused' <=> refused) /\ (bad' <=> bad)
    BY <1>1 DEF vars
  <2>2. TypeInv'
    BY <1>1 DEF vars, IInv, TypeInv, segments
  <2>3. DiskInv'
    <3>1. Resetting' <=> Resetting
      BY <2>1 DEF Resetting
    <3>2. NamesOK'
      BY <2>1 DEF IInv, DiskInv, NamesOK, NameOK
    <3>3. FilesOK => FilesOK'
      BY <2>1, DiskSame DEF IInv, DiskInv
    <3> QED BY <3>1, <3>2, <3>3 DEF IInv, DiskInv
  <2>4. MemoryInv'
    <3>1. ExtentOK /\ HeldOK => ExtentOK' /\ HeldOK'
      BY <2>1, ExtentSame, HeldSame
    <3> QED BY <2>1, <3>1 DEF IInv, MemoryInv
  <2>5. StepInv'
    <3>1. OpOK => OpOK'
      <4>1. Leaving' = Leaving /\ segments' = segments
        BY <2>1 DEF Leaving, segments
      <4>2. AppendOK => AppendOK'
        BY <2>1 DEF AppendOK
      <4>3. PrefixOK => PrefixOK'
        BY <2>1, <4>1 DEF PrefixOK
      <4>4. SuffixOK => SuffixOK'
        BY <2>1, <4>1 DEF SuffixOK
      <4>5. ResetOpOK => ResetOpOK'
        BY <2>1, <4>1 DEF ResetOpOK
      <4> QED BY <2>1, <4>2, <4>3, <4>4, <4>5 DEF OpOK
    <3>2. OwnedOK => OwnedOK'
      <4>1. Leaving' = Leaving /\ segments' = segments /\ Live' = Live
        BY <2>1 DEF Leaving, segments, Live
      <4>2. \A s : HasFile(s)' <=> HasFile(s)
        BY <2>1 DEF HasFile
      <4> QED BY <2>1, <4>1, OwnedSame
    <3> QED BY <2>1, <3>1, <3>2 DEF IInv, StepInv
  <2>6. NameInv'
    <3>1. (segments \union Leaving)' = segments \union Leaving
      BY <2>1 DEF segments, Leaving
    <3> QED BY <2>1, <3>1, NamesSame DEF IInv
  <2> QED BY <2>1, <2>2, <2>3, <2>4, <2>5, <2>6 DEF IInv, FineInv
<1>2. CASE Next
  BY <1>2, StepOfAppendEntries, StepOfCreate, StepOfOpenFull, StepOfClose, StepOfWrite, StepOfSync,
     StepOfAppendFails, StepOfTruncatePrefix, StepOfSaveMeta, StepOfPop, StepOfUnlink,
     StepOfUnlinked, StepOfTruncateSuffix, StepOfRename, StepOfFtruncate, StepOfReset,
     StepOfCrash, StepOfPowerLoss, StepOfRestart DEF Next
<1> QED BY <1>1, <1>2

\* The segments, in memory and in the files, are in order and without a hole at every
\* step of every operation, and stay so through crashes and losses of power; that
\* is what the steps of append_entries, truncate_prefix, truncate_suffix, reset and
\* init rely on (log.cpp). What is excluded is what the code does not withstand: a
\* reset that is interrupted, a removal that fails of a file still in use, and a
\* truncation or reset executed behind an error.
THEOREM SegmentsInductive ==
    ASSUME PowerOK, ResetOK, StaleOK, BehindOK
    PROVE  Spec => []IInv
<1>1. Init => IInv
  BY Starting
<1>2. IInv /\ [Next]_vars => IInv'
  BY StepKeeps
<1> QED BY <1>1, <1>2, PTL DEF Spec

\* No crash leaves files that init refuses (list_segments, Segment::load), and no
\* CHECK of the storage fails, if no removal of a file still in use fails without
\* notice (StaleOK; otherwise list_segments can find two open segments) and nothing
\* is executed behind an error (BehindOK; otherwise CHECK(!_open_segment) can fail).
THEOREM RestartAcceptsFiles ==
    ASSUME PowerOK, ResetOK, StaleOK, BehindOK
    PROVE  Spec => []RestartSucceeds
<1>1. IInv => RestartSucceeds
  <2> SUFFICES ASSUME IInv PROVE RestartSucceeds
    OBVIOUS
  <2>1. TypeInv /\ ~refused /\ ~bad
    BY DEF IInv, FineInv
  <2>2. {up, broken, refused, bad} \subseteq BOOLEAN
    <3>1. up \in BOOLEAN /\ broken \in BOOLEAN /\ refused \in BOOLEAN /\ bad \in BOOLEAN
      BY <2>1 DEF TypeInv
    <3> QED BY <3>1, Zenon
  <2>3. \A s \in segments : s.first \in 1..(MaxIndex + 1) /\ s.terms \in Seq(Terms)
    <3> SUFFICES ASSUME NEW s \in segments PROVE s.first \in 1..(MaxIndex + 1) /\ s.terms \in Seq(Terms)
      OBVIOUS
    <3>1. s \in SegmentType /\ s.first <= MaxIndex + 1
      BY <2>1, Memory DEF TypeInv
    <3> QED BY <3>1, SegmentStorageAssumption DEF SegmentType
  <2>4. \A f \in files : f.synced \in 0..Len(f.terms)
    <3> SUFFICES ASSUME NEW f \in files PROVE f.synced \in 0..Len(f.terms)
      OBVIOUS
    <3>1. f \in FileType /\ f.synced <= Len(f.terms)
      BY <2>1 DEF TypeInv
    <3>2. Len(f.terms) \in Nat /\ f.synced \in Nat
      BY <3>1, LenProperties DEF FileType
    <3> QED BY <3>1, <3>2
  <2> QED BY <2>1, <2>2, <2>3, <2>4 DEF RestartSucceeds, TypeOK, TypeInv
<1> QED BY <1>1, SegmentsInductive, PTL

\* Each index of the log is in a segment.
LEMMA FoundAt ==
    ASSUME TypeInv, ExtentOK, NEW i \in first..last
    PROVE  \E s \in segments : s.first <= i /\ i <= LastOf(s)
<1>1. first \in Nat /\ last \in Nat /\ i \in Nat /\ first <= i /\ i <= last
  BY SegmentStorageAssumption DEF TypeInv
<1>2. Pieces(segments) /\ segments # {}
  BY <1>1, Memory DEF ExtentOK
<1>3. PICK e : e \in segments /\ Top(e, segments)
  BY <1>2, InOrder DEF Top
<1>4. LastOf(e) >= i
  <2>1. last <= LastOf(e)
    BY <1>3 DEF ExtentOK
  <2>2. LastOf(e) \in Nat
    BY <1>2, <1>3, LastOfIs DEF Pieces
  <2> QED BY <1>1, <2>1, <2>2
<1>5. Tiled(segments, first)
  BY DEF ExtentOK
<1> QED BY <1>1, <1>2, <1>3, <1>4, <1>5, Covers

\* That one is what get_segment finds, and get_term what it has there.
LEMMA TermIs ==
    ASSUME TypeInv, ExtentOK, NEW i \in first..last, NEW s \in segments, s.first <= i, i <= LastOf(s)
    PROVE  get_segment(i) = {s} /\ get_term(i) = s.terms[i - s.first + 1]
<1>1. first \in Nat /\ last \in Nat /\ i \in Nat
  BY SegmentStorageAssumption DEF TypeInv
<1>2. Pieces(segments) /\ \A u, t \in segments : u.first = t.first => u = t
  BY Memory, InOrder
<1>3. \A t \in segments : t.first \in Nat /\ LastOf(t) \in Nat
  BY <1>2, LastOfIs DEF Pieces
<1>4. \A t \in segments : t.first <= i => t.first <= s.first
  <2> SUFFICES ASSUME NEW t \in segments, t.first <= i, s.first < t.first PROVE FALSE
    BY <1>3
  <2>1. LastOf(s) < t.first
    BY DEF ExtentOK, Tiled
  <2> QED BY <1>1, <1>3, <2>1
<1>5. get_segment(i) = {s}
  <2>1. s \in get_segment(i)
    BY <1>4 DEF get_segment
  <2>2. ASSUME NEW t \in get_segment(i) PROVE t = s
    <3>1. t \in segments /\ t.first <= i /\ s.first <= t.first
      BY <2>2 DEF get_segment
    <3>2. t.first = s.first
      BY <1>3, <1>4, <3>1
    <3> QED BY <1>2, <3>1, <3>2
  <2> QED BY <2>1, <2>2
<1> DEFINE found == {t \in get_segment(i) : i \in first..last /\ i <= LastOf(t)}
<1>6. found = {s}
  BY <1>5
<1>7. (CHOOSE t \in found : TRUE) = s
  BY <1>6
<1> QED BY <1>5, <1>6, <1>7 DEF get_term

\* Between any two steps, each index of the log is found by get_segment, in a segment
\* that has its entry, and the file has the same.
LEMMA Reading == IInv => ReadsDisk
<1> SUFFICES ASSUME IInv, up, NEW i \in first..last
             PROVE  \E s \in get_segment(i) :
                       /\ i <= LastOf(s)
                       /\ \E f \in files : /\ f.first = s.first
                                           /\ i - f.first + 1 <= Len(f.terms)
                                           /\ f.terms[i - f.first + 1] = get_term(i)
  BY DEF ReadsDisk
<1>1. TypeInv /\ ExtentOK /\ HeldOK
  BY DEF IInv, MemoryInv
<1>2. PICK s \in segments : s.first <= i /\ i <= LastOf(s)
  BY <1>1, FoundAt
<1>3. get_segment(i) = {s} /\ get_term(i) = s.terms[i - s.first + 1]
  BY <1>1, <1>2, TermIs
<1>4. PICK f \in files : f.first = s.first /\ f.terms = s.terms
  BY <1>1 DEF HeldOK, HasFile
<1>5. i - f.first + 1 <= Len(f.terms)
  <2>1. /\ s.first \in Nat /\ Len(s.terms) \in Nat
        /\ LastOf(s) = s.first + Len(s.terms) - 1
    BY <1>1, Memory, LastOfIs DEF Pieces
  <2>2. i \in Nat
    BY <1>1, SegmentStorageAssumption DEF TypeInv
  <2> QED BY <1>2, <1>4, <2>1, <2>2
<1> QED BY <1>2, <1>3, <1>4, <1>5

\* A reader, which may look at the segments between any two steps of the disk thread,
\* finds each entry of the log, and the file has the same (Segment::get), under the
\* assumptions of RestartAcceptsFiles.
THEOREM ReadsMatchDisk ==
    ASSUME PowerOK, ResetOK, StaleOK, BehindOK
    PROVE  Spec => []ReadsDisk
BY Reading, SegmentsInductive, PTL

-----------------------------------------------------------------------------
(* The segments are a LogStorage.                                          *)

\* A sync that fails without notice is survived unless the machine loses its power.
FsyncOK == "power" \in Faults => "fsync" \notin Faults

\* What the files F have from index k on is in the log l, which starts there.
Says(F, k, l) ==
    /\ l.first = k
    /\ \A f \in F : \A n \in 1..Len(f.terms) :
          f.first + n - 1 >= k => /\ f.first + n - k <= Len(l.entries)
                                  /\ f.terms[n] = l.entries[f.first + n - k]

\* How many entries of a file survive, and whether the last stable entry is among them.
Kept(f) == IF "power" \in Faults THEN f.synced ELSE Len(f.terms)
Stable(f) == f.first <= safe /\ safe <= f.first + Kept(f) - 1

\* A crash at any moment leaves the log, or the other one of the running operation,
\* with every entry that was reported stable.
SafeOK == safe \in Nat /\ safe <= last
LeavesALog == ~Resetting => Says(NeededFiles, meta, Log) \/ Says(NeededFiles, meta, other)
SafeOnDisk == safe >= meta => \E f \in NeededFiles : Stable(f)
OtherOK == op.of = "prefix" /\ op.pc # "unlink" => other = After(Log, op.k)
RecoverInv == SafeOK /\ LeavesALog /\ SafeOnDisk /\ OtherOK

\* The entries of the log are those of the segments.
LogFits ==
    /\ Log.first = first /\ Log.entries \in Seq(Terms) /\ Len(Log.entries) = last - first + 1
    /\ \A i \in first..last : \E s \in segments : s.first <= i /\ i <= LastOf(s)
    /\ \A s \in segments : \A i \in first..last :
          s.first <= i /\ i <= LastOf(s) => Log.entries[i - first + 1] = s.terms[i - s.first + 1]

LEMMA LogIs == TypeInv /\ ExtentOK => LogFits
<1> SUFFICES ASSUME TypeInv, ExtentOK PROVE LogFits
  OBVIOUS
<1>1. first \in Nat /\ last \in Nat /\ last >= first - 1 /\ last - first + 1 \in Nat
  BY SegmentStorageAssumption DEF TypeInv
<1>2. ASSUME NEW i \in first..last PROVE \E s \in segments : s.first <= i /\ i <= LastOf(s)
  BY <1>2, FoundAt
<1>3. \A i \in first..last : \A s \in segments :
         s.first <= i /\ i <= LastOf(s) => get_term(i) = s.terms[i - s.first + 1]
  BY TermIs
<1>4. ASSUME NEW i \in first..last PROVE get_term(i) \in Terms
  <2>1. PICK s \in segments : s.first <= i /\ i <= LastOf(s)
    BY <1>2
  <2>2. s \in SegmentType
    BY Memory
  <2>3. s.terms \in Seq(Terms) /\ s.first \in Nat /\ Len(s.terms) \in Nat
    BY <2>2, LenProperties DEF SegmentType
  <2>4. i - s.first + 1 \in 1..Len(s.terms)
    BY <1>1, <2>1, <2>3 DEF LastOf
  <2>5. s.terms[i - s.first + 1] \in Terms
    BY <2>3, <2>4, ElementOfSeq
  <2> QED BY <1>3, <2>1, <2>5
<1> DEFINE n == last - first + 1
           e == [j \in 1..n |-> get_term(first + j - 1)]
<1>5. e \in Seq(Terms) /\ Len(e) = n /\ Log.entries = e /\ Log.first = first
  <2>1. \A j \in 1..n : first + j - 1 \in first..last
    BY <1>1
  <2>2. \A j \in 1..n : get_term(first + j - 1) \in Terms
    BY <1>4, <2>1
  <2>3. e \in [1..n -> Terms]
    BY <2>2
  <2>4. e \in Seq(Terms)
    BY <1>1, <2>3
  <2>5. DOMAIN e = 1..n /\ DOMAIN e = 1..Len(e) /\ Len(e) \in Nat
    BY <2>4, LenProperties
  <2>6. Len(e) = n
    BY <1>1, <2>5
  <2> QED BY <2>4, <2>6 DEF Log
<1>6. ASSUME NEW s \in segments, NEW i \in first..last, s.first <= i, i <= LastOf(s)
      PROVE  Log.entries[i - first + 1] = s.terms[i - s.first + 1]
  <2>1. i - first + 1 \in 1..n /\ first + (i - first + 1) - 1 = i
    BY <1>1
  <2>2. e[i - first + 1] = get_term(i)
    BY <2>1
  <2> QED BY <1>3, <1>5, <1>6, <2>2
<1> QED BY <1>2, <1>5, <1>6 DEF LogFits

LEMMA UpFits == IInv /\ up => LogFits
BY LogIs DEF IInv, MemoryInv

\* No operation is under way, or the files it has still to remove are below the log.
AtRest ==
    /\ up /\ ~broken /\ meta = first /\ ~(op.of = "suffix" /\ op.cut)
    /\ \A s \in Leaving : LastOf(s) < meta

\* Then the files say what the log does.
LEMMA MemoryIsDisk == IInv /\ AtRest => Says(NeededFiles, meta, Log)
<1> SUFFICES ASSUME IInv, AtRest PROVE Says(NeededFiles, meta, Log)
  OBVIOUS
<1>1. /\ TypeInv /\ NamesOK /\ ExtentOK /\ HeldOK /\ OwnedOK /\ LogFits
      /\ ~broken /\ meta = first /\ ~(op.of = "suffix" /\ op.cut)
      /\ \A s \in Leaving : LastOf(s) < meta
  BY UpFits DEF AtRest, IInv, DiskInv, MemoryInv, StepInv
<1>2. first \in Nat /\ last \in Nat /\ last >= first - 1
  BY <1>1, SegmentStorageAssumption DEF TypeInv
<1> SUFFICES ASSUME NEW f \in NeededFiles, NEW n \in 1..Len(f.terms), f.first + n - 1 >= meta
             PROVE  /\ f.first + n - meta <= Len(Log.entries)
                    /\ f.terms[n] = Log.entries[f.first + n - meta]
  BY <1>1 DEF Says, LogFits
<1> DEFINE i == f.first + n - 1
<1>3. f \in files /\ f.first \in Nat /\ Len(f.terms) \in Nat /\ LastOf(f) = f.first + Len(f.terms) - 1
      /\ i \in Nat /\ i >= meta /\ i <= LastOf(f) /\ n = i - f.first + 1 /\ n \in Nat
  <2>1. f \in files /\ f.first \in Nat /\ Len(f.terms) \in Nat
        /\ LastOf(f) = f.first + Len(f.terms) - 1 /\ f.first # 0
    BY <1>1, Memory, LastOfIs DEF Pieces, NeededFiles
  <2> QED BY <2>1
<1>4. PICK s \in segments \union Leaving : s.first = f.first
  BY <1>1, <1>3 DEF OwnedOK, NeededFiles
<1>5. s.terms = f.terms
  <2>1. HasFile(s)
    BY <1>1 DEF HeldOK, OwnedOK
  <2> QED BY <1>1, <1>3, <1>4, <2>1 DEF HasFile, NamesOK
<1>6. LastOf(s) = LastOf(f)
  BY <1>4, <1>5 DEF LastOf
<1>7. s \in segments
  <2>1. ~(LastOf(s) < meta)
    BY <1>1, <1>2, <1>3, <1>6
  <2> QED BY <1>1, <1>4, <2>1
<1>8. LastOf(s) <= last
  BY <1>1, <1>7, Ends
<1>9. i \in first..last
  BY <1>1, <1>2, <1>3, <1>6, <1>8
<1>10. Log.entries[i - first + 1] = s.terms[i - s.first + 1]
  BY <1>1, <1>3, <1>4, <1>6, <1>7, <1>9 DEF LogFits
<1>11. Len(Log.entries) = last - first + 1
  BY <1>1 DEF LogFits
<1>12. f.first + n - meta = i - first + 1 /\ i - first + 1 <= last - first + 1 /\ i - s.first + 1 = n
  <2>1. /\ meta = first /\ first \in Nat /\ last \in Nat /\ f.first \in Nat /\ n \in Nat
        /\ s.first = f.first /\ i <= last
    BY <1>1, <1>2, <1>3, <1>4, <1>9
  <2> QED BY <2>1
<1> QED BY <1>5, <1>10, <1>11, <1>12

\* Files that have lost entries at their end say no other log.
LEMMA SaysLess ==
    ASSUME NEW F, NEW G, NEW k, NEW l, Pieces(F), Pieces(G), Says(F, k, l),
           \A g \in G : \E f \in F : /\ g.first = f.first /\ Len(g.terms) <= Len(f.terms)
                                     /\ \A n \in 1..Len(g.terms) : g.terms[n] = f.terms[n]
    PROVE  Says(G, k, l)
<1> SUFFICES ASSUME NEW g \in G, NEW n \in 1..Len(g.terms), g.first + n - 1 >= k
             PROVE  /\ g.first + n - k <= Len(l.entries)
                    /\ g.terms[n] = l.entries[g.first + n - k]
  BY DEF Says
<1>1. PICK f \in F : /\ g.first = f.first /\ Len(g.terms) <= Len(f.terms)
                     /\ \A m \in 1..Len(g.terms) : g.terms[m] = f.terms[m]
  OBVIOUS
<1>2. Len(g.terms) \in Nat /\ Len(f.terms) \in Nat
  BY LastOfIs DEF Pieces
<1>3. n \in 1..Len(f.terms)
  BY <1>1, <1>2
<1> QED BY <1>1, <1>3 DEF Says

\* The file that has the last stable entry is one that init needs.
StableNeeded ==
    \A f \in files : Stable(f) /\ safe \in Nat /\ safe >= meta =>
                        f \in NeededFiles /\ LastOf(f) >= safe
LEMMA StableIsNeeded == IInv => StableNeeded
<1> SUFFICES ASSUME IInv, NEW f \in files, Stable(f), safe \in Nat, safe >= meta
             PROVE  f \in NeededFiles /\ LastOf(f) >= safe
  BY DEF StableNeeded
<1>1. TypeInv /\ NameOK(f)
  BY DEF IInv, DiskInv, NamesOK
<1>2. /\ f \in FileType /\ f.synced <= Len(f.terms) /\ f.synced \in Nat /\ Len(f.terms) \in Nat
      /\ f.first \in Nat /\ LastOf(f) = f.first + Len(f.terms) - 1 /\ f.last \in Nat
  BY <1>1, LastOfIs, FileIsPiece DEF TypeInv, FileType
<1>3. LastOf(f) >= safe
  BY <1>2 DEF Stable, Kept
<1>4. meta \in Nat
  BY <1>1, SegmentStorageAssumption DEF TypeInv
<1>5. f.last # 0 => f.last >= meta
  BY <1>1, <1>2, <1>3, <1>4 DEF NameOK
<1> QED BY <1>3, <1>5 DEF NeededFiles, Needed

\* A step that keeps it, or the part of it that is stable.
LEMMA StableKept ==
    ASSUME IInv', RecoverInv, safe' = safe, safe >= meta' => safe >= meta,
           \A f \in NeededFiles : safe >= meta /\ safe >= meta' /\ Stable(f) =>
              \E g \in files' : g.first = f.first /\ safe <= g.first + Kept(g) - 1
    PROVE  SafeOnDisk'
<1> SUFFICES ASSUME safe' >= meta' PROVE \E g \in NeededFiles' : Stable(g)'
  BY DEF SafeOnDisk
<1>1. PICK f \in NeededFiles : Stable(f)
  BY DEF RecoverInv, SafeOnDisk
<1>2. PICK g \in files' : g.first = f.first /\ safe <= g.first + Kept(g) - 1
  BY <1>1
<1>3. Stable(g)'
  BY <1>1, <1>2 DEF Stable, Kept
<1>4. (IInv => StableNeeded)'
  BY StableIsNeeded, PTL
<1>5. safe' \in Nat
  BY DEF RecoverInv, SafeOK
<1>6. g \in NeededFiles'
  BY <1>2, <1>3, <1>4, <1>5 DEF StableNeeded
<1> QED BY <1>3, <1>6

\* What lies below the last stable entry is stable: the files before are closed.
LEMMA StableBelow ==
    ASSUME IInv, RecoverInv, ~Resetting, NEW k \in Nat, k >= meta, k <= safe
    PROVE  \E f \in NeededFiles : f.first <= k /\ k <= f.first + Kept(f) - 1
<1>1. TypeInv /\ NamesOK /\ FilesOK /\ Pieces(NeededFiles) /\ meta \in Nat /\ safe \in Nat
  BY Memory, SegmentStorageAssumption DEF IInv, DiskInv, TypeInv, RecoverInv, SafeOK
<1>2. PICK e \in NeededFiles : Stable(e)
  BY <1>1 DEF RecoverInv, SafeOnDisk
<1>3. e \in files /\ LastOf(e) >= safe
  BY <1>1, <1>2, StableIsNeeded DEF NeededFiles, StableNeeded
<1>4. \A f \in NeededFiles : f.first \in Nat /\ LastOf(f) \in Nat /\ LastOf(f) = f.first + Len(f.terms) - 1
                             /\ f \in files /\ Len(f.terms) \in Nat
  BY <1>1, LastOfIs DEF Pieces, NeededFiles
<1>5. PICK f \in NeededFiles : f.first <= k /\ k <= LastOf(f)
  <2>1. LastOf(e) >= k
    BY <1>1, <1>3, <1>4
  <2> QED BY <1>1, <2>1, Covers DEF FilesOK
<1>6. CASE f.first = e.first
  <2>1. f = e
    BY <1>4, <1>6, <1>1 DEF NamesOK
  <2>2. safe <= f.first + Kept(f) - 1
    BY <1>2, <2>1 DEF Stable
  <2>3. f.synced \in Nat /\ Kept(f) \in Nat
    BY <1>1, <1>4 DEF TypeInv, FileType, Kept
  <2> QED BY <1>1, <1>4, <1>5, <2>2, <2>3
<1>7. CASE f.first # e.first
  <2>1. ~(e.first < f.first)
    <3> SUFFICES ASSUME e.first < f.first PROVE FALSE
      OBVIOUS
    <3>1. LastOf(e) < f.first
      BY <1>1 DEF FilesOK, Tiled
    <3> QED BY <1>1, <1>3, <1>4, <1>5, <3>1
  <2>2. f.first < e.first
    BY <1>4, <1>7, <2>1
  <2>3. f.last # 0
    BY <1>1, <2>2 DEF FilesOK
  <2>4. Kept(f) = Len(f.terms)
    BY <1>1, <1>4, <2>3 DEF NamesOK, NameOK, Kept
  <2> QED BY <1>4, <1>5, <2>4
<1> QED BY <1>6, <1>7

-----------------------------------------------------------------------------
(* How a step keeps what a crash leaves, and what it does to the log.      *)

ContractNext == [Contract!Next]_<<up, first, Log.entries, other, safe>>

\* The log depends on the set of the segments only.
LEMMA LogSame ==
    ASSUME segments' = segments, first' = first, last' = last
    PROVE  Log' = Log
<1>1. \A i : get_segment(i)' = get_segment(i)
  BY DEF get_segment
<1>2. ASSUME NEW i PROVE get_term(i)' = get_term(i)
  <2> DEFINE found == {s \in get_segment(i) : i \in first..last /\ i <= LastOf(s)}
  <2> DEFINE of(S) == IF S = {} THEN 0 ELSE LET s == CHOOSE s \in S : TRUE IN s.terms[i - s.first + 1]
  <2>1. found' = found
    BY <1>1
  <2>2. get_term(i) = of(found)
    BY DEF get_term
  <2>3. get_term(i)' = of(found')
    BY DEF get_term
  <2> HIDE DEF found, of
  <2> QED BY <2>1, <2>2, <2>3
<1> DEFINE n == last - first + 1
           t(j) == get_term(first + j - 1)
<1>3. Log = [first |-> first, entries |-> [j \in 1..n |-> t(j)]]
  BY DEF Log
<1>4. Log' = [first |-> first', entries |-> [j \in 1..n' |-> t(j)']]
  BY DEF Log
<1>5. n' = n
  OBVIOUS
<1>6. \A j : t(j)' = t(j)
  <2> SUFFICES ASSUME NEW j PROVE t(j)' = t(j)
    OBVIOUS
  <2>1. t(j)' = get_term(first + j - 1)'
    OBVIOUS
  <2> QED BY <1>2
<1> HIDE DEF n, t
<1>7. [j \in 1..n' |-> t(j)'] = [j \in 1..n |-> t(j)]
  BY <1>5, <1>6, Zenon
<1> QED BY <1>3, <1>4, <1>7

\* What a step that changes the segments leaves of the entries.
Same(i) == i \in first..last /\ i \in first'..last' =>
              Log'.entries[i - first' + 1] = Log.entries[i - first + 1]
LEMMA EntriesKept ==
    ASSUME LogFits, LogFits',
           \A s \in segments', i \in first..last :
              s.first <= i /\ i <= LastOf(s) =>
                 \E t \in segments : /\ t.first <= i /\ i <= LastOf(t)
                                     /\ t.terms[i - t.first + 1] = s.terms[i - s.first + 1]
    PROVE  \A i : Same(i)
<1> SUFFICES ASSUME NEW i, i \in first..last, i \in first'..last'
             PROVE  Log'.entries[i - first' + 1] = Log.entries[i - first + 1]
  BY DEF Same
<1>1. PICK s \in segments' : s.first <= i /\ i <= LastOf(s)
  BY DEF LogFits
<1>2. Log'.entries[i - first' + 1] = s.terms[i - s.first + 1]
  BY <1>1 DEF LogFits
<1>3. PICK t \in segments : /\ t.first <= i /\ i <= LastOf(t)
                            /\ t.terms[i - t.first + 1] = s.terms[i - s.first + 1]
  BY <1>1
<1>4. Log.entries[i - first + 1] = t.terms[i - t.first + 1]
  BY <1>3 DEF LogFits
<1> QED BY <1>2, <1>3, <1>4

LEMMA LogKept ==
    ASSUME LogFits, LogFits', TypeInv, first' = first, last' = last, \A i : Same(i)
    PROVE  Log' = Log
<1>1. first \in Nat /\ last \in Nat
  BY SegmentStorageAssumption DEF TypeInv
<1>2. /\ Log.entries \in Seq(Terms) /\ Log'.entries \in Seq(Terms)
      /\ Len(Log.entries) = last - first + 1 /\ Len(Log'.entries) = last - first + 1
  BY DEF LogFits
<1>3. ASSUME NEW n \in 1..Len(Log.entries) PROVE Log'.entries[n] = Log.entries[n]
  <2>1. first + n - 1 \in first..last /\ (first + n - 1) - first + 1 = n
    BY <1>1, <1>2
  <2> QED BY <2>1 DEF Same
<1>4. Log'.entries = Log.entries
  BY <1>2, <1>3, SeqEqual
<1>5. Log = [first |-> first, entries |-> Log.entries] /\ Log' = [first |-> first', entries |-> Log'.entries]
  BY DEF Log
<1> QED BY <1>4, <1>5

\* A step after which no operation is in the middle of its changes.
LEMMA RestLeaves ==
    ASSUME IInv', AtRest'
    PROVE  LeavesALog'
<1>1. (IInv /\ AtRest => Says(NeededFiles, meta, Log))'
  BY MemoryIsDisk, PTL
<1> QED BY <1>1 DEF LeavesALog

\* A step that leaves the files as they are, or takes entries from their ends.
LEMMA LessLeaves ==
    ASSUME IInv, IInv', RecoverInv, ~Resetting, meta' = meta, Log' = Log, other' = other,
           \A g \in NeededFiles' : \E f \in NeededFiles :
              /\ g.first = f.first /\ Len(g.terms) <= Len(f.terms)
              /\ \A n \in 1..Len(g.terms) : g.terms[n] = f.terms[n]
    PROVE  LeavesALog'
<1>1. Pieces(NeededFiles)
  BY Memory DEF IInv
<1>2. Pieces(NeededFiles')
  <2>1. files' \in SUBSET FileType /\ NeededFiles' \in SUBSET files'
    BY DEF IInv, TypeInv, NeededFiles
  <2> QED BY <2>1, FileIsPiece DEF Pieces
<1>3. \A l : Says(NeededFiles, meta, l) => Says(NeededFiles', meta, l)
  BY <1>1, <1>2, SaysLess
<1> QED BY <1>3 DEF RecoverInv, LeavesALog

\* A step that removes or changes no file.
LEMMA SameFiles ==
    ASSUME IInv, IInv', RecoverInv, files \in SUBSET files', meta' = meta, safe' = safe
    PROVE  SafeOnDisk'
<1>1. \A f \in NeededFiles : Stable(f) => f \in files' /\ safe <= f.first + Kept(f) - 1
  BY DEF NeededFiles, Stable
<1> QED BY <1>1, StableKept

\* A step that changes one file.
LEMMA PutStable ==
    ASSUME IInv', RecoverInv, NamesOK, NEW f \in files, NEW g, files' = Put(f, g), g.first = f.first,
           meta' = meta, safe' = safe,
           f \in NeededFiles /\ Stable(f) /\ safe >= meta => safe <= g.first + Kept(g) - 1
    PROVE  SafeOnDisk'
<1> SUFFICES ASSUME NEW h \in NeededFiles, safe >= meta, Stable(h)
             PROVE  \E x \in files' : x.first = h.first /\ safe <= x.first + Kept(x) - 1
  BY StableKept
<1>1. CASE h = f
  BY <1>1 DEF Put
<1>2. CASE h # f
  <2>1. h \in files /\ h.first # g.first
    BY <1>2 DEF NeededFiles, NamesOK
  <2>2. h \in files'
    BY <1>2, <2>1 DEF Put, SameName
  <2> QED BY <2>2 DEF Stable
<1> QED BY <1>1, <1>2

\* A step that does no more than to tear a file, or to give it another name.
LEMMA TornLeaves ==
    ASSUME IInv, IInv', RecoverInv, ~Resetting, Log' = Log, meta' = meta, other' = other, safe' = safe,
           NEW f \in files, NEW g, files' = Put(f, g), g.first = f.first,
           g.last = f.last \/ f \in NeededFiles, g.terms = f.terms, g.synced = f.synced
    PROVE  LeavesALog' /\ SafeOnDisk'
<1>1. SafeOnDisk'
  <2>1. Stable(f) => safe <= g.first + Kept(g) - 1
    BY DEF Stable, Kept
  <2>2. NamesOK
    BY DEF IInv, DiskInv
  <2> QED BY <2>1, <2>2, PutStable
<1>2. ASSUME NEW h \in NeededFiles'
      PROVE  \E x \in NeededFiles : /\ h.first = x.first /\ Len(h.terms) <= Len(x.terms)
                                    /\ \A n \in 1..Len(h.terms) : h.terms[n] = x.terms[n]
  <2>1. \E x \in NeededFiles : h.first = x.first /\ h.terms = x.terms
    <3>1. CASE h = g
      <4>1. f \in NeededFiles
        BY <1>2, <3>1 DEF NeededFiles, Needed
      <4> QED BY <3>1, <4>1
    <3>2. CASE h # g
      BY <1>2, <3>2 DEF NeededFiles, Needed, Put
    <3> QED BY <3>1, <3>2
  <2>2. PICK x \in NeededFiles : h.first = x.first /\ h.terms = x.terms
    BY <2>1
  <2>3. Len(x.terms) \in Nat
    BY Memory, LastOfIs DEF IInv, Pieces
  <2> QED BY <2>2, <2>3
<1>3. LeavesALog'
  BY <1>2, LessLeaves
<1> QED BY <1>1, <1>3

LEMMA Quiet ==
    ASSUME up' = up, first' = first, Log' = Log, other' = other, safe' = safe
    PROVE  ContractNext
BY DEF ContractNext

LEMMA Returning ==
    ASSUME up, up' = up, first' = first, Log' = Log, other' = Log, safe' = safe \/ safe' = last, LogFits,
           TypeInv
    PROVE  ContractNext
<1>1. first + Len(Log.entries) - 1 = last
  BY SegmentStorageAssumption DEF LogFits, TypeInv
<1>2. Log = [first |-> first, entries |-> Log.entries]
  BY DEF Log
<1>3. Contract!Return
  BY <1>1, <1>2 DEF Contract!Return, Contract!Log, Contract!LastIndex
<1> QED BY <1>3 DEF ContractNext, Contract!Next

LEMMA Rests ==
    IInv /\ up /\ ~broken /\ op.of \in {"none", "append", "prefix"} /\ op.pc # "pop" => AtRest
<1> SUFFICES ASSUME IInv, up, ~broken, op.of \in {"none", "append", "prefix"}, op.pc # "pop"
             PROVE  AtRest
  OBVIOUS
<1>1. OpOK
  BY DEF IInv, StepInv
<1>2. CASE op.of = "none"
  BY <1>1, <1>2, EmptyToSet DEF OpOK, Idle, AtRest, Leaving
<1>3. CASE op.of = "append"
  BY <1>1, <1>3 DEF OpOK, AppendOK, AtRest, Leaving
<1>4. CASE op.of = "prefix"
  BY <1>1, <1>4, EmptyToSet DEF OpOK, PrefixOK, AtRest, Leaving
<1> QED BY <1>2, <1>3, <1>4

LEMMA RestsThen ==
    ASSUME IInv', up', ~broken', op'.of \in {"none", "append", "prefix"}, op'.pc # "pop"
    PROVE  LeavesALog'
<1>1. (IInv /\ up /\ ~broken /\ op.of \in {"none", "append", "prefix"} /\ op.pc # "pop" => AtRest)'
  BY Rests, PTL
<1> QED BY <1>1, RestLeaves

LEMMA StableThen ==
    ASSUME IInv', safe' \in Nat, NEW g \in files', g.first <= safe', safe' <= g.first + Kept(g) - 1
    PROVE  SafeOnDisk'
<1>1. (IInv => StableNeeded)'
  BY StableIsNeeded, PTL
<1>2. Stable(g)'
  BY DEF Stable, Kept
<1> QED BY <1>1, <1>2 DEF StableNeeded, SafeOnDisk

LEMMA FitsThen == ASSUME IInv', up' PROVE LogFits'
<1>1. (IInv /\ up => LogFits)'
  BY UpFits, PTL
<1> QED BY <1>1

\* The bounds of the log, now and then.
LEMMA Bounds ==
    ASSUME IInv, IInv'
    PROVE  /\ first \in Nat /\ last \in Nat /\ meta \in Nat /\ first >= 1 /\ meta >= 1
           /\ last >= first - 1 /\ first' \in Nat /\ last' \in Nat /\ meta' \in Nat
           /\ first' >= 1 /\ meta' >= 1 /\ last' >= first' - 1
           /\ first' <= MaxIndex /\ last' <= MaxIndex /\ MaxIndex \in Nat
           /\ closed' \in Seq(SegmentType) /\ open' \in Seq(SegmentType)
<1>1. TypeInv /\ TypeInv'
  BY DEF IInv
<1>2. /\ meta \in 1..MaxIndex /\ first \in 1..MaxIndex /\ last \in 0..MaxIndex /\ last >= first - 1
      /\ MaxIndex \in Nat
  BY <1>1, SegmentStorageAssumption DEF TypeInv
<1>3. /\ meta' \in 1..MaxIndex /\ first' \in 1..MaxIndex /\ last' \in 0..MaxIndex
      /\ last' >= first' - 1 /\ closed' \in Seq(SegmentType) /\ open' \in Seq(SegmentType)
  BY <1>1 DEF TypeInv
<1>4. first \in Nat /\ last \in Nat /\ meta \in Nat /\ first >= 1 /\ meta >= 1
  BY <1>2
<1>5. first' \in Nat /\ last' \in Nat /\ meta' \in Nat /\ first' >= 1 /\ meta' >= 1
  BY <1>2, <1>3
<1>6. first' <= MaxIndex /\ last' <= MaxIndex
  BY <1>2, <1>3
<1> QED BY <1>2, <1>3, <1>4, <1>5, <1>6

-----------------------------------------------------------------------------
(* append_entries.                                                         *)

LEMMA RefinesAppendEntries ==
    ASSUME IInv, IInv', RecoverInv, append_entries
    PROVE  RecoverInv' /\ ContractNext
<1>1. /\ up /\ up' = up /\ UNCHANGED <<files, meta, first, last, closed, open, broken, other, safe>>
      /\ ~broken /\ op'.of = "append" /\ op'.pc = "open"
  BY DEF append_entries, Begin, Idle, memory
<1>2. Log' = Log
  BY <1>1, LogSame DEF segments
<1>3. SafeOnDisk' /\ LeavesALog'
  BY <1>1, SameFiles, RestsThen
<1>4. SafeOK' /\ OtherOK'
  BY <1>1 DEF RecoverInv, SafeOK, OtherOK
<1> QED BY <1>1, <1>2, <1>3, <1>4, Quiet DEF RecoverInv

LEMMA RefinesCreate ==
    ASSUME IInv, IInv', RecoverInv, create_segment
    PROVE  RecoverInv' /\ ContractNext
<1>1. /\ up /\ up' = up /\ UNCHANGED <<meta, first, last, closed, broken, other, safe>>
      /\ op.pc \in {"open", "create"} /\ (op.pc = "open" => open = <<>>)
      /\ op' = [op EXCEPT !.pc = "open"] /\ open' = <<NewSegment(last + 1)>>
      /\ files' = Put(NewFile(last + 1), NewFile(last + 1))
  BY DEF create_segment, Goto
<1>2. /\ op.of = "append" /\ AppendOK /\ ~broken /\ op \in OpType(Seq(Terms)) /\ ExtentOK /\ TypeInv
  BY <1>1, InAppend DEF IInv
<1>3. open = <<>>
  BY <1>1, <1>2 DEF AppendOK
<1>4. op'.of = "append" /\ op'.pc = "open"
  BY <1>1, <1>2 DEF OpType
<1>5. LogFits /\ LogFits'
  BY <1>1, UpFits, FitsThen
<1>6. \A i : Same(i)
  <2>1. segments' = ToSet(closed) \union {NewSegment(last + 1)}
    <3>1. NewSegment(last + 1) \in SegmentType
      BY Bounds, EmptySeq DEF NewSegment, SegmentType
    <3>2. ToSet(open') = {NewSegment(last + 1)}
      BY <1>1, <3>1, Singleton
    <3> QED BY <1>1, <3>2, Bounds, MemoryNext
  <2>2. segments = ToSet(closed)
    BY <1>2, <1>3, Memory, EmptyToSet
  <2>3. ASSUME NEW s \in segments', NEW i \in first..last, s.first <= i PROVE s \in segments
    <3>1. ~(NewSegment(last + 1).first <= i)
      BY <2>3, Bounds DEF NewSegment
    <3> QED BY <2>1, <2>2, <2>3, <3>1
  <2>4. \A s \in segments', i \in first..last :
           s.first <= i /\ i <= LastOf(s) =>
              \E t \in segments : /\ t.first <= i /\ i <= LastOf(t)
                                  /\ t.terms[i - t.first + 1] = s.terms[i - s.first + 1]
    BY <2>3
  <2> QED BY <1>5, <2>4, EntriesKept
<1>7. Log' = Log
  BY <1>1, <1>2, <1>5, <1>6, LogKept
<1>8. SafeOnDisk' /\ LeavesALog'
  <2>1. ASSUME NEW f \in NeededFiles, Stable(f) PROVE f \in files'
    <3>1. f \in files /\ f.first <= safe /\ safe \in Nat /\ safe <= last /\ f \in FileType
      BY <1>2, <2>1 DEF NeededFiles, Stable, RecoverInv, SafeOK, TypeInv
    <3>2. f.first # last + 1
      BY <3>1, Bounds DEF FileType
    <3> QED BY <1>1, <3>1, <3>2 DEF Put, SameName, NewFile
  <2>2. \A f \in NeededFiles : Stable(f) => f \in files' /\ safe <= f.first + Kept(f) - 1
    BY <2>1 DEF Stable
  <2>3. SafeOnDisk'
    BY <1>1, <2>2, StableKept
  <2> QED BY <1>1, <1>2, <1>4, <2>3, RestsThen
<1>9. SafeOK' /\ OtherOK'
  BY <1>1, <1>4 DEF RecoverInv, SafeOK, OtherOK
<1> QED BY <1>1, <1>7, <1>8, <1>9, Quiet DEF RecoverInv

LEMMA RefinesOpenFull ==
    ASSUME IInv, IInv', RecoverInv, open_segment_full
    PROVE  RecoverInv' /\ ContractNext
<1>1. /\ up /\ up' = up /\ UNCHANGED <<files, meta, first, last, broken, other, safe>>
      /\ op.pc = "open" /\ op' = [op EXCEPT !.pc = "close"]
      /\ closed' = closed \o open /\ open' = <<>>
  BY DEF open_segment_full, Goto
<1>2. op.of = "append" /\ ~broken /\ op \in OpType(Seq(Terms)) /\ TypeInv
  BY <1>1, InAppend DEF IInv
<1>3. op'.of = "append" /\ op'.pc = "close"
  BY <1>1, <1>2 DEF OpType
<1>4. segments' = segments
  BY <1>1, Bounds, MemoryNext, EmptyToSet DEF segments
<1>5. Log' = Log
  BY <1>1, <1>4, LogSame
<1>6. SafeOnDisk' /\ LeavesALog'
  BY <1>1, <1>2, <1>3, SameFiles, RestsThen
<1>7. SafeOK' /\ OtherOK'
  BY <1>1, <1>3 DEF RecoverInv, SafeOK, OtherOK
<1> QED BY <1>1, <1>5, <1>6, <1>7, Quiet DEF RecoverInv

LEMMA RefinesClose ==
    ASSUME IInv, IInv', RecoverInv, close_segment
    PROVE  RecoverInv' /\ ContractNext
<1> DEFINE s == Last(closed)
           f == File(s)
           g == [f EXCEPT !.last = LastOf(s), !.synced = SyncedAtClose(s, f)]
<1>1. /\ up /\ up' = up /\ UNCHANGED <<meta, first, last, closed, open, broken, other, safe>>
      /\ op.pc = "close" /\ op' = [op EXCEPT !.pc = "create"] /\ files' = Put(f, g)
  BY DEF close_segment, Goto
<1>2. op.of = "append" /\ ~broken /\ op \in OpType(Seq(Terms)) /\ TypeInv /\ AppendOK
      /\ NamesOK /\ HeldOK /\ OwnedOK /\ OpenOK /\ ApartOK
  BY <1>1, InAppend DEF IInv
<1>3. op'.of = "append" /\ op'.pc = "create"
  BY <1>1, <1>2 DEF OpType
<1>4. Log' = Log
  BY <1>1, LogSame DEF segments
<1>5. /\ f \in files /\ f \in FileType /\ f.synced <= Len(f.terms) /\ f.synced \in Nat
      /\ Len(f.terms) \in Nat /\ f.first \in Nat
  <2>1. s \in segments
    <3>1. closed # <<>>
      BY <1>1, <1>2 DEF AppendOK
    <3> QED BY <1>2, <3>1, Memory, ElementsOf
  <2>2. f \in files /\ f \in FileType /\ f.synced <= Len(f.terms)
    BY <1>2, <2>1, FileOf
  <2> QED BY <2>2, LenProperties DEF FileType
<1> HIDE DEF f, s
<1>6. g.first = f.first /\ g.terms = f.terms /\ g.synced \in {f.synced, Len(f.terms)}
  BY <1>5 DEF FileType, SyncedAtClose
<1>7. Stable(f) => safe <= g.first + Kept(g) - 1
  <2> SUFFICES ASSUME Stable(f) PROVE safe <= g.first + Kept(g) - 1
    OBVIOUS
  <2>1. Kept(f) <= Kept(g) /\ Kept(f) \in Nat /\ Kept(g) \in Nat
    BY <1>5, <1>6 DEF Kept
  <2>2. safe \in Nat /\ safe <= f.first + Kept(f) - 1
    BY DEF Stable, RecoverInv, SafeOK
  <2> QED BY <1>5, <1>6, <2>1, <2>2
<1> HIDE DEF g
<1>8. SafeOnDisk'
  BY <1>1, <1>2, <1>5, <1>6, <1>7, PutStable
<1>9. LeavesALog'
  BY <1>1, <1>2, <1>3, RestsThen
<1>10. SafeOK' /\ OtherOK'
  BY <1>1, <1>3 DEF RecoverInv, SafeOK, OtherOK
<1> QED BY <1>1, <1>4, <1>8, <1>9, <1>10, Quiet DEF RecoverInv

LEMMA RefinesWrite ==
    ASSUME IInv, IInv', RecoverInv, write
    PROVE  RecoverInv' /\ ContractNext
<1> DEFINE s == open[1]
           f == File(s)
           t == Head(op.left)
           g == [f EXCEPT !.terms = Append(@, t)]
           s1 == [s EXCEPT !.terms = Append(@, t)]
<1>1. /\ up /\ up' = up /\ UNCHANGED <<meta, first, closed, broken, safe>>
      /\ op.pc = "open" /\ open # <<>> /\ files' = Put(f, g) /\ open' = <<s1>>
      /\ last' = last + 1 /\ other' = [Log EXCEPT !.entries = Append(@, t)]
      /\ op' = [op EXCEPT !.left = Tail(@), !.pc = IF Len(op.left) = 1 THEN "sync" ELSE "open"]
  BY DEF write
<1>2. /\ op.of = "append" /\ ~broken /\ op \in OpType(Seq(Terms)) /\ TypeInv /\ AppendOK
      /\ NamesOK /\ HeldOK /\ OwnedOK /\ OpenOK /\ ApartOK /\ ExtentOK
  BY <1>1, InAppend DEF IInv
<1>3. op'.of = "append" /\ op'.pc \in {"sync", "open"}
  BY <1>1, <1>2 DEF OpType
<1>4. t \in Terms
  <2>1. op.left \in Seq(Terms) /\ op.left # <<>>
    BY <1>1, <1>2 DEF AppendOK, OpType
  <2> QED BY <2>1, TailIs
<1>5. s \in SegmentType /\ ToSet(open) = {s} /\ s \in segments
  BY <1>1, <1>2, AtMostOne, Memory
<1>6. /\ s.terms \in Seq(Terms) /\ s.first \in Nat /\ Len(s.terms) \in Nat
      /\ LastOf(s) = s.first + Len(s.terms) - 1 /\ LastOf(s) \in Nat
  BY <1>5, LenProperties, SegmentIsPiece, LastOfIs DEF SegmentType
<1>7. LastOf(s) = last
  <2>1. LastSegment = s
    BY <1>1, <1>2, <1>5, InOrder
  <2> QED BY <1>2, <1>5, <2>1, Ends
<1>8. /\ f \in files /\ f \in FileType /\ f.synced <= Len(f.terms) /\ f.terms = s.terms
      /\ f.synced \in Nat
  <2>1. f \in files /\ f \in FileType /\ f.synced <= Len(f.terms) /\ f.terms = s.terms
    BY <1>2, <1>5, FileOf
  <2> QED BY <2>1 DEF FileType
<1> HIDE DEF f, s, t
<1>b. /\ first \in Nat /\ last \in Nat /\ last >= first - 1 /\ first' = first
      /\ first' \in Nat /\ last' \in Nat /\ last' = last + 1 /\ MaxIndex \in Nat
  BY <1>1, Bounds
<1>9. /\ s1.first = s.first /\ s1.terms = Append(s.terms, t) /\ s1 \in SegmentType
      /\ Len(s1.terms) = Len(s.terms) + 1 /\ s1.terms[Len(s.terms) + 1] = t
      /\ \A n \in 1..Len(s.terms) : s1.terms[n] = s.terms[n]
  <2>1. s1.first = s.first /\ s1.terms = Append(s.terms, t)
    BY <1>5 DEF SegmentType
  <2>2. /\ Append(s.terms, t) \in Seq(Terms) /\ Len(Append(s.terms, t)) = Len(s.terms) + 1
        /\ \A n \in 1..Len(s.terms) : Append(s.terms, t)[n] = s.terms[n]
        /\ Append(s.terms, t)[Len(s.terms) + 1] = t
    BY <1>4, <1>6, AppendProperties
  <2>3. s1 \in SegmentType
    BY <1>5, <2>1, <2>2 DEF SegmentType
  <2> QED BY <2>1, <2>2, <2>3
<1>10. g.first = f.first /\ g.synced = f.synced /\ g.terms = s1.terms
  BY <1>8, <1>9 DEF FileType
<1>11. LastOf(s1) = last + 1
  BY <1>6, <1>7, <1>9 DEF LastOf
<1> HIDE DEF s1
<1>12. LogFits /\ LogFits'
  BY <1>1, UpFits, FitsThen
<1>13. segments = ToSet(closed) \union {s} /\ segments' = ToSet(closed) \union {s1}
  BY <1>1, <1>2, <1>5, <1>9, Memory, Singleton, Bounds, MemoryNext
<1>14. \A i : Same(i)
  <2>1. ASSUME NEW x \in segments', NEW i \in first..last, x.first <= i, i <= LastOf(x)
        PROVE  \E u \in segments : /\ u.first <= i /\ i <= LastOf(u)
                                   /\ u.terms[i - u.first + 1] = x.terms[i - x.first + 1]
    <3>1. CASE x \in ToSet(closed)
      BY <1>13, <2>1, <3>1
    <3>2. CASE x = s1
      <4>1. i - s.first + 1 \in 1..Len(s.terms) /\ s.first <= i /\ i <= LastOf(s)
        BY <1>6, <1>7, <1>9, <2>1, <3>2, <1>b, SMTT(30)
      <4> QED BY <1>9, <1>13, <3>2, <4>1
    <3> QED BY <1>13, <3>1, <3>2
  <2> QED BY <1>12, <2>1, EntriesKept
<1>15. Log'.entries = Append(Log.entries, t)
  <2> DEFINE e == Log.entries
             e1 == Log'.entries
             a == Append(e, t)
  <2>1. /\ e \in Seq(Terms) /\ e1 \in Seq(Terms) /\ Len(e) = last - first + 1
        /\ Len(e1) = last + 1 - first + 1 /\ Len(e) \in Nat
    BY <1>12, <1>b DEF LogFits
  <2>2. /\ a \in Seq(Terms) /\ Len(a) = Len(e) + 1 /\ a[Len(e) + 1] = t
        /\ \A n \in 1..Len(e) : a[n] = e[n]
    BY <1>4, <2>1, AppendProperties
  <2>3. \A n \in 1..Len(e) : e1[n] = e[n]
    <3> SUFFICES ASSUME NEW n \in 1..Len(e) PROVE e1[n] = e[n]
      OBVIOUS
    <3>1. first + n - 1 \in first..last /\ first + n - 1 \in first..last + 1 /\ (first + n - 1) - first + 1 = n
      BY <2>1, <1>b
    <3> QED BY <1>14, <1>b, <3>1 DEF Same
  <2>4. e1[Len(e) + 1] = t
    <3>1. s1.first <= last + 1 /\ last + 1 \in first..last + 1
      BY <1>6, <1>7, <1>9, <1>b
    <3>2. s1 \in segments'
      BY <1>13
    <3>3. e1[last + 1 - first + 1] = s1.terms[last + 1 - s.first + 1]
      <4>1. \A x \in segments', i \in first'..last' :
               x.first <= i /\ i <= LastOf(x) => e1[i - first' + 1] = x.terms[i - x.first + 1]
        BY <1>12 DEF LogFits
      <4>2. last + 1 \in first'..last' /\ last + 1 <= LastOf(s1)
        BY <1>11, <3>1, <1>b
      <4>3. PICK j \in first'..last' : j = last + 1
        BY <4>2
      <4>4. e1[j - first' + 1] = s1.terms[j - s1.first + 1]
        BY <3>1, <3>2, <4>1, <4>2, <4>3
      <4>5. s1.terms[j - s1.first + 1] = s1.terms[j - s.first + 1]
        BY <1>9
      <4>6. j - first' + 1 = last + 1 - first + 1 /\ j - s.first + 1 = last + 1 - s.first + 1
        <5>1. first' = first /\ first \in Nat /\ last \in Nat /\ s.first \in Nat
          BY <1>b, <1>6
        <5>2. j - first' + 1 = last + 1 - first + 1
          BY <4>3, <5>1
        <5>3. j - s.first + 1 = last + 1 - s.first + 1
          BY <4>3, <5>1
        <5> QED BY <5>2, <5>3
      <4> QED BY <4>4, <4>5, <4>6
    <3>4. last + 1 - s.first + 1 = Len(s.terms) + 1 /\ last + 1 - first + 1 = Len(e) + 1
      <4>1. s.first + Len(s.terms) = last + 1
        BY <1>6, <1>7
      <4>2. s.first \in Nat /\ Len(s.terms) \in Nat /\ first \in Nat /\ last \in Nat
        BY <1>6, <1>b
      <4> HIDE DEF e
      <4>3. last + 1 - s.first + 1 = Len(s.terms) + 1
        BY <4>1, <4>2
      <4>4. last + 1 - first + 1 = Len(e) + 1
        BY <2>1, <4>2
      <4> QED BY <4>3, <4>4
    <3> QED BY <1>9, <3>3, <3>4
  <2> HIDE DEF e, e1, a
  <2>5. \A n \in 1..Len(e1) : e1[n] = a[n]
    <3> SUFFICES ASSUME NEW n \in 1..Len(e1) PROVE e1[n] = a[n]
      OBVIOUS
    <3>1. n \in 1..Len(e) \/ n = Len(e) + 1
      BY <2>1, <1>b
    <3> QED BY <2>2, <2>3, <2>4, <3>1
  <2>6. Len(e1) = Len(a)
    BY <2>1, <2>2, <1>b
  <2>7. e1 = a
    BY <2>1, <2>2, <2>5, <2>6, SeqEqual
  <2> QED BY <2>7 DEF e1, a, e
<1>16. ContractNext
  <2> DEFINE e == Log.entries
             e1 == Log'.entries
  <2>1. Log = [first |-> first, entries |-> e]
    BY DEF Log
  <2>2. other' = [first |-> first, entries |-> e1]
    <3> HIDE DEF e
    <3>1. e1 = Append(e, t)
      BY <1>15 DEF e
    <3> HIDE DEF e1
    <3> QED BY <1>1, <2>1, <3>1
  <2>3. Contract!append_entry(t)
    <3>1. Contract!Log = [first |-> first, entries |-> e]
      BY DEF Contract!Log
    <3>2. UNCHANGED <<up, first, safe>> /\ (Log.entries)' = e1
      BY <1>1
    <3>3. [Contract!Log EXCEPT !.entries = e1] = [first |-> first, entries |-> e1]
      BY <3>1
    <3> HIDE DEF e, e1
    <3>4. (Log.entries)' = Append(Log.entries, t)
      BY <1>15, <3>2 DEF e1
    <3>5. other' = [Contract!Log EXCEPT !.entries = (Log.entries)']
      BY <2>2, <3>2, <3>3
    <3> QED BY <3>2, <3>4, <3>5 DEF Contract!append_entry
  <2> QED BY <1>1, <1>4, <2>3 DEF ContractNext, Contract!Next
<1>17. SafeOnDisk'
  <2>1. Stable(f) => safe <= g.first + Kept(g) - 1
    <3> SUFFICES ASSUME Stable(f) PROVE safe <= g.first + Kept(g) - 1
      OBVIOUS
    <3>1. Kept(f) <= Kept(g) /\ Kept(f) \in Nat /\ Kept(g) \in Nat
      BY <1>6, <1>8, <1>9, <1>10 DEF Kept
    <3>2. safe \in Nat /\ safe <= f.first + Kept(f) - 1 /\ f.first \in Nat
      BY <1>8 DEF Stable, RecoverInv, SafeOK, FileType
    <3> QED BY <1>10, <3>1, <3>2
  <2> HIDE DEF g
  <2> QED BY <1>1, <1>2, <1>8, <1>10, <2>1, PutStable
<1>18. LeavesALog'
  BY <1>1, <1>2, <1>3, RestsThen
<1>19. SafeOK' /\ OtherOK'
  BY <1>1, <1>3, Bounds DEF RecoverInv, SafeOK, OtherOK
<1> QED BY <1>16, <1>17, <1>18, <1>19 DEF RecoverInv

LEMMA RefinesSync ==
    ASSUME IInv, IInv', RecoverInv, FsyncOK, sync
    PROVE  RecoverInv' /\ ContractNext
<1> DEFINE s == open[1]
           f == File(s)
<1>1. /\ up /\ up' = up /\ UNCHANGED <<meta, first, last, closed, open, broken>>
      /\ op.pc = "sync" /\ (files' = Put(f, Flushed(f)) \/ (files' = files /\ "fsync" \in Faults))
      /\ safe' = last /\ op' = Idle /\ other' = Log
  BY DEF sync, Returns, Fault, memory
<1>2. /\ op.of = "append" /\ ~broken /\ TypeInv /\ AppendOK
      /\ NamesOK /\ HeldOK /\ OwnedOK /\ OpenOK /\ ApartOK /\ ExtentOK /\ Live = ToSet(open) /\ meta = first
  BY <1>1, InAppend DEF IInv
<1>3. s \in segments /\ Live = {s}
  <2>1. open # <<>>
    BY <1>1, <1>2 DEF AppendOK
  <2> QED BY <1>2, <2>1, AtMostOne, Memory
<1>4. f \in files /\ f \in FileType /\ f.first = s.first /\ f.last = 0
      /\ \A h \in files : h.first = s.first => h = f
  BY <1>2, <1>3, FileOf
<1> HIDE DEF f, s
<1>5. Log' = Log
  BY <1>1, LogSame DEF segments
<1>6. SafeOnDisk'
  <2>1. CASE last < meta
    BY <1>1, <2>1, Bounds DEF SafeOnDisk
  <2>2. CASE last >= meta
    <3>1. PICK x \in segments : x.first <= last /\ last <= LastOf(x)
      BY <1>2, <2>2, Bounds, FoundAt
    <3> DEFINE h == File(x)
    <3>2. /\ h \in files /\ h.first = x.first /\ LastOf(h) = LastOf(x) /\ h \in FileType /\ NameOK(h)
          /\ x \notin Live => h.last # 0
      BY <1>2, FileOf
    <3> HIDE DEF h
    <3>3. h.first \in Nat /\ Len(h.terms) \in Nat /\ LastOf(h) = h.first + Len(h.terms) - 1
      BY <3>2, FileIsPiece, LastOfIs
    <3>4. CASE x \notin Live
      <4>1. Kept(h) = Len(h.terms)
        BY <3>2, <3>4 DEF NameOK, Kept
      <4>2. h \in files'
        <5>1. h # f
          BY <1>4, <3>2, <3>4
        <5>2. Flushed(f).last = 0
          BY <1>4 DEF Flushed, FileType
        <5> QED BY <1>1, <3>2, <3>4, <5>1, <5>2 DEF Put, SameName
      <4> QED BY <1>1, <3>1, <3>2, <3>3, <4>1, <4>2, StableThen, Bounds
    <3>5. CASE x \in Live /\ files' = Put(f, Flushed(f))
      <4>1. h = f
        BY <1>3, <1>4, <3>2, <3>5
      <4> DEFINE g == Flushed(f)
      <4>2. g \in files' /\ g.first = f.first /\ Kept(g) = Len(f.terms)
        BY <1>4, <3>5 DEF Put, Flushed, Kept, FileType
      <4> HIDE DEF g
      <4> QED BY <1>1, <3>1, <3>2, <3>3, <4>1, <4>2, StableThen, Bounds
    <3>6. CASE files' = files /\ "fsync" \in Faults
      <4>1. Kept(h) = Len(h.terms)
        BY <3>6 DEF FsyncOK, Kept
      <4> QED BY <1>1, <3>1, <3>2, <3>3, <3>6, <4>1, StableThen, Bounds
    <3> QED BY <1>1, <3>4, <3>5, <3>6
  <2> QED BY <2>1, <2>2, Bounds
<1>7. LeavesALog'
  BY <1>1, <1>2, RestsThen DEF Idle
<1>8. SafeOK' /\ OtherOK'
  BY <1>1, Bounds DEF SafeOK, OtherOK, Idle
<1>9. LogFits
  BY <1>1, UpFits
<1> QED BY <1>1, <1>2, <1>5, <1>6, <1>7, <1>8, <1>9, Returning DEF RecoverInv

LEMMA RefinesAppendFails ==
    ASSUME IInv, IInv', RecoverInv, append_fails
    PROVE  RecoverInv' /\ ContractNext
<1>1. /\ up /\ up' = up /\ UNCHANGED <<meta, first, last, other, safe>> /\ op' = Idle
      /\ op.pc \in {"open", "create", "close"}
      /\ \/ /\ op.pc \in {"close", "create"}
            /\ closed' = Front(closed) /\ open' = <<Last(closed)>> /\ files' = files
         \/ UNCHANGED <<files, closed, open>>
         \/ /\ open # <<>> /\ UNCHANGED <<closed, open>>
            /\ files' = Put(File(open[1]), [File(open[1]) EXCEPT !.tail = "torn"])
  BY FailedIs DEF append_fails
<1>2. /\ op.of = "append" /\ TypeInv /\ AppendOK /\ NamesOK /\ HeldOK /\ OwnedOK /\ OpenOK /\ ApartOK
  BY <1>1, InAppend DEF IInv
<1>3. segments' = segments
  <2>1. CASE UNCHANGED <<closed, open>>
    BY <2>1 DEF segments
  <2>2. CASE /\ op.pc \in {"close", "create"}
             /\ closed' = Front(closed) /\ open' = <<Last(closed)>>
    <3>1. closed # <<>> /\ open = <<>> /\ closed \in Seq(SegmentType)
      BY <1>2, <2>2, Memory DEF AppendOK
    <3>2. ToSet(closed) = ToSet(Front(closed)) \union {Last(closed)} /\ Last(closed) \in SegmentType
      BY <3>1, FrontIs, ElementsOf
    <3>3. segments' = ToSet(closed') \union ToSet(open')
      BY Bounds, MemoryNext
    <3>4. ToSet(open') = {Last(closed)}
      BY <2>2, <3>2, Singleton
    <3>5. segments = ToSet(closed)
      BY <1>2, <3>1, Memory, EmptyToSet
    <3> QED BY <2>2, <3>2, <3>3, <3>4, <3>5
  <2> QED BY <1>1, <2>1, <2>2
<1>4. Log' = Log
  BY <1>1, <1>3, LogSame
<1>5. ~Resetting
  BY <1>2 DEF Resetting
<1>6. LeavesALog' /\ SafeOnDisk'
  <2>1. CASE files' = files
    <3>1. SafeOnDisk'
      BY <1>1, <2>1, SameFiles
    <3>2. NeededFiles' = NeededFiles
      BY <1>1, <2>1 DEF NeededFiles, Needed
    <3>3. \A g \in NeededFiles' : Len(g.terms) <= Len(g.terms)
      <4> SUFFICES ASSUME NEW g \in NeededFiles PROVE Len(g.terms) <= Len(g.terms)
        BY <3>2
      <4>1. Len(g.terms) \in Nat
        BY <1>2, Memory, LastOfIs DEF Pieces
      <4> QED BY <4>1
    <3>4. LeavesALog'
      BY <1>1, <1>4, <1>5, <3>2, <3>3, LessLeaves
    <3> QED BY <3>1, <3>4
  <2>2. CASE /\ open # <<>>
             /\ files' = Put(File(open[1]), [File(open[1]) EXCEPT !.tail = "torn"])
    <3> DEFINE f == File(open[1])
               g == [f EXCEPT !.tail = "torn"]
    <3>1. f \in files /\ f \in FileType
      <4>1. open[1] \in segments
        BY <1>2, <2>2, AtMostOne, Memory
      <4> QED BY <1>2, <4>1, FileOf
    <3>2. files' = Put(f, g)
      BY <2>2
    <3> HIDE DEF f
    <3>3. g.first = f.first /\ g.last = f.last /\ g.terms = f.terms /\ g.synced = f.synced
      BY <3>1 DEF FileType
    <3> HIDE DEF g
    <3> QED BY <1>1, <1>4, <1>5, <3>1, <3>2, <3>3, TornLeaves
  <2> QED BY <1>1, <2>1, <2>2
<1>7. SafeOK' /\ OtherOK'
  BY <1>1 DEF RecoverInv, SafeOK, OtherOK, Idle
<1> QED BY <1>1, <1>4, <1>6, <1>7, Quiet DEF RecoverInv

-----------------------------------------------------------------------------
(* truncate_prefix.                                                        *)

LEMMA RefinesTruncatePrefix ==
    ASSUME IInv, IInv', RecoverInv, BehindOK, truncate_prefix
    PROVE  RecoverInv' /\ ContractNext
<1>1. /\ up /\ up' = up /\ UNCHANGED <<files, meta, first, last, closed, open, broken, safe>>
      /\ op = Idle /\ ~broken
  BY DEF truncate_prefix, memory, Executes, BehindOK
<1>2. PICK k \in (first + 1)..(last + 2) :
         /\ k <= MaxIndex /\ other' = After(Log, k)
         /\ op' = [Idle EXCEPT !.of = "prefix", !.pc = "meta", !.left = <<>>, !.k = k]
  BY DEF truncate_prefix, Begin
<1>3. op'.of = "prefix" /\ op'.pc = "meta" /\ op'.k = k
  BY <1>2 DEF Idle
<1>4. Log' = Log
  BY <1>1, LogSame DEF segments
<1>5. SafeOnDisk' /\ LeavesALog'
  BY <1>1, <1>3, SameFiles, RestsThen
<1>6. SafeOK' /\ OtherOK'
  BY <1>1, <1>2, <1>3, <1>4 DEF RecoverInv, SafeOK, OtherOK
<1>7. ContractNext
  <2>1. k \in 1..MaxIndex /\ k >= first
    BY <1>2, Bounds, SMTT(30)
  <2>2. Contract!After(Contract!Log, k) = After(Log, k)
    BY DEF Contract!After, Contract!Log, After, Log
  <2>3. (Log.entries)' = Log.entries
    BY <1>4
  <2>4. Contract!begin_truncate_prefix(k)
    BY <1>1, <1>2, <2>1, <2>2, <2>3 DEF Contract!begin_truncate_prefix
  <2> QED BY <1>1, <2>1, <2>4 DEF ContractNext, Contract!Next
<1> QED BY <1>5, <1>6, <1>7 DEF RecoverInv

\* What is left of a log says what the files do of the indexes that are left.
LEMMA SaysAfter ==
    ASSUME NEW F, NEW G \in SUBSET F, NEW m \in Nat, NEW k \in Nat, m <= k, NEW l, Says(F, m, l),
           Pieces(F), l.entries \in Seq(Terms)
    PROVE  Says(G, k, After(l, k))
<1> DEFINE e == l.entries
           a == After(l, k)
<1>1. a.first = k /\ a.entries = SubSeq(e, k - m + 1, Len(e))
  BY DEF After, Says
<1> SUFFICES ASSUME NEW f \in G, NEW n \in 1..Len(f.terms), f.first + n - 1 >= k
             PROVE  f.first + n - k <= Len(a.entries) /\ f.terms[n] = a.entries[f.first + n - k]
  BY <1>1 DEF Says
<1>2. f.first \in Nat /\ Len(f.terms) \in Nat /\ n \in Nat
  BY LastOfIs DEF Pieces
<1>3. f.first + n - 1 >= m
  BY <1>2
<1>4. f.first + n - m <= Len(e) /\ f.terms[n] = e[f.first + n - m]
  BY <1>3 DEF Says
<1>5. e \in Seq(Terms) /\ Len(e) \in Nat
  BY LenProperties
<1> HIDE DEF e, a
<1> DEFINE b == k - m + 1
           i == f.first + n - k
<1>6. /\ b \in 1..Len(e) + 1 /\ Len(e) \in 0..Len(e) /\ b <= Len(e) + 1
      /\ i \in 1..Len(e) - b + 1 /\ b + i - 1 = f.first + n - m
  <2> SUFFICES ASSUME NEW x \in Nat, NEW y \in Nat, x = f.first, y = Len(e)
               PROVE  /\ b \in 1..y + 1 /\ y \in 0..y /\ b <= y + 1
                      /\ x + n - k \in 1..y - b + 1 /\ b + (x + n - k) - 1 = x + n - m
    BY <1>2, <1>5
  <2>1. x + n - 1 >= k /\ x + n - m <= y /\ n \in Nat
    BY <1>2, <1>4
  <2>2. b \in 1..y + 1 /\ y \in 0..y /\ b <= y + 1
    BY <2>1
  <2>3. x + n - k \in 1..y - b + 1
    <3>1. x + n - k \in Int /\ x + n - k >= 1
      BY <2>1
    <3>2. y - b + 1 = y + m - k
      OBVIOUS
    <3>3. x + n - k <= y + m - k
      BY <2>1
    <3> HIDE DEF b
    <3> QED BY <3>1, <3>2, <3>3
  <2>4. b + (x + n - k) - 1 = x + n - m
    BY <2>1
  <2> QED BY <2>2, <2>3, <2>4
<1> HIDE DEF b
<1>7. /\ Len(SubSeq(e, b, Len(e))) = Len(e) - b + 1
      /\ \A j \in 1..Len(e) - b + 1 : SubSeq(e, b, Len(e))[j] = e[b + j - 1]
  BY <1>5, <1>6, PartOf, SMTT(30)
<1>8. a.entries = SubSeq(e, b, Len(e))
  BY <1>1 DEF b
<1> HIDE DEF i
<1>9. a.entries[i] = e[f.first + n - m]
  BY <1>6, <1>7, <1>8
<1>10. i <= Len(a.entries)
  BY <1>6, <1>7, <1>8
<1> QED BY <1>4, <1>9, <1>10 DEF i

LEMMA RefinesSaveMeta ==
    ASSUME IInv, IInv', RecoverInv, save_meta
    PROVE  RecoverInv' /\ ContractNext
<1>1. /\ up /\ up' = up /\ UNCHANGED <<files, first, last, closed, open, other, safe>> /\ op.pc = "meta"
      /\ \/ meta' = op.k /\ op' = [op EXCEPT !.pc = IF op.of = "prefix" THEN "pop" ELSE "unlink"]
         \/ op' = Idle /\ meta' = meta
  BY FailedIs DEF save_meta, memory, Goto
<1>2. /\ op.of \in {"prefix", "reset"} /\ TypeInv /\ OpOK /\ ~broken /\ op \in OpType(Seq(SegmentType))
      /\ ExtentOK
  <2>1. op.of \in {"prefix", "reset"} /\ TypeInv /\ OpOK /\ ~broken /\ ExtentOK
    BY <1>1, AtStep DEF IInv, MemoryInv
  <2> QED BY <2>1 DEF TypeInv
<1>3. Log' = Log
  BY <1>1, LogSame DEF segments
<1>4. SafeOK'
  BY <1>1 DEF RecoverInv, SafeOK
<1>5. ContractNext
  BY <1>1, <1>3, Quiet
<1>6. CASE op' = Idle /\ meta' = meta
  <2>1. SafeOnDisk'
    BY <1>1, <1>6, SameFiles
  <2>2. NeededFiles' = NeededFiles
    BY <1>1, <1>6 DEF NeededFiles, Needed
  <2>3. LeavesALog'
    BY <1>1, <1>3, <1>6, <2>2 DEF RecoverInv, LeavesALog, Resetting
  <2>4. OtherOK'
    BY <1>6 DEF OtherOK, Idle
  <2> QED BY <1>4, <1>5, <2>1, <2>3, <2>4 DEF RecoverInv
<1>7. CASE meta' = op.k /\ op' = [op EXCEPT !.pc = IF op.of = "prefix" THEN "pop" ELSE "unlink"]
  <2>1. op'.of = op.of /\ op'.k = op.k /\ op'.pc = IF op.of = "prefix" THEN "pop" ELSE "unlink"
    BY <1>2, <1>7 DEF OpType
  <2>2. CASE op.of = "prefix"
    <3>1. meta = first /\ first < op.k /\ other = After(Log, op.k)
      BY <1>1, <1>2, <2>2 DEF OpOK, PrefixOK, RecoverInv, OtherOK
    <3>2. OtherOK'
      BY <1>1, <1>3, <2>1, <3>1 DEF OtherOK
    <3>3. SafeOnDisk'
      <4>1. safe >= meta' => safe >= meta
        BY <1>7, <3>1, Bounds DEF RecoverInv, SafeOK
      <4>2. \A f \in NeededFiles : Stable(f) => f \in files' /\ safe <= f.first + Kept(f) - 1
        BY <1>1 DEF NeededFiles, Stable
      <4> QED BY <1>1, <4>1, <4>2, StableKept
    <3>4. Says(NeededFiles, meta, Log)
      BY <1>1, <1>2, <2>2, Rests, MemoryIsDisk
    <3>5. NeededFiles' \in SUBSET NeededFiles
      <4>1. \A f \in files : f.last \in Nat
        BY <1>2 DEF TypeInv, FileType
      <4> QED BY <1>1, <1>7, <3>1, <4>1, Bounds DEF NeededFiles, Needed
    <3>6. Says(NeededFiles', op.k, After(Log, op.k))
      <4>1. Log.entries \in Seq(Terms) /\ Pieces(NeededFiles)
        BY <1>1, <1>2, UpFits, Memory DEF LogFits
      <4>2. meta \in Nat /\ op.k \in Nat /\ meta <= op.k
        BY <1>7, <3>1, Bounds
      <4> QED BY <3>4, <3>5, <4>1, <4>2, SaysAfter
    <3>7. LeavesALog'
      BY <1>1, <1>7, <3>1, <3>6 DEF LeavesALog
    <3> QED BY <1>4, <1>5, <3>2, <3>3, <3>7 DEF RecoverInv
  <2>3. CASE op.of = "reset"
    <3>1. segments = {} /\ op.k = first
      BY <1>2, <2>3 DEF OpOK, ResetOpOK
    <3>2. last = first - 1
      BY <1>2, <3>1 DEF ExtentOK
    <3>3. ~(safe' >= meta')
      BY <1>1, <1>7, <3>1, <3>2, Bounds DEF RecoverInv, SafeOK
    <3>4. Resetting'
      BY <2>1, <2>3 DEF Resetting
    <3>5. LeavesALog' /\ SafeOnDisk' /\ OtherOK'
      BY <2>1, <2>3, <3>3, <3>4 DEF LeavesALog, SafeOnDisk, OtherOK
    <3> QED BY <1>4, <1>5, <3>5 DEF RecoverInv
  <2> QED BY <1>2, <2>2, <2>3
<1> QED BY <1>1, <1>6, <1>7

LEMMA Remainder ==
    ASSUME NEW S, NEW q \in Seq(S), NEW a \in Nat, a >= 1
    PROVE  LET r == SubSeq(q, a, Len(q))
           IN  /\ a <= Len(q) => /\ r \in Seq(S) /\ Len(r) = Len(q) - a + 1
                                 /\ \A i \in 1..Len(q) - a + 1 : r[i] = q[a + i - 1]
               /\ a > Len(q) => r = <<>>
<1>1. Len(q) \in Nat
  BY LenProperties
<1>2. CASE a <= Len(q)
  <2>1. a \in 1..Len(q) + 1 /\ Len(q) \in 0..Len(q) /\ a <= Len(q) + 1 /\ ~(a > Len(q))
    BY <1>1, <1>2
  <2> QED BY <2>1, PartOf
<1>3. CASE a > Len(q)
  <2>1. 1..(1 + Len(q) - a) = {}
    BY <1>1, <1>3
  <2>2. SubSeq(q, a, Len(q)) = <<>>
    BY <1>1, <1>3, <2>1
  <2> QED BY <1>1, <1>3, <2>2
<1> QED BY <1>1, <1>2, <1>3

\* The log without what is below index k.
LEMMA LogAfter ==
    ASSUME LogFits, LogFits', NEW k \in Nat, first \in Nat, last \in Nat, last >= first - 1, k >= first,
           first' = k, last' = (IF last >= k THEN last ELSE k - 1), \A i : Same(i)
    PROVE  Log'.entries = After(Log, k).entries
<1> DEFINE e == Log.entries
           e1 == Log'.entries
           a == k - first + 1
           r == SubSeq(e, a, Len(e))
<1>1. After(Log, k).entries = r
  BY DEF After, LogFits
<1>2. e \in Seq(Terms) /\ e1 \in Seq(Terms) /\ Len(e) = last - first + 1 /\ Len(e1) = last' - first' + 1
  BY DEF LogFits
<1>3. a \in Nat /\ a >= 1
  OBVIOUS
<1>4. \A i \in k..last : e1[i - first' + 1] = e[i - first + 1]
  <2> SUFFICES ASSUME NEW i \in k..last PROVE e1[i - first' + 1] = e[i - first + 1]
    OBVIOUS
  <2>1. i \in first..last /\ i \in k..last /\ last >= k
    OBVIOUS
  <2> QED BY <2>1 DEF Same
<1> HIDE DEF e, e1
<1>5. CASE last >= k
  <2>1. a <= Len(e) /\ Len(e) - a + 1 = last - k + 1 /\ Len(e1) = last - k + 1 /\ last - k + 1 \in Nat
    BY <1>2, <1>5
  <2>2. /\ r \in Seq(Terms) /\ Len(r) = Len(e) - a + 1
        /\ \A i \in 1..Len(e) - a + 1 : r[i] = e[a + i - 1]
    BY <1>2, <1>3, <2>1, Remainder
  <2>3. \A i \in 1..last - k + 1 : r[i] = e[a + i - 1]
    BY <2>1, <2>2
  <2> HIDE DEF r
  <2>4. ASSUME NEW i \in 1..Len(e1) PROVE e1[i] = r[i]
    <3>1. i \in Int /\ i >= 1 /\ i <= last - k + 1
      BY <2>1
    <3>2. k + i - 1 \in k..last /\ (k + i - 1) - k + 1 = i /\ (k + i - 1) - first + 1 = a + i - 1
      BY <3>1
    <3>3. e1[(k + i - 1) - k + 1] = e[(k + i - 1) - first + 1]
      BY <1>4, <3>2
    <3>4. i \in 1..last - k + 1
      BY <3>1
    <3> QED BY <2>3, <3>2, <3>3, <3>4
  <2>5. Len(e1) = Len(r)
    BY <2>1, <2>2
  <2>6. e1 = r
    BY <1>2, <2>2, <2>4, <2>5, SeqEqual
  <2> QED BY <1>1, <2>6 DEF e1
<1>6. CASE last < k
  <2>1. Len(e1) = 0
    BY <1>2, <1>6
  <2>2. e1 = <<>>
    BY <1>2, <2>1, ElementsOf
  <2>3. a > Len(e)
    BY <1>2, <1>6
  <2>4. r = <<>>
    BY <1>2, <1>3, <2>3, Remainder
  <2> QED BY <1>1, <2>2, <2>4 DEF e1
<1> QED BY <1>5, <1>6

LEMMA RefinesPop ==
    ASSUME IInv, IInv', RecoverInv, pop_segments
    PROVE  RecoverInv' /\ ContractNext
<1> DEFINE k == op.k
           n == EndBelow(closed, k)
           popped == SubSeq(closed, 1, n)
           kept == SubSeq(closed, n + 1, Len(closed))
           popOpen == kept = <<>> /\ open # <<>> /\ LastOf(open[1]) < k
           left == popped \o (IF popOpen THEN open ELSE <<>>)
           rest == IF popOpen THEN <<>> ELSE open
<1>1. /\ up /\ up' = up /\ UNCHANGED <<files, meta, broken, safe>> /\ op.pc = "pop"
      /\ first' = k /\ closed' = kept /\ open' = rest
      /\ last' = IF kept = <<>> /\ (popOpen \/ open = <<>>) THEN k - 1 ELSE last
      /\ op' = [op EXCEPT !.pc = "unlink", !.left = left] /\ other' = After(Log, k)
  BY DEF pop_segments
<1>2. /\ ~broken /\ op.of = "prefix" /\ PrefixOK /\ TypeInv /\ ExtentOK
      /\ op \in OpType(Seq(SegmentType))
  <2>1. ~broken /\ OpOK /\ op.of = "prefix"
    BY <1>1, AtStep DEF IInv
  <2> QED BY <1>1, <2>1 DEF IInv, MemoryInv, TypeInv, OpOK
<1>3. /\ k \in 1..MaxIndex /\ k \in Nat /\ k >= first /\ first < k
  BY <1>1, <1>2, Bounds DEF PrefixOK
<1>4. /\ kept \in Seq(SegmentType) /\ rest \in Seq(SegmentType) /\ left \in Seq(SegmentType)
      /\ ToSet(kept) \union ToSet(rest) = {s \in segments : LastOf(s) >= k}
      /\ (kept = <<>> /\ rest = <<>> <=> kept = <<>> /\ (popOpen \/ open = <<>>))
  BY <1>2, <1>3, Popping
<1> HIDE DEF k, n, popped, kept, popOpen, left, rest
<1>5. /\ segments' = {s \in segments : LastOf(s) >= k}
      /\ segments' = {} <=> kept = <<>> /\ rest = <<>>
  <2>1. segments' = ToSet(closed') \union ToSet(open')
    BY <1>1, <1>4, MemoryNext
  <2>2. (kept = <<>> <=> ToSet(kept) = {}) /\ (rest = <<>> <=> ToSet(rest) = {})
    BY <1>4, ElementsOf
  <2> QED BY <1>1, <1>4, <2>1, <2>2
<1>6. \A s \in segments : LastOf(s) \in Nat
  BY <1>2, Memory, LastOfIs DEF Pieces
<1>b. first \in Nat /\ last \in Nat /\ last >= first - 1 /\ last' \in Nat
  BY Bounds
<1>7. last' = IF last >= k THEN last ELSE k - 1
  <2>1. /\ \A s \in segments : LastOf(s) <= last
        /\ segments = {} => last = first - 1
        /\ segments # {} => LastOf(LastSegment) = last /\ LastSegment \in segments
    BY <1>2, Ends
  <2>2. CASE segments' = {}
    <3>1. last' = k - 1
      BY <1>1, <1>4, <1>5, <2>2
    <3>2. last < k
      <4>1. CASE segments = {}
        BY <1>3, <1>b, <2>1, <4>1
      <4>2. CASE segments # {}
        <5>1. ~(LastOf(LastSegment) >= k)
          BY <1>5, <2>1, <2>2, <4>2
        <5> QED BY <1>3, <1>b, <2>1, <4>2, <5>1
      <4> QED BY <4>1, <4>2
    <3> QED BY <1>3, <1>b, <3>1, <3>2
  <2>3. CASE segments' # {}
    <3>1. last' = last
      BY <1>1, <1>4, <1>5, <2>3
    <3>2. PICK s \in segments : LastOf(s) >= k
      BY <1>5, <2>3
    <3>3. last >= k
      BY <1>3, <1>6, <1>b, <2>1, <3>2
    <3> QED BY <3>1, <3>3
  <2> QED BY <2>2, <2>3
<1>8. LogFits /\ LogFits'
  BY <1>1, UpFits, FitsThen
<1>9. \A i : Same(i)
  <2>1. \A s \in segments', i \in first..last :
           s.first <= i /\ i <= LastOf(s) =>
              \E t \in segments : /\ t.first <= i /\ i <= LastOf(t)
                                  /\ t.terms[i - t.first + 1] = s.terms[i - s.first + 1]
    BY <1>5
  <2> QED BY <1>8, <2>1, EntriesKept
<1>10. Log'.entries = After(Log, k).entries
  BY <1>1, <1>3, <1>7, <1>8, <1>9, <1>b, LogAfter
<1>11. ContractNext
  <2>1. Contract!After(Contract!Log, k) = After(Log, k)
    BY DEF Contract!After, Contract!Log, After, Log
  <2>2. (Log.entries)' = After(Log, k).entries
    BY <1>10
  <2>3. Contract!truncate_prefix(k)
    BY <1>1, <1>3, <2>1, <2>2 DEF Contract!truncate_prefix
  <2> QED BY <1>1, <1>3, <2>3 DEF ContractNext, Contract!Next
<1>12. op'.of = "prefix" /\ op'.pc = "unlink"
  BY <1>1, <1>2 DEF OpType
<1>13. SafeOnDisk' /\ LeavesALog'
  BY <1>1, <1>2, <1>12, SameFiles, RestsThen
<1>14. SafeOK'
  <2>1. last <= last'
    BY <1>3, <1>7, <1>b
  <2>2. safe \in Nat /\ safe <= last
    BY DEF RecoverInv, SafeOK
  <2>3. safe <= last'
    BY <1>b, <2>1, <2>2
  <2> QED BY <1>1, <2>2, <2>3 DEF SafeOK
<1>15. OtherOK'
  BY <1>12 DEF OtherOK
<1> QED BY <1>11, <1>13, <1>14, <1>15 DEF RecoverInv

LEMMA RefinesUnlink ==
    ASSUME IInv, IInv', RecoverInv, unlink
    PROVE  RecoverInv' /\ ContractNext
<1> DEFINE h == Head(op.left)
           r == File(h)
<1>1. /\ up /\ up' = up /\ UNCHANGED <<meta, first, last, closed, open, other, safe>>
      /\ op.pc = "unlink" /\ op.left # <<>>
      /\ \/ files' \in {files \ {r}, files} /\ op' = [op EXCEPT !.left = Tail(@)]
         \/ op.of = "suffix" /\ op' = Idle /\ files' = files
  BY DEF unlink, Stops
<1>2. /\ OwnedOK /\ OpenOK /\ op.of \in {"prefix", "suffix", "reset"} /\ TypeInv /\ NamesOK /\ ExtentOK /\ HeldOK
      /\ op \in OpType(Seq(SegmentType)) /\ op.left \in Seq(SegmentType) /\ Leaving = ToSet(op.left)
      /\ op.of = "prefix" => PrefixOK
      /\ op.of = "suffix" => SuffixOK
      /\ op.of = "reset" => ResetOpOK
      /\ op.of # "reset" => FilesOK
      /\ meta = first
  BY <1>1, InUnlink
<1>3. h \in Leaving /\ h \in SegmentType
  BY <1>1, <1>2, TailIs
<1>4. r \in files /\ r.first = h.first /\ LastOf(r) = LastOf(h)
  <2>1. HasFile(h)
    BY <1>2, <1>3 DEF OwnedOK
  <2>2. r \in files /\ r.first = h.first /\ r.terms = h.terms
    BY <1>2, <1>3, <2>1, TheFile DEF OpenOK
  <2> QED BY <2>2 DEF LastOf
<1> HIDE DEF h, r
<1>b. first \in Nat /\ last \in Nat /\ meta \in Nat /\ safe \in Nat /\ safe <= last
  BY Bounds DEF RecoverInv, SafeOK
<1>5. Log' = Log
  BY <1>1, LogSame DEF segments
<1>6. segments = {} => safe < meta
  <2> SUFFICES ASSUME segments = {} PROVE safe < meta
    OBVIOUS
  <2>1. last = first - 1
    BY <1>2 DEF ExtentOK
  <2> QED BY <1>2, <1>b, <2>1
<1>7. safe >= meta => ~Stable(r)
  <2> SUFFICES ASSUME safe >= meta, Stable(r) PROVE FALSE
    OBVIOUS
  <2>1. r \in NeededFiles /\ LastOf(r) >= safe
    BY <1>4, <1>b, StableIsNeeded DEF StableNeeded
  <2>2. LastOf(r) \in Nat /\ r.first \in Nat /\ r.first <= safe
    BY <1>2, <2>1, Memory, LastOfIs DEF Pieces, Stable
  <2>3. segments # {}
    BY <1>6, <1>b
  <2>4. CASE op.of = "prefix"
    <3>1. LastOf(h) < meta
      BY <1>1, <1>2, <1>3, <2>4 DEF PrefixOK
    <3> QED BY <1>4, <1>b, <2>1, <2>2, <3>1
  <2>5. CASE op.of = "reset"
    BY <1>2, <2>3, <2>5 DEF ResetOpOK
  <2>6. CASE op.of = "suffix"
    <3> DEFINE s == LastSegment
               t == File(s)
    <3>1. s \in segments /\ last <= LastOf(s)
      BY <1>2, <2>3, InOrder DEF ExtentOK, Top
    <3>2. t \in files /\ t.first = s.first /\ LastOf(t) = LastOf(s) /\ (LastOf(s) >= meta => t \in NeededFiles)
      BY <1>2, <3>1, FileOf
    <3>3. LastOf(s) \in Nat
      BY <1>2, <3>1, Memory, LastOfIs DEF Pieces
    <3>4. s.first < h.first
      BY <1>2, <1>3, <2>6, <3>1 DEF SuffixOK
    <3> HIDE DEF s, t
    <3>5. t \in NeededFiles /\ t.first < r.first
      BY <1>4, <1>b, <3>1, <3>2, <3>3, <3>4
    <3>6. LastOf(t) < r.first
      BY <1>2, <2>1, <2>6, <3>5 DEF FilesOK, Tiled
    <3> QED BY <1>b, <2>2, <3>1, <3>2, <3>3, <3>6
  <2> QED BY <1>2, <2>4, <2>5, <2>6
<1>8. SafeOnDisk'
  <2>1. \A f \in NeededFiles : Stable(f) /\ f # r => f \in files' /\ safe <= f.first + Kept(f) - 1
    BY <1>1 DEF NeededFiles, Stable
  <2>2. \A f \in NeededFiles : safe >= meta /\ Stable(f) => f # r
    BY <1>7
  <2> QED BY <1>1, <2>1, <2>2, StableKept
<1>9. LeavesALog'
  <2>1. CASE op.of = "reset"
    <3>1. Resetting'
      BY <1>1, <1>2, <2>1 DEF OpType, Resetting
    <3> QED BY <3>1 DEF LeavesALog
  <2>2. CASE op.of # "reset"
    <3>1. ~Resetting
      BY <2>2 DEF Resetting
    <3>2. NeededFiles' \in SUBSET NeededFiles
      BY <1>1 DEF NeededFiles, Needed
    <3>3. \A f \in NeededFiles : Len(f.terms) \in Nat
      BY <1>2, Memory, LastOfIs DEF Pieces
    <3>4. \A g \in NeededFiles' : Len(g.terms) <= Len(g.terms)
      BY <3>2, <3>3
    <3> QED BY <1>1, <1>5, <3>1, <3>2, <3>4, LessLeaves
  <2> QED BY <2>1, <2>2
<1>10. SafeOK' /\ OtherOK'
  <2>1. op'.of = "prefix" => op'.pc = "unlink"
    BY <1>1, <1>2 DEF Idle, OpType
  <2> QED BY <1>1, <2>1 DEF RecoverInv, SafeOK, OtherOK
<1> QED BY <1>1, <1>5, <1>8, <1>9, <1>10, Quiet DEF RecoverInv

LEMMA RefinesUnlinked ==
    ASSUME IInv, IInv', RecoverInv, unlinked
    PROVE  RecoverInv' /\ ContractNext
<1>1. /\ up /\ up' = up /\ UNCHANGED <<files, meta, first, last, closed, open, broken, safe>>
      /\ op.pc = "unlink" /\ op.left = <<>>
      /\ \/ /\ op.cut /\ other' = other
            /\ \E pc \in {"rename", "ftruncate"} : op' = [op EXCEPT !.pc = pc]
         \/ op' = Idle /\ other' = Log
  BY DEF unlinked, memory, Goto, Returns
<1>2. /\ op.of \in {"prefix", "suffix", "reset"} /\ TypeInv /\ ~broken
      /\ op \in OpType(Seq(SegmentType))
      /\ op.of = "prefix" => PrefixOK
      /\ op.of = "reset" => ResetOpOK
  BY <1>1, InUnlink
<1>3. Log' = Log
  BY <1>1, LogSame DEF segments
<1>4. SafeOnDisk' /\ SafeOK'
  BY <1>1, SameFiles DEF RecoverInv, SafeOK
<1>5. CASE op' = Idle /\ other' = Log
  <2>1. LeavesALog'
    BY <1>1, <1>2, <1>5, RestsThen DEF Idle
  <2>2. OtherOK'
    BY <1>5 DEF OtherOK, Idle
  <2>3. ContractNext
    BY <1>1, <1>2, <1>3, <1>5, UpFits, Returning
  <2> QED BY <1>4, <2>1, <2>2, <2>3 DEF RecoverInv
<1>6. CASE /\ op.cut /\ other' = other
           /\ \E pc \in {"rename", "ftruncate"} : op' = [op EXCEPT !.pc = pc]
  <2>1. op.of = "suffix"
    BY <1>2, <1>6 DEF PrefixOK, ResetOpOK
  <2>2. op'.of = "suffix"
    BY <1>2, <1>6, <2>1 DEF OpType
  <2>3. NeededFiles' = NeededFiles
    BY <1>1 DEF NeededFiles, Needed
  <2>4. LeavesALog'
    BY <1>1, <1>3, <1>6, <2>1, <2>3 DEF RecoverInv, LeavesALog, Resetting
  <2>5. OtherOK'
    BY <2>2 DEF OtherOK
  <2>6. ContractNext
    BY <1>1, <1>3, <1>6, Quiet
  <2> QED BY <1>4, <2>4, <2>5, <2>6 DEF RecoverInv
<1> QED BY <1>1, <1>5, <1>6

-----------------------------------------------------------------------------
(* truncate_suffix and reset.                                              *)

LEMMA MinIs ==
    ASSUME NEW a \in Nat, NEW b \in Nat
    PROVE  Min({a, b}) = (IF a <= b THEN a ELSE b) /\ Contract!Min({a, b}) = Min({a, b})
<1>1. Contract!Min({a, b}) = Min({a, b})
  BY DEF Contract!Min, Min
<1>2. Min({a, b}) \in {a, b} /\ \A y \in {a, b} : Min({a, b}) <= y
  <2>1. \E x \in {a, b} : \A y \in {a, b} : x <= y
    OBVIOUS
  <2> QED BY <2>1 DEF Min
<1> QED BY <1>1, <1>2

\* A step that makes fewer entries stable.
LEMMA LowerSafe ==
    ASSUME IInv, IInv', RecoverInv, ~Resetting, files' = files, meta' = meta, safe' \in Nat, safe' <= safe
    PROVE  SafeOnDisk'
<1> SUFFICES ASSUME safe' >= meta' PROVE SafeOnDisk'
  BY DEF SafeOnDisk
<1>1. PICK f \in NeededFiles : f.first <= safe' /\ safe' <= f.first + Kept(f) - 1
  BY StableBelow
<1>2. f \in files'
  BY DEF NeededFiles
<1> QED BY <1>1, <1>2, StableThen

LEMMA RefinesTruncateSuffix ==
    ASSUME IInv, IInv', RecoverInv, BehindOK, truncate_suffix
    PROVE  RecoverInv' /\ ContractNext
<1> DEFINE all == closed \o open
           kept(k) == SubSeq(all, 1, UpTo(all, k))
           first1(k) == IF kept(k) = <<>> THEN k + 1 ELSE first
           cut(k) == kept(k) # <<>> /\ first1(k) <= k
           left(k) == IF kept(k) # <<>> /\ ~cut(k) THEN Front(kept(k)) ELSE kept(k)
           w(k) == PoppedFromBack(all, k) \o
                     (IF kept(k) # <<>> /\ ~cut(k) THEN <<Last(kept(k))>> ELSE <<>>)
           openKept(k) == open # <<>> /\ open[1] \in ToSet(left(k))
<1>1. PICK k \in (first - 1)..(last - 1) :
         /\ last' = k /\ first' = first1(k)
         /\ closed' = IF openKept(k) THEN Front(left(k)) ELSE left(k)
         /\ open' = IF openKept(k) THEN open ELSE <<>>
         /\ op' = [Idle EXCEPT !.of = "suffix", !.pc = "unlink", !.k = k, !.cut = cut(k),
                      !.left = w(k)]
         /\ other' = Log /\ safe' = Min({safe, k})
  BY DEF truncate_suffix, Executes, BehindOK
<1>2. up /\ op = Idle /\ ~broken /\ UNCHANGED <<up, files, meta>>
  BY DEF truncate_suffix, Executes, BehindOK
<1>3. ExtentOK /\ TypeInv /\ op.of = "none" /\ op.pc = "idle"
  BY <1>2, BeforeAnOperation DEF IInv
<1>4. PICK l, m : l = left(k) /\ m = IF cut(k) THEN UpTo(all, k) ELSE 0
  OBVIOUS
<1>5. /\ first1(k) = first /\ m \in 0..Len(all)
      /\ l \in Seq(SegmentType) /\ Len(l) = m /\ \A i \in 1..m : l[i] = all[i]
  BY <1>2, <1>3, <1>4, Cutting
<1>6. /\ last' = k /\ first' = first
      /\ closed' = IF open # <<>> /\ open[1] \in ToSet(l) THEN Front(l) ELSE l
      /\ open' = IF open # <<>> /\ open[1] \in ToSet(l) THEN open ELSE <<>>
      /\ other' = Log /\ safe' = Min({safe, k}) /\ op'.of = "suffix"
  BY <1>1, <1>4, <1>5 DEF Idle
<1> HIDE DEF kept, first1, cut, left, openKept, w
<1>7. ToSet(l) \in SUBSET segments
  <2>1. all \in Seq(SegmentType) /\ segments = ToSet(all)
    BY <1>3, Memory DEF segments
  <2> HIDE DEF all
  <2>2. ToSet(all) = {all[i] : i \in 1..Len(all)} /\ Len(all) \in Nat
    BY <2>1, ElementsOf
  <2>3. ToSet(l) = {l[i] : i \in 1..m}
    BY <1>5, ElementsOf
  <2>4. \A i \in 1..m : i \in 1..Len(all)
    BY <1>5, <2>2
  <2> QED BY <1>5, <2>1, <2>2, <2>3, <2>4
<1>8. segments' \in SUBSET segments
  <2>1. segments' = ToSet(closed') \union ToSet(open')
    BY Bounds, MemoryNext
  <2>2. CASE open # <<>> /\ open[1] \in ToSet(l)
    <3>1. l # <<>>
      BY <2>2, EmptyToSet
    <3>2. ToSet(Front(l)) \in SUBSET ToSet(l)
      BY <1>5, <3>1, FrontIs
    <3>3. ToSet(open) = {open[1]}
      BY <1>3, <2>2, Memory, AtMostOne
    <3> QED BY <1>6, <1>7, <2>1, <2>2, <3>2, <3>3
  <2>3. CASE ~(open # <<>> /\ open[1] \in ToSet(l))
    BY <1>6, <1>7, <2>1, <2>3, EmptyToSet
  <2> QED BY <2>2, <2>3
<1>b. /\ first \in Nat /\ last \in Nat /\ last >= first - 1 /\ first >= 1 /\ last <= MaxIndex /\ MaxIndex \in Nat
      /\ k \in Nat /\ k >= first - 1 /\ k <= last - 1 /\ safe \in Nat /\ safe <= last
  <2>1. first \in Nat /\ first >= 1 /\ last \in Nat /\ last >= first - 1 /\ MaxIndex \in Nat
    BY Bounds
  <2>2. last <= MaxIndex
    BY <1>3, <2>1 DEF TypeInv
  <2> QED BY <2>1, <2>2 DEF RecoverInv, SafeOK
<1>9. LogFits /\ LogFits'
  BY <1>2, UpFits, FitsThen
<1>10. \A i : Same(i)
  <2>1. \A s \in segments', i \in first..last :
           s.first <= i /\ i <= LastOf(s) =>
              \E t \in segments : /\ t.first <= i /\ i <= LastOf(t)
                                  /\ t.terms[i - t.first + 1] = s.terms[i - s.first + 1]
    BY <1>8
  <2> QED BY <1>9, <2>1, EntriesKept
<1>11. Log'.entries = SubSeq(Log.entries, 1, k - first + 1)
  <2> DEFINE e == Log.entries
             e1 == Log'.entries
             n == k - first + 1
  <2>1. /\ e \in Seq(Terms) /\ e1 \in Seq(Terms) /\ Len(e) = last - first + 1
        /\ Len(e1) = last' - first' + 1
    BY <1>9 DEF LogFits
  <2>2. \A i \in first..k : e1[i - first' + 1] = e[i - first + 1]
    <3> SUFFICES ASSUME NEW i \in first..k PROVE e1[i - first' + 1] = e[i - first + 1]
      OBVIOUS
    <3>1. i \in first..last
      BY <1>b
    <3> QED BY <1>6, <1>10, <3>1 DEF Same
  <2> HIDE DEF e, e1
  <2>3. Len(e1) = n /\ n \in 0..Len(e) /\ n \in Nat
    BY <1>6, <1>b, <2>1
  <2> HIDE DEF n
  <2>4. 1 \in 1..Len(e) + 1 /\ 1 <= n + 1 /\ n - 1 + 1 = n /\ Len(e) \in Nat
    BY <2>1, <2>3, LenProperties
  <2>5. /\ SubSeq(e, 1, n) \in Seq(Terms) /\ Len(SubSeq(e, 1, n)) = n - 1 + 1
        /\ \A i \in 1..n - 1 + 1 : SubSeq(e, 1, n)[i] = e[1 + i - 1]
    BY <2>1, <2>3, <2>4, PartOf
  <2>6. ASSUME NEW i \in 1..Len(e1) PROVE e1[i] = SubSeq(e, 1, n)[i]
    <3>1. i \in 1..n /\ 1 + i - 1 = i /\ i \in Nat
      BY <2>3
    <3>2. SubSeq(e, 1, n)[i] = e[i]
      BY <2>4, <2>5, <3>1
    <3>3. first + i - 1 \in first..k /\ (first + i - 1) - first + 1 = i
      BY <1>b, <3>1 DEF n
    <3>4. e1[(first + i - 1) - first + 1] = e[(first + i - 1) - first + 1]
      BY <1>6, <2>2, <3>3
    <3> QED BY <3>2, <3>3, <3>4
  <2>7. Len(e1) = Len(SubSeq(e, 1, n))
    BY <2>3, <2>4, <2>5
  <2>8. e1 = SubSeq(e, 1, n)
    BY <2>1, <2>5, <2>6, <2>7, SeqEqual
  <2> QED BY <2>8 DEF e, e1, n
<1>12. safe' \in Nat /\ safe' <= k /\ safe' <= safe /\ safe' = Contract!Min({safe, k})
  BY <1>6, <1>b, MinIs
<1>13. ContractNext
  <2>1. PICK i \in 1..MaxIndex : i = k + 1
    BY <1>b
  <2>2. i - 1 = k
    BY <1>b, <2>1
  <2>3. Contract!Min({first, k + 1}) = first
    <3>1. k + 1 \in Nat /\ first <= k + 1
      BY <1>b
    <3> QED BY <1>b, <3>1, MinIs
  <2>4. k <= Contract!LastIndex
    <3>1. Contract!LastIndex = first + Len(Log.entries) - 1
      BY DEF Contract!LastIndex
    <3>2. Len(Log.entries) = last - first + 1
      BY <1>9 DEF LogFits
    <3> QED BY <1>b, <3>1, <3>2
  <2>5. Contract!Log = Log
    BY DEF Contract!Log, Log
  <2>6. (Log.entries)' = SubSeq(Log.entries, 1, k - first + 1)
    BY <1>11
  <2>7. Contract!truncate_suffix(k)
    BY <1>2, <1>6, <1>12, <2>3, <2>4, <2>5, <2>6 DEF Contract!truncate_suffix
  <2>8. Contract!truncate_suffix(i - 1)
    BY <2>2, <2>7
  <2> QED BY <1>2, <2>8 DEF ContractNext, Contract!Next
<1>14. ~Resetting
  BY <1>3 DEF Resetting
<1>15. SafeOnDisk'
  BY <1>2, <1>12, <1>14, LowerSafe
<1>16. LeavesALog'
  <2>1. Says(NeededFiles, meta, Log)
    BY <1>2, <1>3, Rests, MemoryIsDisk
  <2>2. NeededFiles' = NeededFiles
    BY <1>2 DEF NeededFiles, Needed
  <2> QED BY <1>2, <1>6, <2>1, <2>2 DEF LeavesALog
<1>17. SafeOK' /\ OtherOK'
  BY <1>6, <1>12 DEF SafeOK, OtherOK
<1> QED BY <1>13, <1>15, <1>16, <1>17 DEF RecoverInv

LEMMA RefinesFailure ==
    ASSUME IInv, IInv', RecoverInv, ~Resetting, op' = Idle,
           UNCHANGED <<up, files, meta, first, last, closed, open, other, safe>>
    PROVE  RecoverInv' /\ ContractNext
<1>1. Log' = Log
  BY LogSame DEF segments
<1>2. SafeOnDisk' /\ SafeOK'
  BY SameFiles DEF RecoverInv, SafeOK
<1>3. NeededFiles' = NeededFiles
  BY DEF NeededFiles, Needed
<1>4. LeavesALog'
  BY <1>1, <1>3 DEF RecoverInv, LeavesALog
<1>5. OtherOK'
  BY DEF OtherOK, Idle
<1> QED BY <1>1, <1>2, <1>4, <1>5, Quiet DEF RecoverInv

LEMMA RefinesRename ==
    ASSUME IInv, IInv', RecoverInv, rename
    PROVE  RecoverInv' /\ ContractNext
<1>1. PICK f, g : f = File(LastSegment) /\ g = NameToCut(f)
  OBVIOUS
<1>2. /\ up /\ op.pc = "rename" /\ UNCHANGED <<up, meta, first, last, closed, open, other, safe>>
      /\ \/ files' = Put(f, g) /\ op' = [op EXCEPT !.pc = "ftruncate", !.renamed = TRUE]
         \/ files' = files /\ op' = Idle
  BY <1>1 DEF rename, Stops
<1>3. op.of = "suffix" /\ op \in OpType(Seq(SegmentType)) /\ f \in NeededFiles /\ f \in files /\ f \in FileType
  BY <1>1, <1>2, InCut
<1>4. ~Resetting
  BY <1>3 DEF Resetting
<1>5. CASE files' = files /\ op' = Idle
  BY <1>2, <1>4, <1>5, RefinesFailure
<1>6. CASE files' = Put(f, g) /\ op' = [op EXCEPT !.pc = "ftruncate", !.renamed = TRUE]
  <2>1. g.first = f.first /\ g.terms = f.terms /\ g.synced = f.synced
    BY <1>1, <1>3 DEF NameToCut, FileType
  <2>2. Log' = Log
    BY <1>2, LogSame DEF segments
  <2>3. LeavesALog' /\ SafeOnDisk'
    BY <1>2, <1>3, <1>4, <1>6, <2>1, <2>2, TornLeaves
  <2>4. op'.of = "suffix"
    BY <1>3, <1>6 DEF OpType
  <2>5. SafeOK' /\ OtherOK'
    BY <1>2, <2>4 DEF RecoverInv, SafeOK, OtherOK
  <2> QED BY <1>2, <2>2, <2>3, <2>5, Quiet DEF RecoverInv
<1> QED BY <1>2, <1>5, <1>6

LEMMA RefinesFtruncate ==
    ASSUME IInv, IInv', RecoverInv, ftruncate
    PROVE  RecoverInv' /\ ContractNext
<1>1. PICK s, f, g, s1, n :
         /\ s = LastSegment /\ f = File(s) /\ g = Cut(f, op.k)
         /\ s1 = [s EXCEPT !.terms = SubSeq(@, 1, op.k - s.first + 1)] /\ n = op.k - s.first + 1
  OBVIOUS
<1>2. /\ up /\ op.pc = "ftruncate" /\ UNCHANGED <<up, meta, first, last, safe>>
      /\ \/ /\ files' = Put(f, g) /\ open' = <<s1>> /\ op' = Idle /\ other' = Log /\ broken' = broken
            /\ closed' = IF open = <<>> THEN Front(closed) ELSE closed
         \/ UNCHANGED <<files, open, closed, other>> /\ op' = Idle
  <2>1. op.pc = "ftruncate" => (op.renamed <=> open = <<>>)
    BY InCut DEF ftruncate, SuffixOK
  <2> QED BY <1>1, <2>1, FailedIs DEF ftruncate, Returns, Succeeds
<1>3. /\ ~broken /\ op.of = "suffix" /\ TypeInv /\ ExtentOK /\ NamesOK
      /\ s \in segments /\ s \in SegmentType
      /\ s = (IF open = <<>> THEN Last(closed) ELSE open[1]) /\ (open = <<>> => closed # <<>>)
      /\ last = op.k /\ first <= op.k /\ s.first <= op.k /\ op.k <= LastOf(s)
      /\ f \in NeededFiles /\ f \in files /\ f \in FileType
      /\ f.first = s.first /\ f.terms = s.terms /\ f.synced <= Len(f.terms)
      /\ op.k \in Nat
  BY <1>1, <1>2, InCut
<1>4. ~Resetting
  BY <1>3 DEF Resetting
<1>5. CASE UNCHANGED <<files, open, closed, other>> /\ op' = Idle
  BY <1>2, <1>4, <1>5, RefinesFailure
<1>6. CASE /\ files' = Put(f, g) /\ open' = <<s1>> /\ op' = Idle /\ other' = Log /\ broken' = broken
           /\ closed' = IF open = <<>> THEN Front(closed) ELSE closed
  <2>1. s.terms \in Seq(Terms) /\ s.first \in Nat /\ Len(s.terms) \in Nat /\ LastOf(s) = s.first + Len(s.terms) - 1
    BY <1>3, LenProperties DEF SegmentType, LastOf
  <2>2. n \in 0..Len(s.terms) /\ n \in Nat
    BY <1>1, <1>3, <2>1
  <2> DEFINE w == SubSeq(s.terms, 1, n)
  <2>3. w \in Seq(Terms) /\ Len(w) = n /\ \A i \in 1..n : w[i] = s.terms[i]
    <3>1. 1 \in 1..Len(s.terms) + 1 /\ 1 <= n + 1 /\ n - 1 + 1 = n /\ \A i \in 1..n : 1 + i - 1 = i
      BY <2>1, <2>2
    <3>2. /\ w \in Seq(Terms) /\ Len(w) = n - 1 + 1
          /\ \A i \in 1..n - 1 + 1 : w[i] = s.terms[1 + i - 1]
      BY <2>1, <2>2, <3>1, PartOf
    <3> HIDE DEF w
    <3> QED BY <3>1, <3>2
  <2>4. s1 \in SegmentType /\ s1.first = s.first /\ s1.terms = w
    BY <1>1, <1>3, <2>3 DEF SegmentType
  <2>5. g.first = f.first /\ g.terms = w /\ g.synced = Min({f.synced, n})
    BY <1>1, <1>3 DEF Cut, FileType
  <2> HIDE DEF w
  <2>6. segments' \in SUBSET (segments \union {s1})
    <3>1. segments = ToSet(closed) \union ToSet(open) /\ closed \in Seq(SegmentType)
      BY <1>3, Memory
    <3>2. ToSet(open') = {s1} /\ segments' = ToSet(closed') \union ToSet(open')
      BY <1>6, <2>4, Singleton, Bounds, MemoryNext
    <3>3. ToSet(closed') \in SUBSET ToSet(closed)
      BY <1>3, <1>6, <3>1, FrontIs
    <3> QED BY <3>1, <3>2, <3>3
  <2>7. LogFits /\ LogFits'
    BY <1>2, UpFits, FitsThen
  <2>8. \A i : Same(i)
    <3>1. ASSUME NEW x \in segments', NEW i \in first..last, x.first <= i, i <= LastOf(x)
          PROVE  \E u \in segments : /\ u.first <= i /\ i <= LastOf(u)
                                     /\ u.terms[i - u.first + 1] = x.terms[i - x.first + 1]
      <4>1. CASE x \in segments
        BY <3>1, <4>1
      <4>2. CASE x = s1
        <5>1. i \in Int /\ i <= op.k /\ s.first <= i
          BY <1>3, <2>4, <3>1, <4>2, Bounds
        <5>2. i <= LastOf(s) /\ i - s.first + 1 \in 1..n
          <6>1. n = op.k - s.first + 1 /\ s.first \in Nat /\ op.k \in Nat /\ i \in Int /\ s.first <= i /\ i <= op.k
            BY <1>1, <1>3, <2>1, <5>1
          <6>2. i - s.first + 1 \in 1..n
            BY <6>1
          <6>3. LastOf(s) \in Int /\ op.k <= LastOf(s)
            BY <1>3, <2>1
          <6> QED BY <6>1, <6>2, <6>3
        <5> QED BY <1>3, <2>3, <2>4, <4>2, <5>1, <5>2
      <4> QED BY <2>6, <3>1, <4>1, <4>2
    <3> QED BY <2>7, <3>1, EntriesKept
  <2>9. Log' = Log
    BY <1>2, <1>3, <2>7, <2>8, LogKept
  <2>10. SafeOnDisk'
    <3>1. f.synced \in Nat /\ safe \in Nat /\ safe <= last
      BY <1>3 DEF FileType, RecoverInv, SafeOK
    <3>2. Stable(f) => safe <= g.first + Kept(g) - 1
      <4> SUFFICES ASSUME Stable(f) PROVE safe <= g.first + Kept(g) - 1
        OBVIOUS
      <4>1. Kept(g) = Min({Kept(f), n}) /\ Kept(f) \in Nat
        <5>1. CASE "power" \in Faults
          BY <2>5, <3>1, <5>1 DEF Kept
        <5>2. CASE "power" \notin Faults
          <6>1. Min({Len(f.terms), n}) = n
            BY <1>3, <2>1, <2>2, MinIs
          <6> QED BY <1>3, <2>1, <2>3, <2>5, <5>2, <6>1 DEF Kept
        <5> QED BY <5>1, <5>2
      <4>2. safe <= f.first + Kept(f) - 1
        BY DEF Stable
      <4>3. Kept(g) = Kept(f) \/ Kept(g) = n
        BY <2>2, <4>1, MinIs
      <4>4. safe <= s.first + n - 1
        BY <1>1, <1>3, <2>1, <3>1
      <4> QED BY <1>3, <2>5, <4>2, <4>3, <4>4
    <3> QED BY <1>2, <1>3, <1>6, <2>5, <3>2, PutStable
  <2>11. LeavesALog'
    BY <1>2, <1>3, <1>6, RestsThen DEF Idle
  <2>12. SafeOK' /\ OtherOK'
    BY <1>2, <1>6 DEF RecoverInv, SafeOK, OtherOK, Idle
  <2>13. ContractNext
    BY <1>2, <1>3, <1>6, <2>7, <2>9, Returning
  <2> QED BY <2>10, <2>11, <2>12, <2>13 DEF RecoverInv
<1> QED BY <1>2, <1>5, <1>6

LEMMA RefinesReset ==
    ASSUME IInv, IInv', RecoverInv, BehindOK, reset
    PROVE  RecoverInv' /\ ContractNext
<1>1. PICK k \in (first + 1)..(last + 1) :
         /\ k <= MaxIndex
         /\ first' = k /\ last' = k - 1
         /\ op' = [Idle EXCEPT !.of = "reset", !.pc = "meta", !.left = closed \o open, !.k = k]
         /\ other' = Log /\ safe' = Min({safe, k - 1})
  BY DEF reset, Begin
<1>2. up /\ op = Idle /\ ~broken /\ UNCHANGED <<up, files, meta>>
  BY DEF reset, Executes, BehindOK
<1>3. op.of = "none" /\ op.pc = "idle" /\ op'.of = "reset" /\ op'.pc = "meta"
  BY <1>1, <1>2 DEF Idle
<1>b. /\ k \in Nat /\ k >= 1 /\ k - 1 \in Nat /\ k \in 1..MaxIndex /\ safe \in Nat
  BY <1>1, Bounds DEF RecoverInv, SafeOK
<1>4. safe' \in Nat /\ safe' <= k - 1 /\ safe' <= safe /\ safe' = Contract!Min({safe, k - 1})
  <2>1. PICK j \in Nat : j = k - 1
    BY <1>b
  <2>2. safe' = Min({safe, j})
    BY <1>1, <2>1
  <2>3. Contract!Min({safe, k - 1}) = Contract!Min({safe, j})
    BY <2>1
  <2> QED BY <1>b, <2>1, <2>2, <2>3, MinIs
<1>5. ContractNext
  <2>1. Len(Log'.entries) = last' - first' + 1 /\ Log'.entries \in Seq(Terms)
    <3>1. LogFits'
      BY <1>2, FitsThen
    <3> QED BY <3>1 DEF LogFits
  <2>2. Log'.entries = <<>>
    <3>1. Len(Log'.entries) = 0
      BY <1>1, <1>b, <2>1
    <3> QED BY <2>1, <3>1, ElementsOf
  <2>3. (Log.entries)' = <<>>
    BY <2>2
  <2>4. Contract!Log = Log
    BY DEF Contract!Log, Log
  <2>5. Contract!reset(k)
    BY <1>1, <1>2, <1>4, <2>3, <2>4 DEF Contract!reset
  <2> QED BY <1>2, <1>b, <2>5 DEF ContractNext, Contract!Next
<1>6. SafeOnDisk'
  <2>1. ~Resetting
    BY <1>3 DEF Resetting
  <2> QED BY <1>2, <1>4, <2>1, LowerSafe
<1>7. LeavesALog'
  <2>1. Says(NeededFiles, meta, Log)
    BY <1>2, <1>3, Rests, MemoryIsDisk
  <2>2. NeededFiles' = NeededFiles
    BY <1>2 DEF NeededFiles, Needed
  <2> QED BY <1>1, <1>2, <2>1, <2>2 DEF LeavesALog
<1>8. SafeOK' /\ OtherOK'
  BY <1>1, <1>3, <1>4 DEF SafeOK, OtherOK
<1> QED BY <1>5, <1>6, <1>7, <1>8 DEF RecoverInv

-----------------------------------------------------------------------------
(* Crashes, and init.                                                      *)

LEMMA RefinesCrash ==
    ASSUME IInv, IInv', RecoverInv, ResetOK, Crash
    PROVE  RecoverInv' /\ ContractNext
<1>1. /\ up /\ ~Resetting /\ up' = FALSE /\ op' = Idle
      /\ UNCHANGED <<meta, first, last, closed, open, other, safe>>
      /\ \/ files' = files
         \/ \E s \in ToSet(open) : /\ op.pc = "open"
                                   /\ files' = Put(File(s), [File(s) EXCEPT !.tail = "torn"])
  BY DEF Crash, Fault, ResetOK, Resetting, memory
<1>2. Log' = Log
  BY <1>1, LogSame DEF segments
<1>3. LeavesALog' /\ SafeOnDisk'
  <2>1. CASE files' = files
    <3>1. SafeOnDisk'
      BY <1>1, <2>1, SameFiles
    <3>2. NeededFiles' = NeededFiles
      BY <1>1, <2>1 DEF NeededFiles, Needed
    <3>3. LeavesALog'
      BY <1>1, <1>2, <3>2 DEF RecoverInv, LeavesALog
    <3> QED BY <3>1, <3>3
  <2>2. ASSUME NEW s \in ToSet(open), op.pc = "open",
               files' = Put(File(s), [File(s) EXCEPT !.tail = "torn"])
        PROVE  LeavesALog' /\ SafeOnDisk'
    <3>1. PICK f, g : f = File(s) /\ g = [f EXCEPT !.tail = "torn"]
      OBVIOUS
    <3>2. TypeInv /\ NamesOK /\ HeldOK /\ OwnedOK /\ OpenOK /\ ApartOK
      BY <1>1, <2>2, InAppend DEF IInv
    <3>3. s \in segments
      BY <3>2, Memory
    <3>4. f \in files /\ f \in FileType
      BY <3>1, <3>2, <3>3, FileOf
    <3>5. g.first = f.first /\ g.last = f.last /\ g.terms = f.terms /\ g.synced = f.synced
      BY <3>1, <3>4 DEF FileType
    <3> QED BY <1>1, <1>2, <2>2, <3>1, <3>4, <3>5, TornLeaves
  <2> QED BY <1>1, <2>1, <2>2
<1>4. SafeOK' /\ OtherOK'
  BY <1>1 DEF RecoverInv, SafeOK, OtherOK, Idle
<1>5. ContractNext
  <2>1. (Log.entries)' = Log.entries
    BY <1>2
  <2>2. Contract!Crash
    BY <1>1, <2>1 DEF Contract!Crash
  <2> QED BY <1>1, <2>2 DEF ContractNext, Contract!Next
<1> QED BY <1>3, <1>4, <1>5 DEF RecoverInv

LEMMA RefinesPowerLoss ==
    ASSUME IInv, IInv', RecoverInv, PowerLoss
    PROVE  RecoverInv' /\ ContractNext
<1>1. /\ up /\ ~Resetting /\ "power" \in Faults /\ up' = FALSE /\ op' = Idle
      /\ UNCHANGED <<meta, first, last, closed, open, other, safe>>
  BY DEF PowerLoss, Fault, Resetting, memory
<1>2. PICK kept \in [files -> 0..MaxIndex], tail \in {"none", "torn", "corrupt"} :
         /\ \A f \in files : kept[f] \in f.synced..Len(f.terms)
         /\ files' = {[f EXCEPT !.terms = SubSeq(@, 1, kept[f]),
                                !.tail = IF kept[f] < Len(f.terms) THEN tail ELSE @] : f \in files}
  BY DEF PowerLoss
<1> DEFINE F(f) == [f EXCEPT !.terms = SubSeq(@, 1, kept[f]),
                             !.tail = IF kept[f] < Len(f.terms) THEN tail ELSE @]
<1>3. TypeInv
  BY DEF IInv
<1>4. files' = {F(f) : f \in files}
  BY <1>2
<1>5. ASSUME NEW f \in files
      PROVE  /\ F(f).first = f.first /\ F(f).last = f.last /\ F(f).synced = f.synced
             /\ Len(F(f).terms) <= Len(f.terms)
             /\ \A n \in 1..Len(F(f).terms) : F(f).terms[n] = f.terms[n]
  <2>1. f \in FileType /\ f.terms \in Seq(Terms) /\ f.synced \in Nat /\ Len(f.terms) \in Nat
    <3>1. f \in FileType
      BY <1>3 DEF TypeInv
    <3>2. f.terms \in Seq(Terms) /\ f.synced \in Nat
      BY <3>1 DEF FileType
    <3> QED BY <3>1, <3>2, LenProperties
  <2>2. PICK n : n = kept[f]
    OBVIOUS
  <2>3. n \in 0..Len(f.terms) /\ n \in Nat
    <3>1. n \in f.synced..Len(f.terms)
      BY <1>2, <2>2
    <3> QED BY <2>1, <3>1
  <2> DEFINE w == SubSeq(f.terms, 1, n)
  <2>4. Len(w) = n /\ \A i \in 1..n : w[i] = f.terms[i]
    <3>1. 1 \in 1..Len(f.terms) + 1 /\ 1 <= n + 1 /\ n - 1 + 1 = n /\ \A i \in 1..n : 1 + i - 1 = i
      BY <2>1, <2>3
    <3>2. /\ w \in Seq(Terms) /\ Len(w) = n - 1 + 1
          /\ \A i \in 1..n - 1 + 1 : w[i] = f.terms[1 + i - 1]
      BY <2>1, <2>3, <3>1, PartOf
    <3> HIDE DEF w
    <3> QED BY <3>1, <3>2
  <2>5. PICK g : g = F(f)
    OBVIOUS
  <2>6. g = [f EXCEPT !.terms = w, !.tail = IF n < Len(f.terms) THEN tail ELSE f.tail]
    BY <2>2, <2>5
  <2> HIDE DEF w
  <2>7. g.first = f.first /\ g.last = f.last /\ g.synced = f.synced /\ g.terms = w
    BY <2>1, <2>6 DEF FileType
  <2>8. Len(g.terms) <= Len(f.terms) /\ \A i \in 1..Len(g.terms) : g.terms[i] = f.terms[i]
    BY <2>1, <2>3, <2>4, <2>7
  <2> QED BY <2>5, <2>7, <2>8
<1> HIDE DEF F
<1>6. Log' = Log
  BY <1>1, LogSame DEF segments
<1>7. LeavesALog'
  <2>1. ASSUME NEW h \in NeededFiles'
        PROVE  \E f \in NeededFiles : /\ h.first = f.first /\ Len(h.terms) <= Len(f.terms)
                                      /\ \A n \in 1..Len(h.terms) : h.terms[n] = f.terms[n]
    <3>1. h \in files' /\ (h.last = 0 \/ h.last >= meta)
      BY <1>1 DEF NeededFiles, Needed
    <3>2. PICK f \in files : h = F(f)
      BY <1>4, <3>1
    <3>3. f \in NeededFiles
      BY <1>5, <3>1, <3>2 DEF NeededFiles, Needed
    <3> QED BY <1>5, <3>2, <3>3
  <2> QED BY <1>1, <1>6, <2>1, LessLeaves
<1>8. SafeOnDisk'
  <2>1. ASSUME NEW f \in NeededFiles, Stable(f)
        PROVE  \E g \in files' : g.first = f.first /\ safe <= g.first + Kept(g) - 1
    <3>1. f \in files
      BY DEF NeededFiles
    <3>2. F(f) \in files' /\ F(f).first = f.first /\ Kept(F(f)) = Kept(f)
      BY <1>1, <1>4, <1>5, <3>1 DEF Kept
    <3> QED BY <2>1, <3>2 DEF Stable
  <2> QED BY <1>1, <2>1, StableKept
<1>9. SafeOK' /\ OtherOK'
  BY <1>1 DEF RecoverInv, SafeOK, OtherOK, Idle
<1>10. ContractNext
  <2>1. (Log.entries)' = Log.entries
    BY <1>6
  <2>2. Contract!Crash
    BY <1>1, <2>1 DEF Contract!Crash
  <2> QED BY <1>1, <2>2 DEF ContractNext, Contract!Next
<1> QED BY <1>7, <1>8, <1>9, <1>10 DEF RecoverInv

\* The entries of the two logs that a crash may leave.
LogsOK == Log.entries \in Seq(Terms) /\ other.entries \in Seq(Terms)

LEMMA PrefixIs ==
    ASSUME NEW S, NEW s \in Seq(S), NEW t \in Seq(S), Len(s) <= Len(t),
           \A n \in 1..Len(s) : s[n] = t[n]
    PROVE  Contract!IsPrefix(s, t)
<1> DEFINE n == Len(s)
           u == SubSeq(s, 1, n)
           v == SubSeq(t, 1, n)
<1>1. n \in Nat /\ Len(t) \in Nat
  BY LenProperties
<1>2. n \in 0..Len(s) /\ n \in 0..Len(t) /\ 1 \in 1..Len(s) + 1 /\ 1 \in 1..Len(t) + 1 /\ 1 <= n + 1
      /\ n - 1 + 1 = n /\ \A i \in 1..n : 1 + i - 1 = i
  BY <1>1
<1>3. u \in Seq(S) /\ Len(u) = n - 1 + 1 /\ \A i \in 1..n - 1 + 1 : u[i] = s[1 + i - 1]
  BY <1>2, PartOf
<1>4. v \in Seq(S) /\ Len(v) = n - 1 + 1 /\ \A i \in 1..n - 1 + 1 : v[i] = t[1 + i - 1]
  BY <1>2, PartOf
<1>5. \A i \in 1..n : s[i] = t[i]
  OBVIOUS
<1> HIDE DEF n, u, v
<1>6. Len(u) = n /\ Len(v) = n /\ \A i \in 1..n : u[i] = v[i]
  BY <1>2, <1>3, <1>4, <1>5
<1>7. u = v
  BY <1>3, <1>4, <1>6, SeqEqual
<1> QED BY <1>7 DEF u, v, n, Contract!IsPrefix

\* init reads a log that the files that it needs say.
LEMMA LoadedIs ==
    ASSUME IInv', up', LogsOK, first' = meta, meta' = meta, NEW l, l \in {Log, other},
           Says(NeededFiles, meta, l),
           \A g \in NeededFiles' : \E f \in NeededFiles : f.first = g.first /\ f.terms = g.terms
    PROVE  Contract!IsPrefix(Log'.entries, l.entries)
<1>1. LogFits' /\ TypeInv' /\ HeldOK' /\ NamesOK'
  BY FitsThen DEF IInv, MemoryInv, DiskInv
<1> DEFINE e == l.entries
           e1 == Log'.entries
<1>2. /\ first' \in Nat /\ last' \in Nat /\ last' >= first' - 1 /\ meta \in Nat
  BY <1>1, SegmentStorageAssumption DEF TypeInv
<1>3. /\ e \in Seq(Terms) /\ e1 \in Seq(Terms) /\ Len(e1) = last' - first' + 1
      /\ Len(e) \in Nat /\ Len(e1) \in Nat
  <2>1. e \in Seq(Terms) /\ e1 \in Seq(Terms) /\ Len(e1) = last' - first' + 1
    BY <1>1 DEF LogsOK, LogFits
  <2> QED BY <2>1, LenProperties
<1>4. ASSUME NEW n \in 1..Len(e1) PROVE n <= Len(e) /\ e1[n] = e[n]
  <2>1. PICK i \in first'..last' : i = first' + n - 1
    <3>1. PICK z \in Nat : z = Len(e1)
      BY <1>3
    <3>2. n \in 1..z /\ z = last' - first' + 1
      BY <1>3, <3>1
    <3>3. first' + n - 1 \in first'..last'
      BY <1>2, <3>2
    <3> QED BY <3>3
  <2>2. i - first' + 1 = n
    BY <1>2, <2>1
  <2>3. PICK s \in segments' : s.first <= i /\ i <= LastOf(s)
    BY <1>1 DEF LogFits
  <2>4. e1[n] = s.terms[i - s.first + 1]
    <3>1. e1[i - first' + 1] = s.terms[i - s.first + 1]
      BY <1>1, <2>3 DEF LogFits
    <3> QED BY <2>2, <3>1
  <2>5. PICK g \in files' : g.first = s.first /\ g.terms = s.terms
    BY <1>1 DEF HeldOK, HasFile
  <2>6. PICK f \in NeededFiles : f.first = s.first /\ f.terms = s.terms
    <3>1. LastOf(g) = LastOf(s)
      BY <2>5 DEF LastOf
    <3>2. g.last # 0 => g.last = LastOf(g)
      BY <1>1, <2>5 DEF NamesOK, NameOK, LastOf
    <3>3. LastOf(g) >= meta /\ i \in Int
      <4>1. g \in FileType
        BY <1>1, <2>5 DEF TypeInv
      <4>2. LastOf(g) \in Nat
        BY <4>1, FileIsPiece, LastOfIs
      <4> QED BY <1>2, <2>1, <2>3, <3>1, <4>2
    <3>4. g \in NeededFiles'
      BY <2>5, <3>2, <3>3 DEF NeededFiles, Needed
    <3> QED BY <2>5, <3>4
  <2>7. g \in FileType
    BY <1>1 DEF TypeInv
  <2>8. s.first \in Nat /\ Len(s.terms) \in Nat
    BY <2>5, <2>7, LenProperties DEF FileType
  <2>9. PICK m : m = i - s.first + 1
    OBVIOUS
  <2>10. m \in 1..Len(s.terms) /\ s.first + m - 1 = i /\ i >= meta /\ s.first + m - meta = n
    <3>1. LastOf(s) = s.first + Len(s.terms) - 1 /\ i \in Int
      BY <1>2 DEF LastOf
    <3>2. m \in Int /\ m >= 1 /\ m <= Len(s.terms)
      BY <2>3, <2>8, <2>9, <3>1
    <3>3. s.first + m - 1 = i /\ i >= meta /\ s.first + m - meta = n
      BY <1>2, <2>1, <2>8, <2>9, <3>1
    <3> QED BY <2>8, <3>2, <3>3
  <2>11. m \in 1..Len(f.terms) /\ f.first + m - 1 >= meta
    BY <2>6, <2>10
  <2>12. f.first + m - meta <= Len(e) /\ f.terms[m] = e[f.first + m - meta]
    BY <2>11 DEF Says
  <2> QED BY <2>4, <2>6, <2>9, <2>10, <2>12
<1> HIDE DEF e, e1
<1>5. Len(e1) <= Len(e)
  <2>1. Len(e1) \in Nat
    BY <1>3
  <2>2. CASE Len(e1) = 0
    BY <1>3, <2>2
  <2>3. CASE Len(e1) # 0
    <3>1. Len(e1) \in 1..Len(e1)
      BY <2>1, <2>3
    <3> QED BY <1>4, <3>1
  <2> QED BY <2>2, <2>3
<1>6. Contract!IsPrefix(e1, e)
  BY <1>3, <1>4, <1>5, PrefixIs
<1> QED BY <1>6 DEF e, e1

\* The last index of a log of z entries from index a on.
LEMMA LastIs ==
    ASSUME NEW a \in Nat, NEW b \in Nat, NEW z \in Nat, z = b - a + 1, NEW k \in Nat
    PROVE  /\ a + z - 1 = b
           /\ k + 1 - a <= z <=> k <= b
OBVIOUS

\* The log reaches as far as a file that init needs.
LEMMA LogReaches ==
    ASSUME IInv', up', ~broken', op'.of = "none", op'.pc = "idle",
           NEW k \in Nat, k >= meta', NEW g \in NeededFiles', g.first <= k, k <= LastOf(g)
    PROVE  k <= last'
<1>1. (IInv /\ up /\ ~broken /\ op.of \in {"none", "append", "prefix"} /\ op.pc # "pop" => AtRest)'
  BY Rests, PTL
<1>2. (IInv /\ AtRest => Says(NeededFiles, meta, Log))'
  BY MemoryIsDisk, PTL
<1>3. Says(NeededFiles, meta, Log)' /\ LogFits' /\ meta' = first'
  BY <1>1, <1>2, FitsThen DEF AtRest
<1>4. /\ first' \in Nat /\ last' \in Nat /\ g \in FileType
  BY SegmentStorageAssumption DEF IInv, TypeInv, NeededFiles
<1>5. g.first \in Nat /\ Len(g.terms) \in Nat /\ LastOf(g) = g.first + Len(g.terms) - 1
  BY <1>4, LenProperties DEF FileType, LastOf
<1>6. PICK n : n = k - g.first + 1
  OBVIOUS
<1>7. n \in 1..Len(g.terms) /\ g.first + n - 1 >= meta'
  BY <1>3, <1>4, <1>5, <1>6
<1>8. g.first + n - meta' <= Len(Log'.entries)
  BY <1>3, <1>7 DEF Says
<1>9. PICK z \in Nat : z = Len(Log'.entries) /\ z = last' - first' + 1
  <2>1. Log'.entries \in Seq(Terms) /\ Len(Log'.entries) = last' - first' + 1
    BY <1>3 DEF LogFits
  <2> QED BY <2>1, LenProperties
<1>10. g.first + n - meta' = k + 1 - first'
  BY <1>3, <1>4, <1>5, <1>6
<1>11. k + 1 - first' <= z
  BY <1>8, <1>9, <1>10
<1> QED BY <1>4, <1>9, <1>11, LastIs

LEMMA RefinesRestart ==
    ASSUME IInv, IInv', RecoverInv, LogsOK, PowerOK, StaleOK, Restart
    PROVE  RecoverInv' /\ ContractNext
<1>1. ~up /\ op = Idle /\ op' = Idle /\ meta' = meta /\ safe' = safe
  BY DEF Restart, IInv, StepInv
<1>2. TypeInv /\ NamesOK /\ FilesOK /\ ApartOK /\ ~Resetting
  <2>1. ~Resetting
    BY <1>1, IdleIs DEF Resetting
  <2> QED BY <2>1 DEF IInv, DiskInv, NameInv
<1>3. PICK left \in SUBSET Below :
         files' = {[f EXCEPT !.tail = "none"] : f \in Full \union Keep} \union left
  BY <1>2, RestartIs
<1>4. /\ first' = meta /\ up' = TRUE /\ broken' = FALSE /\ other' = Log'
  BY <1>2, RestartIs
<1>5. /\ NeededFiles = Full \union Part /\ Full \union Part \in SUBSET FileType
      /\ \A f \in Full : LastOf(f) >= meta
  BY <1>2, FoundIs
<1>6. Keep \in SUBSET Part /\ \A f \in Part : LastOf(f) >= meta => f \in Keep
  BY DEF Keep, Loaded, LastOf
<1>7. ASSUME NEW f \in Full \union Keep
      PROVE  /\ [f EXCEPT !.tail = "none"].first = f.first /\ [f EXCEPT !.tail = "none"].terms = f.terms
             /\ [f EXCEPT !.tail = "none"].synced = f.synced
  BY <1>5, <1>6 DEF FileType
<1>8. \A g \in NeededFiles' : \E f \in NeededFiles : f.first = g.first /\ f.terms = g.terms
  <2> SUFFICES ASSUME NEW g \in NeededFiles'
               PROVE  \E f \in NeededFiles : f.first = g.first /\ f.terms = g.terms
    OBVIOUS
  <2>1. PICK f \in Full \union Keep : g = [f EXCEPT !.tail = "none"]
    <3>1. g \in files' /\ g \notin left
      BY <1>1 DEF NeededFiles, Below, Needed
    <3> QED BY <1>3, <3>1
  <2>2. g.first = f.first /\ g.terms = f.terms
    BY <1>7, <2>1
  <2>3. f \in NeededFiles
    BY <1>5, <1>6
  <2> QED BY <2>2, <2>3
<1>9. safe \in Nat /\ first' \in Nat /\ last' \in Nat /\ last' >= first' - 1 /\ meta \in Nat
  BY Bounds DEF RecoverInv, SafeOK
<1>10. SafeOnDisk'
  <2>1. ASSUME NEW f \in NeededFiles, safe >= meta, Stable(f)
        PROVE  \E g \in files' : g.first = f.first /\ safe <= g.first + Kept(g) - 1
    <3>1. LastOf(f) >= safe /\ LastOf(f) \in Nat
      <4>1. f \in files
        BY DEF NeededFiles
      <4>2. LastOf(f) >= safe
        BY <1>9, <2>1, <4>1, StableIsNeeded DEF StableNeeded
      <4> QED BY <1>2, <4>2, Memory, LastOfIs DEF Pieces
    <3>2. f \in Full \union Keep
      BY <1>5, <1>6, <1>9, <2>1, <3>1
    <3>3. PICK g \in files' : g.first = f.first /\ g.terms = f.terms /\ g.synced = f.synced
      BY <1>3, <1>7, <3>2
    <3> QED BY <2>1, <3>3 DEF Stable, Kept
  <2> QED BY <1>1, <2>1, StableKept
<1>11. SafeOK'
  <2>1. CASE safe < meta
    BY <1>1, <1>4, <1>9, <2>1 DEF SafeOK
  <2>2. CASE safe >= meta
    <3>1. PICK g \in NeededFiles' : Stable(g)'
      BY <1>1, <1>10, <2>2 DEF SafeOnDisk
    <3>2. (IInv => StableNeeded)'
      BY StableIsNeeded, PTL
    <3>3. g.first <= safe /\ LastOf(g) >= safe
      BY <1>1, <1>9, <2>2, <3>1, <3>2 DEF StableNeeded, Stable, NeededFiles
    <3>4. LastOf(g) \in Nat
      <4>1. g \in FileType
        BY DEF IInv, TypeInv, NeededFiles
      <4> QED BY <4>1, FileIsPiece, LastOfIs
    <3>5. safe <= LastOf(g)
      BY <1>9, <3>3, <3>4
    <3>6. op'.of = "none" /\ op'.pc = "idle"
      BY <1>1 DEF Idle
    <3>7. safe <= last'
      BY <1>1, <1>4, <1>9, <2>2, <3>3, <3>5, <3>6, LogReaches
    <3> QED BY <1>1, <1>9, <3>7 DEF SafeOK
  <2> QED BY <1>9, <2>1, <2>2
<1>12. LeavesALog'
  BY <1>1, <1>4, RestsThen DEF Idle
<1>13. OtherOK'
  BY <1>1 DEF OtherOK, Idle
<1>14. ContractNext
  <2>1. PICK l \in {Log, other} : Says(NeededFiles, meta, l)
    BY <1>2 DEF RecoverInv, LeavesALog
  <2>2. Contract!IsPrefix(Log'.entries, l.entries)
    BY <1>1, <1>4, <1>8, <2>1, LoadedIs
  <2>3. l.first = meta
    BY <2>1 DEF Says
  <2>4. Log' = [first |-> first', entries |-> Log'.entries]
    BY DEF Log
  <2>5. first' + Len(Log'.entries) - 1 >= safe
    <3>1. PICK z \in Nat : z = Len(Log'.entries) /\ z = last' - first' + 1
      <4>1. Log'.entries \in Seq(Terms) /\ Len(Log'.entries) = last' - first' + 1
        BY <1>4, FitsThen DEF LogFits
      <4> QED BY <4>1, LenProperties
    <3>2. safe <= last'
      BY <1>1, <1>11 DEF SafeOK
    <3>3. first' + z - 1 = last'
      BY <1>9, <3>1, LastIs
    <3> QED BY <1>9, <3>1, <3>2, <3>3
  <2>6. Contract!Log = Log
    BY DEF Contract!Log, Log
  <2>7. (Log.entries)' = Log'.entries
    OBVIOUS
  <2>8. Contract!Restart
    BY <1>1, <1>4, <2>1, <2>2, <2>3, <2>4, <2>5, <2>6, <2>7 DEF Contract!Restart
  <2> QED BY <2>8 DEF ContractNext, Contract!Next
<1> QED BY <1>10, <1>11, <1>12, <1>13, <1>14 DEF RecoverInv

-----------------------------------------------------------------------------
(* The specification implements the contract.                              *)

LEMMA LogsAre ==
    ASSUME IInv, IInv', LogsOK, ContractNext
    PROVE  LogsOK'
<1>1. up => LogFits
  BY UpFits
<1>2. up' => LogFits'
  BY FitsThen
<1>3. Contract!Log = Log /\ Log.first = first
  BY DEF Contract!Log, Log
<1>4. LogFits => Log.entries \in Seq(Terms)
  BY DEF LogFits
<1>5. LogFits' => (Log.entries)' \in Seq(Terms)
  BY DEF LogFits
<1>6. ASSUME NEW k \in 1..MaxIndex, k >= first, other' = Contract!After(Contract!Log, k)
      PROVE  other'.entries \in Seq(Terms)
  <2> DEFINE e == Log.entries
             a == k - first + 1
  <2>1. other'.entries = SubSeq(e, a, Len(e))
    BY <1>3, <1>6 DEF Contract!After
  <2>2. e \in Seq(Terms)
    BY DEF LogsOK
  <2>3. a \in Nat /\ a >= 1
    BY <1>6, Bounds
  <2> HIDE DEF e, a
  <2>4. SubSeq(e, a, Len(e)) \in Seq(Terms)
    <3>1. Len(e) \in Nat
      BY <2>2, LenProperties
    <3>2. a <= Len(e) \/ a > Len(e)
      BY <2>3, <3>1
    <3>3. <<>> \in Seq(Terms)
      OBVIOUS
    <3> QED BY <2>2, <2>3, <3>2, <3>3, Remainder
  <2> QED BY <2>1, <2>4
<1>7. CASE UNCHANGED <<up, first, Log.entries, other, safe>>
  BY <1>7 DEF LogsOK
<1>8. CASE up /\ Contract!Crash
  BY <1>8 DEF Contract!Crash, LogsOK
<1>9. CASE up /\ \E e \in Terms : Contract!append_entry(e)
  <2>1. up' /\ other'.entries = (Log.entries)'
    BY <1>3, <1>9 DEF Contract!append_entry, Log
  <2> QED BY <1>2, <1>5, <2>1 DEF LogsOK
<1>10. ASSUME up, NEW k \in 1..MaxIndex, Contract!begin_truncate_prefix(k) \/ Contract!truncate_prefix(k)
       PROVE  LogsOK'
  <2>1. up' /\ k >= first /\ other' = Contract!After(Contract!Log, k)
    BY <1>10 DEF Contract!begin_truncate_prefix, Contract!truncate_prefix
  <2> QED BY <1>2, <1>5, <1>6, <2>1 DEF LogsOK
<1>11. ASSUME up, NEW k \in 1..MaxIndex, Contract!truncate_suffix(k - 1) \/ Contract!reset(k)
       PROVE  LogsOK'
  <2>1. up' /\ other' = Contract!Log
    BY <1>11 DEF Contract!truncate_suffix, Contract!reset
  <2> QED BY <1>2, <1>3, <1>5, <2>1 DEF LogsOK
<1>12. CASE up /\ Contract!Return
  <2>1. up' /\ other' = Contract!Log
    BY <1>12 DEF Contract!Return
  <2> QED BY <1>2, <1>3, <1>5, <2>1 DEF LogsOK
<1>13. CASE Contract!Restart
  <2>1. up' /\ other'.entries = (Log.entries)'
    BY <1>13 DEF Contract!Restart
  <2> QED BY <1>2, <1>5, <2>1 DEF LogsOK
<1> QED BY <1>7, <1>8, <1>9, <1>10, <1>11, <1>12, <1>13 DEF ContractNext, Contract!Next

Recovery == IInv /\ RecoverInv /\ LogsOK

LEMMA RecoveryStarts == Init => Recovery /\ Contract!Init
<1> SUFFICES ASSUME Init PROVE Recovery /\ Contract!Init
  OBVIOUS
<1>1. /\ up = TRUE /\ files = {} /\ meta = 1 /\ first = 1 /\ last = 0 /\ op = Idle
      /\ other = [first |-> 1, entries |-> <<>>] /\ safe = 0
  BY DEF Init
<1>2. IInv
  BY Starting
<1>3. Log.entries = <<>> /\ Log.first = 1
  <2>1. Log.entries \in Seq(Terms) /\ Len(Log.entries) = last - first + 1 /\ Log.first = first
    BY <1>1, <1>2, UpFits DEF LogFits
  <2>2. Len(Log.entries) = 0
    BY <1>1, <2>1
  <2> QED BY <1>1, <2>1, <2>2, ElementsOf
<1>4. NeededFiles = {}
  BY <1>1 DEF NeededFiles
<1>5. Says(NeededFiles, meta, Log)
  BY <1>1, <1>3, <1>4 DEF Says
<1>6. RecoverInv
  BY <1>1, <1>5 DEF RecoverInv, SafeOK, LeavesALog, SafeOnDisk, OtherOK, Idle
<1>7. LogsOK
  BY <1>1, <1>3 DEF LogsOK
<1>8. Contract!Init
  BY <1>1, <1>3 DEF Contract!Init, Contract!Log
<1> QED BY <1>2, <1>6, <1>7, <1>8 DEF Recovery

LEMMA RefinesStutter ==
    ASSUME IInv, IInv', RecoverInv, UNCHANGED vars
    PROVE  RecoverInv' /\ ContractNext
<1>1. UNCHANGED <<up, files, meta, first, last, closed, open, op, other, safe>>
  BY DEF vars
<1>2. Log' = Log
  BY <1>1, LogSame DEF segments
<1>3. SafeOnDisk' /\ SafeOK'
  BY <1>1, SameFiles DEF RecoverInv, SafeOK
<1>4. LeavesALog'
  <2>1. NeededFiles' = NeededFiles
    BY <1>1 DEF NeededFiles, Needed
  <2> QED BY <1>1, <1>2, <2>1 DEF RecoverInv, LeavesALog, Resetting
<1>5. OtherOK'
  BY <1>1, <1>2 DEF RecoverInv, OtherOK
<1> QED BY <1>1, <1>2, <1>3, <1>4, <1>5, Quiet DEF RecoverInv

LEMMA StepRecovers ==
    ASSUME Recovery, PowerOK, ResetOK, FsyncOK, StaleOK, BehindOK, [Next]_vars
    PROVE  Recovery' /\ ContractNext
<1>1. IInv /\ RecoverInv /\ LogsOK
  BY DEF Recovery
<1>2. IInv'
  BY <1>1, StepKeeps
<1>3. RecoverInv' /\ ContractNext
  <2>1. CASE UNCHANGED vars
    BY <1>1, <1>2, <2>1, RefinesStutter
  <2>2. CASE \/ append_entries \/ create_segment \/ open_segment_full \/ close_segment
             \/ write \/ sync \/ append_fails
    BY <1>1, <1>2, <2>2, RefinesAppendEntries, RefinesCreate, RefinesOpenFull, RefinesClose,
       RefinesWrite, RefinesSync, RefinesAppendFails
  <2>3. CASE \/ truncate_prefix \/ save_meta \/ pop_segments \/ unlink \/ unlinked
    BY <1>1, <1>2, <2>3, RefinesTruncatePrefix, RefinesSaveMeta, RefinesPop, RefinesUnlink,
       RefinesUnlinked
  <2>4. CASE truncate_suffix \/ rename \/ ftruncate \/ reset
    BY <1>1, <1>2, <2>4, RefinesTruncateSuffix, RefinesRename, RefinesFtruncate, RefinesReset
  <2>5. CASE Crash \/ PowerLoss \/ Restart
    BY <1>1, <1>2, <2>5, RefinesCrash, RefinesPowerLoss, RefinesRestart
  <2> QED BY <2>1, <2>2, <2>3, <2>4, <2>5 DEF Next
<1>4. LogsOK'
  BY <1>1, <1>2, <1>3, LogsAre
<1> QED BY <1>2, <1>3, <1>4 DEF Recovery

\* Whatever operation a crash or a loss of power interrupts, and in whichever step,
\* what init then loads is a prefix of the log as it was before, or after, that operation,
\* and it has every entry whose append has returned: the log of the files, and of
\* the index in memory, is that of a LogStorage (storage.h), also when files below the
\* first index cannot be removed and come back. Excluded are the faults with which
\* TLC finds it false.
THEOREM SegmentsImplementLogStorage ==
    ASSUME PowerOK, ResetOK, FsyncOK, StaleOK, BehindOK
    PROVE  Spec => Implements
<1>1. Init => Recovery /\ Contract!Init
  BY RecoveryStarts
<1>2. Recovery /\ [Next]_vars => Recovery' /\ [Contract!Next]_<<up, first, Log.entries, other, safe>>
  BY StepRecovers DEF ContractNext
<1> QED BY <1>1, <1>2, PTL DEF Spec, Implements, Contract!Spec
=============================================================================

--------------------------- MODULE ElectionProofs ---------------------------
(***************************************************************************)
(* Proofs about Election: the types; a term has one leadership; the CHECK  *)
(* of become_leader never fails in a group of at least two voters.         *)
(***************************************************************************)
EXTENDS Election, FiniteSetTheorems, TLAPS

-----------------------------------------------------------------------------
(* What the helpers return.                                                *)

\* VoteBallotCtx::reset and ::init keep the context well formed.
LEMMA CtxType ==
    ASSUME NEW c \in VoteCtx
    PROVE  /\ NoDisrupted \in Disrupted
           /\ CtxReset(c) \in VoteCtx
           /\ \A d \in Disrupted : CtxInit(c, d) \in VoteCtx
  BY DEF VoteCtx, CtxReset, CtxInit, NoDisrupted, Disrupted, LastLogId

\* step_down: a node that is not active is left alone; an active one becomes a
\* follower of nobody and never goes back to an earlier term.
LEMMA StepDownFacts ==
    ASSUME NEW x \in Node, NEW t \in Term, NEW ok \in BOOLEAN
    PROVE  /\ StepDown(x, t, ok) \in Node
           /\ x.state \notin Active => StepDown(x, t, ok) = x
           /\ x.state \in Active =>
                /\ StepDown(x, t, ok).state = "FOLLOWER"
                /\ StepDown(x, t, ok).leader_id = NONE
                /\ t > x.current_term =>
                     /\ StepDown(x, t, ok).current_term = t
                     /\ StepDown(x, t, ok).voted_id = NONE
                     /\ StepDown(x, t, ok).meta =
                          IF ok THEN [term |-> t, votedfor |-> NONE] ELSE x.meta
                /\ ~(t > x.current_term) =>
                     /\ StepDown(x, t, ok).current_term = x.current_term
                     /\ StepDown(x, t, ok).voted_id = x.voted_id
                     /\ StepDown(x, t, ok).meta = x.meta
<1>1. CtxReset(x.vote_ctx) \in VoteCtx
  BY CtxType, x.vote_ctx \in VoteCtx DEF Node
<1>2. [term |-> t, votedfor |-> NONE] \in Meta
  BY DEF Meta
<1>3. "FOLLOWER" \in States
  BY DEF States, Active
<1>4. StepDown(x, t, ok) \in Node
  <2>1. CASE x.state \notin Active
    BY <2>1 DEF StepDown
  <2>2. CASE x.state \in Active
    BY <2>2, <1>1, <1>2, <1>3 DEF StepDown, Node
  <2> QED BY <2>1, <2>2
<1> QED
  BY <1>4 DEF StepDown, Node

\* The other helpers keep a node's state well formed.
LEMMA HelperTypes ==
    ASSUME NEW x \in Node, NEW n \in Server
    PROVE  /\ Grant(x, n) \in Node /\ GrantOwn(x, n) \in Node
           /\ StartGrantSelfTimer(x) \in Node
           /\ SaveVote(x, n) \in Node /\ ResetVote(x) \in Node
           /\ \A s \in States : SetState(x, s) \in Node
           /\ \A last \in LogIds : SetLastLogId(x, last) \in Node
           /\ \A d \in Disrupted : ExpireLease(x, d) \in Node
           /\ Reserve(x, n) \in Node /\ Retried(x) \in Node
           /\ SetLeader(x, n) \in Node /\ SetLeader(x, NONE) \in Node
           /\ RenewLease(x, n) \in Node
           /\ \A m \in Meta : Started(x, m) \in Node
<1>1. /\ Grant(x, n) \in Node /\ GrantOwn(x, n) \in Node
      /\ StartGrantSelfTimer(x) \in Node
  BY DEF Node, VoteCtx, Grant, GrantOwn, StartGrantSelfTimer
<1>2. SaveVote(x, n) \in Node /\ ResetVote(x) \in Node
  BY DEF Node, Meta, SaveVote, ResetVote
<1>3. \A s \in States : SetState(x, s) \in Node
  BY DEF Node, SetState
<1>4. \A last \in LogIds : SetLastLogId(x, last) \in Node
  BY DEF Node, VoteCtx, LastLogId, SetLastLogId
<1>5. \A d \in Disrupted : ExpireLease(x, d) \in Node
  BY DEF Node, ExpireLease
<1>6. Reserve(x, n) \in Node /\ Retried(x) \in Node
  BY DEF Node, VoteCtx, Reserve, Retried
<1>7. /\ SetLeader(x, n) \in Node /\ SetLeader(x, NONE) \in Node
      /\ RenewLease(x, n) \in Node
  BY DEF Node, SetLeader, RenewLease
<1>8. \A m \in Meta : Started(x, m) \in Node
  BY DEF Node, Meta, States, Active, Started
<1> QED BY <1>1, <1>2, <1>3, <1>4, <1>5, <1>6, <1>7, <1>8

\* So do the two that start and end a candidacy, and the end of a process.
LEMMA ElectionTypes ==
    ASSUME NEW x \in Node, NEW n \in Server
    PROVE  /\ BecomeLeader(n, x) \in Node /\ Stopped(x) \in Node
           /\ x.current_term < MaxTerm =>
                \A b \in BOOLEAN : Candidate(n, x, b) \in Node
<1>1. x.vote_ctx \in VoteCtx /\ x.meta \in Meta
  BY DEF Node
<1>2. /\ NoDisrupted \in Disrupted /\ CtxReset(x.vote_ctx) \in VoteCtx
      /\ \A d \in Disrupted : CtxInit(x.vote_ctx, d) \in VoteCtx
  BY <1>1, CtxType
<1>3. {"LEADER", "CANDIDATE", "DOWN"} \subseteq States
  BY DEF States, Active, Leading
<1>4. BecomeLeader(n, x) \in Node
  BY <1>2, <1>3 DEF Node, BecomeLeader
<1>5. Stopped(x) \in Node
  BY <1>1, <1>2, <1>3 DEF Node, Stopped, Meta
<1>6. ASSUME x.current_term < MaxTerm, NEW b \in BOOLEAN
      PROVE  Candidate(n, x, b) \in Node
  <2>1. [peer |-> x.leader_id, term |-> x.current_term] \in Disrupted
    BY DEF Node, Disrupted
  <2>2. x.current_term + 1 \in Term
    BY <1>6, BoundAssumption DEF Node, Term
  <2>3. CtxInit(x.vote_ctx, IF b THEN [peer |-> x.leader_id, term |-> x.current_term]
                            ELSE NoDisrupted) \in VoteCtx
    BY <2>1, <1>2
  <2> QED BY <1>3, <2>2, <2>3 DEF Node, Candidate
<1> QED BY <1>4, <1>5, <1>6

\* Requests, answers and records of votes are well formed.
LEMMA MessageTypes ==
    ASSUME NEW x \in Node, NEW n \in Server
    PROVE  /\ \A S \in SUBSET Server : VoteRequests(n, x, S) \subseteq RequestType
           /\ RetryRequests(n, x) \subseteq RequestType
           /\ \A r \in RequestType, a \in BOOLEAN, b \in BOOLEAN, t \in Term :
                 VoteResponse(r, x, a, b, t) \in ResponseType
           /\ \A r \in ResponseType : Learned(x, r) \in Node
           /\ \A c \in Server :
                 Vote(n, x.current_term, c) \in
                    [voter: Server, term: Term, cand: Server]
<1>1. ASSUME NEW S \in SUBSET Server
      PROVE  VoteRequests(n, x, S) \subseteq RequestType
  <2>1. NoDisrupted \in Disrupted /\ x.vote_ctx.disrupted \in Disrupted
    BY DEF Node, VoteCtx, NoDisrupted, Disrupted
  <2>2. /\ x.current_term \in Term /\ x.vote_ctx.last \in LastLogId
        /\ x.vote_ctx.version \in Nat
    BY DEF Node, VoteCtx
  <2> QED BY <2>1, <2>2 DEF VoteRequests, RequestType
<1>2. RetryRequests(n, x) \subseteq RequestType
  <2>1. x.vote_ctx.reserved \in SUBSET Server
    BY DEF Node, VoteCtx
  <2> QED BY <1>1, <2>1 DEF RetryRequests
<1>3. ASSUME NEW r \in RequestType, NEW a \in BOOLEAN, NEW b \in BOOLEAN,
             NEW t \in Term
      PROVE  VoteResponse(r, x, a, b, t) \in ResponseType
  BY DEF VoteResponse, ResponseType, RequestType, Node
<1>4. ASSUME NEW r \in ResponseType
      PROVE  Learned(x, r) \in Node
  BY DEF Learned, ResponseType, Node, VoteCtx, Disrupted
<1>5. \A c \in Server : Vote(n, x.current_term, c) \in
                           [voter: Server, term: Term, cand: Server]
  BY DEF Vote, Node
<1> QED BY <1>1, <1>2, <1>3, <1>4, <1>5

\* The composite helpers of the vote and of the leader's messages.
LEMMA VoterTypes ==
    ASSUME NEW x \in Node, NEW n \in Server, NEW t \in Term, NEW ok \in BOOLEAN
    PROVE  /\ \A r \in RequestType, b \in BOOLEAN : CastVote(x, r, b, ok) \in Node
           /\ CheckStepDown(x, t, n, ok) \in Node
<1>1. ASSUME NEW r \in RequestType, NEW b \in BOOLEAN
      PROVE  CastVote(x, r, b, ok) \in Node
  <2>1. r.term \in Term /\ r.cand \in Server
    BY DEF RequestType
  <2>2. StepDown(x, r.term, TRUE) \in Node
    BY <2>1, StepDownFacts
  <2> QED BY <2>1, <2>2, HelperTypes DEF CastVote
<1>2. CheckStepDown(x, t, n, ok) \in Node
  BY StepDownFacts, HelperTypes DEF CheckStepDown
<1> QED BY <1>1, <1>2

\* The steps after a grant keep the types.
LEMMA GrantType ==
    ASSUME TypeOK, NEW n \in Server, NEW x \in Node,
           NEW el \in SUBSET electing, GrantSelf(n, x, el)
    PROVE  /\ node' \in [Server -> Node] /\ electing' \subseteq electing
           /\ handling' \subseteq handling /\ responses' \subseteq responses
           /\ elected' \subseteq [leader: Server, term: Term, version: Nat]
           /\ aborted' \in BOOLEAN
<1> DEFINE y == GrantOwn(x, n)
<1>1. y \in Node /\ StartGrantSelfTimer(x) \in Node
  BY HelperTypes
<1>2. BecomeLeader(n, y) \in Node /\ Stopped(y) \in Node
  BY <1>1, ElectionTypes
<1>3. [leader |-> n, term |-> y.current_term, version |-> y.vote_ctx.version]
         \in [leader: Server, term: Term, version: Nat]
  BY <1>1 DEF Node, VoteCtx
<1>4. CASE /\ Update(n, StartGrantSelfTimer(x)) /\ electing' = el
           /\ UNCHANGED <<handling, responses, elected, aborted>>
  BY <1>4, <1>1 DEF Update, TypeOK
<1>5. CASE AfterGrant(n, y, el)
  <2> HIDE DEF y
  <2> QED BY <1>5, <1>1, <1>2, <1>3 DEF AfterGrant, Halt, Update, TypeOK
<1> QED BY <1>4, <1>5 DEF GrantSelf

\* Every step keeps the types.
LEMMA TypeStep ==
    TypeOK /\ [Next]_vars => TypeOK'
<1> SUFFICES ASSUME TypeOK, [Next]_vars PROVE TypeOK'
  OBVIOUS
<1>u. ASSUME NEW n \in Server, NEW y \in Node, Update(n, y)
      PROVE  node' \in [Server -> Node]
  BY <1>u DEF Update, TypeOK
<1>n. \A n \in Server : node[n] \in Node /\ node[n].current_term \in Term
  BY DEF TypeOK, Node
<1>s. {"LEADER", "TRANSFERRING", "ERROR", "SHUTTING"} \subseteq States
  BY DEF States, Active, Leading
<1>o. \A site : SaveOutcomes(site) \subseteq BOOLEAN
  BY DEF SaveOutcomes
<1>1. CASE UNCHANGED vars
  BY <1>1 DEF vars, TypeOK
<1>2. ASSUME NEW n \in Server, NEW last \in LogIds, NEW b \in BOOLEAN,
             ElectSelf(n, last, b)
      PROVE  TypeOK'
  <2>1. Candidate(n, node[n], b) \in Node
    BY <1>2, <1>n, BoundAssumption, ElectionTypes DEF ElectSelf
  <2>2. [node |-> n, term |-> node[n].current_term + 1, last |-> last]
           \in ElectingType
    BY <1>2, <2>1, <1>n, BoundAssumption DEF ElectSelf, ElectingType, Term
  <2> QED BY <1>2, <1>u, <2>1, <2>2 DEF ElectSelf, TypeOK
<1>3. ASSUME NEW e \in electing, ElectSelfAbandoned(e)
      PROVE  TypeOK'
  BY <1>3 DEF ElectSelfAbandoned, TypeOK
<1>4. ASSUME NEW e \in electing, ElectSelfResume(e)
      PROVE  TypeOK'
  <2> DEFINE n == e.node
             x == SetLastLogId(node[n], e.last)
  <2>1. n \in Server /\ e.last \in LogIds
    BY <1>4 DEF TypeOK, ElectingType
  <2>2. x \in Node
    BY <2>1, <1>n, HelperTypes
  <2>3. SaveVote(x, n) \in Node /\ ResetVote(x) \in Node
    BY <2>1, <2>2, HelperTypes
  <2>4. /\ VoteRequests(n, x, Server) \subseteq RequestType
        /\ Vote(n, x.current_term, n) \in [voter: Server, term: Term, cand: Server]
    BY <2>1, <2>2, MessageTypes
  <2>5. requests' \subseteq RequestType /\ restarts' \in 0..MaxRestarts
    BY <1>4, <2>4 DEF ElectSelfResume, TypeOK
  <2>6. CASE /\ votes' = votes \union {Vote(n, x.current_term, n)}
             /\ GrantSelf(n, SaveVote(x, n), electing \ {e})
    <3>1. electing \ {e} \in SUBSET electing
      OBVIOUS
    <3>2. /\ node' \in [Server -> Node] /\ electing' \subseteq electing
          /\ handling' \subseteq handling /\ responses' \subseteq responses
          /\ elected' \subseteq [leader: Server, term: Term, version: Nat]
          /\ aborted' \in BOOLEAN
      BY <2>6, <3>1, <2>1, <2>3, GrantType
    <3> HIDE DEF n, x
    <3> QED BY <2>6, <3>2, <2>4, <2>5 DEF TypeOK
  <2>7. CASE /\ Update(n, ResetVote(x)) /\ electing' = electing \ {e}
             /\ UNCHANGED <<handling, responses, votes, elected, aborted>>
    <3> HIDE DEF n, x
    <3> QED BY <2>7, <2>5, <2>1, <2>3, <1>u DEF TypeOK
  <2> QED BY <1>4, <2>6, <2>7 DEF ElectSelfResume
<1>5. ASSUME NEW r \in requests, NEW last \in LogIds,
             HandleRequestVoteRequest(r, last)
      PROVE  TypeOK'
  <2> DEFINE n == r.peer
             x == ExpireLease(node[n], r.disrupted)
  <2>1. n \in Server /\ r \in RequestType /\ r.disrupted \in Disrupted
    BY <1>5 DEF TypeOK, RequestType
  <2>2. x \in Node /\ x.current_term \in Term
    BY <2>1, <1>n, HelperTypes DEF Node
  <2>3. VoteResponse(r, x, FALSE, FALSE, x.current_term) \in ResponseType
    BY <2>1, <2>2, MessageTypes
  <2>4. [req |-> r, previous_term |-> x.current_term, last |-> last]
           \in HandlingType
    BY <2>1, <2>2 DEF HandlingType
  <2>5. /\ node' \in [Server -> Node]
        /\ UNCHANGED <<electing, restarts, votes, elected, aborted>>
        /\ requests' = requests \ {r}
    BY <1>5, <1>u, <2>1, <2>2 DEF HandleRequestVoteRequest
  <2>6. \/ /\ responses' = responses \union
                 {VoteResponse(r, x, FALSE, FALSE, x.current_term)}
           /\ UNCHANGED handling
        \/ /\ handling' = handling \union
                {[req |-> r, previous_term |-> x.current_term, last |-> last]}
           /\ UNCHANGED responses
    BY <1>5 DEF HandleRequestVoteRequest
  <2> HIDE DEF n, x
  <2> QED BY <2>3, <2>4, <2>5, <2>6 DEF TypeOK
<1>6. ASSUME NEW h \in handling, HandleRequestVoteResume(h)
      PROVE  TypeOK'
  <2> DEFINE r == h.req
             n == r.peer
             x == node[n]
             good == LogIdGeq(r.last, h.last)
  <2>1. /\ n \in Server /\ r \in RequestType /\ r.term \in Term
        /\ r.cand \in Server /\ h.previous_term \in Term
    BY <1>6 DEF TypeOK, RequestType, HandlingType
  <2>2. x \in Node /\ good \in BOOLEAN
    BY <2>1, <1>n DEF LogIdGeq
  <2>3. /\ handling' = handling \ {h}
        /\ UNCHANGED <<electing, requests, restarts, elected, aborted>>
    BY <1>6 DEF HandleRequestVoteResume
  <2>4. CASE /\ \E b \in BOOLEAN : responses' = responses \union
                   {VoteResponse(r, x, b, FALSE, h.previous_term)}
             /\ UNCHANGED <<node, votes>>
    <3>1. \A b \in BOOLEAN :
             VoteResponse(r, x, b, FALSE, h.previous_term) \in ResponseType
      BY <2>1, <2>2, MessageTypes
    <3> HIDE DEF r, n, x, good
    <3> QED BY <2>3, <2>4, <3>1 DEF TypeOK
  <2>5. ASSUME NEW ok1 \in SaveOutcomes("step_down"),
               NEW ok2 \in SaveOutcomes("vote"),
             LET y == IF r.term > x.current_term THEN StepDown(x, r.term, ok1)
                      ELSE x
                 z == CastVote(y, r, good, ok2)
                 disrupted == r.term > x.current_term /\ x.state \in Leading
             IN /\ Update(n, z)
                /\ votes' = IF good /\ y.voted_id = NONE /\ ok2
                            THEN votes \union {Vote(n, z.current_term, r.cand)}
                            ELSE votes
                /\ responses' = responses \union
                      {VoteResponse(r, z, FALSE, disrupted, h.previous_term)}
        PROVE  TypeOK'
    <3> DEFINE y == IF r.term > x.current_term THEN StepDown(x, r.term, ok1)
                    ELSE x
               z == CastVote(y, r, good, ok2)
               d == r.term > x.current_term /\ x.state \in Leading
    <3>0. ok1 \in BOOLEAN /\ ok2 \in BOOLEAN
      BY <1>o
    <3>1. y \in Node
      BY <3>0, <2>1, <2>2, StepDownFacts
    <3>2. z \in Node
      BY <3>0, <3>1, <2>1, <2>2, VoterTypes
    <3>3. VoteResponse(r, z, FALSE, d, h.previous_term) \in ResponseType
      BY <2>1, <3>2, MessageTypes
    <3>4. Vote(n, z.current_term, r.cand) \in
             [voter: Server, term: Term, cand: Server]
      BY <2>1, <3>2, MessageTypes
    <3>5. node' \in [Server -> Node]
      BY <2>5, <1>u, <2>1, <3>2
    <3>6. /\ votes' \subseteq votes \union {Vote(n, z.current_term, r.cand)}
          /\ responses' = responses \union
                {VoteResponse(r, z, FALSE, d, h.previous_term)}
      BY <2>5
    <3> HIDE DEF r, n, x, good, y, z, d
    <3> QED BY <2>3, <3>3, <3>4, <3>5, <3>6 DEF TypeOK
  <2>6. \/ /\ \E b \in BOOLEAN : responses' = responses \union
                 {VoteResponse(r, x, b, FALSE, h.previous_term)}
           /\ UNCHANGED <<node, votes>>
        \/ \E ok1 \in SaveOutcomes("step_down"), ok2 \in SaveOutcomes("vote") :
             LET y == IF r.term > x.current_term THEN StepDown(x, r.term, ok1)
                      ELSE x
                 z == CastVote(y, r, good, ok2)
                 disrupted == r.term > x.current_term /\ x.state \in Leading
             IN /\ Update(n, z)
                /\ votes' = IF good /\ y.voted_id = NONE /\ ok2
                            THEN votes \union {Vote(n, z.current_term, r.cand)}
                            ELSE votes
                /\ responses' = responses \union
                      {VoteResponse(r, z, FALSE, disrupted, h.previous_term)}
    BY <1>6, <2>2, Zenon DEF HandleRequestVoteResume
  <2> QED BY <2>4, <2>5, <2>6, Zenon
<1>7. ASSUME NEW r \in responses, DiscardVoteResponse(r)
      PROVE  TypeOK'
  BY <1>7 DEF DiscardVoteResponse, TypeOK
<1>8. ASSUME NEW r \in responses, HigherTermVoteResponse(r)
      PROVE  TypeOK'
  <2>1. r.cand \in Server /\ r.term \in Term
    BY <1>8 DEF TypeOK, ResponseType
  <2>2. \A ok \in BOOLEAN : StepDown(node[r.cand], r.term, ok) \in Node
    BY <2>1, <1>n, StepDownFacts
  <2> QED BY <1>8, <1>u, <1>o, <2>1, <2>2 DEF HigherTermVoteResponse, TypeOK
<1>9. ASSUME NEW r \in responses, GrantedVoteResponse(r)
      PROVE  TypeOK'
  <2> DEFINE n == r.cand
             x == Learned(node[n], r)
             y == IF r.peer = x.last_leader THEN GrantOwn(Grant(x, r.peer), n)
                  ELSE Grant(x, r.peer)
  <2>1. n \in Server /\ r.peer \in Server /\ r \in ResponseType
    BY <1>9 DEF TypeOK, ResponseType
  <2>2. x \in Node
    BY <2>1, <1>n, MessageTypes
  <2>3. y \in Node
    BY <2>1, <2>2, HelperTypes
  <2>4. BecomeLeader(n, y) \in Node /\ Retried(y) \in Node
    BY <2>1, <2>3, HelperTypes, ElectionTypes
  <2>5. /\ RetryRequests(n, y) \subseteq RequestType
        /\ [leader |-> n, term |-> y.current_term, version |-> y.vote_ctx.version]
              \in [leader: Server, term: Term, version: Nat]
    <3>1. y.current_term \in Term /\ y.vote_ctx.version \in Nat
      BY <2>3 DEF Node, VoteCtx
    <3> QED BY <3>1, <2>1, <2>3, MessageTypes
  <2>6. /\ responses' = responses \ {r}
        /\ \/ /\ Update(n, BecomeLeader(n, y))
              /\ elected' = elected \union
                    {[leader |-> n, term |-> y.current_term,
                      version |-> y.vote_ctx.version]}
              /\ UNCHANGED requests
           \/ /\ Update(n, Retried(y))
              /\ requests' = requests \union RetryRequests(n, y)
              /\ UNCHANGED elected
        /\ UNCHANGED <<electing, handling, restarts, votes, aborted>>
    BY <1>9, Zenon DEF GrantedVoteResponse
  <2> HIDE DEF n, x, y
  <2> QED BY <2>6, <2>4, <2>5, <2>1, <1>u DEF TypeOK
<1>10. ASSUME NEW r \in responses, LeaseRejectedVoteResponse(r)
       PROVE  TypeOK'
  <2> DEFINE n == r.cand
             y == Reserve(Learned(node[n], r), r.peer)
  <2>1. n \in Server /\ r.peer \in Server /\ r \in ResponseType
    BY <1>10 DEF TypeOK, ResponseType
  <2>2. y \in Node
    BY <2>1, <1>n, MessageTypes, HelperTypes
  <2>3. Retried(y) \in Node /\ RetryRequests(n, y) \subseteq RequestType
    BY <2>1, <2>2, MessageTypes, HelperTypes
  <2>4. /\ responses' = responses \ {r}
        /\ Update(n, Retried(y))
        /\ requests' = requests \union RetryRequests(n, y)
        /\ UNCHANGED <<electing, handling, restarts, votes, elected, aborted>>
    BY <1>10, Zenon DEF LeaseRejectedVoteResponse
  <2> HIDE DEF n, y
  <2> QED BY <2>4, <2>3, <2>1, <1>u DEF TypeOK
<1>11. ASSUME NEW n \in Server, HandleGrantSelfTimedout(n)
       PROVE  TypeOK'
  <2>1. /\ node' \in [Server -> Node] /\ electing' \subseteq electing
        /\ handling' \subseteq handling /\ responses' \subseteq responses
        /\ elected' \subseteq [leader: Server, term: Term, version: Nat]
        /\ aborted' \in BOOLEAN
    BY <1>11, <1>n, GrantType DEF HandleGrantSelfTimedout
  <2> QED BY <1>11, <2>1 DEF HandleGrantSelfTimedout, TypeOK
<1>12. ASSUME NEW n \in Server, NEW e \in elected, HandleLeaderMessage(n, e)
       PROVE  TypeOK'
  <2>1. e.leader \in Server /\ e.term \in Term
    BY <1>12 DEF TypeOK
  <2>2. PICK ok \in BOOLEAN :
           LET x == CheckStepDown(node[n], e.term, e.leader, ok) IN
           \/ Update(n, x)
           \/ Update(n, RenewLease(x, e.leader))
           \/ e.term < MaxTerm /\ Update(n, StepDown(x, e.term + 1, ok))
    BY <1>12, <1>o DEF HandleLeaderMessage
  <2> DEFINE x == CheckStepDown(node[n], e.term, e.leader, ok)
  <2>3. x \in Node
    BY <2>1, <1>n, VoterTypes
  <2>4. RenewLease(x, e.leader) \in Node
    BY <2>1, <2>3, HelperTypes
  <2>5. e.term < MaxTerm => StepDown(x, e.term + 1, ok) \in Node
    <3> HIDE DEF x
    <3>1. e.term < MaxTerm => e.term + 1 \in Term
      BY <2>1, BoundAssumption DEF Term
    <3> QED BY <3>1, <2>3, StepDownFacts
  <2>6. node' \in [Server -> Node]
    BY <2>2, <2>3, <2>4, <2>5, <1>u
  <2> QED BY <1>12, <2>6 DEF HandleLeaderMessage, TypeOK
<1>13. ASSUME NEW n \in Server, NEW t \in Term, IncreaseTermTo(n, t)
       PROVE  TypeOK'
  BY <1>13, <1>n, <1>u, <1>o, StepDownFacts DEF IncreaseTermTo, TypeOK
<1>14. ASSUME NEW n \in Server, NEW y \in Node, Update(n, y),
              UNCHANGED <<electing, handling, requests, responses, restarts,
                          votes, elected, aborted>>
       PROVE  TypeOK'
  BY <1>14, <1>u DEF TypeOK
<1>15. ASSUME NEW n \in Server, ServerStep(n)
       PROVE  TypeOK'
  <2>1. /\ StepDown(node[n], node[n].current_term, TRUE) \in Node
        /\ SetLeader(node[n], NONE) \in Node
        /\ SetState(node[n], "TRANSFERRING") \in Node
        /\ SetState(node[n], "LEADER") \in Node
    BY <1>n, <1>s, StepDownFacts, HelperTypes
  <2>2. CASE HandleVoteTimeout(n)
    BY <2>2, <2>1, <1>14 DEF HandleVoteTimeout
  <2>3. CASE HandleElectionTimeout(n)
    BY <2>3, <2>1, <1>14 DEF HandleElectionTimeout
  <2>4. CASE HandleStepdownTimeout(n)
    BY <2>4, <2>1, <1>14 DEF HandleStepdownTimeout
  <2>5. CASE TransferLeadership(n)
    BY <2>5, <2>1, <1>14 DEF TransferLeadership
  <2> QED BY <1>15, <1>11, <1>12, <1>13, <2>2, <2>3, <2>4, <2>5 DEF ServerStep
<1>16. ASSUME NEW n \in Server, OnError(n) \/ Shutdown(n) \/ ProcessStep(n)
       PROVE  TypeOK'
  <2>1. n \in Server
    OBVIOUS
  <2>2. StepDown(node[n], node[n].current_term, TRUE) \in Node
    BY <2>1, <1>n, StepDownFacts
  <2>3. /\ SetState(StepDown(node[n], node[n].current_term, TRUE), "ERROR") \in Node
        /\ SetState(StepDown(node[n], node[n].current_term, TRUE), "SHUTTING") \in Node
    BY <2>1, <2>2, <1>s, HelperTypes
  <2>4. CASE OnError(n)
    BY <2>4, <2>1, <2>3, <1>14 DEF OnError
  <2>5. CASE Shutdown(n)
    BY <2>5, <2>1, <2>3, <1>14 DEF Shutdown
  <2>6. CASE Crash(n)
    <3>1. Stopped(node[n]) \in Node
      BY <2>1, <1>n, ElectionTypes
    <3> QED BY <2>6, <3>1, <2>1, <1>u DEF Crash, Halt, TypeOK
  <2>7. ASSUME NEW last \in LogIds, Restart(n, last)
        PROVE  TypeOK'
    <3> DEFINE m == IF node[n].meta.term < last.term
                    THEN [term |-> last.term + 1, votedfor |-> NONE]
                    ELSE node[n].meta
    <3>1. m \in Meta
      <4>1. node[n].meta \in Meta /\ node[n].meta.term \in Term
        BY <1>n, <2>1 DEF Node, Meta
      <4>2. last.term \in Nat /\ m.term <= MaxTerm
        BY <2>7, LogIdAssumption DEF Restart
      <4>3. CASE node[n].meta.term < last.term
        <5>1. last.term + 1 \in Term
          BY <4>1, <4>2, <4>3, BoundAssumption DEF Term
        <5> QED BY <5>1, <4>3 DEF Meta
      <4> QED BY <4>1, <4>3
    <3>2. Started(node[n], m) \in Node
      BY <3>1, <1>n, <2>1, HelperTypes
    <3>3. node' \in [Server -> Node]
      <4>1. Update(n, Started(node[n], m)) \/ UNCHANGED node
        BY <2>7 DEF Restart
      <4> QED BY <4>1, <3>2, <2>1, <1>u DEF TypeOK
    <3>4. restarts' \in 0..MaxRestarts
      BY <2>7, BoundAssumption DEF Restart, TypeOK
    <3> HIDE DEF m
    <3> QED BY <2>7, <3>3, <3>4 DEF Restart, TypeOK
  <2>8. ASSUME NEW e \in electing, e.node = n, CrashInElectSelf(e)
        PROVE  TypeOK'
    <3> DEFINE x == SetLastLogId(node[n], e.last)
    <3>1. x \in Node
      BY <2>1, <1>n, HelperTypes DEF TypeOK, ElectingType
    <3>2. Stopped(x) \in Node /\ VoteRequests(n, x, Server) \subseteq RequestType
      BY <3>1, <2>1, ElectionTypes, MessageTypes
    <3>3. /\ requests' = requests \union VoteRequests(n, x, Server)
          /\ Halt(n, x, electing)
          /\ UNCHANGED <<restarts, votes, elected, aborted>>
      BY <2>8 DEF CrashInElectSelf
    <3> HIDE DEF x
    <3> QED BY <3>2, <3>3, <2>1, <1>u DEF Halt, TypeOK
  <2> QED BY <1>16, <2>4, <2>5, <2>6, <2>7, <2>8 DEF ProcessStep
<1> QED
  BY <1>1, <1>2, <1>3, <1>4, <1>5, <1>6, <1>7, <1>8, <1>9, <1>10, <1>15, <1>16,
     BoundAssumption
  DEF Next, VoteStep

\* Two ballots that are granted share a voter (Ballot::granted).
LEMMA QuorumsMeet ==
    ASSUME NEW Q1 \in SUBSET Server, NEW Q2 \in SUBSET Server,
           IsGranted(Q1), IsGranted(Q2)
    PROVE  Q1 \intersect Q2 # {}
<1> DEFINE C1 == Q1 \intersect Conf
           C2 == Q2 \intersect Conf
<1>1. IsFiniteSet(Conf) /\ C1 \in SUBSET Conf /\ C2 \in SUBSET Conf
  BY ServerAssumption, FS_Subset
<1>2. Cardinality(C1) + Cardinality(C2) > Cardinality(Conf)
  <2>1. /\ Cardinality(C1) \in Nat /\ Cardinality(C2) \in Nat
        /\ Cardinality(Conf) \in Nat
    BY <1>1, FS_Subset, FS_CardinalityType
  <2>2. /\ 2 * Cardinality(C1) > Cardinality(Conf)
        /\ 2 * Cardinality(C2) > Cardinality(Conf)
    BY DEF IsGranted, Majority
  <2> QED BY <2>1, <2>2
<1>3. C1 \intersect C2 # {}
  BY <1>1, <1>2, FS_MajoritiesIntersect, Zenon
<1> QED BY <1>3

-----------------------------------------------------------------------------
(* Steps that change one node.                                             *)

\* The part of the invariant that depends on a node's state survives a step
\* that takes node n to y, when y is backed by the votes and leaderships after
\* the step and its meta has moved forward.
LEMMA NodeUpdate ==
    ASSUME ElectionInv,
           NEW n \in Server, NEW y \in Node,
           node' = [node EXCEPT ![n] = y],
           votes \subseteq votes', elected \subseteq elected',
           \A v \in votes' \ votes :
              /\ v \in [voter: Server, term: Term, cand: Server]
              /\ v.voter = n
              /\ y.meta = [term |-> v.term, votedfor |-> v.cand],
           \/ y.meta.term > node[n].meta.term
           \/ y.meta = node[n].meta
           \/ /\ y.meta.term = node[n].meta.term
              /\ node[n].meta.votedfor = NONE,
           \A e \in elected' \ elected : e.leader = n,
           NodeOK(n, y, votes', elected')
    PROVE  NodeInv' /\ VotesInv' /\ VoteOncePerTerm'
<1>1. node \in [Server -> Node] /\ n \in DOMAIN node
  BY DEF ElectionInv, TypeOK
<1>2. votes \subseteq [voter: Server, term: Term, cand: Server]
  BY DEF ElectionInv, TypeOK
<1>3. /\ node'[n] = y
      /\ \A m \in Server : m # n => node'[m] = node[m]
  BY <1>1
<1>4. node[n].meta.term \in Int /\ y.meta.term \in Int
  BY <1>1 DEF Node, Meta, Term
<1>5. NodeInv'
  <2> SUFFICES ASSUME NEW m \in Server PROVE NodeOK(m, node'[m], votes', elected')
    BY DEF NodeInv
  <2>1. CASE m = n
    BY <2>1, <1>3
  <2>2. CASE m # n
    <3>1. NodeOK(m, node[m], votes, elected)
      BY DEF ElectionInv, NodeInv
    <3> QED BY <3>1, <2>2, <1>3 DEF NodeOK
  <2> QED BY <2>1, <2>2
<1>6. VotesInv'
  <2> SUFFICES ASSUME NEW v \in votes'
               PROVE \/ node'[v.voter].meta.term > v.term
                     \/ node'[v.voter].meta = [term |-> v.term, votedfor |-> v.cand]
    BY DEF VotesInv
  <2>1. CASE v \notin votes
    BY <2>1, <1>3
  <2>2. CASE v \in votes
    <3>1. \/ node[v.voter].meta.term > v.term
          \/ node[v.voter].meta = [term |-> v.term, votedfor |-> v.cand]
      BY <2>2 DEF ElectionInv, VotesInv
    <3>2. v.voter \in Server /\ v.cand \in Server /\ v.term \in Int /\ v.cand # NONE
      BY <2>2, <1>2, ServerAssumption DEF Term
    <3> QED BY <3>1, <3>2, <1>3, <1>4
  <2> QED BY <2>1, <2>2
<1>7. VoteOncePerTerm'
  <2> SUFFICES ASSUME NEW v \in votes', NEW w \in votes',
                      v.voter = w.voter, v.term = w.term
               PROVE  v.cand = w.cand
    BY DEF VoteOncePerTerm
  <2>0. \A u \in votes' : u.term \in Int /\ u.cand \in Server /\ u.cand # NONE
    <3> SUFFICES ASSUME NEW u \in votes'
                 PROVE  u.term \in Int /\ u.cand \in Server /\ u.cand # NONE
      OBVIOUS
    <3>1. u \in [voter: Server, term: Term, cand: Server]
      BY <1>2
    <3> QED BY <3>1, ServerAssumption DEF Term
  <2>1. ASSUME NEW a \in votes' \ votes, NEW b \in votes,
               a.voter = b.voter, a.term = b.term
        PROVE  a.cand = b.cand
    <3>1. a.voter = n /\ y.meta = [term |-> a.term, votedfor |-> a.cand]
      BY <2>1
    <3>2. \/ node[n].meta.term > a.term
          \/ node[n].meta = [term |-> a.term, votedfor |-> b.cand]
      BY <2>1, <3>1 DEF ElectionInv, VotesInv
    <3>3. y.meta.term = a.term /\ y.meta.votedfor = a.cand
      BY <3>1
    <3>4. a.term \in Int /\ b.cand # NONE
      BY <2>0, <2>1
    <3> QED BY <3>2, <3>3, <3>4, <1>4
  <2>2. CASE v \in votes /\ w \in votes
    BY <2>2 DEF ElectionInv, VoteOncePerTerm
  <2>3. CASE v \notin votes /\ w \notin votes
    <3>1. /\ y.meta = [term |-> v.term, votedfor |-> v.cand]
          /\ y.meta = [term |-> w.term, votedfor |-> w.cand]
      BY <2>3
    <3> QED BY <3>1
  <2> QED BY <2>1, <2>2, <2>3
<1> QED BY <1>5, <1>6, <1>7

\* The rounds of a node only go up.
Forward ==
    \A m \in Server : /\ node[m].vote_ctx.version \in Nat
                      /\ node'[m].vote_ctx.version \in Nat
                      /\ node[m].vote_ctx.version <= node'[m].vote_ctx.version

\* So what was backed stays so.
LEMMA BackedForward ==
    ASSUME ElectionInv, Forward, votes \subseteq votes'
    PROVE  /\ \A r \in requests : Backed(r.cand, r.term, r.version)'
           /\ \A h \in handling : Backed(h.req.cand, h.req.term, h.req.version)'
           /\ \A r \in responses : Backed(r.cand, r.req_term, r.version)'
<1>1. ASSUME NEW c \in Server, NEW t, NEW v \in Nat, Backed(c, t, v)
      PROVE  Backed(c, t, v)'
  BY <1>1 DEF Backed, Forward, HasVoted
<1>2. /\ \A r \in requests : /\ r.cand \in Server /\ r.version \in Nat
                              /\ Backed(r.cand, r.term, r.version)
      /\ \A h \in handling : /\ h.req.cand \in Server /\ h.req.version \in Nat
                              /\ Backed(h.req.cand, h.req.term, h.req.version)
      /\ \A r \in responses : /\ r.cand \in Server /\ r.version \in Nat
                               /\ Backed(r.cand, r.req_term, r.version)
  BY DEF ElectionInv, MessagesInv, TypeOK, HandlingType, RequestType, ResponseType
<1> QED BY <1>1, <1>2

\* A step that changes node n keeps the invariant when the message and the
\* leadership parts of it are kept, the suspended elect_self calls of n agree
\* with its new state, and so does the leader it follows.
LEMMA StepInv ==
    ASSUME ElectionInv, TypeOK', Forward, MessagesInv', ElectedInv', ElectionSafety',
           NEW n \in Server, NEW y \in Node, Update(n, y),
           votes \subseteq votes', elected \subseteq elected',
           \A v \in votes' \ votes :
              /\ v.voter = n
              /\ y.meta = [term |-> v.term, votedfor |-> v.cand],
           \/ y.meta.term > node[n].meta.term
           \/ y.meta = node[n].meta
           \/ /\ y.meta.term = node[n].meta.term
              /\ node[n].meta.votedfor = NONE,
           \A e \in elected' \ elected : e.leader = n,
           NodeOK(n, y, votes', elected'),
           \A e \in electing' : e.node # n => e \in electing,
           \A e \in electing' : e.node = n =>
              /\ y.state # "DOWN"
              /\ e.term <= y.current_term
              /\ e.term = y.current_term => y.voted_id = n,
           y.leader_id # NONE =>
              \E e \in elected' : e.leader = y.leader_id /\ e.term = y.current_term
    PROVE  ElectionInv'
<1>1. node' = [node EXCEPT ![n] = y] /\ node \in [Server -> Node]
  BY DEF Update, ElectionInv, TypeOK
<1>2. /\ node'[n] = y
      /\ \A m \in Server : m # n => node'[m] = node[m]
  BY <1>1
<1>3. \A v \in votes' : v \in [voter: Server, term: Term, cand: Server]
  BY DEF TypeOK
<1>4. NodeInv' /\ VotesInv' /\ VoteOncePerTerm'
  BY <1>1, <1>3, NodeUpdate
<1>5. ElectingInv'
  <2> SUFFICES ASSUME NEW e \in electing'
               PROVE  /\ node'[e.node].state # "DOWN"
                      /\ e.term <= node'[e.node].current_term
                      /\ e.term = node'[e.node].current_term =>
                            node'[e.node].voted_id = e.node
    BY DEF ElectingInv
  <2>1. CASE e.node = n
    BY <2>1, <1>2
  <2>2. CASE e.node # n
    <3>1. e \in electing /\ e.node \in Server
      BY <2>2 DEF ElectionInv, TypeOK, ElectingType
    <3> QED BY <3>1, <2>2, <1>2 DEF ElectionInv, ElectingInv
  <2> QED BY <2>1, <2>2
<1>6. FollowsElectedLeader'
  <2> SUFFICES ASSUME NEW m \in Server, node'[m].leader_id # NONE
               PROVE  \E e \in elected' : /\ e.leader = node'[m].leader_id
                                          /\ e.term = node'[m].current_term
    BY DEF FollowsElectedLeader
  <2>1. CASE m = n
    BY <2>1, <1>2
  <2>2. CASE m # n
    BY <2>2, <1>2 DEF ElectionInv, FollowsElectedLeader
  <2> QED BY <2>1, <2>2
<1> QED BY <1>4, <1>5, <1>6 DEF ElectionInv

\* The message part is kept when messages only disappear.
LEMMA FewerMessages ==
    ASSUME ElectionInv, Forward, votes \subseteq votes',
           requests' \subseteq requests, handling' \subseteq handling,
           responses' \subseteq responses
    PROVE  MessagesInv'
<1> SUFFICES /\ \A r \in requests : Backed(r.cand, r.term, r.version)'
             /\ \A h \in handling : Backed(h.req.cand, h.req.term, h.req.version)'
             /\ \A r \in responses : Backed(r.cand, r.req_term, r.version)'
  BY DEF ElectionInv, MessagesInv, HasVoted
<1> QED BY BackedForward

\* The leadership part is kept when no leadership is added.
LEMMA SameLeaders ==
    ASSUME ElectionInv, votes \subseteq votes', elected' = elected
    PROVE  ElectedInv' /\ ElectionSafety'
<1>1. ElectionSafety'
  BY DEF ElectionInv, ElectionSafety
<1>2. ElectedInv'
  <2> SUFFICES ASSUME NEW e \in elected
               PROVE  /\ HasVoted(e.leader, e.term, e.leader)'
                      /\ \E Q \in SUBSET Server :
                            IsGranted(Q) /\ \A q \in Q : HasVoted(q, e.term, e.leader)'
    BY DEF ElectedInv
  <2>1. HasVoted(e.leader, e.term, e.leader)
    BY DEF ElectionInv, ElectedInv
  <2>2. PICK Q \in SUBSET Server :
           IsGranted(Q) /\ \A q \in Q : HasVoted(q, e.term, e.leader)
    BY DEF ElectionInv, ElectedInv
  <2>3. \A q \in Q : HasVoted(q, e.term, e.leader)'
    BY <2>2 DEF HasVoted
  <2> QED BY <2>1, <2>2, <2>3 DEF HasVoted
<1> QED BY <1>1, <1>2

\* A step that touches neither the histories nor, but for losing some, the
\* messages.
LEMMA QuietStep ==
    ASSUME ElectionInv, TypeOK', Forward,
           NEW n \in Server, NEW y \in Node, Update(n, y),
           UNCHANGED <<votes, elected>>,
           requests' \subseteq requests, handling' \subseteq handling,
           responses' \subseteq responses, electing' \subseteq electing,
           y.meta.term > node[n].meta.term \/ y.meta = node[n].meta,
           NodeOK(n, y, votes, elected),
           \A e \in electing' : e.node = n =>
              /\ y.state # "DOWN"
              /\ e.term <= y.current_term
              /\ e.term = y.current_term => y.voted_id = n,
           y.leader_id # NONE =>
              \E e \in elected : e.leader = y.leader_id /\ e.term = y.current_term
    PROVE  ElectionInv'
<1>1. MessagesInv' /\ ElectedInv' /\ ElectionSafety'
  BY FewerMessages, SameLeaders
<1>2. NodeOK(n, y, votes', elected')
  BY DEF NodeOK
<1> QED BY <1>1, <1>2, StepInv

\* A leadership is of a term not later than the durable one of its leader.
LEMMA ElectedBelow ==
    ASSUME ElectionInv, NEW e \in elected
    PROVE  /\ e.leader \in Server
           /\ e.term <= node[e.leader].meta.term
           /\ e.term <= node[e.leader].current_term
<1>1. e.leader \in Server /\ e.term \in Int
  BY DEF ElectionInv, TypeOK, Term
<1>2. /\ node[e.leader].meta.term \in Int
      /\ node[e.leader].current_term \in Int
  BY <1>1 DEF ElectionInv, TypeOK, Node, Meta, Term
<1>3. Vote(e.leader, e.term, e.leader) \in votes
  BY DEF ElectionInv, ElectedInv, HasVoted
<1>4. e.term <= node[e.leader].meta.term
  <2> DEFINE v == Vote(e.leader, e.term, e.leader)
  <2>1. v.voter = e.leader /\ v.term = e.term
    BY DEF Vote
  <2>2. \/ node[v.voter].meta.term > v.term
        \/ node[v.voter].meta = [term |-> v.term, votedfor |-> v.cand]
    BY <1>3 DEF ElectionInv, VotesInv
  <2>3. \/ node[e.leader].meta.term > e.term
        \/ node[e.leader].meta.term = e.term
    BY <2>1, <2>2
  <2> QED BY <2>3, <1>1, <1>2
<1>5. node[e.leader].meta.term <= node[e.leader].current_term
  BY <1>1 DEF ElectionInv, NodeInv, NodeOK
<1> QED BY <1>1, <1>2, <1>4, <1>5

\* A node's own durable vote in its current term is in its meta.
LEMMA OwnVote ==
    ASSUME ElectionInv, NEW n \in Server,
           Vote(n, node[n].current_term, n) \in votes
    PROVE  node[n].meta = [term |-> node[n].current_term, votedfor |-> n]
<1> DEFINE v == Vote(n, node[n].current_term, n)
<1>1. v.voter = n /\ v.term = node[n].current_term /\ v.cand = n
  BY DEF Vote
<1>2. \/ node[n].meta.term > node[n].current_term
      \/ node[n].meta = [term |-> node[n].current_term, votedfor |-> n]
  BY <1>1 DEF ElectionInv, VotesInv
<1>3. node[n].meta.term <= node[n].current_term
  BY DEF ElectionInv, NodeInv, NodeOK
<1>4. node[n].meta.term \in Int /\ node[n].current_term \in Int
  BY DEF ElectionInv, TypeOK, Node, Meta, Term
<1> QED BY <1>2, <1>3, <1>4

-----------------------------------------------------------------------------
(* What each helper does to a node that is in order.                       *)

\* step_down keeps a node in order, moves its meta only forward, and keeps the
\* vote of a term as long as the term lasts.
LEMMA StepDownOK ==
    ASSUME NEW n \in Server, NEW x \in Node, NEW V, NEW E, NodeOK(n, x, V, E),
           NEW t \in Term, NEW ok \in BOOLEAN
    PROVE  LET y == StepDown(x, t, ok) IN
           /\ y \in Node /\ NodeOK(n, y, V, E)
           /\ y.meta.term > x.meta.term \/ y.meta = x.meta
           /\ y.current_term >= x.current_term
           /\ y.current_term = x.current_term => y.voted_id = x.voted_id
           /\ x.state # "DOWN" => y.state # "DOWN"
           /\ y.state \in {x.state, "FOLLOWER"}
           /\ y.leader_id = NONE \/ y = x
<1> DEFINE y == StepDown(x, t, ok)
<1>1. /\ x.current_term \in Int /\ x.meta.term \in Int /\ t \in Int
      /\ x.meta.term <= x.current_term
  BY DEF Node, Meta, Term, NodeOK
<1>2. y \in Node
  BY StepDownFacts
<1>3. CASE x.state \notin Active
  <2>1. y = x
    BY <1>3, StepDownFacts
  <2> HIDE DEF y
  <2> QED BY <2>1, <1>1 DEF y
<1>4. CASE x.state \in Active
  <2>1. /\ y.state = "FOLLOWER" /\ y.leader_id = NONE
        /\ t > x.current_term =>
             /\ y.current_term = t /\ y.voted_id = NONE
             /\ y.meta = IF ok THEN [term |-> t, votedfor |-> NONE] ELSE x.meta
        /\ ~(t > x.current_term) =>
             /\ y.current_term = x.current_term
             /\ y.voted_id = x.voted_id /\ y.meta = x.meta
    BY <1>4, StepDownFacts
  <2> HIDE DEF y
  <2>2. CASE t > x.current_term
    <3>1. y.meta.votedfor = NONE \/ y.meta = x.meta
      BY <2>1, <2>2
    <3>2. NodeOK(n, y, V, E)
      BY <2>1, <2>2, <3>1, <1>1, ServerAssumption DEF NodeOK, Leading
    <3> QED BY <3>2, <2>1, <2>2, <1>1, <1>2 DEF y
  <2>3. CASE ~(t > x.current_term)
    <3>1. NodeOK(n, y, V, E)
      BY <2>1, <2>3, <1>1 DEF NodeOK, Leading
    <3> QED BY <3>1, <2>1, <2>3, <1>1, <1>2 DEF y
  <2> QED BY <2>2, <2>3
<1> QED BY <1>3, <1>4

\* A change of none of the fields that the votes are about.
LEMMA SameVote ==
    ASSUME NEW n, NEW x, NEW y, NEW V, NEW E, NodeOK(n, x, V, E),
           y.meta = x.meta, y.current_term = x.current_term,
           y.voted_id = x.voted_id,
           y.state \in Leading => x.state \in Leading,
           y.state = "CANDIDATE" =>
              /\ x.state = "CANDIDATE"
              /\ y.vote_ctx.granted \subseteq x.vote_ctx.granted
              /\ y.vote_ctx.timer => x.vote_ctx.timer
    PROVE  NodeOK(n, y, V, E)
  BY DEF NodeOK

\* The fields that the small helpers leave alone.
LEMMA HelperFields ==
    ASSUME NEW x \in Node, NEW n \in Server, NEW s \in States,
           NEW l \in Server \union {NONE}, NEW last \in LogIds, NEW d \in Disrupted
    PROVE  /\ \A y \in {SetState(x, s), SetLeader(x, l), RenewLease(x, l),
                        SetLastLogId(x, last), ExpireLease(x, d),
                        Reserve(x, n), Retried(x)} :
                 /\ y.meta = x.meta /\ y.current_term = x.current_term
                 /\ y.voted_id = x.voted_id
           /\ SetState(x, s).state = s /\ SetState(x, s).leader_id = x.leader_id
           /\ SetLeader(x, l).leader_id = l
           /\ \A y \in {RenewLease(x, l), SetLastLogId(x, last),
                        ExpireLease(x, d), Reserve(x, n), Retried(x)} :
                 y.leader_id = x.leader_id
           /\ \A y \in {SetLeader(x, l), RenewLease(x, l),
                        SetLastLogId(x, last), ExpireLease(x, d),
                        Reserve(x, n), Retried(x)} :
                 /\ y.state = x.state
                 /\ y.vote_ctx.granted = x.vote_ctx.granted
                 /\ y.vote_ctx.timer = x.vote_ctx.timer
                 /\ y.vote_ctx.version = x.vote_ctx.version
<1>2. /\ SetState(x, s).meta = x.meta
      /\ SetState(x, s).current_term = x.current_term
      /\ SetState(x, s).voted_id = x.voted_id
      /\ SetState(x, s).state = s /\ SetState(x, s).leader_id = x.leader_id
  BY DEF SetState, Node
<1>3. LET y == SetLeader(x, l) IN
        /\ y.meta = x.meta /\ y.current_term = x.current_term
        /\ y.voted_id = x.voted_id /\ y.state = x.state /\ y.leader_id = l
        /\ y.vote_ctx = x.vote_ctx
  BY DEF SetLeader, Node
<1>4. \A y \in {RenewLease(x, l), ExpireLease(x, d)} :
        /\ y.meta = x.meta /\ y.current_term = x.current_term
        /\ y.voted_id = x.voted_id /\ y.state = x.state
        /\ y.leader_id = x.leader_id /\ y.vote_ctx = x.vote_ctx
  BY DEF RenewLease, ExpireLease, Node
<1>5. \A y \in {SetLastLogId(x, last), Reserve(x, n), Retried(x)} :
        /\ y.meta = x.meta /\ y.current_term = x.current_term
        /\ y.voted_id = x.voted_id /\ y.state = x.state
        /\ y.leader_id = x.leader_id
  BY DEF SetLastLogId, Reserve, Retried, Node
<1>6. \A y \in {SetLastLogId(x, last), Reserve(x, n), Retried(x)} :
        /\ y.vote_ctx.granted = x.vote_ctx.granted
        /\ y.vote_ctx.timer = x.vote_ctx.timer
        /\ y.vote_ctx.version = x.vote_ctx.version
  <2>1. LET y == SetLastLogId(x, last) IN
          /\ y.vote_ctx.granted = x.vote_ctx.granted
          /\ y.vote_ctx.timer = x.vote_ctx.timer
          /\ y.vote_ctx.version = x.vote_ctx.version
    BY DEF SetLastLogId, Node, VoteCtx
  <2>2. LET y == Reserve(x, n) IN
          /\ y.vote_ctx.granted = x.vote_ctx.granted
          /\ y.vote_ctx.timer = x.vote_ctx.timer
          /\ y.vote_ctx.version = x.vote_ctx.version
    BY DEF Reserve, Node, VoteCtx
  <2>3. LET y == Retried(x) IN
          /\ y.vote_ctx.granted = x.vote_ctx.granted
          /\ y.vote_ctx.timer = x.vote_ctx.timer
          /\ y.vote_ctx.version = x.vote_ctx.version
    BY DEF Retried, Node, VoteCtx
  <2> QED BY <2>1, <2>2, <2>3
<1> QED BY <1>2, <1>3, <1>4, <1>5, <1>6

-----------------------------------------------------------------------------
(* Every step keeps the invariant.                                         *)

\* What the invariant says of one node, ready for use.
LEMMA NodeFacts ==
    ASSUME ElectionInv, NEW n \in Server
    PROVE  /\ node[n] \in Node /\ NodeOK(n, node[n], votes, elected)
           /\ node[n].current_term \in Term /\ node[n].meta \in Meta
           /\ node[n].current_term \in Int /\ node[n].meta.term \in Int
           /\ \A e \in electing : e.node = n =>
                 /\ node[n].state # "DOWN" /\ e.term \in Int
                 /\ e.term <= node[n].current_term
                 /\ e.term = node[n].current_term => node[n].voted_id = n
           /\ node[n].leader_id # NONE =>
                 \E e \in elected : /\ e.leader = node[n].leader_id
                                    /\ e.term = node[n].current_term
<1>1. node[n] \in Node /\ NodeOK(n, node[n], votes, elected)
  BY DEF ElectionInv, TypeOK, NodeInv
<1>2. /\ node[n].current_term \in Term /\ node[n].meta \in Meta
      /\ node[n].current_term \in Int /\ node[n].meta.term \in Int
  BY <1>1 DEF Node, Meta, Term
<1>3. \A e \in electing : e.term \in Int
  BY DEF ElectionInv, TypeOK, ElectingType, Term
<1> QED BY <1>1, <1>2, <1>3 DEF ElectionInv, ElectingInv, FollowsElectedLeader

\* A step whose only effect is step_down of one node (losing messages too).
LEMMA StepDownStep ==
    ASSUME ElectionInv, TypeOK', Forward, NEW n \in Server,
           NEW t \in Term, NEW ok \in BOOLEAN,
           Update(n, StepDown(node[n], t, ok)),
           UNCHANGED <<votes, elected, electing, handling>>,
           requests' \subseteq requests, responses' \subseteq responses
    PROVE  ElectionInv'
<1> DEFINE y == StepDown(node[n], t, ok)
<1>1. /\ y \in Node /\ NodeOK(n, y, votes, elected)
      /\ y.meta.term > node[n].meta.term \/ y.meta = node[n].meta
      /\ y.current_term >= node[n].current_term
      /\ y.current_term = node[n].current_term => y.voted_id = node[n].voted_id
      /\ node[n].state # "DOWN" => y.state # "DOWN"
      /\ y.leader_id = NONE \/ y = node[n]
  BY NodeFacts, StepDownOK
<1>2. y.current_term \in Int
  BY <1>1 DEF Node, Term
<1>3. \A e \in electing' : e.node = n =>
              /\ y.state # "DOWN"
              /\ e.term <= y.current_term
              /\ e.term = y.current_term => y.voted_id = n
  <2> HIDE DEF y
  <2> QED BY <1>1, <1>2, NodeFacts
<1>4. y.leader_id # NONE =>
         \E e \in elected : e.leader = y.leader_id /\ e.term = y.current_term
  <2> HIDE DEF y
  <2> QED BY <1>1, NodeFacts
<1> QED BY <1>1, <1>3, <1>4, QuietStep

\* A step that leaves everything the votes are about alone, and the leader
\* followed too or forgets it.
LEMMA SameVoteStep ==
    ASSUME ElectionInv, TypeOK', Forward, NEW n \in Server, NEW y \in Node, Update(n, y),
           UNCHANGED <<votes, elected>>, electing' \subseteq electing,
           requests' \subseteq requests, handling' \subseteq handling,
           responses' \subseteq responses,
           y.meta = node[n].meta, y.current_term = node[n].current_term,
           y.voted_id = node[n].voted_id,
           y.state # "DOWN",
           y.state \in Leading => node[n].state \in Leading,
           y.state = "CANDIDATE" =>
              /\ node[n].state = "CANDIDATE"
              /\ y.vote_ctx.granted \subseteq node[n].vote_ctx.granted
              /\ y.vote_ctx.timer => node[n].vote_ctx.timer,
           y.leader_id = NONE \/ y.leader_id = node[n].leader_id
    PROVE  ElectionInv'
<1>1. NodeOK(n, y, votes, elected)
  BY NodeFacts, SameVote
<1> QED BY <1>1, NodeFacts, QuietStep

\* elect_self up to the unlock.
LEMMA ElectSelfStep ==
    ASSUME ElectionInv, TypeOK', Forward, NEW n \in Server, NEW last \in LogIds,
           NEW b \in BOOLEAN, ElectSelf(n, last, b)
    PROVE  ElectionInv'
<1> DEFINE x == node[n]
           y == Candidate(n, x, b)
<1>1. /\ Update(n, y) /\ x.current_term < MaxTerm
      /\ electing' = electing \union
            {[node |-> n, term |-> x.current_term + 1, last |-> last]}
      /\ UNCHANGED <<handling, requests, responses, votes, elected>>
  BY DEF ElectSelf
<1>2. y \in Node
  BY <1>1, NodeFacts, ElectionTypes
<1>3. /\ y.state = "CANDIDATE" /\ y.leader_id = NONE
      /\ y.current_term = x.current_term + 1 /\ y.voted_id = n
      /\ y.meta = x.meta
      /\ y.vote_ctx.granted = {} /\ y.vote_ctx.timer = FALSE
  BY NodeFacts DEF Candidate, CtxInit, Node
<1>4. MessagesInv' /\ ElectedInv' /\ ElectionSafety'
  BY <1>1, FewerMessages, SameLeaders
<1> HIDE DEF y
<1>5. NodeOK(n, y, votes', elected')
  <2>1. x.meta.term <= x.current_term
    BY NodeFacts DEF NodeOK
  <2>2. \A e \in elected : ~(e.leader = n /\ e.term = y.current_term)
    <3> SUFFICES ASSUME NEW e \in elected, e.leader = n PROVE e.term # y.current_term
      OBVIOUS
    <3>1. e.term <= x.current_term /\ e.term \in Int
      BY ElectedBelow DEF ElectionInv, TypeOK, Term
    <3> QED BY <3>1, <1>3, NodeFacts
  <2>3. x.meta.votedfor # NONE => Vote(n, x.meta.term, x.meta.votedfor) \in votes
    BY NodeFacts DEF NodeOK
  <2> QED BY <2>1, <2>2, <2>3, <1>1, <1>3, NodeFacts DEF NodeOK, Leading
<1>6. \A e \in electing' : e.node = n =>
              /\ y.state # "DOWN"
              /\ e.term <= y.current_term
              /\ e.term = y.current_term => y.voted_id = n
  BY <1>1, <1>3, NodeFacts
<1> QED BY <1>1, <1>2, <1>3, <1>4, <1>5, <1>6, StepInv

\* The actions that only step down, or change no vote.
LEMMA SimpleSteps ==
    ASSUME ElectionInv, TypeOK', Forward, NEW n \in Server,
           \/ HandleVoteTimeout(n) \/ HandleElectionTimeout(n)
           \/ HandleStepdownTimeout(n) \/ TransferLeadership(n)
           \/ \E t \in Term : IncreaseTermTo(n, t)
           \/ OnError(n) \/ Shutdown(n)
    PROVE  ElectionInv'
<1>n. node[n] \in Node /\ node[n].current_term \in Term
  BY NodeFacts
<1>s. {"LEADER", "TRANSFERRING", "ERROR", "SHUTTING"} \subseteq States
  BY DEF States, Active, Leading
<1>1. CASE HandleVoteTimeout(n)
  BY <1>1, <1>n, StepDownStep DEF HandleVoteTimeout
<1>2. CASE HandleStepdownTimeout(n)
  BY <1>2, <1>n, StepDownStep DEF HandleStepdownTimeout
<1>3. ASSUME NEW t \in Term, IncreaseTermTo(n, t)
      PROVE  ElectionInv'
  <2>1. PICK ok \in BOOLEAN : Update(n, StepDown(node[n], t, ok))
    BY <1>3 DEF IncreaseTermTo, SaveOutcomes
  <2> QED BY <1>3, <2>1, StepDownStep DEF IncreaseTermTo
<1>4. CASE HandleElectionTimeout(n)
  <2> DEFINE y == SetLeader(node[n], NONE)
  <2>1. /\ y \in Node /\ y.leader_id = NONE /\ y.state = "FOLLOWER"
        /\ y.meta = node[n].meta /\ y.current_term = node[n].current_term
        /\ y.voted_id = node[n].voted_id
    BY <1>4, <1>n, HelperTypes DEF HandleElectionTimeout, SetLeader, Node
  <2>2. Update(n, y) /\ UNCHANGED <<electing, handling, requests, responses,
                                    votes, elected>>
    BY <1>4 DEF HandleElectionTimeout
  <2> HIDE DEF y
  <2> QED BY <2>1, <2>2, SameVoteStep DEF Leading
<1>5. CASE TransferLeadership(n)
  <2>1. PICK s \in Leading : Update(n, SetState(node[n], s))
    BY <1>5 DEF TransferLeadership, Leading
  <2> DEFINE y == SetState(node[n], s)
  <2>2. /\ y \in Node /\ y.state = s /\ y.leader_id = node[n].leader_id
        /\ y.meta = node[n].meta /\ y.current_term = node[n].current_term
        /\ y.voted_id = node[n].voted_id
    <3>1. s \in States
      BY DEF States, Active
    <3> QED BY <3>1, <1>n, HelperTypes DEF SetState, Node
  <2>3. node[n].state \in Leading
        /\ UNCHANGED <<electing, handling, requests, responses, votes, elected>>
    BY <1>5 DEF TransferLeadership, Leading
  <2>4. s # "DOWN" /\ s # "CANDIDATE" /\ Update(n, y)
    BY <2>1 DEF Leading
  <2> HIDE DEF y
  <2> QED BY <2>2, <2>3, <2>4, SameVoteStep
<1>6. CASE OnError(n) \/ Shutdown(n)
  <2> DEFINE z == StepDown(node[n], node[n].current_term, TRUE)
  <2>1. /\ z \in Node
        /\ z.meta = node[n].meta /\ z.current_term = node[n].current_term
        /\ z.voted_id = node[n].voted_id
        /\ z.leader_id = NONE \/ z.leader_id = node[n].leader_id
    <3>1. ~(node[n].current_term > node[n].current_term)
      BY NodeFacts
    <3> QED BY <1>n, <3>1, StepDownFacts
  <2>2. PICK s \in {"ERROR", "SHUTTING"} : Update(n, SetState(z, s))
    BY <1>6 DEF OnError, Shutdown
  <2> HIDE DEF z
  <2> DEFINE y == SetState(z, s)
  <2>3. /\ y \in Node /\ y.state = s /\ y.leader_id = z.leader_id
        /\ y.meta = z.meta /\ y.current_term = z.current_term
        /\ y.voted_id = z.voted_id
    <3>1. s \in States
      BY <1>s
    <3> QED BY <3>1, <2>1, HelperTypes DEF SetState, Node
  <2>4. UNCHANGED <<electing, handling, requests, responses, votes, elected>>
    BY <1>6 DEF OnError, Shutdown
  <2>5. Update(n, y)
    BY <2>2
  <2> HIDE DEF y
  <2> QED BY <2>1, <2>3, <2>4, <2>5, SameVoteStep DEF Leading
<1> QED BY <1>1, <1>2, <1>3, <1>4, <1>5, <1>6

\* Calls that give up and answers that come too late.
LEMMA DiscardSteps ==
    ASSUME ElectionInv, TypeOK', Forward,
           \/ \E e \in electing : ElectSelfAbandoned(e)
           \/ \E r \in responses : DiscardVoteResponse(r)
    PROVE  ElectionInv'
<1>1. /\ electing' \subseteq electing /\ responses' \subseteq responses
      /\ UNCHANGED <<node, handling, requests, votes, elected>>
  BY DEF ElectSelfAbandoned, DiscardVoteResponse
<1>2. MessagesInv' /\ ElectedInv' /\ ElectionSafety'
  BY <1>1, FewerMessages, SameLeaders
<1>3. /\ NodeInv' /\ VotesInv' /\ ElectingInv' /\ VoteOncePerTerm'
      /\ FollowsElectedLeader'
  BY <1>1 DEF ElectionInv, NodeInv, NodeOK, VotesInv, ElectingInv,
              VoteOncePerTerm, FollowsElectedLeader
<1> QED BY <1>2, <1>3 DEF ElectionInv

\* handle_request_vote_response with a higher term.
LEMMA HigherTermStep ==
    ASSUME ElectionInv, TypeOK', Forward, NEW r \in responses, HigherTermVoteResponse(r)
    PROVE  ElectionInv'
<1>1. r.cand \in Server /\ r.term \in Term
  BY DEF ElectionInv, TypeOK, ResponseType
<1>2. PICK ok \in BOOLEAN : Update(r.cand, StepDown(node[r.cand], r.term, ok))
  BY DEF HigherTermVoteResponse, SaveOutcomes
<1> QED BY <1>1, <1>2, StepDownStep DEF HigherTermVoteResponse

\* A process that stops is left with what its meta says.
LEMMA StoppedOK ==
    ASSUME NEW n \in Server, NEW x \in Node, NEW V, NEW E, NodeOK(n, x, V, E)
    PROVE  /\ Stopped(x) \in Node /\ NodeOK(n, Stopped(x), V, E)
           /\ Stopped(x).meta = x.meta /\ Stopped(x).leader_id = NONE
<1>1. /\ Stopped(x).state = "DOWN" /\ Stopped(x).meta = x.meta
      /\ Stopped(x).current_term = x.meta.term
      /\ Stopped(x).voted_id = x.meta.votedfor /\ Stopped(x).leader_id = NONE
  BY DEF Stopped
<1>2. Stopped(x) \in Node /\ x.meta.term \in Int
  BY ElectionTypes DEF Node, Meta, Term
<1>3. x.meta.votedfor # NONE => Vote(n, x.meta.term, x.meta.votedfor) \in V
  BY DEF NodeOK
<1> QED BY <1>1, <1>2, <1>3, ServerAssumption DEF NodeOK, Leading

\* The process stops: its calls and the answers to it are gone.
LEMMA CrashStep ==
    ASSUME ElectionInv, TypeOK', Forward, NEW n \in Server, Crash(n)
    PROVE  ElectionInv'
<1> DEFINE y == Stopped(node[n])
<1>1. /\ Update(n, y) /\ electing' = {e \in electing : e.node # n}
      /\ handling' \subseteq handling /\ responses' \subseteq responses
      /\ UNCHANGED <<requests, votes, elected>>
  BY DEF Crash, Halt
<1>2. /\ y \in Node /\ NodeOK(n, y, votes, elected)
      /\ y.meta = node[n].meta /\ y.leader_id = NONE
  BY NodeFacts, StoppedOK
<1> HIDE DEF y
<1> QED BY <1>1, <1>2, QuietStep

\* A start reads the vote that was saved, or votes afresh in a later term.
LEMMA RestartStep ==
    ASSUME ElectionInv, TypeOK', Forward, NEW n \in Server, NEW last \in LogIds,
           Restart(n, last)
    PROVE  ElectionInv'
<1> DEFINE x == node[n]
           m == IF x.meta.term < last.term
                THEN [term |-> last.term + 1, votedfor |-> NONE] ELSE x.meta
           y == Started(x, m)
<1>1. CASE Update(n, y)
  <2>1. /\ UNCHANGED <<electing, handling, requests, responses, votes, elected>>
        /\ x.state = "DOWN"
    BY DEF Restart
  <2>2. y.state = "FOLLOWER" /\ y.current_term = m.term /\ y.meta = m
        /\ y.voted_id = m.votedfor /\ y.leader_id = NONE
    BY NodeFacts DEF Started, Node
  <2>3. x.meta.term \in Int /\ last.term \in Int
    BY NodeFacts, LogIdAssumption
  <2>4. m.term > x.meta.term \/ m = x.meta
    BY <2>3
  <2>5. m.term \in Int
    BY <2>3
  <2>6. m.votedfor # NONE => Vote(n, m.term, m.votedfor) \in votes
    BY NodeFacts DEF NodeOK
  <2>7. y \in Node
    <3>1. m \in Meta
      <4>1. x.meta \in Meta /\ x.meta.term \in Term
        BY NodeFacts DEF Meta
      <4>2. m.term <= MaxTerm
        BY DEF Restart
      <4>3. x.meta.term < last.term => last.term + 1 \in Term
        BY <4>1, <4>2, <2>3, BoundAssumption DEF Term
      <4> QED BY <4>1, <4>3 DEF Meta
    <3> HIDE DEF m
    <3> QED BY <3>1, NodeFacts, HelperTypes
  <2>8. \A e \in electing : e.node # n
    BY <2>1, NodeFacts
  <2> HIDE DEF m, y
  <2>9. NodeOK(n, y, votes, elected)
    BY <2>2, <2>5, <2>6, ServerAssumption DEF NodeOK, Leading
  <2> QED BY <1>1, <2>1, <2>2, <2>4, <2>7, <2>8, <2>9, QuietStep
<1>2. CASE UNCHANGED node
  <2>1. UNCHANGED <<node, electing, handling, requests, responses, votes, elected>>
    BY <1>2 DEF Restart
  <2>2. MessagesInv' /\ ElectedInv' /\ ElectionSafety'
    BY <2>1, FewerMessages, SameLeaders
  <2>3. /\ NodeInv' /\ VotesInv' /\ ElectingInv' /\ VoteOncePerTerm'
        /\ FollowsElectedLeader'
    BY <2>1 DEF ElectionInv, NodeInv, NodeOK, VotesInv, ElectingInv,
                VoteOncePerTerm, FollowsElectedLeader
  <2> QED BY <2>2, <2>3 DEF ElectionInv
<1> QED BY <1>1, <1>2 DEF Restart

\* A leader's message: the node follows the sender, which did win that term.
LEMMA LeaderMessageStep ==
    ASSUME ElectionInv, TypeOK', Forward, NEW n \in Server, NEW e \in elected,
           HandleLeaderMessage(n, e)
    PROVE  ElectionInv'
<1>1. /\ e.leader \in Server /\ e.term \in Term /\ e.term \in Int
      /\ e.leader # NONE
  BY ServerAssumption DEF ElectionInv, TypeOK, Term
<1>2. /\ e.term >= node[n].current_term /\ node[n].state \in Active
      /\ UNCHANGED <<electing, handling, requests, responses, votes, elected>>
  BY DEF HandleLeaderMessage
<1>3. PICK ok \in BOOLEAN :
         LET c == CheckStepDown(node[n], e.term, e.leader, ok) IN
         \/ /\ c.leader_id = e.leader
            /\ Update(n, c) \/ Update(n, RenewLease(c, e.leader))
         \/ /\ c.leader_id # e.leader /\ e.term < MaxTerm
            /\ Update(n, StepDown(c, e.term + 1, ok))
  BY DEF HandleLeaderMessage, SaveOutcomes
<1> DEFINE x == node[n]
           w == IF \/ e.term > x.current_term
                   \/ x.state # "FOLLOWER" \/ x.leader_id = NONE
                THEN StepDown(x, e.term, ok) ELSE x
           c == CheckStepDown(x, e.term, e.leader, ok)
<1>4. /\ w \in Node /\ NodeOK(n, w, votes, elected)
      /\ w.meta.term > x.meta.term \/ w.meta = x.meta
      /\ w.current_term >= x.current_term
      /\ w.current_term = x.current_term => w.voted_id = x.voted_id
      /\ w.state = "FOLLOWER" /\ w.current_term = e.term
  <2>1. CASE \/ e.term > x.current_term
             \/ x.state # "FOLLOWER" \/ x.leader_id = NONE
    <3>1. w = StepDown(x, e.term, ok)
      BY <2>1
    <3>2. /\ StepDown(x, e.term, ok).state = "FOLLOWER"
          /\ StepDown(x, e.term, ok).current_term = e.term
      <4>1. x \in Node /\ x.current_term \in Int
        BY NodeFacts
      <4>2. /\ StepDown(x, e.term, ok).state = "FOLLOWER"
            /\ e.term > x.current_term =>
                 StepDown(x, e.term, ok).current_term = e.term
            /\ ~(e.term > x.current_term) =>
                 StepDown(x, e.term, ok).current_term = x.current_term
        BY <4>1, <1>1, <1>2, StepDownFacts
      <4> HIDE DEF x
      <4> QED BY <4>1, <4>2, <1>1, <1>2 DEF x
    <3> QED BY <3>1, <3>2, <1>1, NodeFacts, StepDownOK
  <2>2. CASE ~(\/ e.term > x.current_term
               \/ x.state # "FOLLOWER" \/ x.leader_id = NONE)
    <3>1. w = x
      BY <2>2
    <3> QED BY <3>1, <2>2, <1>1, <1>2, NodeFacts
  <2> QED BY <2>1, <2>2
<1>5. /\ c = IF w.leader_id = NONE THEN SetLeader(w, e.leader) ELSE w
      /\ w.leader_id # NONE => w.leader_id = x.leader_id
  <2>1. w.leader_id # NONE => w.leader_id = x.leader_id
    BY <1>1, NodeFacts, StepDownOK
  <2> QED BY <2>1 DEF CheckStepDown
<1> HIDE DEF w, c
<1>6. /\ c \in Node /\ c.meta = w.meta /\ c.current_term = w.current_term
      /\ c.voted_id = w.voted_id /\ c.state = "FOLLOWER" /\ c.leader_id # NONE
      /\ c.leader_id \in {e.leader, w.leader_id}
  <2>1. CASE w.leader_id = NONE
    <3>1. c = SetLeader(w, e.leader)
      BY <2>1, <1>5
    <3>2. SetLeader(w, e.leader) \in Node
      BY <1>1, <1>4, HelperTypes
    <3> QED BY <3>1, <3>2, <1>1, <1>4 DEF SetLeader, Node
  <2>2. CASE w.leader_id # NONE
    BY <2>2, <1>4, <1>5
  <2> QED BY <2>1, <2>2
<1>7. NodeOK(n, c, votes, elected)
  BY <1>4, <1>6, SameVote DEF Leading
<1>8. ASSUME c.leader_id = e.leader, NEW y \in {c, RenewLease(c, e.leader)},
             Update(n, y)
      PROVE  ElectionInv'
  <2>1. /\ y \in Node /\ y.meta = c.meta /\ y.current_term = c.current_term
        /\ y.voted_id = c.voted_id /\ y.state = c.state
        /\ y.leader_id = c.leader_id
    <3>1. RenewLease(c, e.leader) \in Node
      BY <1>1, <1>6, HelperTypes
    <3>2. CASE y = c
      BY <3>2, <1>6
    <3>3. CASE y = RenewLease(c, e.leader)
      BY <3>1, <3>3, <1>6 DEF RenewLease, Node
    <3> QED BY <3>2, <3>3
  <2>2. Update(n, y)
    BY <1>8
  <2>3. NodeOK(n, y, votes, elected)
    BY <2>1, <1>6, <1>7, SameVote DEF Leading
  <2>4. y.current_term \in Int
    BY <2>1 DEF Node, Term
  <2>5. \A f \in electing' : f.node = n =>
              /\ y.state # "DOWN"
              /\ f.term <= y.current_term
              /\ f.term = y.current_term => y.voted_id = n
    BY <2>1, <2>4, <1>2, <1>4, <1>6, NodeFacts
  <2> QED BY <1>2, <1>4, <1>6, <1>8, <2>1, <2>2, <2>3, <2>5, QuietStep
<1>9. CASE e.term < MaxTerm /\ Update(n, StepDown(c, e.term + 1, ok))
  <2> DEFINE y == StepDown(c, e.term + 1, ok)
  <2>1. e.term + 1 \in Term /\ e.term + 1 > c.current_term
    BY <1>1, <1>4, <1>6, <1>9, BoundAssumption DEF Term
  <2>2. c.state \in Active
    BY <1>6 DEF Active
  <2>3. /\ y \in Node /\ NodeOK(n, y, votes, elected)
        /\ y.meta.term > c.meta.term \/ y.meta = c.meta
    BY <2>1, <1>6, <1>7, StepDownOK
  <2>4. y.state = "FOLLOWER" /\ y.leader_id = NONE
        /\ y.current_term = e.term + 1
    BY <2>1, <2>2, <1>6, StepDownFacts
  <2>5. y.meta.term > x.meta.term \/ y.meta = x.meta
    <3> HIDE DEF y
    <3>1. y.meta.term \in Int /\ c.meta.term \in Int /\ x.meta.term \in Int
      BY <2>3, <1>6, NodeFacts DEF Node, Meta, Term
    <3> QED BY <3>1, <2>3, <1>4, <1>6
  <2>6. Update(n, y)
    BY <1>9
  <2> HIDE DEF y
  <2>7. \A f \in electing' : f.node = n =>
              /\ y.state # "DOWN"
              /\ f.term <= y.current_term
              /\ f.term = y.current_term => y.voted_id = n
    BY <2>4, <1>1, <1>2, NodeFacts
  <2> QED BY <1>2, <2>3, <2>4, <2>5, <2>6, <2>7, QuietStep
<1> QED BY <1>3, <1>8, <1>9 DEF c

\* A vote that the answer grants is durable at the voter.
LEMMA ResponseOK ==
    ASSUME NEW r \in RequestType, NEW z, NEW V, NEW E, NodeOK(r.peer, z, V, E),
           r.peer # r.cand, NEW a, NEW b, NEW t
    PROVE  LET s == VoteResponse(r, z, a, b, t) IN
           /\ s.cand = r.cand /\ s.peer = r.peer /\ s.req_term = r.term
           /\ s.version = r.version
           /\ s.granted => Vote(r.peer, r.term, r.cand) \in V
<1>1. r.cand \in Server
  BY DEF RequestType
<1> QED BY <1>1 DEF VoteResponse, NodeOK

\* handle_request_vote_request up to the unlock.
LEMMA VoteRequestStep ==
    ASSUME ElectionInv, TypeOK', Forward, NEW r \in requests, NEW last \in LogIds,
           HandleRequestVoteRequest(r, last)
    PROVE  ElectionInv'
<1> DEFINE n == r.peer
           y == ExpireLease(node[n], r.disrupted)
           s == VoteResponse(r, y, FALSE, FALSE, y.current_term)
           h == [req |-> r, previous_term |-> y.current_term, last |-> last]
<1>1. /\ n \in Server /\ r \in RequestType /\ r.disrupted \in Disrupted
      /\ r.peer # r.cand /\ Backed(r.cand, r.term, r.version)'
  <2>1. r \in RequestType /\ r.peer # r.cand /\ votes' = votes
    BY DEF ElectionInv, TypeOK, MessagesInv, HandleRequestVoteRequest
  <2> QED BY <2>1, BackedForward DEF RequestType
<1>2. /\ y \in Node /\ y.meta = node[n].meta
      /\ y.current_term = node[n].current_term
      /\ y.voted_id = node[n].voted_id /\ y.state = node[n].state
      /\ y.leader_id = node[n].leader_id /\ y.vote_ctx = node[n].vote_ctx
  BY <1>1, NodeFacts, HelperTypes DEF ExpireLease, Node
<1>3. NodeOK(n, y, votes, elected)
  <2> HIDE DEF y
  <2> QED BY <1>1, <1>2, NodeFacts, SameVote
<1>4. /\ Update(n, y) /\ y.state \in Active /\ requests' = requests \ {r}
      /\ UNCHANGED <<electing, votes, elected>>
      /\ responses' \subseteq responses \union {s}
      /\ handling' \subseteq handling \union {h}
  BY DEF HandleRequestVoteRequest
<1>5. /\ s.cand = r.cand /\ s.peer = r.peer /\ s.req_term = r.term
      /\ s.version = r.version
      /\ s.granted => Vote(r.peer, r.term, r.cand) \in votes
  BY <1>1, <1>3, ResponseOK
<1>6. h.req = r
  OBVIOUS
<1>7. MessagesInv'
  <2> HIDE DEF y, s, h, n
  <2>1. votes \subseteq votes'
    BY <1>4
  <2> QED BY <1>1, <1>4, <1>5, <1>6, <2>1, BackedForward
          DEF ElectionInv, MessagesInv, HasVoted
<1>8. ElectedInv' /\ ElectionSafety'
  BY <1>4, SameLeaders
<1>9. NodeOK(n, y, votes', elected')
  BY <1>3, <1>4 DEF NodeOK
<1> HIDE DEF y, s, h, n
<1> QED BY <1>1, <1>2, <1>4, <1>7, <1>8, <1>9, NodeFacts, StepInv

\* Node n in state y, with the durable votes V, has gone on to z and W.
VoteCast(n, y, z, V, W, E) ==
    /\ z \in Node /\ NodeOK(n, z, W, E)
    /\ \/ z.meta.term > y.meta.term \/ z.meta = y.meta
       \/ z.meta.term = y.meta.term /\ y.meta.votedfor = NONE
    /\ \A v \in W \ V : /\ v.voter = n
                        /\ z.meta = [term |-> v.term, votedfor |-> v.cand]
    /\ z.current_term >= y.current_term
    /\ z = y \/ y.voted_id = NONE
    /\ y.state # "DOWN" => z.state # "DOWN"
    /\ z.leader_id = NONE
       \/ (z.leader_id = y.leader_id /\ z.current_term = y.current_term)

\* Casting a vote keeps the node in order: an empty _voted_id means that the
\* meta holds no vote of the current term, so the save overwrites none.
LEMMA CastVoteOK ==
    ASSUME NEW r \in RequestType, r.peer # r.cand,
           NEW y \in Node, NEW V, NEW E, NodeOK(r.peer, y, V, E),
           NEW good \in BOOLEAN, NEW ok \in BOOLEAN,
           NEW z, z = CastVote(y, r, good, ok),
           NEW W, W = IF good /\ y.voted_id = NONE /\ ok
                      THEN V \union {Vote(r.peer, z.current_term, r.cand)}
                      ELSE V
    PROVE  VoteCast(r.peer, y, z, V, W, E)
<1> DEFINE w == StepDown(y, r.term, TRUE)
<1>1. /\ r.peer \in Server /\ r.cand \in Server /\ r.term \in Term /\ r.cand # NONE
  BY ServerAssumption DEF RequestType
<1>2. /\ y.meta.term \in Int /\ y.current_term \in Int
  BY DEF Node, Meta, Term
<1>3. CASE ~good \/ y.voted_id # NONE
  <2>1. z = y /\ W = V
    BY <1>3 DEF CastVote
  <2> QED BY <2>1, <1>2 DEF VoteCast
<1>4. CASE good /\ y.voted_id = NONE
  <2>1. /\ w \in Node /\ NodeOK(r.peer, w, V, E)
        /\ w.meta.term > y.meta.term \/ w.meta = y.meta
        /\ w.current_term >= y.current_term
        /\ y.state # "DOWN" => w.state # "DOWN"
        /\ w.leader_id = NONE \/ w = y
    BY <1>1, StepDownOK
  <2>2. /\ w.voted_id = NONE
        /\ w.state \notin {"LEADER", "TRANSFERRING", "CANDIDATE"}
    <3>1. CASE y.state \notin Active
      BY <3>1, <1>1, <1>4, StepDownFacts DEF Active, Leading
    <3>2. CASE y.state \in Active
      BY <3>2, <1>1, <1>4, StepDownFacts
    <3> QED BY <3>1, <3>2
  <2>3. z = IF ok THEN SaveVote(w, r.cand) ELSE ResetVote(w)
    BY <1>4 DEF CastVote
  <2> HIDE DEF w
  <2>4. w.meta.term \in Int /\ w.current_term \in Int
    BY <2>1 DEF Node, Meta, Term
  <2>5. /\ w.meta.term <= w.current_term
        /\ w.meta.votedfor # NONE =>
              Vote(r.peer, w.meta.term, w.meta.votedfor) \in V
        /\ w.meta.term = w.current_term => w.meta.votedfor = NONE
    BY <2>1, <2>2 DEF NodeOK
  <2>6. CASE ok
    <3>1. z = SaveVote(w, r.cand)
      BY <2>3, <2>6
    <3>2. /\ z.voted_id = r.cand /\ z.current_term = w.current_term
          /\ z.meta = [term |-> w.current_term, votedfor |-> r.cand]
          /\ z.state = w.state /\ z.leader_id = w.leader_id
      BY <3>1, <2>1 DEF SaveVote, Node
    <3>3. z \in Node
      BY <3>1, <2>1, <1>1, HelperTypes
    <3>4. W = V \union {Vote(r.peer, z.current_term, r.cand)}
      BY <1>4, <2>6
    <3>5. NodeOK(r.peer, z, W, E)
      BY <3>2, <3>4, <2>2, <2>4 DEF NodeOK, Leading
    <3>6. \A v \in W \ V : /\ v.voter = r.peer
                           /\ z.meta = [term |-> v.term, votedfor |-> v.cand]
      BY <3>2, <3>4 DEF Vote
    <3>7. \/ z.meta.term > y.meta.term \/ z.meta = y.meta
          \/ z.meta.term = y.meta.term /\ y.meta.votedfor = NONE
      BY <3>2, <2>1, <2>4, <2>5, <1>2
    <3> QED BY <3>2, <3>3, <3>5, <3>6, <3>7, <2>1, <2>4, <1>2, <1>4 DEF VoteCast
  <2>7. CASE ~ok
    <3>1. z = ResetVote(w) /\ W = V
      BY <2>3, <2>7
    <3>2. /\ z.voted_id = NONE /\ z.current_term = w.current_term
          /\ z.meta = w.meta /\ z.state = w.state /\ z.leader_id = w.leader_id
      BY <3>1, <2>1 DEF ResetVote, Node
    <3>3. z \in Node
      BY <3>1, <2>1, <1>1, HelperTypes
    <3>4. NodeOK(r.peer, z, W, E)
      BY <3>1, <3>2, <2>2, <2>5, ServerAssumption DEF NodeOK, Leading
    <3> QED BY <3>1, <3>2, <3>3, <3>4, <2>1, <2>4, <1>2, <1>4 DEF VoteCast
  <2> QED BY <2>6, <2>7
<1> QED BY <1>3, <1>4

\* handle_request_vote_request after the lock.
LEMMA VoteResumeStep ==
    ASSUME ElectionInv, TypeOK', Forward, NEW h \in handling, HandleRequestVoteResume(h)
    PROVE  ElectionInv'
<1> DEFINE r == h.req
           n == r.peer
           x == node[n]
           good == LogIdGeq(r.last, h.last)
<1>1. /\ n \in Server /\ r \in RequestType /\ r.term \in Term
      /\ r.peer # r.cand
  BY DEF ElectionInv, TypeOK, HandlingType, RequestType, MessagesInv
<1>2. /\ handling' = handling \ {h}
      /\ UNCHANGED <<electing, requests, elected>>
  BY DEF HandleRequestVoteResume
<1>3. ASSUME NEW z, NEW a, NEW b, NodeOK(n, z, votes', elected'),
             votes \subseteq votes',
             responses' = responses \union
                {VoteResponse(r, z, a, b, h.previous_term)}
      PROVE  MessagesInv'
  <2> DEFINE s == VoteResponse(r, z, a, b, h.previous_term)
  <2>1. /\ s.cand = r.cand /\ s.peer = r.peer /\ s.req_term = r.term
        /\ s.version = r.version
        /\ s.granted => Vote(r.peer, r.term, r.cand) \in votes'
    BY <1>1, <1>3, ResponseOK
  <2>2. responses' = responses \union {s}
    BY <1>3
  <2>3. Backed(r.cand, r.term, r.version)'
    BY <1>3, BackedForward
  <2> HIDE DEF s, r, n, x
  <2> QED BY <1>1, <1>2, <1>3, <2>1, <2>2, <2>3, BackedForward
          DEF ElectionInv, MessagesInv, HasVoted
<1>4. ASSUME NEW b \in BOOLEAN,
             responses' = responses \union
                {VoteResponse(r, x, b, FALSE, h.previous_term)},
             UNCHANGED <<node, votes>>
      PROVE  ElectionInv'
  <2>1. NodeOK(n, x, votes', elected')
    BY <1>1, <1>2, <1>4, NodeFacts
  <2>2. MessagesInv' /\ ElectedInv' /\ ElectionSafety'
    BY <1>2, <1>3, <1>4, <2>1, SameLeaders
  <2>3. /\ NodeInv' /\ VotesInv' /\ ElectingInv' /\ VoteOncePerTerm'
        /\ FollowsElectedLeader'
    BY <1>2, <1>4 DEF ElectionInv, NodeInv, NodeOK, VotesInv, ElectingInv,
                VoteOncePerTerm, FollowsElectedLeader
  <2> QED BY <2>2, <2>3 DEF ElectionInv
<1>5. ASSUME NEW ok1 \in SaveOutcomes("step_down"), NEW ok2 \in SaveOutcomes("vote"),
             LET y == IF r.term > x.current_term THEN StepDown(x, r.term, ok1)
                      ELSE x
                 z == CastVote(y, r, good, ok2)
                 disrupted == r.term > x.current_term /\ x.state \in Leading
             IN /\ Update(n, z)
                /\ votes' = IF good /\ y.voted_id = NONE /\ ok2
                            THEN votes \union {Vote(n, z.current_term, r.cand)}
                            ELSE votes
                /\ responses' = responses \union
                      {VoteResponse(r, z, FALSE, disrupted, h.previous_term)}
      PROVE  ElectionInv'
  <2> DEFINE y == IF r.term > x.current_term THEN StepDown(x, r.term, ok1) ELSE x
             z == CastVote(y, r, good, ok2)
             d == r.term > x.current_term /\ x.state \in Leading
  <2>1. ok1 \in BOOLEAN /\ ok2 \in BOOLEAN /\ good \in BOOLEAN
    BY DEF SaveOutcomes, LogIdGeq
  <2>2. /\ Update(n, z)
        /\ votes' = IF good /\ y.voted_id = NONE /\ ok2
                    THEN votes \union {Vote(n, z.current_term, r.cand)}
                    ELSE votes
        /\ responses' = responses \union
              {VoteResponse(r, z, FALSE, d, h.previous_term)}
    BY <1>5
  <2>3. /\ x \in Node /\ NodeOK(n, x, votes, elected)
        /\ x.current_term \in Int /\ x.meta.term \in Int
    BY <1>1, NodeFacts
  <2>4. /\ y \in Node /\ NodeOK(n, y, votes, elected)
        /\ y.meta.term > x.meta.term \/ y.meta = x.meta
        /\ y.current_term >= x.current_term
        /\ y.current_term = x.current_term => y.voted_id = x.voted_id
        /\ x.state # "DOWN" => y.state # "DOWN"
        /\ y.leader_id = NONE \/ y = x
    <3>1. CASE r.term > x.current_term
      <4>1. y = StepDown(x, r.term, ok1)
        BY <3>1
      <4> QED BY <4>1, <1>1, <2>1, <2>3, StepDownOK
    <3>2. CASE ~(r.term > x.current_term)
      <4>1. y = x
        BY <3>2
      <4> HIDE DEF y, x
      <4> QED BY <4>1, <2>3
    <3> QED BY <3>1, <3>2
  <2> HIDE DEF y
  <2>5. /\ z \in Node /\ NodeOK(n, z, votes', elected)
        /\ \/ z.meta.term > y.meta.term \/ z.meta = y.meta
           \/ z.meta.term = y.meta.term /\ y.meta.votedfor = NONE
        /\ \A v \in votes' \ votes :
              /\ v.voter = n
              /\ z.meta = [term |-> v.term, votedfor |-> v.cand]
        /\ z.current_term >= y.current_term
        /\ z = y \/ y.voted_id = NONE
        /\ y.state # "DOWN" => z.state # "DOWN"
        /\ z.leader_id = NONE
           \/ (z.leader_id = y.leader_id /\ z.current_term = y.current_term)
    <3>1. z = CastVote(y, r, good, ok2)
      OBVIOUS
    <3>2. PICK W : W = votes'
      OBVIOUS
    <3>3. W = IF good /\ y.voted_id = NONE /\ ok2
              THEN votes \union {Vote(r.peer, z.current_term, r.cand)}
              ELSE votes
      BY <2>2, <3>2
    <3> HIDE DEF x, z, good
    <3>4. NodeOK(r.peer, y, votes, elected)
      BY <2>4
    <3> HIDE DEF r, n
    <3>5. n = r.peer
      BY DEF n
    <3>6. VoteCast(r.peer, y, z, votes, W, elected)
      BY <1>1, <2>1, <2>4, <3>1, <3>3, <3>4, CastVoteOK
    <3> QED BY <3>2, <3>5, <3>6 DEF VoteCast
  <2> HIDE DEF z
  <2>6. /\ y.current_term \in Int /\ z.current_term \in Int
        /\ y.meta.term \in Int /\ z.meta.term \in Int
    BY <2>4, <2>5 DEF Node, Meta, Term
  <2>7. \/ z.meta.term > x.meta.term \/ z.meta = x.meta
        \/ z.meta.term = x.meta.term /\ x.meta.votedfor = NONE
    BY <2>3, <2>4, <2>5, <2>6
  <2>8. votes \subseteq votes' /\ NodeOK(n, z, votes', elected')
    BY <2>2, <2>5, <1>2
  <2>9. MessagesInv' /\ ElectedInv' /\ ElectionSafety'
    BY <2>2, <2>8, <1>2, <1>3, SameLeaders
  <2>10. \A e \in electing' : e.node = n =>
              /\ z.state # "DOWN"
              /\ e.term <= z.current_term
              /\ e.term = z.current_term => z.voted_id = n
    <3> SUFFICES ASSUME NEW e \in electing, e.node = n
                 PROVE  /\ z.state # "DOWN"
                        /\ e.term <= z.current_term
                        /\ e.term = z.current_term => z.voted_id = n
      BY <1>2
    <3>1. /\ x.state # "DOWN" /\ e.term \in Int /\ e.term <= x.current_term
          /\ e.term = x.current_term => x.voted_id = n
      BY <1>1, NodeFacts
    <3>2. n # NONE
      BY <1>1, ServerAssumption
    <3> HIDE DEF x, n
    <3> QED BY <3>1, <3>2, <2>3, <2>4, <2>5, <2>6
  <2>11. z.leader_id # NONE =>
           \E e \in elected' : e.leader = z.leader_id /\ e.term = z.current_term
    <3>1. x.leader_id # NONE =>
             \E e \in elected : e.leader = x.leader_id /\ e.term = x.current_term
      BY <1>1, NodeFacts
    <3> HIDE DEF x, n
    <3> QED BY <1>2, <2>4, <2>5, <3>1
  <2>12. elected \subseteq elected' /\ elected' \ elected = {}
    BY <1>2
  <2> HIDE DEF r, n, x, good
  <2> QED BY <1>1, <1>2, <2>2, <2>5, <2>7, <2>8, <2>9, <2>10, <2>11, <2>12, StepInv
          DEF x
<1>6. \/ /\ \E b \in BOOLEAN : responses' = responses \union
               {VoteResponse(r, x, b, FALSE, h.previous_term)}
         /\ UNCHANGED <<node, votes>>
      \/ \E ok1 \in SaveOutcomes("step_down"), ok2 \in SaveOutcomes("vote") :
           LET y == IF r.term > x.current_term THEN StepDown(x, r.term, ok1)
                    ELSE x
               z == CastVote(y, r, good, ok2)
               disrupted == r.term > x.current_term /\ x.state \in Leading
           IN /\ Update(n, z)
              /\ votes' = IF good /\ y.voted_id = NONE /\ ok2
                          THEN votes \union {Vote(n, z.current_term, r.cand)}
                          ELSE votes
              /\ responses' = responses \union
                    {VoteResponse(r, z, FALSE, disrupted, h.previous_term)}
  <2>1. good \in BOOLEAN
    BY DEF LogIdGeq
  <2> QED BY <2>1, Zenon DEF HandleRequestVoteResume
<1> QED BY <1>4, <1>5, <1>6, Zenon

\* The heart of the matter: a leadership won with the durable votes of a
\* majority is the only one of its term, since two majorities share a server
\* and that server has voted once.
LEMMA NewLeader ==
    ASSUME ElectionInv, VoteOncePerTerm', votes \subseteq votes',
           NEW n \in Server, NEW t,
           \A e \in elected : ~(e.leader = n /\ e.term = t),
           NEW Q \in SUBSET Server, IsGranted(Q),
           \A q \in Q : Vote(q, t, n) \in votes',
           Vote(n, t, n) \in votes',
           NEW f, f.leader = n, f.term = t, elected' = elected \union {f}
    PROVE  ElectedInv' /\ ElectionSafety'
<1>1. ASSUME NEW e \in elected
      PROVE  /\ Vote(e.leader, e.term, e.leader) \in votes'
             /\ \E S \in SUBSET Server :
                   IsGranted(S) /\ \A q \in S : Vote(q, e.term, e.leader) \in votes'
  BY DEF ElectionInv, ElectedInv, HasVoted
<1>2. ASSUME NEW e \in elected, e.term = t
      PROVE  FALSE
  <2>1. PICK S \in SUBSET Server :
           IsGranted(S) /\ \A q \in S : Vote(q, e.term, e.leader) \in votes'
    BY <1>1
  <2>2. PICK q \in Q : q \in S
    BY <2>1, QuorumsMeet
  <2>3. Vote(q, t, n) \in votes' /\ Vote(q, t, e.leader) \in votes'
    BY <1>2, <2>1, <2>2
  <2>4. n = e.leader
    BY <2>3 DEF VoteOncePerTerm, Vote
  <2> QED BY <2>4, <1>2
<1>3. ElectionSafety'
  BY <1>2 DEF ElectionInv, ElectionSafety
<1>4. ElectedInv'
  <2> SUFFICES ASSUME NEW e \in elected'
               PROVE  /\ Vote(e.leader, e.term, e.leader) \in votes'
                      /\ \E S \in SUBSET Server : IsGranted(S) /\
                            \A q \in S : Vote(q, e.term, e.leader) \in votes'
    BY DEF ElectedInv, HasVoted
  <2>1. CASE e \in elected
    BY <2>1, <1>1
  <2>2. CASE e = f
    BY <2>2
  <2> QED BY <2>1, <2>2
<1> QED BY <1>3, <1>4

\* What the grants do to a node, and what a leader starts from.
LEMMA GrantFields ==
    ASSUME NEW x \in Node, NEW p \in Server
    PROVE  LET y == Grant(x, p) IN
           /\ y \in Node /\ y.meta = x.meta /\ y.voted_id = x.voted_id
           /\ y.current_term = x.current_term
           /\ y.state = x.state /\ y.leader_id = x.leader_id
           /\ y.vote_ctx.granted = x.vote_ctx.granted \union {p}
           /\ y.vote_ctx.timer = x.vote_ctx.timer
<1>1. Grant(x, p) \in Node
  BY HelperTypes
<1> QED BY <1>1 DEF Grant, Node, VoteCtx

\* So do the grants of a node to itself.
LEMMA OwnGrantFields ==
    ASSUME NEW x \in Node, NEW n \in Server
    PROVE  /\ \A y \in {GrantOwn(x, n), StartGrantSelfTimer(x)} :
                 /\ y \in Node /\ y.meta = x.meta /\ y.voted_id = x.voted_id
                 /\ y.current_term = x.current_term
                 /\ y.state = x.state /\ y.leader_id = x.leader_id
           /\ GrantOwn(x, n).vote_ctx.granted = x.vote_ctx.granted \union {n}
           /\ GrantOwn(x, n).vote_ctx.timer = FALSE
           /\ StartGrantSelfTimer(x).vote_ctx.granted = x.vote_ctx.granted
<1>1. GrantOwn(x, n) \in Node /\ StartGrantSelfTimer(x) \in Node
  BY HelperTypes
<1>2. LET y == GrantOwn(x, n) IN
        /\ y.meta = x.meta /\ y.voted_id = x.voted_id
        /\ y.current_term = x.current_term
        /\ y.state = x.state /\ y.leader_id = x.leader_id
        /\ y.vote_ctx.granted = x.vote_ctx.granted \union {n}
        /\ y.vote_ctx.timer = FALSE
  BY DEF GrantOwn, Node, VoteCtx
<1>3. LET y == StartGrantSelfTimer(x) IN
        /\ y.meta = x.meta /\ y.voted_id = x.voted_id
        /\ y.current_term = x.current_term
        /\ y.state = x.state /\ y.leader_id = x.leader_id
        /\ y.vote_ctx.granted = x.vote_ctx.granted
  BY DEF StartGrantSelfTimer, Node, VoteCtx
<1> QED BY <1>1, <1>2, <1>3

\* A node that is in order becomes a leader that is in order.
LEMMA BecomeLeaderOK ==
    ASSUME NEW n \in Server, NEW x \in Node, NEW V, NEW E, NodeOK(n, x, V, E),
           Vote(n, x.current_term, n) \in V, NEW F
    PROVE  NodeOK(n, BecomeLeader(n, x), V, F)
<1>1. LET y == BecomeLeader(n, x) IN
        /\ y.meta = x.meta /\ y.voted_id = x.voted_id
        /\ y.current_term = x.current_term /\ y.state = "LEADER"
  BY DEF BecomeLeader, Node
<1> QED BY <1>1 DEF NodeOK

\* A candidate with the durable votes of a majority, its own among them,
\* becomes the leader of its term.
LEMMA WinStep ==
    ASSUME ElectionInv, TypeOK', Forward, MessagesInv',
           NEW n \in Server, NEW g \in Node, NodeOK(n, g, votes', elected),
           g.state = "CANDIDATE", IsGranted(g.vote_ctx.granted),
           Vote(n, g.current_term, n) \in votes',
           Update(n, BecomeLeader(n, g)),
           elected' = elected \union
              {[leader |-> n, term |-> g.current_term,
                version |-> g.vote_ctx.version]},
           votes \subseteq votes',
           \A v \in votes' \ votes :
              /\ v.voter = n
              /\ g.meta = [term |-> v.term, votedfor |-> v.cand],
           \/ g.meta.term > node[n].meta.term
           \/ g.meta = node[n].meta
           \/ g.meta.term = node[n].meta.term /\ node[n].meta.votedfor = NONE,
           electing' \subseteq electing,
           \A e \in electing' : e.node = n =>
              /\ e.term <= g.current_term
              /\ e.term = g.current_term => g.voted_id = n
    PROVE  ElectionInv'
<1> DEFINE l == BecomeLeader(n, g)
           f == [leader |-> n, term |-> g.current_term,
                 version |-> g.vote_ctx.version]
<1>1. /\ l \in Node /\ l.meta = g.meta /\ l.voted_id = g.voted_id
      /\ l.current_term = g.current_term
      /\ l.state = "LEADER" /\ l.leader_id = n
  BY ElectionTypes DEF BecomeLeader, Node
<1>2. f.leader = n /\ f.term = g.current_term /\ elected' = elected \union {f}
  OBVIOUS
<1>3. NodeOK(n, l, votes', elected')
  BY BecomeLeaderOK
<1> HIDE DEF f, l
<1>4. \/ l.meta.term > node[n].meta.term
      \/ l.meta = node[n].meta
      \/ l.meta.term = node[n].meta.term /\ node[n].meta.votedfor = NONE
  BY <1>1
<1>5. /\ \A v \in votes' \ votes :
            v.voter = n /\ l.meta = [term |-> v.term, votedfor |-> v.cand]
      /\ elected \subseteq elected'
      /\ \A e \in elected' \ elected : e.leader = n
      /\ Update(n, l)
  BY <1>1, <1>2 DEF l
<1>6. VoteOncePerTerm'
  <2>1. node' = [node EXCEPT ![n] = l]
    BY <1>5 DEF Update
  <2>2. \A v \in votes' : v \in [voter: Server, term: Term, cand: Server]
    BY DEF TypeOK
  <2> QED BY <2>1, <2>2, <1>1, <1>3, <1>4, <1>5, NodeUpdate
<1>7. /\ \A e \in elected : ~(e.leader = n /\ e.term = g.current_term)
      /\ \A q \in g.vote_ctx.granted : Vote(q, g.current_term, n) \in votes'
      /\ g.vote_ctx.granted \in SUBSET Server
  BY DEF NodeOK, Node, VoteCtx
<1>8. ElectedInv' /\ ElectionSafety'
  BY <1>2, <1>6, <1>7, NewLeader
<1>9. \A e \in electing' : e.node = n =>
              /\ l.state # "DOWN"
              /\ e.term <= l.current_term
              /\ e.term = l.current_term => l.voted_id = n
  BY <1>1
<1>10. \E e \in elected' : e.leader = l.leader_id /\ e.term = l.current_term
  BY <1>1, <1>2
<1> QED BY <1>1, <1>3, <1>4, <1>5, <1>8, <1>9, <1>10, StepInv

\* grant_self, for a node that has reached state x with its own vote durable.
LEMMA GrantSelfStep ==
    ASSUME ElectionInv, TypeOK', Forward, NEW n \in Server, NEW x \in Node,
           NEW el \in SUBSET electing, GrantSelf(n, x, el),
           votes \subseteq votes',
           \A v \in votes' \ votes :
              /\ v.voter = n
              /\ x.meta = [term |-> v.term, votedfor |-> v.cand],
           \/ x.meta.term > node[n].meta.term
           \/ x.meta = node[n].meta
           \/ x.meta.term = node[n].meta.term /\ node[n].meta.votedfor = NONE,
           NodeOK(n, x, votes', elected),
           x.state = "CANDIDATE" => Vote(n, x.current_term, n) \in votes',
           \A r \in requests' :
              r.peer # r.cand /\ Backed(r.cand, r.term, r.version)',
           x.current_term = node[n].current_term,
           x.voted_id = node[n].voted_id,
           x.state = node[n].state, x.leader_id = node[n].leader_id
    PROVE  ElectionInv'
<1> DEFINE g == GrantOwn(x, n)
           s == StartGrantSelfTimer(x)
           d == Stopped(g)
<1>1. handling' \subseteq handling /\ responses' \subseteq responses
  BY DEF GrantSelf, AfterGrant, Halt
<1>2. MessagesInv'
  BY <1>1, BackedForward DEF ElectionInv, MessagesInv, HasVoted
<1>3. \A y \in {g, s} :
         /\ y \in Node /\ y.meta = x.meta /\ y.voted_id = x.voted_id
         /\ y.current_term = x.current_term
         /\ y.state = x.state /\ y.leader_id = x.leader_id
  BY OwnGrantFields
<1>4. /\ g.vote_ctx.granted = x.vote_ctx.granted \union {n}
      /\ g.vote_ctx.timer = FALSE
      /\ s.vote_ctx.granted = x.vote_ctx.granted
  BY OwnGrantFields
<1>5. \A e \in el : e.node = n =>
              /\ x.state # "DOWN"
              /\ e.term <= x.current_term
              /\ e.term = x.current_term => x.voted_id = n
  BY NodeFacts
<1>6. x.leader_id # NONE =>
         \E e \in elected : e.leader = x.leader_id /\ e.term = x.current_term
  BY NodeFacts
<1>7. NodeOK(n, g, votes', elected) /\ NodeOK(n, s, votes', elected)
  <2> HIDE DEF g, s
  <2> QED BY <1>3, <1>4 DEF NodeOK
<1>8. ASSUME NEW y \in {g, s}, Update(n, y), electing' = el, elected' = elected
      PROVE  ElectionInv'
  <2>1. ElectedInv' /\ ElectionSafety'
    BY <1>8, SameLeaders
  <2>2. /\ y \in Node /\ y.meta = x.meta /\ y.voted_id = x.voted_id
        /\ y.current_term = x.current_term
        /\ y.state = x.state /\ y.leader_id = x.leader_id
        /\ NodeOK(n, y, votes', elected')
    BY <1>3, <1>7, <1>8
  <2> HIDE DEF g, s
  <2>3. \/ y.meta.term > node[n].meta.term \/ y.meta = node[n].meta
        \/ y.meta.term = node[n].meta.term /\ node[n].meta.votedfor = NONE
    BY <2>2
  <2>4. \A v \in votes' \ votes :
           v.voter = n /\ y.meta = [term |-> v.term, votedfor |-> v.cand]
    BY <2>2
  <2>5. /\ elected \subseteq elected' /\ elected' \ elected = {}
        /\ electing' \subseteq electing
    BY <1>8
  <2>6. \A e \in electing' : e.node = n =>
              /\ y.state # "DOWN"
              /\ e.term <= y.current_term
              /\ e.term = y.current_term => y.voted_id = n
    BY <1>5, <1>8, <2>2
  <2>7. y.leader_id # NONE =>
         \E e \in elected' : e.leader = y.leader_id /\ e.term = y.current_term
    BY <1>6, <1>8, <2>2
  <2> QED BY <1>2, <1>8, <2>1, <2>2, <2>3, <2>4, <2>5, <2>6, <2>7, StepInv
<1>9. CASE /\ IsGranted(g.vote_ctx.granted) /\ g.state = "CANDIDATE"
           /\ Update(n, BecomeLeader(n, g)) /\ electing' = el
           /\ elected' = elected \union
                 {[leader |-> n, term |-> g.current_term,
                   version |-> g.vote_ctx.version]}
  <2>1. /\ g \in Node /\ g.meta = x.meta /\ g.voted_id = x.voted_id
        /\ g.current_term = x.current_term /\ g.state = x.state
    BY <1>3
  <2> HIDE DEF g
  <2>2. \/ g.meta.term > node[n].meta.term \/ g.meta = node[n].meta
        \/ g.meta.term = node[n].meta.term /\ node[n].meta.votedfor = NONE
    BY <2>1
  <2>3. \A v \in votes' \ votes :
           v.voter = n /\ g.meta = [term |-> v.term, votedfor |-> v.cand]
    BY <2>1
  <2>4. \A e \in electing' : e.node = n =>
              /\ e.term <= g.current_term
              /\ e.term = g.current_term => g.voted_id = n
    BY <1>5, <1>9, <2>1
  <2>5. electing' \subseteq electing /\ Vote(n, g.current_term, n) \in votes'
    BY <1>9, <2>1
  <2> QED BY <1>2, <1>7, <1>9, <2>1, <2>2, <2>3, <2>4, <2>5, WinStep
<1>10. CASE Halt(n, g, el) /\ elected' = elected
  <2>1. /\ d \in Node /\ NodeOK(n, d, votes', elected)
        /\ d.meta = g.meta /\ d.leader_id = NONE
    <3>1. g \in Node
      BY <1>3
    <3> HIDE DEF g
    <3> QED BY <3>1, <1>7, StoppedOK
  <2>2. d.meta = x.meta
    BY <2>1, <1>3
  <2>3. ElectedInv' /\ ElectionSafety'
    BY <1>10, SameLeaders
  <2>4. Update(n, d) /\ electing' = {e \in el : e.node # n}
    BY <1>10 DEF Halt
  <2> HIDE DEF d, g
  <2>5. \/ d.meta.term > node[n].meta.term \/ d.meta = node[n].meta
        \/ d.meta.term = node[n].meta.term /\ node[n].meta.votedfor = NONE
    BY <2>2
  <2>6. /\ \A v \in votes' \ votes :
              v.voter = n /\ d.meta = [term |-> v.term, votedfor |-> v.cand]
        /\ elected \subseteq elected' /\ elected' \ elected = {}
        /\ NodeOK(n, d, votes', elected')
        /\ \A e \in electing' : e \in electing /\ e.node # n
    BY <1>10, <2>1, <2>2, <2>4
  <2> QED BY <1>2, <2>1, <2>3, <2>4, <2>5, <2>6, StepInv
<1> QED BY <1>8, <1>9, <1>10 DEF GrantSelf, AfterGrant

\* The helpers that change only what the vote_ctx says of other nodes.
SameRound(x, y) ==
    /\ y \in Node /\ y.meta = x.meta /\ y.voted_id = x.voted_id
    /\ y.current_term = x.current_term
    /\ y.state = x.state /\ y.leader_id = x.leader_id
    /\ y.last_leader = x.last_leader
    /\ y.vote_ctx.granted = x.vote_ctx.granted
    /\ y.vote_ctx.timer = x.vote_ctx.timer
    /\ y.vote_ctx.version = x.vote_ctx.version

\* What keeps the round of a node.
LEMMA RoundFields ==
    ASSUME NEW x \in Node
    PROVE  /\ \A last \in LogIds : SameRound(x, SetLastLogId(x, last))
           /\ \A r \in ResponseType : SameRound(x, Learned(x, r))
           /\ \A p \in Server : SameRound(x, Reserve(x, p))
           /\ SameRound(x, Retried(x))
<1> PICK n \in Server : TRUE
  BY ServerAssumption
<1>1. ASSUME NEW last \in LogIds PROVE SameRound(x, SetLastLogId(x, last))
  <2>1. SetLastLogId(x, last) \in Node
    BY n \in Server, HelperTypes
  <2> QED BY <2>1 DEF SameRound, SetLastLogId, Node, VoteCtx
<1>2. ASSUME NEW r \in ResponseType PROVE SameRound(x, Learned(x, r))
  <2>1. Learned(x, r) \in Node
    BY n \in Server, MessageTypes
  <2> QED BY <2>1 DEF SameRound, Learned, Node, VoteCtx
<1>3. ASSUME NEW p \in Server PROVE SameRound(x, Reserve(x, p))
  <2>1. Reserve(x, p) \in Node
    BY HelperTypes
  <2> QED BY <2>1 DEF SameRound, Reserve, Node, VoteCtx
<1>4. SameRound(x, Retried(x))
  <2>1. Retried(x) \in Node
    BY n \in Server, HelperTypes
  <2> QED BY <2>1 DEF SameRound, Retried, Node, VoteCtx
<1> QED BY <1>1, <1>2, <1>3, <1>4

\* What request_peers_to_vote sends carries the round of its sender.
LEMMA RequestFields ==
    ASSUME NEW n, NEW x, NEW S
    PROVE  \A r \in VoteRequests(n, x, S) :
              /\ r.cand = n /\ r.peer # n /\ r.term = x.current_term
              /\ r.version = x.vote_ctx.version
  BY DEF VoteRequests

\* elect_self after the lock, when its save cannot fail. An own vote in memory
\* means that the meta has no other of this term, so the save overwrites none.
LEMMA ElectSelfResumeStep ==
    ASSUME "elect_self" \notin SaveMayFail,
           ElectionInv, TypeOK', Forward, NEW e \in electing, ElectSelfResume(e)
    PROVE  ElectionInv'
<1> DEFINE n == e.node
           x == SetLastLogId(node[n], e.last)
           y == SaveVote(x, n)
           el == electing \ {e}
<1>1. n \in Server /\ e.last \in LogIds /\ n # NONE
  BY ServerAssumption DEF ElectionInv, TypeOK, ElectingType
<1>2. /\ x \in Node /\ x.meta = node[n].meta
      /\ x.current_term = node[n].current_term
      /\ x.voted_id = node[n].voted_id /\ x.state = node[n].state
      /\ x.leader_id = node[n].leader_id
      /\ x.vote_ctx.granted = node[n].vote_ctx.granted
      /\ x.vote_ctx.timer = node[n].vote_ctx.timer
      /\ x.vote_ctx.version = node[n].vote_ctx.version
  <2>1. node[n] \in Node /\ SameRound(node[n], x)
    BY <1>1, NodeFacts, RoundFields
  <2> HIDE DEF x
  <2> QED BY <2>1 DEF SameRound, Node, VoteCtx
<1>3. /\ e.term = x.current_term
      /\ requests' = requests \union VoteRequests(n, x, Server)
      /\ votes' = votes \union {Vote(n, x.current_term, n)}
      /\ GrantSelf(n, y, el)
  BY DEF ElectSelfResume, SaveOutcomes
<1>4. x.voted_id = n
  BY <1>1, <1>2, <1>3, NodeFacts
<1>5. NodeOK(n, x, votes, elected)
  <2> HIDE DEF x
  <2> QED BY <1>1, <1>2, NodeFacts, SameVote
<1> HIDE DEF x
<1>6. /\ y \in Node /\ y.meta = [term |-> x.current_term, votedfor |-> n]
      /\ y.current_term = x.current_term /\ y.voted_id = n
      /\ y.state = x.state /\ y.leader_id = x.leader_id
      /\ y.vote_ctx = x.vote_ctx
  BY <1>1, <1>2, HelperTypes DEF SaveVote, Node
<1> HIDE DEF y
<1>7. x.meta.term \in Int /\ x.current_term \in Int
  BY <1>2 DEF Node, Meta, Term
<1>8. y.meta.term = x.current_term /\ y.meta.votedfor = n
  BY <1>6
<1>9. Vote(n, x.current_term, n) \in votes' /\ votes \subseteq votes'
  BY <1>3
<1>10. NodeOK(n, y, votes', elected)
  BY <1>1, <1>4, <1>5, <1>6, <1>7, <1>8, <1>9 DEF NodeOK
<1>11. \/ y.meta.term > x.meta.term \/ y.meta = x.meta
       \/ y.meta.term = x.meta.term /\ x.meta.votedfor = NONE
  <2>1. x.meta.term <= x.current_term
    BY <1>5 DEF NodeOK
  <2>2. CASE x.meta.term = x.current_term /\ x.meta.votedfor # NONE
    <3>1. x.meta.votedfor = n
      BY <2>2, <1>4, <1>5 DEF NodeOK
    <3>2. x.meta = [term |-> x.current_term, votedfor |-> n]
      BY <3>1, <2>2, <1>2 DEF Node, Meta
    <3> QED BY <3>2, <1>6
  <2> QED BY <2>1, <2>2, <1>7, <1>8
<1>12. \A v \in votes' \ votes :
          v.voter = n /\ y.meta = [term |-> v.term, votedfor |-> v.cand]
  BY <1>3, <1>6 DEF Vote
<1>13. \A r \in requests' :
          r.peer # r.cand /\ Backed(r.cand, r.term, r.version)'
  <2>1. \A r \in VoteRequests(n, x, Server) :
           r.peer # r.cand /\ Backed(r.cand, r.term, r.version)'
    BY <1>9, RequestFields DEF Backed, HasVoted
  <2> QED BY <2>1, <1>3, <1>9, BackedForward DEF ElectionInv, MessagesInv
<1>14. el \in SUBSET electing
  OBVIOUS
<1> HIDE DEF el, n
<1>15. /\ y.current_term = node[n].current_term /\ y.voted_id = node[n].voted_id
       /\ y.state = node[n].state /\ y.leader_id = node[n].leader_id
       /\ y.state = "CANDIDATE" => Vote(n, y.current_term, n) \in votes'
       /\ \/ y.meta.term > node[n].meta.term \/ y.meta = node[n].meta
          \/ y.meta.term = node[n].meta.term /\ node[n].meta.votedfor = NONE
  BY <1>2, <1>4, <1>6, <1>9, <1>11
<1> QED BY <1>1, <1>3, <1>6, <1>9, <1>10, <1>12, <1>13, <1>14, <1>15, GrantSelfStep

\* handle_grant_self_timedout: the timer runs only once the vote is durable.
LEMMA GrantSelfTimedoutStep ==
    ASSUME ElectionInv, TypeOK', Forward, NEW n \in Server,
           HandleGrantSelfTimedout(n)
    PROVE  ElectionInv'
<1> DEFINE x == node[n]
<1>1. /\ x.vote_ctx.timer /\ GrantSelf(n, x, electing)
      /\ UNCHANGED <<requests, votes>>
  BY DEF HandleGrantSelfTimedout
<1>2. x \in Node /\ NodeOK(n, x, votes, elected)
  BY NodeFacts
<1>3. x.state = "CANDIDATE" => Vote(n, x.current_term, n) \in votes'
  BY <1>1, <1>2 DEF NodeOK
<1>4. \A r \in requests' :
         r.peer # r.cand /\ Backed(r.cand, r.term, r.version)'
  BY <1>1, BackedForward DEF ElectionInv, MessagesInv
<1>5. /\ votes \subseteq votes' /\ votes' \ votes = {}
      /\ NodeOK(n, x, votes', elected) /\ electing \in SUBSET electing
  BY <1>1, <1>2
<1>6. \A v \in votes' \ votes :
          v.voter = n /\ x.meta = [term |-> v.term, votedfor |-> v.cand]
  BY <1>5
<1> QED BY <1>1, <1>2, <1>3, <1>4, <1>5, <1>6, GrantSelfStep

\* A stop within elect_self ends the round its requests belong to.
LEMMA CrashInElectSelfStep ==
    ASSUME ElectionInv, TypeOK', Forward, NEW e \in electing, CrashInElectSelf(e)
    PROVE  ElectionInv'
<1> DEFINE n == e.node
           x == SetLastLogId(node[n], e.last)
           y == Stopped(x)
<1>1. n \in Server /\ e.last \in LogIds
  BY DEF ElectionInv, TypeOK, ElectingType
<1>2. /\ x \in Node /\ x.meta = node[n].meta
      /\ x.current_term = node[n].current_term
      /\ x.voted_id = node[n].voted_id /\ x.state = node[n].state
      /\ x.vote_ctx.granted = node[n].vote_ctx.granted
      /\ x.vote_ctx.timer = node[n].vote_ctx.timer
      /\ x.vote_ctx.version \in Nat
  <2>1. node[n] \in Node /\ SameRound(node[n], x)
    BY <1>1, NodeFacts, RoundFields
  <2> HIDE DEF x
  <2> QED BY <2>1 DEF SameRound, Node, VoteCtx
<1>3. /\ requests' = requests \union VoteRequests(n, x, Server)
      /\ Update(n, y) /\ electing' = {f \in electing : f.node # n}
      /\ handling' \subseteq handling /\ responses' \subseteq responses
      /\ UNCHANGED <<votes, elected>>
  BY DEF CrashInElectSelf, Halt
<1>4. NodeOK(n, x, votes, elected)
  <2> HIDE DEF x
  <2> QED BY <1>1, <1>2, NodeFacts, SameVote
<1> HIDE DEF x
<1>5. /\ y \in Node /\ NodeOK(n, y, votes, elected)
      /\ y.meta = x.meta /\ y.leader_id = NONE
  BY <1>1, <1>2, <1>4, StoppedOK
<1>6. y.vote_ctx.version = x.vote_ctx.version + 1
  BY DEF Stopped, CtxInit
<1> HIDE DEF y
<1>7. node'[n] = y
  BY <1>1, <1>3 DEF Update, ElectionInv, TypeOK
<1>8. \A r \in VoteRequests(n, x, Server) :
         r.peer # r.cand /\ Backed(r.cand, r.term, r.version)'
  BY <1>2, <1>6, <1>7, RequestFields DEF Backed
<1>9. MessagesInv'
  BY <1>3, <1>8, BackedForward DEF ElectionInv, MessagesInv, HasVoted
<1>10. ElectedInv' /\ ElectionSafety'
  BY <1>3, SameLeaders
<1>11. /\ votes \subseteq votes' /\ votes' \ votes = {}
       /\ elected \subseteq elected' /\ elected' \ elected = {}
       /\ NodeOK(n, y, votes', elected') /\ y.meta = node[n].meta
       /\ \A f \in electing' : f \in electing /\ f.node # n
  BY <1>2, <1>3, <1>5
<1> HIDE DEF n
<1> QED BY <1>1, <1>3, <1>5, <1>9, <1>10, <1>11, StepInv

\* A candidate with its own vote durable counts an answer and asks some peers
\* again.
LEMMA RetryStep ==
    ASSUME ElectionInv, TypeOK', Forward, NEW n \in Server, NEW y \in Node,
           NodeOK(n, y, votes, elected), Retried(y) \in Node,
           SameRound(y, Retried(y)), Update(n, Retried(y)),
           requests' = requests \union RetryRequests(n, y),
           responses' \subseteq responses,
           UNCHANGED <<electing, handling, votes, elected>>,
           Vote(n, y.current_term, n) \in votes,
           y.meta = node[n].meta, y.current_term = node[n].current_term,
           y.voted_id = node[n].voted_id, y.state = node[n].state,
           y.leader_id = node[n].leader_id
    PROVE  ElectionInv'
<1> DEFINE z == Retried(y)
<1>1. /\ z \in Node /\ Update(n, z) /\ z.meta = y.meta
      /\ z.current_term = y.current_term /\ z.voted_id = y.voted_id
      /\ z.state = y.state /\ z.leader_id = y.leader_id
      /\ z.vote_ctx.granted = y.vote_ctx.granted
      /\ z.vote_ctx.timer = y.vote_ctx.timer
  BY DEF SameRound
<1> HIDE DEF z
<1>2. NodeOK(n, z, votes, elected)
  BY <1>1, SameVote
<1>3. \A r \in RetryRequests(n, y) :
         r.peer # r.cand /\ Backed(r.cand, r.term, r.version)'
  <2>1. \A r \in RetryRequests(n, y) : r \in VoteRequests(n, y, y.vote_ctx.reserved)
    BY DEF RetryRequests
  <2> QED BY <2>1, RequestFields DEF Backed, HasVoted
<1>4. MessagesInv'
  BY <1>3, BackedForward DEF ElectionInv, MessagesInv, HasVoted
<1>5. ElectedInv' /\ ElectionSafety'
  BY SameLeaders
<1>6. /\ votes \subseteq votes' /\ votes' \ votes = {}
      /\ elected \subseteq elected' /\ elected' \ elected = {}
      /\ NodeOK(n, z, votes', elected') /\ z.meta = node[n].meta
  BY <1>1, <1>2
<1>7. \A e \in electing' : e.node = n =>
              /\ z.state # "DOWN"
              /\ e.term <= z.current_term
              /\ e.term = z.current_term => z.voted_id = n
  BY <1>1, NodeFacts
<1>8. z.leader_id # NONE =>
         \E e \in elected' : e.leader = z.leader_id /\ e.term = z.current_term
  BY <1>1, NodeFacts
<1> QED BY <1>1, <1>4, <1>5, <1>6, <1>7, <1>8, StepInv

\* An answer of the round that a candidate is in: its own vote is durable.
LEMMA ExpectedFacts ==
    ASSUME ElectionInv, NEW r \in responses, Expected(r, Learned(node[r.cand], r))
    PROVE  LET n == r.cand
               x == Learned(node[n], r)
           IN /\ n \in Server /\ r.peer \in Server
              /\ SameRound(node[n], x) /\ x.state = "CANDIDATE"
              /\ NodeOK(n, x, votes, elected)
              /\ Vote(n, x.current_term, n) \in votes
              /\ r.granted => Vote(r.peer, x.current_term, n) \in votes
<1> DEFINE n == r.cand
           x == Learned(node[n], r)
<1>1. /\ n \in Server /\ r.peer \in Server /\ r \in ResponseType
      /\ r.version \in Nat
  BY DEF ElectionInv, TypeOK, ResponseType
<1>2. node[n] \in Node /\ SameRound(node[n], x)
  BY <1>1, NodeFacts, RoundFields
<1>3. /\ r.version = x.vote_ctx.version /\ x.state = "CANDIDATE"
      /\ r.req_term = x.current_term
  BY DEF Expected
<1> HIDE DEF x
<1>4. NodeOK(n, x, votes, elected)
  BY <1>1, <1>2, NodeFacts, SameVote DEF SameRound
<1>5. r.version = node[n].vote_ctx.version
  BY <1>2, <1>3 DEF SameRound
<1>6. Backed(n, r.req_term, r.version)
  BY DEF ElectionInv, MessagesInv
<1>7. Vote(n, x.current_term, n) \in votes
  BY <1>1, <1>3, <1>5, <1>6 DEF Backed, HasVoted
<1>8. r.granted => Vote(r.peer, x.current_term, n) \in votes
  BY <1>3 DEF ElectionInv, MessagesInv, HasVoted
<1> QED BY <1>1, <1>2, <1>3, <1>4, <1>7, <1>8 DEF x

\* handle_request_vote_response of a refusal because of the lease.
LEMMA LeaseRejectedStep ==
    ASSUME ElectionInv, TypeOK', Forward, NEW r \in responses,
           LeaseRejectedVoteResponse(r)
    PROVE  ElectionInv'
<1> DEFINE n == r.cand
           x == Learned(node[n], r)
           y == Reserve(x, r.peer)
<1>1. Expected(r, x)
  BY DEF LeaseRejectedVoteResponse
<1>2. /\ n \in Server /\ r.peer \in Server
      /\ SameRound(node[n], x) /\ NodeOK(n, x, votes, elected)
      /\ Vote(n, x.current_term, n) \in votes
  BY <1>1, ExpectedFacts
<1>3. /\ Update(n, Retried(y)) /\ responses' \subseteq responses
      /\ requests' = requests \union RetryRequests(n, y)
      /\ UNCHANGED <<electing, handling, votes, elected>>
  BY DEF LeaseRejectedVoteResponse
<1> HIDE DEF x, n
<1>4. x \in Node /\ SameRound(x, y)
  BY <1>2, RoundFields DEF SameRound
<1> HIDE DEF y
<1>5. y \in Node /\ SameRound(y, Retried(y)) /\ Retried(y) \in Node
  BY <1>4, RoundFields DEF SameRound
<1>6. NodeOK(n, y, votes, elected)
  BY <1>2, <1>4, SameVote DEF SameRound
<1>7. /\ y.meta = node[n].meta /\ y.current_term = node[n].current_term
      /\ y.voted_id = node[n].voted_id /\ y.state = node[n].state
      /\ y.leader_id = node[n].leader_id
      /\ Vote(n, y.current_term, n) \in votes
  BY <1>2, <1>4 DEF SameRound
<1> QED BY <1>2, <1>3, <1>5, <1>6, <1>7, RetryStep

\* handle_request_vote_response of a grant.
LEMMA GrantedStep ==
    ASSUME ElectionInv, TypeOK', Forward, NEW r \in responses,
           GrantedVoteResponse(r)
    PROVE  ElectionInv'
<1> DEFINE n == r.cand
           x == Learned(node[n], r)
           w == Grant(x, r.peer)
           y == IF r.peer = x.last_leader THEN GrantOwn(w, n) ELSE w
<1>1. Expected(r, x) /\ r.granted
  BY DEF GrantedVoteResponse
<1>2. /\ n \in Server /\ r.peer \in Server /\ x.state = "CANDIDATE"
      /\ SameRound(node[n], x) /\ NodeOK(n, x, votes, elected)
      /\ Vote(n, x.current_term, n) \in votes
      /\ Vote(r.peer, x.current_term, n) \in votes
  BY <1>1, ExpectedFacts
<1>3. /\ responses' \subseteq responses
      /\ UNCHANGED <<electing, handling, votes>>
      /\ \/ /\ IsGranted(y.vote_ctx.granted)
            /\ Update(n, BecomeLeader(n, y))
            /\ elected' = elected \union
                  {[leader |-> n, term |-> y.current_term,
                    version |-> y.vote_ctx.version]}
            /\ UNCHANGED requests
         \/ /\ Update(n, Retried(y))
            /\ requests' = requests \union RetryRequests(n, y)
            /\ UNCHANGED elected
  BY DEF GrantedVoteResponse
<1> HIDE DEF x, n
<1>4. x \in Node
  BY <1>2 DEF SameRound
<1>5. /\ w \in Node /\ w.meta = x.meta /\ w.voted_id = x.voted_id
      /\ w.current_term = x.current_term
      /\ w.state = x.state /\ w.leader_id = x.leader_id
      /\ w.vote_ctx.granted = x.vote_ctx.granted \union {r.peer}
      /\ w.vote_ctx.timer = x.vote_ctx.timer
  BY <1>2, <1>4, GrantFields
<1> HIDE DEF w
<1>6. /\ y \in Node /\ y.meta = x.meta /\ y.voted_id = x.voted_id
      /\ y.current_term = x.current_term
      /\ y.state = x.state /\ y.leader_id = x.leader_id
      /\ y.vote_ctx.granted \subseteq x.vote_ctx.granted \union {r.peer, n}
      /\ y.vote_ctx.timer => x.vote_ctx.timer
  <2>1. CASE y = w
    BY <2>1, <1>5
  <2>2. CASE y = GrantOwn(w, n)
    <3>1. /\ GrantOwn(w, n) \in Node /\ GrantOwn(w, n).meta = w.meta
          /\ GrantOwn(w, n).voted_id = w.voted_id
          /\ GrantOwn(w, n).current_term = w.current_term
          /\ GrantOwn(w, n).state = w.state
          /\ GrantOwn(w, n).leader_id = w.leader_id
          /\ GrantOwn(w, n).vote_ctx.granted = w.vote_ctx.granted \union {n}
          /\ GrantOwn(w, n).vote_ctx.timer = FALSE
      BY <1>2, <1>5, OwnGrantFields
    <3> HIDE DEF y
    <3> QED BY <2>2, <3>1, <1>5
  <2> QED BY <2>1, <2>2
<1> HIDE DEF y
<1>7. NodeOK(n, y, votes, elected)
  BY <1>2, <1>6 DEF NodeOK, Leading
<1>8. /\ y.meta = node[n].meta /\ y.current_term = node[n].current_term
      /\ y.voted_id = node[n].voted_id /\ y.state = node[n].state
      /\ y.leader_id = node[n].leader_id /\ y.state = "CANDIDATE"
      /\ Vote(n, y.current_term, n) \in votes
  BY <1>2, <1>6 DEF SameRound
<1>9. CASE /\ Update(n, Retried(y))
           /\ requests' = requests \union RetryRequests(n, y)
           /\ UNCHANGED elected
  <2>1. SameRound(y, Retried(y)) /\ Retried(y) \in Node
    BY <1>6, RoundFields DEF SameRound
  <2> QED BY <1>2, <1>3, <1>6, <1>7, <1>8, <1>9, <2>1, RetryStep
<1>10. CASE /\ IsGranted(y.vote_ctx.granted)
            /\ Update(n, BecomeLeader(n, y))
            /\ elected' = elected \union
                  {[leader |-> n, term |-> y.current_term,
                    version |-> y.vote_ctx.version]}
            /\ UNCHANGED requests
  <2>1. MessagesInv'
    BY <1>3, <1>10, FewerMessages
  <2>2. /\ votes \subseteq votes' /\ votes' \ votes = {}
        /\ NodeOK(n, y, votes', elected) /\ Vote(n, y.current_term, n) \in votes'
        /\ electing' \subseteq electing
    BY <1>3, <1>7, <1>8
  <2>3. \A e \in electing' : e.node = n =>
              /\ e.term <= y.current_term
              /\ e.term = y.current_term => y.voted_id = n
    BY <1>2, <1>3, <1>8, NodeFacts
  <2> QED BY <1>2, <1>6, <1>8, <1>10, <2>1, <2>2, <2>3, WinStep
<1> QED BY <1>3, <1>9, <1>10

-----------------------------------------------------------------------------
(* The rounds of a node only go up.                                        *)

Newer(x, y) == x.vote_ctx.version <= y.vote_ctx.version

\* No helper takes the version of a vote_ctx back.
LEMMA NewerFacts ==
    ASSUME NEW x \in Node
    PROVE  /\ \A n : /\ Newer(x, Grant(x, n)) /\ Newer(x, GrantOwn(x, n))
                     /\ Newer(x, BecomeLeader(n, x)) /\ Newer(x, SaveVote(x, n))
                     /\ Newer(x, SetLeader(x, n)) /\ Newer(x, RenewLease(x, n))
           /\ Newer(x, StartGrantSelfTimer(x)) /\ Newer(x, ResetVote(x))
           /\ Newer(x, Stopped(x))
           /\ \A s : Newer(x, SetState(x, s))
           /\ \A d : Newer(x, ExpireLease(x, d))
           /\ \A m : Newer(x, Started(x, m))
           /\ \A n, b : Newer(x, Candidate(n, x, b))
           /\ \A t, ok : Newer(x, StepDown(x, t, ok))
<1> USE DEF Newer
<1>0. x.vote_ctx \in VoteCtx /\ x.vote_ctx.version \in Nat
  BY DEF Node, VoteCtx
<1>1. \A n : Newer(x, Grant(x, n))
  BY <1>0 DEF Grant, Node, VoteCtx
<1>2. ASSUME NEW n PROVE Newer(x, GrantOwn(x, n))
  <2>1. GrantOwn(x, n).vote_ctx.version = x.vote_ctx.version
    BY DEF GrantOwn, Node, VoteCtx
  <2> QED BY <1>0, <2>1
<1>3. Newer(x, StartGrantSelfTimer(x))
  BY <1>0 DEF StartGrantSelfTimer, Node, VoteCtx
<1>4. \A n : Newer(x, BecomeLeader(n, x))
  BY <1>0 DEF BecomeLeader, CtxReset, Node
<1>5. /\ Newer(x, ResetVote(x))
      /\ \A n : Newer(x, SaveVote(x, n)) /\ Newer(x, SetLeader(x, n))
  BY <1>0 DEF ResetVote, SaveVote, SetLeader, Node
<1>6. /\ \A n : Newer(x, RenewLease(x, n))
      /\ \A s : Newer(x, SetState(x, s))
  BY <1>0 DEF RenewLease, SetState, Node
<1>7. /\ \A d : Newer(x, ExpireLease(x, d)) /\ \A m : Newer(x, Started(x, m))
  BY <1>0 DEF ExpireLease, Started, Node
<1>8. Newer(x, Stopped(x))
  BY <1>0 DEF Stopped, CtxInit
<1>9. \A n, b : Newer(x, Candidate(n, x, b))
  BY <1>0 DEF Candidate, CtxInit, Node
<1>10. \A t, ok : Newer(x, StepDown(x, t, ok))
  BY <1>0 DEF StepDown, CtxReset, Node
<1> QED BY <1>1, <1>2, <1>3, <1>4, <1>5, <1>6, <1>7, <1>8, <1>9, <1>10

\* A step that changes one node, or none.
LEMMA ForwardUpdate ==
    ASSUME TypeOK, TypeOK', NEW n \in Server, NEW y, Update(n, y),
           Newer(node[n], y)
    PROVE  Forward
<1>1. \A m \in Server : /\ node[m] \in Node /\ node[m].vote_ctx.version \in Nat
                        /\ node'[m] \in Node /\ node'[m].vote_ctx.version \in Nat
  BY DEF TypeOK, Node, VoteCtx
<1>2. /\ node'[n] = y
      /\ \A m \in Server : m # n => node'[m] = node[m]
  BY DEF Update, TypeOK
<1> QED BY <1>1, <1>2 DEF Forward, Newer

\* The same through two or three helpers.
LEMMA NewerTwice ==
    ASSUME NEW x \in Node, NEW y \in Node, NEW z \in Node, Newer(x, y), Newer(y, z)
    PROVE  Newer(x, z)
<1>1. \A a \in Node : a.vote_ctx.version \in Nat
  BY DEF Node, VoteCtx
<1> QED BY <1>1 DEF Newer

\* The same round has the same version.
LEMMA SameRoundNewer ==
    ASSUME NEW x \in Node, NEW y, SameRound(x, y)
    PROVE  y \in Node /\ Newer(x, y)
<1>1. x.vote_ctx.version \in Nat
  BY DEF Node, VoteCtx
<1> QED BY <1>1 DEF SameRound, Newer

\* grant_self, from a state of the current round.
LEMMA GrantSelfForward ==
    ASSUME TypeOK, TypeOK', NEW n \in Server, NEW x \in Node,
           Newer(node[n], x), NEW el, GrantSelf(n, x, el)
    PROVE  Forward
<1> DEFINE g == GrantOwn(x, n)
           s == StartGrantSelfTimer(x)
<1>1. node[n] \in Node
  BY DEF TypeOK
<1>2. g \in Node /\ s \in Node
  BY HelperTypes
<1>3. Newer(node[n], g) /\ Newer(node[n], s)
  BY <1>1, <1>2, NewerFacts, NewerTwice
<1>4. \/ Update(n, s) \/ Update(n, g) \/ Update(n, BecomeLeader(n, g))
      \/ Update(n, Stopped(g))
  BY DEF GrantSelf, AfterGrant, Halt
<1> HIDE DEF g, s
<1>5. Newer(node[n], BecomeLeader(n, g)) /\ Newer(node[n], Stopped(g))
  BY <1>1, <1>2, <1>3, NewerFacts, NewerTwice, ElectionTypes
<1> QED BY <1>3, <1>4, <1>5, ForwardUpdate

\* No step takes the version of a vote_ctx back.
LEMMA VersionsGrow ==
    ASSUME TypeOK, TypeOK', [Next]_vars
    PROVE  Forward
<1>n. \A n \in Server : node[n] \in Node /\ node[n].vote_ctx.version \in Nat
  BY DEF TypeOK, Node, VoteCtx
<1>o. \A site : SaveOutcomes(site) \subseteq BOOLEAN
  BY DEF SaveOutcomes
<1>1. CASE UNCHANGED node
  BY <1>1, <1>n DEF Forward
<1>2. ASSUME NEW n \in Server, NEW last, NEW b, ElectSelf(n, last, b)
      PROVE  Forward
  BY <1>2, <1>n, NewerFacts, ForwardUpdate DEF ElectSelf
<1>3. ASSUME NEW e \in electing, ElectSelfResume(e)
      PROVE  Forward
  <2> DEFINE n == e.node
             x == SetLastLogId(node[n], e.last)
  <2>1. n \in Server /\ e.last \in LogIds
    BY DEF TypeOK, ElectingType
  <2>2. x \in Node /\ Newer(node[n], x)
    <3>1. node[n] \in Node /\ SameRound(node[n], x)
      BY <2>1, <1>n, RoundFields
    <3> HIDE DEF x, n
    <3> QED BY <3>1, SameRoundNewer
  <2>3. \/ GrantSelf(n, SaveVote(x, n), electing \ {e})
        \/ Update(n, ResetVote(x))
    BY <1>3 DEF ElectSelfResume
  <2> HIDE DEF x, n
  <2>4. SaveVote(x, n) \in Node /\ ResetVote(x) \in Node
    BY <2>1, <2>2, HelperTypes
  <2>5. Newer(node[n], SaveVote(x, n)) /\ Newer(node[n], ResetVote(x))
    BY <2>1, <2>2, <2>4, <1>n, NewerFacts, NewerTwice
  <2> QED BY <2>1, <2>3, <2>4, <2>5, GrantSelfForward, ForwardUpdate
<1>4. ASSUME NEW r \in requests, NEW last, HandleRequestVoteRequest(r, last)
      PROVE  Forward
  <2>1. r.peer \in Server
    BY DEF TypeOK, RequestType
  <2> QED BY <1>4, <2>1, <1>n, NewerFacts, ForwardUpdate
          DEF HandleRequestVoteRequest
<1>5. ASSUME NEW h \in handling, HandleRequestVoteResume(h), node' # node
      PROVE  Forward
  <2> DEFINE r == h.req
             n == r.peer
             x == node[n]
             good == LogIdGeq(r.last, h.last)
  <2>1. /\ n \in Server /\ r \in RequestType /\ r.term \in Term
        /\ r.cand \in Server /\ x \in Node
    BY <1>n DEF TypeOK, RequestType, HandlingType
  <2>a. \/ node' = node
        \/ \E ok1 \in SaveOutcomes("step_down"), ok2 \in SaveOutcomes("vote") :
             Update(n, CastVote(IF r.term > x.current_term
                                THEN StepDown(x, r.term, ok1) ELSE x,
                                r, good, ok2))
    BY <1>5, Zenon DEF HandleRequestVoteResume
  <2>2. PICK ok1 \in SaveOutcomes("step_down"), ok2 \in SaveOutcomes("vote") :
          Update(n, CastVote(IF r.term > x.current_term
                             THEN StepDown(x, r.term, ok1) ELSE x,
                             r, good, ok2))
    BY <1>5, <2>a
  <2>b. ok1 \in BOOLEAN /\ ok2 \in BOOLEAN /\ good \in BOOLEAN
    BY <1>o DEF LogIdGeq
  <2> DEFINE y == IF r.term > x.current_term THEN StepDown(x, r.term, ok1) ELSE x
  <2>3. StepDown(x, r.term, ok1) \in Node /\ Newer(x, StepDown(x, r.term, ok1))
    BY <2>1, <2>b, StepDownFacts, NewerFacts
  <2>4. y \in Node /\ Newer(x, y)
    <3>1. Newer(x, x)
      BY <2>1 DEF Newer, Node, VoteCtx
    <3> HIDE DEF x
    <3> QED BY <3>1, <2>1, <2>3
  <2> HIDE DEF y, good
  <2>5. Newer(y, CastVote(y, r, good, ok2)) /\ CastVote(y, r, good, ok2) \in Node
    <3> DEFINE z == StepDown(y, r.term, TRUE)
    <3>1. /\ z \in Node /\ Newer(y, z) /\ SaveVote(z, r.cand) \in Node
          /\ ResetVote(z) \in Node
      BY <2>1, <2>4, StepDownFacts, NewerFacts, HelperTypes
    <3> HIDE DEF z
    <3>2. Newer(y, SaveVote(z, r.cand)) /\ Newer(y, ResetVote(z)) /\ Newer(y, y)
      <4>1. Newer(y, y)
        BY <2>4 DEF Newer, Node, VoteCtx
      <4> QED BY <4>1, <3>1, <2>4, NewerFacts, NewerTwice
    <3>3. CastVote(y, r, good, ok2) \in {y, SaveVote(z, r.cand), ResetVote(z)}
      BY DEF CastVote, z
    <3> QED BY <3>1, <3>2, <3>3, <2>4
  <2>6. Newer(x, CastVote(y, r, good, ok2))
    <3> HIDE DEF x
    <3> QED BY <2>1, <2>4, <2>5, NewerTwice
  <2>7. Update(n, CastVote(y, r, good, ok2))
    BY <2>2 DEF y
  <2> QED BY <2>1, <2>6, <2>7, ForwardUpdate
<1>6. ASSUME NEW r \in responses, HigherTermVoteResponse(r)
      PROVE  Forward
  <2>1. r.cand \in Server
    BY DEF TypeOK, ResponseType
  <2> QED BY <1>6, <2>1, <1>n, NewerFacts, ForwardUpdate
          DEF HigherTermVoteResponse
<1>7. ASSUME NEW r \in responses, GrantedVoteResponse(r)
      PROVE  Forward
  <2> DEFINE n == r.cand
             x == Learned(node[n], r)
             w == Grant(x, r.peer)
             y == IF r.peer = x.last_leader THEN GrantOwn(w, n) ELSE w
  <2>1. n \in Server /\ r.peer \in Server /\ r \in ResponseType
    BY DEF TypeOK, ResponseType
  <2>2. x \in Node /\ Newer(node[n], x)
    <3>1. node[n] \in Node /\ SameRound(node[n], x)
      BY <2>1, <1>n, RoundFields
    <3> HIDE DEF x, n
    <3> QED BY <3>1, SameRoundNewer
  <2>3. Update(n, BecomeLeader(n, y)) \/ Update(n, Retried(y))
    BY <1>7 DEF GrantedVoteResponse
  <2> HIDE DEF x, n
  <2>4. w \in Node /\ Newer(node[n], w)
    BY <2>1, <2>2, <1>n, HelperTypes, NewerFacts, NewerTwice
  <2> HIDE DEF w
  <2>5. GrantOwn(w, n) \in Node /\ Newer(node[n], GrantOwn(w, n))
    BY <2>1, <2>4, <1>n, HelperTypes, NewerFacts, NewerTwice
  <2>6. y \in Node /\ Newer(node[n], y)
    BY <2>4, <2>5
  <2> HIDE DEF y
  <2>7. /\ BecomeLeader(n, y) \in Node /\ Newer(y, BecomeLeader(n, y))
        /\ Retried(y) \in Node /\ Newer(y, Retried(y))
    <3>1. SameRound(y, Retried(y))
      BY <2>6, RoundFields
    <3> QED BY <3>1, <2>1, <2>6, ElectionTypes, NewerFacts, SameRoundNewer
  <2>8. Newer(node[n], BecomeLeader(n, y)) /\ Newer(node[n], Retried(y))
    BY <2>1, <2>6, <2>7, <1>n, NewerTwice
  <2> QED BY <2>1, <2>3, <2>8, ForwardUpdate
<1>8. ASSUME NEW r \in responses, LeaseRejectedVoteResponse(r)
      PROVE  Forward
  <2> DEFINE n == r.cand
             x == Learned(node[n], r)
             y == Reserve(x, r.peer)
  <2>1. n \in Server /\ r.peer \in Server /\ r \in ResponseType
    BY DEF TypeOK, ResponseType
  <2>2. Update(n, Retried(y))
    BY <1>8 DEF LeaseRejectedVoteResponse
  <2>3. x \in Node /\ SameRound(node[n], x)
    BY <2>1, <1>n, RoundFields DEF SameRound
  <2> HIDE DEF x
  <2>4. y \in Node /\ SameRound(x, y)
    BY <2>1, <2>3, RoundFields DEF SameRound
  <2> HIDE DEF y, n
  <2>5. SameRound(y, Retried(y))
    BY <2>4, RoundFields
  <2>6. Newer(node[n], Retried(y))
    BY <2>1, <2>3, <2>4, <2>5, <1>n DEF SameRound, Newer
  <2> QED BY <2>1, <2>2, <2>6, ForwardUpdate
<1>9. ASSUME NEW n \in Server, NEW e \in elected, HandleLeaderMessage(n, e)
      PROVE  Forward
  <2> DEFINE x == node[n]
  <2>1. PICK ok \in BOOLEAN :
           LET c == CheckStepDown(x, e.term, e.leader, ok) IN
           \/ Update(n, c)
           \/ Update(n, RenewLease(c, e.leader))
           \/ e.term < MaxTerm /\ Update(n, StepDown(c, e.term + 1, ok))
    BY <1>9, <1>o, Zenon DEF HandleLeaderMessage
  <2> DEFINE c == CheckStepDown(x, e.term, e.leader, ok)
             d == StepDown(x, e.term, ok)
  <2>2. e.leader \in Server /\ e.term \in Term /\ e.term \in Int /\ x \in Node
    BY <1>n DEF TypeOK, Term
  <2>3. c \in Node /\ d \in Node
    BY <2>2, VoterTypes, StepDownFacts
  <2>4. /\ Newer(x, x) /\ Newer(x, d) /\ Newer(x, SetLeader(x, e.leader))
        /\ Newer(x, SetLeader(d, e.leader))
    <3>1. Newer(x, x)
      BY <2>2 DEF Newer, Node, VoteCtx
    <3>2. SetLeader(d, e.leader) \in Node
      BY <2>2, <2>3, HelperTypes
    <3> HIDE DEF x
    <3>3. Newer(x, d)
      BY <2>2, NewerFacts
    <3> HIDE DEF d
    <3> QED BY <3>1, <3>2, <3>3, <2>2, <2>3, NewerFacts, NewerTwice
  <2>5. c \in {x, d, SetLeader(x, e.leader), SetLeader(d, e.leader)}
    BY DEF CheckStepDown
  <2>6. Newer(x, c)
    <3> HIDE DEF x, c, d
    <3> QED BY <2>4, <2>5
  <2>7. \/ Update(n, c)
        \/ Update(n, RenewLease(c, e.leader))
        \/ e.term < MaxTerm /\ Update(n, StepDown(c, e.term + 1, ok))
    BY <2>1
  <2> HIDE DEF c, d
  <2>8. Newer(x, RenewLease(c, e.leader))
    <3>1. RenewLease(c, e.leader) \in Node
      BY <2>2, <2>3, HelperTypes
    <3> QED BY <3>1, <2>2, <2>3, <2>6, NewerFacts, NewerTwice
  <2>9. e.term < MaxTerm => Newer(x, StepDown(c, e.term + 1, ok))
    <3>1. e.term < MaxTerm => e.term + 1 \in Term
      BY <2>2, BoundAssumption DEF Term
    <3>2. e.term < MaxTerm => StepDown(c, e.term + 1, ok) \in Node
      BY <3>1, <2>3, StepDownFacts
    <3> QED BY <3>2, <2>2, <2>3, <2>6, NewerFacts, NewerTwice
  <2> QED BY <2>6, <2>7, <2>8, <2>9, ForwardUpdate
<1>10. ASSUME NEW n \in Server, ServerStep(n)
       PROVE  Forward
  <2>1. CASE HandleGrantSelfTimedout(n)
    <3>1. Newer(node[n], node[n])
      BY <1>n DEF Newer
    <3> QED BY <2>1, <3>1, <1>n, GrantSelfForward DEF HandleGrantSelfTimedout
  <2>2. CASE HandleVoteTimeout(n)
    BY <2>2, <1>n, NewerFacts, ForwardUpdate DEF HandleVoteTimeout
  <2>3. ASSUME NEW t \in Term, IncreaseTermTo(n, t) PROVE Forward
    BY <2>3, <1>n, NewerFacts, ForwardUpdate DEF IncreaseTermTo
  <2>4. CASE HandleElectionTimeout(n)
    BY <2>4, <1>n, NewerFacts, ForwardUpdate DEF HandleElectionTimeout
  <2>5. CASE HandleStepdownTimeout(n)
    BY <2>5, <1>n, NewerFacts, ForwardUpdate DEF HandleStepdownTimeout
  <2>6. CASE TransferLeadership(n)
    BY <2>6, <1>n, NewerFacts, ForwardUpdate DEF TransferLeadership
  <2> QED BY <1>9, <1>10, <2>1, <2>2, <2>3, <2>4, <2>5, <2>6 DEF ServerStep
<1>11. ASSUME NEW n \in Server, OnError(n) \/ Shutdown(n) \/ ProcessStep(n),
              node' # node
       PROVE  Forward
  <2>1. CASE OnError(n) \/ Shutdown(n)
    <3> DEFINE d == StepDown(node[n], node[n].current_term, TRUE)
    <3>1. d \in Node /\ Newer(node[n], d)
      BY <1>n, StepDownFacts, NewerFacts DEF Node
    <3>2. PICK s \in {"ERROR", "SHUTTING"} : Update(n, SetState(d, s))
      BY <2>1 DEF OnError, Shutdown
    <3> HIDE DEF d
    <3>3. SetState(d, s) \in Node
      BY <3>1, HelperTypes DEF States
    <3>4. Newer(node[n], SetState(d, s))
      BY <3>1, <3>3, <1>n, NewerFacts, NewerTwice
    <3> QED BY <3>2, <3>4, ForwardUpdate
  <2>2. CASE Crash(n)
    BY <2>2, <1>n, NewerFacts, ForwardUpdate DEF Crash, Halt
  <2>3. ASSUME NEW e \in electing, e.node = n, CrashInElectSelf(e) PROVE Forward
    <3> DEFINE x == SetLastLogId(node[n], e.last)
    <3>1. e.last \in LogIds
      BY DEF TypeOK, ElectingType
    <3>2. x \in Node /\ Newer(node[n], x)
      <4>1. node[n] \in Node /\ SameRound(node[n], x)
        BY <3>1, <1>n, RoundFields
      <4> HIDE DEF x
      <4> QED BY <4>1, SameRoundNewer
    <3>3. Update(n, Stopped(x))
      BY <2>3 DEF CrashInElectSelf, Halt
    <3> HIDE DEF x
    <3>4. Newer(node[n], Stopped(x))
      BY <3>2, <1>n, NewerFacts, NewerTwice, ElectionTypes
    <3> QED BY <3>3, <3>4, ForwardUpdate
  <2>4. ASSUME NEW last \in LogIds, Restart(n, last) PROVE Forward
    <3>1. PICK m : Update(n, Started(node[n], m))
      BY <1>11, <2>4 DEF Restart
    <3> QED BY <3>1, <1>n, NewerFacts, ForwardUpdate
  <2> QED BY <1>11, <2>1, <2>2, <2>3, <2>4 DEF ProcessStep
<1>12. CASE node' # node
  <2>1. CASE VoteStep
    <3>1. \A e \in electing : ~ElectSelfAbandoned(e)
      BY <1>12 DEF ElectSelfAbandoned
    <3>2. \A r \in responses : ~DiscardVoteResponse(r)
      BY <1>12 DEF DiscardVoteResponse
    <3> QED BY <2>1, <3>1, <3>2, <1>3, <1>4, <1>5, <1>6, <1>7, <1>8, <1>12
            DEF VoteStep
  <2>2. /\ Faulty \subseteq Server /\ Crashing \subseteq Server
    BY BoundAssumption
  <2>3. ~UNCHANGED vars
    BY <1>12 DEF vars
  <2> QED BY <2>1, <2>2, <2>3, <1>2, <1>10, <1>11, <1>12 DEF Next
<1> QED BY <1>1, <1>12

-----------------------------------------------------------------------------
(* The theorems.                                                           *)

\* The group starts without votes, leaders or messages.
LEMMA InitInv == Init => ElectionInv
<1> SUFFICES ASSUME Init PROVE ElectionInv
  OBVIOUS
<1>1. /\ electing = {} /\ handling = {} /\ requests = {} /\ responses = {}
      /\ restarts = 0 /\ votes = {} /\ elected = {} /\ aborted = FALSE
  BY DEF Init
<1> DEFINE c == [version |-> 0, granted |-> {}, timer |-> FALSE,
                 last |-> NoLogId, disrupted |-> NoDisrupted, reserved |-> {}]
           x == [state |-> "FOLLOWER", current_term |-> 1, voted_id |-> NONE,
                 leader_id |-> NONE, last_leader |-> NONE, leased |-> FALSE,
                 meta |-> [term |-> 1, votedfor |-> NONE], vote_ctx |-> c]
<1>2. node = [n \in Server |-> x]
  BY DEF Init
<1>3. x \in Node
  <2>1. 1 \in Term
    BY BoundAssumption DEF Term
  <2>2. c \in VoteCtx
    <3>1. NoLogId \in LastLogId /\ NoDisrupted \in Disrupted
      BY DEF LastLogId, NoDisrupted, Disrupted
    <3> QED BY <3>1 DEF VoteCtx
  <2>3. "FOLLOWER" \in States
    BY DEF States, Active
  <2> HIDE DEF c
  <2> QED BY <2>1, <2>2, <2>3 DEF Node, Meta
<1>4. x.state = "FOLLOWER" /\ x.voted_id = NONE /\ x.leader_id = NONE
      /\ x.meta.term = 1 /\ x.meta.votedfor = NONE /\ x.current_term = 1
  OBVIOUS
<1> HIDE DEF x
<1>5. TypeOK
  <2>1. 0 \in 0..MaxRestarts /\ node \in [Server -> Node]
    BY <1>2, <1>3, BoundAssumption
  <2> QED BY <1>1, <2>1 DEF TypeOK
<1>6. NodeInv
  BY <1>2, <1>4, ServerAssumption DEF NodeInv, NodeOK, Leading
<1>7. FollowsElectedLeader
  BY <1>2, <1>4 DEF FollowsElectedLeader
<1> QED BY <1>1, <1>5, <1>6, <1>7
        DEF ElectionInv, VotesInv, ElectingInv, MessagesInv, ElectedInv,
            VoteOncePerTerm, ElectionSafety

\* Every step keeps the invariant.
LEMMA InvStep ==
    ASSUME "elect_self" \notin SaveMayFail, ElectionInv, [Next]_vars
    PROVE  ElectionInv'
<1>1. TypeOK'
  BY TypeStep DEF ElectionInv
<1>2. Forward
  BY <1>1, VersionsGrow DEF ElectionInv
<1>3. CASE UNCHANGED vars
  <2>1. MessagesInv' /\ ElectedInv' /\ ElectionSafety'
    BY <1>2, <1>3, FewerMessages, SameLeaders DEF vars
  <2>2. /\ NodeInv' /\ VotesInv' /\ ElectingInv' /\ VoteOncePerTerm'
        /\ FollowsElectedLeader'
    BY <1>3 DEF vars, ElectionInv, NodeInv, NodeOK, VotesInv, ElectingInv,
                VoteOncePerTerm, FollowsElectedLeader
  <2> QED BY <1>1, <2>1, <2>2 DEF ElectionInv
<1>4. CASE VoteStep
  <2>1. ASSUME NEW e \in electing, ElectSelfAbandoned(e) \/ ElectSelfResume(e)
        PROVE  ElectionInv'
    BY <1>1, <1>2, <2>1, DiscardSteps, ElectSelfResumeStep
  <2>2. ASSUME NEW r \in requests, NEW last \in LogIds,
               HandleRequestVoteRequest(r, last)
        PROVE  ElectionInv'
    BY <1>1, <1>2, <2>2, VoteRequestStep
  <2>3. ASSUME NEW h \in handling, HandleRequestVoteResume(h)
        PROVE  ElectionInv'
    BY <1>1, <1>2, <2>3, VoteResumeStep
  <2>4. ASSUME NEW r \in responses,
               \/ DiscardVoteResponse(r) \/ HigherTermVoteResponse(r)
               \/ GrantedVoteResponse(r) \/ LeaseRejectedVoteResponse(r)
        PROVE  ElectionInv'
    BY <1>1, <1>2, <2>4, DiscardSteps, HigherTermStep, GrantedStep,
       LeaseRejectedStep
  <2> QED BY <1>4, <2>1, <2>2, <2>3, <2>4 DEF VoteStep
<1>5. ASSUME NEW n \in Server, NEW last \in LogIds, NEW b \in BOOLEAN,
             ElectSelf(n, last, b)
      PROVE  ElectionInv'
  BY <1>1, <1>2, <1>5, ElectSelfStep
<1>6. ASSUME NEW n \in Server, ServerStep(n)
      PROVE  ElectionInv'
  BY <1>1, <1>2, <1>6, GrantSelfTimedoutStep, SimpleSteps, LeaderMessageStep
  DEF ServerStep
<1>7. ASSUME NEW n \in Server, OnError(n) \/ Shutdown(n) \/ ProcessStep(n)
      PROVE  ElectionInv'
  BY <1>1, <1>2, <1>7, SimpleSteps, CrashStep, CrashInElectSelfStep, RestartStep
  DEF ProcessStep
<1> QED BY <1>3, <1>4, <1>5, <1>6, <1>7, BoundAssumption DEF Next

\* Whatever fails, every part of every node keeps its type: terms stay within
\* the bound, the ballots and reserved peers are peers of the group.
THEOREM TypeCorrect == Spec => []TypeOK
<1>1. Init => TypeOK
  BY InitInv DEF ElectionInv
<1>2. TypeOK /\ [Next]_vars => TypeOK'
  BY TypeStep
<1> QED BY <1>1, <1>2, PTL DEF Spec

\* The inductive invariant, for a meta storage that does not refuse the vote
\* that elect_self saves (the saves of the other callers may all fail).
THEOREM Inductive ==
    ASSUME "elect_self" \notin SaveMayFail
    PROVE  Spec => []ElectionInv
<1>1. Init => ElectionInv
  BY InitInv
<1>2. ElectionInv /\ [Next]_vars => ElectionInv'
  BY InvStep
<1> QED BY <1>1, <1>2, PTL DEF Spec

\* become_leader happens once per term, for any group, joint or not, any logs,
\* any number of crashes and restarts, and vote RPCs lost or late for ever.
THEOREM OneLeaderPerTerm ==
    ASSUME "elect_self" \notin SaveMayFail
    PROVE  Spec => []ElectionSafety
<1>1. ElectionInv => ElectionSafety
  BY DEF ElectionInv
<1> QED BY <1>1, Inductive, PTL

\* handle_request_vote_request and elect_self make at most one vote of a term
\* durable at a server, whichever of the two comes first and however often the
\* process restarts.
THEOREM OneVotePerTerm ==
    ASSUME "elect_self" \notin SaveMayFail
    PROVE  Spec => []VoteOncePerTerm
<1>1. ElectionInv => VoteOncePerTerm
  BY DEF ElectionInv
<1> QED BY <1>1, Inductive, PTL

\* check_step_down and reset_leader_id record only a leader that has won the
\* node's term.
THEOREM LeaderIsElected ==
    ASSUME "elect_self" \notin SaveMayFail
    PROVE  Spec => []FollowsElectedLeader
<1>1. ElectionInv => FollowsElectedLeader
  BY DEF ElectionInv
<1> QED BY <1>1, Inductive, PTL

\* A leader's own vote is on disk before it leads, though elect_self asks for
\* the others' first.
THEOREM LeaderVoteIsDurable ==
    ASSUME "elect_self" \notin SaveMayFail
    PROVE  Spec => []LeaderVoteDurable
<1>1. ElectionInv => LeaderVoteDurable
  <2> SUFFICES ASSUME ElectionInv, NEW n \in Server, node[n].state \in Leading
               PROVE  node[n].meta = [term |-> node[n].current_term, votedfor |-> n]
    BY DEF LeaderVoteDurable
  <2>1. Vote(n, node[n].current_term, n) \in votes
    BY NodeFacts DEF NodeOK
  <2> QED BY <2>1, OwnVote
<1> QED BY <1>1, Inductive, PTL

-----------------------------------------------------------------------------
(* The CHECK of become_leader.                                             *)

\* The rounds that the messages of candidate n are of.
Messages == requests \union responses \union {h.req : h \in handling}
Rounds(n) == {r.version : r \in {q \in Messages : q.cand = n}}

\* A node in state x whose round has asked nobody for a vote; V are the rounds
\* of its messages.
Unasked(x, V) ==
    /\ x.vote_ctx.granted = {} /\ ~x.vote_ctx.timer
    /\ \A v \in V : v < x.vote_ctx.version

\* As long as an elect_self has not gone on in its term, its round has not begun,
\* also when its node is no candidate any more; a grant_self timer that is left
\* over meets no votes of others.
RoundOK(n) ==
    /\ \A v \in Rounds(n) : v <= node[n].vote_ctx.version
    /\ node[n].vote_ctx.timer /\ node[n].state # "CANDIDATE" =>
          node[n].vote_ctx.granted \subseteq {n}
    /\ \A e \in electing : e.node = n =>
          /\ node[n].state # "DOWN" /\ e.term <= node[n].current_term
          /\ e.term = node[n].current_term => Unasked(node[n], Rounds(n))
    /\ \A e, f \in electing : e.node = n /\ f.node = n /\ e.term = f.term => e = f
RoundInv == ~aborted /\ \A n \in Server : RoundOK(n)

\* A node goes from x to y without a new round, a new vote or a new timer.
Passing(x, y) ==
    /\ y.current_term >= x.current_term
    /\ y.vote_ctx.version >= x.vote_ctx.version
    /\ y.vote_ctx.granted = x.vote_ctx.granted
    /\ y.vote_ctx.timer => x.vote_ctx.timer
    /\ y.state = "DOWN" => x.state = "DOWN"
    /\ y.vote_ctx.timer /\ y.state # "CANDIDATE" => x.state # "CANDIDATE"

\* The numbers in the state of a node.
LEMMA NodeNumbers ==
    ASSUME NEW x \in Node
    PROVE  /\ x.current_term \in Int /\ x.vote_ctx.version \in Int
           /\ x.current_term \in Term /\ x.vote_ctx \in VoteCtx
           /\ x.vote_ctx.timer \in BOOLEAN
  BY DEF Node, VoteCtx, Term

\* A node that does not change, and one that changes in two steps.
LEMMA PassingTwice ==
    ASSUME NEW x \in Node, NEW y \in Node, NEW z \in Node
    PROVE  Passing(x, x) /\ (Passing(x, y) /\ Passing(y, z) => Passing(x, z))
<1>1. /\ x.current_term \in Int /\ x.vote_ctx.version \in Int
      /\ y.current_term \in Int /\ y.vote_ctx.version \in Int
      /\ z.current_term \in Int /\ z.vote_ctx.version \in Int
  BY NodeNumbers
<1> QED BY <1>1 DEF Passing

\* The helpers of NodeImpl that begin no round.
LEMMA PassingFacts ==
    ASSUME NEW x \in Node
    PROVE  /\ \A t \in Term, ok \in BOOLEAN : Passing(x, StepDown(x, t, ok))
           /\ \A l \in Server \union {NONE} :
                 Passing(x, SetLeader(x, l)) /\ Passing(x, RenewLease(x, l))
           /\ \A d : Passing(x, ExpireLease(x, d))
           /\ \A s \in States : s # "DOWN" /\ x.state # "CANDIDATE" =>
                 Passing(x, SetState(x, s))
           /\ \A c \in Server : Passing(x, SaveVote(x, c))
           /\ Passing(x, ResetVote(x))
           /\ \A y : SameRound(x, y) => Passing(x, y)
<1>0. x.current_term \in Int /\ x.vote_ctx.version \in Int
  BY NodeNumbers
<1>1. ASSUME NEW t \in Term, NEW ok \in BOOLEAN PROVE Passing(x, StepDown(x, t, ok))
  <2> DEFINE y == StepDown(x, t, ok)
  <2> SUFFICES Passing(x, y)
    OBVIOUS
  <2>0. t \in Int
    BY DEF Term
  <2>s. Passing(x, x)
    BY PassingTwice
  <2>1. CASE x.state \notin Active
    <3>1. y = x
      BY <2>1 DEF StepDown
    <3> HIDE DEF y
    <3> QED BY <3>1, <2>s
  <2>2. CASE x.state \in Active
    <3>1. /\ y.state = "FOLLOWER"
          /\ y.current_term = IF t > x.current_term THEN t ELSE x.current_term
          /\ y.vote_ctx = IF x.state = "CANDIDATE" THEN CtxReset(x.vote_ctx)
                          ELSE x.vote_ctx
      BY <2>2 DEF StepDown, Node
    <3>2. /\ CtxReset(x.vote_ctx).granted = x.vote_ctx.granted
          /\ CtxReset(x.vote_ctx).version = x.vote_ctx.version + 1
          /\ CtxReset(x.vote_ctx).timer = FALSE
      BY DEF CtxReset
    <3> HIDE DEF y
    <3>3. /\ y.current_term >= x.current_term
          /\ y.vote_ctx.version >= x.vote_ctx.version
          /\ y.vote_ctx.granted = x.vote_ctx.granted
      BY <1>0, <2>0, <3>1, <3>2
    <3>4. y.vote_ctx.timer => x.vote_ctx.timer /\ x.state # "CANDIDATE"
      BY <3>1, <3>2
    <3> QED BY <3>1, <3>3, <3>4, Zenon DEF Passing
  <2> QED BY <2>1, <2>2
<1>2. ASSUME NEW y, y.current_term = x.current_term, y.vote_ctx = x.vote_ctx,
             y.state = x.state
      PROVE  Passing(x, y)
  <2>1. /\ y.current_term >= x.current_term
        /\ y.vote_ctx.version >= x.vote_ctx.version
    BY <1>0, <1>2
  <2>2. y.vote_ctx.granted = x.vote_ctx.granted /\ y.vote_ctx.timer = x.vote_ctx.timer
    BY <1>2
  <2> QED BY <1>2, <2>1, <2>2, Zenon DEF Passing
<1>3. ASSUME NEW l \in Server \union {NONE}
      PROVE  Passing(x, SetLeader(x, l)) /\ Passing(x, RenewLease(x, l))
  <2>1. \A y \in {SetLeader(x, l), RenewLease(x, l)} :
           /\ y.current_term = x.current_term /\ y.vote_ctx = x.vote_ctx
           /\ y.state = x.state
    BY DEF SetLeader, RenewLease, Node
  <2> QED BY <2>1, <1>2
<1>4. ASSUME NEW d PROVE Passing(x, ExpireLease(x, d))
  <2>1. LET y == ExpireLease(x, d) IN
           /\ y.current_term = x.current_term /\ y.vote_ctx = x.vote_ctx
           /\ y.state = x.state
    BY DEF ExpireLease, Node
  <2> QED BY <2>1, <1>2
<1>5. ASSUME NEW s \in States, s # "DOWN", x.state # "CANDIDATE"
      PROVE  Passing(x, SetState(x, s))
  <2>1. LET y == SetState(x, s) IN
           /\ y.current_term = x.current_term /\ y.vote_ctx = x.vote_ctx
           /\ y.state = s
    BY DEF SetState, Node
  <2> QED BY <2>1, <1>0, <1>5 DEF Passing
<1>6. ASSUME NEW c \in Server PROVE Passing(x, SaveVote(x, c))
  <2>1. LET y == SaveVote(x, c) IN
           /\ y.current_term = x.current_term /\ y.vote_ctx = x.vote_ctx
           /\ y.state = x.state
    BY DEF SaveVote, Node
  <2> QED BY <2>1, <1>2
<1>7. Passing(x, ResetVote(x))
  <2>1. LET y == ResetVote(x) IN
           /\ y.current_term = x.current_term /\ y.vote_ctx = x.vote_ctx
           /\ y.state = x.state
    BY DEF ResetVote, Node
  <2> QED BY <2>1, <1>2
<1>8. ASSUME NEW y, SameRound(x, y) PROVE Passing(x, y)
  BY <1>0, <1>8 DEF SameRound, Passing
<1> QED BY <1>1, <1>3, <1>4, <1>5, <1>6, <1>7, <1>8

\* Messages that carry the rounds of messages there have been.
LEMMA RoundsStay ==
    ASSUME \A r \in Messages' : \E q \in Messages : q.cand = r.cand /\ q.version = r.version
    PROVE  \A p : Rounds(p)' \subseteq Rounds(p)
  BY DEF Rounds

\* Messages that are lost or taken.
LEMMA RoundsFewer ==
    ASSUME requests' \subseteq requests, responses' \subseteq responses,
           handling' \subseteq handling
    PROVE  \A p : Rounds(p)' \subseteq Rounds(p)
<1>1. Messages' \subseteq Messages
  BY DEF Messages
<1> QED BY <1>1, RoundsStay

\* The types of the parts.
LEMMA RoundTypes ==
    ASSUME TypeOK
    PROVE  /\ \A p \in Server : node[p] \in Node
           /\ \A p \in Server : Rounds(p) \subseteq Nat
           /\ \A e \in electing : e.node \in Server /\ e.term \in Int /\ e.last \in LogIds
<1>1. \A r \in Messages : r.version \in Nat
  <2>1. \A h \in handling : h.req \in RequestType
    BY DEF TypeOK, HandlingType
  <2>2. \A r \in requests : r \in RequestType
    BY DEF TypeOK
  <2>3. \A r \in responses : r \in ResponseType
    BY DEF TypeOK
  <2> QED BY <2>1, <2>2, <2>3 DEF Messages, RequestType, ResponseType
<1> QED BY <1>1 DEF TypeOK, Rounds, ElectingType, Term

\* A step that begins no round keeps the invariant.
LEMMA PassingKeeps ==
    ASSUME TypeOK, TypeOK', RoundInv, \A p \in Server : Passing(node[p], node'[p]),
           electing' \subseteq electing, aborted' = aborted,
           \A p : Rounds(p)' \subseteq Rounds(p)
    PROVE  RoundInv'
<1> SUFFICES ASSUME NEW p \in Server PROVE RoundOK(p)'
  BY DEF RoundInv
<1> DEFINE x == node[p]
           y == node'[p]
<1>1. x \in Node /\ y \in Node /\ Passing(x, y) /\ RoundOK(p)
  BY RoundTypes DEF RoundInv, TypeOK
<1>2. /\ x.current_term \in Int /\ x.vote_ctx.version \in Int
      /\ y.current_term \in Int /\ y.vote_ctx.version \in Int
  BY <1>1, NodeNumbers
<1>3. \A v \in Rounds(p)' : v \in Rounds(p) /\ v \in Int
  BY RoundTypes
<1>4. \A v \in Rounds(p)' : v <= y.vote_ctx.version
  BY <1>1, <1>2, <1>3 DEF RoundOK, Passing
<1>5. y.vote_ctx.timer /\ y.state # "CANDIDATE" => y.vote_ctx.granted \subseteq {p}
  BY <1>1 DEF RoundOK, Passing
<1>6. ASSUME NEW e \in electing', e.node = p
      PROVE  /\ y.state # "DOWN" /\ e.term <= y.current_term
             /\ e.term = y.current_term => Unasked(y, Rounds(p)')
  <2>1. e \in electing /\ e.term \in Int
    BY RoundTypes
  <2>2. /\ x.state # "DOWN" /\ e.term <= x.current_term
        /\ e.term = x.current_term => Unasked(x, Rounds(p))
    BY <1>1, <1>6, <2>1 DEF RoundOK
  <2>3. y.state # "DOWN" /\ e.term <= y.current_term
    BY <1>1, <1>2, <2>1, <2>2 DEF Passing
  <2>4. ASSUME e.term = y.current_term PROVE Unasked(y, Rounds(p)')
    <3>1. Unasked(x, Rounds(p))
      BY <1>1, <1>2, <2>1, <2>2, <2>4 DEF Passing
    <3>2. y.vote_ctx.granted = {} /\ ~y.vote_ctx.timer
      BY <1>1, <3>1 DEF Passing, Unasked
    <3>3. \A v \in Rounds(p)' : v < y.vote_ctx.version
      BY <1>1, <1>2, <1>3, <3>1 DEF Passing, Unasked
    <3> QED BY <3>2, <3>3 DEF Unasked
  <2> QED BY <2>3, <2>4
<1>7. \A e, f \in electing' : e.node = p /\ f.node = p /\ e.term = f.term => e = f
  BY <1>1 DEF RoundOK
<1> QED BY <1>4, <1>5, <1>6, <1>7 DEF RoundOK

\* A step that changes one node.
LEMMA PassingUpdate ==
    ASSUME TypeOK, NEW n \in Server, NEW y, Update(n, y), Passing(node[n], y)
    PROVE  \A p \in Server : Passing(node[p], node'[p])
<1>1. /\ node'[n] = y
      /\ \A p \in Server : node[p] \in Node /\ (p # n => node'[p] = node[p])
  BY DEF Update, TypeOK
<1> QED BY <1>1, PassingTwice

\* A step of which only what it does to node n, and to its messages and calls,
\* matters.
LEMMA RoundUpdate ==
    ASSUME TypeOK, TypeOK', RoundInv, NEW n \in Server, NEW y, Update(n, y), ~aborted',
           \A e \in electing' : e.node # n => e \in electing,
           \A p : p # n => Rounds(p)' \subseteq Rounds(p),
           RoundOK(n)'
    PROVE  RoundInv'
<1> SUFFICES ASSUME NEW p \in Server, p # n PROVE RoundOK(p)'
  BY DEF RoundInv
<1>1. node'[p] = node[p] /\ RoundOK(p)
  BY DEF Update, TypeOK, RoundInv
<1>2. \A v \in Rounds(p)' : v \in Rounds(p)
  OBVIOUS
<1>3. Unasked(node[p], Rounds(p)) => Unasked(node'[p], Rounds(p)')
  BY <1>1, <1>2 DEF Unasked
<1> QED BY <1>1, <1>2, <1>3 DEF RoundOK

\* A step after which every suspended elect_self of node n is of an old term.
LEMMA LateRound ==
    ASSUME TypeOK, TypeOK', RoundInv, NEW n \in Server, NEW y, Update(n, y), ~aborted',
           \A e \in electing' : e \in electing /\
              (e.node = n => y.state # "DOWN" /\ e.term < y.current_term),
           y.vote_ctx.timer /\ y.state # "CANDIDATE" => y.vote_ctx.granted \subseteq {n},
           \A v \in Rounds(n)' : v <= y.vote_ctx.version,
           \A p : p # n => Rounds(p)' \subseteq Rounds(p)
    PROVE  RoundInv'
<1>1. node'[n] = y /\ y \in Node
  BY DEF Update, TypeOK
<1>2. y.current_term \in Int
  BY <1>1, NodeNumbers
<1>3. \A e \in electing' : e.node = n =>
         /\ y.state # "DOWN" /\ e.term <= y.current_term
         /\ e.term = y.current_term => Unasked(y, Rounds(n)')
  BY <1>2, RoundTypes
<1>4. \A e, f \in electing' : e.node = n /\ f.node = n /\ e.term = f.term => e = f
  BY DEF RoundInv, RoundOK
<1>5. RoundOK(n)'
  BY <1>1, <1>3, <1>4, Zenon DEF RoundOK
<1> QED BY <1>5, RoundUpdate

\* An elect_self that is not of the current term is of an older one.
LEMMA OlderCall ==
    ASSUME TypeOK, RoundInv, NEW n \in Server
    PROVE  \A e \in electing : e.node = n /\ e.term # node[n].current_term =>
              node[n].state # "DOWN" /\ e.term < node[n].current_term
<1>1. node[n].current_term \in Int
  BY NodeNumbers, RoundTypes
<1> QED BY <1>1, RoundTypes DEF RoundInv, RoundOK

\* New requests of a candidate, all of one round.
LEMMA RoundsAdded ==
    ASSUME NEW n, NEW v, NEW R, \A q \in R : q.cand = n /\ q.version = v,
           requests' \subseteq requests \union R,
           responses' \subseteq responses, handling' \subseteq handling
    PROVE  /\ \A p : p # n => Rounds(p)' \subseteq Rounds(p)
           /\ Rounds(n)' \subseteq Rounds(n) \union {v}
<1>1. \A r \in Messages' : r \in Messages \/ r \in R
  BY DEF Messages
<1> QED BY <1>1 DEF Rounds

\* An answer, or a call that is suspended, is of its request's round.
LEMMA RoundsAnswered ==
    ASSUME NEW r \in Messages, requests' \subseteq requests,
           \A q \in responses' : q \in responses \/ (q.cand = r.cand /\ q.version = r.version),
           \A h \in handling' : h \in handling \/ h.req = r
    PROVE  \A p : Rounds(p)' \subseteq Rounds(p)
<1>1. ASSUME NEW m \in Messages'
      PROVE  \E q \in Messages : q.cand = m.cand /\ q.version = m.version
  <2>1. CASE m \in requests'
    BY <2>1 DEF Messages
  <2>2. CASE m \in responses'
    BY <2>2 DEF Messages
  <2>3. CASE m \in {h.req : h \in handling'}
    BY <2>3 DEF Messages
  <2> QED BY <2>1, <2>2, <2>3 DEF Messages
<1> QED BY <1>1, RoundsStay

\* The process of node n stops, without a failed CHECK.
LEMMA HaltRound ==
    ASSUME TypeOK, TypeOK', RoundInv, NEW n \in Server, NEW x \in Node,
           x.vote_ctx.version = node[n].vote_ctx.version, Halt(n, x, electing), ~aborted',
           Rounds(n)' \subseteq Rounds(n) \union {x.vote_ctx.version},
           \A p : p # n => Rounds(p)' \subseteq Rounds(p)
    PROVE  RoundInv'
<1> DEFINE y == Stopped(x)
<1>1. /\ y.vote_ctx.version = x.vote_ctx.version + 1 /\ ~y.vote_ctx.timer
      /\ Update(n, y) /\ electing' = {e \in electing : e.node # n}
  BY DEF Stopped, CtxInit, Halt
<1>2. /\ x.vote_ctx.version \in Int /\ Rounds(n) \subseteq Int
      /\ \A v \in Rounds(n) : v <= x.vote_ctx.version
  BY NodeNumbers, RoundTypes DEF RoundInv, RoundOK
<1> HIDE DEF y
<1>3. \A v \in Rounds(n)' : v <= y.vote_ctx.version
  BY <1>1, <1>2
<1> QED BY <1>1, <1>3, LateRound

\* grant_self of a group that no single server is a majority of: the node's own
\* vote alone elects nobody, and another's reaches only a candidate.
LEMMA GrantSelfRound ==
    ASSUME TypeOK, TypeOK', RoundInv, \A m \in Server : ~IsGranted({m}),
           NEW n \in Server, NEW x \in Node,
           x.current_term = node[n].current_term, x.state = node[n].state,
           x.vote_ctx.version = node[n].vote_ctx.version,
           x.state # "CANDIDATE" => x.vote_ctx.granted \subseteq {n},
           NEW el \in SUBSET electing,
           \A e \in el : e.node = n => e.term # x.current_term,
           GrantSelf(n, x, el),
           Rounds(n)' \subseteq Rounds(n) \union {x.vote_ctx.version},
           \A p : p # n => Rounds(p)' \subseteq Rounds(p)
    PROVE  RoundInv'
<1> DEFINE g == GrantOwn(x, n)
           s == StartGrantSelfTimer(x)
           b == BecomeLeader(n, g)
<1>1. /\ g \in Node /\ g.current_term = x.current_term /\ g.state = x.state
      /\ s \in Node /\ s.current_term = x.current_term /\ s.state = x.state
      /\ g.vote_ctx.granted = x.vote_ctx.granted \union {n}
      /\ g.vote_ctx.timer = FALSE /\ s.vote_ctx.granted = x.vote_ctx.granted
  BY OwnGrantFields
<1>2. /\ g.vote_ctx.version = x.vote_ctx.version
      /\ s.vote_ctx.version = x.vote_ctx.version
  BY DEF GrantOwn, StartGrantSelfTimer, Node, VoteCtx
<1>3. /\ x.vote_ctx.version \in Int /\ Rounds(n) \subseteq Int
      /\ \A v \in Rounds(n) : v <= x.vote_ctx.version
  BY NodeNumbers, RoundTypes DEF RoundInv, RoundOK
<1>4. \A v \in Rounds(n)' : v <= x.vote_ctx.version /\ v <= x.vote_ctx.version + 1
  BY <1>3
<1>5. \A e \in el : e \in electing /\
         (e.node = n => x.state # "DOWN" /\ e.term < x.current_term)
  BY OlderCall
<1>6. ~aborted
  BY DEF RoundInv
<1>7. /\ b.current_term = g.current_term /\ b.state = "LEADER"
      /\ b.vote_ctx.version = g.vote_ctx.version + 1 /\ b.vote_ctx.timer = FALSE
  BY <1>1 DEF BecomeLeader, CtxReset, Node
<1>8. \/ Update(n, s) /\ electing' = el /\ aborted' = aborted
      \/ Update(n, g) /\ electing' = el /\ aborted' = aborted
      \/ Update(n, b) /\ electing' = el /\ aborted' = aborted
      \/ IsGranted(g.vote_ctx.granted) /\ g.state # "CANDIDATE"
  BY Zenon DEF GrantSelf, AfterGrant
<1> HIDE DEF g, s, b
<1>9. ~(IsGranted(g.vote_ctx.granted) /\ g.state # "CANDIDATE")
  <2> SUFFICES ASSUME g.state # "CANDIDATE" PROVE ~IsGranted(g.vote_ctx.granted)
    OBVIOUS
  <2>1. g.vote_ctx.granted = {n}
    BY <1>1
  <2> QED BY <2>1
<1>10. CASE Update(n, s) /\ electing' = el /\ aborted' = aborted
  <2>1. s.vote_ctx.timer /\ s.state # "CANDIDATE" => s.vote_ctx.granted \subseteq {n}
    BY <1>1
  <2> QED BY <1>1, <1>2, <1>4, <1>5, <1>6, <1>10, <2>1, LateRound
<1>11. CASE Update(n, g) /\ electing' = el /\ aborted' = aborted
  <2>1. g.vote_ctx.timer /\ g.state # "CANDIDATE" => g.vote_ctx.granted \subseteq {n}
    BY <1>1
  <2> QED BY <1>1, <1>2, <1>4, <1>5, <1>6, <1>11, <2>1, LateRound
<1>12. CASE Update(n, b) /\ electing' = el /\ aborted' = aborted
  <2>1. b.vote_ctx.timer /\ b.state # "CANDIDATE" => b.vote_ctx.granted \subseteq {n}
    BY <1>7
  <2>2. \A v \in Rounds(n)' : v <= b.vote_ctx.version
    BY <1>2, <1>4, <1>7
  <2>3. \A e \in electing' : e \in electing /\
         (e.node = n => b.state # "DOWN" /\ e.term < b.current_term)
    BY <1>1, <1>5, <1>7, <1>12
  <2> QED BY <1>6, <1>12, <2>1, <2>2, <2>3, LateRound
<1> QED BY <1>8, <1>9, <1>10, <1>11, <1>12

\* elect_self up to the unlock: a new round of a new term.
LEMMA ElectSelfRound ==
    ASSUME TypeOK, TypeOK', RoundInv, NEW n \in Server, NEW last \in LogIds,
           NEW b \in BOOLEAN, ElectSelf(n, last, b)
    PROVE  RoundInv'
<1> DEFINE x == node[n]
           y == Candidate(n, x, b)
           c == [node |-> n, term |-> x.current_term + 1, last |-> last]
<1>1. x \in Node /\ x.vote_ctx \in VoteCtx /\ x.current_term \in Int
      /\ x.vote_ctx.version \in Int
  BY RoundTypes, NodeNumbers
<1>2. /\ y.current_term = x.current_term + 1 /\ y.state = "CANDIDATE"
      /\ y.vote_ctx.version = x.vote_ctx.version + 1
      /\ y.vote_ctx.granted = {} /\ ~y.vote_ctx.timer
  BY <1>1 DEF Candidate, CtxInit, Node
<1>3. /\ Update(n, y) /\ electing' = electing \union {c}
      /\ c.node = n /\ c.term = x.current_term + 1
      /\ UNCHANGED <<handling, requests, responses, aborted>>
  BY DEF ElectSelf
<1>4. node'[n] = y
  BY <1>3 DEF Update, TypeOK
<1> HIDE DEF y, c
<1>5. \A p : Rounds(p)' \subseteq Rounds(p)
  BY <1>3, RoundsFewer
<1>6. RoundOK(n) /\ Rounds(n) \subseteq Int
  BY RoundTypes DEF RoundInv
<1>7. \A v \in Rounds(n)' : v < y.vote_ctx.version /\ v <= y.vote_ctx.version
  <2>1. \A v \in Rounds(n)' : v \in Int /\ v <= x.vote_ctx.version
    BY <1>5, <1>6 DEF RoundOK
  <2> QED BY <1>1, <1>2, <2>1
<1>8. \A e \in electing : e.node = n => e.term \in Int /\ e.term <= x.current_term
  BY <1>6, RoundTypes DEF RoundOK
<1>9. ASSUME NEW e \in electing', e.node = n
      PROVE  /\ y.state # "DOWN" /\ e.term <= y.current_term
             /\ e.term = y.current_term => Unasked(y, Rounds(n)')
  <2>1. e.term <= y.current_term
    BY <1>1, <1>2, <1>3, <1>8, <1>9
  <2>2. Unasked(y, Rounds(n)')
    BY <1>2, <1>7 DEF Unasked
  <2> QED BY <1>2, <2>1, <2>2
<1>10. ASSUME NEW e \in electing', NEW f \in electing', e.node = n, f.node = n,
              e.term = f.term
       PROVE  e = f
  <2>1. CASE e \in electing /\ f \in electing
    BY <1>6, <1>10, <2>1 DEF RoundOK
  <2>2. \A d \in electing : d.node = n => d.term # c.term
    BY <1>1, <1>3, <1>8
  <2> QED BY <1>3, <1>10, <2>1, <2>2
<1>11. RoundOK(n)'
  BY <1>2, <1>4, <1>7, <1>9, <1>10, Zenon DEF RoundOK
<1>12. ~aborted' /\ \A e \in electing' : e.node # n => e \in electing
  BY <1>3 DEF RoundInv
<1> QED BY <1>3, <1>5, <1>11, <1>12, RoundUpdate

\* elect_self after the lock: the requests are of the round that begins, and
\* the node's own vote is all that it has.
LEMMA ResumeRound ==
    ASSUME TypeOK, TypeOK', RoundInv, \A m \in Server : ~IsGranted({m}),
           NEW e \in electing, NEW n \in Server, e.node = n, ElectSelfResume(e)
    PROVE  RoundInv'
<1> DEFINE x == SetLastLogId(node[n], e.last)
           w == SaveVote(x, n)
           u == ResetVote(x)
           el == electing \ {e}
<1>1. n \in Server /\ e.last \in LogIds /\ node[n] \in Node
  BY DEF TypeOK, ElectingType
<1>2. x \in Node /\ SameRound(node[n], x)
  <2> HIDE DEF x
  <2> QED BY <1>1, RoundFields DEF SameRound, x
<1>3. /\ e.term = x.current_term
      /\ requests' = requests \union VoteRequests(n, x, Server)
      /\ \/ GrantSelf(n, w, el)
         \/ Update(n, u) /\ electing' = el /\ UNCHANGED <<handling, responses, aborted>>
  BY DEF ElectSelfResume
<1>4. x.current_term = node[n].current_term /\ x.state = node[n].state
      /\ x.vote_ctx.version = node[n].vote_ctx.version
      /\ x.vote_ctx.granted = node[n].vote_ctx.granted
      /\ x.vote_ctx.timer = node[n].vote_ctx.timer
  BY <1>2 DEF SameRound
<1>5. /\ \A q \in VoteRequests(n, x, Server) :
            q.cand = n /\ q.version = x.vote_ctx.version
      /\ responses' \subseteq responses /\ handling' \subseteq handling
  <2>1. responses' \subseteq responses /\ handling' \subseteq handling
    BY <1>3 DEF GrantSelf, AfterGrant, Halt
  <2> QED BY <2>1, RequestFields
<1> HIDE DEF x
<1>6. /\ w \in Node /\ w.current_term = x.current_term /\ w.state = x.state
      /\ w.vote_ctx = x.vote_ctx
      /\ u.current_term = x.current_term /\ u.state = x.state
      /\ u.vote_ctx = x.vote_ctx
  <2>1. w \in Node
    BY <1>1, <1>2, HelperTypes
  <2> QED BY <1>2, <2>1 DEF SaveVote, ResetVote, Node
<1> HIDE DEF w, u
<1>7. Unasked(node[n], Rounds(n)) /\ Rounds(n) \subseteq Int
      /\ \A f \in electing : f.node = n /\ f.term = e.term => f = e
  BY <1>1, <1>3, <1>4, RoundTypes DEF RoundInv, RoundOK
<1>8. x.vote_ctx.granted = {} /\ ~x.vote_ctx.timer
  BY <1>4, <1>7 DEF Unasked
<1>9. /\ \A p : p # n => Rounds(p)' \subseteq Rounds(p)
      /\ Rounds(n)' \subseteq Rounds(n) \union {x.vote_ctx.version}
  <2> DEFINE R == VoteRequests(n, x, Server)
             v == x.vote_ctx.version
  <2>1. /\ \A q \in R : q.cand = n /\ q.version = v
        /\ requests' \subseteq requests \union R
        /\ responses' \subseteq responses /\ handling' \subseteq handling
    BY <1>3, <1>5
  <2> HIDE DEF R, v
  <2>2. /\ \A p : p # n => Rounds(p)' \subseteq Rounds(p)
        /\ Rounds(n)' \subseteq Rounds(n) \union {v}
    BY <2>1, RoundsAdded
  <2> QED BY <2>2 DEF v
<1>10. \A f \in el : f \in electing /\
          (f.node = n => f.term # x.current_term /\ x.state # "DOWN"
                         /\ f.term < x.current_term)
  BY <1>1, <1>3, <1>4, <1>7, OlderCall
<1> HIDE DEF el
<1>11. CASE GrantSelf(n, w, el)
  <2>1. w.vote_ctx.granted \subseteq {n}
    BY <1>6, <1>8
  <2>2. el \in SUBSET electing
    BY <1>10
  <2>3. \A f \in el : f.node = n => f.term # w.current_term
    BY <1>6, <1>10
  <2> QED BY <1>1, <1>4, <1>6, <1>9, <1>11, <2>1, <2>2, <2>3, GrantSelfRound
<1>12. CASE Update(n, u) /\ electing' = el /\ aborted' = aborted
  <2>1. ~aborted' /\ ~u.vote_ctx.timer
    BY <1>6, <1>8, <1>12 DEF RoundInv
  <2>2. \A v \in Rounds(n)' : v <= u.vote_ctx.version
    <3>1. x.vote_ctx.version \in Int /\ \A v \in Rounds(n) : v <= x.vote_ctx.version
      BY <1>1, <1>2, <1>4, NodeNumbers DEF RoundInv, RoundOK
    <3> QED BY <1>6, <1>9, <3>1
  <2>3. \A f \in electing' : f \in electing /\
           (f.node = n => u.state # "DOWN" /\ f.term < u.current_term)
    BY <1>6, <1>10, <1>12
  <2> QED BY <1>1, <1>9, <1>12, <2>1, <2>2, <2>3, LateRound
<1> QED BY <1>3, <1>11, <1>12

\* The grant_self timer runs out: elect_self has gone on in this term.
LEMMA TimedoutRound ==
    ASSUME TypeOK, TypeOK', RoundInv, \A m \in Server : ~IsGranted({m}),
           NEW n \in Server, HandleGrantSelfTimedout(n)
    PROVE  RoundInv'
<1> DEFINE x == node[n]
<1>1. x \in Node /\ RoundOK(n)
  BY RoundTypes DEF RoundInv
<1>2. x.vote_ctx.timer /\ GrantSelf(n, x, electing) /\ UNCHANGED requests
  BY DEF HandleGrantSelfTimedout
<1>3. x.state # "CANDIDATE" => x.vote_ctx.granted \subseteq {n}
  BY <1>1, <1>2 DEF RoundOK
<1>4. \A e \in electing : e.node = n => e.term # x.current_term
  BY <1>1, <1>2 DEF RoundOK, Unasked
<1>5. responses' \subseteq responses /\ handling' \subseteq handling
  BY <1>2 DEF GrantSelf, AfterGrant, Halt
<1>6. \A p : Rounds(p)' \subseteq Rounds(p)
  BY <1>2, <1>5, RoundsFewer
<1> QED BY <1>1, <1>2, <1>3, <1>4, <1>6, GrantSelfRound

\* An answer that counts: the round has begun, so no elect_self of its term is
\* suspended any more.
LEMMA AnswerRound ==
    ASSUME TypeOK, TypeOK', RoundInv,
           NEW r \in responses, GrantedVoteResponse(r) \/ LeaseRejectedVoteResponse(r)
    PROVE  RoundInv'
<1> DEFINE n == r.cand
           x == Learned(node[n], r)
           g == Grant(x, r.peer)
           y == IF r.peer = x.last_leader THEN GrantOwn(g, n) ELSE g
           z == Reserve(x, r.peer)
<1>1. /\ n \in Server /\ r.peer \in Server /\ r \in ResponseType
      /\ node[n] \in Node /\ RoundOK(n)
  BY DEF TypeOK, ResponseType, RoundInv
<1>2. x \in Node /\ SameRound(node[n], x)
  <2> HIDE DEF n, x
  <2> QED BY <1>1, RoundFields DEF SameRound, x
<1>3. /\ Expected(r, x) /\ responses' \subseteq responses
      /\ UNCHANGED <<electing, handling, aborted>>
      /\ \/ Update(n, BecomeLeader(n, y)) /\ UNCHANGED requests
         \/ Update(n, Retried(y)) /\ requests' = requests \union RetryRequests(n, y)
         \/ Update(n, Retried(z)) /\ requests' = requests \union RetryRequests(n, z)
  BY DEF GrantedVoteResponse, LeaseRejectedVoteResponse
<1>4. x.current_term = node[n].current_term /\ x.state = "CANDIDATE"
      /\ x.vote_ctx.version = node[n].vote_ctx.version
      /\ r.version = x.vote_ctx.version
  BY <1>2, <1>3 DEF SameRound, Expected
<1>5. r.version \in Rounds(n)
  BY DEF Rounds, Messages
<1> HIDE DEF n, x
<1>6. /\ g \in Node /\ g.current_term = x.current_term /\ g.state = x.state
      /\ g.vote_ctx.version = x.vote_ctx.version
  <2>1. g \in Node
    BY <1>1, <1>2, HelperTypes
  <2> QED BY <1>2, <2>1 DEF Grant, Node, VoteCtx
<1> HIDE DEF g
<1>7. /\ GrantOwn(g, n) \in Node /\ GrantOwn(g, n).current_term = g.current_term
      /\ GrantOwn(g, n).state = g.state
      /\ GrantOwn(g, n).vote_ctx.version = g.vote_ctx.version
  <2>1. GrantOwn(g, n) \in Node
    BY <1>1, <1>6, HelperTypes
  <2> QED BY <1>6, <2>1 DEF GrantOwn, Node, VoteCtx
<1>8. /\ y \in Node /\ y.current_term = x.current_term /\ y.state = "CANDIDATE"
      /\ y.vote_ctx.version = x.vote_ctx.version
  BY <1>4, <1>6, <1>7
<1>9. /\ z \in Node /\ z.current_term = x.current_term /\ z.state = "CANDIDATE"
      /\ z.vote_ctx.version = x.vote_ctx.version
  <2>1. SameRound(x, z)
    BY <1>1, <1>2, RoundFields
  <2> QED BY <1>4, <2>1 DEF SameRound
<1> HIDE DEF y, z
<1>10. \A e \in electing : e.node = n => node[n].state # "DOWN" /\ e.term < x.current_term
  <2>1. x.vote_ctx.version \in Int
    BY <1>2, NodeNumbers
  <2>2. ~ Unasked(node[n], Rounds(n))
    BY <1>4, <1>5, <2>1 DEF Unasked
  <2> QED BY <1>1, <1>4, <2>2, OlderCall DEF RoundOK
<1>11. x.vote_ctx.version \in Int /\ \A v \in Rounds(n) : v \in Int /\ v <= x.vote_ctx.version
  BY <1>1, <1>2, <1>4, NodeNumbers, RoundTypes DEF RoundOK
<1>12. ~aborted'
  BY <1>3 DEF RoundInv
<1>13. CASE Update(n, BecomeLeader(n, y)) /\ UNCHANGED requests
  <2> DEFINE b == BecomeLeader(n, y)
  <2>1. /\ b.current_term = y.current_term /\ b.state = "LEADER"
        /\ b.vote_ctx.version = y.vote_ctx.version + 1 /\ b.vote_ctx.timer = FALSE
    BY <1>8 DEF BecomeLeader, CtxReset, Node
  <2>2. \A p : Rounds(p)' \subseteq Rounds(p)
    BY <1>3, <1>13, RoundsFewer
  <2> HIDE DEF b
  <2>3. \A v \in Rounds(n)' : v <= b.vote_ctx.version
    BY <1>8, <1>11, <2>1, <2>2
  <2>4. \A e \in electing' : e \in electing /\
           (e.node = n => b.state # "DOWN" /\ e.term < b.current_term)
    BY <1>3, <1>8, <1>10, <2>1
  <2>5. Update(n, b)
    BY <1>13 DEF b
  <2> QED BY <1>1, <1>12, <2>1, <2>2, <2>3, <2>4, <2>5, LateRound
<1>14. ASSUME NEW w \in Node, w.current_term = x.current_term, w.state = "CANDIDATE",
              w.vote_ctx.version = x.vote_ctx.version,
              Update(n, Retried(w)), requests' = requests \union RetryRequests(n, w)
       PROVE  RoundInv'
  <2> DEFINE b == Retried(w)
             R == RetryRequests(n, w)
             v == x.vote_ctx.version
  <2>1. b.current_term = w.current_term /\ b.state = w.state /\ b.vote_ctx.version = v
    <3>1. SameRound(w, b)
      BY <1>14, RoundFields
    <3> HIDE DEF b
    <3> QED BY <1>14, <3>1 DEF SameRound
  <2>2. \A q \in R : q.cand = n /\ q.version = v
    BY <1>14, RequestFields DEF RetryRequests
  <2>3. Update(n, b) /\ requests' \subseteq requests \union R
    BY <1>14
  <2>v. v = x.vote_ctx.version
    OBVIOUS
  <2> HIDE DEF b, R, v
  <2>4. responses' \subseteq responses /\ handling' \subseteq handling
    BY <1>3
  <2>5. /\ \A p : p # n => Rounds(p)' \subseteq Rounds(p)
        /\ Rounds(n)' \subseteq Rounds(n) \union {v}
    BY <2>2, <2>3, <2>4, RoundsAdded
  <2>6. \A u \in Rounds(n)' : u <= b.vote_ctx.version
    BY <1>11, <2>1, <2>5, <2>v
  <2>7. \A e \in electing' : e \in electing /\
           (e.node = n => b.state # "DOWN" /\ e.term < b.current_term)
    BY <1>3, <1>10, <1>14, <2>1
  <2> QED BY <1>1, <1>12, <1>14, <2>1, <2>3, <2>5, <2>6, <2>7, LateRound
<1> QED BY <1>3, <1>8, <1>9, <1>13, <1>14

\* A process that stops, at any point, and one that starts again.
LEMMA ProcessRound ==
    ASSUME TypeOK, TypeOK', RoundInv, NEW n \in Server, ProcessStep(n)
    PROVE  RoundInv'
<1>1. node[n] \in Node /\ RoundOK(n)
  BY RoundTypes DEF RoundInv
<1>2. CASE Crash(n)
  <2>1. Halt(n, node[n], electing) /\ UNCHANGED <<requests, aborted>>
    BY <1>2 DEF Crash
  <2>2. \A p : Rounds(p)' \subseteq Rounds(p)
    BY <2>1, RoundsFewer DEF Halt
  <2>3. ~aborted'
    BY <2>1 DEF RoundInv
  <2> QED BY <1>1, <2>1, <2>2, <2>3, HaltRound
<1>3. ASSUME NEW e \in electing, e.node = n, CrashInElectSelf(e) PROVE RoundInv'
  <2> DEFINE x == SetLastLogId(node[n], e.last)
             R == VoteRequests(n, x, Server)
             v == x.vote_ctx.version
  <2>1. e.last \in LogIds
    BY DEF TypeOK, ElectingType
  <2>2. Halt(n, x, electing) /\ aborted' = aborted /\ requests' = requests \union R
    BY <1>3 DEF CrashInElectSelf
  <2>3. \A q \in R : q.cand = n /\ q.version = v
    BY RequestFields
  <2>4. SameRound(node[n], x)
    BY <1>1, <2>1, RoundFields
  <2>5. responses' \subseteq responses /\ handling' \subseteq handling
    BY <2>2 DEF Halt
  <2>v. v = x.vote_ctx.version
    OBVIOUS
  <2> HIDE DEF x, R, v
  <2>6. /\ \A p : p # n => Rounds(p)' \subseteq Rounds(p)
        /\ Rounds(n)' \subseteq Rounds(n) \union {v}
    BY <2>2, <2>3, <2>5, RoundsAdded
  <2>7. x \in Node /\ x.vote_ctx.version = node[n].vote_ctx.version
    BY <2>4 DEF SameRound
  <2>8. ~aborted'
    BY <2>2 DEF RoundInv
  <2> QED BY <2>2, <2>6, <2>7, <2>8, <2>v, HaltRound
<1>4. ASSUME NEW last \in LogIds, Restart(n, last) PROVE RoundInv'
  <2>1. /\ node[n].state = "DOWN"
        /\ UNCHANGED <<electing, handling, requests, responses, aborted>>
        /\ UNCHANGED node \/ \E m : Update(n, Started(node[n], m))
    BY <1>4 DEF Restart
  <2>2. \A p : Rounds(p)' \subseteq Rounds(p)
    BY <2>1, RoundsFewer
  <2>3. CASE UNCHANGED node
    <3>1. \A p \in Server : Passing(node[p], node'[p])
      BY <2>3, RoundTypes, PassingTwice
    <3> QED BY <2>1, <2>2, <3>1, PassingKeeps
  <2>4. ASSUME NEW m, Update(n, Started(node[n], m)) PROVE RoundInv'
    <3> DEFINE y == Started(node[n], m)
    <3>1. y.vote_ctx = node[n].vote_ctx
      BY <1>1 DEF Started, Node
    <3>2. Update(n, y)
      BY <2>4
    <3> HIDE DEF y
    <3>3. \A e \in electing' : e \in electing /\ e.node # n
      BY <1>1, <2>1 DEF RoundOK
    <3>4. y.vote_ctx.timer => y.vote_ctx.granted \subseteq {n}
      <4>1. node[n].vote_ctx.timer => node[n].vote_ctx.granted \subseteq {n}
        BY <1>1, <2>1 DEF RoundOK
      <4> QED BY <3>1, <4>1
    <3>5. \A v \in Rounds(n)' : v <= y.vote_ctx.version
      BY <1>1, <2>2, <3>1 DEF RoundOK
    <3>6. ~aborted'
      BY <2>1 DEF RoundInv
    <3> QED BY <2>2, <3>2, <3>3, <3>4, <3>5, <3>6, LateRound
  <2> QED BY <2>1, <2>3, <2>4
<1> QED BY <1>2, <1>3, <1>4 DEF ProcessStep

\* A step that sends nothing new and begins no round.
LEMMA QuietRound ==
    ASSUME TypeOK, TypeOK', RoundInv, NEW n \in Server, NEW y, Update(n, y),
           Passing(node[n], y), electing' \subseteq electing, aborted' = aborted,
           requests' \subseteq requests, responses' \subseteq responses,
           handling' \subseteq handling
    PROVE  RoundInv'
<1>1. \A p : Rounds(p)' \subseteq Rounds(p)
  BY RoundsFewer
<1>2. \A p \in Server : Passing(node[p], node'[p])
  BY PassingUpdate
<1> QED BY <1>1, <1>2, PassingKeeps

\* The steps of one helper only.
LEMMA SimpleRound ==
    ASSUME TypeOK, TypeOK', RoundInv, NEW n \in Server,
           \/ HandleVoteTimeout(n) \/ HandleElectionTimeout(n)
           \/ HandleStepdownTimeout(n) \/ TransferLeadership(n)
           \/ \E t \in Term : IncreaseTermTo(n, t)
           \/ \E r \in responses : r.cand = n /\ HigherTermVoteResponse(r)
    PROVE  RoundInv'
<1>1. /\ node[n] \in Node /\ node[n].current_term \in Term
      /\ \A site : SaveOutcomes(site) \subseteq BOOLEAN
      /\ \A r \in responses : r.term \in Term
  BY RoundTypes, NodeNumbers DEF SaveOutcomes, TypeOK, ResponseType
<1>2. /\ electing' = electing /\ aborted' = aborted /\ requests' = requests
      /\ responses' \subseteq responses /\ handling' = handling
  BY DEF HandleVoteTimeout, HandleElectionTimeout, HandleStepdownTimeout,
         TransferLeadership, IncreaseTermTo, HigherTermVoteResponse
<1>3. ASSUME NEW t \in Term, NEW ok \in BOOLEAN, Update(n, StepDown(node[n], t, ok))
      PROVE  RoundInv'
  <2>1. Passing(node[n], StepDown(node[n], t, ok))
    BY <1>1, PassingFacts
  <2> QED BY <1>2, <1>3, <2>1, QuietRound
<1>4. CASE HandleVoteTimeout(n) \/ HandleStepdownTimeout(n)
  BY <1>1, <1>3, <1>4 DEF HandleVoteTimeout, HandleStepdownTimeout
<1>5. ASSUME NEW t \in Term, IncreaseTermTo(n, t) PROVE RoundInv'
  BY <1>1, <1>3, <1>5 DEF IncreaseTermTo
<1>6. ASSUME NEW r \in responses, r.cand = n, HigherTermVoteResponse(r)
      PROVE  RoundInv'
  BY <1>1, <1>3, <1>6 DEF HigherTermVoteResponse
<1>7. CASE HandleElectionTimeout(n)
  <2>1. Update(n, SetLeader(node[n], NONE))
    BY <1>7 DEF HandleElectionTimeout
  <2>2. Passing(node[n], SetLeader(node[n], NONE))
    BY <1>1, PassingFacts
  <2> QED BY <1>2, <2>1, <2>2, QuietRound
<1>8. CASE TransferLeadership(n)
  <2>1. node[n].state # "CANDIDATE"
        /\ \E s \in {"LEADER", "TRANSFERRING"} : Update(n, SetState(node[n], s))
    BY <1>8 DEF TransferLeadership
  <2>2. \A s \in {"LEADER", "TRANSFERRING"} : Passing(node[n], SetState(node[n], s))
    BY <1>1, <2>1, PassingFacts DEF States, Active, Leading
  <2> QED BY <1>2, <2>1, <2>2, QuietRound
<1> QED BY <1>4, <1>5, <1>6, <1>7, <1>8

\* An error and a shutdown step down first, so no candidate is left.
LEMMA ErrorRound ==
    ASSUME TypeOK, TypeOK', RoundInv, NEW n \in Server, OnError(n) \/ Shutdown(n)
    PROVE  RoundInv'
<1> DEFINE x == node[n]
           d == StepDown(x, x.current_term, TRUE)
<1>1. x \in Node /\ x.current_term \in Term
  BY RoundTypes, NodeNumbers
<1>2. /\ x.state \in Active \/ x.state = "ERROR"
      /\ \E s \in {"ERROR", "SHUTTING"} : Update(n, SetState(d, s))
      /\ UNCHANGED <<electing, handling, requests, responses, aborted>>
  BY DEF OnError, Shutdown
<1>3. d \in Node /\ d.state # "CANDIDATE" /\ Passing(x, d)
  BY <1>1, <1>2, StepDownFacts, PassingFacts
<1> HIDE DEF d
<1>4. ASSUME NEW s \in {"ERROR", "SHUTTING"} PROVE Passing(x, SetState(d, s))
  <2>1. s \in States /\ s # "DOWN"
    BY DEF States
  <2>2. SetState(d, s) \in Node /\ Passing(d, SetState(d, s))
    BY <1>3, <2>1, HelperTypes, PassingFacts
  <2> QED BY <1>1, <1>3, <2>2, PassingTwice
<1> QED BY <1>2, <1>4, QuietRound

\* A leader's message begins no round.
LEMMA LeaderMessageRound ==
    ASSUME TypeOK, TypeOK', RoundInv, NEW n \in Server, NEW e \in elected,
           HandleLeaderMessage(n, e)
    PROVE  RoundInv'
<1> DEFINE x == node[n]
<1>1. PICK ok \in BOOLEAN :
         LET c == CheckStepDown(x, e.term, e.leader, ok) IN
         \/ Update(n, c)
         \/ Update(n, RenewLease(c, e.leader))
         \/ e.term < MaxTerm /\ Update(n, StepDown(c, e.term + 1, ok))
  <2>1. SaveOutcomes("step_down") \subseteq BOOLEAN
    BY DEF SaveOutcomes
  <2> QED BY <2>1, Zenon DEF HandleLeaderMessage
<1> DEFINE c == CheckStepDown(x, e.term, e.leader, ok)
           d == StepDown(x, e.term, ok)
<1>2. e.leader \in Server /\ e.term \in Term /\ e.term \in Int /\ x \in Node
  BY RoundTypes DEF TypeOK, Term
<1>3. c \in Node /\ d \in Node
  BY <1>2, VoterTypes, StepDownFacts
<1>4. /\ Passing(x, x) /\ Passing(x, d) /\ Passing(x, SetLeader(x, e.leader))
      /\ Passing(x, SetLeader(d, e.leader))
  <2>1. SetLeader(d, e.leader) \in Node
    BY <1>2, <1>3, HelperTypes
  <2>2. Passing(x, d) /\ Passing(x, SetLeader(x, e.leader))
    BY <1>2, PassingFacts
  <2> HIDE DEF x, d
  <2>3. Passing(d, SetLeader(d, e.leader))
    BY <1>2, <1>3, PassingFacts
  <2> QED BY <1>2, <1>3, <2>1, <2>2, <2>3, PassingTwice
<1>5. c \in {x, d, SetLeader(x, e.leader), SetLeader(d, e.leader)}
  BY DEF CheckStepDown
<1>6. Passing(x, c)
  <2> HIDE DEF x, c, d
  <2> QED BY <1>4, <1>5
<1>7. \/ Update(n, c)
      \/ Update(n, RenewLease(c, e.leader))
      \/ e.term < MaxTerm /\ Update(n, StepDown(c, e.term + 1, ok))
  BY <1>1
<1> HIDE DEF c, d
<1>8. Passing(x, RenewLease(c, e.leader))
  <2>1. RenewLease(c, e.leader) \in Node /\ Passing(c, RenewLease(c, e.leader))
    BY <1>2, <1>3, HelperTypes, PassingFacts
  <2> HIDE DEF x
  <2> QED BY <1>2, <1>3, <1>6, <2>1, PassingTwice
<1>9. e.term < MaxTerm => Passing(x, StepDown(c, e.term + 1, ok))
  <2>1. e.term < MaxTerm => e.term + 1 \in Term
    BY <1>2, BoundAssumption DEF Term
  <2>2. e.term < MaxTerm => StepDown(c, e.term + 1, ok) \in Node
                            /\ Passing(c, StepDown(c, e.term + 1, ok))
    BY <1>3, <2>1, StepDownFacts, PassingFacts
  <2> HIDE DEF x
  <2> QED BY <1>2, <1>3, <1>6, <2>2, PassingTwice
<1>10. UNCHANGED <<electing, handling, requests, responses, aborted>>
  BY DEF HandleLeaderMessage
<1> QED BY <1>6, <1>7, <1>8, <1>9, <1>10, QuietRound

\* handle_request_vote_request, before and after its unlock.
LEMMA VoteRequestRound ==
    ASSUME TypeOK, TypeOK', RoundInv, NEW r \in requests, NEW last,
           HandleRequestVoteRequest(r, last)
    PROVE  RoundInv'
<1> DEFINE n == r.peer
           x == ExpireLease(node[n], r.disrupted)
<1>1. n \in Server /\ node[n] \in Node
  BY RoundTypes DEF TypeOK, RequestType
<1>2. /\ Update(n, x) /\ UNCHANGED <<electing, aborted>>
      /\ requests' \subseteq requests
      /\ \A q \in responses' : q \in responses \/ (q.cand = r.cand /\ q.version = r.version)
      /\ \A h \in handling' : h \in handling \/ h.req = r
  BY DEF HandleRequestVoteRequest, VoteResponse
<1>3. Passing(node[n], x)
  BY <1>1, PassingFacts
<1>4. r \in Messages
  BY DEF Messages
<1>5. \A p : Rounds(p)' \subseteq Rounds(p)
  BY <1>2, <1>4, RoundsAnswered
<1> HIDE DEF x, n
<1>6. \A p \in Server : Passing(node[p], node'[p])
  BY <1>1, <1>2, <1>3, PassingUpdate
<1> QED BY <1>2, <1>5, <1>6, PassingKeeps

\* handle_request_vote_request after the lock.
LEMMA VoteResumeRound ==
    ASSUME TypeOK, TypeOK', RoundInv, NEW h \in handling, HandleRequestVoteResume(h)
    PROVE  RoundInv'
<1> DEFINE r == h.req
           n == r.peer
           x == node[n]
           good == LogIdGeq(r.last, h.last)
<1>1. /\ n \in Server /\ r \in RequestType /\ r.term \in Term
      /\ r.cand \in Server /\ x \in Node
  BY RoundTypes DEF TypeOK, RequestType, HandlingType
<1>2. r \in Messages
  BY DEF Messages
<1>3. /\ UNCHANGED <<electing, aborted, requests>> /\ handling' \subseteq handling
      /\ \A q \in responses' : q \in responses \/ (q.cand = r.cand /\ q.version = r.version)
  <2>1. \A a, b, c, d : /\ VoteResponse(r, a, b, c, d).cand = r.cand
                        /\ VoteResponse(r, a, b, c, d).version = r.version
    BY DEF VoteResponse
  <2>2. \E a, b, c, d : responses' = responses \union {VoteResponse(r, a, b, c, d)}
    BY Zenon DEF HandleRequestVoteResume
  <2>3. UNCHANGED <<electing, aborted, requests>> /\ handling' \subseteq handling
    BY DEF HandleRequestVoteResume
  <2> HIDE DEF r
  <2> QED BY <2>1, <2>2, <2>3
<1>4. \A p : Rounds(p)' \subseteq Rounds(p)
  <2>1. requests' \subseteq requests /\ \A g \in handling' : g \in handling \/ g.req = r
    BY <1>3
  <2> HIDE DEF r
  <2> QED BY <1>2, <1>3, <2>1, RoundsAnswered
<1>5. \/ node' = node
      \/ \E ok1 \in SaveOutcomes("step_down"), ok2 \in SaveOutcomes("vote") :
           Update(n, CastVote(IF r.term > x.current_term
                              THEN StepDown(x, r.term, ok1) ELSE x,
                              r, good, ok2))
  BY Zenon DEF HandleRequestVoteResume
<1>6. CASE node' = node
  <2>1. \A p \in Server : Passing(node[p], node'[p])
    BY <1>6, RoundTypes, PassingTwice
  <2> QED BY <1>3, <1>4, <2>1, PassingKeeps
<1>7. ASSUME NEW ok1 \in SaveOutcomes("step_down"), NEW ok2 \in SaveOutcomes("vote"),
             Update(n, CastVote(IF r.term > x.current_term
                                THEN StepDown(x, r.term, ok1) ELSE x,
                                r, good, ok2))
      PROVE  RoundInv'
  <2> DEFINE y == IF r.term > x.current_term THEN StepDown(x, r.term, ok1) ELSE x
             z == StepDown(y, r.term, TRUE)
             w == CastVote(y, r, good, ok2)
  <2>1. ok1 \in BOOLEAN
    BY DEF SaveOutcomes
  <2>2. y \in Node /\ Passing(x, y)
    <3> HIDE DEF x, r
    <3>1. StepDown(x, r.term, ok1) \in Node /\ Passing(x, StepDown(x, r.term, ok1))
      BY <1>1, <2>1, StepDownFacts, PassingFacts
    <3>2. Passing(x, x)
      BY <1>1, PassingTwice
    <3> QED BY <1>1, <3>1, <3>2
  <2> HIDE DEF y
  <2>3. z \in Node /\ Passing(y, z)
    BY <1>1, <2>2, StepDownFacts, PassingFacts
  <2>4. w \in {y, SaveVote(z, r.cand), ResetVote(z)}
    BY DEF CastVote
  <2> HIDE DEF z
  <2>5. /\ SaveVote(z, r.cand) \in Node /\ Passing(z, SaveVote(z, r.cand))
        /\ ResetVote(z) \in Node /\ Passing(z, ResetVote(z))
    BY <1>1, <2>3, HelperTypes, PassingFacts
  <2>6. Passing(x, z)
    <3> HIDE DEF x
    <3> QED BY <1>1, <2>2, <2>3, PassingTwice
  <2>7. Passing(x, SaveVote(z, r.cand)) /\ Passing(x, ResetVote(z))
    <3> HIDE DEF x
    <3> QED BY <1>1, <2>3, <2>5, <2>6, PassingTwice
  <2>8. Update(n, w)
    BY <1>7 DEF y
  <2> HIDE DEF w
  <2>9. Passing(x, w)
    <3> HIDE DEF x, r
    <3> QED BY <2>2, <2>4, <2>7
  <2>10. \A p \in Server : Passing(node[p], node'[p])
    <3> HIDE DEF n
    <3> QED BY <1>1, <2>8, <2>9, PassingUpdate
  <2> QED BY <1>3, <1>4, <2>10, PassingKeeps
<1> QED BY <1>5, <1>6, <1>7

\* An answer that is discarded, and an elect_self that is given up.
LEMMA DroppedRound ==
    ASSUME TypeOK, TypeOK', RoundInv,
           \/ \E r \in responses : DiscardVoteResponse(r)
           \/ \E e \in electing : ElectSelfAbandoned(e)
           \/ UNCHANGED vars
    PROVE  RoundInv'
<1>1. /\ node' = node /\ electing' \subseteq electing /\ aborted' = aborted
      /\ requests' \subseteq requests /\ responses' \subseteq responses
      /\ handling' \subseteq handling
  BY DEF DiscardVoteResponse, ElectSelfAbandoned, vars
<1>2. \A p \in Server : Passing(node[p], node'[p])
  BY <1>1, RoundTypes, PassingTwice
<1>3. \A p : Rounds(p)' \subseteq Rounds(p)
  BY <1>1, RoundsFewer
<1> QED BY <1>1, <1>2, <1>3, PassingKeeps

\* Every step keeps the rounds in order.
LEMMA RoundStep ==
    ASSUME \A m \in Server : ~IsGranted({m}), TypeOK, RoundInv, [Next]_vars
    PROVE  RoundInv'
<1>1. TypeOK'
  BY TypeStep
<1>2. CASE UNCHANGED vars
  BY <1>1, <1>2, DroppedRound
<1>3. CASE VoteStep
  <2>1. ASSUME NEW e \in electing, ElectSelfAbandoned(e) \/ ElectSelfResume(e)
        PROVE  RoundInv'
    <3>1. e.node \in Server
      BY DEF TypeOK, ElectingType
    <3> QED BY <1>1, <2>1, <3>1, DroppedRound, ResumeRound
  <2>2. ASSUME NEW r \in requests, NEW last \in LogIds,
               HandleRequestVoteRequest(r, last)
        PROVE  RoundInv'
    BY <1>1, <2>2, VoteRequestRound
  <2>3. ASSUME NEW h \in handling, HandleRequestVoteResume(h) PROVE RoundInv'
    BY <1>1, <2>3, VoteResumeRound
  <2>4. ASSUME NEW r \in responses,
               \/ DiscardVoteResponse(r) \/ HigherTermVoteResponse(r)
               \/ GrantedVoteResponse(r) \/ LeaseRejectedVoteResponse(r)
        PROVE  RoundInv'
    <3>1. r.cand \in Server
      BY DEF TypeOK, ResponseType
    <3> QED BY <1>1, <2>4, <3>1, DroppedRound, SimpleRound, AnswerRound
  <2> QED BY <1>3, <2>1, <2>2, <2>3, <2>4 DEF VoteStep
<1>4. ASSUME NEW n \in Server, NEW last \in LogIds, NEW b \in BOOLEAN,
             ElectSelf(n, last, b)
      PROVE  RoundInv'
  BY <1>1, <1>4, ElectSelfRound
<1>5. ASSUME NEW n \in Server, ServerStep(n) PROVE RoundInv'
  BY <1>1, <1>5, TimedoutRound, SimpleRound, LeaderMessageRound DEF ServerStep
<1>6. ASSUME NEW n \in Server, OnError(n) \/ Shutdown(n) \/ ProcessStep(n)
      PROVE  RoundInv'
  BY <1>1, <1>6, ErrorRound, ProcessRound
<1> QED BY <1>2, <1>3, <1>4, <1>5, <1>6, BoundAssumption DEF Next

\* Where no single server is a majority, the CHECK of become_leader never
\* fails, for any group, joint or not, though a node may meet an error, shut
\* down or crash, and any save may fail, between elect_self and the vote that
\* elects: a vote counts only in the round it is of, and only for a candidate.
THEOREM CheckNeverFails ==
    ASSUME \A n \in Server : ~IsGranted({n})
    PROVE  Spec => []BecomeLeaderChecked
<1>1. Init => TypeOK /\ RoundInv
  <2> SUFFICES ASSUME Init PROVE RoundInv
    BY InitInv DEF ElectionInv
  <2>1. Messages = {} /\ electing = {} /\ aborted = FALSE
    BY DEF Init, Messages
  <2>2. \A n \in Server : node[n].state = "FOLLOWER" /\ node[n].vote_ctx.timer = FALSE
    BY DEF Init
  <2>3. \A n : Rounds(n) = {}
    BY <2>1 DEF Rounds
  <2> QED BY <2>1, <2>2, <2>3, Zenon DEF RoundInv, RoundOK
<1>2. TypeOK /\ RoundInv /\ [Next]_vars => (TypeOK /\ RoundInv)'
  BY RoundStep, TypeStep
<1>3. TypeOK /\ RoundInv => BecomeLeaderChecked
  BY DEF RoundInv, BecomeLeaderChecked
<1> QED BY <1>1, <1>2, <1>3, PTL DEF Spec
====

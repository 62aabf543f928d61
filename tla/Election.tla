------------------------------ MODULE Election ------------------------------
(***************************************************************************)
(* Leader election of braft's NodeImpl (src/src/braft/node.cpp): terms and *)
(* votes, their persistence in the RaftMetaStorage, the vote RPCs, leader  *)
(* leases, step_down, errors, shutdown, crashes and restarts.              *)
(*                                                                         *)
(* Every operation of NodeImpl runs under the node's mutex, except that    *)
(* elect_self and handle_request_vote_request release the mutex while they *)
(* read the last log id; each of those two is a pair of actions here, with *)
(* the suspended call in `electing' or `handling' between them.            *)
(*                                                                         *)
(* Abstracted: the log (a last log id is any member of LogIds), the clock  *)
(* (`leased' says that the follower lease has not been expired or reset;   *)
(* whether it has run out by itself is a free choice wherever the code     *)
(* looks), and the pre-vote phase (ElectSelf may start at any time).       *)
(* An RPC is delivered at most once (brpc max_retry is 0) and may be lost, *)
(* reordered or delayed for ever, also across a crash of either end.       *)
(***************************************************************************)
EXTENDS Integers, FiniteSets

CONSTANTS
    Server,         \* the peers of the group
    Conf, OldConf,  \* _conf.conf and _conf.old_conf; OldConf = {} when stable
    NONE,           \* the empty PeerId
    LogIds,         \* the last log ids a node may have
    LeaderLease,               \* FLAGS_raft_enable_leader_lease
    StepDownWhenVoteTimedout,  \* FLAGS_raft_step_down_when_vote_timedout
    SaveMayFail,    \* the callers whose set_term_and_votedfor may fail
    Starters,       \* bound: which server may run for which term
    Faulty,         \* bound: the servers that meet an error or shut down
    Crashing,       \* bound: the servers whose process stops and restarts
    MaxTerm,        \* bound on terms
    MaxRestarts     \* bound on the number of restarts

SaveSites == {"elect_self", "vote", "step_down", "init"}
Term == 1..MaxTerm

\* LogId::operator>= : the term first, then the index.
LogIdGeq(a, b) == \/ a.term > b.term
                  \/ a.term = b.term /\ a.index >= b.index

ASSUME ServerAssumption ==
    /\ IsFiniteSet(Server) /\ NONE \notin Server
    /\ Conf # {} /\ Server = Conf \union OldConf
ASSUME BoundAssumption ==
    /\ MaxTerm \in Nat \ {0} /\ MaxRestarts \in Nat
    /\ Starters \subseteq Server \X Term
    /\ Faulty \subseteq Server /\ Crashing \subseteq Server
ASSUME FlagAssumption ==
    /\ LeaderLease \in BOOLEAN /\ StepDownWhenVoteTimedout \in BOOLEAN
    /\ SaveMayFail \subseteq SaveSites
ASSUME LogIdAssumption == LogIds \subseteq [term: Nat, index: Nat]

VARIABLES
    node,       \* the NodeImpl of each server, with its durable meta
    electing,   \* elect_self calls that have released the mutex
    handling,   \* handle_request_vote_request calls that have done so
    requests,   \* RequestVote requests in flight
    responses,  \* RequestVote responses in flight
    restarts,   \* number of restarts so far
    votes,      \* history: every vote made durable
    elected,    \* history: every leadership won
    aborted     \* history: a CHECK of the code has failed
vars == <<node, electing, handling, requests, responses, restarts,
          votes, elected, aborted>>

-----------------------------------------------------------------------------
(* The state of one node.                                                  *)

Leading == {"LEADER", "TRANSFERRING"}
Active == Leading \union {"CANDIDATE", "FOLLOWER"}
States == Active \union {"ERROR", "SHUTTING", "DOWN"}

\* DisruptedLeader(): term -1 marks "none".
NoDisrupted == [peer |-> NONE, term |-> -1]
Disrupted == [peer: Server \union {NONE}, term: Term \union {-1}]

\* LogId(): before the log has been read.
NoLogId == [term |-> 0, index |-> 0]
LastLogId == LogIds \union {NoLogId}

VoteCtx == [version: Nat, granted: SUBSET Server, timer: BOOLEAN,
            last: LastLogId, disrupted: Disrupted, reserved: SUBSET Server]
Meta == [term: Term, votedfor: Server \union {NONE}]
Node == [state: States, current_term: Term, voted_id: Server \union {NONE},
         leader_id: Server \union {NONE}, last_leader: Server \union {NONE},
         leased: BOOLEAN, meta: Meta, vote_ctx: VoteCtx]

RequestType == [cand: Server, peer: Server, term: Term, last: LastLogId,
                version: Nat, disrupted: Disrupted]
ResponseType == [cand: Server, peer: Server, req_term: Term, version: Nat,
                 term: Term, granted: BOOLEAN, by_lease: BOOLEAN,
                 disrupted: BOOLEAN, previous_term: Term]
ElectingType == [node: Server, term: Term, last: LogIds]
HandlingType == [req: RequestType, previous_term: Term, last: LogIds]

\* The state of every part of the node is of the type its declaration gives.
TypeOK ==
    /\ node \in [Server -> Node]
    /\ electing \subseteq ElectingType
    /\ handling \subseteq HandlingType
    /\ requests \subseteq RequestType
    /\ responses \subseteq ResponseType
    /\ restarts \in 0..MaxRestarts
    /\ votes \subseteq [voter: Server, term: Term, cand: Server]
    /\ elected \subseteq [leader: Server, term: Term, version: Nat]
    /\ aborted \in BOOLEAN

-----------------------------------------------------------------------------
(* The helpers of NodeImpl, as functions from a node's state to the next.  *)

\* The outcomes that a save of the meta may have at one of its callers.
SaveOutcomes(site) == IF site \in SaveMayFail THEN BOOLEAN ELSE {TRUE}

\* FollowerLease::votable_time_from_now() > 0, whatever the clock says.
LeaseOutcomes(x) == IF LeaderLease /\ x.leased THEN BOOLEAN ELSE {FALSE}

\* Mutant: a majority of either configuration is enough.
IsGrantedEither(S) ==
    \/ 2 * Cardinality(S \intersect Conf) > Cardinality(Conf)
    \/ OldConf # {} /\ 2 * Cardinality(S \intersect OldConf) > Cardinality(OldConf)

\* Ballot: a majority of the configuration and, in a joint one, of the old.
Majority(S, C) == 2 * Cardinality(S \intersect C) > Cardinality(C)
IsGranted(S) == Majority(S, Conf) /\ (OldConf # {} => Majority(S, OldConf))

\* Mutant: a new round starts with the ballots of the one before.
CtxInitKeeps(c, d) == [version |-> c.version + 1, granted |-> c.granted,
                       timer |-> FALSE, last |-> NoLogId,
                       disrupted |-> d, reserved |-> {}]

\* VoteBallotCtx::reset and ::init; reset leaves the ballot as it is.
\* elect_self follows its init with set_disrupted_leader(d).
CtxReset(c) == [version |-> c.version + 1, granted |-> c.granted,
                timer |-> FALSE, last |-> NoLogId,
                disrupted |-> NoDisrupted, reserved |-> {}]
CtxInit(c, d) == [version |-> c.version + 1, granted |-> {},
                  timer |-> FALSE, last |-> NoLogId,
                  disrupted |-> d, reserved |-> {}]

\* Mutants: the vote is cleared on every step_down; the leader is kept.
StepDownClears(x, t, ok) ==
    IF x.state \notin Active THEN x
    ELSE [x EXCEPT
            !.state = "FOLLOWER", !.leader_id = NONE,
            !.vote_ctx = IF x.state = "CANDIDATE" THEN CtxReset(@) ELSE @,
            !.current_term = t, !.voted_id = NONE,
            !.meta = IF ok THEN [term |-> t, votedfor |-> NONE] ELSE @]
StepDownKeepsLeader(x, t, ok) ==
    IF x.state \notin Active THEN x
    ELSE [x EXCEPT
            !.state = "FOLLOWER",
            !.vote_ctx = IF x.state = "CANDIDATE" THEN CtxReset(@) ELSE @,
            !.current_term = IF t > @ THEN t ELSE @,
            !.voted_id = IF t > x.current_term THEN NONE ELSE @,
            !.meta = IF t > x.current_term /\ ok
                     THEN [term |-> t, votedfor |-> NONE] ELSE @]

\* NodeImpl::step_down; ok is the outcome of its save, if it makes one.
StepDown(x, t, ok) ==
    IF x.state \notin Active THEN x
    ELSE [x EXCEPT
            !.state = "FOLLOWER",
            !.leader_id = NONE,
            !.vote_ctx = IF x.state = "CANDIDATE" THEN CtxReset(@) ELSE @,
            !.current_term = IF t > @ THEN t ELSE @,
            !.voted_id = IF t > x.current_term THEN NONE ELSE @,
            !.meta = IF t > x.current_term /\ ok
                     THEN [term |-> t, votedfor |-> NONE] ELSE @]

\* NodeImpl::become_leader of node n, once its CHECK has passed.
BecomeLeader(n, x) ==
    [x EXCEPT !.state = "LEADER", !.leader_id = n,
              !.last_leader = NONE, !.leased = FALSE,
              !.vote_ctx = CtxReset(@)]

\* Mutant: the rounds of the old process and of the next are not told apart.
StoppedSameRound(x) ==
    [state |-> "DOWN", current_term |-> x.meta.term,
     voted_id |-> x.meta.votedfor, leader_id |-> NONE, last_leader |-> NONE,
     leased |-> FALSE, meta |-> x.meta, vote_ctx |-> x.vote_ctx]

\* A process that has stopped: what the next one will read from the meta.
\* The version goes up so that no answer to the old process is accepted.
Stopped(x) ==
    [state |-> "DOWN", current_term |-> x.meta.term,
     voted_id |-> x.meta.votedfor, leader_id |-> NONE, last_leader |-> NONE,
     leased |-> FALSE, meta |-> x.meta, vote_ctx |-> CtxInit(x.vote_ctx, NoDisrupted)]

\* Ballot::grant for a peer; for the node itself, which ends its own timer;
\* start_grant_self_timer.
Grant(x, p) == [x EXCEPT !.vote_ctx.granted = @ \union {p}]
GrantOwn(x, n) == [x EXCEPT !.vote_ctx.granted = @ \union {n},
                            !.vote_ctx.timer = FALSE]
StartGrantSelfTimer(x) == [x EXCEPT !.vote_ctx.timer = TRUE]

\* set_term_and_votedfor for candidate c in the current term, and the reset
\* of _voted_id where that fails.
SaveVote(x, c) == [x EXCEPT !.voted_id = c,
                            !.meta = [term |-> x.current_term, votedfor |-> c]]
ResetVote(x) == [x EXCEPT !.voted_id = NONE]

SetState(x, s) == [x EXCEPT !.state = s]

\* request_peers_to_vote: what node n in state x sends to the peers of S.
VoteRequests(n, x, S) ==
    {[cand |-> n, peer |-> p, term |-> x.current_term,
      last |-> x.vote_ctx.last, version |-> x.vote_ctx.version,
      disrupted |-> IF x.vote_ctx.disrupted.peer = NONE THEN NoDisrupted
                    ELSE x.vote_ctx.disrupted] : p \in S \ {n}}

\* A record of the history: server n has saved its vote for c in term t.
Vote(n, t, c) == [voter |-> n, term |-> t, cand |-> c]

\* The answer of handle_request_vote_request to r, in state x of the node.
VoteResponse(r, x, by_lease, disrupted, previous_term) ==
    [cand |-> r.cand, peer |-> r.peer, req_term |-> r.term,
     version |-> r.version, term |-> x.current_term,
     granted |-> r.term = x.current_term /\ x.voted_id = r.cand,
     by_lease |-> by_lease, disrupted |-> disrupted,
     previous_term |-> previous_term]

-----------------------------------------------------------------------------
Init ==
    /\ node = [n \in Server |->
                 [state |-> "FOLLOWER", current_term |-> 1, voted_id |-> NONE,
                  leader_id |-> NONE, last_leader |-> NONE, leased |-> FALSE,
                  meta |-> [term |-> 1, votedfor |-> NONE],
                  vote_ctx |-> [version |-> 0, granted |-> {}, timer |-> FALSE,
                                last |-> NoLogId, disrupted |-> NoDisrupted,
                                reserved |-> {}]]]
    /\ electing = {} /\ handling = {} /\ requests = {} /\ responses = {}
    /\ restarts = 0 /\ votes = {} /\ elected = {} /\ aborted = FALSE

Update(n, x) == node' = [node EXCEPT ![n] = x]

\* The process of node n stops: its suspended calls are gone, and so are the
\* answers on their way to it.
Halt(n, x, el) ==
    /\ Update(n, Stopped(x))
    /\ electing' = {e \in el : e.node # n}
    /\ handling' = {h \in handling : h.req.peer # n}
    /\ responses' = {r \in responses : r.cand # n}

\* What follows a grant that has led node n to state x: nothing, or
\* become_leader, whose CHECK(_state == STATE_CANDIDATE) stops the process
\* when the node has left that state. el are the calls still suspended.
AfterGrant(n, x, el) ==
    \/ /\ ~IsGranted(x.vote_ctx.granted)
       /\ Update(n, x) /\ electing' = el
       /\ UNCHANGED <<handling, responses, elected, aborted>>
    \/ /\ IsGranted(x.vote_ctx.granted) /\ x.state = "CANDIDATE"
       /\ Update(n, BecomeLeader(n, x)) /\ electing' = el
       /\ elected' = elected \union
             {[leader |-> n, term |-> x.current_term,
               version |-> x.vote_ctx.version]}
       /\ UNCHANGED <<handling, responses, aborted>>
    \/ /\ IsGranted(x.vote_ctx.granted) /\ x.state # "CANDIDATE"
       /\ Halt(n, x, el)
       /\ aborted' = TRUE /\ UNCHANGED elected

\* grant_self: at once, or by the timer when the follower lease still runs.
GrantSelf(n, x, el) ==
    \E leased \in LeaseOutcomes(x) :
        IF leased
        THEN /\ Update(n, StartGrantSelfTimer(x))
             /\ electing' = el
             /\ UNCHANGED <<handling, responses, elected, aborted>>
        ELSE AfterGrant(n, GrantOwn(x, n), el)

-----------------------------------------------------------------------------
(* Elections.                                                              *)

\* elect_self up to the unlock: from a won pre-vote or a TimeoutNow request
\* (a follower), or from handle_vote_timeout when it retries (a candidate).
\* old_leader_stepped_down comes with the TimeoutNow request of a leader of
\* this term.
Candidate(n, x, old_leader_stepped_down) ==
    [x EXCEPT
       !.state = "CANDIDATE", !.leader_id = NONE,
       !.current_term = @ + 1, !.voted_id = n,
       !.leased = @ /\ ~old_leader_stepped_down,
       !.vote_ctx = CtxInit(@,
           IF old_leader_stepped_down
           THEN [peer |-> x.leader_id, term |-> x.current_term]
           ELSE NoDisrupted)]

ElectSelf(n, last, old_leader_stepped_down) ==
    LET x == node[n] IN
    /\ \/ x.state = "FOLLOWER"
       \/ /\ x.state = "CANDIDATE" /\ ~StepDownWhenVoteTimedout
          /\ ~old_leader_stepped_down
    /\ old_leader_stepped_down => \E e \in elected : e.term = x.current_term
    /\ x.current_term < MaxTerm
    /\ Update(n, Candidate(n, x, old_leader_stepped_down))
    /\ electing' = electing \union
          {[node |-> n, term |-> x.current_term + 1, last |-> last]}
    /\ UNCHANGED <<handling, requests, responses, restarts,
                   votes, elected, aborted>>

\* elect_self after the lock, when the term has changed meanwhile.
ElectSelfAbandoned(e) ==
    /\ e.term # node[e.node].current_term
    /\ electing' = electing \ {e}
    /\ UNCHANGED <<node, handling, requests, responses, restarts,
                   votes, elected, aborted>>

\* VoteBallotCtx::set_last_log_id.
SetLastLogId(x, last) == [x EXCEPT !.vote_ctx.last = last]

\* elect_self after the lock: the requests go out, then the vote is saved.
ElectSelfResume(e) ==
    LET n == e.node
        x == SetLastLogId(node[n], e.last)
    IN
    /\ e.term = x.current_term
    /\ requests' = requests \union VoteRequests(n, x, Server)
    /\ \E ok \in SaveOutcomes("elect_self") :
         IF ok
         THEN /\ votes' = votes \union {Vote(n, x.current_term, n)}
              /\ GrantSelf(n, SaveVote(x, n), electing \ {e})
         ELSE /\ Update(n, ResetVote(x))
              /\ electing' = electing \ {e}
              /\ UNCHANGED <<handling, responses, votes, elected, aborted>>
    /\ UNCHANGED restarts

\* handle_grant_self_timedout: a reset of the vote_ctx has taken the timer
\* away (or made it stale, which the version shows).
HandleGrantSelfTimedout(n) ==
    /\ node[n].vote_ctx.timer /\ node[n].state \in Active
    /\ GrantSelf(n, node[n], electing)
    /\ UNCHANGED <<requests, restarts, votes>>

\* handle_vote_timeout, when it gives up (its pre_vote is abstracted).
HandleVoteTimeout(n) ==
    /\ node[n].state = "CANDIDATE" /\ StepDownWhenVoteTimedout
    /\ Update(n, StepDown(node[n], node[n].current_term, TRUE))
    /\ UNCHANGED <<electing, handling, requests, responses, restarts,
                   votes, elected, aborted>>

-----------------------------------------------------------------------------
(* The voter.                                                              *)

\* The lease that the disrupted leader d held ends.
ExpireLease(x, d) ==
    IF /\ x.state = "FOLLOWER" /\ d.peer # NONE
       /\ d.term = x.current_term /\ d.peer = x.leader_id
    THEN [x EXCEPT !.leased = FALSE] ELSE x

\* handle_request_vote_request up to the unlock, or to its answer when the
\* request is of an older term.
HandleRequestVoteRequest(r, last) ==
    LET n == r.peer
        x == ExpireLease(node[n], r.disrupted)
    IN
    /\ x.state \in Active
    /\ requests' = requests \ {r}
    /\ Update(n, x)
    /\ \/ /\ r.term < x.current_term
          /\ responses' = responses \union
                {VoteResponse(r, x, FALSE, FALSE, x.current_term)}
          /\ UNCHANGED handling
       \/ /\ r.term >= x.current_term
          /\ handling' = handling \union
                {[req |-> r, previous_term |-> x.current_term, last |-> last]}
          /\ UNCHANGED responses
    /\ UNCHANGED <<electing, restarts, votes, elected, aborted>>

\* The saving part: vote for the candidate when the log is good enough and
\* no vote has been given in this term; ok is the outcome of the save.
CastVote(x, r, log_is_ok, ok) ==
    IF ~log_is_ok \/ x.voted_id # NONE THEN x
    ELSE LET y == StepDown(x, r.term, TRUE) IN
         IF ok THEN SaveVote(y, r.cand) ELSE ResetVote(y)

\* handle_request_vote_request after the lock. The two saves it may make are
\* that of step_down (a failure is only logged) and that of the vote.
HandleRequestVoteResume(h) ==
    LET r == h.req
        n == r.peer
        x == node[n]
        log_is_ok == LogIdGeq(r.last, h.last)
    IN
    /\ handling' = handling \ {h}
    /\ \/ /\ h.previous_term # x.current_term
          /\ responses' = responses \union
                {VoteResponse(r, x, FALSE, FALSE, h.previous_term)}
          /\ UNCHANGED <<node, votes>>
       \/ /\ h.previous_term = x.current_term
          /\ TRUE \in LeaseOutcomes(x)
          /\ responses' = responses \union
                {VoteResponse(r, x, log_is_ok, FALSE, h.previous_term)}
          /\ UNCHANGED <<node, votes>>
       \/ /\ h.previous_term = x.current_term
          /\ FALSE \in LeaseOutcomes(x)
          /\ \E ok1 \in SaveOutcomes("step_down"), ok2 \in SaveOutcomes("vote") :
               LET y == IF r.term > x.current_term THEN StepDown(x, r.term, ok1)
                        ELSE x
                   z == CastVote(y, r, log_is_ok, ok2)
                   disrupted == r.term > x.current_term /\ x.state \in Leading
               IN /\ Update(n, z)
                  /\ votes' = IF log_is_ok /\ y.voted_id = NONE /\ ok2
                              THEN votes \union {Vote(n, z.current_term, r.cand)}
                              ELSE votes
                  /\ responses' = responses \union
                        {VoteResponse(r, z, FALSE, disrupted, h.previous_term)}
    /\ UNCHANGED <<electing, requests, restarts, elected, aborted>>

-----------------------------------------------------------------------------
(* The candidate.                                                          *)

\* handle_request_vote_response, when its checks of version, state and term
\* discard the answer.
DiscardVoteResponse(r) ==
    LET x == node[r.cand] IN
    /\ \/ r.version # x.vote_ctx.version
       \/ x.state # "CANDIDATE"
       \/ r.req_term # x.current_term
       \/ r.term <= x.current_term /\ ~r.granted /\ ~r.by_lease
    /\ responses' = responses \ {r}
    /\ UNCHANGED <<node, electing, handling, requests, restarts,
                   votes, elected, aborted>>

Expected(r, x) ==
    /\ r.version = x.vote_ctx.version
    /\ x.state = "CANDIDATE"
    /\ r.req_term = x.current_term

\* handle_request_vote_response, when the answer shows a higher term.
HigherTermVoteResponse(r) ==
    LET x == node[r.cand] IN
    /\ Expected(r, x) /\ r.term > x.current_term
    /\ responses' = responses \ {r}
    /\ \E ok \in SaveOutcomes("step_down") :
          Update(r.cand, StepDown(x, r.term, ok))
    /\ UNCHANGED <<electing, handling, requests, restarts,
                   votes, elected, aborted>>

\* VoteBallotCtx::set_disrupted_leader, when the answer names one.
Learned(x, r) ==
    IF r.disrupted
    THEN [x EXCEPT !.vote_ctx.disrupted =
                      [peer |-> r.peer, term |-> r.previous_term]]
    ELSE x

\* VoteBallotCtx::reserve.
Reserve(x, p) == [x EXCEPT !.vote_ctx.reserved = @ \union {p}]

\* retry_vote_on_reserved_peers: the state after it has popped the peers.
Retried(x) == IF x.vote_ctx.disrupted.term = -1 THEN x
              ELSE [x EXCEPT !.vote_ctx.reserved = {}]
RetryRequests(n, x) == IF x.vote_ctx.disrupted.term = -1 THEN {}
                       ELSE VoteRequests(n, x, x.vote_ctx.reserved)

\* handle_request_vote_response of a grant. The vote of the last leader this
\* node followed carries the node's own with it.
GrantedVoteResponse(r) ==
    LET n == r.cand
        x == Learned(node[n], r)
        y == IF r.peer = x.last_leader THEN GrantOwn(Grant(x, r.peer), n)
             ELSE Grant(x, r.peer)
    IN
    /\ Expected(r, x) /\ r.term <= x.current_term /\ r.granted
    /\ responses' = responses \ {r}
    /\ \/ /\ IsGranted(y.vote_ctx.granted)
          /\ Update(n, BecomeLeader(n, y))
          /\ elected' = elected \union
                {[leader |-> n, term |-> y.current_term,
                  version |-> y.vote_ctx.version]}
          /\ UNCHANGED requests
       \/ /\ ~IsGranted(y.vote_ctx.granted)
          /\ Update(n, Retried(y))
          /\ requests' = requests \union RetryRequests(n, y)
          /\ UNCHANGED elected
    /\ UNCHANGED <<electing, handling, restarts, votes, aborted>>

\* handle_request_vote_response of a refusal because of the lease: the peer
\* is asked again once the old leader is known to be disrupted.
LeaseRejectedVoteResponse(r) ==
    LET n == r.cand
        x == Learned(node[n], r)
        y == Reserve(x, r.peer)
    IN
    /\ Expected(r, x) /\ r.term <= x.current_term /\ ~r.granted /\ r.by_lease
    /\ responses' = responses \ {r}
    /\ Update(n, Retried(y))
    /\ requests' = requests \union RetryRequests(n, y)
    /\ UNCHANGED <<electing, handling, restarts, votes, elected, aborted>>

-----------------------------------------------------------------------------
(* Following a leader, and losing one.                                     *)

\* reset_leader_id to a leader, and FollowerLease::renew.
SetLeader(x, l) == [x EXCEPT !.leader_id = l]
RenewLease(x, l) == [x EXCEPT !.last_leader = l, !.leased = TRUE]

\* check_step_down: step down for a leader of this or of a later term, and
\* record it unless this node already follows one in this term.
CheckStepDown(x, t, server_id, ok) ==
    LET y == IF \/ t > x.current_term
                \/ x.state # "FOLLOWER"
                \/ x.leader_id = NONE
             THEN StepDown(x, t, ok) ELSE x
    IN IF y.leader_id = NONE THEN SetLeader(y, server_id) ELSE y

\* The election side of handle_append_entries_request and of
\* handle_install_snapshot_request, on a message of the leadership e: two
\* leaders in one term make both step down to the next term. InstallSnapshot
\* and a request out of the AppendEntriesCache do not renew the lease.
HandleLeaderMessage(n, e) ==
    /\ node[n].state \in Active
    /\ e.leader # n /\ e.term >= node[n].current_term
    /\ \E ok \in SaveOutcomes("step_down") :
         LET x == CheckStepDown(node[n], e.term, e.leader, ok) IN
         \/ /\ x.leader_id = e.leader
            /\ Update(n, x) \/ Update(n, RenewLease(x, e.leader))
         \/ /\ x.leader_id # e.leader /\ e.term < MaxTerm
            /\ Update(n, StepDown(x, e.term + 1, ok))
    /\ UNCHANGED <<electing, handling, requests, responses, restarts,
                   votes, elected, aborted>>

\* step_down to a higher term: increase_term_to (a replicator's response),
\* a TimeoutNow request or a pre-vote response of that term, reset_peers.
IncreaseTermTo(n, t) ==
    /\ node[n].state \in Active /\ t > node[n].current_term
    /\ \E ok \in SaveOutcomes("step_down") :
          Update(n, StepDown(node[n], t, ok))
    /\ UNCHANGED <<electing, handling, requests, responses, restarts,
                   votes, elected, aborted>>

\* handle_election_timeout: the leader is uncertain.
HandleElectionTimeout(n) ==
    /\ node[n].state = "FOLLOWER" /\ node[n].leader_id # NONE
    /\ Update(n, SetLeader(node[n], NONE))
    /\ UNCHANGED <<electing, handling, requests, responses, restarts,
                   votes, elected, aborted>>

\* handle_stepdown_timeout: a majority of the group looks dead.
HandleStepdownTimeout(n) ==
    /\ node[n].state \in Leading
    /\ Update(n, StepDown(node[n], node[n].current_term, TRUE))
    /\ UNCHANGED <<electing, handling, requests, responses, restarts,
                   votes, elected, aborted>>

\* transfer_leadership_to and handle_transfer_timeout.
TransferLeadership(n) ==
    /\ \/ /\ node[n].state = "LEADER"
          /\ Update(n, SetState(node[n], "TRANSFERRING"))
       \/ /\ node[n].state = "TRANSFERRING"
          /\ Update(n, SetState(node[n], "LEADER"))
    /\ UNCHANGED <<electing, handling, requests, responses, restarts,
                   votes, elected, aborted>>

-----------------------------------------------------------------------------
(* Errors, shutdown, crash and restart.                                    *)

\* on_error: the node takes no further part in the group.
OnError(n) ==
    /\ node[n].state \in Active
    /\ Update(n, SetState(StepDown(node[n], node[n].current_term, TRUE), "ERROR"))
    /\ UNCHANGED <<electing, handling, requests, responses, restarts,
                   votes, elected, aborted>>

\* shutdown; the calls that have released the mutex are still to come back.
Shutdown(n) ==
    /\ node[n].state \in Active \union {"ERROR"}
    /\ Update(n, SetState(StepDown(node[n], node[n].current_term, TRUE), "SHUTTING"))
    /\ UNCHANGED <<electing, handling, requests, responses, restarts,
                   votes, elected, aborted>>

\* The process exits or crashes, at any point.
Crash(n) ==
    /\ node[n].state # "DOWN"
    /\ Halt(n, node[n], electing)
    /\ UNCHANGED <<requests, restarts, votes, elected, aborted>>

\* The process of elect_self stops when the requests are out and the vote is
\* not yet saved.
CrashInElectSelf(e) ==
    LET x == SetLastLogId(node[e.node], e.last) IN
    /\ e.term = x.current_term
    /\ requests' = requests \union VoteRequests(e.node, x, Server)
    /\ Halt(e.node, x, electing)
    /\ UNCHANGED <<restarts, votes, elected, aborted>>

\* Mutant: the term read is taken for the next one.
StartedBehind(x, m) ==
    [x EXCEPT !.state = "FOLLOWER", !.current_term = m.term - 1,
              !.voted_id = m.votedfor, !.meta = m, !.leader_id = NONE,
              !.leased = ~(m.term = 1 /\ m.votedfor = NONE)]

\* init: the term and the vote come from the meta, unless the log shows a
\* higher term; then the next one is used, and saved before it is. A first
\* start may vote at once, any other waits for the lease it may have given.
Started(x, m) ==
    [x EXCEPT !.state = "FOLLOWER", !.current_term = m.term,
              !.voted_id = m.votedfor, !.meta = m, !.leader_id = NONE,
              !.leased = ~(m.term = 1 /\ m.votedfor = NONE)]

Restart(n, last) ==
    LET x == node[n]
        behind == x.meta.term < last.term
        m == IF behind THEN [term |-> last.term + 1, votedfor |-> NONE]
             ELSE x.meta
    IN
    /\ x.state = "DOWN" /\ restarts < MaxRestarts
    /\ m.term <= MaxTerm
    /\ restarts' = restarts + 1
    /\ \/ Update(n, Started(x, m))
       \/ /\ behind /\ FALSE \in SaveOutcomes("init")
          /\ UNCHANGED node
    /\ UNCHANGED <<electing, handling, requests, responses,
                   votes, elected, aborted>>

-----------------------------------------------------------------------------
ServerStep(n) ==
    \/ HandleGrantSelfTimedout(n)
    \/ HandleVoteTimeout(n)
    \/ \E e \in elected : HandleLeaderMessage(n, e)
    \/ \E t \in Term : IncreaseTermTo(n, t)
    \/ HandleElectionTimeout(n)
    \/ HandleStepdownTimeout(n)
    \/ TransferLeadership(n)

ProcessStep(n) ==
    \/ Crash(n)
    \/ \E e \in electing : e.node = n /\ CrashInElectSelf(e)
    \/ \E last \in LogIds : Restart(n, last)

VoteStep ==
    \/ \E e \in electing : ElectSelfAbandoned(e) \/ ElectSelfResume(e)
    \/ \E r \in requests, last \in LogIds : HandleRequestVoteRequest(r, last)
    \/ \E h \in handling : HandleRequestVoteResume(h)
    \/ \E r \in responses :
          \/ DiscardVoteResponse(r)
          \/ HigherTermVoteResponse(r)
          \/ GrantedVoteResponse(r)
          \/ LeaseRejectedVoteResponse(r)

Next ==
    \/ VoteStep
    \/ \E n \in Server, last \in LogIds, b \in BOOLEAN :
          <<n, node[n].current_term + 1>> \in Starters /\ ElectSelf(n, last, b)
    \/ \E n \in Server : ServerStep(n)
    \/ \E n \in Faulty : OnError(n) \/ Shutdown(n)
    \/ \E n \in Crashing : ProcessStep(n)

Spec == Init /\ [][Next]_vars

-----------------------------------------------------------------------------
(* Properties.                                                             *)

\* A term has at most one leadership: no two nodes lead in one term, and no
\* node is elected twice in one, whatever crashes or steps down in between
\* (become_leader, and what handle_append_entries_request calls "More than
\* one leader in the same term").
ElectionSafety ==
    \A e1, e2 \in elected : e1.term = e2.term => e1 = e2

\* A node that leads has made its vote of that term durable, so that after a
\* crash it can neither vote nor be elected in it again (elect_self saves the
\* vote after it has asked for the others').
LeaderVoteDurable ==
    \A n \in Server : node[n].state \in Leading =>
        node[n].meta = [term |-> node[n].current_term, votedfor |-> n]

\* A node follows only a server that did win the node's current term
\* (check_step_down, reset_leader_id).
FollowsElectedLeader ==
    \A n \in Server : node[n].leader_id # NONE =>
        \E e \in elected : /\ e.leader = node[n].leader_id
                           /\ e.term = node[n].current_term

\* A vote once given binds: no server has made two different votes durable in
\* one term, across unlocks, failed saves and restarts.
VoteOncePerTerm ==
    \A v, w \in votes : v.voter = w.voter /\ v.term = w.term => v.cand = w.cand

\* CHECK(_state == STATE_CANDIDATE) of become_leader never fails.
BecomeLeaderChecked == ~aborted

-----------------------------------------------------------------------------
(* The inductive invariant behind ElectionSafety.                          *)

HasVoted(n, t, c) == Vote(n, t, c) \in votes

\* What node n in state x believes is backed by the durable votes V: its own
\* memory of its vote, the ballots it has counted, the term it leads; and a
\* candidate is in none of the leaderships E of its term.
NodeOK(n, x, V, E) ==
    /\ x.meta.term <= x.current_term
    /\ x.meta.votedfor # NONE => Vote(n, x.meta.term, x.meta.votedfor) \in V
    /\ x.meta.term = x.current_term /\ x.meta.votedfor # NONE =>
          x.voted_id = x.meta.votedfor
    /\ x.voted_id \in Server \ {n} => Vote(n, x.current_term, x.voted_id) \in V
    /\ x.state \in Leading => Vote(n, x.current_term, n) \in V
    /\ x.state = "CANDIDATE" =>
          /\ \A p \in x.vote_ctx.granted : Vote(p, x.current_term, n) \in V
          /\ x.vote_ctx.timer => Vote(n, x.current_term, n) \in V
          /\ \A e \in E : ~(e.leader = n /\ e.term = x.current_term)
NodeInv == \A n \in Server : NodeOK(n, node[n], votes, elected)

\* A durable vote stays in the meta until a later term replaces it.
VotesInv ==
    \A v \in votes :
        \/ node[v.voter].meta.term > v.term
        \/ node[v.voter].meta = [term |-> v.term, votedfor |-> v.cand]

\* A suspended elect_self is of a term not later than the node's, and as long
\* as the term is the same so is the vote for itself.
ElectingInv ==
    \A e \in electing :
        /\ node[e.node].state # "DOWN"
        /\ e.term <= node[e.node].current_term
        /\ e.term = node[e.node].current_term => node[e.node].voted_id = e.node

\* The round v of candidate c's requests is over, or its own vote is durable.
Backed(c, t, v) ==
    v < node[c].vote_ctx.version \/ HasVoted(c, t, c)

\* Every message of a round that still counts comes from a candidate whose own
\* vote is durable, and a granted vote is durable at the voter.
MessagesInv ==
    /\ \A r \in requests : r.peer # r.cand /\ Backed(r.cand, r.term, r.version)
    /\ \A h \in handling :
          /\ h.req.peer # h.req.cand
          /\ Backed(h.req.cand, h.req.term, h.req.version)
    /\ \A r \in responses :
          /\ Backed(r.cand, r.req_term, r.version)
          /\ r.granted => HasVoted(r.peer, r.req_term, r.cand)

\* Every leadership was won with the durable votes of a majority.
ElectedInv ==
    \A e \in elected :
        /\ HasVoted(e.leader, e.term, e.leader)
        /\ \E Q \in SUBSET Server :
              IsGranted(Q) /\ \A q \in Q : HasVoted(q, e.term, e.leader)

\* The strengthening of ElectionSafety that every step preserves, provided
\* elect_self's save does not fail.
ElectionInv ==
    /\ TypeOK /\ NodeInv /\ VotesInv /\ ElectingInv /\ MessagesInv
    /\ ElectedInv /\ VoteOncePerTerm /\ FollowsElectedLeader /\ ElectionSafety
====

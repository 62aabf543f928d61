---------------------------- MODULE Replication ----------------------------
(***************************************************************************)
(* Log replication and commitment in a braft group (src/src/braft/node.cpp,*)
(* ballot_box.cpp, replicator.cpp): leaders append and replicate entries,  *)
(* followers resolve conflicts, store and acknowledge, leaders commit what *)
(* a majority has stored, votes are given by the last log id.              *)
(*                                                                         *)
(* An entry is the term of its leader. The messages of a leader are not    *)
(* kept one by one: at any time a follower may receive any AppendEntries   *)
(* that a leadership in `led' may have sent so far, however late, and any  *)
(* other message ever sent; so messages are lost, delayed and reordered.   *)
(* The LogManager is given by what LogManager.tla shows of it: a log in    *)
(* memory, one on disk, and closures that run when the one has become the  *)
(* other. Elections are those of Election.tla with saves that succeed; of  *)
(* their two windows without the mutex the voter's is kept, since the log  *)
(* can change in it (SpecWindow).                                          *)
(***************************************************************************)
EXTENDS SequencesExt, Integers

CONSTANTS
    Server,       \* the peers of the group
    NONE,         \* the empty PeerId
    Candidates,   \* bound: the servers that may run for each term
    Applying,     \* bound: the terms whose leaders are given tasks
    Crashing,     \* bound: the servers that crash
    MaxTerm,      \* bound on terms
    MaxLog,       \* bound on the length of the log
    MaxCrashes    \* bound on the number of crashes

ASSUME ServerAssumption == IsFiniteSet(Server) /\ NONE \notin Server
ASSUME BoundAssumption ==
    /\ Candidates \in [1..MaxTerm -> SUBSET Server]
    /\ Applying \subseteq 1..MaxTerm /\ Crashing \subseteq Server
    /\ MaxTerm \in Nat \ {0} /\ MaxLog \in Nat /\ MaxCrashes \in Nat

VARIABLES
    node,      \* the NodeImpl, BallotBox and LogManager of each server
    led,       \* for each term what its leader has said: its log and commits
    closures,  \* FollowerStableClosures that wait for the disk
    acked,     \* for each term the entries a peer has told its leader it has stored
    requests,  \* RequestVote requests
    voting,    \* handle_request_vote_request calls without the mutex
    grants,    \* granted votes
    commits,   \* history: the log up to each index that a leader committed
    crashes    \* number of crashes so far
vars == <<node, led, closures, acked, requests, voting, grants, commits, crashes>>

Term == 1..MaxTerm
Logs == UNION {[1..k -> Term] : k \in 0..MaxLog}
LastTerm(l) == IF l = <<>> THEN 0 ELSE Last(l)
LastId(l) == [index |-> Len(l), term |-> LastTerm(l)]

Node == [state: {"FOLLOWER", "CANDIDATE", "LEADER"}, term: Term,
         voted: Server \union {NONE}, log: Logs, disk: Logs,
         pending: 0..MaxLog + 1, committed: 0..MaxLog]
LogId == [index: 0..MaxLog, term: 0..MaxTerm]
Request == [cand: Server, term: Term, last: LogId]

\* Every part of the state has its type, and what the ballot box calls
\* committed is in the log, below what is pending.
TypeOK ==
    /\ node \in [Server -> Node]
    /\ \A n \in Server :
          /\ node[n].committed <= Len(node[n].log)
          /\ node[n].pending # 0 =>
                /\ node[n].state = "LEADER"
                /\ node[n].pending \in node[n].committed + 1..Len(node[n].log) + 1
    /\ led \in [Term -> [leader: Server \union {NONE}, log: Logs,
                         committed: 0..MaxLog]]
    /\ closures \subseteq [peer: Server, term: Term, last: 1..MaxLog,
                           committed: 0..MaxLog]
    /\ acked \in [Term -> [Server -> 0..MaxLog]]
    /\ requests \subseteq Request
    /\ voting \subseteq [voter: Server, request: Request, previous_term: Term,
                         last_log_id: LogId]
    /\ grants \subseteq [voter: Server, cand: Server, term: Term]
    /\ commits \subseteq [log: Logs, term: Term]
    /\ crashes \in 0..MaxCrashes

Init ==
    /\ node = [n \in Server |->
                 [state |-> "FOLLOWER", term |-> 1, voted |-> NONE,
                  log |-> <<>>, disk |-> <<>>, pending |-> 0, committed |-> 0]]
    /\ led = [t \in Term |-> [leader |-> NONE, log |-> <<>>, committed |-> 0]]
    /\ closures = {} /\ acked = [t \in Term |-> [n \in Server |-> 0]] /\ requests = {} /\ voting = {}
    /\ grants = {} /\ commits = {} /\ crashes = 0

Update(n, x) == node' = [node EXCEPT ![n] = x]
Majority(S) == 2 * Cardinality(S) > Cardinality(Server)
Least(a, b) == IF a < b THEN a ELSE b

-----------------------------------------------------------------------------
(* Elections, as far as they decide what logs leaders have.                *)

\* step_down, to a higher term or within the term: clear_pending_tasks.
StepDown(x, t) ==
    [x EXCEPT !.state = "FOLLOWER", !.term = t,
              !.voted = IF t > x.term THEN NONE ELSE @,
              !.pending = 0]

\* elect_self. last_log_id(true) has waited for the disk.
ElectSelf(n) ==
    LET x == node[n] IN
    /\ x.state # "LEADER" /\ x.term < MaxTerm /\ n \in Candidates[x.term + 1]
    /\ x.disk = x.log
    /\ Update(n, [x EXCEPT !.state = "CANDIDATE", !.term = @ + 1, !.voted = n])
    /\ requests' = requests \union
          {[cand |-> n, term |-> x.term + 1, last |-> LastId(x.log)]}
    /\ UNCHANGED <<led, closures, acked, voting, grants, commits, crashes>>

\* Mutant: the index does not count.
LogIsOkByTerm(a, b) == a.term >= b.term
\* LogId::operator>= .
LogIsOk(a, b) == a.term > b.term \/ (a.term = b.term /\ a.index >= b.index)

\* What handle_request_vote_request does to the node x for the request r when
\* it holds the mutex again, with the last log id it has read: step down to
\* the term of the request, and vote if the candidate's log is not older.
Vote(x, r, last_log_id) ==
    LET y == IF r.term > x.term THEN StepDown(x, r.term) ELSE x
    IN  IF LogIsOk(r.last, last_log_id) /\ y.voted = NONE
        THEN [StepDown(y, r.term) EXCEPT !.voted = r.cand] ELSE y

Respond(n, r, y) ==
    /\ Update(n, y)
    /\ grants' = IF y.term = r.term /\ y.voted = r.cand
                 THEN grants \union {[voter |-> n, cand |-> r.cand, term |-> r.term]}
                 ELSE grants

\* handle_request_vote_request when the log does not change while the node has
\* let its mutex go: last_log_id(true) waits for the disk.
HandleRequestVoteRequest(n, r) ==
    LET x == node[n] IN
    /\ n # r.cand /\ r.term >= x.term /\ x.disk = x.log
    /\ Respond(n, r, Vote(x, r, LastId(x.log)))
    /\ UNCHANGED <<led, closures, acked, requests, voting, commits, crashes>>

\* The same call in two steps: unlock and last_log_id(true); then the lock
\* again, and nothing if the term has changed. Bound: one such call at a time.
RequestVoteUnlock(n, r) ==
    LET x == node[n] IN
    /\ n # r.cand /\ r.term >= x.term /\ x.disk = x.log
    /\ voting = {}
    /\ voting' = {[voter |-> n, request |-> r, previous_term |-> x.term,
                   last_log_id |-> LastId(x.log)]}
    /\ UNCHANGED <<node, led, closures, acked, requests, grants, commits, crashes>>

RequestVoteLock(v) ==
    LET x == node[v.voter] IN
    /\ voting' = voting \ {v}
    /\ IF x.term = v.previous_term
       THEN Respond(v.voter, v.request, Vote(x, v.request, v.last_log_id))
       ELSE UNCHANGED <<node, grants>>
    /\ UNCHANGED <<led, closures, acked, requests, commits, crashes>>

\* The leader n, in the state x, appends an entry of its term to its log. What
\* its leadership may send is then this log and the last_committed_index of its
\* ballot box.
Extend(n, x) ==
    LET l == Append(x.log, x.term) IN
    /\ Len(l) <= MaxLog
    /\ Update(n, [x EXCEPT !.log = l])
    /\ led' = [led EXCEPT ![x.term] =
                 [leader |-> n, log |-> l, committed |-> x.committed]]

\* handle_request_vote_response with the last ballot needed, and become_leader:
\* reset_pending_index, then the configuration entry that starts the term. What
\* the node has learned as a follower is committed stays in its ballot box: it
\* goes out with the first messages of the new leader.
BecomeLeader(n) ==
    LET x == node[n] IN
    /\ x.state = "CANDIDATE"
    /\ Majority({n} \union {g.voter : g \in {h \in grants :
                                h.cand = n /\ h.term = x.term}})
    /\ Extend(n, [x EXCEPT !.state = "LEADER", !.pending = Len(x.log) + 1])
    /\ UNCHANGED <<closures, acked, requests, voting, grants, commits, crashes>>

\* An answer of a peer of a higher term, to a candidate or a leader:
\* increase_term_to.
IncreaseTermTo(n, m) ==
    /\ node[n].state # "FOLLOWER" /\ node[m].term > node[n].term
    /\ Update(n, StepDown(node[n], node[m].term))
    /\ UNCHANGED <<led, closures, acked, requests, voting, grants, commits, crashes>>

-----------------------------------------------------------------------------
(* Replication.                                                            *)

\* NodeImpl::apply.
Apply(n) ==
    /\ node[n].state = "LEADER" /\ node[n].term \in Applying
    /\ Extend(n, node[n])
    /\ UNCHANGED <<closures, acked, requests, voting, grants, commits, crashes>>

\* BallotBox::set_last_committed_index, of a node that is not a leader.
SetLastCommittedIndex(x, i) ==
    IF x.pending = 0 /\ i > x.committed THEN [x EXCEPT !.committed = i] ELSE x

\* Mutant: what is behind a conflict stays.
AddEntriesUncut(l, e, prev, k) == SubSeq(e, 1, k) \o SubSeq(l, k + 1, Len(l))
\* check_and_resolve_conflict and append_entries: the log l with the entries
\* prev + 1 .. k of the log e; it is cut only where it differs.
AddEntries(l, e, prev, k) ==
    IF k <= Len(l) /\ \A i \in prev + 1..k : l[i] = e[i] THEN l
    ELSE SubSeq(e, 1, k)

\* The peer n tells the leader of term t that it has the entries up to k. The
\* responses are not told apart: what the leader does with one, it may do at
\* any time from then on, or never.
Ack(n, t, k) ==
    [acked EXCEPT ![t][n] = IF k > @ THEN k ELSE @]

\* The log l has the entry of the log e at the index prev (0: the start).
Reaches(l, e, prev) == prev <= Len(l) /\ \A i \in {prev} \ {0} : l[i] = e[i]

\* handle_append_entries_request with the entries prev + 1 .. k of the leader
\* of term t (none: a heartbeat, or a probe of the replicator) and its commit
\* index c: check_step_down, the test of the entry before, then the entries.
\* Entries that are all applied are acknowledged at once. A request after which
\* nothing differs is no step.
HandleAppendEntriesRequest(n, t, prev, k) ==
    LET e == led[t].log
        c == led[t].committed
        x == IF t > node[n].term \/ node[n].state # "FOLLOWER"
             THEN StepDown(node[n], t) ELSE node[n]
    IN
    /\ led[t].leader \notin {NONE, n} /\ t >= node[n].term
    /\ \/ /\ ~Reaches(x.log, e, prev)
          /\ node[n] # x /\ Update(n, x)
          /\ UNCHANGED <<closures, acked>>
       \/ /\ Reaches(x.log, e, prev)
          /\ \/ /\ k = prev
                /\ node[n] # SetLastCommittedIndex(x, Least(c, prev))
                /\ Update(n, SetLastCommittedIndex(x, Least(c, prev)))
                /\ UNCHANGED <<closures, acked>>
             \/ /\ k \in prev + 1..x.committed
                /\ Update(n, x)
                /\ acked' = Ack(n, t, k) /\ UNCHANGED closures
                /\ node[n] # x \/ acked[t][n] < k
             \/ /\ k > prev
                /\ \A o \in closures : o.peer # n \/ o.term # t
                /\ Update(n, [x EXCEPT !.log = AddEntries(@, e, prev, k)])
                /\ closures' = closures \union
                      {[peer |-> n, term |-> t, last |-> k, committed |-> Least(c, k)]}
                /\ UNCHANGED acked
    /\ UNCHANGED <<led, requests, voting, grants, commits, crashes>>

\* Mutant: every ballot counts.
GrantedAny(t, i) == \E p \in Server : acked[t][p] >= i
\* The ballot of the entry i of the leader of term t is granted.
Granted(t, i) == Majority({p \in Server : acked[t][p] >= i})

\* BallotBox::commit_at, of Replicator::_on_rpc_returned or of the leader's own
\* LeaderStableClosure, with the response that brings the ballot of entry i,
\* and of those before it, to a majority. Nothing below pending_index, which
\* become_leader set to the first entry of its term, is counted.
CommitAt(n, i) ==
    LET x == node[n] IN
    /\ x.pending # 0 /\ i \in x.pending..Len(x.log)
    /\ Granted(x.term, i)
    /\ Update(n, [x EXCEPT !.committed = i, !.pending = i + 1])
    /\ led' = [led EXCEPT ![x.term].committed = i]
    /\ commits' = commits \union {[log |-> SubSeq(x.log, 1, i), term |-> x.term]}
    /\ UNCHANGED <<closures, acked, requests, voting, grants, crashes>>

\* Mutant: nothing is written before the closures run.
WrittenUnsynced(x) == x
\* LogStorage::append_entries and truncate_suffix, of all that is queued.
Written(x) == [x EXCEPT !.disk = x.log]

\* The disk thread: what is in the log is on disk, and the closures run. A
\* LeaderStableClosure grants the leader's ballot; a FollowerStableClosure
\* answers if the term is still its own, and takes over the commit index.
Flush(n) ==
    LET x == Written(node[n])
        run == {c \in closures : c.peer = n}
        live == {c \in run : c.term = x.term}
    IN
    /\ run # {} \/ node[n] # x
    /\ closures' = closures \ run
    /\ acked' = IF x.state = "LEADER" THEN Ack(n, x.term, Len(x.log))
                ELSE IF live = {} THEN acked
                ELSE Ack(n, x.term, Max({c.last : c \in live}))
    /\ Update(n, SetLastCommittedIndex(x, Max({0} \union {c.committed : c \in live})))
    /\ UNCHANGED <<led, requests, voting, grants, commits, crashes>>

\* The process stops; the next one finds the term, the vote and the log on
\* disk, and takes over no commit index.
Crash(n) ==
    /\ crashes < MaxCrashes /\ crashes' = crashes + 1
    /\ Update(n, [StepDown(node[n], node[n].term) EXCEPT
                    !.log = node[n].disk, !.committed = 0])
    /\ closures' = {c \in closures : c.peer # n}
    /\ voting' = {v \in voting : v.voter # n}
    /\ UNCHANGED <<led, acked, requests, grants, commits>>

-----------------------------------------------------------------------------
Next ==
    \/ \E n \in Server : ElectSelf(n)
    \/ \E n \in Server, r \in requests : HandleRequestVoteRequest(n, r)
    \/ \E n \in Server : BecomeLeader(n)
    \/ \E n, m \in Server : IncreaseTermTo(n, m)
    \/ \E n \in Server : Apply(n)
    \/ \E n \in Server, t \in Term : \E k \in 0..Len(led[t].log) :
          \E prev \in 0..k : HandleAppendEntriesRequest(n, t, prev, k)
    \/ \E n \in Server : Flush(n)
    \/ \E n \in Server, i \in 1..MaxLog : CommitAt(n, i)
    \/ \E n \in Crashing : Crash(n)

Spec == Init /\ [][Next]_vars

\* The same with the window of a vote, in which the log may change.
NextWindow ==
    \/ Next
    \/ \E n \in Server, r \in requests : RequestVoteUnlock(n, r)
    \/ \E v \in voting : RequestVoteLock(v)

SpecWindow == Init /\ [][NextWindow]_vars

-----------------------------------------------------------------------------
(* Properties.                                                             *)

\* A leader has every entry that a leader of an earlier term has committed:
\* the test of the last log id in handle_request_vote_request and the rule of
\* the ballot box, which counts only entries of the leader's own term, keep
\* committed entries alive across elections, crashes and late messages.
LeaderCompleteness ==
    \A c \in commits, t \in Term :
       t > c.term /\ led[t].leader # NONE => IsPrefix(c.log, led[t].log)

\* Two logs, in memory or on disk, that have an entry of the same term at the
\* same index agree up to it, across truncations and crashes.
Matching(l, m) ==
    \A i \in 1..Least(Len(l), Len(m)) :
       l[i] = m[i] => SubSeq(l, 1, i) = SubSeq(m, 1, i)
LogMatching ==
    /\ TypeOK
    /\ LET logs == UNION {{node[n].log, node[n].disk} : n \in Server}
       IN  \A l, m \in logs : Matching(l, m)

\* A committed entry is on the disk of a majority from then on: no crash of a
\* minority, no truncation and no acknowledgement that was given without the
\* disk (entries that are already applied) takes it away.
CommittedIsDurable ==
    \A c \in commits : Majority({n \in Server : IsPrefix(c.log, node[n].disk)})

\* What two leaders commit does not differ at any index: raft.h promises of
\* Iterator::index that "committed tasks in different peers with the same index
\* are always the same and kept unchanged".
CommittedUnique ==
    \A c, d \in commits : IsPrefix(c.log, d.log) \/ IsPrefix(d.log, c.log)

\* What the group does is what ReplicatedLog promises: the committed entries
\* form one log that only grows, and every node applies a prefix of it.
Chosen == IF commits = {} THEN <<>>
          ELSE (CHOOSE c \in commits : \A d \in commits : Len(d.log) <= Len(c.log)).log
Abstract == INSTANCE ReplicatedLog WITH
    Replica <- Server, chosen <- Chosen,
    delivered <- [n \in Server |-> SubSeq(node[n].log, 1, node[n].committed)]
ImplementsReplicatedLog == Abstract!Spec
=============================================================================

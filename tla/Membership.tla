----------------------------- MODULE Membership -----------------------------
(***************************************************************************)
(* Changing the peers of a group (node.cpp, configuration_manager.cpp,     *)
(* ballot.cpp and ballot_box.cpp in src/src/braft): the stages of a change *)
(* on the leader, the configurations in the logs of all nodes, catching up *)
(* of new peers, leaders that fall and come back between the stages.       *)
(*                                                                         *)
(* An election and the copying of a part of a log are one step each        *)
(* (modules Election and Replicator have their details); what a node has   *)
(* in its log, and its term, survive a restart.                            *)
(***************************************************************************)
EXTENDS Integers, Sequences, SequencesExt, FiniteSets, FiniteSetsExt

CONSTANTS
    Node,       \* all peers that take part
    InitConf,   \* initial_conf
    Targets,    \* the configurations asked for
    MaxTerm,    \* bound on terms
    MaxLog,     \* bound on the length of a log
    MaxVersion  \* bound on the changes that one node ends

ASSUME MembershipAssumption ==
    /\ IsFiniteSet(Node) /\ InitConf \subseteq Node /\ InitConf # {}
    /\ Targets \subseteq (SUBSET Node) \ {{}}
    /\ {MaxTerm, MaxLog, MaxVersion} \subseteq Nat \ {0}

VARIABLES
    term,     \* _current_term
    log,      \* data and configuration entries
    role,     \* _state
    ctx,      \* _conf_ctx
    repl,     \* the peers in _replicator_group
    match,    \* what each peer has acknowledged to this leader
    commit,   \* _last_committed_index of a leader
    waits,    \* CatchupClosures, and whether they are about to run
    dones,    \* ConfigurationChangeDones about to run
    chosen,   \* history: the longest log committed, and in which term
    bad       \* history: a CHECK failed
vars == <<term, log, role, ctx, repl, match, commit, waits, dones, chosen, bad>>

NoCtx == [stage |-> "none", new |-> {}, old |-> {}, nchanges |-> 0, adding |-> {},
          version |-> 0]
NoMatch == [m \in Node |-> 0]

Init ==
    /\ term = [n \in Node |-> 1]
    /\ log = [n \in Node |-> <<>>]
    /\ role = [n \in Node |-> "follower"]
    /\ ctx = [n \in Node |-> NoCtx]
    /\ repl = [n \in Node |-> {}]
    /\ match = [n \in Node |-> NoMatch]
    /\ commit = [n \in Node |-> 0]
    /\ waits = {} /\ dones = {}
    /\ chosen = [log |-> <<>>, term |-> 0]
    /\ bad = FALSE

----------------------------------------------------------------------------
(* Configurations. *)

Data(t) == [term |-> t, kind |-> "data", new |-> {}, old |-> {}]
ConfEntry(t, new, old) == [term |-> t, kind |-> "conf", new |-> new, old |-> old]

\* ConfigurationManager: the last configuration of the first i entries.
ConfAt(l, i) ==
    LET confs == {j \in 1..i : l[j].kind = "conf"}
    IN  IF confs = {} THEN [new |-> InitConf, old |-> {}]
        ELSE [new |-> l[Max(confs)].new, old |-> l[Max(confs)].old]

\* check_and_set_configuration, called whenever the log changes.
Conf(n) == ConfAt(log[n], Len(log[n]))
Peers(c) == c.new \union c.old

IsQuorum(S, c) == 2 * Cardinality(S \intersect c) > Cardinality(c)

\* Ballot: a quorum of the new and, in a joint configuration, of the old peers.
\* Mutant: the old peers are not asked.
GrantedByNew(S, c) == IsQuorum(S, c.new)
Granted(S, c) == IsQuorum(S, c.new) /\ (c.old # {} => IsQuorum(S, c.old))

is_busy(c) == c.stage # "none"

----------------------------------------------------------------------------
(* Elections. *)

LastTerm(l) == IF l = <<>> THEN 0 ELSE Last(l).term
UpToDate(l, m) ==
    LastTerm(l) > LastTerm(m) \/ (LastTerm(l) = LastTerm(m) /\ Len(l) >= Len(m))

\* ConfigurationCtx::reset, and the replicators that it stops.
Stopped(c, ok) == IF ok THEN c.old \ c.new ELSE c.new \ c.old

Reset(c) == [NoCtx EXCEPT !.version = c.version + 1]
ResetCtx(c) == IF is_busy(c) THEN Reset(c) ELSE c

\* ConfigurationCtx::flush: the first entry of a leader is its configuration.
\* Mutant: a joint configuration is taken for the new one.
FlushSettled(c, conf) ==
    [c EXCEPT !.stage = "stable", !.new = conf.new, !.old = Peers(conf)]
Flush(c, conf) ==
    [c EXCEPT !.stage = IF conf.old = {} THEN "stable" ELSE "joint",
              !.new = conf.new,
              !.old = IF conf.old = {} THEN conf.new ELSE conf.old]

\* The peers that become_leader adds a replicator for.
FollowersOf(n, conf) == Peers(conf) \ {n}

\* The entries that the stages to come will append.
ToCome(c) == CASE c.stage = "catching" -> 2 [] c.stage = "joint" -> 1 [] OTHER -> 0

\* Node n is elected in term t by the votes of Q and becomes leader.
Elect(n, t, Q) ==
    LET conf == Conf(n)
    IN  /\ role[n] = "follower" /\ n \in Peers(conf)
        /\ t > term[n]
        /\ Q \subseteq Peers(conf) \ {n}
        /\ Granted(Q \union {n}, conf)
        /\ \A v \in Q : term[v] < t /\ UpToDate(log[n], log[v])
        /\ Len(log[n]) + (IF conf.old = {} THEN 1 ELSE 2) <= MaxLog
        /\ term' = [m \in Node |-> IF m \in Q \union {n} THEN t ELSE term[m]]
        /\ role' = [m \in Node |-> IF m = n THEN "leader"
                                   ELSE IF m \in Q THEN "follower" ELSE role[m]]
        /\ ctx' = [m \in Node |-> IF m = n THEN Flush(ctx[n], conf)
                                  ELSE IF m \in Q THEN ResetCtx(ctx[m]) ELSE ctx[m]]
        /\ log' = [log EXCEPT ![n] = Append(@, ConfEntry(t, conf.new, conf.old))]
        /\ repl' = [m \in Node |-> IF m = n THEN FollowersOf(n, conf)
                                   ELSE IF m \in Q THEN {} ELSE repl[m]]
        /\ match' = [m \in Node |-> IF m \in Q \union {n} THEN NoMatch ELSE match[m]]
        /\ UNCHANGED <<commit, waits, dones, chosen, bad>>

\* step_down: a leader hears of a higher term, finds too many peers dead, or its
\* process restarts (the closures it loses would have no effect).
StepDown(n) ==
    /\ role[n] = "leader"
    /\ role' = [role EXCEPT ![n] = "follower"]
    /\ ctx' = [ctx EXCEPT ![n] = ResetCtx(@)]
    /\ repl' = [repl EXCEPT ![n] = {}]
    /\ match' = [match EXCEPT ![n] = NoMatch]
    /\ UNCHANGED <<term, log, commit, waits, dones, chosen, bad>>

----------------------------------------------------------------------------
(* The log. *)

Apply(n) ==
    /\ role[n] = "leader" /\ Len(log[n]) + 1 + ToCome(ctx[n]) < MaxLog
    /\ log' = [log EXCEPT ![n] = Append(@, Data(term[n]))]
    /\ UNCHANGED <<term, role, ctx, repl, match, commit, waits, dones, chosen, bad>>

\* How many entries two logs share.
Common(l, m) ==
    Max({i \in 0..Min({Len(l), Len(m)}) : SubSeq(l, 1, i) = SubSeq(m, 1, i)})

\* AppendEntries to peer f, answered: the log of f up to entry k is the leader's.
Replicate(n, f, k) ==
    LET same == Common(log[n], log[f])
    IN  /\ role[n] = "leader" /\ f \in repl[n] /\ term[f] <= term[n]
        /\ k \in 1..Len(log[n]) /\ k > match[n][f] /\ k >= same
        /\ log' = IF k > same THEN [log EXCEPT ![f] = SubSeq(log[n], 1, k)] ELSE log
        /\ term' = [term EXCEPT ![f] = term[n]]
        /\ role' = [role EXCEPT ![f] = "follower"]
        /\ ctx' = [ctx EXCEPT ![f] = ResetCtx(@)]
        /\ repl' = [repl EXCEPT ![f] = {}]
        /\ match' = [match EXCEPT ![n][f] = k, ![f] = NoMatch]
        /\ UNCHANGED <<commit, waits, dones, chosen, bad>>

\* BallotBox::commit_at: the entries of a leader's own term have ballots, each of
\* the configuration that it was appended under; the last one granted commits all
\* before it.
Committable(n) ==
    {i \in (commit[n] + 1)..Len(log[n]) :
        /\ log[n][i].term = term[n]
        /\ Granted({n} \union {f \in Node : match[n][f] >= i}, ConfAt(log[n], i))}

Commit(n) ==
    /\ role[n] = "leader" /\ Committable(n) # {}
    /\ LET i == Max(Committable(n))
       IN  /\ commit' = [commit EXCEPT ![n] = i]
           /\ dones' = dones \union
                       {[node |-> n, term |-> term[n], index |-> j] :
                          j \in {j \in (commit[n] + 1)..i :
                                   log[n][j].kind = "conf" /\ log[n][j].term = term[n]}}
           /\ chosen' = IF i > Len(chosen.log)
                        THEN [log |-> SubSeq(log[n], 1, i), term |-> term[n]] ELSE chosen
    /\ UNCHANGED <<term, log, role, ctx, repl, match, waits, bad>>

----------------------------------------------------------------------------
(* A change of peers. *)

\* Mutant: every change is of one stage.
NeedsJointNever(c) == FALSE
NeedsJoint(c) == c.nchanges > 1

\* next_stage of the context c of leader n: unsafe_apply_configuration, or the end.
NextStage(n, c) ==
    IF c.stage = "catching" /\ NeedsJoint(c)
    THEN /\ ctx' = [ctx EXCEPT ![n] = [c EXCEPT !.stage = "joint"]]
         /\ log' = [log EXCEPT ![n] = Append(@, ConfEntry(term[n], c.new, c.old))]
         /\ UNCHANGED <<role, repl>>
    ELSE IF c.stage \in {"catching", "joint"}
    THEN /\ ctx' = [ctx EXCEPT ![n] = [c EXCEPT !.stage = "stable"]]
         /\ log' = [log EXCEPT ![n] = Append(@, ConfEntry(term[n], c.new, {}))]
         /\ UNCHANGED <<role, repl>>
    ELSE /\ ctx' = [ctx EXCEPT ![n] = Reset(c)]
         /\ role' = [role EXCEPT ![n] = IF n \in c.new THEN @ ELSE "follower"]
         /\ repl' = [repl EXCEPT ![n] = IF n \in c.new THEN @ \ Stopped(c, TRUE) ELSE {}]
         /\ UNCHANGED log

\* ConfigurationCtx::start: new peers have to catch up first.
Started(n, new, old) ==
    [ctx[n] EXCEPT !.stage = "catching", !.new = new, !.old = old,
                   !.nchanges = Cardinality((new \ old) \union (old \ new)),
                   !.adding = new \ old]
Start(n, c) ==
    IF c.adding = {}
    THEN NextStage(n, c) /\ UNCHANGED waits
    ELSE /\ ctx' = [ctx EXCEPT ![n] = c]
         /\ repl' = [repl EXCEPT ![n] = @ \union c.adding]
         /\ waits' = waits \union {[node |-> n, term |-> term[n], peer |-> p,
                                    version |-> c.version, st |-> "wait"] : p \in c.adding}
         /\ UNCHANGED <<role, log>>

\* add_peer, remove_peer and change_peers: unsafe_register_conf_change.
ChangePeers(n, new) ==
    /\ role[n] = "leader" /\ ~is_busy(ctx[n]) /\ new # Conf(n).new
    /\ Len(log[n]) + 2 <= MaxLog /\ ctx[n].version < MaxVersion
    /\ Start(n, Started(n, new, Conf(n).new))
    /\ UNCHANGED <<term, match, commit, dones, chosen, bad>>

\* The replicator of a new peer finds it near the end of the log, or gives up:
\* the closure will run in a thread of its own.
CatchUp(w) ==
    /\ w.st = "wait"
    /\ \E st \in {"ok", "fail"} :
        /\ st = "ok" => /\ role[w.node] = "leader" /\ term[w.node] = w.term
                        /\ w.peer \in repl[w.node]
                        /\ match[w.node][w.peer] = Len(log[w.node])
        /\ waits' = (waits \ {w}) \union {[w EXCEPT !.st = st]}
    /\ UNCHANGED <<term, log, role, ctx, repl, match, commit, dones, chosen, bad>>

VersionMatches(w, c) == w.version = c.version

\* ConfigurationCtx::on_caughtup.
CaughtUp(n, c, w) ==
    LET rest == [c EXCEPT !.adding = @ \ {w.peer}]
    IN  /\ bad' = (bad \/ c.stage # "catching")
        /\ IF w.st = "fail"
           THEN /\ ctx' = [ctx EXCEPT ![n] = Reset(c)]
                /\ repl' = [repl EXCEPT ![n] = @ \ Stopped(c, FALSE)]
                /\ UNCHANGED <<log, role>>
           ELSE IF rest.adding = {} THEN NextStage(n, rest)
           ELSE ctx' = [ctx EXCEPT ![n] = rest] /\ UNCHANGED <<log, role, repl>>

\* OnCaughtUp and on_caughtup of the node.
OnCaughtUp(w) ==
    LET n == w.node
    IN  /\ w.st # "wait"
        /\ waits' = waits \ {w}
        /\ IF role[n] = "leader" /\ term[n] = w.term /\ VersionMatches(w, ctx[n])
           THEN CaughtUp(n, ctx[n], w)
           ELSE UNCHANGED <<log, role, ctx, repl, bad>>
        /\ UNCHANGED <<term, match, commit, dones, chosen>>

\* Mutant: only the role is compared.
DoneIsFreshAnyTerm(d) == role[d.node] = "leader"
\* Mutant: a joint configuration is taken for the end of the change.
DoneIsFreshOnce(d) ==
    role[d.node] = "leader" /\ term[d.node] = d.term /\ ctx[d.node].stage # "joint"
\* on_configuration_change_done compares role and term.
DoneIsFresh(d) == role[d.node] = "leader" /\ term[d.node] = d.term

\* ConfigurationChangeDone and on_configuration_change_done.
OnConfigurationChangeDone(d) ==
    /\ dones' = dones \ {d}
    /\ IF DoneIsFresh(d)
       THEN /\ bad' = (bad \/ ~is_busy(ctx[d.node]))
            /\ NextStage(d.node, ctx[d.node])
       ELSE UNCHANGED <<log, role, ctx, repl, bad>>
    /\ UNCHANGED <<term, match, commit, waits, chosen>>

----------------------------------------------------------------------------

Next ==
    \/ \E n \in Node, t \in 2..MaxTerm : \E Q \in SUBSET (Node \ {n}) : Elect(n, t, Q)
    \/ \E n \in Node : StepDown(n) \/ Apply(n) \/ Commit(n)
    \/ \E n, f \in Node : \E k \in 1..MaxLog : Replicate(n, f, k)
    \/ \E n \in Node, new \in Targets : ChangePeers(n, new)
    \/ \E w \in waits : CatchUp(w) \/ OnCaughtUp(w)
    \/ \E d \in dones : OnConfigurationChangeDone(d)

Spec == Init /\ [][Next]_vars

\* What the threads of a node will do in any case: replicators send while a peer
\* lacks entries, a leader hears of a higher term from the peers it sends to,
\* entries are committed, closures run, the timer of a CatchupClosure runs out.
Ready ==
    \/ waits # {} \/ dones # {}
    \/ \E n \in Node : /\ role[n] = "leader"
                       /\ \/ Committable(n) # {}
                          \/ \E f \in repl[n] : \/ term[f] > term[n]
                                                \/ match[n][f] < Len(log[n])

\* Weak fairness of those steps, with the states that enable them spelled out:
\* a behaviour goes on as long as one of them is ready.
FairSpec == Spec /\ ([]<>~Ready \/ []<><<TRUE>>_vars)

----------------------------------------------------------------------------
(* Properties *)

Leaders == {n \in Node : role[n] = "leader"}

\* The range of every variable.
TypeOK ==
    /\ term \in [Node -> 1..MaxTerm]
    /\ role \in [Node -> {"follower", "leader"}]
    /\ \A n \in Node : Len(log[n]) <= MaxLog /\ commit[n] \in 0..MaxLog
    /\ \A n \in Node : ctx[n].stage \in {"none", "catching", "joint", "stable"}
    /\ \A n \in Node : repl[n] \subseteq Node \ {n}
    /\ bad \in BOOLEAN

\* A term has one leader, although its voters may count by different
\* configurations: joint ones while more than one peer changes, none of them
\* before an entry of the leader's own term is committed.
OneLeaderPerTerm == \A m, n \in Leaders : term[m] = term[n] => m = n

\* A later leader has every committed entry, and leaders commit the same log.
\* BallotBox::commit_at commits what precedes a removal by the smaller quorum of
\* the removal, "which is not well proved right now".
NothingLost ==
    \A n \in Leaders : /\ term[n] > chosen.term => IsPrefix(chosen.log, log[n])
                       /\ IsPrefix(SubSeq(log[n], 1, commit[n]), chosen.log)

\* A group does not stay in a joint configuration: a leader that finds one in its
\* log, left there by a leader that fell between the stages, goes on from it. It
\* replicates to every peer of its configuration, and to no peer of an ended or
\* failed change (stop_replicator in ConfigurationCtx::reset).
JointIsLeft ==
    \A n \in Leaders :
        /\ ~is_busy(ctx[n]) => Conf(n).old = {}
        /\ Peers(Conf(n)) \ {n} \subseteq repl[n]
        /\ repl[n] \subseteq Peers(Conf(n)) \union ctx[n].new \union ctx[n].old

\* No closure of an earlier leadership or change moves the stage of a later one:
\* CHECK(is_busy()) in next_stage, CHECK_EQ(STAGE_CATCHING_UP, _stage) in
\* on_caughtup.
ChecksHold == TypeOK /\ ~bad

\* Every change ends, and with it the EBUSY of the next one: in success, in the
\* failure of a new peer to catch up, or with the leader stepping down.
ChangeEnds == \A n \in Node : is_busy(ctx[n]) ~> ~is_busy(ctx[n])
=============================================================================

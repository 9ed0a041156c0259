------------------------------- MODULE Router -------------------------------
(* Collection changes through a cluster router: create and drop are sent to *)
(* every shard in turn, each to the shard's leader, which the router finds  *)
(* among the shard's nodes and remembers.  One collection name; what a node *)
(* holds under it is the collection's metric.                               *)
EXTENDS Naturals, Sequences, TLC, SequencesExt

CONSTANTS Routers,
          NumShards, NumNodes,  \* nodes 1..NumNodes of a shard: 1 is its primary
          Metrics,
          RaftChoices,          \* subset of BOOLEAN: are the shards Raft groups?
          WRITE_LEADER_ATTEMPTS,
          MaxOps, MaxFaults, MaxElections, MaxSearches  \* bounds

None == "none"
Shards == 1..NumShards
Urls == 1..NumNodes

VARIABLES
  raft,      \* are the shards Raft groups
  held,      \* what each node of each shard holds: None or a metric
  leader,    \* the Raft leader of each shard, 0 during an election
  leaders,   \* per router and shard: the cached leader, 0 if none
  ordering,  \* per router: the metric its searches merge by, None if not learned
  op,        \* the change each router is performing
  look,      \* per router: the answer of a describe not yet cached, {} if none
  hist,      \* history: a Raft drop, an overlap of two changes, a failed change
  bound

vars == <<raft, held, leader, leaders, ordering, op, look, hist, bound>>

NoOp == [kind |-> None]

Init ==
  /\ raft \in RaftChoices
  /\ held = [s \in Shards |-> [v \in Urls |-> None]]
  /\ leader = [s \in Shards |-> 1]
  /\ leaders = [r \in Routers |-> [s \in Shards |-> 0]]
  /\ ordering = [r \in Routers |-> None]
  /\ op = [r \in Routers |-> NoOp]
  /\ look = [r \in Routers |-> {}]
  /\ hist = [bypassed |-> FALSE, crossed |-> FALSE, failed |-> FALSE]
  /\ bound = [ops |-> 0, faults |-> 0, elections |-> 0, searches |-> 0]

Count(f) == [bound EXCEPT ![f] = @ + 1]
Busy(r) == op[r] # NoOp

-----------------------------------------------------------------------------
(* broadcast and write_to_shard.                                            *)

\* The cached leader, then the primary and the replicas.
Candidates(r, s) ==
  LET cached == IF leaders[r][s] = 0 THEN << >> ELSE <<leaders[r][s]>>
  IN  cached \o SelectSeq([v \in Urls |-> v], LAMBDA v : v # leaders[r][s])

ToShard(o, r, s) ==
  [o EXCEPT !.shard = s, !.attempt = 1, !.cands = Candidates(r, s), !.notLeader = FALSE]

\* A drop under Raft is applied by the node that receives it alone.
Begin(r, kind, m) ==
  LET o == [kind |-> kind, metric |-> m, shard |-> 1, attempt |-> 1, cands |-> << >>,
            notLeader |-> FALSE, disturbed |-> \E s \in Shards : leader[s] = 0,
            overlap |-> \E q \in Routers \ {r} : Busy(q)]
  IN
  /\ ~Busy(r) /\ bound.ops < MaxOps
  /\ op' = [q \in Routers |-> IF q = r THEN ToShard(o, r, 1)
                              ELSE IF Busy(q) THEN [op[q] EXCEPT !.overlap = TRUE] ELSE NoOp]
  /\ hist' = [hist EXCEPT !.bypassed = @ \/ (raft /\ kind = "drop"),
                          !.crossed = @ \/ \E q \in Routers \ {r} : Busy(q) \/ ordering[q] # None
                                        \/ \E p \in Routers : look[p] # {}]
  /\ bound' = Count("ops")
  /\ UNCHANGED <<raft, held, leader, leaders, ordering, look>>
create_collection(r, m) == Begin(r, "create", m)
drop_collection(r) == Begin(r, "drop", None)

\* What a node answers: "ok", "not_leader" (421) or "fatal" (409, 403), and what
\* the shard's nodes hold afterwards.  A committed create is skipped by a voter
\* that holds the name; a drop is not proposed, and needs no leader.
Answer(o, s, v) ==
  CASE ~raft /\ v # 1 -> "fatal"
    [] raft /\ o.kind = "create" /\ leader[s] # v -> "not_leader"
    [] o.kind = "create" /\ held[s][v] # None -> "fatal"
    [] OTHER -> "ok"
Applied(o, s, v) ==
  CASE o.kind = "drop" -> [held EXCEPT ![s][v] = None]
    [] o.kind = "create" /\ raft ->
         [held EXCEPT ![s] = [w \in Urls |-> IF @[w] = None THEN o.metric ELSE @[w]]]
    [] OTHER -> [held EXCEPT ![s][v] = o.metric]

\* The change is over: its outcome is recorded, and on success the ordering.
Finish(r, ok) ==
  /\ op' = [op EXCEPT ![r] = NoOp]
  /\ ordering' = IF ~ok THEN ordering
                 ELSE [ordering EXCEPT ![r] = IF op[r].kind = "create" THEN op[r].metric ELSE None]
  /\ hist' = [hist EXCEPT !.failed = @ \/ ~ok]

\* Mutant: the last shard is left out.
WriteOkButLast(r) ==
  LET o == op[r]
      v == Head(o.cands)
  IN
  /\ Busy(r) /\ o.cands # << >> /\ Answer(o, o.shard, v) = "ok"
  /\ held' = Applied(o, o.shard, v)
  /\ leaders' = [leaders EXCEPT ![r][o.shard] = v]
  /\ IF o.shard >= NumShards - 1 THEN Finish(r, TRUE)
     ELSE op' = [op EXCEPT ![r] = ToShard(o, r, o.shard + 1)] /\ UNCHANGED <<ordering, hist>>
  /\ UNCHANGED <<raft, leader, look, bound>>

\* try_write succeeds: the node is cached as the leader, and the next shard follows.
WriteOk(r) ==
  LET o == op[r]
      v == Head(o.cands)
  IN
  /\ Busy(r) /\ o.cands # << >> /\ Answer(o, o.shard, v) = "ok"
  /\ held' = Applied(o, o.shard, v)
  /\ leaders' = [leaders EXCEPT ![r][o.shard] = v]
  /\ IF o.shard = NumShards THEN Finish(r, TRUE)
     ELSE op' = [op EXCEPT ![r] = ToShard(o, r, o.shard + 1)] /\ UNCHANGED <<ordering, hist>>
  /\ UNCHANGED <<raft, leader, look, bound>>

WriteFatal(r) ==
  LET o == op[r] IN
  /\ Busy(r) /\ o.cands # << >> /\ Answer(o, o.shard, Head(o.cands)) = "fatal"
  /\ Finish(r, FALSE)
  /\ UNCHANGED <<raft, held, leader, leaders, look, bound>>

WriteNotLeader(r) ==
  LET o == op[r] IN
  /\ Busy(r) /\ o.cands # << >> /\ Answer(o, o.shard, Head(o.cands)) = "not_leader"
  /\ op' = [op EXCEPT ![r].cands = Tail(@), ![r].notLeader = TRUE]
  /\ UNCHANGED <<raft, held, leader, leaders, ordering, look, hist, bound>>

\* The node is unreachable, or the answer is lost after it applied the request.
WriteUnreachable(r) ==
  LET o == op[r]
      v == Head(o.cands)
  IN
  /\ Busy(r) /\ o.cands # << >> /\ bound.faults < MaxFaults
  /\ \/ held' = held
     \/ Answer(o, o.shard, v) = "ok" /\ held' = Applied(o, o.shard, v)
  /\ op' = [op EXCEPT ![r].cands = Tail(@), ![r].disturbed = TRUE]
  /\ bound' = Count("faults")
  /\ UNCHANGED <<raft, leader, leaders, ordering, look, hist>>

\* Mutant: the attempts are not counted.
OutOfCandidatesAgain(r) ==
  LET o == op[r] IN
  /\ Busy(r) /\ o.cands = << >>
  /\ IF o.notLeader
     THEN /\ op' = [op EXCEPT ![r].notLeader = FALSE, ![r].cands = Candidates(r, o.shard)]
          /\ UNCHANGED <<ordering, hist>>
     ELSE Finish(r, FALSE)
  /\ UNCHANGED <<raft, held, leader, leaders, look, bound>>

\* Mutant: one attempt too many.
OutOfCandidatesLate(r) ==
  LET o == op[r] IN
  /\ Busy(r) /\ o.cands = << >>
  /\ IF o.notLeader /\ o.attempt <= WRITE_LEADER_ATTEMPTS
     THEN /\ op' = [op EXCEPT ![r].attempt = @ + 1, ![r].notLeader = FALSE,
                              ![r].cands = Candidates(r, o.shard)]
          /\ UNCHANGED <<ordering, hist>>
     ELSE Finish(r, FALSE)
  /\ UNCHANGED <<raft, held, leader, leaders, look, bound>>

\* Every candidate was tried: with an election in flight the router backs off and
\* tries again, a bounded number of times; otherwise it gives up at once.
OutOfCandidates(r) ==
  LET o == op[r] IN
  /\ Busy(r) /\ o.cands = << >>
  /\ IF o.notLeader /\ o.attempt < WRITE_LEADER_ATTEMPTS
     THEN /\ op' = [op EXCEPT ![r].attempt = @ + 1, ![r].notLeader = FALSE,
                              ![r].cands = Candidates(r, o.shard)]
          /\ UNCHANGED <<ordering, hist>>
     ELSE Finish(r, FALSE)
  /\ UNCHANGED <<raft, held, leader, leaders, look, bound>>

-----------------------------------------------------------------------------
(* Elections, and the ordering a search learns.                             *)

Disturb == [r \in Routers |-> IF Busy(r) THEN [op[r] EXCEPT !.disturbed = TRUE] ELSE NoOp]
StepDown(s) ==
  /\ raft /\ leader[s] # 0 /\ bound.elections < MaxElections
  /\ leader' = [leader EXCEPT ![s] = 0] /\ op' = Disturb
  /\ bound' = Count("elections")
  /\ UNCHANGED <<raft, held, leaders, ordering, look, hist>>
Elect(s) ==
  /\ leader[s] = 0
  /\ \E v \in Urls : leader' = [leader EXCEPT ![s] = v]
  /\ op' = Disturb
  /\ UNCHANGED <<raft, held, leaders, ordering, look, hist, bound>>

\* higher_is_better, of a router that has not learned the ordering: the first
\* shard's primary is asked, and its answer is cached after the await.
Describe(r) ==
  /\ ordering[r] = None /\ look[r] = {} /\ bound.searches < MaxSearches
  /\ held[1][1] # None
  /\ look' = [look EXCEPT ![r] = {held[1][1]}]
  /\ hist' = [hist EXCEPT !.crossed = @ \/ \E q \in Routers : Busy(q)]
  /\ bound' = Count("searches")
  /\ UNCHANGED <<raft, held, leader, leaders, ordering, op>>
CacheOrdering(r) ==
  /\ look[r] # {}
  /\ \E m \in look[r] : ordering' = [ordering EXCEPT ![r] = m]
  /\ look' = [look EXCEPT ![r] = {}]
  /\ UNCHANGED <<raft, held, leader, leaders, op, hist, bound>>

Next ==
  \/ \E r \in Routers :
       \/ \E m \in Metrics : create_collection(r, m)
       \/ drop_collection(r)
       \/ WriteOk(r) \/ WriteFatal(r) \/ WriteNotLeader(r) \/ WriteUnreachable(r)
       \/ OutOfCandidates(r) \/ Describe(r) \/ CacheOrdering(r)
  \/ \E s \in Shards : StepDown(s) \/ Elect(s)

\* A router keeps working on a request it has begun.
Proceed(r) == WriteOk(r) \/ WriteFatal(r) \/ WriteNotLeader(r) \/ OutOfCandidates(r)
Fairness == \A r \in Routers : WF_vars(Proceed(r))
Spec == Init /\ [][Next]_vars
FairSpec == Spec /\ Fairness

-----------------------------------------------------------------------------
TypeOK ==
  /\ held \in [Shards -> [Urls -> Metrics \cup {None}]]
  /\ leader \in [Shards -> 0..NumNodes]
  /\ leaders \in [Routers -> [Shards -> 0..NumNodes]]
  /\ ordering \in [Routers -> Metrics \cup {None}]
  /\ \A r \in Routers : Busy(r) => op[r].attempt \in 1..WRITE_LEADER_ATTEMPTS

\* "Just created on every shard" (create_collection): a change that was acknowledged
\* and met no other change is on every shard when it returns, whatever leader each
\* write was sent to first.  Under Raft, drops aside: they bypass the log.
AcksEverywhere ==
  \A r \in Routers :
    Busy(r) /\ op'[r] = NoOp /\ WriteOk(r) /\ ~op[r].overlap /\ ~hist.bypassed =>
      \A s \in Shards, v \in Urls :
        raft \/ v = 1 => held'[s][v] = op[r].metric
AckedEverywhere == [][AcksEverywhere]_vars

\* A write finds the leader "among the shard's voter URLs" (write_to_shard): with no
\* fault and no election during the change it is refused only by a node that holds
\* the name already, however stale the cached leader.
GivesUpDisturbed ==
  \A r \in Routers : Busy(r) /\ op'[r] = NoOp /\ OutOfCandidates(r) => op[r].disturbed
StableLeaderFound == [][GivesUpDisturbed]_vars

\* Searches merge in the collection's own order: with one router making changes, all
\* of them acknowledged, what it has cached is the metric of the first shard.
OrderingFresh ==
  hist = [bypassed |-> FALSE, crossed |-> FALSE, failed |-> FALSE] =>
    \A r \in Routers : ~Busy(r) /\ ordering[r] # None => ordering[r] = held[1][1]

\* Every change is answered: the hunt for a leader is bounded.
Answered == \A r \in Routers : Busy(r) ~> ~Busy(r)
=============================================================================

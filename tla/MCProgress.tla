----------------------------- MODULE MCProgress -----------------------------
(* What must eventually happen: a follower of module Replication, which     *)
(* this module extends, catches up; a stale index is rebuilt; a change sent *)
(* through a router is answered.  A behaviour is one part's; the variables  *)
(* of the others are parked.                                                *)
EXTENDS Replication

CONSTANTS f1, f2, r1, r2

VARIABLES
  part,
  inc, created, rows, h, cells, cached, built, gate, rebuilding, build, rd,
  dropping, writes, past, crossed, late,                                        \* Serving
  raft, held, leader, leaders, ordering, op, look, rhist, bound                 \* Router

followVars == <<db, hist, log, task, stream, base, faults>>
servingVars == <<inc, created, rows, h, cells, cached, built, gate, rebuilding, build, rd,
                 dropping, writes, past, crossed, late>>
routerVars == <<raft, held, leader, leaders, ordering, op, look, rhist, bound>>
allVars == <<part, followVars, servingVars, routerVars>>

\* A chain: the second follower reads from the first.
MCUpstream == (f1 :> Leader) @@ (f2 :> f1)

S == INSTANCE Serving WITH
  Ids <- {1, 2}, Vals <- {"v"}, RebuildInverse <- 1, OverlayFloor <- 1, Readers <- {"r"},
  Kind <- "ivf", Modes <- {FALSE}, Reopen <- {}, MaxWrites <- 2, MaxCreates <- 2, task <- build

R == INSTANCE Router WITH
  Routers <- {r1, r2}, NumShards <- 2, NumNodes <- 2, Metrics <- {"l2", "dot"},
  RaftChoices <- BOOLEAN, WRITE_LEADER_ATTEMPTS <- 2, MaxOps <- 2, MaxFaults <- 1,
  MaxElections <- 1, MaxSearches <- 1, hist <- rhist

Parked == << >>
FollowParked ==
  /\ db = Parked /\ hist = Parked /\ log = Parked /\ task = Parked /\ stream = Parked
  /\ base = Parked /\ faults = Parked
ServingParked ==
  /\ inc = Parked /\ created = Parked /\ rows = Parked /\ h = Parked /\ cells = Parked
  /\ cached = Parked /\ built = Parked /\ gate = Parked /\ rebuilding = Parked
  /\ build = Parked /\ rd = Parked /\ dropping = Parked /\ writes = Parked /\ past = Parked
  /\ crossed = Parked /\ late = Parked
RouterParked ==
  /\ raft = Parked /\ held = Parked /\ leader = Parked /\ leaders = Parked
  /\ ordering = Parked /\ op = Parked /\ look = Parked /\ rhist = Parked /\ bound = Parked

MCInit ==
  \/ part = "follow" /\ Init /\ ServingParked /\ RouterParked
  \/ part = "serving" /\ S!Init /\ FollowParked /\ RouterParked
  \/ part = "router" /\ R!Init /\ FollowParked /\ ServingParked

Follows(A) == part = "follow" /\ A /\ UNCHANGED <<part, servingVars, routerVars>>
Serves(A) == part = "serving" /\ A /\ UNCHANGED <<part, followVars, routerVars>>
Routes(A) == part = "router" /\ A /\ UNCHANGED <<part, followVars, servingVars>>

MCNext == Follows(Next) \/ Serves(S!Next) \/ Routes(R!Next)

\* The fairness of each part, which its module explains.
MCFairness ==
  /\ \A f \in Followers :
       WF_allVars(Follows(Connect(f))) /\ WF_allVars(Follows(Deliver(f)))
  /\ WF_allVars(Serves(S!RunRebuild)) /\ WF_allVars(Serves(S!evict))
  /\ WF_allVars(Serves(S!search("r"))) /\ WF_allVars(Serves(S!Reader("r")))
  /\ \A r \in {r1, r2} : WF_allVars(Routes(R!Proceed(r)))

MCSpec == MCInit /\ [][MCNext]_allVars /\ MCFairness

-----------------------------------------------------------------------------
\* Every part's state has its type, and its bookkeeping the shape the code relies on.
AllTypesOK ==
  /\ part = "follow" => TypeOK
  /\ part = "serving" => S!TypeOK
  /\ part = "router" => R!TypeOK

\* Replication: a follower past its snapshot is an earlier state of its upstream that
\* misses no point and keeps no old value, and its handles match its collections.
FollowerFaithful == part = "follow" => FollowerIsPast /\ NothingMissing /\ NamesMatch

\* Replication: a follower whose loop runs catches up, or its loop stops.
Behind(f) == part = "follow" /\ task[f] # "stopped" /\ ~CaughtUp(f)
FollowersCatchUp == \A f \in Followers : Behind(f) ~> ~Behind(f)


\* Router: an undisturbed acknowledged change is on every shard, the leader of every
\* shard is found when there is no fault and no election, and a cached ordering is the
\* collection's.
RouterHonest ==
  [][part = "router" => R!AcksEverywhere /\ R!GivesUpDisturbed /\ R!OrderingFresh]_allVars

\* Router: every change is answered.
Answered ==
  \A r \in {r1, r2} : (part = "router" /\ R!Busy(r)) ~> ~(part = "router" /\ R!Busy(r))
=============================================================================

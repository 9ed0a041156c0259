----------------------------- MODULE Replication -----------------------------
(* Leader-follower replication.  Every node publishes the operations it     *)
(* commits; a follower opens a stream on its upstream node, which sends a   *)
(* snapshot and then the tail of commits, and applies what it receives to   *)
(* its own durable database.  A follower republishes what it applies, so an *)
(* upstream may itself be a follower.  A stream that fails is not reopened  *)
(* before the follower restarts.                                            *)
EXTENDS Engine

CONSTANTS Nodes, Leader,   \* the leader takes the writes
          Upstream,        \* the node a follower's QUIVER_LEADER_URL names
          Buffer,          \* REPLICATION_BUFFER: unread commits a receiver keeps
          Channel,         \* operations on their way in the stream
          MaxCommits, MaxFaults   \* bounds on the histories

Followers == Nodes \ {Leader}

ASSUME ReplicationAssumption ==
  /\ Leader \in Nodes /\ Upstream \in [Followers -> Nodes]
  /\ Buffer \in Nat \ {0} /\ Channel \in Nat \ {0}
  /\ MaxCommits \in Nat /\ MaxFaults \in Nat

VARIABLES
  db,       \* per node: its database, durable
  hist,     \* per node: the collections after each commit, the first ones before any
  log,      \* per node: the operations committed, as its observer publishes them
  task,     \* per follower: the follower loop: "start", "on" or "stopped"
  stream,   \* per follower: its stream as the upstream's sender task holds it
  base,     \* per follower: is its state a part of the snapshot it was sent
  faults    \* restarts and broken streams so far

vars == <<db, hist, log, task, stream, base, faults>>

\* boot: the part of the snapshot not yet sent; first and next: the commit the
\* receiver read first and reads next; wire: what was sent and not yet applied;
\* lagged: the sender gave up.
NoStream == [boot |-> << >>, first |-> 1, next |-> 1, wire |-> << >>, lagged |-> FALSE]

Publish(n, d, o) ==
  /\ db' = [db EXCEPT ![n] = d]
  /\ log' = [log EXCEPT ![n] = Append(@, o)]
  /\ hist' = [hist EXCEPT ![n] = Append(@, d.colls)]

-----------------------------------------------------------------------------
Init ==
  /\ db = [n \in Nodes |-> EmptyDb]
  /\ hist = [n \in Nodes |-> <<Empty>>]
  /\ log = [n \in Nodes |-> << >>]
  /\ task = [f \in Followers |-> "start"]
  /\ stream = [f \in Followers |-> NoStream]
  /\ base = [f \in Followers |-> TRUE]
  /\ faults = 0

\* A client's write on the leader; ensure_writable refuses it on a follower.
Write ==
  /\ Len(log[Leader]) < MaxCommits
  /\ \E o \in create_ops(db[Leader]) \cup drop_ops(db[Leader])
              \cup upsert_ops(db[Leader]) \cup delete_ops(db[Leader]) :
       Publish(Leader, AppliedLocally(db[Leader], o), o)
  /\ UNCHANGED <<task, stream, base, faults>>

\* Every collection and point of d is one of e, perhaps with another value.
PartOf(d, e) ==
  \A c \in DOMAIN d.colls :
    /\ c \in DOMAIN e.colls /\ d.colls[c].name = e.colls[c].name
    /\ DOMAIN d.colls[c].pts \subseteq DOMAIN e.colls[c].pts

\* open_replication: subscribing and taking the snapshot are one critical section.
open_replication(u, snap) ==
  LET now == Len(log[u]) + 1
  IN  [boot |-> snap, first |-> now, next |-> now, wire |-> << >>, lagged |-> FALSE]

Connect(f) ==
  LET u == Upstream[f] IN
  /\ task[f] = "start"
  /\ \E snap \in replication_snapshot(db[u]) :
       stream' = [stream EXCEPT ![f] = open_replication(u, snap)]
  /\ task' = [task EXCEPT ![f] = "on"]
  /\ base' = [base EXCEPT ![f] = PartOf(db[f], db[u])]
  /\ UNCHANGED <<db, hist, log, faults>>

\* The sender task of the upstream: first the snapshot ...
SendBoot(f) ==
  /\ task[f] = "on" /\ stream[f].boot # << >> /\ Len(stream[f].wire) < Channel
  /\ stream' = [stream EXCEPT ![f].boot = Tail(@), ![f].wire = Append(@, Head(stream[f].boot))]
  /\ UNCHANGED <<db, hist, log, task, base, faults>>

\* ... then the commits, while the receiver is no more than its buffer behind ...
Unread(f) == Len(log[Upstream[f]]) - (stream[f].next - 1)
\* Mutant: a receiver as far behind as its buffer is not served.
SendTailBelow(f) ==
  /\ task[f] = "on" /\ stream[f].boot = << >> /\ ~stream[f].lagged
  /\ Len(stream[f].wire) < Channel
  /\ Unread(f) \in 1..(Buffer - 1)
  /\ stream' = [stream EXCEPT ![f].next = @ + 1,
                              ![f].wire = Append(@, log[Upstream[f]][stream[f].next])]
  /\ UNCHANGED <<db, hist, log, task, base, faults>>

SendTail(f) ==
  /\ task[f] = "on" /\ stream[f].boot = << >> /\ ~stream[f].lagged
  /\ Len(stream[f].wire) < Channel
  /\ Unread(f) \in 1..Buffer
  /\ stream' = [stream EXCEPT ![f].next = @ + 1,
                              ![f].wire = Append(@, log[Upstream[f]][stream[f].next])]
  /\ UNCHANGED <<db, hist, log, task, base, faults>>

\* ... and an error once it is, which ends the stream.
Lagged(f) ==
  /\ task[f] = "on" /\ stream[f].boot = << >> /\ ~stream[f].lagged
  /\ Unread(f) > Buffer
  /\ stream' = [stream EXCEPT ![f].lagged = TRUE]
  /\ UNCHANGED <<db, hist, log, task, base, faults>>

\* follow: apply the next operation; one that is skipped is not published.
Apply(f) ==
  /\ task[f] = "on" /\ stream[f].wire # << >>
  /\ LET o == Head(stream[f].wire) IN
       IF Skipped(db[f], o) THEN UNCHANGED <<db, hist, log>>
       ELSE Publish(f, apply_replicated(db[f], o), o)
  /\ stream' = [stream EXCEPT ![f].wire = Tail(@)]
  /\ UNCHANGED <<task, base, faults>>

\* spawn_follower: the loop ends and the node keeps serving what it has.
Stop(f) ==
  /\ task' = [task EXCEPT ![f] = "stopped"]
  /\ stream' = [stream EXCEPT ![f] = NoStream]
EndOfStream(f) ==
  /\ task[f] = "on" /\ stream[f].lagged /\ stream[f].wire = << >>
  /\ Stop(f)
  /\ UNCHANGED <<db, hist, log, base, faults>>

\* The connection is refused or breaks, or an operation cannot be applied.
Break(f) ==
  /\ task[f] \in {"start", "on"} /\ faults < MaxFaults
  /\ Stop(f)
  /\ faults' = faults + 1
  /\ UNCHANGED <<db, hist, log, base>>

\* A node's process ends and starts again on its data: the streams it fed break,
\* and a follower's own loop begins anew.
Restart(n) ==
  LET fed == {f \in Followers : Upstream[f] = n /\ task[f] = "on"} IN
  /\ faults < MaxFaults
  /\ db' = [db EXCEPT ![n] = from_store(@)]
  /\ task' = [f \in Followers |-> IF f = n THEN "start"
                                  ELSE IF f \in fed THEN "stopped" ELSE task[f]]
  /\ stream' = [f \in Followers |-> IF f \in fed \cup {n} THEN NoStream ELSE stream[f]]
  /\ faults' = faults + 1
  /\ UNCHANGED <<hist, log, base>>

Deliver(f) == SendBoot(f) \/ SendTail(f) \/ Lagged(f) \/ Apply(f) \/ EndOfStream(f)

Next ==
  \/ Write
  \/ \E f \in Followers : Connect(f) \/ Deliver(f) \/ Break(f)
  \/ \E n \in Nodes : Restart(n)

\* The sender and the follower loop are tasks that run whenever they can.
Fairness == \A f \in Followers : WF_vars(Connect(f)) /\ WF_vars(Deliver(f))
Spec == Init /\ [][Next]_vars
FairSpec == Spec /\ Fairness

-----------------------------------------------------------------------------
(* Properties.                                                              *)

TypeOK ==
  /\ \A n \in Nodes : IsDb(db[n]) /\ \A k \in DOMAIN log[n] : IsOp(log[n][k])
  /\ \A n \in Nodes : Len(hist[n]) = Len(log[n]) + 1
  /\ task \in [Followers -> {"start", "on", "stopped"}]
  /\ \A f \in Followers :
       /\ stream[f].next \in 1..(Len(log[Upstream[f]]) + 1)
       /\ Len(stream[f].wire) <= Channel /\ stream[f].lagged \in BOOLEAN
  /\ base \in [Followers -> BOOLEAN]
  /\ faults \in 0..MaxFaults

\* The follower has applied the whole snapshot; what is on the wire is tail.
Booted(f) ==
  /\ task[f] = "on" /\ stream[f].boot = << >>
  /\ Len(stream[f].wire) <= stream[f].next - stream[f].first
\* The upstream's collections at the commit the follower has got to.
Source(f) == hist[Upstream[f]][stream[f].next - Len(stream[f].wire)]
CaughtUp(f) ==
  Booted(f) /\ stream[f].wire = << >> /\ stream[f].next = Len(log[Upstream[f]]) + 1

\* "Every post-snapshot op arrives on the receiver and none is missed or
\* duplicated" (open_replication): past its snapshot, a follower that began with
\* nothing its upstream had dropped or deleted holds exactly the collections and
\* points its upstream held at one earlier commit.
FollowerIsPast ==
  \A f \in Followers : Booted(f) /\ base[f] => db[f].colls = Source(f)

\* Whatever a follower held before, past its snapshot no point is missing from a
\* collection it shares with its upstream, and none has an old value.
NothingMissing ==
  \A f \in Followers : Booted(f) =>
    \A c \in DOMAIN Source(f) \cap DOMAIN db[f].colls :
      \A i \in DOMAIN Source(f)[c].pts :
        /\ i \in DOMAIN db[f].colls[c].pts
        /\ db[f].colls[c].pts[i] = Source(f)[c].pts[i]

\* The handles, the name index and the collections name each other on every
\* node: a create that was skipped or a drop that came late leaves no name on a
\* collection that is gone (apply_replicated, apply_wal_entry).
NamesMatch ==
  \A n \in Nodes :
    /\ db[n].handles = db[n].names
    /\ db[n].names = [m \in {db[n].colls[c].name : c \in DOMAIN db[n].colls} |->
                        CHOOSE c \in DOMAIN db[n].colls : db[n].colls[c].name = m]

\* A follower whose loop runs catches up with its upstream, or its loop stops.
CatchesUp ==
  \A f \in Followers : task[f] # "stopped" ~> (task[f] = "stopped" \/ CaughtUp(f))
=============================================================================

------------------------------ MODULE RaftShard ------------------------------
(* One shard's Raft group: the durable log store, the state machine that    *)
(* applies committed operations to the engine, its snapshots, and the       *)
(* server's write path on top.  Elections, replication and commitment are   *)
(* openraft's; they are modelled as far as the code in src/ relies on them. *)
EXTENDS Engine

CONSTANTS Nodes,
          Boot,                   \* the operations every node has already agreed on and applied
          MaxTerm, MaxIndex,      \* bounds on terms and on the log
          MaxCrashes, MaxTears,   \* bounds on crashes, and on those that tear a record
          MaxSnapshots            \* bound on the snapshots built

VARIABLES
  up,       \* is the node running
  mem,      \* DurableLogStore.mem: the vote, the log, the last purged index
  dur,      \* what a replay of the log file would rebuild
  torn,     \* does the file hold a torn record, behind which replay does not read
  role,     \* "leader" or "follower"
  commit,   \* the committed index the node knows of
  sm,       \* StateMachineData.last_applied_log, in sm-state.json
  db,       \* the engine, durable by itself
  snap,     \* the current snapshot, persisted: at most one
  build,    \* the snapshot being built: the pointer read, if the engine is yet to be
  chosen,   \* history: the entries committed, by index
  faults    \* crashes, tears, snapshots so far; the nodes that died inside a restore

logVars == <<mem, dur, torn>>
smVars == <<sm, db>>
snapVars == <<snap, build>>
vars == <<up, logVars, role, commit, smVars, snapVars, chosen, faults>>

Majority(S) == 2 * Cardinality(S) > Cardinality(Nodes)
NoVote == [term |-> 0, node |-> {}]

-----------------------------------------------------------------------------
(* DurableLogStore.                                                         *)

EmptyLog == [vote |-> NoVote, log |-> Empty, purged |-> 0, purgedTerm |-> 0]
Term(m) == m.vote.term
LastIndex(m) == Max(DOMAIN m.log \cup {m.purged})
TermAt(m, i) == IF i \in DOMAIN m.log THEN m.log[i].term ELSE m.purgedTerm
LastTerm(m) == TermAt(m, LastIndex(m))

\* The records: each is written and fsynced before the mirror in memory changes.
Vote(m, v) == [m EXCEPT !.vote = v]
AppendEntries(m, es) == [m EXCEPT !.log = es @@ @]
Truncate(m, i) == [m EXCEPT !.log = Restrict(@, {j \in DOMAIN @ : j < i})]
Purge(m, i, t) ==
  [m EXCEPT !.log = Restrict(@, {j \in DOMAIN @ : j > i}), !.purged = i, !.purgedTerm = t]

\* Mutant: only the vote reaches the file.
durable_vote(ns, m) ==
  /\ mem' = [n \in Nodes |-> IF n \in ns THEN m[n] ELSE mem[n]]
  /\ dur' = [n \in Nodes |-> IF n \in ns THEN Vote(dur[n], m[n].vote) ELSE dur[n]]
  /\ UNCHANGED torn

\* durable: the record is appended; behind a torn one no replay will find it.
durable(ns, m) ==
  /\ mem' = [n \in Nodes |-> IF n \in ns THEN m[n] ELSE mem[n]]
  /\ dur' = [n \in Nodes |-> IF n \in ns /\ ~torn[n] THEN m[n] ELSE dur[n]]
  /\ UNCHANGED torn
durable1(n, m) == durable({n}, [k \in {n} |-> m])

-----------------------------------------------------------------------------
\* A group that has agreed on Boot, in terms long past.
BootLog == [EmptyLog EXCEPT !.log = [i \in DOMAIN Boot |-> [term |-> 0, op |-> Boot[i]]]]
Init ==
  /\ up = [n \in Nodes |-> TRUE]
  /\ mem = [n \in Nodes |-> BootLog] /\ dur = mem
  /\ torn = [n \in Nodes |-> FALSE]
  /\ role = [n \in Nodes |-> "follower"]
  /\ commit = [n \in Nodes |-> Len(Boot)]
  /\ sm = commit
  /\ db = [n \in Nodes |-> ApplyAll(EmptyDb, Boot)]
  /\ snap = [n \in Nodes |-> {}]
  /\ build = [n \in Nodes |-> {}]
  /\ chosen = [i \in DOMAIN Boot |-> BootLog.log[i]]
  /\ faults = [crashes |-> 0, tears |-> 0, snapshots |-> 0, halfway |-> {}]

-----------------------------------------------------------------------------
(* openraft: elections, replication, commitment.                            *)

\* n wins an election: a majority stores its vote.  A node votes once in a term
\* and only for a log at least as far as its own.
UpToDate(n, q) ==
  \/ LastTerm(mem[n]) > LastTerm(mem[q])
  \/ LastTerm(mem[n]) = LastTerm(mem[q]) /\ LastIndex(mem[n]) >= LastIndex(mem[q])
Elect(n) ==
  LET t == Term(mem[n]) + 1 IN
  /\ up[n] /\ t <= MaxTerm
  /\ \E Q \in SUBSET Nodes :
       /\ n \in Q /\ Majority(Q)
       /\ \A q \in Q : up[q] /\ Term(mem[q]) < t /\ UpToDate(n, q)
       /\ durable(Q, [q \in Q |-> Vote(mem[q], [term |-> t, node |-> {n}])])
       /\ role' = [q \in Nodes |-> IF q = n THEN "leader"
                                   ELSE IF q \in Q THEN "follower" ELSE role[q]]
  /\ UNCHANGED <<up, commit, smVars, snapVars, chosen, faults>>

\* Where f's log and the leader's part: the first index f does not share.
Same(l, f, i) ==
  \/ i <= mem[f].purged \/ i <= commit[f]
  \/ i <= mem[l].purged /\ mem[l].purged \in DOMAIN mem[f].log
     /\ TermAt(mem[f], mem[l].purged) = mem[l].purgedTerm
  \/ i \in DOMAIN mem[l].log /\ i \in DOMAIN mem[f].log /\ mem[l].log[i] = mem[f].log[i]
Next1(l, f) == Min({i \in 1..(LastIndex(mem[l]) + 1) : ~Same(l, f, i) \/ i > LastIndex(mem[l])})
Follows(l, f) ==
  /\ up[l] /\ up[f] /\ l # f /\ role[l] = "leader" /\ Term(mem[f]) <= Term(mem[l])

\* append_entries: f takes the leader's vote, drops what conflicts, stores the
\* entries that follow, acknowledges them and learns the committed index.
Replicate(l, f) ==
  LET i == Next1(l, f)
      voted == Vote(mem[f], mem[l].vote)
      cut == IF i \in DOMAIN mem[f].log THEN Truncate(voted, i) ELSE voted
      new == Restrict(mem[l].log, i..LastIndex(mem[l]))
  IN
  /\ Follows(l, f) /\ i > mem[l].purged
  /\ durable1(f, AppendEntries(cut, new))
  /\ role' = [role EXCEPT ![f] = "follower"]
  /\ commit' = [commit EXCEPT ![f] = Max({@, commit[l]})]
  /\ mem' # mem \/ commit' # commit
  /\ UNCHANGED <<up, smVars, snapVars, chosen, faults>>

\* q stored the entry for this leader.
Acknowledged(l, q, k) ==
  LET m == IF up[q] THEN mem[q] ELSE dur[q] IN
  m.vote = mem[l].vote /\ k \in DOMAIN m.log /\ m.log[k] = mem[l].log[k]

\* The leader commits an entry of its own term that a majority acknowledged.
Commit(l) ==
  /\ up[l] /\ role[l] = "leader"
  /\ \E k \in DOMAIN mem[l].log :
       /\ k > commit[l] /\ mem[l].log[k].term = Term(mem[l])
       /\ Majority({q \in Nodes : Acknowledged(l, q, k)})
       /\ commit' = [commit EXCEPT ![l] = k]
       /\ chosen' = [i \in 1..Max({k, Len(chosen)}) |->
                       IF i <= Len(chosen) THEN chosen[i] ELSE mem[l].log[i]]
  /\ UNCHANGED <<up, logVars, role, smVars, snapVars, faults>>

-----------------------------------------------------------------------------
(* The server's write path.                                                 *)

\* create_collection, upsert, delete_points: ensure_raft_leader, the operation is
\* prepared from this node's engine, and client_write appends it if the node still
\* leads.  create_lock is held until the create is applied here; nothing committed
\* changes what an upsert or a delete was prepared as, so preparing and appending
\* is one step.  The client is answered when the entry is applied.
create_lock_free(n) ==
  \A i \in DOMAIN mem[n].log :
    i > sm[n] /\ mem[n].log[i].term = Term(mem[n]) => mem[n].log[i].op.op # "create"
raft_propose(n) ==
  LET i == LastIndex(mem[n]) + 1 IN
  /\ up[n] /\ role[n] = "leader" /\ i <= MaxIndex
  /\ \E o \in create_ops(db[n]) \cup upsert_ops(db[n]) \cup delete_ops(db[n]) :
       /\ o.op = "create" => create_lock_free(n)
       /\ durable1(n, AppendEntries(mem[n], i :> [term |-> Term(mem[n]), op |-> o]))
  /\ UNCHANGED <<up, role, commit, smVars, snapVars, chosen, faults>>

-----------------------------------------------------------------------------
(* The state machine.                                                       *)

\* apply: a committed entry is applied to the engine, then the pointer is made
\* durable; a batch of entries is so many steps.
Applied(n, k) == ApplyAll(db[n], [i \in 1..k |-> mem[n].log[sm[n] + i].op])
Apply(n) ==
  /\ up[n] /\ sm[n] < commit[n]
  /\ db' = [db EXCEPT ![n] = Applied(n, 1)]
  /\ sm' = [sm EXCEPT ![n] = @ + 1]
  /\ UNCHANGED <<up, logVars, role, commit, snapVars, chosen, faults>>

\* openraft asks for a snapshot once entries were applied since the last (here, behind
\* Boot).  build_snapshot reads the pointer between two batches ...
BuildSnapshot(n) ==
  /\ up[n] /\ build[n] = {}
  /\ \A s \in snap[n] : s.last < sm[n]
  /\ sm[n] > Len(Boot) /\ faults.snapshots < MaxSnapshots
  /\ faults' = [faults EXCEPT !.snapshots = @ + 1]
  /\ build' = [build EXCEPT ![n] = {[last |-> sm[n], term |-> TermAt(mem[n], sm[n])]}]
  /\ UNCHANGED <<up, logVars, role, commit, smVars, snap, chosen>>

\* ... and the engine later, when entries may have been applied since; then the
\* snapshot is persisted.
CaptureEngine(n) ==
  /\ up[n] /\ build[n] # {}
  /\ \E b \in build[n], ops \in replication_snapshot(db[n]) :
       snap' = [snap EXCEPT ![n] = {[last |-> b.last, term |-> b.term, ops |-> ops]}]
  /\ build' = [build EXCEPT ![n] = {}]
  /\ UNCHANGED <<up, logVars, role, commit, smVars, chosen, faults>>

\* openraft purges the log a snapshot covers.
PurgeLog(n) ==
  /\ up[n]
  /\ \E s \in snap[n] :
       /\ mem[n].purged < s.last
       /\ durable1(n, Purge(mem[n], s.last, s.term))
  /\ UNCHANGED <<up, role, commit, smVars, snapVars, chosen, faults>>

\* A node whose next entry the leader has purged is sent the leader's snapshot.
\* install_snapshot: restore drops every collection and replays the operations; the
\* pointer is adopted and made durable; the snapshot is persisted.  Then openraft
\* drops the log it covers or contradicts.
Reset(d) == [d EXCEPT !.colls = Empty, !.names = Empty, !.handles = Empty]
Restored(d, s) == ApplyAll(Reset(d), s.ops)
Sends(l, f, s) ==
  Follows(l, f) /\ Next1(l, f) <= mem[l].purged /\ s \in snap[l] /\ s.last > commit[f]
InstallSnapshot(l, f) ==
  /\ \E s \in snap[l] :
       LET agrees == TermAt(mem[f], s.last) = s.term /\ s.last \in DOMAIN mem[f].log
           kept == IF agrees THEN mem[f] ELSE Truncate(mem[f], 1)
       IN
       /\ Sends(l, f, s)
       /\ db' = [db EXCEPT ![f] = Restored(@, s)]
       /\ sm' = [sm EXCEPT ![f] = s.last]
       /\ snap' = [snap EXCEPT ![f] = {s}]
       /\ durable1(f, Purge(Vote(kept, mem[l].vote), s.last, s.term))
       /\ commit' = [commit EXCEPT ![f] = s.last]
  /\ role' = [role EXCEPT ![f] = "follower"]
  /\ build' = [build EXCEPT ![f] = {}]
  /\ UNCHANGED <<up, chosen, faults>>

-----------------------------------------------------------------------------
(* Crashes and restarts.                                                    *)

\* The process of n dies: what is only in memory is gone.
Dies(n) ==
  /\ up[n] /\ faults.crashes < MaxCrashes
  /\ up' = [up EXCEPT ![n] = FALSE]
  /\ mem' = [mem EXCEPT ![n] = EmptyLog]
  /\ role' = [role EXCEPT ![n] = "follower"]
  /\ commit' = [commit EXCEPT ![n] = 0]
  /\ build' = [build EXCEPT ![n] = {}]
  /\ UNCHANGED <<dur, snap, chosen>>

\* ... at any step, perhaps while durable is writing a record, or when the engine
\* has applied entries and the pointer is not yet written.
Crash(n) ==
  /\ Dies(n)
  /\ \E tear \in {0} \cup (IF faults.tears < MaxTears THEN {1} ELSE {}) :
       /\ torn' = [torn EXCEPT ![n] = @ \/ tear = 1]
       /\ faults' = [faults EXCEPT !.crashes = @ + 1, !.tears = @ + tear]
  /\ \E k \in 0..(commit[n] - sm[n]) : db' = [db EXCEPT ![n] = Applied(n, k)]
  /\ UNCHANGED sm

\* ... or inside install_snapshot: the engine reset, or restored, or the pointer
\* adopted as well.
CrashInstalling(l, f) ==
  /\ Dies(f)
  /\ \E s \in snap[l] :
       /\ Sends(l, f, s)
       /\ \/ /\ db' = [db EXCEPT ![f] = Reset(@)]
             /\ faults' = [faults EXCEPT !.crashes = @ + 1, !.halfway = @ \cup {f}]
             /\ UNCHANGED sm
          \/ /\ db' = [db EXCEPT ![f] = Restored(@, s)]
             /\ faults' = [faults EXCEPT !.crashes = @ + 1]
             /\ sm' \in {sm, [sm EXCEPT ![f] = s.last]}
  /\ UNCHANGED torn

\* start_member: DurableLogStore::open replays the file up to the first record
\* it cannot read and goes on appending behind it; StateMachineStore::open reads
\* the pointer.  openraft closes a hole between the log and the pointer
\* (a log id: its term is that of the entry committed there).
Restart(n) ==
  LET m == IF LastIndex(dur[n]) < sm[n] THEN Purge(dur[n], sm[n], chosen[sm[n]].term) ELSE dur[n] IN
  /\ ~up[n]
  /\ up' = [up EXCEPT ![n] = TRUE]
  /\ durable1(n, m)
  /\ db' = [db EXCEPT ![n] = from_store(@)]
  /\ commit' = [commit EXCEPT ![n] = sm[n]]
  /\ UNCHANGED <<role, sm, snapVars, chosen, faults>>

Next ==
  \/ \E n \in Nodes :
       \/ Elect(n) \/ Commit(n) \/ raft_propose(n) \/ Apply(n)
       \/ BuildSnapshot(n) \/ CaptureEngine(n) \/ PurgeLog(n) \/ Crash(n) \/ Restart(n)
  \/ \E l, f \in Nodes : Replicate(l, f) \/ InstallSnapshot(l, f) \/ CrashInstalling(l, f)

Spec == Init /\ [][Next]_vars

-----------------------------------------------------------------------------
(* Properties.                                                              *)

TypeOK ==
  /\ up \in [Nodes -> BOOLEAN] /\ torn \in [Nodes -> BOOLEAN]
  /\ role \in [Nodes -> {"leader", "follower"}]
  /\ commit \in [Nodes -> 0..MaxIndex] /\ sm \in [Nodes -> 0..MaxIndex]
  /\ \A n \in Nodes :
       /\ IsDb(db[n]) /\ Cardinality(snap[n]) <= 1
       /\ \A m \in {mem[n], dur[n]} :
            /\ Term(m) \in 0..MaxTerm /\ m.purged \in 0..MaxIndex
            /\ DOMAIN m.log = (m.purged + 1)..LastIndex(m)

\* What the node would answer from its log: the mirror, or the replay to come.
Log(n) == IF up[n] THEN mem[n] ELSE dur[n]
Holds(n, i) ==
  i <= Log(n).purged \/ (i \in DOMAIN Log(n).log /\ Log(n).log[i] = chosen[i])

\* "A vote or log entry the protocol believes is stored must survive a crash, or
\* consensus can lose an acknowledged write" (durable_log.rs): a write applied on
\* some node, which is when its client may be answered, stays in the logs of a
\* majority, so that whichever node is elected next has it.
Answered(i) == \E n \in Nodes : i <= sm[n]
AckedSurvives ==
  \A i \in DOMAIN chosen : Answered(i) => Majority({n \in Nodes : Holds(n, i)})

\* The stored vote keeps two nodes from leading in one term.
OneLeader ==
  \A n, k \in Nodes :
    role[n] = "leader" /\ role[k] = "leader" /\ Term(mem[n]) = Term(mem[k]) => n = k

\* Unless two creates were given one id, a node
\* that has applied all that is committed holds what the committed operations
\* make of an empty engine, whether it replayed the log, replayed a part twice
\* after a crash, or installed a snapshot whose engine was ahead of its pointer.
Creates == {i \in DOMAIN chosen : chosen[i].op.op = "create"}
DistinctIds ==
  \A i, j \in Creates : chosen[i].op.cid = chosen[j].op.cid => chosen[i].op.name = chosen[j].op.name
CaughtUp(n) ==
  up[n] /\ sm[n] = Len(chosen) => db[n].colls = ApplyAll(EmptyDb, [i \in DOMAIN chosen |-> chosen[i].op]).colls
Converged == DistinctIds => \A n \in Nodes \ faults.halfway : CaughtUp(n)

\* Every committed entry a node has yet to apply is in its log: the purge and the
\* pointer leave no hole (purge, apply, install_snapshot).
NoGap ==
  \A n \in Nodes : up[n] => (sm[n] + 1)..commit[n] \subseteq DOMAIN mem[n].log
=============================================================================

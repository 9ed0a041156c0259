------------------------------ MODULE Autoscaler ------------------------------
(* The coordinator's control plane: the scale-out policy, which samples the *)
(* shards' load between awaits and grows the cluster into a standby node,   *)
(* beside the operator's membership requests, the migrations both start,    *)
(* saves that fail and restarts.  The data of a migration is module         *)
(* Cluster's; here one is a step that succeeds or fails.                    *)
EXTENDS ShardMap, TLC, Functions, FiniteSets

CONSTANTS Seed, SeedUrls,      \* the shards at the start and their nodes
          StandbyUrls,         \* autoscale.standby_urls, a sequence
          OperatorUrls,        \* the nodes an operator adds
          max_shards,          \* 0: no cap
          MaxTicks, MaxRequests, MaxFailures, MaxRestarts  \* bounds

VARIABLES
  map, url,    \* the shard map and each shard's primary_url
  next_id,
  saved,       \* the persisted state: the map, the URLs and the id counter
  tasks,       \* the shards a background migration is running for
  standby,     \* the pool, consumed from its end
  cooling,     \* last_scale is less than cooldown_secs old
  tick,        \* the policy's tick in progress
  hist,        \* history: has a save failed, has the coordinator restarted
  bound

vars == <<map, url, next_id, saved, tasks, standby, cooling, tick, hist, bound>>

NoTick == [pc |-> "none"]
State(m, u, n) == [map |-> m, url |-> u, next_id |-> n]

\* bootstrap, from the configuration.
build_seed_map ==
  /\ map = from_shards(Seed) /\ url = SeedUrls /\ next_id = Len(Seed)
Init ==
  /\ build_seed_map
  /\ saved = State(map, url, next_id)
  /\ tasks = {} /\ standby = StandbyUrls /\ cooling = FALSE /\ tick = NoTick
  /\ hist = [unsaved |-> FALSE, restarted |-> FALSE]
  /\ bound = [ticks |-> 0, requests |-> 0, failures |-> 0, restarts |-> 0]

Count(f) == [bound EXCEPT ![f] = @ + 1]
Migrating(m) == m.joining \cup m.leaving

-----------------------------------------------------------------------------
(* Membership changes.  Each is made in memory and saved under the map's    *)
(* write lock; when the save fails the request fails, and the change stays. *)

SavedWith(b) ==
  \/ /\ saved' = State(map', url', next_id')
     /\ bound' = b /\ UNCHANGED hist
  \/ /\ b.failures < MaxFailures
     /\ bound' = [b EXCEPT !.failures = @ + 1]
     /\ hist' = [hist EXCEPT !.unsaved = TRUE] /\ UNCHANGED saved

Operator ==
  /\ bound.requests < MaxRequests
  /\ tick' = IF tick = NoTick THEN tick ELSE [tick EXCEPT !.raced = TRUE]
  /\ UNCHANGED <<standby, cooling>>

FreshUrl(u) == u \in OperatorUrls \ Range(url)
Add(u) ==
  /\ next_id \in ShardIds /\ CanAdd(map, next_id)
  /\ next_id' = next_id + 1 /\ url' = (next_id :> u) @@ url

add_shard(u) ==
  /\ Operator /\ FreshUrl(u) /\ Add(u)
  /\ map' = [map EXCEPT !.shards = Append(@, next_id), !.version = @ + 1]
  /\ SavedWith(Count("requests"))
  /\ UNCHANGED tasks
add_joining(u) ==
  /\ Operator /\ FreshUrl(u) /\ Add(u)
  /\ map' = add_joining_shard(map, next_id)
  /\ SavedWith(Count("requests"))
  /\ UNCHANGED tasks

\* grow_shard starts the migration only when the save succeeded.
GrowInto(u, b) ==
  /\ Add(u)
  /\ map' = add_joining_shard(map, next_id)
  /\ SavedWith(b)
  /\ tasks' = IF bound'.failures = b.failures THEN tasks \cup {next_id} ELSE tasks
grow(u) ==
  /\ Operator /\ FreshUrl(u) /\ GrowInto(u, Count("requests"))

promote_shard(s) ==
  /\ Operator /\ CanPromote(map, s)
  /\ map' = promote(map, s)
  /\ UNCHANGED <<url, next_id, tasks>>
  /\ SavedWith(Count("requests"))
drain(s) ==
  /\ Operator /\ map.joining = {} /\ CanLeave(map, s)
  /\ map' = mark_leaving(map, s)
  /\ UNCHANGED <<url, next_id>>
  /\ SavedWith(Count("requests"))
  /\ tasks' = IF bound'.failures = bound.failures THEN tasks \cup {s} ELSE tasks
Removed(s) ==
  /\ map' = remove_shard(map, s)
  /\ url' = Restrict(url, DOMAIN url \ {s})
remove(s) ==
  /\ Operator /\ CanRemove(map, s) /\ Removed(s)
  /\ UNCHANGED <<next_id, tasks>>
  /\ SavedWith(Count("requests"))

\* run_migration, run_drain: the flip, or the way back, whose save is not looked at.
\* A promotion that cannot be saved is a failure, and the join is reverted.
EndMigration(s) ==
  /\ s \in tasks
  /\ tasks' = tasks \ {s}
  /\ UNCHANGED <<next_id, standby, cooling, tick>>
  /\ \/ /\ is_joining(map, s) /\ map' = promote(map, s) /\ UNCHANGED url
        /\ SavedWith(bound) /\ saved'.map = map'
     \/ /\ CanRemove(map, s) /\ Removed(s)
        /\ SavedWith(bound)
     \/ /\ is_leaving(map, s) /\ map' = cancel_leave(map, s) /\ UNCHANGED url
        /\ SavedWith(bound)
     \/ /\ s \notin Shards(map) /\ UNCHANGED <<map, url>>
        /\ SavedWith(bound)

-----------------------------------------------------------------------------
(* maybe_scale_out.                                                         *)

Tick ==
  /\ tick = NoTick /\ bound.ticks < MaxTicks
  /\ ~cooling /\ Migrating(map) = {}
  /\ max_shards # 0 => Cardinality(active_shards(map)) < max_shards
  /\ tick' = [pc |-> "sample", left |-> active_shards(map), high |-> FALSE, raced |-> FALSE,
              url |-> {}]
  /\ bound' = Count("ticks")
  /\ UNCHANGED <<map, url, next_id, saved, tasks, standby, cooling, hist>>

\* shard_points, one request per shard: above the mark or not; a shard that cannot
\* be reached counts as empty.
shard_points(s) ==
  /\ tick.pc = "sample" /\ s \in tick.left
  /\ \E high \in BOOLEAN :
       tick' = [tick EXCEPT !.left = @ \ {s}, !.high = @ \/ high]
  /\ UNCHANGED <<map, url, next_id, saved, tasks, standby, cooling, hist, bound>>

\* Below the mark, or no standby: nothing to do.  Otherwise one is taken.
Sampled ==
  /\ tick.pc = "sample" /\ tick.left = {}
  /\ IF tick.high /\ standby # << >>
     THEN /\ tick' = [tick EXCEPT !.pc = "grow", !.url = {Last(standby)}]
          /\ standby' = Front(standby)
     ELSE tick' = NoTick /\ UNCHANGED standby
  /\ UNCHANGED <<map, url, next_id, saved, tasks, cooling, hist, bound>>

\* Mutant: the standby goes back to the pool, whether it joined or not.
ScaleOutReturning ==
  /\ tick.pc = "grow"
  /\ \E u \in tick.url :
       /\ GrowInto(u, bound)
       /\ standby' = Append(standby, u)
       /\ cooling' = (cooling \/ bound'.failures = bound.failures)
  /\ tick' = NoTick

\* The standby joins; when that fails it goes back to the pool.
ScaleOut ==
  /\ tick.pc = "grow"
  /\ \E u \in tick.url :
       /\ GrowInto(u, bound)
       /\ IF bound'.failures = bound.failures
          THEN cooling' = TRUE /\ UNCHANGED standby
          ELSE standby' = Append(standby, u) /\ UNCHANGED cooling
  /\ tick' = NoTick

CooledDown ==
  /\ cooling /\ cooling' = FALSE
  /\ UNCHANGED <<map, url, next_id, saved, tasks, standby, tick, hist, bound>>

\* bootstrap, from the persisted state: the pool is the configured one.
Restart ==
  /\ bound.restarts < MaxRestarts
  /\ map' = saved.map /\ url' = saved.url /\ next_id' = saved.next_id
  /\ tasks' = {} /\ standby' = StandbyUrls /\ cooling' = FALSE /\ tick' = NoTick
  /\ hist' = [hist EXCEPT !.restarted = TRUE]
  /\ bound' = Count("restarts")
  /\ UNCHANGED saved

Next ==
  \/ \E u \in OperatorUrls : add_shard(u) \/ add_joining(u) \/ grow(u)
  \/ \E s \in ShardIds :
       promote_shard(s) \/ drain(s) \/ remove(s) \/ EndMigration(s) \/ shard_points(s)
  \/ Tick \/ Sampled \/ ScaleOut \/ CooledDown \/ Restart

Spec == Init /\ [][Next]_vars

-----------------------------------------------------------------------------
TypeOK ==
  /\ Shards(map) \subseteq ShardIds /\ map.shards # << >> /\ DOMAIN url = Shards(map)
  /\ map.joining \subseteq Shards(map) /\ map.leaving \subseteq Shards(map)
  /\ ToSet(standby) \subseteq ToSet(StandbyUrls)
  /\ next_id \in Nat /\ tasks \subseteq ShardIds

\* "Never interrupt an in-flight migration", and the cap on the shard count
\* (maybe_scale_out): with no operator request between the policy's look at the map
\* and its change, it grows alone and not past max_shards.
GrowsAloneStep ==
  ScaleOut /\ ~tick.raced =>
    /\ Migrating(map') = {next_id}
    /\ max_shards # 0 => Len(map'.shards) <= max_shards
GrowsAlone == [][GrowsAloneStep]_vars

\* A standby is in one place: the pool, the tick or the map, and no two shards of the
\* map are on one node, as long as every save succeeds and the coordinator runs on.
Places(u) ==
  Cardinality({k \in DOMAIN standby : standby[k] = u})
    + Cardinality({s \in DOMAIN url : url[s] = u})
    + (IF tick # NoTick /\ u \in tick.url THEN 1 ELSE 0)
StandbyInOnePlace ==
  ~hist.unsaved /\ ~hist.restarted => \A u \in ToSet(StandbyUrls) : Places(u) <= 1

\* "The file and memory never diverge" (persist): what a restart would load is what
\* the coordinator serves, as long as every save succeeded.
SavedIsServed == ~hist.unsaved => saved.map = map /\ saved.url = url
=============================================================================

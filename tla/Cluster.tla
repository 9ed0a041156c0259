------------------------------- MODULE Cluster -------------------------------
(* A cluster of shards: routers that hold a refreshed copy of the map and   *)
(* route writes, the coordinator that owns the map, and the online          *)
(* migrations it runs, which copy a slice while clients write.  A shard is  *)
(* the points it holds; one single-vector collection.                       *)
EXTENDS ShardMap, TLC, Functions, FiniteSets

CONSTANTS Vals,           \* what a point holds
          Routers,
          Seed,           \* the shards at the start, a sequence
          COPY_PAGE,      \* points per page of a copy
          Serial,         \* TRUE: the operator grows only when no migration is running
          MaxWrites,      \* bound on client writes
          MaxFailures,    \* bound on faults: failed requests, aborted joins, restarts
          MaxGrows, MaxDrains  \* bounds on the coordinator's operations

VARIABLES
  map,      \* the coordinator's map, persisted under its write lock
  next_id,  \* the next shard id, persisted with it
  task,     \* the migrations running, by shard
  rmap,     \* the map each router has adopted
  data,     \* the points each shard holds
  op,       \* the write each router is performing
  last,     \* history: per point, what the last finished write left: a value, Gone or Unknown
  used,     \* history: every shard id given out
  bound     \* counters against the bounds; the joins reverted after their flip, and
            \* whether a delete moved the pages of a source under a copy

vars == <<map, next_id, task, rmap, data, op, last, used, bound>>

Empty == [x \in {} |-> x]
Without(f, S) == Restrict(f, DOMAIN f \ S)
NoOp == [kind |-> "none"]
Gone == "gone"
Unknown == "unknown"

Init ==
  /\ map = from_shards(Seed) /\ next_id = Len(Seed)
  /\ used = ToSet(Seed)
  /\ task = Empty
  /\ rmap = [r \in Routers |-> map]
  /\ data = [s \in ShardIds |-> Empty]
  /\ op = [r \in Routers |-> NoOp]
  /\ last = [i \in Ids |-> Gone]
  /\ bound = [writes |-> 0, failures |-> 0, grows |-> 0, drains |-> 0, reverted |-> {},
              shifted |-> FALSE]

MayFail == bound.failures < MaxFailures
Count(f) == [bound EXCEPT ![f] = @ + 1]

-----------------------------------------------------------------------------
(* Routers.                                                                 *)

\* refresh_from: only a newer version is adopted.
refresh_from(r) ==
  /\ map.version > rmap[r].version
  /\ rmap' = [rmap EXCEPT ![r] = map]
  /\ UNCHANGED <<map, next_id, task, data, op, last, used, bound>>

\* What an upsert or a delete does on one shard.
Write(d, s, w) ==
  IF w.kind = "upsert" THEN [d EXCEPT ![s] = (w.id :> w.val) @@ @]
  ELSE [d EXCEPT ![s] = Without(@, {w.id})]

\* The sources a migration copies from, in order.
Sources(t, s) ==
  IF t.kind = "drain" THEN <<s>>
  ELSE SelectSeq(t.map.shards, LAMBDA x : x \in active_shards(t.map))

\* A delete on shard x while a copy is between two pages of it: the points behind
\* move up, and the copy's offset does not.
Shifts(x, w) ==
  /\ w.kind = "delete" /\ w.id \in DOMAIN data[x]
  /\ \E s \in DOMAIN task :
       LET t == task[s] IN
       /\ t.pc \in {"fetch", "points", "read", "send"} /\ ~t.dropping
       /\ Sources(t, s)[t.src] = x /\ t.offset > 0
Shifted(S, w, b) == [b EXCEPT !.shifted = @ \/ \E x \in S : Shifts(x, w)]

\* upsert_to, delete_points: the map is loaded once and the owner is written
\* first.  Clients write a point one at a time.
StartWrite(r, w) ==
  /\ op[r] = NoOp /\ bound.writes < MaxWrites
  /\ \A q \in Routers : op[q] # NoOp => op[q].id # w.id
  /\ data' = Write(data, shard_for(rmap[r], w.id), w)
  /\ op' = [op EXCEPT ![r] = [map |-> rmap[r]] @@ w]
  /\ bound' = Shifted({shard_for(rmap[r], w.id)}, w, Count("writes"))
  /\ last' = [last EXCEPT ![w.id] = Unknown]
  /\ UNCHANGED <<map, next_id, task, rmap, used>>

\* Mutant: the donor is not written.
FinishWriteOwnerOnly(r) ==
  /\ op[r] # NoOp
  /\ last' = [last EXCEPT ![op[r].id] = IF op[r].kind = "upsert" THEN op[r].val ELSE Gone]
  /\ op' = [op EXCEPT ![r] = NoOp]
  /\ UNCHANGED <<map, next_id, task, rmap, data, used, bound>>

\* Then the donor, if the slice is moving, and the client has its answer.
FinishWrite(r) ==
  /\ op[r] # NoOp
  /\ LET donors == donor_for(op[r].map, op[r].id) IN
     /\ data' = IF donors = {} THEN data ELSE Write(data, CHOOSE s \in donors : TRUE, op[r])
     /\ bound' = Shifted(donors, op[r], bound)
  /\ last' = [last EXCEPT ![op[r].id] = IF op[r].kind = "upsert" THEN op[r].val ELSE Gone]
  /\ op' = [op EXCEPT ![r] = NoOp]
  /\ UNCHANGED <<map, next_id, task, rmap, used>>

\* The second write fails: the client gets an error, and the first one stays.
FailWrite(r) ==
  /\ op[r] # NoOp /\ MayFail
  /\ op' = [op EXCEPT ![r] = NoOp]
  /\ bound' = Count("failures")
  /\ UNCHANGED <<map, next_id, task, rmap, data, last, used>>

-----------------------------------------------------------------------------
(* The coordinator.                                                         *)

Started(kind, s) == (s :> [kind |-> kind, pc |-> "grace"])


\* grow_shard: nothing in it looks for a migration in flight; Serial leaves that to
\* whoever calls it.
grow_shard ==
  /\ Serial => task = Empty /\ map.joining \cup map.leaving = {}
  /\ bound.grows < MaxGrows /\ next_id \in ShardIds /\ CanAdd(map, next_id)
  /\ map' = add_joining_shard(map, next_id)
  /\ task' = Started("grow", next_id) @@ task
  /\ next_id' = next_id + 1 /\ used' = used \cup {next_id}
  /\ bound' = Count("grows")
  /\ UNCHANGED <<rmap, data, op, last>>

\* drain_shard: refused while a shard is joining.
drain_shard(s) ==
  /\ bound.drains < MaxDrains
  /\ map.joining = {} /\ CanLeave(map, s)
  /\ map' = mark_leaving(map, s)
  /\ task' = Started("drain", s) @@ task
  /\ bound' = Count("drains")
  /\ UNCHANGED <<next_id, rmap, data, op, last, used>>

\* remove_shard, as the way to abort a join.
abort_join(s) ==
  /\ MayFail /\ is_joining(map, s) /\ CanRemove(map, s)
  /\ map' = remove_shard(map, s)
  /\ bound' = Count("failures")
  /\ UNCHANGED <<next_id, task, rmap, data, op, last, used>>

\* The coordinator restarts from the persisted map; the background tasks are gone.
Restart ==
  /\ MayFail
  /\ task' = Empty
  /\ bound' = Count("failures")
  /\ UNCHANGED <<map, next_id, rmap, data, op, last, used>>

-----------------------------------------------------------------------------
(* run_migration and run_drain.                                             *)

At(s, pc) == s \in DOMAIN task /\ task[s].pc = pc
Goto(s, t) == task' = [task EXCEPT ![s] = t]

\* MIGRATION_GRACE is longer than the routers' refresh interval: when it is over
\* every router has the map, and the writes that began under an older one are done.
GraceOver ==
  \A r \in Routers :
    rmap[r].version = map.version /\ (op[r] # NoOp => op[r].map.version = map.version)

\* Where a point must end up.
Dest(t, s, i) ==
  IF t.kind = "drain" \/ shard_for(t.map, i) = s THEN {shard_for(t.map, i)} ELSE {}

\* The pages of a source are walked twice, to copy and later to drop.
Walk(t, m, dropping) ==
  [kind |-> t.kind, map |-> m, pc |-> "fetch", dropping |-> dropping,
   src |-> 1, offset |-> 0, short |-> FALSE, page |-> << >>, val |-> {}, ids |-> {}]
Snapshot(s) ==
  /\ At(s, "grace") /\ GraceOver /\ s \in Shards(map)
  /\ Goto(s, Walk(task[s], map, FALSE))
  /\ UNCHANGED <<map, next_id, rmap, data, op, last, used, bound>>

\* fetch_page: the points of the source behind the offset, in the order of a scan.
fetch_page(d, offset) ==
  LET all == SetToSortSeq(DOMAIN d, <)
      page == SubSeq(all, offset + 1, Min({offset + COPY_PAGE, Len(all)}))
  IN  [k \in DOMAIN page |-> [id |-> page[k], val |-> d[page[k]]]]
Fetch(s) ==
  /\ At(s, "fetch")
  /\ LET t == task[s]
         page == fetch_page(data[Sources(t, s)[t.src]], t.offset)
     IN  Goto(s, [t EXCEPT !.pc = "points", !.page = page, !.offset = @ + Len(page),
                          !.short = Len(page) < COPY_PAGE])
  /\ UNCHANGED <<map, next_id, rmap, data, op, last, used, bound>>

\* The page is done.  One that was not full was the last of its source: what was
\* found on its new owner is deleted, or the next source is copied from.
EndOfPage(s) ==
  LET t == task[s]
      nextSrc == [t EXCEPT !.src = @ + 1, !.offset = 0, !.ids = {}]
      more == t.src < Len(Sources(t, s))
  IN
  /\ At(s, "points") /\ t.page = << >>
  /\ \/ /\ ~t.short
        /\ Goto(s, [t EXCEPT !.pc = "fetch"])
        /\ UNCHANGED data
     \/ /\ t.short
        /\ data' = [data EXCEPT ![Sources(t, s)[t.src]] = Without(@, t.ids)]
        /\ Goto(s, IF more THEN [nextSrc EXCEPT !.pc = "fetch"]
                   ELSE [t EXCEPT !.pc = IF t.dropping THEN "end" ELSE "flip"])
  /\ UNCHANGED <<map, next_id, rmap, op, last, used, bound>>

\* copy_points, drop_copies: is the point on its new owner?  A request that fails
\* counts as no.
has_point(s) ==
  LET t == task[s]
      i == Head(t.page).id
      rest == [t EXCEPT !.page = Tail(@)]
      there == \E d \in Dest(t, s, i) : i \in DOMAIN data[d]
  IN
  /\ At(s, "points") /\ t.page # << >>
  /\ \/ /\ Dest(t, s, i) = {}
        /\ Goto(s, rest) /\ UNCHANGED bound
     \/ /\ Dest(t, s, i) # {} /\ there
        /\ Goto(s, IF t.dropping THEN [rest EXCEPT !.ids = @ \cup {i}] ELSE rest)
        /\ UNCHANGED bound
     \/ /\ Dest(t, s, i) # {}
        /\ \/ ~there /\ UNCHANGED bound
           \/ there /\ MayFail /\ bound' = Count("failures")
        /\ Goto(s, IF t.dropping THEN rest ELSE [t EXCEPT !.pc = "read"])
  /\ UNCHANGED <<map, next_id, rmap, data, op, last, used>>

\* Mutant: a point is moved, taken from its source before it is sent.
ReadPointTaking(s) ==
  LET t == task[s]
      i == Head(t.page).id
      src == Sources(t, s)[t.src]
  IN
  /\ At(s, "read") /\ i \in DOMAIN data[src]
  /\ Goto(s, [t EXCEPT !.val = {data[src][i]}, !.pc = "send"])
  /\ data' = [data EXCEPT ![src] = Without(@, {i})]
  /\ UNCHANGED <<map, next_id, rmap, op, last, used, bound>>

\* The point is read again from the source; the page's value stands in for a
\* read that fails, and a point that is gone is skipped.
ReadPoint(s) ==
  LET t == task[s]
      i == Head(t.page).id
      d == data[Sources(t, s)[t.src]]
  IN
  /\ At(s, "read")
  /\ \/ /\ i \notin DOMAIN d
        /\ Goto(s, [t EXCEPT !.page = Tail(@), !.pc = "points"]) /\ UNCHANGED bound
     \/ /\ i \in DOMAIN d
        /\ Goto(s, [t EXCEPT !.val = {d[i]}, !.pc = "send"]) /\ UNCHANGED bound
     \/ /\ MayFail /\ bound' = Count("failures")
        /\ Goto(s, [t EXCEPT !.val = {Head(t.page).val}, !.pc = "send"])
  /\ UNCHANGED <<map, next_id, rmap, data, op, last, used>>

SendPoint(s) ==
  LET t == task[s]
      i == Head(t.page).id
  IN
  /\ At(s, "send")
  /\ \E d \in Dest(t, s, i), v \in t.val : data' = [data EXCEPT ![d] = (i :> v) @@ @]
  /\ Goto(s, [t EXCEPT !.page = Tail(@), !.val = {}, !.pc = "points"])
  /\ UNCHANGED <<map, next_id, rmap, op, last, used, bound>>

\* The flip: a joining shard is promoted, a leaving one removed.
Flip(s) ==
  /\ At(s, "flip")
  /\ IF task[s].kind = "grow" THEN CanPromote(map, s) /\ map' = promote(map, s)
     ELSE CanRemove(map, s) /\ map' = remove_shard(map, s)
  /\ Goto(s, [task[s] EXCEPT !.pc = "adopt"])
  /\ UNCHANGED <<next_id, rmap, data, op, last, used, bound>>

\* When every router has adopted the flip, the sources' copies are dropped.
Adopted(s) ==
  /\ At(s, "adopt") /\ GraceOver
  /\ Goto(s, Walk(task[s], task[s].map, TRUE))
  /\ UNCHANGED <<map, next_id, rmap, data, op, last, used, bound>>

End(s) ==
  /\ At(s, "end")
  /\ task' = Without(task, {s})
  /\ UNCHANGED <<map, next_id, rmap, data, op, last, used, bound>>

\* A request fails, or the shard is no longer as the task left it: a join is
\* reverted whatever was done of it, a drain is cancelled if it still can be.
Stuck(s) ==
  \/ At(s, "grace") /\ GraceOver /\ s \notin Shards(map)
  \/ At(s, "flip") /\ task[s].kind = "grow" /\ ~CanPromote(map, s)
  \/ At(s, "flip") /\ task[s].kind = "drain" /\ ~CanRemove(map, s)
Requests(s) == At(s, "fetch") \/ At(s, "send")
Fail(s) ==
  /\ \/ Stuck(s) /\ UNCHANGED bound
     \/ Requests(s) /\ MayFail
        /\ bound' = [Count("failures") EXCEPT !.reverted =
                       IF task[s].kind = "grow" /\ ~is_joining(map, s) THEN @ \cup {s} ELSE @]
  /\ map' = IF task[s].kind = "grow"
            THEN IF CanRemove(map, s) THEN remove_shard(map, s) ELSE map
            ELSE IF CanCancel(map, s) THEN cancel_leave(map, s) ELSE map
  /\ task' = Without(task, {s})
  /\ UNCHANGED <<next_id, rmap, data, op, last, used>>

Writes == [kind : {"upsert"}, id : Ids, val : Vals] \cup [kind : {"delete"}, id : Ids]
Next ==
  \/ \E r \in Routers : refresh_from(r) \/ FinishWrite(r) \/ FailWrite(r)
  \/ \E r \in Routers, w \in Writes : StartWrite(r, w)
  \/ grow_shard \/ Restart
  \/ \E s \in ShardIds :
       \/ drain_shard(s) \/ abort_join(s) \/ Snapshot(s) \/ Fetch(s) \/ EndOfPage(s)
       \/ has_point(s) \/ ReadPoint(s) \/ SendPoint(s) \/ Flip(s) \/ Adopted(s) \/ End(s)
       \/ Fail(s)

Spec == Init /\ [][Next]_vars

-----------------------------------------------------------------------------
TypeOK ==
  /\ next_id \in Nat /\ Shards(map) \subseteq ShardIds /\ map.shards # << >>
  /\ map.joining \subseteq Shards(map) /\ map.leaving \subseteq Shards(map)
  /\ DOMAIN task \subseteq ShardIds
  /\ \A s \in ShardIds : DOMAIN data[s] \subseteq Ids /\ Range(data[s]) \subseteq Vals
  /\ \A i \in Ids : last[i] \in Vals \cup {Gone, Unknown}

\* A point whose last write was an acknowledged upsert.
Present == {i \in Ids : last[i] \in Vals}

\* "The slice stays queryable throughout ... and no acknowledged write is lost"
\* (run_drain, grow): whichever map a router has, a search reaches a copy of every
\* acknowledged point and a get finds it.
Readable(i, m) ==
  /\ \E s \in active_shards(m) : i \in DOMAIN data[s]
  /\ i \in DOMAIN data[get_shard(m, i)]
AckedReadable == \A r \in Routers : \A i \in Present : Readable(i, rmap[r])

\* The same, unless a join was reverted after its flip, a delete moved the pages of a
\* source under its copy, or migrations overlap.
NoLostPoint == bound.reverted = {} /\ ~bound.shifted /\ Serial => AckedReadable

\* "A drop can never remove the last copy of a point" (drop_copies), and no step of
\* the coordinator removes one of an acknowledged point.
Holders(i) == {s \in ShardIds : i \in DOMAIN data[s]}
KeepsCopies == op' = op => \A i \in Present : Holders(i) # {} => Holders(i)' # {}
KeepsLastCopy == [][KeepsCopies]_vars

\* "An id is never reused even across restarts" (Persisted): the shard id is the
\* key of the routing hash.
TakesFreshIds == \A s \in Shards(map)' \ Shards(map) : s \notin used
FreshId == [][TakesFreshIds]_vars
=============================================================================

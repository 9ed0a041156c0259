------------------------------ MODULE Serving ------------------------------
(***************************************************************************)
(* How the server answers searches of one collection name while writers,   *)
(* an off-lock rebuild and a drop-and-recreate run beside them: the        *)
(* database lock, the lock-free snapshot cells, the first-build gate, the  *)
(* readiness cache and the background rebuild task of AppState.            *)
(*                                                                         *)
(* A step is what one holder of the database lock does under it, or one    *)
(* access of a server-side map; what happens between two lock acquisitions *)
(* of a handler is where the other actors step in.                         *)
(***************************************************************************)
EXTENDS IndexHandle

CONSTANTS Readers,     \* concurrent search requests
          Kind,        \* index kind of the collection
          Modes,       \* values of the MVCC flag a behaviour may start with
          Reopen,      \* row sets a behaviour may find on disk at start
          MaxWrites,   \* bound: point writes
          MaxCreates   \* bound: collections created under the name

VARIABLES inc,         \* the live collection under the name, 0: none
          created,     \* collections created so far
          rows, h,     \* its live rows and its handle
          cells,       \* snapshot cells of collections already dropped
          cached,      \* snapshot_cells[name]: whose cell, 0: none
          built,       \* name \in index_built
          gate,        \* which mutex first_build[name] holds
          rebuilding,  \* name \in rebuilding
          task,        \* the spawned rebuild: pc, inputs, whose rows
          rd,          \* readers: pc and what they carry between locks
          dropping,    \* delete_collection is between its drop and eviction
          writes,
          \* history: every row set the live collection has had; whether a
          \* build of an earlier collection was installed in it; whether an
          \* earlier collection's readiness was cached after its eviction
          past, crossed, late

vars == <<inc, created, rows, h, cells, cached, built, gate, rebuilding,
          task, rd, dropping, writes, past, crossed, late>>

NoInputs == [ids |-> <<>>, rows |-> Empty, write_gen |-> 0]
Idle == [pc |-> "idle", gate |-> 0, of |-> 0, in |-> NoInputs, due |-> FALSE,
         ready |-> FALSE]

\* from_store: load_index rebuilds (or restores) and, when the collection is
\* served from snapshots, leaves it stale so that the first read publishes one
from_store(mvcc, r) ==
  LET x == rebuild_index(NewHandle(Kind, mvcc), r)
  IN [x EXCEPT !.stale = mvcc_served(x)]

Init ==
  /\ \E m \in Modes :
       \/ inc = 0 /\ created = 0 /\ rows = Empty /\ h = NewHandle(Kind, m)
       \/ \E r \in Reopen :
            inc = 1 /\ created = 1 /\ rows = r /\ h = from_store(m, r)
  /\ cells = Empty /\ cached = 0 /\ built = FALSE /\ gate = 0
  /\ rebuilding = FALSE /\ task = [pc |-> "idle", of |-> 0, in |-> NoInputs]
  /\ rd = [r \in Readers |-> Idle]
  /\ dropping = FALSE /\ writes = 0
  /\ past = {rows} /\ crossed = FALSE /\ late = FALSE

-----------------------------------------------------------------------------
(* Writers: under the exclusive lock.                                      *)

create_collection ==
  /\ inc = 0 /\ created < MaxCreates
  /\ created' = created + 1 /\ inc' = created + 1
  /\ rows' = Empty /\ h' = NewHandle(Kind, h.mvcc)
  /\ past' = {Empty} /\ crossed' = FALSE
  /\ UNCHANGED <<cells, cached, built, gate, rebuilding, task, rd, dropping,
                 writes, late>>

\* schedule_rebuild: a no-op while one is in flight
schedule_rebuild(wanted) ==
  IF wanted /\ ~rebuilding
  THEN rebuilding' = TRUE /\ task' = [task EXCEPT !.pc = "capture"]
  ELSE UNCHANGED <<rebuilding, task>>

\* a point write; in MVCC mode the writer, not the readers, drives the rebuild
Written(rows1, h1) ==
  /\ inc # 0 /\ writes < MaxWrites /\ writes' = writes + 1
  /\ rows' = rows1 /\ h' = h1 /\ past' = past \cup {rows1}
  /\ schedule_rebuild(h.mvcc /\ h1.stale)
  /\ UNCHANGED <<inc, created, cells, cached, built, gate, dropping, crossed,
                 late>>

Upsert(e, v) == Written(Put(rows, e, v), upsert(h, e, v)) /\ UNCHANGED rd

UpsertBulk(e, v) == Written(Put(rows, e, v), upsert_bulk(h)) /\ UNCHANGED rd

\* history: a search under way may now rightly answer with less
NoLongerDue == rd' = [r \in Readers |-> [rd[r] EXCEPT !.due = FALSE]]

DeletePoint(e) ==
  /\ e \in DOMAIN rows
  /\ Written(Without(rows, e), delete(h, e))
  /\ NoLongerDue

\* delete_collection: drop under the lock, then evict the server's caches
drop_collection ==
  /\ inc # 0 /\ ~dropping
  /\ cells' = Put(cells, inc, h.snapshot)
  /\ inc' = 0 /\ rows' = Empty /\ h' = NewHandle(Kind, h.mvcc)
  /\ dropping' = TRUE /\ past' = {Empty}
  /\ NoLongerDue
  /\ UNCHANGED <<created, cached, built, gate, rebuilding, task, writes,
                 crossed, late>>

evict ==
  /\ dropping /\ dropping' = FALSE
  /\ cached' = 0 /\ built' = FALSE /\ gate' = gate + 1 /\ late' = FALSE
  /\ UNCHANGED <<inc, created, rows, h, cells, rebuilding, task, rd, writes,
                 past, crossed>>

-----------------------------------------------------------------------------
(* run_rebuild: capture under the shared lock, build with none, commit     *)
(* under the exclusive one, again while a write landed in between.         *)

MustRebuild == inc # 0 /\ h.stale
Captured == snapshot_rebuild_inputs(h, rows)

Commit(t) ==
  IF inc = 0 THEN UNCHANGED <<h, crossed>>
  ELSE /\ h' = commit_rebuild(h, t.in)
       /\ crossed' = (crossed \/ t.of # inc)
StillStale(t) == inc # 0 /\ h.write_gen # t.in.write_gen

TaskCapture ==
  /\ task.pc = "capture"
  /\ task' = IF MustRebuild THEN [pc |-> "commit", of |-> inc, in |-> Captured]
             ELSE [task EXCEPT !.pc = "end"]
  /\ UNCHANGED <<inc, created, rows, h, cells, cached, built, gate, rebuilding,
                 rd, dropping, writes, past, crossed, late>>

TaskCommit ==
  /\ task.pc = "commit"
  /\ Commit(task)
  /\ task' = [pc |-> IF StillStale(task) THEN "capture" ELSE "end",
              of |-> 0, in |-> NoInputs]
  /\ UNCHANGED <<inc, created, rows, cells, cached, built, gate, rebuilding,
                 rd, dropping, writes, past, late>>

\* Mutant: the mark is left behind.
TaskEndKeepsMark ==
  /\ task.pc = "end"
  /\ task' = [task EXCEPT !.pc = "idle"]
  /\ UNCHANGED <<inc, created, rows, h, cells, cached, built, gate, rebuilding,
                 rd, dropping, writes, past, crossed, late>>

TaskEnd ==
  /\ task.pc = "end"
  /\ task' = [task EXCEPT !.pc = "idle"] /\ rebuilding' = FALSE
  /\ UNCHANGED <<inc, created, rows, h, cells, cached, built, gate, rd,
                 dropping, writes, past, crossed, late>>

-----------------------------------------------------------------------------
(* A pure-vector search.                                                   *)

Goes(r, x) == rd' = [rd EXCEPT ![r] = x]
At(r, pc) == Goes(r, [rd[r] EXCEPT !.pc = pc])
Elsewhere == UNCHANGED <<inc, created, rows, cells, gate, dropping, writes, past>>

\* the fast path if a cell is cached; else the gate, unless known to be built
search(r) ==
  /\ rd[r].pc = "idle"
  /\ Goes(r, [Idle EXCEPT !.pc = IF cached # 0 THEN "cell"
                                 ELSE IF built THEN "read" ELSE "check",
                          !.of = cached,
                          !.due = DOMAIN rows # {} /\ ~dropping])
  /\ UNCHANGED <<h, cached, built, rebuilding, task, crossed, late>> /\ Elsewhere

\* cell.load(): the cell updates itself while its collection lives
Cell(c) == IF c = inc THEN h.snapshot ELSE cells[c]
load_cell(r) ==
  /\ rd[r].pc = "cell"
  /\ Goes(r, Idle)
  /\ UNCHANGED <<h, cached, built, rebuilding, task, crossed, late>> /\ Elsewhere

\* check_and_cache_readiness: the answer is read under the lock ...
Readiness(r, from, yes, no) ==
  /\ rd[r].pc = from
  /\ LET ready == inc = 0 \/ index_ready(h, rows)
         after == IF ready THEN yes ELSE no
     IN Goes(r, [rd[r] EXCEPT
          !.pc = IF inc # 0 /\ h.ever_built THEN "cache" ELSE after,
          !.of = inc, !.ready = ready,
          !.gate = IF after = "gate" THEN gate ELSE @])
  /\ UNCHANGED <<h, cached, built, rebuilding, task, crossed, late>> /\ Elsewhere


check(r) == Readiness(r, "check", "read", "gate")

\* ... and its permanent half is cached after the lock was released (what was
\* ever built is ready, so the reader goes on to read)
cache_built(r) ==
  /\ rd[r].pc = "cache"
  /\ built' = TRUE
  /\ late' = (late \/ rd[r].of # inc)
  /\ At(r, "read")
  /\ UNCHANGED <<h, cached, rebuilding, task, crossed>> /\ Elsewhere

Holding == {"recheck", "capture", "commit", "after"}
lock_gate(r) ==
  /\ rd[r].pc = "gate"
  /\ \A q \in Readers \ {r} :
       ~(rd[q].pc \in Holding /\ rd[q].gate = rd[r].gate)
  /\ At(r, "recheck")
  /\ UNCHANGED <<h, cached, built, rebuilding, task, crossed, late>> /\ Elsewhere

recheck(r) == Readiness(r, "recheck", "read", "capture")

capture(r) ==
  /\ rd[r].pc = "capture"
  /\ Goes(r, IF MustRebuild
             THEN [rd[r] EXCEPT !.pc = "commit", !.of = inc, !.in = Captured]
             ELSE [rd[r] EXCEPT !.pc = "after"])
  /\ UNCHANGED <<h, cached, built, rebuilding, task, crossed, late>> /\ Elsewhere

commit(r) ==
  /\ rd[r].pc = "commit"
  /\ Commit(rd[r])
  /\ Goes(r, [rd[r] EXCEPT !.pc = IF StillStale(rd[r]) THEN "capture" ELSE "after",
                           !.in = NoInputs])
  /\ UNCHANGED <<cached, built, rebuilding, task, late>> /\ Elsewhere

after_build(r) == Readiness(r, "after", "read", "read")


\* search_blocking under the shared lock: answer, warm the cell cache when the
\* collection is current, schedule a rebuild when it is not
read(r) ==
  /\ rd[r].pc = "read"
  /\ Goes(r, Idle)
  /\ cached' = IF inc # 0 /\ ~h.stale /\ mvcc_served(h) /\ cached = 0
               THEN inc ELSE cached
  /\ schedule_rebuild(MustRebuild)
  /\ UNCHANGED <<h, built, crossed, late>> /\ Elsewhere

Reader(r) ==
  \/ load_cell(r) \/ check(r) \/ cache_built(r) \/ lock_gate(r) \/ recheck(r)
  \/ capture(r) \/ commit(r) \/ after_build(r) \/ read(r)

RunRebuild == TaskCapture \/ TaskCommit \/ TaskEnd

Next ==
  \/ create_collection \/ drop_collection \/ evict
  \/ \E e \in Ids, v \in Vals : Upsert(e, v) \/ UpsertBulk(e, v)
  \/ \E e \in Ids : DeletePoint(e)
  \/ RunRebuild
  \/ \E r \in Readers : search(r) \/ Reader(r)

Spec == Init /\ [][Next]_vars

\* Every spawned task and every request goes on (the runtime is fair), and
\* clients keep searching; nobody has to write, create or drop.
FairSpec ==
  /\ Spec
  /\ WF_vars(RunRebuild) /\ WF_vars(evict)
  /\ \A r \in Readers : WF_vars(search(r)) /\ WF_vars(Reader(r))
-----------------------------------------------------------------------------
TypeOK ==
  /\ inc \in {0, created} /\ created \in 0 .. MaxCreates + 1
  /\ DOMAIN rows \subseteq Ids
  /\ cached \in 0 .. created /\ built \in BOOLEAN /\ rebuilding \in BOOLEAN
  /\ (task.pc = "idle") = ~rebuilding
  /\ inc # 0 => rows \in past

\* The cell the lock-free path serves is the live collection's, except while
\* delete_collection is between its drop and its eviction: a reader warms the
\* cache under the lock a drop excludes (search_blocking, delete_collection).
CellIsLive == cached \notin {0, inc} => dropping

\* A collection that is not stale is answered with exactly its rows, by the
\* locked path and by the lock-free one, whatever rebuild raced which write,
\* unless a build captured from a collection of the same name dropped since
\* was installed in it (commit_rebuild compares write generations only).
FreshIsExact ==
  inc # 0 /\ ~h.stale /\ ~crossed => search_snapshot(h) = Rows(rows)

\* Off the MVCC path, a stale collection is still answered from one consistent
\* earlier state of the same collection, or from nothing before its first
\* build: never from a mixture (index_upsert_point leaves a stale index alone).
ServesPast ==
  inc # 0 /\ ~crossed /\ ~mvcc_served(h) =>
    \/ \E p \in past : search_snapshot(h) = Rows(p)
    \/ ~h.ever_built /\ search_snapshot(h) = {}

\* The readiness cache never lets a search skip the first-build gate of a
\* collection that was never built, unless it was filled by a reader that had
\* looked at a collection dropped since (ensure_index_built).
GateNotSkipped == built /\ inc # 0 /\ ~dropping /\ ~late => h.ever_built

\* A search begun after points were acknowledged and no delete_collection was
\* under way, with no point deleted since, is
\* never answered from an index that was not built yet: the first readers wait
\* for the first build, whatever drops, writes and other builds come between
\* their check and their read (ensure_index_built, ADR-0081).
AwaitsFirstBuild ==
  \A r \in Readers :
    /\ rd[r].pc = "read" /\ rd'[r].pc = "idle"
    /\ rd[r].due /\ inc # 0 /\ ~late
    => h.ever_built \/ ~h.stale
FirstBuildAwaited == [][AwaitsFirstBuild]_vars

\* Once writes stop, a collection somebody keeps searching becomes current.
Lagging == inc # 0 /\ h.stale
CatchesUp == Lagging ~> ~Lagging
=============================================================================

--------------------------- MODULE IndexRecovery ---------------------------
(***************************************************************************)
(* The durable index snapshot of one collection (IVF and DiskVamana): what *)
(* a checkpoint seals, what a reopen restores, and how the write-ahead-log *)
(* tail catches the restored index up with the store.                      *)
(*                                                                         *)
(* The store is what QuiverStore proves it to be: a write is durable when  *)
(* its call returns, so the live rows survive a crash.  Of its layout the  *)
(* model keeps what recovery_tail reads: the external ids in sealed        *)
(* segments, and the ids the log tail touches.                             *)
(***************************************************************************)
EXTENDS IndexHandle, SequencesExt

CONSTANTS DurableKinds,   \* index kinds a behaviour may start with
          MaxOps          \* bound: store writes in a behaviour

VARIABLES rows,      \* live rows: external id -> value
          seg,       \* ids of sealed rows that are not in a .del bitmap
          touched,   \* ids written (upserted or deleted) since the checkpoint
          blob,      \* the manifest's index snapshot, {} or one envelope
          column,    \* idmap.qic
          qvx,       \* vamana.qvx, {} or the ids and vectors of its base
          h,         \* the in-memory handle
          ops,       \* writes so far
          \* history: the column (or graph file) is newer than the blob;
          \* a compaction merged a delete of the tail away; the handle was
          \* restored from a blob in one of these two situations
          newer, merged, doubtful

vars == <<rows, seg, touched, blob, column, qvx, h, ops, newer, merged,
          doubtful>>

Durable(kind) == kind \in {"ivf", "disk"}

Init ==
  /\ rows = Empty /\ seg = {} /\ touched = {} /\ blob = {}
  /\ column = <<>> /\ qvx = {}
  /\ h \in {NewHandle(k, FALSE) : k \in DurableKinds}
  /\ ops = 0
  /\ newer = FALSE /\ merged = FALSE /\ doubtful = FALSE

\* a rebuild writes the graph file (DiskVamana) and then the id column
Rewrites(ids) ==
  /\ column' = ids
  /\ qvx' = IF h.kind = "disk"
            THEN {[ids |-> ids, vec |-> build_index(ids, rows).vec]}
            ELSE qvx
  /\ newer' = TRUE

Write ==
  /\ ops < MaxOps /\ ops' = ops + 1
  /\ UNCHANGED <<seg, blob, column, qvx, newer, merged, doubtful>>

Upsert(e, v) ==
  /\ Write
  /\ rows' = Put(rows, e, v) /\ touched' = touched \cup {e}
  /\ h' = upsert(h, e, v)

UpsertBulk(e, v) ==
  /\ Write
  /\ rows' = Put(rows, e, v) /\ touched' = touched \cup {e}
  /\ h' = upsert_bulk(h)

Delete(e) ==
  /\ e \in DOMAIN rows
  /\ Write
  /\ rows' = Without(rows, e) /\ touched' = touched \cup {e}
  /\ h' = delete(h, e)

\* the embedded search: a deferred rebuild first, synchronously
Search ==
  /\ h.stale
  /\ h' = ensure_indexed(h, rows)
  /\ Rewrites(scan_collection(rows))
  /\ doubtful' = FALSE
  /\ UNCHANGED <<rows, seg, touched, blob, ops, merged>>

(***************************************************************************)
(* checkpoint: seals the active rows and folds the window's tombstones, so *)
(* the log tail is empty; the envelope of a current, non-empty durable     *)
(* index is the manifest's snapshot from then on, any other is cleared.    *)
(***************************************************************************)
Envelope ==
  IF ~h.stale /\ h.index.built /\ Durable(h.kind)
     /\ (h.kind = "ivf" => DOMAIN h.index.vec # {})
  THEN {[base_count |-> Len(h.idmap.base), tail |-> h.idmap.tail,
         vec |-> IF h.kind = "ivf" THEN h.index.vec ELSE Empty,
         dead |-> h.index.dead]}
  ELSE {}

Seals(b) ==
  /\ seg' = DOMAIN rows /\ touched' = {} /\ blob' = b
  /\ newer' = FALSE /\ merged' = FALSE
  /\ UNCHANGED <<rows, column, qvx, h, ops, doubtful>>

checkpoint == Seals(Envelope)

\* the store's own checkpoint (a shred of any collection ends in one)
shred_checkpoint == Seals({})

\* compact: the live sealed rows into one segment; the log is not touched
compact ==
  /\ seg # {}
  /\ seg' = seg \ touched
  /\ merged' = (merged \/ seg \cap touched # {})
  /\ UNCHANGED <<rows, touched, blob, column, qvx, h, ops, newer, doubtful>>

(***************************************************************************)
(* Reopening: load_index restores from the blob where it can.              *)
(***************************************************************************)
recovery_tail == [upserts |-> Restrict(rows, touched \cap DOMAIN rows),
                  deleted |-> touched \cap seg]

Fresh == [NewHandle(h.kind, FALSE) EXCEPT !.stale = TRUE]

\* a set of ids, one after another in external-id order
InOrder(Op(_, _), x, ids) == FoldLeft(Op, x, SetToSortSeq(ids, <))

replay_recovery_tail(x) ==
  LET t  == recovery_tail
      x1 == InOrder(index_delete_point, x, t.deleted)
  IN InOrder(LAMBDA y, e : index_upsert_point(y, e, t.upserts[e]),
             x1, DOMAIN t.upserts)

\* IVF replays inline: an unknown delete is skipped, an insert never deferred
ReplayIvf(x) ==
  LET t == recovery_tail
      del(y, e) == [y EXCEPT !.index.vec =
                      Restrict(@, DOMAIN @ \ internal(y.idmap, e))]
      ins(y, e) ==
        LET k == internal(y.idmap, e)
        IN IF k = {}
           THEN [InsertInto(y, idmap_len(y.idmap), t.upserts[e])
                   EXCEPT !.idmap = push(@, e)]
           ELSE InsertInto(y, CHOOSE i \in k : TRUE, t.upserts[e])
  IN InOrder(ins, InOrder(del, x, t.deleted), DOMAIN t.upserts)

Restored(b) ==
  [Fresh EXCEPT !.idmap = [base |-> column, tail |-> b.tail],
                !.stale = FALSE, !.ever_built = TRUE,
                !.sparse.on = FALSE]

restore_ivf_snapshot(b) ==
  ReplayIvf([Restored(b) EXCEPT
    !.index = [built |-> TRUE, vec |-> b.vec, dead |-> {},
               base |-> b.base_count]])


\* the delta is the tail: its rows that still live, under their internal ids
restore_disk_snapshot(b, file) ==
  LET delta == {j \in DOMAIN b.tail : b.tail[j] \in DOMAIN rows}
      ids   == {b.base_count + j - 1 : j \in delta}
      vec   == [i \in DOMAIN file.vec \cup ids |->
                  IF i < b.base_count THEN file.vec[i]
                  ELSE rows[b.tail[i - b.base_count + 1]]]
  IN replay_recovery_tail([Restored(b) EXCEPT
       !.index = [built |-> TRUE, vec |-> vec, dead |-> b.dead,
                  base |-> b.base_count]])

\* the counts of the blob, the column and the graph file must agree
Restorable ==
  \E b \in blob :
    /\ Len(column) = b.base_count
    /\ h.kind = "disk" => \E f \in qvx : Len(f.ids) = b.base_count

load_index ==
  IF Restorable
  THEN /\ \E b \in blob :
            h' = IF h.kind = "ivf" THEN restore_ivf_snapshot(b)
                 ELSE restore_disk_snapshot(b, CHOOSE f \in qvx : TRUE)
       /\ doubtful' = (doubtful \/ newer \/ merged)
       /\ UNCHANGED <<column, qvx, newer>>
  ELSE /\ h' = rebuild_index(Fresh, rows)
       /\ Rewrites(scan_collection(rows))
       /\ doubtful' = FALSE

Reopen ==
  /\ load_index
  /\ UNCHANGED <<rows, seg, touched, blob, ops, merged>>

\* a crash inside a DiskVamana rebuild, after the graph file was renamed into
\* place and before the id column was
CrashInRebuild ==
  /\ h.stale /\ h.kind = "disk"
  /\ LET ids == scan_collection(rows)
     IN qvx' = {[ids |-> ids, vec |-> build_index(ids, rows).vec]}
  /\ newer' = TRUE
  /\ h' = Fresh
  /\ UNCHANGED <<rows, seg, touched, blob, column, ops, merged, doubtful>>

Next ==
  \/ \E e \in Ids, v \in Vals : Upsert(e, v) \/ UpsertBulk(e, v)
  \/ \E e \in Ids : Delete(e)
  \/ Search \/ checkpoint \/ shred_checkpoint \/ compact
  \/ Reopen \/ CrashInRebuild

Spec == Init /\ [][Next]_vars
-----------------------------------------------------------------------------
TypeOK ==
  /\ DOMAIN rows \subseteq Ids /\ \A e \in DOMAIN rows : rows[e] \in Vals
  /\ seg \subseteq Ids /\ touched \subseteq Ids
  /\ Cardinality(blob) <= 1 /\ Cardinality(qvx) <= 1
  /\ h.kind \in Kinds /\ h.stale \in BOOLEAN /\ h.write_gen \in Nat
  /\ DOMAIN h.index.vec \subseteq 0 .. idmap_len(h.idmap) - 1

\* An index that is not stale answers a search with exactly the live rows and
\* their current vectors, whatever writes, checkpoints, compactions, crashes
\* and restores came before, unless it was restored from a blob older than the
\* id column or than a compaction (index_upsert_point, restore_*_snapshot).
FreshIsExact ==
  ~h.stale /\ ~doubtful => search_snapshot(h) = Rows(rows)

\* The sparse side of hybrid search ranks exactly the live rows whenever the
\* dense index is current: the two are maintained by different rules.
SparseIsExact ==
  ~h.stale => sparse_ranked_ids(h, rows) = rows
=============================================================================

---------------------------- MODULE IndexHandle ----------------------------
(***************************************************************************)
(* The derived index of one collection, as quiver-embed keeps it beside    *)
(* the store: the handle a database holds per collection, and the pure     *)
(* operations on it.  An index is approximate about RANKING only; what the *)
(* model keeps of it is which points it can return and with which vector.  *)
(*                                                                         *)
(* The module has no variables: IndexRecovery and Serving put a handle     *)
(* beside a store and step both.                                           *)
(***************************************************************************)
EXTENDS Integers, Sequences, FiniteSets

CONSTANTS Ids,             \* external ids, ordered like the code's strings
          Vals,            \* a point's vector together with its payload
          RebuildInverse,  \* 1 / GRAPH_REBUILD_PENDING_FRACTION (5 in the code)
          OverlayFloor     \* floor of overlay_rebuild_threshold (1024)

Kinds == {"hnsw", "vamana", "disk", "ivf", "colbert"}

Empty == [i \in {} |-> {}]
Put(f, k, v) == [i \in DOMAIN f \cup {k} |-> IF i = k THEN v ELSE f[i]]
Minus(f, S) == [i \in DOMAIN f \ S |-> f[i]]
Without(f, k) == Minus(f, {k})

(***************************************************************************)
(* IdMap: internal id <-> external id.  The base is the sealed column, in  *)
(* internal-id order; the tail is resident.  Internal ids count from 0.    *)
(* A lookup is a set with at most one member.                              *)
(***************************************************************************)
EmptyMap == [base |-> <<>>, tail |-> <<>>]
idmap_len(m) == Len(m.base) + Len(m.tail)
push(m, e) == [m EXCEPT !.tail = Append(@, e)]

ext(m, i) == (m.base \o m.tail)[i + 1]

internal(m, e) ==
  LET at == {i \in DOMAIN m.tail : m.tail[i] = e}
  IN IF at # {}
     THEN {Len(m.base) + (CHOOSE i \in at : \A j \in at : j <= i) - 1}
     ELSE {i - 1 : i \in {j \in DOMAIN m.base : m.base[j] = e}}

(***************************************************************************)
(* An index: the vector of every internal id it holds, its tombstones, and *)
(* how many points its last build had.  `built` is FALSE for the Option    *)
(* kinds before their first build; HNSW is live from creation.             *)
(***************************************************************************)
empty_index(kind) ==
  [built |-> kind = "hnsw", vec |-> Empty, dead |-> {}, base |-> 0]

build_index(ids, rows) ==
  [built |-> TRUE, vec |-> [i \in 0 .. Len(ids) - 1 |-> rows[ids[i + 1]]],
   dead |-> {}, base |-> Len(ids)]

Found(x) == DOMAIN x.vec \ x.dead

\* delta size plus tombstones, over the size of the base graph
pending(x) == Cardinality(x.dead)
              + Cardinality({i \in DOMAIN x.vec : i >= x.base})
atleast1(n) == IF n < 1 THEN 1 ELSE n
GraphCrowded(x) == pending(x) * RebuildInverse >= atleast1(x.base)
\* deleted_fraction of HNSW and ColBERT: tombstones over all nodes
PoolCrowded(x) == /\ x.dead # {}
                  /\ Cardinality(x.dead) * RebuildInverse
                       >= Cardinality(DOMAIN x.vec)

(***************************************************************************)
(* A published snapshot (MVCC): the frozen base, the external id of every  *)
(* internal id of it, and the overlay of later writes.                     *)
(***************************************************************************)
EmptySnapshot == [index |-> [built |-> FALSE, vec |-> Empty, dead |-> {},
                             base |-> 0],
                  ids |-> <<>>, upserts |-> <<>>, tombs |-> {}]

overlay_rebuild_threshold(n) ==
  IF n \div RebuildInverse > OverlayFloor THEN n \div RebuildInverse
                                          ELSE OverlayFloor

(***************************************************************************)
(* CollectionHandle.                                                       *)
(***************************************************************************)
NewHandle(kind, mvcc) ==
  [kind |-> kind, index |-> empty_index(kind), idmap |-> EmptyMap,
   stale |-> FALSE, ever_built |-> FALSE, write_gen |-> 0, mvcc |-> mvcc,
   snapshot |-> EmptySnapshot, sparse |-> [on |-> kind # "colbert", of |-> Empty]]

mvcc_eligible(kind) == kind \notin {"disk", "colbert"}
mvcc_served(h) == h.mvcc /\ mvcc_eligible(h.kind)

bump_write_gen(h) == [h EXCEPT !.write_gen = @ + 1]
mark_stale(h) == [bump_write_gen(h) EXCEPT !.stale = TRUE]
StaleIf(h, crowded) == IF crowded THEN mark_stale(h) ELSE h

publish_base(h) ==
  [h EXCEPT !.index = empty_index(h.kind),
            !.snapshot = [index |-> h.index,
                          ids |-> h.idmap.base \o h.idmap.tail,
                          upserts |-> <<>>, tombs |-> {}]]

\* one point of overlay_upsert_batch: the prior copy is tombstoned, wherever
\* it is, and the new one appended under the next internal id
overlay_upsert(h, e, v) ==
  LET s  == [h.snapshot EXCEPT !.tombs = @ \cup internal(h.idmap, e),
                               !.upserts = Append(@, <<e, v>>)]
      h1 == [bump_write_gen(h) EXCEPT !.idmap = push(@, e), !.snapshot = s]
  IN [h1 EXCEPT !.stale = @ \/ Len(s.upserts)
                                 >= overlay_rebuild_threshold(Len(s.ids))]

overlay_delete(h, e) ==
  [bump_write_gen(h) EXCEPT
     !.snapshot.tombs = @ \cup internal(h.idmap, e)]

(***************************************************************************)
(* Folding one write into the index, or deferring it to a rebuild.         *)
(***************************************************************************)
InsertInto(h, i, v) == [h EXCEPT !.index.vec = Put(@, i, v)]

index_upsert_point(h, e, v) ==
  LET h1    == bump_write_gen(h)
      known == internal(h.idmap, e)
      next  == idmap_len(h.idmap)
      \* append under a fresh id, tombstoning the prior copy
      append == [InsertInto([h1 EXCEPT !.index.dead = @ \cup known], next, v)
                   EXCEPT !.idmap = push(@, e)]
  IN CASE mvcc_served(h) -> overlay_upsert(h, e, v)
       [] ~mvcc_served(h) /\ h.stale -> h1
       [] ~mvcc_served(h) /\ ~h.stale ->
            CASE h.kind = "hnsw" /\ known = {} -> append
              [] h.kind = "ivf" /\ DOMAIN h.index.vec # {} ->
                   IF known = {} THEN append
                   ELSE InsertInto(h1, CHOOSE i \in known : TRUE, v)
              [] h.kind \in {"vamana", "disk"} /\ h.index.built ->
                   StaleIf(append, GraphCrowded(append.index))
              [] h.kind = "colbert" /\ h.index.built ->
                   StaleIf(append, PoolCrowded(append.index))
              [] OTHER -> mark_stale(h1)

index_delete_point(h, e) ==
  LET h1    == bump_write_gen(h)
      known == internal(h.idmap, e)
      tomb  == [h1 EXCEPT !.index.dead = @ \cup known]
  IN CASE mvcc_served(h) -> overlay_delete(h, e)
       [] ~mvcc_served(h) /\ h.stale -> h1
       [] ~mvcc_served(h) /\ ~h.stale ->
            CASE known = {} \/ ~h.index.built -> mark_stale(h1)
              [] known # {} /\ h.index.built /\ h.kind = "ivf" ->
                   [h1 EXCEPT !.index.vec =
                      Minus(@, known)]
              [] known # {} /\ h.index.built
                   /\ h.kind \in {"vamana", "disk"} ->
                   StaleIf(tomb, GraphCrowded(tomb.index))
              [] known # {} /\ h.index.built
                   /\ h.kind \in {"hnsw", "colbert"} ->
                   StaleIf(tomb, PoolCrowded(tomb.index))

(***************************************************************************)
(* The derived sparse inverted index: absent (`on` FALSE) after a durable  *)
(* restore, when hybrid search scans the store instead.                    *)
(***************************************************************************)
sparse_index_upsert_point(h, e, v) ==
  IF h.stale \/ ~h.sparse.on THEN h ELSE [h EXCEPT !.sparse.of = Put(@, e, v)]

sparse_index_delete_point(h, e) == [h EXCEPT !.sparse.of = Without(@, e)]

\* the index side of Database::upsert, ::delete and ::upsert_bulk
upsert(h, e, v) == sparse_index_upsert_point(index_upsert_point(h, e, v), e, v)
delete(h, e) == sparse_index_delete_point(index_delete_point(h, e), e)
upsert_bulk(h) == mark_stale(h)

sparse_ranked_ids(h, rows) == IF h.sparse.on THEN h.sparse.of ELSE rows

(***************************************************************************)
(* Rebuilding.  The inputs are the live rows in external-id order (the     *)
(* order store.scan yields) and the write generation they were read at.    *)
(***************************************************************************)
scan_collection(rows) ==
  CHOOSE ids \in [1 .. Cardinality(DOMAIN rows) -> DOMAIN rows] :
    \A i, j \in DOMAIN ids : i < j => ids[i] < ids[j]

snapshot_rebuild_inputs(h, rows) ==
  [ids |-> scan_collection(rows), rows |-> rows, write_gen |-> h.write_gen]

rebuild_index(h, rows) ==
  LET ids == scan_collection(rows)
  IN [h EXCEPT !.index = build_index(ids, rows),
               !.idmap = [base |-> ids, tail |-> <<>>],
               !.sparse = [on |-> h.kind # "colbert", of |-> rows],
               !.stale = FALSE, !.ever_built = TRUE]

ensure_indexed(h, rows) ==
  CASE ~h.stale -> h
    [] h.stale /\ mvcc_served(h) -> publish_base(rebuild_index(h, rows))
    [] h.stale /\ ~mvcc_served(h) -> rebuild_index(h, rows)


commit_rebuild(h, r) ==
  LET h1 == [h EXCEPT !.index = build_index(r.ids, r.rows),
                      !.idmap = [base |-> r.ids, tail |-> <<>>],
                      !.sparse = [on |-> h.kind # "colbert", of |-> r.rows],
                      !.ever_built = TRUE,
                      !.stale = h.write_gen # r.write_gen]
  IN IF mvcc_served(h) THEN publish_base(h1) ELSE h1

(***************************************************************************)
(* What a search of the handle (or of a snapshot) can return: pairs of an  *)
(* external id and the vector it was ranked by.                            *)
(***************************************************************************)
snapshot_search(s) ==
  {<<s.ids[i + 1], s.index.vec[i]>> : i \in Found(s.index) \ s.tombs}
  \cup {s.upserts[j] : j \in {k \in DOMAIN s.upserts :
                                Len(s.ids) + k - 1 \notin s.tombs}}

search_snapshot(h) ==
  IF mvcc_served(h) THEN snapshot_search(h.snapshot)
  ELSE {<<ext(h.idmap, i), h.index.vec[i]>> : i \in Found(h.index)}

Rows(rows) == {<<e, rows[e]>> : e \in DOMAIN rows}

\* index_ready: current, or something older to serve, or nothing to miss
index_ready(h, rows) == h.ever_built \/ ~h.stale \/ DOMAIN rows = {}
=============================================================================

------------------------------- MODULE Engine -------------------------------
(* The logical state of one node's database, and what the operations of the *)
(* log do to it: the state every replication path (the follower's stream,   *)
(* the Raft state machine, the shard migration) reads and writes.  Each     *)
(* operation is durable in the node's own log before it is applied (module  *)
(* QuiverStore), so that a restart finds the state after a whole number of  *)
(* operations; here an operation is one step.                               *)
EXTENDS Naturals, Sequences, TLC, Functions, FiniteSetsExt, SequencesExt

CONSTANTS Names,   \* collection names
          Ids,     \* external point ids, numbers: a scan returns them in order
          Vals     \* what a point holds: its vector and its payload

Empty == [x \in {} |-> x]
Without(f, S) == Restrict(f, DOMAIN f \ S)

-----------------------------------------------------------------------------
(* WalOp.                                                                   *)

Create(cid, n) == [op |-> "create", cid |-> cid, name |-> n]
Drop(cid) == [op |-> "drop", cid |-> cid]
Upsert(cid, i, v) == [op |-> "upsert", cid |-> cid, id |-> i, val |-> v]
Delete(cid, i) == [op |-> "delete", cid |-> cid, id |-> i]

IsOp(o) ==
  \/ o \in [op : {"create"}, cid : Nat, name : Names]
  \/ o \in [op : {"drop"}, cid : Nat]
  \/ o \in [op : {"upsert"}, cid : Nat, id : Ids, val : Vals]
  \/ o \in [op : {"delete"}, cid : Nat, id : Ids]

-----------------------------------------------------------------------------
(* A database: Store.collections, Store.name_index, Database.collections    *)
(* (the handles, by name) and Store.next_collection_id.                     *)

EmptyDb == [colls |-> Empty, names |-> Empty, handles |-> Empty, next |-> 1]

IsDb(d) ==
  /\ DOMAIN d.colls \subseteq Nat
  /\ \A c \in DOMAIN d.colls :
       /\ d.colls[c].name \in Names
       /\ DOMAIN d.colls[c].pts \subseteq Ids /\ Range(d.colls[c].pts) \subseteq Vals
  /\ \A m \in {d.names, d.handles} : DOMAIN m \subseteq Names /\ Range(m) \subseteq Nat
  /\ d.next \in Nat

\* apply_wal_entry: an operation on a collection that is not there does nothing.
apply_wal_entry(d, o) ==
  CASE o.op = "create" ->
         [d EXCEPT !.names = (o.name :> o.cid) @@ @,
                   !.colls = (o.cid :> [name |-> o.name, pts |-> Empty]) @@ @]
    [] o.op = "drop" /\ o.cid \in DOMAIN d.colls ->
         [d EXCEPT !.names = Without(@, {d.colls[o.cid].name}),
                   !.colls = Without(@, {o.cid})]
    [] o.op = "upsert" /\ o.cid \in DOMAIN d.colls ->
         [d EXCEPT !.colls[o.cid].pts = (o.id :> o.val) @@ @]
    [] o.op = "delete" /\ o.cid \in DOMAIN d.colls ->
         [d EXCEPT !.colls[o.cid].pts = Without(@, {o.id})]
    [] OTHER -> d

\* Store::apply_replicated: the id allocator stays ahead of the ids received.
store_apply_replicated(d, o) ==
  LET bumped == IF o.op = "create" THEN [d EXCEPT !.next = Max({@, o.cid + 1})] ELSE d
  IN  apply_wal_entry(bumped, o)

\* Database::apply_replicated skips a create whose name has a handle ...
Skipped(d, o) == o.op = "create" /\ o.name \in DOMAIN d.handles

\* ... and otherwise applies the operation and reconciles the handles.
apply_replicated(d, o) ==
  LET s == store_apply_replicated(d, o)
  IN  CASE Skipped(d, o) -> d
        [] ~Skipped(d, o) /\ o.op = "create" -> [s EXCEPT !.handles = (o.name :> o.cid) @@ @]
        [] o.op = "drop" ->
             [s EXCEPT !.handles = Without(@, {n \in DOMAIN @ : @[n] = o.cid})]
        [] OTHER -> s

ApplyAll(d, ops) == FoldLeft(apply_replicated, d, ops)

\* Mutant: the last point is left out.
SnapshotButLast(d, cid) ==
  LET pts == d.colls[cid].pts
      ids == SetToSortSeq(DOMAIN pts, <)
  IN  <<Create(cid, d.colls[cid].name)>>
      \o [k \in 1..(Max({1, Len(ids)}) - 1) |-> Upsert(cid, ids[k], pts[ids[k]])]

\* replication_snapshot: per collection, in the order of a hash map, a create
\* and then an upsert for each live point in id order.
SnapshotOf(d, cid) ==
  LET pts == d.colls[cid].pts
      ids == SetToSortSeq(DOMAIN pts, <)
  IN  <<Create(cid, d.colls[cid].name)>>
      \o [k \in DOMAIN ids |-> Upsert(cid, ids[k], pts[ids[k]])]
replication_snapshot(d) ==
  {FlattenSeq([k \in DOMAIN cs |-> SnapshotOf(d, cs[k])]) : cs \in SetToSeqs(DOMAIN d.colls)}

\* from_store: the handles of a reopened database are those of its name index.
from_store(d) == [d EXCEPT !.handles = Restrict(d.names, {n \in DOMAIN d.names : d.names[n] \in DOMAIN d.colls})]

-----------------------------------------------------------------------------
(* The operations a client's request turns into, on the node that takes it. *)

\* Store::create_collection and prepare_create_collection: the next id, if the name is free.
create_ops(d) == {Create(d.next, n) : n \in Names \ DOMAIN d.names}
\* Database::drop_collection, shred_collection.
drop_ops(d) == {Drop(d.names[n]) : n \in DOMAIN d.names}
\* upsert and prepare_upsert: the collection is found through its handle.
Reached(d) == Range(d.handles) \cap DOMAIN d.colls
upsert_ops(d) == {Upsert(c, i, v) : c \in Reached(d), i \in Ids, v \in Vals}
\* delete and prepare_delete: no operation for a point that is not there.
delete_ops(d) ==
  UNION {{Delete(c, i) : i \in DOMAIN d.colls[c].pts} : c \in Reached(d)}

\* A local write: the operation is logged and applied, and the handle made or removed.
CreatedLocally(d, o) ==
  [apply_wal_entry(d, o) EXCEPT !.next = @ + 1, !.handles = (o.name :> o.cid) @@ @]
DroppedLocally(d, o) ==
  [apply_wal_entry(d, o) EXCEPT !.handles = Without(@, {d.colls[o.cid].name})]
AppliedLocally(d, o) ==
  CASE o.op = "create" -> CreatedLocally(d, o)
    [] o.op = "drop" -> DroppedLocally(d, o)
    [] OTHER -> apply_wal_entry(d, o)
=============================================================================

----------------------------- MODULE DurableMap -----------------------------
(***************************************************************************)
(* What quiver-core's Store promises its caller (store.rs 1-42, ADR-0005):  *)
(* a map from collection names to points.  A call's operations take effect  *)
(* in order; a crash keeps what returned and a prefix of what did not; and  *)
(* nothing else -- no checkpoint, compaction, collection or recovery --     *)
(* changes what a reader sees.                                             *)
(***************************************************************************)
EXTENDS Naturals, Sequences

CONSTANTS Names, Ids, Vals

VARIABLES
  db,        \* collection name -> (id -> value)
  inflight,  \* the operations of the running call not yet applied
  up         \* whether the store answers

vars == <<db, inflight, up>>

Op == [op : {"create", "drop"}, name : Names]
        \cup [op : {"delete"}, name : Names, id : Ids]
        \cup [op : {"upsert"}, name : Names, id : Ids, val : Vals]

Apply(d, o) ==
  CASE o.op = "create" ->
         [n \in DOMAIN d \cup {o.name} |-> IF n = o.name THEN [i \in {} |-> i] ELSE d[n]]
    [] o.op = "drop" -> [n \in DOMAIN d \ {o.name} |-> d[n]]
    [] o.op = "upsert" ->
         [d EXCEPT ![o.name] =
            [i \in DOMAIN @ \cup {o.id} |-> IF i = o.id THEN o.val ELSE @[i]]]
    [] o.op = "delete" -> [d EXCEPT ![o.name] = [i \in DOMAIN @ \ {o.id} |-> @[i]]]

\* An operation is issued only where it means something.
Applicable(d, o) ==
  CASE o.op = "create" -> o.name \notin DOMAIN d
    [] o.op = "delete" -> o.name \in DOMAIN d /\ o.id \in DOMAIN d[o.name]
    [] OTHER -> o.name \in DOMAIN d

Init == db = [n \in {} |-> n] /\ inflight = << >> /\ up = FALSE

\* A call: one operation, or a batch of upserts to one collection.
Issue ==
  /\ up /\ inflight = << >>
  /\ inflight' # << >>
  /\ \A i \in DOMAIN inflight' :
       /\ inflight'[i] \in Op
       /\ Applicable(db, inflight'[i])
       /\ Len(inflight') > 1 =>
            inflight'[i].op = "upsert" /\ inflight'[i].name = inflight'[1].name
  /\ UNCHANGED <<db, up>>

ApplyFirst ==
  /\ up /\ inflight # << >>
  /\ db' = Apply(db, Head(inflight))
  /\ inflight' = SubSeq(inflight, 2, Len(inflight))
  /\ UNCHANGED up

\* A crash keeps some prefix of the call in flight.
Crash ==
  LET after[k \in 0..Len(inflight)] ==
        IF k = 0 THEN db ELSE Apply(after[k - 1], inflight[k])
  IN  /\ up' = FALSE
      /\ inflight' = << >>
      /\ \E k \in 0..Len(inflight) : db' = after[k]

Recover == ~up /\ up' = TRUE /\ UNCHANGED <<db, inflight>>

Next == Issue \/ ApplyFirst \/ Crash \/ Recover

Spec == Init /\ [][Next]_vars
=============================================================================

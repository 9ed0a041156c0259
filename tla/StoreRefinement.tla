--------------------------- MODULE StoreRefinement ---------------------------
(***************************************************************************)
(* QuiverStore implements DurableMap.  While the engine answers, the map is *)
(* what its memory reads as; while it is down or recovering, the map is     *)
(* what recovery will make of the disk: the manifest's segments with the    *)
(* WAL tail replayed on them.  Recovery replays one frame per step in       *)
(* QuiverStore; here the same fold is taken at once, as a reference.        *)
(***************************************************************************)
EXTENDS QuiverStore

Last(S) == CHOOSE a \in S :
             \A b \in S : b[1] < a[1] \/ (b[1] = a[1] /\ b[2] <= a[2])

The(S) == CHOOSE x \in S : TRUE

\* The state after replaying a set of frames of the tail in log order.
Replayed ==
  LET after[S \in SUBSET WalTail] ==
        IF S = {}
        THEN [cs |-> [c \in DOMAIN manifest.colls |-> Opened(c, manifest.colls[c])],
              ns |-> ManifestNames]
        ELSE LET t == Last(S)
                 e == wal[t[1]][t[2]]
             IN  The({[cs |-> AppliedColls(p.cs, e), ns |-> AppliedNames(p.cs, p.ns, e)] :
                        p \in {after[S \ {t}]}})
  IN  after[WalTail]

Recovering == pc = "down" \/ job.opening

AbsDb ==
  The({[n \in DOMAIN st.ns |->
          LET cid == st.ns[n]
              c   == st.cs[cid]
          IN  [id \in {i \in Ids : Located(cid, c, i)} |-> Get(cid, c, id)]] :
         st \in {IF Recovering THEN Replayed ELSE [cs |-> colls, ns |-> nameIndex]}})

AbsOp(e) ==
  LET n == CHOOSE n \in job.name : TRUE
  IN  CASE e.op \in {"create", "drop"} -> [op |-> e.op, name |-> n]
        [] e.op = "delete" -> [op |-> e.op, name |-> n, id |-> e.id]
        [] e.op = "upsert" -> [op |-> e.op, name |-> n, id |-> e.id, val |-> e.val]

AbsInflight == [i \in DOMAIN job.batch |-> AbsOp(job.batch[i])]

Promise == INSTANCE DurableMap WITH db <- AbsDb, inflight <- AbsInflight, up <- ~Recovering

\* The engine implements the durable map: every step of every operation, of
\* recovery and of every crash is a step of DurableMap or leaves it as it was.
ImplementsDurableMap == Promise!Spec
=============================================================================

------------------------------ MODULE Gateway ------------------------------
(***************************************************************************)
(* One request's way through the server: the transports' authentication    *)
(* and rate limit (rest.rs auth, grpc.rs authenticate), the checks of the  *)
(* AppState handler, the engine, shard or Raft call, the audit record and  *)
(* the reply.  The client may go away at any await: the handler's future   *)
(* is dropped there, while a call already handed to the blocking pool, to  *)
(* a shard or to the Raft group goes on.                                   *)
(***************************************************************************)
EXTENDS Integers, Sequences, FiniteSets

CONSTANTS
  Colls,         \* collection names
  Keys,          \* API keys; each has a role and a scope
  KeyRole,       \* [Keys -> 1..3]
  KeyScope,      \* [Keys -> SUBSET Colls]: what the key's patterns match
  Deployments,   \* the ways this node may be configured
  Providers,     \* the collections with an [embedding.<name>] table
  MaxRequests    \* bound on the requests of a behaviour

VARIABLES
  mode,     \* "single", "follower", "router" or "raft"
  leader,   \* this node leads its Raft group
  engine,   \* the collections of the node's own engine
  shards,   \* the collections of the shards behind a router
  req,      \* the request being served
  served    \* how many requests have been served

vars == <<mode, leader, engine, shards, req, served>>

----------------------------------------------------------------------------
\* auth.rs: Action, ordered by privilege, and the check of one operation.
Read == 1
Write == 2
Admin == 3
Anything == "*"

scope_matches(key, coll) == coll \in KeyScope[key]

require(key, action, coll) ==
  KeyRole[key] >= action /\ (coll = Anything \/ scope_matches(key, coll))

can_see(key, coll) == scope_matches(key, coll)

\* What a handler does, in the order it does it:
\*   role, global   the action it authorizes, on the collection or on "*"
\*   early          ensure_writable comes before authorize, not after
\*   writes         the handler calls ensure_writable and changes state
\*   rejects        reject_if_cluster: a router answers 501
\*   capped         some check of Limits applies to the request
\*   routed         a router sends it to the shards
\*   proposed       a Raft voter proposes it to its group
\*   audited        the outcome is recorded after the call
\*   embeds         the operation it turns into once the provider has answered
Handler(role, flags, embeds) ==
  [role |-> role, flags |-> flags, embeds |-> embeds]

create_collection == Handler(Admin, {"writes", "capped", "routed", "proposed", "audited"}, "")
get_collection == Handler(Read, {"rejects"}, "")
list_collections == Handler(Read, {"global", "rejects"}, "")
delete_collection == Handler(Admin, {"writes", "routed", "audited"}, "")
upsert == Handler(Write, {"writes", "capped", "routed", "proposed", "audited"}, "")
upsert_bulk == Handler(Write, {"writes", "capped", "routed", "audited"}, "")
snapshot == Handler(Admin, {"global", "writes", "audited"}, "")
delete_points == Handler(Write, {"writes", "routed", "proposed", "audited"}, "")
get_points == Handler(Read, {"routed"}, "")
search == Handler(Read, {"capped", "routed"}, "")
hybrid_search == Handler(Read, {"rejects", "capped"}, "")
search_text == Handler(Read, {"rejects", "capped"}, "hybrid_search")
upsert_text == Handler(Write, {"early", "writes", "capped"}, "upsert")
fetch == Handler(Read, {"rejects", "capped"}, "")
upsert_documents == Handler(Write, {"early", "writes", "capped", "audited"}, "")
delete_documents == Handler(Write, {"early", "writes", "audited"}, "")
search_multi_vector == Handler(Read, {"rejects", "capped"}, "")
open_replication == Handler(Admin, {"global"}, "")
raft_add_voter == Handler(Admin, {"global", "voters"}, "")
raft_remove_voter == Handler(Admin, {"global", "voters"}, "")
cluster_map == Handler(Admin, {"global", "map"}, "")

handlers ==
  [create_collection |-> create_collection, get_collection |-> get_collection,
   list_collections |-> list_collections, delete_collection |-> delete_collection,
   upsert |-> upsert, upsert_bulk |-> upsert_bulk, snapshot |-> snapshot,
   delete_points |-> delete_points, get_points |-> get_points, search |-> search,
   hybrid_search |-> hybrid_search, search_text |-> search_text,
   upsert_text |-> upsert_text, fetch |-> fetch, upsert_documents |-> upsert_documents,
   delete_documents |-> delete_documents, search_multi_vector |-> search_multi_vector,
   replicate |-> open_replication, raft_add_voter |-> raft_add_voter,
   raft_remove_voter |-> raft_remove_voter, cluster_map |-> cluster_map]

Has(op, flag) == flag \in handlers[op].flags

\* rest.rs router and grpc.rs: the operations each transport serves.
RestCollections == {"create_collection", "get_collection", "list_collections", "delete_collection"}
RestPoints == {"upsert", "upsert_bulk", "upsert_text", "delete_points", "get_points", "snapshot"}
RestSearches == {"search", "hybrid_search", "search_text", "fetch"}
RestDocuments == {"upsert_documents", "delete_documents", "search_multi_vector"}
RestCluster == {"cluster_map", "raft_add_voter", "raft_remove_voter"}
GrpcCollections == {"replicate"} \cup RestCollections
GrpcPoints == {"upsert", "upsert_bulk", "delete_points", "get_points"}
GrpcSearches == {"search", "hybrid_search", "upsert_text", "search_text", "fetch"}
GrpcDocuments == {"upsert_documents", "search_multi_vector", "delete_documents"}

rest_router == RestCollections \cup RestPoints \cup RestSearches \cup RestDocuments \cup RestCluster
grpc_service == GrpcCollections \cup GrpcPoints \cup GrpcSearches \cup GrpcDocuments

\* The token a request presents.  REST accepts only a header with the Bearer
\* prefix; gRPC also takes the bare value.
rest_presented(header) == header = "bearer"
grpc_presented(header) == header \in {"bearer", "bare"}

----------------------------------------------------------------------------
NoRequest == [op |-> "", key |-> "", coll |-> "", over |-> FALSE, phase |-> "idle",
              effect |-> "", reply |-> "", record |-> "", seen |-> {}]

TypeOK ==
  /\ mode \in Deployments
  /\ leader \in BOOLEAN
  /\ engine \subseteq Colls /\ shards \subseteq Colls
  /\ served \in 0..MaxRequests
  /\ req.phase \in {"idle", "admitted", "embedding", "running", "ran", "orphan", "done"}
  /\ req.effect \in {"", "local", "shards", "raft"}
  /\ req.record \in {"", "ok", "error", "denied"}
  /\ req.seen \subseteq Colls

Init ==
  /\ mode \in Deployments
  /\ leader \in (IF mode = "raft" THEN BOOLEAN ELSE {FALSE})
  /\ engine \in SUBSET Colls /\ shards = (IF mode = "router" THEN Colls ELSE {})
  /\ req = NoRequest
  /\ served = 0

Reply(r) == req' = [req EXCEPT !.phase = "done", !.reply = r]

\* rest.rs auth: 401 without a valid key, 429 over the rate, else the handler.
auth(op, coll, over) ==
  /\ op \in rest_router
  /\ \E header \in {"none", "bearer", "bare"}, key \in Keys, limited \in BOOLEAN :
       req' = [NoRequest EXCEPT
                 !.op = op, !.key = key, !.coll = coll, !.over = over,
                 !.phase = IF rest_presented(header) /\ ~limited THEN "admitted" ELSE "done",
                 !.reply = IF ~rest_presented(header) THEN "unauthorized"
                           ELSE IF limited THEN "limited" ELSE ""]

\* grpc.rs authenticate, at the head of every RPC.
authenticate(op, coll, over) ==
  /\ op \in grpc_service
  /\ \E header \in {"none", "bearer", "bare"}, key \in Keys, limited \in BOOLEAN :
       req' = [NoRequest EXCEPT
                 !.op = op, !.key = key, !.coll = coll, !.over = over,
                 !.phase = IF grpc_presented(header) /\ ~limited THEN "admitted" ELSE "done",
                 !.reply = IF ~grpc_presented(header) THEN "unauthorized"
                           ELSE IF limited THEN "limited" ELSE ""]

Arrive ==
  /\ req.phase = "idle"
  /\ served < MaxRequests
  /\ served' = served + 1
  /\ \E op \in DOMAIN handlers, coll \in Colls, over \in BOOLEAN :
       auth(op, coll, over) \/ authenticate(op, coll, over)
  /\ UNCHANGED <<mode, leader, engine, shards>>


\* AppState::authorize and authorize_global.
authorized ==
  require(req.key, handlers[req.op].role, IF Has(req.op, "global") THEN Anything ELSE req.coll)

\* ensure_writable: a replication follower refuses every client write.
ensure_writable == ~(Has(req.op, "writes") /\ mode = "follower")

\* reject_if_cluster
reject_if_cluster == ~(Has(req.op, "rejects") /\ mode = "router")

\* The checks of Limits the handler makes.
Limits_check == ~(Has(req.op, "capped") /\ req.over)

\* ensure_raft_leader: on the operations that are proposed to the group.
ensure_raft_leader == ~(Has(req.op, "proposed") /\ mode = "raft" /\ ~leader)

\* The voter operations need a Raft shard; the map needs a router.
Configured ==
  /\ Has(req.op, "voters") => mode = "raft"
  /\ Has(req.op, "map") => mode = "router"

\* Only a text operation looks its embedder up.
embedder == handlers[req.op].embeds # "" => req.coll \in Providers

\* The handler up to its first await: the first check that fails answers.
\* cluster_map asks the principal itself, so its denial leaves no record.
Handle ==
  /\ req.phase = "admitted"
  /\ IF Has(req.op, "early") /\ ~ensure_writable THEN Reply("read_only")
     ELSE IF ~authorized
     THEN req' = [req EXCEPT !.phase = "done", !.reply = "forbidden",
                             !.record = IF req.op = "cluster_map" THEN @ ELSE "denied"]
     ELSE IF ~ensure_writable THEN Reply("read_only")
     ELSE IF ~reject_if_cluster THEN Reply("unsupported")
     ELSE IF ~Limits_check THEN Reply("bad_request")
     ELSE IF ~embedder \/ ~Configured THEN Reply("bad_request")
     ELSE IF ~ensure_raft_leader THEN Reply("not_leader")
     ELSE req' = [req EXCEPT !.phase = IF handlers[req.op].embeds # "" THEN "embedding"
                                                                      ELSE "running"]
  /\ UNCHANGED <<mode, leader, engine, shards, served>>

\* The provider answers and the text operation goes on as the vector one, with
\* its own checks; or it fails, and the client is told.
Embed ==
  /\ req.phase = "embedding"
  /\ \/ \E over \in BOOLEAN :
          req' = [req EXCEPT !.op = handlers[@].embeds, !.over = over, !.phase = "admitted"]
     \/ Reply("upstream")
  /\ UNCHANGED <<mode, leader, engine, shards, served>>

----------------------------------------------------------------------------
\* Where the call goes, and the collections there.
Target ==
  IF mode = "router" /\ Has(req.op, "routed") THEN "shards"
  ELSE IF mode = "raft" /\ Has(req.op, "proposed") THEN "raft"
  ELSE "local"

Held == IF Target = "shards" THEN shards ELSE engine

\* The operation finds what it needs: creating wants the name free, dropping is
\* content either way, the others want the collection.
Applies ==
  CASE req.op = "create_collection" -> req.coll \notin Held
    [] Has(req.op, "global") \/ req.op = "delete_collection" -> TRUE
    [] OTHER -> req.coll \in Held

Result ==
  CASE req.op = "create_collection" -> Held \cup {req.coll}
    [] req.op = "delete_collection" -> Held \ {req.coll}
    [] OTHER -> Held

\* write_blocking, the router's fan-out or raft_propose, and their outcome: it
\* takes effect and says so; or it fails.  A proposal whose leader changed, and
\* a fan-out that lost one shard, may have taken effect and still fail.
Called(effect, ok) ==
  /\ engine' = IF effect /\ Target # "shards" THEN Result ELSE engine
  /\ shards' = IF effect /\ Target = "shards" THEN Result ELSE shards
  /\ req' = [req EXCEPT
               !.effect = IF effect /\ Has(req.op, "writes") THEN Target ELSE "",
               !.seen = IF ~ok THEN {}
                        ELSE IF req.op = "list_collections"
                        THEN {c \in Held : can_see(req.key, c)}
                        ELSE IF Has(req.op, "global") THEN {} ELSE {req.coll},
               !.reply = IF req.phase = "orphan" THEN @ ELSE IF ok THEN "ok" ELSE "failed",
               !.phase = IF req.phase = "orphan" THEN "done" ELSE "ran"]

Call ==
  /\ req.phase \in {"running", "orphan"}
  /\ \/ Applies /\ (Target = "raft" => leader) /\ Called(TRUE, TRUE)
     \/ Applies /\ Target # "local" /\ Called(TRUE, FALSE)
     \/ Called(FALSE, FALSE)
  /\ UNCHANGED <<mode, leader, served>>

\* The handler resumes after the call: audit.record, then the reply.
Finish ==
  /\ req.phase = "ran"
  /\ req' = [req EXCEPT !.phase = "done",
                        !.record = IF ~Has(req.op, "audited") THEN ""
                                   ELSE IF req.reply = "ok" THEN "ok" ELSE "error"]
  /\ UNCHANGED <<mode, leader, engine, shards, served>>

\* The client's connection closes and the handler's future is dropped where it
\* waits.  A call under way goes on by itself.
Disconnect ==
  /\ req.phase \in {"embedding", "running", "ran"}
  /\ req' = [req EXCEPT !.phase = IF @ = "running" THEN "orphan" ELSE "done", !.reply = "gone"]
  /\ UNCHANGED <<mode, leader, engine, shards, served>>

\* The exchange is over; the next request finds nothing of it.
Close ==
  /\ req.phase = "done"
  /\ req' = NoRequest
  /\ UNCHANGED <<mode, leader, engine, shards, served>>

\* The Raft group elects or deposes this node.
ChangeLeader ==
  /\ mode = "raft"
  /\ leader' = ~leader
  /\ UNCHANGED <<mode, engine, shards, req, served>>

Next == Arrive \/ Handle \/ Embed \/ Call \/ Finish \/ Disconnect \/ Close \/ ChangeLeader

Spec == Init /\ [][Next]_vars

----------------------------------------------------------------------------
\* What a key changes and what it is shown stay within its role and its scope:
\* "a key can only ever reach the collections in its scope" (auth.rs), also for
\* a listing, and for a text operation that becomes another one on the way.
Confined ==
  /\ req.effect # "" =>
       /\ KeyRole[req.key] >= handlers[req.op].role
       /\ Has(req.op, "global") \/ req.coll \in KeyScope[req.key]
  /\ req.seen \subseteq IF req.key = "" THEN {} ELSE KeyScope[req.key]

\* No client request changes what a replication follower holds: its state is
\* owned by the leader's stream (ensure_writable, in every writing handler).
FollowerKeeps == mode = "follower" => engine' = engine
FollowerUntouched == [][FollowerKeeps]_vars

\* Once a request whose client stayed is over, its effect or its denial is in the
\* audit log, whichever target it had and however the call ended.  The shard map
\* is the exception the code makes.
Accounted ==
  (req.phase = "done" /\ req.reply # "gone" /\ req.op # "cluster_map"
     /\ (req.effect # "" \/ req.reply = "forbidden"))
    => req.record # ""
=============================================================================

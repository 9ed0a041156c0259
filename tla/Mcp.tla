-------------------------------- MODULE Mcp --------------------------------
(***************************************************************************)
(* The MCP server (quiver-mcp/src/lib.rs).  JSON-RPC messages are read line *)
(* by line; each one is dispatched against the embedded database and its   *)
(* reply is written before the next one is read.  A tool that fails is a   *)
(* normal reply with isError set; a message the protocol rejects is a      *)
(* JSON-RPC error.  The database's own operations are those of the other   *)
(* modules; here a collection is its descriptor and its items.             *)
(***************************************************************************)
EXTENDS Integers, Sequences, FiniteSets, SequencesExt

CONSTANTS
  Names,       \* collection names
  Ids,         \* point and document ids
  Embedded,    \* the collections with an [embedding.<collection>] table
  Reranked,    \* those of them that have a reranker too
  Scores,      \* the scores a reranker gives
  Sizes,       \* the values of k and limit that agents ask for
  RERANK_CANDIDATES, MCP_MAX_K,
  MaxMessages  \* messages on the input stream

VARIABLES
  colls,     \* name -> [multi, opaque, items : the ids held]
  asked,     \* the ids of the messages read, Null for one without an id
  replies,   \* the replies written: their id and kind
  heard      \* the last search_text: its candidates, their scores and the answer

vars == <<colls, asked, replies, heard>>

Null == 0
Smaller(a, b) == IF a < b THEN a ELSE b
Larger(a, b)  == IF a < b THEN b ELSE a
Silence == [candidates |-> <<>>, scores |-> <<>>, k |-> 0, answer |-> <<>>]

TypeOK ==
  /\ DOMAIN colls \subseteq Names
  /\ \A c \in DOMAIN colls :
       /\ colls[c].multi \in BOOLEAN /\ colls[c].opaque \in BOOLEAN
       /\ colls[c].items \subseteq Ids
  /\ \A n \in DOMAIN asked : asked[n] \in 0..MaxMessages
  /\ \A n \in DOMAIN replies : replies[n].id \in 0..MaxMessages
  /\ heard.k \in Nat

Init ==
  /\ colls = <<>>
  /\ asked = <<>> /\ replies = <<>>
  /\ heard = Silence

----------------------------------------------------------------------------
\* The replies.
success(id)           == [id |-> id, kind |-> "result"]
tool_result(id, bad)  == [id |-> id, kind |-> IF bad THEN "isError" ELSE "result"]
error_response(id, e) == [id |-> id, kind |-> e]

\* One line of the input: it carries an id, or it is a notification.
Read(id) ==
  /\ Len(asked) < MaxMessages
  /\ id \in {Null, Len(asked) + 1}
  /\ asked' = Append(asked, id)
Write(reply) == replies' = Append(replies, reply)

\* serve_with_embed: a blank line is skipped, one that is not JSON is answered
\* under the null id.
BlankLine == Read(Null) /\ UNCHANGED <<colls, replies, heard>>
ParseError ==
  /\ Read(Null)
  /\ Write(error_response(Null, "parse error"))
  /\ UNCHANGED <<colls, heard>>

\* Mutant: an unknown method is dropped.
handle_message_dropping(id) ==
  /\ Read(id)
  /\ Write(success(id)) \/ UNCHANGED replies
  /\ UNCHANGED <<colls, heard>>

\* handle_message_with_embed, but for tools/call: the four methods it knows
\* are answered, whatever the message's id; the rest only when it has one.
handle_message(id) ==
  /\ Read(id)
  /\ \/ Write(success(id))
     \/ id = Null /\ UNCHANGED replies
     \/ id # Null /\ \E e \in {"method not found", "invalid request"} : Write(error_response(id, e))
  /\ UNCHANGED <<colls, heard>>

----------------------------------------------------------------------------
\* handle_tool_call: the tool's outcome becomes one reply.
Calls(id, bad) == Read(id) /\ Write(tool_result(id, bad))
Failed(id) == Calls(id, TRUE) /\ UNCHANGED <<colls, heard>>
Only(id) == Calls(id, FALSE) /\ UNCHANGED <<colls, heard>>

NoToolName(id) ==
  /\ Read(id) /\ Write(error_response(id, "no tool name"))
  /\ UNCHANGED <<colls, heard>>
\* An unknown tool, or an argument that want_str, want_vector, want_k ... refuse.
BadArguments(id) == Failed(id)

want_k(k) == Smaller(k, MCP_MAX_K)

\* validate_index (quiver-embed): the shapes the engine can serve.
validate_index(d) ==
  /\ d.multi => d.metric # "l2" /\ ~d.opaque
  /\ ~d.opaque => /\ d.dcpe => d.metric = "l2"
                  /\ d.kind = "colbert" => d.multi
                  /\ d.kind \in {"vamana", "ivf", "disk_vamana"} => d.metric # "dot"
Descriptors == [multi : BOOLEAN, opaque : BOOLEAN, dcpe : BOOLEAN, metric : {"l2", "dot"},
                kind : {"hnsw", "vamana", "colbert"}]

Single(c) == c \in DOMAIN colls /\ ~colls[c].multi
Multi(c)  == c \in DOMAIN colls /\ colls[c].multi
Put(c, i)  == colls' = [colls EXCEPT ![c].items = @ \cup {i}]
Drop(c, i) == colls' = [colls EXCEPT ![c].items = @ \ {i}]

create_collection(id, c, d) ==
  IF c \in DOMAIN colls \/ ~validate_index(d) THEN Failed(id)
  ELSE /\ Calls(id, FALSE)
       /\ colls' = [n \in DOMAIN colls \cup {c} |->
                    IF n = c THEN [multi |-> d.multi, opaque |-> d.opaque, items |-> {}] ELSE colls[n]]
       /\ UNCHANGED heard
delete_collection(id, c) ==
  /\ Calls(id, FALSE) /\ colls' = [n \in DOMAIN colls \ {c} |-> colls[n]]
  /\ UNCHANGED heard
upsert(id, c, i) ==
  IF ~Single(c) THEN Failed(id)
  ELSE Calls(id, FALSE) /\ Put(c, i) /\ UNCHANGED heard
delete(id, c, i) ==
  IF ~Single(c) THEN Failed(id)
  ELSE Calls(id, FALSE) /\ Drop(c, i) /\ UNCHANGED heard
upsert_document(id, c, i) ==
  IF ~Multi(c) THEN Failed(id)
  ELSE Calls(id, FALSE) /\ Put(c, i) /\ UNCHANGED heard
delete_document(id, c, i) ==
  IF ~Multi(c) THEN Failed(id)
  ELSE Calls(id, FALSE) /\ Drop(c, i) /\ UNCHANGED heard

\* The reads: what they refuse.
search(id, c) == IF Single(c) /\ ~colls[c].opaque THEN Only(id) ELSE Failed(id)
hybrid_search(id, c) == search(id, c)
search_multi_vector(id, c) == IF Multi(c) THEN Only(id) ELSE Failed(id)
fetch(id, c) == IF Single(c) THEN Only(id) ELSE Failed(id)
get(id, c) == IF Single(c) THEN Only(id) ELSE Failed(id)
list_collections(id) == Only(id)
snapshot(id) == Only(id) \/ Failed(id)   \* the copy itself: module Backup

\* collection_summary refuses an unknown collection; database_stats asks for
\* the ones there are.
collection_summary(c) == c \in DOMAIN colls
collection_info(id, c) == IF collection_summary(c) THEN Only(id) ELSE Failed(id)
database_stats(id) == IF \A c \in DOMAIN colls : collection_summary(c) THEN Only(id) ELSE Failed(id)

\* upsert_text: the provider's vector is stored, the text beside it.
upsert_text(id, c, i) == IF c \in Embedded THEN upsert(id, c, i) ELSE Failed(id)

\* search_text: a wide candidate set when a reranker reorders it; each score
\* goes with the candidate of its position (zip drops the rest), a stable sort
\* puts the best first, and k are kept.
fetch_k(c, k, rerank) == IF rerank /\ c \in Reranked THEN Larger(k, RERANK_CANDIDATES) ELSE k
SortedByScore(cand, scores) ==
  LET n == Smaller(Len(cand), Len(scores))
      Before(a, b) == scores[a] > scores[b] \/ (scores[a] = scores[b] /\ a < b)
      Rank(a) == Cardinality({b \in 1..n : Before(b, a)}) + 1
  IN [r \in 1..n |-> cand[CHOOSE a \in 1..n : Rank(a) = r]]
search_text(id, c, k, rerank, order, scores) ==
  IF c \notin Embedded \/ ~Single(c) THEN Failed(id)
  ELSE IF colls[c].opaque THEN Failed(id)
  ELSE LET cand == SubSeq(order, 1, Smaller(Len(order), fetch_k(c, k, rerank)))
           hits == IF rerank /\ c \in Reranked THEN SortedByScore(cand, scores) ELSE cand
       IN /\ Calls(id, FALSE)
          /\ heard' = [candidates |-> cand, scores |-> IF rerank /\ c \in Reranked THEN scores ELSE <<>>,
                       k |-> k, answer |-> SubSeq(hits, 1, Smaller(Len(hits), k))]
          /\ UNCHANGED colls

\* The engine's fused ranking of a collection's points (HybridSearch): some order.
Orders(c) == IF Single(c) THEN SetToSeqs(colls[c].items) ELSE {<<>>}

CallCollection(id, c) ==
  \/ \E d \in Descriptors : create_collection(id, c, d)
  \/ delete_collection(id, c)
  \/ search(id, c) \/ hybrid_search(id, c) \/ search_multi_vector(id, c)
  \/ fetch(id, c) \/ get(id, c) \/ collection_info(id, c)
  \/ \E k \in Sizes, rerank \in BOOLEAN, order \in Orders(c) :
       \E m \in 0..Len(order) : \E scores \in [1..m -> Scores] :
         search_text(id, c, want_k(k), rerank, order, scores)

CallPoint(id, c, i) ==
  \/ upsert(id, c, i) \/ upsert_text(id, c, i)
  \/ delete(id, c, i) \/ upsert_document(id, c, i) \/ delete_document(id, c, i)

Message(id) ==
  \/ handle_message(id)
  \/ NoToolName(id) \/ BadArguments(id)
  \/ list_collections(id) \/ database_stats(id) \/ snapshot(id)
  \/ \E c \in Names : CallCollection(id, c)
  \/ \E c \in Names, i \in Ids : CallPoint(id, c, i)

Next == BlankLine \/ ParseError \/ \E id \in 0..MaxMessages : Message(id)
Spec == Init /\ [][Next]_vars

----------------------------------------------------------------------------
WithId(s) == SelectSeq(s, LAMBDA n : n # Null)

\* Every request gets one reply, under its own id, and the replies come in the
\* order of the requests: serve_with_embed answers a line before it reads the
\* next, and no arm of handle_message_with_embed drops a message with an id.
OneReplyEach == WithId([n \in DOMAIN replies |-> replies[n].id]) = WithId(asked)

\* A tool that reports an error has left every collection as it was: in each
\* arm of call_tool_embed the arguments and the collection are checked before
\* the engine is changed.  (The store's own failures are QuiverStore's.)
ErrorKeepsState ==
  (Len(replies') > Len(replies) /\ Last(replies').kind # "result") => colls' = colls
ErrorsChangeNothing == [][ErrorKeepsState]_vars

\* search_text with a reranker that scored every candidate answers the best of
\* the whole candidate set, not of the first k: no candidate left out has a
\* higher score than one returned.
RerankedBest ==
  Len(heard.scores) >= Len(heard.candidates) =>
    LET score(x) == heard.scores[CHOOSE n \in DOMAIN heard.candidates : heard.candidates[n] = x]
        all == Range(heard.candidates)
        got == Range(heard.answer)
    IN /\ Len(heard.answer) = Smaller(heard.k, Len(heard.candidates))
       /\ \A x \in got, y \in all \ got : score(x) >= score(y)
=============================================================================

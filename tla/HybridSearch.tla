--------------------------- MODULE HybridSearch ---------------------------
(***************************************************************************)
(* The sparse side of hybrid search: the inverted index of quiver-query    *)
(* (interned slots, a free list, running corpus statistics), its upkeep by *)
(* quiver-embed on writes, rebuilds and reopens, the store-scan fallback,  *)
(* and reciprocal rank fusion.                                             *)
(*                                                                         *)
(* A payload carries a sparse vector (parallel indices and values, not     *)
(* always well formed), a text (a sequence of tokens, some of them stop    *)
(* words) or neither.  Dimensions, tokens and ids are small numbers.       *)
(***************************************************************************)
EXTENDS Integers, Sequences, FiniteSets, SequencesExt, FiniteSetsExt

CONSTANTS Ids,          \* external ids, in their order
          Payloads,     \* payloads a writer may store
          StopWords,    \* tokens the tokenizer drops
          Queries,      \* sparse queries, as dimension -> weight functions
          Texts,        \* query texts, as sequences of tokens
          Durable,      \* TRUE when reopening restores an index snapshot
          MaxWrites     \* bound: upserts and deletes

VARIABLES rows,     \* live rows: id -> payload
          inv,      \* the handle's inverted index; inv.there says it exists
          stale,    \* the handle waits for a rebuild
          restored, \* opened from an index snapshot and not rebuilt since
          writes

vars == <<rows, inv, stale, restored, writes>>

NoDims == <<>>

-----------------------------------------------------------------------------
(* Sparse vectors. *)

Plain == [t |-> "plain"]
Sparse(is, vs) == [t |-> "sparse", indices |-> is, values |-> vs]
Text(toks) == [t |-> "text", tokens |-> toks]

validate(p) == Len(p.indices) = Len(p.values) /\ IsInjective(p.indices)

\* Parallel sequences as dimension -> weight; the last weight of a dimension wins.
Weights(is, vs) ==
    LET n == IF Len(is) < Len(vs) THEN Len(is) ELSE Len(vs)
    IN  [d \in {is[j] : j \in 1..n} |-> vs[Max({j \in 1..n : is[j] = d})]]

tokens(toks) == SelectSeq(toks, LAMBDA w : w \notin StopWords)

\* Term frequencies of a text.
text_to_sparse(toks) ==
    LET kept == tokens(toks)
    IN  [w \in ToSet(kept) |-> Cardinality({j \in DOMAIN kept : kept[j] = w})]

query_term_ids(toks) == ToSet(tokens(toks))

\* What a payload contributes to the index: none, or one weight function.
sparse_vector_from_value(p) ==
    CASE p.t = "sparse" -> IF validate(p) THEN {Weights(p.indices, p.values)} ELSE {}
      [] p.t = "text" -> {text_to_sparse(p.tokens)}
      [] OTHER -> {}

Total(w) == FoldLeft(LAMBDA acc, d : acc + w[d], 0, SetToSeq(DOMAIN w))

dot(q, w) ==
    FoldLeft(LAMBDA acc, d : acc + q[d] * w[d], 0, SetToSeq(DOMAIN q \cap DOMAIN w))

-----------------------------------------------------------------------------
(* The inverted index: a slot is a position of ext_of. *)

Freed == 0

NewInverted ==
    [there |-> TRUE, postings |-> NoDims, dims_of |-> <<>>, ext_of |-> <<>>,
     doclen |-> <<>>, free |-> <<>>, total_len |-> 0, len |-> 0]

NoInverted == [NewInverted EXCEPT !.there = FALSE]

SlotOf(x, i) == {s \in DOMAIN x.ext_of : x.ext_of[s] = i}

\* Drop the slot's postings, and the dimensions left without one.
clear_postings(x, s) ==
    LET left(d) == [o \in DOMAIN x.postings[d] \ {s} |-> x.postings[d][o]]
        kept == {d \in DOMAIN x.postings : d \notin x.dims_of[s] \/ DOMAIN x.postings[d] # {s}}
    IN  [x EXCEPT !.postings = [d \in kept |->
                                  IF d \in x.dims_of[s] THEN left(d) ELSE x.postings[d]],
                  !.dims_of[s] = {}]

\* A slot for a new id: the last freed one, or a new one at the end.
allocate(x, i) ==
    IF x.free # <<>>
    THEN [x EXCEPT !.ext_of[Last(x.free)] = i, !.free = Front(@), !.len = @ + 1]
    ELSE [x EXCEPT !.ext_of = Append(@, i), !.dims_of = Append(@, {}),
                   !.doclen = Append(@, 0), !.len = @ + 1]

upsert(x, i, w) ==
    LET y == IF SlotOf(x, i) # {} THEN clear_postings(x, CHOOSE s \in SlotOf(x, i) : TRUE)
             ELSE allocate(x, i)
        s == CHOOSE s \in SlotOf(y, i) : TRUE
    IN  [y EXCEPT !.postings = [d \in DOMAIN y.postings \cup DOMAIN w |->
                        LET old == IF d \in DOMAIN y.postings THEN y.postings[d] ELSE <<>>
                        IN  IF d \in DOMAIN w
                            THEN [o \in DOMAIN old \cup {s} |-> IF o = s THEN w[d] ELSE old[o]]
                            ELSE old],
                  !.dims_of[s] = DOMAIN w,
                  !.doclen[s] = Total(w),
                  !.total_len = @ - y.doclen[s] + Total(w)]


remove(x, i) ==
    IF SlotOf(x, i) = {} THEN x
    ELSE LET s == CHOOSE s \in SlotOf(x, i) : TRUE
             y == clear_postings(x, s)
         IN  [y EXCEPT !.total_len = @ - y.doclen[s], !.doclen[s] = 0,
                       !.ext_of[s] = Freed, !.free = Append(@, s), !.len = @ - 1]

\* Ids by score, best first, ties by id; only positive scores are returned.
Ranked(S, score(_)) ==
    SetToSortSeq({i \in S : score(i) > 0},
                 LAMBDA i, j : score(i) > score(j) \/ (score(i) = score(j) /\ i < j))

\* Only the postings of the query's dimensions are touched.
search(x, q) ==
    LET dims == DOMAIN q \cap DOMAIN x.postings
        slots == UNION {DOMAIN x.postings[d] : d \in dims}
        score(i) == LET s == CHOOSE s \in SlotOf(x, i) : TRUE
                        hit == {d \in dims : s \in DOMAIN x.postings[d]}
                    IN  FoldLeft(LAMBDA acc, d : acc + q[d] * x.postings[d][s], 0, SetToSeq(hit))
    IN  Ranked({x.ext_of[s] : s \in slots}, score)

\* BM25 scores a document positively exactly when it holds a query term: the
\* smoothed idf and the term frequencies are positive.  Its ranking is left out.
bm25_search(x, terms) ==
    IF x.len = 0 THEN {}
    ELSE {x.ext_of[s] : s \in UNION {DOMAIN x.postings[t] : t \in terms \cap DOMAIN x.postings}}

-----------------------------------------------------------------------------
(* quiver-embed: upkeep and reads. *)

sparse_index_upsert_point(x, st, i, p) ==
    IF st \/ ~x.there THEN x
    ELSE LET w == sparse_vector_from_value(p)
         IN  IF w = {} THEN remove(x, i) ELSE upsert(x, i, CHOOSE v \in w : TRUE)

sparse_index_delete_point(x, i) == IF x.there THEN remove(x, i) ELSE x

\* A rebuild indexes every live row afresh, in id order.
scan_sparse(live) ==
    FoldLeft(LAMBDA x, i : LET w == sparse_vector_from_value(live[i])
                           IN  IF w = {} THEN x ELSE upsert(x, i, CHOOSE v \in w : TRUE),
             NewInverted, SetToSortSeq(DOMAIN live, <))

\* Without an index every row is loaded: only an explicit vector is scored, as
\* stored, each repetition of a dimension adding to the score.
sparse_ranked_ids_by_scan(q) ==
    LET score(i) ==
            LET p == rows[i]
                n == IF Len(p.indices) < Len(p.values) THEN Len(p.indices) ELSE Len(p.values)
            IN  FoldLeft(LAMBDA acc, j : acc + IF p.indices[j] \in DOMAIN q
                                               THEN q[p.indices[j]] * p.values[j] ELSE 0,
                         0, [j \in 1..n |-> j])
    IN  Ranked({i \in DOMAIN rows : rows[i].t = "sparse"}, score)

sparse_ranked_ids(q) == IF inv.there THEN search(inv, q) ELSE sparse_ranked_ids_by_scan(q)

bm25_ranked_ids(toks) == IF inv.there THEN bm25_search(inv, query_term_ids(toks)) ELSE {}

-----------------------------------------------------------------------------
Init ==
    /\ rows = <<>>
    /\ inv = NewInverted
    /\ stale = FALSE
    /\ restored = FALSE
    /\ writes = 0

\* An update in place of the vector index may leave the handle stale.
Upsert(i, p) ==
    /\ writes < MaxWrites
    /\ writes' = writes + 1
    /\ rows' = [j \in DOMAIN rows \cup {i} |-> IF j = i THEN p ELSE rows[j]]
    /\ \E st \in {stale, TRUE} :
        /\ stale' = st
        /\ inv' = sparse_index_upsert_point(inv, st, i, p)
    /\ UNCHANGED restored

Delete(i) ==
    /\ writes < MaxWrites
    /\ writes' = writes + 1
    /\ i \in DOMAIN rows
    /\ rows' = [j \in DOMAIN rows \ {i} |-> rows[j]]
    /\ stale' \in {stale, TRUE}
    /\ inv' = sparse_index_delete_point(inv, i)
    /\ UNCHANGED restored

\* ensure_indexed, or the server's off-lock rebuild with no write in between.
Rebuild ==
    /\ stale
    /\ inv' = scan_sparse(rows)
    /\ stale' = FALSE
    /\ restored' = FALSE
    /\ UNCHANGED <<rows, writes>>

\* Reopening rebuilds, unless an index snapshot restores the vector index: the
\* inverted index is then left out, and the handle is not stale.
Reopen ==
    /\ writes > 0
    /\ ~restored
    /\ stale' = FALSE
    /\ \/ Durable /\ inv' = NoInverted /\ restored' = TRUE
       \/ inv' = scan_sparse(rows) /\ restored' = FALSE
    /\ UNCHANGED <<rows, writes>>

Next ==
    \/ \E i \in Ids, p \in Payloads : Upsert(i, p)
    \/ \E i \in Ids : Delete(i)
    \/ Rebuild
    \/ Reopen

Spec == Init /\ [][Next]_vars

-----------------------------------------------------------------------------
(* Properties. *)

Vector(i) == CHOOSE w \in sparse_vector_from_value(rows[i]) : TRUE
Carriers == {i \in DOMAIN rows : sparse_vector_from_value(rows[i]) # {}}

TypeOK ==
    /\ DOMAIN rows \subseteq Ids
    /\ Len(inv.dims_of) = Len(inv.ext_of) /\ Len(inv.doclen) = Len(inv.ext_of)
    /\ stale \in BOOLEAN /\ restored \in BOOLEAN /\ writes \in 0..MaxWrites

\* Slots are never leaked or shared: every slot is either on the free list, once,
\* or the slot of one id, and no posting names a freed slot.
SlotsAccounted ==
    /\ IsInjective(inv.free)
    /\ ToSet(inv.free) = {s \in DOMAIN inv.ext_of : inv.ext_of[s] = Freed}
    /\ \A i \in Ids : Cardinality(SlotOf(inv, i)) <= 1
    /\ \A d \in DOMAIN inv.postings :
        /\ DOMAIN inv.postings[d] # {}
        /\ \A s \in DOMAIN inv.postings[d] : inv.ext_of[s] # Freed /\ d \in inv.dims_of[s]

\* While no rebuild is pending the index answers every sparse query as scoring
\* every row would, whatever was updated, replaced or deleted before.
IndexExact ==
    (inv.there /\ ~stale) =>
        \A q \in Queries :
            search(inv, q) = Ranked(Carriers, LAMBDA i : dot(q, Vector(i)))

\* BM25's corpus statistics (document count, total length, document frequencies)
\* are those of the live rows: removals leave no residue.
StatisticsExact ==
    (inv.there /\ ~stale) =>
        /\ inv.len = Cardinality(Carriers)
        /\ inv.total_len = FoldLeft(LAMBDA acc, i : acc + Total(Vector(i)), 0, SetToSeq(Carriers))
        /\ \A d \in DOMAIN inv.postings :
            Cardinality(DOMAIN inv.postings[d]) = Cardinality({i \in Carriers : d \in DOMAIN Vector(i)})

\* Text search finds every live row that holds a query term, unless the
\* collection was reopened from an index snapshot.
TextFound ==
    (~stale /\ ~restored) =>
        \A t \in Texts :
            bm25_ranked_ids(t) =
                {i \in Carriers : DOMAIN Vector(i) \cap query_term_ids(t) # {}}

\* The fallback ranks the rows with a well-formed explicit vector as the index
\* would, when no other row carries terms.
FallbackAgrees ==
    (\A i \in DOMAIN rows : rows[i].t = "sparse" => validate(rows[i])) =>
        \A q \in Queries :
            sparse_ranked_ids_by_scan(q) =
                Ranked({i \in DOMAIN rows : rows[i].t = "sparse"}, LAMBDA i : dot(q, Vector(i)))
=============================================================================

--------------------------- MODULE LateInteraction ---------------------------
(* Search over multi-vector documents: the ColBERT token pool, which is     *)
(* built over the tokens of every document and then kept up to date one     *)
(* token at a time, and the search that takes candidate documents from it   *)
(* and ranks them by exact MaxSim.  A vector is a number and the metric is  *)
(* the dot product; what the product quantizer makes of a residual is       *)
(* Quantized.  An internal id is a token's position in the pool.            *)
EXTENDS Integers, Sequences, FiniteSets, FiniteSetsExt, SequencesExt, Functions

CONSTANTS
  Docs,         \* document ids, numbers: ties are broken by id
  Values,       \* vectors
  MaxTokens,    \* the most tokens of a document
  Quantized(_), \* a residual, encoded and reconstructed
  MULTIVECTOR_EXACT_DOC_THRESHOLD, MULTIVECTOR_CANDIDATE_FACTOR,
  RebuildInverse,  \* 1 / HNSW_REBUILD_DELETED_FRACTION
  Queries, Ks, Efs,  \* the searches asked in every state
  MaxWrites     \* bound on writes

VARIABLES
  docs,    \* the store: each document's tokens, << >> when it is not there
  built,   \* is there an index
  cents,   \* its centroids
  pool,    \* its tokens, in insertion order: [doc, ord, cent, recon]
  deleted, \* positions of the pool that are tombstoned
  idmap,   \* position by token id <<doc, ord>>
  stale, writes

vars == <<docs, built, cents, pool, deleted, idmap, stale, writes>>

Init ==
  /\ docs = [d \in Docs |-> << >>]
  /\ built = FALSE /\ cents = << >> /\ pool = << >> /\ deleted = {}
  /\ idmap = [x \in {} |-> 0]
  /\ stale = FALSE /\ writes = 0

\* A set in the order of a strict total order.
Sorted(S, Before(_, _)) ==
  [k \in 1..Cardinality(S) |-> CHOOSE x \in S : Cardinality({y \in S : Before(y, x)}) = k - 1]

-----------------------------------------------------------------------------
(* ColbertIndex.                                                            *)

Distance(a, b) == (a - b) * (a - b)
nearest_centroid(cs, v) ==
  CHOOSE c \in DOMAIN cs :
    \A e \in DOMAIN cs : \/ Distance(v, cs[c]) < Distance(v, cs[e])
                         \/ Distance(v, cs[c]) = Distance(v, cs[e]) /\ c <= e

\* A token of the pool: its list, and the vector it is scored by.
Token(cs, t, v) ==
  LET c == nearest_centroid(cs, v)
  IN  [doc |-> t[1], ord |-> t[2], cent |-> c, recon |-> cs[c] + Quantized(v - cs[c])]

len == Len(pool) - Cardinality(deleted)
Crowded(dead, n) == Cardinality(dead) * RebuildInverse >= n

\* search: the tokens of the probed lists that are not tombstoned, best first.
ordering_distance(q, v) == -(q * v)
Probed(q, ef) ==
  LET Before(a, b) == \/ ordering_distance(q, cents[a]) < ordering_distance(q, cents[b])
                      \/ /\ ordering_distance(q, cents[a]) = ordering_distance(q, cents[b])
                         /\ a < b
      order == Sorted(DOMAIN cents, Before)
      n_probe == (Len(cents) + 3) \div 4
      probe == Min({IF ef = 0 THEN n_probe ELSE ef, Len(cents)})
  IN  {order[k] : k \in 1..probe}
search(q, k, ef) ==
  LET hits == {p \in DOMAIN pool : pool[p].cent \in Probed(q, ef) /\ p \notin deleted}
      Before(a, b) == \/ ordering_distance(q, pool[a].recon) < ordering_distance(q, pool[b].recon)
                      \/ /\ ordering_distance(q, pool[a].recon) = ordering_distance(q, pool[b].recon)
                         /\ a < b
      ranked == Sorted(hits, Before)
  IN  IF k = 0 \/ len = 0 THEN << >> ELSE SubSeq(ranked, 1, Min({k, Len(ranked)}))

-----------------------------------------------------------------------------
(* The handle.                                                              *)

\* index_upsert_point, index_delete_point on a built index that is not stale: the
\* old copy of the token is tombstoned, and a new one appended.
Idx == [pool |-> pool, deleted |-> deleted, idmap |-> idmap, stale |-> stale]
\* Mutant: the replaced copy of a token stays live.
index_upsert_beside(x, t, v) ==
  LET new == Append(x.pool, Token(cents, t, v))
  IN  IF x.stale THEN x
      ELSE [x EXCEPT !.pool = new,
                     !.idmap = [u \in DOMAIN x.idmap \cup {t} |-> IF u = t THEN Len(new) ELSE x.idmap[u]]]

index_upsert_point(x, t, v) ==
  LET old == IF t \in DOMAIN x.idmap THEN {x.idmap[t]} ELSE {}
      new == Append(x.pool, Token(cents, t, v))
  IN  IF x.stale THEN x
      ELSE [pool |-> new, deleted |-> x.deleted \cup old,
            idmap |-> [u \in DOMAIN x.idmap \cup {t} |->
                         IF u = t THEN Len(new) ELSE x.idmap[u]],
            stale |-> Crowded(x.deleted \cup old, Len(new))]
index_delete_point(x, t) ==
  IF x.stale THEN x
  ELSE IF t \notin DOMAIN x.idmap THEN [x EXCEPT !.stale = TRUE]
  ELSE [x EXCEPT !.deleted = @ \cup {x.idmap[t]},
                 !.stale = Crowded(x.deleted \cup {x.idmap[t]}, Len(x.pool))]

\* With no index yet a write only marks the handle.
Applied(x) ==
  IF built THEN /\ pool' = x.pool /\ deleted' = x.deleted /\ idmap' = x.idmap
                /\ stale' = x.stale
  ELSE stale' = TRUE /\ UNCHANGED <<pool, deleted, idmap>>

Drops(d, from) == [j \in 1..(Len(docs[d]) - from) |-> <<d, from + j>>]
upsert_document(d, ts) ==
  LET cut == IF Len(docs[d]) > Len(ts) THEN Drops(d, Len(ts)) ELSE << >>
      x == FoldLeft(index_delete_point, Idx, cut)
      Put(y, j) == index_upsert_point(y, <<d, j>>, ts[j])
  IN
  /\ writes < MaxWrites /\ writes' = writes + 1
  /\ docs' = [docs EXCEPT ![d] = ts]
  /\ Applied(IF built THEN FoldLeft(Put, x, [j \in 1..Len(ts) |-> j]) ELSE Idx)
  /\ UNCHANGED <<built, cents>>
delete_document(d) ==
  /\ writes < MaxWrites /\ writes' = writes + 1 /\ docs[d] # << >>
  /\ docs' = [docs EXCEPT ![d] = << >>]
  /\ Applied(FoldLeft(index_delete_point, Idx, Drops(d, 0)))
  /\ UNCHANGED <<built, cents>>

\* ensure_indexed: ColbertIndex::build over a scan, about sqrt(n) centroids wherever
\* k-means puts them.
Tokens == {t \in Docs \X (1..MaxTokens) : t[2] <= Len(docs[t[1]])}
Sqrt(n) == Max({1, CHOOSE r \in 0..n : r * r >= n /\ \A s \in 0..n : s * s >= n => r <= s})
Scan == Sorted(Tokens, LAMBDA a, b : a[1] < b[1] \/ (a[1] = b[1] /\ a[2] < b[2]))
build ==
  /\ stale
  /\ \E cs \in [1..Sqrt(Len(Scan)) -> Values] :
       /\ cents' = cs
       /\ pool' = [k \in DOMAIN Scan |-> Token(cs, Scan[k], docs[Scan[k][1]][Scan[k][2]])]
       /\ idmap' = [t \in Tokens |-> CHOOSE k \in DOMAIN Scan : Scan[k] = t]
  /\ deleted' = {} /\ built' = TRUE /\ stale' = FALSE
  /\ UNCHANGED <<docs, writes>>

Versions == UNION {[1..n -> Values] : n \in 1..MaxTokens}
Next ==
  \/ \E d \in Docs : delete_document(d) \/ \E ts \in Versions : upsert_document(d, ts)
  \/ build
Spec == Init /\ [][Next]_vars

-----------------------------------------------------------------------------
(* search_multi_vector_snapshot.                                            *)

Present == {d \in Docs : docs[d] # << >>}
max_sim(qs, ts) ==
  FoldLeft(LAMBDA total, q :
             total + Max({-ordering_distance(q, ts[j]) : j \in DOMAIN ts}), 0, qs)

per_token_k(k, ef) == Max({k * MULTIVECTOR_CANDIDATE_FACTOR, ef})
Candidates(qs, k, ef) ==
  IF Cardinality(Present) <= MULTIVECTOR_EXACT_DOC_THRESHOLD THEN Present
  ELSE UNION {{pool[p].doc : p \in ToSet(search(qs[j], per_token_k(k, ef), ef))} : j \in DOMAIN qs}

\* The candidates that still have tokens, best first, ties by id.
Ranked(S, qs, k) ==
  LET Before(a, b) == \/ max_sim(qs, docs[a]) > max_sim(qs, docs[b])
                      \/ max_sim(qs, docs[a]) = max_sim(qs, docs[b]) /\ a < b
      ranked == Sorted(S \cap Present, Before)
  IN  SubSeq(ranked, 1, Min({k, Len(ranked)}))
search_multi_vector_snapshot(qs, k, ef) == Ranked(Candidates(qs, k, ef), qs, k)

-----------------------------------------------------------------------------
TypeOK ==
  /\ \A d \in Docs : docs[d] = << >> \/ docs[d] \in Versions
  /\ deleted \subseteq DOMAIN pool /\ Range(idmap) \subseteq DOMAIN pool
  /\ built \in BOOLEAN /\ stale \in BOOLEAN

\* The pool of an index that is not stale holds each token of each document once
\* among its live entries, scored by the token's present value, whatever sequence of
\* longer and shorter versions and deletes led to it (index_upsert_point,
\* index_delete_point); its length is then the number of tokens and never negative.
Live == DOMAIN pool \ deleted
PoolExact ==
  built /\ ~stale =>
    /\ len = Cardinality(Tokens)
    /\ \A t \in Tokens :
         /\ {p \in Live : <<pool[p].doc, pool[p].ord>> = t} = {idmap[t]}
         /\ pool[idmap[t]] = Token(cents, t, docs[t[1]][t[2]])

\* Every document found is a document of the store, and they are in the order of
\* their exact scores: a stale index costs recall, never a wrong or a deleted answer.
NeverWrong ==
  \A qs \in Queries, k \in Ks, ef \in Efs :
    LET r == search_multi_vector_snapshot(qs, k, ef) IN
    /\ ToSet(r) \subseteq Present /\ Len(r) = Cardinality(ToSet(r))
    /\ \A i, j \in DOMAIN r : i < j => max_sim(qs, docs[r[i]]) >= max_sim(qs, docs[r[j]])

\* "At or below the exact-scan threshold every document is scored exactly"
\* (search_multi_vector), and above it the answer is exact as well once the probes
\* cover the centroids and the breadth the pool.
ExactWhenCovered ==
  \A qs \in Queries, k \in Ks, ef \in Efs :
    \/ Cardinality(Present) <= MULTIVECTOR_EXACT_DOC_THRESHOLD
    \/ built /\ ~stale /\ ef >= Len(cents) /\ per_token_k(k, ef) >= len
    => search_multi_vector_snapshot(qs, k, ef) = Ranked(Present, qs, k)
=============================================================================

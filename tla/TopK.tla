------------------------------- MODULE TopK -------------------------------
(***************************************************************************)
(* The merges that put one ranked answer together from several: the        *)
(* scatter-gather of a router (merge_top_k) and its choice of read target  *)
(* (read_order), a graph index with a delta and tombstones (widened,       *)
(* merge), a serving snapshot with an overlay (search), and reciprocal     *)
(* rank fusion.                                                            *)
(*                                                                         *)
(* A point is its distance from the query, 1 the nearest.  Every point of  *)
(* the instance is placed somewhere: in the read-only base or in the newer *)
(* delta, live or dead; the searched parts answer exactly.                 *)
(***************************************************************************)
EXTENDS Integers, Sequences, FiniteSets, SequencesExt, FiniteSetsExt

CONSTANTS Points,     \* 1..N
          MaxK,       \* largest k and beam width
          MaxBias,    \* rank-bias constants -1..MaxBias
          Scale       \* a common multiple of every fusion denominator

Places == [part : {"base", "delta"}, live : BOOLEAN]

VARIABLES at,     \* point -> place
          k,      \* results asked for
          l,      \* beam width asked for
          done    \* the input is complete

vars == <<at, k, l, done>>

Least(S, n) ==
    LET s == SetToSortSeq(S, <) IN SubSeq(s, 1, IF n < Len(s) THEN n ELSE Len(s))

CeilDiv(a, b) == (a + b - 1) \div b

Part(name) == {p \in DOMAIN at : at[p].part = name}
Dead == {p \in DOMAIN at : ~at[p].live}
Living == DOMAIN at \ Dead

-----------------------------------------------------------------------------
(* The graph indexes (fresh.rs). *)

\* Ask for more by the live fraction, at most for everything.
widened(fetch, total, deleted) ==
    IF deleted = 0 \/ total = 0 THEN fetch
    ELSE Min({CeilDiv(fetch * total, Max({total - deleted, 1})), total})

merge(base_hits, delta_hits, deleted, n) ==
    Least((ToSet(base_hits) \cup ToSet(delta_hits)) \ deleted, n)

fresh_search ==
    LET total == Cardinality(Part("base")) + Cardinality(Part("delta"))
        want == widened(Max({l, k}), total, Cardinality(Dead))
    IN  merge(Least(Part("base"), want), Least(Part("delta"), want), Dead, k)

-----------------------------------------------------------------------------
(* The serving snapshot (snapshot.rs): the base is widened for its own       *)
(* tombstones, the overlay is scored in full.                                *)

snapshot_search ==
    LET base == Part("base")
        base_len == Cardinality(base)
        shadowed == Cardinality(base \cap Dead)
        widen(n) == Max({n, Min({CeilDiv(n * base_len, Max({base_len - shadowed, 1})), base_len})})
        k_base == IF shadowed = 0 THEN k ELSE widen(k)
    IN  Least((ToSet(Least(base, k_base)) \cup Part("delta")) \ Dead, k)

-----------------------------------------------------------------------------
(* The cluster router: the parts are two shards, each answers its own top k. *)

merge_top_k(per_shard, n) == Least(UNION {ToSet(s) : s \in ToSet(per_shard)}, n)


scatter_gather ==
    merge_top_k(<<Least(Part("base") \cap Living, k), Least(Part("delta") \cap Living, k)>>, k)

-----------------------------------------------------------------------------
(* Reciprocal rank fusion of ranked lists, scaled to integers. *)

rrf_fuse(rankings, bias, n) ==
    LET k0 == Max({bias, 0})
        Add(acc, ranking, p) ==
            acc + FoldLeft(LAMBDA a, r : a + IF ranking[r] = p THEN Scale \div (k0 + r) ELSE 0,
                           0, [r \in DOMAIN ranking |-> r])
        scores == [p \in UNION {ToSet(rankings[i]) : i \in DOMAIN rankings} |->
                      FoldLeft(LAMBDA acc, ranking : Add(acc, ranking, p), 0, rankings)]
        ordered == SetToSortSeq(DOMAIN scores,
                      LAMBDA a, b : scores[a] > scores[b] \/ (scores[a] = scores[b] /\ a < b))
    IN  SubSeq(ordered, 1, IF n < Len(ordered) THEN n ELSE Len(ordered))

-----------------------------------------------------------------------------
\* An input is built point by point, then k and l are chosen.
Init ==
    /\ at = <<>>
    /\ k = 0 /\ l = 0
    /\ done = FALSE

Place ==
    /\ ~done
    /\ Cardinality(DOMAIN at) < Cardinality(Points)
    /\ \E p \in Places : at' = Append(at, p)
    /\ UNCHANGED <<k, l, done>>

Ask ==
    /\ ~done
    /\ done' = TRUE
    /\ k' \in 1..MaxK
    /\ l' \in 1..MaxK
    /\ UNCHANGED at

Next == Place \/ Ask

Spec == Init /\ [][Next]_vars

-----------------------------------------------------------------------------
(* Properties. *)

TypeOK ==
    /\ DOMAIN at \subseteq Points
    /\ k \in 0..MaxK /\ l \in 0..MaxK

\* However many tombstones there are, asking for at least as many points as are
\* live returns all of them: the widening reaches the whole graph.
AllWhenAsked ==
    (done /\ Cardinality(Living) <= k) =>
        /\ ToSet(fresh_search) = Living
        /\ ToSet(snapshot_search) = Living

\* With no tombstone both are the exact k nearest.
ExactWithoutTombstones ==
    (done /\ Dead = {}) => fresh_search = Least(Living, k) /\ snapshot_search = Least(Living, k)

\* Per-shard top-k lists hold every point of the global top k.
ScatterExact == done => scatter_gather = Least(Living, k)

\* A point ahead of another in every list it appears in, and in every list the
\* other appears in, is ahead of it in the fusion, for every bias the caller may
\* pass, negative ones included.
FusionMonotone ==
    done =>
        \A bias \in -1..MaxBias :
            LET a == Least(Part("base"), Cardinality(Points))
                b == Reverse(Least(Living, Cardinality(Points)))
                fused == rrf_fuse(<<a, b>>, bias, Cardinality(Points))
                Rank(s, p) == IF p \in ToSet(s) THEN CHOOSE r \in DOMAIN s : s[r] = p
                                ELSE Cardinality(Points) + 1
            IN  /\ IsInjective(fused)
                /\ ToSet(fused) = ToSet(a) \cup ToSet(b)
                /\ \A i, j \in DOMAIN fused :
                    (/\ Rank(a, fused[i]) <= Rank(a, fused[j])
                     /\ Rank(b, fused[i]) <= Rank(b, fused[j])
                     /\ i # j) => i < j
=============================================================================

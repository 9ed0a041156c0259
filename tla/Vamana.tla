------------------------------- MODULE Vamana -------------------------------
(***************************************************************************)
(* The Vamana graph: built in two passes over a random graph, or grown one *)
(* point at a time; greedy search from the medoid; robust pruning; and the *)
(* disk layout, searched by approximate distances and re-ranked exactly.   *)
(* Vectors are positions on a line, nodes are numbered from 1.             *)
(***************************************************************************)
EXTENDS Integers, Sequences, FiniteSets, SequencesExt, FiniteSetsExt

CONSTANTS Positions,
          r, l_build,
          AlphaNum, AlphaDen,   \* the slack alpha >= 1, as a fraction
          Grain,                \* codes keep a position to a multiple of it
          nodes_per_page,
          MaxBuild, MaxNodes    \* bounds: points of a batch build, and in all

VARIABLES graph,
          batch,     \* the graph came from a batch build
          pruned     \* history: an insertion cut an over-full list

vars == <<graph, batch, pruned>>

nav_dist(a, b) == (a - b) * (a - b)
Nodes(g) == DOMAIN g.vectors

\* Sort nodes by a distance, then by number.
RankedBy(S, d) ==
  LET closer(a) == {b \in S : d[b] < d[a] \/ (d[b] = d[a] /\ b < a)}
  IN  [n \in 1..Cardinality(S) |-> CHOOSE a \in S : Cardinality(closer(a)) = n - 1]
Exactly(g, q) == [n \in Nodes(g) |-> nav_dist(q, g.vectors[n])]
First(s, k) == SubSeq(s, 1, Min({k, Len(s)}))

\* Greedy beam search under distances d from a start node: each turn expands the
\* closest unvisited node of the working set, then keeps the l closest.
GreedyStep(adjacency, d, l, st) ==
    LET open == {n \in st.working : n \notin ToSet(st.visited)}
        p == RankedBy(open, d)[1]
        grown == st.working \cup ToSet(adjacency[p])
    IN  IF open = {} THEN st
        ELSE [working |-> ToSet(First(RankedBy(grown, d), l)), visited |-> Append(st.visited, p)]

greedy_search(adjacency, d, start, l) ==
    LET end == FoldLeft(LAMBDA st, n : GreedyStep(adjacency, d, l, st),
                        [working |-> {start}, visited |-> <<>>], adjacency)
    IN  [closest |-> RankedBy(end.working, d), visited |-> ToSet(end.visited)]

\* At most r diverse neighbours of p: take the closest, then drop every candidate
\* it is alpha times closer to than p is.
robust_prune(g, p, candidates, num, den) ==
    LET d == Exactly(g, g.vectors[p])
        step(st, i) ==
            LET star == RankedBy(st.cand, d)[1]
                kept == Append(st.result, star)
            IN  IF st.cand = {} \/ Len(st.result) >= r THEN st
                ELSE [result |-> kept,
                      cand |-> {c \in st.cand : num * nav_dist(g.vectors[star], g.vectors[c]) > den * d[c]}]
    IN  FoldLeft(step, [result |-> <<>>, cand |-> candidates \ {p}], g.vectors).result

\* The new out-neighbours of p, and the back-edges, cutting lists over r.
Relink(g, p, num, den) ==
    LET visited == greedy_search(g.adjacency, Exactly(g, g.vectors[p]), g.medoid, l_build).visited
        chosen == robust_prune(g, p, visited, num, den)
        back(acc, j) ==
            LET linked == [acc EXCEPT !.adjacency[j] = Append(@, p)]
            IN  IF p \in ToSet(acc.adjacency[j]) THEN acc
                ELSE IF Len(linked.adjacency[j]) > r
                THEN [linked EXCEPT !.adjacency[j] = robust_prune(linked, j, ToSet(@), num, den)]
                ELSE linked
    IN  FoldLeft(back, [g EXCEPT !.adjacency[p] = chosen], chosen)

insert(g, v) ==
    LET added == [g EXCEPT !.vectors = Append(@, v), !.adjacency = Append(@, <<>>)]
    IN  IF Nodes(g) = {} THEN [added EXCEPT !.medoid = 1]
        ELSE Relink(added, Len(added.vectors), AlphaNum, AlphaDen)

\* The node nearest the mean: distances are compared n times larger.
compute_medoid(vectors) ==
    LET n == Len(vectors)
        sum == FoldLeft(LAMBDA acc, v : acc + v, 0, vectors)
    IN  RankedBy(DOMAIN vectors, [i \in DOMAIN vectors |-> nav_dist(sum, n * vectors[i])])[1]

RandomGraphs(n) ==
    {g \in [1..n -> UNION {[1..s -> 1..n] : s \in {Min({r, n - 1})}}] :
        \A i \in 1..n : IsInjective(g[i]) /\ i \notin ToSet(g[i])}

\* Two passes over every node in a random order: without slack, then with it.
build(vectors, random, order) ==
    LET start == [vectors |-> vectors, adjacency |-> random, medoid |-> compute_medoid(vectors)]
        settled == FoldLeft(LAMBDA g, p : Relink(g, p, 1, 1), start, order)
    IN  IF Len(vectors) <= 1 THEN [start EXCEPT !.adjacency = [i \in DOMAIN vectors |-> <<>>], !.medoid = 1]
        ELSE FoldLeft(LAMBDA g, p : Relink(g, p, AlphaNum, AlphaDen), settled, order)

search(g, q, k, l_search) ==
    IF Nodes(g) = {} \/ k = 0 THEN <<>>
    ELSE First(greedy_search(g.adjacency, Exactly(g, q), g.medoid, Max({l_search, k})).closest, k)

-----------------------------------------------------------------------------
(* The disk index: fixed-stride node blocks packed into pages. *)

disk_write(g) ==
    LET n == Len(g.vectors)
        block(i) == [vector |-> g.vectors[i], neighbors |-> First(g.adjacency[i], r)]
        pages == (n + nodes_per_page - 1) \div nodes_per_page
    IN  [pages |-> [p \in 1..pages |->
                       [s \in 1..Min({nodes_per_page, n - (p - 1) * nodes_per_page}) |->
                           block((p - 1) * nodes_per_page + s)]],
         codes |-> [i \in 1..n |-> (g.vectors[i] \div Grain) * Grain],
         medoid |-> g.medoid]

read_node(f, node) ==
    f.pages[((node - 1) \div nodes_per_page) + 1][((node - 1) % nodes_per_page) + 1]

\* Navigate by the codes in memory, then re-rank the expanded nodes exactly.
disk_search(f, q, k, l_search) ==
    LET approx == [n \in DOMAIN f.codes |-> nav_dist(q, f.codes[n])]
        adjacency == [n \in DOMAIN f.codes |-> read_node(f, n).neighbors]
        expanded == greedy_search(adjacency, approx, f.medoid, Max({l_search, k})).visited
    IN  IF f.codes = <<>> \/ k = 0 THEN <<>>
        ELSE First(RankedBy(expanded, [n \in DOMAIN f.codes |-> nav_dist(q, read_node(f, n).vector)]), k)

-----------------------------------------------------------------------------
Init ==
    /\ graph = [vectors |-> <<>>, adjacency |-> <<>>, medoid |-> 1]
    /\ batch = FALSE
    /\ pruned = FALSE

\* Some list lost a node that was in it, or never got the new one.
Cut(before, after) ==
    LET new == Len(after.vectors)
    IN  \/ \E n \in Nodes(before) : ~ToSet(before.adjacency[n]) \subseteq ToSet(after.adjacency[n])
        \/ \E n \in ToSet(after.adjacency[new]) : new \notin ToSet(after.adjacency[n])

Insert ==
    /\ ~batch /\ Len(graph.vectors) < MaxNodes
    /\ \E v \in Positions :
        LET after == insert(graph, v)
        IN  /\ graph' = after
            /\ pruned' = (pruned \/ Cut(graph, after))
    /\ UNCHANGED batch

\* A consolidation: the base graph is built from the live rows.
Build ==
    /\ Nodes(graph) = {}
    /\ \E n \in 1..MaxBuild :
        \E vectors \in [1..n -> Positions], random \in RandomGraphs(n) :
            \E order \in SetToSeqs(1..n) : graph' = build(vectors, random, order)
    /\ batch' = TRUE
    /\ UNCHANGED pruned

Next == Insert \/ Build

Spec == Init /\ [][Next]_vars

-----------------------------------------------------------------------------
(* Properties. *)

TypeOK ==
    /\ Len(graph.adjacency) = Len(graph.vectors)
    /\ graph.medoid \in 1..Max({1, Len(graph.vectors)})

\* Out-degrees keep the bound the disk layout reserves room for, and no list
\* names a node twice, the node itself, or a node that is not there.
DegreeBounded ==
    \A n \in Nodes(graph) :
        /\ Len(graph.adjacency[n]) <= r /\ IsInjective(graph.adjacency[n])
        /\ ToSet(graph.adjacency[n]) \subseteq Nodes(graph) \ {n}

\* A graph grown by insertion is exact under a search as wide as it, until an
\* over-full list is cut: each new node is reachable from the medoid.
ExactWhenWide ==
    ~batch /\ ~pruned =>
        \A q \in Positions, k \in {1, MaxNodes} :
            search(graph, q, k, MaxNodes) = First(RankedBy(Nodes(graph), Exactly(graph, q)), k)

\* The disk index returns what the graph in memory does when both look at every
\* node they can reach, although it navigates by the codes; and it keeps each
\* node's vector and neighbours wherever the page boundaries fall.
DiskAgrees ==
    LET f == disk_write(graph)
    IN  /\ \A n \in Nodes(graph) : read_node(f, n) = [vector |-> graph.vectors[n], neighbors |-> graph.adjacency[n]]
        /\ \A q \in Positions, k \in {1, MaxNodes} :
            disk_search(f, q, k, MaxNodes) = search(graph, q, k, MaxNodes)

=============================================================================

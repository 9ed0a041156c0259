-------------------------------- MODULE Hnsw --------------------------------
(***************************************************************************)
(* The HNSW graph: layered adjacency lists built by insertion, soft        *)
(* deletion, best-first search of a layer.  Vectors are positions on a     *)
(* line, a node's level (drawn at random by the code) any of a few, and    *)
(* nodes are numbered from 1 in insertion order.                           *)
(***************************************************************************)
EXTENDS Integers, Sequences, FiniteSets, SequencesExt, FiniteSetsExt

CONSTANTS Positions, MaxLevel, m, ef_construction,
          MaxNodes    \* bound: nodes inserted

VARIABLES hnsw,
          pruned      \* history: an over-full neighbour list was cut

vars == <<hnsw, pruned>>

Abs(x) == IF x < 0 THEN -x ELSE x
Dist(h, q, n) == Abs(q - h.vectors[n])

\* The order of candidates: distance, then node.
Closer(h, q, a, b) == Dist(h, q, a) < Dist(h, q, b) \/ (Dist(h, q, a) = Dist(h, q, b) /\ a < b)
Nearest(h, q, S) == CHOOSE a \in S : \A b \in S \ {a} : Closer(h, q, a, b)
Farthest(h, q, S) == CHOOSE a \in S : \A b \in S \ {a} : Closer(h, q, b, a)
Ranked(h, q, S) == SortSeq(SetToSeq(S), LAMBDA a, b : Closer(h, q, a, b))
Nodes(h) == DOMAIN h.vectors

max_conns(layer) == IF layer = 0 THEN 2 * m ELSE m

neighbors(h, node, layer) == IF layer \in DOMAIN h.conns[node] THEN h.conns[node][layer] ELSE <<>>

\* Best-first search of one layer from the entry points: up to ef nodes, closest
\* first.  Each turn expands the closest node of the frontier.
Keep(h, q, ef, S) == IF Cardinality(S) > ef THEN S \ {Farthest(h, q, S)} ELSE S

Visit(h, q, ef, st, nb) ==
    IF nb \in st.visited THEN st
    ELSE LET take == \/ Cardinality(st.results) < ef
                     \/ Dist(h, q, nb) < Dist(h, q, Farthest(h, q, st.results))
         IN  [st EXCEPT !.visited = @ \cup {nb},
                        !.frontier = IF take THEN @ \cup {nb} ELSE @,
                        !.results = IF take THEN Keep(h, q, ef, @ \cup {nb}) ELSE @]

Expand(h, q, ef, layer, st) ==
    IF st.frontier = {} THEN st
    ELSE LET current == Nearest(h, q, st.frontier)
         IN  IF /\ Cardinality(st.results) >= ef
                /\ Dist(h, q, current) > Dist(h, q, Farthest(h, q, st.results))
             THEN [st EXCEPT !.frontier = {}]
             ELSE FoldLeft(LAMBDA acc, nb : Visit(h, q, ef, acc, nb),
                           [st EXCEPT !.frontier = @ \ {current}], neighbors(h, current, layer))

search_layer(h, q, entry_points, ef, layer) ==
    LET first == Ranked(h, q, entry_points)
        start == [visited |-> entry_points, frontier |-> entry_points,
                  results |-> ToSet(SubSeq(first, 1, Min({ef, Len(first)})))]
        end == FoldLeft(LAMBDA st, n : Expand(h, q, ef, layer, st), start, h.vectors)
    IN  Ranked(h, q, end.results)

\* A candidate is kept when it is closer to the target than to every kept one.
select_neighbors(h, target, candidates, most) ==
    FoldLeft(LAMBDA kept, c :
                IF /\ Len(kept) < most
                   /\ \A i \in DOMAIN kept : Dist(h, h.vectors[c], kept[i]) > Dist(h, target, c)
                THEN Append(kept, c) ELSE kept,
             <<>>, Ranked(h, target, candidates))

Crowded(h, node, layer) == Len(h.conns[node][layer]) > max_conns(layer)

\* Link the new node both ways, cutting the lists that become over-full.
connect(h, node, selected, layer) ==
    FoldLeft(LAMBDA acc, e :
                LET linked == [acc EXCEPT !.conns[e][layer] = Append(@, node)]
                IN  IF Crowded(linked, e, layer)
                    THEN [linked EXCEPT !.conns[e][layer] =
                            select_neighbors(linked, linked.vectors[e], ToSet(@), max_conns(layer))]
                    ELSE linked,
             [h EXCEPT !.conns[node][layer] = selected], selected)

\* Greedy descent from layer top down to, and not including, layer bottom.
Descend(h, q, entry, top, bottom) ==
    FoldLeft(LAMBDA ep, i : LET w == search_layer(h, q, {ep}, 1, top + 1 - i)
                            IN  IF w = <<>> THEN ep ELSE Head(w),
             entry, [i \in 1..(top - bottom) |-> i])

NewNode(h, v, level) ==
    [h EXCEPT !.vectors = Append(@, v), !.levels = Append(@, level),
              !.conns = Append(@, [layer \in 0..level |-> <<>>])]

insert(h, v, level) ==
    LET node == Len(h.vectors) + 1
        added == NewNode(h, v, level)
        top == Min({level, h.max_level})
        ep == Descend(added, v, h.entry_point, h.max_level, top)
        step(acc, i) ==
            LET w == search_layer(acc.graph, v, acc.ep_set, ef_construction, top + 1 - i)
                chosen == select_neighbors(acc.graph, v, ToSet(w), m)
            IN  [graph |-> connect(acc.graph, node, chosen, top + 1 - i), ep_set |-> ToSet(w)]
        wired == FoldLeft(step, [graph |-> added, ep_set |-> {ep}], [i \in 1..(top + 1) |-> i]).graph
    IN  IF h.entry_point = 0 THEN [added EXCEPT !.entry_point = node, !.max_level = level]
        ELSE IF level > h.max_level THEN [wired EXCEPT !.entry_point = node, !.max_level = level]
        ELSE wired

\* Soft deletion keeps the node as a waypoint.
mark_deleted(h, node) == [h EXCEPT !.deleted = @ \cup {node}]

search(h, q, k, ef_search) ==
    LET ef == Max({ef_search, k})
        live == Max({Cardinality(Nodes(h)) - Cardinality(h.deleted), 1})
        ef_eff == IF h.deleted = {} THEN ef
                  ELSE Min({(ef * Cardinality(Nodes(h))) \div live, Cardinality(Nodes(h))})
        ep == Descend(h, q, h.entry_point, h.max_level, 0)
        w == SelectSeq(search_layer(h, q, {ep}, ef_eff, 0), LAMBDA n : n \notin h.deleted)
    IN  IF h.entry_point = 0 \/ k = 0 THEN <<>> ELSE SubSeq(w, 1, Min({k, Len(w)}))

-----------------------------------------------------------------------------
Init ==
    /\ hnsw = [vectors |-> <<>>, levels |-> <<>>, conns |-> <<>>, entry_point |-> 0,
               max_level |-> 0, deleted |-> {}]
    /\ pruned = FALSE

\* Some list lost a node that was in it, or never got the new one.
Cut(before, after) ==
    LET new == Len(after.vectors)
    IN  \/ \E n \in Nodes(before) : \E l \in DOMAIN before.conns[n] :
            ~ToSet(before.conns[n][l]) \subseteq ToSet(after.conns[n][l])
        \/ \E l \in DOMAIN after.conns[new] : \E n \in ToSet(after.conns[new][l]) :
            new \notin ToSet(after.conns[n][l])

Insert ==
    /\ Len(hnsw.vectors) < MaxNodes
    /\ \E v \in Positions, level \in 0..MaxLevel :
        LET after == insert(hnsw, v, level)
        IN  /\ hnsw' = after
            /\ pruned' = (pruned \/ Cut(hnsw, after))

Delete ==
    /\ \E n \in Nodes(hnsw) \ hnsw.deleted : hnsw' = mark_deleted(hnsw, n)
    /\ UNCHANGED pruned

Next == Insert \/ Delete

Spec == Init /\ [][Next]_vars

-----------------------------------------------------------------------------
(* Properties. *)

TypeOK ==
    /\ hnsw.entry_point \in Nodes(hnsw) \cup {0}
    /\ hnsw.deleted \subseteq Nodes(hnsw)

\* Every link of a layer leads to another node that has that layer (or the next
\* insertion would index past its lists), lists keep their bound and have no
\* duplicates, and the entry point is on the highest layer.
LinksSound ==
    /\ \A n \in Nodes(hnsw) : \A l \in DOMAIN hnsw.conns[n] :
        LET list == hnsw.conns[n][l]
        IN  /\ Len(list) <= max_conns(l) /\ IsInjective(list)
            /\ \A e \in ToSet(list) : e # n /\ l \in DOMAIN hnsw.conns[e]
    /\ hnsw.entry_point = 0 <=> Nodes(hnsw) = {}
    /\ hnsw.entry_point # 0 =>
        /\ hnsw.levels[hnsw.entry_point] = hnsw.max_level
        /\ \A n \in Nodes(hnsw) : hnsw.levels[n] <= hnsw.max_level

\* The k nearest live nodes, by definition.
KNearest(q, k) ==
    LET live == Ranked(hnsw, q, Nodes(hnsw) \ hnsw.deleted) IN SubSeq(live, 1, Min({k, Len(live)}))

\* Until a list is cut, a search as wide as the graph is exact: deletion never
\* disconnects a node, and no node is out of reach of the descent.
ExactWhenWide ==
    ~pruned => \A q \in Positions, k \in {1, MaxNodes} : search(hnsw, q, k, MaxNodes) = KNearest(q, k)

=============================================================================

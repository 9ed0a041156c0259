-------------------------------- MODULE Ivf --------------------------------
(***************************************************************************)
(* The inverted-file index: cells with a centroid and a posting list,      *)
(* kept in place by insert and remove, which split an over-full cell and   *)
(* merge an under-full one; its search; its snapshot, whose derived maps   *)
(* are rebuilt and checked when it is restored.                            *)
(*                                                                         *)
(* Vectors are positions on a line.  k-means is any choice of centroids    *)
(* within the span of its data.  Node, cell and slot numbers start at 1.   *)
(***************************************************************************)
EXTENDS Integers, Sequences, FiniteSets, SequencesExt, FiniteSetsExt

CONSTANTS Ids,
          Positions,      \* coordinates, natural numbers below Far
          Huge,           \* coordinates whose distances overflow to infinity
          Grain,          \* 1 keeps full vectors; g > 1 quantises them to multiples of g
          nlist, max_postings, min_postings,
          REASSIGN_NEIGHBORS,
          MaxSplits       \* bound: splits in a run

Far == 1000               \* infinity, and the centroid of a tombstoned cell
VARIABLES ivf,      \* the index
          rows,     \* history: the rows it must hold
          splits,
          stray     \* history: a vector was sent to a tombstoned cell

vars == <<ivf, rows, splits, stray>>

l2(a, b) ==
    IF a \in Huge \/ b \in Huge \/ a = Far \/ b = Far THEN Far ELSE IF a < b THEN b - a ELSE a - b

\* What a node slot keeps of a vector, and what rebalancing reads back.
encode(v) == IF v \in Huge THEN v ELSE (v \div Grain) * Grain

\* The centroids k-means may return for a set of positions.
kmeans(data, k) ==
    LET hull == IF data \cap Huge # {} THEN data ELSE Min(data)..Max(data)
    IN  [1..k -> IF data = {} THEN {0} ELSE hull]

is_tombstoned(x, c) == x.centroids[c] = Far
live_cells(x) == Len(x.postings) - Len(x.free_cells)

\* The first of the candidate cells at the least finite distance; the first of
\* them all when every distance is infinite.
nearest_among(x, v, candidates) ==
    LET d(i) == l2(v, x.centroids[candidates[i]])
        finite == {i \in DOMAIN candidates : d(i) < Far}
        best == CHOOSE i \in finite : \A j \in finite : d(i) < d(j) \/ (d(i) = d(j) /\ i <= j)
    IN  IF finite = {} THEN candidates[1] ELSE candidates[best]

nearest_centroid(x, v) == nearest_among(x, v, [c \in DOMAIN x.centroids |-> c])

neighbor_cells(x, cell, k) ==
    LET live == {c \in DOMAIN x.postings : c # cell /\ ~is_tombstoned(x, c)}
        ranked == SortSeq(SetToSeq(live),
                          LAMBDA a, b : l2(x.centroids[cell], x.centroids[a]) < l2(x.centroids[cell], x.centroids[b]))
    IN  SubSeq(ranked, 1, IF k < Len(ranked) THEN k ELSE Len(ranked))

-----------------------------------------------------------------------------
(* Cells. *)

tombstone_cell(x, c) ==
    [x EXCEPT !.centroids[c] = Far, !.postings[c] = <<>>, !.free_cells = Append(@, c)]

\* A cell for a centroid: the last recycled one, or a new one.
TakenCell(x) == IF x.free_cells # <<>> THEN Last(x.free_cells) ELSE Len(x.postings) + 1

take_cell(x, centroid) ==
    IF x.free_cells # <<>>
    THEN [x EXCEPT !.centroids[Last(x.free_cells)] = centroid, !.postings[Last(x.free_cells)] = <<>>,
                   !.free_cells = Front(@)]
    ELSE [x EXCEPT !.centroids = Append(@, centroid), !.postings = Append(@, <<>>)]

Assign(x, node, cell) == [x EXCEPT !.postings[cell] = Append(@, node), !.node_cell[node] = cell]

\* The members of a cell move to the nearest of the candidates.
reassign(x, members, candidates) ==
    FoldLeft(LAMBDA acc, node : Assign(acc, node, nearest_among(acc, acc.vectors[node], candidates)),
             x, members)

\* Local 2-means; the first centroid stays in the cell, the second takes another.
split(x, cell, two) ==
    LET members == x.postings[cell]
        neighbors == neighbor_cells(x, cell, REASSIGN_NEIGHBORS)
        emptied == [x EXCEPT !.postings[cell] = <<>>, !.centroids[cell] = two[1]]
        new == TakenCell(emptied)
        moved == reassign(take_cell(emptied, two[2]), members, <<cell, new>> \o neighbors)
    IN  IF Len(members) < 2 THEN x
        ELSE IF moved.postings[new] = <<>> THEN tombstone_cell(moved, new) ELSE moved

\* Mutant: the members of a merged cell are dropped.
merge_dropping(x, cell) == tombstone_cell(x, cell)

merge(x, cell) ==
    LET neighbors == neighbor_cells(x, cell, REASSIGN_NEIGHBORS)
        dead == tombstone_cell(x, cell)
        all == [c \in DOMAIN x.centroids |-> c]
    IN  reassign(dead, x.postings[cell], IF neighbors = <<>> THEN all ELSE neighbors)

-----------------------------------------------------------------------------
(* Points. *)

alloc_node(x, id, v) ==
    IF x.free # <<>>
    THEN [x EXCEPT !.ids[Last(x.free)] = id, !.vectors[Last(x.free)] = encode(v), !.free = Front(@)]
    ELSE [x EXCEPT !.ids = Append(@, id), !.vectors = Append(@, encode(v)), !.node_cell = Append(@, 1)]

AllocatedNode(x) == IF x.free # <<>> THEN Last(x.free) ELSE Len(x.ids) + 1

remove(x, id) ==
    IF id \notin DOMAIN x.id_to_node THEN x
    ELSE LET node == x.id_to_node[id]
             cell == x.node_cell[node]
             gone == [x EXCEPT !.id_to_node = [i \in DOMAIN @ \ {id} |-> @[i]],
                               !.postings[cell] = SelectSeq(@, LAMBDA n : n # node),
                               !.free = Append(@, node)]
         IN  IF live_cells(gone) > 1 /\ Len(gone.postings[cell]) < min_postings
             THEN merge(gone, cell) ELSE gone

\* The point joins its nearest cell; the caller splits the cell when it overflows.
Joined(x, id, v) ==
    LET cleared == remove(x, id)
        cell == nearest_centroid(cleared, v)
        node == AllocatedNode(cleared)
        slotted == alloc_node(cleared, id, v)
        known == [slotted EXCEPT !.id_to_node = [i \in DOMAIN @ \cup {id} |-> IF i = id THEN node ELSE @[i]]]
    IN  Assign(known, node, cell)

Overfull(x, id) == Len(x.postings[x.node_cell[x.id_to_node[id]]]) > max_postings

-----------------------------------------------------------------------------
(* Building, searching, snapshots. *)

build(xs, centroids) ==
    LET n == Len(xs)
        cells == [c \in DOMAIN centroids |-> <<>>]
        empty == [centroids |-> centroids, postings |-> cells, ids |-> [i \in 1..n |-> xs[i].id],
                  vectors |-> [i \in 1..n |-> encode(xs[i].v)], node_cell |-> [i \in 1..n |-> 1],
                  id_to_node |-> [i \in {xs[j].id : j \in 1..n} |-> CHOOSE j \in 1..n : xs[j].id = i],
                  free |-> <<>>, free_cells |-> <<>>]
    IN  FoldLeft(LAMBDA acc, i : Assign(acc, i, nearest_centroid(acc, xs[i].v)),
                 empty, [i \in 1..n |-> i])

\* Probe the nearest live cells and rank their members.
search(x, q, k, nprobe) ==
    LET cells == SortSeq(SetToSeq({c \in DOMAIN x.centroids : ~is_tombstoned(x, c)}),
                         LAMBDA a, b : \/ l2(q, x.centroids[a]) < l2(q, x.centroids[b])
                                       \/ l2(q, x.centroids[a]) = l2(q, x.centroids[b]) /\ a < b)
        probes == IF nprobe < 1 THEN 1 ELSE IF nprobe > Len(x.postings) THEN Len(x.postings) ELSE nprobe
        nodes == FlattenSeq([i \in 1..(IF probes < Len(cells) THEN probes ELSE Len(cells)) |-> x.postings[cells[i]]])
        scored == SortSeq(nodes, LAMBDA a, b : \/ l2(q, x.vectors[a]) < l2(q, x.vectors[b])
                                               \/ l2(q, x.vectors[a]) = l2(q, x.vectors[b]) /\ a < b)
    IN  IF DOMAIN x.id_to_node = {} \/ k = 0 THEN <<>>
        ELSE [i \in 1..(IF k < Len(scored) THEN k ELSE Len(scored)) |-> x.ids[scored[i]]]

\* A snapshot leaves the derived maps out; restoring rebuilds them, or refuses.
rebuild_derived(x) ==
    LET slots == DOMAIN x.ids
        freed == ToSet(x.free)
        listed == {<<c, i>> \in (DOMAIN x.postings) \X slots : i \in DOMAIN x.postings[c]}
        node(p) == x.postings[p[1]][p[2]]
        cell(n) == CHOOSE c \in DOMAIN x.postings : n \in ToSet(x.postings[c])
    IN  IF /\ IsInjective(x.free_cells) /\ ToSet(x.free_cells) \subseteq DOMAIN x.postings
           /\ \A c \in ToSet(x.free_cells) : x.postings[c] = <<>>
           /\ IsInjective(x.free) /\ freed \subseteq slots
           /\ \A c \in DOMAIN x.postings : Len(x.postings[c]) <= Cardinality(slots)
           /\ \A p \in listed : node(p) \in slots \ freed
           /\ \A p, q \in listed : node(p) = node(q) => p = q
           /\ Cardinality(listed) = Cardinality(slots \ freed)
           /\ \A m, n \in slots \ freed : x.ids[m] = x.ids[n] => m = n
        THEN {[x EXCEPT !.node_cell = [n \in slots |-> IF n \in freed THEN 1 ELSE cell(n)],
                        !.id_to_node = [i \in {x.ids[n] : n \in slots \ freed} |->
                                            CHOOSE n \in slots \ freed : x.ids[n] = i]]}
        ELSE {}

-----------------------------------------------------------------------------
AllPositions == Positions \cup Huge

\* The index is built over the rows of the collection, in id order.
Init ==
    /\ \E held \in SUBSET Ids : rows \in [held -> AllPositions]
    /\ LET order == SetToSortSeq(DOMAIN rows, LAMBDA a, b : a < b)
           xs == [i \in DOMAIN order |-> [id |-> order[i], v |-> rows[order[i]]]]
           cells == Max({1, Min({nlist, Len(xs)})})
       IN  \E cs \in kmeans({rows[i] : i \in DOMAIN rows}, cells) : ivf = build(xs, cs)
    /\ splits = 0
    /\ stray = FALSE

insert(id, v) ==
    LET joined == Joined(ivf, id, v)
        cell == joined.node_cell[joined.id_to_node[id]]
    IN  /\ splits < MaxSplits
        /\ IF Overfull(joined, id)
           THEN /\ \E two \in kmeans({joined.vectors[n] : n \in ToSet(joined.postings[cell])}, 2) :
                    ivf' = split(joined, cell, two)
                /\ splits' = splits + 1
           ELSE ivf' = joined /\ UNCHANGED splits
        /\ rows' = [i \in DOMAIN rows \cup {id} |-> IF i = id THEN v ELSE rows[i]]
        /\ stray' = (stray \/ is_tombstoned(joined, cell))

delete(id) ==
    /\ id \in DOMAIN rows
    /\ ivf' = remove(ivf, id)
    /\ rows' = [i \in DOMAIN rows \ {id} |-> rows[i]]
    /\ UNCHANGED <<splits, stray>>

\* The database closes and reopens from the index snapshot.
restore ==
    /\ ivf' \in rebuild_derived(ivf)
    /\ UNCHANGED <<rows, splits, stray>>

Next ==
    \/ \E id \in Ids, v \in AllPositions : insert(id, v)
    \/ \E id \in Ids : delete(id)
    \/ restore

Spec == Init /\ [][Next]_vars

-----------------------------------------------------------------------------
(* Properties. *)

TypeOK ==
    /\ Len(ivf.centroids) = Len(ivf.postings)
    /\ Len(ivf.ids) = Len(ivf.vectors) /\ Len(ivf.ids) = Len(ivf.node_cell)
    /\ splits \in 0..MaxSplits

\* Splits and merges keep the two-way bookkeeping: a cell is recyclable exactly
\* when it has the sentinel centroid, one cell is always live, and the node of a
\* live id is in the posting list its cell map names, and in no other.
WellFormed ==
    /\ \A c \in DOMAIN ivf.centroids : is_tombstoned(ivf, c) <=> c \in ToSet(ivf.free_cells)
    /\ live_cells(ivf) >= 1
    /\ DOMAIN ivf.id_to_node = DOMAIN rows
    /\ \A id \in DOMAIN rows : LET n == ivf.id_to_node[id]
                               IN  /\ ivf.ids[n] = id
                                   /\ ivf.vectors[n] = encode(rows[id])
                                   /\ \A c \in DOMAIN ivf.postings :
                                        n \in ToSet(ivf.postings[c]) <=> c = ivf.node_cell[n]

\* Probing every cell finds every row, nearest first, whatever was split, merged
\* and recycled before; as long as no vector went to a tombstoned cell.
Complete(x) ==
    \A q \in Positions, k \in 1..Cardinality(Ids) :
        LET found == search(x, q, k, Len(x.postings))
        IN  /\ Len(found) = Min({k, Cardinality(DOMAIN rows)})
            /\ \A i \in DOMAIN found, id \in DOMAIN rows :
                \/ \E j \in 1..i : found[j] = id
                \/ l2(q, encode(rows[found[i]])) <= l2(q, encode(rows[id]))

FindsAll == ~stray => Complete(ivf)

\* A snapshot of a sound index is never refused, and restores to an index that
\* has the same maps for its live nodes.
Restores ==
    ~stray =>
        \E x \in rebuild_derived(ivf) :
            /\ x.id_to_node = ivf.id_to_node
            /\ \A id \in DOMAIN rows : x.node_cell[x.id_to_node[id]] = ivf.node_cell[ivf.id_to_node[id]]

=============================================================================

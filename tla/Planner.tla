------------------------------ MODULE Planner ------------------------------
(***************************************************************************)
(* Filtered search: the filter language of quiver-query, the secondary     *)
(* indexes of quiver-core (one per sealed segment, plus a scan of the      *)
(* active buffer), and the planner of quiver-embed that turns a filter     *)
(* into a candidate set and scans it exactly, or over-fetches from the     *)
(* vector index and filters what comes back.                               *)
(*                                                                         *)
(* A payload maps each field to a JSON value.  Numbers are integers or     *)
(* doubles; a double holds every integer up to Exact (2^53 in the code)    *)
(* and only the even ones beyond it.  A row's distance to the query is its *)
(* id, so the nearest rows are the ones with the least ids.                *)
(***************************************************************************)
EXTENDS Integers, Sequences, FiniteSets, SequencesExt

CONSTANTS Ids,                  \* row ids, numbers: also the distances
          Payloads,             \* the payloads a writer may store
          Filters,              \* the filters a reader may ask for
          filterable,           \* declared field -> "keyword" or "numeric"
          Exact,                \* integers a double holds without rounding
          FULL_SCAN_THRESHOLD,  \* largest candidate set scanned exactly
          FILTER_OVERFETCH,     \* factor asked of the index under a filter
          MaxK,                 \* largest k of a search
          MaxSegments,          \* bound: checkpoints that seal a segment
          MaxWrites             \* bound: upserts and deletes

VARIABLES sealed,   \* sealed segments: rows, their secondary index, the dead rows
          window,   \* rows of each segment that died since the last checkpoint
          active,   \* active buffer: id -> payload, a subset of Ids as domain
          index,    \* ids the vector index holds
          writes    \* number of writes so far

vars == <<sealed, window, active, index, writes>>

-----------------------------------------------------------------------------
(* JSON values and numbers. *)

Missing == [t |-> "missing"]
Null == [t |-> "null"]
Str(s) == [t |-> "str", v |-> s]
Whole(n) == [t |-> "int", v |-> n]
Double(n) == [t |-> "float", v |-> n]
NegativeZero == [t |-> "negzero", v |-> 0]

IsNumber(x) == x.t \in {"int", "float", "negzero"}

\* The double nearest to an integer, ties to the even mantissa.
as_f64(x) ==
    IF x.v <= Exact \/ x.v % 2 = 0 THEN x.v
    ELSE IF (x.v + 1) % 4 = 0 THEN x.v + 1 ELSE x.v - 1

\* Integers compare exactly; as soon as one side is a double, both do.
number_cmp(x, y) ==
    IF x.t = "int" /\ y.t = "int" THEN x.v - y.v ELSE as_f64(x) - as_f64(y)

values_eq(x, y) ==
    IF IsNumber(x) /\ IsNumber(y) THEN number_cmp(x, y) = 0 ELSE x = y

Comparable(x, y) == (IsNumber(x) /\ IsNumber(y)) \/ (x.t = "str" /\ y.t = "str")

order(x, y) == IF x.t = "str" THEN x.v - y.v ELSE number_cmp(x, y)

-----------------------------------------------------------------------------
(* Filters: a leaf [op, field, value(s)], or the conjunction, disjunction or *)
(* negation of leaves.                                                       *)

field_value(payload, field) == payload[field]

compares(payload, leaf) ==
    LET x == field_value(payload, leaf.field)
    IN  /\ Comparable(x, leaf.value)
        /\ CASE leaf.op = "Lt"  -> order(x, leaf.value) < 0
             [] leaf.op = "Lte" -> order(x, leaf.value) <= 0
             [] leaf.op = "Gt"  -> order(x, leaf.value) > 0
             [] leaf.op = "Gte" -> order(x, leaf.value) >= 0

LeafMatches(leaf, payload) ==
    LET x == field_value(payload, leaf.field)
    IN  CASE leaf.op = "Eq" -> x # Missing /\ values_eq(x, leaf.value)
          [] leaf.op = "Ne" -> ~(x # Missing /\ values_eq(x, leaf.value))
          [] leaf.op = "In" -> x # Missing /\ \E c \in leaf.values : values_eq(x, c)
          [] leaf.op = "Exists" -> x # Missing
          [] leaf.op \in {"Lt", "Lte", "Gt", "Gte"} -> compares(payload, leaf)

matches(filter, payload) ==
    CASE filter.op = "And" -> \A s \in filter.subs : LeafMatches(s, payload)
      [] filter.op = "Or"  -> \E s \in filter.subs : LeafMatches(s, payload)
      [] filter.op = "Not" -> ~LeafMatches(filter.sub, payload)
      [] OTHER -> LeafMatches(filter, payload)

-----------------------------------------------------------------------------
(* Secondary indexes. *)

\* Order-preserving key of a double: minus zero is made plus zero first.
encode_f64(x) == 2 * as_f64(x)

\* The key of a stored value, or none when the type is not the declared one.
encode_field_value(type, x) ==
    CASE type = "keyword" /\ x.t = "str" -> {x.v}
      [] type = "numeric" /\ IsNumber(x) -> {encode_f64(x)}
      [] OTHER -> {}

\* One segment's index: for each declared field, key -> rows that hold it.
SecBuild(rows) ==
    [f \in DOMAIN filterable |->
        LET keyOf(r) == encode_field_value(filterable[f], field_value(rows[r].payload, f))
        IN  [k \in UNION {keyOf(r) : r \in DOMAIN rows} |->
                {r \in DOMAIN rows : k \in keyOf(r)}]]

\* A predicate [field, keys] or [field, lo, hi, ...]; bounds hold zero or one key.
Within(k, p) ==
    /\ \A l \in p.lo : k > l \/ (p.lo_inclusive /\ k = l)
    /\ \A h \in p.hi : k < h \/ (p.hi_inclusive /\ k = h)

sec_query(sec, p) ==
    LET keys == sec[p.field]
    IN  UNION {keys[k] : k \in {k \in DOMAIN keys :
                IF p.op = "Range" THEN Within(k, p) ELSE k \in p.keys}}

\* The active buffer is not indexed: each payload is encoded and compared.
payload_matches(p, payload) ==
    \E k \in encode_field_value(filterable[p.field], field_value(payload, p.field)) :
        IF p.op = "Range" THEN Within(k, p) ELSE k \in p.keys

\* The live ids that satisfy a predicate.
matching_ids(p) ==
    UNION {{sealed[s].rows[r].id : r \in
               {r \in sec_query(sealed[s].sec, p) :
                   /\ r \notin sealed[s].dead \cup window[s]
                   /\ sealed[s].rows[r].id \notin DOMAIN active}} : s \in DOMAIN sealed}
    \cup {i \in DOMAIN active : payload_matches(p, active[i])}

-----------------------------------------------------------------------------
(* The store as the planner sees it. *)

Live(s) == DOMAIN sealed[s].rows \ (sealed[s].dead \cup window[s])

\* Point read: the active buffer first, then the newest segment with a live row.
Holders(i) == {s \in DOMAIN sealed : \E r \in Live(s) : sealed[s].rows[r].id = i}

present == DOMAIN active \cup {i \in Ids : Holders(i) # {}}

get(i) ==
    IF i \in DOMAIN active THEN active[i]
    ELSE LET s == CHOOSE s \in Holders(i) : \A o \in Holders(i) : o <= s
             r == CHOOSE r \in Live(s) : sealed[s].rows[r].id = i
         IN  sealed[s].rows[r].payload

\* A write kills the sealed rows it shadows.
Shadowed(i) ==
    [s \in DOMAIN window |->
        window[s] \cup {r \in DOMAIN sealed[s].rows : sealed[s].rows[r].id = i}]

-----------------------------------------------------------------------------
(* The planner. *)

\* A filter value as an index key, or none when its type does not fit the field.
sec_value(field, x) == encode_field_value(filterable[field], x)

one_sided_range(leaf, is_lower, inclusive) ==
    LET k == sec_value(leaf.field, leaf.value)
    IN  IF k = {} THEN {}
        ELSE {[op |-> "Range", field |-> leaf.field,
               lo |-> IF is_lower THEN k ELSE {}, hi |-> IF is_lower THEN {} ELSE k,
               lo_inclusive |-> is_lower /\ inclusive,
               hi_inclusive |-> ~is_lower /\ inclusive]}

\* The predicate that answers a leaf, or none.
leaf_predicate(leaf) ==
    IF leaf.field \notin DOMAIN filterable THEN {}
    ELSE CASE leaf.op = "Eq" ->
                LET k == sec_value(leaf.field, leaf.value)
                IN  IF k = {} THEN {} ELSE {[op |-> "Keys", field |-> leaf.field, keys |-> k]}
           [] leaf.op = "In" ->
                IF \E x \in leaf.values : sec_value(leaf.field, x) = {} THEN {}
                ELSE {[op |-> "Keys", field |-> leaf.field,
                       keys |-> UNION {sec_value(leaf.field, x) : x \in leaf.values}]}
           [] leaf.op = "Lt"  -> one_sided_range(leaf, FALSE, FALSE)
           [] leaf.op = "Lte" -> one_sided_range(leaf, FALSE, TRUE)
           [] leaf.op = "Gt"  -> one_sided_range(leaf, TRUE, FALSE)
           [] leaf.op = "Gte" -> one_sided_range(leaf, TRUE, TRUE)
           [] OTHER -> {}

\* A candidate set (wrapped in a set), or {} when the filter is unconstrained.
LeafCandidates(leaf) == {matching_ids(p) : p \in leaf_predicate(leaf)}

candidate_ids(filter) ==
    CASE filter.op = "And" ->
            LET known == UNION {LeafCandidates(s) : s \in filter.subs}
            IN  IF known = {} THEN {} ELSE {{i \in Ids : \A c \in known : i \in c}}
      [] filter.op = "Or" ->
            IF \E s \in filter.subs : LeafCandidates(s) = {} THEN {}
            ELSE {UNION UNION {LeafCandidates(s) : s \in filter.subs}}
      [] filter.op = "Not" -> {}
      [] OTHER -> LeafCandidates(filter)

Least(S, n) ==
    LET s == SetToSortSeq(S, <) IN SubSeq(s, 1, IF n < Len(s) THEN n ELSE Len(s))

\* Pre-filter arm: load, re-check and score every candidate, keep the k nearest.
exact_filtered_search(filter, candidates, k) ==
    Least({i \in candidates \cap present : matches(filter, get(i))}, k)

\* The whole of a vanished row's payload reads as null.
Nothing == [f \in UNION {DOMAIN p : p \in Payloads} |-> Missing]

\* Mutant: only payloads of the active buffer are read.
post_filtered_active(filter, k, ef_search) ==
    LET hits == SelectSeq(Least(index, k * FILTER_OVERFETCH),
                    LAMBDA i : i \in DOMAIN active /\ matches(filter, active[i]))
    IN  SubSeq(hits, 1, IF k < Len(hits) THEN k ELSE Len(hits))

\* Post-filter arm: over-fetch, then re-check the store's payload of each hit.
post_filtered_search(filter, k, ef_search) ==
    LET fetch == IF k * FILTER_OVERFETCH > ef_search THEN k * FILTER_OVERFETCH ELSE ef_search
        hits == SelectSeq(Least(index, fetch),
                    LAMBDA i : matches(filter, IF i \in present THEN get(i) ELSE Nothing))
    IN  SubSeq(hits, 1, IF k < Len(hits) THEN k ELSE Len(hits))

PreFilters(filter) ==
    \E c \in candidate_ids(filter) : Cardinality(c) <= FULL_SCAN_THRESHOLD

search_snapshot(filter, k) ==
    IF PreFilters(filter)
    THEN exact_filtered_search(filter, CHOOSE c \in candidate_ids(filter) : TRUE, k)
    ELSE post_filtered_search(filter, k, k)

\* Scroll: skip offset matches in scan order, return at most limit.
fetch(filter, offset, limit) ==
    LET all == SetToSortSeq({i \in present : matches(filter, get(i))}, <)
    IN  SubSeq(all, offset + 1, IF offset + limit < Len(all) THEN offset + limit ELSE Len(all))

-----------------------------------------------------------------------------
(* Writes, checkpoints and rebuilds. *)

Init ==
    /\ sealed = <<>>
    /\ window = <<>>
    /\ active = <<>>
    /\ index = {}
    /\ writes = 0

Upsert(i, p) ==
    /\ writes < MaxWrites
    /\ writes' = writes + 1
    /\ active' = [j \in DOMAIN active \cup {i} |-> IF j = i THEN p ELSE active[j]]
    /\ window' = Shadowed(i)
    /\ UNCHANGED <<sealed, index>>

Delete(i) ==
    /\ writes < MaxWrites
    /\ writes' = writes + 1
    /\ i \in present
    /\ active' = [j \in DOMAIN active \ {i} |-> active[j]]
    /\ window' = Shadowed(i)
    /\ UNCHANGED <<sealed, index>>

\* Mutant: the tombstones of the window are not cleared.
checkpointKeepingWindow ==
    /\ Len(sealed) < MaxSegments
    /\ DOMAIN active # {}
    /\ LET ids == SetToSortSeq(DOMAIN active, <)
           rows == [r \in DOMAIN ids |-> [id |-> ids[r], payload |-> active[ids[r]]]]
       IN  sealed' = Append(sealed, [rows |-> rows, sec |-> SecBuild(rows), dead |-> {}])
    /\ active' = <<>>
    /\ UNCHANGED <<window, index, writes>>

\* Seal the active buffer with its secondary index; the window's dead rows
\* become the segments' tombstones.
checkpoint ==
    /\ Len(sealed) < MaxSegments
    /\ DOMAIN active # {}
    /\ LET ids == SetToSortSeq(DOMAIN active, <)
           rows == [r \in DOMAIN ids |-> [id |-> ids[r], payload |-> active[ids[r]]]]
       IN  sealed' = Append([s \in DOMAIN sealed |->
                                [sealed[s] EXCEPT !.dead = @ \cup window[s]]],
                            [rows |-> rows, sec |-> SecBuild(rows), dead |-> {}])
    /\ window' = [s \in DOMAIN sealed' |-> {}]
    /\ active' = <<>>
    /\ UNCHANGED <<index, writes>>

\* The deferred rebuild of the vector index.
rebuild_index ==
    /\ index # present
    /\ index' = present
    /\ UNCHANGED <<sealed, window, active, writes>>

Next ==
    \/ \E i \in Ids, p \in Payloads : Upsert(i, p)
    \/ \E i \in Ids : Delete(i)
    \/ checkpoint
    \/ rebuild_index

Spec == Init /\ [][Next]_vars

-----------------------------------------------------------------------------
(* Properties. *)

\* The state is well formed; at most one live row per id.
TypeOK ==
    /\ Len(sealed) <= MaxSegments
    /\ DOMAIN window = DOMAIN sealed
    /\ DOMAIN active \subseteq Ids
    /\ index \subseteq Ids
    /\ writes \in 0..MaxWrites
    /\ \A s \in DOMAIN sealed : sealed[s].dead \cup window[s] \subseteq DOMAIN sealed[s].rows

Leaves(filter) ==
    CASE filter.op \in {"And", "Or"} -> filter.subs
      [] filter.op = "Not" -> {filter.sub}
      [] OTHER -> {filter}

\* A strict comparison of two integers that round to the same double: the key
\* of the secondary index cannot tell them apart, the filter can.
Rounded(filter) ==
    \E l \in Leaves(filter), i \in present :
        /\ l.op \in {"Lt", "Gt"}
        /\ l.field \in DOMAIN filterable
        /\ LET x == field_value(get(i), l.field)
           IN  /\ x.t = "int" /\ l.value.t = "int"
               /\ x.v # l.value.v
               /\ as_f64(x) = as_f64(l.value)

\* candidate_ids returns a superset of the rows the filter matches, however the
\* rows are spread over segments, tombstones and the active buffer, unless a
\* strict comparison rounds.
CandidatesCover ==
    \A f \in Filters :
        ~Rounded(f) =>
            \A c \in candidate_ids(f), i \in present : matches(f, get(i)) => i \in c

\* Whichever arm the planner takes, what it returns of the live rows is sorted,
\* matches the filter, and on the exact arm is the k nearest of all matches.
SearchExact ==
    \A f \in Filters, k \in 1..MaxK :
        LET found == search_snapshot(f, k)
            right == {i \in present : matches(f, get(i))}
        IN  /\ \A n \in DOMAIN found : found[n] \in present => found[n] \in right
            /\ \A n \in DOMAIN found : n > 1 => found[n - 1] < found[n]
            /\ PreFilters(f) /\ ~Rounded(f) => found = Least(right, k)

\* On a fresh index the post-filter arm misses a match only when the over-fetch
\* is used up: a short answer over an index it has read in full is complete.
ShortIsComplete ==
    index = present =>
        \A f \in Filters, k \in 1..MaxK :
            (~PreFilters(f) /\ Cardinality(index) <= k * FILTER_OVERFETCH) =>
                search_snapshot(f, k) = Least({i \in present : matches(f, get(i))}, k)

\* Scrolling a quiescent collection page by page returns every match once.
PagesTile ==
    \A f \in Filters, n \in 1..2 :
        LET page(p) == fetch(f, (p - 1) * n, n)
        IN  FlattenSeq([p \in 1..Cardinality(Ids) |-> page(p)]) =
                SetToSortSeq({i \in present : matches(f, get(i))}, <)
=============================================================================

------------------------- MODULE DescriptorLayouts -------------------------
(***************************************************************************)
(* The stored collection descriptor and the layouts earlier releases wrote *)
(* it in.  The encoding is postcard's: fields in order, no tags, and a     *)
(* decoder that ignores trailing bytes; so the layout is found by trying   *)
(* them from the newest to the oldest.  A byte is a number; the characters *)
(* of a field path are at least 32, more than any descriptor here is long. *)
(***************************************************************************)
EXTENDS Integers, Sequences, FiniteSets, SequencesExt

CONSTANTS Paths,        \* names of filterable fields, as byte sequences
          MaxFields     \* bound: filterable fields of a collection

VARIABLES descriptor,   \* what the collection was created with
          bytes,        \* the descriptor on disk
          memory        \* what the running engine decoded: a set of at most one

vars == <<descriptor, bytes, memory>>

\* The fields of each layout, the current one first.
Common == <<"dim", "dtype", "metric">>
DescriptorPreBinary == Common \o <<"kind", "pq_subspaces", "filterable", "multivector", "vector_encryption">>
Layouts ==
    << Common \o <<"kind", "pq_subspaces", "binary", "filterable", "multivector", "vector_encryption">>,
       DescriptorPreBinary,
       Front(DescriptorPreBinary),
       Front(Front(DescriptorPreBinary)),
       Common \o <<"kind", "pq_subspaces">>,
       Common >>

\* Enumerations and booleans are a byte below their number of variants.
Variants == [dtype |-> 1, metric |-> 3, kind |-> 5, binary |-> 2, multivector |-> 2,
             vector_encryption |-> 3, field_type |-> 2]

\* What a field missing from a layout is read as.
Default(field) == CASE field = "pq_subspaces" -> <<>> [] field = "filterable" -> <<>> [] OTHER -> 0

Descriptors ==
    [dim : {4}, dtype : {0}, metric : 0..2, kind : {0, 3}, pq_subspaces : {<<>>, <<2>>},
     binary : 0..1, filterable : BoundedSeq([path : Paths, field_type : 0..1], MaxFields),
     multivector : 0..1, vector_encryption : 0..2]

-----------------------------------------------------------------------------
EncodeField(field, v) ==
    CASE field = "pq_subspaces" -> <<Len(v)>> \o v
      [] field = "filterable" ->
            <<Len(v)>> \o FlattenSeq([i \in DOMAIN v |-> <<Len(v[i].path)>> \o v[i].path \o <<v[i].field_type>>])
      [] OTHER -> <<v>>

Encode(layout, d) == FlattenSeq([i \in DOMAIN layout |-> EncodeField(layout[i], d[layout[i]])])

\* A parse is the set of its results, empty when it fails: the value, what is left.
Result(v, rest) == {[v |-> v, rest |-> rest]}

ParseOption(b) ==
    IF b = <<>> \/ Head(b) > 1 THEN {}
    ELSE IF Head(b) = 0 THEN Result(<<>>, Tail(b))
    ELSE IF Len(b) < 2 THEN {} ELSE Result(<<b[2]>>, SubSeq(b, 3, Len(b)))

\* One filterable field: a length, that many characters, a type.
ParseItem(acc) ==
    LET b == acc.rest
    IN  IF b = <<>> \/ Len(b) < Head(b) + 2 THEN {}
        ELSE LET l == Head(b)
             IN  IF b[l + 2] >= Variants.field_type THEN {}
                 ELSE Result(Append(acc.v, [path |-> SubSeq(b, 2, l + 1), field_type |-> b[l + 2]]),
                             SubSeq(b, l + 3, Len(b)))

ParseFilterable(b) ==
    IF b = <<>> THEN {}
    ELSE FoldLeft(LAMBDA res, i : UNION {ParseItem(acc) : acc \in res},
                  Result(<<>>, Tail(b)), [i \in 1..Head(b) |-> i])

ParseField(field, b) ==
    CASE field = "pq_subspaces" -> ParseOption(b)
      [] field = "filterable" -> ParseFilterable(b)
      [] OTHER -> IF b = <<>> \/ (field # "dim" /\ Head(b) >= Variants[field]) THEN {}
                  ELSE Result(Head(b), Tail(b))

\* Decode under one layout: the missing fields have their defaults, the bytes
\* after the last field are ignored.
from_bytes(layout, b) ==
    LET blank == [f \in ToSet(Layouts[1]) |-> Default(f)]
        step(res, field) ==
            UNION {{[v |-> [acc.v EXCEPT ![field] = r.v], rest |-> r.rest] : r \in ParseField(field, acc.rest)}
                   : acc \in res}
    IN  {acc.v : acc \in FoldLeft(step, Result(blank, b), layout)}

decode(b) ==
    LET fits == {i \in DOMAIN Layouts : from_bytes(Layouts[i], b) # {}}
    IN  IF fits = {} THEN {} ELSE from_bytes(Layouts[CHOOSE i \in fits : \A j \in fits : i <= j], b)

-----------------------------------------------------------------------------
None == <<>>

Init == descriptor = None /\ bytes = <<>> /\ memory = {}

\* A release that writes layout l creates a collection; it knows no other fields.
Create(l) ==
    /\ descriptor = None
    /\ \E d \in Descriptors :
        /\ \A f \in ToSet(Layouts[1]) \ ToSet(Layouts[l]) : d[f] = Default(f)
        /\ descriptor' = d
        /\ bytes' = Encode(Layouts[l], d)
    /\ UNCHANGED memory

\* The current release opens the database.
Open ==
    /\ descriptor # None /\ memory = {}
    /\ memory' = decode(bytes)
    /\ UNCHANGED <<descriptor, bytes>>

\* It writes the descriptor again (a replication snapshot), and restarts.
Rewrite ==
    /\ memory # {}
    /\ \E d \in memory : bytes' = Encode(Layouts[1], d)
    /\ memory' = {}
    /\ UNCHANGED descriptor

Next == (\E l \in DOMAIN Layouts : Create(l)) \/ Open \/ Rewrite

Spec == Init /\ [][Next]_vars

-----------------------------------------------------------------------------
(* Properties. *)

TypeOK ==
    /\ descriptor = None \/ descriptor \in Descriptors
    /\ Cardinality(memory) <= 1

\* A collection of any earlier release opens with the descriptor it was created
\* with: no layout's bytes are taken for another's, although a newer layout has a
\* field in the middle of the older ones.
Upgrades ==
    /\ descriptor # None => decode(bytes) = {descriptor}
    /\ memory # {} => memory = {descriptor}
=============================================================================

--------------------------- MODULE SegmentFiles ---------------------------
(***************************************************************************)
(* A sealed segment on disk: pages with a checksum, sealed by a codec;     *)
(* block files (bodies packed tightly, read by range); length-prefixed     *)
(* paged files; and the columns of a segment (vectors, payloads, ids, the  *)
(* row directory with its sorted forward index) with the lookups that read *)
(* them.  The id column of the vector index has the same construction.     *)
(*                                                                         *)
(* A byte is a small number; PAGE_BODY_CAP is a few bytes, so that rows    *)
(* straddle pages.  An error is the empty set, a value a singleton.        *)
(***************************************************************************)
EXTENDS Integers, Sequences, FiniteSets, SequencesExt

CONSTANTS PAGE_BODY_CAP,   \* payload bytes of a page
          IdSet,           \* external ids, as byte sequences
          PayloadSet,      \* payloads, as byte sequences
          MaxRows          \* bound: rows of the segment

LEN_PREFIX == 1
Stride == 2

VARIABLES aead,      \* which codec the database uses: AEAD or plain
          rows,      \* rows to seal: id, payload
          files,     \* the segment's files, or none before it is written
          damage     \* what happened to a page of the files since

vars == <<aead, rows, files, damage>>

Error == {}
Value(x) == {x}
The(S) == CHOOSE x \in S : TRUE

-----------------------------------------------------------------------------
(* Pages and codecs. *)

\* A page with a correct header and checksum.
build_page(id, body) == [page_id |-> id, body |-> body, crc |-> TRUE]

\* The codec binds a sealed page to its position; the plain one does not.
seal(pos, page) == [at |-> pos, page |-> page]

open(pos, block) ==
    IF aead /\ (block.at # pos \/ ~block.page.crc) THEN Error ELSE Value(block.page)

parse_page(page) == IF page.crc THEN Value(page) ELSE Error

-----------------------------------------------------------------------------
(* Block files. *)

\* The streaming writer: whole pages are sealed as they fill.
NewWriter == [pages |-> <<>>, body |-> <<>>]

flush_page(w) ==
    [pages |-> Append(w.pages, seal(Len(w.pages), build_page(Len(w.pages), w.body))),
     body |-> <<>>]

\* One byte at a time: the same pages as filling the body chunk by chunk.
BlockWrite(w, bytes) ==
    FoldLeft(LAMBDA acc, b :
                LET full == [acc EXCEPT !.body = Append(@, b)]
                IN  IF Len(full.body) = PAGE_BODY_CAP THEN flush_page(full) ELSE full,
             w, bytes)

finish(w) == (IF w.body # <<>> THEN flush_page(w) ELSE w).pages

write_blocks(body) == finish(BlockWrite(NewWriter, body))

page_body(file, i) ==
    IF i >= Len(file) THEN Error
    ELSE LET p == open(i, file[i + 1])
         IN  IF p = Error THEN Error ELSE {q.body : q \in parse_page(The(p))}

\* Read len bytes from offset off, page by page; past the content it fails.
read_range(file, off, len) ==
    LET touched == IF len = 0 THEN {} ELSE (off \div PAGE_BODY_CAP)..((off + len - 1) \div PAGE_BODY_CAP)
        bodies == [i \in touched |-> page_body(file, i)]
        byte(n) == The(bodies[n \div PAGE_BODY_CAP])[(n % PAGE_BODY_CAP) + 1]
    IN  IF \/ \E i \in touched : bodies[i] = Error
           \/ \E n \in off..(off + len - 1) : n % PAGE_BODY_CAP >= Len(The(bodies[n \div PAGE_BODY_CAP]))
        THEN Error
        ELSE Value([j \in 1..len |-> byte(off + j - 1)])

-----------------------------------------------------------------------------
(* Paged files: the first page starts with the total length. *)

paginate(body) ==
    LET first == SubSeq(body, 1, IF Len(body) < PAGE_BODY_CAP - LEN_PREFIX THEN Len(body)
                                 ELSE PAGE_BODY_CAP - LEN_PREFIX)
        rest == SubSeq(body, Len(first) + 1, Len(body))
        count == (Len(rest) + PAGE_BODY_CAP - 1) \div PAGE_BODY_CAP
        chunk(i) == SubSeq(rest, (i - 1) * PAGE_BODY_CAP + 1,
                           IF i * PAGE_BODY_CAP < Len(rest) THEN i * PAGE_BODY_CAP ELSE Len(rest))
    IN  <<build_page(0, <<Len(body)>> \o first)>> \o [i \in 1..count |-> build_page(i, chunk(i))]

write_paged(body) ==
    LET pages == paginate(body) IN [i \in DOMAIN pages |-> seal(i - 1, pages[i])]

read_paged(file) ==
    LET opened(i) == LET p == open(i - 1, file[i])
                     IN  IF p = Error THEN Error ELSE {q \in parse_page(The(p)) : q.page_id = i - 1}
    IN  IF file = <<>> \/ \E i \in DOMAIN file : opened(i) = Error THEN Error
        ELSE LET all == FlattenSeq([i \in DOMAIN file |-> The(opened(i)).body])
                 total == Head(all)
             IN  IF Len(all) - LEN_PREFIX < total THEN Error
                 ELSE Value(SubSeq(all, LEN_PREFIX + 1, LEN_PREFIX + total))

-----------------------------------------------------------------------------
(* Segments. *)

LexLess(a, b) ==
    \/ Len(a) < Len(b) /\ a = SubSeq(b, 1, Len(a))
    \/ \E n \in DOMAIN a \cap DOMAIN b :
        /\ SubSeq(a, 1, n - 1) = SubSeq(b, 1, n - 1)
        /\ a[n] < b[n]

sorted_rows_by_id(ids) ==
    SortSeq([r \in DOMAIN ids |-> r],
            LAMBDA x, y : LexLess(ids[x], ids[y]) \/ (ids[x] = ids[y] /\ x < y))

\* Where each of a column's cells starts.
Offsets(cells) ==
    [r \in DOMAIN cells |-> FoldLeft(LAMBDA acc, c : acc + Len(c), 0, SubSeq(cells, 1, r - 1))]

Vector(r) == [i \in 1..Stride |-> 10 * r + i]

write_segment(rs) ==
    LET ids == [r \in DOMAIN rs |-> rs[r].id]
        pays == [r \in DOMAIN rs |-> rs[r].payload]
    IN  [vec |-> write_blocks(FlattenSeq([r \in DOMAIN rs |-> Vector(r)])),
         pay |-> write_blocks(FlattenSeq(pays)),
         ids |-> write_blocks(FlattenSeq(ids)),
         dir |-> [id_off |-> Offsets(ids), id_len |-> [r \in DOMAIN rs |-> Len(ids[r])],
                  pay_off |-> Offsets(pays), pay_len |-> [r \in DOMAIN rs |-> Len(pays[r])],
                  sorted_rows |-> sorted_rows_by_id(ids)],
         id_range |-> <<>>]

\* The streaming writer used by compaction: row by row, running offsets.
write_segment_streaming(rs) ==
    LET step(acc, row) ==
            [n |-> acc.n + 1,
             vec |-> BlockWrite(acc.vec, Vector(acc.n + 1)),
             pay |-> BlockWrite(acc.pay, row.payload), ids |-> BlockWrite(acc.ids, row.id),
             dir |-> [acc.dir EXCEPT !.id_off = Append(@, acc.id_end), !.id_len = Append(@, Len(row.id)),
                                     !.pay_off = Append(@, acc.pay_end),
                                     !.pay_len = Append(@, Len(row.payload))],
             id_end |-> acc.id_end + Len(row.id), pay_end |-> acc.pay_end + Len(row.payload)]
        start == [n |-> 0, vec |-> NewWriter, pay |-> NewWriter, ids |-> NewWriter,
                  dir |-> [id_off |-> <<>>, id_len |-> <<>>, pay_off |-> <<>>, pay_len |-> <<>>,
                           sorted_rows |-> sorted_rows_by_id([r \in DOMAIN rs |-> rs[r].id])],
                  id_end |-> 0, pay_end |-> 0]
        last == FoldLeft(step, start, rs)
    IN  [vec |-> finish(last.vec), pay |-> finish(last.pay), ids |-> finish(last.ids),
         dir |-> last.dir, id_range |-> <<>>]

read_id(f, r) == read_range(f.ids, f.dir.id_off[r], f.dir.id_len[r])
read_payload(f, r) == read_range(f.pay, f.dir.pay_off[r], f.dir.pay_len[r])
read_vector(f, r) == read_range(f.vec, (r - 1) * Stride, Stride)

\* Opening a segment keeps its least and greatest id in memory.
open_segment(f) ==
    [f EXCEPT !.id_range = IF f.dir.sorted_rows = <<>> THEN <<>>
                           ELSE <<The(read_id(f, Head(f.dir.sorted_rows))),
                                  The(read_id(f, Last(f.dir.sorted_rows)))>>]

\* One halving of the binary search for id over lo..hi - 1.
Halve(f, id, st) ==
    LET mid == st.lo + ((st.hi - st.lo) \div 2)
        row == f.dir.sorted_rows[mid + 1]
        candidate == read_id(f, row)
    IN  IF st.lo >= st.hi \/ st.found # Value(0) THEN st
        ELSE IF candidate = Error THEN [st EXCEPT !.found = Error]
        ELSE IF The(candidate) = id THEN [st EXCEPT !.found = Value(row)]
        ELSE IF LexLess(The(candidate), id) THEN [st EXCEPT !.lo = mid + 1]
        ELSE [st EXCEPT !.hi = mid]

\* The row of an id (0 when absent), or an error.  The loop halves its range, so
\* it ends within as many steps as there are rows.
lookup(f, id) ==
    IF f.id_range = <<>> \/ LexLess(id, f.id_range[1]) \/ LexLess(f.id_range[2], id) THEN Value(0)
    ELSE FoldLeft(LAMBDA st, step : Halve(f, id, st),
                  [lo |-> 0, hi |-> Len(f.dir.sorted_rows), found |-> Value(0)],
                  f.dir.sorted_rows).found

-----------------------------------------------------------------------------
(* The id column of the vector index: count, offsets, forward index and ids  *)
(* in one block file.                                                        *)

ColumnWrite(ids) ==
    write_blocks(<<Len(ids), 0>> \o [i \in DOMAIN ids |-> Offsets(ids)[i] + Len(ids[i])]
                 \o sorted_rows_by_id(ids) \o FlattenSeq(ids))

\* The external id of internal id i (from 1), from the bytes alone.
ColumnRead(file, i) ==
    LET n == The(read_range(file, 0, 1))[1]
        offsets == The(read_range(file, 1, n + 1))
    IN  read_range(file, 2 * n + 2 + offsets[i], offsets[i + 1] - offsets[i])

\* Binary search with an inclusive upper end; 0 when the id is absent.
ColumnLookup(file, id) ==
    LET n == The(read_range(file, 0, 1))[1]
        sorted == The(read_range(file, n + 2, n))
        step(st, i) ==
            LET mid == (st.lo + st.hi) \div 2
                row == sorted[mid + 1]
                candidate == The(ColumnRead(file, row))
            IN  IF st.lo > st.hi \/ st.found # 0 THEN st
                ELSE IF candidate = id THEN [st EXCEPT !.found = row]
                ELSE IF LexLess(candidate, id) THEN [st EXCEPT !.lo = mid + 1]
                ELSE [st EXCEPT !.hi = mid - 1]
    IN  FoldLeft(step, [lo |-> 0, hi |-> n - 1, found |-> 0], [i \in 1..n |-> i]).found

-----------------------------------------------------------------------------
NoFiles == [vec |-> <<>>, pay |-> <<>>, ids |-> <<>>, dir |-> <<>>, id_range |-> <<>>]

Init ==
    /\ aead \in BOOLEAN
    /\ rows = <<>>
    /\ files = NoFiles
    /\ damage = "unwritten"

AddRow ==
    /\ damage = "unwritten"
    /\ Len(rows) < MaxRows
    /\ \E i \in IdSet \ {rows[r].id : r \in DOMAIN rows}, p \in PayloadSet :
        rows' = Append(rows, [id |-> i, payload |-> p])
    /\ UNCHANGED <<aead, files, damage>>

\* A checkpoint or a compaction seals the rows and opens the segment.
Seal ==
    /\ damage = "unwritten"
    /\ files' = open_segment(write_segment(rows))
    /\ damage' = "none"
    /\ UNCHANGED <<aead, rows>>

\* A page of the id column rots after the segment was opened.
Rot ==
    /\ damage = "none"
    /\ \E i \in DOMAIN files.ids :
        files' = [files EXCEPT !.ids[i].page.crc = FALSE,
                               !.ids[i].page.body = [n \in DOMAIN @ |-> 0]]
    /\ damage' = "rot"
    /\ UNCHANGED <<aead, rows>>

\* A misdirected write puts one of the column's pages in the place of another.
Misplace ==
    /\ damage = "none"
    /\ \E i, j \in DOMAIN files.ids : i # j /\ files' = [files EXCEPT !.ids[i] = files.ids[j]]
    /\ damage' = "misplaced"
    /\ UNCHANGED <<aead, rows>>

Next == AddRow \/ Seal \/ Rot \/ Misplace

Spec == Init /\ [][Next]_vars

-----------------------------------------------------------------------------
(* Properties. *)

TypeOK ==
    /\ Len(rows) <= MaxRows
    /\ damage \in {"unwritten", "none", "rot", "misplaced"}
    /\ damage = "unwritten" => files = NoFiles

\* The row an id was sealed as, 0 when it was not.
RowOf(id) ==
    IF \E r \in DOMAIN rows : rows[r].id = id THEN CHOOSE r \in DOMAIN rows : rows[r].id = id ELSE 0

\* Every row reads back as it was sealed, wherever the page boundaries fall, and
\* the forward index finds exactly the ids that are there.
ReadsBack ==
    damage = "none" =>
        /\ \A r \in DOMAIN rows :
            /\ read_id(files, r) = Value(rows[r].id)
            /\ read_payload(files, r) = Value(rows[r].payload)
            /\ read_vector(files, r) = Value(Vector(r))
        /\ \A id \in IdSet : lookup(files, id) = Value(RowOf(id))

\* Compaction's streaming writer produces the same files as the checkpoint's.
StreamingSame ==
    damage = "none" => open_segment(write_segment_streaming(rows)) = files

\* No read of the id column returns a wrong id, and no lookup a wrong row.
NothingWrong ==
    /\ \A r \in DOMAIN rows : read_id(files, r) \in {Error, Value(rows[r].id)}
    /\ \A id \in IdSet : lookup(files, id) \in {Error, Value(RowOf(id))}

\* A rotten page is reported, not served; so is a page in the place of another,
\* under the AEAD codec, which binds a page to its position.
DamageDetected == damage = "rot" \/ (damage = "misplaced" /\ aead) => NothingWrong

\* A paged file is read back whole, and with a page missing at the end or out of
\* place it is refused, whatever the codec.
PagedWhole ==
    damage = "none" =>
        LET blob == FlattenSeq([r \in DOMAIN rows |-> rows[r].id])
            file == write_paged(blob)
        IN  /\ read_paged(file) = Value(blob)
            /\ read_paged(Front(file)) = Error
            /\ \A i, j \in DOMAIN file :
                i # j => read_paged([file EXCEPT ![i] = file[j]]) = Error

\* The vector index's id column answers both ways, from its bytes alone.
ColumnExact ==
    damage = "none" =>
        LET ids == [r \in DOMAIN rows |-> rows[r].id]
            file == ColumnWrite(ids)
        IN  /\ \A r \in DOMAIN ids : ColumnRead(file, r) = Value(ids[r])
            /\ \A id \in IdSet : ColumnLookup(file, id) = RowOf(id)
=============================================================================

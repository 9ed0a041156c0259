------------------------------- MODULE Import -------------------------------
(***************************************************************************)
(* `quiver admin import` (quiver-cli/src/admin.rs, quiver-import/src/):    *)
(* points are pulled from a running source page by page, or from a query   *)
(* or a file in one piece, then loaded into a collection one upsert at a   *)
(* time.  The source is in use while it is read; the importer may lose its *)
(* connection, be killed, and be started again.                            *)
(***************************************************************************)
EXTENDS Integers, Sequences, FiniteSets, SequencesExt

CONSTANTS
  SourceIds,   \* ids of the source, in the order of its scroll
  Text(_),     \* the text an id is turned into
  Dims,        \* dimensionalities of the source's vectors
  Batch,       \* page size
  MaxEdits,    \* bound on the changes of the source
  MaxRuns      \* bound on the imports started

Kinds == {"qdrant", "chroma", "pgvector"}
Texts == {Text(i) : i \in SourceIds}

VARIABLES
  source,   \* the source's rows, in the order they were added
  run,      \* the import that is running, or the last one
  target,   \* the collection: dim (0 when it is not there) and its points
  edits,
  runs,
  kept,     \* history: rows the source held since the run began
  shifted,  \* history: a row was removed from the source during the run
  before    \* history: the collection as the run found it

vars == <<source, run, target, edits, runs, kept, shifted, before>>

Absent == 0
NoPoint == [id |-> 0, dim |-> 0, version |-> 0]
Points == [id : SourceIds, dim : Dims, version : 0..MaxEdits]
Idle == [pc |-> "idle", kind |-> "qdrant", dim |-> Absent, offset |-> 0,
         points |-> <<>>, at |-> 0, loaded |-> 0]

TypeOK ==
  /\ source \in Seq(Points) /\ kept \subseteq Points
  /\ run.pc \in {"idle", "fetch", "check", "load", "save", "done", "refused", "failed"}
  /\ run.kind \in Kinds /\ run.points \in Seq(Points) /\ run.at \in 0..Len(run.points)
  /\ target.dim \in Dims \cup {Absent}
  /\ target.points \in [Texts -> Points \cup {NoPoint}]
  /\ edits \in 0..MaxEdits /\ runs \in 0..MaxRuns

Init ==
  /\ \E d \in Dims, S \in SUBSET SourceIds :
       source = SetToSortSeq([id : S, dim : {d}, version : {0}], LAMBDA p, q : p.id < q.id)
  /\ run = Idle
  /\ target = [dim |-> Absent, points |-> [t \in Texts |-> NoPoint]]
  /\ edits = 0 /\ runs = 0
  /\ kept = {} /\ shifted = FALSE
  /\ before = target

----------------------------------------------------------------------------
\* The source is written by its own users while the import reads it (what
\* they write once the last page is read is seen by the next run only).
Read == run.pc \in {"check", "load", "save"}
Idx(i) == {n \in DOMAIN source : source[n].id = i}

SourcePut(i, d) ==
  /\ edits < MaxEdits /\ ~Read
  /\ edits' = edits + 1
  /\ LET p == [id |-> i, dim |-> d, version |-> edits + 1]
     IN source' = IF Idx(i) = {} THEN Append(source, p)
                  ELSE [source EXCEPT ![CHOOSE n \in Idx(i) : TRUE] = p]
  /\ kept' = {p \in kept : p.id # i}
  /\ UNCHANGED <<run, target, runs, shifted, before>>

SourceDelete(i) ==
  /\ edits < MaxEdits /\ ~Read /\ Idx(i) # {}
  /\ edits' = edits + 1
  /\ source' = SelectSeq(source, LAMBDA p : p.id # i)
  /\ kept' = {p \in kept : p.id # i}
  /\ shifted' = (shifted \/ run.pc = "fetch")
  /\ UNCHANGED <<run, target, runs, before>>

----------------------------------------------------------------------------
\* The process ends with an error: what it held in memory is gone.
Ended(pc) == [run EXCEPT !.pc = pc, !.points = <<>>, !.at = 0, !.offset = 0]
Running == run.pc \in {"fetch", "check", "load", "save"}

\* import: a live source, and a dimensionality when the operator gives one.
Start(kind, dim) ==
  /\ ~Running /\ runs < MaxRuns
  /\ runs' = runs + 1
  /\ run' = [Idle EXCEPT !.pc = "fetch", !.kind = kind, !.dim = dim]
  /\ kept' = ToSet(source) /\ shifted' = FALSE /\ before' = target
  /\ UNCHANGED <<source, target, edits>>

\* The scroll of Qdrant: points by id from the cursor on, and the id the next
\* page starts at (none once the scroll is exhausted).
Scroll(from) == SetToSortSeq({p \in ToSet(source) : p.id >= from}, LAMBDA p, q : p.id < q.id)

fetch_qdrant ==
  LET rest == Scroll(run.offset)
      page == SubSeq(rest, 1, IF Len(rest) < Batch THEN Len(rest) ELSE Batch)
  IN IF Len(rest) > Batch
     THEN [run EXCEPT !.points = @ \o page, !.offset = rest[Batch + 1].id]
     ELSE [run EXCEPT !.points = @ \o page, !.pc = "check"]

\* Chroma's get: a window of the rows at an offset; a short page is the last.
fetch_chroma ==
  LET end  == run.offset + Batch
      page == SubSeq(source, run.offset + 1, IF Len(source) < end THEN Len(source) ELSE end)
  IN IF Len(page) < Batch
     THEN [run EXCEPT !.points = @ \o page, !.pc = "check"]
     ELSE [run EXCEPT !.points = @ \o page, !.offset = @ + Len(page)]

\* One query returns the table.
fetch_pgvector == [run EXCEPT !.points = source, !.pc = "check"]

FetchPage ==
  /\ run.pc = "fetch"
  /\ run' = CASE run.kind = "qdrant"   -> fetch_qdrant
              [] run.kind = "chroma"   -> fetch_chroma
              [] run.kind = "pgvector" -> fetch_pgvector
  /\ UNCHANGED <<source, target, edits, runs, kept, shifted, before>>

\* A transport error, or a kill of the importer: what it wrote stays.
Fail ==
  /\ Running
  /\ run' = Ended("failed")
  /\ UNCHANGED <<source, target, edits, runs, kept, shifted, before>>

\* The single dimensionality of the points, or Absent.
infer_dim(points) ==
  IF \A p, q \in ToSet(points) : p.dim = q.dim THEN points[1].dim ELSE Absent

\* import from "no points found" on, and the head of import_into.
Prepare ==
  /\ run.pc = "check"
  /\ LET dim == IF run.dim # Absent \/ run.points = <<>> THEN run.dim ELSE infer_dim(run.points)
     IN IF run.points = <<>> \/ dim = Absent
        THEN run' = Ended("refused") /\ UNCHANGED target
        ELSE /\ run' = [run EXCEPT !.pc = "load"]
             /\ target' = IF target.dim = Absent THEN [target EXCEPT !.dim = dim] ELSE target
  /\ UNCHANGED <<source, edits, runs, kept, shifted, before>>

\* import_into: one upsert of the loop; the engine refuses another
\* dimensionality.
Load ==
  /\ run.pc = "load"
  /\ LET p == run.points[run.at + 1]
     IN IF p.dim # target.dim
        THEN run' = Ended("refused") /\ UNCHANGED target
        ELSE /\ target' = [target EXCEPT !.points[Text(p.id)] = p]
             /\ run' = [run EXCEPT !.at = @ + 1,
                                   !.pc = IF run.at + 1 = Len(run.points) THEN "save" ELSE "load"]
  /\ UNCHANGED <<source, edits, runs, kept, shifted, before>>

\* The trailing checkpoint, and the number of points reported.
Save ==
  /\ run.pc = "save"
  /\ run' = [run EXCEPT !.pc = "done", !.loaded = Len(run.points)]
  /\ UNCHANGED <<source, target, edits, runs, kept, shifted, before>>

Next ==
  \/ \E i \in SourceIds, d \in Dims : SourcePut(i, d)
  \/ \E i \in SourceIds : SourceDelete(i)
  \/ \E kind \in Kinds, dim \in Dims \cup {Absent} : Start(kind, dim)
  \/ FetchPage
  \/ Fail
  \/ Prepare
  \/ Load
  \/ Save

Spec == Init /\ [][Next]_vars

----------------------------------------------------------------------------
\* An import that reports success loaded every row the source held, unchanged,
\* from its first page to its last, whatever the pages, unless a source read
\* by offset lost a row meanwhile or another id has the same text.
Complete ==
  run.pc = "done" =>
    \A p \in kept :
      \/ run.kind = "chroma" /\ shifted
      \/ \E q \in ToSet(run.points) : q.id # p.id /\ Text(q.id) = Text(p.id)
      \/ p \in {target.points[t] : t \in Texts}

\* An import whose dimensionality is inferred is refused before it changes a
\* point: a collection never holds half of an export that does not fit.
RefusedWhole ==
  run.pc = "refused" /\ run.dim = Absent => target.points = before.points
=============================================================================

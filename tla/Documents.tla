----------------------------- MODULE Documents -----------------------------
(***************************************************************************)
(* Multi-vector documents (quiver-embed/src/lib.rs, multivector.rs).  A    *)
(* document is a group of token rows of the store, written one by one, and *)
(* the handle's in-memory map of token counts says how many rows belong to *)
(* it.  An index rebuild off the lock carries a map scanned at its start   *)
(* and installs it at its end.  A row holds the number of the write it     *)
(* came from; 0 is no row.                                                 *)
(***************************************************************************)
EXTENDS Integers, FiniteSets

CONSTANTS
  Docs,        \* document ids
  MaxTokens,   \* the most vectors a document has
  MaxWrites,   \* bound on the writes of a behaviour
  MaxCrashes   \* bound on the crashes of a behaviour

VARIABLES
  rows,      \* the store: [Docs -> [ordinals -> write number]]
  docs,      \* handle.docs: tokens per document, 0 when it is not there
  stale,     \* handle.stale
  gen,       \* handle.write_gen
  task,      \* the map and the generation a rebuild captured, or NoTask
  writes,    \* the writes so far
  last,      \* history: the last acknowledged write of each document
  torn,      \* history: documents a crash caught in the middle of a write
  behind,    \* history: documents written while docs was older than the store
  crashes

vars == <<rows, docs, stale, gen, task, writes, last, torn, behind, crashes>>

Ordinals == 0..MaxTokens - 1
NoTask == [docs |-> [d \in Docs |-> 0], gen |-> -1]

\* scan_collection: the grouping derived from the live rows.
scan(r) == [d \in Docs |-> Cardinality({j \in Ordinals : r[d][j] # 0})]

TypeOK ==
  /\ rows \in [Docs -> [Ordinals -> 0..MaxWrites]]
  /\ docs \in [Docs -> 0..MaxTokens]
  /\ stale \in BOOLEAN
  /\ gen \in 0..MaxWrites /\ writes \in 0..MaxWrites
  /\ task \in [docs : [Docs -> 0..MaxTokens], gen : -1..MaxWrites]
  /\ last \in [Docs -> [write : 0..MaxWrites, tokens : 0..MaxTokens]]
  /\ torn \subseteq Docs /\ behind \subseteq Docs
  /\ crashes \in 0..MaxCrashes

Init ==
  /\ rows = [d \in Docs |-> [j \in Ordinals |-> 0]]
  /\ docs = [d \in Docs |-> 0]
  /\ stale = FALSE
  /\ gen = 0 /\ writes = 0 /\ crashes = 0
  /\ task = NoTask
  /\ last = [d \in Docs |-> [write |-> 0, tokens |-> 0]]
  /\ torn = {} /\ behind = {}

----------------------------------------------------------------------------
\* The rows of a document after the first `steps` store calls of
\* upsert_document: the trailing tokens of a longer version go first, in
\* ascending order, then the new tokens are written from the anchor on.
Upserted(d, n, steps) ==
  LET drops == IF docs[d] > n THEN docs[d] - n ELSE 0 IN
  [j \in Ordinals |->
     IF j >= n /\ j < docs[d] /\ j - n < steps THEN 0
     ELSE IF j < n /\ j < steps - drops THEN writes + 1
     ELSE rows[d][j]]

UpsertSteps(d, n) == (IF docs[d] > n THEN docs[d] - n ELSE 0) + n

\* The rows after the first `steps` deletes of delete_document.
Deleted(d, steps) ==
  [j \in Ordinals |-> IF j < docs[d] /\ j < steps THEN 0 ELSE rows[d][j]]

\* index_upsert_point and index_delete_point of every row: the write generation
\* moves, and an index that cannot absorb the change is marked stale.
Indexed ==
  /\ gen' = gen + 1
  /\ stale' \in {stale, TRUE}

Written(d, n) ==
  /\ docs' = [docs EXCEPT ![d] = n]
  /\ last' = [last EXCEPT ![d] = [write |-> writes + 1, tokens |-> n]]
  /\ behind' = IF docs[d] = scan(rows)[d] THEN behind ELSE behind \cup {d}
  /\ writes' = writes + 1
  /\ Indexed
  /\ UNCHANGED <<task, torn, crashes>>

upsert_document(d, n) ==
  /\ writes < MaxWrites
  /\ rows' = [rows EXCEPT ![d] = Upserted(d, n, UpsertSteps(d, n))]
  /\ Written(d, n)

delete_document(d) ==
  /\ writes < MaxWrites
  /\ docs[d] # 0
  /\ rows' = [rows EXCEPT ![d] = Deleted(d, docs[d])]
  /\ Written(d, 0)

\* gather_document: the rows below the count that are there, by ordinal.
gather_document(d) == {j \in Ordinals : j < docs[d] /\ rows[d][j] # 0}

\* snapshot_rebuild_inputs: only a stale handle is rebuilt.
capture ==
  /\ stale /\ task = NoTask
  /\ task' = [docs |-> scan(rows), gen |-> gen]
  /\ UNCHANGED <<rows, docs, stale, gen, writes, last, torn, behind, crashes>>

\* commit_rebuild: the captured map is installed whether or not a write landed
\* meanwhile; one that did leaves the handle stale.
commit_rebuild ==
  /\ task # NoTask
  /\ docs' = task.docs
  /\ stale' = (gen # task.gen)
  /\ task' = NoTask
  /\ UNCHANGED <<rows, gen, writes, last, torn, behind, crashes>>

\* A crash loses the handle; opening rebuilds it from the rows (load_index).
Reopened(r) ==
  /\ crashes < MaxCrashes
  /\ crashes' = crashes + 1
  /\ rows' = r
  /\ docs' = scan(r)
  /\ stale' = FALSE /\ gen' = 0 /\ task' = NoTask

Crash ==
  /\ Reopened(rows)
  /\ UNCHANGED <<writes, last, torn, behind>>

CrashInUpsert(d, n) ==
  /\ writes < MaxWrites
  /\ \E steps \in 1..UpsertSteps(d, n) - 1 :
       Reopened([rows EXCEPT ![d] = Upserted(d, n, steps)])
  /\ writes' = writes + 1 /\ torn' = torn \cup {d}
  /\ UNCHANGED <<last, behind>>

CrashInDelete(d) ==
  /\ writes < MaxWrites
  /\ \E steps \in 1..docs[d] - 1 : Reopened([rows EXCEPT ![d] = Deleted(d, steps)])
  /\ writes' = writes + 1 /\ torn' = torn \cup {d}
  /\ UNCHANGED <<last, behind>>

Next ==
  \/ \E d \in Docs, n \in 1..MaxTokens : upsert_document(d, n) \/ CrashInUpsert(d, n)
  \/ \E d \in Docs : delete_document(d) \/ CrashInDelete(d)
  \/ capture \/ commit_rebuild \/ Crash

Spec == Init /\ [][Next]_vars

----------------------------------------------------------------------------
\* The rows of the document are exactly its last acknowledged version.
Whole(d) ==
  \A j \in Ordinals : rows[d][j] = IF j < last[d].tokens THEN last[d].write ELSE 0

\* A re-upsert replaces the document cleanly, whatever the rebuilds and restarts
\* around it, unless a crash tore a write of it or it was written while the map
\* of counts was behind the store (upsert_document's trailing deletes).
ReplacedCleanly == \A d \in Docs \ (torn \cup behind) : Whole(d)

\* Through a fresh handle a read gathers exactly the tokens of the document's
\* last acknowledged version, whichever writes overlapped the rebuild that made
\* it fresh (commit_rebuild's generation test, gather_document).
FreshReads ==
  ~stale => \A d \in Docs \ (torn \cup behind) :
              /\ docs[d] = last[d].tokens
              /\ gather_document(d) = {j \in Ordinals : j < last[d].tokens}
=============================================================================

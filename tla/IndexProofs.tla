---------------------------- MODULE IndexProofs ----------------------------
(***************************************************************************)
(* The state above the store's rows: multi-vector documents (Documents)    *)
(* and the server's caches about a collection name (Serving).              *)
(*                                                                         *)
(* Documents are replaced cleanly and read whole for any number of         *)
(* documents, tokens, writes and crashes.  FreshReads needs more than the  *)
(* handle that is fresh now: a rebuild that is under way must carry a map  *)
(* that is right if no write lands before it is installed.  The            *)
(* strengthening says so of the captured map.                              *)
(*                                                                         *)
(* The caches agree with the collection that has the name, for any number  *)
(* of readers, rows and recreations.  CellIsLive is inductive as it        *)
(* stands.  GateNotSkipped is not: a reader that looked at the collection  *)
(* and has not cached what it saw carries the fact between two locks, so   *)
(* the invariant speaks of it too, and of which collections there can be   *)
(* under the name.                                                         *)
(***************************************************************************)
EXTENDS Documents, FiniteSetTheorems, TLAPS

\* The bounds of an instance.
Instance == MaxTokens \in Nat /\ MaxWrites \in Nat /\ MaxCrashes \in Nat

Clean == Docs \ (torn \cup behind)

\* A map of counts that is right about every clean document.
Right(m) == \A d \in Clean : m[d] = last[d].tokens

IInv ==
  /\ TypeOK
  /\ gen <= writes
  /\ \A d \in Docs : last[d].tokens > 0 => last[d].write > 0
  /\ ReplacedCleanly
  /\ ~stale => Right(docs)
  /\ task # NoTask => /\ task.gen >= 0 /\ task.gen <= gen
                      /\ gen = task.gen => Right(task.docs)

-----------------------------------------------------------------------------
\* A document whose tokens are the first n ordinals counts n rows (scan_collection).
LEMMA CountBelow ==
  ASSUME Instance, NEW n \in 0..MaxTokens
  PROVE  Cardinality({j \in Ordinals : j < n}) = n
  <1>1. {j \in Ordinals : j < n} = 0..n - 1
    BY DEF Ordinals, Instance
  <1>2. 0 \in Int /\ n - 1 \in Int
    BY DEF Instance
  <1>3. Cardinality(0..n - 1) = IF 0 > n - 1 THEN 0 ELSE (n - 1) - 0 + 1
    BY <1>2, FS_Interval
  <1>4. (IF 0 > n - 1 THEN 0 ELSE (n - 1) - 0 + 1) = n
    BY DEF Instance
  <1> QED
    BY <1>1, <1>3, <1>4

\* Scanning any rows gives a count within the ordinals.
LEMMA ScanType == ASSUME Instance, NEW r PROVE scan(r) \in [Docs -> 0..MaxTokens]
  <1> SUFFICES ASSUME NEW d \in Docs
               PROVE  Cardinality({j \in Ordinals : r[d][j] # 0}) \in 0..MaxTokens
    BY DEF scan
  <1> DEFINE S == {j \in Ordinals : r[d][j] # 0}
  <1>1. 0 \in Int /\ MaxTokens - 1 \in Int
    BY DEF Instance
  <1>2. IsFiniteSet(Ordinals) /\ Cardinality(Ordinals) = MaxTokens
    <2>1. /\ IsFiniteSet(0..MaxTokens - 1)
          /\ Cardinality(0..MaxTokens - 1) = IF 0 > MaxTokens - 1 THEN 0 ELSE (MaxTokens - 1) - 0 + 1
      BY <1>1, FS_Interval
    <2> QED
      BY <2>1 DEF Ordinals, Instance
  <1>3. S \in SUBSET Ordinals
    OBVIOUS
  <1> HIDE DEF S
  <1>4. IsFiniteSet(S) /\ Cardinality(S) <= Cardinality(Ordinals)
    BY <1>2, <1>3, FS_Subset
  <1>5. Cardinality(S) \in Nat
    BY <1>4, FS_CardinalityType
  <1>6. Cardinality(S) \in 0..MaxTokens
    BY <1>2, <1>4, <1>5 DEF Instance
  <1> QED
    BY <1>6 DEF S

\* Scanning the rows of a document that is whole counts its tokens.
LEMMA ScanWhole ==
  ASSUME Instance, TypeOK, \A d \in Docs : last[d].tokens > 0 => last[d].write > 0,
         NEW d \in Docs, Whole(d)
  PROVE  Cardinality({j \in Ordinals : rows[d][j] # 0}) = last[d].tokens
  <1>1. last[d].tokens \in 0..MaxTokens /\ last[d].write \in Nat
    BY DEF TypeOK, Instance
  <1>2. {j \in Ordinals : rows[d][j] # 0} = {j \in Ordinals : j < last[d].tokens}
    BY <1>1 DEF Whole, Ordinals, Instance
  <1> QED
    BY <1>1, <1>2, CountBelow

\* Rows that agree on a clean document scan to its tokens.
LEMMA ScanRight ==
  ASSUME Instance, IInv, NEW r, NEW d \in Clean, r[d] = rows[d]
  PROVE  scan(r)[d] = last[d].tokens
  <1>1. d \in Docs /\ Whole(d)
    BY DEF IInv, ReplacedCleanly, Clean
  <1>2. Cardinality({j \in Ordinals : rows[d][j] # 0}) = last[d].tokens
    BY <1>1, ScanWhole DEF IInv
  <1> QED
    BY <1>1, <1>2 DEF scan

\* The rows a write leaves, and those a crash in the middle of one leaves, are rows.
LEMMA RowsType ==
  ASSUME Instance, TypeOK, writes < MaxWrites, NEW d \in Docs, NEW steps \in Int
  PROVE  /\ \A n \in 0..MaxTokens :
              [rows EXCEPT ![d] = Upserted(d, n, steps)] \in [Docs -> [Ordinals -> 0..MaxWrites]]
         /\ [rows EXCEPT ![d] = Deleted(d, steps)] \in [Docs -> [Ordinals -> 0..MaxWrites]]
  <1>1. writes + 1 \in 0..MaxWrites /\ 0 \in 0..MaxWrites
    BY DEF TypeOK, Instance
  <1>2. \A j \in Ordinals : rows[d][j] \in 0..MaxWrites
    BY DEF TypeOK
  <1>3. \A n \in 0..MaxTokens : Upserted(d, n, steps) \in [Ordinals -> 0..MaxWrites]
    BY <1>1, <1>2 DEF Upserted
  <1>4. Deleted(d, steps) \in [Ordinals -> 0..MaxWrites]
    BY <1>1, <1>2 DEF Deleted
  <1> QED
    BY <1>3, <1>4 DEF TypeOK

-----------------------------------------------------------------------------
\* A write through the handle keeps the invariant, once the rows it leaves are
\* those of the new version (upsert_document, delete_document).
LEMMA WriteKeeps ==
  ASSUME Instance, IInv, NEW d \in Docs, NEW n \in 0..MaxTokens, Written(d, n),
         writes < MaxWrites,
         rows' \in [Docs -> [Ordinals -> 0..MaxWrites]],
         \A e \in Docs \ {d} : rows'[e] = rows[e],
         d \in Clean' =>
           \A j \in Ordinals : rows'[d][j] = IF j < n THEN writes + 1 ELSE 0
  PROVE  IInv'
  <1> USE DEF IInv
  <1>1. /\ docs' = [docs EXCEPT ![d] = n]
        /\ last' = [last EXCEPT ![d] = [write |-> writes + 1, tokens |-> n]]
        /\ behind \subseteq behind' /\ behind' \subseteq Docs
        /\ writes' = writes + 1 /\ gen' = gen + 1 /\ stale' \in {stale, TRUE}
        /\ task' = task /\ torn' = torn /\ crashes' = crashes
    BY DEF Written, Indexed, TypeOK
  <1>2. gen \in Nat /\ writes \in Nat /\ task.gen \in Int
    BY DEF TypeOK, Instance
  <1>3. [write |-> writes + 1, tokens |-> n] \in [write : 0..MaxWrites, tokens : 0..MaxTokens]
    BY <1>2 DEF Instance
  <1>4. TypeOK'
    <2>1. gen' \in 0..MaxWrites /\ writes' \in 0..MaxWrites
      BY <1>1, <1>2 DEF TypeOK, Instance
    <2>2. last' \in [Docs -> [write : 0..MaxWrites, tokens : 0..MaxTokens]]
      BY <1>1, <1>3 DEF TypeOK
    <2>3. docs' \in [Docs -> 0..MaxTokens]
      BY <1>1 DEF TypeOK
    <2>4. stale' \in BOOLEAN
      BY <1>1 DEF TypeOK
    <2> QED
      BY <1>1, <2>1, <2>2, <2>3, <2>4 DEF TypeOK
  <1>5. /\ last'[d].write = writes + 1 /\ last'[d].tokens = n
        /\ \A e \in Docs \ {d} : last'[e] = last[e] /\ docs'[e] = docs[e]
        /\ docs'[d] = n
    BY <1>1 DEF TypeOK
  <1>6. \A e \in Clean' : e \in Docs /\ (e # d => e \in Clean)
    BY <1>1 DEF Clean
  <1>7. \A e \in Docs : last'[e].tokens > 0 => last'[e].write > 0
    BY <1>2, <1>5
  <1>8. ReplacedCleanly'
    <2> SUFFICES ASSUME NEW e \in Clean'
                 PROVE  \A j \in Ordinals :
                          rows'[e][j] = IF j < last'[e].tokens THEN last'[e].write ELSE 0
      BY DEF ReplacedCleanly, Whole, Clean
    <2>1. CASE e = d
      BY <1>5, <2>1
    <2>2. CASE e # d
      <3>1. e \in Docs \ {d} /\ Whole(e)
        BY <1>6, <2>2 DEF ReplacedCleanly, Clean
      <3> QED
        BY <1>5, <3>1 DEF Whole
    <2> QED
      BY <2>1, <2>2
  <1>9. ~stale' => Right(docs)'
    <2> SUFFICES ASSUME ~stale', NEW e \in Clean' PROVE docs'[e] = last'[e].tokens
      BY DEF Right
    <2>1. ~stale
      BY <1>1
    <2> QED
      BY <1>5, <1>6, <2>1 DEF Right
  <1>10. task' # NoTask' => /\ task'.gen >= 0 /\ task'.gen <= gen'
                            /\ gen' = task'.gen => Right(task.docs)'
    BY <1>1, <1>2 DEF NoTask
  <1> QED
    BY <1>1, <1>2, <1>4, <1>7, <1>8, <1>9, <1>10

\* A handle rebuilt from the rows keeps the invariant, once the rows of the clean
\* documents are those it had (a crash, and opening again).
LEMMA ReopenKeeps ==
  ASSUME Instance, IInv, NEW r, r \in [Docs -> [Ordinals -> 0..MaxWrites]], Reopened(r),
         torn \subseteq torn', torn' \subseteq Docs, writes' \in 0..MaxWrites,
         UNCHANGED <<last, behind>>,
         \A e \in Docs \ torn' : r[e] = rows[e]
  PROVE  IInv'
  <1> USE DEF IInv
  <1>1. /\ rows' = r /\ docs' = scan(r) /\ ~stale' /\ stale' = FALSE /\ gen' = 0
        /\ task' = NoTask /\ crashes' \in 0..MaxCrashes
    BY DEF Reopened, TypeOK, Instance
  <1>2. \A e \in Clean' : e \in Clean /\ e \in Docs /\ r[e] = rows[e]
    BY DEF Clean
  <1>3. TypeOK'
    <2>1. docs' \in [Docs -> 0..MaxTokens]
      BY <1>1, ScanType
    <2>2. NoTask \in [docs : [Docs -> 0..MaxTokens], gen : -1..MaxWrites]
      BY DEF NoTask, Instance
    <2>3. gen' \in 0..MaxWrites
      BY <1>1 DEF Instance
    <2>5. stale' \in BOOLEAN
      BY <1>1, Zenon
    <2>4. last' = last /\ behind' = behind
      OBVIOUS
    <2> QED
      BY <1>1, <2>1, <2>2, <2>3, <2>4, <2>5 DEF TypeOK
  <1>4. ReplacedCleanly'
    BY <1>1, <1>2 DEF ReplacedCleanly, Whole, Clean
  <1>5. Right(docs)'
    BY <1>1, <1>2, ScanRight DEF Right
  <1>6. task' = NoTask'
    BY <1>1 DEF NoTask
  <1>7. gen' <= writes'
    BY <1>1 DEF Instance
  <1> QED
    BY <1>3, <1>4, <1>5, <1>6, <1>7

-----------------------------------------------------------------------------
\* A handle over an empty store satisfies the invariant.
LEMMA InitInv == ASSUME Instance, Init PROVE IInv
  <1>1. TypeOK
    <2>1. NoTask \in [docs : [Docs -> 0..MaxTokens], gen : -1..MaxWrites]
      BY DEF NoTask, Instance
    <2>2. 0 \in 0..MaxWrites /\ 0 \in 0..MaxTokens /\ 0 \in 0..MaxCrashes
      BY DEF Instance
    <2>3. rows \in [Docs -> [Ordinals -> 0..MaxWrites]]
      BY <2>2 DEF Init
    <2>4. last \in [Docs -> [write : 0..MaxWrites, tokens : 0..MaxTokens]]
      BY <2>2 DEF Init
    <2> QED
      BY <2>1, <2>2, <2>3, <2>4 DEF Init, TypeOK
  <1>2. ReplacedCleanly
    BY DEF Init, ReplacedCleanly, Whole, Ordinals, Instance
  <1>3. Right(docs)
    BY DEF Init, Right, Clean
  <1> QED
    BY <1>1, <1>2, <1>3 DEF Init, IInv

\* Every operation, rebuild and crash keeps the invariant.
LEMMA NextInv == ASSUME Instance, IInv, [Next]_vars PROVE IInv'
  <1> USE DEF IInv
  <1>1. CASE UNCHANGED vars
    <2>1. UNCHANGED <<rows, docs, stale, gen, task, writes, last, torn, behind, crashes>>
      BY <1>1 DEF vars
    <2> QED
      BY <2>1 DEF TypeOK, ReplacedCleanly, Whole, Right, Clean, NoTask
  <1>2. ASSUME NEW d \in Docs, NEW n \in 1..MaxTokens, upsert_document(d, n) PROVE IInv'
    <2>1. n \in 0..MaxTokens /\ n \in Nat /\ docs[d] \in Nat /\ writes < MaxWrites
      BY <1>2 DEF upsert_document, TypeOK, Instance
    <2>2. UpsertSteps(d, n) \in Int
      BY <2>1 DEF UpsertSteps
    <2>3. rows' = [rows EXCEPT ![d] = Upserted(d, n, UpsertSteps(d, n))] /\ Written(d, n)
      BY <1>2 DEF upsert_document
    <2>4. rows' \in [Docs -> [Ordinals -> 0..MaxWrites]]
      BY <2>1, <2>2, <2>3, RowsType
    <2>5. \A e \in Docs \ {d} : rows'[e] = rows[e]
      BY <2>3 DEF TypeOK
    <2>6. ASSUME d \in Clean', NEW j \in Ordinals
          PROVE  rows'[d][j] = IF j < n THEN writes + 1 ELSE 0
      <3>1. d \in Clean /\ docs[d] = scan(rows)[d]
        BY <2>3, <2>6 DEF Written, Clean
      <3>2. docs[d] = last[d].tokens
        BY <3>1, ScanRight
      <3>3. rows[d][j] = IF j < docs[d] THEN last[d].write ELSE 0
        BY <3>1, <3>2 DEF ReplacedCleanly, Whole, Clean
      <3>4. rows'[d][j] = Upserted(d, n, UpsertSteps(d, n))[j]
        BY <2>3 DEF TypeOK
      <3>5. j \in Nat
        BY DEF Ordinals, Instance
      <3> QED
        BY <2>1, <3>3, <3>4, <3>5 DEF Upserted, UpsertSteps
    <2> QED
      BY <2>1, <2>3, <2>4, <2>5, <2>6, WriteKeeps
  <1>3. ASSUME NEW d \in Docs, delete_document(d) PROVE IInv'
    <2>1. docs[d] \in Nat /\ docs[d] \in Int /\ writes < MaxWrites /\ 0 \in 0..MaxTokens
      BY <1>3 DEF delete_document, TypeOK, Instance
    <2>2. rows' = [rows EXCEPT ![d] = Deleted(d, docs[d])] /\ Written(d, 0)
      BY <1>3 DEF delete_document
    <2>3. rows' \in [Docs -> [Ordinals -> 0..MaxWrites]]
      BY <2>1, <2>2, RowsType
    <2>4. \A e \in Docs \ {d} : rows'[e] = rows[e]
      BY <2>2 DEF TypeOK
    <2>5. ASSUME d \in Clean', NEW j \in Ordinals
          PROVE  rows'[d][j] = IF j < 0 THEN writes + 1 ELSE 0
      <3>1. d \in Clean /\ docs[d] = scan(rows)[d]
        BY <2>2, <2>5 DEF Written, Clean
      <3>2. docs[d] = last[d].tokens
        BY <3>1, ScanRight
      <3>3. rows[d][j] = IF j < docs[d] THEN last[d].write ELSE 0
        BY <3>1, <3>2 DEF ReplacedCleanly, Whole, Clean
      <3>4. rows'[d][j] = Deleted(d, docs[d])[j]
        BY <2>2 DEF TypeOK
      <3>5. j \in Nat
        BY DEF Ordinals, Instance
      <3> QED
        BY <2>1, <3>3, <3>4, <3>5 DEF Deleted
    <2> QED
      BY <2>1, <2>2, <2>3, <2>4, <2>5, WriteKeeps
  <1>4. CASE capture
    <2>1. /\ task' = [docs |-> scan(rows), gen |-> gen]
          /\ UNCHANGED <<rows, docs, stale, gen, writes, last, torn, behind, crashes>>
      BY <1>4 DEF capture
    <2>2. TypeOK'
      <3>1. task' \in [docs : [Docs -> 0..MaxTokens], gen : -1..MaxWrites]
        BY <2>1, ScanType DEF TypeOK, Instance
      <3> QED
        BY <2>1, <3>1 DEF TypeOK
    <2>3. Right(scan(rows))
      BY ScanRight DEF Right
    <2>4. Right(task.docs)'
      BY <2>1, <2>3 DEF Right, Clean
    <2>5. task'.gen = gen /\ gen >= 0 /\ gen <= gen
      BY <2>1 DEF TypeOK, Instance
    <2> QED
      BY <2>1, <2>2, <2>4, <2>5 DEF ReplacedCleanly, Whole, Right, Clean
  <1>5. CASE commit_rebuild
    <2>1. /\ task # NoTask /\ docs' = task.docs /\ stale' = (gen # task.gen) /\ task' = NoTask
          /\ UNCHANGED <<rows, gen, writes, last, torn, behind, crashes>>
      BY <1>5 DEF commit_rebuild
    <2>2. TypeOK'
      <3>1. NoTask \in [docs : [Docs -> 0..MaxTokens], gen : -1..MaxWrites]
        BY DEF NoTask, Instance
      <3>2. stale' \in BOOLEAN
        BY <2>1
      <3> QED
        BY <2>1, <3>1, <3>2 DEF TypeOK
    <2>3. ~stale' => gen = task.gen
      BY <2>1
    <2>4. ~stale' => Right(docs)'
      BY <2>1, <2>3 DEF Right, Clean
    <2>5. task' = NoTask'
      BY <2>1 DEF NoTask
    <2> QED
      BY <2>1, <2>2, <2>4, <2>5 DEF ReplacedCleanly, Whole, Clean
  <1>6. CASE Crash
    BY <1>6, ReopenKeeps DEF Crash, TypeOK
  <1>7. ASSUME NEW d \in Docs, NEW n \in 1..MaxTokens, CrashInUpsert(d, n) PROVE IInv'
    <2>1. PICK steps \in 1..UpsertSteps(d, n) - 1 :
            Reopened([rows EXCEPT ![d] = Upserted(d, n, steps)])
      BY <1>7 DEF CrashInUpsert
    <2>2. writes < MaxWrites /\ writes' = writes + 1 /\ torn' = torn \cup {d} /\ UNCHANGED <<last, behind>>
      BY <1>7 DEF CrashInUpsert
    <2>3. steps \in Int /\ n \in 0..MaxTokens /\ writes' \in 0..MaxWrites
      BY <2>2 DEF TypeOK, Instance
    <2> DEFINE r == [rows EXCEPT ![d] = Upserted(d, n, steps)]
    <2>4. r \in [Docs -> [Ordinals -> 0..MaxWrites]]
      BY <2>2, <2>3, RowsType
    <2>5. \A e \in Docs \ torn' : r[e] = rows[e]
      BY <2>2 DEF TypeOK
    <2>6. Reopened(r) /\ torn \subseteq torn' /\ torn' \subseteq Docs
      BY <2>1, <2>2 DEF TypeOK
    <2> HIDE DEF r
    <2> QED
      BY <2>2, <2>3, <2>4, <2>5, <2>6, ReopenKeeps
  <1>8. ASSUME NEW d \in Docs, CrashInDelete(d) PROVE IInv'
    <2>1. PICK steps \in 1..docs[d] - 1 : Reopened([rows EXCEPT ![d] = Deleted(d, steps)])
      BY <1>8 DEF CrashInDelete
    <2>2. writes < MaxWrites /\ writes' = writes + 1 /\ torn' = torn \cup {d} /\ UNCHANGED <<last, behind>>
      BY <1>8 DEF CrashInDelete
    <2>3. steps \in Int /\ writes' \in 0..MaxWrites
      BY <2>2 DEF TypeOK, Instance
    <2> DEFINE r == [rows EXCEPT ![d] = Deleted(d, steps)]
    <2>4. r \in [Docs -> [Ordinals -> 0..MaxWrites]]
      BY <2>2, <2>3, RowsType
    <2>5. \A e \in Docs \ torn' : r[e] = rows[e]
      BY <2>2 DEF TypeOK
    <2>6. Reopened(r) /\ torn \subseteq torn' /\ torn' \subseteq Docs
      BY <2>1, <2>2 DEF TypeOK
    <2> HIDE DEF r
    <2> QED
      BY <2>2, <2>3, <2>4, <2>5, <2>6, ReopenKeeps
  <1> QED
    BY <1>1, <1>2, <1>3, <1>4, <1>5, <1>6, <1>7, <1>8 DEF Next

\* The rows of a document are exactly its last acknowledged version, unless a crash
\* tore a write of it or it was written while the counts were behind the store.
THEOREM DocumentsReplaced == ASSUME Instance PROVE Spec => []ReplacedCleanly
  <1>1. Init => IInv
    BY InitInv
  <1>2. IInv /\ [Next]_vars => IInv'
    BY NextInv
  <1>3. IInv => ReplacedCleanly
    BY DEF IInv
  <1> QED
    BY <1>1, <1>2, <1>3, PTL DEF Spec

\* A handle that is not stale reads every such document whole, whichever writes
\* overlapped the rebuild that made it fresh (commit_rebuild).
THEOREM DocumentsReadFresh == ASSUME Instance PROVE Spec => []FreshReads
  <1>1. Init => IInv
    BY InitInv
  <1>2. IInv /\ [Next]_vars => IInv'
    BY NextInv
  <1>3. IInv => FreshReads
    <2> SUFFICES ASSUME IInv, ~stale, NEW d \in Clean
                 PROVE  /\ docs[d] = last[d].tokens
                        /\ gather_document(d) = {j \in Ordinals : j < last[d].tokens}
      BY DEF FreshReads, Clean
    <2>1. docs[d] = last[d].tokens /\ Whole(d) /\ d \in Docs
      BY DEF IInv, Right, ReplacedCleanly, Clean
    <2>2. last[d].tokens \in Nat /\ last[d].write \in Nat /\ (last[d].tokens > 0 => last[d].write > 0)
      BY <2>1 DEF IInv, TypeOK, Instance
    <2> QED
      BY <2>1, <2>2 DEF gather_document, Whole, Ordinals, Instance
  <1> QED
    BY <1>1, <1>2, <1>3, PTL DEF Spec

-----------------------------------------------------------------------------
(* The server's caches, with their own constants and state.                *)

CONSTANTS Ids, Vals, RebuildInverse, OverlayFloor, Readers, Kind, Modes, Reopen,
          MaxPointWrites, MaxCreates
VARIABLES inc, created, srows, h, cells, cached, built, gate, rebuilding, stask, rd,
          dropping, swrites, past, crossed, late

S == INSTANCE Serving WITH rows <- srows, task <- stask, writes <- swrites,
                           MaxWrites <- MaxPointWrites

\* A handle of the collection; it never forgets that it was built.
IsHandle(x) ==
  /\ DOMAIN x = {"kind", "index", "idmap", "stale", "ever_built", "write_gen",
                 "mvcc", "snapshot", "sparse"}
  /\ x.kind = Kind

Grows(x, y) == IsHandle(y) /\ (x.ever_built => y.ever_built)

IsReader(x) == DOMAIN x = {"pc", "gate", "of", "in", "due", "ready"}

\* What a reader between the two locks carries is true of the live collection.
Carried(x) ==
  x.pc = "cache" => x.of \in 1..created /\ (x.of = inc => h.ever_built)

ServingInv ==
  /\ created \in Nat /\ inc \in {0, created}
  /\ IsHandle(h)
  /\ DOMAIN rd = Readers
  /\ \A r \in Readers : IsReader(rd[r]) /\ Carried(rd[r])
  /\ built /\ ~dropping /\ ~late => inc # 0 /\ h.ever_built

-----------------------------------------------------------------------------
\* The index side of a write does not unbuild the handle (index_upsert_point,
\* index_delete_point, their sparse halves and upsert_bulk).
LEMMA WritesGrow ==
  ASSUME Kind \in S!Kinds, NEW x, IsHandle(x), NEW e, NEW v
  PROVE  Grows(x, S!upsert(x, e, v)) /\ Grows(x, S!delete(x, e)) /\ Grows(x, S!upsert_bulk(x))
  <1>1. ASSUME NEW y, IsHandle(y)
        PROVE  /\ Grows(y, S!bump_write_gen(y))
               /\ Grows(y, S!mark_stale(y))
    BY <1>1 DEF Grows, IsHandle, S!bump_write_gen, S!mark_stale
  <1>2. Grows(x, S!index_upsert_point(x, e, v))
    <2> DEFINE x1 == S!bump_write_gen(x)
               known == S!internal(x.idmap, e)
               next == S!idmap_len(x.idmap)
               append == [S!InsertInto([x1 EXCEPT !.index.dead = @ \cup known], next, v)
                            EXCEPT !.idmap = S!push(@, e)]
    <2>1. Grows(x, x1)
      BY <1>1
    <2>2. Grows(x, S!mark_stale(x1))
      BY <1>1, <2>1 DEF Grows
    <2>3. Grows(x, append)
      BY <2>1 DEF Grows, IsHandle, S!InsertInto
    <2>4. Grows(x, S!overlay_upsert(x, e, v))
      BY <2>1 DEF Grows, IsHandle, S!overlay_upsert
    <2>5. \A i : Grows(x, S!InsertInto(x1, i, v))
      BY <2>1 DEF Grows, IsHandle, S!InsertInto
    <2>6. \A c : Grows(x, S!StaleIf(append, c))
      BY <1>1, <2>3 DEF Grows, S!StaleIf
    <2> HIDE DEF append, x1
    <2> QED
      BY <2>1, <2>2, <2>3, <2>4, <2>5, <2>6 DEF S!index_upsert_point, append, x1
  <1>3. Grows(x, S!index_delete_point(x, e))
    <2> DEFINE x1 == S!bump_write_gen(x)
               known == S!internal(x.idmap, e)
               tomb == [x1 EXCEPT !.index.dead = @ \cup known]
               less == [x1 EXCEPT !.index.vec = S!Minus(@, known)]
    <2>1. Grows(x, x1)
      BY <1>1
    <2>2. Grows(x, S!mark_stale(x1))
      BY <1>1, <2>1 DEF Grows
    <2>3. Grows(x, tomb) /\ Grows(x, less)
      BY <2>1 DEF Grows, IsHandle
    <2>4. Grows(x, S!overlay_delete(x, e))
      BY <2>1 DEF Grows, IsHandle, S!overlay_delete
    <2>5. \A c : Grows(x, S!StaleIf(tomb, c))
      BY <1>1, <2>3 DEF Grows, S!StaleIf
    <2>6. x.kind \in S!Kinds
      BY DEF IsHandle
    <2>7. S!index_delete_point(x, e) =
            CASE S!mvcc_served(x) -> S!overlay_delete(x, e)
              [] ~S!mvcc_served(x) /\ x.stale -> x1
              [] ~S!mvcc_served(x) /\ ~x.stale ->
                   CASE known = {} \/ ~x.index.built -> S!mark_stale(x1)
                     [] known # {} /\ x.index.built /\ x.kind = "ivf" -> less
                     [] known # {} /\ x.index.built /\ x.kind \in {"vamana", "disk"} ->
                          S!StaleIf(tomb, S!GraphCrowded(tomb.index))
                     [] known # {} /\ x.index.built /\ x.kind \in {"hnsw", "colbert"} ->
                          S!StaleIf(tomb, S!PoolCrowded(tomb.index))
      BY DEF S!index_delete_point
    <2> HIDE DEF x1, known, tomb, less
    <2> QED
      BY <2>1, <2>2, <2>3, <2>4, <2>5, <2>6, <2>7 DEF S!Kinds
  <1>4. ASSUME NEW y, IsHandle(y)
        PROVE  /\ Grows(y, S!sparse_index_upsert_point(y, e, v))
               /\ Grows(y, S!sparse_index_delete_point(y, e))
    BY <1>4 DEF Grows, IsHandle, S!sparse_index_upsert_point, S!sparse_index_delete_point
  <1> QED
    BY <1>1, <1>2, <1>3, <1>4 DEF S!upsert, S!delete, S!upsert_bulk, Grows

\* A build leaves the handle built (rebuild_index, commit_rebuild).
LEMMA BuildsGrow ==
  ASSUME NEW x, IsHandle(x), NEW in, NEW r
  PROVE  /\ IsHandle(S!commit_rebuild(x, in)) /\ S!commit_rebuild(x, in).ever_built
         /\ IsHandle(S!rebuild_index(x, r)) /\ S!rebuild_index(x, r).ever_built
  BY DEF S!commit_rebuild, S!rebuild_index, S!publish_base, IsHandle

\* A collection starts with a handle.
LEMMA NewIsHandle == ASSUME NEW m PROVE IsHandle(S!NewHandle(Kind, m))
  BY DEF IsHandle, S!NewHandle

-----------------------------------------------------------------------------
\* A fresh server over an empty or a reopened database satisfies the invariant.
LEMMA ServingInit == ASSUME Kind \in S!Kinds, S!Init PROVE ServingInv
  <1>1. IsHandle(h)
    <2>1. \A m : IsHandle(S!NewHandle(Kind, m))
      BY NewIsHandle
    <2>2. \A m, r : IsHandle(S!from_store(m, r))
      <3> SUFFICES ASSUME NEW m, NEW r PROVE IsHandle(S!from_store(m, r))
        OBVIOUS
      <3>1. IsHandle(S!rebuild_index(S!NewHandle(Kind, m), r))
        BY <2>1, BuildsGrow
      <3> QED
        BY <3>1 DEF S!from_store, IsHandle
    <2> QED
      BY <2>1, <2>2 DEF S!Init
  <1>2. created \in Nat /\ inc \in {0, created}
    BY DEF S!Init
  <1>3. DOMAIN rd = Readers /\ \A r \in Readers : IsReader(rd[r]) /\ Carried(rd[r])
    BY DEF S!Init, S!Idle, IsReader, Carried
  <1> QED
    BY <1>1, <1>2, <1>3 DEF S!Init, ServingInv

\* A step of one reader, once what it carries from it is true.
LEMMA ReaderKeeps ==
  ASSUME ServingInv, NEW r \in Readers, NEW x, S!Goes(r, x), IsReader(x),
         created' = created, inc' = inc, IsHandle(h)', h.ever_built => h'.ever_built,
         dropping' = dropping, Carried(x)',
         built' /\ ~dropping' /\ ~late' => inc' # 0 /\ h'.ever_built
  PROVE  ServingInv'
  <1>1. rd' = [rd EXCEPT ![r] = x] /\ DOMAIN rd' = Readers
    BY DEF S!Goes, ServingInv
  <1>2. \A q \in Readers : rd'[q] = IF q = r THEN x ELSE rd[q]
    BY <1>1 DEF ServingInv
  <1>3. \A q \in Readers : Carried(rd[q])'
    <2> SUFFICES ASSUME NEW q \in Readers PROVE Carried(rd[q])'
      OBVIOUS
    <2>1. CASE q = r
      BY <1>2, <2>1 DEF Carried
    <2>2. CASE q # r
      BY <1>2, <2>2 DEF Carried, ServingInv
    <2> QED
      BY <2>1, <2>2
  <1>4. \A q \in Readers : IsReader(rd[q])'
    BY <1>2 DEF IsReader, ServingInv
  <1> QED
    BY <1>1, <1>3, <1>4 DEF ServingInv

\* The readiness check, from wherever in the gate it is made.
LEMMA ReadinessKeeps ==
  ASSUME ServingInv, NEW r \in Readers, NEW from, NEW yes, NEW no, yes # "cache", no # "cache",
         S!Readiness(r, from, yes, no)
  PROVE  ServingInv'
  <1> DEFINE ready == inc = 0 \/ S!index_ready(h, srows)
             after == IF ready THEN yes ELSE no
             x == [rd[r] EXCEPT
                    !.pc = IF inc # 0 /\ h.ever_built THEN "cache" ELSE after,
                    !.of = inc, !.ready = ready,
                    !.gate = IF after = "gate" THEN gate ELSE @]
  <1>0. PICK y : y = x
    OBVIOUS
  <1>1. S!Goes(r, y)
    BY <1>0 DEF S!Readiness
  <1>2. UNCHANGED <<h, built, late, inc, created, dropping>>
    BY DEF S!Readiness, S!Elsewhere
  <1>3. IsReader(y) /\ y.pc = (IF inc # 0 /\ h.ever_built THEN "cache" ELSE after) /\ y.of = inc
    BY <1>0 DEF IsReader, ServingInv
  <1>4. after # "cache"
    OBVIOUS
  <1> HIDE DEF x, after
  <1>5. Carried(y)'
    BY <1>2, <1>3, <1>4 DEF Carried, ServingInv
  <1>6. IsHandle(h)' /\ (h.ever_built => h'.ever_built)
    BY <1>2 DEF ServingInv, IsHandle
  <1>7. built' /\ ~dropping' /\ ~late' => inc' # 0 /\ h'.ever_built
    BY <1>2 DEF ServingInv
  <1> QED
    BY <1>1, <1>2, <1>3, <1>5, <1>6, <1>7, ReaderKeeps

\* A write under the exclusive lock.
LEMMA WrittenKeeps ==
  ASSUME ServingInv, NEW rows1, NEW h1, S!Written(rows1, h1), Grows(h, h1),
         \/ rd' = rd
         \/ S!NoLongerDue
  PROVE  ServingInv'
  <1>1. h' = h1 /\ UNCHANGED <<inc, created, built, dropping, late>>
    BY DEF S!Written
  <1>2. DOMAIN rd' = Readers /\ \A q \in Readers : /\ IsReader(rd'[q]) /\ rd'[q].pc = rd[q].pc
                                                   /\ rd'[q].of = rd[q].of
    BY DEF S!NoLongerDue, ServingInv, IsReader
  <1>3. IsHandle(h)' /\ (h.ever_built => h'.ever_built)
    BY <1>1 DEF Grows, IsHandle
  <1>4. \A q \in Readers : IsReader(rd[q])' /\ Carried(rd[q])'
    BY <1>1, <1>2, <1>3 DEF IsReader, Carried, ServingInv
  <1> QED
    BY <1>1, <1>2, <1>3, <1>4 DEF ServingInv

-----------------------------------------------------------------------------
\* Every step of every writer, reader and rebuild keeps the invariant.
LEMMA ServingStep == ASSUME Kind \in S!Kinds, ServingInv, [S!Next]_(S!vars) PROVE ServingInv'
  <1>1. CASE UNCHANGED S!vars
    BY <1>1 DEF S!vars, ServingInv, IsHandle, IsReader, Carried
  <1>2. CASE S!create_collection
    <2>1. /\ inc = 0 /\ created' = created + 1 /\ inc' = created + 1
          /\ h' = S!NewHandle(Kind, h.mvcc) /\ UNCHANGED <<rd, built, dropping, late>>
      BY <1>2 DEF S!create_collection
    <2>2. IsHandle(h')
      BY <2>1, NewIsHandle
    <2>3. \A r \in Readers : Carried(rd[r])'
      BY <2>1 DEF ServingInv, Carried
    <2>4. created' \in Nat /\ inc' \in {0, created'} /\ ~(built /\ ~dropping /\ ~late)
      BY <2>1 DEF ServingInv
    <2>5. DOMAIN rd' = Readers /\ \A r \in Readers : IsReader(rd[r])'
      BY <2>1, Zenon DEF ServingInv, IsReader
    <2>6. IsHandle(h)'
      BY <2>2 DEF IsHandle
    <2>7. ~(built' /\ ~dropping' /\ ~late')
      BY <2>1, <2>4, Zenon
    <2> QED
      BY <2>3, <2>4, <2>5, <2>6, <2>7, Zenon DEF ServingInv
  <1>3. CASE S!drop_collection
    <2>1. /\ inc' = 0 /\ created' = created /\ h' = S!NewHandle(Kind, h.mvcc) /\ dropping'
          /\ S!NoLongerDue
      BY <1>3 DEF S!drop_collection
    <2>2. IsHandle(h')
      BY <2>1, NewIsHandle
    <2>3. DOMAIN rd' = Readers /\ \A q \in Readers : /\ IsReader(rd'[q]) /\ rd'[q].pc = rd[q].pc
                                                     /\ rd'[q].of = rd[q].of
      BY <2>1 DEF S!NoLongerDue, ServingInv, IsReader
    <2>4. \A q \in Readers : IsReader(rd[q])' /\ Carried(rd[q])'
      <3> SUFFICES ASSUME NEW q \in Readers PROVE IsReader(rd[q])' /\ Carried(rd[q])'
        OBVIOUS
      <3>1. rd[q].pc = "cache" => rd[q].of \in 1..created
        BY Zenon DEF ServingInv, Carried
      <3>2. created \in Nat
        BY Zenon DEF ServingInv
      <3>3. rd'[q].pc = "cache" => rd'[q].of \in 1..created' /\ rd'[q].of # inc'
        BY <2>1, <2>3, <3>1, <3>2
      <3> QED
        BY <2>3, <3>3, Zenon DEF IsReader, Carried
    <2>5. created' \in Nat /\ inc' \in {0, created'} /\ IsHandle(h)'
      BY <2>1, <2>2 DEF ServingInv, IsHandle
    <2> QED
      BY <2>1, <2>3, <2>4, <2>5, Zenon DEF ServingInv
  <1>4. CASE S!evict
    <2>1. built' = FALSE /\ UNCHANGED <<inc, created, h, rd>>
      BY <1>4 DEF S!evict
    <2> QED
      BY <2>1 DEF ServingInv, IsHandle, IsReader, Carried
  <1>5. ASSUME NEW e \in Ids, NEW v \in Vals, S!Upsert(e, v) \/ S!UpsertBulk(e, v) PROVE ServingInv'
    <2>1. IsHandle(h)
      BY DEF ServingInv
    <2>2. Grows(h, S!upsert(h, e, v)) /\ Grows(h, S!upsert_bulk(h))
      BY <2>1, WritesGrow
    <2>3. PICK rows1 : rows1 = S!Put(srows, e, v)
      OBVIOUS
    <2>4. PICK h1 : h1 \in {S!upsert(h, e, v), S!upsert_bulk(h)} /\ S!Written(rows1, h1) /\ rd' = rd
      BY <1>5, <2>3 DEF S!Upsert, S!UpsertBulk
    <2>5. Grows(h, h1)
      BY <2>2, <2>4
    <2> QED
      BY <2>4, <2>5, WrittenKeeps
  <1>6. ASSUME NEW e \in Ids, S!DeletePoint(e) PROVE ServingInv'
    <2>1. Grows(h, S!delete(h, e))
      BY WritesGrow DEF ServingInv
    <2>2. PICK rows1, h1 : h1 = S!delete(h, e) /\ S!Written(rows1, h1) /\ S!NoLongerDue
      BY <1>6 DEF S!DeletePoint
    <2>3. Grows(h, h1)
      BY <2>1, <2>2
    <2> QED
      BY <2>2, <2>3, WrittenKeeps
  <1>7. CASE S!RunRebuild
    <2>1. CASE S!TaskCommit
      <3>1. S!Commit(stask) /\ UNCHANGED <<inc, created, built, rd, dropping, late>>
        BY <2>1 DEF S!TaskCommit
      <3>2. IsHandle(h') /\ (h.ever_built => h'.ever_built)
        BY <3>1, BuildsGrow DEF S!Commit, ServingInv
      <3> QED
        BY <3>1, <3>2 DEF ServingInv, IsHandle, IsReader, Carried
    <2>2. CASE S!TaskCapture \/ S!TaskEnd
      <3>1. UNCHANGED <<inc, created, built, rd, dropping, late, h>>
        BY <2>2 DEF S!TaskCapture, S!TaskEnd
      <3> QED
        BY <3>1 DEF ServingInv, IsHandle, IsReader, Carried
    <2> QED
      BY <1>7, <2>1, <2>2 DEF S!RunRebuild
  <1>8. ASSUME NEW r \in Readers, S!search(r) \/ S!Reader(r) PROVE ServingInv'
    <2> DEFINE Still == UNCHANGED <<h, built, late, inc, created, dropping>>
               To(y) == S!Goes(r, y) /\ IsReader(y) /\ y.pc # "cache"
    <2>0. IsReader(rd[r]) /\ IsReader(S!Idle) /\ S!Idle.pc = "idle"
      BY DEF ServingInv, IsReader, S!Idle
    <2>1. ASSUME NEW y, To(y), Still PROVE ServingInv'
      <3>1. IsHandle(h)' /\ (h.ever_built => h'.ever_built) /\ Carried(y)'
        BY <2>1 DEF ServingInv, IsHandle, Carried
      <3>2. built' /\ ~dropping' /\ ~late' => inc' # 0 /\ h'.ever_built
        BY <2>1 DEF ServingInv
      <3> QED
        BY <2>1, <3>1, <3>2, ReaderKeeps
    <2>2. CASE S!search(r)
      <3>1. PICK y : /\ S!Goes(r, y)
                     /\ y = [S!Idle EXCEPT !.pc = IF cached # 0 THEN "cell"
                                                ELSE IF built THEN "read" ELSE "check",
                                         !.of = cached,
                                         !.due = DOMAIN srows # {} /\ ~dropping]
        BY <2>2 DEF S!search
      <3>2. To(y)
        BY <2>0, <3>1 DEF IsReader
      <3>3. Still
        BY <2>2 DEF S!search, S!Elsewhere
      <3> QED
        BY <2>1, <3>2, <3>3
    <2>3. CASE S!load_cell(r) \/ S!read(r)
      <3>1. To(S!Idle) /\ Still
        BY <2>0, <2>3 DEF S!load_cell, S!read, S!Elsewhere
      <3>2. PICK y : y = S!Idle
        OBVIOUS
      <3> QED
        BY <2>1, <3>1, <3>2
    <2>4. CASE S!check(r) \/ S!recheck(r) \/ S!after_build(r)
      <3>1. \/ S!Readiness(r, "check", "read", "gate")
            \/ S!Readiness(r, "recheck", "read", "capture")
            \/ S!Readiness(r, "after", "read", "read")
        BY <2>4 DEF S!check, S!recheck, S!after_build
      <3> QED
        BY <3>1, ReadinessKeeps
    <2>5. CASE S!cache_built(r)
      <3>1. PICK y : S!Goes(r, y) /\ y = [rd[r] EXCEPT !.pc = "read"]
        BY <2>5 DEF S!cache_built, S!At
      <3>2. /\ rd[r].pc = "cache" /\ late' = (late \/ rd[r].of # inc)
            /\ UNCHANGED <<h, inc, created, dropping>>
        BY <2>5 DEF S!cache_built, S!Elsewhere
      <3>3. IsReader(y) /\ y.pc = "read"
        BY <2>0, <3>1 DEF IsReader
      <3>4. ~late' => inc' # 0 /\ h'.ever_built
        <4> SUFFICES ASSUME ~late' PROVE inc # 0 /\ h.ever_built
          BY <3>2
        <4>1. rd[r].of = inc
          BY <3>2
        <4>2. rd[r].of \in 1..created /\ (rd[r].of = inc => h.ever_built)
          BY <3>2, Zenon DEF ServingInv, Carried
        <4>3. created \in Nat
          BY Zenon DEF ServingInv
        <4> QED
          BY <4>1, <4>2, <4>3
      <3>5. IsHandle(h)' /\ (h.ever_built => h'.ever_built) /\ Carried(y)'
        BY <3>2, <3>3 DEF ServingInv, IsHandle, Carried
      <3> QED
        BY <3>1, <3>2, <3>3, <3>4, <3>5, ReaderKeeps
    <2>6. CASE S!lock_gate(r)
      <3>1. PICK y : S!Goes(r, y) /\ y = [rd[r] EXCEPT !.pc = "recheck"]
        BY <2>6 DEF S!lock_gate, S!At
      <3>2. To(y) /\ Still
        BY <2>0, <2>6, <3>1 DEF IsReader, S!lock_gate, S!Elsewhere
      <3> QED
        BY <2>1, <3>2
    <2>7. CASE S!capture(r)
      <3>1. PICK y : /\ S!Goes(r, y)
                     /\ y = IF S!MustRebuild
                            THEN [rd[r] EXCEPT !.pc = "commit", !.of = inc, !.in = S!Captured]
                            ELSE [rd[r] EXCEPT !.pc = "after"]
        BY <2>7 DEF S!capture
      <3>2. To(y) /\ Still
        BY <2>0, <2>7, <3>1 DEF IsReader, S!capture, S!Elsewhere
      <3> QED
        BY <2>1, <3>2
    <2>8. CASE S!commit(r)
      <3>1. PICK y : /\ S!Goes(r, y)
                     /\ y = [rd[r] EXCEPT !.pc = IF S!StillStale(rd[r]) THEN "capture" ELSE "after",
                                          !.in = S!NoInputs]
        BY <2>8 DEF S!commit
      <3>2. S!Commit(rd[r]) /\ UNCHANGED <<inc, created, built, dropping, late>>
        BY <2>8 DEF S!commit, S!Elsewhere
      <3>3. IsReader(y) /\ y.pc # "cache"
        BY <2>0, <3>1 DEF IsReader
      <3>4. IsHandle(h') /\ (h.ever_built => h'.ever_built)
        BY <3>2, BuildsGrow DEF S!Commit, ServingInv
      <3>5. IsHandle(h)' /\ Carried(y)'
        BY <3>3, <3>4 DEF IsHandle, Carried
      <3>6. built' /\ ~dropping' /\ ~late' => inc' # 0 /\ h'.ever_built
        BY <3>2, <3>4 DEF ServingInv
      <3> QED
        BY <3>1, <3>2, <3>3, <3>4, <3>5, <3>6, ReaderKeeps
    <2> QED
      BY <1>8, <2>2, <2>3, <2>4, <2>5, <2>6, <2>7, <2>8 DEF S!Reader
  <1> QED
    BY <1>1, <1>2, <1>3, <1>4, <1>5, <1>6, <1>7, <1>8 DEF S!Next

\* A search never skips the first-build gate of a collection that was never built,
\* unless the readiness of a dropped one was cached late (ensure_index_built).
THEOREM GateHolds == ASSUME Kind \in S!Kinds PROVE S!Spec => []S!GateNotSkipped
  <1>1. S!Init => ServingInv
    BY ServingInit
  <1>2. ServingInv /\ [S!Next]_(S!vars) => ServingInv'
    BY ServingStep
  <1>3. ServingInv => S!GateNotSkipped
    BY DEF ServingInv, S!GateNotSkipped
  <1> QED
    BY <1>1, <1>2, <1>3, PTL DEF S!Spec

\* The cell a lock-free search answers from is the live collection's, except while
\* delete_collection is between its drop and its eviction (search_blocking).
THEOREM CellStaysLive == S!Spec => []S!CellIsLive
  <1>1. S!Init => S!CellIsLive
    BY DEF S!Init, S!CellIsLive
  <1>2. S!CellIsLive /\ [S!Next]_(S!vars) => S!CellIsLive'
    <2> SUFFICES ASSUME S!CellIsLive, [S!Next]_(S!vars) PROVE S!CellIsLive'
      OBVIOUS
    <2>1. CASE S!create_collection
      BY <2>1 DEF S!CellIsLive, S!create_collection
    <2>2. CASE S!drop_collection \/ S!evict
      BY <2>2 DEF S!CellIsLive, S!drop_collection, S!evict
    <2>3. CASE UNCHANGED <<inc, cached, dropping>>
      BY <2>3 DEF S!CellIsLive
    <2>4. ASSUME NEW e \in Ids, NEW v \in Vals, S!Upsert(e, v) \/ S!UpsertBulk(e, v)
          PROVE  S!CellIsLive'
      BY <2>4 DEF S!CellIsLive, S!Upsert, S!UpsertBulk, S!Written
    <2>5. ASSUME NEW e \in Ids, S!DeletePoint(e) PROVE S!CellIsLive'
      BY <2>5 DEF S!CellIsLive, S!DeletePoint, S!Written
    <2>6. CASE S!RunRebuild
      BY <2>6 DEF S!CellIsLive, S!RunRebuild, S!TaskCapture, S!TaskCommit, S!TaskEnd
    <2>7. ASSUME NEW r \in Readers, S!search(r) \/ S!Reader(r) PROVE S!CellIsLive'
      <3>1. CASE S!read(r)
        BY <3>1 DEF S!CellIsLive, S!read, S!Elsewhere
      <3>2. CASE ~S!read(r)
        BY <2>7, <3>2 DEF S!CellIsLive, S!search, S!Reader, S!load_cell, S!check, S!recheck, S!after_build,
           S!Readiness, S!cache_built, S!lock_gate, S!capture, S!commit, S!Elsewhere
      <3> QED
        BY <3>1, <3>2
    <2> QED
      BY <2>1, <2>2, <2>3, <2>4, <2>5, <2>6, <2>7 DEF S!Next, S!vars
  <1> QED
    BY <1>1, <1>2, PTL DEF S!Spec
=============================================================================

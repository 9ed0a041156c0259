--------------------------- MODULE StoreInvProofs ---------------------------
(***************************************************************************)
(* Every step of every operation, fault and recovery keeps StoreInv: the   *)
(* types hold, and what the manifest in force references is on disk.  From *)
(* it: an index snapshot the manifest references is of the very checkpoint *)
(* the log is replayed from, and, as long as no swap of CURRENT reports an *)
(* error after it happened, the file CURRENT names is never rewritten.     *)
(***************************************************************************)
EXTENDS StoreFacts

-----------------------------------------------------------------------------
(* The operators that only these proofs meet.                              *)

\* Updating a map in place.
LEMMA UpdateProperties ==
  ASSUME NEW f, NEW K, NEW V, IsMap(f, K, V), NEW k, NEW v, k \in DOMAIN f => v \in V
  PROVE  /\ IsMap([f EXCEPT ![k] = v], K, V)
         /\ DOMAIN [f EXCEPT ![k] = v] = DOMAIN f
  BY DEF MapOn, IsMap

\* A new collection is well formed and has nothing sealed.
LEMMA NewCollType ==
  ASSUME NEW n \in Names
  PROVE  IsColl(NewColl(n)) /\ NewColl(n).segs = << >> /\ NewColl(n).snap = {}
<1>1. Image(<< >>) = {}
  BY DEF Image
<1> QED
  BY <1>1, EmptyMapProperties DEF NewColl, IsColl

\* Applying a record keeps the collections well formed and touches no segment
\* list and no snapshot reference; a created collection has neither.
LEMMA AppliedCollsType ==
  ASSUME NEW cs, CollsOK(cs), NEW e \in Frame
  PROVE  /\ CollsOK(AppliedColls(cs, e))
         /\ \A c \in DOMAIN AppliedColls(cs, e) :
              LET d == AppliedColls(cs, e)[c]
              IN  \/ d.segs = << >> /\ d.snap = {}
                  \/ c \in DOMAIN cs /\ d.segs = cs[c].segs /\ d.snap = cs[c].snap
<1>1. CASE e.op = "create"
  <2>1. e.cid \in Nat /\ e.name \in Names
    BY <1>1 DEF Frame
  <2> DEFINE new == NewColl(e.name)
  <2>2. AppliedColls(cs, e) = Put(cs, e.cid, new)
    BY <1>1 DEF AppliedColls
  <2>3. IsColl(new) /\ new.segs = << >> /\ new.snap = {}
    BY <2>1, NewCollType
  <2> HIDE DEF new
  <2>4. /\ DOMAIN Put(cs, e.cid, new) = DOMAIN cs \cup {e.cid}
        /\ Put(cs, e.cid, new)[e.cid] = new
        /\ \A x \in DOMAIN cs : x # e.cid => Put(cs, e.cid, new)[x] = cs[x]
    BY DEF Put
  <2>5. MapOn(Put(cs, e.cid, new), Nat)
    BY <2>1, PutMapOn DEF CollsOK
  <2> QED
    BY <2>2, <2>3, <2>4, <2>5 DEF CollsOK
<1>2. CASE e.op = "drop"
  <2>1. AppliedColls(cs, e) = Without(cs, {e.cid})
    BY <1>2 DEF AppliedColls
  <2>2. /\ DOMAIN Without(cs, {e.cid}) = DOMAIN cs \ {e.cid}
        /\ \A x \in DOMAIN cs \ {e.cid} : Without(cs, {e.cid})[x] = cs[x]
    BY WithoutProperties, Zenon
  <2>3. MapOn(Without(cs, {e.cid}), Nat)
    BY WithoutMapOn DEF CollsOK
  <2> QED
    BY <2>1, <2>2, <2>3, Zenon DEF CollsOK
<1>3. CASE e.op = "upsert"
  <2>1. e.id \in Ids /\ e.val \in Vals
    BY <1>3 DEF Frame
  <2>2. AppliedColls(cs, e) =
          [c \in DOMAIN cs |-> IF c = e.cid THEN ApplyUpsert(c, cs[c], e.id, e.val) ELSE cs[c]]
    BY <1>3 DEF AppliedColls
  <2> QED
    BY <2>1, <2>2, ApplyUpsertType DEF CollsOK, MapOn
<1>4. CASE e.op = "delete"
  <2>1. e.id \in Ids
    BY <1>4 DEF Frame
  <2>2. AppliedColls(cs, e) =
          [c \in DOMAIN cs |-> IF c = e.cid THEN ApplyDelete(c, cs[c], e.id) ELSE cs[c]]
    BY <1>4 DEF AppliedColls
  <2> QED
    BY <2>1, <2>2, ApplyDeleteType DEF CollsOK, MapOn
<1> QED
  BY <1>1, <1>2, <1>3, <1>4 DEF Frame

\* Applying a record keeps the name index typed.
LEMMA AppliedNamesType ==
  ASSUME NEW cs, NEW ns, IsMap(ns, Names, Nat), NEW e \in Frame
  PROVE  IsMap(AppliedNames(cs, ns, e), Names, Nat)
<1>1. CASE e.op = "create"
  <2>1. e.cid \in Nat /\ e.name \in Names
    BY <1>1 DEF Frame
  <2> QED
    BY <1>1, <2>1, PutIsMap DEF AppliedNames
<1>2. CASE e.op = "drop"
  BY <1>2, WithoutIsMap DEF AppliedNames
<1>3. CASE e.op \in {"upsert", "delete"}
  BY <1>3 DEF AppliedNames
<1> QED
  BY <1>1, <1>2, <1>3 DEF Frame

\* Issuing or completing an operation keeps the ghost well formed.
LEMMA GhostType ==
  ASSUME NEW f \in FirmType, NEW n, NEW e \in Frame
  PROVE  Issued(f, n, e) \in FirmType /\ Completed(f, n, e) \in FirmType
<1>1. CASE e.op = "create"
  BY <1>1, Zenon DEF Issued, Completed, FirmType
<1>2. CASE e.op = "drop"
  BY <1>2, Zenon DEF Issued, Completed, FirmType
<1>3. CASE e.op = "upsert"
  <2>1. e.val \in Vals
    BY <1>3 DEF Frame
  <2> QED
    BY <1>3, <2>1, Zenon DEF Issued, Completed, FirmType
<1>4. CASE e.op = "delete"
  BY <1>4, Zenon DEF Issued, Completed, FirmType
<1> QED
  BY <1>1, <1>2, <1>3, <1>4 DEF Frame

-----------------------------------------------------------------------------
(* The initial states.                                                     *)

\* A new data directory satisfies the invariant.
LEMMA InitInv == Init => StoreInv
<1> SUFFICES ASSUME Init PROVE StoreInv
  OBVIOUS
<1>1. TypeOK
  BY EmptyMapProperties, NoJobType DEF Init, TypeOK, NoCtr
<1>2. JobInv
  <2>1. pc = "down" /\ DOMAIN wal = {}
    BY EmptyMapProperties DEF Init
  <2>2. DOMAIN job.new = {} /\ job.snaps = {} /\ job.cq = {}
    BY NoJobType DEF Init, NoJob
  <2>3. Bounded(DOMAIN wal)
    BY <2>1 DEF Bounded
  <2> QED
    BY <2>1, <2>2, <2>3 DEF JobInv
<1>3. FilesInv
  BY EmptyMapProperties, NoJobType DEF Init, FilesInv, NoJob
<1> QED
  BY <1>1, <1>2, <1>3 DEF StoreInv

-----------------------------------------------------------------------------
(* Mutations.                                                              *)

\* The records the idle engine writes are WAL records.
LEMMA FramesType ==
  ASSUME StoreInv, pc = "idle"
  PROVE  /\ \A n \in Names : CreateFrame(ctr.lsn, ctr.cid, n) \in Frame
         /\ \A n \in DOMAIN nameIndex : DropFrame(ctr.lsn, nameIndex[n]) \in Frame
         /\ \A l \in Nat, c \in DOMAIN colls, id \in Ids, v \in Vals :
              UpsertFrame(l, c, id, v) \in Frame
         /\ \A c \in DOMAIN colls, id \in Ids : DeleteFrame(ctr.lsn, c, id) \in Frame
  BY DEF StoreInv, TypeOK, MapOn, IsMap, Frame, CreateFrame, DropFrame, UpsertFrame,
         DeleteFrame

\* Every WAL record has an LSN and a collection.
LEMMA FrameFields == ASSUME NEW e \in Frame PROVE e.lsn \in Nat /\ e.cid \in Nat
  BY DEF Frame

\* Appending the records of a call to the WAL keeps the invariant.
LEMMA BeginInv ==
  ASSUME StoreInv, pc = "idle",
         NEW frames \in Seq(Frame), frames # << >>, NEW n \in Names,
         NEW shred \in SUBSET Nat, Begin(frames, n, shred),
         keys' \subseteq Nat, firm' \in FirmType, ctr' \in CtrType,
         ctr'.lsn > 0, ctr'.version = ctr.version
  PROVE  StoreInv'
<1>1. IsJob(job')
  <2>1. job' = [NoJob EXCEPT !.batch = frames, !.name = {n}, !.shred = shred]
    BY Zenon DEF Begin
  <2>2. {n} \in SUBSET Names
    OBVIOUS
  <2>3. IsJob(NoJob)
    BY NoJobType
  <2>4. /\ job'.batch = frames /\ job'.name = {n} /\ job'.shred = shred
        /\ job'.new = NoJob.new /\ job'.blobs = NoJob.blobs
    BY <2>1, Zenon DEF NoJob
  <2>5. IsMap(job'.new, Nat, Nat) /\ IsMap(job'.blobs, Nat, Blobs)
    BY <2>3, <2>4, Zenon DEF IsJob
  <2> QED
    BY <2>1, <2>2, <2>3, <2>4, <2>5, Zenon DEF IsJob
<1>2. wal[ctr.walSeq] \o frames \in Seq(Frame \cup {TornFrame}) \/ ctr.walSeq \notin DOMAIN wal
  <2>1. frames \in Seq(Frame \cup {TornFrame})
    OBVIOUS
  <2>2. ctr.walSeq \in DOMAIN wal => wal[ctr.walSeq] \in Seq(Frame \cup {TornFrame})
    BY Zenon DEF StoreInv, TypeOK, IsMap
  <2> QED
    BY <2>1, <2>2
<1>3. IsMap(wal', Nat, Seq(Frame \cup {TornFrame})) /\ DOMAIN wal' = DOMAIN wal
  BY <1>2, UpdateProperties, Zenon DEF Begin, StoreInv, TypeOK
<1>4. TypeOK'
  BY <1>1, <1>3, Zenon DEF Begin, StoreInv, TypeOK, FirmType, CtrType
<1>5. JobInv'
  BY <1>3, NoJobType DEF Begin, StoreInv, JobInv, NoJob
<1>6. FilesInv'
  BY NoJobType DEF Begin, StoreInv, FilesInv, OnDisk, NoJob
<1> QED
  BY <1>4, <1>5, <1>6 DEF StoreInv

\* So does appending the single record of a create, drop, upsert or delete.
LEMMA OneFrameInv ==
  ASSUME StoreInv, pc = "idle", NEW e \in Frame, NEW n \in Names,
         NEW shred \in SUBSET Nat, Begin(<<e>>, n, shred),
         keys' \subseteq Nat, firm' = Issued(firm, n, e), ctr' = ctr
  PROVE  StoreInv'
<1>1. <<e>> \in Seq(Frame) /\ <<e>> # << >>
  OBVIOUS
<1>2. firm' \in FirmType
  BY GhostType, Zenon DEF StoreInv, TypeOK, FirmType
<1>3. ctr' \in CtrType /\ ctr'.lsn > 0 /\ ctr'.version = ctr.version
  BY DEF StoreInv, TypeOK, JobInv, CtrType
<1> DEFINE frames == <<e>>
<1>4. Begin(frames, n, shred) /\ frames \in Seq(Frame) /\ frames # << >>
  BY <1>1
<1> HIDE DEF frames
<1> QED
  BY <1>2, <1>3, <1>4, BeginInv

\* Every call of the write API keeps the invariant up to its fsync.
LEMMA MutateInv == StoreInv /\ Mutate => StoreInv'
<1> SUFFICES ASSUME StoreInv, Mutate PROVE StoreInv'
  OBVIOUS
<1>1. firm \in FirmType /\ ctr \in CtrType /\ keys \subseteq Nat /\ ctr.lsn \in Nat /\ ctr.cid \in Nat
  BY DEF StoreInv, TypeOK, FirmType, CtrType
<1>2. DOMAIN nameIndex \subseteq Names /\ \A cid \in DOMAIN colls : colls[cid].name \in Names
  BY CollFacts, Zenon DEF StoreInv, TypeOK, IsMap, CollsOK, MapOn, IsColl
<1>3. ASSUME NEW n \in Names, CreateCollection(n) PROVE StoreInv'
  <2> DEFINE e == CreateFrame(ctr.lsn, ctr.cid, n)
  <2>1. pc = "idle" /\ Begin(<<e>>, n, {}) /\ keys' = Provisioned(ctr.cid)
          /\ firm' = Issued(firm, n, e) /\ ctr' = ctr
    BY <1>3 DEF CreateCollection
  <2>2. e \in Frame
    BY <2>1, FramesType
  <2> HIDE DEF e
  <2>3. keys' \subseteq Nat
    BY <1>1, <2>1, Zenon DEF Provisioned
  <2> QED
    BY <1>1, <2>1, <2>2, <2>3, OneFrameInv
<1>4. ASSUME NEW n \in DOMAIN nameIndex, NEW shred \in SUBSET Nat, DropWith(n, shred)
      PROVE  StoreInv'
  <2> DEFINE e == DropFrame(ctr.lsn, nameIndex[n])
  <2>1. pc = "idle" /\ Begin(<<e>>, n, shred) /\ keys' = keys
          /\ firm' = Issued(firm, n, e) /\ ctr' = ctr
    BY <1>4 DEF DropWith
  <2>2. e \in Frame
    BY <2>1, FramesType
  <2> HIDE DEF e
  <2> QED
    BY <1>1, <1>2, <2>1, <2>2, OneFrameInv
<1>5. ASSUME NEW n \in DOMAIN nameIndex, DropCollection(n) \/ ShredCollection(n)
      PROVE  StoreInv'
  <2>1. {nameIndex[n]} \in SUBSET Nat
    BY DEF StoreInv, TypeOK, IsMap
  <2> QED
    BY <1>4, <1>5, <2>1 DEF DropCollection, ShredCollection
<1>6. ASSUME NEW cid \in DOMAIN colls, NEW id \in Ids, Delete(cid, id) PROVE StoreInv'
  <2> DEFINE e == DeleteFrame(ctr.lsn, cid, id)
             n == colls[cid].name
  <2>1. pc = "idle" /\ Begin(<<e>>, n, {}) /\ keys' = keys
          /\ firm' = Issued(firm, n, e) /\ ctr' = ctr
    BY <1>6 DEF Delete
  <2>2. e \in Frame
    BY <2>1, FramesType
  <2>3. n \in Names
    BY <1>2
  <2> HIDE DEF e, n
  <2> QED
    BY <1>1, <2>1, <2>2, <2>3, OneFrameInv
<1>7. ASSUME NEW cid \in DOMAIN colls, NEW id \in Ids, NEW v \in Vals, Upsert(cid, id, v)
      PROVE  StoreInv'
  <2> DEFINE e == UpsertFrame(ctr.lsn, cid, id, v)
             n == colls[cid].name
  <2>1. pc = "idle" /\ Begin(<<e>>, n, {}) /\ keys' = keys
          /\ firm' = Issued(firm, n, e) /\ ctr' = ctr
    BY <1>7 DEF Upsert
  <2>2. e \in Frame
    BY <1>1, <2>1, FramesType
  <2>3. n \in Names
    BY <1>2
  <2> HIDE DEF e, n
  <2> QED
    BY <1>1, <2>1, <2>2, <2>3, OneFrameInv
<1>8. ASSUME NEW cid \in DOMAIN colls, NEW rows \in Batches, UpsertBatch(cid, rows)
      PROVE  StoreInv'
  <2> DEFINE frames == [i \in DOMAIN rows |->
                          UpsertFrame(ctr.lsn + i - 1, cid, rows[i][1], rows[i][2])]
  <2>1. PICK k \in 2..MaxBatch : rows \in [1..k -> Ids \X Vals]
    BY DEF Batches
  <2>2. Len(rows) = k /\ DOMAIN rows = 1..k /\ k \in Nat /\ k > 1
    BY <2>1, StoreAssumption, SMTT(60) DEF StoreAssumption
  <2>3. /\ pc = "idle" /\ Begin(frames, colls[cid].name, {}) /\ keys' = keys
        /\ ctr' = [ctr EXCEPT !.lsn = @ + Len(rows)]
        /\ firm' \in FirmType
    <3> DEFINE ids == {rows[i][1] : i \in DOMAIN rows}
               n   == colls[cid].name
    <3>1. /\ pc = "idle" /\ Begin(frames, n, {}) /\ keys' = keys
          /\ ctr' = [ctr EXCEPT !.lsn = @ + Len(rows)]
          /\ firm' = [firm EXCEPT ![n].rows =
                        [id \in Ids |-> IF id \in ids THEN Maybe ELSE @[id]]]
      BY <1>8, Zenon DEF UpsertBatch
    <3> HIDE DEF ids, n
    <3>2. firm' \in FirmType
      BY <1>1, <3>1, Zenon DEF FirmType
    <3> QED
      BY <3>1, <3>2, Zenon DEF n
  <2>4. \A i \in 1..k : UpsertFrame(ctr.lsn + i - 1, cid, rows[i][1], rows[i][2]) \in Frame
    <3> TAKE i \in 1..k
    <3>1. ctr.lsn + i - 1 \in Nat /\ rows[i][1] \in Ids /\ rows[i][2] \in Vals
      BY <1>1, <2>1, <2>2
    <3> QED
      BY <3>1, <2>3, FramesType
  <2>5. frames \in Seq(Frame) /\ frames # << >>
    BY <2>2, <2>4
  <2> HIDE DEF frames
  <2>6. ctr' \in CtrType /\ ctr'.lsn > 0 /\ ctr'.version = ctr.version
    BY <1>1, <2>2, <2>3, SMTT(60) DEF CtrType, StoreInv, JobInv
  <2>7. colls[cid].name \in Names /\ {} \in SUBSET Nat
    BY <1>2
  <2> QED
    BY <1>1, <1>2, <2>3, <2>5, <2>6, <2>7, BeginInv, Zenon
<1> QED
  BY <1>3, <1>5, <1>6, <1>7, <1>8 DEF Mutate

\* The fsync of the WAL keeps the invariant.
LEMMA SyncWalInv == StoreInv /\ SyncWal => StoreInv'
<1> SUFFICES ASSUME StoreInv, SyncWal PROVE StoreInv'
  OBVIOUS
<1>1. job.batch \in Seq(Frame) /\ job.batch # << >>
  BY DEF StoreInv, TypeOK, JobInv, IsJob, SyncWal
<1>2. job.batch[Len(job.batch)] \in Frame
  BY <1>1
<1>3. job.batch[Len(job.batch)].lsn + 1 \in Nat \ {0}
  <2>1. job.batch[Len(job.batch)].lsn \in Nat
    BY <1>2, FrameFields, Zenon
  <2>2. \A x \in Nat : x + 1 \in Nat \ {0}
    OBVIOUS
  <2> QED
    BY <2>1, <2>2, Zenon
<1>4. ctr.walSeq \in DOMAIN wal => Len(wal[ctr.walSeq]) \in Nat
  BY DEF StoreInv, TypeOK, IsMap
<1>5. IsMap(synced', Nat, Nat) /\ DOMAIN synced' = DOMAIN synced
  BY <1>4, UpdateProperties, Zenon DEF StoreInv, TypeOK, SyncWal
<1>6. TypeOK'
  BY <1>3, <1>5, Zenon DEF StoreInv, TypeOK, SyncWal
<1>7. JobInv'
  <2>1. ctr'.lsn > 0
    BY <1>3, TypeFacts DEF CtrType, SyncWal
  <2>2. job.batch # << >> /\ job.cq = {} /\ DOMAIN job.new = {} /\ job.snaps = {}
    BY DEF StoreInv, JobInv, SyncWal
  <2> QED
    BY <2>1, <2>2 DEF StoreInv, JobInv, SyncWal
<1>8. FilesInv'
  BY Zenon DEF StoreInv, TypeOK, FilesInv, OnDisk, SyncWal
<1> QED
  BY <1>6, <1>7, <1>8 DEF StoreInv

\* Applying a durable record to memory keeps the invariant: no record names a
\* segment or an index snapshot that memory did not name.
LEMMA ApplyFrameInv == StoreInv /\ ApplyFrame => StoreInv'
<1> SUFFICES ASSUME StoreInv, ApplyFrame PROVE StoreInv'
  OBVIOUS
<1> DEFINE e == Head(job.batch)
           n == CHOOSE n \in job.name : TRUE
<1>1. job.batch \in Seq(Frame) /\ job.batch # << >>
  BY DEF StoreInv, TypeOK, JobInv, IsJob, ApplyFrame
<1>2. e \in Frame /\ SubSeq(job.batch, 2, Len(job.batch)) \in Seq(Frame)
        /\ Len(SubSeq(job.batch, 2, Len(job.batch))) = Len(job.batch) - 1
  BY <1>1
<1>3. CollsOK(colls) /\ IsMap(nameIndex, Names, Nat)
  BY DEF StoreInv, TypeOK, CollsOK
<1>4. CollsOK(AppliedColls(colls, e)) /\ IsMap(AppliedNames(colls, nameIndex, e), Names, Nat)
        /\ IsMap(Without(nameIndex, {n}), Names, Nat)
  BY <1>2, <1>3, AppliedCollsType, AppliedNamesType, WithoutIsMap, Zenon
<1>5. /\ pc = "apply"
      /\ colls' = AppliedColls(colls, e)
      /\ \/ nameIndex' = AppliedNames(colls, nameIndex, e)
         \/ nameIndex' = Without(nameIndex, {n})
      /\ ctr' = (IF e.op = "create" THEN [ctr EXCEPT !.cid = @ + 1] ELSE ctr)
      /\ firm' = firm \/ firm' = Completed(firm, n, e)
      /\ job' = [job EXCEPT !.batch = SubSeq(job.batch, 2, Len(job.batch))]
      /\ pc' = (IF Len(job.batch) > 1 THEN "apply"
                ELSE IF job.shred = {} THEN "idle" ELSE "checkpoint")
      /\ UNCHANGED <<disk, faults>>
  BY DEF ApplyFrame
<1>6. firm' \in FirmType
  BY <1>2, <1>5, TypeFacts, GhostType
<1>7. \A c \in DOMAIN colls' : OnDisk(c, colls'[c])
  <2> SUFFICES ASSUME NEW c \in DOMAIN colls' PROVE OnDisk(c, colls'[c])
    OBVIOUS
  <2>1. \/ colls'[c].segs = << >> /\ colls'[c].snap = {}
        \/ c \in DOMAIN colls /\ colls'[c].segs = colls[c].segs /\ colls'[c].snap = colls[c].snap
    BY <1>2, <1>3, <1>5, AppliedCollsType
  <2>2. CASE colls'[c].segs = << >> /\ colls'[c].snap = {}
    BY <2>2 DEF OnDisk, Image
  <2> QED
    BY <2>1, <2>2 DEF StoreInv, FilesInv, OnDisk
<1> HIDE DEF e, n
<1>8. ctr' \in CtrType /\ ctr'.lsn = ctr.lsn /\ ctr'.version = ctr.version
  BY <1>5, TypeFacts DEF CtrType
<1>9. IsJob(job') /\ job'.batch = SubSeq(job.batch, 2, Len(job.batch))
  BY <1>2, <1>5, TypeFacts, Zenon DEF IsJob
<1>10. TypeOK'
  BY <1>4, <1>5, <1>6, <1>8, <1>9, Zenon DEF StoreInv, TypeOK, CollsOK, FirmType, CtrType, disk
<1>11. JobInv'
  <2>0. Len(job'.batch) = Len(job.batch) - 1 /\ Len(job.batch) \in Nat
    BY <1>1, <1>2, <1>9
  <2>1. Len(job.batch) > 1 => job'.batch # << >>
    BY <2>0
  <2>2. job.cq = {} /\ DOMAIN job.new = {} /\ job.snaps = {}
    BY <1>5 DEF StoreInv, JobInv
  <2> QED
    BY <1>5, <1>8, <2>1, <2>2, Zenon DEF StoreInv, TypeOK, IsJob, JobInv, disk
<1>12. FilesInv'
  <2>1. DOMAIN job'.new = {} /\ job'.snaps = {}
    BY <1>5, Zenon DEF StoreInv, TypeOK, IsJob, JobInv
  <2>2. pc' \notin {"replay", "rotate", "trim", "gc"}
    BY <1>5
  <2> QED
    BY <1>5, <1>7, <2>1, <2>2, Zenon DEF StoreInv, FilesInv, OnDisk, disk
<1> QED
  BY <1>10, <1>11, <1>12 DEF StoreInv

-----------------------------------------------------------------------------
(* Checkpoint.                                                             *)

\* Starting a checkpoint keeps the invariant.
LEMMA CheckpointInv ==
  ASSUME StoreInv, NEW blobs, IsMap(blobs, Nat, Blobs), Checkpoint(blobs)
  PROVE  StoreInv'
<1>1. CollsOK(colls) /\ IsJob(job)
  BY TypeFacts
<1>2. \A c \in Pending : c \in Nat /\ c \in DOMAIN colls /\ IsColl(colls[c])
  BY <1>1 DEF Pending, CollsOK, MapOn
<1> DEFINE ds == UNION {{<<c, r[1]>> : r \in colls[c].win} : c \in Pending}
<1>3. \A d \in ds : d[1] \in DOMAIN colls /\ d[2] \in DOMAIN colls[d[1]].dead
  BY <1>2 DEF IsColl
<1>4. ds \in SUBSET (Nat \X Nat)
  <2>1. \A c \in Pending : \A r \in colls[c].win : r[1] \in Nat
    BY <1>2, CollFacts
  <2> QED
    BY <1>2, <2>1
<1>5. /\ pc' = "seal" /\ pc \in {"idle", "checkpoint"} /\ UNCHANGED <<disk, mem, firm, faults>>
      /\ job' = [NoJob EXCEPT !.shred = job.shred, !.todo = Pending, !.dels = ds, !.blobs = blobs]
  BY DEF Checkpoint
<1> HIDE DEF ds
<1>6. IsJob(job') /\ DOMAIN job'.new = {} /\ job'.snaps = {} /\ job'.cq = {}
        /\ job'.todo = Pending /\ job'.dels = ds
  <2>1. Pending \in SUBSET Nat /\ job.shred \in SUBSET Nat
    BY <1>1, <1>2 DEF IsJob
  <2>2. DOMAIN EmptyMap = {} /\ IsMap(EmptyMap, Nat, Nat)
    BY EmptyMapProperties
  <2>3. job' = [batch |-> << >>, name |-> {}, rest |-> {}, trim |-> {}, dels |-> ds, todo |-> Pending,
                new |-> EmptyMap, blobs |-> blobs, snaps |-> {}, cq |-> {},
                shred |-> job.shred, opening |-> FALSE]
    BY <1>5, Zenon DEF NoJob
  <2>4. << >> \in Seq(Frame)
    OBVIOUS
  <2> QED
    BY <1>4, <2>1, <2>2, <2>3, <2>4 DEF IsJob
<1>7. TypeOK'
  BY <1>5, <1>6 DEF StoreInv, TypeOK, disk, mem
<1>8. JobInv'
  BY <1>2, <1>3, <1>5, <1>6, Zenon DEF StoreInv, JobInv, disk, mem
<1>9. FilesInv'
  BY <1>5, <1>6 DEF StoreInv, FilesInv, OnDisk, disk, mem
<1> QED
  BY <1>7, <1>8, <1>9 DEF StoreInv

\* Writing the .del file of one segment keeps the invariant.
LEMMA WriteDelInv == StoreInv /\ WriteDel => StoreInv'
<1> SUFFICES ASSUME StoreInv, WriteDel PROVE StoreInv'
  OBVIOUS
<1> DEFINE cid  == Least(job.todo)
           mine == {d \in job.dels : d[1] = cid}
           s    == Least({d[2] : d \in mine})
           dead == colls[cid].dead[s] \cup {r[2] : r \in {w \in colls[cid].win : w[1] = s}}
<1>1. /\ pc = "seal" /\ job.todo # {} /\ mine # {}
      /\ dirs' = dirs \cup {cid}
      /\ dels' = Put(dels, <<cid, s>>, dead)
      /\ job' = [job EXCEPT !.dels = @ \ {<<cid, s>>}]
      /\ UNCHANGED <<manifest, wal, synced, segs, idx, keys, mem, pc, firm, faults>>
  BY DEF WriteDel, Sealing
<1>2. IsJob(job) /\ CollsOK(colls)
  BY TypeFacts
<1>3. cid \in job.todo /\ cid \in Nat /\ cid \in DOMAIN colls
  <2>1. job.todo \in SUBSET Nat /\ job.todo \subseteq DOMAIN colls
    BY <1>1, <1>2 DEF StoreInv, JobInv, IsJob
  <2> QED
    BY <1>1, <2>1, LeastProperties
<1> HIDE DEF cid
<1>4. {d[2] : d \in mine} \in SUBSET Nat /\ {d[2] : d \in mine} # {}
  BY <1>1, <1>2 DEF IsJob
<1>5. s \in {d[2] : d \in mine}
  BY <1>4, LeastProperties, Zenon
<1>6. s \in Nat /\ s \in DOMAIN colls[cid].dead
  BY <1>1, <1>4, <1>5 DEF StoreInv, JobInv
<1> HIDE DEF s, mine
<1>7. dead \in SUBSET Ids
  <2>1. IsColl(colls[cid])
    BY <1>2, <1>3 DEF CollsOK
  <2> QED
    BY <1>6, <2>1, CollFacts
<1> HIDE DEF dead
<1>8. IsMap(dels', Nat \X Nat, SUBSET Ids)
  BY <1>1, <1>3, <1>6, <1>7, PutIsMap, Zenon DEF StoreInv, TypeOK
<1>9. IsJob(job') /\ job' = [job EXCEPT !.dels = job'.dels] /\ job'.dels \subseteq job.dels
  BY <1>1, <1>2, Zenon DEF IsJob
<1>10. TypeOK'
  BY <1>1, <1>3, <1>8, <1>9, Zenon DEF StoreInv, TypeOK, mem
<1>11. JobInv'
  BY <1>1, <1>2, <1>9 DEF StoreInv, JobInv, IsJob, mem
<1>12. FilesInv'
  BY <1>1, <1>2, <1>9 DEF StoreInv, FilesInv, OnDisk, IsJob, mem
<1> QED
  BY <1>10, <1>11, <1>12 DEF StoreInv

\* Sealing one active buffer keeps the invariant: the file is written under
\* the segment id the checkpoint will commit.
LEMMA SealActiveInv == StoreInv /\ SealActive => StoreInv'
<1> SUFFICES ASSUME StoreInv, SealActive PROVE StoreInv'
  OBVIOUS
<1> DEFINE cid == Least(job.todo)
           act == colls[cid].active
<1>1. /\ pc = "seal" /\ job.todo # {} /\ dirs' = dirs \cup {cid}
      /\ \/ /\ job' = [job EXCEPT !.todo = @ \ {cid}]
            /\ UNCHANGED <<segs, ctr>>
         \/ /\ segs' = Put(segs, <<cid, ctr.seg>>, act)
            /\ ctr' = [ctr EXCEPT !.seg = @ + 1]
            /\ job' = [job EXCEPT !.todo = @ \ {cid}, !.new = Put(@, cid, ctr.seg)]
      /\ UNCHANGED <<manifest, wal, synced, dels, idx, keys, colls, nameIndex, pc, firm, faults>>
  BY DEF SealActive, Sealing
<1>2. IsJob(job) /\ CollsOK(colls) /\ ctr \in CtrType /\ ctr.lsn > 0
  BY <1>1, TypeFacts
<1>3. cid \in Nat /\ cid \in DOMAIN colls
  <2>1. job.todo \in SUBSET Nat /\ job.todo \subseteq DOMAIN colls
    BY <1>1, <1>2 DEF StoreInv, JobInv, IsJob
  <2> QED
    BY <1>1, <2>1, LeastProperties
<1> HIDE DEF cid
<1>4. IsMap(act, Ids, Vals)
  BY <1>2, <1>3, CollFacts DEF CollsOK
<1> HIDE DEF act
<1>5. MapOn(segs, Nat \X Nat) /\ \A f \in DOMAIN segs : IsMap(segs[f], Ids, Vals)
  BY DEF StoreInv, TypeOK
<1>6. /\ MapOn(segs', Nat \X Nat) /\ \A f \in DOMAIN segs' : IsMap(segs'[f], Ids, Vals)
      /\ DOMAIN segs \subseteq DOMAIN segs'
  <2>1. CASE segs' = segs
    BY <1>5, <2>1
  <2>2. CASE segs' = Put(segs, <<cid, ctr.seg>>, act)
    <3>1. <<cid, ctr.seg>> \in Nat \X Nat
      BY <1>2, <1>3 DEF CtrType
    <3>2. MapOn(segs', Nat \X Nat)
      BY <1>5, <2>2, <3>1, PutMapOn
    <3> QED
      BY <1>4, <1>5, <2>2, <3>2 DEF Put
  <2> QED
    BY <1>1, <2>1, <2>2
<1>7. ctr' \in CtrType /\ ctr'.lsn = ctr.lsn /\ ctr'.version = ctr.version
  BY <1>1, <1>2 DEF CtrType
<1>8. /\ IsJob(job') /\ job'.todo \subseteq job.todo /\ job'.dels = job.dels
      /\ job'.cq = job.cq /\ job'.snaps = job.snaps
      /\ \A c \in DOMAIN job'.new : <<c, job'.new[c]>> \in DOMAIN segs'
  <2>1. \A c \in DOMAIN job.new : <<c, job.new[c]>> \in DOMAIN segs
    BY DEF StoreInv, FilesInv
  <2>2. CASE job' = [job EXCEPT !.todo = @ \ {cid}]
    BY <1>2, <1>6, <2>1, <2>2, Zenon DEF IsJob
  <2>3. CASE /\ job' = [job EXCEPT !.todo = @ \ {cid}, !.new = Put(@, cid, ctr.seg)]
             /\ segs' = Put(segs, <<cid, ctr.seg>>, act)
    <3>1. IsMap(Put(job.new, cid, ctr.seg), Nat, Nat)
      BY <1>2, <1>3, PutIsMap, Zenon DEF IsJob, CtrType
    <3>2. \A c \in DOMAIN Put(job.new, cid, ctr.seg) :
            <<c, Put(job.new, cid, ctr.seg)[c]>> \in DOMAIN segs'
      BY <2>1, <2>3 DEF Put
    <3> QED
      BY <1>2, <2>3, <3>1, <3>2, Zenon DEF IsJob
  <2> QED
    BY <1>1, <2>2, <2>3
<1>9. TypeOK'
  BY <1>1, <1>3, <1>6, <1>7, <1>8, Zenon DEF StoreInv, TypeOK, CtrType
<1>10. JobInv'
  BY <1>1, <1>2, <1>7, <1>8, Zenon DEF StoreInv, JobInv
<1>11. FilesInv'
  BY <1>1, <1>6, <1>7, <1>8 DEF StoreInv, FilesInv, OnDisk
<1> QED
  BY <1>9, <1>10, <1>11 DEF StoreInv

\* Writing one index snapshot keeps the invariant: the file carries the version
\* the checkpoint will commit.
LEMMA WriteIndexSnapshotInv == StoreInv /\ WriteIndexSnapshot => StoreInv'
<1> SUFFICES ASSUME StoreInv, WriteIndexSnapshot PROVE StoreInv'
  OBVIOUS
<1> DEFINE cid == Least(DOMAIN job.blobs)
<1>1. /\ pc = "seal" /\ DOMAIN job.blobs # {} /\ dirs' = dirs \cup {cid}
      /\ idx' = Put(idx, <<cid, ctr.version + 1>>, job.blobs[cid])
      /\ job' = [job EXCEPT !.blobs = Without(@, {cid}), !.snaps = @ \cup {cid}]
      /\ UNCHANGED <<manifest, wal, synced, segs, dels, keys, mem, pc, firm, faults>>
  BY DEF WriteIndexSnapshot
<1>2. IsJob(job) /\ ctr \in CtrType
  BY TypeFacts
<1>3. cid \in Nat /\ cid \in DOMAIN job.blobs /\ job.blobs[cid] \in Blobs
  <2>1. DOMAIN job.blobs \in SUBSET Nat /\ \A c \in DOMAIN job.blobs : job.blobs[c] \in Blobs
    BY <1>2 DEF IsJob, IsMap, MapOn
  <2> QED
    BY <1>1, <2>1, LeastProperties
<1> HIDE DEF cid
<1>4. <<cid, ctr.version + 1>> \in Nat \X Nat
  BY <1>2, <1>3 DEF CtrType
<1>5. IsMap(idx', Nat \X Nat, Blobs) /\ DOMAIN idx' = DOMAIN idx \cup {<<cid, ctr.version + 1>>}
  <2>1. IsMap(idx, Nat \X Nat, Blobs)
    BY DEF StoreInv, TypeOK
  <2>2. IsMap(Put(idx, <<cid, ctr.version + 1>>, job.blobs[cid]), Nat \X Nat, Blobs)
    BY <1>3, <1>4, <2>1, PutIsMap
  <2> QED
    BY <1>1, <2>2 DEF Put
<1>6. /\ IsJob(job') /\ job'.snaps = job.snaps \cup {cid} /\ job'.todo = job.todo
      /\ job'.dels = job.dels /\ job'.cq = job.cq /\ job'.new = job.new
  <2>1. IsMap(Without(job.blobs, {cid}), Nat, Blobs)
    BY <1>2, WithoutIsMap DEF IsJob
  <2> QED
    BY <1>1, <1>2, <1>3, <2>1, Zenon DEF IsJob
<1>7. TypeOK'
  BY <1>1, <1>3, <1>5, <1>6, Zenon DEF StoreInv, TypeOK, mem
<1>8. JobInv'
  BY <1>1, <1>6 DEF StoreInv, JobInv, mem
<1>9. FilesInv'
  BY <1>1, <1>5, <1>6 DEF StoreInv, FilesInv, OnDisk, mem
<1> QED
  BY <1>7, <1>8, <1>9 DEF StoreInv

\* Rewriting a manifest file that CURRENT names keeps the invariant.
LEMMA RewriteManifestInv == StoreInv /\ RewriteManifest => StoreInv'
<1> SUFFICES ASSUME StoreInv, RewriteManifest PROVE StoreInv'
  OBVIOUS
<1>1. /\ manifest' = [manifest EXCEPT !.intact = FALSE] /\ pc \in {"seal", "merged"}
      /\ UNCHANGED <<wal, synced, segs, dels, idx, dirs, keys, mem, pc, job, firm, faults>>
  BY DEF RewriteManifest, ReadyToSwap
<1>2. manifest'.colls = manifest.colls
  BY <1>1 DEF StoreInv, TypeOK
<1>3. TypeOK'
  BY <1>1, <1>2, Zenon DEF StoreInv, TypeOK, mem
<1>4. JobInv'
  BY <1>1 DEF StoreInv, JobInv, mem
<1>5. FilesInv'
  BY <1>1, <1>2 DEF StoreInv, FilesInv, OnDisk, mem
<1> QED
  BY <1>3, <1>4, <1>5 DEF StoreInv

\* The members of a sequence are in its element set.
LEMMA ImageType == ASSUME NEW S, NEW ss \in Seq(S) PROVE Image(ss) \subseteq S
  BY DEF Image

\* Folding the window into a collection keeps it well formed and gives it the
\* segments and the index snapshot of the new manifest.
LEMMA FoldedType ==
  ASSUME StoreInv, pc = "seal", NEW cid \in DOMAIN colls
  PROVE  /\ IsColl(Folded(cid, colls[cid]))
         /\ Folded(cid, colls[cid]).segs = colls[cid].segs \o NewSegs(cid)
         /\ Folded(cid, colls[cid]).snap = NewSnap(cid)
<1> DEFINE c == colls[cid]
           new == IF cid \in DOMAIN job.new THEN {job.new[cid]} ELSE {}
           dead == [s \in Image(c.segs) \cup new |->
                      IF s \in new THEN {}
                      ELSE c.dead[s] \cup {r[2] : r \in {w \in c.win : w[1] = s}}]
<1>1. IsJob(job) /\ IsColl(c) /\ ctr \in CtrType /\ ctr.lsn > 0
  BY TypeFacts DEF CollsOK
<1>2. c.segs \o NewSegs(cid) \in Seq(Nat) /\ Image(c.segs \o NewSegs(cid)) = Image(c.segs) \cup new
  BY <1>1, NewSegsType, CollFacts
<1>3. Folded(cid, c) = [name |-> c.name, segs |-> c.segs \o NewSegs(cid), dead |-> dead,
                        active |-> EmptyMap, win |-> {}, snap |-> NewSnap(cid)]
  BY DEF Folded
<1>4. NewSnap(cid) \in SUBSET SnapRef
  BY <1>1 DEF NewSnap, SnapRef, CtrType
<1>5. Image(c.segs) \cup new \subseteq Nat
  BY <1>2, ImageType, Zenon
<1>6. /\ c.name \in Names /\ DOMAIN c.dead = Image(c.segs)
      /\ \A s \in DOMAIN c.dead : c.dead[s] \subseteq Ids
      /\ \A r \in c.win : r[2] \in Ids
  BY <1>1, CollFacts
<1> HIDE DEF c, new
<1>7. IsMap(dead, Nat, SUBSET Ids) /\ DOMAIN dead = Image(c.segs) \cup new
  BY <1>5, <1>6 DEF IsMap, MapOn
<1> HIDE DEF dead
<1>8. IsMap(EmptyMap, Ids, Vals)
  BY EmptyMapProperties
<1>9. IsColl(Folded(cid, c))
  BY <1>2, <1>3, <1>4, <1>6, <1>7, <1>8 DEF IsColl
<1> QED
  BY <1>3, <1>9 DEF c

\* Swapping CURRENT at a checkpoint keeps the invariant: all the new manifest
\* names was written before it.
LEMMA SwapCheckpointInv == StoreInv /\ SwapCheckpoint => StoreInv'
<1> SUFFICES ASSUME StoreInv, SwapCheckpoint PROVE StoreInv'
  OBVIOUS
<1> DEFINE folded == [c \in DOMAIN colls |-> Folded(c, colls[c])]
<1>1. /\ pc = "seal" /\ manifest' = CheckpointManifest /\ colls' = folded
      /\ ctr' = [ctr EXCEPT !.version = @ + 1, !.floor = ctr.lsn - 1]
      /\ job' = [NoJob EXCEPT !.shred = job.shred, !.cq = AutoCompact(folded)]
      /\ pc' = "rotate"
      /\ UNCHANGED <<wal, synced, segs, dels, idx, dirs, keys, firm, nameIndex, faults>>
  BY DEF SwapCheckpoint, Swapped
<1>2. IsJob(job) /\ CollsOK(colls) /\ ctr \in CtrType /\ ctr.lsn > 0
  BY <1>1, TypeFacts
<1>3. /\ DOMAIN folded = DOMAIN colls /\ CollsOK(folded)
      /\ \A c \in DOMAIN colls : folded[c].segs = colls[c].segs \o NewSegs(c)
                                   /\ folded[c].snap = NewSnap(c)
  BY <1>1, <1>2, FoldedType DEF CollsOK, MapOn
<1> HIDE DEF folded
<1>4. AutoCompact(folded) \subseteq DOMAIN colls /\ AutoCompact(folded) \in SUBSET Nat
  <2> DEFINE over == {c \in DOMAIN folded : NeedsCompaction(c, folded[c])}
  <2>1. over \in SUBSET Nat /\ over \subseteq DOMAIN colls
    BY <1>3 DEF CollsOK, MapOn
  <2>2. over # {} => Least(over) \in over
    BY <2>1, LeastProperties
  <2>3. AutoCompact(folded) = IF over = {} THEN {} ELSE {Least(over)}
    BY DEF AutoCompact
  <2> HIDE DEF over
  <2> QED
    BY <2>1, <2>2, <2>3, Zenon
<1>5. /\ ManifestOK(manifest') /\ DOMAIN manifest'.colls = DOMAIN colls
      /\ \A c \in DOMAIN colls : manifest'.colls[c].segs = folded[c].segs
                                   /\ manifest'.colls[c].snap = folded[c].snap
  BY <1>1, <1>3, CheckpointManifestOK, Zenon
<1>6. ctr' \in CtrType /\ ctr'.lsn > 0
  <2>1. ctr.lsn - 1 \in Nat /\ ctr.version + 1 \in Nat
    BY <1>2 DEF CtrType
  <2> QED
    BY <1>1, <1>2, <2>1, Zenon DEF CtrType
<1>7. /\ IsJob(job') /\ job'.cq = AutoCompact(folded) /\ ~job'.opening
      /\ DOMAIN job'.new = {} /\ job'.snaps = {}
  <2>1. DOMAIN EmptyMap = {} /\ IsMap(EmptyMap, Nat, Nat) /\ IsMap(EmptyMap, Nat, Blobs)
    BY EmptyMapProperties
  <2>2. job' = [batch |-> << >>, name |-> {}, rest |-> {}, trim |-> {}, dels |-> {}, todo |-> {},
                new |-> EmptyMap, blobs |-> EmptyMap, snaps |-> {}, cq |-> AutoCompact(folded),
                shred |-> job.shred, opening |-> FALSE]
    BY <1>1, Zenon DEF NoJob
  <2>3. << >> \in Seq(Frame) /\ job.shred \in SUBSET Nat
    BY <1>2 DEF IsJob
  <2> QED
    BY <1>4, <2>1, <2>2, <2>3 DEF IsJob
<1>8. TypeOK'
  BY <1>1, <1>3, <1>5, <1>6, <1>7, Zenon DEF StoreInv, TypeOK, ManifestOK, CollsOK, CtrType
<1>9. JobInv'
  BY <1>1, <1>3, <1>4, <1>6, <1>7, Zenon DEF StoreInv, JobInv
<1>10. FilesInv'
  <2>1. (\A c \in DOMAIN manifest.colls : OnDisk(c, manifest.colls[c]))'
    BY <1>1, <1>5 DEF ManifestOK, OnDisk
  <2>2. (\A c \in DOMAIN colls : OnDisk(c, colls[c]) /\ Covered(c, colls[c]))'
    BY <1>1, <1>3, <1>5, <2>1 DEF OnDisk, Covered
  <2> QED
    BY <1>7, <2>1, <2>2 DEF FilesInv
<1> QED
  BY <1>8, <1>9, <1>10 DEF StoreInv

\* Adding one WAL file to a bounded set, or removing files, leaves it bounded.
LEMMA StillBounded ==
  ASSUME NEW S \in SUBSET Nat, Bounded(S), NEW q \in Nat, NEW T, T \subseteq S \cup {q}
  PROVE  Bounded(T)
<1>1. PICK b \in S \cup {0} : \A x \in S : x <= b
  BY DEF Bounded
<1>2. \A x \in T \cup {0} : x <= b + q
  BY <1>1
<1> DEFINE U == T \cup {0}
<1>3. U \in SUBSET Nat /\ U # {} /\ b + q \in Nat /\ \A x \in U : x <= b + q
  BY <1>2
<1> HIDE DEF U
<1>4. Greatest(U) \in U /\ \A x \in U : x <= Greatest(U)
  BY <1>3, GreatestProperties, Zenon
<1> QED
  BY <1>4, Zenon DEF Bounded, U

\* A fresh WAL file.
LEMMA NewWalFile ==
  ASSUME StoreInv, NEW q \in Nat, wal' = Put(wal, q, << >>), synced' = Put(synced, q, 0)
  PROVE  /\ IsMap(wal', Nat, Seq(Frame \cup {TornFrame}))
         /\ IsMap(synced', Nat, Nat) /\ DOMAIN synced' = DOMAIN wal'
         /\ Bounded(DOMAIN wal')
<1>1. /\ IsMap(wal, Nat, Seq(Frame \cup {TornFrame}))
      /\ IsMap(synced, Nat, Nat) /\ DOMAIN synced = DOMAIN wal /\ Bounded(DOMAIN wal)
  BY DEF StoreInv, TypeOK, JobInv
<1>2. << >> \in Seq(Frame \cup {TornFrame}) /\ 0 \in Nat
  OBVIOUS
<1>3. IsMap(wal', Nat, Seq(Frame \cup {TornFrame})) /\ IsMap(synced', Nat, Nat)
  BY <1>1, <1>2, PutIsMap, Zenon
<1>4. DOMAIN wal' = DOMAIN wal \cup {q} /\ DOMAIN synced' = DOMAIN synced \cup {q}
  BY DEF Put
<1>5. DOMAIN wal \in SUBSET Nat
  BY <1>1 DEF IsMap, MapOn
<1>6. Bounded(DOMAIN wal')
  BY <1>1, <1>4, <1>5, StillBounded
<1> QED
  BY <1>1, <1>3, <1>4, <1>6

\* Rotating the WAL keeps the invariant.
LEMMA RotateWalInv == StoreInv /\ RotateWal => StoreInv'
<1> SUFFICES ASSUME StoreInv, RotateWal PROVE StoreInv'
  OBVIOUS
<1> DEFINE new == ctr.walSeq + 1
<1>1. /\ pc = "rotate"
      /\ UNCHANGED <<manifest, segs, dels, idx, dirs, keys, colls, nameIndex, firm, faults>>
      /\ \/ pc' = "idle" /\ job' = NoJob /\ UNCHANGED <<wal, synced, ctr>>
         \/ /\ wal' = Put(wal, new, << >>) /\ synced' = Put(synced, new, 0)
            /\ ctr' = [ctr EXCEPT !.walSeq = new]
            /\ job' = [job EXCEPT !.trim = {q \in DOMAIN wal : q <= ctr.walSeq}]
            /\ pc' = "trim"
  BY DEF RotateWal, RotatedOut
<1>2. CASE pc' = "idle" /\ job' = NoJob /\ UNCHANGED <<wal, synced, ctr>>
  <2>1. TypeOK'
    BY <1>1, <1>2, NoJobType DEF StoreInv, TypeOK
  <2>2. JobInv'
    BY <1>1, <1>2, NoJobType DEF StoreInv, JobInv, NoJob
  <2>3. FilesInv'
    BY <1>1, <1>2, NoJobType, Zenon DEF StoreInv, FilesInv, OnDisk, NoJob
  <2> QED
    BY <2>1, <2>2, <2>3 DEF StoreInv
<1>3. CASE /\ wal' = Put(wal, new, << >>) /\ synced' = Put(synced, new, 0)
           /\ ctr' = [ctr EXCEPT !.walSeq = new]
           /\ job' = [job EXCEPT !.trim = {q \in DOMAIN wal : q <= ctr.walSeq}]
           /\ pc' = "trim"
  <2>1. ctr \in CtrType /\ IsJob(job) /\ new \in Nat /\ DOMAIN wal \subseteq Nat
    <3>1. ctr \in CtrType /\ IsJob(job)
      BY TypeFacts
    <3>2. DOMAIN wal \subseteq Nat
      BY DEF StoreInv, TypeOK, IsMap, MapOn
    <3> QED
      BY <3>1, <3>2 DEF CtrType
  <2>2. /\ IsMap(wal', Nat, Seq(Frame \cup {TornFrame}))
        /\ IsMap(synced', Nat, Nat) /\ DOMAIN synced' = DOMAIN wal'
        /\ Bounded(DOMAIN wal')
    BY <1>3, <2>1, NewWalFile, Zenon
  <2>3. ctr' \in CtrType /\ ctr'.lsn = ctr.lsn /\ ctr'.version = ctr.version
    BY <1>3, <2>1 DEF CtrType
  <2>4. /\ IsJob(job') /\ job'.cq = job.cq /\ job'.new = job.new /\ job'.snaps = job.snaps
    BY <1>3, <2>1 DEF IsJob
  <2>5. TypeOK'
    BY <1>1, <1>3, <2>2, <2>3, <2>4, Zenon DEF StoreInv, TypeOK, CtrType
  <2>6. JobInv'
    BY <1>1, <1>3, <2>2, <2>3, <2>4 DEF StoreInv, JobInv
  <2>7. FilesInv'
    BY <1>1, <1>3, <2>3, <2>4 DEF StoreInv, FilesInv, OnDisk, Covered
  <2> QED
    BY <2>5, <2>6, <2>7 DEF StoreInv
<1> QED
  BY <1>1, <1>2, <1>3

\* Removing a superseded WAL file keeps the invariant.
LEMMA TrimWalInv == StoreInv /\ TrimWal => StoreInv'
<1> SUFFICES ASSUME StoreInv, TrimWal PROVE StoreInv'
  OBVIOUS
<1> DEFINE q == {Least(job.trim)}
<1>1. /\ pc = "trim"
      /\ UNCHANGED <<manifest, segs, dels, idx, dirs, keys, mem, firm, faults>>
      /\ \/ pc' = "idle" /\ job' = NoJob /\ UNCHANGED <<wal, synced>>
         \/ pc' = "gc" /\ job' = job /\ UNCHANGED <<wal, synced>>
         \/ /\ wal' = Without(wal, q) /\ synced' = Without(synced, q)
            /\ job' = [job EXCEPT !.trim = @ \ q] /\ pc' = pc
  BY DEF TrimWal
<1> HIDE DEF q
<1>2. CASE pc' = "idle" /\ job' = NoJob /\ UNCHANGED <<wal, synced>>
  <2>1. TypeOK'
    BY <1>1, <1>2, NoJobType, Zenon DEF StoreInv, TypeOK, mem
  <2>2. JobInv'
    BY <1>1, <1>2, NoJobType DEF StoreInv, JobInv, NoJob, mem
  <2>3. FilesInv'
    BY <1>1, <1>2, NoJobType, Zenon DEF StoreInv, FilesInv, OnDisk, NoJob, mem
  <2> QED
    BY <2>1, <2>2, <2>3 DEF StoreInv
<1>3. CASE pc' = "gc" /\ job' = job /\ UNCHANGED <<wal, synced>>
  <2>1. TypeOK'
    BY <1>1, <1>3, Zenon DEF StoreInv, TypeOK, mem
  <2>2. JobInv'
    BY <1>1, <1>3 DEF StoreInv, JobInv, mem
  <2>3. FilesInv'
    BY <1>1, <1>3, Zenon DEF StoreInv, FilesInv, OnDisk, Covered, mem
  <2> QED
    BY <2>1, <2>2, <2>3 DEF StoreInv
<1>4. CASE /\ wal' = Without(wal, q) /\ synced' = Without(synced, q)
           /\ job' = [job EXCEPT !.trim = @ \ q] /\ pc' = pc
  <2>1. /\ IsMap(wal, Nat, Seq(Frame \cup {TornFrame})) /\ IsMap(synced, Nat, Nat)
        /\ DOMAIN synced = DOMAIN wal /\ Bounded(DOMAIN wal) /\ IsJob(job)
    BY DEF StoreInv, TypeOK, JobInv
  <2>2. IsMap(wal', Nat, Seq(Frame \cup {TornFrame})) /\ IsMap(synced', Nat, Nat)
    BY <1>4, <2>1, WithoutIsMap
  <2>3. DOMAIN wal' = DOMAIN wal \ q /\ DOMAIN synced' = DOMAIN synced \ q
    BY <1>4 DEF Without
  <2>4. Bounded(DOMAIN wal')
    <3>1. DOMAIN wal \in SUBSET Nat /\ DOMAIN wal' \subseteq DOMAIN wal \cup {0}
      BY <2>1, <2>3 DEF IsMap, MapOn
    <3> QED
      BY <2>1, <3>1, StillBounded
  <2>5. /\ IsJob(job') /\ job'.cq = job.cq /\ job'.new = job.new /\ job'.snaps = job.snaps
    BY <1>4, <2>1 DEF IsJob
  <2>6. TypeOK'
    BY <1>1, <1>4, <2>1, <2>2, <2>3, <2>5, Zenon DEF StoreInv, TypeOK, mem
  <2>7. JobInv'
    BY <1>1, <1>4, <2>4, <2>5, SMTT(60) DEF StoreInv, JobInv, mem
  <2>8. FilesInv'
    BY <1>1, <1>4, <2>5 DEF StoreInv, FilesInv, OnDisk, Covered, mem
  <2> QED
    BY <2>6, <2>7, <2>8 DEF StoreInv
<1> QED
  BY <1>1, <1>2, <1>3, <1>4

-----------------------------------------------------------------------------
(* Garbage collection.  While it runs, memory names only files the manifest*)
(* names (Covered), so it is enough to look at the manifest.               *)

\* Files may go as long as every file the manifest names stays.
LEMMA GcKeeps ==
  ASSUME StoreInv, pc = "gc", pc' = pc, UNCHANGED <<manifest, wal, synced, mem, job, firm, faults>>,
         MapOn(segs', Nat \X Nat), \A f \in DOMAIN segs' : IsMap(segs'[f], Ids, Vals),
         IsMap(dels', Nat \X Nat, SUBSET Ids), IsMap(idx', Nat \X Nat, Blobs),
         dirs' \subseteq dirs, keys' \subseteq keys,
         \A c \in DOMAIN manifest.colls :
           /\ \A s \in Image(manifest.colls[c].segs) : <<c, s>> \in DOMAIN segs => <<c, s>> \in DOMAIN segs'
           /\ \A r \in manifest.colls[c].snap : <<c, r.id>> \in DOMAIN idx => <<c, r.id>> \in DOMAIN idx'
  PROVE  StoreInv'
<1>1. TypeOK'
  BY Zenon DEF StoreInv, TypeOK, mem
<1>2. JobInv'
  BY DEF StoreInv, JobInv, mem
<1>3. FilesInv'
  <2>1. DOMAIN job.new = {} /\ job.snaps = {}
    BY DEF StoreInv, JobInv
  <2>2. (\A c \in DOMAIN manifest.colls : OnDisk(c, manifest.colls[c]))'
    BY DEF StoreInv, FilesInv, OnDisk
  <2>3. \A c \in DOMAIN colls : Covered(c, colls[c])
    BY DEF StoreInv, FilesInv
  <2>4. (\A c \in DOMAIN colls : OnDisk(c, colls[c]))'
    <3> SUFFICES ASSUME NEW c \in DOMAIN colls PROVE OnDisk(c, colls[c])'
      BY DEF mem
    <3>1. CASE colls[c].segs = << >> /\ colls[c].snap = {}
      <4>1. Image(colls[c].segs) = {}
        BY <3>1 DEF Image
      <4>2. colls' = colls
        BY Zenon DEF mem
      <4> QED
        BY <3>1, <4>1, <4>2, Zenon DEF OnDisk
    <3>2. CASE /\ c \in DOMAIN manifest.colls
               /\ colls[c].segs = manifest.colls[c].segs /\ colls[c].snap = manifest.colls[c].snap
      BY <3>2, <2>2 DEF OnDisk, mem
    <3> QED
      BY <2>3, <3>1, <3>2 DEF Covered
  <2> QED
    BY <2>1, <2>2, <2>3, <2>4, Zenon DEF FilesInv, Covered, mem
<1> QED
  BY <1>1, <1>2, <1>3, Zenon DEF StoreInv

\* Garbage collection keeps the invariant: what it removes, neither the manifest
\* in force nor memory names.
LEMMA GcInv == StoreInv /\ (GcShredKey \/ GcRemoveDir \/ GcSegment \/ GcIndexSnapshot) => StoreInv'
<1> SUFFICES ASSUME StoreInv, GcShredKey \/ GcRemoveDir \/ GcSegment \/ GcIndexSnapshot
             PROVE  StoreInv'
  OBVIOUS
<1>1. /\ MapOn(segs, Nat \X Nat) /\ \A f \in DOMAIN segs : IsMap(segs[f], Ids, Vals)
      /\ IsMap(dels, Nat \X Nat, SUBSET Ids) /\ IsMap(idx, Nat \X Nat, Blobs)
  BY DEF StoreInv, TypeOK
<1>2. \A S : /\ MapOn(Without(segs, S), Nat \X Nat)
             /\ \A f \in DOMAIN Without(segs, S) : IsMap(Without(segs, S)[f], Ids, Vals)
  <2> TAKE S
  <2>1. MapOn(Without(segs, S), Nat \X Nat)
    BY <1>1, WithoutMapOn
  <2> QED
    BY <1>1, <2>1 DEF Without
<1>3. \A S : IsMap(Without(dels, S), Nat \X Nat, SUBSET Ids) /\ IsMap(Without(idx, S), Nat \X Nat, Blobs)
  BY <1>1, WithoutIsMap, Zenon
<1>4. CASE GcShredKey
  <2>1. keys' \subseteq keys
    BY <1>4 DEF GcShredKey, Shredded
  <2> QED
    BY <1>1, <1>4, <2>1, GcKeeps, Zenon DEF GcShredKey
<1>5. CASE GcRemoveDir
  <2>1. PICK cid \in DeadDirs \ keys :
          /\ dirs' = dirs \ {cid}
          /\ segs' = Without(segs, Of(segs, cid)) /\ dels' = Without(dels, Of(dels, cid))
          /\ idx' = Without(idx, Of(idx, cid))
    BY <1>5 DEF GcRemoveDir
  <2>2. \A c \in DOMAIN manifest.colls : c # cid
    BY DEF DeadDirs
  <2>3. \A c \in DOMAIN manifest.colls : \A s :
          /\ <<c, s>> \in DOMAIN segs => <<c, s>> \in DOMAIN segs'
          /\ <<c, s>> \in DOMAIN idx => <<c, s>> \in DOMAIN idx'
    BY <2>1, <2>2 DEF Of, Without
  <2>4. /\ pc = "gc" /\ UNCHANGED <<manifest, wal, synced, keys, mem, pc, job, firm, faults>>
    BY <1>5 DEF GcRemoveDir
  <2>5. dirs' \subseteq dirs /\ keys' \subseteq keys
    BY <2>1, <2>4
  <2> QED
    BY <1>2, <1>3, <2>1, <2>3, <2>4, <2>5, GcKeeps, Zenon
<1>6. CASE GcSegment
  <2>1. /\ pc = "gc" /\ UNCHANGED <<manifest, wal, synced, idx, dirs, keys, mem, pc, job, firm, faults>>
    BY <1>6 DEF GcSegment
  <2>2. CASE (\E f \in DeadSegs : segs' = Without(segs, {f})) /\ UNCHANGED dels
    <3>1. PICK f \in DeadSegs : segs' = Without(segs, {f})
      BY <2>2
    <3>2. \A c \in DOMAIN manifest.colls : \A s \in Image(manifest.colls[c].segs) :
            <<c, s>> \in DOMAIN segs => <<c, s>> \in DOMAIN segs'
      BY <3>1 DEF DeadSegs, Unreferenced, Without
    <3> QED
      BY <1>1, <1>2, <2>1, <2>2, <3>1, <3>2, GcKeeps, Zenon
  <2>3. CASE (\E f \in DeadDels : dels' = Without(dels, {f})) /\ UNCHANGED segs
    BY <1>1, <1>3, <2>1, <2>3, GcKeeps, Zenon
  <2> QED
    BY <1>6, <2>2, <2>3, Zenon DEF GcSegment
<1>7. CASE GcIndexSnapshot
  <2>1. /\ pc = "gc"
        /\ UNCHANGED <<manifest, wal, synced, segs, dels, dirs, keys, mem, pc, job, firm, faults>>
    BY <1>7 DEF GcIndexSnapshot
  <2>2. PICK f \in DeadIdx : idx' = Without(idx, {f})
    BY <1>7, Zenon DEF GcIndexSnapshot
  <2>3. \A c \in DOMAIN manifest.colls : \A r \in manifest.colls[c].snap :
          <<c, r.id>> \in DOMAIN idx => <<c, r.id>> \in DOMAIN idx'
    BY <2>2 DEF DeadIdx, Without
  <2> QED
    BY <1>1, <1>3, <2>1, <2>2, <2>3, GcKeeps, Zenon
<1> QED
  BY <1>4, <1>5, <1>6, <1>7, Zenon

\* Finishing garbage collection keeps the invariant, after a checkpoint and
\* at the end of recovery.
LEMMA GcDoneInv == StoreInv /\ GcDone => StoreInv'
<1> SUFFICES ASSUME StoreInv, GcDone PROVE StoreInv'
  OBVIOUS
<1>1. /\ pc = "gc" /\ UNCHANGED <<disk, mem, firm, faults>>
      /\ \/ pc' = "newwal" /\ job' = job /\ job.opening
         \/ pc' = "compact" /\ job' = job /\ job.cq # {}
         \/ pc' = "shred" /\ job' = job /\ job.cq = {}
         \/ pc' = "idle" /\ job' = NoJob
  BY DEF GcDone
<1>2. IsJob(job) /\ DOMAIN job.new = {} /\ job.snaps = {} /\ (job.opening => job.cq = {})
  BY <1>1, Zenon DEF StoreInv, TypeOK, JobInv
<1>3. IsJob(NoJob) /\ DOMAIN NoJob.new = {} /\ NoJob.snaps = {} /\ NoJob.cq = {}
  BY NoJobType, Zenon DEF NoJob
<1>4. /\ IsJob(job') /\ DOMAIN job'.new = {} /\ job'.snaps = {}
      /\ job'.cq = job.cq \/ job'.cq = {}
      /\ pc' = "compact" => job'.cq # {}
      /\ pc' # "compact" => job'.cq = {}
      /\ pc' \in {"newwal", "compact", "shred", "idle"}
  BY <1>1, <1>2, <1>3, Zenon
<1>5. TypeOK'
  BY <1>1, <1>4, Zenon DEF StoreInv, TypeOK, disk, mem
<1>6. JobInv'
  BY <1>1, <1>4, Zenon DEF StoreInv, JobInv, disk, mem
<1>7. FilesInv'
  BY <1>1, <1>4 DEF StoreInv, FilesInv, OnDisk, Covered, disk, mem
<1> QED
  BY <1>5, <1>6, <1>7, Zenon DEF StoreInv

\* Shredding the key of a dropped collection keeps the invariant.
LEMMA ShredKeyInv == StoreInv /\ ShredKey => StoreInv'
<1> SUFFICES ASSUME StoreInv, ShredKey PROVE StoreInv'
  OBVIOUS
<1>1. /\ pc' = "idle" /\ job' = NoJob /\ keys' \subseteq keys
      /\ UNCHANGED <<manifest, wal, synced, segs, dels, idx, dirs, mem, firm, faults>>
      /\ pc = "shred"
  BY DEF ShredKey, Shredded
<1>3. TypeOK'
  BY <1>1, NoJobType, Zenon DEF StoreInv, TypeOK, mem
<1>4. JobInv'
  BY <1>1, NoJobType, Zenon DEF StoreInv, JobInv, NoJob, mem
<1>5. FilesInv'
  BY <1>1, NoJobType, Zenon DEF StoreInv, FilesInv, OnDisk, NoJob, mem
<1> QED
  BY <1>3, <1>4, <1>5 DEF StoreInv

-----------------------------------------------------------------------------
(* Compaction.                                                             *)

\* Starting an explicit compaction keeps the invariant.
LEMMA CompactInv == StoreInv /\ Compact => StoreInv'
<1> SUFFICES ASSUME StoreInv, Compact PROVE StoreInv'
  OBVIOUS
<1> DEFINE cq == {c \in DOMAIN colls : Reclaimable(c, colls[c])}
<1>1. /\ pc = "idle" /\ cq # {} /\ job' = [NoJob EXCEPT !.cq = cq] /\ pc' = "compact"
      /\ UNCHANGED <<disk, mem, firm, faults>>
  BY DEF Compact
<1>2. cq \in SUBSET Nat /\ cq \subseteq DOMAIN colls
  BY TypeFacts DEF CollsOK, MapOn
<1> HIDE DEF cq
<1>3. IsJob(job') /\ job'.cq = cq /\ DOMAIN job'.new = {} /\ job'.snaps = {} /\ ~job'.opening
  <2>1. IsJob(NoJob) /\ DOMAIN NoJob.new = {} /\ NoJob.snaps = {} /\ ~NoJob.opening
    BY NoJobType, Zenon DEF NoJob
  <2> QED
    BY <1>1, <1>2, <2>1, Zenon DEF IsJob
<1>4. TypeOK'
  BY <1>1, <1>3, Zenon DEF StoreInv, TypeOK, disk, mem
<1>5. JobInv'
  BY <1>1, <1>2, <1>3, SMTT(60) DEF StoreInv, JobInv, disk, mem
<1>6. FilesInv'
  BY <1>1, <1>3 DEF StoreInv, FilesInv, OnDisk, disk, mem
<1> QED
  BY <1>4, <1>5, <1>6 DEF StoreInv

\* Writing the merged segment keeps the invariant.
LEMMA MergeSegmentsInv == StoreInv /\ MergeSegments => StoreInv'
<1> SUFFICES ASSUME StoreInv, MergeSegments PROVE StoreInv'
  OBVIOUS
<1> DEFINE cid  == Least(job.cq)
           rows == LiveRows(cid, colls[cid])
           row(id) == CHOOSE r \in rows : r[2] = id
           merged == [id \in {r[2] : r \in rows} |-> segs[<<cid, row(id)[1]>>][id]]
<1>1. /\ pc = "compact" /\ pc' = "merged" /\ segs' = Put(segs, <<cid, ctr.seg>>, merged)
      /\ dirs' = dirs \cup {cid} /\ ctr' = [ctr EXCEPT !.seg = @ + 1]
      /\ job' = [job EXCEPT !.new = Put(EmptyMap, cid, ctr.seg)]
      /\ UNCHANGED <<manifest, wal, synced, dels, idx, keys, colls, nameIndex, firm, faults>>
  BY Zenon DEF MergeSegments
<1>2. IsJob(job) /\ CollsOK(colls) /\ ctr \in CtrType /\ ctr.lsn > 0
  BY <1>1, TypeFacts
<1>3. cid \in job.cq /\ cid \in Nat /\ cid \in DOMAIN colls
  <2>1. job.cq \in SUBSET Nat /\ job.cq \subseteq DOMAIN colls /\ job.cq # {}
    BY <1>1, <1>2, Zenon DEF StoreInv, JobInv, IsJob
  <2> QED
    BY <2>1, LeastProperties, Zenon
<1>4. MapOn(segs, Nat \X Nat) /\ \A f \in DOMAIN segs : IsMap(segs[f], Ids, Vals)
  BY DEF StoreInv, TypeOK
<1>5. \A r \in rows : r[2] \in Ids /\ r[2] \in DOMAIN segs[<<cid, r[1]>>] /\ <<cid, r[1]>> \in DOMAIN segs
  <2>1. \A s \in Image(colls[cid].segs) : <<cid, s>> \in DOMAIN segs
    BY <1>3 DEF StoreInv, FilesInv, OnDisk
  <2> HIDE DEF cid
  <2> QED
    BY <2>1 DEF LiveRows
<1> HIDE DEF cid, rows
<1>6. IsMap(merged, Ids, Vals)
  <2>1. \A id \in {r[2] : r \in rows} : row(id) \in rows /\ row(id)[2] = id
    OBVIOUS
  <2>2. \A r \in rows : segs[<<cid, r[1]>>][r[2]] \in Vals
    BY <1>4, <1>5 DEF IsMap
  <2>3. \A id \in {r[2] : r \in rows} : id \in Ids /\ segs[<<cid, row(id)[1]>>][id] \in Vals
    BY <1>5, <2>1, <2>2
  <2> HIDE DEF row
  <2> QED
    BY <2>3, Zenon DEF IsMap, MapOn
<1> HIDE DEF merged
<1>7. /\ MapOn(segs', Nat \X Nat) /\ \A f \in DOMAIN segs' : IsMap(segs'[f], Ids, Vals)
      /\ DOMAIN segs' = DOMAIN segs \cup {<<cid, ctr.seg>>}
  <2>1. <<cid, ctr.seg>> \in Nat \X Nat
    BY <1>2, <1>3 DEF CtrType
  <2>2. MapOn(segs', Nat \X Nat)
    BY <1>1, <1>4, <2>1, PutMapOn, Zenon
  <2> QED
    BY <1>1, <1>4, <1>6, <2>2, Zenon DEF Put
<1>8. ctr' \in CtrType /\ ctr'.lsn = ctr.lsn /\ ctr'.version = ctr.version
  BY <1>1, <1>2 DEF CtrType
<1>9. /\ IsJob(job') /\ job'.cq = job.cq /\ job'.snaps = job.snaps /\ job'.opening = job.opening
      /\ DOMAIN job'.new = {cid} /\ job'.new[cid] = ctr.seg
  <2> DEFINE new == Put(EmptyMap, cid, ctr.seg)
  <2>1. DOMAIN new = {cid} /\ new[cid] = ctr.seg
    BY EmptyMapProperties DEF Put
  <2>2. IsMap(new, Nat, Nat)
    <3>1. IsMap(EmptyMap, Nat, Nat)
      BY EmptyMapProperties
    <3> QED
      BY <1>2, <1>3, <3>1, PutIsMap, Zenon DEF CtrType
  <2> HIDE DEF new
  <2>3. job' = [job EXCEPT !.new = new]
    BY <1>1 DEF new
  <2> QED
    BY <1>2, <2>1, <2>2, <2>3, Zenon DEF IsJob
<1>10. TypeOK'
  BY <1>1, <1>3, <1>7, <1>8, <1>9, Zenon DEF StoreInv, TypeOK, CtrType
<1>11. JobInv'
  <2>1. Least(job'.cq) = cid
    BY <1>9 DEF cid
  <2> QED
    BY <1>1, <1>2, <1>3, <1>8, <1>9, <2>1, Zenon DEF StoreInv, JobInv
<1>12. FilesInv'
  <2>1. job.snaps = {}
    BY <1>1 DEF StoreInv, JobInv
  <2> QED
    BY <1>1, <1>7, <1>8, <1>9, <2>1, Zenon DEF StoreInv, FilesInv, OnDisk
<1> QED
  BY <1>10, <1>11, <1>12, Zenon DEF StoreInv

\* Swapping CURRENT at a compaction keeps the invariant.
LEMMA SwapCompactionInv == StoreInv /\ SwapCompaction => StoreInv'
<1> SUFFICES ASSUME StoreInv, SwapCompaction PROVE StoreInv'
  OBVIOUS
<1> DEFINE cid == Least(job.cq)
           m   == Merged(cid, colls[cid])
<1>1. /\ pc = "merged" /\ manifest' = CompactManifest
      /\ colls' = [colls EXCEPT ![cid] = m]
      /\ ctr' = [ctr EXCEPT !.version = @ + 1]
      /\ job' = [job EXCEPT !.cq = @ \ {cid}, !.new = EmptyMap]
      /\ pc' = "gc"
      /\ UNCHANGED <<wal, synced, segs, dels, idx, dirs, keys, firm, nameIndex, faults>>
  BY DEF SwapCompaction, Swapped
<1>2. IsJob(job) /\ CollsOK(colls) /\ ctr \in CtrType /\ ctr.lsn > 0
  BY <1>1, TypeFacts
<1>3. cid \in DOMAIN colls /\ DOMAIN job.new = {cid} /\ job.snaps = {}
  <2>1. job.cq \in SUBSET Nat /\ job.cq \subseteq DOMAIN colls /\ job.cq # {}
    BY <1>1, <1>2 DEF StoreInv, JobInv, IsJob
  <2>2. DOMAIN job.new = {cid} /\ job.snaps = {}
    BY <1>1 DEF StoreInv, JobInv
  <2> QED
    BY <2>1, <2>2, LeastProperties, Zenon
<1>4. IsColl(m) /\ m.segs = NewSegs(cid) /\ m.snap = colls[cid].snap
  <2>1. IsColl(colls[cid])
    BY <1>2, <1>3 DEF CollsOK
  <2>2. NewSegs(cid) \in Seq(Nat) /\ Image(NewSegs(cid)) = {job.new[cid]}
    BY <1>2, <1>3, <2>1, CollFacts, NewSegsType, Zenon
  <2>3. job.new[cid] \in Nat
    BY <1>2, <1>3 DEF IsJob, IsMap
  <2> DEFINE dead == [s \in {job.new[cid]} |-> {}]
  <2>4. IsMap(dead, Nat, SUBSET Ids) /\ DOMAIN dead = {job.new[cid]}
    BY <2>3 DEF IsMap, MapOn
  <2> HIDE DEF cid
  <2>5. m = [colls[cid] EXCEPT !.segs = NewSegs(cid), !.dead = dead, !.win = {}]
    BY DEF Merged
  <2> HIDE DEF dead, m
  <2>6. m = [name |-> colls[cid].name, segs |-> NewSegs(cid), dead |-> dead,
             active |-> colls[cid].active, win |-> {}, snap |-> colls[cid].snap]
    BY <2>1, <2>5, Zenon DEF IsColl
  <2>7. /\ colls[cid].name \in Names /\ colls[cid].snap \in SUBSET SnapRef
        /\ IsMap(colls[cid].active, Ids, Vals)
    BY <2>1, CollFacts
  <2>8. /\ m.name = colls[cid].name /\ m.segs = NewSegs(cid) /\ m.dead = dead
        /\ m.active = colls[cid].active /\ m.win = {} /\ m.snap = colls[cid].snap
    BY <2>6, Zenon
  <2>9. DOMAIN m.dead = Image(m.segs)
    BY <2>2, <2>4, <2>8, Zenon
  <2> QED
    BY <2>2, <2>4, <2>6, <2>7, <2>8, <2>9, Zenon DEF IsColl
<1> HIDE DEF cid, m
<1>5. DOMAIN colls' = DOMAIN colls /\ CollsOK(colls')
  BY <1>1, <1>2, <1>3, <1>4, Zenon DEF CollsOK, MapOn
<1>6. /\ ManifestOK(manifest') /\ DOMAIN manifest'.colls = DOMAIN colls
      /\ \A c \in DOMAIN colls : manifest'.colls[c].segs = colls'[c].segs
                                   /\ manifest'.colls[c].snap = colls'[c].snap
  <2>1. \A c \in DOMAIN colls : colls'[c] = IF c = cid THEN m ELSE colls[c]
    BY <1>1, <1>2 DEF CollsOK, MapOn
  <2> QED
    BY <1>1, <1>3, <1>4, <2>1, CompactManifestOK, Zenon
<1>7. ctr' \in CtrType /\ ctr'.lsn = ctr.lsn
  BY <1>1, <1>2 DEF CtrType
<1>8. /\ IsJob(job') /\ job'.cq \subseteq job.cq /\ job'.snaps = job.snaps
      /\ job'.opening = job.opening /\ DOMAIN job'.new = {}
  <2>1. DOMAIN EmptyMap = {} /\ IsMap(EmptyMap, Nat, Nat)
    BY EmptyMapProperties
  <2> QED
    BY <1>1, <1>2, <2>1, Zenon DEF IsJob
<1>9. TypeOK'
  BY <1>1, <1>5, <1>6, <1>7, <1>8, Zenon DEF StoreInv, TypeOK, ManifestOK, CollsOK, CtrType
<1>10. JobInv'
  BY <1>1, <1>2, <1>3, <1>5, <1>7, <1>8, Zenon DEF StoreInv, JobInv
<1>11. FilesInv'
  <2>1. (\A c \in DOMAIN manifest.colls : OnDisk(c, manifest.colls[c]))'
    BY <1>1, <1>6 DEF ManifestOK, OnDisk
  <2>2. (\A c \in DOMAIN colls : OnDisk(c, colls[c]) /\ Covered(c, colls[c]))'
    BY <1>5, <1>6, <2>1 DEF OnDisk, Covered
  <2> QED
    BY <1>3, <1>8, <2>1, <2>2, Zenon DEF FilesInv
<1> QED
  BY <1>9, <1>10, <1>11 DEF StoreInv

-----------------------------------------------------------------------------
(* Recovery.                                                               *)

\* Opening the store from the manifest in force keeps the invariant: memory
\* names exactly what the manifest names.
LEMMA OpenInv == StoreInv /\ Open => StoreInv'
<1> SUFFICES ASSUME StoreInv, Open PROVE StoreInv'
  OBVIOUS
<1> DEFINE m == manifest.colls
           opened == [c \in DOMAIN m |-> Opened(c, m[c])]
           trim == {q \in DOMAIN wal : \A t \in WalTail : t[1] # q}
<1>1. /\ pc = "down" /\ colls' = opened /\ nameIndex' = ManifestNames
      /\ ctr' = [lsn |-> manifest.floor + 1, cid |-> manifest.cid, seg |-> manifest.seg,
                 version |-> manifest.version, floor |-> manifest.floor, walSeq |-> 0]
      /\ job' = [NoJob EXCEPT !.opening = TRUE, !.rest = WalTail, !.trim = trim]
      /\ pc' = "replay" /\ UNCHANGED <<disk, firm, faults>>
  BY DEF Open, Superseded
<1>2. /\ manifest \in [version : Nat, floor : Nat, cid : Nat, seg : Nat,
                       intact : BOOLEAN, colls : {manifest.colls}]
      /\ IsMap(m, Nat, Entry)
      /\ IsMap(dels, Nat \X Nat, SUBSET Ids)
      /\ DOMAIN wal \subseteq Nat
  BY Zenon DEF StoreInv, TypeOK, IsMap, MapOn
<1>3. ASSUME NEW c \in DOMAIN m
      PROVE  /\ IsColl(Opened(c, m[c]))
             /\ Opened(c, m[c]).segs = m[c].segs /\ Opened(c, m[c]).snap = m[c].snap
  <2> DEFINE e == m[c]
             dead == [s \in Image(e.segs) |->
                        IF <<c, s>> \in DOMAIN dels THEN dels[<<c, s>>] ELSE {}]
  <2>1. e \in Entry
    BY <1>2 DEF IsMap
  <2> HIDE DEF e, m
  <2>2. e.name \in Names /\ e.segs \in Seq(Nat) /\ e.snap \in SUBSET SnapRef
    BY <2>1 DEF Entry
  <2>3. Image(e.segs) \subseteq Nat
    BY <2>2, ImageType
  <2>4. IsMap(dead, Nat, SUBSET Ids) /\ DOMAIN dead = Image(e.segs)
    BY <1>2, <2>3 DEF IsMap, MapOn
  <2>5. Opened(c, e) = [name |-> e.name, segs |-> e.segs, active |-> EmptyMap, win |-> {},
                        snap |-> e.snap, dead |-> dead]
    BY DEF Opened
  <2> HIDE DEF dead
  <2>6. IsMap(EmptyMap, Ids, Vals)
    BY EmptyMapProperties
  <2>7. IsColl(Opened(c, e))
    BY <2>2, <2>4, <2>5, <2>6, SMTT(60) DEF IsColl
  <2> QED
    BY <2>5, <2>7 DEF e
<1>4. /\ CollsOK(colls') /\ DOMAIN colls' = DOMAIN m
      /\ \A c \in DOMAIN m : colls'[c].segs = m[c].segs /\ colls'[c].snap = m[c].snap
  BY <1>1, <1>2, <1>3, Zenon DEF CollsOK, MapOn, IsMap
<1>5. IsMap(nameIndex', Names, Nat)
  <2>1. \A c \in DOMAIN m : c \in Nat /\ m[c].name \in Names
    BY <1>2 DEF IsMap, MapOn, Entry
  <2> DEFINE ns == {m[c].name : c \in DOMAIN m}
             of(n) == CHOOSE c \in DOMAIN m : m[c].name = n
  <2>2. \A n \in ns : n \in Names /\ of(n) \in DOMAIN m
    BY <2>1
  <2>3. nameIndex' = [n \in ns |-> of(n)]
    BY <1>1 DEF ManifestNames
  <2> HIDE DEF ns, of
  <2> QED
    BY <2>1, <2>2, <2>3, Zenon DEF IsMap, MapOn
<1>6. ctr' \in CtrType /\ ctr'.lsn > 0 /\ ctr'.version = manifest.version
  <2>1. manifest.floor \in Nat /\ manifest.cid \in Nat /\ manifest.seg \in Nat /\ manifest.version \in Nat
    BY <1>2
  <2>2. manifest.floor + 1 \in Nat /\ manifest.floor + 1 > 0 /\ 0 \in Nat
    BY <2>1
  <2> QED
    BY <1>1, <2>1, <2>2, SMTT(60) DEF CtrType
<1>7. /\ IsJob(job') /\ job'.cq = {} /\ DOMAIN job'.new = {} /\ job'.snaps = {}
      /\ job'.rest = WalTail
  <2>1. IsJob(NoJob) /\ DOMAIN NoJob.new = {} /\ NoJob.snaps = {} /\ NoJob.cq = {}
    BY NoJobType, Zenon DEF NoJob
  <2>2. WalTail \in SUBSET (Nat \X Nat) /\ trim \in SUBSET Nat
    BY <1>2, WalTailType
  <2> HIDE DEF trim
  <2> QED
    BY <1>1, <2>1, <2>2, Zenon DEF IsJob
<1> HIDE DEF opened, trim
<1>8. WalTail' = WalTail
  BY <1>1, Zenon DEF WalTail, disk
<1>9. TypeOK'
  BY <1>1, <1>4, <1>5, <1>6, <1>7, Zenon DEF StoreInv, TypeOK, CollsOK, CtrType, disk
<1>10. JobInv'
  BY <1>1, <1>6, <1>7, <1>8, Zenon DEF StoreInv, JobInv, disk
<1>11. FilesInv'
  <2>1. (\A c \in DOMAIN manifest.colls : OnDisk(c, manifest.colls[c]))'
    BY <1>1 DEF StoreInv, FilesInv, OnDisk, disk
  <2>2. (\A c \in DOMAIN colls : OnDisk(c, colls[c]) /\ Covered(c, colls[c]))'
    BY <1>1, <1>4, <2>1 DEF OnDisk, Covered, disk
  <2> QED
    BY <1>7, <2>1, <2>2, Zenon DEF FilesInv
<1> QED
  BY <1>9, <1>10, <1>11 DEF StoreInv

\* Replaying one WAL record keeps the invariant.
LEMMA ReplayFrameInv == StoreInv /\ ReplayFrame => StoreInv'
<1> SUFFICES ASSUME StoreInv, ReplayFrame PROVE StoreInv'
  OBVIOUS
<1> DEFINE t == First(job.rest)
           e == wal[t[1]][t[2]]
<1>1. /\ pc = "replay" /\ job.rest # {}
      /\ colls' = AppliedColls(colls, e)
      /\ nameIndex' = AppliedNames(colls, nameIndex, e)
      /\ ctr' = [ctr EXCEPT
                   !.lsn = Greatest({@, e.lsn + 1}),
                   !.cid = IF e.op = "create" THEN Greatest({@, e.cid + 1}) ELSE @]
      /\ job' = [job EXCEPT !.rest = @ \ {t}]
      /\ UNCHANGED <<disk, pc, firm, faults>>
  BY Zenon DEF ReplayFrame
<1>2. IsJob(job) /\ CollsOK(colls) /\ ctr \in CtrType /\ ctr.lsn > 0 /\ IsMap(nameIndex, Names, Nat)
  BY <1>1, TypeFacts, Zenon
<1>3. t \in job.rest /\ e \in Frame /\ job.rest \subseteq WalTail
  <2>1. job.rest \in SUBSET (Nat \X Nat)
    BY <1>2, SMTT(60) DEF IsJob
  <2>2. t \in job.rest
    BY <1>1, <2>1, FirstProperties, Zenon
  <2>3. job.rest \subseteq WalTail
    BY <1>1 DEF StoreInv, JobInv
  <2> HIDE DEF t
  <2> QED
    BY <2>2, <2>3, WalTailType
<1> HIDE DEF t, e
<1>4. /\ CollsOK(colls')
      /\ \A c \in DOMAIN colls' :
           \/ colls'[c].segs = << >> /\ colls'[c].snap = {}
           \/ c \in DOMAIN colls /\ colls'[c].segs = colls[c].segs /\ colls'[c].snap = colls[c].snap
  BY <1>1, <1>2, <1>3, AppliedCollsType, Zenon
<1>5. IsMap(nameIndex', Names, Nat)
  BY <1>1, <1>2, <1>3, AppliedNamesType, Zenon
<1>6. ctr' \in CtrType /\ ctr'.lsn > 0 /\ ctr'.version = ctr.version
  <2>1. ctr.lsn \in Nat /\ ctr.cid \in Nat /\ e.lsn + 1 \in Nat
    <3>1. ctr.lsn \in Nat /\ ctr.cid \in Nat
      BY <1>2, Zenon DEF CtrType
    <3>2. e.lsn \in Nat
      BY <1>3, FrameFields, Zenon
    <3> QED
      BY <3>1, <3>2
  <2>2. e.op = "create" => e.cid + 1 \in Nat
    <3>1. e.cid \in Nat
      BY <1>3, FrameFields, Zenon
    <3> QED
      BY <3>1
  <2>3. Greatest({ctr.lsn, e.lsn + 1}) \in Nat /\ ctr.lsn <= Greatest({ctr.lsn, e.lsn + 1})
    BY <2>1, GreaterOfTwo
  <2>4. e.op = "create" => Greatest({ctr.cid, e.cid + 1}) \in Nat
    BY <2>1, <2>2, GreaterOfTwo
  <2> DEFINE a == Greatest({ctr.lsn, e.lsn + 1})
             b == IF e.op = "create" THEN Greatest({ctr.cid, e.cid + 1}) ELSE ctr.cid
  <2>5. a \in Nat /\ ctr.lsn <= a /\ b \in Nat
    BY <2>1, <2>3, <2>4
  <2>6. ctr' = [ctr EXCEPT !.lsn = a, !.cid = b]
    BY <1>1
  <2> HIDE DEF a, b
  <2>7. ctr'.lsn = a /\ ctr'.version = ctr.version /\ ctr' \in CtrType
    BY <1>2, <2>5, <2>6, Zenon DEF CtrType
  <2> QED
    BY <1>2, <2>1, <2>5, <2>7, SMTT(60)
<1>7. /\ IsJob(job') /\ job'.cq = job.cq /\ job'.new = job.new /\ job'.snaps = job.snaps
      /\ job'.rest \subseteq job.rest
  BY <1>1, <1>2, Zenon DEF IsJob
<1>8. WalTail' = WalTail
  BY <1>1 DEF WalTail, disk
<1>9. TypeOK'
  BY <1>1, <1>4, <1>5, <1>6, <1>7, Zenon DEF StoreInv, TypeOK, CollsOK, CtrType, disk
<1>10. JobInv'
  BY <1>1, <1>3, <1>6, <1>7, <1>8, Zenon DEF StoreInv, JobInv, disk
<1>11. FilesInv'
  <2>1. (\A c \in DOMAIN manifest.colls : OnDisk(c, manifest.colls[c]))'
    BY <1>1 DEF StoreInv, FilesInv, OnDisk, disk
  <2>2. \A c \in DOMAIN colls : OnDisk(c, colls[c]) /\ Covered(c, colls[c])
    BY <1>1 DEF StoreInv, FilesInv
  <2>3. Image(<< >>) = {}
    BY DEF Image
  <2>4. (\A c \in DOMAIN colls : OnDisk(c, colls[c]) /\ Covered(c, colls[c]))'
    BY <1>1, <1>4, <2>2, <2>3 DEF OnDisk, Covered, disk
  <2> QED
    BY <1>1, <1>6, <1>7, <2>1, <2>4, Zenon DEF StoreInv, FilesInv, JobInv
<1> QED
  BY <1>9, <1>10, <1>11 DEF StoreInv

\* Finishing the replay keeps the invariant.
LEMMA ReplayDoneInv == StoreInv /\ ReplayDone => StoreInv'
<1> SUFFICES ASSUME StoreInv, ReplayDone PROVE StoreInv'
  OBVIOUS
<1>1. pc = "replay" /\ pc' = "gc" /\ UNCHANGED <<disk, mem, job, firm, faults>>
  BY DEF ReplayDone
<1>2. TypeOK'
  BY <1>1, Zenon DEF StoreInv, TypeOK, disk, mem
<1>3. JobInv'
  BY <1>1, Zenon DEF StoreInv, JobInv, disk, mem
<1>4. FilesInv'
  BY <1>1 DEF StoreInv, FilesInv, OnDisk, Covered, disk, mem
<1> QED
  BY <1>2, <1>3, <1>4 DEF StoreInv

\* Starting the new WAL of a recovered store keeps the invariant.
LEMMA StartWalInv == StoreInv /\ StartWal => StoreInv'
<1> SUFFICES ASSUME StoreInv, StartWal PROVE StoreInv'
  OBVIOUS
<1> DEFINE S   == DOMAIN wal \cup {0}
           new == Greatest(S) + 1
<1>1. /\ pc = "newwal" /\ pc' = "trim"
      /\ wal' = Put(wal, new, << >>) /\ synced' = Put(synced, new, 0)
      /\ ctr' = [ctr EXCEPT !.walSeq = new]
      /\ UNCHANGED <<manifest, segs, dels, idx, dirs, keys, colls, nameIndex, job, firm, faults>>
  BY DEF StartWal
<1>2. new \in Nat
  <2>1. S \in SUBSET Nat /\ S # {}
    <3>1. DOMAIN wal \subseteq Nat
      BY Zenon DEF StoreInv, TypeOK, IsMap, MapOn
    <3> QED
      BY <3>1
  <2>2. PICK b \in S : \A q \in S : q <= b
    <3>1. PICK m \in S : \A q \in DOMAIN wal : q <= m
      BY Zenon DEF StoreInv, JobInv, Bounded
    <3>2. m \in Nat
      BY <2>1
    <3>3. \A q \in S : q <= m
      BY <3>1, <3>2
    <3> QED
      BY <3>3
  <2> HIDE DEF S
  <2>3. Greatest(S) \in S
    BY <2>1, <2>2, GreatestProperties
  <2>4. Greatest(S) \in Nat
    BY <2>1, <2>3, Zenon
  <2> QED
    BY <2>4
<1> HIDE DEF new, S
<1>3. /\ IsMap(wal', Nat, Seq(Frame \cup {TornFrame}))
      /\ IsMap(synced', Nat, Nat) /\ DOMAIN synced' = DOMAIN wal'
      /\ Bounded(DOMAIN wal')
  BY <1>1, <1>2, NewWalFile, Zenon
<1>4. ctr' \in CtrType /\ ctr'.lsn = ctr.lsn /\ ctr'.version = ctr.version
  BY <1>1, <1>2, TypeFacts, Zenon DEF CtrType
<1>5. TypeOK'
  BY <1>1, <1>3, <1>4, Zenon DEF StoreInv, TypeOK, CtrType
<1>6. JobInv'
  BY <1>1, <1>3, <1>4, Zenon DEF StoreInv, JobInv
<1>7. FilesInv'
  BY <1>1, <1>4 DEF StoreInv, FilesInv, OnDisk, Covered
<1> QED
  BY <1>5, <1>6, <1>7, Zenon DEF StoreInv

-----------------------------------------------------------------------------
(* Faults.                                                                 *)

\* A cut WAL file is a WAL file.
LEMMA CutAtType ==
  ASSUME NEW S, NEW frames \in Seq(S \cup {TornFrame}), NEW n \in Int, n <= Len(frames),
         NEW torn \in BOOLEAN
  PROVE  CutAt(frames, n, torn) \in Seq(S \cup {TornFrame})
<1>1. SubSeq(frames, 1, n) \in Seq(S \cup {TornFrame})
  <2>1. CASE n >= 0
    BY <2>1
  <2>2. CASE n < 0
    <3>1. SubSeq(frames, 1, n) = << >>
      BY <2>2
    <3> QED
      BY <3>1
  <2> QED
    BY <2>1, <2>2
<1>2. <<TornFrame>> \in Seq(S \cup {TornFrame}) /\ << >> \in Seq(S \cup {TornFrame})
  OBVIOUS
<1> DEFINE kept == SubSeq(frames, 1, n)
           rest == IF torn /\ n < Len(frames) THEN <<TornFrame>> ELSE << >>
<1>3. kept \in Seq(S \cup {TornFrame}) /\ rest \in Seq(S \cup {TornFrame})
  BY <1>1, <1>2, Zenon
<1>4. CutAt(frames, n, torn) = kept \o rest
  BY DEF CutAt
<1> HIDE DEF kept, rest
<1> QED
  BY <1>3, <1>4

\* Losing memory keeps the invariant, whatever remains of the WAL.
LEMMA CrashInv ==
  ASSUME StoreInv, Crash, faults' \in [kills : Nat, power : Nat, errors : Nat],
         IsMap(wal', Nat, Seq(Frame \cup {TornFrame})), IsMap(synced', Nat, Nat),
         DOMAIN wal' = DOMAIN wal, DOMAIN synced' = DOMAIN wal
  PROVE  StoreInv'
<1>1. /\ pc' = "down" /\ job' = NoJob
      /\ colls' = EmptyMap /\ nameIndex' = EmptyMap /\ ctr' = NoCtr
      /\ UNCHANGED <<manifest, segs, dels, idx, dirs, keys, firm>>
  BY DEF Crash
<1>2. /\ IsJob(job') /\ DOMAIN job'.new = {} /\ job'.snaps = {} /\ job'.cq = {}
  BY <1>1, NoJobType, Zenon DEF NoJob
<1>3. DOMAIN colls' = {} /\ MapOn(colls', Nat) /\ IsMap(nameIndex', Names, Nat)
  BY <1>1, EmptyMapProperties, Zenon
<1>4. TypeOK'
  BY <1>1, <1>2, <1>3, Zenon DEF StoreInv, TypeOK, NoCtr
<1>5. JobInv'
  BY <1>1, <1>2, Zenon DEF StoreInv, JobInv
<1>6. FilesInv'
  BY <1>1, <1>2, <1>3 DEF StoreInv, FilesInv, OnDisk
<1> QED
  BY <1>4, <1>5, <1>6, Zenon DEF StoreInv

\* What an append that was cut short leaves of the current WAL file.
LEMMA ShortAppend ==
  ASSUME StoreInv, pc = "sync", NEW k \in 0..Len(job.batch), NEW torn \in BOOLEAN,
         wal' = [wal EXCEPT ![ctr.walSeq] = CutAt(@, Len(@) - k, torn)]
  PROVE  IsMap(wal', Nat, Seq(Frame \cup {TornFrame})) /\ DOMAIN wal' = DOMAIN wal
<1> DEFINE q == ctr.walSeq
<1>1. IsMap(wal, Nat, Seq(Frame \cup {TornFrame})) /\ job.batch \in Seq(Frame)
  BY DEF StoreInv, TypeOK, IsJob
<1>2. ASSUME q \in DOMAIN wal
      PROVE  CutAt(wal[q], Len(wal[q]) - k, torn) \in Seq(Frame \cup {TornFrame})
  <2>1. wal[q] \in Seq(Frame \cup {TornFrame})
    BY <1>1, <1>2 DEF IsMap
  <2>2. Len(wal[q]) - k \in Int /\ Len(wal[q]) - k <= Len(wal[q])
    BY <1>1, <2>1
  <2> QED
    BY <2>1, <2>2, CutAtType, Zenon
<1> QED
  BY <1>1, <1>2, UpdateProperties, Zenon

\* A kill of the process, at any step, keeps the invariant.
LEMMA KillInv == StoreInv /\ Kill => StoreInv'
<1> SUFFICES ASSUME StoreInv, Kill PROVE StoreInv'
  OBVIOUS
<1>1. /\ Crash /\ synced' = synced /\ faults' = [faults EXCEPT !.kills = @ + 1]
      /\ \/ wal' = wal
         \/ /\ pc = "sync"
            /\ \E k \in 0..Len(job.batch), torn \in BOOLEAN :
                 wal' = [wal EXCEPT ![ctr.walSeq] = CutAt(@, Len(@) - k, torn)]
  BY DEF Kill
<1>2. /\ IsMap(wal, Nat, Seq(Frame \cup {TornFrame}))
      /\ IsMap(synced, Nat, Nat) /\ DOMAIN synced = DOMAIN wal
      /\ faults \in [kills : Nat, power : Nat, errors : Nat]
  BY DEF StoreInv, TypeOK
<1>3. IsMap(wal', Nat, Seq(Frame \cup {TornFrame})) /\ DOMAIN wal' = DOMAIN wal
  BY <1>1, <1>2, ShortAppend, Zenon
<1>4. faults' \in [kills : Nat, power : Nat, errors : Nat]
  BY <1>1, <1>2
<1> QED
  BY <1>1, <1>2, <1>3, <1>4, CrashInv, Zenon

\* A power loss, at any step, keeps the invariant.
LEMMA PowerLossInv == StoreInv /\ PowerLoss => StoreInv'
<1> SUFFICES ASSUME StoreInv, PowerLoss PROVE StoreInv'
  OBVIOUS
<1>1. PICK cut \in [DOMAIN wal -> 0..MaxLsn], torn \in BOOLEAN :
         /\ \A q \in DOMAIN wal : synced[q] <= cut[q] /\ cut[q] <= Len(wal[q])
         /\ wal' = [q \in DOMAIN wal |-> CutAt(wal[q], cut[q], torn)]
         /\ synced' = [q \in DOMAIN wal |-> Len(wal'[q])]
  BY Zenon DEF PowerLoss
<1>2. Crash /\ faults' = [faults EXCEPT !.power = @ + 1]
  BY DEF PowerLoss
<1>3. /\ IsMap(wal, Nat, Seq(Frame \cup {TornFrame}))
      /\ faults \in [kills : Nat, power : Nat, errors : Nat]
  BY DEF StoreInv, TypeOK
<1>4. \A q \in DOMAIN wal : CutAt(wal[q], cut[q], torn) \in Seq(Frame \cup {TornFrame})
  <2> TAKE q \in DOMAIN wal
  <2>1. wal[q] \in Seq(Frame \cup {TornFrame}) /\ cut[q] \in Int /\ cut[q] <= Len(wal[q])
    BY <1>1, <1>3, StoreAssumption, SMTT(60) DEF IsMap
  <2> QED
    BY <2>1, CutAtType, Zenon
<1>5. IsMap(wal', Nat, Seq(Frame \cup {TornFrame})) /\ DOMAIN wal' = DOMAIN wal
  BY <1>1, <1>3, <1>4 DEF IsMap, MapOn
<1>6. IsMap(synced', Nat, Nat) /\ DOMAIN synced' = DOMAIN wal
  <2>1. \A q \in DOMAIN wal : q \in Nat /\ Len(wal'[q]) \in Nat
    BY <1>5 DEF IsMap, MapOn
  <2> QED
    BY <1>1, <2>1 DEF IsMap, MapOn
<1>7. faults' \in [kills : Nat, power : Nat, errors : Nat]
  BY <1>2, <1>3
<1> QED
  BY <1>2, <1>5, <1>6, <1>7, CrashInv, Zenon

\* An operation that returns an I/O error leaves memory and the files alone.
LEMMA FailsInv ==
  ASSUME StoreInv, pc # "down", NEW kind, Fails(kind), ctr' = ctr,
         IsMap(wal', Nat, Seq(Frame \cup {TornFrame})), IsMap(synced', Nat, Nat),
         DOMAIN synced' = DOMAIN wal', Bounded(DOMAIN wal'),
         manifest' = manifest \/ ManifestOK(manifest')
  PROVE  StoreInv'
<1>1. /\ pc' = "idle" /\ job' = NoJob /\ faults' = [faults EXCEPT !.errors = @ + 1]
      /\ UNCHANGED <<segs, dels, idx, dirs, keys, colls, nameIndex, firm>>
  BY DEF Fails
<1>2. /\ IsJob(job') /\ DOMAIN job'.new = {} /\ job'.snaps = {} /\ job'.cq = {}
  BY <1>1, NoJobType DEF NoJob
<1>3. ManifestOK(manifest')
  <2>1. ManifestOK(manifest)
    BY Zenon DEF StoreInv, TypeOK, FilesInv, ManifestOK
  <2>2. CASE manifest' = manifest
    BY <1>1, <2>1, <2>2 DEF ManifestOK, OnDisk
  <2> QED
    BY <2>2
<1>4. faults' \in [kills : Nat, power : Nat, errors : Nat]
  <2>1. faults \in [kills : Nat, power : Nat, errors : Nat]
    BY Zenon DEF StoreInv, TypeOK
  <2> QED
    BY <1>1, <2>1
<1>5. TypeOK'
  BY <1>1, <1>2, <1>3, <1>4, Zenon DEF StoreInv, TypeOK, ManifestOK
<1>6. JobInv'
  BY <1>1, <1>2 DEF StoreInv, JobInv
<1>7. FilesInv'
  <2>1. (\A c \in DOMAIN manifest.colls : OnDisk(c, manifest.colls[c]))'
    BY <1>1, <1>3 DEF ManifestOK, OnDisk
  <2> QED
    BY <1>1, <1>2, <2>1, Zenon DEF StoreInv, FilesInv, OnDisk
<1> QED
  BY <1>5, <1>6, <1>7 DEF StoreInv

\* An I/O error, at any step that handles one, keeps the invariant.
LEMMA ErrorInv ==
  StoreInv /\ (AppendFails \/ SealFails \/ SwapFails \/ RotateFails) => StoreInv'
<1> SUFFICES ASSUME StoreInv, AppendFails \/ SealFails \/ SwapFails \/ RotateFails
             PROVE  StoreInv'
  OBVIOUS
<1>1. /\ IsMap(wal, Nat, Seq(Frame \cup {TornFrame})) /\ IsMap(synced, Nat, Nat)
      /\ DOMAIN synced = DOMAIN wal /\ Bounded(DOMAIN wal)
  BY DEF StoreInv, TypeOK, JobInv
<1>2. CASE AppendFails
  <2>1. /\ pc = "sync" /\ Fails("append") /\ manifest' = manifest /\ synced' = synced /\ ctr' = ctr
        /\ \E k \in 0..Len(job.batch), torn \in BOOLEAN :
             wal' = [wal EXCEPT ![ctr.walSeq] = CutAt(@, Len(@) - k, torn)]
    BY <1>2, Zenon DEF AppendFails
  <2>2. IsMap(wal', Nat, Seq(Frame \cup {TornFrame})) /\ DOMAIN wal' = DOMAIN wal
    BY <2>1, ShortAppend, Zenon
  <2> QED
    BY <1>1, <2>1, <2>2, FailsInv, Zenon
<1>3. CASE SealFails
  <2>1. pc # "down" /\ Fails("seal") /\ UNCHANGED <<manifest, wal, synced, ctr>>
    BY <1>3 DEF SealFails
  <2> QED
    BY <1>1, <2>1, FailsInv
<1>4. CASE SwapFails
  <2>1. /\ Fails("swap") /\ UNCHANGED <<wal, synced, ctr>>
        /\ \/ pc = "seal" /\ manifest' = CheckpointManifest
           \/ pc = "merged" /\ manifest' = CompactManifest
    BY <1>4 DEF SwapFails, Swapped
  <2>2. ManifestOK(manifest')
    <3>1. CASE pc = "seal" /\ manifest' = CheckpointManifest
      BY <3>1, CheckpointManifestOK
    <3>2. CASE pc = "merged" /\ manifest' = CompactManifest
      BY <3>2, CompactManifestOK
    <3> QED
      BY <2>1, <3>1, <3>2, Zenon
  <2> QED
    BY <1>1, <2>1, <2>2, FailsInv, Zenon
<1>5. CASE RotateFails
  <2>1. /\ pc # "down" /\ Fails("rotate") /\ UNCHANGED <<manifest, ctr>>
        /\ wal' = Put(wal, ctr.walSeq + 1, << >>) /\ synced' = Put(synced, ctr.walSeq + 1, 0)
    BY <1>5 DEF RotateFails
  <2>2. ctr.walSeq + 1 \in Nat
    BY TypeFacts DEF CtrType
  <2>3. /\ IsMap(wal', Nat, Seq(Frame \cup {TornFrame}))
        /\ IsMap(synced', Nat, Nat) /\ DOMAIN synced' = DOMAIN wal'
        /\ Bounded(DOMAIN wal')
    BY <2>1, <2>2, NewWalFile, Zenon
  <2> QED
    BY <2>1, <2>3, FailsInv, Zenon
<1> QED
  BY <1>2, <1>3, <1>4, <1>5

-----------------------------------------------------------------------------
(* The theorems.                                                           *)

\* Starting a checkpoint or a compaction keeps the invariant.
LEMMA MaintainInv == StoreInv /\ Maintain => StoreInv'
<1> SUFFICES ASSUME StoreInv, Maintain PROVE StoreInv'
  OBVIOUS
<1>1. ASSUME NEW blobs \in Snapshots, Checkpoint(blobs) PROVE StoreInv'
  <2>1. PICK S \in SUBSET DOMAIN colls : blobs \in [S -> Blobs]
    BY DEF Snapshots
  <2>2. DOMAIN colls \subseteq Nat
    BY TypeFacts DEF CollsOK, MapOn
  <2>3. IsMap(blobs, Nat, Blobs)
    BY <2>1, <2>2 DEF IsMap, MapOn
  <2> QED
    BY <1>1, <2>3, CheckpointInv
<1> QED
  BY <1>1, CompactInv DEF Maintain

\* Every step of the running operation keeps the invariant.
LEMMA ProceedInv == StoreInv /\ Proceed => StoreInv'
<1> SUFFICES ASSUME StoreInv, Proceed PROVE StoreInv'
  OBVIOUS
<1>1. IsMap(EmptyMap, Nat, Blobs)
  BY EmptyMapProperties
<1>2. CASE Checkpoint(EmptyMap)
  BY <1>1, <1>2, CheckpointInv
<1>3. CASE SyncWal \/ ApplyFrame \/ WriteDel \/ SealActive \/ WriteIndexSnapshot \/ RewriteManifest
  BY <1>3, SyncWalInv, ApplyFrameInv, WriteDelInv, SealActiveInv, WriteIndexSnapshotInv,
     RewriteManifestInv, Zenon
<1>4. CASE SwapCheckpoint \/ RotateWal \/ TrimWal \/ GcDone \/ ShredKey
  BY <1>4, SwapCheckpointInv, RotateWalInv, TrimWalInv, GcDoneInv, ShredKeyInv, Zenon
<1>5. CASE GcShredKey \/ GcRemoveDir \/ GcSegment \/ GcIndexSnapshot
  BY <1>5, GcInv
<1>6. CASE MergeSegments \/ SwapCompaction
  BY <1>6, MergeSegmentsInv, SwapCompactionInv
<1>7. CASE Open \/ ReplayFrame \/ ReplayDone \/ StartWal
  BY <1>7, OpenInv, ReplayFrameInv, ReplayDoneInv, StartWalInv
<1> QED
  BY <1>2, <1>3, <1>4, <1>5, <1>6, <1>7, Zenon DEF Proceed

\* A step of the engine, a fault or a stutter keeps the invariant.
LEMMA StepInv == StoreInv /\ [Next]_vars => StoreInv'
<1> SUFFICES ASSUME StoreInv, [Next]_vars PROVE StoreInv'
  OBVIOUS
<1>1. CASE Mutate
  BY <1>1, MutateInv
<1>2. CASE Maintain
  BY <1>2, MaintainInv, Zenon
<1>3. CASE Proceed
  BY <1>3, ProceedInv
<1>4. CASE Fault
  BY <1>4, KillInv, PowerLossInv, ErrorInv, Zenon DEF Fault
<1>5. CASE UNCHANGED vars
  <2>1. TypeOK'
    BY <1>5 DEF StoreInv, TypeOK, vars
  <2>2. JobInv'
    <3>1. WalTail' = WalTail
      BY <1>5 DEF WalTail, vars
    <3> QED
      BY <1>5, <3>1, Zenon DEF StoreInv, JobInv, vars
  <2>3. FilesInv'
    BY <1>5, Zenon DEF StoreInv, FilesInv, OnDisk, Covered, vars
  <2> QED
    BY <2>1, <2>2, <2>3, Zenon DEF StoreInv
<1> QED
  BY <1>1, <1>2, <1>3, <1>4, <1>5, Zenon DEF Next, Wait

\* The inductive invariant holds in every reachable state.
THEOREM StoreInvariant == Spec => []StoreInv
<1> QED
  BY InitInv, StepInv, PTL DEF Spec

\* The engine's disk, memory and control state keep their types through every
\* operation, crash, power loss, I/O error and recovery.
THEOREM TypeCorrect == Spec => []TypeOK
<1>1. StoreInv => TypeOK
  BY DEF StoreInv
<1> QED
  BY <1>1, StoreInvariant, PTL

\* Every segment and index snapshot the manifest in force names is on disk at
\* every step: garbage collection, compaction and the checkpoint's order of
\* writes never leave CURRENT naming a file that is gone or not written yet.
THEOREM FilesOnDisk == Spec => []ReferencedFilesExist
<1>1. StoreInv => ReferencedFilesExist
  BY DEF StoreInv, FilesInv, OnDisk, ReferencedFilesExist
<1> QED
  BY <1>1, StoreInvariant, PTL

-----------------------------------------------------------------------------
(* Index snapshots and the floor.                                          *)

\* Memory holds the same promise for its own floor: compaction writes a
\* manifest from memory alone.
SnapInv ==
  /\ SnapshotAtFloor
  /\ \A c \in DOMAIN colls : \A r \in colls[c].snap : r.lsn = ctr.floor

\* A step that keeps the manifest and the floor, and of every collection it
\* keeps, the snapshot reference.
SnapFrame ==
  /\ manifest'.colls = manifest.colls /\ manifest'.floor = manifest.floor
  /\ ctr'.floor = ctr.floor
  /\ \A c \in DOMAIN colls' :
       colls'[c].snap = {} \/ (c \in DOMAIN colls /\ colls'[c].snap = colls[c].snap)

\* A step that frames the snapshot references keeps the invariant.
LEMMA SnapFrameInv == SnapInv /\ SnapFrame => SnapInv'
  BY DEF SnapInv, SnapFrame, SnapshotAtFloor

\* Applying a WAL record leaves the snapshot references alone.
LEMMA AppliedSnap ==
  ASSUME StoreInv, pc # "down", NEW e \in Frame, colls' = AppliedColls(colls, e)
  PROVE  \A c \in DOMAIN colls' :
           colls'[c].snap = {} \/ (c \in DOMAIN colls /\ colls'[c].snap = colls[c].snap)
  BY TypeFacts, AppliedCollsType

\* No call of the write API touches a snapshot reference or the floor.
LEMMA MutateSnap == StoreInv /\ Mutate => SnapFrame
<1> SUFFICES ASSUME StoreInv, Mutate PROVE SnapFrame
  OBVIOUS
<1>1. ctr \in CtrType
  BY TypeFacts, SMTT(60)
<1>2. UNCHANGED <<manifest, colls>> /\ (ctr' = ctr \/ \E k : ctr' = [ctr EXCEPT !.lsn = k])
  BY Zenon DEF Mutate, CreateCollection, DropCollection, ShredCollection, DropWith, Delete, Upsert,
         UpsertBatch, Begin
<1> QED
  BY <1>1, <1>2 DEF SnapFrame, CtrType

\* Neither do the fsync, the application of a record and its replay.
LEMMA ApplySnap == StoreInv /\ (SyncWal \/ ApplyFrame \/ ReplayFrame) => SnapFrame
<1> SUFFICES ASSUME StoreInv, SyncWal \/ ApplyFrame \/ ReplayFrame PROVE SnapFrame
  OBVIOUS
<1>1. ctr \in CtrType /\ IsJob(job)
  BY TypeFacts
<1>2. CASE SyncWal
  <2>1. /\ UNCHANGED <<manifest, colls>> /\ \E k : ctr' = [ctr EXCEPT !.lsn = k]
    BY <1>2, Zenon DEF SyncWal
  <2> QED
    BY <1>1, <2>1 DEF SnapFrame, CtrType
<1>3. CASE ApplyFrame
  <2>1. /\ pc = "apply" /\ manifest' = manifest /\ colls' = AppliedColls(colls, Head(job.batch))
        /\ ctr' = ctr \/ ctr' = [ctr EXCEPT !.cid = @ + 1]
    BY <1>3 DEF ApplyFrame, disk
  <2>2. Head(job.batch) \in Frame
    <3>1. job.batch \in Seq(Frame) /\ job.batch # << >>
      BY <1>1, <2>1 DEF IsJob, StoreInv, JobInv
    <3> QED
      BY <3>1
  <2>3. ctr'.floor = ctr.floor
    BY <1>1, <2>1 DEF CtrType
  <2> QED
    BY <2>1, <2>2, <2>3, AppliedSnap, Zenon DEF SnapFrame
<1>4. CASE ReplayFrame
  <2> DEFINE t == First(job.rest)
             e == wal[t[1]][t[2]]
  <2>1. /\ pc = "replay" /\ job.rest # {} /\ manifest' = manifest
        /\ colls' = AppliedColls(colls, e)
        /\ \E k, l : ctr' = [ctr EXCEPT !.lsn = k, !.cid = l]
    BY <1>4, Zenon DEF ReplayFrame, disk
  <2>2. e \in Frame
    <3>1. job.rest \in SUBSET (Nat \X Nat) /\ job.rest \subseteq WalTail
      BY <1>1, <2>1, Zenon DEF IsJob, StoreInv, JobInv
    <3>2. t \in WalTail
      BY <2>1, <3>1, FirstProperties
    <3> HIDE DEF t
    <3> QED
      BY <3>2, WalTailType, Zenon
  <2>3. ctr'.floor = ctr.floor
    BY <1>1, <2>1 DEF CtrType
  <2> HIDE DEF e
  <2> QED
    BY <2>1, <2>2, <2>3, AppliedSnap, Zenon DEF SnapFrame
<1> QED
  BY <1>2, <1>3, <1>4

\* The steps of maintenance that are not a swap of the manifest.
LEMMA QuietSnap ==
  ASSUME StoreInv,
         \/ \E blobs : Checkpoint(blobs)
         \/ Compact \/ WriteDel \/ SealActive \/ WriteIndexSnapshot \/ RewriteManifest
         \/ RotateWal \/ TrimWal \/ GcShredKey \/ GcRemoveDir \/ GcSegment
         \/ GcIndexSnapshot \/ GcDone \/ ShredKey \/ MergeSegments
         \/ ReplayDone \/ StartWal \/ AppendFails \/ SealFails \/ RotateFails
         \/ UNCHANGED vars
  PROVE  SnapFrame
<1>1. ctr \in CtrType /\ manifest \in [version : Nat, floor : Nat, cid : Nat, seg : Nat,
                                       intact : BOOLEAN, colls : {manifest.colls}]
  BY TypeFacts, Zenon DEF StoreInv, TypeOK
<1>2. /\ colls' = colls
      /\ manifest' = manifest \/ manifest' = [manifest EXCEPT !.intact = FALSE]
      /\ ctr' = ctr \/ \E k : \/ ctr' = [ctr EXCEPT !.seg = k]
                              \/ ctr' = [ctr EXCEPT !.walSeq = k]
  BY Zenon DEF Checkpoint, Compact, WriteDel, SealActive, WriteIndexSnapshot, RewriteManifest,
         RotateWal, TrimWal, GcShredKey, GcRemoveDir, GcSegment, GcIndexSnapshot, GcDone,
         ShredKey, MergeSegments, ReplayDone, StartWal, AppendFails, SealFails, RotateFails,
         Fails, disk, mem, vars
<1>3. ctr'.floor = ctr.floor
  BY <1>1, <1>2 DEF CtrType
<1>4. manifest'.colls = manifest.colls /\ manifest'.floor = manifest.floor
  BY <1>1, <1>2
<1> QED
  BY <1>2, <1>3, <1>4, Zenon DEF SnapFrame

\* The swap of a checkpoint, in the manifest it writes and in memory.
LEMMA CheckpointSnap ==
  ASSUME StoreInv, pc = "seal"
  PROVE  \A c \in DOMAIN CheckpointManifest.colls :
           \A r \in CheckpointManifest.colls[c].snap : r.lsn = CheckpointManifest.floor
<1>1. CheckpointManifest.floor = ctr.lsn - 1
  BY DEF CheckpointManifest
<1>2. \A c : \A r \in NewSnap(c) : r.lsn = ctr.lsn - 1
  BY DEF NewSnap
<1>3. \A c \in DOMAIN CheckpointManifest.colls : CheckpointManifest.colls[c].snap = NewSnap(c)
  BY CheckpointManifestOK, Zenon
<1> QED
  BY <1>1, <1>2, <1>3, Zenon

\* A compaction writes the references and the floor that memory holds.
LEMMA CompactSnap ==
  ASSUME StoreInv, SnapInv, pc = "merged"
  PROVE  \A c \in DOMAIN CompactManifest.colls :
           \A r \in CompactManifest.colls[c].snap : r.lsn = CompactManifest.floor
<1>1. CompactManifest.floor = ctr.floor
  BY DEF CompactManifest
<1> QED
  BY <1>1, CompactManifestOK DEF SnapInv

\* The two swaps of CURRENT keep the invariant: a checkpoint references only
\* the snapshots it wrote, stamped with the floor it sets.
LEMMA SwapSnap ==
  StoreInv /\ SnapInv /\ (SwapCheckpoint \/ SwapCompaction \/ SwapFails) => SnapInv'
<1> SUFFICES ASSUME StoreInv, SnapInv, SwapCheckpoint \/ SwapCompaction \/ SwapFails
             PROVE  SnapInv'
  OBVIOUS
<1>1. CollsOK(colls) /\ ctr \in CtrType
  BY TypeFacts
<1>2. CASE SwapCheckpoint
  <2>1. /\ pc = "seal" /\ manifest' = CheckpointManifest
        /\ colls' = [c \in DOMAIN colls |-> Folded(c, colls[c])]
        /\ ctr' = [ctr EXCEPT !.version = @ + 1, !.floor = ctr.lsn - 1]
    BY <1>2 DEF SwapCheckpoint, Swapped
  <2>2. SnapshotAtFloor'
    BY <2>1, CheckpointSnap DEF SnapshotAtFloor
  <2>3. \A c \in DOMAIN colls : colls'[c].snap = NewSnap(c)
    BY <2>1, FoldedType
  <2>4. ctr'.floor = ctr.lsn - 1 /\ DOMAIN colls' = DOMAIN colls
    BY <1>1, <2>1 DEF CtrType
  <2>5. \A c : \A r \in NewSnap(c) : r.lsn = ctr.lsn - 1
    BY DEF NewSnap
  <2> QED
    BY <2>2, <2>3, <2>4, <2>5, SMTT(60) DEF SnapInv
<1>3. CASE SwapCompaction
  <2> DEFINE cid == Least(job.cq)
  <2>1. /\ pc = "merged" /\ manifest' = CompactManifest
        /\ colls' = [colls EXCEPT ![cid] = Merged(cid, @)]
        /\ ctr' = [ctr EXCEPT !.version = @ + 1]
    BY <1>3 DEF SwapCompaction, Swapped
  <2>2. SnapshotAtFloor'
    BY <2>1, CompactSnap DEF SnapshotAtFloor
  <2> HIDE DEF cid
  <2>3. ctr'.floor = ctr.floor
    BY <1>1, <2>1 DEF CtrType
  <2>4. \A c \in DOMAIN colls : Merged(c, colls[c]).snap = colls[c].snap
    BY <1>1 DEF CollsOK, IsColl, Merged
  <2>5. DOMAIN colls' = DOMAIN colls /\ \A c \in DOMAIN colls : colls'[c].snap = colls[c].snap
    BY <1>1, <2>1, <2>4 DEF CollsOK, MapOn
  <2> QED
    BY <2>2, <2>3, <2>5, Zenon DEF SnapInv
<1>4. CASE SwapFails
  <2>1. /\ UNCHANGED <<colls, ctr>>
        /\ \/ pc = "seal" /\ manifest' = CheckpointManifest
           \/ pc = "merged" /\ manifest' = CompactManifest
    BY <1>4 DEF SwapFails, Swapped, Fails
  <2>2. SnapshotAtFloor'
    BY <2>1, CheckpointSnap, CompactSnap DEF SnapshotAtFloor
  <2> QED
    BY <2>1, <2>2 DEF SnapInv
<1> QED
  BY <1>2, <1>3, <1>4

\* A kill or a power loss keeps the invariant: the manifest in force survives.
LEMMA CrashSnap == StoreInv /\ SnapInv /\ (Kill \/ PowerLoss) => SnapInv'
<1> SUFFICES ASSUME SnapInv, Kill \/ PowerLoss PROVE SnapInv'
  OBVIOUS
<1>1. manifest' = manifest /\ colls' = EmptyMap
  BY DEF Kill, PowerLoss, Crash
<1>2. DOMAIN colls' = {}
  BY <1>1, EmptyMapProperties
<1> QED
  BY <1>1, <1>2 DEF SnapInv, SnapshotAtFloor

\* Recovery takes the references and the floor from the same manifest.
LEMMA OpenSnap == StoreInv /\ SnapInv /\ Open => SnapInv'
<1> SUFFICES ASSUME SnapInv, Open PROVE SnapInv'
  OBVIOUS
<1>1. /\ manifest' = manifest /\ ctr'.floor = manifest.floor
      /\ DOMAIN colls' = DOMAIN manifest.colls
      /\ \A c \in DOMAIN manifest.colls : colls'[c] = Opened(c, manifest.colls[c])
  BY DEF Open, disk
<1>2. \A c, e : Opened(c, e).snap = e.snap
  BY DEF Opened
<1> QED
  BY <1>1, <1>2 DEF SnapInv, SnapshotAtFloor

\* Every step keeps the invariant.
LEMMA SnapStep == StoreInv /\ SnapInv /\ [Next]_vars => SnapInv'
<1> SUFFICES ASSUME StoreInv, SnapInv, [Next]_vars PROVE SnapInv'
  OBVIOUS
<1>1. CASE Mutate
  BY <1>1, MutateSnap, SnapFrameInv
<1>2. CASE SyncWal \/ ApplyFrame \/ ReplayFrame
  BY <1>2, ApplySnap, SnapFrameInv
<1>3. CASE SwapCheckpoint \/ SwapCompaction \/ SwapFails
  BY <1>3, SwapSnap
<1>4. CASE Kill \/ PowerLoss
  BY <1>4, CrashSnap
<1>5. CASE Open
  BY <1>5, OpenSnap
<1>6. CASE \/ \E blobs : Checkpoint(blobs)
           \/ Compact \/ WriteDel \/ SealActive \/ WriteIndexSnapshot \/ RewriteManifest
           \/ RotateWal \/ TrimWal \/ GcShredKey \/ GcRemoveDir \/ GcSegment
           \/ GcIndexSnapshot \/ GcDone \/ ShredKey \/ MergeSegments
           \/ ReplayDone \/ StartWal \/ AppendFails \/ SealFails \/ RotateFails
           \/ UNCHANGED vars
  BY <1>6, QuietSnap, SnapFrameInv
<1> QED
  BY <1>1, <1>2, <1>3, <1>4, <1>5, <1>6, Zenon DEF Next, Maintain, Proceed, Fault, Wait

\* An index snapshot the manifest in force references was taken at that
\* manifest's floor, so the log tail replayed over it starts exactly where it
\* ends: no checkpoint, compaction (which keeps the references and the floor)
\* or failed swap separates the two.
THEOREM SnapshotsAtFloor == Spec => []SnapshotAtFloor
<1>1. Init => SnapInv
  <2> SUFFICES ASSUME Init PROVE SnapInv
    OBVIOUS
  <2>1. /\ manifest = [version |-> 0, floor |-> 0, cid |-> 0, seg |-> 0,
                       colls |-> EmptyMap, intact |-> TRUE]
        /\ colls = EmptyMap
    BY Zenon DEF Init
  <2>2. manifest.colls = EmptyMap
    BY <2>1, Zenon
  <2> QED
    BY <2>1, <2>2, EmptyMapProperties, Zenon DEF SnapInv, SnapshotAtFloor
<1>2. SnapInv => SnapshotAtFloor
  BY DEF SnapInv
<1> QED
  BY <1>1, <1>2, SnapStep, StoreInvariant, PTL DEF Spec

-----------------------------------------------------------------------------
(* The file CURRENT names.                                                 *)

\* Memory and CURRENT agree on the version unless a swap reported an error
\* although it had happened.
VersionInv == manifest.intact /\ (pc # "down" => manifest.version = ctr.version)

\* Without an error after a rename, every step leaves memory at the version of
\* the manifest in force, so that no swap writes to a version already used.
LEMMA VersionStep ==
  ASSUME "swap" \notin Errors, StoreInv, VersionInv, [Next]_vars
  PROVE  VersionInv'
<1>1. /\ ctr \in CtrType
      /\ manifest \in [version : Nat, floor : Nat, cid : Nat, seg : Nat,
                       intact : BOOLEAN, colls : {manifest.colls}]
  BY TypeFacts, Zenon DEF StoreInv, TypeOK
<1>2. CASE SwapCheckpoint \/ SwapCompaction
  <2>1. /\ manifest' = CheckpointManifest \/ manifest' = CompactManifest
        /\ \/ ctr' = [ctr EXCEPT !.version = @ + 1, !.floor = ctr.lsn - 1]
           \/ ctr' = [ctr EXCEPT !.version = @ + 1]
    BY <1>2, Zenon DEF SwapCheckpoint, SwapCompaction, Swapped
  <2>2. ctr'.version = ctr.version + 1
    BY <1>1, <2>1 DEF CtrType
  <2>3. /\ CheckpointManifest.intact = TRUE /\ CheckpointManifest.version = ctr.version + 1
        /\ CompactManifest.intact = TRUE /\ CompactManifest.version = ctr.version + 1
    BY Zenon DEF CheckpointManifest, CompactManifest
  <2> QED
    BY <2>1, <2>2, <2>3, Zenon DEF VersionInv
<1>3. CASE RewriteManifest
  <2>1. pc # "down" /\ manifest.version = ctr.version + 1
    BY <1>3 DEF RewriteManifest, ReadyToSwap, Rewriting
  <2> QED
    BY <1>1, <2>1 DEF VersionInv, CtrType
<1>4. CASE SwapFails
  BY <1>4 DEF SwapFails, Fails
<1>5. CASE Kill \/ PowerLoss
  BY <1>5 DEF Kill, PowerLoss, Crash, VersionInv
<1>6. CASE Open
  BY <1>6 DEF Open, VersionInv, disk
<1>7. CASE Mutate
  <2>1. UNCHANGED manifest /\ pc = "idle" /\ (ctr' = ctr \/ \E k : ctr' = [ctr EXCEPT !.lsn = k])
    BY <1>7, Zenon DEF Mutate, CreateCollection, DropCollection, ShredCollection, DropWith, Delete,
                Upsert, UpsertBatch, Begin
  <2> QED
    BY <1>1, <2>1, Zenon DEF VersionInv, CtrType
<1>8. CASE SyncWal \/ ApplyFrame \/ ReplayFrame
  <2>1. UNCHANGED manifest /\ pc # "down" /\ ctr'.version = ctr.version
    <3>1. CASE SyncWal
      BY <1>1, <3>1, Zenon DEF SyncWal, CtrType
    <3>2. CASE ApplyFrame
      BY <1>1, <3>2, Zenon DEF ApplyFrame, CtrType, disk
    <3>3. CASE ReplayFrame
      BY <1>1, <3>3, Zenon DEF ReplayFrame, CtrType, disk
    <3> QED
      BY <1>8, <3>1, <3>2, <3>3, Zenon
  <2> QED
    BY <2>1 DEF VersionInv
<1>9. CASE \/ \E blobs : Checkpoint(blobs)
           \/ Compact \/ WriteDel \/ SealActive \/ WriteIndexSnapshot
           \/ RotateWal \/ TrimWal \/ GcShredKey \/ GcRemoveDir \/ GcSegment
           \/ GcIndexSnapshot \/ GcDone \/ ShredKey \/ MergeSegments
           \/ ReplayDone \/ StartWal \/ AppendFails \/ SealFails \/ RotateFails
           \/ UNCHANGED vars
  <2>1. /\ UNCHANGED manifest /\ (pc # "down" \/ pc' = pc)
        /\ ctr' = ctr \/ \E k : ctr' = [ctr EXCEPT !.seg = k] \/ ctr' = [ctr EXCEPT !.walSeq = k]
    BY <1>9, Zenon DEF Checkpoint, Compact, WriteDel, SealActive, WriteIndexSnapshot, Sealing,
           RotateWal, TrimWal, GcShredKey, GcRemoveDir, GcSegment, GcIndexSnapshot, GcDone,
           ShredKey, MergeSegments, ReplayDone, StartWal, AppendFails, SealFails, RotateFails,
           Fails, disk, mem, vars
  <2> QED
    BY <1>1, <2>1, Zenon DEF VersionInv, CtrType
<1> QED
  BY <1>2, <1>3, <1>4, <1>5, <1>6, <1>7, <1>8, <1>9, Zenon DEF Next, Maintain, Proceed, Fault, Wait

\* When no swap of CURRENT reports an error after the rename, a manifest file
\* is never opened for writing while CURRENT names it: each write_manifest
\* goes to a version above the one in force.
THEOREM ManifestsImmutable == "swap" \notin Errors => (Spec => []ManifestImmutable)
<1> SUFFICES ASSUME "swap" \notin Errors PROVE Spec => []ManifestImmutable
  OBVIOUS
<1>1. Init => VersionInv
  <2> SUFFICES ASSUME Init PROVE VersionInv
    OBVIOUS
  <2>1. /\ manifest = [version |-> 0, floor |-> 0, cid |-> 0, seg |-> 0,
                       colls |-> EmptyMap, intact |-> TRUE]
        /\ pc = "down"
    BY Zenon DEF Init
  <2>2. manifest.intact = TRUE
    BY <2>1, Zenon
  <2> QED
    BY <2>1, <2>2, Zenon DEF VersionInv
<1>2. StoreInv /\ VersionInv /\ [Next]_vars => VersionInv'
  BY VersionStep
<1>3. VersionInv => ManifestImmutable
  BY DEF VersionInv, ManifestImmutable
<1> QED
  BY <1>1, <1>2, <1>3, StoreInvariant, PTL DEF Spec

=============================================================================

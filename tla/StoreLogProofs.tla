--------------------------- MODULE StoreLogProofs ---------------------------
(***************************************************************************)
(* What the write-ahead log holds, step by step: the lemmas about single   *)
(* steps of QuiverStore that the theorems about the log rest on.  Like the *)
(* lemmas about rows they assume StoreInv before and after the step.       *)
(***************************************************************************)
EXTENDS StoreFacts

\* The engine appends to the file it opened last; at most the empty file of a failed
\* rotation lies above it.
HasLog == pc \notin {"down", "replay", "newwal"} /\ ~(pc = "gc" /\ job.opening)
FileInv ==
  /\ pc \in {"replay", "newwal"} => job.opening
  /\ job.opening => pc \in {"replay", "gc", "newwal", "trim"}
  /\ job.opening /\ pc # "trim" => job.trim \subseteq DOMAIN wal
  /\ ~job.opening /\ pc # "trim" => job.trim = {}
  /\ pc = "trim" => ctr.walSeq \notin job.trim
  /\ HasLog => ctr.walSeq \in DOMAIN wal /\ \A q \in DOMAIN wal : q <= ctr.walSeq + 1

-----------------------------------------------------------------------------
(* The steps that leave the log alone.                                     *)

LogSame ==
  /\ wal' = wal /\ synced' = synced
  /\ ctr'.lsn = ctr.lsn /\ ctr'.floor = ctr.floor /\ ctr'.walSeq = ctr.walSeq
  /\ faults'.kills = faults.kills /\ faults'.power = faults.power

\* One step of a loop, and waiting.
Stay == LogSame /\ pc' = pc /\ job' = job /\ manifest'.floor = manifest.floor

\* From one phase of an operation to the next.
Work ==
  /\ LogSame /\ HasLog /\ pc # "sync"
  /\ HasLog' /\ pc' \notin {"sync", "rotate", "trim"}
  /\ job'.opening = FALSE /\ job'.trim = {}
  /\ manifest'.floor \in {manifest.floor, ctr.floor, ctr.lsn - 1}

\* Garbage collection, the torn rewrite of a manifest and waiting are loops.
LEMMA StaySteps ==
  ASSUME StoreInv,
         \/ RewriteManifest \/ GcShredKey \/ GcRemoveDir \/ GcSegment \/ GcIndexSnapshot
         \/ UNCHANGED vars
  PROVE  Stay
<1>1. manifest \in [version : Nat, floor : Nat, cid : Nat, seg : Nat,
                    intact : BOOLEAN, colls : {manifest.colls}]
  BY DEF StoreInv, TypeOK
<1>2. /\ wal' = wal /\ synced' = synced /\ ctr' = ctr /\ faults' = faults /\ pc' = pc /\ job' = job
      /\ manifest' = manifest \/ manifest' = [manifest EXCEPT !.intact = FALSE]
  BY Zenon DEF RewriteManifest, GcShredKey, GcRemoveDir, GcSegment, GcIndexSnapshot, mem, vars
<1> QED
  BY <1>1, <1>2 DEF Stay, LogSame

\* The other steps between the append of one operation and the append of the next.
LEMMA WorkSteps ==
  ASSUME StoreInv, FileInv,
         \/ ApplyFrame \/ (\E blobs : Checkpoint(blobs)) \/ WriteDel \/ SealActive
         \/ WriteIndexSnapshot \/ (RotateWal /\ pc' = "idle") \/ (TrimWal /\ pc' # "trim")
         \/ (GcDone /\ ~job.opening) \/ ShredKey \/ Compact \/ MergeSegments \/ SwapCompaction
         \/ SealFails \/ SwapFails
  PROVE  Work
<1>1. ctr \in CtrType /\ IsJob(job) /\ faults \in [kills : Nat, power : Nat, errors : Nat]
  BY TypeFacts DEF StoreInv, TypeOK
<1>2. NoJob.opening = FALSE /\ NoJob.trim = {}
  BY DEF NoJob
<1>3. /\ pc \in {"idle", "apply", "checkpoint", "seal", "rotate", "trim", "gc", "compact",
                 "merged", "shred"}
      /\ pc' \in {"idle", "apply", "checkpoint", "seal", "gc", "compact", "merged", "shred"}
      /\ pc = "gc" => ~job.opening
      /\ pc = "trim" => job.trim = {}
      /\ wal' = wal /\ synced' = synced
      /\ faults' = faults \/ faults' = [faults EXCEPT !.errors = @ + 1]
      /\ ctr' = ctr \/ \E k : \/ ctr' = [ctr EXCEPT !.cid = k] \/ ctr' = [ctr EXCEPT !.seg = k]
                              \/ ctr' = [ctr EXCEPT !.version = k]
  <2>1. CASE ApplyFrame \/ (\E blobs : Checkpoint(blobs)) \/ WriteDel \/ SealActive
    BY <2>1 DEF ApplyFrame, Checkpoint, WriteDel, SealActive, Sealing, disk, mem
  <2>2. CASE WriteIndexSnapshot \/ (RotateWal /\ pc' = "idle") \/ (TrimWal /\ pc' # "trim")
    BY <2>2 DEF WriteIndexSnapshot, RotateWal, TrimWal, mem
  <2>3. CASE (GcDone /\ ~job.opening) \/ ShredKey \/ Compact \/ MergeSegments
    BY <2>3 DEF GcDone, ShredKey, Compact, MergeSegments, disk, mem
  <2>4. CASE SwapCompaction \/ SealFails \/ SwapFails
    BY <2>4 DEF SwapCompaction, SealFails, SwapFails, Fails, Swapped
  <2> QED
    BY <2>1, <2>2, <2>3, <2>4
<1>4. \/ job' = NoJob
      \/ job'.opening = FALSE /\ job'.trim = {}
      \/ pc # "trim" /\ ~job.opening /\ job'.opening = job.opening /\ job'.trim = job.trim
      \/ pc = "trim" /\ ~job.opening /\ job' = job
  <2>1. CASE ApplyFrame \/ WriteDel \/ SealActive \/ WriteIndexSnapshot
    <3>1. job'.opening = job.opening /\ job'.trim = job.trim
      BY <1>1, <2>1, Zenon DEF ApplyFrame, WriteDel, SealActive, WriteIndexSnapshot, IsJob
    <3>2. pc \in {"apply", "seal"}
      BY <2>1 DEF ApplyFrame, WriteDel, SealActive, WriteIndexSnapshot, Sealing
    <3> QED
      BY <3>1, <3>2 DEF FileInv
  <2>2. CASE \E blobs : Checkpoint(blobs)
    BY <2>2, Zenon DEF Checkpoint, NoJob
  <2>3. CASE MergeSegments \/ SwapCompaction
    <3>1. job'.opening = job.opening /\ job'.trim = job.trim
      BY <1>1, <2>3, Zenon DEF MergeSegments, SwapCompaction, IsJob
    <3>2. pc \in {"compact", "merged"}
      BY <2>3 DEF MergeSegments, SwapCompaction
    <3> QED
      BY <3>1, <3>2 DEF FileInv
  <2>4. CASE (RotateWal /\ pc' = "idle") \/ (TrimWal /\ pc' # "trim") \/ ShredKey \/ Compact
    BY <2>4 DEF RotateWal, TrimWal, ShredKey, Compact, NoJob
  <2>5. CASE (GcDone /\ ~job.opening) \/ SealFails \/ SwapFails
    BY <2>5 DEF GcDone, SealFails, SwapFails, Fails
  <2> QED
    BY <2>1, <2>2, <2>3, <2>4, <2>5
<1>5. job'.opening = FALSE /\ job'.trim = {}
  BY <1>1, <1>2, <1>3, <1>4 DEF FileInv, IsJob
<1>6. manifest'.floor \in {manifest.floor, ctr.floor, ctr.lsn - 1}
  <2>1. CASE manifest' = manifest
    BY <2>1
  <2>2. CASE SwapCompaction \/ SwapFails
    <3>1. manifest' = CompactManifest \/ manifest' = CheckpointManifest
      BY <2>2, Zenon DEF SwapCompaction, SwapFails, Swapped
    <3> QED
      BY <3>1 DEF CompactManifest, CheckpointManifest
  <2>3. manifest' = manifest \/ SwapCompaction \/ SwapFails
    BY Zenon DEF ApplyFrame, Checkpoint, WriteDel, SealActive, WriteIndexSnapshot, RotateWal, TrimWal,
                 GcDone, ShredKey, Compact, MergeSegments, SealFails, disk
  <2> QED
    BY <2>1, <2>2, <2>3
<1> QED
  BY <1>1, <1>3, <1>5, <1>6 DEF Work, LogSame, HasLog, CtrType

-----------------------------------------------------------------------------
\* A mutation appends its batch to the open file, with the next LSNs, for a collection
\* that is there or one that is to be created.
Appending ==
  LET b == job'.batch
  IN  /\ pc = "idle" /\ pc' = "sync" /\ b \in Seq(Frame) /\ Len(b) > 0
      /\ wal' = [wal EXCEPT ![ctr.walSeq] = @ \o b]
      /\ UNCHANGED <<manifest, synced, dirs, colls, nameIndex, faults>>
      /\ ctr' = ctr \/ ctr' = [ctr EXCEPT !.lsn = @ + Len(b)]
      /\ keys' = keys \/ Envelope
      /\ job'.opening = FALSE /\ job'.trim = {}
      /\ job'.shred = {} \/ (Len(b) = 1 /\ b[1].op = "drop" /\ job'.shred = {b[1].cid})
      /\ \A i \in 1..Len(b) :
           /\ b[i].lsn = ctr.lsn + i - 1
           /\ IF b[i].op = "create" THEN Len(b) = 1 /\ b[i].cid = ctr.cid
              ELSE b[i].cid \in DOMAIN colls \cup Image(nameIndex)

\* Every mutation is such an append.
LEMMA MutateAppends ==
  ASSUME StoreInv, StoreInv', Mutate
  PROVE  Appending
<1>1. job'.batch \in Seq(Frame) /\ ctr \in CtrType
  <2>1. IsJob(job')
    BY DEF StoreInv, TypeOK
  <2> QED
    BY <2>1, TypeFacts DEF IsJob
<1>2. ASSUME NEW frames, NEW n, NEW shred, Begin(frames, n, shred)
      PROVE  /\ pc' = "sync" /\ job'.batch = frames /\ job'.shred = shred
             /\ job'.opening = FALSE /\ job'.trim = {}
             /\ wal' = [wal EXCEPT ![ctr.walSeq] = @ \o frames]
             /\ UNCHANGED <<manifest, synced, dirs, colls, nameIndex, faults>>
  BY <1>2 DEF Begin, NoJob
<1>3. ASSUME NEW e, NEW n, NEW shred, Begin(<<e>>, n, shred), pc = "idle", ctr' = ctr,
             keys' = keys \/ Envelope, e.lsn = ctr.lsn,
             shred = {} \/ (e.op = "drop" /\ shred = {e.cid}),
             IF e.op = "create" THEN e.cid = ctr.cid ELSE e.cid \in DOMAIN colls \cup Image(nameIndex)
      PROVE  Appending
  <2>1. /\ pc' = "sync" /\ job'.batch = <<e>> /\ job'.shred = shred
        /\ job'.opening = FALSE /\ job'.trim = {}
        /\ wal' = [wal EXCEPT ![ctr.walSeq] = @ \o <<e>>]
        /\ UNCHANGED <<manifest, synced, dirs, colls, nameIndex, faults>>
    BY <1>2, <1>3, Zenon
  <2>2. Len(<<e>>) = 1 /\ <<e>>[1] = e /\ \A i \in 1..Len(<<e>>) : <<e>>[i] = e /\ ctr.lsn + i - 1 = ctr.lsn
    BY <1>1 DEF CtrType
  <2> QED
    BY <1>1, <1>3, <2>1, <2>2 DEF Appending
<1>4. ASSUME NEW n \in Names, CreateCollection(n)
      PROVE  Appending
  <2> DEFINE e == CreateFrame(ctr.lsn, ctr.cid, n)
  <2>1. /\ pc = "idle" /\ keys' = Provisioned(ctr.cid) /\ Begin(<<e>>, n, {}) /\ ctr' = ctr
    BY <1>4 DEF CreateCollection
  <2>2. e.lsn = ctr.lsn /\ e.op = "create" /\ e.cid = ctr.cid
    BY DEF CreateFrame
  <2>3. keys' = keys \/ Envelope
    BY <2>1 DEF Provisioned
  <2> HIDE DEF e
  <2> QED
    BY <1>3, <2>1, <2>2, <2>3
<1>5. ASSUME NEW n \in DOMAIN nameIndex, NEW shred, shred \in {{}, {nameIndex[n]}}, DropWith(n, shred)
      PROVE  Appending
  <2> DEFINE e == DropFrame(ctr.lsn, nameIndex[n])
  <2>1. /\ pc = "idle" /\ Begin(<<e>>, n, shred) /\ ctr' = ctr /\ keys' = keys
    BY <1>5 DEF DropWith
  <2>2. e.lsn = ctr.lsn /\ e.op = "drop" /\ e.cid = nameIndex[n] /\ nameIndex[n] \in Image(nameIndex)
    BY DEF DropFrame, Image
  <2> HIDE DEF e
  <2> QED
    BY <1>3, <1>5, <2>1, <2>2
<1>6. ASSUME NEW cid \in DOMAIN colls, NEW id \in Ids, Delete(cid, id)
      PROVE  Appending
  <2> DEFINE e == DeleteFrame(ctr.lsn, cid, id)
  <2>1. /\ pc = "idle" /\ Begin(<<e>>, colls[cid].name, {}) /\ ctr' = ctr /\ keys' = keys
    BY <1>6 DEF Delete
  <2>2. e.lsn = ctr.lsn /\ e.op = "delete" /\ e.cid = cid
    BY DEF DeleteFrame
  <2> HIDE DEF e
  <2> QED
    BY <1>3, <2>1, <2>2
<1>7. ASSUME NEW cid \in DOMAIN colls, NEW id \in Ids, NEW v \in Vals, Upsert(cid, id, v)
      PROVE  Appending
  <2> DEFINE e == UpsertFrame(ctr.lsn, cid, id, v)
  <2>1. /\ pc = "idle" /\ Begin(<<e>>, colls[cid].name, {}) /\ ctr' = ctr /\ keys' = keys
    BY <1>7 DEF Upsert
  <2>2. e.lsn = ctr.lsn /\ e.op = "upsert" /\ e.cid = cid
    BY DEF UpsertFrame
  <2> HIDE DEF e
  <2> QED
    BY <1>3, <2>1, <2>2
<1>8. ASSUME NEW cid \in DOMAIN colls, NEW rows \in Batches, UpsertBatch(cid, rows)
      PROVE  Appending
  <2> DEFINE frames == [i \in DOMAIN rows |->
                          UpsertFrame(ctr.lsn + i - 1, cid, rows[i][1], rows[i][2])]
  <2>1. /\ pc = "idle" /\ Begin(frames, colls[cid].name, {}) /\ keys' = keys
        /\ ctr' = [ctr EXCEPT !.lsn = @ + Len(rows)]
    BY <1>8 DEF UpsertBatch
  <2>2. PICK k \in 2..MaxBatch : rows \in [1..k -> Ids \X Vals]
    BY DEF Batches
  <2>3. k \in Nat /\ k > 0 /\ Len(rows) = k /\ DOMAIN rows = 1..k
    BY <2>2, StoreAssumption
  <2>4. Len(frames) = k /\ \A i \in 1..k : /\ frames[i].lsn = ctr.lsn + i - 1
                                           /\ frames[i].op = "upsert" /\ frames[i].cid = cid
    <3>1. DOMAIN frames = 1..k /\ Len(frames) = k
      BY <2>3
    <3>2. \A i \in 1..k : frames[i] = UpsertFrame(ctr.lsn + i - 1, cid, rows[i][1], rows[i][2])
      BY <2>3
    <3> QED
      BY <3>1, <3>2 DEF UpsertFrame
  <2> HIDE DEF frames
  <2>5. /\ pc' = "sync" /\ job'.batch = frames /\ job'.shred = {}
        /\ job'.opening = FALSE /\ job'.trim = {}
        /\ wal' = [wal EXCEPT ![ctr.walSeq] = @ \o frames]
        /\ UNCHANGED <<manifest, synced, dirs, colls, nameIndex, faults>>
    BY <1>2, <2>1, Zenon
  <2> QED
    BY <1>1, <2>1, <2>3, <2>4, <2>5 DEF Appending
<1> QED
  BY <1>4, <1>5, <1>6, <1>7, <1>8, Zenon DEF Mutate, DropCollection, ShredCollection

-----------------------------------------------------------------------------
\* The number of the file recovery opens is above every file there is.
LEMMA StartWalFile ==
  ASSUME StoreInv, StartWal
  PROVE  /\ pc = "newwal" /\ pc' = "trim" /\ job' = job /\ manifest' = manifest /\ faults' = faults
         /\ colls' = colls /\ nameIndex' = nameIndex /\ keys' = keys /\ dirs' = dirs
         /\ \E new \in Nat :
              /\ wal' = Put(wal, new, << >>) /\ synced' = Put(synced, new, 0)
              /\ ctr' = [ctr EXCEPT !.walSeq = new]
              /\ \A q \in DOMAIN wal : q < new
<1> DEFINE S   == DOMAIN wal \cup {0}
           new == Greatest(S) + 1
<1>1. /\ pc = "newwal" /\ pc' = "trim"
      /\ wal' = Put(wal, new, << >>) /\ synced' = Put(synced, new, 0)
      /\ ctr' = [ctr EXCEPT !.walSeq = new]
      /\ UNCHANGED <<manifest, segs, dels, idx, dirs, keys, colls, nameIndex, job, firm, faults>>
  BY DEF StartWal
<1>2. S \in SUBSET Nat /\ S # {}
  <2>1. DOMAIN wal \subseteq Nat
    BY Zenon DEF StoreInv, TypeOK, IsMap, MapOn
  <2> QED
    BY <2>1
<1>3. PICK b \in S : \A q \in S : q <= b
  BY <1>2 DEF StoreInv, JobInv, Bounded
<1>4. \A q \in DOMAIN wal : q \in S
  OBVIOUS
<1> HIDE DEF S
<1>5. Greatest(S) \in S /\ \A y \in S : y <= Greatest(S)
  BY <1>2, <1>3, GreatestProperties
<1>6. Greatest(S) \in Nat /\ \A q \in DOMAIN wal : q \in Nat /\ q <= Greatest(S)
  BY <1>2, <1>4, <1>5, Zenon
<1>7. new \in Nat /\ \A q \in DOMAIN wal : q < new
  BY <1>6
<1> QED
  BY <1>1, <1>7, Zenon

\* The steps, by what they do to the log.
LEMMA LogCases ==
  ASSUME StoreInv, FileInv, [Next]_vars
  PROVE  \/ Stay \/ Work \/ Mutate \/ SyncWal \/ SwapCheckpoint \/ (RotateWal /\ pc' # "idle")
         \/ RotateFails \/ (TrimWal /\ pc' = "trim") \/ Open \/ ReplayFrame \/ ReplayDone
         \/ (GcDone /\ job.opening) \/ StartWal \/ Kill \/ PowerLoss \/ AppendFails
  BY StaySteps, WorkSteps, Zenon DEF Next, Maintain, Proceed, Fault, Wait

\* The bookkeeping of the log files is kept by every step.
LEMMA FileStep ==
  ASSUME StoreInv, StoreInv', FileInv, [Next]_vars
  PROVE  FileInv'
<1>1. ctr \in CtrType /\ IsJob(job) /\ DOMAIN wal \subseteq Nat
  BY TypeFacts DEF StoreInv, TypeOK, IsMap, MapOn
<1>2. CASE Stay
  BY <1>2 DEF Stay, LogSame, FileInv, HasLog
<1>3. CASE Work
  <2>1. pc' \notin {"replay", "newwal", "trim"} /\ ~job'.opening /\ job'.trim = {}
    BY <1>3 DEF Work, HasLog
  <2>2. ctr'.walSeq \in DOMAIN wal' /\ \A q \in DOMAIN wal' : q <= ctr'.walSeq + 1
    BY <1>3 DEF Work, LogSame, FileInv
  <2> QED
    BY <2>1, <2>2 DEF FileInv
<1>4. CASE Mutate
  <2>1. Appending
    BY <1>4, MutateAppends
  <2>2. DOMAIN wal' = DOMAIN wal /\ ctr'.walSeq = ctr.walSeq /\ pc = "idle" /\ pc' = "sync"
        /\ ~job'.opening /\ job'.trim = {}
    BY <1>1, <2>1 DEF Appending, CtrType
  <2> QED
    BY <2>2 DEF FileInv, HasLog
<1>5. CASE SyncWal \/ SwapCheckpoint
  <2>1. /\ pc \in {"sync", "seal"} /\ pc' \in {"apply", "rotate"} /\ wal' = wal
    BY <1>5 DEF SyncWal, SwapCheckpoint, Swapped
  <2>2. ctr'.walSeq = ctr.walSeq
    BY <1>1, <1>5 DEF SyncWal, SwapCheckpoint, CtrType
  <2>3. job' = job \/ (job'.opening = FALSE /\ job'.trim = {})
    BY <1>5, Zenon DEF SyncWal, SwapCheckpoint, NoJob
  <2> QED
    BY <2>1, <2>2, <2>3 DEF FileInv, HasLog
<1>6. CASE RotateWal /\ pc' # "idle"
  <2>1. /\ pc = "rotate" /\ pc' = "trim" /\ ctr.walSeq + 1 \notin DOMAIN wal
        /\ wal' = Put(wal, ctr.walSeq + 1, << >>)
        /\ ctr' = [ctr EXCEPT !.walSeq = ctr.walSeq + 1]
        /\ job' = [job EXCEPT !.trim = RotatedOut]
    BY <1>6 DEF RotateWal
  <2>2. ctr'.walSeq = ctr.walSeq + 1 /\ job'.trim = RotatedOut /\ job'.opening = job.opening
    BY <1>1, <2>1 DEF CtrType, IsJob
  <2>3. DOMAIN wal' = DOMAIN wal \cup {ctr.walSeq + 1}
    BY <2>1 DEF Put
  <2>4. ctr.walSeq \in DOMAIN wal /\ ~job.opening /\ \A q \in DOMAIN wal : q <= ctr.walSeq + 1
    BY <2>1 DEF FileInv, HasLog
  <2>5. ctr'.walSeq \notin job'.trim /\ \A q \in DOMAIN wal' : q <= ctr'.walSeq + 1
    BY <1>1, <2>1, <2>2, <2>3, <2>4 DEF RotatedOut, CtrType
  <2> QED
    BY <2>1, <2>2, <2>3, <2>4, <2>5, Zenon DEF FileInv
<1>7. CASE RotateFails
  <2>1. /\ pc = "rotate" /\ pc' = "idle" /\ job' = NoJob /\ ctr' = ctr
        /\ wal' = Put(wal, ctr.walSeq + 1, << >>)
    BY <1>7 DEF RotateFails, Fails
  <2>2. DOMAIN wal' = DOMAIN wal \cup {ctr.walSeq + 1}
    BY <2>1 DEF Put
  <2>3. ~NoJob.opening /\ NoJob.trim = {}
    BY DEF NoJob
  <2>4. ctr.walSeq \in DOMAIN wal /\ \A q \in DOMAIN wal : q <= ctr.walSeq + 1
    BY <2>1 DEF FileInv, HasLog
  <2>5. \A q \in DOMAIN wal' : q <= ctr'.walSeq + 1
    BY <1>1, <2>1, <2>2, <2>4 DEF CtrType
  <2> QED
    BY <2>1, <2>2, <2>3, <2>4, <2>5 DEF FileInv
<1>8. CASE TrimWal /\ pc' = "trim"
  <2>1. /\ pc = "trim" /\ job.trim # {} /\ wal' = Without(wal, {Least(job.trim)})
        /\ job' = [job EXCEPT !.trim = @ \ {Least(job.trim)}] /\ ctr' = ctr
    BY <1>8 DEF TrimWal, mem
  <2>2. Least(job.trim) \in job.trim
    BY <1>1, <2>1, LeastProperties DEF IsJob
  <2>3. DOMAIN wal' = DOMAIN wal \ {Least(job.trim)}
    BY <2>1 DEF Without
  <2>4. job'.trim \subseteq job.trim /\ job'.opening = job.opening
    BY <1>1, <2>1 DEF IsJob
  <2>5. /\ ctr.walSeq \in DOMAIN wal /\ \A q \in DOMAIN wal : q <= ctr.walSeq + 1
        /\ ctr.walSeq \notin job.trim
    BY <2>1 DEF FileInv, HasLog
  <2> QED
    BY <1>8, <2>1, <2>2, <2>3, <2>4, <2>5 DEF FileInv
<1>9. CASE Open
  <2>1. /\ pc' = "replay" /\ wal' = wal
        /\ job' = [NoJob EXCEPT !.opening = TRUE, !.rest = WalTail, !.trim = Superseded]
    BY <1>9 DEF Open, disk
  <2>2. job'.opening /\ job'.trim \subseteq DOMAIN wal
    BY <2>1 DEF NoJob, Superseded
  <2> QED
    BY <2>1, <2>2 DEF FileInv, HasLog
<1>10. CASE ReplayFrame \/ ReplayDone \/ (GcDone /\ job.opening)
  <2>1. /\ pc \in {"replay", "gc"} /\ pc' \in {"replay", "gc", "newwal"} /\ wal' = wal
    BY <1>10 DEF ReplayFrame, ReplayDone, GcDone, disk
  <2>2. job'.opening = job.opening /\ job'.trim = job.trim /\ job.opening
    BY <1>1, <1>10 DEF ReplayFrame, ReplayDone, GcDone, IsJob, FileInv
  <2> QED
    BY <2>1, <2>2 DEF FileInv, HasLog
<1>11. CASE StartWal
  <2>1. /\ pc = "newwal" /\ pc' = "trim" /\ job' = job
    BY <1>11, StartWalFile
  <2>2. PICK new \in Nat : /\ wal' = Put(wal, new, << >>)
                           /\ ctr' = [ctr EXCEPT !.walSeq = new]
                           /\ \A q \in DOMAIN wal : q < new
    BY <1>11, StartWalFile
  <2>3. DOMAIN wal' = DOMAIN wal \cup {new} /\ ctr'.walSeq = new
    BY <1>1, <2>2 DEF Put, CtrType
  <2>4. new \notin job.trim
    BY <1>1, <2>1, <2>2 DEF FileInv
  <2>5. \A q \in DOMAIN wal' : q <= ctr'.walSeq + 1
    BY <1>1, <2>2, <2>3
  <2> QED
    BY <2>1, <2>3, <2>4, <2>5 DEF FileInv
<1>12. CASE Kill \/ PowerLoss
  <2>1. pc' = "down" /\ job' = NoJob
    BY <1>12 DEF Kill, PowerLoss, Crash
  <2> QED
    BY <2>1 DEF FileInv, HasLog, NoJob
<1>13. CASE AppendFails
  <2>1. /\ pc = "sync" /\ pc' = "idle" /\ job' = NoJob /\ ctr' = ctr /\ DOMAIN wal' = DOMAIN wal
    BY <1>13, Zenon DEF AppendFails, Fails
  <2> QED
    BY <2>1 DEF FileInv, HasLog, NoJob
<1> QED
  BY <1>2, <1>3, <1>4, <1>5, <1>6, <1>7, <1>8, <1>9, <1>10, <1>11, <1>12, <1>13, LogCases, Zenon

-----------------------------------------------------------------------------
\* A shred_collection on its way: the collection leaves memory with the drop, the
\* manifest with the swap, the log with the rotation and the disk with the collection.
ShredInv ==
  /\ ~Envelope => keys = {}
  /\ pc \in {"down", "idle"} \/ job.opening => job.shred = {}
  /\ \A c \in job.shred :
       /\ job.shred = {c}
       /\ pc \in {"sync", "apply"} =>
            Len(job.batch) = 1 /\ job.batch[1].op = "drop" /\ job.batch[1].cid = c
       /\ pc \notin {"sync", "apply"} => c \notin DOMAIN colls
       /\ pc \in {"rotate", "trim", "gc", "compact", "merged", "shred"} =>
            c \notin DOMAIN manifest.colls
       /\ pc = "trim" => \A q \in DOMAIN wal \ job.trim : wal[q] = << >>
       /\ pc \in {"gc", "compact", "merged", "shred"} => \A q \in DOMAIN wal : wal[q] = << >>
       /\ pc = "shred" => c \notin dirs

\* Without an envelope key-ring there are no key files.
LEMMA NoKeys ==
  ASSUME ShredInv, [Next]_vars, ~Envelope
  PROVE  keys' = {}
<1>1. keys = {} /\ \A c : Provisioned(c) = keys /\ Shredded(c) = keys
  BY DEF ShredInv, Provisioned, Shredded
<1>2. CASE Mutate
  BY <1>1, <1>2, Zenon DEF Mutate, CreateCollection, DropCollection, ShredCollection, DropWith,
                           Upsert, Delete, UpsertBatch
<1>3. CASE Maintain \/ Fault \/ Wait \/ UNCHANGED vars
  BY <1>1, <1>3, Zenon DEF Maintain, Checkpoint, Compact, Fault, Kill, PowerLoss, Crash, AppendFails,
                    SealFails, SwapFails, Swapped, RotateFails, Fails, Wait, vars, disk
<1>4. CASE Proceed
  BY <1>1, <1>4, Zenon DEF Proceed, SyncWal, ApplyFrame, Checkpoint, WriteDel, SealActive,
       WriteIndexSnapshot, RewriteManifest, SwapCheckpoint, Swapped, RotateWal, TrimWal, GcShredKey,
       GcRemoveDir, GcSegment, GcIndexSnapshot, GcDone, ShredKey, MergeSegments, SwapCompaction,
       Open, ReplayFrame, ReplayDone, StartWal, disk
<1> QED
  BY <1>2, <1>3, <1>4, Zenon DEF Next

\* An operation that has no collection to shred starts, ends or goes on.
LEMMA NothingToShred ==
  ASSUME ShredInv, [Next]_vars, job'.shred = {}
  PROVE  ShredInv'
  BY NoKeys, Zenon DEF ShredInv

\* Every step of a shred keeps the invariant.
LEMMA ShredStep ==
  ASSUME StoreInv, StoreInv', FileInv, ShredInv, [Next]_vars
  PROVE  ShredInv'
<1> SUFFICES ASSUME NEW c \in job'.shred
             PROVE  /\ ~(pc' \in {"down", "idle"} \/ job'.opening) /\ job'.shred = {c}
                    /\ pc' \in {"sync", "apply"} =>
                         /\ Len(job'.batch) = 1 /\ job'.batch[1].op = "drop"
                         /\ job'.batch[1].cid = c
                    /\ pc' \notin {"sync", "apply"} => c \notin DOMAIN colls'
                    /\ pc' \in {"rotate", "trim", "gc", "compact", "merged", "shred"} =>
                         c \notin DOMAIN manifest'.colls
                    /\ pc' = "trim" => \A q \in DOMAIN wal' \ job'.trim : wal'[q] = << >>
                    /\ pc' \in {"gc", "compact", "merged", "shred"} =>
                         \A q \in DOMAIN wal' : wal'[q] = << >>
                    /\ pc' = "shred" => c \notin dirs'
  BY NothingToShred, NoKeys, Zenon DEF ShredInv
<1>1. ctr \in CtrType /\ IsJob(job) /\ DOMAIN wal \subseteq Nat
  BY TypeFacts DEF StoreInv, TypeOK, IsMap, MapOn
<1>2. NoJob.shred = {}
  BY DEF NoJob
<1>3. CASE Mutate
  <2>1. Appending
    BY <1>3, MutateAppends
  <2> QED
    BY <2>1 DEF Appending
<1>4. CASE RewriteManifest \/ GcShredKey \/ GcRemoveDir \/ GcSegment \/ GcIndexSnapshot \/ UNCHANGED vars
  <2>1. /\ UNCHANGED <<wal, colls, pc, job>> /\ dirs' \subseteq dirs
        /\ manifest' = manifest \/ manifest' = [manifest EXCEPT !.intact = FALSE]
    BY <1>4 DEF RewriteManifest, GcShredKey, GcRemoveDir, GcSegment, GcIndexSnapshot, vars, mem
  <2>2. manifest'.colls = manifest.colls
    BY <2>1 DEF StoreInv, TypeOK
  <2> QED
    BY <2>1, <2>2, Zenon DEF ShredInv
<1>5. CASE SyncWal \/ WriteDel \/ SealActive \/ WriteIndexSnapshot
  <2>1. /\ colls' = colls
        /\ (pc = "sync" /\ pc' = "apply") \/ (pc = "seal" /\ pc' = "seal")
    BY <1>5 DEF SyncWal, WriteDel, SealActive, WriteIndexSnapshot, Sealing, mem
  <2>2. job'.shred = job.shred /\ job'.batch = job.batch /\ job'.opening = job.opening
    BY <1>1, <1>5, Zenon DEF SyncWal, WriteDel, SealActive, WriteIndexSnapshot, IsJob
  <2> QED
    BY <2>1, <2>2 DEF ShredInv
<1>6. CASE ApplyFrame
  <2>1. /\ pc = "apply" /\ colls' = AppliedColls(colls, Head(job.batch))
        /\ job' = [job EXCEPT !.batch = SubSeq(@, 2, Len(@))]
        /\ pc' = IF Len(job.batch) > 1 THEN "apply" ELSE IF job.shred = {} THEN "idle" ELSE "checkpoint"
    BY <1>6 DEF ApplyFrame
  <2>2. job'.shred = job.shred /\ job'.opening = job.opening /\ job.batch \in Seq(Frame)
    BY <1>1, <2>1 DEF IsJob
  <2>3. /\ Len(job.batch) = 1 /\ job.batch[1].op = "drop" /\ job.batch[1].cid = c
        /\ job.shred = {c} /\ ~job.opening
    BY <2>1, <2>2 DEF ShredInv
  <2>4. pc' = "checkpoint" /\ Head(job.batch) = job.batch[1]
    BY <2>1, <2>2, <2>3
  <2>5. colls' = Without(colls, {c})
    BY <2>1, <2>3, <2>4 DEF AppliedColls
  <2> QED
    BY <2>2, <2>3, <2>4, <2>5 DEF Without
<1>7. CASE \E blobs : Checkpoint(blobs)
  <2>1. pc' = "seal" /\ colls' = colls /\ pc \in {"idle", "checkpoint"}
    BY <1>7, Zenon DEF Checkpoint, mem
  <2>2. job'.shred = job.shred /\ job'.opening = FALSE
    BY <1>7, Zenon DEF Checkpoint, NoJob
  <2> QED
    BY <2>1, <2>2 DEF ShredInv
<1>8. CASE SwapCheckpoint
  <2>1. /\ pc = "seal" /\ pc' = "rotate" /\ manifest' = CheckpointManifest /\ DOMAIN colls' = DOMAIN colls
    BY <1>8 DEF SwapCheckpoint, Swapped
  <2>2. job'.shred = job.shred /\ job'.opening = FALSE
    BY <1>8, Zenon DEF SwapCheckpoint, NoJob
  <2>3. DOMAIN manifest'.colls = DOMAIN colls
    BY <2>1, CheckpointManifestOK
  <2> QED
    BY <2>1, <2>2, <2>3 DEF ShredInv
<1>9. CASE RotateWal
  <2>1. /\ pc = "rotate" /\ pc' = "trim" /\ ctr.walSeq + 1 \notin DOMAIN wal
        /\ wal' = Put(wal, ctr.walSeq + 1, << >>) /\ colls' = colls /\ manifest' = manifest
        /\ job' = [job EXCEPT !.trim = RotatedOut]
    BY <1>2, <1>9 DEF RotateWal
  <2>2. job'.trim = RotatedOut /\ job'.opening = job.opening /\ job'.shred = job.shred
    BY <1>1, <2>1 DEF IsJob
  <2>3. ~job.opening /\ \A q \in DOMAIN wal : q <= ctr.walSeq + 1
    BY <2>1 DEF FileInv, HasLog
  <2>4. \A q \in DOMAIN wal' \ job'.trim : q = ctr.walSeq + 1
    BY <1>1, <2>1, <2>2, <2>3 DEF RotatedOut, Put, CtrType
  <2>5. \A q \in DOMAIN wal' \ job'.trim : wal'[q] = << >>
    BY <2>1, <2>4 DEF Put
  <2> QED
    BY <2>1, <2>2, <2>3, <2>5 DEF ShredInv
<1>10. CASE TrimWal
  <2>1. /\ pc = "trim" /\ colls' = colls /\ manifest' = manifest
        /\ \/ job.trim = {} /\ pc' = "gc" /\ job' = job /\ wal' = wal /\ ~job.opening
           \/ /\ job.trim # {} /\ pc' = "trim" /\ wal' = Without(wal, {Least(job.trim)})
              /\ job' = [job EXCEPT !.trim = @ \ {Least(job.trim)}]
    BY <1>2, <1>10 DEF TrimWal, mem
  <2>2. CASE job.trim = {}
    BY <2>1, <2>2 DEF ShredInv
  <2>3. CASE job.trim # {}
    <3>1. /\ job'.trim = job.trim \ {Least(job.trim)} /\ job'.opening = job.opening
          /\ job'.shred = job.shred
      BY <1>1, <2>1, <2>3 DEF IsJob
    <3>2. \A q \in DOMAIN wal' \ job'.trim : q \in DOMAIN wal \ job.trim /\ wal'[q] = wal[q]
      BY <2>1, <2>3, <3>1 DEF Without
    <3> QED
      BY <2>1, <2>3, <3>1, <3>2 DEF ShredInv
  <2> QED
    BY <2>2, <2>3
<1>11. CASE GcDone
  <2>1. /\ pc = "gc" /\ pc' \in {"newwal", "compact", "shred"} /\ job' = job /\ wal' = wal
        /\ colls' = colls /\ manifest' = manifest /\ dirs' = dirs /\ DeadDirs = {}
        /\ job.opening \/ pc' \in {"compact", "shred"}
    BY <1>2, <1>11 DEF GcDone, OrphansGone, disk, mem
  <2> QED
    BY <2>1 DEF ShredInv, DeadDirs
<1>12. CASE MergeSegments
  <2>1. pc = "compact" /\ pc' = "merged" /\ wal' = wal /\ colls' = colls /\ manifest' = manifest
    BY <1>12 DEF MergeSegments
  <2>2. job'.shred = job.shred /\ job'.opening = job.opening
    BY <1>1, <1>12, Zenon DEF MergeSegments, IsJob
  <2> QED
    BY <2>1, <2>2 DEF ShredInv
<1>13. CASE SwapCompaction
  <2>1. /\ pc = "merged" /\ pc' = "gc" /\ manifest' = CompactManifest /\ DOMAIN colls' = DOMAIN colls
        /\ wal' = wal
    BY <1>13 DEF SwapCompaction, Swapped
  <2>2. job'.shred = job.shred /\ job'.opening = job.opening
    BY <1>1, <1>13, Zenon DEF SwapCompaction, IsJob
  <2>3. DOMAIN manifest'.colls = DOMAIN colls
    BY <2>1, CompactManifestOK
  <2> QED
    BY <2>1, <2>2, <2>3 DEF ShredInv
<1>14. CASE Open \/ ReplayFrame \/ ReplayDone \/ StartWal
  <2>1. job'.shred = {} \/ (job'.shred = job.shred /\ pc \in {"replay", "newwal"})
    BY <1>1, <1>14, Zenon DEF Open, ReplayFrame, ReplayDone, StartWal, NoJob, IsJob
  <2> QED
    BY <2>1 DEF ShredInv, FileInv
<1>15. CASE Compact \/ ShredKey \/ Fault
  <2>1. CASE Compact
    BY <2>1 DEF Compact, NoJob
  <2>2. CASE ShredKey \/ Fault
    <3>1. job' = NoJob
      BY <2>2, Zenon DEF ShredKey, Fault, Kill, PowerLoss, Crash, AppendFails, SealFails, SwapFails,
                         RotateFails, Fails
    <3> QED
      BY <1>2, <3>1
  <2> QED
    BY <1>15, <2>1, <2>2
<1> QED
  BY <1>3, <1>4, <1>5, <1>6, <1>7, <1>8, <1>9, <1>10, <1>11, <1>12, <1>13, <1>14, <1>15, Zenon
     DEF Next, Maintain, Proceed, Wait

\* Initially nothing is being shredded.
LEMMA ShredInit == Init => FileInv /\ ShredInv
<1> SUFFICES ASSUME Init PROVE FileInv /\ ShredInv
  OBVIOUS
<1>1. pc = "down" /\ job = NoJob /\ keys = {}
  BY DEF Init
<1>2. job.opening = FALSE /\ job.shred = {} /\ job.trim = {}
  BY <1>1, Zenon DEF NoJob
<1>3. FileInv
  BY <1>1, <1>2, Zenon DEF FileInv, HasLog
<1>4. ShredInv
  BY <1>1, <1>2, Zenon DEF ShredInv
<1> QED
  BY <1>3, <1>4

\* The last step of a shred leaves nothing of the collection.
LEMMA ShredLast ==
  ASSUME StoreInv, ShredInv, [Next]_vars, pc = "shred", pc' = "idle"
  PROVE  \A c \in job.shred :
           /\ c \notin keys' \cup dirs'
           /\ \A q \in DOMAIN wal' : \A p \in 1..Len(wal'[q]) :
                wal'[q][p].op = "torn" \/ wal'[q][p].cid # c
<1> SUFFICES ASSUME NEW c \in job.shred
             PROVE  /\ c \notin keys' \cup dirs'
                    /\ \A q \in DOMAIN wal' : \A p \in 1..Len(wal'[q]) :
                         wal'[q][p].op = "torn" \/ wal'[q][p].cid # c
  OBVIOUS
<1>1. ShredKey
  BY Zenon DEF Next, Mutate, CreateCollection, DropCollection, ShredCollection, DropWith, Upsert, Delete,
       UpsertBatch, Maintain, Compact, Checkpoint, Proceed, SyncWal, ApplyFrame, WriteDel, SealActive, Sealing,
       WriteIndexSnapshot, RewriteManifest, ReadyToSwap, SwapCheckpoint, RotateWal, TrimWal, GcShredKey,
       GcRemoveDir, GcSegment, GcIndexSnapshot, GcDone, MergeSegments, SwapCompaction, Open,
       ReplayFrame, ReplayDone, StartWal, Fault, Kill, PowerLoss, Crash, AppendFails, SealFails,
       SwapFails, RotateFails, Fails, Wait, vars
<1>2. /\ keys' = Shredded(CHOOSE d \in job.shred : TRUE) /\ wal' = wal /\ dirs' = dirs
  BY <1>1 DEF ShredKey
<1>3. job.shred = {c} /\ c \notin dirs /\ \A q \in DOMAIN wal : wal[q] = << >>
  BY DEF ShredInv
<1>4. (CHOOSE d \in job.shred : TRUE) = c
  BY <1>3
<1>5. c \notin keys'
  BY <1>2, <1>4 DEF Shredded, ShredInv
<1> QED
  BY <1>2, <1>3, <1>5

-----------------------------------------------------------------------------
(* The records of the log.                                                 *)

RecOf(w) == UNION {{q} \X Readable(w[q]) : q \in DOMAIN w}
Rec == RecOf(wal)
At(t) == wal[t[1]][t[2]]

\* A record is a readable position of a file.
LEMMA RecMember ==
  ASSUME NEW w, NEW t
  PROVE  t \in RecOf(w) <=> /\ t = <<t[1], t[2]>> /\ t[1] \in DOMAIN w
                            /\ t[2] \in Readable(w[t[1]])
<1>1. t \in RecOf(w) <=> \E q \in DOMAIN w : t \in {q} \X Readable(w[q])
  BY Zenon DEF RecOf
<1>2. ASSUME NEW q, NEW R
      PROVE  t \in {q} \X R <=> t = <<t[1], t[2]>> /\ t[1] = q /\ t[2] \in R
  OBVIOUS
<1> QED
  BY <1>1, <1>2, Zenon

\* What a readable position holds is a frame.
LEMMA RecType ==
  ASSUME NEW w, IsMap(w, Nat, Seq(Frame \cup {TornFrame})), NEW t \in RecOf(w)
  PROVE  /\ t[1] \in Nat /\ t[1] \in DOMAIN w /\ t[2] \in Nat /\ t[2] \in 1..Len(w[t[1]])
         /\ w[t[1]][t[2]] \in Frame /\ w[t[1]][t[2]].lsn \in Nat /\ w[t[1]][t[2]].cid \in Nat
<1>1. t[1] \in DOMAIN w /\ t[2] \in Readable(w[t[1]])
  BY RecMember, Zenon
<1>2. t[1] \in Nat /\ w[t[1]] \in Seq(Frame \cup {TornFrame})
  BY <1>1, Zenon DEF IsMap, MapOn
<1>3. t[2] \in 1..Len(w[t[1]]) /\ w[t[1]][t[2]].op # "torn" /\ t[2] \in Nat
  BY <1>1, <1>2 DEF Readable
<1>4. w[t[1]][t[2]] \in Frame \cup {TornFrame}
  BY <1>2, <1>3
<1>5. w[t[1]][t[2]] \in Frame
  BY <1>3, <1>4 DEF TornFrame
<1>6. \A f \in Frame : f.lsn \in Nat /\ f.cid \in Nat
  BY DEF Frame
<1> QED
  BY <1>1, <1>2, <1>3, <1>5, <1>6, Zenon

\* v is the log w with the records b appended to file q, which held k records, none torn.
Appended(w, v, q, b, k) ==
  /\ q \in DOMAIN w /\ DOMAIN v = DOMAIN w /\ v[q] = w[q] \o b /\ k = Len(w[q])
  /\ \A r \in DOMAIN w : r # q => v[r] = w[r]
  /\ w[q] \in Seq(Frame \cup {TornFrame}) /\ b \in Seq(Frame \cup {TornFrame})
  /\ \A p \in 1..Len(w[q]) : w[q][p].op # "torn"
  /\ \A i \in 1..Len(b) : b[i].op # "torn"

\* The records of the longer log: the ones it had, and b behind them.
Longer(w, v, q, b, k) ==
  /\ DOMAIN v = DOMAIN w /\ Len(v[q]) = k + Len(b)
  /\ \A r \in DOMAIN w : r # q => v[r] = w[r]
  /\ \A t \in RecOf(w) : t \in RecOf(v) /\ v[t[1]][t[2]] = w[t[1]][t[2]]
  /\ \A t \in RecOf(v) : t \in RecOf(w) \/ (t[1] = q /\ t[2] \in k + 1 .. k + Len(b))
  /\ \A i \in 1..Len(b) : <<q, k + i>> \in RecOf(v) /\ v[q][k + i] = b[i]
  /\ \A p \in 1..Len(v[q]) : v[q][p].op # "torn"

\* An append to a file without a torn frame adds its frames.
LEMMA RecAppend ==
  ASSUME NEW w, NEW v, NEW q, NEW b, NEW k, Appended(w, v, q, b, k)
  PROVE  Longer(w, v, q, b, k)
<1> DEFINE F == Frame \cup {TornFrame}
<1>0. /\ q \in DOMAIN w /\ w[q] \in Seq(F) /\ b \in Seq(F) /\ k = Len(w[q])
      /\ \A p \in 1..Len(w[q]) : w[q][p].op # "torn"
      /\ \A i \in 1..Len(b) : b[i].op # "torn"
  BY DEF Appended
<1>2. /\ DOMAIN v = DOMAIN w /\ v[q] = w[q] \o b /\ \A r \in DOMAIN w : r # q => v[r] = w[r]
  BY DEF Appended
<1> HIDE DEF F
<1>1. w[q] \in Seq(F) /\ k \in Nat /\ Len(b) \in Nat /\ w[q] \o b \in Seq(F)
  BY <1>0
<1>3. /\ Len(v[q]) = k + Len(b) /\ \A p \in 1..k : v[q][p] = w[q][p]
      /\ \A i \in 1..Len(b) : v[q][k + i] = b[i]
  BY <1>0, <1>1, <1>2
<1>4. \A p \in 1..Len(v[q]) : v[q][p].op # "torn"
  <2> SUFFICES ASSUME NEW p \in 1..Len(v[q]) PROVE v[q][p].op # "torn"
    OBVIOUS
  <2>1. CASE p <= k
    BY <1>0, <1>1, <1>3, <2>1
  <2>2. CASE p > k
    <3>1. p - k \in 1..Len(b) /\ p = k + (p - k)
      BY <1>1, <1>3, <2>2
    <3>2. v[q][p] = b[p - k] /\ b[p - k].op # "torn"
      <4> DEFINE i == p - k
      <4>1. i \in 1..Len(b) /\ p = k + i
        BY <3>1
      <4> HIDE DEF i
      <4>2. v[q][p] = b[i] /\ b[i].op # "torn"
        BY <1>0, <1>3, <4>1, Zenon
      <4> QED
        BY <4>2 DEF i
    <3> QED
      BY <3>2
  <2> QED
    BY <1>1, <1>3, <2>1, <2>2
<1>5. Readable(w[q]) = 1..k /\ Readable(v[q]) = 1..(k + Len(b))
  BY <1>0, <1>1, <1>3, <1>4 DEF Readable
<1>6. \A t \in RecOf(w) : t \in RecOf(v) /\ v[t[1]][t[2]] = w[t[1]][t[2]]
  <2> SUFFICES ASSUME NEW t \in RecOf(w) PROVE t \in RecOf(v) /\ v[t[1]][t[2]] = w[t[1]][t[2]]
    OBVIOUS
  <2>1. t = <<t[1], t[2]>> /\ t[1] \in DOMAIN w /\ t[2] \in Readable(w[t[1]])
    BY RecMember, Zenon
  <2>2. t[2] \in Readable(v[t[1]]) /\ v[t[1]][t[2]] = w[t[1]][t[2]]
    <3>1. CASE t[1] = q
      <4>1. t[2] \in 1..k
        BY <1>5, <2>1, <3>1, Zenon
      <4>2. t[2] \in 1..(k + Len(b)) /\ v[q][t[2]] = w[q][t[2]]
        BY <1>1, <1>3, <4>1
      <4> QED
        BY <1>5, <3>1, <4>2
    <3>2. CASE t[1] # q
      <4>1. v[t[1]] = w[t[1]]
        BY <1>2, <2>1, <3>2, Zenon
      <4> QED
        BY <2>1, <4>1
    <3> QED
      BY <3>1, <3>2
  <2> QED
    BY <1>2, <2>1, <2>2, RecMember, Zenon
<1>7. \A t \in RecOf(v) : t \in RecOf(w) \/ (t[1] = q /\ t[2] \in k + 1 .. k + Len(b))
  <2> SUFFICES ASSUME NEW t \in RecOf(v)
               PROVE  t \in RecOf(w) \/ (t[1] = q /\ t[2] \in k + 1 .. k + Len(b))
    OBVIOUS
  <2>1. t = <<t[1], t[2]>> /\ t[1] \in DOMAIN v /\ t[2] \in Readable(v[t[1]])
    BY RecMember, Zenon
  <2>2. t[2] \in Readable(w[t[1]]) \/ (t[1] = q /\ t[2] \in k + 1 .. k + Len(b))
    <3>1. CASE t[1] = q
      <4>1. t[2] \in 1..(k + Len(b))
        BY <1>5, <2>1, <3>1, Zenon
      <4>2. t[2] \in 1..k \/ t[2] \in k + 1 .. k + Len(b)
        BY <1>1, <4>1
      <4> QED
        BY <1>5, <3>1, <4>2
    <3>2. CASE t[1] # q
      <4>1. v[t[1]] = w[t[1]]
        BY <1>2, <2>1, <3>2, Zenon
      <4> QED
        BY <2>1, <4>1
    <3> QED
      BY <3>1, <3>2
  <2> QED
    BY <1>2, <2>1, <2>2, RecMember, Zenon
<1>8. \A i \in 1..Len(b) : <<q, k + i>> \in RecOf(v)
  <2> SUFFICES ASSUME NEW i \in 1..Len(b) PROVE <<q, k + i>> \in RecOf(v)
    OBVIOUS
  <2>1. k + i \in Readable(v[q])
    BY <1>1, <1>5
  <2> QED
    BY <1>0, <1>2, <2>1, RecMember
<1> QED
  BY <1>2, <1>3, <1>4, <1>6, <1>7, <1>8, Zenon DEF Longer

\* v is the log w with the empty file q.
FileAdded(w, v, q) ==
  /\ q \notin DOMAIN w /\ DOMAIN v = DOMAIN w \cup {q} /\ v[q] = << >>
  /\ \A r \in DOMAIN w : v[r] = w[r]

SameRecords(w, v) == RecOf(v) = RecOf(w) /\ \A t \in RecOf(w) : v[t[1]][t[2]] = w[t[1]][t[2]]

\* A new file is empty.
LEMMA RecPut ==
  ASSUME NEW w, NEW v, NEW q, FileAdded(w, v, q)
  PROVE  SameRecords(w, v)
<1>1. /\ DOMAIN v = DOMAIN w \cup {q} /\ v[q] = << >> /\ \A r \in DOMAIN w : v[r] = w[r]
      /\ q \notin DOMAIN w
  BY Zenon DEF FileAdded
<1>2. Readable(<< >>) = {}
  BY DEF Readable
<1>3. \A t : t \in RecOf(v) <=> t \in RecOf(w)
  <2> SUFFICES ASSUME NEW t PROVE t \in RecOf(v) <=> t \in RecOf(w)
    OBVIOUS
  <2>1. t[1] \in DOMAIN v /\ t[2] \in Readable(v[t[1]]) <=> t[1] \in DOMAIN w /\ t[2] \in Readable(w[t[1]])
    <3>1. CASE t[1] = q
      BY <1>1, <1>2, <3>1
    <3>2. CASE t[1] # q
      BY <1>1, <3>2
    <3> QED
      BY <3>1, <3>2
  <2> QED
    BY <2>1, RecMember, Zenon
<1>4. RecOf(v) = RecOf(w)
  BY <1>3, Zenon
<1>5. \A t \in RecOf(w) : v[t[1]][t[2]] = w[t[1]][t[2]]
  BY <1>1, RecMember, Zenon
<1> QED
  BY <1>4, <1>5, Zenon DEF SameRecords

\* v is the log w without the file q.
FileRemoved(w, v, q) ==
  /\ \A r : r \in DOMAIN v <=> r \in DOMAIN w /\ r # q
  /\ \A r \in DOMAIN v : v[r] = w[r]

\* With a file go its records.
LEMMA RecWithout ==
  ASSUME NEW w, NEW v, NEW q, FileRemoved(w, v, q)
  PROVE  \A t : /\ t \in RecOf(v) <=> t \in RecOf(w) /\ t[1] # q
                /\ t \in RecOf(v) => v[t[1]][t[2]] = w[t[1]][t[2]]
<1>1. \A r : r \in DOMAIN v <=> r \in DOMAIN w /\ r # q
  BY Zenon DEF FileRemoved
<1>2. \A r \in DOMAIN v : v[r] = w[r]
  BY Zenon DEF FileRemoved
<1>3. ASSUME NEW t
      PROVE  /\ t \in RecOf(v) <=> t \in RecOf(w) /\ t[1] # q
             /\ t \in RecOf(v) => v[t[1]][t[2]] = w[t[1]][t[2]]
  <2>1. t[1] \in DOMAIN v /\ t[2] \in Readable(v[t[1]]) <=>
          t[1] \in DOMAIN w /\ t[2] \in Readable(w[t[1]]) /\ t[1] # q
    BY <1>1, <1>2
  <2>2. t[1] \in DOMAIN v => v[t[1]][t[2]] = w[t[1]][t[2]]
    BY <1>2
  <2> QED
    BY <2>1, <2>2, RecMember, Zenon
<1> QED
  BY <1>3, Zenon

\* c is what is left of the frames s when the file is cut behind the n-th.
IsCut(s, n, c) ==
  /\ s \in Seq(Frame \cup {TornFrame}) /\ n \in Nat /\ n <= Len(s)
  /\ \E torn \in BOOLEAN : c = CutAt(s, n, torn)

CutBack(s, n, c) ==
  /\ Len(c) \in Nat /\ Readable(c) = {p \in Readable(s) : p <= n}
  /\ \A p \in 1..n : c[p] = s[p]

\* A cut leaves the readable frames before it.
LEMMA CutFrames ==
  ASSUME NEW s, NEW n, NEW c, IsCut(s, n, c)
  PROVE  CutBack(s, n, c)
<1> DEFINE F == Frame \cup {TornFrame}
           h == SubSeq(s, 1, n)
<1>0. s \in Seq(F) /\ n \in Nat /\ n <= Len(s)
  BY Zenon DEF IsCut
<1>5. PICK torn \in BOOLEAN : c = CutAt(s, n, torn)
  BY Zenon DEF IsCut
<1> HIDE DEF F
<1>1. h \in Seq(F) /\ Len(h) = n /\ \A p \in 1..n : h[p] = s[p]
  BY <1>0
<1> HIDE DEF h
<1>2. TornFrame.op = "torn"
  BY DEF TornFrame
<1>3. CASE torn /\ n < Len(s)
  <2>1. c = h \o <<TornFrame>>
    BY <1>3, <1>5, Zenon DEF CutAt, h
  <2>2. Len(c) = n + 1 /\ c[n + 1] = TornFrame /\ \A p \in 1..n : c[p] = s[p]
    <3>1. PICK e : e = TornFrame
      OBVIOUS
    <3>2. h \in Seq(F \cup {e}) /\ e \in F \cup {e} /\ c = h \o <<e>>
      BY <1>0, <1>1, <2>1, <3>1
    <3>3. /\ Len(h \o <<e>>) = Len(h) + 1 /\ (h \o <<e>>)[Len(h) + 1] = e
          /\ \A p \in 1..Len(h) : (h \o <<e>>)[p] = h[p]
      BY <3>2
    <3> QED
      BY <1>1, <3>1, <3>2, <3>3, Zenon
  <2>3. Readable(c) = {p \in Readable(s) : p <= n}
    <3>1. ASSUME NEW p \in 1..n
          PROVE  p \in Readable(c) <=> p \in Readable(s)
      BY <1>0, <2>2 DEF Readable
    <3>2. n + 1 \notin Readable(c) /\ Readable(c) \subseteq 1..(n + 1) /\ Readable(s) \subseteq Nat \ {0}
      BY <1>0, <1>2, <2>2 DEF Readable
    <3> QED
      BY <1>0, <3>1, <3>2
  <2> QED
    BY <1>0, <2>2, <2>3 DEF CutBack
<1>4. CASE ~(torn /\ n < Len(s))
  <2>1. c = h \o << >>
    BY <1>4, <1>5, Zenon DEF CutAt, h
  <2>2. Len(c) = n /\ \A p \in 1..n : c[p] = s[p]
    BY <1>0, <1>1, <2>1
  <2>3. Readable(c) = {p \in Readable(s) : p <= n}
    BY <1>0, <2>2 DEF Readable
  <2> QED
    BY <1>0, <2>2, <2>3 DEF CutBack
<1> QED
  BY <1>3, <1>4, Zenon

-----------------------------------------------------------------------------
(* The log has no gap.                                                     *)

\* Every LSN above b up to l is that of a record.
Complete(w, b, l) == \A m \in b + 1 .. l : \E u \in RecOf(w) : w[u[1]][u[2]].lsn = m

\* Kills and power losses do not mix: after a kill the page cache may hold what no
\* fsync has covered yet.
OneKind == faults.kills = 0 \/ faults.power = 0

Base == IF pc = "down" THEN manifest.floor ELSE ctr.floor

\* The batch in flight is the end of the open file, and newer than all before it.
InBatch(t) == t[1] = ctr.walSeq /\ t[2] > Len(wal[ctr.walSeq]) - Len(job.batch)
BatchInv ==
  LET n == Len(job.batch)
      k == Len(wal[ctr.walSeq])
      l == job.batch[1].lsn
  IN  /\ 0 < n /\ n <= k
      /\ \A i \in 1..n : wal[ctr.walSeq][k - n + i] = job.batch[i] /\ job.batch[i].lsn = l + i - 1
      /\ ctr.lsn \in {l, l + n} /\ manifest.floor < l
      /\ \A t \in Rec : At(t).lsn < l \/ InBatch(t)

LogInv ==
  /\ pc # "down" => ctr.floor <= manifest.floor /\ manifest.floor < ctr.lsn
  /\ pc = "rotate" => ctr.floor = ctr.lsn - 1
  /\ HasLog => \A p \in 1..Len(wal[ctr.walSeq]) : wal[ctr.walSeq][p].op # "torn"
  /\ \A t \in Rec : Complete(wal, Base, At(t).lsn)
  /\ pc \notin {"down", "sync"} => Complete(wal, Base, ctr.lsn - 1)
  /\ pc = "sync" => BatchInv
  /\ pc \notin {"down", "replay", "sync"} => \A t \in Rec : At(t).lsn < ctr.lsn
  /\ pc = "replay" => \A t \in Rec \ job.rest : At(t).lsn < ctr.lsn
  /\ \A t \in Rec : t[1] \in job.trim => At(t).lsn <= ctr.floor
  /\ faults.kills = 0 =>
       \A q \in DOMAIN wal :
         IF pc = "sync" /\ q = ctr.walSeq THEN Len(wal[q]) - Len(job.batch) <= synced[q]
         ELSE Len(wal[q]) <= synced[q]

\* The types the proofs below use.
LEMMA LogTypes ==
  ASSUME StoreInv
  PROVE  /\ ctr \in CtrType /\ ctr.lsn \in Nat /\ ctr.floor \in Nat /\ ctr.walSeq \in Nat
         /\ ctr.cid \in Nat
         /\ IsJob(job) /\ job.batch \in Seq(Frame) /\ Len(job.batch) \in Nat /\ job.trim \subseteq Nat
         /\ manifest.floor \in Nat /\ manifest.cid \in Nat
         /\ IsMap(wal, Nat, Seq(Frame \cup {TornFrame})) /\ DOMAIN wal \subseteq Nat
         /\ \A q \in DOMAIN wal : /\ wal[q] \in Seq(Frame \cup {TornFrame}) /\ Len(wal[q]) \in Nat
                                  /\ synced[q] \in Nat
         /\ faults \in [kills : Nat, power : Nat, errors : Nat]
         /\ \A t \in Rec : /\ t[1] \in DOMAIN wal /\ t[2] \in Nat /\ t[2] \in 1..Len(wal[t[1]])
                           /\ At(t) \in Frame /\ At(t).lsn \in Nat /\ At(t).cid \in Nat
<1>1. TypeOK
  BY DEF StoreInv
<1>2. ctr \in CtrType /\ IsJob(job) /\ faults \in [kills : Nat, power : Nat, errors : Nat]
  BY <1>1, TypeFacts DEF TypeOK
<1>3. ctr.lsn \in Nat /\ ctr.floor \in Nat /\ ctr.walSeq \in Nat /\ ctr.cid \in Nat
  BY <1>2 DEF CtrType
<1>4. job.batch \in Seq(Frame) /\ Len(job.batch) \in Nat /\ job.trim \subseteq Nat
  BY <1>2 DEF IsJob
<1>5. manifest.floor \in Nat /\ manifest.cid \in Nat
  BY <1>1 DEF TypeOK
<1>6. IsMap(wal, Nat, Seq(Frame \cup {TornFrame})) /\ IsMap(synced, Nat, Nat) /\ DOMAIN synced = DOMAIN wal
  BY <1>1, Zenon DEF TypeOK
<1>7. DOMAIN wal \subseteq Nat /\ \A q \in DOMAIN wal : wal[q] \in Seq(Frame \cup {TornFrame}) /\ synced[q] \in Nat
  BY <1>6, Zenon DEF IsMap, MapOn
<1>8. \A q \in DOMAIN wal : Len(wal[q]) \in Nat
  BY <1>7
<1>9. \A t \in Rec : /\ t[1] \in DOMAIN wal /\ t[2] \in Nat /\ t[2] \in 1..Len(wal[t[1]])
                     /\ At(t) \in Frame /\ At(t).lsn \in Nat /\ At(t).cid \in Nat
  BY <1>6, RecType, Zenon DEF Rec, At
<1> QED
  BY <1>2, <1>3, <1>4, <1>5, <1>6, <1>7, <1>8, <1>9, Zenon

\* A loop's step, and waiting, leave all of it.
LEMMA StayLog == ASSUME LogInv, Stay PROVE LogInv'
<1>1. /\ wal' = wal /\ synced' = synced /\ pc' = pc /\ job' = job /\ manifest'.floor = manifest.floor
      /\ ctr'.lsn = ctr.lsn /\ ctr'.floor = ctr.floor /\ ctr'.walSeq = ctr.walSeq
      /\ faults'.kills = faults.kills
  BY Zenon DEF Stay, LogSame
<1>2. /\ Rec' = Rec /\ \A t : At(t)' = At(t)
  BY <1>1, Zenon DEF Rec, At
<1>3. (HasLog' <=> HasLog) /\ Base' = Base
  BY <1>1, Zenon DEF HasLog, Base
<1>4. BatchInv' <=> BatchInv
  BY <1>1, <1>2, Zenon DEF BatchInv, InBatch
<1> QED
  BY <1>1, <1>2, <1>3, <1>4, Zenon DEF LogInv

\* From one phase to the next only the floor of the manifest moves, within the window.
LEMMA WorkLog ==
  ASSUME StoreInv, StoreInv', LogInv, Work
  PROVE  LogInv'
<1>1. /\ wal' = wal /\ synced' = synced /\ ctr'.lsn = ctr.lsn /\ ctr'.floor = ctr.floor
      /\ ctr'.walSeq = ctr.walSeq /\ faults'.kills = faults.kills
      /\ HasLog /\ HasLog' /\ pc # "sync" /\ job'.trim = {}
  BY Zenon DEF Work, LogSame
<1>2. pc \notin {"down", "replay", "sync"} /\ pc' \notin {"down", "replay", "sync", "rotate"}
  BY <1>1, Zenon DEF HasLog, Work
<1>3. ctr.floor <= manifest'.floor /\ manifest'.floor < ctr.lsn
  <2>1. ctr.floor <= manifest.floor /\ manifest.floor < ctr.lsn
    BY <1>2, Zenon DEF LogInv
  <2>2. ctr.lsn \in Nat /\ ctr.floor \in Nat /\ manifest.floor \in Nat
    BY LogTypes, Zenon
  <2>3. manifest'.floor \in {manifest.floor, ctr.floor, ctr.lsn - 1}
    BY Zenon DEF Work
  <2> QED
    BY <2>1, <2>2, <2>3
<1>4. Base' = Base /\ Rec' = Rec /\ \A t : At(t)' = At(t)
  BY <1>1, <1>2, Zenon DEF Base, Rec, At
<1>5. HasLog' => \A p \in 1..Len(wal'[ctr'.walSeq]) : wal'[ctr'.walSeq][p].op # "torn"
  BY <1>1, Zenon DEF LogInv
<1>6. /\ \A t \in Rec' : Complete(wal', Base', At(t)'.lsn)
      /\ Complete(wal', Base', ctr'.lsn - 1)
      /\ \A t \in Rec' : At(t)'.lsn < ctr'.lsn
  BY <1>1, <1>2, <1>4, Zenon DEF LogInv
<1>7. faults'.kills = 0 => \A q \in DOMAIN wal' : Len(wal'[q]) <= synced'[q]
  BY <1>1, <1>2, Zenon DEF LogInv
<1> QED
  BY <1>1, <1>2, <1>3, <1>5, <1>6, <1>7, Zenon DEF LogInv

-----------------------------------------------------------------------------
\* The records of the log with the frames of a mutation.
LEMMA AppendRecs ==
  ASSUME StoreInv, FileInv, LogInv, Appending
  PROVE  Longer(wal, wal', ctr.walSeq, job'.batch, Len(wal[ctr.walSeq]))
<1> DEFINE b == job'.batch
           q == ctr.walSeq
           k == Len(wal[q])
<1>1. pc = "idle" /\ b \in Seq(Frame) /\ wal' = [wal EXCEPT ![q] = @ \o b]
  BY Zenon DEF Appending
<1>2. q \in DOMAIN wal /\ \A p \in 1..Len(wal[q]) : wal[q][p].op # "torn"
  BY <1>1 DEF FileInv, LogInv, HasLog
<1>3. b \in Seq(Frame \cup {TornFrame})
  BY <1>1
<1>4. \A i \in 1..Len(b) : b[i].op # "torn"
  BY <1>1 DEF Frame
<1>5. IsMap(wal, Nat, Seq(Frame \cup {TornFrame}))
  BY LogTypes, Zenon
<1> HIDE DEF b, q
<1>6. /\ DOMAIN wal' = DOMAIN wal /\ wal'[q] = wal[q] \o b /\ k = Len(wal[q])
      /\ \A r \in DOMAIN wal : r # q => wal'[r] = wal[r]
  BY <1>1, <1>2, <1>5 DEF IsMap
<1> HIDE DEF k
<1>7. wal[q] \in Seq(Frame \cup {TornFrame})
  BY <1>2, <1>5, Zenon DEF IsMap
<1>8. Appended(wal, wal', q, b, k)
  BY <1>2, <1>3, <1>4, <1>6, <1>7, Zenon DEF Appended
<1>9. Longer(wal, wal', q, b, k)
  BY <1>8, RecAppend, Zenon
<1> QED
  BY <1>9, Zenon DEF b, q, k

\* A mutation's frames come next in the log.
LEMMA AppendLog ==
  ASSUME StoreInv, StoreInv', FileInv, LogInv, Appending
  PROVE  LogInv'
<1> DEFINE b == job'.batch
           q == ctr.walSeq
           k == Len(wal[q])
           l == ctr.lsn
<1>1. /\ b \in Seq(Frame) /\ Len(b) \in Nat /\ Len(b) > 0 /\ q \in DOMAIN wal /\ k \in Nat /\ l \in Nat
      /\ ctr.floor \in Nat /\ manifest.floor \in Nat
      /\ IsMap(wal, Nat, Seq(Frame \cup {TornFrame}))
  <2>1. b \in Seq(Frame) /\ Len(b) > 0 /\ pc = "idle"
    BY Zenon DEF Appending
  <2>2. q \in DOMAIN wal
    BY <2>1 DEF FileInv, HasLog
  <2>3. Len(b) \in Nat
    BY <2>1
  <2> QED
    BY <2>1, <2>2, <2>3, LogTypes, Zenon
<1>2. /\ pc = "idle" /\ pc' = "sync" /\ wal' = [wal EXCEPT ![q] = @ \o b] /\ synced' = synced
      /\ manifest' = manifest /\ faults' = faults /\ job'.trim = {}
      /\ \A i \in 1..Len(b) : b[i].lsn = l + i - 1
  BY Zenon DEF Appending
<1>3. ctr'.floor = ctr.floor /\ ctr'.walSeq = q /\ ctr'.lsn \in {l, l + Len(b)}
  <2>1. ctr' = ctr \/ ctr' = [ctr EXCEPT !.lsn = @ + Len(b)]
    BY Zenon DEF Appending
  <2> QED
    BY <2>1, LogTypes DEF CtrType
<1>4. /\ DOMAIN wal' = DOMAIN wal /\ Len(wal'[q]) = k + Len(b)
      /\ \A r \in DOMAIN wal : r # q => wal'[r] = wal[r]
      /\ \A t \in Rec : t \in Rec' /\ At(t)' = At(t)
      /\ \A t \in Rec' : t \in Rec \/ (t[1] = q /\ t[2] \in k + 1 .. k + Len(b))
      /\ \A i \in 1..Len(b) : <<q, k + i>> \in Rec' /\ wal'[q][k + i] = b[i]
      /\ \A p \in 1..Len(wal'[q]) : wal'[q][p].op # "torn"
  <2>8. Longer(wal, wal', q, b, k)
    BY AppendRecs, Zenon
  <2>5. /\ DOMAIN wal' = DOMAIN wal /\ Len(wal'[q]) = k + Len(b)
        /\ \A r \in DOMAIN wal : r # q => wal'[r] = wal[r]
        /\ \A t \in RecOf(wal) : t \in RecOf(wal') /\ wal'[t[1]][t[2]] = wal[t[1]][t[2]]
        /\ \A t \in RecOf(wal') : t \in RecOf(wal) \/ (t[1] = q /\ t[2] \in k + 1 .. k + Len(b))
        /\ \A i \in 1..Len(b) : <<q, k + i>> \in RecOf(wal') /\ wal'[q][k + i] = b[i]
        /\ \A p \in 1..Len(wal'[q]) : wal'[q][p].op # "torn"
    BY <2>8, Zenon DEF Longer
  <2> QED
    BY <2>5, Zenon DEF Rec, At
<1>5. /\ ctr.floor <= manifest.floor /\ manifest.floor < l
      /\ \A t \in Rec : Complete(wal, ctr.floor, At(t).lsn) /\ At(t).lsn < l
      /\ Complete(wal, ctr.floor, l - 1)
      /\ faults.kills = 0 => \A r \in DOMAIN wal : Len(wal[r]) <= synced[r]
  BY <1>2 DEF LogInv, Base
<1> HIDE DEF b, q, k, l
<1>6. \A m : Complete(wal, ctr.floor, m) => Complete(wal', ctr.floor, m)
  BY <1>4, Zenon DEF Complete, Rec, At
<1>7. \A i \in 1..Len(b) : Complete(wal', ctr.floor, l + i - 1)
  <2> SUFFICES ASSUME NEW i \in 1..Len(b), NEW m \in ctr.floor + 1 .. l + i - 1
               PROVE  \E u \in RecOf(wal') : wal'[u[1]][u[2]].lsn = m
    BY Zenon DEF Complete
  <2>1. m \in Nat
    BY <1>1
  <2>2. CASE m < l
    <3>1. m \in ctr.floor + 1 .. l - 1
      BY <1>1, <2>1, <2>2
    <3> QED
      BY <1>5, <1>6, <3>1, Zenon DEF Complete
  <2>3. CASE ~(m < l)
    <3> DEFINE j == m - l + 1
    <3>1. j \in 1..Len(b) /\ l + j - 1 = m
      BY <1>1, <2>1, <2>3
    <3> HIDE DEF j
    <3>2. <<q, k + j>> \in RecOf(wal') /\ wal'[q][k + j].lsn = m
      BY <1>2, <1>4, <3>1 DEF Rec
    <3>3. <<q, k + j>>[1] = q /\ <<q, k + j>>[2] = k + j
      OBVIOUS
    <3> QED
      BY <3>2, <3>3
  <2> QED
    BY <2>2, <2>3
<1>8. ASSUME NEW t \in Rec', t \notin Rec
      PROVE  /\ t[1] = q /\ t[2] \in k + 1 .. k + Len(b)
             /\ \E i \in 1..Len(b) : At(t)' = b[i] /\ At(t)'.lsn = l + i - 1
  <2>1. t[1] = q /\ t[2] \in k + 1 .. k + Len(b)
    BY <1>4, <1>8, Zenon
  <2>2. t[2] - k \in 1..Len(b) /\ t[2] = k + (t[2] - k)
    BY <1>1, <2>1
  <2>3. At(t)' = b[t[2] - k]
    BY <1>4, <2>1, <2>2 DEF At
  <2> QED
    BY <1>2, <2>1, <2>2, <2>3
<1>9. \A t \in Rec' : Complete(wal', ctr.floor, At(t)'.lsn)
  <2> SUFFICES ASSUME NEW t \in Rec' PROVE Complete(wal', ctr.floor, At(t)'.lsn)
    OBVIOUS
  <2>1. CASE t \in Rec
    BY <1>4, <1>5, <1>6, <2>1, Zenon
  <2>2. CASE t \notin Rec
    BY <1>7, <1>8, <2>2
  <2> QED
    BY <2>1, <2>2
<1>10. BatchInv'
  <2>0. 1 \in 1..Len(b) /\ l + 1 - 1 = l
    BY <1>1
  <2>1. 1 \in 1..Len(b) /\ b[1].lsn = l
    BY <1>2, <2>0
  <2>2. \A i \in 1..Len(b) : wal'[q][(k + Len(b)) - Len(b) + i] = b[i] /\ b[i].lsn = b[1].lsn + i - 1
    <3> SUFFICES ASSUME NEW i \in 1..Len(b)
                 PROVE  wal'[q][(k + Len(b)) - Len(b) + i] = b[i] /\ b[i].lsn = b[1].lsn + i - 1
      OBVIOUS
    <3>1. (k + Len(b)) - Len(b) + i = k + i
      BY <1>1
    <3> QED
      BY <1>2, <1>4, <2>1, <3>1
  <2>3. \A t \in Rec' : At(t)'.lsn < b[1].lsn \/ (t[1] = q /\ t[2] > (k + Len(b)) - Len(b))
    <3> SUFFICES ASSUME NEW t \in Rec'
                 PROVE  At(t)'.lsn < b[1].lsn \/ (t[1] = q /\ t[2] > (k + Len(b)) - Len(b))
      OBVIOUS
    <3>1. CASE t \in Rec
      BY <1>4, <1>5, <2>1, <3>1, Zenon
    <3>2. CASE t \notin Rec
      <4>1. \A x \in k + 1 .. k + Len(b) : x > (k + Len(b)) - Len(b)
        BY <1>1
      <4> QED
        BY <1>8, <3>2, <4>1, Zenon
    <3> QED
      BY <3>1, <3>2, Zenon
  <2>4. ctr'.lsn \in {b[1].lsn, b[1].lsn + Len(b)} /\ manifest'.floor < b[1].lsn
    BY <1>2, <1>3, <1>5, <2>1
  <2>5. 0 < Len(b) /\ Len(b) <= k + Len(b) /\ Len(wal'[ctr'.walSeq]) = k + Len(b)
    BY <1>1, <1>3, <1>4
  <2>6. job'.batch = b /\ ctr'.walSeq = q
    BY <1>3 DEF b
  <2> QED
    BY <2>2, <2>3, <2>4, <2>5, <2>6 DEF BatchInv, InBatch
<1>11. faults'.kills = 0 =>
         \A r \in DOMAIN wal' : IF r = ctr'.walSeq THEN Len(wal'[r]) - Len(job'.batch) <= synced'[r]
                                ELSE Len(wal'[r]) <= synced'[r]
  <2> SUFFICES ASSUME faults'.kills = 0, NEW r \in DOMAIN wal'
               PROVE  IF r = ctr'.walSeq THEN Len(wal'[r]) - Len(job'.batch) <= synced'[r]
                      ELSE Len(wal'[r]) <= synced'[r]
    OBVIOUS
  <2>1. r \in DOMAIN wal /\ Len(wal[r]) <= synced[r] /\ synced' = synced
    BY <1>2, <1>4, <1>5
  <2>2. CASE r = q
    <3>1. Len(wal'[r]) - Len(job'.batch) = k /\ Len(wal[r]) = k
      BY <1>1, <1>4, <2>2 DEF b, k
    <3> QED
      BY <1>3, <2>1, <2>2, <3>1
  <2>3. CASE r # q
    BY <1>3, <1>4, <2>1, <2>3
  <2> QED
    BY <2>2, <2>3
<1>12. ctr'.floor <= manifest'.floor /\ manifest'.floor < ctr'.lsn
  BY <1>1, <1>2, <1>3, <1>5
<1>13. \A p \in 1..Len(wal'[ctr'.walSeq]) : wal'[ctr'.walSeq][p].op # "torn"
  BY <1>3, <1>4
<1>14. Base' = ctr.floor
  BY <1>2, <1>3 DEF Base
<1> QED
  BY <1>2, <1>9, <1>10, <1>11, <1>12, <1>13, <1>14, Zenon DEF LogInv

\* The fsync acknowledges the batch: its LSNs are behind the counter.
LEMMA SyncLog ==
  ASSUME StoreInv, StoreInv', FileInv, LogInv, SyncWal
  PROVE  LogInv'
<1> DEFINE b == job.batch
           q == ctr.walSeq
           n == Len(b)
           k == Len(wal[q])
           l == b[1].lsn
<1>1. /\ pc = "sync" /\ pc' = "apply" /\ synced' = [synced EXCEPT ![q] = k] /\ wal' = wal
      /\ ctr' = [ctr EXCEPT !.lsn = b[n].lsn + 1] /\ job' = job /\ manifest' = manifest /\ faults' = faults
  BY DEF SyncWal
<1>2. /\ b \in Seq(Frame) /\ n \in Nat /\ q \in DOMAIN wal /\ k \in Nat /\ ctr.floor \in Nat
      /\ manifest.floor \in Nat /\ job.trim = {}
  <2>1. q \in DOMAIN wal /\ job.trim = {}
    BY <1>1, Zenon DEF FileInv, HasLog
  <2> QED
    BY <2>1, LogTypes, Zenon
<1>3. /\ 0 < n /\ n <= k /\ manifest.floor < l
      /\ \A i \in 1..n : wal[q][k - n + i] = b[i] /\ b[i].lsn = l + i - 1
      /\ \A t \in Rec : At(t).lsn < l \/ (t[1] = q /\ t[2] > k - n)
  BY <1>1 DEF LogInv, BatchInv, InBatch
<1>4. l \in Nat /\ b[n].lsn = l + n - 1 /\ wal[q][k] = b[n]
  <2>1. 1 \in 1..n /\ n \in 1..n /\ k - n + n = k
    BY <1>2, <1>3
  <2>2. b[1] \in Frame
    BY <1>2, <2>1
  <2>3. l \in Nat
    BY <2>2 DEF Frame
  <2> QED
    BY <1>3, <2>1, <2>3
<1> HIDE DEF b, q, n, k, l
<1>5. ctr'.lsn = l + n /\ ctr'.floor = ctr.floor /\ ctr'.walSeq = q
  <2>1. ctr'.lsn = b[n].lsn + 1 /\ ctr'.floor = ctr.floor /\ ctr'.walSeq = q
    BY <1>1, LogTypes DEF CtrType, q
  <2> QED
    BY <1>2, <1>4, <2>1
<1>6. \A p \in 1..k : wal[q][p].op # "torn"
  BY <1>1 DEF LogInv, HasLog, q, k
<1>7. <<q, k>> \in Rec /\ At(<<q, k>>).lsn = l + n - 1
  <2>1. k \in Readable(wal[q])
    <3>1. k \in 1..k /\ \A r \in 1..k : wal[q][r].op # "torn"
      BY <1>2, <1>3, <1>6
    <3> QED
      BY <3>1, Zenon DEF Readable, k
  <2>2. <<q, k>> = << <<q, k>>[1], <<q, k>>[2] >> /\ <<q, k>>[1] = q /\ <<q, k>>[2] = k
    OBVIOUS
  <2> QED
    BY <1>2, <1>4, <2>1, <2>2, RecMember DEF Rec, At
<1>8. Complete(wal, ctr.floor, l + n - 1) /\ \A t \in Rec : Complete(wal, ctr.floor, At(t).lsn)
  BY <1>1, <1>7 DEF LogInv, Base
<1>9. \A t \in Rec : At(t).lsn < l + n
  <2> SUFFICES ASSUME NEW t \in Rec PROVE At(t).lsn < l + n
    OBVIOUS
  <2>1. At(t).lsn \in Nat /\ t[2] \in Nat /\ t[2] \in 1..Len(wal[t[1]])
    BY LogTypes, Zenon
  <2>2. CASE At(t).lsn < l
    BY <1>2, <1>4, <2>1, <2>2
  <2>3. CASE t[1] = q /\ t[2] > k - n
    <3> DEFINE i == t[2] - (k - n)
    <3>1. i \in 1..n /\ k - n + i = t[2]
      <4>1. t[2] \in 1..k
        BY <2>1, <2>3, Zenon DEF k
      <4> QED
        BY <1>2, <1>3, <2>3, <4>1
    <3> HIDE DEF i
    <3>2. At(t).lsn = l + i - 1
      BY <1>3, <2>3, <3>1 DEF At
    <3> QED
      BY <1>2, <1>4, <3>1, <3>2
  <2> QED
    BY <1>3, <2>2, <2>3
<1>10. faults'.kills = 0 => \A r \in DOMAIN wal' : Len(wal'[r]) <= synced'[r]
  <2> SUFFICES ASSUME faults.kills = 0, NEW r \in DOMAIN wal PROVE Len(wal[r]) <= synced'[r]
    BY <1>1
  <2>1. r \in DOMAIN synced
    BY DEF StoreInv, TypeOK
  <2>2. CASE r = q
    BY <1>1, <1>2, <2>1, <2>2 DEF k
  <2>3. CASE r # q
    <3>1. synced'[r] = synced[r]
      BY <1>1, <2>1, <2>3
    <3> QED
      BY <1>1, <2>3, <3>1 DEF LogInv, q
  <2> QED
    BY <2>2, <2>3
<1>11. ctr'.floor <= manifest'.floor /\ manifest'.floor < ctr'.lsn
  <2>1. ctr.floor <= manifest.floor
    BY <1>1 DEF LogInv
  <2> QED
    BY <1>1, <1>2, <1>3, <1>4, <1>5, <2>1
<1>12. ctr'.lsn - 1 = l + n - 1
  BY <1>2, <1>4, <1>5
<1>13. Base' = ctr.floor /\ Rec' = Rec /\ (\A t : At(t)' = At(t)) /\ job'.trim = {}
  BY <1>1, <1>2, <1>5 DEF Base, Rec, At
<1>14. \A p \in 1..Len(wal'[ctr'.walSeq]) : wal'[ctr'.walSeq][p].op # "torn"
  BY <1>1, <1>5, <1>6 DEF k
<1> QED
  BY <1>1, <1>5, <1>8, <1>9, <1>10, <1>11, <1>12, <1>13, <1>14, Zenon DEF LogInv

\* The swap of a checkpoint closes the window.
LEMMA SwapLog ==
  ASSUME StoreInv, StoreInv', FileInv, LogInv, SwapCheckpoint
  PROVE  LogInv'
<1>1. /\ pc = "seal" /\ pc' = "rotate" /\ wal' = wal /\ synced' = synced /\ faults' = faults
      /\ manifest' = CheckpointManifest /\ ctr' = [ctr EXCEPT !.version = @ + 1, !.floor = ctr.lsn - 1]
  BY DEF SwapCheckpoint, Swapped
<1>2. job'.trim = {}
  BY Zenon DEF SwapCheckpoint, NoJob
<1>3. ctr.lsn \in Nat /\ manifest.floor \in Nat /\ manifest.floor < ctr.lsn
  BY <1>1, LogTypes DEF LogInv
<1>4. /\ ctr'.lsn = ctr.lsn /\ ctr'.floor = ctr.lsn - 1 /\ ctr'.walSeq = ctr.walSeq
      /\ manifest'.floor = ctr.lsn - 1 /\ ctr.lsn - 1 \in Nat
  BY <1>1, <1>3, LogTypes DEF CtrType, CheckpointManifest
<1>5. \A m \in Nat : m < ctr.lsn => Complete(wal, ctr.lsn - 1, m)
  BY <1>3, <1>4 DEF Complete
<1>6. \A t \in Rec : At(t).lsn < ctr.lsn /\ At(t).lsn \in Nat
  BY <1>1, LogTypes DEF LogInv
<1>7. ctr'.floor <= manifest'.floor /\ manifest'.floor < ctr'.lsn /\ ctr'.floor = ctr'.lsn - 1
  BY <1>3, <1>4
<1>8. Base' = ctr.lsn - 1 /\ Rec' = Rec /\ (\A t : At(t)' = At(t))
  BY <1>1, <1>4 DEF Base, Rec, At
<1>9. /\ \A p \in 1..Len(wal'[ctr'.walSeq]) : wal'[ctr'.walSeq][p].op # "torn"
      /\ faults'.kills = 0 => \A q \in DOMAIN wal' : Len(wal'[q]) <= synced'[q]
  BY <1>1, <1>4 DEF LogInv, HasLog
<1>10. Complete(wal', Base', ctr'.lsn - 1)
  BY <1>1, <1>3, <1>4, <1>5, <1>8
<1> QED
  BY <1>1, <1>2, <1>4, <1>5, <1>6, <1>7, <1>8, <1>9, <1>10, Zenon DEF LogInv

-----------------------------------------------------------------------------
\* A log with the same records has the same gaps.
LEMMA SameComplete ==
  ASSUME NEW w, NEW v, NEW b, NEW l, Complete(w, b, l),
         \A u \in RecOf(w) : w[u[1]][u[2]].lsn \in b + 1 .. l => u \in RecOf(v) /\ v[u[1]][u[2]] = w[u[1]][u[2]]
  PROVE  Complete(v, b, l)
  BY Zenon DEF Complete

\* A new log file is empty.
LEMMA NewFileLog ==
  ASSUME StoreInv, NEW q, q \notin DOMAIN wal, wal' = Put(wal, q, << >>), synced' = Put(synced, q, 0)
  PROVE  /\ Rec' = Rec /\ \A t \in Rec : At(t)' = At(t)
         /\ \A b, l : Complete(wal, b, l) => Complete(wal', b, l)
         /\ DOMAIN wal' = DOMAIN wal \cup {q} /\ wal'[q] = << >>
         /\ \A r \in DOMAIN wal : wal'[r] = wal[r]
         /\ (\A r \in DOMAIN wal : Len(wal[r]) <= synced[r]) =>
              \A r \in DOMAIN wal' : Len(wal'[r]) <= synced'[r]
<1>1. /\ DOMAIN wal' = DOMAIN wal \cup {q} /\ wal'[q] = << >> /\ \A r \in DOMAIN wal : wal'[r] = wal[r]
      /\ RecOf(wal') = RecOf(wal) /\ \A t \in RecOf(wal) : wal'[t[1]][t[2]] = wal[t[1]][t[2]]
  <2>1. DOMAIN wal' = DOMAIN wal \cup {q} /\ wal'[q] = << >> /\ \A r \in DOMAIN wal : wal'[r] = wal[r]
    BY DEF Put
  <2>2. FileAdded(wal, wal', q)
    BY <2>1, Zenon DEF FileAdded
  <2>3. SameRecords(wal, wal')
    BY <2>2, RecPut, Zenon
  <2> QED
    BY <2>1, <2>3, Zenon DEF SameRecords
<1>2. Rec' = Rec /\ \A t \in Rec : At(t)' = At(t)
  BY <1>1, Zenon DEF Rec, At
<1>3. \A b, l : Complete(wal, b, l) => Complete(wal', b, l)
  BY <1>1, Zenon DEF Complete
<1>4. DOMAIN synced = DOMAIN wal
  BY Zenon DEF StoreInv, TypeOK
<1>5. synced'[q] = 0 /\ \A r \in DOMAIN wal : synced'[r] = synced[r]
  BY <1>4 DEF Put
<1>6. Len(<< >>) = 0
  OBVIOUS
<1>7. ASSUME \A r \in DOMAIN wal : Len(wal[r]) <= synced[r], NEW r \in DOMAIN wal'
      PROVE  Len(wal'[r]) <= synced'[r]
  <2>1. CASE r = q
    BY <1>1, <1>5, <1>6, <2>1
  <2>2. CASE r \in DOMAIN wal
    BY <1>1, <1>5, <1>7, <2>2
  <2> QED
    BY <1>1, <2>1, <2>2
<1> QED
  BY <1>1, <1>2, <1>3, <1>7, Zenon

\* The rotation leaves records at or below the floor in the files to be trimmed.
LEMMA RotateLog ==
  ASSUME StoreInv, StoreInv', FileInv, LogInv, RotateWal, pc' # "idle"
  PROVE  LogInv'
<1> DEFINE new == ctr.walSeq + 1
<1>1. /\ pc = "rotate" /\ pc' = "trim" /\ new \notin DOMAIN wal /\ manifest' = manifest /\ faults' = faults
      /\ wal' = Put(wal, new, << >>) /\ synced' = Put(synced, new, 0)
      /\ ctr' = [ctr EXCEPT !.walSeq = new] /\ job' = [job EXCEPT !.trim = RotatedOut]
  BY Zenon DEF RotateWal
<1>2. ctr'.lsn = ctr.lsn /\ ctr'.floor = ctr.floor /\ ctr'.walSeq = new
  BY <1>1, LogTypes DEF CtrType
<1>3. /\ Rec' = Rec /\ \A t \in Rec : At(t)' = At(t)
      /\ \A b, l : Complete(wal, b, l) => Complete(wal', b, l)
      /\ wal'[new] = << >>
      /\ (\A r \in DOMAIN wal : Len(wal[r]) <= synced[r]) =>
           \A r \in DOMAIN wal' : Len(wal'[r]) <= synced'[r]
  <2> HIDE DEF new
  <2> QED
    BY <1>1, NewFileLog, Zenon
<1>4. \A p \in 1..Len(wal'[ctr'.walSeq]) : wal'[ctr'.walSeq][p].op # "torn"
  <2>1. \A p \in 1..Len(<< >>) : FALSE
    OBVIOUS
  <2> HIDE DEF new
  <2> QED
    BY <1>2, <1>3, <2>1, Zenon
<1>5. \A t \in Rec : At(t).lsn <= ctr.floor
  <2>1. ctr.floor = ctr.lsn - 1 /\ \A t \in Rec : At(t).lsn < ctr.lsn
    BY <1>1 DEF LogInv
  <2>2. ctr.lsn \in Nat /\ \A t \in Rec : At(t).lsn \in Nat
    BY LogTypes, Zenon
  <2> QED
    BY <2>1, <2>2
<1>6. Base = ctr.floor /\ Base' = ctr.floor
  BY <1>1, <1>2 DEF Base
<1>7. /\ ctr.floor <= manifest.floor /\ manifest.floor < ctr.lsn
      /\ \A t \in Rec : Complete(wal, ctr.floor, At(t).lsn) /\ At(t).lsn < ctr.lsn
      /\ Complete(wal, ctr.floor, ctr.lsn - 1)
      /\ faults.kills = 0 => \A r \in DOMAIN wal : Len(wal[r]) <= synced[r]
  BY <1>1, <1>6, Zenon DEF LogInv
<1>8. /\ \A t \in Rec' : Complete(wal', ctr.floor, At(t)'.lsn) /\ At(t)'.lsn < ctr.lsn /\ At(t)'.lsn <= ctr.floor
      /\ Complete(wal', ctr.floor, ctr.lsn - 1)
      /\ faults'.kills = 0 => \A r \in DOMAIN wal' : Len(wal'[r]) <= synced'[r]
  BY <1>1, <1>3, <1>5, <1>7, Zenon
<1> QED
  BY <1>1, <1>2, <1>4, <1>6, <1>7, <1>8, Zenon DEF LogInv

\* A rotation that fails leaves an empty file behind.
LEMMA RotateFailsLog ==
  ASSUME StoreInv, StoreInv', FileInv, LogInv, RotateFails
  PROVE  LogInv'
<1> DEFINE new == ctr.walSeq + 1
<1>1. /\ pc = "rotate" /\ pc' = "idle" /\ new \notin DOMAIN wal /\ manifest' = manifest /\ ctr' = ctr
      /\ wal' = Put(wal, new, << >>) /\ synced' = Put(synced, new, 0) /\ job' = NoJob
      /\ faults' = [faults EXCEPT !.errors = @ + 1]
  BY Zenon DEF RotateFails, Fails
<1>2. faults'.kills = faults.kills /\ job'.trim = {}
  BY <1>1, LogTypes DEF NoJob
<1>3. /\ Rec' = Rec /\ \A t \in Rec : At(t)' = At(t)
      /\ \A b, l : Complete(wal, b, l) => Complete(wal', b, l)
      /\ \A r \in DOMAIN wal : wal'[r] = wal[r]
      /\ (\A r \in DOMAIN wal : Len(wal[r]) <= synced[r]) =>
           \A r \in DOMAIN wal' : Len(wal'[r]) <= synced'[r]
  <2> HIDE DEF new
  <2> QED
    BY <1>1, NewFileLog, Zenon
<1>4. \A p \in 1..Len(wal'[ctr'.walSeq]) : wal'[ctr'.walSeq][p].op # "torn"
  <2>1. HasLog
    BY <1>1 DEF HasLog
  <2>2. ctr.walSeq \in DOMAIN wal
    BY <2>1 DEF FileInv
  <2> QED
    BY <1>1, <1>3, <2>1, <2>2, Zenon DEF LogInv
<1>6. Base = ctr.floor /\ Base' = ctr.floor
  BY <1>1 DEF Base
<1>7. /\ ctr.floor <= manifest.floor /\ manifest.floor < ctr.lsn
      /\ \A t \in Rec : Complete(wal, ctr.floor, At(t).lsn) /\ At(t).lsn < ctr.lsn
      /\ Complete(wal, ctr.floor, ctr.lsn - 1)
      /\ faults.kills = 0 => \A r \in DOMAIN wal : Len(wal[r]) <= synced[r]
  BY <1>1, <1>6, Zenon DEF LogInv
<1>8. /\ \A t \in Rec' : Complete(wal', ctr.floor, At(t)'.lsn) /\ At(t)'.lsn < ctr.lsn
      /\ Complete(wal', ctr.floor, ctr.lsn - 1)
      /\ faults'.kills = 0 => \A r \in DOMAIN wal' : Len(wal'[r]) <= synced'[r]
  BY <1>1, <1>2, <1>3, <1>7, Zenon
<1> QED
  BY <1>1, <1>2, <1>4, <1>6, <1>7, <1>8, Zenon DEF LogInv

\* Recovery appends to a file of its own.
LEMMA StartLog ==
  ASSUME StoreInv, StoreInv', FileInv, LogInv, StartWal
  PROVE  LogInv'
<1>1. PICK new \in Nat :
        /\ wal' = Put(wal, new, << >>) /\ synced' = Put(synced, new, 0)
        /\ ctr' = [ctr EXCEPT !.walSeq = new]
        /\ \A q \in DOMAIN wal : q < new
  BY StartWalFile, Zenon
<1>2. pc = "newwal" /\ pc' = "trim" /\ job' = job /\ manifest' = manifest /\ faults' = faults
  BY StartWalFile, Zenon
<1>3. ctr'.lsn = ctr.lsn /\ ctr'.floor = ctr.floor /\ ctr'.walSeq = new
  BY <1>1, LogTypes DEF CtrType
<1>4. new \notin DOMAIN wal
  BY <1>1
<1>5. /\ Rec' = Rec /\ \A t \in Rec : At(t)' = At(t)
      /\ \A b, l : Complete(wal, b, l) => Complete(wal', b, l)
      /\ wal'[new] = << >>
      /\ (\A r \in DOMAIN wal : Len(wal[r]) <= synced[r]) =>
           \A r \in DOMAIN wal' : Len(wal'[r]) <= synced'[r]
  BY <1>1, <1>4, NewFileLog, Zenon
<1>6. \A p \in 1..Len(wal'[ctr'.walSeq]) : wal'[ctr'.walSeq][p].op # "torn"
  <2>1. \A p \in 1..Len(<< >>) : FALSE
    OBVIOUS
  <2> QED
    BY <1>3, <1>5, <2>1, Zenon
<1>7. Base = ctr.floor /\ Base' = ctr.floor
  BY <1>2, <1>3 DEF Base
<1>8. /\ ctr.floor <= manifest.floor /\ manifest.floor < ctr.lsn
      /\ \A t \in Rec : Complete(wal, ctr.floor, At(t).lsn) /\ At(t).lsn < ctr.lsn
      /\ \A t \in Rec : t[1] \in job.trim => At(t).lsn <= ctr.floor
      /\ Complete(wal, ctr.floor, ctr.lsn - 1)
      /\ faults.kills = 0 => \A r \in DOMAIN wal : Len(wal[r]) <= synced[r]
  BY <1>2, <1>7, Zenon DEF LogInv
<1>9. /\ \A t \in Rec' : Complete(wal', ctr.floor, At(t)'.lsn) /\ At(t)'.lsn < ctr.lsn
      /\ \A t \in Rec' : t[1] \in job'.trim => At(t)'.lsn <= ctr.floor
      /\ Complete(wal', ctr.floor, ctr.lsn - 1)
      /\ faults'.kills = 0 => \A r \in DOMAIN wal' : Len(wal'[r]) <= synced'[r]
  BY <1>2, <1>5, <1>8, Zenon
<1> QED
  BY <1>2, <1>3, <1>6, <1>7, <1>8, <1>9, Zenon DEF LogInv

\* What is trimmed lies at or below the floor.
LEMMA TrimLog ==
  ASSUME StoreInv, StoreInv', FileInv, LogInv, TrimWal, pc' = "trim"
  PROVE  LogInv'
<1> DEFINE q == Least(job.trim)
<1>1. /\ pc = "trim" /\ job.trim # {} /\ wal' = Without(wal, {q}) /\ synced' = Without(synced, {q})
      /\ job' = [job EXCEPT !.trim = @ \ {q}] /\ manifest' = manifest /\ faults' = faults /\ ctr' = ctr
  BY DEF TrimWal, mem
<1>2. q \in job.trim
  BY <1>1, LogTypes, LeastProperties
<1>3. job'.trim \subseteq job.trim
  BY <1>1, LogTypes DEF IsJob
<1> HIDE DEF q
<1>4. \A t : /\ t \in RecOf(wal') <=> t \in RecOf(wal) /\ t[1] # q
             /\ t \in RecOf(wal') => wal'[t[1]][t[2]] = wal[t[1]][t[2]]
  <2>1. /\ \A r : r \in DOMAIN wal' <=> r \in DOMAIN wal /\ r # q
        /\ \A r \in DOMAIN wal' : wal'[r] = wal[r]
    BY <1>1 DEF Without
  <2>2. FileRemoved(wal, wal', q)
    BY <2>1, Zenon DEF FileRemoved
  <2> QED
    BY <2>2, RecWithout, Zenon
<1>5. /\ ctr.floor <= manifest.floor /\ manifest.floor < ctr.lsn
      /\ \A t \in Rec : Complete(wal, ctr.floor, At(t).lsn) /\ At(t).lsn < ctr.lsn
      /\ \A t \in Rec : t[1] \in job.trim => At(t).lsn <= ctr.floor
      /\ Complete(wal, ctr.floor, ctr.lsn - 1)
      /\ faults.kills = 0 => \A r \in DOMAIN wal : Len(wal[r]) <= synced[r]
  <2>1. Base = ctr.floor
    BY <1>1 DEF Base
  <2> QED
    BY <1>1, <2>1, Zenon DEF LogInv
<1>6. ASSUME NEW l, Complete(wal, ctr.floor, l) PROVE Complete(wal', ctr.floor, l)
  <2> SUFFICES ASSUME NEW m \in ctr.floor + 1 .. l
               PROVE  \E u \in RecOf(wal') : wal'[u[1]][u[2]].lsn = m
    BY Zenon DEF Complete
  <2>1. PICK u \in RecOf(wal) : wal[u[1]][u[2]].lsn = m
    BY <1>6, Zenon DEF Complete
  <2>2. m \in Int /\ ctr.floor \in Nat /\ m > ctr.floor
    <3>1. ctr.floor \in Nat
      BY LogTypes, Zenon
    <3> QED
      BY <3>1
  <2>3. u[1] # q
    <3>1. u[1] \in job.trim => m <= ctr.floor
      BY <1>5, <2>1, Zenon DEF Rec, At
    <3>2. ~(m <= ctr.floor)
      BY <2>2
    <3> QED
      BY <1>2, <3>1, <3>2, Zenon
  <2> QED
    BY <1>4, <2>1, <2>3, Zenon
<1>7. \A t \in Rec' : t \in Rec /\ At(t)' = At(t)
  BY <1>4, Zenon DEF Rec, At
<1>8. Base' = ctr.floor /\ ctr.walSeq # q /\ ctr.walSeq \in DOMAIN wal
  BY <1>1, <1>2 DEF Base, FileInv, HasLog
<1>9. (\A r \in DOMAIN wal' : r \in DOMAIN wal /\ wal'[r] = wal[r] /\ synced'[r] = synced[r]) /\ wal'[ctr.walSeq] = wal[ctr.walSeq]
  <2>1. DOMAIN synced = DOMAIN wal
    BY Zenon DEF StoreInv, TypeOK
  <2> QED
    BY <1>1, <1>8, <2>1 DEF Without
<1>10. \A p \in 1..Len(wal'[ctr'.walSeq]) : wal'[ctr'.walSeq][p].op # "torn"
  BY <1>1, <1>9 DEF LogInv, HasLog
<1>11. /\ \A t \in Rec' : Complete(wal', ctr.floor, At(t)'.lsn) /\ At(t)'.lsn < ctr.lsn
       /\ \A t \in Rec' : t[1] \in job'.trim => At(t)'.lsn <= ctr.floor
       /\ Complete(wal', ctr.floor, ctr.lsn - 1)
       /\ faults'.kills = 0 => \A r \in DOMAIN wal' : Len(wal'[r]) <= synced'[r]
  BY <1>1, <1>3, <1>5, <1>6, <1>7, <1>9, Zenon
<1> QED
  BY <1>1, <1>5, <1>8, <1>10, <1>11, Zenon DEF LogInv

-----------------------------------------------------------------------------
\* Recovery begins with the window of the manifest in force.
LEMMA OpenLog ==
  ASSUME StoreInv, StoreInv', FileInv, LogInv, Open
  PROVE  LogInv'
<1>1. /\ pc = "down" /\ pc' = "replay" /\ job' = [NoJob EXCEPT !.opening = TRUE, !.rest = WalTail, !.trim = Superseded]
      /\ ctr' = [lsn |-> manifest.floor + 1, cid |-> manifest.cid, seg |-> manifest.seg,
                 version |-> manifest.version, floor |-> manifest.floor, walSeq |-> 0]
      /\ wal' = wal /\ synced' = synced /\ manifest' = manifest /\ faults' = faults
  BY Zenon DEF Open, disk
<1>2. ctr'.lsn = manifest.floor + 1 /\ ctr'.floor = manifest.floor
  BY <1>1, Zenon
<1>3. job'.rest = WalTail /\ job'.trim = Superseded
  BY <1>1, Zenon DEF NoJob
<1>4. manifest.floor \in Nat /\ \A t \in Rec : At(t).lsn \in Nat
  BY LogTypes, Zenon
<1>5. \A t \in Rec \ WalTail : At(t).lsn <= manifest.floor
  <2>1. \A t \in Rec : At(t).lsn > manifest.floor => t \in WalTail
    BY Zenon DEF Rec, RecOf, At, WalTail
  <2> QED
    BY <1>4, <2>1
<1>6. \A t \in Rec : t[1] \in Superseded => t \notin WalTail
  BY Zenon DEF Superseded
<1>7. \A t : At(t)' = At(t)
  BY <1>1, Zenon DEF At
<1>8. Base = manifest.floor /\ Base' = manifest.floor /\ Rec' = Rec
  BY <1>1, <1>2, Zenon DEF Base, Rec
<1>9. ctr'.floor <= manifest'.floor /\ manifest'.floor < ctr'.lsn
  BY <1>1, <1>2, <1>4
<1>10. \A t \in Rec' : Complete(wal', Base', At(t)'.lsn)
  BY <1>1, <1>7, <1>8, Zenon DEF LogInv
<1>11. Complete(wal', Base', ctr'.lsn - 1)
  <2>1. ctr'.lsn - 1 = manifest.floor
    BY <1>2, <1>4
  <2> QED
    BY <1>4, <1>8, <2>1 DEF Complete
<1>12. \A t \in Rec' \ job'.rest : At(t)'.lsn < ctr'.lsn
  BY <1>2, <1>3, <1>4, <1>5, <1>7, <1>8
<1>13. \A t \in Rec' : t[1] \in job'.trim => At(t)'.lsn <= ctr'.floor
  BY <1>2, <1>3, <1>5, <1>6, <1>7, <1>8, Zenon
<1>14. faults'.kills = 0 => \A q \in DOMAIN wal' : Len(wal'[q]) <= synced'[q]
  BY <1>1, Zenon DEF LogInv
<1>15. ~HasLog'
  BY <1>1, Zenon DEF HasLog
<1> QED
  BY <1>1, <1>9, <1>10, <1>11, <1>12, <1>13, <1>14, <1>15, Zenon DEF LogInv

\* A replayed record moves the counter past its LSN.
LEMMA ReplayLog ==
  ASSUME StoreInv, StoreInv', FileInv, LogInv, ReplayFrame
  PROVE  LogInv'
<1> DEFINE t == First(job.rest)
           x == At(t).lsn + 1
<1>1. /\ pc = "replay" /\ pc' = "replay" /\ job.rest # {} /\ job' = [job EXCEPT !.rest = @ \ {t}]
      /\ wal' = wal /\ synced' = synced /\ manifest' = manifest /\ faults' = faults
  BY Zenon DEF ReplayFrame, disk
<1>2. ctr'.lsn = Greatest({ctr.lsn, x}) /\ ctr'.floor = ctr.floor
  <2>1. ctr' = [ctr EXCEPT !.lsn = Greatest({@, x}),
                  !.cid = IF At(t).op = "create" THEN Greatest({@, At(t).cid + 1}) ELSE @]
    BY DEF ReplayFrame, At
  <2>2. ctr \in CtrType
    BY LogTypes, Zenon
  <2> HIDE DEF x, t
  <2> QED
    BY <2>1, <2>2, Zenon DEF CtrType
<1>3. IsJob(job) /\ job.rest \subseteq WalTail
  BY <1>1, LogTypes DEF StoreInv, JobInv
<1>4. job.rest \in SUBSET (Nat \X Nat)
  BY <1>3, Zenon DEF IsJob
<1>5. t \in Rec
  <2>1. t \in job.rest
    BY <1>1, <1>4, FirstProperties, Zenon
  <2>2. WalTail \subseteq Rec
    BY Zenon DEF WalTail, Rec, RecOf
  <2> QED
    BY <1>3, <2>1, <2>2, Zenon
<1>6. job'.rest = job.rest \ {t} /\ job'.trim = job.trim
  BY <1>1, <1>3, Zenon DEF IsJob
<1> HIDE DEF t
<1>7. At(t).lsn \in Nat /\ ctr.lsn \in Nat /\ manifest.floor \in Nat /\ ctr.floor \in Nat
      /\ \A u \in Rec : At(u).lsn \in Nat
  BY <1>5, LogTypes, Zenon
<1>8. x \in Nat
  BY <1>7
<1>9. ctr'.lsn \in {ctr.lsn, x} /\ ctr.lsn <= ctr'.lsn /\ x <= ctr'.lsn
  BY <1>2, <1>7, <1>8, GreaterOfTwo, Zenon
<1>10. ctr'.lsn \in Nat
  BY <1>7, <1>8, <1>9
<1>11. /\ ctr.floor <= manifest.floor /\ manifest.floor < ctr.lsn
       /\ \A u \in Rec : Complete(wal, Base, At(u).lsn)
       /\ Complete(wal, Base, ctr.lsn - 1)
       /\ \A u \in Rec \ job.rest : At(u).lsn < ctr.lsn
       /\ \A u \in Rec : u[1] \in job.trim => At(u).lsn <= ctr.floor
       /\ faults.kills = 0 => \A q \in DOMAIN wal : Len(wal[q]) <= synced[q]
  BY <1>1, Zenon DEF LogInv
<1>12. Base' = Base /\ Rec' = Rec /\ \A u : At(u)' = At(u)
  BY <1>1, <1>2, Zenon DEF Base, Rec, At
<1>13. Complete(wal', Base', ctr'.lsn - 1)
  <2>1. CASE ctr'.lsn = ctr.lsn
    BY <1>1, <1>11, <1>12, <2>1, Zenon
  <2>2. CASE ctr'.lsn = x
    <3>1. ctr'.lsn - 1 = At(t).lsn
      BY <1>7, <2>2
    <3> QED
      BY <1>1, <1>5, <1>11, <1>12, <3>1, Zenon
  <2> QED
    BY <1>9, <2>1, <2>2, Zenon
<1>14. \A u \in Rec' \ job'.rest : At(u)'.lsn < ctr'.lsn
  <2> SUFFICES ASSUME NEW u \in Rec, u \notin job'.rest PROVE At(u).lsn < ctr'.lsn
    BY <1>12, Zenon
  <2>1. CASE u = t
    BY <1>7, <1>9, <1>10, <2>1
  <2>2. CASE u # t
    <3>1. At(u).lsn < ctr.lsn
      BY <1>6, <1>11, <2>2, Zenon
    <3> QED
      BY <1>7, <1>9, <1>10, <3>1
  <2> QED
    BY <2>1, <2>2, Zenon
<1>15. manifest'.floor < ctr'.lsn
  BY <1>1, <1>7, <1>9, <1>10, <1>11
<1>16. ~HasLog'
  BY <1>1, Zenon DEF HasLog
<1> QED
  BY <1>1, <1>2, <1>6, <1>11, <1>12, <1>13, <1>14, <1>15, <1>16, Zenon DEF LogInv

\* When nothing is left to replay the counter is past every record; recovery goes on
\* to collect garbage.
LEMMA RecoverLog ==
  ASSUME FileInv, LogInv, ReplayDone \/ (GcDone /\ job.opening)
  PROVE  LogInv'
<1>1. UNCHANGED <<disk, mem, job, faults>>
  BY Zenon DEF ReplayDone, GcDone
<1>2. wal' = wal /\ synced' = synced /\ manifest' = manifest /\ faults' = faults /\ ctr' = ctr /\ job' = job
  BY <1>1, Zenon DEF disk, mem
<1>3. \/ pc = "replay" /\ job.rest = {} /\ pc' = "gc"
      \/ pc = "gc" /\ pc' = "newwal"
  BY Zenon DEF ReplayDone, GcDone
<1>4. job.opening
  BY <1>3, Zenon DEF FileInv, ReplayDone, GcDone
<1>5. ~HasLog'
  BY <1>2, <1>3, <1>4, Zenon DEF HasLog
<1>6. \A t \in Rec : At(t).lsn < ctr.lsn
  BY <1>3, Zenon DEF LogInv
<1>7. Base' = Base /\ Rec' = Rec /\ \A u : At(u)' = At(u)
  BY <1>2, <1>3, Zenon DEF Base, Rec, At
<1>8. /\ ctr.floor <= manifest.floor /\ manifest.floor < ctr.lsn
      /\ \A u \in Rec : Complete(wal, Base, At(u).lsn)
      /\ Complete(wal, Base, ctr.lsn - 1)
      /\ \A u \in Rec : u[1] \in job.trim => At(u).lsn <= ctr.floor
      /\ faults.kills = 0 => \A q \in DOMAIN wal : Len(wal[q]) <= synced[q]
  BY <1>3, Zenon DEF LogInv
<1> QED
  BY <1>2, <1>3, <1>5, <1>6, <1>7, <1>8, Zenon DEF LogInv

-----------------------------------------------------------------------------
\* A crash cuts every file of the log back to a number of frames: of the file in use
\* at most the batch in flight goes, of the others nothing.
Cut(c) ==
  /\ DOMAIN wal' = DOMAIN wal
  /\ \A q \in DOMAIN wal :
       /\ c[q] \in Nat /\ c[q] <= Len(wal[q])
       /\ CutBack(wal[q], c[q], wal'[q])
       /\ IF pc = "sync" /\ q = ctr.walSeq THEN Len(wal[q]) - Len(job.batch) <= c[q] ELSE c[q] = Len(wal[q])

\* A file that stays whole.
LEMMA WholeFile ==
  ASSUME NEW s \in Seq(Frame \cup {TornFrame})
  PROVE  CutBack(s, Len(s), s)
<1>1. Readable(s) = {p \in Readable(s) : p <= Len(s)} /\ Len(s) \in Nat
  BY DEF Readable
<1> QED
  BY <1>1, Zenon DEF CutBack

\* What a crash takes is newer than all it leaves.
LEMMA CutNewest ==
  ASSUME StoreInv, FileInv, LogInv, NEW c, Cut(c)
  PROVE  /\ \A t \in Rec' : t \in Rec /\ At(t)' = At(t)
         /\ \A t \in Rec', u \in Rec \ Rec' : At(t).lsn < At(u).lsn
<1> DEFINE b == job.batch
           q == ctr.walSeq
           n == Len(b)
           k == Len(wal[q])
           l == b[1].lsn
<1>1. ASSUME NEW t
      PROVE  t \in Rec' <=> t \in Rec /\ t[2] <= c[t[1]]
  <2>1. t \in RecOf(wal') <=> /\ t = <<t[1], t[2]>> /\ t[1] \in DOMAIN wal'
                              /\ t[2] \in Readable(wal'[t[1]])
    BY RecMember, Zenon
  <2>2. t \in RecOf(wal) <=> /\ t = <<t[1], t[2]>> /\ t[1] \in DOMAIN wal
                             /\ t[2] \in Readable(wal[t[1]])
    BY RecMember, Zenon
  <2>3. t[1] \in DOMAIN wal => (t[2] \in Readable(wal'[t[1]]) <=> t[2] \in Readable(wal[t[1]]) /\ t[2] <= c[t[1]])
    BY Zenon DEF Cut, CutBack
  <2>4. DOMAIN wal' = DOMAIN wal
    BY Zenon DEF Cut
  <2> QED
    BY <2>1, <2>2, <2>3, <2>4, Zenon DEF Rec
<1>2. \A t \in Rec : t[1] \in DOMAIN wal /\ t[2] \in Nat /\ t[2] \in 1..Len(wal[t[1]]) /\ At(t).lsn \in Nat
  BY LogTypes, Zenon
<1>3. ASSUME NEW t \in Rec' PROVE t \in Rec /\ At(t)' = At(t)
  <2>1. t \in Rec /\ t[2] <= c[t[1]]
    BY <1>1, Zenon
  <2>2. t[1] \in DOMAIN wal /\ t[2] \in 1..c[t[1]]
    BY <1>2, <2>1 DEF Cut
  <2> QED
    BY <2>1, <2>2, Zenon DEF Cut, CutBack, At
<1>4. ASSUME NEW t \in Rec', NEW u \in Rec, u \notin Rec' PROVE At(t).lsn < At(u).lsn
  <2>1. t \in Rec /\ t[2] <= c[t[1]] /\ ~(u[2] <= c[u[1]])
    BY <1>1, <1>4, Zenon
  <2>2. pc = "sync" /\ u[1] = q /\ k - n <= c[q] /\ c[q] \in Nat /\ u[2] > c[q] /\ q \in DOMAIN wal
    <3>1. u[1] \in DOMAIN wal /\ u[2] <= Len(wal[u[1]]) /\ u[2] \in Nat
      BY <1>2
    <3>2. c[u[1]] \in Nat /\ c[u[1]] # Len(wal[u[1]])
      BY <2>1, <3>1 DEF Cut
    <3>3. pc = "sync" /\ u[1] = q
      BY <3>1, <3>2, Zenon DEF Cut
    <3>4. k - n <= c[q]
      BY <3>1, <3>3, Zenon DEF Cut
    <3>5. c[q] \in Nat /\ ~(u[2] <= c[q])
      BY <2>1, <3>2, <3>3, Zenon
    <3>6. u[2] > c[q]
      BY <3>1, <3>5
    <3> QED
      BY <3>1, <3>3, <3>4, <3>5, <3>6, Zenon
  <2>3. /\ 0 < n /\ n <= k
        /\ \A i \in 1..n : wal[q][k - n + i] = b[i] /\ b[i].lsn = l + i - 1
        /\ \A s \in Rec : At(s).lsn < l \/ (s[1] = q /\ s[2] > k - n)
    BY <2>2 DEF LogInv, BatchInv, InBatch
  <2>4. b \in Seq(Frame) /\ n \in Nat /\ k \in Nat
    BY <2>2, LogTypes, Zenon
  <2>5. l \in Nat
    <3>1. b[1] \in Frame
      BY <2>3, <2>4
    <3> QED
      BY <3>1 DEF Frame
  <2> HIDE DEF b, q, n, k, l
  <2>6. ASSUME NEW s \in Rec, s[1] = q, s[2] > k - n
        PROVE  At(s).lsn = l + (s[2] - (k - n)) - 1
    <3> DEFINE i == s[2] - (k - n)
    <3>1. s[2] \in Nat /\ s[2] \in 1..k
      BY <1>2, <2>6 DEF k, q
    <3>2. i \in 1..n /\ k - n + i = s[2]
      BY <2>3, <2>4, <2>6, <3>1
    <3> HIDE DEF i
    <3>3. At(s).lsn = l + i - 1
      BY <2>3, <2>6, <3>2 DEF At
    <3> QED
      BY <3>3 DEF i
  <2>7. u[2] \in Nat /\ t[2] \in Nat
    BY <1>2, <2>1
  <2>8. u[2] > k - n
    BY <2>2, <2>4, <2>7
  <2>9. At(u).lsn = l + (u[2] - (k - n)) - 1
    BY <2>2, <2>6, <2>8, Zenon
  <2>10. CASE At(t).lsn < l
    BY <1>2, <2>1, <2>4, <2>5, <2>7, <2>8, <2>9, <2>10
  <2>11. CASE t[1] = q /\ t[2] > k - n
    <3>1. At(t).lsn = l + (t[2] - (k - n)) - 1
      BY <2>1, <2>6, <2>11, Zenon
    <3>2. t[2] < u[2]
      BY <2>1, <2>2, <2>7, <2>11
    <3> QED
      BY <2>4, <2>5, <2>7, <2>9, <3>1, <3>2
  <2> QED
    BY <2>1, <2>3, <2>10, <2>11, Zenon
<1> QED
  BY <1>3, <1>4, Zenon

\* A crash leaves no gap.
LEMMA CutLog ==
  ASSUME StoreInv, FileInv, LogInv, NEW c, Cut(c), Crash,
         faults'.kills = 0 => \A q \in DOMAIN wal' : Len(wal'[q]) <= synced'[q]
  PROVE  LogInv'
<1>1. pc # "down" /\ pc' = "down" /\ job' = NoJob /\ manifest' = manifest
  BY Zenon DEF Crash
<1>2. /\ \A t \in Rec' : t \in Rec /\ At(t)' = At(t)
      /\ \A t \in Rec', u \in Rec \ Rec' : At(t).lsn < At(u).lsn
  BY CutNewest, Zenon
<1>3. /\ ctr.floor <= manifest.floor /\ \A t \in Rec : Complete(wal, ctr.floor, At(t).lsn)
  BY <1>1, Zenon DEF LogInv, Base
<1>4. ctr.floor \in Nat /\ manifest.floor \in Nat /\ \A t \in Rec : At(t).lsn \in Nat
  BY LogTypes, Zenon
<1>5. ASSUME NEW t \in Rec' PROVE Complete(wal', manifest.floor, At(t)'.lsn)
  <2> SUFFICES ASSUME NEW m \in manifest.floor + 1 .. At(t)'.lsn
               PROVE  \E u \in RecOf(wal') : wal'[u[1]][u[2]].lsn = m
    BY Zenon DEF Complete
  <2>1. t \in Rec /\ At(t)' = At(t) /\ Complete(wal, ctr.floor, At(t).lsn)
    BY <1>2, <1>3, Zenon
  <2>2. m \in Nat /\ m <= At(t).lsn /\ m \in ctr.floor + 1 .. At(t).lsn
    <3>1. At(t).lsn \in Nat /\ m \in manifest.floor + 1 .. At(t).lsn
      BY <1>4, <2>1, Zenon
    <3> QED
      BY <1>3, <1>4, <3>1
  <2>3. PICK u \in Rec : At(u).lsn = m
    BY <2>1, <2>2, Zenon DEF Complete, Rec, At
  <2>4. u \in Rec'
    <3>1. ~(At(t).lsn < At(u).lsn)
      <4>1. \A x, y \in Nat : y <= x => ~(x < y)
        OBVIOUS
      <4> QED
        BY <1>4, <2>1, <2>2, <2>3, <4>1, Zenon
    <3> QED
      BY <1>2, <3>1, Zenon
  <2>5. At(u)' = At(u)
    BY <1>2, <2>4, Zenon
  <2> QED
    BY <2>3, <2>4, <2>5, Zenon DEF Rec, At
<1>6. job'.trim = {}
  BY <1>1, Zenon DEF NoJob
<1>7. Base' = manifest.floor /\ ~HasLog'
  BY <1>1, Zenon DEF Base, HasLog
<1> QED
  BY <1>1, <1>5, <1>6, <1>7, Zenon DEF LogInv

\* A kill may cut an append short.
LEMMA KillCuts ==
  ASSUME StoreInv, FileInv, LogInv, Kill
  PROVE  \E c : Cut(c)
<1>3. \A q \in DOMAIN wal : wal[q] \in Seq(Frame \cup {TornFrame}) /\ Len(wal[q]) \in Nat
  BY LogTypes, Zenon
<1>4. CASE pc # "sync"
  <2> DEFINE c == [q \in DOMAIN wal |-> Len(wal[q])]
  <2>1. wal' = wal
    BY <1>4, Zenon DEF Kill
  <2>2. \A q \in DOMAIN wal : c[q] = Len(wal[q]) /\ Len(wal[q]) <= Len(wal[q]) /\ CutBack(wal[q], Len(wal[q]), wal[q])
    BY <1>3, WholeFile
  <2> HIDE DEF c
  <2>3. Cut(c)
    BY <1>3, <1>4, <2>1, <2>2, Zenon DEF Cut
  <2> QED
    BY <2>3, Zenon
<1>5. CASE pc = "sync"
  <2> DEFINE r == ctr.walSeq
             L == Len(wal[r])
  <2>1. PICK k \in 0..Len(job.batch), torn \in BOOLEAN : wal' = [wal EXCEPT ![r] = CutAt(@, L - k, torn)]
    BY <1>5 DEF Kill
  <2>2. r \in DOMAIN wal
    BY <1>5, Zenon DEF FileInv, HasLog
  <2>3. /\ Len(job.batch) <= L /\ Len(job.batch) \in Nat /\ L \in Nat
        /\ L - k \in Nat /\ L - k <= L /\ L - Len(job.batch) <= L - k
    <3>1. Len(job.batch) <= L
      BY <1>5 DEF LogInv, BatchInv
    <3>2. Len(job.batch) \in Nat /\ L \in Nat
      BY <2>2, LogTypes, Zenon
    <3> QED
      BY <3>1, <3>2
  <2>4. /\ wal'[r] = CutAt(wal[r], L - k, torn) /\ DOMAIN wal' = DOMAIN wal
        /\ \A q \in DOMAIN wal : q # r => wal'[q] = wal[q]
    BY <2>1, <2>2
  <2> DEFINE c == [q \in DOMAIN wal |-> IF q = r THEN L - k ELSE Len(wal[q])]
  <2>5. c[r] = L - k /\ \A q \in DOMAIN wal : q # r => c[q] = Len(wal[q])
    BY <2>2
  <2> HIDE DEF c, L, r
  <2>6. CutBack(wal[r], L - k, wal'[r])
    <3>1. wal[r] \in Seq(Frame \cup {TornFrame}) /\ L = Len(wal[r])
      BY <1>3, <2>2, Zenon DEF L
    <3>2. IsCut(wal[r], L - k, wal'[r])
      BY <2>1, <2>3, <2>4, <3>1, Zenon DEF IsCut
    <3> QED
      BY <3>2, CutFrames, Zenon
  <2>7. ASSUME NEW q \in DOMAIN wal
        PROVE  /\ c[q] \in Nat /\ c[q] <= Len(wal[q]) /\ CutBack(wal[q], c[q], wal'[q])
               /\ IF q = r THEN Len(wal[q]) - Len(job.batch) <= c[q] ELSE c[q] = Len(wal[q])
    <3>1. CASE q = r
      <4>1. c[q] = L - k /\ Len(wal[q]) = L /\ wal'[q] = wal'[r] /\ wal[q] = wal[r]
        BY <2>5, <3>1, Zenon DEF L
      <4> QED
        BY <2>3, <2>6, <3>1, <4>1, Zenon
    <3>2. CASE q # r
      <4>1. c[q] = Len(wal[q]) /\ wal'[q] = wal[q]
        BY <2>4, <2>5, <3>2, Zenon
      <4>2. Len(wal[q]) \in Nat /\ Len(wal[q]) <= Len(wal[q])
        BY <1>3
      <4>3. CutBack(wal[q], Len(wal[q]), wal[q])
        BY <1>3, WholeFile, Zenon
      <4> QED
        BY <3>2, <4>1, <4>2, <4>3, Zenon
    <3> QED
      BY <3>1, <3>2, Zenon
  <2>8. Cut(c)
    BY <1>5, <2>4, <2>7, Zenon DEF Cut, r
  <2> QED
    BY <2>8, Zenon
<1> QED
  BY <1>4, <1>5, Zenon

\* After no kill, a power loss takes only what no fsync has acknowledged.
LEMMA PowerCuts ==
  ASSUME StoreInv, LogInv, PowerLoss, OneKind'
  PROVE  (\E c : Cut(c)) /\ \A q \in DOMAIN wal' : Len(wal'[q]) <= synced'[q]
<1>1. faults.kills = 0 /\ faults'.kills = 0
  <2>1. faults' = [faults EXCEPT !.power = @ + 1] /\ faults \in [kills : Nat, power : Nat, errors : Nat]
    BY LogTypes, Zenon DEF PowerLoss
  <2>2. faults'.power # 0 /\ faults'.kills = faults.kills
    BY <2>1
  <2> QED
    BY <2>2 DEF OneKind
<1>3. \A q \in DOMAIN wal : wal[q] \in Seq(Frame \cup {TornFrame}) /\ Len(wal[q]) \in Nat /\ synced[q] \in Nat
  BY LogTypes, Zenon
<1>4. PICK c \in [DOMAIN wal -> 0..MaxLsn], torn \in BOOLEAN :
        /\ \A q \in DOMAIN wal : synced[q] <= c[q] /\ c[q] <= Len(wal[q])
        /\ wal' = [q \in DOMAIN wal |-> CutAt(wal[q], c[q], torn)]
        /\ synced' = [q \in DOMAIN wal |-> Len(wal'[q])]
  BY Zenon DEF PowerLoss
<1>5. DOMAIN wal' = DOMAIN wal /\ \A q \in DOMAIN wal : wal'[q] = CutAt(wal[q], c[q], torn) /\ synced'[q] = Len(wal'[q])
  BY <1>4
<1>6. \A q \in DOMAIN wal : c[q] \in Nat /\ c[q] <= Len(wal[q]) /\ synced[q] <= c[q]
  BY <1>4
<1>7. ASSUME NEW q \in DOMAIN wal PROVE Len(wal'[q]) \in Nat /\ CutBack(wal[q], c[q], wal'[q])
  <2>1. IsCut(wal[q], c[q], wal'[q])
    BY <1>3, <1>4, <1>5, <1>6, Zenon DEF IsCut
  <2>2. CutBack(wal[q], c[q], wal'[q])
    BY <2>1, CutFrames, Zenon
  <2> QED
    BY <2>2, Zenon DEF CutBack
<1>8. ASSUME NEW q \in DOMAIN wal
      PROVE  IF pc = "sync" /\ q = ctr.walSeq THEN Len(wal[q]) - Len(job.batch) <= c[q] ELSE c[q] = Len(wal[q])
  <2>1. IF pc = "sync" /\ q = ctr.walSeq THEN Len(wal[q]) - Len(job.batch) <= synced[q] ELSE Len(wal[q]) <= synced[q]
    BY <1>1, Zenon DEF LogInv
  <2>2. Len(job.batch) \in Nat
    BY LogTypes, Zenon
  <2> QED
    BY <1>3, <1>6, <2>1, <2>2
<1>9. Cut(c)
  BY <1>5, <1>6, <1>7, <1>8, Zenon DEF Cut
<1>10. \A q \in DOMAIN wal' : Len(wal'[q]) <= synced'[q]
  BY <1>5, <1>7
<1> QED
  BY <1>9, <1>10, Zenon

\* Neither leaves a gap.
LEMMA CrashLog ==
  ASSUME StoreInv, FileInv, LogInv, Kill \/ (PowerLoss /\ OneKind')
  PROVE  LogInv'
<1>1. Crash
  BY Zenon DEF Kill, PowerLoss
<1>2. CASE Kill
  <2>1. faults' = [faults EXCEPT !.kills = @ + 1] /\ faults \in [kills : Nat, power : Nat, errors : Nat]
    BY <1>2, LogTypes, Zenon DEF Kill
  <2>2. faults'.kills # 0
    BY <2>1
  <2> QED
    BY <1>1, <1>2, <2>2, KillCuts, CutLog, Zenon
<1>3. CASE PowerLoss /\ OneKind'
  BY <1>1, <1>3, PowerCuts, CutLog, Zenon
<1> QED
  BY <1>2, <1>3, Zenon

-----------------------------------------------------------------------------
\* No step takes back a fault.
LEMMA KindStays ==
  ASSUME StoreInv, StoreInv', FileInv, [Next]_vars, OneKind'
  PROVE  OneKind
<1>1. faults \in [kills : Nat, power : Nat, errors : Nat]
  BY LogTypes, Zenon
<1>2. CASE faults' = faults \/ (faults'.kills = faults.kills /\ faults'.power = faults.power)
  BY <1>2, Zenon DEF OneKind
<1>3. CASE Kill
  <2>1. faults' = [faults EXCEPT !.kills = @ + 1]
    BY <1>3, Zenon DEF Kill
  <2>2. faults'.kills # 0 /\ faults'.power = faults.power
    BY <1>1, <2>1
  <2> QED
    BY <2>2, Zenon DEF OneKind
<1>4. CASE PowerLoss
  <2>1. faults' = [faults EXCEPT !.power = @ + 1]
    BY <1>4, Zenon DEF PowerLoss
  <2>2. faults'.power # 0 /\ faults'.kills = faults.kills
    BY <1>1, <2>1
  <2> QED
    BY <2>2, Zenon DEF OneKind
<1>5. CASE AppendFails \/ RotateFails
  <2>1. faults' = [faults EXCEPT !.errors = @ + 1]
    BY <1>5, Zenon DEF AppendFails, RotateFails, Fails
  <2>2. faults'.kills = faults.kills /\ faults'.power = faults.power
    BY <1>1, <2>1
  <2> QED
    BY <1>2, <2>2
<1>6. CASE Stay \/ Work
  BY <1>2, <1>6, Zenon DEF Stay, Work, LogSame
<1>7. CASE \/ SyncWal \/ SwapCheckpoint \/ RotateWal \/ TrimWal \/ Open \/ ReplayFrame \/ ReplayDone
           \/ GcDone \/ StartWal
  BY <1>2, <1>7, Zenon DEF SyncWal, SwapCheckpoint, Swapped, RotateWal, TrimWal, Open, ReplayFrame,
                           ReplayDone, GcDone, StartWal
<1>8. CASE Mutate
  <2>1. Appending
    BY <1>8, MutateAppends, Zenon
  <2>2. faults' = faults
    BY <2>1, Zenon DEF Appending
  <2> QED
    BY <1>2, <2>2, Zenon
<1> QED
  BY <1>3, <1>4, <1>5, <1>6, <1>7, <1>8, LogCases, Zenon

\* Every step keeps the log without gaps, if a failed append does not leave half a
\* batch behind and kills and power losses do not mix.
LEMMA LogStep ==
  ASSUME StoreInv, StoreInv', FileInv, LogInv, [Next]_vars, "append" \notin Errors, OneKind'
  PROVE  LogInv'
<1>1. ~AppendFails
  BY Zenon DEF AppendFails, Fails
<1>2. CASE Mutate
  BY <1>2, MutateAppends, AppendLog, Zenon
<1>3. CASE Stay \/ Work \/ SyncWal \/ SwapCheckpoint
  BY <1>3, StayLog, WorkLog, SyncLog, SwapLog, Zenon
<1>4. CASE (RotateWal /\ pc' # "idle") \/ RotateFails \/ StartWal \/ (TrimWal /\ pc' = "trim")
  BY <1>4, RotateLog, RotateFailsLog, StartLog, TrimLog, Zenon
<1>5. CASE Open \/ ReplayFrame \/ ReplayDone \/ (GcDone /\ job.opening)
  BY <1>5, OpenLog, ReplayLog, RecoverLog, Zenon
<1>6. CASE Kill \/ PowerLoss
  BY <1>6, CrashLog, Zenon
<1> QED
  BY <1>1, <1>2, <1>3, <1>4, <1>5, <1>6, LogCases, Zenon

\* The first log is empty.
LEMMA LogInit == Init => LogInv
<1> SUFFICES ASSUME Init PROVE LogInv
  OBVIOUS
<1>1. pc = "down" /\ job = NoJob /\ wal = EmptyMap
  BY DEF Init
<1>2. DOMAIN wal = {}
  BY <1>1, EmptyMapProperties, Zenon
<1>3. Rec = {}
  BY <1>2 DEF Rec, RecOf
<1> QED
  BY <1>1, <1>2, <1>3, Zenon DEF LogInv, HasLog

\* A log without gaps covers the window.
LEMMA LogCovers ==
  ASSUME StoreInv, LogInv
  PROVE  LogCoversWindow
<1> SUFFICES ASSUME pc = "idle", NEW l \in manifest.floor + 1 .. ctr.lsn - 1
             PROVE  \E t \in WalTail : wal[t[1]][t[2]].lsn = l
  BY Zenon DEF LogCoversWindow
<1>1. Complete(wal, ctr.floor, ctr.lsn - 1) /\ ctr.floor <= manifest.floor
  BY Zenon DEF LogInv, Base
<1>2. ctr.floor \in Nat /\ manifest.floor \in Nat /\ ctr.lsn \in Nat
  BY LogTypes, Zenon
<1>3. l \in ctr.floor + 1 .. ctr.lsn - 1 /\ l > manifest.floor
  BY <1>1, <1>2
<1>4. PICK t \in Rec : At(t).lsn = l
  BY <1>1, <1>3, Zenon DEF Complete, Rec, At
<1>5. t \in WalTail
  BY <1>3, <1>4, Zenon DEF WalTail, Rec, RecOf, At
<1> QED
  BY <1>4, <1>5, Zenon DEF At
=============================================================================

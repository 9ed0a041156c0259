---------------------------- MODULE StoreIdProofs ---------------------------
(***************************************************************************)
(* Collection ids: those of the catalogue and of the log are below the     *)
(* next one, and recovery counts beyond an id before it can meet it.       *)
(***************************************************************************)
EXTENDS StoreLogProofs

-----------------------------------------------------------------------------
(* Collection ids.                                                         *)

\* The catalogue stays as it is.
CatSame ==
  /\ colls' = colls /\ nameIndex' = nameIndex /\ ctr'.cid = ctr.cid
  /\ manifest'.colls = manifest.colls /\ manifest'.cid = manifest.cid
  /\ manifest'.floor = manifest.floor
  /\ pc = "down" <=> pc' = "down"

\* And no batch is begun or applied.
Quiet ==
  /\ CatSame /\ ctr'.lsn = ctr.lsn
  /\ \/ pc' = pc /\ job'.batch = job.batch /\ job'.rest = job.rest
     \/ /\ pc \notin {"sync", "apply"} /\ pc' \notin {"sync", "apply", "replay"}
        /\ pc = "replay" => job.rest = {}

\* The swap of a manifest, reported or not.
Swapping ==
  /\ pc \in {"seal", "merged"} /\ pc' \in {"rotate", "gc", "idle"}
  /\ manifest' = CheckpointManifest \/ manifest' = CompactManifest
  /\ DOMAIN colls' = DOMAIN colls /\ nameIndex' = nameIndex /\ ctr'.cid = ctr.cid
  /\ wal' = wal

\* The steps of an operation that leave the catalogue alone.
LEMMA QuietSteps ==
  ASSUME StoreInv,
         \/ (\E blobs : Checkpoint(blobs)) \/ WriteDel \/ SealActive \/ WriteIndexSnapshot
         \/ RewriteManifest \/ RotateWal \/ TrimWal \/ GcShredKey \/ GcRemoveDir \/ GcSegment
         \/ GcIndexSnapshot \/ GcDone \/ ShredKey \/ MergeSegments \/ Compact \/ ReplayDone
         \/ StartWal \/ SealFails \/ RotateFails \/ UNCHANGED vars
  PROVE  Quiet
<1>1. /\ ctr \in CtrType /\ IsJob(job)
      /\ manifest \in [version : Nat, floor : Nat, cid : Nat, seg : Nat,
                       intact : BOOLEAN, colls : {manifest.colls}]
  BY TypeFacts DEF StoreInv, TypeOK
<1>2. CASE RewriteManifest
  <2>1. /\ manifest' = [manifest EXCEPT !.intact = FALSE] /\ colls' = colls /\ nameIndex' = nameIndex
        /\ ctr' = ctr /\ pc' = pc /\ job' = job
    BY <1>2, Zenon DEF RewriteManifest, mem
  <2>2. manifest'.colls = manifest.colls /\ manifest'.cid = manifest.cid /\ manifest'.floor = manifest.floor
    BY <1>1, <2>1
  <2> QED
    BY <2>1, <2>2, Zenon DEF Quiet, CatSame
<1>3. ASSUME manifest' = manifest, colls' = colls, nameIndex' = nameIndex, pc = "down" <=> pc' = "down",
             ctr' = ctr \/ \E k : ctr' = [ctr EXCEPT !.seg = k] \/ ctr' = [ctr EXCEPT !.walSeq = k]
      PROVE  CatSame /\ ctr'.lsn = ctr.lsn
  <2>1. ctr'.cid = ctr.cid /\ ctr'.lsn = ctr.lsn
    BY <1>1, <1>3, Zenon DEF CtrType
  <2> QED
    BY <1>3, <2>1, Zenon DEF CatSame
<1>4. CASE (\E blobs : Checkpoint(blobs)) \/ Compact \/ ShredKey \/ ReplayDone \/ GcDone
  <2>1. /\ manifest' = manifest /\ colls' = colls /\ nameIndex' = nameIndex /\ ctr' = ctr
    BY <1>4, Zenon DEF Checkpoint, Compact, ShredKey, ReplayDone, GcDone, disk, mem
  <2>2. /\ pc \notin {"down", "sync", "apply"} /\ pc' \notin {"down", "sync", "apply", "replay"}
        /\ pc = "replay" => job.rest = {}
    BY <1>4 DEF Checkpoint, Compact, ShredKey, ReplayDone, GcDone
  <2> QED
    BY <1>3, <2>1, <2>2, Zenon DEF Quiet
<1>5. CASE WriteDel \/ SealActive \/ WriteIndexSnapshot \/ MergeSegments
  <2>1. /\ manifest' = manifest /\ colls' = colls /\ nameIndex' = nameIndex
        /\ ctr' = ctr \/ \E k : ctr' = [ctr EXCEPT !.seg = k]
    BY <1>5, Zenon DEF WriteDel, SealActive, WriteIndexSnapshot, MergeSegments, mem
  <2>2. pc \in {"seal", "compact"} /\ pc' \in {"seal", "merged"}
    BY <1>5 DEF WriteDel, SealActive, WriteIndexSnapshot, MergeSegments, Sealing, mem
  <2> QED
    BY <1>3, <2>1, <2>2, Zenon DEF Quiet
<1>6. CASE GcShredKey \/ GcRemoveDir \/ GcSegment \/ GcIndexSnapshot \/ UNCHANGED vars
  <2>1. /\ manifest' = manifest /\ colls' = colls /\ nameIndex' = nameIndex /\ ctr' = ctr
        /\ pc' = pc /\ job' = job
    BY <1>6, Zenon DEF GcShredKey, GcRemoveDir, GcSegment, GcIndexSnapshot, vars, mem
  <2> QED
    BY <1>3, <2>1, Zenon DEF Quiet
<1>7. CASE RotateWal \/ TrimWal \/ StartWal
  <2>1. /\ manifest' = manifest /\ colls' = colls /\ nameIndex' = nameIndex
        /\ ctr' = ctr \/ \E k : ctr' = [ctr EXCEPT !.walSeq = k]
    BY <1>7, Zenon DEF RotateWal, TrimWal, StartWal, mem
  <2>2. pc \in {"rotate", "trim", "newwal"} /\ pc' \in {"idle", "trim", "gc"}
    BY <1>7 DEF RotateWal, TrimWal, StartWal
  <2> QED
    BY <1>3, <2>1, <2>2, Zenon DEF Quiet
<1>8. CASE SealFails \/ RotateFails
  <2>1. /\ manifest' = manifest /\ colls' = colls /\ nameIndex' = nameIndex /\ ctr' = ctr /\ pc' = "idle"
    BY <1>8, Zenon DEF SealFails, RotateFails, Fails
  <2>2. pc \in {"seal", "compact", "merged", "rotate"}
    BY <1>8 DEF SealFails, RotateFails
  <2> QED
    BY <1>3, <2>1, <2>2, Zenon DEF Quiet
<1> QED
  BY <1>2, <1>4, <1>5, <1>6, <1>7, <1>8, Zenon

\* The steps, by what they do to the catalogue.
LEMMA CatCases ==
  ASSUME StoreInv, [Next]_vars
  PROVE  \/ Quiet \/ Mutate \/ SyncWal \/ ApplyFrame \/ Swapping \/ Open \/ ReplayFrame \/ Kill
         \/ PowerLoss \/ AppendFails
<1>2. CASE SwapCheckpoint \/ SwapCompaction \/ SwapFails
  <2>1. ctr \in CtrType /\ DOMAIN [c \in DOMAIN colls |-> Folded(c, colls[c])] = DOMAIN colls
    BY TypeFacts
  <2>2. /\ manifest' = CheckpointManifest \/ manifest' = CompactManifest
        /\ nameIndex' = nameIndex /\ wal' = wal
        /\ ctr' = ctr \/ ctr' = [ctr EXCEPT !.version = @ + 1]
             \/ ctr' = [ctr EXCEPT !.version = @ + 1, !.floor = ctr.lsn - 1]
    BY <1>2, Zenon DEF SwapCheckpoint, SwapCompaction, SwapFails, Swapped, Fails
  <2>3. pc \in {"seal", "merged"} /\ pc' \in {"rotate", "gc", "idle"}
    BY <1>2 DEF SwapCheckpoint, SwapCompaction, SwapFails, Fails
  <2>4. DOMAIN colls' = DOMAIN colls
    BY <1>2, <2>1 DEF SwapCheckpoint, SwapCompaction, SwapFails, Fails
  <2>5. ctr'.cid = ctr.cid
    BY <2>1, <2>2, Zenon DEF CtrType
  <2> QED
    BY <2>2, <2>3, <2>4, <2>5, Zenon DEF Swapping
<1> QED
  BY <1>2, QuietSteps, Zenon DEF Next, Maintain, Proceed, Fault, Wait

\* The ids of collections are below the counter, which covers the manifest's; a batch
\* is about such collections or is the create of the next one.
CidInv ==
  /\ \A c \in DOMAIN colls : c < ctr.cid
  /\ \A n \in DOMAIN nameIndex : nameIndex[n] < ctr.cid
  /\ \A c \in DOMAIN manifest.colls : c < manifest.cid
  /\ pc # "down" => manifest.cid <= ctr.cid
  /\ pc \in {"sync", "apply"} =>
       \A i \in 1..Len(job.batch) :
         IF job.batch[i].op = "create" THEN Len(job.batch) = 1 /\ job.batch[i].cid = ctr.cid
         ELSE job.batch[i].cid < ctr.cid

\* Applying a record adds at most the collection of a create.
LEMMA AppliedCids ==
  ASSUME NEW cs, NEW ns, NEW e \in Frame
  PROVE  /\ \A c \in DOMAIN AppliedColls(cs, e) : c \in DOMAIN cs \/ (e.op = "create" /\ c = e.cid)
         /\ \A n \in DOMAIN AppliedNames(cs, ns, e) :
              \/ n \in DOMAIN ns /\ AppliedNames(cs, ns, e)[n] = ns[n]
              \/ e.op = "create" /\ AppliedNames(cs, ns, e)[n] = e.cid
<1>1. e.op \in {"create", "drop", "upsert", "delete"}
  BY DEF Frame
<1>2. CASE e.op = "create"
  <2>1. AppliedColls(cs, e) = Put(cs, e.cid, NewColl(e.name)) /\ AppliedNames(cs, ns, e) = Put(ns, e.name, e.cid)
    BY <1>2, Zenon DEF AppliedColls, AppliedNames
  <2> QED
    BY <1>2, <2>1 DEF Put
<1>3. CASE e.op = "drop"
  <2>1. /\ AppliedColls(cs, e) = Without(cs, {e.cid})
        /\ AppliedNames(cs, ns, e) = Without(ns, {cs[c].name : c \in {e.cid} \cap DOMAIN cs})
    BY <1>3 DEF AppliedColls, AppliedNames
  <2> QED
    BY <2>1 DEF Without
<1>4. CASE e.op = "upsert"
  BY <1>4 DEF AppliedColls, AppliedNames
<1>5. CASE e.op = "delete"
  BY <1>5 DEF AppliedColls, AppliedNames
<1> QED
  BY <1>1, <1>2, <1>3, <1>4, <1>5

\* Every step keeps them.
LEMMA CidStep ==
  ASSUME StoreInv, StoreInv', CidInv, [Next]_vars
  PROVE  CidInv'
<1>1. /\ ctr.cid \in Nat /\ ctr'.cid \in Nat /\ manifest.cid \in Nat /\ ctr \in CtrType
      /\ job.batch \in Seq(Frame) /\ IsJob(job)
  <2>1. ctr'.cid \in Nat
    BY DEF StoreInv, TypeOK
  <2> QED
    BY <2>1, LogTypes, Zenon
<1>2. /\ \A c \in DOMAIN colls : c < ctr.cid
      /\ \A n \in DOMAIN nameIndex : nameIndex[n] < ctr.cid
      /\ \A c \in DOMAIN manifest.colls : c < manifest.cid
      /\ pc # "down" => manifest.cid <= ctr.cid
  BY Zenon DEF CidInv
<1>3. CASE Quiet
  <2>1. /\ colls' = colls /\ nameIndex' = nameIndex /\ ctr'.cid = ctr.cid
        /\ manifest'.colls = manifest.colls /\ manifest'.cid = manifest.cid
        /\ pc = "down" <=> pc' = "down"
        /\ (pc' = pc /\ job'.batch = job.batch) \/ pc' \notin {"sync", "apply"}
    BY <1>3, Zenon DEF Quiet, CatSame
  <2> QED
    BY <2>1, Zenon DEF CidInv
<1>4. CASE Mutate
  <2>1. Appending
    BY <1>4, MutateAppends, Zenon
  <2>2. /\ manifest' = manifest /\ colls' = colls /\ nameIndex' = nameIndex /\ pc = "idle"
        /\ ctr' = ctr \/ \E k : ctr' = [ctr EXCEPT !.lsn = k]
        /\ \A i \in 1..Len(job'.batch) :
             IF job'.batch[i].op = "create" THEN Len(job'.batch) = 1 /\ job'.batch[i].cid = ctr.cid
             ELSE job'.batch[i].cid \in DOMAIN colls \cup Image(nameIndex)
    BY <2>1, Zenon DEF Appending
  <2>3. ctr'.cid = ctr.cid /\ pc # "down"
    BY <1>1, <2>2 DEF CtrType
  <2>4. \A x \in DOMAIN colls \cup Image(nameIndex) : x < ctr.cid
    BY <1>2 DEF Image
  <2> QED
    BY <1>2, <2>2, <2>3, <2>4, Zenon DEF CidInv
<1>5. CASE SyncWal
  <2>1. /\ manifest' = manifest /\ colls' = colls /\ nameIndex' = nameIndex /\ pc = "sync"
        /\ job' = job /\ \E k : ctr' = [ctr EXCEPT !.lsn = k]
    BY <1>5, Zenon DEF SyncWal
  <2>2. ctr'.cid = ctr.cid /\ pc \in {"sync", "apply"} /\ pc # "down"
    BY <1>1, <2>1 DEF CtrType
  <2> QED
    BY <2>1, <2>2, Zenon DEF CidInv
<1>6. CASE ApplyFrame
  <2> DEFINE e == job.batch[1]
             m == CHOOSE n \in job.name : TRUE
  <2>1. /\ pc = "apply" /\ job.batch # << >> /\ manifest' = manifest /\ Head(job.batch) = e
        /\ job' = [job EXCEPT !.batch = SubSeq(@, 2, Len(@))]
        /\ ctr' = IF e.op = "create" THEN [ctr EXCEPT !.cid = @ + 1] ELSE ctr
        /\ colls' = AppliedColls(colls, e)
    <3>1. /\ pc = "apply" /\ manifest' = manifest
          /\ job' = [job EXCEPT !.batch = SubSeq(@, 2, Len(@))]
          /\ ctr' = IF Head(job.batch).op = "create" THEN [ctr EXCEPT !.cid = @ + 1] ELSE ctr
          /\ colls' = AppliedColls(colls, Head(job.batch))
      BY <1>6, Zenon DEF ApplyFrame, disk
    <3>2. job.batch # << >>
      BY <3>1 DEF StoreInv, JobInv
    <3>3. Head(job.batch) = e
      BY <1>1, <3>2
    <3> QED
      BY <3>1, <3>2, <3>3, Zenon
  <2>2. nameIndex' = IF e.op = "drop" THEN Without(nameIndex, {m}) ELSE AppliedNames(colls, nameIndex, e)
    <3>1. nameIndex' = IF Head(job.batch).op = "drop" THEN Without(nameIndex, {m})
                       ELSE AppliedNames(colls, nameIndex, Head(job.batch))
      BY <1>6, Zenon DEF ApplyFrame
    <3>2. Head(job.batch) = e
      BY <2>1, Zenon
    <3> HIDE DEF e, m
    <3> QED
      BY <3>1, <3>2, Zenon
  <2>3. pc' \notin {"sync", "apply", "down"} \/ (pc' = "apply" /\ Len(job.batch) > 1)
    BY <1>6 DEF ApplyFrame
  <2>4. e \in Frame /\ 1 \in 1..Len(job.batch) /\ Len(job.batch) \in Nat
    BY <1>1, <2>1
  <2>5. IF e.op = "create" THEN Len(job.batch) = 1 /\ e.cid = ctr.cid ELSE e.cid < ctr.cid
    BY <2>1, <2>4 DEF CidInv
  <2>6. IF e.op = "create" THEN ctr'.cid = ctr.cid + 1 ELSE ctr'.cid = ctr.cid
    BY <1>1, <2>1 DEF CtrType
  <2> HIDE DEF e, m
  <2>7. \A c \in DOMAIN colls' : c < ctr'.cid
    <3>1. \A c \in DOMAIN colls' : c \in DOMAIN colls \/ (e.op = "create" /\ c = e.cid)
      BY <2>1, <2>4, AppliedCids
    <3>2. \A c \in DOMAIN colls : c \in Nat
      BY TypeFacts DEF CollsOK, MapOn
    <3> QED
      BY <1>1, <1>2, <2>5, <2>6, <3>1, <3>2
  <2>8. \A n \in DOMAIN nameIndex' : nameIndex'[n] < ctr'.cid
    <3>1. \A n \in DOMAIN nameIndex' : \/ n \in DOMAIN nameIndex /\ nameIndex'[n] = nameIndex[n]
                                       \/ e.op = "create" /\ nameIndex'[n] = e.cid
      <4>1. CASE e.op = "drop"
        BY <2>2, <4>1 DEF Without
      <4>2. CASE e.op # "drop"
        BY <2>2, <2>4, <4>2, AppliedCids
      <4> QED
        BY <4>1, <4>2
    <3>2. \A n \in DOMAIN nameIndex : nameIndex[n] \in Nat
      BY TypeFacts DEF IsMap
    <3> QED
      BY <1>1, <1>2, <2>5, <2>6, <3>1, <3>2
  <2>9. manifest'.cid <= ctr'.cid /\ \A c \in DOMAIN manifest'.colls : c < manifest'.cid
    BY <1>1, <1>2, <2>1, <2>6
  <2>10. ASSUME pc' \in {"sync", "apply"}, NEW i \in 1..Len(job'.batch)
         PROVE  job'.batch[i].op # "create" /\ job'.batch[i].cid < ctr'.cid
    <3>1. Len(job.batch) > 1 /\ job'.batch = SubSeq(job.batch, 2, Len(job.batch))
      BY <1>1, <2>1, <2>3, <2>10 DEF IsJob
    <3>2. i + 1 \in 1..Len(job.batch) /\ job'.batch[i] = job.batch[i + 1]
      BY <1>1, <2>4, <3>1
    <3>3. job.batch[i + 1].op # "create" /\ job.batch[i + 1].cid < ctr.cid
      BY <2>1, <2>4, <3>1, <3>2 DEF CidInv
    <3> QED
      BY <2>4, <2>5, <2>6, <3>1, <3>2, <3>3
  <2> QED
    BY <2>7, <2>8, <2>9, <2>10, Zenon DEF CidInv
<1>7. CASE Swapping
  <2>1. /\ DOMAIN manifest'.colls = DOMAIN colls /\ manifest'.cid = ctr.cid
    BY <1>7 DEF Swapping, CheckpointManifest, CompactManifest
  <2>2. /\ DOMAIN colls' = DOMAIN colls /\ nameIndex' = nameIndex /\ ctr'.cid = ctr.cid
        /\ pc' \notin {"sync", "apply"}
    BY <1>7 DEF Swapping
  <2> QED
    BY <1>1, <1>2, <2>1, <2>2 DEF CidInv
<1>8. CASE Open
  <2>1. /\ manifest' = manifest /\ DOMAIN colls' = DOMAIN manifest.colls /\ nameIndex' = ManifestNames
        /\ ctr'.cid = manifest.cid /\ pc' = "replay"
    BY <1>8 DEF Open, disk
  <2>2. \A n \in DOMAIN ManifestNames : ManifestNames[n] \in DOMAIN manifest.colls
    BY DEF ManifestNames
  <2> QED
    BY <1>1, <1>2, <2>1, <2>2 DEF CidInv
<1>9. CASE ReplayFrame
  <2> DEFINE e == At(First(job.rest))
  <2>1. /\ pc = "replay" /\ pc' = "replay" /\ job.rest # {} /\ manifest' = manifest
        /\ colls' = AppliedColls(colls, e) /\ nameIndex' = AppliedNames(colls, nameIndex, e)
        /\ \E k : ctr' = [ctr EXCEPT !.lsn = k,
                                    !.cid = IF e.op = "create" THEN Greatest({@, e.cid + 1}) ELSE @]
    BY <1>9, Zenon DEF ReplayFrame, At, disk
  <2>2. e \in Frame /\ e.cid \in Nat
    <3>1. First(job.rest) \in job.rest /\ job.rest \subseteq WalTail
      BY <1>1, <2>1, FirstProperties DEF IsJob, StoreInv, JobInv
    <3>2. First(job.rest) \in Rec
      BY <3>1 DEF WalTail, Rec, RecOf
    <3> QED
      BY <3>2, LogTypes, Zenon
  <2>3. ctr'.cid = IF e.op = "create" THEN Greatest({ctr.cid, e.cid + 1}) ELSE ctr.cid
    BY <1>1, <2>1 DEF CtrType
  <2>4. ctr.cid <= ctr'.cid /\ (e.op = "create" => e.cid < ctr'.cid)
    <3>1. e.cid + 1 \in Nat
      BY <2>2
    <3>2. ctr.cid <= Greatest({ctr.cid, e.cid + 1}) /\ e.cid + 1 <= Greatest({ctr.cid, e.cid + 1})
      BY <1>1, <3>1, GreaterOfTwo, Zenon
    <3> QED
      BY <1>1, <2>2, <2>3, <3>2
  <2> HIDE DEF e
  <2>5. \A c \in DOMAIN colls' : c < ctr'.cid
    <3>1. \A c \in DOMAIN colls' : c \in DOMAIN colls \/ (e.op = "create" /\ c = e.cid)
      BY <2>1, <2>2, AppliedCids
    <3>2. \A c \in DOMAIN colls : c \in Nat
      BY TypeFacts DEF CollsOK, MapOn
    <3> QED
      BY <1>1, <1>2, <2>4, <3>1, <3>2
  <2>6. \A n \in DOMAIN nameIndex' : nameIndex'[n] < ctr'.cid
    <3>1. \A n \in DOMAIN nameIndex' : \/ n \in DOMAIN nameIndex /\ nameIndex'[n] = nameIndex[n]
                                       \/ e.op = "create" /\ nameIndex'[n] = e.cid
      BY <2>1, <2>2, AppliedCids
    <3>2. \A n \in DOMAIN nameIndex : nameIndex[n] \in Nat
      BY TypeFacts DEF IsMap
    <3> QED
      BY <1>1, <1>2, <2>4, <3>1, <3>2
  <2>7. manifest'.cid <= ctr'.cid
    BY <1>1, <1>2, <2>1, <2>4
  <2> QED
    BY <1>2, <2>1, <2>5, <2>6, <2>7, Zenon DEF CidInv
<1>10. CASE Kill \/ PowerLoss
  <2>0. Crash
    BY <1>10, Zenon DEF Kill, PowerLoss
  <2>1. /\ DOMAIN colls' = {} /\ DOMAIN nameIndex' = {} /\ manifest' = manifest /\ pc' = "down"
    BY <2>0, EmptyMapProperties DEF Crash
  <2> QED
    BY <1>2, <2>1 DEF CidInv
<1>11. CASE AppendFails
  BY <1>11, Zenon DEF AppendFails, Fails, CidInv
<1> QED
  BY <1>3, <1>4, <1>5, <1>6, <1>7, <1>8, <1>9, <1>10, <1>11, CatCases, Zenon

\* Nothing is there at the start.
LEMMA CidInit == ASSUME Init PROVE CidInv
<1>1. /\ colls = EmptyMap /\ nameIndex = EmptyMap /\ manifest.colls = EmptyMap /\ pc = "down"
  BY DEF Init
<1> QED
  BY <1>1, EmptyMapProperties DEF CidInv

-----------------------------------------------------------------------------
(* No record of the log has the id of a collection still to be created.    *)

\* The id c is below k, or at most that of a create in w above f and up to l.
Vouched(w, f, k, c, l) ==
  \/ c < k
  \/ \E u \in RecOf(w) :
       /\ w[u[1]][u[2]].op = "create" /\ f < w[u[1]][u[2]].lsn /\ w[u[1]][u[2]].lsn <= l
       /\ c <= w[u[1]][u[2]].cid

\* Recovery counts beyond c by the time it has replayed the record l.
Known(c, l) == Vouched(wal, manifest.floor, manifest.cid, c, l)

Creating == pc \in {"sync", "apply"} /\ job.batch[1].op = "create"

IdInv ==
  /\ \A t \in Rec : Known(At(t).cid, At(t).lsn)
  /\ pc # "down" => \A c \in 0 .. ctr.cid - 1 : Known(c, ctr.lsn - 1)
  /\ pc = "apply" /\ Creating => Known(ctr.cid, ctr.lsn - 1)
  /\ pc \notin {"down", "replay"} =>
       \A t \in Rec : At(t).cid < ctr.cid \/ (Creating /\ At(t).cid = ctr.cid)
  /\ pc = "replay" => \A t \in Rec \ job.rest : At(t).op = "create" => At(t).cid < ctr.cid

\* The log v has the records of w above f.
Kept(w, v, f) ==
  \A u \in RecOf(w) : /\ w[u[1]][u[2]].lsn \in Nat
                      /\ f < w[u[1]][u[2]].lsn => u \in RecOf(v) /\ v[u[1]][u[2]] = w[u[1]][u[2]]

\* What a log vouches for, a log that kept its records vouches for.
LEMMA VouchedKept ==
  ASSUME NEW w, NEW v, NEW f, NEW k, Kept(w, v, f),
         NEW c, NEW l \in Int, NEW m \in Int, l <= m, Vouched(w, f, k, c, l)
  PROVE  Vouched(v, f, k, c, m)
<1>1. CASE c < k
  BY <1>1, Zenon DEF Vouched
<1>2. CASE ~(c < k)
  <2>1. PICK u \in RecOf(w) :
          /\ w[u[1]][u[2]].op = "create" /\ f < w[u[1]][u[2]].lsn /\ w[u[1]][u[2]].lsn <= l
          /\ c <= w[u[1]][u[2]].cid
    BY <1>2, Zenon DEF Vouched
  <2>2. w[u[1]][u[2]].lsn \in Nat /\ u \in RecOf(v) /\ v[u[1]][u[2]] = w[u[1]][u[2]]
    BY <2>1, Zenon DEF Kept
  <2>3. \A x \in Nat : x <= l => x <= m
    OBVIOUS
  <2>4. w[u[1]][u[2]].lsn <= m
    BY <2>1, <2>2, <2>3, Zenon
  <2> QED
    BY <2>1, <2>2, <2>4, Zenon DEF Vouched
<1> QED
  BY <1>1, <1>2, Zenon

\* What was known stays so while no record above the floor goes.
KeptStep == Kept(wal, wal', manifest.floor) /\ manifest'.floor = manifest.floor /\ manifest'.cid = manifest.cid

\* And so in the state after the step.
LEMMA KnownStep ==
  ASSUME KeptStep, NEW c, NEW l \in Int, NEW m \in Int, l <= m, Known(c, l)
  PROVE  Vouched(wal', manifest'.floor, manifest'.cid, c, m)
<1>1. Kept(wal, wal', manifest.floor) /\ manifest'.floor = manifest.floor /\ manifest'.cid = manifest.cid
  BY Zenon DEF KeptStep
<1>2. Vouched(wal', manifest.floor, manifest.cid, c, m)
  BY <1>1, VouchedKept, Zenon DEF Known
<1> QED
  BY <1>1, <1>2, Zenon

\* A log that does not change keeps its records.
LEMMA SameKept == ASSUME StoreInv, wal' = wal PROVE Kept(wal, wal', manifest.floor)
<1>1. \A u \in Rec : At(u).lsn \in Nat
  BY LogTypes, Zenon
<1> QED
  BY <1>1, Zenon DEF Kept, Rec, At

\* Of the log, a quiet step removes at most records that no recovery will replay.
LEMMA QuietLog ==
  ASSUME StoreInv, StoreInv', FileInv, LogInv, [Next]_vars, Quiet, ~AppendFails
  PROVE  /\ KeptStep /\ \A t \in Rec' : t \in Rec /\ At(t)' = At(t)
<1>1. manifest'.floor = manifest.floor /\ manifest'.cid = manifest.cid /\ (pc = "down" <=> pc' = "down")
  BY Zenon DEF Quiet, CatSame
<1>2. \A u \in RecOf(wal) : wal[u[1]][u[2]].lsn \in Nat
  <2>1. \A u \in Rec : At(u).lsn \in Nat
    BY LogTypes, Zenon
  <2> QED
    BY <2>1, Zenon DEF Rec, At
<1>3. CASE wal' = wal
  BY <1>1, <1>3, SameKept, Zenon DEF KeptStep, Rec, At
<1>4. ASSUME NEW q, q \notin DOMAIN wal, wal' = Put(wal, q, << >>), synced' = Put(synced, q, 0)
      PROVE  /\ KeptStep /\ \A t \in Rec' : t \in Rec /\ At(t)' = At(t)
  <2>1. Rec' = Rec /\ \A t \in Rec : At(t)' = At(t)
    BY <1>4, NewFileLog, Zenon
  <2> QED
    BY <1>1, <1>2, <2>1, Zenon DEF KeptStep, Kept, Rec, At
<1>5. CASE TrimWal /\ pc' = "trim"
  <2> DEFINE q == Least(job.trim)
  <2>1. pc = "trim" /\ job.trim # {} /\ wal' = Without(wal, {q})
    BY <1>5 DEF TrimWal, mem
  <2>2. q \in job.trim
    BY <2>1, LogTypes, LeastProperties
  <2> HIDE DEF q
  <2>3. \A t : /\ t \in RecOf(wal') <=> t \in RecOf(wal) /\ t[1] # q
               /\ t \in RecOf(wal') => wal'[t[1]][t[2]] = wal[t[1]][t[2]]
    <3>1. /\ \A r : r \in DOMAIN wal' <=> r \in DOMAIN wal /\ r # q
          /\ \A r \in DOMAIN wal' : wal'[r] = wal[r]
      BY <2>1 DEF Without
    <3>2. FileRemoved(wal, wal', q)
      BY <3>1, Zenon DEF FileRemoved
    <3> QED
      BY <3>2, RecWithout, Zenon
  <2>4. ASSUME NEW u \in RecOf(wal), manifest.floor < wal[u[1]][u[2]].lsn PROVE u[1] # q
    <3>1. ctr.floor <= manifest.floor /\ (u[1] \in job.trim => wal[u[1]][u[2]].lsn <= ctr.floor)
      BY <2>1 DEF LogInv, Rec, At
    <3>2. ctr.floor \in Nat /\ manifest.floor \in Nat
      BY LogTypes, Zenon
    <3>3. wal[u[1]][u[2]].lsn \in Nat
      BY <1>2, Zenon
    <3>4. ~(wal[u[1]][u[2]].lsn <= ctr.floor)
      BY <2>4, <3>1, <3>2, <3>3
    <3>5. u[1] \notin job.trim
      BY <3>1, <3>4, Zenon
    <3> QED
      BY <2>2, <3>5, Zenon
  <2> QED
    BY <1>1, <1>2, <2>3, <2>4, Zenon DEF KeptStep, Kept, Rec, At
<1>6. CASE Stay \/ Work \/ SwapCheckpoint \/ ReplayFrame \/ ReplayDone \/ GcDone
  BY <1>3, <1>6, Zenon DEF Stay, Work, LogSame, SwapCheckpoint, Swapped, ReplayFrame, ReplayDone, GcDone, disk
<1>7. CASE RotateWal /\ pc' # "idle"
  BY <1>4, <1>7, Zenon DEF RotateWal
<1>8. CASE RotateFails
  BY <1>4, <1>8, Zenon DEF RotateFails
<1>9. CASE StartWal
  <2>1. PICK new \in Nat :
          /\ wal' = Put(wal, new, << >>) /\ synced' = Put(synced, new, 0)
          /\ \A q \in DOMAIN wal : q < new
    BY <1>9, StartWalFile, Zenon
  <2>2. new \notin DOMAIN wal
    BY <2>1
  <2> QED
    BY <1>4, <2>1, <2>2, Zenon
<1>10. ~Kill /\ ~PowerLoss /\ ~Open
  BY <1>1 DEF Kill, PowerLoss, Crash, Open
<1>11. ~Mutate /\ ~SyncWal
  <2>1. ~(pc = "idle" /\ pc' = "sync") /\ ~(pc = "sync" /\ pc' = "apply")
    BY DEF Quiet
  <2> QED
    BY <2>1, MutateAppends, Zenon DEF Appending, SyncWal
<1> QED
  BY <1>5, <1>6, <1>7, <1>8, <1>9, <1>10, <1>11, LogCases, Zenon

\* The numbers the proofs below use.
LEMMA IdTypes ==
  ASSUME StoreInv
  PROVE  /\ ctr.cid \in Nat /\ ctr.lsn \in Nat /\ ctr.lsn - 1 \in Int
         /\ manifest.cid \in Nat /\ manifest.floor \in Nat
         /\ \A t \in Rec : At(t) \in Frame /\ At(t).lsn \in Nat /\ At(t).lsn \in Int /\ At(t).cid \in Nat
<1>1. /\ ctr.cid \in Nat /\ ctr.lsn \in Nat /\ manifest.cid \in Nat /\ manifest.floor \in Nat
      /\ \A t \in Rec : At(t) \in Frame /\ At(t).lsn \in Nat /\ At(t).cid \in Nat
  BY LogTypes, Zenon
<1>2. \A x \in Nat : x \in Int /\ x - 1 \in Int /\ x <= x
  OBVIOUS
<1> QED
  BY <1>1, <1>2, Zenon

\* The order of the numbers that LSNs are compared with.
LEMMA NatLe == \A x \in Nat : x \in Int /\ x - 1 \in Int /\ x <= x /\ x - 1 <= x - 1
  OBVIOUS

\* A step that leaves the catalogue alone keeps the invariant.
LEMMA IdQuiet ==
  ASSUME StoreInv, StoreInv', FileInv, LogInv, CidInv, IdInv, [Next]_vars, Quiet, ~AppendFails
  PROVE  IdInv'
<1>1. /\ KeptStep /\ \A t \in Rec' : t \in Rec /\ At(t)' = At(t)
  BY QuietLog, Zenon
<1>2. /\ ctr'.cid = ctr.cid /\ ctr'.lsn = ctr.lsn /\ (pc = "down" <=> pc' = "down")
      /\ \/ pc' = pc /\ job'.batch = job.batch /\ job'.rest = job.rest
         \/ /\ pc \notin {"sync", "apply"} /\ pc' \notin {"sync", "apply", "replay"}
            /\ pc = "replay" => job.rest = {}
  BY Zenon DEF Quiet, CatSame
<1>3. /\ ctr.lsn - 1 \in Int /\ ctr.lsn - 1 <= ctr.lsn - 1
      /\ \A t \in Rec : At(t).lsn \in Int /\ At(t).lsn <= At(t).lsn
  BY IdTypes, NatLe, Zenon
<1>4. \A t \in Rec' : Vouched(wal', manifest'.floor, manifest'.cid, At(t)'.cid, At(t)'.lsn)
  <2> SUFFICES ASSUME NEW t \in Rec'
               PROVE  Vouched(wal', manifest'.floor, manifest'.cid, At(t)'.cid, At(t)'.lsn)
    BY Zenon
  <2>1. t \in Rec /\ At(t)' = At(t) /\ Known(At(t).cid, At(t).lsn)
    BY <1>1, Zenon DEF IdInv
  <2>2. Vouched(wal', manifest'.floor, manifest'.cid, At(t).cid, At(t).lsn)
    BY <1>1, <1>3, <2>1, KnownStep, Zenon
  <2> QED
    BY <2>1, <2>2, Zenon
<1>5. pc' # "down" => \A c \in 0 .. ctr'.cid - 1 : Vouched(wal', manifest'.floor, manifest'.cid, c, ctr'.lsn - 1)
  BY <1>1, <1>2, <1>3, KnownStep, Zenon DEF IdInv
<1>6. CASE pc' = pc /\ job'.batch = job.batch /\ job'.rest = job.rest
  <2>1. Creating' <=> Creating
    BY <1>6, Zenon DEF Creating
  <2>2. pc' = "apply" /\ Creating' => Vouched(wal', manifest'.floor, manifest'.cid, ctr'.cid, ctr'.lsn - 1)
    BY <1>1, <1>2, <1>3, <1>6, <2>1, KnownStep, Zenon DEF IdInv
  <2>3. pc' \notin {"down", "replay"} =>
          \A t \in Rec' : At(t)'.cid < ctr'.cid \/ (Creating' /\ At(t)'.cid = ctr'.cid)
    BY <1>1, <1>2, <1>6, <2>1, Zenon DEF IdInv
  <2>4. pc' = "replay" => \A t \in Rec' \ job'.rest : At(t)'.op = "create" => At(t)'.cid < ctr'.cid
    BY <1>1, <1>2, <1>6, Zenon DEF IdInv
  <2> QED
    BY <1>4, <1>5, <2>2, <2>3, <2>4, Zenon DEF IdInv, Known
<1>7. CASE /\ pc \notin {"sync", "apply"} /\ pc' \notin {"sync", "apply", "replay"}
           /\ pc = "replay" => job.rest = {}
  <2>1. ASSUME pc' # "down", NEW t \in Rec PROVE At(t).cid < ctr.cid
    <3>1. CASE pc # "replay"
      BY <1>2, <1>7, <2>1, <3>1, Zenon DEF IdInv, Creating
    <3>2. CASE pc = "replay"
      <4>1. At(t).cid \in Nat /\ ctr.cid \in Nat /\ manifest.cid \in Nat /\ manifest.cid <= ctr.cid
        BY <1>2, <2>1, IdTypes, Zenon DEF CidInv
      <4>2. CASE At(t).cid < manifest.cid
        BY <4>1, <4>2
      <4>3. CASE ~(At(t).cid < manifest.cid)
        <5>1. PICK u \in Rec : At(u).op = "create" /\ At(t).cid <= At(u).cid
          BY <4>3, Zenon DEF IdInv, Known, Vouched, Rec, At
        <5>2. At(u).cid < ctr.cid
          BY <1>7, <3>2, <5>1, Zenon DEF IdInv
        <5>3. At(u).cid \in Nat
          BY IdTypes, Zenon
        <5> QED
          BY <4>1, <5>1, <5>2, <5>3
      <4> QED
        BY <4>2, <4>3
    <3> QED
      BY <3>1, <3>2
  <2>2. pc' \notin {"down", "replay"} =>
          \A t \in Rec' : At(t)'.cid < ctr'.cid \/ (Creating' /\ At(t)'.cid = ctr'.cid)
    BY <1>1, <1>2, <2>1, Zenon
  <2> QED
    BY <1>4, <1>5, <1>7, <2>2, Zenon DEF IdInv, Known
<1> QED
  BY <1>2, <1>6, <1>7, Zenon

\* A new manifest counts every collection.
LEMMA IdSwap ==
  ASSUME StoreInv, IdInv, Swapping
  PROVE  IdInv'
<1>1. /\ pc \notin {"down", "replay", "sync", "apply"} /\ pc' \notin {"down", "replay", "sync", "apply"}
      /\ wal' = wal /\ ctr'.cid = ctr.cid
  BY DEF Swapping
<1>2. manifest'.cid = ctr.cid
  BY DEF Swapping, CheckpointManifest, CompactManifest
<1>3. Rec' = Rec /\ \A t : At(t)' = At(t)
  BY <1>1, Zenon DEF Rec, At
<1>4. \A t \in Rec : At(t).cid < ctr.cid
  BY <1>1, Zenon DEF IdInv, Creating
<1>5. \A c \in 0 .. ctr.cid - 1 : c < ctr.cid
  BY IdTypes
<1>6. /\ \A t \in Rec' : Known(At(t).cid, At(t).lsn)'
      /\ \A c \in 0 .. ctr'.cid - 1 : Known(c, ctr.lsn - 1)'
  BY <1>1, <1>2, <1>3, <1>4, <1>5, Zenon DEF Known, Vouched
<1> QED
  BY <1>1, <1>3, <1>4, <1>6, Zenon DEF IdInv

\* A crash leaves no record without the create it came after.
LEMMA IdCrash ==
  ASSUME StoreInv, FileInv, LogInv, IdInv, Crash, \E c : Cut(c)
  PROVE  IdInv'
<1>1. manifest' = manifest /\ pc' = "down"
  BY Zenon DEF Crash
<1>2. /\ \A t \in Rec' : t \in Rec /\ At(t)' = At(t)
      /\ \A t \in Rec', u \in Rec \ Rec' : At(t).lsn < At(u).lsn
  BY CutNewest, Zenon
<1>3. ASSUME NEW t \in Rec' PROVE Vouched(wal', manifest'.floor, manifest'.cid, At(t)'.cid, At(t)'.lsn)
  <2>1. t \in Rec /\ At(t)' = At(t) /\ Vouched(wal, manifest.floor, manifest.cid, At(t).cid, At(t).lsn)
    BY <1>2, Zenon DEF IdInv, Known
  <2>2. CASE At(t).cid < manifest.cid
    BY <1>1, <2>1, <2>2, Zenon DEF Vouched
  <2>3. CASE ~(At(t).cid < manifest.cid)
    <3>1. PICK u \in Rec : /\ At(u).op = "create" /\ manifest.floor < At(u).lsn /\ At(u).lsn <= At(t).lsn
                           /\ At(t).cid <= At(u).cid
      BY <2>1, <2>3, Zenon DEF Vouched, Rec, At
    <3>2. At(t).lsn \in Nat /\ At(u).lsn \in Nat
      BY <2>1, IdTypes, Zenon
    <3>3. ~(At(t).lsn < At(u).lsn)
      BY <3>1, <3>2
    <3>4. u \in Rec' /\ At(u)' = At(u)
      BY <1>2, <3>3, Zenon
    <3> QED
      BY <1>1, <2>1, <3>1, <3>4, Zenon DEF Vouched, Rec, At
  <2> QED
    BY <2>2, <2>3, Zenon
<1> QED
  BY <1>1, <1>3, Zenon DEF IdInv, Known

\* Recovery starts with the manifest's counter, which is above what the manifest vouches for.
LEMMA IdOpen ==
  ASSUME StoreInv, StoreInv', IdInv, Open
  PROVE  IdInv'
<1>1. /\ manifest' = manifest /\ wal' = wal /\ ctr'.cid = manifest.cid /\ pc' = "replay"
      /\ job' = [NoJob EXCEPT !.opening = TRUE, !.rest = WalTail, !.trim = Superseded]
  BY DEF Open, disk
<1>2. job'.rest = WalTail
  BY <1>1, NoJobType DEF IsJob
<1>3. Rec' = Rec /\ \A t : At(t)' = At(t)
  BY <1>1, Zenon DEF Rec, At
<1>4. \A t \in Rec' : Known(At(t).cid, At(t).lsn)'
  BY <1>1, <1>3, Zenon DEF Known, IdInv
<1>5. \A c \in 0 .. ctr'.cid - 1 : Known(c, ctr.lsn - 1)'
  <2>1. \A c \in 0 .. manifest.cid - 1 : c < manifest.cid
    BY IdTypes
  <2> QED
    BY <1>1, <2>1, Zenon DEF Known, Vouched
<1>6. ASSUME NEW t \in Rec, t \notin WalTail PROVE At(t).cid < manifest.cid
  <2>1. ~(manifest.floor < At(t).lsn)
    <3>1. t = <<t[1], t[2]>> /\ t[1] \in DOMAIN wal /\ t[2] \in Readable(wal[t[1]])
      BY RecMember, Zenon DEF Rec
    <3> QED
      BY <1>6, <3>1 DEF WalTail, At
  <2>2. \A x, y, z \in Nat : ~(x < y) /\ z <= y => ~(x < z)
    OBVIOUS
  <2>3. \A u \in Rec : At(u).lsn <= At(t).lsn => ~(manifest.floor < At(u).lsn)
    BY <2>1, <2>2, IdTypes, Zenon
  <2> QED
    BY <2>3, Zenon DEF IdInv, Known, Vouched, Rec, At
<1>7. \A t \in Rec' \ job'.rest : At(t)'.op = "create" => At(t)'.cid < ctr'.cid
  BY <1>1, <1>2, <1>3, <1>6, Zenon
<1> QED
  BY <1>1, <1>4, <1>5, <1>7, Zenon DEF IdInv

\* A replayed create moves the counter beyond its id.
LEMMA IdReplay ==
  ASSUME StoreInv, StoreInv', IdInv, ReplayFrame
  PROVE  IdInv'
<1> DEFINE t == First(job.rest)
           e == At(t)
<1>1. /\ pc = "replay" /\ pc' = "replay" /\ job.rest # {} /\ manifest' = manifest /\ wal' = wal
      /\ job' = [job EXCEPT !.rest = @ \ {t}]
      /\ ctr' = [ctr EXCEPT !.lsn = Greatest({@, e.lsn + 1}),
                            !.cid = IF e.op = "create" THEN Greatest({@, e.cid + 1}) ELSE @]
  BY Zenon DEF ReplayFrame, At, disk
<1>2. t \in Rec /\ manifest.floor < e.lsn
  <2>1. job.rest \in SUBSET (Nat \X Nat)
    BY TypeFacts DEF IsJob
  <2>2. t \in job.rest /\ job.rest \subseteq WalTail
    BY <1>1, <2>1, FirstProperties DEF StoreInv, JobInv
  <2> HIDE DEF t
  <2>3. t \in WalTail
    BY <2>2, Zenon
  <2> QED
    BY <2>3 DEF WalTail, Rec, RecOf, At
<1>3. job'.rest = job.rest \ {t}
  BY <1>1, TypeFacts DEF IsJob
<1>4. /\ ctr'.lsn = Greatest({ctr.lsn, e.lsn + 1})
      /\ ctr'.cid = IF e.op = "create" THEN Greatest({ctr.cid, e.cid + 1}) ELSE ctr.cid
  BY <1>1, TypeFacts DEF CtrType
<1> HIDE DEF t
<1>5. /\ ctr.cid \in Nat /\ ctr.lsn \in Nat /\ manifest.floor \in Nat /\ e.lsn \in Nat /\ e.cid \in Nat
      /\ e.lsn + 1 \in Nat /\ e.cid + 1 \in Nat
  <2>1. \A x \in Nat : x + 1 \in Nat
    OBVIOUS
  <2> QED
    BY <1>2, <2>1, IdTypes, Zenon
<1> HIDE DEF e
<1>6. /\ ctr.lsn <= ctr'.lsn /\ e.lsn + 1 <= ctr'.lsn /\ ctr'.lsn \in Nat
  <2>1. ctr'.lsn \in Nat
    BY DEF StoreInv, TypeOK
  <2>2. /\ ctr.lsn <= Greatest({ctr.lsn, e.lsn + 1}) /\ e.lsn + 1 <= Greatest({ctr.lsn, e.lsn + 1})
    BY <1>5, GreaterOfTwo, Zenon
  <2> QED
    BY <1>4, <2>1, <2>2
<1>7. /\ ctr.cid <= ctr'.cid /\ (e.op = "create" => ctr'.cid \in {ctr.cid, e.cid + 1} /\ e.cid + 1 <= ctr'.cid)
      /\ e.op # "create" => ctr'.cid = ctr.cid
  <2>1. CASE e.op = "create"
    <3>1. ctr'.cid = Greatest({ctr.cid, e.cid + 1})
      BY <1>4, <2>1
    <3>2. /\ Greatest({ctr.cid, e.cid + 1}) \in {ctr.cid, e.cid + 1}
          /\ ctr.cid <= Greatest({ctr.cid, e.cid + 1}) /\ e.cid + 1 <= Greatest({ctr.cid, e.cid + 1})
      BY <1>5, GreaterOfTwo, Zenon
    <3> QED
      BY <2>1, <3>1, <3>2, Zenon
  <2>2. CASE e.op # "create"
    BY <1>4, <1>5, <2>2
  <2> QED
    BY <2>1, <2>2, Zenon
<1>8. Rec' = Rec /\ \A u : At(u)' = At(u)
  BY <1>1, Zenon DEF Rec, At
<1>9. \A u \in Rec' : Known(At(u).cid, At(u).lsn)'
  BY <1>1, <1>8, Zenon DEF Known, IdInv
<1>10. ASSUME NEW c \in 0 .. ctr'.cid - 1 PROVE Vouched(wal', manifest'.floor, manifest'.cid, c, ctr'.lsn - 1)
  <2>1. CASE c \in 0 .. ctr.cid - 1
    <3>1. Known(c, ctr.lsn - 1)
      BY <1>1, <2>1 DEF IdInv
    <3>2. ctr.lsn - 1 \in Int /\ ctr'.lsn - 1 \in Int /\ ctr.lsn - 1 <= ctr'.lsn - 1
      BY <1>5, <1>6
    <3>3. KeptStep
      BY <1>1, SameKept, Zenon DEF KeptStep
    <3> QED
      BY <3>1, <3>2, <3>3, KnownStep, Zenon
  <2>2. CASE c \notin 0 .. ctr.cid - 1
    <3>1. e.op = "create" /\ c <= e.cid
      BY <1>5, <1>7, <2>2
    <3>2. e.lsn <= ctr'.lsn - 1
      BY <1>5, <1>6
    <3> QED
      BY <1>1, <1>2, <3>1, <3>2, Zenon DEF Vouched, Rec, At, e
  <2> QED
    BY <2>1, <2>2, Zenon
<1>11. ASSUME NEW u \in Rec, u \notin job'.rest, At(u).op = "create" PROVE At(u).cid < ctr'.cid
  <2>1. CASE u = t
    <3>0. ctr'.cid \in Nat /\ e.op = "create"
      BY <1>11, <2>1 DEF StoreInv, TypeOK, e
    <3>1. e.cid < ctr'.cid
      BY <1>5, <1>7, <3>0
    <3> QED
      BY <2>1, <3>1, Zenon DEF e
  <2>2. CASE u # t
    <3>1. At(u).cid < ctr.cid /\ At(u).cid \in Nat
      BY <1>1, <1>3, <1>11, <2>2, IdTypes, Zenon DEF IdInv
    <3>2. ctr'.cid \in Nat
      BY DEF StoreInv, TypeOK
    <3> QED
      BY <1>5, <1>7, <3>1, <3>2
  <2> QED
    BY <2>1, <2>2, Zenon
<1> QED
  BY <1>1, <1>8, <1>9, <1>10, <1>11, Zenon DEF IdInv, Known

\* An applied create moves the counter beyond its id.
LEMMA IdApply ==
  ASSUME StoreInv, StoreInv', CidInv, IdInv, ApplyFrame
  PROVE  IdInv'
<1> DEFINE e == job.batch[1]
<1>1. /\ pc = "apply" /\ job.batch # << >> /\ manifest' = manifest /\ wal' = wal
      /\ job' = [job EXCEPT !.batch = SubSeq(@, 2, Len(@))]
      /\ ctr' = IF e.op = "create" THEN [ctr EXCEPT !.cid = @ + 1] ELSE ctr
  <2>1. /\ pc = "apply" /\ manifest' = manifest /\ wal' = wal
        /\ job' = [job EXCEPT !.batch = SubSeq(@, 2, Len(@))]
        /\ ctr' = IF Head(job.batch).op = "create" THEN [ctr EXCEPT !.cid = @ + 1] ELSE ctr
    BY Zenon DEF ApplyFrame, disk
  <2>2. job.batch # << >>
    BY <2>1 DEF StoreInv, JobInv
  <2>3. job.batch \in Seq(Frame)
    BY LogTypes, Zenon
  <2>4. Head(job.batch) = e
    BY <2>2, <2>3
  <2> QED
    BY <2>1, <2>2, <2>4, Zenon
<1>2. pc' \notin {"sync", "apply", "down", "replay"} \/ (pc' = "apply" /\ Len(job.batch) > 1)
  BY DEF ApplyFrame
<1>3. job.batch \in Seq(Frame) /\ Len(job.batch) \in Nat /\ ctr.cid \in Nat
  BY LogTypes, Zenon
<1>4. /\ ctr'.lsn = ctr.lsn
      /\ IF e.op = "create" THEN ctr'.cid = ctr.cid + 1 ELSE ctr'.cid = ctr.cid
  BY <1>1, TypeFacts DEF CtrType
<1>5. ~Creating'
  <2>1. CASE pc' = "apply" /\ Len(job.batch) > 1
    <3>1. job'.batch = SubSeq(job.batch, 2, Len(job.batch))
      BY <1>1, TypeFacts DEF IsJob
    <3>2. job'.batch[1] = job.batch[2] /\ 2 \in 1..Len(job.batch) /\ Len(job.batch) # 1
      BY <1>3, <2>1, <3>1
    <3>3. job.batch[2].op # "create"
      BY <1>1, <3>2 DEF CidInv
    <3> QED
      BY <3>2, <3>3, Zenon DEF Creating
  <2> QED
    BY <1>2, <2>1 DEF Creating
<1>6. Creating <=> e.op = "create"
  BY <1>1, Zenon DEF Creating
<1> HIDE DEF e
<1>7. Rec' = Rec /\ \A u : At(u)' = At(u)
  BY <1>1, Zenon DEF Rec, At
<1>8. \A u \in Rec' : Known(At(u).cid, At(u).lsn)'
  BY <1>1, <1>7, Zenon DEF Known, IdInv
<1>9. ASSUME NEW c \in 0 .. ctr'.cid - 1 PROVE Known(c, ctr.lsn - 1)
  <2>1. CASE c \in 0 .. ctr.cid - 1
    BY <1>1, <2>1 DEF IdInv
  <2>2. CASE c \notin 0 .. ctr.cid - 1
    <3>1. e.op = "create" /\ c = ctr.cid
      BY <1>3, <1>4, <2>2
    <3> QED
      BY <1>1, <1>6, <3>1, Zenon DEF IdInv
  <2> QED
    BY <2>1, <2>2, Zenon
<1>10. \A c \in 0 .. ctr'.cid - 1 : Known(c, ctr.lsn - 1)'
  BY <1>1, <1>4, <1>9, Zenon DEF Known
<1>11. ASSUME NEW u \in Rec PROVE At(u).cid < ctr'.cid
  <2>1. At(u).cid < ctr.cid \/ (e.op = "create" /\ At(u).cid = ctr.cid)
    BY <1>1, <1>6 DEF IdInv
  <2>2. At(u).cid \in Nat
    BY IdTypes, Zenon
  <2> QED
    BY <1>3, <1>4, <2>1, <2>2
<1> QED
  BY <1>2, <1>5, <1>7, <1>8, <1>10, <1>11 DEF IdInv

\* An append adds the id of a collection that is there, or the next one.
LEMMA IdMutate ==
  ASSUME StoreInv, StoreInv', FileInv, LogInv, CidInv, IdInv, Appending
  PROVE  IdInv'
<1> DEFINE b == job'.batch
           q == ctr.walSeq
           k == Len(wal[q])
<1>1. /\ pc = "idle" /\ pc' = "sync" /\ manifest' = manifest /\ b \in Seq(Frame)
      /\ ctr' = ctr \/ ctr' = [ctr EXCEPT !.lsn = @ + Len(b)]
      /\ \A i \in 1..Len(b) :
           /\ b[i].lsn = ctr.lsn + i - 1
           /\ IF b[i].op = "create" THEN Len(b) = 1 /\ b[i].cid = ctr.cid
              ELSE b[i].cid \in DOMAIN colls \cup Image(nameIndex)
  BY Zenon DEF Appending
<1>2. /\ Len(b) \in Nat /\ q \in DOMAIN wal /\ k \in Nat /\ ctr.lsn \in Nat /\ ctr.cid \in Nat /\ manifest.floor \in Nat
      /\ \A i \in 1..Len(b) : b[i].cid \in Nat
  <2>1. Len(b) \in Nat
    BY <1>1
  <2>2. q \in DOMAIN wal
    BY <1>1 DEF FileInv, HasLog
  <2>3. \A i \in 1..Len(b) : b[i].cid \in Nat
    <3>1. \A i \in 1..Len(b) : b[i] \in Frame
      BY <1>1
    <3>2. \A x \in Frame : x.cid \in Nat
      BY DEF Frame
    <3> QED
      BY <3>1, <3>2, Zenon
  <2> QED
    BY <2>1, <2>2, <2>3, LogTypes, Zenon
<1>3. ctr'.cid = ctr.cid /\ ctr'.lsn \in {ctr.lsn, ctr.lsn + Len(b)}
  BY <1>1, TypeFacts DEF CtrType
<1>4. Longer(wal, wal', q, b, k)
  BY AppendRecs, Zenon
<1>5. \A i \in 1..Len(b) : b[i].op # "create" => b[i].cid < ctr.cid
  <2>1. \A x \in DOMAIN colls \cup Image(nameIndex) : x < ctr.cid
    BY DEF CidInv, Image
  <2> QED
    BY <1>1, <2>1, Zenon
<1>6. manifest.floor < ctr.lsn
  BY <1>1 DEF LogInv
<1> HIDE DEF b, q, k
<1>7. KeptStep
  <2>1. \A u \in Rec : At(u).lsn \in Nat
    BY LogTypes, Zenon
  <2> QED
    BY <1>1, <1>4, <2>1, Zenon DEF KeptStep, Kept, Longer, Rec, At
<1>8. ASSUME NEW t \in Rec', t \notin Rec
      PROVE  \E i \in 1..Len(b) : At(t)' = b[i]
  <2>1. t[1] = q /\ t[2] \in k + 1 .. k + Len(b)
    BY <1>4, <1>8, Zenon DEF Longer, Rec
  <2> DEFINE i == t[2] - k
  <2>2. i \in 1..Len(b) /\ t[2] = k + i
    <3>1. \A x \in k + 1 .. k + Len(b) : x - k \in 1..Len(b) /\ x = k + (x - k)
      BY <1>2
    <3> QED
      BY <2>1, <3>1, Zenon
  <2> HIDE DEF i
  <2>3. wal'[q][k + i] = b[i]
    BY <1>4, <2>2, Zenon DEF Longer
  <2> QED
    BY <2>1, <2>2, <2>3, Zenon DEF At
<1>9. \A t \in Rec : At(t)' = At(t)
  BY <1>4, Zenon DEF Longer, Rec, At
<1>10. ASSUME NEW t \in Rec' PROVE Vouched(wal', manifest'.floor, manifest'.cid, At(t)'.cid, At(t)'.lsn)
  <2>1. CASE t \in Rec
    <3>1. Known(At(t).cid, At(t).lsn) /\ At(t)' = At(t) /\ At(t).lsn \in Int /\ At(t).lsn <= At(t).lsn
      BY <1>9, <2>1, IdTypes, NatLe, Zenon DEF IdInv
    <3>2. Vouched(wal', manifest'.floor, manifest'.cid, At(t).cid, At(t).lsn)
      BY <1>7, <3>1, KnownStep, Zenon
    <3> QED
      BY <3>1, <3>2, Zenon
  <2>2. CASE t \notin Rec
    <3>1. PICK i \in 1..Len(b) : At(t)' = b[i]
      BY <1>8, <2>2, Zenon
    <3>2. b[i].lsn = ctr.lsn + i - 1 /\ b[i].cid \in Nat
      BY <1>1, <1>2, Zenon
    <3>3. b[i].lsn \in Int /\ ctr.lsn - 1 \in Int /\ ctr.lsn - 1 <= b[i].lsn /\ manifest.floor < b[i].lsn
          /\ b[i].lsn <= b[i].lsn /\ b[i].cid <= b[i].cid
      BY <1>2, <1>6, <3>2
    <3>4. CASE b[i].op = "create"
      <4>1. wal'[t[1]][t[2]] = b[i] /\ t \in RecOf(wal')
        BY <3>1, Zenon DEF At, Rec
      <4> QED
        BY <1>1, <3>1, <3>3, <3>4, <4>1, Zenon DEF Vouched
    <3>5. CASE b[i].op # "create"
      <4>1. b[i].cid < ctr.cid
        BY <1>5, <3>5, Zenon
      <4>2. b[i].cid \in 0 .. ctr.cid - 1
        BY <1>2, <3>2, <4>1
      <4>3. Known(b[i].cid, ctr.lsn - 1)
        BY <1>1, <4>2 DEF IdInv
      <4>4. Vouched(wal', manifest'.floor, manifest'.cid, b[i].cid, b[i].lsn)
        BY <1>7, <3>3, <4>3, KnownStep, Zenon
      <4> QED
        BY <3>1, <4>4, Zenon
    <3> QED
      BY <3>4, <3>5, Zenon
  <2> QED
    BY <2>1, <2>2, Zenon
<1>11. ASSUME NEW c \in 0 .. ctr'.cid - 1 PROVE Vouched(wal', manifest'.floor, manifest'.cid, c, ctr'.lsn - 1)
  <2>1. Known(c, ctr.lsn - 1)
    BY <1>1, <1>3 DEF IdInv
  <2>2. ctr.lsn - 1 \in Int /\ ctr'.lsn - 1 \in Int /\ ctr.lsn - 1 <= ctr'.lsn - 1
    BY <1>2, <1>3
  <2> QED
    BY <1>7, <2>1, <2>2, KnownStep, Zenon
<1>12. ASSUME NEW t \in Rec' PROVE At(t)'.cid < ctr'.cid \/ (Creating' /\ At(t)'.cid = ctr'.cid)
  <2>1. CASE t \in Rec
    <3>1. At(t).cid < ctr.cid
      BY <1>1, <2>1 DEF IdInv, Creating
    <3> QED
      BY <1>3, <1>9, <2>1, <3>1, Zenon
  <2>2. CASE t \notin Rec
    <3>1. PICK i \in 1..Len(b) : At(t)' = b[i]
      BY <1>8, <2>2, Zenon
    <3>2. CASE b[i].op = "create"
      <4>1. Len(b) = 1 /\ b[i].cid = ctr.cid
        BY <1>1, <3>2, Zenon
      <4>2. i = 1
        BY <4>1
      <4>3. Creating'
        BY <1>1, <3>2, <4>2 DEF Creating, b
      <4> QED
        BY <1>3, <3>1, <4>1, <4>3, Zenon
    <3>3. CASE b[i].op # "create"
      BY <1>3, <1>5, <3>1, <3>3, Zenon
    <3> QED
      BY <3>2, <3>3, Zenon
  <2> QED
    BY <2>1, <2>2, Zenon
<1> QED
  BY <1>1, <1>10, <1>11, <1>12 DEF IdInv, Known

\* After the fsync the LSNs of the batch are below the next one, and so is what they vouch for.
LEMMA IdSync ==
  ASSUME StoreInv, StoreInv', FileInv, LogInv, CidInv, IdInv, SyncWal
  PROVE  IdInv'
<1> DEFINE b == job.batch
           n == Len(b)
           q == ctr.walSeq
           k == Len(wal[q])
           l == b[1].lsn
<1>1. /\ pc = "sync" /\ pc' = "apply" /\ manifest' = manifest /\ wal' = wal /\ job' = job
      /\ ctr' = [ctr EXCEPT !.lsn = b[n].lsn + 1]
  BY Zenon DEF SyncWal
<1>2. ctr'.cid = ctr.cid /\ ctr'.lsn = b[n].lsn + 1
  BY <1>1, TypeFacts DEF CtrType
<1>3. /\ 0 < n /\ n <= k
      /\ \A i \in 1..n : wal[q][k - n + i] = b[i] /\ b[i].lsn = l + i - 1
      /\ ctr.lsn \in {l, l + n} /\ manifest.floor < l
  BY <1>1 DEF LogInv, BatchInv
<1>4. q \in DOMAIN wal /\ \A p \in 1..k : wal[q][p].op # "torn"
  BY <1>1 DEF FileInv, LogInv, HasLog
<1>5. n \in Nat /\ k \in Nat /\ b \in Seq(Frame) /\ ctr.lsn \in Nat /\ ctr.cid \in Nat
  BY <1>4, LogTypes, Zenon
<1>6. l \in Nat
  <2>1. b[1] \in Frame
    BY <1>3, <1>5
  <2> QED
    BY <2>1 DEF Frame
<1>7. Creating' <=> b[1].op = "create"
  BY <1>1 DEF Creating
<1>8. Creating <=> b[1].op = "create"
  BY <1>1 DEF Creating
<1>9. b[1].op = "create" => b[1].cid = ctr.cid
  <2>1. 1 \in 1..n
    BY <1>3, <1>5
  <2> QED
    BY <1>1, <2>1 DEF CidInv
<1> HIDE DEF b, q, k, n, l
<1>10. b[n].lsn = l + n - 1
  <2>1. n \in 1..n
    BY <1>3, <1>5
  <2> QED
    BY <1>3, <2>1, Zenon
<1>11. ctr'.lsn - 1 = l + n - 1 /\ ctr'.lsn - 1 \in Int /\ ctr.lsn - 1 \in Int /\ ctr.lsn - 1 <= ctr'.lsn - 1
  BY <1>2, <1>3, <1>5, <1>6, <1>10
<1>12. KeptStep
  BY <1>1, SameKept, Zenon DEF KeptStep
<1>13. Rec' = Rec /\ \A u : At(u)' = At(u)
  BY <1>1, Zenon DEF Rec, At
<1>14. \A u \in Rec' : Known(At(u).cid, At(u).lsn)'
  BY <1>1, <1>13, Zenon DEF Known, IdInv
<1>15. ASSUME NEW c \in 0 .. ctr'.cid - 1 PROVE Vouched(wal', manifest'.floor, manifest'.cid, c, ctr'.lsn - 1)
  <2>1. Known(c, ctr.lsn - 1)
    BY <1>1, <1>2 DEF IdInv
  <2> QED
    BY <1>11, <1>12, <2>1, KnownStep, Zenon
<1>16. ASSUME b[1].op = "create" PROVE Vouched(wal', manifest'.floor, manifest'.cid, ctr'.cid, ctr'.lsn - 1)
  <2> DEFINE p == k - n + 1
             u == <<q, p>>
  <2>1. p \in 1..k /\ 1 \in 1..n /\ l + 1 - 1 = l
    BY <1>3, <1>5, <1>6
  <2>2. wal[q][p] = b[1] /\ b[1].lsn = l
    BY <1>3, <2>1
  <2> HIDE DEF p
  <2>3. p \in Readable(wal[q])
    <3>1. wal[q] \in Seq(Frame \cup {TornFrame})
      BY <1>4, LogTypes, Zenon
    <3> QED
      BY <1>4, <2>1, <3>1 DEF Readable, k
  <2>4. u[1] = q /\ u[2] = p /\ u = <<u[1], u[2]>>
    OBVIOUS
  <2> HIDE DEF u
  <2>5. u \in RecOf(wal)
    BY <1>4, <2>3, <2>4, RecMember, Zenon
  <2>6. l <= ctr'.lsn - 1 /\ ctr'.cid <= b[1].cid
    BY <1>2, <1>3, <1>5, <1>6, <1>9, <1>11, <1>16
  <2>7. \E v \in RecOf(wal) : /\ wal[v[1]][v[2]].op = "create" /\ manifest.floor < wal[v[1]][v[2]].lsn
                              /\ wal[v[1]][v[2]].lsn <= ctr'.lsn - 1 /\ ctr'.cid <= wal[v[1]][v[2]].cid
    BY <1>3, <1>16, <2>2, <2>4, <2>5, <2>6, Zenon
  <2> QED
    BY <1>1, <2>7, Zenon DEF Vouched
<1>17. \A u \in Rec' : At(u)'.cid < ctr'.cid \/ (Creating' /\ At(u)'.cid = ctr'.cid)
  BY <1>1, <1>2, <1>7, <1>8, <1>13 DEF IdInv
<1> QED
  BY <1>1, <1>7, <1>14, <1>15, <1>16, <1>17 DEF IdInv, Known

\* Every step keeps it, under the conditions under which the log has no gaps.
LEMMA IdStep ==
  ASSUME StoreInv, StoreInv', FileInv, LogInv, CidInv, IdInv, [Next]_vars, "append" \notin Errors, OneKind'
  PROVE  IdInv'
<1>1. ~AppendFails
  BY Zenon DEF AppendFails, Fails
<1>2. CASE Quiet
  BY <1>1, <1>2, IdQuiet, Zenon
<1>3. CASE Mutate
  BY <1>3, MutateAppends, IdMutate, Zenon
<1>4. CASE SyncWal
  BY <1>4, IdSync, Zenon
<1>5. CASE ApplyFrame
  BY <1>5, IdApply, Zenon
<1>6. CASE Swapping
  BY <1>6, IdSwap, Zenon
<1>7. CASE Open
  BY <1>7, IdOpen, Zenon
<1>8. CASE ReplayFrame
  BY <1>8, IdReplay, Zenon
<1>9. CASE Kill \/ PowerLoss
  <2>1. Crash
    BY <1>9, Zenon DEF Kill, PowerLoss
  <2> QED
    BY <1>9, <2>1, KillCuts, PowerCuts, IdCrash, Zenon
<1> QED
  BY <1>1, <1>2, <1>3, <1>4, <1>5, <1>6, <1>7, <1>8, <1>9, CatCases, Zenon

\* There is no record at the start.
LEMMA IdInit == ASSUME Init PROVE IdInv
<1>1. wal = EmptyMap /\ pc = "down"
  BY DEF Init
<1>2. Rec = {}
  BY <1>1, EmptyMapProperties DEF Rec, RecOf
<1> QED
  BY <1>1, <1>2 DEF IdInv

=============================================================================

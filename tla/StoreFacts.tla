----------------------------- MODULE StoreFacts -----------------------------
(***************************************************************************)
(* The inductive invariant of QuiverStore behind its type invariant and    *)
(* behind the files of the manifest, and the lemmas about the operators of *)
(* the module that the proofs of more than one property rest on.           *)
(***************************************************************************)
EXTENDS QuiverStore, Integers, WellFoundedInduction, TLAPS

-----------------------------------------------------------------------------
(* The inductive invariant.                                                *)

Bounded(S) == \E b \in S \cup {0} : \A q \in S : q <= b

\* The running operation's locals make sense at the step it has reached.
JobInv ==
  /\ pc \in {"sync", "apply"} => job.batch # << >>
  /\ pc = "replay" => job.rest \subseteq WalTail
  /\ pc = "seal" =>
       /\ job.todo \subseteq DOMAIN colls
       /\ \A d \in job.dels : d[1] \in DOMAIN colls /\ d[2] \in DOMAIN colls[d[1]].dead
  /\ job.cq \subseteq DOMAIN colls
  /\ pc \notin {"rotate", "trim", "gc", "compact", "merged"} => job.cq = {}
  /\ pc \in {"compact", "merged"} => job.cq # {}
  /\ job.opening => job.cq = {}
  /\ pc \notin {"seal", "merged"} => DOMAIN job.new = {}
  /\ pc # "seal" => job.snaps = {}
  /\ pc = "merged" => DOMAIN job.new = {Least(job.cq)}
  /\ pc # "down" => ctr.lsn > 0
  /\ Bounded(DOMAIN wal)

\* What a catalogue entry, on disk or in memory, names is on disk.
OnDisk(c, e) ==
  /\ \A s \in Image(e.segs) : <<c, s>> \in DOMAIN segs
  /\ \A r \in e.snap : <<c, r.id>> \in DOMAIN idx

\* What memory names, the manifest names: needed wherever files are collected.
Covered(c, e) ==
  \/ e.segs = << >> /\ e.snap = {}
  \/ /\ c \in DOMAIN manifest.colls
     /\ e.segs = manifest.colls[c].segs /\ e.snap = manifest.colls[c].snap

FilesInv ==
  /\ \A c \in DOMAIN manifest.colls : OnDisk(c, manifest.colls[c])
  /\ \A c \in DOMAIN colls : OnDisk(c, colls[c])
  /\ pc \in {"replay", "rotate", "trim", "gc", "newwal"} => \A c \in DOMAIN colls : Covered(c, colls[c])
  /\ \A c \in DOMAIN job.new : <<c, job.new[c]>> \in DOMAIN segs
  /\ \A c \in job.snaps : <<c, ctr.version + 1>> \in DOMAIN idx

StoreInv == TypeOK /\ JobInv /\ FilesInv

-----------------------------------------------------------------------------
(* Minima and maxima.                                                      *)

\* A non-empty set of naturals has a least element, the one Least chooses.
LEMMA LeastProperties ==
  ASSUME NEW S \in SUBSET Nat, S # {}
  PROVE  Least(S) \in S /\ \A y \in S : Least(S) <= y
<1>1. PICK x \in S : \A y \in S : ~ (<<y, x>> \in OpToRel(<, Nat))
  BY NatLessThanWellFounded, WFMin, Zenon
<1>2. \A a, b \in Nat : a < b => <<a, b>> \in OpToRel(<, Nat)
  BY Zenon DEF OpToRel
<1>3. \A y \in S : ~ (y < x)
  BY <1>1, <1>2, Zenon
<1>4. \A y \in S : x <= y
  BY <1>3
<1> QED
  BY <1>4, Zenon DEF Least

\* A non-empty bounded set of naturals has a greatest element.
LEMMA GreatestProperties ==
  ASSUME NEW S \in SUBSET Nat, S # {}, NEW b \in Nat, \A y \in S : y <= b
  PROVE  Greatest(S) \in S /\ \A y \in S : y <= Greatest(S)
<1> DEFINE B == {n \in Nat : \A y \in S : y <= n}
<1>1. B \in SUBSET Nat /\ B # {}
  OBVIOUS
<1>2. PICK m \in B : \A n \in B : m <= n
  BY <1>1, LeastProperties, Zenon
<1>3. m \in S
  <2> SUFFICES ASSUME m \notin S PROVE FALSE
    OBVIOUS
  <2>1. \A y \in S : y < m
    OBVIOUS
  <2>2. PICK z \in S : z < m
    BY <2>1, Zenon
  <2>3. m - 1 \in B
    BY <2>1, <2>2
  <2> QED
    BY <1>2, <2>3
<1> HIDE DEF B
<1>4. \A y \in S : y <= m
  BY DEF B
<1> QED
  BY <1>3, <1>4, Zenon DEF Greatest

\* The greater of two numbers is one of them and above both.
LEMMA GreaterOfTwo ==
  ASSUME NEW a \in Nat, NEW b \in Nat
  PROVE  /\ Greatest({a, b}) \in {a, b}
         /\ a <= Greatest({a, b}) /\ b <= Greatest({a, b})
<1>1. \A y \in {a, b} : y <= a + b
  OBVIOUS
<1> QED
  BY <1>1, GreatestProperties

\* First picks the record of the log that comes first.
LEMMA FirstProperties ==
  ASSUME NEW S \in SUBSET (Nat \X Nat), S # {}
  PROVE  /\ First(S) \in S
         /\ \A b \in S : First(S)[1] < b[1] \/ (First(S)[1] = b[1] /\ First(S)[2] <= b[2])
<1> DEFINE A == {a[1] : a \in S}
<1>1. A \in SUBSET Nat /\ A # {}
  OBVIOUS
<1>2. PICK q \in A : \A y \in A : q <= y
  BY <1>1, LeastProperties, Zenon
<1> DEFINE P == {a[2] : a \in {x \in S : x[1] = q}}
<1>3. P \in SUBSET Nat /\ P # {}
  OBVIOUS
<1>4. PICK p \in P : \A y \in P : p <= y
  BY <1>3, LeastProperties, Zenon
<1>5. PICK t \in S : t[1] = q /\ t[2] = p
  OBVIOUS
<1>6. \A b \in S : t[1] < b[1] \/ (t[1] = b[1] /\ t[2] <= b[2])
  <2> TAKE b \in S
  <2>1. q <= b[1] /\ q \in Nat /\ b[1] \in Nat
    BY <1>2, <1>1
  <2>2. b[1] = q => p <= b[2]
    BY <1>4
  <2> QED
    BY <1>5, <2>1, <2>2
<1> QED
  BY <1>6 DEF First

-----------------------------------------------------------------------------
(* Finite maps.                                                            *)

\* Put sets one key and leaves the others alone.
LEMMA PutProperties ==
  ASSUME NEW f, NEW k, NEW v
  PROVE  /\ DOMAIN Put(f, k, v) = DOMAIN f \cup {k}
         /\ Put(f, k, v)[k] = v
         /\ \A x \in DOMAIN f : x # k => Put(f, k, v)[x] = f[x]
  BY DEF Put

\* Put keeps the keys within their set.
LEMMA PutMapOn ==
  ASSUME NEW f, NEW K, MapOn(f, K), NEW k \in K, NEW v
  PROVE  MapOn(Put(f, k, v), K)
  BY DEF Put, MapOn

\* Put keeps a map typed.
LEMMA PutIsMap ==
  ASSUME NEW f, NEW K, NEW V, IsMap(f, K, V), NEW k \in K, NEW v \in V
  PROVE  IsMap(Put(f, k, v), K, V)
  BY PutMapOn DEF IsMap, Put

\* Without removes the keys and leaves the others alone.
LEMMA WithoutProperties ==
  ASSUME NEW f, NEW S
  PROVE  /\ DOMAIN Without(f, S) = DOMAIN f \ S
         /\ \A x \in DOMAIN f \ S : Without(f, S)[x] = f[x]
  BY DEF Without

\* Without keeps the keys within their set.
LEMMA WithoutMapOn ==
  ASSUME NEW f, NEW K, MapOn(f, K), NEW S
  PROVE  MapOn(Without(f, S), K)
  BY DEF Without, MapOn

\* Without keeps a map typed.
LEMMA WithoutIsMap ==
  ASSUME NEW f, NEW K, NEW V, IsMap(f, K, V), NEW S
  PROVE  IsMap(Without(f, S), K, V)
  BY WithoutMapOn DEF IsMap, Without

\* The empty map has every map type.
LEMMA EmptyMapProperties ==
  DOMAIN EmptyMap = {} /\ \A K, V : MapOn(EmptyMap, K) /\ IsMap(EmptyMap, K, V)
  BY DEF EmptyMap, MapOn, IsMap

-----------------------------------------------------------------------------
(* One collection in memory.                                               *)

\* The fields of a well-formed collection, one by one.
LEMMA CollFacts ==
  ASSUME NEW c, IsColl(c)
  PROVE  /\ c.name \in Names /\ c.segs \in Seq(Nat) /\ c.snap \in SUBSET SnapRef
         /\ DOMAIN c.dead = Image(c.segs) /\ IsMap(c.active, Ids, Vals)
         /\ \A s \in DOMAIN c.dead : s \in Nat /\ c.dead[s] \subseteq Ids
         /\ \A r \in c.win : r[1] \in DOMAIN c.dead /\ r[1] \in Nat /\ r[2] \in Ids
<1>1. c.win \in SUBSET ((DOMAIN c.dead) \X Ids)
  BY DEF IsColl
<1>2. \A s \in DOMAIN c.dead : s \in Nat /\ c.dead[s] \subseteq Ids
  BY DEF IsColl, IsMap, MapOn
<1> QED
  BY <1>1, <1>2 DEF IsColl

\* locate answers with one of the collection's own segments.
LEMMA LiveSealedProperties ==
  ASSUME NEW cid, NEW c, IsColl(c), NEW id
  PROVE  LiveSealed(cid, c, id) \subseteq Image(c.segs)
<1> DEFINE holders == {i \in DOMAIN c.segs : id \in DOMAIN segs[<<cid, c.segs[i]>>]}
<1>1. c.segs \in Seq(Nat)
  BY DEF IsColl
<1>2. holders \in SUBSET Nat /\ holders \subseteq DOMAIN c.segs
  BY <1>1
<1>3. \A i \in holders : i <= Len(c.segs)
  BY <1>1
<1>4. CASE holders = {}
  BY <1>4 DEF LiveSealed
<1>5. CASE holders # {}
  <2> HIDE DEF holders
  <2>0. Len(c.segs) \in Nat
    BY <1>1
  <2>1. Greatest(holders) \in holders
    BY <2>0, <1>2, <1>3, <1>5, GreatestProperties, Zenon
  <2> QED
    BY <1>2, <2>1, Zenon DEF LiveSealed, Image, holders
<1> QED
  BY <1>4, <1>5

\* apply_upsert keeps a collection well formed and touches neither its
\* segments nor its index snapshot.
LEMMA ApplyUpsertType ==
  ASSUME NEW cid, NEW c, IsColl(c), NEW id \in Ids, NEW v \in Vals
  PROVE  LET d == ApplyUpsert(cid, c, id, v)
         IN  IsColl(d) /\ d.segs = c.segs /\ d.snap = c.snap
<1>0. LiveSealed(cid, c, id) \subseteq DOMAIN c.dead
  BY LiveSealedProperties, Zenon DEF IsColl
<1>1. {<<s, id>> : s \in LiveSealed(cid, c, id)} \subseteq ((DOMAIN c.dead) \X Ids)
  BY <1>0
<1>2. IsMap(Put(c.active, id, v), Ids, Vals)
  BY PutIsMap DEF IsColl
<1> QED
  BY <1>1, <1>2, Zenon DEF ApplyUpsert, IsColl

\* apply_delete keeps a collection well formed and touches neither its
\* segments nor its index snapshot.
LEMMA ApplyDeleteType ==
  ASSUME NEW cid, NEW c, IsColl(c), NEW id \in Ids
  PROVE  LET d == ApplyDelete(cid, c, id)
         IN  IsColl(d) /\ d.segs = c.segs /\ d.snap = c.snap
<1>0. LiveSealed(cid, c, id) \subseteq DOMAIN c.dead
  BY LiveSealedProperties, Zenon DEF IsColl
<1>1. {<<s, id>> : s \in LiveSealed(cid, c, id)} \subseteq ((DOMAIN c.dead) \X Ids)
  BY <1>0
<1>2. IsMap(Without(c.active, {id}), Ids, Vals)
  BY WithoutIsMap DEF IsColl
<1> QED
  BY <1>1, <1>2, Zenon DEF ApplyDelete, IsColl

-----------------------------------------------------------------------------
(* The types of the state, field by field.                                 *)

CollsOK(cs) == MapOn(cs, Nat) /\ \A c \in DOMAIN cs : IsColl(cs[c])

\* The ghost of what was acknowledged stays well formed.
FirmType == [Names -> [here : {"yes", "no", "maybe"}, rows : [Ids -> Vals \cup {Absent, Maybe}]]]

CtrType == [lsn : Nat, cid : Nat, seg : Nat, version : Nat, floor : Nat, walSeq : Nat]

\* The locals of no operation are well formed.
LEMMA NoJobType == IsJob(NoJob) /\ DOMAIN NoJob.new = {}
<1>1. NoJob.new = EmptyMap /\ NoJob.blobs = EmptyMap
  BY DEF NoJob
<1>2. /\ IsMap(NoJob.new, Nat, Nat) /\ IsMap(NoJob.blobs, Nat, Blobs)
      /\ DOMAIN NoJob.new = {}
  BY <1>1, EmptyMapProperties, Zenon
<1>3. << >> \in Seq(Frame)
  OBVIOUS
<1>4. NoJob \in [batch : Seq(Frame), name : SUBSET Names, rest : SUBSET (Nat \X Nat),
                 trim : SUBSET Nat, dels : SUBSET (Nat \X Nat), todo : SUBSET Nat,
                 new : {NoJob.new}, blobs : {NoJob.blobs}, snaps : SUBSET Nat,
                 cq : SUBSET Nat, shred : SUBSET Nat, opening : BOOLEAN]
  BY <1>1, <1>3 DEF NoJob
<1> QED
  BY <1>2, <1>4 DEF IsJob

\* The parts of the type invariant the steps below use most.
LEMMA TypeFacts ==
  ASSUME StoreInv
  PROVE  /\ ctr \in CtrType /\ firm \in FirmType /\ IsJob(job)
         /\ CollsOK(colls) /\ IsMap(nameIndex, Names, Nat)
         /\ pc # "down" => ctr.lsn > 0
  BY DEF StoreInv, TypeOK, JobInv, CtrType, FirmType, CollsOK

-----------------------------------------------------------------------------
(* The manifests a checkpoint and a compaction write.                      *)

\* The sealed buffer is appended to the segment list.
LEMMA NewSegsType ==
  ASSUME IsJob(job), NEW cid, NEW ss \in Seq(Nat)
  PROVE  /\ NewSegs(cid) \in Seq(Nat) /\ ss \o NewSegs(cid) \in Seq(Nat)
         /\ Image(NewSegs(cid)) = IF cid \in DOMAIN job.new THEN {job.new[cid]} ELSE {}
         /\ Image(ss \o NewSegs(cid)) = Image(ss) \cup Image(NewSegs(cid))
<1>1. cid \in DOMAIN job.new => job.new[cid] \in Nat
  BY DEF IsJob, IsMap
<1>2. CASE cid \in DOMAIN job.new
  <2>1. NewSegs(cid) = <<job.new[cid]>> /\ job.new[cid] \in Nat
    BY <1>1, <1>2 DEF NewSegs
  <2>2. ss \o NewSegs(cid) = Append(ss, job.new[cid])
    BY <2>1
  <2>3. DOMAIN Append(ss, job.new[cid]) = DOMAIN ss \cup {Len(ss) + 1}
    BY <2>1
  <2>4. /\ \A i \in DOMAIN ss : Append(ss, job.new[cid])[i] = ss[i]
        /\ Append(ss, job.new[cid])[Len(ss) + 1] = job.new[cid]
    BY <2>1
  <2>5. Image(Append(ss, job.new[cid])) = Image(ss) \cup {job.new[cid]}
    BY <2>3, <2>4 DEF Image
  <2>6. Image(<<job.new[cid]>>) = {job.new[cid]}
    BY DEF Image
  <2>7. Append(ss, job.new[cid]) \in Seq(Nat) /\ <<job.new[cid]>> \in Seq(Nat)
    BY <2>1
  <2>8. Image(NewSegs(cid)) = {job.new[cid]}
    BY <2>1, <2>6
  <2> QED
    BY <1>2, <2>1, <2>2, <2>5, <2>7, <2>8, Zenon
<1>3. CASE cid \notin DOMAIN job.new
  <2>1. NewSegs(cid) = << >> /\ ss \o NewSegs(cid) = ss
    BY <1>3 DEF NewSegs
  <2> QED
    BY <1>3, <2>1 DEF Image
<1> QED
  BY <1>2, <1>3

\* A manifest about to be swapped in is well formed and names files on disk.
ManifestOK(m) ==
  /\ m \in [version : Nat, floor : Nat, cid : Nat, seg : Nat, intact : BOOLEAN, colls : {m.colls}]
  /\ IsMap(m.colls, Nat, Entry)
  /\ \A c \in DOMAIN m.colls : OnDisk(c, m.colls[c])

\* A record with a name, segments and snapshot references is an entry.
LEMMA EntryFields ==
  ASSUME NEW n \in Names, NEW ss \in Seq(Nat), NEW sn \in SUBSET SnapRef
  PROVE  LET x == [name |-> n, segs |-> ss, snap |-> sn]
         IN  x \in Entry /\ x.segs = ss /\ x.snap = sn
  BY DEF Entry

\* The manifest of a checkpoint is well formed and names what memory names,
\* the files just sealed and the index snapshots just written.
LEMMA CheckpointManifestOK ==
  ASSUME StoreInv, pc = "seal"
  PROVE  /\ ManifestOK(CheckpointManifest)
         /\ DOMAIN CheckpointManifest.colls = DOMAIN colls
         /\ \A c \in DOMAIN colls :
              /\ CheckpointManifest.colls[c].segs = colls[c].segs \o NewSegs(c)
              /\ CheckpointManifest.colls[c].snap = NewSnap(c)
<1> DEFINE mc == [c \in DOMAIN colls |->
                    [name |-> colls[c].name, segs |-> colls[c].segs \o NewSegs(c),
                     snap |-> NewSnap(c)]]
<1>1. IsJob(job) /\ CollsOK(colls) /\ ctr \in CtrType /\ ctr.lsn > 0
  BY TypeFacts
<1>2. ASSUME NEW c \in DOMAIN colls
      PROVE  mc[c] \in Entry /\ OnDisk(c, mc[c])
  <2>1. IsColl(colls[c])
    BY <1>1 DEF CollsOK
  <2>2. colls[c].name \in Names /\ colls[c].segs \in Seq(Nat)
    BY <2>1, CollFacts
  <2>3. /\ colls[c].segs \o NewSegs(c) \in Seq(Nat)
        /\ Image(colls[c].segs \o NewSegs(c)) = Image(colls[c].segs) \cup Image(NewSegs(c))
        /\ Image(NewSegs(c)) = IF c \in DOMAIN job.new THEN {job.new[c]} ELSE {}
    BY <1>1, <2>2, NewSegsType, Zenon
  <2>4. NewSnap(c) \in SUBSET SnapRef
    BY <1>1 DEF NewSnap, SnapRef, CtrType
  <2>5. \A s \in Image(colls[c].segs \o NewSegs(c)) : <<c, s>> \in DOMAIN segs
    BY <2>3 DEF StoreInv, FilesInv, OnDisk
  <2>6. \A r \in NewSnap(c) : <<c, r.id>> \in DOMAIN idx
    BY DEF StoreInv, FilesInv, NewSnap
  <2>7. mc[c] = [name |-> colls[c].name, segs |-> colls[c].segs \o NewSegs(c), snap |-> NewSnap(c)]
    OBVIOUS
  <2> HIDE DEF mc
  <2> QED
    <3>1. /\ mc[c].segs = colls[c].segs \o NewSegs(c)
          /\ mc[c].snap = NewSnap(c)
          /\ mc[c] \in Entry
      <4> DEFINE n  == colls[c].name
                 ss == colls[c].segs \o NewSegs(c)
                 sn == NewSnap(c)
      <4>1. /\ n \in Names /\ ss \in Seq(Nat) /\ sn \in SUBSET SnapRef
            /\ mc[c] = [name |-> n, segs |-> ss, snap |-> sn]
        BY <2>2, <2>3, <2>4, <2>7, Zenon
      <4> HIDE DEF n, ss, sn
      <4>2. mc[c].segs = ss /\ mc[c].snap = sn /\ mc[c] \in Entry
        BY <4>1, EntryFields
      <4> QED
        BY <4>2 DEF ss, sn
    <3>3. OnDisk(c, mc[c])
      BY <2>5, <2>6, <3>1, Zenon DEF OnDisk
    <3> QED
      BY <3>1, <3>3, Zenon
<1>3. CheckpointManifest = [version |-> ctr.version + 1, floor |-> ctr.lsn - 1, cid |-> ctr.cid,
                            seg |-> ctr.seg, intact |-> TRUE, colls |-> mc]
  BY DEF CheckpointManifest
<1>4. DOMAIN mc = DOMAIN colls /\ MapOn(mc, Nat)
  BY <1>1 DEF CollsOK, MapOn
<1>5. \A c \in DOMAIN colls : mc[c].segs = colls[c].segs \o NewSegs(c) /\ mc[c].snap = NewSnap(c)
  OBVIOUS
<1> HIDE DEF mc
<1>6. IsMap(mc, Nat, Entry)
  BY <1>2, <1>4 DEF IsMap
<1>7. ctr.version + 1 \in Nat /\ ctr.lsn - 1 \in Nat /\ ctr.cid \in Nat /\ ctr.seg \in Nat
  BY <1>1 DEF CtrType
<1> QED
  BY <1>2, <1>3, <1>4, <1>5, <1>6, <1>7, Zenon DEF ManifestOK

\* The manifest of a compaction is well formed and names what the manifest in
\* force names, with one collection on its merged segment.
LEMMA CompactManifestOK ==
  ASSUME StoreInv, pc = "merged"
  PROVE  /\ ManifestOK(CompactManifest)
         /\ DOMAIN CompactManifest.colls = DOMAIN colls
         /\ \A c \in DOMAIN colls :
              /\ CompactManifest.colls[c].segs =
                   IF c \in DOMAIN job.new THEN NewSegs(c) ELSE colls[c].segs
              /\ CompactManifest.colls[c].snap = colls[c].snap
<1> DEFINE ss(c) == IF c \in DOMAIN job.new THEN NewSegs(c) ELSE colls[c].segs
           mc == [c \in DOMAIN colls |->
                    [name |-> colls[c].name, segs |-> ss(c), snap |-> colls[c].snap]]
<1>1. IsJob(job) /\ CollsOK(colls) /\ ctr \in CtrType /\ ctr.lsn > 0
  BY TypeFacts
<1>2. ASSUME NEW c \in DOMAIN colls
      PROVE  mc[c] \in Entry /\ OnDisk(c, mc[c])
  <2>1. IsColl(colls[c])
    BY <1>1 DEF CollsOK
  <2>2. colls[c].name \in Names /\ colls[c].segs \in Seq(Nat) /\ colls[c].snap \in SUBSET SnapRef
    BY <2>1, CollFacts
  <2>3. /\ NewSegs(c) \in Seq(Nat)
        /\ Image(NewSegs(c)) = IF c \in DOMAIN job.new THEN {job.new[c]} ELSE {}
    BY <1>1, <2>2, NewSegsType, Zenon
  <2>4. ss(c) \in Seq(Nat)
    BY <2>2, <2>3
  <2>5. \A s \in Image(ss(c)) : <<c, s>> \in DOMAIN segs
    <3>1. CASE c \in DOMAIN job.new
      BY <2>3, <3>1 DEF StoreInv, FilesInv
    <3>2. CASE c \notin DOMAIN job.new
      BY <3>2 DEF StoreInv, FilesInv, OnDisk
    <3> QED
      BY <3>1, <3>2
  <2>6. \A r \in colls[c].snap : <<c, r.id>> \in DOMAIN idx
    BY DEF StoreInv, FilesInv, OnDisk
  <2>7. mc[c] = [name |-> colls[c].name, segs |-> ss(c), snap |-> colls[c].snap]
    OBVIOUS
  <2> HIDE DEF mc, ss
  <2> QED
    BY <2>2, <2>4, <2>5, <2>6, <2>7 DEF Entry, OnDisk
<1>3. CompactManifest = [version |-> ctr.version + 1, floor |-> ctr.floor, cid |-> ctr.cid,
                         seg |-> ctr.seg, intact |-> TRUE, colls |-> mc]
  BY DEF CompactManifest
<1>4. DOMAIN mc = DOMAIN colls /\ MapOn(mc, Nat)
  BY <1>1 DEF CollsOK, MapOn
<1>5. \A c \in DOMAIN colls : mc[c].segs = ss(c) /\ mc[c].snap = colls[c].snap
  OBVIOUS
<1> HIDE DEF mc
<1>6. IsMap(mc, Nat, Entry)
  BY <1>2, <1>4 DEF IsMap
<1>7. ctr.version + 1 \in Nat /\ ctr.floor \in Nat /\ ctr.cid \in Nat /\ ctr.seg \in Nat
  BY <1>1 DEF CtrType
<1> QED
  BY <1>2, <1>3, <1>4, <1>5, <1>6, <1>7, Zenon DEF ManifestOK

-----------------------------------------------------------------------------
(* The log.                                                                *)

\* What recovery replays are whole frames of existing WAL files.
LEMMA WalTailType ==
  ASSUME StoreInv
  PROVE  /\ WalTail \in SUBSET (Nat \X Nat)
         /\ \A t \in WalTail : wal[t[1]][t[2]] \in Frame
<1>1. IsMap(wal, Nat, Seq(Frame \cup {TornFrame}))
  BY DEF StoreInv, TypeOK
<1> SUFFICES ASSUME NEW t \in WalTail
             PROVE  t \in Nat \X Nat /\ wal[t[1]][t[2]] \in Frame
  OBVIOUS
<1>2. PICK q \in DOMAIN wal : t \in {q} \X Readable(wal[q])
  BY DEF WalTail
<1>3. q \in Nat /\ wal[q] \in Seq(Frame \cup {TornFrame})
  BY <1>1 DEF IsMap, MapOn
<1>4. PICK p \in 1..Len(wal[q]) : t = <<q, p>> /\ wal[q][p].op # "torn"
  BY <1>2, <1>3 DEF Readable
<1>5. wal[q][p] \in Frame \cup {TornFrame}
  BY <1>3, <1>4
<1>6. wal[q][p] \in Frame
  BY <1>4, <1>5 DEF TornFrame
<1> QED
  BY <1>3, <1>4, <1>6

=============================================================================

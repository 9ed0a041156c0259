---------------------------- MODULE QuiverStore ----------------------------
(***************************************************************************)
(* The storage engine of quiver-core (store.rs, wal.rs, manifest.rs,       *)
(* segment.rs, keyring.rs): a write-ahead log, a manifest swapped through  *)
(* CURRENT, immutable sealed segments with `.del` tombstone bitmaps, and   *)
(* one key file per collection under an envelope key-ring.                 *)
(*                                                                         *)
(* The engine is single-writer (every mutation takes &mut self), so at     *)
(* most one operation runs at a time; it is cut into the steps between     *)
(* which a crash leaves a different disk.  `pc' names the step, `job'      *)
(* holds the running operation's locals.  Disk variables survive a crash,  *)
(* `colls', `nameIndex', `ctr', `pc' and `job' do not.                     *)
(***************************************************************************)
EXTENDS Naturals, Sequences, FiniteSets

CONSTANTS
  Names,              \* collection names
  Ids,                \* external ids of points
  Vals,               \* a point's (vector, payload), opaque
  Absent, Maybe,      \* "no such point", "not known": used by the ghost `firm'
  Blobs,              \* index snapshot blobs a checkpoint may be handed
  Envelope,           \* TRUE: EnvelopeKeyRing; FALSE: SingleCodecKeyRing
  CompactMinSegments, \* COMPACT_MIN_SEGMENTS
  MaxBatch,           \* bound: records in one upsert_batch
  MaxLsn,             \* bound: highest LSN ever assigned
  MaxKills,           \* bound: process crashes (the page cache survives)
  MaxPowerLosses,     \* bound: power losses (only what was fsync'd survives)
  MaxErrors,          \* bound: I/O errors returned to a running operation
  Errors              \* the kinds of step that may fail with an I/O error

ASSUME StoreAssumption ==
  /\ Envelope \in BOOLEAN
  /\ {CompactMinSegments, MaxBatch} \subseteq Nat \ {0}
  /\ {MaxLsn, MaxKills, MaxPowerLosses, MaxErrors} \subseteq Nat
  /\ Errors \subseteq {"append", "seal", "swap", "rotate"}
  /\ Absent \notin Vals /\ Maybe \notin Vals /\ Absent # Maybe

VARIABLES
  manifest,   \* the manifest CURRENT names
  wal,        \* WAL files: sequence number -> frames
  synced,     \* WAL files: sequence number -> frames known to be fsync'd
  segs,       \* segment files: <<collection, segment>> -> (id -> value)
  dels,       \* .del files: <<collection, segment>> -> ids of dead rows
  idx,        \* index snapshot files: <<collection, version>> -> blob
  dirs,       \* collection directories
  keys,       \* wrapped data-encryption keys, by collection
  colls,      \* Store.collections: id -> CollectionState
  nameIndex,  \* Store.name_index: name -> id
  ctr,        \* Store's counters, and the sequence number of Store.wal
  pc,         \* the step the engine is about to take
  job,        \* the locals of the running operation
  firm,       \* ghost: what acknowledged operations say of every name and point
  faults      \* ghost: kills, power losses and I/O errors so far

disk == <<manifest, wal, synced, segs, dels, idx, dirs, keys>>
mem  == <<colls, nameIndex, ctr>>
vars == <<manifest, wal, synced, segs, dels, idx, dirs, keys,
          colls, nameIndex, ctr, pc, job, firm, faults>>

-----------------------------------------------------------------------------
(* Finite maps.                                                            *)

EmptyMap == [x \in {} |-> x]
Put(f, k, v) == [x \in DOMAIN f \cup {k} |-> IF x = k THEN v ELSE f[x]]
Without(f, S) == [x \in DOMAIN f \ S |-> f[x]]
Least(S) == CHOOSE x \in S : \A y \in S : x <= y
Greatest(S) == CHOOSE x \in S : \A y \in S : y <= x
Image(f) == {f[x] : x \in DOMAIN f}

-----------------------------------------------------------------------------
(* WAL frames.  A torn frame is one whose length or CRC check fails.       *)

CreateFrame(lsn, cid, n) == [lsn |-> lsn, op |-> "create", cid |-> cid, name |-> n]
DropFrame(lsn, cid) == [lsn |-> lsn, op |-> "drop", cid |-> cid]
UpsertFrame(lsn, cid, id, v) ==
  [lsn |-> lsn, op |-> "upsert", cid |-> cid, id |-> id, val |-> v]
DeleteFrame(lsn, cid, id) == [lsn |-> lsn, op |-> "delete", cid |-> cid, id |-> id]
TornFrame == [lsn |-> 0, op |-> "torn"]

\* read_all: the positions of the frames before the first torn one.
Readable(frames) ==
  {p \in 1..Len(frames) : \A q \in 1..p : frames[q].op # "torn"}

\* The records recovery replays: past the manifest's floor, in file order.
WalTail == {t \in UNION {{q} \X Readable(wal[q]) : q \in DOMAIN wal} :
              wal[t[1]][t[2]].lsn > manifest.floor}

First(S) == CHOOSE a \in S :
              \A b \in S : a[1] < b[1] \/ (a[1] = b[1] /\ a[2] <= b[2])

-----------------------------------------------------------------------------
(* One collection in memory (CollectionState): its sealed segments in      *)
(* creation order, the rows each segment's bitmap marks dead, the active   *)
(* buffer, the rows that died this window, and the index snapshot          *)
(* reference.  A row is named by its segment and its external id.          *)

NewColl(n) == [name |-> n, segs |-> << >>, dead |-> EmptyMap,
               active |-> EmptyMap, win |-> {}, snap |-> {}]

HasPending(c) == DOMAIN c.active # {} \/ c.win # {}

SealedDead(c, s, id) == id \in c.dead[s] \/ <<s, id>> \in c.win

\* locate, sealed part: the newest segment physically holding the id decides.
LiveSealed(cid, c, id) ==
  LET holders == {i \in DOMAIN c.segs : id \in DOMAIN segs[<<cid, c.segs[i]>>]}
      newest  == c.segs[Greatest(holders)]
  IN  IF id \in DOMAIN c.active \/ holders = {} THEN {}
      ELSE {s \in {newest} : ~SealedDead(c, s, id)}

Located(cid, c, id) == id \in DOMAIN c.active \/ LiveSealed(cid, c, id) # {}

Get(cid, c, id) ==
  IF id \in DOMAIN c.active THEN c.active[id]
  ELSE IF LiveSealed(cid, c, id) = {} THEN Absent
  ELSE LET s == CHOOSE s \in LiveSealed(cid, c, id) : TRUE IN segs[<<cid, s>>][id]

\* live_locs_sorted, sealed part: every row of every segment that is not dead.
LiveRows(cid, c) ==
  {r \in Image(c.segs) \X Ids :
     r[2] \in DOMAIN segs[<<cid, r[1]>>] /\ ~SealedDead(c, r[1], r[2])}

\* live_len: counted from the bitmaps, without reading an id.
LiveLen(cid, c) ==
  LET rows == UNION {{s} \X DOMAIN segs[<<cid, s>>] : s \in Image(c.segs)}
      dead == UNION {{s} \X c.dead[s] : s \in Image(c.segs)}
  IN  Cardinality(DOMAIN c.active)
        + ((Cardinality(rows) - Cardinality(dead)) - Cardinality(c.win))

ApplyUpsertInPlace(cid, c, id, v) ==   \* mutant: the old row is not marked dead
  [c EXCEPT !.active = Put(@, id, v)]
ApplyUpsert(cid, c, id, v) ==
  [c EXCEPT !.win = @ \cup {<<s, id>> : s \in LiveSealed(cid, c, id)},
            !.active = Put(@, id, v)]

ApplyDelete(cid, c, id) ==
  IF id \in DOMAIN c.active
  THEN [c EXCEPT !.active = Without(@, {id})]
  ELSE [c EXCEPT !.win = @ \cup {<<s, id>> : s \in LiveSealed(cid, c, id)}]

\* apply_wal_entry, and the in-memory half of the write path.
AppliedColls(cs, e) ==
  CASE e.op = "create" -> Put(cs, e.cid, NewColl(e.name))
    [] e.op = "drop"   -> Without(cs, {e.cid})
    [] e.op = "upsert" ->
         [c \in DOMAIN cs |-> IF c = e.cid THEN ApplyUpsert(c, cs[c], e.id, e.val) ELSE cs[c]]
    [] e.op = "delete" ->
         [c \in DOMAIN cs |-> IF c = e.cid THEN ApplyDelete(c, cs[c], e.id) ELSE cs[c]]

AppliedNamesKept(cs, ns, e) ==   \* mutant: a replayed drop leaves the name bound
  IF e.op = "create" THEN Put(ns, e.name, e.cid) ELSE ns

AppliedNames(cs, ns, e) ==
  CASE e.op = "create" -> Put(ns, e.name, e.cid)
    [] e.op = "drop"   -> Without(ns, {cs[c].name : c \in {e.cid} \cap DOMAIN cs})
    [] OTHER -> ns

-----------------------------------------------------------------------------
(* The ghost `firm': what acknowledged operations say of a name and of its  *)
(* points.  Issuing an operation makes what it touches unknown; completing  *)
(* it makes that known again; a failure or a crash in between leaves it      *)
(* unknown, since either outcome is then allowed.                           *)

Issued(f, n, e) ==
  CASE e.op = "create" -> [f EXCEPT ![n].here = "maybe"]
    [] e.op = "drop"   ->
         [f EXCEPT ![n] =
            [here |-> "maybe",
             rows |-> [id \in Ids |-> IF @.rows[id] = Absent THEN Absent ELSE Maybe]]]
    [] OTHER -> [f EXCEPT ![n].rows[e.id] = Maybe]

Completed(f, n, e) ==
  CASE e.op = "create" -> [f EXCEPT ![n] = [here |-> "yes", rows |-> [id \in Ids |-> Absent]]]
    [] e.op = "drop"   -> [f EXCEPT ![n] = [here |-> "no", rows |-> [id \in Ids |-> Absent]]]
    [] e.op = "upsert" -> [f EXCEPT ![n].rows[e.id] = e.val]
    [] e.op = "delete" -> [f EXCEPT ![n].rows[e.id] = Absent]

-----------------------------------------------------------------------------
(* Key-ring.                                                               *)

HasKey(cid) == Envelope => cid \in keys           \* collection_codec succeeds
Provisioned(cid) == IF Envelope THEN keys \cup {cid} ELSE keys
Shredded(cid) == IF Envelope THEN keys \ {cid} ELSE keys

-----------------------------------------------------------------------------
NoJob == [batch |-> << >>, name |-> {}, rest |-> {}, trim |-> {}, dels |-> {},
          todo |-> {}, new |-> EmptyMap, blobs |-> EmptyMap, snaps |-> {}, cq |-> {},
          shred |-> {}, opening |-> FALSE]

NoCtr == [lsn |-> 0, cid |-> 0, seg |-> 0, version |-> 0, floor |-> 0, walSeq |-> 0]

Init ==
  /\ manifest = [version |-> 0, floor |-> 0, cid |-> 0, seg |-> 0,
                 colls |-> EmptyMap, intact |-> TRUE]
  /\ wal = EmptyMap /\ synced = EmptyMap
  /\ segs = EmptyMap /\ dels = EmptyMap /\ idx = EmptyMap
  /\ dirs = {} /\ keys = {}
  /\ colls = EmptyMap /\ nameIndex = EmptyMap /\ ctr = NoCtr
  /\ pc = "down" /\ job = NoJob
  /\ firm = [n \in Names |-> [here |-> "no", rows |-> [id \in Ids |-> Absent]]]
  /\ faults = [kills |-> 0, power |-> 0, errors |-> 0]

-----------------------------------------------------------------------------
(* Mutations.  Begin appends the operation's frames (WalWriter::append);    *)
(* SyncWal is the fsync; ApplyFrame publishes and applies one frame.        *)

Begin(frames, n, shred) ==
  /\ wal' = [wal EXCEPT ![ctr.walSeq] = @ \o frames]
  /\ job' = [NoJob EXCEPT !.batch = frames, !.name = {n}, !.shred = shred]
  /\ pc' = "sync"
  /\ UNCHANGED <<manifest, synced, segs, dels, idx, dirs, colls, nameIndex, faults>>

CreateCollection(n) ==
  LET e == CreateFrame(ctr.lsn, ctr.cid, n)
  IN  /\ pc = "idle" /\ ctr.lsn <= MaxLsn
      /\ n \notin DOMAIN nameIndex
      /\ keys' = Provisioned(ctr.cid)
      /\ Begin(<<e>>, n, {})
      /\ firm' = Issued(firm, n, e)
      /\ UNCHANGED ctr

DropWith(n, shred) ==
  LET e == DropFrame(ctr.lsn, nameIndex[n])
  IN  /\ pc = "idle" /\ ctr.lsn <= MaxLsn
      /\ n \in DOMAIN nameIndex
      /\ Begin(<<e>>, n, shred)
      /\ firm' = Issued(firm, n, e)
      /\ UNCHANGED <<keys, ctr>>

DropCollection(n) == DropWith(n, {})
ShredCollection(n) == DropWith(n, {nameIndex[n]})

Upsert(cid, id, v) ==
  LET e == UpsertFrame(ctr.lsn, cid, id, v)
      n == colls[cid].name
  IN  /\ pc = "idle" /\ ctr.lsn <= MaxLsn
      /\ Begin(<<e>>, n, {})
      /\ firm' = Issued(firm, n, e)
      /\ UNCHANGED <<keys, ctr>>

\* upsert_batch advances next_lsn before it appends.
UpsertBatch(cid, rows) ==
  LET frames == [i \in DOMAIN rows |->
                   UpsertFrame(ctr.lsn + i - 1, cid, rows[i][1], rows[i][2])]
      n      == colls[cid].name
      ids    == {rows[i][1] : i \in DOMAIN rows}
  IN  /\ pc = "idle" /\ ctr.lsn + Len(rows) - 1 <= MaxLsn
      /\ Begin(frames, n, {})
      /\ firm' = [firm EXCEPT ![n].rows =
                    [id \in Ids |-> IF id \in ids THEN Maybe ELSE @[id]]]
      /\ ctr' = [ctr EXCEPT !.lsn = @ + Len(rows)]
      /\ UNCHANGED keys

Delete(cid, id) ==
  LET e == DeleteFrame(ctr.lsn, cid, id)
      n == colls[cid].name
  IN  /\ pc = "idle" /\ ctr.lsn <= MaxLsn
      /\ Located(cid, colls[cid], id)
      /\ Begin(<<e>>, n, {})
      /\ firm' = Issued(firm, n, e)
      /\ UNCHANGED <<keys, ctr>>

SyncWalNoFsync ==   \* mutant: the write is acknowledged from the page cache
  /\ pc = "sync"
  /\ ctr' = [ctr EXCEPT !.lsn = job.batch[Len(job.batch)].lsn + 1]
  /\ pc' = "apply"
  /\ UNCHANGED <<manifest, wal, synced, segs, dels, idx, dirs, keys, colls, nameIndex,
                 job, firm, faults>>
SyncWal ==
  /\ pc = "sync"
  /\ synced' = [synced EXCEPT ![ctr.walSeq] = Len(wal[ctr.walSeq])]
  /\ ctr' = [ctr EXCEPT !.lsn = job.batch[Len(job.batch)].lsn + 1]
  /\ pc' = "apply"
  /\ UNCHANGED <<manifest, wal, segs, dels, idx, dirs, keys, colls, nameIndex,
                 job, firm, faults>>

\* A drop removes the name it was called with; replay, the collection's own.
ApplyFrame ==
  LET e == Head(job.batch)
      n == CHOOSE n \in job.name : TRUE
  IN  /\ pc = "apply"
      /\ colls' = AppliedColls(colls, e)
      /\ nameIndex' = IF e.op = "drop" THEN Without(nameIndex, {n})
                      ELSE AppliedNames(colls, nameIndex, e)
      /\ ctr' = IF e.op = "create" THEN [ctr EXCEPT !.cid = @ + 1] ELSE ctr
      /\ firm' = IF \E i \in 2..Len(job.batch) : job.batch[i].id = e.id
                 THEN firm ELSE Completed(firm, n, e)
      /\ job' = [job EXCEPT !.batch = SubSeq(@, 2, Len(@))]
      /\ pc' = IF Len(job.batch) > 1 THEN "apply"
               ELSE IF job.shred = {} THEN "idle" ELSE "checkpoint"
      /\ UNCHANGED <<disk, faults>>
-----------------------------------------------------------------------------
(* Checkpoint.  Phase A writes the window's .del files and seals the active *)
(* buffers, A2 writes the index snapshots, B swaps the manifest, C folds    *)
(* the window in memory, rotates the WAL, collects garbage and compacts at  *)
(* most one collection.                                                     *)

Pending == {c \in DOMAIN colls : HasPending(colls[c])}

Checkpoint(blobs) ==
  /\ pc \in {"idle", "checkpoint"}
  /\ ctr.lsn - 1 > ctr.floor
  /\ job' = [NoJob EXCEPT
                !.shred = job.shred,
                !.todo  = Pending,
                !.dels  = UNION {{<<c, r[1]>> : r \in colls[c].win} : c \in Pending},
                !.blobs = blobs]
  /\ pc' = "seal"
  /\ UNCHANGED <<disk, mem, firm, faults>>

Sealing == pc = "seal" /\ job.todo # {}

WriteDelAgain ==   \* mutant: the loop over the window does not advance
  LET cid  == Least(job.todo)
      mine == {d \in job.dels : d[1] = cid}
      s    == Least({d[2] : d \in mine})
      c    == colls[cid]
  IN  /\ Sealing /\ mine # {}
      /\ dirs' = dirs \cup {cid}
      /\ dels' = Put(dels, <<cid, s>>, c.dead[s] \cup {r[2] : r \in {w \in c.win : w[1] = s}})
      /\ UNCHANGED <<manifest, wal, synced, segs, idx, keys, mem, pc, job, firm, faults>>

\* Phase A, one write_del: the segment's bitmap merged with the window's rows.
WriteDel ==
  LET cid  == Least(job.todo)
      mine == {d \in job.dels : d[1] = cid}
      s    == Least({d[2] : d \in mine})
      c    == colls[cid]
  IN  /\ Sealing /\ mine # {}
      /\ dirs' = dirs \cup {cid}
      /\ dels' = Put(dels, <<cid, s>>, c.dead[s] \cup {r[2] : r \in {w \in c.win : w[1] = s}})
      /\ job' = [job EXCEPT !.dels = @ \ {<<cid, s>>}]
      /\ UNCHANGED <<manifest, wal, synced, segs, idx, keys, mem, pc, firm, faults>>

\* Phase A, write_segment: the active buffer becomes a new segment.
SealActive ==
  LET cid == Least(job.todo)
      act == colls[cid].active
  IN  /\ Sealing /\ \A d \in job.dels : d[1] # cid
      /\ dirs' = dirs \cup {cid}
      /\ IF DOMAIN act = {}
         THEN /\ job' = [job EXCEPT !.todo = @ \ {cid}]
              /\ UNCHANGED <<segs, ctr>>
         ELSE /\ segs' = Put(segs, <<cid, ctr.seg>>, act)
              /\ ctr' = [ctr EXCEPT !.seg = @ + 1]
              /\ job' = [job EXCEPT !.todo = @ \ {cid}, !.new = Put(@, cid, ctr.seg)]
      /\ UNCHANGED <<manifest, wal, synced, dels, idx, keys, colls, nameIndex, pc,
                     firm, faults>>

\* Phase A2, one index snapshot, named after the manifest version to come.
WriteIndexSnapshot ==
  LET cid == Least(DOMAIN job.blobs)
  IN  /\ pc = "seal" /\ job.todo = {} /\ DOMAIN job.blobs # {}
      /\ dirs' = dirs \cup {cid}
      /\ idx' = Put(idx, <<cid, ctr.version + 1>>, job.blobs[cid])
      /\ job' = [job EXCEPT !.blobs = Without(@, {cid}), !.snaps = @ \cup {cid}]
      /\ UNCHANGED <<manifest, wal, synced, segs, dels, keys, mem, pc, firm, faults>>

NewSegs(cid) == IF cid \in DOMAIN job.new THEN <<job.new[cid]>> ELSE << >>
NewSnapOrOld(cid) ==   \* mutant: without a new snapshot the old reference stays
  IF cid \in job.snaps THEN {[id |-> ctr.version + 1, lsn |-> ctr.lsn - 1]}
  ELSE colls[cid].snap
NewSnap(cid) ==
  IF cid \in job.snaps THEN {[id |-> ctr.version + 1, lsn |-> ctr.lsn - 1]} ELSE {}

CheckpointManifestOldSeg ==   \* mutant: the segment counter of before the seals
  [version |-> ctr.version + 1, floor |-> ctr.lsn - 1, cid |-> ctr.cid,
   seg |-> manifest.seg, intact |-> TRUE,
   colls |-> [c \in DOMAIN colls |->
                [name |-> colls[c].name, segs |-> colls[c].segs \o NewSegs(c),
                 snap |-> NewSnap(c)]]]
CheckpointManifest ==
  [version |-> ctr.version + 1, floor |-> ctr.lsn - 1, cid |-> ctr.cid,
   seg |-> ctr.seg, intact |-> TRUE,
   colls |-> [c \in DOMAIN colls |->
                [name |-> colls[c].name, segs |-> colls[c].segs \o NewSegs(c),
                 snap |-> NewSnap(c)]]]

\* Phase C: the window is folded, the sealed buffer becomes a segment.
FoldedNoWindow(cid, c) ==   \* mutant: the window's dead rows are forgotten
  LET new  == IF cid \in DOMAIN job.new THEN {job.new[cid]} ELSE {}
      dead == [s \in Image(c.segs) \cup new |-> IF s \in new THEN {} ELSE c.dead[s]]
  IN  [name |-> c.name, segs |-> c.segs \o NewSegs(cid), dead |-> dead,
       active |-> EmptyMap, win |-> {}, snap |-> NewSnap(cid)]
Folded(cid, c) ==
  LET new  == IF cid \in DOMAIN job.new THEN {job.new[cid]} ELSE {}
      dead == [s \in Image(c.segs) \cup new |->
                 IF s \in new THEN {}
                 ELSE c.dead[s] \cup {r[2] : r \in {w \in c.win : w[1] = s}}]
  IN  [name |-> c.name, segs |-> c.segs \o NewSegs(cid), dead |-> dead,
       active |-> EmptyMap, win |-> {}, snap |-> NewSnap(cid)]

Rows(cid, c) == UNION {{s} \X DOMAIN segs[<<cid, s>>] : s \in Image(c.segs)}
DeadRows(cid, c) == {r \in Rows(cid, c) : r[2] \in c.dead[r[1]]}

Reclaimable(cid, c) == Len(c.segs) > 1 \/ DeadRows(cid, c) # {}
NeedsCompaction(cid, c) ==
  /\ c.segs # << >>
  /\ \/ Len(c.segs) >= CompactMinSegments
     \/ /\ Rows(cid, c) # {}
        /\ Cardinality(DeadRows(cid, c)) * 2 >= Cardinality(Rows(cid, c))

AutoCompact(cs) ==
  LET over == {c \in DOMAIN cs : NeedsCompaction(c, cs[c])}
  IN  IF over = {} THEN {} ELSE {Least(over)}

\* write_manifest writes manifest-<version> before CURRENT is swapped; when
\* CURRENT already names that file the manifest in force is being rewritten.
Rewriting == manifest.version = ctr.version + 1
ReadyToSwap == (pc = "seal" /\ job.todo = {} /\ job.blobs = EmptyMap) \/ pc = "merged"

RewriteManifest ==
  /\ ReadyToSwap /\ Rewriting /\ manifest.intact
  /\ manifest' = [manifest EXCEPT !.intact = FALSE]
  /\ UNCHANGED <<wal, synced, segs, dels, idx, dirs, keys, mem, pc, job, firm, faults>>

Swapped(m) ==
  /\ ReadyToSwap /\ (Rewriting => ~manifest.intact)
  /\ manifest' = m
  /\ UNCHANGED <<wal, synced, segs, dels, idx, dirs, keys, firm>>

SwapCheckpointOldVersion ==   \* mutant: memory keeps the old manifest version
  LET folded == [c \in DOMAIN colls |-> Folded(c, colls[c])]
  IN  /\ pc = "seal"
      /\ Swapped(CheckpointManifest)
      /\ colls' = folded
      /\ ctr' = [ctr EXCEPT !.floor = ctr.lsn - 1]
      /\ job' = [NoJob EXCEPT !.shred = job.shred, !.cq = AutoCompact(folded)]
      /\ pc' = "rotate"
      /\ UNCHANGED <<nameIndex, faults>>

\* Phases B and C up to rotate_wal.
SwapCheckpoint ==
  LET folded == [c \in DOMAIN colls |-> Folded(c, colls[c])]
  IN  /\ pc = "seal"
      /\ Swapped(CheckpointManifest)
      /\ colls' = folded
      /\ ctr' = [ctr EXCEPT !.version = @ + 1, !.floor = ctr.lsn - 1]
      /\ job' = [NoJob EXCEPT !.shred = job.shred, !.cq = AutoCompact(folded)]
      /\ pc' = "rotate"
      /\ UNCHANGED <<nameIndex, faults>>

\* The WAL files rotate_wal removes: up to the one it rotates out.
RotatedOutBelow == {q \in DOMAIN wal : q < ctr.walSeq}  \* mutant: off by one
RotatedOut == {q \in DOMAIN wal : q <= ctr.walSeq}

\* rotate_wal: WalWriter::create fails if the file exists.
RotateWal ==
  LET new == ctr.walSeq + 1
  IN  /\ pc = "rotate"
      /\ IF new \in DOMAIN wal
         THEN /\ pc' = "idle" /\ job' = NoJob
              /\ UNCHANGED <<wal, synced, ctr>>
         ELSE /\ wal' = Put(wal, new, << >>) /\ synced' = Put(synced, new, 0)
              /\ ctr' = [ctr EXCEPT !.walSeq = new]
              /\ job' = [job EXCEPT !.trim = RotatedOut]
              /\ pc' = "trim"
      /\ UNCHANGED <<manifest, segs, dels, idx, dirs, keys, colls, nameIndex, firm, faults>>

\* One superseded WAL file is removed, oldest first; then the next phase.
TrimWal ==
  /\ pc = "trim"
  /\ IF job.trim = {}
     THEN /\ pc' = IF job.opening THEN "idle" ELSE "gc"
          /\ job' = IF job.opening THEN NoJob ELSE job
          /\ UNCHANGED <<wal, synced>>
     ELSE LET q == {Least(job.trim)}
          IN  /\ wal' = Without(wal, q) /\ synced' = Without(synced, q)
              /\ job' = [job EXCEPT !.trim = @ \ q]
              /\ pc' = pc
  /\ UNCHANGED <<manifest, segs, dels, idx, dirs, keys, mem, firm, faults>>
-----------------------------------------------------------------------------
(* Garbage collection: what the manifest does not reference goes, one file  *)
(* or directory at a time in directory order (any order), a dropped         *)
(* collection's key before its directory.                                   *)

DeadDirsByMemory == dirs \ DOMAIN colls   \* mutant: memory decides, not the manifest
DeadDirs == dirs \ DOMAIN manifest.colls
Unreferenced(f) ==
  /\ f[1] \in DOMAIN manifest.colls
  /\ f[2] \notin Image(manifest.colls[f[1]].segs)
DeadSegs == {f \in DOMAIN segs : Unreferenced(f)}
DeadDels == {f \in DOMAIN dels : Unreferenced(f)}
DeadIdx == {f \in DOMAIN idx :
              f[1] \in DOMAIN manifest.colls
                /\ \A r \in manifest.colls[f[1]].snap : r.id # f[2]}

Of(f, cid) == {x \in DOMAIN f : x[1] = cid}

GcShredKey ==
  /\ pc = "gc"
  /\ \E cid \in DeadDirs \cap keys : keys' = Shredded(cid)
  /\ UNCHANGED <<manifest, wal, synced, segs, dels, idx, dirs, mem, pc, job, firm, faults>>

GcRemoveDir ==
  /\ pc = "gc"
  /\ \E cid \in DeadDirs \ keys :
       /\ dirs' = dirs \ {cid}
       /\ segs' = Without(segs, Of(segs, cid))
       /\ dels' = Without(dels, Of(dels, cid))
       /\ idx' = Without(idx, Of(idx, cid))
  /\ UNCHANGED <<manifest, wal, synced, keys, mem, pc, job, firm, faults>>

GcSegment ==
  /\ pc = "gc"
  /\ \/ (\E f \in DeadSegs : segs' = Without(segs, {f})) /\ UNCHANGED dels
     \/ (\E f \in DeadDels : dels' = Without(dels, {f})) /\ UNCHANGED segs
  /\ UNCHANGED <<manifest, wal, synced, idx, dirs, keys, mem, pc, job, firm, faults>>

OrphansGone == DeadDirs = {} /\ DeadSegs = {} /\ DeadDels = {}

GcIndexSnapshot ==
  /\ pc = "gc" /\ OrphansGone
  /\ \E f \in DeadIdx : idx' = Without(idx, {f})
  /\ UNCHANGED <<manifest, wal, synced, segs, dels, dirs, keys, mem, pc, job, firm, faults>>

GcDone ==
  /\ pc = "gc" /\ OrphansGone /\ DeadIdx = {}
  /\ IF job.opening THEN pc' = "newwal" /\ job' = job
     ELSE IF job.cq # {} THEN pc' = "compact" /\ job' = job
     ELSE IF job.shred # {} THEN pc' = "shred" /\ job' = job
     ELSE pc' = "idle" /\ job' = NoJob
  /\ UNCHANGED <<disk, mem, firm, faults>>

\* shred_collection's last call, after its checkpoint.
ShredKey ==
  /\ pc = "shred"
  /\ keys' = Shredded(CHOOSE c \in job.shred : TRUE)
  /\ pc' = "idle" /\ job' = NoJob
  /\ UNCHANGED <<manifest, wal, synced, segs, dels, idx, dirs, mem, firm, faults>>

-----------------------------------------------------------------------------
(* Compaction: the live sealed rows of a collection become one segment.     *)

Compact ==
  LET cq == {c \in DOMAIN colls : Reclaimable(c, colls[c])}
  IN  /\ pc = "idle" /\ cq # {}
      /\ job' = [NoJob EXCEPT !.cq = cq]
      /\ pc' = "compact"
      /\ UNCHANGED <<disk, mem, firm, faults>>

\* An id is live in at most one segment (ReadPathsAgree).
MergeSegments ==
  LET cid  == Least(job.cq)
      rows == LiveRows(cid, colls[cid])
      row(id) == CHOOSE r \in rows : r[2] = id
  IN  /\ pc = "compact"
      /\ segs' = Put(segs, <<cid, ctr.seg>>,
                     [id \in {r[2] : r \in rows} |-> segs[<<cid, row(id)[1]>>][id]])
      /\ dirs' = dirs \cup {cid}
      /\ ctr' = [ctr EXCEPT !.seg = @ + 1]
      /\ job' = [job EXCEPT !.new = Put(EmptyMap, cid, ctr.seg)]
      /\ pc' = "merged"
      /\ UNCHANGED <<manifest, wal, synced, dels, idx, keys, colls, nameIndex, firm, faults>>

CompactManifestAtLsn ==   \* mutant: the floor advances as a checkpoint's does
  [version |-> ctr.version + 1, floor |-> ctr.lsn - 1, cid |-> ctr.cid,
   seg |-> ctr.seg, intact |-> TRUE,
   colls |-> [c \in DOMAIN colls |->
                [name |-> colls[c].name,
                 segs |-> IF c \in DOMAIN job.new THEN NewSegs(c) ELSE colls[c].segs,
                 snap |-> colls[c].snap]]]

\* The floor is unchanged: the active buffers stay in the WAL.
CompactManifest ==
  [version |-> ctr.version + 1, floor |-> ctr.floor, cid |-> ctr.cid,
   seg |-> ctr.seg, intact |-> TRUE,
   colls |-> [c \in DOMAIN colls |->
                [name |-> colls[c].name,
                 segs |-> IF c \in DOMAIN job.new THEN NewSegs(c) ELSE colls[c].segs,
                 snap |-> colls[c].snap]]]

MergedKeepingWindow(cid, c) ==   \* mutant: dead_this_window is not cleared
  [c EXCEPT !.segs = NewSegs(cid), !.dead = [s \in {job.new[cid]} |-> {}]]
Merged(cid, c) ==
  [c EXCEPT !.segs = NewSegs(cid), !.dead = [s \in {job.new[cid]} |-> {}], !.win = {}]

SwapCompaction ==
  LET cid == Least(job.cq)
  IN  /\ pc = "merged"
      /\ Swapped(CompactManifest)
      /\ colls' = [colls EXCEPT ![cid] = Merged(cid, @)]
      /\ ctr' = [ctr EXCEPT !.version = @ + 1]
      /\ job' = [job EXCEPT !.cq = @ \ {cid}, !.new = EmptyMap]
      /\ pc' = "gc"
      /\ UNCHANGED <<nameIndex, faults>>

-----------------------------------------------------------------------------
(* Recovery (open_with_keyring).                                           *)

Opened(cid, e) ==
  [name |-> e.name, segs |-> e.segs, active |-> EmptyMap, win |-> {}, snap |-> e.snap,
   dead |-> [s \in Image(e.segs) |->
               IF <<cid, s>> \in DOMAIN dels THEN dels[<<cid, s>>] ELSE {}]]

ManifestNames ==
  LET m == manifest.colls
  IN  [n \in {m[c].name : c \in DOMAIN m} |-> CHOOSE c \in DOMAIN m : m[c].name = n]

SupersededAll == DOMAIN wal \* mutant: every replayed file is removed
Superseded == {q \in DOMAIN wal : \A t \in WalTail : t[1] # q}

Open ==
  LET m == manifest.colls
  IN  /\ pc = "down" /\ manifest.intact
      /\ \A c \in DOMAIN m : HasKey(c)
      /\ colls' = [c \in DOMAIN m |-> Opened(c, m[c])]
      /\ nameIndex' = ManifestNames
      /\ ctr' = [lsn |-> manifest.floor + 1, cid |-> manifest.cid, seg |-> manifest.seg,
                 version |-> manifest.version, floor |-> manifest.floor, walSeq |-> 0]
      /\ job' = [NoJob EXCEPT
                   !.opening = TRUE, !.rest = WalTail, !.trim = Superseded]
      /\ pc' = "replay"
      /\ UNCHANGED <<disk, firm, faults>>

ReplayFrame ==
  LET t == First(job.rest)
      e == wal[t[1]][t[2]]
  IN  /\ pc = "replay" /\ job.rest # {}
      /\ e.op = "create" => HasKey(e.cid)
      /\ colls' = AppliedColls(colls, e)
      /\ nameIndex' = AppliedNames(colls, nameIndex, e)
      /\ ctr' = [ctr EXCEPT
                   !.lsn = Greatest({@, e.lsn + 1}),
                   !.cid = IF e.op = "create" THEN Greatest({@, e.cid + 1}) ELSE @]
      /\ job' = [job EXCEPT !.rest = @ \ {t}]
      /\ UNCHANGED <<disk, pc, firm, faults>>

ReplayDone ==
  /\ pc = "replay" /\ job.rest = {}
  /\ pc' = "gc"
  /\ UNCHANGED <<disk, mem, job, firm, faults>>

\* A fresh WAL file for new appends, then the superseded ones go.
StartWal ==
  LET new == Greatest(DOMAIN wal \cup {0}) + 1
  IN  /\ pc = "newwal"
      /\ wal' = Put(wal, new, << >>) /\ synced' = Put(synced, new, 0)
      /\ ctr' = [ctr EXCEPT !.walSeq = new]
      /\ pc' = "trim"
      /\ UNCHANGED <<manifest, segs, dels, idx, dirs, keys, colls, nameIndex, job, firm, faults>>

-----------------------------------------------------------------------------
(* Faults.  A crash loses memory.  A kill during an append may cut the      *)
(* batch short, with or without a torn last frame; a power loss may cut     *)
(* every file back to what was fsync'd.                                     *)

CutAt(frames, n, torn) ==
  SubSeq(frames, 1, n) \o (IF torn /\ n < Len(frames) THEN <<TornFrame>> ELSE << >>)

Crash ==
  /\ pc # "down"
  /\ pc' = "down" /\ job' = NoJob
  /\ colls' = EmptyMap /\ nameIndex' = EmptyMap /\ ctr' = NoCtr
  /\ UNCHANGED <<manifest, segs, dels, idx, dirs, keys, firm>>

Kill ==
  /\ faults.kills < MaxKills
  /\ faults' = [faults EXCEPT !.kills = @ + 1]
  /\ IF pc = "sync"
     THEN \E k \in 0..Len(job.batch), torn \in BOOLEAN :
            LET q == ctr.walSeq
            IN  wal' = [wal EXCEPT ![q] = CutAt(@, Len(@) - k, torn)]
     ELSE wal' = wal
  /\ UNCHANGED synced
  /\ Crash

PowerLoss ==
  /\ faults.power < MaxPowerLosses
  /\ faults' = [faults EXCEPT !.power = @ + 1]
  /\ \E cut \in [DOMAIN wal -> 0..MaxLsn], torn \in BOOLEAN :
       /\ \A q \in DOMAIN wal : synced[q] <= cut[q] /\ cut[q] <= Len(wal[q])
       /\ wal' = [q \in DOMAIN wal |-> CutAt(wal[q], cut[q], torn)]
       /\ synced' = [q \in DOMAIN wal |-> Len(wal'[q])]
  /\ Crash

\* An operation is handed an I/O error and returns it; the engine lives on.
Fails(kind) ==
  /\ kind \in Errors /\ faults.errors < MaxErrors
  /\ faults' = [faults EXCEPT !.errors = @ + 1]
  /\ pc' = "idle" /\ job' = NoJob
  /\ UNCHANGED <<segs, dels, idx, dirs, keys, colls, nameIndex, firm>>

\* append or sync fails: some frames are in the file, the last perhaps partly.
AppendFails ==
  /\ pc = "sync" /\ Fails("append")
  /\ \E k \in 0..Len(job.batch), torn \in BOOLEAN :
       wal' = [wal EXCEPT ![ctr.walSeq] = CutAt(@, Len(@) - k, torn)]
  /\ UNCHANGED <<manifest, synced, ctr>>

\* A write of phase A or A2, or of the merged segment, fails.
SealFailsTakingBuffer ==   \* mutant: the buffer is moved out before it is written
  /\ pc \in {"seal", "compact", "merged"}
  /\ "seal" \in Errors /\ faults.errors < MaxErrors
  /\ faults' = [faults EXCEPT !.errors = @ + 1]
  /\ pc' = "idle" /\ job' = NoJob
  /\ colls' = [c \in DOMAIN colls |-> [colls[c] EXCEPT !.active = EmptyMap]]
  /\ UNCHANGED <<manifest, wal, synced, segs, dels, idx, dirs, keys, nameIndex, ctr, firm>>
SealFails ==
  /\ pc \in {"seal", "compact", "merged"} /\ Fails("seal")
  /\ UNCHANGED <<manifest, wal, synced, ctr>>

\* write_manifest fails after its rename: CURRENT is swapped, memory is not.
SwapFails ==
  /\ Fails("swap")
  /\ \/ pc = "seal" /\ Swapped(CheckpointManifest)
     \/ pc = "merged" /\ Swapped(CompactManifest)
  /\ UNCHANGED ctr

\* rotate_wal fails after it created the file: the engine keeps the old one.
RotateFails ==
  LET new == ctr.walSeq + 1
  IN  /\ pc = "rotate" /\ new \notin DOMAIN wal /\ Fails("rotate")
      /\ wal' = Put(wal, new, << >>) /\ synced' = Put(synced, new, 0)
      /\ UNCHANGED <<manifest, ctr>>

-----------------------------------------------------------------------------
Batches == UNION {[1..k -> Ids \X Vals] : k \in 2..MaxBatch}
Snapshots == UNION {[S -> Blobs] : S \in SUBSET DOMAIN colls}

Mutate ==
  \/ \E n \in Names : CreateCollection(n)
  \/ \E n \in DOMAIN nameIndex : DropCollection(n) \/ ShredCollection(n)
  \/ \E cid \in DOMAIN colls, id \in Ids :
       Delete(cid, id) \/ \E v \in Vals : Upsert(cid, id, v)
  \/ \E cid \in DOMAIN colls, rows \in Batches : UpsertBatch(cid, rows)

Maintain ==
  \/ pc = "idle" /\ \E blobs \in Snapshots : Checkpoint(blobs)
  \/ Compact

\* The steps an operation that has begun still has to take.
Proceed ==
  \/ SyncWal \/ ApplyFrame
  \/ pc = "checkpoint" /\ Checkpoint(EmptyMap)
  \/ WriteDel \/ SealActive \/ WriteIndexSnapshot \/ RewriteManifest
  \/ SwapCheckpoint \/ RotateWal \/ TrimWal
  \/ GcShredKey \/ GcRemoveDir \/ GcSegment \/ GcIndexSnapshot \/ GcDone
  \/ ShredKey \/ MergeSegments \/ SwapCompaction
  \/ Open \/ ReplayFrame \/ ReplayDone \/ StartWal

Fault == Kill \/ PowerLoss \/ AppendFails \/ SealFails \/ SwapFails \/ RotateFails

\* An idle engine may wait for a call; every other state has to move on.
Wait == pc = "idle" /\ UNCHANGED vars

Next == Mutate \/ Maintain \/ Proceed \/ Fault \/ Wait

Spec == Init /\ [][Next]_vars
\* The thread that runs an operation, or recovery, is scheduled until it ends.
FairSpec == Spec /\ WF_vars(Proceed)

-----------------------------------------------------------------------------
(* Properties.                                                             *)

MapOn(f, K) == f = [x \in DOMAIN f |-> f[x]] /\ DOMAIN f \subseteq K
IsMap(f, K, V) == MapOn(f, K) /\ \A x \in DOMAIN f : f[x] \in V

Frame == [lsn : Nat, op : {"create"}, cid : Nat, name : Names]
           \cup [lsn : Nat, op : {"drop"}, cid : Nat]
           \cup [lsn : Nat, op : {"upsert"}, cid : Nat, id : Ids, val : Vals]
           \cup [lsn : Nat, op : {"delete"}, cid : Nat, id : Ids]
SnapRef == [id : Nat, lsn : Nat]
Entry == [name : Names, segs : Seq(Nat), snap : SUBSET SnapRef]

IsColl(c) ==
  /\ c \in [name : Names, segs : Seq(Nat), dead : {c.dead}, active : {c.active},
            win : SUBSET ((DOMAIN c.dead) \X Ids), snap : SUBSET SnapRef]
  /\ IsMap(c.dead, Nat, SUBSET Ids) /\ DOMAIN c.dead = Image(c.segs)
  /\ IsMap(c.active, Ids, Vals)

IsJob(j) ==
  /\ j \in [batch : Seq(Frame), name : SUBSET Names, rest : SUBSET (Nat \X Nat), trim : SUBSET Nat,
            dels : SUBSET (Nat \X Nat), todo : SUBSET Nat, new : {j.new},
            blobs : {j.blobs}, snaps : SUBSET Nat, cq : SUBSET Nat,
            shred : SUBSET Nat, opening : BOOLEAN]
  /\ IsMap(j.new, Nat, Nat) /\ IsMap(j.blobs, Nat, Blobs)

\* The type invariant of the engine's disk, memory and control state.
TypeOK ==
  /\ manifest \in [version : Nat, floor : Nat, cid : Nat, seg : Nat,
                   intact : BOOLEAN, colls : {manifest.colls}]
  /\ IsMap(manifest.colls, Nat, Entry)
  /\ IsMap(wal, Nat, Seq(Frame \cup {TornFrame}))
  /\ IsMap(synced, Nat, Nat) /\ DOMAIN synced = DOMAIN wal
  /\ MapOn(segs, Nat \X Nat)
  /\ \A f \in DOMAIN segs : IsMap(segs[f], Ids, Vals)
  /\ IsMap(dels, Nat \X Nat, SUBSET Ids)
  /\ IsMap(idx, Nat \X Nat, Blobs)
  /\ dirs \subseteq Nat /\ keys \subseteq Nat
  /\ MapOn(colls, Nat)
  /\ \A c \in DOMAIN colls : IsColl(colls[c])
  /\ IsMap(nameIndex, Names, Nat)
  /\ ctr \in [lsn : Nat, cid : Nat, seg : Nat, version : Nat, floor : Nat, walSeq : Nat]
  /\ pc \in {"down", "replay", "newwal", "idle", "sync", "apply", "checkpoint", "seal",
             "rotate", "trim", "gc", "compact", "merged", "shred"}
  /\ IsJob(job)
  /\ firm \in [Names -> [here : {"yes", "no", "maybe"},
                         rows : [Ids -> Vals \cup {Absent, Maybe}]]]
  /\ faults \in [kills : Nat, power : Nat, errors : Nat]

\* Durability (store.rs 5-8, wal.rs 4-5): whenever the engine can answer,
\* a collection or point whose last issued operation was acknowledged reads
\* as that operation left it -- after any crashes, checkpoints, compactions
\* and garbage collections in between.  A deleted point stays deleted.
Durable ==
  pc = "idle" =>
    \A n \in Names :
      LET found == n \in DOMAIN nameIndex /\ nameIndex[n] \in DOMAIN colls
      IN  /\ firm[n].here = "yes" => found
          /\ firm[n].here = "no" => n \notin DOMAIN nameIndex
          /\ \A id \in Ids :
               firm[n].rows[id] # Maybe =>
                 firm[n].rows[id] =
                   (IF found THEN Get(nameIndex[n], colls[nameIndex[n]], id) ELSE Absent)

\* locate, live_locs_sorted and live_len agree (store.rs 298-360): the rows a
\* scan yields are those a get finds, no id is live twice, and the count taken
\* from the bitmaps is the number of live ids.
ReadPathsAgree ==
  pc \in {"idle", "apply", "replay", "seal"} =>
    \A cid \in DOMAIN colls :
      LET c == colls[cid]
          scan == LiveRows(cid, c)
      IN  /\ \A id \in Ids :
               {r[1] : r \in {x \in scan : x[2] = id}} = LiveSealed(cid, c, id)
          /\ LiveLen(cid, c) = Cardinality({id \in Ids : Located(cid, c, id)})

\* The log covers the window (store.rs 1693-1694): every LSN assigned since the
\* floor of the manifest in force is in a frame recovery would read, so neither
\* rotate_wal nor recovery ever removes a record that no segment holds.
LogCoversWindow ==
  pc = "idle" =>
    \A l \in manifest.floor + 1 .. ctr.lsn - 1 :
      \E t \in WalTail : wal[t[1]][t[2]].lsn = l

\* What the manifest in force references is on disk at every step, so a crash
\* anywhere leaves a store that opens (store.rs 466-468, 1768-1855): collection
\* never runs ahead of the manifest swap.
ReferencedFilesExist ==
  \A c \in DOMAIN manifest.colls :
    /\ \A s \in Image(manifest.colls[c].segs) : <<c, s>> \in DOMAIN segs
    /\ \A r \in manifest.colls[c].snap : <<c, r.id>> \in DOMAIN idx

\* checkpoint_with_index_snapshots (store.rs 1298-1304): a referenced index
\* snapshot is always of the checkpoint the WAL is replayed from.
SnapshotAtFloor ==
  \A c \in DOMAIN manifest.colls :
    \A r \in manifest.colls[c].snap : r.lsn = manifest.floor

\* Identifiers are not reused (store.rs 477-481): the next collection id is above
\* every collection in memory or in the log, and the next segment id names no
\* segment or .del file of a collection in memory.
FreshIds ==
  pc = "idle" =>
    /\ \A c \in DOMAIN colls : c < ctr.cid
    /\ \A q \in DOMAIN wal : \A p \in Readable(wal[q]) : wal[q][p].cid < ctr.cid
    /\ \A f \in DOMAIN segs \cup DOMAIN dels : f[2] < ctr.seg
    /\ ctr.walSeq \in DOMAIN wal

\* Crypto-shredding (store.rs 671-692): when shred_collection returns, the
\* collection has no key, no directory and no record left in the log.
ShredErases ==
  [][pc = "shred" /\ pc' = "idle" =>
       \A c \in job.shred :
         /\ c \notin keys' \cup dirs'
         /\ \A q \in DOMAIN wal' : \A p \in 1..Len(wal'[q]) :
              wal'[q][p].op = "torn" \/ wal'[q][p].cid # c]_vars

\* Every call returns and recovery ends: no step waits for what cannot come.
CallsReturn == (pc # "idle") ~> (pc = "idle")

\* Comments at store.rs 626-627 and 1729-1730: the key of a collection whose
\* records recovery reads is there.
KeysAvailable ==
  /\ pc = "down" => \A c \in DOMAIN manifest.colls : HasKey(c)
  /\ pc = "replay" => \A t \in job.rest :
       LET e == wal[t[1]][t[2]] IN e.op = "create" => HasKey(e.cid)

\* wal.rs 13-14: "the only place an invalid frame can legitimately appear is the
\* tail".
TornOnlyAtTail ==
  \A q \in DOMAIN wal : \A p \in 1..Len(wal[q]) :
    wal[q][p].op = "torn" => p = Len(wal[q])

\* manifest.rs 77: a collection's name is unique within the store.
NamesUnique ==
  \A m, n \in DOMAIN nameIndex : nameIndex[m] = nameIndex[n] => m = n

\* manifest.rs 89-90: a manifest is "Immutable once written", so the one CURRENT
\* names is readable at every step.
ManifestImmutable == manifest.intact
=============================================================================

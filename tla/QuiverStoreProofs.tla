------------------------- MODULE QuiverStoreProofs --------------------------
(***************************************************************************)
(* The theorems about QuiverStore that combine the invariants of its       *)
(* parts, for every value of the constants: what is read agrees with       *)
(* itself, a shredded collection leaves nothing behind, the log covers the *)
(* window that a recovery has to replay, and no id is handed out twice.    *)
(***************************************************************************)
EXTENDS StoreInvProofs, StoreRowsProofs, StoreIdProofs

-----------------------------------------------------------------------------
(* What is read.                                                           *)

\* The order of the segments and of their bitmaps holds from the start and at every
\* step of every operation, fault and recovery.
THEOREM RowsInvariant == Spec => []RowsInv
<1>1. StoreInv /\ RowsInv /\ [Next]_vars => RowsInv'
  BY StepInv, RowsStep
<1> QED
  BY <1>1, RowsInit, StoreInvariant, PTL DEF Spec

\* Whatever writes, checkpoints, compactions, crashes and I/O errors came before, the
\* three read paths agree: a scan yields for every id exactly the row a get finds, no
\* id is alive in two segments, and the count taken from the bitmaps, which reads no
\* id, is the number of ids alive.
THEOREM ReadPaths == Spec => []ReadPathsAgree
  BY RowsInvariant, StoreInvariant, RowsAgree, PTL

-----------------------------------------------------------------------------
(* What a shred leaves.                                                    *)

\* When shred_collection returns, the collection has no key, no directory and no
\* record in any log file, whatever crashes, failed rotations, checkpoints and
\* collections came before the call and whatever else was waiting in the log.
THEOREM ShredsErase == Spec => ShredErases
<1>1. StoreInv /\ FileInv /\ ShredInv /\ [Next]_vars => FileInv' /\ ShredInv'
  BY StepInv, FileStep, ShredStep
<1>2. StoreInv /\ ShredInv /\ [Next]_vars =>
        [pc = "shred" /\ pc' = "idle" =>
           \A c \in job.shred :
             /\ c \notin keys' \cup dirs'
             /\ \A q \in DOMAIN wal' : \A p \in 1..Len(wal'[q]) :
                  wal'[q][p].op = "torn" \/ wal'[q][p].cid # c]_vars
  BY ShredLast
<1> QED
  BY <1>1, <1>2, ShredInit, StoreInvariant, PTL DEF Spec, ShredErases

-----------------------------------------------------------------------------
(* What the log holds.                                                     *)

\* Unless an append fails and leaves half a batch behind, and until kills and power
\* losses come together, every LSN handed out since the floor of the manifest in
\* force is in a record that recovery would read: across any number of crashes in
\* the middle of appends, rotations, trims and recoveries, and any other I/O error.
THEOREM LogKeepsWindow ==
  "append" \notin Errors => (Spec => [](OneKind => LogCoversWindow))
<1> SUFFICES ASSUME "append" \notin Errors PROVE Spec => [](OneKind => LogCoversWindow)
  OBVIOUS
<1> DEFINE NoGap == FileInv /\ (OneKind => LogInv)
<1>1. Init => NoGap
  BY ShredInit, LogInit
<1>2. StoreInv /\ NoGap /\ [Next]_vars => NoGap'
  BY StepInv, FileStep, KindStays, LogStep, Zenon
<1>3. StoreInv /\ NoGap => (OneKind => LogCoversWindow)
  BY LogCovers, Zenon
<1> QED
  BY <1>1, <1>2, <1>3, StoreInvariant, PTL DEF Spec

-----------------------------------------------------------------------------
(* What ids are left.                                                      *)

\* The ids an idle engine hands out next are new.
LEMMA IdsFresh == ASSUME StoreInv, RowsInv, FileInv, CidInv, IdInv PROVE FreshIds
<1> SUFFICES ASSUME pc = "idle"
             PROVE  /\ \A c \in DOMAIN colls : c < ctr.cid
                    /\ \A q \in DOMAIN wal : \A p \in Readable(wal[q]) : wal[q][p].cid < ctr.cid
                    /\ \A f \in DOMAIN segs \cup DOMAIN dels : f[2] < ctr.seg
                    /\ ctr.walSeq \in DOMAIN wal
  BY Zenon DEF FreshIds
<1>1. \A f \in DOMAIN segs \cup DOMAIN dels : f[2] < ctr.seg
  BY DEF RowsInv, SegIds, SegFiles, Settled
<1>2. ctr.walSeq \in DOMAIN wal
  BY DEF FileInv, HasLog
<1>3. \A t \in Rec : At(t).cid < ctr.cid
  BY DEF IdInv, Creating
<1>4. ASSUME NEW q \in DOMAIN wal, NEW p \in Readable(wal[q]) PROVE wal[q][p].cid < ctr.cid
  <2>1. <<q, p>> \in Rec /\ At(<<q, p>>) = wal[q][p]
    BY DEF Rec, RecOf, At
  <2> QED
    BY <1>3, <2>1, Zenon
<1> QED
  BY <1>1, <1>2, <1>4, Zenon DEF CidInv

\* Under the same conditions no id is ever handed out twice: when the engine is idle
\* the next collection id is above that of every collection in memory and of every
\* record in the log, the next segment id above that of every segment and bitmap
\* file, and the log file in use is there.  Recovery, which has only the manifest's
\* counters and the records it replays, never counts below an id it has yet to meet.
THEOREM IdsStayFresh ==
  "append" \notin Errors => (Spec => [](OneKind => FreshIds))
<1> SUFFICES ASSUME "append" \notin Errors PROVE Spec => [](OneKind => FreshIds)
  OBVIOUS
<1> DEFINE Ids0 == FileInv /\ CidInv /\ (OneKind => LogInv /\ IdInv)
<1>1. Init => Ids0
  BY ShredInit, LogInit, CidInit, IdInit
<1>2. StoreInv /\ Ids0 /\ [Next]_vars => Ids0'
  BY StepInv, FileStep, CidStep, KindStays, LogStep, IdStep, Zenon
<1>3. StoreInv /\ RowsInv /\ Ids0 => (OneKind => FreshIds)
  BY IdsFresh, Zenon
<1> QED
  BY <1>1, <1>2, <1>3, StoreInvariant, RowsInvariant, PTL DEF Spec

=============================================================================

-------------------------- MODULE StoreRowsProofs --------------------------
(***************************************************************************)
(* What makes get, scan and count of a collection agree: the order of its  *)
(* segments and what their bitmaps say (RowsInv).  That the invariant      *)
(* implies the agreement, and that every step keeps it.                    *)
(***************************************************************************)
EXTENDS StoreFacts, FiniteSetTheorems

-----------------------------------------------------------------------------
(* The invariant.  S stands for the segment files and D for the .del files, *)
(* before or after a step.                                                  *)

\* What the .del file of a segment marks dead.
Marked(D, f) == IF f \in DOMAIN D THEN D[f] ELSE {}
\* The rows of segment s that died in the collection's window.
WinOf(c, s) == {w[2] : w \in {x \in c.win : x[1] = s}}

\* Of two segments that hold a row of one id, the older one marks it dead.
OldDead(S, cid, list, dead) ==
  \A i, j \in DOMAIN list : i < j =>
    /\ list[i] # list[j]
    /\ DOMAIN S[<<cid, list[i]>>] \cap DOMAIN S[<<cid, list[j]>>] \subseteq dead[list[i]]

\* A collection in memory: only rows of a segment are dead, no row dies twice, an
\* id in the buffer has no live row, and the .del files are between the bitmap in
\* memory and the bitmap with the window.
SegmentRows(S, D, cid, c, s) ==
  /\ c.dead[s] \subseteq DOMAIN S[<<cid, s>>]
  /\ c.dead[s] \subseteq Marked(D, <<cid, s>>)
  /\ Marked(D, <<cid, s>>) \subseteq c.dead[s] \cup WinOf(c, s)
  /\ DOMAIN S[<<cid, s>>] \cap DOMAIN c.active \subseteq c.dead[s] \cup WinOf(c, s)
  /\ WinOf(c, s) \subseteq DOMAIN S[<<cid, s>>] \ c.dead[s]
CollRows(S, D, cid, c) ==
  /\ OldDead(S, cid, c.segs, c.dead)
  /\ \A s \in Image(c.segs) : SegmentRows(S, D, cid, c, s)
  /\ IsFiniteSet(DOMAIN c.active)

\* Recovery starts to count at the manifest's segment id, and what lies above it is
\* collected before the first segment is written.
Settled == pc \notin {"down", "replay"} /\ ~(pc = "gc" /\ job.opening)
SegFiles == DOMAIN segs \cup DOMAIN dels
SegIds ==
  /\ \A f \in SegFiles : f[1] \in dirs
  /\ \A c \in DOMAIN manifest.colls : \A s \in Image(manifest.colls[c].segs) : s < manifest.seg
  /\ pc # "down" => manifest.seg <= ctr.seg
  /\ Settled => \A f \in SegFiles : f[2] < ctr.seg
  /\ pc = "replay" => job.opening

\* The files on disk, and the collections as recovery would open them.
MarkedIn(D, cid, list) == [s \in Image(list) |-> Marked(D, <<cid, s>>)]
DiskRows ==
  /\ \A f \in DOMAIN segs : IsFiniteSet(DOMAIN segs[f])
  /\ \A f \in DOMAIN segs \cap DOMAIN dels : dels[f] \subseteq DOMAIN segs[f]
  /\ \A c \in DOMAIN manifest.colls :
       OldDead(segs, c, manifest.colls[c].segs, MarkedIn(dels, c, manifest.colls[c].segs))

\* The segments in which an id is alive, and the file of a compaction, which holds
\* exactly the rows that are.
Alive(S, cid, c, id) ==
  {s \in Image(c.segs) : id \in DOMAIN S[<<cid, s>>] \ (c.dead[s] \cup WinOf(c, s))}
MergedRows(S, cid, c, f) ==
  \A id \in Ids :
    /\ id \in DOMAIN S[f] <=> Alive(S, cid, c, id) # {}
    /\ \A s \in Alive(S, cid, c, id) : S[f][id] = S[<<cid, s>>][id]

\* A checkpoint on its way to the swap: the window is in the .del files or still to be
\* written, a sealed buffer is in its file.
SealRows ==
  /\ pc = "seal" =>
       /\ \A d \in job.dels : d[1] \in job.todo
       /\ \A c \in DOMAIN colls : \A s \in Image(colls[c].segs) :
            <<c, s>> \in job.dels \/ WinOf(colls[c], s) \subseteq Marked(dels, <<c, s>>)
       /\ \A c \in DOMAIN job.new :
            /\ c \in DOMAIN colls \ job.todo /\ segs[<<c, job.new[c]>>] = colls[c].active
            /\ job.new[c] \notin Image(colls[c].segs)
       /\ \A c \in DOMAIN colls \ job.todo : c \in DOMAIN job.new \/ DOMAIN colls[c].active = {}
  /\ \A c \in DOMAIN job.new : <<c, job.new[c]>> \notin DOMAIN dels
  /\ pc = "merged" => \A c \in DOMAIN job.new : MergedRows(segs, c, colls[c], <<c, job.new[c]>>)

MemRows == \A c \in DOMAIN colls : CollRows(segs, dels, c, colls[c])

RowsInv == SegIds /\ DiskRows /\ MemRows /\ SealRows

-----------------------------------------------------------------------------
(* The invariant makes the three read paths agree.                         *)

\* The window, segment by segment.
LEMMA WinMember ==
  ASSUME NEW c, IsColl(c), NEW s, NEW id
  PROVE  id \in WinOf(c, s) <=> <<s, id>> \in c.win
<1>1. c.win \in SUBSET ((DOMAIN c.dead) \X Ids)
  BY DEF IsColl
<1> QED
  BY <1>1 DEF WinOf

\* A row is dead when the bitmap or the window says so.
LEMMA DeadRow ==
  ASSUME NEW c, IsColl(c), NEW s, NEW id
  PROVE  SealedDead(c, s, id) <=> id \in c.dead[s] \cup WinOf(c, s)
  BY WinMember DEF SealedDead

\* The rows of an id that a scan yields are in the segment a get looks at.
LEMMA ScanFindsNewest ==
  ASSUME NEW cid, NEW c, IsColl(c), CollRows(segs, dels, cid, c), NEW id
  PROVE  /\ Alive(segs, cid, c, id) = LiveSealed(cid, c, id)
         /\ Alive(segs, cid, c, id)
              = {s \in Image(c.segs) : id \in DOMAIN segs[<<cid, s>>] /\ ~SealedDead(c, s, id)}
         /\ \A s, t \in Alive(segs, cid, c, id) : s = t
<1> DEFINE live == {s \in Image(c.segs) : id \in DOMAIN segs[<<cid, s>>] /\ ~SealedDead(c, s, id)}
           holders == {i \in DOMAIN c.segs : id \in DOMAIN segs[<<cid, c.segs[i]>>]}
<1>0. c.segs \in Seq(Nat) /\ Len(c.segs) \in Nat /\ DOMAIN c.segs = 1..Len(c.segs)
  BY DEF IsColl
<1>1. \A s \in live : \E i \in holders : s = c.segs[i]
  BY DEF Image
<1>2. live = LiveSealed(cid, c, id)
  <2>1. CASE id \in DOMAIN c.active
    <3>1. live = {}
      BY <2>1, DeadRow DEF CollRows, SegmentRows
    <3> QED
      BY <2>1, <3>1, Zenon DEF LiveSealed
  <2>2. CASE holders = {}
    <3>1. live = {}
      BY <1>1, <2>2, Zenon
    <3>2. LiveSealed(cid, c, id) = {}
      BY <2>2, Zenon DEF LiveSealed
    <3> QED
      BY <3>1, <3>2
  <2>3. CASE id \notin DOMAIN c.active /\ holders # {}
    <3> DEFINE g == Greatest(holders)
    <3>1. holders \in SUBSET Nat /\ \A i \in holders : i <= Len(c.segs)
      BY <1>0
    <3>2. g \in holders /\ \A i \in holders : i <= g
      <4>1. holders # {} /\ Len(c.segs) \in Nat
        BY <1>0, <2>3
      <4> HIDE DEF holders
      <4> QED
        BY <3>1, <4>1, GreatestProperties, Zenon
    <3>3. LiveSealed(cid, c, id) = {s \in {c.segs[g]} : ~SealedDead(c, s, id)}
      BY <2>3, Zenon DEF LiveSealed
    <3> HIDE DEF g
    <3>4. \A s \in live : s = c.segs[g]
      <4> SUFFICES ASSUME NEW s \in live, s # c.segs[g] PROVE FALSE
        OBVIOUS
      <4>1. PICK i \in holders : s = c.segs[i]
        BY <1>1
      <4>2. i < g /\ i \in DOMAIN c.segs /\ g \in DOMAIN c.segs
        <5>1. i # g
          BY <4>1, Zenon
        <5>2. i \in Nat /\ g \in Nat /\ i <= g
          BY <3>1, <3>2, <4>1, Zenon
        <5>3. i \in DOMAIN c.segs /\ g \in DOMAIN c.segs
          BY <3>2, <4>1, Zenon
        <5> QED
          BY <5>1, <5>2, <5>3
      <4>3. DOMAIN segs[<<cid, c.segs[i]>>] \cap DOMAIN segs[<<cid, c.segs[g]>>] \subseteq c.dead[c.segs[i]]
        BY <4>2 DEF CollRows, OldDead
      <4>4. id \in c.dead[s]
        BY <3>2, <4>1, <4>3
      <4> QED
        BY <4>4, DeadRow
    <3>5. c.segs[g] \in Image(c.segs) /\ id \in DOMAIN segs[<<cid, c.segs[g]>>]
      BY <3>2 DEF Image
    <3> QED
      BY <3>3, <3>4, <3>5
  <2> QED
    BY <2>1, <2>2, <2>3
<1>3. Alive(segs, cid, c, id) = live
  BY DeadRow DEF Alive
<1>4. \A s, t \in LiveSealed(cid, c, id) : s = t
  BY DEF LiveSealed
<1> QED
  BY <1>2, <1>3, <1>4, Zenon

\* A finite union of finite slices is finite.
LEMMA SlicesFinite ==
  ASSUME NEW c, IsColl(c), NEW f, \A s \in Image(c.segs) : IsFiniteSet(f[s])
  PROVE  IsFiniteSet(UNION {{s} \X f[s] : s \in Image(c.segs)})
<1> DEFINE I == Image(c.segs)
           P == {{s} \X f[s] : s \in I}
<1>1. c.segs \in Seq(Nat) /\ Len(c.segs) \in Nat /\ DOMAIN c.segs = 1..Len(c.segs)
  BY DEF IsColl
<1>2. IsFiniteSet(1..Len(c.segs))
  BY <1>1, FS_Interval
<1> DEFINE g == [i \in 1..Len(c.segs) |-> {c.segs[i]} \X f[c.segs[i]]]
<1>3. g \in Surjection(1..Len(c.segs), P)
  BY <1>1, Zenon DEF Surjection, Image
<1>4. IsFiniteSet(P)
  <2> HIDE DEF P, g
  <2> QED
    BY <1>2, <1>3, FS_Surjection
<1>5. \A Q \in P : IsFiniteSet(Q)
  <2>1. ASSUME NEW s \in I PROVE IsFiniteSet({s} \X f[s])
    <3>1. IsFiniteSet({s}) /\ IsFiniteSet(f[s])
      BY FS_Singleton, Zenon
    <3> QED
      BY <3>1, FS_Product, Zenon
  <2> QED
    BY <2>1, Zenon
<1> HIDE DEF P
<1>6. IsFiniteSet(UNION P)
  BY <1>4, <1>5, FS_UNION
<1> QED
  BY <1>6 DEF P

\* The count taken from the bitmaps is the number of live ids.
LEMMA CountIsExact ==
  ASSUME NEW cid, NEW c, IsColl(c), CollRows(segs, dels, cid, c),
         \A s \in Image(c.segs) : IsFiniteSet(DOMAIN segs[<<cid, s>>]) /\ DOMAIN segs[<<cid, s>>] \subseteq Ids
  PROVE  /\ LiveLen(cid, c) = Cardinality({id \in Ids : Located(cid, c, id)})
         /\ IsFiniteSet({r[2] : r \in LiveRows(cid, c)})
<1> DEFINE I == Image(c.segs)
           rows == UNION {{s} \X DOMAIN segs[<<cid, s>>] : s \in I}
           dead == UNION {{s} \X c.dead[s] : s \in I}
           scan == LiveRows(cid, c)
           sealed == {r[2] : r \in scan}
           located == {id \in Ids : Located(cid, c, id)}
<1>1. IsFiniteSet(rows)
  <2> DEFINE f == [s \in I |-> DOMAIN segs[<<cid, s>>]]
  <2>1. IsFiniteSet(UNION {{s} \X f[s] : s \in I})
    <3>1. \A s \in I : IsFiniteSet(f[s])
      OBVIOUS
    <3> HIDE DEF f
    <3> QED
      BY <3>1, SlicesFinite
  <2>2. {{s} \X f[s] : s \in I} = {{s} \X DOMAIN segs[<<cid, s>>] : s \in I}
    OBVIOUS
  <2> QED
    BY <2>1, <2>2, Zenon
<1>2. dead \subseteq rows /\ c.win \subseteq rows /\ dead \cap c.win = {}
  <2>1. \A s \in I : /\ c.dead[s] \subseteq DOMAIN segs[<<cid, s>>]
                     /\ WinOf(c, s) \subseteq DOMAIN segs[<<cid, s>>] \ c.dead[s]
    BY DEF CollRows, SegmentRows
  <2>2. \A r \in c.win : r = <<r[1], r[2]>> /\ r[1] \in I /\ r[2] \in WinOf(c, r[1])
    BY CollFacts DEF IsColl, WinOf
  <2>3. dead \subseteq rows
    BY <2>1
  <2>4. c.win \subseteq rows
    BY <2>1, <2>2
  <2>5. ASSUME NEW r \in dead, r \in c.win PROVE FALSE
    <3>1. r[2] \in c.dead[r[1]] /\ r[1] \in I
      OBVIOUS
    <3> QED
      BY <2>1, <2>2, <2>5, <3>1, Zenon
  <2> QED
    BY <2>3, <2>4, <2>5, Zenon
<1>3. scan = (rows \ dead) \ c.win
  <2>1. ASSUME NEW r \in scan PROVE r \in (rows \ dead) \ c.win
    <3>1. /\ r = <<r[1], r[2]>> /\ r[1] \in I /\ r[2] \in DOMAIN segs[<<cid, r[1]>>]
          /\ r[2] \notin c.dead[r[1]] /\ r \notin c.win
      BY <2>1 DEF LiveRows, SealedDead
    <3>2. r \in rows
      BY <3>1
    <3>3. r \notin dead
      BY <3>1
    <3> QED
      BY <3>1, <3>2, <3>3
  <2>2. ASSUME NEW r \in rows, r \notin dead, r \notin c.win PROVE r \in scan
    <3>1. PICK s \in I : r \in {s} \X DOMAIN segs[<<cid, s>>]
      BY <2>2
    <3>2. r = <<s, r[2]>> /\ r[1] = s /\ r[2] \in DOMAIN segs[<<cid, s>>]
      BY <3>1
    <3>3. r[2] \notin c.dead[s]
      BY <2>2, <3>2
    <3>4. r[2] \in Ids
      BY <3>2
    <3> QED
      BY <2>2, <3>2, <3>3, <3>4 DEF LiveRows, SealedDead
  <2> QED
    BY <2>1, <2>2, Zenon
<1> HIDE DEF rows, dead, scan
<1>4. /\ IsFiniteSet(scan)
      /\ Cardinality(scan) = (Cardinality(rows) - Cardinality(dead)) - Cardinality(c.win)
  <2>1. /\ IsFiniteSet(rows \ dead)
        /\ Cardinality(rows \ dead) = Cardinality(rows) - Cardinality(rows \cap dead)
    BY <1>1, FS_Difference, Zenon
  <2>2. /\ IsFiniteSet((rows \ dead) \ c.win)
        /\ Cardinality((rows \ dead) \ c.win)
             = Cardinality(rows \ dead) - Cardinality((rows \ dead) \cap c.win)
    BY <2>1, FS_Difference, Zenon
  <2>3. rows \cap dead = dead /\ (rows \ dead) \cap c.win = c.win
    BY <1>2
  <2> QED
    BY <1>3, <2>1, <2>2, <2>3
<1>5. \A p, q \in scan : p[2] = q[2] => p = q
  <2> SUFFICES ASSUME NEW p \in scan, NEW q \in scan, p[2] = q[2] PROVE p = q
    OBVIOUS
  <2>1. /\ p = <<p[1], p[2]>> /\ q = <<q[1], q[2]>>
        /\ p[1] \in {s \in I : p[2] \in DOMAIN segs[<<cid, s>>] /\ ~SealedDead(c, s, p[2])}
        /\ q[1] \in {s \in I : p[2] \in DOMAIN segs[<<cid, s>>] /\ ~SealedDead(c, s, p[2])}
    BY DEF scan, LiveRows
  <2>2. p[1] \in LiveSealed(cid, c, p[2]) /\ q[1] \in LiveSealed(cid, c, p[2])
    BY <2>1, ScanFindsNewest
  <2>3. p[1] = q[1]
    BY <2>2, Zenon DEF LiveSealed
  <2> QED
    BY <2>1, <2>3
<1>6. IsFiniteSet(sealed) /\ Cardinality(sealed) = Cardinality(scan)
  <2> DEFINE f == [r \in scan |-> r[2]]
  <2>1. f \in Surjection(scan, sealed)
    BY DEF Surjection
  <2>2. f \in Injection(scan, sealed)
    BY <1>5 DEF Injection, IsInjective
  <2> HIDE DEF f, sealed
  <2> QED
    BY <1>4, <2>1, <2>2, FS_Surjection
<1>7. located = DOMAIN c.active \cup sealed /\ DOMAIN c.active \cap sealed = {}
  <2>1. \A id : id \in sealed <=> LiveSealed(cid, c, id) # {}
    <3> TAKE id
    <3> DEFINE live == {s \in I : id \in DOMAIN segs[<<cid, s>>] /\ ~SealedDead(c, s, id)}
    <3>1. live = LiveSealed(cid, c, id)
      BY ScanFindsNewest
    <3>2. id \in sealed => live # {}
      BY Zenon DEF scan, LiveRows
    <3>3. live # {} => id \in sealed
      <4> SUFFICES ASSUME NEW s \in live PROVE id \in sealed
        BY Zenon
      <4>1. <<s, id>> \in scan
        BY DEF scan, LiveRows
      <4> QED
        BY <4>1
    <3> QED
      BY <3>1, <3>2, <3>3, Zenon
  <2>2. sealed \subseteq Ids
    BY Zenon DEF scan, LiveRows
  <2>3. DOMAIN c.active \subseteq Ids
    BY CollFacts, Zenon DEF IsMap, MapOn
  <2>4. \A id \in DOMAIN c.active : LiveSealed(cid, c, id) = {}
    BY Zenon DEF LiveSealed
  <2> HIDE DEF sealed
  <2> QED
    BY <2>1, <2>2, <2>3, <2>4 DEF Located
<1> HIDE DEF sealed, located
<1>8. /\ IsFiniteSet(DOMAIN c.active)
      /\ Cardinality(located) = Cardinality(DOMAIN c.active) + Cardinality(scan)
  <2>1. IsFiniteSet(DOMAIN c.active)
    BY DEF CollRows
  <2>2. Cardinality(DOMAIN c.active \cup sealed)
          = Cardinality(DOMAIN c.active) + Cardinality(sealed) - Cardinality(DOMAIN c.active \cap sealed)
    BY <1>6, <2>1, FS_Union
  <2>3. Cardinality(DOMAIN c.active) \in Nat /\ Cardinality(sealed) \in Nat
    BY <1>6, <2>1, FS_CardinalityType
  <2>4. Cardinality(DOMAIN c.active \cap sealed) = 0
    BY <1>7, FS_EmptySet, Zenon
  <2>5. Cardinality(located) = Cardinality(DOMAIN c.active \cup sealed)
    BY <1>7, Zenon
  <2> QED
    BY <1>6, <2>1, <2>2, <2>3, <2>4, <2>5
<1>9. LiveLen(cid, c) = Cardinality(DOMAIN c.active)
                          + ((Cardinality(rows) - Cardinality(dead)) - Cardinality(c.win))
  BY Zenon DEF LiveLen, rows, dead
<1>10. LiveLen(cid, c) = Cardinality(located)
  BY <1>4, <1>8, <1>9
<1> QED
  BY <1>6, <1>10, Zenon DEF located, sealed, scan

\* The three read paths agree wherever the invariant holds.
LEMMA RowsAgree == StoreInv /\ RowsInv => ReadPathsAgree
<1> SUFFICES ASSUME StoreInv, RowsInv, NEW cid \in DOMAIN colls
             PROVE  LET c == colls[cid]
                        scan == LiveRows(cid, c)
                    IN  /\ \A id \in Ids :
                             {r[1] : r \in {x \in scan : x[2] = id}} = LiveSealed(cid, c, id)
                        /\ LiveLen(cid, c) = Cardinality({id \in Ids : Located(cid, c, id)})
  BY DEF ReadPathsAgree
<1> DEFINE c == colls[cid]
           scan == LiveRows(cid, c)
<1>1. IsColl(c) /\ CollRows(segs, dels, cid, c)
  BY TypeFacts DEF CollsOK, RowsInv, MemRows
<1>2. \A s \in Image(c.segs) : <<cid, s>> \in DOMAIN segs
  BY DEF StoreInv, FilesInv, OnDisk
<1>3. \A f \in DOMAIN segs : IsFiniteSet(DOMAIN segs[f]) /\ DOMAIN segs[f] \subseteq Ids
  BY DEF StoreInv, TypeOK, IsMap, MapOn, RowsInv, DiskRows
<1> HIDE DEF c
<1>4. LiveLen(cid, c) = Cardinality({id \in Ids : Located(cid, c, id)})
  BY <1>1, <1>2, <1>3, CountIsExact, Zenon
<1>5. ASSUME NEW id \in Ids
      PROVE  {r[1] : r \in {x \in scan : x[2] = id}} = LiveSealed(cid, c, id)
  <2> DEFINE live == {s \in Image(c.segs) : id \in DOMAIN segs[<<cid, s>>] /\ ~SealedDead(c, s, id)}
             found == {r[1] : r \in {x \in scan : x[2] = id}}
  <2>1. live = LiveSealed(cid, c, id)
    BY <1>1, ScanFindsNewest
  <2>2. \A s \in found : s \in live
    BY Zenon DEF LiveRows
  <2>3. ASSUME NEW s \in live PROVE s \in found
    <3>1. <<s, id>> \in scan
      BY DEF LiveRows
    <3> QED
      BY <3>1
  <2> QED
    BY <2>1, <2>2, <2>3, Zenon
<1> QED
  BY <1>4, <1>5 DEF c

-----------------------------------------------------------------------------
(* The invariant and the operations on one collection.                     *)

\* What a collection says of its rows depends on the files of its own segments only.
SameFiles(S, D, T, E, cid, list) ==
  \A s \in Image(list) : T[<<cid, s>>] = S[<<cid, s>>] /\ Marked(E, <<cid, s>>) = Marked(D, <<cid, s>>)
LEMMA SameRows ==
  ASSUME NEW S, NEW D, NEW T, NEW E, NEW cid, NEW c, CollRows(S, D, cid, c),
         SameFiles(S, D, T, E, cid, c.segs)
  PROVE  CollRows(T, E, cid, c)
<1>0. \A s \in Image(c.segs) : T[<<cid, s>>] = S[<<cid, s>>] /\ Marked(E, <<cid, s>>) = Marked(D, <<cid, s>>)
  BY DEF SameFiles
<1>1. \A i \in DOMAIN c.segs : c.segs[i] \in Image(c.segs)
  BY DEF Image
<1>2. OldDead(T, cid, c.segs, c.dead)
  BY <1>0, <1>1 DEF CollRows, OldDead
<1>3. \A s \in Image(c.segs) : SegmentRows(T, E, cid, c, s)
  BY <1>0, Zenon DEF CollRows, SegmentRows
<1> QED
  BY <1>2, <1>3, Zenon DEF CollRows

\* Marking more rows keeps the older rows marked.
LEMMA OldDeadGrows ==
  ASSUME NEW S, NEW T, NEW cid, NEW list, NEW dead, NEW more, OldDead(S, cid, list, dead),
         \A s \in Image(list) : T[<<cid, s>>] = S[<<cid, s>>] /\ dead[s] \subseteq more[s]
  PROVE  OldDead(T, cid, list, more)
<1>1. \A i \in DOMAIN list : list[i] \in Image(list)
  BY DEF Image
<1> QED
  BY <1>1 DEF OldDead

\* An upsert keeps the rows of a collection in order: the row it replaces joins the window.
LEMMA UpsertRows ==
  ASSUME NEW cid, NEW c, IsColl(c), CollRows(segs, dels, cid, c), NEW id \in Ids, NEW v \in Vals
  PROVE  CollRows(segs, dels, cid, ApplyUpsert(cid, c, id, v))
<1> DEFINE d == ApplyUpsert(cid, c, id, v)
           old == LiveSealed(cid, c, id)
<1>1. /\ d.segs = c.segs /\ d.dead = c.dead /\ d.active = Put(c.active, id, v)
      /\ d.win = c.win \cup {<<s, id>> : s \in old}
  BY DEF ApplyUpsert, IsColl
<1>2. old = {s \in Image(c.segs) : id \in DOMAIN segs[<<cid, s>>] /\ ~SealedDead(c, s, id)}
  BY ScanFindsNewest
<1>0. IsColl(d)
  BY ApplyUpsertType
<1> HIDE DEF d, old
<1>3. \A s : WinOf(d, s) = WinOf(c, s) \cup {x \in {id} : s \in old}
  <2>1. \A s, x : <<s, x>> \in d.win <=> <<s, x>> \in c.win \/ (x = id /\ s \in old)
    BY <1>1
  <2>2. \A s, x : x \in WinOf(d, s) <=> x \in WinOf(c, s) \/ (x = id /\ s \in old)
    BY <1>0, <2>1, WinMember, Zenon
  <2> QED
    BY <2>2
<1>4. DOMAIN d.active = DOMAIN c.active \cup {id}
  <2>1. DOMAIN Put(c.active, id, v) = DOMAIN c.active \cup {id}
    BY PutProperties, Zenon
  <2> QED
    BY <1>1, <2>1, Zenon
<1>5. IsFiniteSet(DOMAIN d.active)
  BY <1>4, FS_AddElement DEF CollRows
<1>6. ASSUME NEW s \in Image(c.segs) PROVE SegmentRows(segs, dels, cid, d, s)
  <2>1. SegmentRows(segs, dels, cid, c, s)
    BY DEF CollRows
  <2>2. s \in old <=> id \in DOMAIN segs[<<cid, s>>] /\ id \notin c.dead[s] \cup WinOf(c, s)
    BY <1>2, DeadRow
  <2>3. /\ d.dead[s] = c.dead[s]
        /\ \A x : x \in WinOf(d, s) <=> x \in WinOf(c, s) \/ (x = id /\ s \in old)
        /\ \A x : x \in DOMAIN d.active <=> x \in DOMAIN c.active \/ x = id
    BY <1>1, <1>3, <1>4
  <2> QED
    BY <2>1, <2>2, <2>3, SMT DEF SegmentRows
<1>7. OldDead(segs, cid, d.segs, d.dead)
  BY <1>1 DEF CollRows
<1> QED
  BY <1>1, <1>5, <1>6, <1>7 DEF CollRows, d

\* So does a delete: a row of the buffer leaves it, a sealed one joins the window.
LEMMA DeleteRows ==
  ASSUME NEW cid, NEW c, IsColl(c), CollRows(segs, dels, cid, c), NEW id \in Ids
  PROVE  CollRows(segs, dels, cid, ApplyDelete(cid, c, id))
<1> DEFINE d == ApplyDelete(cid, c, id)
           old == LiveSealed(cid, c, id)
<1>1. d.segs = c.segs /\ d.dead = c.dead
  BY DEF ApplyDelete, IsColl
<1>2. OldDead(segs, cid, d.segs, d.dead)
  BY <1>1 DEF CollRows
<1>3. CASE id \in DOMAIN c.active
  <2>1. d.win = c.win /\ d.active = Without(c.active, {id})
    BY <1>3 DEF ApplyDelete, IsColl
  <2>2. DOMAIN d.active = DOMAIN c.active \ {id}
    BY <2>1, WithoutProperties, Zenon
  <2>3. IsFiniteSet(DOMAIN d.active)
    BY <2>2, FS_RemoveElement DEF CollRows
  <2>4. \A s : WinOf(d, s) = WinOf(c, s)
    BY <2>1 DEF WinOf
  <2> HIDE DEF d
  <2>5. \A s \in Image(c.segs) : SegmentRows(segs, dels, cid, d, s)
    BY <1>1, <2>2, <2>4 DEF CollRows, SegmentRows
  <2> QED
    BY <1>1, <1>2, <2>3, <2>5 DEF CollRows, d
<1>4. CASE id \notin DOMAIN c.active
  <2>1. d.win = c.win \cup {<<s, id>> : s \in old} /\ d.active = c.active
    BY <1>4 DEF ApplyDelete, IsColl
  <2>2. old = {s \in Image(c.segs) : id \in DOMAIN segs[<<cid, s>>] /\ ~SealedDead(c, s, id)}
    BY ScanFindsNewest
  <2>0. IsColl(d)
    BY ApplyDeleteType
  <2> HIDE DEF d, old
  <2>3. \A s : WinOf(d, s) = WinOf(c, s) \cup {x \in {id} : s \in old}
    <3>1. \A s, x : <<s, x>> \in d.win <=> <<s, x>> \in c.win \/ (x = id /\ s \in old)
      BY <2>1
    <3>2. \A s, x : x \in WinOf(d, s) <=> x \in WinOf(c, s) \/ (x = id /\ s \in old)
      BY <2>0, <3>1, WinMember, Zenon
    <3> QED
      BY <3>2
  <2>4. ASSUME NEW s \in Image(c.segs) PROVE SegmentRows(segs, dels, cid, d, s)
    <3>1. SegmentRows(segs, dels, cid, c, s)
      BY DEF CollRows
    <3>2. s \in old <=> id \in DOMAIN segs[<<cid, s>>] /\ id \notin c.dead[s] \cup WinOf(c, s)
      BY <2>2, DeadRow
    <3> QED
      BY <1>1, <2>1, <2>3, <3>1, <3>2 DEF SegmentRows
  <2> QED
    BY <1>1, <1>2, <2>1, <2>4 DEF CollRows, d
<1> QED
  BY <1>3, <1>4

\* Applying a record, from a call or from the log, keeps every collection's rows in order.
LEMMA AppliedRows ==
  ASSUME NEW cs, CollsOK(cs), NEW e \in Frame,
         \A c \in DOMAIN cs : CollRows(segs, dels, c, cs[c])
  PROVE  \A c \in DOMAIN AppliedColls(cs, e) : CollRows(segs, dels, c, AppliedColls(cs, e)[c])
<1>1. CASE e.op = "create"
  <2>1. AppliedColls(cs, e) = Put(cs, e.cid, NewColl(e.name))
    BY <1>1 DEF AppliedColls
  <2>2. CollRows(segs, dels, e.cid, NewColl(e.name))
    <3>1. DOMAIN << >> = {} /\ Image(<< >>) = {}
      BY DEF Image
    <3> QED
      BY <3>1, EmptyMapProperties, FS_EmptySet, Zenon DEF CollRows, OldDead, NewColl
  <2> QED
    BY <2>1, <2>2 DEF Put
<1>2. CASE e.op = "drop"
  <2>1. AppliedColls(cs, e) = Without(cs, {e.cid})
    BY <1>2 DEF AppliedColls
  <2> QED
    BY <2>1 DEF Without
<1>3. CASE e.op = "upsert"
  <2>1. e.id \in Ids /\ e.val \in Vals
    BY <1>3 DEF Frame
  <2>2. AppliedColls(cs, e)
          = [c \in DOMAIN cs |-> IF c = e.cid THEN ApplyUpsert(c, cs[c], e.id, e.val) ELSE cs[c]]
    BY <1>3 DEF AppliedColls
  <2>3. \A c \in DOMAIN cs : CollRows(segs, dels, c, ApplyUpsert(c, cs[c], e.id, e.val))
    BY <2>1, UpsertRows DEF CollsOK
  <2> QED
    BY <2>2, <2>3, Zenon
<1>4. CASE e.op = "delete"
  <2>1. e.id \in Ids
    BY <1>4 DEF Frame
  <2>2. AppliedColls(cs, e)
          = [c \in DOMAIN cs |-> IF c = e.cid THEN ApplyDelete(c, cs[c], e.id) ELSE cs[c]]
    BY <1>4 DEF AppliedColls
  <2>3. \A c \in DOMAIN cs : CollRows(segs, dels, c, ApplyDelete(c, cs[c], e.id))
    BY <2>1, DeleteRows DEF CollsOK
  <2> QED
    BY <2>2, <2>3, Zenon
<1> QED
  BY <1>1, <1>2, <1>3, <1>4 DEF Frame

-----------------------------------------------------------------------------
(* The steps that leave the segments, the bitmaps and the manifest alone.  *)

KeepsFiles ==
  /\ manifest'.colls = manifest.colls /\ manifest'.seg = manifest.seg
  /\ segs' = segs /\ dels' = dels /\ dirs \subseteq dirs'
  /\ pc' # "down" => pc # "down" /\ ctr'.seg = ctr.seg
  /\ Settled' => Settled
  /\ pc' = "replay" => pc = "replay" /\ job'.opening = job.opening

\* Such a step keeps what the invariant says of the disk.
LEMMA KeepsFilesRows == SegIds /\ DiskRows /\ KeepsFiles => SegIds' /\ DiskRows'
<1> SUFFICES ASSUME SegIds, DiskRows, KeepsFiles PROVE SegIds' /\ DiskRows'
  OBVIOUS
<1>1. SegIds'
  <2>1. SegFiles' = SegFiles
    BY DEF SegFiles, KeepsFiles
  <2>2. \A f \in SegFiles' : f[1] \in dirs'
    BY <2>1, Zenon DEF SegIds, KeepsFiles
  <2>3. \A c \in DOMAIN manifest'.colls : \A s \in Image(manifest'.colls[c].segs) : s < manifest'.seg
    BY Zenon DEF SegIds, KeepsFiles
  <2>4. pc' # "down" => manifest'.seg <= ctr'.seg
    BY Zenon DEF SegIds, KeepsFiles
  <2>5. Settled' => \A f \in SegFiles' : f[2] < ctr'.seg
    <3>1. Settled' => pc' # "down"
      BY DEF Settled
    <3> QED
      BY <2>1, <3>1, Zenon DEF SegIds, KeepsFiles
  <2>6. pc' = "replay" => job'.opening
    BY Zenon DEF SegIds, KeepsFiles
  <2> QED
    BY <2>2, <2>3, <2>4, <2>5, <2>6 DEF SegIds
<1>2. DiskRows'
  BY Zenon DEF DiskRows, KeepsFiles
<1> QED
  BY <1>1, <1>2

\* Away from the seal and the merge nothing is said of the job.
LEMMA NoSealRows == StoreInv' /\ pc' \notin {"seal", "merged"} => SealRows'
<1> SUFFICES ASSUME StoreInv', pc' \notin {"seal", "merged"} PROVE SealRows'
  OBVIOUS
<1>1. DOMAIN job'.new = {}
  BY Zenon DEF StoreInv, JobInv
<1> QED
  BY <1>1, Zenon DEF SealRows

\* A step beside the seal or the merge.
LEMMA SameSealRows ==
  ASSUME SealRows, pc' = pc, colls' = colls, segs' = segs, dels' = dels,
         job'.dels = job.dels, job'.todo = job.todo, job'.new = job.new
  PROVE  SealRows'
  BY Zenon DEF SealRows

\* The collections in memory stay, and so do their files.
LEMMA SameMemRows == MemRows /\ KeepsFiles /\ colls' = colls => MemRows'
  BY DEF MemRows, KeepsFiles

\* A checkpoint begins with the window to be written and the buffers to be sealed.
LEMMA CheckpointRows ==
  ASSUME StoreInv, RowsInv, NEW blobs, Checkpoint(blobs)
  PROVE  SealRows'
<1> DEFINE win(c) == {<<c, r[1]>> : r \in colls[c].win}
<1>1. /\ pc' = "seal" /\ UNCHANGED <<colls, segs, dels>>
      /\ job'.todo = Pending /\ job'.dels = UNION {win(c) : c \in Pending} /\ job'.new = EmptyMap
  BY DEF Checkpoint, NoJob, disk, mem
<1>2. \A c \in DOMAIN colls : IsColl(colls[c])
  BY TypeFacts DEF CollsOK
<1>3. \A d \in job'.dels : d[1] \in job'.todo
  BY <1>1
<1>4. ASSUME NEW c \in DOMAIN colls, NEW s \in Image(colls[c].segs), NEW x \in WinOf(colls[c], s)
      PROVE  <<c, s>> \in job'.dels
  <2>1. <<s, x>> \in colls[c].win
    BY <1>2, <1>4, WinMember
  <2>2. c \in Pending
    BY <2>1 DEF Pending, HasPending
  <2>3. <<c, s>> \in win(c)
    BY <2>1
  <2> HIDE DEF win
  <2> QED
    BY <1>1, <2>2, <2>3
<1>5. \A c \in DOMAIN colls \ job'.todo : DOMAIN colls[c].active = {}
  BY <1>1 DEF Pending, HasPending
<1>6. DOMAIN job'.new = {}
  BY <1>1, EmptyMapProperties
<1> QED
  BY <1>1, <1>3, <1>4, <1>5, <1>6 DEF SealRows

\* The steps that touch neither the files nor the collections.
LEMMA QuietRows ==
  ASSUME StoreInv, RowsInv,
         \/ Mutate \/ SyncWal \/ (\E blobs : Checkpoint(blobs)) \/ WriteIndexSnapshot
         \/ RewriteManifest \/ RotateWal \/ TrimWal \/ GcShredKey \/ GcIndexSnapshot
         \/ ShredKey \/ Compact \/ ReplayDone \/ StartWal \/ AppendFails \/ SealFails
         \/ RotateFails \/ UNCHANGED vars
  PROVE  KeepsFiles /\ colls' = colls
<1>1. ctr \in CtrType /\ manifest \in [version : Nat, floor : Nat, cid : Nat, seg : Nat,
                                       intact : BOOLEAN, colls : {manifest.colls}]
  BY TypeFacts DEF StoreInv, TypeOK
<1>2. /\ UNCHANGED <<colls, segs, dels>> /\ dirs \subseteq dirs'
      /\ manifest' = manifest \/ manifest' = [manifest EXCEPT !.intact = FALSE]
      /\ ctr' = ctr \/ \E k : \/ ctr' = [ctr EXCEPT !.lsn = k]
                              \/ ctr' = [ctr EXCEPT !.walSeq = k]
  BY Zenon DEF Mutate, CreateCollection, DropCollection, ShredCollection, DropWith, Delete, Upsert,
         UpsertBatch, Begin, SyncWal, Checkpoint, WriteIndexSnapshot, RewriteManifest,
         RotateWal, TrimWal, GcShredKey, GcIndexSnapshot, ShredKey, Compact, ReplayDone,
         StartWal, AppendFails, SealFails, RotateFails, Fails, disk, mem, vars
<1>3. \/ pc \notin {"down", "replay", "gc"} /\ pc' \notin {"down", "replay"}
      \/ pc' = pc /\ job' = job
      \/ pc = "replay" /\ pc' = "gc" /\ job' = job
  <2>1. CASE Mutate
    <3>1. pc = "idle" /\ pc' = "sync"
      BY <2>1, Zenon DEF Mutate, CreateCollection, DropCollection, ShredCollection, DropWith, Delete,
                Upsert, UpsertBatch, Begin
    <3> QED
      BY <3>1
  <2>2. CASE SyncWal \/ (\E blobs : Checkpoint(blobs)) \/ WriteIndexSnapshot \/ RewriteManifest
    BY <2>2, Zenon DEF SyncWal, Checkpoint, WriteIndexSnapshot, RewriteManifest, ReadyToSwap
  <2>3. CASE RotateWal \/ TrimWal \/ ShredKey \/ Compact \/ StartWal
    BY <2>3 DEF RotateWal, TrimWal, ShredKey, Compact, StartWal
  <2>4. CASE AppendFails \/ SealFails \/ RotateFails
    BY <2>4 DEF AppendFails, SealFails, RotateFails, Fails
  <2>5. CASE GcShredKey \/ GcIndexSnapshot \/ ReplayDone \/ UNCHANGED vars
    BY <2>5 DEF GcShredKey, GcIndexSnapshot, ReplayDone, vars
  <2> QED
    BY <2>1, <2>2, <2>3, <2>4, <2>5, Zenon
<1>4. ctr'.seg = ctr.seg
  BY <1>1, <1>2 DEF CtrType
<1>5. manifest'.colls = manifest.colls /\ manifest'.seg = manifest.seg
  BY <1>1, <1>2
<1>6. /\ pc' # "down" => pc # "down"
      /\ Settled' => Settled
      /\ pc' = "replay" => pc = "replay" /\ job'.opening = job.opening
  BY <1>3 DEF Settled, RowsInv, SegIds
<1> QED
  BY <1>2, <1>4, <1>5, <1>6, Zenon DEF KeepsFiles

\* They keep the invariant.
LEMMA QuietRowsInv ==
  ASSUME StoreInv, StoreInv', RowsInv,
         \/ Mutate \/ SyncWal \/ (\E blobs : Checkpoint(blobs)) \/ WriteIndexSnapshot
         \/ RewriteManifest \/ RotateWal \/ TrimWal \/ GcShredKey \/ GcIndexSnapshot
         \/ ShredKey \/ Compact \/ ReplayDone \/ StartWal \/ AppendFails \/ SealFails
         \/ RotateFails \/ UNCHANGED vars
  PROVE  RowsInv'
<1>1. KeepsFiles /\ colls' = colls
  BY QuietRows
<1>2. SegIds' /\ DiskRows' /\ MemRows'
  BY <1>1, KeepsFilesRows, SameMemRows DEF RowsInv
<1>3. CASE \E blobs : Checkpoint(blobs)
  BY <1>2, <1>3, CheckpointRows DEF RowsInv
<1>4. CASE WriteIndexSnapshot \/ RewriteManifest \/ UNCHANGED vars
  <2>1. IsJob(job)
    BY TypeFacts
  <2>2. pc' = pc /\ (job' = job \/ \E b, n : job' = [job EXCEPT !.blobs = b, !.snaps = n])
    BY <1>4, Zenon DEF WriteIndexSnapshot, RewriteManifest, vars, mem
  <2>3. job'.dels = job.dels /\ job'.todo = job.todo /\ job'.new = job.new
    BY <2>1, <2>2, Zenon DEF IsJob
  <2> QED
    BY <1>1, <1>2, <2>2, <2>3, SameSealRows, Zenon DEF RowsInv, KeepsFiles
<1>5. CASE \/ Mutate \/ SyncWal \/ RotateWal \/ TrimWal \/ GcShredKey \/ GcIndexSnapshot
           \/ ShredKey \/ Compact \/ ReplayDone \/ StartWal \/ AppendFails \/ SealFails
           \/ RotateFails
  <2>1. pc' \notin {"seal", "merged"}
    <3>1. CASE Mutate
      <4>1. \E frames, n, shred : Begin(frames, n, shred)
        BY <3>1, Zenon DEF Mutate, CreateCollection, DropCollection, ShredCollection, DropWith,
             Delete, Upsert, UpsertBatch
      <4> QED
        BY <4>1, Zenon DEF Begin
    <3>2. CASE SyncWal \/ ShredKey \/ Compact \/ ReplayDone \/ StartWal
      <4>1. pc' \in {"apply", "idle", "compact", "gc", "trim"}
        BY <3>2 DEF SyncWal, ShredKey, Compact, ReplayDone, StartWal
      <4> QED
        BY <4>1
    <3>3. CASE TrimWal \/ GcShredKey \/ GcIndexSnapshot
      BY <3>3, Zenon DEF TrimWal, GcShredKey, GcIndexSnapshot
    <3>4. CASE AppendFails \/ SealFails \/ RotateFails
      BY <3>4, Zenon DEF AppendFails, SealFails, RotateFails, Fails
    <3>5. CASE RotateWal
      BY <3>5, Zenon DEF RotateWal
    <3> QED
      BY <1>5, <3>1, <3>2, <3>3, <3>4, <3>5, Zenon
  <2> QED
    BY <1>2, <2>1, NoSealRows DEF RowsInv
<1> QED
  BY <1>3, <1>4, <1>5, Zenon

-----------------------------------------------------------------------------
(* The steps that apply a record.                                          *)

\* Applying the next record of a call, or of the log, keeps the invariant.
LEMMA ApplyRows ==
  ASSUME StoreInv, StoreInv', RowsInv, ApplyFrame \/ ReplayFrame
  PROVE  RowsInv'
<1>1. ctr \in CtrType /\ IsJob(job) /\ CollsOK(colls)
  BY TypeFacts
<1>2. /\ \E e \in Frame : colls' = AppliedColls(colls, e)
      /\ UNCHANGED <<manifest, segs, dels, dirs>> /\ ctr'.seg = ctr.seg
      /\ \/ pc = "apply" /\ pc' \notin {"down", "replay", "gc", "seal", "merged"}
         \/ pc = "replay" /\ pc' = "replay" /\ job'.opening = job.opening
  <2>1. CASE ApplyFrame
    <3>1. /\ pc = "apply" /\ UNCHANGED <<manifest, segs, dels, dirs>>
          /\ colls' = AppliedColls(colls, Head(job.batch))
          /\ ctr' = ctr \/ ctr' = [ctr EXCEPT !.cid = @ + 1]
      BY <2>1 DEF ApplyFrame, disk
    <3>2. pc' \in {"apply", "idle", "checkpoint"}
      BY <2>1 DEF ApplyFrame
    <3>3. Head(job.batch) \in Frame
      <4>1. job.batch \in Seq(Frame) /\ job.batch # << >>
        BY <1>1, <3>1 DEF IsJob, StoreInv, JobInv
      <4> QED
        BY <4>1
    <3>4. ctr'.seg = ctr.seg
      BY <1>1, <3>1 DEF CtrType
    <3> QED
      BY <3>1, <3>2, <3>3, <3>4
  <2>2. CASE ReplayFrame
    <3> DEFINE t == First(job.rest)
               e == wal[t[1]][t[2]]
    <3>1. /\ pc = "replay" /\ pc' = pc /\ job.rest # {} /\ UNCHANGED <<manifest, segs, dels, dirs>>
          /\ colls' = AppliedColls(colls, e)
          /\ \E k, l : ctr' = [ctr EXCEPT !.lsn = k, !.cid = l]
          /\ job' = [job EXCEPT !.rest = @ \ {t}]
      BY <2>2, Zenon DEF ReplayFrame, disk
    <3>2. e \in Frame
      <4>1. job.rest \in SUBSET (Nat \X Nat) /\ job.rest \subseteq WalTail
        BY <1>1, <3>1, Zenon DEF IsJob, StoreInv, JobInv
      <4>2. t \in WalTail
        BY <3>1, <4>1, FirstProperties
      <4> HIDE DEF t
      <4> QED
        BY <4>2, WalTailType, Zenon
    <3> HIDE DEF t, e
    <3>3. ctr'.seg = ctr.seg
      BY <1>1, <3>1 DEF CtrType
    <3>4. job'.opening = job.opening
      BY <1>1, <3>1, Zenon DEF IsJob
    <3> QED
      BY <3>1, <3>2, <3>3, <3>4, Zenon
  <2> QED
    BY <2>1, <2>2
<1>3. KeepsFiles
  <2>1. Settled' => Settled
    BY <1>2 DEF Settled
  <2> QED
    BY <1>2, <2>1 DEF KeepsFiles
<1>4. MemRows'
  BY <1>1, <1>2, AppliedRows DEF MemRows, RowsInv
<1>5. SealRows'
  BY <1>2, NoSealRows
<1> QED
  BY <1>3, <1>4, <1>5, KeepsFilesRows DEF RowsInv

-----------------------------------------------------------------------------
(* A checkpoint on its way to the swap.                                    *)

\* Writing one bitmap keeps the invariant: what it adds is the window's.
LEMMA WriteDelRows ==
  ASSUME StoreInv, RowsInv, WriteDel
  PROVE  RowsInv'
<1> DEFINE cid == Least(job.todo)
           mine == {d \in job.dels : d[1] = cid}
           s == Least({d[2] : d \in mine})
           f == <<cid, s>>
<1>1. /\ pc = "seal" /\ pc' = pc /\ job.todo # {} /\ mine # {} /\ dirs' = dirs \cup {cid}
      /\ dels' = Put(dels, f, colls[cid].dead[s] \cup WinOf(colls[cid], s))
      /\ job' = [job EXCEPT !.dels = @ \ {f}]
      /\ UNCHANGED <<manifest, segs, colls, ctr>>
  BY DEF WriteDel, Sealing, WinOf, mem
<1>2. IsJob(job) /\ CollsOK(colls) /\ job.dels \in SUBSET (Nat \X Nat)
  BY TypeFacts DEF IsJob
<1>3. cid \in job.todo /\ cid \in DOMAIN colls
  <2>1. job.todo \in SUBSET Nat /\ job.todo \subseteq DOMAIN colls
    BY <1>1, <1>2 DEF StoreInv, JobInv, IsJob
  <2> QED
    BY <1>1, <2>1, LeastProperties
<1> HIDE DEF cid
<1>4. f \in job.dels
  <2>1. {d[2] : d \in mine} \in SUBSET Nat /\ {d[2] : d \in mine} # {}
    BY <1>1, <1>2
  <2>2. s \in {d[2] : d \in mine}
    BY <2>1, LeastProperties, Zenon
  <2> HIDE DEF s
  <2> QED
    BY <1>2, <2>2
<1> HIDE DEF mine, s
<1>5. s \in Image(colls[cid].segs) /\ f \in DOMAIN segs
  <2>1. s \in DOMAIN colls[cid].dead
    BY <1>1, <1>4 DEF StoreInv, JobInv
  <2>2. s \in Image(colls[cid].segs)
    BY <1>2, <1>3, <2>1, CollFacts DEF CollsOK
  <2> QED
    BY <1>3, <2>2 DEF StoreInv, FilesInv, OnDisk
<1>6. SegmentRows(segs, dels, cid, colls[cid], s)
  BY <1>3, <1>5 DEF RowsInv, MemRows, CollRows
<1> DEFINE new == colls[cid].dead[s] \cup WinOf(colls[cid], s)
<1>7. /\ Marked(dels', f) = new /\ Marked(dels, f) \subseteq new /\ new \subseteq DOMAIN segs[f]
      /\ \A g : g # f => Marked(dels', g) = Marked(dels, g)
      /\ DOMAIN dels' = DOMAIN dels \cup {f} /\ dels'[f] = new
      /\ \A g \in DOMAIN dels : g # f => dels'[g] = dels[g]
  <2>1. /\ DOMAIN dels' = DOMAIN dels \cup {f} /\ dels'[f] = new
        /\ \A g \in DOMAIN dels : g # f => dels'[g] = dels[g]
    <3>1. dels' = Put(dels, f, new)
      BY <1>1
    <3> HIDE DEF f, new
    <3> QED
      BY <3>1 DEF Put
  <2>2. Marked(dels, f) \subseteq new /\ new \subseteq DOMAIN segs[f]
    BY <1>6 DEF SegmentRows
  <2> HIDE DEF f, new
  <2> QED
    BY <2>1, <2>2 DEF Marked
<1>8. \A g : Marked(dels, g) \subseteq Marked(dels', g)
  BY <1>7
<1> HIDE DEF new
<1>9. /\ job'.dels = job.dels \ {f} /\ job'.todo = job.todo /\ job'.new = job.new
      /\ job'.opening = job.opening
  BY <1>1, <1>2, Zenon DEF IsJob
<1>10. SegIds'
  <2>1. Settled /\ SegIds
    BY <1>1 DEF Settled, RowsInv
  <2>2. SegFiles' = SegFiles
    BY <1>1, <1>5, <1>7 DEF SegFiles
  <2>3. \A g \in SegFiles' : g[1] \in dirs'
    BY <1>1, <2>1, <2>2 DEF SegIds
  <2> QED
    BY <1>1, <2>1, <2>2, <2>3 DEF SegIds
<1>11. DiskRows'
  <2>1. \A g \in DOMAIN segs' \cap DOMAIN dels' : dels'[g] \subseteq DOMAIN segs'[g]
    BY <1>1, <1>7, Zenon DEF RowsInv, DiskRows
  <2>2. ASSUME NEW c \in DOMAIN manifest'.colls
        PROVE  OldDead(segs', c, manifest'.colls[c].segs, MarkedIn(dels', c, manifest'.colls[c].segs))
    <3> DEFINE list == manifest.colls[c].segs
    <3>1. OldDead(segs, c, list, MarkedIn(dels, c, list))
      BY <1>1, <2>2 DEF RowsInv, DiskRows
    <3>2. \A x \in Image(list) : MarkedIn(dels, c, list)[x] \subseteq MarkedIn(dels', c, list)[x]
      BY <1>8 DEF MarkedIn
    <3> HIDE DEF list
    <3>3. OldDead(segs', c, list, MarkedIn(dels', c, list))
      BY <1>1, <3>1, <3>2, OldDeadGrows, Zenon
    <3> QED
      BY <1>1, <3>3 DEF list
  <2> QED
    BY <1>1, <2>1, <2>2, Zenon DEF RowsInv, DiskRows
<1>12. MemRows'
  <2>1. ASSUME NEW c \in DOMAIN colls PROVE CollRows(segs', dels', c, colls[c])
    <3>1. CollRows(segs, dels, c, colls[c])
      BY DEF RowsInv, MemRows
    <3>2. ASSUME NEW x \in Image(colls[c].segs) PROVE SegmentRows(segs', dels', c, colls[c], x)
      <4>1. SegmentRows(segs, dels, c, colls[c], x)
        BY <3>1 DEF CollRows
      <4>2. CASE <<c, x>> = f
        <5>1. c = cid /\ x = s
          BY <4>2
        <5> QED
          BY <1>1, <1>7, <4>1, <5>1, Zenon DEF SegmentRows, new
      <4>3. CASE <<c, x>> # f
        BY <1>1, <1>7, <4>1, <4>3, Zenon DEF SegmentRows
      <4> QED
        BY <4>2, <4>3
    <3> QED
      BY <1>1, <3>1, <3>2 DEF CollRows
  <2> QED
    BY <1>1, <2>1 DEF MemRows
<1>13. SealRows'
  <2>1. \A d \in job'.dels : d[1] \in job'.todo
    BY <1>1, <1>9 DEF RowsInv, SealRows
  <2>2. ASSUME NEW c \in DOMAIN colls, NEW x \in Image(colls[c].segs)
        PROVE  <<c, x>> \in job'.dels \/ WinOf(colls[c], x) \subseteq Marked(dels', <<c, x>>)
    <3>1. CASE <<c, x>> = f
      <4>1. c = cid /\ x = s
        BY <3>1
      <4> QED
        BY <1>7, <4>1 DEF new
    <3>2. CASE <<c, x>> # f
      BY <1>1, <1>7, <1>9, <3>2, Zenon DEF RowsInv, SealRows
    <3> QED
      BY <3>1, <3>2
  <2>3. \A c \in DOMAIN job.new : <<c, job.new[c]>> \notin DOMAIN dels'
    <3>1. \A c \in DOMAIN job.new : c # cid
      BY <1>1, <1>3, Zenon DEF RowsInv, SealRows
    <3> QED
      BY <1>7, <3>1, Zenon DEF RowsInv, SealRows
  <2> QED
    BY <1>1, <1>9, <2>1, <2>2, <2>3, Zenon DEF RowsInv, SealRows
<1> QED
  BY <1>10, <1>11, <1>12, <1>13 DEF RowsInv

-----------------------------------------------------------------------------
(* New segment files.                                                      *)

\* A segment id the counter is about to give out names no file.
LEMMA FreshSegment ==
  ASSUME StoreInv, RowsInv, Settled, NEW cid
  PROVE  <<cid, ctr.seg>> \notin DOMAIN segs \cup DOMAIN dels
<1>1. ctr.seg \in Nat
  BY TypeFacts DEF CtrType
<1>2. \A f \in SegFiles : f[2] < ctr.seg
  BY DEF RowsInv, SegIds
<1> QED
  BY <1>1, <1>2 DEF SegFiles

\* A new segment file leaves the manifest's and the collections' rows alone.
LEMMA NewFileRows ==
  ASSUME StoreInv, RowsInv, Settled, NEW cid, NEW rows, IsFiniteSet(DOMAIN rows),
         segs' = Put(segs, <<cid, ctr.seg>>, rows), ctr'.seg = ctr.seg + 1,
         dirs' = dirs \cup {cid}, pc' \notin {"down", "replay"},
         UNCHANGED <<manifest, dels, colls>>
  PROVE  SegIds' /\ DiskRows' /\ MemRows'
<1> DEFINE f == <<cid, ctr.seg>>
<1>1. ctr.seg \in Nat /\ manifest.seg \in Nat /\ manifest.seg <= ctr.seg
  <2>1. ctr.seg \in Nat /\ manifest.seg \in Nat
    BY TypeFacts, Zenon DEF CtrType, StoreInv, TypeOK
  <2> QED
    BY <2>1 DEF RowsInv, SegIds, Settled
<1>2. f \notin DOMAIN segs \cup DOMAIN dels
  BY FreshSegment
<1>3. /\ DOMAIN segs' = DOMAIN segs \cup {f} /\ segs'[f] = rows
      /\ \A g \in DOMAIN segs : segs'[g] = segs[g]
  <2> HIDE DEF f
  <2>1. segs' = Put(segs, f, rows)
    BY DEF f
  <2> QED
    BY <1>2, <2>1 DEF Put
<1>4. SegIds'
  <2>1. SegFiles' = SegFiles \cup {f}
    BY <1>3 DEF SegFiles
  <2>2. \A g \in SegFiles : g[1] \in dirs /\ g[2] < ctr.seg
    BY DEF RowsInv, SegIds
  <2>3. \A g \in SegFiles : g[2] \in Nat
    BY DEF SegFiles, StoreInv, TypeOK, MapOn, IsMap
  <2>4. \A g \in SegFiles' : g[1] \in dirs' /\ g[2] < ctr'.seg
    BY <1>1, <2>1, <2>2, <2>3
  <2>5. manifest'.seg <= ctr'.seg
    BY <1>1
  <2>6. \A c \in DOMAIN manifest'.colls : \A s \in Image(manifest'.colls[c].segs) : s < manifest'.seg
    BY Zenon DEF RowsInv, SegIds
  <2> QED
    BY <2>4, <2>5, <2>6, Zenon DEF SegIds
<1> HIDE DEF f
<1>5. DiskRows'
  <2>1. \A g \in DOMAIN segs' : IsFiniteSet(DOMAIN segs'[g])
    BY <1>3 DEF RowsInv, DiskRows
  <2>2. \A g \in DOMAIN segs' \cap DOMAIN dels' : dels'[g] \subseteq DOMAIN segs'[g]
    BY <1>2, <1>3 DEF RowsInv, DiskRows
  <2>3. ASSUME NEW c \in DOMAIN manifest.colls
        PROVE  OldDead(segs', c, manifest.colls[c].segs, MarkedIn(dels, c, manifest.colls[c].segs))
    <3> DEFINE list == manifest.colls[c].segs
    <3>1. OldDead(segs, c, list, MarkedIn(dels, c, list))
      BY DEF RowsInv, DiskRows
    <3>2. \A x \in Image(list) : <<c, x>> \in DOMAIN segs
      BY DEF StoreInv, FilesInv, OnDisk
    <3>3. \A x \in Image(list) :
            /\ segs'[<<c, x>>] = segs[<<c, x>>]
            /\ MarkedIn(dels, c, list)[x] \subseteq MarkedIn(dels, c, list)[x]
      BY <1>3, <3>2, Zenon
    <3> HIDE DEF list
    <3>4. OldDead(segs', c, list, MarkedIn(dels, c, list))
      BY <3>1, <3>3, OldDeadGrows, Zenon
    <3> QED
      BY <3>4 DEF list
  <2> QED
    BY <2>1, <2>2, <2>3, Zenon DEF DiskRows
<1>6. MemRows'
  <2>1. ASSUME NEW c \in DOMAIN colls PROVE CollRows(segs', dels, c, colls[c])
    <3>1. CollRows(segs, dels, c, colls[c])
      BY DEF RowsInv, MemRows
    <3>2. \A x \in Image(colls[c].segs) : <<c, x>> \in DOMAIN segs
      BY DEF StoreInv, FilesInv, OnDisk
    <3>3. \A x \in Image(colls[c].segs) : segs'[<<c, x>>] = segs[<<c, x>>]
      BY <1>3, <3>2
    <3>4. SameFiles(segs, dels, segs', dels, c, colls[c].segs)
      BY <3>3, Zenon DEF SameFiles
    <3> QED
      BY <3>1, <3>4, SameRows
  <2> QED
    BY <2>1 DEF MemRows
<1> QED
  BY <1>4, <1>5, <1>6

\* Sealing one buffer keeps the invariant.
LEMMA SealActiveRows ==
  ASSUME StoreInv, RowsInv, SealActive
  PROVE  RowsInv'
<1> DEFINE cid == Least(job.todo)
           act == colls[cid].active
<1>1. /\ pc = "seal" /\ pc' = pc /\ job.todo # {} /\ dirs' = dirs \cup {cid}
      /\ \A d \in job.dels : d[1] # cid
      /\ UNCHANGED <<manifest, dels, colls>>
  BY DEF SealActive, Sealing
<1>2. IsJob(job) /\ CollsOK(colls) /\ ctr \in CtrType
  BY TypeFacts
<1>3. cid \in job.todo /\ cid \in DOMAIN colls
  <2>1. job.todo \in SUBSET Nat /\ job.todo \subseteq DOMAIN colls
    BY <1>1, <1>2 DEF StoreInv, JobInv, IsJob
  <2> QED
    BY <1>1, <2>1, LeastProperties
<1>4. Settled
  BY <1>1 DEF Settled
<1>5. CASE DOMAIN act = {}
  <2>1. UNCHANGED <<segs, ctr>> /\ job' = [job EXCEPT !.todo = @ \ {cid}]
    BY <1>5 DEF SealActive
  <2> HIDE DEF cid, act
  <2>2. /\ job'.dels = job.dels /\ job'.todo = job.todo \ {cid} /\ job'.new = job.new
        /\ job'.opening = job.opening
    BY <1>2, <2>1, Zenon DEF IsJob
  <2>3. KeepsFiles
    BY <1>1, <1>4, <2>1 DEF KeepsFiles
  <2>4. SealRows'
    <3>1. \A d \in job'.dels : d[1] \in job'.todo
      BY <1>1, <2>2, Zenon DEF RowsInv, SealRows
    <3>2. \A c \in DOMAIN colls \ job'.todo : c \in DOMAIN job'.new \/ DOMAIN colls[c].active = {}
      BY <1>1, <1>5, <2>2 DEF RowsInv, SealRows, act
    <3>3. \A c \in DOMAIN job'.new : c \in DOMAIN colls \ job'.todo
      BY <1>1, <2>2, Zenon DEF RowsInv, SealRows
    <3> QED
      BY <1>1, <2>1, <2>2, <3>1, <3>2, <3>3, Zenon DEF RowsInv, SealRows
  <2> QED
    BY <1>1, <2>3, <2>4, KeepsFilesRows, SameMemRows DEF RowsInv
<1>6. CASE DOMAIN act # {}
  <2>1. /\ segs' = Put(segs, <<cid, ctr.seg>>, act) /\ ctr' = [ctr EXCEPT !.seg = @ + 1]
        /\ job' = [job EXCEPT !.todo = @ \ {cid}, !.new = Put(@, cid, ctr.seg)]
    BY <1>6, Zenon DEF SealActive
  <2>2. IsFiniteSet(DOMAIN act)
    BY <1>3 DEF RowsInv, MemRows, CollRows
  <2> HIDE DEF cid
  <2>3. ctr'.seg = ctr.seg + 1
    BY <1>2, <2>1 DEF CtrType
  <2>4. SegIds' /\ DiskRows' /\ MemRows'
    <3> HIDE DEF act
    <3> QED
      BY <1>1, <1>4, <2>1, <2>2, <2>3, NewFileRows
  <2>5. /\ job'.dels = job.dels /\ job'.todo = job.todo \ {cid}
        /\ job'.new = Put(job.new, cid, ctr.seg)
    BY <1>2, <2>1, Zenon DEF IsJob
  <2>6. /\ DOMAIN job'.new = DOMAIN job.new \cup {cid} /\ job'.new[cid] = ctr.seg
        /\ \A c \in DOMAIN job.new : c # cid => job'.new[c] = job.new[c]
    BY <2>5 DEF Put
  <2> DEFINE f == <<cid, ctr.seg>>
  <2>7. f \notin DOMAIN segs \cup DOMAIN dels
    BY <1>4, FreshSegment
  <2>8. segs'[f] = act /\ \A g \in DOMAIN segs : segs'[g] = segs[g]
    <3>1. segs' = Put(segs, f, act)
      BY <2>1
    <3> HIDE DEF f, act
    <3> QED
      BY <2>7, <3>1 DEF Put
  <2>9. \A d \in job'.dels : d[1] \in job'.todo
    BY <1>1, <2>5, Zenon DEF RowsInv, SealRows
  <2>10. ASSUME NEW c \in DOMAIN job'.new
         PROVE  /\ c \in DOMAIN colls \ job'.todo /\ segs'[<<c, job'.new[c]>>] = colls[c].active
                /\ job'.new[c] \notin Image(colls[c].segs)
                /\ <<c, job'.new[c]>> \notin DOMAIN dels
    <3>1. CASE c = cid
      <4>1. \A s \in Image(colls[cid].segs) : <<cid, s>> \in DOMAIN segs
        BY <1>3 DEF StoreInv, FilesInv, OnDisk
      <4> QED
        BY <1>3, <2>5, <2>6, <2>7, <2>8, <3>1, <4>1
    <3>2. CASE c # cid
      <4>1. c \in DOMAIN job.new /\ job'.new[c] = job.new[c]
        BY <2>6, <2>10, <3>2
      <4>2. <<c, job.new[c]>> \in DOMAIN segs
        BY <4>1 DEF StoreInv, FilesInv
      <4>3. /\ c \in DOMAIN colls \ job.todo /\ segs[<<c, job.new[c]>>] = colls[c].active
            /\ job.new[c] \notin Image(colls[c].segs) /\ <<c, job.new[c]>> \notin DOMAIN dels
        BY <1>1, <4>1, Zenon DEF RowsInv, SealRows
      <4> HIDE DEF f
      <4> QED
        BY <2>5, <2>8, <4>1, <4>2, <4>3
    <3> QED
      BY <3>1, <3>2
  <2>11. \A c \in DOMAIN colls \ job'.todo : c \in DOMAIN job'.new \/ DOMAIN colls[c].active = {}
    BY <1>1, <2>5, <2>6, Zenon DEF RowsInv, SealRows
  <2>12. \A c \in DOMAIN colls : \A s \in Image(colls[c].segs) :
            <<c, s>> \in job'.dels \/ WinOf(colls[c], s) \subseteq Marked(dels, <<c, s>>)
    BY <1>1, <2>5, Zenon DEF RowsInv, SealRows
  <2>13. SealRows'
    BY <1>1, <2>9, <2>10, <2>11, <2>12, Zenon DEF SealRows
  <2> QED
    BY <2>4, <2>13 DEF RowsInv
<1> QED
  BY <1>5, <1>6

\* Writing the merged segment of a compaction keeps the invariant.
LEMMA MergeRows ==
  ASSUME StoreInv, StoreInv', RowsInv, MergeSegments
  PROVE  RowsInv'
<1> DEFINE cid == Least(job.cq)
           c == colls[cid]
           rows == LiveRows(cid, c)
           row(id) == CHOOSE r \in rows : r[2] = id
           merged == [id \in {r[2] : r \in rows} |-> segs[<<cid, row(id)[1]>>][id]]
           f == <<cid, ctr.seg>>
<1>1. /\ pc = "compact" /\ pc' = "merged" /\ dirs' = dirs \cup {cid}
      /\ segs' = Put(segs, f, merged) /\ ctr' = [ctr EXCEPT !.seg = @ + 1]
      /\ job' = [job EXCEPT !.new = Put(EmptyMap, cid, ctr.seg)]
      /\ UNCHANGED <<manifest, dels, colls>>
  BY DEF MergeSegments
<1>2. IsJob(job) /\ CollsOK(colls) /\ ctr \in CtrType
  BY TypeFacts
<1>3. cid \in DOMAIN colls
  <2>1. job.cq \in SUBSET Nat /\ job.cq \subseteq DOMAIN colls /\ job.cq # {}
    BY <1>1, <1>2 DEF StoreInv, JobInv, IsJob
  <2> QED
    BY <2>1, LeastProperties
<1> HIDE DEF cid
<1>4. IsColl(c) /\ CollRows(segs, dels, cid, c)
  BY <1>2, <1>3 DEF CollsOK, RowsInv, MemRows
<1>5. \A s \in Image(c.segs) : <<cid, s>> \in DOMAIN segs
  BY <1>3 DEF StoreInv, FilesInv, OnDisk
<1>6. \A g \in DOMAIN segs : IsFiniteSet(DOMAIN segs[g]) /\ DOMAIN segs[g] \subseteq Ids
  BY Zenon DEF StoreInv, TypeOK, IsMap, MapOn, RowsInv, DiskRows
<1>7. IsFiniteSet(DOMAIN merged)
  <2> HIDE DEF c
  <2>1. IsFiniteSet({r[2] : r \in LiveRows(cid, c)})
    BY <1>4, <1>5, <1>6, CountIsExact, Zenon
  <2> QED
    BY <2>1
<1>8. Settled
  BY <1>1 DEF Settled
<1>9. ctr'.seg = ctr.seg + 1
  BY <1>1, <1>2 DEF CtrType
<1>10. SegIds' /\ DiskRows' /\ MemRows'
  <2> HIDE DEF merged
  <2> QED
    BY <1>1, <1>7, <1>8, <1>9, NewFileRows
<1>11. f \notin DOMAIN segs \cup DOMAIN dels
  BY <1>8, FreshSegment
<1>12. segs'[f] = merged /\ \A g \in DOMAIN segs : segs'[g] = segs[g]
  <2> HIDE DEF f, merged
  <2> QED
    BY <1>1, <1>11 DEF Put
<1>13. DOMAIN job'.new = {cid} /\ job'.new[cid] = ctr.seg
  <2>1. job'.new = Put(EmptyMap, cid, ctr.seg)
    BY <1>1, <1>2, Zenon DEF IsJob
  <2> QED
    BY <2>1, EmptyMapProperties, Zenon DEF Put
<1>14. ASSUME NEW id \in Ids
       PROVE  /\ id \in DOMAIN merged <=> Alive(segs, cid, c, id) # {}
              /\ \A s \in Alive(segs, cid, c, id) : merged[id] = segs[<<cid, s>>][id]
  <2> DEFINE live == {s \in Image(c.segs) : id \in DOMAIN segs[<<cid, s>>] /\ ~SealedDead(c, s, id)}
  <2>1. live = Alive(segs, cid, c, id)
    <3> HIDE DEF c
    <3> QED
      BY <1>4, ScanFindsNewest, Zenon
  <2>2. \A s \in live, t \in live : s = t
    <3> HIDE DEF c, live
    <3>1. \A s, t \in Alive(segs, cid, c, id) : s = t
      BY <1>4, ScanFindsNewest, Zenon
    <3> QED
      BY <2>1, <3>1, Zenon
  <2>3. id \in DOMAIN merged => live # {}
    BY Zenon DEF LiveRows
  <2>4. ASSUME NEW s \in live
        PROVE  id \in DOMAIN merged /\ merged[id] = segs[<<cid, s>>][id]
    <3>1. <<s, id>> \in rows
      BY DEF LiveRows
    <3>2. row(id) \in rows /\ row(id)[2] = id
      <4>1. \E r \in rows : r[2] = id
        BY <3>1
      <4> HIDE DEF rows
      <4> QED
        BY <4>1
    <3>3. row(id)[1] \in live
      <4> HIDE DEF row
      <4> QED
        BY <3>2 DEF LiveRows
    <3>4. row(id)[1] = s
      <4> HIDE DEF row, live
      <4> QED
        BY <2>2, <2>4, <3>3
    <3>5. id \in DOMAIN merged
      BY <3>1
    <3>6. merged[id] = segs[<<cid, row(id)[1]>>][id]
      <4> HIDE DEF rows, row
      <4> QED
        BY <3>5
    <3> QED
      BY <3>4, <3>5, <3>6, Zenon
  <2> HIDE DEF merged, live
  <2> QED
    BY <2>1, <2>3, <2>4, Zenon
<1>15. MergedRows(segs', cid, c, f)
  <2>1. \A s \in Image(c.segs) : segs'[<<cid, s>>] = segs[<<cid, s>>]
    BY <1>5, <1>12
  <2>2. \A id : Alive(segs', cid, c, id) = Alive(segs, cid, c, id)
    BY <2>1 DEF Alive
  <2>3. \A id : Alive(segs, cid, c, id) \subseteq Image(c.segs)
    BY DEF Alive
  <2> HIDE DEF merged, c, f
  <2> QED
    BY <1>12, <1>14, <2>1, <2>2, <2>3, Zenon DEF MergedRows
<1>16. SealRows'
  <2>1. \A x \in DOMAIN job'.new :
          /\ <<x, job'.new[x]>> \notin DOMAIN dels'
          /\ MergedRows(segs', x, colls'[x], <<x, job'.new[x]>>)
    BY <1>1, <1>11, <1>13, <1>15
  <2> QED
    BY <1>1, <2>1, Zenon DEF SealRows
<1> QED
  BY <1>10, <1>16 DEF RowsInv

-----------------------------------------------------------------------------
(* The swaps of the manifest.                                              *)

\* The first part of a longer list.
LEMMA PrefixOf ==
  ASSUME NEW p \in Seq(Nat), NEW q \in Seq(Nat), NEW j \in DOMAIN p, NEW i \in DOMAIN (p \o q), i < j
  PROVE  i \in DOMAIN p /\ (p \o q)[i] = p[i] /\ (p \o q)[j] = p[j]
<1>1. /\ DOMAIN p = 1..Len(p) /\ DOMAIN (p \o q) = 1..(Len(p) + Len(q)) /\ Len(p) \in Nat /\ Len(q) \in Nat
  OBVIOUS
<1>2. i \in 1..Len(p) /\ j \in 1..Len(p)
  BY <1>1
<1> QED
  BY <1>1, <1>2

\* The rows of the segments and of the sealed buffer, once the window is written: a
\* bitmap that has the window marks the older rows.
LEMMA SealedOldDead ==
  ASSUME StoreInv, RowsInv, pc = "seal", NEW cid \in DOMAIN colls, NEW more,
         \A s \in Image(colls[cid].segs) : colls[cid].dead[s] \cup WinOf(colls[cid], s) \subseteq more[s]
  PROVE  OldDead(segs, cid, colls[cid].segs \o NewSegs(cid), more)
<1> DEFINE c == colls[cid]
           list == c.segs \o NewSegs(cid)
<1>1. IsColl(c) /\ CollRows(segs, dels, cid, c) /\ IsJob(job)
  BY TypeFacts DEF CollsOK, RowsInv, MemRows
<1>2. c.segs \in Seq(Nat) /\ NewSegs(cid) \in Seq(Nat)
  BY <1>1, CollFacts, NewSegsType, Zenon
<1>3. \A i \in DOMAIN c.segs : c.segs[i] \in Image(c.segs)
  BY DEF Image
<1>4. ASSUME NEW i \in DOMAIN list, NEW j \in DOMAIN list, i < j
      PROVE  /\ list[i] # list[j]
             /\ DOMAIN segs[<<cid, list[i]>>] \cap DOMAIN segs[<<cid, list[j]>>] \subseteq more[list[i]]
  <2>1. CASE j \in DOMAIN c.segs
    <3>1. i \in DOMAIN c.segs /\ list[i] = c.segs[i] /\ list[j] = c.segs[j]
      <4>1. i \in Nat /\ j \in Nat
        BY <1>2, <1>4
      <4> HIDE DEF c
      <4> QED
        BY <1>2, <1>4, <2>1, <4>1, PrefixOf
    <3> HIDE DEF list, c
    <3> QED
      BY <1>1, <1>3, <1>4, <2>1, <3>1, Zenon DEF CollRows, OldDead, c
  <2>2. CASE j \notin DOMAIN c.segs
    <3>1. cid \in DOMAIN job.new /\ list = Append(c.segs, job.new[cid])
      <4>1. CASE cid \notin DOMAIN job.new
        <5>1. list = c.segs
          BY <1>2, <4>1 DEF NewSegs
        <5> QED
          BY <1>4, <2>2, <5>1
      <4>2. CASE cid \in DOMAIN job.new
        <5>1. NewSegs(cid) = <<job.new[cid]>>
          BY <4>2 DEF NewSegs
        <5>2. job.new[cid] \in Nat
          BY <1>1, <4>2 DEF IsJob, IsMap
        <5> HIDE DEF c
        <5> QED
          BY <1>2, <4>2, <5>1, <5>2
      <4> QED
        BY <4>1, <4>2
    <3>2. i \in DOMAIN c.segs /\ list[i] = c.segs[i] /\ list[j] = job.new[cid]
      <4> HIDE DEF c
      <4>1. DOMAIN list = 1..(Len(c.segs) + 1) /\ DOMAIN c.segs = 1..Len(c.segs) /\ Len(c.segs) \in Nat
        BY <1>2, <3>1
      <4>2. j = Len(c.segs) + 1 /\ i \in 1..Len(c.segs)
        BY <1>4, <2>2, <4>1
      <4> QED
        BY <1>2, <3>1, <4>1, <4>2
    <3>3. /\ segs[<<cid, job.new[cid]>>] = c.active /\ job.new[cid] \notin Image(c.segs)
      BY <3>1 DEF RowsInv, SealRows
    <3>4. SegmentRows(segs, dels, cid, c, list[i]) /\ list[i] \in Image(c.segs)
      BY <1>1, <1>3, <3>2, Zenon DEF CollRows
    <3> HIDE DEF list, c
    <3> QED
      BY <3>2, <3>3, <3>4, Zenon DEF SegmentRows, c
  <2> QED
    BY <2>1, <2>2, Zenon
<1> QED
  BY <1>4 DEF OldDead

\* Before the swap of a checkpoint the window is in the bitmaps.
LEMMA WindowWritten ==
  ASSUME StoreInv, RowsInv, pc = "seal", job.todo = {}, NEW c \in DOMAIN colls,
         NEW s \in Image(colls[c].segs)
  PROVE  /\ Marked(dels, <<c, s>>) = colls[c].dead[s] \cup WinOf(colls[c], s)
         /\ Marked(dels, <<c, s>>) \subseteq DOMAIN segs[<<c, s>>]
<1>1. SegmentRows(segs, dels, c, colls[c], s)
  BY Zenon DEF RowsInv, MemRows, CollRows
<1>2. <<c, s>> \notin job.dels
  BY Zenon DEF RowsInv, SealRows
<1>3. WinOf(colls[c], s) \subseteq Marked(dels, <<c, s>>)
  BY <1>2, Zenon DEF RowsInv, SealRows
<1> QED
  BY <1>1, <1>3 DEF SegmentRows

\* A swap to a manifest that memory covers keeps what the invariant says of the disk.
LEMMA SwappedDisk ==
  ASSUME StoreInv, RowsInv, Settled, manifest'.seg = ctr.seg, ctr'.seg = ctr.seg,
         pc' \notin {"down", "replay"}, UNCHANGED <<segs, dels, dirs>>,
         \A c \in DOMAIN manifest'.colls :
           /\ \A s \in Image(manifest'.colls[c].segs) : <<c, s>> \in DOMAIN segs
           /\ OldDead(segs, c, manifest'.colls[c].segs, MarkedIn(dels, c, manifest'.colls[c].segs))
  PROVE  SegIds' /\ DiskRows'
<1>1. SegFiles' = SegFiles
  BY DEF SegFiles
<1>2. ctr.seg \in Nat /\ SegIds
  BY TypeFacts, Zenon DEF RowsInv, CtrType
<1>3. \A c \in DOMAIN manifest'.colls : \A s \in Image(manifest'.colls[c].segs) : s < manifest'.seg
  <2>1. \A f \in SegFiles : f[2] < ctr.seg
    BY <1>2, Zenon DEF SegIds
  <2>2. \A c, s : <<c, s>> \in DOMAIN segs => <<c, s>> \in SegFiles /\ <<c, s>>[2] = s
    BY DEF SegFiles
  <2>3. \A c, s : <<c, s>> \in DOMAIN segs => s < ctr.seg
    BY <2>1, <2>2
  <2> QED
    BY <2>3, Zenon
<1>4. manifest'.seg <= ctr'.seg
  BY <1>2
<1>5. SegIds'
  BY <1>1, <1>2, <1>3, <1>4, Zenon DEF SegIds
<1>6. DiskRows'
  BY Zenon DEF RowsInv, DiskRows
<1> QED
  BY <1>5, <1>6

\* The manifest of a checkpoint, and of a compaction, describe rows in order.
LEMMA SwapDisk ==
  ASSUME StoreInv, RowsInv, ctr'.seg = ctr.seg, pc' \notin {"down", "replay"},
         UNCHANGED <<segs, dels, dirs>>,
         \/ pc = "seal" /\ job.todo = {} /\ manifest' = CheckpointManifest
         \/ pc = "merged" /\ manifest' = CompactManifest
  PROVE  SegIds' /\ DiskRows'
<1>1. CollsOK(colls) /\ IsJob(job) /\ Settled
  BY TypeFacts DEF Settled
<1>2. manifest'.seg = ctr.seg
  <2>1. CheckpointManifest.seg = ctr.seg
    BY Zenon DEF CheckpointManifest
  <2>2. CompactManifest.seg = ctr.seg
    BY Zenon DEF CompactManifest
  <2> QED
    BY <2>1, <2>2, Zenon
<1>3. CASE pc = "seal" /\ job.todo = {} /\ manifest' = CheckpointManifest
  <2>1. ASSUME NEW c \in DOMAIN manifest'.colls
        PROVE  /\ \A s \in Image(manifest'.colls[c].segs) : <<c, s>> \in DOMAIN segs
               /\ OldDead(segs, c, manifest'.colls[c].segs, MarkedIn(dels, c, manifest'.colls[c].segs))
    <3> DEFINE list == colls[c].segs \o NewSegs(c)
               more == MarkedIn(dels, c, list)
    <3>1. c \in DOMAIN colls /\ manifest'.colls[c].segs = list
      BY <1>3, <2>1, CheckpointManifestOK, Zenon
    <3>2. \A s \in Image(list) : <<c, s>> \in DOMAIN segs
      BY <1>3, <2>1, <3>1, CheckpointManifestOK, Zenon DEF ManifestOK, OnDisk
    <3>3. Image(colls[c].segs) \subseteq Image(list)
      <4>1. colls[c].segs \in Seq(Nat)
        BY <1>1, <3>1, CollFacts, Zenon DEF CollsOK
      <4>2. Image(list) = Image(colls[c].segs) \cup Image(NewSegs(c))
        BY <1>1, <4>1, NewSegsType, Zenon
      <4> QED
        BY <4>2, Zenon
    <3>4. \A s \in Image(colls[c].segs) :
            colls[c].dead[s] \cup WinOf(colls[c], s) \subseteq more[s]
      <4> HIDE DEF list
      <4> QED
        BY <1>3, <3>1, <3>3, WindowWritten, Zenon DEF MarkedIn
    <3>5. OldDead(segs, c, list, more)
      <4> HIDE DEF more
      <4> QED
        BY <1>3, <3>1, <3>4, SealedOldDead
    <3> QED
      BY <3>1, <3>2, <3>5, Zenon
  <2> QED
    BY <1>1, <1>2, <2>1, SwappedDisk, Zenon
<1>4. CASE pc = "merged" /\ manifest' = CompactManifest
  <2>1. ASSUME NEW c \in DOMAIN manifest'.colls
        PROVE  /\ \A s \in Image(manifest'.colls[c].segs) : <<c, s>> \in DOMAIN segs
               /\ OldDead(segs, c, manifest'.colls[c].segs, MarkedIn(dels, c, manifest'.colls[c].segs))
    <3> DEFINE list == manifest'.colls[c].segs
    <3>1. c \in DOMAIN colls /\ list = IF c \in DOMAIN job.new THEN NewSegs(c) ELSE colls[c].segs
      BY <1>4, <2>1, CompactManifestOK
    <3>2. \A s \in Image(list) : <<c, s>> \in DOMAIN segs
      BY <1>4, <2>1, CompactManifestOK DEF ManifestOK, OnDisk
    <3>3. CASE c \in DOMAIN job.new
      <4>1. list = <<job.new[c]>>
        BY <3>1, <3>3, Zenon DEF NewSegs
      <4>2. \A i, j \in DOMAIN list : ~ (i < j)
        <5> HIDE DEF list
        <5>1. DOMAIN list = {1}
          BY <4>1
        <5> QED
          BY <5>1
      <4>3. OldDead(segs, c, list, MarkedIn(dels, c, list))
        BY <4>2, Zenon DEF OldDead
      <4> QED
        BY <3>2, <4>3, Zenon
    <3>4. CASE c \notin DOMAIN job.new
      <4>1. list = colls[c].segs
        BY <3>1, <3>4
      <4>2. CollRows(segs, dels, c, colls[c])
        BY <3>1 DEF RowsInv, MemRows
      <4>3. \A s \in Image(list) : colls[c].dead[s] \subseteq MarkedIn(dels, c, list)[s]
        BY <4>1, <4>2, Zenon DEF CollRows, SegmentRows, MarkedIn
      <4>4. OldDead(segs, c, list, colls[c].dead)
        BY <4>1, <4>2, Zenon DEF CollRows
      <4> HIDE DEF list
      <4>5. OldDead(segs, c, list, MarkedIn(dels, c, list))
        BY <4>3, <4>4, OldDeadGrows, Zenon
      <4> QED
        BY <3>2, <4>5 DEF list
    <3> QED
      BY <3>3, <3>4
  <2> QED
    BY <1>1, <1>2, <2>1, SwappedDisk, Zenon
<1> QED
  BY <1>3, <1>4

\* The folded collections are in order.
LEMMA FoldedRows ==
  ASSUME StoreInv, RowsInv, pc = "seal", job.todo = {}, NEW cid \in DOMAIN colls
  PROVE  CollRows(segs, dels, cid, Folded(cid, colls[cid]))
<1> DEFINE c == colls[cid]
           d == Folded(cid, c)
           new == IF cid \in DOMAIN job.new THEN {job.new[cid]} ELSE {}
<1>1. IsColl(c) /\ IsJob(job)
  BY TypeFacts DEF CollsOK
<1>2. /\ d.segs = c.segs \o NewSegs(cid) /\ d.active = EmptyMap /\ d.win = {}
      /\ d.dead = [s \in Image(c.segs) \cup new |-> IF s \in new THEN {} ELSE c.dead[s] \cup WinOf(c, s)]
  BY Zenon DEF Folded, WinOf
<1>3. /\ Image(d.segs) = Image(c.segs) \cup new
  <2>1. c.segs \in Seq(Nat)
    BY <1>1, CollFacts, Zenon
  <2>2. Image(NewSegs(cid)) = new /\ Image(c.segs \o NewSegs(cid)) = Image(c.segs) \cup Image(NewSegs(cid))
    BY <1>1, <2>1, NewSegsType, Zenon
  <2> QED
    BY <1>2, <2>2, Zenon
<1>4. \A s \in new : s \notin Image(c.segs) /\ <<cid, s>> \notin DOMAIN dels
  BY Zenon DEF RowsInv, SealRows
<1> HIDE DEF d, new, c
<1>5. \A s \in Image(c.segs) : d.dead[s] = c.dead[s] \cup WinOf(c, s)
  BY <1>2, <1>4, Zenon
<1>6. \A s \in new : d.dead[s] = {}
  BY <1>2
<1>7. DOMAIN d.active = {} /\ \A s : WinOf(d, s) = {}
  BY <1>2, EmptyMapProperties, Zenon DEF WinOf
<1>8. OldDead(segs, cid, d.segs, d.dead)
  <2> DEFINE more == d.dead
  <2>1. \A s \in Image(colls[cid].segs) : colls[cid].dead[s] \cup WinOf(colls[cid], s) \subseteq more[s]
    BY <1>5 DEF c
  <2> HIDE DEF more
  <2>2. OldDead(segs, cid, colls[cid].segs \o NewSegs(cid), more)
    BY <2>1, SealedOldDead
  <2> QED
    BY <1>2, <2>2, Zenon DEF more, c
<1>9. ASSUME NEW s \in Image(d.segs) PROVE SegmentRows(segs, dels, cid, d, s)
  <2>1. CASE s \in Image(c.segs)
    <3>1. /\ Marked(dels, <<cid, s>>) = c.dead[s] \cup WinOf(c, s)
          /\ Marked(dels, <<cid, s>>) \subseteq DOMAIN segs[<<cid, s>>]
      BY <2>1, WindowWritten DEF c
    <3> QED
      BY <1>5, <1>7, <2>1, <3>1, Zenon DEF SegmentRows
  <2>2. CASE s \in new
    <3>1. Marked(dels, <<cid, s>>) = {}
      BY <1>4, <2>2 DEF Marked
    <3> QED
      BY <1>6, <1>7, <2>2, <3>1 DEF SegmentRows
  <2> QED
    BY <1>3, <1>9, <2>1, <2>2
<1>10. IsFiniteSet(DOMAIN d.active)
  BY <1>7, FS_EmptySet
<1> QED
  BY <1>8, <1>9, <1>10, Zenon DEF CollRows, d, c

\* So is the compacted collection.
LEMMA MergedCollRows ==
  ASSUME StoreInv, RowsInv, pc = "merged", NEW cid \in DOMAIN colls, cid \in DOMAIN job.new
  PROVE  CollRows(segs, dels, cid, Merged(cid, colls[cid]))
<1> DEFINE c == colls[cid]
           d == Merged(cid, c)
           n == job.new[cid]
<1>1. IsColl(c) /\ CollRows(segs, dels, cid, c)
  BY TypeFacts, Zenon DEF CollsOK, RowsInv, MemRows
<1>2. /\ d.segs = <<n>> /\ d.active = c.active /\ d.win = {} /\ d.dead = [s \in {n} |-> {}]
  BY <1>1 DEF Merged, NewSegs, IsColl
<1>3. <<cid, n>> \notin DOMAIN dels /\ MergedRows(segs, cid, c, <<cid, n>>)
  BY Zenon DEF RowsInv, SealRows
<1>4. DOMAIN segs[<<cid, n>>] \subseteq Ids
  BY DEF StoreInv, FilesInv, TypeOK, IsMap, MapOn
<1> HIDE DEF d, n, c
<1>5. DOMAIN segs[<<cid, n>>] \cap DOMAIN c.active = {}
  <2> SUFFICES ASSUME NEW id \in DOMAIN segs[<<cid, n>>], id \in DOMAIN c.active PROVE FALSE
    BY Zenon
  <2>1. PICK s \in Alive(segs, cid, c, id) : TRUE
    BY <1>3, <1>4 DEF MergedRows
  <2> QED
    BY <1>1, <2>1, Zenon DEF Alive, CollRows, SegmentRows
<1>6. Image(d.segs) = {n} /\ \A i, j \in DOMAIN d.segs : ~(i < j)
  BY <1>2 DEF Image
<1>7. \A s : WinOf(d, s) = {}
  BY <1>2 DEF WinOf
<1>8. Marked(dels, <<cid, n>>) = {} /\ d.dead[n] = {}
  BY <1>2, <1>3, Zenon DEF Marked
<1>9. SegmentRows(segs, dels, cid, d, n)
  BY <1>2, <1>5, <1>7, <1>8 DEF SegmentRows
<1>10. OldDead(segs, cid, d.segs, d.dead)
  BY <1>6, Zenon DEF OldDead
<1>11. IsFiniteSet(DOMAIN d.active)
  BY <1>1, <1>2 DEF CollRows
<1> QED
  BY <1>6, <1>9, <1>10, <1>11, Zenon DEF CollRows, d, c

\* The two swaps, and a swap that reports an error, keep the invariant.
LEMMA SwapRows ==
  ASSUME StoreInv, StoreInv', RowsInv, SwapCheckpoint \/ SwapCompaction \/ SwapFails
  PROVE  RowsInv'
<1>1. ctr \in CtrType /\ CollsOK(colls)
  BY TypeFacts
<1>2. CASE SwapCheckpoint
  <2>1. /\ pc = "seal" /\ job.todo = {} /\ pc' = "rotate" /\ manifest' = CheckpointManifest
        /\ ctr' = [ctr EXCEPT !.version = @ + 1, !.floor = ctr.lsn - 1]
        /\ colls' = [c \in DOMAIN colls |-> Folded(c, colls[c])]
        /\ UNCHANGED <<segs, dels, dirs>>
    BY <1>2 DEF SwapCheckpoint, Swapped, ReadyToSwap
  <2>2. ctr'.seg = ctr.seg
    BY <1>1, <2>1 DEF CtrType
  <2>3. SegIds' /\ DiskRows'
    BY <2>1, <2>2, SwapDisk
  <2>4. \A c \in DOMAIN colls : CollRows(segs, dels, c, Folded(c, colls[c]))
    BY <2>1, FoldedRows
  <2>5. MemRows'
    BY <2>1, <2>4 DEF MemRows
  <2>6. SealRows'
    BY <2>1, NoSealRows
  <2> QED
    BY <2>3, <2>5, <2>6 DEF RowsInv
<1>3. CASE SwapCompaction
  <2> DEFINE cid == Least(job.cq)
  <2>1. /\ pc = "merged" /\ pc' = "gc" /\ manifest' = CompactManifest
        /\ ctr' = [ctr EXCEPT !.version = @ + 1]
        /\ colls' = [colls EXCEPT ![cid] = Merged(cid, @)]
        /\ UNCHANGED <<segs, dels, dirs>>
    BY <1>3 DEF SwapCompaction, Swapped
  <2>2. ctr'.seg = ctr.seg
    BY <1>1, <2>1 DEF CtrType
  <2>3. SegIds' /\ DiskRows'
    BY <2>1, <2>2, SwapDisk
  <2>4. cid \in DOMAIN job.new
    BY <2>1 DEF StoreInv, JobInv
  <2> HIDE DEF cid
  <2>5. \A c \in DOMAIN colls' : CollRows(segs, dels, c, colls'[c])
    <3>1. cid \in DOMAIN colls => CollRows(segs, dels, cid, Merged(cid, colls[cid]))
      BY <2>1, <2>4, MergedCollRows
    <3>2. \A c \in DOMAIN colls : CollRows(segs, dels, c, colls[c])
      BY DEF RowsInv, MemRows
    <3>3. DOMAIN colls' = DOMAIN colls
      BY <2>1
    <3>4. \A c \in DOMAIN colls : colls'[c] = IF c = cid THEN Merged(cid, colls[cid]) ELSE colls[c]
      BY <1>1, <2>1 DEF CollsOK, MapOn
    <3> QED
      BY <3>1, <3>2, <3>3, <3>4, Zenon
  <2>6. MemRows'
    BY <2>1, <2>5 DEF MemRows
  <2>7. SealRows'
    BY <2>1, NoSealRows
  <2> QED
    BY <2>3, <2>6, <2>7 DEF RowsInv
<1>4. CASE SwapFails
  <2>1. /\ pc' = "idle" /\ UNCHANGED <<segs, dels, dirs, colls, ctr>>
        /\ \/ pc = "seal" /\ job.todo = {} /\ manifest' = CheckpointManifest
           \/ pc = "merged" /\ manifest' = CompactManifest
    BY <1>4 DEF SwapFails, Swapped, Fails, ReadyToSwap
  <2>2. SegIds' /\ DiskRows'
    BY <2>1, SwapDisk
  <2>3. MemRows'
    BY <2>1 DEF RowsInv, MemRows
  <2>4. SealRows'
    BY <2>1, NoSealRows
  <2> QED
    BY <2>2, <2>3, <2>4 DEF RowsInv
<1> QED
  BY <1>2, <1>3, <1>4

-----------------------------------------------------------------------------
(* Garbage collection.                                                     *)

\* A step of the collection removes files that neither the manifest nor memory uses.
LEMMA CollectRows ==
  ASSUME StoreInv, StoreInv', RowsInv, GcRemoveDir \/ GcSegment
  PROVE  RowsInv'
<1>1. pc = "gc" /\ pc' = pc /\ UNCHANGED <<manifest, colls, ctr, job>>
  BY DEF GcRemoveDir, GcSegment, mem
<1>2. /\ DOMAIN segs' \subseteq DOMAIN segs /\ \A g \in DOMAIN segs' : segs'[g] = segs[g]
      /\ DOMAIN dels' \subseteq DOMAIN dels /\ \A g \in DOMAIN dels' : dels'[g] = dels[g]
      /\ \A c \in DOMAIN manifest.colls : \A s \in Image(manifest.colls[c].segs) :
           <<c, s>> \in DOMAIN dels => <<c, s>> \in DOMAIN dels'
      /\ \A g \in SegFiles' : g[1] \in dirs'
  <2>0. \A g \in SegFiles : g[1] \in dirs
    BY DEF RowsInv, SegIds
  <2>1. CASE GcRemoveDir
    <3>1. PICK cid \in DeadDirs :
            /\ dirs' = dirs \ {cid}
            /\ segs' = Without(segs, Of(segs, cid)) /\ dels' = Without(dels, Of(dels, cid))
      BY <2>1 DEF GcRemoveDir
    <3>2. cid \notin DOMAIN manifest.colls
      BY DEF DeadDirs
    <3>3. /\ DOMAIN segs' = DOMAIN segs \ Of(segs, cid) /\ \A g \in DOMAIN segs' : segs'[g] = segs[g]
          /\ DOMAIN dels' = DOMAIN dels \ Of(dels, cid) /\ \A g \in DOMAIN dels' : dels'[g] = dels[g]
      BY <3>1 DEF Without
    <3>4. \A g \in SegFiles' : g \in SegFiles /\ g[1] # cid
      BY <3>3 DEF SegFiles, Of
    <3>5. \A c, s : c # cid => <<c, s>> \notin Of(dels, cid)
      BY DEF Of
    <3> QED
      BY <2>0, <3>1, <3>2, <3>3, <3>4, <3>5
  <2>2. CASE GcSegment
    <3>1. /\ dirs' = dirs
          /\ \/ dels' = dels /\ \E f \in DeadSegs : segs' = Without(segs, {f})
             \/ segs' = segs /\ \E f \in DeadDels : dels' = Without(dels, {f})
      BY <2>2, Zenon DEF GcSegment
    <3>2. /\ DOMAIN segs' \subseteq DOMAIN segs /\ \A g \in DOMAIN segs' : segs'[g] = segs[g]
          /\ DOMAIN dels' \subseteq DOMAIN dels /\ \A g \in DOMAIN dels' : dels'[g] = dels[g]
      BY <3>1, Zenon DEF Without
    <3>3. \A g \in SegFiles' : g \in SegFiles
      BY <3>2 DEF SegFiles
    <3>4. \A g \in DOMAIN dels \ DOMAIN dels' : Unreferenced(g)
      BY <3>1, Zenon DEF Without, DeadDels
    <3>5. \A c \in DOMAIN manifest.colls : \A s \in Image(manifest.colls[c].segs) :
            <<c, s>> \in DOMAIN dels => <<c, s>> \in DOMAIN dels'
      BY <3>4 DEF Unreferenced
    <3> QED
      BY <2>0, <3>1, <3>2, <3>3, <3>5
  <2> QED
    BY <2>1, <2>2, Zenon
<1>3. SegIds'
  <2>1. SegFiles' \subseteq SegFiles /\ (Settled' => Settled)
    BY <1>1, <1>2 DEF SegFiles, Settled
  <2> QED
    BY <1>1, <1>2, <2>1, Zenon DEF RowsInv, SegIds
<1>4. \A c \in DOMAIN manifest.colls : \A s \in Image(manifest.colls[c].segs) :
        /\ <<c, s>> \in DOMAIN segs' /\ segs'[<<c, s>>] = segs[<<c, s>>]
        /\ Marked(dels', <<c, s>>) = Marked(dels, <<c, s>>)
  <2>1. \A c \in DOMAIN manifest.colls : \A s \in Image(manifest.colls[c].segs) :
          <<c, s>> \in DOMAIN segs'
    BY <1>1, Zenon DEF StoreInv, FilesInv, OnDisk
  <2> QED
    BY <1>2, <2>1, Zenon DEF Marked
<1>5. DiskRows'
  <2>1. \A g \in DOMAIN segs' : IsFiniteSet(DOMAIN segs'[g])
    BY <1>2 DEF RowsInv, DiskRows
  <2>2. \A g \in DOMAIN segs' \cap DOMAIN dels' : dels'[g] \subseteq DOMAIN segs'[g]
    BY <1>2 DEF RowsInv, DiskRows
  <2>3. ASSUME NEW c \in DOMAIN manifest.colls
        PROVE  OldDead(segs', c, manifest.colls[c].segs, MarkedIn(dels', c, manifest.colls[c].segs))
    <3> DEFINE list == manifest.colls[c].segs
    <3>1. OldDead(segs, c, list, MarkedIn(dels, c, list))
      BY DEF RowsInv, DiskRows
    <3>2. \A x \in Image(list) : /\ segs'[<<c, x>>] = segs[<<c, x>>]
                                 /\ MarkedIn(dels, c, list)[x] \subseteq MarkedIn(dels', c, list)[x]
      BY <1>4, Zenon DEF MarkedIn
    <3> HIDE DEF list
    <3>3. OldDead(segs', c, list, MarkedIn(dels', c, list))
      BY <3>1, <3>2, OldDeadGrows
    <3> QED
      BY <3>3 DEF list
  <2> QED
    BY <1>1, <2>1, <2>2, <2>3, Zenon DEF DiskRows
<1>6. MemRows'
  <2>1. ASSUME NEW c \in DOMAIN colls PROVE CollRows(segs', dels', c, colls[c])
    <3>1. CollRows(segs, dels, c, colls[c])
      BY DEF RowsInv, MemRows
    <3>2. Covered(c, colls[c])
      BY <1>1 DEF StoreInv, FilesInv
    <3>3. \A x \in Image(colls[c].segs) :
            c \in DOMAIN manifest.colls /\ x \in Image(manifest.colls[c].segs)
      BY <3>2 DEF Covered, Image
    <3>4. \A x \in Image(colls[c].segs) : /\ segs'[<<c, x>>] = segs[<<c, x>>]
                                          /\ Marked(dels', <<c, x>>) = Marked(dels, <<c, x>>)
      BY <1>4, <3>3, Zenon
    <3>5. SameFiles(segs, dels, segs', dels', c, colls[c].segs)
      BY <3>4, Zenon DEF SameFiles
    <3> QED
      BY <3>1, <3>5, SameRows, Zenon
  <2> QED
    BY <1>1, <2>1 DEF MemRows
<1>7. SealRows'
  BY <1>1, NoSealRows
<1> QED
  BY <1>3, <1>5, <1>6, <1>7 DEF RowsInv

\* When recovery has collected the orphans, every file left is the manifest's, below the
\* segment counter.
LEMMA GcDoneRows ==
  ASSUME StoreInv, StoreInv', RowsInv, GcDone
  PROVE  RowsInv'
<1>1. /\ pc = "gc" /\ OrphansGone /\ pc' \in {"newwal", "compact", "shred", "idle"}
      /\ UNCHANGED <<manifest, segs, dels, dirs, colls, ctr>>
  BY DEF GcDone, disk, mem
<1>2. SegFiles' = SegFiles
  BY <1>1 DEF SegFiles
<1>3. \A f \in SegFiles : f[2] < ctr.seg
  <2> SUFFICES ASSUME NEW f \in SegFiles PROVE f[2] < ctr.seg
    OBVIOUS
  <2>1. f[1] \in DOMAIN manifest.colls
    BY <1>1 DEF OrphansGone, DeadDirs, RowsInv, SegIds
  <2>2. f[2] \in Image(manifest.colls[f[1]].segs)
    BY <1>1, <2>1 DEF OrphansGone, DeadSegs, DeadDels, Unreferenced, SegFiles
  <2>3. f[2] < manifest.seg /\ manifest.seg <= ctr.seg
    BY <1>1, <2>1, <2>2 DEF RowsInv, SegIds
  <2>4. manifest.seg \in Nat /\ ctr.seg \in Nat
    BY TypeFacts, Zenon DEF CtrType, StoreInv, TypeOK
  <2>5. f[2] \in Nat
    <3>1. f \in Nat \X Nat
      BY Zenon DEF SegFiles, StoreInv, TypeOK, MapOn, IsMap
    <3> QED
      BY <3>1
  <2> QED
    BY <2>3, <2>4, <2>5
<1>4. SegIds'
  BY <1>1, <1>2, <1>3, Zenon DEF RowsInv, SegIds
<1>5. DiskRows' /\ MemRows'
  BY <1>1, Zenon DEF RowsInv, DiskRows, MemRows
<1>6. SealRows'
  BY <1>1, NoSealRows
<1> QED
  BY <1>4, <1>5, <1>6 DEF RowsInv

-----------------------------------------------------------------------------
(* Crashes and recovery.                                                   *)

\* Recovery opens every collection with its rows in order.
LEMMA OpenRows ==
  ASSUME StoreInv, StoreInv', RowsInv, Open
  PROVE  RowsInv'
<1>1. /\ pc' = "replay" /\ job'.opening = TRUE /\ ctr'.seg = manifest.seg
      /\ UNCHANGED <<manifest, segs, dels, dirs>>
      /\ DOMAIN colls' = DOMAIN manifest.colls
      /\ \A c \in DOMAIN manifest.colls : colls'[c] = Opened(c, manifest.colls[c])
  BY DEF Open, disk, NoJob
<1>2. manifest.seg \in Nat
  BY Zenon DEF StoreInv, TypeOK
<1>3. SegIds'
  <2>1. ~Settled'
    BY <1>1 DEF Settled
  <2>2. SegFiles' = SegFiles
    BY <1>1 DEF SegFiles
  <2>3. manifest'.seg <= ctr'.seg
    BY <1>1, <1>2
  <2>4. /\ \A f \in SegFiles' : f[1] \in dirs'
        /\ \A c \in DOMAIN manifest'.colls :
             \A s \in Image(manifest'.colls[c].segs) : s < manifest'.seg
    BY <1>1, <2>2, Zenon DEF RowsInv, SegIds
  <2> QED
    BY <1>1, <2>1, <2>3, <2>4, Zenon DEF SegIds
<1>4. DiskRows'
  BY <1>1, Zenon DEF RowsInv, DiskRows
<1>5. ASSUME NEW c \in DOMAIN manifest.colls
      PROVE  CollRows(segs, dels, c, Opened(c, manifest.colls[c]))
  <2> DEFINE list == manifest.colls[c].segs
             d == Opened(c, manifest.colls[c])
  <2>1. /\ d.segs = list /\ d.active = EmptyMap /\ d.win = {}
        /\ d.dead = MarkedIn(dels, c, list)
    BY Zenon DEF Opened, MarkedIn, Marked
  <2>2. OldDead(segs, c, list, MarkedIn(dels, c, list))
    BY DEF RowsInv, DiskRows
  <2>3. \A s \in Image(list) : <<c, s>> \in DOMAIN segs
    BY Zenon DEF StoreInv, FilesInv, OnDisk
  <2> HIDE DEF list, d
  <2>4. DOMAIN d.active = {} /\ \A s : WinOf(d, s) = {}
    BY <2>1, EmptyMapProperties, Zenon DEF WinOf
  <2>5. \A s \in Image(list) : /\ d.dead[s] = Marked(dels, <<c, s>>)
                               /\ Marked(dels, <<c, s>>) \subseteq DOMAIN segs[<<c, s>>]
    BY <2>1, <2>3, Zenon DEF MarkedIn, Marked, RowsInv, DiskRows
  <2>6. \A s \in Image(list) : SegmentRows(segs, dels, c, d, s)
    BY <2>4, <2>5, Zenon DEF SegmentRows
  <2>7. IsFiniteSet(DOMAIN d.active)
    BY <2>4, FS_EmptySet
  <2> QED
    BY <2>1, <2>2, <2>6, <2>7, Zenon DEF CollRows, d
<1>6. MemRows'
  BY <1>1, <1>5 DEF MemRows
<1>7. SealRows'
  BY <1>1, NoSealRows
<1> QED
  BY <1>3, <1>4, <1>6, <1>7 DEF RowsInv

\* A crash leaves the files as they are.
LEMMA CrashRows ==
  ASSUME StoreInv, StoreInv', RowsInv, Kill \/ PowerLoss
  PROVE  RowsInv'
<1>1. pc' = "down" /\ colls' = EmptyMap /\ UNCHANGED <<manifest, segs, dels, dirs>>
  BY DEF Kill, PowerLoss, Crash
<1>2. KeepsFiles
  <2>1. ~Settled'
    BY <1>1 DEF Settled
  <2> QED
    BY <1>1, <2>1 DEF KeepsFiles
<1>3. MemRows'
  BY <1>1, EmptyMapProperties DEF MemRows
<1>4. SealRows'
  BY <1>1, NoSealRows
<1> QED
  BY <1>2, <1>3, <1>4, KeepsFilesRows DEF RowsInv

-----------------------------------------------------------------------------
(* Every step.                                                             *)

\* Every step keeps the invariant.
LEMMA RowsStep == StoreInv /\ StoreInv' /\ RowsInv /\ [Next]_vars => RowsInv'
<1> SUFFICES ASSUME StoreInv, StoreInv', RowsInv, [Next]_vars PROVE RowsInv'
  OBVIOUS
<1>1. CASE \/ Mutate \/ SyncWal \/ (\E blobs : Checkpoint(blobs)) \/ WriteIndexSnapshot
           \/ RewriteManifest \/ RotateWal \/ TrimWal \/ GcShredKey \/ GcIndexSnapshot
           \/ ShredKey \/ Compact \/ ReplayDone \/ StartWal \/ AppendFails \/ SealFails
           \/ RotateFails \/ UNCHANGED vars
  BY <1>1, QuietRowsInv
<1>2. CASE ApplyFrame \/ ReplayFrame
  BY <1>2, ApplyRows
<1>3. CASE WriteDel
  BY <1>3, WriteDelRows
<1>4. CASE SealActive
  BY <1>4, SealActiveRows
<1>5. CASE MergeSegments
  BY <1>5, MergeRows
<1>6. CASE SwapCheckpoint \/ SwapCompaction \/ SwapFails
  BY <1>6, SwapRows
<1>7. CASE GcRemoveDir \/ GcSegment
  BY <1>7, CollectRows
<1>8. CASE GcDone
  BY <1>8, GcDoneRows
<1>9. CASE Open
  BY <1>9, OpenRows
<1>10. CASE Kill \/ PowerLoss
  BY <1>10, CrashRows
<1> QED
  BY <1>1, <1>2, <1>3, <1>4, <1>5, <1>6, <1>7, <1>8, <1>9, <1>10, Zenon
     DEF Next, Maintain, Proceed, Fault, Wait

\* A new store has no rows.
LEMMA RowsInit == Init => RowsInv
<1> SUFFICES ASSUME Init PROVE RowsInv
  OBVIOUS
<1>1. /\ pc = "down" /\ DOMAIN segs = {} /\ DOMAIN dels = {} /\ DOMAIN colls = {}
      /\ DOMAIN manifest.colls = {} /\ DOMAIN job.new = {}
  BY EmptyMapProperties, NoJobType, Zenon DEF Init
<1> QED
  BY <1>1, Zenon DEF RowsInv, SegIds, SegFiles, Settled, DiskRows, MemRows, SealRows

=============================================================================

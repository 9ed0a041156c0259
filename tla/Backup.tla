------------------------------- MODULE Backup -------------------------------
(* Database::snapshot and restore_snapshot: the data directory is copied    *)
(* file by file, in the order the directory lists, while the writer lock is *)
(* held, and a copy is what a later open makes of it.  One collection with  *)
(* one filterable field, whose value is all a row holds.  A directory is a  *)
(* function from its files to what is in them; the write-ahead log is left  *)
(* out, since the checkpoint a snapshot begins with empties it, and the     *)
(* columns of a segment are one file.                                       *)
EXTENDS Naturals, TLC, Functions, FiniteSetsExt

CONSTANTS Ids, Vals,
          MaxWrites, MaxSegs, MaxFailures \* bounds

VARIABLES
  disk,    \* the live data directory
  active,  \* the live active buffer: id -> a value, or Gone for a delete
  dir,     \* the directories "backup" and "restored", those that exist
  copy,    \* the copy in progress: its source's files, its target, what is left
  taken,   \* history: the rows a reader saw when the snapshot was called
  done,    \* history: the directories whose copy completed from a complete source
  bound

vars == <<disk, active, dir, copy, taken, done, bound>>

Empty == [x \in {} |-> x]
Gone == "gone"
Ok(x) == <<"ok", x>>  \* a file with x in it
Torn == <<"torn">>    \* a file whose copy stopped part of the way
Targets == {"backup", "restored"}
Idle == [to |-> "none", left |-> {}]

Current == <<"CURRENT", 0>>
Manifest(n) == <<"MANIFEST", n>>
Dek == <<"dek", 1>>
Rows(s) == <<"rows", s>>
Del(s) == <<"del", s>>
Sec(s) == <<"sec", s>>

-----------------------------------------------------------------------------
(* What an open makes of a directory.                                       *)

Version(d) == d[Current][2]
Segs(d) == d[Manifest(Version(d))][2]
Row(d, s) == d[Rows(s)][2]

\* read_del, read_sec: a file that is not there reads as an empty one.
Dead(d, s) == IF Del(s) \in DOMAIN d THEN d[Del(s)][2] ELSE {}
SecIndex(d, s) == IF Sec(s) \in DOMAIN d THEN d[Sec(s)][2] ELSE Empty

\* open_with_keyring: refused when a file it reads is torn, when the manifest that
\* CURRENT names or the collection's key is not there, or a segment's columns.
Whole(d, f) == f \in DOMAIN d /\ d[f] # Torn
Refused(d) ==
  /\ Current \in DOMAIN d
  /\ ~ /\ Whole(d, Current) /\ Whole(d, Manifest(Version(d))) /\ Whole(d, Dek)
       /\ \A s \in Segs(d) :
            Whole(d, Rows(s)) /\ \A f \in {Del(s), Sec(s)} : f \in DOMAIN d => d[f] # Torn

\* The rows that are live, and per value the ids a filtered query finds through the
\* segments' secondary indexes.  No CURRENT: an empty store.
Live(d, s) == DOMAIN Row(d, s) \ Dead(d, s)
Sealed(d) ==
  IF Current \notin DOMAIN d THEN {}
  ELSE UNION {{<<i, Row(d, s)[i]>> : i \in Live(d, s)} : s \in Segs(d)}
Indexed(d, v) ==
  IF Current \notin DOMAIN d THEN {}
  ELSE {i \in Ids : \E s \in Segs(d) :
          i \in Live(d, s) /\ i \in DOMAIN SecIndex(d, s) /\ SecIndex(d, s)[i] = v}

\* What a reader of the running database sees: the buffer over the segments.
Visible(d, a) ==
  {x \in Sealed(d) : x[1] \notin DOMAIN a}
    \cup {<<i, a[i]>> : i \in {j \in DOMAIN a : a[j] # Gone}}

Init ==
  /\ disk = (Current :> Ok(1)) @@ (Manifest(1) :> Ok({})) @@ (Dek :> Ok("key"))
  /\ active = Empty
  /\ dir = Empty
  /\ copy = Idle /\ taken = {} /\ done = {}
  /\ bound = [writes |-> 0, failures |-> 0]

-----------------------------------------------------------------------------
(* The live database.  Every call takes the writer lock, which a snapshot   *)
(* holds until its copy ends.                                               *)

Unlocked == copy.to # "backup"
Write(i, w) ==
  /\ Unlocked /\ bound.writes < MaxWrites
  /\ active' = (i :> w) @@ active
  /\ bound' = [bound EXCEPT !.writes = @ + 1]
  /\ UNCHANGED <<disk, dir, copy, taken, done>>
upsert(i, v) == Write(i, v)
delete(i) ==
  /\ i \in DOMAIN active \/ \E r \in Sealed(disk) : r[1] = i
  /\ Write(i, Gone)

\* Store::checkpoint: the buffer is sealed as a segment, the rows it shadows are
\* marked in the other segments' .del, and a new manifest is made current.
checkpoint(d, a) ==
  LET n == Version(d) + 1
      s == Cardinality(Segs(d)) + 1
      rows == Restrict(a, {i \in DOMAIN a : a[i] # Gone})
      segs == IF DOMAIN rows = {} THEN Segs(d) ELSE Segs(d) \cup {s}
      dels == {t \in Segs(d) : Live(d, t) \cap DOMAIN a # {}}
      new == [f \in {Rows(t) : t \in segs \ Segs(d)} \cup {Sec(t) : t \in segs \ Segs(d)}
                |-> Ok(rows)]
      marked == [f \in {Del(t) : t \in dels}
                   |-> Ok(Dead(d, f[2]) \cup (DOMAIN Row(d, f[2]) \cap DOMAIN a))]
      kept == Restrict(d, DOMAIN d \ {Manifest(Version(d))})
  IN  IF a = Empty THEN d
      ELSE marked @@ new @@ (Manifest(n) :> Ok(segs)) @@ (Current :> Ok(n)) @@ kept

Checkpoint ==
  LET d == checkpoint(disk, active) IN
  /\ Unlocked /\ Cardinality(Segs(d)) <= MaxSegs
  /\ disk' = d /\ active' = Empty
  /\ UNCHANGED <<dir, copy, taken, done, bound>>

-----------------------------------------------------------------------------
(* Copies.                                                                  *)

\* copy_tree creates the target and walks the source.
StartCopy(to, src) ==
  /\ to \notin DOMAIN dir /\ dir' = (to :> Empty) @@ dir
  /\ copy' = [to |-> to, left |-> DOMAIN src]

\* Mutant: no checkpoint first.
snapshot_as_is ==
  /\ copy = Idle
  /\ StartCopy("backup", disk)
  /\ taken' = Visible(disk, active)
  /\ UNCHANGED <<disk, active, done, bound>>

snapshot ==
  LET d == checkpoint(disk, active) IN
  /\ copy = Idle
  /\ Cardinality(Segs(d)) <= MaxSegs
  /\ disk' = d /\ active' = Empty
  /\ StartCopy("backup", d)
  /\ taken' = Visible(disk, active)
  /\ UNCHANGED <<done, bound>>

\* restore_snapshot only asks for a CURRENT.
restore_snapshot ==
  /\ copy = Idle
  /\ "backup" \in DOMAIN dir /\ Current \in DOMAIN dir["backup"]
  /\ StartCopy("restored", dir["backup"])
  /\ UNCHANGED <<disk, active, taken, done, bound>>

Source == IF copy.to = "backup" THEN disk ELSE dir["backup"]
\* The files are copied one by one, in no order the code sets; here some, then the
\* others, which is all a copy that stops, or another thread, can tell.
CopyFiles(S) ==
  /\ copy # Idle /\ S # {} /\ S \subseteq copy.left
  /\ dir[copy.to] # Empty => S = copy.left
  /\ dir' = [dir EXCEPT ![copy.to] = Restrict(Source, S) @@ @]
  /\ copy' = [copy EXCEPT !.left = @ \ S]
  /\ UNCHANGED <<disk, active, taken, done, bound>>

EndCopy ==
  /\ copy # Idle /\ copy.left = {}
  /\ done' = IF copy.to = "backup" \/ "backup" \in done THEN done \cup {copy.to} ELSE done
  /\ copy' = Idle
  /\ UNCHANGED <<disk, active, dir, taken, bound>>

\* An I/O error, a full disk or the end of the process: what was copied stays, and
\* the file being copied may be there in part.
FailCopy ==
  /\ copy # Idle /\ copy.left # {} /\ bound.failures < MaxFailures
  /\ \/ dir' = dir
     \/ \E f \in copy.left : dir' = [dir EXCEPT ![copy.to] = (f :> Torn) @@ @]
  /\ copy' = Idle
  /\ bound' = [bound EXCEPT !.failures = @ + 1]
  /\ UNCHANGED <<disk, active, taken, done>>

Next ==
  \/ Checkpoint
  \/ \E i \in Ids : delete(i) \/ \E v \in Vals : upsert(i, v)
  \/ snapshot \/ restore_snapshot \/ EndCopy \/ FailCopy
  \/ \E S \in SUBSET copy.left : CopyFiles(S)

Spec == Init /\ [][Next]_vars

-----------------------------------------------------------------------------
TypeOK ==
  /\ Whole(disk, Manifest(Version(disk))) /\ Segs(disk) \subseteq 1..MaxSegs
  /\ DOMAIN active \subseteq Ids /\ Range(active) \subseteq Vals \cup {Gone}
  /\ copy.to \in Targets \cup {"none"} /\ done \subseteq Targets

\* Opening a snapshot "reconstructs the database exactly as of this call" (snapshot),
\* and so does opening what was restored from it, whatever is written after it.
CopiesExact ==
  \A t \in done :
    /\ ~Refused(dir[t])
    /\ Sealed(dir[t]) = taken
    /\ \A v \in Vals : Indexed(dir[t], v) = {x[1] : x \in {y \in taken : y[2] = v}}

\* A snapshot changes nothing a reader sees: every row and every index entry the live
\* store holds is the one it held before its checkpoint, deletes included.
WritesAreVisible ==
  bound'.writes = bound.writes => Visible(disk, active)' = Visible(disk, active)
SnapshotInvisible == [][WritesAreVisible]_vars
=============================================================================

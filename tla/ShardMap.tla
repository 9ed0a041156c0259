------------------------------ MODULE ShardMap ------------------------------
(* The versioned shard map of crate quiver-cluster, as operators: a map is  *)
(* [version, shards, joining, leaving], and every operation that may refuse *)
(* is a guard and a result.  hrw_score is any function that tells the       *)
(* shards apart for every point: a wrapping 64-bit hash in the code.        *)
EXTENDS Naturals, Sequences, FiniteSetsExt, SequencesExt

CONSTANTS Ids,       \* point ids, numbers: a scan returns them in order
          ShardIds,  \* shard ids ever given out, numbers
          hrw_score  \* hrw_score[s][i]: the weight of shard s for point i

ASSUME ScoreAssumption ==
  /\ Ids \subseteq Nat /\ ShardIds \subseteq Nat
  /\ \A s, t \in ShardIds, i \in Ids :
       hrw_score[s][i] \in Nat /\ (s # t => hrw_score[s][i] # hrw_score[t][i])

Shards(m) == ToSet(m.shards)
is_joining(m, s) == s \in m.joining
is_leaving(m, s) == s \in m.leaving

from_shards(ids) == [version |-> 0, shards |-> ids, joining |-> {}, leaving |-> {}]

-----------------------------------------------------------------------------
(* Membership.                                                              *)

CanAdd(m, s) == s \notin Shards(m)
add_joining_shard(m, s) ==
  [m EXCEPT !.shards = Append(@, s), !.joining = @ \cup {s}, !.version = @ + 1]

CanPromote(m, s) == is_joining(m, s)
promote(m, s) == [m EXCEPT !.joining = @ \ {s}, !.version = @ + 1]

CanLeave(m, s) ==
  /\ s \in Shards(m) /\ ~is_leaving(m, s) /\ ~is_joining(m, s)
  /\ \E t \in Shards(m) \ {s} : ~is_leaving(m, t) /\ ~is_joining(m, t)
mark_leaving(m, s) == [m EXCEPT !.leaving = @ \cup {s}, !.version = @ + 1]

CanCancel(m, s) == is_leaving(m, s)
cancel_leave(m, s) == [m EXCEPT !.leaving = @ \ {s}, !.version = @ + 1]

CanRemove(m, s) == s \in Shards(m) /\ Len(m.shards) > 1
\* Mutant: the removed shard stays marked.
remove_shard_marked(m, s) ==
  [m EXCEPT !.shards = SelectSeq(@, LAMBDA t : t # s), !.version = @ + 1]

remove_shard(m, s) ==
  [m EXCEPT !.shards = SelectSeq(@, LAMBDA t : t # s),
            !.joining = @ \ {s}, !.leaving = @ \ {s}, !.version = @ + 1]

-----------------------------------------------------------------------------
(* Routing.                                                                 *)

hrw_among(S, i) == CHOOSE s \in S : \A t \in S : hrw_score[t][i] <= hrw_score[s][i]

shard_for(m, i) ==
  LET staying == Shards(m) \ m.leaving IN
  hrw_among(IF staying # {} THEN staying ELSE Shards(m), i)

\* The shard that still holds the point while its owner is joining, or while it
\* is leaving itself: a set of at most one.
donor_for(m, i) ==
  LET before == hrw_among(Shards(m), i)
      settled == Shards(m) \ (m.joining \cup m.leaving)
  IN
  IF is_leaving(m, before) THEN {before}
  ELSE IF is_joining(m, shard_for(m, i)) /\ settled # {} THEN {hrw_among(settled, i)}
  ELSE {}

active_shards(m) == Shards(m) \ m.joining

\* get_points: the donor if there is one, else the owner.
get_shard(m, i) ==
  IF donor_for(m, i) # {} THEN CHOOSE s \in donor_for(m, i) : TRUE ELSE shard_for(m, i)
=============================================================================

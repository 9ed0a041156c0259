------------------------------ MODULE MCSearch ------------------------------
(***************************************************************************)
(* One run for the search side of the engine.  The parts share no state;   *)
(* `part` says which one a behaviour exercises, and the variables of the   *)
(* others stay parked, so the state space is the sum of the parts'.        *)
(***************************************************************************)
EXTENDS Integers, Sequences, FiniteSets

VARIABLES part,
  sealed, window, active, index, pwrites,              \* Planner
  rows, inv, stale, restored, hwrites,                 \* HybridSearch
  at, k, l, done,                                      \* TopK
  ivf, held, splits, stray,                            \* Ivf
  hnsw, hpruned,                                       \* Hnsw
  graph, batch, vpruned,                               \* Vamana
  docs, built, cents, pool, deleted, idmap, lstale, lwrites  \* LateInteraction

Parked == <<>>
plannerVars == <<sealed, window, active, index, pwrites>>
hybridVars == <<rows, inv, stale, restored, hwrites>>
topkVars == <<at, k, l, done>>
ivfVars == <<ivf, held, splits, stray>>
hnswVars == <<hnsw, hpruned>>
vamanaVars == <<graph, batch, vpruned>>
lateVars == <<docs, built, cents, pool, deleted, idmap, lstale, lwrites>>

----------------------------------------------------------------------------
(* Payloads and filters: integers on both sides of 2 = Exact, the largest a *)
(* double keeps, a string, a missing field, null and -0.0.                  *)
Missing == [t |-> "missing"]
Null == [t |-> "null"]
Str(s) == [t |-> "str", v |-> s]
Whole(n) == [t |-> "int", v |-> n]
Double(n) == [t |-> "float", v |-> n]
NegativeZero == [t |-> "negzero", v |-> 0]
Row(n, w, u) == [f \in {"n", "w", "u"} |-> CASE f = "n" -> n [] f = "w" -> w [] f = "u" -> u]
SomePayloads ==
  {Row(Whole(3), Str(1), Missing), Row(Double(0), Missing, Null), Row(NegativeZero, Whole(3), Whole(4))}
Declared == [f \in {"n", "w"} |-> IF f = "n" THEN "numeric" ELSE "keyword"]
Below == [op |-> "Lt", field |-> "n", value |-> Whole(4)]
Simple ==
  {Below, [op |-> "Gte", field |-> "n", value |-> Double(0)],
   [op |-> "Exists", field |-> "u"]} \cup [op : {"Eq", "Ne"}, field : {"w"}, value : {Str(1)}]
SomeFilters ==
  [op : {"Eq", "Lte"}, field : {"n"}, value : {Whole(4), Double(0)}]
  \cup [op : {"Gt", "Gte"}, field : {"n"}, value : {Whole(3), Double(0)}]
  \cup [op : {"Eq", "Lt"}, field : {"w"}, value : {Str(1), Whole(3)}]
  \cup {[op |-> "In", field |-> "n", values |-> {Whole(3), Double(0)}],
        [op |-> "In", field |-> "w", values |-> {Str(2), Null}]}
  \cup {[op |-> o, subs |-> s] : o \in {"And", "Or"}, s \in {{}} \cup {{Below, f} : f \in Simple \ {Below}}}
  \cup {[op |-> "Not", sub |-> f] : f \in Simple} \cup Simple

P == INSTANCE Planner WITH
  Ids <- {1, 2}, Payloads <- SomePayloads, Filters <- SomeFilters, filterable <- Declared, Exact <- 2,
  FULL_SCAN_THRESHOLD <- 1, FILTER_OVERFETCH <- 1, MaxK <- 2, MaxSegments <- 2, MaxWrites <- 3,
  writes <- pwrites

----------------------------------------------------------------------------
(* Rows without terms, with explicit sparse vectors (one of them with a     *)
(* repeated index), and with text; 9 is a stop word.                        *)
Sparse(is, vs) == [t |-> "sparse", indices |-> is, values |-> vs]
Text(toks) == [t |-> "text", tokens |-> toks]
H == INSTANCE HybridSearch WITH
  Ids <- {1, 2, 3},
  Payloads <- {[t |-> "plain"], Sparse(<<1, 2>>, <<2, 1>>), Sparse(<<2>>, <<-1>>), Sparse(<<1, 1>>, <<1, 3>>),
               Text(<<1, 9, 1>>), Text(<<2, 3>>)},
  StopWords <- {9}, Queries <- {<<1>>, <<1, 2>>, [d \in {2, 3} |-> IF d = 2 THEN -1 ELSE 2]},
  Texts <- {<<1>>, <<9>>, <<3, 9, 2>>}, Durable <- TRUE, MaxWrites <- 3, writes <- hwrites

T == INSTANCE TopK WITH Points <- {1, 2, 3, 4}, MaxK <- 4, MaxBias <- 1, Scale <- 60

I == INSTANCE Ivf WITH
  Ids <- {1, 2, 3}, Positions <- {0, 1}, Huge <- {}, Grain <- 1, nlist <- 2, max_postings <- 2,
  min_postings <- 2, REASSIGN_NEIGHBORS <- 2, MaxSplits <- 1, rows <- held

N == INSTANCE Hnsw WITH
  Positions <- {0, 1, 3}, MaxLevel <- 1, m <- 2, ef_construction <- 2, MaxNodes <- 4, pruned <- hpruned

V == INSTANCE Vamana WITH
  Positions <- {0, 1, 3}, r <- 2, l_build <- 2, AlphaNum <- 6, AlphaDen <- 5, Grain <- 2,
  nodes_per_page <- 2, MaxBuild <- 3, MaxNodes <- 6, pruned <- vpruned

\* Product quantisation keeps a residual to a multiple of two.
Halved(x) == IF x >= 0 THEN 2 * (x \div 2) ELSE -(2 * ((-x) \div 2))
L == INSTANCE LateInteraction WITH
  Docs <- {1, 2}, Values <- {-1, 2}, MaxTokens <- 2, Quantized <- Halved,
  MULTIVECTOR_EXACT_DOC_THRESHOLD <- 1, MULTIVECTOR_CANDIDATE_FACTOR <- 2, RebuildInverse <- 2,
  Queries <- {<<1>>, <<1, -2>>}, Ks <- {1, 2}, Efs <- {0, 2}, MaxWrites <- 3,
  stale <- lstale, writes <- lwrites

----------------------------------------------------------------------------
Others(name) ==
  /\ name # "planner" => sealed = Parked /\ window = Parked /\ active = Parked /\ index = Parked /\ pwrites = Parked
  /\ name # "hybrid" => rows = Parked /\ inv = Parked /\ stale = Parked /\ restored = Parked /\ hwrites = Parked
  /\ name # "topk" => at = Parked /\ k = Parked /\ l = Parked /\ done = Parked
  /\ name # "ivf" => ivf = Parked /\ held = Parked /\ splits = Parked /\ stray = Parked
  /\ name # "hnsw" => hnsw = Parked /\ hpruned = Parked
  /\ name # "vamana" => graph = Parked /\ batch = Parked /\ vpruned = Parked
  /\ name # "late" =>
       /\ docs = Parked /\ built = Parked /\ cents = Parked /\ pool = Parked
       /\ deleted = Parked /\ idmap = Parked /\ lstale = Parked /\ lwrites = Parked

Init ==
  \/ part = "planner" /\ P!Init /\ Others("planner")
  \/ part = "hybrid"  /\ H!Init /\ Others("hybrid")
  \/ part = "topk"    /\ T!Init /\ Others("topk")
  \/ part = "ivf"     /\ I!Init /\ Others("ivf")
  \/ part = "hnsw"    /\ N!Init /\ Others("hnsw")
  \/ part = "vamana"  /\ V!Init /\ Others("vamana")
  \/ part = "late"    /\ L!Init /\ Others("late")

Next ==
  \/ part = "planner" /\ P!Next /\ UNCHANGED <<part, hybridVars, topkVars, ivfVars, hnswVars, vamanaVars, lateVars>>
  \/ part = "hybrid"  /\ H!Next /\ UNCHANGED <<part, plannerVars, topkVars, ivfVars, hnswVars, vamanaVars, lateVars>>
  \/ part = "topk"    /\ T!Next /\ UNCHANGED <<part, plannerVars, hybridVars, ivfVars, hnswVars, vamanaVars, lateVars>>
  \/ part = "ivf"     /\ I!Next /\ UNCHANGED <<part, plannerVars, hybridVars, topkVars, hnswVars, vamanaVars, lateVars>>
  \/ part = "hnsw"    /\ N!Next /\ UNCHANGED <<part, plannerVars, hybridVars, topkVars, ivfVars, vamanaVars, lateVars>>
  \/ part = "vamana"  /\ V!Next /\ UNCHANGED <<part, plannerVars, hybridVars, topkVars, ivfVars, hnswVars, lateVars>>
  \/ part = "late"    /\ L!Next /\ UNCHANGED <<part, plannerVars, hybridVars, topkVars, ivfVars, hnswVars, vamanaVars>>

vars == <<part, plannerVars, hybridVars, topkVars, ivfVars, hnswVars, vamanaVars, lateVars>>
Spec == Init /\ [][Next]_vars

----------------------------------------------------------------------------
\* The type invariant of the part that is exercised.
TypeOK ==
  /\ part = "planner" => P!TypeOK
  /\ part = "hybrid" => H!TypeOK
  /\ part = "topk" => T!TypeOK
  /\ part = "ivf" => I!TypeOK
  /\ part = "hnsw" => N!TypeOK
  /\ part = "vamana" => V!TypeOK
  /\ part = "late" => L!TypeOK

\* Planner: a filter's candidates cover its matches, both arms answer live matches
\* in order, a short answer is complete, and the pages of fetch return every match
\* once.
FilteredExact ==
  part = "planner" =>
    P!CandidatesCover /\ P!SearchExact /\ P!ShortIsComplete /\ P!PagesTile



\* Ivf, Hnsw, Vamana: an index keeps its own structure through inserts, deletes,
\* splits, merges and restores, and a search wide enough finds exactly its points.
IndexesExact ==
  /\ part = "ivf" => I!WellFormed /\ I!FindsAll /\ I!Restores
  /\ part = "hnsw" => N!LinksSound /\ N!ExactWhenWide
  /\ part = "vamana" => V!DegreeBounded /\ V!ExactWhenWide /\ V!DiskAgrees

\* LateInteraction: the token pool holds the tokens of the live documents, a returned
\* document is live, with its exact score, in order, and candidates that cover the
\* documents make the answer exact.
DocumentsRanked ==
  part = "late" => L!PoolExact /\ L!NeverWrong /\ L!ExactWhenCovered
=============================================================================

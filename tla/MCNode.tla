------------------------------- MODULE MCNode -------------------------------
(* One node and its tools, part by part: the documents of module Documents, *)
(* which this module extends, the readers beside a rebuild, the durable     *)
(* index, a request's way through the server, the rate limit, an import,    *)
(* the MCP server, a snapshot, the files of a segment and the layouts of a  *)
(* descriptor.  A behaviour is one part's; the variables of the others are  *)
(* parked.                                                                  *)
EXTENDS Documents, Sequences, TLC

VARIABLES
  part,
  inc, created, live, h, cells, cached, built, gate, rebuilding, build,
  rd, dropping, puts, past, crossed, late,                         \* Serving
  stored, seg, touched, blob, column, qvx, handle, ops, newer, merged,
  doubtful,                                                        \* IndexRecovery
  mode, leader, engine, shards, req, served,                       \* Gateway
  now, instant, bucket, admitted, promise, regressed,              \* RateLimit
  source, run, target, edits, runs, kept, shifted, before,         \* Import
  colls, asked, replies, heard,                                    \* Mcp
  disk, active, dir, copy, taken, done, bound,                     \* Backup
  aead, sealed, files, damage,                                     \* SegmentFiles
  descriptor, bytes, memory                                        \* DescriptorLayouts

documentsVars == <<rows, docs, stale, gen, task, writes, last, torn, behind, crashes>>
servingVars == <<inc, created, live, h, cells, cached, built, gate, rebuilding,
                 build, rd, dropping, puts, past, crossed, late>>
recoveryVars == <<stored, seg, touched, blob, column, qvx, handle, ops, newer,
                  merged, doubtful>>
gatewayVars == <<mode, leader, engine, shards, req, served>>
limitVars == <<now, instant, bucket, admitted, promise, regressed>>
importVars == <<source, run, target, edits, runs, kept, shifted, before>>
mcpVars == <<colls, asked, replies, heard>>
backupVars == <<disk, active, dir, copy, taken, done, bound>>
filesVars == <<aead, sealed, files, damage>>
layoutsVars == <<descriptor, bytes, memory>>
allVars == <<part, documentsVars, servingVars, recoveryVars, gatewayVars, limitVars,
              importVars, mcpVars, backupVars, filesVars, layoutsVars>>

\* A collection found on disk at the start, empty or not.
OnDisk == {[i \in {} |-> {}], 1 :> "v"}
\* Keys of every role; the last one sees every collection.
ApiKeys == {"reader", "writer", "owner", "admin"}
RoleOf == [k \in ApiKeys |-> CASE k = "reader" -> 1 [] k = "writer" -> 2 [] OTHER -> 3]
ScopeOf == [k \in ApiKeys |-> IF k = "admin" THEN {"a", "b"} ELSE {"a"}]
\* The numbers 1 and 2, and the string "1".
AsText(i) == IF i = 3 THEN 1 ELSE i
\* Ids that are prefixes of each other; with pages of three bytes, cells end before,
\* on and after a page boundary.
SomeIds == {<<1>>, <<1, 1>>, <<1, 2>>, <<2>>, <<2, 1, 1>>}

S == INSTANCE Serving WITH
  Ids <- {1, 2}, Vals <- {"v"}, RebuildInverse <- 1, OverlayFloor <- 1, Readers <- {"r"},
  Kind <- "ivf", Modes <- BOOLEAN, Reopen <- OnDisk, MaxWrites <- 2, MaxCreates <- 2,
  rows <- live, task <- build, writes <- puts
I == INSTANCE IndexRecovery WITH
  Ids <- {1, 2, 3}, Vals <- {"v"}, RebuildInverse <- 1, OverlayFloor <- 2,
  DurableKinds <- {"hnsw", "vamana", "disk", "ivf"}, MaxOps <- 4,
  rows <- stored, h <- handle
G == INSTANCE Gateway WITH
  Colls <- {"a", "b"}, Keys <- ApiKeys, KeyRole <- RoleOf, KeyScope <- ScopeOf,
  Deployments <- {"single", "follower", "router", "raft"}, Providers <- {"a"}, MaxRequests <- 2
L == INSTANCE RateLimit WITH
  Threads <- {"t", "u"}, Ticks <- 2, requests_per_second <- 1, burst <- 2, MaxNow <- 6,
  MaxAdmitted <- 5,
  read <- instant
M == INSTANCE Import WITH
  SourceIds <- {1, 2, 3}, Text <- AsText, Dims <- {1, 2}, Batch <- 1, MaxEdits <- 1, MaxRuns <- 2
P == INSTANCE Mcp WITH
  Names <- {"a"}, Ids <- {1, 2}, Embedded <- {"a"}, Reranked <- {"a"}, Scores <- {1, 2},
  Sizes <- {0, 1, 5}, RERANK_CANDIDATES <- 2, MCP_MAX_K <- 2, MaxMessages <- 4
B == INSTANCE Backup WITH
  Ids <- {1, 2}, Vals <- {"x", "y"}, MaxWrites <- 2, MaxSegs <- 2, MaxFailures <- 1
F == INSTANCE SegmentFiles WITH
  PAGE_BODY_CAP <- 3, IdSet <- SomeIds, PayloadSet <- {<<>>, <<7>>, <<7, 8>>}, MaxRows <- 3,
  rows <- sealed
D == INSTANCE DescriptorLayouts WITH
  Paths <- {<<97>>, <<97, 98>>}, MaxFields <- 2

Parked == << >>
DocumentsParked ==
  /\ rows = Parked /\ docs = Parked /\ stale = Parked /\ gen = Parked
  /\ task = Parked /\ writes = Parked /\ last = Parked /\ torn = Parked
  /\ behind = Parked /\ crashes = Parked
ServingParked ==
  /\ inc = Parked /\ created = Parked /\ live = Parked /\ h = Parked
  /\ cells = Parked /\ cached = Parked /\ built = Parked /\ gate = Parked
  /\ rebuilding = Parked /\ build = Parked /\ rd = Parked /\ dropping = Parked
  /\ puts = Parked /\ past = Parked /\ crossed = Parked /\ late = Parked
RecoveryParked ==
  /\ stored = Parked /\ seg = Parked /\ touched = Parked /\ blob = Parked
  /\ column = Parked /\ qvx = Parked /\ handle = Parked /\ ops = Parked
  /\ newer = Parked /\ merged = Parked /\ doubtful = Parked
GatewayParked ==
  /\ mode = Parked /\ leader = Parked /\ engine = Parked /\ shards = Parked
  /\ req = Parked /\ served = Parked
LimitParked ==
  /\ now = Parked /\ instant = Parked /\ bucket = Parked /\ admitted = Parked
  /\ promise = Parked /\ regressed = Parked
ImportParked ==
  /\ source = Parked /\ run = Parked /\ target = Parked /\ edits = Parked
  /\ runs = Parked /\ kept = Parked /\ shifted = Parked /\ before = Parked
McpParked ==
  /\ colls = Parked /\ asked = Parked /\ replies = Parked /\ heard = Parked
BackupParked ==
  /\ disk = Parked /\ active = Parked /\ dir = Parked /\ copy = Parked
  /\ taken = Parked /\ done = Parked /\ bound = Parked
FilesParked ==
  /\ aead = Parked /\ sealed = Parked /\ files = Parked /\ damage = Parked
LayoutsParked ==
  /\ descriptor = Parked /\ bytes = Parked /\ memory = Parked

\* Every part but one is parked.
Others(p) ==
  /\ p # "documents" => DocumentsParked
  /\ p # "serving" => ServingParked
  /\ p # "recovery" => RecoveryParked
  /\ p # "gateway" => GatewayParked
  /\ p # "limit" => LimitParked
  /\ p # "import" => ImportParked
  /\ p # "mcp" => McpParked
  /\ p # "backup" => BackupParked
  /\ p # "files" => FilesParked
  /\ p # "layouts" => LayoutsParked

MCInit ==
  \/ part = "documents" /\ Init /\ Others("documents")
  \/ part = "serving" /\ S!Init /\ Others("serving")
  \/ part = "recovery" /\ I!Init /\ Others("recovery")
  \/ part = "gateway" /\ G!Init /\ Others("gateway")
  \/ part = "limit" /\ L!Init /\ Others("limit")
  \/ part = "import" /\ M!Init /\ Others("import")
  \/ part = "mcp" /\ P!Init /\ Others("mcp")
  \/ part = "backup" /\ B!Init /\ Others("backup")
  \/ part = "files" /\ F!Init /\ Others("files")
  \/ part = "layouts" /\ D!Init /\ Others("layouts")

MCNext ==
  \/ /\ part = "documents" /\ Next
     /\ UNCHANGED <<part, servingVars, recoveryVars, gatewayVars, limitVars, importVars,
                     mcpVars, backupVars, filesVars, layoutsVars>>
  \/ /\ part = "serving" /\ S!Next
     /\ UNCHANGED <<part, documentsVars, recoveryVars, gatewayVars, limitVars, importVars,
                     mcpVars, backupVars, filesVars, layoutsVars>>
  \/ /\ part = "recovery" /\ I!Next
     /\ UNCHANGED <<part, documentsVars, servingVars, gatewayVars, limitVars, importVars,
                     mcpVars, backupVars, filesVars, layoutsVars>>
  \/ /\ part = "gateway" /\ G!Next
     /\ UNCHANGED <<part, documentsVars, servingVars, recoveryVars, limitVars, importVars,
                     mcpVars, backupVars, filesVars, layoutsVars>>
  \/ /\ part = "limit" /\ L!Next
     /\ UNCHANGED <<part, documentsVars, servingVars, recoveryVars, gatewayVars, importVars,
                     mcpVars, backupVars, filesVars, layoutsVars>>
  \/ /\ part = "import" /\ M!Next
     /\ UNCHANGED <<part, documentsVars, servingVars, recoveryVars, gatewayVars, limitVars,
                     mcpVars, backupVars, filesVars, layoutsVars>>
  \/ /\ part = "mcp" /\ P!Next
     /\ UNCHANGED <<part, documentsVars, servingVars, recoveryVars, gatewayVars, limitVars,
                     importVars, backupVars, filesVars, layoutsVars>>
  \/ /\ part = "backup" /\ B!Next
     /\ UNCHANGED <<part, documentsVars, servingVars, recoveryVars, gatewayVars, limitVars,
                     importVars, mcpVars, filesVars, layoutsVars>>
  \/ /\ part = "files" /\ F!Next
     /\ UNCHANGED <<part, documentsVars, servingVars, recoveryVars, gatewayVars, limitVars,
                     importVars, mcpVars, backupVars, layoutsVars>>
  \/ /\ part = "layouts" /\ D!Next
     /\ UNCHANGED <<part, documentsVars, servingVars, recoveryVars, gatewayVars, limitVars,
                     importVars, mcpVars, backupVars, filesVars>>

MCSpec == MCInit /\ [][MCNext]_allVars

-----------------------------------------------------------------------------
\* Every part's state has its type, and its bookkeeping the shape the code relies on.
AllTypesOK ==
  /\ part = "documents" => TypeOK
  /\ part = "serving" => S!TypeOK
  /\ part = "recovery" => I!TypeOK
  /\ part = "gateway" => G!TypeOK
  /\ part = "limit" => L!TypeOK
  /\ part = "import" => M!TypeOK
  /\ part = "mcp" => P!TypeOK
  /\ part = "backup" => B!TypeOK
  /\ part = "files" => F!TypeOK
  /\ part = "layouts" => D!TypeOK




\* RateLimit: no window of time holds more requests than the burst and the refill.
RateHolds == part = "limit" => L!RateHolds

\* Import and Mcp: a successful import has every row that stayed in the source, a
\* refused one has changed no point; every MCP request has one reply, in order, and a
\* reranked search answers the best of its candidates.
ToolsFaithful ==
  /\ part = "import" => M!Complete /\ M!RefusedWhole
  /\ part = "mcp" => P!OneReplyEach /\ P!RerankedBest

\* Backup, SegmentFiles and DescriptorLayouts: what is written reads back.  A snapshot
\* opens as the database was; rows, lookups, id columns and paged files read back from
\* either writer's pages, and damage is reported; a descriptor of any release opens as
\* it was created.
StoredReadsBack ==
  /\ part = "backup" => B!CopiesExact
  /\ part = "files" =>
       /\ F!ReadsBack /\ F!StreamingSame /\ F!DamageDetected
       /\ F!PagedWhole /\ F!ColumnExact
  /\ part = "layouts" => D!Upgrades

=============================================================================

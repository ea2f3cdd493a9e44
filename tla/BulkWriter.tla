----------------------------- MODULE BulkWriter -----------------------------
(***************************************************************************)
(* The write side of the worker over one record: chunk posts, session      *)
(* commits and posts of a whole bulk, all running concurrently against the *)
(* blob storage (writer.py, chunk_storage.py, conflict.py, catalog.py).    *)
(*                                                                         *)
(* Each request is a coroutine of some worker.  What it does between two   *)
(* awaits is one action here, and so is the effect of each storage call.   *)
(* asyncio.gather starts its coroutines together and raises on the first   *)
(* failure without stopping the others: the uploads a request has started  *)
(* are a set of pending tasks that outlives the answer 500.                *)
(*                                                                         *)
(* The storage (external) puts and reads an object atomically.             *)
(***************************************************************************)
EXTENDS Chunks

CONSTANTS Posts, Commits, Wholes,  \* the requests of each kind
          Sessions,
          None,
          MaxConflictedColumns,    \* WRITE_MAX_CONFLICTED_COLUMNS_COUNT
          PostShapes(_),           \* what clients post into a session
          WholeShapes,             \* what clients post as a whole bulk
          UpdateFrom(_),           \* the bulks a session may be committed onto
          MaxFailures,             \* bound: storage failures and crashes
          Protocol                 \* the rules clients follow

\* A request that creates a bulk is also the id of that bulk: new_bulk_id is
\* called once in it, and uuids do not repeat.
Bulks    == Commits \cup Wholes
Requests == Posts \cup Bulks

ASSUME RequestAssumption ==
    /\ Writers = Posts \cup Wholes
    /\ Dirs = Sessions \cup Wholes
    /\ Posts \cap Commits = {} /\ Posts \cap Wholes = {} /\ Commits \cap Wholes = {}
    /\ Sessions \cap Wholes = {}
    /\ None \notin Bulks \cup Sessions
    /\ \A s \in Sessions : PostShapes(s) \subseteq Shapes
    /\ WholeShapes \subseteq Shapes
    /\ \A s \in Sessions : UpdateFrom(s) \subseteq Bulks \cup {None}
    /\ MaxFailures \in Nat
    /\ Protocol \subseteq {"settled", "closed", "serial", "once"}

VARIABLES
    \* blob storage
    metas,      \* the chunks whose .meta object is stored
    data,       \* chunk |-> dataframe in its .parquet object
    indexes,    \* index file |-> index values in it
    catalogs,   \* bulk |-> its bulk_catalog.json
    bulkIndex,  \* bulk |-> its _wdms_index_/index.parquet
    \* requests
    pc,         \* where each request is
    tasks,      \* its uploads of chunk objects not done yet
    out,        \* chunk |-> dataframe it uploads, or uploaded last
    save,       \* its uploads of catalog and bulk index not done yet
    job,        \* local variables of a commit
    \* ghosts
    before,     \* requests answered before this one was sent
    failures    \* failures so far

storage == <<metas, data, indexes, catalogs, bulkIndex>>
vars    == <<storage, pc, tasks, out, save, job, before, failures>>

Task    == {"meta", "data", "list", "index"} \X Chunk
NoJob   == [session |-> None, prev |-> None, items |-> {}, chunks |-> {},
            groups |-> {}, fetch |-> {}, buffer |-> {}, merged |-> EmptyFrame,
            load |-> {}, rebuild |-> {}, rows |-> {}]

\* f with key k set to v: a storage put, or a new local
Put(f, k, v) == [x \in DOMAIN f \cup {k} |-> IF x = k THEN v ELSE f[x]]

Answered(r) == pc[r] \in {"acked", "failed"}
Running(r)  == pc[r] \notin {"idle", "acked", "failed"}

Init ==
    /\ metas = {} /\ data = <<>> /\ indexes = <<>>
    /\ catalogs = <<>> /\ bulkIndex = <<>>
    /\ pc     = [r \in Requests |-> "idle"]
    /\ tasks  = [r \in Requests |-> {}]
    /\ out    = [r \in Requests |-> <<>>]
    /\ save   = [r \in Bulks |-> {}]
    /\ job    = [c \in Commits |-> NoJob]
    /\ before = [r \in Requests |-> {}]
    /\ failures = 0

Sent(r) == before' = [before EXCEPT ![r] = {q \in Requests : Answered(q)}]
Goto(r, label) == pc' = [pc EXCEPT ![r] = label]

-----------------------------------------------------------------------------
(* The session protocol is the client's, the worker does not enforce it:     *)
(*   "settled"  it sends a commit once its posts are answered                *)
(*   "closed"   it posts nothing once it has sent a commit                   *)
(*   "serial"   it sends another commit once the one before is answered      *)
(*   "once"     it sends another commit only to retry one that failed        *)

CommitsOf(s) == {c \in Commits : job[c].session = s}
PostsOf(s)   == {p \in Posts : \E k \in DOMAIN out[p] : k.dir = s}

MayPost(s) == "closed" \in Protocol => CommitsOf(s) = {}

MayCommit(s) ==
    /\ "settled" \in Protocol => \A p \in PostsOf(s) : Answered(p)
    /\ "serial"  \in Protocol => \A c \in CommitsOf(s) : Answered(c)
    /\ "once"    \in Protocol => \A c \in CommitsOf(s) : pc[c] = "failed"

-----------------------------------------------------------------------------
(* Uploads of chunk objects: upload_chunk gathers three coroutines for each  *)
(* chunk, of which upload_index_from_chunk lists before it uploads.          *)

UploadTasks(chunks) == {"meta", "data", "list"} \X chunks

Done(r, t) == tasks' = [tasks EXCEPT ![r] = @ \ {t}]

PutMeta(r, k) ==
    /\ <<"meta", k>> \in tasks[r]
    /\ metas' = metas \cup {k}
    /\ Done(r, <<"meta", k>>)
    /\ UNCHANGED <<data, indexes, catalogs, bulkIndex, pc, out, save, job, before, failures>>

\* Mutant: keeps the data file that is there, as for the index.
PutDataOnce(r, k) ==
    /\ <<"data", k>> \in tasks[r]
    /\ data' = IF k \in DOMAIN data THEN data ELSE Put(data, k, out[r][k])
    /\ Done(r, <<"data", k>>)
    /\ UNCHANGED <<metas, indexes, catalogs, bulkIndex, pc, out, save, job, before, failures>>

PutData(r, k) ==
    /\ <<"data", k>> \in tasks[r]
    /\ data' = Put(data, k, out[r][k])
    /\ Done(r, <<"data", k>>)
    /\ UNCHANGED <<metas, indexes, catalogs, bulkIndex, pc, out, save, job, before, failures>>

\* the index is uploaded only if the listing shows no object of its name
ListIndex(r, k) ==
    /\ <<"list", k>> \in tasks[r]
    /\ tasks' = [tasks EXCEPT ![r] =
                   (@ \ {<<"list", k>>})
                     \cup (IF IndexFileOf(k) \in DOMAIN indexes THEN {} ELSE {<<"index", k>>})]
    /\ UNCHANGED <<storage, pc, out, save, job, before, failures>>

PutIndex(r, k) ==
    /\ <<"index", k>> \in tasks[r]
    /\ indexes' = Put(indexes, IndexFileOf(k), out[r][k].rows)
    /\ Done(r, <<"index", k>>)
    /\ UNCHANGED <<metas, data, catalogs, bulkIndex, pc, out, save, job, before, failures>>

\* Mutant: gather(..., return_exceptions=True), the failure is not seen.
FailTaskSilently(r, t) ==
    /\ failures < MaxFailures
    /\ t \in tasks[r]
    /\ failures' = failures + 1
    /\ Done(r, t)
    /\ UNCHANGED <<storage, pc, out, save, job, before>>

\* A storage call fails: the request is answered with an error, unless it was
\* already; its other uploads go on.
FailTask(r, t) ==
    /\ failures < MaxFailures
    /\ t \in tasks[r]
    /\ failures' = failures + 1
    /\ Done(r, t)
    /\ Goto(r, "failed")
    /\ UNCHANGED <<storage, out, save, job, before>>

\* A read the commit awaits fails; what it has started goes on.
FailRead(c) ==
    /\ failures < MaxFailures
    /\ pc[c] \in {"listing", "previous", "fetching", "indexing"}
    /\ failures' = failures + 1
    /\ Goto(c, "failed")
    /\ UNCHANGED <<storage, tasks, out, save, job, before>>

\* The process running a request dies, with all it had started.
Crash(r) ==
    /\ failures < MaxFailures
    /\ Running(r) \/ tasks[r] # {} \/ (r \in Bulks /\ save[r] # {})
    /\ failures' = failures + 1
    /\ Goto(r, "failed")
    /\ tasks' = [tasks EXCEPT ![r] = {}]
    /\ save'  = [b \in Bulks |-> IF b = r THEN {} ELSE save[b]]
    /\ UNCHANGED <<storage, out, job, before>>

-----------------------------------------------------------------------------
(* POST /data/{record}/session/{session}: write_bulk_data_in_session         *)

PostChunk(p, s) ==
    /\ pc[p] = "idle"
    /\ MayPost(s)
    /\ \E shape \in PostShapes(s) :
         /\ WithinLimits(shape)
         /\ LET d == FilledBy(p, shape)
                k == ChunkAt(s, d)
            IN  /\ out'   = [out EXCEPT ![p] = Put(<<>>, k, d)]
                /\ tasks' = [tasks EXCEPT ![p] = UploadTasks({k})]
    /\ Goto(p, "uploading")
    /\ Sent(p)
    /\ UNCHANGED <<storage, save, job, failures>>

\* Mutant: answers without waiting for the uploads.
PostAckEarly(p) ==
    /\ pc[p] = "uploading"
    /\ Goto(p, "acked")
    /\ UNCHANGED <<storage, tasks, out, save, job, before, failures>>

PostAck(p) ==
    /\ pc[p] = "uploading"
    /\ tasks[p] = {}
    /\ Goto(p, "acked")
    /\ UNCHANGED <<storage, tasks, out, save, job, before, failures>>

-----------------------------------------------------------------------------
(* POST /data/{record}: write_bulk.  Catalog, data and meta are uploaded     *)
(* together; there is no index object.                                       *)

PostWhole(w) ==
    /\ pc[w] = "idle"
    /\ \E shape \in WholeShapes :
         /\ WithinLimits(shape)
         /\ LET d == FilledBy(w, shape)
                k == ChunkAt(w, d)
            IN  /\ out'   = [out EXCEPT ![w] = Put(<<>>, k, d)]
                /\ tasks' = [tasks EXCEPT ![w] = {"meta", "data"} \X {k}]
    /\ save' = [save EXCEPT ![w] = {"catalog"}]
    /\ Goto(w, "saving")
    /\ Sent(w)
    /\ UNCHANGED <<storage, job, failures>>

-----------------------------------------------------------------------------
(* PATCH /data/{record}/session/{session}: complete_session                  *)

Commit(c, s, prev) ==
    /\ pc[c] = "idle"
    /\ MayCommit(s)
    /\ prev # None => pc[prev] = "acked"
    /\ job' = [job EXCEPT ![c] = [NoJob EXCEPT !.session = s, !.prev = prev]]
    /\ Goto(c, "listing")
    /\ Sent(c)
    /\ UNCHANGED <<storage, tasks, out, save, failures>>

\* Mutant: a session without data is committed.
ListMetasAnyhow(c) ==
    /\ pc[c] = "listing"
    /\ LET found == {k \in metas : k.dir = job[c].session}
       IN  job' = [job EXCEPT ![c].items = [chunk : found, old : {FALSE}]]
    /\ Goto(c, IF job[c].prev = None THEN "conflicts" ELSE "previous")
    /\ UNCHANGED <<storage, tasks, out, save, before, failures>>

\* _get_chunks_metadata
ListMetas(c) ==
    /\ pc[c] = "listing"
    /\ LET found == {k \in metas : k.dir = job[c].session}
       IN  /\ job' = [job EXCEPT ![c].items = [chunk : found, old : {FALSE}]]
           /\ Goto(c, IF found = {} THEN "failed"  \* BulkCommitNoDataError
                      ELSE IF job[c].prev = None THEN "conflicts" ELSE "previous")
    /\ UNCHANGED <<storage, tasks, out, save, before, failures>>

\* SessionCompletionMode.Update: the chunks of the previous bulk's catalog
LoadPrevious(c) ==
    /\ pc[c] = "previous"
    /\ job[c].prev \in DOMAIN catalogs
    /\ job' = [job EXCEPT ![c].items =
                 @ \cup [chunk : catalogs[job[c].prev].chunks, old : {TRUE}]]
    /\ Goto(c, "conflicts")
    /\ UNCHANGED <<storage, tasks, out, save, before, failures>>

\* Mutant: the chunks in conflict stay next to what resolves them.
FindConflictsKeepingAll(c) ==
    /\ pc[c] = "conflicts"
    /\ LET groups == ConflictGroups(job[c].items)
       IN  job' = [job EXCEPT ![c].items = {}, ![c].groups = groups,
                              ![c].chunks = {i.chunk : i \in job[c].items}]
    /\ Goto(c, "resolving")
    /\ UNCHANGED <<storage, tasks, out, save, before, failures>>

\* resolve_conflicts, up to its loop over the groups
FindConflicts(c) ==
    /\ pc[c] = "conflicts"
    /\ LET groups == ConflictGroups(job[c].items)
       IN  /\ job' = [job EXCEPT
                        ![c].items = {}, ![c].groups = groups,
                        ![c].chunks = {i.chunk : i \in job[c].items \ UNION groups}]
           /\ Goto(c, IF groups # {} /\ ConflictedColumns(groups) >= MaxConflictedColumns
                      THEN "failed"  \* TooManyConflictsToResolve
                      ELSE "resolving")
    /\ UNCHANGED <<storage, tasks, out, save, before, failures>>

\* resolve_single_conflict_group: one group at a time
NextGroup(c) ==
    /\ pc[c] = "resolving"
    /\ \E g \in job[c].groups :
         job' = [job EXCEPT ![c].groups = @ \ {g}, ![c].fetch = g]
    /\ Goto(c, "fetching")
    /\ UNCHANGED <<storage, tasks, out, save, before, failures>>

\* Mutant: waits for a missing object instead of failing.
FetchChunkWaiting(c, i) ==
    /\ pc[c] = "fetching"
    /\ i \in job[c].fetch
    /\ i.chunk \in DOMAIN data
    /\ job' = [job EXCEPT ![c].fetch  = @ \ {i},
                          ![c].buffer = @ \cup {[old |-> i.old, frame |-> data[i.chunk]]}]
    /\ Goto(c, IF job[c].fetch = {i} THEN "merging" ELSE "fetching")
    /\ UNCHANGED <<storage, tasks, out, save, before, failures>>

\* one download of the group ends; a missing object fails the commit
FetchChunk(c, i) ==
    /\ pc[c] = "fetching"
    /\ i \in job[c].fetch
    /\ IF i.chunk \in DOMAIN data
       THEN /\ job' = [job EXCEPT ![c].fetch  = @ \ {i},
                                  ![c].buffer = @ \cup {[old |-> i.old, frame |-> data[i.chunk]]}]
            /\ Goto(c, IF job[c].fetch = {i} THEN "merging" ELSE "fetching")
       ELSE UNCHANGED job /\ Goto(c, "failed")
    /\ UNCHANGED <<storage, tasks, out, save, before, failures>>

\* Mutant: the chunks of the previous bulk are merged as they come.
MergeChunkUnordered(c, f) ==
    /\ pc[c] = "merging"
    /\ f \in job[c].buffer
    /\ job' = [job EXCEPT ![c].merged = CombineFirst(@, f.frame),
                          ![c].buffer = @ \ {f}]
    /\ UNCHANGED <<storage, pc, tasks, out, save, before, failures>>

\* Merge what was downloaded, in any order for the chunks of the session
\* (they are merged as they arrive), those of the previous bulk last.
MergeChunk(c, f) ==
    /\ pc[c] = "merging"
    /\ f \in job[c].buffer
    /\ f.old => \A g \in job[c].buffer : g.old
    /\ job' = [job EXCEPT ![c].merged = CombineFirst(@, f.frame),
                          ![c].buffer = @ \ {f}]
    /\ UNCHANGED <<storage, pc, tasks, out, save, before, failures>>

\* The uploads of what a group was merged into, as chunks of folder dir
UploadInto(c, dir) ==
    LET pieces == SplitIntoChunks(job[c].merged)
        chunks == {ChunkAt(dir, d) : d \in pieces}
    IN  /\ pc[c] = "merging"
        /\ job[c].buffer = {}
        /\ out'   = [out EXCEPT ![c] =
                       [k \in chunks |-> CHOOSE d \in pieces : k = ChunkAt(dir, d)]]
        /\ tasks' = [tasks EXCEPT ![c] = UploadTasks(chunks)]
        /\ job'   = [job EXCEPT ![c].merged = EmptyFrame]
        /\ Goto(c, "uploading")
        /\ UNCHANGED <<storage, save, before, failures>>

\* Mutant: next to the chunks it replaces.
UploadIntoPrevious(c) ==
    LET prev == job[c].prev
    IN  UploadInto(c, IF prev \in Commits THEN job[prev].session ELSE job[c].session)

\* split_into_chunks, and upload_chunk of each piece into the session's folder
UploadResolved(c) == UploadInto(c, job[c].session)

GroupResolved(c) ==
    /\ pc[c] = "uploading"
    /\ tasks[c] = {}
    /\ job' = [job EXCEPT ![c].chunks = @ \cup DOMAIN out[c]]
    /\ Goto(c, "resolving")
    /\ UNCHANGED <<storage, tasks, out, save, before, failures>>

\* build_index loads the index of one chunk for each index hash
BuildIndex(c) ==
    /\ pc[c] = "resolving"
    /\ job[c].groups = {}
    /\ \E T \in Representatives(job[c].chunks) : job' = [job EXCEPT ![c].load = T]
    /\ Goto(c, "indexing")
    /\ UNCHANGED <<storage, tasks, out, save, before, failures>>

\* Mutant: a missing index object is skipped.
LoadIndexIfAny(c, k) ==
    /\ pc[c] = "indexing"
    /\ k \in job[c].load
    /\ job' = [job EXCEPT ![c].load = @ \ {k},
                          ![c].rows = @ \cup IF IndexFileOf(k) \in DOMAIN indexes
                                             THEN indexes[IndexFileOf(k)] ELSE {}]
    /\ UNCHANGED <<storage, pc, tasks, out, save, before, failures>>

\* load_index_from_chunk: the index object if there is one...
LoadIndex(c, k) ==
    /\ pc[c] = "indexing"
    /\ k \in job[c].load
    /\ IF IndexFileOf(k) \in DOMAIN indexes
       THEN job' = [job EXCEPT ![c].load = @ \ {k},
                               ![c].rows = @ \cup indexes[IndexFileOf(k)]]
       ELSE job' = [job EXCEPT ![c].load = @ \ {k}, ![c].rebuild = @ \cup {k}]
    /\ UNCHANGED <<storage, pc, tasks, out, save, before, failures>>

\* ... else that of the chunk, which is then uploaded whatever is there
RebuildIndex(c, k) ==
    /\ pc[c] = "indexing"
    /\ k \in job[c].rebuild
    /\ IF k \in DOMAIN data
       THEN /\ job' = [job EXCEPT ![c].rebuild = @ \ {k},
                                  ![c].rows    = @ \cup data[k].rows]
            /\ out'   = [out EXCEPT ![c] = Put(@, k, data[k])]
            /\ tasks' = [tasks EXCEPT ![c] = @ \cup {<<"index", k>>}]
            /\ UNCHANGED pc
       ELSE Goto(c, "failed") /\ UNCHANGED <<job, out, tasks>>
    /\ UNCHANGED <<storage, save, before, failures>>

\* async_save_bulk_catalog_with_blob_storage starts the upload of the index
\* and goes on with that of the catalog
SaveCatalog(c) ==
    /\ pc[c] = "indexing"
    /\ job[c].load = {} /\ job[c].rebuild = {} /\ tasks[c] = {}
    /\ save' = [save EXCEPT ![c] = {"catalog", "index"}]
    /\ Goto(c, "saving")
    /\ UNCHANGED <<storage, tasks, out, job, before, failures>>

-----------------------------------------------------------------------------
(* Saving a bulk                                                             *)

CatalogOf(b) ==
    IF b \in Commits
    THEN [chunks |-> job[b].chunks, nbRows |-> Cardinality(job[b].rows)]
    ELSE [chunks |-> DOMAIN out[b],
          nbRows |-> Cardinality(UNION {out[b][k].rows : k \in DOMAIN out[b]})]

PutCatalog(b) ==
    /\ "catalog" \in save[b]
    /\ catalogs' = Put(catalogs, b, CatalogOf(b))
    /\ save' = [save EXCEPT ![b] = @ \ {"catalog"}]
    /\ UNCHANGED <<metas, data, indexes, bulkIndex, pc, tasks, out, job, before, failures>>

PutBulkIndex(c) ==
    /\ "index" \in save[c]
    /\ bulkIndex' = Put(bulkIndex, c, job[c].rows)
    /\ save' = [save EXCEPT ![c] = @ \ {"index"}]
    /\ UNCHANGED <<metas, data, indexes, catalogs, pc, tasks, out, job, before, failures>>

\* Mutant: the task that uploads the index is never awaited.
FailSaveSilently(b, what) ==
    /\ failures < MaxFailures
    /\ what \in save[b]
    /\ failures' = failures + 1
    /\ save' = [save EXCEPT ![b] = @ \ {what}]
    /\ IF what = "catalog" THEN Goto(b, "failed") ELSE UNCHANGED pc
    /\ UNCHANGED <<storage, tasks, out, job, before>>

\* The index upload is awaited after that of the catalog: a failure of it
\* shows only then.
FailSave(b, what) ==
    /\ failures < MaxFailures
    /\ what \in save[b]
    /\ what = "index" => "catalog" \notin save[b]
    /\ failures' = failures + 1
    /\ save' = [save EXCEPT ![b] = @ \ {what}]
    /\ Goto(b, "failed")
    /\ UNCHANGED <<storage, tasks, out, job, before>>

\* Mutant: answers once the catalog is saved.
BulkAckWithoutData(b) ==
    /\ pc[b] = "saving"
    /\ save[b] = {}
    /\ Goto(b, "acked")
    /\ UNCHANGED <<storage, tasks, out, save, job, before, failures>>

\* 200 with the bulk id: from here on a client can read the bulk
BulkAck(b) ==
    /\ pc[b] = "saving"
    /\ save[b] = {} /\ tasks[b] = {}
    /\ Goto(b, "acked")
    /\ UNCHANGED <<storage, tasks, out, save, job, before, failures>>

-----------------------------------------------------------------------------

Upload ==
    \E r \in Requests : \E t \in tasks[r] :
        \/ PutMeta(r, t[2]) \/ PutData(r, t[2])
        \/ ListIndex(r, t[2]) \/ PutIndex(r, t[2])

PostStep == \E p \in Posts : (\E s \in Sessions : PostChunk(p, s)) \/ PostAck(p)

Complete ==
    \E c \in Commits, s \in Sessions : \E prev \in UpdateFrom(s) : Commit(c, s, prev)

Resolve(c) ==
    \/ ListMetas(c) \/ LoadPrevious(c) \/ FindConflicts(c) \/ NextGroup(c)
    \/ \E i \in job[c].fetch : FetchChunk(c, i)
    \/ \E f \in job[c].buffer : MergeChunk(c, f)
    \/ UploadResolved(c) \/ GroupResolved(c)

Index(c) ==
    \/ BuildIndex(c)
    \/ \E k \in job[c].load : LoadIndex(c, k)
    \/ \E k \in job[c].rebuild : RebuildIndex(c, k)
    \/ SaveCatalog(c)

Save == \E b \in Bulks : PutCatalog(b) \/ BulkAck(b)

Failure ==
    \/ \E r \in Requests : Crash(r) \/ (\E t \in tasks[r] : FailTask(r, t))
    \/ \E c \in Commits : FailRead(c)
    \/ \E b \in Bulks : \E what \in save[b] : FailSave(b, what)

Next ==
    \/ PostStep \/ Upload \/ Complete
    \/ \E w \in Wholes : PostWhole(w)
    \/ \E c \in Commits : Resolve(c) \/ Index(c) \/ PutBulkIndex(c)
    \/ Save \/ Failure

Spec == Init /\ [][Next]_vars
-----------------------------------------------------------------------------
(* Types *)

\* a downloaded dataframe, and whether it is of the previous bulk
Frame == [old : BOOLEAN, frame : DataFrames]

Job == [session : Sessions \cup {None}, prev : Bulks \cup {None},
        items : SUBSET Item, chunks : SUBSET Chunk, groups : SUBSET SUBSET Item,
        fetch : SUBSET Item, buffer : SUBSET Frame, merged : DataFrames \cup {EmptyFrame},
        load : SUBSET Chunk, rebuild : SUBSET Chunk, rows : SUBSET Rows]

Labels == {"idle", "listing", "previous", "conflicts", "resolving", "fetching", "merging",
           "uploading", "indexing", "saving", "acked", "failed"}

StorageOK ==
    /\ metas \subseteq Chunk
    /\ DOMAIN data \subseteq Chunk /\ \A k \in DOMAIN data : data[k] \in DataFrames
    /\ DOMAIN indexes \subseteq IndexFile /\ \A f \in DOMAIN indexes : indexes[f] \subseteq Rows
    /\ DOMAIN catalogs \subseteq Bulks
    /\ \A b \in DOMAIN catalogs : /\ catalogs[b].chunks \subseteq Chunk
                                 /\ catalogs[b].nbRows \in Nat
    /\ DOMAIN bulkIndex \subseteq Commits
    /\ \A c \in DOMAIN bulkIndex : bulkIndex[c] \subseteq Rows

RequestsOK ==
    /\ pc \in [Requests -> Labels]
    /\ tasks \in [Requests -> SUBSET Task]
    /\ DOMAIN out = Requests
    /\ \A r \in Requests : /\ DOMAIN out[r] \subseteq Chunk
                           /\ \A k \in DOMAIN out[r] : out[r][k] \in DataFrames
    /\ save \in [Bulks -> SUBSET {"catalog", "index"}]
    /\ before \in [Requests -> SUBSET Requests]
    /\ failures \in 0 .. MaxFailures

\* Every variable has the type its declaration says.
TypeOK == StorageOK /\ RequestsOK /\ job \in [Commits -> Job]

-----------------------------------------------------------------------------
(* Properties *)

AckedBulks   == {b \in Bulks : pc[b] = "acked"}
AckedCommits == AckedBulks \cap Commits

CellsOf(p) == UNION {DOMAIN out[p][k].val : k \in DOMAIN out[p]}

\* the values a reader of bulk b finds in the chunks of its catalog for cell x
Values(b, x) ==
    {data[k].val[x] : k \in {l \in catalogs[b].chunks \cap DOMAIN data : HasValue(data[l], x)}}

\* A bulk whose id was given to a client has its catalog and its index stored,
\* and the meta and the data of each of its chunks, but for a chunk whose
\* upload was itself never acknowledged (complete_session trusts the metas it
\* lists: the data of a chunk in no conflict is never looked at).
AckedBulkStored ==
    \A b \in AckedBulks :
        /\ b \in DOMAIN catalogs
        /\ b \in Commits => b \in DOMAIN bulkIndex
        /\ \A k \in catalogs[b].chunks :
             /\ k \in metas
             /\ k \in DOMAIN data \/ \E r \in Requests : k \in DOMAIN out[r] /\ pc[r] # "acked"

\* Every chunk of an acknowledged bulk can be downloaded.
AckedBulkReadable == \A b \in AckedBulks : catalogs[b].chunks \subseteq DOMAIN data

\* No post is lost: a cell posted into a session and acknowledged before the
\* commit was sent has, in the bulk, a value posted in that session.
AckedPostCommitted ==
    \A c \in AckedCommits :
        LET posts == PostsOf(job[c].session)
        IN  \A p \in posts \cap before[c] :
              pc[p] = "acked" =>
                \A x \in CellsOf(p) : \E w \in posts : w \in Values(c, x)

\* An update keeps the previous bulk where the session posted nothing, and
\* replaces it where it did (resolve_conflicts: "set negative order to previous
\* chunks, so will be overwritten by the current ones").
UpdateKeepsPrevious ==
    \A c \in AckedCommits :
        LET posts == PostsOf(job[c].session)
            prev  == job[c].prev
        IN  prev # None =>
              \A x \in Cols \X Rows :
                IF \E p \in posts : x \in CellsOf(p)
                THEN (\E p \in posts \cap before[c] : pc[p] = "acked" /\ x \in CellsOf(p))
                       => Values(c, x) \subseteq posts
                ELSE Values(c, x) = Values(prev, x)

\* The index of a bulk has all the rows of its chunks and its row count, so
\* that no row is left out of a read (build_index loads one index per hash).
IndexCoversBulk ==
    \A c \in AckedCommits :
        /\ catalogs[c].nbRows = Cardinality(bulkIndex[c])
        /\ \A k \in catalogs[c].chunks \cap DOMAIN data : data[k].rows \subseteq bulkIndex[c]

\* The chunks of a catalog are free of conflicts (BulkCatalog.from_metas:
\* "Chunks are expected to be provided without any conflicts/overlaps"): two
\* that share a column have the same columns and disjoint index ranges.
CatalogFreeOfConflicts ==
    \A b \in AckedBulks : \A k, l \in catalogs[b].chunks :
        k # l => /\ ~OverlapWith(k.meta, l.meta)
                 /\ ~Misaligned(k.meta, l.meta)

\* Whatever merging and splitting made of them, two chunks of a catalog never
\* hold the same cell (is_overlap_with), so that a read finds one value for it.
CatalogChunksDisjoint ==
    \A b \in AckedBulks : \A k, l \in catalogs[b].chunks :
        k # l => ~OverlapWith(k.meta, l.meta)

\* what a request has to do with the object of chunk k: a commit may merge
\* what it finds in its session into a chunk of that name
MayStore(r, k) == IF r \in Commits THEN job[r].session = k.dir ELSE k \in DOMAIN out[r]

\* Two chunks with the same file name: the last one wins
\* (ChunkMeta.generate_filename).  A post acknowledged after every other
\* request that may store that file was answered is what the file holds.
LastComeWins ==
    \A p \in Posts : \A k \in DOMAIN out[p] :
        /\ pc[p] = "acked"
        /\ \A r \in Requests \ {p} : MayStore(r, k) => r \in before[p]
        => k \in DOMAIN data /\ data[k] = out[p][k]

\* A bulk does not change once its id was given: neither its catalog, nor its
\* index, nor the chunks it refers to, which stay in the folder of the session.
BulkImmutable ==
    [][\A b \in AckedBulks :
         /\ catalogs'[b] = catalogs[b]
         /\ b \in DOMAIN bulkIndex => bulkIndex'[b] = bulkIndex[b]
         /\ \A k \in catalogs[b].chunks \cap DOMAIN data : data'[k] = data[k]]_vars

\* What was answered, as a store of versions has it.
AckedPosts   == {p \in Posts : pc[p] = "acked"}
SessionOf(p) == CHOOSE s \in Sessions : p \in PostsOf(s)

StorePosted == [p \in AckedPosts |-> [session |-> SessionOf(p), cells |-> CellsOf(p)]]
StoreBulks  == [b \in AckedBulks |-> [x \in Cols \X Rows |-> Values(b, x)]]
StoreClosed == {job[c].session : c \in AckedCommits}

\* every dataframe that clients post
ShapesSent  == WholeShapes \cup UNION {PostShapes(s) : s \in Sessions}

Store == INSTANCE VersionedBulks
         WITH posted <- StorePosted, bulks <- StoreBulks, closed <- StoreClosed,
              Cells  <- Cols \X Rows,
              Frames <- {x.cols \X x.rows : x \in ShapesSent}

\* To clients that follow the rules, when nothing fails, the worker is a store of
\* versions: whatever requests run at once, an answer is that of a bulk that is
\* complete, made of all the posts into one session and of the whole of the bulk
\* it was committed onto, and that stays what it is (complete_session).
\* This is Store!Spec, with the steps that change nothing first: they are most of
\* them, and TLC evaluates from left to right.
BulksAreVersions == Store!Init /\ [][UNCHANGED Store!vars \/ Store!Next]_(Store!vars)

-----------------------------------------------------------------------------
(* Why AckedBulkStored holds: the inductive invariant of its proof           *)

\* An answered request that succeeded has nothing left to upload, nor has a
\* commit between two groups.
QuietLabels == {"idle", "acked", "listing", "previous", "conflicts", "resolving",
                "fetching", "merging"}

TasksKnown ==
    \A r \in Requests : /\ \A t \in tasks[r] : t[2] \in DOMAIN out[r]
                        /\ pc[r] \in QuietLabels => tasks[r] = {}

\* What a request that did not fail uploads is stored, or still a task of it.
UploadsTracked ==
    \A r \in Requests : pc[r] # "failed" =>
        \A k \in DOMAIN out[r] : /\ k \in metas \/ <<"meta", k>> \in tasks[r]
                                 /\ k \in DOMAIN data \/ <<"data", k>> \in tasks[r]

\* A meta without its data is of a request that was not acknowledged.
MetasExplained ==
    \A k \in metas : k \in DOMAIN data \/ \E r \in Requests : k \in DOMAIN out[r] /\ pc[r] # "acked"

\* A commit works on chunks whose meta is stored, and knows its session.
JobsStored ==
    \A c \in Commits :
        /\ {i.chunk : i \in job[c].items} \subseteq metas
        /\ job[c].chunks \cup job[c].load \cup job[c].rebuild \subseteq metas
        /\ job[c].prev # None => pc[job[c].prev] = "acked"
        /\ pc[c] # "idle" => job[c].session \in Sessions

\* What is saved for a bulk, and what remains to be.
SavesTracked ==
    \A b \in Bulks :
        /\ pc[b] = "idle" => save[b] = {} /\ b \notin DOMAIN catalogs
        /\ pc[b] = "acked" => save[b] = {}
        /\ pc[b] \in {"saving", "acked"} =>
             /\ "catalog" \in save[b] \/ b \in DOMAIN catalogs
             /\ b \in Commits => "index" \in save[b] \/ b \in DOMAIN bulkIndex
        /\ "index" \in save[b] => b \in Commits

\* The chunks of a catalog: stored from the start for a commit, uploaded along
\* with it by the request that posts a whole bulk.
CatalogsTracked ==
    \A b \in DOMAIN catalogs :
        /\ b \in Commits \/ pc[b] = "acked" => catalogs[b].chunks \subseteq metas
        /\ b \in Wholes => catalogs[b].chunks \subseteq DOMAIN out[b]

Inv == /\ TypeOK /\ TasksKnown /\ UploadsTracked /\ MetasExplained
       /\ JobsStored /\ SavesTracked /\ CatalogsTracked

-----------------------------------------------------------------------------
(* Why the chunks of a bulk never overlap: the inductive invariant of the    *)
(* proof.  A group is merged and split again chunk by chunk, so what is kept *)
(* apart is not pairs of chunks but sets of them: one set is, all of it, to  *)
(* one side of the other.                                                    *)

\* the metadata of the group a commit is at, as far as it got with it
CurrentMetas(c) ==
    MetasOf(job[c].fetch) \cup {MetaOf(f.frame) : f \in job[c].buffer}
      \cup {MetaOf(d) : d \in {job[c].merged} \ {EmptyFrame}}
      \cup {k.meta : k \in IF pc[c] = "uploading" THEN DOMAIN out[c] ELSE {}}

\* An object holds what its name says: a chunk is named after its metadata.
ContentsKnown ==
    /\ \A k \in DOMAIN data : MetaOf(data[k]) = k.meta
    /\ \A r \in Requests : \A k \in DOMAIN out[r] : MetaOf(out[r][k]) = k.meta

\* A commit is done with a group before it takes the next one.
InTurn(c) ==
    /\ pc[c] \in {"idle", "listing", "previous", "conflicts", "resolving"} => CurrentMetas(c) = {}
    /\ pc[c] \in {"merging", "uploading"} => job[c].fetch = {}
    /\ pc[c] = "uploading" => job[c].buffer = {} /\ job[c].merged = EmptyFrame

\* What a commit keeps, the group it is at and the groups to come are apart.
WorkApart(c) ==
    /\ \A k, l \in job[c].chunks : k # l => Apart({k.meta}, {l.meta})
    /\ \A g \in job[c].groups : \A k \in job[c].chunks : Apart(MetasOf(g), {k.meta})
    /\ \A g, h \in job[c].groups : g # h => Apart(MetasOf(g), MetasOf(h))
    /\ \A k \in job[c].chunks : Apart(CurrentMetas(c), {k.meta})
    /\ \A g \in job[c].groups : Apart(CurrentMetas(c), MetasOf(g))
    /\ pc[c] = "uploading" =>
         \A k, l \in DOMAIN out[c] : k # l => Apart({k.meta}, {l.meta})

\* So are the chunks of a catalog; a whole bulk is one chunk.
CatalogsApart ==
    /\ \A w \in Wholes : \A k, l \in DOMAIN out[w] : k = l
    /\ \A b \in DOMAIN catalogs : \A k, l \in catalogs[b].chunks :
          k # l => Apart({k.meta}, {l.meta})

ApartInv ==
    ContentsKnown /\ CatalogsApart /\ \A c \in Commits : InTurn(c) /\ WorkApart(c)

-----------------------------------------------------------------------------
(* What a bulk holds when nothing fails: the inductive invariants of the     *)
(* proofs.  A failed request may leave uploads behind that land at any time, *)
(* and what they store nobody has to expect: no more is true with failures.  *)

\* An answered request stores no chunk any more, and a commit does only while
\* it uploads a group, in the folder of its session.
FolderOf(b) == IF b \in Commits THEN job[b].session ELSE b

StoresQuiet ==
    \A r \in Requests : Answered(r) \/ (r \in Commits /\ pc[r] # "uploading") =>
        \A t \in tasks[r] : t[1] = "index"

StoresInFolder ==
    /\ \A b \in Bulks : \A t \in tasks[b] : t[1] = "index" \/ t[2].dir = FolderOf(b)
    /\ \A p \in Posts : \A k \in DOMAIN out[p] : k.dir \in Sessions
    /\ \A w \in Wholes : \A k \in DOMAIN out[w] : k.dir = w

NothingYet ==
    \A r \in Requests :
        pc[r] = "idle" => DOMAIN out[r] = {} /\ (r \in Commits => job[r] = NoJob)

\* The last post of a file, of all that may store it, is what the file holds
\* as soon as it is stored.
LastHeld ==
    /\ \A r \in Requests : \A q \in before[r] : Answered(q)
    /\ \A p \in Posts : \A k \in DOMAIN out[p] :
         /\ <<"data", k>> \notin tasks[p]
         /\ \A r \in Requests \ {p} : MayStore(r, k) => r \in before[p]
         => k \in DOMAIN data /\ data[k] = out[p][k]

QuietInv == StoresQuiet /\ StoresInFolder /\ NothingYet /\ LastHeld

\* The rules of the proofs below: a session is posted to, then committed, once.
Orderly == MaxFailures = 0 /\ {"settled", "closed", "once"} \subseteq Protocol

\* A session has no more than one commit that did not fail, and its posts were
\* answered by then.
SessionsClosed ==
    \A s \in Sessions :
        /\ CommitsOf(s) # {} => \A p \in PostsOf(s) : Answered(p)
        /\ \A c, d \in CommitsOf(s) : c = d \/ pc[c] = "failed" \/ pc[d] = "failed"

\* A meta has its data, or somebody is about to store it.
MetasFollowed ==
    \A k \in metas : k \in DOMAIN data \/ \E r \in Requests : <<"data", k>> \in tasks[r]

\* a folder that is part of an acknowledged bulk: nothing is stored in it
Sealed(dir) == \E b \in AckedBulks : FolderOf(b) = dir

\* A commit keeps chunks and merges groups once it has looked for conflicts in
\* all its items.
Underway == {"resolving", "fetching", "merging", "uploading", "indexing", "saving", "acked"}

InStages(c) ==
    /\ pc[c] \in {"listing", "previous", "conflicts"} => job[c].chunks = {} /\ job[c].groups = {}
    /\ pc[c] \in Underway => job[c].items = {}

ItemsAt(c) == job[c].items \cup (UNION job[c].groups) \cup job[c].fetch

\* A commit works on chunks it can read, those of its session and those of
\* bulks that do not change.
InReach(c) ==
    /\ \A k \in job[c].chunks : k \in DOMAIN data /\ (k.dir = job[c].session \/ Sealed(k.dir))
    /\ \A i \in ItemsAt(c) :
         /\ i.chunk \in DOMAIN data
         /\ IF i.old THEN Sealed(i.chunk.dir) ELSE i.chunk.dir = job[c].session
    /\ job[c].load \cup job[c].rebuild \subseteq job[c].chunks
    /\ pc[c] = "uploading" => \A k \in DOMAIN out[c] : k.dir = job[c].session

CatalogsInReach ==
    \A b \in DOMAIN catalogs :
        /\ \A k \in catalogs[b].chunks : k.dir = FolderOf(b) \/ Sealed(k.dir)
        /\ b \in Commits \/ pc[b] = "acked" => catalogs[b].chunks \subseteq DOMAIN data

SealedInv ==
    /\ SessionsClosed /\ MetasFollowed /\ CatalogsInReach
    /\ \A c \in Commits : InStages(c) /\ InReach(c)

-----------------------------------------------------------------------------
(* The values of a bulk, under the same rules and one more: shapes that      *)
(* clients post into a session have file names of their own.                 *)

DistinctNames ==
    \A s \in Sessions : \A x, y \in PostShapes(s) : MetaOf(x) = MetaOf(y) => x = y

Posted(c)      == PostsOf(job[c].session)
IsPosted(c, x) == \E p \in Posted(c) : x \in CellsOf(p)

\* the values a bulk may have for cell x: of the session, or else as before
Right(c, x) == IF IsPosted(c, x) THEN {p \in Posted(c) : x \in CellsOf(p)}
               ELSE IF job[c].prev = None THEN {} ELSE Values(job[c].prev, x)

\* A post does not fail, and is one dataframe, all of whose cells it wrote.
PostsKnown ==
    \A p \in Posts :
        /\ pc[p] # "failed"
        /\ \A k \in DOMAIN out[p] :
             /\ \E shape \in PostShapes(k.dir) : out[p][k] = FilledBy(p, shape)
             /\ \A l \in DOMAIN out[p] : l = k

\* The folder of a session holds posts, until a commit merges them.
SessionsHoldPosts ==
    \A k \in DOMAIN data : k.dir \in Sessions =>
        \/ \E c \in CommitsOf(k.dir) : pc[c] \in Underway
        \/ \E p \in Posts : k \in DOMAIN out[p] /\ data[k] = out[p][k]

\* the frames a commit has to merge: those of the previous bulk, and the others
Has(frames, x)         == \E f \in frames : HasValue(f, x)
ItemFrames(items, old) == {data[i.chunk] : i \in {j \in items : j.old = old}}
GroupFrames(c, old)    == ItemFrames(job[c].fetch, old)
                            \cup {b.frame : b \in {a \in job[c].buffer : a.old = old}}
ToMerge(c, old) == ItemFrames(job[c].items \cup (UNION job[c].groups), old) \cup GroupFrames(c, old)

\* ... and those it has done with
OldFrames(c) == ToMerge(c, TRUE)
NewFrames(c) == ToMerge(c, FALSE) \cup {job[c].merged} \cup {data[k] : k \in job[c].chunks}
                  \cup {out[c][k] : k \in IF pc[c] = "uploading" THEN DOMAIN out[c] ELSE {}}

\* Only a frame of the previous bulk may have a value that is not right, ...
NewRight(c) ==
    \A f \in NewFrames(c) : \A x \in Cols \X Rows : HasValue(f, x) => f.val[x] \in Right(c, x)

OldPrevious(c) ==
    \A f \in OldFrames(c) : \A x \in Cols \X Rows :
        HasValue(f, x) => job[c].prev # None /\ f.val[x] \in Values(job[c].prev, x)

\* ... and then one of the session has the cell too, and is merged before it.
OldOverridden(c) ==
    \A x \in Cols \X Rows : IsPosted(c, x) =>
        /\ \A g \in job[c].groups :
             Has(ItemFrames(g, TRUE), x) => Has(ItemFrames(g, FALSE), x)
        /\ Has(GroupFrames(c, TRUE), x) => Has(GroupFrames(c, FALSE) \cup {job[c].merged}, x)

\* A commit has each cell that was posted, or that the previous bulk has.
NoneLost(c) ==
    \A x \in Cols \X Rows :
        /\ IsPosted(c, x) => Has(NewFrames(c), x)
        /\ pc[c] # "previous" /\ job[c].prev # None /\ Values(job[c].prev, x) # {} =>
             Has(NewFrames(c) \cup OldFrames(c), x)

\* What a commit uploaded is what is stored, and what it kept is its catalog.
Stored(c) ==
    /\ pc[c] = "uploading" => \A k \in DOMAIN out[c] :
         <<"data", k>> \notin tasks[c] => k \in DOMAIN data /\ data[k] = out[c][k]
    /\ save[c] # {} => pc[c] = "saving"
    /\ c \in DOMAIN catalogs =>
         pc[c] \in {"saving", "acked"} /\ catalogs[c].chunks = job[c].chunks

\* It saves it once nothing is left to merge.
AllMerged(c) ==
    pc[c] \in {"indexing", "saving", "acked"} =>
        ItemsAt(c) = {} /\ job[c].buffer = {} /\ job[c].merged = EmptyFrame

ValuesInv ==
    /\ PostsKnown /\ SessionsHoldPosts
    /\ \A c \in Commits :
         /\ Stored(c) /\ AllMerged(c)
         /\ pc[c] \in {"previous", "conflicts"} \cup Underway =>
              NewRight(c) /\ OldPrevious(c) /\ OldOverridden(c) /\ NoneLost(c)

-----------------------------------------------------------------------------
(* The versions a store of them would have, under the same rules.            *)

\* the one chunk of a post into folder dir
ChunkOf(r, dir, shape) == LET d == FilledBy(r, shape) IN Put(<<>>, ChunkAt(dir, d), d)

\* A request that was sent has one dataframe to upload, the one it was sent.
SentKnown ==
    /\ \A p \in Posts : pc[p] # "idle" =>
         \E s \in Sessions : \E shape \in PostShapes(s) : out[p] = ChunkOf(p, s, shape)
    /\ \A w \in Wholes : pc[w] # "idle" =>
         \E shape \in WholeShapes : out[w] = ChunkOf(w, w, shape)

\* Nobody else stores what a whole bulk is made of.
WholesHeld ==
    \A w \in Wholes :
        /\ \A k \in DOMAIN out[w] :
             <<"data", k>> \notin tasks[w] => k \in DOMAIN data /\ data[k] = out[w][k]
        /\ w \in DOMAIN catalogs => catalogs[w].chunks = DOMAIN out[w]

\* A session that is committed was posted to.
SessionsPosted ==
    /\ \A k \in metas : k.dir \in Sessions => PostsOf(k.dir) # {}
    /\ \A c \in Commits : pc[c] \in {"previous", "conflicts"} \cup Underway => Posted(c) # {}

SentInv == SentKnown /\ WholesHeld /\ SessionsPosted

\* An acknowledged bulk is the version that the store would have.
CommitKnown(c) ==
    /\ job[c].session \in Sessions /\ job[c].prev \in AckedBulks \cup {None}
    /\ Posted(c) # {} /\ Posted(c) \subseteq AckedPosts
    /\ \A x \in Cols \X Rows :
         IF IsPosted(c, x)
         THEN \E p \in Posted(c) : x \in CellsOf(p) /\ Values(c, x) = {p}
         ELSE Values(c, x) = IF job[c].prev = None THEN {} ELSE Values(job[c].prev, x)

WholeKnown(w) ==
    \E shape \in WholeShapes : \A x \in Cols \X Rows :
        Values(w, x) = IF x \in shape.cols \X shape.rows THEN {w} ELSE {}

VersionsKnown ==
    /\ \A c \in AckedCommits : CommitKnown(c)
    /\ \A w \in AckedBulks \cap Wholes : WholeKnown(w)

-----------------------------------------------------------------------------
(* The index of a bulk, whatever fails and whatever clients do, where the    *)
(* index hash tells index values apart: those that clients send, and those   *)
(* that merging and splitting make of them, are of a family F in which no    *)
(* two have the same first, last and number of values.                       *)

TellsRows(F) ==
    /\ \A s \in Sessions : \A x \in PostShapes(s) : x.rows \in F
    /\ \A x \in WholeShapes : x.rows \in F
    /\ \A R, S \in F : R \cup S \in F /\ (IndexOf(R) = IndexOf(S) => R = S)
    /\ \A R \in F : Runs(R, MaxValues) \subseteq F

\* All dataframes have their rows in F, and an index file those of its name.
RowsKnown(F) ==
    /\ \A k \in DOMAIN data : data[k].rows \in F
    /\ \A r \in Requests : \A k \in DOMAIN out[r] : out[r][k].rows \in F
    /\ \A f \in DOMAIN indexes : indexes[f] \in F /\ IndexOf(indexes[f]) = f[2]
    /\ \A c \in Commits :
         /\ \A b \in job[c].buffer : b.frame.rows \in F
         /\ job[c].merged = EmptyFrame \/ job[c].merged.rows \in F

\* A commit has the rows of a chunk it keeps, or is to load an index of its hash.
IndexUnderway(F, c) ==
    /\ pc[c] \in {"indexing", "saving", "acked"} =>
         \A k \in job[c].chunks :
           \/ \E l \in job[c].load \cup job[c].rebuild : IndexHash(l.meta) = IndexHash(k.meta)
           \/ \E R \in F : IndexOf(R) = IndexHash(k.meta) /\ R \subseteq job[c].rows
    /\ pc[c] \in {"saving", "acked"} => job[c].load = {} /\ job[c].rebuild = {}

\* What is saved of a commit is what it has, that does not change any more.
SavedAsIs(c) ==
    /\ save[c] # {} \/ c \in DOMAIN catalogs \/ c \in DOMAIN bulkIndex =>
         pc[c] \in {"saving", "acked", "failed"}
    /\ c \in DOMAIN catalogs => catalogs[c] = CatalogOf(c)
    /\ c \in DOMAIN bulkIndex => bulkIndex[c] = job[c].rows

IndexInv(F) == RowsKnown(F) /\ \A c \in Commits : IndexUnderway(F, c) /\ SavedAsIs(c)

-----------------------------------------------------------------------------
(* What a session keeps of the posts it acknowledged, whatever fails.        *)

\* The rules: clients post into a session, then commit it, as often as they like.
PostedFirst == {"settled", "closed"} \subseteq Protocol

\* The cells a session owes a value of its own: those of acknowledged posts.
\* Before a commit is sent nothing else is stored in it anyway.
Promised(s) == IF CommitsOf(s) = {} THEN Cols \X Rows
               ELSE UNION {CellsOf(p) : p \in PostsOf(s) \cap AckedPosts}

\* Where a dataframe is over such a cell, it has such a value.
Owned(d, s) == \A x \in Promised(s) \cap DOMAIN d.val : d.val[x] \in PostsOf(s)

\* So do all that is stored in a session, and all that is still to be stored,
\* left there by posts and by commits that failed.
FolderOwned(s) ==
    /\ \A k \in DOMAIN data : k.dir = s => Owned(data[k], s)
    /\ \A r \in Requests : \A k \in DOMAIN out[r] :
         <<"data", k>> \in tasks[r] /\ k.dir = s => Owned(out[r][k], s)

\* A post has one chunk, and is answered before a commit of its session is sent.
PostsSettled ==
    /\ \A p \in Posts :
         /\ pc[p] = "idle" => DOMAIN out[p] = {}
         /\ \A k, l \in DOMAIN out[p] : k = l
         /\ \A k \in DOMAIN out[p] : k.dir \in Sessions
    /\ \A w \in Wholes : \A k \in DOMAIN out[w] : k.dir = w
    /\ \A s \in Sessions : CommitsOf(s) # {} => \A p \in PostsOf(s) : Answered(p)

\* Of what a commit has at hand, what is not of the previous bulk is its session's.
WorkOwned(c) ==
    LET s == job[c].session
    IN  /\ pc[c] = "idle" => job[c] = NoJob
        /\ \A i \in ItemsAt(c) : ~i.old => i.chunk.dir = s
        /\ \A f \in job[c].buffer : ~f.old => Owned(f.frame, s)
        /\ \A x \in Promised(s) :
             HasValue(job[c].merged, x) => job[c].merged.val[x] \in PostsOf(s)
        /\ pc[c] = "uploading" => \A k \in DOMAIN out[c] : k.dir = s

\* The stages at which a commit still has the cells of its session.
KeptAt == {"previous", "conflicts"} \cup Underway

\* It has such a cell in a chunk to merge, in what it merges, in what it uploads or
\* in a chunk it keeps.
Kept(c, x) ==
    \/ \E i \in ItemsAt(c) : ~i.old /\ i.chunk \in DOMAIN data /\ x \in DOMAIN data[i.chunk].val
    \/ \E f \in job[c].buffer : ~f.old /\ x \in DOMAIN f.frame.val
    \/ HasValue(job[c].merged, x)
    \/ pc[c] = "uploading" /\ \E k \in DOMAIN out[c] : x \in DOMAIN out[c][k].val
    \/ \E k \in job[c].chunks :
         k.dir = job[c].session /\ k \in DOMAIN data /\ x \in DOMAIN data[k].val

KeepsAll(c) == pc[c] \in KeptAt => \A x \in Promised(job[c].session) : Kept(c, x)

KeptInv ==
    /\ PostsSettled
    /\ \A s \in Sessions : FolderOwned(s)
    /\ \A c \in Commits : InStages(c) /\ AllMerged(c) /\ WorkOwned(c) /\ KeepsAll(c)

-----------------------------------------------------------------------------
(* Liveness: the event loop runs every coroutine that can go on, and every   *)
(* storage call returns.  Clients owe nothing, and nothing has to fail.      *)

Fairness ==
    /\ WF_vars(Upload) /\ WF_vars(Save)
    /\ \A p \in Posts : WF_vars(PostAck(p))
    /\ \A c \in Commits : WF_vars(Resolve(c) \/ Index(c) \/ PutBulkIndex(c))

FairSpec == Spec /\ Fairness

\* Every request sent to the worker is answered in the end.
EveryRequestAnswered == \A r \in Requests : Running(r) ~> Answered(r)
=============================================================================

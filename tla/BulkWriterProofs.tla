------------------------- MODULE BulkWriterProofs -------------------------
(***************************************************************************)
(* What holds of the write side, whatever the dataframes, the requests and *)
(* the sessions.  Whatever fails and whatever clients do: variables keep   *)
(* their types, an acknowledged bulk is stored (AckedBulkStored), and its  *)
(* chunks never hold the same cell, however conflicts are merged and split *)
(* (CatalogChunksDisjoint): a reader finds at most one value for a cell.   *)
(* When nothing fails: the last post of a file is what the file holds      *)
(* (LastComeWins); under the rules of the session protocol every chunk of  *)
(* an acknowledged bulk can be read, and does not change; where no two     *)
(* shapes share a file name, a bulk has what was posted, and an update has *)
(* the rest of the previous bulk; that is, the write side implements the   *)
(* store of versions of module VersionedBulks.  Whatever fails, where      *)
(* hashes tell indexes apart, the index of a bulk covers its chunks, and   *)
(* no post that was acknowledged before a commit was sent is lost.         *)
(***************************************************************************)
EXTENDS BulkWriter, ChunksProofs, FiniteSetTheorems, TLAPS

-----------------------------------------------------------------------------
(* Types *)

(* What storing an object does to the objects that are there. *)
LEMMA PutIs ==
    ASSUME NEW f, NEW k, NEW v
    PROVE  /\ DOMAIN Put(f, k, v) = DOMAIN f \cup {k}
           /\ \A x \in DOMAIN f \cup {k} : Put(f, k, v)[x] = IF x = k THEN v ELSE f[x]
BY DEF Put

(* A step that leaves the storage alone keeps its types. *)
LEMMA SameStorage ==
    ASSUME StorageOK, UNCHANGED storage
    PROVE  StorageOK'
BY DEF StorageOK, storage

(* The local variables of a commit that has not begun have their types. *)
LEMMA NoJobType == NoJob \in Job
BY DEF NoJob, Job

(* The types of the local variables of a commit, one by one. *)
LEMMA JobFields ==
    ASSUME NEW j \in Job
    PROVE  /\ j.session \in Sessions \cup {None} /\ j.prev \in Bulks \cup {None}
           /\ j.items \subseteq Item /\ j.chunks \subseteq Chunk
           /\ j.groups \subseteq SUBSET Item /\ j.fetch \subseteq Item
           /\ j.buffer \subseteq Frame /\ j.merged \in DataFrames \cup {EmptyFrame}
           /\ j.load \subseteq Chunk /\ j.rebuild \subseteq Chunk /\ j.rows \subseteq Rows
BY DEF Job

(* A step of a commit on its local variables. *)
LEMMA JobStepType ==
    ASSUME TypeOK, NEW c \in Commits, job' \in [Commits -> Job],
           UNCHANGED <<storage, tasks, out, save, failures>>,
           before' \in [Requests -> SUBSET Requests],
           NEW label \in Labels, Goto(c, label)
    PROVE  TypeOK'
<1>1. StorageOK'
  BY SameStorage DEF TypeOK
<1>2. RequestsOK'
  BY DEF TypeOK, RequestsOK, Goto, Labels
<1> QED BY <1>1, <1>2 DEF TypeOK

(* The four writes of an upload keep the types. *)
LEMMA UploadType ==
    ASSUME TypeOK, NEW r \in Requests, NEW t \in tasks[r], t[2] \in DOMAIN out[r],
           \/ PutMeta(r, t[2]) \/ PutData(r, t[2])
           \/ ListIndex(r, t[2]) \/ PutIndex(r, t[2])
    PROVE  TypeOK'
<1> DEFINE k == t[2]
<1>0. k \in Chunk /\ out[r][k] \in DataFrames
  BY DEF TypeOK, RequestsOK
<1>1. CASE PutMeta(r, k)
  BY <1>0, <1>1 DEF TypeOK, StorageOK, RequestsOK, PutMeta, Done
<1>2. CASE PutData(r, k)
  <2>1. StorageOK'
    <3>1. DOMAIN data' \subseteq Chunk /\ \A x \in DOMAIN data' : data'[x] \in DataFrames
      BY <1>0, <1>2 DEF TypeOK, StorageOK, PutData, Put
    <3> QED BY <3>1, <1>2 DEF TypeOK, StorageOK, PutData
  <2>2. RequestsOK' /\ job' = job
    BY <1>2 DEF TypeOK, RequestsOK, PutData, Done
  <2> QED BY <2>1, <2>2 DEF TypeOK
<1>3. CASE ListIndex(r, k)
  BY <1>0, <1>3 DEF TypeOK, StorageOK, RequestsOK, ListIndex, Task, storage
<1>4. CASE PutIndex(r, k)
  <2>1. StorageOK'
    <3> DEFINE T == SUBSET Rows
    <3>1. IndexFileOf(k) \in IndexFile /\ out[r][k].rows \in T
      BY <1>0, ChunkDir, DataFrameFields
    <3>2. DOMAIN indexes \subseteq IndexFile /\ \A x \in DOMAIN indexes : indexes[x] \in T
      BY DEF TypeOK, StorageOK
    <3>3. indexes' = Put(indexes, IndexFileOf(k), out[r][k].rows)
      BY <1>4 DEF PutIndex
    <3> HIDE DEF T
    <3>4. DOMAIN indexes' \subseteq IndexFile /\ \A x \in DOMAIN indexes' : indexes'[x] \in T
      BY <3>1, <3>2, <3>3 DEF Put
    <3> USE DEF T
    <3> QED BY <3>4, <1>4 DEF TypeOK, StorageOK, PutIndex
  <2>2. RequestsOK' /\ job' = job
    BY <1>4 DEF TypeOK, RequestsOK, PutIndex, Done
  <2> QED BY <2>1, <2>2 DEF TypeOK
<1> QED BY <1>1, <1>2, <1>3, <1>4

(* Failures and crashes keep the types. *)
LEMMA FailureType ==
    ASSUME TypeOK, Failure
    PROVE  TypeOK'
<1>0. MaxFailures \in Nat /\ Bulks \subseteq Requests /\ Commits \subseteq Bulks
  BY RequestAssumption DEF Requests, Bulks
<1>1. ASSUME NEW r \in Requests, Crash(r)
      PROVE  TypeOK'
  BY <1>0, <1>1 DEF TypeOK, StorageOK, RequestsOK, Crash, Goto, storage, Labels
<1>2. ASSUME NEW r \in Requests, NEW t \in tasks[r], FailTask(r, t)
      PROVE  TypeOK'
  BY <1>0, <1>2 DEF TypeOK, StorageOK, RequestsOK, FailTask, Goto, Done, storage, Labels
<1>3. ASSUME NEW c \in Commits, FailRead(c)
      PROVE  TypeOK'
  BY <1>0, <1>3 DEF TypeOK, StorageOK, RequestsOK, FailRead, Goto, storage, Labels
<1>4. ASSUME NEW b \in Bulks, NEW what \in save[b], FailSave(b, what)
      PROVE  TypeOK'
  BY <1>0, <1>4 DEF TypeOK, StorageOK, RequestsOK, FailSave, Goto, storage, Labels
<1> QED BY <1>1, <1>2, <1>3, <1>4 DEF Failure

(* Posting a chunk to a session keeps the types. *)
LEMMA PostType ==
    ASSUME TypeOK, PostStep
    PROVE  TypeOK'
<1>0. Posts \subseteq Requests /\ Posts \subseteq Writers /\ Sessions \subseteq Dirs
  BY RequestAssumption DEF Requests
<1>1. ASSUME NEW p \in Posts, NEW s \in Sessions, PostChunk(p, s)
      PROVE  TypeOK'
  <2>1. PICK shape \in PostShapes(s) :
          /\ out'   = [out EXCEPT ![p] = Put(<<>>, ChunkAt(s, FilledBy(p, shape)), FilledBy(p, shape))]
          /\ tasks' = [tasks EXCEPT ![p] = UploadTasks({ChunkAt(s, FilledBy(p, shape))})]
    BY <1>1 DEF PostChunk
  <2> DEFINE d == FilledBy(p, shape)
             k == ChunkAt(s, d)
  <2>2. d \in DataFrames /\ k \in Chunk
    BY <1>0, RequestAssumption, FilledByType, ChunkAtType
  <2>3. pc' = [pc EXCEPT ![p] = "uploading"] /\ before' = [before EXCEPT ![p] = {q \in Requests : Answered(q)}]
    BY <1>1 DEF PostChunk, Goto, Sent
  <2>4. UNCHANGED <<storage, save, job, failures>>
    BY <1>1 DEF PostChunk
  <2> HIDE DEF d, k
  <2>5. DOMAIN Put(<<>>, k, d) \subseteq Chunk /\ \A x \in DOMAIN Put(<<>>, k, d) : Put(<<>>, k, d)[x] \in DataFrames
    BY <2>2 DEF Put
  <2>6. UploadTasks({k}) \subseteq Task
    BY <2>2 DEF UploadTasks, Task
  <2>7. out' = [out EXCEPT ![p] = Put(<<>>, k, d)] /\ tasks' = [tasks EXCEPT ![p] = UploadTasks({k})]
    BY <2>1 DEF d, k
  <2>8. RequestsOK'
    BY <1>0, <2>3, <2>4, <2>5, <2>6, <2>7 DEF TypeOK, RequestsOK, Labels
  <2> QED BY <2>4, <2>8, SameStorage DEF TypeOK
<1>2. ASSUME NEW p \in Posts, PostAck(p)
      PROVE  TypeOK'
  BY <1>0, <1>2, SameStorage DEF TypeOK, RequestsOK, PostAck, Goto, Labels
<1> QED BY <1>1, <1>2 DEF PostStep

(* Posting a whole bulk keeps the types. *)
LEMMA PostWholeType ==
    ASSUME TypeOK, NEW w \in Wholes, PostWhole(w)
    PROVE  TypeOK'
<1>0. w \in Requests /\ w \in Writers /\ w \in Dirs /\ w \in Bulks
  BY RequestAssumption DEF Requests, Bulks
<1>1. PICK shape \in WholeShapes :
        /\ out'   = [out EXCEPT ![w] = Put(<<>>, ChunkAt(w, FilledBy(w, shape)), FilledBy(w, shape))]
        /\ tasks' = [tasks EXCEPT ![w] = {"meta", "data"} \X {ChunkAt(w, FilledBy(w, shape))}]
  BY DEF PostWhole
<1> DEFINE d == FilledBy(w, shape)
           k == ChunkAt(w, d)
<1>2. d \in DataFrames /\ k \in Chunk
  BY <1>0, RequestAssumption, FilledByType, ChunkAtType
<1>3. /\ pc' = [pc EXCEPT ![w] = "saving"] /\ save' = [save EXCEPT ![w] = {"catalog"}]
      /\ before' = [before EXCEPT ![w] = {q \in Requests : Answered(q)}]
      /\ UNCHANGED <<storage, job, failures>>
  BY DEF PostWhole, Goto, Sent
<1> HIDE DEF d, k
<1>4. DOMAIN Put(<<>>, k, d) \subseteq Chunk /\ \A x \in DOMAIN Put(<<>>, k, d) : Put(<<>>, k, d)[x] \in DataFrames
  BY <1>2 DEF Put
<1>5. {"meta", "data"} \X {k} \subseteq Task
  BY <1>2 DEF Task
<1>6. out' = [out EXCEPT ![w] = Put(<<>>, k, d)] /\ tasks' = [tasks EXCEPT ![w] = {"meta", "data"} \X {k}]
  BY <1>1 DEF d, k
<1>7. RequestsOK'
  BY <1>0, <1>3, <1>4, <1>5, <1>6 DEF TypeOK, RequestsOK, Labels
<1> QED BY <1>3, <1>7, SameStorage DEF TypeOK

(* Beginning a commit keeps the types. *)
LEMMA CommitType ==
    ASSUME TypeOK, Complete
    PROVE  TypeOK'
<1>1. PICK c \in Commits, s \in Sessions : \E prev \in UpdateFrom(s) : Commit(c, s, prev)
  BY DEF Complete
<1>2. PICK prev \in UpdateFrom(s) : Commit(c, s, prev)
  BY <1>1
<1>3. prev \in Bulks \cup {None}
  BY RequestAssumption
<1>4. [NoJob EXCEPT !.session = s, !.prev = prev] \in Job
  BY <1>3 DEF NoJob, Job
<1>5. job' \in [Commits -> Job]
  BY <1>2, <1>4 DEF Commit, TypeOK
<1>6. before' \in [Requests -> SUBSET Requests]
  BY <1>2 DEF Commit, Sent, TypeOK, RequestsOK
<1> QED BY <1>2, <1>5, <1>6, JobStepType DEF Commit, Labels

(* The steps that list and resolve the chunks of a commit keep the types. *)
LEMMA ResolveType ==
    ASSUME TypeOK, NEW c \in Commits, Resolve(c),
           pc[c] # "idle" => job[c].session \in Sessions
    PROVE  TypeOK'
<1> DEFINE j == job[c]
<1>0. /\ job \in [Commits -> Job] /\ j \in Job
      /\ c \in Requests /\ pc \in [Requests -> Labels]
      /\ before \in [Requests -> SUBSET Requests]
  BY DEF TypeOK, RequestsOK, Requests, Bulks
<1>1. CASE ListMetas(c)
  <2>1. [chunk : {k \in metas : k.dir = j.session}, old : {FALSE}] \subseteq Item
    BY DEF Item, TypeOK, StorageOK
  <2>2. job' \in [Commits -> Job]
    BY <1>0, <1>1, <2>1 DEF ListMetas, Job
  <2> QED BY <1>0, <1>1, <2>2, JobStepType DEF ListMetas, Labels
<1>2. CASE LoadPrevious(c)
  <2>1. [chunk : catalogs[j.prev].chunks, old : {TRUE}] \subseteq Item
    BY <1>2 DEF Item, TypeOK, StorageOK, LoadPrevious
  <2>2. job' \in [Commits -> Job]
    BY <1>0, <1>2, <2>1 DEF LoadPrevious, Job
  <2> QED BY <1>0, <1>2, <2>2, JobStepType DEF LoadPrevious, Labels
<1>3. CASE FindConflicts(c)
  <2> DEFINE groups == ConflictGroups(j.items)
  <2>1. groups \subseteq SUBSET Item
    BY <1>0, GroupsType, JobFields
  <2>2. {i.chunk : i \in j.items \ UNION groups} \subseteq Chunk
    BY <1>0, JobFields DEF Item
  <2>3. job' = [job EXCEPT ![c].items = {}, ![c].groups = groups,
                           ![c].chunks = {i.chunk : i \in j.items \ UNION groups}]
    BY <1>3 DEF FindConflicts
  <2> HIDE DEF groups
  <2>4. job' \in [Commits -> Job]
    BY <1>0, <2>1, <2>2, <2>3 DEF Job
  <2> QED BY <1>0, <1>3, <2>4, JobStepType DEF FindConflicts, Labels
<1>4. CASE NextGroup(c)
  <2>1. PICK g \in j.groups : job' = [job EXCEPT ![c].groups = @ \ {g}, ![c].fetch = g]
    BY <1>4 DEF NextGroup
  <2>2. g \subseteq Item
    BY <1>0, JobFields
  <2>3. job' \in [Commits -> Job]
    BY <1>0, <2>1, <2>2 DEF Job
  <2> QED BY <1>0, <1>4, <2>3, JobStepType DEF NextGroup, Labels
<1>5. ASSUME NEW i \in j.fetch, FetchChunk(c, i)
      PROVE  TypeOK'
  <2>1. CASE i.chunk \in DOMAIN data
    <3>1. [old |-> i.old, frame |-> data[i.chunk]] \in Frame
      BY <1>0, <2>1, JobFields DEF Frame, Item, TypeOK, StorageOK
    <3>2. job' \in [Commits -> Job]
      BY <1>0, <1>5, <2>1, <3>1 DEF FetchChunk, Job
    <3> QED BY <1>0, <1>5, <2>1, <3>2, JobStepType DEF FetchChunk, Labels
  <2>2. CASE i.chunk \notin DOMAIN data
    BY <1>0, <1>5, <2>2, JobStepType DEF FetchChunk, Labels
  <2> QED BY <2>1, <2>2
<1>6. ASSUME NEW f \in j.buffer, MergeChunk(c, f)
      PROVE  TypeOK'
  <2>1. CombineFirst(j.merged, f.frame) \in DataFrames
    BY <1>0, CombineFirstType, JobFields DEF Frame
  <2>2. job' \in [Commits -> Job]
    BY <1>0, <1>6, <2>1 DEF MergeChunk, Job
  <2>3. Goto(c, "merging")
    BY <1>0, <1>6 DEF MergeChunk, Goto
  <2> QED BY <1>0, <1>6, <2>2, <2>3, JobStepType DEF MergeChunk, Labels
<1>7. CASE UploadResolved(c)
  <2> DEFINE pieces == SplitIntoChunks(j.merged)
             chunks == {ChunkAt(j.session, d) : d \in pieces}
             new    == [k \in chunks |-> CHOOSE d \in pieces : k = ChunkAt(j.session, d)]
  <2>1. /\ out' = [out EXCEPT ![c] = new] /\ tasks' = [tasks EXCEPT ![c] = UploadTasks(chunks)]
        /\ job' = [job EXCEPT ![c].merged = EmptyFrame]
        /\ pc' = [pc EXCEPT ![c] = "uploading"] /\ pc[c] = "merging"
        /\ UNCHANGED <<storage, save, before, failures>>
    BY <1>7 DEF UploadResolved, UploadInto, Goto
  <2>2. pieces \subseteq DataFrames
    BY <1>0, SplitType, JobFields
  <2>3. chunks \subseteq Chunk
    BY <2>1, <2>2, ChunkAtType, RequestAssumption
  <2>4. DOMAIN new = chunks /\ \A k \in chunks : new[k] \in DataFrames
    BY <2>2
  <2>5. UploadTasks(chunks) \subseteq Task
    BY <2>3 DEF UploadTasks, Task
  <2> HIDE DEF pieces, chunks, new
  <2>6. RequestsOK'
    BY <1>0, <2>1, <2>3, <2>4, <2>5 DEF TypeOK, RequestsOK, Labels
  <2>7. job' \in [Commits -> Job]
    BY <1>0, <2>1 DEF Job
  <2> QED BY <2>1, <2>6, <2>7, SameStorage DEF TypeOK
<1>8. CASE GroupResolved(c)
  <2>1. DOMAIN out[c] \subseteq Chunk
    BY <1>0 DEF TypeOK, RequestsOK
  <2>2. job' \in [Commits -> Job]
    BY <1>0, <1>8, <2>1 DEF GroupResolved, Job
  <2> QED BY <1>0, <1>8, <2>2, JobStepType DEF GroupResolved, Labels
<1> QED BY <1>1, <1>2, <1>3, <1>4, <1>5, <1>6, <1>7, <1>8 DEF Resolve

(* The steps that build the index of a commit keep the types. *)
LEMMA IndexType ==
    ASSUME TypeOK, NEW c \in Commits, Index(c)
    PROVE  TypeOK'
<1> DEFINE j == job[c]
<1>0. /\ job \in [Commits -> Job] /\ j \in Job
      /\ c \in Requests /\ pc \in [Requests -> Labels]
      /\ before \in [Requests -> SUBSET Requests]
  BY DEF TypeOK, RequestsOK, Requests, Bulks
<1>1. CASE BuildIndex(c)
  <2>1. PICK T \in Representatives(j.chunks) : job' = [job EXCEPT ![c].load = T]
    BY <1>1 DEF BuildIndex
  <2>2. T \subseteq Chunk
    BY <1>0, JobFields DEF Representatives
  <2>3. job' \in [Commits -> Job]
    BY <1>0, <2>1, <2>2 DEF Job
  <2> QED BY <1>0, <1>1, <2>3, JobStepType DEF BuildIndex, Labels
<1>2. ASSUME NEW k \in j.load, LoadIndex(c, k)
      PROVE  TypeOK'
  <2>1. \A f \in DOMAIN indexes : indexes[f] \subseteq Rows
    BY DEF TypeOK, StorageOK
  <2>2. k \in Chunk
    BY <1>0, JobFields
  <2>3. job' \in [Commits -> Job]
    BY <1>0, <1>2, <2>1, <2>2 DEF LoadIndex, Job
  <2>4. Goto(c, "indexing")
    BY <1>0, <1>2 DEF LoadIndex, Goto
  <2> QED BY <1>0, <1>2, <2>3, <2>4, JobStepType DEF LoadIndex, Labels
<1>3. ASSUME NEW k \in j.rebuild, RebuildIndex(c, k)
      PROVE  TypeOK'
  <2>1. CASE k \in DOMAIN data
    <3>1. k \in Chunk /\ data[k] \in DataFrames /\ data[k].rows \subseteq Rows
      BY <1>0, <2>1, JobFields, DataFrameFields DEF TypeOK, StorageOK
    <3>2. job' \in [Commits -> Job]
      BY <1>0, <1>3, <2>1, <3>1 DEF RebuildIndex, Job
    <3>3. <<"index", k>> \in Task
      BY <3>1 DEF Task
    <3>4. /\ out' = [out EXCEPT ![c] = Put(out[c], k, data[k])]
          /\ tasks' = [tasks EXCEPT ![c] = tasks[c] \cup {<<"index", k>>}]
          /\ UNCHANGED <<storage, pc, save, before, failures>>
      BY <1>3, <2>1 DEF RebuildIndex
    <3>5. /\ DOMAIN Put(out[c], k, data[k]) \subseteq Chunk
          /\ \A x \in DOMAIN Put(out[c], k, data[k]) : Put(out[c], k, data[k])[x] \in DataFrames
      BY <1>0, <3>1 DEF Put, TypeOK, RequestsOK
    <3>6. RequestsOK'
      BY <1>0, <3>3, <3>4, <3>5 DEF TypeOK, RequestsOK
    <3> QED BY <3>2, <3>4, <3>6, SameStorage DEF TypeOK
  <2>2. CASE k \notin DOMAIN data
    BY <1>0, <1>3, <2>2, JobStepType DEF RebuildIndex, Labels
  <2> QED BY <2>1, <2>2
<1>4. CASE SaveCatalog(c)
  <2>1. RequestsOK'
    BY <1>0, <1>4 DEF TypeOK, RequestsOK, SaveCatalog, Goto, Labels
  <2> QED BY <1>4, <2>1, SameStorage DEF TypeOK, SaveCatalog
<1> QED BY <1>1, <1>2, <1>3, <1>4 DEF Index

(* The catalog saved for a bulk has its type. *)
LEMMA CatalogOfType ==
    ASSUME TypeOK, NEW b \in Bulks
    PROVE  CatalogOf(b).chunks \subseteq Chunk /\ CatalogOf(b).nbRows \in Nat
<1>1. CASE b \in Commits
  <2>1. job[b].chunks \subseteq Chunk /\ job[b].rows \subseteq Rows
    BY <1>1, JobFields DEF TypeOK
  <2>2. Cardinality(job[b].rows) \in Nat
    BY <2>1, FS_Subset, FS_CardinalityType, GeometryAssumption
  <2> QED BY <1>1, <2>1, <2>2 DEF CatalogOf
<1>2. CASE b \notin Commits
  <2> DEFINE rows == UNION {out[b][k].rows : k \in DOMAIN out[b]}
  <2>0. DOMAIN out[b] \subseteq Chunk /\ \A k \in DOMAIN out[b] : out[b][k] \in DataFrames
    BY DEF TypeOK, RequestsOK, Requests
  <2>1. rows \subseteq Rows
    BY <2>0, DataFrameFields
  <2>2. Cardinality(rows) \in Nat
    BY <2>1, FS_Subset, FS_CardinalityType, GeometryAssumption
  <2> QED BY <1>2, <2>0, <2>2 DEF CatalogOf
<1> QED BY <1>1, <1>2

(* Saving a catalog and an index, and answering, keep the types. *)
LEMMA SaveType ==
    ASSUME TypeOK, Save \/ \E c \in Commits : PutBulkIndex(c)
    PROVE  TypeOK'
<1>1. ASSUME NEW b \in Bulks, PutCatalog(b)
      PROVE  TypeOK'
  <2> DEFINE cat == CatalogOf(b)
  <2>1. cat.chunks \subseteq Chunk /\ cat.nbRows \in Nat
    BY CatalogOfType
  <2>2. catalogs' = Put(catalogs, b, cat)
    BY <1>1 DEF PutCatalog
  <2> HIDE DEF cat
  <2>3. /\ DOMAIN catalogs' \subseteq Bulks
        /\ \A x \in DOMAIN catalogs' : /\ catalogs'[x].chunks \subseteq Chunk
                                       /\ catalogs'[x].nbRows \in Nat
    BY <2>1, <2>2 DEF Put, TypeOK, StorageOK
  <2>4. StorageOK'
    BY <1>1, <2>3 DEF TypeOK, StorageOK, PutCatalog
  <2>5. RequestsOK' /\ job' = job
    BY <1>1 DEF TypeOK, RequestsOK, PutCatalog
  <2> QED BY <2>4, <2>5 DEF TypeOK
<1>2. ASSUME NEW b \in Bulks, BulkAck(b)
      PROVE  TypeOK'
  BY <1>2, SameStorage DEF TypeOK, RequestsOK, BulkAck, Goto, Labels
<1>3. ASSUME NEW c \in Commits, PutBulkIndex(c)
      PROVE  TypeOK'
  <2>1. job[c].rows \subseteq Rows
    BY JobFields DEF TypeOK
  <2>2. bulkIndex' = Put(bulkIndex, c, job[c].rows)
    BY <1>3 DEF PutBulkIndex
  <2>3. DOMAIN bulkIndex' \subseteq Commits /\ \A x \in DOMAIN bulkIndex' : bulkIndex'[x] \subseteq Rows
    BY <2>1, <2>2 DEF Put, TypeOK, StorageOK
  <2>4. StorageOK'
    BY <1>3, <2>3 DEF TypeOK, StorageOK, PutBulkIndex
  <2>5. RequestsOK' /\ job' = job
    BY <1>3 DEF TypeOK, RequestsOK, PutBulkIndex
  <2> QED BY <2>4, <2>5 DEF TypeOK
<1> QED BY <1>1, <1>2, <1>3 DEF Save

(* The variables have their types when the service starts. *)
LEMMA InitType == Init => TypeOK
<1> SUFFICES ASSUME Init PROVE TypeOK
  OBVIOUS
<1>1. StorageOK
  BY DEF Init, StorageOK
<1>2. RequestsOK
  BY RequestAssumption DEF Init, RequestsOK, Labels
<1>3. job \in [Commits -> Job]
  BY NoJobType DEF Init
<1> QED BY <1>1, <1>2, <1>3 DEF TypeOK

(* Every step keeps the types; it takes from the invariant that a request    *)
(* knows what it uploads, and a commit its session.                          *)
LEMMA NextType ==
    ASSUME TypeOK, TasksKnown, JobsStored, [Next]_vars
    PROVE  TypeOK'
<1>1. CASE Upload
  BY <1>1, UploadType DEF Upload, TasksKnown
<1>2. ASSUME NEW c \in Commits, Resolve(c) \/ Index(c)
      PROVE  TypeOK'
  BY <1>2, ResolveType, IndexType DEF JobsStored
<1>3. CASE UNCHANGED vars
  BY <1>3 DEF TypeOK, StorageOK, RequestsOK, vars, storage
<1> QED BY <1>1, <1>2, <1>3, PostType, CommitType, PostWholeType, SaveType, FailureType DEF Next

-----------------------------------------------------------------------------
(* The invariant *)

Tracked == /\ TasksKnown /\ UploadsTracked /\ MetasExplained
           /\ JobsStored /\ SavesTracked /\ CatalogsTracked

(* A step of a commit on its local variables keeps the invariant, if the     *)
(* chunks it works on next have their meta stored.                           *)
LEMMA JobStepTracked ==
    ASSUME TypeOK, Tracked, NEW c \in Commits,
           NEW label \in Labels \ {"idle", "acked", "saving"}, Goto(c, label),
           pc[c] \notin {"acked", "failed"},
           label \in QuietLabels => tasks[c] = {},
           UNCHANGED <<storage, tasks, out, save>>,
           job' \in [Commits -> Job], \A d \in Commits \ {c} : job'[d] = job[d],
           \A i \in job'[c].items : i.chunk \in metas,
           job'[c].chunks \subseteq metas, job'[c].load \subseteq metas,
           job'[c].rebuild \subseteq metas,
           job'[c].prev # None => pc[job'[c].prev] = "acked",
           job'[c].session \in Sessions
    PROVE  Tracked'
<1>0. /\ c \in Requests /\ c \in Bulks /\ c \notin Wholes
      /\ pc \in [Requests -> Labels] /\ job \in [Commits -> Job]
      /\ Bulks \subseteq Requests /\ Commits \subseteq Bulks
  BY RequestAssumption DEF TypeOK, RequestsOK, Requests, Bulks
<1>1. /\ pc' = [pc EXCEPT ![c] = label]
      /\ metas' = metas /\ data' = data /\ catalogs' = catalogs /\ bulkIndex' = bulkIndex
      /\ tasks' = tasks /\ out' = out /\ save' = save
  BY DEF Goto, storage
<1>2. TasksKnown'
  BY <1>0, <1>1 DEF Tracked, TasksKnown
<1>3. UploadsTracked'
  BY <1>0, <1>1 DEF Tracked, UploadsTracked
<1>4. MetasExplained'
  BY <1>0, <1>1 DEF Tracked, MetasExplained
<1>5. JobsStored'
  <2> SUFFICES ASSUME NEW d \in Commits
               PROVE  /\ {i.chunk : i \in job'[d].items} \subseteq metas
                      /\ job'[d].chunks \cup job'[d].load \cup job'[d].rebuild \subseteq metas
                      /\ job'[d].prev # None => pc'[job'[d].prev] = "acked"
                      /\ pc'[d] # "idle" => job'[d].session \in Sessions
    BY <1>1 DEF JobsStored
  <2>1. job'[d].prev \in Bulks \cup {None}
    BY <1>0, JobFields
  <2>2. CASE d = c
    BY <1>0, <1>1, <2>1, <2>2
  <2>3. CASE d # c
    BY <1>0, <1>1, <2>1, <2>3 DEF Tracked, JobsStored
  <2> QED BY <2>2, <2>3
<1>6. SavesTracked'
  BY <1>0, <1>1 DEF Tracked, SavesTracked
<1>7. CatalogsTracked'
  BY <1>0, <1>1, RequestAssumption DEF Tracked, CatalogsTracked, TypeOK, StorageOK
<1> QED BY <1>2, <1>3, <1>4, <1>5, <1>6, <1>7 DEF Tracked

(* What commits work on stays stored in a step that changes no job, if what  *)
(* was acknowledged stays so.                                                *)
LEMMA JobsKept ==
    ASSUME TypeOK, JobsStored, job' = job, metas \subseteq metas',
           \A b \in Bulks : pc[b] = "acked" => pc'[b] = "acked",
           \A c \in Commits : pc[c] = "idle" => pc'[c] = "idle"
    PROVE  JobsStored'
<1>1. \A d \in Commits : job[d].prev \in Bulks \cup {None}
  BY JobFields DEF TypeOK
<1>2. \A d \in Commits : job[d].prev # None => pc'[job[d].prev] = "acked"
  <2> SUFFICES ASSUME NEW d \in Commits, job[d].prev # None
               PROVE  pc'[job[d].prev] = "acked"
    OBVIOUS
  <2>1. job[d].prev \in Bulks /\ pc[job[d].prev] = "acked"
    BY <1>1 DEF JobsStored
  <2> QED BY <2>1
<1>3. \A d \in Commits : pc'[d] # "idle" => job[d].session \in Sessions
  BY DEF JobsStored
<1> QED BY <1>2, <1>3 DEF JobsStored

(* A storage call that returns keeps the invariant: the task done is the     *)
(* reason why its object is there.                                           *)
LEMMA TaskDoneTracked ==
    ASSUME TypeOK, Tracked, NEW r \in Requests, NEW kind, NEW k,
           <<kind, k>> \in tasks[r],
           tasks' = [tasks EXCEPT ![r] = tasks'[r]],
           tasks'[r] \subseteq tasks[r] \cup {<<"index", k>>},
           tasks[r] \ {<<kind, k>>} \subseteq tasks'[r],
           metas \subseteq metas', metas' \subseteq metas \cup {k},
           DOMAIN data \subseteq DOMAIN data',
           kind = "meta" => k \in metas', kind = "data" => k \in DOMAIN data',
           UNCHANGED <<catalogs, bulkIndex, pc, out, save, job>>
    PROVE  Tracked'
<1>0. /\ pc[r] \notin QuietLabels /\ k \in DOMAIN out[r]
      /\ tasks \in [Requests -> SUBSET Task]
  BY DEF Tracked, TasksKnown, TypeOK, RequestsOK
<1>1. TasksKnown'
  <2> SUFFICES ASSUME NEW q \in Requests
               PROVE  /\ \A t \in tasks'[q] : t[2] \in DOMAIN out'[q]
                      /\ pc'[q] \in QuietLabels => tasks'[q] = {}
    BY DEF TasksKnown
  <2>1. CASE q = r
    <3>1. tasks'[q] \subseteq tasks[r] \cup {<<"index", k>>}
      BY <1>0, <2>1
    <3>2. \A t \in tasks[r] : t[2] \in DOMAIN out[r]
      BY DEF Tracked, TasksKnown
    <3>3. <<"index", k>>[2] = k
      OBVIOUS
    <3> QED BY <1>0, <2>1, <3>1, <3>2, <3>3
  <2>2. CASE q # r
    BY <1>0, <2>2 DEF Tracked, TasksKnown
  <2> QED BY <2>1, <2>2
<1>2. UploadsTracked'
  <2> SUFFICES ASSUME NEW q \in Requests, pc[q] # "failed", NEW l \in DOMAIN out[q]
               PROVE  /\ l \in metas' \/ <<"meta", l>> \in tasks'[q]
                      /\ l \in DOMAIN data' \/ <<"data", l>> \in tasks'[q]
    BY DEF UploadsTracked
  <2>1. /\ l \in metas \/ <<"meta", l>> \in tasks[q]
        /\ l \in DOMAIN data \/ <<"data", l>> \in tasks[q]
    BY DEF Tracked, UploadsTracked
  <2>2. tasks[q] \ {<<kind, k>>} \subseteq tasks'[q]
    BY <1>0
  <2>3. /\ <<"meta", l>> = <<kind, k>> => l \in metas'
        /\ <<"data", l>> = <<kind, k>> => l \in DOMAIN data'
    OBVIOUS
  <2> QED BY <2>1, <2>2, <2>3
<1>3. MetasExplained'
  BY <1>0 DEF Tracked, MetasExplained, QuietLabels
<1>4. JobsStored'
  BY JobsKept DEF Tracked
<1>5. SavesTracked'
  BY DEF Tracked, SavesTracked
<1>6. CatalogsTracked'
  BY DEF Tracked, CatalogsTracked
<1> QED BY <1>1, <1>2, <1>3, <1>4, <1>5, <1>6 DEF Tracked

(* The four writes of an upload keep what is tracked. *)
LEMMA UploadTracked ==
    ASSUME TypeOK, Tracked, Upload
    PROVE  Tracked'
<1> SUFFICES ASSUME NEW r \in Requests, NEW t \in tasks[r],
                    PutMeta(r, t[2]) \/ PutData(r, t[2]) \/ ListIndex(r, t[2]) \/ PutIndex(r, t[2])
             PROVE  Tracked'
  BY DEF Upload
<1> DEFINE k == t[2]
<1>0. tasks \in [Requests -> SUBSET Task]
  BY DEF TypeOK, RequestsOK
<1>2. CASE PutMeta(r, k)
  <2>1. /\ <<"meta", k>> \in tasks[r] /\ metas' = metas \cup {k}
        /\ tasks' = [tasks EXCEPT ![r] = tasks[r] \ {<<"meta", k>>}]
        /\ UNCHANGED <<data, catalogs, bulkIndex, pc, out, save, job>>
    BY <1>2 DEF PutMeta, Done
  <2>2. tasks' = [tasks EXCEPT ![r] = tasks'[r]] /\ tasks'[r] = tasks[r] \ {<<"meta", k>>}
    BY <1>0, <2>1
  <2> QED BY <2>1, <2>2, TaskDoneTracked
<1>3. CASE PutData(r, k)
  <2>1. /\ <<"data", k>> \in tasks[r] /\ DOMAIN data' = DOMAIN data \cup {k}
        /\ tasks' = [tasks EXCEPT ![r] = tasks[r] \ {<<"data", k>>}]
        /\ UNCHANGED <<metas, catalogs, bulkIndex, pc, out, save, job>>
    BY <1>3 DEF PutData, Done, Put
  <2>2. tasks' = [tasks EXCEPT ![r] = tasks'[r]] /\ tasks'[r] = tasks[r] \ {<<"data", k>>}
    BY <1>0, <2>1
  <2> QED BY <2>1, <2>2, TaskDoneTracked
<1>4. CASE ListIndex(r, k)
  <2>1. /\ <<"list", k>> \in tasks[r]
        /\ tasks' = [tasks EXCEPT ![r] = (tasks[r] \ {<<"list", k>>})
              \cup (IF IndexFileOf(k) \in DOMAIN indexes THEN {} ELSE {<<"index", k>>})]
        /\ UNCHANGED <<metas, data, catalogs, bulkIndex, pc, out, save, job>>
    BY <1>4 DEF ListIndex, storage
  <2>2. /\ tasks' = [tasks EXCEPT ![r] = tasks'[r]]
        /\ tasks'[r] \subseteq tasks[r] \cup {<<"index", k>>}
        /\ tasks[r] \ {<<"list", k>>} \subseteq tasks'[r]
    BY <1>0, <2>1
  <2> QED BY <2>1, <2>2, TaskDoneTracked
<1>5. CASE PutIndex(r, k)
  <2>1. /\ <<"index", k>> \in tasks[r]
        /\ tasks' = [tasks EXCEPT ![r] = tasks[r] \ {<<"index", k>>}]
        /\ UNCHANGED <<metas, data, catalogs, bulkIndex, pc, out, save, job>>
    BY <1>5 DEF PutIndex, Done
  <2>2. tasks' = [tasks EXCEPT ![r] = tasks'[r]] /\ tasks'[r] = tasks[r] \ {<<"index", k>>}
    BY <1>0, <2>1
  <2> QED BY <2>1, <2>2, TaskDoneTracked
<1> QED BY <1>2, <1>3, <1>4, <1>5

(* A request that fails drops uploads, and is no longer one of those the     *)
(* invariant is about.                                                       *)
LEMMA FailedTracked ==
    ASSUME TypeOK, Tracked, NEW r \in Requests, pc[r] \notin {"idle", "acked"},
           pc' = [pc EXCEPT ![r] = "failed"],
           UNCHANGED <<storage, out, job>>,
           \A q \in Requests : tasks'[q] \subseteq tasks[q] /\ (q # r => tasks'[q] = tasks[q]),
           \A b \in Bulks : save'[b] \subseteq save[b] /\ (b # r => save'[b] = save[b])
    PROVE  Tracked'
<1>0. /\ pc \in [Requests -> Labels] /\ job \in [Commits -> Job]
      /\ Bulks \subseteq Requests /\ Commits \subseteq Bulks
  BY DEF TypeOK, RequestsOK, Requests, Bulks
<1>1. /\ metas' = metas /\ data' = data /\ catalogs' = catalogs /\ bulkIndex' = bulkIndex
      /\ out' = out /\ job' = job
  BY DEF storage
<1>2. TasksKnown'
  BY <1>0, <1>1 DEF Tracked, TasksKnown, QuietLabels
<1>3. UploadsTracked'
  BY <1>0, <1>1 DEF Tracked, UploadsTracked
<1>4. MetasExplained'
  BY <1>0, <1>1 DEF Tracked, MetasExplained
<1>5. JobsStored'
  BY <1>0, <1>1, JobsKept DEF Tracked
<1>6. SavesTracked'
  BY <1>0, <1>1 DEF Tracked, SavesTracked
<1>7. CatalogsTracked'
  BY <1>0, <1>1 DEF Tracked, CatalogsTracked, TypeOK, StorageOK
<1> QED BY <1>2, <1>3, <1>4, <1>5, <1>6, <1>7 DEF Tracked

(* Failures and crashes keep what is tracked. *)
LEMMA FailureTracked ==
    ASSUME TypeOK, Tracked, Failure
    PROVE  Tracked'
<1>0. /\ tasks \in [Requests -> SUBSET Task] /\ save \in [Bulks -> SUBSET {"catalog", "index"}]
      /\ Bulks \subseteq Requests /\ Commits \subseteq Bulks
      /\ \A q \in Requests : pc[q] \in {"idle", "acked"} => tasks[q] = {}
      /\ \A b \in Bulks : pc[b] \in {"idle", "acked"} => save[b] = {}
  BY DEF TypeOK, RequestsOK, Tracked, TasksKnown, SavesTracked, QuietLabels, Requests, Bulks
<1>1. ASSUME NEW r \in Requests, Crash(r)
      PROVE  Tracked'
  <2>1. pc[r] \notin {"idle", "acked"}
    BY <1>0, <1>1 DEF Crash, Running
  <2>2. /\ \A q \in Requests : tasks'[q] \subseteq tasks[q] /\ (q # r => tasks'[q] = tasks[q])
        /\ \A b \in Bulks : save'[b] \subseteq save[b] /\ (b # r => save'[b] = save[b])
    BY <1>0, <1>1 DEF Crash
  <2> QED BY <1>1, <2>1, <2>2, FailedTracked DEF Crash, Goto
<1>2. ASSUME NEW r \in Requests, NEW t \in tasks[r], FailTask(r, t)
      PROVE  Tracked'
  <2>1. \A q \in Requests : tasks'[q] \subseteq tasks[q] /\ (q # r => tasks'[q] = tasks[q])
    BY <1>0, <1>2 DEF FailTask, Done
  <2> QED BY <1>0, <1>2, <2>1, FailedTracked DEF FailTask, Goto
<1>3. ASSUME NEW c \in Commits, FailRead(c)
      PROVE  Tracked'
  BY <1>0, <1>3, FailedTracked DEF FailRead, Goto
<1>4. ASSUME NEW b \in Bulks, NEW what \in save[b], FailSave(b, what)
      PROVE  Tracked'
  <2>1. \A a \in Bulks : save'[a] \subseteq save[a] /\ (a # b => save'[a] = save[a])
    BY <1>0, <1>4 DEF FailSave
  <2> QED BY <1>0, <1>4, <2>1, FailedTracked DEF FailSave, Goto
<1> QED BY <1>1, <1>2, <1>3, <1>4 DEF Failure

(* A request that starts its uploads has none left from before, and tracks   *)
(* all of the new ones.                                                      *)
LEMMA UploadsStarted ==
    ASSUME TypeOK, Tracked, NEW r \in Requests, pc[r] \in QuietLabels \ {"acked"},
           NEW label \in {"uploading", "saving"}, pc' = [pc EXCEPT ![r] = label],
           UNCHANGED storage,
           out' = [out EXCEPT ![r] = out'[r]], tasks' = [tasks EXCEPT ![r] = tasks'[r]],
           \A k \in DOMAIN out'[r] : <<"meta", k>> \in tasks'[r] /\ <<"data", k>> \in tasks'[r],
           \A t \in tasks'[r] : t[2] \in DOMAIN out'[r]
    PROVE  TasksKnown' /\ UploadsTracked' /\ MetasExplained'
<1>0. /\ pc \in [Requests -> Labels] /\ tasks \in [Requests -> SUBSET Task]
      /\ DOMAIN out = Requests
      /\ metas' = metas /\ data' = data
  BY DEF TypeOK, RequestsOK, storage
<1>1. \A q \in Requests \ {r} : out'[q] = out[q] /\ tasks'[q] = tasks[q] /\ pc'[q] = pc[q]
  BY <1>0
<1>2. pc'[r] = label /\ label \notin QuietLabels
  BY <1>0 DEF QuietLabels
<1>3. DOMAIN out[r] \subseteq DOMAIN data
  BY DEF Tracked, TasksKnown, UploadsTracked, QuietLabels
<1>4. TasksKnown'
  BY <1>1, <1>2 DEF Tracked, TasksKnown
<1>5. UploadsTracked'
  BY <1>0, <1>1 DEF Tracked, UploadsTracked
<1>6. MetasExplained'
  BY <1>0, <1>1, <1>3 DEF Tracked, MetasExplained
<1> QED BY <1>4, <1>5, <1>6

(* A request is acknowledged when nothing of it is left to upload or save. *)
LEMMA AckTracked ==
    ASSUME TypeOK, Tracked, NEW r \in Requests, tasks[r] = {},
           pc[r] \in {"uploading", "saving"}, pc' = [pc EXCEPT ![r] = "acked"],
           r \in Bulks => save[r] = {} /\ pc[r] = "saving",
           UNCHANGED <<storage, tasks, out, save, job>>
    PROVE  Tracked'
<1>0. /\ pc \in [Requests -> Labels] /\ job \in [Commits -> Job]
      /\ Bulks \subseteq Requests /\ Commits \subseteq Bulks
      /\ \A q \in Requests \ {r} : pc'[q] = pc[q]
      /\ pc'[r] = "acked"
  BY DEF TypeOK, RequestsOK, Requests, Bulks
<1>1. /\ metas' = metas /\ data' = data /\ catalogs' = catalogs /\ bulkIndex' = bulkIndex
      /\ tasks' = tasks /\ out' = out /\ save' = save /\ job' = job
  BY DEF storage
<1>2. DOMAIN out[r] \subseteq metas \cap DOMAIN data
  BY DEF Tracked, UploadsTracked
<1>3. TasksKnown'
  BY <1>0, <1>1 DEF Tracked, TasksKnown
<1>4. UploadsTracked'
  BY <1>0, <1>1, <1>2 DEF Tracked, UploadsTracked
<1>5. MetasExplained'
  BY <1>0, <1>1, <1>2 DEF Tracked, MetasExplained
<1>6. JobsStored'
  BY <1>0, <1>1, JobsKept DEF Tracked
<1>7. SavesTracked'
  BY <1>0, <1>1 DEF Tracked, SavesTracked
<1>8. CatalogsTracked'
  BY <1>0, <1>1, <1>2 DEF Tracked, CatalogsTracked, TypeOK, StorageOK, Bulks
<1> QED BY <1>3, <1>4, <1>5, <1>6, <1>7, <1>8 DEF Tracked

(* Posting a chunk keeps what is tracked. *)
LEMMA PostTracked ==
    ASSUME TypeOK, Tracked, PostStep
    PROVE  Tracked'
<1>0. /\ Posts \subseteq Requests /\ Bulks \subseteq Requests /\ Posts \cap Bulks = {}
      /\ Commits \subseteq Bulks
      /\ pc \in [Requests -> Labels] /\ job \in [Commits -> Job]
      /\ DOMAIN out = Requests /\ tasks \in [Requests -> SUBSET Task]
  BY RequestAssumption DEF Requests, Bulks, TypeOK, RequestsOK
<1>1. ASSUME NEW p \in Posts, NEW s \in Sessions, PostChunk(p, s)
      PROVE  Tracked'
  <2>1. PICK k, d : /\ out'   = [out EXCEPT ![p] = Put(<<>>, k, d)]
                    /\ tasks' = [tasks EXCEPT ![p] = UploadTasks({k})]
    BY <1>1 DEF PostChunk
  <2> DEFINE new == Put(<<>>, k, d)
             todo == UploadTasks({k})
  <2>a. /\ DOMAIN new = {k}
        /\ <<"meta", k>> \in todo /\ <<"data", k>> \in todo /\ \A t \in todo : t[2] = k
    BY DEF Put, UploadTasks
  <2> HIDE DEF new, todo
  <2>2. /\ pc[p] = "idle" /\ pc' = [pc EXCEPT ![p] = "uploading"]
        /\ UNCHANGED storage /\ UNCHANGED <<save, job>>
    BY <1>1 DEF PostChunk, Goto
  <2>3. /\ out'[p] = new /\ tasks'[p] = todo
        /\ out' = [out EXCEPT ![p] = out'[p]] /\ tasks' = [tasks EXCEPT ![p] = tasks'[p]]
    BY <1>0, <2>1 DEF new, todo
  <2>4. TasksKnown' /\ UploadsTracked' /\ MetasExplained'
    BY <1>0, <2>a, <2>2, <2>3, UploadsStarted DEF QuietLabels
  <2>5. \A b \in Bulks : pc'[b] = pc[b] /\ out'[b] = out[b]
    BY <1>0, <2>1, <2>2
  <2>6. /\ metas' = metas /\ catalogs' = catalogs /\ bulkIndex' = bulkIndex
        /\ save' = save /\ job' = job
    BY <2>2 DEF storage
  <2>7. JobsStored'
    BY <1>0, <2>5, <2>6, JobsKept DEF Tracked
  <2>8. SavesTracked'
    BY <2>5, <2>6 DEF Tracked, SavesTracked
  <2>9. CatalogsTracked'
    BY <2>5, <2>6 DEF Tracked, CatalogsTracked, TypeOK, StorageOK
  <2> QED BY <2>4, <2>7, <2>8, <2>9 DEF Tracked
<1>2. ASSUME NEW p \in Posts, PostAck(p)
      PROVE  Tracked'
  BY <1>0, <1>2, AckTracked DEF PostAck, Goto
<1> QED BY <1>1, <1>2 DEF PostStep

(* Posting a whole bulk keeps what is tracked. *)
LEMMA PostWholeTracked ==
    ASSUME TypeOK, Tracked, NEW w \in Wholes, PostWhole(w)
    PROVE  Tracked'
<1>0. /\ w \in Requests /\ w \in Bulks /\ w \notin Commits
      /\ Bulks \subseteq Requests /\ Commits \subseteq Bulks
      /\ pc \in [Requests -> Labels] /\ job \in [Commits -> Job]
      /\ DOMAIN out = Requests /\ tasks \in [Requests -> SUBSET Task]
      /\ save \in [Bulks -> SUBSET {"catalog", "index"}]
  BY RequestAssumption DEF Requests, Bulks, TypeOK, RequestsOK
<1>1. PICK k, d : /\ out'   = [out EXCEPT ![w] = Put(<<>>, k, d)]
                  /\ tasks' = [tasks EXCEPT ![w] = {"meta", "data"} \X {k}]
  BY DEF PostWhole
<1>2. /\ pc[w] = "idle" /\ pc' = [pc EXCEPT ![w] = "saving"]
      /\ save' = [save EXCEPT ![w] = {"catalog"}]
      /\ UNCHANGED storage /\ job' = job
  BY DEF PostWhole, Goto
<1>3. /\ out'[w] = Put(<<>>, k, d) /\ DOMAIN out'[w] = {k}
      /\ tasks'[w] = {"meta", "data"} \X {k}
      /\ out' = [out EXCEPT ![w] = out'[w]] /\ tasks' = [tasks EXCEPT ![w] = tasks'[w]]
  BY <1>0, <1>1 DEF Put
<1>4. TasksKnown' /\ UploadsTracked' /\ MetasExplained'
  BY <1>0, <1>2, <1>3, UploadsStarted DEF QuietLabels
<1>5. /\ \A b \in Bulks \ {w} : pc'[b] = pc[b] /\ out'[b] = out[b] /\ save'[b] = save[b]
      /\ pc'[w] = "saving" /\ save'[w] = {"catalog"}
  BY <1>0, <1>1, <1>2
<1>6. metas' = metas /\ catalogs' = catalogs /\ bulkIndex' = bulkIndex
  BY <1>2 DEF storage
<1>7. JobsStored'
  BY <1>0, <1>2, <1>5, <1>6, JobsKept DEF Tracked
<1>8. SavesTracked'
  BY <1>0, <1>5, <1>6 DEF Tracked, SavesTracked
<1>9. CatalogsTracked'
  BY <1>0, <1>2, <1>5, <1>6 DEF Tracked, CatalogsTracked, SavesTracked, TypeOK, StorageOK
<1> QED BY <1>4, <1>7, <1>8, <1>9 DEF Tracked

(* Beginning a commit keeps what is tracked. *)
LEMMA CommitTracked ==
    ASSUME TypeOK, TypeOK', Tracked, Complete
    PROVE  Tracked'
<1>1. PICK c \in Commits, s \in Sessions : \E prev \in UpdateFrom(s) : Commit(c, s, prev)
  BY DEF Complete
<1>2. PICK prev \in UpdateFrom(s) : Commit(c, s, prev)
  BY <1>1
<1>0. /\ c \in Requests /\ tasks[c] = {} /\ pc[c] = "idle"
      /\ job \in [Commits -> Job] /\ job' \in [Commits -> Job]
  BY <1>2 DEF Commit, Tracked, TasksKnown, QuietLabels, TypeOK, Requests, Bulks
<1>3. /\ job' = [job EXCEPT ![c] = [NoJob EXCEPT !.session = s, !.prev = prev]]
      /\ prev # None => pc[prev] = "acked"
      /\ Goto(c, "listing") /\ UNCHANGED <<storage, tasks, out, save>>
  BY <1>2 DEF Commit
<1>4. /\ job'[c].items = {} /\ job'[c].chunks = {} /\ job'[c].load = {}
      /\ job'[c].rebuild = {} /\ job'[c].prev = prev /\ job'[c].session = s
      /\ \A d \in Commits \ {c} : job'[d] = job[d]
  BY <1>0, <1>3 DEF NoJob
<1> QED BY <1>0, <1>3, <1>4, JobStepTracked DEF Labels

(* The steps that list and resolve chunks keep what is tracked. *)
LEMMA ResolveTracked ==
    ASSUME TypeOK, TypeOK', Tracked, NEW c \in Commits, Resolve(c)
    PROVE  Tracked'
<1> DEFINE j == job[c]
           OthersKept == \A d \in Commits \ {c} : job'[d] = job[d]
<1>0. /\ c \in Requests /\ c \in Bulks /\ c \notin Wholes
      /\ Bulks \subseteq Requests /\ Commits \subseteq Bulks
      /\ pc \in [Requests -> Labels] /\ DOMAIN out = Requests
      /\ tasks \in [Requests -> SUBSET Task]
      /\ job \in [Commits -> Job] /\ job' \in [Commits -> Job] /\ j \in Job
  BY RequestAssumption DEF TypeOK, RequestsOK, Requests, Bulks
<1>k. /\ \A i \in j.items : i.chunk \in metas
      /\ j.chunks \subseteq metas /\ j.load \subseteq metas /\ j.rebuild \subseteq metas
      /\ j.prev # None => j.prev \in Bulks /\ pc[j.prev] = "acked"
      /\ pc[c] # "idle" => j.session \in Sessions
      /\ pc[c] \in QuietLabels => tasks[c] = {}
  BY <1>0, JobFields DEF Tracked, JobsStored, TasksKnown
<1>1. CASE ListMetas(c)
  <2> DEFINE found == {k \in metas : k.dir = j.session}
  <2>1. job' = [job EXCEPT ![c].items = [chunk : found, old : {FALSE}]]
    BY <1>1 DEF ListMetas
  <2>2. \A i \in [chunk : found, old : {FALSE}] : i.chunk \in metas
    OBVIOUS
  <2> HIDE DEF found
  <2>3. /\ job'[c].items = [chunk : found, old : {FALSE}]
        /\ job'[c].chunks = j.chunks /\ job'[c].load = j.load /\ job'[c].rebuild = j.rebuild
        /\ job'[c].prev = j.prev /\ job'[c].session = j.session /\ OthersKept
    BY <1>0, <2>1 DEF Job
  <2>4. PICK label \in {"failed", "conflicts", "previous"} : Goto(c, label)
    BY <1>1 DEF ListMetas
  <2> QED BY <1>0, <1>k, <1>1, <2>2, <2>3, <2>4, JobStepTracked DEF ListMetas, Labels, QuietLabels
<1>2. CASE LoadPrevious(c)
  <2> DEFINE more == [chunk : catalogs[j.prev].chunks, old : {TRUE}]
  <2>1. /\ job' = [job EXCEPT ![c].items = @ \cup more]
        /\ j.prev \in DOMAIN catalogs
    BY <1>2 DEF LoadPrevious
  <2>2. catalogs[j.prev].chunks \subseteq metas
    BY <1>k, <2>1, RequestAssumption DEF Tracked, CatalogsTracked, TypeOK, StorageOK
  <2>3. \A i \in more : i.chunk \in metas
    BY <2>2
  <2> HIDE DEF more
  <2>4. /\ job'[c].items = j.items \cup more
        /\ job'[c].chunks = j.chunks /\ job'[c].load = j.load /\ job'[c].rebuild = j.rebuild
        /\ job'[c].prev = j.prev /\ job'[c].session = j.session /\ OthersKept
    BY <1>0, <2>1 DEF Job
  <2> QED BY <1>0, <1>k, <1>2, <2>3, <2>4, JobStepTracked DEF LoadPrevious, Labels, QuietLabels
<1>3. CASE FindConflicts(c)
  <2> DEFINE groups == ConflictGroups(j.items)
             kept   == {i.chunk : i \in j.items \ UNION groups}
  <2>1. job' = [job EXCEPT ![c].items = {}, ![c].groups = groups, ![c].chunks = kept]
    BY <1>3 DEF FindConflicts
  <2>2. kept \subseteq metas
    BY <1>k
  <2>3. PICK label \in {"failed", "resolving"} : Goto(c, label)
    BY <1>3 DEF FindConflicts
  <2> HIDE DEF groups, kept
  <2>4. /\ job'[c].items = {} /\ job'[c].chunks = kept
        /\ job'[c].load = j.load /\ job'[c].rebuild = j.rebuild
        /\ job'[c].prev = j.prev /\ job'[c].session = j.session /\ OthersKept
    BY <1>0, <2>1 DEF Job
  <2> QED BY <1>0, <1>k, <1>3, <2>2, <2>3, <2>4, JobStepTracked DEF FindConflicts, Labels, QuietLabels
<1>4. CASE NextGroup(c)
  <2>1. PICK g : job' = [job EXCEPT ![c].groups = @ \ {g}, ![c].fetch = g]
    BY <1>4 DEF NextGroup
  <2>2. /\ job'[c].items = j.items /\ job'[c].chunks = j.chunks
        /\ job'[c].load = j.load /\ job'[c].rebuild = j.rebuild
        /\ job'[c].prev = j.prev /\ job'[c].session = j.session /\ OthersKept
    BY <1>0, <2>1 DEF Job
  <2> QED BY <1>0, <1>k, <1>4, <2>2, JobStepTracked DEF NextGroup, Labels, QuietLabels
<1>5. ASSUME NEW i \in j.fetch, FetchChunk(c, i)
      PROVE  Tracked'
  <2>1. /\ job'[c].items = j.items /\ job'[c].chunks = j.chunks
        /\ job'[c].load = j.load /\ job'[c].rebuild = j.rebuild
        /\ job'[c].prev = j.prev /\ job'[c].session = j.session /\ OthersKept
    BY <1>0, <1>5 DEF FetchChunk, Job
  <2>2. PICK label \in {"failed", "fetching", "merging"} : Goto(c, label)
    BY <1>5 DEF FetchChunk
  <2> QED BY <1>0, <1>k, <1>5, <2>1, <2>2, JobStepTracked DEF FetchChunk, Labels, QuietLabels
<1>6. ASSUME NEW f \in j.buffer, MergeChunk(c, f)
      PROVE  Tracked'
  <2>1. /\ job'[c].items = j.items /\ job'[c].chunks = j.chunks
        /\ job'[c].load = j.load /\ job'[c].rebuild = j.rebuild
        /\ job'[c].prev = j.prev /\ job'[c].session = j.session /\ OthersKept
    BY <1>0, <1>6 DEF MergeChunk, Job
  <2>2. Goto(c, "merging")
    BY <1>0, <1>6 DEF MergeChunk, Goto
  <2> QED BY SMTT(40), <1>0, <1>k, <1>6, <2>1, <2>2, JobStepTracked DEF MergeChunk, Labels, QuietLabels
<1>7. CASE UploadResolved(c)
  <2> DEFINE pieces == SplitIntoChunks(j.merged)
             chunks == {ChunkAt(j.session, d) : d \in pieces}
             new    == [k \in chunks |-> CHOOSE d \in pieces : k = ChunkAt(j.session, d)]
             todo   == UploadTasks(chunks)
  <2>1. /\ pc[c] = "merging" /\ pc' = [pc EXCEPT ![c] = "uploading"]
        /\ out' = [out EXCEPT ![c] = new] /\ tasks' = [tasks EXCEPT ![c] = todo]
        /\ job' = [job EXCEPT ![c].merged = EmptyFrame]
        /\ UNCHANGED storage /\ UNCHANGED save
    BY <1>7 DEF UploadResolved, UploadInto, Goto
  <2>2. /\ DOMAIN new = chunks
        /\ \A k \in chunks : <<"meta", k>> \in todo /\ <<"data", k>> \in todo
        /\ \A t \in todo : t[2] \in chunks
    BY DEF UploadTasks
  <2> HIDE DEF chunks, new, todo
  <2>3. /\ out'[c] = new /\ tasks'[c] = todo
        /\ out' = [out EXCEPT ![c] = out'[c]] /\ tasks' = [tasks EXCEPT ![c] = tasks'[c]]
    BY <1>0, <2>1
  <2>4. TasksKnown' /\ UploadsTracked' /\ MetasExplained'
    BY <1>0, <2>1, <2>2, <2>3, UploadsStarted DEF QuietLabels
  <2>5. /\ \A b \in Bulks \ {c} : pc'[b] = pc[b] /\ out'[b] = out[b]
        /\ pc'[c] = "uploading"
        /\ metas' = metas /\ catalogs' = catalogs /\ bulkIndex' = bulkIndex /\ save' = save
    BY <1>0, <2>1 DEF storage
  <2>6. JobsStored'
    <3>1. /\ job'[c].items = j.items /\ job'[c].chunks = j.chunks
          /\ job'[c].load = j.load /\ job'[c].rebuild = j.rebuild
          /\ job'[c].prev = j.prev /\ job'[c].session = j.session /\ OthersKept
      BY <1>0, <2>1 DEF Job
    <3>2. \A d \in Commits : job[d].prev \in Bulks \cup {None}
      BY <1>0, JobFields
    <3>3. \A d \in Commits : job[d].prev # None => job[d].prev \in Bulks \ {c} /\ pc[job[d].prev] = "acked"
      BY <2>1, <3>2 DEF Tracked, JobsStored
    <3>4. \A d \in Commits : job'[d].prev = job[d].prev
      BY <3>1
    <3>5. \A d \in Commits : job'[d].prev # None => pc'[job'[d].prev] = "acked"
      BY <2>5, <3>3, <3>4
    <3> QED BY <1>0, <1>k, <2>1, <2>5, <3>1, <3>5 DEF Tracked, JobsStored
  <2>7. SavesTracked'
    BY <1>0, <2>1, <2>5 DEF Tracked, SavesTracked
  <2>8. CatalogsTracked'
    BY <1>0, <2>1, <2>5 DEF Tracked, CatalogsTracked, TypeOK, StorageOK
  <2> QED BY <2>4, <2>6, <2>7, <2>8 DEF Tracked
<1>8. CASE GroupResolved(c)
  <2>1. DOMAIN out[c] \subseteq metas
    BY <1>0, <1>8 DEF GroupResolved, Tracked, UploadsTracked
  <2>2. /\ job'[c].items = j.items /\ job'[c].chunks = j.chunks \cup DOMAIN out[c]
        /\ job'[c].load = j.load /\ job'[c].rebuild = j.rebuild
        /\ job'[c].prev = j.prev /\ job'[c].session = j.session /\ OthersKept
    BY <1>0, <1>8 DEF GroupResolved, Job
  <2> QED BY <1>0, <1>k, <1>8, <2>1, <2>2, JobStepTracked DEF GroupResolved, Labels
<1> QED BY <1>1, <1>2, <1>3, <1>4, <1>5, <1>6, <1>7, <1>8 DEF Resolve

(* The steps that build the index keep what is tracked. *)
LEMMA IndexTracked ==
    ASSUME TypeOK, TypeOK', Tracked, NEW c \in Commits, Index(c)
    PROVE  Tracked'
<1> DEFINE j == job[c]
           OthersKept == \A d \in Commits \ {c} : job'[d] = job[d]
<1>0. /\ c \in Requests /\ c \in Bulks /\ c \notin Wholes
      /\ Bulks \subseteq Requests /\ Commits \subseteq Bulks
      /\ pc \in [Requests -> Labels] /\ DOMAIN out = Requests
      /\ tasks \in [Requests -> SUBSET Task]
      /\ save \in [Bulks -> SUBSET {"catalog", "index"}]
      /\ job \in [Commits -> Job] /\ job' \in [Commits -> Job] /\ j \in Job
  BY RequestAssumption DEF TypeOK, RequestsOK, Requests, Bulks
<1>k. /\ \A i \in j.items : i.chunk \in metas
      /\ j.chunks \subseteq metas /\ j.load \subseteq metas /\ j.rebuild \subseteq metas
      /\ j.prev # None => j.prev \in Bulks /\ pc[j.prev] = "acked"
      /\ pc[c] # "idle" => j.session \in Sessions
  BY <1>0, JobFields DEF Tracked, JobsStored
<1>1. CASE BuildIndex(c)
  <2>1. PICK T \in Representatives(j.chunks) : job' = [job EXCEPT ![c].load = T]
    BY <1>1 DEF BuildIndex
  <2>2. T \subseteq metas
    BY <1>k DEF Representatives
  <2>3. /\ job'[c].items = j.items /\ job'[c].chunks = j.chunks
        /\ job'[c].load = T /\ job'[c].rebuild = j.rebuild
        /\ job'[c].prev = j.prev /\ job'[c].session = j.session /\ OthersKept
    BY <1>0, <2>1 DEF Job
  <2> QED BY <1>0, <1>k, <1>1, <2>2, <2>3, JobStepTracked DEF BuildIndex, Labels, QuietLabels
<1>2. ASSUME NEW k \in j.load, LoadIndex(c, k)
      PROVE  Tracked'
  <2>1. /\ job'[c].items = j.items /\ job'[c].chunks = j.chunks
        /\ job'[c].load \subseteq j.load /\ job'[c].rebuild \subseteq j.rebuild \cup {k}
        /\ job'[c].prev = j.prev /\ job'[c].session = j.session /\ OthersKept
    BY <1>0, <1>2 DEF LoadIndex, Job
  <2>2. Goto(c, "indexing")
    BY <1>0, <1>2 DEF LoadIndex, Goto
  <2> QED BY <1>0, <1>k, <1>2, <2>1, <2>2, JobStepTracked DEF LoadIndex, Labels, QuietLabels
<1>3. ASSUME NEW k \in j.rebuild, RebuildIndex(c, k)
      PROVE  Tracked'
  <2>0. pc[c] = "indexing"
    BY <1>3 DEF RebuildIndex
  <2>1. CASE k \notin DOMAIN data
    BY <1>0, <1>k, <1>3, <2>0, <2>1, JobStepTracked DEF RebuildIndex, Labels, QuietLabels
  <2>2. CASE k \in DOMAIN data
    <3>1. /\ out' = [out EXCEPT ![c] = Put(out[c], k, data[k])]
          /\ tasks' = [tasks EXCEPT ![c] = tasks[c] \cup {<<"index", k>>}]
          /\ job' = [job EXCEPT ![c].rebuild = @ \ {k}, ![c].rows = @ \cup data[k].rows]
          /\ UNCHANGED <<storage, pc, save>>
      BY <1>3, <2>2 DEF RebuildIndex
    <3>2. /\ metas' = metas /\ data' = data /\ catalogs' = catalogs
          /\ bulkIndex' = bulkIndex /\ pc' = pc /\ save' = save
      BY <3>1 DEF storage
    <3>3. DOMAIN out'[c] = DOMAIN out[c] \cup {k} /\ \A q \in Requests \ {c} : out'[q] = out[q]
      BY <1>0, <3>1 DEF Put
    <3>4. tasks'[c] = tasks[c] \cup {<<"index", k>>} /\ \A q \in Requests \ {c} : tasks'[q] = tasks[q]
      BY <1>0, <3>1
    <3>5. TasksKnown'
      <4> SUFFICES ASSUME NEW q \in Requests
                   PROVE  /\ \A t \in tasks'[q] : t[2] \in DOMAIN out'[q]
                          /\ pc[q] \in QuietLabels => tasks'[q] = {}
        BY <3>2 DEF TasksKnown
      <4>1. CASE q = c
        <5>1. \A t \in tasks[c] : t[2] \in DOMAIN out[c]
          BY <1>0 DEF Tracked, TasksKnown
        <5>2. <<"index", k>>[2] = k
          OBVIOUS
        <5> QED BY <2>0, <3>3, <3>4, <4>1, <5>1, <5>2 DEF QuietLabels
      <4>2. CASE q # c
        BY <3>3, <3>4, <4>2 DEF Tracked, TasksKnown
      <4> QED BY <4>1, <4>2
    <3>6. UploadsTracked'
      <4> SUFFICES ASSUME NEW q \in Requests, pc[q] # "failed", NEW l \in DOMAIN out'[q]
                   PROVE  /\ l \in metas \/ <<"meta", l>> \in tasks'[q]
                          /\ l \in DOMAIN data \/ <<"data", l>> \in tasks'[q]
        BY <3>2 DEF UploadsTracked
      <4>1. k \in metas /\ tasks[q] \subseteq tasks'[q]
        BY <1>k, <3>4
      <4>2. CASE l = k
        BY <2>2, <4>1, <4>2
      <4>3. CASE l # k
        <5>1. l \in DOMAIN out[q]
          BY <3>3, <4>3
        <5> QED BY <4>1, <5>1 DEF Tracked, UploadsTracked
      <4> QED BY <4>2, <4>3
    <3>7. MetasExplained'
      BY <1>0, <3>2, <3>3 DEF Tracked, MetasExplained
    <3>8. JobsStored'
      <4>1. /\ job'[c].items = j.items /\ job'[c].chunks = j.chunks
            /\ job'[c].load = j.load /\ job'[c].rebuild \subseteq j.rebuild
            /\ job'[c].prev = j.prev /\ job'[c].session = j.session /\ OthersKept
        BY <1>0, <3>1 DEF Job
      <4> QED BY <1>k, <3>2, <4>1 DEF Tracked, JobsStored
    <3>9. SavesTracked' /\ CatalogsTracked'
      BY <1>0, <3>2, <3>3 DEF Tracked, SavesTracked, CatalogsTracked, TypeOK, StorageOK
    <3> QED BY <3>5, <3>6, <3>7, <3>8, <3>9 DEF Tracked
  <2> QED BY <2>1, <2>2
<1>4. CASE SaveCatalog(c)
  <2>1. /\ pc' = [pc EXCEPT ![c] = "saving"] /\ save' = [save EXCEPT ![c] = {"catalog", "index"}]
        /\ metas' = metas /\ data' = data /\ catalogs' = catalogs /\ bulkIndex' = bulkIndex
        /\ tasks' = tasks /\ out' = out /\ job' = job /\ pc[c] = "indexing"
    BY <1>4 DEF SaveCatalog, Goto, storage
  <2>2. /\ \A q \in Requests \ {c} : pc'[q] = pc[q]
        /\ \A b \in Bulks \ {c} : save'[b] = save[b]
        /\ pc'[c] = "saving" /\ save'[c] = {"catalog", "index"}
    BY <1>0, <2>1
  <2>3. TasksKnown' /\ UploadsTracked'
    BY <1>0, <2>1, <2>2 DEF Tracked, TasksKnown, UploadsTracked, QuietLabels
  <2>4. MetasExplained'
    BY <1>0, <2>1, <2>2 DEF Tracked, MetasExplained
  <2>5. JobsStored'
    BY <1>0, <2>1, <2>2, JobsKept DEF Tracked
  <2>6. SavesTracked'
    BY <1>0, <2>1, <2>2 DEF Tracked, SavesTracked
  <2>7. CatalogsTracked'
    BY <1>0, <2>1, <2>2 DEF Tracked, CatalogsTracked, TypeOK, StorageOK
  <2> QED BY <2>3, <2>4, <2>5, <2>6, <2>7 DEF Tracked
<1> QED BY <1>1, <1>2, <1>3, <1>4 DEF Index

(* Saving a catalog and an index, and answering, keep what is tracked. *)
LEMMA SaveTracked ==
    ASSUME TypeOK, Tracked, Save \/ \E c \in Commits : PutBulkIndex(c)
    PROVE  Tracked'
<1>0. /\ Bulks \subseteq Requests /\ Commits \subseteq Bulks /\ Wholes \cap Commits = {}
      /\ save \in [Bulks -> SUBSET {"catalog", "index"}]
  BY RequestAssumption DEF TypeOK, RequestsOK, Requests, Bulks
<1>1. ASSUME NEW b \in Bulks, PutCatalog(b)
      PROVE  Tracked'
  <2>1. /\ metas' = metas /\ data' = data /\ bulkIndex' = bulkIndex /\ pc' = pc
        /\ tasks' = tasks /\ out' = out /\ job' = job
        /\ "catalog" \in save[b] /\ save' = [save EXCEPT ![b] = @ \ {"catalog"}]
    BY <1>1 DEF PutCatalog
  <2>2. /\ DOMAIN catalogs' = DOMAIN catalogs \cup {b}
        /\ catalogs'[b].chunks = CatalogOf(b).chunks
        /\ \A a \in DOMAIN catalogs \ {b} : catalogs'[a] = catalogs[a]
    BY <1>1 DEF PutCatalog, Put
  <2>3. TasksKnown' /\ UploadsTracked' /\ MetasExplained' /\ JobsStored'
    BY <2>1 DEF Tracked, TasksKnown, UploadsTracked, MetasExplained, JobsStored
  <2>4. SavesTracked'
    BY <1>0, <2>1, <2>2 DEF Tracked, SavesTracked
  <2>5. pc[b] # "acked"
    BY <2>1 DEF Tracked, SavesTracked
  <2>6. /\ b \in Commits => CatalogOf(b).chunks \subseteq metas
        /\ b \notin Commits => CatalogOf(b).chunks = DOMAIN out[b]
    BY DEF Tracked, JobsStored, CatalogOf
  <2>7. CatalogsTracked'
    BY <1>0, <2>1, <2>2, <2>5, <2>6 DEF Tracked, CatalogsTracked
  <2> QED BY <2>3, <2>4, <2>7 DEF Tracked
<1>2. ASSUME NEW b \in Bulks, BulkAck(b)
      PROVE  Tracked'
  BY <1>0, <1>2, AckTracked DEF BulkAck, Goto
<1>3. ASSUME NEW c \in Commits, PutBulkIndex(c)
      PROVE  Tracked'
  <2>1. /\ metas' = metas /\ data' = data /\ catalogs' = catalogs /\ pc' = pc
        /\ tasks' = tasks /\ out' = out /\ job' = job
        /\ save' = [save EXCEPT ![c] = @ \ {"index"}]
    BY <1>3 DEF PutBulkIndex
  <2>2. DOMAIN bulkIndex' = DOMAIN bulkIndex \cup {c}
    BY <1>3 DEF PutBulkIndex, Put
  <2>3. TasksKnown' /\ UploadsTracked' /\ MetasExplained' /\ JobsStored' /\ CatalogsTracked'
    BY <2>1 DEF Tracked, TasksKnown, UploadsTracked, MetasExplained, JobsStored, CatalogsTracked
  <2>4. SavesTracked'
    BY <1>0, <2>1, <2>2 DEF Tracked, SavesTracked
  <2> QED BY <2>3, <2>4 DEF Tracked
<1> QED BY <1>1, <1>2, <1>3 DEF Save

-----------------------------------------------------------------------------
(* Theorems *)

(* Nothing is stored when the service starts: there is nothing to track. *)
LEMMA InitTracked == Init => Tracked
<1> SUFFICES ASSUME Init PROVE Tracked
  OBVIOUS
<1>1. TasksKnown /\ UploadsTracked /\ MetasExplained
  BY DEF Init, TasksKnown, UploadsTracked, MetasExplained
<1>2. JobsStored
  BY DEF Init, JobsStored, NoJob, Requests, Bulks
<1>3. SavesTracked /\ CatalogsTracked
  BY DEF Init, SavesTracked, CatalogsTracked, Requests, Bulks
<1> QED BY <1>1, <1>2, <1>3 DEF Tracked

(* The invariant holds in every state the worker reaches, whatever requests   *)
(* are sent, in whatever order their steps and their failures come.          *)
THEOREM Invariance == Spec => []Inv
<1>1. Init => Inv
  BY InitType, InitTracked DEF Inv, Tracked
<1>2. Inv /\ [Next]_vars => Inv'
  <2> SUFFICES ASSUME Inv, [Next]_vars PROVE Inv'
    OBVIOUS
  <2>1. TypeOK /\ Tracked /\ TasksKnown /\ JobsStored
    BY DEF Inv, Tracked
  <2>2. TypeOK'
    BY <2>1, NextType
  <2>3. CASE UNCHANGED vars
    BY <2>1, <2>3 DEF vars, storage, Tracked, TasksKnown, UploadsTracked, MetasExplained,
                      JobsStored, SavesTracked, CatalogsTracked, Inv, TypeOK, StorageOK, RequestsOK
  <2>4. CASE Next
    <3>1. Tracked'
      BY <2>1, <2>2, <2>4, PostTracked, UploadTracked, CommitTracked, PostWholeTracked,
         ResolveTracked, IndexTracked, SaveTracked, FailureTracked DEF Next
    <3> QED BY <2>2, <3>1 DEF Inv, Tracked
  <2> QED BY <2>3, <2>4
<1> QED BY <1>1, <1>2, PTL DEF Spec

(* The variables keep their types: no step stores a chunk whose dataframe is *)
(* empty, in particular, nor splits a merged group into one.                 *)
THEOREM TypeCorrect == Spec => []TypeOK
<1>1. Inv => TypeOK
  BY DEF Inv
<1> QED BY <1>1, Invariance, PTL

(* Once the id of a bulk was given to a client, the bulk is stored: catalog, *)
(* index, and the meta and data of all its chunks but those whose upload was *)
(* never acknowledged.                                                       *)
THEOREM BulkStored == Spec => []AckedBulkStored
<1>1. Inv => AckedBulkStored
  <2> SUFFICES ASSUME Inv, NEW b \in Bulks, pc[b] = "acked"
               PROVE  /\ b \in DOMAIN catalogs
                      /\ b \in Commits => b \in DOMAIN bulkIndex
                      /\ \A k \in catalogs[b].chunks :
                           /\ k \in metas
                           /\ k \in DOMAIN data \/ \E r \in Requests : k \in DOMAIN out[r] /\ pc[r] # "acked"
    BY DEF AckedBulkStored, AckedBulks
  <2>1. b \in DOMAIN catalogs /\ (b \in Commits => b \in DOMAIN bulkIndex)
    BY DEF Inv, SavesTracked
  <2>2. catalogs[b].chunks \subseteq metas
    BY <2>1 DEF Inv, CatalogsTracked
  <2> QED BY <2>1, <2>2 DEF Inv, MetasExplained
<1> QED BY <1>1, Invariance, PTL

-----------------------------------------------------------------------------
(* What is kept apart: facts the steps share *)

(* What a commit works on, in types the lemmas on chunks are about.          *)
LEMMA WorkKnown ==
    ASSUME TypeOK, NEW c \in Commits
    PROVE  /\ c \in Requests /\ c \in Bulks /\ c \notin Wholes
           /\ job[c].chunks \subseteq Chunk /\ job[c].items \in SUBSET Item
           /\ job[c].fetch \in SUBSET Item
           /\ \A f \in job[c].buffer : f.frame \in DataFrames
           /\ job[c].merged \in DataFrames \cup {EmptyFrame}
           /\ DOMAIN out[c] \subseteq Chunk
           /\ \A k \in job[c].chunks : {k.meta} \in SUBSET Meta
           /\ \A g \in job[c].groups : MetasOf(g) \in SUBSET Meta
           /\ CurrentMetas(c) \in SUBSET Meta
<1>1. c \in Requests /\ c \in Bulks /\ c \notin Wholes
  BY RequestAssumption DEF Requests, Bulks
<1>2. job[c] \in Job /\ DOMAIN out[c] \subseteq Chunk
  BY <1>1 DEF TypeOK, RequestsOK
<1>3. /\ job[c].chunks \subseteq Chunk /\ job[c].items \in SUBSET Item
      /\ job[c].groups \subseteq SUBSET Item /\ job[c].fetch \in SUBSET Item
      /\ job[c].buffer \subseteq Frame /\ job[c].merged \in DataFrames \cup {EmptyFrame}
  BY <1>2, JobFields
<1>4. \A f \in job[c].buffer : f.frame \in DataFrames
  BY <1>3 DEF Frame
<1>5. \A k \in job[c].chunks : {k.meta} \in SUBSET Meta
  BY <1>3, ChunkMeta
<1>6. \A g \in SUBSET Item : MetasOf(g) \in SUBSET Meta
  BY ItemMeta DEF MetasOf
<1>7. {MetaOf(f.frame) : f \in job[c].buffer} \subseteq Meta
  BY <1>4, FrameMeta
<1>8. {MetaOf(d) : d \in {job[c].merged} \ {EmptyFrame}} \subseteq Meta
  BY <1>3, FrameMeta
<1>9. {k.meta : k \in IF pc[c] = "uploading" THEN DOMAIN out[c] ELSE {}} \subseteq Meta
  BY <1>2, ChunkMeta
<1>10. CurrentMetas(c) \in SUBSET Meta
  BY <1>3, <1>6, <1>7, <1>8, <1>9 DEF CurrentMetas
<1> QED BY <1>1, <1>2, <1>3, <1>4, <1>5, <1>6, <1>10

(* What a group is merged with stays apart from what the group is apart from. *)
LEMMA MergeApart ==
    ASSUME NEW l \in DataFrames \cup {EmptyFrame}, NEW r \in DataFrames,
           NEW M, NEW N \in SUBSET Meta, Apart(M, N),
           l # EmptyFrame => MetaOf(l) \in M, MetaOf(r) \in M
    PROVE  Apart(M \cup {MetaOf(CombineFirst(l, r))}, N)
<1>1. PICK way \in {"beside", "below", "above"} : \A m \in M, n \in N : Stand(way, m, n)
  BY DEF Apart
<1>2. ASSUME NEW n \in N
      PROVE  Stand(way, MetaOf(CombineFirst(l, r)), n)
  <2>1. CASE l = EmptyFrame
    BY <1>1, <2>1, FirstMerge
  <2>2. CASE l # EmptyFrame
    BY <1>1, <2>2, MergeStands
  <2> QED BY <2>1, <2>2
<1>3. \A m \in M \cup {MetaOf(CombineFirst(l, r))}, n \in N : Stand(way, m, n)
  BY <1>1, <1>2
<1> QED BY <1>3 DEF Apart

(* So do the pieces it is split into.                                        *)
LEMMA SplitApart ==
    ASSUME NEW d \in DataFrames \cup {EmptyFrame}, NEW M, NEW N \in SUBSET Meta, Apart(M, N),
           d # EmptyFrame => MetaOf(d) \in M
    PROVE  Apart({MetaOf(e) : e \in SplitIntoChunks(d)}, N)
<1>1. PICK way \in {"beside", "below", "above"} : \A m \in M, n \in N : Stand(way, m, n)
  BY DEF Apart
<1>2. ASSUME NEW e \in SplitIntoChunks(d), NEW n \in N
      PROVE  Stand(way, MetaOf(e), n)
  <2>1. d # EmptyFrame
    BY SplitOfNothing
  <2> QED BY <1>1, <2>1, PieceStands
<1>3. \A m \in {MetaOf(e) : e \in SplitIntoChunks(d)}, n \in N : Stand(way, m, n)
  BY <1>2
<1> QED BY <1>3 DEF Apart

(* The clauses about a commit hold on after a step that changes neither what *)
(* it keeps nor the group it is at.                                          *)
LEMMA WorkKept ==
    ASSUME NEW c \in Commits, InTurn(c), WorkApart(c),
           job'[c].chunks = job[c].chunks, job'[c].groups = job[c].groups,
           job'[c].fetch = job[c].fetch, job'[c].buffer = job[c].buffer,
           job'[c].merged = job[c].merged,
           \/ pc'[c] = pc[c] /\ out'[c] = out[c]
           \/ pc'[c] \in {"failed", "indexing", "saving", "acked"}
           \/ {pc[c], pc'[c]} \subseteq {"idle", "listing", "previous", "conflicts", "resolving"}
    PROVE  InTurn(c)' /\ WorkApart(c)'
<1>1. CASE pc'[c] = pc[c] /\ out'[c] = out[c]
  <2>1. CurrentMetas(c)' = CurrentMetas(c)
    BY <1>1 DEF CurrentMetas
  <2> QED BY <1>1, <2>1 DEF InTurn, WorkApart
<1>2. CASE \/ pc'[c] \in {"failed", "indexing", "saving", "acked"}
           \/ {pc[c], pc'[c]} \subseteq {"idle", "listing", "previous", "conflicts", "resolving"}
  <2>1. CurrentMetas(c)' \in SUBSET CurrentMetas(c) /\ pc'[c] # "uploading"
    BY <1>2 DEF CurrentMetas
  <2>2. InTurn(c)'
    BY <1>2, <2>1 DEF InTurn
  <2>3. \A N : Apart(CurrentMetas(c), N) => Apart(CurrentMetas(c)', N)
    BY <2>1, ApartSubset
  <2> QED BY <2>1, <2>2, <2>3 DEF WorkApart
<1> QED BY <1>1, <1>2

(* A step that stores no chunk or catalog and changes no local variable.     *)
LEMMA Unmoved ==
    ASSUME ApartInv, UNCHANGED <<data, catalogs, out, job>>,
           \A c \in Commits : \/ pc'[c] = pc[c]
                              \/ pc'[c] \in {"failed", "indexing", "saving", "acked"}
    PROVE  ApartInv'
<1>1. \A c \in Commits : InTurn(c)' /\ WorkApart(c)'
  BY WorkKept DEF ApartInv
<1>2. ContentsKnown' /\ CatalogsApart'
  BY DEF ApartInv, ContentsKnown, CatalogsApart
<1> QED BY <1>1, <1>2 DEF ApartInv

(* A step of one commit: the clauses about the others hold on.               *)
LEMMA CommitMoved ==
    ASSUME ApartInv, TypeOK, NEW c \in Commits, UNCHANGED <<data, catalogs>>,
           \A d \in Commits \ {c} : job'[d] = job[d] /\ pc'[d] = pc[d],
           \A r \in Requests \ {c} : out'[r] = out[r],
           \A k \in DOMAIN out'[c] : MetaOf(out'[c][k]) = k.meta,
           InTurn(c)', WorkApart(c)'
    PROVE  ApartInv'
<1>0. Wholes \subseteq Requests /\ Commits \subseteq Requests /\ c \notin Wholes
  BY RequestAssumption DEF Requests, Bulks
<1>1. \A d \in Commits : InTurn(d)' /\ WorkApart(d)'
  BY <1>0, WorkKept DEF ApartInv
<1>2. ContentsKnown'
  BY <1>0 DEF ApartInv, ContentsKnown
<1>3. CatalogsApart'
  BY <1>0 DEF ApartInv, CatalogsApart
<1> QED BY <1>1, <1>2, <1>3 DEF ApartInv

-----------------------------------------------------------------------------
(* The steps of a commit that resolves conflicts *)

(* FindConflicts divides the chunks into groups and those it keeps: what is  *)
(* in different parts is not in conflict, so it is apart.                    *)
LEMMA FindConflictsApart ==
    ASSUME TypeOK, ApartInv, NEW c \in Commits, FindConflicts(c)
    PROVE  InTurn(c)' /\ WorkApart(c)'
<1> DEFINE S == job[c].items
           kept == S \ UNION ConflictGroups(S)
<1>0. S \in SUBSET Item /\ \A i \in S : Proper(i)
  BY WorkKnown, ItemProper
<1>1. /\ job'[c].groups = ConflictGroups(S) /\ job'[c].chunks = {i.chunk : i \in kept}
      /\ job'[c].fetch = job[c].fetch /\ job'[c].buffer = job[c].buffer
      /\ job'[c].merged = job[c].merged
      /\ pc[c] = "conflicts" /\ pc'[c] \in {"failed", "resolving"}
  <2>1. job \in [Commits -> Job] /\ job[c] \in Job /\ pc \in [Requests -> Labels] /\ c \in Requests
    BY WorkKnown DEF TypeOK, RequestsOK
  <2>2. job' = [job EXCEPT ![c].items = {}, ![c].groups = ConflictGroups(S),
                           ![c].chunks = {i.chunk : i \in kept}]
    BY DEF FindConflicts
  <2>3. /\ job'[c].groups = ConflictGroups(S) /\ job'[c].chunks = {i.chunk : i \in kept}
        /\ job'[c].fetch = job[c].fetch /\ job'[c].buffer = job[c].buffer
        /\ job'[c].merged = job[c].merged
    BY <2>1, <2>2 DEF Job
  <2>4. pc[c] = "conflicts" /\ pc'[c] \in {"failed", "resolving"}
    BY <2>1 DEF FindConflicts, Goto
  <2> QED BY <2>3, <2>4
<1>2. CurrentMetas(c) = {}
  BY <1>1 DEF ApartInv, InTurn
<1>3. CurrentMetas(c)' = {}
  <2>1. CurrentMetas(c)' \subseteq CurrentMetas(c)
    BY <1>1 DEF CurrentMetas
  <2> QED BY <1>2, <2>1
<1>4. InTurn(c)'
  BY <1>1, <1>3 DEF InTurn
<1>5. \A i, j \in kept : i # j => ~InConflict(i, j)
  BY <1>0, ConflictsAreGrouped
<1>6. \A k, l \in {i.chunk : i \in kept} : k # l => Apart({k.meta}, {l.meta})
  <2> SUFFICES ASSUME NEW i \in kept, NEW j \in kept, i.chunk # j.chunk
               PROVE  Apart({i.chunk.meta}, {j.chunk.meta})
    OBVIOUS
  <2> QED BY <1>0, <1>5, ItemsApart
<1>7. \A g \in ConflictGroups(S) : \A k \in {i.chunk : i \in kept} : Apart(MetasOf(g), {k.meta})
  <2> SUFFICES ASSUME NEW g \in ConflictGroups(S), NEW k \in kept
               PROVE  Apart(MetasOf(g), {k.chunk.meta})
    OBVIOUS
  <2>1. Proper(k) /\ k \notin g /\ \A j \in g : ~InConflict(j, k)
    BY <1>0, GroupsApartFromOthers
  <2> QED BY <1>0, <2>1, GroupItemApart
<1>8. \A g, h \in ConflictGroups(S) : g # h => Apart(MetasOf(g), MetasOf(h))
  BY <1>0, GroupsApart
<1> HIDE DEF S, kept
<1>9. WorkApart(c)'
  BY <1>1, <1>3, <1>6, <1>7, <1>8, ApartEmpty DEF WorkApart
<1> QED BY <1>4, <1>9

(* NextGroup takes a group that is apart from the others and from the chunks. *)
LEMMA NextGroupApart ==
    ASSUME TypeOK, ApartInv, NEW c \in Commits, NextGroup(c)
    PROVE  InTurn(c)' /\ WorkApart(c)'
<1>0. job \in [Commits -> Job] /\ job[c] \in Job /\ pc \in [Requests -> Labels] /\ c \in Requests
  BY WorkKnown DEF TypeOK, RequestsOK
<1>1. PICK g \in job[c].groups : job' = [job EXCEPT ![c].groups = @ \ {g}, ![c].fetch = g]
  BY DEF NextGroup
<1>2. /\ job'[c].groups = job[c].groups \ {g} /\ job'[c].fetch = g
      /\ job'[c].chunks = job[c].chunks /\ job'[c].buffer = job[c].buffer
      /\ job'[c].merged = job[c].merged
      /\ pc[c] = "resolving" /\ pc'[c] = "fetching"
  BY <1>0, <1>1 DEF Job, NextGroup, Goto
<1>3. CurrentMetas(c) = {} /\ WorkApart(c)
  BY <1>2 DEF ApartInv, InTurn
<1>4. CurrentMetas(c)' = MetasOf(g)
  <2>1. /\ {MetaOf(f.frame) : f \in job[c].buffer} \subseteq CurrentMetas(c)
        /\ {MetaOf(d) : d \in {job[c].merged} \ {EmptyFrame}} \subseteq CurrentMetas(c)
    BY DEF CurrentMetas
  <2> QED BY <1>2, <1>3, <2>1 DEF CurrentMetas
<1>5. InTurn(c)'
  BY <1>2 DEF InTurn
<1>6. WorkApart(c)'
  BY <1>2, <1>3, <1>4 DEF WorkApart
<1> QED BY <1>5, <1>6

(* A chunk that was downloaded has the metadata its name says.               *)
LEMMA FetchApart ==
    ASSUME TypeOK, ApartInv, NEW c \in Commits, NEW i \in job[c].fetch, FetchChunk(c, i)
    PROVE  InTurn(c)' /\ WorkApart(c)'
<1>0. job \in [Commits -> Job] /\ job[c] \in Job /\ pc \in [Requests -> Labels] /\ c \in Requests
  BY WorkKnown DEF TypeOK, RequestsOK
<1>i. InTurn(c) /\ WorkApart(c)
  BY DEF ApartInv
<1>1. CASE i.chunk \notin DOMAIN data
  <2>1. job' = job /\ pc'[c] = "failed"
    BY <1>0, <1>1 DEF FetchChunk, Goto
  <2> QED BY <1>i, <2>1, WorkKept
<1>2. CASE i.chunk \in DOMAIN data
  <2> DEFINE f == [old |-> i.old, frame |-> data[i.chunk]]
  <2>1. /\ job' = [job EXCEPT ![c].fetch = @ \ {i}, ![c].buffer = @ \cup {f}]
        /\ pc[c] = "fetching"
        /\ pc' = [pc EXCEPT ![c] = IF job[c].fetch = {i} THEN "merging" ELSE "fetching"]
    BY <1>2 DEF FetchChunk, Goto
  <2>2. /\ job'[c].fetch = job[c].fetch \ {i} /\ job'[c].buffer = job[c].buffer \cup {f}
        /\ job'[c].groups = job[c].groups /\ job'[c].chunks = job[c].chunks
        /\ job'[c].merged = job[c].merged
    BY <1>0, <2>1 DEF Job
  <2>3. \/ pc'[c] = "fetching"
        \/ pc'[c] = "merging" /\ job'[c].fetch = {}
    BY <1>0, <2>1, <2>2
  <2>4. MetaOf(f.frame) = i.chunk.meta
    BY <1>2 DEF ApartInv, ContentsKnown
  <2> HIDE DEF f
  <2>5. MetaOf(f.frame) \in MetasOf(job[c].fetch) /\ MetasOf(job'[c].fetch) \subseteq MetasOf(job[c].fetch)
    BY <2>2, <2>4 DEF MetasOf
  <2>6. CurrentMetas(c)' \in SUBSET CurrentMetas(c)
    BY <2>2, <2>3, <2>5 DEF CurrentMetas
  <2>7. InTurn(c)'
    BY <2>3 DEF InTurn
  <2>8. \A N : Apart(CurrentMetas(c), N) => Apart(CurrentMetas(c)', N)
    BY <2>6, ApartSubset
  <2>9. WorkApart(c)'
    BY <1>i, <2>2, <2>3, <2>8 DEF WorkApart
  <2> QED BY <2>7, <2>9
<1> QED BY <1>1, <1>2

(* Merging one more frame of the group. *)
LEMMA MergeStepApart ==
    ASSUME TypeOK, ApartInv, NEW c \in Commits, NEW f \in job[c].buffer, MergeChunk(c, f)
    PROVE  InTurn(c)' /\ WorkApart(c)'
<1>0. job \in [Commits -> Job] /\ job[c] \in Job
  BY DEF TypeOK
<1>i. InTurn(c) /\ WorkApart(c)
  BY DEF ApartInv
<1> DEFINE new == CombineFirst(job[c].merged, f.frame)
<1>1. job' = [job EXCEPT ![c].merged = new, ![c].buffer = @ \ {f}]
  BY <1>0 DEF MergeChunk
<1>2. /\ job'[c].merged = new /\ job'[c].buffer = job[c].buffer \ {f}
      /\ job'[c].groups = job[c].groups /\ job'[c].chunks = job[c].chunks
      /\ job'[c].fetch = job[c].fetch
      /\ pc[c] = "merging" /\ pc'[c] = pc[c]
  <2> HIDE DEF new
  <2> QED BY <1>0, <1>1 DEF Job, MergeChunk
<1>3. /\ job[c].merged # EmptyFrame => MetaOf(job[c].merged) \in CurrentMetas(c)
      /\ MetaOf(f.frame) \in CurrentMetas(c)
  BY DEF CurrentMetas
<1>4. CurrentMetas(c)' \in SUBSET (CurrentMetas(c) \cup {MetaOf(new)})
  <2> HIDE DEF new
  <2> QED BY <1>2 DEF CurrentMetas
<1>5. ASSUME NEW N \in SUBSET Meta, Apart(CurrentMetas(c), N)
      PROVE  Apart(CurrentMetas(c)', N)
  <2>1. Apart(CurrentMetas(c) \cup {MetaOf(new)}, N)
    BY <1>3, <1>5, WorkKnown, MergeApart
  <2> HIDE DEF new
  <2> QED BY <1>4, <2>1, ApartSubset
<1> HIDE DEF new
<1>6. InTurn(c)'
  BY <1>i, <1>2 DEF InTurn
<1>7. WorkApart(c)'
  BY <1>i, <1>2, <1>5, WorkKnown DEF WorkApart
<1> QED BY <1>6, <1>7

(* The pieces a group is split into are apart from each other, and from what *)
(* the group was apart from.                                                 *)
LEMMA UploadResolvedApart ==
    ASSUME TypeOK, ApartInv, NEW c \in Commits, UploadResolved(c)
    PROVE  /\ InTurn(c)' /\ WorkApart(c)'
           /\ \A k \in DOMAIN out'[c] : MetaOf(out'[c][k]) = k.meta
<1> DEFINE pieces == SplitIntoChunks(job[c].merged)
           chunks == {ChunkAt(job[c].session, d) : d \in pieces}
<1>0. /\ job \in [Commits -> Job] /\ job[c] \in Job /\ pc \in [Requests -> Labels]
      /\ DOMAIN out = Requests /\ c \in Requests
  BY WorkKnown DEF TypeOK, RequestsOK
<1>i. InTurn(c) /\ WorkApart(c)
  BY DEF ApartInv
<1>1. /\ pc[c] = "merging" /\ job[c].buffer = {}
      /\ out' = [out EXCEPT ![c] =
                   [k \in chunks |-> CHOOSE d \in pieces : k = ChunkAt(job[c].session, d)]]
      /\ job' = [job EXCEPT ![c].merged = EmptyFrame]
      /\ pc'[c] = "uploading"
  BY <1>0 DEF UploadResolved, UploadInto, Goto
<1>2. /\ job'[c].merged = EmptyFrame /\ job'[c].buffer = {} /\ job'[c].fetch = {}
      /\ job'[c].groups = job[c].groups /\ job'[c].chunks = job[c].chunks
  <2>1. job[c].fetch = {}
    BY <1>i, <1>1 DEF InTurn
  <2> QED BY <1>0, <1>1, <2>1 DEF Job
<1>3. out'[c] = [k \in chunks |-> CHOOSE d \in pieces : k = ChunkAt(job[c].session, d)]
  <2> HIDE DEF chunks, pieces
  <2> QED BY <1>0, <1>1
<1>4. \A k \in chunks : \E d \in pieces : k = ChunkAt(job[c].session, d) /\ k.meta = MetaOf(d)
  BY DEF ChunkAt
<1>5. DOMAIN out'[c] = chunks /\ \A k \in chunks : MetaOf(out'[c][k]) = k.meta
  <2>1. DOMAIN out'[c] = chunks
    BY <1>3
  <2>2. ASSUME NEW k \in chunks
        PROVE  MetaOf(out'[c][k]) = k.meta
    <3> DEFINE e == CHOOSE d \in pieces : k = ChunkAt(job[c].session, d)
    <3>1. k = ChunkAt(job[c].session, e)
      BY <1>4
    <3>2. out'[c][k] = e
      BY <1>3
    <3> HIDE DEF e
    <3>3. k.meta = MetaOf(e)
      BY <3>1 DEF ChunkAt
    <3> QED BY <3>2, <3>3
  <2> QED BY <2>1, <2>2
<1> DEFINE metasOfPieces == {MetaOf(e) : e \in pieces}
<1>6. {k.meta : k \in chunks} = metasOfPieces
  <2>1. \A d : ChunkAt(job[c].session, d).meta = MetaOf(d)
    BY DEF ChunkAt
  <2> HIDE DEF pieces
  <2> QED BY <2>1
<1>7. CurrentMetas(c)' = metasOfPieces
  <2> HIDE DEF chunks, pieces, metasOfPieces
  <2>1. CurrentMetas(c)' = {k.meta : k \in chunks}
    BY <1>1, <1>2, <1>5 DEF CurrentMetas, MetasOf
  <2> QED BY <1>6, <2>1
<1>8. ASSUME NEW N \in SUBSET Meta, Apart(CurrentMetas(c), N)
      PROVE  Apart(CurrentMetas(c)', N)
  <2>1. job[c].merged # EmptyFrame => MetaOf(job[c].merged) \in CurrentMetas(c)
    BY DEF CurrentMetas
  <2>2. Apart(metasOfPieces, N)
    BY <1>8, <2>1, SplitApart, WorkKnown
  <2> HIDE DEF metasOfPieces
  <2> QED BY <1>7, <2>2
<1>9. \A k, l \in chunks : k # l => Apart({k.meta}, {l.meta})
  <2> SUFFICES ASSUME NEW d \in pieces, NEW e \in pieces,
                      ChunkAt(job[c].session, d) # ChunkAt(job[c].session, e)
               PROVE  Apart({MetaOf(d)}, {MetaOf(e)})
    BY DEF ChunkAt
  <2>1. MetaOf(d) # MetaOf(e)
    BY DEF ChunkAt
  <2>2. job[c].merged \in DataFrames
    BY WorkKnown, SplitOfNothing
  <2> QED BY <2>1, <2>2, PiecesApart
<1> HIDE DEF chunks, pieces, metasOfPieces
<1>10. InTurn(c)'
  BY <1>1, <1>2 DEF InTurn
<1>11. WorkApart(c)'
  BY <1>i, <1>2, <1>5, <1>8, <1>9, WorkKnown DEF WorkApart
<1> QED BY <1>5, <1>10, <1>11

(* The pieces become chunks the commit keeps. *)
LEMMA GroupResolvedApart ==
    ASSUME TypeOK, ApartInv, NEW c \in Commits, GroupResolved(c)
    PROVE  InTurn(c)' /\ WorkApart(c)'
<1>0. /\ job \in [Commits -> Job] /\ job[c] \in Job /\ pc \in [Requests -> Labels]
      /\ c \in Requests
  BY WorkKnown DEF TypeOK, RequestsOK
<1>i. InTurn(c) /\ WorkApart(c)
  BY DEF ApartInv
<1>1. /\ job'[c].chunks = job[c].chunks \cup DOMAIN out[c]
      /\ job'[c].groups = job[c].groups /\ job'[c].merged = job[c].merged
      /\ job'[c].fetch = job[c].fetch /\ job'[c].buffer = job[c].buffer
      /\ pc[c] = "uploading" /\ pc'[c] = "resolving" /\ out' = out
  BY <1>0 DEF Job, GroupResolved, Goto
<1>2. job[c].fetch = {} /\ job[c].buffer = {} /\ job[c].merged = EmptyFrame
  BY <1>i, <1>1 DEF InTurn
<1>3. CurrentMetas(c)' = {}
  BY <1>1, <1>2 DEF CurrentMetas, MetasOf
<1>4. InTurn(c)'
  BY <1>1, <1>3 DEF InTurn
<1>5. \A k \in DOMAIN out[c] : {k.meta} \in SUBSET CurrentMetas(c) /\ {k.meta} \in SUBSET Meta
  BY <1>1, WorkKnown DEF CurrentMetas
<1>6. \A k \in DOMAIN out[c], l \in job[c].chunks :
        Apart({k.meta}, {l.meta}) /\ Apart({l.meta}, {k.meta})
  <2> TAKE k \in DOMAIN out[c], l \in job[c].chunks
  <2>1. Apart(CurrentMetas(c), {l.meta})
    BY <1>i DEF WorkApart
  <2>2. Apart({k.meta}, {l.meta})
    BY <1>5, <2>1, ApartSubset
  <2> QED BY <1>5, <2>2, WorkKnown, ApartSymmetric
<1>7. \A g \in job[c].groups, k \in DOMAIN out[c] : Apart(MetasOf(g), {k.meta})
  <2> TAKE g \in job[c].groups, k \in DOMAIN out[c]
  <2>1. Apart(CurrentMetas(c), MetasOf(g))
    BY <1>i DEF WorkApart
  <2>2. Apart({k.meta}, MetasOf(g))
    BY <1>5, <2>1, ApartSubset
  <2> QED BY <1>5, <2>2, WorkKnown, ApartSymmetric
<1>8. WorkApart(c)'
  <2>1. \A k, l \in job'[c].chunks : k # l => Apart({k.meta}, {l.meta})
    BY <1>i, <1>1, <1>6 DEF WorkApart
  <2>2. \A g \in job'[c].groups : \A k \in job'[c].chunks : Apart(MetasOf(g), {k.meta})
    BY <1>i, <1>1, <1>7 DEF WorkApart
  <2> QED BY <1>i, <1>1, <1>3, <2>1, <2>2, ApartEmpty DEF WorkApart
<1> QED BY <1>4, <1>8

LEMMA ResolveApart ==
    ASSUME TypeOK, ApartInv, NEW c \in Commits, Resolve(c)
    PROVE  ApartInv'
<1>0. /\ job \in [Commits -> Job] /\ job[c] \in Job /\ pc \in [Requests -> Labels]
      /\ DOMAIN out = Requests /\ c \in Requests
      /\ InTurn(c) /\ WorkApart(c)
      /\ \A k \in DOMAIN out[c] : MetaOf(out[c][k]) = k.meta
  BY WorkKnown DEF TypeOK, RequestsOK, ApartInv, ContentsKnown
<1>1. ASSUME UNCHANGED <<data, catalogs, out>>, InTurn(c)', WorkApart(c)',
             \A d \in Commits \ {c} : job'[d] = job[d],
             NEW label, pc' = [pc EXCEPT ![c] = label]
      PROVE  ApartInv'
  <2>1. \A d \in Commits \ {c} : pc'[d] = pc[d]
    BY <1>0, <1>1 DEF Requests, Bulks
  <2> QED BY <1>0, <1>1, <2>1, CommitMoved
<1>2. CASE ListMetas(c)
  <2>1. /\ job' = [job EXCEPT ![c].items = job'[c].items]
        /\ UNCHANGED <<data, catalogs, out>>
        /\ pc[c] = "listing" /\ pc'[c] \in {"failed", "conflicts", "previous"}
        /\ pc' = [pc EXCEPT ![c] = pc'[c]]
    BY <1>0, <1>2 DEF ListMetas, Goto, storage
  <2>2. InTurn(c)' /\ WorkApart(c)'
    BY <1>0, <2>1, WorkKept DEF Job
  <2> QED BY <1>0, <1>1, <2>1, <2>2
<1>3. CASE LoadPrevious(c)
  <2>1. /\ job' = [job EXCEPT ![c].items = job'[c].items]
        /\ UNCHANGED <<data, catalogs, out>>
        /\ pc[c] = "previous" /\ pc'[c] = "conflicts"
        /\ pc' = [pc EXCEPT ![c] = "conflicts"]
    BY <1>0, <1>3 DEF LoadPrevious, Goto, storage
  <2>2. InTurn(c)' /\ WorkApart(c)'
    BY <1>0, <2>1, WorkKept DEF Job
  <2> QED BY <1>0, <1>1, <2>1, <2>2
<1>4. CASE FindConflicts(c)
  <2>1. /\ \A d \in Commits \ {c} : job'[d] = job[d]
        /\ UNCHANGED <<data, catalogs, out>> /\ pc' = [pc EXCEPT ![c] = pc'[c]]
    BY <1>0, <1>4 DEF FindConflicts, Goto, storage
  <2> QED BY <1>1, <1>4, <2>1, FindConflictsApart
<1>5. CASE NextGroup(c)
  <2>1. /\ \A d \in Commits \ {c} : job'[d] = job[d]
        /\ UNCHANGED <<data, catalogs, out>> /\ pc' = [pc EXCEPT ![c] = "fetching"]
    BY <1>0, <1>5 DEF NextGroup, Goto, storage
  <2> QED BY <1>1, <1>5, <2>1, NextGroupApart
<1>6. ASSUME NEW i \in job[c].fetch, FetchChunk(c, i)
      PROVE  ApartInv'
  <2>1. /\ \A d \in Commits \ {c} : job'[d] = job[d]
        /\ UNCHANGED <<data, catalogs, out>> /\ pc' = [pc EXCEPT ![c] = pc'[c]]
    BY <1>0, <1>6 DEF FetchChunk, Goto, storage
  <2> QED BY <1>1, <1>6, <2>1, FetchApart
<1>7. ASSUME NEW f \in job[c].buffer, MergeChunk(c, f)
      PROVE  ApartInv'
  <2>1. /\ \A d \in Commits \ {c} : job'[d] = job[d]
        /\ UNCHANGED <<data, catalogs, out>> /\ pc' = [pc EXCEPT ![c] = pc[c]]
    BY <1>0, <1>7 DEF MergeChunk, storage
  <2> QED BY <1>1, <1>7, <2>1, MergeStepApart
<1>8. CASE UploadResolved(c)
  <2>1. /\ \A d \in Commits \ {c} : job'[d] = job[d] /\ pc'[d] = pc[d]
        /\ \A r \in Requests \ {c} : out'[r] = out[r]
        /\ UNCHANGED <<data, catalogs>>
    BY <1>0, <1>8 DEF UploadResolved, UploadInto, Goto, storage, Requests, Bulks
  <2> QED BY <1>8, <2>1, UploadResolvedApart, CommitMoved
<1>9. CASE GroupResolved(c)
  <2>1. /\ \A d \in Commits \ {c} : job'[d] = job[d]
        /\ UNCHANGED <<data, catalogs, out>> /\ pc' = [pc EXCEPT ![c] = "resolving"]
    BY <1>0, <1>9 DEF GroupResolved, Goto, storage
  <2> QED BY <1>1, <1>9, <2>1, GroupResolvedApart
<1> QED BY <1>2, <1>3, <1>4, <1>5, <1>6, <1>7, <1>8, <1>9 DEF Resolve

-----------------------------------------------------------------------------
(* The other steps *)

LEMMA IndexApart ==
    ASSUME TypeOK, ApartInv, NEW c \in Commits, Index(c)
    PROVE  ApartInv'
<1>0. /\ job \in [Commits -> Job] /\ job[c] \in Job /\ pc \in [Requests -> Labels]
      /\ DOMAIN out = Requests /\ c \in Requests
      /\ InTurn(c) /\ WorkApart(c)
      /\ \A k \in DOMAIN out[c] : MetaOf(out[c][k]) = k.meta
      /\ \A k \in DOMAIN data : MetaOf(data[k]) = k.meta
  BY WorkKnown DEF TypeOK, RequestsOK, ApartInv, ContentsKnown
<1>1. ASSUME UNCHANGED <<data, catalogs>>,
             \A r \in Requests \ {c} : out'[r] = out[r],
             \A k \in DOMAIN out'[c] : MetaOf(out'[c][k]) = k.meta,
             \A d \in Commits \ {c} : job'[d] = job[d],
             job'[c].chunks = job[c].chunks, job'[c].groups = job[c].groups,
             job'[c].fetch = job[c].fetch, job'[c].buffer = job[c].buffer,
             job'[c].merged = job[c].merged,
             NEW label \in {"failed", "indexing", "saving"}, pc' = [pc EXCEPT ![c] = label]
      PROVE  ApartInv'
  <2>1. pc'[c] \in {"failed", "indexing", "saving", "acked"}
        /\ \A d \in Commits \ {c} : pc'[d] = pc[d]
    BY <1>0, <1>1 DEF Requests, Bulks
  <2>2. InTurn(c)' /\ WorkApart(c)'
    BY <1>0, <1>1, <2>1, WorkKept
  <2> QED BY <1>0, <1>1, <2>1, <2>2, CommitMoved
<1>2. CASE BuildIndex(c)
  <2>1. /\ job' = [job EXCEPT ![c].load = job'[c].load] /\ UNCHANGED <<data, catalogs, out>>
        /\ pc' = [pc EXCEPT ![c] = "indexing"]
    BY <1>0, <1>2 DEF BuildIndex, Goto, storage
  <2>2. /\ job'[c].chunks = job[c].chunks /\ job'[c].groups = job[c].groups
        /\ job'[c].fetch = job[c].fetch /\ job'[c].buffer = job[c].buffer
        /\ job'[c].merged = job[c].merged /\ \A d \in Commits \ {c} : job'[d] = job[d]
    BY <1>0, <2>1 DEF Job
  <2> QED BY <1>0, <1>1, <2>1, <2>2
<1>3. ASSUME NEW k \in job[c].load, LoadIndex(c, k)
      PROVE  ApartInv'
  <2>1. /\ \/ job' = [job EXCEPT ![c].load = job'[c].load, ![c].rows = job'[c].rows]
           \/ job' = [job EXCEPT ![c].load = job'[c].load, ![c].rebuild = job'[c].rebuild]
        /\ UNCHANGED <<data, catalogs, out, pc>> /\ pc[c] = "indexing"
    BY <1>0, <1>3 DEF LoadIndex, storage
  <2>2. /\ job'[c].chunks = job[c].chunks /\ job'[c].groups = job[c].groups
        /\ job'[c].fetch = job[c].fetch /\ job'[c].buffer = job[c].buffer
        /\ job'[c].merged = job[c].merged /\ \A d \in Commits \ {c} : job'[d] = job[d]
    BY <1>0, <2>1 DEF Job
  <2>3. pc' = [pc EXCEPT ![c] = "indexing"]
    BY <1>0, <2>1
  <2> QED BY <1>0, <1>1, <2>1, <2>2, <2>3
<1>4. ASSUME NEW k \in job[c].rebuild, RebuildIndex(c, k)
      PROVE  ApartInv'
  <2>1. CASE k \in DOMAIN data
    <3>1. /\ job' = [job EXCEPT ![c].rebuild = job'[c].rebuild, ![c].rows = job'[c].rows]
          /\ out' = [out EXCEPT ![c] = Put(out[c], k, data[k])]
          /\ UNCHANGED <<data, catalogs, pc>> /\ pc[c] = "indexing"
      BY <1>0, <1>4, <2>1 DEF RebuildIndex, storage
    <3>2. /\ job'[c].chunks = job[c].chunks /\ job'[c].groups = job[c].groups
          /\ job'[c].fetch = job[c].fetch /\ job'[c].buffer = job[c].buffer
          /\ job'[c].merged = job[c].merged /\ \A d \in Commits \ {c} : job'[d] = job[d]
      BY <1>0, <3>1 DEF Job
    <3>3. pc' = [pc EXCEPT ![c] = "indexing"]
      BY <1>0, <3>1
    <3>4. /\ out'[c] = Put(out[c], k, data[k])
          /\ \A r \in Requests \ {c} : out'[r] = out[r]
      BY <1>0, <3>1
    <3>5. \A l \in DOMAIN out'[c] : MetaOf(out'[c][l]) = l.meta
      BY <1>0, <2>1, <3>4 DEF Put
    <3> QED BY <1>0, <1>1, <3>1, <3>2, <3>3, <3>4, <3>5
  <2>2. CASE k \notin DOMAIN data
    <3>1. UNCHANGED <<data, catalogs, out, job>> /\ pc' = [pc EXCEPT ![c] = "failed"]
      BY <1>4, <2>2 DEF RebuildIndex, Goto, storage
    <3> QED BY <1>0, <1>1, <3>1
  <2> QED BY <2>1, <2>2
<1>5. CASE SaveCatalog(c)
  <2>1. UNCHANGED <<data, catalogs, out, job>> /\ pc' = [pc EXCEPT ![c] = "saving"]
    BY <1>5 DEF SaveCatalog, Goto, storage
  <2> QED BY <1>0, <1>1, <2>1
<1> QED BY <1>2, <1>3, <1>4, <1>5 DEF Index

(* A post uploads one chunk, named after what it uploads. *)
LEMMA PostApart ==
    ASSUME TypeOK, ApartInv, PostStep
    PROVE  ApartInv'
<1>0. /\ DOMAIN out = Requests /\ pc \in [Requests -> Labels]
      /\ Posts \subseteq Requests /\ Commits \subseteq Requests /\ Wholes \subseteq Requests
      /\ Posts \cap Commits = {} /\ Posts \cap Wholes = {}
  BY RequestAssumption DEF TypeOK, RequestsOK, Requests, Bulks
<1>1. ASSUME NEW p \in Posts, NEW s \in Sessions, PostChunk(p, s)
      PROVE  ApartInv'
  <2>1. PICK shape \in PostShapes(s) :
          out' = [out EXCEPT ![p] = Put(<<>>, ChunkAt(s, FilledBy(p, shape)), FilledBy(p, shape))]
    BY <1>1 DEF PostChunk
  <2> DEFINE d == FilledBy(p, shape)
             k == ChunkAt(s, d)
  <2>2. MetaOf(d) = k.meta
    BY DEF ChunkAt
  <2>3. UNCHANGED <<data, catalogs, job>> /\ pc' = [pc EXCEPT ![p] = "uploading"]
    BY <1>1 DEF PostChunk, Goto, storage
  <2>4. out' = [out EXCEPT ![p] = Put(<<>>, k, d)]
    BY <2>1
  <2> HIDE DEF k, d
  <2>5. out'[p] = Put(<<>>, k, d) /\ \A r \in Requests \ {p} : out'[r] = out[r]
    BY <1>0, <2>4
  <2>6. DOMAIN out'[p] = {k} /\ out'[p][k] = d
    BY <2>5 DEF Put
  <2>7. ContentsKnown'
    BY <2>2, <2>3, <2>5, <2>6 DEF ApartInv, ContentsKnown
  <2>8. CatalogsApart'
    BY <1>0, <2>3, <2>5 DEF ApartInv, CatalogsApart
  <2>9. \A c \in Commits : pc'[c] = pc[c] /\ out'[c] = out[c] /\ job'[c] = job[c]
    BY <1>0, <2>3, <2>5
  <2>10. \A c \in Commits : InTurn(c)' /\ WorkApart(c)'
    BY <2>9, WorkKept DEF ApartInv
  <2> QED BY <2>7, <2>8, <2>10 DEF ApartInv
<1>2. ASSUME NEW p \in Posts, PostAck(p)
      PROVE  ApartInv'
  <2>1. UNCHANGED <<data, catalogs, out, job>> /\ pc' = [pc EXCEPT ![p] = "acked"]
    BY <1>2 DEF PostAck, Goto, storage
  <2>2. \A c \in Commits : pc'[c] = pc[c]
    BY <1>0, <2>1
  <2> QED BY <2>1, <2>2, Unmoved
<1> QED BY <1>1, <1>2 DEF PostStep

(* So does a post of a whole bulk, whose catalog has that chunk alone. *)
LEMMA PostWholeApart ==
    ASSUME TypeOK, ApartInv, NEW w \in Wholes, PostWhole(w)
    PROVE  ApartInv'
<1>0. /\ DOMAIN out = Requests /\ pc \in [Requests -> Labels]
      /\ w \in Requests /\ Commits \subseteq Requests /\ Wholes \subseteq Requests
      /\ w \notin Commits
  BY RequestAssumption DEF TypeOK, RequestsOK, Requests, Bulks
<1>1. PICK shape \in WholeShapes :
        out' = [out EXCEPT ![w] = Put(<<>>, ChunkAt(w, FilledBy(w, shape)), FilledBy(w, shape))]
  BY DEF PostWhole
<1> DEFINE d == FilledBy(w, shape)
           k == ChunkAt(w, d)
<1>2. MetaOf(d) = k.meta
  BY DEF ChunkAt
<1>3. UNCHANGED <<data, catalogs, job>> /\ pc' = [pc EXCEPT ![w] = "saving"]
  BY DEF PostWhole, Goto, storage
<1>4. out' = [out EXCEPT ![w] = Put(<<>>, k, d)]
  BY <1>1
<1> HIDE DEF k, d
<1>5. out'[w] = Put(<<>>, k, d) /\ \A r \in Requests \ {w} : out'[r] = out[r]
  BY <1>0, <1>4
<1>6. DOMAIN out'[w] = {k} /\ out'[w][k] = d
  BY <1>5 DEF Put
<1>7. ContentsKnown'
  BY <1>2, <1>3, <1>5, <1>6 DEF ApartInv, ContentsKnown
<1>8. CatalogsApart'
  BY <1>0, <1>3, <1>5, <1>6 DEF ApartInv, CatalogsApart
<1>9. \A c \in Commits : pc'[c] = pc[c] /\ out'[c] = out[c] /\ job'[c] = job[c]
  BY <1>0, <1>3, <1>5
<1>10. \A c \in Commits : InTurn(c)' /\ WorkApart(c)'
  BY <1>9, WorkKept DEF ApartInv
<1> QED BY <1>7, <1>8, <1>10 DEF ApartInv

(* A commit begins with nothing at hand. *)
LEMMA CommitApart ==
    ASSUME TypeOK, ApartInv, Complete
    PROVE  ApartInv'
<1>1. PICK c \in Commits, s \in Sessions : \E prev \in UpdateFrom(s) : Commit(c, s, prev)
  BY DEF Complete
<1>2. PICK prev \in UpdateFrom(s) : Commit(c, s, prev)
  BY <1>1
<1>0. /\ job \in [Commits -> Job] /\ pc \in [Requests -> Labels] /\ c \in Requests
      /\ \A k \in DOMAIN out[c] : MetaOf(out[c][k]) = k.meta
      /\ Commits \subseteq Requests
  BY WorkKnown DEF TypeOK, RequestsOK, ApartInv, ContentsKnown, Requests, Bulks
<1>3. /\ job' = [job EXCEPT ![c] = [NoJob EXCEPT !.session = s, !.prev = prev]]
      /\ pc' = [pc EXCEPT ![c] = "listing"] /\ UNCHANGED <<data, catalogs, out>>
  BY <1>2 DEF Commit, Goto, storage
<1>4. /\ job'[c].chunks = {} /\ job'[c].groups = {} /\ job'[c].fetch = {}
      /\ job'[c].buffer = {} /\ job'[c].merged = EmptyFrame
      /\ pc'[c] = "listing"
  BY <1>0, <1>3 DEF NoJob
<1>5. CurrentMetas(c)' = {}
  BY <1>4 DEF CurrentMetas, MetasOf
<1>6. InTurn(c)' /\ WorkApart(c)'
  BY <1>4, <1>5 DEF InTurn, WorkApart
<1>7. \A d \in Commits \ {c} : job'[d] = job[d] /\ pc'[d] = pc[d]
  BY <1>0, <1>3
<1> QED BY <1>0, <1>3, <1>6, <1>7, CommitMoved

(* What is uploaded has the metadata its name says. *)
LEMMA UploadApart ==
    ASSUME TypeOK, TasksKnown, ApartInv, Upload
    PROVE  ApartInv'
<1>0. PICK r \in Requests : \E t \in tasks[r] :
        \/ PutMeta(r, t[2]) \/ PutData(r, t[2])
        \/ ListIndex(r, t[2]) \/ PutIndex(r, t[2])
  BY DEF Upload
<1>1. PICK t \in tasks[r] :
        \/ PutMeta(r, t[2]) \/ PutData(r, t[2])
        \/ ListIndex(r, t[2]) \/ PutIndex(r, t[2])
  BY <1>0
<1>2. CASE PutData(r, t[2])
  <2>1. data' = Put(data, t[2], out[r][t[2]]) /\ UNCHANGED <<catalogs, out, pc, job>>
    BY <1>2 DEF PutData
  <2>2. MetaOf(out[r][t[2]]) = t[2].meta
    BY DEF TasksKnown, ApartInv, ContentsKnown
  <2>3. \A k \in DOMAIN data' : MetaOf(data'[k]) = k.meta
    BY <2>1, <2>2 DEF ApartInv, ContentsKnown, Put
  <2>4. ContentsKnown' /\ CatalogsApart'
    BY <2>1, <2>3 DEF ApartInv, ContentsKnown, CatalogsApart
  <2>5. \A c \in Commits : InTurn(c)' /\ WorkApart(c)'
    BY <2>1, WorkKept DEF ApartInv
  <2> QED BY <2>4, <2>5 DEF ApartInv
<1>3. CASE PutMeta(r, t[2]) \/ ListIndex(r, t[2]) \/ PutIndex(r, t[2])
  BY <1>3, Unmoved DEF PutMeta, ListIndex, PutIndex, storage
<1> QED BY <1>1, <1>2, <1>3

(* A catalog lists what the commit kept, or the one chunk of a whole bulk. *)
LEMMA SaveApart ==
    ASSUME TypeOK, ApartInv, \/ Save \/ \E c \in Commits : PutBulkIndex(c)
    PROVE  ApartInv'
<1>0. pc \in [Requests -> Labels] /\ Bulks \subseteq Requests
  BY DEF TypeOK, RequestsOK, Requests
<1>1. ASSUME NEW b \in Bulks, PutCatalog(b)
      PROVE  ApartInv'
  <2>1. catalogs' = Put(catalogs, b, CatalogOf(b)) /\ UNCHANGED <<data, pc, out, job>>
    BY <1>1 DEF PutCatalog
  <2>2. \A k, l \in CatalogOf(b).chunks : k # l => Apart({k.meta}, {l.meta})
    <3>1. CASE b \in Commits
      BY <3>1 DEF CatalogOf, ApartInv, WorkApart
    <3>2. CASE b \notin Commits
      BY <3>2 DEF CatalogOf, ApartInv, CatalogsApart, Bulks
    <3> QED BY <3>1, <3>2
  <2>3. \A a \in DOMAIN catalogs' : \A k, l \in catalogs'[a].chunks :
          k # l => Apart({k.meta}, {l.meta})
    BY <2>1, <2>2 DEF ApartInv, CatalogsApart, Put
  <2>4. ContentsKnown' /\ CatalogsApart'
    BY <2>1, <2>3 DEF ApartInv, ContentsKnown, CatalogsApart
  <2>5. \A c \in Commits : InTurn(c)' /\ WorkApart(c)'
    BY <2>1, WorkKept DEF ApartInv
  <2> QED BY <2>4, <2>5 DEF ApartInv
<1>2. ASSUME NEW b \in Bulks, BulkAck(b)
      PROVE  ApartInv'
  BY <1>0, <1>2, Unmoved DEF BulkAck, Goto, storage, Bulks
<1>3. ASSUME NEW c \in Commits, PutBulkIndex(c)
      PROVE  ApartInv'
  BY <1>3, Unmoved DEF PutBulkIndex
<1> QED BY <1>1, <1>2, <1>3 DEF Save

(* A failure stops a request, it moves no chunk. *)
LEMMA FailureApart ==
    ASSUME TypeOK, ApartInv, Failure
    PROVE  ApartInv'
<1>0. pc \in [Requests -> Labels] /\ Commits \subseteq Requests
  BY DEF TypeOK, RequestsOK, Requests, Bulks
<1>1. PICK r : Goto(r, "failed") /\ UNCHANGED <<storage, out, job>>
  BY DEF Failure, Crash, FailTask, FailRead, FailSave
<1>2. UNCHANGED <<data, catalogs, out, job>>
  BY <1>1 DEF storage
<1>3. \A c \in Commits : pc'[c] = pc[c] \/ pc'[c] = "failed"
  BY <1>0, <1>1 DEF Goto
<1> QED BY <1>2, <1>3, Unmoved

-----------------------------------------------------------------------------
(* Theorems *)

(* Chunks and groups stay apart in every state the worker reaches.           *)
THEOREM ApartInvariance == Spec => []ApartInv
<1>1. Init => ApartInv
  <2> SUFFICES ASSUME Init PROVE ApartInv
    OBVIOUS
  <2>1. ContentsKnown /\ CatalogsApart
    BY DEF Init, ContentsKnown, CatalogsApart, Requests, Bulks
  <2>2. ASSUME NEW c \in Commits
        PROVE  InTurn(c) /\ WorkApart(c)
    <3>1. /\ job[c].chunks = {} /\ job[c].groups = {} /\ job[c].fetch = {}
          /\ job[c].buffer = {} /\ job[c].merged = EmptyFrame /\ pc[c] = "idle"
      BY DEF Init, NoJob, Requests, Bulks
    <3>2. CurrentMetas(c) = {}
      BY <3>1 DEF CurrentMetas, MetasOf
    <3> QED BY <3>1, <3>2 DEF InTurn, WorkApart
  <2> QED BY <2>1, <2>2 DEF ApartInv
<1>2. Inv /\ ApartInv /\ [Next]_vars => ApartInv'
  <2> SUFFICES ASSUME Inv, ApartInv, [Next]_vars PROVE ApartInv'
    OBVIOUS
  <2>1. TypeOK /\ TasksKnown
    BY DEF Inv
  <2>2. CASE UNCHANGED vars
    BY <2>2, Unmoved DEF vars, storage
  <2>3. CASE Next
    BY <2>1, <2>3, PostApart, UploadApart, CommitApart, PostWholeApart, ResolveApart,
       IndexApart, SaveApart, FailureApart DEF Next
  <2> QED BY <2>2, <2>3
<1> QED BY <1>1, <1>2, Invariance, PTL DEF Spec

(* An acknowledged bulk has a catalog, whose chunks are apart. *)
LEMMA AckedApart ==
    ASSUME Inv, ApartInv, NEW b \in AckedBulks,
           NEW k \in catalogs[b].chunks, NEW l \in catalogs[b].chunks, k # l
    PROVE  ~OverlapWith(k.meta, l.meta) /\ (NeverSplit => ~Misaligned(k.meta, l.meta))
<1>1. b \in Bulks /\ b \in DOMAIN catalogs
  BY DEF AckedBulks, Inv, SavesTracked
<1>2. k.meta \in Meta /\ l.meta \in Meta
  BY <1>1, ChunkMeta DEF Inv, TypeOK, StorageOK
<1>3. Apart({k.meta}, {l.meta})
  BY <1>1 DEF ApartInv, CatalogsApart
<1> QED BY <1>2, <1>3, ApartMeans

(* No two chunks of an acknowledged bulk hold the same cell: under any       *)
(* interleaving of posts and commits, with any failures, updates of other    *)
(* bulks, and groups split by columns or by rows.                            *)
THEOREM ChunksDisjoint == Spec => []CatalogChunksDisjoint
<1>1. Inv /\ ApartInv => CatalogChunksDisjoint
  BY AckedApart DEF CatalogChunksDisjoint
<1> QED BY <1>1, Invariance, ApartInvariance, PTL

(* What BulkCatalog.from_metas expects, "without any conflicts/overlaps",    *)
(* when no merge is over the write limits; a split may misalign columns.     *)
THEOREM FreeOfConflicts == ASSUME NeverSplit PROVE Spec => []CatalogFreeOfConflicts
<1>1. Inv /\ ApartInv => CatalogFreeOfConflicts
  BY AckedApart DEF CatalogFreeOfConflicts
<1> QED BY <1>1, Invariance, ApartInvariance, PTL

-----------------------------------------------------------------------------
(* Steps *)

(* What a step of a commit leaves alone, but for the upload of its pieces.   *)
LEMMA OwnStep ==
    ASSUME TypeOK, NEW c \in Commits, Resolve(c) \/ Index(c)
    PROVE  /\ UNCHANGED <<storage, before, failures>>
           /\ \A d \in Commits \ {c} : job'[d] = job[d]
           /\ \A r \in Requests \ {c} : pc'[r] = pc[r] /\ tasks'[r] = tasks[r] /\ out'[r] = out[r]
           /\ job'[c].session = job[c].session /\ job'[c].prev = job[c].prev
           /\ pc[c] \notin {"idle", "acked", "failed", "saving"} /\ pc'[c] \notin {"idle", "acked"}
           /\ tasks[c] \subseteq tasks'[c] \/ pc[c] = "merging"
<1>0. /\ job \in [Commits -> Job] /\ job[c] \in Job /\ c \in Requests
      /\ pc \in [Requests -> Labels] /\ DOMAIN out = Requests
      /\ tasks \in [Requests -> SUBSET Task]
  BY WorkKnown DEF TypeOK, RequestsOK
<1>1. CASE ListMetas(c)
  BY <1>0, <1>1 DEF ListMetas, Goto, Job
<1>2. CASE LoadPrevious(c)
  BY <1>0, <1>2 DEF LoadPrevious, Goto, Job
<1>3. CASE FindConflicts(c)
  BY <1>0, <1>3 DEF FindConflicts, Goto, Job
<1>4. CASE NextGroup(c)
  BY <1>0, <1>4 DEF NextGroup, Goto, Job
<1>5. CASE \E i \in job[c].fetch : FetchChunk(c, i)
  BY <1>0, <1>5 DEF FetchChunk, Goto, Job
<1>6. CASE \E f \in job[c].buffer : MergeChunk(c, f)
  BY <1>0, <1>6 DEF MergeChunk, Goto, Job
<1>7. CASE UploadResolved(c)
  BY <1>0, <1>7 DEF UploadResolved, UploadInto, Goto, Job
<1>8. CASE GroupResolved(c)
  BY <1>0, <1>8 DEF GroupResolved, Goto, Job
<1>9. CASE BuildIndex(c)
  BY <1>0, <1>9 DEF BuildIndex, Goto, Job
<1>10. CASE \E k \in job[c].load : LoadIndex(c, k)
  BY <1>0, <1>10 DEF LoadIndex, Goto, Job
<1>11. CASE \E k \in job[c].rebuild : RebuildIndex(c, k)
  BY <1>0, <1>11 DEF RebuildIndex, Goto, Job
<1>12. CASE SaveCatalog(c)
  BY <1>0, <1>12 DEF SaveCatalog, Goto, Job
<1> QED BY <1>1, <1>2, <1>3, <1>4, <1>5, <1>6, <1>7, <1>8, <1>9, <1>10, <1>11, <1>12
        DEF Resolve, Index

-----------------------------------------------------------------------------
(* Uploads *)

(* A step of one request that is not answered, on its own variables.         *)
LEMMA QuietMoved ==
    ASSUME TypeOK, QuietInv, NEW r \in Requests, ~Answered(r), data' = data,
           \A q \in Requests \ {r} : /\ pc'[q] = pc[q] /\ tasks'[q] = tasks[q]
                                     /\ out'[q] = out[q] /\ before'[q] = before[q],
           \A c \in Commits \ {r} : job'[c] = job[c],
           r \in Commits => pc[r] = "idle" \/ job'[r].session = job[r].session,
           pc'[r] # "idle",
           \/ before'[r] = before[r]
           \/ pc[r] = "idle" /\ before'[r] = {q \in Requests : Answered(q)},
           r \in Commits \/ pc[r] = "idle" \/ out'[r] = out[r],
           \A t \in tasks'[r] : t[1] # "index" =>
              /\ pc'[r] = "uploading" \/ (r \notin Commits /\ pc'[r] = "saving")
              /\ r \in Bulks => t[2].dir = FolderOf(r)',
           r \in Posts => \A k \in DOMAIN out'[r] :
              /\ k.dir \in Sessions
              /\ <<"data", k>> \in tasks[r] \/ pc[r] = "idle" => <<"data", k>> \in tasks'[r],
           r \in Wholes => \A k \in DOMAIN out'[r] : k.dir = r
    PROVE  QuietInv'
<1>0. /\ Posts \subseteq Requests /\ Commits \subseteq Bulks /\ Bulks \subseteq Requests
      /\ Wholes \subseteq Requests /\ Posts \cap Bulks = {} /\ Requests = Posts \cup Bulks
      /\ job \in [Commits -> Job]
  BY RequestAssumption DEF Requests, Bulks, TypeOK
<1>1. \A q \in Requests : Answered(q) => q # r /\ Answered(q)'
  BY DEF Answered
<1>2. StoresQuiet'
  BY <1>0 DEF QuietInv, StoresQuiet, Answered
<1>3. StoresInFolder'
  <2>1. \A b \in Bulks : \A t \in tasks'[b] : t[1] = "index" \/ t[2].dir = FolderOf(b)'
    BY <1>0 DEF QuietInv, StoresInFolder, FolderOf
  <2>2. \A p \in Posts : \A k \in DOMAIN out'[p] : k.dir \in Sessions
    BY <1>0 DEF QuietInv, StoresInFolder
  <2>3. \A w \in Wholes : \A k \in DOMAIN out'[w] : k.dir = w
    BY <1>0 DEF QuietInv, StoresInFolder
  <2> QED BY <2>1, <2>2, <2>3 DEF StoresInFolder
<1>4. NothingYet'
  BY <1>0 DEF QuietInv, NothingYet
<1>5. \A q \in Requests : \A s \in before'[q] : Answered(s)'
  <2> SUFFICES ASSUME NEW q \in Requests, NEW s \in before'[q] PROVE Answered(s)'
    OBVIOUS
  <2>1. s \in before[q] \/ (s \in Requests /\ Answered(s))
    BY DEF Answered
  <2>2. s \in Requests /\ Answered(s)
    BY <2>1 DEF QuietInv, LastHeld, TypeOK, RequestsOK
  <2> QED BY <1>1, <2>2
<1>6. ASSUME NEW p \in Posts, NEW k \in DOMAIN out'[p], <<"data", k>> \notin tasks'[p],
             \A q \in Requests \ {p} : MayStore(q, k)' => q \in before'[p]
      PROVE  k \in DOMAIN data /\ data[k] = out'[p][k]
  <2>1. ASSUME NEW q \in Requests, MayStore(q, k)
        PROVE  MayStore(q, k)'
    <3>1. CASE q \in Commits
      <4>1. CASE q = r /\ pc[r] = "idle"
        <5>1. k.dir = None
          BY <2>1, <3>1, <4>1 DEF QuietInv, NothingYet, MayStore, NoJob
        <5>2. k.dir \in Sessions
          BY <1>3, <1>6 DEF StoresInFolder
        <5> QED BY <5>1, <5>2, RequestAssumption
      <4>2. CASE ~(q = r /\ pc[r] = "idle")
        BY <2>1, <3>1, <4>2 DEF MayStore
      <4> QED BY <4>1, <4>2
    <3>2. CASE q \notin Commits
      BY <2>1, <3>2 DEF MayStore, QuietInv, NothingYet
    <3> QED BY <3>1, <3>2
  <2>2. /\ p # r \/ pc[r] # "idle"
        /\ before'[p] = before[p] /\ out'[p] = out[p] /\ <<"data", k>> \notin tasks[p]
    BY <1>0, <1>6
  <2> QED BY <1>0, <1>6, <2>1, <2>2 DEF QuietInv, LastHeld
<1>7. LastHeld'
  BY <1>0, <1>5, <1>6 DEF LastHeld
<1> QED BY <1>2, <1>3, <1>4, <1>7 DEF QuietInv

(* An upload of an object. *)
LEMMA UploadQuiet ==
    ASSUME TypeOK, TasksKnown, QuietInv, Upload
    PROVE  QuietInv'
<1>0. /\ Posts \subseteq Requests /\ Commits \subseteq Bulks /\ Bulks \subseteq Requests
      /\ tasks \in [Requests -> SUBSET Task] /\ Posts \cap Bulks = {} /\ Requests = Posts \cup Bulks
  BY RequestAssumption DEF Requests, Bulks, TypeOK, RequestsOK
<1>1. PICK r \in Requests : \E t \in tasks[r] :
        PutMeta(r, t[2]) \/ PutData(r, t[2]) \/ ListIndex(r, t[2]) \/ PutIndex(r, t[2])
  BY DEF Upload
<1>2. PICK t \in tasks[r] :
        PutMeta(r, t[2]) \/ PutData(r, t[2]) \/ ListIndex(r, t[2]) \/ PutIndex(r, t[2])
  BY <1>1
<1> DEFINE k == t[2]
<1>3. /\ UNCHANGED <<pc, out, job, before>>
      /\ \A q \in Requests : \A u \in tasks'[q] : u \in tasks[q] \/ u[1] = "index"
  BY <1>0, <1>2 DEF PutMeta, PutData, ListIndex, PutIndex, Done
<1>4. StoresQuiet' /\ StoresInFolder' /\ NothingYet'
  <2>1. StoresQuiet'
    BY <1>3 DEF QuietInv, StoresQuiet, Answered
  <2>2. StoresInFolder'
    BY <1>0, <1>3 DEF QuietInv, StoresInFolder, FolderOf
  <2>3. NothingYet'
    BY <1>3 DEF QuietInv, NothingYet
  <2> QED BY <2>1, <2>2, <2>3
<1>5. ASSUME NEW p \in Posts, NEW l \in DOMAIN out[p], <<"data", l>> \notin tasks'[p],
             \A q \in Requests \ {p} : MayStore(q, l) => q \in before[p]
      PROVE  l \in DOMAIN data' /\ data'[l] = out[p][l]
  <2>1. CASE PutData(r, l)
    <3>1. <<"data", l>> \in tasks[r] /\ data' = Put(data, l, out[r][l])
      BY <2>1 DEF PutData
    <3>2. r = p
      <4>1. l \in DOMAIN out[r]
        BY <3>1 DEF TasksKnown
      <4>2. r \in Commits => l.dir = job[r].session
        BY <1>0, <3>1 DEF QuietInv, StoresInFolder, FolderOf
      <4>3. MayStore(r, l)
        BY <4>1, <4>2 DEF MayStore
      <4>4. Answered(r) => FALSE
        BY <3>1 DEF QuietInv, StoresQuiet
      <4> QED BY <1>0, <1>5, <4>3, <4>4 DEF QuietInv, LastHeld
    <3> QED BY <3>1, <3>2 DEF Put
  <2>2. CASE ~PutData(r, l)
    <3>1. <<"data", l>> \notin tasks[p]
      <4>1. CASE r = p
        <5> HIDE DEF k
        <5>1. k # l \/ ~PutData(r, k)
          BY <2>2
        <5>2. CASE PutData(r, k)
          BY <1>0, <1>5, <4>1, <5>1, <5>2 DEF PutData, Done
        <5>3. CASE ~PutData(r, k)
          BY <1>0, <1>2, <1>5, <4>1, <5>3 DEF PutMeta, ListIndex, PutIndex, Done, k
        <5> QED BY <5>2, <5>3
      <4>2. CASE r # p
        BY <1>0, <1>2, <1>5, <4>2 DEF PutMeta, PutData, ListIndex, PutIndex, Done
      <4> QED BY <4>1, <4>2
    <3>2. l \in DOMAIN data /\ data[l] = out[p][l]
      BY <1>5, <3>1 DEF QuietInv, LastHeld
    <3>3. data' = data \/ \E v : data' = Put(data, k, v) /\ k # l
      BY <1>2, <2>2 DEF PutMeta, PutData, ListIndex, PutIndex, storage
    <3> HIDE DEF k
    <3> QED BY <3>2, <3>3 DEF Put
  <2> QED BY <2>1, <2>2
<1>6. LastHeld'
  <2>1. \A q \in Requests : \A s \in before'[q] : Answered(s)'
    BY <1>3 DEF QuietInv, LastHeld, Answered
  <2>2. \A q \in Requests : \A l : MayStore(q, l)' <=> MayStore(q, l)
    BY <1>3 DEF MayStore
  <2> QED BY <1>3, <1>5, <2>1, <2>2 DEF LastHeld
<1> QED BY <1>4, <1>6 DEF QuietInv

(* The steps of the other requests. *)
LEMMA PostQuiet ==
    ASSUME TypeOK, QuietInv, PostStep
    PROVE  QuietInv'
<1>0. /\ pc \in [Requests -> Labels] /\ DOMAIN out = Requests /\ tasks \in [Requests -> SUBSET Task]
      /\ Posts \subseteq Requests /\ Posts \cap Bulks = {} /\ Posts \cap Commits = {}
      /\ Posts \cap Wholes = {}
      /\ before \in [Requests -> SUBSET Requests]
  BY RequestAssumption DEF TypeOK, RequestsOK, Requests, Bulks
<1>1. ASSUME NEW p \in Posts, NEW s \in Sessions, PostChunk(p, s)
      PROVE  QuietInv'
  <2>1. PICK shape \in PostShapes(s) :
          /\ out'   = [out EXCEPT ![p] = Put(<<>>, ChunkAt(s, FilledBy(p, shape)), FilledBy(p, shape))]
          /\ tasks' = [tasks EXCEPT ![p] = UploadTasks({ChunkAt(s, FilledBy(p, shape))})]
    BY <1>1 DEF PostChunk
  <2> DEFINE k == ChunkAt(s, FilledBy(p, shape))
  <2>2. /\ pc' = [pc EXCEPT ![p] = "uploading"] /\ pc[p] = "idle"
        /\ before' = [before EXCEPT ![p] = {q \in Requests : Answered(q)}]
        /\ data' = data /\ job' = job
    BY <1>1 DEF PostChunk, Goto, Sent, storage
  <2>3. k.dir = s /\ DOMAIN out'[p] = {k} /\ <<"data", k>> \in tasks'[p]
    BY <1>0, <2>1 DEF ChunkAt, Put, UploadTasks
  <2> HIDE DEF k
  <2> QED BY <1>0, <2>1, <2>2, <2>3, QuietMoved DEF Answered
<1>2. ASSUME NEW p \in Posts, PostAck(p)
      PROVE  QuietInv'
  <2>1. /\ pc' = [pc EXCEPT ![p] = "acked"] /\ pc[p] = "uploading" /\ tasks[p] = {}
        /\ UNCHANGED <<data, tasks, out, job, before>>
    BY <1>2 DEF PostAck, Goto, storage
  <2> QED BY <1>0, <2>1, QuietMoved DEF Answered, QuietInv, StoresInFolder
<1> QED BY <1>1, <1>2 DEF PostStep

(* So does the post of a whole bulk, which stores into a folder of its own.  *)
LEMMA PostWholeQuiet ==
    ASSUME TypeOK, QuietInv, NEW w \in Wholes, PostWhole(w)
    PROVE  QuietInv'
<1>0. /\ pc \in [Requests -> Labels] /\ DOMAIN out = Requests /\ tasks \in [Requests -> SUBSET Task]
      /\ w \in Requests /\ w \notin Posts /\ w \notin Commits
      /\ before \in [Requests -> SUBSET Requests]
  BY RequestAssumption DEF TypeOK, RequestsOK, Requests, Bulks
<1>1. PICK shape \in WholeShapes :
        /\ out'   = [out EXCEPT ![w] = Put(<<>>, ChunkAt(w, FilledBy(w, shape)), FilledBy(w, shape))]
        /\ tasks' = [tasks EXCEPT ![w] = {"meta", "data"} \X {ChunkAt(w, FilledBy(w, shape))}]
  BY DEF PostWhole
<1> DEFINE k == ChunkAt(w, FilledBy(w, shape))
<1>2. /\ pc' = [pc EXCEPT ![w] = "saving"] /\ pc[w] = "idle"
      /\ before' = [before EXCEPT ![w] = {q \in Requests : Answered(q)}]
      /\ data' = data /\ job' = job
  BY DEF PostWhole, Goto, Sent, storage
<1>3. /\ k.dir = w /\ FolderOf(w)' = w /\ DOMAIN out'[w] = {k}
      /\ \A t \in tasks'[w] : t[2] = k
  BY <1>0, <1>1 DEF ChunkAt, FolderOf, Put
<1> HIDE DEF k
<1> QED BY <1>0, <1>1, <1>2, <1>3, QuietMoved DEF Answered

(* A commit that begins has nothing to store.                                *)
LEMMA CommitQuiet ==
    ASSUME TypeOK, TasksKnown, QuietInv, Complete
    PROVE  QuietInv'
<1>1. PICK c \in Commits, s \in Sessions : \E prev \in UpdateFrom(s) : Commit(c, s, prev)
  BY DEF Complete
<1>2. /\ c \in Requests /\ c \notin Posts /\ c \notin Wholes /\ pc \in [Requests -> Labels]
      /\ before \in [Requests -> SUBSET Requests] /\ job \in [Commits -> Job]
  BY RequestAssumption DEF TypeOK, RequestsOK, Requests, Bulks
<1>3. /\ pc' = [pc EXCEPT ![c] = "listing"] /\ pc[c] = "idle"
      /\ before' = [before EXCEPT ![c] = {q \in Requests : Answered(q)}]
      /\ data' = data /\ tasks' = tasks /\ out' = out /\ \A d \in Commits \ {c} : job'[d] = job[d]
  BY <1>1, <1>2 DEF Commit, Goto, Sent, storage
<1>4. tasks[c] = {}
  BY <1>2, <1>3 DEF TasksKnown, QuietLabels
<1> QED BY <1>2, <1>3, <1>4, QuietMoved DEF Answered

(* A commit that goes on stores only what it is uploading.                   *)
LEMMA OwnQuiet ==
    ASSUME TypeOK, TasksKnown, QuietInv, NEW c \in Commits, Resolve(c) \/ Index(c)
    PROVE  QuietInv'
<1>0. /\ job \in [Commits -> Job] /\ job[c] \in Job /\ c \in Requests /\ c \in Bulks
      /\ pc \in [Requests -> Labels] /\ DOMAIN out = Requests
      /\ tasks \in [Requests -> SUBSET Task] /\ c \notin Posts /\ c \notin Wholes
  BY RequestAssumption, WorkKnown DEF TypeOK, RequestsOK
<1> DEFINE Uploads == \A t \in tasks'[c] : t[1] # "index" =>
                         pc'[c] = "uploading" /\ t[2].dir = job[c].session
<1> SUFFICES Uploads
  <2>1. ~Answered(c)
    BY OwnStep DEF Answered
  <2> QED BY <1>0, <2>1, OwnStep, QuietMoved DEF FolderOf, storage
<1>1. ASSUME tasks' = tasks, tasks[c] = {}
      PROVE  Uploads
  BY <1>1
<1> HIDE DEF Uploads
<1>2. CASE ListMetas(c)
  BY <1>0, <1>1, <1>2 DEF ListMetas, TasksKnown, QuietLabels
<1>3. CASE LoadPrevious(c)
  BY <1>0, <1>1, <1>3 DEF LoadPrevious, TasksKnown, QuietLabels
<1>4. CASE FindConflicts(c)
  BY <1>0, <1>1, <1>4 DEF FindConflicts, TasksKnown, QuietLabels
<1>5. CASE NextGroup(c)
  BY <1>0, <1>1, <1>5 DEF NextGroup, TasksKnown, QuietLabels
<1>6. CASE \E i \in job[c].fetch : FetchChunk(c, i)
  BY <1>0, <1>1, <1>6 DEF FetchChunk, TasksKnown, QuietLabels
<1>7. CASE \E f \in job[c].buffer : MergeChunk(c, f)
  BY <1>0, <1>1, <1>7 DEF MergeChunk, TasksKnown, QuietLabels
<1>8. CASE UploadResolved(c)
  <2> DEFINE chunks == {ChunkAt(job[c].session, d) : d \in SplitIntoChunks(job[c].merged)}
  <2>1. tasks' = [tasks EXCEPT ![c] = UploadTasks(chunks)] /\ pc' = [pc EXCEPT ![c] = "uploading"]
    BY <1>8 DEF UploadResolved, UploadInto, Goto
  <2>2. \A k \in chunks : k.dir = job[c].session
    BY DEF ChunkAt
  <2> HIDE DEF chunks
  <2> QED BY <1>0, <2>1, <2>2 DEF UploadTasks, Uploads
<1>9. CASE GroupResolved(c)
  BY <1>0, <1>1, <1>9 DEF GroupResolved
<1>10. CASE BuildIndex(c)
  BY <1>0, <1>1, <1>10 DEF BuildIndex, TasksKnown, QuietLabels
<1>11. ASSUME pc[c] = "indexing", \A t \in tasks'[c] : t \in tasks[c] \/ t[1] = "index"
       PROVE  Uploads
  BY <1>0, <1>11 DEF QuietInv, StoresQuiet, Uploads, Answered
<1>12. CASE \E k \in job[c].load : LoadIndex(c, k)
  BY <1>0, <1>11, <1>12 DEF LoadIndex
<1>13. CASE \E k \in job[c].rebuild : RebuildIndex(c, k)
  BY <1>0, <1>11, <1>13 DEF RebuildIndex
<1>14. CASE SaveCatalog(c)
  BY <1>0, <1>11, <1>14 DEF SaveCatalog
<1> QED BY <1>2, <1>3, <1>4, <1>5, <1>6, <1>7, <1>8, <1>9, <1>10, <1>12, <1>13, <1>14
        DEF Resolve, Index

(* Saving a bulk stores no chunk.                                            *)
LEMMA SaveQuiet ==
    ASSUME TypeOK, QuietInv, Save \/ \E c \in Commits : PutBulkIndex(c)
    PROVE  QuietInv'
<1>0. /\ Bulks \subseteq Requests /\ Posts \cap Bulks = {} /\ pc \in [Requests -> Labels]
      /\ Wholes \subseteq Bulks /\ Posts \subseteq Requests
  BY RequestAssumption DEF Requests, Bulks, TypeOK, RequestsOK
<1>1. ASSUME NEW b \in Bulks, BulkAck(b)
      PROVE  QuietInv'
  <2>1. /\ pc' = [pc EXCEPT ![b] = "acked"] /\ pc[b] = "saving" /\ tasks[b] = {}
        /\ UNCHANGED <<data, tasks, out, job, before>>
    BY <1>1 DEF BulkAck, Goto, storage
  <2>2. b \in Wholes => \A k \in DOMAIN out'[b] : k.dir = b
    BY <2>1 DEF QuietInv, StoresInFolder
  <2> QED BY <1>0, <2>1, <2>2, QuietMoved DEF Answered
<1>2. ASSUME UNCHANGED <<data, pc, tasks, out, job, before>>
      PROVE  QuietInv'
  BY <1>2 DEF QuietInv, StoresQuiet, StoresInFolder, FolderOf, NothingYet, LastHeld, Answered, MayStore
<1> QED BY <1>1, <1>2 DEF Save, PutCatalog, PutBulkIndex

(* No failure is within the bound. *)
LEMMA NoFailure ==
    ASSUME TypeOK, MaxFailures = 0, Failure
    PROVE  FALSE
<1>1. failures \in 0 .. 0 /\ Bulks \subseteq Requests
  BY DEF TypeOK, RequestsOK, Requests
<1>2. failures < MaxFailures
  BY DEF Failure, Crash, FailTask, FailRead, FailSave
<1> QED BY <1>1, <1>2

(* The invariant of the uploads, when nothing fails. *)
THEOREM QuietInvariance == ASSUME MaxFailures = 0 PROVE Spec => []QuietInv
<1>1. Init => QuietInv
  <2> SUFFICES ASSUME Init PROVE QuietInv
    OBVIOUS
  <2>1. /\ \A r \in Requests : pc[r] = "idle" /\ tasks[r] = {} /\ DOMAIN out[r] = {} /\ before[r] = {}
        /\ \A c \in Commits : job[c] = NoJob
        /\ Posts \subseteq Requests /\ Bulks \subseteq Requests /\ Wholes \subseteq Requests
    BY DEF Init, Requests, Bulks
  <2> QED BY <2>1 DEF QuietInv, StoresQuiet, StoresInFolder, NothingYet, LastHeld, Answered
<1>2. Inv /\ QuietInv /\ [Next]_vars => QuietInv'
  <2> SUFFICES ASSUME Inv, QuietInv, [Next]_vars PROVE QuietInv'
    OBVIOUS
  <2>1. TypeOK /\ TasksKnown
    BY DEF Inv
  <2>2. CASE Upload
    BY <2>1, <2>2, UploadQuiet
  <2>3. CASE PostStep
    BY <2>1, <2>3, PostQuiet
  <2>4. CASE Complete
    BY <2>1, <2>4, CommitQuiet
  <2>5. ASSUME NEW w \in Wholes, PostWhole(w)
        PROVE  QuietInv'
    BY <2>1, <2>5, PostWholeQuiet
  <2>6. ASSUME NEW c \in Commits, Resolve(c) \/ Index(c)
        PROVE  QuietInv'
    BY <2>1, <2>6, OwnQuiet
  <2>7. CASE Save \/ \E c \in Commits : PutBulkIndex(c)
    BY <2>1, <2>7, SaveQuiet
  <2>8. ~Failure
    BY <2>1, NoFailure
  <2>9. CASE UNCHANGED vars
    BY <2>9 DEF vars, storage, QuietInv, StoresQuiet, StoresInFolder, FolderOf, NothingYet,
                LastHeld, Answered, MayStore
  <2> QED BY <2>2, <2>3, <2>4, <2>5, <2>6, <2>7, <2>8, <2>9 DEF Next
<1> QED BY <1>1, <1>2, Invariance, PTL DEF Spec

(* A file holds the last post of it that was acknowledged, when no other     *)
(* request that may store it was under way: nothing of them is left to store. *)
THEOREM LastWins == ASSUME MaxFailures = 0 PROVE Spec => []LastComeWins
<1>1. Inv /\ QuietInv => LastComeWins
  <2> SUFFICES ASSUME Inv, QuietInv, NEW p \in Posts, NEW k \in DOMAIN out[p], pc[p] = "acked",
                      \A r \in Requests \ {p} : MayStore(r, k) => r \in before[p]
               PROVE  k \in DOMAIN data /\ data[k] = out[p][k]
    BY DEF LastComeWins
  <2>1. tasks[p] = {}
    BY DEF Inv, TasksKnown, QuietLabels, Requests
  <2> QED BY <2>1 DEF QuietInv, LastHeld
<1> QED BY <1>1, Invariance, QuietInvariance, PTL

-----------------------------------------------------------------------------
(* Reading a bulk *)

(* What a step does to each request and to each part of the storage, unless  *)
(* it is a failure.                                                          *)
LEMMA StepsButFailures ==
    ASSUME Inv, [Next]_vars, ~Failure
    PROVE  /\ \A c \in Commits :
                \/ Resolve(c) \/ Index(c)
                \/ \E s \in Sessions : \E prev \in UpdateFrom(s) : Commit(c, s, prev)
                \/ job'[c] = job[c] /\ out'[c] = out[c] /\ (pc'[c] = pc[c] \/ BulkAck(c))
           /\ \A p \in Posts : \/ \E s \in Sessions : PostChunk(p, s)
                               \/ out'[p] = out[p] /\ (pc'[p] = pc[p] \/ PostAck(p))
           /\ \A w \in Wholes : \/ PostWhole(w)
                                \/ out'[w] = out[w] /\ (pc'[w] = pc[w] \/ BulkAck(w))
           /\ \A r \in Requests : pc[r] = "idle" \/ before'[r] = before[r]
           /\ data' = data \/ \E r \in Requests : \E k \in DOMAIN out[r] : PutData(r, k)
           /\ metas' = metas \/ \E r \in Requests : \E k \in DOMAIN out[r] : PutMeta(r, k)
           /\ catalogs' = catalogs \/ \E b \in Bulks : PutCatalog(b)
           /\ bulkIndex' = bulkIndex \/ \E c \in Commits : PutBulkIndex(c)
           /\ \A r \in Requests : \A k : <<"data", k>> \in tasks[r] =>
                <<"data", k>> \in tasks'[r] \/ PutData(r, k)
           /\ indexes' = indexes \/ \E r \in Requests : \E k \in DOMAIN out[r] : PutIndex(r, k)
<1>0. /\ job \in [Commits -> Job] /\ pc \in [Requests -> Labels] /\ DOMAIN out = Requests
      /\ tasks \in [Requests -> SUBSET Task] /\ before \in [Requests -> SUBSET Requests]
      /\ Requests = Posts \cup Commits \cup Wholes /\ Bulks = Commits \cup Wholes
      /\ Posts \cap Bulks = {} /\ Commits \cap Wholes = {} /\ TypeOK /\ TasksKnown
  BY RequestAssumption DEF Inv, TypeOK, RequestsOK, Requests, Bulks
<1>1. CASE Upload
  <2>1. PICK r \in Requests : \E t \in tasks[r] :
          PutMeta(r, t[2]) \/ PutData(r, t[2]) \/ ListIndex(r, t[2]) \/ PutIndex(r, t[2])
    BY <1>1 DEF Upload
  <2>2. PICK t \in tasks[r] :
          PutMeta(r, t[2]) \/ PutData(r, t[2]) \/ ListIndex(r, t[2]) \/ PutIndex(r, t[2])
    BY <2>1
  <2>3. t[2] \in DOMAIN out[r]
    BY <1>0 DEF TasksKnown
  <2>4. /\ UNCHANGED <<pc, out, job, before, catalogs, bulkIndex>>
        /\ data' = data \/ PutData(r, t[2])
        /\ metas' = metas \/ PutMeta(r, t[2])
        /\ indexes' = indexes \/ PutIndex(r, t[2])
    BY <2>2 DEF PutMeta, PutData, ListIndex, PutIndex, storage
  <2>5. \A q \in Requests : \A k : <<"data", k>> \in tasks[q] =>
          <<"data", k>> \in tasks'[q] \/ PutData(q, k)
    <3> DEFINE l == t[2]
    <3> SUFFICES ASSUME NEW q \in Requests, NEW k, <<"data", k>> \in tasks[q],
                        <<"data", k>> \notin tasks'[q]
                 PROVE  PutData(q, k)
      OBVIOUS
    <3>1. PutMeta(r, l) \/ PutData(r, l) \/ ListIndex(r, l) \/ PutIndex(r, l)
      BY <2>2
    <3> HIDE DEF l
    <3>2. ~PutMeta(r, l) /\ ~ListIndex(r, l) /\ ~PutIndex(r, l)
      BY <1>0 DEF PutMeta, ListIndex, PutIndex, Done
    <3>3. PutData(r, l) /\ q = r /\ k = l
      BY <1>0, <3>1, <3>2 DEF PutData, Done
    <3> QED BY <3>3
  <2> QED BY <1>0, <2>3, <2>4, <2>5
<1>2. ASSUME NEW p \in Posts, NEW s \in Sessions, PostChunk(p, s)
      PROVE  /\ UNCHANGED <<storage, job>> /\ pc[p] = "idle" /\ tasks[p] = {}
             /\ \A q \in Requests \ {p} : /\ out'[q] = out[q] /\ pc'[q] = pc[q]
                                          /\ before'[q] = before[q] /\ tasks'[q] = tasks[q]
  <2>1. pc[p] = "idle" /\ p \in Requests
    BY <1>0, <1>2 DEF PostChunk
  <2> QED BY <1>0, <1>2, <2>1 DEF PostChunk, Goto, Sent, TasksKnown, QuietLabels
<1>3. CASE \E p \in Posts : \E s \in Sessions : PostChunk(p, s)
  BY <1>0, <1>2, <1>3 DEF storage
<1>4. ASSUME NEW p \in Posts, PostAck(p)
      PROVE  /\ UNCHANGED <<storage, job, out, before, tasks>>
             /\ \A q \in Requests \ {p} : pc'[q] = pc[q]
  BY <1>0, <1>4 DEF PostAck, Goto
<1>5. CASE \E p \in Posts : PostAck(p)
  BY <1>0, <1>4, <1>5 DEF storage
<1>6. ASSUME NEW w \in Wholes, PostWhole(w)
      PROVE  /\ UNCHANGED <<storage, job>> /\ pc[w] = "idle" /\ tasks[w] = {}
             /\ \A q \in Requests \ {w} : /\ out'[q] = out[q] /\ pc'[q] = pc[q]
                                          /\ before'[q] = before[q] /\ tasks'[q] = tasks[q]
  <2>1. pc[w] = "idle" /\ w \in Requests
    BY <1>0, <1>6 DEF PostWhole
  <2> QED BY <1>0, <1>6, <2>1 DEF PostWhole, Goto, Sent, TasksKnown, QuietLabels
<1>7. CASE \E w \in Wholes : PostWhole(w)
  BY <1>0, <1>6, <1>7 DEF storage
<1>8. ASSUME NEW c \in Commits, NEW s \in Sessions, NEW prev \in UpdateFrom(s), Commit(c, s, prev)
      PROVE  /\ UNCHANGED <<storage, tasks, out>> /\ pc[c] = "idle"
             /\ \A d \in Commits \ {c} : job'[d] = job[d]
             /\ \A q \in Requests \ {c} : pc'[q] = pc[q] /\ before'[q] = before[q]
  BY <1>0, <1>8 DEF Commit, Goto, Sent
<1>9. CASE Complete
  <2>1. PICK c \in Commits, s \in Sessions : \E prev \in UpdateFrom(s) : Commit(c, s, prev)
    BY <1>9 DEF Complete
  <2>2. PICK prev \in UpdateFrom(s) : Commit(c, s, prev)
    BY <2>1
  <2> QED BY <1>0, <1>8, <2>2 DEF storage
<1>10. CASE \E c \in Commits : Resolve(c) \/ Index(c)
  <2>1. PICK c \in Commits : Resolve(c) \/ Index(c)
    BY <1>10
  <2>2. tasks[c] \subseteq tasks'[c]
    BY <1>0, <2>1, OwnStep DEF TasksKnown, QuietLabels
  <2> QED BY <1>0, <2>1, <2>2, OwnStep DEF storage
<1>11. ASSUME NEW b \in Bulks, BulkAck(b)
       PROVE  /\ UNCHANGED <<storage, job, out, before, tasks>>
              /\ \A q \in Requests \ {b} : pc'[q] = pc[q]
  BY <1>0, <1>11 DEF BulkAck, Goto
<1>12. CASE \E b \in Bulks : BulkAck(b)
  BY <1>0, <1>11, <1>12 DEF storage
<1>13. CASE (\E b \in Bulks : PutCatalog(b)) \/ (\E c \in Commits : PutBulkIndex(c))
  BY <1>0, <1>13 DEF PutCatalog, PutBulkIndex
<1>14. CASE UNCHANGED vars
  BY <1>14 DEF vars, storage
<1> QED BY <1>1, <1>3, <1>5, <1>7, <1>9, <1>10, <1>12, <1>13, <1>14
        DEF Next, PostStep, Save

(* What a step does to the commits, to what is saved and to the chunks,      *)
(* whatever fails.                                                           *)
LEMMA AnyStep ==
    ASSUME Inv, [Next]_vars
    PROVE  /\ \A c \in Commits :
                \/ Resolve(c) \/ Index(c)
                \/ \E s \in Sessions : \E prev \in UpdateFrom(s) : Commit(c, s, prev)
                \/ /\ job'[c] = job[c] /\ out'[c] = out[c]
                   /\ pc'[c] = pc[c] \/ pc'[c] = "failed" \/ BulkAck(c)
           /\ \A p \in Posts : out'[p] = out[p] \/ \E s \in Sessions : PostChunk(p, s)
           /\ \A w \in Wholes : out'[w] = out[w] \/ PostWhole(w)
           /\ data' = data \/ \E r \in Requests : \E k \in DOMAIN out[r] : PutData(r, k)
           /\ indexes' = indexes \/ \E r \in Requests : \E k \in DOMAIN out[r] : PutIndex(r, k)
           /\ catalogs' = catalogs \/ \E b \in Bulks : PutCatalog(b)
           /\ bulkIndex' = bulkIndex \/ \E c \in Commits : PutBulkIndex(c)
<1>1. CASE Failure
  <2>1. UNCHANGED <<storage, job, out>>
    BY <1>1 DEF Failure, Crash, FailTask, FailRead, FailSave
  <2>2. \A c \in Commits : pc'[c] = pc[c] \/ pc'[c] = "failed"
    BY <1>1 DEF Failure, Crash, FailTask, FailRead, FailSave, Goto, Inv, TypeOK, RequestsOK,
                Requests, Bulks
  <2> QED BY <2>1, <2>2 DEF storage
<1>2. CASE ~Failure
  BY <1>2, StepsButFailures
<1> QED BY <1>1, <1>2

(* What a step does when nothing fails. *)
LEMMA Steps ==
    ASSUME Inv, MaxFailures = 0, [Next]_vars
    PROVE  /\ \A c \in Commits :
                \/ Resolve(c) \/ Index(c)
                \/ \E s \in Sessions : \E prev \in UpdateFrom(s) : Commit(c, s, prev)
                \/ job'[c] = job[c] /\ out'[c] = out[c] /\ (pc'[c] = pc[c] \/ BulkAck(c))
           /\ \A p \in Posts : \/ \E s \in Sessions : PostChunk(p, s)
                               \/ out'[p] = out[p] /\ (pc'[p] = pc[p] \/ PostAck(p))
           /\ \A w \in Wholes : \/ PostWhole(w)
                                \/ out'[w] = out[w] /\ (pc'[w] = pc[w] \/ BulkAck(w))
           /\ \A r \in Requests : pc[r] = "idle" \/ before'[r] = before[r]
           /\ data' = data \/ \E r \in Requests : \E k \in DOMAIN out[r] : PutData(r, k)
           /\ metas' = metas \/ \E r \in Requests : \E k \in DOMAIN out[r] : PutMeta(r, k)
           /\ catalogs' = catalogs \/ \E b \in Bulks : PutCatalog(b)
           /\ bulkIndex' = bulkIndex \/ \E c \in Commits : PutBulkIndex(c)
           /\ \A r \in Requests : \A k : <<"data", k>> \in tasks[r] =>
                <<"data", k>> \in tasks'[r] \/ PutData(r, k)
           /\ indexes' = indexes \/ \E r \in Requests : \E k \in DOMAIN out[r] : PutIndex(r, k)
BY NoFailure, StepsButFailures DEF Inv

(* A request that is answered stays as it is, and one that has begun keeps   *)
(* what it was called with.                                                  *)
LEMMA Begun ==
    ASSUME Inv, MaxFailures = 0, [Next]_vars
    PROVE  /\ \A r \in Requests : Answered(r) => pc'[r] = pc[r]
           /\ \A r \in Requests : pc[r] # "idle" =>
                /\ pc'[r] # "idle" /\ (r \in Commits \/ out'[r] = out[r])
                /\ r \in Commits => /\ job'[r].session = job[r].session
                                    /\ job'[r].prev = job[r].prev
                                    /\ FolderOf(r)' = FolderOf(r)
           /\ \A c \in Commits : Answered(c) => job'[c] = job[c]
           /\ DOMAIN data \subseteq DOMAIN data'
<1>0. /\ Requests = Posts \cup Commits \cup Wholes /\ Bulks = Commits \cup Wholes
      /\ pc \in [Requests -> Labels] /\ TypeOK
  BY DEF Inv, TypeOK, RequestsOK, Requests, Bulks
<1>1. ASSUME NEW c \in Commits, Resolve(c) \/ Index(c)
      PROVE  ~Answered(c) /\ pc'[c] # "idle" /\ job'[c].session = job[c].session
             /\ job'[c].prev = job[c].prev
  BY <1>0, <1>1, OwnStep DEF Answered
<1>2. \A b \in Bulks : BulkAck(b) => ~Answered(b) /\ pc'[b] = "acked"
  BY <1>0 DEF BulkAck, Answered, Goto
<1>3. \A c \in Commits : \A s : \A prev : Commit(c, s, prev) => pc[c] = "idle"
  BY DEF Commit
<1>4. \A p \in Posts : /\ \A s : PostChunk(p, s) => pc[p] = "idle"
                       /\ PostAck(p) => ~Answered(p) /\ pc'[p] = "acked"
  BY <1>0 DEF PostChunk, PostAck, Answered, Goto
<1>5. \A w \in Wholes : PostWhole(w) => pc[w] = "idle"
  BY DEF PostWhole
<1>6. DOMAIN data \subseteq DOMAIN data'
  BY Steps DEF PutData, Put
<1>7. \A r \in Requests : pc[r] = "idle" => ~Answered(r)
  BY DEF Answered
<1>8. ASSUME NEW c \in Commits
      PROVE  /\ Answered(c) => pc'[c] = pc[c] /\ job'[c] = job[c]
             /\ pc[c] # "idle" => /\ pc'[c] # "idle" /\ job'[c].session = job[c].session
                                  /\ job'[c].prev = job[c].prev
  BY <1>0, <1>1, <1>2, <1>3, <1>7, Steps
<1>9. ASSUME NEW p \in Posts
      PROVE  /\ Answered(p) => pc'[p] = pc[p]
             /\ pc[p] # "idle" => pc'[p] # "idle" /\ out'[p] = out[p]
  BY <1>0, <1>4, <1>7, Steps
<1>10. ASSUME NEW w \in Wholes
       PROVE  /\ Answered(w) => pc'[w] = pc[w]
              /\ pc[w] # "idle" => pc'[w] # "idle" /\ out'[w] = out[w]
  BY <1>0, <1>2, <1>5, <1>7, Steps
<1> QED BY <1>0, <1>6, <1>8, <1>9, <1>10 DEF FolderOf

(* A folder sealed by an acknowledged bulk is so from then on. *)
LEMMA SealedStays ==
    ASSUME Inv, MaxFailures = 0, [Next]_vars, NEW dir, Sealed(dir)
    PROVE  Sealed(dir)'
<1>1. PICK b \in Bulks : pc[b] = "acked" /\ FolderOf(b) = dir
  BY DEF Sealed, AckedBulks
<1>2. b \in Requests /\ pc'[b] = "acked"
  BY <1>1, Begun DEF Requests, Answered
<1>3. FolderOf(b)' = FolderOf(b)
  BY <1>1, <1>2, Begun DEF FolderOf
<1> QED BY <1>1, <1>2, <1>3 DEF Sealed, AckedBulks

(* Who stores into the folder of a session that is being committed is that   *)
(* commit, and nobody does into the folder of an acknowledged bulk.          *)
LEMMA StorerKnown ==
    ASSUME Inv, QuietInv, SessionsClosed, NEW r \in Requests, NEW k, <<"data", k>> \in tasks[r]
    PROVE  /\ \A c \in Commits : pc[c] \notin {"idle", "failed"} /\ job[c].session = k.dir =>
                r = c /\ pc[c] = "uploading"
           /\ ~Sealed(k.dir)
<1>0. /\ Requests = Posts \cup Commits \cup Wholes /\ Bulks = Commits \cup Wholes
      /\ Sessions \cap Wholes = {} /\ Commits \cap Wholes = {} /\ k \in DOMAIN out[r]
  BY RequestAssumption DEF Inv, TasksKnown, Requests, Bulks
<1>1. ~Answered(r) /\ (r \in Commits => pc[r] = "uploading")
  BY DEF QuietInv, StoresQuiet
<1>2. /\ r \in Bulks => k.dir = FolderOf(r)
      /\ r \in Posts => k.dir \in Sessions
  <2>1. r \in Bulks => \A t \in tasks[r] : t[1] = "index" \/ t[2].dir = FolderOf(r)
    BY DEF QuietInv, StoresInFolder
  <2> QED BY <1>0, <2>1 DEF QuietInv, StoresInFolder
<1>3. ASSUME NEW c \in Commits, pc[c] \notin {"idle", "failed"}, job[c].session = k.dir
      PROVE  r = c /\ pc[c] = "uploading"
  <2>1. k.dir \in Sessions /\ c \in CommitsOf(k.dir)
    BY <1>3 DEF Inv, JobsStored, CommitsOf
  <2>2. r \notin Posts
    BY <1>0, <1>1, <2>1 DEF SessionsClosed, PostsOf
    \* a post into the session was answered before
  <2>3. r \notin Wholes
    BY <1>0, <1>2, <2>1 DEF FolderOf
  <2>4. r \in CommitsOf(k.dir)
    BY <1>0, <1>2, <2>2, <2>3 DEF FolderOf, CommitsOf
  <2> QED BY <1>0, <1>1, <1>3, <2>1, <2>2, <2>3, <2>4 DEF SessionsClosed, Answered
<1>4. ASSUME NEW b \in Bulks, pc[b] = "acked", FolderOf(b) = k.dir
      PROVE  FALSE
  <2>1. CASE b \in Commits
    BY <1>3, <1>4, <2>1 DEF FolderOf
  <2>2. CASE b \in Wholes
    <3>1. k.dir = b
      BY <1>0, <1>4, <2>2 DEF FolderOf
    <3>2. r \in Commits => k.dir \in Sessions
      BY <1>0, <1>1, <1>2 DEF FolderOf, Inv, JobsStored
    <3>3. r \in Wholes => r = b
      BY <1>0, <1>2, <3>1 DEF FolderOf
    <3> QED BY <1>0, <1>1, <1>2, <1>4, <2>2, <3>1, <3>2, <3>3 DEF Answered
  <2> QED BY <1>0, <1>4, <2>1, <2>2
<1> QED BY <1>3, <1>4 DEF Sealed, AckedBulks

(* The rules of the session protocol, kept. *)
LEMMA ClosedStays ==
    ASSUME Inv, QuietInv, SealedInv, Orderly, [Next]_vars
    PROVE  SessionsClosed'
<1>0. /\ Posts \subseteq Requests /\ Commits \subseteq Requests /\ MaxFailures = 0
      /\ job \in [Commits -> Job] /\ pc \in [Requests -> Labels] /\ DOMAIN out = Requests
      /\ None \notin Sessions /\ NothingYet /\ SessionsClosed
      /\ Posts \cap Commits = {}
  BY RequestAssumption DEF Inv, TypeOK, RequestsOK, Requests, Bulks, Orderly, QuietInv, SealedInv
<1> SUFFICES ASSUME NEW s \in Sessions, NEW c \in CommitsOf(s)'
             PROVE  /\ \A p \in PostsOf(s)' : Answered(p)'
                    /\ \A d \in CommitsOf(s)' : c = d \/ pc'[c] = "failed" \/ pc'[d] = "failed"
  BY DEF SessionsClosed
<1>1. \A r \in Requests : Answered(r) => Answered(r)' /\ pc'[r] = pc[r]
  BY <1>0, Begun DEF Answered
<1>2. ASSUME NEW d \in Commits, d \in CommitsOf(s)', d \notin CommitsOf(s)
      PROVE  /\ \A p \in PostsOf(s) : Answered(p)
             /\ \A e \in CommitsOf(s) : pc[e] = "failed"
             /\ out' = out /\ \A e \in Commits \ {d} : job'[e] = job[e] /\ pc'[e] = pc[e]
  <2>1. job'[d].session = s /\ job[d].session # s
    BY <1>2 DEF CommitsOf
  <2>2. PICK t \in Sessions : \E prev \in UpdateFrom(t) : Commit(d, t, prev)
    BY <1>0, <2>1, Steps, OwnStep DEF Inv
  <2>3. PICK prev \in UpdateFrom(t) : Commit(d, t, prev)
    BY <2>2
  <2>4. job'[d].session = t /\ MayCommit(t)
    BY <1>0, <2>3 DEF Commit, NoJob
  <2> QED BY <1>0, <2>1, <2>3, <2>4 DEF Commit, Goto, MayCommit, Orderly
<1>3. ASSUME NEW p \in Posts, p \in PostsOf(s)', p \notin PostsOf(s)
      PROVE  CommitsOf(s)' = {}
  <2>1. PICK k \in DOMAIN out'[p] : k.dir = s
    BY <1>3 DEF PostsOf
  <2>2. PICK t \in Sessions : PostChunk(p, t)
    BY <1>0, <1>3, <2>1, Steps DEF PostsOf
  <2>3. PICK shape \in PostShapes(t) :
          out' = [out EXCEPT ![p] = Put(<<>>, ChunkAt(t, FilledBy(p, shape)), FilledBy(p, shape))]
    BY <2>2 DEF PostChunk
  <2> DEFINE l == ChunkAt(t, FilledBy(p, shape))
  <2>4. k = l /\ l.dir = t
    BY <1>0, <2>1, <2>3 DEF Put, ChunkAt
  <2>5. CommitsOf(t) = {} /\ job' = job
    BY <1>0, <2>2 DEF PostChunk, MayPost, Orderly
  <2> QED BY <2>1, <2>4, <2>5 DEF CommitsOf
<1>4. ASSUME NEW p \in PostsOf(s)'
      PROVE  Answered(p)'
  <2>1. p \in Posts /\ p \in PostsOf(s)
    BY <1>3 DEF PostsOf
  <2>2. Answered(p)
    BY <1>0, <1>2, <2>1 DEF SessionsClosed, CommitsOf
  <2> QED BY <1>0, <1>1, <2>1, <2>2
<1>5. ASSUME NEW d \in CommitsOf(s)', c # d
      PROVE  pc'[c] = "failed" \/ pc'[d] = "failed"
  <2>0. c \in Commits /\ d \in Commits
    BY DEF CommitsOf
  <2>1. CASE c \in CommitsOf(s) /\ d \in CommitsOf(s)
    <3>1. pc[c] = "failed" \/ pc[d] = "failed"
      BY <1>0, <1>5, <2>1 DEF SessionsClosed
    <3> QED BY <1>0, <1>1, <2>0, <3>1 DEF Answered
  <2>2. CASE c \notin CommitsOf(s)
    BY <1>2, <1>5, <2>0, <2>2 DEF CommitsOf
  <2>3. CASE d \notin CommitsOf(s)
    BY <1>2, <1>5, <2>0, <2>3 DEF CommitsOf
  <2> QED BY <2>1, <2>2, <2>3
<1> QED BY <1>4, <1>5

(* A meta is stored by a request that stores the data too, and is not failed. *)
LEMMA FollowedStays ==
    ASSUME Inv, QuietInv, SealedInv, MaxFailures = 0, [Next]_vars
    PROVE  MetasFollowed'
<1>1. ASSUME NEW k, k \in DOMAIN data \/ \E r \in Requests : <<"data", k>> \in tasks[r]
      PROVE  k \in DOMAIN data' \/ \E r \in Requests : <<"data", k>> \in tasks'[r]
  <2>1. k \in DOMAIN data => k \in DOMAIN data'
    BY Begun
  <2>2. ASSUME NEW r \in Requests, <<"data", k>> \in tasks[r]
        PROVE  <<"data", k>> \in tasks'[r] \/ k \in DOMAIN data'
    <3>1. PutData(r, k) => k \in DOMAIN data'
      BY DEF PutData, Put
    <3> QED BY <2>2, <3>1, Steps
  <2> QED BY <1>1, <2>1, <2>2
<1>2. ASSUME NEW k \in metas', k \notin metas
      PROVE  k \in DOMAIN data \/ \E r \in Requests : <<"data", k>> \in tasks[r]
  <2>1. PICK r \in Requests : \E l \in DOMAIN out[r] : PutMeta(r, l)
    BY <1>2, Steps
  <2>2. PICK l \in DOMAIN out[r] : PutMeta(r, l)
    BY <2>1
  <2>3. k = l /\ <<"meta", k>> \in tasks[r]
    BY <1>2, <2>2 DEF PutMeta
  <2>4. pc[r] # "failed"
    <3>1. pc[r] = "failed" => <<"meta", k>>[1] = "index"
      BY <2>3 DEF QuietInv, StoresQuiet, Answered
    <3> QED BY <3>1
  <2> QED BY <2>2, <2>3, <2>4 DEF Inv, UploadsTracked
<1> QED BY <1>1, <1>2 DEF MetasFollowed, SealedInv

(* So are the chunks of a catalog. *)
LEMMA CatalogsReachStays ==
    ASSUME Inv, Inv', QuietInv, SealedInv, MaxFailures = 0, [Next]_vars
    PROVE  CatalogsInReach'
<1>0. /\ Bulks = Commits \cup Wholes /\ Bulks \subseteq Requests /\ Commits \cap Wholes = {}
      /\ \A c \in Commits : InReach(c)
      /\ DOMAIN data \subseteq DOMAIN data'
  BY RequestAssumption, Begun DEF SealedInv, Requests, Bulks
<1> SUFFICES ASSUME NEW b \in DOMAIN catalogs', b \in Bulks
             PROVE  /\ \A k \in catalogs'[b].chunks : k.dir = FolderOf(b)' \/ Sealed(k.dir)'
                    /\ b \in Commits \/ pc'[b] = "acked" => catalogs'[b].chunks \subseteq DOMAIN data'
  BY DEF CatalogsInReach, Inv, TypeOK, StorageOK
<1>1. CASE b \in DOMAIN catalogs /\ catalogs'[b] = catalogs[b]
  <2>1. FolderOf(b)' = FolderOf(b)
    <3>1. pc[b] # "idle"
      BY <1>1 DEF Inv, SavesTracked
    <3> QED BY <1>0, <3>1, Begun DEF FolderOf
  <2>2. \A k \in catalogs[b].chunks : k.dir = FolderOf(b) \/ Sealed(k.dir)
    BY <1>1 DEF SealedInv, CatalogsInReach
  <2>3. CASE b \in Commits \/ pc[b] = "acked"
    BY <1>0, <1>1, <2>1, <2>2, <2>3, SealedStays DEF SealedInv, CatalogsInReach
  <2>4. CASE b \in Wholes /\ pc[b] # "acked"
    <3>1. ASSUME pc'[b] = "acked"
          PROVE  catalogs[b].chunks \subseteq DOMAIN data
      <4>1. BulkAck(b)
        BY <1>1, <2>4, <3>1, Steps DEF PostWhole, Inv, SavesTracked
      <4>2. tasks[b] = {} /\ pc[b] # "failed"
        BY <4>1 DEF BulkAck
      <4>3. catalogs[b].chunks \subseteq DOMAIN out[b]
        BY <1>1, <2>4 DEF Inv, CatalogsTracked
      <4> QED BY <1>0, <4>2, <4>3 DEF Inv, UploadsTracked
    <3> QED BY <1>0, <1>1, <2>1, <2>2, <2>4, <3>1, SealedStays
  <2> QED BY <1>0, <2>3, <2>4
<1>2. CASE ~(b \in DOMAIN catalogs /\ catalogs'[b] = catalogs[b])
  <2>1. PutCatalog(b)
    <3>1. PICK a \in Bulks : PutCatalog(a)
      BY <1>2, Steps
    <3>2. catalogs' = Put(catalogs, a, CatalogOf(a))
      BY <3>1 DEF PutCatalog
    <3>3. a # b => b \in DOMAIN catalogs /\ catalogs'[b] = catalogs[b]
      BY <3>2 DEF Put
    <3> QED BY <1>2, <3>1, <3>3
  <2>2. catalogs'[b] = CatalogOf(b) /\ UNCHANGED <<data, job, pc, out>> /\ pc[b] # "acked"
    BY <2>1 DEF PutCatalog, Put, Inv, SavesTracked
  <2>3. CASE b \in Commits
    <3>1. catalogs'[b].chunks = job[b].chunks
      BY <2>2, <2>3 DEF CatalogOf
    <3>2. FolderOf(b)' = job[b].session
      BY <2>2, <2>3 DEF FolderOf
    <3> QED BY <1>0, <2>2, <2>3, <3>1, <3>2, SealedStays DEF InReach
  <2>4. CASE b \in Wholes
    <3>1. catalogs'[b].chunks = DOMAIN out[b] /\ FolderOf(b)' = b
      BY <1>0, <2>2, <2>4 DEF CatalogOf, FolderOf
    <3> QED BY <1>0, <2>2, <2>4, <3>1 DEF QuietInv, StoresInFolder
  <2> QED BY <1>0, <2>3, <2>4
<1> QED BY <1>1, <1>2

(* The chunks a commit may keep, and the items it may merge. *)
Keeps(c, k)  == k \in DOMAIN data /\ (k.dir = job[c].session \/ Sealed(k.dir))
Merges(c, i) == /\ i.chunk \in DOMAIN data
                /\ IF i.old THEN Sealed(i.chunk.dir) ELSE i.chunk.dir = job[c].session

(* A step of a commit that keeps within reach. *)
LEMMA ReachMoved ==
    ASSUME Inv, MaxFailures = 0, [Next]_vars, NEW c \in Commits, InReach(c),
           job'[c].session = job[c].session,
           \A k \in job'[c].chunks : k \in job[c].chunks \/ Keeps(c, k),
           \A i \in ItemsAt(c)' : i \in ItemsAt(c) \/ Merges(c, i),
           job'[c].load \cup job'[c].rebuild \subseteq job'[c].chunks,
           pc'[c] = "uploading" =>
             \/ pc[c] = "uploading" /\ out'[c] = out[c]
             \/ \A k \in DOMAIN out'[c] : k.dir = job[c].session
    PROVE  InReach(c)'
<1>0. DOMAIN data \subseteq DOMAIN data'
  BY Begun
<1>1. \A k \in job'[c].chunks : k \in DOMAIN data' /\ (k.dir = job'[c].session \/ Sealed(k.dir)')
  BY <1>0, SealedStays DEF Keeps, InReach
<1>2. \A i \in ItemsAt(c)' : /\ i.chunk \in DOMAIN data'
                             /\ IF i.old THEN Sealed(i.chunk.dir)' ELSE i.chunk.dir = job'[c].session
  <2> SUFFICES ASSUME NEW i \in ItemsAt(c)'
               PROVE  /\ i.chunk \in DOMAIN data'
                      /\ IF i.old THEN Sealed(i.chunk.dir)' ELSE i.chunk.dir = job'[c].session
    OBVIOUS
  <2>1. Merges(c, i)
    BY DEF Merges, InReach
  <2> QED BY <1>0, <2>1, SealedStays DEF Merges
<1> QED BY <1>1, <1>2 DEF InReach

(* A commit lists its session when nobody stores into it any more. *)
LEMMA ListReach ==
    ASSUME Inv, QuietInv, SealedInv, MaxFailures = 0, [Next]_vars, NEW c \in Commits, ListMetas(c)
    PROVE  InReach(c)'
<1>0. /\ job \in [Commits -> Job] /\ job[c] \in Job /\ c \in Requests /\ InReach(c)
      /\ pc \in [Requests -> Labels]
  BY WorkKnown DEF Inv, TypeOK, RequestsOK, SealedInv
<1> DEFINE found == {k \in metas : k.dir = job[c].session}
<1>1. /\ job' = [job EXCEPT ![c].items = [chunk : found, old : {FALSE}]] /\ pc[c] = "listing"
      /\ pc'[c] # "uploading"
  BY <1>0 DEF ListMetas, Goto
<1>2. ASSUME NEW k \in found
      PROVE  k \in DOMAIN data
  <2>1. ASSUME NEW r \in Requests, <<"data", k>> \in tasks[r]
        PROVE  FALSE
    BY <1>1, <2>1, StorerKnown DEF SealedInv
  <2> QED BY <2>1 DEF SealedInv, MetasFollowed
<1>3. \A i \in [chunk : found, old : {FALSE}] : Merges(c, i)
  BY <1>2 DEF Merges
<1> HIDE DEF found
<1>4. /\ job'[c].chunks = job[c].chunks /\ job'[c].groups = job[c].groups
      /\ job'[c].fetch = job[c].fetch /\ job'[c].load = job[c].load
      /\ job'[c].rebuild = job[c].rebuild /\ job'[c].session = job[c].session
      /\ job'[c].items = [chunk : found, old : {FALSE}]
  BY <1>0, <1>1 DEF Job
<1>5. \A i \in ItemsAt(c)' : i \in ItemsAt(c) \/ Merges(c, i)
  BY <1>3, <1>4 DEF ItemsAt
<1>6. job[c].load \cup job[c].rebuild \subseteq job[c].chunks
  BY <1>0 DEF InReach
<1> QED BY <1>0, <1>1, <1>4, <1>5, <1>6, ReachMoved

(* The catalog of the previous bulk is that of a bulk a client was given. *)
LEMMA PreviousReach ==
    ASSUME Inv, QuietInv, SealedInv, MaxFailures = 0, [Next]_vars, NEW c \in Commits, LoadPrevious(c)
    PROVE  InReach(c)'
<1>0. /\ job \in [Commits -> Job] /\ job[c] \in Job /\ c \in Requests /\ InReach(c)
      /\ pc \in [Requests -> Labels]
  BY WorkKnown DEF Inv, TypeOK, RequestsOK, SealedInv
<1> DEFINE prev  == job[c].prev
           added == [chunk : catalogs[prev].chunks, old : {TRUE}]
<1>1. /\ job' = [job EXCEPT ![c].items = @ \cup added] /\ prev \in DOMAIN catalogs
      /\ pc'[c] = "conflicts"
  BY <1>0 DEF LoadPrevious, Goto
<1>2. prev \in Bulks /\ pc[prev] = "acked"
  BY <1>1, RequestAssumption DEF Inv, JobsStored, TypeOK, StorageOK
<1>3. ASSUME NEW k \in catalogs[prev].chunks
      PROVE  k \in DOMAIN data /\ Sealed(k.dir)
  BY <1>1, <1>2 DEF SealedInv, CatalogsInReach, Sealed, AckedBulks
<1>4. \A i \in added : Merges(c, i)
  BY <1>3 DEF Merges
<1> HIDE DEF added, prev
<1>5. /\ job'[c].chunks = job[c].chunks /\ job'[c].groups = job[c].groups
      /\ job'[c].fetch = job[c].fetch /\ job'[c].load = job[c].load
      /\ job'[c].rebuild = job[c].rebuild /\ job'[c].session = job[c].session
      /\ job'[c].items = job[c].items \cup added
  BY <1>0, <1>1 DEF Job
<1>6. \A i \in ItemsAt(c)' : i \in ItemsAt(c) \/ Merges(c, i)
  BY <1>4, <1>5 DEF ItemsAt
<1>7. job[c].load \cup job[c].rebuild \subseteq job[c].chunks
  BY <1>0 DEF InReach
<1> QED BY <1>0, <1>1, <1>5, <1>6, <1>7, ReachMoved

(* The other steps of a commit. *)
LEMMA OwnReach ==
    ASSUME Inv, QuietInv, SealedInv, MaxFailures = 0, [Next]_vars, NEW c \in Commits,
           Resolve(c) \/ Index(c)
    PROVE  InReach(c)'
<1>0. /\ job \in [Commits -> Job] /\ job[c] \in Job /\ c \in Requests /\ InReach(c)
      /\ pc \in [Requests -> Labels] /\ DOMAIN out = Requests
      /\ job[c].load \cup job[c].rebuild \subseteq job[c].chunks
      /\ \A i \in ItemsAt(c) : Merges(c, i)
  BY WorkKnown DEF Inv, TypeOK, RequestsOK, SealedInv, InReach, Merges
<1> DEFINE Same(j) == /\ j.chunks = job[c].chunks /\ j.load = job[c].load
                      /\ j.rebuild = job[c].rebuild /\ j.session = job[c].session
<1>1. CASE FindConflicts(c)
  <2> DEFINE S == job[c].items
             groups == ConflictGroups(S)
             kept == {i.chunk : i \in S \ UNION groups}
  <2>1. job' = [job EXCEPT ![c].items = {}, ![c].groups = groups, ![c].chunks = kept]
    BY <1>1 DEF FindConflicts
  <2>2. pc'[c] \in {"failed", "resolving"}
    BY <1>0, <1>1 DEF FindConflicts, Goto
  <2>3. \A g \in groups : g \subseteq S
    BY GroupsType
  <2>4. \A k \in kept : Keeps(c, k)
    BY <1>0 DEF ItemsAt, Merges, Keeps
  <2>5. job[c].load = {} /\ job[c].rebuild = {}
    BY <1>0, <1>1 DEF FindConflicts, SealedInv, InStages
  <2> HIDE DEF groups, kept
  <2>6. /\ job'[c].items = {} /\ job'[c].groups = groups /\ job'[c].chunks = kept
        /\ job'[c].fetch = job[c].fetch /\ job'[c].load = job[c].load
        /\ job'[c].rebuild = job[c].rebuild /\ job'[c].session = job[c].session
    BY <1>0, <2>1 DEF Job
  <2>7. \A i \in ItemsAt(c)' : i \in ItemsAt(c)
    BY <2>3, <2>6 DEF ItemsAt
  <2> QED BY <1>0, <2>2, <2>4, <2>5, <2>6, <2>7, ReachMoved
<1>2. CASE NextGroup(c)
  <2>1. PICK g \in job[c].groups : job' = [job EXCEPT ![c].groups = @ \ {g}, ![c].fetch = g]
    BY <1>2 DEF NextGroup
  <2>2. pc'[c] = "fetching"
    BY <1>0, <1>2 DEF NextGroup, Goto
  <2>3. /\ Same(job'[c]) /\ job'[c].items = job[c].items
        /\ job'[c].groups = job[c].groups \ {g} /\ job'[c].fetch = g
    BY <1>0, <2>1 DEF Job
  <2>4. \A i \in ItemsAt(c)' : i \in ItemsAt(c)
    BY <2>3 DEF ItemsAt
  <2> QED BY <1>0, <2>2, <2>3, <2>4, ReachMoved
<1>3. ASSUME NEW i \in job[c].fetch, FetchChunk(c, i)
      PROVE  InReach(c)'
  <2>1. i.chunk \in DOMAIN data
    BY <1>0 DEF ItemsAt, Merges
  <2>2. job' = [job EXCEPT ![c].fetch  = @ \ {i},
                           ![c].buffer = @ \cup {[old |-> i.old, frame |-> data[i.chunk]]}]
    BY <1>3, <2>1 DEF FetchChunk
  <2>3. pc'[c] \in {"merging", "fetching"}
    BY <1>0, <1>3, <2>1 DEF FetchChunk, Goto
  <2>4. /\ Same(job'[c]) /\ job'[c].items = job[c].items /\ job'[c].groups = job[c].groups
        /\ job'[c].fetch = job[c].fetch \ {i}
    BY <1>0, <2>2 DEF Job
  <2>5. \A j \in ItemsAt(c)' : j \in ItemsAt(c)
    BY <2>4 DEF ItemsAt
  <2> QED BY <1>0, <2>3, <2>4, <2>5, ReachMoved
<1>4. ASSUME NEW f \in job[c].buffer, MergeChunk(c, f)
      PROVE  InReach(c)'
  <2>1. /\ Same(job'[c]) /\ ItemsAt(c)' = ItemsAt(c) /\ pc'[c] = "merging"
    BY <1>0, <1>4 DEF MergeChunk, Job, ItemsAt
  <2> QED BY <1>0, <2>1, ReachMoved
<1>5. CASE UploadResolved(c)
  <2> DEFINE pieces == SplitIntoChunks(job[c].merged)
             chunks == {ChunkAt(job[c].session, d) : d \in pieces}
  <2>1. /\ out' = [out EXCEPT ![c] = [k \in chunks |-> CHOOSE d \in pieces : k = ChunkAt(job[c].session, d)]]
        /\ job' = [job EXCEPT ![c].merged = EmptyFrame]
    BY <1>5 DEF UploadResolved, UploadInto
  <2>2. \A k \in chunks : k.dir = job[c].session
    BY DEF ChunkAt
  <2> HIDE DEF chunks
  <2>3. DOMAIN out'[c] = chunks
    BY <1>0, <2>1
  <2>4. Same(job'[c]) /\ ItemsAt(c)' = ItemsAt(c)
    BY <1>0, <2>1 DEF Job, ItemsAt
  <2> QED BY <1>0, <2>2, <2>3, <2>4, ReachMoved
<1>6. CASE GroupResolved(c)
  <2>1. /\ job' = [job EXCEPT ![c].chunks = @ \cup DOMAIN out[c]]
        /\ pc[c] = "uploading" /\ tasks[c] = {}
    BY <1>6 DEF GroupResolved
  <2>2. pc'[c] = "resolving"
    BY <1>0, <1>6 DEF GroupResolved, Goto
  <2>3. /\ job'[c].chunks = job[c].chunks \cup DOMAIN out[c] /\ job'[c].load = job[c].load
        /\ job'[c].rebuild = job[c].rebuild /\ job'[c].session = job[c].session
        /\ ItemsAt(c)' = ItemsAt(c)
    BY <1>0, <2>1 DEF Job, ItemsAt
  <2>4. \A k \in DOMAIN out[c] : Keeps(c, k)
    BY <1>0, <2>1 DEF Keeps, Inv, UploadsTracked, InReach
  <2> QED BY <1>0, <2>2, <2>3, <2>4, ReachMoved
<1>7. CASE BuildIndex(c)
  <2>1. PICK T \in Representatives(job[c].chunks) : job' = [job EXCEPT ![c].load = T]
    BY <1>7 DEF BuildIndex
  <2>2. T \subseteq job[c].chunks
    BY DEF Representatives
  <2>3. pc'[c] = "indexing"
    BY <1>0, <1>7 DEF BuildIndex, Goto
  <2>4. /\ job'[c].chunks = job[c].chunks /\ job'[c].load = T /\ job'[c].rebuild = job[c].rebuild
        /\ job'[c].session = job[c].session /\ ItemsAt(c)' = ItemsAt(c)
    BY <1>0, <2>1 DEF Job, ItemsAt
  <2> QED BY <1>0, <2>2, <2>3, <2>4, ReachMoved
<1>8. ASSUME NEW k \in job[c].load, LoadIndex(c, k)
      PROVE  InReach(c)'
  <2>1. /\ job'[c].chunks = job[c].chunks /\ job'[c].session = job[c].session
        /\ job'[c].load \subseteq job[c].load /\ job'[c].rebuild \subseteq job[c].rebuild \cup {k}
        /\ ItemsAt(c)' = ItemsAt(c) /\ pc'[c] = "indexing"
    BY <1>0, <1>8 DEF LoadIndex, Job, ItemsAt
  <2> QED BY <1>0, <2>1, ReachMoved
<1>9. ASSUME NEW k \in job[c].rebuild, RebuildIndex(c, k)
      PROVE  InReach(c)'
  <2>1. k \in DOMAIN data
    BY <1>0 DEF InReach
  <2>2. /\ job'[c].chunks = job[c].chunks /\ job'[c].session = job[c].session
        /\ job'[c].load = job[c].load /\ job'[c].rebuild \subseteq job[c].rebuild
        /\ ItemsAt(c)' = ItemsAt(c) /\ pc'[c] = "indexing"
    BY <1>0, <1>9, <2>1 DEF RebuildIndex, Job, ItemsAt
  <2> QED BY <1>0, <2>2, ReachMoved
<1>10. CASE SaveCatalog(c)
  <2>1. job' = job /\ ItemsAt(c)' = ItemsAt(c) /\ pc'[c] = "saving"
    BY <1>0, <1>10 DEF SaveCatalog, Goto, ItemsAt
  <2> QED BY <1>0, <2>1, ReachMoved
<1> QED BY <1>1, <1>2, <1>3, <1>4, <1>5, <1>6, <1>7, <1>8, <1>9, <1>10, ListReach, PreviousReach
        DEF Resolve, Index

(* A commit goes through its stages in turn. *)
LEMMA StagesStay ==
    ASSUME Inv, [Next]_vars, NEW c \in Commits, InStages(c)
    PROVE  InStages(c)'
<1>0. /\ job \in [Commits -> Job] /\ job[c] \in Job /\ c \in Requests /\ c \in Bulks
      /\ pc \in [Requests -> Labels]
  BY WorkKnown DEF Inv, TypeOK, RequestsOK
<1>1. CASE Resolve(c)
  <2>1. CASE ListMetas(c)
    BY <1>0, <2>1 DEF ListMetas, Goto, InStages, Job, Underway
  <2>2. CASE LoadPrevious(c)
    BY <1>0, <2>2 DEF LoadPrevious, Goto, InStages, Job, Underway
  <2>3. CASE FindConflicts(c)
    BY <1>0, <2>3 DEF FindConflicts, Goto, InStages, Job, Underway
  <2>4. CASE NextGroup(c)
    BY <1>0, <2>4 DEF NextGroup, Goto, InStages, Job, Underway
  <2>5. CASE \E i \in job[c].fetch : FetchChunk(c, i)
    BY <1>0, <2>5 DEF FetchChunk, Goto, InStages, Job, Underway
  <2>6. CASE \E f \in job[c].buffer : MergeChunk(c, f)
    BY <1>0, <2>6 DEF MergeChunk, Goto, InStages, Job, Underway
  <2>7. CASE UploadResolved(c)
    BY <1>0, <2>7 DEF UploadResolved, UploadInto, Goto, InStages, Job, Underway
  <2>8. CASE GroupResolved(c)
    BY <1>0, <2>8 DEF GroupResolved, Goto, InStages, Job, Underway
  <2> QED BY <1>1, <2>1, <2>2, <2>3, <2>4, <2>5, <2>6, <2>7, <2>8 DEF Resolve
<1>2. CASE Index(c)
  <2>1. CASE BuildIndex(c)
    BY <1>0, <2>1 DEF BuildIndex, Goto, InStages, Job, Underway
  <2>2. CASE \E k \in job[c].load : LoadIndex(c, k)
    BY <1>0, <2>2 DEF LoadIndex, Goto, InStages, Job, Underway
  <2>3. CASE \E k \in job[c].rebuild : RebuildIndex(c, k)
    BY <1>0, <2>3 DEF RebuildIndex, Goto, InStages, Job, Underway
  <2>4. CASE SaveCatalog(c)
    BY <1>0, <2>4 DEF SaveCatalog, Goto, InStages, Job, Underway
  <2> QED BY <1>2, <2>1, <2>2, <2>3, <2>4 DEF Index
<1>3. ASSUME NEW s, NEW prev, Commit(c, s, prev)
      PROVE  InStages(c)'
  BY <1>0, <1>3 DEF Commit, Goto, InStages, NoJob, Underway
<1>4. CASE job'[c] = job[c] /\ (pc'[c] = pc[c] \/ pc'[c] = "failed" \/ BulkAck(c))
  BY <1>0, <1>4 DEF BulkAck, Goto, InStages, Underway
<1> QED BY <1>1, <1>2, <1>3, <1>4, AnyStep

(* What a commit works on can still be read after any step.                  *)
LEMMA ReachStays ==
    ASSUME Inv, QuietInv, SealedInv, MaxFailures = 0, [Next]_vars, NEW c \in Commits
    PROVE  InReach(c)'
<1>0. /\ job \in [Commits -> Job] /\ job[c] \in Job /\ c \in Requests /\ c \in Bulks
      /\ pc \in [Requests -> Labels] /\ InReach(c)
  BY WorkKnown DEF Inv, TypeOK, RequestsOK, SealedInv
<1>1. CASE Resolve(c) \/ Index(c)
  BY <1>1, OwnReach
<1>2. ASSUME NEW s, NEW prev, Commit(c, s, prev)
      PROVE  InReach(c)'
  BY <1>0, <1>2 DEF Commit, Goto, InReach, ItemsAt, NoJob
<1>3. CASE job'[c] = job[c] /\ out'[c] = out[c] /\ (pc'[c] = pc[c] \/ BulkAck(c))
  <2>1. ItemsAt(c)' = ItemsAt(c) /\ job[c].load \cup job[c].rebuild \subseteq job[c].chunks
    BY <1>0, <1>3 DEF ItemsAt, InReach
  <2>2. pc'[c] = pc[c] \/ pc'[c] = "acked"
    BY <1>0, <1>3 DEF BulkAck, Goto
  <2> QED BY <1>0, <1>3, <2>1, <2>2, ReachMoved
<1> QED BY <1>1, <1>2, <1>3, Steps

(* The invariant of reading: nothing a bulk refers to is stored again. *)
THEOREM SealedInvariance == ASSUME Orderly PROVE Spec => []SealedInv
<1>0. MaxFailures = 0
  BY DEF Orderly
<1>1. Init => SealedInv
  <2> SUFFICES ASSUME Init PROVE SealedInv
    OBVIOUS
  <2>1. /\ \A c \in Commits : job[c] = NoJob /\ pc[c] = "idle"
        /\ DOMAIN catalogs = {} /\ metas = {}
    BY DEF Init, Requests, Bulks
  <2>2. \A s \in Sessions : CommitsOf(s) = {}
    BY <2>1, RequestAssumption DEF CommitsOf, NoJob
  <2>3. \A c \in Commits : InStages(c) /\ InReach(c)
    BY <2>1 DEF InStages, InReach, ItemsAt, NoJob, Underway
  <2> QED BY <2>1, <2>2, <2>3 DEF SealedInv, SessionsClosed, MetasFollowed, CatalogsInReach
<1>2. Inv /\ Inv' /\ QuietInv /\ SealedInv /\ [Next]_vars => SealedInv'
  BY <1>0, ClosedStays, FollowedStays, CatalogsReachStays, StagesStay, ReachStays DEF SealedInv
<1> QED BY <1>0, <1>1, <1>2, Invariance, QuietInvariance, PTL DEF Spec

(* Every chunk of a bulk whose id was given to a client can be downloaded,   *)
(* when the session was posted to, then committed, and nothing failed.       *)
THEOREM BulkReadable == ASSUME Orderly PROVE Spec => []AckedBulkReadable
<1>1. Inv /\ SealedInv => AckedBulkReadable
  <2> SUFFICES ASSUME Inv, SealedInv, NEW b \in AckedBulks
               PROVE  catalogs[b].chunks \subseteq DOMAIN data
    BY DEF AckedBulkReadable
  <2>1. b \in DOMAIN catalogs /\ pc[b] = "acked"
    BY DEF AckedBulks, Inv, SavesTracked
  <2> QED BY <2>1 DEF SealedInv, CatalogsInReach
<1> QED BY <1>1, Invariance, SealedInvariance, PTL

(* A step leaves an acknowledged bulk as it is: nothing is stored into the   *)
(* folders of its chunks, and its catalog and index were saved before.       *)
LEMMA BulkStays ==
    ASSUME Inv, QuietInv, SealedInv, MaxFailures = 0, [Next]_vars, NEW b \in AckedBulks
    PROVE  /\ b \in DOMAIN catalogs /\ catalogs[b].chunks \subseteq DOMAIN data
           /\ catalogs'[b] = catalogs[b]
           /\ b \in DOMAIN bulkIndex => bulkIndex'[b] = bulkIndex[b]
           /\ \A k \in catalogs[b].chunks : data'[k] = data[k]
<1>1. /\ b \in Bulks /\ b \in DOMAIN catalogs /\ pc[b] = "acked" /\ save[b] = {}
      /\ catalogs[b].chunks \subseteq DOMAIN data
  BY DEF AckedBulks, Inv, SavesTracked, SealedInv, CatalogsInReach
<1>2. catalogs'[b] = catalogs[b]
  <2>1. CASE \E a \in Bulks : PutCatalog(a)
    BY <1>1, <2>1 DEF PutCatalog, Put
  <2> QED BY <2>1, Steps
<1>3. b \in DOMAIN bulkIndex => bulkIndex'[b] = bulkIndex[b]
  <2>1. CASE \E c \in Commits : PutBulkIndex(c)
    BY <1>1, <2>1 DEF PutBulkIndex, Put
  <2> QED BY <2>1, Steps
<1>4. ASSUME NEW k \in catalogs[b].chunks
      PROVE  data'[k] = data[k]
  <2>1. Sealed(k.dir) /\ k \in DOMAIN data
    BY <1>1 DEF SealedInv, CatalogsInReach, Sealed, AckedBulks
  <2>2. ASSUME NEW r \in Requests, NEW l \in DOMAIN out[r], PutData(r, l)
        PROVE  data'[k] = data[k]
    <3>1. ~Sealed(l.dir)
      BY <2>2, StorerKnown DEF PutData, SealedInv
    <3> QED BY <2>1, <2>2, <3>1 DEF PutData, Put
  <2> QED BY <2>2, Steps
<1> QED BY <1>1, <1>2, <1>3, <1>4

(* An acknowledged bulk does not change. *)
THEOREM Immutable == ASSUME Orderly PROVE Spec => BulkImmutable
<1>1. Inv /\ QuietInv /\ SealedInv /\ [Next]_vars =>
        [\A b \in AckedBulks :
           /\ catalogs'[b] = catalogs[b]
           /\ b \in DOMAIN bulkIndex => bulkIndex'[b] = bulkIndex[b]
           /\ \A k \in catalogs[b].chunks \cap DOMAIN data : data'[k] = data[k]]_vars
  BY BulkStays DEF Orderly
<1> QED BY <1>1, Invariance, QuietInvariance, SealedInvariance, PTL DEF Spec, BulkImmutable, Orderly

-----------------------------------------------------------------------------
(* The values of a bulk *)

(* What there is to know of a commit that has begun. *)
LEMMA CommitBegun ==
    ASSUME Inv, NEW c \in Commits, pc[c] # "idle"
    PROVE  /\ job[c].session \in Sessions /\ c \in CommitsOf(job[c].session)
           /\ job[c].prev # None => job[c].prev \in AckedBulks
           /\ c \in Requests /\ c \in Bulks
<1>1. job[c].prev \in Bulks \cup {None} /\ c \in Requests /\ c \in Bulks
  BY WorkKnown, JobFields DEF Inv, TypeOK
<1>2. job[c].prev # None => pc[job[c].prev] = "acked"
  BY DEF Inv, JobsStored
<1> QED BY <1>1, <1>2 DEF Inv, JobsStored, CommitsOf, AckedBulks

(* What an acknowledged bulk holds does not change. *)
LEMMA ValuesStay ==
    ASSUME Inv, QuietInv, SealedInv, MaxFailures = 0, [Next]_vars, NEW b \in AckedBulks, NEW x
    PROVE  Values(b, x)' = Values(b, x)
<1>1. /\ catalogs[b].chunks \subseteq DOMAIN data /\ DOMAIN data \subseteq DOMAIN data'
      /\ catalogs'[b] = catalogs[b] /\ \A k \in catalogs[b].chunks : data'[k] = data[k]
  BY BulkStays, Begun
<1>2. /\ \A k : k \in catalogs'[b].chunks \cap DOMAIN data' <=> k \in catalogs[b].chunks
      /\ \A k : k \in catalogs[b].chunks \cap DOMAIN data <=> k \in catalogs[b].chunks
      /\ \A k \in catalogs[b].chunks : data'[k] = data[k]
  BY <1>1
<1> QED BY <1>2 DEF Values, HasValue

(* What was posted into a session, and what the previous bulk holds, do not  *)
(* change once the commit has begun.                                         *)
LEMMA RightStays ==
    ASSUME Inv, QuietInv, SealedInv, Orderly, [Next]_vars, NEW c \in Commits, pc[c] # "idle"
    PROVE  /\ Posted(c)' = Posted(c)
           /\ \A x : IsPosted(c, x)' <=> IsPosted(c, x)
           /\ job[c].prev # None => \A x : Values(job[c].prev, x)' = Values(job[c].prev, x)
           /\ \A x : Right(c, x)' = Right(c, x)
<1> DEFINE s    == job[c].session
           prev == job[c].prev
<1>0. /\ MaxFailures = 0 /\ job'[c].session = s /\ job'[c].prev = prev
      /\ Posts \subseteq Requests /\ Posts \cap Commits = {} /\ DOMAIN out = Requests
      /\ c \in CommitsOf(s) /\ NothingYet
  BY RequestAssumption, Begun, CommitBegun
     DEF Orderly, Requests, Inv, TypeOK, RequestsOK, QuietInv
<1>1. ASSUME NEW p \in Posts, NEW k \in DOMAIN out'[p], k.dir = s
      PROVE  p \in PostsOf(s)
  <2>1. ASSUME NEW t \in Sessions, PostChunk(p, t)
        PROVE  FALSE
    <3>1. PICK shape \in PostShapes(t) :
            out' = [out EXCEPT ![p] = Put(<<>>, ChunkAt(t, FilledBy(p, shape)), FilledBy(p, shape))]
      BY <2>1 DEF PostChunk
    <3> DEFINE l == ChunkAt(t, FilledBy(p, shape))
    <3>2. k = l /\ l.dir = t
      BY <1>0, <3>1 DEF Put, ChunkAt
    <3>3. CommitsOf(t) = {}
      BY <2>1 DEF PostChunk, MayPost, Orderly
    <3> QED BY <1>0, <1>1, <3>2, <3>3
  <2>2. out'[p] = out[p]
    BY <1>0, <2>1, Steps
  <2> QED BY <1>1, <2>2 DEF PostsOf
<1>2. ASSUME NEW p \in PostsOf(s)
      PROVE  p \in Posts /\ out'[p] = out[p]
  <2>1. p \in Posts /\ pc[p] # "idle"
    BY <1>0 DEF PostsOf, NothingYet
  <2> QED BY <1>0, <2>1, Begun
<1>3. Posted(c)' = Posted(c)
  BY <1>0, <1>1, <1>2 DEF Posted, PostsOf
<1>4. \A x : IsPosted(c, x)' <=> IsPosted(c, x)
  BY <1>2, <1>3 DEF IsPosted, Posted, CellsOf
<1>5. ASSUME prev # None
      PROVE  \A x : Values(prev, x)' = Values(prev, x)
  <2>1. PICK b \in AckedBulks : b = prev
    BY <1>5, CommitBegun
  <2>2. \A x : Values(b, x)' = Values(b, x)
    BY <1>0, ValuesStay
  <2>3. job[c].prev = b /\ job'[c].prev = b
    BY <1>0, <2>1
  <2> QED BY <2>2, <2>3
<1>6. \A x : Right(c, x)' = Right(c, x)
  <2>1. \A p \in Posted(c) : CellsOf(p)' = CellsOf(p)
    BY <1>2 DEF Posted, CellsOf
  <2>2. \A x : {p \in Posted(c)' : x \in CellsOf(p)'} = {p \in Posted(c) : x \in CellsOf(p)}
    BY <1>3, <2>1
  <2> QED BY <1>0, <1>3, <1>4, <1>5, <2>2 DEF Right
<1> QED BY <1>3, <1>4, <1>5, <1>6

(* A commit knows of each item, and of each frame, where it comes from. *)
LEMMA SidesKnown ==
    ASSUME NEW j \in Job
    PROVE  /\ \A i \in j.items \cup (UNION j.groups) \cup j.fetch : i.old \in BOOLEAN
           /\ \A b \in j.buffer : b.old \in BOOLEAN
<1>1. /\ j.items \in SUBSET Item /\ j.groups \in SUBSET SUBSET Item
      /\ j.fetch \in SUBSET Item /\ j.buffer \in SUBSET Frame
  BY DEF Job
<1>2. \A i \in j.items \cup (UNION j.groups) \cup j.fetch : i \in Item
  BY <1>1
<1> QED BY <1>1, <1>2 DEF Item, Frame

(* What the frames of a commit are, before a step and after it. *)
LEMMA FramesAre ==
    ASSUME NEW c \in Commits, Inv
    PROVE  /\ \A f : f \in NewFrames(c) <=>
                \/ f = job[c].merged
                \/ \E i \in ItemsAt(c) : ~i.old /\ f = data[i.chunk]
                \/ \E b \in job[c].buffer : ~b.old /\ f = b.frame
                \/ \E k \in job[c].chunks : f = data[k]
                \/ pc[c] = "uploading" /\ \E k \in DOMAIN out[c] : f = out[c][k]
           /\ \A f : f \in OldFrames(c) <=>
                \/ \E i \in ItemsAt(c) : i.old /\ f = data[i.chunk]
                \/ \E b \in job[c].buffer : b.old /\ f = b.frame
<1>0. /\ \A i \in ItemsAt(c) : i.old \in BOOLEAN
      /\ \A b \in job[c].buffer : b.old \in BOOLEAN
  <2>1. job[c] \in Job
    BY DEF Inv, TypeOK
  <2> QED BY <2>1, SidesKnown DEF ItemsAt
<1>1. \A f : f \in ToMerge(c, FALSE) <=>
       \/ \E i \in ItemsAt(c) : ~i.old /\ f = data[i.chunk]
       \/ \E b \in job[c].buffer : ~b.old /\ f = b.frame
  BY <1>0 DEF ToMerge, GroupFrames, ItemFrames, ItemsAt
<1>2. \A f : f \in ToMerge(c, TRUE) <=>
       \/ \E i \in ItemsAt(c) : i.old /\ f = data[i.chunk]
       \/ \E b \in job[c].buffer : b.old /\ f = b.frame
  BY <1>0 DEF ToMerge, GroupFrames, ItemFrames, ItemsAt
<1>3. \A f : f \in NewFrames(c) <=>
       \/ f \in ToMerge(c, FALSE) \/ f = job[c].merged
       \/ \E k \in job[c].chunks : f = data[k]
       \/ pc[c] = "uploading" /\ \E k \in DOMAIN out[c] : f = out[c][k]
  BY DEF NewFrames
<1>4. \A f : f \in NewFrames(c) <=>
       \/ f = job[c].merged
       \/ \E i \in ItemsAt(c) : ~i.old /\ f = data[i.chunk]
       \/ \E b \in job[c].buffer : ~b.old /\ f = b.frame
       \/ \E k \in job[c].chunks : f = data[k]
       \/ pc[c] = "uploading" /\ \E k \in DOMAIN out[c] : f = out[c][k]
  BY <1>1, <1>3
<1>5. \A f : f \in OldFrames(c) <=>
       \/ \E i \in ItemsAt(c) : i.old /\ f = data[i.chunk]
       \/ \E b \in job[c].buffer : b.old /\ f = b.frame
  BY <1>2 DEF OldFrames
<1> QED BY <1>4, <1>5

(* What the frames of a commit are after a step.                             *)
LEMMA FramesThen ==
    ASSUME NEW c \in Commits, Inv'
    PROVE  /\ \A f : f \in NewFrames(c)' <=>
                \/ f = job'[c].merged
                \/ \E i \in ItemsAt(c)' : ~i.old /\ f = data'[i.chunk]
                \/ \E b \in job'[c].buffer : ~b.old /\ f = b.frame
                \/ \E k \in job'[c].chunks : f = data'[k]
                \/ pc'[c] = "uploading" /\ \E k \in DOMAIN out'[c] : f = out'[c][k]
           /\ \A f : f \in OldFrames(c)' <=>
                \/ \E i \in ItemsAt(c)' : i.old /\ f = data'[i.chunk]
                \/ \E b \in job'[c].buffer : b.old /\ f = b.frame
<1>0. /\ \A i \in ItemsAt(c)' : i.old \in BOOLEAN
      /\ \A b \in job'[c].buffer : b.old \in BOOLEAN
  <2>1. job'[c] \in Job
    BY DEF Inv, TypeOK
  <2> QED BY <2>1, SidesKnown DEF ItemsAt
<1>1. \A f : f \in ToMerge(c, FALSE)' <=>
       \/ \E i \in ItemsAt(c)' : ~i.old /\ f = data'[i.chunk]
       \/ \E b \in job'[c].buffer : ~b.old /\ f = b.frame
  BY <1>0 DEF ToMerge, GroupFrames, ItemFrames, ItemsAt
<1>2. \A f : f \in ToMerge(c, TRUE)' <=>
       \/ \E i \in ItemsAt(c)' : i.old /\ f = data'[i.chunk]
       \/ \E b \in job'[c].buffer : b.old /\ f = b.frame
  BY <1>0 DEF ToMerge, GroupFrames, ItemFrames, ItemsAt
<1>3. \A f : f \in NewFrames(c)' <=>
       \/ f \in ToMerge(c, FALSE)' \/ f = job'[c].merged
       \/ \E k \in job'[c].chunks : f = data'[k]
       \/ pc'[c] = "uploading" /\ \E k \in DOMAIN out'[c] : f = out'[c][k]
  BY DEF NewFrames
<1>4. \A f : f \in NewFrames(c)' <=>
       \/ f = job'[c].merged
       \/ \E i \in ItemsAt(c)' : ~i.old /\ f = data'[i.chunk]
       \/ \E b \in job'[c].buffer : ~b.old /\ f = b.frame
       \/ \E k \in job'[c].chunks : f = data'[k]
       \/ pc'[c] = "uploading" /\ \E k \in DOMAIN out'[c] : f = out'[c][k]
  BY <1>1, <1>3
<1>5. \A f : f \in OldFrames(c)' <=>
       \/ \E i \in ItemsAt(c)' : i.old /\ f = data'[i.chunk]
       \/ \E b \in job'[c].buffer : b.old /\ f = b.frame
  BY <1>2 DEF OldFrames
<1> QED BY <1>4, <1>5

(* An item of the previous bulk, or of the session, in the group the commit   *)
(* is at, with a value for cell x.                                           *)
OldInGroup(c, x) ==
    \/ \E i \in job[c].fetch : i.old /\ HasValue(data[i.chunk], x)
    \/ \E b \in job[c].buffer : b.old /\ HasValue(b.frame, x)
NewInGroup(c, x) ==
    \/ HasValue(job[c].merged, x)
    \/ \E i \in job[c].fetch : ~i.old /\ HasValue(data[i.chunk], x)
    \/ \E b \in job[c].buffer : ~b.old /\ HasValue(b.frame, x)

OverriddenIn(g, x) ==
    (\E i \in g : i.old /\ HasValue(data[i.chunk], x))
      => \E i \in g : ~i.old /\ HasValue(data[i.chunk], x)

(* OldOverridden, in terms of the items and frames a commit has.             *)
LEMMA OverriddenIs ==
    ASSUME NEW c \in Commits, Inv
    PROVE  OldOverridden(c) <=>
             \A x \in Cols \X Rows : IsPosted(c, x) =>
               /\ \A g \in job[c].groups : OverriddenIn(g, x)
               /\ OldInGroup(c, x) => NewInGroup(c, x)
<1>0. /\ \A i \in ItemsAt(c) : i.old \in BOOLEAN
      /\ \A b \in job[c].buffer : b.old \in BOOLEAN
  <2>1. job[c] \in Job
    BY DEF Inv, TypeOK
  <2> QED BY <2>1, SidesKnown DEF ItemsAt
<1>1. ASSUME NEW x
      PROVE  Has(GroupFrames(c, TRUE), x) <=> OldInGroup(c, x)
  BY <1>0 DEF GroupFrames, ItemFrames, ItemsAt, Has, OldInGroup
<1>2. ASSUME NEW x
      PROVE  Has(GroupFrames(c, FALSE) \cup {job[c].merged}, x) <=> NewInGroup(c, x)
  BY <1>0 DEF GroupFrames, ItemFrames, ItemsAt, Has, NewInGroup
<1>3. ASSUME NEW g \in job[c].groups, NEW x
      PROVE  (Has(ItemFrames(g, TRUE), x) => Has(ItemFrames(g, FALSE), x)) <=> OverriddenIn(g, x)
  <2>0. \A i \in g : i.old \in BOOLEAN
    BY <1>0 DEF ItemsAt
  <2>1. Has(ItemFrames(g, TRUE), x) <=> \E i \in g : i.old /\ HasValue(data[i.chunk], x)
    BY <2>0 DEF ItemFrames, Has
  <2>2. Has(ItemFrames(g, FALSE), x) <=> \E i \in g : ~i.old /\ HasValue(data[i.chunk], x)
    BY <2>0 DEF ItemFrames, Has
  <2> QED BY <2>1, <2>2 DEF OverriddenIn
<1> QED BY <1>1, <1>2, <1>3 DEF OldOverridden

(* OldOverridden after a step, in the same terms.                            *)
LEMMA OverriddenThen ==
    ASSUME NEW c \in Commits, Inv'
    PROVE  OldOverridden(c)' <=>
             \A x \in Cols \X Rows : IsPosted(c, x)' =>
               /\ \A g \in job'[c].groups : OverriddenIn(g, x)'
               /\ OldInGroup(c, x)' => NewInGroup(c, x)'
<1>0. /\ \A i \in ItemsAt(c)' : i.old \in BOOLEAN
      /\ \A b \in job'[c].buffer : b.old \in BOOLEAN
  <2>1. job'[c] \in Job
    BY DEF Inv, TypeOK
  <2> QED BY <2>1, SidesKnown DEF ItemsAt
<1>1. ASSUME NEW x
      PROVE  Has(GroupFrames(c, TRUE), x)' <=> OldInGroup(c, x)'
  BY <1>0 DEF GroupFrames, ItemFrames, ItemsAt, Has, OldInGroup
<1>2. ASSUME NEW x
      PROVE  Has(GroupFrames(c, FALSE) \cup {job[c].merged}, x)' <=> NewInGroup(c, x)'
  BY <1>0 DEF GroupFrames, ItemFrames, ItemsAt, Has, NewInGroup
<1>3. ASSUME NEW g \in job'[c].groups, NEW x
      PROVE  (Has(ItemFrames(g, TRUE), x)' => Has(ItemFrames(g, FALSE), x)') <=> OverriddenIn(g, x)'
  <2>0. \A i \in g : i.old \in BOOLEAN
    BY <1>0 DEF ItemsAt
  <2>1. Has(ItemFrames(g, TRUE), x)' <=> \E i \in g : i.old /\ HasValue(data[i.chunk], x)'
    BY <2>0 DEF ItemFrames, Has
  <2>2. Has(ItemFrames(g, FALSE), x)' <=> \E i \in g : ~i.old /\ HasValue(data[i.chunk], x)'
    BY <2>0 DEF ItemFrames, Has
  <2> QED BY <2>1, <2>2 DEF OverriddenIn
<1> QED BY <1>1, <1>2, <1>3 DEF OldOverridden

(* They are dataframes. *)
LEMMA FramesType ==
    ASSUME Inv, NEW c \in Commits, InReach(c)
    PROVE  /\ \A f \in NewFrames(c) : f \in DataFrames \cup {EmptyFrame}
           /\ \A f \in OldFrames(c) : f \in DataFrames
           /\ \A i \in ItemsAt(c) : data[i.chunk] \in DataFrames
           /\ \A b \in job[c].buffer : b.frame \in DataFrames
<1>1. /\ \A b \in job[c].buffer : b.frame \in DataFrames
      /\ job[c].merged \in DataFrames \cup {EmptyFrame}
  BY WorkKnown DEF Inv
<1>2. \A i \in ItemsAt(c) : data[i.chunk] \in DataFrames
  BY DEF InReach, Inv, TypeOK, StorageOK
<1>3. \A k \in job[c].chunks : data[k] \in DataFrames
  BY DEF InReach, Inv, TypeOK, StorageOK
<1>4. \A k \in DOMAIN out[c] : out[c][k] \in DataFrames
  BY CommitBegun DEF Inv, TypeOK, RequestsOK, Requests, Bulks
<1>5. ASSUME NEW f \in NewFrames(c)
      PROVE  f \in DataFrames \cup {EmptyFrame}
  <2>1. \/ f = job[c].merged
        \/ \E i \in ItemsAt(c) : f = data[i.chunk]
        \/ \E b \in job[c].buffer : f = b.frame
        \/ \E k \in job[c].chunks : f = data[k]
        \/ \E k \in DOMAIN out[c] : f = out[c][k]
    BY <1>5, FramesAre
  <2> QED BY <1>1, <1>2, <1>3, <1>4, <2>1
<1>6. ASSUME NEW f \in OldFrames(c)
      PROVE  f \in DataFrames
  <2>1. \/ \E i \in ItemsAt(c) : f = data[i.chunk]
        \/ \E b \in job[c].buffer : f = b.frame
    BY <1>6, FramesAre
  <2> QED BY <1>1, <1>2, <2>1
<1>7. ASSUME NEW i \in ItemsAt(c)
      PROVE  data[i.chunk] \in DataFrames
  BY <1>2
<1> QED BY <1>1, <1>5, <1>6, <1>7

(* A chunk overlaps itself. *)
LEMMA SelfOverlap ==
    ASSUME NEW m \in Meta
    PROVE  OverlapWith(m, m)
BY MetaFields DEF OverlapWith, ShareColumns, IndexOverlap

Active(c) == pc[c] \in {"previous", "conflicts"} \cup Underway

(* Nobody stores a chunk that a commit works on, not even the commit: what   *)
(* it uploads is of other cells than what it keeps and has yet to merge.     *)
LEMMA FramesKept ==
    ASSUME Inv, QuietInv, SealedInv, ApartInv, MaxFailures = 0, [Next]_vars,
           NEW c \in Commits, Active(c),
           NEW l, l \in job[c].chunks \/ \E i \in ItemsAt(c) : l = i.chunk
    PROVE  l \in DOMAIN data /\ data'[l] = data[l]
<1>0. /\ InReach(c) /\ InStages(c) /\ InTurn(c) /\ WorkApart(c) /\ c \in Requests
      /\ pc[c] \notin {"idle", "failed"} /\ SessionsClosed /\ TasksKnown
  BY CommitBegun DEF SealedInv, ApartInv, Active, Underway, Inv
<1>1. l \in DOMAIN data /\ (l.dir = job[c].session \/ Sealed(l.dir)) /\ l \in Chunk
  BY <1>0 DEF InReach, Inv, TypeOK, StorageOK
<1>2. ASSUME NEW r \in Requests, NEW k \in DOMAIN out[r], PutData(r, k)
      PROVE  k # l
  <2> SUFFICES ASSUME k = l PROVE FALSE
    OBVIOUS
  <2>1. <<"data", l>> \in tasks[r]
    BY <1>2 DEF PutData
  <2>2. r = c /\ pc[c] = "uploading"
    BY <1>0, <1>1, <2>1, StorerKnown
  <2>3. l.meta \in CurrentMetas(c)
    BY <1>2, <2>2 DEF CurrentMetas
  <2>4. Apart({l.meta}, {l.meta})
    <3>1. CASE l \in job[c].chunks
      BY <1>0, <2>3, <3>1 DEF WorkApart, Apart
    <3>2. CASE \E i \in ItemsAt(c) : l = i.chunk
      <4>1. PICK i \in ItemsAt(c) : l = i.chunk
        BY <3>2
      <4>2. job[c].items = {} /\ job[c].fetch = {}
        BY <1>0, <2>2 DEF InStages, InTurn, Underway
      <4>3. PICK g \in job[c].groups : i \in g
        BY <4>2 DEF ItemsAt
      <4>4. l.meta \in MetasOf(g)
        BY <4>1, <4>3 DEF MetasOf
      <4> QED BY <1>0, <2>3, <4>3, <4>4 DEF WorkApart, Apart
    <3> QED BY <3>1, <3>2
  <2> QED BY <1>1, <2>4, ChunkMeta, ApartMeans, SelfOverlap
<1>3. ASSUME NEW r \in Requests, NEW k \in DOMAIN out[r], PutData(r, k)
      PROVE  data'[l] = data[l]
  BY <1>1, <1>2, <1>3 DEF PutData, Put
<1> QED BY <1>1, <1>3, Steps

(* The frames of a commit are right, and none is missing. *)
FramesRight(c) == NewRight(c) /\ OldPrevious(c) /\ OldOverridden(c) /\ NoneLost(c)

(* What has to be shown of a step of a commit: what is right does not change. *)
LEMMA FramesRightThen ==
    ASSUME Inv, Inv', QuietInv, SealedInv, Orderly, [Next]_vars, NEW c \in Commits, pc[c] # "idle",
           \A x \in Cols \X Rows :
             /\ \A f \in NewFrames(c)' : HasValue(f, x) => f.val[x] \in Right(c, x)
             /\ \A f \in OldFrames(c)' :
                  HasValue(f, x) => job[c].prev # None /\ f.val[x] \in Values(job[c].prev, x)
             /\ IsPosted(c, x) => \E f \in NewFrames(c)' : HasValue(f, x)
             /\ pc'[c] # "previous" /\ job[c].prev # None /\ Values(job[c].prev, x) # {} =>
                  \E f \in NewFrames(c)' \cup OldFrames(c)' : HasValue(f, x)
             /\ IsPosted(c, x) /\ OldInGroup(c, x)' => NewInGroup(c, x)'
             /\ IsPosted(c, x) => \A g \in job'[c].groups : OverriddenIn(g, x)'
    PROVE  FramesRight(c)'
<1>1. /\ \A x : Right(c, x)' = Right(c, x) /\ (IsPosted(c, x)' <=> IsPosted(c, x))
      /\ job[c].prev # None => \A x : Values(job[c].prev, x)' = Values(job[c].prev, x)
      /\ job'[c].prev = job[c].prev
  BY RightStays, Begun, CommitBegun DEF Orderly
<1>2. NewRight(c)'
  BY <1>1 DEF NewRight, HasValue
<1>3. OldPrevious(c)'
  BY <1>1 DEF OldPrevious, HasValue
<1>4. NoneLost(c)'
  BY <1>1 DEF NoneLost, Has, HasValue
<1>5. OldOverridden(c)'
  BY <1>1, OverriddenThen
<1> QED BY <1>2, <1>3, <1>4, <1>5 DEF FramesRight

(* Steps of others leave them alone. *)
LEMMA OthersRight ==
    ASSUME Inv, Inv', QuietInv, SealedInv, ApartInv, Orderly, [Next]_vars,
           NEW c \in Commits, Active(c), FramesRight(c),
           job'[c] = job[c], out'[c] = out[c], pc'[c] = pc[c] \/ BulkAck(c)
    PROVE  FramesRight(c)'
<1>0. MaxFailures = 0 /\ pc[c] # "idle" /\ c \in Requests /\ pc \in [Requests -> Labels]
  BY CommitBegun DEF Orderly, Active, Underway, Inv, TypeOK, RequestsOK
<1>1. /\ pc'[c] = "uploading" <=> pc[c] = "uploading"
      /\ pc'[c] = "previous" <=> pc[c] = "previous"
  BY <1>0 DEF BulkAck, Goto
<1>2. /\ \A k \in job[c].chunks : data'[k] = data[k]
      /\ \A i \in ItemsAt(c) : data'[i.chunk] = data[i.chunk]
      /\ \A g \in job[c].groups : g \subseteq ItemsAt(c)
      /\ ItemsAt(c)' = ItemsAt(c) /\ job[c].fetch \subseteq ItemsAt(c)
  BY <1>0, FramesKept DEF ItemsAt
<1>3. ASSUME NEW f
      PROVE  f \in NewFrames(c)' <=> f \in NewFrames(c)
  <2>1. f \in NewFrames(c) <=>
          \/ f = job[c].merged
          \/ \E i \in ItemsAt(c) : ~i.old /\ f = data[i.chunk]
          \/ \E b \in job[c].buffer : ~b.old /\ f = b.frame
          \/ \E k \in job[c].chunks : f = data[k]
          \/ pc[c] = "uploading" /\ \E k \in DOMAIN out[c] : f = out[c][k]
    BY FramesAre
  <2>2. f \in NewFrames(c)' <=>
          \/ f = job'[c].merged
          \/ \E i \in ItemsAt(c)' : ~i.old /\ f = data'[i.chunk]
          \/ \E b \in job'[c].buffer : ~b.old /\ f = b.frame
          \/ \E k \in job'[c].chunks : f = data'[k]
          \/ pc'[c] = "uploading" /\ \E k \in DOMAIN out'[c] : f = out'[c][k]
    BY FramesThen
  <2> QED BY <1>1, <1>2, <2>1, <2>2
<1>4. ASSUME NEW f
      PROVE  f \in OldFrames(c)' <=> f \in OldFrames(c)
  <2>1. f \in OldFrames(c) <=>
          \/ \E i \in ItemsAt(c) : i.old /\ f = data[i.chunk]
          \/ \E b \in job[c].buffer : b.old /\ f = b.frame
    BY FramesAre
  <2>2. f \in OldFrames(c)' <=>
          \/ \E i \in ItemsAt(c)' : i.old /\ f = data'[i.chunk]
          \/ \E b \in job'[c].buffer : b.old /\ f = b.frame
    BY FramesThen
  <2> QED BY <1>2, <2>1, <2>2
<1>5. NewFrames(c)' = NewFrames(c) /\ OldFrames(c)' = OldFrames(c)
  BY <1>3, <1>4
<1>6. ASSUME NEW x \in Cols \X Rows, IsPosted(c, x)
      PROVE  /\ OldInGroup(c, x)' => NewInGroup(c, x)'
             /\ \A g \in job'[c].groups : OverriddenIn(g, x)'
  <2>1. /\ OldInGroup(c, x) => NewInGroup(c, x)
        /\ \A g \in job[c].groups : OverriddenIn(g, x)
    BY <1>6, OverriddenIs DEF FramesRight
  <2>2. (OldInGroup(c, x)' <=> OldInGroup(c, x)) /\ (NewInGroup(c, x)' <=> NewInGroup(c, x))
    BY <1>2 DEF OldInGroup, NewInGroup, HasValue
  <2>3. ASSUME NEW g \in job[c].groups
        PROVE  OverriddenIn(g, x)' <=> OverriddenIn(g, x)
    BY <1>2 DEF OverriddenIn, HasValue
  <2> QED BY <2>1, <2>2, <2>3
<1>7. ASSUME NEW x \in Cols \X Rows
      PROVE  /\ \A f \in NewFrames(c) : HasValue(f, x) => f.val[x] \in Right(c, x)
             /\ \A f \in OldFrames(c) :
                  HasValue(f, x) => job[c].prev # None /\ f.val[x] \in Values(job[c].prev, x)
             /\ IsPosted(c, x) => \E f \in NewFrames(c) : HasValue(f, x)
             /\ pc[c] # "previous" /\ job[c].prev # None /\ Values(job[c].prev, x) # {} =>
                  \E f \in NewFrames(c) \cup OldFrames(c) : HasValue(f, x)
  BY DEF FramesRight, NewRight, OldPrevious, NoneLost, Has
<1> QED BY <1>0, <1>1, <1>5, <1>6, <1>7, FramesRightThen

(* A step of a commit that merges, keeps or uploads what it has: each value  *)
(* it has after the step it had, or is right; none is lost.                  *)
LEMMA FramesMoved ==
    ASSUME Inv, Inv', QuietInv, SealedInv, Orderly, [Next]_vars, NEW c \in Commits,
           Active(c), pc[c] # "previous", FramesRight(c),
           \A f \in OldFrames(c)' : f \in OldFrames(c),
           \A x \in Cols \X Rows :
             /\ \A f \in NewFrames(c)' : HasValue(f, x) =>
                  \/ \E g \in NewFrames(c) : HasValue(g, x) /\ g.val[x] = f.val[x]
                  \/ f.val[x] \in Right(c, x)
             /\ (\E f \in NewFrames(c) : HasValue(f, x)) => \E f \in NewFrames(c)' : HasValue(f, x)
             /\ (\E f \in OldFrames(c) : HasValue(f, x)) =>
                  \E f \in NewFrames(c)' \cup OldFrames(c)' : HasValue(f, x)
             /\ IsPosted(c, x) => /\ OldInGroup(c, x)' => NewInGroup(c, x)'
                                  /\ \A g \in job'[c].groups : OverriddenIn(g, x)'
    PROVE  FramesRight(c)'
<1>0. pc[c] # "idle"
  BY DEF Active, Underway
<1>1. ASSUME NEW x \in Cols \X Rows
      PROVE  /\ \A f \in NewFrames(c) : HasValue(f, x) => f.val[x] \in Right(c, x)
             /\ \A f \in OldFrames(c) :
                  HasValue(f, x) => job[c].prev # None /\ f.val[x] \in Values(job[c].prev, x)
             /\ IsPosted(c, x) => \E f \in NewFrames(c) : HasValue(f, x)
             /\ job[c].prev # None /\ Values(job[c].prev, x) # {} =>
                  \E f \in NewFrames(c) \cup OldFrames(c) : HasValue(f, x)
  BY DEF FramesRight, NewRight, OldPrevious, NoneLost, Has
<1>2. ASSUME NEW x \in Cols \X Rows
      PROVE  /\ \A f \in NewFrames(c)' : HasValue(f, x) => f.val[x] \in Right(c, x)
             /\ \A f \in OldFrames(c)' :
                  HasValue(f, x) => job[c].prev # None /\ f.val[x] \in Values(job[c].prev, x)
  BY <1>1
<1>3. ASSUME NEW x \in Cols \X Rows
      PROVE  /\ IsPosted(c, x) => \E f \in NewFrames(c)' : HasValue(f, x)
             /\ job[c].prev # None /\ Values(job[c].prev, x) # {} =>
                  \E f \in NewFrames(c)' \cup OldFrames(c)' : HasValue(f, x)
  BY <1>1
<1> QED BY <1>0, <1>2, <1>3, FramesRightThen

(* What a commit was doing, when it had begun to merge. *)
LEMMA WorkInStage ==
    ASSUME ApartInv, NEW c \in Commits, InStages(c)
    PROVE  /\ pc[c] \in {"idle", "listing", "previous", "conflicts", "resolving"} =>
                job[c].fetch = {} /\ job[c].buffer = {} /\ job[c].merged = EmptyFrame
           /\ pc[c] \in {"merging", "uploading"} => job[c].fetch = {}
           /\ pc[c] = "uploading" => job[c].buffer = {} /\ job[c].merged = EmptyFrame
           /\ pc[c] \in {"listing", "previous", "conflicts"} => job[c].chunks = {} /\ job[c].groups = {}
           /\ pc[c] \in Underway => job[c].items = {}
           /\ \A x : ~HasValue(EmptyFrame, x)
<1>1. InTurn(c)
  BY DEF ApartInv
<1>2. ASSUME CurrentMetas(c) = {}
      PROVE  job[c].fetch = {} /\ job[c].buffer = {} /\ job[c].merged = EmptyFrame
  <2>1. /\ MetasOf(job[c].fetch) = {}
        /\ {MetaOf(f.frame) : f \in job[c].buffer} = {}
        /\ {MetaOf(d) : d \in {job[c].merged} \ {EmptyFrame}} = {}
    BY <1>2 DEF CurrentMetas
  <2> QED BY <2>1 DEF MetasOf
<1>3. \A x : ~HasValue(EmptyFrame, x)
  <2>1. DOMAIN EmptyFrame.val = {}
    BY DEF EmptyFrame
  <2> QED BY <2>1 DEF HasValue
<1> QED BY <1>1, <1>2, <1>3 DEF InTurn, InStages

LEMMA WorkAt ==
    ASSUME Inv, SealedInv, ApartInv, NEW c \in Commits
    PROVE  /\ pc[c] \in {"idle", "listing", "previous", "conflicts", "resolving"} =>
                job[c].fetch = {} /\ job[c].buffer = {} /\ job[c].merged = EmptyFrame
           /\ pc[c] \in {"merging", "uploading"} => job[c].fetch = {}
           /\ pc[c] = "uploading" => job[c].buffer = {} /\ job[c].merged = EmptyFrame
           /\ pc[c] \in {"listing", "previous", "conflicts"} => job[c].chunks = {} /\ job[c].groups = {}
           /\ pc[c] \in Underway => job[c].items = {}
           /\ \A x : ~HasValue(EmptyFrame, x)
BY WorkInStage DEF SealedInv

(* A post into the session of a commit is stored: it was answered before the *)
(* commit was sent, and did not fail.                                        *)
LEMMA PostedStored ==
    ASSUME Inv, SealedInv, PostsKnown, NEW c \in Commits, pc[c] # "idle",
           NEW p \in Posted(c), NEW k \in DOMAIN out[p]
    PROVE  /\ p \in Posts /\ p \in Requests /\ p \in Writers /\ job[c].session \in Sessions
           /\ k \in metas /\ k \in DOMAIN data /\ k.dir = job[c].session
           /\ \E shape \in PostShapes(k.dir) : shape \in Shapes /\ out[p][k] = FilledBy(p, shape)
           /\ \A x : x \in CellsOf(p) <=> HasValue(out[p][k], x)
           /\ out[p][k] \in DataFrames
<1>1. /\ p \in Posts /\ p \in Requests /\ p \in Writers /\ job[c].session \in Sessions
      /\ c \in CommitsOf(job[c].session)
  BY RequestAssumption, CommitBegun DEF Posted, PostsOf, Requests
<1>2. /\ pc \in [Requests -> Labels] /\ pc[p] \in {"acked", "failed"} /\ out[p][k] \in DataFrames
      /\ TasksKnown /\ UploadsTracked
  BY <1>1 DEF SealedInv, SessionsClosed, Posted, Answered, Inv, TypeOK, RequestsOK
<1>3. pc[p] = "acked" /\ \A l \in DOMAIN out[p] : l = k
  BY <1>1, <1>2 DEF PostsKnown
<1>4. tasks[p] = {}
  BY <1>1, <1>2, <1>3 DEF TasksKnown, QuietLabels
<1>5. k \in metas /\ k \in DOMAIN data
  BY <1>1, <1>2, <1>3, <1>4 DEF UploadsTracked
<1>6. k.dir = job[c].session
  BY <1>3 DEF Posted, PostsOf
<1>7. PICK shape \in PostShapes(k.dir) : out[p][k] = FilledBy(p, shape)
  BY <1>1 DEF PostsKnown
<1>8. shape \in Shapes
  BY <1>1, <1>6, <1>7, RequestAssumption
<1>9. \A x : x \in DOMAIN out[p][k].val <=> HasValue(out[p][k], x)
  BY <1>1, <1>7, FilledIs
<1>10. CellsOf(p) = DOMAIN out[p][k].val
  BY <1>3 DEF CellsOf
<1> QED BY <1>1, <1>2, <1>5, <1>6, <1>7, <1>8, <1>9, <1>10

(* What a commit finds in its session when it lists it is what was posted.   *)
LEMMA PostFound ==
    ASSUME Inv, QuietInv, SealedInv, PostsKnown, SessionsHoldPosts,
           NEW c \in Commits, pc[c] = "listing", NEW k \in metas, k.dir = job[c].session
    PROVE  /\ k \in DOMAIN data
           /\ \E p \in Posted(c) : k \in DOMAIN out[p] /\ data[k] = out[p][k]
<1>1. /\ job[c].session \in Sessions /\ c \in CommitsOf(job[c].session)
      /\ SessionsClosed /\ c \in Requests
  BY CommitBegun DEF SealedInv
<1>2. k \in DOMAIN data
  <2>1. ASSUME NEW r \in Requests, <<"data", k>> \in tasks[r]
        PROVE  FALSE
    BY <1>1, <2>1, StorerKnown
  <2> QED BY <2>1 DEF SealedInv, MetasFollowed
<1>3. \A d \in CommitsOf(k.dir) : pc[d] \notin Underway
  BY <1>1 DEF SessionsClosed, Underway
<1> QED BY <1>1, <1>2, <1>3 DEF SessionsHoldPosts, Posted, PostsOf

(* Of two posts that have the same file name, one has the cells of the other. *)
LEMMA SameCells ==
    ASSUME Inv, SealedInv, ContentsKnown, PostsKnown, DistinctNames, NEW c \in Commits, pc[c] # "idle",
           NEW p \in Posted(c), NEW q \in Posted(c), NEW k \in DOMAIN out[p], k \in DOMAIN out[q], NEW x
    PROVE  x \in CellsOf(p) <=> HasValue(out[q][k], x)
<1>1. /\ k.dir = job[c].session /\ job[c].session \in Sessions
      /\ p \in Writers /\ q \in Writers /\ p \in Requests /\ q \in Requests
      /\ x \in CellsOf(p) <=> HasValue(out[p][k], x)
  BY PostedStored
<1>2. PICK sp \in PostShapes(k.dir) : out[p][k] = FilledBy(p, sp)
  BY PostedStored
<1>3. PICK sq \in PostShapes(k.dir) : out[q][k] = FilledBy(q, sq)
  BY PostedStored
<1>4. MetaOf(out[p][k]) = MetaOf(out[q][k])
  BY <1>1 DEF ContentsKnown
<1>5. MetaOf(sp) = MetaOf(sq)
  <2>1. MetaOf(FilledBy(p, sp)) = MetaOf(sp)
    BY <1>1, FilledIs
  <2>2. MetaOf(FilledBy(q, sq)) = MetaOf(sq)
    BY <1>1, FilledIs
  <2> QED BY <1>2, <1>3, <1>4, <2>1, <2>2
<1>6. sp = sq
  BY <1>1, <1>5 DEF DistinctNames
<1>7. /\ HasValue(FilledBy(p, sp), x) <=> x \in sp.cols \X sp.rows
      /\ HasValue(FilledBy(q, sq), x) <=> x \in sq.cols \X sq.rows
  BY <1>1, FilledIs
<1> QED BY <1>1, <1>2, <1>3, <1>6, <1>7

(* A commit starts from what was posted into its session, all of it. *)
LEMMA ListRight ==
    ASSUME Inv, Inv', QuietInv, SealedInv, ApartInv, PostsKnown, SessionsHoldPosts, Orderly,
           DistinctNames, [Next]_vars, NEW c \in Commits, ListMetas(c), Active(c)'
    PROVE  FramesRight(c)'
<1> DEFINE found == {k \in metas : k.dir = job[c].session}
<1>0. /\ pc[c] = "listing" /\ data' = data /\ job \in [Commits -> Job]
      /\ job' = [job EXCEPT ![c].items = [chunk : found, old : {FALSE}]]
      /\ pc \in [Requests -> Labels] /\ c \in Requests
      /\ pc' = [pc EXCEPT ![c] = IF found = {} THEN "failed"
                                 ELSE IF job[c].prev = None THEN "conflicts" ELSE "previous"]
  BY CommitBegun DEF ListMetas, Goto, storage, Inv, TypeOK, RequestsOK
<1>1. /\ job[c].fetch = {} /\ job[c].buffer = {} /\ job[c].merged = EmptyFrame
      /\ job[c].chunks = {} /\ job[c].groups = {} /\ \A x : ~HasValue(EmptyFrame, x)
  BY <1>0, WorkAt
<1>2. /\ job'[c].items = [chunk : found, old : {FALSE}]
      /\ job'[c].fetch = {} /\ job'[c].buffer = {} /\ job'[c].merged = EmptyFrame
      /\ job'[c].chunks = {} /\ job'[c].groups = {}
      /\ pc'[c] # "uploading" /\ (pc'[c] # "previous" => job[c].prev = None)
  <2>1. job[c] \in Job
    BY <1>0
  <2>2. pc'[c] # "failed"
    BY DEF Active, Underway
  <2> HIDE DEF found
  <2> QED BY <1>0, <1>1, <2>1, <2>2 DEF Job
<1>3. ItemsAt(c)' = [chunk : found, old : {FALSE}]
  BY <1>2 DEF ItemsAt
<1>4. /\ \A i \in [chunk : found, old : {FALSE}] : i.chunk \in found /\ i.old = FALSE
      /\ \A k \in found : \E i \in [chunk : found, old : {FALSE}] : i.chunk = k /\ ~i.old
  <2> SUFFICES \A k \in found : \E i \in [chunk : found, old : {FALSE}] : i.chunk = k /\ ~i.old
    OBVIOUS
  <2>1. ASSUME NEW k \in found
        PROVE  [chunk |-> k, old |-> FALSE] \in [chunk : found, old : {FALSE}]
    OBVIOUS
  <2> QED BY <2>1
<1> HIDE DEF found
<1>5. ASSUME NEW f
      PROVE  f \in NewFrames(c)' <=> f = EmptyFrame \/ \E k \in found : f = data[k]
  <2>1. f \in NewFrames(c)' <=>
          \/ f = job'[c].merged
          \/ \E i \in ItemsAt(c)' : ~i.old /\ f = data'[i.chunk]
          \/ \E b \in job'[c].buffer : ~b.old /\ f = b.frame
          \/ \E k \in job'[c].chunks : f = data'[k]
          \/ pc'[c] = "uploading" /\ \E k \in DOMAIN out'[c] : f = out'[c][k]
    BY FramesThen
  <2>2. (\E i \in ItemsAt(c)' : ~i.old /\ f = data'[i.chunk]) <=> \E k \in found : f = data[k]
    BY <1>0, <1>3, <1>4
  <2> QED BY <1>2, <2>1, <2>2
<1>6. \A f : f \notin OldFrames(c)'
  <2> SUFFICES ASSUME NEW f, f \in OldFrames(c)'
               PROVE  FALSE
    OBVIOUS
  <2>1. \/ \E i \in ItemsAt(c)' : i.old /\ f = data'[i.chunk]
        \/ \E b \in job'[c].buffer : b.old /\ f = b.frame
    BY FramesThen
  <2> QED BY <1>2, <1>3, <1>4, <2>1
<1>7. \A k \in found : \E p \in Posted(c) : k \in DOMAIN out[p] /\ data[k] = out[p][k]
  BY <1>0, PostFound DEF found
<1>8. ASSUME NEW x \in Cols \X Rows, NEW f \in NewFrames(c)', HasValue(f, x)
      PROVE  f.val[x] \in Right(c, x)
  <2>1. PICK k \in found : f = data[k]
    BY <1>1, <1>5, <1>8
  <2>2. PICK p \in Posted(c) : k \in DOMAIN out[p] /\ data[k] = out[p][k]
    BY <1>7
  <2>3. PICK shape : out[p][k] = FilledBy(p, shape)
    BY <1>0, <2>2, PostedStored
  <2>4. p \in Writers /\ x \in CellsOf(p)
    BY <1>0, <1>8, <2>1, <2>2, PostedStored
  <2>5. f.val[x] = p
    BY <1>8, <2>1, <2>2, <2>3, <2>4, FilledIs
  <2> QED BY <2>4, <2>5 DEF Right, IsPosted
<1>9. ASSUME NEW x \in Cols \X Rows, IsPosted(c, x)
      PROVE  \E f \in NewFrames(c)' : HasValue(f, x)
  <2>1. PICK p \in Posted(c) : x \in CellsOf(p)
    BY <1>9 DEF IsPosted
  <2>2. PICK k \in DOMAIN out[p] : TRUE
    BY <2>1 DEF Posted, PostsOf
  <2>3. k \in found
    BY <1>0, <2>2, PostedStored DEF found
  <2>4. PICK q \in Posted(c) : k \in DOMAIN out[q] /\ data[k] = out[q][k]
    BY <1>7, <2>3
  <2>5. HasValue(data[k], x)
    BY <1>0, <2>1, <2>2, <2>4, SameCells DEF ApartInv
  <2> QED BY <1>5, <2>3, <2>5
<1>10. ASSUME NEW x
       PROVE  ~OldInGroup(c, x)'
  BY <1>2 DEF OldInGroup
<1>11. \A g : g \notin job'[c].groups
  BY <1>2
<1> QED BY <1>0, <1>2, <1>6, <1>8, <1>9, <1>10, <1>11, FramesRightThen

(* ... to which an update adds what the previous bulk holds. *)
LEMMA PreviousRight ==
    ASSUME Inv, Inv', QuietInv, SealedInv, ApartInv, Orderly, [Next]_vars, NEW c \in Commits,
           LoadPrevious(c), FramesRight(c)
    PROVE  FramesRight(c)'
<1> DEFINE prev == job[c].prev
           olds == [chunk : catalogs[prev].chunks, old : {TRUE}]
<1>0. /\ pc[c] = "previous" /\ data' = data /\ job \in [Commits -> Job] /\ job[c] \in Job
      /\ job' = [job EXCEPT ![c].items = @ \cup olds]
      /\ pc \in [Requests -> Labels] /\ c \in Requests /\ out' = out
      /\ pc' = [pc EXCEPT ![c] = "conflicts"] /\ prev \in DOMAIN catalogs
  BY CommitBegun DEF LoadPrevious, Goto, storage, Inv, TypeOK, RequestsOK
<1>1. /\ job[c].fetch = {} /\ job[c].buffer = {} /\ job[c].merged = EmptyFrame
      /\ job[c].chunks = {} /\ job[c].groups = {} /\ \A x : ~HasValue(EmptyFrame, x)
  BY <1>0, WorkAt
<1>2. /\ job'[c].items = job[c].items \cup olds
      /\ job'[c].fetch = {} /\ job'[c].buffer = {} /\ job'[c].merged = job[c].merged
      /\ job'[c].chunks = {} /\ job'[c].groups = {} /\ pc'[c] = "conflicts"
  <2> HIDE DEF prev, olds
  <2> QED BY <1>0, <1>1 DEF Job
<1>3. ItemsAt(c)' = ItemsAt(c) \cup olds
  <2> HIDE DEF prev, olds
  <2> QED BY <1>1, <1>2 DEF ItemsAt
<1>4. /\ \A i \in olds : i.chunk \in catalogs[prev].chunks /\ i.old = TRUE
      /\ \A k \in catalogs[prev].chunks : \E i \in olds : i.chunk = k /\ i.old
  <2> SUFFICES \A k \in catalogs[prev].chunks : \E i \in olds : i.chunk = k /\ i.old
    OBVIOUS
  <2>1. ASSUME NEW k \in catalogs[prev].chunks
        PROVE  [chunk |-> k, old |-> TRUE] \in olds
    OBVIOUS
  <2> QED BY <2>1
<1>5. None \notin Bulks /\ prev \in Bulks /\ prev \in AckedBulks
  BY <1>0, CommitBegun, RequestAssumption DEF Inv, TypeOK, StorageOK
<1>6. catalogs[prev].chunks \subseteq DOMAIN data
  BY <1>0, <1>5, BulkStays DEF Orderly
<1> HIDE DEF olds
<1>7. ASSUME NEW f
      PROVE  f \in NewFrames(c)' <=> f \in NewFrames(c)
  <2>1. f \in NewFrames(c)' <=>
          \/ f = job'[c].merged
          \/ \E i \in ItemsAt(c)' : ~i.old /\ f = data'[i.chunk]
          \/ \E b \in job'[c].buffer : ~b.old /\ f = b.frame
          \/ \E k \in job'[c].chunks : f = data'[k]
          \/ pc'[c] = "uploading" /\ \E k \in DOMAIN out'[c] : f = out'[c][k]
    BY FramesThen
  <2>2. f \in NewFrames(c) <=>
          \/ f = job[c].merged
          \/ \E i \in ItemsAt(c) : ~i.old /\ f = data[i.chunk]
          \/ \E b \in job[c].buffer : ~b.old /\ f = b.frame
          \/ \E k \in job[c].chunks : f = data[k]
          \/ pc[c] = "uploading" /\ \E k \in DOMAIN out[c] : f = out[c][k]
    BY FramesAre
  <2> QED BY <1>0, <1>1, <1>2, <1>3, <1>4, <2>1, <2>2
<1>8. ASSUME NEW f
      PROVE  f \in OldFrames(c)' <=> f \in OldFrames(c) \/ \E k \in catalogs[prev].chunks : f = data[k]
  <2>1. f \in OldFrames(c)' <=>
          \/ \E i \in ItemsAt(c)' : i.old /\ f = data'[i.chunk]
          \/ \E b \in job'[c].buffer : b.old /\ f = b.frame
    BY FramesThen
  <2>2. f \in OldFrames(c) <=>
          \/ \E i \in ItemsAt(c) : i.old /\ f = data[i.chunk]
          \/ \E b \in job[c].buffer : b.old /\ f = b.frame
    BY FramesAre
  <2> QED BY <1>0, <1>1, <1>2, <1>3, <1>4, <2>1, <2>2
<1>9. ASSUME NEW x \in Cols \X Rows
      PROVE  /\ \A f \in NewFrames(c) : HasValue(f, x) => f.val[x] \in Right(c, x)
             /\ \A f \in OldFrames(c) : HasValue(f, x) => prev # None /\ f.val[x] \in Values(prev, x)
             /\ IsPosted(c, x) => \E f \in NewFrames(c) : HasValue(f, x)
  BY DEF FramesRight, NewRight, OldPrevious, NoneLost, Has
<1>10. ASSUME NEW x \in Cols \X Rows
       PROVE  /\ \A k \in catalogs[prev].chunks : HasValue(data[k], x) => data[k].val[x] \in Values(prev, x)
              /\ Values(prev, x) # {} => \E k \in catalogs[prev].chunks : HasValue(data[k], x)
  <2> HIDE DEF prev
  <2> QED BY <1>6 DEF Values
<1>11. ASSUME NEW x \in Cols \X Rows
       PROVE  /\ \A f \in NewFrames(c)' : HasValue(f, x) => f.val[x] \in Right(c, x)
              /\ \A f \in OldFrames(c)' : HasValue(f, x) => prev # None /\ f.val[x] \in Values(prev, x)
              /\ IsPosted(c, x) => \E f \in NewFrames(c)' : HasValue(f, x)
              /\ Values(prev, x) # {} => \E f \in NewFrames(c)' \cup OldFrames(c)' : HasValue(f, x)
  <2> HIDE DEF prev
  <2> QED BY <1>5, <1>7, <1>8, <1>9, <1>10
<1>12. ASSUME NEW x
       PROVE  ~OldInGroup(c, x)'
  BY <1>2 DEF OldInGroup
<1>13. \A g : g \notin job'[c].groups
  BY <1>2
<1> QED BY <1>0, <1>2, <1>11, <1>12, <1>13, FramesRightThen

(* A chunk of the session and one of the previous bulk that have a cell in   *)
(* common are in conflict.                                                   *)
LEMMA OverriddenConflict ==
    ASSUME Inv, SealedInv, ApartInv, NEW c \in Commits,
           NEW i \in job[c].items, NEW j \in job[c].items, i # j,
           NEW x, HasValue(data[i.chunk], x), HasValue(data[j.chunk], x)
    PROVE  InConflict(i, j)
<1>1. i \in ItemsAt(c) /\ j \in ItemsAt(c) /\ InReach(c)
  BY DEF ItemsAt, SealedInv
<1>2. i.chunk \in DOMAIN data /\ j.chunk \in DOMAIN data
  BY <1>1 DEF InReach
<1>3. data[i.chunk] \in DataFrames /\ data[j.chunk] \in DataFrames
  BY <1>1, FramesType
<1>4. OverlapWith(MetaOf(data[i.chunk]), MetaOf(data[j.chunk]))
  BY <1>3, CellShared
<1> QED BY <1>2, <1>4 DEF InConflict, ApartInv, ContentsKnown

(* ... so that a commit that keeps chunks in no conflict keeps no value that *)
(* a post should have replaced, and the others are in groups with such posts. *)
LEMMA FindConflictsRight ==
    ASSUME Inv, Inv', QuietInv, SealedInv, ApartInv, Orderly, [Next]_vars, NEW c \in Commits,
           FindConflicts(c), FramesRight(c), Active(c)'
    PROVE  FramesRight(c)'
<1> DEFINE items  == job[c].items
           groups == ConflictGroups(items)
<1>0. /\ pc[c] = "conflicts" /\ data' = data /\ job \in [Commits -> Job] /\ job[c] \in Job
      /\ job' = [job EXCEPT ![c].items = {}, ![c].groups = groups,
                            ![c].chunks = {i.chunk : i \in items \ UNION groups}]
      /\ pc \in [Requests -> Labels] /\ c \in Requests
      /\ pc'[c] \in {"failed", "resolving"}
  BY CommitBegun DEF FindConflicts, Goto, storage, Inv, TypeOK, RequestsOK
<1>1. /\ job[c].fetch = {} /\ job[c].buffer = {} /\ job[c].merged = EmptyFrame
      /\ job[c].chunks = {} /\ job[c].groups = {} /\ \A x : ~HasValue(EmptyFrame, x)
  BY <1>0, WorkAt
<1>2. \A g \in groups : g \subseteq items
  BY GroupsType
<1>3. \A i \in items : i.old \in BOOLEAN
  BY <1>0, SidesKnown
<1>4. /\ \A i \in items, j \in items : InConflict(i, j) => i \in UNION groups
      /\ \A g \in groups : \A i \in g, j \in items : InConflict(i, j) => j \in g
  <2>1. ASSUME NEW i \in items, NEW j \in items, InConflict(i, j)
        PROVE  i \in UNION groups
    BY <2>1, ConflictsAreGrouped
  <2>2. ASSUME NEW g \in groups, NEW i \in g, NEW j \in items, InConflict(i, j)
        PROVE  j \in g
    <3>1. PICK m \in items : g = GroupOf(m, items)
      BY DEF ConflictGroups
    <3> QED BY <2>2, <3>1, GroupClosed
  <2> QED BY <2>1, <2>2
<1> HIDE DEF groups
<1>5. /\ job'[c].items = {} /\ job'[c].groups = groups
      /\ job'[c].chunks = {i.chunk : i \in items \ UNION groups}
      /\ job'[c].fetch = {} /\ job'[c].buffer = {} /\ job'[c].merged = EmptyFrame
      /\ pc'[c] = "resolving"
  <2>1. pc'[c] # "failed"
    BY DEF Active, Underway
  <2> QED BY <1>0, <1>1, <2>1 DEF Job
<1>6. ItemsAt(c)' = UNION groups /\ ItemsAt(c) = items
  BY <1>1, <1>5 DEF ItemsAt
<1> HIDE DEF items
<1>7. ASSUME NEW f
      PROVE  f \in NewFrames(c) <=> f = EmptyFrame \/ \E i \in items : ~i.old /\ f = data[i.chunk]
  <2>1. f \in NewFrames(c) <=>
          \/ f = job[c].merged
          \/ \E i \in ItemsAt(c) : ~i.old /\ f = data[i.chunk]
          \/ \E b \in job[c].buffer : ~b.old /\ f = b.frame
          \/ \E k \in job[c].chunks : f = data[k]
          \/ pc[c] = "uploading" /\ \E k \in DOMAIN out[c] : f = out[c][k]
    BY FramesAre
  <2> QED BY <1>0, <1>1, <1>6, <2>1
<1>8. ASSUME NEW f
      PROVE  f \in NewFrames(c)' <=>
               \/ f = EmptyFrame
               \/ \E i \in UNION groups : ~i.old /\ f = data[i.chunk]
               \/ \E i \in items \ UNION groups : f = data[i.chunk]
  <2>1. f \in NewFrames(c)' <=>
          \/ f = job'[c].merged
          \/ \E i \in ItemsAt(c)' : ~i.old /\ f = data'[i.chunk]
          \/ \E b \in job'[c].buffer : ~b.old /\ f = b.frame
          \/ \E k \in job'[c].chunks : f = data'[k]
          \/ pc'[c] = "uploading" /\ \E k \in DOMAIN out'[c] : f = out'[c][k]
    BY FramesThen
  <2> QED BY <1>0, <1>5, <1>6, <2>1
<1>9. ASSUME NEW f
      PROVE  /\ f \in OldFrames(c) <=> \E i \in items : i.old /\ f = data[i.chunk]
             /\ f \in OldFrames(c)' <=> \E i \in UNION groups : i.old /\ f = data[i.chunk]
  <2>1. f \in OldFrames(c) <=>
          \/ \E i \in ItemsAt(c) : i.old /\ f = data[i.chunk]
          \/ \E b \in job[c].buffer : b.old /\ f = b.frame
    BY FramesAre
  <2>2. f \in OldFrames(c)' <=>
          \/ \E i \in ItemsAt(c)' : i.old /\ f = data'[i.chunk]
          \/ \E b \in job'[c].buffer : b.old /\ f = b.frame
    BY FramesThen
  <2> QED BY <1>0, <1>1, <1>5, <1>6, <2>1, <2>2
<1>10. \A i \in UNION groups : i \in items
  BY <1>2 DEF items
<1>11. ASSUME NEW x \in Cols \X Rows, IsPosted(c, x), NEW i \in items, i.old, HasValue(data[i.chunk], x)
       PROVE  \E j \in items : ~j.old /\ HasValue(data[j.chunk], x) /\ InConflict(i, j)
  <2>1. \E f \in NewFrames(c) : HasValue(f, x)
    BY <1>11 DEF FramesRight, NoneLost, Has
  <2>2. PICK j \in items : ~j.old /\ HasValue(data[j.chunk], x)
    BY <1>1, <1>7, <2>1
  <2>3. InConflict(i, j)
    BY <1>11, <2>2, OverriddenConflict DEF items
  <2> QED BY <2>2, <2>3
<1>12. ASSUME NEW x \in Cols \X Rows, NEW f \in NewFrames(c)', HasValue(f, x)
       PROVE  \/ \E g \in NewFrames(c) : HasValue(g, x) /\ g.val[x] = f.val[x]
              \/ f.val[x] \in Right(c, x)
  <2>1. PICK i \in items : f = data[i.chunk] /\ (i.old => i \notin UNION groups)
    BY <1>1, <1>8, <1>10, <1>12
  <2>2. CASE ~i.old
    BY <1>7, <1>12, <2>1, <2>2
  <2>3. CASE i.old
    <3>1. ~IsPosted(c, x)
      BY <1>4, <1>11, <1>12, <2>1, <2>3 DEF items
    <3>2. job[c].prev # None /\ f.val[x] \in Values(job[c].prev, x)
      <4>1. f \in OldFrames(c)
        BY <1>9, <2>1, <2>3
      <4> QED BY <1>12, <4>1 DEF FramesRight, OldPrevious
    <3> QED BY <3>1, <3>2 DEF Right
  <2> QED BY <2>2, <2>3
<1>13. /\ \A f \in OldFrames(c)' : f \in OldFrames(c)
       /\ \A f \in NewFrames(c) : f \in NewFrames(c)'
       /\ \A f \in OldFrames(c) : f \in OldFrames(c)' \/ f \in NewFrames(c)'
  BY <1>7, <1>8, <1>9, <1>10
<1>14. ASSUME NEW x \in Cols \X Rows, IsPosted(c, x)
       PROVE  ~OldInGroup(c, x)' /\ \A g \in job'[c].groups : OverriddenIn(g, x)'
  <2>1. ~OldInGroup(c, x)'
    BY <1>5 DEF OldInGroup
  <2>2. ASSUME NEW g \in groups
        PROVE  OverriddenIn(g, x)'
    <3> SUFFICES ASSUME NEW i \in g, i.old, HasValue(data[i.chunk], x)
                 PROVE  \E j \in g : ~j.old /\ HasValue(data[j.chunk], x)
      BY <1>0 DEF OverriddenIn, HasValue
    <3>1. i \in items
      BY <1>10
    <3> QED BY <1>4, <1>11, <1>14, <3>1 DEF items
  <2> QED BY <1>5, <2>1, <2>2
<1> QED BY <1>0, <1>12, <1>13, <1>14, FramesMoved DEF Active

(* A step after which a commit has the same frames. *)
LEMMA FramesSame ==
    ASSUME Inv, Inv', QuietInv, SealedInv, Orderly, [Next]_vars, NEW c \in Commits,
           Active(c), pc[c] # "previous", FramesRight(c),
           \A f : (f \in NewFrames(c)' <=> f \in NewFrames(c)) /\ (f \in OldFrames(c)' <=> f \in OldFrames(c)),
           \A x : OldInGroup(c, x)' /\ IsPosted(c, x) => NewInGroup(c, x)',
           \A x : \A g \in job'[c].groups : g \in job[c].groups /\ (OverriddenIn(g, x)' <=> OverriddenIn(g, x))
    PROVE  FramesRight(c)'
<1>1. NewFrames(c)' = NewFrames(c) /\ OldFrames(c)' = OldFrames(c)
  <2>1. \A f : f \in NewFrames(c)' <=> f \in NewFrames(c)
    OBVIOUS
  <2>2. \A f : f \in OldFrames(c)' <=> f \in OldFrames(c)
    OBVIOUS
  <2> QED BY <2>1, <2>2
<1>2. ASSUME NEW x \in Cols \X Rows, IsPosted(c, x), NEW g \in job'[c].groups
      PROVE  OverriddenIn(g, x)'
  BY <1>2, OverriddenIs DEF FramesRight
<1> QED BY <1>1, <1>2, FramesMoved

(* The next group: as its items were. *)
LEMMA NextGroupRight ==
    ASSUME Inv, Inv', QuietInv, SealedInv, ApartInv, Orderly, [Next]_vars, NEW c \in Commits,
           NextGroup(c), FramesRight(c)
    PROVE  FramesRight(c)'
<1>0. /\ pc[c] = "resolving" /\ data' = data /\ job \in [Commits -> Job] /\ job[c] \in Job
      /\ pc \in [Requests -> Labels] /\ c \in Requests /\ out' = out /\ pc'[c] = "fetching"
  BY CommitBegun DEF NextGroup, Goto, storage, Inv, TypeOK, RequestsOK
<1>1. /\ job[c].fetch = {} /\ job[c].buffer = {} /\ job[c].merged = EmptyFrame
      /\ job[c].items = {} /\ \A x : ~HasValue(EmptyFrame, x)
  BY <1>0, WorkAt DEF Underway
<1>2. PICK g \in job[c].groups : job' = [job EXCEPT ![c].groups = @ \ {g}, ![c].fetch = g]
  BY DEF NextGroup
<1>3. /\ job'[c].items = {} /\ job'[c].groups = job[c].groups \ {g} /\ job'[c].fetch = g
      /\ job'[c].chunks = job[c].chunks /\ job'[c].buffer = {} /\ job'[c].merged = job[c].merged
  BY <1>0, <1>1, <1>2 DEF Job
<1>4. ItemsAt(c)' = ItemsAt(c)
  BY <1>1, <1>3 DEF ItemsAt
<1>5. ASSUME NEW f
      PROVE  f \in NewFrames(c)' <=> f \in NewFrames(c)
  <2>1. f \in NewFrames(c)' <=>
          \/ f = job'[c].merged
          \/ \E i \in ItemsAt(c)' : ~i.old /\ f = data'[i.chunk]
          \/ \E b \in job'[c].buffer : ~b.old /\ f = b.frame
          \/ \E k \in job'[c].chunks : f = data'[k]
          \/ pc'[c] = "uploading" /\ \E k \in DOMAIN out'[c] : f = out'[c][k]
    BY FramesThen
  <2>2. f \in NewFrames(c) <=>
          \/ f = job[c].merged
          \/ \E i \in ItemsAt(c) : ~i.old /\ f = data[i.chunk]
          \/ \E b \in job[c].buffer : ~b.old /\ f = b.frame
          \/ \E k \in job[c].chunks : f = data[k]
          \/ pc[c] = "uploading" /\ \E k \in DOMAIN out[c] : f = out[c][k]
    BY FramesAre
  <2> QED BY <1>0, <1>1, <1>3, <1>4, <2>1, <2>2
<1>6. ASSUME NEW f
      PROVE  f \in OldFrames(c)' <=> f \in OldFrames(c)
  <2>1. f \in OldFrames(c)' <=>
          \/ \E i \in ItemsAt(c)' : i.old /\ f = data'[i.chunk]
          \/ \E b \in job'[c].buffer : b.old /\ f = b.frame
    BY FramesThen
  <2>2. f \in OldFrames(c) <=>
          \/ \E i \in ItemsAt(c) : i.old /\ f = data[i.chunk]
          \/ \E b \in job[c].buffer : b.old /\ f = b.frame
    BY FramesAre
  <2> QED BY <1>0, <1>1, <1>3, <1>4, <2>1, <2>2
<1>7. ASSUME NEW x, IsPosted(c, x), OldInGroup(c, x)'
      PROVE  NewInGroup(c, x)'
  <2>1. \E i \in g : i.old /\ HasValue(data[i.chunk], x)
    BY <1>0, <1>3, <1>7 DEF OldInGroup, HasValue
  <2>2. x \in Cols \X Rows
    <3>1. PICK i \in ItemsAt(c) : HasValue(data[i.chunk], x)
      BY <2>1 DEF ItemsAt
    <3> QED BY <3>1, FramesType, HasInside DEF SealedInv
  <2>3. OverriddenIn(g, x)
    BY <1>7, <2>2, OverriddenIs DEF FramesRight
  <2>4. \E i \in g : ~i.old /\ HasValue(data[i.chunk], x)
    BY <2>1, <2>3 DEF OverriddenIn
  <2> QED BY <1>0, <1>3, <2>4 DEF NewInGroup, HasValue
<1>8. \A x : \A h \in job'[c].groups : h \in job[c].groups /\ (OverriddenIn(h, x)' <=> OverriddenIn(h, x))
  BY <1>0, <1>3 DEF OverriddenIn, HasValue
<1> QED BY <1>0, <1>5, <1>6, <1>7, <1>8, FramesSame DEF Active, Underway

(* A chunk downloaded is the frame it was. *)
LEMMA FetchRight ==
    ASSUME Inv, Inv', QuietInv, SealedInv, ApartInv, Orderly, [Next]_vars, NEW c \in Commits,
           NEW i \in job[c].fetch, FetchChunk(c, i), FramesRight(c)
    PROVE  FramesRight(c)'
<1> DEFINE b == [old |-> i.old, frame |-> data[i.chunk]]
<1>0. /\ pc[c] = "fetching" /\ data' = data /\ job \in [Commits -> Job] /\ job[c] \in Job
      /\ pc \in [Requests -> Labels] /\ c \in Requests /\ out' = out
  BY CommitBegun DEF FetchChunk, storage, Inv, TypeOK, RequestsOK
<1>1. i \in ItemsAt(c) /\ i.chunk \in DOMAIN data /\ b.old = i.old /\ b.frame = data[i.chunk]
  BY DEF ItemsAt, SealedInv, InReach
<1>2. /\ job' = [job EXCEPT ![c].fetch = @ \ {i}, ![c].buffer = @ \cup {b}]
      /\ pc'[c] \in {"merging", "fetching"}
  BY <1>0, <1>1 DEF FetchChunk, Goto
<1> HIDE DEF b
<1>3. /\ job'[c].items = job[c].items /\ job'[c].groups = job[c].groups
      /\ job'[c].fetch = job[c].fetch \ {i} /\ job'[c].buffer = job[c].buffer \cup {b}
      /\ job'[c].chunks = job[c].chunks /\ job'[c].merged = job[c].merged
  BY <1>0, <1>2 DEF Job
<1>4. /\ \A j : j \in ItemsAt(c)' => j \in ItemsAt(c)
      /\ \A j : j \in ItemsAt(c) => j \in ItemsAt(c)' \/ j = i
  BY <1>3 DEF ItemsAt
<1>5. ASSUME NEW f
      PROVE  f \in NewFrames(c)' <=> f \in NewFrames(c)
  <2>1. f \in NewFrames(c)' <=>
          \/ f = job'[c].merged
          \/ \E j \in ItemsAt(c)' : ~j.old /\ f = data'[j.chunk]
          \/ \E a \in job'[c].buffer : ~a.old /\ f = a.frame
          \/ \E k \in job'[c].chunks : f = data'[k]
          \/ pc'[c] = "uploading" /\ \E k \in DOMAIN out'[c] : f = out'[c][k]
    BY FramesThen
  <2>2. f \in NewFrames(c) <=>
          \/ f = job[c].merged
          \/ \E j \in ItemsAt(c) : ~j.old /\ f = data[j.chunk]
          \/ \E a \in job[c].buffer : ~a.old /\ f = a.frame
          \/ \E k \in job[c].chunks : f = data[k]
          \/ pc[c] = "uploading" /\ \E k \in DOMAIN out[c] : f = out[c][k]
    BY FramesAre
  <2>3. (\E j \in ItemsAt(c) : ~j.old /\ f = data[j.chunk]) \/ (\E a \in job[c].buffer : ~a.old /\ f = a.frame)
          <=> (\E j \in ItemsAt(c)' : ~j.old /\ f = data[j.chunk]) \/ (\E a \in job'[c].buffer : ~a.old /\ f = a.frame)
    BY <1>1, <1>3, <1>4
  <2> QED BY <1>0, <1>2, <1>3, <2>1, <2>2, <2>3
<1>6. ASSUME NEW f
      PROVE  f \in OldFrames(c)' <=> f \in OldFrames(c)
  <2>1. f \in OldFrames(c)' <=>
          \/ \E j \in ItemsAt(c)' : j.old /\ f = data'[j.chunk]
          \/ \E a \in job'[c].buffer : a.old /\ f = a.frame
    BY FramesThen
  <2>2. f \in OldFrames(c) <=>
          \/ \E j \in ItemsAt(c) : j.old /\ f = data[j.chunk]
          \/ \E a \in job[c].buffer : a.old /\ f = a.frame
    BY FramesAre
  <2> QED BY <1>0, <1>1, <1>3, <1>4, <2>1, <2>2
<1>7. ASSUME NEW x
      PROVE  /\ OldInGroup(c, x)' => OldInGroup(c, x)
             /\ NewInGroup(c, x) => NewInGroup(c, x)'
  BY <1>0, <1>1, <1>3 DEF OldInGroup, NewInGroup, HasValue
<1>8. ASSUME NEW x, IsPosted(c, x), OldInGroup(c, x)'
      PROVE  NewInGroup(c, x)'
  <2>1. OldInGroup(c, x)
    BY <1>7, <1>8
  <2>2. x \in Cols \X Rows
    <3>1. \/ \E j \in ItemsAt(c) : HasValue(data[j.chunk], x)
          \/ \E a \in job[c].buffer : HasValue(a.frame, x)
      BY <2>1 DEF ItemsAt, OldInGroup
    <3> QED BY <3>1, FramesType, HasInside DEF SealedInv
  <2> QED BY <1>7, <1>8, <2>1, <2>2, OverriddenIs DEF FramesRight
<1>9. \A x : \A h \in job'[c].groups : h \in job[c].groups /\ (OverriddenIn(h, x)' <=> OverriddenIn(h, x))
  BY <1>0, <1>3 DEF OverriddenIn, HasValue
<1> QED BY <1>0, <1>5, <1>6, <1>8, <1>9, FramesSame DEF Active, Underway

(* Merging a frame: the chunks of the session are merged before those of the *)
(* previous bulk, and what is merged first is what is kept.                  *)
LEMMA MergeRight ==
    ASSUME Inv, Inv', QuietInv, SealedInv, ApartInv, Orderly, [Next]_vars, NEW c \in Commits,
           NEW a \in job[c].buffer, MergeChunk(c, a), FramesRight(c)
    PROVE  FramesRight(c)'
<1> DEFINE m == CombineFirst(job[c].merged, a.frame)
<1>0. /\ pc[c] = "merging" /\ data' = data /\ job \in [Commits -> Job] /\ job[c] \in Job
      /\ pc' = pc /\ c \in Requests /\ out' = out
      /\ job' = [job EXCEPT ![c].merged = m, ![c].buffer = @ \ {a}]
      /\ a.old => \A g \in job[c].buffer : g.old
  BY CommitBegun DEF MergeChunk, storage, Inv, TypeOK, RequestsOK
<1>1. job[c].fetch = {} /\ job[c].items = {}
  BY <1>0, WorkAt DEF Underway
<1>2. job[c].merged \in DataFrames \cup {EmptyFrame} /\ a.frame \in DataFrames
  BY WorkKnown DEF Inv
<1>3. ASSUME NEW x
      PROVE  /\ HasValue(job[c].merged, x) => HasValue(m, x) /\ m.val[x] = job[c].merged.val[x]
             /\ HasValue(a.frame, x) => HasValue(m, x)
             /\ HasValue(m, x) /\ ~HasValue(job[c].merged, x) =>
                  HasValue(a.frame, x) /\ m.val[x] = a.frame.val[x]
  BY <1>2, CombineIs
<1> HIDE DEF m
<1>4. /\ job'[c].items = {} /\ job'[c].groups = job[c].groups
      /\ job'[c].fetch = {} /\ job'[c].buffer = job[c].buffer \ {a}
      /\ job'[c].chunks = job[c].chunks /\ job'[c].merged = m
  BY <1>0, <1>1 DEF Job
<1>5. ItemsAt(c)' = ItemsAt(c)
  BY <1>1, <1>4 DEF ItemsAt
<1>6. ASSUME NEW f
      PROVE  /\ f \in NewFrames(c)' => f = m \/ f \in NewFrames(c)
             /\ f \in NewFrames(c) => f \in NewFrames(c)' \/ f = job[c].merged \/ f = a.frame
             /\ ~a.old => a.frame \in NewFrames(c)
             /\ m \in NewFrames(c)' /\ job[c].merged \in NewFrames(c)
  <2>1. /\ f \in NewFrames(c)' <=>
             \/ f = job'[c].merged
             \/ \E j \in ItemsAt(c)' : ~j.old /\ f = data'[j.chunk]
             \/ \E b \in job'[c].buffer : ~b.old /\ f = b.frame
             \/ \E k \in job'[c].chunks : f = data'[k]
             \/ pc'[c] = "uploading" /\ \E k \in DOMAIN out'[c] : f = out'[c][k]
        /\ m = job'[c].merged => m \in NewFrames(c)'
    BY FramesThen
  <2>2. /\ f \in NewFrames(c) <=>
             \/ f = job[c].merged
             \/ \E j \in ItemsAt(c) : ~j.old /\ f = data[j.chunk]
             \/ \E b \in job[c].buffer : ~b.old /\ f = b.frame
             \/ \E k \in job[c].chunks : f = data[k]
             \/ pc[c] = "uploading" /\ \E k \in DOMAIN out[c] : f = out[c][k]
        /\ job[c].merged \in NewFrames(c)
        /\ ~a.old => a.frame \in NewFrames(c)
    BY FramesAre
  <2> QED BY <1>0, <1>4, <1>5, <2>1, <2>2
<1>7. ASSUME NEW f
      PROVE  /\ f \in OldFrames(c)' => f \in OldFrames(c)
             /\ f \in OldFrames(c) => f \in OldFrames(c)' \/ f = a.frame
             /\ a.old => a.frame \in OldFrames(c)
  <2>1. f \in OldFrames(c)' <=>
          \/ \E j \in ItemsAt(c)' : j.old /\ f = data'[j.chunk]
          \/ \E b \in job'[c].buffer : b.old /\ f = b.frame
    BY FramesThen
  <2>2. /\ f \in OldFrames(c) <=>
             \/ \E j \in ItemsAt(c) : j.old /\ f = data[j.chunk]
             \/ \E b \in job[c].buffer : b.old /\ f = b.frame
        /\ a.old => a.frame \in OldFrames(c)
    BY FramesAre
  <2> QED BY <1>0, <1>4, <1>5, <2>1, <2>2
<1>8. ASSUME NEW x \in Cols \X Rows, IsPosted(c, x), OldInGroup(c, x)
      PROVE  NewInGroup(c, x)
  BY <1>8, OverriddenIs DEF FramesRight
<1>9. ASSUME NEW x \in Cols \X Rows, IsPosted(c, x), OldInGroup(c, x)'
      PROVE  NewInGroup(c, x)'
  <2>1. OldInGroup(c, x)
    BY <1>1, <1>4, <1>9 DEF OldInGroup, HasValue
  <2>2. \/ HasValue(job[c].merged, x)
        \/ \E b \in job[c].buffer : ~b.old /\ HasValue(b.frame, x)
    BY <1>1, <1>8, <1>9, <2>1 DEF NewInGroup
  <2>3. \/ HasValue(m, x)
        \/ \E b \in job'[c].buffer : ~b.old /\ HasValue(b.frame, x)
    BY <1>3, <1>4, <2>2
  <2> QED BY <1>4, <2>3 DEF NewInGroup, HasValue
<1>10. ASSUME NEW x \in Cols \X Rows, HasValue(m, x)
       PROVE  \/ \E g \in NewFrames(c) : HasValue(g, x) /\ g.val[x] = m.val[x]
              \/ m.val[x] \in Right(c, x)
  <2>1. CASE HasValue(job[c].merged, x)
    BY <1>3, <1>6, <2>1
  <2>2. CASE ~HasValue(job[c].merged, x) /\ ~a.old
    BY <1>3, <1>6, <1>10, <2>2
  <2>3. CASE ~HasValue(job[c].merged, x) /\ a.old
    <3>1. HasValue(a.frame, x) /\ m.val[x] = a.frame.val[x]
      BY <1>3, <1>10, <2>3
    <3>2. ~NewInGroup(c, x)
      BY <1>0, <1>1, <2>3 DEF NewInGroup
    <3>3. OldInGroup(c, x)
      BY <2>3, <3>1 DEF OldInGroup
    <3>4. ~IsPosted(c, x)
      BY <1>8, <3>2, <3>3
    <3>5. job[c].prev # None /\ a.frame.val[x] \in Values(job[c].prev, x)
      BY <1>7, <2>3, <3>1 DEF FramesRight, OldPrevious
    <3> QED BY <3>1, <3>4, <3>5 DEF Right
  <2> QED BY <2>1, <2>2, <2>3
<1>11. ASSUME NEW x \in Cols \X Rows
       PROVE  /\ \A f \in NewFrames(c)' : HasValue(f, x) =>
                   \/ \E g \in NewFrames(c) : HasValue(g, x) /\ g.val[x] = f.val[x]
                   \/ f.val[x] \in Right(c, x)
              /\ (\E f \in NewFrames(c) : HasValue(f, x)) => \E f \in NewFrames(c)' : HasValue(f, x)
              /\ (\E f \in OldFrames(c) : HasValue(f, x)) =>
                   \E f \in NewFrames(c)' \cup OldFrames(c)' : HasValue(f, x)
  <2>1. \A f \in NewFrames(c)' : HasValue(f, x) =>
          \/ \E g \in NewFrames(c) : HasValue(g, x) /\ g.val[x] = f.val[x]
          \/ f.val[x] \in Right(c, x)
    BY <1>6, <1>10
  <2>2. (\E f \in NewFrames(c) : HasValue(f, x)) => \E f \in NewFrames(c)' : HasValue(f, x)
    BY <1>3, <1>6
  <2>3. (\E f \in OldFrames(c) : HasValue(f, x)) =>
          \E f \in NewFrames(c)' \cup OldFrames(c)' : HasValue(f, x)
    BY <1>3, <1>6, <1>7
  <2> QED BY <2>1, <2>2, <2>3
<1>12. ASSUME NEW x \in Cols \X Rows, IsPosted(c, x), NEW g \in job'[c].groups
       PROVE  OverriddenIn(g, x)'
  <2>1. OverriddenIn(g, x)
    BY <1>4, <1>12, OverriddenIs DEF FramesRight
  <2> QED BY <1>0, <2>1 DEF OverriddenIn, HasValue
<1> QED BY <1>0, <1>7, <1>9, <1>11, <1>12, FramesMoved DEF Active, Underway

(* What is uploaded is each piece of what was merged, under its own name. *)
LEMMA PiecesUploaded ==
    ASSUME Inv, NEW c \in Commits, UploadResolved(c), pc[c] # "idle"
    PROVE  /\ \A k \in DOMAIN out'[c] : out'[c][k] \in SplitIntoChunks(job[c].merged)
           /\ \A e \in SplitIntoChunks(job[c].merged) : \E k \in DOMAIN out'[c] : out'[c][k] = e
<1> DEFINE dir    == job[c].session
           pieces == SplitIntoChunks(job[c].merged)
           chunks == {ChunkAt(dir, d) : d \in pieces}
           Piece(k) == CHOOSE d \in pieces : k = ChunkAt(dir, d)
<1>0. /\ DOMAIN out = Requests /\ c \in Requests
      /\ out' = [out EXCEPT ![c] = [k \in chunks |-> Piece(k)]]
  BY CommitBegun DEF UploadResolved, UploadInto, Inv, TypeOK, RequestsOK
<1>1. job[c].merged \in DataFrames \cup {EmptyFrame}
  BY WorkKnown DEF Inv
<1>2. \A d \in pieces, e \in pieces : MetaOf(d) = MetaOf(e) => d = e
  BY <1>1, PieceNames, SplitOfNothing
<1> HIDE DEF pieces
<1>3. ASSUME NEW k \in chunks
      PROVE  Piece(k) \in pieces /\ k = ChunkAt(dir, Piece(k))
  OBVIOUS
<1>4. \A d \in pieces : Piece(ChunkAt(dir, d)) = d
  <2> SUFFICES ASSUME NEW d \in pieces
               PROVE  Piece(ChunkAt(dir, d)) = d
    OBVIOUS
  <2> DEFINE k == ChunkAt(dir, d)
  <2>1. Piece(k) \in pieces /\ k = ChunkAt(dir, Piece(k))
    BY <1>3
  <2> HIDE DEF Piece
  <2>2. MetaOf(Piece(k)) = MetaOf(d)
    BY <2>1 DEF ChunkAt
  <2> QED BY <1>2, <2>1, <2>2
<1> HIDE DEF Piece
<1>5. DOMAIN out'[c] = chunks /\ \A k \in chunks : out'[c][k] = Piece(k)
  <2>1. out'[c] = [k \in chunks |-> Piece(k)]
    BY <1>0
  <2> QED BY <2>1
<1> QED BY <1>3, <1>4, <1>5 DEF pieces

(* The pieces of what was merged have its cells, each with its value.        *)
LEMMA UploadRight ==
    ASSUME Inv, Inv', QuietInv, SealedInv, ApartInv, Orderly, [Next]_vars, NEW c \in Commits,
           UploadResolved(c), FramesRight(c)
    PROVE  FramesRight(c)'
<1> DEFINE pieces == SplitIntoChunks(job[c].merged)
<1>0. /\ pc[c] = "merging" /\ data' = data /\ job \in [Commits -> Job] /\ job[c] \in Job
      /\ pc \in [Requests -> Labels] /\ c \in Requests /\ pc'[c] = "uploading"
      /\ job' = [job EXCEPT ![c].merged = EmptyFrame] /\ job[c].buffer = {}
  BY CommitBegun DEF UploadResolved, UploadInto, Goto, storage, Inv, TypeOK, RequestsOK
<1>1. job[c].fetch = {} /\ job[c].items = {} /\ \A x : ~HasValue(EmptyFrame, x)
  BY <1>0, WorkAt DEF Underway
<1>2. /\ job'[c].items = {} /\ job'[c].groups = job[c].groups
      /\ job'[c].fetch = {} /\ job'[c].buffer = {}
      /\ job'[c].chunks = job[c].chunks /\ job'[c].merged = EmptyFrame
  BY <1>0, <1>1 DEF Job
<1>3. ItemsAt(c)' = ItemsAt(c)
  BY <1>1, <1>2 DEF ItemsAt
<1>4. ASSUME NEW x
      PROVE  /\ \A e \in pieces : HasValue(e, x) => HasValue(job[c].merged, x) /\ e.val[x] = job[c].merged.val[x]
             /\ HasValue(job[c].merged, x) => \E e \in pieces : HasValue(e, x)
  <2>1. job[c].merged \in DataFrames \cup {EmptyFrame}
    BY WorkKnown DEF Inv
  <2> QED BY <1>1, <2>1, PieceValues, SplitOfNothing
<1> HIDE DEF pieces
<1>5. /\ \A k \in DOMAIN out'[c] : out'[c][k] \in pieces
      /\ \A e \in pieces : \E k \in DOMAIN out'[c] : out'[c][k] = e
  BY <1>0, PiecesUploaded DEF pieces
<1>6. ASSUME NEW f
      PROVE  /\ f \in NewFrames(c)' => f = EmptyFrame \/ f \in pieces \/ f \in NewFrames(c)
             /\ f \in NewFrames(c) => f = job[c].merged \/ f \in NewFrames(c)'
             /\ f \in pieces => f \in NewFrames(c)'
             /\ job[c].merged \in NewFrames(c)
  <2>1. f \in NewFrames(c)' <=>
          \/ f = job'[c].merged
          \/ \E j \in ItemsAt(c)' : ~j.old /\ f = data'[j.chunk]
          \/ \E b \in job'[c].buffer : ~b.old /\ f = b.frame
          \/ \E k \in job'[c].chunks : f = data'[k]
          \/ pc'[c] = "uploading" /\ \E k \in DOMAIN out'[c] : f = out'[c][k]
    BY FramesThen
  <2>2. /\ f \in NewFrames(c) <=>
             \/ f = job[c].merged
             \/ \E j \in ItemsAt(c) : ~j.old /\ f = data[j.chunk]
             \/ \E b \in job[c].buffer : ~b.old /\ f = b.frame
             \/ \E k \in job[c].chunks : f = data[k]
             \/ pc[c] = "uploading" /\ \E k \in DOMAIN out[c] : f = out[c][k]
        /\ job[c].merged \in NewFrames(c)
    BY FramesAre
  <2> QED BY <1>0, <1>2, <1>3, <1>5, <2>1, <2>2
<1>7. ASSUME NEW f
      PROVE  f \in OldFrames(c)' <=> f \in OldFrames(c)
  <2>1. f \in OldFrames(c)' <=>
          \/ \E j \in ItemsAt(c)' : j.old /\ f = data'[j.chunk]
          \/ \E b \in job'[c].buffer : b.old /\ f = b.frame
    BY FramesThen
  <2>2. f \in OldFrames(c) <=>
          \/ \E j \in ItemsAt(c) : j.old /\ f = data[j.chunk]
          \/ \E b \in job[c].buffer : b.old /\ f = b.frame
    BY FramesAre
  <2> QED BY <1>0, <1>2, <1>3, <2>1, <2>2
<1>8. ASSUME NEW x \in Cols \X Rows
      PROVE  /\ \A f \in NewFrames(c)' : HasValue(f, x) =>
                   \E g \in NewFrames(c) : HasValue(g, x) /\ g.val[x] = f.val[x]
             /\ (\E f \in NewFrames(c) : HasValue(f, x)) => \E f \in NewFrames(c)' : HasValue(f, x)
  BY <1>1, <1>4, <1>6
<1>9. ASSUME NEW x
      PROVE  ~OldInGroup(c, x)'
  BY <1>2 DEF OldInGroup
<1>10. ASSUME NEW x \in Cols \X Rows, IsPosted(c, x), NEW g \in job'[c].groups
       PROVE  OverriddenIn(g, x)'
  <2>1. OverriddenIn(g, x)
    BY <1>2, <1>10, OverriddenIs DEF FramesRight
  <2> QED BY <1>0, <2>1 DEF OverriddenIn, HasValue
<1> QED BY <1>0, <1>7, <1>8, <1>9, <1>10, FramesMoved DEF Active, Underway

(* What was uploaded is stored when the group is done. *)
LEMMA ResolvedRight ==
    ASSUME Inv, Inv', QuietInv, SealedInv, ApartInv, Orderly, [Next]_vars, NEW c \in Commits,
           GroupResolved(c), FramesRight(c), Stored(c)
    PROVE  FramesRight(c)'
<1>0. /\ pc[c] = "uploading" /\ data' = data /\ job \in [Commits -> Job] /\ job[c] \in Job
      /\ pc \in [Requests -> Labels] /\ c \in Requests /\ out' = out /\ pc'[c] = "resolving"
      /\ job' = [job EXCEPT ![c].chunks = @ \cup DOMAIN out[c]] /\ tasks[c] = {}
  BY CommitBegun DEF GroupResolved, Goto, storage, Inv, TypeOK, RequestsOK
<1>1. job[c].fetch = {} /\ job[c].items = {} /\ job[c].buffer = {} /\ job[c].merged = EmptyFrame
  BY <1>0, WorkAt DEF Underway
<1>2. /\ job'[c].items = {} /\ job'[c].groups = job[c].groups
      /\ job'[c].fetch = {} /\ job'[c].buffer = {}
      /\ job'[c].chunks = job[c].chunks \cup DOMAIN out[c] /\ job'[c].merged = EmptyFrame
  BY <1>0, <1>1 DEF Job
<1>3. ItemsAt(c)' = ItemsAt(c)
  BY <1>1, <1>2 DEF ItemsAt
<1>4. \A k \in DOMAIN out[c] : data[k] = out[c][k]
  BY <1>0 DEF Stored
<1>5. ASSUME NEW f
      PROVE  f \in NewFrames(c)' <=> f \in NewFrames(c)
  <2>1. f \in NewFrames(c)' <=>
          \/ f = job'[c].merged
          \/ \E j \in ItemsAt(c)' : ~j.old /\ f = data'[j.chunk]
          \/ \E b \in job'[c].buffer : ~b.old /\ f = b.frame
          \/ \E k \in job'[c].chunks : f = data'[k]
          \/ pc'[c] = "uploading" /\ \E k \in DOMAIN out'[c] : f = out'[c][k]
    BY FramesThen
  <2>2. f \in NewFrames(c) <=>
          \/ f = job[c].merged
          \/ \E j \in ItemsAt(c) : ~j.old /\ f = data[j.chunk]
          \/ \E b \in job[c].buffer : ~b.old /\ f = b.frame
          \/ \E k \in job[c].chunks : f = data[k]
          \/ pc[c] = "uploading" /\ \E k \in DOMAIN out[c] : f = out[c][k]
    BY FramesAre
  <2> QED BY <1>0, <1>1, <1>2, <1>3, <1>4, <2>1, <2>2
<1>6. ASSUME NEW f
      PROVE  f \in OldFrames(c)' <=> f \in OldFrames(c)
  <2>1. f \in OldFrames(c)' <=>
          \/ \E j \in ItemsAt(c)' : j.old /\ f = data'[j.chunk]
          \/ \E b \in job'[c].buffer : b.old /\ f = b.frame
    BY FramesThen
  <2>2. f \in OldFrames(c) <=>
          \/ \E j \in ItemsAt(c) : j.old /\ f = data[j.chunk]
          \/ \E b \in job[c].buffer : b.old /\ f = b.frame
    BY FramesAre
  <2> QED BY <1>0, <1>1, <1>2, <1>3, <2>1, <2>2
<1>7. ASSUME NEW x
      PROVE  ~OldInGroup(c, x)'
  BY <1>2 DEF OldInGroup
<1>8. \A x : \A h \in job'[c].groups : h \in job[c].groups /\ (OverriddenIn(h, x)' <=> OverriddenIn(h, x))
  BY <1>0, <1>2 DEF OverriddenIn, HasValue
<1> QED BY <1>0, <1>5, <1>6, <1>7, <1>8, FramesSame DEF Active, Underway

(* Nothing moves while the index is built. *)
LEMMA IndexRight ==
    ASSUME Inv, Inv', QuietInv, SealedInv, Orderly, [Next]_vars, NEW c \in Commits,
           Index(c), FramesRight(c)
    PROVE  FramesRight(c)'
<1>0. /\ data' = data /\ job \in [Commits -> Job] /\ job[c] \in Job
      /\ pc \in [Requests -> Labels] /\ c \in Requests
  BY CommitBegun, WorkKnown, OwnStep DEF Inv, TypeOK, RequestsOK, storage
<1>1. /\ pc[c] \in {"resolving", "indexing"} /\ pc'[c] # "uploading"
      /\ job'[c].items = job[c].items /\ job'[c].groups = job[c].groups
      /\ job'[c].fetch = job[c].fetch /\ job'[c].buffer = job[c].buffer
      /\ job'[c].chunks = job[c].chunks /\ job'[c].merged = job[c].merged
  <2>1. CASE BuildIndex(c)
    BY <1>0, <2>1 DEF BuildIndex, Goto, Job
  <2>2. CASE \E k \in job[c].load : LoadIndex(c, k)
    BY <1>0, <2>2 DEF LoadIndex, Job
  <2>3. CASE \E k \in job[c].rebuild : RebuildIndex(c, k)
    BY <1>0, <2>3 DEF RebuildIndex, Goto, Job
  <2>4. CASE SaveCatalog(c)
    BY <1>0, <2>4 DEF SaveCatalog, Goto, Job
  <2> QED BY <2>1, <2>2, <2>3, <2>4 DEF Index
<1>2. ItemsAt(c)' = ItemsAt(c)
  BY <1>1 DEF ItemsAt
<1>3. ASSUME NEW f
      PROVE  f \in NewFrames(c)' <=> f \in NewFrames(c)
  <2>1. f \in NewFrames(c)' <=>
          \/ f = job'[c].merged
          \/ \E j \in ItemsAt(c)' : ~j.old /\ f = data'[j.chunk]
          \/ \E b \in job'[c].buffer : ~b.old /\ f = b.frame
          \/ \E k \in job'[c].chunks : f = data'[k]
          \/ pc'[c] = "uploading" /\ \E k \in DOMAIN out'[c] : f = out'[c][k]
    BY FramesThen
  <2>2. f \in NewFrames(c) <=>
          \/ f = job[c].merged
          \/ \E j \in ItemsAt(c) : ~j.old /\ f = data[j.chunk]
          \/ \E b \in job[c].buffer : ~b.old /\ f = b.frame
          \/ \E k \in job[c].chunks : f = data[k]
          \/ pc[c] = "uploading" /\ \E k \in DOMAIN out[c] : f = out[c][k]
    BY FramesAre
  <2> QED BY <1>0, <1>1, <1>2, <2>1, <2>2
<1>4. ASSUME NEW f
      PROVE  f \in OldFrames(c)' <=> f \in OldFrames(c)
  <2>1. f \in OldFrames(c)' <=>
          \/ \E j \in ItemsAt(c)' : j.old /\ f = data'[j.chunk]
          \/ \E b \in job'[c].buffer : b.old /\ f = b.frame
    BY FramesThen
  <2>2. f \in OldFrames(c) <=>
          \/ \E j \in ItemsAt(c) : j.old /\ f = data[j.chunk]
          \/ \E b \in job[c].buffer : b.old /\ f = b.frame
    BY FramesAre
  <2> QED BY <1>0, <1>1, <1>2, <2>1, <2>2
<1>5. ASSUME NEW x, IsPosted(c, x), OldInGroup(c, x)'
      PROVE  NewInGroup(c, x)'
  <2>1. (OldInGroup(c, x)' <=> OldInGroup(c, x)) /\ (NewInGroup(c, x)' <=> NewInGroup(c, x))
    BY <1>0, <1>1 DEF OldInGroup, NewInGroup, HasValue
  <2>2. x \in Cols \X Rows
    <3>1. \/ \E j \in ItemsAt(c) : HasValue(data[j.chunk], x)
          \/ \E a \in job[c].buffer : HasValue(a.frame, x)
      BY <1>5, <2>1 DEF ItemsAt, OldInGroup
    <3> QED BY <3>1, FramesType, HasInside DEF SealedInv
  <2> QED BY <1>5, <2>1, <2>2, OverriddenIs DEF FramesRight
<1>6. \A x : \A h \in job'[c].groups : h \in job[c].groups /\ (OverriddenIn(h, x)' <=> OverriddenIn(h, x))
  BY <1>0, <1>1 DEF OverriddenIn, HasValue
<1> QED BY <1>1, <1>3, <1>4, <1>5, <1>6, FramesSame DEF Active, Underway

(* The frames of a commit that has listed its session are right, whoever     *)
(* takes a step.                                                             *)
LEMMA RightKept ==
    ASSUME Inv, Inv', QuietInv, SealedInv, ApartInv, ValuesInv, Orderly, DistinctNames,
           [Next]_vars, NEW c \in Commits, Active(c)'
    PROVE  FramesRight(c)'
<1>0. /\ Active(c) => FramesRight(c)
      /\ Stored(c) /\ PostsKnown /\ SessionsHoldPosts /\ MaxFailures = 0
      /\ pc \in [Requests -> Labels] /\ c \in Requests /\ c \in Bulks
  BY WorkKnown DEF ValuesInv, Active, FramesRight, Orderly, Inv, TypeOK, RequestsOK
<1>1. CASE Resolve(c)
  <2>1. CASE ListMetas(c)
    BY <1>0, <2>1, ListRight
  <2>2. CASE LoadPrevious(c)
    BY <1>0, <2>2, PreviousRight DEF LoadPrevious, Active
  <2>3. CASE FindConflicts(c)
    BY <1>0, <2>3, FindConflictsRight DEF FindConflicts, Active
  <2>4. CASE NextGroup(c)
    BY <1>0, <2>4, NextGroupRight DEF NextGroup, Active, Underway
  <2>5. CASE \E i \in job[c].fetch : FetchChunk(c, i)
    BY <1>0, <2>5, FetchRight DEF FetchChunk, Active, Underway
  <2>6. CASE \E f \in job[c].buffer : MergeChunk(c, f)
    BY <1>0, <2>6, MergeRight DEF MergeChunk, Active, Underway
  <2>7. CASE UploadResolved(c)
    BY <1>0, <2>7, UploadRight DEF UploadResolved, UploadInto, Active, Underway
  <2>8. CASE GroupResolved(c)
    BY <1>0, <2>8, ResolvedRight DEF GroupResolved, Active, Underway
  <2> QED BY <1>1, <2>1, <2>2, <2>3, <2>4, <2>5, <2>6, <2>7, <2>8 DEF Resolve
<1>2. CASE Index(c)
  <2>1. Active(c)
    BY <1>2 DEF Index, BuildIndex, LoadIndex, RebuildIndex, SaveCatalog, Active, Underway
  <2> QED BY <1>0, <1>2, <2>1, IndexRight
<1>3. ASSUME NEW s \in Sessions, NEW prev \in UpdateFrom(s), Commit(c, s, prev)
      PROVE  FALSE
  BY <1>0, <1>3 DEF Commit, Goto, Active, Underway
<1>4. CASE job'[c] = job[c] /\ out'[c] = out[c] /\ (pc'[c] = pc[c] \/ BulkAck(c))
  <2>1. Active(c)
    BY <1>4 DEF Active, Underway, BulkAck
  <2> QED BY <1>0, <1>4, <2>1, OthersRight
<1> QED BY <1>0, <1>1, <1>2, <1>3, <1>4, Steps

(* What a session holds, and what a commit stores *)

(* A post never fails, and is one dataframe filled by it.                    *)
LEMMA PostsStay ==
    ASSUME Inv, QuietInv, PostsKnown, MaxFailures = 0, [Next]_vars
    PROVE  PostsKnown'
<1>0. /\ pc \in [Requests -> Labels] /\ DOMAIN out = Requests
      /\ \A p \in Posts : p \in Requests
  BY DEF Inv, TypeOK, RequestsOK, Requests
<1> SUFFICES ASSUME NEW p \in Posts
             PROVE  /\ pc'[p] # "failed"
                    /\ \A k \in DOMAIN out'[p] :
                         /\ \E shape \in PostShapes(k.dir) : out'[p][k] = FilledBy(p, shape)
                         /\ \A l \in DOMAIN out'[p] : l = k
  BY DEF PostsKnown
<1>1. CASE out'[p] = out[p] /\ (pc'[p] = pc[p] \/ PostAck(p))
  BY <1>0, <1>1 DEF PostsKnown, PostAck, Goto
<1>2. ASSUME NEW s \in Sessions, PostChunk(p, s)
      PROVE  /\ pc'[p] # "failed"
             /\ \A k \in DOMAIN out'[p] :
                  /\ \E shape \in PostShapes(k.dir) : out'[p][k] = FilledBy(p, shape)
                  /\ \A l \in DOMAIN out'[p] : l = k
  <2>1. PICK shape \in PostShapes(s) :
          out' = [out EXCEPT ![p] = Put(<<>>, ChunkAt(s, FilledBy(p, shape)), FilledBy(p, shape))]
    BY <1>2 DEF PostChunk
  <2> DEFINE d == FilledBy(p, shape)
             k == ChunkAt(s, d)
  <2>2. k.dir = s
    BY DEF ChunkAt
  <2>3. out'[p] = Put(<<>>, k, d)
    BY <1>0, <2>1
  <2> HIDE DEF k
  <2>4. DOMAIN out'[p] = {k} /\ out'[p][k] = d
    BY <2>3 DEF Put
  <2>5. pc'[p] # "failed"
    BY <1>0, <1>2 DEF PostChunk, Goto
  <2> QED BY <2>2, <2>4, <2>5
<1> QED BY <1>1, <1>2, Steps

(* A commit that has begun to merge does not fail any more: it can read all  *)
(* its chunks.                                                               *)
LEMMA UnderwayStays ==
    ASSUME Inv, QuietInv, SealedInv, MaxFailures = 0, [Next]_vars, NEW c \in Commits, pc[c] \in Underway
    PROVE  pc'[c] \in Underway
<1>0. pc \in [Requests -> Labels] /\ c \in Requests /\ InReach(c) /\ job \in [Commits -> Job]
  BY CommitBegun DEF Inv, TypeOK, RequestsOK, SealedInv, Underway
<1>1. CASE Resolve(c)
  <2>1. ~ListMetas(c) /\ ~LoadPrevious(c) /\ ~FindConflicts(c)
    BY DEF ListMetas, LoadPrevious, FindConflicts, Underway
  <2>2. CASE \E i \in job[c].fetch : FetchChunk(c, i)
    BY <1>0, <2>2 DEF FetchChunk, Goto, Underway, InReach, ItemsAt
  <2>3. CASE NextGroup(c) \/ UploadResolved(c) \/ GroupResolved(c) \/ \E f \in job[c].buffer : MergeChunk(c, f)
    BY <1>0, <2>3 DEF NextGroup, UploadResolved, UploadInto, GroupResolved, MergeChunk, Goto, Underway
  <2> QED BY <1>1, <2>1, <2>2, <2>3 DEF Resolve
<1>2. CASE Index(c)
  <2>1. CASE BuildIndex(c) \/ SaveCatalog(c) \/ \E k \in job[c].load : LoadIndex(c, k)
    BY <1>0, <2>1 DEF BuildIndex, SaveCatalog, LoadIndex, Goto, Underway
  <2>2. CASE \E k \in job[c].rebuild : RebuildIndex(c, k)
    BY <1>0, <2>2 DEF RebuildIndex, Underway, InReach
  <2> QED BY <1>2, <2>1, <2>2 DEF Index
<1>3. \A s, prev : ~Commit(c, s, prev)
  BY DEF Commit, Underway
<1>4. CASE pc'[c] = pc[c] \/ BulkAck(c)
  BY <1>0, <1>4 DEF BulkAck, Goto, Underway
<1> QED BY <1>1, <1>2, <1>3, <1>4, Steps

(* A file of a session is a post, until its commit merges.                   *)
LEMMA HoldStays ==
    ASSUME Inv, QuietInv, SealedInv, SessionsHoldPosts, MaxFailures = 0, [Next]_vars
    PROVE  SessionsHoldPosts'
<1>0. /\ Requests = Posts \cup Commits \cup Wholes /\ Sessions \cap Wholes = {}
      /\ Bulks = Commits \cup Wholes /\ DOMAIN out = Requests /\ Posts \cap Bulks = {}
      /\ TasksKnown /\ NothingYet /\ SessionsClosed
  BY RequestAssumption DEF Inv, TypeOK, RequestsOK, Requests, Bulks, QuietInv, SealedInv
<1> SUFFICES ASSUME NEW k \in DOMAIN data', k.dir \in Sessions
             PROVE  \/ \E c \in CommitsOf(k.dir)' : pc'[c] \in Underway
                    \/ \E p \in Posts : k \in DOMAIN out'[p] /\ data'[k] = out'[p][k]
  BY DEF SessionsHoldPosts
<1>1. ASSUME NEW c \in CommitsOf(k.dir), pc[c] \in Underway
      PROVE  \E d \in CommitsOf(k.dir)' : pc'[d] \in Underway
  <2>1. c \in Commits /\ pc[c] # "idle"
    BY <1>1 DEF CommitsOf, Underway
  <2>2. job'[c].session = job[c].session
    BY <1>0, <2>1, Begun
  <2>3. c \in CommitsOf(k.dir)'
    BY <1>1, <2>1, <2>2 DEF CommitsOf
  <2> QED BY <1>1, <2>1, <2>3, UnderwayStays
<1>2. ASSUME k \in DOMAIN data, data'[k] = data[k]
      PROVE  \/ \E c \in CommitsOf(k.dir)' : pc'[c] \in Underway
             \/ \E p \in Posts : k \in DOMAIN out'[p] /\ data'[k] = out'[p][k]
  <2>1. ASSUME NEW p \in Posts, k \in DOMAIN out[p]
        PROVE  out'[p] = out[p]
    <3>1. p \in Requests /\ pc[p] # "idle" /\ p \notin Commits
      BY <1>0, <2>1 DEF NothingYet
    <3> QED BY <3>1, Begun
  <2> QED BY <1>1, <1>2, <2>1 DEF SessionsHoldPosts
<1>3. ASSUME NEW r \in Requests, NEW l \in DOMAIN out[r], PutData(r, l)
      PROVE  \/ \E c \in CommitsOf(k.dir)' : pc'[c] \in Underway
             \/ \E p \in Posts : k \in DOMAIN out'[p] /\ data'[k] = out'[p][k]
  <2>1. CASE k # l
    BY <1>2, <1>3, <2>1 DEF PutData, Put
  <2>2. CASE k = l
    <3>1. /\ <<"data", k>> \in tasks[r] /\ data'[k] = out[r][k] /\ out' = out /\ k \in DOMAIN out[r]
      BY <1>3, <2>2 DEF PutData, Put
    <3>2. CASE r \in Posts
      BY <3>1, <3>2
    <3>3. CASE r \in Bulks
      <4>1. k.dir = FolderOf(r) /\ ~Answered(r) /\ (r \in Commits => pc[r] = "uploading")
        <5>1. /\ \A t \in tasks[r] : t[1] = "index" \/ t[2].dir = FolderOf(r)
              /\ <<"data", k>>[1] = "data" /\ <<"data", k>>[2] = k
          BY <3>3 DEF QuietInv, StoresInFolder
        <5>2. Answered(r) \/ (r \in Commits /\ pc[r] # "uploading") => \A t \in tasks[r] : t[1] = "index"
          BY DEF QuietInv, StoresQuiet
        <5> QED BY <3>1, <5>1, <5>2
      <4>2. r \in Commits
        BY <1>0, <3>3, <4>1 DEF FolderOf
      <4>3. r \in CommitsOf(k.dir) /\ pc[r] \in Underway
        BY <4>1, <4>2 DEF FolderOf, CommitsOf, Underway
      <4> QED BY <1>1, <4>3
    <3> QED BY <1>0, <3>2, <3>3
  <2> QED BY <2>1, <2>2
<1> QED BY <1>2, <1>3, Steps

(* What is left to save of a bulk. *)
LEMMA SaveSteps ==
    ASSUME Inv, [Next]_vars, NEW c \in Commits
    PROVE  save'[c] \subseteq save[c] \/ SaveCatalog(c)
<1>0. /\ save \in [Bulks -> SUBSET {"catalog", "index"}] /\ c \in Bulks /\ c \notin Wholes
  BY WorkKnown DEF Inv, TypeOK, RequestsOK
<1>1. CASE PostStep \/ Upload \/ Complete
  BY <1>1 DEF PostStep, PostChunk, PostAck, Upload, PutMeta, PutData, ListIndex, PutIndex, Complete, Commit
<1>2. CASE \E w \in Wholes : PostWhole(w)
  BY <1>0, <1>2 DEF PostWhole
<1>3. CASE \E d \in Commits : Resolve(d)
  BY <1>3 DEF Resolve, ListMetas, LoadPrevious, FindConflicts, NextGroup, FetchChunk, MergeChunk,
              UploadResolved, UploadInto, GroupResolved
<1>4. ASSUME NEW d \in Commits, Index(d)
      PROVE  save'[c] \subseteq save[c] \/ SaveCatalog(c)
  <2>1. CASE SaveCatalog(d)
    BY <1>0, <2>1 DEF SaveCatalog
  <2> QED BY <1>4, <2>1 DEF Index, BuildIndex, LoadIndex, RebuildIndex
<1>5. CASE \E d \in Commits : PutBulkIndex(d)
  BY <1>0, <1>5 DEF PutBulkIndex
<1>6. CASE Save
  BY <1>0, <1>6 DEF Save, PutCatalog, BulkAck
<1>7. CASE Failure
  BY <1>0, <1>7 DEF Failure, Crash, FailTask, FailRead, FailSave
<1>8. CASE UNCHANGED vars
  BY <1>8 DEF vars
<1> QED BY <1>1, <1>2, <1>3, <1>4, <1>5, <1>6, <1>7, <1>8 DEF Next

(* What a commit uploaded stays stored, and its catalog what it kept.        *)
LEMMA StoredStays ==
    ASSUME Inv, QuietInv, SealedInv, MaxFailures = 0, [Next]_vars, NEW c \in Commits, Stored(c)
    PROVE  Stored(c)'
<1>0. /\ pc \in [Requests -> Labels] /\ c \in Requests /\ c \in Bulks /\ DOMAIN out = Requests
      /\ tasks \in [Requests -> SUBSET Task] /\ InReach(c) /\ SessionsClosed /\ TypeOK
  BY WorkKnown DEF Inv, TypeOK, RequestsOK, SealedInv
<1>1. ASSUME Resolve(c) \/ Index(c), pc'[c] = "uploading"
      PROVE  \A k \in DOMAIN out'[c] : <<"data", k>> \in tasks'[c]
  <2>1. UploadResolved(c)
    <3>1. CASE Resolve(c)
      <4>1. CASE \E i \in job[c].fetch : FetchChunk(c, i)
        BY <1>0, <1>1, <4>1 DEF FetchChunk, Goto
      <4>2. CASE \E f \in job[c].buffer : MergeChunk(c, f)
        BY <1>0, <1>1, <4>2 DEF MergeChunk
      <4> QED BY <1>0, <1>1, <3>1, <4>1, <4>2
              DEF Resolve, ListMetas, LoadPrevious, FindConflicts, NextGroup, GroupResolved, Goto
    <3>2. CASE Index(c)
      BY <1>0, <1>1, <3>2 DEF Index, BuildIndex, LoadIndex, RebuildIndex, SaveCatalog, Goto
    <3> QED BY <1>1, <3>1, <3>2
  <2> DEFINE pieces == SplitIntoChunks(job[c].merged)
             chunks == {ChunkAt(job[c].session, d) : d \in pieces}
  <2>2. /\ out' = [out EXCEPT ![c] = [k \in chunks |-> CHOOSE d \in pieces : k = ChunkAt(job[c].session, d)]]
        /\ tasks' = [tasks EXCEPT ![c] = UploadTasks(chunks)]
    BY <2>1 DEF UploadResolved, UploadInto
  <2> HIDE DEF chunks
  <2>3. DOMAIN out'[c] = chunks /\ tasks'[c] = UploadTasks(chunks)
    BY <1>0, <2>2
  <2> QED BY <2>3 DEF UploadTasks
<1>2. ASSUME job'[c] = job[c], out'[c] = out[c], pc[c] = "uploading", NEW k \in DOMAIN out[c],
             <<"data", k>> \notin tasks'[c]
      PROVE  k \in DOMAIN data' /\ data'[k] = out[c][k]
  <2>1. CASE <<"data", k>> \in tasks[c]
    <3>1. PutData(c, k)
      BY <1>0, <1>2, <2>1, Steps
    <3> QED BY <3>1 DEF PutData, Put
  <2>2. CASE <<"data", k>> \notin tasks[c]
    <3>1. k \in DOMAIN data /\ data[k] = out[c][k] /\ job[c].session = k.dir
      BY <1>0, <1>2, <2>2 DEF Stored, InReach
    <3>2. ASSUME NEW r \in Requests, NEW l \in DOMAIN out[r], PutData(r, l)
          PROVE  l # k
      <4>1. <<"data", l>> \in tasks[r]
        BY <3>2 DEF PutData
      <4>2. l = k => r = c
        BY <1>0, <1>2, <3>1, <4>1, StorerKnown
      <4> QED BY <2>2, <4>1, <4>2
    <3>3. ASSUME NEW r \in Requests, NEW l \in DOMAIN out[r], PutData(r, l)
          PROVE  k \in DOMAIN data' /\ data'[k] = data[k]
      BY <3>1, <3>2, <3>3 DEF PutData, Put
    <3> QED BY <3>1, <3>3, Steps
  <2> QED BY <2>1, <2>2
<1>3. pc'[c] = "uploading" => \A k \in DOMAIN out'[c] :
        <<"data", k>> \notin tasks'[c] => k \in DOMAIN data' /\ data'[k] = out'[c][k]
  <2>1. \A s, prev : Commit(c, s, prev) => pc'[c] # "uploading"
    BY <1>0 DEF Commit, Goto
  <2>2. BulkAck(c) => pc'[c] # "uploading"
    BY <1>0 DEF BulkAck, Goto
  <2> QED BY <1>1, <1>2, <2>1, <2>2, Steps
<1>4. pc[c] = "saving" => pc'[c] = "saving" \/ BulkAck(c)
  BY <1>0, OwnStep, Steps DEF Commit
<1>5. save'[c] # {} => pc'[c] = "saving"
  <2>1. CASE SaveCatalog(c)
    BY <1>0, <2>1 DEF SaveCatalog, Goto
  <2>2. CASE save'[c] \subseteq save[c]
    BY <1>4, <2>2 DEF Stored, BulkAck
  <2> QED BY <2>1, <2>2, SaveSteps
<1>6. ASSUME pc[c] \in {"saving", "acked"}
      PROVE  pc'[c] \in {"saving", "acked"} /\ job'[c] = job[c]
  <2>1. job'[c] = job[c] /\ out'[c] = out[c] /\ (pc'[c] = pc[c] \/ BulkAck(c))
    BY <1>0, <1>6, OwnStep, Steps DEF Commit
  <2> QED BY <1>0, <1>6, <2>1 DEF BulkAck, Goto
<1>7. ASSUME c \in DOMAIN catalogs'
      PROVE  pc'[c] \in {"saving", "acked"} /\ catalogs'[c].chunks = job'[c].chunks
  <2>1. CASE PutCatalog(c)
    <3>1. pc[c] = "saving" /\ catalogs'[c] = CatalogOf(c)
      BY <2>1 DEF PutCatalog, Stored, Put
    <3> QED BY <1>6, <3>1 DEF CatalogOf
  <2>2. CASE ~PutCatalog(c)
    <3>1. c \in DOMAIN catalogs /\ catalogs'[c] = catalogs[c]
      <4>1. ASSUME NEW b \in Bulks, PutCatalog(b)
            PROVE  c \in DOMAIN catalogs /\ catalogs'[c] = catalogs[c]
        BY <1>7, <2>2, <4>1 DEF PutCatalog, Put
      <4> QED BY <1>7, <4>1, Steps
    <3> QED BY <1>6, <3>1 DEF Stored
  <2> QED BY <2>1, <2>2
<1> QED BY <1>3, <1>5, <1>7 DEF Stored

(* A commit saves its bulk only once nothing is left to merge.               *)
LEMMA MergedStays ==
    ASSUME Inv, ApartInv, [Next]_vars, NEW c \in Commits, InStages(c), AllMerged(c)
    PROVE  AllMerged(c)'
<1>0. /\ pc \in [Requests -> Labels] /\ c \in Requests /\ job \in [Commits -> Job] /\ job[c] \in Job
  BY WorkKnown DEF Inv, TypeOK, RequestsOK
<1> SUFFICES ASSUME pc'[c] \in {"indexing", "saving", "acked"}
             PROVE  ItemsAt(c)' = {} /\ job'[c].buffer = {} /\ job'[c].merged = EmptyFrame
  BY DEF AllMerged
<1>1. CASE Resolve(c)
  <2>1. CASE \E i \in job[c].fetch : FetchChunk(c, i)
    BY <1>0, <2>1 DEF FetchChunk, Goto
  <2>2. CASE \E f \in job[c].buffer : MergeChunk(c, f)
    BY <1>0, <2>2 DEF MergeChunk
  <2> QED BY <1>0, <1>1, <2>1, <2>2
          DEF Resolve, ListMetas, LoadPrevious, FindConflicts, NextGroup, UploadResolved, UploadInto,
              GroupResolved, Goto
<1>2. CASE Index(c)
  <2>1. ItemsAt(c) = {} /\ job[c].buffer = {} /\ job[c].merged = EmptyFrame
    <3>1. CASE BuildIndex(c)
      <4>1. pc[c] = "resolving" /\ job[c].groups = {}
        BY <3>1 DEF BuildIndex
      <4>2. job[c].fetch = {} /\ job[c].buffer = {} /\ job[c].merged = EmptyFrame /\ job[c].items = {}
        BY <4>1, WorkInStage DEF Underway
      <4> QED BY <4>1, <4>2 DEF ItemsAt
    <3>2. CASE ~BuildIndex(c)
      BY <1>2, <3>2 DEF Index, LoadIndex, RebuildIndex, SaveCatalog, AllMerged
    <3> QED BY <3>1, <3>2
  <2>2. /\ job'[c].items = job[c].items /\ job'[c].groups = job[c].groups
        /\ job'[c].fetch = job[c].fetch /\ job'[c].buffer = job[c].buffer
        /\ job'[c].merged = job[c].merged
    <3>1. CASE BuildIndex(c)
      BY <1>0, <3>1 DEF BuildIndex, Job
    <3>2. CASE \E k \in job[c].load : LoadIndex(c, k)
      BY <1>0, <3>2 DEF LoadIndex, Job
    <3>3. CASE \E k \in job[c].rebuild : RebuildIndex(c, k)
      BY <1>0, <3>3 DEF RebuildIndex, Job
    <3>4. CASE SaveCatalog(c)
      BY <1>0, <3>4 DEF SaveCatalog, Job
    <3> QED BY <1>2, <3>1, <3>2, <3>3, <3>4 DEF Index
  <2> QED BY <2>1, <2>2 DEF ItemsAt
<1>3. \A s, prev : ~Commit(c, s, prev)
  BY <1>0 DEF Commit, Goto
<1>4. CASE job'[c] = job[c] /\ out'[c] = out[c] /\ (pc'[c] = pc[c] \/ pc'[c] = "failed" \/ BulkAck(c))
  <2>1. pc[c] \in {"indexing", "saving", "acked"}
    BY <1>4 DEF BulkAck
  <2>2. ItemsAt(c)' = ItemsAt(c)
    BY <1>4 DEF ItemsAt
  <2> QED BY <1>4, <2>1, <2>2 DEF AllMerged
<1> QED BY <1>1, <1>2, <1>3, <1>4, AnyStep

(* The invariant of the values: what a commit has in hand at every step.     *)
THEOREM ValuesInvariance == ASSUME Orderly, DistinctNames PROVE Spec => []ValuesInv
<1>0. MaxFailures = 0
  BY DEF Orderly
<1>1. Init => ValuesInv
  <2> SUFFICES ASSUME Init PROVE ValuesInv
    OBVIOUS
  <2>1. /\ \A p \in Posts : pc[p] = "idle" /\ DOMAIN out[p] = {}
        /\ \A c \in Commits : pc[c] = "idle" /\ save[c] = {}
        /\ DOMAIN data = {} /\ DOMAIN catalogs = {}
    BY DEF Init, Requests, Bulks
  <2>2. PostsKnown /\ SessionsHoldPosts
    BY <2>1 DEF PostsKnown, SessionsHoldPosts
  <2>3. \A c \in Commits : Stored(c) /\ AllMerged(c) /\ ~Active(c)
    BY <2>1 DEF Stored, AllMerged, Active, Underway
  <2> QED BY <2>2, <2>3 DEF ValuesInv, Active
<1>2. Inv /\ Inv' /\ QuietInv /\ SealedInv /\ ApartInv /\ ValuesInv /\ [Next]_vars => ValuesInv'
  <2> SUFFICES ASSUME Inv, Inv', QuietInv, SealedInv, ApartInv, ValuesInv, [Next]_vars
               PROVE  ValuesInv'
    OBVIOUS
  <2>1. PostsKnown' /\ SessionsHoldPosts'
    BY <1>0, PostsStay, HoldStays DEF ValuesInv
  <2>2. ASSUME NEW c \in Commits
        PROVE  Stored(c)' /\ AllMerged(c)' /\ (Active(c)' => FramesRight(c)')
    <3>1. Stored(c) /\ AllMerged(c) /\ InStages(c)
      BY DEF ValuesInv, SealedInv
    <3> QED BY <1>0, <3>1, StoredStays, MergedStays, RightKept
  <2> QED BY <2>1, <2>2 DEF ValuesInv, Active, FramesRight
<1> QED BY <1>0, <1>1, <1>2, Invariance, QuietInvariance, SealedInvariance, ApartInvariance,
           PTL DEF Spec

(* A reader finds no more than one value for a cell of an acknowledged bulk. *)
LEMMA OneValue ==
    ASSUME Inv, SealedInv, ApartInv, NEW b \in AckedBulks, NEW x,
           NEW v \in Values(b, x), NEW w \in Values(b, x)
    PROVE  v = w
<1>1. PICK k \in catalogs[b].chunks \cap DOMAIN data : HasValue(data[k], x) /\ v = data[k].val[x]
  BY DEF Values
<1>2. PICK l \in catalogs[b].chunks \cap DOMAIN data : HasValue(data[l], x) /\ w = data[l].val[x]
  BY DEF Values
<1>3. data[k] \in DataFrames /\ data[l] \in DataFrames
  BY DEF Inv, TypeOK, StorageOK
<1>4. OverlapWith(MetaOf(data[k]), MetaOf(data[l]))
  BY <1>1, <1>2, <1>3, CellShared
<1>5. MetaOf(data[k]) = k.meta /\ MetaOf(data[l]) = l.meta
  BY DEF ApartInv, ContentsKnown
<1>6. k = l
  BY <1>4, <1>5, AckedApart
<1> QED BY <1>1, <1>2, <1>6

(* What the bulk of an acknowledged commit holds: values that are right, of  *)
(* every cell that was posted or that the previous bulk has.                 *)
LEMMA CommitHolds ==
    ASSUME Inv, SealedInv, ApartInv, ValuesInv, NEW c \in AckedCommits, NEW x \in Cols \X Rows
    PROVE  /\ c \in Commits /\ pc[c] = "acked" /\ PostsKnown
           /\ Values(c, x) \subseteq Right(c, x)
           /\ IsPosted(c, x) => Values(c, x) # {}
           /\ job[c].prev # None /\ Values(job[c].prev, x) # {} => Values(c, x) # {}
<1>1. /\ c \in Commits /\ c \in AckedBulks /\ pc[c] = "acked" /\ PostsKnown /\ c \in DOMAIN catalogs
  BY DEF AckedCommits, AckedBulks, ValuesInv, Inv, SavesTracked
<1>2. Stored(c) /\ AllMerged(c) /\ NewRight(c) /\ NoneLost(c) /\ InReach(c)
  BY <1>1 DEF ValuesInv, SealedInv, Underway
<1>3. /\ catalogs[c].chunks = job[c].chunks /\ job[c].chunks \subseteq DOMAIN data
      /\ ItemsAt(c) = {} /\ job[c].buffer = {} /\ job[c].merged = EmptyFrame
  BY <1>1, <1>2 DEF Stored, AllMerged, InReach
<1>4. ~HasValue(EmptyFrame, x)
  BY <1>1, WorkAt
<1>5. \A f \in NewFrames(c) : f = EmptyFrame \/ \E k \in job[c].chunks : f = data[k]
  BY <1>1, <1>3, FramesAre
<1>6. \A k \in job[c].chunks : data[k] \in NewFrames(c)
  BY <1>1, FramesAre
<1>7. OldFrames(c) = {}
  <2>1. \A f : f \notin OldFrames(c)
    BY <1>1, <1>3, FramesAre
  <2> QED BY <2>1
<1>8. Values(c, x) \subseteq Right(c, x)
  <2> SUFFICES ASSUME NEW v \in Values(c, x) PROVE v \in Right(c, x)
    OBVIOUS
  <2>1. PICK k \in catalogs[c].chunks : HasValue(data[k], x) /\ v = data[k].val[x]
    BY DEF Values
  <2> QED BY <1>2, <1>3, <1>6, <2>1 DEF NewRight
<1>9. (\E f \in NewFrames(c) : HasValue(f, x)) => Values(c, x) # {}
  <2> SUFFICES ASSUME NEW f \in NewFrames(c), HasValue(f, x) PROVE Values(c, x) # {}
    OBVIOUS
  <2>1. PICK k \in job[c].chunks : f = data[k]
    BY <1>4, <1>5
  <2>2. data[k].val[x] \in Values(c, x)
    BY <1>3, <2>1 DEF Values
  <2> QED BY <2>2
<1>10. /\ IsPosted(c, x) => \E f \in NewFrames(c) : HasValue(f, x)
       /\ job[c].prev # None /\ Values(job[c].prev, x) # {} => \E f \in NewFrames(c) : HasValue(f, x)
  BY <1>1, <1>2, <1>7 DEF NoneLost, Has
<1> QED BY <1>1, <1>8, <1>9, <1>10

(* No acknowledged post is lost: each of its cells has, in the bulk of the   *)
(* commit, a value of its session.                                           *)
THEOREM PostsCommitted ==
    ASSUME Orderly, DistinctNames PROVE Spec => []AckedPostCommitted
<1>1. Inv /\ SealedInv /\ ApartInv /\ ValuesInv => AckedPostCommitted
  <2> SUFFICES ASSUME Inv, SealedInv, ApartInv, ValuesInv, NEW c \in AckedCommits,
                      NEW p \in PostsOf(job[c].session), NEW x \in CellsOf(p)
               PROVE  \E w \in PostsOf(job[c].session) : w \in Values(c, x)
    BY DEF AckedPostCommitted
  <2>1. c \in Commits /\ pc[c] = "acked" /\ PostsKnown
    BY DEF AckedCommits, AckedBulks, ValuesInv
  <2>2. p \in Posted(c) /\ IsPosted(c, x)
    BY DEF Posted, IsPosted
  <2>3. x \in Cols \X Rows
    <3>1. PICK k \in DOMAIN out[p] : TRUE
      BY DEF CellsOf
    <3>2. HasValue(out[p][k], x) /\ out[p][k] \in DataFrames
      BY <2>1, <2>2, PostedStored
    <3> QED BY <3>2, HasInside
  <2>4. Values(c, x) \subseteq Posted(c) /\ Values(c, x) # {}
    BY <2>2, <2>3, CommitHolds DEF Right
  <2> QED BY <2>4 DEF Posted
<1> QED BY <1>1, Invariance, SealedInvariance, ApartInvariance, ValuesInvariance, PTL

(* An update has the cells that were posted from the session, and the others *)
(* as the previous bulk has them, values and absences.                       *)
THEOREM UpdateProved ==
    ASSUME Orderly, DistinctNames PROVE Spec => []UpdateKeepsPrevious
<1>1. Inv /\ SealedInv /\ ApartInv /\ ValuesInv => UpdateKeepsPrevious
  <2> SUFFICES ASSUME Inv, SealedInv, ApartInv, ValuesInv, NEW c \in AckedCommits,
                      job[c].prev # None, NEW x \in Cols \X Rows
               PROVE  /\ IsPosted(c, x) => Values(c, x) \subseteq Posted(c)
                      /\ ~IsPosted(c, x) => Values(c, x) = Values(job[c].prev, x)
    BY DEF UpdateKeepsPrevious, IsPosted, Posted
  <2>1. /\ c \in Commits /\ pc[c] = "acked" /\ Values(c, x) \subseteq Right(c, x)
        /\ Values(job[c].prev, x) # {} => Values(c, x) # {}
    BY CommitHolds
  <2>2. ASSUME ~IsPosted(c, x)
        PROVE  Values(c, x) = Values(job[c].prev, x)
    <3>1. Values(c, x) \subseteq Values(job[c].prev, x)
      BY <2>1, <2>2 DEF Right
    <3>2. job[c].prev \in AckedBulks
      BY <2>1, CommitBegun
    <3>3. \A v, w \in Values(job[c].prev, x) : v = w
      BY <3>2, OneValue
    <3> QED BY <2>1, <3>1, <3>3
  <2> QED BY <2>1, <2>2 DEF Right
<1> QED BY <1>1, Invariance, SealedInvariance, ApartInvariance, ValuesInvariance, PTL

-----------------------------------------------------------------------------
(* Bulks are versions *)

(* A post is one chunk of the folder it is sent to, with what it wrote.      *)
LEMMA ChunkOfIs ==
    ASSUME NEW r, NEW dir, NEW shape
    PROVE  LET d == FilledBy(r, shape)
               k == ChunkAt(dir, d)
           IN  /\ DOMAIN ChunkOf(r, dir, shape) = {k}
               /\ ChunkOf(r, dir, shape)[k] = d /\ k.dir = dir
<1> DEFINE d == FilledBy(r, shape)
           k == ChunkAt(dir, d)
<1>1. k.dir = dir /\ ChunkOf(r, dir, shape) = Put(<<>>, k, d)
  BY DEF ChunkAt, ChunkOf
<1> HIDE DEF k, d
<1>2. DOMAIN Put(<<>>, k, d) = {k} /\ Put(<<>>, k, d)[k] = d
  BY DEF Put
<1> QED BY <1>1, <1>2 DEF k, d

(* What was sent is what there is to upload. *)
LEMMA SentStays ==
    ASSUME Inv, SentKnown, MaxFailures = 0, [Next]_vars
    PROVE  SentKnown'
<1>0. DOMAIN out = Requests /\ Requests = Posts \cup Commits \cup Wholes
  BY DEF Inv, TypeOK, RequestsOK, Requests, Bulks
<1>1. ASSUME NEW p \in Posts, pc'[p] # "idle"
      PROVE  \E s \in Sessions : \E shape \in PostShapes(s) : out'[p] = ChunkOf(p, s, shape)
  <2>1. ASSUME NEW s \in Sessions, PostChunk(p, s)
        PROVE  \E shape \in PostShapes(s) : out'[p] = ChunkOf(p, s, shape)
    <3>1. PICK shape \in PostShapes(s) :
            out' = [out EXCEPT ![p] = Put(<<>>, ChunkAt(s, FilledBy(p, shape)), FilledBy(p, shape))]
      BY <2>1 DEF PostChunk
    <3> QED BY <1>0, <3>1 DEF ChunkOf
  <2>2. CASE out'[p] = out[p] /\ (pc'[p] = pc[p] \/ PostAck(p))
    BY <1>1, <2>2 DEF SentKnown, PostAck
  <2> QED BY <2>1, <2>2, Steps
<1>2. ASSUME NEW w \in Wholes, pc'[w] # "idle"
      PROVE  \E shape \in WholeShapes : out'[w] = ChunkOf(w, w, shape)
  <2>1. CASE PostWhole(w)
    <3>1. PICK shape \in WholeShapes :
            out' = [out EXCEPT ![w] = Put(<<>>, ChunkAt(w, FilledBy(w, shape)), FilledBy(w, shape))]
      BY <2>1 DEF PostWhole
    <3> QED BY <1>0, <3>1 DEF ChunkOf
  <2>2. CASE out'[w] = out[w] /\ (pc'[w] = pc[w] \/ BulkAck(w))
    BY <1>2, <2>2 DEF SentKnown, BulkAck
  <2> QED BY <2>1, <2>2, Steps
<1> QED BY <1>1, <1>2 DEF SentKnown

(* Nobody stores a chunk of a whole bulk but the request that posts it.      *)
LEMMA OwnFolder ==
    ASSUME Inv, QuietInv, NEW w \in Wholes, NEW r \in Requests, NEW k, k.dir = w,
           <<"data", k>> \in tasks[r] \/ <<"meta", k>> \in tasks[r]
    PROVE  r = w
<1>0. /\ Requests = Posts \cup Commits \cup Wholes /\ Bulks = Commits \cup Wholes
      /\ Sessions \cap Wholes = {} /\ Wholes \cap Commits = {}
  BY RequestAssumption DEF Requests, Bulks
<1>1. PICK t \in tasks[r] : t[1] # "index" /\ t[2] = k
  BY SMT
<1>2. CASE r \in Posts
  BY <1>0, <1>1, <1>2 DEF Inv, TasksKnown, QuietInv, StoresInFolder
<1>3. CASE r \in Bulks
  <2>1. FolderOf(r) = w
    BY <1>1, <1>3 DEF QuietInv, StoresInFolder
  <2>2. pc[r] # "idle"
    BY <1>1 DEF Inv, TasksKnown, QuietLabels
  <2>3. r \in Commits => job[r].session \in Sessions
    BY <2>2, CommitBegun
  <2> QED BY <1>0, <1>3, <2>1, <2>3 DEF FolderOf
<1> QED BY <1>0, <1>2, <1>3

(* What a whole bulk has stored stays. *)
LEMMA WholesHeldStay ==
    ASSUME Inv, QuietInv, WholesHeld, MaxFailures = 0, [Next]_vars
    PROVE  WholesHeld'
<1> SUFFICES ASSUME NEW w \in Wholes
             PROVE  /\ \A k \in DOMAIN out'[w] : <<"data", k>> \notin tasks'[w] =>
                         k \in DOMAIN data' /\ data'[k] = out'[w][k]
                    /\ w \in DOMAIN catalogs' => catalogs'[w].chunks = DOMAIN out'[w]
  BY DEF WholesHeld
<1>0. /\ w \in Requests /\ w \in Bulks /\ w \notin Commits /\ w \notin Posts
      /\ DOMAIN out = Requests /\ tasks \in [Requests -> SUBSET Task]
      /\ pc \in [Requests -> Labels]
  BY RequestAssumption DEF Requests, Bulks, Inv, TypeOK, RequestsOK
<1>1. CASE PostWhole(w)
  <2>1. PICK shape \in WholeShapes :
          LET k == ChunkAt(w, FilledBy(w, shape))
          IN  /\ out' = [out EXCEPT ![w] = Put(<<>>, k, FilledBy(w, shape))]
              /\ tasks' = [tasks EXCEPT ![w] = {"meta", "data"} \X {k}]
    BY <1>1 DEF PostWhole
  <2> DEFINE k == ChunkAt(w, FilledBy(w, shape))
             d == FilledBy(w, shape)
  <2>2. /\ out'[w] = Put(<<>>, k, d) /\ tasks'[w] = {"meta", "data"} \X {k}
    BY <1>0, <2>1
  <2> HIDE DEF k, d
  <2>3. DOMAIN out'[w] = {k} /\ <<"data", k>> \in tasks'[w]
    BY <2>2 DEF Put
  <2>4. w \notin DOMAIN catalogs'
    BY <1>0, <1>1 DEF PostWhole, storage, Inv, SavesTracked
  <2> QED BY <2>3, <2>4
<1>2. CASE out'[w] = out[w]
  <2>1. ASSUME NEW k \in DOMAIN out[w], <<"data", k>> \notin tasks'[w]
        PROVE  k \in DOMAIN data' /\ data'[k] = out[w][k]
    <3>1. CASE <<"data", k>> \in tasks[w]
      <4>1. PutData(w, k)
        BY <1>0, <2>1, <3>1, Steps
      <4> QED BY <4>1 DEF PutData, Put
    <3>2. CASE <<"data", k>> \notin tasks[w]
      <4>1. k \in DOMAIN data /\ data[k] = out[w][k] /\ k.dir = w
        BY <2>1, <3>2 DEF WholesHeld, QuietInv, StoresInFolder
      <4>2. ASSUME NEW r \in Requests, NEW l \in DOMAIN out[r], PutData(r, l)
            PROVE  data'[k] = data[k]
        <5>1. l # k
          BY <3>2, <4>1, <4>2, OwnFolder DEF PutData
        <5> QED BY <4>1, <4>2, <5>1 DEF PutData, Put
      <4>3. data'[k] = data[k]
        BY <4>2, Steps
      <4> QED BY <4>1, <4>3, Begun
    <3> QED BY <3>1, <3>2
  <2>2. ASSUME w \in DOMAIN catalogs'
        PROVE  catalogs'[w].chunks = DOMAIN out[w]
    <3>1. ASSUME PutCatalog(w)
          PROVE  catalogs'[w].chunks = DOMAIN out[w]
      BY <1>0, <3>1 DEF PutCatalog, Put, CatalogOf
    <3>2. ASSUME NEW b \in Bulks, b # w, PutCatalog(b)
          PROVE  w \in DOMAIN catalogs /\ catalogs'[w] = catalogs[w]
      BY <2>2, <3>2 DEF PutCatalog, Put
    <3> QED BY <2>2, <3>1, <3>2, Steps DEF WholesHeld
  <2> QED BY <1>2, <2>1, <2>2
<1> QED BY <1>1, <1>2, Steps

(* The posts into a session stay. *)
LEMMA PostsOfStay ==
    ASSUME Inv, QuietInv, MaxFailures = 0, [Next]_vars, NEW s
    PROVE  PostsOf(s) \subseteq PostsOf(s)'
<1> SUFFICES ASSUME NEW p \in PostsOf(s) PROVE p \in PostsOf(s)'
  OBVIOUS
<1>1. p \in Posts /\ p \in Requests /\ p \notin Commits /\ DOMAIN out[p] # {}
  BY RequestAssumption DEF PostsOf, Requests
<1>2. pc[p] # "idle"
  BY <1>1 DEF QuietInv, NothingYet
<1>3. out'[p] = out[p]
  BY <1>1, <1>2, Begun
<1> QED BY <1>3 DEF PostsOf

(* A commit knows of posts once it has found metadata in its session.        *)
LEMMA SessionsPostedStay ==
    ASSUME Inv, QuietInv, SessionsPosted, MaxFailures = 0, [Next]_vars
    PROVE  SessionsPosted'
<1>0. /\ Requests = Posts \cup Commits \cup Wholes /\ Bulks = Commits \cup Wholes
      /\ Sessions \cap Wholes = {} /\ Wholes \cap Commits = {}
      /\ pc \in [Requests -> Labels]
  BY RequestAssumption DEF Requests, Bulks, Inv, TypeOK, RequestsOK
<1>1. ASSUME NEW r \in Requests, NEW k \in DOMAIN out[r], PutMeta(r, k), k.dir \in Sessions
      PROVE  PostsOf(k.dir) # {}
  <2>1. PICK t \in tasks[r] : t[1] = "meta" /\ t[2] = k
    BY <1>1, SMT DEF PutMeta
  <2>2. CASE r \in Posts
    BY <1>1, <2>2 DEF PostsOf
  <2>3. CASE r \in Bulks
    <3>1. FolderOf(r) = k.dir
      BY <2>1, <2>3 DEF QuietInv, StoresInFolder
    <3>2. r \in Commits
      BY <1>0, <1>1, <2>3, <3>1 DEF FolderOf
    <3>3. pc[r] = "uploading"
      BY <1>0, <2>1, <3>2 DEF QuietInv, StoresQuiet
    <3> QED BY <3>1, <3>2, <3>3 DEF SessionsPosted, Underway, Posted, FolderOf
  <2> QED BY <1>0, <2>2, <2>3
<1>2. ASSUME NEW k \in metas', k.dir \in Sessions
      PROVE  PostsOf(k.dir)' # {}
  <2>1. PostsOf(k.dir) # {}
    <3>1. CASE k \in metas
      BY <1>2, <3>1 DEF SessionsPosted
    <3>2. ASSUME NEW r \in Requests, NEW l \in DOMAIN out[r], PutMeta(r, l), k \notin metas
          PROVE  PostsOf(k.dir) # {}
      <4>1. k = l
        BY <1>2, <3>2 DEF PutMeta
      <4> QED BY <1>1, <1>2, <3>2, <4>1
    <3> QED BY <1>2, <3>1, <3>2, Steps
  <2> QED BY <2>1, PostsOfStay
<1>3. ASSUME NEW c \in Commits, pc'[c] \in {"previous", "conflicts"} \cup Underway
      PROVE  Posted(c)' # {}
  <2>0. c \in Requests
    BY <1>0
  <2>1. CASE pc[c] \in {"previous", "conflicts"} \cup Underway
    <3>1. pc[c] # "idle"
      BY <2>1 DEF Underway
    <3>2. job'[c].session = job[c].session
      BY <2>0, <3>1, Begun
    <3>3. PICK s : s = job[c].session
      OBVIOUS
    <3>4. PostsOf(s) # {} /\ PostsOf(s) \subseteq PostsOf(s)'
      BY <2>1, <3>3, PostsOfStay DEF SessionsPosted, Posted
    <3> QED BY <3>2, <3>3, <3>4 DEF Posted, PostsOf
  <2>2. CASE ListMetas(c)
    <3>1. PICK k \in metas : k.dir = job[c].session
      BY <1>0, <1>3, <2>0, <2>2 DEF ListMetas, Goto, Underway
    <3>2. pc[c] # "idle"
      BY <2>2 DEF ListMetas
    <3>3. job[c].session \in Sessions /\ job'[c].session = job[c].session
      BY <2>0, <3>2, CommitBegun, Begun
    <3>4. PICK s \in Sessions : s = job[c].session
      BY <3>3
    <3>5. PostsOf(s) # {} /\ PostsOf(s) \subseteq PostsOf(s)'
      BY <3>1, <3>4, PostsOfStay DEF SessionsPosted
    <3> QED BY <3>3, <3>4, <3>5 DEF Posted, PostsOf
  <2>3. CASE pc[c] \notin {"previous", "conflicts"} \cup Underway /\ ~ListMetas(c)
    <3>1. ~Resolve(c) /\ ~Index(c)
      BY <2>3 DEF Resolve, LoadPrevious, FindConflicts, NextGroup, FetchChunk, MergeChunk,
                  UploadResolved, UploadInto, GroupResolved, Index, BuildIndex, LoadIndex,
                  RebuildIndex, SaveCatalog, Underway
    <3>2. ~BulkAck(c)
      BY <2>3 DEF BulkAck, Underway
    <3>3. \A s, prev : ~Commit(c, s, prev)
      BY <1>0, <1>3, <2>0 DEF Commit, Goto, Underway
    <3> QED BY <1>3, <2>3, <3>1, <3>2, <3>3, Steps
  <2> QED BY <2>1, <2>2, <2>3
<1> QED BY <1>2, <1>3 DEF SessionsPosted

(* What was sent and to what session, when nothing fails and whatever       *)
(* clients do.                                                               *)
THEOREM SentInvariance == ASSUME MaxFailures = 0 PROVE Spec => []SentInv
<1>1. Init => SentInv
  BY DEF Init, SentInv, SentKnown, WholesHeld, SessionsPosted, Requests, Bulks, Underway
<1>2. Inv /\ QuietInv /\ SentInv /\ [Next]_vars => SentInv'
  BY SentStays, WholesHeldStay, SessionsPostedStay DEF SentInv
<1> QED BY <1>1, <1>2, Invariance, QuietInvariance, PTL DEF Spec

(* A post that was sent is of one session, and has the cells of one shape.   *)
LEMMA PostIs ==
    ASSUME SentKnown, NEW p \in Posts, pc[p] # "idle"
    PROVE  \E s \in Sessions : \E shape \in PostShapes(s) :
             /\ out[p] = ChunkOf(p, s, shape)
             /\ CellsOf(p) = shape.cols \X shape.rows
             /\ \A t : p \in PostsOf(t) <=> t = s
             /\ SessionOf(p) = s
<1>0. PICK s \in Sessions : \E shape \in PostShapes(s) : out[p] = ChunkOf(p, s, shape)
  BY DEF SentKnown
<1>1. PICK shape \in PostShapes(s) : out[p] = ChunkOf(p, s, shape)
  BY <1>0
<1> DEFINE d == FilledBy(p, shape)
           k == ChunkAt(s, d)
<1>2. DOMAIN out[p] = {k} /\ out[p][k] = d /\ k.dir = s
  BY <1>1, ChunkOfIs
<1>3. DOMAIN d.val = shape.cols \X shape.rows
  BY DEF FilledBy
<1> HIDE DEF k, d
<1>4. CellsOf(p) = shape.cols \X shape.rows
  BY <1>2, <1>3 DEF CellsOf
<1>5. \A t : p \in PostsOf(t) <=> t = s
  BY <1>2 DEF PostsOf
<1> QED BY <1>1, <1>4, <1>5 DEF SessionOf

(* The bulk of a whole post is what was posted. *)
LEMMA WholeIs ==
    ASSUME Inv, SentInv, NEW w \in AckedBulks \cap Wholes
    PROVE  WholeKnown(w)
<1>0. /\ w \in Wholes /\ w \in Bulks /\ w \in Requests /\ pc[w] = "acked"
      /\ tasks[w] = {} /\ w \in DOMAIN catalogs /\ w # NaN
  BY RequestAssumption, GeometryAssumption
     DEF AckedBulks, Requests, Inv, TasksKnown, QuietLabels, SavesTracked
<1>1. PICK shape \in WholeShapes : out[w] = ChunkOf(w, w, shape)
  BY <1>0 DEF SentInv, SentKnown
<1> DEFINE d == FilledBy(w, shape)
           k == ChunkAt(w, d)
<1>2. DOMAIN out[w] = {k} /\ out[w][k] = d
  BY <1>1, ChunkOfIs
<1>3. catalogs[w].chunks = {k} /\ k \in DOMAIN data /\ data[k] = d
  BY <1>0, <1>2 DEF SentInv, WholesHeld
<1>4. \A x : HasValue(d, x) <=> x \in shape.cols \X shape.rows
  BY <1>0 DEF HasValue, FilledBy
<1>5. \A x \in shape.cols \X shape.rows : d.val[x] = w
  BY DEF FilledBy
<1> HIDE DEF k, d
<1>6. ASSUME NEW x
      PROVE  Values(w, x) = IF x \in shape.cols \X shape.rows THEN {w} ELSE {}
  BY <1>3, <1>4, <1>5 DEF Values
<1> QED BY <1>6 DEF WholeKnown

(* The bulk of a commit is its session, over what it was committed onto.     *)
LEMMA CommitIs ==
    ASSUME Inv, SealedInv, ApartInv, ValuesInv, SentInv, NEW c \in AckedCommits
    PROVE  CommitKnown(c)
<1>1. /\ c \in Commits /\ pc[c] = "acked" /\ pc[c] \in Underway /\ c \in AckedBulks
      /\ \A p \in Posts : p \in Requests /\ pc[p] # "failed"
  BY DEF AckedCommits, AckedBulks, ValuesInv, PostsKnown, Requests, Underway
<1>2. /\ job[c].session \in Sessions /\ c \in CommitsOf(job[c].session)
      /\ job[c].prev \in AckedBulks \cup {None}
  BY <1>1, CommitBegun
<1>3. Posted(c) # {}
  BY <1>1 DEF SentInv, SessionsPosted
<1>4. Posted(c) \subseteq AckedPosts
  BY <1>1, <1>2 DEF SealedInv, SessionsClosed, Posted, PostsOf, AckedPosts, Answered
<1>5. ASSUME NEW x \in Cols \X Rows, IsPosted(c, x)
      PROVE  \E p \in Posted(c) : x \in CellsOf(p) /\ Values(c, x) = {p}
  <2>1. Values(c, x) # {} /\ Values(c, x) \subseteq Right(c, x)
    BY <1>5, CommitHolds
  <2>2. PICK p \in Values(c, x) : TRUE
    BY <2>1
  <2>3. Values(c, x) = {p}
    BY <1>1, <2>2, OneValue
  <2> QED BY <1>5, <2>1, <2>3 DEF Right
<1>6. ASSUME NEW x \in Cols \X Rows, ~IsPosted(c, x)
      PROVE  Values(c, x) = IF job[c].prev = None THEN {} ELSE Values(job[c].prev, x)
  <2>1. /\ Values(c, x) \subseteq Right(c, x)
        /\ job[c].prev # None /\ Values(job[c].prev, x) # {} => Values(c, x) # {}
    BY CommitHolds
  <2>2. CASE job[c].prev = None
    BY <1>6, <2>1, <2>2 DEF Right
  <2>3. CASE job[c].prev # None
    <3>1. \A v, u \in Values(job[c].prev, x) : v = u
      BY <1>2, <2>3, OneValue
    <3> QED BY <1>6, <2>1, <2>3, <3>1 DEF Right
  <2> QED BY <2>2, <2>3
<1> QED BY <1>2, <1>3, <1>4, <1>5, <1>6 DEF CommitKnown

(* An acknowledged bulk is a version: a whole post, or all of a session over *)
(* all of the bulk it was committed onto.                                    *)
THEOREM VersionsInvariance ==
    ASSUME Orderly, DistinctNames PROVE Spec => []VersionsKnown
<1>1. Inv /\ SealedInv /\ ApartInv /\ ValuesInv /\ SentInv => VersionsKnown
  BY CommitIs, WholeIs DEF VersionsKnown
<1>2. MaxFailures = 0
  BY DEF Orderly
<1> QED BY <1>1, <1>2, Invariance, SealedInvariance, ApartInvariance, ValuesInvariance,
           SentInvariance, PTL

(* Only an answer changes what was answered. *)
LEMMA AnswersAre ==
    ASSUME Inv, MaxFailures = 0, [Next]_vars
    PROVE  \/ \E p \in Posts : PostAck(p)
           \/ \E b \in Bulks : BulkAck(b)
           \/ AckedPosts' = AckedPosts /\ AckedBulks' = AckedBulks
<1> SUFFICES ASSUME \A p \in Posts : ~PostAck(p), \A b \in Bulks : ~BulkAck(b)
             PROVE  AckedPosts' = AckedPosts /\ AckedBulks' = AckedBulks
  OBVIOUS
<1>0. /\ pc \in [Requests -> Labels] /\ Requests = Posts \cup Commits \cup Wholes
      /\ Bulks = Commits \cup Wholes
  BY DEF Inv, TypeOK, RequestsOK, Requests, Bulks
<1>1. ASSUME NEW p \in Posts
      PROVE  pc'[p] = "acked" <=> pc[p] = "acked"
  <2>1. ASSUME NEW s \in Sessions, PostChunk(p, s)
        PROVE  pc[p] = "idle" /\ pc'[p] = "uploading"
    BY <1>0, <2>1 DEF PostChunk, Goto
  <2> QED BY <2>1, Steps
<1>2. ASSUME NEW w \in Wholes
      PROVE  pc'[w] = "acked" <=> pc[w] = "acked"
  <2>1. ASSUME PostWhole(w)
        PROVE  pc[w] = "idle" /\ pc'[w] = "saving"
    BY <1>0, <2>1 DEF PostWhole, Goto
  <2> QED BY <1>0, <2>1, Steps
<1>3. ASSUME NEW c \in Commits
      PROVE  pc'[c] = "acked" <=> pc[c] = "acked"
  <2>1. ASSUME Resolve(c)
        PROVE  pc[c] # "acked" /\ pc'[c] # "acked"
    BY <1>0, <2>1 DEF Resolve, ListMetas, LoadPrevious, FindConflicts, NextGroup, FetchChunk,
                      MergeChunk, UploadResolved, UploadInto, GroupResolved, Goto
  <2>2. ASSUME Index(c)
        PROVE  pc[c] # "acked" /\ pc'[c] # "acked"
    BY <1>0, <2>2 DEF Index, BuildIndex, LoadIndex, RebuildIndex, SaveCatalog, Goto
  <2>3. ASSUME NEW s, NEW prev, Commit(c, s, prev)
        PROVE  pc[c] # "acked" /\ pc'[c] # "acked"
    BY <1>0, <2>3 DEF Commit, Goto
  <2> QED BY <1>0, <2>1, <2>2, <2>3, Steps
<1> QED BY <1>0, <1>1, <1>2, <1>3 DEF AckedPosts, AckedBulks

(* What was answered stays as it was answered. *)
LEMMA AnsweredStay ==
    ASSUME Inv, QuietInv, SealedInv, SentKnown, MaxFailures = 0, [Next]_vars
    PROVE  /\ \A p \in AckedPosts : SessionOf(p)' = SessionOf(p) /\ CellsOf(p)' = CellsOf(p)
           /\ \A b \in AckedBulks : \A x : Values(b, x)' = Values(b, x)
           /\ \A c \in AckedCommits : job'[c] = job[c]
<1>0. /\ Requests = Posts \cup Commits \cup Wholes /\ Posts \cap Commits = {}
      /\ Bulks = Commits \cup Wholes
  BY RequestAssumption DEF Requests, Bulks
<1>1. ASSUME NEW p \in AckedPosts
      PROVE  SessionOf(p)' = SessionOf(p) /\ CellsOf(p)' = CellsOf(p)
  <2>1. p \in Posts /\ p \in Requests /\ p \notin Commits /\ pc[p] # "idle"
    BY <1>0 DEF AckedPosts
  <2>2. out'[p] = out[p]
    BY <2>1, Begun
  <2>3. \A s : p \in PostsOf(s)' <=> p \in PostsOf(s)
    BY <2>2 DEF PostsOf
  <2> QED BY <2>2, <2>3 DEF SessionOf, CellsOf
<1>2. ASSUME NEW c \in AckedCommits
      PROVE  job'[c] = job[c]
  BY <1>0, Begun DEF AckedCommits, AckedBulks, Answered
<1>3. ASSUME NEW b \in AckedBulks, NEW x
      PROVE  Values(b, x)' = Values(b, x)
  BY ValuesStay
<1> QED BY <1>1, <1>2, <1>3

(* A step that answers nothing leaves the store as it is. *)
LEMMA StoreStays ==
    ASSUME Inv, QuietInv, SealedInv, SentKnown, MaxFailures = 0, [Next]_vars,
           AckedPosts' = AckedPosts, AckedBulks' = AckedBulks
    PROVE  UNCHANGED Store!vars
<1>1. StorePosted' = StorePosted
  BY AnsweredStay DEF StorePosted
<1>2. StoreBulks' = StoreBulks
  BY AnsweredStay DEF StoreBulks
<1>3. StoreClosed' = StoreClosed
  BY AnsweredStay DEF StoreClosed, AckedCommits
<1> QED BY <1>1, <1>2, <1>3 DEF Store!vars

(* The answer to a post is a post of the store. *)
LEMMA PostSimulated ==
    ASSUME Inv, QuietInv, SealedInv, SentKnown, MaxFailures = 0, [Next]_vars,
           NEW p \in Posts, PostAck(p)
    PROVE  Store!Next
<1>0. /\ pc \in [Requests -> Labels] /\ p \in Requests /\ pc[p] = "uploading"
      /\ pc' = [pc EXCEPT ![p] = "acked"] /\ UNCHANGED <<out, job, data, catalogs>>
      /\ Posts \cap Commits = {} /\ Posts \cap Wholes = {} /\ Bulks = Commits \cup Wholes
  BY RequestAssumption DEF Inv, TypeOK, RequestsOK, Requests, Bulks, PostAck, Goto, storage
<1>1. PICK s \in Sessions : \E shape \in PostShapes(s) :
        /\ CellsOf(p) = shape.cols \X shape.rows
        /\ \A t : p \in PostsOf(t) <=> t = s
        /\ SessionOf(p) = s
  BY <1>0, PostIs
<1>2. PICK shape \in PostShapes(s) : CellsOf(p) = shape.cols \X shape.rows
  BY <1>1
<1>3. SessionOf(p) = s /\ p \in PostsOf(s)
  BY <1>1
<1>4. AckedPosts' = AckedPosts \cup {p} /\ p \notin AckedPosts
  BY <1>0 DEF AckedPosts, Requests
<1>5. AckedBulks' = AckedBulks
  BY <1>0 DEF AckedBulks, Requests
<1>6. \A q \in Posts : SessionOf(q)' = SessionOf(q) /\ CellsOf(q)' = CellsOf(q)
  BY <1>0 DEF SessionOf, PostsOf, CellsOf
<1>7. StorePosted' = Store!Put(StorePosted, p, [session |-> s, cells |-> CellsOf(p)])
  <2>1. \A q \in AckedPosts : q \in Posts /\ q # p
    BY <1>4 DEF AckedPosts
  <2> QED BY <1>3, <1>4, <1>6, <2>1 DEF StorePosted, Store!Put
<1>8. StoreBulks' = StoreBulks /\ StoreClosed' = StoreClosed
  <2>1. \A b, x : Values(b, x)' = Values(b, x)
    BY <1>0 DEF Values
  <2> QED BY <1>0, <1>5, <2>1 DEF StoreBulks, StoreClosed, AckedCommits
<1>9. s \notin StoreClosed
  <2> SUFFICES ASSUME NEW c \in AckedCommits, job[c].session = s PROVE FALSE
    BY DEF StoreClosed
  <2>1. c \in CommitsOf(s)
    BY DEF CommitsOf, AckedCommits
  <2>2. Answered(p)
    BY <1>3, <2>1 DEF SealedInv, SessionsClosed
  <2> QED BY <1>0, <2>2 DEF Answered
<1>10. p \notin DOMAIN StorePosted
  BY <1>4 DEF StorePosted
<1>11. Store!Post(p, s, CellsOf(p))
  BY <1>7, <1>8, <1>9, <1>10 DEF Store!Post
<1>12. CellsOf(p) \in {x.cols \X x.rows : x \in ShapesSent}
  BY <1>2 DEF ShapesSent
<1> QED BY <1>11, <1>12 DEF Store!Next

(* The answer to a request that makes a bulk: the bulk is one more version.  *)
LEMMA OneMoreBulk ==
    ASSUME Inv, NEW b \in Bulks, BulkAck(b)
    PROVE  /\ UNCHANGED <<out, job, data, catalogs>> /\ pc[b] = "saving"
           /\ \A x : Values(b, x)' = Values(b, x)
           /\ AckedBulks' = AckedBulks \cup {b} /\ b \notin AckedBulks
           /\ StorePosted' = StorePosted
           /\ b \notin DOMAIN StoreBulks
           /\ StoreBulks' = Store!Put(StoreBulks, b, [x \in Cols \X Rows |-> Values(b, x)])
           /\ b \notin Commits => StoreClosed' = StoreClosed
           /\ b \in Commits => StoreClosed' = StoreClosed \cup {job[b].session}
<1>0. /\ pc \in [Requests -> Labels] /\ b \in Requests /\ b \notin Posts /\ pc[b] = "saving"
      /\ pc' = [pc EXCEPT ![b] = "acked"] /\ UNCHANGED <<out, job, data, catalogs>>
      /\ Bulks = Commits \cup Wholes
  BY RequestAssumption DEF Inv, TypeOK, RequestsOK, Requests, Bulks, BulkAck, Goto, storage
<1>1. AckedBulks' = AckedBulks \cup {b} /\ b \notin AckedBulks
  BY <1>0 DEF AckedBulks, Requests
<1>2. AckedPosts' = AckedPosts
  BY <1>0 DEF AckedPosts, Requests
<1>3. StorePosted' = StorePosted
  <2>1. \A p : SessionOf(p)' = SessionOf(p) /\ CellsOf(p)' = CellsOf(p)
    BY <1>0 DEF SessionOf, PostsOf, CellsOf
  <2> QED BY <1>2, <2>1 DEF StorePosted
<1>4. \A a, x : Values(a, x)' = Values(a, x)
  BY <1>0 DEF Values
<1>5. StoreBulks' = Store!Put(StoreBulks, b, [x \in Cols \X Rows |-> Values(b, x)])
  BY <1>1, <1>4 DEF StoreBulks, Store!Put
<1>6. /\ b \notin Commits => StoreClosed' = StoreClosed
      /\ b \in Commits => StoreClosed' = StoreClosed \cup {job[b].session}
  BY <1>0, <1>1 DEF StoreClosed, AckedCommits
<1>7. b \notin DOMAIN StoreBulks
  BY <1>1 DEF StoreBulks
<1> QED BY <1>0, <1>1, <1>3, <1>4, <1>5, <1>6, <1>7

(* The answer to a whole post is a version of its own. *)
LEMMA WholeSimulated ==
    ASSUME Inv, VersionsKnown', NEW b \in Wholes, BulkAck(b)
    PROVE  Store!Next
<1>0. b \in Bulks /\ b \notin Commits
  BY RequestAssumption DEF Bulks
<1>1. WholeKnown(b)'
  BY <1>0, OneMoreBulk DEF VersionsKnown
<1>2. PICK shape \in WholeShapes : \A x \in Cols \X Rows :
        Values(b, x)' = IF x \in shape.cols \X shape.rows THEN {b} ELSE {}
  BY <1>1 DEF WholeKnown
<1> DEFINE C == shape.cols \X shape.rows
<1>3. [x \in Cols \X Rows |-> Values(b, x)] = [x \in Cols \X Rows |-> IF x \in C THEN {b} ELSE {}]
  BY <1>0, <1>2, OneMoreBulk
<1>4. StoreClosed' = StoreClosed
  BY <1>0, OneMoreBulk
<1>5. Store!Whole(b, C)
  BY <1>0, <1>3, <1>4, OneMoreBulk DEF Store!Whole
<1>6. C \in {x.cols \X x.rows : x \in ShapesSent}
  BY DEF ShapesSent
<1> QED BY <1>5, <1>6 DEF Store!Next

(* In the store, the posts into the session of a commit are its posts.       *)
LEMMA PostsIntoAre ==
    ASSUME SentKnown, NEW c \in Commits, Posted(c) \subseteq AckedPosts
    PROVE  /\ Store!PostsInto(job[c].session) = Posted(c)
           /\ \A p \in Posted(c) : StorePosted[p].cells = CellsOf(p) /\ CellsOf(p) \subseteq Cols \X Rows
           /\ \A x : x \in Store!CellsIn(job[c].session) <=> IsPosted(c, x)
<1> DEFINE s == job[c].session
<1>1. DOMAIN StorePosted = AckedPosts
      /\ \A p \in AckedPosts : StorePosted[p] = [session |-> SessionOf(p), cells |-> CellsOf(p)]
  BY DEF StorePosted
<1>2. ASSUME NEW p \in AckedPosts
      PROVE  /\ SessionOf(p) = s <=> p \in PostsOf(s)
             /\ CellsOf(p) \subseteq Cols \X Rows
  <2>1. p \in Posts /\ pc[p] # "idle"
    BY DEF AckedPosts
  <2>2. PICK t \in Sessions : \E shape \in PostShapes(t) :
          /\ CellsOf(p) = shape.cols \X shape.rows
          /\ \A u : p \in PostsOf(u) <=> u = t
          /\ SessionOf(p) = t
    BY <2>1, PostIs
  <2>3. PICK shape \in PostShapes(t) : CellsOf(p) = shape.cols \X shape.rows
    BY <2>2
  <2>4. shape.cols \subseteq Cols /\ shape.rows \subseteq Rows
    BY RequestAssumption DEF Shapes
  <2>5. CellsOf(p) \subseteq Cols \X Rows
    BY <2>3, <2>4
  <2> QED BY <2>2, <2>5
<1>3. Store!PostsInto(s) = Posted(c)
  BY <1>1, <1>2 DEF Store!PostsInto, Posted
<1>4. \A p \in Posted(c) : StorePosted[p].cells = CellsOf(p)
  BY <1>1
<1>5. \A x : x \in Store!CellsIn(s) <=> IsPosted(c, x)
  BY <1>3, <1>4 DEF Store!CellsIn, IsPosted
<1> QED BY <1>2, <1>3, <1>4, <1>5

(* The answer to a commit is the version the store would have: who wins a    *)
(* cell is the post that wrote the value the bulk has for it.                *)
LEMMA CommitSimulated ==
    ASSUME Inv, SealedInv, SentKnown, VersionsKnown', NEW c \in Commits, BulkAck(c)
    PROVE  Store!Next
<1> DEFINE s    == job[c].session
           prev == job[c].prev
<1>0. /\ c \in Bulks /\ pc[c] = "saving" /\ UNCHANGED <<out, job, data, catalogs>>
      /\ c \in AckedCommits' /\ None \notin Bulks
  BY RequestAssumption, OneMoreBulk DEF Bulks, AckedCommits
<1>1. CommitKnown(c)'
  BY <1>0 DEF VersionsKnown
<1>2. s \in Sessions /\ c \in CommitsOf(s) /\ prev \in {None} \cup AckedBulks
  BY <1>0, CommitBegun
<1>3. /\ Posted(c)' = Posted(c) /\ \A x : IsPosted(c, x)' <=> IsPosted(c, x)
      /\ \A p : CellsOf(p)' = CellsOf(p)
  BY <1>0 DEF Posted, PostsOf, IsPosted, CellsOf
<1>4. AckedPosts' = AckedPosts
  <2>1. pc' = [pc EXCEPT ![c] = "acked"] /\ c \notin Posts
    BY RequestAssumption DEF BulkAck, Goto
  <2> QED BY <2>1 DEF AckedPosts, Inv, TypeOK, RequestsOK, Requests
<1>5. Posted(c) # {} /\ Posted(c) \subseteq AckedPosts
  BY <1>1, <1>3, <1>4 DEF CommitKnown
<1>6. /\ Store!PostsInto(s) = Posted(c)
      /\ \A p \in Posted(c) : StorePosted[p].cells = CellsOf(p) /\ CellsOf(p) \subseteq Cols \X Rows
      /\ \A x : x \in Store!CellsIn(s) <=> IsPosted(c, x)
  BY <1>5, PostsIntoAre
<1>7. \A a, x : Values(a, x)' = Values(a, x)
  BY <1>0 DEF Values
<1>8. ASSUME NEW x \in Cols \X Rows
      PROVE  IF IsPosted(c, x)
             THEN \E p \in Posted(c) : x \in CellsOf(p) /\ Values(c, x) = {p}
             ELSE Values(c, x) = IF prev = None THEN {} ELSE Values(prev, x)
  <2>1. IF IsPosted(c, x)'
        THEN \E p \in Posted(c)' : x \in CellsOf(p)' /\ Values(c, x)' = {p}
        ELSE Values(c, x)' = IF prev' = None THEN {} ELSE Values(prev, x)'
    BY <1>1 DEF CommitKnown
  <2>2. prev' = prev /\ Values(c, x)' = Values(c, x) /\ Values(prev, x)' = Values(prev, x)
    BY <1>0, <1>7 DEF Values
  <2> QED BY <1>3, <2>1, <2>2
<1> DEFINE w == [x \in Store!CellsIn(s) |->
                   CHOOSE p \in Posted(c) : x \in CellsOf(p) /\ Values(c, x) = {p}]
<1>9. ASSUME NEW x \in Store!CellsIn(s)
      PROVE  w[x] \in Posted(c) /\ x \in CellsOf(w[x]) /\ Values(c, x) = {w[x]}
  <2>1. IsPosted(c, x) /\ x \in Cols \X Rows
    BY <1>6 DEF IsPosted
  <2> QED BY <1>8, <2>1
<1>10. w \in Store!Winners(s)
  BY <1>6, <1>9 DEF Store!Winners
<1>11. [x \in Cols \X Rows |-> Values(c, x)]
         = [x \in Cols \X Rows |-> IF x \in Store!CellsIn(s) THEN {w[x]} ELSE Store!Before(prev, x)]
  <2> SUFFICES ASSUME NEW x \in Cols \X Rows
               PROVE  Values(c, x)
                        = IF x \in Store!CellsIn(s) THEN {w[x]} ELSE Store!Before(prev, x)
    OBVIOUS
  <2>1. prev # None => prev \in AckedBulks /\ StoreBulks[prev][x] = Values(prev, x)
    BY <1>2 DEF StoreBulks
  <2> QED BY <1>6, <1>8, <1>9, <2>1 DEF Store!Before
<1>12. s \notin StoreClosed
  <2> SUFFICES ASSUME NEW d \in AckedCommits, job[d].session = s PROVE FALSE
    BY DEF StoreClosed
  <2>1. d \in CommitsOf(s) /\ pc[d] = "acked"
    BY DEF CommitsOf, AckedCommits, AckedBulks
  <2> QED BY <1>0, <1>2, <2>1 DEF SealedInv, SessionsClosed
<1>13. /\ c \notin DOMAIN StoreBulks /\ StorePosted' = StorePosted
       /\ StoreClosed' = StoreClosed \cup {s}
       /\ StoreBulks' = Store!Put(StoreBulks, c, [x \in Cols \X Rows |-> Values(c, x)])
  BY <1>0, OneMoreBulk
<1> HIDE DEF w
<1>14. Store!Commit(c, s, prev)
  BY <1>5, <1>6, <1>10, <1>11, <1>12, <1>13 DEF Store!Commit
<1>15. DOMAIN StoreBulks = AckedBulks
  BY DEF StoreBulks
<1> QED BY <1>2, <1>14, <1>15 DEF Store!Next

(* Every step of the worker is a step of the store, or none. *)
LEMMA StoreSimulation ==
    ASSUME Inv, QuietInv, SealedInv, SentInv, VersionsKnown', MaxFailures = 0, [Next]_vars
    PROVE  UNCHANGED Store!vars \/ Store!Next
BY AnswersAre, PostSimulated, WholeSimulated, CommitSimulated, StoreStays DEF Bulks, SentInv

(* When the session was posted to, then committed, and nothing failed, the   *)
(* bulks that are answered are versions of a store of them.                  *)
THEOREM VersionsProved ==
    ASSUME Orderly, DistinctNames PROVE Spec => BulksAreVersions
<1>0. MaxFailures = 0
  BY DEF Orderly
<1>1. Init => Store!Init
  <2> SUFFICES ASSUME Init PROVE Store!Init
    OBVIOUS
  <2>1. AckedPosts = {} /\ AckedBulks = {}
    BY DEF Init, AckedPosts, AckedBulks, Requests, Bulks
  <2> QED BY <2>1 DEF Store!Init, StorePosted, StoreBulks, StoreClosed, AckedCommits
<1>2. Inv /\ QuietInv /\ SealedInv /\ SentInv /\ VersionsKnown' /\ [Next]_vars =>
        [UNCHANGED Store!vars \/ Store!Next]_(Store!vars)
  BY <1>0, StoreSimulation
<1> QED BY <1>0, <1>1, <1>2, Invariance, QuietInvariance, SealedInvariance, SentInvariance,
           VersionsInvariance, PTL DEF Spec, BulksAreVersions

(* That is what the specification of the store says. *)
THEOREM StoreImplemented ==
    ASSUME Orderly, DistinctNames PROVE Spec => Store!Spec
<1>1. [UNCHANGED Store!vars \/ Store!Next]_(Store!vars) => [Store!Next]_(Store!vars)
  OBVIOUS
<1> QED BY <1>1, VersionsProved, PTL DEF BulksAreVersions, Store!Spec

-----------------------------------------------------------------------------
(* The index of a bulk *)

(* An index hash is that of the rows it was computed from.                   *)
LEMMA HashIs ==
    ASSUME NEW d
    PROVE  IndexHash(MetaOf(d)) = IndexOf(d.rows)
BY DEF IndexHash, MetaOf, IndexOf

(* Merging two dataframes with known rows makes one with known rows.         *)
LEMMA MergedRows ==
    ASSUME NEW F, \A R, S \in F : R \cup S \in F, NEW l, l = EmptyFrame \/ l.rows \in F,
           NEW r, r.rows \in F
    PROVE  CombineFirst(l, r).rows \in F
<1>1. CombineFirst(l, r).rows = l.rows \cup r.rows
  BY DEF CombineFirst
<1>2. CASE l = EmptyFrame
  BY <1>1, <1>2 DEF EmptyFrame
<1>3. CASE l.rows \in F
  BY <1>1, <1>3
<1> QED BY <1>2, <1>3

(* So does splitting one.                                                    *)
LEMMA PieceRows ==
    ASSUME NEW F, \A R \in F : Runs(R, MaxValues) \subseteq F,
           NEW d, d = EmptyFrame \/ d.rows \in F, NEW e \in SplitIntoChunks(d)
    PROVE  e.rows \in F
<1>0. d.rows \in F
  BY SplitOfNothing
<1>1. ASSUME NEW k, e \in SplitByColumns(d, k)
      PROVE  e.rows = d.rows
  <2>1. PICK C \in Runs(d.cols, k) : e = SliceOf(d, C, d.rows)
    BY <1>1 DEF SplitByColumns
  <2> QED BY <2>1 DEF SliceOf
<1>2. ASSUME e \in SplitByRows(d, MaxValues)
      PROVE  e.rows \in Runs(d.rows, MaxValues)
  <2>1. PICK c \in d.cols, R \in Runs(d.rows, MaxValues) : e = SliceOf(d, {c}, R)
    BY <1>2 DEF SplitByRows
  <2> QED BY <2>1 DEF SliceOf
<1> QED BY <1>0, <1>1, <1>2 DEF SplitIntoChunks

(* The rows of what a commit has in hand stay known.                         *)
LEMMA WorkRows ==
    ASSUME Inv, NEW F, TellsRows(F), RowsKnown(F), [Next]_vars, NEW c \in Commits
    PROVE  /\ \A b \in job'[c].buffer : b.frame.rows \in F
           /\ job'[c].merged = EmptyFrame \/ job'[c].merged.rows \in F
           /\ \A k \in DOMAIN out'[c] : out'[c][k].rows \in F
<1>0. /\ job \in [Commits -> Job] /\ job[c] \in Job /\ c \in Requests /\ DOMAIN out = Requests
      /\ \A b \in job[c].buffer : b.frame.rows \in F
      /\ job[c].merged = EmptyFrame \/ job[c].merged.rows \in F
      /\ \A k \in DOMAIN data : data[k].rows \in F
      /\ \A k \in DOMAIN out[c] : out[c][k].rows \in F
  BY WorkKnown DEF Inv, TypeOK, RequestsOK, RowsKnown
<1>1. CASE Resolve(c)
  <2>1. ASSUME NEW i \in job[c].fetch, FetchChunk(c, i)
        PROVE  /\ \A b \in job'[c].buffer : b.frame.rows \in F
               /\ job'[c].merged = job[c].merged /\ out' = out
    BY <1>0, <2>1 DEF FetchChunk, Job
  <2>2. ASSUME NEW f \in job[c].buffer, MergeChunk(c, f)
        PROVE  /\ job'[c].buffer \subseteq job[c].buffer
               /\ job'[c].merged.rows \in F /\ out' = out
    <3>1. CombineFirst(job[c].merged, f.frame).rows \in F
      BY <1>0, MergedRows DEF TellsRows
    <3> QED BY <1>0, <2>2, <3>1 DEF MergeChunk, Job
  <2>3. CASE UploadResolved(c)
    <3> DEFINE pieces == SplitIntoChunks(job[c].merged)
               chunks == {ChunkAt(job[c].session, d) : d \in pieces}
    <3>1. /\ out'[c] = [k \in chunks |-> CHOOSE d \in pieces : k = ChunkAt(job[c].session, d)]
          /\ job'[c].merged = EmptyFrame /\ job'[c].buffer = job[c].buffer
      BY <1>0, <2>3 DEF UploadResolved, UploadInto, Job
    <3>2. \A k \in chunks : \E d \in pieces : k = ChunkAt(job[c].session, d)
      OBVIOUS
    <3>3. \A k \in DOMAIN out'[c] : out'[c][k] \in pieces
      BY <3>1, <3>2
    <3>4. \A d \in pieces : d.rows \in F
      BY <1>0, PieceRows DEF TellsRows
    <3> QED BY <1>0, <3>1, <3>3, <3>4
  <2>4. CASE ListMetas(c) \/ LoadPrevious(c) \/ FindConflicts(c) \/ NextGroup(c) \/ GroupResolved(c)
    <3> DEFINE Same == job'[c].buffer = job[c].buffer /\ job'[c].merged = job[c].merged /\ out' = out
    <3>1. ListMetas(c) => Same
      BY <1>0 DEF ListMetas, Job
    <3>2. LoadPrevious(c) => Same
      BY <1>0 DEF LoadPrevious, Job
    <3>3. FindConflicts(c) => Same
      BY <1>0 DEF FindConflicts, Job
    <3>4. NextGroup(c) => Same
      BY <1>0 DEF NextGroup, Job
    <3>5. GroupResolved(c) => Same
      BY <1>0 DEF GroupResolved, Job
    <3>6. Same
      BY <2>4, <3>1, <3>2, <3>3, <3>4, <3>5
    <3> QED BY <1>0, <3>6
  <2> QED BY <1>0, <1>1, <2>1, <2>2, <2>3, <2>4 DEF Resolve
<1>2. CASE Index(c)
  <2>1. ASSUME NEW k \in job[c].rebuild, RebuildIndex(c, k)
        PROVE  /\ job'[c].buffer = job[c].buffer /\ job'[c].merged = job[c].merged
               /\ \A l \in DOMAIN out'[c] : out'[c][l].rows \in F
    BY <1>0, <2>1 DEF RebuildIndex, Put, Job
  <2>2. CASE BuildIndex(c) \/ (\E k \in job[c].load : LoadIndex(c, k)) \/ SaveCatalog(c)
    <3> DEFINE Same == job'[c].buffer = job[c].buffer /\ job'[c].merged = job[c].merged /\ out' = out
    <3>1. BuildIndex(c) => Same
      BY <1>0 DEF BuildIndex, Job
    <3>2. ASSUME NEW k \in job[c].load, LoadIndex(c, k)
          PROVE  Same
      BY <1>0, <3>2 DEF LoadIndex, Job
    <3>3. SaveCatalog(c) => Same
      BY <1>0 DEF SaveCatalog, Job
    <3>4. Same
      BY <2>2, <3>1, <3>2, <3>3
    <3> QED BY <1>0, <3>4
  <2> QED BY <1>0, <1>2, <2>1, <2>2 DEF Index
<1>3. ASSUME NEW s \in Sessions, NEW prev \in UpdateFrom(s), Commit(c, s, prev)
      PROVE  job'[c].buffer = {} /\ job'[c].merged = EmptyFrame /\ out' = out
  BY <1>0, <1>3 DEF Commit, NoJob
<1> QED BY <1>0, <1>1, <1>2, <1>3, AnyStep

(* All rows stay known: clients send none but those, and what is stored was  *)
(* sent, or made of what was stored.                                         *)
LEMMA RowsStay ==
    ASSUME Inv, ContentsKnown, NEW F, TellsRows(F), RowsKnown(F), [Next]_vars
    PROVE  RowsKnown(F)'
<1>0. DOMAIN out = Requests /\ Requests = Posts \cup Commits \cup Wholes
  BY DEF Inv, TypeOK, RequestsOK, Requests, Bulks
<1>1. \A k \in DOMAIN data' : data'[k].rows \in F
  <2>1. ASSUME NEW r \in Requests, NEW l \in DOMAIN out[r], PutData(r, l)
        PROVE  \A k \in DOMAIN data' : data'[k].rows \in F
    BY <2>1 DEF PutData, Put, RowsKnown
  <2> QED BY <2>1, AnyStep DEF RowsKnown
<1>2. ASSUME NEW f \in DOMAIN indexes'
      PROVE  indexes'[f] \in F /\ IndexOf(indexes'[f]) = f[2]
  <2>1. ASSUME NEW r \in Requests, NEW l \in DOMAIN out[r], PutIndex(r, l)
        PROVE  indexes'[f] \in F /\ IndexOf(indexes'[f]) = f[2]
    <3>1. out[r][l].rows \in F /\ MetaOf(out[r][l]) = l.meta
      BY DEF RowsKnown, ContentsKnown
    <3>2. IndexOf(out[r][l].rows) = IndexFileOf(l)[2]
      BY <3>1, HashIs DEF IndexFileOf
    <3>3. \/ f = IndexFileOf(l) /\ indexes'[f] = out[r][l].rows
          \/ f \in DOMAIN indexes /\ indexes'[f] = indexes[f]
      BY <2>1 DEF PutIndex, Put
    <3> QED BY <3>1, <3>2, <3>3 DEF RowsKnown
  <2> QED BY <2>1, AnyStep DEF RowsKnown
<1>3. ASSUME NEW p \in Posts
      PROVE  \A k \in DOMAIN out'[p] : out'[p][k].rows \in F
  <2>1. ASSUME NEW s \in Sessions, PostChunk(p, s)
        PROVE  \A k \in DOMAIN out'[p] : out'[p][k].rows \in F
    <3>1. PICK shape \in PostShapes(s) :
            out' = [out EXCEPT ![p] = Put(<<>>, ChunkAt(s, FilledBy(p, shape)), FilledBy(p, shape))]
      BY <2>1 DEF PostChunk
    <3>2. FilledBy(p, shape).rows \in F
      BY DEF FilledBy, TellsRows
    <3>3. out'[p] = Put(<<>>, ChunkAt(s, FilledBy(p, shape)), FilledBy(p, shape))
      BY <1>0, <3>1
    <3> QED BY <3>2, <3>3 DEF Put
  <2> QED BY <1>0, <2>1, AnyStep DEF RowsKnown
<1>4. ASSUME NEW w \in Wholes
      PROVE  \A k \in DOMAIN out'[w] : out'[w][k].rows \in F
  <2>1. ASSUME PostWhole(w)
        PROVE  \A k \in DOMAIN out'[w] : out'[w][k].rows \in F
    <3>1. PICK shape \in WholeShapes :
            out' = [out EXCEPT ![w] = Put(<<>>, ChunkAt(w, FilledBy(w, shape)), FilledBy(w, shape))]
      BY <2>1 DEF PostWhole
    <3>2. FilledBy(w, shape).rows \in F
      BY DEF FilledBy, TellsRows
    <3>3. out'[w] = Put(<<>>, ChunkAt(w, FilledBy(w, shape)), FilledBy(w, shape))
      BY <1>0, <3>1
    <3> QED BY <3>2, <3>3 DEF Put
  <2> QED BY <1>0, <2>1, AnyStep DEF RowsKnown
<1>5. \A r \in Requests : \A k \in DOMAIN out'[r] : out'[r][k].rows \in F
  BY <1>0, <1>3, <1>4, WorkRows
<1> QED BY <1>1, <1>2, <1>5, WorkRows DEF RowsKnown

(* A commit loads an index of each hash: from its file, that has the rows of *)
(* its hash, or from the chunk, that has them as well.                       *)
LEMMA IndexUnderwayStays ==
    ASSUME Inv, ContentsKnown, NEW F, TellsRows(F), RowsKnown(F), [Next]_vars,
           NEW c \in Commits, IndexUnderway(F, c)
    PROVE  IndexUnderway(F, c)'
<1> DEFINE Covers(k, j) == \/ \E l \in j.load \cup j.rebuild : IndexHash(l.meta) = IndexHash(k.meta)
                         \/ \E R \in F : IndexOf(R) = IndexHash(k.meta) /\ R \subseteq j.rows
<1>0. /\ job \in [Commits -> Job] /\ job[c] \in Job /\ c \in Requests
      /\ pc \in [Requests -> Labels]
  BY WorkKnown DEF Inv, TypeOK, RequestsOK
<1>1. CASE Resolve(c)
  <2>1. pc'[c] \notin {"indexing", "saving", "acked"}
    <3>1. \A i \in job[c].fetch : FetchChunk(c, i) => pc'[c] \notin {"indexing", "saving", "acked"}
      BY <1>0 DEF FetchChunk, Goto
    <3>2. \A f \in job[c].buffer : MergeChunk(c, f) => pc'[c] \notin {"indexing", "saving", "acked"}
      BY <1>0 DEF MergeChunk
    <3> QED BY <1>0, <1>1, <3>1, <3>2 DEF Resolve, ListMetas, LoadPrevious, FindConflicts,
               NextGroup, UploadResolved, UploadInto, GroupResolved, Goto
  <2> QED BY <2>1 DEF IndexUnderway
<1>2. CASE BuildIndex(c)
  <2>1. PICK T \in Representatives(job[c].chunks) : job' = [job EXCEPT ![c].load = T]
    BY <1>2 DEF BuildIndex
  <2>2. pc'[c] = "indexing" /\ job'[c].load = T /\ job'[c].chunks = job[c].chunks
    BY <1>0, <1>2, <2>1 DEF BuildIndex, Goto, Job
  <2>3. {IndexHash(r.meta) : r \in T} = {IndexHash(r.meta) : r \in job[c].chunks}
    BY DEF Representatives
  <2>4. \A k \in job[c].chunks : \E l \in T : IndexHash(l.meta) = IndexHash(k.meta)
    <3> SUFFICES ASSUME NEW k \in job[c].chunks
                 PROVE  \E l \in T : IndexHash(l.meta) = IndexHash(k.meta)
      OBVIOUS
    <3>1. IndexHash(k.meta) \in {IndexHash(r.meta) : r \in T}
      BY <2>3
    <3> QED BY <3>1
  <2> QED BY <2>2, <2>4 DEF IndexUnderway
<1>3. ASSUME pc[c] = "indexing", pc'[c] = "indexing", job'[c].chunks = job[c].chunks,
             \A k \in job[c].chunks : Covers(k, job[c]) => Covers(k, job'[c])
      PROVE  IndexUnderway(F, c)'
  BY <1>3 DEF IndexUnderway
<1>4. ASSUME NEW k \in job[c].load, LoadIndex(c, k)
      PROVE  IndexUnderway(F, c)'
  <2>1. pc[c] = "indexing" /\ pc'[c] = "indexing" /\ job'[c].chunks = job[c].chunks
    BY <1>0, <1>4 DEF LoadIndex, Job
  <2>2. CASE IndexFileOf(k) \in DOMAIN indexes
    <3> DEFINE R == indexes[IndexFileOf(k)]
    <3>1. R \in F /\ IndexOf(R) = IndexHash(k.meta)
      BY <2>2 DEF RowsKnown, IndexFileOf
    <3>2. /\ job'[c].load = job[c].load \ {k} /\ job'[c].rebuild = job[c].rebuild
          /\ job'[c].rows = job[c].rows \cup R
      BY <1>0, <1>4, <2>2 DEF LoadIndex, Job
    <3> HIDE DEF R
    <3>3. \A l \in job[c].chunks : Covers(l, job[c]) => Covers(l, job'[c])
      BY <3>1, <3>2
    <3> QED BY <1>3, <2>1, <3>3
  <2>3. CASE IndexFileOf(k) \notin DOMAIN indexes
    <3>1. /\ job'[c].load = job[c].load \ {k} /\ job'[c].rebuild = job[c].rebuild \cup {k}
          /\ job'[c].rows = job[c].rows
      BY <1>0, <1>4, <2>3 DEF LoadIndex, Job
    <3>2. \A l \in job[c].chunks : Covers(l, job[c]) => Covers(l, job'[c])
      BY <3>1
    <3> QED BY <1>3, <2>1, <3>2
  <2> QED BY <2>2, <2>3
<1>5. ASSUME NEW k \in job[c].rebuild, RebuildIndex(c, k)
      PROVE  IndexUnderway(F, c)'
  <2>1. CASE k \in DOMAIN data
    <3> DEFINE R == data[k].rows
    <3>1. R \in F /\ IndexOf(R) = IndexHash(k.meta)
      BY <2>1, HashIs DEF RowsKnown, ContentsKnown
    <3>2. /\ job'[c].load = job[c].load /\ job'[c].rebuild = job[c].rebuild \ {k}
          /\ job'[c].rows = job[c].rows \cup R /\ job'[c].chunks = job[c].chunks
          /\ pc[c] = "indexing" /\ pc'[c] = "indexing"
      BY <1>0, <1>5, <2>1 DEF RebuildIndex, Job
    <3> HIDE DEF R
    <3>3. \A l \in job[c].chunks : Covers(l, job[c]) => Covers(l, job'[c])
      BY <3>1, <3>2
    <3> QED BY <1>3, <3>2, <3>3
  <2>2. CASE k \notin DOMAIN data
    <3>1. pc'[c] = "failed"
      BY <1>0, <1>5, <2>2 DEF RebuildIndex, Goto
    <3> QED BY <3>1 DEF IndexUnderway
  <2> QED BY <2>1, <2>2
<1>6. CASE SaveCatalog(c)
  BY <1>0, <1>6 DEF SaveCatalog, Goto, IndexUnderway
<1>7. ASSUME NEW s \in Sessions, NEW prev \in UpdateFrom(s), Commit(c, s, prev)
      PROVE  IndexUnderway(F, c)'
  BY <1>0, <1>7 DEF Commit, Goto, IndexUnderway
<1>8. CASE job'[c] = job[c] /\ (pc'[c] = pc[c] \/ pc'[c] = "failed" \/ BulkAck(c))
  <2>1. pc'[c] = pc[c] \/ pc'[c] = "failed" \/ (pc[c] = "saving" /\ pc'[c] = "acked")
    BY <1>0, <1>8 DEF BulkAck, Goto
  <2> QED BY <1>8, <2>1 DEF IndexUnderway
<1> QED BY <1>1, <1>2, <1>4, <1>5, <1>6, <1>7, <1>8, AnyStep DEF Index

(* What is saved of a commit stays what it has.                              *)
LEMMA SavedStays ==
    ASSUME Inv, [Next]_vars, NEW c \in Commits, SavedAsIs(c)
    PROVE  SavedAsIs(c)'
<1>0. /\ job \in [Commits -> Job] /\ c \in Requests /\ c \in Bulks /\ TypeOK
      /\ pc \in [Requests -> Labels] /\ save \in [Bulks -> SUBSET {"catalog", "index"}]
  BY WorkKnown DEF Inv, TypeOK, RequestsOK
<1>1. pc[c] \in {"saving", "acked", "failed"} =>
        pc'[c] \in {"saving", "acked", "failed"} /\ job'[c] = job[c]
  <2>1. ASSUME NEW s \in Sessions, NEW prev \in UpdateFrom(s), Commit(c, s, prev)
        PROVE  pc[c] = "idle"
    BY <2>1 DEF Commit
  <2>2. Resolve(c) \/ Index(c) => pc[c] \notin {"saving", "acked", "failed"}
    BY <1>0, OwnStep
  <2>3. BulkAck(c) => pc'[c] = "acked"
    BY <1>0 DEF BulkAck, Goto
  <2> QED BY <2>1, <2>2, <2>3, AnyStep
<1>2. SaveCatalog(c) => pc'[c] = "saving" /\ catalogs' = catalogs /\ bulkIndex' = bulkIndex
  BY <1>0 DEF SaveCatalog, Goto, storage
<1>3. ASSUME NEW b \in Bulks, PutCatalog(b)
      PROVE  /\ c \in DOMAIN catalogs' => c \in DOMAIN catalogs \/ save[c] # {}
             /\ c \in DOMAIN catalogs' =>
                  \/ c \in DOMAIN catalogs /\ catalogs'[c] = catalogs[c]
                  \/ catalogs'[c] = CatalogOf(c)
  BY <1>3 DEF PutCatalog, Put
<1>4. ASSUME NEW d \in Commits, PutBulkIndex(d)
      PROVE  /\ c \in DOMAIN bulkIndex' => c \in DOMAIN bulkIndex \/ save[c] # {}
             /\ c \in DOMAIN bulkIndex' =>
                  \/ c \in DOMAIN bulkIndex /\ bulkIndex'[c] = bulkIndex[c]
                  \/ bulkIndex'[c] = job[c].rows
  BY <1>4 DEF PutBulkIndex, Put
<1>5. /\ c \in DOMAIN catalogs' => c \in DOMAIN catalogs \/ save[c] # {}
      /\ c \in DOMAIN catalogs' => catalogs'[c] = CatalogOf(c)
  BY <1>3, AnyStep DEF SavedAsIs
<1>6. /\ c \in DOMAIN bulkIndex' => c \in DOMAIN bulkIndex \/ save[c] # {}
      /\ c \in DOMAIN bulkIndex' => bulkIndex'[c] = job[c].rows
  BY <1>4, AnyStep DEF SavedAsIs
<1>7. save'[c] # {} => save[c] # {} \/ pc'[c] = "saving"
  BY <1>2, SaveSteps
<1>8. save'[c] # {} \/ c \in DOMAIN catalogs' \/ c \in DOMAIN bulkIndex' =>
        pc'[c] \in {"saving", "acked", "failed"}
  BY <1>1, <1>5, <1>6, <1>7 DEF SavedAsIs
<1>9. c \in DOMAIN catalogs' \/ c \in DOMAIN bulkIndex' => job'[c] = job[c]
  BY <1>1, <1>5, <1>6 DEF SavedAsIs
<1> QED BY <1>5, <1>6, <1>8, <1>9 DEF SavedAsIs, CatalogOf

(* The invariant of the index of a bulk.                                     *)
THEOREM IndexInvariance == ASSUME NEW F, TellsRows(F) PROVE Spec => []IndexInv(F)
<1>1. Init => IndexInv(F)
  <2> SUFFICES ASSUME Init PROVE IndexInv(F)
    OBVIOUS
  <2>1. /\ \A r \in Requests : DOMAIN out[r] = {}
        /\ \A c \in Commits : pc[c] = "idle" /\ save[c] = {} /\ job[c] = NoJob
        /\ DOMAIN data = {} /\ DOMAIN catalogs = {} /\ DOMAIN indexes = {} /\ DOMAIN bulkIndex = {}
    BY DEF Init, Requests, Bulks
  <2>2. RowsKnown(F)
    BY <2>1 DEF RowsKnown, NoJob
  <2>3. \A c \in Commits : IndexUnderway(F, c) /\ SavedAsIs(c)
    BY <2>1 DEF IndexUnderway, SavedAsIs
  <2> QED BY <2>2, <2>3 DEF IndexInv
<1>2. Inv /\ ApartInv /\ IndexInv(F) /\ [Next]_vars => IndexInv(F)'
  BY RowsStay, IndexUnderwayStays, SavedStays DEF ApartInv, IndexInv
<1> QED BY <1>1, <1>2, Invariance, ApartInvariance, PTL DEF Spec

(* The index of a bulk has the rows of all its chunks, under any requests    *)
(* and any failures, if no two indexes that clients use have the same hash.  *)
THEOREM IndexCovered == ASSUME NEW F, TellsRows(F) PROVE Spec => []IndexCoversBulk
<1>1. Inv /\ ApartInv /\ IndexInv(F) => IndexCoversBulk
  <2> SUFFICES ASSUME Inv, ApartInv, IndexInv(F), NEW c \in AckedCommits
               PROVE  /\ catalogs[c].nbRows = Cardinality(bulkIndex[c])
                      /\ \A k \in catalogs[c].chunks \cap DOMAIN data : data[k].rows \subseteq bulkIndex[c]
    BY DEF IndexCoversBulk
  <2>1. /\ c \in Commits /\ c \in Bulks /\ pc[c] = "acked"
        /\ c \in DOMAIN catalogs /\ c \in DOMAIN bulkIndex
    BY DEF AckedCommits, AckedBulks, Inv, SavesTracked
  <2>2. /\ SavedAsIs(c) /\ IndexUnderway(F, c) /\ RowsKnown(F)
    BY <2>1 DEF IndexInv
  <2>3. /\ catalogs[c] = [chunks |-> job[c].chunks, nbRows |-> Cardinality(job[c].rows)]
        /\ bulkIndex[c] = job[c].rows
    BY <2>1, <2>2 DEF SavedAsIs, CatalogOf
  <2>4. ASSUME NEW k \in job[c].chunks, k \in DOMAIN data
        PROVE  data[k].rows \subseteq job[c].rows
    <3>1. PICK R \in F : IndexOf(R) = IndexHash(k.meta) /\ R \subseteq job[c].rows
      BY <2>1, <2>2 DEF IndexUnderway
    <3>2. data[k].rows \in F /\ IndexOf(data[k].rows) = IndexHash(k.meta)
      BY <2>2, <2>4, HashIs DEF RowsKnown, ApartInv, ContentsKnown
    <3> QED BY <3>1, <3>2 DEF TellsRows
  <2> QED BY <2>3, <2>4
<1> QED BY <1>1, Invariance, ApartInvariance, IndexInvariance, PTL

-----------------------------------------------------------------------------
(* What a session keeps of the posts it acknowledged *)

(* Two frames of one name are over the same cells, where the hash tells      *)
(* their indexes apart.                                                      *)
LEMMA SameNameSameCells ==
    ASSUME NEW F, TellsRows(F), NEW d \in DataFrames, NEW e \in DataFrames,
           d.rows \in F, e.rows \in F, MetaOf(d) = MetaOf(e)
    PROVE  DOMAIN d.val = DOMAIN e.val
<1>1. d.cols = e.cols
  BY DEF MetaOf
<1>2. IndexOf(d.rows) = IndexOf(e.rows)
  BY HashIs
<1>3. d.rows = e.rows
  BY <1>2 DEF TellsRows
<1>4. DOMAIN d.val = d.cols \X d.rows /\ DOMAIN e.val = e.cols \X e.rows
  BY DataFrameFields
<1> QED BY <1>1, <1>3, <1>4

(* A chunk that is stored stays so, over the same cells. *)
LEMMA CellsStay ==
    ASSUME Inv, ContentsKnown, NEW F, TellsRows(F), RowsKnown(F), [Next]_vars, NEW k \in DOMAIN data
    PROVE  k \in DOMAIN data' /\ DOMAIN data'[k].val = DOMAIN data[k].val
<1>1. ASSUME NEW r \in Requests, NEW l \in DOMAIN out[r], PutData(r, l)
      PROVE  k \in DOMAIN data' /\ DOMAIN data'[k].val = DOMAIN data[k].val
  <2>1. CASE k = l
    <3>1. k \in DOMAIN data' /\ data'[k] = out[r][k]
      BY <1>1, <2>1 DEF PutData, Put
    <3>2. /\ data[k] \in DataFrames /\ out[r][k] \in DataFrames
          /\ MetaOf(data[k]) = MetaOf(out[r][k])
          /\ data[k].rows \in F /\ out[r][k].rows \in F
      BY <2>1 DEF Inv, TypeOK, StorageOK, RequestsOK, ContentsKnown, RowsKnown
    <3>3. DOMAIN out[r][k].val = DOMAIN data[k].val
      BY <3>2, SameNameSameCells
    <3> QED BY <3>1, <3>3
  <2>2. CASE k # l
    BY <1>1, <2>2 DEF PutData, Put
  <2> QED BY <2>1, <2>2
<1> QED BY <1>1, AnyStep

(* A post that was sent stays what it is. *)
LEMMA PostStays ==
    ASSUME Inv, [Next]_vars, NEW p \in Posts
    PROVE  \/ \E s \in Sessions : PostChunk(p, s)
           \/ out'[p] = out[p] /\ (pc'[p] = pc[p] \/ pc'[p] = "failed" \/ PostAck(p))
<1>1. CASE Failure
  <2>1. p \in Requests /\ pc \in [Requests -> Labels]
    BY DEF Inv, TypeOK, RequestsOK, Requests
  <2>2. UNCHANGED out /\ (pc'[p] = pc[p] \/ pc'[p] = "failed")
    BY <1>1, <2>1 DEF Failure, Crash, FailTask, FailRead, FailSave, Goto
  <2> QED BY <2>2
<1>2. CASE ~Failure
  BY <1>2, StepsButFailures
<1> QED BY <1>1, <1>2

(* What a post sends is one chunk, into the folder of a session that is not  *)
(* committed.                                                                *)
LEMMA PostSent ==
    ASSUME Inv, PostedFirst, NEW p \in Posts, NEW s \in Sessions, PostChunk(p, s)
    PROVE  /\ pc[p] = "idle" /\ pc'[p] = "uploading" /\ CommitsOf(s) = {}
           /\ \E shape \in PostShapes(s) : \E k : /\ k.dir = s /\ DOMAIN out'[p] = {k}
                                                  /\ out'[p][k] = FilledBy(p, shape)
<1>0. pc \in [Requests -> Labels] /\ DOMAIN out = Requests /\ p \in Requests
  BY DEF Inv, TypeOK, RequestsOK, Requests
<1>1. PICK shape \in PostShapes(s) :
        out' = [out EXCEPT ![p] = Put(<<>>, ChunkAt(s, FilledBy(p, shape)), FilledBy(p, shape))]
  BY DEF PostChunk
<1> DEFINE k == ChunkAt(s, FilledBy(p, shape))
<1>2. k.dir = s
  BY DEF ChunkAt
<1>3. out'[p] = Put(<<>>, k, FilledBy(p, shape))
  BY <1>0, <1>1
<1> HIDE DEF k
<1>4. DOMAIN out'[p] = {k} /\ out'[p][k] = FilledBy(p, shape)
  BY <1>3 DEF Put
<1>5. pc[p] = "idle" /\ pc'[p] = "uploading" /\ CommitsOf(s) = {}
  BY <1>0 DEF PostChunk, Goto, MayPost, PostedFirst
<1> QED BY <1>2, <1>4, <1>5

(* A commit that was sent is of its session for good. *)
LEMMA CommitsStay ==
    ASSUME Inv, KeptInv, [Next]_vars, NEW s \in Sessions, NEW c \in CommitsOf(s)
    PROVE  c \in CommitsOf(s)'
<1>1. c \in Commits /\ job[c].session = s /\ TypeOK
  BY DEF CommitsOf, Inv
<1>2. pc[c] # "idle"
  BY <1>1, RequestAssumption DEF KeptInv, WorkOwned, NoJob
<1>3. \A t, prev : ~Commit(c, t, prev)
  BY <1>2 DEF Commit
<1>4. job'[c].session = s
  BY <1>1, <1>3, AnyStep, OwnStep
<1> QED BY <1>1, <1>4 DEF CommitsOf

(* What a session has promised can only get less, when it is committed: the  *)
(* posts that were not acknowledged by then never are.                       *)
LEMMA PromisedStays ==
    ASSUME Inv, Inv', KeptInv, PostedFirst, [Next]_vars, NEW s \in Sessions
    PROVE  /\ PostsOf(s) \subseteq PostsOf(s)' /\ Promised(s)' \subseteq Promised(s)
           /\ CommitsOf(s) # {} => PostsOf(s)' = PostsOf(s)
<1>0. /\ PostsSettled /\ Posts \subseteq Requests /\ pc \in [Requests -> Labels]
      /\ \A r \in Requests : \A k \in DOMAIN out'[r] : out'[r][k] \in DataFrames
  BY DEF KeptInv, Inv, TypeOK, RequestsOK, Requests
<1>1. PostsOf(s) \subseteq PostsOf(s)'
  <2> SUFFICES ASSUME NEW p \in PostsOf(s) PROVE p \in PostsOf(s)'
    OBVIOUS
  <2>1. p \in Posts /\ pc[p] # "idle"
    BY <1>0 DEF PostsOf, PostsSettled
  <2>2. out'[p] = out[p]
    BY <2>1, PostStays, PostSent
  <2> QED BY <2>1, <2>2 DEF PostsOf
<1>2. CASE CommitsOf(s) = {}
  <2>1. Promised(s) = Cols \X Rows
    BY <1>2 DEF Promised
  <2>2. ASSUME NEW p \in Posts
        PROVE  CellsOf(p)' \subseteq Cols \X Rows
    <3> SUFFICES ASSUME NEW k \in DOMAIN out'[p], NEW x \in DOMAIN out'[p][k].val
                 PROVE  x \in Cols \X Rows
      BY DEF CellsOf
    <3> DEFINE d == out'[p][k]
    <3>1. p \in Requests /\ k \in DOMAIN out'[p] /\ x \in DOMAIN d.val
      BY <1>0
    <3>2. d \in DataFrames
      BY <1>0, <3>1
    <3> HIDE DEF d
    <3>3. x \in d.cols \X d.rows /\ d.cols \subseteq Cols /\ d.rows \subseteq Rows
      BY <3>1, <3>2, DataFrameFields
    <3> QED BY <3>3
  <2>3. Promised(s)' \subseteq Cols \X Rows
    <3>1. \A p \in PostsOf(s)' \cap AckedPosts' : CellsOf(p)' \subseteq Cols \X Rows
      BY <2>2 DEF PostsOf
    <3> QED BY <3>1 DEF Promised
  <2> QED BY <1>1, <1>2, <2>1, <2>3
<1>3. CASE CommitsOf(s) # {}
  <2>1. CommitsOf(s)' # {}
    BY <1>3, CommitsStay
  <2>2. ASSUME NEW p \in PostsOf(s)'
        PROVE  p \in PostsOf(s) /\ out'[p] = out[p] /\ (pc'[p] = "acked" => pc[p] = "acked")
    <3>1. p \in Posts /\ \E k \in DOMAIN out'[p] : k.dir = s
      BY DEF PostsOf
    <3>2. ASSUME NEW t \in Sessions, PostChunk(p, t)
          PROVE  FALSE
      BY <1>3, <3>1, <3>2, PostSent
    <3>3. out'[p] = out[p] /\ (pc'[p] = pc[p] \/ pc'[p] = "failed" \/ PostAck(p))
      BY <3>1, <3>2, PostStays
    <3>4. p \in PostsOf(s)
      BY <3>1, <3>3 DEF PostsOf
    <3>5. Answered(p)
      BY <1>0, <1>3, <3>4 DEF PostsSettled
    <3> QED BY <3>3, <3>4, <3>5 DEF Answered, PostAck
  <2>3. Promised(s)' \subseteq Promised(s)
    <3> SUFFICES ASSUME NEW x \in Promised(s)' PROVE x \in Promised(s)
      OBVIOUS
    <3>1. PICK p \in PostsOf(s)' \cap AckedPosts' : x \in CellsOf(p)'
      BY <2>1 DEF Promised
    <3>2. p \in PostsOf(s) /\ p \in AckedPosts /\ x \in CellsOf(p)
      BY <2>2, <3>1 DEF AckedPosts, CellsOf
    <3> QED BY <1>3, <3>2 DEF Promised
  <2>4. PostsOf(s)' = PostsOf(s)
    BY <1>1, <2>2
  <2> QED BY <1>1, <2>3, <2>4
<1> QED BY <1>2, <1>3

(* So what has a value of the session, where it owes one, does on.           *)
LEMMA OwnedStays ==
    ASSUME Inv, Inv', KeptInv, PostedFirst, [Next]_vars, NEW s \in Sessions, NEW d, Owned(d, s)
    PROVE  \A x \in Promised(s)' \cap DOMAIN d.val : d.val[x] \in PostsOf(s)'
BY PromisedStays DEF Owned

(* Who starts to upload a chunk: a post, a bulk posted whole, or a commit    *)
(* that has merged a group.                                                  *)
LEMMA UploadsBegin ==
    ASSUME Inv, [Next]_vars, NEW r \in Requests, NEW k, <<"data", k>> \in tasks'[r]
    PROVE  \/ <<"data", k>> \in tasks[r]
           \/ r \in Posts /\ \E s \in Sessions : PostChunk(r, s)
           \/ r \in Wholes /\ PostWhole(r)
           \/ r \in Commits /\ UploadResolved(r)
<1>0. tasks \in [Requests -> SUBSET Task] /\ Requests = Posts \cup Commits \cup Wholes
  BY DEF Inv, TypeOK, RequestsOK, Requests, Bulks
<1> SUFFICES ASSUME <<"data", k>> \notin tasks[r]
             PROVE  \/ r \in Posts /\ \E s \in Sessions : PostChunk(r, s)
                    \/ r \in Wholes /\ PostWhole(r)
                    \/ r \in Commits /\ UploadResolved(r)
  OBVIOUS
<1>1. ASSUME NEW q \in Requests, NEW l,
             PutMeta(q, l) \/ PutData(q, l) \/ ListIndex(q, l) \/ PutIndex(q, l)
      PROVE  FALSE
  <2>1. CASE PutMeta(q, l) \/ PutData(q, l) \/ PutIndex(q, l)
    <3>1. \E t : tasks' = [tasks EXCEPT ![q] = @ \ {t}]
      BY <2>1 DEF PutMeta, PutData, PutIndex, Done
    <3> QED BY <1>0, <3>1
  <2>2. CASE ListIndex(q, l)
    <3>1. PICK T \in {{}, {<<"index", l>>}} :
            tasks' = [tasks EXCEPT ![q] = (@ \ {<<"list", l>>}) \cup T]
      BY <2>2 DEF ListIndex
    <3>2. <<"data", k>> \notin T
      BY <3>1
    <3> QED BY <1>0, <3>1, <3>2
  <2> QED BY <1>1, <2>1, <2>2
<1>2. ASSUME NEW p \in Posts, NEW s \in Sessions, PostChunk(p, s)
      PROVE  r = p
  BY <1>0, <1>2 DEF PostChunk
<1>3. ASSUME NEW w \in Wholes, PostWhole(w)
      PROVE  r = w
  BY <1>0, <1>3 DEF PostWhole
<1>4. ASSUME NEW c \in Commits, Resolve(c)
      PROVE  r = c /\ UploadResolved(c)
  BY <1>0, <1>4 DEF Resolve, ListMetas, LoadPrevious, FindConflicts, NextGroup, FetchChunk,
                    MergeChunk, UploadResolved, UploadInto, GroupResolved
<1>5. ASSUME NEW c \in Commits, Index(c)
      PROVE  FALSE
  <2>1. tasks' = tasks \/ \E l : tasks' = [tasks EXCEPT ![c] = @ \cup {<<"index", l>>}]
    BY <1>5 DEF Index, BuildIndex, LoadIndex, RebuildIndex, SaveCatalog
  <2> QED BY <1>0, <2>1
<1>6. CASE Failure
  BY <1>0, <1>6 DEF Failure, Crash, FailTask, FailRead, FailSave, Done
<1>7. tasks' # tasks
  OBVIOUS
<1> QED BY <1>0, <1>1, <1>2, <1>3, <1>4, <1>5, <1>6, <1>7
        DEF Next, PostStep, PostAck, Upload, Complete, Commit, PutBulkIndex, Save, PutCatalog,
            BulkAck, vars

(* What a post has, and that it is answered before its session is committed. *)
LEMMA SettledStays ==
    ASSUME Inv, Inv', KeptInv, PostedFirst, [Next]_vars
    PROVE  PostsSettled'
<1>0. /\ PostsSettled /\ pc \in [Requests -> Labels] /\ DOMAIN out = Requests
      /\ \A q \in Posts \cup Wholes : q \in Requests /\ q \notin Commits
  BY RequestAssumption DEF KeptInv, Inv, TypeOK, RequestsOK, Requests, Bulks
<1>1. ASSUME NEW p \in Posts
      PROVE  /\ pc'[p] = "idle" => DOMAIN out'[p] = {}
             /\ \A k, l \in DOMAIN out'[p] : k = l
             /\ \A k \in DOMAIN out'[p] : k.dir \in Sessions
  <2>1. ASSUME NEW s \in Sessions, PostChunk(p, s)
        PROVE  /\ pc'[p] # "idle"
               /\ \A k, l \in DOMAIN out'[p] : k = l
               /\ \A k \in DOMAIN out'[p] : k.dir \in Sessions
    <3>1. pc'[p] = "uploading" /\ \E k : k.dir = s /\ DOMAIN out'[p] = {k}
      BY <2>1, PostSent
    <3> QED BY <3>1
  <2>2. CASE out'[p] = out[p] /\ (pc'[p] = pc[p] \/ pc'[p] = "failed" \/ PostAck(p))
    <3>1. pc'[p] = "idle" => pc[p] = "idle"
      BY <1>0, <2>2 DEF PostAck, Goto
    <3> QED BY <1>0, <2>2, <3>1 DEF PostsSettled
  <2> QED BY <2>1, <2>2, PostStays
<1>2. ASSUME NEW w \in Wholes
      PROVE  \A k \in DOMAIN out'[w] : k.dir = w
  <2>1. ASSUME PostWhole(w)
        PROVE  \A k \in DOMAIN out'[w] : k.dir = w
    <3>1. PICK shape \in WholeShapes :
            out' = [out EXCEPT ![w] = Put(<<>>, ChunkAt(w, FilledBy(w, shape)), FilledBy(w, shape))]
      BY <2>1 DEF PostWhole
    <3>2. out'[w] = Put(<<>>, ChunkAt(w, FilledBy(w, shape)), FilledBy(w, shape))
      BY <1>0, <3>1
    <3> QED BY <3>2 DEF Put, ChunkAt
  <2> QED BY <1>0, <2>1, AnyStep DEF PostsSettled
<1>3. ASSUME NEW s \in Sessions, CommitsOf(s)' # {}, NEW p \in PostsOf(s)'
      PROVE  Answered(p)'
  <2>1. CASE CommitsOf(s) # {}
    <3>1. p \in Posts /\ Answered(p)
      BY <1>0, <2>1, PromisedStays DEF PostsSettled, PostsOf
    <3>2. \A t \in Sessions : ~PostChunk(p, t)
      BY <3>1, PostSent DEF Answered
    <3> QED BY <3>1, <3>2, PostStays DEF Answered, PostAck
  <2>2. CASE CommitsOf(s) = {}
    <3>1. PICK c \in Commits : job'[c].session = s
      BY <1>3 DEF CommitsOf
    <3>2. job[c].session # s /\ TypeOK
      BY <2>2 DEF CommitsOf, Inv
    <3>3. \E t \in Sessions : \E prev \in UpdateFrom(t) : Commit(c, t, prev)
      BY <3>1, <3>2, AnyStep, OwnStep
    <3>4. PICK t \in Sessions : \E prev \in UpdateFrom(t) : Commit(c, t, prev)
      BY <3>3
    <3>5. PICK prev \in UpdateFrom(t) : Commit(c, t, prev)
      BY <3>4
    <3>6. t = s
      <4>1. job \in [Commits -> Job]
        BY DEF Inv, TypeOK
      <4> QED BY <3>1, <3>5, <4>1 DEF Commit, NoJob
    <3>7. /\ \A q \in PostsOf(s) : Answered(q)
          /\ out' = out /\ \A q \in Requests \ {c} : pc'[q] = pc[q]
      BY <1>0, <3>5, <3>6 DEF Commit, MayCommit, PostedFirst, Goto
    <3>8. p \in PostsOf(s) /\ p \in Posts
      BY <3>7 DEF PostsOf
    <3> QED BY <1>0, <3>7, <3>8 DEF Answered
  <2> QED BY <2>1, <2>2
<1> QED BY <1>1, <1>2, <1>3 DEF PostsSettled

(* What a group was merged into covers nothing that the commit keeps, or has *)
(* still to merge, in other chunks.                                          *)
LEMMA OnlyInGroup ==
    ASSUME Inv, ApartInv, NEW c \in Commits, InStages(c), pc[c] = "merging",
           NEW f \in DataFrames, MetaOf(f) \in CurrentMetas(c), NEW x \in DOMAIN f.val
    PROVE  /\ ~ \E i \in ItemsAt(c) : i.chunk \in DOMAIN data /\ x \in DOMAIN data[i.chunk].val
           /\ ~ \E k \in job[c].chunks : k \in DOMAIN data /\ x \in DOMAIN data[k].val
<1>0. /\ job[c].items = {} /\ job[c].fetch = {} /\ WorkApart(c) /\ ContentsKnown
      /\ \A k \in DOMAIN data : data[k] \in DataFrames
  BY WorkInStage DEF Underway, ApartInv, Inv, TypeOK, StorageOK
<1>1. ASSUME NEW k \in DOMAIN data, NEW N, k.meta \in N, Apart(CurrentMetas(c), N)
      PROVE  x \notin DOMAIN data[k].val
  <2>1. MetaOf(data[k]) = k.meta /\ data[k] \in DataFrames
    BY <1>0 DEF ContentsKnown
  <2>2. Apart({MetaOf(f)}, {k.meta})
    BY <1>1 DEF Apart
  <2>3. MetaOf(f) \in Meta /\ k.meta \in Meta
    BY <2>1, FrameMeta
  <2>4. ~OverlapWith(MetaOf(f), MetaOf(data[k]))
    BY <2>1, <2>2, <2>3, ApartMeans
  <2> QED BY <2>1, <2>4, CellCovered
<1>2. ASSUME NEW i \in ItemsAt(c), i.chunk \in DOMAIN data
      PROVE  x \notin DOMAIN data[i.chunk].val
  <2>1. PICK g \in job[c].groups : i \in g
    BY <1>0, <1>2 DEF ItemsAt
  <2>2. i.chunk.meta \in MetasOf(g) /\ Apart(CurrentMetas(c), MetasOf(g))
    BY <1>0, <2>1 DEF MetasOf, WorkApart
  <2> QED BY <1>1, <1>2, <2>2
<1>3. ASSUME NEW k \in job[c].chunks, k \in DOMAIN data
      PROVE  x \notin DOMAIN data[k].val
  BY <1>0, <1>1, <1>3 DEF WorkApart
<1> QED BY <1>2, <1>3

(* When its whole group is merged, a commit has there what its session owes. *)
LEMMA MergedOwned ==
    ASSUME Inv, ApartInv, KeptInv, NEW c \in Commits, pc[c] = "merging", job[c].buffer = {},
           job[c].merged # EmptyFrame
    PROVE  Owned(job[c].merged, job[c].session)
<1> DEFINE m == job[c].merged
           s == job[c].session
<1>0. m \in DataFrames /\ MetaOf(m) \in CurrentMetas(c)
  BY WorkKnown DEF Inv, CurrentMetas
<1> SUFFICES ASSUME NEW x \in Promised(s), x \in DOMAIN m.val
             PROVE  m.val[x] \in PostsOf(s)
  BY DEF Owned
<1>1. InStages(c) /\ WorkOwned(c) /\ Kept(c, x)
  BY DEF KeptInv, KeepsAll, KeptAt, Underway
<1>2. /\ ~ \E i \in ItemsAt(c) : i.chunk \in DOMAIN data /\ x \in DOMAIN data[i.chunk].val
      /\ ~ \E k \in job[c].chunks : k \in DOMAIN data /\ x \in DOMAIN data[k].val
  BY <1>0, <1>1, OnlyInGroup
<1>3. HasValue(m, x)
  BY <1>1, <1>2 DEF Kept
<1> QED BY <1>1, <1>3 DEF WorkOwned

(* So it does in the pieces that it uploads.                                 *)
LEMMA PiecesOwned ==
    ASSUME Inv, ApartInv, KeptInv, NEW c \in Commits, UploadResolved(c)
    PROVE  \A k \in DOMAIN out'[c] : k.dir = job[c].session /\ Owned(out'[c][k], job[c].session)
<1> DEFINE dir    == job[c].session
           pieces == SplitIntoChunks(job[c].merged)
           chunks == {ChunkAt(dir, d) : d \in pieces}
<1>0. /\ DOMAIN out = Requests /\ c \in Requests /\ pc[c] = "merging" /\ job[c].buffer = {}
      /\ job[c].merged \in DataFrames \cup {EmptyFrame}
  BY WorkKnown DEF UploadResolved, UploadInto, Inv, TypeOK, RequestsOK
<1>1. DOMAIN out'[c] = chunks
  BY <1>0 DEF UploadResolved, UploadInto
<1>2. \A k \in chunks : k.dir = dir
  BY DEF ChunkAt
<1> HIDE DEF chunks, dir
<1> SUFFICES ASSUME NEW k \in DOMAIN out'[c]
             PROVE  Owned(out'[c][k], job[c].session)
  BY <1>1, <1>2 DEF dir
<1>3. out'[c][k] \in pieces
  BY <1>0, PiecesUploaded
<1>4. job[c].merged # EmptyFrame
  BY <1>3, SplitOfNothing
<1>5. Owned(job[c].merged, job[c].session)
  BY <1>0, <1>4, MergedOwned
<1> DEFINE e == out'[c][k]
<1>6. \A x \in DOMAIN e.val : x \in DOMAIN job[c].merged.val /\ e.val[x] = job[c].merged.val[x]
  BY <1>0, <1>3, <1>4, PieceCells
<1> HIDE DEF e
<1>7. Owned(e, job[c].session)
  BY <1>5, <1>6 DEF Owned
<1> QED BY <1>7 DEF e

(* What a commit does to the dataframes it has to upload. *)
LEMMA OwnOut ==
    ASSUME TypeOK, NEW c \in Commits, Resolve(c) \/ Index(c)
    PROVE  \/ out'[c] = out[c] \/ UploadResolved(c)
           \/ \E k \in job[c].rebuild : k \in DOMAIN data /\ out'[c] = Put(out[c], k, data[k])
<1>0. DOMAIN out = Requests /\ c \in Requests
  BY WorkKnown DEF TypeOK, RequestsOK
<1>1. CASE Resolve(c)
  BY <1>1 DEF Resolve, ListMetas, LoadPrevious, FindConflicts, NextGroup, FetchChunk, MergeChunk,
              GroupResolved
<1>2. ASSUME NEW k \in job[c].rebuild, RebuildIndex(c, k)
      PROVE  out'[c] = out[c] \/ (k \in DOMAIN data /\ out'[c] = Put(out[c], k, data[k]))
  BY <1>0, <1>2 DEF RebuildIndex
<1>3. CASE Index(c)
  BY <1>2, <1>3 DEF Index, BuildIndex, LoadIndex, SaveCatalog
<1> QED BY <1>1, <1>3

(* What is stored in a session, and what is still to be, stays so.           *)
LEMMA FolderStays ==
    ASSUME Inv, Inv', ApartInv, KeptInv, PostedFirst, [Next]_vars, NEW s \in Sessions
    PROVE  FolderOwned(s)'
<1> DEFINE Fine(d) == \A x \in Promised(s)' \cap DOMAIN d.val : d.val[x] \in PostsOf(s)'
<1>0. /\ FolderOwned(s) /\ TypeOK /\ DOMAIN out = Requests
      /\ Requests = Posts \cup Commits \cup Wholes /\ s \notin Wholes
  BY RequestAssumption DEF KeptInv, Inv, TypeOK, RequestsOK, Requests, Bulks
<1>1. ASSUME NEW d, Owned(d, s)
      PROVE  Fine(d)
  BY <1>1, OwnedStays
<1> HIDE DEF Fine
<1>2. ASSUME NEW k \in DOMAIN data', k.dir = s
      PROVE  Fine(data'[k])
  <2>1. CASE data' = data
    BY <1>0, <1>1, <1>2, <2>1 DEF FolderOwned
  <2>2. ASSUME NEW r \in Requests, NEW l \in DOMAIN out[r], PutData(r, l)
        PROVE  Fine(data'[k])
    <3>1. <<"data", l>> \in tasks[r] /\ data' = Put(data, l, out[r][l])
      BY <2>2 DEF PutData
    <3>2. CASE k = l
      <4>1. data'[k] = out[r][l]
        BY <3>1, <3>2 DEF Put
      <4>2. Owned(out[r][l], s)
        BY <1>0, <1>2, <3>1, <3>2 DEF FolderOwned
      <4> QED BY <1>1, <4>1, <4>2
    <3>3. CASE k # l
      <4>1. k \in DOMAIN data /\ data'[k] = data[k]
        BY <1>2, <3>1, <3>3 DEF Put
      <4>2. Owned(data[k], s)
        BY <1>0, <1>2, <4>1 DEF FolderOwned
      <4> QED BY <1>1, <4>1, <4>2
    <3> QED BY <3>2, <3>3
  <2> QED BY <2>1, <2>2, AnyStep
<1>3. ASSUME NEW r \in Requests, NEW k \in DOMAIN out'[r], <<"data", k>> \in tasks'[r], k.dir = s
      PROVE  Fine(out'[r][k])
  <2>1. r \notin Wholes
    <3>1. PostsSettled'
      BY SettledStays
    <3> QED BY <1>0, <1>3, <3>1 DEF PostsSettled
  <2>2. CASE r \in Posts /\ \E t \in Sessions : PostChunk(r, t)
    <3>1. PICK t \in Sessions : PostChunk(r, t)
      BY <2>2
    <3>2. PICK shape \in PostShapes(t) :
            \E l : l.dir = t /\ DOMAIN out'[r] = {l} /\ out'[r][l] = FilledBy(r, shape)
      BY <2>2, <3>1, PostSent
    <3>3. t = s /\ out'[r][k] = FilledBy(r, shape)
      BY <1>3, <3>2
    <3>4. r \in Writers
      BY <2>2, RequestAssumption
    <3>5. \A x \in DOMAIN FilledBy(r, shape).val : FilledBy(r, shape).val[x] = r
      BY <3>4, FilledIs
    <3>6. r \in PostsOf(s)'
      BY <1>3, <2>2 DEF PostsOf
    <3> QED BY <3>3, <3>5, <3>6 DEF Fine
  <2>3. CASE r \in Commits /\ UploadResolved(r)
    <3>1. k.dir = job[r].session /\ Owned(out'[r][k], job[r].session)
      BY <1>3, <2>3, PiecesOwned
    <3> QED BY <1>1, <1>3, <3>1
  <2>4. CASE /\ <<"data", k>> \in tasks[r]
             /\ ~ (r \in Posts /\ \E t \in Sessions : PostChunk(r, t))
             /\ ~ (r \in Commits /\ UploadResolved(r))
    <3>1. k \in DOMAIN out[r] /\ Owned(out[r][k], s)
      <4>1. k \in DOMAIN out[r]
        BY <2>4 DEF Inv, TasksKnown
      <4> QED BY <1>0, <1>3, <2>4, <4>1 DEF FolderOwned
    <3>2. CASE r \in Commits
      <4>1. CASE Resolve(r) \/ Index(r)
        <5>1. CASE out'[r] = out[r]
          BY <1>1, <3>1, <5>1
        <5>2. ASSUME NEW l \in job[r].rebuild, l \in DOMAIN data, out'[r] = Put(out[r], l, data[l])
              PROVE  Fine(out'[r][k])
          <6>1. CASE k = l
            <7>1. out'[r][k] = data[k] /\ k \in DOMAIN data
              BY <5>2, <6>1 DEF Put
            <7> QED BY <1>0, <1>1, <1>3, <7>1 DEF FolderOwned
          <6>2. CASE k # l
            <7>1. out'[r][k] = out[r][k]
              BY <3>1, <5>2, <6>2 DEF Put
            <7> QED BY <1>1, <3>1, <7>1
          <6> QED BY <6>1, <6>2
        <5> QED BY <1>0, <2>4, <3>2, <4>1, <5>1, <5>2, OwnOut
      <4>2. ASSUME NEW t, NEW prev, Commit(r, t, prev)
            PROVE  out'[r] = out[r]
        BY <4>2 DEF Commit
      <4> QED BY <1>1, <3>1, <3>2, <4>1, <4>2, AnyStep
    <3>3. CASE r \in Posts
      <4>1. out'[r] = out[r]
        BY <2>4, <3>3, PostStays
      <4> QED BY <1>1, <3>1, <4>1
    <3> QED BY <1>0, <2>1, <3>2, <3>3
  <2> QED BY <1>0, <1>3, <2>1, <2>2, <2>3, <2>4, UploadsBegin
<1> QED BY <1>2, <1>3 DEF FolderOwned, Owned, Fine

(* What a session owes is stored in it by then: the post was acknowledged.   *)
LEMMA PromisedStored ==
    ASSUME Inv, ApartInv, KeptInv, NEW F, TellsRows(F), RowsKnown(F), NEW c \in Commits,
           NEW x \in Promised(job[c].session)
    PROVE  \E k \in metas \cap DOMAIN data : k.dir = job[c].session /\ x \in DOMAIN data[k].val
<1> DEFINE s == job[c].session
<1>0. /\ Posts \subseteq Requests /\ PostsSettled /\ ContentsKnown
      /\ \A r \in Requests : \A k \in DOMAIN out[r] : out[r][k] \in DataFrames
      /\ \A k \in DOMAIN data : data[k] \in DataFrames
  BY DEF KeptInv, ApartInv, Inv, TypeOK, StorageOK, RequestsOK, Requests
<1>1. c \in CommitsOf(s)
  BY DEF CommitsOf
<1>2. PICK p \in PostsOf(s) \cap AckedPosts : x \in CellsOf(p)
  BY <1>1 DEF Promised
<1>3. PICK k \in DOMAIN out[p] : x \in DOMAIN out[p][k].val
  BY <1>2 DEF CellsOf
<1>4. p \in Requests /\ p \in Posts /\ pc[p] = "acked" /\ k.dir = s
  BY <1>0, <1>2, <1>3 DEF PostsOf, AckedPosts, PostsSettled
<1>5. k \in metas /\ k \in DOMAIN data
  BY <1>4 DEF Inv, TasksKnown, UploadsTracked, QuietLabels
<1>6. DOMAIN data[k].val = DOMAIN out[p][k].val
  <2>1. /\ data[k] \in DataFrames /\ out[p][k] \in DataFrames
        /\ MetaOf(data[k]) = MetaOf(out[p][k])
        /\ data[k].rows \in F /\ out[p][k].rows \in F
    BY <1>0, <1>3, <1>4, <1>5 DEF ContentsKnown, RowsKnown
  <2> QED BY <2>1, SameNameSameCells
<1> QED BY <1>3, <1>4, <1>5, <1>6

(* A commit that has nothing at hand has nothing to be of its session.       *)
LEMMA NothingOwned ==
    ASSUME NEW c \in Commits, pc'[c] \notin KeptAt, pc'[c] = "idle" => job'[c] = NoJob,
           job'[c].items = {}, job'[c].groups = {}, job'[c].fetch = {}, job'[c].buffer = {},
           job'[c].merged = EmptyFrame
    PROVE  WorkOwned(c)' /\ KeepsAll(c)'
<1>1. ItemsAt(c)' = {}
  BY DEF ItemsAt
<1>2. \A x : ~HasValue(job'[c].merged, x)
  BY DEF HasValue, EmptyFrame
<1>3. pc'[c] # "uploading"
  BY DEF KeptAt, Underway
<1> QED BY <1>1, <1>2, <1>3 DEF WorkOwned, KeepsAll, HasValue

(* What a step of a commit has to keep. *)
LEMMA WorkThen ==
    ASSUME Inv, Inv', KeptInv, PostedFirst, [Next]_vars, NEW c \in Commits, Resolve(c) \/ Index(c),
           NEW s, s = job[c].session,
           \A i \in ItemsAt(c)' : ~i.old => i.chunk.dir = s,
           \A f \in job'[c].buffer : ~f.old => Owned(f.frame, s),
           \A x \in Promised(s) :
             HasValue(job'[c].merged, x) => job'[c].merged.val[x] \in PostsOf(s),
           pc'[c] = "uploading" => \A k \in DOMAIN out'[c] : k.dir = s,
           pc'[c] \in KeptAt => \A x \in Promised(s) : Kept(c, x)'
    PROVE  WorkOwned(c)' /\ KeepsAll(c)'
<1>0. /\ pc[c] # "idle" /\ pc'[c] # "idle" /\ s \in Sessions /\ job'[c].session = s
  BY OwnStep DEF Inv, JobsStored
<1>1. Promised(s)' \subseteq Promised(s) /\ PostsOf(s) \subseteq PostsOf(s)'
  BY <1>0, PromisedStays
<1>2. \A f \in job'[c].buffer : ~f.old => Owned(f.frame, s)'
  BY <1>1 DEF Owned
<1>3. \A x \in Promised(s)' : HasValue(job'[c].merged, x) => job'[c].merged.val[x] \in PostsOf(s)'
  BY <1>1
<1>4. WorkOwned(c)'
  BY <1>0, <1>2, <1>3 DEF WorkOwned, HasValue
<1>5. KeepsAll(c)'
  BY <1>0, <1>1 DEF KeepsAll
<1> QED BY <1>4, <1>5

(* The items of the session are all that it stored. *)
LEMMA ListKept ==
    ASSUME Inv, Inv', ApartInv, KeptInv, PostedFirst, NEW F, TellsRows(F), RowsKnown(F),
           [Next]_vars, NEW c \in Commits, ListMetas(c)
    PROVE  WorkOwned(c)' /\ KeepsAll(c)'
<1> DEFINE s == job[c].session
           found == {k \in metas : k.dir = s}
<1>0. /\ pc[c] = "listing" /\ data' = data /\ job \in [Commits -> Job] /\ job[c] \in Job
      /\ pc \in [Requests -> Labels] /\ c \in Requests
      /\ job' = [job EXCEPT ![c].items = [chunk : found, old : {FALSE}]]
      /\ pc'[c] = IF found = {} THEN "failed"
                  ELSE IF job[c].prev = None THEN "conflicts" ELSE "previous"
  BY WorkKnown DEF ListMetas, Goto, storage, Inv, TypeOK, RequestsOK
<1>1. /\ job[c].fetch = {} /\ job[c].buffer = {} /\ job[c].merged = EmptyFrame
      /\ job[c].groups = {} /\ \A x : ~HasValue(EmptyFrame, x)
  BY <1>0, WorkInStage DEF KeptInv
<1>2. /\ job'[c].items = [chunk : found, old : {FALSE}] /\ job'[c].groups = {}
      /\ job'[c].fetch = {} /\ job'[c].buffer = {} /\ job'[c].merged = EmptyFrame
  BY <1>0, <1>1 DEF Job
<1>3. \A i \in ItemsAt(c)' : i.chunk.dir = s
  BY <1>2 DEF ItemsAt
<1>4. ASSUME NEW x \in Promised(s)
      PROVE  Kept(c, x)'
  <2>1. PICK k \in metas \cap DOMAIN data : k.dir = s /\ x \in DOMAIN data[k].val
    BY PromisedStored
  <2>2. [chunk |-> k, old |-> FALSE] \in ItemsAt(c)'
    BY <1>2, <2>1 DEF ItemsAt
  <2> QED BY <1>0, <2>1, <2>2 DEF Kept
<1>5. pc'[c] # "uploading" /\ Resolve(c)
  BY <1>0 DEF Resolve
<1> HIDE DEF s, found
<1> QED BY <1>1, <1>2, <1>3, <1>4, <1>5, WorkThen DEF s

(* The previous bulk is added to them. *)
LEMMA PreviousKept ==
    ASSUME Inv, Inv', ApartInv, KeptInv, PostedFirst, [Next]_vars, NEW c \in Commits, LoadPrevious(c)
    PROVE  WorkOwned(c)' /\ KeepsAll(c)'
<1> DEFINE s == job[c].session
           more == [chunk : catalogs[job[c].prev].chunks, old : {TRUE}]
<1>0. /\ pc[c] = "previous" /\ data' = data /\ job \in [Commits -> Job] /\ job[c] \in Job
      /\ pc \in [Requests -> Labels] /\ c \in Requests
      /\ job' = [job EXCEPT ![c].items = @ \cup more]
      /\ pc'[c] = "conflicts"
  BY WorkKnown DEF LoadPrevious, Goto, storage, Inv, TypeOK, RequestsOK
<1>1. /\ job[c].fetch = {} /\ job[c].buffer = {} /\ job[c].merged = EmptyFrame
      /\ job[c].groups = {} /\ \A x : ~HasValue(EmptyFrame, x)
  BY <1>0, WorkInStage DEF KeptInv
<1>2. /\ job'[c].items = job[c].items \cup more /\ job'[c].groups = {}
      /\ job'[c].fetch = {} /\ job'[c].buffer = {} /\ job'[c].merged = EmptyFrame
      /\ job'[c].chunks = job[c].chunks /\ job'[c].session = s
  BY <1>0, <1>1 DEF Job
<1>3. ItemsAt(c) \subseteq ItemsAt(c)' /\ \A i \in ItemsAt(c)' : i \in ItemsAt(c) \/ i.old
  BY <1>1, <1>2 DEF ItemsAt
<1>4. \A i \in ItemsAt(c)' : ~i.old => i.chunk.dir = s
  BY <1>3 DEF KeptInv, WorkOwned
<1>5. ASSUME NEW x \in Promised(s)
      PROVE  Kept(c, x)'
  <2>1. Kept(c, x)
    BY <1>0 DEF KeptInv, KeepsAll, KeptAt
  <2> QED BY <1>0, <1>1, <1>2, <1>3, <2>1 DEF Kept
<1>6. pc'[c] # "uploading" /\ Resolve(c)
  BY <1>0 DEF Resolve
<1> HIDE DEF s, more
<1> QED BY <1>1, <1>2, <1>4, <1>5, <1>6, WorkThen DEF s

(* What is in no conflict is kept as it is, and what is is to be merged.     *)
LEMMA FindKept ==
    ASSUME Inv, Inv', ApartInv, KeptInv, PostedFirst, [Next]_vars, NEW c \in Commits, FindConflicts(c)
    PROVE  WorkOwned(c)' /\ KeepsAll(c)'
<1> DEFINE s == job[c].session
           S == job[c].items
           groups == ConflictGroups(S)
<1>0. /\ pc[c] = "conflicts" /\ data' = data /\ job \in [Commits -> Job] /\ job[c] \in Job
      /\ pc \in [Requests -> Labels] /\ c \in Requests
      /\ job' = [job EXCEPT ![c].items = {}, ![c].groups = groups,
                            ![c].chunks = {i.chunk : i \in S \ UNION groups}]
      /\ pc'[c] \in {"failed", "resolving"}
  BY WorkKnown DEF FindConflicts, Goto, storage, Inv, TypeOK, RequestsOK
<1>1. /\ job[c].fetch = {} /\ job[c].buffer = {} /\ job[c].merged = EmptyFrame
      /\ job[c].groups = {} /\ job[c].chunks = {} /\ \A x : ~HasValue(EmptyFrame, x)
  BY <1>0, WorkInStage DEF KeptInv
<1>2. /\ job'[c].items = {} /\ job'[c].groups = groups
      /\ job'[c].fetch = {} /\ job'[c].buffer = {} /\ job'[c].merged = EmptyFrame
      /\ job'[c].chunks = {i.chunk : i \in S \ UNION groups} /\ job'[c].session = s
  BY <1>0, <1>1 DEF Job
<1>3. ItemsAt(c) = S /\ ItemsAt(c)' = UNION groups
  BY <1>1, <1>2 DEF ItemsAt
<1>4. UNION groups \subseteq S
  BY GroupsType
<1>5. \A i \in S : ~i.old => i.chunk.dir = s
  BY <1>3 DEF KeptInv, WorkOwned
<1> HIDE DEF groups
<1>6. ASSUME NEW x \in Promised(s)
      PROVE  Kept(c, x)'
  <2>1. Kept(c, x)
    BY <1>0 DEF KeptInv, KeepsAll, KeptAt
  <2>2. PICK i \in S : ~i.old /\ i.chunk \in DOMAIN data /\ x \in DOMAIN data[i.chunk].val
    BY <1>0, <1>1, <1>3, <2>1 DEF Kept
  <2>3. CASE i \in UNION groups
    BY <1>0, <1>3, <2>2, <2>3 DEF Kept
  <2>4. CASE i \notin UNION groups
    <3>1. i.chunk \in job'[c].chunks /\ i.chunk.dir = s
      BY <1>2, <1>5, <2>2, <2>4
    <3> QED BY <1>0, <1>2, <2>2, <3>1 DEF Kept
  <2> QED BY <2>3, <2>4
<1>7. pc'[c] # "uploading" /\ Resolve(c)
  BY <1>0 DEF Resolve
<1>8. \A i \in ItemsAt(c)' : ~i.old => i.chunk.dir = s
  BY <1>3, <1>4, <1>5
<1> HIDE DEF s, S
<1> QED BY <1>1, <1>2, <1>6, <1>7, <1>8, WorkThen DEF s

(* A group is taken out of those to come. *)
LEMMA NextKept ==
    ASSUME Inv, Inv', ApartInv, KeptInv, PostedFirst, [Next]_vars, NEW c \in Commits, NextGroup(c)
    PROVE  WorkOwned(c)' /\ KeepsAll(c)'
<1> DEFINE s == job[c].session
<1>0. /\ pc[c] = "resolving" /\ data' = data /\ job \in [Commits -> Job] /\ job[c] \in Job
      /\ pc \in [Requests -> Labels] /\ c \in Requests /\ pc'[c] = "fetching"
  BY WorkKnown DEF NextGroup, Goto, storage, Inv, TypeOK, RequestsOK
<1>1. /\ job[c].fetch = {} /\ job[c].buffer = {} /\ job[c].merged = EmptyFrame
      /\ \A x : ~HasValue(EmptyFrame, x)
  BY <1>0, WorkInStage DEF KeptInv
<1>2. PICK g \in job[c].groups :
        job' = [job EXCEPT ![c].groups = @ \ {g}, ![c].fetch = g]
  BY DEF NextGroup
<1>3. /\ job'[c].items = job[c].items /\ job'[c].groups = job[c].groups \ {g}
      /\ job'[c].fetch = g /\ job'[c].buffer = {} /\ job'[c].merged = EmptyFrame
      /\ job'[c].chunks = job[c].chunks /\ job'[c].session = s
  BY <1>0, <1>1, <1>2 DEF Job
<1>4. ItemsAt(c)' = ItemsAt(c)
  <2>1. UNION job[c].groups = (UNION (job[c].groups \ {g})) \cup g
    OBVIOUS
  <2> QED BY <1>1, <1>3, <2>1 DEF ItemsAt
<1>5. \A i \in ItemsAt(c)' : ~i.old => i.chunk.dir = s
  BY <1>4 DEF KeptInv, WorkOwned
<1>6. ASSUME NEW x \in Promised(s)
      PROVE  Kept(c, x)'
  <2>1. Kept(c, x)
    BY <1>0 DEF KeptInv, KeepsAll, KeptAt, Underway
  <2> QED BY <1>0, <1>1, <1>3, <1>4, <2>1 DEF Kept
<1>7. pc'[c] # "uploading" /\ Resolve(c)
  BY <1>0 DEF Resolve
<1> HIDE DEF s
<1> QED BY <1>1, <1>3, <1>5, <1>6, <1>7, WorkThen DEF s

(* A chunk of the group is downloaded. *)
LEMMA FetchKept ==
    ASSUME Inv, Inv', ApartInv, KeptInv, PostedFirst, [Next]_vars, NEW c \in Commits,
           NEW i \in job[c].fetch, FetchChunk(c, i)
    PROVE  WorkOwned(c)' /\ KeepsAll(c)'
<1> DEFINE s == job[c].session
           b == [old |-> i.old, frame |-> data[i.chunk]]
<1>0. /\ pc[c] = "fetching" /\ data' = data /\ job \in [Commits -> Job] /\ job[c] \in Job
      /\ pc \in [Requests -> Labels] /\ c \in Requests
      /\ pc'[c] \in {"failed", "fetching", "merging"}
      /\ Resolve(c) /\ s \in Sessions
  BY WorkKnown DEF FetchChunk, Goto, storage, Inv, TypeOK, RequestsOK, Resolve, JobsStored
<1>1. WorkOwned(c) /\ FolderOwned(s) /\ i \in ItemsAt(c)
  BY <1>0 DEF KeptInv, ItemsAt
<1>2. CASE i.chunk \notin DOMAIN data
  <2>1. job'[c] = job[c] /\ pc'[c] = "failed"
    BY <1>0, <1>2 DEF FetchChunk, Goto
  <2>2. ItemsAt(c)' = ItemsAt(c) /\ pc'[c] # "uploading" /\ pc'[c] \notin KeptAt
    BY <2>1 DEF ItemsAt, KeptAt, Underway
  <2>3. /\ \A j \in ItemsAt(c)' : ~j.old => j.chunk.dir = s
        /\ \A f \in job'[c].buffer : ~f.old => Owned(f.frame, s)
        /\ \A x \in Promised(s) :
             HasValue(job'[c].merged, x) => job'[c].merged.val[x] \in PostsOf(s)
    BY <1>1, <2>1, <2>2 DEF WorkOwned
  <2> QED BY <1>0, <2>2, <2>3, WorkThen
<1>3. CASE i.chunk \in DOMAIN data
  <2>1. job' = [job EXCEPT ![c].fetch = @ \ {i}, ![c].buffer = @ \cup {b}]
    BY <1>3 DEF FetchChunk
  <2> HIDE DEF b
  <2>2. /\ job'[c].items = job[c].items /\ job'[c].groups = job[c].groups
        /\ job'[c].fetch = job[c].fetch \ {i} /\ job'[c].buffer = job[c].buffer \cup {b}
        /\ job'[c].merged = job[c].merged
        /\ job'[c].chunks = job[c].chunks /\ job'[c].session = s
    BY <1>0, <2>1 DEF Job
  <2>3. ItemsAt(c)' \subseteq ItemsAt(c) /\ ItemsAt(c) \subseteq ItemsAt(c)' \cup {i}
    BY <2>2 DEF ItemsAt
  <2>4. ~b.old => Owned(b.frame, s)
    BY <1>1, <1>3 DEF FolderOwned, WorkOwned, b
  <2>5. ASSUME NEW x \in Promised(s)
        PROVE  Kept(c, x)'
    <3>1. Kept(c, x)
      BY <1>0 DEF KeptInv, KeepsAll, KeptAt, Underway
    <3>2. ~i.old /\ x \in DOMAIN data[i.chunk].val => ~b.old /\ x \in DOMAIN b.frame.val
      BY DEF b
    <3> QED BY <1>0, <2>2, <2>3, <3>1, <3>2 DEF Kept
  <2>6. /\ \A j \in ItemsAt(c)' : ~j.old => j.chunk.dir = s
        /\ \A f \in job'[c].buffer : ~f.old => Owned(f.frame, s)
        /\ \A x \in Promised(s) :
             HasValue(job'[c].merged, x) => job'[c].merged.val[x] \in PostsOf(s)
    BY <1>1, <2>2, <2>3, <2>4 DEF WorkOwned
  <2>7. pc'[c] # "uploading"
    BY <1>0
  <2> HIDE DEF s
  <2> QED BY <1>0, <2>5, <2>6, <2>7, WorkThen DEF s
<1> QED BY <1>2, <1>3

(* It is merged: those of the session first, so that a value the session     *)
(* owes is there when those of the previous bulk come.                       *)
LEMMA MergeKept ==
    ASSUME Inv, Inv', ApartInv, KeptInv, PostedFirst, [Next]_vars, NEW c \in Commits,
           NEW a \in job[c].buffer, MergeChunk(c, a)
    PROVE  WorkOwned(c)' /\ KeepsAll(c)'
<1> DEFINE s == job[c].session
           m == CombineFirst(job[c].merged, a.frame)
<1>0. /\ pc[c] = "merging" /\ data' = data /\ job \in [Commits -> Job] /\ job[c] \in Job
      /\ pc' = pc /\ c \in Requests
      /\ job' = [job EXCEPT ![c].merged = m, ![c].buffer = @ \ {a}]
      /\ a.old => \A g \in job[c].buffer : g.old
      /\ Resolve(c)
  BY WorkKnown DEF MergeChunk, storage, Inv, TypeOK, RequestsOK, Resolve
<1>1. WorkOwned(c) /\ InStages(c)
  BY DEF KeptInv
<1>2. job[c].merged \in DataFrames \cup {EmptyFrame} /\ a.frame \in DataFrames
  BY WorkKnown DEF Inv
<1>3. ASSUME NEW x
      PROVE  /\ HasValue(job[c].merged, x) => HasValue(m, x) /\ m.val[x] = job[c].merged.val[x]
             /\ HasValue(a.frame, x) => HasValue(m, x)
             /\ HasValue(m, x) /\ ~HasValue(job[c].merged, x) =>
                  HasValue(a.frame, x) /\ m.val[x] = a.frame.val[x]
  BY <1>2, CombineIs
<1> HIDE DEF m
<1>4. /\ job'[c].items = job[c].items /\ job'[c].groups = job[c].groups
      /\ job'[c].fetch = job[c].fetch /\ job'[c].buffer = job[c].buffer \ {a}
      /\ job'[c].chunks = job[c].chunks /\ job'[c].merged = m /\ job'[c].session = s
  BY <1>0 DEF Job
<1>5. ItemsAt(c)' = ItemsAt(c)
  BY <1>4 DEF ItemsAt
<1>6. MetaOf(a.frame) \in CurrentMetas(c)
  BY DEF CurrentMetas
<1>7. \A x \in Promised(s) : Kept(c, x)
  BY <1>0 DEF KeptInv, KeepsAll, KeptAt, Underway
<1>8. ASSUME NEW x \in Promised(s), ~a.old, x \in DOMAIN a.frame.val
      PROVE  a.frame.val[x] \in PostsOf(s) /\ HasValue(a.frame, x)
  <2>1. a.frame.val[x] \in PostsOf(s)
    BY <1>1, <1>8 DEF WorkOwned, Owned
  <2>2. a.frame.val[x] # NaN
    BY <2>1, RequestAssumption, GeometryAssumption DEF PostsOf
  <2> QED BY <1>8, <2>1, <2>2 DEF HasValue
<1>9. ASSUME NEW x \in Promised(s), HasValue(m, x)
      PROVE  m.val[x] \in PostsOf(s)
  <2>1. CASE HasValue(job[c].merged, x)
    BY <1>1, <1>3, <2>1 DEF WorkOwned
  <2>2. CASE ~HasValue(job[c].merged, x)
    <3>1. HasValue(a.frame, x) /\ m.val[x] = a.frame.val[x] /\ x \in DOMAIN a.frame.val
      BY <1>3, <1>9, <2>2 DEF HasValue
    <3>2. ~a.old
      <4> SUFFICES ASSUME a.old PROVE FALSE
        OBVIOUS
      <4>1. /\ ~ \E i \in ItemsAt(c) : i.chunk \in DOMAIN data /\ x \in DOMAIN data[i.chunk].val
            /\ ~ \E k \in job[c].chunks : k \in DOMAIN data /\ x \in DOMAIN data[k].val
        BY <1>0, <1>1, <1>2, <1>6, <3>1, OnlyInGroup
      <4> QED BY <1>0, <1>7, <2>2, <4>1 DEF Kept
    <3> QED BY <1>8, <3>1, <3>2
  <2> QED BY <2>1, <2>2
<1>10. ASSUME NEW x \in Promised(s)
       PROVE  Kept(c, x)'
  <2>1. Kept(c, x)
    BY <1>7
  <2>2. HasValue(m, x) => HasValue(job'[c].merged, x)
    BY <1>4
  <2>3. ASSUME NEW f \in job[c].buffer, ~f.old, x \in DOMAIN f.frame.val
        PROVE  HasValue(m, x) \/ f \in job'[c].buffer
    BY <1>3, <1>4, <1>8, <2>3
  <2>4. HasValue(job[c].merged, x) => HasValue(m, x)
    BY <1>3
  <2>5. HasValue(m, x) => Kept(c, x)'
    BY <1>4 DEF Kept, HasValue
  <2>6. CASE \E f \in job[c].buffer : ~f.old /\ x \in DOMAIN f.frame.val
    <3>1. PICK f \in job[c].buffer : ~f.old /\ x \in DOMAIN f.frame.val
      BY <2>6
    <3>2. f \in job'[c].buffer => Kept(c, x)'
      BY <3>1 DEF Kept
    <3> QED BY <2>3, <2>5, <3>1, <3>2
  <2>7. CASE ~ \E f \in job[c].buffer : ~f.old /\ x \in DOMAIN f.frame.val
    BY <1>0, <1>4, <1>5, <2>1, <2>4, <2>5, <2>7 DEF Kept
  <2> QED BY <2>6, <2>7
<1>11. /\ \A j \in ItemsAt(c)' : ~j.old => j.chunk.dir = s
       /\ \A f \in job'[c].buffer : ~f.old => Owned(f.frame, s)
  BY <1>1, <1>4, <1>5 DEF WorkOwned
<1>12. pc'[c] # "uploading"
  BY <1>0
<1> HIDE DEF s
<1> QED BY <1>0, <1>4, <1>9, <1>10, <1>11, <1>12, WorkThen DEF s

(* What was merged goes into the pieces to upload. *)
LEMMA UploadKept ==
    ASSUME Inv, Inv', ApartInv, KeptInv, PostedFirst, [Next]_vars, NEW c \in Commits, UploadResolved(c)
    PROVE  WorkOwned(c)' /\ KeepsAll(c)'
<1> DEFINE s == job[c].session
           pieces == SplitIntoChunks(job[c].merged)
<1>0. /\ pc[c] = "merging" /\ data' = data /\ job \in [Commits -> Job] /\ job[c] \in Job
      /\ pc \in [Requests -> Labels] /\ c \in Requests /\ pc'[c] = "uploading"
      /\ job' = [job EXCEPT ![c].merged = EmptyFrame] /\ job[c].buffer = {}
      /\ Resolve(c)
  BY WorkKnown DEF UploadResolved, UploadInto, Goto, storage, Inv, TypeOK, RequestsOK, Resolve
<1>1. \A x : ~HasValue(EmptyFrame, x)
  BY WorkInStage DEF KeptInv
<1>2. /\ job'[c].items = job[c].items /\ job'[c].groups = job[c].groups
      /\ job'[c].fetch = job[c].fetch /\ job'[c].buffer = {}
      /\ job'[c].chunks = job[c].chunks /\ job'[c].merged = EmptyFrame /\ job'[c].session = s
  BY <1>0 DEF Job
<1>3. ItemsAt(c)' = ItemsAt(c)
  BY <1>2 DEF ItemsAt
<1>4. \A x : HasValue(job[c].merged, x) => \E e \in pieces : HasValue(e, x)
  <2>1. job[c].merged \in DataFrames \cup {EmptyFrame}
    BY WorkKnown DEF Inv
  <2> QED BY <1>1, <2>1, PieceValues
<1>5. \A e \in pieces : \E k \in DOMAIN out'[c] : out'[c][k] = e
  BY <1>0, PiecesUploaded
<1> HIDE DEF pieces
<1>6. ASSUME NEW x \in Promised(s)
      PROVE  Kept(c, x)'
  <2>1. Kept(c, x)
    BY <1>0 DEF KeptInv, KeepsAll, KeptAt, Underway
  <2>2. CASE HasValue(job[c].merged, x)
    <3>1. PICK e \in pieces : HasValue(e, x)
      BY <1>4, <2>2
    <3>2. PICK k \in DOMAIN out'[c] : out'[c][k] = e
      BY <1>5
    <3>3. x \in DOMAIN out'[c][k].val
      BY <3>1, <3>2 DEF HasValue
    <3> QED BY <1>0, <3>3 DEF Kept
  <2>3. CASE ~HasValue(job[c].merged, x)
    BY <1>0, <1>2, <1>3, <2>1, <2>3 DEF Kept
  <2> QED BY <2>2, <2>3
<1>7. /\ \A j \in ItemsAt(c)' : ~j.old => j.chunk.dir = s
      /\ \A k \in DOMAIN out'[c] : k.dir = s
  BY <1>3, PiecesOwned DEF KeptInv, WorkOwned
<1> HIDE DEF s
<1> QED BY <1>0, <1>1, <1>2, <1>6, <1>7, WorkThen DEF s

(* They are chunks that the commit keeps, once they are stored.              *)
LEMMA ResolvedKept ==
    ASSUME Inv, Inv', ApartInv, KeptInv, PostedFirst, NEW F, TellsRows(F), RowsKnown(F),
           [Next]_vars, NEW c \in Commits, GroupResolved(c)
    PROVE  WorkOwned(c)' /\ KeepsAll(c)'
<1> DEFINE s == job[c].session
<1>0. /\ pc[c] = "uploading" /\ data' = data /\ job \in [Commits -> Job] /\ job[c] \in Job
      /\ pc \in [Requests -> Labels] /\ c \in Requests /\ out' = out /\ pc'[c] = "resolving"
      /\ job' = [job EXCEPT ![c].chunks = @ \cup DOMAIN out[c]] /\ tasks[c] = {}
      /\ Resolve(c) /\ WorkOwned(c)
  BY WorkKnown DEF GroupResolved, Goto, storage, Inv, TypeOK, RequestsOK, Resolve, KeptInv
<1>1. /\ job[c].buffer = {} /\ job[c].merged = EmptyFrame /\ \A x : ~HasValue(EmptyFrame, x)
  BY <1>0, WorkInStage DEF KeptInv
<1>2. /\ job'[c].items = job[c].items /\ job'[c].groups = job[c].groups
      /\ job'[c].fetch = job[c].fetch /\ job'[c].buffer = {} /\ job'[c].merged = EmptyFrame
      /\ job'[c].chunks = job[c].chunks \cup DOMAIN out[c] /\ job'[c].session = s
  BY <1>0, <1>1 DEF Job
<1>3. ItemsAt(c)' = ItemsAt(c)
  BY <1>2 DEF ItemsAt
<1>4. ASSUME NEW k \in DOMAIN out[c]
      PROVE  k \in DOMAIN data /\ DOMAIN data[k].val = DOMAIN out[c][k].val
  <2>1. k \in DOMAIN data
    BY <1>0, <1>4 DEF Inv, UploadsTracked
  <2>2. /\ data[k] \in DataFrames /\ out[c][k] \in DataFrames
        /\ MetaOf(data[k]) = MetaOf(out[c][k])
        /\ data[k].rows \in F /\ out[c][k].rows \in F
    BY <1>0, <1>4, <2>1 DEF Inv, TypeOK, StorageOK, RequestsOK, ApartInv, ContentsKnown, RowsKnown
  <2> QED BY <2>1, <2>2, SameNameSameCells
<1>5. \A k \in DOMAIN out[c] : k.dir = s
  BY <1>0 DEF WorkOwned
<1>6. ASSUME NEW x \in Promised(s)
      PROVE  Kept(c, x)'
  <2>1. Kept(c, x)
    BY <1>0 DEF KeptInv, KeepsAll, KeptAt, Underway
  <2> QED BY <1>0, <1>1, <1>2, <1>3, <1>4, <1>5, <2>1 DEF Kept
<1>7. /\ \A j \in ItemsAt(c)' : ~j.old => j.chunk.dir = s
      /\ pc'[c] # "uploading"
  BY <1>0, <1>3 DEF WorkOwned
<1> HIDE DEF s
<1> QED BY <1>0, <1>1, <1>2, <1>6, <1>7, WorkThen DEF s

(* Nothing moves while the index is built. *)
LEMMA IndexKept ==
    ASSUME Inv, Inv', ApartInv, KeptInv, PostedFirst, [Next]_vars, NEW c \in Commits, Index(c)
    PROVE  WorkOwned(c)' /\ KeepsAll(c)'
<1> DEFINE s == job[c].session
<1>0. /\ job \in [Commits -> Job] /\ job[c] \in Job /\ pc \in [Requests -> Labels]
      /\ c \in Requests /\ WorkOwned(c) /\ data' = data
  BY WorkKnown, OwnStep DEF Inv, TypeOK, RequestsOK, KeptInv, storage
<1>1. /\ job'[c].items = job[c].items /\ job'[c].groups = job[c].groups
      /\ job'[c].fetch = job[c].fetch /\ job'[c].buffer = job[c].buffer
      /\ job'[c].merged = job[c].merged /\ job'[c].chunks = job[c].chunks
      /\ job'[c].session = s /\ pc[c] \in {"resolving", "indexing"}
      /\ pc'[c] \in {"indexing", "saving", "failed"}
  <2>1. CASE BuildIndex(c)
    BY <1>0, <2>1 DEF BuildIndex, Job, Goto
  <2>2. CASE \E k \in job[c].load : LoadIndex(c, k)
    BY <1>0, <2>2 DEF LoadIndex, Job
  <2>3. CASE \E k \in job[c].rebuild : RebuildIndex(c, k)
    BY <1>0, <2>3 DEF RebuildIndex, Job, Goto
  <2>4. CASE SaveCatalog(c)
    BY <1>0, <2>4 DEF SaveCatalog, Job, Goto
  <2> QED BY <2>1, <2>2, <2>3, <2>4 DEF Index
<1>2. ItemsAt(c)' = ItemsAt(c)
  BY <1>1 DEF ItemsAt
<1>3. ASSUME NEW x \in Promised(s)
      PROVE  Kept(c, x)'
  <2>1. Kept(c, x)
    BY <1>1 DEF KeptInv, KeepsAll, KeptAt, Underway
  <2>2. HasValue(job[c].merged, x) => Kept(c, x)'
    BY <1>1 DEF Kept, HasValue
  <2> QED BY <1>0, <1>1, <1>2, <2>1, <2>2 DEF Kept
<1>4. /\ \A j \in ItemsAt(c)' : ~j.old => j.chunk.dir = s
      /\ \A f \in job'[c].buffer : ~f.old => Owned(f.frame, s)
      /\ \A x \in Promised(s) :
           HasValue(job'[c].merged, x) => job'[c].merged.val[x] \in PostsOf(s)
      /\ pc'[c] # "uploading"
  BY <1>0, <1>1, <1>2 DEF WorkOwned
<1> HIDE DEF s
<1> QED BY <1>1, <1>3, <1>4, WorkThen DEF s

(* So a commit has what its session owes, after any step.                    *)
LEMMA WorkStays ==
    ASSUME Inv, Inv', ApartInv, KeptInv, PostedFirst, NEW F, TellsRows(F), RowsKnown(F),
           [Next]_vars, NEW c \in Commits
    PROVE  WorkOwned(c)' /\ KeepsAll(c)'
<1>0. /\ job \in [Commits -> Job] /\ job[c] \in Job /\ pc \in [Requests -> Labels]
      /\ c \in Requests /\ WorkOwned(c) /\ KeepsAll(c) /\ ContentsKnown
  BY WorkKnown DEF Inv, TypeOK, RequestsOK, KeptInv, ApartInv
<1>1. CASE Resolve(c)
  BY <1>1, ListKept, PreviousKept, FindKept, NextKept, FetchKept, MergeKept, UploadKept,
     ResolvedKept DEF Resolve
<1>2. CASE Index(c)
  BY <1>2, IndexKept
<1>3. ASSUME NEW s, NEW prev, Commit(c, s, prev)
      PROVE  WorkOwned(c)' /\ KeepsAll(c)'
  <2>1. pc'[c] = "listing" /\ job'[c] = [NoJob EXCEPT !.session = s, !.prev = prev]
    BY <1>0, <1>3 DEF Commit, Goto
  <2>2. /\ job'[c].items = {} /\ job'[c].groups = {} /\ job'[c].fetch = {}
        /\ job'[c].buffer = {} /\ job'[c].merged = EmptyFrame
    BY <2>1 DEF NoJob
  <2> QED BY <2>1, <2>2, NothingOwned DEF KeptAt, Underway
<1>4. CASE /\ job'[c] = job[c] /\ out'[c] = out[c]
           /\ pc'[c] = pc[c] \/ pc'[c] = "failed" \/ BulkAck(c)
  <2>0. /\ pc'[c] = pc[c] \/ pc'[c] = "failed" \/ (pc[c] = "saving" /\ pc'[c] = "acked")
    BY <1>0, <1>4 DEF BulkAck, Goto
  <2>1. CASE pc[c] = "idle"
    <3>1. job'[c] = NoJob /\ pc'[c] \in {"idle", "failed"}
      BY <1>0, <1>4, <2>0, <2>1 DEF WorkOwned
    <3>2. /\ job'[c].items = {} /\ job'[c].groups = {} /\ job'[c].fetch = {}
          /\ job'[c].buffer = {} /\ job'[c].merged = EmptyFrame
      BY <3>1 DEF NoJob
    <3> QED BY <3>1, <3>2, NothingOwned DEF KeptAt, Underway
  <2>2. CASE pc[c] # "idle"
    <3>0. job[c].session \in Sessions
      BY <2>2 DEF Inv, JobsStored
    <3> PICK s \in Sessions : job[c].session = s
      BY <3>0
    <3>1. pc'[c] # "idle" /\ ItemsAt(c)' = ItemsAt(c)
      BY <1>4, <2>0, <2>2 DEF ItemsAt
    <3>2. Promised(s)' \subseteq Promised(s) /\ PostsOf(s) \subseteq PostsOf(s)'
      BY <3>1, PromisedStays
    <3>3. \A k \in DOMAIN data : k \in DOMAIN data' /\ DOMAIN data'[k].val = DOMAIN data[k].val
      BY <1>0, CellsStay
    <3>4. WorkOwned(c)'
      <4>1. \A f \in job'[c].buffer : ~f.old => Owned(f.frame, s)'
        BY <1>0, <1>4, <3>2 DEF WorkOwned, Owned
      <4>2. \A x \in Promised(s)' :
              HasValue(job'[c].merged, x) => job'[c].merged.val[x] \in PostsOf(s)'
        BY <1>0, <1>4, <3>2 DEF WorkOwned
      <4>3. \A i \in ItemsAt(c)' : ~i.old => i.chunk.dir = s
        BY <1>0, <3>1 DEF WorkOwned
      <4>4. pc'[c] = "uploading" => \A k \in DOMAIN out'[c] : k.dir = s
        BY <1>0, <1>4, <2>0 DEF WorkOwned
      <4> QED BY <1>4, <3>1, <4>1, <4>2, <4>3, <4>4 DEF WorkOwned, HasValue
    <3>5. ASSUME pc'[c] \in KeptAt, NEW x \in Promised(s)'
          PROVE  Kept(c, x)'
      <4>1. pc[c] \in KeptAt
        BY <2>0, <3>5 DEF KeptAt, Underway
      <4>2. Kept(c, x)
        BY <1>0, <3>2, <3>5, <4>1 DEF KeepsAll
      <4>3. HasValue(job[c].merged, x) => Kept(c, x)'
        BY <1>4 DEF Kept, HasValue
      <4>4. pc[c] = "uploading" => pc'[c] = "uploading"
        BY <2>0, <3>5 DEF KeptAt, Underway
      <4> QED BY <1>4, <3>1, <3>3, <4>2, <4>3, <4>4 DEF Kept
    <3> QED BY <1>4, <3>4, <3>5 DEF KeepsAll
  <2> QED BY <2>1, <2>2
<1> QED BY <1>1, <1>2, <1>3, <1>4, AnyStep

(* The invariant of what a session keeps: nothing that it owes is lost.      *)
THEOREM KeptInvariance ==
    ASSUME PostedFirst, NEW F, TellsRows(F) PROVE Spec => []KeptInv
<1>1. Init => KeptInv
  <2> SUFFICES ASSUME Init PROVE KeptInv
    OBVIOUS
  <2>0. \A r \in Requests : pc[r] = "idle" /\ DOMAIN out[r] = {}
    BY DEF Init
  <2>1. PostsSettled
    <3>1. \A s \in Sessions : PostsOf(s) = {}
      BY <2>0 DEF PostsOf, Requests
    <3> QED BY <2>0, <3>1 DEF PostsSettled, Requests, Bulks
  <2>2. \A s \in Sessions : FolderOwned(s)
    BY <2>0 DEF Init, FolderOwned
  <2>3. ASSUME NEW c \in Commits
        PROVE  InStages(c) /\ AllMerged(c) /\ WorkOwned(c) /\ KeepsAll(c)
    <3>1. pc[c] = "idle" /\ job[c] = NoJob
      BY <2>0 DEF Init, Requests, Bulks
    <3>2. /\ job[c].items = {} /\ job[c].groups = {} /\ job[c].fetch = {}
          /\ job[c].buffer = {} /\ job[c].merged = EmptyFrame
      BY <3>1 DEF NoJob
    <3>3. ItemsAt(c) = {} /\ \A x : ~HasValue(EmptyFrame, x)
      BY <3>2 DEF ItemsAt, HasValue, EmptyFrame
    <3> QED BY <3>1, <3>2, <3>3 DEF InStages, AllMerged, WorkOwned, KeepsAll, KeptAt, Underway
  <2> QED BY <2>1, <2>2, <2>3 DEF KeptInv
<1>2. Inv /\ Inv' /\ ApartInv /\ IndexInv(F) /\ KeptInv /\ [Next]_vars => KeptInv'
  <2> SUFFICES ASSUME Inv, Inv', ApartInv, IndexInv(F), KeptInv, [Next]_vars
               PROVE  KeptInv'
    OBVIOUS
  <2>1. PostsSettled' /\ \A s \in Sessions : FolderOwned(s)'
    BY SettledStays, FolderStays
  <2>2. ASSUME NEW c \in Commits
        PROVE  InStages(c)' /\ AllMerged(c)' /\ WorkOwned(c)' /\ KeepsAll(c)'
    BY StagesStay, MergedStays, WorkStays DEF KeptInv, IndexInv
  <2> QED BY <2>1, <2>2 DEF KeptInv
<1> QED BY <1>1, <1>2, Invariance, ApartInvariance, IndexInvariance, PTL DEF Spec

(* No post that was acknowledged before the commit was sent is lost,         *)
(* whatever fails and whatever is tried again, if clients post to a session, *)
(* then commit it, and no two indexes they use have the same hash.           *)
THEOREM PostsKept ==
    ASSUME PostedFirst, NEW F, TellsRows(F) PROVE Spec => []AckedPostCommitted
<1>1. Inv /\ IndexInv(F) /\ KeptInv => AckedPostCommitted
  <2> SUFFICES ASSUME Inv, IndexInv(F), KeptInv, NEW c \in AckedCommits,
                      NEW p \in PostsOf(job[c].session), pc[p] = "acked", NEW x \in CellsOf(p)
               PROVE  \E w \in PostsOf(job[c].session) : w \in Values(c, x)
    BY DEF AckedPostCommitted
  <2> DEFINE s == job[c].session
  <2>0. /\ c \in Commits /\ c \in Bulks /\ pc[c] = "acked" /\ s \in Sessions
        /\ c \in DOMAIN catalogs /\ p \in Posts
    BY DEF AckedCommits, AckedBulks, Inv, SavesTracked, JobsStored, PostsOf
  <2>1. x \in Promised(s)
    <3>1. c \in CommitsOf(s)
      BY <2>0 DEF CommitsOf
    <3>2. p \in PostsOf(s) \cap AckedPosts
      BY <2>0 DEF AckedPosts
    <3> QED BY <3>1, <3>2 DEF Promised
  <2>2. Kept(c, x) /\ AllMerged(c) /\ FolderOwned(s)
    BY <2>0, <2>1 DEF KeptInv, KeepsAll, KeptAt, Underway
  <2>3. PICK k \in job[c].chunks : k.dir = s /\ k \in DOMAIN data /\ x \in DOMAIN data[k].val
    <3>1. ~HasValue(job[c].merged, x)
      BY <2>0, <2>2 DEF AllMerged, HasValue, EmptyFrame
    <3> QED BY <2>0, <2>2, <3>1 DEF Kept, AllMerged
  <2>4. data[k].val[x] \in PostsOf(s)
    BY <2>1, <2>2, <2>3 DEF FolderOwned, Owned
  <2>5. data[k].val[x] # NaN
    BY <2>4, RequestAssumption, GeometryAssumption DEF PostsOf
  <2>6. catalogs[c].chunks = job[c].chunks
    <3>1. SavedAsIs(c)
      BY <2>0 DEF IndexInv
    <3> QED BY <2>0, <3>1 DEF SavedAsIs, CatalogOf
  <2>7. data[k].val[x] \in Values(c, x)
    BY <2>3, <2>5, <2>6 DEF Values, HasValue
  <2> QED BY <2>4, <2>7
<1> QED BY <1>1, Invariance, IndexInvariance, KeptInvariance, PTL
=============================================================================

# A verification development of the wellbore domain services worker

The worker stores and serves *bulks*: dataframes attached to an OSDU record. A
client sends a bulk whole, or in chunks posted into a session that is then
committed; it reads bulks by columns, pages and filters, and asks for statistics
of them. Every request runs as a coroutine of one of several worker processes.
The processes share nothing but a blob storage, which has no transactions and no
locks, and they take no locks of their own. What is hard in this code is what
follows from that: requests interleave at every `await`, `asyncio.gather` raises
on the first failure and leaves the other tasks running, a request may die
between two uploads, clients retry, and what one request leaves in the storage
another one takes for granted.

All paths below are relative to `src/src/wdmsworker/`.

## 1. Inventory

| Part | Code | State it keeps | Operations | What makes it correct |
|---|---|---|---|---|
| Bulk writer | `bulk/writer.py`, `write_router.py` | none of its own: objects in storage | post a chunk in a session, post a whole bulk, commit a session (overwrite or update) | an acknowledged bulk is stored, complete, indexed, and never changes; no acknowledged post is lost |
| Chunk storage | `bulk/chunk_storage.py` | `.parquet`, `.meta` and index objects; the tasks of a generator | `upload_chunk`: three concurrent uploads; `chunk_download_generator`: concurrent downloads, handed over as they end or in order | metadata implies data; the last post of a file wins; no download is forgotten, merged out of order, or left running by one that failed |
| Chunk metadata | `bulk/chunk_meta.py` | none; `.meta` objects of two versions | names, hashes, overlap and sharing of chunks, edges of the index and of the reference curve | equal names and hashes mean interchangeable objects; edges stand for the chunk |
| Conflict detection | `bulk/conflict.py: find_conflicts` | local dictionaries | two passes over sorted chunks, then grouping to a fixed point | the groups are the connected components of the conflict relation; it terminates |
| Conflict resolution | `bulk/conflict.py`, `dataframe.py` | concurrent streams of downloads; uploaded merged chunks | download, merge by age, split at limits, upload | posted values override the previous bulk and nothing else is lost; the group always ends |
| Catalog | `bulk/catalog.py` | `bulk_catalog.json`, `_wdms_index_`, a cache of curve counts | build, save with the index, load, describe, count curves, slice columns | free of conflicts; its row count is that of its index; its curves are those a read answers |
| Bulk reader | `bulk/reader.py`, `read_router.py` | none | describe, forward a file, assemble from groups, bulks without catalog, propose partitions when refused | every path returns the same cells, filtered and paged in the same way; what it proposes can be read |
| Filters | `bulk/filtering.py`, `model/filtering_model.py` | none | filters on values, then on the index | pages tile the filtered rows |
| Bulk statistics | `statistics/*` | `statistics.json`, `statistics_*.parquet` | trigger, compute in batches, read | complete means complete; triggers are bounded in number and in time, readers get all columns, unless computations undo each other |
| Validators | `bulk/validators.py` | none | index, reference curve, limits, labels | what is committed satisfies what was asked of each post |
| Describe model, names | `model/describe.py`, `mime_types.py`, `error_model.py`, `storage_path_builder.py` | none | description of a column, extensions of names, partitions | the description is true of the bulk |
| Middlewares, logger, timings | `http_middlewares.py`, `logger.py`, `capture_timings.py` | the context of a request, its logger and its trace | enter and leave each middleware, log | a line or a trace tells the request it belongs to, and what it was answered |
| Errors and routes | `bulk/errors.py`, `statistics/exceptions.py`, the routers, `app.py` | none | one status for each error, per route | a refusal is answered as one |
| Providers, start-up, rendering | `provider/*`, `app.py`, `model/json_orient.py` | none | adapters to cloud storages, wiring | not modelled (section 8) |

How they interact: posts write chunks into the folder of a session; a commit
lists the metadata there (and takes the chunks of the previous bulk from its
catalog), finds and resolves conflicts by uploading merged chunks *into the
session folder*, builds an index from one chunk per index hash, and saves catalog
and index under the id of the new bulk. The catalog refers to the chunks in the
session folder, they are not copied. A read starts from the catalog. A statistics
trigger reads catalog and chunks, and shares `statistics.json` with other triggers
and readers. Every request comes in through three middlewares, whose contexts its
handler and the tasks it leaves behind log with.

The hazards this gives rise to are in `PROJECT.json`, each at its line with the
properties that cover it.

## 2. Modules

| Module | Models | Composed of |
|---|---|---|
| `Chunks` | dataframes, chunk metadata and its hashes, conflicts and their groups, merging, splitting, one index per hash: the pure part | |
| `FindConflicts` | `find_conflicts` as written: two passes, dictionary, grouping loop, in every order of iteration | extends `Chunks`, whose `ConflictGroups` is its reference |
| `VersionedBulks` | abstract: a store of versions. A post, a whole post and a commit are one step each | |
| `BulkWriter` | posts, commits and whole posts as concurrent coroutines over the storage | extends `Chunks`, implements `VersionedBulks` |
| `GroupMerge` | abstract: what a group of conflicts needs of its downloads | |
| `Downloads` | `chunk_download_generator`, task by task, and the streams of `resolve_single_conflict_group` that consume it | implements `GroupMerge` |
| `Reference` | the reference curve of a commit, from edges kept in metadata; metadata rebuilt for old chunks | |
| `Reader` | all the paths of `get_bulk_route` | extends `Chunks` |
| `Curves` | labels of arrays: counts of a commit, partitions of a refused read, slices, and the client that follows them | |
| `Statistics` | triggers and readers over `statistics.json` | |
| `Routes` | a request through the middlewares and its handler: contexts, loggers, traces, errors and statuses | |
| `MCBulkWriter`, `MCFindConflicts`, `MCDownloads`, `MCReference`, `MCReader`, `MCCurves`, `MCStatistics`, `MCRoutes` | instances for TLC | |
| `ChunksProofs` | lemmas on dataframes, groups, splits and conflicts | extends `Chunks` |
| `BulkWriterProofs` | theorems on `BulkWriter`: what is stored, what is kept apart, what a bulk holds | extends `ChunksProofs` |
| `FindConflictsProofs`, `ReaderProofs` | theorems on the module of that name | extend `ChunksProofs` |
| `DownloadsProofs`, `CurvesProofs`, `StatisticsProofs`, `RoutesProofs` | theorems on the module of that name | |

`BulkWriter` uses the groups of conflicts by their definition (connected
components, `ConflictGroups`); `FindConflicts` shows that the loop of the code
computes exactly these, in one round. `Reader` starts from bulks that satisfy
`WellFormed`, which is what `CatalogFreeOfConflicts` and `IndexCoversBulk` of
`BulkWriter` establish of a committed one. `BulkWriter` fetches the chunks of a group
as a set, merges those of the session in the order they come and those of the previous
bulk as they follow each other: that this is what the generator and its streams do is
`MergesInOrder` of `Downloads`. `Curves` takes row counts and groups for right, which is
`Reader`'s matter, `Reference` takes interleavings for `BulkWriter`'s. That is how the
modules rest on each other.

### Abstractions

* A value is only who wrote it: a cell holds the post that filled it, or `NaN`. The
  writer never looks at values, so this loses nothing. In `Reader`, where filters
  compare values, they are numbers.
* An index is a set of integers, taken as increasing, but in `Reference`, where it is a
  sequence in any order: the validators ask for values that are unique, not for an order.
  Column labels are integers, whose order is the natural order of labels; in `Curves` they
  are a name, an index and the ways to write it.
* A chunk is its folder and the metadata its file name is a hash of. Hashes of
  distinct contents are distinct. `IndexHash` is exactly what the code hashes: first,
  last and length.
* One action is what a coroutine does between two awaits, or the effect of one storage
  call. An object is put and read atomically.
* `Statistics` counts time in hours, the unit of the code's expiry.
* In `Reference` a request is atomic, but for the upload of rebuilt metadata, which lands
  later or never; in `Curves` there is one client at a time.

### `BulkWriter`: state and actions

Storage: `metas`, `data`, `indexes`, `catalogs`, `bulkIndex`, one for each kind of
object. Requests: `pc`; `tasks`, the uploads of chunk objects that are under way and
that outlive a failed request, as tasks of `gather` do; `out`, what it uploads; `save`,
the uploads of catalog and index; `job`, the local variables of a commit. Ghosts:
`before`, for real-time order, and `failures`.

| Code | Actions |
|---|---|
| `write_bulk_data_in_session` | `PostChunk`, then `PutMeta`, `PutData`, `ListIndex`, `PutIndex` in any order, `PostAck` |
| `write_bulk` | `PostWhole`, the same uploads, `PutCatalog`, `BulkAck` |
| `complete_session` | `Commit`, `ListMetas`, `LoadPrevious`, `FindConflicts`, per group `NextGroup`, `FetchChunk`, `MergeChunk`, `UploadResolved`, `GroupResolved`, then `BuildIndex`, `LoadIndex`, `RebuildIndex`, `SaveCatalog`, `PutCatalog`, `PutBulkIndex`, `BulkAck` |
| a storage call fails, a worker dies | `FailTask`, `FailRead`, `FailSave`, `Crash` |

`Store` is the instance of `VersionedBulks` the worker implements: its `posted` are the posts
that were acknowledged, `bulks` what each acknowledged bulk has in each cell, read from its
catalog and chunks as they are stored now, `closed` the sessions of acknowledged commits.
Nothing of the work under way is in it: an action of the store is an answer of the worker.

The worker enforces no protocol on sessions. The constant `Protocol` names the rules a
client follows, so that a run can say which ones a property needs: `settled`, `closed`,
`serial`, `once`.

### `Statistics`: state and actions

`file` is `statistics.json`, `stored` the batches that are in a file beside it. `Trigger`,
`FetchMeta`, `PushStarted`, `PushRunning`, `SaveBatch`/`FailBatch`, `Finish` are the steps of
`compute_bulk_statistics`; `ReadMeta`, `ListFiles`, `LoadFile` for each file, `Answer` those of
`get_bulk_statistics`; `Fail` is a failed storage call or a crash; `Tick` an hour. A trigger
may race (`free`), or not between its read and its write of the file (`atomic`), or not at
all (`serial`).

A process groups the columns in the order it iterates over a set of strings in, which
differs between processes: `PushRunning` picks one of `groupings`, those of this behaviour. A
batch is a sequence of columns, because the name of its file is made of two of them only,
the first and the last it has statistics of (`FileName`; `bulk_statistics.py:184`), through
hashes that are taken to be injective. `SaveBatch` therefore replaces the batch whose file
has this name, with other columns in between or not, and `LoadFile` reads what is in the file
by then. What a reader asks for is only filtered out of that: its selection is left open.

Saving a batch over another may lose columns, and two computations at once can end with a
column lost and the status `Complete` (section 3). What is said of complete statistics has
the condition `FilesKept`: triggers do not race (`serial`), or two batches with one name
have statistics of the same columns (`NamesTell`), as when each batch is one column, when one
batch has all of them, or when all processes group them alike.

### `Reader`: state and actions

One stored bulk, two requests. `Send`, `CatalogLoaded` into `RejectFilters`, `Describe`,
`ReadBulk` or `ReadBulkOutsideSession`, `Fetch` of each object, `Finish`, `Fail`. A bulk
that was acknowledged does not change (`BulkImmutable`), so the requests are compared
rather than raced: the second asks for the next page of the first, its description, or
its other format. `Accepted` and `Result` are what the checks let through and what is made
of the objects that were loaded; `AnswerKnown`, that an answer is a refusal, or one of the
two ways to describe and to read, is the invariant the theorems rest on.

A selection is a list of entries, each with the labels it stands for. One of slices that
end before they start, `C[5:2]`, stands for none: the list of columns is then empty, which
the limits count as nothing, a file that is loaded takes for no column, and
`filter_group_for_columns`, `reorder_dataframe_columns` and the choice of a file to forward
take for no selection. `SelectsNothing` names these queries; what is said of the columns of
an answer leaves them out, what is said of its rows does not.

### `Downloads`: state and actions

One group of conflicts. Each stream is a run of `merge_dataframes_from_storage`: `paths`
its list, `task` the downloads, `pending` and `byName` the variables of the generator,
`turn` the name that is awaited in an ordered stream, `merged` what it handed over. `Start`
creates the tasks, `EndTask` is an answer of the storage, `Wake` the return of
`asyncio.wait`, `Hand` one `yield` and its merge, `Raise` the exception of a task with
`CancelPending` from the handler, `Leave` the way back to the wait or out, `FailMerge` a
merge that raises at the `yield`. `CurrentMerged`, `CurrentFailed` and `PreviousEnded`
are `resolve_single_conflict_group`.

### `Reference`: state and actions

`data`, `metas`, `catalogs`: the storage; `describes`: what each bulk was answered with;
`late`: the uploads of `_load_or_create_chunk_metadata` that nobody awaits. `PostChunk`,
`PostWhole`, `Commit` are whole requests, `LandLate` one such upload. A commit follows
`complete_session` in order: items of the session and of the previous bulk, groups
resolved one at a time and validated with the reference, index, coverage, edges in the
order of the index, validation of the edges, catalog. Names are a base and extensions,
because the code appends to a name in one place what it replaces in another. That a
session that was committed is not used again is the client's rule.

### `Curves`: state and actions

`bulk` and its `catalog`; `plan`, the selections a client still has to read; `page`; `got`,
how often each cell was read. `Commit` counts the curves in any order, `AskWhole` and
`AskCurves` are the two ways to get a plan, `Ask` and `AskPage` a read at once or by pages.

### `Routes`: state and actions

`seen` is the value of the context variable in the task of each level, `logger` what the
context of a request holds, `span` its trace, `left` the context of a task that outlives
it. `EnterContext`, `EnterTracing`, `EnterLogging` run a middleware up to `call_next`,
`LeaveLogging`, `LeaveTracing`, `LeaveContext` the rest; `HandlerLogs`, `LeaveTask`,
`TaskLogs`, `Return` are the handler, which returns a response or one of the errors that
the code under its route raises, as its clauses map it.

### `FindConflicts`: state and actions

`Passes` is the two passes and the checks of types; `Outer`, `Inner`, `Sweep`,
`CloseGroup` are the loops of lines 288-300 of `conflict.py`, with the dictionary,
the copy that is iterated over and the flag `keep_grouping`; `Finish` returns.

## 3. Runs

Runs that pass:

| Run | Question | Bounds, and why they are enough |
|---|---|---|
| `MCRaces` | does anything go wrong when posts and commits of a session interleave freely, with no protocol at all? | two posts, two commits, two shapes that collide in name (same shape twice) or overlap and are misaligned (both): the conflict of a group, of a name and of two commits on the same merged chunk all occur. No failure |
| `MCFailures` | does one failure or crash anywhere lose something acknowledged, or leave a request unanswered? | two posts of six shapes, one commit, one failure at any step; a limit of four values, so groups that are refused, split by columns or by rows, and merged occur, and chunks on both sides of a split one |
| `MCUpdate` | does an update keep and override what it should, leave the previous bulk as it was, and look like one step to clients? | two sessions and a whole bulk, the second session commits onto any bulk before it |
| `MCFindConflicts` | do the passes and the loop compute the components? | all lists of up to three chunks over four column sets and three ranges, up to four over two column sets, chains of four, and mixed dtypes; every order of iteration. Four is the first size where a chain has two inner links |
| `MCStatistics` | are statuses, counts and hours right under races, failures and crashes? | three triggers and a reader, three failures (one more than attempts), one hour, four columns of which one has no statistics. Two groupings at a time: two that give batches of other columns one name, two whose files overlap under other names, or all columns at once in two orders. Three columns are the fewest that leave one between the ends; three computations are a failed one, one that saves over its files and fails or not, and a third |
| `MCReader` | do all paths of a read agree? | nine kinds of bulk with and without missing values, all combinations of seven selections (one matches no column), six sets of filters, three offsets, three limits, two formats, and one follow-up |
| `MCDownloads` | is everything merged, in order, and does the group end, whatever fails and whatever order downloads end in? | a stream of the session of two paths, equal or not, an ordered stream of two and one of one: a download before its turn, two of one name, a failure beside one that runs, and two streams that fail at once all occur |
| `MCReference` | is the description of a reference curve true of the bulk? | two columns, seven frames (apart, overlapping, decreasing, of one row, with a hole), an old bulk with no metadata or that of the first version, and with or without a catalog, two posts, two commits, one onto the other. Two chunks are what coverage, order and edges compare |
| `MCCurves` | does a client that follows what it is told read the bulk? | up to four labels out of plain ones, parts of an array and labels that only look like them, in one or two chunk shapes, three rows, limits of three columns, four and eight values: slices with holes, arrays over two groups, pages that do not divide the rows |
| `MCRoutes` | do logs, traces and statuses tell the request they belong to? | two requests for any two of seven routes, at any two stages, with a task each: contexts are confused by two or not at all |

Deadlock is not checked in these: requests are finitely many and the system stops when
all are answered. `EveryRequestAnswered`, `GroupEnds` and `Terminates` say what must not
stop before.

Runs that find a disagreement between the code and what it says of itself (`findings`):

| Run | What it shows |
|---|---|
| `MCRetryUpdate` | a failed update leaves its merged chunk in the session folder. The retry, onto a newer bulk, takes it for posted data and brings back old values |
| `MCStatisticsStuck` | a worker that dies during a computation blocks statistics for ever: `Running` never expires, and for `Started` an aware and a naive date are compared |

Other disagreements, met while modelling. Seven of them are shown by the modules as they
are, the first four with other constants than those of the runs:

* `LastComeWins` of `BulkWriter` fails with `MaxFailures = 1` and `PostShapes <- Mixed`:
  `gather` in `upload_chunk` (`chunk_storage.py:176`) answers on the first failure while the
  other uploads go on, and the data of a failed post lands after the retry was acknowledged,
  against "last come wins" (`chunk_meta.py:197`). Nothing fails in `MCRaces`.
* `IndexCoversBulk` fails with `PostShapes <- Colliding`: indexes with the same first value,
  last value and length are one index (`writer.py:192`), and rows are missing from that of
  the bulk. In `MCRaces` no two indexes differ and have one hash.
* `CatalogFreeOfConflicts` fails with three posts, `PostShapes <- Growing` and
  `MaxValues = 4`: a merged group over the write limits is split by columns
  (`conflict.py:134`) without being compared to the chunks that were in no conflict, and the
  catalog has a column in two groups. In `MCRaces` the limit is not reached.
* `HourApart` of `Statistics` fails with four triggers, `MaxAttempts = 3`,
  `Clients = {"atomic"}` and two failures: an older computation that ends writes the date it
  began at over the file of a newer one (`bulk_statistics.py:325`), and a third begins within
  the hour, though no two triggers interleave their read and write of the file; against
  "Duration before allowing to re-computation statistics" (`bulk_statistics.py:72`). With two
  attempts, as in `MCStatistics`, the third is refused for their number.
* `EmptySelectionRefused` of `Reader` fails with the constants of `MCReader`: a slice that ends
  before it starts, `C[5:2]`, stands for no column (`dataframe.py:209`), so that the selection
  matches none and is answered all the same, with a whole file outside of the limits or with
  whatever was loaded; against "if the curves selection doesn't match a column"
  (`reader.py:282`).
* Without its condition `FilesKept`, `CompleteIsStored` of `Statistics` fails on the instance of
  `MCStatistics`: of two triggers that race in two processes, P groups the columns as `{a, b, c}`,
  `{t}` and Q as `{a, t, c}`, `{b}`. P saves its files, Q saves `{a, t, c}` over `{a, b, c}`
  (`bulk_statistics.py:184`), and P writes `Complete` before Q has saved `{b}`, which may fail
  or never happen: the statistics of `b` are missing, `ReadersGetAll` fails likewise, and a
  status that is `Complete` refuses to compute them again. `{d}` in the place of `{t}`, with
  statistics of its own, comes to the same.
* Two triggers in two processes, which race or the second of which follows a failure of the
  first, leave files of statistics that repeat columns where their names differ, and `Answer`
  of `Statistics` then ends in `valueError`: statistics that are complete end in an error at
  every read (`bulk_statistics.py:313`), against "Returns statistics of record's data for
  selected curves" (`statistics_routes.py:131`).

Each property of a passing run has a mutant in `PROJECT.json`: a plausible bug of the
code, defined in the module beside the definition it alters, under which the run finds the
property violated.

Seen while modelling, without a property of its own:

* Reads. Describing from the catalog leaves unknown curves out where a read answers 404; a
  single file is read without the index of the bulk, so that its blank rows are in the
  description and in a read with `offset=0` but not in a read without parameters
  (`ReadsTheBulk` and `DescribesWhatIsRead` state what holds instead); a forwarded parquet
  file ignores the order columns were asked for in; a filter on an unknown column of a bulk
  without catalog is a `KeyError`; the columns a filter loads are not counted by the read
  limits.
* Writes. The data of a chunk that is in no conflict is never looked at by a commit, so a
  bulk may refer to a chunk whose upload failed after its metadata was stored
  (`AckedBulkStored` says so). An empty dataframe posted in a session is answered without
  being stored (`writer.py:76`).
* Downloads. A stream stops its downloads when one of them fails, but not when its merge
  fails or when it is cancelled, as the handler of the generator catches neither
  `GeneratorExit` nor `CancelledError`: they run on, and `RaisedStopsAll` is about `raised`
  only.
* Old chunks. Rebuilt metadata is uploaded as `x.parquet.meta` (`add_extension`) and looked
  for as `x.meta` (`replace_extension`): it is never found, and is built again at every
  commit, against "upload it for future usage" (`writer.py:117`) and "origin will be META_V2
  the next reload" (`writer.py:148`). `Uploads` and `MetaPath` of `Reference` have the two names:
  the same object is in `late` anew at each commit onto an old bulk. The first version of
  metadata stays beside it. Metadata
  rebuilt with the reference curve of a commit is not validated, against the note at
  `writer.py:280`, nor is an index asked to be monotonic, and `ordered_range`
  (`chunk_meta.py:66`) takes first and last for least and greatest. `EdgesTell`, the
  precondition of `ReferenceIsColumn`, excludes just these two. A text curve as reference
  is a `ValueError` of `_edges_scalar`.
* Labels. `{C[1], C[01], C[3]}` has three parts over a span of three and is proposed as
  `C[1:3]`, which is answered 404; a label that reads as a slice is itself; spaces at the
  ends of a name are stripped from a query (`Clean` excludes these three). A curve with the
  name of an array makes the count of `describe` depend on the order of a set, and the parts
  of the array cannot be asked for by name (`Clash`).
* Statuses. A commit that is not supported, a read in an unknown format and a trigger on a
  bulk without catalog are answered 500 (`Overlooked` of `Routes`; 404 is documented for the
  last), and so is a commit onto a bulk that does not exist.

## 4. Fairness

`BulkWriter` is checked for liveness under weak fairness of the steps of the worker:
the event loop runs every coroutine that can go on and every storage call returns, be
it with an error. Nothing is assumed of clients, and no failure is forced to happen. A
request that dies with its worker counts as answered (its connection is closed). The loop of `find_conflicts` is
sequential code; weak fairness of its next step says that the processor runs it. `Downloads` takes the same two: a stream that can go on does, and the storage answers every
download, at worst with a time-out; weak fairness of `StreamStep`, `Answer` and `GroupStep`
is enough, as none of them is ever disabled by another stream but by a cancellation that
ends the group. The other modules state no liveness: their requests are straight lines.

## 5. Proofs

TLC checks the instances above; the theorems hold for every value of the constants under the
assumptions named in the modules (finite sets of columns and rows, disjoint kinds of
requests, limits of at least one, groupings that cut the columns into disjoint batches, lists
of chunks whose first index value is not above the last, `None`, `Absent` and `NoFile` outside
of what they stand beside; for `Reader` the bulks a commit leaves, `WellFormed`, and the
parameters a query string can give, `Query`; for `Curves` labels whose indexes are written in
digits). A theorem that
needs more has it as a hypothesis, and section 5.4 says why.

### 5.1 What is stored: `BulkWriterProofs`

`Invariance`: `Inv` is inductive, for any number of posts, commits, sessions, shapes, and
failures, and whatever protocol clients follow. `AckedBulkStored` alone is not: an
acknowledgement is right because of what was tracked before it. `Inv` adds that everything a
request that did not fail uploads is stored or still a task of it (`UploadsTracked`), that a
request in a quiet step has no task (`TasksKnown`), that metadata without data is of a request
that was not acknowledged (`MetasExplained`), that a commit works on chunks whose metadata is
stored (`JobsStored`), and the same for catalogs and indexes (`SavesTracked`,
`CatalogsTracked`). One lemma per action, first for types, then for the tracking.
`TypeCorrect` and `BulkStored` follow.

### 5.2 What is kept apart: `BulkWriterProofs`, on `ChunksProofs`

`ChunksDisjoint`: no two chunks of an acknowledged bulk hold one cell. `FreeOfConflicts`:
nor are they misaligned, when no merge is over the write limits (`NeverSplit`); this
hypothesis is necessary, as section 3 shows, while the first theorem has none.

That any two chunks of a bulk are apart is not inductive. A merge replaces a group by a chunk
whose range is the hull of theirs, and a chunk that lay between two of the group would be in
conflict with it, though with neither of them. What `find_conflicts` leaves is stronger: a
group and what is outside of it are `Apart`, one all to one side of the other, or without a
common column. `ApartInv` says so of the chunks that were kept, the groups to come and the
group at hand (`WorkApart`), whose metadata is followed from download to buffer, to the frame
that is merged, to the uploads (`CurrentMetas`, `InTurn`). It rests on lemmas of
`ChunksProofs`: bounds and unions of ranges, groups as components, what is merged and split
stays in the hull and covers the cells. These argue by the least counterexample
(`WFMin`), as the induction theorems of the library cannot be used here.

### 5.3 The groups: `FindConflictsProofs`

`GroupsProved`, for every list of chunks and every order of iteration, of the dictionary and
of the sets: the loop returns the components of the conflicts, which are what `BulkWriter`
takes for them. `GroupingInv`: the copy of the keys that is walked over has every key that is
left (`KeysToVisit`, although keys are removed under the walk); a chunk that left the
dictionary is in a complete group, or in the one being made, which has all it conflicts with
(`Accounted`); the group at hand stays within one component, and is closed once a sweep finds
nothing new (`Growing`). `OneRoundProved`: once groups are merged no conflict is left, which
is why a commit looks for conflicts once. `RefusalProved`: a list is refused exactly when a
column has values of several kinds.

### 5.4 What a bulk holds: `BulkWriterProofs`

| Theorem | Property | Hypotheses, and why |
|---|---|---|
| `LastWins` | `LastComeWins` | `MaxFailures = 0`. A failed post may leave uploads behind, that land after a later post was acknowledged (section 3). No rule on clients |
| `BulkReadable`, `Immutable` | `AckedBulkReadable`, `BulkImmutable` | `Orderly`: nothing fails, and a session is posted to, then committed, once (`settled`, `closed`, `once`). A post into a committed session replaces a chunk the catalog refers to; the worker does not prevent it. Which commits update which bulks, and how many at once, is free |
| `PostsCommitted`, `UpdateProved` | `AckedPostCommitted`, `UpdateKeepsPrevious` | `Orderly`, and `DistinctNames`: two shapes of a session with one file name are one. The hash in a name has first, last and number of rows only, so two frames that differ in the rows between are one file, and the last wins. Without `once`, a retried update is wrong (`MCRetryUpdate`) |
| `VersionsProved`, `StoreImplemented` | `BulksAreVersions`, `Store!Spec` | `Orderly` and `DistinctNames`, as above: each of them is needed for what the store promises of a commit |
| `IndexCovered` | `IndexCoversBulk` | `TellsRows(F)` for some family `F` of row sets: what is posted is in it, it is closed under the unions and the runs that merging and splitting make, and two members with the same first, last and count are equal. Exactly what `build_index` relies on. Any failures, any clients |
| `PostsKept` | `AckedPostCommitted` | `TellsRows(F)`, as a file of the same name otherwise has other cells than the one it replaces; and `PostedFirst` (`settled`, `closed`): clients post, then commit. Any failures, any number of commits of a session, at once or one after the other |

`QuietInv` is for the first: answered requests have nothing left to store but indexes, so
that of two posts of a file the one that came last is what it holds (`LastHeld`).

`SealedInv` is for the second line: a folder some acknowledged bulk refers to is `Sealed`, as
its session had its one commit and all its posts were answered before. A commit only works on
chunks of its own session and of sealed folders (`InReach`), and only stores in the former.

`ValuesInv` is for the third. It follows the frames of a commit from the items it listed, to
groups, downloads, buffer, the merged frame, the uploads and the catalog, those of the
previous bulk (`OldFrames`) and the others (`NewFrames`) apart. A frame that is not of the
previous bulk has right values only (`NewRight`); one that is has values of that bulk
(`OldPrevious`); where it has a value that was posted anew, a frame of the session in the same
group has the cell too, and is merged first (`OldOverridden`); and every cell that was posted,
or was in the previous bulk, is in one of the frames (`NoneLost`). The third is where conflict
detection comes in: two chunks with a common cell are in one group, so overriding
within groups is enough. The order in which streams hand over chunks is that of `Downloads`.

`VersionsProved` is the refinement: the worker, with all its interleavings, implements the
store of `VersionedBulks`, where a commit is one step. Only `PostAck` and `BulkAck` may
change what the store shows (`AnswersAre`), and every other step leaves it as it is, by
`Immutable`. An answered post is a step `Post` (`PostSimulated`), which needs that its
session is not closed: `closed` and `SealedInv`. For a bulk, what it holds at the moment of
its answer must be what the store computes from its own state. That is `VersionsKnown`, which
follows from `ValuesInv`, `ApartInv` and `SentInv`: the value of a cell is of one chunk only,
and is of a post into the session that has this cell, or else that of the previous bulk.
`SentInv` adds to them what was sent to which session, that a commit under way has posts to
commit, and that a whole bulk holds what was sent. The store leaves open which of several posts
into a session wins a cell; the witness is the writer of the value that is found there.

`IndexInv(F)` is for `IndexCovered`: a commit that builds its index has, for each chunk it keeps,
an index of the same hash to load, or rows it has loaded (`IndexUnderway`), and an index file
has rows of the hash in its name (`RowsKnown`), whoever wrote it.

`KeptInv` is for `PostsKept`, where `ValuesInv` is of no use: with failures, the uploads a
failed post or commit left behind may replace a chunk of the session at any time, also one
that a commit has listed, merged or acknowledged, and several commits may merge the session
at once. What holds on is a statement about cells. A session owes (`Promised`) a value of
its own in each cell of an acknowledged post; every dataframe in its folder, and every one
that is still to be stored there, whoever left it, has such a value wherever it covers such
a cell (`FolderOwned`). A name determines the cells its chunk covers, so that what replaces
a chunk covers what it did (`CellsStay`), and a commit, at each of its stages, has the cell
in something of the session at hand (`Kept`). The difficult steps are the two where a chunk
gets to cover a cell that it has no value for yet, a merge and a split: as chunks outside of
the group are apart from it (`ApartInv`), a value the session owes in a cell that the merged
frame covers is in the group (`OnlyInGroup`), is merged before those of the previous bulk,
and so is there by the time the pieces are uploaded (`MergedOwned`). TLC finds
`KeptInv` to hold on the instance of `MCFailures`, and on that of `MCRetryUpdate` without
the rule `once` and with shapes that overlap (2.6 million states).

### 5.5 What a read answers: `ReaderProofs` and `CurvesProofs`

`Invariance` of `ReaderProofs` says where an answer comes from: it is a refusal, or a function
of the bulk and of a query that passed the checks. The rest is about that function, for every
bulk, query and limit:

| Theorem | Property | Argument |
|---|---|---|
| `ReadsWhatIsHeld` | `ReadsTheBulk` | no cell is in two files (`OneFile`), so what concatenation finds for it is what the bulk has (`LoadedIs`), and filters keep the rows they would keep of the bulk (`FilteredIs`). Whichever way columns are put in order, they are those requested, once (`ColumnOrderIs`) |
| `FormatsAgree` | `JsonIsParquet` | a file that is forwarded has the columns requested and no others; the same rows are loaded for both |
| `DescriptionsAgree` | `DescribesWhatIsRead` | the row count of the catalog, cut by offset and limit, is the size of the page; a computed one loads other columns, and the same rows |
| `NextPageFollows` | `PagesTile` | a page is what is between two positions (`PageBetween`) |
| `LimitsHold` | `AnswerWithinLimits` | the count checked before anything is loaded is a bound of what is answered |

Positions in an index are an order isomorphism between a finite set of integers and
`0 .. n - 1` (`Positions`), so that the number of rows between two of them is their
difference (`Between`). Lists of labels are made by a loop; `ListedIs` shows by induction
over its rounds, as a set of naturals closed under successor (`UpTo`), that each label is
listed once.

`CurvesProofs` is about what the worker tells clients to read. `NothingLostNorRepeated`
(`GuidedReadGetsAll`): the invariant `Accounted` says that the selections of a plan do not
overlap, that a cell in none of them has been read once, and that one that is in some has not,
but for the pages before the current one. `ProposalsRead` (`ProposalsAreReadable`): a
selection is refused only for one row that is over the limits, or for all that would be
loaded. Both rest on what a slice expands to being the group of columns it was made of: as an
interval has no subset of its own size but itself, the slice that is proposed when the count
of the parts is the span has exactly these parts. `CountsTell` (`CurvesTellColumns`): by
induction over the loop that counts, in any order of the labels, the count of a curve is that
of the columns a read of it answers, and every column counts for exactly one curve.

### 5.6 The others

* `StatisticsProofs`, for any columns and any ways to group them. `CompleteFileIsRight`,
  `ReadersComplete`: a file that says complete is right, and a reader that is answered was
  given all the columns, under `FilesKept`, which section 3 shows to be needed: either
  triggers race, overwrite the file, fail and die as they like, and names tell; or they do
  not race, and fail and die as they like. Both parts are of `StoredInvariance`. It accounts
  for every batch a trigger is to compute (`BatchesAccounted`: to do, failed, or `Kept` in the
  file of its name), and carries over to a reader what the file told it (`ReadersSound`: what
  it has, and what is by now in the files it has still to load, is all). A saved batch may
  replace another. If names tell, it has the same columns. If triggers do not race, the one
  replaced is of an earlier computation: two batches of one grouping have no column in common
  and so no name (`NamesDiffer`), the only trigger at work is this one and no reader is past
  a status that is complete, which are `SerialInv` and `ReadersAtComplete`. `ErrorsCounted`, `CompleteStays`: when triggers do not race (the properties are
  about these), the count of attempts in the file is ahead of the computations that ended in
  error, which `SerialInv` says of each status of the file and of the trigger at work.
* `DownloadsProofs!Refinement`: `Downloads` implements `GroupMerge` for any streams and any
  lists, those of the session with repeated paths. It rests on `Invariance`, whose `Inv` says
  that a position of the list is pending, filed under its name or merged, and only one of
  them (`OnePlace`), that an ordered stream has merged exactly what is before its turn
  (`InTurn`), and that the stage of the group fits its streams (`StageFits`). `NoPathLost`,
  `StopsWhenRaised` and `AssertionProved` are parts of the same invariant: it is inductive
  only with them together, as what a repeated name replaces in `byName` is accounted for by
  the name and no longer by the position.
* `RoutesProofs`, for any number of requests. `LinesProved`: what is logged tells its
  request. Lines alone are not inductive: `ContextsRight` adds that a task sees its own
  request's context or none, and its own with a logger from the innermost level on.
  `SpansProved`, `FailuresProved`: `TracesInv` says how far each request is with its trace,
  by the level it is at and by what came out of the handler. `EscapesProved`: the errors each
  route catches, case by case over the routes.

### 5.7 Only model-checked

* Liveness (`EveryRequestAnswered`, `GroupEnds`, `Terminates`): out of the prover's reach.
* `Reference` (`TypeOK`, `ReferenceIsColumn`): a commit there is one step
  that folds over the groups, over the chunks of each, and over the chunks in the order of
  their indexes. What such a fold computes for every input is an induction over data, which
  the theorems above replace, for simple loops, by one over sets of naturals.
* That `Reader!WellFormed` holds of what `BulkWriter` stores: the two modules have their own
  notions of a file. Its conjuncts are `CatalogFreeOfConflicts` and `IndexCoversBulk`, which
  are theorems under the hypotheses of sections 5.2 and 5.4.

## 6. Running it

    tlc -config MCRaces.cfg MCBulkWriter.tla      # and so on, see PROJECT.json
    tlapm BulkWriterProofs.tla

## 7. Plan

Done: all the modules above, their runs, and the theorems of section 5. Next, in this order:

1. `Reader!WellFormed` as a theorem on what `BulkWriter` stores, through one notion of a file
   for both, so that reads are read from the versions of `VersionedBulks`.
2. `Reader` over catalogs with a column in two groups, and racing with a post into a session
   that was committed.

## 8. Not modelled

Serialisation (parquet, JSON), parsing of filters and parameters, texts of answers and of
log lines, the numerical content of statistics, start-up: pure functions or I/O without
state the properties tell apart. The adapters to cloud storages: the models take from them
that an object is put and read atomically and may fail. `is_columns_slide_only`, `add_chunk`
and `expand_columns` are used by tests only. Abandoning a session is answered 501 by the
code. Labels with commas in them, which a query cannot carry. Two frames of `Reference` with
one hash and different rows, which are `BulkWriter`'s `Colliding`. Posted dataframes of
`BulkWriter` have no NaN: that a posted NaN does not override a value is announced as missing
at `conflict.py:129`.

About a third of the Python files of the repository, the scripts under `src/.github`, build
and release the worker and describe its deployment; they run once, on configuration, keep no
state and interact with nothing modelled here.

----------------------------- MODULE Statistics -----------------------------
(***************************************************************************)
(* Statistics of one bulk (bulk_statistics.py): triggers compute them by   *)
(* groups of columns, and share with each other and with readers the file  *)
(* statistics.json, which says how far the computation is.  The file is    *)
(* read, checked and written with no lock and no etag, and what a trigger  *)
(* that dies wrote there stays.                                            *)
(*                                                                         *)
(* Time is counted in units of _duration_before_recompute, one hour.       *)
(***************************************************************************)
EXTENDS Integers, Sequences, FiniteSets, FiniteSetsExt

CONSTANTS Triggers,     \* POST .../statistics requests
          Readers,      \* GET .../statistics requests
          Columns,      \* the columns of the bulk
          Computable,   \* those describe() has statistics for
          Groupings,    \* how the columns of a bulk may be grouped: see IsGrouping
          MaxAttempts,  \* _max_computation_retry_count
          NoFile,       \* statistics.json does not exist
          Clients,      \* how clients trigger: see MayTrigger
          MaxTime,      \* bound: hours
          MaxFailures   \* bound: failures and crashes

ASSUME StatisticsAssumption ==
    /\ Triggers \cap Readers = {}
    /\ Computable \subseteq Columns
    /\ MaxAttempts \in Nat \ {0}
    /\ Clients \subseteq {"free", "atomic", "serial"}
    /\ MaxTime \in Nat /\ MaxFailures \in Nat

\* A batch is the sequence of its columns, as they are read.  Columns are grouped
\* in the order a set of strings is iterated in, which differs from process to
\* process; each way, every column is in one batch.
ColumnsOf(b) == {b[i] : i \in DOMAIN b}

IsGrouping(G) ==
    /\ G \subseteq Seq(Columns)
    /\ UNION {ColumnsOf(b) : b \in G} = Columns
    /\ \A b, c \in G : b # c => ColumnsOf(b) \cap ColumnsOf(c) = {}

\* an element of Groupings: the groupings all processes together may use
ASSUME GroupingAssumption ==
    \A S \in Groupings : S # {} /\ \A G \in S : IsGrouping(G)

\* the columns batches have statistics of
Covered(S) == Computable \cap UNION {ColumnsOf(b) : b \in S}

\* A file is named after the first and the last column there are statistics of
\* in its batch: batches that differ in between are stored under one name.
\* Hashes of the two labels are taken to be injective.
Computed(b) == {i \in DOMAIN b : b[i] \in Computable}
FileName(b) == <<b[Min(Computed(b))], b[Max(Computed(b))]>>

VARIABLES
    file,       \* statistics.json
    stored,     \* the batches whose statistics are in a file
    hasCatalog, \* whether the bulk has a catalog; bulks of the legacy API have none
    clients,    \* how clients trigger in this behaviour
    groupings,  \* how processes group the columns in it
    now,        \* hours
    pc,         \* where each request is, or its answer
    meta,       \* what a trigger writes to the file next
    todo,       \* the batches a trigger waits for
    errors,     \* the batches that failed in it
    listed,     \* the files a reader has to download
    got,        \* what was in those it has
    failures

vars == <<file, stored, hasCatalog, clients, groupings, now, pc, meta, todo, errors, listed, got, failures>>

Requests == Triggers \cup Readers
Steps    == {"fetching", "starting", "started", "computing", "listing", "loading"}
Computing == {"starting", "started", "computing"}

InProgress(r) == pc[r] \in Steps

Init ==
    /\ file = NoFile /\ stored = {}
    /\ hasCatalog \in BOOLEAN
    /\ clients \in Clients
    /\ groupings \in Groupings
    /\ now = 0
    /\ pc     = [r \in Requests |-> "idle"]
    /\ meta   = [r \in Triggers |-> NoFile]
    /\ todo   = [r \in Triggers |-> {}]
    /\ errors = [r \in Triggers |-> {}]
    /\ listed = [q \in Readers |-> {}]
    /\ got    = [q \in Readers |-> {}]
    /\ failures = 0

\* the batches of this behaviour, those that have something to store, and the
\* file stored under a name
Batches      == UNION groupings
Storable     == {b \in Batches : Covered({b}) # {}}
FileNamed(n) == {b \in stored : FileName(b) = n}

Goto(r, label) == pc' = [pc EXCEPT ![r] = label]

\* a request ends, and the variables of a trigger's function with it
End(r, label) ==
    /\ Goto(r, label)
    /\ meta'   = [t \in Triggers |-> IF t = r THEN NoFile ELSE meta[t]]
    /\ todo'   = [t \in Triggers |-> IF t = r THEN {} ELSE todo[t]]
    /\ errors' = [t \in Triggers |-> IF t = r THEN {} ELSE errors[t]]

\* "serial": a trigger is sent when no other is in progress;
\* "atomic": when no other is between its reading of the file and its writing.
MayTrigger ==
    \A r \in Triggers : /\ clients = "serial" => ~InProgress(r)
                        /\ clients = "atomic" => pc[r] \notin {"fetching", "starting"}

-----------------------------------------------------------------------------
(* POST: compute_bulk_statistics *)

\* the catalog is loaded first; without one the route has no handler
Trigger(r) ==
    /\ pc[r] = "idle"
    /\ MayTrigger
    /\ Goto(r, IF hasCatalog THEN "fetching" ELSE "noCatalog")
    /\ UNCHANGED <<file, stored, hasCatalog, clients, groupings, now, meta, todo, errors, listed, got, failures>>

Expired(m) == m.at + 1 <= now

\* What _check_recomputation_allowed makes of the file: the exception it
\* raises, or "starting".  A date written by the first computation is aware of
\* its time zone, utcnow() is not, and comparing them is a TypeError.
Check(m) ==
    CASE m.status = "complete"                             -> "refusedComplete"
      [] m.status = "error" /\ m.attempt >= MaxAttempts    -> "refusedFailed"
      [] m.status = "error" /\ m.attempt < MaxAttempts     -> "starting"
      [] m.status = "running"                              -> "refusedRunning"
      [] m.status = "started" /\ m.aware                   -> "typeError"
      [] m.status = "started" /\ ~m.aware /\ Expired(m)    -> "starting"
      [] m.status = "started" /\ ~m.aware /\ ~Expired(m)   -> "refusedRunning"

\* Mutant: a complete computation can be done again.
CheckNotComplete(m) == IF m.status = "complete" THEN "starting" ELSE Check(m)

FirstMeta   == [status |-> "started", attempt |-> 1, at |-> now, aware |-> TRUE]
NextMeta(m) == [status |-> "started", attempt |-> m.attempt + 1, at |-> now, aware |-> FALSE]

\* Mutant: attempts are not counted.
NextMetaUncounted(m) == [NextMeta(m) EXCEPT !.attempt = m.attempt]

FetchWith(r, check(_), next(_)) ==
    /\ pc[r] = "fetching"
    /\ LET verdict == IF file = NoFile THEN "starting" ELSE check(file)
       IN  /\ Goto(r, verdict)
           /\ meta' = IF verdict = "starting"
                      THEN [meta EXCEPT ![r] = IF file = NoFile THEN FirstMeta ELSE next(file)]
                      ELSE meta
    /\ UNCHANGED <<file, stored, hasCatalog, clients, groupings, now, todo, errors, listed, got, failures>>

FetchMetaOfComplete(r)  == FetchWith(r, CheckNotComplete, NextMeta)
FetchMetaUncounted(r)   == FetchWith(r, Check, NextMetaUncounted)

\* statistics.json is downloaded and checked
FetchMeta(r) == FetchWith(r, Check, NextMeta)

\* the file is written before the computation...
PushStarted(r) ==
    /\ pc[r] = "starting"
    /\ file' = meta[r]
    /\ Goto(r, "started")
    /\ UNCHANGED <<stored, hasCatalog, clients, groupings, now, meta, todo, errors, listed, got, failures>>

\* ... and again once its coroutines are made, before they run
PushRunning(r) ==
    /\ pc[r] = "started"
    /\ meta' = [meta EXCEPT ![r].status = "running"]
    /\ file' = meta'[r]
    /\ \E G \in groupings : todo' = [todo EXCEPT ![r] = G]
    /\ Goto(r, "computing")
    /\ UNCHANGED <<stored, hasCatalog, clients, groupings, now, errors, listed, got, failures>>

SaveBatchWith(r, b, saved) ==
    /\ pc[r] = "computing"
    /\ b \in todo[r]
    /\ stored' = IF Covered({b}) = {} THEN stored ELSE saved
    /\ todo' = [todo EXCEPT ![r] = @ \ {b}]
    /\ UNCHANGED <<file, hasCatalog, clients, groupings, now, pc, meta, errors, listed, got, failures>>

\* Mutant: a file is named after all the columns of its batch.
SaveBatchApart(r, b) == SaveBatchWith(r, b, stored \cup {b})

\* Mutant: a file that exists is not written again.
SaveBatchOnce(r, b) ==
    SaveBatchWith(r, b, IF FileNamed(FileName(b)) = {} THEN stored \cup {b} ELSE stored)

\* a batch is read, computed and saved, over a file of the same name; nothing is
\* saved if it has no column to compute
SaveBatch(r, b) == SaveBatchWith(r, b, (stored \ FileNamed(FileName(b))) \cup {b})

FailBatch(r, b) ==
    /\ failures < MaxFailures
    /\ pc[r] = "computing"
    /\ b \in todo[r]
    /\ todo'   = [todo EXCEPT ![r] = @ \ {b}]
    /\ errors' = [errors EXCEPT ![r] = @ \cup {b}]
    /\ failures' = failures + 1
    /\ UNCHANGED <<file, stored, hasCatalog, clients, groupings, now, pc, meta, listed, got>>

Written(r, status) == [meta[r] EXCEPT !.status = status]

\* gather(..., return_exceptions=True), then the last write; the answer is 200
\* in either case
Finish(r) ==
    /\ pc[r] = "computing"
    /\ todo[r] = {}
    /\ file' = Written(r, IF errors[r] = {} THEN "complete" ELSE "error")
    /\ End(r, IF errors[r] = {} THEN "done" ELSE "errored")
    /\ UNCHANGED <<stored, hasCatalog, clients, groupings, now, listed, got, failures>>

-----------------------------------------------------------------------------
(* GET: get_bulk_statistics *)

\* what the reader is told by the file, before its curves are looked at
Verdict ==
    CASE ~hasCatalog                                              -> "noCatalog"
      [] hasCatalog /\ file = NoFile                              -> "notFound"
      [] hasCatalog /\ file # NoFile /\ file.status = "error"     -> "empty"
      [] hasCatalog /\ file # NoFile /\ file.status = "complete"  -> "listing"
      [] hasCatalog /\ file # NoFile
           /\ file.status \in {"started", "running"}              -> "notComplete"

ReadMetaWith(q, verdict) ==
    /\ pc[q] = "idle"
    /\ \/ Goto(q, verdict)
       \/ verdict = "listing" /\ Goto(q, "unknownCurves")
    /\ UNCHANGED <<file, stored, hasCatalog, clients, groupings, now, meta, todo, errors, listed, got, failures>>

\* Mutant: statistics that are being computed are read.
ReadMetaOfRunning(q) ==
    ReadMetaWith(q, IF Verdict = "notComplete" THEN "listing" ELSE Verdict)

\* The file decides; curves that do not exist are refused only if the
\* statistics are complete.
ReadMeta(q) == ReadMetaWith(q, Verdict)

\* the names of the objects; with none, concatenating nothing is a ValueError
ListFiles(q) ==
    /\ pc[q] = "listing"
    /\ listed' = [listed EXCEPT ![q] = {FileName(b) : b \in stored}]
    /\ Goto(q, IF stored = {} THEN "valueError" ELSE "loading")
    /\ UNCHANGED <<file, stored, hasCatalog, clients, groupings, now, meta, todo, errors, got, failures>>

\* they are downloaded in any order: what is in a file then is what is read
LoadFile(q, n) ==
    /\ pc[q] = "loading"
    /\ n \in listed[q]
    /\ listed' = [listed EXCEPT ![q] = @ \ {n}]
    /\ got'    = [got EXCEPT ![q] = @ \cup FileNamed(n)]
    /\ UNCHANGED <<file, stored, hasCatalog, clients, groupings, now, pc, meta, todo, errors, failures>>

\* Two files have statistics of one column.
Repeated(S) == \E b, c \in S : b # c /\ Covered({b}) \cap Covered({c}) # {}

\* All are concatenated, and filtered to the columns asked for, whichever these
\* are; rows of one label cannot be filtered, which is a ValueError.
Answer(q) ==
    /\ pc[q] = "loading"
    /\ listed[q] = {}
    /\ Goto(q, IF Repeated(got[q]) THEN "valueError" ELSE "answered")
    /\ UNCHANGED <<file, stored, hasCatalog, clients, groupings, now, meta, todo, errors, listed, got, failures>>

-----------------------------------------------------------------------------

\* A storage call other than a batch's fails, or the process dies.
Fail(r) ==
    /\ failures < MaxFailures
    /\ InProgress(r)
    /\ End(r, "failed")
    /\ failures' = failures + 1
    /\ UNCHANGED <<file, stored, hasCatalog, clients, groupings, now, listed, got>>

Tick ==
    /\ now < MaxTime
    /\ now' = now + 1
    /\ UNCHANGED <<file, stored, hasCatalog, clients, groupings, pc, meta, todo, errors, listed, got, failures>>

Compute(r) ==
    \/ FetchMeta(r) \/ PushStarted(r) \/ PushRunning(r)
    \/ \E b \in todo[r] : SaveBatch(r, b)
    \/ Finish(r)

Next ==
    \/ \E r \in Triggers : Trigger(r) \/ Compute(r) \/ (\E b \in todo[r] : FailBatch(r, b))
    \/ \E q \in Readers : ReadMeta(q) \/ ListFiles(q) \/ (\E n \in listed[q] : LoadFile(q, n)) \/ Answer(q)
    \/ \E r \in Requests : Fail(r)
    \/ Tick

Spec == Init /\ [][Next]_vars
-----------------------------------------------------------------------------

Meta == [status : {"started", "running", "complete", "error"}, attempt : Nat \ {0},
         at : 0 .. MaxTime, aware : BOOLEAN]

ASSUME NoFileAssumption == NoFile \notin Meta

\* Every variable has the type its declaration says; a name is that of one file.
TypeOK ==
    /\ file \in Meta \cup {NoFile}
    /\ stored \subseteq Storable
    /\ \A b, c \in stored : FileName(b) = FileName(c) => b = c
    /\ hasCatalog \in BOOLEAN /\ clients \in Clients /\ groupings \in Groupings
    /\ now \in 0 .. MaxTime
    /\ pc \in [Requests -> Steps \cup
                 {"idle", "done", "errored", "failed", "noCatalog", "refusedComplete",
                  "refusedFailed", "refusedRunning", "typeError", "notFound", "empty",
                  "notComplete", "unknownCurves", "valueError", "answered"}]
    /\ meta \in [Triggers -> Meta \cup {NoFile}]
    /\ todo \in [Triggers -> SUBSET Batches] /\ errors \in [Triggers -> SUBSET Batches]
    /\ listed \in [Readers -> SUBSET {FileName(b) : b \in Storable}]
    /\ got \in [Readers -> SUBSET Batches]
    /\ failures \in 0 .. MaxFailures

\* Names tell what is in a file: as when a batch is one column, or holds them
\* all, or all processes group the columns alike.
NamesTell ==
    \A b, c \in Storable : FileName(b) = FileName(c) => Covered({b}) = Covered({c})

\* When columns cannot be lost by saving a batch over another: two computations
\* at once, of batches with the same ends, can undo each other; see the README.
FilesKept == clients = "serial" \/ NamesTell

\* A file that says complete is right: statistics are stored of all the columns
\* that have some.  Computations race, fail and die where names tell; where they
\* do not, one follows another that failed, and saves over some of its files.
CompleteIsStored ==
    file # NoFile /\ file.status = "complete" /\ FilesKept => Covered(stored) = Computable

\* A reader that is answered was given the statistics of all the columns, to
\* select from, though it reads the status, the names and the files one after
\* another.
ReadersGetAll ==
    \A q \in Readers : pc[q] = "answered" /\ FilesKept => Covered(got[q]) = Computable

-----------------------------------------------------------------------------
(* Why these two hold: the inductive invariant of their proof                *)

\* What a trigger writes next is what its step calls for.
MetaFits ==
    \A r \in Triggers : /\ pc[r] = "starting" => meta[r] \in Meta /\ meta[r].status = "started"
                        /\ pc[r] \in {"started", "computing"} => meta[r] \in Meta

\* The file of a batch is there, with what the batch has statistics of.
Kept(b) == \E c \in FileNamed(FileName(b)) : c = b \/ NamesTell

\* A batch is waited for, failed, or stored.
BatchesAccounted ==
    FilesKept =>
      \A r \in Triggers : pc[r] = "computing" =>
        \E G \in groupings :
          /\ todo[r] \subseteq G
          /\ \A b \in G \ (todo[r] \cup errors[r]) : Covered({b}) # {} => Kept(b)

\* A reader that goes on once the file said complete finds all there is.
ReadersSound ==
    FilesKept =>
      \A q \in Readers :
        /\ pc[q] = "listing" => Covered(stored) = Computable
        /\ pc[q] = "loading" =>
             Covered(got[q] \cup {b \in stored : FileName(b) \in listed[q]}) = Computable

Inv       == TypeOK /\ MetaFits
StoredInv == BatchesAccounted /\ ReadersSound /\ CompleteIsStored /\ ReadersGetAll

-----------------------------------------------------------------------------

\* "Maximum number of time the computation of statistics can be triggered": as
\* many computations end in error at most, if triggers do not race.
ErrorsBounded ==
    clients = "serial" => Cardinality({r \in Triggers : pc[r] = "errored"}) <= MaxAttempts

\* Statistics are computed once: with triggers that do not race, a file that
\* says complete is final.
CompleteIsFinal ==
    [][clients = "serial" /\ file # NoFile /\ file.status = "complete" => file' = file]_vars

-----------------------------------------------------------------------------
(* Why they hold: what is known of triggers that do not race                *)

Errored == {r \in Triggers : pc[r] = "errored"}

\* A computation that counts as attempt m.attempt may still end in error.
AttemptLeft(m) == Cardinality(Errored) < m.attempt /\ Cardinality(Errored) < MaxAttempts

SerialInv ==
    clients = "serial" =>
      /\ \A r, t \in Triggers : InProgress(r) /\ InProgress(t) => r = t
      /\ IsFiniteSet(Errored)
      /\ file = NoFile => Errored = {}
      /\ file # NoFile /\ file.status \in {"started", "running"} => AttemptLeft(file)
      /\ file # NoFile /\ file.status = "error" => Cardinality(Errored) <= file.attempt
      /\ \A r \in Triggers : pc[r] \in Computing =>
            AttemptLeft(meta[r]) /\ (file # NoFile => file.status # "complete")

\* The file still says complete while it is read.
ReadersAtComplete ==
    clients = "serial" =>
      \A q \in Readers : pc[q] \in {"listing", "loading"} => file # NoFile /\ file.status = "complete"

-----------------------------------------------------------------------------
(* What the comments of the code say, and it does not do                     *)

\* "Duration before allowing to re-computation statistics": of two computations
\* in progress, one began an hour after the other, if the reading and the
\* writing of the file are not interleaved.
HourApart ==
    clients # "free" =>
      \A r, t \in Triggers :
        r # t /\ pc[r] \in Computing /\ pc[t] \in Computing
          => meta[r].at # meta[t].at

\* "Duration before allowing to re-computation statistics": a trigger sent an
\* hour after a computation began, which did not end, is not refused.
RecomputedAfterHour ==
    [][\A r \in Triggers :
         pc[r] = "fetching" /\ pc'[r] # "failed" /\ file # NoFile
           /\ file.status \in {"started", "running"} /\ Expired(file)
         => pc'[r] \in {"fetching", "starting"}]_vars
=============================================================================

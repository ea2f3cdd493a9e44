----------------------------- MODULE Downloads ------------------------------
(***************************************************************************)
(* The downloads that resolve one group of conflicts (conflict.py and      *)
(* chunk_download_generator of chunk_storage.py).  A stream is one run of  *)
(* merge_dataframes_from_storage over a list of chunks: the chunks of the  *)
(* session in the order they arrive, and for each shape of the previous    *)
(* bulk its chunks in the order of the list.  The streams run at once.     *)
(*                                                                         *)
(* A download is a task; a stream waits for the first of its tasks to end, *)
(* files all that ended by name, and hands them to the merge.  The code    *)
(* between two awaits is cut finer here, into Wake and one Hand for each   *)
(* task: nothing else that happens in between can be told apart.           *)
(***************************************************************************)
EXTENDS Integers, Sequences, FiniteSets, Functions

CONSTANTS Streams,
          Current,       \* the stream of the session's own chunks
          PathLists(_)   \* the lists of paths a stream may be given

Ordered == Streams \ {Current}

ASSUME StreamAssumption == Current \in Streams

\* Chunks of a catalog have distinct paths.  Those listed in a session have not
\* when a chunk has two metadata objects.
ASSUME PathAssumption ==
    /\ \A s \in Streams : \A l \in PathLists(s) : l \in Seq(Range(l))
    /\ \A s \in Ordered : \A l \in PathLists(s) : l # <<>> /\ IsInjective(l)

VARIABLES
    paths,    \* object_paths
    task,     \* how the task of each position of the list is
    pending,  \* pending_tasks
    byName,   \* done_by_name: path |-> position
    turn,     \* position of next_waited_task_name, 0 if any name will do
    pc,       \* where each stream is
    merged,   \* the positions whose dataframes it has merged, in order
    stage     \* where resolve_single_conflict_group is

vars == <<paths, task, pending, byName, turn, pc, merged, stage>>

Positions(s) == DOMAIN paths[s]
Ended(s)     == pc[s] \in {"ended", "raised", "closed", "cancelled"}
Goto(s, l)   == pc' = [pc EXCEPT ![s] = l]

Init ==
    /\ paths \in [Streams -> UNION {PathLists(s) : s \in Streams}]
    /\ \A s \in Streams : paths[s] \in PathLists(s)
    /\ task    = [s \in Streams |-> [i \in Positions(s) |-> "none"]]
    /\ pending = [s \in Streams |-> {}]
    /\ byName  = [s \in Streams |-> <<>>]
    /\ turn    = [s \in Streams |-> 0]
    /\ pc      = [s \in Streams |-> "created"]
    /\ merged  = [s \in Streams |-> <<>>]
    /\ stage   = "current"

-----------------------------------------------------------------------------
(* chunk_download_generator *)

\* its first step: a task for every path
Start(s) ==
    /\ pc[s] = "created"
    /\ task'    = [task EXCEPT ![s] = [i \in Positions(s) |-> "running"]]
    /\ pending' = [pending EXCEPT ![s] = Positions(s)]
    /\ turn'    = [turn EXCEPT ![s] = IF s \in Ordered THEN 1 ELSE 0]
    /\ Goto(s, IF Positions(s) = {} THEN "ended" ELSE "waiting")
    /\ UNCHANGED <<paths, byName, merged, stage>>

\* the storage answers, with the dataframe or with an error
EndTask(s, i, result) ==
    /\ task[s][i] = "running"
    /\ task' = [task EXCEPT ![s][i] = result]
    /\ UNCHANGED <<paths, pending, byName, turn, pc, merged, stage>>

DoneTasks(s) == {i \in pending[s] : task[s][i] # "running"}

\* done_by_name once the tasks D are added: one name keeps one task
Filings(s, D) ==
    LET names == {paths[s][i] : i \in D}
    IN  {f \in [DOMAIN byName[s] \cup names -> Positions(s)] :
           \A n \in DOMAIN f : IF n \in names THEN f[n] \in D /\ paths[s][f[n]] = n
                                              ELSE f[n] = byName[s][n]}

\* Mutant: keeps only what the last wait returned.
WakeForgetting(s) ==
    /\ pc[s] = "waiting"
    /\ DoneTasks(s) # {}
    /\ pending' = [pending EXCEPT ![s] = @ \ DoneTasks(s)]
    /\ \E f \in Filings(s, DoneTasks(s)) :
         byName' = [byName EXCEPT ![s] = Restrict(f, {paths[s][i] : i \in DoneTasks(s)})]
    /\ Goto(s, "handing")
    /\ UNCHANGED <<paths, task, turn, merged, stage>>

\* wait(pending_tasks, return_when=FIRST_COMPLETED)
Wake(s) ==
    /\ pc[s] = "waiting"
    /\ DoneTasks(s) # {}
    /\ pending' = [pending EXCEPT ![s] = @ \ DoneTasks(s)]
    /\ \E f \in Filings(s, DoneTasks(s)) : byName' = [byName EXCEPT ![s] = f]
    /\ Goto(s, "handing")
    /\ UNCHANGED <<paths, task, turn, merged, stage>>

\* a name is awaited, and its task is not filed
OutOfTurn(s) ==
    /\ turn[s] \in Positions(s)
    /\ paths[s][turn[s]] \notin DOMAIN byName[s]

\* Mutant: never looks whose turn it is.
MayHandAny(s, n) == n \in DOMAIN byName[s]

MayHand(s, n) ==
    /\ n \in DOMAIN byName[s]
    /\ turn[s] \in Positions(s) => n = paths[s][turn[s]]

\* takes one task out of done_by_name and yields its dataframe, which
\* merge_dataframes_from_storage merges
Hand(s, n) ==
    /\ pc[s] = "handing"
    /\ MayHand(s, n)
    /\ LET i == byName[s][n]
       IN  /\ task[s][i] = "done"
           /\ byName' = [byName EXCEPT ![s] = Restrict(@, DOMAIN @ \ {n})]
           /\ turn'   = [turn EXCEPT ![s] = IF @ = 0 THEN 0 ELSE @ + 1]
           /\ merged' = [merged EXCEPT ![s] = Append(@, i)]
    /\ UNCHANGED <<paths, task, pending, pc, stage>>

\* Mutant: leaves the other downloads running.
CancelNone(s) == task' = task

\* the handler of the generator: cancels the tasks still pending
CancelPending(s) ==
    task' = [task EXCEPT ![s] =
               [i \in Positions(s) |-> IF i \in pending[s] /\ @[i] = "running"
                                       THEN "cancelled" ELSE @[i]]]

\* the task taken has failed: its exception is raised
Raise(s, n) ==
    /\ pc[s] = "handing"
    /\ MayHand(s, n)
    /\ task[s][byName[s][n]] = "failed"
    /\ CancelPending(s)
    /\ Goto(s, "raised")
    /\ UNCHANGED <<paths, pending, byName, turn, merged, stage>>

\* nothing more can be handed: wait again, or return, or fail the assertion
\* that a task waited for is pending
Leave(s) ==
    /\ pc[s] = "handing"
    /\ DOMAIN byName[s] = {} \/ OutOfTurn(s)
    /\ Goto(s, IF pending[s] # {} THEN "waiting"
               ELSE IF DOMAIN byName[s] = {} THEN "ended" ELSE "raised")
    /\ UNCHANGED <<paths, task, pending, byName, turn, merged, stage>>

-----------------------------------------------------------------------------
(* merge_dataframes_from_storage and resolve_single_conflict_group *)

\* The merge raises on the dataframe just handed.  The generator is closed, at
\* its yield, by a GeneratorExit that its handler does not catch.
FailMerge(s) ==
    /\ pc[s] = "handing"
    /\ merged[s] # <<>>
    /\ Goto(s, "closed")
    /\ UNCHANGED <<paths, task, pending, byName, turn, merged, stage>>

CurrentMerged ==
    /\ stage = "current"
    /\ pc[Current] = "ended"
    /\ stage' = IF Ordered = {} THEN "resolved" ELSE "previous"
    /\ UNCHANGED <<paths, task, pending, byName, turn, pc, merged>>

\* The other streams are cancelled.  CancelledError is no Exception: the
\* generator they are in leaves its downloads running.
CurrentFailed ==
    /\ stage = "current"
    /\ pc[Current] \in {"raised", "closed"}
    /\ pc' = [s \in Streams |-> IF Ended(s) THEN pc[s] ELSE "cancelled"]
    /\ stage' = "failed"
    /\ UNCHANGED <<paths, task, pending, byName, turn, merged>>

\* Mutant: waits for the streams to return, and one has raised.
PreviousReturned ==
    /\ stage = "previous"
    /\ \A s \in Ordered : pc[s] = "ended"
    /\ stage' = "resolved"
    /\ UNCHANGED <<paths, task, pending, byName, turn, pc, merged>>

\* wait(previous_tasks.values()) returns once all of them ended
PreviousEnded ==
    /\ stage = "previous"
    /\ \A s \in Ordered : Ended(s)
    /\ stage' = IF \A s \in Ordered : pc[s] = "ended" THEN "resolved" ELSE "failed"
    /\ UNCHANGED <<paths, task, pending, byName, turn, pc, merged>>

-----------------------------------------------------------------------------

StreamStep(s) ==
    \/ Start(s) \/ Wake(s) \/ Leave(s)
    \/ \E n \in Range(paths[s]) : Hand(s, n) \/ Raise(s, n)

GroupStep == CurrentMerged \/ CurrentFailed \/ PreviousEnded

Answer(s) == \E i \in Positions(s) : EndTask(s, i, "done") \/ EndTask(s, i, "failed")

Next ==
    \/ \E s \in Streams : StreamStep(s) \/ Answer(s) \/ FailMerge(s)
    \/ GroupStep

\* The event loop runs what is ready, and the storage answers every download,
\* at worst with a time-out.
Fairness ==
    /\ \A s \in Streams : WF_vars(StreamStep(s)) /\ WF_vars(Answer(s))
    /\ WF_vars(GroupStep)

Spec == Init /\ [][Next]_vars /\ Fairness

-----------------------------------------------------------------------------
(* Properties *)

TypeOK ==
    /\ paths = [s \in Streams |-> paths[s]]
    /\ \A s \in Streams : paths[s] \in PathLists(s)
    /\ task = [s \in Streams |-> task[s]]
    /\ \A s \in Streams :
         task[s] \in [Positions(s) -> {"none", "running", "done", "failed", "cancelled"}]
    /\ pending \in [Streams -> SUBSET Nat]
    /\ \A s \in Streams : pending[s] \subseteq Positions(s)
    /\ byName = [s \in Streams |-> byName[s]]
    /\ \A s \in Streams : byName[s] \in [DOMAIN byName[s] -> Positions(s)]
    /\ turn \in [Streams -> Nat]
    /\ pc \in [Streams -> {"created", "waiting", "handing", "ended",
                           "raised", "closed", "cancelled"}]
    /\ merged = [s \in Streams |-> merged[s]]
    /\ \A s \in Streams : merged[s] \in Seq(Positions(s))
    /\ stage \in {"current", "previous", "resolved", "failed"}

\* Two tasks of one name, filed as one, do not make a stream forget a path: as
\* long as it goes on, each path is pending, filed, or merged.
NothingLost ==
    \A s \in Streams : pc[s] \in {"waiting", "handing", "ended"} =>
        \A n \in Range(paths[s]) :
            \/ n \in DOMAIN byName[s]
            \/ \E i \in pending[s] \cup Range(merged[s]) : paths[s][i] = n

\* A stream that failed on one of its downloads, and not on the merge, has none
\* of them running: cancel all remaining, as the generator says.
RaisedStopsAll ==
    \A s \in Streams : pc[s] = "raised" =>
        \A i \in Positions(s) : task[s][i] # "running"

\* The generator never meets its assertion: a stream fails on a failed task.
AssertionHolds ==
    \A s \in Streams : pc[s] = "raised" =>
        \E i \in Positions(s) : task[s][i] = "failed"

\* resolve_single_conflict_group merges what GroupMerge says, in its order.
Group == INSTANCE GroupMerge
         WITH verdict <- IF stage \in {"current", "previous"} THEN "merging" ELSE stage

MergesInOrder == Group!Spec

\* The group is resolved or fails: no stream waits for a name that will never
\* be filed.
GroupEnds == <>(stage \in {"resolved", "failed"})

(* The inductive invariant *)

\* a download that runs is one its stream waits for
RunningPending ==
    \A s \in Streams : \A i \in Positions(s) : task[s][i] = "running" => i \in pending[s]

\* before its first step a stream has nothing, once it ended nothing is left
StreamEnds ==
    \A s \in Streams :
        /\ pc[s] = "created" => pending[s] = {} /\ DOMAIN byName[s] = {} /\ merged[s] = <<>>
        /\ pc[s] = "ended" => pending[s] = {} /\ DOMAIN byName[s] = {}

\* a position is pending, filed under its name or merged, and merged once
OnePlace ==
    \A s \in Streams :
        /\ pending[s] \cap Range(merged[s]) = {}
        /\ IsInjective(merged[s])
        /\ \A n \in DOMAIN byName[s] :
             /\ paths[s][byName[s][n]] = n
             /\ byName[s][n] \notin pending[s] \cup Range(merged[s])

\* an ordered stream has merged the positions before its turn, in order
InTurn ==
    /\ turn[Current] = 0
    /\ \A s \in Ordered : pc[s] \notin {"created", "cancelled"} =>
         /\ turn[s] = Len(merged[s]) + 1
         /\ \A j \in DOMAIN merged[s] : merged[s][j] = j

\* the group waits for its streams, and none goes on once it has ended
StageFits ==
    /\ stage # "failed" /\ stage # "current" => pc[Current] = "ended"
    /\ stage \in {"resolved", "failed"} => \A s \in Streams : Ended(s)
    /\ stage = "resolved" => \A s \in Streams : pc[s] = "ended"

Inv == /\ TypeOK /\ RunningPending /\ StreamEnds /\ OnePlace /\ InTurn /\ StageFits
       /\ NothingLost /\ RaisedStopsAll /\ AssertionHolds
=============================================================================

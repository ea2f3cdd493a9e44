------------------------------- MODULE Routes -------------------------------
(***************************************************************************)
(* A request on its way through the worker: the middlewares and the        *)
(* context of the request (http_middlewares.py, logger.py), the handler of *)
(* its route and the status it gives each error (write_router.py,          *)
(* read_router.py, statistics_routes.py, errors.py), and the tasks the     *)
(* handler leaves behind.                                                  *)
(*                                                                         *)
(* Each middleware runs what is inside of it in a task of its own, whose   *)
(* context variables are a copy: a task sees the context that was current  *)
(* where it was created, whatever is set or reset outside of it later.     *)
(* What handlers do is in the other modules: here they log, may leave a    *)
(* task behind, and return or raise.                                       *)
(***************************************************************************)
EXTENDS Integers, Sequences, SequencesExt

CONSTANTS Requests, None

ASSUME RoutesAssumption == None \notin Requests

VARIABLES
    route,     \* request |-> the route it is for
    phase,     \* request |-> "idle", "enter", "route", "leave" or "done"
    level,     \* request |-> how many middlewares it is inside of
    seen,      \* request |-> the context current in its task at each level
    logger,    \* context of a request |-> the request its logger tells
    span,      \* request |-> its trace
    raised,    \* request |-> the exception on its way out
    response,  \* request |-> the response on its way out
    left,      \* request |-> the context of the task it left, or "no task"
    lines      \* what was logged: <<request at work, request told>>

vars == <<route, phase, level, seen, logger, span, raised, response, left, lines>>

-----------------------------------------------------------------------------
(* Errors *)

BulkErrors == {"BulkCaseNotSupportedError", "CurvesNotFoundError", "LimitExceededError",
               "InvalidParameterError", "FilteringError", "BulkUnprocessableError",
               "BulkValidationError", "BulkUploadError", "BulkCommitNoDataError",
               "TooManyConflictsToResolve"}

LimitErrors == {"TooManyValuesError", "TooManyColumnsError"}

OtherErrors == {"ComputationRunningError", "BulkCatalogNotFoundError", "StatisticsNotFoundError",
                "RequestedCurvesError", "ComputationNotCompleteError", "BulkError",
                "ResourceNotFoundException", "StorageError", "ValueError"}

Errors == BulkErrors \cup LimitErrors \cup OtherErrors

\* the class an error derives from
Base == [e \in Errors |-> IF e \in BulkErrors THEN "BulkError"
                         ELSE IF e \in LimitErrors THEN "LimitExceededError" ELSE "Exception"]

IsA(e, class) ==
    \/ class \in {e, Base[e]}
    \/ Base[e] \in Errors /\ Base[Base[e]] = class

\* an except clause, and what it answers
Except(classes, status) == [classes |-> classes, status |-> status]

\* Mutant: only the errors named are caught, not those derived from them.
CatchesExactly(clause, e) == e \in clause.classes

Catches(clause, e) == \E class \in clause.classes : IsA(e, class)

Routes == {"post_chunk", "post_whole", "commit", "read", "trigger", "statistics", "probe"}

\* the try of each handler
Clauses ==
    [rt \in Routes |->
       CASE rt = "post_chunk" ->
              <<Except({"BulkValidationError", "BulkUnprocessableError"}, 422),
                Except({"TooManyValuesError", "TooManyColumnsError"}, 413)>>
         [] rt = "post_whole" ->
              <<Except({"BulkUnprocessableError"}, 422), Except({"BulkValidationError"}, 422),
                Except({"TooManyValuesError", "TooManyColumnsError"}, 413),
                Except({"BulkUploadError"}, 500)>>
         [] rt = "commit" ->
              <<Except({"TooManyConflictsToResolve"}, 413), Except({"BulkCommitNoDataError"}, 422),
                Except({"BulkValidationError"}, 422)>>
         [] rt = "read" ->
              <<Except({"BulkCaseNotSupportedError"}, 412), Except({"CurvesNotFoundError"}, 404),
                Except({"LimitExceededError"}, 413),
                Except({"InvalidParameterError", "FilteringError"}, 400)>>
         [] rt = "trigger" -> <<Except({"ComputationRunningError"}, 409)>>
         [] rt = "statistics" ->
              <<Except({"BulkCatalogNotFoundError"}, 412),
                Except({"StatisticsNotFoundError", "RequestedCurvesError",
                        "ComputationNotCompleteError"}, 404)>>
         [] rt = "probe" -> <<>>]

\* what the code under each handler raises
Raises ==
    [rt \in Routes |->
       CASE rt \in {"post_chunk", "post_whole"} ->
              {"BulkUnprocessableError", "BulkValidationError", "TooManyValuesError",
               "TooManyColumnsError", "BulkUploadError", "ValueError"}
         [] rt = "commit" ->
              {"BulkCommitNoDataError", "BulkValidationError", "TooManyConflictsToResolve",
               "BulkCaseNotSupportedError", "BulkUploadError", "ResourceNotFoundException", "StorageError", "ValueError"}
         [] rt = "read" ->
              {"BulkCaseNotSupportedError", "CurvesNotFoundError", "TooManyValuesError",
               "TooManyColumnsError", "FilteringError", "BulkUnprocessableError", "ResourceNotFoundException", "StorageError"}
         [] rt = "trigger" ->
              {"ComputationRunningError", "BulkCatalogNotFoundError", "StorageError"}
         [] rt = "statistics" ->
              {"BulkCatalogNotFoundError", "StatisticsNotFoundError", "RequestedCurvesError",
               "ComputationNotCompleteError", "StorageError", "ValueError"}
         [] rt = "probe" -> {}]

\* map_errors, around the functions that read
Mapped(rt, e) ==
    IF rt = "read" /\ e = "ResourceNotFoundException" THEN "CurvesNotFoundError" ELSE e

\* the first clause that catches an error, or 0
ClauseFor(rt, e) == SelectInSeq(Clauses[rt], LAMBDA clause : Catches(clause, e))

\* the ways a handler ends: a response, or an exception it does not catch
Statuses == {200, 400, 404, 409, 412, 413, 422, 500, 501}

ASSUME NoneAssumption == None \notin Errors /\ None \notin Statuses

Response(status) == [status |-> status, error |-> None]
Uncaught(e)      == [status |-> None, error |-> e]

Handled(rt, e) ==
    LET k == ClauseFor(rt, Mapped(rt, e))
    IN  IF k = 0 THEN Uncaught(Mapped(rt, e)) ELSE Response(Clauses[rt][k].status)

\* a request FastAPI refuses by itself is answered 422; abandoning a session is
\* not implemented; a catalog that cannot be loaded is a 500 of its own
Outcomes(rt) ==
    {Response(200)} \cup {Handled(rt, e) : e \in Raises[rt]}
        \cup (IF rt = "probe" THEN {} ELSE {Response(422)})
        \cup (IF rt = "commit" THEN {Response(501)} ELSE {})
        \cup (IF rt = "read" THEN {Response(500)} ELSE {})

-----------------------------------------------------------------------------
(* Middlewares *)

\* Mutant: the context is added first, which makes it the innermost.
AddedContextFirst == <<"context", "logging", "tracing">>

\* add_middlewares_to_app: the last that is added is the first to be entered
Added == <<"logging", "tracing", "context">>

Stack == Reverse(Added)
Depth == Len(Stack)
Levels == 0 .. Depth

NoSpan == [open |-> FALSE, status |-> None, error |-> None]

\* get_logger in a task that sees a context: that of the service, None, when
\* there is no context or its logger is not set yet
LoggerIn(context) == IF context = None THEN None ELSE logger[context]

Here(r) == seen[r][level[r]]

Log(r, context) == lines' = lines \cup {<<r, LoggerIn(context)>>}

Init ==
    /\ route = [r \in Requests |-> None]
    /\ phase = [r \in Requests |-> "idle"]
    /\ level = [r \in Requests |-> 0]
    /\ seen = [r \in Requests |-> [i \in Levels |-> None]]
    /\ logger = [r \in Requests |-> None]
    /\ span = [r \in Requests |-> NoSpan]
    /\ raised = [r \in Requests |-> None]
    /\ response = [r \in Requests |-> None]
    /\ left = [r \in Requests |-> "no task"]
    /\ lines = {}

Receive(r, rt) ==
    /\ phase[r] = "idle"
    /\ route' = [route EXCEPT ![r] = rt]
    /\ phase' = [phase EXCEPT ![r] = "enter"]
    /\ UNCHANGED <<level, seen, logger, span, raised, response, left, lines>>

\* A middleware up to its call_next, which runs the next level in a task that
\* copies what this one sees.
Descend(r, context) ==
    /\ level' = [level EXCEPT ![r] = @ + 1]
    /\ seen' = [seen EXCEPT ![r] = [i \in Levels |-> IF i > level[r] THEN context ELSE @[i]]]
    /\ phase' = [phase EXCEPT ![r] = IF level[r] + 1 = Depth THEN "route" ELSE "enter"]
    /\ UNCHANGED <<route, raised, response, left, lines>>

Entering(r, layer) == phase[r] = "enter" /\ Stack[level[r] + 1] = layer

EnterContext(r) ==
    /\ Entering(r, "context")
    /\ Descend(r, r)
    /\ UNCHANGED <<logger, span>>

EnterTracing(r) ==
    /\ Entering(r, "tracing")
    /\ Descend(r, Here(r))
    /\ span' = [span EXCEPT ![r].open = route[r] # "probe"]
    /\ UNCHANGED logger

EnterLogging(r) ==
    /\ Entering(r, "logging")
    /\ Descend(r, Here(r))
    /\ logger' = IF Here(r) = None THEN logger ELSE [logger EXCEPT ![Here(r)] = r]
    /\ UNCHANGED span

-----------------------------------------------------------------------------
(* Handlers *)

\* The handler logs, as its timings do when it ends
HandlerLogs(r) ==
    /\ phase[r] = "route" /\ route[r] # "probe"
    /\ Log(r, Here(r))
    /\ UNCHANGED <<route, phase, level, seen, logger, span, raised, response, left>>

\* An upload of metadata, or the load of an index, of which no one may be left
\* to take the result
LeaveTask(r) ==
    /\ phase[r] = "route" /\ route[r] \in {"commit", "read", "trigger"}
    /\ left[r] = "no task"
    /\ left' = [left EXCEPT ![r] = Here(r)]
    /\ UNCHANGED <<route, phase, level, seen, logger, span, raised, response, lines>>

\* It logs when it likes: before or after the request is answered
TaskLogs(r) ==
    /\ left[r] # "no task"
    /\ Log(r, left[r])
    /\ left' = [left EXCEPT ![r] = "no task"]
    /\ UNCHANGED <<route, phase, level, seen, logger, span, raised, response>>

Return(r, outcome) ==
    /\ phase[r] = "route"
    /\ outcome \in Outcomes(route[r])
    /\ response' = [response EXCEPT ![r] = outcome.status]
    /\ raised' = [raised EXCEPT ![r] = outcome.error]
    /\ phase' = [phase EXCEPT ![r] = "leave"]
    /\ UNCHANGED <<route, level, seen, logger, span, left, lines>>

-----------------------------------------------------------------------------
(* The way out *)

Leaving(r, layer) == phase[r] = "leave" /\ level[r] > 0 /\ Stack[level[r]] = layer

Ascend(r) ==
    /\ level' = [level EXCEPT ![r] = @ - 1]
    /\ UNCHANGED <<route, phase, logger, raised, response, left>>

\* Mutant: only the errors of the service are worth a line.
LoggedErrorBulk(r, e) == IF e \in Errors /\ IsA(e, "BulkError") THEN {<<r, r>>} ELSE {}

\* an exception is logged by the logger made on the way in, and raised again
LoggedError(r, e) == IF e = None THEN {} ELSE {<<r, r>>}

LeaveLogging(r) ==
    /\ Leaving(r, "logging")
    /\ Ascend(r)
    /\ lines' = lines \cup LoggedError(r, raised[r])
    /\ UNCHANGED <<seen, span>>

\* Mutant: what the response says is recorded on the way out, exception or not.
SpanOfResponse(s, status, e) == [open |-> FALSE, status |-> status, error |-> e]

\* _add_request_attributes_to_span, in the finally
ClosedSpan(s, status, e) ==
    [open |-> FALSE, status |-> IF status = None THEN 500 ELSE status, error |-> e]

LeaveTracing(r) ==
    /\ Leaving(r, "tracing")
    /\ Ascend(r)
    /\ span' = IF span[r].open
               THEN [span EXCEPT ![r] = ClosedSpan(@, response[r], raised[r])] ELSE span
    /\ UNCHANGED <<seen, lines>>

\* the token gives back what was current when the middleware was entered
LeaveContext(r) ==
    /\ Leaving(r, "context")
    /\ Ascend(r)
    /\ seen' = [seen EXCEPT ![r][level[r] - 1] = None]
    /\ UNCHANGED <<span, lines>>

\* The server answers 500 to an exception that comes out of the application
Answer(r) ==
    /\ phase[r] = "leave" /\ level[r] = 0
    /\ phase' = [phase EXCEPT ![r] = "done"]
    /\ response' = [response EXCEPT ![r] = IF raised[r] = None THEN @ ELSE 500]
    /\ UNCHANGED <<route, level, seen, logger, span, raised, left, lines>>

Enter(r) == EnterContext(r) \/ EnterTracing(r) \/ EnterLogging(r)
Leave(r) == LeaveContext(r) \/ LeaveTracing(r) \/ LeaveLogging(r) \/ Answer(r)
Handle(r) == HandlerLogs(r) \/ LeaveTask(r) \/ \E outcome \in Outcomes(route[r]) : Return(r, outcome)

Next ==
    \E r \in Requests :
        \/ \E rt \in Routes : Receive(r, rt)
        \/ Enter(r) \/ Leave(r) \/ TaskLogs(r)
        \/ phase[r] = "route" /\ Handle(r)

Spec == Init /\ [][Next]_vars

-----------------------------------------------------------------------------
(* Properties *)

Phases == {"idle", "enter", "route", "leave", "done"}

TypeOK ==
    /\ route \in [Requests -> Routes \cup {None}]
    /\ phase \in [Requests -> Phases]
    /\ level \in [Requests -> Levels]
    /\ seen \in [Requests -> [Levels -> Requests \cup {None}]]
    /\ logger \in [Requests -> Requests \cup {None}]
    /\ left \in [Requests -> Requests \cup {None, "no task"}]
    /\ lines \subseteq Requests \X (Requests \cup {None})

\* Whatever is logged for a request, by its handler or by a task that outlives
\* it, while others are served, tells that request and no other.
LinesTellTheirRequest == \A l \in lines : l[2] = l[1]

\* Where contexts are: a request sees its own or none, and from the moment its
\* handler runs, its own with its logger set, as do the tasks it leaves.
ContextsRight ==
    \A r \in Requests :
        /\ \A i \in Levels : seen[r][i] \in {None, r}
        /\ phase[r] = "idle" => level[r] = 0
        /\ phase[r] = "enter" => level[r] < Depth /\ (level[r] > 0 => Here(r) = r)
        /\ phase[r] = "route" => Here(r) = r /\ logger[r] = r
        /\ left[r] # "no task" => left[r] = r /\ logger[r] = r

\* TypeOK and what it takes for LinesTellTheirRequest to be inductive.
Inv == TypeOK /\ ContextsRight /\ LinesTellTheirRequest

\* The trace of a request has the status the client was answered, and the
\* exception when one came out; a probe has no trace.
SpanTellsAnswer ==
    \A r \in Requests :
        phase[r] = "done" =>
            IF route[r] = "probe" THEN span[r] = NoSpan
            ELSE span[r] = [open |-> FALSE, status |-> response[r], error |-> raised[r]]

\* An exception that no handler caught is logged for its request before the
\* client is answered 500.
FailuresLogged ==
    \A r \in Requests :
        phase[r] = "done" /\ raised[r] # None => <<r, r>> \in lines /\ response[r] = 500

\* The trace a request has so far: not begun, open while the request is inside
\* of the tracing middleware, or recorded.
SpanDue(r) ==
    IF phase[r] = "idle" \/ route[r] = "probe" \/ (phase[r] = "enter" /\ level[r] < 2) THEN NoSpan
    ELSE IF level[r] >= 2 THEN [NoSpan EXCEPT !.open = TRUE]
    ELSE ClosedSpan(NoSpan, response[r], raised[r])

\* What is known of a request at every stage of it.
TraceOf(r) ==
    /\ phase[r] # "idle" => route[r] \in Routes
    /\ phase[r] \in {"idle", "enter", "route"} => raised[r] = None
    /\ phase[r] = "route" => level[r] = Depth
    /\ phase[r] = "leave" => (raised[r] = None <=> response[r] # None)
    /\ phase[r] = "done" => level[r] = 0 /\ response[r] # None /\ (raised[r] # None => response[r] = 500)
    /\ phase[r] \in {"leave", "done"} /\ level[r] < Depth /\ raised[r] # None => <<r, r>> \in lines
    /\ span[r] = SpanDue(r)

\* What it takes for SpanTellsAnswer and FailuresLogged to be inductive.
TracesRight ==
    /\ span \in [Requests -> [open : BOOLEAN, status : Statuses \cup {None}, error : Errors \cup {None}]]
    /\ raised \in [Requests -> Errors \cup {None}]
    /\ response \in [Requests -> Statuses \cup {None}]
    /\ \A r \in Requests : TraceOf(r)

\* errors that tell the client what is wrong with its request
Refusals == ({e \in Errors : IsA(e, "BulkError")} \ {"BulkUploadError"})
              \cup {"ComputationRunningError", "BulkCatalogNotFoundError", "StatisticsNotFoundError",
                    "RequestedCurvesError", "ComputationNotCompleteError"}

\* The refusals that no clause of their route catches: the client gets a 500.
Overlooked ==
    {<<"commit", "BulkCaseNotSupportedError">>, <<"read", "BulkUnprocessableError">>,
     <<"trigger", "BulkCatalogNotFoundError">>}

\* A refusal is answered by its handler, with a status of its own: these are the
\* only ones that come out as failures of the worker.
OnlyTheseEscape ==
    \A r \in Requests : raised[r] \in Refusals => <<route[r], raised[r]>> \in Overlooked

\* What comes out of a handler is an error raised under it that no clause catches.
RaisedByHandler ==
    \A r \in Requests : raised[r] # None =>
        \E e \in Raises[route[r]] : raised[r] = Mapped(route[r], e) /\ ClauseFor(route[r], raised[r]) = 0
=============================================================================

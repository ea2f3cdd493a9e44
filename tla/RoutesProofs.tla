---------------------------- MODULE RoutesProofs ----------------------------
(***************************************************************************)
(* Proof that what is logged and traced for a request tells that request   *)
(* and its answer, for any number of requests at once, and of which errors *)
(* come out of the handlers.                                               *)
(***************************************************************************)
EXTENDS Routes, TLAPS

\* What add_middlewares_to_app builds.
LEMMA StackIs ==
    /\ Stack[1] = "context" /\ Stack[2] = "tracing" /\ Stack[3] = "logging"
BY DEF Stack, Reverse, Added

LEMMA LevelsIs == Depth = 3 /\ Levels = 0 .. 3
BY DEF Levels, Depth, Stack, Reverse, Added

LEMMA InitInv == Init => Inv
<1>. SUFFICES ASSUME Init PROVE Inv  OBVIOUS
<1>1. 0 \in Levels
  BY LevelsIs
<1>2. [i \in Levels |-> None] \in [Levels -> Requests \cup {None}]
  OBVIOUS
<1>3. seen \in [Requests -> [Levels -> Requests \cup {None}]]
  BY <1>2 DEF Init
<1>4. left \in [Requests -> Requests \cup {None, "no task"}]
  BY DEF Init
<1>5. level \in [Requests -> Levels]
  BY <1>1 DEF Init
<1>6. /\ route \in [Requests -> Routes \cup {None}]
      /\ phase \in [Requests -> Phases]
      /\ logger \in [Requests -> Requests \cup {None}]
  BY DEF Init, Phases
<1>7. lines \subseteq Requests \X (Requests \cup {None})
  BY DEF Init
<1>8. TypeOK
  BY <1>3, <1>4, <1>5, <1>6, <1>7 DEF TypeOK
<1>9. ASSUME NEW r \in Requests
      PROVE  /\ \A i \in Levels : seen[r][i] \in {None, r}
             /\ phase[r] = "idle" /\ level[r] = 0 /\ left[r] = "no task"
  BY DEF Init
<1>10. ContextsRight
  BY <1>9 DEF ContextsRight
<1>11. LinesTellTheirRequest
  BY DEF Init, LinesTellTheirRequest
<1>. QED  BY <1>8, <1>10, <1>11 DEF Inv

\* The way in: each middleware hands what it sees to the next.
LEMMA EnterInv ==
    ASSUME Inv, NEW r \in Requests, Enter(r)
    PROVE  Inv'
<1>1. phase[r] = "enter"
  BY DEF Enter, EnterContext, EnterTracing, EnterLogging, Entering
<1>2. level[r] \in Levels /\ level[r] + 1 \in Levels
  <2>1. level[r] \in Levels /\ level[r] < Depth
    BY <1>1 DEF Inv, TypeOK, ContextsRight
  <2>. QED  BY <2>1, LevelsIs
<1>3. /\ level' = [level EXCEPT ![r] = @ + 1]
      /\ phase' = [phase EXCEPT ![r] = IF level[r] + 1 = Depth THEN "route" ELSE "enter"]
      /\ UNCHANGED <<route, left, lines>>
  BY DEF Enter, EnterContext, EnterTracing, EnterLogging, Descend
<1>4. EnterTracing(r) \/ EnterLogging(r) => Here(r) = r
  <2>1. EnterTracing(r) \/ EnterLogging(r) => Stack[level[r] + 1] # "context"
    BY DEF EnterTracing, EnterLogging, Entering
  <2>2. EnterTracing(r) \/ EnterLogging(r) => level[r] > 0
    BY <2>1, <1>2, LevelsIs, StackIs
  <2>. QED  BY <2>2, <1>1 DEF Inv, ContextsRight
<1>5. seen' = [seen EXCEPT ![r] = [i \in Levels |-> IF i > level[r] THEN r ELSE @[i]]]
  BY <1>4 DEF Enter, EnterContext, EnterTracing, EnterLogging, Descend
<1>6. \/ logger' = logger /\ ~EnterLogging(r)
      \/ logger' = [logger EXCEPT ![r] = r]
  <2>1. CASE EnterLogging(r)
    BY <2>1, <1>4, RoutesAssumption DEF EnterLogging
  <2>2. CASE ~EnterLogging(r)
    BY <2>2 DEF Enter, EnterContext, EnterTracing
  <2>. QED  BY <2>1, <2>2
<1>7. level[r] + 1 = Depth => EnterLogging(r)
  <2>1. level[r] + 1 = Depth => Stack[level[r] + 1] = "logging"
    BY <1>2, LevelsIs, StackIs
  <2>. QED  BY <2>1 DEF Enter, EnterContext, EnterTracing, Entering
<1>8. TypeOK'
  <2>1. seen' \in [Requests -> [Levels -> Requests \cup {None}]]
    <3>1. seen[r] \in [Levels -> Requests \cup {None}]
      BY DEF Inv, TypeOK
    <3>2. [i \in Levels |-> IF i > level[r] THEN r ELSE seen[r][i]] \in [Levels -> Requests \cup {None}]
      BY <3>1
    <3>. QED  BY <3>2, <1>5 DEF Inv, TypeOK
  <2>2. logger' \in [Requests -> Requests \cup {None}]
    BY <1>6 DEF Inv, TypeOK
  <2>3. level' \in [Requests -> Levels]
    BY <1>2, <1>3 DEF Inv, TypeOK
  <2>4. phase' \in [Requests -> Phases]
    BY <1>3 DEF Inv, TypeOK, Phases
  <2>. QED  BY <1>3, <2>1, <2>2, <2>3, <2>4 DEF Inv, TypeOK
<1>9. ContextsRight'
  <2>. SUFFICES ASSUME NEW q \in Requests
       PROVE  /\ \A i \in Levels : seen'[q][i] \in {None, q}
              /\ phase'[q] = "idle" => level'[q] = 0
              /\ phase'[q] = "enter" => level'[q] < Depth /\ (level'[q] > 0 => seen'[q][level'[q]] = q)
              /\ phase'[q] = "route" => seen'[q][level'[q]] = q /\ logger'[q] = q
              /\ left'[q] # "no task" => left'[q] = q /\ logger'[q] = q
    BY DEF ContextsRight, Here
  <2>1. logger[q] = q => logger'[q] = q
    BY <1>6 DEF Inv, TypeOK
  <2>2. left'[q] # "no task" => left'[q] = q /\ logger'[q] = q
    BY <2>1, <1>3 DEF Inv, ContextsRight
  <2>3. CASE q # r
    <3>1. /\ seen'[q] = seen[q] /\ level'[q] = level[q] /\ phase'[q] = phase[q]
      BY <2>3, <1>3, <1>5 DEF Inv, TypeOK
    <3>. QED  BY <3>1, <2>1, <2>2 DEF Inv, ContextsRight, Here
  <2>4. CASE q = r
    <3>1. \A i \in Levels : seen'[r][i] = IF i > level[r] THEN r ELSE seen[r][i]
      BY <1>5 DEF Inv, TypeOK
    <3>2. level'[r] = level[r] + 1 /\ phase'[r] = IF level[r] + 1 = Depth THEN "route" ELSE "enter"
      BY <1>3 DEF Inv, TypeOK
    <3>3. level[r] + 1 = Depth => logger'[r] = r
      BY <1>6, <1>7 DEF Inv, TypeOK
    <3>4. seen'[r][level'[r]] = r
      BY <3>1, <3>2, <1>2, LevelsIs
    <3>5. \A i \in Levels : seen'[r][i] \in {None, r}
      BY <3>1 DEF Inv, ContextsRight
    <3>6. level[r] + 1 # Depth => level'[r] < Depth
      BY <3>2, <1>2, LevelsIs
    <3>. QED  BY <2>4, <2>2, <3>2, <3>3, <3>4, <3>5, <3>6
  <2>. QED  BY <2>3, <2>4
<1>. QED  BY <1>3, <1>8, <1>9 DEF Inv, LinesTellTheirRequest

\* What is logged where the own context is seen, with its logger set.
LEMMA OwnLine ==
    ASSUME NEW r \in Requests, logger[r] = r, Log(r, r)
    PROVE  lines' = lines \cup {<<r, r>>}
BY RoutesAssumption DEF Log, LoggerIn

LEMMA OwnLineKeeps ==
    ASSUME lines \subseteq Requests \X (Requests \cup {None}), LinesTellTheirRequest,
           NEW r \in Requests, lines' = lines \/ lines' = lines \cup {<<r, r>>}
    PROVE  lines' \subseteq Requests \X (Requests \cup {None}) /\ LinesTellTheirRequest'
<1>1. <<r, r>> \in Requests \X (Requests \cup {None}) /\ <<r, r>>[2] = <<r, r>>[1]
  OBVIOUS
<1>2. ASSUME NEW l \in lines'
      PROVE  l \in lines \/ l = <<r, r>>
  OBVIOUS
<1>3. ASSUME NEW l \in lines'
      PROVE  l \in Requests \X (Requests \cup {None}) /\ l[2] = l[1]
  BY <1>1, <1>2, Zenon DEF LinesTellTheirRequest
<1>. QED  BY <1>3, Zenon DEF LinesTellTheirRequest

\* The steps that change nothing ContextsRight is about, but for the task of a
\* request that is seen by its handler, and at most add an own line.
LEMMA KeptInv ==
    ASSUME Inv, NEW r \in Requests,
           UNCHANGED <<level, seen, logger>>,
           route' = route, phase' \in [Requests -> Phases],
           \A q \in Requests : phase'[q] \in {phase[q], "leave", "done"},
           left' = left \/ left' = [left EXCEPT ![r] = "no task"]
              \/ (left' = [left EXCEPT ![r] = r] /\ logger[r] = r),
           lines' = lines \/ lines' = lines \cup {<<r, r>>}
    PROVE  Inv'
<1>1. left' \in [Requests -> Requests \cup {None, "no task"}]
  BY DEF Inv, TypeOK
<1>2. lines' \subseteq Requests \X (Requests \cup {None}) /\ LinesTellTheirRequest'
  BY OwnLineKeeps DEF Inv, TypeOK
<1>3. TypeOK'
  BY <1>1, <1>2 DEF Inv, TypeOK
<1>4. ASSUME NEW q \in Requests
      PROVE  left'[q] # "no task" => left'[q] = q /\ logger[q] = q
  BY DEF Inv, TypeOK, ContextsRight
<1>5. ContextsRight'
  <2>. SUFFICES ASSUME NEW q \in Requests
       PROVE  /\ \A i \in Levels : seen[q][i] \in {None, q}
              /\ phase'[q] = "idle" => level[q] = 0
              /\ phase'[q] = "enter" => level[q] < Depth /\ (level[q] > 0 => seen[q][level[q]] = q)
              /\ phase'[q] = "route" => seen[q][level[q]] = q /\ logger[q] = q
              /\ left'[q] # "no task" => left'[q] = q /\ logger[q] = q
    BY DEF ContextsRight, Here
  <2>1. phase'[q] \in {"idle", "enter", "route"} => phase'[q] = phase[q]
    OBVIOUS
  <2>. QED  BY <2>1, <1>4 DEF Inv, ContextsRight, Here
<1>. QED  BY <1>2, <1>3, <1>5 DEF Inv

LEMMA HandleInv ==
    ASSUME Inv, NEW r \in Requests, phase[r] = "route", Handle(r)
    PROVE  Inv'
<1>1. Here(r) = r /\ logger[r] = r
  BY DEF Inv, ContextsRight
<1>2. phase \in [Requests -> Phases]
  BY DEF Inv, TypeOK
<1>3. CASE HandlerLogs(r)
  <2>1. lines' = lines \cup {<<r, r>>}
    BY <1>1, <1>3, OwnLine DEF HandlerLogs
  <2>. QED  BY <1>2, <1>3, <2>1, KeptInv DEF HandlerLogs
<1>4. CASE LeaveTask(r)
  BY <1>1, <1>2, <1>4, KeptInv DEF LeaveTask
<1>5. CASE \E outcome \in Outcomes(route[r]) : Return(r, outcome)
  <2>1. phase' = [phase EXCEPT ![r] = "leave"]
    BY <1>5 DEF Return
  <2>2. phase' \in [Requests -> Phases] /\ \A q \in Requests : phase'[q] \in {phase[q], "leave", "done"}
    BY <1>2, <2>1 DEF Phases
  <2>3. UNCHANGED <<level, seen, logger, route, left, lines>>
    BY <1>5 DEF Return
  <2>. QED  BY <2>2, <2>3, KeptInv
<1>. QED  BY <1>3, <1>4, <1>5 DEF Handle

LEMMA TaskLogsInv ==
    ASSUME Inv, NEW r \in Requests, TaskLogs(r)
    PROVE  Inv'
<1>1. left[r] = r /\ logger[r] = r
  BY DEF TaskLogs, Inv, ContextsRight
<1>2. lines' = lines \cup {<<r, r>>}
  BY <1>1, OwnLine DEF TaskLogs
<1>3. phase \in [Requests -> Phases]
  BY DEF Inv, TypeOK
<1>. QED  BY <1>2, <1>3, KeptInv DEF TaskLogs

\* The way out: what is logged is logged by the logger made on the way in.
LEMMA LeaveInv ==
    ASSUME Inv, NEW r \in Requests, Leave(r)
    PROVE  Inv'
<1>1. CASE Answer(r)
  <2>1. phase' = [phase EXCEPT ![r] = "done"] /\ phase \in [Requests -> Phases]
    BY <1>1 DEF Answer, Inv, TypeOK
  <2>2. phase' \in [Requests -> Phases] /\ \A q \in Requests : phase'[q] \in {phase[q], "leave", "done"}
    BY <2>1 DEF Phases
  <2>3. UNCHANGED <<level, seen, logger, route, left, lines>>
    BY <1>1 DEF Answer
  <2>. QED  BY <2>2, <2>3, KeptInv
<1>2. CASE LeaveContext(r) \/ LeaveTracing(r) \/ LeaveLogging(r)
  <2>1. phase[r] = "leave" /\ level[r] > 0
    BY <1>2 DEF LeaveContext, LeaveTracing, LeaveLogging, Leaving
  <2>2. level[r] - 1 \in Levels
    <3>1. level[r] \in Levels
      BY DEF Inv, TypeOK
    <3>. QED  BY <3>1, <2>1, LevelsIs
  <2>3. level' = [level EXCEPT ![r] = @ - 1] /\ UNCHANGED <<route, phase, logger, left>>
    BY <1>2 DEF LeaveContext, LeaveTracing, LeaveLogging, Ascend
  <2>4. seen' = seen \/ seen' = [seen EXCEPT ![r][level[r] - 1] = None]
    BY <1>2 DEF LeaveContext, LeaveTracing, LeaveLogging
  <2>5. lines' = lines \/ lines' = lines \cup {<<r, r>>}
    BY <1>2 DEF LeaveContext, LeaveTracing, LeaveLogging, LoggedError
  <2>6. TypeOK'
    <3>1. seen' \in [Requests -> [Levels -> Requests \cup {None}]]
      <4>1. seen \in [Requests -> [Levels -> Requests \cup {None}]]
        BY DEF Inv, TypeOK
      <4>2. [seen[r] EXCEPT ![level[r] - 1] = None] \in [Levels -> Requests \cup {None}]
        BY <4>1, <2>2
      <4>. QED  BY <4>1, <4>2, <2>4
    <3>2. level' \in [Requests -> Levels]
      BY <2>2, <2>3 DEF Inv, TypeOK
    <3>3. lines' \subseteq Requests \X (Requests \cup {None})
      BY <2>5, OwnLineKeeps DEF Inv, TypeOK
    <3>. QED  BY <2>3, <3>1, <3>2, <3>3 DEF Inv, TypeOK
  <2>7. ContextsRight'
    <3>. SUFFICES ASSUME NEW q \in Requests
         PROVE  /\ \A i \in Levels : seen'[q][i] \in {None, q}
                /\ phase[q] = "idle" => level'[q] = 0
                /\ phase[q] = "enter" => level'[q] < Depth /\ (level'[q] > 0 => seen'[q][level'[q]] = q)
                /\ phase[q] = "route" => seen'[q][level'[q]] = q /\ logger[q] = q
                /\ left[q] # "no task" => left[q] = q /\ logger[q] = q
      BY <2>3 DEF ContextsRight, Here
    <3>1. \A i \in Levels : seen'[q][i] \in {None, seen[q][i]}
      <4>1. seen[r] \in [Levels -> Requests \cup {None}] /\ seen \in [Requests -> [Levels -> Requests \cup {None}]]
        BY DEF Inv, TypeOK
      <4>2. seen'[q] \in {seen[q], [seen[q] EXCEPT ![level[r] - 1] = None]}
        BY <4>1, <2>4
      <4>. QED  BY <4>1, <4>2
    <3>2. q # r => seen'[q] = seen[q] /\ level'[q] = level[q]
      BY <2>3, <2>4 DEF Inv, TypeOK
    <3>3. q = r => phase[q] = "leave"
      BY <2>1
    <3>. QED  BY <3>1, <3>2, <3>3 DEF Inv, ContextsRight, Here
  <2>8. LinesTellTheirRequest'
    BY <2>5, OwnLineKeeps DEF Inv, TypeOK
  <2>. QED  BY <2>6, <2>7, <2>8 DEF Inv
<1>. QED  BY <1>1, <1>2 DEF Leave

LEMMA ReceiveInv ==
    ASSUME Inv, NEW r \in Requests, NEW rt \in Routes, Receive(r, rt)
    PROVE  Inv'
<1>1. /\ phase[r] = "idle" /\ phase' = [phase EXCEPT ![r] = "enter"]
      /\ route' = [route EXCEPT ![r] = rt]
      /\ UNCHANGED <<level, seen, logger, left, lines>>
  BY DEF Receive
<1>2. TypeOK'
  <2>1. phase' \in [Requests -> Phases]
    BY <1>1 DEF Inv, TypeOK, Phases
  <2>2. route' \in [Requests -> Routes \cup {None}]
    BY <1>1 DEF Inv, TypeOK
  <2>. QED  BY <1>1, <2>1, <2>2 DEF Inv, TypeOK
<1>3. level[r] = 0
  BY <1>1 DEF Inv, ContextsRight
<1>4. 0 < Depth
  BY LevelsIs
<1>5. ContextsRight'
  <2>. SUFFICES ASSUME NEW q \in Requests
       PROVE  /\ \A i \in Levels : seen[q][i] \in {None, q}
              /\ phase'[q] = "idle" => level[q] = 0
              /\ phase'[q] = "enter" => level[q] < Depth /\ (level[q] > 0 => seen[q][level[q]] = q)
              /\ phase'[q] = "route" => seen[q][level[q]] = q /\ logger[q] = q
              /\ left[q] # "no task" => left[q] = q /\ logger[q] = q
    BY <1>1 DEF ContextsRight, Here
  <2>1. phase'[q] = IF q = r THEN "enter" ELSE phase[q]
    BY <1>1 DEF Inv, TypeOK
  <2>2. \A i \in Levels : seen[q][i] \in {None, q}
    BY DEF Inv, ContextsRight
  <2>3. left[q] # "no task" => left[q] = q /\ logger[q] = q
    BY DEF Inv, ContextsRight
  <2>4. CASE q = r
    <3>1. phase'[q] = "enter" /\ level[q] < Depth /\ ~(level[q] > 0)
      BY <2>1, <2>4, <1>3, <1>4
    <3>. QED  BY <2>2, <2>3, <3>1
  <2>5. CASE q # r
    BY <2>1, <2>2, <2>3, <2>5 DEF Inv, ContextsRight, Here
  <2>. QED  BY <2>4, <2>5
<1>. QED  BY <1>1, <1>2, <1>5 DEF Inv, LinesTellTheirRequest

\* Inv of Routes: it holds initially and every step keeps it.
THEOREM Invariance == Spec => []Inv
<1>1. Init => Inv
  BY InitInv
<1>2. Inv /\ [Next]_vars => Inv'
  <2>. SUFFICES ASSUME Inv, [Next]_vars PROVE Inv'  OBVIOUS
  <2>1. ASSUME NEW r \in Requests, NEW rt \in Routes, Receive(r, rt)
        PROVE  Inv'
    BY <2>1, ReceiveInv
  <2>2. ASSUME NEW r \in Requests, Enter(r)
        PROVE  Inv'
    BY <2>2, EnterInv
  <2>3. ASSUME NEW r \in Requests, Leave(r)
        PROVE  Inv'
    BY <2>3, LeaveInv
  <2>4. ASSUME NEW r \in Requests, TaskLogs(r)
        PROVE  Inv'
    BY <2>4, TaskLogsInv
  <2>5. ASSUME NEW r \in Requests, phase[r] = "route", Handle(r)
        PROVE  Inv'
    BY <2>5, HandleInv
  <2>6. CASE UNCHANGED vars
    BY <2>6 DEF vars, Inv, TypeOK, ContextsRight, LinesTellTheirRequest, Here
  <2>. QED  BY <2>1, <2>2, <2>3, <2>4, <2>5, <2>6 DEF Next
<1>. QED  BY <1>1, <1>2, PTL DEF Spec

\* LinesTellTheirRequest, for any number of requests: a handler, a middleware or
\* a task left behind logs with the logger of its own request.
THEOREM LinesProved == Spec => []LinesTellTheirRequest
<1>1. Inv => LinesTellTheirRequest
  BY DEF Inv
<1>. QED  BY <1>1, Invariance, PTL

-----------------------------------------------------------------------------
(* What handlers answer *)

\* The classes an error is of.
LEMMA IsAIs ==
    ASSUME NEW e \in Errors, NEW class
    PROVE  IsA(e, class) <=> \/ class = e
                             \/ e \in BulkErrors /\ class \in {"BulkError", "Exception"}
                             \/ e \in LimitErrors /\ class \in {"LimitExceededError", "BulkError"}
                             \/ e \in OtherErrors /\ class = "Exception"
<1>1. /\ e \in BulkErrors => Base[e] = "BulkError"
      /\ e \in LimitErrors => Base[e] = "LimitExceededError"
      /\ e \in OtherErrors => Base[e] = "Exception"
  BY DEF Base, Errors, BulkErrors, LimitErrors, OtherErrors
<1>2. /\ "BulkError" \in Errors /\ Base["BulkError"] = "Exception"
      /\ "LimitExceededError" \in Errors /\ Base["LimitExceededError"] = "BulkError"
      /\ "Exception" \notin Errors
  BY DEF Base, Errors, BulkErrors, LimitErrors, OtherErrors
<1>. QED  BY <1>1, <1>2 DEF IsA, Errors

\* The clauses of each handler.
LEMMA PostChunkClauses ==
    Clauses["post_chunk"] = <<Except({"BulkValidationError", "BulkUnprocessableError"}, 422),
                               Except({"TooManyValuesError", "TooManyColumnsError"}, 413)>>
BY DEF Clauses, Routes

LEMMA PostWholeClauses ==
    Clauses["post_whole"] = <<Except({"BulkUnprocessableError"}, 422),
                               Except({"BulkValidationError"}, 422),
                               Except({"TooManyValuesError", "TooManyColumnsError"}, 413),
                               Except({"BulkUploadError"}, 500)>>
BY ZenonT(180) DEF Clauses, Routes

LEMMA CommitClauses ==
    Clauses["commit"] = <<Except({"TooManyConflictsToResolve"}, 413),
                           Except({"BulkCommitNoDataError"}, 422),
                           Except({"BulkValidationError"}, 422)>>
BY DEF Clauses, Routes

LEMMA ReadClauses ==
    Clauses["read"] = <<Except({"BulkCaseNotSupportedError"}, 412),
                         Except({"CurvesNotFoundError"}, 404),
                         Except({"LimitExceededError"}, 413),
                         Except({"InvalidParameterError", "FilteringError"}, 400)>>
BY ZenonT(180) DEF Clauses, Routes

LEMMA TriggerClauses == Clauses["trigger"] = <<Except({"ComputationRunningError"}, 409)>>
BY DEF Clauses, Routes

LEMMA StatisticsClauses ==
    Clauses["statistics"] = <<Except({"BulkCatalogNotFoundError"}, 412),
                               Except({"StatisticsNotFoundError", "RequestedCurvesError", "ComputationNotCompleteError"}, 404)>>
BY DEF Clauses, Routes

LEMMA ProbeClauses == Clauses["probe"] = <<>>
BY DEF Clauses, Routes

\* Every clause of a handler is one of up to four, and answers a status.
LEMMA ClausesAre ==
    ASSUME NEW rt \in Routes
    PROVE  /\ Len(Clauses[rt]) \in 0 .. 4
           /\ \A k \in 1 .. Len(Clauses[rt]) : Clauses[rt][k].status \in Statuses
<1>0. /\ {409, 412, 413, 422, 404, 400, 500} \subseteq Statuses
      /\ \A classes, status : Except(classes, status).status = status
  BY DEF Statuses, Except
<1>1. CASE rt = "post_chunk"
  <2>1. Len(Clauses[rt]) = 2 /\ \A k \in 1 .. 2 : k = 1 \/ k = 2
    BY <1>1, PostChunkClauses
  <2>2. Clauses[rt][1].status \in Statuses
    BY <1>0, <1>1, PostChunkClauses
  <2>3. Clauses[rt][2].status \in Statuses
    BY <1>0, <1>1, PostChunkClauses
  <2>. QED  BY <2>1, <2>2, <2>3
<1>2. CASE rt = "post_whole"
  <2>1. Len(Clauses[rt]) = 4 /\ \A k \in 1 .. 4 : k = 1 \/ k = 2 \/ k = 3 \/ k = 4
    BY <1>2, PostWholeClauses
  <2>2. Clauses[rt][1].status \in Statuses
    BY <1>0, <1>2, PostWholeClauses
  <2>3. Clauses[rt][2].status \in Statuses
    BY <1>0, <1>2, PostWholeClauses
  <2>4. Clauses[rt][3].status \in Statuses
    BY <1>0, <1>2, PostWholeClauses
  <2>5. Clauses[rt][4].status \in Statuses
    BY <1>0, <1>2, PostWholeClauses
  <2>. QED  BY <2>1, <2>2, <2>3, <2>4, <2>5
<1>3. CASE rt = "commit"
  <2>1. Len(Clauses[rt]) = 3 /\ \A k \in 1 .. 3 : k = 1 \/ k = 2 \/ k = 3
    BY <1>3, CommitClauses
  <2>2. Clauses[rt][1].status \in Statuses
    BY <1>0, <1>3, CommitClauses
  <2>3. Clauses[rt][2].status \in Statuses
    BY <1>0, <1>3, CommitClauses
  <2>4. Clauses[rt][3].status \in Statuses
    BY <1>0, <1>3, CommitClauses
  <2>. QED  BY <2>1, <2>2, <2>3, <2>4
<1>4. CASE rt = "read"
  <2>1. Len(Clauses[rt]) = 4 /\ \A k \in 1 .. 4 : k = 1 \/ k = 2 \/ k = 3 \/ k = 4
    BY <1>4, ReadClauses
  <2>2. Clauses[rt][1].status \in Statuses
    BY <1>0, <1>4, ReadClauses
  <2>3. Clauses[rt][2].status \in Statuses
    BY <1>0, <1>4, ReadClauses
  <2>4. Clauses[rt][3].status \in Statuses
    BY <1>0, <1>4, ReadClauses
  <2>5. Clauses[rt][4].status \in Statuses
    BY <1>0, <1>4, ReadClauses
  <2>. QED  BY <2>1, <2>2, <2>3, <2>4, <2>5
<1>5. CASE rt = "trigger"
  <2>1. Len(Clauses[rt]) = 1 /\ \A k \in 1 .. 1 : k = 1
    BY <1>5, TriggerClauses
  <2>2. Clauses[rt][1].status \in Statuses
    BY <1>0, <1>5, TriggerClauses
  <2>. QED  BY <2>1, <2>2
<1>6. CASE rt = "statistics"
  <2>1. Len(Clauses[rt]) = 2 /\ \A k \in 1 .. 2 : k = 1 \/ k = 2
    BY <1>6, StatisticsClauses
  <2>2. Clauses[rt][1].status \in Statuses
    BY <1>0, <1>6, StatisticsClauses
  <2>3. Clauses[rt][2].status \in Statuses
    BY <1>0, <1>6, StatisticsClauses
  <2>. QED  BY <2>1, <2>2, <2>3
<1>7. CASE rt = "probe"
  BY <1>7, ProbeClauses
<1>. QED  BY <1>1, <1>2, <1>3, <1>4, <1>5, <1>6, <1>7 DEF Routes

\* A set of positions in a list of up to four has a first.
LEMMA FirstOfFour ==
    ASSUME NEW I, I \subseteq 1 .. 4, I # {}
    PROVE  Min(I) \in I
<1>1. \E x \in I : \A y \in I : x =< y
  <2>1. \A k \in I : k = 1 \/ k = 2 \/ k = 3 \/ k = 4
    OBVIOUS
  <2>2. CASE 1 \in I
    BY <2>2
  <2>3. CASE 1 \notin I /\ 2 \in I
    BY <2>3
  <2>4. CASE 1 \notin I /\ 2 \notin I /\ 3 \in I
    BY <2>4
  <2>5. CASE 1 \notin I /\ 2 \notin I /\ 3 \notin I
    <3>1. 4 \in I /\ \A k \in I : k = 4
      BY <2>1, <2>5
    <3>. QED  BY <3>1
  <2>. QED  BY <2>2, <2>3, <2>4, <2>5
<1>. QED  BY <1>1 DEF Min

\* The clause for an error catches it; without one, none does.
LEMMA ClauseForIs ==
    ASSUME NEW rt \in Routes, NEW e
    PROVE  \/ /\ ClauseFor(rt, e) \in 1 .. Len(Clauses[rt])
              /\ Catches(Clauses[rt][ClauseFor(rt, e)], e)
           \/ /\ ClauseFor(rt, e) = 0
              /\ \A k \in 1 .. Len(Clauses[rt]) : ~ Catches(Clauses[rt][k], e)
<1>. DEFINE I == {k \in 1 .. Len(Clauses[rt]) : Catches(Clauses[rt][k], e)}
<1>1. ClauseFor(rt, e) = IF I # {} THEN Min(I) ELSE 0
  BY DEF ClauseFor, SelectInSeq
<1>2. I \subseteq 1 .. 4
  BY ClausesAre
<1>3. I # {} => Min(I) \in I
  BY <1>2, FirstOfFour
<1>. HIDE DEF I
<1>4. CASE I = {}
  BY <1>1, <1>4 DEF I
<1>5. CASE I # {}
  BY <1>1, <1>3, <1>5 DEF I
<1>. QED  BY <1>4, <1>5

\* An error of the storage is mapped to one of the service, or left as it is.
LEMMA MappedType ==
    ASSUME NEW rt \in Routes, NEW e \in Raises[rt]
    PROVE  e \in Errors /\ Mapped(rt, e) \in Errors
BY DEF Mapped, Raises, Routes, Errors, BulkErrors, LimitErrors, OtherErrors

\* A handler ends in a response or in an exception, not in both.
LEMMA OutcomesAre ==
    ASSUME NEW rt \in Routes, NEW o \in Outcomes(rt)
    PROVE  \/ o.error = None /\ o.status \in Statuses /\ o.status # None
           \/ /\ o.status = None /\ o.error # None
              /\ \E e \in Raises[rt] : /\ o.error = Mapped(rt, e)
                                       /\ ClauseFor(rt, o.error) = 0
<1>1. ASSUME NEW s \in Statuses, o = Response(s)
      PROVE  o.error = None /\ o.status \in Statuses /\ o.status # None
  BY <1>1, NoneAssumption DEF Response
<1>2. {200, 422, 500, 501} \subseteq Statuses
  BY DEF Statuses
<1>3. ASSUME NEW e \in Raises[rt], o = Handled(rt, e), ClauseFor(rt, Mapped(rt, e)) = 0
      PROVE  /\ o.status = None /\ o.error # None
             /\ o.error = Mapped(rt, e) /\ ClauseFor(rt, o.error) = 0
  <2>1. o = Uncaught(Mapped(rt, e))
    BY <1>3 DEF Handled
  <2>. QED  BY <2>1, <1>3, MappedType, NoneAssumption DEF Uncaught
<1>4. ASSUME NEW e \in Raises[rt], o = Handled(rt, e), ClauseFor(rt, Mapped(rt, e)) # 0
      PROVE  \E s \in Statuses : o = Response(s)
  <2>. DEFINE k == ClauseFor(rt, Mapped(rt, e))
  <2>1. k \in 1 .. Len(Clauses[rt])
    BY <1>4, ClauseForIs
  <2>2. Clauses[rt][k].status \in Statuses
    BY <2>1, ClausesAre
  <2>3. o = Response(Clauses[rt][k].status)
    BY <1>4 DEF Handled
  <2>. QED  BY <2>2, <2>3
<1>5. \/ o \in {Response(200), Response(422), Response(500), Response(501)}
      \/ \E e \in Raises[rt] : o = Handled(rt, e)
  BY DEF Outcomes
<1>. QED  BY <1>1, <1>2, <1>3, <1>4, <1>5

\* An error is caught by the clause that names it, or a class of it.
LEMMA NamedIsCaught ==
    ASSUME NEW rt \in Routes, NEW x, ClauseFor(rt, x) = 0, NEW k \in 1 .. Len(Clauses[rt]),
           NEW class \in Clauses[rt][k].classes
    PROVE  x # class /\ ~ IsA(x, class)
BY ClauseForIs DEF Catches, IsA

\* Errors that do not tell the client what is wrong with its request.
LEMMA NotRefusals ==
    ASSUME NEW x \in {"BulkUploadError", "ResourceNotFoundException", "StorageError", "ValueError"}
    PROVE  x \notin Refusals
<1>1. CASE x = "BulkUploadError"
  BY <1>1 DEF Refusals
<1>2. CASE x # "BulkUploadError"
  <2>1. x \in OtherErrors /\ x \in Errors /\ x \notin BulkErrors /\ x \notin LimitErrors /\ x # "BulkError"
    BY <1>2 DEF Errors, OtherErrors, BulkErrors, LimitErrors
  <2>2. ~ IsA(x, "BulkError")
    BY <2>1, IsAIs
  <2>. QED  BY <1>2, <2>2 DEF Refusals
<1>. QED  BY <1>1, <1>2

\* A refusal that no clause of its route catches is one of those overlooked.
LEMMA EscapesOverlooked ==
    ASSUME NEW rt \in Routes, NEW e \in Raises[rt], ClauseFor(rt, Mapped(rt, e)) = 0,
           Mapped(rt, e) \in Refusals
    PROVE  <<rt, Mapped(rt, e)>> \in Overlooked
<1>. DEFINE x == Mapped(rt, e)
<1>1. \A k \in 1 .. Len(Clauses[rt]) : \A class \in Clauses[rt][k].classes : x # class /\ ~ IsA(x, class)
  BY NamedIsCaught
<1>2. x \notin {"BulkUploadError", "ResourceNotFoundException", "StorageError", "ValueError"}
  BY NotRefusals
<1>3. rt # "read" => x = e
  BY DEF Mapped
<1>4. rt = "read" => x = IF e = "ResourceNotFoundException" THEN "CurvesNotFoundError" ELSE e
  BY DEF Mapped
<1>5. \A classes, status : Except(classes, status).classes = classes
  BY DEF Except
<1>. HIDE DEF x
<1>6. CASE rt = "post_chunk"
  <2>1. x \in {"BulkUnprocessableError", "BulkValidationError", "TooManyValuesError", "TooManyColumnsError"}
    BY <1>2, <1>3, <1>6 DEF Raises, Routes
  <2>2. /\ Len(Clauses[rt]) = 2
        /\ Clauses[rt][1].classes = {"BulkValidationError", "BulkUnprocessableError"}
        /\ Clauses[rt][2].classes = {"TooManyValuesError", "TooManyColumnsError"}
    BY <1>5, <1>6, PostChunkClauses
  <2>. QED  BY <1>1, <2>1, <2>2
<1>7. CASE rt = "post_whole"
  <2>1. x \in {"BulkUnprocessableError", "BulkValidationError", "TooManyValuesError", "TooManyColumnsError"}
    BY <1>2, <1>3, <1>7 DEF Raises, Routes
  <2>2. /\ Len(Clauses[rt]) = 4
        /\ Clauses[rt][1].classes = {"BulkUnprocessableError"}
        /\ Clauses[rt][2].classes = {"BulkValidationError"}
        /\ Clauses[rt][3].classes = {"TooManyValuesError", "TooManyColumnsError"}
    BY <1>5, <1>7, PostWholeClauses
  <2>. QED  BY <1>1, <2>1, <2>2
<1>8. CASE rt = "commit"
  <2>1. x \in {"BulkCommitNoDataError", "BulkValidationError", "TooManyConflictsToResolve", "BulkCaseNotSupportedError"}
    BY <1>2, <1>3, <1>8 DEF Raises, Routes
  <2>2. /\ Len(Clauses[rt]) = 3
        /\ Clauses[rt][1].classes = {"TooManyConflictsToResolve"}
        /\ Clauses[rt][2].classes = {"BulkCommitNoDataError"}
        /\ Clauses[rt][3].classes = {"BulkValidationError"}
    BY <1>5, <1>8, CommitClauses
  <2>3. x = "BulkCaseNotSupportedError"
    BY <1>1, <2>1, <2>2
  <2>. QED  BY <1>8, <2>3 DEF Overlooked, x
<1>9. CASE rt = "read"
  <2>1. x \in {"BulkCaseNotSupportedError", "CurvesNotFoundError", "TooManyValuesError",
               "TooManyColumnsError", "FilteringError", "BulkUnprocessableError"}
    BY <1>2, <1>4, <1>9 DEF Raises, Routes
  <2>2. /\ Len(Clauses[rt]) = 4
        /\ Clauses[rt][1].classes = {"BulkCaseNotSupportedError"}
        /\ Clauses[rt][2].classes = {"CurvesNotFoundError"}
        /\ Clauses[rt][3].classes = {"LimitExceededError"}
        /\ Clauses[rt][4].classes = {"InvalidParameterError", "FilteringError"}
    BY <1>5, <1>9, ReadClauses
  <2>3. \A y \in LimitErrors : y \in Errors /\ IsA(y, "LimitExceededError")
    BY IsAIs DEF Errors
  <2>4. x \notin {"TooManyValuesError", "TooManyColumnsError"}
    BY <1>1, <2>2, <2>3 DEF LimitErrors
  <2>5. x = "BulkUnprocessableError"
    BY <1>1, <2>1, <2>2, <2>4
  <2>. QED  BY <1>9, <2>5 DEF Overlooked, x
<1>10. CASE rt = "trigger"
  <2>1. x \in {"ComputationRunningError", "BulkCatalogNotFoundError"}
    BY <1>2, <1>3, <1>10 DEF Raises, Routes
  <2>2. Len(Clauses[rt]) = 1 /\ Clauses[rt][1].classes = {"ComputationRunningError"}
    BY <1>5, <1>10, TriggerClauses
  <2>3. x = "BulkCatalogNotFoundError"
    BY <1>1, <2>1, <2>2
  <2>. QED  BY <1>10, <2>3 DEF Overlooked, x
<1>11. CASE rt = "statistics"
  <2>1. x \in {"BulkCatalogNotFoundError", "StatisticsNotFoundError", "RequestedCurvesError",
               "ComputationNotCompleteError"}
    BY <1>2, <1>3, <1>11 DEF Raises, Routes
  <2>2. /\ Len(Clauses[rt]) = 2
        /\ Clauses[rt][1].classes = {"BulkCatalogNotFoundError"}
        /\ Clauses[rt][2].classes = {"StatisticsNotFoundError", "RequestedCurvesError",
                                     "ComputationNotCompleteError"}
    BY <1>5, <1>11, StatisticsClauses
  <2>. QED  BY <1>1, <2>1, <2>2
<1>12. CASE rt = "probe"
  BY <1>12 DEF Raises, Routes
<1>. QED  BY <1>6, <1>7, <1>8, <1>9, <1>10, <1>11, <1>12 DEF Routes

-----------------------------------------------------------------------------
(* What the trace of a request tells *)

\* All of it, as one invariant.
TracesInv == Inv /\ TracesRight /\ RaisedByHandler

\* What TracesInv says, part by part.
LEMMA TracesKnown ==
    ASSUME TracesInv
    PROVE  /\ route \in [Requests -> Routes \cup {None}]
           /\ phase \in [Requests -> Phases]
           /\ level \in [Requests -> 0 .. 3]
           /\ span \in [Requests -> [open : BOOLEAN, status : Statuses \cup {None}, error : Errors \cup {None}]]
           /\ raised \in [Requests -> Errors \cup {None}]
           /\ response \in [Requests -> Statuses \cup {None}]
           /\ \A r \in Requests : TraceOf(r)
BY LevelsIs DEF TracesInv, Inv, TypeOK, TracesRight

\* No request has a trace at first.
LEMMA InitTraces == Init => TracesRight /\ RaisedByHandler
<1>. SUFFICES ASSUME Init PROVE TracesRight /\ RaisedByHandler  OBVIOUS
<1>1. span \in [Requests -> [open : BOOLEAN, status : Statuses \cup {None}, error : Errors \cup {None}]]
  BY DEF Init, NoSpan
<1>2. /\ raised \in [Requests -> Errors \cup {None}]
      /\ response \in [Requests -> Statuses \cup {None}]
  BY DEF Init
<1>3. ASSUME NEW r \in Requests
      PROVE  phase[r] = "idle" /\ raised[r] = None /\ span[r] = NoSpan
  BY DEF Init
<1>4. TracesRight
  BY <1>1, <1>2, <1>3 DEF TracesRight, TraceOf, SpanDue
<1>. QED  BY <1>3, <1>4 DEF RaisedByHandler

\* A step of one request does nothing to the trace of another.
LEMMA TraceUntouched ==
    ASSUME NEW q, TraceOf(q), route'[q] = route[q], phase'[q] = phase[q], level'[q] = level[q],
           span'[q] = span[q], raised'[q] = raised[q], response'[q] = response[q],
           lines \subseteq lines'
    PROVE  TraceOf(q)'
BY DEF TraceOf, SpanDue, ClosedSpan, NoSpan

\* What RaisedByHandler says changes only when a handler returns.
LEMMA RaisedUntouched ==
    ASSUME RaisedByHandler, raised' = raised,
           \A q \in Requests : raised[q] # None => route'[q] = route[q]
    PROVE  RaisedByHandler'
BY DEF RaisedByHandler

LEMMA ReceiveTraces ==
    ASSUME TracesInv, NEW r \in Requests, NEW rt \in Routes, Receive(r, rt)
    PROVE  TracesRight' /\ RaisedByHandler'
<1>1. /\ phase[r] = "idle" /\ phase' = [phase EXCEPT ![r] = "enter"]
      /\ route' = [route EXCEPT ![r] = rt]
      /\ UNCHANGED <<level, span, raised, response, lines>>
  BY DEF Receive
<1>2. /\ level[r] = 0 /\ raised[r] = None /\ span[r] = NoSpan
  BY ZenonT(60), <1>1 DEF TracesInv, Inv, ContextsRight, TracesRight, TraceOf, SpanDue
<1>3. phase'[r] = "enter" /\ route'[r] = rt
  BY <1>1 DEF TracesInv, Inv, TypeOK
<1>4. \A q \in Requests : q # r => phase'[q] = phase[q] /\ route'[q] = route[q]
  BY <1>1 DEF TracesInv, Inv, TypeOK
<1>5. TraceOf(r)'
  BY <1>1, <1>2, <1>3 DEF TraceOf, SpanDue, NoSpan
<1>6. \A q \in Requests : TraceOf(q)'
  BY <1>1, <1>4, <1>5, TraceUntouched DEF TracesInv, TracesRight
<1>7. RaisedByHandler'
  BY <1>1, <1>2, <1>4, RaisedUntouched DEF TracesInv
<1>. QED  BY <1>1, <1>6, <1>7 DEF TracesInv, TracesRight

\* The trace is begun by the second middleware, unless the request is a probe.
LEMMA EnterTraces ==
    ASSUME TracesInv, NEW r \in Requests, Enter(r)
    PROVE  TracesRight' /\ RaisedByHandler'
<1>1. /\ phase[r] = "enter" /\ level[r] \in {0, 1, 2}
  <2>1. phase[r] = "enter"
    BY DEF Enter, EnterContext, EnterTracing, EnterLogging, Entering
  <2>2. level[r] \in Levels /\ level[r] < Depth
    BY <2>1 DEF TracesInv, Inv, TypeOK, ContextsRight
  <2>. QED  BY <2>1, <2>2, LevelsIs
<1>2. /\ level' = [level EXCEPT ![r] = @ + 1]
      /\ phase' = [phase EXCEPT ![r] = IF level[r] + 1 = Depth THEN "route" ELSE "enter"]
      /\ UNCHANGED <<route, raised, response, lines>>
  BY DEF Enter, EnterContext, EnterTracing, EnterLogging, Descend
<1>3. level'[r] = level[r] + 1 /\ phase'[r] = IF level[r] + 1 = Depth THEN "route" ELSE "enter"
  BY <1>2 DEF TracesInv, Inv, TypeOK
<1>4. raised[r] = None /\ route[r] \in Routes /\ span[r] = SpanDue(r)
  BY <1>1 DEF TracesInv, TracesRight, TraceOf
<1>5. span' = IF level[r] = 1 THEN [span EXCEPT ![r].open = route[r] # "probe"] ELSE span
  <2>1. CASE EnterContext(r)
    BY <2>1, <1>1, StackIs DEF EnterContext, Entering
  <2>2. CASE EnterTracing(r)
    BY <2>2, <1>1, StackIs DEF EnterTracing, Entering
  <2>3. CASE EnterLogging(r)
    BY <2>3, <1>1, StackIs DEF EnterLogging, Entering
  <2>. QED  BY <2>1, <2>2, <2>3 DEF Enter
<1>6. span \in [Requests -> [open : BOOLEAN, status : Statuses \cup {None}, error : Errors \cup {None}]]
  BY DEF TracesInv, TracesRight
<1>7. span'[r] = SpanDue(r)'
  <2>1. CASE level[r] = 1
    <3>1. span[r] = NoSpan
      BY <2>1, <1>1, <1>4 DEF SpanDue
    <3>2. span'[r] = [NoSpan EXCEPT !.open = route[r] # "probe"]
      BY <2>1, <3>1, <1>5, <1>6
    <3>3. phase'[r] \notin {"idle"} /\ level'[r] = 2 /\ route'[r] = route[r]
      BY <2>1, <1>2, <1>3
    <3>4. CASE route[r] = "probe"
      BY <3>2, <3>3, <3>4 DEF SpanDue, NoSpan
    <3>5. CASE route[r] # "probe"
      <4>1. span'[r] = [NoSpan EXCEPT !.open = TRUE]
        BY <3>2, <3>5, Zenon
      <4>. QED  BY <4>1, <3>3, <3>5, <1>3, LevelsIs DEF SpanDue
    <3>. QED  BY <3>4, <3>5
  <2>2. CASE level[r] # 1
    <3>1. span'[r] = span[r] /\ route'[r] = route[r]
      BY <2>2, <1>2, <1>5
    <3>2. phase'[r] # "idle" /\ phase'[r] # "leave"
      BY <1>3
    <3>3. level[r] = 0 => phase'[r] = "enter" /\ level'[r] = 1
      BY <1>3, LevelsIs
    <3>4. level[r] = 2 => level'[r] = 3
      BY <1>3
    <3>5. CASE level[r] = 0
      BY <3>1, <3>3, <3>5, <1>1, <1>4 DEF SpanDue, NoSpan
    <3>6. CASE level[r] = 2
      BY <3>1, <3>2, <3>4, <3>6, <1>1, <1>4 DEF SpanDue, NoSpan
    <3>. QED  BY <2>2, <3>5, <3>6, <1>1
  <2>. QED  BY <2>1, <2>2
<1>8. TraceOf(r)'
  BY <1>2, <1>3, <1>4, <1>7 DEF TraceOf
<1>9. span' \in [Requests -> [open : BOOLEAN, status : Statuses \cup {None}, error : Errors \cup {None}]]
  <2>1. [span[r] EXCEPT !.open = route[r] # "probe"]
           \in [open : BOOLEAN, status : Statuses \cup {None}, error : Errors \cup {None}]
    BY <1>6
  <2>. QED  BY <2>1, <1>5, <1>6
<1>10. \A q \in Requests : q # r => phase'[q] = phase[q] /\ level'[q] = level[q] /\ span'[q] = span[q]
  BY <1>2, <1>5, <1>6 DEF TracesInv, Inv, TypeOK
<1>11. \A q \in Requests : TraceOf(q)'
  BY <1>2, <1>8, <1>10, TraceUntouched DEF TracesInv, TracesRight
<1>. QED  BY <1>2, <1>9, <1>11, RaisedUntouched DEF TracesInv, TracesRight

\* A handler ends in a status, or in an exception it does not catch.
LEMMA ReturnTraces ==
    ASSUME TracesInv, NEW r \in Requests, NEW outcome \in Outcomes(route[r]), Return(r, outcome)
    PROVE  TracesRight' /\ RaisedByHandler'
<1>1. /\ phase[r] = "route" /\ phase' = [phase EXCEPT ![r] = "leave"]
      /\ response' = [response EXCEPT ![r] = outcome.status]
      /\ raised' = [raised EXCEPT ![r] = outcome.error]
      /\ UNCHANGED <<route, level, span, lines>>
  BY DEF Return
<1>2. level[r] = 3 /\ route[r] \in Routes /\ span[r] = SpanDue(r)
  BY <1>1, LevelsIs DEF TracesInv, TracesRight, TraceOf
<1>3. /\ outcome.status \in Statuses \cup {None} /\ outcome.error \in Errors \cup {None}
      /\ outcome.error = None <=> outcome.status # None
      /\ outcome.error # None =>
           \E e \in Raises[route[r]] : /\ outcome.error = Mapped(route[r], e)
                                       /\ ClauseFor(route[r], outcome.error) = 0
  BY <1>2, OutcomesAre, MappedType
<1>4. phase'[r] = "leave" /\ response'[r] = outcome.status /\ raised'[r] = outcome.error
  BY <1>1 DEF TracesInv, Inv, TypeOK, TracesRight
<1>5. \A q \in Requests :
        q # r => phase'[q] = phase[q] /\ response'[q] = response[q] /\ raised'[q] = raised[q]
  BY <1>1 DEF TracesInv, Inv, TypeOK, TracesRight
<1>6. /\ raised' \in [Requests -> Errors \cup {None}]
      /\ response' \in [Requests -> Statuses \cup {None}]
  BY <1>1, <1>3 DEF TracesInv, TracesRight
<1>7. SpanDue(r)' = SpanDue(r)
  BY <1>1, <1>2, <1>4 DEF SpanDue, NoSpan
<1>8. TraceOf(r)'
  BY <1>1, <1>2, <1>3, <1>4, <1>7, LevelsIs DEF TraceOf
<1>9. \A q \in Requests : TraceOf(q)'
  BY <1>1, <1>5, <1>8, TraceUntouched DEF TracesInv, TracesRight
<1>10. RaisedByHandler'
  <2>. SUFFICES ASSUME NEW q \in Requests, raised'[q] # None
       PROVE  \E e \in Raises[route[q]] : /\ raised'[q] = Mapped(route[q], e)
                                          /\ ClauseFor(route[q], raised'[q]) = 0
    BY <1>1 DEF RaisedByHandler
  <2>1. CASE q = r
    BY <2>1, <1>3, <1>4
  <2>2. CASE q # r
    BY <2>2, <1>5 DEF TracesInv, RaisedByHandler
  <2>. QED  BY <2>1, <2>2
<1>. QED  BY <1>1, <1>6, <1>9, <1>10 DEF TracesInv, TracesRight

\* Steps that only log, or leave a task.
LEMMA LogTraces ==
    ASSUME TracesInv, UNCHANGED <<route, phase, level, span, raised, response>>, lines \subseteq lines'
    PROVE  TracesRight' /\ RaisedByHandler'
BY TraceUntouched, RaisedUntouched DEF TracesInv, TracesRight

\* The way out: the exception is logged by the innermost middleware, the trace
\* recorded by the second, and the client answered last.
LEMMA LeaveTraces ==
    ASSUME TracesInv, NEW r \in Requests, Leave(r)
    PROVE  TracesRight' /\ RaisedByHandler'
<1>1. phase[r] = "leave" /\ level[r] \in 0 .. 3 /\ route[r] \in Routes /\ span[r] = SpanDue(r)
  <2>1. phase[r] = "leave"
    BY DEF Leave, LeaveContext, LeaveTracing, LeaveLogging, Leaving, Answer
  <2>2. TraceOf(r) /\ level[r] \in 0 .. 3
    BY TracesKnown
  <2>3. /\ phase[r] # "idle" => route[r] \in Routes
        /\ span[r] = SpanDue(r)
    BY ONLY <2>2 DEF TraceOf
  <2>. QED  BY ONLY <2>1, <2>2, <2>3
<1>2. /\ span \in [Requests -> [open : BOOLEAN, status : Statuses \cup {None}, error : Errors \cup {None}]]
      /\ raised \in [Requests -> Errors \cup {None}]
      /\ response \in [Requests -> Statuses \cup {None}]
  BY DEF TracesInv, TracesRight
<1>3. raised[r] = None <=> response[r] # None
  BY <1>1 DEF TracesInv, TracesRight, TraceOf
<1>4. 500 \in Statuses /\ None # 500
  BY NoneAssumption DEF Statuses
<1>5. CASE Answer(r)
  <2>1. /\ level[r] = 0 /\ phase' = [phase EXCEPT ![r] = "done"]
        /\ response' = [response EXCEPT ![r] = IF raised[r] = None THEN @ ELSE 500]
        /\ UNCHANGED <<route, level, span, raised, lines>>
    BY <1>5 DEF Answer
  <2>2. phase'[r] = "done" /\ response'[r] = IF raised[r] = None THEN response[r] ELSE 500
    BY <2>1, TracesKnown
  <2>3. \A q \in Requests : q # r => phase'[q] = phase[q] /\ response'[q] = response[q]
    BY <2>1, <1>2 DEF TracesInv, Inv, TypeOK
  <2>4. raised[r] # None => <<r, r>> \in lines
    BY <2>1, <1>1, LevelsIs DEF TracesInv, TracesRight, TraceOf
  <2>5. SpanDue(r)' = SpanDue(r)
    <3>1. SpanDue(r) = IF route[r] = "probe" THEN NoSpan ELSE ClosedSpan(NoSpan, response[r], raised[r])
      BY <2>1, <1>1 DEF SpanDue
    <3>2. SpanDue(r)' = IF route[r] = "probe" THEN NoSpan ELSE ClosedSpan(NoSpan, response'[r], raised[r])
      BY <2>1, <2>2 DEF SpanDue, NoSpan, ClosedSpan
    <3>3. ClosedSpan(NoSpan, response'[r], raised[r]) = ClosedSpan(NoSpan, response[r], raised[r])
      BY ZenonT(60), <2>2, <1>3, <1>4 DEF ClosedSpan
    <3>. QED  BY <3>1, <3>2, <3>3
  <2>6. TraceOf(r)'
    BY <2>1, <2>2, <2>4, <2>5, <1>1, <1>3, <1>4 DEF TraceOf
  <2>7. \A q \in Requests : TraceOf(q)'
    BY <2>1, <2>3, <2>6, TraceUntouched DEF TracesInv, TracesRight
  <2>8. response' \in [Requests -> Statuses \cup {None}]
    BY <2>1, <1>2, <1>4
  <2>. QED  BY <2>1, <2>7, <2>8, <1>2, RaisedUntouched DEF TracesInv, TracesRight
<1>6. CASE LeaveContext(r) \/ LeaveTracing(r) \/ LeaveLogging(r)
  <2>1. /\ level[r] > 0 /\ level' = [level EXCEPT ![r] = @ - 1]
        /\ UNCHANGED <<route, phase, raised, response>>
    BY <1>6 DEF LeaveContext, LeaveTracing, LeaveLogging, Leaving, Ascend
  <2>2. level[r] \in {1, 2, 3} /\ level'[r] = level[r] - 1
    BY <2>1, <1>1, TracesKnown
  <2>3. lines \subseteq lines' /\ (level[r] = 3 /\ raised[r] # None => <<r, r>> \in lines')
    <3>1. CASE LeaveLogging(r)
      BY <3>1 DEF LeaveLogging, LoggedError
    <3>2. CASE LeaveContext(r) \/ LeaveTracing(r)
      BY <3>2, <2>2, StackIs DEF LeaveContext, LeaveTracing, Leaving
    <3>. QED  BY <3>1, <3>2, <1>6
  <2>4. span' = IF level[r] = 2 /\ span[r].open
                THEN [span EXCEPT ![r] = ClosedSpan(@, response[r], raised[r])] ELSE span
    <3>1. CASE LeaveContext(r)
      BY <3>1, <2>2, StackIs DEF LeaveContext, Leaving
    <3>2. CASE LeaveTracing(r)
      BY <3>2, <2>2, StackIs DEF LeaveTracing, Leaving
    <3>3. CASE LeaveLogging(r)
      BY <3>3, <2>2, StackIs DEF LeaveLogging, Leaving
    <3>. QED  BY <3>1, <3>2, <3>3, <1>6
  <2>5. ClosedSpan(span[r], response[r], raised[r]) = ClosedSpan(NoSpan, response[r], raised[r])
    BY DEF ClosedSpan
  <2>6. span'[r] = SpanDue(r)'
    <3>1. CASE route[r] = "probe"
      <4>1. span[r] = NoSpan /\ ~ NoSpan.open
        BY <3>1, <1>1 DEF SpanDue, NoSpan
      <4>. QED  BY <3>1, <4>1, <2>1, <2>4 DEF SpanDue, NoSpan
    <3>2. CASE route[r] # "probe" /\ level[r] = 3
      <4>1. span'[r] = span[r] /\ level'[r] = 2
        BY <3>2, <2>2, <2>4
      <4>. QED  BY <3>2, <4>1, <1>1, <2>1 DEF SpanDue, NoSpan
    <3>3. CASE route[r] # "probe" /\ level[r] = 2
      <4>1. span[r].open
        BY <3>3, <1>1 DEF SpanDue, NoSpan
      <4>2. span'[r] = ClosedSpan(NoSpan, response[r], raised[r]) /\ level'[r] = 1
        BY <3>3, <4>1, <2>2, <2>4, <2>5, <1>2
      <4>. QED  BY <3>3, <4>2, <1>1, <2>1 DEF SpanDue, NoSpan, ClosedSpan
    <3>4. CASE route[r] # "probe" /\ level[r] = 1
      <4>1. span'[r] = span[r] /\ level'[r] = 0
        BY <3>4, <2>2, <2>4
      <4>. QED  BY <3>4, <4>1, <1>1, <2>1 DEF SpanDue, NoSpan, ClosedSpan
    <3>. QED  BY <2>2, <3>1, <3>2, <3>3, <3>4
  <2>7. <<r, r>> \in lines' \/ raised[r] = None
    <3>1. level[r] < Depth /\ raised[r] # None => <<r, r>> \in lines
      BY <1>1 DEF TracesInv, TracesRight, TraceOf
    <3>. QED  BY <3>1, <2>2, <2>3, LevelsIs
  <2>8. TraceOf(r)'
    BY <2>1, <2>6, <2>7, <1>1, <1>3 DEF TraceOf
  <2>9. span' \in [Requests -> [open : BOOLEAN, status : Statuses \cup {None}, error : Errors \cup {None}]]
    <3>1. ClosedSpan(span[r], response[r], raised[r])
             \in [open : BOOLEAN, status : Statuses \cup {None}, error : Errors \cup {None}]
      BY <1>2, <1>4 DEF ClosedSpan
    <3>. QED  BY <3>1, <2>4, <1>2
  <2>10. \A q \in Requests : q # r => level'[q] = level[q] /\ span'[q] = span[q]
    BY <2>1, <2>4, <1>2 DEF TracesInv, Inv, TypeOK
  <2>11. \A q \in Requests : TraceOf(q)'
    BY <2>1, <2>3, <2>8, <2>10, TraceUntouched DEF TracesInv, TracesRight
  <2>. QED  BY <2>1, <2>9, <2>11, <1>2, RaisedUntouched DEF TracesInv, TracesRight
<1>. QED  BY <1>5, <1>6 DEF Leave

\* TracesRight and RaisedByHandler hold initially and every step keeps them.
THEOREM TracesInvariance == Spec => []TracesInv
<1>1. Init => TracesInv
  BY InitInv, InitTraces DEF TracesInv
<1>2. TracesInv /\ [Next]_vars => TracesRight' /\ RaisedByHandler'
  <2>. SUFFICES ASSUME TracesInv, [Next]_vars PROVE TracesRight' /\ RaisedByHandler'  OBVIOUS
  <2>1. ASSUME NEW r \in Requests, NEW rt \in Routes, Receive(r, rt)
        PROVE  TracesRight' /\ RaisedByHandler'
    BY <2>1, ReceiveTraces
  <2>2. ASSUME NEW r \in Requests, Enter(r)
        PROVE  TracesRight' /\ RaisedByHandler'
    BY <2>2, EnterTraces
  <2>3. ASSUME NEW r \in Requests, Leave(r)
        PROVE  TracesRight' /\ RaisedByHandler'
    BY <2>3, LeaveTraces
  <2>4. ASSUME NEW r \in Requests, TaskLogs(r)
        PROVE  TracesRight' /\ RaisedByHandler'
    BY <2>4, LogTraces DEF TaskLogs, Log
  <2>5. ASSUME NEW r \in Requests, Handle(r)
        PROVE  TracesRight' /\ RaisedByHandler'
    <3>1. HandlerLogs(r) \/ LeaveTask(r)
            => UNCHANGED <<route, phase, level, span, raised, response>> /\ lines \subseteq lines'
      BY DEF HandlerLogs, LeaveTask, Log
    <3>. QED  BY <2>5, <3>1, LogTraces, ReturnTraces DEF Handle
  <2>6. CASE UNCHANGED vars
    BY <2>6, LogTraces DEF vars
  <2>. QED  BY <2>1, <2>2, <2>3, <2>4, <2>5, <2>6 DEF Next
<1>3. Spec => []Inv
  BY Invariance
<1>4. Inv' /\ TracesRight' /\ RaisedByHandler' => TracesInv'
  BY DEF TracesInv
<1>. QED  BY <1>1, <1>2, <1>3, <1>4, PTL DEF Spec

\* SpanTellsAnswer, for any number of requests: the trace of a request that was
\* answered has the status of the answer and the exception that came out.
THEOREM SpansProved == Spec => []SpanTellsAnswer
<1>1. TracesInv => SpanTellsAnswer
  <2>. SUFFICES ASSUME TracesInv, NEW r \in Requests, phase[r] = "done"
       PROVE  IF route[r] = "probe" THEN span[r] = NoSpan
              ELSE span[r] = [open |-> FALSE, status |-> response[r], error |-> raised[r]]
    BY DEF SpanTellsAnswer
  <2>1. level[r] = 0 /\ response[r] # None /\ span[r] = SpanDue(r)
    BY TracesKnown DEF TraceOf
  <2>2. SpanDue(r) = IF route[r] = "probe" THEN NoSpan ELSE ClosedSpan(NoSpan, response[r], raised[r])
    BY <2>1 DEF SpanDue
  <2>. QED  BY <2>1, <2>2 DEF ClosedSpan
<1>. QED  BY <1>1, TracesInvariance, PTL

\* FailuresLogged, for any number of requests: an exception that no handler
\* caught was logged for its request, and the client was answered 500.
THEOREM FailuresProved == Spec => []FailuresLogged
<1>1. TracesInv => FailuresLogged
  BY LevelsIs DEF TracesInv, TracesRight, TraceOf, FailuresLogged
<1>. QED  BY <1>1, TracesInvariance, PTL

\* OnlyTheseEscape, for every route and every error raised under it: a refusal is
\* answered by its handler, but for those overlooked.
THEOREM EscapesProved == Spec => []OnlyTheseEscape
<1>1. TracesInv => OnlyTheseEscape
  <2>. SUFFICES ASSUME TracesInv, NEW r \in Requests, raised[r] \in Refusals
       PROVE  <<route[r], raised[r]>> \in Overlooked
    BY DEF OnlyTheseEscape
  <2>1. raised[r] # None /\ phase[r] \notin {"idle"}
    <3>1. Refusals \subseteq Errors
      BY DEF Refusals, Errors, OtherErrors
    <3>2. raised[r] # None
      BY <3>1, NoneAssumption
    <3>. QED  BY <3>2, TracesKnown DEF TraceOf
  <2>2. route[r] \in Routes
    BY <2>1, TracesKnown DEF TraceOf
  <2>3. PICK e \in Raises[route[r]] : /\ raised[r] = Mapped(route[r], e)
                                      /\ ClauseFor(route[r], raised[r]) = 0
    BY <2>1 DEF TracesInv, RaisedByHandler
  <2>. QED  BY <2>2, <2>3, EscapesOverlooked
<1>. QED  BY <1>1, TracesInvariance, PTL
=============================================================================

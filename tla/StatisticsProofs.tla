-------------------------- MODULE StatisticsProofs --------------------------
(***************************************************************************)
(* What holds of the statistics of a bulk however many triggers fail and   *)
(* die.  If they do not race, failed computations are counted, and a       *)
(* complete one is the last.  If they do not race, or the names of files   *)
(* tell what is in them, a file that says complete is right, and a reader  *)
(* it lets through is given the statistics of all the columns.             *)
(***************************************************************************)
EXTENDS Statistics, FiniteSetTheorems, WellFoundedInduction, TLAPS

(* What a trigger makes of the file is a meta to write, with status started. *)
LEMMA MetaTypes ==
    ASSUME now \in 0 .. MaxTime
    PROVE  /\ FirstMeta \in Meta /\ FirstMeta.status = "started"
           /\ \A m \in Meta : NextMeta(m) \in Meta /\ NextMeta(m).status = "started"
           /\ \A m \in Meta, s \in {"running", "complete", "error"} :
                [m EXCEPT !.status = s] \in Meta /\ [m EXCEPT !.status = s].status = s
BY DEF FirstMeta, NextMeta, Meta

(* The checks of _check_recomputation_allowed cover every file. *)
LEMMA CheckTypes ==
    ASSUME NEW m \in Meta
    PROVE  Check(m) \in {"refusedComplete", "refusedFailed", "starting", "refusedRunning", "typeError"}
<1>1. m.status \in {"started", "running", "complete", "error"} /\ m.attempt \in Nat /\ m.aware \in BOOLEAN
  BY DEF Meta
<1> QED BY <1>1, StatisticsAssumption DEF Check

-----------------------------------------------------------------------------
(* Types *)

(* Sending a trigger, and reading and checking statistics.json. *)
LEMMA TriggerStep ==
    ASSUME Inv, NEW r \in Triggers, Trigger(r)
    PROVE  Inv'
<1> USE StatisticsAssumption DEF Inv
<1>1. TypeOK'
  BY DEF TypeOK, Trigger, Goto, Requests, Steps, Storable, Batches
<1>2. MetaFits'
  BY DEF TypeOK, Trigger, Goto, Requests, MetaFits
<1> QED BY <1>1, <1>2

LEMMA FetchStep ==
    ASSUME Inv, NEW r \in Triggers, FetchMeta(r)
    PROVE  Inv'
<1> USE StatisticsAssumption DEF Inv
<1> DEFINE verdict == IF file = NoFile THEN "starting" ELSE Check(file)
           new     == IF file = NoFile THEN FirstMeta ELSE NextMeta(file)
<1>1. /\ pc[r] = "fetching" /\ pc' = [pc EXCEPT ![r] = verdict]
      /\ meta' = IF verdict = "starting" THEN [meta EXCEPT ![r] = new] ELSE meta
      /\ UNCHANGED <<file, stored, hasCatalog, clients, groupings, now, todo, errors, listed, got, failures>>
  BY DEF FetchMeta, FetchWith, Goto
<1>2. verdict \in {"refusedComplete", "refusedFailed", "starting", "refusedRunning", "typeError"}
  BY CheckTypes DEF TypeOK
<1>3. new \in Meta /\ new.status = "started"
  BY MetaTypes DEF TypeOK
<1> HIDE DEF verdict, new
<1>4. /\ pc'[r] = verdict
      /\ \A x \in Requests \ {r} : pc'[x] = pc[x]
      /\ meta' \in [Triggers -> Meta \cup {NoFile}]
      /\ verdict = "starting" => meta'[r] = new
      /\ \A t \in Triggers \ {r} : meta'[t] = meta[t]
  BY <1>1, <1>2, <1>3 DEF TypeOK, Requests
<1>5. TypeOK'
  BY <1>1, <1>2, <1>4 DEF TypeOK, Requests, Steps, Storable, Batches
<1>6. MetaFits'
  BY <1>1, <1>2, <1>3, <1>4 DEF MetaFits, Requests
<1> QED BY <1>5, <1>6

(* Writing that a computation started, then that it runs. *)
LEMMA PushStartedStep ==
    ASSUME Inv, NEW r \in Triggers, PushStarted(r)
    PROVE  Inv'
<1> USE StatisticsAssumption DEF Inv
<1>1. TypeOK'
  BY DEF TypeOK, PushStarted, Goto, Requests, Steps, Storable, Batches
<1>2. MetaFits'
  BY DEF TypeOK, PushStarted, Goto, Requests, MetaFits
<1> QED BY <1>1, <1>2

LEMMA PushRunningStep ==
    ASSUME Inv, NEW r \in Triggers, PushRunning(r)
    PROVE  Inv'
<1> USE StatisticsAssumption DEF Inv
<1> DEFINE new == [meta[r] EXCEPT !.status = "running"]
<1>1. /\ pc[r] = "started" /\ pc' = [pc EXCEPT ![r] = "computing"]
      /\ meta' = [meta EXCEPT ![r] = new] /\ file' = meta'[r]
      /\ UNCHANGED <<stored, hasCatalog, clients, groupings, now, errors, listed, got, failures>>
  BY DEF PushRunning, Goto
<1>2. PICK G \in groupings : todo' = [todo EXCEPT ![r] = G]
  BY DEF PushRunning
<1>3. G \subseteq Batches
  BY DEF Batches
<1>4. new \in Meta /\ new.status = "running"
  BY <1>1, MetaTypes DEF MetaFits, TypeOK
<1> HIDE DEF new
<1>5. file' = new /\ meta'[r] = new
  BY <1>1 DEF TypeOK
<1>6. TypeOK'
  BY <1>1, <1>2, <1>3, <1>4, <1>5 DEF TypeOK, Requests, Steps, Storable, Batches
<1>7. MetaFits'
  BY <1>1, <1>2, <1>4, <1>5 DEF TypeOK, Requests, MetaFits
<1> QED BY <1>6, <1>7

(* What SaveBatch and FailBatch do. *)
LEMMA BatchEffect ==
    ASSUME Inv, NEW r \in Triggers, NEW b \in todo[r], SaveBatch(r, b) \/ FailBatch(r, b)
    PROVE  /\ b \in Batches /\ pc[r] = "computing"
           /\ todo' = [todo EXCEPT ![r] = @ \ {b}]
           /\ UNCHANGED <<file, hasCatalog, clients, groupings, now, pc, meta, listed, got>>
           /\ \/ stored' = stored /\ errors' = errors /\ Covered({b}) = {} /\ failures' = failures
              \/ /\ stored' = (stored \ FileNamed(FileName(b))) \cup {b} /\ b \in Storable
                 /\ errors' = errors /\ failures' = failures
              \/ /\ stored' = stored /\ failures' \in 0 .. MaxFailures
                 /\ errors' = [errors EXCEPT ![r] = @ \cup {b}]
<1>1. b \in Batches /\ b \in todo[r]
  BY DEF Inv, TypeOK
<1>2. CASE SaveBatch(r, b)
  BY <1>1, <1>2 DEF SaveBatch, SaveBatchWith, Storable
<1>3. CASE FailBatch(r, b)
  BY <1>1, <1>3, StatisticsAssumption DEF Inv, TypeOK, FailBatch
<1> QED BY <1>2, <1>3

(* A batch that is saved, or fails; a file saved is the only one of its name. *)
LEMMA BatchStep ==
    ASSUME Inv, NEW r \in Triggers, NEW b \in todo[r], SaveBatch(r, b) \/ FailBatch(r, b)
    PROVE  Inv'
<1>1. /\ stored' \subseteq Storable
      /\ \A c, d \in stored' : FileName(c) = FileName(d) => c = d
  <2>1. stored \subseteq Storable /\ \A c, d \in stored : FileName(c) = FileName(d) => c = d
    BY DEF Inv, TypeOK
  <2>2. \/ stored' = stored
        \/ stored' = (stored \ {c \in stored : FileName(c) = FileName(b)}) \cup {b} /\ b \in Storable
    BY BatchEffect DEF FileNamed
  <2> QED BY <2>1, <2>2
<1>2. Storable' = Storable /\ Batches' = Batches
  BY BatchEffect DEF Storable, Batches
<1>3. /\ failures' \in 0 .. MaxFailures
      /\ todo' \in [Triggers -> SUBSET Batches] /\ errors' \in [Triggers -> SUBSET Batches]
  <2>1. /\ failures \in 0 .. MaxFailures /\ b \in Batches
        /\ todo \in [Triggers -> SUBSET Batches] /\ errors \in [Triggers -> SUBSET Batches]
    BY BatchEffect DEF Inv, TypeOK
  <2>2. todo' = [todo EXCEPT ![r] = @ \ {b}]
    BY BatchEffect
  <2>3. errors' = errors \/ errors' = [errors EXCEPT ![r] = @ \cup {b}]
    BY BatchEffect
  <2>4. failures' = failures \/ failures' \in 0 .. MaxFailures
    BY BatchEffect
  <2> QED BY <2>1, <2>2, <2>3, <2>4
<1>4. UNCHANGED <<file, hasCatalog, clients, groupings, now, pc, meta, listed, got>>
  BY BatchEffect
<1>5. TypeOK'
  BY <1>1, <1>2, <1>3, <1>4 DEF Inv, TypeOK
<1>6. MetaFits'
  BY <1>4 DEF Inv, MetaFits
<1> QED BY <1>5, <1>6 DEF Inv

(* The last write of a computation. *)
LEMMA FinishStep ==
    ASSUME Inv, NEW r \in Triggers, Finish(r)
    PROVE  Inv'
<1> USE StatisticsAssumption DEF Inv
<1> DEFINE status == IF errors[r] = {} THEN "complete" ELSE "error"
           answer == IF errors[r] = {} THEN "done" ELSE "errored"
<1>1. /\ pc[r] = "computing" /\ todo[r] = {} /\ file' = Written(r, status) /\ End(r, answer)
      /\ UNCHANGED <<stored, hasCatalog, clients, groupings, now, listed, got, failures>>
  BY DEF Finish
<1>2. file' \in Meta
  <2>1. meta[r] \in Meta
    BY <1>1 DEF MetaFits
  <2>2. status \in {"running", "complete", "error"} /\ now \in 0 .. MaxTime
    BY DEF TypeOK
  <2> HIDE DEF status
  <2> QED BY <1>1, <2>1, <2>2 DEF Meta, Written
<1>3. answer \in {"done", "errored"}
  OBVIOUS
<1> HIDE DEF status, answer
<1>4. TypeOK'
  BY <1>1, <1>2, <1>3 DEF TypeOK, Requests, End, Goto, Storable, Batches
<1>5. MetaFits'
  BY <1>1, <1>3 DEF TypeOK, Requests, MetaFits, End, Goto
<1> QED BY <1>4, <1>5

(* What a reader does to itself. *)
LEMMA ReadMetaEffect ==
    ASSUME Inv, NEW q \in Readers, ReadMeta(q)
    PROVE  /\ UNCHANGED <<file, stored, hasCatalog, clients, groupings, now, meta, todo, errors,
                          listed, got, failures>>
           /\ \E label \in {"noCatalog", "notFound", "empty", "listing", "notComplete", "unknownCurves"} :
                /\ pc' = [pc EXCEPT ![q] = label]
                /\ label = "listing" => file # NoFile /\ file.status = "complete"
<1>1. /\ Verdict \in {"noCatalog", "notFound", "empty", "listing", "notComplete"}
      /\ Verdict = "listing" => file # NoFile /\ file.status = "complete"
  BY DEF Inv, TypeOK, Verdict, Meta
<1> QED BY <1>1 DEF ReadMeta, ReadMetaWith, Goto

LEMMA ReadersStep ==
    ASSUME Inv, NEW q \in Readers,
           ReadMeta(q) \/ ListFiles(q) \/ (\E n \in listed[q] : LoadFile(q, n)) \/ Answer(q)
    PROVE  Inv'
<1> USE StatisticsAssumption
<1>1. /\ UNCHANGED <<file, stored, hasCatalog, clients, groupings, now, meta, todo, errors, failures>>
      /\ \E label \in {"noCatalog", "notFound", "empty", "listing", "notComplete", "unknownCurves",
                        "loading", "valueError", "answered"} : pc' = [pc EXCEPT ![q] = label]
      /\ listed' \in [Readers -> SUBSET {FileName(b) : b \in Storable}]
      /\ got' \in [Readers -> SUBSET Batches]
  <2>1. CASE ReadMeta(q)
    BY <2>1, ReadMetaEffect DEF Inv, TypeOK
  <2>2. CASE ListFiles(q)
    BY <2>2 DEF Inv, TypeOK, ListFiles, Goto
  <2>3. ASSUME NEW n \in listed[q], LoadFile(q, n)
        PROVE  <1>1
    <3>1. FileNamed(n) \subseteq Batches
      BY DEF FileNamed, Storable, Inv, TypeOK
    <3>2. pc' = [pc EXCEPT ![q] = "loading"]
      BY <2>3 DEF LoadFile, Inv, TypeOK, Requests
    <3> QED BY <2>3, <3>1, <3>2 DEF Inv, TypeOK, LoadFile
  <2>4. CASE Answer(q)
    BY <2>4 DEF Inv, TypeOK, Answer, Goto
  <2> QED BY <2>1, <2>2, <2>3, <2>4
<1>2. Storable' = Storable /\ Batches' = Batches
  BY <1>1 DEF Storable, Batches
<1>3. TypeOK'
  BY <1>1, <1>2 DEF Inv, TypeOK, Requests, Steps
<1>4. MetaFits'
  BY <1>1 DEF Inv, TypeOK, Requests, MetaFits
<1> QED BY <1>3, <1>4 DEF Inv

(* Failures and time. *)
LEMMA OtherStep ==
    ASSUME Inv, (\E r \in Requests : Fail(r)) \/ Tick \/ UNCHANGED vars
    PROVE  Inv'
<1> USE StatisticsAssumption DEF Inv
<1>1. ASSUME NEW r \in Requests, Fail(r)
      PROVE  Inv'
  <2>1. Storable' = Storable /\ Batches' = Batches /\ failures' \in 0 .. MaxFailures
    BY <1>1 DEF Storable, Batches, Fail, TypeOK
  <2>2. /\ pc' = [pc EXCEPT ![r] = "failed"]
        /\ meta' \in [Triggers -> Meta \cup {NoFile}]
        /\ todo' \in [Triggers -> SUBSET Batches] /\ errors' \in [Triggers -> SUBSET Batches]
        /\ UNCHANGED <<file, stored, hasCatalog, clients, groupings, now, listed, got>>
    BY <1>1 DEF TypeOK, Fail, End, Goto
  <2>3. TypeOK'
    BY <2>1, <2>2 DEF TypeOK
  <2>4. MetaFits'
    BY <1>1 DEF TypeOK, Fail, End, Goto, Requests, MetaFits
  <2> QED BY <2>3, <2>4
<1>2. ASSUME Tick \/ UNCHANGED vars
      PROVE  Inv'
  <2>1. TypeOK'
    <3>1. groupings' = groupings /\ Storable' = Storable /\ Batches' = Batches
      BY <1>2 DEF Storable, Batches, Tick, vars
    <3>2. now' \in 0 .. MaxTime
      BY <1>2 DEF Tick, vars, TypeOK
    <3> QED BY <1>2, <3>1, <3>2 DEF TypeOK, Tick, vars
  <2>2. MetaFits'
    BY <1>2 DEF Tick, vars, MetaFits
  <2> QED BY <2>1, <2>2
<1> QED BY <1>1, <1>2

(* The types hold whatever the triggers, readers and failures. *)
THEOREM Invariance == Spec => []Inv
<1>1. Init => Inv
  BY StatisticsAssumption DEF Init, Inv, TypeOK, MetaFits, Requests
<1>2. Inv /\ [Next]_vars => Inv'
  BY TriggerStep, FetchStep, PushStartedStep, PushRunningStep, BatchStep, FinishStep,
     ReadersStep, OtherStep DEF Next, Compute
<1> QED BY <1>1, <1>2, PTL DEF Spec

(* TypeOK: the variables keep their types, and a name is that of one file,   *)
(* though batches of the same ends are saved over one another.               *)
THEOREM TypeCorrect == Spec => []TypeOK
<1>1. Inv => TypeOK
  BY DEF Inv
<1> QED BY <1>1, Invariance, PTL

-----------------------------------------------------------------------------
(* Triggers that do not race *)

\* The failed computations are counted by a natural number.
LEMMA CountIsNat ==
    ASSUME IsFiniteSet(Errored)
    PROVE  Cardinality(Errored) \in Nat
BY FS_CardinalityType

\* A trigger ends in error: one more.
LEMMA CountAdds ==
    ASSUME IsFiniteSet(Errored), NEW r, r \notin Errored
    PROVE  /\ IsFiniteSet(Errored \cup {r})
           /\ Cardinality(Errored \cup {r}) = Cardinality(Errored) + 1
BY FS_AddElement

\* Steps that leave the file, what computations write to it, and who is in
\* progress as they were, or end a trigger otherwise than in error.
LEMMA QuietStep ==
    ASSUME Inv, SerialInv, UNCHANGED <<file, clients>>,
           \A t \in Triggers : /\ pc'[t] = "errored" <=> pc[t] = "errored"
                               /\ InProgress(t)' => InProgress(t)
                               /\ pc'[t] \in Computing => pc[t] \in Computing /\ meta'[t] = meta[t]
    PROVE  SerialInv'
<1>1. Errored' = Errored
  BY DEF Errored
<1>. QED  BY <1>1 DEF SerialInv, AttemptLeft

LEMMA TriggerSerial ==
    ASSUME Inv, SerialInv, NEW r \in Triggers, Trigger(r)
    PROVE  SerialInv'
<1>. SUFFICES ASSUME clients = "serial" PROVE SerialInv'
  BY DEF Trigger, SerialInv
<1>1. pc \in [Requests -> DOMAIN pc \cup {pc[t] : t \in Requests}] /\ r \in Requests
  BY DEF Inv, TypeOK, Requests
<1>2. /\ pc[r] = "idle" /\ pc' = [pc EXCEPT ![r] = IF hasCatalog THEN "fetching" ELSE "noCatalog"]
      /\ UNCHANGED <<file, clients, meta>>
      /\ \A t \in Triggers : ~ InProgress(t)
  BY DEF Trigger, MayTrigger, Goto
<1>3. \A t \in Triggers : t # r => pc'[t] = pc[t]
  BY <1>1, <1>2 DEF Requests
<1>4. pc'[r] \in {"fetching", "noCatalog"}
  BY <1>1, <1>2
<1>5. Errored' = Errored
  BY <1>2, <1>3, <1>4 DEF Errored
<1>6. \A t \in Triggers : InProgress(t)' => t = r
  BY <1>2, <1>3 DEF InProgress
<1>7. \A t \in Triggers : pc'[t] \notin Computing
  BY <1>2, <1>3, <1>4 DEF InProgress, Computing, Steps
<1>. QED  BY <1>2, <1>5, <1>6, <1>7 DEF SerialInv, AttemptLeft

\* A trigger in progress is the only one.
LEMMA OnlyOne ==
    ASSUME SerialInv, clients = "serial", NEW r \in Triggers, InProgress(r)
    PROVE  \A t \in Triggers : t # r => ~ InProgress(t) /\ pc[t] \notin Computing
BY DEF SerialInv, InProgress, Steps, Computing

\* A trigger that is let through by the file has an attempt left, and the file
\* does not say complete.
LEMMA FetchSerial ==
    ASSUME Inv, SerialInv, NEW r \in Triggers, FetchMeta(r)
    PROVE  SerialInv'
<1>. SUFFICES ASSUME clients = "serial" PROVE SerialInv'
  BY DEF FetchMeta, FetchWith, SerialInv
<1>. DEFINE verdict == IF file = NoFile THEN "starting" ELSE Check(file)
            new     == IF file = NoFile THEN FirstMeta ELSE NextMeta(file)
<1>1. /\ pc[r] = "fetching" /\ pc' = [pc EXCEPT ![r] = verdict]
      /\ meta' = IF verdict = "starting" THEN [meta EXCEPT ![r] = new] ELSE meta
      /\ UNCHANGED <<file, clients>>
  BY DEF FetchMeta, FetchWith, Goto
<1>2. verdict \in {"refusedComplete", "refusedFailed", "starting", "refusedRunning", "typeError"}
  BY CheckTypes DEF Inv, TypeOK
<1>3. Cardinality(Errored) \in Nat /\ MaxAttempts \in Nat \ {0}
  BY CountIsNat, StatisticsAssumption DEF SerialInv
<1>4. ASSUME verdict = "starting"
      PROVE  /\ Cardinality(Errored) < new.attempt /\ Cardinality(Errored) < MaxAttempts
             /\ file # NoFile => file.status # "complete"
  <2>1. CASE file = NoFile
    <3>1. Cardinality(Errored) = 0
      BY <2>1, FS_EmptySet DEF SerialInv
    <3>2. new.attempt = 1
      BY <2>1 DEF FirstMeta
    <3>. QED  BY <2>1, <3>1, <3>2, <1>3
  <2>2. CASE file # NoFile
    <3>1. file \in Meta /\ Check(file) = "starting"
      BY <1>4, <2>2 DEF Inv, TypeOK
    <3>2. new.attempt = file.attempt + 1 /\ file.attempt \in Nat \ {0}
      BY <2>2, <3>1 DEF NextMeta, Meta
    <3>3. \/ file.status = "error" /\ file.attempt < MaxAttempts
          \/ file.status = "started"
      BY <3>1, <1>3, <3>2 DEF Check, Meta
    <3>4. CASE file.status = "error" /\ file.attempt < MaxAttempts
      <4>1. Cardinality(Errored) <= file.attempt
        BY <2>2, <3>4 DEF SerialInv
      <4>. QED  BY <3>2, <3>4, <4>1, <1>3
    <3>5. CASE file.status = "started"
      <4>1. Cardinality(Errored) < file.attempt /\ Cardinality(Errored) < MaxAttempts
        BY <2>2, <3>5 DEF SerialInv, AttemptLeft
      <4>. QED  BY <3>2, <3>5, <4>1, <1>3
    <3>. QED  BY <3>3, <3>4, <3>5
  <2>. QED  BY <2>1, <2>2
<1>. HIDE DEF verdict, new
<1>5. r \in Requests /\ pc'[r] = verdict /\ \A t \in Triggers : t # r => pc'[t] = pc[t]
  BY <1>1 DEF Inv, TypeOK, Requests
<1>6. Errored' = Errored
  BY <1>1, <1>2, <1>5 DEF Errored
<1>7. \A t \in Triggers : t # r => ~ InProgress(t) /\ pc[t] \notin Computing
  BY <1>1, OnlyOne DEF InProgress, Steps
<1>8. \A t \in Triggers : InProgress(t)' => t = r
  BY <1>5, <1>7 DEF InProgress
<1>9. ASSUME NEW t \in Triggers, pc'[t] \in Computing
      PROVE  /\ Cardinality(Errored) < meta'[t].attempt /\ Cardinality(Errored) < MaxAttempts
             /\ file # NoFile => file.status # "complete"
  <2>1. t = r
    BY <1>5, <1>7, <1>9
  <2>2. verdict = "starting"
    BY <1>2, <1>5, <1>9, <2>1 DEF Computing
  <2>3. meta'[t] = new
    BY <1>1, <2>1, <2>2 DEF Inv, TypeOK
  <2>. QED  BY <1>4, <2>2, <2>3
<1>. QED  BY <1>1, <1>6, <1>8, <1>9 DEF SerialInv, AttemptLeft

\* What a computation writes on its way leaves it an attempt.
LEMMA PushSerial ==
    ASSUME Inv, SerialInv, NEW r \in Triggers, PushStarted(r) \/ PushRunning(r)
    PROVE  SerialInv'
<1>. SUFFICES ASSUME clients = "serial" PROVE SerialInv'
  BY DEF PushStarted, PushRunning, SerialInv
<1>1. /\ pc[r] \in {"starting", "started"} /\ meta[r] \in Meta /\ r \in Requests
      /\ \/ meta' = meta /\ meta[r].status = "started"
         \/ meta' = [meta EXCEPT ![r].status = "running"]
      /\ file' = meta'[r] /\ clients' = clients
  BY DEF PushStarted, PushRunning, Inv, MetaFits, Requests
<1>2. /\ pc'[r] \in {"started", "computing"}
      /\ \A t \in Triggers : t # r => pc'[t] = pc[t]
  BY <1>1 DEF PushStarted, PushRunning, Goto, Inv, TypeOK, Requests
<1>3. /\ file' \in Meta /\ file'.attempt = meta[r].attempt /\ meta'[r].attempt = meta[r].attempt
      /\ file'.status \in {"started", "running"}
  <2>1. r \in DOMAIN meta
    BY DEF Inv, TypeOK
  <2>. QED  BY <1>1, <2>1 DEF Meta
<1>4. \A t \in Triggers : t # r => ~ InProgress(t) /\ pc[t] \notin Computing
  BY <1>1, OnlyOne DEF InProgress, Steps
<1>5. Errored' = Errored
  BY <1>1, <1>2 DEF Errored
<1>6. Cardinality(Errored) < meta[r].attempt /\ Cardinality(Errored) < MaxAttempts
  BY <1>1 DEF SerialInv, AttemptLeft, Computing
<1>7. \A t \in Triggers : InProgress(t)' => t = r
  BY <1>2, <1>4 DEF InProgress
<1>8. \A t \in Triggers : pc'[t] \in Computing => t = r
  BY <1>2, <1>4
<1>9. file' # NoFile => file'.status # "complete" /\ file'.status # "error"
  BY <1>3
<1>10. file' # NoFile
  BY <1>3, NoFileAssumption
<1>. QED  BY <1>1, <1>3, <1>5, <1>6, <1>7, <1>8, <1>9, <1>10 DEF SerialInv, AttemptLeft

\* A computation that ends in error used up an attempt that was left.
LEMMA FinishSerial ==
    ASSUME Inv, SerialInv, ErrorsBounded, NEW r \in Triggers, Finish(r)
    PROVE  SerialInv' /\ ErrorsBounded'
<1>1. /\ pc[r] = "computing" /\ clients' = clients /\ r \in Requests
      /\ meta' = [t \in Triggers |-> IF t = r THEN NoFile ELSE meta[t]]
  BY DEF Finish, End, Requests
<1>2. /\ pc'[r] \in {"done", "errored"}
      /\ \A t \in Triggers : t # r => pc'[t] = pc[t] /\ meta'[t] = meta[t]
  BY <1>1 DEF Finish, End, Goto, Inv, TypeOK, Requests
<1>3. meta[r] \in Meta
  BY <1>1 DEF Inv, MetaFits
<1>4. /\ file' \in Meta /\ file' # NoFile /\ file'.attempt = meta[r].attempt
      /\ file'.status = IF pc'[r] = "errored" THEN "error" ELSE "complete"
  <2>1. CASE errors[r] = {}
    <3>1. pc'[r] = "done" /\ file' = [meta[r] EXCEPT !.status = "complete"]
      BY <2>1, <1>1 DEF Finish, End, Goto, Written, Inv, TypeOK
    <3>. QED  BY <3>1, <1>3, NoFileAssumption DEF Meta
  <2>2. CASE errors[r] # {}
    <3>1. pc'[r] = "errored" /\ file' = [meta[r] EXCEPT !.status = "error"]
      BY <2>2, <1>1 DEF Finish, End, Goto, Written, Inv, TypeOK
    <3>. QED  BY <3>1, <1>3, NoFileAssumption DEF Meta
  <2>. QED  BY <2>1, <2>2
<1>. SUFFICES ASSUME clients = "serial" PROVE SerialInv' /\ ErrorsBounded'
  BY <1>1 DEF SerialInv, ErrorsBounded
<1>5. \A t \in Triggers : t # r => ~ InProgress(t) /\ pc[t] \notin Computing
  BY <1>1, OnlyOne DEF InProgress, Steps
<1>6. \A t \in Triggers : ~ InProgress(t)' /\ pc'[t] \notin Computing
  BY <1>2, <1>5 DEF InProgress, Steps, Computing
<1>7. /\ IsFiniteSet(Errored) /\ Cardinality(Errored) \in Nat /\ r \notin Errored
      /\ Cardinality(Errored) < meta[r].attempt /\ Cardinality(Errored) < MaxAttempts
  BY <1>1, CountIsNat DEF SerialInv, AttemptLeft, Computing, Errored
<1>8. meta[r].attempt \in Nat /\ MaxAttempts \in Nat
  BY <1>3, StatisticsAssumption DEF Meta
<1>9. \/ Errored' = Errored /\ pc'[r] # "errored"
      \/ Errored' = Errored \cup {r} /\ pc'[r] = "errored"
  <2>1. CASE pc'[r] = "errored"
    BY <1>2, <2>1 DEF Errored
  <2>2. CASE pc'[r] # "errored"
    BY <1>1, <1>2, <2>2 DEF Errored
  <2>. QED  BY <2>1, <2>2
<1>10. /\ IsFiniteSet(Errored') /\ Cardinality(Errored') <= MaxAttempts
       /\ pc'[r] = "errored" => Cardinality(Errored') <= meta[r].attempt
  BY <1>7, <1>8, <1>9, CountAdds
<1>11. SerialInv'
  BY <1>4, <1>6, <1>10 DEF SerialInv
<1>12. ErrorsBounded'
  BY <1>10 DEF ErrorsBounded, Errored
<1>. QED  BY <1>11, <1>12

\* Steps by which no trigger ends in error.
LEMMA BoundKept ==
    ASSUME ErrorsBounded, clients' = clients,
           \A t \in Triggers : pc'[t] = "errored" => pc[t] = "errored",
           \A t \in Triggers : pc[t] = "errored" => pc'[t] = "errored"
    PROVE  ErrorsBounded'
<1>1. {t \in Triggers : pc'[t] = "errored"} = {t \in Triggers : pc[t] = "errored"}
  OBVIOUS
<1>. QED  BY <1>1 DEF ErrorsBounded

\* Triggers that do not race: the count of the file is never behind.
THEOREM SerialInvariance == Spec => [](SerialInv /\ ErrorsBounded)
<1>1. Init => SerialInv /\ ErrorsBounded
  <2>. SUFFICES ASSUME Init PROVE SerialInv /\ ErrorsBounded  OBVIOUS
  <2>1. \A r \in Triggers : pc[r] = "idle"
    BY DEF Init, Requests
  <2>2. Errored = {} /\ file = NoFile
    BY <2>1 DEF Errored, Init
  <2>3. IsFiniteSet(Errored) /\ Cardinality(Errored) = 0
    BY <2>2, FS_EmptySet
  <2>4. \A r \in Triggers : ~ InProgress(r) /\ pc[r] \notin Computing
    BY <2>1 DEF InProgress, Steps, Computing
  <2>5. SerialInv
    BY <2>2, <2>3, <2>4 DEF SerialInv
  <2>. QED  BY <2>3, <2>5, StatisticsAssumption DEF ErrorsBounded, Errored
<1>2. Inv /\ SerialInv /\ ErrorsBounded /\ [Next]_vars => SerialInv' /\ ErrorsBounded'
  <2>. SUFFICES ASSUME Inv, SerialInv, ErrorsBounded, [Next]_vars
       PROVE  SerialInv' /\ ErrorsBounded'
    OBVIOUS
  <2>. DEFINE Quiet == /\ UNCHANGED <<file, clients>>
                       /\ \A t \in Triggers :
                            /\ pc'[t] = "errored" <=> pc[t] = "errored"
                            /\ InProgress(t)' => InProgress(t)
                            /\ pc'[t] \in Computing => pc[t] \in Computing /\ meta'[t] = meta[t]
  <2>1. Quiet => SerialInv' /\ ErrorsBounded'
    BY QuietStep, BoundKept
  <2>2. ASSUME NEW r \in Triggers, Trigger(r)
        PROVE  SerialInv' /\ ErrorsBounded'
    <3>1. clients' = clients /\ \A t \in Triggers : pc'[t] = "errored" <=> pc[t] = "errored"
      BY <2>2 DEF Trigger, Goto, Inv, TypeOK, Requests
    <3>. QED  BY <2>2, <3>1, TriggerSerial, BoundKept
  <2>3. ASSUME NEW r \in Triggers, FetchMeta(r)
        PROVE  SerialInv' /\ ErrorsBounded'
    <3>1. (IF file = NoFile THEN "starting" ELSE Check(file)) # "errored"
      BY CheckTypes DEF Inv, TypeOK
    <3>2. clients' = clients /\ \A t \in Triggers : pc'[t] = "errored" <=> pc[t] = "errored"
      BY <2>3, <3>1 DEF FetchMeta, FetchWith, Goto, Inv, TypeOK, Requests
    <3>. QED  BY <2>3, <3>2, FetchSerial, BoundKept
  <2>4. ASSUME NEW r \in Triggers, PushStarted(r) \/ PushRunning(r)
        PROVE  SerialInv' /\ ErrorsBounded'
    <3>1. clients' = clients /\ \A t \in Triggers : pc'[t] = "errored" <=> pc[t] = "errored"
      BY <2>4 DEF PushStarted, PushRunning, Goto, Inv, TypeOK, Requests
    <3>. QED  BY <2>4, <3>1, PushSerial, BoundKept
  <2>5. ASSUME NEW r \in Triggers, Finish(r)
        PROVE  SerialInv' /\ ErrorsBounded'
    BY <2>5, FinishSerial
  <2>6. ASSUME NEW r \in Triggers, NEW b \in todo[r], SaveBatch(r, b) \/ FailBatch(r, b)
        PROVE  SerialInv' /\ ErrorsBounded'
    <3>1. Quiet
      BY <2>6 DEF SaveBatch, SaveBatchWith, FailBatch, InProgress
    <3>. QED  BY <3>1, <2>1
  <2>7. ASSUME NEW q \in Readers,
               ReadMeta(q) \/ ListFiles(q) \/ (\E n \in listed[q] : LoadFile(q, n)) \/ Answer(q)
        PROVE  SerialInv' /\ ErrorsBounded'
    <3>1. UNCHANGED <<file, clients, meta>> /\ \E label : pc' = [pc EXCEPT ![q] = label]
      <4>1. q \in DOMAIN pc
        BY DEF Inv, TypeOK, Requests
      <4>2. ASSUME NEW n \in listed[q], LoadFile(q, n)
            PROVE  pc' = [pc EXCEPT ![q] = pc[q]]
        BY <4>1, <4>2 DEF LoadFile, Inv, TypeOK
      <4>. QED  BY <2>7, <4>2 DEF ReadMeta, ReadMetaWith, ListFiles, LoadFile, Answer, Goto
    <3>2. \A t \in Triggers : t # q /\ pc'[t] = pc[t]
      BY <3>1, StatisticsAssumption DEF Inv, TypeOK, Requests
    <3>3. Quiet
      BY <3>1, <3>2 DEF InProgress
    <3>. QED  BY <3>3, <2>1
  <2>8. ASSUME NEW r \in Requests, Fail(r)
        PROVE  SerialInv' /\ ErrorsBounded'
    <3>1. /\ UNCHANGED <<file, clients>> /\ pc' = [pc EXCEPT ![r] = "failed"] /\ InProgress(r)
          /\ meta' = [t \in Triggers |-> IF t = r THEN NoFile ELSE meta[t]]
      BY <2>8 DEF Fail, End, Goto
    <3>2. \A t \in Triggers : pc'[t] = (IF t = r THEN "failed" ELSE pc[t]) /\ (t # r => meta'[t] = meta[t])
      BY <3>1 DEF Inv, TypeOK, Requests
    <3>3. pc[r] # "errored"
      BY <3>1 DEF InProgress, Steps
    <3>4. Quiet
      BY <3>1, <3>2, <3>3 DEF InProgress, Steps, Computing
    <3>. QED  BY <3>4, <2>1
  <2>9. CASE Tick \/ UNCHANGED vars
    <3>1. Quiet
      BY <2>9 DEF Tick, vars, InProgress
    <3>. QED  BY <3>1, <2>1
  <2>. HIDE DEF Quiet
  <2>. QED  BY <2>2, <2>3, <2>4, <2>5, <2>6, <2>7, <2>8, <2>9 DEF Next, Compute
<1>. QED  BY <1>1, <1>2, Invariance, PTL DEF Spec

\* ErrorsBounded, for any number of triggers, failures and hours: if triggers do
\* not race, computations that end in error are no more than _max_computation_retry_count.
THEOREM ErrorsCounted == Spec => []ErrorsBounded
BY SerialInvariance, PTL

\* No step of triggers that do not race changes a file that says complete.
LEMMA FinalStep ==
    ASSUME Inv, SerialInv, [Next]_vars, clients = "serial", file # NoFile, file.status = "complete"
    PROVE  file' = file
<1>1. \A r \in Triggers : pc[r] \notin {"starting", "started", "computing"}
  BY DEF SerialInv, Computing
<1>. QED  BY <1>1 DEF Next, Compute, Trigger, FetchMeta, FetchWith, PushStarted, PushRunning, SaveBatch,
             SaveBatchWith, FailBatch, Finish, ReadMeta, ReadMetaWith, ListFiles, LoadFile, Answer,
             Fail, Tick, vars

\* CompleteIsFinal: if triggers do not race, statistics that are complete are not
\* computed again.
THEOREM CompleteStays == Spec => CompleteIsFinal
<1>1. Inv /\ SerialInv /\ [Next]_vars
        => [clients = "serial" /\ file # NoFile /\ file.status = "complete" => file' = file]_vars
  BY FinalStep
<1>. QED  BY <1>1, Invariance, SerialInvariance, PTL DEF Spec, CompleteIsFinal

\* A reader goes on if the file says complete, which it still does then.
LEMMA ReadersAtCompleteProved == Spec => []ReadersAtComplete
<1>1. Init => ReadersAtComplete
  BY DEF Init, ReadersAtComplete, Requests
<1>2. Inv /\ SerialInv /\ ReadersAtComplete /\ [Next]_vars => ReadersAtComplete'
  <2>. SUFFICES ASSUME Inv, SerialInv, ReadersAtComplete, [Next]_vars, clients' = "serial",
                       NEW q \in Readers, pc'[q] \in {"listing", "loading"}
       PROVE  file' # NoFile /\ file'.status = "complete"
    BY DEF ReadersAtComplete
  <2>1. clients = "serial"
    BY DEF Next, Compute, Trigger, FetchMeta, FetchWith, PushStarted, PushRunning, SaveBatch,
           SaveBatchWith, FailBatch, Finish, ReadMeta, ReadMetaWith, ListFiles, LoadFile, Answer,
           Fail, Tick, vars
  <2>2. CASE pc[q] \in {"listing", "loading"}
    BY <2>1, <2>2, FinalStep DEF ReadersAtComplete
  <2>3. CASE pc[q] \notin {"listing", "loading"}
    <3>1. ReadMeta(q)
      <4>1. \A r \in Triggers : r # q
        BY StatisticsAssumption
      <4>2. ASSUME NEW r \in Requests, NEW label, pc' = [pc EXCEPT ![r] = label], r # q
            PROVE  FALSE
        BY <2>3, <4>2 DEF Inv, TypeOK, Requests
      <4>3. ASSUME pc' = pc
            PROVE  FALSE
        BY <2>3, <4>3
      <4>4. ASSUME NEW r \in Triggers, Trigger(r) \/ Compute(r) \/ (\E b \in todo[r] : FailBatch(r, b))
            PROVE  FALSE
        BY <4>1, <4>2, <4>3, <4>4 DEF Requests, Compute, Trigger, FetchMeta, FetchWith, PushStarted,
           PushRunning, SaveBatch, SaveBatchWith, FailBatch, Finish, End, Goto
      <4>5. ASSUME NEW p \in Readers, p # q,
                   ReadMeta(p) \/ ListFiles(p) \/ (\E n \in listed[p] : LoadFile(p, n)) \/ Answer(p)
            PROVE  FALSE
        <5>1. CASE ReadMeta(p)
          BY <4>2, <4>5, <5>1, ReadMetaEffect DEF Requests
        <5>2. CASE ListFiles(p) \/ (\E n \in listed[p] : LoadFile(p, n)) \/ Answer(p)
          BY <4>2, <4>3, <4>5, <5>2 DEF Requests, ListFiles, LoadFile, Answer, Goto
        <5>. QED  BY <4>5, <5>1, <5>2
      <4>6. ~ (ListFiles(q) \/ (\E n \in listed[q] : LoadFile(q, n)) \/ Answer(q))
        BY <2>3 DEF ListFiles, LoadFile, Answer
      <4>7. ASSUME NEW r \in Requests, Fail(r)
            PROVE  FALSE
        BY <2>3, <4>2, <4>7 DEF Fail, End, Goto, Inv, TypeOK, Requests
      <4>8. ~ (Tick \/ UNCHANGED vars)
        BY <4>3 DEF Tick, vars
      <4>. QED  BY <4>4, <4>5, <4>6, <4>7, <4>8 DEF Next
    <3>. QED  BY <2>3, <3>1, ReadMetaEffect DEF Inv, TypeOK, Requests
  <2>. QED  BY <2>2, <2>3
<1>. QED  BY <1>1, <1>2, Invariance, SerialInvariance, PTL DEF Spec

-----------------------------------------------------------------------------
(* What is stored *)

(* A column is covered by the batches it is in, if it can be computed. *)
LEMMA InCovered ==
    \A S, x : x \in Covered(S) <=> x \in Computable /\ \E b \in S : x \in ColumnsOf(b)
BY DEF Covered

LEMMA InCoveredOne == \A b, x : x \in Covered({b}) <=> x \in Computable /\ x \in ColumnsOf(b)
BY DEF Covered

(* A file is named after a column of its batch, so that the files of one     *)
(* computation, whose batches have no column in common, have names of their own. *)
LEMMA NameInside ==
    ASSUME NEW b \in Seq(Columns), Covered({b}) # {}
    PROVE  FileName(b)[1] \in ColumnsOf(b)
<1>1. Computed(b) \subseteq Nat /\ Computed(b) # {}
  BY DEF Computed, Covered, ColumnsOf
<1>2. PICK m \in Computed(b) : \A y \in Computed(b) : ~ (<<y, m>> \in OpToRel(<, Nat))
  BY <1>1, WFMin, NatLessThanWellFounded
<1>3. m \in Computed(b) /\ \A y \in Computed(b) : m <= y
  <2> SUFFICES ASSUME NEW y \in Computed(b) PROVE m <= y
    OBVIOUS
  <2>1. ~ (y < m)
    BY <1>1, <1>2 DEF OpToRel
  <2> QED BY <1>1, <2>1
<1>4. Min(Computed(b)) \in Computed(b)
  BY <1>3 DEF Min
<1> QED BY <1>4 DEF FileName, Computed, ColumnsOf

LEMMA NamesDiffer ==
    ASSUME Inv, NEW G \in groupings, NEW b \in G, NEW c \in G, b # c,
           Covered({b}) # {}, Covered({c}) # {}
    PROVE  FileName(b) # FileName(c)
<1>1. IsGrouping(G)
  BY GroupingAssumption DEF Inv, TypeOK
<1>2. /\ b \in Seq(Columns) /\ c \in Seq(Columns)
      /\ ColumnsOf(b) \cap ColumnsOf(c) = {}
  BY <1>1 DEF IsGrouping
<1>3. FileName(b)[1] \in ColumnsOf(b) /\ FileName(c)[1] \in ColumnsOf(c)
  BY <1>2, NameInside
<1> QED BY <1>2, <1>3

(* A batch that is kept is covered by what is stored. *)
LEMMA KeptCovered ==
    ASSUME Inv, NEW b \in Storable, Kept(b)
    PROVE  Covered({b}) \subseteq Covered(stored)
<1>1. PICK c \in FileNamed(FileName(b)) : c = b \/ NamesTell
  BY DEF Kept
<1>2. c \in stored /\ c \in Storable /\ FileName(c) = FileName(b)
  BY DEF FileNamed, Inv, TypeOK
<1>3. Covered({c}) = Covered({b})
  BY <1>1, <1>2 DEF NamesTell
<1> QED BY <1>2, <1>3, InCovered, InCoveredOne

(* Steps that save nothing. *)
LEMMA QuietStored ==
    ASSUME StoredInv, UNCHANGED <<stored, clients, groupings, listed, got>>,
           \A r \in Triggers : pc'[r] = "computing" =>
              \/ todo'[r] \in groupings
              \/ /\ pc[r] = "computing" /\ todo'[r] \subseteq todo[r]
                 /\ \A b \in todo[r] \cup errors[r] :
                      b \in todo'[r] \cup errors'[r] \/ Covered({b}) = {},
           FilesKept =>
             /\ file' # NoFile /\ file'.status = "complete" =>
                  \/ file # NoFile /\ file.status = "complete"
                  \/ Covered(stored) = Computable
             /\ \A q \in Readers :
                  /\ pc'[q] = "listing" => pc[q] = "listing" \/ Covered(stored) = Computable
                  /\ pc'[q] = "loading" => pc[q] = "loading"
                  /\ pc'[q] = "answered" => pc[q] = "answered" \/ Covered(got[q]) = Computable
    PROVE  StoredInv'
<1>1. (FilesKept' <=> FilesKept) /\ (NamesTell' <=> NamesTell)
  BY DEF FilesKept, NamesTell, Storable, Batches
<1>2. \A b : Kept(b)' <=> Kept(b)
  BY <1>1 DEF Kept, FileNamed
<1>3. BatchesAccounted'
  <2> SUFFICES ASSUME FilesKept, NEW r \in Triggers, pc'[r] = "computing"
               PROVE  \E G \in groupings :
                        /\ todo'[r] \subseteq G
                        /\ \A b \in G \ (todo'[r] \cup errors'[r]) : Covered({b}) # {} => Kept(b)
    BY <1>1, <1>2 DEF BatchesAccounted
  <2>1. CASE todo'[r] \in groupings
    BY <2>1
  <2>2. CASE todo'[r] \notin groupings
    <3>1. PICK G \in groupings :
            /\ todo[r] \subseteq G
            /\ \A b \in G \ (todo[r] \cup errors[r]) : Covered({b}) # {} => Kept(b)
      BY <2>2 DEF StoredInv, BatchesAccounted
    <3> QED BY <2>2, <3>1
  <2> QED BY <2>1, <2>2
<1>4. ReadersSound'
  BY <1>1 DEF StoredInv, ReadersSound
<1>5. CompleteIsStored' /\ ReadersGetAll'
  BY <1>1 DEF StoredInv, CompleteIsStored, ReadersGetAll
<1> QED BY <1>3, <1>4, <1>5 DEF StoredInv

(* A batch is saved over the file of its name.  If names tell, it has what   *)
(* that file had; if not, the file is of an earlier computation, and nobody  *)
(* counts on it.                                                             *)
LEMMA SaveStored ==
    ASSUME Inv, SerialInv, ReadersAtComplete, StoredInv,
           NEW r \in Triggers, NEW b \in todo[r], SaveBatch(r, b), Covered({b}) # {}
    PROVE  StoredInv'
<1>1. /\ b \in Storable /\ pc[r] = "computing"
      /\ todo' = [todo EXCEPT ![r] = @ \ {b}]
      /\ stored' = {c \in stored : FileName(c) # FileName(b)} \cup {b}
      /\ UNCHANGED <<file, clients, groupings, pc, errors, listed, got>>
  BY DEF Inv, TypeOK, Storable, SaveBatch, SaveBatchWith, FileNamed
<1>2. (FilesKept' <=> FilesKept) /\ (NamesTell' <=> NamesTell)
  BY <1>1 DEF FilesKept, NamesTell, Storable, Batches
<1>3. StoredInv' \/ FilesKept
  BY <1>2 DEF StoredInv, BatchesAccounted, ReadersSound, CompleteIsStored, ReadersGetAll
<1> SUFFICES ASSUME FilesKept PROVE StoredInv'
  BY <1>3
<1>4. \A S : Covered(S) \subseteq Computable
  BY DEF Covered
<1>5. ASSUME NamesTell, NEW c \in stored
      PROVE  \E d \in stored' : FileName(d) = FileName(c) /\ Covered({d}) = Covered({c})
  <2>1. CASE FileName(c) = FileName(b)
    BY <1>1, <1>5, <2>1 DEF NamesTell, Inv, TypeOK
  <2>2. CASE FileName(c) # FileName(b)
    BY <1>1, <2>2
  <2> QED BY <2>1, <2>2
<1>6. ASSUME clients = "serial"
      PROVE  /\ \A t \in Triggers : pc[t] = "computing" => t = r
             /\ ~ (file # NoFile /\ file.status = "complete")
             /\ \A q \in Readers : pc[q] \notin {"listing", "loading"}
  BY <1>1, <1>6 DEF SerialInv, Computing, InProgress, Steps, ReadersAtComplete
<1>7. clients = "serial" \/ NamesTell
  BY DEF FilesKept
<1>8. BatchesAccounted'
  <2> SUFFICES ASSUME NEW t \in Triggers, pc[t] = "computing"
               PROVE  \E G \in groupings :
                        /\ todo'[t] \subseteq G
                        /\ \A x \in G \ (todo'[t] \cup errors[t]) : Covered({x}) # {} => Kept(x)'
    BY <1>1 DEF BatchesAccounted
  <2>1. PICK G \in groupings :
          /\ todo[t] \subseteq G
          /\ \A x \in G \ (todo[t] \cup errors[t]) : Covered({x}) # {} => Kept(x)
    BY DEF StoredInv, BatchesAccounted
  <2>2. todo'[t] = IF t = r THEN todo[t] \ {b} ELSE todo[t]
    BY <1>1 DEF Inv, TypeOK
  <2>3. ASSUME NEW x \in G, x \notin todo'[t], x \notin errors[t], Covered({x}) # {}
        PROVE  Kept(x)'
    <3>1. CASE x = b
      BY <1>1, <3>1 DEF Kept, FileNamed
    <3>2. CASE x # b
      <4>1. Kept(x)
        BY <2>1, <2>2, <2>3, <3>2
      <4>2. PICK c \in stored : FileName(c) = FileName(x) /\ (c = x \/ NamesTell)
        BY <4>1 DEF Kept, FileNamed
      <4>3. CASE NamesTell
        <5>1. PICK d \in stored' : FileName(d) = FileName(x)
          BY <1>5, <4>2, <4>3
        <5> QED BY <1>2, <4>3, <5>1 DEF Kept, FileNamed
      <4>4. CASE ~ NamesTell
        <5>1. t = r /\ b \in G
          BY <1>6, <1>7, <2>1, <4>4
        <5>2. FileName(x) # FileName(b)
          BY <2>3, <3>2, <5>1, NamesDiffer
        <5>3. x \in stored'
          BY <1>1, <4>2, <4>4, <5>2
        <5> QED BY <5>3 DEF Kept, FileNamed
      <4> QED BY <4>3, <4>4
    <3> QED BY <3>1, <3>2
  <2> QED BY <2>1, <2>2, <2>3
<1>9. ASSUME NamesTell
      PROVE  Covered(stored) \subseteq Covered(stored')
  <2>1. ASSUME NEW x \in Covered(stored)
        PROVE  x \in Covered(stored')
    <3>1. PICK c \in stored : x \in Computable /\ x \in ColumnsOf(c)
      BY <2>1, InCovered, <1>4
    <3>2. PICK d \in stored' : Covered({d}) = Covered({c})
      BY <1>5, <1>9
    <3> QED BY <3>1, <3>2, InCovered, InCoveredOne
  <2> QED BY <2>1
<1>10. CompleteIsStored' /\ ReadersGetAll'
  BY <1>1, <1>2, <1>6, <1>7, <1>9, <1>4 DEF StoredInv, CompleteIsStored, ReadersGetAll
<1>11. ReadersSound'
  <2> SUFFICES ASSUME NEW q \in Readers
               PROVE  /\ pc[q] = "listing" => Covered(stored') = Computable
                      /\ pc[q] = "loading" =>
                           Covered(got[q] \cup {c \in stored' : FileName(c) \in listed[q]}) = Computable
    BY <1>1 DEF ReadersSound
  <2>1. CASE NamesTell
    <3>1. pc[q] = "listing" => Covered(stored') = Computable
      BY <1>9, <1>4, <2>1 DEF StoredInv, ReadersSound
    <3>2. ASSUME pc[q] = "loading", NEW x \in Computable
          PROVE  x \in Covered(got[q] \cup {c \in stored' : FileName(c) \in listed[q]})
      <4>1. x \in Covered(got[q] \cup {c \in stored : FileName(c) \in listed[q]})
        BY <3>2 DEF StoredInv, ReadersSound
      <4>2. PICK c \in got[q] \cup {e \in stored : FileName(e) \in listed[q]} : x \in ColumnsOf(c)
        BY <4>1, InCovered
      <4>3. CASE c \in got[q]
        BY <4>2, <4>3, InCovered
      <4>4. CASE c \in stored /\ FileName(c) \in listed[q]
        <5>1. PICK d \in stored' : FileName(d) = FileName(c) /\ Covered({d}) = Covered({c})
          BY <1>5, <2>1, <4>4
        <5>2. x \in ColumnsOf(d)
          BY <4>2, <5>1, InCoveredOne
        <5> QED BY <4>4, <5>1, <5>2, InCovered
      <4> QED BY <4>2, <4>3, <4>4
    <3> QED BY <1>4, <3>1, <3>2
  <2>2. CASE clients = "serial"
    BY <1>6, <2>2
  <2> QED BY <1>7, <2>1, <2>2
<1> QED BY <1>8, <1>10, <1>11 DEF StoredInv

(* A computation that ends without errors has stored all there is to store. *)
LEMMA FinishComplete ==
    ASSUME Inv, StoredInv, FilesKept, NEW r \in Triggers, Finish(r), file'.status = "complete"
    PROVE  Covered(stored) = Computable
<1>1. pc[r] = "computing" /\ todo[r] = {} /\ errors[r] = {}
  <2>1. meta[r] \in Meta
    BY DEF Finish, Inv, MetaFits
  <2> QED BY <2>1 DEF Finish, Written, Meta
<1>2. PICK G \in groupings : \A b \in G : Covered({b}) # {} => Kept(b)
  BY <1>1 DEF StoredInv, BatchesAccounted
<1>3. IsGrouping(G)
  BY GroupingAssumption DEF Inv, TypeOK
<1>4. ASSUME NEW x \in Computable
      PROVE  x \in Covered(stored)
  <2>1. PICK b \in G : x \in ColumnsOf(b)
    BY <1>3, StatisticsAssumption DEF IsGrouping
  <2>2. x \in Covered({b})
    BY <2>1, InCoveredOne
  <2>3. b \in Storable /\ Kept(b)
    BY <1>2, <2>2 DEF Storable, Batches
  <2> QED BY <2>2, <2>3, KeptCovered
<1> QED BY <1>4 DEF Covered

(* Listing and loading what is complete finds all of it. *)
LEMMA ReaderStored ==
    ASSUME Inv, StoredInv, NEW q \in Readers, ListFiles(q) \/ (\E n \in listed[q] : LoadFile(q, n))
    PROVE  StoredInv'
<1>1. /\ UNCHANGED <<file, stored, clients, groupings, todo, errors>>
      /\ \A r \in Triggers : pc'[r] = pc[r]
      /\ \A p \in Readers \ {q} : pc'[p] = pc[p] /\ listed'[p] = listed[p] /\ got'[p] = got[p]
  BY StatisticsAssumption DEF Inv, TypeOK, Requests, ListFiles, LoadFile, Goto
<1>2. (FilesKept' <=> FilesKept) /\ (NamesTell' <=> NamesTell)
  BY <1>1 DEF FilesKept, NamesTell, Storable, Batches
<1>3. BatchesAccounted' /\ CompleteIsStored'
  BY <1>1, <1>2 DEF StoredInv, BatchesAccounted, CompleteIsStored, Kept, FileNamed
<1>4. CASE ListFiles(q)
  <2>1. /\ pc[q] = "listing" /\ got' = got /\ pc'[q] \in {"loading", "valueError"}
        /\ listed'[q] = {FileName(b) : b \in stored}
    BY <1>4 DEF Inv, TypeOK, Requests, ListFiles, Goto
  <2>2. FilesKept => Covered(got'[q] \cup {b \in stored : FileName(b) \in listed'[q]}) = Computable
    <3>1. FilesKept => Covered(stored) = Computable
      BY <2>1 DEF StoredInv, ReadersSound
    <3>2. {b \in stored : FileName(b) \in listed'[q]} = stored
      BY <2>1
    <3> QED BY <3>1, <3>2 DEF Covered
  <2> QED BY <1>1, <1>2, <1>3, <2>1, <2>2 DEF StoredInv, ReadersSound, ReadersGetAll
<1>5. ASSUME NEW n \in listed[q], LoadFile(q, n)
      PROVE  StoredInv'
  <2>1. /\ pc[q] = "loading" /\ pc' = pc
        /\ listed'[q] = listed[q] \ {n}
        /\ got'[q] = got[q] \cup {b \in stored : FileName(b) = n}
    BY <1>5 DEF Inv, TypeOK, LoadFile, FileNamed
  <2>2. got'[q] \cup {b \in stored : FileName(b) \in listed'[q]}
          = got[q] \cup {b \in stored : FileName(b) \in listed[q]}
    BY <1>5, <2>1
  <2> QED BY <1>1, <1>2, <1>3, <2>1, <2>2 DEF StoredInv, ReadersSound, ReadersGetAll
<1> QED BY <1>4, <1>5

(* While computations keep each other's files, a batch that is no longer     *)
(* waited for failed or is stored, and readers find all of what is complete. *)
THEOREM StoredInvariance == Spec => []StoredInv
<1>1. Init => StoredInv
  BY DEF Init, StoredInv, BatchesAccounted, ReadersSound, CompleteIsStored, ReadersGetAll, Requests
<1>2. Inv /\ SerialInv /\ ReadersAtComplete /\ StoredInv /\ [Next]_vars => StoredInv'
  <2> SUFFICES ASSUME Inv, SerialInv, ReadersAtComplete, StoredInv, [Next]_vars
               PROVE  StoredInv'
    OBVIOUS
  <2>1. ASSUME NEW r \in Triggers, Trigger(r) \/ FetchMeta(r) \/ PushStarted(r) \/ PushRunning(r)
        PROVE  StoredInv'
    <3>1. /\ UNCHANGED <<stored, clients, groupings, errors, listed, got>>
          /\ \/ todo' = todo /\ pc'[r] # "computing"
             \/ \E G \in groupings : todo' = [todo EXCEPT ![r] = G]
          /\ \A p \in Requests : p # r => pc'[p] = pc[p]
          /\ file' = file \/ file'.status \in {"started", "running"}
      <4>1. ASSUME FetchMeta(r) PROVE <3>1
        <5>1. (IF file = NoFile THEN "starting" ELSE Check(file)) # "computing"
          BY CheckTypes DEF Inv, TypeOK
        <5> QED BY <4>1, <5>1 DEF FetchMeta, FetchWith, Goto, Inv, TypeOK, Requests
      <4>2. ASSUME Trigger(r) PROVE <3>1
        BY <4>2 DEF Trigger, Goto, Inv, TypeOK, Requests
      <4>3. ASSUME PushStarted(r) PROVE <3>1
        BY <4>3 DEF PushStarted, Goto, Inv, TypeOK, MetaFits, Requests
      <4>4. ASSUME PushRunning(r) PROVE <3>1
        <5>1. meta[r] \in Meta /\ file' = [meta[r] EXCEPT !.status = "running"]
          BY <4>4 DEF PushRunning, Inv, TypeOK, MetaFits
        <5>2. file'.status = "running"
          BY <5>1 DEF Meta
        <5> QED BY <4>4, <5>2 DEF PushRunning, Goto, Inv, TypeOK, Requests
      <4> QED BY <2>1, <4>1, <4>2, <4>3, <4>4
    <3>2. \A t \in Triggers : pc'[t] = "computing" =>
            \/ todo'[t] \in groupings
            \/ pc[t] = "computing" /\ todo'[t] = todo[t] /\ errors'[t] = errors[t]
      BY <3>1 DEF Inv, TypeOK, Requests
    <3>3. \A q \in Readers : pc'[q] = pc[q]
      BY <3>1, StatisticsAssumption DEF Requests
    <3> QED BY <3>1, <3>2, <3>3, QuietStored
  <2>2. ASSUME NEW r \in Triggers, NEW b \in todo[r], SaveBatch(r, b) \/ FailBatch(r, b)
        PROVE  StoredInv'
    <3>1. CASE SaveBatch(r, b) /\ Covered({b}) # {}
      BY <3>1, SaveStored
    <3>2. CASE ~ (SaveBatch(r, b) /\ Covered({b}) # {})
      <4>1. /\ UNCHANGED <<file, stored, clients, groupings, pc, listed, got>>
            /\ pc[r] = "computing" /\ todo' = [todo EXCEPT ![r] = @ \ {b}]
            /\ \/ errors' = errors /\ Covered({b}) = {}
               \/ errors' = [errors EXCEPT ![r] = @ \cup {b}]
        BY <2>2, <3>2 DEF SaveBatch, SaveBatchWith, FailBatch
      <4>2. \A t \in Triggers :
              /\ todo'[t] = IF t = r THEN todo[t] \ {b} ELSE todo[t]
              /\ errors[t] \subseteq errors'[t] /\ (t = r => b \in errors'[t] \/ Covered({b}) = {})
        BY <4>1 DEF Inv, TypeOK
      <4>3. \A t \in Triggers : pc'[t] = "computing" =>
              /\ pc[t] = "computing" /\ todo'[t] \subseteq todo[t]
              /\ \A x \in todo[t] \cup errors[t] : x \in todo'[t] \cup errors'[t] \/ Covered({x}) = {}
        <5>1. ASSUME NEW t \in Triggers, NEW x \in todo[t] \cup errors[t]
              PROVE  x \in todo'[t] \cup errors'[t] \/ Covered({x}) = {}
          <6>1. CASE t = r /\ x = b
            BY <4>2, <6>1
          <6>2. CASE ~ (t = r /\ x = b)
            BY <4>2, <6>2
          <6> QED BY <6>1, <6>2
        <5>2. \A t \in Triggers : pc'[t] = "computing" => pc[t] = "computing" /\ todo'[t] \subseteq todo[t]
          BY <4>1, <4>2
        <5> QED BY <5>1, <5>2
      <4> QED BY <4>1, <4>3, QuietStored
    <3> QED BY <3>1, <3>2
  <2>3. ASSUME NEW r \in Triggers, Finish(r)
        PROVE  StoredInv'
    <3>1. /\ UNCHANGED <<stored, clients, groupings, listed, got>> /\ pc'[r] # "computing"
          /\ \A t \in Triggers : t # r => todo'[t] = todo[t] /\ errors'[t] = errors[t] /\ pc'[t] = pc[t]
          /\ \A q \in Readers : pc'[q] = pc[q]
      BY <2>3, StatisticsAssumption DEF Finish, End, Goto, Inv, TypeOK, Requests
    <3>2. FilesKept /\ file'.status = "complete" => Covered(stored) = Computable
      BY <2>3, FinishComplete
    <3> QED BY <3>1, <3>2, QuietStored
  <2>4. ASSUME NEW q \in Readers, ReadMeta(q) \/ Answer(q)
        PROVE  StoredInv'
    <3>1. UNCHANGED <<file, stored, clients, groupings, todo, errors, listed, got>>
      BY <2>4 DEF ReadMeta, ReadMetaWith, Answer
    <3>2. /\ \A p \in Requests : p # q => pc'[p] = pc[p]
          /\ pc'[q] = "listing" => file # NoFile /\ file.status = "complete"
          /\ pc'[q] # "loading"
          /\ pc'[q] = "answered" => pc[q] = "loading" /\ listed[q] = {}
      <4>1. CASE ReadMeta(q)
        <5>1. PICK label \in {"noCatalog", "notFound", "empty", "listing", "notComplete", "unknownCurves"} :
                /\ pc' = [pc EXCEPT ![q] = label]
                /\ label = "listing" => file # NoFile /\ file.status = "complete"
          BY <4>1, ReadMetaEffect
        <5> QED BY <5>1 DEF Inv, TypeOK, Requests
      <4>2. CASE Answer(q)
        BY <4>2 DEF Answer, Goto, Inv, TypeOK, Requests
      <4> QED BY <2>4, <4>1, <4>2
    <3>3. FilesKept /\ pc'[q] = "listing" => Covered(stored) = Computable
      BY <3>2 DEF StoredInv, CompleteIsStored
    <3>4. FilesKept /\ pc'[q] = "answered" => Covered(got[q]) = Computable
      <4> SUFFICES ASSUME FilesKept, pc[q] = "loading", listed[q] = {}
                   PROVE  Covered(got[q]) = Computable
        BY <3>2
      <4>1. got[q] \cup {b \in stored : FileName(b) \in listed[q]} = got[q]
        OBVIOUS
      <4> QED BY <4>1 DEF StoredInv, ReadersSound
    <3>5. \A t \in Triggers : pc'[t] = pc[t]
      BY <3>2, StatisticsAssumption DEF Requests
    <3>6. \A p \in Readers : p # q => pc'[p] = pc[p]
      BY <3>2 DEF Requests
    <3> QED BY <3>1, <3>2, <3>3, <3>4, <3>5, <3>6, QuietStored
  <2>5. ASSUME NEW q \in Readers, ListFiles(q) \/ (\E n \in listed[q] : LoadFile(q, n))
        PROVE  StoredInv'
    BY <2>5, ReaderStored
  <2>6. ASSUME NEW r \in Requests, Fail(r)
        PROVE  StoredInv'
    <3>1. /\ UNCHANGED <<file, stored, clients, groupings, listed, got>>
          /\ \A p \in Requests : pc'[p] = IF p = r THEN "failed" ELSE pc[p]
          /\ \A t \in Triggers : t # r => todo'[t] = todo[t] /\ errors'[t] = errors[t]
      BY <2>6 DEF Fail, End, Goto, Inv, TypeOK
    <3> QED BY <3>1, QuietStored DEF Requests
  <2>7. CASE Tick \/ UNCHANGED vars
    <3>1. UNCHANGED <<file, stored, clients, groupings, pc, todo, errors, listed, got>>
      BY <2>7 DEF Tick, vars
    <3> QED BY <3>1, QuietStored
  <2> QED BY <2>1, <2>2, <2>3, <2>4, <2>5, <2>6, <2>7 DEF Next, Compute
<1> QED BY <1>1, <1>2, Invariance, SerialInvariance, ReadersAtCompleteProved, PTL DEF Spec

(* CompleteIsStored, for any grouping of the columns: where names tell,      *)
(* however computations race; where they do not, if these do not race, after *)
(* any number of failed ones whose files are in the way.                     *)
THEOREM CompleteFileIsRight == Spec => []CompleteIsStored
<1>1. StoredInv => CompleteIsStored
  BY DEF StoredInv
<1> QED BY <1>1, StoredInvariance, PTL

(* ReadersGetAll, on the same conditions: what a reader is given has all the *)
(* columns, though files are saved over while it lists and loads them.       *)
THEOREM ReadersComplete == Spec => []ReadersGetAll
<1>1. StoredInv => ReadersGetAll
  BY DEF StoredInv
<1> QED BY <1>1, StoredInvariance, PTL

=============================================================================

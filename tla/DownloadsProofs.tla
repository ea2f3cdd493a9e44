--------------------------- MODULE DownloadsProofs ---------------------------
(***************************************************************************)
(* What holds of the downloads of a group for any number of streams and    *)
(* any lists of paths: no path is forgotten, a stream that fails stops its *)
(* downloads, and the group is merged as GroupMerge says.                  *)
(***************************************************************************)
EXTENDS Downloads, TLAPS

USE StreamAssumption DEF Ordered, Positions

(* Positions of a list are its indexes as a sequence, in particular numbers. *)
LEMMA PositionsAreIndexes ==
    ASSUME TypeOK, NEW s \in Streams
    PROVE  /\ Len(paths[s]) \in Nat
           /\ DOMAIN paths[s] = 1 .. Len(paths[s])
           /\ Len(merged[s]) \in Nat
           /\ DOMAIN merged[s] = 1 .. Len(merged[s])
           /\ DOMAIN task[s] = DOMAIN paths[s]
<1>1. paths[s] \in Seq(Range(paths[s]))
  BY PathAssumption DEF TypeOK
<1>2. merged[s] \in Seq(DOMAIN paths[s])
  BY DEF TypeOK
<1>3. DOMAIN task[s] = DOMAIN paths[s]
  BY DEF TypeOK
<1> QED BY <1>1, <1>2, <1>3

(* What appending to a sequence makes of it. *)
LEMMA AppendFacts ==
    ASSUME NEW S, NEW m \in Seq(S), NEW e \in S
    PROVE  /\ Append(m, e) \in Seq(S)
           /\ Len(Append(m, e)) = Len(m) + 1
           /\ DOMAIN Append(m, e) = 1 .. Len(m) + 1
           /\ \A j \in 1 .. Len(m) : Append(m, e)[j] = m[j]
           /\ Append(m, e)[Len(m) + 1] = e
OBVIOUS

(* The invariant holds of the initial states. *)
LEMMA InitInv == Init => Inv
<1> SUFFICES ASSUME Init PROVE Inv
  OBVIOUS
<1>1. TypeOK
  BY DEF Init, TypeOK
<1> QED BY <1>1 DEF Init, Inv, RunningPending, StreamEnds, OnePlace, InTurn, StageFits,
          NothingLost, RaisedStopsAll, AssertionHolds, IsInjective, Range, Ended

(* Starting a stream makes all its positions pending. *)
LEMMA StartStep ==
    ASSUME Inv, NEW s \in Streams, Start(s)
    PROVE  Inv'
<1> USE DEF Inv
<1>0. /\ DOMAIN paths[s] = 1 .. Len(paths[s]) /\ Len(paths[s]) \in Nat
  BY PositionsAreIndexes
<1>1. TypeOK'
  <2>1. /\ task'[s] = [i \in DOMAIN paths[s] |-> "running"]
        /\ \A r \in Streams \ {s} : task'[r] = task[r]
        /\ task' = [r \in Streams |-> task'[r]]
    <3>1. DOMAIN task = Streams
      BY DEF TypeOK
    <3> QED BY <3>1 DEF Start
  <2>2. /\ pending'[s] = DOMAIN paths[s] /\ \A r \in Streams \ {s} : pending'[r] = pending[r]
        /\ pending' \in [Streams -> SUBSET Nat]
    BY <1>0 DEF TypeOK, Start
  <2>3. turn' \in [Streams -> Nat] /\ UNCHANGED <<paths, byName, merged, stage>>
    BY DEF TypeOK, Start
  <2>4. pc' \in [Streams -> {"created", "waiting", "handing", "ended", "raised", "closed", "cancelled"}]
    BY DEF TypeOK, Start, Goto
  <2>5. \A r \in Streams : pending'[r] \subseteq DOMAIN paths[r]
    BY <2>2 DEF TypeOK
  <2>6. \A r \in Streams :
          task'[r] \in [DOMAIN paths[r] -> {"none", "running", "done", "failed", "cancelled"}]
    <3>1. \A r \in Streams \ {s} :
            task'[r] \in [DOMAIN paths[r] -> {"none", "running", "done", "failed", "cancelled"}]
      BY <2>1 DEF TypeOK
    <3>2. task'[s] \in [DOMAIN paths[s] -> {"none", "running", "done", "failed", "cancelled"}]
      BY <2>1
    <3> QED BY <3>1, <3>2
  <2> QED BY <2>1, <2>2, <2>3, <2>4, <2>5, <2>6 DEF TypeOK
<1>2. RunningPending' /\ RaisedStopsAll' /\ AssertionHolds'
  BY DEF TypeOK, RunningPending, RaisedStopsAll, AssertionHolds, Start, Goto
<1>3. StreamEnds' /\ StageFits'
  BY DEF TypeOK, StreamEnds, StageFits, Start, Goto, Ended
<1>4. OnePlace' /\ InTurn'
  BY DEF TypeOK, OnePlace, InTurn, StreamEnds, Start, Goto, Range, IsInjective
<1>5. NothingLost'
  <2>1. pending'[s] = DOMAIN paths[s] /\ \A r \in Streams \ {s} : pending'[r] = pending[r]
    BY DEF TypeOK, Start
  <2>2. pc'[s] = "ended" => DOMAIN paths[s] = {}
    BY DEF Start, Goto, TypeOK
  <2>3. /\ \A r \in Streams \ {s} : pc'[r] = pc[r]
        /\ UNCHANGED <<paths, byName, merged>>
    BY DEF Start, Goto, TypeOK
  <2>4. \A n \in Range(paths[s]) : \E i \in pending'[s] : paths[s][i] = n
    BY <2>1 DEF Range
  <2> QED BY <2>1, <2>3, <2>4 DEF NothingLost
<1> QED BY <1>1, <1>2, <1>3, <1>4, <1>5

(* The end of a download changes how its task is, nothing else. *)
LEMMA EndTaskStep ==
    ASSUME Inv, NEW s \in Streams, NEW i \in Positions(s),
           NEW r \in {"done", "failed"}, EndTask(s, i, r)
    PROVE  Inv'
<1> USE DEF Inv
<1>1. TypeOK'
  BY DEF TypeOK, EndTask
<1>2. RunningPending' /\ RaisedStopsAll' /\ AssertionHolds'
  BY DEF TypeOK, RunningPending, RaisedStopsAll, AssertionHolds, EndTask
<1>3. StreamEnds' /\ StageFits' /\ OnePlace' /\ InTurn' /\ NothingLost'
  BY DEF TypeOK, StreamEnds, StageFits, OnePlace, InTurn, NothingLost, EndTask, Ended
<1> QED BY <1>1, <1>2, <1>3

(* Waking files the tasks that ended: each name that leaves pending is filed. *)
LEMMA WakeStep ==
    ASSUME Inv, NEW s \in Streams, Wake(s)
    PROVE  Inv'
<1> USE DEF Inv
<1>1. PICK f \in Filings(s, DoneTasks(s)) : byName' = [byName EXCEPT ![s] = f]
  BY DEF Wake
<1> DEFINE D == DoneTasks(s)
           names == {paths[s][i] : i \in D}
<1>2. /\ D \subseteq pending[s] /\ pending[s] \subseteq DOMAIN paths[s]
      /\ \A i \in D : task[s][i] # "running"
  BY DEF DoneTasks, TypeOK
<1>3. /\ f \in [DOMAIN byName[s] \cup names -> DOMAIN paths[s]]
      /\ \A n \in names : f[n] \in D /\ paths[s][f[n]] = n
      /\ \A n \in DOMAIN byName[s] \ names : f[n] = byName[s][n]
  BY DEF Filings
<1>4. byName'[s] = f /\ \A r \in Streams \ {s} : byName'[r] = byName[r]
  <2>1. byName' = [byName EXCEPT ![s] = f]
    BY <1>1
  <2>2. byName = [r \in Streams |-> byName[r]]
    BY DEF TypeOK
  <2> QED BY <2>1, <2>2
<1>5. TypeOK'
  <2>1. f = [n \in DOMAIN f |-> f[n]] /\ \A n \in DOMAIN f : f[n] \in DOMAIN paths[s]
    BY <1>3
  <2> QED BY <1>4, <2>1, <1>1 DEF TypeOK, Wake, Goto
<1>6. RunningPending' /\ RaisedStopsAll' /\ AssertionHolds'
  BY <1>2 DEF TypeOK, RunningPending, RaisedStopsAll, AssertionHolds, Wake, Goto, DoneTasks
<1>7. StreamEnds' /\ StageFits' /\ InTurn'
  BY <1>4 DEF TypeOK, StreamEnds, StageFits, InTurn, Wake, Goto, Ended
<1>8. OnePlace'
  <2>1. pending'[s] = pending[s] \ D /\ \A r \in Streams \ {s} : pending'[r] = pending[r]
    BY DEF Wake, TypeOK
  <2>2. merged' = merged /\ paths' = paths
    BY DEF Wake
  <2>3. \A n \in DOMAIN f :
           /\ paths[s][f[n]] = n
           /\ f[n] \notin (pending[s] \ D) \cup Range(merged[s])
    BY <1>2, <1>3 DEF OnePlace
  <2> QED BY <1>4, <2>1, <2>2, <2>3 DEF OnePlace
<1>9. NothingLost'
  <2>1. pending'[s] = pending[s] \ D /\ \A r \in Streams \ {s} : pending'[r] = pending[r]
    BY DEF Wake, TypeOK
  <2>2. /\ merged' = merged /\ paths' = paths /\ pc[s] = "waiting"
        /\ \A r \in Streams \ {s} : pc'[r] = pc[r]
    BY DEF Wake, Goto, TypeOK
  <2>3. DOMAIN f = DOMAIN byName[s] \cup names
    BY <1>3
  <2>4. ASSUME NEW n \in Range(paths[s])
        PROVE  \/ n \in DOMAIN f
               \/ \E i \in (pending[s] \ D) \cup Range(merged[s]) : paths[s][i] = n
    BY <2>2, <2>3 DEF NothingLost
  <2> QED BY <1>4, <2>1, <2>2, <2>4 DEF NothingLost
<1> QED BY <1>5, <1>6, <1>7, <1>8, <1>9

(* The task handed is at the turn of its stream, if the stream has an order. *)
LEMMA HandedInTurn ==
    ASSUME Inv, NEW s \in Streams, pc[s] = "handing", NEW n, MayHand(s, n)
    PROVE  /\ byName[s][n] \in DOMAIN paths[s]
           /\ paths[s][byName[s][n]] = n
           /\ byName[s][n] \notin pending[s] \cup Range(merged[s])
           /\ s \in Ordered => byName[s][n] = Len(merged[s]) + 1 /\ turn[s] = byName[s][n]
<1> USE DEF Inv
<1> DEFINE i == byName[s][n]
<1>1. i \in DOMAIN paths[s] /\ paths[s][i] = n /\ i \notin pending[s] \cup Range(merged[s])
  BY DEF TypeOK, OnePlace, MayHand
<1>2. ASSUME s \in Ordered
      PROVE  i = Len(merged[s]) + 1 /\ turn[s] = i
  <2>1. turn[s] = Len(merged[s]) + 1 /\ \A j \in DOMAIN merged[s] : merged[s][j] = j
    BY <1>2 DEF InTurn
  <2>2. DOMAIN merged[s] = 1 .. Len(merged[s]) /\ Len(merged[s]) \in Nat
        /\ DOMAIN paths[s] = 1 .. Len(paths[s]) /\ Len(paths[s]) \in Nat
    BY PositionsAreIndexes
  <2>3. i \notin 1 .. Len(merged[s])
    BY <1>1, <2>1, <2>2 DEF Range
  <2>4. turn[s] \in DOMAIN paths[s]
    BY <1>1, <2>1, <2>2, <2>3
  <2>5. IsInjective(paths[s])
    BY <1>2, PathAssumption DEF TypeOK
  <2>6. paths[s][turn[s]] = n
    BY <2>4 DEF MayHand
  <2> QED BY <1>1, <2>1, <2>4, <2>5, <2>6 DEF IsInjective
<1> QED BY <1>1, <1>2

(* Handing moves a position from the filed to the merged. *)
LEMMA HandStep ==
    ASSUME Inv, NEW s \in Streams, NEW n \in Range(paths[s]), Hand(s, n)
    PROVE  Inv'
<1> USE DEF Inv
<1> DEFINE i == byName[s][n]
<1>1. /\ i \in DOMAIN paths[s] /\ paths[s][i] = n
      /\ i \notin pending[s] \cup Range(merged[s])
      /\ s \in Ordered => i = Len(merged[s]) + 1 /\ turn[s] = i
  BY HandedInTurn DEF Hand
<1>2. /\ pc[s] = "handing" /\ n \in DOMAIN byName[s]
      /\ UNCHANGED <<paths, task, pending, pc, stage>>
  BY DEF Hand, MayHand
<1>3. /\ byName'[s] = Restrict(byName[s], DOMAIN byName[s] \ {n})
      /\ \A r \in Streams \ {s} : byName'[r] = byName[r]
  BY DEF Hand, TypeOK
<1>4. /\ DOMAIN byName'[s] = DOMAIN byName[s] \ {n}
      /\ \A m \in DOMAIN byName'[s] : byName'[s][m] = byName[s][m]
  BY <1>3 DEF Restrict
<1>5. /\ merged'[s] = Append(merged[s], i)
      /\ \A r \in Streams \ {s} : merged'[r] = merged[r]
  BY DEF Hand, TypeOK
<1>6. /\ turn'[s] = IF turn[s] = 0 THEN 0 ELSE turn[s] + 1
      /\ \A r \in Streams \ {s} : turn'[r] = turn[r]
  BY DEF Hand, TypeOK
<1>7. /\ merged[s] \in Seq(DOMAIN paths[s]) /\ Len(merged[s]) \in Nat
      /\ DOMAIN merged[s] = 1 .. Len(merged[s])
  BY PositionsAreIndexes DEF TypeOK
<1>8. /\ Len(merged'[s]) = Len(merged[s]) + 1
      /\ DOMAIN merged'[s] = 1 .. Len(merged[s]) + 1
      /\ \A j \in 1 .. Len(merged[s]) : merged'[s][j] = merged[s][j]
      /\ merged'[s][Len(merged[s]) + 1] = i
      /\ merged'[s] \in Seq(DOMAIN paths[s])
  <2> DEFINE m == merged[s]
             S == DOMAIN paths[s]
  <2>1. m \in Seq(S) /\ i \in S
    BY <1>1, <1>7
  <2> HIDE DEF i, m, S
  <2>2. /\ Append(m, i) \in Seq(S)
        /\ Len(Append(m, i)) = Len(m) + 1
        /\ DOMAIN Append(m, i) = 1 .. Len(m) + 1
        /\ \A j \in 1 .. Len(m) : Append(m, i)[j] = m[j]
        /\ Append(m, i)[Len(m) + 1] = i
    BY <2>1, AppendFacts
  <2> QED BY <1>5, <2>2 DEF m, S
<1>9. Range(merged'[s]) = Range(merged[s]) \cup {i}
  BY SMTT(40), <1>7, <1>8 DEF Range
<1>10. TypeOK'
  <2>1. /\ byName' = [r \in Streams |-> byName'[r]]
        /\ merged' = [r \in Streams |-> merged'[r]]
    <3>1. DOMAIN byName = Streams /\ DOMAIN merged = Streams
      BY DEF TypeOK
    <3> QED BY <3>1 DEF Hand
  <2>3. turn' \in [Streams -> Nat]
    BY DEF Hand, TypeOK
  <2>2. byName'[s] \in [DOMAIN byName'[s] -> DOMAIN paths[s]]
    BY <1>3 DEF Restrict, TypeOK
  <2> QED BY <2>1, <2>2, <2>3, <1>2, <1>3, <1>5, <1>8 DEF TypeOK
<1>11. RunningPending' /\ RaisedStopsAll' /\ AssertionHolds' /\ StreamEnds' /\ StageFits'
  BY <1>2, <1>3, <1>5 DEF RunningPending, RaisedStopsAll, AssertionHolds, StreamEnds, StageFits, Ended
<1>12. OnePlace'
  <2>1. IsInjective(merged'[s])
    BY SMTT(40), <1>1, <1>7, <1>8 DEF OnePlace, IsInjective, Range
  <2>2. ASSUME NEW m \in DOMAIN byName'[s]
        PROVE  /\ paths[s][byName'[s][m]] = m
               /\ byName'[s][m] \notin pending[s] \cup Range(merged'[s])
    BY <1>1, <1>4, <1>9 DEF OnePlace
  <2>3. pending[s] \cap Range(merged'[s]) = {}
    BY <1>1, <1>9 DEF OnePlace
  <2>4. paths' = paths /\ pending' = pending
    BY <1>2
  <2>5. ASSUME NEW r \in Streams
        PROVE  /\ pending'[r] \cap Range(merged'[r]) = {}
               /\ IsInjective(merged'[r])
               /\ \A m \in DOMAIN byName'[r] :
                    /\ paths'[r][byName'[r][m]] = m
                    /\ byName'[r][m] \notin pending'[r] \cup Range(merged'[r])
    <3>1. CASE r = s
      BY <3>1, <2>1, <2>2, <2>3, <2>4
    <3>2. CASE r # s
      BY <3>2, <2>4, <1>3, <1>5 DEF OnePlace
    <3> QED BY <3>1, <3>2
  <2> QED BY <2>5 DEF OnePlace
<1>13. InTurn'
  <2>1. ASSUME s \in Ordered
        PROVE  /\ turn'[s] = Len(merged'[s]) + 1
               /\ \A j \in DOMAIN merged'[s] : merged'[s][j] = j
    <3>1. turn[s] = Len(merged[s]) + 1 /\ \A j \in DOMAIN merged[s] : merged[s][j] = j
      BY <1>2, <2>1 DEF InTurn
    <3>2. turn[s] # 0 /\ i = Len(merged[s]) + 1
      BY <1>1, <1>7, <2>1, <3>1
    <3> HIDE DEF i
    <3>3. \A j \in 1 .. Len(merged[s]) + 1 : merged'[s][j] = j
      BY SMTT(40), <1>7, <1>8, <3>1, <3>2
    <3> QED BY <1>6, <1>8, <3>1, <3>2, <3>3
  <2>2. turn'[Current] = 0
    BY <1>6 DEF InTurn, TypeOK
  <2>3. pc' = pc
    BY <1>2
  <2> QED BY <1>5, <1>6, <2>1, <2>2, <2>3 DEF InTurn
<1>14. NothingLost'
  <2>1. ASSUME NEW m \in Range(paths[s])
        PROVE  \/ m \in DOMAIN byName'[s]
               \/ \E j \in pending[s] \cup Range(merged'[s]) : paths[s][j] = m
    BY <1>1, <1>2, <1>4, <1>9 DEF NothingLost
  <2>2. paths' = paths /\ pending' = pending /\ pc' = pc
    BY <1>2
  <2>3. ASSUME NEW r \in Streams, pc'[r] \in {"waiting", "handing", "ended"},
               NEW m \in Range(paths'[r])
        PROVE  \/ m \in DOMAIN byName'[r]
               \/ \E j \in pending'[r] \cup Range(merged'[r]) : paths'[r][j] = m
    <3>1. CASE r = s
      BY <3>1, <2>1, <2>2, <2>3
    <3>2. CASE r # s
      BY <3>2, <2>2, <2>3, <1>3, <1>5 DEF NothingLost
    <3> QED BY <3>1, <3>2
  <2> QED BY <2>3 DEF NothingLost
<1> QED BY <1>10, <1>11, <1>12, <1>13, <1>14

(* The handler of the generator leaves no download running. *)
LEMMA RaiseStep ==
    ASSUME Inv, NEW s \in Streams, NEW n \in Range(paths[s]), Raise(s, n)
    PROVE  Inv'
<1> USE DEF Inv
<1>1. byName[s][n] \in DOMAIN paths[s] /\ byName[s][n] \notin pending[s]
  BY HandedInTurn DEF Raise
<1>2. /\ pc[s] = "handing" /\ pc'[s] = "raised"
      /\ \A r \in Streams \ {s} : pc'[r] = pc[r] /\ task'[r] = task[r]
      /\ UNCHANGED <<paths, pending, byName, turn, merged, stage>>
  BY DEF Raise, CancelPending, Goto, TypeOK
<1>3. /\ DOMAIN task'[s] = DOMAIN paths[s]
      /\ \A i \in DOMAIN paths[s] : task'[s][i] = IF i \in pending[s] /\ task[s][i] = "running"
                                                THEN "cancelled" ELSE task[s][i]
  BY DEF Raise, CancelPending, TypeOK
<1>4. TypeOK'
  BY DEF TypeOK, Raise, CancelPending, Goto
<1>5. RunningPending' /\ RaisedStopsAll'
  BY <1>2, <1>3 DEF RunningPending, RaisedStopsAll
<1>6. AssertionHolds'
  BY <1>1, <1>2, <1>3 DEF AssertionHolds, Raise
<1>7. StreamEnds' /\ StageFits' /\ OnePlace' /\ InTurn' /\ NothingLost'
  BY <1>2, StreamAssumption DEF StreamEnds, StageFits, OnePlace, InTurn, NothingLost, Ended
<1> QED BY <1>4, <1>5, <1>6, <1>7

(* A stream in order whose turn is not filed has that task pending. *)
LEMMA TurnPending ==
    ASSUME Inv, NEW s \in Streams, pc[s] = "handing", OutOfTurn(s)
    PROVE  pending[s] # {}
<1> USE DEF Inv
<1>1. s \in Ordered
  BY PositionsAreIndexes DEF OutOfTurn, InTurn
<1>2. turn[s] = Len(merged[s]) + 1 /\ \A j \in DOMAIN merged[s] : merged[s][j] = j
  BY <1>1 DEF InTurn
<1>3. DOMAIN merged[s] = 1 .. Len(merged[s]) /\ Len(merged[s]) \in Nat
  BY PositionsAreIndexes
<1>4. turn[s] \notin Range(merged[s])
  BY <1>2, <1>3 DEF Range
<1>5. PICK i \in pending[s] \cup Range(merged[s]) : paths[s][i] = paths[s][turn[s]]
  BY DEF NothingLost, OutOfTurn, Range
<1>6. i \in DOMAIN paths[s] /\ turn[s] \in DOMAIN paths[s]
  <2>1. \A j \in DOMAIN merged[s] : merged[s][j] \in DOMAIN paths[s]
    BY <1>3 DEF TypeOK
  <2> QED BY <2>1 DEF TypeOK, OutOfTurn, Range
<1>7. i = turn[s]
  BY <1>1, <1>5, <1>6, PathAssumption DEF TypeOK, IsInjective
<1> QED BY <1>4, <1>7

(* Leaving the inner loop, the assertion of the generator holds. *)
LEMMA LeaveStep ==
    ASSUME Inv, NEW s \in Streams, Leave(s)
    PROVE  Inv'
<1> USE DEF Inv
<1>1. /\ pc[s] = "handing"
      /\ pc'[s] \in {"waiting", "ended"}
      /\ pc'[s] = "ended" => pending[s] = {} /\ DOMAIN byName[s] = {}
      /\ \A r \in Streams \ {s} : pc'[r] = pc[r]
      /\ UNCHANGED <<paths, task, pending, byName, turn, merged, stage>>
  BY TurnPending DEF Leave, Goto, TypeOK
<1>2. TypeOK'
  BY DEF TypeOK, Leave, Goto
<1>3. RunningPending' /\ RaisedStopsAll' /\ AssertionHolds' /\ OnePlace'
  BY <1>1 DEF RunningPending, RaisedStopsAll, AssertionHolds, OnePlace
<1>4. StreamEnds' /\ StageFits' /\ InTurn' /\ NothingLost'
  BY <1>1 DEF StreamEnds, StageFits, InTurn, NothingLost, Ended
<1> QED BY <1>2, <1>3, <1>4

(* The end of a merge, of a stream or of the group, leaves the streams' own *)
(* bookkeeping as it is.                                                    *)
LEMMA GroupStepInv ==
    ASSUME Inv, (\E s \in Streams : FailMerge(s)) \/ GroupStep \/ UNCHANGED vars
    PROVE  Inv'
<1> USE DEF Inv
<1>1. /\ \A s \in Streams : pc'[s] # pc[s] => pc'[s] \in {"closed", "cancelled"}
      /\ UNCHANGED <<paths, task, pending, byName, turn, merged>>
  BY DEF FailMerge, GroupStep, CurrentMerged, CurrentFailed, PreviousEnded, Goto, TypeOK, vars
<1>2. TypeOK'
  BY DEF TypeOK, FailMerge, GroupStep, CurrentMerged, CurrentFailed, PreviousEnded, Goto, vars
<1>3. RunningPending' /\ RaisedStopsAll' /\ AssertionHolds' /\ OnePlace' /\ StreamEnds' /\ NothingLost'
  BY <1>1 DEF RunningPending, RaisedStopsAll, AssertionHolds, OnePlace, StreamEnds, NothingLost
<1>4. InTurn'
  <2>1. ASSUME NEW s \in Ordered, pc'[s] \notin {"created", "cancelled"}
        PROVE  pc[s] \notin {"created", "cancelled"}
    BY <2>1 DEF FailMerge, GroupStep, CurrentMerged, CurrentFailed, PreviousEnded, Goto, TypeOK,
         vars, Ended
  <2> QED BY <1>1, <2>1 DEF InTurn
<1>5. StageFits'
  BY DEF StageFits, FailMerge, GroupStep, CurrentMerged, CurrentFailed, PreviousEnded, Goto, TypeOK,
     vars, Ended
<1> QED BY <1>2, <1>3, <1>4, <1>5

(* The invariant holds whatever order the downloads end in. *)
THEOREM Invariance == Spec => []Inv
<1>1. Inv /\ [Next]_vars => Inv'
  BY StartStep, EndTaskStep, WakeStep, HandStep, RaiseStep, LeaveStep, GroupStepInv
     DEF Next, StreamStep, Answer
<1> QED BY <1>1, InitInv, PTL DEF Spec

(* No path is forgotten, however the tasks of one name are filed. *)
THEOREM NoPathLost == Spec => []NothingLost
<1>1. Inv => NothingLost
  BY DEF Inv
<1> QED BY <1>1, Invariance, PTL

(* cancel all remaining: a stream that raised leaves no download running. *)
THEOREM StopsWhenRaised == Spec => []RaisedStopsAll
<1>1. Inv => RaisedStopsAll
  BY DEF Inv
<1> QED BY <1>1, Invariance, PTL

(* The assertion of chunk_download_generator cannot fail. *)
THEOREM AssertionProved == Spec => []AssertionHolds
<1>1. Inv => AssertionHolds
  BY DEF Inv
<1> QED BY <1>1, Invariance, PTL

-----------------------------------------------------------------------------
(* The refinement of GroupMerge *)

(* A dataframe handed is merged, in the order of the list if there is one. *)
LEMMA HandMerges ==
    ASSUME Inv, NEW s \in Streams, NEW n \in Range(paths[s]), Hand(s, n)
    PROVE  Group!Next
<1>1. /\ byName[s][n] \in DOMAIN paths[s] \ Range(merged[s])
      /\ s \in Ordered => byName[s][n] = Len(merged[s]) + 1
  BY HandedInTurn DEF Hand
<1>2. stage \in {"current", "previous"} /\ UNCHANGED stage
  BY DEF Hand, Inv, StageFits, TypeOK, Ended
<1>3. Group!Merge(s, byName[s][n])
  BY <1>1, <1>2 DEF Hand, Group!Merge, Group!Range, Range
<1> QED BY <1>1, <1>3 DEF Group!Next

(* The group is resolved with every path of every stream merged. *)
LEMMA ResolvedWhenMerged ==
    ASSUME Inv, Inv', CurrentMerged \/ PreviousEnded, stage' = "resolved"
    PROVE  Group!Resolve
<1>1. \A s \in Streams : pc'[s] = "ended"
  BY DEF Inv, StageFits
<1>2. UNCHANGED <<paths, merged, pc, pending, byName>> /\ stage \in {"current", "previous"}
  BY DEF CurrentMerged, PreviousEnded
<1>3. ASSUME NEW s \in Streams
      PROVE  Group!NamesOf(s, Range(merged[s])) = Range(paths[s])
  <2>1. pending[s] = {} /\ DOMAIN byName[s] = {}
    BY <1>1, <1>2 DEF Inv, StreamEnds
  <2>2. \A n \in Range(paths[s]) : \E i \in Range(merged[s]) : paths[s][i] = n
    BY <1>1, <1>2, <2>1 DEF Inv, NothingLost
  <2>3. Range(merged[s]) \subseteq DOMAIN paths[s]
    <3>1. merged[s] \in Seq(DOMAIN paths[s])
      BY DEF Inv, TypeOK
    <3> QED BY <3>1 DEF Range
  <2> QED BY <2>2, <2>3 DEF Group!NamesOf, Range, Group!Range
<1> QED BY <1>2, <1>3 DEF Group!Resolve, Group!Range, Range

(* Every step of the downloads is a step of GroupMerge, or none. *)
LEMMA StepSimulation ==
    ASSUME Inv, Inv', [Next]_vars
    PROVE  [Group!Next]_Group!vars
<1>1. CASE \E s \in Streams : \E n \in Range(paths[s]) : Hand(s, n)
  BY <1>1, HandMerges
<1>2. CASE GroupStep
  <2>1. stage' \in {"previous", "resolved", "failed"} /\ stage \in {"current", "previous"}
        /\ UNCHANGED <<paths, merged>>
    BY <1>2 DEF GroupStep, CurrentMerged, CurrentFailed, PreviousEnded
  <2>2. CASE stage' = "resolved"
    BY <1>2, <2>2, ResolvedWhenMerged DEF GroupStep, CurrentFailed, Group!Next
  <2>3. CASE stage' = "failed"
    BY <2>1, <2>3 DEF Group!Next, Group!GiveUp
  <2>4. CASE stage' = "previous"
    BY <2>1, <2>4 DEF Group!vars
  <2> QED BY <2>1, <2>2, <2>3, <2>4
<1>3. CASE \E s \in Streams : \/ Start(s) \/ Wake(s) \/ Leave(s) \/ Answer(s) \/ FailMerge(s)
                             \/ \E n \in Range(paths[s]) : Raise(s, n)
  BY <1>3 DEF Start, Wake, Leave, Answer, EndTask, FailMerge, Raise, Group!vars
<1>4. CASE UNCHANGED vars
  BY <1>4 DEF vars, Group!vars
<1> QED BY <1>1, <1>2, <1>3, <1>4 DEF Next, StreamStep

(* The downloads implement GroupMerge, for any number of streams and paths: *)
(* resolve_single_conflict_group merges every chunk, in order where it says. *)
THEOREM Refinement == Spec => MergesInOrder
<1>1. Init => Group!Init
  BY DEF Init, Group!Init
<1> QED BY <1>1, StepSimulation, Invariance, PTL DEF Spec, MergesInOrder, Group!Spec
=============================================================================

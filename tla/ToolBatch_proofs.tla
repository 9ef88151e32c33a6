------------------------- MODULE ToolBatch_proofs --------------------------
(***************************************************************************)
(* Proofs about ToolBatch for every batch: any number of calls, any of     *)
(* them exclusive, in either interrupt mode.                               *)
(***************************************************************************)
EXTENDS ToolBatch, WellFoundedInduction, FiniteSetTheorems, TLAPS

(* A nonempty bounded set of positions has a last element.                 *)
LEMMA LastElement ==
  ASSUME NEW T \in SUBSET Nat, T # {}, NEW n \in Nat, \A x \in T : x <= n
  PROVE  \E m \in T : \A x \in T : x <= m
<1> DEFINE U == {n - x : x \in T}
           R == {ss \in Nat \X Nat : ss[1] < ss[2]}
<1>1. IsWellFoundedOn(R, Nat)
  BY NatLessThanWellFounded DEF OpToRel
<1>2. U \subseteq Nat /\ U # {}
  <2>1. \A x \in T : x \in Nat /\ n - x \in Nat
    OBVIOUS
  <2> QED BY <2>1
<1>3. \E u \in U : \A v \in U : ~ (<<v, u>> \in R)
  <2> HIDE DEF U, R
  <2> QED BY <1>1, <1>2, WFMin
<1>4. PICK u \in U : \A v \in U : ~ (<<v, u>> \in R)
  BY <1>3
<1>5. PICK m \in T : u = n - m
  BY <1>4
<1>6. ASSUME NEW x \in T PROVE x <= m
  <2>1. <<n - x, n - m>> \notin R
    BY <1>4, <1>5
  <2>2. x \in Nat /\ m \in Nat /\ n - x \in Nat /\ n - m \in Nat
    OBVIOUS
  <2>3. ~ (n - x < n - m)
    BY <2>1, <2>2
  <2> QED BY <2>2, <2>3
<1> QED BY <1>6

(* If some exclusive call comes before call i, the last of them is what    *)
(* LastExclusive names.                                                    *)
LEMMA LastExclusiveExists ==
  ASSUME NEW i \in Calls, Earlier(i) \cap Exclusive # {}
  PROVE  \E e \in Earlier(i) \cap Exclusive :
           LastExclusive(i) = {e} /\ \A j \in Earlier(i) \cap Exclusive : j <= e
<1>1. Calls \subseteq Nat
  BY ToolBatchAssumption
<1>2. \A x \in Earlier(i) \cap Exclusive : x <= i
  BY <1>1 DEF Earlier
<1>3. PICK e \in Earlier(i) \cap Exclusive : \A j \in Earlier(i) \cap Exclusive : j <= e
  BY <1>1, <1>2, LastElement DEF Earlier
<1>4. \A d \in LastExclusive(i) : d = e
  BY <1>1, <1>3 DEF LastExclusive, Earlier
<1>5. e \in LastExclusive(i)
  BY <1>3 DEF LastExclusive
<1> QED BY <1>3, <1>4, <1>5

(* Waiting on the few promises of Start is as good as waiting on every     *)
(* earlier call in conflict: such a call is waited on, or it precedes an   *)
(* exclusive call that is.                                                 *)
LEMMA StartSuffices ==
  ASSUME NEW i \in Calls, NEW j \in Calls, i < j, {i, j} \cap Exclusive # {}
  PROVE  i \in Start(j) \/ \E e \in Start(j) \cap Exclusive : i < e
<1>1. Calls \subseteq Nat /\ i \in Earlier(j)
  BY ToolBatchAssumption DEF Earlier
<1>2. CASE Earlier(j) \cap Exclusive = {}
  <2>1. j \in Exclusive /\ i \notin Exclusive
    BY <1>1, <1>2
  <2>2. i \in SharedSince(j)
    BY <1>1, <1>2, <2>1 DEF SharedSince, LastExclusive
  <2> QED BY <2>1, <2>2 DEF Start
<1>3. CASE Earlier(j) \cap Exclusive # {}
  <2>1. PICK e \in Earlier(j) \cap Exclusive :
          LastExclusive(j) = {e} /\ \A k \in Earlier(j) \cap Exclusive : k <= e
    BY <1>3, LastExclusiveExists
  <2>2. e \in Start(j) /\ e \in Nat /\ i \in Nat
    BY <1>1, <2>1 DEF Start, Earlier
  <2>3. CASE i < e
    BY <2>1, <2>2, <2>3
  <2>4. CASE i = e
    BY <2>2, <2>4
  <2>5. CASE e < i
    <3>1. i \notin Exclusive
      BY <1>1, <2>1, <2>2, <2>5
    <3>2. j \in Exclusive /\ i \in SharedSince(j)
      BY <1>1, <2>1, <2>5, <3>1 DEF SharedSince
    <3> QED BY <3>2 DEF Start
  <2> QED BY <2>2, <2>3, <2>4, <2>5
<1> QED BY <1>2, <1>3

-----------------------------------------------------------------------------

(* emitToolResult keeps the types of what it writes.                       *)
LEMMA EmitTyped ==
  ASSUME TypeOK, NEW i \in Calls, NEW kind \in ResultKinds, Emit(i, kind)
  PROVE  result' \in [Calls -> ResultKinds \cup {None}] /\ emitted' \in Seq(Calls)
<1>1. CASE result[i] # None
  BY <1>1 DEF TypeOK, Emit
<1>2. CASE result[i] = None
  <2>1. result' = [result EXCEPT ![i] = kind] /\ emitted' = Append(emitted, i)
    BY <1>2 DEF Emit
  <2>2. emitted' \in Seq(Calls)
    BY <2>1 DEF TypeOK
  <2> QED BY <2>1, <2>2 DEF TypeOK
<1> QED BY <1>1, <1>2

(* So does the end of runTool.                                             *)
LEMMA FinishTyped ==
  ASSUME TypeOK, NEW i \in Calls, NEW e \in BOOLEAN, NEW kind \in ResultKinds,
         Finish(i, e, kind)
  PROVE  /\ result' \in [Calls -> ResultKinds \cup {None}] /\ emitted' \in Seq(Calls)
         /\ failed' \in [Calls -> BOOLEAN] /\ task' \in [Calls -> TaskStates]
<1>1. failed' \in [Calls -> BOOLEAN] /\ task' \in [Calls -> TaskStates]
  BY DEF Finish, Await, TypeOK, TaskStates
<1>2. PICK k \in ResultKinds : Emit(i, k)
  BY DEF Finish, ResultKinds
<1> QED BY <1>1, <1>2, EmitTyped

(* And the end of a tool's execution, with or without the hook after it.   *)
Concluded ==
  /\ result' \in [Calls -> ResultKinds \cup {None}] /\ emitted' \in Seq(Calls)
  /\ failed' \in [Calls -> BOOLEAN] /\ task' \in [Calls -> TaskStates]
  /\ completed' \in [Calls -> BOOLEAN]

LEMMA ConcludeTyped ==
  ASSUME TypeOK, NEW i \in Calls, NEW e \in BOOLEAN, NEW c \in BOOLEAN, Conclude(i, e, c)
  PROVE  Concluded
<1>1. completed' \in [Calls -> BOOLEAN]
  BY DEF Conclude, TypeOK
<1>2. CASE ~Cut \/ c
  BY <1>1, <1>2 DEF Conclude, Await, TypeOK, TaskStates, Concluded
<1>3. CASE Cut /\ ~c
  <2>1. Finish(i, e, "real")
    BY <1>3 DEF Conclude
  <2> QED BY <1>1, <2>1, FinishTyped DEF Concluded, ResultKinds
<1> QED BY <1>2, <1>3

(* Every variable of the module keeps to its type in every batch           *)
(* (executeToolCalls, the records it builds).                              *)
THEOREM TypeCorrect == Spec => []TypeOK
<1>1. Init => TypeOK
  <2> SUFFICES ASSUME Init PROVE TypeOK
    OBVIOUS
  <2>1. emitted \in Seq(Calls)
    BY DEF Init
  <2>2. /\ triggered \in BOOLEAN /\ signal \in BOOLEAN
        /\ steered \in BOOLEAN /\ returned \in BOOLEAN
    BY DEF Init
  <2>3. /\ task \in [Calls -> TaskStates] /\ failed \in [Calls -> BOOLEAN]
        /\ completed \in [Calls -> BOOLEAN] /\ result \in [Calls -> ResultKinds \cup {None}]
    BY DEF Init, TaskStates
  <2>4. ran \subseteq Calls
    BY DEF Init
  <2> QED BY <2>1, <2>2, <2>3, <2>4 DEF TypeOK
<1>2. TypeOK /\ [Next]_vars => TypeOK'
  <2> SUFFICES ASSUME TypeOK, [Next]_vars PROVE TypeOK'
    OBVIOUS
  <2> USE DEF TypeOK, TaskStates, ResultKinds
  <2>1. ASSUME NEW i \in Calls, Begin(i) PROVE TypeOK'
    <3>1. task' \in [Calls -> TaskStates]
      BY <2>1 DEF Begin, Await
    <3>2. result' \in [Calls -> ResultKinds \cup {None}] /\ emitted' \in Seq(Calls)
      BY <2>1, EmitTyped DEF Begin
    <3> QED BY <2>1, <3>1, <3>2 DEF Begin
  <2>2. ASSUME NEW i \in Calls, Reject(i) PROVE TypeOK'
    BY <2>2 DEF Reject, Await
  <2>3. ASSUME NEW i \in Calls, BeforeReturns(i) PROVE TypeOK'
    <3>1. CASE BeforeReturns(i) /\ Finish(i, TRUE, "aborted") /\ UNCHANGED <<completed, ran>>
      BY <3>1, FinishTyped DEF BeforeReturns
    <3>2. CASE BeforeReturns(i) /\ Await(i, "executing") /\ ran' = ran \cup {i}
               /\ UNCHANGED <<failed, completed, result, emitted>>
      BY <3>2 DEF BeforeReturns, Await
    <3>3. CASE BeforeReturns(i) /\ Conclude(i, TRUE, FALSE) /\ UNCHANGED ran
      <4>1. Concluded
        BY <3>3, ConcludeTyped DEF Concluded
      <4> QED BY <3>3, <4>1 DEF BeforeReturns, Concluded
    <3> QED BY <2>3, <3>1, <3>2, <3>3 DEF BeforeReturns
  <2>4. ASSUME NEW i \in Calls, NEW e \in BOOLEAN, NEW c \in BOOLEAN, ExecuteReturns(i, e, c)
        PROVE  TypeOK'
    <3>1. Concluded
      BY <2>4, ConcludeTyped DEF ExecuteReturns
    <3> QED BY <2>4, <3>1 DEF ExecuteReturns, Concluded
  <2>5. ASSUME NEW i \in Calls, NEW e \in BOOLEAN, AfterReturns(i, e) PROVE TypeOK'
    BY <2>5, FinishTyped DEF AfterReturns
  <2>6. ASSUME NEW i \in Calls, CheckSteering(i) PROVE TypeOK'
    BY <2>6, ToolBatchAssumption DEF CheckSteering, Await, Interrupt
  <2>7. CASE WatchSteering
    BY <2>7, ToolBatchAssumption DEF WatchSteering, Interrupt
  <2>8. CASE Sweep
    <3> DEFINE left == {i \in Calls : result[i] = None}
    <3>1. PICK rest \in [1..Cardinality(left) -> left] : emitted' = emitted \o rest
      BY <2>8 DEF Sweep
    <3>2. IsFiniteSet(left)
      BY ToolBatchAssumption, FS_Subset
    <3>3. Cardinality(left) \in Nat
      BY <3>2, FS_CardinalityType
    <3>4. rest \in Seq(Calls)
      <4> HIDE DEF TypeOK
      <4> DEFINE n == Cardinality(left)
      <4>1. n \in Nat /\ rest \in [1..n -> Calls]
        BY <3>3
      <4> HIDE DEF n
      <4> QED BY <4>1
    <3>5. emitted' \in Seq(Calls)
      BY <3>1, <3>4
    <3> QED BY <2>8, <3>5 DEF Sweep
  <2>9. CASE Steer
    BY <2>9 DEF Steer
  <2>10. CASE Abort
    BY <2>10 DEF Abort
  <2>11. CASE UNCHANGED vars
    BY <2>11 DEF vars
  <2> QED BY <2>1, <2>2, <2>3, <2>4, <2>5, <2>6, <2>7, <2>8, <2>9, <2>10, <2>11
          DEF Next, TaskStep
<1> QED BY <1>1, <1>2, PTL DEF Spec

-----------------------------------------------------------------------------

(* A task that is already running may move on: the calls before it in      *)
(* conflict are done and stay so, and those after it have not begun.       *)
LEMMA RunningMoves ==
  ASSUME TypeOK, ExclusiveInOrder, NEW k \in Calls, task[k] \in Active, NEW s \in TaskStates,
         Await(k, s)
  PROVE  ExclusiveInOrder'
<1> SUFFICES ASSUME NEW i \in Calls, NEW j \in Calls, i < j, {i, j} \cap Exclusive # {},
                    task'[j] \in Active \cup {"done"}
             PROVE  task'[i] = "done"
  BY DEF ExclusiveInOrder
<1>1. Calls \subseteq Nat /\ i # j
  BY ToolBatchAssumption
<1>2. task[j] \in Active \cup {"done"}
  BY DEF Await, TypeOK
<1>3. task[i] = "done"
  BY <1>2 DEF ExclusiveInOrder
<1>4. i # k
  BY <1>3 DEF Active
<1> QED BY <1>3, <1>4 DEF Await, TypeOK

(* Once what a call waits for is done, so is every earlier call in         *)
(* conflict with it.                                                       *)
LEMMA ConflictsDone ==
  ASSUME ExclusiveInOrder, NEW k \in Calls, \A j \in Start(k) : task[j] = "done",
         NEW i \in Calls, i < k, {i, k} \cap Exclusive # {}
  PROVE  task[i] = "done"
<1>1. CASE i \in Start(k)
  BY <1>1
<1>2. CASE \E e \in Start(k) \cap Exclusive : i < e
  <2>1. PICK e \in Start(k) \cap Exclusive : i < e
    BY <1>2
  <2>2. e \in Calls /\ task[e] = "done"
    BY <2>1, ToolBatchAssumption
  <2> QED BY <2>1, <2>2 DEF ExclusiveInOrder
<1> QED BY <1>1, <1>2, StartSuffices

(* A task that begins has everything it conflicts with behind it.          *)
LEMMA BeginInOrder ==
  ASSUME TypeOK, ExclusiveInOrder, NEW k \in Calls, task[k] = "waiting",
         \A j \in Start(k) : task[j] = "done", NEW s \in {"done", "before"}, Await(k, s)
  PROVE  ExclusiveInOrder'
<1> SUFFICES ASSUME NEW i \in Calls, NEW j \in Calls, i < j, {i, j} \cap Exclusive # {},
                    task'[j] \in Active \cup {"done"}
             PROVE  task'[i] = "done"
  BY DEF ExclusiveInOrder
<1>1. Calls \subseteq Nat /\ i # j
  BY ToolBatchAssumption
<1>2. task[i] = "done"
  <2>1. CASE j = k
    BY <2>1, ConflictsDone
  <2>2. CASE j # k
    <3>1. task[j] \in Active \cup {"done"}
      BY <2>2 DEF Await, TypeOK
    <3> QED BY <3>1 DEF ExclusiveInOrder
  <2> QED BY <2>1, <2>2
<1>3. i # k
  BY <1>2
<1> QED BY <1>2, <1>3 DEF Await, TypeOK

(* Source order around an exclusive call holds in every batch, although    *)
(* the scheduler only chains calls to the last exclusive one.              *)
THEOREM InOrder == Spec => []ExclusiveInOrder
<1>1. Init => ExclusiveInOrder
  BY DEF Init, ExclusiveInOrder, Active
<1>2. TypeOK /\ ExclusiveInOrder /\ [Next]_vars => ExclusiveInOrder'
  <2> SUFFICES ASSUME TypeOK, ExclusiveInOrder, [Next]_vars PROVE ExclusiveInOrder'
    OBVIOUS
  <2>0. CASE UNCHANGED task
    BY <2>0 DEF ExclusiveInOrder
  <2>1. ASSUME NEW i \in Calls, Begin(i) PROVE ExclusiveInOrder'
    BY <2>1, BeginInOrder DEF Begin
  <2>2. ASSUME NEW k \in Calls, Reject(k) PROVE ExclusiveInOrder'
    <3> SUFFICES ASSUME NEW i \in Calls, NEW j \in Calls, i < j, {i, j} \cap Exclusive # {},
                        task'[j] \in Active \cup {"done"}
                 PROVE  task'[i] = "done"
      BY DEF ExclusiveInOrder
    <3>1. j # k /\ task[j] \in Active \cup {"done"}
      BY <2>2 DEF Reject, Await, TypeOK, Active
    <3>2. task[i] = "done"
      BY <3>1 DEF ExclusiveInOrder
    <3> QED BY <2>2, <3>2 DEF Reject, Await, TypeOK
  <2>3. ASSUME NEW i \in Calls, BeforeReturns(i) PROVE ExclusiveInOrder'
    <3>1. \E s \in TaskStates : Await(i, s)
      BY <2>3 DEF BeforeReturns, Finish, Conclude, TaskStates
    <3> QED BY <2>3, <3>1, RunningMoves DEF BeforeReturns, Active
  <2>4. ASSUME NEW i \in Calls, NEW e \in BOOLEAN, NEW c \in BOOLEAN, ExecuteReturns(i, e, c)
        PROVE  ExclusiveInOrder'
    <3>1. \E s \in TaskStates : Await(i, s)
      BY <2>4 DEF ExecuteReturns, Conclude, Finish, TaskStates
    <3> QED BY <2>4, <3>1, RunningMoves DEF ExecuteReturns, Active
  <2>5. ASSUME NEW i \in Calls, NEW e \in BOOLEAN, AfterReturns(i, e) PROVE ExclusiveInOrder'
    BY <2>5, RunningMoves DEF AfterReturns, Finish, TaskStates, Active
  <2>6. ASSUME NEW i \in Calls, CheckSteering(i) PROVE ExclusiveInOrder'
    BY <2>6, RunningMoves DEF CheckSteering, TaskStates, Active
  <2>7. CASE WatchSteering \/ Sweep \/ Steer \/ Abort \/ UNCHANGED vars
    BY <2>0, <2>7 DEF WatchSteering, Sweep, Steer, Abort, vars
  <2> QED BY <2>1, <2>2, <2>3, <2>4, <2>5, <2>6, <2>7 DEF Next, TaskStep
<1> QED BY <1>1, <1>2, TypeCorrect, PTL DEF Spec

(* An exclusive tool has the batch to itself, whatever the batch.          *)
THEOREM MutualExclusion == Spec => []ExclusiveAlone
<1>1. TypeOK /\ ExclusiveInOrder => ExclusiveAlone
  <2> SUFFICES ASSUME ExclusiveInOrder, NEW i \in Exclusive, NEW j \in Calls,
                      task[i] \in Active, task[j] \in Active
               PROVE  i = j
    BY DEF ExclusiveAlone
  <2>1. i \in Calls /\ Calls \subseteq Nat
    BY ToolBatchAssumption
  <2>2. ~ (i < j) /\ ~ (j < i)
    BY <2>1 DEF ExclusiveInOrder, Active
  <2> QED BY <2>1, <2>2
<1> QED BY <1>1, TypeCorrect, InOrder, PTL

-----------------------------------------------------------------------------

(* A step of one unsettled task disturbs no other call's report.           *)
LEMMA OneCallReports ==
  ASSUME TypeOK, ReportsInv, NEW k \in Calls, task[k] \notin Settled, returned' = returned,
         triggered => triggered',
         \A j \in Calls \ {k} : /\ task'[j] = task[j] /\ result'[j] = result[j]
                                /\ failed'[j] = failed[j] /\ (j \in ran' <=> j \in ran),
         Reporting(k)', EffectReported(k)'
  PROVE  ReportsInv'
<1>1. ~returned'
  BY DEF ReportsInv, AllSettled
<1>2. ASSUME NEW j \in Calls PROVE Reporting(j)' /\ EffectReported(j)'
  <2>1. CASE j = k
    BY <2>1
  <2>2. CASE j # k
    <3>1. Reporting(j) /\ EffectReported(j)
      BY DEF ReportsInv
    <3>2. Reporting(j)'
      BY <2>2, <3>1 DEF Reporting
    <3>3. EffectReported(j)'
      BY <2>2, <3>1 DEF EffectReported
    <3> QED BY <3>2, <3>3
  <2> QED BY <2>1, <2>2
<1> QED BY <1>1, <1>2 DEF ReportsInv

(* The end of runTool reports a call whose tool was entered as real, or,   *)
(* when it failed in an interrupted batch, as skipped.                     *)
LEMMA FinishReports ==
  ASSUME TypeOK, ReportsInv, NEW k \in Calls, task[k] \in {"before", "executing", "after"},
         NEW e \in BOOLEAN, NEW kind \in {"real", "aborted"}, Finish(k, e, kind),
         kind = "aborted" => k \notin ran,
         returned' = returned, triggered' = triggered, ran' = ran
  PROVE  ReportsInv'
<1>1. result[k] = None
  BY DEF ReportsInv, Reporting
<1>2. /\ task' = [task EXCEPT ![k] = "checking"] /\ failed' = [failed EXCEPT ![k] = e]
      /\ result' = [result EXCEPT ![k] = IF triggered /\ e THEN "skipped" ELSE kind]
  BY <1>1 DEF Finish, Emit, Await
<1>3. Reporting(k)' /\ EffectReported(k)'
  <2>1. /\ task'[k] = "checking" /\ failed'[k] = e
        /\ result'[k] = (IF triggered /\ e THEN "skipped" ELSE kind)
    BY <1>2 DEF TypeOK
  <2>2. result'[k] # None
    BY <2>1, ToolBatchAssumption
  <2>3. Reporting(k)'
    BY <2>1, <2>2 DEF Reporting
  <2>4. EffectReported(k)'
    <3>1. CASE triggered /\ e
      BY <2>1, <3>1 DEF EffectReported
    <3>2. CASE ~ (triggered /\ e)
      BY <2>1, <3>2 DEF EffectReported
    <3> QED BY <3>1, <3>2
  <2> QED BY <2>3, <2>4
<1>4. task[k] \notin Settled
  BY DEF Settled
<1>5. \A j \in Calls \ {k} : /\ task'[j] = task[j] /\ result'[j] = result[j]
                             /\ failed'[j] = failed[j] /\ (j \in ran' <=> j \in ran)
  BY <1>2 DEF TypeOK
<1> QED BY <1>3, <1>4, <1>5, OneCallReports

(* The same for the end of a tool's execution.                             *)
LEMMA ConcludeReports ==
  ASSUME TypeOK, ReportsInv, NEW k \in Calls, task[k] \in {"before", "executing"},
         NEW e \in BOOLEAN, NEW c \in BOOLEAN, Conclude(k, e, c),
         returned' = returned, triggered' = triggered, ran' = ran
  PROVE  ReportsInv'
<1>1. CASE Finish(k, e, "real")
  BY <1>1, FinishReports
<1>2. CASE Await(k, "after") /\ failed' = [failed EXCEPT ![k] = e] /\ UNCHANGED <<result, emitted>>
  <2>1. task'[k] = "after" /\ result'[k] = None
    BY <1>2 DEF Await, TypeOK, ReportsInv, Reporting
  <2>2. Reporting(k)' /\ EffectReported(k)'
    BY <2>1, ToolBatchAssumption DEF Reporting, EffectReported, Settled
  <2>3. \A j \in Calls \ {k} : task'[j] = task[j] /\ failed'[j] = failed[j]
    BY <1>2 DEF Await, TypeOK
  <2> QED BY <1>2, <2>2, <2>3, OneCallReports DEF Settled
<1> QED BY <1>1, <1>2 DEF Conclude

THEOREM ReportsInvariant == Spec => []ReportsInv
<1>1. Init => ReportsInv
  BY ToolBatchAssumption DEF Init, ReportsInv, Reporting, EffectReported, Settled
<1>2. TypeOK /\ ReportsInv /\ [Next]_vars => ReportsInv'
  <2> SUFFICES ASSUME TypeOK, ReportsInv, [Next]_vars PROVE ReportsInv'
    OBVIOUS
  <2>1. ASSUME NEW i \in Calls, Begin(i) PROVE ReportsInv'
    <3>1. task[i] = "waiting" /\ i \notin ran /\ result[i] = None /\ task[i] \notin Settled
      BY <2>1 DEF Begin, ReportsInv, Reporting, Settled
    <3>2. /\ \A j \in Calls \ {i} : task'[j] = task[j] /\ result'[j] = result[j]
          /\ UNCHANGED <<failed, triggered, returned, ran>>
          /\ task'[i] \in {"done", "before"} /\ result'[i] \in {None, "invalid", "aborted"}
          /\ task'[i] = "before" => result'[i] = None
      BY <2>1, <3>1 DEF Begin, Await, Emit, TypeOK
    <3>3. Reporting(i)' /\ EffectReported(i)'
      BY <3>1, <3>2, ToolBatchAssumption DEF Reporting, EffectReported, Settled
    <3> QED BY <3>1, <3>2, <3>3, OneCallReports
  <2>2. ASSUME NEW i \in Calls, Reject(i) PROVE ReportsInv'
    <3>1. task[i] = "waiting" /\ i \notin ran /\ result[i] = None /\ task[i] \notin Settled
      BY <2>2 DEF Reject, ReportsInv, Reporting, Settled
    <3>2. task' = [task EXCEPT ![i] = "rejected"]
          /\ UNCHANGED <<failed, triggered, returned, ran, result>>
      BY <2>2 DEF Reject, Await
    <3>3. Reporting(i)' /\ EffectReported(i)'
      BY <3>1, <3>2, ToolBatchAssumption DEF Reporting, EffectReported, Settled, TypeOK
    <3> QED BY <3>1, <3>2, <3>3, OneCallReports DEF TypeOK
  <2>3. ASSUME NEW i \in Calls, BeforeReturns(i) PROVE ReportsInv'
    <3>0. task[i] = "before" /\ i \notin ran /\ result[i] = None /\ task[i] \notin Settled
      BY <2>3 DEF BeforeReturns, ReportsInv, Reporting, Settled
    <3>1. CASE Finish(i, TRUE, "aborted") /\ UNCHANGED <<completed, ran>>
      BY <2>3, <3>0, <3>1, FinishReports DEF BeforeReturns
    <3>2. CASE Await(i, "executing") /\ ran' = ran \cup {i}
               /\ UNCHANGED <<failed, completed, result, emitted>>
      <4>1. task'[i] = "executing" /\ \A j \in Calls \ {i} : task'[j] = task[j]
        BY <3>2 DEF Await, TypeOK
      <4>2. Reporting(i)' /\ EffectReported(i)'
        BY <3>0, <3>2, <4>1, ToolBatchAssumption DEF Reporting, EffectReported, Settled
      <4> QED BY <2>3, <3>0, <3>2, <4>1, <4>2, OneCallReports DEF BeforeReturns
    <3>3. CASE Conclude(i, TRUE, FALSE) /\ UNCHANGED ran
      BY <2>3, <3>0, <3>3, ConcludeReports DEF BeforeReturns
    <3> QED BY <2>3, <3>1, <3>2, <3>3 DEF BeforeReturns
  <2>4. ASSUME NEW i \in Calls, NEW e \in BOOLEAN, NEW c \in BOOLEAN, ExecuteReturns(i, e, c)
        PROVE  ReportsInv'
    BY <2>4, ConcludeReports DEF ExecuteReturns
  <2>5. ASSUME NEW i \in Calls, NEW e \in BOOLEAN, AfterReturns(i, e) PROVE ReportsInv'
    BY <2>5, FinishReports DEF AfterReturns
  <2>6. ASSUME NEW i \in Calls, CheckSteering(i) PROVE ReportsInv'
    <3>1. /\ task[i] = "checking" /\ task'[i] \in Settled
          /\ \A j \in Calls \ {i} : task'[j] = task[j]
          /\ UNCHANGED <<failed, returned, ran, result>>
      BY <2>6 DEF CheckSteering, Await, TypeOK, Settled
    <3>2. triggered => triggered'
      BY <2>6 DEF CheckSteering, Interrupt
    <3>3. Reporting(i) /\ EffectReported(i)
      BY DEF ReportsInv
    <3>4. Reporting(i)' /\ EffectReported(i)'
      BY <3>1, <3>2, <3>3 DEF Reporting, EffectReported, Settled
    <3> QED BY <3>1, <3>2, <3>4, OneCallReports DEF Settled
  <2>7. CASE WatchSteering \/ Steer \/ Abort \/ UNCHANGED vars
    <3>1. UNCHANGED <<task, failed, result, returned, ran>> /\ (triggered => triggered')
      BY <2>7 DEF WatchSteering, Interrupt, Steer, Abort, vars
    <3> QED BY <3>1 DEF ReportsInv, Reporting, EffectReported, AllSettled
  <2>8. CASE Sweep
    <3>1. /\ AllSettled /\ UNCHANGED <<task, failed, triggered, ran>>
          /\ result' = [i \in Calls |-> IF result[i] = None THEN "skipped" ELSE result[i]]
      BY <2>8 DEF Sweep
    <3>2. \A i \in Calls : result'[i] # None
      BY <3>1, ToolBatchAssumption
    <3>3. ASSUME NEW i \in Calls PROVE Reporting(i)' /\ EffectReported(i)'
      <4>1. Reporting(i) /\ EffectReported(i) /\ task[i] \in Settled
        BY <3>1 DEF ReportsInv, AllSettled
      <4>2. result[i] = None => i \notin ran
        BY <4>1 DEF Reporting
      <4> QED BY <3>1, <3>2, <4>1, <4>2 DEF Reporting, EffectReported, Settled
    <3> QED BY <3>1, <3>2, <3>3 DEF ReportsInv, AllSettled
  <2> QED BY <2>1, <2>2, <2>3, <2>4, <2>5, <2>6, <2>7, <2>8 DEF Next, TaskStep
<1> QED BY <1>1, <1>2, TypeCorrect, PTL DEF Spec

(* The model is told what its tools did, in every batch.                   *)
THEOREM EffectsTold == Spec => []EffectsReported
<1>1. ReportsInv => EffectsReported
  BY DEF ReportsInv, EffectsReported
<1> QED BY <1>1, ReportsInvariant, PTL

-----------------------------------------------------------------------------

(* emitToolResult adds at most the call's own result.                      *)
LEMMA EmitOne ==
  ASSUME TypeOK, OneEach, NEW i \in Calls, NEW kind \in ResultKinds, Emit(i, kind)
  PROVE  OneEach'
<1>1. CASE result[i] # None
  BY <1>1 DEF Emit, OneEach
<1>2. CASE result[i] = None
  <2>1. result' = [result EXCEPT ![i] = kind] /\ emitted' = Append(emitted, i)
    BY <1>2 DEF Emit
  <2>2. /\ DOMAIN emitted = 1..Len(emitted) /\ Len(emitted) \in Nat
        /\ DOMAIN emitted' = 1..(Len(emitted) + 1)
        /\ \A n \in 1..Len(emitted) : emitted'[n] = emitted[n] /\ emitted[n] \in Calls
        /\ emitted'[Len(emitted) + 1] = i
    BY <2>1 DEF TypeOK
  <2>3. \A n \in DOMAIN emitted : emitted[n] # i
    BY <1>2 DEF OneEach
  <2>4. kind # None
    BY ToolBatchAssumption DEF ResultKinds
  <2>5. \A m, n \in DOMAIN emitted' : emitted'[m] = emitted'[n] => m = n
    BY <2>2, <2>3 DEF OneEach
  <2>6. ASSUME NEW j \in Calls
        PROVE  (\E n \in DOMAIN emitted' : emitted'[n] = j) <=> result'[j] # None
    <3>1. CASE j = i
      BY <2>1, <2>2, <2>4, <3>1 DEF TypeOK
    <3>2. CASE j # i
      <4>1. result'[j] = result[j]
        BY <2>1, <3>2 DEF TypeOK
      <4>2. (\E n \in DOMAIN emitted' : emitted'[n] = j)
              <=> (\E n \in DOMAIN emitted : emitted[n] = j)
        BY <2>2, <3>2
      <4> QED BY <4>1, <4>2 DEF OneEach
    <3> QED BY <3>1, <3>2
  <2> QED BY <2>5, <2>6 DEF OneEach
<1> QED BY <1>1, <1>2

(* The sweep names every call that was left, once.                         *)
LEMMA SweepAll ==
  ASSUME TypeOK, OneEach, Sweep
  PROVE  OneEach' /\ \A i \in Calls : result'[i] # None
<1> DEFINE left == {i \in Calls : result[i] = None}
           k == Cardinality(left)
<1>1. PICK rest \in [1..k -> left] :
        /\ \A m, n \in 1..k : m < n => rest[m] < rest[n]
        /\ emitted' = emitted \o rest
  BY DEF Sweep
<1>2. IsFiniteSet(left) /\ k \in Nat
  BY ToolBatchAssumption, FS_Subset, FS_CardinalityType
<1>3. left \subseteq Nat
  BY ToolBatchAssumption
<1>4. ASSUME NEW m \in 1..k, NEW n \in 1..k, rest[m] = rest[n] PROVE m = n
  <2>1. m \in Nat /\ n \in Nat /\ rest[m] \in Nat
    BY <1>2, <1>3
  <2>2. ~ (rest[m] < rest[n]) /\ ~ (rest[n] < rest[m])
    BY <1>4, <2>1
  <2>3. ~ (m < n) /\ ~ (n < m)
    BY <1>1, <2>2
  <2> QED BY <2>1, <2>3
<1>5. \A i \in left : \E n \in 1..k : rest[n] = i
  <2>1. rest \in Injection(1..k, left)
    BY <1>4 DEF Injection, IsInjective
  <2>2. IsFiniteSet(1..k) /\ Cardinality(1..k) = k
    BY <1>2, FS_Interval
  <2>3. rest \in Surjection(1..k, left)
    <3> HIDE DEF left
    <3> QED BY <1>2, <2>1, <2>2, FS_Injection
  <2> QED BY <2>3 DEF Surjection
<1>6. /\ DOMAIN emitted = 1..Len(emitted) /\ Len(emitted) \in Nat
      /\ DOMAIN emitted' = 1..(Len(emitted) + k)
      /\ \A n \in 1..Len(emitted) : emitted'[n] = emitted[n] /\ emitted[n] \in Calls
      /\ \A n \in 1..k : emitted'[Len(emitted) + n] = rest[n]
  <2>1. rest \in Seq(Calls) /\ Len(rest) = k
    <3>1. rest \in [1..k -> Calls]
      OBVIOUS
    <3> HIDE DEF k
    <3> QED BY <1>2, <3>1
  <2>2. emitted \in Seq(Calls)
    BY DEF TypeOK
  <2>3. emitted' = emitted \o rest
    BY <1>1
  <2> HIDE DEF k, left
  <2>4. /\ DOMAIN emitted = 1..Len(emitted) /\ Len(emitted) \in Nat
        /\ \A n \in 1..Len(emitted) : emitted[n] \in Calls
    BY <2>2
  <2>5. DOMAIN emitted' = 1..(Len(emitted) + k)
    BY <2>1, <2>2, <2>3
  <2>6. \A n \in 1..Len(emitted) : emitted'[n] = emitted[n]
    BY <2>1, <2>2, <2>3, <2>4
  <2>7. \A n \in 1..k : emitted'[Len(emitted) + n] = rest[n]
    BY <1>2, <2>1, <2>2, <2>3, <2>4
  <2> QED BY <2>4, <2>5, <2>6, <2>7
<1>7. \A n \in DOMAIN emitted : emitted[n] \notin left
  BY <1>6 DEF OneEach
<1>8. result' = [i \in Calls |-> IF i \in left THEN "skipped" ELSE result[i]]
  BY DEF Sweep
<1>9. \A i \in Calls : result'[i] # None
  BY <1>8, ToolBatchAssumption
<1>10. ASSUME NEW m \in DOMAIN emitted', NEW n \in DOMAIN emitted', emitted'[m] = emitted'[n]
       PROVE  m = n
  <2> HIDE DEF k, left
  <2>1. CASE m \in DOMAIN emitted /\ n \in DOMAIN emitted
    BY <1>6, <1>10, <2>1 DEF OneEach
  <2>2. CASE m \notin DOMAIN emitted /\ n \notin DOMAIN emitted
    <3>1. m - Len(emitted) \in 1..k /\ n - Len(emitted) \in 1..k
      BY <1>2, <1>6, <2>2
    <3>2. /\ emitted'[m] = rest[m - Len(emitted)] /\ emitted'[n] = rest[n - Len(emitted)]
          /\ m \in Nat /\ n \in Nat
      BY <1>2, <1>6, <3>1
    <3>3. m - Len(emitted) = n - Len(emitted)
      BY <1>4, <1>10, <3>1, <3>2
    <3> QED BY <1>6, <3>2, <3>3
  <2>3. ASSUME NEW a \in DOMAIN emitted', NEW b \in DOMAIN emitted',
               a \in DOMAIN emitted, b \notin DOMAIN emitted
        PROVE  emitted'[a] # emitted'[b]
    <3>1. b - Len(emitted) \in 1..k /\ b = Len(emitted) + (b - Len(emitted))
      BY <1>2, <1>6, <2>3
    <3>2. emitted'[b] = rest[b - Len(emitted)]
      BY <1>6, <3>1
    <3>3. emitted'[b] \in left
      BY <1>1, <3>1, <3>2
    <3> QED BY <1>6, <1>7, <2>3, <3>3
  <2> QED BY <1>10, <2>1, <2>2, <2>3
<1>11. ASSUME NEW i \in Calls PROVE \E n \in DOMAIN emitted' : emitted'[n] = i
  <2>1. CASE i \in left
    <3>1. PICK n \in 1..k : rest[n] = i
      BY <1>5, <2>1
    <3>2. Len(emitted) + n \in DOMAIN emitted' /\ emitted'[Len(emitted) + n] = i
      BY <1>2, <1>6, <3>1
    <3> QED BY <3>2
  <2>2. CASE i \notin left
    <3>1. PICK n \in DOMAIN emitted : emitted[n] = i
      BY <2>2 DEF OneEach
    <3>2. n \in DOMAIN emitted' /\ emitted'[n] = i
      BY <1>2, <1>6, <3>1
    <3> QED BY <3>2
  <2> QED BY <2>1, <2>2
<1> QED BY <1>9, <1>10, <1>11 DEF OneEach

(* Each call of a batch of any length has exactly one result when it       *)
(* returns.                                                                *)
THEOREM ResultPerCall == Spec => []OneResultEach
<1>1. Init => OneEach
  BY DEF Init, OneEach
<1>2. TypeOK /\ OneEach /\ [Next]_vars => OneEach'
  <2> SUFFICES ASSUME TypeOK, OneEach, [Next]_vars PROVE OneEach'
    OBVIOUS
  <2>0. CASE UNCHANGED <<result, emitted>>
    BY <2>0 DEF OneEach
  <2>1. ASSUME NEW i \in Calls, NEW kind \in ResultKinds, Emit(i, kind) PROVE OneEach'
    BY <2>1, EmitOne
  <2>2. ASSUME NEW i \in Calls, TaskStep(i) PROVE OneEach'
    <3>1. UNCHANGED <<result, emitted>> \/ \E kind \in ResultKinds : Emit(i, kind)
      BY <2>2 DEF TaskStep, Begin, Reject, BeforeReturns, ExecuteReturns, AfterReturns,
                  CheckSteering, Conclude, Finish, ResultKinds
    <3> QED BY <2>0, <2>1, <3>1
  <2>3. CASE Sweep
    BY <2>3, SweepAll
  <2>4. CASE WatchSteering \/ Steer \/ Abort \/ UNCHANGED vars
    BY <2>0, <2>4 DEF WatchSteering, Steer, Abort, vars
  <2> QED BY <2>2, <2>3, <2>4 DEF Next
<1>3. Spec => []OneEach
  BY <1>1, <1>2, TypeCorrect, PTL DEF Spec
<1>4. OneEach /\ ReportsInv => OneResultEach
  BY DEF OneEach, ReportsInv, OneResultEach
<1> QED BY <1>3, <1>4, ReportsInvariant, PTL

-----------------------------------------------------------------------------
(* The batch implements CallBatch.                                         *)

AbsRunning  == {i \in Calls : task[i] \in Active}
AbsSettled  == {i \in Calls : task[i] \in Settled}
AbsAnswered == {i \in Calls : result[i] # None}

(* A running task that moves on is still running for CallBatch.            *)
LEMMA MoveMapped ==
  ASSUME TypeOK, NEW k \in Calls, task[k] \in Active, NEW s \in Active, Await(k, s)
  PROVE  AbsRunning' = AbsRunning /\ AbsSettled' = AbsSettled
<1>1. task' = [task EXCEPT ![k] = s] /\ task \in [Calls -> TaskStates]
  BY DEF Await, TypeOK
<1>2. \A i \in Calls : /\ task'[i] \in Active <=> task[i] \in Active
                       /\ task'[i] \in Settled <=> task[i] \in Settled
  BY <1>1 DEF Active, Settled
<1> QED BY <1>2 DEF AbsRunning, AbsSettled

(* A task that settles leaves the running set and joins the settled one.   *)
LEMMA SettleMapped ==
  ASSUME TypeOK, NEW k \in Calls, NEW s \in Settled, Await(k, s)
  PROVE  AbsRunning' = AbsRunning \ {k} /\ AbsSettled' = AbsSettled \cup {k}
<1>1. task' = [task EXCEPT ![k] = s] /\ task \in [Calls -> TaskStates]
  BY DEF Await, TypeOK
<1> QED BY <1>1 DEF AbsRunning, AbsSettled, Active, Settled

LEMMA AnswerMapped ==
  ASSUME TypeOK, NEW k \in Calls, NEW kind \in ResultKinds, result[k] = None, Emit(k, kind)
  PROVE  AbsAnswered' = AbsAnswered \cup {k}
<1>1. result' = [result EXCEPT ![k] = kind] /\ result \in [Calls -> ResultKinds \cup {None}]
  BY DEF Emit, TypeOK
<1>2. kind # None
  BY ToolBatchAssumption DEF ResultKinds
<1> QED BY <1>1, <1>2 DEF AbsAnswered

LEMMA FinishMapped ==
  ASSUME TypeOK, NEW k \in Calls, NEW e \in BOOLEAN, NEW kind \in ResultKinds,
         task[k] \in Active, result[k] = None, ~returned, Finish(k, e, kind),
         returned' = returned
  PROVE  Batch!Next
<1>1. AbsRunning' = AbsRunning /\ AbsSettled' = AbsSettled
  BY MoveMapped DEF Finish, Active
<1>2. PICK r \in ResultKinds : Emit(k, r)
  BY DEF Finish, ResultKinds
<1>3. AbsAnswered' = AbsAnswered \cup {k}
  BY <1>2, AnswerMapped
<1>4. k \in AbsRunning /\ k \notin AbsAnswered
  BY DEF AbsRunning, AbsAnswered
<1>5. Batch!Answer(k)
  BY <1>1, <1>3, <1>4 DEF Batch!Answer, AbsRunning, AbsSettled, AbsAnswered
<1> QED BY <1>5 DEF Batch!Next

LEMMA ConcludeMapped ==
  ASSUME TypeOK, NEW k \in Calls, NEW e \in BOOLEAN, NEW c \in BOOLEAN,
         task[k] \in Active, result[k] = None, ~returned, Conclude(k, e, c),
         returned' = returned
  PROVE  Batch!Next \/ UNCHANGED Batch!vars
<1>1. CASE Finish(k, e, "real")
  BY <1>1, FinishMapped DEF ResultKinds
<1>2. CASE Await(k, "after") /\ UNCHANGED result
  <2>1. AbsRunning' = AbsRunning /\ AbsSettled' = AbsSettled
    BY <1>2, MoveMapped DEF Active
  <2> QED BY <1>2, <2>1 DEF Batch!vars, AbsRunning, AbsSettled
<1> QED BY <1>1, <1>2 DEF Conclude

(* Every batch keeps the promises of CallBatch: the scheduler's chain of   *)
(* promises and the sweep realise the order and the answers it states.     *)
THEOREM Refinement == Spec => BatchSpec
<1>1. Init => Batch!Init
  BY DEF Init, Batch!Init, Active, Settled
<1>2. TypeOK /\ ExclusiveInOrder /\ ReportsInv /\ ReportsInv' /\ [Next]_vars
        => [Batch!Next]_(Batch!vars)
  <2> SUFFICES ASSUME TypeOK, ExclusiveInOrder, ReportsInv, ReportsInv', [Next]_vars
               PROVE  Batch!Next \/ UNCHANGED Batch!vars
    OBVIOUS
  <2>0. ASSUME NEW i \in Calls, task[i] \notin Settled PROVE ~returned
    BY <2>0 DEF ReportsInv, AllSettled
  <2>1. ASSUME NEW i \in Calls, Begin(i) PROVE Batch!Next
    <3>1. /\ task[i] = "waiting" /\ result[i] = None /\ ~returned /\ returned' = returned
          /\ \A j \in Start(i) : task[j] = "done"
      BY <2>0, <2>1 DEF Begin, ReportsInv, Reporting, Settled
    <3>2. Batch!Before(i) \subseteq AbsSettled
      <4> SUFFICES ASSUME NEW j \in Batch!Before(i) PROVE j \in AbsSettled
        OBVIOUS
      <4>1. j \in Calls /\ j < i /\ {j, i} \cap Exclusive # {}
        BY DEF Batch!Before, Batch!Earlier
      <4>2. task[j] = "done"
        BY <3>1, <4>1, ConflictsDone
      <4> QED BY <4>1, <4>2 DEF AbsSettled, Settled
    <3>3. i \notin AbsRunning /\ i \notin AbsSettled /\ i \notin AbsAnswered
      BY <3>1 DEF AbsRunning, AbsSettled, AbsAnswered, Active, Settled
    <3>4. CASE Await(i, "before") /\ UNCHANGED <<result, emitted>>
      <4>1. AbsRunning' = AbsRunning \cup {i} /\ AbsSettled' = AbsSettled
        BY <3>1, <3>4 DEF Await, TypeOK, AbsRunning, AbsSettled, Active, Settled
      <4>2. Batch!Run(i)
        BY <3>1, <3>2, <3>3, <3>4, <4>1
           DEF Batch!Run, AbsRunning, AbsSettled, AbsAnswered
      <4> QED BY <4>2 DEF Batch!Next
    <3>5. CASE Await(i, "done") /\ UNCHANGED <<result, emitted>>
      <4>1. AbsRunning' = AbsRunning \ {i} /\ AbsSettled' = AbsSettled \cup {i}
        BY <3>5, SettleMapped DEF Settled
      <4>2. Batch!Settle(i)
        BY <3>1, <3>3, <3>5, <4>1 DEF Batch!Settle, AbsRunning, AbsSettled
      <4> QED BY <4>2 DEF Batch!Next
    <3>6. ASSUME NEW kind \in ResultKinds, Await(i, "done"), Emit(i, kind)
          PROVE  Batch!Next
      <4>1. AbsRunning' = AbsRunning \ {i} /\ AbsSettled' = AbsSettled \cup {i}
        BY <3>6, SettleMapped DEF Settled
      <4>2. AbsAnswered' = AbsAnswered \cup {i}
        BY <3>1, <3>6, AnswerMapped
      <4>3. Batch!Answer(i)
        BY <3>1, <3>2, <3>3, <4>1, <4>2
           DEF Batch!Answer, AbsRunning, AbsSettled, AbsAnswered
      <4> QED BY <4>3 DEF Batch!Next
    <3> QED BY <2>1, <3>4, <3>5, <3>6 DEF Begin, ResultKinds
  <2>2. ASSUME NEW i \in Calls, NEW s \in Settled, Await(i, s), task[i] \notin Settled,
               UNCHANGED <<result, returned>>
        PROVE  Batch!Next
    <3>1. AbsRunning' = AbsRunning \ {i} /\ AbsSettled' = AbsSettled \cup {i}
      BY <2>2, SettleMapped
    <3>2. ~returned /\ i \notin AbsSettled
      BY <2>0, <2>2 DEF AbsSettled
    <3>3. Batch!Settle(i)
      BY <2>2, <3>1, <3>2 DEF Batch!Settle, AbsRunning, AbsSettled
    <3> QED BY <3>3 DEF Batch!Next
  <2>3. ASSUME NEW i \in Calls, Reject(i) PROVE Batch!Next
    BY <2>2, <2>3 DEF Reject, Settled
  <2>4. ASSUME NEW i \in Calls, CheckSteering(i) PROVE Batch!Next
    BY <2>2, <2>4 DEF CheckSteering, Settled
  <2>5. ASSUME NEW i \in Calls, BeforeReturns(i) PROVE Batch!Next \/ UNCHANGED Batch!vars
    <3>1. task[i] \in Active /\ result[i] = None /\ ~returned /\ returned' = returned
      BY <2>0, <2>5 DEF BeforeReturns, ReportsInv, Reporting, Settled, Active
    <3>2. CASE Finish(i, TRUE, "aborted")
      BY <3>1, <3>2, FinishMapped DEF ResultKinds
    <3>3. CASE Conclude(i, TRUE, FALSE)
      BY <3>1, <3>3, ConcludeMapped
    <3>4. CASE Await(i, "executing") /\ UNCHANGED result
      <4>1. AbsRunning' = AbsRunning /\ AbsSettled' = AbsSettled
        BY <3>1, <3>4, MoveMapped DEF Active
      <4> QED BY <3>1, <3>4, <4>1 DEF Batch!vars, AbsRunning, AbsSettled
    <3> QED BY <2>5, <3>2, <3>3, <3>4 DEF BeforeReturns
  <2>6. ASSUME NEW i \in Calls, NEW e \in BOOLEAN, NEW c \in BOOLEAN, ExecuteReturns(i, e, c)
        PROVE  Batch!Next \/ UNCHANGED Batch!vars
    <3>1. task[i] \in Active /\ result[i] = None /\ ~returned /\ returned' = returned
      BY <2>0, <2>6 DEF ExecuteReturns, ReportsInv, Reporting, Settled, Active
    <3> QED BY <2>6, <3>1, ConcludeMapped DEF ExecuteReturns
  <2>7. ASSUME NEW i \in Calls, NEW e \in BOOLEAN, AfterReturns(i, e) PROVE Batch!Next
    <3>1. task[i] \in Active /\ result[i] = None /\ ~returned /\ returned' = returned
      BY <2>0, <2>7 DEF AfterReturns, ReportsInv, Reporting, Settled, Active
    <3> QED BY <2>7, <3>1, FinishMapped DEF AfterReturns, ResultKinds
  <2>8. CASE Sweep
    <3>1. AllSettled /\ ~returned /\ returned' /\ UNCHANGED task
      BY <2>8 DEF Sweep, TypeOK
    <3>2. \A i \in Calls : result'[i] # None
      BY <3>1 DEF ReportsInv
    <3>3. AbsSettled = Calls /\ AbsAnswered' = Calls
      BY <3>1, <3>2 DEF AllSettled, AbsSettled, AbsAnswered
    <3>4. returned' = TRUE
      BY <2>8 DEF Sweep
    <3>5. Batch!Return
      BY <3>1, <3>3, <3>4 DEF Batch!Return, AbsSettled, AbsAnswered
    <3> QED BY <3>5 DEF Batch!Next
  <2>9. CASE WatchSteering \/ Steer \/ Abort \/ UNCHANGED vars
    BY <2>9 DEF WatchSteering, Steer, Abort, vars, Batch!vars
  <2> QED BY <2>1, <2>3, <2>4, <2>5, <2>6, <2>7, <2>8, <2>9 DEF Next, TaskStep
<1> QED BY <1>1, <1>2, TypeCorrect, InOrder, ReportsInvariant, PTL DEF Spec, BatchSpec, Batch!Spec
=============================================================================

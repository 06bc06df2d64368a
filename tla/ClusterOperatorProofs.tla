----------------------- MODULE ClusterOperatorProofs -----------------------
(***************************************************************************)
(* The clusteroperator controller rests only when the ClusterOperator      *)
(* reports the state of the operand, or a read that failed again, for any  *)
(* number of changes, failures and points in time.                         *)
(***************************************************************************)
EXTENDS ClusterOperator, TLAPS

(* The reason for the state of the Deployment is one of the known ones.    *)
LEMMA DeploymentReasonType ==
    ASSUME NEW d \in Deployments
    PROVE  DeploymentReason(d) \in Reasons /\ DeploymentReason(d) # None
  BY DEF Deployments, DeploymentReason, Reasons, Progressing, Degraded, Available, None

(* A time that is kept or taken from the clock is a time.                  *)
LEMMA LastTransitionTimeType ==
    ASSUME NEW t \in Types, NEW prev \in Statuses, now \in 0..MaxTime
    PROVE  LastTransitionTime(t, prev) \in 0..MaxTime
  BY DEF LastTransitionTime, Statuses

(* Facts about the values that the steps start from.                       *)
LEMMA Constant ==
    /\ NoStatus \in Statuses
    /\ {"UnsupportedPlatform", "KarpenterNotFound", "KarpenterCheckFailed",
        "OperandCheckFailed"} \subseteq Reasons
    /\ None \notin Reasons
  BY ConstantsAssumption DEF NoStatus, Statuses, Reasons, Progressing, Degraded,
     Available, None

(* The types, and what an idle worker holds, are those of TypeOK: no       *)
(* report or status of one reconcile is left for the next.                 *)
THEOREM TypeCorrect == Spec => []TypeOK
<1>1. Init => TypeOK
  <2> SUFFICES ASSUME Init PROVE TypeOK
    OBVIOUS
  <2>1. queued \in BOOLEAN
    BY Zenon DEF Init
  <2>2. co \in COs
    BY Constant DEF Init, COs
  <2>3. coCache \in COs
    BY <2>2 DEF Init
  <2>4. now \in 0..MaxTime /\ changes \in 0..MaxChanges /\ readFailures \in 0..MaxReadFailures
    BY ConstantsAssumption DEF Init
  <2>5. karpenterCache \in BOOLEAN /\ coEvent \in BOOLEAN
    BY Zenon DEF Init
  <2>6. deploy \in Deployments /\ deployCache \in Deployments
    BY DEF Init, Deployments
  <2> QED
    BY <2>1, <2>2, <2>3, <2>4, <2>5, <2>6, Constant DEF Init, TypeOK
<1>2. TypeOK /\ [Next]_vars => TypeOK'
  <2> SUFFICES ASSUME TypeOK, [Next]_vars PROVE TypeOK'
    OBVIOUS
  <2> USE DEF TypeOK
  <2>1. CASE Reconcile
    BY <2>1, Constant DEF Reconcile, Report, serverVars, cacheVars, envVars
  <2>2. CASE operandConditions
    BY <2>2, DeploymentReasonType, Constant
       DEF operandConditions, Report, serverVars, cacheVars, envVars
  <2>3. CASE ReadFails
    <3>1. readFailures' \in 0..MaxReadFailures
      BY <2>3, ConstantsAssumption DEF ReadFails
    <3>2. queued' \in BOOLEAN
      BY <2>3, Zenon DEF ReadFails
    <3>3. report' \in Reasons /\ pc' = "applyCO" /\ UNCHANGED status
      BY <2>3, Constant DEF ReadFails, Report
    <3>4. UNCHANGED <<serverVars, cacheVars, now, changes>>
      BY <2>3 DEF ReadFails
    <3>5. status = NoStatus
      BY <2>3 DEF ReadFails
    <3> QED
      BY <3>1, <3>2, <3>3, <3>4, <3>5, Constant DEF serverVars, cacheVars
  <2>4. CASE ApplyCO
    BY <2>4 DEF ApplyCO, WriteCO, COs, cacheVars, envVars
  <2>5. CASE GetCO
    <3>1. CASE ~coCache.exists /\ Failed
      BY <2>5, <3>1, Constant DEF GetCO, Failed, Finish, serverVars, cacheVars, envVars
    <3>2. CASE ~(~coCache.exists /\ Failed)
      <4>1. [t \in Types |-> LastTransitionTime(t, coCache.status)] \in [Types -> 0..MaxTime]
        BY LastTransitionTimeType DEF COs
      <4>2. status' \in Statuses
        BY <2>5, <3>2, <4>1 DEF GetCO, Statuses
      <4> QED
        BY <2>5, <3>2, <4>2, Constant DEF GetCO, serverVars, cacheVars, envVars
    <3> QED
      BY <3>1, <3>2
  <2>6. CASE ApplyStatus
    BY <2>6, Constant
       DEF ApplyStatus, WriteCO, Done, Failed, Finish, COs, cacheVars, envVars
  <2>7. CASE APIError
    <3>1. changes' \in 0..MaxChanges
      BY <2>7, ConstantsAssumption DEF APIError, Change
    <3> QED
      BY <2>7, <3>1, Constant DEF APIError, Failed, Finish, serverVars, cacheVars
  <2>8. CASE Restart
    <3>1. changes' \in 0..MaxChanges
      BY <2>8, ConstantsAssumption DEF Restart, Change
    <3>2. queued' \in BOOLEAN
      BY <2>8, Zenon DEF Restart
    <3> QED
      BY <2>8, <3>1, <3>2, Constant DEF Restart, Finish
  <2>9. CASE SyncOperand
    BY <2>9 DEF SyncOperand, serverVars, envVars
  <2>10. CASE SyncCO
    BY <2>10 DEF SyncCO, envVars
  <2>11. CASE Tick
    BY <2>11, ConstantsAssumption DEF Tick, serverVars, cacheVars, ctrlVars
  <2>12. CASE OperandStep
    <3>1. changes' \in 0..MaxChanges
      BY <2>12, ConstantsAssumption DEF OperandStep, Change
    <3>2. karpenter' \in BOOLEAN /\ deploy' \in Deployments
      BY <2>12, Zenon DEF OperandStep
    <3> QED
      BY <2>12, <3>1, <3>2 DEF OperandStep, cacheVars, ctrlVars
  <2>13. CASE COStep
    BY <2>13, Constant, ConstantsAssumption
       DEF COStep, Change, WriteCO, COs, cacheVars, ctrlVars
  <2>14. CASE UNCHANGED vars
    BY <2>14 DEF vars, serverVars, cacheVars, ctrlVars, envVars
  <2> QED
    BY <2>1, <2>2, <2>3, <2>4, <2>5, <2>6, <2>7, <2>8, <2>9, <2>10, <2>11, <2>12,
       <2>13, <2>14 DEF Next, Controller
<1> QED
  BY <1>1, <1>2, PTL DEF Spec

(* What is left after a write of the CO: an event of it, unless the write  *)
(* changes nothing.                                                        *)
LEMMA WriteCOEvent ==
    ASSUME NEW new, WriteCO(new)
    PROVE  co' = new /\ (~coEvent' => ~coEvent /\ new = co)
  BY Zenon DEF WriteCO

(* No step but a failing read of the operand starts the report of a        *)
(* failure, and it counts: the report that a CO shows is older.            *)
LEMMA FailuresStayCounted ==
    TypeOK /\ FailuresCounted /\ [Next]_vars => FailuresCounted'
  <1> SUFFICES ASSUME TypeOK, FailuresCounted, [Next]_vars PROVE FailuresCounted'
    OBVIOUS
  <1>0. readFailures \in Nat /\ None \notin Degraded
    BY ConstantsAssumption DEF TypeOK, Degraded, None
  <1>1. CASE Reconcile \/ operandConditions
    <2>1. report' \notin Degraded
      BY <1>1, <1>0 DEF TypeOK, Reconcile, operandConditions, Report, DeploymentReason,
         Deployments, Degraded
    <2>2. UNCHANGED <<co, status, readFailures>>
      BY <1>1 DEF Reconcile, operandConditions, Report, serverVars, envVars
    <2> QED
      BY <2>1, <2>2 DEF FailuresCounted, ReportsFailure
  <1>2. CASE ReadFails
    <2>1. readFailures' = readFailures + 1 /\ co' = co
      BY <1>2 DEF ReadFails, serverVars
    <2> QED
      BY <1>0, <2>1 DEF FailuresCounted, ReportsFailure
  <1>3. CASE ApplyCO
    <2>1. co'.status = co.status
      BY <1>3 DEF ApplyCO, WriteCO, TypeOK, COs
    <2> QED
      BY <1>3, <2>1 DEF ApplyCO, envVars, FailuresCounted, ReportsFailure
  <1>4. CASE GetCO
    <2>1. UNCHANGED <<co, readFailures>>
      BY <1>4 DEF GetCO, serverVars, envVars
    <2>2. report' = None /\ status'.reason \in {report, None}
      BY <1>4 DEF GetCO, Failed, Finish, NoStatus
    <2> QED
      BY <2>1, <2>2, <1>0 DEF FailuresCounted, ReportsFailure
  <1>5. CASE ApplyStatus
    <2>1. co'.status \in {status, co.status} /\ UNCHANGED readFailures
      BY <1>5 DEF ApplyStatus, WriteCO, TypeOK, COs, envVars
    <2>2. report' = None /\ status'.reason = None
      BY <1>5 DEF ApplyStatus, Done, Failed, Finish, NoStatus
    <2> QED
      BY <2>1, <2>2, <1>0 DEF FailuresCounted, ReportsFailure
  <1>6. CASE APIError \/ Restart
    <2>1. UNCHANGED <<co, readFailures>> /\ report' = None /\ status'.reason = None
      BY <1>6 DEF APIError, Restart, Failed, Finish, NoStatus, serverVars
    <2> QED
      BY <2>1, <1>0 DEF FailuresCounted, ReportsFailure
  <1>7. CASE COStep
    <2>1. co'.status.reason = None /\ UNCHANGED <<report, status, readFailures>>
      BY <1>7 DEF COStep, WriteCO, NoStatus, ctrlVars
    <2> QED
      BY <2>1, <1>0 DEF FailuresCounted, ReportsFailure
  <1>8. CASE SyncOperand \/ SyncCO \/ Tick \/ OperandStep \/ UNCHANGED vars
    BY <1>8 DEF SyncOperand, SyncCO, Tick, OperandStep, vars, serverVars, ctrlVars, envVars,
       FailuresCounted, ReportsFailure
  <1> QED
    BY <1>1, <1>2, <1>3, <1>4, <1>5, <1>6, <1>7, <1>8 DEF Next, Controller

(* Each step either queues the controller or leaves what it reports in     *)
(* line with the caches.                                                   *)
LEMMA UpToDateStep ==
    TypeOK /\ FailuresCounted /\ UpToDate /\ [Next]_vars => UpToDate'
  <1> SUFFICES ASSUME TypeOK, FailuresCounted, UpToDate, [Next]_vars PROVE UpToDate'
    OBVIOUS
  <1>1. CASE Reconcile
    <2>1. UNCHANGED <<platform, karpenterCache, deployCache>>
      BY <1>1 DEF Reconcile, serverVars, cacheVars
    <2>2. \/ pc' = "applyCO" /\ report' = ToReport
          \/ pc' = "getDeployment" /\ platform = "supported" /\ karpenterCache
      BY <1>1 DEF Reconcile, Report, ToReport, ReasonFor
    <2>3. ToReport' = ToReport
      BY <2>1 DEF ToReport, ReasonFor, DeploymentReason
    <2> QED
      BY <2>1, <2>2, <2>3 DEF UpToDate
  <1>2. CASE operandConditions
    <2>1. UNCHANGED <<platform, karpenterCache, deployCache, queued>>
      BY <1>2 DEF operandConditions, serverVars, cacheVars
    <2>2. pc = "getDeployment" /\ pc' = "applyCO" /\ report' = DeploymentReason(deployCache)
      BY <1>2 DEF operandConditions, Report
    <2>3. ToReport' = ToReport
      BY <2>1 DEF ToReport, ReasonFor, DeploymentReason
    <2>4. ~queued => report' = ToReport
      BY <2>2 DEF UpToDate, ToReport, ReasonFor
    <2> QED
      BY <2>1, <2>2, <2>3, <2>4 DEF UpToDate
  <1>3. CASE ReadFails
    BY <1>3 DEF ReadFails, Report, Degraded, UpToDate
  <1>4. CASE ApplyCO
    <2>1. ToReport' = ToReport /\ UNCHANGED <<queued, report>>
      BY <1>4 DEF ApplyCO, cacheVars, ToReport, ReasonFor, DeploymentReason
    <2>2. pc = "applyCO" /\ pc' = "getCO"
      BY <1>4 DEF ApplyCO
    <2> QED
      BY <2>1, <2>2 DEF UpToDate
  <1>5. CASE GetCO
    <2>1. CASE ~coCache.exists /\ Failed
      BY <2>1 DEF Failed, UpToDate
    <2>2. CASE ~(~coCache.exists /\ Failed)
      <3>1. /\ pc = "getCO" /\ pc' = "applyStatus" /\ status'.reason = report
            /\ UNCHANGED queued
        BY <1>5, <2>2 DEF GetCO
      <3>2. ToReport' = ToReport
        BY <1>5 DEF GetCO, serverVars, cacheVars, ToReport, ReasonFor, DeploymentReason
      <3> QED
        BY <3>1, <3>2 DEF UpToDate
    <2> QED
      BY <2>1, <2>2
  <1>6. CASE ApplyStatus
    <2>1. CASE ~co.exists /\ Failed
      BY <2>1 DEF Failed, UpToDate
    <2>2. CASE ~(~co.exists /\ Failed)
      <3>1. /\ pc = "applyStatus" /\ pc' = "idle" /\ UNCHANGED <<queued, readFailures>>
            /\ WriteCO([co EXCEPT !.status = status])
        BY <1>6, <2>2 DEF ApplyStatus, Done, Finish, envVars
      <3>2. ToReport' = ToReport
        BY <1>6 DEF ApplyStatus, cacheVars, ToReport, ReasonFor, DeploymentReason
      <3>3. co'.status = status /\ (~coEvent' => co' = co)
        BY <3>1, WriteCOEvent DEF TypeOK, COs
      <3>4. co'.status.reason \in Degraded /\ ~coEvent' => readFailures' > 1
        BY <3>1, <3>3 DEF FailuresCounted, ReportsFailure
      <3>5. ~queued => co'.status.reason \in Degraded \union {ToReport}
        BY <3>1, <3>3 DEF UpToDate
      <3> QED
        BY <3>1, <3>2, <3>4, <3>5 DEF UpToDate
    <2> QED
      BY <2>1, <2>2
  <1>7. CASE Restart
    <2>1. pc' = "idle" /\ (co'.exists => queued')
      BY <1>7, Zenon DEF Restart, Finish
    <2> QED
      BY <2>1 DEF UpToDate
  <1>8. CASE APIError \/ SyncOperand \/ SyncCO
    BY <1>8 DEF APIError, SyncOperand, SyncCO, Failed, UpToDate
  <1>9. CASE COStep
    <2>1. UNCHANGED <<queued, pc, report, status, readFailures, platform, karpenterCache,
                      deployCache>>
      BY <1>9 DEF COStep, ctrlVars, cacheVars
    <2>2. ToReport' = ToReport
      BY <2>1 DEF ToReport, ReasonFor, DeploymentReason
    <2>3. coEvent'
      <3>1. [exists |-> ~co.exists, status |-> NoStatus] # co
        BY DEF TypeOK, COs
      <3> QED
        BY <1>9, <3>1, WriteCOEvent DEF COStep
    <2> QED
      BY <2>1, <2>2, <2>3 DEF UpToDate
  <1>10. CASE Tick \/ OperandStep \/ UNCHANGED vars
    <2>1. UNCHANGED <<queued, pc, report, status, readFailures, platform, karpenterCache,
                      deployCache, co, coEvent>>
      BY <1>10 DEF Tick, OperandStep, vars, serverVars, ctrlVars, cacheVars, envVars
    <2>2. ToReport' = ToReport
      BY <2>1 DEF ToReport, ReasonFor, DeploymentReason
    <2> QED
      BY <2>1, <2>2 DEF UpToDate
  <1> QED
    BY <1>1, <1>2, <1>3, <1>4, <1>5, <1>6, <1>7, <1>8, <1>9, <1>10 DEF Next, Controller

(* The invariant behind the state at rest: the reports on their way and    *)
(* the one the CO shows agree with the caches, or a failed read is counted.*)
THEOREM Invariance == Spec => []IInv
<1>1. Init => FailuresCounted /\ UpToDate
  <2> SUFFICES ASSUME Init PROVE FailuresCounted /\ UpToDate
    OBVIOUS
  <2>1. co.status = NoStatus /\ report = None /\ status = NoStatus /\ pc = "idle"
    BY DEF Init
  <2>2. co.exists => queued
    BY Zenon DEF Init
  <2> QED
    BY <2>1, <2>2 DEF FailuresCounted, ReportsFailure, UpToDate, NoStatus, Degraded, None
<1>2. TypeOK /\ FailuresCounted /\ UpToDate /\ [Next]_vars => FailuresCounted' /\ UpToDate'
  BY FailuresStayCounted, UpToDateStep
<1> QED
  BY <1>1, <1>2, TypeCorrect, PTL DEF Spec, IInv

(* The controller comes to rest only when the CO reports the state of the  *)
(* operand, whatever failed, restarted or arrived late before, or when the *)
(* read of the operand has failed more than once.                          *)
THEOREM RestsOnlyReportedCorrect == Spec => []RestsOnlyReported
<1>1. IInv => RestsOnlyReported
  BY DEF IInv, UpToDate, RestsOnlyReported, ToReport, Expected
<1> QED
  BY <1>1, Invariance, PTL
=============================================================================

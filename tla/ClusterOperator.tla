-------------------------- MODULE ClusterOperator --------------------------
(***************************************************************************)
(* The clusteroperator controller (standalone clusters): it reports the    *)
(* state of the Karpenter operand in the conditions of a ClusterOperator   *)
(* (CO), each with the time of its last transition.                        *)
(*                                                                         *)
(* One request, one worker.  The Karpenter CR, the operand's Deployment    *)
(* and the CO itself come from three caches; the CO's own events wake the  *)
(* controller too.                                                         *)
(***************************************************************************)
EXTENDS Naturals

CONSTANTS
    MaxTime,       \* bound on the clock
    MaxChanges,    \* bound on changes by others, failing calls and restarts
    MaxReadFailures   \* bound on failing reads of the operand

ASSUME ConstantsAssumption ==
    MaxTime \in Nat /\ MaxChanges \in Nat /\ MaxReadFailures \in Nat

VARIABLES
    platform,      \* fixed when the operator starts
    karpenter,     \* does the Karpenter CR exist?
    deploy,        \* the Deployment of the operand
    co,            \* the CO: the reason reported, and since when, per type
    coEvent,       \* a write of the CO is on its way to the cache
    karpenterCache, deployCache, coCache,
    queued, pc,
    report,        \* the reason the reconcile in progress will report
    status,        \* the status it is about to apply
    now, changes, readFailures

serverVars == <<platform, karpenter, deploy, co, coEvent>>
cacheVars == <<karpenterCache, deployCache, coCache>>
ctrlVars == <<queued, pc, report, status>>
envVars == <<now, changes, readFailures>>
vars == <<serverVars, cacheVars, ctrlVars, envVars>>

Types == {"Available", "Progressing", "Degraded", "Upgradeable"}
Progressing == {"OperandNotYetCreated", "OperandNotReady", "OperandRollingOut"}
Degraded == {"KarpenterCheckFailed", "OperandCheckFailed"}
Available == {"UnsupportedPlatform", "KarpenterNotFound", "AsExpected"}
Reasons == Progressing \union Degraded \union Available
Deployments == {"absent", "unavailable", "rollingOut", "ready"}

None == "none"   \* no conditions, no report

(* availableConditions, progressingConditions and degradedConditions.      *)
ConditionStatus(type, reason) ==
    IF type = "Progressing" THEN reason \in Progressing
    ELSE IF type = "Degraded" THEN reason \in Degraded ELSE TRUE

Statuses == [reason: Reasons \union {None}, since: [Types -> 0..MaxTime]]
NoStatus == [reason |-> None, since |-> [t \in Types |-> 0]]
COs == [exists: BOOLEAN, status: Statuses]

TypeOK ==
    /\ platform \in {"supported", "unsupported"}
    /\ karpenter \in BOOLEAN /\ karpenterCache \in BOOLEAN
    /\ deploy \in Deployments /\ deployCache \in Deployments
    /\ co \in COs /\ coCache \in COs /\ coEvent \in BOOLEAN
    /\ queued \in BOOLEAN
    /\ pc \in {"idle", "getDeployment", "applyCO", "getCO", "applyStatus"}
    /\ report \in Reasons \union {None} /\ status \in Statuses
    /\ report # None <=> pc \in {"applyCO", "getCO"}
    /\ status # NoStatus => pc = "applyStatus"
    /\ now \in 0..MaxTime /\ changes \in 0..MaxChanges
    /\ readFailures \in 0..MaxReadFailures

Init ==
    /\ platform \in {"supported", "unsupported"}
    /\ karpenter \in BOOLEAN /\ karpenterCache = karpenter
    /\ deploy = "absent" /\ deployCache = deploy
    /\ co \in [exists: BOOLEAN, status: {NoStatus}] /\ coCache = co /\ coEvent = FALSE
    /\ queued = (karpenter \/ co.exists)
    /\ pc = "idle" /\ report = None /\ status = NoStatus
    /\ now = 0 /\ changes = 0 /\ readFailures = 0

-----------------------------------------------------------------------------
(***************************************************************************)
(* The controller.                                                         *)
(***************************************************************************)
Finish == pc' = "idle" /\ report' = None /\ status' = NoStatus

(* Mutant: the report is kept for the next reconcile.                      *)
MutKeepsReport == pc' = "idle" /\ queued' = TRUE /\ UNCHANGED <<report, status>>

Done == Finish /\ UNCHANGED queued

Failed == Finish /\ queued' = TRUE

Report(reason) == pc' = "applyCO" /\ report' = reason /\ UNCHANGED status

(* On a platform without Karpenter nothing is read; else the Karpenter CR. *)
Reconcile ==
    /\ pc = "idle" /\ queued
    /\ queued' = FALSE
    /\ \/ platform = "unsupported" /\ Report("UnsupportedPlatform")
       \/ platform = "supported" /\ ~karpenterCache /\ Report("KarpenterNotFound")
       \/ /\ platform = "supported" /\ karpenterCache
          /\ pc' = "getDeployment" /\ UNCHANGED <<report, status>>
    /\ UNCHANGED <<serverVars, cacheVars, envVars>>

DeploymentReason(d) ==
    CASE d = "absent" -> "OperandNotYetCreated"
      [] d = "unavailable" -> "OperandNotReady"
      [] d = "rollingOut" -> "OperandRollingOut"
      [] d = "ready" -> "AsExpected"

operandConditions ==
    /\ pc = "getDeployment"
    /\ Report(DeploymentReason(deployCache))
    /\ UNCHANGED <<queued, serverVars, cacheVars, envVars>>

Change == changes < MaxChanges /\ changes' = changes + 1

(* A failing read is reported as Degraded; the reconcile goes on and ends  *)
(* without an error.                                                       *)
ReadFails ==
    /\ readFailures < MaxReadFailures /\ readFailures' = readFailures + 1
    /\ \/ /\ pc = "idle" /\ queued /\ platform = "supported"
          /\ Report("KarpenterCheckFailed") /\ queued' = FALSE
       \/ pc = "getDeployment" /\ Report("OperandCheckFailed") /\ UNCHANGED queued
    /\ UNCHANGED <<serverVars, cacheVars, now, changes>>

(* The API server makes an event of a write that changes something.        *)
WriteCO(new) == co' = new /\ coEvent' = (coEvent \/ co # new)

(* applyStatus, its three calls: ensure that the CO exists, ...            *)
ApplyCO ==
    /\ pc = "applyCO"
    /\ WriteCO([co EXCEPT !.exists = TRUE])
    /\ pc' = "getCO"
    /\ UNCHANGED <<platform, karpenter, deploy, cacheVars, queued, report, status, envVars>>

(* The time of a condition: that of the existing one with the same status. *)
LastTransitionTime(type, prev) ==
    IF /\ prev.reason # None
       /\ ConditionStatus(type, prev.reason) = ConditionStatus(type, report)
    THEN prev.since[type] ELSE now

(* ... read it, ...                                                        *)
GetCO ==
    /\ pc = "getCO"
    /\ \/ ~coCache.exists /\ Failed
       \/ /\ coCache.exists
          /\ pc' = "applyStatus" /\ report' = None
          /\ status' = [reason |-> report,
                        since |-> [t \in Types |-> LastTransitionTime(t, coCache.status)]]
          /\ UNCHANGED queued
    /\ UNCHANGED <<serverVars, cacheVars, envVars>>

(* ... and apply the conditions, whoever owns them.                        *)
ApplyStatus ==
    /\ pc = "applyStatus"
    /\ \/ co.exists /\ WriteCO([co EXCEPT !.status = status]) /\ Done
       \/ ~co.exists /\ Failed /\ UNCHANGED <<co, coEvent>>
    /\ UNCHANGED <<platform, karpenter, deploy, cacheVars, envVars>>

Controller == Reconcile \/ operandConditions \/ ApplyCO \/ GetCO \/ ApplyStatus

(* A write, or the read of the CO, fails.                                  *)
APIError ==
    /\ Change /\ pc \in {"applyCO", "getCO", "applyStatus"}
    /\ Failed
    /\ UNCHANGED <<serverVars, cacheVars, now, readFailures>>

Restart ==
    /\ Change
    /\ karpenterCache' = karpenter /\ deployCache' = deploy /\ coCache' = co
    /\ coEvent' = FALSE
    /\ queued' = (karpenter \/ deploy # "absent" \/ co.exists)
    /\ Finish
    /\ UNCHANGED <<platform, karpenter, deploy, co, now, readFailures>>

-----------------------------------------------------------------------------
(***************************************************************************)
(* The watches: every event of the three objects passes.                   *)
(***************************************************************************)
SyncOperand ==
    /\ <<karpenterCache, deployCache>> # <<karpenter, deploy>>
    /\ \/ karpenterCache' = karpenter /\ UNCHANGED deployCache
       \/ deployCache' = deploy /\ UNCHANGED karpenterCache
    /\ <<karpenterCache, deployCache>>' # <<karpenterCache, deployCache>>
    /\ queued' = TRUE
    /\ UNCHANGED <<coCache, pc, report, status, serverVars, envVars>>

(* Mutant: the CO is not watched.                                          *)
MutUnwatched ==
    /\ coEvent /\ coEvent' = FALSE /\ coCache' = co
    /\ UNCHANGED <<platform, karpenter, deploy, co, karpenterCache, deployCache,
                   ctrlVars, envVars>>

SyncCO ==
    /\ coEvent
    /\ coEvent' = FALSE /\ coCache' = co
    /\ queued' = TRUE
    /\ UNCHANGED <<platform, karpenter, deploy, co, karpenterCache, deployCache,
                   pc, report, status, envVars>>

-----------------------------------------------------------------------------
(***************************************************************************)
(* Others: the clock, the operand's controllers, the users, and the        *)
(* cluster version operator, which creates the CO.                         *)
(***************************************************************************)
Tick ==
    /\ now < MaxTime /\ now' = now + 1
    /\ UNCHANGED <<serverVars, cacheVars, ctrlVars, changes, readFailures>>

OperandStep ==
    /\ Change
    /\ \/ karpenter' = ~karpenter /\ UNCHANGED deploy
       \/ \E d \in Deployments \ {deploy} : deploy' = d /\ UNCHANGED karpenter
    /\ UNCHANGED <<platform, co, coEvent, cacheVars, ctrlVars, now, readFailures>>

COStep ==
    /\ Change
    /\ WriteCO([exists |-> ~co.exists, status |-> NoStatus])
    /\ UNCHANGED <<platform, karpenter, deploy, cacheVars, ctrlVars, now, readFailures>>

Next == \/ Controller \/ ReadFails \/ APIError \/ Restart
        \/ SyncOperand \/ SyncCO \/ Tick \/ OperandStep \/ COStep

Spec == Init /\ [][Next]_vars

(* The worker and the informers run.                                       *)
Fairness == WF_vars(Controller) /\ WF_vars(SyncOperand) /\ WF_vars(SyncCO)

FairSpec == Spec /\ Fairness

-----------------------------------------------------------------------------
(***************************************************************************)
(* Properties.                                                             *)
(***************************************************************************)

(* "Read existing conditions to preserve LastTransitionTime for unchanged  *)
(* statuses" (applyStatus): a write does not move the time of a condition  *)
(* whose status it leaves as it is.                                        *)
TransitionTimeKept ==
    [][ApplyStatus /\ co'.exists /\ co.status.reason # None =>
         \A t \in Types :
             ConditionStatus(t, co'.status.reason) = ConditionStatus(t, co.status.reason)
                 => co'.status.since[t] = co.status.since[t]]_vars

(* The reason to report for this Karpenter CR and this Deployment.         *)
ReasonFor(cr, d) ==
    IF platform = "unsupported" THEN "UnsupportedPlatform"
    ELSE IF ~cr THEN "KarpenterNotFound" ELSE DeploymentReason(d)

Expected == ReasonFor(karpenter, deploy)

(* A failed read is about to be reported to a CO that reports it already:  *)
(* the write changes nothing, so that no event of it follows.              *)
RepeatsFailure == status.reason \in Degraded /\ status.reason = co.status.reason

(* What the CO reports ends up as the state of the operand, whichever      *)
(* cache is behind and whichever writes fail, provided somebody creates    *)
(* the CO when it is missing.  A failed read (operandConditions) is not    *)
(* retried: its report as Degraded is an event of the CO, which wakes the  *)
(* controller again.  The exception is a read that fails again on that     *)
(* wake-up: its Degraded may stay.                                         *)
StatusFollowsOperand ==
    []<>(co.exists) =>
        \/ <>[](co.status.reason = Expected)
        \/ <>RepeatsFailure /\ <>[](co.status.reason \in Degraded)

(* The safety side of it: in a state at rest, where nothing is queued or   *)
(* in progress and the informers have delivered everything, the CO reports *)
(* the state of the operand.  Only a read that failed twice or more can    *)
(* leave its Degraded behind: the second report changes nothing, so that   *)
(* no event of the CO leads to another reconcile.                          *)
RestsOnlyReported ==
    /\ ~queued /\ pc = "idle" /\ ~coEvent /\ co.exists
    /\ karpenterCache = karpenter /\ deployCache = deploy
    => \/ co.status.reason = Expected
       \/ co.status.reason \in Degraded /\ readFailures > 1

-----------------------------------------------------------------------------
(***************************************************************************)
(* The inductive invariant behind RestsOnlyReported.                       *)
(***************************************************************************)

(* A report of a failed read is on its way.                                *)
ReportsFailure == report \in Degraded \/ status.reason \in Degraded

(* The first failed read is reported to a CO that shows no other one.      *)
FailuresCounted ==
    /\ co.status.reason \in Degraded => readFailures > 0
    /\ ReportsFailure => readFailures > 0
    /\ ReportsFailure /\ co.status.reason \in Degraded => readFailures > 1

(* What the caches ask to report.                                          *)
ToReport == ReasonFor(karpenterCache, deployCache)

(* Unless it is to run again, a reconcile reports what the caches show or  *)
(* a failed read, and after it the CO does, or an event of it is under way.*)
UpToDate ==
    ~queued =>
        /\ pc = "idle" /\ co.exists =>
              \/ coEvent
              \/ co.status.reason = ToReport
              \/ co.status.reason \in Degraded /\ readFailures > 1
        /\ pc = "getDeployment" => platform = "supported" /\ karpenterCache
        /\ pc \in {"applyCO", "getCO"} => report \in Degraded \union {ToReport}
        /\ pc = "applyStatus" => status.reason \in Degraded \union {ToReport}

IInv == TypeOK /\ FailuresCounted /\ UpToDate
=============================================================================

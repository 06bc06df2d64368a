-------------------------- MODULE EC2NodeClassProofs --------------------------
(***************************************************************************)
(* Proofs about EC2NodeClass: its types, that nothing is created without   *)
(* the finalizer, that status patches undo nothing, and that a state at    *)
(* rest is one in which the NodeClass is reconciled.                       *)
(***************************************************************************)
EXTENDS EC2NodeClass, FiniteSetTheorems, TLAPS

USE DEF vars, serverVars, cacheVars, workVars, ctrlVars

(* An absent NodeClass, EC2NodeClass and version have the right types.     *)
LEMMA NoneType ==
    /\ \A k \in Nat : NoNodeClass(k) \in NodeClasses
    /\ \A k \in Nat : NoEC2(k) \in EC2NodeClasses
    /\ NoVersion \in ControlPlaneVersions
BY DEF NoNodeClass, NoEC2, NoVersion, NodeClasses, EC2NodeClasses, Phases, Versions,
       ConditionStatus, ControlPlaneVersions

(* The fields of well-typed objects.                                       *)
LEMMA FieldTypes ==
    ASSUME TypeOK
    PROVE  /\ nc.phase \in Phases /\ nc.finalizers \in SUBSET {finalizer}
           /\ nc.version \in Versions /\ nc.rv \in Nat
           /\ nc.resolved \in ConditionStatus /\ nc.ready \in ConditionStatus
           /\ n.finalizers \in SUBSET {finalizer} /\ n.rv \in Nat
           /\ n.resolved \in ConditionStatus /\ n.ready \in ConditionStatus
           /\ ncCache.phase \in Phases /\ ncCache.rv \in Nat
           /\ ec2.phase \in Phases /\ ec2.release \in Releases \union {NoRelease}
           /\ ec2.ready \in ConditionStatus /\ ec2.rv \in Nat
           /\ hcp.version \in ControlPlaneVersions /\ hcpCache.version \in ControlPlaneVersions
BY DEF TypeOK, NodeClasses, EC2NodeClasses, HCPs

(* A write of the NodeClass keeps its type and gives it the next resource  *)
(* version; nothing of a finalizer in it is lost.                          *)
LEMMA WriteLemma ==
    ASSUME TypeOK, NEW ph \in Phases \ {"absent"}, NEW fs \in SUBSET {finalizer},
           NEW a \in ConditionStatus, NEW b \in ConditionStatus
    PROVE  /\ Written(ph, fs, a, b) \in NodeClasses
           /\ Written(ph, fs, a, b).rv = nc.rv + 1
           /\ Written(ph, fs, a, b).phase = "absent" => Written(ph, fs, a, b).finalizers = {}
           /\ finalizer \in fs => finalizer \in Written(ph, fs, a, b).finalizers
           /\ Written(ph, fs, a, b).phase # "absent" => Written(ph, fs, a, b).resolved = a
           /\ Written(ph, fs, a, b).ready \in {"unset", b}
BY NoneType, FieldTypes DEF Written, NoNodeClass, NodeClasses

(* The case of a deletion by the user.                                     *)
LEMMA DeletedLemma ==
    ASSUME TypeOK, nc' = Written("deleting", nc.finalizers, nc.resolved, nc.ready)
    PROVE  /\ nc' \in NodeClasses /\ nc'.rv = nc.rv + 1
           /\ nc'.phase = "absent" => nc'.finalizers = {}
           /\ finalizer \in nc.finalizers => finalizer \in nc'.finalizers
           /\ nc'.ready \in {"unset", nc.ready}
<1>1. "deleting" \in Phases \ {"absent"}
  BY DEF Phases
<1>2. QED
  BY <1>1, FieldTypes, WriteLemma

(* SyncConditions returns a condition status, and True only for a resolved *)
(* version.                                                                *)
LEMMA SyncLemma ==
    ASSUME NEW a \in ConditionStatus, NEW b \in ConditionStatus, NEW c \in ConditionStatus
    PROVE  /\ SyncConditions(a, b, c) \in ConditionStatus
           /\ SyncConditions(a, b, c) = "True" => a = "True"
BY DEF SyncConditions, ConditionStatus

(* What Reconcile decides, from the phase and finalizers in the cache.     *)
LEMMA NextStepCases ==
    \/ NextStep = "idle"
    \/ NextStep = "wait"
    \/ ncCache.phase = "deleting" /\ NextStep \in {"delete", "removeFinalizer"}
    \/ /\ ncCache.phase \notin {"absent", "deleting"}
       /\ \/ finalizer \in ncCache.finalizers /\ NextStep = "apply"
          \/ NextStep = "addFinalizer"
BY DEF NextStep, DeletingStep, PresentStep

(* A reconcile that ends, well or not, leaves the controller well typed.   *)
LEMMA EndType ==
    ASSUME TypeOK, Done \/ Failed \/ RequeueAfter
    PROVE  /\ queued' \in BOOLEAN /\ timer' \in BOOLEAN /\ pc' = "idle"
           /\ n' = NoNodeClass(0) /\ v' = NoVersion /\ ready' = "unset"
           /\ n' \in NodeClasses /\ v' \in ControlPlaneVersions /\ ready' \in ConditionStatus
<1>1. queued' \in BOOLEAN /\ timer' \in BOOLEAN
  BY Zenon DEF TypeOK, Done, Failed, RequeueAfter
<1>2. QED
  BY <1>1, NoneType DEF Done, Failed, RequeueAfter, DropWork, ConditionStatus

(* An EC2NodeClass whose fields have their types is an EC2NodeClass.       *)
LEMMA EC2Type ==
    ASSUME TypeOK, NEW ph \in Phases, NEW s \in ConditionStatus,
           NEW r \in Releases \union {NoRelease}
    PROVE  /\ [phase |-> ph, release |-> r, ready |-> s, rv |-> ec2.rv + 1] \in EC2NodeClasses
           /\ NoEC2(ec2.rv + 1) \in EC2NodeClasses
BY NoneType DEF EC2NodeClasses, TypeOK

(* CreateOrUpdate keeps the types.                                         *)
LEMMA ApplyType ==
    ASSUME TypeOK, NEW release \in Releases, ApplyEC2(release)
    PROVE  /\ ec2' \in EC2NodeClasses
           /\ \/ Failed
              \/ /\ pc' = "status" /\ UNCHANGED <<queued, timer, n, v>>
                 /\ ready' \in ConditionStatus
<1>1. ReconciledRelease(v, n.version, NoRelease, release) \in Releases \union {NoRelease}
  BY DEF ReconciledRelease
<1>2. ReconciledRelease(v, n.version, ec2.release, release) \in Releases \union {NoRelease}
  BY FieldTypes DEF ReconciledRelease
<1>3. /\ \/ ec2' = ec2
         \/ \E ph \in Phases, s \in ConditionStatus, r \in Releases \union {NoRelease} :
               ec2' = [phase |-> ph, release |-> r, ready |-> s, rv |-> ec2.rv + 1]
      /\ Failed \/ (pc' = "status" /\ UNCHANGED <<queued, timer, n, v>>
                    /\ ready' \in ConditionStatus)
  BY <1>1, <1>2, FieldTypes DEF ApplyEC2, Phases, ConditionStatus
<1>4. QED
  BY <1>3, EC2Type DEF TypeOK

(* Every step keeps the types.                                             *)
LEMMA TypeInductive == TypeOK /\ [Next]_vars => TypeOK'
<1> SUFFICES ASSUME TypeOK, [Next]_vars PROVE TypeOK'
  OBVIOUS
<1> USE DEF TypeOK
<1>1. CASE Reconcile
  <2>1. queued' \in BOOLEAN /\ timer' \in BOOLEAN
    BY <1>1, Zenon DEF Reconcile
  <2>2. pc' \in PCs /\ (pc' = "idle" => n' = NoNodeClass(0) /\ v' = NoVersion /\ ready' = "unset")
    BY <1>1 DEF Reconcile
  <2>3. n' \in NodeClasses /\ v' \in ControlPlaneVersions /\ ready' \in ConditionStatus
    BY <1>1, FieldTypes DEF Reconcile
  <2>4. QED
    BY <1>1, <2>1, <2>2, <2>3 DEF Reconcile
<1>2. CASE AddFinalizer
  <2>1. CASE LockHolds
    <3>1. nc' \in NodeClasses
      BY <1>2, <2>1, FieldTypes, WriteLemma DEF AddFinalizer, LockHolds, Failed
    <3>2. queued' \in BOOLEAN /\ timer' \in BOOLEAN
      BY <1>2, <2>1, Zenon DEF AddFinalizer
    <3>3. QED
      BY <1>2, <2>1, <3>1, <3>2 DEF AddFinalizer, PCs
  <2>2. CASE ~LockHolds
    BY <1>2, <2>2, EndType DEF AddFinalizer, PCs
  <2>3. QED
    BY <2>1, <2>2
<1>3. CASE reconcileEC2NodeClass
  <2>1. CASE (Failed \/ RequeueAfter) /\ UNCHANGED ec2
    BY <1>3, <2>1, EndType DEF reconcileEC2NodeClass, PCs
  <2>2. CASE \E release \in secretsCache : ApplyEC2(release)
    <3>1. ec2' \in EC2NodeClasses
      BY <2>2, ApplyType
    <3>2. CASE Failed
      BY <1>3, <3>1, <3>2, EndType DEF reconcileEC2NodeClass, PCs
    <3>3. CASE /\ pc' = "status" /\ UNCHANGED <<queued, timer, n, v>>
               /\ ready' \in ConditionStatus
      <4>1. queued' \in BOOLEAN /\ timer' \in BOOLEAN
        BY <3>3, Zenon
      <4>2. QED
        BY <1>3, <3>1, <3>3, <4>1 DEF reconcileEC2NodeClass, PCs
    <3>4. QED
      BY <2>2, <3>2, <3>3, ApplyType
  <2>3. QED
    BY <1>3, <2>1, <2>2 DEF reconcileEC2NodeClass
<1>4. CASE reconcileStatus
  <2>1. /\ Done \/ Failed
        /\ \/ nc' = nc
           \/ LockHolds /\ nc' = Written(nc.phase, nc.finalizers, n.resolved,
                                         SyncConditions(n.resolved, n.ready, ready))
    BY <1>4 DEF reconcileStatus
  <2>2. nc' \in NodeClasses
    <3>1. nc.phase \in Phases \ {"absent"} \/ nc' = nc
      BY <2>1, FieldTypes DEF LockHolds
    <3>2. SyncConditions(n.resolved, n.ready, ready) \in ConditionStatus
      BY FieldTypes, SyncLemma
    <3>3. QED
      BY <2>1, <3>1, <3>2, FieldTypes, WriteLemma
  <2>3. QED
    BY <1>4, <2>1, <2>2, EndType DEF reconcileStatus, PCs
<1>5. CASE deleteIfNeeded
  <2>1. ec2' \in EC2NodeClasses
    BY <1>5, EC2Type, FieldTypes DEF deleteIfNeeded, Phases
  <2>2. CASE Done \/ RequeueAfter
    BY <1>5, <2>1, <2>2, EndType DEF deleteIfNeeded, PCs
  <2>3. CASE pc' = "removeFinalizer" /\ UNCHANGED <<queued, timer, workVars>>
    <3>1. queued' \in BOOLEAN /\ timer' \in BOOLEAN
      BY <2>3, Zenon
    <3>2. QED
      BY <1>5, <2>1, <2>3, <3>1 DEF deleteIfNeeded, PCs
  <2>4. QED
    BY <1>5, <2>2, <2>3 DEF deleteIfNeeded
<1>6. CASE RemoveFinalizer
  <2>1. nc' \in NodeClasses
    BY <1>6, FieldTypes, WriteLemma DEF RemoveFinalizer, LockHolds
  <2>2. QED
    BY <1>6, <2>1, EndType DEF RemoveFinalizer, PCs
<1>7. CASE TimerFires
  <2>1. queued' \in BOOLEAN /\ timer' \in BOOLEAN
    BY <1>7, Zenon DEF TimerFires
  <2>2. QED
    BY <1>7, <2>1 DEF TimerFires
<1>8. CASE APIError
  BY <1>8, EndType, MaxChangesAssumption DEF APIError, PCs
<1>9. CASE Restart
  <2>1. queued' \in BOOLEAN /\ timer' \in BOOLEAN
    BY <1>9, Zenon DEF Restart
  <2>2. QED
    BY <1>9, <2>1, NoneType, MaxChangesAssumption DEF Restart, DropWork, PCs, ConditionStatus
<1>10. CASE Informers
  <2>1. queued' \in BOOLEAN /\ timer' \in BOOLEAN
    BY <1>10, Zenon DEF Informers, SyncNodeClass, SyncEC2, SyncSecrets, SyncHCP
  <2>2. QED
    BY <1>10, <2>1 DEF Informers, SyncNodeClass, SyncEC2, SyncSecrets, SyncHCP
<1>11. CASE UserStep
  <2>1. nc' \in NodeClasses
    <3>1. CASE \E version \in Versions :
                 nc' = [phase |-> "present", finalizers |-> {}, version |-> version,
                        resolved |-> "unset", ready |-> "unset", rv |-> nc.rv + 1]
      BY <3>1, FieldTypes DEF NodeClasses, Phases, ConditionStatus
    <3>2. CASE nc' = Written("deleting", nc.finalizers, nc.resolved, nc.ready)
      BY <3>2, DeletedLemma
    <3>3. QED
      BY <1>11, <3>1, <3>2 DEF UserStep
  <2>2. QED
    BY <1>11, <2>1, MaxChangesAssumption DEF UserStep, Change
<1>12. CASE IgnitionStep
  <2>1. nc' \in NodeClasses
    BY <1>12, FieldTypes, WriteLemma DEF IgnitionStep, ConditionStatus
  <2>2. secrets' \subseteq Releases
    BY <1>12 DEF IgnitionStep
  <2>3. QED
    BY <1>12, <2>1, <2>2, MaxChangesAssumption DEF IgnitionStep, Change
<1>13. CASE HyperShiftStep
  <2>1. PICK o, w : hcp' = [exists |-> TRUE, override |-> o, version |-> w]
                    /\ o \in {hcp.override, ~hcp.override} /\ w \in ControlPlaneVersions
    BY <1>13, FieldTypes DEF HyperShiftStep, ControlPlaneVersions
  <2>2. hcp.override \in BOOLEAN
    BY Zenon DEF HCPs
  <2>3. o \in BOOLEAN
    BY <2>1, <2>2, Zenon
  <2>4. hcp' \in HCPs
    BY <2>1, <2>3 DEF HCPs
  <2>5. QED
    BY <1>13, <2>4, MaxChangesAssumption DEF HyperShiftStep, Change
<1>14. CASE KarpenterStatus
  <2>1. ec2' \in EC2NodeClasses
    BY <1>14, EC2Type, FieldTypes DEF KarpenterStatus, ConditionStatus
  <2>2. QED
    BY <1>14, <2>1, MaxChangesAssumption DEF KarpenterStatus, Change
<1>15. CASE KarpenterFinalize
  <2>1. ec2' \in EC2NodeClasses
    BY <1>15, NoneType, FieldTypes DEF KarpenterFinalize
  <2>2. QED
    BY <1>15, <2>1 DEF KarpenterFinalize
<1>16. CASE UNCHANGED vars
  BY <1>16
<1>17. QED
  BY <1>1, <1>2, <1>3, <1>4, <1>5, <1>6, <1>7, <1>8, <1>9, <1>10, <1>11, <1>12,
     <1>13, <1>14, <1>15, <1>16
  DEF Next, Controller, Environment

(* The NodeClass and the EC2NodeClass to start with.                       *)
LEMMA InitialObjects ==
    ASSUME Init
    PROVE  /\ ec2 \in EC2NodeClasses /\ nc \in NodeClasses
           /\ nc = NoNodeClass(0) \/ nc.phase = "present"
<1>1. ec2 \in EC2NodeClasses
  <2>1. \/ ec2 = NoEC2(0)
        \/ ec2 \in [phase: {"present"}, release: Releases, ready: {"unset", "True"}, rv: {0}]
    BY DEF Init
  <2>2. QED
    BY <2>1, NoneType DEF EC2NodeClasses, Phases, ConditionStatus
<1>2. \/ nc = NoNodeClass(0)
      \/ \E version \in Versions, fs \in SUBSET {finalizer}, rdy \in ConditionStatus :
            nc = [phase |-> "present", version |-> version, finalizers |-> fs,
                  resolved |-> ec2.ready, ready |-> rdy, rv |-> 0]
  BY Zenon DEF Init
<1>3. ec2.ready \in ConditionStatus
  BY <1>1 DEF EC2NodeClasses
<1>4. QED
  BY <1>1, <1>2, <1>3, NoneType DEF NodeClasses, Phases

(* The initial states are well typed.                                      *)
LEMMA TypeInit == Init => TypeOK
<1> SUFFICES ASSUME Init PROVE TypeOK
  OBVIOUS
<1>1. hcp \in HCPs
  <2>1. \/ hcp = [exists |-> FALSE, override |-> FALSE, version |-> NoVersion]
        \/ hcp \in [exists: {TRUE}, override: {FALSE},
                    version: [desired: Releases, completed: Releases \union {NoRelease}]]
    BY DEF Init
  <2>2. CASE hcp = [exists |-> FALSE, override |-> FALSE, version |-> NoVersion]
    BY <2>2, NoneType DEF HCPs
  <2>3. CASE hcp \in [exists: {TRUE}, override: {FALSE},
                      version: [desired: Releases, completed: Releases \union {NoRelease}]]
    BY <2>3, Zenon DEF HCPs, ControlPlaneVersions
  <2>4. QED
    BY <2>1, <2>2, <2>3
<1>2. secrets \subseteq Releases
  <2>1. secrets = {} \/ \E r \in Releases : secrets = {r}
    BY Zenon DEF Init
  <2>2. QED
    BY <2>1
<1>3. queued \in BOOLEAN /\ timer \in BOOLEAN
  BY Zenon DEF Init
<1>4. /\ hcpCache = hcp /\ secretsCache = secrets /\ ncCache = nc /\ ec2Cache = ec2
      /\ pc = "idle" /\ n = NoNodeClass(0) /\ v = NoVersion /\ ready = "unset"
      /\ changes = 0
  BY Zenon DEF Init
<1>5. QED
  BY <1>1, <1>2, <1>3, <1>4, InitialObjects, NoneType, MaxChangesAssumption
  DEF TypeOK, PCs, ConditionStatus

(* The type invariant of the ec2-nodeclass controller, for any releases    *)
(* and any number of changes.                                              *)
THEOREM TypeCorrect == Spec => []TypeOK
BY TypeInit, TypeInductive, PTL DEF Spec

-----------------------------------------------------------------------------
(***************************************************************************)
(* What the steps do to the NodeClass, the cache and the reconcile.        *)
(***************************************************************************)

(* reconcileStatus writes the conditions it has read, or nothing.          *)
LEMMA StatusStep ==
    ASSUME TypeOK, reconcileStatus
    PROVE  \/ nc' = nc
           \/ /\ LockHolds /\ nc.phase \in Phases \ {"absent"}
              /\ SyncConditions(n.resolved, n.ready, ready) \in ConditionStatus
              /\ nc' = Written(nc.phase, nc.finalizers, n.resolved,
                               SyncConditions(n.resolved, n.ready, ready))
<1>1. SyncConditions(n.resolved, n.ready, ready) \in ConditionStatus
  BY FieldTypes, SyncLemma DEF TypeOK
<1>2. QED
  BY <1>1, FieldTypes DEF reconcileStatus, LockHolds

(* Every write of the NodeClass gets the next resource version.  It keeps  *)
(* the finalizer, unless it is the one step that removes it.               *)
LEMMA NodeClassStep ==
    ASSUME TypeOK, AbsentIsBare, [Next]_vars
    PROVE  /\ nc' = nc \/ nc'.rv = nc.rv + 1
           /\ nc'.phase = "absent" => nc'.finalizers = {}
           /\ finalizer \in nc.finalizers /\ finalizer \notin nc'.finalizers
                => RemoveFinalizer /\ LockHolds /\ pc' = "idle"
<1>0. nc.phase # "absent" => nc.phase \in Phases \ {"absent"}
  BY FieldTypes
<1>1. CASE AddFinalizer
  BY <1>0, <1>1, FieldTypes, WriteLemma DEF AddFinalizer, LockHolds, AbsentIsBare
<1>2. CASE reconcileStatus
  BY <1>2, StatusStep, FieldTypes, WriteLemma DEF AbsentIsBare
<1>3. CASE RemoveFinalizer
  BY <1>0, <1>3, FieldTypes, WriteLemma DEF RemoveFinalizer, LockHolds, AbsentIsBare, Done
<1>4. CASE UserStep
  <2>1. CASE /\ nc.phase = "absent"
             /\ nc'.phase = "present" /\ nc'.finalizers = {} /\ nc'.rv = nc.rv + 1
    BY <2>1 DEF AbsentIsBare
  <2>2. CASE nc' = Written("deleting", nc.finalizers, nc.resolved, nc.ready)
    BY <2>2, DeletedLemma
  <2>3. QED
    BY <1>4, <2>1, <2>2 DEF UserStep
<1>5. CASE IgnitionStep
  <2>1. CASE \E s \in {"False", "True"} :
               nc.phase # "absent" /\ nc' = Written(nc.phase, nc.finalizers, s, nc.ready)
    BY <1>0, <2>1, FieldTypes, WriteLemma DEF ConditionStatus
  <2>2. CASE nc' = nc
    BY <2>2 DEF AbsentIsBare
  <2>3. QED
    BY <1>5, <2>1, <2>2 DEF IgnitionStep
<1>6. CASE UNCHANGED nc
  BY <1>6 DEF AbsentIsBare
<1>7. QED
  BY <1>1, <1>2, <1>3, <1>4, <1>5, <1>6
  DEF Next, Controller, Informers, Environment, Reconcile, reconcileEC2NodeClass,
      deleteIfNeeded, APIError, Restart, TimerFires, SyncNodeClass, SyncEC2, SyncSecrets,
      SyncHCP, HyperShiftStep, KarpenterStatus, KarpenterFinalize

(* The cache is left alone or takes the server's NodeClass, which that     *)
(* step does not change.                                                   *)
LEMMA CacheStep ==
    ASSUME [Next]_vars
    PROVE  ncCache' = ncCache \/ (ncCache' = nc /\ nc' = nc)
BY DEF Next, Controller, Informers, Environment, Reconcile, AddFinalizer,
      reconcileEC2NodeClass, reconcileStatus, deleteIfNeeded, RemoveFinalizer, APIError,
      Restart, TimerFires, SyncNodeClass, SyncEC2, SyncSecrets, SyncHCP, UserStep,
      IgnitionStep, HyperShiftStep, KarpenterStatus, KarpenterFinalize

(* A reconcile works on the NodeClass it has, on the cached one when it    *)
(* starts, or on the one it has just written.                              *)
LEMMA WorkStep ==
    ASSUME [Next]_vars, pc' # "idle"
    PROVE  \/ pc # "idle" /\ n' = n
           \/ n' = ncCache /\ nc' = nc
           \/ n' = nc'
<1>1. CASE reconcileEC2NodeClass
  BY <1>1 DEF reconcileEC2NodeClass, ApplyEC2, Failed, RequeueAfter
<1>2. QED
  BY <1>1
  DEF Next, Controller, Informers, Environment, Reconcile, AddFinalizer, reconcileStatus,
      deleteIfNeeded, RemoveFinalizer, APIError, Restart, TimerFires, SyncNodeClass, SyncEC2,
      SyncSecrets, SyncHCP, UserStep, IgnitionStep, HyperShiftStep, KarpenterStatus,
      KarpenterFinalize, Done, Failed, RequeueAfter

(* A deletion goes on with the NodeClass it has, or starts with the        *)
(* cached one.                                                             *)
LEMMA DeletionStep ==
    ASSUME [Next]_vars, pc' \in {"delete", "removeFinalizer"}
    PROVE  \/ pc \in {"delete", "removeFinalizer"} /\ n' = n
           \/ ncCache.phase = "deleting" /\ n' = ncCache /\ ncCache' = ncCache
<1>1. CASE Reconcile
  BY <1>1, NextStepCases DEF Reconcile
<1>2. CASE reconcileEC2NodeClass
  BY <1>2 DEF reconcileEC2NodeClass, ApplyEC2, Failed, RequeueAfter
<1>3. QED
  BY <1>1, <1>2
  DEF Next, Controller, Informers, Environment, AddFinalizer, reconcileStatus,
      deleteIfNeeded, RemoveFinalizer, APIError, Restart, TimerFires, SyncNodeClass, SyncEC2,
      SyncSecrets, SyncHCP, UserStep, IgnitionStep, HyperShiftStep, KarpenterStatus,
      KarpenterFinalize, Done, Failed, RequeueAfter

(* The reconcile of a live NodeClass comes from the cached finalizer or    *)
(* from adding it.                                                         *)
LEMMA ApplyStep ==
    ASSUME TypeOK, [Next]_vars, pc' \in {"apply", "status"}
    PROVE  \/ pc \in {"apply", "status"}
           \/ /\ ncCache.phase \notin {"absent", "deleting"}
              /\ finalizer \in ncCache.finalizers /\ nc' = nc
           \/ finalizer \in nc'.finalizers
<1>1. CASE Reconcile
  BY <1>1, NextStepCases DEF Reconcile
<1>2. CASE AddFinalizer
  <2>1. /\ LockHolds /\ nc.phase \in Phases \ {"absent"}
        /\ nc' = Written(nc.phase, n.finalizers \union {finalizer}, nc.resolved, nc.ready)
    BY <1>2, FieldTypes DEF AddFinalizer, LockHolds, Failed
  <2>2. n.finalizers \union {finalizer} \in SUBSET {finalizer}
        /\ finalizer \in n.finalizers \union {finalizer}
    BY FieldTypes
  <2>3. nc.resolved \in ConditionStatus /\ nc.ready \in ConditionStatus
    BY FieldTypes
  <2>4. finalizer \in Written(nc.phase, n.finalizers \union {finalizer},
                             nc.resolved, nc.ready).finalizers
    BY <2>1, <2>2, <2>3, WriteLemma
  <2>5. QED
    BY <2>1, <2>4
<1>3. CASE reconcileEC2NodeClass
  BY <1>3 DEF reconcileEC2NodeClass
<1>4. QED
  BY <1>1, <1>2, <1>3
  DEF Next, Controller, Informers, Environment, reconcileStatus, deleteIfNeeded,
      RemoveFinalizer, APIError, Restart, TimerFires, SyncNodeClass, SyncEC2, SyncSecrets,
      SyncHCP, UserStep, IgnitionStep, HyperShiftStep, KarpenterStatus, KarpenterFinalize,
      Done, Failed, RequeueAfter

(* Only reconcileEC2NodeClass creates an EC2NodeClass.                     *)
LEMMA EC2Step ==
    ASSUME [Next]_vars, ec2.phase = "absent", ec2'.phase # "absent"
    PROVE  pc = "apply"
<1>1. CASE deleteIfNeeded
  BY <1>1 DEF deleteIfNeeded
<1>2. QED
  BY <1>1
  DEF Next, Controller, Informers, Environment, Reconcile, AddFinalizer,
      reconcileEC2NodeClass, reconcileStatus, RemoveFinalizer, APIError, Restart, TimerFires,
      SyncNodeClass, SyncEC2, SyncSecrets, SyncHCP, UserStep, IgnitionStep, HyperShiftStep,
      KarpenterStatus, KarpenterFinalize

-----------------------------------------------------------------------------
(* IInv holds initially.                                                   *)
LEMMA InvInit == Init => IInv
<1> SUFFICES ASSUME Init PROVE IInv
  OBVIOUS
<1>1. TypeOK
  BY TypeInit
<1>2. ncCache = nc /\ pc = "idle"
  BY DEF Init
<1>3. nc = NoNodeClass(0) \/ nc.phase = "present"
  BY InitialObjects
<1>4. QED
  BY <1>1, <1>2, <1>3, FieldTypes
  DEF IInv, CacheBehind, WorkBehind, DeletionBehind, CachedFinalizer, AbsentIsBare,
      AppliesGuarded, Outdated, NoNodeClass

(* IInv is inductive.                                                      *)
LEMMA InvInductive == IInv /\ [Next]_vars => IInv'
<1> SUFFICES ASSUME IInv, [Next]_vars PROVE IInv'
  OBVIOUS
<1> USE DEF IInv
<1>1. TypeOK'
  BY TypeInductive
<1>2. nc.rv \in Nat /\ ncCache.rv \in Nat /\ n.rv \in Nat /\ ncCache.phase \in Phases
  BY FieldTypes
<1>3. nc'.rv \in Nat /\ ncCache'.rv \in Nat /\ n'.rv \in Nat
  BY <1>1, FieldTypes DEF TypeOK, NodeClasses
<1>4. AbsentIsBare'
  BY NodeClassStep DEF AbsentIsBare
<1>5. CacheBehind'
  BY <1>2, <1>3, NodeClassStep, CacheStep DEF CacheBehind, Outdated
<1>6. WorkBehind'
  <2> SUFFICES ASSUME pc' # "idle" PROVE Outdated(n', nc')
    BY DEF WorkBehind
  <2>1. CASE pc # "idle" /\ n' = n
    BY <1>2, <2>1, NodeClassStep DEF WorkBehind, Outdated
  <2>2. CASE n' = ncCache /\ nc' = nc
    BY <2>2 DEF CacheBehind
  <2>3. CASE n' = nc'
    BY <1>3, <2>3 DEF Outdated
  <2>4. QED
    BY <2>1, <2>2, <2>3, WorkStep
<1>7. DeletionBehind'
  <2> SUFFICES ASSUME pc' \in {"delete", "removeFinalizer"}
               PROVE  n'.phase = "deleting" /\ Outdated(n', ncCache')
    BY DEF DeletionBehind
  <2>1. CASE ncCache.phase = "deleting" /\ n' = ncCache /\ ncCache' = ncCache
    BY <1>2, <2>1 DEF Outdated
  <2>2. CASE pc \in {"delete", "removeFinalizer"} /\ n' = n
    BY <1>2, <2>2, CacheStep DEF DeletionBehind, CacheBehind, Outdated
  <2>3. QED
    BY <2>1, <2>2, DeletionStep
<1>8. CachedFinalizer'
  <2> SUFFICES ASSUME ncCache'.phase = "present", finalizer \in ncCache'.finalizers
               PROVE  finalizer \in nc'.finalizers
    BY DEF CachedFinalizer
  <2>1. CASE ncCache' = ncCache
    <3>1. finalizer \in nc.finalizers
      BY <2>1 DEF CachedFinalizer
    <3>2. ~(RemoveFinalizer /\ LockHolds)
      <4> SUFFICES ASSUME RemoveFinalizer, LockHolds PROVE FALSE
        OBVIOUS
      <4>1. n.phase = "deleting" /\ Outdated(n, ncCache)
        BY DEF RemoveFinalizer, DeletionBehind
      <4>2. Outdated(ncCache, nc) /\ nc.rv = n.rv
        BY DEF CacheBehind, LockHolds
      <4>3. QED
        BY <1>2, <2>1, <4>1, <4>2 DEF Outdated
    <3>3. QED
      BY <3>1, <3>2, NodeClassStep
  <2>2. CASE ncCache' = nc /\ nc' = nc
    BY <2>2
  <2>3. QED
    BY <2>1, <2>2, CacheStep
<1>9. AppliesGuarded'
  <2> SUFFICES ASSUME pc' \in {"apply", "status"}
               PROVE  finalizer \in nc'.finalizers
    BY DEF AppliesGuarded
  <2>1. CASE pc \in {"apply", "status"}
    BY <2>1, NodeClassStep DEF AppliesGuarded
  <2>2. CASE /\ ncCache.phase \notin {"absent", "deleting"}
             /\ finalizer \in ncCache.finalizers /\ nc' = nc
    BY <1>2, <2>2 DEF CachedFinalizer, Phases
  <2>3. QED
    BY <2>1, <2>2, ApplyStep
<1>10. QED
  BY <1>1, <1>4, <1>5, <1>6, <1>7, <1>8, <1>9

(* The inductive invariant holds throughout.                               *)
THEOREM Invariance == Spec => []IInv
BY InvInit, InvInductive, PTL DEF Spec

(* Whatever the caches lag and whichever calls fail, reconcileEC2NodeClass *)
(* creates the EC2NodeClass under the finalizer.                           *)
THEOREM FinalizerBeforeCreateCorrect == Spec => FinalizerBeforeCreate
<1>1. IInv /\ [Next]_vars =>
        [(ec2.phase = "absent" /\ ec2'.phase = "present") => finalizer \in nc.finalizers]_vars
  BY EC2Step DEF IInv, AppliesGuarded
<1>2. QED
  BY <1>1, Invariance, PTL DEF Spec, FinalizerBeforeCreate

(* If the lock of a patch holds, the reconcile has read the current        *)
(* NodeClass: the resource version stands for the contents.                *)
LEMMA LockMeansCurrent ==
    ASSUME IInv, pc # "idle", LockHolds
    PROVE  n = nc
BY DEF IInv, WorkBehind, Outdated, LockHolds

(* reconcileStatus leaves VersionResolved as the ignition controller has   *)
(* written it, although it sends all conditions.                           *)
THEOREM IgnitionConditionsPreservedCorrect == Spec => IgnitionConditionsPreserved
<1>1. IInv /\ [Next]_vars =>
        [(pc' # pc /\ nc'.phase # "absent") => nc'.resolved = nc.resolved]_vars
  <2> SUFFICES ASSUME IInv, Next, pc' # pc, nc'.phase # "absent"
               PROVE  nc'.resolved = nc.resolved
    OBVIOUS
  <2>0. TypeOK /\ (nc.phase # "absent" => nc.phase \in Phases \ {"absent"})
    BY FieldTypes DEF IInv
  <2>1. CASE AddFinalizer
    BY <2>0, <2>1, FieldTypes, WriteLemma DEF AddFinalizer, LockHolds
  <2>2. CASE reconcileStatus
    <3>1. CASE nc' = nc
      BY <3>1
    <3>2. CASE /\ LockHolds
               /\ SyncConditions(n.resolved, n.ready, ready) \in ConditionStatus
               /\ nc' = Written(nc.phase, nc.finalizers, n.resolved,
                                SyncConditions(n.resolved, n.ready, ready))
      <4>1. n = nc
        BY <2>2, <3>2, LockMeansCurrent DEF reconcileStatus
      <4>2. QED
        BY <2>0, <3>2, <4>1, FieldTypes, WriteLemma DEF LockHolds
    <3>3. QED
      BY <2>0, <2>2, <3>1, <3>2, StatusStep
  <2>3. CASE RemoveFinalizer
    BY <2>0, <2>3, FieldTypes, WriteLemma DEF RemoveFinalizer, LockHolds
  <2>4. QED
    BY <2>1, <2>2, <2>3
    DEF Next, Controller, Informers, Environment, Reconcile, reconcileEC2NodeClass,
        deleteIfNeeded, APIError, Restart, TimerFires, SyncNodeClass, SyncEC2, SyncSecrets,
        SyncHCP, UserStep, IgnitionStep, HyperShiftStep, KarpenterStatus, KarpenterFinalize
<1>2. QED
  BY <1>1, Invariance, PTL DEF Spec, IgnitionConditionsPreserved

(* Ready turns True only while the NodeClass on the server has a resolved  *)
(* version: the status that reconcileStatus computes from its copy is      *)
(* refused once the ignition controller has written another one.           *)
THEOREM ReadyOnlyResolvedCorrect == Spec => ReadyOnlyResolved
<1>1. IInv /\ [Next]_vars =>
        [(nc'.ready = "True" /\ nc.ready # "True") => nc.resolved = "True"]_vars
  <2> SUFFICES ASSUME IInv, Next, nc'.ready = "True", nc.ready # "True"
               PROVE  nc.resolved = "True"
    OBVIOUS
  <2>0. TypeOK /\ (nc.phase # "absent" => nc.phase \in Phases \ {"absent"})
    BY FieldTypes DEF IInv
  <2>1. CASE AddFinalizer
    BY <2>0, <2>1, FieldTypes, WriteLemma DEF AddFinalizer, LockHolds
  <2>2. CASE reconcileStatus
    <3>1. CASE nc' = nc
      BY <3>1
    <3>2. CASE /\ LockHolds
               /\ SyncConditions(n.resolved, n.ready, ready) \in ConditionStatus
               /\ nc' = Written(nc.phase, nc.finalizers, n.resolved,
                                SyncConditions(n.resolved, n.ready, ready))
      <4>1. n = nc
        BY <2>2, <3>2, LockMeansCurrent DEF reconcileStatus
      <4>2. SyncConditions(n.resolved, n.ready, ready) = "True"
        BY <2>0, <3>2, FieldTypes, WriteLemma DEF LockHolds
      <4>3. QED
        BY <2>0, <4>1, <4>2, FieldTypes, SyncLemma DEF TypeOK
    <3>3. QED
      BY <2>0, <2>2, <3>1, <3>2, StatusStep
  <2>3. CASE RemoveFinalizer
    BY <2>0, <2>3, FieldTypes, WriteLemma DEF RemoveFinalizer, LockHolds
  <2>4. CASE UserStep
    <3>1. CASE nc'.ready = "unset"
      BY <3>1
    <3>2. CASE nc' = Written("deleting", nc.finalizers, nc.resolved, nc.ready)
      BY <2>0, <3>2, DeletedLemma
    <3>3. QED
      BY <2>4, <3>1, <3>2 DEF UserStep
  <2>5. CASE IgnitionStep
    <3>1. CASE \E s \in {"False", "True"} :
                 nc.phase # "absent" /\ nc' = Written(nc.phase, nc.finalizers, s, nc.ready)
      BY <2>0, <3>1, FieldTypes, WriteLemma DEF ConditionStatus
    <3>2. QED
      BY <2>5, <3>1 DEF IgnitionStep
  <2>6. QED
    BY <2>1, <2>2, <2>3, <2>4, <2>5
    DEF Next, Controller, Informers, Environment, Reconcile, reconcileEC2NodeClass,
        deleteIfNeeded, APIError, Restart, TimerFires, SyncNodeClass, SyncEC2, SyncSecrets,
        SyncHCP, HyperShiftStep, KarpenterStatus, KarpenterFinalize
<1>2. QED
  BY <1>1, Invariance, PTL DEF Spec, ReadyOnlyResolved

-----------------------------------------------------------------------------
(***************************************************************************)
(* The state at rest.                                                      *)
(***************************************************************************)

(* A write of the NodeClass keeps the phase it asks for, or lets a         *)
(* terminating NodeClass without finalizers go.                            *)
LEMMA TerminatingStep ==
    ASSUME TypeOK, DeletingHeld, [Next]_vars
    PROVE  DeletingHeld'
<1>0. /\ nc.finalizers \subseteq {finalizer} /\ n.finalizers \subseteq {finalizer}
      /\ nc.phase = "deleting" => finalizer \in nc.finalizers
  BY FieldTypes DEF DeletingHeld
<1>1. ASSUME NEW ph, NEW fs, NEW a, NEW b, fs \subseteq {finalizer}, nc' = Written(ph, fs, a, b)
      PROVE  DeletingHeld'
  BY <1>1 DEF Written, NoNodeClass, DeletingHeld
<1>2. CASE AddFinalizer /\ nc' # nc
  <2>1. n.finalizers \union {finalizer} \subseteq {finalizer}
    BY <1>0
  <2>2. QED
    BY <1>1, <1>2, <2>1 DEF AddFinalizer
<1>3. CASE nc' = nc
  BY <1>0, <1>3 DEF DeletingHeld
<1>4. CASE reconcileStatus /\ nc' # nc
  BY <1>0, <1>1, <1>4 DEF reconcileStatus
<1>5. CASE RemoveFinalizer /\ nc' # nc
  <2>1. n.finalizers \ {finalizer} \subseteq {finalizer}
    BY <1>0
  <2>2. QED
    BY <1>1, <1>5, <2>1 DEF RemoveFinalizer
<1>6. CASE UserStep
  <2>1. CASE nc'.phase = "present"
    BY <2>1 DEF DeletingHeld
  <2>2. CASE nc' = Written("deleting", nc.finalizers, nc.resolved, nc.ready)
    BY <1>0, <1>1, <2>2
  <2>3. QED
    BY <1>6, <2>1, <2>2 DEF UserStep
<1>7. CASE IgnitionStep /\ nc' # nc
  BY <1>0, <1>1, <1>7 DEF IgnitionStep
<1>8. QED
  BY <1>2, <1>3, <1>4, <1>5, <1>6, <1>7
  DEF Next, Controller, Informers, Environment, Reconcile, reconcileEC2NodeClass,
      deleteIfNeeded, APIError, Restart, TimerFires, SyncNodeClass, SyncEC2,
      SyncSecrets, SyncHCP, HyperShiftStep, KarpenterStatus, KarpenterFinalize

(* Every write of the EC2NodeClass gets the next resource version, and its *)
(* cache follows.                                                          *)
LEMMA EC2WriteStep ==
    ASSUME TypeOK, [Next]_vars
    PROVE  /\ ec2' = ec2 \/ ec2'.rv = ec2.rv + 1
           /\ ec2Cache' = ec2Cache \/ (ec2Cache' = ec2 /\ ec2' = ec2)
<1>1. CASE reconcileEC2NodeClass
  BY <1>1 DEF reconcileEC2NodeClass, ApplyEC2
<1>2. CASE deleteIfNeeded
  BY <1>2 DEF deleteIfNeeded, NoEC2
<1>3. CASE KarpenterStatus \/ KarpenterFinalize
  BY <1>3 DEF KarpenterStatus, KarpenterFinalize, NoEC2
<1>4. QED
  BY <1>1, <1>2, <1>3
  DEF Next, Controller, Informers, Environment, Reconcile, AddFinalizer,
      reconcileStatus, RemoveFinalizer, APIError, Restart, TimerFires, SyncNodeClass, SyncEC2,
      SyncSecrets, SyncHCP, UserStep, IgnitionStep, HyperShiftStep

(* A reconcile that is not a deletion keeps its NodeClass, starts with the *)
(* cached one, or goes on with the one it has just written.                *)
LEMMA LiveStep ==
    ASSUME [Next]_vars, pc' \in {"addFinalizer", "apply", "status"}
    PROVE  \/ pc \in {"addFinalizer", "apply", "status"} /\ n' = n
           \/ ncCache.phase \notin {"absent", "deleting"} /\ n' = ncCache
           \/ AddFinalizer /\ LockHolds /\ n' = nc'
<1>1. CASE Reconcile
  BY <1>1, NextStepCases DEF Reconcile
<1>2. CASE AddFinalizer
  BY <1>2 DEF AddFinalizer, Failed
<1>3. CASE reconcileEC2NodeClass
  BY <1>3 DEF reconcileEC2NodeClass, ApplyEC2, RequeueAfter, Failed
<1>4. QED
  BY <1>1, <1>2, <1>3
  DEF Next, Controller, Informers, Environment, reconcileStatus,
      deleteIfNeeded, RemoveFinalizer, APIError, Restart, TimerFires, SyncNodeClass, SyncEC2,
      SyncSecrets, SyncHCP, UserStep, IgnitionStep, HyperShiftStep, KarpenterStatus,
      KarpenterFinalize, Done, Failed, RequeueAfter

(* The ignition controller creates and deletes Secrets one by one.         *)
LEMMA FewSecretsStep == FewSecrets /\ [Next]_vars => FewSecrets'
<1> SUFFICES ASSUME FewSecrets, [Next]_vars PROVE FewSecrets'
  OBVIOUS
<1>1. \/ secrets' = secrets
      \/ \E r \in Releases : secrets' = secrets \union {r}
      \/ \E r \in secrets : secrets' = secrets \ {r}
  BY DEF Next, Controller, Informers, Environment, Reconcile, AddFinalizer,
      reconcileEC2NodeClass, reconcileStatus, deleteIfNeeded, RemoveFinalizer, APIError,
      Restart, TimerFires, SyncNodeClass, SyncEC2, SyncSecrets, SyncHCP, UserStep, IgnitionStep,
      HyperShiftStep, KarpenterStatus, KarpenterFinalize
<1>2. secretsCache' \in {secretsCache, secrets}
  BY DEF Next, Controller, Informers, Environment, Reconcile, AddFinalizer,
      reconcileEC2NodeClass, reconcileStatus, deleteIfNeeded, RemoveFinalizer, APIError,
      Restart, TimerFires, SyncNodeClass, SyncEC2, SyncSecrets, SyncHCP, UserStep, IgnitionStep,
      HyperShiftStep, KarpenterStatus, KarpenterFinalize
<1>3. IsFiniteSet(secrets')
  BY <1>1, FS_AddElement, FS_RemoveElement DEF FewSecrets
<1>4. QED
  BY <1>2, <1>3 DEF FewSecrets

(* A Secret that is found is the only one.                                 *)
LEMMA FoundIsOnly ==
    ASSUME NEW sec, IsFiniteSet(sec), GetUserDataSecret(sec) = "found"
    PROVE  \A r, s \in sec : r = s
<1>1. Cardinality(sec) \in Nat /\ (Cardinality(sec) = 0 <=> sec = {})
  BY FS_CardinalityType, FS_EmptySet
<1>2. Cardinality(sec) = 1
  BY <1>1 DEF GetUserDataSecret
<1>3. \E x : sec = {x}
  BY <1>2, FS_Singleton
<1>4. QED
  BY <1>3

(* A step after which the caches hold the NodeClass and the EC2NodeClass,  *)
(* with nothing queued, has written neither and found the caches so.       *)
LEMMA CurrentStep ==
    ASSUME RestInv, [Next]_vars, ~queued', ncCache' = nc', ec2Cache' = ec2'
    PROVE  /\ nc' = nc /\ ec2' = ec2
           /\ Restart \/ (ncCache = nc /\ ec2Cache = ec2)
           /\ Reconcile \/ Restart \/ ~queued
<1>1. /\ nc.rv \in Nat /\ ncCache.rv \in Nat /\ ec2.rv \in Nat /\ ec2Cache.rv \in Nat
      /\ TypeOK /\ AbsentIsBare
      /\ ncCache.rv <= nc.rv /\ ec2Cache.rv <= ec2.rv
  BY DEF RestInv, IInv, TypeOK, NodeClasses, EC2NodeClasses, CacheBehind, Outdated, EC2Behind
<1>2. nc' = nc
  BY <1>1, NodeClassStep, CacheStep
<1>3. ec2' = ec2
  BY <1>1, EC2WriteStep
<1>4. Restart \/ (ncCache' = ncCache /\ ec2Cache' = ec2Cache)
  BY DEF Next, Controller, Informers, Environment, Reconcile, AddFinalizer,
      reconcileEC2NodeClass, reconcileStatus, deleteIfNeeded, RemoveFinalizer, APIError,
      TimerFires, SyncNodeClass, SyncEC2, SyncSecrets, SyncHCP, UserStep, IgnitionStep,
      HyperShiftStep, KarpenterStatus, KarpenterFinalize
<1>5. Reconcile \/ Restart \/ ~queued
  <2>1. CASE reconcileEC2NodeClass
    BY <2>1 DEF reconcileEC2NodeClass, ApplyEC2, RequeueAfter, Failed
  <2>2. CASE SyncSecrets \/ SyncHCP
    BY <2>2, Zenon DEF SyncSecrets, SyncHCP
  <2>3. QED
    BY <2>1, <2>2
    DEF Next, Controller, Informers, Environment, AddFinalizer,
      reconcileStatus, deleteIfNeeded, RemoveFinalizer, APIError, TimerFires, SyncNodeClass,
      SyncEC2, UserStep, IgnitionStep, HyperShiftStep, KarpenterStatus, KarpenterFinalize,
      Done, Failed, RequeueAfter
<1>6. QED
  BY <1>2, <1>3, <1>4, <1>5

(* What Reconcile leaves undone: nothing it could do, or it sets the timer.*)
LEMMA NothingToDo ==
    ASSUME RestInv, NextStep = "idle", ncCache = nc
    PROVE  ~hcpCache.exists \/ nc.phase = "absent"
BY Zenon DEF RestInv, NotOverridden, DeletingHeld, NextStep, PresentStep, DeletingStep

(* Every step of the controller either queues it, sets its timer, writes   *)
(* something whose event is to come, or leaves UpToDate.                   *)
LEMMA UpToDateStep == RestInv /\ [Next]_vars => UpToDate'
<1> SUFFICES ASSUME RestInv, [Next]_vars, ~queued', ncCache' = nc', ec2Cache' = ec2'
             PROVE  UpToDate'
  BY DEF UpToDate
<1>1. nc' = nc /\ ec2' = ec2
  BY CurrentStep
<1>2. ASSUME ~queued, ncCache = nc, ec2Cache = ec2,
             UNCHANGED <<timer, pc, n, v, ready, hcpCache, secretsCache>>
      PROVE  UpToDate'
  BY <1>1, <1>2 DEF RestInv, UpToDate, Reconciled, Follows
<1>3. CASE Restart
  <2>1. nc.phase = "absent"
    BY <1>3, Zenon DEF Restart
  <2>2. QED
    BY <1>1, <1>3, <2>1 DEF Restart, UpToDate
<1>4. CASE Reconcile
  <2>1. ncCache = nc /\ UNCHANGED hcpCache
    BY <1>4, CurrentStep DEF Reconcile, Restart
  <2>2. CASE NextStep = "idle"
    BY <1>1, <1>4, <2>1, <2>2, NothingToDo DEF Reconcile, UpToDate, PCs
  <2>3. CASE NextStep = "wait"
    BY <1>1, <1>4, <2>1, <2>3 DEF Reconcile, UpToDate, PCs
  <2>4. CASE NextStep \notin {"idle", "wait"}
    BY <1>1, <1>4, <2>1, <2>4, NextStepCases DEF Reconcile, UpToDate
  <2>5. QED
    BY <2>2, <2>3, <2>4
<1> SUFFICES ASSUME ~Restart, ~Reconcile PROVE UpToDate'
  BY <1>3, <1>4
<1>5. ~queued /\ ncCache = nc /\ ec2Cache = ec2
  BY CurrentStep
<1>6. /\ pc # "idle" => n = nc /\ v = hcpCache.version
      /\ pc \in {"addFinalizer", "apply", "status"} => nc.phase = "present"
      /\ pc \in {"delete", "removeFinalizer"} => nc.phase = "deleting"
      /\ pc \in PCs
  BY <1>5 DEF RestInv, UpToDate, LiveWork, IInv, DeletionBehind, TypeOK
<1>7. CASE AddFinalizer \/ RemoveFinalizer
  <2>1. ASSUME NEW ph, NEW fs, NEW a, NEW b, nc' = Written(ph, fs, a, b)
        PROVE  FALSE
    BY <1>1, <2>1 DEF Written, NoNodeClass, RestInv, IInv, TypeOK, NodeClasses
  <2>2. QED
    BY <1>7, <2>1 DEF AddFinalizer, RemoveFinalizer, Failed
<1>8. CASE reconcileEC2NodeClass
  <2>1. UNCHANGED <<hcpCache, secretsCache>> /\ pc = "apply"
    BY <1>8 DEF reconcileEC2NodeClass
  <2>2. CASE GetUserDataSecret(secretsCache) = "notFound"
    BY <1>8, <2>2 DEF reconcileEC2NodeClass, RequeueAfter, UpToDate
  <2>3. CASE GetUserDataSecret(secretsCache) = "found"
    <3>1. PICK release \in secretsCache : ApplyEC2(release)
      BY <1>8, <2>3 DEF reconcileEC2NodeClass
    <3>2. \A r, s \in secretsCache : r = s
      BY <2>3, FoundIsOnly DEF RestInv, FewSecrets
    <3>3. ec2.rv \in Nat /\ ec2.phase \in Phases
      BY DEF RestInv, IInv, TypeOK, EC2NodeClasses
    <3>4. /\ ec2.phase # "absent" /\ ready' = ec2.ready /\ pc' = "status" /\ UNCHANGED <<n, v>>
          /\ ReconciledRelease(v, n.version, ec2.release, release) = ec2.release
      BY <1>1, <3>1, <3>3 DEF ApplyEC2, Failed
    <3>5. WaitsForControlPlaneUpgrade(v, n.version) \/ ec2.release = release
      BY <3>4 DEF ReconciledRelease
    <3>6. \A r \in secretsCache : WaitsForControlPlaneUpgrade(v, nc.version) \/ ec2.release = r
      BY <1>6, <2>1, <3>2, <3>5
    <3>7. (\A r \in secretsCache : WaitsForControlPlaneUpgrade(v, nc.version) \/ ec2.release = r)'
      BY <1>1, <2>1, <3>4, <3>6 DEF WaitsForControlPlaneUpgrade, isControlPlaneUpgrading
    <3>8. QED
      BY <1>1, <1>6, <2>1, <3>2, <3>4, <3>7 DEF UpToDate
  <2>4. QED
    BY <1>8, <2>2, <2>3 DEF reconcileEC2NodeClass, Failed
<1>9. CASE reconcileStatus
  <2>1. UNCHANGED <<hcpCache, secretsCache>> /\ pc = "status" /\ pc' = "idle"
    BY <1>9 DEF reconcileStatus, Done, Failed
  <2>2. SyncConditions(n.resolved, n.ready, ready) = n.ready
    <3>1. ASSUME NEW ph, NEW fs, NEW a, NEW b, nc' = Written(ph, fs, a, b)
          PROVE  FALSE
      BY <1>1, <3>1 DEF Written, NoNodeClass, RestInv, IInv, TypeOK, NodeClasses
    <3>2. QED
      BY <1>9, <3>1 DEF reconcileStatus, Failed
  <2>3. /\ ready = ec2.ready /\ ec2.phase # "absent"
        /\ \A r, s \in secretsCache : r = s
        /\ \A r \in secretsCache :
              WaitsForControlPlaneUpgrade(v, nc.version) \/ ec2.release = r
    BY <1>5, <2>1 DEF RestInv, UpToDate
  <2>4. Reconciled
    BY <1>6, <2>1, <2>2, <2>3 DEF Reconciled, Follows
  <2>5. Reconciled'
    BY <1>1, <2>1, <2>4 DEF Reconciled, Follows
  <2>6. QED
    BY <1>1, <1>6, <2>1, <2>5 DEF UpToDate
<1>10. CASE deleteIfNeeded
  <2>1. nc.phase = "deleting" /\ n = nc /\ UNCHANGED hcpCache
    BY <1>6, <1>10 DEF deleteIfNeeded
  <2>2. finalizer \in n.finalizers
    BY <2>1 DEF RestInv, DeletingHeld
  <2>3. CASE RequeueAfter
    BY <2>3 DEF RequeueAfter, UpToDate
  <2>4. CASE pc' = "removeFinalizer" /\ UNCHANGED workVars
    BY <1>1, <1>6, <1>10, <2>1, <2>4 DEF deleteIfNeeded, UpToDate
  <2>5. QED
    BY <1>10, <2>2, <2>3, <2>4 DEF deleteIfNeeded
<1>11. CASE SyncSecrets
  <2>1. secretsCache' \subseteq secretsCache
    BY <1>11, Zenon DEF SyncSecrets
  <2>2. UNCHANGED <<hcpCache, timer, pc, n, v, ready>>
    BY <1>11 DEF SyncSecrets
  <2>3. QED
    BY <1>1, <1>5, <2>1, <2>2 DEF RestInv, UpToDate, Reconciled, Follows
<1>12. CASE SyncHCP
  <2>1. UNCHANGED <<secretsCache, timer, pc, n, v, ready>> /\ hcpCache' = hcp
    BY <1>12 DEF SyncHCP
  <2>2. ncCache.phase = "absent" \/ ~hcpPredicate(hcpCache, hcp)
    BY <1>12, Zenon DEF SyncHCP
  <2>3. CASE nc.phase = "absent"
    BY <1>1, <1>6, <2>1, <2>3 DEF UpToDate, PCs
  <2>4. CASE ~hcp.exists
    <3>1. pc = "idle"
      BY <2>4 DEF RestInv, HCPStays, NotOverridden
    <3>2. QED
      BY <2>1, <2>4, <3>1 DEF UpToDate
  <2>5. CASE hcpCache.exists /\ hcpCache.version = hcp.version
    BY <1>1, <1>5, <2>1, <2>5 DEF RestInv, UpToDate, Reconciled, Follows
  <2>6. QED
    BY <1>5, <2>2, <2>3, <2>4, <2>5 DEF hcpPredicate
<1>13. CASE UNCHANGED <<timer, pc, n, v, ready, hcpCache, secretsCache>>
  BY <1>2, <1>5, <1>13
<1>14. QED
  BY <1>7, <1>8, <1>9, <1>10, <1>11, <1>12, <1>13
  DEF Next, Controller, Informers, Environment, APIError, Failed, TimerFires, SyncNodeClass,
      SyncEC2, UserStep, IgnitionStep, HyperShiftStep, KarpenterStatus, KarpenterFinalize

(* RestInv is inductive while the override is not used.                    *)
LEMMA RestInductive == RestInv /\ ~hcp.override /\ [Next]_vars => RestInv'
<1> SUFFICES ASSUME RestInv, ~hcp.override, [Next]_vars PROVE RestInv'
  OBVIOUS
<1>0. /\ ec2.rv \in Nat /\ ec2Cache.rv \in Nat /\ ncCache.phase \in Phases /\ TypeOK /\ IInv
  BY DEF RestInv, IInv, TypeOK, NodeClasses, EC2NodeClasses
<1>1. IInv'
  BY <1>0, InvInductive
<1>2. DeletingHeld'
  BY <1>0, TerminatingStep DEF RestInv
<1>3. LiveWork'
  <2> SUFFICES ASSUME pc' \in {"addFinalizer", "apply", "status"}
               PROVE  n'.phase = "present"
    BY DEF LiveWork
  <2>1. CASE AddFinalizer /\ LockHolds /\ n' = nc'
    <3>1. n = nc /\ n.phase = "present"
      BY <1>0, <2>1, LockMeansCurrent DEF AddFinalizer, RestInv, LiveWork
    <3>2. QED
      BY <2>1, <3>1 DEF AddFinalizer, Written
  <2>2. QED
    BY <1>0, <2>1, LiveStep DEF RestInv, LiveWork, Phases
<1>4. HCPStays'
  BY DEF RestInv, HCPStays, Next, Controller, Informers, Environment, Reconcile, AddFinalizer,
      reconcileEC2NodeClass, reconcileStatus, deleteIfNeeded, RemoveFinalizer, APIError,
      Restart, TimerFires, SyncNodeClass, SyncEC2, SyncSecrets, SyncHCP, UserStep, IgnitionStep,
      HyperShiftStep, KarpenterStatus, KarpenterFinalize
<1>5. FewSecrets'
  BY FewSecretsStep DEF RestInv
<1>6. EC2Behind'
  BY <1>0, EC2WriteStep DEF RestInv, EC2Behind
<1>7. NotOverridden'
  <2>1. CASE hcpCache' = hcpCache
    <3>1. pc' # "idle" => pc # "idle" \/ hcpCache.exists
      BY NextStepCases DEF Next, Controller, Informers, Environment, Reconcile, NextStep, PCs,
         AddFinalizer, reconcileEC2NodeClass, reconcileStatus, deleteIfNeeded, RemoveFinalizer,
         APIError, Restart, TimerFires, SyncNodeClass, SyncEC2, SyncSecrets, SyncHCP, UserStep,
         IgnitionStep, HyperShiftStep, KarpenterStatus, KarpenterFinalize
    <3>2. QED
      BY <2>1, <3>1 DEF RestInv, NotOverridden
  <2>2. CASE SyncHCP \/ Restart
    BY <2>2 DEF SyncHCP, Restart, RestInv, NotOverridden, HCPStays
  <2>3. QED
    BY <2>1, <2>2
    DEF Next, Controller, Informers, Environment, Reconcile, AddFinalizer,
      reconcileEC2NodeClass, reconcileStatus, deleteIfNeeded, RemoveFinalizer, APIError,
      TimerFires, SyncNodeClass, SyncEC2, SyncSecrets, UserStep, IgnitionStep,
      HyperShiftStep, KarpenterStatus, KarpenterFinalize
<1>8. UpToDate'
  BY UpToDateStep
<1>9. QED
  BY <1>1, <1>2, <1>3, <1>4, <1>5, <1>6, <1>7, <1>8 DEF RestInv

(* The operator starts with a NodeClass queued, or without one.            *)
LEMMA RestInit == Init => RestInv
<1> SUFFICES ASSUME Init PROVE RestInv
  OBVIOUS
<1>1. IInv
  BY InvInit
<1>2. nc.phase # "absent" => queued
  BY Zenon DEF Init
<1>3. FewSecrets
  <2>1. secrets = {} \/ \E r : secrets = {r}
    BY Zenon DEF Init
  <2>2. IsFiniteSet(secrets)
    BY <2>1, FS_EmptySet, FS_Singleton, Zenon
  <2>3. QED
    BY <2>2 DEF Init, FewSecrets
<1>4. nc.phase \in {"absent", "present"} /\ ec2.rv \in Nat
  BY <1>1, InitialObjects DEF NoNodeClass, IInv, TypeOK, EC2NodeClasses
<1>5. pc = "idle" /\ hcpCache = hcp /\ ncCache = nc /\ ec2Cache = ec2
  BY DEF Init
<1>6. ~hcp.override
  <2>1. \/ hcp = [exists |-> FALSE, override |-> FALSE, version |-> NoVersion]
        \/ hcp \in [exists: {TRUE}, override: {FALSE},
                    version: [desired: Releases, completed: Releases \union {NoRelease}]]
    BY Zenon DEF Init
  <2>2. CASE hcp = [exists |-> FALSE, override |-> FALSE, version |-> NoVersion]
    BY <2>2
  <2>3. CASE hcp \in [exists: {TRUE}, override: {FALSE},
                      version: [desired: Releases, completed: Releases \union {NoRelease}]]
    BY <2>3, Zenon
  <2>4. QED
    BY <2>1, <2>2, <2>3
<1>7. QED
  BY <1>1, <1>2, <1>3, <1>4, <1>5, <1>6 DEF RestInv, DeletingHeld, LiveWork, HCPStays,
     EC2Behind, NotOverridden, UpToDate

(* As long as the test override is not used, whose removal wakes nobody,   *)
(* the controller comes to rest only when the NodeClass is reconciled:     *)
(* every wait ends by an event, a retry or the timer.                      *)
THEOREM RestsFollowedWithoutOverrideCorrect == Spec => RestsFollowedWithoutOverride
<1>1. RestInv => RestsOnlyFollowed
  BY DEF RestInv, UpToDate, Reconciled, RestsOnlyFollowed
<1>2. QED
  BY <1>1, RestInit, RestInductive, PTL DEF Spec, RestsFollowedWithoutOverride
=============================================================================

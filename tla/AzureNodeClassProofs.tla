------------------------- MODULE AzureNodeClassProofs -------------------------
(***************************************************************************)
(* Proofs about AzureNodeClass: its types, that an AKSNodeClass always has *)
(* a NodeClass that holds the finalizer, and that a state at rest is one   *)
(* in which the NodeClass is reconciled.                                   *)
(***************************************************************************)
EXTENDS AzureNodeClass, FiniteSetTheorems, TLAPS

USE DEF vars, serverVars, cacheVars, workVars, ctrlVars

(* An absent NodeClass, AKSNodeClass and version have the right types.     *)
LEMMA NoneType ==
    /\ \A k \in Nat : NoNodeClass(k) \in NodeClasses
    /\ \A k \in Nat : NoAKS(k) \in AKSNodeClasses
    /\ NoVersion \in ControlPlaneVersions
BY DEF NoNodeClass, NoAKS, NoVersion, NodeClasses, AKSNodeClasses, Phases, Versions,
       ConditionStatus, ControlPlaneVersions

(* A write of the NodeClass keeps its type.                                *)
LEMMA WrittenType ==
    ASSUME nc \in NodeClasses, NEW ph \in Phases, NEW fs \in SUBSET {finalizer},
           NEW s \in ConditionStatus, NEW t \in ConditionStatus
    PROVE  Written(ph, fs, s, t) \in NodeClasses
BY NoneType DEF Written, NodeClasses

(* An AKSNodeClass whose fields have their types is an AKSNodeClass.       *)
LEMMA AKSType ==
    ASSUME aks \in AKSNodeClasses, NEW ph \in Phases, NEW s \in ConditionStatus,
           NEW r \in Releases \union {NoRelease}
    PROVE  /\ [phase |-> ph, release |-> r, ready |-> s, rv |-> aks.rv + 1] \in AKSNodeClasses
           /\ NoAKS(aks.rv + 1) \in AKSNodeClasses
BY NoneType DEF AKSNodeClasses

(* SyncConditions returns a condition status.                              *)
LEMMA SyncType ==
    ASSUME NEW a \in ConditionStatus, NEW b \in ConditionStatus, NEW c \in ConditionStatus
    PROVE  SyncConditions(a, b, c) \in ConditionStatus
BY DEF SyncConditions, ConditionStatus

(* A reconcile that ends, well or not, leaves the controller well typed.   *)
LEMMA EndType ==
    ASSUME TypeOK, Done \/ Failed
    PROVE  /\ queued' \in BOOLEAN /\ pc' = "idle"
           /\ n' = NoNodeClass(0) /\ v' = NoVersion /\ ready' = "unset"
           /\ n' \in NodeClasses /\ v' \in ControlPlaneVersions /\ ready' \in ConditionStatus
<1>1. queued' \in BOOLEAN
  BY Zenon DEF TypeOK, Done, Failed
<1>2. QED
  BY <1>1, NoneType DEF Done, Failed, DropWork, ConditionStatus

(* CreateOrUpdate keeps the types.                                         *)
LEMMA ApplyType ==
    ASSUME TypeOK, pc = "apply", NEW release \in Releases, ApplyAKS(release)
    PROVE  /\ aks' \in AKSNodeClasses /\ queued' \in BOOLEAN /\ pc' \in PCs
           /\ n' \in NodeClasses /\ v' \in ControlPlaneVersions /\ ready' \in ConditionStatus
           /\ pc' = "idle" => n' = NoNodeClass(0) /\ v' = NoVersion /\ ready' = "unset"
<1> DEFINE r == ReconciledRelease(v, n.version, aks.release, release)
<1>1. r \in Releases \union {NoRelease}
  BY DEF TypeOK, ReconciledRelease, AKSNodeClasses
<1> HIDE DEF r
<1>2. aks.phase \in Phases /\ aks.ready \in ConditionStatus
  BY DEF TypeOK, AKSNodeClasses
<1>3. CASE Failed /\ UNCHANGED aks
  BY <1>3, EndType DEF TypeOK, PCs
<1>4. CASE /\ aks' = [phase |-> "present", release |-> r, ready |-> "unset", rv |-> aks.rv + 1]
           /\ ready' = "unset" /\ Go("status") /\ UNCHANGED <<n, v>>
  <2>1. aks' \in AKSNodeClasses
    BY <1>1, <1>4, AKSType DEF TypeOK, Phases, ConditionStatus
  <2>2. queued' \in BOOLEAN
    BY <1>4, Zenon DEF TypeOK, Go
  <2>3. QED
    BY <1>4, <2>1, <2>2 DEF TypeOK, Go, PCs, ConditionStatus
<1>5. CASE /\ \/ aks' = aks
              \/ aks' = [phase |-> aks.phase, release |-> r, ready |-> aks.ready, rv |-> aks.rv + 1]
           /\ ready' = aks.ready /\ Go("status") /\ UNCHANGED <<n, v>>
  <2>1. aks' \in AKSNodeClasses
    BY <1>1, <1>2, <1>5, AKSType DEF TypeOK
  <2>2. queued' \in BOOLEAN
    BY <1>5, Zenon DEF TypeOK, Go
  <2>3. QED
    BY <1>2, <1>5, <2>1, <2>2 DEF TypeOK, Go, PCs
<1>6. QED
  BY <1>3, <1>4, <1>5 DEF ApplyAKS, r

(* What Reconcile decides, from the phase and finalizers in the cache.     *)
LEMMA NextStepCases ==
    \/ ncCache.phase = "absent" /\ NextStep = "idle"
    \/ ncCache.phase = "deleting" /\ NextStep = "delete"
    \/ /\ ncCache.phase \notin {"absent", "deleting"}
       /\ \/ finalizer \in ncCache.finalizers /\ NextStep = "prepare"
          \/ finalizer \notin ncCache.finalizers /\ NextStep = "addFinalizer"
BY Zenon DEF NextStep

(* Every step keeps the types.                                             *)
LEMMA TypeInductive == TypeOK /\ [Next]_vars => TypeOK'
<1> SUFFICES ASSUME TypeOK, [Next]_vars PROVE TypeOK'
  OBVIOUS
<1> USE DEF TypeOK
<1>0. nc.phase \in Phases /\ nc.finalizers \in SUBSET {finalizer}
      /\ nc.resolved \in ConditionStatus /\ nc.ready \in ConditionStatus
      /\ n.finalizers \in SUBSET {finalizer} /\ nc.rv \in Nat
      /\ n.resolved \in ConditionStatus /\ n.ready \in ConditionStatus
  BY DEF NodeClasses
<1>1. CASE Reconcile
  BY <1>1, NextStepCases, NoneType DEF Reconcile, PCs
<1>2. CASE AddFinalizer
  <2>1. CASE LockHolds
    <3>1. nc' \in NodeClasses
      BY <1>0, <1>2, <2>1, WrittenType DEF AddFinalizer
    <3>2. queued' \in BOOLEAN
      BY <1>2, <2>1, Zenon DEF AddFinalizer, Go
    <3>3. QED
      BY <1>2, <2>1, <3>1, <3>2 DEF AddFinalizer, Go, PCs
  <2>2. CASE ~LockHolds
    BY <1>2, <2>2, EndType DEF AddFinalizer, PCs
  <2>3. QED
    BY <2>1, <2>2
<1>3. CASE ReadHCP
  <2>1. CASE hcpCache.phase = "present"
    <3>1. queued' \in BOOLEAN
      BY <1>3, <2>1, Zenon DEF ReadHCP, Go
    <3>2. v' \in ControlPlaneVersions
      BY <1>3, <2>1 DEF ReadHCP, HCPs
    <3>3. QED
      BY <1>3, <2>1, <3>1, <3>2 DEF ReadHCP, Go, PCs
  <2>2. CASE hcpCache.phase = "absent"
    BY <1>3, <2>2, EndType DEF ReadHCP, PCs
  <2>3. QED
    BY <1>3, <2>1, <2>2 DEF ReadHCP
<1>4. CASE reconcileAKSNodeClass
  <2>1. CASE (Done \/ Failed) /\ UNCHANGED aks
    BY <1>4, <2>1, EndType DEF reconcileAKSNodeClass, PCs
  <2>2. CASE \E release \in secretsCache : ApplyAKS(release)
    BY <1>4, <2>2, ApplyType DEF reconcileAKSNodeClass
  <2>3. QED
    BY <1>4, <2>1, <2>2 DEF reconcileAKSNodeClass
<1>5. CASE reconcileStatus
  <2>1. /\ Done \/ Failed
        /\ nc' = nc \/ nc' = Written(nc.phase, nc.finalizers, n.resolved,
                                     SyncConditions(n.resolved, n.ready, ready))
    BY <1>5 DEF reconcileStatus
  <2>2. nc' \in NodeClasses
    BY <1>0, <2>1, SyncType, WrittenType
  <2>3. QED
    BY <1>5, <2>1, <2>2, EndType DEF reconcileStatus, PCs
<1>6. CASE reconcileDelete
  <2>1. aks' \in AKSNodeClasses
    BY <1>6, AKSType DEF reconcileDelete, AKSNodeClasses, Phases
  <2>2. CASE Done
    BY <1>6, <2>1, <2>2, EndType DEF reconcileDelete, PCs
  <2>3. CASE Go("removeFinalizer") /\ UNCHANGED <<aks, n, v, ready>>
    <3>1. queued' \in BOOLEAN
      BY <2>3, Zenon DEF Go
    <3>2. QED
      BY <1>6, <2>1, <2>3, <3>1 DEF reconcileDelete, Go, PCs
  <2>4. QED
    BY <1>6, <2>2, <2>3 DEF reconcileDelete
<1>7. CASE RemoveFinalizer
  <2>1. nc' \in NodeClasses
    BY <1>0, <1>7, WrittenType DEF RemoveFinalizer
  <2>2. QED
    BY <1>7, <2>1, EndType DEF RemoveFinalizer, PCs
<1>8. CASE APIError
  BY <1>8, EndType, MaxChangesAssumption DEF APIError, PCs
<1>9. CASE Restart
  <2>1. queued' \in BOOLEAN
    BY <1>9, Zenon DEF Restart
  <2>2. QED
    BY <1>9, <2>1, NoneType, MaxChangesAssumption DEF Restart, DropWork, PCs, ConditionStatus
<1>10. CASE SyncNodeClass
  BY <1>10 DEF SyncNodeClass
<1>11. CASE SyncAKS
  BY <1>11 DEF SyncAKS
<1>12. CASE SyncSecrets
  <2>1. queued' \in BOOLEAN
    BY <1>12, Zenon DEF SyncSecrets
  <2>2. QED
    BY <1>12, <2>1 DEF SyncSecrets
<1>13. CASE SyncHCP
  <2>1. queued' \in BOOLEAN
    BY <1>13, Zenon DEF SyncHCP
  <2>2. QED
    BY <1>13, <2>1 DEF SyncHCP
<1>14. CASE UserStep
  <2>1. nc' \in NodeClasses
    <3>1. CASE \E version \in Versions :
                 nc' = [phase |-> "present", finalizers |-> {}, version |-> version,
                        resolved |-> "unset", ready |-> "unset", rv |-> nc.rv + 1]
      BY <1>0, <3>1 DEF NodeClasses, Phases, ConditionStatus
    <3>2. CASE nc' = Written("deleting", nc.finalizers, nc.resolved, nc.ready)
      BY <1>0, <3>2, WrittenType DEF Phases
    <3>3. QED
      BY <1>14, <3>1, <3>2 DEF UserStep
  <2>2. QED
    BY <1>14, <2>1, MaxChangesAssumption DEF UserStep, Change
<1>15. CASE IgnitionStep
  <2>1. nc' \in NodeClasses
    <3>1. CASE \E s \in {"False", "True"} :
                 nc' = Written(nc.phase, nc.finalizers, s, nc.ready)
      BY <1>0, <3>1, WrittenType DEF ConditionStatus
    <3>2. CASE UNCHANGED nc
      BY <3>2
    <3>3. QED
      BY <1>15, <3>1, <3>2 DEF IgnitionStep
  <2>2. secrets' \subseteq Releases
    BY <1>15 DEF IgnitionStep
  <2>3. QED
    BY <1>15, <2>1, <2>2, MaxChangesAssumption DEF IgnitionStep, Change
<1>16. CASE HyperShiftStep
  <2>1. hcp' \in HCPs
    BY <1>16 DEF HyperShiftStep, HCPs, ControlPlaneVersions
  <2>2. QED
    BY <1>16, <2>1, MaxChangesAssumption DEF HyperShiftStep, Change
<1>17. CASE KarpenterStatus
  <2>1. aks' \in AKSNodeClasses
    BY <1>17 DEF KarpenterStatus, AKSNodeClasses, ConditionStatus
  <2>2. QED
    BY <1>17, <2>1, MaxChangesAssumption DEF KarpenterStatus, Change
<1>18. CASE KarpenterFinalize
  <2>1. aks' \in AKSNodeClasses
    BY <1>18, NoneType DEF KarpenterFinalize, AKSNodeClasses
  <2>2. QED
    BY <1>18, <2>1 DEF KarpenterFinalize
<1>19. CASE UNCHANGED vars
  BY <1>19
<1>20. QED
  BY <1>1, <1>2, <1>3, <1>4, <1>5, <1>6, <1>7, <1>8, <1>9, <1>10, <1>11, <1>12,
     <1>13, <1>14, <1>15, <1>16, <1>17, <1>18, <1>19
  DEF Next, Controller, Informers, Environment

(* The initial states are well typed.                                      *)
LEMMA TypeInit == Init => TypeOK
<1> SUFFICES ASSUME Init PROVE TypeOK
  OBVIOUS
<1>1. hcp \in HCPs
  BY NoneType DEF Init, HCPs, ControlPlaneVersions
<1>2. nc \in NodeClasses /\ secrets \subseteq Releases
  BY NoneType DEF Init, NodeClasses, Phases, ConditionStatus
<1>3. queued \in BOOLEAN
  BY Zenon DEF Init
<1>4. aks \in AKSNodeClasses
  BY NoneType DEF Init, AKSNodeClasses, Phases, ConditionStatus
<1>5. QED
  BY <1>1, <1>2, <1>3, <1>4, NoneType, MaxChangesAssumption DEF Init, TypeOK, PCs, ConditionStatus

(* The type invariant of the azure-nodeclass controller, for any releases  *)
(* and any number of changes.                                              *)
THEOREM TypeCorrect == Spec => []TypeOK
BY TypeInit, TypeInductive, PTL DEF Spec

-----------------------------------------------------------------------------
(***************************************************************************)
(* What the steps do to the NodeClass, the cache and the reconcile.        *)
(***************************************************************************)

(* Every write of the NodeClass gets the next resource version.  It keeps  *)
(* the finalizer, unless it is the one step that removes it.               *)
LEMMA NodeClassStep ==
    ASSUME TypeOK, AbsentIsBare, [Next]_vars
    PROVE  /\ nc' = nc \/ nc'.rv = nc.rv + 1
           /\ nc'.phase = "absent" => nc'.finalizers = {}
           /\ finalizer \in nc.finalizers /\ finalizer \notin nc'.finalizers
                => RemoveFinalizer /\ LockHolds /\ pc' = "idle"
<1>0. /\ nc.rv \in Nat /\ nc.phase \in Phases
      /\ nc.finalizers \subseteq {finalizer} /\ n.finalizers \subseteq {finalizer}
  BY DEF TypeOK, NodeClasses
<1>1. ASSUME NEW ph, NEW fs, NEW a, NEW b, nc' = Written(ph, fs, a, b), ph # "absent"
      PROVE  /\ nc'.rv = nc.rv + 1
             /\ nc'.phase = "absent" => nc'.finalizers = {}
             /\ finalizer \in fs => finalizer \in nc'.finalizers
  BY <1>1 DEF Written, NoNodeClass
<1>2. CASE AddFinalizer
  BY <1>0, <1>1, <1>2 DEF AddFinalizer, LockHolds, AbsentIsBare
<1>3. CASE reconcileStatus
  <2>1. \/ nc' = nc
        \/ /\ LockHolds
           /\ nc' = Written(nc.phase, nc.finalizers, n.resolved,
                            SyncConditions(n.resolved, n.ready, ready))
    BY <1>3 DEF reconcileStatus
  <2>2. QED
    BY <1>0, <1>1, <2>1 DEF LockHolds, AbsentIsBare
<1>4. CASE RemoveFinalizer
  BY <1>0, <1>1, <1>4 DEF RemoveFinalizer, LockHolds, AbsentIsBare, Done
<1>5. CASE UserStep
  <2>1. CASE /\ nc.phase = "absent"
             /\ nc'.phase = "present" /\ nc'.finalizers = {} /\ nc'.rv = nc.rv + 1
    BY <2>1 DEF AbsentIsBare
  <2>2. CASE nc' = Written("deleting", nc.finalizers, nc.resolved, nc.ready)
    BY <1>1, <2>2
  <2>3. QED
    BY <1>5, <2>1, <2>2 DEF UserStep
<1>6. CASE IgnitionStep
  BY <1>0, <1>1, <1>6 DEF IgnitionStep, AbsentIsBare
<1>7. CASE UNCHANGED nc
  BY <1>7 DEF AbsentIsBare
<1>8. QED
  BY <1>2, <1>3, <1>4, <1>5, <1>6, <1>7
  DEF Next, Controller, Informers, Environment, Reconcile, ReadHCP, reconcileAKSNodeClass,
      reconcileDelete, APIError, Restart, SyncNodeClass, SyncAKS, SyncSecrets, SyncHCP,
      HyperShiftStep, KarpenterStatus, KarpenterFinalize

(* The cache is left alone or takes the server's NodeClass, which that     *)
(* step does not change.                                                   *)
LEMMA CacheStep ==
    ASSUME [Next]_vars
    PROVE  ncCache' = ncCache \/ (ncCache' = nc /\ nc' = nc)
BY DEF Next, Controller, Informers, Environment, Reconcile, AddFinalizer, ReadHCP,
      reconcileAKSNodeClass, reconcileStatus, reconcileDelete, RemoveFinalizer, APIError,
      Restart, SyncNodeClass, SyncAKS, SyncSecrets, SyncHCP, UserStep, IgnitionStep,
      HyperShiftStep, KarpenterStatus, KarpenterFinalize

(* A deletion goes on with the NodeClass it has, or starts with the        *)
(* cached one.                                                             *)
LEMMA DeletionStep ==
    ASSUME [Next]_vars, pc' \in {"delete", "removeFinalizer"}
    PROVE  \/ pc \in {"delete", "removeFinalizer"} /\ n' = n
           \/ ncCache.phase = "deleting" /\ n' = ncCache /\ ncCache' = ncCache
<1>1. CASE Reconcile
  BY <1>1, NextStepCases DEF Reconcile
<1>2. CASE reconcileAKSNodeClass
  BY <1>2 DEF reconcileAKSNodeClass, ApplyAKS, Done, Failed, Go
<1>3. QED
  BY <1>1, <1>2
  DEF Next, Controller, Informers, Environment, AddFinalizer, ReadHCP, reconcileStatus,
      reconcileDelete, RemoveFinalizer, APIError, Restart, SyncNodeClass, SyncAKS,
      SyncSecrets, SyncHCP, UserStep, IgnitionStep, HyperShiftStep, KarpenterStatus,
      KarpenterFinalize, Done, Failed, Go

(* The reconcile of a live NodeClass comes from the cached finalizer or    *)
(* from adding it.                                                         *)
LEMMA ApplyStep ==
    ASSUME [Next]_vars, pc' \in {"prepare", "apply", "status"}
    PROVE  \/ pc \in {"prepare", "apply", "status"}
           \/ /\ ncCache.phase \notin {"absent", "deleting"}
              /\ finalizer \in ncCache.finalizers /\ nc' = nc
           \/ finalizer \in nc'.finalizers
<1>1. CASE Reconcile
  BY <1>1, NextStepCases DEF Reconcile
<1>2. CASE AddFinalizer
  BY <1>2 DEF AddFinalizer, Failed, Written
<1>3. CASE reconcileAKSNodeClass
  BY <1>3 DEF reconcileAKSNodeClass
<1>4. QED
  BY <1>1, <1>2, <1>3
  DEF Next, Controller, Informers, Environment, ReadHCP, reconcileStatus,
      reconcileDelete, RemoveFinalizer, APIError, Restart, SyncNodeClass, SyncAKS,
      SyncSecrets, SyncHCP, UserStep, IgnitionStep, HyperShiftStep, KarpenterStatus,
      KarpenterFinalize, Done, Failed, Go

(* Only reconcileAKSNodeClass creates an AKSNodeClass.                     *)
LEMMA AKSStep ==
    ASSUME [Next]_vars, aks.phase = "absent", aks'.phase # "absent"
    PROVE  pc = "apply" /\ nc' = nc /\ pc' = "status"
<1>1. CASE reconcileAKSNodeClass
  BY <1>1 DEF reconcileAKSNodeClass, ApplyAKS, Done, Failed, Go
<1>2. CASE reconcileDelete
  BY <1>2 DEF reconcileDelete, FoundAKS
<1>3. QED
  BY <1>1, <1>2
  DEF Next, Controller, Informers, Environment, Reconcile, AddFinalizer, ReadHCP,
      reconcileStatus, RemoveFinalizer, APIError, Restart, SyncNodeClass, SyncAKS,
      SyncSecrets, SyncHCP, UserStep, IgnitionStep, HyperShiftStep, KarpenterStatus,
      KarpenterFinalize

(* The finalizer is removed after a Delete that found nothing.             *)
LEMMA RemovalStep ==
    ASSUME [Next]_vars, pc' = "removeFinalizer"
    PROVE  \/ pc = "removeFinalizer"
           \/ aks.phase = "absent" /\ aks' = aks
<1>1. CASE Reconcile
  BY <1>1, NextStepCases DEF Reconcile
<1>2. CASE reconcileAKSNodeClass
  BY <1>2 DEF reconcileAKSNodeClass, ApplyAKS, Done, Failed, Go
<1>3. QED
  BY <1>1, <1>2
  DEF Next, Controller, Informers, Environment, AddFinalizer, ReadHCP, reconcileStatus,
      reconcileDelete, FoundAKS, RemoveFinalizer, APIError, Restart, SyncNodeClass, SyncAKS,
      SyncSecrets, SyncHCP, UserStep, IgnitionStep, HyperShiftStep, KarpenterStatus,
      KarpenterFinalize, Done, Failed, Go

-----------------------------------------------------------------------------
(* IInv holds initially.                                                   *)
LEMMA InvInit == Init => IInv
<1> SUFFICES ASSUME Init PROVE IInv
  OBVIOUS
<1>1. TypeOK
  BY TypeInit
<1>2. QED
  BY <1>1 DEF Init, IInv, CacheBehind, SnapshotBehind, CachedFinalizer, AbsentIsBare,
              AppliesGuarded, RemovesLast, NoOrphan, NoNodeClass, NoAKS

(* IInv is inductive.                                                      *)
LEMMA InvInductive == IInv /\ [Next]_vars => IInv'
<1> SUFFICES ASSUME IInv, [Next]_vars PROVE IInv'
  OBVIOUS
<1> USE DEF IInv
<1>1. TypeOK'
  BY TypeInductive
<1>2. nc.rv \in Nat /\ ncCache.rv \in Nat /\ n.rv \in Nat /\ ncCache.phase \in Phases
  BY DEF TypeOK, NodeClasses
<1>3. AbsentIsBare'
  BY NodeClassStep DEF AbsentIsBare
<1>4. CacheBehind'
  <2>1. CASE ncCache' = ncCache
    BY <1>2, <2>1, NodeClassStep DEF CacheBehind
  <2>2. CASE ncCache' = nc /\ nc' = nc
    BY <1>2, <2>2 DEF CacheBehind
  <2>3. QED
    BY <2>1, <2>2, CacheStep
<1>5. SnapshotBehind'
  <2> SUFFICES ASSUME pc' \in {"delete", "removeFinalizer"}
               PROVE  n'.phase = "deleting" /\ n'.rv <= ncCache'.rv
                      /\ (n'.rv = ncCache'.rv => n' = ncCache')
    BY DEF SnapshotBehind
  <2>1. CASE ncCache.phase = "deleting" /\ n' = ncCache /\ ncCache' = ncCache
    BY <1>2, <2>1
  <2>2. CASE pc \in {"delete", "removeFinalizer"} /\ n' = n
    BY <1>2, <2>2, CacheStep DEF SnapshotBehind, CacheBehind
  <2>3. QED
    BY <2>1, <2>2, DeletionStep
<1>6. CachedFinalizer'
  <2> SUFFICES ASSUME ncCache'.phase = "present", finalizer \in ncCache'.finalizers
               PROVE  finalizer \in nc'.finalizers
    BY DEF CachedFinalizer
  <2>1. CASE ncCache' = ncCache
    <3>1. finalizer \in nc.finalizers
      BY <2>1 DEF CachedFinalizer
    <3>2. ~(RemoveFinalizer /\ LockHolds)
      <4> SUFFICES ASSUME RemoveFinalizer, LockHolds PROVE FALSE
        OBVIOUS
      <4>1. n.phase = "deleting" /\ n.rv <= ncCache.rv /\ (n.rv = ncCache.rv => n = ncCache)
        BY DEF RemoveFinalizer, SnapshotBehind
      <4>2. ncCache.rv <= nc.rv /\ nc.rv = n.rv
        BY DEF CacheBehind, LockHolds
      <4>3. QED
        BY <1>2, <2>1, <4>1, <4>2
    <3>3. QED
      BY <3>1, <3>2, NodeClassStep
  <2>2. CASE ncCache' = nc /\ nc' = nc
    BY <2>2
  <2>3. QED
    BY <2>1, <2>2, CacheStep
<1>7. AppliesGuarded'
  <2> SUFFICES ASSUME pc' \in {"prepare", "apply", "status"}
               PROVE  finalizer \in nc'.finalizers
    BY DEF AppliesGuarded
  <2>1. CASE pc \in {"prepare", "apply", "status"}
    BY <2>1, NodeClassStep DEF AppliesGuarded
  <2>2. CASE /\ ncCache.phase \notin {"absent", "deleting"}
             /\ finalizer \in ncCache.finalizers /\ nc' = nc
    BY <1>2, <2>2 DEF CachedFinalizer, Phases
  <2>3. QED
    BY <2>1, <2>2, ApplyStep
<1>8. RemovesLast'
  BY RemovalStep, AKSStep DEF RemovesLast
<1>9. NoOrphan'
  <2>1. CASE aks.phase = "absent"
    BY <2>1, AKSStep DEF NoOrphan, AppliesGuarded
  <2>2. CASE aks.phase # "absent"
    <3>1. pc # "removeFinalizer"
      BY <2>2 DEF RemovesLast
    <3>2. QED
      BY <2>2, <3>1, NodeClassStep DEF NoOrphan, RemoveFinalizer
  <2>3. QED
    BY <2>1, <2>2
<1>10. QED
  BY <1>1, <1>3, <1>4, <1>5, <1>6, <1>7, <1>8, <1>9

(* The inductive invariant holds throughout.                               *)
THEOREM Invariance == Spec => []IInv
BY InvInit, InvInductive, PTL DEF Spec

(* Whatever the caches lag and whichever calls fail, an AKSNodeClass       *)
(* always has a NodeClass with the finalizer: nothing is left behind that  *)
(* only the operator could delete.                                         *)
THEOREM NoOrphanCorrect == Spec => []NoOrphan
<1>1. IInv => NoOrphan
  BY DEF IInv
<1>2. QED
  BY <1>1, Invariance, PTL

-----------------------------------------------------------------------------
(***************************************************************************)
(* The state at rest.                                                      *)
(***************************************************************************)

(* The finalizer is added to the NodeClass that was read, which is live    *)
(* and still is what the cache holds.                                      *)
LEMMA AddFinalizerCurrent ==
    ASSUME RestInv, AddFinalizer, LockHolds
    PROVE  n = ncCache /\ ncCache = nc /\ nc.phase = "present"
<1>1. nc.rv \in Nat /\ ncCache.rv \in Nat /\ n.rv \in Nat
  BY DEF RestInv, IInv, TypeOK, NodeClasses
<1>2. n.rv <= ncCache.rv /\ (n.rv = ncCache.rv => n = ncCache) /\ n.phase = "present"
  BY DEF RestInv, SeenDeleting, LiveWork, AddFinalizer
<1>3. ncCache.rv <= nc.rv /\ (ncCache.rv = nc.rv => ncCache = nc) /\ nc.rv = n.rv
  BY DEF RestInv, IInv, CacheBehind, LockHolds
<1>4. QED
  BY <1>1, <1>2, <1>3

(* A NodeClass with the finalizer got it from AddFinalizer or had it, and  *)
(* goes on terminating if it was; a terminating one has it.                *)
LEMMA PhaseStep ==
    ASSUME RestInv, [Next]_vars
    PROVE  /\ finalizer \in nc'.finalizers =>
                 \/ finalizer \in nc.finalizers /\ (nc.phase = "deleting" => nc'.phase = "deleting")
                 \/ AddFinalizer /\ LockHolds /\ ncCache.phase = "present" /\ pc' = "prepare"
           /\ nc'.phase = "deleting" => finalizer \in nc'.finalizers
<1>0. /\ nc.finalizers \subseteq {finalizer} /\ n.finalizers \subseteq {finalizer}
      /\ nc.phase = "deleting" => finalizer \in nc.finalizers
  BY DEF RestInv, IInv, TypeOK, NodeClasses, DeletingHeld
<1>1. ASSUME NEW ph, NEW fs, NEW a, NEW b, fs \subseteq {finalizer}, nc' = Written(ph, fs, a, b)
      PROVE  /\ finalizer \in nc'.finalizers => finalizer \in fs /\ nc'.phase = ph
             /\ nc'.phase = "deleting" => finalizer \in nc'.finalizers
  BY <1>1 DEF Written, NoNodeClass
<1>2. CASE AddFinalizer /\ LockHolds
  <2>1. nc' = Written(nc.phase, n.finalizers \union {finalizer}, nc.resolved, nc.ready)
    BY <1>2 DEF AddFinalizer
  <2>2. ncCache.phase = "present" /\ pc' = "prepare"
    BY <1>2, AddFinalizerCurrent DEF AddFinalizer, Go
  <2>3. n.finalizers \union {finalizer} \subseteq {finalizer}
    BY <1>0
  <2>4. nc'.phase = "deleting" => finalizer \in nc'.finalizers
    BY <1>1, <2>1, <2>3
  <2>5. QED
    BY <1>2, <2>2, <2>4
<1>3. CASE nc' = nc
  BY <1>0, <1>3
<1>4. CASE reconcileStatus /\ nc' # nc
  BY <1>0, <1>1, <1>4 DEF reconcileStatus
<1>5. CASE RemoveFinalizer /\ nc' # nc
  <2>1. nc' = Written(nc.phase, n.finalizers \ {finalizer}, nc.resolved, nc.ready)
    BY <1>5 DEF RemoveFinalizer
  <2>2. n.finalizers \ {finalizer} = {}
    BY <1>0
  <2>3. QED
    BY <1>1, <2>1, <2>2
<1>6. CASE UserStep
  <2>1. CASE nc'.phase = "present" /\ nc'.finalizers = {}
    BY <2>1
  <2>2. CASE nc' = Written("deleting", nc.finalizers, nc.resolved, nc.ready)
    BY <1>0, <1>1, <2>2
  <2>3. QED
    BY <1>6, <2>1, <2>2 DEF UserStep
<1>7. CASE IgnitionStep /\ nc' # nc
  BY <1>0, <1>1, <1>7 DEF IgnitionStep
<1>8. nc' = nc \/ (AddFinalizer /\ LockHolds) \/ reconcileStatus \/ RemoveFinalizer \/ UserStep
      \/ IgnitionStep
  BY DEF Next, Controller, Informers, Environment, Reconcile, AddFinalizer, ReadHCP,
      reconcileAKSNodeClass, reconcileDelete, APIError, Restart, SyncNodeClass, SyncAKS,
      SyncSecrets, SyncHCP, HyperShiftStep, KarpenterStatus, KarpenterFinalize
<1>9. QED
  BY <1>2, <1>3, <1>4, <1>5, <1>6, <1>7, <1>8

(* Every write of the AKSNodeClass gets the next resource version; it      *)
(* starts to terminate by the Delete of a reconcile that still is one, and *)
(* its cache follows.                                                      *)
LEMMA AKSWriteStep ==
    ASSUME TypeOK, [Next]_vars
    PROVE  /\ aks' = aks \/ aks'.rv = aks.rv + 1
           /\ aks'.phase = "deleting" => aks.phase = "deleting"
                                         \/ (pc = "delete" /\ aks.phase = "present" /\ nc' = nc)
           /\ aksCache' = aksCache \/ (aksCache' = aks /\ aks' = aks)
<1>1. CASE reconcileAKSNodeClass
  BY <1>1 DEF reconcileAKSNodeClass, ApplyAKS
<1>2. CASE reconcileDelete
  BY <1>2 DEF reconcileDelete, FoundAKS, NoAKS
<1>3. CASE KarpenterStatus \/ KarpenterFinalize
  BY <1>3 DEF KarpenterStatus, KarpenterFinalize, NoAKS
<1>4. QED
  BY <1>1, <1>2, <1>3
  DEF Next, Controller, Informers, Environment, Reconcile, AddFinalizer, ReadHCP,
      reconcileStatus, RemoveFinalizer, APIError, Restart, SyncNodeClass, SyncAKS,
      SyncSecrets, SyncHCP, UserStep, IgnitionStep, HyperShiftStep

(* A reconcile that is not a deletion keeps its NodeClass, starts with the *)
(* cached one, or goes on with the one it has just written.                *)
LEMMA LiveStep ==
    ASSUME [Next]_vars, pc' \in {"addFinalizer", "prepare", "apply", "status"}
    PROVE  \/ pc \in {"addFinalizer", "prepare", "apply", "status"} /\ n' = n
              /\ (pc' = "addFinalizer" => pc = "addFinalizer")
           \/ ncCache.phase \notin {"absent", "deleting"} /\ n' = ncCache /\ ncCache' = ncCache
           \/ AddFinalizer /\ LockHolds /\ n' = nc' /\ pc' = "prepare"
<1>1. CASE Reconcile
  BY <1>1, NextStepCases DEF Reconcile
<1>2. CASE AddFinalizer
  BY <1>2 DEF AddFinalizer, Failed, Go
<1>3. CASE reconcileAKSNodeClass
  BY <1>3 DEF reconcileAKSNodeClass, ApplyAKS, Done, Failed, Go
<1>4. QED
  BY <1>1, <1>2, <1>3
  DEF Next, Controller, Informers, Environment, ReadHCP, reconcileStatus,
      reconcileDelete, RemoveFinalizer, APIError, Restart, SyncNodeClass, SyncAKS,
      SyncSecrets, SyncHCP, UserStep, IgnitionStep, HyperShiftStep, KarpenterStatus,
      KarpenterFinalize, Done, Failed, Go

(* The ignition controller creates and deletes Secrets one by one.         *)
LEMMA FewSecretsStep == FewSecrets /\ [Next]_vars => FewSecrets'
<1> SUFFICES ASSUME FewSecrets, [Next]_vars PROVE FewSecrets'
  OBVIOUS
<1>1. \/ secrets' = secrets
      \/ \E r \in Releases : secrets' = secrets \union {r}
      \/ \E r \in secrets : secrets' = secrets \ {r}
  BY DEF Next, Controller, Informers, Environment, Reconcile, AddFinalizer, ReadHCP,
      reconcileAKSNodeClass, reconcileStatus, reconcileDelete, RemoveFinalizer, APIError,
      Restart, SyncNodeClass, SyncAKS, SyncSecrets, SyncHCP, UserStep, IgnitionStep,
      HyperShiftStep, KarpenterStatus, KarpenterFinalize
<1>2. secretsCache' \in {secretsCache, secrets}
  BY DEF Next, Controller, Informers, Environment, Reconcile, AddFinalizer, ReadHCP,
      reconcileAKSNodeClass, reconcileStatus, reconcileDelete, RemoveFinalizer, APIError,
      Restart, SyncNodeClass, SyncAKS, SyncSecrets, SyncHCP, UserStep, IgnitionStep,
      HyperShiftStep, KarpenterStatus, KarpenterFinalize
<1>3. IsFiniteSet(secrets')
  BY <1>1, FS_AddElement, FS_RemoveElement DEF FewSecrets
<1>4. QED
  BY <1>2, <1>3 DEF FewSecrets

(* A Secret that is found is the only one.                                 *)
LEMMA FoundIsOnly ==
    ASSUME NEW sec, IsFiniteSet(sec), GetUserDataSecret(sec) = "found"
    PROVE  \A r, s \in sec : r = s
<1>1. Cardinality(sec) \in Nat /\ (Cardinality(sec) = 0 <=> sec = {})
  BY FS_CardinalityType, FS_EmptySet
<1>2. Cardinality(sec) = 1
  BY <1>1 DEF GetUserDataSecret
<1>3. \E x : sec = {x}
  BY <1>2, FS_Singleton
<1>4. QED
  BY <1>3

(* A step after which the caches hold the NodeClass and the AKSNodeClass,  *)
(* with nothing queued, has written neither and found the caches so.       *)
LEMMA CurrentStep ==
    ASSUME RestInv, [Next]_vars, ~queued', ncCache' = nc', aksCache' = aks'
    PROVE  /\ nc' = nc /\ aks' = aks
           /\ Restart \/ (ncCache = nc /\ aksCache = aks)
           /\ Reconcile \/ Restart \/ ~queued
<1>1. /\ nc.rv \in Nat /\ ncCache.rv \in Nat /\ aks.rv \in Nat /\ aksCache.rv \in Nat
      /\ TypeOK /\ AbsentIsBare
      /\ ncCache.rv <= nc.rv /\ aksCache.rv <= aks.rv
  BY DEF RestInv, IInv, TypeOK, NodeClasses, AKSNodeClasses, CacheBehind, AKSBehind
<1>2. nc' = nc
  BY <1>1, NodeClassStep, CacheStep
<1>3. aks' = aks
  BY <1>1, AKSWriteStep
<1>4. Restart \/ (ncCache' = ncCache /\ aksCache' = aksCache)
  BY DEF Next, Controller, Informers, Environment, Reconcile, AddFinalizer, ReadHCP,
      reconcileAKSNodeClass, reconcileStatus, reconcileDelete, RemoveFinalizer, APIError,
      SyncNodeClass, SyncAKS, SyncSecrets, SyncHCP, UserStep, IgnitionStep,
      HyperShiftStep, KarpenterStatus, KarpenterFinalize
<1>5. Reconcile \/ Restart \/ ~queued
  <2>1. CASE reconcileAKSNodeClass
    BY <2>1 DEF reconcileAKSNodeClass, ApplyAKS, Done, Failed, Go
  <2>2. CASE SyncSecrets \/ SyncHCP
    BY <2>2, Zenon DEF SyncSecrets, SyncHCP
  <2>3. QED
    BY <2>1, <2>2
    DEF Next, Controller, Informers, Environment, AddFinalizer, ReadHCP,
      reconcileStatus, reconcileDelete, RemoveFinalizer, APIError, SyncNodeClass, SyncAKS,
      UserStep, IgnitionStep, HyperShiftStep, KarpenterStatus, KarpenterFinalize,
      Done, Failed, Go
<1>6. QED
  BY <1>2, <1>3, <1>4, <1>5

(* Every step of the controller either queues it, writes something whose   *)
(* event is to come, or leaves UpToDate.                                   *)
LEMMA UpToDateStep == RestInv /\ [Next]_vars => UpToDate'
<1> SUFFICES ASSUME RestInv, [Next]_vars, ~queued', ncCache' = nc', aksCache' = aks'
             PROVE  UpToDate'
  BY DEF UpToDate
<1>1. nc' = nc /\ aks' = aks
  BY CurrentStep
<1>2. ASSUME ~queued, ncCache = nc, aksCache = aks,
             UNCHANGED <<pc, n, v, ready, hcpCache, secretsCache>>
      PROVE  UpToDate'
  BY <1>1, <1>2 DEF RestInv, UpToDate, Reconciled, Follows
<1>3. CASE Restart
  <2>1. nc.phase = "absent"
    BY <1>3, Zenon DEF Restart
  <2>2. QED
    BY <1>1, <1>3, <2>1 DEF Restart, UpToDate
<1>4. CASE Reconcile
  <2>1. ncCache = nc /\ ncCache.phase \in Phases
    BY <1>4, CurrentStep DEF Reconcile, Restart, RestInv, IInv, TypeOK, NodeClasses
  <2>2. CASE NextStep = "idle"
    BY <1>1, <1>4, <2>1, <2>2, NextStepCases DEF Reconcile, UpToDate
  <2>3. CASE NextStep # "idle"
    BY <1>1, <1>4, <2>1, <2>3, NextStepCases DEF Reconcile, UpToDate
  <2>4. QED
    BY <2>2, <2>3
<1> SUFFICES ASSUME ~Restart, ~Reconcile PROVE UpToDate'
  BY <1>3, <1>4
<1>5. ~queued /\ ncCache = nc /\ aksCache = aks
  BY CurrentStep
<1>6. /\ pc # "idle" => n = nc
      /\ pc \in {"apply", "status"} => hcpCache.phase = "present" /\ v = hcpCache.version
      /\ pc \in {"addFinalizer", "prepare", "apply", "status"} => nc.phase = "present"
      /\ nc.phase = "present" => aks.phase # "deleting"
  BY <1>5 DEF RestInv, UpToDate, LiveWork, DeletedTogether
<1>7. CASE AddFinalizer \/ RemoveFinalizer
  <2>1. ASSUME NEW ph, NEW fs, NEW a, NEW b, nc' = Written(ph, fs, a, b)
        PROVE  FALSE
    BY <1>1, <2>1 DEF Written, NoNodeClass, RestInv, IInv, TypeOK, NodeClasses
  <2>2. QED
    BY <1>7, <2>1 DEF AddFinalizer, RemoveFinalizer, Failed
<1>8. CASE ReadHCP
  <2>1. CASE hcpCache.phase = "present"
    BY <1>1, <1>6, <1>8, <2>1 DEF ReadHCP, Go, UpToDate
  <2>2. CASE hcpCache.phase = "absent"
    BY <1>1, <1>6, <1>8, <2>2 DEF ReadHCP, Done, UpToDate
  <2>3. QED
    BY <1>8, <2>1, <2>2 DEF ReadHCP
<1>9. CASE reconcileAKSNodeClass
  <2>1. UNCHANGED <<hcpCache, secretsCache>> /\ pc = "apply"
    BY <1>9 DEF reconcileAKSNodeClass
  <2>2. CASE GetUserDataSecret(secretsCache) = "notFound"
    <3>1. secretsCache = {} /\ pc' = "idle"
      BY <1>9, <2>2 DEF reconcileAKSNodeClass, GetUserDataSecret, Done
    <3>2. QED
      BY <1>1, <1>6, <2>1, <3>1 DEF UpToDate, Reconciled, Follows
  <2>3. CASE GetUserDataSecret(secretsCache) = "found"
    <3>1. PICK release \in secretsCache : ApplyAKS(release)
      BY <1>9, <2>3 DEF reconcileAKSNodeClass
    <3>2. \A r, s \in secretsCache : r = s
      BY <2>3, FoundIsOnly DEF RestInv, FewSecrets
    <3>3. aks.rv \in Nat /\ aks.phase \in Phases
      BY DEF RestInv, IInv, TypeOK, AKSNodeClasses
    <3>4. /\ aks.phase # "absent" /\ ready' = aks.ready /\ pc' = "status" /\ UNCHANGED <<n, v>>
          /\ ReconciledRelease(v, n.version, aks.release, release) = aks.release
      BY <1>1, <3>1, <3>3 DEF ApplyAKS, Failed, Go
    <3>5. aks.phase = "present"
      BY <1>6, <2>1, <3>3, <3>4 DEF Phases
    <3>6. WaitsForControlPlaneUpgrade(v, n.version) \/ aks.release = release
      BY <3>4 DEF ReconciledRelease
    <3>7. \A r \in secretsCache : WaitsForControlPlaneUpgrade(v, nc.version) \/ aks.release = r
      BY <1>6, <2>1, <3>2, <3>6
    <3>8. (\A r \in secretsCache : WaitsForControlPlaneUpgrade(v, nc.version) \/ aks.release = r)'
      BY <1>1, <2>1, <3>4, <3>7 DEF WaitsForControlPlaneUpgrade, isControlPlaneUpgrading
    <3>9. QED
      BY <1>1, <1>6, <2>1, <3>2, <3>4, <3>5, <3>8 DEF UpToDate
  <2>4. QED
    BY <1>9, <2>2, <2>3 DEF reconcileAKSNodeClass, Failed
<1>10. CASE reconcileStatus
  <2>1. UNCHANGED <<hcpCache, secretsCache>> /\ pc = "status" /\ pc' = "idle"
    BY <1>10 DEF reconcileStatus, Done, Failed
  <2>2. SyncConditions(n.resolved, n.ready, ready) = n.ready
    <3>1. ASSUME NEW ph, NEW fs, NEW a, NEW b, nc' = Written(ph, fs, a, b)
          PROVE  FALSE
      BY <1>1, <3>1 DEF Written, NoNodeClass, RestInv, IInv, TypeOK, NodeClasses
    <3>2. QED
      BY <1>10, <3>1 DEF reconcileStatus, Failed
  <2>3. /\ ready = aks.ready /\ aks.phase = "present"
        /\ \A r, s \in secretsCache : r = s
        /\ \A r \in secretsCache :
              WaitsForControlPlaneUpgrade(v, nc.version) \/ aks.release = r
    BY <1>5, <2>1 DEF RestInv, UpToDate
  <2>4. Reconciled
    BY <1>6, <2>1, <2>2, <2>3 DEF Reconciled, Follows
  <2>5. Reconciled'
    BY <1>1, <2>1, <2>4 DEF Reconciled, Follows
  <2>6. QED
    BY <1>1, <1>6, <2>1, <2>5 DEF UpToDate
<1>11. CASE reconcileDelete
  <2>1. nc.phase = "deleting" /\ n = nc
    BY <1>6, <1>11 DEF reconcileDelete, RestInv, IInv, SnapshotBehind
  <2>2. finalizer \in n.finalizers
    BY <2>1 DEF RestInv, DeletingHeld
  <2>3. aks.phase # "present"
    BY <1>1, <1>11 DEF reconcileDelete, FoundAKS, NoAKS, RestInv, IInv, TypeOK, AKSNodeClasses
  <2>4. CASE aks.phase = "deleting"
    BY <1>1, <1>11, <2>1, <2>4 DEF reconcileDelete, FoundAKS, Done, UpToDate
  <2>5. CASE aks.phase = "absent"
    BY <1>1, <1>11, <2>1, <2>2, <2>5 DEF reconcileDelete, FoundAKS, Go, UpToDate
  <2>6. QED
    BY <2>3, <2>4, <2>5 DEF RestInv, IInv, TypeOK, AKSNodeClasses, Phases
<1>12. CASE SyncSecrets
  <2>1. secretsCache' \subseteq secretsCache
    BY <1>12, Zenon DEF SyncSecrets
  <2>2. UNCHANGED <<hcpCache, pc, n, v, ready>>
    BY <1>12 DEF SyncSecrets
  <2>3. QED
    BY <1>1, <1>5, <2>1, <2>2 DEF RestInv, UpToDate, Reconciled, Follows
<1>13. CASE SyncHCP
  <2>1. UNCHANGED <<secretsCache, pc, n, v, ready>> /\ hcpCache' = hcp
    BY <1>13 DEF SyncHCP
  <2>2. ncCache.phase = "absent" \/ ~hcpPredicate(hcpCache, hcp)
    BY <1>13, Zenon DEF SyncHCP
  <2>3. CASE nc.phase = "absent"
    BY <1>1, <1>6, <2>1, <2>3 DEF UpToDate
  <2>4. CASE hcpCache.phase # "absent" /\ hcpCache.version = hcp.version
    <3>1. hcpCache.phase = "present" /\ hcp.phase = "present"
      BY <2>4 DEF RestInv, HCPStays, IInv, TypeOK, HCPs
    <3>2. QED
      BY <1>1, <1>5, <2>1, <2>4, <3>1 DEF RestInv, UpToDate, Reconciled, Follows
  <2>5. QED
    BY <1>5, <2>2, <2>3, <2>4 DEF hcpPredicate
<1>14. CASE UNCHANGED <<pc, n, v, ready, hcpCache, secretsCache>>
  BY <1>2, <1>5, <1>14
<1>15. QED
  BY <1>7, <1>8, <1>9, <1>10, <1>11, <1>12, <1>13, <1>14
  DEF Next, Controller, Informers, Environment, APIError, Failed, SyncNodeClass, SyncAKS,
      UserStep, IgnitionStep, HyperShiftStep, KarpenterStatus, KarpenterFinalize

(* RestInv is inductive.                                                   *)
LEMMA RestInductive == RestInv /\ [Next]_vars => RestInv'
<1> SUFFICES ASSUME RestInv, [Next]_vars PROVE RestInv'
  OBVIOUS
<1>0. /\ nc.rv \in Nat /\ ncCache.rv \in Nat /\ n.rv \in Nat /\ aks.rv \in Nat
      /\ aksCache.rv \in Nat /\ ncCache.phase \in Phases /\ TypeOK /\ IInv
  BY DEF RestInv, IInv, TypeOK, NodeClasses, AKSNodeClasses
<1>1. IInv'
  BY <1>0, InvInductive
<1>2. DeletingHeld'
  BY PhaseStep DEF DeletingHeld
<1>3. DeletedTogether'
  <2> SUFFICES ASSUME aks'.phase = "deleting" PROVE nc'.phase = "deleting"
    BY DEF DeletedTogether
  <2>1. CASE pc = "delete" /\ aks.phase = "present" /\ nc' = nc
    BY <1>0, <2>1 DEF RestInv, SeenDeleting, IInv, NoOrphan
  <2>2. CASE aks.phase = "deleting"
    <3>1. nc.phase = "deleting" /\ finalizer \in nc.finalizers
      BY <2>2 DEF RestInv, DeletedTogether, DeletingHeld
    <3>2. finalizer \in nc'.finalizers
      BY <1>1 DEF IInv, NoOrphan
    <3>3. ~(AddFinalizer /\ LockHolds)
      BY <3>1, AddFinalizerCurrent
    <3>4. QED
      BY <3>1, <3>2, <3>3, PhaseStep
  <2>3. QED
    BY <1>0, <2>1, <2>2, AKSWriteStep
<1>4. SeenDeleting'
  <2>1. ncCache.phase = "deleting" /\ finalizer \in nc'.finalizers => nc'.phase = "deleting"
    BY PhaseStep DEF RestInv, SeenDeleting
  <2>2. (ncCache.phase = "deleting" /\ finalizer \in nc.finalizers => nc.phase = "deleting")'
    BY <2>1, CacheStep
  <2>3. (pc = "delete" /\ finalizer \in nc.finalizers => nc.phase = "deleting")'
    <3> SUFFICES ASSUME pc' = "delete", finalizer \in nc'.finalizers
                 PROVE  nc'.phase = "deleting"
      OBVIOUS
    <3>1. CASE pc = "delete"
      BY <3>1, PhaseStep DEF RestInv, SeenDeleting
    <3>2. CASE pc # "delete"
      <4>1. ncCache.phase = "deleting"
        BY <3>2, DeletionStep DEF AddFinalizer, Reconcile, ReadHCP, reconcileAKSNodeClass,
           reconcileStatus, reconcileDelete, RemoveFinalizer, APIError, Restart, Next,
           Controller, Informers, Environment, SyncNodeClass, SyncAKS, SyncSecrets, SyncHCP,
           UserStep, IgnitionStep, HyperShiftStep, KarpenterStatus, KarpenterFinalize,
           Done, Failed
      <4>2. QED
        BY <2>1, <4>1
    <3>3. QED
      BY <3>1, <3>2
  <2>4. (pc = "addFinalizer" => n.rv <= ncCache.rv /\ (n.rv = ncCache.rv => n = ncCache))'
    <3> SUFFICES ASSUME pc' = "addFinalizer"
                 PROVE  n'.rv <= ncCache'.rv /\ (n'.rv = ncCache'.rv => n' = ncCache')
      OBVIOUS
    <3>1. CASE n' = ncCache /\ ncCache' = ncCache
      BY <1>0, <3>1
    <3>2. CASE pc = "addFinalizer" /\ n' = n
      BY <1>0, <3>2, CacheStep DEF RestInv, SeenDeleting, IInv, CacheBehind
    <3>3. QED
      BY <3>1, <3>2, LiveStep
  <2>5. QED
    BY <2>2, <2>3, <2>4 DEF SeenDeleting
<1>5. LiveWork'
  <2> SUFFICES ASSUME pc' \in {"addFinalizer", "prepare", "apply", "status"}
               PROVE  n'.phase = "present"
    BY DEF LiveWork
  <2>1. CASE AddFinalizer /\ LockHolds /\ n' = nc'
    BY <2>1, AddFinalizerCurrent DEF AddFinalizer, Written
  <2>2. QED
    BY <1>0, <2>1, LiveStep DEF RestInv, LiveWork, Phases
<1>6. HCPStays'
  BY DEF RestInv, HCPStays, Next, Controller, Informers, Environment, Reconcile, AddFinalizer,
      ReadHCP, reconcileAKSNodeClass, reconcileStatus, reconcileDelete, RemoveFinalizer, APIError,
      Restart, SyncNodeClass, SyncAKS, SyncSecrets, SyncHCP, UserStep, IgnitionStep,
      HyperShiftStep, KarpenterStatus, KarpenterFinalize
<1>7. FewSecrets'
  BY FewSecretsStep DEF RestInv
<1>8. AKSBehind'
  BY <1>0, AKSWriteStep DEF RestInv, AKSBehind
<1>9. UpToDate'
  BY UpToDateStep
<1>10. QED
  BY <1>1, <1>2, <1>3, <1>4, <1>5, <1>6, <1>7, <1>8, <1>9 DEF RestInv

(* The operator starts with a NodeClass queued, or without one.            *)
LEMMA RestInit == Init => RestInv
<1> SUFFICES ASSUME Init PROVE RestInv
  OBVIOUS
<1>1. IInv
  BY InvInit
<1>2. nc.phase # "absent" => queued
  BY Zenon DEF Init
<1>3. FewSecrets
  <2>1. secrets = {} \/ \E r : secrets = {r}
    BY Zenon DEF Init
  <2>2. IsFiniteSet(secrets)
    BY <2>1, FS_EmptySet, FS_Singleton, Zenon
  <2>3. QED
    BY <2>2 DEF Init, FewSecrets
<1>4. nc.phase \in {"absent", "present"} /\ aks.phase # "deleting"
  BY DEF Init, NoNodeClass, NoAKS
<1>5. pc = "idle" /\ hcpCache = hcp /\ ncCache = nc /\ aksCache = aks
  BY DEF Init
<1>6. nc.rv = 0 /\ aks.rv = 0
  BY DEF Init, NoNodeClass, NoAKS
<1>7. QED
  BY <1>1, <1>2, <1>3, <1>4, <1>5, <1>6 DEF RestInv, DeletingHeld, DeletedTogether, SeenDeleting,
     LiveWork, HCPStays, AKSBehind, UpToDate

(* The inductive invariant behind the state at rest holds throughout.      *)
THEOREM RestInvariance == Spec => []RestInv
BY RestInit, RestInductive, PTL DEF Spec

(* The controller never asks to be requeued, and yet it comes to rest only *)
(* when the NodeClass is reconciled: no wait for the HCP, the Secret, an   *)
(* upgrade or Karpenter misses the event that ends it.                     *)
THEOREM RestsOnlyFollowedCorrect == Spec => []RestsOnlyFollowed
<1>1. RestInv => RestsOnlyFollowed
  BY DEF RestInv, UpToDate, Reconciled, RestsOnlyFollowed
<1>2. QED
  BY <1>1, RestInvariance, PTL
=============================================================================

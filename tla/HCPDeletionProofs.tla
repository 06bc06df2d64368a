-------------------------- MODULE HCPDeletionProofs --------------------------
(***************************************************************************)
(* Proofs about HCPDeletion, for any NodePools, NodeClaims and bounds.     *)
(***************************************************************************)
EXTENDS HCPDeletion, TLAPS

USE DEF vars, serverVars, cacheVars, workVars, ctrlVars, bookVars

(* The absent HCP is an HCP.                                               *)
LEMMA NoHCPType == NoHCP \in HCPs
BY DEF NoHCP, HCPs, Phases

(* A write of the HCP keeps its type.                                      *)
LEMMA WriteType ==
    ASSUME hcp \in HCPs, NEW ph \in Phases, NEW fs \in SUBSET Finalizers,
           WriteHCP(ph, fs)
    PROVE  hcp' \in HCPs
BY DEF WriteHCP, HCPs

(* A patch of known finalizers keeps the type of the HCP.                  *)
LEMMA PatchType ==
    ASSUME hcp \in HCPs, NEW fs, PatchFinalizers(fs), 
           \/ fs \subseteq hcp.finalizers
           \/ \E x \in HCPs : fs \subseteq x.finalizers
           \/ \E x \in HCPs, f \in Finalizers : fs = x.finalizers \union {f}
    PROVE  hcp' \in HCPs
BY DEF PatchFinalizers, WriteHCP, HCPs, Phases

(* Every step keeps the types.                                             *)
LEMMA TypeInductive == TypeOK /\ [Next]_vars => TypeOK'
<1> SUFFICES ASSUME TypeOK, [Next]_vars PROVE TypeOK'
  OBVIOUS
<1> USE DEF TypeOK
<1>1. CASE Reconcile
  BY <1>1, NoHCPType DEF Reconcile, AfterRead, PCs
<1>2. CASE AddFinalizer
  BY <1>2, NoHCPType, PatchType DEF AddFinalizer, Done, Failed, DropWork, PCs, Finalizers
<1>3. CASE ListNodePools
  BY <1>3 DEF ListNodePools, Goto, PCs
<1>4. CASE NodePoolsDeleted
  BY <1>4, NoHCPType DEF NodePoolsDeleted, RequeueAfter, DropWork, PCs
<1>5. CASE ListNodeClaims
  BY <1>5, NoHCPType DEF ListNodeClaims, AfterCleanup, Goto, Done, DropWork, Existing, Overdue, PCs
<1>6. CASE NodeClaimsDeleted
  BY <1>6, NoHCPType DEF NodeClaimsDeleted, RequeueAfter, DropWork, PCs
<1>7. CASE RemoveFinalizer
  BY <1>7, NoHCPType, PatchType DEF RemoveFinalizer, Done, Failed, DropWork, PCs
<1>8. ASSUME NEW p \in Pools, DeleteNodePool(p)
      PROVE  TypeOK'
  BY <1>8, NoHCPType DEF DeleteNodePool, Failed, DropWork, PCs, PoolStates
<1>9. ASSUME NEW c \in Claims, DeleteNodeClaim(c)
      PROVE  TypeOK'
  BY <1>9, NoHCPType DEF DeleteNodeClaim, Failed, DropWork, PCs, ClaimStates
<1>10. ASSUME NEW c \in Claims, ForceNodeClaim(c)
      PROVE  TypeOK'
  BY <1>10, NoHCPType DEF ForceNodeClaim, Failed, DropWork, PCs
<1>11. CASE TimerFires
  BY <1>11 DEF TimerFires
<1>12. CASE APIError
  BY <1>12, NoHCPType, ConstantsAssumption DEF APIError, Failed, DropWork, PCs
<1>13. CASE Restart
  <2>1. queued' \in BOOLEAN
    BY <1>13, Zenon DEF Restart
  <2>2. /\ poolCache' \in [Pools -> PoolStates]
        /\ claimCache' \in [Claims -> ClaimStates]
        /\ forcedCache' \subseteq Claims
    BY <1>13 DEF Restart
  <2>3. disturbances' \in 0..MaxDisturbances
    BY <1>13, ConstantsAssumption DEF Restart
  <2>4. /\ hcpCache' \in HCPs /\ h' \in HCPs /\ capiCache' \in CAPIStates
        /\ hcp' \in HCPs /\ capi' \in CAPIStates
    BY <1>13, NoHCPType DEF Restart, DropWork
  <2>5. QED
    BY <1>13, <2>1, <2>2, <2>3, <2>4 DEF Restart, DropWork, PCs
<1>14. CASE SyncHCP
  BY <1>14 DEF SyncHCP
<1>15. CASE SyncCAPI
  BY <1>15 DEF SyncCAPI
<1>16. CASE SyncPools
  BY <1>16 DEF SyncPools
<1>17. CASE SyncClaims
  BY <1>17 DEF SyncClaims
<1>18. CASE CAPIStep
  BY <1>18 DEF CAPIStep, CAPIStates
<1>19. CASE DeleteHCP
  BY <1>19, WriteType DEF DeleteHCP, HCPs, Phases
<1>20. CASE FallbackRemoval
  BY <1>20, PatchType DEF FallbackRemoval
<1>21. CASE OtherHCPWrite
  <2>1. PICK fs : /\ PatchFinalizers(fs)
                  /\ \/ fs \subseteq hcp.finalizers
                     \/ \E f \in Finalizers : fs = hcp.finalizers \union {f}
    <3>1. CASE \E f \in OtherFinalizers \ hcp.finalizers :
                 /\ hcp.phase = "present"
                 /\ PatchFinalizers(hcp.finalizers \union {f})
      BY <3>1 DEF Finalizers
    <3>2. CASE \E f \in OtherFinalizers \intersect hcp.finalizers :
                 PatchFinalizers(hcp.finalizers \ {f})
      BY <3>2
    <3>3. CASE PatchFinalizers(hcp.finalizers)
      BY <3>3
    <3>4. QED
      BY <1>21, <3>1, <3>2, <3>3 DEF OtherHCPWrite
  <2>2. hcp' \in HCPs
    BY <2>1, PatchType
  <2>3. disturbances' \in 0..MaxDisturbances
    BY <1>21, ConstantsAssumption DEF OtherHCPWrite
  <2>4. QED
    BY <1>21, <2>2, <2>3 DEF OtherHCPWrite
<1>22. ASSUME NEW p \in Pools, CreatePool(p)
      PROVE  TypeOK'
  BY <1>22 DEF CreatePool, PoolStates
<1>23. ASSUME NEW p \in Pools, RetirePool(p)
      PROVE  TypeOK'
  BY <1>23 DEF RetirePool, PoolStates
<1>24. ASSUME NEW c \in Claims, CreateClaim(c)
      PROVE  TypeOK'
  BY <1>24 DEF CreateClaim, ClaimStates
<1>25. ASSUME NEW c \in Claims, RetireClaim(c)
      PROVE  TypeOK'
  BY <1>25 DEF RetireClaim, ClaimStates
<1>26. ASSUME NEW c \in Claims, FinalizeClaim(c)
      PROVE  TypeOK'
  BY <1>26 DEF FinalizeClaim, ClaimStates
<1>27. CASE UNCHANGED vars
  BY <1>27
<1>28. QED
  BY <1>1, <1>2, <1>3, <1>4, <1>5, <1>6, <1>7, <1>8, <1>9, <1>10, <1>11, <1>12,
     <1>13, <1>14, <1>15, <1>16, <1>17, <1>18, <1>19, <1>20, <1>21, <1>22, <1>23, <1>24,
     <1>25, <1>26, <1>27
  DEF Next, Controller, Informers, HyperShift, HostedCluster

(* The initial states are well typed.                                      *)
LEMMA TypeInit == Init => TypeOK
<1> SUFFICES ASSUME Init PROVE TypeOK
  OBVIOUS
<1>1. hcp \in HCPs /\ hcpCache \in HCPs /\ h \in HCPs
  <2>1. hcp \in HCPs
    BY DEF Init, HCPs, Finalizers, Phases
  <2>2. QED
    BY <2>1, NoHCPType DEF Init
<1>2. /\ capi \in CAPIStates /\ capiCache \in CAPIStates
      /\ pool \in [Pools -> PoolStates] /\ poolCache \in [Pools -> PoolStates]
      /\ claim \in [Claims -> ClaimStates] /\ claimCache \in [Claims -> ClaimStates]
  BY DEF Init, CAPIStates, PoolStates, ClaimStates
<1>3. queued \in BOOLEAN /\ timer \in BOOLEAN /\ released \in BOOLEAN
  BY DEF Init
<1>4. /\ pc \in PCs /\ disturbances \in 0..MaxDisturbances
      /\ forced = {} /\ forcedCache = {} /\ listed = {}
      /\ poolTodo = {} /\ claimTodo = {} /\ forceTodo = {}
  BY ConstantsAssumption DEF Init, PCs
<1>5. QED
  BY <1>1, <1>2, <1>3, <1>4 DEF TypeOK

(* Every variable keeps its type, and a reconcile's locals live only in    *)
(* the loop that uses them: no error path leaves them behind.              *)
THEOREM TypeCorrect == Spec => []TypeOK
BY TypeInit, TypeInductive, PTL DEF Spec

-----------------------------------------------------------------------------
(***************************************************************************)
(* What the API servers and the caches do in a step, whoever takes it.     *)
(***************************************************************************)
USE DEF DropWork, Done, Failed, RequeueAfter, Goto, AfterCleanup

(* A step leaves the HCP alone or gives it the next resourceVersion, and   *)
(* a deletionTimestamp is for ever.                                        *)
LEMMA HCPStep ==
    TypeOK /\ [Next]_vars =>
        \/ hcp' = hcp
        \/ hcp'.rv = hcp.rv + 1 /\ (hcp.phase # "present" => hcp'.phase # "present")
<1> SUFFICES ASSUME TypeOK, [Next]_vars, hcp' # hcp
             PROVE  hcp'.rv = hcp.rv + 1 /\ (hcp.phase # "present" => hcp'.phase # "present")
  OBVIOUS
<1>1. AddFinalizer \/ RemoveFinalizer \/ DeleteHCP \/ FallbackRemoval \/ OtherHCPWrite
  BY DEF Next, Controller, Informers, HyperShift, HostedCluster, Reconcile, ListNodePools,
         NodePoolsDeleted, ListNodeClaims, NodeClaimsDeleted, DeleteNodePool,
         DeleteNodeClaim, ForceNodeClaim, TimerFires, APIError, Restart, SyncHCP,
         SyncCAPI, SyncPools, SyncClaims, CAPIStep, CreatePool, RetirePool,
         CreateClaim, RetireClaim, FinalizeClaim
<1>2. (\E fs : PatchFinalizers(fs)) \/ DeleteHCP
  BY <1>1 DEF AddFinalizer, RemoveFinalizer, FallbackRemoval, OtherHCPWrite
<1>3. QED
  BY <1>2 DEF PatchFinalizers, DeleteHCP, WriteHCP

(* The CAPI Cluster is never undeleted.                                    *)
LEMMA CAPIMonotone ==
    TypeOK /\ [Next]_vars =>
        (capi \in {"deleting", "gone"} => capi' \in {"deleting", "gone"})
<1> SUFFICES ASSUME TypeOK, [Next]_vars, capi' # capi PROVE CAPIStep
  BY DEF CAPIStep
<1> QED
  BY DEF Next, Controller, Informers, HyperShift, HostedCluster, Reconcile, AddFinalizer,
         ListNodePools, NodePoolsDeleted, ListNodeClaims, NodeClaimsDeleted,
         DeleteNodePool, DeleteNodeClaim, ForceNodeClaim, RemoveFinalizer, TimerFires,
         APIError, Restart, SyncHCP, SyncCAPI, SyncPools, SyncClaims, DeleteHCP,
         FallbackRemoval, OtherHCPWrite, CreatePool, RetirePool, CreateClaim,
         RetireClaim, FinalizeClaim

(* NodeClaims only move forward.                                           *)
LEMMA ClaimMonotone ==
    TypeOK /\ [Next]_vars =>
        \A c \in Claims :
            /\ claim[c] # "unborn" => claim'[c] # "unborn"
            /\ claim[c] \in {"deleting", "gone"} => claim'[c] \in {"deleting", "gone"}
            /\ claim[c] = "gone" => claim'[c] = "gone"
<1> SUFFICES ASSUME TypeOK, [Next]_vars, claim' # claim
             PROVE  \E c \in Claims :
                        DeleteNodeClaim(c) \/ CreateClaim(c) \/ RetireClaim(c) \/ FinalizeClaim(c)
  BY DEF TypeOK, DeleteNodeClaim, CreateClaim, RetireClaim, FinalizeClaim
<1> QED
  BY DEF Next, Controller, Informers, HyperShift, HostedCluster, Reconcile, AddFinalizer,
         ListNodePools, NodePoolsDeleted, ListNodeClaims, NodeClaimsDeleted,
         DeleteNodePool, ForceNodeClaim, RemoveFinalizer, TimerFires, APIError, Restart,
         SyncHCP, SyncCAPI, SyncPools, SyncClaims, CAPIStep, DeleteHCP, FallbackRemoval,
         OtherHCPWrite, CreatePool, RetirePool

(* A cache is left alone or brought up to date, and a step of the          *)
(* controller's caches does not change the server.                         *)
LEMMA CacheStep ==
    [Next]_vars =>
        /\ hcpCache' = hcpCache \/ (hcpCache' = hcp /\ hcp' = hcp)
        /\ capiCache' = capiCache \/ (capiCache' = capi /\ capi' = capi)
        /\ claimCache' = claimCache \/ (claimCache' = claim /\ claim' = claim)
<1> SUFFICES ASSUME [Next]_vars
             PROVE  \/ UNCHANGED cacheVars
                    \/ Restart \/ SyncHCP \/ SyncCAPI \/ SyncPools \/ SyncClaims
  BY DEF Restart, SyncHCP, SyncCAPI, SyncPools, SyncClaims
<1> QED
  BY DEF Next, Controller, Informers, HyperShift, HostedCluster, Reconcile, AddFinalizer,
         ListNodePools, NodePoolsDeleted, ListNodeClaims, NodeClaimsDeleted,
         DeleteNodePool, DeleteNodeClaim, ForceNodeClaim, RemoveFinalizer, TimerFires,
         APIError, CAPIStep, DeleteHCP, FallbackRemoval, OtherHCPWrite, CreatePool,
         RetirePool, CreateClaim, RetireClaim, FinalizeClaim

(* A reconcile in progress holds the HCP it started from.                  *)
LEMMA SnapshotStep ==
    [Next]_vars /\ pc' # "idle" =>
        (pc # "idle" /\ h' = h) \/ (h' = hcpCache /\ hcp' = hcp)
<1> SUFFICES ASSUME [Next]_vars, pc' # "idle"
             PROVE  (pc # "idle" /\ h' = h) \/ (h' = hcpCache /\ hcp' = hcp)
  OBVIOUS
<1> QED
  BY DEF Next, Controller, Informers, HyperShift, HostedCluster, Reconcile, AddFinalizer,
         ListNodePools, NodePoolsDeleted, ListNodeClaims, NodeClaimsDeleted,
         DeleteNodePool, DeleteNodeClaim, ForceNodeClaim, RemoveFinalizer, TimerFires,
         APIError, Restart, SyncHCP, SyncCAPI, SyncPools, SyncClaims, CAPIStep, DeleteHCP,
         FallbackRemoval, OtherHCPWrite, CreatePool, RetirePool, CreateClaim,
         RetireClaim, FinalizeClaim

-----------------------------------------------------------------------------
(***************************************************************************)
(* The parts of the inductive invariant.                                   *)
(***************************************************************************)
LEMMA HCPBehindInductive == TypeOK /\ HCPBehind /\ [Next]_vars => HCPBehind'
<1> SUFFICES ASSUME TypeOK, HCPBehind, [Next]_vars PROVE HCPBehind'
  OBVIOUS
<1>1. hcp.rv \in Nat /\ hcpCache.rv \in Nat /\ h.rv \in Nat
  BY DEF TypeOK, HCPs
<1>2. hcp' = hcp \/ hcp'.rv = hcp.rv + 1
  BY HCPStep
<1>3. ASSUME NEW old, old.rv \in Nat, Outdated(old) PROVE Outdated(old)'
  BY <1>1, <1>2, <1>3 DEF Outdated
<1>4. Outdated(hcpCache)'
  BY <1>1, <1>3, CacheStep DEF HCPBehind, Outdated
<1>5. (hcpCache.phase # "present" => hcp.phase # "present")'
  BY HCPStep, CacheStep DEF HCPBehind
<1>6. (capiCache \in {"deleting", "gone"} => capi \in {"deleting", "gone"})'
  BY CAPIMonotone, CacheStep DEF HCPBehind
<1>7. (pc # "idle" => Outdated(h))'
  BY <1>1, <1>3, SnapshotStep DEF HCPBehind, Outdated
<1>8. QED
  BY <1>4, <1>5, <1>6, <1>7 DEF HCPBehind

(* No step brings a NodeClaim in the cache ahead of the server.            *)
LEMMA ClaimsBehindInductive ==
    TypeOK /\ ClaimsBehind /\ [Next]_vars => ClaimsBehind'
BY ClaimMonotone, CacheStep DEF ClaimsBehind

(* Only a reconcile whose caches show the teardown starts cleaning, and    *)
(* then the teardown has really been requested.                            *)
LEMMA TeardownInductive ==
    TypeOK /\ HCPBehind /\ TeardownOnly /\ [Next]_vars => TeardownOnly'
<1> SUFFICES ASSUME TypeOK, HCPBehind, TeardownOnly, [Next]_vars, Cleaning'
             PROVE  TeardownRequested'
  BY DEF TeardownOnly
<1>1. TeardownRequested => TeardownRequested'
  BY HCPStep, CAPIMonotone DEF TeardownRequested
<1>2. CASE Reconcile
  <2>1. IsClusterDeleting(hcpCache, capiCache)
    BY <1>2 DEF Reconcile, AfterRead, Cleaning
  <2>2. TeardownRequested
    BY <2>1 DEF IsClusterDeleting, HCPBehind, TeardownRequested
  <2>3. QED
    BY <1>1, <2>2
<1>3. CASE ~Reconcile
  <2>1. Cleaning
    BY <1>3 DEF Cleaning, Next, Controller, Informers, HyperShift, HostedCluster,
         AddFinalizer, ListNodePools, NodePoolsDeleted, ListNodeClaims,
         NodeClaimsDeleted, DeleteNodePool, DeleteNodeClaim, ForceNodeClaim,
         RemoveFinalizer, TimerFires, APIError, Restart, SyncHCP, SyncCAPI, SyncPools,
         SyncClaims, CAPIStep, DeleteHCP, FallbackRemoval, OtherHCPWrite, CreatePool,
         RetirePool, CreateClaim, RetireClaim, FinalizeClaim
  <2>2. QED
    BY <1>1, <2>1 DEF TeardownOnly
<1>4. QED
  BY <1>2, <1>3

(* Only a reconcile of an HCP that is being deleted comes to the removal   *)
(* of the finalizer.                                                       *)
LEMMA ReleasesInductive == ReleasesDeleting /\ [Next]_vars => ReleasesDeleting'
<1> SUFFICES ASSUME ReleasesDeleting, [Next]_vars, pc' = "removeFinalizer"
             PROVE  h'.phase = "deleting"
  BY DEF ReleasesDeleting
<1>1. h' = h /\ (pc = "removeFinalizer" \/ h.phase = "deleting")
  BY DEF Next, Controller, Informers, HyperShift, HostedCluster, Reconcile, AfterRead,
         AddFinalizer, ListNodePools, NodePoolsDeleted, ListNodeClaims,
         NodeClaimsDeleted, DeleteNodePool, DeleteNodeClaim, ForceNodeClaim,
         RemoveFinalizer, TimerFires, APIError, Restart, SyncHCP, SyncCAPI, SyncPools,
         SyncClaims, CAPIStep, DeleteHCP, FallbackRemoval, OtherHCPWrite, CreatePool,
         RetirePool, CreateClaim, RetireClaim, FinalizeClaim
<1>2. QED
  BY <1>1 DEF ReleasesDeleting

(* Only NodeClaims listed with a deletionTimestamp are annotated.          *)
LEMMA ForceInductive ==
    TypeOK /\ ClaimsBehind /\ ForceInv /\ ForcedOnlyDeleting /\ [Next]_vars
        => ForceInv' /\ ForcedOnlyDeleting'
<1> SUFFICES ASSUME TypeOK, ClaimsBehind, ForceInv, ForcedOnlyDeleting, [Next]_vars
             PROVE  ForceInv' /\ ForcedOnlyDeleting'
  OBVIOUS
<1>1. CASE ListNodeClaims
  <2>1. claim' = claim /\ forced' = forced
    BY <1>1 DEF ListNodeClaims
  <2>2. forceTodo' = Overdue \/ forceTodo' = forceTodo \/ forceTodo' = {}
    BY <1>1 DEF ListNodeClaims
  <2>3. \A c \in Overdue : claim[c] \in {"deleting", "gone"}
    BY DEF Overdue, ListedClaims, ClaimsBehind
  <2>4. QED
    BY <2>1, <2>2, <2>3 DEF ForceInv, ForcedOnlyDeleting
<1>2. CASE ~ListNodeClaims
  <2>1. /\ forceTodo' \subseteq forceTodo
        /\ forced' \subseteq forced \union forceTodo
    BY <1>2 DEF Next, Controller, Informers, HyperShift, HostedCluster, Reconcile,
         AddFinalizer, ListNodePools, NodePoolsDeleted, NodeClaimsDeleted,
         DeleteNodePool, DeleteNodeClaim, ForceNodeClaim, RemoveFinalizer, TimerFires,
         APIError, Restart, SyncHCP, SyncCAPI, SyncPools, SyncClaims, CAPIStep, DeleteHCP,
         FallbackRemoval, OtherHCPWrite, CreatePool, RetirePool, CreateClaim,
         RetireClaim, FinalizeClaim
  <2>2. QED
    BY <2>1, ClaimMonotone DEF TypeOK, ForceInv, ForcedOnlyDeleting
<1>3. QED
  BY <1>1, <1>2

(* What a reconcile has listed stays known to every later List, so an      *)
(* empty List means that each of these NodeClaims is gone.                 *)
LEMMA ListedInductive ==
    TypeOK /\ ClaimsBehind /\ ListedInv /\ [Next]_vars => ListedInv'
<1> SUFFICES ASSUME TypeOK, ClaimsBehind, ListedInv, [Next]_vars PROVE ListedInv'
  OBVIOUS
<1>1. \A c \in Claims : ListedClaims[c] # "unborn" => ListedClaims'[c] # "unborn"
  BY ClaimMonotone, CacheStep DEF ListedClaims, ClaimsBehind
<1>2. \A c \in Claims : ListedClaims[c] = "gone" => claim[c] = "gone"
  BY DEF ListedClaims, ClaimsBehind
<1>3. ListedClaims \in [Claims -> ClaimStates]
  BY DEF ListedClaims, TypeOK
<1>4. CASE ListNodeClaims
  <2>1. claim' = claim /\ listed' = listed \union Existing(ListedClaims)
    BY <1>4 DEF ListNodeClaims
  <2>2. \A c \in listed' : ListedClaims'[c] # "unborn"
    BY <1>1, <2>1 DEF Existing, ListedInv, TypeOK
  <2>3. ASSUME pc' = "removeFinalizer", NEW c \in listed' PROVE claim'[c] = "gone"
    <3>1. Existing(ListedClaims) = {}
      BY <1>4, <2>3 DEF ListNodeClaims
    <3>2. c \in listed /\ c \in Claims
      BY <2>1, <2>3, <3>1 DEF TypeOK
    <3>3. ListedClaims[c] = "gone"
      BY <1>3, <3>1, <3>2 DEF Existing, ClaimStates, ListedInv
    <3>4. QED
      BY <1>2, <2>1, <3>2, <3>3
  <2>4. QED
    BY <2>2, <2>3 DEF ListedInv
<1>5. CASE ~ListNodeClaims
  <2>1. listed' = listed /\ (pc' = "removeFinalizer" => pc = "removeFinalizer")
    BY <1>5 DEF Next, Controller, Informers, HyperShift, HostedCluster, Reconcile, AfterRead,
         AddFinalizer, ListNodePools, NodePoolsDeleted, NodeClaimsDeleted,
         DeleteNodePool, DeleteNodeClaim, ForceNodeClaim, RemoveFinalizer, TimerFires,
         APIError, Restart, SyncHCP, SyncCAPI, SyncPools, SyncClaims, CAPIStep, DeleteHCP,
         FallbackRemoval, OtherHCPWrite, CreatePool, RetirePool, CreateClaim,
         RetireClaim, FinalizeClaim
  <2>2. QED
    BY <1>1, <2>1, ClaimMonotone DEF ListedInv, TypeOK
<1>6. QED
  BY <1>4, <1>5

(* IInv holds in every reachable state, for every set of NodePools and     *)
(* NodeClaims, with lagging or fresh caches.                               *)
THEOREM Invariance == Spec => []IInv
<1>1. Init => IInv
  <2> SUFFICES ASSUME Init PROVE IInv
    OBVIOUS
  <2>1. TypeOK
    BY TypeInit
  <2>2. HCPBehind
    BY <2>1 DEF Init, HCPBehind, Outdated, TypeOK, HCPs
  <2>3. ClaimsBehind
    BY DEF Init, ClaimsBehind
  <2>4. /\ ReleasesDeleting /\ TeardownOnly
        /\ ForceInv /\ ForcedOnlyDeleting /\ ListedInv
    BY DEF Init, ReleasesDeleting, TeardownOnly, Cleaning, ForceInv, ForcedOnlyDeleting, ListedInv
  <2>5. QED
    BY <2>1, <2>2, <2>3, <2>4 DEF IInv
<1>2. IInv /\ [Next]_vars => IInv'
  BY TypeInductive, HCPBehindInductive, ClaimsBehindInductive, ReleasesInductive,
     TeardownInductive, ForceInductive, ListedInductive DEF IInv
<1>3. QED
  BY <1>1, <1>2, PTL DEF Spec

-----------------------------------------------------------------------------
(***************************************************************************)
(* The results.                                                            *)
(***************************************************************************)

(* The operator deletes NodePools and NodeClaims only if HyperShift has    *)
(* requested the teardown (IsClusterDeleting on cached objects is sound).  *)
THEOREM TeardownOnlyCorrect == Spec => []TeardownOnly
BY Invariance, PTL DEF IInv

(* A live HCP keeps the finalizer, also when the nodes are cleaned up for  *)
(* the CAPI Cluster alone: if the lock holds at its removal, the HCP that  *)
(* was read as deleting is the one on the server.                          *)
THEOREM FinalizerStaysCorrect == Spec => FinalizerStays
<1> DEFINE Dropped == karpenterFinalizer \in hcp.finalizers
                        /\ karpenterFinalizer \notin hcp'.finalizers
<1>1. IInv /\ [Next]_vars => [Dropped => hcp.phase = "deleting"]_vars
  <2> SUFFICES ASSUME IInv, [Next]_vars, Dropped PROVE hcp.phase = "deleting"
    OBVIOUS
  <2>1. AddFinalizer \/ RemoveFinalizer \/ DeleteHCP \/ FallbackRemoval \/ OtherHCPWrite
    BY DEF Next, Controller, Informers, HyperShift, HostedCluster, Reconcile, ListNodePools,
         NodePoolsDeleted, ListNodeClaims, NodeClaimsDeleted, DeleteNodePool,
         DeleteNodeClaim, ForceNodeClaim, TimerFires, APIError, Restart, SyncHCP,
         SyncCAPI, SyncPools, SyncClaims, CAPIStep, CreatePool, RetirePool,
         CreateClaim, RetireClaim, FinalizeClaim
  <2>2. CASE RemoveFinalizer
    <3>1. pc = "removeFinalizer" /\ LockHolds
      BY <2>2 DEF RemoveFinalizer
    <3>2. h = hcp
      BY <3>1 DEF LockHolds, IInv, HCPBehind, Outdated
    <3>3. QED
      BY <3>1, <3>2 DEF IInv, ReleasesDeleting
  <2>3. CASE AddFinalizer
    BY <2>3 DEF AddFinalizer, PatchFinalizers, WriteHCP
  <2>4. CASE DeleteHCP \/ FallbackRemoval
    BY <2>4 DEF DeleteHCP, FallbackRemoval, WriteHCP
  <2>5. CASE OtherHCPWrite
    BY <2>5, ConstantsAssumption DEF OtherHCPWrite, PatchFinalizers, WriteHCP
  <2>6. QED
    BY <2>1, <2>2, <2>3, <2>4, <2>5
<1>2. QED
  BY <1>1, Invariance, PTL DEF Spec, FinalizerStays

(* handleForcefulNodeClaimDeletion never annotates a NodeClaim that nobody *)
(* deleted, although it works on cached NodeClaims.                        *)
THEOREM ForcedCorrect == Spec => []ForcedOnlyDeleting
BY Invariance, PTL DEF IInv

(* The finalizer goes only after every NodeClaim a reconcile ever listed   *)
(* is gone, however the caches lag and whatever is created meanwhile.      *)
THEOREM NoListedClaimAbandonedCorrect == Spec => NoListedClaimAbandoned
<1>1. IInv /\ [Next]_vars =>
        [released' /\ ~released => \A c \in listed : claim[c] = "gone"]_vars
  <2> SUFFICES ASSUME IInv, [Next]_vars, released', ~released
               PROVE  \A c \in listed : claim[c] = "gone"
    OBVIOUS
  <2>1. pc = "removeFinalizer"
    BY DEF Next, Controller, Informers, HyperShift, HostedCluster, Reconcile,
         AddFinalizer, ListNodePools, NodePoolsDeleted, ListNodeClaims,
         NodeClaimsDeleted, DeleteNodePool, DeleteNodeClaim, ForceNodeClaim,
         RemoveFinalizer, TimerFires, APIError, Restart, SyncHCP, SyncCAPI, SyncPools,
         SyncClaims, CAPIStep, DeleteHCP, FallbackRemoval, OtherHCPWrite, CreatePool,
         RetirePool, CreateClaim, RetireClaim, FinalizeClaim
  <2>2. QED
    BY <2>1 DEF IInv, ListedInv
<1>2. QED
  BY <1>1, Invariance, PTL DEF Spec, NoListedClaimAbandoned

(* The operator's merge patches keep the finalizers of other controllers:  *)
(* the optimistic lock makes the patched list the current one.             *)
THEOREM OtherFinalizersPreservedCorrect == Spec => OtherFinalizersPreserved
<1>1. IInv /\ [Next]_vars =>
        [pc' # pc => hcp'.finalizers \ {karpenterFinalizer}
                       = hcp.finalizers \ {karpenterFinalizer}]_vars
  <2> SUFFICES ASSUME IInv, [Next]_vars, pc' # pc
               PROVE  hcp'.finalizers \ {karpenterFinalizer}
                        = hcp.finalizers \ {karpenterFinalizer}
    OBVIOUS
  <2>1. hcp' = hcp \/ AddFinalizer \/ RemoveFinalizer
    BY DEF Next, Controller, Informers, HyperShift, HostedCluster, Reconcile,
         ListNodePools, NodePoolsDeleted, ListNodeClaims, NodeClaimsDeleted,
         DeleteNodePool, DeleteNodeClaim, ForceNodeClaim, TimerFires, APIError, Restart,
         SyncHCP, SyncCAPI, SyncPools, SyncClaims, CAPIStep, DeleteHCP, FallbackRemoval,
         OtherHCPWrite, CreatePool, RetirePool, CreateClaim, RetireClaim, FinalizeClaim
  <2>2. ASSUME AddFinalizer \/ RemoveFinalizer, hcp' # hcp PROVE h = hcp
    <3>1. pc # "idle" /\ LockHolds
      BY <2>2 DEF AddFinalizer, RemoveFinalizer
    <3>2. QED
      BY <3>1 DEF LockHolds, IInv, HCPBehind, Outdated
  <2>3. CASE AddFinalizer /\ hcp' # hcp
    <3>1. PatchFinalizers(h.finalizers \union {karpenterFinalizer}) /\ h = hcp
      BY <2>2, <2>3 DEF AddFinalizer
    <3>2. QED
      BY <3>1 DEF PatchFinalizers, WriteHCP
  <2>4. CASE RemoveFinalizer /\ hcp' # hcp
    <3>1. PatchFinalizers(h.finalizers \ {karpenterFinalizer}) /\ h = hcp
      BY <2>2, <2>4 DEF RemoveFinalizer
    <3>2. QED
      BY <3>1 DEF PatchFinalizers, WriteHCP
  <2>5. QED
    BY <2>1, <2>3, <2>4
<1>2. QED
  BY <1>1, Invariance, PTL DEF Spec, OtherFinalizersPreserved

-----------------------------------------------------------------------------
(***************************************************************************)
(* Fresh lists and no late creations.                                      *)
(***************************************************************************)
(* Once the teardown is requested, nobody creates a NodePool.              *)
LEMMA NoPoolsStay ==
    ASSUME ~LateCreates, TeardownRequested, \A p \in Pools : pool[p] = "absent", [Next]_vars
    PROVE  \A p \in Pools : pool'[p] = "absent"
<1>1. pool' = pool \/ \E p \in Pools : DeleteNodePool(p) \/ CreatePool(p) \/ RetirePool(p)
  BY DEF Next, Controller, Informers, HyperShift, HostedCluster, Reconcile,
     AddFinalizer, ListNodePools, NodePoolsDeleted, ListNodeClaims,
     NodeClaimsDeleted, DeleteNodeClaim, ForceNodeClaim, RemoveFinalizer, TimerFires,
     APIError, Restart, SyncHCP, SyncCAPI, SyncPools, SyncClaims, CAPIStep, DeleteHCP,
     FallbackRemoval, OtherHCPWrite, CreateClaim, RetireClaim, FinalizeClaim
<1>2. \A p \in Pools : ~CreatePool(p)
  BY DEF CreatePool
<1>3. \A p \in Pools : DeleteNodePool(p) \/ RetirePool(p) => pool' = pool
  BY DEF DeleteNodePool, RetirePool
<1>4. QED
  BY <1>1, <1>2, <1>3

(* And once nothing is left, nothing comes back.                           *)
LEMMA NothingLeftStays ==
    ASSUME ~LateCreates, TeardownRequested, NothingLeft, [Next]_vars
    PROVE  NothingLeft'
<1>1. \A c \in Claims : ~CreateClaim(c)
  BY DEF CreateClaim, NothingLeft
<1>2. claim' = claim \/ \E c \in Claims :
          DeleteNodeClaim(c) \/ CreateClaim(c) \/ RetireClaim(c) \/ FinalizeClaim(c)
  BY DEF Next, Controller, Informers, HyperShift, HostedCluster, Reconcile,
     AddFinalizer, ListNodePools, NodePoolsDeleted, ListNodeClaims,
     NodeClaimsDeleted, DeleteNodePool, ForceNodeClaim, RemoveFinalizer, TimerFires,
     APIError, Restart, SyncHCP, SyncCAPI, SyncPools, SyncClaims, CAPIStep, DeleteHCP,
     FallbackRemoval, OtherHCPWrite, CreatePool, RetirePool
<1>3. \A c \in Claims : claim[c] \notin {"live", "deleting"}
  BY DEF NothingLeft, Existing
<1>4. claim' = claim
  BY <1>1, <1>2, <1>3 DEF DeleteNodeClaim, RetireClaim, FinalizeClaim
<1>5. QED
  BY <1>4, NoPoolsStay DEF NothingLeft, Existing

(* An empty list is what it says, and stays so until the release.          *)
LEMMA CleanInductive ==
    ASSUME FreshLists, ~LateCreates, IInv, CleanInv, [Next]_vars
    PROVE  CleanInv'
<1> DEFINE NoPools == \A p \in Pools : pool[p] = "absent"
<1>1. TeardownRequested => TeardownRequested'
  BY HCPStep, CAPIMonotone DEF TeardownRequested, IInv
<1>2. TeardownRequested /\ NoPools => NoPools'
  BY NoPoolsStay
<1>3. TeardownRequested /\ NothingLeft => NothingLeft'
  BY NothingLeftStays
<1>4. Cleaning => TeardownRequested
  BY DEF IInv, TeardownOnly
<1>5. CASE ListNodePools
  <2>1. pc = "listPools" /\ pool' = pool /\ claim' = claim /\ released' = released
    BY <1>5 DEF ListNodePools
  <2>2. pc' = "deletePools" \/ (pc' = "listClaims" /\ NoPools)
    BY <1>5 DEF ListNodePools, NoPoolsListed, ListedPools
  <2>3. QED
    BY <1>1, <2>1, <2>2 DEF CleanInv, NothingLeft, Existing
<1>6. CASE ListNodeClaims
  <2>1. /\ pc = "listClaims" /\ pc' # "listClaims"
        /\ pool' = pool /\ claim' = claim /\ released' = released
    BY <1>6 DEF ListNodeClaims
  <2>2. pc' = "removeFinalizer" => Existing(claim) = {}
    BY <1>6 DEF ListNodeClaims, ListedClaims
  <2>3. QED
    BY <1>1, <2>1, <2>2 DEF CleanInv, NothingLeft, Existing
<1>7. CASE RemoveFinalizer
  <2>1. pc = "removeFinalizer" /\ pc' = "idle"
    BY <1>7 DEF RemoveFinalizer
  <2>2. NothingLeft /\ TeardownRequested
    BY <1>4, <2>1 DEF CleanInv, Cleaning
  <2>3. QED
    BY <1>1, <1>3, <2>1, <2>2 DEF CleanInv
<1>8. CASE ~ListNodePools /\ ~ListNodeClaims /\ ~RemoveFinalizer
  <2>1. /\ released' = released
        /\ pc' \in {"listClaims", "deleteClaims", "removeFinalizer"} => pc' = pc
    BY <1>8 DEF Next, Controller, Informers, HyperShift, HostedCluster, Reconcile, AfterRead,
         AddFinalizer, NodePoolsDeleted, NodeClaimsDeleted, DeleteNodePool,
         DeleteNodeClaim, ForceNodeClaim, TimerFires, APIError, Restart, SyncHCP,
         SyncCAPI, SyncPools, SyncClaims, CAPIStep, DeleteHCP, FallbackRemoval,
         OtherHCPWrite, CreatePool, RetirePool, CreateClaim, RetireClaim, FinalizeClaim
  <2>2. QED
    BY <1>1, <1>2, <1>3, <1>4, <2>1 DEF CleanInv, Cleaning
<1>9. QED
  BY <1>5, <1>6, <1>7, <1>8

(* If the lists do not lag and nothing is created once the teardown was    *)
(* requested, the HCP is only let go when all NodePools and NodeClaims     *)
(* are gone: deleting NodePools before looking at NodeClaims is enough.    *)
THEOREM ReleasedMeansCleanedUpCorrect ==
    ASSUME FreshLists, ~LateCreates
    PROVE  Spec => []ReleasedMeansCleanedUp
<1>1. Init => CleanInv
  BY DEF Init, CleanInv
<1>2. IInv /\ CleanInv /\ [Next]_vars => CleanInv'
  BY CleanInductive
<1>3. CleanInv => ReleasedMeansCleanedUp
  BY DEF CleanInv, ReleasedMeansCleanedUp
<1>4. QED
  BY <1>1, <1>2, <1>3, Invariance, PTL DEF Spec

-----------------------------------------------------------------------------
(***************************************************************************)
(* The refinement of Teardown.                                             *)
(***************************************************************************)

(* The state of Teardown, as ImplementsTeardown computes it.               *)
PoolsBar == {p \in Pools : pool[p] # "absent"}
ClaimsBar == Existing(claim)

(* A step moves one part of the abstract state at most: a NodePool, a      *)
(* NodeClaim, the release together with the finalizer, or the request.     *)
LEMMA OnePartMoves ==
    [Next]_vars =>
        \/ /\ UNCHANGED <<hcp, capi, claim, released>>
           /\ \E p \in Pools : DeleteNodePool(p) \/ CreatePool(p) \/ RetirePool(p)
        \/ /\ UNCHANGED <<hcp, capi, pool, released>>
           /\ \E c \in Claims :
                DeleteNodeClaim(c) \/ CreateClaim(c) \/ RetireClaim(c) \/ FinalizeClaim(c)
        \/ RemoveFinalizer
        \/ UNCHANGED <<pool, claim, released>>
BY DEF Next, Controller, Informers, HyperShift, HostedCluster, Reconcile, AddFinalizer,
       ListNodePools, NodePoolsDeleted, ListNodeClaims, NodeClaimsDeleted,
       DeleteNodePool, DeleteNodeClaim, ForceNodeClaim, TimerFires, APIError, Restart,
       SyncHCP, SyncCAPI, SyncPools, SyncClaims, CAPIStep, DeleteHCP, FallbackRemoval,
       OtherHCPWrite, CreatePool, RetirePool, CreateClaim, RetireClaim, FinalizeClaim

(* deleteNodePools, the users and the garbage collector create a NodePool  *)
(* before the request, remove one, or leave the NodePools as they are.     *)
LEMMA PoolStepRefines ==
    ASSUME TypeOK, ~LateCreates, NEW p \in Pools,
           DeleteNodePool(p) \/ CreatePool(p) \/ RetirePool(p)
    PROVE  \/ PoolsBar' = PoolsBar
           \/ PoolsBar' = PoolsBar \union {p} /\ ~TeardownRequested
           \/ PoolsBar' = PoolsBar \ {p}
<1>1. CASE pool' = pool
  BY <1>1 DEF PoolsBar
<1>2. CASE CreatePool(p)
  <2>1. ~TeardownRequested /\ pool' = [pool EXCEPT ![p] = "live"]
    BY <1>2 DEF CreatePool
  <2>2. PoolsBar' = PoolsBar \union {p}
    BY <2>1 DEF PoolsBar, TypeOK
  <2>3. QED
    BY <2>1, <2>2
<1>3. CASE pool' = [pool EXCEPT ![p] = "absent"]
  BY <1>3 DEF PoolsBar, TypeOK
<1>4. CASE pool[p] = "live" /\ pool' = [pool EXCEPT ![p] = "deleting"]
  BY <1>4 DEF PoolsBar, TypeOK
<1>5. QED
  BY <1>1, <1>2, <1>3, <1>4 DEF DeleteNodePool, RetirePool

(* A NodeClaim is created where there is a NodePool, goes, or stays.       *)
LEMMA ClaimStepRefines ==
    ASSUME TypeOK, ~LateCreates, NEW c \in Claims,
           DeleteNodeClaim(c) \/ CreateClaim(c) \/ RetireClaim(c) \/ FinalizeClaim(c)
    PROVE  \/ ClaimsBar' = ClaimsBar
           \/ ClaimsBar' = ClaimsBar \union {c} /\ PoolsBar # {}
           \/ ClaimsBar' = ClaimsBar \ {c}
<1>1. CASE claim' = claim
  BY <1>1 DEF ClaimsBar, Existing
<1>2. CASE CreateClaim(c)
  <2>1. claim' = [claim EXCEPT ![c] = "live"] /\ \E p \in Pools : pool[p] = "live"
    BY <1>2 DEF CreateClaim
  <2>2. ClaimsBar' = ClaimsBar \union {c}
    BY <2>1 DEF ClaimsBar, Existing, TypeOK
  <2>3. PoolsBar # {}
    BY <2>1 DEF PoolsBar
  <2>4. QED
    BY <2>2, <2>3
<1>3. CASE claim' = [claim EXCEPT ![c] = "gone"]
  BY <1>3 DEF ClaimsBar, Existing, TypeOK
<1>4. CASE claim[c] = "live" /\ claim' = [claim EXCEPT ![c] = "deleting"]
  BY <1>4 DEF ClaimsBar, Existing, TypeOK
<1>5. QED
  BY <1>1, <1>2, <1>3, <1>4 DEF DeleteNodeClaim, RetireClaim, FinalizeClaim

(* Every step of the controller and of its environment is a step of        *)
(* Teardown, or leaves its state alone.                                    *)
LEMMA StepRefines ==
    ASSUME FreshLists, ~LateCreates, IInv, CleanInv, [Next]_vars
    PROVE  [Abstract!Next]_(Abstract!vars)
<1> USE DEF Abstract!Next, Abstract!vars
<1>0. TypeOK
  BY DEF IInv
<1>1. TeardownRequested => TeardownRequested'
  BY <1>0, HCPStep, CAPIMonotone DEF TeardownRequested
<1>2. ASSUME NEW p \in Pools, DeleteNodePool(p) \/ CreatePool(p) \/ RetirePool(p),
             UNCHANGED <<hcp, capi, claim, released>>
      PROVE  [Abstract!Next]_(Abstract!vars)
  <2>1. /\ TeardownRequested' = TeardownRequested
        /\ Existing(claim)' = Existing(claim) /\ released' = released
    BY <1>2 DEF TeardownRequested, Existing
  <2>2. \/ PoolsBar' = PoolsBar
        \/ PoolsBar' = PoolsBar \union {p} /\ ~TeardownRequested
        \/ PoolsBar' = PoolsBar \ {p}
    BY <1>0, <1>2, PoolStepRefines
  <2>3. QED
    BY <2>1, <2>2 DEF PoolsBar, Abstract!CreatePool, Abstract!RemovePool
<1>3. ASSUME NEW c \in Claims,
             DeleteNodeClaim(c) \/ CreateClaim(c) \/ RetireClaim(c) \/ FinalizeClaim(c),
             UNCHANGED <<hcp, capi, pool, released>>
      PROVE  [Abstract!Next]_(Abstract!vars)
  <2>1. /\ TeardownRequested' = TeardownRequested
        /\ PoolsBar' = PoolsBar /\ released' = released
    BY <1>3 DEF TeardownRequested, PoolsBar
  <2>2. \/ ClaimsBar' = ClaimsBar
        \/ ClaimsBar' = ClaimsBar \union {c} /\ PoolsBar # {}
        \/ ClaimsBar' = ClaimsBar \ {c}
    BY <1>0, <1>3, ClaimStepRefines
  <2>3. QED
    BY <2>1, <2>2 DEF PoolsBar, ClaimsBar, Abstract!CreateClaim, Abstract!RemoveClaim
<1>4. CASE RemoveFinalizer
  <2>1. pc = "removeFinalizer" /\ UNCHANGED <<pool, claim>>
    BY <1>4 DEF RemoveFinalizer
  <2>2. TeardownRequested /\ TeardownRequested'
    BY <1>1, <2>1 DEF IInv, TeardownOnly, Cleaning
  <2>3. PoolsBar = {} /\ ClaimsBar = {}
    BY <2>1 DEF CleanInv, NothingLeft, PoolsBar, ClaimsBar
  <2>4. PoolsBar' = PoolsBar /\ ClaimsBar' = ClaimsBar
    BY <2>1 DEF PoolsBar, ClaimsBar, Existing
  <2>5. released' = TRUE \/ released' = released
    BY <1>4 DEF RemoveFinalizer
  <2>6. QED
    BY <2>2, <2>3, <2>4, <2>5 DEF PoolsBar, ClaimsBar, Abstract!Release
<1>5. CASE UNCHANGED <<pool, claim, released>>
  <2>1. PoolsBar' = PoolsBar /\ ClaimsBar' = ClaimsBar
    BY <1>5 DEF PoolsBar, ClaimsBar, Existing
  <2>2. TeardownRequested' = TRUE \/ TeardownRequested' = TeardownRequested
    BY <1>1 DEF TeardownRequested
  <2>3. QED
    BY <1>5, <2>1, <2>2 DEF PoolsBar, ClaimsBar, Abstract!Request
<1>6. QED
  BY <1>2, <1>3, <1>4, <1>5, OnePartMoves

(* The controller implements Teardown, for any NodePools and NodeClaims,   *)
(* any number of errors, restarts and reconciles: with lists that do not   *)
(* lag and no creations after the request, the two-stage cleanup and the   *)
(* finalizer amount to one release, with nothing left.                     *)
THEOREM ImplementsTeardownCorrect ==
    ASSUME FreshLists, ~LateCreates
    PROVE  Spec => ImplementsTeardown
<1>1. Init => Abstract!Init
  BY DEF Init, Abstract!Init, TeardownRequested, Existing
<1>2. Init => CleanInv
  BY DEF Init, CleanInv
<1>3. IInv /\ CleanInv /\ [Next]_vars => CleanInv'
  BY CleanInductive
<1>4. IInv /\ CleanInv /\ [Next]_vars => [Abstract!Next]_(Abstract!vars)
  BY StepRefines
<1>5. QED
  BY <1>1, <1>2, <1>3, <1>4, Invariance, PTL DEF Spec, ImplementsTeardown, Abstract!Spec

-----------------------------------------------------------------------------
(***************************************************************************)
(* The state at rest.                                                      *)
(***************************************************************************)

(* A step that leaves the controller's queue, timer and reconcile alone,   *)
(* and its caches of the HCP and of the CAPI Cluster.                      *)
Elsewhere == UNCHANGED <<queued, timer, pc, h, hcpCache, capiCache>>

(* The steps, sorted by what they do to the controller.                    *)
LEMMA RestCases ==
    ASSUME [Next]_vars
    PROVE  \/ Elsewhere \/ queued' \/ Reconcile \/ AddFinalizer \/ ListNodePools
           \/ ListNodeClaims \/ RemoveFinalizer \/ Restart
           \/ RequeueAfter
BY DEF Elsewhere, Next, Controller, Informers, HyperShift, HostedCluster,
     NodePoolsDeleted, NodeClaimsDeleted, DeleteNodePool, DeleteNodeClaim, ForceNodeClaim,
     TimerFires, APIError, SyncHCP, SyncCAPI, SyncPools, SyncClaims, CAPIStep, DeleteHCP,
     FallbackRemoval, OtherHCPWrite, CreatePool, RetirePool, CreateClaim, RetireClaim,
     FinalizeClaim

(* The cache follows the CAPI Cluster, which only moves forward.           *)
LEMMA CAPIBehindInductive == TypeOK /\ CAPIBehind /\ [Next]_vars => CAPIBehind'
<1> SUFFICES ASSUME TypeOK, CAPIBehind, [Next]_vars PROVE CAPIBehind'
  OBVIOUS
<1>1. capi' = capi \/ CAPIStep
  BY DEF Next, Controller, Informers, HyperShift, HostedCluster, Reconcile, AddFinalizer,
     ListNodePools, NodePoolsDeleted, ListNodeClaims, NodeClaimsDeleted,
     DeleteNodePool, DeleteNodeClaim, ForceNodeClaim, RemoveFinalizer, TimerFires,
     APIError, Restart, SyncHCP, SyncCAPI, SyncPools, SyncClaims, DeleteHCP,
     FallbackRemoval, OtherHCPWrite, CreatePool, RetirePool, CreateClaim,
     RetireClaim, FinalizeClaim
<1>2. capiCache' = capiCache \/ (capiCache' = capi /\ capi' = capi)
  BY CacheStep
<1>3. CASE capi' = capi
  BY <1>2, <1>3 DEF CAPIBehind, TypeOK, CAPIStates
<1>4. CASE CAPIStep
  BY <1>4 DEF CAPIStep, CAPIBehind, TypeOK, CAPIStates
<1>5. QED
  BY <1>1, <1>3, <1>4

(* What is written after the caches were filled is not in them yet.        *)
LEMMA WrittenIsNews ==
    ASSUME TypeOK, HCPBehind, CAPIBehind, [Next]_vars, hcpCache' = hcp', capiCache' = capi',
           UNCHANGED <<hcpCache, capiCache>>
    PROVE  UNCHANGED <<hcp, capi>>
<1>1. hcp.rv \in Nat /\ hcpCache.rv \in Nat /\ hcpCache.rv <= hcp.rv
  BY DEF TypeOK, HCPs, HCPBehind, Outdated
<1>2. hcp' = hcp
  BY <1>1, HCPStep
<1>3. capi' = capi \/ CAPIStep
  BY DEF Next, Controller, Informers, HyperShift, HostedCluster, Reconcile, AddFinalizer,
     ListNodePools, NodePoolsDeleted, ListNodeClaims, NodeClaimsDeleted,
     DeleteNodePool, DeleteNodeClaim, ForceNodeClaim, RemoveFinalizer, TimerFires,
     APIError, Restart, SyncHCP, SyncCAPI, SyncPools, SyncClaims, DeleteHCP,
     FallbackRemoval, OtherHCPWrite, CreatePool, RetirePool, CreateClaim,
     RetireClaim, FinalizeClaim
<1>4. capi' = capi
  BY <1>3 DEF CAPIStep, CAPIBehind
<1>5. QED
  BY <1>2, <1>4

(* Every step queues the controller, sets its timer, or leaves UpToDate.   *)
LEMMA UpToDateStep ==
    ASSUME TypeOK, HCPBehind, CAPIBehind, UpToDate, [Next]_vars
    PROVE  UpToDate'
<1> SUFFICES ASSUME ~queued' PROVE UpToDate'
  BY DEF UpToDate
<1> USE DEF IsClusterDeleting
<1>1. CASE Elsewhere
  <2>1. CASE hcpCache' = hcp' /\ capiCache' = capi'
    <3>1. UNCHANGED <<hcp, capi>>
      BY <1>1, <2>1, WrittenIsNews DEF Elsewhere
    <3>2. QED
      BY <1>1, <3>1 DEF Elsewhere, UpToDate
  <2>2. CASE ~(hcpCache' = hcp' /\ capiCache' = capi')
    BY <1>1, <2>2 DEF Elsewhere, UpToDate
  <2>3. QED
    BY <2>1, <2>2
<1>2. CASE Reconcile
  BY <1>2 DEF Reconcile, AfterRead, UpToDate
<1>3. CASE AddFinalizer \/ RemoveFinalizer
  <2>1. pc' = "idle" /\ UNCHANGED <<hcpCache, capiCache>>
    BY <1>3 DEF AddFinalizer, RemoveFinalizer
  <2>2. hcp' # hcp
    BY <1>3 DEF AddFinalizer, RemoveFinalizer, PatchFinalizers, WriteHCP, TypeOK, HCPs
  <2>3. ~(hcpCache' = hcp' /\ capiCache' = capi')
    BY <2>1, <2>2, WrittenIsNews
  <2>4. QED
    BY <2>1, <2>3 DEF UpToDate
<1>4. CASE ListNodePools
  <2>1. /\ pc = "listPools" /\ pc' \in {"listClaims", "deletePools"}
        /\ UNCHANGED <<queued, h, hcpCache, capiCache>>
    BY <1>4 DEF ListNodePools
  <2>2. QED
    BY <2>1 DEF UpToDate
<1>5. CASE ListNodeClaims
  <2>1. /\ pc = "listClaims" /\ UNCHANGED <<hcp, capi, queued, hcpCache, capiCache>>
        /\ \/ pc' \in {"deleteClaims", "removeFinalizer"} /\ h' = h
           \/ pc' = "idle" /\ h.phase # "deleting"
    BY <1>5 DEF ListNodeClaims
  <2>2. h = hcpCache /\ IsClusterDeleting(h, capiCache) /\ h.phase # "gone"
    BY <2>1 DEF UpToDate
  <2>3. CASE pc' \in {"deleteClaims", "removeFinalizer"} /\ h' = h
    BY <2>1, <2>2, <2>3 DEF UpToDate
  <2>4. CASE pc' = "idle" /\ h.phase # "deleting"
    BY <2>1, <2>2, <2>4 DEF UpToDate
  <2>5. QED
    BY <2>1, <2>3, <2>4
<1>6. CASE Restart
  <2>1. hcp.phase = "gone"
    BY <1>6, Zenon DEF Restart
  <2>2. QED
    BY <1>6, <2>1 DEF Restart, UpToDate
<1>7. CASE RequeueAfter
  BY <1>7 DEF UpToDate
<1>8. QED
  BY <1>1, <1>2, <1>3, <1>4, <1>5, <1>6, <1>7, RestCases

(* The invariant behind RestsOnlySettled, whatever lags and is created.    *)
THEOREM UpToDateCorrect == Spec => [](CAPIBehind /\ UpToDate)
<1>1. Init => CAPIBehind /\ UpToDate
  BY DEF Init, CAPIBehind, UpToDate
<1>2. IInv /\ CAPIBehind /\ UpToDate /\ [Next]_vars => (CAPIBehind /\ UpToDate)'
  BY CAPIBehindInductive, UpToDateStep DEF IInv
<1>3. QED
  BY <1>1, <1>2, Invariance, PTL DEF Spec

(* The controller comes to rest only when it holds a live HCP and has let  *)
(* go of one that is being deleted: no path of reconcileDeletion ends      *)
(* half-way without a retry, a timer or an event to come.                  *)
THEOREM RestsOnlySettledCorrect == Spec => []RestsOnlySettled
<1>1. UpToDate => RestsOnlySettled
  BY DEF UpToDate, RestsOnlySettled, AtRest
<1>2. QED
  BY <1>1, UpToDateCorrect, PTL

(* With fresh lists and no late creations, a controller that leaves the    *)
(* cleanup without a timer leaves nothing behind, and nothing comes back.  *)
LEMMA CleanedUpStep ==
    ASSUME FreshLists, ~LateCreates, IInv, CleanInv, UpToDate, CleanedUp, [Next]_vars
    PROVE  CleanedUp'
<1> SUFFICES ASSUME ~queued', pc' = "idle", ~timer', hcpCache'.phase = "present",
                    IsClusterDeleting(hcpCache', capiCache'),
                    karpenterFinalizer \in hcpCache'.finalizers
             PROVE  NothingLeft'
  BY DEF CleanedUp, IsClusterDeleting
<1>1. CASE Elsewhere
  <2>1. NothingLeft
    BY <1>1 DEF Elsewhere, CleanedUp
  <2>2. TeardownRequested
    BY <1>1 DEF Elsewhere, IInv, HCPBehind, IsClusterDeleting, TeardownRequested
  <2>3. QED
    BY <2>1, <2>2, NothingLeftStays
<1>2. CASE Reconcile
  BY <1>2 DEF Reconcile, AfterRead
<1>3. CASE AddFinalizer
  <2>1. /\ pc = "addFinalizer" /\ queued' = queued
        /\ UNCHANGED <<hcpCache, capiCache>>
    BY <1>3 DEF AddFinalizer
  <2>2. ~IsClusterDeleting(hcpCache, capiCache)
    BY <2>1 DEF UpToDate
  <2>3. QED
    BY <2>1, <2>2
<1>4. CASE ListNodePools
  BY <1>4 DEF ListNodePools
<1>5. CASE ListNodeClaims
  <2>1. Existing(claim) = {} /\ pc = "listClaims" /\ UNCHANGED <<claim, pool>>
    BY <1>5 DEF ListNodeClaims, ListedClaims
  <2>2. NothingLeft
    BY <2>1 DEF CleanInv, NothingLeft
  <2>3. QED
    BY <2>1, <2>2 DEF NothingLeft, Existing
<1>6. CASE RemoveFinalizer
  <2>1. pc = "removeFinalizer" /\ UNCHANGED <<claim, pool>>
    BY <1>6 DEF RemoveFinalizer
  <2>2. NothingLeft
    BY <2>1 DEF CleanInv
  <2>3. QED
    BY <2>1, <2>2 DEF NothingLeft, Existing
<1>7. CASE Restart
  <2>1. hcp.phase = "gone"
    BY <1>7, Zenon DEF Restart
  <2>2. QED
    BY <1>7, <2>1 DEF Restart
<1>8. QED
  BY <1>1, <1>2, <1>3, <1>4, <1>5, <1>6, <1>7, RestCases

(* In the same setting, the cleanup that the deletion of the CAPI Cluster  *)
(* starts comes to rest only when all NodePools and NodeClaims are gone.   *)
THEOREM RestsOnlyCleanedUpCorrect ==
    ASSUME FreshLists, ~LateCreates
    PROVE  Spec => []RestsOnlyCleanedUp
<1>1. Init => CleanInv /\ CleanedUp
  BY DEF Init, CleanInv, CleanedUp
<1>2. IInv /\ CleanInv /\ [Next]_vars => CleanInv'
  BY CleanInductive
<1>3. IInv /\ CleanInv /\ UpToDate /\ CleanedUp /\ [Next]_vars => CleanedUp'
  BY CleanedUpStep
<1>4. CleanedUp => RestsOnlyCleanedUp
  BY DEF CleanedUp, RestsOnlyCleanedUp, AtRest
<1>5. QED
  BY <1>1, <1>2, <1>3, <1>4, Invariance, UpToDateCorrect, PTL DEF Spec
=============================================================================

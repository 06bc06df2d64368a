----------------------------- MODULE HCPDeletion -----------------------------
(***************************************************************************)
(* The hcp-deletion controller: it keeps the Karpenter finalizer on the    *)
(* HostedControlPlane (HCP) and, once the hosted cluster is being torn     *)
(* down, deletes every NodePool and then every NodeClaim before it lets    *)
(* the HCP go.                                                             *)
(*                                                                         *)
(* The controller is one worker behind a deduplicating queue.  A reconcile *)
(* is split where it calls the API server, so that the other actors (the   *)
(* HyperShift operator, Karpenter, users, the informers that fill the      *)
(* caches) can act between two calls.  Reads come from caches that lag the *)
(* server, each at its own pace; writes go to the server.                  *)
(***************************************************************************)
EXTENDS Naturals, FiniteSets

CONSTANTS
    Pools,            \* NodePool names
    Claims,           \* NodeClaims (generated names, never reused)
    OtherFinalizers,  \* finalizers other controllers keep on the HCP
    FreshLists,       \* TRUE: the NodePool and NodeClaim caches never lag
    LateCreates,      \* TRUE: NodePools and NodeClaims may still be created
                      \*       after the teardown was requested
    MaxDisturbances   \* bound on API errors, restarts and unrelated HCP writes

karpenterFinalizer == "karpenter-finalizer"

ASSUME ConstantsAssumption ==
    /\ karpenterFinalizer \notin OtherFinalizers
    /\ FreshLists \in BOOLEAN
    /\ LateCreates \in BOOLEAN
    /\ MaxDisturbances \in Nat

Finalizers == OtherFinalizers \union {karpenterFinalizer}

VARIABLES
    \* The API servers
    hcp,          \* the HostedControlPlane; rv is its resourceVersion
    capi,         \* the CAPI Cluster named by the HCP's InfraID
    pool,         \* NodePools of the hosted cluster
    claim,        \* NodeClaims of the hosted cluster
    forced,       \* NodeClaims with the termination-timestamp annotation
    \* The operator's informer caches
    hcpCache, capiCache, poolCache, claimCache, forcedCache,
    \* The controller
    queued,       \* its request is in the workqueue
    timer,        \* a RequeueAfter is running
    pc,           \* the next API call of the reconcile in progress
    h,            \* the HCP this reconcile works on (NoHCP when idle)
    poolTodo,     \* NodePools still to be deleted by this reconcile
    claimTodo,    \* NodeClaims still to be deleted by this reconcile
    forceTodo,    \* NodeClaims still to be annotated by this reconcile
    \* Bookkeeping for the properties and the bounds
    listed,       \* NodeClaims that a reconcile of the operator has listed
    released,     \* the operator has removed its finalizer
    disturbances

serverVars == <<hcp, capi, pool, claim, forced>>
cacheVars == <<hcpCache, capiCache, poolCache, claimCache, forcedCache>>
workVars == <<h, poolTodo, claimTodo, forceTodo>>
ctrlVars == <<queued, timer, pc, workVars>>
bookVars == <<listed, released, disturbances>>
vars == <<serverVars, cacheVars, ctrlVars, bookVars>>

(* An object: present, with a deletionTimestamp, or gone.                  *)
Phases == {"present", "deleting", "gone"}
HCPs == [phase: Phases, infraID: {"unset", "infra"},
         finalizers: SUBSET Finalizers, rv: Nat]
NoHCP == [phase |-> "gone", infraID |-> "unset", finalizers |-> {}, rv |-> 0]
CAPIStates == {"none", "live", "deleting", "gone"}
PoolStates == {"absent", "live", "deleting"}
ClaimStates == {"unborn", "live", "deleting", "gone"}
PCs == {"idle", "addFinalizer", "listPools", "deletePools", "listClaims",
        "deleteClaims", "removeFinalizer"}

TypeOK ==
    /\ hcp \in HCPs /\ hcpCache \in HCPs /\ h \in HCPs
    /\ capi \in CAPIStates /\ capiCache \in CAPIStates
    /\ pool \in [Pools -> PoolStates] /\ poolCache \in [Pools -> PoolStates]
    /\ claim \in [Claims -> ClaimStates]
    /\ claimCache \in [Claims -> ClaimStates]
    /\ forced \subseteq Claims /\ forcedCache \subseteq Claims
    /\ queued \in BOOLEAN /\ timer \in BOOLEAN /\ released \in BOOLEAN
    /\ pc \in PCs
    /\ poolTodo \subseteq Pools
    /\ claimTodo \subseteq Claims /\ forceTodo \subseteq Claims
    /\ listed \subseteq Claims
    /\ poolTodo # {} => pc = "deletePools"
    /\ claimTodo \union forceTodo # {} => pc = "deleteClaims"
    /\ disturbances \in 0..MaxDisturbances

(* NodeClaims the API server still stores (mutant: not the deleting ones). *)
MutOnlyLive(claims) == {c \in Claims : claims[c] = "live"}

Existing(claims) == {c \in Claims : claims[c] \in {"live", "deleting"}}

(***************************************************************************)
(* The teardown was requested: HyperShift has deleted the CAPI Cluster or  *)
(* the HCP itself.                                                         *)
(***************************************************************************)
TeardownRequested ==
    hcp.phase # "present" \/ capi \in {"deleting", "gone"}

(***************************************************************************)
(* The operator starts on a fresh HCP, with its caches just listed.        *)
(***************************************************************************)
Init ==
    /\ hcp \in [phase: {"present"}, infraID: {"unset", "infra"},
                finalizers: {OtherFinalizers}, rv: {0}]
    /\ capi = "none"
    /\ pool = [p \in Pools |-> "absent"]
    /\ claim = [c \in Claims |-> "unborn"]
    /\ forced = {}
    /\ hcpCache = hcp /\ capiCache = capi
    /\ poolCache = pool /\ claimCache = claim /\ forcedCache = forced
    /\ queued = TRUE /\ timer = FALSE
    /\ pc = "idle" /\ h = NoHCP
    /\ poolTodo = {} /\ claimTodo = {} /\ forceTodo = {}
    /\ listed = {} /\ released = FALSE /\ disturbances = 0

(* Every write of the HCP gives it a new resourceVersion.                  *)
WriteHCP(phase, fs) ==
    hcp' = [phase |-> phase, infraID |-> hcp.infraID, finalizers |-> fs,
            rv |-> hcp.rv + 1]

-----------------------------------------------------------------------------
(***************************************************************************)
(* The controller.                                                         *)
(***************************************************************************)

(* A reconcile ends: done, after an error (rate-limited retry), or with a  *)
(* RequeueAfter.  Its locals are dropped.                                  *)
DropWork == poolTodo' = {} /\ claimTodo' = {} /\ forceTodo' = {} /\ h' = NoHCP

Done == pc' = "idle" /\ DropWork /\ UNCHANGED <<queued, timer>>

(* Mutants: the locals survive an error; no requeue after a partial        *)
(* cleanup, or after an error.                                             *)
MutFailedKeepsWork == pc' = "idle" /\ queued' = TRUE /\ UNCHANGED <<timer, workVars>>
MutNoRequeue == pc' = "idle" /\ DropWork /\ UNCHANGED <<queued, timer>>

Failed == pc' = "idle" /\ DropWork /\ queued' = TRUE /\ UNCHANGED timer

RequeueAfter == pc' = "idle" /\ DropWork /\ timer' = TRUE /\ UNCHANGED queued

Goto(label) == pc' = label /\ UNCHANGED <<queued, timer, workVars>>

(* Mutants: any CAPI Cluster counts; only the HCP is looked at.            *)
MutAnyCluster(hc, cluster) ==
    hc.phase = "deleting" \/ (hc.infraID # "unset" /\ cluster \in {"live", "deleting"})
MutOnlyHCP(hc, cluster) == hc.phase = "deleting"

(* A CAPI Cluster that is not found is not a teardown: it is not created   *)
(* yet, or it is already gone and the HCP is about to follow.              *)
IsClusterDeleting(hc, cluster) ==
    hc.phase = "deleting" \/ (hc.infraID # "unset" /\ cluster = "deleting")

(* Reconcile up to its first write or List: read the HCP and the CAPI      *)
(* Cluster from the caches and decide what to do.                          *)
AfterRead(hc, cluster) ==
    IF hc.phase = "gone" THEN "idle"
    ELSE IF IsClusterDeleting(hc, cluster)
    THEN IF karpenterFinalizer \in hc.finalizers THEN "listPools" ELSE "idle"
    ELSE IF karpenterFinalizer \in hc.finalizers THEN "idle" ELSE "addFinalizer"

Reconcile ==
    /\ pc = "idle" /\ queued
    /\ queued' = FALSE
    /\ pc' = AfterRead(hcpCache, capiCache)
    /\ h' = IF pc' = "idle" THEN NoHCP ELSE hcpCache
    /\ UNCHANGED <<timer, poolTodo, claimTodo, forceTodo>>
    /\ UNCHANGED <<serverVars, cacheVars, bookVars>>

(* A JSON merge patch with an optimistic lock (mutant: without): it replaces *)
(* the list of finalizers, and is refused unless the HCP is still the one   *)
(* that was read.                                                           *)
MutNoLock == hcp.phase # "gone"

LockHolds == hcp.phase # "gone" /\ hcp.rv = h.rv

PatchFinalizers(fs) ==
    WriteHCP(IF hcp.phase = "deleting" /\ fs = {} THEN "gone" ELSE hcp.phase, fs)

AddFinalizer ==
    /\ pc = "addFinalizer"
    /\ \/ /\ LockHolds
          /\ PatchFinalizers(h.finalizers \union {karpenterFinalizer})
          /\ Done
       \/ ~LockHolds /\ Failed /\ UNCHANGED hcp
    /\ UNCHANGED <<capi, pool, claim, forced, cacheVars, bookVars>>

ListedPools == IF FreshLists THEN pool ELSE poolCache
ListedClaims == IF FreshLists THEN claim ELSE claimCache
ListedForced == IF FreshLists THEN forced ELSE forcedCache

(* NodeClaims to force: with a deletionTimestamp (mutant: or without) and  *)
(* not annotated yet.                                                      *)
MutForceAll == {c \in Claims : ListedClaims[c] # "unborn"} \ ListedForced

Overdue == {c \in Claims : ListedClaims[c] = "deleting"} \ ListedForced

(* Mutant: NodePools that are being deleted count as gone.                 *)
MutIgnoreDeleting == \A p \in Pools : ListedPools[p] # "live"

NoPoolsListed == \A p \in Pools : ListedPools[p] = "absent"

(* deleteNodePools, its List: no NodePool left, or some to delete or wait  *)
(* for.                                                                    *)
ListNodePools ==
    /\ pc = "listPools"
    /\ IF NoPoolsListed
       THEN Goto("listClaims")
       ELSE /\ pc' = "deletePools"
            /\ poolTodo' = {p \in Pools : ListedPools[p] = "live"}
            /\ UNCHANGED <<queued, timer, h, claimTodo, forceTodo>>
    /\ UNCHANGED <<serverVars, cacheVars, bookVars>>

(* deleteNodePools, one Delete of its loop.  A NodePool with finalizers    *)
(* lingers; one that is gone already fails the reconcile.                  *)
DeleteNodePool(p) ==
    /\ pc = "deletePools" /\ p \in poolTodo
    /\ \/ /\ pool[p] = "live"
          /\ \E s \in {"deleting", "absent"} : pool' = [pool EXCEPT ![p] = s]
          /\ poolTodo' = poolTodo \ {p}
          /\ UNCHANGED <<queued, timer, pc, h, claimTodo, forceTodo>>
       \/ /\ pool[p] = "deleting"
          /\ poolTodo' = poolTodo \ {p}
          /\ UNCHANGED <<pool, queued, timer, pc, h, claimTodo, forceTodo>>
       \/ pool[p] = "absent" /\ Failed /\ UNCHANGED pool
    /\ UNCHANGED <<hcp, capi, claim, forced, cacheVars, bookVars>>

NodePoolsDeleted ==
    /\ pc = "deletePools" /\ poolTodo = {}
    /\ RequeueAfter
    /\ UNCHANGED <<serverVars, cacheVars, bookVars>>

(* Mutant: the finalizer goes with the nodes.                              *)
MutReleaseEarly == Goto("removeFinalizer")

(* Nothing left: the finalizer may go, but only if the HCP this reconcile  *)
(* has read is itself being deleted.                                       *)
AfterCleanup == IF h.phase = "deleting" THEN Goto("removeFinalizer") ELSE Done

(* deleteNodeClaims, its List.                                             *)
ListNodeClaims ==
    /\ pc = "listClaims"
    /\ IF Existing(ListedClaims) = {}
       THEN AfterCleanup
       ELSE /\ pc' = "deleteClaims"
            /\ claimTodo' = {c \in Claims : ListedClaims[c] = "live"}
            /\ forceTodo' = Overdue
            /\ UNCHANGED <<queued, timer, h, poolTodo>>
    /\ listed' = listed \union Existing(ListedClaims)
    /\ UNCHANGED <<serverVars, cacheVars, released, disturbances>>

(* deleteNodeClaims, one Delete of its loop.                               *)
DeleteNodeClaim(c) ==
    /\ pc = "deleteClaims" /\ c \in claimTodo
    /\ \/ /\ claim[c] = "live"
          /\ \E s \in {"deleting", "gone"} : claim' = [claim EXCEPT ![c] = s]
          /\ claimTodo' = claimTodo \ {c}
          /\ UNCHANGED <<queued, timer, pc, h, poolTodo, forceTodo>>
       \/ /\ claim[c] = "deleting"
          /\ claimTodo' = claimTodo \ {c}
          /\ UNCHANGED <<claim, queued, timer, pc, h, poolTodo, forceTodo>>
       \/ claim[c] = "gone" /\ Failed /\ UNCHANGED claim
    /\ UNCHANGED <<hcp, capi, pool, forced, cacheVars, bookVars>>

(* handleForcefulNodeClaimDeletion: annotate a NodeClaim that is being     *)
(* deleted so that Karpenter stops waiting for a graceful drain.           *)
ForceNodeClaim(c) ==
    /\ pc = "deleteClaims" /\ c \in forceTodo
    /\ \/ /\ claim[c] # "gone"
          /\ forced' = forced \union {c}
          /\ forceTodo' = forceTodo \ {c}
          /\ UNCHANGED <<queued, timer, pc, h, poolTodo, claimTodo>>
       \/ claim[c] = "gone" /\ Failed /\ UNCHANGED forced
    /\ UNCHANGED <<hcp, capi, pool, claim, cacheVars, bookVars>>

NodeClaimsDeleted ==
    /\ pc = "deleteClaims" /\ claimTodo = {} /\ forceTodo = {}
    /\ RequeueAfter
    /\ UNCHANGED <<serverVars, cacheVars, bookVars>>

RemoveFinalizer ==
    /\ pc = "removeFinalizer"
    /\ \/ /\ LockHolds
          /\ PatchFinalizers(h.finalizers \ {karpenterFinalizer})
          /\ released' = TRUE
          /\ Done
       \/ ~LockHolds /\ Failed /\ UNCHANGED <<hcp, released>>
    /\ UNCHANGED <<capi, pool, claim, forced, cacheVars, listed, disturbances>>

TimerFires ==
    /\ timer
    /\ timer' = FALSE /\ queued' = TRUE
    /\ UNCHANGED <<pc, workVars, serverVars, cacheVars, bookVars>>

(* Any API call of the reconcile may fail.                                 *)
APIError ==
    /\ pc # "idle" /\ disturbances < MaxDisturbances
    /\ Failed
    /\ disturbances' = disturbances + 1
    /\ UNCHANGED <<serverVars, cacheVars, listed, released>>

(* The operator restarts: the queue, the timer and the reconcile are lost, *)
(* the caches are listed again and every object is a create event.         *)
Restart ==
    /\ disturbances < MaxDisturbances
    /\ hcpCache' = hcp /\ capiCache' = capi
    /\ IF FreshLists
       THEN UNCHANGED <<poolCache, claimCache, forcedCache>>
       ELSE poolCache' = pool /\ claimCache' = claim /\ forcedCache' = forced
    /\ queued' = (hcp.phase # "gone" \/ capi \in {"live", "deleting"})
    /\ timer' = FALSE /\ pc' = "idle" /\ DropWork
    /\ disturbances' = disturbances + 1
    /\ UNCHANGED <<serverVars, listed, released>>

Controller ==
    \/ Reconcile \/ AddFinalizer
    \/ ListNodePools \/ NodePoolsDeleted
    \/ ListNodeClaims \/ NodeClaimsDeleted \/ RemoveFinalizer
    \/ \E p \in Pools : DeleteNodePool(p)
    \/ \E c \in Claims : DeleteNodeClaim(c) \/ ForceNodeClaim(c)

-----------------------------------------------------------------------------
(***************************************************************************)
(* The informers.  Every change of the HCP and of the CAPI Cluster wakes   *)
(* the controller; NodePools and NodeClaims are only cached, not watched.  *)
(***************************************************************************)
SyncHCP ==
    /\ hcpCache # hcp
    /\ hcpCache' = hcp /\ queued' = TRUE
    /\ UNCHANGED <<capiCache, poolCache, claimCache, forcedCache>>
    /\ UNCHANGED <<timer, pc, workVars, serverVars, bookVars>>

SyncCAPI ==
    /\ capiCache # capi
    /\ capiCache' = capi /\ queued' = TRUE
    /\ UNCHANGED <<hcpCache, poolCache, claimCache, forcedCache>>
    /\ UNCHANGED <<timer, pc, workVars, serverVars, bookVars>>

SyncPools ==
    /\ ~FreshLists /\ poolCache # pool
    /\ poolCache' = pool
    /\ UNCHANGED <<hcpCache, capiCache, claimCache, forcedCache>>
    /\ UNCHANGED <<ctrlVars, serverVars, bookVars>>

SyncClaims ==
    /\ ~FreshLists /\ <<claimCache, forcedCache>> # <<claim, forced>>
    /\ claimCache' = claim /\ forcedCache' = forced
    /\ UNCHANGED <<hcpCache, capiCache, poolCache>>
    /\ UNCHANGED <<ctrlVars, serverVars, bookVars>>

Informers == SyncHCP \/ SyncCAPI \/ SyncPools \/ SyncClaims

-----------------------------------------------------------------------------
(***************************************************************************)
(* The HyperShift operator, which owns the HCP and the CAPI Cluster.       *)
(***************************************************************************)
(* The life of the CAPI Cluster.  It is deleted before the HCP, and may be *)
(* gone before the HCP gets its deletionTimestamp.                         *)
CAPIStep ==
    /\ \/ capi = "none" /\ hcp.infraID # "unset" /\ hcp.phase = "present"
          /\ capi' = "live"
       \/ capi = "live" /\ capi' = "deleting"
       \/ capi = "deleting" /\ capi' = "gone"
    /\ UNCHANGED <<hcp, pool, claim, forced, cacheVars, ctrlVars, bookVars>>

DeleteHCP ==
    /\ hcp.phase = "present"
    /\ WriteHCP(IF hcp.finalizers = {} THEN "gone" ELSE "deleting", hcp.finalizers)
    /\ UNCHANGED <<capi, pool, claim, forced, cacheVars, ctrlVars, bookVars>>

(* HyperShift removes the Karpenter finalizer as a fallback.               *)
FallbackRemoval ==
    /\ hcp.phase = "deleting" /\ karpenterFinalizer \in hcp.finalizers
    /\ PatchFinalizers(hcp.finalizers \ {karpenterFinalizer})
    /\ UNCHANGED <<capi, pool, claim, forced, cacheVars, ctrlVars, bookVars>>

(* Other controllers write the HCP: a finalizer of theirs, or anything     *)
(* else (only the resourceVersion shows it).                               *)
OtherHCPWrite ==
    /\ hcp.phase # "gone" /\ disturbances < MaxDisturbances
    /\ \/ \E f \in OtherFinalizers \ hcp.finalizers :
             hcp.phase = "present" /\ PatchFinalizers(hcp.finalizers \union {f})
       \/ \E f \in OtherFinalizers \intersect hcp.finalizers :
             PatchFinalizers(hcp.finalizers \ {f})
       \/ PatchFinalizers(hcp.finalizers)
    /\ disturbances' = disturbances + 1
    /\ UNCHANGED <<capi, pool, claim, forced, cacheVars, ctrlVars>>
    /\ UNCHANGED <<listed, released>>

-----------------------------------------------------------------------------
(***************************************************************************)
(* The hosted cluster: users, Karpenter and the garbage collector.         *)
(***************************************************************************)
CreatePool(p) ==
    /\ pool[p] = "absent" /\ hcp.phase # "gone"
    /\ LateCreates \/ ~TeardownRequested
    /\ pool' = [pool EXCEPT ![p] = "live"]
    /\ UNCHANGED <<hcp, capi, claim, forced, cacheVars, ctrlVars, bookVars>>

(* A user deletes a NodePool, or its last finalizer is removed.            *)
RetirePool(p) ==
    /\ \/ pool[p] = "live" /\ pool' = [pool EXCEPT ![p] = "deleting"]
       \/ pool[p] = "deleting" /\ pool' = [pool EXCEPT ![p] = "absent"]
    /\ UNCHANGED <<hcp, capi, claim, forced, cacheVars, ctrlVars, bookVars>>

(* Karpenter launches capacity for a NodePool that is not being deleted.   *)
(* Its own NodePool cache lags, so a NodeClaim may come late as well.      *)
CreateClaim(c) ==
    /\ claim[c] = "unborn"
    /\ LateCreates \/ \E p \in Pools : pool[p] = "live"
    /\ claim' = [claim EXCEPT ![c] = "live"]
    /\ UNCHANGED <<hcp, capi, pool, forced, cacheVars, ctrlVars, bookVars>>

(* Disruption, or garbage collection after the owning NodePool is gone.    *)
RetireClaim(c) ==
    /\ claim[c] = "live"
    /\ claim' = [claim EXCEPT ![c] = "deleting"]
    /\ UNCHANGED <<hcp, capi, pool, forced, cacheVars, ctrlVars, bookVars>>

(* Karpenter has terminated the instance.  A graceful drain may take       *)
(* forever; a forced one does not.                                         *)
FinalizeClaim(c) ==
    /\ claim[c] = "deleting"
    /\ claim' = [claim EXCEPT ![c] = "gone"]
    /\ UNCHANGED <<hcp, capi, pool, forced, cacheVars, ctrlVars, bookVars>>

HyperShift == CAPIStep \/ DeleteHCP \/ FallbackRemoval \/ OtherHCPWrite

HostedCluster ==
    \/ \E p \in Pools : CreatePool(p) \/ RetirePool(p)
    \/ \E c \in Claims : CreateClaim(c) \/ RetireClaim(c) \/ FinalizeClaim(c)

Next == \/ Controller \/ TimerFires \/ APIError \/ Restart
        \/ Informers \/ HyperShift \/ HostedCluster

Spec == Init /\ [][Next]_vars

(***************************************************************************)
(* The controller's worker, its timer and its informers keep running;      *)
(* Karpenter finishes a forced termination; a NodePool that is being       *)
(* deleted eventually goes.  Users and HyperShift need not do anything.    *)
(***************************************************************************)
Fairness ==
    /\ WF_vars(Controller) /\ WF_vars(TimerFires)
    /\ WF_vars(SyncHCP) /\ WF_vars(SyncCAPI)
    /\ WF_vars(SyncPools) /\ WF_vars(SyncClaims)
    /\ \A p \in Pools : WF_vars(pool[p] = "deleting" /\ RetirePool(p))
    /\ \A c \in Claims : WF_vars(c \in forced /\ FinalizeClaim(c))

FairSpec == Spec /\ Fairness

-----------------------------------------------------------------------------
(***************************************************************************)
(* Properties.                                                             *)
(***************************************************************************)
NothingLeft == Existing(claim) = {} /\ \A p \in Pools : pool[p] = "absent"

Cleaning == pc \in {"listPools", "deletePools", "listClaims", "deleteClaims",
                    "removeFinalizer"}

(* The operator deletes NodePools and NodeClaims, and gives up its         *)
(* finalizer, only when HyperShift really requested the teardown, however  *)
(* old the HCP and the CAPI Cluster in its caches are (IsClusterDeleting). *)
TeardownOnly == Cleaning => TeardownRequested

(* "Only remove the finalizer once the HCP itself is being deleted": the   *)
(* HCP on the server never loses the finalizer while it is live, although  *)
(* the nodes are cleaned up as soon as the CAPI Cluster is deleted and     *)
(* every patch sends a whole list computed from an HCP read calls before.  *)
FinalizerStays ==
    [][(karpenterFinalizer \in hcp.finalizers /\ karpenterFinalizer \notin hcp'.finalizers)
         => hcp.phase = "deleting"]_vars

(* handleForcefulNodeClaimDeletion works on a cached NodeClaim; still, a   *)
(* NodeClaim that nobody deleted never gets the termination timestamp.     *)
ForcedOnlyDeleting == \A c \in forced : claim[c] \in {"deleting", "gone"}

(* With lists that do not lag and nothing created during the teardown, the *)
(* HCP is only let go when all NodePools and NodeClaims are gone: deleting *)
(* the NodePools first means no new NodeClaim can appear behind the list.  *)
ReleasedMeansCleanedUp == released => NothingLeft

(* The controller implements the teardown of module Teardown: in the same  *)
(* setting, every step of the two-stage cleanup, of the finalizer and of   *)
(* the other actors is one of its steps or none, however many reconciles,  *)
(* errors and restarts it takes.                                           *)
Abstract == INSTANCE Teardown WITH
    requested <- TeardownRequested,
    pools <- {p \in Pools : pool[p] # "absent"},
    claims <- Existing(claim)

ImplementsTeardown == Abstract!Spec

(* Whatever the lag of the caches: a NodeClaim that a reconcile has once   *)
(* listed is gone before reconcileDeletion removes the finalizer.          *)
NoListedClaimAbandoned ==
    [][released' /\ ~released => \A c \in listed : claim[c] = "gone"]_vars

(* The operator's own patches of the HCP never add or drop a finalizer of  *)
(* another controller, although a merge patch replaces the whole list.     *)
OtherFinalizersPreserved ==
    [][pc' # pc => hcp'.finalizers \ {karpenterFinalizer}
                     = hcp.finalizers \ {karpenterFinalizer}]_vars


(* An HCP that is being deleted is eventually let go, although NodePools   *)
(* and NodeClaims are not watched, caches lag and the operator may fail or *)
(* restart, unless somebody creates NodePools over and over.               *)
HCPReleased ==
    <>[][\A p \in Pools : ~CreatePool(p)]_vars =>
        (hcp.phase = "deleting" ~> karpenterFinalizer \notin hcp.finalizers)

(* Every HCP that is not being torn down gets the finalizer.               *)
FinalizerInstalled ==
    <>(TeardownRequested \/ karpenterFinalizer \in hcp.finalizers)

(* The deletion of the CAPI Cluster alone starts the node cleanup, which   *)
(* then completes unless the CAPI Cluster goes or the HCP is deleted.      *)
EarlyCleanup ==
    (capi = "deleting" /\ hcp.phase = "present" /\ karpenterFinalizer \in hcp.finalizers)
        ~> NothingLeft \/ capi = "gone" \/ hcp.phase # "present"

(* Nothing is queued, timed or in progress, and the informers of what the  *)
(* controller watches have delivered everything.                           *)
AtRest ==
    ~queued /\ ~timer /\ pc = "idle" /\ hcpCache = hcp /\ capiCache = capi

(* The safety side of HCPReleased and FinalizerInstalled: a controller at  *)
(* rest has let go of an HCP that is being deleted, and holds one whose    *)
(* cluster is not being torn down.  No error, conflict, restart or empty   *)
(* list ends a teardown half-way without anybody to go on.                 *)
RestsOnlySettled ==
    AtRest =>
        /\ hcp.phase = "deleting" => karpenterFinalizer \notin hcp.finalizers
        /\ hcp.phase = "present" /\ ~IsClusterDeleting(hcp, capi)
              => karpenterFinalizer \in hcp.finalizers

(* The safety side of EarlyCleanup: with fresh lists and no late creations *)
(* it rests on a cluster that is being torn down only when nothing is left.*)
RestsOnlyCleanedUp ==
    /\ AtRest /\ hcp.phase = "present" /\ IsClusterDeleting(hcp, capi)
    /\ karpenterFinalizer \in hcp.finalizers
    => NothingLeft

-----------------------------------------------------------------------------
(***************************************************************************)
(* The inductive invariant behind the safety properties.                   *)
(***************************************************************************)

(* The HCP in the cache, and the one a reconcile holds, is an older or the *)
(* current version: the same resourceVersion means the same object.        *)
Outdated(old) ==
    /\ old.rv <= hcp.rv
    /\ old.rv = hcp.rv => old = hcp

HCPBehind ==
    /\ Outdated(hcpCache)
    /\ hcpCache.phase # "present" => hcp.phase # "present"
    /\ capiCache \in {"deleting", "gone"} => capi \in {"deleting", "gone"}
    /\ pc # "idle" => Outdated(h)

(* A NodeClaim only moves forward, and the cache never runs ahead of it.   *)
ClaimsBehind ==
    \A c \in Claims :
        /\ claimCache[c] # "unborn" => claim[c] # "unborn"
        /\ claimCache[c] = "deleting" => claim[c] \in {"deleting", "gone"}
        /\ claimCache[c] = "gone" => claim[c] = "gone"

ForceInv == \A c \in forceTodo : claim[c] \in {"deleting", "gone"}

ListedInv ==
    \A c \in listed :
        /\ ListedClaims[c] # "unborn"
        /\ pc = "removeFinalizer" => claim[c] = "gone"

(* The finalizer is only removed from an HCP that was read as deleting.    *)
ReleasesDeleting == pc = "removeFinalizer" => h.phase = "deleting"

IInv == /\ TypeOK /\ HCPBehind /\ ClaimsBehind /\ ReleasesDeleting
        /\ TeardownOnly /\ ForceInv /\ ForcedOnlyDeleting /\ ListedInv

(* With fresh lists and no late creations only: past the empty NodePool    *)
(* list there are no NodePools, past the empty NodeClaim list nothing.     *)
CleanInv ==
    /\ pc \in {"listClaims", "deleteClaims", "removeFinalizer"}
          => \A p \in Pools : pool[p] = "absent"
    /\ pc = "removeFinalizer" => NothingLeft
    /\ released => NothingLeft /\ TeardownRequested

-----------------------------------------------------------------------------
(***************************************************************************)
(* The invariants behind RestsOnlySettled and RestsOnlyCleanedUp.          *)
(***************************************************************************)

(* The CAPI Cluster only moves forward, and the cache never runs ahead.    *)
CAPIBehind ==
    /\ capi = "none" => capiCache = "none"
    /\ capi = "live" => capiCache \in {"none", "live"}
    /\ capi = "deleting" => capiCache # "gone"

(* Unless it is to run again, a reconcile works on what the caches hold,   *)
(* and leaves a timer or nothing to do behind.                             *)
UpToDate ==
    ~queued =>
        /\ pc # "idle" => /\ h = hcpCache /\ h.phase # "gone"
                          /\ (pc = "addFinalizer") <=> ~IsClusterDeleting(h, capiCache)
        /\ pc = "idle" /\ ~timer /\ hcpCache = hcp /\ capiCache = capi =>
              /\ hcp.phase = "deleting" => karpenterFinalizer \notin hcp.finalizers
              /\ hcp.phase = "present" /\ ~IsClusterDeleting(hcp, capi)
                    => karpenterFinalizer \in hcp.finalizers

(* With fresh lists and no late creations: the same for what is left.      *)
CleanedUp ==
    /\ ~queued /\ pc = "idle" /\ ~timer
    /\ hcpCache.phase = "present" /\ IsClusterDeleting(hcpCache, capiCache)
    /\ karpenterFinalizer \in hcpCache.finalizers
    => NothingLeft
=============================================================================

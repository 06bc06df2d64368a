--------------------------- MODULE AzureNodeClass ---------------------------
(***************************************************************************)
(* The azure-nodeclass controller for one NodeClass name.  It derives an   *)
(* AKSNodeClass from an OpenShiftAzureNodeClass, with the image and user   *)
(* data of the Secret made by HyperShift, and copies its status back.      *)
(*                                                                         *)
(* Unlike its EC2 counterpart it never asks to be requeued: a reconcile    *)
(* that has to wait counts on the watch event that ends the wait.  And it  *)
(* deletes the AKSNodeClass without looking for it in the cache first.     *)
(***************************************************************************)
EXTENDS NodeClassCommon

CONSTANT MaxChanges   \* bound on the changes made by the other actors

ASSUME MaxChangesAssumption == MaxChanges \in Nat

finalizer == "azure-nodeclass-finalizer"

VARIABLES
    \* The API servers
    hcp,          \* the HostedControlPlane
    secrets,      \* the user data Secrets of the NodeClass, by release
    nc,           \* the OpenShiftAzureNodeClass
    aks,          \* the AKSNodeClass
    \* The operator's informer caches
    hcpCache, secretsCache, ncCache, aksCache,
    \* The controller
    queued,
    pc,           \* the next API call of the reconcile in progress
    n,            \* the NodeClass this reconcile works on
    v,            \* the control plane version this reconcile has read
    ready,        \* the Ready condition of the AKSNodeClass it has written
    \* Bounds
    changes

serverVars == <<hcp, secrets, nc, aks>>
cacheVars == <<hcpCache, secretsCache, ncCache, aksCache>>
workVars == <<n, v, ready>>
ctrlVars == <<queued, pc, n, v, ready>>
vars == <<hcp, secrets, nc, aks, hcpCache, secretsCache, ncCache, aksCache,
          queued, pc, n, v, ready, changes>>

Phases == {"absent", "present", "deleting"}

HCPs == [phase: {"absent", "present"}, version: ControlPlaneVersions]

NodeClasses == [phase: Phases, finalizers: SUBSET {finalizer},
                version: Versions,
                resolved: ConditionStatus, ready: ConditionStatus, rv: Nat]

AKSNodeClasses == [phase: Phases, release: Releases \union {NoRelease},
                   ready: ConditionStatus, rv: Nat]

(* Deleted objects keep their last resource version, so that the caches    *)
(* notice that an object came and went.                                    *)
NoNodeClass(rv) == [phase |-> "absent", finalizers |-> {}, version |-> NoRelease,
                    resolved |-> "unset", ready |-> "unset", rv |-> rv]
NoAKS(rv) == [phase |-> "absent", release |-> NoRelease, ready |-> "unset", rv |-> rv]
NoVersion == [desired |-> NoRelease, completed |-> NoRelease]

PCs == {"idle", "addFinalizer", "prepare", "apply", "status", "delete", "removeFinalizer"}

TypeOK ==
    /\ hcp \in HCPs /\ hcpCache \in HCPs
    /\ secrets \subseteq Releases /\ secretsCache \subseteq Releases
    /\ nc \in NodeClasses /\ ncCache \in NodeClasses /\ n \in NodeClasses
    /\ aks \in AKSNodeClasses /\ aksCache \in AKSNodeClasses
    /\ queued \in BOOLEAN
    /\ pc \in PCs
    /\ v \in ControlPlaneVersions
    /\ ready \in ConditionStatus
    /\ pc = "idle" => n = NoNodeClass(0) /\ v = NoVersion /\ ready = "unset"
    /\ changes \in 0..MaxChanges

(* The operator starts before anything else, or in a cluster in use: a     *)
(* NodeClass has its Secret and, with the finalizer, perhaps its           *)
(* AKSNodeClass, possibly during an upgrade.                               *)
Init ==
    /\ \/ /\ hcp = [phase |-> "absent", version |-> NoVersion]
          /\ secrets = {} /\ nc = NoNodeClass(0) /\ aks = NoAKS(0)
       \/ /\ hcp \in [phase: {"present"},
                      version: [desired: Releases, completed: Releases \union {NoRelease}]]
          /\ \E r \in Releases : secrets = {r}
          /\ aks \in {NoAKS(0)} \union [phase: {"present"}, release: Releases,
                                        ready: {"unset"}, rv: {0}]
          /\ \E version \in Versions :
                nc = [phase |-> "present", version |-> version,
                      finalizers |-> IF aks.phase = "absent" THEN {} ELSE {finalizer},
                      resolved |-> "unset", ready |-> "unset", rv |-> 0]
    /\ hcpCache = hcp /\ secretsCache = secrets /\ ncCache = nc /\ aksCache = aks
    /\ queued = (nc.phase # "absent")
    /\ pc = "idle" /\ n = NoNodeClass(0) /\ v = NoVersion /\ ready = "unset"
    /\ changes = 0

-----------------------------------------------------------------------------
(***************************************************************************)
(* The controller.                                                         *)
(***************************************************************************)
DropWork == n' = NoNodeClass(0) /\ v' = NoVersion /\ ready' = "unset"

(* Mutant: the NodeClass read by the last reconcile is kept.               *)
MutKeepWork == pc' = "idle" /\ queued' = queued /\ UNCHANGED workVars

Done == pc' = "idle" /\ queued' = queued /\ DropWork

Failed == pc' = "idle" /\ queued' = TRUE /\ DropWork

Go(step) == pc' = step /\ queued' = queued

(* Reconcile up to its first write.                                        *)
NextStep ==
    IF ncCache.phase = "absent" THEN "idle"
    ELSE IF ncCache.phase = "deleting" THEN "delete"
    ELSE IF finalizer \in ncCache.finalizers THEN "prepare" ELSE "addFinalizer"

Reconcile ==
    /\ pc = "idle" /\ queued
    /\ queued' = FALSE
    /\ pc' = NextStep
    /\ n' = IF NextStep = "idle" THEN NoNodeClass(0) ELSE ncCache
    /\ UNCHANGED <<v, ready, hcp, secrets, nc, aks>>
    /\ UNCHANGED <<cacheVars, changes>>

LockHolds == nc.phase # "absent" /\ nc.rv = n.rv

(* What the server keeps of a NodeClass written with these finalizers and  *)
(* this status: nothing, once it is being deleted and has none left.       *)
Written(phase, finalizers, resolved, rdy) ==
    IF phase = "deleting" /\ finalizers = {} THEN NoNodeClass(nc.rv + 1)
    ELSE [phase |-> phase, finalizers |-> finalizers, version |-> nc.version,
          resolved |-> resolved, ready |-> rdy, rv |-> nc.rv + 1]

AddFinalizer ==
    /\ pc = "addFinalizer"
    /\ \/ /\ LockHolds
          /\ nc' = Written(nc.phase, n.finalizers \union {finalizer}, nc.resolved, nc.ready)
          /\ n' = nc' /\ Go("prepare") /\ UNCHANGED <<v, ready>>
       \/ ~LockHolds /\ Failed /\ UNCHANGED nc
    /\ UNCHANGED <<hcp, secrets, aks, cacheVars, changes>>

(* Reads the HCP; without one, its creation is waited for.                 *)
ReadHCP ==
    /\ pc = "prepare"
    /\ \/ /\ hcpCache.phase = "present"
          /\ v' = hcpCache.version /\ Go("apply") /\ UNCHANGED <<n, ready>>
       \/ hcpCache.phase = "absent" /\ Done
    /\ UNCHANGED <<serverVars, cacheVars, changes>>

(* CreateOrUpdate of the AKSNodeClass read from the cache.                 *)
ApplyAKS(release) ==
    LET r == ReconciledRelease(v, n.version, aks.release, release) IN
    \/ /\ aksCache.phase = "absent" /\ aks.phase = "absent"
       /\ aks' = [phase |-> "present", release |-> r, ready |-> "unset", rv |-> aks.rv + 1]
       /\ ready' = "unset" /\ Go("status") /\ UNCHANGED <<n, v>>
    \/ /\ aksCache.phase # "absent" /\ aks.phase # "absent" /\ aksCache.rv = aks.rv
       /\ aks' = IF r = aks.release THEN aks
                 ELSE [phase |-> aks.phase, release |-> r, ready |-> aks.ready,
                       rv |-> aks.rv + 1]
       /\ ready' = aks.ready /\ Go("status") /\ UNCHANGED <<n, v>>
    \/ /\ \/ aksCache.phase = "absent" /\ aks.phase # "absent"
          \/ aksCache.phase # "absent" /\ (aks.phase = "absent" \/ aksCache.rv # aks.rv)
       /\ Failed /\ UNCHANGED aks

(* Without a Secret, its creation is waited for; several are an error.     *)
reconcileAKSNodeClass ==
    /\ pc = "apply"
    /\ \/ GetUserDataSecret(secretsCache) = "notFound" /\ Done /\ UNCHANGED aks
       \/ GetUserDataSecret(secretsCache) = "ambiguous" /\ Failed /\ UNCHANGED aks
       \/ /\ GetUserDataSecret(secretsCache) = "found"
          /\ \E release \in secretsCache : ApplyAKS(release)
    /\ UNCHANGED <<hcp, secrets, nc, cacheVars, changes>>

reconcileStatus ==
    /\ pc = "status"
    /\ LET synced == SyncConditions(n.resolved, n.ready, ready) IN
       \/ synced = n.ready /\ Done /\ UNCHANGED nc
       \/ /\ synced # n.ready /\ LockHolds
          /\ nc' = Written(nc.phase, nc.finalizers, n.resolved, synced)
          /\ Done
       \/ synced # n.ready /\ ~LockHolds /\ Failed /\ UNCHANGED nc
    /\ UNCHANGED <<hcp, secrets, aks, cacheVars, changes>>

(* Mutant: the AKSNodeClass is first looked up in the cache.               *)
MutCachedFind == IF aksCache.phase = "absent" THEN aksCache ELSE aks

(* The AKSNodeClass that reconcileDelete acts on: the server's.            *)
FoundAKS == aks

(* reconcileDelete, its Delete.  Karpenter's finalizer keeps an            *)
(* AKSNodeClass that is in use.  The watch event ends the wait.            *)
reconcileDelete ==
    /\ pc = "delete"
    /\ \/ /\ FoundAKS.phase = "present" /\ Done
          /\ \/ aks' = [phase |-> "deleting", release |-> aks.release,
                        ready |-> aks.ready, rv |-> aks.rv + 1]
             \/ aks' = NoAKS(aks.rv + 1)
       \/ FoundAKS.phase = "deleting" /\ Done /\ UNCHANGED aks
       \/ /\ FoundAKS.phase = "absent" /\ finalizer \in n.finalizers
          /\ Go("removeFinalizer") /\ UNCHANGED <<aks, n, v, ready>>
       \/ FoundAKS.phase = "absent" /\ finalizer \notin n.finalizers /\ Done /\ UNCHANGED aks
    /\ UNCHANGED <<hcp, secrets, nc, cacheVars, changes>>

RemoveFinalizer ==
    /\ pc = "removeFinalizer"
    /\ \/ /\ LockHolds
          /\ nc' = Written(nc.phase, n.finalizers \ {finalizer}, nc.resolved, nc.ready)
          /\ Done
       \/ ~LockHolds /\ Failed /\ UNCHANGED nc
    /\ UNCHANGED <<hcp, secrets, aks, cacheVars, changes>>

(* Any API call may fail; the request is then retried with back-off.       *)
APIError ==
    /\ pc # "idle" /\ changes < MaxChanges
    /\ Failed
    /\ changes' = changes + 1
    /\ UNCHANGED <<serverVars, cacheVars>>

(* The operator restarts and lists everything again.                       *)
Restart ==
    /\ changes < MaxChanges
    /\ hcpCache' = hcp /\ secretsCache' = secrets /\ ncCache' = nc /\ aksCache' = aks
    /\ queued' = (nc.phase # "absent" \/ aks.phase # "absent" \/ secrets # {})
    /\ pc' = "idle" /\ DropWork
    /\ changes' = changes + 1
    /\ UNCHANGED serverVars

Controller == \/ Reconcile \/ AddFinalizer \/ ReadHCP \/ reconcileAKSNodeClass
              \/ reconcileStatus \/ reconcileDelete \/ RemoveFinalizer

-----------------------------------------------------------------------------
(***************************************************************************)
(* The informers.  A change of the NodeClass or of the AKSNodeClass wakes  *)
(* the controller, and so does a new Secret, but not the deletion of one.  *)
(***************************************************************************)
SyncNodeClass ==
    /\ ncCache # nc
    /\ ncCache' = nc /\ queued' = TRUE
    /\ UNCHANGED <<hcpCache, secretsCache, aksCache, pc, workVars, serverVars, changes>>

(* Mutant: the watch of the AKSNodeClasses is missing.                     *)
MutNoWatch ==
    /\ aksCache # aks
    /\ aksCache' = aks /\ queued' = queued
    /\ UNCHANGED <<hcpCache, secretsCache, ncCache, pc, workVars, serverVars, changes>>

SyncAKS ==
    /\ aksCache # aks
    /\ aksCache' = aks /\ queued' = TRUE
    /\ UNCHANGED <<hcpCache, secretsCache, ncCache, pc, workVars, serverVars, changes>>

SyncSecrets ==
    /\ secretsCache # secrets
    /\ secretsCache' = secrets
    /\ queued' = (queued \/ secrets \ secretsCache # {})
    /\ UNCHANGED <<hcpCache, ncCache, aksCache, pc, workVars, serverVars, changes>>

(* Mutant: changes of the control plane version are filtered out.          *)
MutPredicate(old, new) == old.phase = "absent"

(* Creation, and changes of the control plane version.                     *)
hcpPredicate(old, new) == old.phase = "absent" \/ old.version # new.version

(* mapToNodeClasses lists the NodeClasses from the cache.                  *)
SyncHCP ==
    /\ hcpCache # hcp
    /\ hcpCache' = hcp
    /\ queued' = (queued \/ (hcpPredicate(hcpCache, hcp) /\ ncCache.phase # "absent"))
    /\ UNCHANGED <<secretsCache, ncCache, aksCache, pc, workVars, serverVars, changes>>

Informers == SyncNodeClass \/ SyncAKS \/ SyncSecrets \/ SyncHCP

-----------------------------------------------------------------------------
(***************************************************************************)
(* The other actors.  Nobody else creates or deletes AKSNodeClasses: the   *)
(* ValidatingAdmissionPolicy stops even the garbage collector.             *)
(***************************************************************************)
Change == changes < MaxChanges /\ changes' = changes + 1

UserStep ==
    /\ Change
    /\ \/ /\ nc.phase = "absent"
          /\ \E version \in Versions :
                nc' = [phase |-> "present", finalizers |-> {}, version |-> version,
                       resolved |-> "unset", ready |-> "unset", rv |-> nc.rv + 1]
       \/ /\ nc.phase = "present"
          /\ nc' = Written("deleting", nc.finalizers, nc.resolved, nc.ready)
    /\ UNCHANGED <<hcp, secrets, aks, cacheVars, ctrlVars>>

(* The ignition controller resolves the version of the NodeClass and       *)
(* creates and deletes its user data Secrets.                              *)
IgnitionStep ==
    /\ Change
    /\ \/ /\ nc.phase # "absent"
          /\ \E s \in {"False", "True"} \ {nc.resolved} :
                nc' = Written(nc.phase, nc.finalizers, s, nc.ready)
          /\ UNCHANGED secrets
       \/ \E r \in Releases \ secrets : secrets' = secrets \union {r} /\ UNCHANGED nc
       \/ \E r \in secrets : secrets' = secrets \ {r} /\ UNCHANGED nc
    /\ UNCHANGED <<hcp, aks, cacheVars, ctrlVars>>

(* The HyperShift operator creates the HCP, starts an upgrade and          *)
(* completes one.                                                          *)
HyperShiftStep ==
    /\ Change
    /\ \/ \E r \in Releases \ {hcp.version.desired} :
             hcp' = [phase |-> "present",
                     version |-> [desired |-> r, completed |-> hcp.version.completed]]
       \/ /\ hcp.phase = "present" /\ hcp.version.completed # hcp.version.desired
          /\ hcp' = [phase |-> "present",
                     version |-> [desired |-> hcp.version.desired,
                                  completed |-> hcp.version.desired]]
    /\ UNCHANGED <<secrets, nc, aks, cacheVars, ctrlVars>>

(* Karpenter validates the AKSNodeClass and lets it go once it is unused.  *)
KarpenterStatus ==
    /\ Change /\ aks.phase # "absent"
    /\ \E s \in {"False", "True"} \ {aks.ready} :
          aks' = [phase |-> aks.phase, release |-> aks.release, ready |-> s,
                  rv |-> aks.rv + 1]
    /\ UNCHANGED <<hcp, secrets, nc, cacheVars, ctrlVars>>

KarpenterFinalize ==
    /\ aks.phase = "deleting"
    /\ aks' = NoAKS(aks.rv + 1)
    /\ UNCHANGED <<hcp, secrets, nc, cacheVars, ctrlVars, changes>>

Environment == UserStep \/ IgnitionStep \/ HyperShiftStep \/ KarpenterStatus

Next == Controller \/ APIError \/ Restart \/ Informers \/ Environment \/ KarpenterFinalize

Spec == Init /\ [][Next]_vars

(* The worker and its informers run; Karpenter finalizes an AKSNodeClass   *)
(* that is no longer used.                                                 *)
Fairness ==
    /\ WF_vars(Controller)
    /\ WF_vars(SyncNodeClass) /\ WF_vars(SyncAKS)
    /\ WF_vars(SyncSecrets) /\ WF_vars(SyncHCP)
    /\ WF_vars(KarpenterFinalize)

FairSpec == Spec /\ Fairness

-----------------------------------------------------------------------------
(***************************************************************************)
(* Properties.                                                             *)
(***************************************************************************)

(* "reconcileDelete deletes the AKSNodeClass and removes the finalizer     *)
(* once the AKSNodeClass is gone": whatever the caches say, an AKSNodeClass *)
(* always has a NodeClass that holds the finalizer.                        *)
NoOrphan == aks.phase # "absent" => finalizer \in nc.finalizers

(* A NodeClass that is being deleted goes, although no step of its         *)
(* deletion asks to be requeued: the watches are enough.                   *)
NodeClassDeleted == nc.phase = "deleting" ~> nc.phase # "deleting"

(* Once the HCP exists, the Secret settles and no upgrade holds the        *)
(* NodeClass back, the AKSNodeClass gets the Secret's release, although    *)
(* reconciles that find no HCP or no Secret simply return.                 *)
ReleaseFollowsSecret ==
    \A r \in Releases :
        <>[](/\ nc.phase = "present" /\ hcp.phase = "present" /\ secrets = {r}
             /\ ~WaitsForControlPlaneUpgrade(hcp.version, nc.version))
            => <>[](aks.phase = "present" /\ aks.release = r)

(* The AKSNodeClass and the Ready condition are those of this control      *)
(* plane version and these Secrets.                                        *)
Follows(version, sec) ==
    /\ \A r \in sec : WaitsForControlPlaneUpgrade(version, nc.version) \/ aks.release = r
    /\ sec # {} => /\ aks.phase = "present"
                   /\ nc.ready = SyncConditions(nc.resolved, nc.ready, aks.ready)

(* The safety side of both: in a state at rest, where nothing is queued or *)
(* in progress and the informers have delivered everything, a live         *)
(* NodeClass is reconciled in full, Ready included, as far as HCP and      *)
(* Secret exist, and one that is being deleted waits for Karpenter alone.  *)
RestsOnlyFollowed ==
    /\ ~queued /\ pc = "idle"
    /\ hcpCache = hcp /\ secretsCache = secrets /\ ncCache = nc /\ aksCache = aks
    => /\ nc.phase = "present" /\ hcp.phase = "present" => Follows(hcp.version, secrets)
       /\ nc.phase = "deleting" => aks.phase = "deleting"

-----------------------------------------------------------------------------
(***************************************************************************)
(* The inductive invariant behind NoOrphan.                                *)
(***************************************************************************)

(* The cache holds an earlier NodeClass, or the current one.               *)
CacheBehind == ncCache.rv <= nc.rv /\ (ncCache.rv = nc.rv => ncCache = nc)

(* A deletion works on what the cache holds, or on an earlier version.     *)
SnapshotBehind ==
    pc \in {"delete", "removeFinalizer"} =>
        n.phase = "deleting" /\ n.rv <= ncCache.rv /\ (n.rv = ncCache.rv => n = ncCache)

(* The finalizer of a live NodeClass is not removed behind the cache.      *)
CachedFinalizer ==
    ncCache.phase = "present" /\ finalizer \in ncCache.finalizers => finalizer \in nc.finalizers

AbsentIsBare == nc.phase = "absent" => nc.finalizers = {}

(* The reconcile of a live NodeClass runs under the finalizer.             *)
AppliesGuarded == pc \in {"prepare", "apply", "status"} => finalizer \in nc.finalizers

(* The finalizer is only removed when there is no AKSNodeClass left.       *)
RemovesLast == pc = "removeFinalizer" => aks.phase = "absent"

IInv == /\ TypeOK
        /\ CacheBehind /\ SnapshotBehind /\ CachedFinalizer /\ AbsentIsBare
        /\ AppliesGuarded /\ RemovesLast /\ NoOrphan

-----------------------------------------------------------------------------
(***************************************************************************)
(* The inductive invariant behind RestsOnlyFollowed.                       *)
(***************************************************************************)

(* What is being deleted still has its finalizer, and an AKSNodeClass goes *)
(* with its NodeClass.                                                     *)
DeletingHeld == nc.phase = "deleting" => finalizer \in nc.finalizers
DeletedTogether == aks.phase = "deleting" => nc.phase = "deleting"

(* A NodeClass that is seen terminating is not replaced by one that holds  *)
(* the finalizer before its successor was read.                            *)
SeenDeleting ==
    /\ ncCache.phase = "deleting" /\ finalizer \in nc.finalizers => nc.phase = "deleting"
    /\ pc = "delete" /\ finalizer \in nc.finalizers => nc.phase = "deleting"
    /\ pc = "addFinalizer" => n.rv <= ncCache.rv /\ (n.rv = ncCache.rv => n = ncCache)

(* A reconcile that is not a deletion works on a live NodeClass.           *)
LiveWork == pc \in {"addFinalizer", "prepare", "apply", "status"} => n.phase = "present"

(* The HCP is created once; the operator's teardown is another controller. *)
HCPStays == hcpCache.phase = "present" => hcp.phase = "present"

FewSecrets == IsFiniteSet(secrets) /\ IsFiniteSet(secretsCache)
AKSBehind == aksCache.rv <= aks.rv /\ (aksCache.rv = aks.rv => aksCache = aks)

(* At most one Secret, and it is followed.                                 *)
Reconciled == (\A r, s \in secretsCache : r = s) /\ Follows(hcpCache.version, secretsCache)

(* Unless another event is to come, a reconcile works on what the caches   *)
(* hold, and leaves nothing to do behind.                                  *)
UpToDate ==
    ~queued /\ ncCache = nc /\ aksCache = aks =>
        /\ pc = "idle" /\ nc.phase = "present" /\ hcpCache.phase = "present" => Reconciled
        /\ pc = "idle" /\ nc.phase = "deleting" => aks.phase = "deleting"
        /\ pc # "idle" => n = nc
        /\ pc \in {"apply", "status"} => hcpCache.phase = "present" /\ v = hcpCache.version
        /\ pc = "status" =>
              /\ ready = aks.ready /\ aks.phase = "present"
              /\ \A r, s \in secretsCache : r = s
              /\ \A r \in secretsCache :
                    WaitsForControlPlaneUpgrade(v, nc.version) \/ aks.release = r

RestInv == /\ IInv /\ DeletingHeld /\ DeletedTogether /\ SeenDeleting
           /\ LiveWork /\ HCPStays /\ FewSecrets /\ AKSBehind /\ UpToDate
=============================================================================

---------------------------- MODULE EC2NodeClass ----------------------------
(***************************************************************************)
(* The ec2-nodeclass controller for one NodeClass name.  It derives an     *)
(* EC2NodeClass from an OpenshiftEC2NodeClass: its release comes from the  *)
(* user data Secret made by HyperShift's ignition controller, its status   *)
(* is copied back.  The controller serialises the reconciles of one name.  *)
(*                                                                         *)
(* Four informers feed the caches a reconcile reads: the NodeClass and the *)
(* EC2NodeClass in the hosted cluster, the HCP and the Secrets in the      *)
(* management cluster.  They lag the servers independently.                *)
(***************************************************************************)
EXTENDS NodeClassCommon

CONSTANT MaxChanges   \* bound on the changes made by the other actors

ASSUME MaxChangesAssumption == MaxChanges \in Nat

finalizer == "ec2-nodeclass-finalizer"

VARIABLES
    \* The API servers
    hcp,          \* the HostedControlPlane
    secrets,      \* the user data Secrets of the NodeClass, by release
    nc,           \* the OpenshiftEC2NodeClass
    ec2,          \* the EC2NodeClass
    \* The operator's informer caches
    hcpCache, secretsCache, ncCache, ec2Cache,
    \* The controller
    queued, timer,
    pc,           \* the next API call of the reconcile in progress
    n,            \* the NodeClass this reconcile works on
    v,            \* the control plane version this reconcile has read
    ready,        \* the Ready condition of the EC2NodeClass it has written
    \* Bounds
    changes

serverVars == <<hcp, secrets, nc, ec2>>
cacheVars == <<hcpCache, secretsCache, ncCache, ec2Cache>>
workVars == <<n, v, ready>>
ctrlVars == <<queued, timer, pc, n, v, ready>>
vars == <<hcp, secrets, nc, ec2, hcpCache, secretsCache, ncCache, ec2Cache,
          queued, timer, pc, n, v, ready, changes>>

Phases == {"absent", "present", "deleting"}

HCPs == [exists: BOOLEAN, override: BOOLEAN, version: ControlPlaneVersions]

NodeClasses == [phase: Phases, finalizers: SUBSET {finalizer}, version: Versions,
                resolved: ConditionStatus, ready: ConditionStatus, rv: Nat]

EC2NodeClasses == [phase: Phases, release: Releases \union {NoRelease},
                   ready: ConditionStatus, rv: Nat]

(* A deleted object leaves its resource version behind, so that the caches *)
(* notice that it came and went.                                           *)
NoNodeClass(rv) == [phase |-> "absent", finalizers |-> {}, version |-> NoRelease,
                    resolved |-> "unset", ready |-> "unset", rv |-> rv]
NoEC2(rv) == [phase |-> "absent", release |-> NoRelease, ready |-> "unset", rv |-> rv]
NoVersion == [desired |-> NoRelease, completed |-> NoRelease]

PCs == {"idle", "addFinalizer", "apply", "status", "delete", "removeFinalizer"}

TypeOK ==
    /\ hcp \in HCPs /\ hcpCache \in HCPs
    /\ secrets \subseteq Releases /\ secretsCache \subseteq Releases
    /\ nc \in NodeClasses /\ ncCache \in NodeClasses /\ n \in NodeClasses
    /\ ec2 \in EC2NodeClasses /\ ec2Cache \in EC2NodeClasses
    /\ queued \in BOOLEAN /\ timer \in BOOLEAN
    /\ pc \in PCs
    /\ v \in ControlPlaneVersions
    /\ ready \in ConditionStatus
    /\ pc = "idle" => n = NoNodeClass(0) /\ v = NoVersion /\ ready = "unset"
    /\ changes \in 0..MaxChanges

(* The operator starts before anything else, or in a cluster in use: a     *)
(* NodeClass has its Secret and, with the finalizer, perhaps its           *)
(* EC2NodeClass, possibly during an upgrade.  Both are new, or the version *)
(* is resolved and the EC2NodeClass Ready; its own Ready condition is      *)
(* synced or not.                                                          *)
Init ==
    /\ \/ /\ hcp = [exists |-> FALSE, override |-> FALSE, version |-> NoVersion]
          /\ secrets = {} /\ nc = NoNodeClass(0) /\ ec2 = NoEC2(0)
       \/ /\ hcp \in [exists: {TRUE}, override: {FALSE},
                      version: [desired: Releases, completed: Releases \union {NoRelease}]]
          /\ \E r \in Releases : secrets = {r}
          /\ ec2 \in {NoEC2(0)} \union [phase: {"present"}, release: Releases,
                                        ready: {"unset", "True"}, rv: {0}]
          /\ \E version \in Versions, fs \in SUBSET {finalizer}, rdy \in ConditionStatus :
                /\ ec2.phase = "absent" => fs = {} /\ rdy = "unset"
                /\ ec2.phase = "present" =>
                      fs = {finalizer} /\ rdy \in {"unset", SyncConditions(ec2.ready, "unset", ec2.ready)}
                /\ nc = [phase |-> "present", version |-> version, finalizers |-> fs,
                         resolved |-> ec2.ready, ready |-> rdy, rv |-> 0]
    /\ hcpCache = hcp /\ secretsCache = secrets /\ ncCache = nc /\ ec2Cache = ec2
    /\ queued = (nc.phase # "absent") /\ timer = FALSE
    /\ pc = "idle" /\ n = NoNodeClass(0) /\ v = NoVersion /\ ready = "unset"
    /\ changes = 0

-----------------------------------------------------------------------------
(***************************************************************************)
(* The controller.                                                         *)
(***************************************************************************)
DropWork == n' = NoNodeClass(0) /\ v' = NoVersion /\ ready' = "unset"

(* Mutant: the version read by the last reconcile is kept.                 *)
MutKeepWork == pc' = "idle" /\ UNCHANGED <<queued, timer, workVars>>

Done == pc' = "idle" /\ DropWork /\ UNCHANGED <<queued, timer>>

Failed == pc' = "idle" /\ DropWork /\ queued' = TRUE /\ UNCHANGED timer

RequeueAfter == pc' = "idle" /\ DropWork /\ timer' = TRUE /\ UNCHANGED queued

(* Mutant: the EC2NodeClass is applied without the finalizer.              *)
MutNoFinalizer(cached) == "apply"

(* A live NodeClass gets the finalizer before anything is created for it.  *)
PresentStep(cached) ==
    IF finalizer \in cached.finalizers THEN "apply" ELSE "addFinalizer"

(* Mutant: an EC2NodeClass that is not found counts as existing.           *)
MutMissingExists(cached) == IF ec2Cache.phase = "present" THEN "delete" ELSE "wait"

(* A terminating NodeClass: deleteIfNeeded looks for the EC2NodeClass in   *)
(* the cache.                                                              *)
DeletingStep(cached) ==
    IF ec2Cache.phase = "present" THEN "delete"
    ELSE IF ec2Cache.phase = "deleting" THEN "wait"
    ELSE IF finalizer \in cached.finalizers THEN "removeFinalizer" ELSE "idle"

(* Reconcile up to its first write.  Nothing happens without an HCP or     *)
(* with the end-to-end test override.                                      *)
NextStep ==
    IF ~hcpCache.exists \/ hcpCache.override \/ ncCache.phase = "absent" THEN "idle"
    ELSE IF ncCache.phase = "deleting" THEN DeletingStep(ncCache) ELSE PresentStep(ncCache)

Reconcile ==
    /\ pc = "idle" /\ queued
    /\ queued' = FALSE
    /\ \/ /\ NextStep \in PCs \ {"idle"}
          /\ pc' = NextStep
          /\ n' = ncCache /\ v' = hcpCache.version
          /\ UNCHANGED <<timer, ready>>
       \/ NextStep = "idle" /\ UNCHANGED <<timer, pc, workVars>>
       \/ NextStep = "wait" /\ timer' = TRUE /\ UNCHANGED <<pc, workVars>>
    /\ UNCHANGED <<serverVars, cacheVars, changes>>

(* What the server keeps of a NodeClass written with these finalizers and  *)
(* conditions: nothing, once it is being deleted and has no finalizer.     *)
Written(phase, finalizers, resolved, rdy) ==
    IF phase = "deleting" /\ finalizers = {} THEN NoNodeClass(nc.rv + 1)
    ELSE [phase |-> phase, finalizers |-> finalizers, version |-> nc.version,
          resolved |-> resolved, ready |-> rdy, rv |-> nc.rv + 1]

(* Mutant: patches without the optimistic lock.                            *)
MutNoLock == nc.phase # "absent"

LockHolds == nc.phase # "absent" /\ nc.rv = n.rv

AddFinalizer ==
    /\ pc = "addFinalizer"
    /\ \/ /\ LockHolds
          /\ nc' = Written(nc.phase, n.finalizers \union {finalizer}, nc.resolved, nc.ready)
          /\ n' = nc' /\ pc' = "apply"
          /\ UNCHANGED <<queued, timer, v, ready>>
       \/ ~LockHolds /\ Failed /\ UNCHANGED nc
    /\ UNCHANGED <<hcp, secrets, ec2, cacheVars, changes>>

(* CreateOrUpdate of the EC2NodeClass read from the cache.  An object the  *)
(* cache does not have yet, or has in an old version, fails the write: the *)
(* update is sent on every reconcile, and one that changes nothing leaves  *)
(* the resource version alone.  An EC2NodeClass left over from an earlier  *)
(* NodeClass of the same name is taken over: owners are compared by name.  *)
ApplyEC2(release) ==
    \/ /\ ec2Cache.phase = "absent" /\ ec2.phase = "absent"
       /\ ec2' = [phase |-> "present", ready |-> "unset", rv |-> ec2.rv + 1,
                  release |-> ReconciledRelease(v, n.version, NoRelease, release)]
       /\ ready' = "unset" /\ pc' = "status"
       /\ UNCHANGED <<queued, timer, n, v>>
    \/ /\ ec2Cache.phase # "absent" /\ ec2.phase # "absent" /\ ec2Cache.rv = ec2.rv
       /\ LET r == ReconciledRelease(v, n.version, ec2.release, release) IN
            ec2' = IF r = ec2.release THEN ec2
                   ELSE [phase |-> ec2.phase, release |-> r, ready |-> ec2.ready,
                         rv |-> ec2.rv + 1]
       /\ ready' = ec2.ready /\ pc' = "status"
       /\ UNCHANGED <<queued, timer, n, v>>
    \/ /\ \/ ec2Cache.phase = "absent" /\ ec2.phase # "absent"
          \/ ec2Cache.phase # "absent" /\ (ec2.phase = "absent" \/ ec2Cache.rv # ec2.rv)
       /\ Failed
       /\ UNCHANGED ec2

reconcileEC2NodeClass ==
    /\ pc = "apply"
    /\ \/ GetUserDataSecret(secretsCache) = "notFound" /\ RequeueAfter /\ UNCHANGED ec2
       \/ GetUserDataSecret(secretsCache) = "ambiguous" /\ Failed /\ UNCHANGED ec2
       \/ /\ GetUserDataSecret(secretsCache) = "found"
          /\ \E release \in secretsCache : ApplyEC2(release)
    /\ UNCHANGED <<hcp, secrets, nc, cacheVars, changes>>

(* A status patch replaces the whole list of conditions, the ignition      *)
(* controller's included.                                                  *)
reconcileStatus ==
    /\ pc = "status"
    /\ LET synced == SyncConditions(n.resolved, n.ready, ready) IN
       \/ synced = n.ready /\ Done /\ UNCHANGED nc
       \/ /\ synced # n.ready /\ LockHolds
          /\ nc' = Written(nc.phase, nc.finalizers, n.resolved, synced)
          /\ Done
       \/ synced # n.ready /\ ~LockHolds /\ Failed /\ UNCHANGED nc
    /\ UNCHANGED <<hcp, secrets, ec2, cacheVars, changes>>

(* deleteIfNeeded, its Delete.  Karpenter's finalizer keeps an EC2NodeClass *)
(* that is in use.                                                         *)
deleteIfNeeded ==
    /\ pc = "delete"
    /\ \/ /\ ec2.phase = "present"
          /\ \/ ec2' = [phase |-> "deleting", release |-> ec2.release,
                        ready |-> ec2.ready, rv |-> ec2.rv + 1]
             \/ ec2' = NoEC2(ec2.rv + 1)
          /\ RequeueAfter
       \/ ec2.phase = "deleting" /\ RequeueAfter /\ UNCHANGED ec2
       \/ /\ ec2.phase = "absent" /\ finalizer \in n.finalizers
          /\ pc' = "removeFinalizer"
          /\ UNCHANGED <<ec2, queued, timer, workVars>>
       \/ ec2.phase = "absent" /\ finalizer \notin n.finalizers /\ Done /\ UNCHANGED ec2
    /\ UNCHANGED <<hcp, secrets, nc, cacheVars, changes>>

RemoveFinalizer ==
    /\ pc = "removeFinalizer"
    /\ \/ /\ LockHolds
          /\ nc' = Written(nc.phase, n.finalizers \ {finalizer}, nc.resolved, nc.ready)
          /\ Done
       \/ ~LockHolds /\ Failed /\ UNCHANGED nc
    /\ UNCHANGED <<hcp, secrets, ec2, cacheVars, changes>>

TimerFires ==
    /\ timer
    /\ timer' = FALSE /\ queued' = TRUE
    /\ UNCHANGED <<pc, workVars, serverVars, cacheVars, changes>>

(* Any API call may fail.                                                  *)
APIError ==
    /\ pc # "idle" /\ changes < MaxChanges
    /\ Failed
    /\ changes' = changes + 1
    /\ UNCHANGED <<serverVars, cacheVars>>

(* The operator restarts and lists everything again.                       *)
Restart ==
    /\ changes < MaxChanges
    /\ hcpCache' = hcp /\ secretsCache' = secrets /\ ncCache' = nc /\ ec2Cache' = ec2
    /\ queued' = (nc.phase # "absent" \/ ec2.phase # "absent" \/ secrets # {})
    /\ timer' = FALSE /\ pc' = "idle" /\ DropWork
    /\ changes' = changes + 1
    /\ UNCHANGED serverVars

Controller == \/ Reconcile \/ AddFinalizer \/ reconcileEC2NodeClass
              \/ reconcileStatus \/ deleteIfNeeded \/ RemoveFinalizer

-----------------------------------------------------------------------------
(***************************************************************************)
(* The informers.  A change of the NodeClass or of the EC2NodeClass wakes  *)
(* the controller, and so does a new Secret, but not the deletion of one.  *)
(***************************************************************************)
SyncNodeClass ==
    /\ ncCache # nc
    /\ ncCache' = nc /\ queued' = TRUE
    /\ UNCHANGED <<hcpCache, secretsCache, ec2Cache>>
    /\ UNCHANGED <<timer, pc, workVars, serverVars, changes>>

SyncEC2 ==
    /\ ec2Cache # ec2
    /\ ec2Cache' = ec2 /\ queued' = TRUE
    /\ UNCHANGED <<hcpCache, secretsCache, ncCache>>
    /\ UNCHANGED <<timer, pc, workVars, serverVars, changes>>

SyncSecrets ==
    /\ secretsCache # secrets
    /\ secretsCache' = secrets
    /\ queued' = (queued \/ secrets \ secretsCache # {})
    /\ UNCHANGED <<hcpCache, ncCache, ec2Cache>>
    /\ UNCHANGED <<timer, pc, workVars, serverVars, changes>>

(* Mutant: changes of the control plane version are filtered out.          *)
MutPredicate(old, new) == new.exists /\ ~old.exists

(* hcpPredicate: creation, and changes of the control plane version.       *)
hcpPredicate(old, new) ==
    new.exists /\ (~old.exists \/ old.version # new.version)

(* mapToOpenShiftEC2NodeClasses lists the NodeClasses from the cache.      *)
SyncHCP ==
    /\ hcpCache # hcp
    /\ hcpCache' = hcp
    /\ queued' = (queued \/ (hcpPredicate(hcpCache, hcp) /\ ncCache.phase # "absent"))
    /\ UNCHANGED <<secretsCache, ncCache, ec2Cache>>
    /\ UNCHANGED <<timer, pc, workVars, serverVars, changes>>

Informers == SyncNodeClass \/ SyncEC2 \/ SyncSecrets \/ SyncHCP

-----------------------------------------------------------------------------
(***************************************************************************)
(* The other actors.                                                       *)
(***************************************************************************)
Change == changes < MaxChanges /\ changes' = changes + 1

UserStep ==
    /\ Change
    /\ \/ /\ nc.phase = "absent"
          /\ \E version \in Versions :
                nc' = [phase |-> "present", finalizers |-> {}, version |-> version,
                       resolved |-> "unset", ready |-> "unset", rv |-> nc.rv + 1]
       \/ /\ nc.phase = "present"
          /\ nc' = Written("deleting", nc.finalizers, nc.resolved, nc.ready)
    /\ UNCHANGED <<hcp, secrets, ec2, cacheVars, ctrlVars>>

(* The ignition controller resolves the version of the NodeClass and       *)
(* creates and deletes its user data Secrets.                              *)
IgnitionStep ==
    /\ Change
    /\ \/ /\ nc.phase # "absent"
          /\ \E s \in {"False", "True"} \ {nc.resolved} :
                nc' = Written(nc.phase, nc.finalizers, s, nc.ready)
          /\ UNCHANGED secrets
       \/ \E r \in Releases \ secrets : secrets' = secrets \union {r} /\ UNCHANGED nc
       \/ \E r \in secrets : secrets' = secrets \ {r} /\ UNCHANGED nc
    /\ UNCHANGED <<hcp, ec2, cacheVars, ctrlVars>>

(* The HyperShift operator: the HCP is created, upgraded, completes an     *)
(* upgrade, gets or loses the test override.                               *)
HyperShiftStep ==
    /\ Change
    /\ \/ \E r \in Releases \ {hcp.version.desired} :
             hcp' = [exists |-> TRUE, override |-> hcp.override,
                     version |-> [desired |-> r, completed |-> hcp.version.completed]]
       \/ /\ hcp.exists /\ hcp.version.completed # hcp.version.desired
          /\ hcp' = [exists |-> TRUE, override |-> hcp.override,
                     version |-> [desired |-> hcp.version.desired,
                                  completed |-> hcp.version.desired]]
       \/ /\ hcp.exists
          /\ hcp' = [exists |-> TRUE, override |-> ~hcp.override, version |-> hcp.version]
    /\ UNCHANGED <<secrets, nc, ec2, cacheVars, ctrlVars>>

(* Karpenter validates the EC2NodeClass and lets it go once it is unused.  *)
KarpenterStatus ==
    /\ Change /\ ec2.phase # "absent"
    /\ \E s \in {"False", "True"} \ {ec2.ready} :
          ec2' = [phase |-> ec2.phase, release |-> ec2.release, ready |-> s,
                  rv |-> ec2.rv + 1]
    /\ UNCHANGED <<hcp, secrets, nc, cacheVars, ctrlVars>>

KarpenterFinalize ==
    /\ ec2.phase = "deleting"
    /\ ec2' = NoEC2(ec2.rv + 1)
    /\ UNCHANGED <<hcp, secrets, nc, cacheVars, ctrlVars, changes>>

Environment == UserStep \/ IgnitionStep \/ HyperShiftStep \/ KarpenterStatus

Next == Controller \/ TimerFires \/ APIError \/ Restart \/ Informers
        \/ Environment \/ KarpenterFinalize

Spec == Init /\ [][Next]_vars

(* The worker, its timer and its informers run; Karpenter finalizes an     *)
(* EC2NodeClass that is no longer used.                                    *)
Fairness ==
    /\ WF_vars(Controller) /\ WF_vars(TimerFires)
    /\ WF_vars(SyncNodeClass) /\ WF_vars(SyncEC2)
    /\ WF_vars(SyncSecrets) /\ WF_vars(SyncHCP)
    /\ WF_vars(KarpenterFinalize)

FairSpec == Spec /\ Fairness

-----------------------------------------------------------------------------
(***************************************************************************)
(* Properties.                                                             *)
(***************************************************************************)

(* Even on stale caches, the EC2NodeClass is only created while the        *)
(* OpenshiftEC2NodeClass on the server holds the finalizer that guards it. *)
FinalizerBeforeCreate ==
    [][(ec2.phase = "absent" /\ ec2'.phase = "present")
         => finalizer \in nc.finalizers]_vars

(* The status patch of reconcileStatus sends the whole list of conditions, *)
(* yet never undoes what the ignition controller wrote to VersionResolved. *)
IgnitionConditionsPreserved ==
    [][(pc' # pc /\ nc'.phase # "absent") => nc'.resolved = nc.resolved]_vars

(* Ready only turns True while the version is resolved on the server, not  *)
(* just in the copy of the NodeClass that the reconcile has read.          *)
ReadyOnlyResolved ==
    [][(nc'.ready = "True" /\ nc.ready # "True") => nc.resolved = "True"]_vars

(* What resolvedSubnetIDs of the subnet controller relies on: "Its         *)
(* finalizer is only removed after the derived EC2NodeClass is gone".      *)
FinalizerOutlivesEC2 ==
    [][(finalizer \in nc.finalizers /\ finalizer \notin nc'.finalizers)
         => ec2.phase = "absent"]_vars

(* A NodeClass that is being deleted goes, as long as the test override is *)
(* not used (its removal wakes nobody).                                    *)
NodeClassDeleted ==
    [](~hcp.override) => ~<>[](nc.phase = "deleting" /\ hcp.exists)

(* Once the user data Secret settles and no upgrade holds the NodeClass    *)
(* back, the EC2NodeClass gets its release: the end of an upgrade, a new   *)
(* Secret and a lost update all lead to another reconcile.                 *)
ReleaseFollowsSecret ==
    [](~hcp.override) =>
        \A r \in Releases :
            <>[](/\ nc.phase = "present" /\ hcp.exists /\ secrets = {r}
                 /\ ~WaitsForControlPlaneUpgrade(hcp.version, nc.version))
                => <>[](ec2.phase = "present" /\ ec2.release = r)

(* Once the version is not resolved for good, Ready is False for good.     *)
UnresolvedNotReady ==
    [](~hcp.override) =>
        (<>[](/\ nc.phase = "present" /\ hcp.exists /\ Cardinality(secrets) = 1
              /\ nc.resolved # "True")
            => <>[](nc.ready = "False"))

(* The EC2NodeClass and the Ready condition are those of this control      *)
(* plane version and these Secrets.                                        *)
Follows(version, sec) ==
    /\ \A r \in sec : WaitsForControlPlaneUpgrade(version, nc.version) \/ ec2.release = r
    /\ sec # {} => /\ ec2.phase # "absent"
                   /\ nc.ready = SyncConditions(nc.resolved, nc.ready, ec2.ready)

(* The safety side of the three: in a state at rest, where nothing is      *)
(* queued, timed or in progress and the informers have delivered           *)
(* everything, a live NodeClass is reconciled in full, Ready included, as  *)
(* far as its Secret exists, and none is being deleted.                    *)
RestsOnlyFollowed ==
    /\ ~queued /\ ~timer /\ pc = "idle" /\ hcp.exists
    /\ hcpCache = hcp /\ secretsCache = secrets /\ ncCache = nc /\ ec2Cache = ec2
    => /\ nc.phase = "present" => Follows(hcp.version, secrets)
       /\ nc.phase # "deleting"

(* So it is as long as the test override is not used.                      *)
RestsFollowedWithoutOverride == [](~hcp.override) => []RestsOnlyFollowed

-----------------------------------------------------------------------------
(***************************************************************************)
(* The inductive invariant behind the three action properties.             *)
(***************************************************************************)

(* The cache, and the reconcile in progress, hold an earlier NodeClass, or *)
(* the current one.                                                        *)
Outdated(old, new) == old.rv <= new.rv /\ (old.rv = new.rv => old = new)

CacheBehind == Outdated(ncCache, nc)
WorkBehind == pc # "idle" => Outdated(n, nc)

(* A deletion works on what the cache holds, or on an earlier version.     *)
DeletionBehind ==
    pc \in {"delete", "removeFinalizer"} => n.phase = "deleting" /\ Outdated(n, ncCache)

(* The finalizer of a live NodeClass is not removed behind the cache.      *)
CachedFinalizer ==
    ncCache.phase = "present" /\ finalizer \in ncCache.finalizers => finalizer \in nc.finalizers

AbsentIsBare == nc.phase = "absent" => nc.finalizers = {}

(* The reconcile of a live NodeClass runs under the finalizer.             *)
AppliesGuarded == pc \in {"apply", "status"} => finalizer \in nc.finalizers

IInv == /\ TypeOK
        /\ CacheBehind /\ WorkBehind /\ DeletionBehind /\ CachedFinalizer
        /\ AbsentIsBare /\ AppliesGuarded

-----------------------------------------------------------------------------
(***************************************************************************)
(* The inductive invariant behind RestsOnlyFollowed, without the override. *)
(***************************************************************************)
DeletingHeld == nc.phase = "deleting" => finalizer \in nc.finalizers
FewSecrets == IsFiniteSet(secrets) /\ IsFiniteSet(secretsCache)
EC2Behind == ec2Cache.rv <= ec2.rv /\ (ec2Cache.rv = ec2.rv => ec2Cache = ec2)

(* A reconcile that is not a deletion works on a live NodeClass.           *)
LiveWork == pc \in {"addFinalizer", "apply", "status"} => n.phase = "present"

(* The HCP is created once; the operator's teardown is another controller. *)
HCPStays == hcpCache.exists => hcp.exists

(* Nothing is started without an HCP or with the override.                 *)
NotOverridden == ~hcpCache.override /\ (pc # "idle" => hcpCache.exists)

(* At most one Secret, and it is followed.                                 *)
Reconciled == (\A r, s \in secretsCache : r = s) /\ Follows(hcpCache.version, secretsCache)

(* Unless another event is to come, a reconcile works on what the caches   *)
(* hold, and leaves nothing to do behind, or a timer.                      *)
UpToDate ==
    ~queued /\ ncCache = nc /\ ec2Cache = ec2 =>
        /\ pc = "idle" /\ ~timer /\ nc.phase = "present" /\ hcpCache.exists => Reconciled
        /\ pc = "idle" /\ ~timer /\ hcpCache.exists => nc.phase # "deleting"
        /\ pc # "idle" => n = nc /\ v = hcpCache.version
        /\ pc = "status" =>
              /\ ready = ec2.ready /\ ec2.phase # "absent"
              /\ \A r, s \in secretsCache : r = s
              /\ \A r \in secretsCache :
                    WaitsForControlPlaneUpgrade(v, nc.version) \/ ec2.release = r

RestInv == /\ IInv /\ DeletingHeld /\ FewSecrets /\ EC2Behind
           /\ LiveWork /\ HCPStays /\ NotOverridden /\ UpToDate
=============================================================================

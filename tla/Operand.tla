------------------------------- MODULE Operand -------------------------------
(***************************************************************************)
(* The karpenter controllers, which deploy the operand: HCPController for  *)
(* a HostedControlPlane in management mode ("hcp"), OCPController for the  *)
(* Karpenter CR of a standalone cluster ("ocp").  The HostedControlPlane   *)
(* or the Karpenter CR owns every object of the operand.                   *)
(*                                                                         *)
(* A reconcile reads its owner from a cache and applies one object after   *)
(* the other.  All are forced server-side applies; only the ServiceAccount *)
(* is first read, from a cache, because its list of pull secrets is shared *)
(* with other writers.                                                     *)
(***************************************************************************)
EXTENDS Naturals, SequencesExt

CONSTANTS
    MaxVersion,   \* bound on the upgrades of the control plane
    MaxUID,       \* bound on the incarnations of the owner
    MaxChanges    \* bound on changes of other actors, errors and restarts

ASSUME ConstantsAssumption ==
    MaxVersion \in Nat \ {0} /\ MaxUID \in Nat \ {0} /\ MaxChanges \in Nat

VARIABLES
    \* The configuration: mode, platform, and whether an image is set
    config,
    \* The API server
    owner,        \* the HostedControlPlane or the Karpenter CR
    obj,          \* the objects of the operand
    secrets,      \* pull secrets of the ServiceAccount
    ownsList,     \* the operator is the field manager of that list
    \* The operator's informer caches
    ownerCache,
    saCache,      \* what is cached of the ServiceAccount
    saLag,        \* it has changed since
    event,        \* an event of another object is on its way
    \* The controller
    queued, timer,
    pc,           \* position in the list of objects, 0 when idle
    h,            \* the owner this reconcile works on
    \* Bounds
    changes

serverVars == <<owner, obj, secrets, ownsList>>
cacheVars == <<ownerCache, saCache, saLag, event>>
ctrlVars == <<queued, timer, pc, h>>
vars == <<config, owner, obj, secrets, ownsList, ownerCache, saCache, saLag, event,
          queued, timer, pc, h, changes>>

Configs == [mode: {"hcp"}, platform: {"AWS", "Azure"}, image: {"none", "release"}]
           \union [mode: {"ocp"}, platform: {"AWS"}, image: {"none", "release"}]

(* spec stands for the field that goes into the pod: the InfraID of the    *)
(* HostedControlPlane, the log level of the Karpenter CR.                  *)
PullSecrets == {"pull", "custom"}
Owners == [phase: {"absent", "present"}, uid: 1..MaxUID, karpenter: BOOLEAN,
           version: 0..MaxVersion, pullSecret: PullSecrets \union {"none"},
           override: {"none", "custom"}, spec: 1..2]
NoOwner == [phase |-> "absent", uid |-> 1, karpenter |-> FALSE, version |-> 0,
            pullSecret |-> "none", override |-> "none", spec |-> 1]
NewOwners(uid) ==
    IF config.mode = "hcp"
    THEN [phase: {"present"}, uid: {uid}, karpenter: {TRUE}, version: {0, 1},
          pullSecret: {"pull"}, override: {"none"}, spec: {1}]
    ELSE [phase: {"present"}, uid: {uid}, karpenter: {FALSE}, version: {0},
          pullSecret: {"none"}, override: {"none"}, spec: {1}]

(* An object: the owner it refers to, and its contents.                    *)
Absent == [uid |-> 0, data |-> <<>>]
Manifest == <<"manifest">>
Foreign == <<"edited">>

-----------------------------------------------------------------------------
(***************************************************************************)
(* The pod of the operand, put together from fixed parts, parts of the     *)
(* cloud provider and parts of the mode.  A file is known by the directory *)
(* it is in.                                                               *)
(***************************************************************************)
Mount(volume, path) == [volume |-> volume, path |-> path]

AWSOperandConfig ==
    [env |-> <<"AWS_REGION", "AWS_SHARED_CREDENTIALS_FILE", "AWS_SDK_LOAD_CONFIG">>,
     files |-> {"/etc/provider"}, volumes |-> <<"provider-creds">>,
     mounts |-> {Mount("provider-creds", "/etc/provider")}]

(* The path of the Azure token is a setting of the operator's own process  *)
(* (AZURE_FEDERATED_TOKEN_FILE, passed on as it is).  It is assumed to be  *)
(* the documented one: "In HCP this is the token-minter output at          *)
(* /var/run/secrets/openshift/serviceaccount/token".                       *)
AzureOperandConfig ==
    [env |-> <<"LOCATION", "AZURE_CLIENT_ID", "AZURE_TENANT_ID", "AZURE_SUBSCRIPTION_ID",
               "AZURE_FEDERATED_TOKEN_FILE", "VNET_SUBNET_ID",
               "AZURE_NODE_RESOURCE_GROUP", "PROVISION_MODE">>,
     files |-> {"/var/run/secrets/openshift/serviceaccount"},
     volumes |-> <<>>, mounts |-> {}]

OperandConfig(c) == IF c.platform = "AWS" THEN AWSOperandConfig ELSE AzureOperandConfig

(* What HCPController adds; the standalone operand adds nothing.           *)
cloudTokenMount == Mount("cloud-token", "/var/run/secrets/openshift/serviceaccount")
kubeconfigMount == Mount("target-kubeconfig", "/mnt/kubeconfig")

additional(c) ==
    IF c.mode = "hcp"
    THEN [env |-> <<"KUBECONFIG", "DISABLE_LEADER_ELECTION">>, files |-> {"/mnt/kubeconfig"},
          volumes |-> <<"target-kubeconfig", "cloud-token">>,
          mounts |-> {kubeconfigMount, cloudTokenMount}]
    ELSE [env |-> <<>>, files |-> {}, volumes |-> <<>>, mounts |-> {}]

tokenMinterContainer ==
    [env |-> <<>>, files |-> {kubeconfigMount.path, cloudTokenMount.path},
     mounts |-> {kubeconfigMount, cloudTokenMount}]

initContainers(c) == IF c.mode = "hcp" THEN {tokenMinterContainer} ELSE {}

buildEnv(c) ==
    <<"SYSTEM_NAMESPACE", "CLUSTER_NAME", "CLUSTER_ENDPOINT", "DISABLE_WEBHOOK",
      "HEALTH_PROBE_PORT">> \o OperandConfig(c).env

(* Mutant: the volumes of the mode are forgotten.                          *)
MutPodSpec(c) ==
    [containers |-> initContainers(c) \union
        {[env |-> buildEnv(c) \o additional(c).env,
          files |-> OperandConfig(c).files \union additional(c).files,
          mounts |-> OperandConfig(c).mounts \union additional(c).mounts
                     \union {Mount("tmp", "/tmp")}]},
     volumes |-> OperandConfig(c).volumes \o <<"tmp">>]

buildPodSpec(c) ==
    [containers |-> initContainers(c) \union
        {[env |-> buildEnv(c) \o additional(c).env,
          files |-> OperandConfig(c).files \union additional(c).files,
          mounts |-> OperandConfig(c).mounts \union additional(c).mounts
                     \union {Mount("tmp", "/tmp")}]},
     volumes |-> OperandConfig(c).volumes \o additional(c).volumes \o <<"tmp">>]

-----------------------------------------------------------------------------
(***************************************************************************)
(* What the operand should be.                                             *)
(***************************************************************************)
karpenterImage(o) == IF o.override # "none" THEN o.override ELSE config.image

(* The objects in the order they are applied.  The roles of Karpenter and  *)
(* of its provider are applied in one loop per kind.                       *)
Order ==
    IF config.mode = "hcp" THEN <<"serviceaccount", "deployment", "podmonitor">>
    ELSE <<"serviceaccount", "clusterroles", "clusterrolebindings", "roles",
           "rolebindings", "deployment", "podmonitor">>
Objects == Range(Order)

(* The version is an annotation of the Deployment, in management mode.     *)
buildDeployment(o) == <<karpenterImage(o), o.version, o.spec>>
buildPodMonitor == Manifest

Desired(k, o) ==
    [uid |-> o.uid,
     data |-> IF k = "deployment" THEN buildDeployment(o)
              ELSE IF k = "podmonitor" THEN buildPodMonitor ELSE Manifest]

(* Mutant: HCPController does not wait for the version.                    *)
MutNoVersionGate(o) ==
    IF o.phase = "absent" \/ (config.mode = "hcp" /\ ~o.karpenter) THEN "done"
    ELSE IF karpenterImage(o) = "none" THEN "error" ELSE "apply"

Gate(o) ==
    IF o.phase = "absent" \/ (config.mode = "hcp" /\ ~o.karpenter) THEN "done"
    ELSE IF config.mode = "hcp" /\ o.version = 0 THEN "wait"
    ELSE IF karpenterImage(o) = "none" THEN "error" ELSE "apply"

hcpOperandChanged(old, new) ==
    \/ old.spec # new.spec \/ old.pullSecret # new.pullSecret
    \/ old.karpenter # new.karpenter
    \/ old.version # new.version \/ old.override # new.override

hcpOperandReconcilePredicate(old, new) ==
    old.phase = "absent" \/ new.phase = "absent" \/ hcpOperandChanged(old, new)

-----------------------------------------------------------------------------
Init ==
    /\ config \in Configs
    /\ owner \in {NoOwner} \union NewOwners(1) /\ ownerCache = owner
    /\ obj = [k \in Objects |-> Absent] /\ secrets = {} /\ ownsList = FALSE
    /\ saCache = [known |-> FALSE, secrets |-> {}] /\ saLag = FALSE /\ event = FALSE
    /\ queued = (owner.phase = "present") /\ timer = FALSE
    /\ pc = 0 /\ h = NoOwner /\ changes = 0

(***************************************************************************)
(* The controller.                                                         *)
(***************************************************************************)
(* Mutant: an error is not returned.                                       *)
MutSwallowed == pc' = 0 /\ h' = NoOwner /\ UNCHANGED <<queued, timer>>

Failed == pc' = 0 /\ h' = NoOwner /\ queued' = TRUE /\ UNCHANGED timer

(* Mutant: the owner of this reconcile is kept for the next one.           *)
MutKeepsOwner ==
    /\ IF pc < Len(Order) THEN pc' = pc + 1 ELSE pc' = 0
    /\ UNCHANGED <<h, queued, timer>>

Advance ==
    /\ IF pc < Len(Order) THEN pc' = pc + 1 /\ UNCHANGED h ELSE pc' = 0 /\ h' = NoOwner
    /\ UNCHANGED <<queued, timer>>

Reconcile ==
    /\ pc = 0 /\ queued
    /\ LET gate == Gate(ownerCache) IN
       /\ queued' = (gate = "error")
       /\ timer' = (timer \/ gate = "wait")
       /\ IF gate = "apply" THEN pc' = 1 /\ h' = ownerCache ELSE UNCHANGED <<pc, h>>
    /\ UNCHANGED <<config, serverVars, cacheVars, changes>>

(* The list of pull secrets that is applied: the cached one and the one of *)
(* the owner.  An apply without a list gives up a list it had set.         *)
AppliedSecrets ==
    LET list == saCache.secrets \union ({h.pullSecret} \ {"none"})
    IN IF list # {} THEN list ELSE IF ownsList THEN {} ELSE secrets

(* Mutant: the apply is not tied to the version that was read.             *)
MutNoLock == TRUE

(* The apply carries the resourceVersion of the cached ServiceAccount;     *)
(* there is none if it is not cached.                                      *)
LockHolds == ~saCache.known \/ ~saLag

applyServiceAccount ==
    /\ pc # 0 /\ Order[pc] = "serviceaccount"
    /\ \/ /\ LockHolds
          /\ obj' = [obj EXCEPT !["serviceaccount"] = Desired("serviceaccount", h)]
          /\ secrets' = AppliedSecrets
          /\ ownsList' = (saCache.secrets # {} \/ h.pullSecret # "none")
          /\ saLag' = (saLag \/ obj' # obj \/ secrets' # secrets)
          /\ Advance
       \/ ~LockHolds /\ Failed /\ UNCHANGED <<obj, secrets, ownsList, saLag>>
    /\ UNCHANGED <<config, owner, ownerCache, saCache, event, changes>>

(* applyRoles, applyDeployment and the others.                             *)
Apply ==
    /\ pc # 0 /\ Order[pc] # "serviceaccount"
    /\ obj' = [obj EXCEPT ![Order[pc]] = Desired(Order[pc], h)]
    /\ event' = (event \/ obj' # obj)
    /\ Advance
    /\ UNCHANGED <<config, owner, secrets, ownsList, ownerCache, saCache, saLag, changes>>

TimerFires ==
    /\ timer
    /\ timer' = FALSE /\ queued' = TRUE
    /\ UNCHANGED <<config, serverVars, cacheVars, pc, h, changes>>

Controller == Reconcile \/ applyServiceAccount \/ Apply \/ TimerFires

Change == changes < MaxChanges /\ changes' = changes + 1

(* Any API call may fail.                                                  *)
APIError ==
    /\ pc # 0 /\ Change /\ Failed
    /\ UNCHANGED <<config, serverVars, cacheVars>>

(* The operator restarts: every object of its watches is a create event.   *)
Restart ==
    /\ Change
    /\ ownerCache' = owner /\ saLag' = FALSE /\ event' = FALSE
    /\ saCache' = [known |-> obj["serviceaccount"] # Absent, secrets |-> secrets]
    /\ queued' = (owner.phase = "present" \/ \E k \in Objects : obj[k] # Absent)
    /\ timer' = FALSE /\ pc' = 0 /\ h' = NoOwner
    /\ UNCHANGED <<config, serverVars>>

-----------------------------------------------------------------------------
(***************************************************************************)
(* The informers.                                                          *)
(***************************************************************************)
(* An owner that was deleted and created again shows as two events, or, if *)
(* the informer had to list again, as one update.                          *)
SyncOwner ==
    /\ ownerCache # owner
    /\ ownerCache' = owner
    /\ \/ config.mode = "hcp"
          /\ queued' = (queued \/ hcpOperandReconcilePredicate(ownerCache, owner))
       \/ config.mode = "ocp" /\ queued' = TRUE
       \/ ownerCache.uid # owner.uid /\ queued' = TRUE
    /\ UNCHANGED <<config, serverVars, saCache, saLag, event, timer, pc, h, changes>>

SyncServiceAccount ==
    /\ saLag
    /\ saCache' = [known |-> obj["serviceaccount"] # Absent, secrets |-> secrets]
    /\ saLag' = FALSE /\ queued' = TRUE
    /\ UNCHANGED <<config, serverVars, ownerCache, event, timer, pc, h, changes>>

SyncObjects ==
    /\ event
    /\ event' = FALSE /\ queued' = TRUE
    /\ UNCHANGED <<config, serverVars, ownerCache, saCache, saLag, timer, pc, h, changes>>

-----------------------------------------------------------------------------
(***************************************************************************)
(* The other actors.                                                       *)
(***************************************************************************)
(* HyperShift, or the user of a standalone cluster.                        *)
OwnerStep ==
    /\ Change
    /\ \/ owner.phase = "absent" /\ owner.version = 0 /\ owner' \in NewOwners(owner.uid)
       \/ owner.phase = "present" /\ owner.uid < MaxUID
          /\ \/ owner' = [NoOwner EXCEPT !.uid = owner.uid + 1]
             \/ owner' \in NewOwners(owner.uid + 1)
       \/ owner.phase = "present" /\ owner' = [owner EXCEPT !.spec = 3 - @]
       \/ /\ owner.phase = "present"
          /\ \E i \in {"none", "custom"} \ {owner.override} : owner' = [owner EXCEPT !.override = i]
       \/ /\ config.mode = "hcp" /\ owner.phase = "present"
          /\ \/ owner' = [owner EXCEPT !.karpenter = ~@]
             \/ owner.version < MaxVersion /\ owner' = [owner EXCEPT !.version = @ + 1]
             \/ \E s \in (PullSecrets \union {"none"}) \ {owner.pullSecret} :
                    owner' = [owner EXCEPT !.pullSecret = s]
    /\ UNCHANGED <<config, obj, secrets, ownsList, cacheVars, ctrlVars>>

(* The object changes, and is on its way to the caches.                    *)
Disturb(k, contents) ==
    /\ obj' = [obj EXCEPT ![k] = contents]
    /\ IF k = "serviceaccount"
       THEN saLag' = TRUE /\ UNCHANGED event
       ELSE event' = TRUE /\ UNCHANGED saLag

(* Somebody edits or deletes an object of the operand.                     *)
OtherWrite(k) ==
    /\ Change
    /\ obj[k] # Absent
    /\ \/ Disturb(k, [obj[k] EXCEPT !.data = Foreign]) /\ UNCHANGED <<secrets, ownsList>>
       \/ /\ Disturb(k, Absent)
          /\ IF k = "serviceaccount" THEN secrets' = {} /\ ownsList' = FALSE
             ELSE UNCHANGED <<secrets, ownsList>>
    /\ UNCHANGED <<config, owner, ownerCache, saCache, ctrlVars>>

(* The cluster adds its registry credentials to the ServiceAccount.        *)
AddPullSecret ==
    /\ Change
    /\ obj["serviceaccount"] # Absent /\ "registry" \notin secrets
    /\ secrets' = secrets \union {"registry"} /\ ownsList' = FALSE
    /\ saLag' = TRUE
    /\ UNCHANGED <<config, owner, obj, ownerCache, saCache, event, ctrlVars>>

(* The garbage collector deletes an object whose owner does not exist.     *)
GarbageCollect(k) ==
    /\ obj[k] # Absent
    /\ owner.phase = "absent" \/ obj[k].uid # owner.uid
    /\ Disturb(k, Absent)
    /\ IF k = "serviceaccount" THEN secrets' = {} /\ ownsList' = FALSE
       ELSE UNCHANGED <<secrets, ownsList>>
    /\ UNCHANGED <<config, owner, ownerCache, saCache, ctrlVars, changes>>

Next ==
    \/ Controller \/ APIError \/ Restart
    \/ SyncOwner \/ SyncServiceAccount \/ SyncObjects
    \/ OwnerStep \/ AddPullSecret
    \/ \E k \in Objects : OtherWrite(k) \/ GarbageCollect(k)

Spec == Init /\ [][Next]_vars

(* The worker, the informers and the garbage collector keep running.       *)
Fairness ==
    /\ WF_vars(Reconcile \/ applyServiceAccount \/ Apply) /\ WF_vars(TimerFires)
    /\ WF_vars(SyncOwner) /\ WF_vars(SyncServiceAccount) /\ WF_vars(SyncObjects)
    /\ WF_vars(\E k \in Objects : GarbageCollect(k))

FairSpec == Spec /\ Fairness
-----------------------------------------------------------------------------
Contents == {<<>>, Manifest, Foreign}
            \union ({"none", "release", "custom"} \X (0..MaxVersion) \X (1..2))

TypeOK ==
    /\ config \in Configs
    /\ owner \in Owners /\ ownerCache \in Owners /\ h \in Owners
    /\ obj \in [Objects -> [uid: 0..MaxUID, data: Contents]]
    /\ secrets \subseteq PullSecrets \union {"registry"}
    /\ saCache \in [known: BOOLEAN, secrets: SUBSET (PullSecrets \union {"registry"})]
    /\ ownsList \in BOOLEAN /\ saLag \in BOOLEAN /\ event \in BOOLEAN
    /\ queued \in BOOLEAN /\ timer \in BOOLEAN
    /\ pc \in 0..Len(Order) /\ (pc = 0 <=> h.phase = "absent")
    /\ changes \in 0..MaxChanges
    /\ obj["serviceaccount"] = Absent => secrets = {} /\ ~ownsList

(* An apply of the ServiceAccount drops no pull secret that others, or an  *)
(* earlier reconcile, have put there, although the applied list replaces   *)
(* the whole one and is built from a cached copy: the resourceVersion      *)
(* refuses a stale one.  This is so once the ServiceAccount is cached.     *)
PullSecretsPreserved ==
    [][(applyServiceAccount /\ saCache.known) => secrets \subseteq secrets']_vars

(* The version annotation of the Deployment, which HyperShift follows      *)
(* during an upgrade, is always set in management mode and never goes back *)
(* while the HostedControlPlane lives: the version is read from a cache    *)
(* and applied two API calls later.                                        *)
VersionTracked ==
    [][LET old == obj["deployment"]
           new == obj'["deployment"]
       IN (config.mode = "hcp" /\ Apply /\ new # old) =>
            (new.data[2] # 0 /\ (old.uid = new.uid /\ old.data # Foreign => old.data[2] <= new.data[2]))
      ]_vars

(* The pod can be created and finds its files: server-side apply refuses a *)
(* name that is listed twice, a mount needs its volume, and what variables *)
(* and arguments point to must be mounted in the same container.  The      *)
(* parts come from the provider, the mode and buildPodSpec; on Azure the   *)
(* token file is taken to be set to its documented path.                   *)
PodSpecConsistent ==
    LET pod == buildPodSpec(config) IN
    obj["deployment"] # Absent =>
        /\ IsInjective(pod.volumes)
        /\ \A c \in pod.containers :
            /\ IsInjective(c.env)
            /\ \A m \in c.mounts : m.volume \in Range(pod.volumes)
            /\ \A m, n \in c.mounts : m.path = n.path => m = n
            /\ c.files \subseteq {m.path : m \in c.mounts}

Complete ==
    /\ \A k \in Objects : obj[k] = Desired(k, owner)
    /\ {owner.pullSecret} \ {"none"} \subseteq secrets

(* An operand that is wanted ends up complete and owned by the current     *)
(* owner, and one whose owner is gone disappears: after partial applies,   *)
(* conflicts, restarts, stray edits, and an owner that was replaced while  *)
(* the operator still applied objects for the previous one.                *)
OperandConverges ==
    /\ <>[](Gate(owner) = "apply") => <>[]Complete
    /\ <>[](owner.phase = "absent") => <>[](\A k \in Objects : obj[k] = Absent)

(* The safety side of it: in a state at rest, where nothing is queued or   *)
(* in progress, the informers have delivered everything and there is       *)
(* nothing to collect, an operand that is wanted is complete.              *)
RestsOnlyComplete ==
    /\ ~queued /\ pc = 0 /\ Gate(owner) = "apply"
    /\ ownerCache = owner /\ ~saLag /\ ~event
    /\ \A k \in Objects : obj[k] = Absent \/ obj[k].uid = owner.uid
    => Complete

-----------------------------------------------------------------------------
(***************************************************************************)
(* The inductive invariant.                                                *)
(***************************************************************************)

(* Versions only grow during the life of an owner.                         *)
Older(uid, version, o) == uid < o.uid \/ (uid = o.uid /\ version <= o.version)

CacheBehind == Older(ownerCache.uid, ownerCache.version, owner)
WorkBehind == pc # 0 => Older(h.uid, h.version, ownerCache)

(* The owner that the next write of the Deployment will follow.            *)
Leading == IF pc = 0 THEN ownerCache ELSE h

(* The Deployment is missing, edited by others, or of an older version.    *)
DeploymentBehind ==
    LET d == obj["deployment"] IN
    d = Absent \/ d.data = Foreign
        \/ (d.data[2] \in 0..MaxVersion /\ Older(d.uid, d.data[2], Leading))

(* HCPController only works on an owner with a version.                    *)
WorkHasVersion == pc # 0 /\ config.mode = "hcp" => h.version # 0

(* What is cached of the ServiceAccount is current unless it lags.         *)
SecretsCached == ~saLag => saCache.secrets = secrets

(* Two owners that want the same contents: an owner that was replaced by   *)
(* one like it need not wake the controller, its objects will be collected.*)
SameContents(a, b) ==
    /\ a.version = b.version /\ a.override = b.override /\ a.spec = b.spec
    /\ a.pullSecret = b.pullSecret

(* The object is as the cached owner wants it, or an event of it will wake *)
(* the controller.                                                         *)
Right(k) ==
    IF k = "serviceaccount"
    THEN saLag \/ (obj[k].data = Manifest /\ {ownerCache.pullSecret} \ {"none"} \subseteq secrets)
    ELSE event \/ obj[k].data = Desired(k, ownerCache).data

(* Unless it is to run again, a reconcile applies what the cached owner    *)
(* wants, and the objects it has passed are right.                         *)
UpToDate ==
    ~queued /\ Gate(ownerCache) = "apply" =>
        /\ pc = 0 => \A k \in Objects : Right(k)
        /\ pc # 0 => SameContents(h, ownerCache) /\ \A i \in 1..(pc - 1) : Right(Order[i])

IInv == /\ TypeOK /\ CacheBehind /\ WorkBehind /\ DeploymentBehind /\ WorkHasVersion
        /\ SecretsCached /\ UpToDate
=============================================================================

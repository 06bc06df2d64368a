--------------------------- MODULE ManagedObjects ---------------------------
(***************************************************************************)
(* The operator from its start to the steady state of one of the           *)
(* controllers that keep a list of objects as they should be: crd (the     *)
(* CRDs), default-nodeclass (the default NodeClass), nodeclass-vap (the    *)
(* admission policy and its binding) and ec2-nodeclass-subnets (the        *)
(* ConfigMap with the subnets of all NodeClasses).  They share no state,   *)
(* so a behaviour follows one of the controllers that were started.        *)
(*                                                                         *)
(* Each of them reads the HCP (its gate), computes what it wants and calls *)
(* CreateOrUpdate for one object after the other: a read from the informer *)
(* cache, then a Create or an Update that fails on an object the cache     *)
(* does not know, or knows in an old version.                              *)
(***************************************************************************)
EXTENDS Startup

CONSTANTS
    NodeClasses,   \* OpenshiftEC2NodeClasses of the hosted cluster
    Subnets,       \* subnet IDs, as numbers: they are sorted
    MaxChanges     \* bound on the changes made by the other actors

ASSUME ConstantsAssumption ==
    Subnets \subseteq Nat /\ IsFiniteSet(Subnets) /\ MaxChanges \in Nat

VARIABLES
    \* The process
    opts, proc, cfg,
    ctrl,          \* the controller this behaviour follows
    \* The API servers
    hcp,           \* the HostedControlPlane
    nodeClasses,   \* phase and status.subnets of each NodeClass
    obj,           \* contents of the objects of ctrl
    \* The operator's informer caches
    hcpCache, nodeClassCache, objCache,
    lag,           \* what the cached copy of an object has not seen: nothing,
                   \* status writes, or a new generation
    \* The controller
    queued,
    pc,            \* position in the list of objects, 0 when idle
    want,          \* the contents this reconcile writes
    \* Bounds
    changes

processVars == <<opts, proc, cfg, ctrl>>
serverVars == <<hcp, nodeClasses>>
cacheVars == <<hcpCache, nodeClassCache>>
objVars == <<obj, objCache, lag>>
ctrlVars == <<queued, pc, want>>
vars == <<opts, proc, cfg, ctrl, hcp, nodeClasses, hcpCache, nodeClassCache,
          obj, objCache, lag, queued, pc, want, changes>>

Phases == {"absent", "present", "deleting"}
HCPs == [phase: Phases, karpenter: BOOLEAN, override: BOOLEAN, infraID: 1..2]
CreatedHCPs == [phase: {"present"}, karpenter: BOOLEAN, override: BOOLEAN, infraID: {1}]
NoHCP == [phase |-> "absent", karpenter |-> FALSE, override |-> FALSE, infraID |-> 1]
OpenshiftEC2NodeClasses == [phase: Phases, subnets: SUBSET Subnets]
NoNodeClass == [phase |-> "absent", subnets |-> {}]

NoOptions ==
    [managementCluster |-> "unset", uid |-> "unset", platform |-> "unset",
     targetKubeconfig |-> "unset", namespace |-> FALSE, clusterName |-> FALSE,
     clusterEndpoint |-> FALSE, region |-> FALSE, tokenMinterImage |-> FALSE,
     cloudEnv |-> FALSE]
Configs == [managementCluster: BOOLEAN, platform: Platforms, hosted: BOOLEAN]
NoConfig == [managementCluster |-> FALSE, platform |-> "other", hosted |-> FALSE]

(* The contents of an object, as a sequence: none, somebody else's, the    *)
(* fixed manifest of the operator, or computed ones.                       *)
Absent == <<>>
Foreign == <<0>>
Manifest == <<1>>

-----------------------------------------------------------------------------
(***************************************************************************)
(* The four controllers: their objects in the order of their writes, their *)
(* gate, what they want, and the events that wake them.                    *)
(***************************************************************************)
Followed == {"crd", "default-nodeclass", "nodeclass-vap", "ec2-nodeclass-subnets"}

CRDObjects(c) == karpenterCRDs(c)
VAPObjects == <<"policy", "binding">>

ObjectsOf(c, k) ==
    IF k = "crd" THEN CRDObjects(c)
    ELSE IF k = "nodeclass-vap" THEN VAPObjects
    ELSE IF k = "default-nodeclass" THEN <<"default">>
    ELSE IF k = "ec2-nodeclass-subnets" THEN <<"karpenter-subnets">> ELSE <<>>

Order == ObjectsOf(cfg, ctrl)
Objects == Range(Order)

DefaultGate(h) == h.phase # "absent" /\ h.karpenter /\ ~h.override
VAPGate(h) == cfg.platform = "AWS" => h.phase # "absent" /\ ~h.override
SubnetGate(h) == h.phase = "present" /\ ~h.override

Gate(h) ==
    /\ ctrl = "default-nodeclass" => DefaultGate(h)
    /\ ctrl = "nodeclass-vap" => VAPGate(h)
    /\ ctrl = "ec2-nodeclass-subnets" => SubnetGate(h)

(* Mutant: the subnets stay in the order of the map, which is any order.   *)
MutUnsorted(ncs) == SetToSeqs(UNION {ncs[n].subnets : n \in NodeClasses})

(* The possible results: one, because they are sorted.                     *)
resolvedSubnetIDs(ncs) ==
    {s \in SetToSeqs(UNION {ncs[n].subnets : n \in NodeClasses}) :
        \A i, j \in DOMAIN s : i < j => s[i] < s[j]}

AWSDefaultNodeClass(infraID) == <<infraID>>
AzureDefaultNodeClass == Manifest

reconcileConfigMap(h, ncs) == {<<h.infraID>> \o s : s \in resolvedSubnetIDs(ncs)}

Desired(h, ncs) ==
    IF ctrl = "ec2-nodeclass-subnets" THEN reconcileConfigMap(h, ncs)
    ELSE IF ctrl = "default-nodeclass"
    THEN {IF cfg.platform = "AWS" THEN AWSDefaultNodeClass(h.infraID) ELSE AzureDefaultNodeClass}
    ELSE {Manifest}

(* What the API server defaults differs from what the operator wants, so   *)
(* an update is sent every time.                                           *)
AlwaysUpdated(o) == ctrl = "crd" \/ o = "policy"

DefaultHCPPredicate(old, new) ==
    \/ (old.phase = "absent") # (new.phase = "absent")
    \/ old.infraID # new.infraID \/ old.karpenter # new.karpenter
    \/ old.override # new.override

(* Mutant: the removal of the test override wakes nobody.                  *)
MutVAPPredicate(old, new) == old.phase = "absent" /\ new.phase # "absent"

VAPHCPPredicate(old, new) ==
    /\ new.phase # "absent"
    /\ old.phase = "absent" \/ old.override # new.override

SubnetHCPPredicate(old, new) ==
    /\ new.phase # "absent"
    /\ old.phase = "absent" \/ old.infraID # new.infraID \/ old.override # new.override

WokenByHCP(old, new) ==
    \/ ctrl = "default-nodeclass" /\ DefaultHCPPredicate(old, new)
    \/ ctrl = "nodeclass-vap" /\ cfg.platform = "AWS" /\ VAPHCPPredicate(old, new)
    \/ ctrl = "ec2-nodeclass-subnets" /\ SubnetHCPPredicate(old, new)

(* managedObjectPredicate of the VAP controller and the watch of the CRDs  *)
(* ignore status writes, the other two controllers do not.                 *)
managedObjectPredicate(l) == l = "generation"

WokenByObject(l) ==
    IF ctrl \in {"crd", "nodeclass-vap"} THEN managedObjectPredicate(l) ELSE l # "none"

(* The requests there are once the watches have started.                   *)
InitialSync(k, h, ncs, objects) ==
    \/ k \in {"crd", "nodeclass-vap"} \/ h.phase # "absent"
    \/ \E o \in DOMAIN objects : objects[o] # Absent
    \/ k = "ec2-nodeclass-subnets" /\ \E n \in NodeClasses : ncs[n].phase # "absent"

-----------------------------------------------------------------------------
(***************************************************************************)
(* The process.                                                            *)
(***************************************************************************)
Init ==
    /\ opts \in Options /\ proc = "down" /\ cfg = NoConfig /\ ctrl = "none"
    /\ hcp = NoHCP /\ hcpCache = NoHCP
    /\ nodeClasses = [n \in NodeClasses |-> NoNodeClass] /\ nodeClassCache = nodeClasses
    /\ obj = [o \in Objects |-> Absent] /\ objCache = obj /\ lag = [o \in Objects |-> "none"]
    /\ queued = FALSE /\ pc = 0 /\ want = Absent /\ changes = 0

(* If main returns, the process is started again.  On a platform that is   *)
(* not supported only the ClusterOperator is reported.                     *)
Starts(cr, outcome) ==
    /\ proc = "down" /\ main(opts, cr) = outcome
    /\ proc' = outcome /\ opts' = NoOptions
    /\ cfg' = ResolveControllerConfig(opts, Discovered(opts, cr))
    /\ UNCHANGED <<nodeClasses, nodeClassCache, pc, want, changes>>

ReportOnly ==
    /\ \E cr \in Infrastructures : Starts(cr, "reporter")
    /\ UNCHANGED <<ctrl, hcp, hcpCache, objVars, queued>>

(* The manager starts in a new cluster, or in one that an earlier version  *)
(* of the operator has left.                                               *)
Start ==
    /\ \E cr \in Infrastructures : Starts(cr, "run")
    /\ ctrl' \in NewControllers(cfg') \intersect Followed
    /\ hcp' \in {NoHCP} \union (IF ctrl' = "crd" THEN {} ELSE CreatedHCPs)
    /\ \E left \in {Absent, Foreign} :
         obj' = [o \in Range(ObjectsOf(cfg', ctrl')) |-> left]
    /\ hcpCache' = hcp' /\ objCache' = obj'
    /\ lag' = [o \in DOMAIN obj' |-> "none"]
    /\ queued' = InitialSync(ctrl', hcp', nodeClasses, obj')

Change == proc = "run" /\ changes < MaxChanges /\ changes' = changes + 1

Restart ==
    /\ Change
    /\ hcpCache' = hcp /\ nodeClassCache' = nodeClasses /\ objCache' = obj
    /\ lag' = [o \in Objects |-> "none"]
    /\ queued' = InitialSync(ctrl, hcp, nodeClasses, obj) /\ pc' = 0 /\ want' = Absent
    /\ UNCHANGED <<processVars, serverVars, obj>>

-----------------------------------------------------------------------------
(***************************************************************************)
(* The controller.                                                         *)
(***************************************************************************)
Failed == pc' = 0 /\ want' = Absent /\ queued' = TRUE

(* Mutant: one object too many.                                            *)
MutAdvance ==
    IF pc <= Len(Order)
    THEN pc' = pc + 1 /\ UNCHANGED <<queued, want>>
    ELSE pc' = 0 /\ want' = Absent /\ UNCHANGED queued

Advance ==
    IF pc < Len(Order)
    THEN pc' = pc + 1 /\ UNCHANGED <<queued, want>>
    ELSE pc' = 0 /\ want' = Absent /\ UNCHANGED queued

Reconcile ==
    /\ proc = "run" /\ pc = 0 /\ queued
    /\ queued' = FALSE
    /\ \/ /\ Gate(hcpCache)
          /\ pc' = 1 /\ want' \in Desired(hcpCache, nodeClassCache)
       \/ ~Gate(hcpCache) /\ UNCHANGED <<pc, want>>
    /\ UNCHANGED <<processVars, serverVars, cacheVars, objVars, changes>>

Write(o, contents) ==
    /\ obj' = [obj EXCEPT ![o] = contents]
    /\ lag' = [lag EXCEPT ![o] = "generation"]

CreateOrUpdate(o) ==
    \/ /\ objCache[o] = Absent /\ obj[o] = Absent
       /\ Write(o, want) /\ Advance
    \/ /\ objCache[o] = want /\ ~AlwaysUpdated(o)
       /\ Advance /\ UNCHANGED <<obj, lag>>
    \/ /\ objCache[o] # Absent /\ (objCache[o] # want \/ AlwaysUpdated(o)) /\ lag[o] = "none"
       /\ IF obj[o] = want THEN UNCHANGED <<obj, lag>> ELSE Write(o, want)
       /\ Advance
    \/ /\ IF objCache[o] = Absent THEN obj[o] # Absent
          ELSE (objCache[o] # want \/ AlwaysUpdated(o)) /\ lag[o] # "none"
       /\ Failed /\ UNCHANGED <<obj, lag>>

Apply ==
    /\ pc # 0
    /\ CreateOrUpdate(Order[pc])
    /\ UNCHANGED <<processVars, serverVars, cacheVars, objCache, changes>>

(* Any API call may fail.                                                  *)
APIError ==
    /\ pc # 0 /\ Change /\ Failed
    /\ UNCHANGED <<processVars, serverVars, cacheVars, objVars>>

-----------------------------------------------------------------------------
(***************************************************************************)
(* The informers and the other actors.                                     *)
(***************************************************************************)
SyncHCP ==
    /\ hcpCache # hcp
    /\ hcpCache' = hcp
    /\ queued' = (queued \/ WokenByHCP(hcpCache, hcp))
    /\ UNCHANGED <<processVars, serverVars, nodeClassCache, objVars, pc, want, changes>>

SyncNodeClasses ==
    /\ nodeClassCache # nodeClasses
    /\ nodeClassCache' = nodeClasses /\ queued' = TRUE
    /\ UNCHANGED <<processVars, serverVars, hcpCache, objVars, pc, want, changes>>

SyncObject(o) ==
    /\ lag[o] # "none"
    /\ objCache' = [objCache EXCEPT ![o] = obj[o]]
    /\ lag' = [lag EXCEPT ![o] = "none"]
    /\ queued' = (queued \/ WokenByObject(lag[o]))
    /\ UNCHANGED <<processVars, serverVars, cacheVars, obj, pc, want, changes>>

(* HyperShift creates the HCP, changes it, or removes it for good.  The    *)
(* crd controller does not look at it.                                     *)
HCPStep ==
    /\ Change /\ ctrl # "crd"
    /\ \/ hcp = NoHCP /\ hcpCache = NoHCP /\ hcp' \in CreatedHCPs
       \/ hcp.phase # "absent" /\ hcp.infraID = 1 /\ hcp' = [hcp EXCEPT !.infraID = 2]
       \/ hcp.phase # "absent" /\ hcp' = [hcp EXCEPT !.karpenter = ~@]
       \/ hcp.phase # "absent" /\ hcp' = [hcp EXCEPT !.override = ~@]
       \/ hcp.phase = "present" /\ hcp' = [hcp EXCEPT !.phase = "deleting"]
       \/ hcp.phase = "deleting" /\ hcp' = [NoHCP EXCEPT !.infraID = 2]
    /\ UNCHANGED <<processVars, nodeClasses, cacheVars, objVars, ctrlVars>>

(* The EC2 NodeClass controller copies the subnets Karpenter has resolved; *)
(* users create and delete NodeClasses.                                    *)
NodeClassStep ==
    /\ Change /\ ctrl = "ec2-nodeclass-subnets"
    /\ \E n \in NodeClasses :
        \/ /\ nodeClasses[n].phase # "deleting"
           /\ \E s \in SUBSET Subnets \ {nodeClasses[n].subnets} :
                nodeClasses' = [nodeClasses EXCEPT ![n] = [phase |-> "present", subnets |-> s]]
        \/ /\ nodeClasses[n].phase = "present"
           /\ nodeClasses' = [nodeClasses EXCEPT ![n].phase = "deleting"]
        \/ /\ nodeClasses[n].phase = "deleting"
           /\ nodeClasses' = [nodeClasses EXCEPT ![n] = NoNodeClass]
    /\ UNCHANGED <<processVars, hcp, cacheVars, objVars, ctrlVars>>

(* Somebody edits, deletes or creates an object of the operator, or writes *)
(* its status.  A watch does not skip the deletion of an object.           *)
OtherWrite(o) ==
    /\ Change
    /\ \/ obj[o] \notin {Absent, Foreign} /\ Write(o, Foreign)
       \/ obj[o] # Absent /\ Write(o, Absent)
       \/ obj[o] = Absent /\ objCache[o] = Absent /\ Write(o, Foreign)
       \/ /\ obj[o] # Absent /\ lag[o] = "none"
          /\ lag' = [lag EXCEPT ![o] = "status"] /\ UNCHANGED obj
    /\ UNCHANGED <<processVars, serverVars, cacheVars, objCache, ctrlVars>>

Controller == Reconcile \/ Apply

Next ==
    \/ Start \/ ReportOnly \/ Restart \/ Controller \/ APIError
    \/ SyncHCP \/ SyncNodeClasses \/ \E o \in Objects : SyncObject(o)
    \/ HCPStep \/ NodeClassStep \/ \E o \in Objects : OtherWrite(o)

Spec == Init /\ [][Next]_vars

(* The worker and its informers keep running.                              *)
Fairness ==
    /\ WF_vars(Controller) /\ WF_vars(SyncHCP) /\ WF_vars(SyncNodeClasses)
    /\ WF_vars(\E o \in Objects : SyncObject(o))

FairSpec == Spec /\ Fairness

-----------------------------------------------------------------------------
Contents == Seq(Subnets \union {0, 1, 2})

TypeOK ==
    /\ opts \in Options /\ proc \in {"down", "run", "reporter"}
    /\ cfg \in Configs
    /\ ctrl \in Followed \union {"none"}
    /\ hcp \in HCPs /\ hcpCache \in HCPs
    /\ nodeClasses \in [NodeClasses -> OpenshiftEC2NodeClasses]
    /\ nodeClassCache \in [NodeClasses -> OpenshiftEC2NodeClasses]
    /\ obj \in [Objects -> Contents] /\ objCache \in [Objects -> Contents]
    /\ lag \in [Objects -> {"none", "status", "generation"}]
    /\ queued \in BOOLEAN /\ pc \in 0..Len(Order) /\ want \in Contents
    /\ changes \in 0..MaxChanges

(* Every kind that a started controller watches in the cluster of the      *)
(* nodes is one whose CRD the crd controller installs there: NewControllers*)
(* and karpenterCRDs decide this separately, and a watch on a missing kind *)
(* never syncs, which ends the manager.                                    *)
WatchesServed ==
    proc = "run" =>
        \A k \in NewControllers(cfg) : TargetKinds(k, cfg.platform) \subseteq Range(karpenterCRDs(cfg))

(* An operator that runs has the whole set of controllers for its mode:    *)
(* the README promises the CRDs, the NodeClasses, the AutoNode status and  *)
(* the teardown for a hosted cluster, and a ClusterOperator for a          *)
(* standalone one.  Validate, HasHostedCluster and newHCPNodeClassProvider *)
(* each test a part of it, and a missing part is not an error of its own.  *)
ModeServed ==
    proc = "run" =>
        IF cfg.managementCluster
        THEN /\ cfg.hosted
             /\ {"karpenter-hcp", "default-nodeclass", "nodeclass-vap", "autonode-status",
                 "hcp-deletion"} \subseteq NewControllers(cfg)
             /\ \E k \in NewControllers(cfg) :
                    Range(HCPCRDs(cfg.platform) \o CloudCRDs(cfg.platform)) \ {"NodeOverlay"}
                        \subseteq TargetKinds(k, cfg.platform)
        ELSE cfg.platform = "AWS" /\ "clusteroperator" \in NewControllers(cfg)

AsWanted(o) ==
    IF ctrl = "ec2-nodeclass-subnets"
    THEN /\ obj[o] # Absent /\ Head(obj[o]) = hcp.infraID
         /\ Range(Tail(obj[o])) = UNION {nodeClasses[n].subnets : n \in NodeClasses}
    ELSE IF ctrl = "default-nodeclass" /\ cfg.platform = "AWS" THEN obj[o] = <<hcp.infraID>>
    ELSE obj[o] = Manifest

(* Whatever others did to the objects, the HCP and the NodeClasses, and    *)
(* whatever failed on the way, the objects end as they should be: the      *)
(* predicates of each watch let through every change that matters, and an  *)
(* AlreadyExists or a Conflict on a lagging cache is retried.              *)
ObjectsConverge ==
    <>[](proc = "run" /\ Gate(hcp)) => <>[](\A o \in Objects : AsWanted(o))

(* A controller that has nothing left to do stops writing, although its    *)
(* own writes wake it: sorting the subnets, and ignoring the status of     *)
(* CRDs and policies, is what ends the loop.                               *)
ComesToRest == <>[](pc = 0 /\ ~queued)

(* The safety side of both: in a state at rest, where nothing is queued or *)
(* in progress and the informers have delivered everything, the objects    *)
(* are as they should be.                                                  *)
RestsOnlyWanted ==
    /\ proc = "run" /\ pc = 0 /\ ~queued /\ Gate(hcp)
    /\ hcpCache = hcp /\ nodeClassCache = nodeClasses
    /\ \A o \in Objects : lag[o] = "none"
    => \A o \in Objects : AsWanted(o)

(* The controller replaces only what it has read: a CreateOrUpdate decides *)
(* by the cached copy, and an object somebody has created, changed or      *)
(* deleted since then is left as it is until the cache has seen it.        *)
ReplacesOnlyRead ==
    [][Apply => \A o \in Objects : obj'[o] # obj[o] => objCache[o] = obj[o]]_vars

-----------------------------------------------------------------------------
(***************************************************************************)
(* The inductive invariant.                                                *)
(***************************************************************************)

(* What the options, the platform and the cloud provider leave of the      *)
(* configurations: a management cluster has a hosted one, and a standalone *)
(* cluster is on AWS.                                                      *)
ServedConfig(c) ==
    IF c.managementCluster THEN c.hosted /\ c.platform \in {"AWS", "Azure"}
    ELSE ~c.hosted /\ c.platform = "AWS"

RunsServed == proc = "run" => ServedConfig(cfg) /\ ctrl \in Followed
IdleUntilRun == proc # "run" => ctrl = "none" /\ pc = 0

(* A cached copy has the contents of the object, or a write is on its way. *)
CacheCurrent == \A o \in Objects : lag[o] # "generation" => objCache[o] = obj[o]

(* An HCP is not created again before its deletion has been seen.          *)
DeletionFinal == hcpCache.phase = "deleting" => hcp.phase # "present"

(* The object is as the caches want it, or a write of it will wake the     *)
(* controller.                                                             *)
Right(o) == lag[o] = "generation" \/ obj[o] \in Desired(hcpCache, nodeClassCache)

(* Unless it is to run again, a reconcile writes what the caches want, and *)
(* the objects it has passed are right.                                    *)
UpToDate ==
    proc = "run" /\ ~queued /\ Gate(hcpCache) =>
        /\ pc = 0 => \A o \in Objects : Right(o)
        /\ pc # 0 => /\ want \in Desired(hcpCache, nodeClassCache)
                     /\ \A i \in 1..(pc - 1) : Right(Order[i])

IInv == TypeOK /\ RunsServed /\ IdleUntilRun /\ CacheCurrent /\ DeletionFinal /\ UpToDate
=============================================================================

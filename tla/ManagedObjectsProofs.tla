------------------------ MODULE ManagedObjectsProofs ------------------------
(***************************************************************************)
(* Proofs about Startup and ManagedObjects: the configurations that run,   *)
(* the controllers and CRDs of each, the types, and that no write replaces *)
(* what was not read.                                                      *)
(***************************************************************************)
EXTENDS ManagedObjects, FiniteSetTheorems, TLAPS

USE DEF vars, processVars, serverVars, cacheVars, objVars, ctrlVars

-----------------------------------------------------------------------------
(***************************************************************************)
(* The start of the process.                                               *)
(***************************************************************************)

(* Whatever the environment and the Infrastructure CR hold, the process    *)
(* runs only in a configuration that its mode serves: Validate wants a     *)
(* target kubeconfig and a platform in management mode,                    *)
(* isPlatformSupported wants AWS in the other, and GetCloudProvider knows  *)
(* two platforms.                                                          *)
LEMMA RunLemma ==
    ASSUME NEW o \in Options, NEW cr \in Infrastructures, main(o, cr) = "run"
    PROVE  ServedConfig(ResolveControllerConfig(o, Discovered(o, cr)))
<1> DEFINE infra == Discovered(o, cr)
           c == ResolveControllerConfig(o, infra)
<1>1. LoadEnv(o) /\ Validate(o) /\ Run(o, cr) = "run"
  BY DEF main
<1>2. /\ isPlatformSupported(c.managementCluster, c.platform)
      /\ GetCloudProvider(infra, o)
  BY <1>1 DEF Run
<1>3. CASE o.managementCluster = "true"
  <2>1. /\ c.managementCluster /\ c.platform = infra.platform
        /\ c.hosted <=> HasHostedCluster(o)
    BY <1>3 DEF ResolveControllerConfig, ParseManagementClusterEnv
  <2>2. o.targetKubeconfig # "unset"
    BY <1>1, <1>3 DEF Validate, ParseManagementClusterEnv
  <2>3. c.hosted
    BY <1>3, <2>1, <2>2 DEF HasHostedCluster, ParseManagementClusterEnv
  <2>4. c.platform \in {"AWS", "Azure"}
    BY <1>2, <2>1 DEF GetCloudProvider
  <2>5. QED
    BY <2>1, <2>3, <2>4 DEF ServedConfig
<1>4. CASE o.managementCluster # "true"
  <2>1. ~c.managementCluster /\ c.platform = infra.platform /\ ~c.hosted
    BY <1>4 DEF ResolveControllerConfig, ParseManagementClusterEnv, HasHostedCluster
  <2>2. c.platform = "AWS"
    BY <1>2, <2>1 DEF isPlatformSupported
  <2>3. QED
    BY <2>1, <2>2 DEF ServedConfig
<1>5. QED
  BY <1>3, <1>4

(* The configuration that is resolved has its type.                        *)
LEMMA ResolvedLemma ==
    ASSUME NEW o \in Options, NEW cr \in Infrastructures, main(o, cr) # "exit"
    PROVE  ResolveControllerConfig(o, Discovered(o, cr)) \in Configs
<1>1. /\ ParseManagementClusterEnv(o) \in BOOLEAN
      /\ HasHostedCluster(o) \in BOOLEAN
  BY DEF ParseManagementClusterEnv, HasHostedCluster
<1>2. Discovered(o, cr).platform \in Platforms
  <2>1. CASE ParseManagementClusterEnv(o)
    <3>1. o.platform \in Platforms \union {"unset"}
      BY DEF Options
    <3>2. o.platform # "unset"
      BY <2>1 DEF main, Validate
    <3>3. QED
      BY <2>1, <3>1, <3>2 DEF Discovered, discoverInfrastructureFromEnv
  <2>2. CASE ~ParseManagementClusterEnv(o)
    <3>1. cr.platform \in Platforms
      <4>1. CASE cr = [usable |-> FALSE, platform |-> "other", region |-> FALSE]
        BY <4>1 DEF Platforms
      <4>2. CASE \/ cr \in [usable: {TRUE}, platform: {"AWS"}, region: BOOLEAN]
                 \/ cr \in [usable: {TRUE}, platform: {"Azure", "other"}, region: {FALSE}]
        BY <4>2 DEF Platforms
      <4>3. QED
        BY <4>1, <4>2, Zenon DEF Infrastructures
    <3>2. QED
      BY <2>2, <3>1 DEF Discovered
  <2>3. QED
    BY <2>1, <2>2
<1>3. QED
  BY <1>1, <1>2 DEF ResolveControllerConfig, Configs

(* The controllers of each configuration that runs.                        *)
LEMMA ControllersLemma ==
    ASSUME NEW c \in Configs, ServedConfig(c)
    PROVE  NewControllers(c) =
             IF ~c.managementCluster THEN {"crd", "karpenter-ocp", "clusteroperator"}
             ELSE {"crd", "karpenter-hcp", "default-nodeclass", "nodeclass-vap",
                   "autonode-status", "hcp-deletion"}
                  \union IF c.platform = "AWS"
                         THEN {"ec2-nodeclass", "ec2-nodeclass-subnets", "machine-approver"}
                         ELSE {"azure-nodeclass"}
<1>1. CASE ~c.managementCluster
  BY <1>1 DEF NewControllers
<1>2. CASE c.managementCluster /\ c.platform = "AWS"
  BY <1>2 DEF ServedConfig, NewControllers, newHCPNodeClassProvider, ProviderControllers,
              AWSNodeClassControllers, newMachineApproverController
<1>3. CASE c.managementCluster /\ c.platform = "Azure"
  BY <1>3 DEF ServedConfig, NewControllers, newHCPNodeClassProvider, ProviderControllers,
              AzureNodeClassControllers, newMachineApproverController
<1>4. QED
  BY <1>1, <1>2, <1>3 DEF ServedConfig

(* What a concatenation holds.                                             *)
LEMMA ConcatLemma ==
    ASSUME NEW S, NEW s \in Seq(S), NEW t \in Seq(S)
    PROVE  /\ s \o t \in Seq(S) /\ Range(s \o t) = Range(s) \union Range(t)
           /\ Len(s \o t) = Len(s) + Len(t) /\ Len(s) \in Nat /\ Len(t) \in Nat
<1>1. /\ s \o t \in Seq(S) /\ Len(s) \in Nat /\ Len(t) \in Nat
      /\ Len(s \o t) = Len(s) + Len(t)
      /\ DOMAIN s = 1..Len(s) /\ DOMAIN t = 1..Len(t) /\ DOMAIN (s \o t) = 1..(Len(s) + Len(t))
      /\ \A i \in 1..(Len(s) + Len(t)) :
            (s \o t)[i] = IF i <= Len(s) THEN s[i] ELSE t[i - Len(s)]
  OBVIOUS
<1>2. Range(s \o t) \subseteq Range(s) \union Range(t)
  BY <1>1 DEF Range
<1>3. ASSUME NEW i \in 1..Len(s) PROVE s[i] \in Range(s \o t)
  <2>1. i \in 1..(Len(s) + Len(t)) /\ (s \o t)[i] = s[i]
    BY <1>1
  <2>2. QED
    BY <1>1, <2>1 DEF Range
<1>4. ASSUME NEW i \in 1..Len(t) PROVE t[i] \in Range(s \o t)
  <2>1. Len(s) + i \in 1..(Len(s) + Len(t)) /\ (s \o t)[Len(s) + i] = t[i]
    BY <1>1
  <2>2. QED
    BY <1>1, <2>1 DEF Range
<1>5. QED
  BY <1>1, <1>2, <1>3, <1>4 DEF Range

(* The CRDs the crd controller installs in each configuration.             *)
Kinds == {"NodePool", "NodeClaim", "EC2NodeClass", "AKSNodeClass", "NodeOverlay",
          "OpenshiftEC2NodeClass", "OpenShiftAzureNodeClass"}

CoreKinds == {"NodePool", "NodeClaim"}
CloudKinds(p) == IF p = "AWS" THEN {"EC2NodeClass"} ELSE {"AKSNodeClass", "NodeOverlay"}
HCPKinds(p) == IF p = "AWS" THEN {"OpenshiftEC2NodeClass"} ELSE {"OpenShiftAzureNodeClass"}

(* The lists of CRDs, as the sets of their kinds.                          *)
LEMMA ListsLemma ==
    ASSUME NEW p
    PROVE  /\ CoreCRDs \in Seq(Kinds) /\ Range(CoreCRDs) = CoreKinds
           /\ CloudCRDs(p) \in Seq(Kinds) /\ Range(CloudCRDs(p)) = CloudKinds(p)
           /\ HCPCRDs(p) \in Seq(Kinds) /\ Range(HCPCRDs(p)) = HCPKinds(p)
           /\ Len(CoreCRDs) = 2
<1>1. CoreCRDs \in Seq(Kinds) /\ Range(CoreCRDs) = CoreKinds /\ Len(CoreCRDs) = 2
  BY DEF CoreCRDs, CoreKinds, Kinds, Range
<1>2. CloudCRDs(p) \in Seq(Kinds) /\ Range(CloudCRDs(p)) = CloudKinds(p)
  <2>1. CASE p = "AWS"
    BY <2>1 DEF CloudCRDs, CloudKinds, Kinds, Range
  <2>2. CASE p # "AWS"
    <3>1. CloudCRDs(p) = <<"AKSNodeClass", "NodeOverlay">>
      BY <2>2 DEF CloudCRDs
    <3>2. <<"AKSNodeClass", "NodeOverlay">> \in Seq(Kinds)
      BY DEF Kinds
    <3>3. Range(<<"AKSNodeClass", "NodeOverlay">>) = {"AKSNodeClass", "NodeOverlay"}
      BY DEF Range
    <3>4. QED
      BY <2>2, <3>1, <3>2, <3>3 DEF CloudKinds
  <2>3. QED
    BY <2>1, <2>2
<1>3. HCPCRDs(p) \in Seq(Kinds) /\ Range(HCPCRDs(p)) = HCPKinds(p)
  <2>1. CASE p = "AWS"
    BY <2>1 DEF HCPCRDs, HCPKinds, Kinds, Range
  <2>2. CASE p # "AWS"
    BY <2>2 DEF HCPCRDs, HCPKinds, Kinds, Range
  <2>3. QED
    BY <2>1, <2>2
<1>4. QED
  BY <1>1, <1>2, <1>3

(* karpenterCRDs: the kinds that are installed, those of the hosted        *)
(* NodeClasses with a hosted cluster only.                                 *)
LEMMA CRDsLemma ==
    ASSUME NEW c \in Configs, ServedConfig(c)
    PROVE  /\ karpenterCRDs(c) \in Seq(Kinds)
           /\ Len(karpenterCRDs(c)) > 0
           /\ Range(karpenterCRDs(c)) =
                 CoreKinds \union CloudKinds(c.platform)
                 \union IF c.managementCluster THEN HCPKinds(c.platform) ELSE {}
<1> DEFINE base == CoreCRDs \o CloudCRDs(c.platform)
           hosted == IF newHCPNodeClassProvider(c) = "none" THEN <<>> ELSE HCPCRDs(c.platform)
<1>1. base \in Seq(Kinds) /\ Range(base) = CoreKinds \union CloudKinds(c.platform)
  BY ListsLemma, ConcatLemma
<1>2. /\ hosted \in Seq(Kinds)
      /\ Range(hosted) = IF c.managementCluster THEN HCPKinds(c.platform) ELSE {}
  <2>1. CASE c.managementCluster
    <3>1. newHCPNodeClassProvider(c) # "none"
      BY <2>1 DEF ServedConfig, newHCPNodeClassProvider
    <3>2. QED
      BY <2>1, <3>1, ListsLemma
  <2>2. CASE ~c.managementCluster
    <3>1. newHCPNodeClassProvider(c) = "none"
      BY <2>2 DEF newHCPNodeClassProvider
    <3>2. <<>> \in Seq(Kinds) /\ Range(<<>>) = {}
      BY DEF Range
    <3>3. QED
      BY <2>2, <3>1, <3>2
  <2>3. QED
    BY <2>1, <2>2
<1>3. Len(base) >= 2
  BY ListsLemma, ConcatLemma
<1>4. karpenterCRDs(c) = base \o hosted
  BY Zenon DEF karpenterCRDs
<1> HIDE DEF base, hosted
<1>5. /\ base \o hosted \in Seq(Kinds) /\ Range(base \o hosted) = Range(base) \union Range(hosted)
      /\ Len(base \o hosted) = Len(base) + Len(hosted) /\ Len(base) \in Nat /\ Len(hosted) \in Nat
  BY <1>1, <1>2, ConcatLemma
<1>6. QED
  BY <1>1, <1>2, <1>3, <1>4, <1>5

(* WatchesServed, of a configuration.                                      *)
LEMMA WatchesLemma ==
    ASSUME NEW c \in Configs, ServedConfig(c), NEW k \in NewControllers(c)
    PROVE  TargetKinds(k, c.platform) \subseteq Range(karpenterCRDs(c))
<1>1. CASE ~c.managementCluster
  BY <1>1, ControllersLemma DEF TargetKinds
<1>2. CASE c.managementCluster
  BY <1>2, ControllersLemma, CRDsLemma, ListsLemma
     DEF ServedConfig, TargetKinds, CoreKinds, CloudKinds, HCPKinds
<1>3. QED
  BY <1>1, <1>2

(* ModeServed, of a configuration.                                         *)
LEMMA ModeLemma ==
    ASSUME NEW c \in Configs, ServedConfig(c)
    PROVE  IF c.managementCluster
           THEN /\ c.hosted
                /\ {"karpenter-hcp", "default-nodeclass", "nodeclass-vap", "autonode-status",
                    "hcp-deletion"} \subseteq NewControllers(c)
                /\ \E k \in NewControllers(c) :
                       Range(HCPCRDs(c.platform) \o CloudCRDs(c.platform)) \ {"NodeOverlay"}
                           \subseteq TargetKinds(k, c.platform)
           ELSE c.platform = "AWS" /\ "clusteroperator" \in NewControllers(c)
<1>1. Range(HCPCRDs(c.platform) \o CloudCRDs(c.platform)) =
        HCPKinds(c.platform) \union CloudKinds(c.platform)
  BY ListsLemma, ConcatLemma
<1>2. CASE c.managementCluster /\ c.platform = "AWS"
  <2>1. "ec2-nodeclass" \in NewControllers(c)
    BY <1>2, ControllersLemma
  <2>2. HCPKinds(c.platform) \union CloudKinds(c.platform)
          \subseteq TargetKinds("ec2-nodeclass", c.platform)
    BY <1>2 DEF HCPKinds, CloudKinds, TargetKinds
  <2>3. QED
    BY <1>1, <1>2, <2>1, <2>2, ControllersLemma DEF ServedConfig
<1>3. CASE c.managementCluster /\ c.platform = "Azure"
  <2>1. "azure-nodeclass" \in NewControllers(c)
    BY <1>3, ControllersLemma
  <2>2. (HCPKinds(c.platform) \union CloudKinds(c.platform)) \ {"NodeOverlay"}
          \subseteq TargetKinds("azure-nodeclass", c.platform)
    BY <1>3 DEF HCPKinds, CloudKinds, TargetKinds
  <2>3. QED
    BY <1>1, <1>3, <2>1, <2>2, ControllersLemma DEF ServedConfig
<1>4. CASE ~c.managementCluster
  BY <1>4, ControllersLemma DEF ServedConfig
<1>5. QED
  BY <1>2, <1>3, <1>4 DEF ServedConfig
-----------------------------------------------------------------------------
(***************************************************************************)
(* Objects and contents.                                                   *)
(***************************************************************************)
Names == Kinds \union {"policy", "binding", "default", "karpenter-subnets"}

(* The objects of a controller are a list, and every controller that is    *)
(* followed has one.                                                       *)
LEMMA ObjectsLemma ==
    ASSUME NEW c \in Configs, NEW k,
           k = "none" \/ (k \in Followed /\ ServedConfig(c))
    PROVE  /\ ObjectsOf(c, k) \in Seq(Names)
           /\ k # "none" => Len(ObjectsOf(c, k)) > 0
<1>1. CASE k = "none"
  BY <1>1 DEF ObjectsOf
<1>2. CASE k = "crd" /\ ServedConfig(c)
  <2>1. ObjectsOf(c, k) = karpenterCRDs(c)
    BY <1>2 DEF ObjectsOf, CRDObjects
  <2>2. karpenterCRDs(c) \in Seq(Kinds) /\ Len(karpenterCRDs(c)) > 0
    BY <1>2, CRDsLemma
  <2>3. karpenterCRDs(c) \in Seq(Names)
    BY <2>2 DEF Names
  <2>4. QED
    BY <2>1, <2>2, <2>3
<1>3. CASE k = "nodeclass-vap"
  BY <1>3 DEF ObjectsOf, VAPObjects, Names
<1>4. CASE k = "default-nodeclass"
  BY <1>4 DEF ObjectsOf, Names
<1>5. CASE k = "ec2-nodeclass-subnets"
  BY <1>5 DEF ObjectsOf, Names
<1>6. QED
  BY <1>1, <1>2, <1>3, <1>4, <1>5 DEF Followed

(* The list of the controller that is followed.                            *)
LEMMA OrderLemma ==
    ASSUME IInv
    PROVE  /\ Order \in Seq(Names) /\ Len(Order) \in Nat
           /\ \A i \in 1..Len(Order) : Order[i] \in Objects
           /\ proc = "run" => Len(Order) > 0
<1>1. ctrl = "none" \/ (ctrl \in Followed /\ ServedConfig(cfg))
  BY DEF IInv, RunsServed, IdleUntilRun
<1>2. Order \in Seq(Names) /\ (ctrl # "none" => Len(Order) > 0)
  BY <1>1, ObjectsLemma DEF IInv, TypeOK, Order
<1>3. proc = "run" => ctrl # "none"
  BY DEF IInv, RunsServed, Followed
<1>4. QED
  BY <1>2, <1>3 DEF Objects, Range

(* The contents a reconcile computes.  The subnets of the NodeClasses are  *)
(* finitely many, so that a list of them exists.                           *)
LEMMA DesiredLemma ==
    ASSUME NEW h \in HCPs, NEW ncs \in [NodeClasses -> OpenshiftEC2NodeClasses],
           NEW w \in Desired(h, ncs)
    PROVE  w \in Contents
<1> DEFINE U == UNION {ncs[n].subnets : n \in NodeClasses}
<1>1. h.infraID \in 1..2
  BY DEF HCPs
<1>2. <<h.infraID>> \in Contents /\ Manifest \in Contents
  BY <1>1 DEF Contents, Manifest
<1>3. CASE ctrl = "ec2-nodeclass-subnets"
  <2>1. U \in SUBSET Subnets
    BY DEF OpenshiftEC2NodeClasses
  <2>2. Cardinality(U) \in Nat
    BY <2>1, ConstantsAssumption, FS_Subset, FS_CardinalityType
  <2>3. PICK s \in SetToSeqs(U) : w = <<h.infraID>> \o s
    BY <1>3 DEF Desired, reconcileConfigMap, resolvedSubnetIDs
  <2> HIDE DEF U
  <2>4. s \in [1..Cardinality(U) -> U]
    BY <2>3 DEF SetToSeqs
  <2>5. s \in Seq(U)
    BY <2>2, <2>4
  <2>6. s \in Contents
    BY <2>1, <2>5 DEF Contents
  <2>7. QED
    BY <1>2, <2>3, <2>6 DEF Contents
<1>4. CASE ctrl # "ec2-nodeclass-subnets"
  BY <1>2, <1>4 DEF Desired, AWSDefaultNodeClass, AzureDefaultNodeClass
<1>5. QED
  BY <1>3, <1>4

(* The contents that are not computed.                                     *)
LEMMA FixedContents == Absent \in Contents /\ Foreign \in Contents /\ Manifest \in Contents
BY DEF Contents, Absent, Foreign, Manifest

-----------------------------------------------------------------------------
(***************************************************************************)
(* The types and the caches.  Once the process runs, its configuration and *)
(* its controller stay, and with them the list of objects.                 *)
(***************************************************************************)
Base == TypeOK /\ RunsServed /\ IdleUntilRun /\ CacheCurrent

(* The process is down, and nothing is known of any cluster.               *)
LEMMA InitLemma ==
    ASSUME Init PROVE IInv
<1>1. ObjectsOf(cfg, ctrl) = <<>> /\ Order = <<>> /\ Objects = {} /\ Len(Order) = 0
  BY DEF Init, Order, Objects, ObjectsOf, Range
<1>2. NoHCP \in HCPs
  BY DEF NoHCP, HCPs, Phases
<1>3. NoNodeClass \in OpenshiftEC2NodeClasses
  BY DEF NoNodeClass, OpenshiftEC2NodeClasses, Phases
<1>4. NoConfig \in Configs
  BY DEF NoConfig, Configs, Platforms
<1>5. TypeOK
  <2>1. /\ obj \in [Objects -> Contents] /\ objCache \in [Objects -> Contents]
        /\ lag \in [Objects -> {"none", "status", "generation"}]
    BY FixedContents DEF Init
  <2>2. queued \in BOOLEAN
    BY DEF Init
  <2>3. pc \in 0..Len(Order) /\ want \in Contents /\ changes \in 0..MaxChanges
    BY <1>1, FixedContents, ConstantsAssumption DEF Init
  <2>4. /\ nodeClasses \in [NodeClasses -> OpenshiftEC2NodeClasses]
        /\ nodeClassCache \in [NodeClasses -> OpenshiftEC2NodeClasses]
    BY <1>3 DEF Init
  <2>5. QED
    BY <1>2, <1>4, <2>1, <2>2, <2>3, <2>4 DEF Init, TypeOK
<1>6. QED
  BY <1>1, <1>5 DEF Init, IInv, RunsServed, IdleUntilRun, CacheCurrent, DeletionFinal, NoHCP,
                    UpToDate

(* The request is there or it is not, whoever makes the step.              *)
LEMMA QueuedLemma ==
    ASSUME queued \in BOOLEAN, Next PROVE queued' \in BOOLEAN
<1>1. ASSUME Start \/ Restart PROVE queued' \in BOOLEAN
  BY <1>1, Zenon DEF Start, Restart, InitialSync
<1>2. ASSUME SyncHCP \/ \E o \in Objects : SyncObject(o) PROVE queued' \in BOOLEAN
  BY <1>2, Zenon DEF SyncHCP, SyncObject
<1>3. ASSUME Reconcile \/ Apply \/ APIError \/ SyncNodeClasses PROVE queued' \in BOOLEAN
  BY <1>3 DEF Reconcile, Apply, CreateOrUpdate, Advance, Failed, APIError, SyncNodeClasses
<1>4. ASSUME ReportOnly \/ HCPStep \/ NodeClassStep \/ \E o \in Objects : OtherWrite(o)
      PROVE  queued' \in BOOLEAN
  BY <1>4 DEF ReportOnly, HCPStep, NodeClassStep, OtherWrite
<1>5. QED
  BY <1>1, <1>2, <1>3, <1>4 DEF Next, Controller

(* The process starts.                                                     *)
LEMMA StartLemma ==
    ASSUME IInv, Start, queued' \in BOOLEAN PROVE Base'
<1>1. PICK cr \in Infrastructures : Starts(cr, "run")
  BY DEF Start
<1>2. /\ cfg' = ResolveControllerConfig(opts, Discovered(opts, cr)) /\ proc' = "run"
      /\ opts' = NoOptions /\ main(opts, cr) = "run" /\ proc = "down"
      /\ UNCHANGED <<nodeClasses, nodeClassCache, pc, want, changes>>
  BY <1>1 DEF Starts
<1>3. cfg' \in Configs /\ ServedConfig(cfg')
  BY <1>2, RunLemma, ResolvedLemma DEF IInv, TypeOK
<1>4. ctrl' \in Followed
  BY DEF Start
<1>5. pc' = 0
  BY <1>2 DEF IInv, IdleUntilRun
<1>6. /\ Order' \in Seq(Names) /\ Len(Order') \in Nat
      /\ Objects' = Range(ObjectsOf(cfg', ctrl'))
  BY <1>3, <1>4, ObjectsLemma DEF Order, Objects
<1>7. PICK left \in {Absent, Foreign} : obj' = [o \in Objects' |-> left]
  BY <1>6 DEF Start
<1>8. /\ obj' \in [Objects' -> Contents] /\ objCache' = obj'
      /\ lag' = [o \in Objects' |-> "none"]
  BY <1>7, FixedContents DEF Start
<1>9. hcp' \in HCPs /\ hcpCache' = hcp'
  <2>1. NoHCP \in HCPs
    BY DEF NoHCP, HCPs, Phases
  <2>2. CreatedHCPs \subseteq HCPs
    BY DEF CreatedHCPs, HCPs, Phases
  <2>3. QED
    BY <2>1, <2>2 DEF Start
<1>10. NoOptions \in Options
  BY DEF NoOptions, Options, Platforms
<1>11. TypeOK'
  BY <1>2, <1>3, <1>4, <1>5, <1>6, <1>8, <1>9, <1>10 DEF IInv, TypeOK
<1>12. CacheCurrent'
  BY <1>8 DEF CacheCurrent
<1>13. QED
  BY <1>2, <1>3, <1>4, <1>11, <1>12 DEF Base, RunsServed, IdleUntilRun

(* On a platform that is not supported, nothing but the report starts.     *)
LEMMA ReportOnlyLemma ==
    ASSUME IInv, ReportOnly PROVE Base'
<1>1. PICK cr \in Infrastructures : Starts(cr, "reporter")
  BY DEF ReportOnly
<1>2. /\ cfg' = ResolveControllerConfig(opts, Discovered(opts, cr)) /\ proc' = "reporter"
      /\ opts' = NoOptions /\ main(opts, cr) = "reporter" /\ proc = "down"
      /\ UNCHANGED <<nodeClasses, nodeClassCache, pc, want, changes>>
      /\ UNCHANGED <<ctrl, hcp, hcpCache, obj, objCache, lag, queued>>
  BY <1>1 DEF Starts, ReportOnly
<1>3. cfg' \in Configs
  BY <1>2, ResolvedLemma DEF IInv, TypeOK
<1>4. ctrl = "none" /\ pc = 0
  BY <1>2 DEF IInv, IdleUntilRun
<1>5. Order' = Order /\ Objects' = Objects
  BY <1>2, <1>4 DEF Order, Objects, ObjectsOf
<1>6. NoOptions \in Options
  BY DEF NoOptions, Options, Platforms
<1>7. TypeOK'
  BY <1>2, <1>3, <1>5, <1>6 DEF IInv, TypeOK
<1>8. CacheCurrent'
  BY <1>2, <1>5 DEF IInv, CacheCurrent
<1>9. QED
  BY <1>2, <1>4, <1>7, <1>8 DEF Base, RunsServed, IdleUntilRun

(* What a step that leaves the process alone has to keep.                  *)
Kept ==
    /\ hcp' \in HCPs /\ hcpCache' \in HCPs
    /\ nodeClasses' \in [NodeClasses -> OpenshiftEC2NodeClasses]
    /\ nodeClassCache' \in [NodeClasses -> OpenshiftEC2NodeClasses]
    /\ obj' \in [Objects -> Contents] /\ objCache' \in [Objects -> Contents]
    /\ lag' \in [Objects -> {"none", "status", "generation"}]
    /\ pc' \in 0..Len(Order) /\ want' \in Contents
    /\ changes' \in 0..MaxChanges
    /\ proc # "run" => pc' = 0
    /\ \A o \in Objects : lag'[o] # "generation" => objCache'[o] = obj'[o]

(* That is enough, because the list of objects stays the same.             *)
LEMMA KeptLemma ==
    ASSUME IInv, UNCHANGED processVars, Kept, queued' \in BOOLEAN PROVE Base'
<1>1. Order' = Order /\ Objects' = Objects
  BY DEF Order, Objects
<1>2. TypeOK'
  BY <1>1 DEF IInv, TypeOK, Kept
<1>3. CacheCurrent' /\ RunsServed' /\ IdleUntilRun'
  BY <1>1 DEF IInv, CacheCurrent, RunsServed, IdleUntilRun, Kept
<1>4. QED
  BY <1>2, <1>3 DEF Base

(* The restart of the operator.                                            *)
LEMMA RestartLemma ==
    ASSUME IInv, Restart PROVE UNCHANGED processVars /\ Kept
<1>1. /\ hcpCache' = hcp /\ nodeClassCache' = nodeClasses /\ objCache' = obj
      /\ lag' = [o \in Objects |-> "none"] /\ pc' = 0 /\ want' = Absent
      /\ UNCHANGED <<opts, proc, cfg, ctrl, hcp, nodeClasses, obj>>
      /\ changes < MaxChanges /\ changes' = changes + 1
  BY DEF Restart, Change
<1>2. QED
  BY <1>1, OrderLemma, FixedContents, ConstantsAssumption DEF IInv, TypeOK, Kept

(* The controller: a reconcile starts, writes one object, or fails.        *)
LEMMA ReconcileLemma ==
    ASSUME IInv, Reconcile PROVE UNCHANGED processVars /\ Kept
<1>1. /\ UNCHANGED <<opts, proc, cfg, ctrl, hcp, nodeClasses, hcpCache, nodeClassCache>>
      /\ UNCHANGED <<obj, objCache, lag, changes>> /\ proc = "run"
      /\ \/ pc' = 1 /\ want' \in Desired(hcpCache, nodeClassCache)
         \/ UNCHANGED <<pc, want>>
  BY DEF Reconcile
<1>2. want' \in Contents
  BY <1>1, DesiredLemma DEF IInv, TypeOK
<1>3. pc' \in 0..Len(Order)
  BY <1>1, OrderLemma DEF IInv, TypeOK
<1>4. QED
  BY <1>1, <1>2, <1>3 DEF IInv, TypeOK, Kept, CacheCurrent

(* The position after a step of the controller.                            *)
LEMMA AdvanceLemma ==
    ASSUME IInv, Advance \/ Failed PROVE pc' \in 0..Len(Order) /\ want' \in Contents
<1>1. Len(Order) \in Nat /\ pc \in 0..Len(Order) /\ want \in Contents
  BY OrderLemma DEF IInv, TypeOK
<1>2. QED
  BY <1>1, FixedContents DEF Advance, Failed

(* A write, whoever makes it, is on its way to the cache.                  *)
LEMMA WriteLemma ==
    ASSUME IInv, NEW o \in Objects, NEW contents \in Contents, Write(o, contents)
    PROVE  /\ obj' \in [Objects -> Contents]
           /\ lag' \in [Objects -> {"none", "status", "generation"}]
           /\ \A x \in Objects : lag'[x] # "generation" => lag[x] # "generation" /\ obj'[x] = obj[x]
BY DEF IInv, TypeOK, Write

(* An object is created or updated, or the reconcile is tried again.       *)
LEMMA ApplyLemma ==
    ASSUME IInv, Apply PROVE UNCHANGED processVars /\ Kept
<1>1. /\ UNCHANGED <<opts, proc, cfg, ctrl, hcp, nodeClasses, hcpCache, nodeClassCache>>
      /\ UNCHANGED <<objCache, changes>> /\ pc # 0 /\ CreateOrUpdate(Order[pc])
  BY DEF Apply
<1>2. Order[pc] \in Objects /\ want \in Contents
  BY <1>1, OrderLemma DEF IInv, TypeOK
<1>3. (Advance \/ Failed) /\ (Write(Order[pc], want) \/ UNCHANGED <<obj, lag>>)
  BY <1>1 DEF CreateOrUpdate
<1>4. pc' \in 0..Len(Order) /\ want' \in Contents
  BY <1>3, AdvanceLemma
<1>5. proc = "run"
  BY <1>1 DEF IInv, IdleUntilRun
<1>6. /\ obj' \in [Objects -> Contents]
      /\ lag' \in [Objects -> {"none", "status", "generation"}]
      /\ \A x \in Objects : lag'[x] # "generation" => lag[x] # "generation" /\ obj'[x] = obj[x]
  BY <1>2, <1>3, WriteLemma DEF IInv, TypeOK
<1>7. QED
  BY <1>1, <1>4, <1>5, <1>6 DEF IInv, TypeOK, Kept, CacheCurrent

(* A call fails.                                                           *)
LEMMA APIErrorLemma ==
    ASSUME IInv, APIError PROVE UNCHANGED processVars /\ Kept
<1>1. pc' \in 0..Len(Order) /\ want' \in Contents
  BY AdvanceLemma DEF APIError
<1>2. /\ UNCHANGED <<opts, proc, cfg, ctrl, hcp, nodeClasses, hcpCache, nodeClassCache>>
      /\ UNCHANGED <<obj, objCache, lag>> /\ changes < MaxChanges /\ changes' = changes + 1
      /\ proc = "run"
  BY DEF APIError, Change
<1>3. QED
  BY <1>1, <1>2, ConstantsAssumption DEF IInv, TypeOK, Kept, CacheCurrent

(* The informers of the HCP and the NodeClasses.                           *)
LEMMA SyncLemma ==
    ASSUME IInv, SyncHCP \/ SyncNodeClasses PROVE UNCHANGED processVars /\ Kept
<1>1. /\ UNCHANGED <<opts, proc, cfg, ctrl, hcp, nodeClasses, obj, objCache, lag, pc, want, changes>>
      /\ hcpCache' \in {hcp, hcpCache} /\ nodeClassCache' \in {nodeClasses, nodeClassCache}
  BY DEF SyncHCP, SyncNodeClasses
<1>2. QED
  BY <1>1 DEF IInv, TypeOK, Kept, CacheCurrent, IdleUntilRun

(* The informer of the objects.                                            *)
LEMMA SyncObjectLemma ==
    ASSUME IInv, NEW o \in Objects, SyncObject(o) PROVE UNCHANGED processVars /\ Kept
<1>1. /\ UNCHANGED <<opts, proc, cfg, ctrl, hcp, nodeClasses, hcpCache, nodeClassCache, obj>>
      /\ UNCHANGED <<pc, want, changes>>
      /\ objCache' = [objCache EXCEPT ![o] = obj[o]] /\ lag' = [lag EXCEPT ![o] = "none"]
  BY DEF SyncObject
<1>2. QED
  BY <1>1 DEF IInv, TypeOK, Kept, CacheCurrent, IdleUntilRun

(* HyperShift.                                                             *)
LEMMA HCPStepLemma ==
    ASSUME IInv, HCPStep PROVE UNCHANGED processVars /\ Kept
<1>1. /\ UNCHANGED <<opts, proc, cfg, ctrl, nodeClasses, hcpCache, nodeClassCache>>
      /\ UNCHANGED <<obj, objCache, lag, pc, want>>
      /\ changes < MaxChanges /\ changes' = changes + 1 /\ proc = "run"
  BY DEF HCPStep, Change
<1>2. hcp' \in HCPs
  <2>1. CreatedHCPs \subseteq HCPs
    BY DEF CreatedHCPs, HCPs, Phases
  <2>2. hcp \in HCPs
    BY DEF IInv, TypeOK
  <2>3. [hcp EXCEPT !.infraID = 2] \in HCPs /\ [hcp EXCEPT !.phase = "deleting"] \in HCPs
    BY <2>2 DEF HCPs, Phases
  <2>4. [hcp EXCEPT !.karpenter = ~@] \in HCPs
    BY <2>2, Zenon DEF HCPs
  <2>5. [hcp EXCEPT !.override = ~@] \in HCPs
    BY <2>2, Zenon DEF HCPs
  <2>6. [NoHCP EXCEPT !.infraID = 2] \in HCPs
    <3>1. NoHCP \in HCPs
      BY DEF NoHCP, HCPs, Phases
    <3>2. QED
      BY <3>1 DEF HCPs
  <2>7. QED
    BY <2>1, <2>3, <2>4, <2>5, <2>6 DEF HCPStep
<1>3. QED
  BY <1>1, <1>2, ConstantsAssumption DEF IInv, TypeOK, Kept, CacheCurrent

(* Users, Karpenter and the EC2 NodeClass controller.                      *)
LEMMA NodeClassStepLemma ==
    ASSUME IInv, NodeClassStep PROVE UNCHANGED processVars /\ Kept
<1>1. /\ UNCHANGED <<opts, proc, cfg, ctrl, hcp, hcpCache, nodeClassCache>>
      /\ UNCHANGED <<obj, objCache, lag, pc, want>>
      /\ changes < MaxChanges /\ changes' = changes + 1 /\ proc = "run"
  BY DEF NodeClassStep, Change
<1>2. nodeClasses' \in [NodeClasses -> OpenshiftEC2NodeClasses]
  <2>1. NoNodeClass \in OpenshiftEC2NodeClasses
    BY DEF NoNodeClass, OpenshiftEC2NodeClasses, Phases
  <2>2. QED
    BY <2>1 DEF NodeClassStep, IInv, TypeOK, OpenshiftEC2NodeClasses, Phases
<1>3. QED
  BY <1>1, <1>2, ConstantsAssumption DEF IInv, TypeOK, Kept, CacheCurrent

(* Whoever else writes the objects.                                        *)
LEMMA OtherWriteLemma ==
    ASSUME IInv, NEW o \in Objects, OtherWrite(o) PROVE UNCHANGED processVars /\ Kept
<1>1. /\ UNCHANGED <<opts, proc, cfg, ctrl, hcp, nodeClasses, hcpCache, nodeClassCache>>
      /\ UNCHANGED <<objCache, pc, want>>
      /\ changes < MaxChanges /\ changes' = changes + 1 /\ proc = "run"
      /\ \/ \E contents \in {Absent, Foreign} : Write(o, contents)
         \/ lag[o] = "none" /\ lag' = [lag EXCEPT ![o] = "status"] /\ UNCHANGED obj
  BY DEF OtherWrite, Change
<1>2. /\ obj' \in [Objects -> Contents]
      /\ lag' \in [Objects -> {"none", "status", "generation"}]
      /\ \A x \in Objects : lag'[x] # "generation" => lag[x] # "generation" /\ obj'[x] = obj[x]
  <2>1. CASE \E contents \in {Absent, Foreign} : Write(o, contents)
    BY <2>1, WriteLemma, FixedContents
  <2>2. CASE lag[o] = "none" /\ lag' = [lag EXCEPT ![o] = "status"] /\ UNCHANGED obj
    BY <2>2 DEF IInv, TypeOK
  <2>3. QED
    BY <1>1, <2>1, <2>2
<1>3. QED
  BY <1>1, <1>2, ConstantsAssumption DEF IInv, TypeOK, Kept, CacheCurrent

(* Every step keeps them.                                                  *)
LEMMA BaseLemma ==
    ASSUME IInv, Next PROVE Base'
<1>1. queued' \in BOOLEAN
  BY QueuedLemma DEF IInv, TypeOK
<1>2. CASE Start
  BY <1>1, <1>2, StartLemma
<1>3. CASE ReportOnly
  BY <1>3, ReportOnlyLemma
<1>4. CASE Restart
  BY <1>1, <1>4, RestartLemma, KeptLemma
<1>5. CASE Controller
  BY <1>1, <1>5, ReconcileLemma, ApplyLemma, KeptLemma DEF Controller
<1>6. CASE APIError
  BY <1>1, <1>6, APIErrorLemma, KeptLemma
<1>7. CASE SyncHCP \/ SyncNodeClasses
  BY <1>1, <1>7, SyncLemma, KeptLemma
<1>8. CASE \E o \in Objects : SyncObject(o)
  BY <1>1, <1>8, SyncObjectLemma, KeptLemma
<1>9. CASE HCPStep
  BY <1>1, <1>9, HCPStepLemma, KeptLemma
<1>10. CASE NodeClassStep
  BY <1>1, <1>10, NodeClassStepLemma, KeptLemma
<1>11. CASE \E o \in Objects : OtherWrite(o)
  BY <1>1, <1>11, OtherWriteLemma, KeptLemma
<1>12. QED
  BY <1>2, <1>3, <1>4, <1>5, <1>6, <1>7, <1>8, <1>9, <1>10, <1>11 DEF Next

-----------------------------------------------------------------------------
(***************************************************************************)
(* No change is missed.                                                    *)
(***************************************************************************)

(* What the caches want depends on the caches and the configuration only.  *)
LEMMA DesiredFrame ==
    ASSUME UNCHANGED <<processVars, hcpCache, nodeClassCache>>
    PROVE  /\ Desired(hcpCache, nodeClassCache)' = Desired(hcpCache, nodeClassCache)
           /\ Gate(hcpCache)' <=> Gate(hcpCache)
<1>1. Desired(hcpCache, nodeClassCache)' = Desired(hcpCache, nodeClassCache)
  BY DEF Desired
<1>2. Gate(hcpCache)' <=> Gate(hcpCache)
  BY DEF Gate, VAPGate
<1>3. QED
  BY <1>1, <1>2

(* An object stays right under any write, because a write is noticed, and  *)
(* when nothing but its status is seen.                                    *)
LEMMA RightFrame ==
    ASSUME UNCHANGED <<processVars, hcpCache, nodeClassCache>>, NEW o,
           lag'[o] = "generation" \/ (lag[o] # "generation" /\ obj'[o] = obj[o]), Right(o)
    PROVE  Right(o)'
BY DesiredFrame DEF Right

(* A change of the HCP that wakes nobody changes neither whether the       *)
(* controller is to work nor what it wants.                                *)
LEMMA HCPLemma ==
    ASSUME IInv, SyncHCP, ~WokenByHCP(hcpCache, hcp), Gate(hcp), ctrl \in Followed
    PROVE  /\ Gate(hcpCache)
           /\ Desired(hcp, nodeClassCache) = Desired(hcpCache, nodeClassCache)
<1>1. hcp \in HCPs /\ hcpCache \in HCPs
  BY DEF IInv, TypeOK
<1>2. /\ hcp.phase \in Phases /\ hcpCache.phase \in Phases
      /\ hcp.karpenter \in BOOLEAN /\ hcpCache.karpenter \in BOOLEAN
      /\ hcp.override \in BOOLEAN /\ hcpCache.override \in BOOLEAN
  BY <1>1 DEF HCPs
<1>3. CASE ctrl = "crd"
  BY <1>3 DEF Gate, Desired
<1>4. CASE ctrl = "default-nodeclass"
  <2>1. /\ (hcpCache.phase = "absent") = (hcp.phase = "absent") /\ hcpCache.infraID = hcp.infraID
        /\ hcpCache.karpenter = hcp.karpenter /\ hcpCache.override = hcp.override
    BY <1>4 DEF WokenByHCP, DefaultHCPPredicate
  <2>2. QED
    BY <1>4, <2>1 DEF Gate, DefaultGate, Desired
<1>5. CASE ctrl = "nodeclass-vap"
  <2>1. CASE cfg.platform = "AWS"
    <3>1. hcp.phase # "absent" /\ ~hcp.override
      BY <1>5, <2>1 DEF Gate, VAPGate
    <3>2. hcpCache.phase # "absent" /\ hcpCache.override = hcp.override
      BY <1>5, <2>1, <3>1 DEF WokenByHCP, VAPHCPPredicate
    <3>3. QED
      BY <1>5, <3>1, <3>2 DEF Gate, VAPGate, Desired
  <2>2. CASE cfg.platform # "AWS"
    BY <1>5, <2>2 DEF Gate, VAPGate, Desired
  <2>3. QED
    BY <2>1, <2>2
<1>6. CASE ctrl = "ec2-nodeclass-subnets"
  <2>1. hcp.phase = "present" /\ ~hcp.override
    BY <1>6 DEF Gate, SubnetGate
  <2>2. /\ hcpCache.phase # "absent" /\ hcpCache.infraID = hcp.infraID
        /\ hcpCache.override = hcp.override
    BY <1>6, <2>1 DEF WokenByHCP, SubnetHCPPredicate
  <2>3. hcpCache.phase = "present"
    BY <1>2, <2>1, <2>2 DEF IInv, DeletionFinal, Phases
  <2>4. Gate(hcpCache)
    BY <1>6, <2>1, <2>2, <2>3 DEF Gate, SubnetGate
  <2>5. QED
    BY <1>6, <2>2, <2>4 DEF Desired, reconcileConfigMap
<1>7. QED
  BY <1>3, <1>4, <1>5, <1>6 DEF Followed

(* When the process comes up, its first lists queue a request, or there is *)
(* nothing to do.                                                          *)
LEMMA UpToDateStart ==
    ASSUME IInv, Base', Start \/ Restart PROVE UpToDate'
<1>1. queued' <=> InitialSync(ctrl', hcp', nodeClasses', obj')
  <2>1. CASE Start
    BY <2>1 DEF Start, Starts
  <2>2. CASE Restart
    BY <2>2 DEF Restart
  <2>3. QED
    BY <2>1, <2>2
<1>2. hcpCache' = hcp'
  BY DEF Start, Restart
<1>3. ASSUME proc' = "run", ~queued' PROVE ~Gate(hcpCache)'
  <2>1. ctrl' \in Followed
    BY <1>3 DEF Base, RunsServed
  <2>2. ctrl' # "crd" /\ ctrl' # "nodeclass-vap" /\ hcp'.phase = "absent"
    BY <1>1, <1>3 DEF InitialSync
  <2>3. QED
    BY <1>2, <2>1, <2>2 DEF Followed, Gate, DefaultGate, SubnetGate
<1>4. QED
  BY <1>3 DEF UpToDate

(* A reconcile that starts.                                                *)
LEMMA UpToDateReconcile ==
    ASSUME IInv, Reconcile PROVE UpToDate'
<1>1. UNCHANGED <<processVars, hcpCache, nodeClassCache>>
  BY DEF Reconcile
<1>2. CASE Gate(hcpCache) /\ pc' = 1 /\ want' \in Desired(hcpCache, nodeClassCache)
  BY <1>1, <1>2, DesiredFrame DEF UpToDate
<1>3. CASE ~Gate(hcpCache)
  BY <1>1, <1>3, DesiredFrame DEF UpToDate
<1>4. QED
  BY <1>2, <1>3 DEF Reconcile

(* A reconcile that moves on has left a right object behind.               *)
LEMMA UpToDateApply ==
    ASSUME IInv, Apply PROVE UpToDate'
<1> DEFINE RightNow(o) ==
        lag'[o] = "generation" \/ obj'[o] \in Desired(hcpCache, nodeClassCache)
<1>1. /\ UNCHANGED <<processVars, hcpCache, nodeClassCache, objCache>>
      /\ pc # 0 /\ CreateOrUpdate(Order[pc])
  BY DEF Apply
<1>2. /\ Order \in Seq(Names) /\ Len(Order) \in Nat /\ pc \in 1..Len(Order)
      /\ \A i \in 1..Len(Order) : Order[i] \in Objects
  BY <1>1, OrderLemma DEF IInv, TypeOK
<1>3. Order' = Order /\ Objects' = Objects
  BY <1>1 DEF Order, Objects
<1>4. CASE Failed
  BY <1>4 DEF Failed, UpToDate
<1>5. CASE Advance /\ ~Failed
  <2>1. SUFFICES ASSUME proc = "run", ~queued, Gate(hcpCache)
                 PROVE  /\ pc' = 0 => \A o \in Objects : RightNow(o)
                        /\ pc' # 0 => /\ want' \in Desired(hcpCache, nodeClassCache)
                                      /\ \A i \in 1..(pc' - 1) : RightNow(Order[i])
    <3>1. UNCHANGED queued
      BY <1>5 DEF Advance
    <3>2. QED
      BY <1>1, <1>3, <3>1, DesiredFrame DEF UpToDate, Right
  <2>2. want \in Desired(hcpCache, nodeClassCache) /\ \A i \in 1..(pc - 1) : Right(Order[i])
    BY <1>1, <2>1 DEF IInv, UpToDate
  <2>3. \/ Write(Order[pc], want)
        \/ UNCHANGED <<obj, lag>> /\ (lag[Order[pc]] # "generation" => obj[Order[pc]] = want)
    <3>1. lag[Order[pc]] # "generation" => objCache[Order[pc]] = obj[Order[pc]]
      BY <1>2 DEF IInv, CacheCurrent
    <3>2. QED
      BY <1>1, <1>5, <3>1 DEF CreateOrUpdate
  <2>4. RightNow(Order[pc])
    <3>1. lag'[Order[pc]] = "generation" \/ obj'[Order[pc]] = want
      BY <1>2, <2>3 DEF Write, IInv, TypeOK
    <3>2. QED
      BY <2>2, <3>1
  <2>5. \A o \in Objects : lag'[o] = "generation" \/ (lag'[o] = lag[o] /\ obj'[o] = obj[o])
    BY <1>2, <2>3 DEF Write, IInv, TypeOK
  <2>6. \A i \in 1..pc : RightNow(Order[i])
    <3>1. ASSUME NEW i \in 1..pc PROVE RightNow(Order[i])
      <4>1. CASE i = pc
        BY <4>1, <2>4
      <4>2. CASE i \in 1..(pc - 1)
        <5>1. Right(Order[i]) /\ Order[i] \in Objects
          BY <1>2, <2>2, <4>2
        <5>2. lag'[Order[i]] = "generation"
              \/ (lag[Order[i]] # "generation" /\ obj'[Order[i]] = obj[Order[i]])
          BY <2>5, <5>1
        <5>3. QED
          BY <5>1, <5>2 DEF Right
      <4>3. QED
        BY <1>2, <4>1, <4>2
    <3>2. QED
      BY <3>1
  <2>7. CASE pc < Len(Order)
    BY <1>2, <1>5, <2>2, <2>6, <2>7 DEF Advance
  <2>8. CASE ~(pc < Len(Order))
    <3>1. pc = Len(Order) /\ pc' = 0
      BY <1>2, <1>5, <2>8 DEF Advance
    <3>2. \A o \in Objects : \E i \in 1..pc : o = Order[i]
      BY <1>2, <3>1 DEF Objects, Range
    <3>3. QED
      BY <2>6, <3>1, <3>2
  <2>9. QED
    BY <2>7, <2>8
<1>6. QED
  BY <1>1, <1>4, <1>5 DEF CreateOrUpdate

(* An informer that changes what is wanted, or shows a write, wakes the    *)
(* controller.                                                             *)
LEMMA UpToDateSync ==
    ASSUME IInv, SyncHCP \/ SyncNodeClasses \/ \E o \in Objects : SyncObject(o)
    PROVE  UpToDate'
<1>1. UNCHANGED <<processVars, obj, pc, want>> /\ Order' = Order /\ Objects' = Objects
  BY DEF SyncHCP, SyncNodeClasses, SyncObject, Order, Objects
<1>2. CASE SyncNodeClasses
  BY <1>2 DEF SyncNodeClasses, UpToDate
<1>3. CASE SyncHCP
  <2>1. SUFFICES ASSUME proc = "run", ~queued', Gate(hcpCache)' PROVE UpToDate'
    BY <1>1 DEF UpToDate
  <2>2. ~queued /\ ~WokenByHCP(hcpCache, hcp) /\ hcpCache' = hcp /\ UNCHANGED <<nodeClassCache, lag>>
    BY <1>3, <2>1 DEF SyncHCP
  <2>3. Gate(hcp)
    BY <1>1, <2>1, <2>2 DEF Gate, VAPGate
  <2>4. ctrl \in Followed
    BY <2>1 DEF IInv, RunsServed
  <2>5. Gate(hcpCache) /\ Desired(hcp, nodeClassCache) = Desired(hcpCache, nodeClassCache)
    BY <1>3, <2>2, <2>3, <2>4, HCPLemma
  <2>6. Desired(hcpCache, nodeClassCache)' = Desired(hcpCache, nodeClassCache)
    BY <1>1, <2>2, <2>5 DEF Desired
  <2>7. \A o : Right(o)' <=> Right(o)
    BY <1>1, <2>2, <2>6 DEF Right
  <2>8. QED
    BY <1>1, <2>1, <2>2, <2>5, <2>6, <2>7 DEF IInv, UpToDate
<1>4. ASSUME NEW o \in Objects, SyncObject(o) PROVE UpToDate'
  <2>1. SUFFICES ASSUME proc = "run", ~queued', Gate(hcpCache)' PROVE UpToDate'
    BY <1>1 DEF UpToDate
  <2>2. /\ ~queued /\ ~WokenByObject(lag[o]) /\ UNCHANGED <<hcpCache, nodeClassCache>>
        /\ lag' = [lag EXCEPT ![o] = "none"]
    BY <1>4, <2>1 DEF SyncObject
  <2>3. lag[o] # "generation"
    BY <2>2 DEF WokenByObject, managedObjectPredicate
  <2>4. \A x \in Objects : lag'[x] = "generation" \/ (lag[x] # "generation" /\ obj'[x] = obj[x])
    BY <1>1, <2>2, <2>3 DEF IInv, TypeOK
  <2>5. \A x \in Objects : Right(x) => Right(x)'
    BY <1>1, <2>2, <2>4, RightFrame
  <2>6. \A i \in 1..(pc - 1) : Order[i] \in Objects
    BY OrderLemma DEF IInv, TypeOK
  <2>7. Gate(hcpCache) /\ Desired(hcpCache, nodeClassCache)' = Desired(hcpCache, nodeClassCache)
    BY <1>1, <2>1, <2>2, DesiredFrame
  <2>8. QED
    BY <1>1, <2>1, <2>2, <2>5, <2>6, <2>7 DEF IInv, UpToDate
<1>5. QED
  BY <1>2, <1>3, <1>4

(* What the others do is not seen yet, and a write is noticed.             *)
LEMMA UpToDateOthers ==
    ASSUME IInv, HCPStep \/ NodeClassStep \/ \E o \in Objects : OtherWrite(o) PROVE UpToDate'
<1>1. /\ UNCHANGED <<processVars, hcpCache, nodeClassCache, queued, pc, want>>
      /\ Order' = Order /\ Objects' = Objects
  BY DEF HCPStep, NodeClassStep, OtherWrite, Order, Objects
<1>2. \A x \in Objects :
         lag'[x] = "generation" \/ (obj'[x] = obj[x] /\ (lag[x] = "generation" => lag'[x] = lag[x]))
  BY DEF HCPStep, NodeClassStep, OtherWrite, Write, IInv, TypeOK
<1>3. \A x \in Objects : Right(x) => Right(x)'
  BY <1>1, <1>2, RightFrame
<1>4. \A i \in 1..(pc - 1) : Order[i] \in Objects
  BY OrderLemma DEF IInv, TypeOK
<1>5. QED
  BY <1>1, <1>3, <1>4, DesiredFrame DEF IInv, UpToDate

(* An HCP whose deletion has not been seen is not created again.           *)
LEMMA DeletionFinalLemma ==
    ASSUME IInv, Next PROVE DeletionFinal'
<1>1. CASE Start \/ Restart \/ SyncHCP
  BY <1>1 DEF Start, Restart, SyncHCP, DeletionFinal
<1>2. CASE HCPStep
  <2>1. UNCHANGED hcpCache
    BY <1>2 DEF HCPStep
  <2>2. ASSUME hcpCache.phase = "deleting" PROVE hcp'.phase # "present"
    <3>1. hcp.phase # "present" /\ hcpCache # NoHCP /\ hcp \in HCPs
      BY <2>2 DEF IInv, DeletionFinal, NoHCP, TypeOK
    <3>2. \/ hcp' = [hcp EXCEPT !.infraID = 2] \/ hcp' = [hcp EXCEPT !.karpenter = ~@]
          \/ hcp' = [hcp EXCEPT !.override = ~@] \/ hcp' = [NoHCP EXCEPT !.infraID = 2]
      BY <1>2, <3>1 DEF HCPStep
    <3>3. QED
      BY <3>1, <3>2 DEF HCPs, NoHCP
  <2>3. QED
    BY <2>1, <2>2 DEF DeletionFinal
<1>3. CASE UNCHANGED <<hcp, hcpCache>>
  BY <1>3 DEF IInv, DeletionFinal
<1>4. QED
  BY <1>1, <1>2, <1>3
     DEF Next, Controller, ReportOnly, Reconcile, Apply, APIError, SyncNodeClasses, SyncObject,
         NodeClassStep, OtherWrite

(* Every step keeps the invariant.                                         *)
LEMMA NextLemma ==
    ASSUME IInv, Next PROVE IInv'
<1>1. Base' /\ DeletionFinal'
  BY BaseLemma, DeletionFinalLemma
<1>2. UpToDate'
  <2>1. CASE ReportOnly \/ APIError
    BY <2>1 DEF ReportOnly, Starts, APIError, Failed, UpToDate
  <2>2. CASE Start \/ Restart
    BY <1>1, <2>2, UpToDateStart
  <2>3. CASE Controller
    BY <2>3, UpToDateReconcile, UpToDateApply DEF Controller
  <2>4. CASE SyncHCP \/ SyncNodeClasses \/ \E o \in Objects : SyncObject(o)
    BY <2>4, UpToDateSync
  <2>5. CASE HCPStep \/ NodeClassStep \/ \E o \in Objects : OtherWrite(o)
    BY <2>5, UpToDateOthers
  <2>6. QED
    BY <2>1, <2>2, <2>3, <2>4, <2>5 DEF Next
<1>3. QED
  BY <1>1, <1>2 DEF Base, IInv

(* The inductive invariant of the operator, from its start on: its         *)
(* configuration is one that its mode serves, and a cached copy that no    *)
(* event is missing for is the object.                                     *)
THEOREM Invariance == Spec => []IInv
<1>1. Init => IInv
  BY InitLemma
<1>2. IInv /\ [Next]_vars => IInv'
  <2>1. ASSUME IInv, UNCHANGED vars PROVE IInv'
    <3>1. /\ UNCHANGED <<processVars, hcpCache, nodeClassCache, obj, lag, queued, pc, want>>
          /\ Order' = Order /\ Objects' = Objects
      BY <2>1 DEF Order, Objects
    <3>2. Base' /\ DeletionFinal'
      BY <2>1, <3>1 DEF IInv, Base, TypeOK, RunsServed, IdleUntilRun, CacheCurrent, DeletionFinal
    <3>3. \A o : Right(o)' <=> Right(o)
      BY <3>1, DesiredFrame DEF Right
    <3>4. UpToDate'
      BY <2>1, <3>1, <3>3, DesiredFrame DEF IInv, UpToDate
    <3>5. QED
      BY <3>2, <3>4 DEF Base, IInv
  <2>2. QED
    BY <2>1, NextLemma
<1>3. QED
  BY <1>1, <1>2, PTL DEF Spec

(* The state has its type: what is written is always computed in full.     *)
THEOREM TypeCorrect == Spec => []TypeOK
BY Invariance, PTL DEF IInv

(* WatchesServed: every kind that a controller of a running operator       *)
(* watches has its CRD installed by the crd controller.                    *)
THEOREM WatchesServedCorrect == Spec => []WatchesServed
<1>1. IInv => WatchesServed
  BY WatchesLemma DEF IInv, TypeOK, RunsServed, WatchesServed
<1>2. QED
  BY <1>1, Invariance, PTL

(* ModeServed: a running operator has the whole set of controllers of its  *)
(* mode, whatever the environment and the Infrastructure CR held.          *)
THEOREM ModeServedCorrect == Spec => []ModeServed
<1>1. IInv => ModeServed
  BY ModeLemma DEF IInv, TypeOK, RunsServed, ModeServed
<1>2. QED
  BY <1>1, Invariance, PTL

(* ReplacesOnlyRead: CreateOrUpdate never replaces an object in a version  *)
(* that it has not read.                                                   *)
THEOREM ReplacesOnlyReadCorrect == Spec => ReplacesOnlyRead
<1>1. ASSUME IInv, Apply, NEW o \in Objects, obj'[o] # obj[o] PROVE objCache[o] = obj[o]
  <2>1. pc # 0 /\ CreateOrUpdate(Order[pc]) /\ Order[pc] \in Objects
    BY <1>1, OrderLemma DEF Apply, IInv, TypeOK
  <2>2. /\ Write(Order[pc], want)
        /\ \/ objCache[Order[pc]] = Absent /\ obj[Order[pc]] = Absent
           \/ lag[Order[pc]] = "none"
    BY <1>1, <2>1 DEF CreateOrUpdate
  <2>3. o = Order[pc]
    BY <1>1, <2>1, <2>2 DEF Write, IInv, TypeOK
  <2>4. QED
    BY <1>1, <2>2, <2>3 DEF IInv, CacheCurrent
<1>2. IInv /\ [Next]_vars =>
        [Apply => \A o \in Objects : obj'[o] # obj[o] => objCache[o] = obj[o]]_vars
  BY <1>1
<1>3. QED
  BY <1>2, Invariance, PTL DEF Spec, ReplacesOnlyRead

(* The list of the subnets has all of them: an injection of as many        *)
(* positions as there are subnets meets each.                              *)
LEMMA SubnetsLemma ==
    ASSUME NEW U, IsFiniteSet(U), NEW s \in SetToSeqs(U)
    PROVE  Range(s) = U
<1>1. Cardinality(U) \in Nat
  BY FS_CardinalityType
<1>2. /\ s \in [1..Cardinality(U) -> U]
      /\ \A i, j \in 1..Cardinality(U) : i # j => s[i] # s[j]
  BY DEF SetToSeqs
<1>3. s \in Injection(1..Cardinality(U), U)
  BY <1>2 DEF Injection, IsInjective
<1>4. Cardinality(1..Cardinality(U)) = Cardinality(U)
  BY <1>1, FS_Interval
<1>5. s \in Surjection(1..Cardinality(U), U)
  BY <1>3, <1>4, FS_Injection
<1>6. QED
  BY <1>2, <1>5 DEF Surjection, Range

(* RestsOnlyWanted: when the controller has nothing to do and the          *)
(* informers nothing to deliver, every object is as it should be, whatever *)
(* others did and however often a write failed.                            *)
THEOREM RestsOnlyWantedCorrect == Spec => []RestsOnlyWanted
<1>1. ASSUME IInv, proc = "run", pc = 0, ~queued, Gate(hcp), hcpCache = hcp,
             nodeClassCache = nodeClasses, \A x \in Objects : lag[x] = "none", NEW o \in Objects
      PROVE  AsWanted(o)
  <2>1. obj[o] \in Desired(hcp, nodeClasses)
    BY <1>1 DEF IInv, UpToDate, Right
  <2>2. CASE ctrl = "ec2-nodeclass-subnets"
    <3> DEFINE U == UNION {nodeClasses[n].subnets : n \in NodeClasses}
    <3>1. U \in SUBSET Subnets
      BY <1>1 DEF IInv, TypeOK, OpenshiftEC2NodeClasses
    <3>2. IsFiniteSet(U)
      BY <3>1, ConstantsAssumption, FS_Subset
    <3>3. PICK s \in SetToSeqs(U) : obj[o] = <<hcp.infraID>> \o s
      BY <2>1, <2>2 DEF Desired, reconcileConfigMap, resolvedSubnetIDs
    <3>4. AsWanted(o) <=> /\ obj[o] # Absent /\ Head(obj[o]) = hcp.infraID
                          /\ Range(Tail(obj[o])) = U
      BY <2>2 DEF AsWanted
    <3> HIDE DEF U
    <3>5. Range(s) = U
      BY <3>2, SubnetsLemma
    <3>6. s \in Seq(U)
      BY <3>2, FS_CardinalityType DEF SetToSeqs
    <3>7. obj[o] # Absent /\ Head(obj[o]) = hcp.infraID /\ Tail(obj[o]) = s
      BY <3>3, <3>6 DEF Absent
    <3>8. QED
      BY <3>4, <3>5, <3>7
  <2>3. CASE ctrl # "ec2-nodeclass-subnets"
    BY <2>1, <2>3 DEF Desired, AsWanted, AWSDefaultNodeClass, AzureDefaultNodeClass
  <2>4. QED
    BY <2>2, <2>3
<1>2. IInv => RestsOnlyWanted
  BY <1>1 DEF RestsOnlyWanted
<1>3. QED
  BY <1>2, Invariance, PTL
=============================================================================

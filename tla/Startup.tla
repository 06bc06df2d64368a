------------------------------- MODULE Startup -------------------------------
(***************************************************************************)
(* The start of the operator process: which options are accepted, what the *)
(* platform is, and which controllers the manager runs.  A string option   *)
(* is known by whether it is set; the options that are parsed or select    *)
(* the platform are known by what they parse to.                           *)
(***************************************************************************)
EXTENDS Naturals, SequencesExt

Platforms == {"AWS", "Azure", "other"}

(* The environment and the flags.  cloudEnv: the variables the provider of *)
(* the platform requires are all set.                                      *)
Options ==
    [managementCluster: {"unset", "true", "false", "malformed"},
     uid: {"unset", "positive", "nonpositive", "malformed"},
     platform: Platforms \union {"unset"},
     targetKubeconfig: {"unset", "valid", "invalid"},
     namespace: BOOLEAN, clusterName: BOOLEAN, clusterEndpoint: BOOLEAN,
     region: BOOLEAN, tokenMinterImage: BOOLEAN, cloudEnv: BOOLEAN]

(* The Infrastructure CR of a standalone cluster: it cannot be read, lacks *)
(* its platform status or its name, or gives the platform and the region   *)
(* (only AWS has one).                                                     *)
Infrastructures ==
    {[usable |-> FALSE, platform |-> "other", region |-> FALSE]}
    \union [usable: {TRUE}, platform: {"AWS"}, region: BOOLEAN]
    \union [usable: {TRUE}, platform: {"Azure", "other"}, region: {FALSE}]

ParseManagementClusterEnv(o) == o.managementCluster = "true"
parseSecurityContextUID(o) == o.uid

LoadEnv(o) ==
    o.managementCluster # "malformed" /\ parseSecurityContextUID(o) # "malformed"

(* Mutant: management mode does without a target kubeconfig.               *)
MutNoKubeconfig(o) ==
    /\ parseSecurityContextUID(o) # "nonpositive" /\ o.namespace
    /\ ParseManagementClusterEnv(o) =>
          /\ o.clusterName /\ o.clusterEndpoint /\ o.region /\ o.tokenMinterImage
          /\ o.platform # "unset"

Validate(o) ==
    /\ parseSecurityContextUID(o) # "nonpositive" /\ o.namespace
    /\ ParseManagementClusterEnv(o) =>
          /\ o.targetKubeconfig # "unset"
          /\ o.clusterName /\ o.clusterEndpoint /\ o.region /\ o.tokenMinterImage
          /\ o.platform # "unset"

discoverInfrastructureFromEnv(o) ==
    [usable |-> TRUE, platform |-> o.platform, region |-> o.region]

(* Run reads the Infrastructure CR only outside of management mode.        *)
Discovered(o, cr) ==
    IF ParseManagementClusterEnv(o) THEN discoverInfrastructureFromEnv(o) ELSE cr

isPlatformSupported(managementCluster, platform) ==
    managementCluster \/ platform = "AWS"

NewAWSProvider(infra, o) == infra.region /\ o.cloudEnv
NewAzureProvider(infra, o) == infra.region /\ o.cloudEnv

GetCloudProvider(infra, o) ==
    \/ infra.platform = "AWS" /\ NewAWSProvider(infra, o)
    \/ infra.platform = "Azure" /\ NewAzureProvider(infra, o)

HasHostedCluster(o) ==
    o.targetKubeconfig # "unset" /\ ParseManagementClusterEnv(o)

-----------------------------------------------------------------------------
(***************************************************************************)
(* The controllers of a configuration [managementCluster, platform,        *)
(* hosted].                                                                *)
(***************************************************************************)
newHCPNodeClassProvider(cfg) ==
    IF cfg.managementCluster /\ cfg.hosted THEN cfg.platform ELSE "none"

(* The NodeClass controllers a provider adds.                              *)
AWSNodeClassControllers == {"ec2-nodeclass", "ec2-nodeclass-subnets", "nodeclass-vap"}
AzureNodeClassControllers == {"azure-nodeclass", "nodeclass-vap"}

ProviderControllers(provider) ==
    IF provider = "AWS" THEN AWSNodeClassControllers
    ELSE IF provider = "Azure" THEN AzureNodeClassControllers ELSE {}

(* Azure has no node identity verifier.                                    *)
newMachineApproverController(cfg) ==
    IF cfg.hosted /\ cfg.platform = "AWS" THEN {"machine-approver"} ELSE {}

NewControllers(cfg) ==
    {"crd"} \union
    IF cfg.managementCluster
    THEN LET provider == newHCPNodeClassProvider(cfg) IN
         {"karpenter-hcp"}
         \union (IF provider # "none" THEN {"default-nodeclass"} ELSE {})
         \union ProviderControllers(provider)
         \union (IF cfg.hosted THEN {"autonode-status", "hcp-deletion"} ELSE {})
         \union newMachineApproverController(cfg)
    ELSE {"karpenter-ocp", "clusteroperator"}

(* The CRDs every Karpenter needs, of the provider's own Karpenter, and of *)
(* its hosted NodeClasses, in the order they are installed.                *)
CoreCRDs == <<"NodePool", "NodeClaim">>

CloudCRDs(platform) ==
    IF platform = "AWS" THEN <<"EC2NodeClass">> ELSE <<"AKSNodeClass", "NodeOverlay">>

HCPCRDs(platform) ==
    IF platform = "AWS" THEN <<"OpenshiftEC2NodeClass">> ELSE <<"OpenShiftAzureNodeClass">>

(* Mutant: the CRDs of the hosted NodeClasses are forgotten.               *)
MutCoreAndCloudCRDs(cfg) == CoreCRDs \o CloudCRDs(cfg.platform)

karpenterCRDs(cfg) ==
    CoreCRDs \o CloudCRDs(cfg.platform)
    \o (IF newHCPNodeClassProvider(cfg) = "none" THEN <<>> ELSE HCPCRDs(cfg.platform))

(* The kinds a controller watches or lists in the cluster of the nodes.    *)
TargetKinds(controller, platform) ==
    IF controller = "default-nodeclass" THEN Range(HCPCRDs(platform))
    ELSE IF controller = "ec2-nodeclass" THEN {"OpenshiftEC2NodeClass", "EC2NodeClass"}
    ELSE IF controller = "ec2-nodeclass-subnets" THEN {"OpenshiftEC2NodeClass"}
    ELSE IF controller = "azure-nodeclass" THEN {"OpenShiftAzureNodeClass", "AKSNodeClass"}
    ELSE IF controller = "hcp-deletion" THEN {"NodePool", "NodeClaim"}
    ELSE IF controller \in {"autonode-status", "machine-approver"} THEN {"NodeClaim"}
    ELSE {}

(* The controllers whose SetupWithManager fails without a hosted cluster.  *)
NeedsHostedCluster ==
    {"default-nodeclass", "ec2-nodeclass", "ec2-nodeclass-subnets", "nodeclass-vap",
     "autonode-status", "hcp-deletion", "machine-approver"}

Setup(cfg) == cfg.hosted \/ NewControllers(cfg) \intersect NeedsHostedCluster = {}

-----------------------------------------------------------------------------
(***************************************************************************)
(* The process exits with an error, only reports its ClusterOperator       *)
(* because the platform is not supported, or runs a configuration.         *)
(***************************************************************************)
ResolveControllerConfig(o, infra) ==
    [managementCluster |-> ParseManagementClusterEnv(o), platform |-> infra.platform,
     hosted |-> HasHostedCluster(o)]

Run(o, cr) ==
    LET infra == Discovered(o, cr)
        cfg == ResolveControllerConfig(o, infra)
    IN IF ~infra.usable THEN "exit"
       ELSE IF ~isPlatformSupported(cfg.managementCluster, cfg.platform) THEN "reporter"
       ELSE IF /\ GetCloudProvider(infra, o)
               /\ cfg.hosted => o.targetKubeconfig = "valid"
               /\ Setup(cfg)
            THEN "run" ELSE "exit"

main(o, cr) == IF LoadEnv(o) /\ Validate(o) THEN Run(o, cr) ELSE "exit"
=============================================================================

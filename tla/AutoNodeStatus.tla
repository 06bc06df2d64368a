--------------------------- MODULE AutoNodeStatus ---------------------------
(***************************************************************************)
(* The autonode-status controller: it counts the Karpenter nodes, the      *)
(* NodeClaims and their vCPUs in the hosted cluster and applies the counts *)
(* to the status of the HostedControlPlane (HCP).                          *)
(*                                                                         *)
(* One request, one worker.  Nodes, NodeClaims and the HCP come from three *)
(* caches that lag independently; the predicates of the watches let only   *)
(* some of their events pass.                                              *)
(***************************************************************************)
EXTENDS Integers, FiniteSets

CONSTANTS
    Claims,      \* NodeClaims; each has at most one node, of the same name
    CPUs,        \* CPU capacities that a NodeClaim may report
    MaxChanges   \* bound on the changes made by the other actors

ASSUME ConstantsAssumption ==
    IsFiniteSet(Claims) /\ CPUs \subseteq Nat \ {0} /\ MaxChanges \in Nat

VARIABLES
    node,        \* the Nodes: do they carry the NodePool label?
    claim,       \* the NodeClaims
    hcp,         \* the HCP with its AutoNode status
    nodeCache, claimCache, hcpCache,
    hcpEvent,    \* a write of the HCP is on its way to the cache
    queued,
    pc,          \* the next step of the reconcile in progress
    read,        \* the HCP and the nodes it has read
    desired,     \* the counts it is about to apply
    changes

serverVars == <<node, claim, hcp, hcpEvent>>
cacheVars == <<nodeCache, claimCache, hcpCache>>
ctrlVars == <<queued, pc, read, desired>>
vars == <<node, claim, hcp, hcpEvent, nodeCache, claimCache, hcpCache,
          queued, pc, read, desired, changes>>

NodeStates == {"absent", "unlabelled", "karpenter"}
NodeClaims == [exists: BOOLEAN, registered: BOOLEAN, cpu: CPUs \union {0}]
Unset == [nodes |-> -1, claims |-> -1, vcpus |-> -1]   \* nil pointers
Counts == [nodes: Nat, claims: Nat, vcpus: Nat] \union {Unset}
HCPs == [exists: BOOLEAN, autoNode: Counts]

NoClaim == [exists |-> FALSE, registered |-> FALSE, cpu |-> 0]
NoHCP == [exists |-> FALSE, autoNode |-> Unset]
Idle == [hcp |-> NoHCP, nodes |-> [c \in Claims |-> "absent"]]

TypeOK ==
    /\ node \in [Claims -> NodeStates] /\ nodeCache \in [Claims -> NodeStates]
    /\ claim \in [Claims -> NodeClaims] /\ claimCache \in [Claims -> NodeClaims]
    /\ hcp \in HCPs /\ hcpCache \in HCPs
    /\ hcpEvent \in BOOLEAN /\ queued \in BOOLEAN /\ pc \in {"idle", "listClaims", "apply"}
    /\ read \in [hcp: HCPs, nodes: [Claims -> NodeStates]]
    /\ desired \in Counts
    /\ pc = "idle" => read = Idle
    /\ pc # "apply" => desired = Unset
    /\ changes \in 0..MaxChanges

-----------------------------------------------------------------------------
(***************************************************************************)
(* The counts.                                                             *)
(***************************************************************************)

(* Sums the capacity of the NodeClaims whose node is listed, as the number *)
(* of their vCPUs, each a pair of its NodeClaim and an index.  2^31 vCPUs  *)
(* are out of reach, so the conversion to int32 keeps the value.           *)
sumNodeClaimVCPUs(claims, nodes) ==
    Cardinality(UNION {{c} \X (1..claims[c].cpu) :
                           c \in {d \in Claims : claims[d].registered /\ nodes[d] # "absent"}})

AutoNodeCounts(claims, nodes) ==
    [nodes |-> Cardinality({c \in Claims : nodes[c] = "karpenter"}),
     claims |-> Cardinality({c \in Claims : claims[c].exists}),
     vcpus |-> sumNodeClaimVCPUs(claims, nodes)]

(* The operator starts in a cluster where some nodes are in use already.   *)
Init ==
    /\ \E used \in SUBSET Claims :
          /\ node = [c \in Claims |-> IF c \in used THEN "karpenter" ELSE "absent"]
          /\ claim \in [Claims -> NodeClaims]
          /\ \A c \in Claims :
                IF c \in used
                THEN claim[c].exists /\ claim[c].registered /\ claim[c].cpu # 0
                ELSE claim[c] = NoClaim
    /\ hcp \in {NoHCP} \union [exists: {TRUE}, autoNode: {Unset, AutoNodeCounts(claim, node)}]
    /\ nodeCache = node /\ claimCache = claim /\ hcpCache = hcp
    /\ hcpEvent = FALSE
    /\ queued = (hcp.exists \/ \E c \in Claims : claim[c].exists)
    /\ pc = "idle" /\ read = Idle /\ desired = Unset
    /\ changes = 0

-----------------------------------------------------------------------------
(***************************************************************************)
(* The controller.                                                         *)
(***************************************************************************)
Finish == pc' = "idle" /\ read' = Idle /\ desired' = Unset

(* Mutant: the counts are kept for the next reconcile.                     *)
MutKeepsCounts == pc' = "idle" /\ read' = Idle /\ UNCHANGED <<queued, desired>>

Done == Finish /\ UNCHANGED queued

Failed == Finish /\ queued' = TRUE

(* Gets the HCP and lists the nodes.                                       *)
Reconcile ==
    /\ pc = "idle" /\ queued
    /\ queued' = FALSE
    /\ \/ /\ hcpCache.exists
          /\ pc' = "listClaims" /\ read' = [hcp |-> hcpCache, nodes |-> nodeCache]
          /\ UNCHANGED desired
       \/ ~hcpCache.exists /\ UNCHANGED <<pc, read, desired>>
    /\ UNCHANGED <<serverVars, cacheVars, changes>>

(* Lists the NodeClaims, possibly later than the nodes, and compares the   *)
(* counts with the status that was read.                                   *)
reconcileAutoNodeStatus ==
    /\ pc = "listClaims"
    /\ LET counts == AutoNodeCounts(claimCache, read.nodes) IN
       \/ counts = read.hcp.autoNode /\ Done
       \/ /\ counts # read.hcp.autoNode
          /\ pc' = "apply" /\ desired' = counts /\ UNCHANGED <<queued, read>>
    /\ UNCHANGED <<serverVars, cacheVars, changes>>

(* The API server makes an event of a write that changes something.        *)
WriteHCP(new) == hcp' = new /\ hcpEvent' = (hcpEvent \/ hcp # new)

(* A forced server-side apply: it overrides any other writer.              *)
Apply ==
    /\ pc = "apply"
    /\ \/ hcp.exists /\ WriteHCP([hcp EXCEPT !.autoNode = desired]) /\ Done
       \/ ~hcp.exists /\ Failed /\ UNCHANGED <<hcp, hcpEvent>>
    /\ UNCHANGED <<node, claim, cacheVars, changes>>

Controller == Reconcile \/ reconcileAutoNodeStatus \/ Apply

APIError ==
    /\ pc # "idle" /\ changes < MaxChanges
    /\ Failed
    /\ changes' = changes + 1
    /\ UNCHANGED <<serverVars, cacheVars>>

Restart ==
    /\ changes < MaxChanges
    /\ hcpCache' = hcp /\ nodeCache' = node /\ claimCache' = claim
    /\ queued' = (hcp.exists \/ \E c \in Claims : claim[c].exists \/ node[c] # "absent")
    /\ Finish
    /\ hcpEvent' = FALSE
    /\ changes' = changes + 1
    /\ UNCHANGED <<node, claim, hcp>>

-----------------------------------------------------------------------------
(***************************************************************************)
(* The watches.                                                            *)
(***************************************************************************)

nodeClaimPredicate(old, new) ==
    \/ old.exists # new.exists
    \/ old.cpu # new.cpu
    \/ old.registered # new.registered

(* Mutant: only the creation and deletion of nodes count.                  *)
MutNoLabel(old, new) == (old = "absent") # (new = "absent")

countChangePredicate(old, new) ==
    \/ (old = "absent") # (new = "absent")
    \/ (old = "karpenter") # (new = "karpenter")

SyncClaim(c) ==
    /\ claimCache[c] # claim[c]
    /\ claimCache' = [claimCache EXCEPT ![c] = claim[c]]
    /\ queued' = (queued \/ nodeClaimPredicate(claimCache[c], claim[c]))
    /\ UNCHANGED <<nodeCache, hcpCache, pc, read, desired, serverVars, changes>>

SyncNode(c) ==
    /\ nodeCache[c] # node[c]
    /\ nodeCache' = [nodeCache EXCEPT ![c] = node[c]]
    /\ queued' = (queued \/ countChangePredicate(nodeCache[c], node[c]))
    /\ UNCHANGED <<claimCache, hcpCache, pc, read, desired, serverVars, changes>>

(* Every event of the HCP passes, those of its status too.                 *)
SyncHCP ==
    /\ hcpEvent
    /\ hcpEvent' = FALSE /\ hcpCache' = hcp
    /\ queued' = TRUE
    /\ UNCHANGED <<nodeCache, claimCache, pc, read, desired, node, claim, hcp, changes>>

-----------------------------------------------------------------------------
(***************************************************************************)
(* Karpenter, the kubelets and HyperShift.                                 *)
(***************************************************************************)
Change == changes < MaxChanges /\ changes' = changes + 1

(* A NodeClaim is created, gets its node, reports its capacity, goes.      *)
ClaimStep(c) ==
    /\ Change
    /\ \/ ~claim[c].exists /\ claim' = [claim EXCEPT ![c].exists = TRUE]
       \/ /\ claim[c].exists /\ ~claim[c].registered /\ node[c] # "absent"
          /\ claim' = [claim EXCEPT ![c].registered = TRUE]
       \/ /\ claim[c].exists /\ claim[c].cpu = 0
          /\ \E n \in CPUs : claim' = [claim EXCEPT ![c].cpu = n]
       \/ claim[c].exists /\ claim' = [claim EXCEPT ![c] = NoClaim]
    /\ UNCHANGED <<node, hcp, hcpEvent, cacheVars, ctrlVars>>

NodeStep(c) ==
    /\ Change
    /\ \E s \in NodeStates \ {node[c]} :
          /\ s = "unlabelled" => node[c] = "absent"
          /\ node' = [node EXCEPT ![c] = s]
    /\ UNCHANGED <<claim, hcp, hcpEvent, cacheVars, ctrlVars>>

(* The HCP appears or goes, or HyperShift, under the same field manager,   *)
(* writes an AutoNode status of its own.                                   *)
HCPStep ==
    /\ Change
    /\ \/ ~hcp.exists /\ WriteHCP([NoHCP EXCEPT !.exists = TRUE])
       \/ hcp.exists /\ WriteHCP(NoHCP)
       \/ /\ hcp.exists /\ hcp.autoNode # Unset
          /\ WriteHCP([hcp EXCEPT !.autoNode = Unset])
    /\ UNCHANGED <<node, claim, cacheVars, ctrlVars>>

Next == \/ Controller \/ APIError \/ Restart \/ SyncHCP \/ HCPStep
        \/ \E c \in Claims : SyncClaim(c) \/ SyncNode(c) \/ ClaimStep(c) \/ NodeStep(c)

Spec == Init /\ [][Next]_vars

(* The worker and the informers run.                                       *)
Fairness ==
    /\ WF_vars(Controller) /\ WF_vars(SyncHCP)
    /\ \A c \in Claims : WF_vars(SyncClaim(c)) /\ WF_vars(SyncNode(c))

FairSpec == Spec /\ Fairness

-----------------------------------------------------------------------------
(***************************************************************************)
(* Properties.                                                             *)
(***************************************************************************)

(* The counts in the status end up as those of the hosted cluster: no      *)
(* event that matters is filtered out, and neither a list of nodes older   *)
(* than the list of NodeClaims, nor a comparison with an old status, nor   *)
(* another writer of the status leaves a wrong count behind.               *)
CountsConverge ==
    <>[](hcp.exists) => <>[](hcp.autoNode = AutoNodeCounts(claim, node))

(* The same, as what a state at rest looks like: when nothing is queued or *)
(* in progress and the informers have delivered everything, the status     *)
(* already has the counts.                                                 *)
RestsOnlyCounted ==
    /\ ~queued /\ pc = "idle" /\ hcp.exists
    /\ ~hcpEvent /\ nodeCache = node /\ claimCache = claim
    => hcp.autoNode = AutoNodeCounts(claim, node)

-----------------------------------------------------------------------------
(***************************************************************************)
(* The inductive invariant.                                                *)
(***************************************************************************)

(* A status is that of some NodeClaims and nodes, never a mixture.         *)
Statuses ==
    {Unset} \union {AutoNodeCounts(s[1], s[2]) :
                        s \in [Claims -> NodeClaims] \X [Claims -> NodeStates]}
ReportedHCPs == [exists: BOOLEAN, autoNode: Statuses]

Shape ==
    /\ node \in [Claims -> NodeStates] /\ nodeCache \in [Claims -> NodeStates]
    /\ claim \in [Claims -> NodeClaims] /\ claimCache \in [Claims -> NodeClaims]
    /\ hcp \in ReportedHCPs /\ hcpCache \in ReportedHCPs
    /\ hcpEvent \in BOOLEAN /\ queued \in BOOLEAN /\ pc \in {"idle", "listClaims", "apply"}
    /\ read \in [hcp: ReportedHCPs, nodes: [Claims -> NodeStates]]
    /\ desired \in Statuses
    /\ pc = "idle" => read = Idle
    /\ pc # "apply" => desired = Unset
    /\ changes \in 0..MaxChanges

(* The cached HCP is the HCP, or an event of it is on its way.             *)
EventPending == ~hcpEvent => hcpCache = hcp

(* Unless it is to run again, a reconcile works with what is cached now,   *)
(* and after it the cached status is right or about to be replaced.        *)
UpToDate ==
    ~queued /\ hcpCache.exists =>
        /\ pc = "idle" => hcpEvent \/ hcpCache.autoNode = AutoNodeCounts(claimCache, nodeCache)
        /\ pc = "listClaims" => read.hcp = hcpCache /\ read.nodes = nodeCache
        /\ pc = "apply" => desired = AutoNodeCounts(claimCache, nodeCache)

IInv == Shape /\ EventPending /\ UpToDate
=============================================================================

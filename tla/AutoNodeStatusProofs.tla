------------------------ MODULE AutoNodeStatusProofs ------------------------
(***************************************************************************)
(* Proofs about AutoNodeStatus: its types, and that a state at rest has    *)
(* the right counts.  The second argument is about which counts are        *)
(* compared and applied, never about what they are, so that AutoNodeCounts *)
(* is opened for the types only.                                           *)
(***************************************************************************)
EXTENDS AutoNodeStatus, FiniteSetTheorems, TLAPS

USE DEF vars, serverVars, cacheVars, ctrlVars

(* The fields of an HCP, with a status that is one of the possible ones.   *)
LEMMA HCPFields ==
    ASSUME NEW h \in ReportedHCPs
    PROVE  /\ h.exists \in BOOLEAN /\ h.autoNode \in Statuses
           /\ \A s \in Statuses : /\ [h EXCEPT !.autoNode = s] \in ReportedHCPs
                                  /\ [h EXCEPT !.autoNode = s].autoNode = s
                                  /\ [h EXCEPT !.autoNode = s].exists = h.exists
           /\ [h EXCEPT !.exists = TRUE] \in ReportedHCPs
BY DEF ReportedHCPs

(* Before the first report the status is unset, and the counts of any      *)
(* NodeClaims and nodes are a possible status.                             *)
LEMMA StatusLemma ==
    /\ Unset \in Statuses /\ NoHCP \in ReportedHCPs
    /\ Idle \in [hcp: ReportedHCPs, nodes: [Claims -> NodeStates]]
    /\ \A claims \in [Claims -> NodeClaims], nodes \in [Claims -> NodeStates] :
            AutoNodeCounts(claims, nodes) \in Statuses
<1>1. Unset \in Statuses
  BY Zenon DEF Statuses
<1>2. NoHCP \in ReportedHCPs
  BY <1>1 DEF NoHCP, ReportedHCPs
<1>3. [c \in Claims |-> "absent"] \in [Claims -> NodeStates]
  BY DEF NodeStates
<1>4. Idle \in [hcp: ReportedHCPs, nodes: [Claims -> NodeStates]]
  BY <1>2, <1>3 DEF Idle
<1>5. \A claims \in [Claims -> NodeClaims], nodes \in [Claims -> NodeStates] :
            AutoNodeCounts(claims, nodes) \in Statuses
  <2>1. ASSUME NEW claims \in [Claims -> NodeClaims], NEW nodes \in [Claims -> NodeStates]
        PROVE  AutoNodeCounts(claims, nodes) \in Statuses
    <3>1. <<claims, nodes>> \in [Claims -> NodeClaims] \X [Claims -> NodeStates]
      OBVIOUS
    <3>2. AutoNodeCounts(<<claims, nodes>>[1], <<claims, nodes>>[2]) \in Statuses
      BY <3>1, Zenon DEF Statuses
    <3>3. QED
      BY <3>2
  <2>2. QED
    BY <2>1
<1>6. QED
  BY <1>1, <1>2, <1>4, <1>5

(* Every change that reaches a cache wakes the controller: the predicates  *)
(* of the two watches tell all states of a node and of a NodeClaim apart.  *)
LEMMA PredicateLemma ==
    /\ \A old, new \in NodeStates : old # new => countChangePredicate(old, new)
    /\ \A old, new \in NodeClaims : old # new => nodeClaimPredicate(old, new)
<1>1. \A old, new \in NodeStates : old # new => countChangePredicate(old, new)
  BY DEF NodeStates, countChangePredicate
<1>2. \A old, new \in NodeClaims : old # new => nodeClaimPredicate(old, new)
  BY DEF NodeClaims, nodeClaimPredicate
<1>3. QED
  BY <1>1, <1>2

(* The invariant holds at the start, in a new cluster or a used one.       *)
LEMMA InitLemma ==
    ASSUME Init PROVE IInv
<1>1. node \in [Claims -> NodeStates] /\ claim \in [Claims -> NodeClaims]
  BY DEF Init, NodeStates
<1>2. hcp \in ReportedHCPs
  <2>1. CASE hcp = NoHCP
    BY <2>1, StatusLemma
  <2>2. CASE hcp \in [exists: {TRUE}, autoNode: {Unset, AutoNodeCounts(claim, node)}]
    <3>1. {Unset, AutoNodeCounts(claim, node)} \subseteq Statuses
      BY <1>1, StatusLemma
    <3>2. QED
      BY <2>2, <3>1, Zenon DEF ReportedHCPs
  <2>3. QED
    BY <2>1, <2>2 DEF Init
<1>3. queued \in BOOLEAN /\ (~queued => ~hcp.exists)
  BY Zenon DEF Init
<1>4. hcpEvent \in BOOLEAN
  BY DEF Init
<1>5. Shape
  BY <1>1, <1>2, <1>3, <1>4, StatusLemma, ConstantsAssumption DEF Init, Shape
<1>6. QED
  BY <1>3, <1>5 DEF Init, IInv, EventPending, UpToDate

-----------------------------------------------------------------------------
(***************************************************************************)
(* The controller.                                                         *)
(***************************************************************************)
(* A reconcile starts.                                                     *)
LEMMA ReconcileLemma ==
    ASSUME IInv, Reconcile PROVE IInv'
<1>1. /\ UNCHANGED <<node, claim, hcp, hcpEvent, nodeCache, claimCache, hcpCache, changes, desired>>
      /\ pc = "idle" /\ ~queued'
      /\ \/ hcpCache.exists /\ pc' = "listClaims" /\ read' = [hcp |-> hcpCache, nodes |-> nodeCache]
         \/ ~hcpCache.exists /\ UNCHANGED <<pc, read>>
  BY DEF Reconcile
<1>2. queued' \in BOOLEAN
  BY DEF Reconcile
<1>3. Shape'
  BY <1>1, <1>2 DEF IInv, Shape
<1>4. EventPending' /\ UpToDate'
  BY <1>1 DEF IInv, EventPending, UpToDate
<1>5. QED
  BY <1>3, <1>4 DEF IInv

(* The end of a reconcile.                                                 *)
LEMMA FinishLemma ==
    ASSUME Finish PROVE /\ pc' = "idle" /\ read' = Idle /\ desired' = Unset
                        /\ read' \in [hcp: ReportedHCPs, nodes: [Claims -> NodeStates]]
                        /\ desired' \in Statuses
BY StatusLemma DEF Finish

(* The counts are compared with the status that was read.                  *)
LEMMA CountLemma ==
    ASSUME IInv, reconcileAutoNodeStatus PROVE IInv'
<1> DEFINE counts == AutoNodeCounts(claimCache, read.nodes)
<1>1. /\ UNCHANGED <<node, claim, hcp, hcpEvent, nodeCache, claimCache, hcpCache, changes, queued>>
      /\ pc = "listClaims"
      /\ \/ counts = read.hcp.autoNode /\ Finish
         \/ pc' = "apply" /\ desired' = counts /\ UNCHANGED read
  BY DEF reconcileAutoNodeStatus, Done
<1>2. counts \in Statuses
  BY StatusLemma DEF IInv, Shape
<1> HIDE DEF counts
<1>3. Shape'
  BY <1>1, <1>2, FinishLemma DEF IInv, Shape
<1>4. ASSUME ~queued, hcpCache.exists
      PROVE  read.hcp = hcpCache /\ counts = AutoNodeCounts(claimCache, nodeCache)
  BY <1>1, <1>4 DEF IInv, UpToDate, counts
<1>5. UpToDate'
  BY <1>1, <1>4, FinishLemma DEF UpToDate
<1>6. QED
  BY <1>1, <1>3, <1>5 DEF IInv, EventPending

(* The counts are applied: either the status changes, and its event wakes  *)
(* the controller, or it was right before.                                 *)
LEMMA ApplyLemma ==
    ASSUME IInv, Apply PROVE IInv'
<1>1. /\ UNCHANGED <<node, claim, nodeCache, claimCache, hcpCache, changes>>
      /\ pc = "apply" /\ Finish
  BY DEF Apply, Done, Failed
<1>2. CASE hcp.exists /\ WriteHCP([hcp EXCEPT !.autoNode = desired]) /\ Done
  <2>1. hcp' = [hcp EXCEPT !.autoNode = desired] /\ UNCHANGED queued
    BY <1>2 DEF WriteHCP, Done
  <2>2. hcpEvent' \in BOOLEAN
    BY <1>2, Zenon DEF WriteHCP
  <2>3. ~hcpEvent' => ~hcpEvent /\ hcp' = hcp
    BY <1>2, <2>1, Zenon DEF WriteHCP
  <2>4. hcp' \in ReportedHCPs /\ hcp'.autoNode = desired
    BY <2>1, HCPFields DEF IInv, Shape
  <2>5. Shape'
    BY <1>1, <2>1, <2>2, <2>4, FinishLemma DEF IInv, Shape
  <2>6. EventPending'
    BY <1>1, <2>3 DEF IInv, EventPending
  <2>7. UpToDate'
    <3>1. SUFFICES ASSUME ~queued, hcpCache.exists, ~hcpEvent'
                   PROVE  hcpCache.autoNode = AutoNodeCounts(claimCache, nodeCache)
      BY <1>1, <2>1, FinishLemma DEF UpToDate
    <3>2. desired = AutoNodeCounts(claimCache, nodeCache)
      BY <1>1, <3>1 DEF IInv, UpToDate
    <3>3. hcpCache = hcp'
      BY <2>3, <3>1 DEF IInv, EventPending
    <3>4. QED
      BY <2>4, <3>2, <3>3
  <2>8. QED
    BY <2>5, <2>6, <2>7 DEF IInv
<1>3. CASE ~hcp.exists /\ Failed /\ UNCHANGED <<hcp, hcpEvent>>
  <2>1. queued' = TRUE /\ UNCHANGED <<hcp, hcpEvent>>
    BY <1>3 DEF Failed
  <2>2. queued' \in BOOLEAN /\ queued'
    BY <2>1
  <2>3. Shape'
    BY <1>1, <2>1, <2>2, FinishLemma DEF IInv, Shape
  <2>4. QED
    BY <1>1, <2>1, <2>2, <2>3 DEF IInv, EventPending, UpToDate
<1>4. QED
  BY <1>2, <1>3 DEF Apply

(* A call fails: the request is queued again.                              *)
LEMMA APIErrorLemma ==
    ASSUME IInv, APIError PROVE IInv'
<1>1. /\ UNCHANGED <<node, claim, hcp, hcpEvent, nodeCache, claimCache, hcpCache>>
      /\ changes < MaxChanges /\ changes' = changes + 1 /\ Finish /\ queued' = TRUE
  BY DEF APIError, Failed
<1>2. queued' \in BOOLEAN /\ queued'
  BY <1>1
<1>3. Shape'
  BY <1>1, <1>2, FinishLemma, ConstantsAssumption DEF IInv, Shape
<1>4. QED
  BY <1>1, <1>2, <1>3 DEF IInv, EventPending, UpToDate

(* The operator restarts: its first lists queue a request if there is an   *)
(* HCP.                                                                    *)
LEMMA RestartLemma ==
    ASSUME IInv, Restart PROVE IInv'
<1>1. /\ UNCHANGED <<node, claim, hcp>> /\ Finish
      /\ hcpCache' = hcp /\ nodeCache' = node /\ claimCache' = claim
      /\ changes < MaxChanges /\ changes' = changes + 1
  BY DEF Restart
<1>2. queued' \in BOOLEAN /\ (~queued' => ~hcp.exists)
  BY Zenon DEF Restart
<1>3. hcpEvent' \in BOOLEAN
  BY DEF Restart
<1>4. Shape'
  BY <1>1, <1>2, <1>3, FinishLemma, ConstantsAssumption DEF IInv, Shape
<1>5. QED
  BY <1>1, <1>2, <1>4 DEF IInv, EventPending, UpToDate

-----------------------------------------------------------------------------
(***************************************************************************)
(* The informers and the other actors.                                     *)
(***************************************************************************)

(* What reaches a cache is queued.                                         *)
LEMMA SyncLemma ==
    ASSUME IInv, SyncHCP \/ \E c \in Claims : SyncClaim(c) \/ SyncNode(c) PROVE IInv'
<1>1. /\ UNCHANGED <<node, claim, hcp, pc, read, desired, changes>>
      /\ nodeCache' \in [Claims -> NodeStates] /\ claimCache' \in [Claims -> NodeClaims]
  BY DEF IInv, Shape, SyncHCP, SyncClaim, SyncNode
<1>2. queued' \in BOOLEAN /\ queued'
  <2>1. CASE SyncHCP
    BY <2>1 DEF SyncHCP
  <2>2. ASSUME NEW c \in Claims, SyncClaim(c) PROVE queued' \in BOOLEAN /\ queued'
    <3>1. nodeClaimPredicate(claimCache[c], claim[c])
      BY <2>2, PredicateLemma DEF SyncClaim, IInv, Shape
    <3>2. QED
      BY <2>2, <3>1, Zenon DEF SyncClaim
  <2>3. ASSUME NEW c \in Claims, SyncNode(c) PROVE queued' \in BOOLEAN /\ queued'
    <3>1. countChangePredicate(nodeCache[c], node[c])
      BY <2>3, PredicateLemma DEF SyncNode, IInv, Shape
    <3>2. QED
      BY <2>3, <3>1, Zenon DEF SyncNode
  <2>4. QED
    BY <2>1, <2>2, <2>3
<1>3. /\ hcpEvent' \in BOOLEAN /\ hcpCache' \in ReportedHCPs
      /\ hcpCache' = hcp \/ UNCHANGED <<hcpCache, hcpEvent>>
  BY DEF IInv, Shape, SyncHCP, SyncClaim, SyncNode
<1>4. Shape'
  BY <1>1, <1>2, <1>3 DEF IInv, Shape
<1>5. EventPending'
  BY <1>1, <1>3 DEF IInv, EventPending
<1>6. QED
  BY <1>2, <1>4, <1>5 DEF IInv, UpToDate

(* Karpenter, the kubelets and HyperShift.                                 *)
LEMMA EnvironmentLemma ==
    ASSUME IInv, HCPStep \/ \E c \in Claims : ClaimStep(c) \/ NodeStep(c) PROVE IInv'
<1>1. /\ UNCHANGED <<nodeCache, claimCache, hcpCache, queued, pc, read, desired>>
      /\ changes < MaxChanges /\ changes' = changes + 1
  BY DEF HCPStep, ClaimStep, NodeStep, Change
<1>2. node' \in [Claims -> NodeStates]
  BY DEF IInv, Shape, HCPStep, ClaimStep, NodeStep
<1>3. claim' \in [Claims -> NodeClaims]
  <2>1. claim \in [Claims -> NodeClaims] /\ NoClaim \in NodeClaims
    BY DEF IInv, Shape, NoClaim, NodeClaims
  <2>2. ASSUME NEW c \in Claims, ClaimStep(c) PROVE claim' \in [Claims -> NodeClaims]
    <3>1. /\ [claim[c] EXCEPT !.exists = TRUE] \in NodeClaims
          /\ [claim[c] EXCEPT !.registered = TRUE] \in NodeClaims
          /\ \A n \in CPUs : [claim[c] EXCEPT !.cpu = n] \in NodeClaims
      BY <2>1 DEF NodeClaims
    <3>2. \E new \in NodeClaims : claim' = [claim EXCEPT ![c] = new]
      BY <2>1, <2>2, <3>1 DEF ClaimStep
    <3>3. QED
      BY <2>1, <3>2
  <2>3. QED
    BY <2>1, <2>2 DEF HCPStep, NodeStep
<1>4. /\ hcpEvent' \in BOOLEAN /\ hcp' \in ReportedHCPs
      /\ ~hcpEvent' => ~hcpEvent /\ hcp' = hcp
  <2>1. CASE UNCHANGED <<hcp, hcpEvent>>
    BY <2>1 DEF IInv, Shape
  <2>2. ASSUME NEW new \in ReportedHCPs, WriteHCP(new)
        PROVE  /\ hcpEvent' \in BOOLEAN /\ hcp' \in ReportedHCPs
               /\ ~hcpEvent' => ~hcpEvent /\ hcp' = hcp
    BY <2>2, Zenon DEF WriteHCP
  <2>3. ASSUME HCPStep PROVE \E new \in ReportedHCPs : WriteHCP(new)
    BY <2>3, HCPFields, StatusLemma DEF HCPStep, IInv, Shape
  <2>4. QED
    BY <2>1, <2>2, <2>3 DEF ClaimStep, NodeStep
<1>5. Shape'
  BY <1>1, <1>2, <1>3, <1>4, ConstantsAssumption DEF IInv, Shape
<1>6. EventPending'
  BY <1>1, <1>4 DEF IInv, EventPending
<1>7. UpToDate'
  BY <1>1, <1>4 DEF IInv, UpToDate
<1>8. QED
  BY <1>5, <1>6, <1>7 DEF IInv

-----------------------------------------------------------------------------
(* The inductive invariant: no change is lost between what is counted,     *)
(* what is compared and what is applied.                                   *)
THEOREM Invariance == Spec => []IInv
<1>1. Init => IInv
  BY InitLemma
<1>2. IInv /\ [Next]_vars => IInv'
  <2>1. ASSUME IInv, Next PROVE IInv'
    BY <2>1, ReconcileLemma, CountLemma, ApplyLemma, APIErrorLemma, RestartLemma, SyncLemma,
       EnvironmentLemma DEF Next, Controller
  <2>2. ASSUME IInv, UNCHANGED vars PROVE IInv'
    BY <2>2 DEF IInv, Shape, EventPending, UpToDate
  <2>3. QED
    BY <2>1, <2>2
<1>3. QED
  BY <1>1, <1>2, PTL DEF Spec

(* The numbers of reconcileAutoNodeStatus are natural numbers: what it     *)
(* counts and sums over the NodeClaims of a cluster is finite.             *)
LEMMA CountsType ==
    ASSUME NEW claims \in [Claims -> NodeClaims], NEW nodes \in [Claims -> NodeStates]
    PROVE  AutoNodeCounts(claims, nodes) \in [nodes: Nat, claims: Nat, vcpus: Nat]
<1>1. ASSUME NEW S \in SUBSET Claims PROVE IsFiniteSet(S) /\ Cardinality(S) \in Nat
  BY FS_Subset, FS_CardinalityType, ConstantsAssumption
<1>2. Cardinality({c \in Claims : nodes[c] = "karpenter"}) \in Nat
  BY <1>1
<1>3. Cardinality({c \in Claims : claims[c].exists}) \in Nat
  BY <1>1
<1>4. sumNodeClaimVCPUs(claims, nodes) \in Nat
  <2> DEFINE counted == {d \in Claims : claims[d].registered /\ nodes[d] # "absent"}
             vCPUs(c) == {c} \X (1..claims[c].cpu)
  <2>1. IsFiniteSet(counted)
    BY <1>1
  <2>2. ASSUME NEW c \in Claims PROVE IsFiniteSet(vCPUs(c))
    <3>1. claims[c].cpu \in CPUs \union {0}
      BY DEF NodeClaims
    <3>2. claims[c].cpu \in Int
      <4>1. \A n \in CPUs \union {0} : n \in Int
        BY ConstantsAssumption
      <4>2. QED
        BY <3>1, <4>1
    <3>3. IsFiniteSet(1..claims[c].cpu)
      BY <3>2, FS_Interval
    <3>4. IsFiniteSet({c})
      BY FS_Singleton
    <3>5. QED
      BY <3>3, <3>4, FS_Product
  <2> HIDE DEF vCPUs
  <2>3. IsFiniteSet({vCPUs(c) : c \in counted})
    <3> DEFINE f == [c \in counted |-> vCPUs(c)]
    <3>1. {vCPUs(c) : c \in counted} = {f[c] : c \in counted}
      OBVIOUS
    <3>2. f \in Surjection(counted, {vCPUs(c) : c \in counted})
      BY DEF Surjection
    <3>3. QED
      BY <2>1, <3>2, FS_Surjection
  <2>4. IsFiniteSet(UNION {vCPUs(c) : c \in counted})
    BY <2>2, <2>3, FS_UNION
  <2>5. QED
    BY <2>4, FS_CardinalityType DEF sumNodeClaimVCPUs, vCPUs
<1>5. QED
  BY <1>2, <1>3, <1>4 DEF AutoNodeCounts

(* The type invariant of the controller, for any finite set of NodeClaims  *)
(* and any capacities: also what Apply writes is unset or a triple of      *)
(* natural numbers.                                                        *)
THEOREM TypeCorrect == Spec => []TypeOK
<1>1. Statuses \subseteq Counts
  BY CountsType DEF Statuses, Counts
<1>2. ReportedHCPs \subseteq HCPs
  BY <1>1, Zenon DEF ReportedHCPs, HCPs
<1>3. IInv => TypeOK
  <2>1. SUFFICES ASSUME Shape PROVE TypeOK
    BY DEF IInv
  <2>2. [hcp: ReportedHCPs, nodes: [Claims -> NodeStates]]
            \subseteq [hcp: HCPs, nodes: [Claims -> NodeStates]]
    BY <1>2, Zenon
  <2>3. /\ hcp \in HCPs /\ hcpCache \in HCPs /\ desired \in Counts
        /\ read \in [hcp: HCPs, nodes: [Claims -> NodeStates]]
    BY <1>1, <1>2, <2>1, <2>2 DEF Shape
  <2>4. QED
    BY <2>1, <2>3, Zenon DEF Shape, TypeOK
<1>4. QED
  BY <1>3, Invariance, PTL

(* RestsOnlyCounted: when the controller has nothing to do and the         *)
(* informers nothing to deliver, the status has the counts of the cluster. *)
THEOREM RestsOnlyCountedCorrect == Spec => []RestsOnlyCounted
<1>1. IInv => RestsOnlyCounted
  BY DEF IInv, EventPending, UpToDate, RestsOnlyCounted
<1>2. QED
  BY <1>1, Invariance, PTL
=============================================================================

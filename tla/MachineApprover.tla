-------------------------- MODULE MachineApprover --------------------------
(***************************************************************************)
(* The karpenter-machine-approver controller: it approves the certificate  *)
(* signing requests (CSRs) of nodes that belong to Karpenter's NodeClaims, *)
(* after asking EC2 for the DNS names of the NodeClaims' instances.        *)
(*                                                                         *)
(* One worker; CSRs and NodeClaims are read from two caches that lag       *)
(* independently.  Only CSRs are watched.                                  *)
(***************************************************************************)
EXTENDS Naturals, FiniteSets

CONSTANTS
    CSRs,             \* CSR objects
    Claims,           \* NodeClaims (generated names, never reused)
    Instances,        \* EC2 instances
    Names,            \* private DNS names of instances, Karpenter's or not
    OtherNames,       \* names that no instance of Karpenter ever has
    MaxInstanceIDs,   \* maxInstanceIDsPerDescribeCall
    MaxDisturbances   \* bound on API errors and restarts

None == "none"

ASSUME ConstantsAssumption ==
    /\ MaxInstanceIDs \in Nat \ {0}
    /\ MaxDisturbances \in Nat
    /\ None \notin Names \union OtherNames
    /\ None \notin Instances /\ None \notin CSRs
    /\ Names \intersect OtherNames = {}

VARIABLES
    csr,          \* the CSRs in the API server
    claim,        \* the NodeClaims in the API server
    instance,     \* the instances, as EC2 describes them
    csrCache, claimCache,
    queue,        \* CSRs in the workqueue
    pc,           \* the next call of the reconcile in progress
    cur,          \* its CSR (None when idle)
    todo,         \* instances still to be described
    disturbances

serverVars == <<csr, claim, instance>>
cacheVars == <<csrCache, claimCache>>
ctrlVars == <<queue, pc, cur, todo>>
vars == <<serverVars, cacheVars, ctrlVars, disturbances>>

(* The signers of csrFilterFn.  A request without a node name (None) is    *)
(* one that authorize cannot read.                                         *)
CSRObjects == [phase: {"absent", "pending", "approved", "denied", "deleted"},
               signer: {"client", "serving"}, name: Names \union OtherNames \union {None}]

NodeClaims == [phase: {"present", "gone"},
               providerID: Instances \union {None},
               nodeName: Names \union {None}]

(* EC2 keeps describing a terminated instance for a while, but without the *)
(* name it had; an ID it has forgotten then fails the whole call.          *)
InstanceObjects == [state: {"unused", "running", "terminated", "forgotten"},
                    name: Names \union {None}]

TypeOK ==
    /\ csr \in [CSRs -> CSRObjects] /\ csrCache \in [CSRs -> CSRObjects]
    /\ claim \in [Claims -> NodeClaims] /\ claimCache \in [Claims -> NodeClaims]
    /\ instance \in [Instances -> InstanceObjects]
    /\ queue \subseteq CSRs
    /\ pc \in {"idle", "describe", "approve"}
    /\ cur \in CSRs \union {None}
    /\ todo \subseteq Instances
    /\ pc = "idle" <=> cur = None
    /\ todo # {} => pc = "describe"
    /\ disturbances \in 0..MaxDisturbances

NoCSR == [phase |-> "absent", signer |-> "client", name |-> None]
NewClaim == [phase |-> "present", providerID |-> None, nodeName |-> None]

Init ==
    /\ csr = [i \in CSRs |-> NoCSR] /\ csrCache = csr
    /\ claim = [c \in Claims |-> NewClaim] /\ claimCache = claim
    /\ instance = [x \in Instances |-> [state |-> "unused", name |-> None]]
    /\ queue = {} /\ pc = "idle" /\ cur = None /\ todo = {}
    /\ disturbances = 0

-----------------------------------------------------------------------------
(***************************************************************************)
(* The controller.                                                         *)
(***************************************************************************)
Finish == pc' = "idle" /\ cur' = None /\ todo' = {}

Done == Finish /\ UNCHANGED queue

(* Mutant: the rest of the batches is kept.                                *)
MutKeepsTodo == pc' = "idle" /\ cur' = None /\ queue' = queue \union {cur} /\ UNCHANGED todo

Failed == Finish /\ queue' = queue \union {cur}

(* Mutant: a processed CSR is not recognised.                              *)
MutAlwaysPending(obj) == obj.phase \notin {"absent", "deleted"}

isCertificateRequestPending(obj) == obj.phase = "pending"

ListedClaims == {c \in Claims : claimCache[c].phase = "present"}

(* The instances to verify a CSR against: for a client certificate those   *)
(* of all NodeClaims without a node, for a serving certificate that of a   *)
(* NodeClaim with this node (the first one listed).  NodeClaims without a  *)
(* usable provider ID are skipped.                                         *)
instanceIDs(cs) == {claimCache[c].providerID : c \in cs} \ {None}

Candidates(obj) ==
    IF obj.signer = "client"
    THEN {instanceIDs({c \in ListedClaims : claimCache[c].nodeName = None})}
    ELSE LET targets == {c \in ListedClaims : claimCache[c].nodeName = obj.name}
         IN  IF targets = {} THEN {{}} ELSE {instanceIDs({c}) : c \in targets}

(* Reconcile up to its first call of EC2.                                  *)
Reconcile(i) ==
    /\ pc = "idle" /\ i \in queue
    /\ LET obj == csrCache[i] IN
       \/ /\ ~isCertificateRequestPending(obj)
          /\ queue' = queue \ {i} /\ UNCHANGED <<pc, cur, todo>>
       \/ /\ isCertificateRequestPending(obj) /\ obj.name = None
          /\ UNCHANGED <<queue, pc, cur, todo>>
       \/ /\ isCertificateRequestPending(obj) /\ obj.name # None
          /\ queue' = queue \ {i}
          /\ \E ids \in Candidates(obj) :
                \/ ids = {} /\ UNCHANGED <<pc, cur, todo>>
                \/ ids # {} /\ todo' = ids /\ pc' = "describe" /\ cur' = i
    /\ UNCHANGED <<serverVars, cacheVars, disturbances>>

(* A batch of the instance IDs, in any order.                              *)
Batches == {b \in SUBSET todo :
               Cardinality(b) = IF Cardinality(todo) < MaxInstanceIDs
                                THEN Cardinality(todo) ELSE MaxInstanceIDs}

(* Mutant: the name an instance once had will do.                          *)
MutPastName(batch, name) == \E x \in batch : instance[x].name = name

(* Only a running instance is described with a private DNS name.           *)
matchesPrivateDNSName(batch, name) ==
    \E x \in batch : instance[x].state = "running" /\ instance[x].name = name

(* Mutant: only one batch is described.                                    *)
MutOneBatch(batch) == {}

Remaining(batch) == todo \ batch

Verify ==
    /\ pc = "describe"
    /\ \E batch \in Batches :
          LET unknown == \E x \in batch : instance[x].state = "forgotten"
              found == matchesPrivateDNSName(batch, csrCache[cur].name)
          IN  \/ unknown /\ Failed
              \/ ~unknown /\ found /\ pc' = "approve" /\ todo' = {} /\ UNCHANGED <<queue, cur>>
              \/ /\ ~unknown /\ ~found /\ Remaining(batch) # {}
                 /\ todo' = Remaining(batch) /\ UNCHANGED <<queue, pc, cur>>
              \/ ~unknown /\ ~found /\ Remaining(batch) = {} /\ Done
    /\ UNCHANGED <<serverVars, cacheVars, disturbances>>

(* The API server refuses the approval of a CSR that has changed since it  *)
(* was read, or that is approved or denied already.                        *)
approve ==
    /\ pc = "approve"
    /\ \/ /\ csr[cur].phase = "pending"
          /\ csr' = [csr EXCEPT ![cur].phase = "approved"]
          /\ Done
       \/ csr[cur].phase # "pending" /\ Failed /\ UNCHANGED csr
    /\ UNCHANGED <<claim, instance, cacheVars, disturbances>>

Controller == (\E i \in CSRs : Reconcile(i)) \/ Verify \/ approve

(* A call of the API server or of EC2 fails.                               *)
APIError ==
    /\ pc # "idle" /\ disturbances < MaxDisturbances
    /\ Failed
    /\ disturbances' = disturbances + 1
    /\ UNCHANGED <<serverVars, cacheVars>>

(* csrFilterFn: only pending CSRs wake the controller.  What it asks of    *)
(* the requesting user and of the signer is taken for granted: every CSR   *)
(* of the model passes, more than the code lets through.                   *)
csrFilterFn(obj) == isCertificateRequestPending(obj)

Restart ==
    /\ disturbances < MaxDisturbances
    /\ csrCache' = csr /\ claimCache' = claim
    /\ queue' = {i \in CSRs : csrFilterFn(csr[i])}
    /\ Finish
    /\ disturbances' = disturbances + 1
    /\ UNCHANGED <<serverVars>>

(* An update event passes the filter with the new object, a deletion with  *)
(* the last one.                                                           *)
SyncCSR(i) ==
    /\ csrCache[i] # csr[i]
    /\ csrCache' = [csrCache EXCEPT ![i] = csr[i]]
    /\ LET seen == IF csr[i].phase = "deleted" THEN csrCache[i] ELSE csr[i]
       IN  queue' = IF csrFilterFn(seen) THEN queue \union {i} ELSE queue
    /\ UNCHANGED <<claimCache, pc, cur, todo, serverVars, disturbances>>

(* NodeClaims are cached, but not watched by the controller.               *)
SyncClaims ==
    /\ claimCache # claim
    /\ claimCache' = claim
    /\ UNCHANGED <<csrCache, ctrlVars, serverVars, disturbances>>

-----------------------------------------------------------------------------
(***************************************************************************)
(* Kubelets, Karpenter and other approvers.                                *)
(***************************************************************************)

(* The kubelet of an instance, or of a node that is not Karpenter's, asks  *)
(* for a certificate.                                                      *)
Request(i) ==
    /\ csr[i].phase = "absent"
    /\ \E s \in {"client", "serving"}, n \in Names \union OtherNames \union {None} :
          /\ n \in Names => \E x \in Instances :
                               instance[x].state = "running" /\ instance[x].name = n
          /\ csr' = [csr EXCEPT ![i] = [phase |-> "pending", signer |-> s, name |-> n]]
    /\ UNCHANGED <<claim, instance, cacheVars, ctrlVars, disturbances>>

(* Somebody else decides on the CSR (an approval is to the controller what *)
(* a denial is) or deletes it.                                             *)
OtherDecision(i) ==
    /\ csr[i].phase = "pending"
    /\ \E p \in {"denied", "deleted"} : csr' = [csr EXCEPT ![i].phase = p]
    /\ UNCHANGED <<claim, instance, cacheVars, ctrlVars, disturbances>>

(* An instance is launched with a name that is free: a name is free again  *)
(* once its instance has terminated.                                       *)
LaunchInstance(x) ==
    /\ instance[x].state = "unused"
    /\ \E n \in Names :
          /\ \A y \in Instances : instance[y].state = "running" => instance[y].name # n
          /\ instance' = [instance EXCEPT ![x] = [state |-> "running", name |-> n]]

(* Karpenter launches the instance of a NodeClaim and records it.          *)
Launch(c) ==
    /\ claim[c].phase = "present" /\ claim[c].providerID = None
    /\ \E x \in Instances :
          LaunchInstance(x) /\ claim' = [claim EXCEPT ![c].providerID = x]
    /\ UNCHANGED <<csr, cacheVars, ctrlVars, disturbances>>

(* A HyperShift NodePool, or anybody else, launches an instance.           *)
LaunchOther(x) ==
    /\ LaunchInstance(x)
    /\ UNCHANGED <<csr, claim, cacheVars, ctrlVars, disturbances>>

(* Karpenter finds the node of the NodeClaim's instance, which has joined  *)
(* with a certificate from this CSR or from an earlier one.                *)
Register(c) ==
    /\ claim[c].phase = "present" /\ claim[c].nodeName = None
    /\ claim[c].providerID # None
    /\ instance[claim[c].providerID].state = "running"
    /\ claim' = [claim EXCEPT ![c].nodeName = instance[claim[c].providerID].name]
    /\ UNCHANGED <<csr, instance, cacheVars, ctrlVars, disturbances>>

Terminate(x) ==
    /\ \/ /\ instance[x].state = "running"
          /\ instance' = [instance EXCEPT ![x].state = "terminated"]
       \/ /\ instance[x].state = "terminated"
          /\ instance' = [instance EXCEPT ![x].state = "forgotten"]
    /\ UNCHANGED <<csr, claim, cacheVars, ctrlVars, disturbances>>

(* Karpenter removes the NodeClaim of an instance that is gone.            *)
RemoveClaim(c) ==
    /\ claim[c].phase = "present" /\ claim[c].providerID # None
    /\ instance[claim[c].providerID].state \in {"terminated", "forgotten"}
    /\ claim' = [claim EXCEPT ![c].phase = "gone"]
    /\ UNCHANGED <<csr, instance, cacheVars, ctrlVars, disturbances>>

Environment ==
    \/ \E i \in CSRs : Request(i) \/ OtherDecision(i)
    \/ \E c \in Claims : Launch(c) \/ Register(c) \/ RemoveClaim(c)
    \/ \E x \in Instances : LaunchOther(x) \/ Terminate(x)

Next == Controller \/ APIError \/ Restart \/ SyncClaims
        \/ (\E i \in CSRs : SyncCSR(i)) \/ Environment

Spec == Init /\ [][Next]_vars

(* The worker runs and serves the queue in order; the informers deliver;   *)
(* Karpenter removes NodeClaims whose instance is gone.                    *)
Fairness ==
    /\ WF_vars(Verify \/ approve)
    /\ \A i \in CSRs : SF_vars(Reconcile(i)) /\ WF_vars(SyncCSR(i))
    /\ WF_vars(SyncClaims)
    /\ \A c \in Claims : WF_vars(RemoveClaim(c))

FairSpec == Spec /\ Fairness

-----------------------------------------------------------------------------
(***************************************************************************)
(* Properties.                                                             *)
(***************************************************************************)

(* An instance of some NodeClaim has this name; has it, or had it.         *)
Held(name) ==
    \E c \in Claims : /\ claim[c].providerID # None
                      /\ instance[claim[c].providerID] = [state |-> "running", name |-> name]
Known(name) ==
    \E c \in Claims : claim[c].providerID # None /\ instance[claim[c].providerID].name = name

(* Whatever the caches lag, a CSR only passes Verify while the instance    *)
(* that has its name is one of a NodeClaim, not when a name that Karpenter *)
(* gave back is used by somebody else; and the controller only approves a  *)
(* CSR for a name that an instance of some NodeClaim has really had.       *)
ApprovedKnown ==
    [][/\ pc = "describe" /\ pc' = "approve" => Held(csr[cur].name)
       /\ \A i \in CSRs : pc = "approve" /\ pc' = "idle" /\ csr'[i] # csr[i]
                             => Known(csr[i].name)]_vars

(* What the controller sees is enough to approve the CSR.                  *)
Ready(i) ==
    LET named(c) == /\ claimCache[c].providerID # None
                    /\ matchesPrivateDNSName({claimCache[c].providerID}, csr[i].name)
    IN  IF csr[i].signer = "client"
        THEN \E c \in ListedClaims : claimCache[c].nodeName = None /\ named(c)
        ELSE /\ \E c \in ListedClaims : claimCache[c].nodeName = csr[i].name
             /\ \A c \in ListedClaims : claimCache[c].nodeName = csr[i].name => named(c)

(* A CSR of a Karpenter node whose NodeClaim is known to the controller as *)
(* long as the CSR is pending does not stay pending: failing calls, other  *)
(* batches and NodeClaims of instances EC2 has forgotten only delay it.    *)
ReadyCSRApproved ==
    \A i \in CSRs :
        [](csr[i].phase = "pending" => Ready(i)) => []<>(csr[i].phase # "pending")

(* "If a CSR is approved/denied after being added to the queue [...] trying *)
(* to approve it will result in an error and cause a loop": it does not.   *)
ProcessedCSRsRest ==
    \A i \in CSRs :
        <>[](csr[i].phase \in {"approved", "denied", "deleted"})
            => <>[](i \notin queue /\ cur # i)

(* The safety side of ReadyCSRApproved: under its condition a pending CSR  *)
(* is never forgotten.  It is queued or being worked on, or its last event *)
(* is still on its way: no batch, error, restart or lost race drops it.    *)
Remembered(i) == csr[i].phase = "pending" => i \in queue \/ cur = i \/ csrCache[i] # csr[i]

ReadyCSRRemembered ==
    \A i \in CSRs : [](csr[i].phase = "pending" => Ready(i)) => []Remembered(i)

-----------------------------------------------------------------------------
(***************************************************************************)
(* The inductive invariant behind ApprovedKnown.                           *)
(***************************************************************************)

(* Only instances that were launched are recorded in a NodeClaim.          *)
RecordedLaunched ==
    \A c \in Claims : claim[c].providerID # None
                        => instance[claim[c].providerID].state # "unused"

(* A cached NodeClaim has no provider ID yet, or the one on the server.    *)
ClaimsBehind ==
    \A c \in Claims : claimCache[c].providerID \in {None, claim[c].providerID}

(* A cached CSR has the name of the one on the server.                     *)
CSRsBehind ==
    \A i \in CSRs : csrCache[i].phase # "absent"
                      => csr[i].phase # "absent" /\ csr[i].name = csrCache[i].name

WorksOnKnown == pc # "idle" => csrCache[cur].phase # "absent"

DescribesRecorded == \A x \in todo : \E c \in Claims : claim[c].providerID = x

ApprovesKnown == pc = "approve" => Known(csr[cur].name)

IInv == /\ TypeOK /\ RecordedLaunched /\ ClaimsBehind /\ CSRsBehind
        /\ WorksOnKnown /\ DescribesRecorded /\ ApprovesKnown

-----------------------------------------------------------------------------
(***************************************************************************)
(* The inductive invariant behind ReadyCSRRemembered.                      *)
(***************************************************************************)

(* A CSR is not changed but decided, and its decision is final.            *)
CSRsDecidedOnce ==
    \A i \in CSRs :
        /\ csrCache[i].phase # "absent" => csrCache[i].signer = csr[i].signer
        /\ csr[i].phase = "pending" => csrCache[i].phase = "absent" \/ csrCache[i] = csr[i]

(* A private DNS name is that of one running instance only.                *)
NamesUnique ==
    \A x, y \in Instances :
        instance[x].state = "running" /\ instance[y].state = "running"
            /\ instance[x].name = instance[y].name => x = y

(* The instance that lets the CSR pass is still to be described.           *)
MatchAhead(i) ==
    cur = i /\ pc = "describe" /\ csr[i].phase = "pending"
        => matchesPrivateDNSName(todo, csr[i].name)

RememberInv(i) ==
    IInv /\ CSRsDecidedOnce /\ NamesUnique /\ MatchAhead(i) /\ Remembered(i)
=============================================================================

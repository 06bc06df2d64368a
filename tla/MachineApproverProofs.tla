------------------------ MODULE MachineApproverProofs ------------------------
(***************************************************************************)
(* Proofs about MachineApprover: its types, that a CSR only passes Verify  *)
(* while its name is that of an instance of a NodeClaim, is approved only  *)
(* for a name that such an instance has had, and that a CSR that can be    *)
(* approved is not forgotten.                                              *)
(***************************************************************************)
EXTENDS MachineApprover, TLAPS

USE DEF vars, serverVars, cacheVars, ctrlVars

(* A reconcile that ends leaves the controller well typed.                 *)
LEMMA EndType ==
    ASSUME TypeOK, Done \/ (pc # "idle" /\ Failed)
    PROVE  pc' = "idle" /\ cur' = None /\ todo' = {} /\ queue' \subseteq CSRs
BY DEF TypeOK, Done, Failed, Finish

(* The instances to verify a CSR against are instances.                    *)
LEMMA CandidatesType ==
    ASSUME TypeOK, NEW obj, NEW ids \in Candidates(obj), NEW x \in ids
    PROVE  /\ x \in Instances
           /\ \E c \in Claims : claimCache[c].providerID = x /\ x # None
<1>1. ASSUME NEW cs \in SUBSET Claims, x \in instanceIDs(cs)
      PROVE  \E c \in Claims : claimCache[c].providerID = x /\ x # None
  BY <1>1 DEF instanceIDs
<1>2. \E cs \in SUBSET Claims : x \in instanceIDs(cs)
  <2>1. ListedClaims \subseteq Claims
    BY DEF ListedClaims
  <2>2. CASE obj.signer = "client"
    BY <2>1, <2>2 DEF Candidates
  <2>3. CASE obj.signer # "client"
    BY <2>1, <2>3 DEF Candidates
  <2>4. QED
    BY <2>2, <2>3
<1>3. \E c \in Claims : claimCache[c].providerID = x /\ x # None
  BY <1>1, <1>2
<1>4. QED
  BY <1>3 DEF TypeOK, NodeClaims

(* A new instance runs under a name that no other running one has.         *)
LEMMA LaunchLemma ==
    ASSUME TypeOK, NEW x \in Instances, LaunchInstance(x)
    PROVE  /\ instance[x].state = "unused" /\ instance'[x].state = "running"
           /\ instance' \in [Instances -> InstanceObjects]
           /\ \A y \in Instances \ {x} :
                 /\ instance'[y] = instance[y]
                 /\ instance[y].state = "running" => instance[y].name # instance'[x].name
BY DEF LaunchInstance, TypeOK, InstanceObjects

(* Every step keeps the types.                                             *)
LEMMA TypeInductive == TypeOK /\ [Next]_vars => TypeOK'
<1> SUFFICES ASSUME TypeOK, [Next]_vars PROVE TypeOK'
  OBVIOUS
<1> USE DEF TypeOK
<1>1. ASSUME NEW i \in CSRs, Reconcile(i) PROVE TypeOK'
  <2>1. CASE UNCHANGED <<pc, cur, todo>>
    <3>1. queue' \subseteq CSRs
      BY <1>1 DEF Reconcile
    <3>2. QED
      BY <1>1, <2>1, <3>1 DEF Reconcile
  <2>2. CASE /\ queue' = queue \ {i} /\ pc' = "describe" /\ cur' = i
             /\ todo' \in Candidates(csrCache[i])
    <3>1. todo' \subseteq Instances
      BY <2>2, CandidatesType
    <3>2. QED
      BY <1>1, <2>2, <3>1, ConstantsAssumption DEF Reconcile
  <2>3. QED
    BY <1>1, <2>1, <2>2 DEF Reconcile
<1>2. CASE Verify
  <2>1. CASE Failed \/ Done
    BY <1>2, <2>1, EndType DEF Verify
  <2>2. CASE pc' = "approve" /\ todo' = {} /\ UNCHANGED <<queue, cur>>
    BY <1>2, <2>2 DEF Verify
  <2>3. CASE \E batch \in Batches : todo' = Remaining(batch) /\ UNCHANGED <<queue, pc, cur>>
    BY <1>2, <2>3 DEF Verify, Remaining
  <2>4. QED
    BY <1>2, <2>1, <2>2, <2>3 DEF Verify
<1>3. CASE approve
  <2>1. csr' \in [CSRs -> CSRObjects]
    BY <1>3 DEF approve, CSRObjects
  <2>2. QED
    BY <1>3, <2>1, EndType DEF approve
<1>4. CASE APIError
  BY <1>4, EndType, ConstantsAssumption DEF APIError
<1>5. CASE Restart
  BY <1>5, ConstantsAssumption DEF Restart, Finish
<1>6. CASE SyncClaims
  BY <1>6 DEF SyncClaims
<1>7. ASSUME NEW i \in CSRs, SyncCSR(i) PROVE TypeOK'
  BY <1>7 DEF SyncCSR
<1>8. ASSUME NEW i \in CSRs, Request(i) PROVE TypeOK'
  BY <1>8 DEF Request, CSRObjects
<1>9. ASSUME NEW i \in CSRs, OtherDecision(i) PROVE TypeOK'
  BY <1>9 DEF OtherDecision, CSRObjects
<1>10. ASSUME NEW c \in Claims, Launch(c) PROVE TypeOK'
  <2>0. PICK x \in Instances :
            LaunchInstance(x) /\ claim' = [claim EXCEPT ![c].providerID = x]
    BY <1>10 DEF Launch
  <2>1. claim' \in [Claims -> NodeClaims]
    BY <2>0 DEF NodeClaims
  <2>2. instance' \in [Instances -> InstanceObjects]
    BY <2>0, LaunchLemma
  <2>3. QED
    BY <1>10, <2>1, <2>2 DEF Launch
<1>11. ASSUME NEW c \in Claims, Register(c) PROVE TypeOK'
  <2>1. instance[claim[c].providerID].name \in Names \union {None}
    BY <1>11 DEF Register, NodeClaims, InstanceObjects
  <2>2. claim' \in [Claims -> NodeClaims]
    BY <1>11, <2>1 DEF Register, NodeClaims
  <2>3. QED
    BY <1>11, <2>2 DEF Register
<1>12. ASSUME NEW c \in Claims, RemoveClaim(c) PROVE TypeOK'
  BY <1>12 DEF RemoveClaim, NodeClaims
<1>13. ASSUME NEW x \in Instances, Terminate(x) PROVE TypeOK'
  BY <1>13 DEF Terminate, InstanceObjects
<1>14. ASSUME NEW x \in Instances, LaunchOther(x) PROVE TypeOK'
  BY <1>14, LaunchLemma DEF LaunchOther
<1>15. CASE UNCHANGED vars
  BY <1>15
<1>16. QED
  BY <1>1, <1>2, <1>3, <1>4, <1>5, <1>6, <1>7, <1>8, <1>9, <1>10, <1>11, <1>12, <1>13, <1>14,
     <1>15
  DEF Next, Controller, Environment

(* The initial states are well typed.                                      *)
LEMMA TypeInit == Init => TypeOK
BY ConstantsAssumption
DEF Init, TypeOK, NoCSR, NewClaim, CSRObjects, NodeClaims, InstanceObjects

(* The type invariant of the machine approver, for any CSRs, NodeClaims,   *)
(* instances and names, and any size of a batch.                           *)
THEOREM TypeCorrect == Spec => []TypeOK
BY TypeInit, TypeInductive, PTL DEF Spec

-----------------------------------------------------------------------------
(***************************************************************************)
(* What a step does, whoever takes it.                                     *)
(***************************************************************************)

(* A provider ID, once recorded, stays; a launched instance keeps its      *)
(* name, running or not; and so does a CSR.                                *)
LEMMA ServerStep ==
    ASSUME TypeOK, [Next]_vars
    PROVE  /\ \A c \in Claims : claim[c].providerID # None
                                  => claim'[c].providerID = claim[c].providerID
           /\ \A x \in Instances : instance[x].state # "unused"
                => instance'[x].state # "unused" /\ instance'[x].name = instance[x].name
           /\ \A i \in CSRs : csr[i].phase # "absent"
                => csr'[i].phase # "absent" /\ csr'[i].name = csr[i].name
<1>1. CASE \E c \in Claims : Launch(c)
  <2>1. PICK c \in Claims, x \in Instances :
            /\ LaunchInstance(x) /\ claim[c].providerID = None
            /\ claim' = [claim EXCEPT ![c].providerID = x] /\ csr' = csr
    BY <1>1 DEF Launch
  <2>2. QED
    BY <2>1, LaunchLemma DEF TypeOK, NodeClaims
<1>2. CASE \E c \in Claims : Register(c) \/ RemoveClaim(c)
  BY <1>2 DEF Register, RemoveClaim, TypeOK, NodeClaims
<1>3. CASE \E x \in Instances : Terminate(x)
  BY <1>3 DEF Terminate, TypeOK, InstanceObjects
<1>4. CASE \E i \in CSRs : Request(i) \/ OtherDecision(i)
  BY <1>4 DEF Request, OtherDecision, TypeOK, CSRObjects
<1>5. CASE approve
  BY <1>5 DEF approve, TypeOK, CSRObjects
<1>6. CASE \E x \in Instances : LaunchOther(x)
  BY <1>6, LaunchLemma DEF LaunchOther
<1>7. CASE UNCHANGED serverVars
  BY <1>7
<1>8. QED
  BY <1>1, <1>2, <1>3, <1>4, <1>5, <1>6, <1>7
  DEF Next, Controller, Environment, Reconcile, Verify, APIError, Restart, SyncClaims, SyncCSR

(* The cached NodeClaims are left alone, or become those on the server.    *)
LEMMA ClaimCacheStep ==
    ASSUME [Next]_vars
    PROVE  claimCache' = claimCache \/ (claimCache' = claim /\ claim' = claim)
BY DEF Next, Controller, Environment, Reconcile, Verify, approve, APIError, Restart, SyncClaims,
       SyncCSR, Request, OtherDecision, Launch, LaunchOther, Register, RemoveClaim, Terminate

(* A cached CSR is left alone, or becomes the one on the server.           *)
LEMMA CSRCacheStep ==
    ASSUME TypeOK, [Next]_vars
    PROVE  \A i \in CSRs : \/ csrCache'[i] = csrCache[i]
                           \/ csrCache'[i] = csr[i] /\ csr' = csr
<1>1. CASE \E i \in CSRs : SyncCSR(i)
  BY <1>1 DEF SyncCSR, TypeOK
<1>2. QED
  BY <1>1
  DEF Next, Controller, Environment, Reconcile, Verify, approve, APIError, Restart, SyncClaims,
      Request, OtherDecision, Launch, LaunchOther, Register, RemoveClaim, Terminate

(* A reconcile goes on with its CSR, or starts with a pending one.         *)
LEMMA WorkStep ==
    ASSUME [Next]_vars, pc' # "idle"
    PROVE  \/ pc # "idle" /\ cur' = cur
           \/ csrCache[cur'].phase = "pending" /\ csrCache' = csrCache
BY DEF Next, Controller, Environment, Reconcile, isCertificateRequestPending, Verify, approve,
       APIError, Restart, SyncClaims, SyncCSR, Request, OtherDecision, Launch, LaunchOther,
       Register,
       RemoveClaim, Terminate, Done, Failed, Finish

(* Only recorded instances are described.                                  *)
LEMMA TodoStep ==
    ASSUME TypeOK, [Next]_vars, NEW x \in todo'
    PROVE  \/ x \in todo
           \/ claim' = claim /\ \E c \in Claims : claimCache[c].providerID = x /\ x # None
<1>1. ASSUME NEW i \in CSRs, Reconcile(i), x \notin todo
      PROVE  claim' = claim /\ \E c \in Claims : claimCache[c].providerID = x /\ x # None
  <2>1. todo' \in Candidates(csrCache[i]) /\ claim' = claim
    BY <1>1 DEF Reconcile
  <2>2. QED
    BY <2>1, CandidatesType
<1>2. QED
  BY <1>1
  DEF Next, Controller, Environment, Verify, Remaining, approve, APIError, Restart, SyncClaims,
      SyncCSR, Request, OtherDecision, Launch, LaunchOther, Register, RemoveClaim, Terminate,
      Done, Failed,
      Finish

(* Verify goes on to the approval if a running instance has the name.      *)
LEMMA ApproveStep ==
    ASSUME [Next]_vars, pc' = "approve"
    PROVE  \/ pc = "approve" /\ cur' = cur
           \/ /\ pc = "describe" /\ cur' = cur /\ UNCHANGED serverVars
              /\ \E x \in todo : /\ instance[x].state = "running"
                                /\ instance[x].name = csrCache[cur].name
<1>1. CASE Verify
  BY <1>1 DEF Verify, Batches, matchesPrivateDNSName, Done, Failed, Finish
<1>2. QED
  BY <1>1
  DEF Next, Controller, Environment, Reconcile, approve, APIError, Restart, SyncClaims, SyncCSR,
      Request, OtherDecision, Launch, LaunchOther, Register, RemoveClaim, Terminate, Done,
      Failed, Finish

(* A name that an instance of some NodeClaim has stays known.              *)
LEMMA KnownStable ==
    ASSUME TypeOK, RecordedLaunched, [Next]_vars, NEW name, Known(name)
    PROVE  Known(name)'
<1>1. PICK c \in Claims : claim[c].providerID # None /\ instance[claim[c].providerID].name = name
  BY DEF Known
<1>2. claim[c].providerID \in Instances /\ instance[claim[c].providerID].state # "unused"
  BY <1>1 DEF TypeOK, NodeClaims, RecordedLaunched
<1>3. claim'[c].providerID = claim[c].providerID
  BY <1>1, ServerStep
<1>4. instance'[claim[c].providerID].name = name
  BY <1>1, <1>2, ServerStep
<1>5. QED
  BY <1>1, <1>3, <1>4 DEF Known

-----------------------------------------------------------------------------
(* IInv holds initially.                                                   *)
LEMMA InvInit == Init => IInv
<1> SUFFICES ASSUME Init PROVE IInv
  OBVIOUS
<1>1. TypeOK
  BY TypeInit
<1>2. QED
  BY <1>1 DEF Init, IInv, RecordedLaunched, ClaimsBehind, CSRsBehind, WorksOnKnown,
              DescribesRecorded, ApprovesKnown, NewClaim, NoCSR

(* IInv is inductive.                                                      *)
LEMMA InvInductive == IInv /\ [Next]_vars => IInv'
<1> SUFFICES ASSUME IInv, [Next]_vars PROVE IInv'
  OBVIOUS
<1> USE DEF IInv
<1>1. TypeOK'
  BY TypeInductive
<1>2. RecordedLaunched'
  <2> SUFFICES ASSUME NEW c \in Claims, claim'[c].providerID # None
               PROVE  instance'[claim'[c].providerID].state # "unused"
    BY DEF RecordedLaunched
  <2>1. CASE claim'[c].providerID = claim[c].providerID
    <3>1. claim[c].providerID \in Instances /\ instance[claim[c].providerID].state # "unused"
      BY <2>1 DEF RecordedLaunched, TypeOK, NodeClaims
    <3>2. QED
      BY <2>1, <3>1, ServerStep
  <2>2. CASE claim'[c].providerID # claim[c].providerID
    <3>1. Launch(c)
      BY <2>2
      DEF Next, Controller, Environment, Reconcile, Verify, approve, APIError, Restart,
          SyncClaims, SyncCSR, Request, OtherDecision, Launch, LaunchOther, Register, RemoveClaim,
          Terminate, TypeOK, NodeClaims
    <3>2. PICK x \in Instances :
              LaunchInstance(x) /\ claim' = [claim EXCEPT ![c].providerID = x]
      BY <3>1 DEF Launch
    <3>3. QED
      BY <3>2, LaunchLemma DEF TypeOK, NodeClaims
  <2>3. QED
    BY <2>1, <2>2
<1>3. ClaimsBehind'
  <2> SUFFICES ASSUME NEW c \in Claims
               PROVE  claimCache'[c].providerID \in {None, claim'[c].providerID}
    BY DEF ClaimsBehind
  <2>1. QED
    BY ClaimCacheStep, ServerStep DEF ClaimsBehind
<1>4. CSRsBehind'
  <2> SUFFICES ASSUME NEW i \in CSRs, csrCache'[i].phase # "absent"
               PROVE  csr'[i].phase # "absent" /\ csr'[i].name = csrCache'[i].name
    BY DEF CSRsBehind
  <2>1. QED
    BY CSRCacheStep, ServerStep DEF CSRsBehind
<1>5. WorksOnKnown'
  <2> SUFFICES ASSUME pc' # "idle" PROVE csrCache'[cur'].phase # "absent"
    BY DEF WorksOnKnown
  <2>1. CASE pc # "idle" /\ cur' = cur
    <3>1. cur \in CSRs /\ csrCache[cur].phase # "absent" /\ csr[cur].phase # "absent"
      BY <2>1 DEF TypeOK, WorksOnKnown, CSRsBehind
    <3>2. QED
      BY <2>1, <3>1, CSRCacheStep
  <2>2. QED
    BY <2>1, WorkStep
<1>6. DescribesRecorded'
  <2> SUFFICES ASSUME NEW x \in todo' PROVE \E c \in Claims : claim'[c].providerID = x
    BY DEF DescribesRecorded
  <2>1. x # None
    BY <1>1, ConstantsAssumption DEF TypeOK
  <2>2. CASE x \in todo
    BY <2>1, <2>2, ServerStep DEF DescribesRecorded
  <2>3. QED
    BY <2>2, TodoStep DEF ClaimsBehind
<1>7. ApprovesKnown'
  <2> SUFFICES ASSUME pc' = "approve" PROVE Known(csr[cur].name)'
    BY DEF ApprovesKnown
  <2>1. cur \in CSRs /\ cur' = cur /\ csr[cur].name = csrCache[cur].name /\ pc # "idle"
        /\ csr[cur].phase # "absent"
    BY ApproveStep DEF TypeOK, WorksOnKnown, CSRsBehind
  <2>2. csr'[cur'].name = csr[cur].name
    BY <2>1, ServerStep
  <2>3. Known(csr[cur].name)
    <3>1. CASE pc = "approve"
      BY <3>1 DEF ApprovesKnown
    <3>2. CASE \E x \in todo : instance[x].name = csrCache[cur].name
      BY <2>1, <3>2, ConstantsAssumption DEF Known, DescribesRecorded, TypeOK
    <3>3. QED
      BY <3>1, <3>2, ApproveStep
  <2>4. QED
    BY <2>2, <2>3, KnownStable
<1>8. QED
  BY <1>1, <1>2, <1>3, <1>4, <1>5, <1>6, <1>7

(* The inductive invariant holds throughout.                               *)
THEOREM Invariance == Spec => []IInv
BY InvInit, InvInductive, PTL DEF Spec

(* Whatever the caches lag and whoever uses a name again: Verify passes a  *)
(* CSR only while the running instance with its name is one of a NodeClaim *)
(* on the server, and approve is for a name that such an instance has had. *)
THEOREM ApprovedKnownCorrect == Spec => ApprovedKnown
<1>1. IInv /\ [Next]_vars =>
        [/\ pc = "describe" /\ pc' = "approve" => Held(csr[cur].name)
         /\ \A i \in CSRs : pc = "approve" /\ pc' = "idle" /\ csr'[i] # csr[i]
                               => Known(csr[i].name)]_vars
  <2> SUFFICES ASSUME IInv, Next
               PROVE  /\ pc = "describe" /\ pc' = "approve" => Held(csr[cur].name)
                      /\ \A i \in CSRs : pc = "approve" /\ pc' = "idle" /\ csr'[i] # csr[i]
                                            => Known(csr[i].name)
    OBVIOUS
  <2>1. ASSUME pc = "describe", pc' = "approve" PROVE Held(csr[cur].name)
    <3>1. PICK x \in todo : instance[x].state = "running" /\ instance[x].name = csrCache[cur].name
      BY <2>1, ApproveStep
    <3>2. PICK c \in Claims : claim[c].providerID = x
      BY DEF IInv, DescribesRecorded
    <3>3. x \in Instances /\ x # None
      BY ConstantsAssumption DEF IInv, TypeOK
    <3>4. csr[cur].name = csrCache[cur].name
      BY <2>1 DEF IInv, TypeOK, WorksOnKnown, CSRsBehind
    <3>5. instance[x] = [state |-> "running", name |-> csr[cur].name]
      BY <3>1, <3>3, <3>4 DEF IInv, TypeOK, InstanceObjects
    <3>6. QED
      BY <3>2, <3>3, <3>5 DEF Held
  <2>2. ASSUME NEW i \in CSRs, pc = "approve", pc' = "idle", csr'[i] # csr[i]
        PROVE  Known(csr[i].name)
    <3>1. approve
      BY <2>2 DEF Next, Controller, Environment, Reconcile, Verify, APIError, Restart,
         SyncClaims, SyncCSR, Request, OtherDecision, Launch, LaunchOther, Register,
         RemoveClaim, Terminate
    <3>2. i = cur
      BY <2>2, <3>1 DEF approve, IInv, TypeOK
    <3>3. QED
      BY <2>2, <3>2 DEF IInv, ApprovesKnown
  <2>3. QED
    BY <2>1, <2>2
<1>2. QED
  BY <1>1, Invariance, PTL DEF Spec, ApprovedKnown

-----------------------------------------------------------------------------
(***************************************************************************)
(* A CSR that can be approved is not forgotten.                            *)
(***************************************************************************)

(* A CSR is requested once, then decided once, and keeps its signer.       *)
LEMMA CSRStep ==
    ASSUME TypeOK, [Next]_vars, NEW i \in CSRs
    PROVE  \/ csr'[i] = csr[i]
           \/ csr[i].phase = "absent" /\ csr'[i].phase = "pending"
           \/ /\ csr[i].phase = "pending" /\ csr'[i].phase \notin {"absent", "pending"}
              /\ csr'[i].signer = csr[i].signer
<1>1. CASE \E j \in CSRs : Request(j)
  BY <1>1 DEF Request, TypeOK, CSRObjects
<1>2. CASE \E j \in CSRs : OtherDecision(j)
  BY <1>2 DEF OtherDecision, TypeOK, CSRObjects
<1>3. CASE approve
  BY <1>3 DEF approve, TypeOK, CSRObjects
<1>4. CASE csr' = csr
  BY <1>4
<1>5. QED
  BY <1>1, <1>2, <1>3, <1>4
  DEF Next, Controller, Environment, Reconcile, Verify, APIError, Restart, SyncClaims, SyncCSR,
      Launch, LaunchOther, Register, RemoveClaim, Terminate

(* The cached CSR, if any, is the pending one or an old version of it.     *)
LEMMA DecidedOnceStep ==
    ASSUME IInv, CSRsDecidedOnce, [Next]_vars
    PROVE  CSRsDecidedOnce'
<1> SUFFICES ASSUME NEW i \in CSRs
             PROVE  /\ csrCache'[i].phase # "absent" => csrCache'[i].signer = csr'[i].signer
                    /\ csr'[i].phase = "pending"
                          => csrCache'[i].phase = "absent" \/ csrCache'[i] = csr'[i]
  BY DEF CSRsDecidedOnce
<1>1. /\ csrCache[i].phase # "absent" => csrCache[i].signer = csr[i].signer
      /\ csr[i].phase = "pending" => csrCache[i].phase = "absent" \/ csrCache[i] = csr[i]
      /\ csrCache[i].phase # "absent" => csr[i].phase # "absent"
  BY DEF CSRsDecidedOnce, IInv, CSRsBehind
<1>2. csrCache'[i] = csrCache[i] \/ (csrCache'[i] = csr[i] /\ csr'[i] = csr[i])
  BY CSRCacheStep DEF IInv
<1>3. QED
  BY <1>1, <1>2, CSRStep DEF IInv

(* EC2 gives a name to a new instance only when no running one has it.     *)
LEMMA NamesUniqueStep ==
    ASSUME TypeOK, NamesUnique, [Next]_vars
    PROVE  NamesUnique'
<1>1. CASE \E x \in Instances : LaunchInstance(x)
  BY <1>1, LaunchLemma DEF NamesUnique
<1>2. CASE \E x \in Instances : Terminate(x)
  <2>1. PICK x \in Instances : Terminate(x)
    BY <1>2
  <2>2. \A y \in Instances : instance'[y].state = "running" => instance'[y] = instance[y]
    BY <2>1 DEF Terminate, TypeOK, InstanceObjects
  <2>3. QED
    BY <2>2 DEF NamesUnique
<1>3. CASE instance' = instance
  BY <1>3 DEF NamesUnique
<1>4. QED
  BY <1>1, <1>2, <1>3
  DEF Next, Controller, Environment, Reconcile, Verify, approve, APIError, Restart, SyncClaims,
      SyncCSR, Request, OtherDecision, Launch, LaunchOther, Register, RemoveClaim

(* Whatever instances authorize chooses to look at, the one with the name  *)
(* of such a CSR is among them.                                            *)
LEMMA ReadyAmongCandidates ==
    ASSUME NEW i \in CSRs, Ready(i), NEW ids \in Candidates(csr[i])
    PROVE  matchesPrivateDNSName(ids, csr[i].name)
<1> DEFINE named(c) == /\ claimCache[c].providerID # None
                       /\ matchesPrivateDNSName({claimCache[c].providerID}, csr[i].name)
<1>1. ASSUME NEW cs, NEW c \in cs, named(c)
      PROVE  matchesPrivateDNSName(instanceIDs(cs), csr[i].name)
  BY <1>1 DEF instanceIDs, matchesPrivateDNSName
<1>2. CASE csr[i].signer = "client"
  <2>1. ids = instanceIDs({c \in ListedClaims : claimCache[c].nodeName = None})
    BY <1>2 DEF Candidates
  <2>2. \E c \in ListedClaims : claimCache[c].nodeName = None /\ named(c)
    BY <1>2 DEF Ready
  <2>3. QED
    BY <1>1, <2>1, <2>2
<1>3. CASE csr[i].signer # "client"
  <2>1. /\ \E c \in ListedClaims : claimCache[c].nodeName = csr[i].name
        /\ \A c \in ListedClaims : claimCache[c].nodeName = csr[i].name => named(c)
    BY <1>3 DEF Ready
  <2>2. \E c \in ListedClaims : claimCache[c].nodeName = csr[i].name /\ ids = instanceIDs({c})
    BY <1>3, <2>1 DEF Candidates
  <2>3. QED
    BY <1>1, <2>1, <2>2
<1>4. QED
  BY <1>2, <1>3

(* A pending CSR that is being reconciled is cached as it is.              *)
LEMMA WorksOnCurrent ==
    ASSUME IInv, CSRsDecidedOnce, pc # "idle", csr[cur].phase = "pending"
    PROVE  cur \in CSRs /\ csrCache[cur] = csr[cur]
BY DEF IInv, TypeOK, WorksOnKnown, CSRsDecidedOnce

(* Such a CSR does not lose the instance that lets it pass: authorize      *)
(* starts with it, verify drops only batches it is not in, and EC2 may     *)
(* terminate it only by breaking the condition of ReadyCSRRemembered.      *)
LEMMA MatchAheadStep ==
    ASSUME NEW i \in CSRs, RememberInv(i), TypeOK', [Next]_vars,
           csr[i].phase = "pending" => Ready(i),
           csr'[i].phase = "pending" => Ready(i)'
    PROVE  MatchAhead(i)'
<1> SUFFICES ASSUME cur' = i, pc' = "describe", csr'[i].phase = "pending"
             PROVE  matchesPrivateDNSName(todo, csr[i].name)'
  BY DEF MatchAhead
<1> USE DEF RememberInv
<1>1. CASE cur = i /\ pc = "describe" /\ todo' = todo
  <2>1. csr[i].phase = "pending" /\ csr'[i] = csr[i]
    <3>1. csr[i].phase # "absent"
      BY <1>1 DEF IInv, WorksOnKnown, CSRsBehind
    <3>2. QED
      BY <3>1, CSRStep DEF IInv
  <2>2. PICK x \in todo : instance[x].state = "running" /\ instance[x].name = csr[i].name
    BY <1>1, <2>1 DEF MatchAhead, matchesPrivateDNSName
  <2>3. x \in Instances
    BY <2>2 DEF IInv, TypeOK
  <2>4. instance'[x].state = "running" /\ instance'[x].name = csr[i].name
    <3>1. PICK y \in Instances : instance'[y].state = "running" /\ instance'[y].name = csr'[i].name
      <4>1. PICK c \in Claims :
                /\ claimCache'[c].providerID # None
                /\ matchesPrivateDNSName({claimCache[c].providerID}, csr[i].name)'
        BY DEF Ready, ListedClaims
      <4>2. claimCache'[c].providerID \in Instances
        BY <4>1 DEF TypeOK, NodeClaims
      <4>3. QED
        BY <4>1, <4>2 DEF matchesPrivateDNSName
    <3>2. CASE instance' = instance
      BY <2>2, <3>2
    <3>3. CASE \E z \in Instances : LaunchInstance(z)
      BY <2>2, <2>3, <3>3, LaunchLemma DEF IInv
    <3>4. CASE \E z \in Instances : Terminate(z)
      <4>1. instance[y] = instance'[y]
        BY <3>1, <3>4 DEF Terminate, IInv, TypeOK, InstanceObjects
      <4>2. y = x
        BY <2>1, <2>2, <2>3, <3>1, <4>1 DEF NamesUnique
      <4>3. QED
        BY <2>1, <3>1, <4>2
    <3>5. QED
      BY <3>2, <3>3, <3>4
      DEF Next, Controller, Environment, Reconcile, Verify, approve, APIError, Restart,
          SyncClaims, SyncCSR, Request, OtherDecision, Launch, LaunchOther, Register,
          RemoveClaim
  <2>5. QED
    BY <1>1, <2>1, <2>2, <2>4 DEF matchesPrivateDNSName
<1>2. CASE \E j \in CSRs : Reconcile(j)
  <2>1. pc = "idle" /\ csr' = csr /\ instance' = instance
    BY <1>2 DEF Reconcile
  <2>2. Reconcile(i) /\ csrCache[i].phase = "pending" /\ todo' \in Candidates(csrCache[i])
    BY <1>2, <2>1 DEF Reconcile, isCertificateRequestPending
  <2>3. csrCache[i] = csr[i] /\ csr[i].phase = "pending"
    BY <2>1, <2>2 DEF CSRsDecidedOnce
  <2>4. matchesPrivateDNSName(todo', csr[i].name)
    BY <2>2, <2>3, ReadyAmongCandidates
  <2>5. QED
    BY <2>1, <2>4 DEF matchesPrivateDNSName
<1>3. CASE Verify
  <2>1. cur = i /\ pc = "describe" /\ csr' = csr /\ instance' = instance
    BY <1>3, ConstantsAssumption DEF Verify, Done, Failed, Finish
  <2>2. csrCache[i] = csr[i]
    BY <2>1, WorksOnCurrent
  <2>3. PICK batch \in Batches : /\ ~matchesPrivateDNSName(batch, csr[i].name)
                                 /\ todo' = todo \ batch
    BY <1>3, <2>1, <2>2, ConstantsAssumption DEF Verify, Remaining, Done, Failed, Finish
  <2>4. matchesPrivateDNSName(todo, csr[i].name)
    BY <2>1 DEF MatchAhead
  <2>5. QED
    BY <2>1, <2>3, <2>4 DEF matchesPrivateDNSName
<1>4. QED
  BY <1>1, <1>2, <1>3, ConstantsAssumption
  DEF Next, Controller, Environment, approve, APIError, Restart, SyncClaims, SyncCSR, Request,
      OtherDecision, Launch, LaunchOther, Register, RemoveClaim, Terminate, Done, Failed, Finish

(* No step forgets such a CSR: Reconcile never finds it without instances, *)
(* verify not without a match, and whatever fails is put back.             *)
LEMMA RememberedStep ==
    ASSUME NEW i \in CSRs, RememberInv(i), [Next]_vars,
           csr[i].phase = "pending" => Ready(i)
    PROVE  Remembered(i)'
<1> SUFFICES ASSUME csr'[i].phase = "pending"
             PROVE  i \in queue' \/ cur' = i \/ csrCache'[i] # csr'[i]
  BY DEF Remembered
<1> USE DEF RememberInv
<1>1. CASE \E j \in CSRs : Request(j)
  <2>1. csrCache' = csrCache /\ queue' = queue /\ cur' = cur
    BY <1>1 DEF Request
  <2>2. CASE csr'[i] = csr[i]
    BY <2>1, <2>2 DEF Remembered
  <2>3. CASE csr[i].phase = "absent"
    BY <2>1, <2>3 DEF IInv, CSRsBehind
  <2>4. QED
    BY <2>2, <2>3, CSRStep DEF IInv
<1> DEFINE Old == csr[i].phase = "pending" /\ csr'[i] = csr[i]
<1>2. CASE ~\E j \in CSRs : Request(j)
  <2>1. Old
    <3>1. CASE csr' = csr
      BY <3>1
    <3>2. CASE approve \/ \E j \in CSRs : OtherDecision(j)
      <4>1. csr[i].phase # "absent"
        BY <3>2 DEF approve, OtherDecision, IInv, TypeOK
      <4>2. QED
        BY <4>1, CSRStep DEF IInv
    <3>3. QED
      BY <1>2, <3>1, <3>2
      DEF Next, Controller, Environment, Reconcile, Verify, APIError, Restart, SyncClaims,
          SyncCSR, Launch, LaunchOther, Register, RemoveClaim, Terminate
  <2>2. i \in queue \/ cur = i \/ csrCache[i] # csr[i]
    BY <2>1 DEF Remembered
  <2>3. CASE /\ csrCache' = csrCache /\ (i \in queue => i \in queue')
             /\ (cur = i => cur' = i \/ i \in queue')
    BY <2>1, <2>2, <2>3
  <2>4. CASE \E j \in CSRs : Reconcile(j)
    <3>1. PICK j \in CSRs : Reconcile(j)
      BY <2>4
    <3>2. cur # i /\ csrCache' = csrCache /\ (j # i => (i \in queue => i \in queue'))
      BY <3>1, ConstantsAssumption DEF Reconcile, IInv, TypeOK
    <3>3. CASE j = i /\ csrCache[i] = csr[i] /\ i \notin queue'
      <4>1. PICK ids \in Candidates(csr[i]) : ids = {} \/ cur' = i
        BY <2>1, <3>1, <3>3 DEF Reconcile, isCertificateRequestPending
      <4>2. matchesPrivateDNSName(ids, csr[i].name)
        BY <2>1, ReadyAmongCandidates
      <4>3. QED
        BY <4>1, <4>2 DEF matchesPrivateDNSName
    <3>4. QED
      BY <2>1, <2>2, <3>2, <3>3
  <2>5. CASE Verify
    <3>1. CASE Failed
      BY <2>3, <2>5, <3>1 DEF Verify, Failed
    <3>2. CASE UNCHANGED <<queue, cur>>
      BY <2>3, <2>5, <3>2 DEF Verify
    <3>3. CASE Done /\ cur # i
      BY <2>3, <2>5, <3>3 DEF Verify, Done
    <3>4. CASE cur = i /\ \E batch \in Batches :
                 ~matchesPrivateDNSName(batch, csrCache[cur].name) /\ Remaining(batch) = {}
      <4>1. csrCache[i] = csr[i]
        BY <2>1, <2>5, <3>4, WorksOnCurrent DEF Verify
      <4>2. matchesPrivateDNSName(todo, csr[i].name)
        BY <2>1, <2>5, <3>4 DEF Verify, MatchAhead
      <4>3. QED
        BY <3>4, <4>1, <4>2 DEF matchesPrivateDNSName, Remaining
    <3>5. QED
      BY <2>5, <3>1, <3>2, <3>3, <3>4 DEF Verify
  <2>6. CASE approve
    <3>1. CASE Failed
      BY <2>3, <2>6, <3>1 DEF approve, Failed
    <3>2. CASE cur = i /\ csr' = [csr EXCEPT ![cur].phase = "approved"]
      BY <3>2 DEF IInv, TypeOK, CSRObjects
    <3>3. CASE cur # i /\ Done
      BY <2>3, <2>6, <3>3 DEF approve, Done
    <3>4. QED
      BY <2>6, <3>1, <3>2, <3>3 DEF approve
  <2>7. CASE APIError
    BY <2>3, <2>7 DEF APIError, Failed
  <2>8. CASE Restart
    BY <2>1, <2>8 DEF Restart, csrFilterFn, isCertificateRequestPending
  <2>9. CASE \E j \in CSRs : SyncCSR(j)
    <3>1. PICK j \in CSRs : SyncCSR(j)
      BY <2>9
    <3>2. CASE j = i
      BY <2>1, <3>1, <3>2 DEF SyncCSR, csrFilterFn, isCertificateRequestPending
    <3>3. CASE j # i
      BY <2>1, <2>2, <3>1, <3>3 DEF SyncCSR
    <3>4. QED
      BY <3>2, <3>3
  <2>10. QED
    BY <1>2, <2>3, <2>4, <2>5, <2>6, <2>7, <2>8, <2>9
    DEF Next, Controller, Environment, SyncClaims, OtherDecision, Launch, LaunchOther, Register,
        RemoveClaim,
        Terminate
<1>3. QED
  BY <1>1, <1>2

(* RememberInv holds initially: there are no CSRs yet.                     *)
LEMMA RememberInit ==
    ASSUME NEW i \in CSRs, Init
    PROVE  RememberInv(i)
<1>1. IInv
  BY InvInit
<1>2. CSRsDecidedOnce /\ NamesUnique
  BY DEF Init, CSRsDecidedOnce, NamesUnique, NoCSR
<1>3. MatchAhead(i) /\ Remembered(i)
  BY DEF Init, MatchAhead, Remembered, NoCSR
<1>4. QED
  BY <1>1, <1>2, <1>3 DEF RememberInv

(* RememberInv is inductive for a CSR that can be approved as long as it   *)
(* is pending.                                                             *)
LEMMA RememberInductive ==
    ASSUME NEW i \in CSRs, RememberInv(i), [Next]_vars,
           csr[i].phase = "pending" => Ready(i),
           csr'[i].phase = "pending" => Ready(i)'
    PROVE  RememberInv(i)'
<1>1. IInv'
  BY InvInductive DEF RememberInv
<1>2. CSRsDecidedOnce' /\ NamesUnique'
  BY DecidedOnceStep, NamesUniqueStep DEF RememberInv, IInv
<1>3. MatchAhead(i)' /\ Remembered(i)'
  BY <1>1, MatchAheadStep, RememberedStep DEF IInv
<1>4. QED
  BY <1>1, <1>2, <1>3 DEF RememberInv

(* The safety side of ReadyCSRApproved, for any number of CSRs, NodeClaims *)
(* and instances and any size of a batch: a pending CSR whose NodeClaim is *)
(* known is queued, being worked on, or about to be seen.  Reconcile's     *)
(* returns without a requeue never drop one.                               *)
THEOREM ReadyCSRRememberedCorrect == Spec => ReadyCSRRemembered
<1> SUFFICES ASSUME NEW i \in CSRs
             PROVE  Spec => ([](csr[i].phase = "pending" => Ready(i)) => []Remembered(i))
  BY DEF ReadyCSRRemembered
<1> DEFINE P == csr[i].phase = "pending" => Ready(i)
           R == RememberInv(i)
           Q == Remembered(i)
<1>1. Init => R
  BY RememberInit
<1>2. R /\ P /\ P' /\ [Next]_vars => R'
  BY RememberInductive
<1>3. R => Q
  BY DEF RememberInv
<1> HIDE DEF P, R, Q
<1>4. Spec => ([]P => []Q)
  BY <1>1, <1>2, <1>3, PTL DEF Spec
<1>5. QED
  BY <1>4 DEF P, Q
=============================================================================

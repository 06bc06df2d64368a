---------------------------- MODULE OperandProofs ----------------------------
(***************************************************************************)
(* Proofs about Operand: its types, that the pull secrets of others are    *)
(* kept, that the version annotation never goes back, that the parts of    *)
(* the pod fit together, and that a controller at rest has applied what    *)
(* its owner asks for.                                                     *)
(***************************************************************************)
EXTENDS Operand, TLAPS

USE DEF vars, serverVars, cacheVars, ctrlVars

-----------------------------------------------------------------------------
(***************************************************************************)
(* Owners and objects.                                                     *)
(***************************************************************************)

(* The fields of an owner.                                                 *)
LEMMA OwnerFields ==
    ASSUME NEW o \in Owners
    PROVE  /\ o.phase \in {"absent", "present"} /\ o.uid \in 1..MaxUID
           /\ o.version \in 0..MaxVersion
           /\ o.pullSecret \in PullSecrets \union {"none"}
           /\ o.override \in {"none", "custom"} /\ o.spec \in 1..2
BY DEF Owners

(* An owner whose fields have their types is an owner.                     *)
LEMMA OwnerType ==
    ASSUME NEW o \in Owners
    PROVE  /\ \A s \in 1..2 : [o EXCEPT !.spec = s] \in Owners
           /\ \A i \in {"none", "custom"} : [o EXCEPT !.override = i] \in Owners
           /\ \A b \in BOOLEAN : [o EXCEPT !.karpenter = b] \in Owners
           /\ \A x \in 0..MaxVersion : [o EXCEPT !.version = x] \in Owners
           /\ \A s \in PullSecrets \union {"none"} : [o EXCEPT !.pullSecret = s] \in Owners
           /\ \A u \in 1..MaxUID : [o EXCEPT !.uid = u] \in Owners
BY DEF Owners

(* A change of another field keeps the UID and the version.                *)
LEMMA OwnerKeeps ==
    ASSUME NEW o \in Owners, NEW x
    PROVE  /\ [o EXCEPT !.spec = x].uid = o.uid /\ [o EXCEPT !.spec = x].version = o.version
           /\ [o EXCEPT !.override = x].uid = o.uid /\ [o EXCEPT !.override = x].version = o.version
           /\ [o EXCEPT !.karpenter = x].uid = o.uid /\ [o EXCEPT !.karpenter = x].version = o.version
           /\ [o EXCEPT !.pullSecret = x].uid = o.uid /\ [o EXCEPT !.pullSecret = x].version = o.version
           /\ [o EXCEPT !.version = x].uid = o.uid /\ [o EXCEPT !.version = x].version = x
BY DEF Owners

(* Before and after the life of an owner.                                  *)
LEMMA NoOwnerType ==
    /\ NoOwner \in Owners /\ NoOwner.phase = "absent"
    /\ \A u \in 1..MaxUID : [NoOwner EXCEPT !.uid = u] \in Owners
<1>1. NoOwner \in Owners /\ NoOwner.phase = "absent"
  BY ConstantsAssumption DEF NoOwner, Owners, PullSecrets
<1>2. QED
  BY <1>1, OwnerType

(* A new owner.                                                            *)
LEMMA NewOwnerType ==
    ASSUME NEW u \in 1..MaxUID, NEW o \in NewOwners(u)
    PROVE  o \in Owners /\ o.phase = "present" /\ o.uid = u
<1>1. o \in [phase: {"present"}, uid: {u}, karpenter: {TRUE, FALSE}, version: {0, 1},
             pullSecret: {"pull", "none"}, override: {"none"}, spec: {1}]
  BY DEF NewOwners
<1>2. o.phase = "present" /\ o.uid = u /\ o.version \in 0..MaxVersion /\ o.spec \in 1..2
  BY <1>1, ConstantsAssumption
<1>3. QED
  BY <1>1, <1>2 DEF Owners, PullSecrets

(* The order of the applies: the ServiceAccount and the Deployment are     *)
(* among them in both modes.                                               *)
LEMMA OrderLemma ==
    ASSUME config \in Configs
    PROVE  /\ Len(Order) \in Nat \ {0} /\ DOMAIN Order = 1..Len(Order)
           /\ \A j \in 1..Len(Order) : Order[j] \in Objects
           /\ "serviceaccount" \in Objects /\ "deployment" \in Objects
<1>1. CASE config.mode = "hcp"
  BY <1>1 DEF Order, Objects, Range
<1>2. CASE config.mode # "hcp"
  BY <1>2 DEF Order, Objects, Range
<1>3. QED
  BY <1>1, <1>2

(* What is applied is an object with contents, and refers to its owner.    *)
LEMMA DesiredType ==
    ASSUME config \in Configs, NEW o \in Owners, NEW k
    PROVE  /\ Desired(k, o) \in [uid: 0..MaxUID, data: Contents]
           /\ Desired(k, o).uid = o.uid /\ Desired(k, o) # Absent
           /\ Desired("deployment", o).data[2] = o.version
<1>1. karpenterImage(o) \in {"none", "release", "custom"}
  BY OwnerFields DEF karpenterImage, Configs
<1>2. buildDeployment(o) \in Contents /\ buildDeployment(o)[2] = o.version
  BY <1>1, OwnerFields DEF buildDeployment, Contents
<1>3. o.uid \in 1..MaxUID
  BY OwnerFields
<1>4. QED
  BY <1>2, <1>3, ConstantsAssumption DEF Desired, buildPodMonitor, Contents, Absent

(* Edited and deleted objects.                                             *)
LEMMA DisturbedType ==
    ASSUME NEW d \in [uid: 0..MaxUID, data: Contents]
    PROVE  /\ [d EXCEPT !.data = Foreign] \in [uid: 0..MaxUID, data: Contents]
           /\ [d EXCEPT !.data = Foreign].data = Foreign
           /\ [d EXCEPT !.data = Foreign] # Absent
           /\ Absent \in [uid: 0..MaxUID, data: Contents]
BY ConstantsAssumption DEF Contents, Absent, Foreign

(* A reconcile that ends or goes on to the next object stays in its list.  *)
LEMMA ControlType ==
    ASSUME TypeOK, pc # 0, Failed \/ Advance
    PROVE  /\ queued' \in BOOLEAN /\ timer' \in BOOLEAN /\ h' \in Owners
           /\ pc' \in 0..Len(Order) /\ (pc' = 0 <=> h'.phase = "absent")
<1>1. queued' \in BOOLEAN /\ timer' \in BOOLEAN
  BY Zenon DEF TypeOK, Failed, Advance
<1>2. QED
  BY <1>1, OrderLemma, NoOwnerType DEF TypeOK, Failed, Advance

-----------------------------------------------------------------------------
(***************************************************************************)
(* What a step does to the owner and to an object.                         *)
(***************************************************************************)

(* The owner that HyperShift or the user leaves is well typed, and not     *)
(* older than before.                                                      *)
LEMMA OwnerStepLemma ==
    ASSUME TypeOK, OwnerStep
    PROVE  owner' \in Owners /\ Older(owner.uid, owner.version, owner')
<1> USE DEF TypeOK
<1>0. /\ owner.phase \in {"absent", "present"} /\ owner.uid \in 1..MaxUID
      /\ owner.version \in 0..MaxVersion /\ owner.spec \in 1..2
  BY OwnerFields
<1>a. ASSUME owner' \in Owners, owner'.uid = owner.uid,
             owner'.version = owner.version \/ owner'.version = owner.version + 1
      PROVE  owner' \in Owners /\ Older(owner.uid, owner.version, owner')
  BY <1>0, <1>a DEF Older
<1>1. CASE owner.version = 0 /\ owner' \in NewOwners(owner.uid)
  <2>1. owner' \in Owners /\ owner'.uid = owner.uid
    BY <1>0, <1>1, NewOwnerType
  <2>2. owner'.version \in 0..MaxVersion
    BY <2>1, OwnerFields
  <2>3. QED
    BY <1>0, <1>1, <2>1, <2>2 DEF Older
<1>2. CASE owner.uid < MaxUID /\ owner' \in NewOwners(owner.uid + 1)
  <2>1. owner.uid + 1 \in 1..MaxUID
    BY <1>0, <1>2, ConstantsAssumption
  <2>2. owner' \in Owners /\ owner'.uid = owner.uid + 1
    BY <1>2, <2>1, NewOwnerType
  <2>3. QED
    BY <1>0, <2>2 DEF Older
<1>3. CASE owner.uid < MaxUID /\ owner' = [NoOwner EXCEPT !.uid = owner.uid + 1]
  <2>1. owner.uid + 1 \in 1..MaxUID
    BY <1>0, <1>3, ConstantsAssumption
  <2>2. owner' \in Owners /\ owner'.uid = owner.uid + 1
    BY <1>3, <2>1, NoOwnerType DEF NoOwner
  <2>3. QED
    BY <1>0, <2>2 DEF Older
<1>4. CASE owner' = [owner EXCEPT !.spec = 3 - @]
  <2>1. 3 - owner.spec \in 1..2
    BY <1>0
  <2>2. owner' \in Owners
    BY <1>4, <2>1, OwnerType
  <2>3. owner'.uid = owner.uid /\ owner'.version = owner.version
    BY <1>4, OwnerKeeps
  <2>4. QED
    BY <1>a, <2>2, <2>3
<1>5. CASE \E i \in {"none", "custom"} : owner' = [owner EXCEPT !.override = i]
  <2>1. PICK i \in {"none", "custom"} : owner' = [owner EXCEPT !.override = i]
    BY <1>5
  <2>2. owner' \in Owners
    BY <2>1, OwnerType
  <2>3. owner'.uid = owner.uid /\ owner'.version = owner.version
    BY <2>1, OwnerKeeps
  <2>4. QED
    BY <1>a, <2>2, <2>3
<1>6. CASE owner' = [owner EXCEPT !.karpenter = ~@]
  <2>1. (~owner.karpenter) \in BOOLEAN
    BY Zenon DEF Owners
  <2>2. owner' \in Owners
    BY <1>6, <2>1, OwnerType
  <2>3. owner'.uid = owner.uid /\ owner'.version = owner.version
    BY <1>6, OwnerKeeps
  <2>4. QED
    BY <1>a, <2>2, <2>3
<1>7. CASE owner.version < MaxVersion /\ owner' = [owner EXCEPT !.version = @ + 1]
  <2>1. owner.version + 1 \in 0..MaxVersion
    BY <1>0, <1>7, ConstantsAssumption
  <2>2. owner' \in Owners
    BY <1>7, <2>1, OwnerType
  <2>3. owner'.uid = owner.uid /\ owner'.version = owner.version + 1
    BY <1>7, OwnerKeeps
  <2>4. QED
    BY <1>a, <2>2, <2>3
<1>8. CASE \E s \in PullSecrets \union {"none"} : owner' = [owner EXCEPT !.pullSecret = s]
  <2>1. PICK s \in PullSecrets \union {"none"} : owner' = [owner EXCEPT !.pullSecret = s]
    BY <1>8
  <2>2. owner' \in Owners
    BY <2>1, OwnerType
  <2>3. owner'.uid = owner.uid /\ owner'.version = owner.version
    BY <2>1, OwnerKeeps
  <2>4. QED
    BY <1>a, <2>2, <2>3
<1>9. QED
  BY <1>1, <1>2, <1>3, <1>4, <1>5, <1>6, <1>7, <1>8 DEF OwnerStep

(* An object is edited or deleted; the ServiceAccount goes with its list.  *)
LEMMA DisturbLemma ==
    ASSUME TypeOK, NEW k \in Objects,
           \/ Disturb(k, [obj[k] EXCEPT !.data = Foreign]) /\ UNCHANGED <<secrets, ownsList>>
           \/ /\ Disturb(k, Absent)
              /\ IF k = "serviceaccount" THEN secrets' = {} /\ ownsList' = FALSE
                 ELSE UNCHANGED <<secrets, ownsList>>
    PROVE  /\ obj' \in [Objects -> [uid: 0..MaxUID, data: Contents]]
           /\ secrets' \subseteq secrets
           /\ ownsList' \in BOOLEAN /\ saLag' \in BOOLEAN /\ event' \in BOOLEAN
           /\ obj'["serviceaccount"] = Absent => secrets' = {} /\ ~ownsList'
           /\ saLag' \/ (saLag' = saLag /\ secrets' = secrets)
           /\ \/ obj'["deployment"] = obj["deployment"]
              \/ obj'["deployment"] = Absent
              \/ obj'["deployment"].data = Foreign
<1> USE DEF TypeOK
<1>1. obj[k] \in [uid: 0..MaxUID, data: Contents]
  OBVIOUS
<1>2. ownsList' \in BOOLEAN /\ saLag' \in BOOLEAN /\ event' \in BOOLEAN
  BY Zenon DEF Disturb
<1>3. obj' \in [Objects -> [uid: 0..MaxUID, data: Contents]]
  BY <1>1, DisturbedType DEF Disturb
<1>4. /\ secrets' \subseteq secrets
      /\ saLag' \/ (saLag' = saLag /\ secrets' = secrets)
  BY DEF Disturb
<1>5. obj'["serviceaccount"] = Absent => secrets' = {} /\ ~ownsList'
  BY <1>1, DisturbedType, OrderLemma DEF Disturb
<1>6. \/ obj'["deployment"] = obj["deployment"]
      \/ obj'["deployment"] = Absent
      \/ obj'["deployment"].data = Foreign
  BY <1>1, DisturbedType, OrderLemma DEF Disturb
<1>7. QED
  BY <1>2, <1>3, <1>4, <1>5, <1>6

(* The list of pull secrets that is applied consists of known secrets.     *)
LEMMA AppliedSecretsType ==
    ASSUME TypeOK
    PROVE  AppliedSecrets \subseteq PullSecrets \union {"registry"}
BY OwnerFields DEF TypeOK, AppliedSecrets

(* An apply of the ServiceAccount, if the lock holds.                      *)
LEMMA ServiceAccountLemma ==
    ASSUME TypeOK, applyServiceAccount, LockHolds
    PROVE  /\ obj' \in [Objects -> [uid: 0..MaxUID, data: Contents]]
           /\ secrets' \subseteq PullSecrets \union {"registry"}
           /\ ownsList' \in BOOLEAN /\ saLag' \in BOOLEAN
           /\ obj'["serviceaccount"] # Absent
           /\ obj'["deployment"] = obj["deployment"]
<1> USE DEF TypeOK
<1>1. ownsList' \in BOOLEAN /\ saLag' \in BOOLEAN
  BY Zenon DEF applyServiceAccount
<1>2. obj' = [obj EXCEPT !["serviceaccount"] = Desired("serviceaccount", h)]
  BY DEF applyServiceAccount
<1>3. QED
  BY <1>1, <1>2, DesiredType, OrderLemma, AppliedSecretsType DEF applyServiceAccount

(* An apply of another object: only the Deployment's changes the           *)
(* Deployment.                                                             *)
LEMMA ApplyLemma ==
    ASSUME TypeOK, Apply
    PROVE  /\ obj' \in [Objects -> [uid: 0..MaxUID, data: Contents]]
           /\ event' \in BOOLEAN
           /\ obj'["serviceaccount"] = obj["serviceaccount"]
           /\ \/ obj'["deployment"] = obj["deployment"]
              \/ obj'["deployment"] = Desired("deployment", h)
<1> USE DEF TypeOK
<1>1. event' \in BOOLEAN
  BY Zenon DEF Apply
<1>2. /\ obj' = [obj EXCEPT ![Order[pc]] = Desired(Order[pc], h)]
      /\ Order[pc] # "serviceaccount"
  BY DEF Apply
<1>3. Order[pc] \in Objects
  BY OrderLemma DEF Apply
<1>4. QED
  BY <1>1, <1>2, <1>3, DesiredType, OrderLemma

(* What a reconcile starts with.                                           *)
LEMMA GateLemma ==
    ASSUME Gate(ownerCache) = "apply"
    PROVE  /\ ownerCache.phase # "absent"
           /\ config.mode = "hcp" => ownerCache.version # 0
BY DEF Gate

(* Every step keeps the types.                                             *)
LEMMA TypeInductive == TypeOK /\ [Next]_vars => TypeOK'
<1> SUFFICES ASSUME TypeOK, [Next]_vars PROVE TypeOK'
  OBVIOUS
<1> USE DEF TypeOK
<1>0. config' = config /\ Objects' = Objects /\ Order' = Order
  BY DEF Next, Controller, Reconcile, applyServiceAccount, Apply, TimerFires, APIError, Restart,
         SyncOwner, SyncServiceAccount, SyncObjects, OwnerStep, AddPullSecret, OtherWrite,
         GarbageCollect, Objects, Order
<1>1. CASE Reconcile
  <2>1. queued' \in BOOLEAN /\ timer' \in BOOLEAN
    BY <1>1, Zenon DEF Reconcile
  <2>2. pc' \in 0..Len(Order) /\ h' \in Owners /\ (pc' = 0 <=> h'.phase = "absent")
    BY <1>1, OrderLemma, GateLemma DEF Reconcile
  <2>3. QED
    BY <1>0, <1>1, <2>1, <2>2 DEF Reconcile
<1>2. CASE applyServiceAccount
  <2>1. CASE LockHolds
    <3>1. Advance
      BY <1>2, <2>1 DEF applyServiceAccount
    <3>2. QED
      BY <1>0, <1>2, <2>1, <3>1, ControlType, ServiceAccountLemma DEF applyServiceAccount
  <2>2. CASE ~LockHolds
    BY <1>0, <1>2, <2>2, ControlType DEF applyServiceAccount
  <2>3. QED
    BY <2>1, <2>2
<1>3. CASE Apply
  BY <1>0, <1>3, ControlType, ApplyLemma DEF Apply
<1>4. CASE TimerFires
  BY <1>0, <1>4 DEF TimerFires
<1>5. CASE APIError
  BY <1>0, <1>5, ControlType, ConstantsAssumption DEF APIError, Change
<1>6. CASE Restart
  <2>1. queued' \in BOOLEAN /\ timer' \in BOOLEAN /\ saLag' \in BOOLEAN /\ event' \in BOOLEAN
    BY <1>6, Zenon DEF Restart
  <2>2. (obj["serviceaccount"] # Absent) \in BOOLEAN
    BY Zenon
  <2>3. saCache' \in [known: BOOLEAN, secrets: SUBSET (PullSecrets \union {"registry"})]
    BY <1>6, <2>2 DEF Restart
  <2>4. QED
    BY <1>0, <1>6, <2>1, <2>3, NoOwnerType, OrderLemma, ConstantsAssumption DEF Restart, Change
<1>7. CASE SyncOwner
  <2>1. queued' \in BOOLEAN
    BY <1>7, Zenon DEF SyncOwner
  <2>2. QED
    BY <1>0, <1>7, <2>1 DEF SyncOwner
<1>8. CASE SyncServiceAccount
  <2>1. (obj["serviceaccount"] # Absent) \in BOOLEAN
    BY Zenon
  <2>2. saCache' \in [known: BOOLEAN, secrets: SUBSET (PullSecrets \union {"registry"})]
    BY <1>8, <2>1 DEF SyncServiceAccount
  <2>3. QED
    BY <1>0, <1>8, <2>2 DEF SyncServiceAccount
<1>9. CASE SyncObjects
  BY <1>0, <1>9 DEF SyncObjects
<1>10. CASE OwnerStep
  <2>1. owner' \in Owners /\ Change /\ UNCHANGED <<config, obj, secrets, ownsList, cacheVars, ctrlVars>>
    BY <1>10, OwnerStepLemma DEF OwnerStep
  <2>2. QED
    BY <1>0, <2>1, ConstantsAssumption DEF Change
<1>11. CASE AddPullSecret
  <2>1. /\ Change /\ UNCHANGED <<config, owner, obj, ownerCache, saCache, event, ctrlVars>>
        /\ secrets' \subseteq PullSecrets \union {"registry"} /\ obj["serviceaccount"] # Absent
    BY <1>11 DEF AddPullSecret
  <2>2. ownsList' \in BOOLEAN /\ saLag' \in BOOLEAN
    BY <1>11, Zenon DEF AddPullSecret
  <2>3. QED
    BY <1>0, <2>1, <2>2, ConstantsAssumption DEF Change
<1>12. ASSUME NEW k \in Objects, OtherWrite(k) PROVE TypeOK'
  <2>1. /\ Change /\ UNCHANGED <<config, owner, ownerCache, saCache, ctrlVars>>
        /\ \/ Disturb(k, [obj[k] EXCEPT !.data = Foreign]) /\ UNCHANGED <<secrets, ownsList>>
           \/ /\ Disturb(k, Absent)
              /\ IF k = "serviceaccount" THEN secrets' = {} /\ ownsList' = FALSE
                 ELSE UNCHANGED <<secrets, ownsList>>
    BY <1>12 DEF OtherWrite
  <2>2. changes' \in 0..MaxChanges
    BY <2>1, ConstantsAssumption DEF Change
  <2>3. QED
    BY <1>0, <2>1, <2>2, DisturbLemma
<1>13. ASSUME NEW k \in Objects, GarbageCollect(k) PROVE TypeOK'
  BY <1>0, <1>13, DisturbLemma DEF GarbageCollect
<1>14. CASE UNCHANGED vars
  BY <1>0, <1>14
<1>15. QED
  BY <1>1, <1>2, <1>3, <1>4, <1>5, <1>6, <1>7, <1>8, <1>9, <1>10, <1>11, <1>12, <1>13, <1>14
  DEF Next, Controller

(* The initial states are well typed.                                      *)
LEMMA TypeInit == Init => TypeOK
<1> SUFFICES ASSUME Init PROVE TypeOK
  OBVIOUS
<1>1. owner \in Owners
  BY NoOwnerType, NewOwnerType, ConstantsAssumption DEF Init
<1>2. queued \in BOOLEAN /\ timer \in BOOLEAN /\ saLag \in BOOLEAN /\ event \in BOOLEAN
      /\ ownsList \in BOOLEAN
  BY Zenon DEF Init
<1>3. saCache \in [known: BOOLEAN, secrets: SUBSET (PullSecrets \union {"registry"})]
  BY DEF Init
<1>4. obj \in [Objects -> [uid: 0..MaxUID, data: Contents]]
  BY ConstantsAssumption DEF Init, Absent, Contents
<1>5. QED
  BY <1>1, <1>2, <1>3, <1>4, NoOwnerType, OrderLemma, ConstantsAssumption DEF Init, TypeOK

(* The type invariant of the karpenter controllers, in both modes and on   *)
(* both platforms, for any number of versions, owners and changes.         *)
THEOREM TypeCorrect == Spec => []TypeOK
BY TypeInit, TypeInductive, PTL DEF Spec

-----------------------------------------------------------------------------
(***************************************************************************)
(* The inductive invariant.                                                *)
(***************************************************************************)

(* Older is a partial order on the incarnations and versions of an owner.  *)
LEMMA OlderLemma ==
    ASSUME NEW a \in Owners, NEW b \in Owners, NEW u \in Nat, NEW w \in Nat
    PROVE  /\ Older(a.uid, a.version, a)
           /\ Older(u, w, a) /\ Older(a.uid, a.version, b) => Older(u, w, b)
BY OwnerFields, ConstantsAssumption DEF Older

(* The owner only moves forward, and the cache follows it.                 *)
LEMMA OwnerMoves ==
    ASSUME TypeOK, [Next]_vars
    PROVE  /\ Older(owner.uid, owner.version, owner')
           /\ ownerCache' = ownerCache \/ (ownerCache' = owner /\ owner' = owner)
<1>1. CASE OwnerStep
  BY <1>1, OwnerStepLemma DEF OwnerStep
<1>2. CASE UNCHANGED owner /\ (ownerCache' = ownerCache \/ ownerCache' = owner)
  BY <1>2, OlderLemma DEF TypeOK
<1>3. QED
  BY <1>1, <1>2
  DEF Next, Controller, Reconcile, applyServiceAccount, Apply, TimerFires, APIError, Restart,
      SyncOwner, SyncServiceAccount, SyncObjects, AddPullSecret, OtherWrite, GarbageCollect

(* A reconcile keeps its owner, or starts with the cached one.             *)
LEMMA WorkMoves ==
    ASSUME TypeOK, [Next]_vars
    PROVE  \/ pc' = 0
           \/ pc # 0 /\ h' = h
           \/ pc = 0 /\ Gate(ownerCache) = "apply" /\ h' = ownerCache /\ ownerCache' = ownerCache
<1>1. CASE Reconcile
  BY <1>1 DEF Reconcile
<1>2. QED
  BY <1>1
  DEF Next, Controller, applyServiceAccount, Apply, Advance, Failed, TimerFires, APIError,
      Restart, SyncOwner, SyncServiceAccount, SyncObjects, OwnerStep, AddPullSecret,
      OtherWrite, GarbageCollect, TypeOK

(* The Deployment changes when it is applied, edited or deleted.           *)
LEMMA DeploymentMoves ==
    ASSUME TypeOK, [Next]_vars
    PROVE  LET d == obj'["deployment"] IN
           \/ d = obj["deployment"] \/ d = Absent \/ d.data = Foreign
           \/ Apply /\ pc # 0 /\ d = Desired("deployment", h) /\ ownerCache' = ownerCache
<1>1. CASE applyServiceAccount
  BY <1>1, ServiceAccountLemma DEF applyServiceAccount
<1>2. CASE Apply
  BY <1>2, ApplyLemma DEF Apply
<1>3. CASE \E k \in Objects : OtherWrite(k) \/ GarbageCollect(k)
  BY <1>3, DisturbLemma DEF OtherWrite, GarbageCollect
<1>4. QED
  BY <1>1, <1>2, <1>3
  DEF Next, Controller, Reconcile, TimerFires, APIError, Restart, SyncOwner,
      SyncServiceAccount, SyncObjects, OwnerStep, AddPullSecret

(* Without lag the cached list of pull secrets is the current one.         *)
LEMMA SecretsMove ==
    ASSUME TypeOK, SecretsCached, [Next]_vars
    PROVE  SecretsCached'
<1> SUFFICES ASSUME ~saLag' PROVE saCache'.secrets = secrets'
  BY DEF SecretsCached
<1>1. CASE applyServiceAccount
  <2>1. ~saLag /\ secrets' = secrets
    <3>1. CASE ~LockHolds
      BY <1>1, <3>1 DEF applyServiceAccount
    <3>2. CASE LockHolds
      <4>1. saLag' = (saLag \/ obj' # obj \/ secrets' # secrets)
        BY <1>1, <3>2, Zenon DEF applyServiceAccount
      <4>2. QED
        BY <4>1, Zenon
    <3>3. QED
      BY <3>1, <3>2
  <2>2. QED
    BY <1>1, <2>1 DEF applyServiceAccount, SecretsCached
<1>2. CASE \E k \in Objects : OtherWrite(k) \/ GarbageCollect(k)
  BY <1>2, DisturbLemma DEF OtherWrite, GarbageCollect, SecretsCached
<1>3. QED
  BY <1>1, <1>2
  DEF Next, Controller, Reconcile, Apply, TimerFires, APIError, Restart, SyncOwner,
      SyncServiceAccount, SyncObjects, OwnerStep, AddPullSecret, SecretsCached

-----------------------------------------------------------------------------
(***************************************************************************)
(* No change is missed.                                                    *)
(***************************************************************************)

(* What the cached owner wants depends on it and the configuration only.   *)
LEMMA DesiredFrame ==
    ASSUME UNCHANGED <<config, ownerCache>>
    PROVE  /\ \A k : Desired(k, ownerCache)' = Desired(k, ownerCache)
           /\ Gate(ownerCache)' = Gate(ownerCache)
           /\ Order' = Order /\ Objects' = Objects
BY DEF Desired, buildDeployment, karpenterImage, Gate, Order, Objects

(* Owners with the same contents want the same of every object.            *)
LEMMA SameDesired ==
    ASSUME NEW a, NEW b, SameContents(a, b), NEW k
    PROVE  Desired(k, a).data = Desired(k, b).data
BY DEF SameContents, Desired, buildDeployment, karpenterImage

(* What keeps an object right: it is as it was, or an event of it is on    *)
(* its way.                                                                *)
Undisturbed(k) ==
    IF k = "serviceaccount"
    THEN saLag' \/ (~saLag /\ obj'[k] = obj[k] /\ secrets \subseteq secrets')
    ELSE event' \/ (~event /\ obj'[k] = obj[k])

(* The same as Right in the next state, of a given object.                 *)
RightNow(k) ==
    IF k = "serviceaccount"
    THEN saLag' \/ (obj'[k].data = Manifest /\ {ownerCache.pullSecret} \ {"none"} \subseteq secrets')
    ELSE event' \/ obj'[k].data = Desired(k, ownerCache).data

(* An undisturbed object stays right.                                      *)
LEMMA RightFrame ==
    ASSUME NEW k, Undisturbed(k), Right(k) PROVE RightNow(k)
BY DEF Undisturbed, Right, RightNow

(* UpToDate in the next state, in terms of RightNow.                       *)
LEMMA UpToDateNext ==
    ASSUME UNCHANGED <<config, ownerCache>>,
           ~queued' /\ Gate(ownerCache) = "apply" =>
              /\ pc' = 0 => \A k \in Objects : RightNow(k)
              /\ pc' # 0 => SameContents(h', ownerCache) /\ \A i \in 1..(pc' - 1) : RightNow(Order[i])
    PROVE  UpToDate'
<1>1. /\ Gate(ownerCache)' = Gate(ownerCache) /\ Order' = Order /\ Objects' = Objects
      /\ \A k : Desired(k, ownerCache)' = Desired(k, ownerCache)
  BY DesiredFrame
<1>2. SameContents(h, ownerCache)' <=> SameContents(h', ownerCache)
  BY DEF SameContents
<1>3. \A k : Right(k)' <=> RightNow(k)
  BY <1>1 DEF Right, RightNow
<1>4. SUFFICES ASSUME ~queued', Gate(ownerCache) = "apply"
               PROVE  /\ pc' = 0 => \A k \in Objects' : Right(k)'
                      /\ pc' # 0 => /\ SameContents(h, ownerCache)'
                                    /\ \A i \in 1..(pc' - 1) : RightNow(Order[i])
  BY <1>1 DEF UpToDate, Right, RightNow
<1>5. QED
  BY <1>1, <1>2, <1>3, <1>4

(* A step of others, or of the informers, that wakes nobody.               *)
LEMMA UpToDateFrame ==
    ASSUME TypeOK, UpToDate, UNCHANGED <<config, ownerCache, pc, h>>, ~queued' => ~queued,
           ~queued' => \A k \in Objects : Undisturbed(k)
    PROVE  UpToDate'
<1>1. \A i \in 1..(pc - 1) : Order[i] \in Objects
  BY OrderLemma DEF TypeOK
<1>2. SUFFICES ASSUME ~queued', Gate(ownerCache) = "apply"
               PROVE  /\ pc' = 0 => \A k \in Objects : RightNow(k)
                      /\ pc' # 0 => /\ SameContents(h', ownerCache)
                                    /\ \A i \in 1..(pc' - 1) : RightNow(Order[i])
  BY UpToDateNext
<1>3. \A k \in Objects : Right(k) => RightNow(k)
  BY <1>2, RightFrame
<1>4. QED
  BY <1>1, <1>2, <1>3 DEF UpToDate

(* The end of the reconcile, or its next object.                           *)
LEMMA UpToDateAdvance ==
    ASSUME TypeOK, UpToDate, pc # 0, Advance, UNCHANGED <<config, ownerCache>>,
           SameContents(h, ownerCache) => RightNow(Order[pc]),
           \A k \in Objects : k # Order[pc] => Undisturbed(k)
    PROVE  UpToDate'
<1>1. /\ Len(Order) \in Nat /\ pc \in 1..Len(Order) /\ DOMAIN Order = 1..Len(Order)
      /\ \A i \in 1..Len(Order) : Order[i] \in Objects
  BY OrderLemma DEF TypeOK
<1>2. UNCHANGED queued
  BY DEF Advance
<1>3. SUFFICES ASSUME ~queued, Gate(ownerCache) = "apply"
               PROVE  /\ pc' = 0 => \A k \in Objects : RightNow(k)
                      /\ pc' # 0 => /\ SameContents(h', ownerCache)
                                    /\ \A i \in 1..(pc' - 1) : RightNow(Order[i])
  BY <1>2, UpToDateNext
<1>4. SameContents(h, ownerCache) /\ \A i \in 1..(pc - 1) : Right(Order[i])
  BY <1>3 DEF UpToDate
<1>5. ASSUME NEW i \in 1..pc PROVE RightNow(Order[i])
  <2>1. CASE Order[i] = Order[pc]
    BY <1>4, <2>1
  <2>2. CASE Order[i] # Order[pc]
    <3>1. i \in 1..(pc - 1) /\ Order[i] \in Objects
      BY <1>1, <2>2
    <3>2. QED
      BY <1>4, <2>2, <3>1, RightFrame
  <2>3. QED
    BY <2>1, <2>2
<1>6. CASE pc < Len(Order)
  <2>1. pc' = pc + 1 /\ h' = h
    BY <1>6 DEF Advance
  <2>2. QED
    BY <1>1, <1>4, <1>5, <2>1
<1>7. CASE ~(pc < Len(Order))
  <2>1. pc' = 0 /\ pc = Len(Order)
    <3>1. Len(Order) \in Nat /\ pc \in 1..Len(Order)
      BY <1>1
    <3>2. \A n \in Nat : \A p \in 1..n : ~(p < n) => p = n
      OBVIOUS
    <3>3. pc = Len(Order)
      BY <1>7, <3>1, <3>2, Zenon
    <3>4. pc' = 0
      BY <1>7 DEF Advance
    <3>5. QED
      BY <3>3, <3>4
  <2>2. \A k \in Objects : \E i \in 1..pc : k = Order[i]
    BY <1>1, <2>1 DEF Objects, Range
  <2>3. QED
    BY <1>5, <2>1, <2>2
<1>8. QED
  BY <1>6, <1>7

(* The applies.                                                            *)
LEMMA UpToDateApply ==
    ASSUME TypeOK, UpToDate, applyServiceAccount \/ Apply PROVE UpToDate'
<1>1. Failed => UpToDate'
  BY DEF Failed, UpToDate
<1>2. Order[pc] \in Objects /\ obj \in [Objects -> [uid: 0..MaxUID, data: Contents]] /\ pc # 0
  BY OrderLemma DEF TypeOK, applyServiceAccount, Apply
<1>3. CASE applyServiceAccount /\ ~Failed
  <2>1. /\ LockHolds /\ Advance /\ UNCHANGED <<config, ownerCache, event>>
        /\ obj' = [obj EXCEPT !["serviceaccount"] = Desired("serviceaccount", h)]
        /\ secrets' = AppliedSecrets /\ Order[pc] = "serviceaccount"
    BY <1>3 DEF applyServiceAccount
  <2>2. obj'["serviceaccount"].data = Manifest
    BY <1>2, <2>1 DEF Desired
  <2>3. {h.pullSecret} \ {"none"} \subseteq secrets'
    BY <2>1 DEF AppliedSecrets
  <2>4. SameContents(h, ownerCache) => RightNow(Order[pc])
    BY <2>1, <2>2, <2>3 DEF SameContents, RightNow
  <2>5. \A k \in Objects : k # Order[pc] => Undisturbed(k)
    BY <1>2, <2>1 DEF Undisturbed
  <2>6. QED
    BY <1>2, <2>1, <2>4, <2>5, UpToDateAdvance
<1>4. CASE Apply
  <2>1. /\ Advance /\ UNCHANGED <<config, ownerCache, saLag, secrets>>
        /\ obj' = [obj EXCEPT ![Order[pc]] = Desired(Order[pc], h)]
        /\ Order[pc] # "serviceaccount"
    BY <1>4 DEF Apply
  <2>2. event' \/ (~event /\ obj' = obj)
    BY <1>4, Zenon DEF Apply
  <2>3. SameContents(h, ownerCache) => RightNow(Order[pc])
    BY <1>2, <2>1, SameDesired DEF RightNow
  <2>4. \A k \in Objects : k # Order[pc] => Undisturbed(k)
    BY <1>2, <2>1, <2>2 DEF Undisturbed
  <2>5. QED
    BY <1>2, <2>1, <2>3, <2>4, UpToDateAdvance
<1>5. QED
  BY <1>1, <1>3, <1>4

(* An owner whose new state wakes nobody wants what the cached one wanted. *)
LEMMA UpToDateSyncOwner ==
    ASSUME TypeOK, UpToDate, SyncOwner PROVE UpToDate'
<1>1. ownerCache' = owner /\ UNCHANGED <<config, obj, secrets, saLag, event, pc, h>>
  BY DEF SyncOwner
<1>2. Order' = Order /\ Objects' = Objects
  BY <1>1 DEF Order, Objects
<1>3. SUFFICES ASSUME ~queued', Gate(ownerCache)' = "apply" PROVE UpToDate'
  BY DEF UpToDate
<1>4. ~queued /\ ~hcpOperandReconcilePredicate(ownerCache, owner)
  BY <1>3, Zenon DEF SyncOwner
<1>5. SameContents(ownerCache, owner) /\ ownerCache.karpenter = owner.karpenter
      /\ ownerCache.phase # "absent" /\ owner.phase # "absent"
  BY <1>4 DEF hcpOperandReconcilePredicate, hcpOperandChanged, SameContents
<1>6. Gate(ownerCache) = "apply"
  BY <1>1, <1>3, <1>5 DEF Gate, karpenterImage, SameContents
<1>7. \A k : Desired(k, ownerCache)'.data = Desired(k, ownerCache).data
  BY <1>1, <1>5 DEF SameContents, Desired, buildDeployment, karpenterImage
<1>8. \A k : Right(k)' <=> Right(k)
  BY <1>1, <1>5, <1>7 DEF Right, SameContents
<1>9. SameContents(h, ownerCache) => SameContents(h, ownerCache)'
  BY <1>1, <1>5 DEF SameContents
<1>10. ASSUME NEW i, Right(Order[i]) PROVE Right(Order[i])'
  BY <1>1, <1>2, <1>5, <1>7, <1>10 DEF Right, SameContents
<1>11. QED
  BY <1>1, <1>2, <1>3, <1>4, <1>6, <1>8, <1>9, <1>10 DEF UpToDate

(* Every step.                                                             *)
LEMMA UpToDateMoves ==
    ASSUME TypeOK, UpToDate, [Next]_vars PROVE UpToDate'
<1>1. CASE Reconcile
  <2>1. UNCHANGED <<config, ownerCache>> /\ pc = 0
    BY <1>1 DEF Reconcile
  <2>2. CASE Gate(ownerCache) = "apply"
    <3>1. pc' = 1 /\ h' = ownerCache
      BY <1>1, <2>2 DEF Reconcile
    <3>2. SameContents(h', ownerCache)
      BY <3>1 DEF SameContents
    <3>3. QED
      BY <2>1, <3>1, <3>2, UpToDateNext
  <2>3. CASE Gate(ownerCache) # "apply"
    BY <2>1, <2>3, UpToDateNext
  <2>4. QED
    BY <2>2, <2>3
<1>2. CASE applyServiceAccount \/ Apply
  BY <1>2, UpToDateApply
<1>3. CASE TimerFires \/ APIError \/ SyncServiceAccount \/ SyncObjects
  <2>1. queued' = TRUE
    BY <1>3 DEF TimerFires, APIError, Failed, SyncServiceAccount, SyncObjects
  <2>2. QED
    BY <2>1 DEF UpToDate
<1>4. CASE Restart
  <2>1. ownerCache' = owner /\ (~queued' => owner.phase # "present")
    BY <1>4, Zenon DEF Restart
  <2>2. ~queued' => Gate(ownerCache)' = "done"
    BY <2>1, OwnerFields DEF TypeOK, Gate
  <2>3. QED
    BY <2>2 DEF UpToDate
<1>5. CASE SyncOwner
  BY <1>5, UpToDateSyncOwner
<1>6. CASE OwnerStep \/ UNCHANGED vars
  <2>1. UNCHANGED <<config, ownerCache, pc, h, queued, obj, secrets, saLag, event>>
    BY <1>6 DEF OwnerStep
  <2>2. \A k \in Objects : Undisturbed(k)
    BY <2>1 DEF Undisturbed, TypeOK
  <2>3. QED
    BY <2>1, <2>2, UpToDateFrame
<1>7. CASE AddPullSecret
  <2>1. UNCHANGED <<config, ownerCache, pc, h, queued, obj, event>> /\ secrets \subseteq secrets'
    BY <1>7 DEF AddPullSecret
  <2>2. \A k \in Objects : Undisturbed(k)
    BY <1>7, <2>1 DEF Undisturbed, TypeOK, AddPullSecret
  <2>3. QED
    BY <2>1, <2>2, UpToDateFrame
<1>8. ASSUME NEW k \in Objects, OtherWrite(k) \/ GarbageCollect(k) PROVE UpToDate'
  <2>1. /\ UNCHANGED <<config, ownerCache, pc, h, queued>>
        /\ k # "serviceaccount" => UNCHANGED secrets
        /\ \E contents : Disturb(k, contents)
    BY <1>8 DEF OtherWrite, GarbageCollect
  <2>2. \A x \in Objects : Undisturbed(x)
    BY <2>1 DEF Disturb, Undisturbed, TypeOK
  <2>3. QED
    BY <2>1, <2>2, UpToDateFrame
<1>9. QED
  BY <1>1, <1>2, <1>3, <1>4, <1>5, <1>6, <1>7, <1>8 DEF Next, Controller

-----------------------------------------------------------------------------
(* IInv holds initially.                                                   *)
LEMMA InvInit == Init => IInv
<1> SUFFICES ASSUME Init PROVE IInv
  OBVIOUS
<1>1. TypeOK
  BY TypeInit
<1>2. CacheBehind
  BY <1>1, OlderLemma DEF Init, CacheBehind, TypeOK
<1>3. obj["deployment"] = Absent
  BY <1>1, OrderLemma DEF Init, TypeOK
<1>4. UpToDate
  BY OwnerFields, <1>1 DEF Init, TypeOK, UpToDate, Gate
<1>5. QED
  BY <1>1, <1>2, <1>3, <1>4
  DEF Init, IInv, WorkBehind, DeploymentBehind, WorkHasVersion, SecretsCached

(* IInv is inductive.                                                      *)
LEMMA InvInductive == IInv /\ [Next]_vars => IInv'
<1> SUFFICES ASSUME IInv, [Next]_vars PROVE IInv'
  OBVIOUS
<1> USE DEF IInv
<1>1. TypeOK'
  BY TypeInductive
<1>2. /\ owner \in Owners /\ ownerCache \in Owners /\ h \in Owners /\ config \in Configs
      /\ owner' \in Owners /\ ownerCache' \in Owners /\ h' \in Owners /\ config' \in Configs
  BY <1>1 DEF TypeOK
<1>3. \A o \in Owners : o.uid \in Nat /\ o.version \in Nat
  BY OwnerFields, ConstantsAssumption
<1>4. CacheBehind'
  <2>1. CASE ownerCache' = ownerCache
    BY <1>2, <1>3, <2>1, OwnerMoves, OlderLemma DEF CacheBehind
  <2>2. CASE ownerCache' = owner /\ owner' = owner
    BY <1>2, <2>2, OlderLemma DEF CacheBehind
  <2>3. QED
    BY <2>1, <2>2, OwnerMoves
<1>5. Older(ownerCache.uid, ownerCache.version, ownerCache')
  BY <1>2, OwnerMoves, OlderLemma DEF CacheBehind
<1>6. WorkBehind'
  <2> SUFFICES ASSUME pc' # 0 PROVE Older(h'.uid, h'.version, ownerCache')
    BY DEF WorkBehind
  <2>1. CASE pc # 0 /\ h' = h
    BY <1>2, <1>3, <1>5, <2>1, OlderLemma DEF WorkBehind
  <2>2. CASE h' = ownerCache /\ ownerCache' = ownerCache
    BY <1>2, <2>2, OlderLemma
  <2>3. QED
    BY <2>1, <2>2, WorkMoves
<1>7. Leading \in Owners /\ Older(Leading.uid, Leading.version, Leading')
  <2>1. CASE pc = 0 /\ pc' = 0
    BY <1>2, <1>5, <2>1 DEF Leading
  <2>2. CASE pc # 0 /\ pc' = 0
    BY <1>2, <1>3, <1>5, <2>2, OlderLemma DEF Leading, WorkBehind
  <2>3. CASE pc = 0 /\ pc' # 0
    BY <1>2, <2>3, WorkMoves, OlderLemma DEF Leading
  <2>4. CASE pc # 0 /\ pc' # 0
    BY <1>2, <2>4, WorkMoves, OlderLemma DEF Leading
  <2>5. QED
    BY <2>1, <2>2, <2>3, <2>4
<1>8. Leading' \in Owners
  BY <1>2 DEF Leading
<1>9. DeploymentBehind'
  <2> DEFINE d == obj["deployment"]
  <2> SUFFICES ASSUME d' # Absent, d'.data # Foreign
               PROVE  d'.data[2] \in 0..MaxVersion /\ Older(d'.uid, d'.data[2], Leading')
    BY DEF DeploymentBehind
  <2>1. CASE d' = d
    <3>1. d.data[2] \in 0..MaxVersion /\ Older(d.uid, d.data[2], Leading)
      BY <2>1 DEF DeploymentBehind
    <3>2. d.uid \in Nat /\ d.data[2] \in Nat
      BY <3>1, OrderLemma, ConstantsAssumption DEF TypeOK
    <3>3. Older(d.uid, d.data[2], Leading')
      BY <1>7, <1>8, <3>1, <3>2, OlderLemma
    <3>4. QED
      BY <2>1, <3>1, <3>3
  <2>2. CASE pc # 0 /\ d' = Desired("deployment", h)
    <3>1. d'.uid = h.uid /\ d'.data[2] = h.version
      BY <1>2, <2>2, DesiredType
    <3>2. h.version \in 0..MaxVersion /\ Leading = h
      BY <1>2, <2>2, OwnerFields DEF Leading
    <3>3. QED
      BY <1>7, <3>1, <3>2
  <2>3. QED
    BY <2>1, <2>2, DeploymentMoves
<1>10. WorkHasVersion'
  <2>1. config' = config
    BY DEF Next, Controller, Reconcile, applyServiceAccount, Apply, TimerFires, APIError,
           Restart, SyncOwner, SyncServiceAccount, SyncObjects, OwnerStep, AddPullSecret,
           OtherWrite, GarbageCollect
  <2>2. QED
    BY <2>1, WorkMoves, GateLemma DEF WorkHasVersion
<1>11. SecretsCached'
  BY SecretsMove
<1>12. UpToDate'
  BY UpToDateMoves
<1>13. QED
  BY <1>1, <1>4, <1>6, <1>9, <1>10, <1>11, <1>12

(* The inductive invariant holds throughout.                               *)
THEOREM Invariance == Spec => []IInv
BY InvInit, InvInductive, PTL DEF Spec

(* An apply of the ServiceAccount that was cached drops no pull secret:    *)
(* with the lock the cached list is the current one, without it nothing    *)
(* is applied.                                                             *)
THEOREM PullSecretsPreservedCorrect == Spec => PullSecretsPreserved
<1>1. IInv /\ [Next]_vars => [(applyServiceAccount /\ saCache.known) => secrets \subseteq secrets']_vars
  <2> SUFFICES ASSUME IInv, applyServiceAccount, saCache.known
               PROVE  secrets \subseteq secrets'
    OBVIOUS
  <2>1. CASE LockHolds
    <3>1. saCache.secrets = secrets
      BY <2>1 DEF LockHolds, IInv, SecretsCached
    <3>2. secrets' = AppliedSecrets
      BY <2>1 DEF applyServiceAccount
    <3>3. QED
      BY <3>1, <3>2 DEF AppliedSecrets
  <2>2. CASE ~LockHolds
    BY <2>2 DEF applyServiceAccount
  <2>3. QED
    BY <2>1, <2>2
<1>2. QED
  BY <1>1, Invariance, PTL DEF Spec, PullSecretsPreserved

(* The Deployment that applyDeployment writes in management mode carries a *)
(* version, and none that is older than the one it carried for the same    *)
(* HostedControlPlane: reconciles follow each other, and each starts from  *)
(* a later state of the cache.                                             *)
THEOREM VersionTrackedCorrect == Spec => VersionTracked
<1>1. IInv /\ [Next]_vars =>
        [LET old == obj["deployment"]
             new == obj'["deployment"]
         IN (config.mode = "hcp" /\ Apply /\ new # old) =>
              (new.data[2] # 0 /\ (old.uid = new.uid /\ old.data # Foreign => old.data[2] <= new.data[2]))
        ]_vars
  <2> DEFINE old == obj["deployment"]
             new == obj'["deployment"]
  <2> SUFFICES ASSUME IInv, config.mode = "hcp", Apply, new # old
               PROVE  /\ new.data[2] # 0
                      /\ old.uid = new.uid /\ old.data # Foreign => old.data[2] <= new.data[2]
    OBVIOUS
  <2>0. TypeOK /\ h \in Owners /\ config \in Configs /\ pc # 0
    BY DEF IInv, TypeOK, Apply
  <2>1. new = Desired("deployment", h)
    BY <2>0, ApplyLemma
  <2>2. new.uid = h.uid /\ new.data[2] = h.version /\ h.uid \in 1..MaxUID
    BY <2>0, <2>1, DesiredType, OwnerFields
  <2>3. h.version # 0
    BY <2>0 DEF IInv, WorkHasVersion
  <2>4. ASSUME old.uid = new.uid, old.data # Foreign
        PROVE  old.data[2] <= new.data[2]
    <3>1. old # Absent
      BY <2>2, <2>4, ConstantsAssumption DEF Absent
    <3>2. Older(old.uid, old.data[2], h)
      BY <2>0, <2>4, <3>1 DEF IInv, DeploymentBehind, Leading
    <3>3. QED
      BY <2>2, <2>4, <3>2, ConstantsAssumption DEF Older
  <2>5. QED
    BY <2>2, <2>3, <2>4
<1>2. QED
  BY <1>1, Invariance, PTL DEF Spec, VersionTracked

(* RestsOnlyComplete: when the controller has nothing to do, the informers *)
(* nothing to deliver and the garbage collector nothing to delete, an      *)
(* operand that is wanted is complete and belongs to the current owner.    *)
THEOREM RestsOnlyCompleteCorrect == Spec => []RestsOnlyComplete
<1>1. ASSUME IInv, ~queued, pc = 0, Gate(owner) = "apply", ownerCache = owner, ~saLag, ~event,
             \A k \in Objects : obj[k] = Absent \/ obj[k].uid = owner.uid
      PROVE  Complete
  <2>1. /\ \A k \in Objects : Right(k)
        /\ owner \in Owners /\ config \in Configs
        /\ obj \in [Objects -> [uid: 0..MaxUID, data: Contents]]
    BY <1>1 DEF IInv, UpToDate, TypeOK
  <2>2. {owner.pullSecret} \ {"none"} \subseteq secrets
    BY <1>1, <2>1, OrderLemma DEF Right
  <2>3. ASSUME NEW k \in Objects PROVE obj[k] = Desired(k, owner)
    <3>1. obj[k].data = Desired(k, owner).data
      BY <1>1, <2>1 DEF Right, Desired
    <3>2. obj[k] # Absent
      BY <3>1 DEF Desired, Absent, buildDeployment, buildPodMonitor, Manifest
    <3>3. obj[k].uid = Desired(k, owner).uid
      BY <1>1, <3>2 DEF Desired
    <3>4. /\ obj[k] \in [uid: 0..MaxUID, data: Contents]
          /\ Desired(k, owner) \in [uid: 0..MaxUID, data: Contents]
      BY <2>1, DesiredType
    <3>5. QED
      BY <3>1, <3>3, <3>4
  <2>4. QED
    BY <2>2, <2>3 DEF Complete
<1>2. IInv => RestsOnlyComplete
  BY <1>1 DEF RestsOnlyComplete
<1>3. QED
  BY <1>2, Invariance, PTL

-----------------------------------------------------------------------------
(***************************************************************************)
(* The pod.                                                                *)
(***************************************************************************)

(* The names of S in some order, each once.                                *)
IsListOf(s, S) == s \in Seq(S) /\ IsInjective(s) /\ Range(s) = S

(* Lists without repetition that have nothing in common make up a list     *)
(* without repetition: how the code appends to its lists.                  *)
LEMMA ConcatLemma ==
    ASSUME NEW S, NEW T, S \intersect T = {},
           NEW s, IsListOf(s, S), NEW t, IsListOf(t, T)
    PROVE  IsListOf(s \o t, S \union T)
<1>1. s \in Seq(S \union T) /\ t \in Seq(S \union T)
  BY DEF IsListOf
<1>2. /\ s \o t \in Seq(S \union T) /\ Len(s) \in Nat /\ Len(t) \in Nat
      /\ DOMAIN s = 1..Len(s) /\ DOMAIN t = 1..Len(t) /\ DOMAIN (s \o t) = 1..(Len(s) + Len(t))
      /\ \A i \in 1..(Len(s) + Len(t)) :
            (s \o t)[i] = IF i <= Len(s) THEN s[i] ELSE t[i - Len(s)]
  BY <1>1
<1>3. /\ \A i \in 1..Len(s) : s[i] \in S
      /\ \A i \in 1..Len(t) : t[i] \in T
  BY <1>2 DEF IsListOf
<1>4. /\ \A x \in S : \E i \in 1..Len(s) : x = s[i]
      /\ \A x \in T : \E i \in 1..Len(t) : x = t[i]
  BY <1>2 DEF IsListOf, Range
<1>5. Range(s \o t) \subseteq S \union T
  BY <1>2, <1>3 DEF Range
<1>6. ASSUME NEW x \in S PROVE x \in Range(s \o t)
  <2>1. PICK i \in 1..Len(s) : x = s[i]
    BY <1>4
  <2>2. i \in 1..(Len(s) + Len(t)) /\ (s \o t)[i] = x
    BY <1>2, <2>1
  <2>3. QED
    BY <1>2, <2>2 DEF Range
<1>7. ASSUME NEW x \in T PROVE x \in Range(s \o t)
  <2>1. PICK i \in 1..Len(t) : x = t[i]
    BY <1>4
  <2>2. Len(s) + i \in 1..(Len(s) + Len(t)) /\ (s \o t)[Len(s) + i] = x
    BY <1>2, <2>1
  <2>3. QED
    BY <1>2, <2>2 DEF Range
<1>8. ASSUME NEW i \in 1..(Len(s) + Len(t)), NEW j \in 1..(Len(s) + Len(t)),
             (s \o t)[i] = (s \o t)[j]
      PROVE  i = j
  BY <1>2, <1>3, <1>8 DEF IsListOf, IsInjective
<1>9. IsInjective(s \o t)
  BY <1>2, <1>8 DEF IsInjective
<1>10. QED
  BY <1>2, <1>5, <1>6, <1>7, <1>9 DEF IsListOf

(* The parts the lists of the pod are put together from, as they are in    *)
(* the code.                                                               *)
FixedEnv ==
    <<"SYSTEM_NAMESPACE", "CLUSTER_NAME", "CLUSTER_ENDPOINT", "DISABLE_WEBHOOK",
      "HEALTH_PROBE_PORT">>
FixedNames ==
    {"SYSTEM_NAMESPACE", "CLUSTER_NAME", "CLUSTER_ENDPOINT", "DISABLE_WEBHOOK",
     "HEALTH_PROBE_PORT"}
AWSNames == {"AWS_REGION", "AWS_SHARED_CREDENTIALS_FILE", "AWS_SDK_LOAD_CONFIG"}
AzureNames ==
    {"LOCATION", "AZURE_CLIENT_ID", "AZURE_TENANT_ID", "AZURE_SUBSCRIPTION_ID",
     "AZURE_FEDERATED_TOKEN_FILE", "VNET_SUBNET_ID", "AZURE_NODE_RESOURCE_GROUP",
     "PROVISION_MODE"}
HostedEnv == <<"KUBECONFIG", "DISABLE_LEADER_ELECTION">>
HostedNames == {"KUBECONFIG", "DISABLE_LEADER_ELECTION"}
HostedVolumes == <<"target-kubeconfig", "cloud-token">>

(* A short list of different names has none of them twice.                 *)
LEMMA ShortListLemma ==
    ASSUME NEW a, NEW b, NEW c
    PROVE  /\ IsListOf(<<>>, {})
           /\ IsListOf(<<a>>, {a})
           /\ a # b => IsListOf(<<a, b>>, {a, b})
           /\ a # b /\ a # c /\ b # c => IsListOf(<<a, b, c>>, {a, b, c})
<1>1. IsListOf(<<>>, {})
  BY DEF IsListOf, IsInjective, Range
<1>2. IsListOf(<<a>>, {a})
  BY DEF IsListOf, IsInjective, Range
<1>3. ASSUME a # b PROVE IsListOf(<<a, b>>, {a, b})
  BY <1>3 DEF IsListOf, IsInjective, Range
<1>4. ASSUME a # b, a # c, b # c PROVE IsListOf(<<a, b, c>>, {a, b, c})
  BY <1>4 DEF IsListOf, IsInjective, Range
<1>5. QED
  BY <1>1, <1>2, <1>3, <1>4

(* The environment of the operand's container comes in parts, each without *)
(* a name that occurs twice.                                               *)
LEMMA EnvLemma ==
    /\ IsListOf(FixedEnv, FixedNames)
    /\ IsListOf(AWSOperandConfig.env, AWSNames)
    /\ IsListOf(AzureOperandConfig.env, AzureNames)
    /\ IsListOf(HostedEnv, HostedNames)
<1>1. IsListOf(FixedEnv, FixedNames)
  <2>1. FixedEnv \in Seq(FixedNames) /\ DOMAIN FixedEnv = 1..5
    BY DEF FixedEnv, FixedNames
  <2>2. QED
    BY <2>1 DEF FixedEnv, FixedNames, IsListOf, IsInjective, Range
<1>2. IsListOf(AWSOperandConfig.env, AWSNames)
  BY ShortListLemma DEF AWSOperandConfig, AWSNames
<1>3. IsListOf(AzureOperandConfig.env, AzureNames)
  <2>1. AzureOperandConfig.env \in Seq(AzureNames) /\ DOMAIN AzureOperandConfig.env = 1..8
    BY DEF AzureOperandConfig, AzureNames
  <2>2. QED
    BY <2>1 DEF AzureOperandConfig, AzureNames, IsListOf, IsInjective, Range
<1>4. IsListOf(HostedEnv, HostedNames)
  BY ShortListLemma DEF HostedEnv, HostedNames
<1>5. QED
  BY <1>1, <1>2, <1>3, <1>4

(* The environment of the operand's container, in each configuration, has  *)
(* no name twice: the fixed variables, the provider's and the mode's are   *)
(* appended by three functions.                                            *)
LEMMA ContainerEnvLemma ==
    ASSUME NEW c \in Configs
    PROVE  IsInjective(buildEnv(c) \o additional(c).env)
<1>1. PICK P : IsListOf(OperandConfig(c).env, P) /\ P \in {AWSNames, AzureNames}
  BY EnvLemma DEF OperandConfig
<1>2. PICK A : IsListOf(additional(c).env, A) /\ A \in {HostedNames, {}}
  <2>1. CASE c.mode = "hcp"
    BY <2>1, EnvLemma DEF additional, HostedEnv
  <2>2. CASE c.mode # "hcp"
    BY <2>2, ShortListLemma DEF additional
  <2>3. QED
    BY <2>1, <2>2
<1>3. FixedNames \intersect P = {} /\ (FixedNames \union P) \intersect A = {}
  BY <1>1, <1>2 DEF FixedNames, AWSNames, AzureNames, HostedNames
<1>4. IsListOf(FixedEnv \o OperandConfig(c).env, FixedNames \union P)
  BY <1>1, <1>3, EnvLemma, ConcatLemma
<1>5. IsListOf((FixedEnv \o OperandConfig(c).env) \o additional(c).env,
               (FixedNames \union P) \union A)
  BY <1>2, <1>3, <1>4, ConcatLemma
<1>6. QED
  BY <1>5 DEF IsListOf, buildEnv, FixedEnv

(* The volumes of the pod have different names, and are these.             *)
LEMMA VolumesLemma ==
    ASSUME NEW c \in Configs
    PROVE  /\ IsInjective(buildPodSpec(c).volumes)
           /\ Range(buildPodSpec(c).volumes) =
                 (IF c.platform = "AWS" THEN {"provider-creds"} ELSE {})
                 \union (IF c.mode = "hcp" THEN {"target-kubeconfig", "cloud-token"} ELSE {})
                 \union {"tmp"}
<1> DEFINE P == IF c.platform = "AWS" THEN {"provider-creds"} ELSE {}
           A == IF c.mode = "hcp" THEN {"target-kubeconfig", "cloud-token"} ELSE {}
<1>1. IsListOf(OperandConfig(c).volumes, P)
  BY ShortListLemma DEF OperandConfig, AWSOperandConfig, AzureOperandConfig
<1>2. IsListOf(additional(c).volumes, A)
  BY ShortListLemma DEF additional
<1>3. IsListOf(<<"tmp">>, {"tmp"})
  BY ShortListLemma
<1>4. P \intersect A = {} /\ (P \union A) \intersect {"tmp"} = {}
  OBVIOUS
<1>5. IsListOf(OperandConfig(c).volumes \o additional(c).volumes, P \union A)
  BY <1>1, <1>2, <1>4, ConcatLemma
<1>6. IsListOf((OperandConfig(c).volumes \o additional(c).volumes) \o <<"tmp">>,
               (P \union A) \union {"tmp"})
  BY <1>3, <1>4, <1>5, ConcatLemma
<1>7. QED
  BY <1>6 DEF IsListOf, buildPodSpec

(* The containers of the pod: what they mount exists, at paths of its own, *)
(* and the files they are told to read are below one of these paths.       *)
LEMMA ContainersLemma ==
    ASSUME NEW c \in Configs, NEW k \in buildPodSpec(c).containers
    PROVE  /\ IsInjective(k.env)
           /\ \A m \in k.mounts : m.volume \in Range(buildPodSpec(c).volumes)
           /\ \A m, n \in k.mounts : m.path = n.path => m = n
           /\ k.files \subseteq {m.path : m \in k.mounts}
<1>1. CASE k = tokenMinterContainer /\ c.mode = "hcp"
  <2>1. IsInjective(k.env)
    BY <1>1, ShortListLemma DEF tokenMinterContainer, IsListOf
  <2>2. QED
    BY <1>1, <2>1, VolumesLemma DEF tokenMinterContainer, kubeconfigMount, cloudTokenMount, Mount
<1>2. ASSUME k = [env |-> buildEnv(c) \o additional(c).env,
                  files |-> OperandConfig(c).files \union additional(c).files,
                  mounts |-> OperandConfig(c).mounts \union additional(c).mounts
                             \union {Mount("tmp", "/tmp")}]
      PROVE  /\ IsInjective(k.env)
             /\ \A m \in k.mounts : m.volume \in Range(buildPodSpec(c).volumes)
             /\ \A m, n \in k.mounts : m.path = n.path => m = n
             /\ k.files \subseteq {m.path : m \in k.mounts}
  <2>1. /\ k.env = buildEnv(c) \o additional(c).env
        /\ k.files = OperandConfig(c).files \union additional(c).files
        /\ k.mounts = OperandConfig(c).mounts \union additional(c).mounts
                       \union {Mount("tmp", "/tmp")}
    BY <1>2
  <2>2. IsInjective(k.env)
    BY <2>1, ContainerEnvLemma
  <2>3. CASE c.mode = "hcp" /\ c.platform = "AWS"
    <3>1. /\ k.files = {"/etc/provider", "/mnt/kubeconfig"}
          /\ k.mounts = {Mount("provider-creds", "/etc/provider"), kubeconfigMount,
                         cloudTokenMount, Mount("tmp", "/tmp")}
      BY <2>1, <2>3 DEF OperandConfig, AWSOperandConfig, additional
    <3>2. QED
      BY <2>2, <2>3, <3>1, VolumesLemma DEF kubeconfigMount, cloudTokenMount, Mount
  <2>4. CASE c.mode = "hcp" /\ c.platform = "Azure"
    <3>1. /\ k.files = {"/var/run/secrets/openshift/serviceaccount", "/mnt/kubeconfig"}
          /\ k.mounts = {kubeconfigMount, cloudTokenMount, Mount("tmp", "/tmp")}
      BY <2>1, <2>4 DEF OperandConfig, AzureOperandConfig, additional
    <3>2. QED
      BY <2>2, <2>4, <3>1, VolumesLemma DEF kubeconfigMount, cloudTokenMount, Mount
  <2>5. CASE c.mode = "ocp" /\ c.platform = "AWS"
    <3>1. /\ k.files = {"/etc/provider"}
          /\ k.mounts = {Mount("provider-creds", "/etc/provider"), Mount("tmp", "/tmp")}
      BY <2>1, <2>5 DEF OperandConfig, AWSOperandConfig, additional
    <3>2. QED
      BY <2>2, <2>5, <3>1, VolumesLemma DEF Mount
  <2>6. QED
    BY <2>3, <2>4, <2>5 DEF Configs
<1>3. QED
  BY <1>1, <1>2 DEF buildPodSpec, initContainers

(* PodSpecConsistent: the pod that is deployed, put together from parts of *)
(* buildPodSpec, the cloud provider and the mode, has no volume and no     *)
(* variable twice, mounts what it has, and finds the files it is told of.  *)
THEOREM PodSpecConsistentCorrect == Spec => []PodSpecConsistent
<1>1. TypeOK => PodSpecConsistent
  BY VolumesLemma, ContainersLemma DEF TypeOK, PodSpecConsistent
<1>2. QED
  BY <1>1, TypeCorrect, PTL
=============================================================================

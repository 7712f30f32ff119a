---------------------------- MODULE GuardProofs -----------------------------
(* A pod of the live Workspace is never without its guards.                  *)
EXTENDS TypeProofs

OwnersInv == TypeOK /\ OwnersInOrder /\ PodBehindGuards

(* Uids and owners are numbers.                                              *)
LEMMA OwnersAreNumbers ==
    ASSUME TypeOK
    PROVE  /\ ws.uid \in Nat /\ lastUid \in Nat /\ cachedWs.uid \in Nat
           /\ obj.uid \in Nat /\ pod.owner \in Nat
           /\ \A k \in Kinds : child[k].owner \in Nat /\ cachedChild[k].owner \in Nat
<1>1. ws.uid \in Nat /\ cachedWs.uid \in Nat /\ obj.uid \in Nat
  BY DEF TypeOK, ClusterTypeOK, OperatorTypeOK, Workspaces
<1>2. pod.owner \in Nat
  BY DEF TypeOK, ClusterTypeOK, Pods
<1>3. \A k \in Kinds : child[k].owner \in Nat /\ cachedChild[k].owner \in Nat
  BY DEF TypeOK, ClusterTypeOK, OperatorTypeOK, Children
<1> QED
  BY <1>1, <1>2, <1>3 DEF TypeOK, ClusterTypeOK

(* What all but a few steps do to uids and owners: no Workspace is created,  *)
(* no cache moves, a child is kept, collected or taken by the Workspace that *)
(* Reconcile works for, and a guard is passed only when it is in place.      *)
OwnerStep ==
    /\ lastUid' = lastUid
    /\ ws'.uid \in {ws.uid, 0}
    /\ cachedWs' = cachedWs /\ cachedChild' = cachedChild
    /\ \/ pod'.owner \in {pod.owner, 0}
       \/ pc = "pod" /\ pod'.owner = obj.uid
    /\ obj'.uid <= lastUid
    /\ Ensuring' => Ensuring /\ obj'.uid = obj.uid
    /\ \A k \in Kinds :
        /\ \/ child'[k].owner = child[k].owner
           \/ child'[k].owner = 0 /\ child[k].owner # ws.uid
           \/ Ensuring /\ child'[k].owner = obj.uid
        /\ Passed(k)' => \/ Passed(k)
                         \/ child'[k].owner = obj.uid
                         \/ cachedChild[k].owner = obj.uid

(* Such a step preserves the invariant.                                      *)
LEMMA OwnerStepPreserves ==
    ASSUME OwnersInv, TypeOK', OwnerStep
    PROVE  OwnersInv'
<1>a. /\ ws.uid \in Nat /\ lastUid \in Nat /\ cachedWs.uid \in Nat
      /\ obj.uid \in Nat /\ pod.owner \in Nat
      /\ \A k \in Kinds : child[k].owner \in Nat /\ cachedChild[k].owner \in Nat
  BY OwnersAreNumbers DEF OwnersInv
<1>b. \A k \in Kinds : Passed(k)' => Ensuring'
  BY DEF Passed, Ensuring
<1>1. Exists(ws)' => ws'.uid = ws.uid /\ ws.uid = lastUid /\ Exists(ws)
  BY DEF OwnerStep, OwnersInv, OwnersInOrder, Exists
<1>2. /\ Exists(ws)' => ws'.uid = lastUid'
      /\ pod'.owner <= lastUid' /\ cachedWs'.uid <= lastUid' /\ obj'.uid <= lastUid'
      /\ Ensuring' /\ Exists(cachedWs)' => obj'.uid <= cachedWs'.uid
  BY <1>a, <1>1 DEF OwnerStep, OwnersInv, OwnersInOrder, Exists
<1>3. ASSUME NEW k \in Kinds
      PROVE  /\ child'[k].owner <= lastUid' /\ cachedChild'[k].owner <= lastUid'
             /\ Ensuring' => child'[k].owner <= obj'.uid
             /\ Exists(cachedWs)' => child'[k].owner <= cachedWs'.uid
  BY <1>a, <1>3 DEF OwnerStep, OwnersInv, OwnersInOrder, Exists
<1>4. ASSUME NEW k \in Kinds, Exists(ws)', child[k].owner = ws.uid
      PROVE  child'[k].owner = ws'.uid
  BY <1>a, <1>1, <1>4 DEF OwnerStep, OwnersInv, OwnersInOrder, Exists
<1>5. ASSUME NEW k \in Kinds, Exists(ws)', cachedChild'[k].owner = ws'.uid
      PROVE  child'[k].owner = ws'.uid
  BY <1>1, <1>4, <1>5 DEF OwnerStep, OwnersInv, OwnersInOrder
<1>6. ASSUME NEW k \in Kinds, Exists(ws)', obj'.uid = ws'.uid, Passed(k)'
      PROVE  child'[k].owner = ws'.uid
  <2>1. obj.uid = ws.uid
    BY <1>1, <1>6, <1>b DEF OwnerStep
  <2> QED
    BY <1>1, <1>4, <1>6, <2>1 DEF OwnerStep, OwnersInv, OwnersInOrder
<1>7. OwnersInOrder'
  BY <1>2, <1>3, <1>5, <1>6 DEF OwnersInOrder
<1>8. ASSUME Exists(ws)', pod'.owner = ws'.uid, NEW k \in Guards
      PROVE  child'[k].owner = ws'.uid
  <2>1. k \in Kinds
    BY <1>8 DEF Kinds
  <2>2. CASE pod'.owner \in {pod.owner, 0}
    <3>1. Exists(ws) /\ pod.owner = ws.uid
      BY <1>1, <1>8, <2>2 DEF Exists
    <3> QED
      BY <1>4, <1>8, <2>1, <3>1 DEF OwnersInv, PodBehindGuards
  <2>3. CASE pc = "pod" /\ pod'.owner = obj.uid
    <3>1. Exists(ws) /\ obj.uid = ws.uid /\ Passed(k)
      BY <1>1, <1>8, <2>3 DEF Passed
    <3> QED
      BY <1>4, <1>8, <2>1, <3>1 DEF OwnersInv, OwnersInOrder
  <2> QED
    BY <2>2, <2>3 DEF OwnerStep
<1>9. PodBehindGuards'
  BY <1>8 DEF PodBehindGuards
<1> QED
  BY <1>7, <1>9 DEF OwnersInv

(* The part of OwnerStep that is about the API server.                       *)
ServerStep ==
    /\ lastUid' = lastUid
    /\ ws'.uid \in {ws.uid, 0}
    /\ \/ pod'.owner \in {pod.owner, 0}
       \/ pc = "pod" /\ pod'.owner = obj.uid
    /\ \A k \in Kinds :
        \/ child'[k].owner = child[k].owner
        \/ child'[k].owner = 0 /\ child[k].owner # ws.uid
        \/ Ensuring /\ child'[k].owner = obj.uid

(* A step that leaves Reconcile where it is.                                 *)
LEMMA StayingStep ==
    ASSUME OwnersInv, ServerStep, UNCHANGED <<cacheVars, localVars>>
    PROVE  OwnerStep
<1>1. /\ cachedWs' = cachedWs /\ cachedChild' = cachedChild
      /\ pc' = pc /\ at' = at /\ obj' = obj
  BY DEF cacheVars, localVars
<1>2. Ensuring' = Ensuring /\ \A k \in Kinds : Passed(k)' = Passed(k)
  BY <1>1 DEF Ensuring, Passed
<1> QED
  BY <1>1, <1>2 DEF ServerStep, OwnerStep, OwnersInv, OwnersInOrder

(* A step after which Reconcile ensures nothing more.                        *)
LEMMA LeavingStep ==
    ASSUME ServerStep, UNCHANGED cacheVars, obj'.uid <= lastUid,
           pc' \notin {"ensure", "pvc", "pod", "service"}
    PROVE  OwnerStep
BY DEF ServerStep, OwnerStep, cacheVars, Ensuring, Passed

(* Finish and Report are such steps.                                         *)
LEMMA FinishOrReport ==
    ASSUME OwnersInv, NEW s, NEW r, Finish(r) \/ Report(s, r)
    PROVE  obj'.uid <= lastUid /\ pc' \notin {"ensure", "pvc", "pod", "service"}
<1>1. lastUid \in Nat
  BY OwnersAreNumbers DEF OwnersInv
<1>2. obj.uid <= lastUid
  BY DEF OwnersInv, OwnersInOrder
<1>3. obj' \in {obj, NoWorkspace} /\ pc' \in {"idle", "status"}
  BY DEF Finish, Report
<1> QED
  BY <1>1, <1>2, <1>3, NoWorkspaceType

(* The cluster, left to itself, creates nothing and collects orphans only.   *)
LEMMA ClusterNextOwners ==
    ASSUME OwnersInv, ClusterNext
    PROVE  ServerStep
<1>a. ws \in Workspaces /\ pod \in Pods /\ child \in Children
  BY DEF OwnersInv, TypeOK, ClusterTypeOK
<1>1. CASE PodStarts
  BY <1>1, <1>a DEF PodStarts, ServerStep, Pods
<1>2. CASE PodGone
  BY <1>2, NoObjects DEF PodGone, ServerStep
<1>3. CASE PodDisturbed
  <2>1. pod'.owner = pod.owner
    BY <1>3, <1>a, DeletePodType DEF PodDisturbed, Pods
  <2> QED
    BY <1>3, <2>1 DEF PodDisturbed, ServerStep
<1>4. CASE VolumeLost
  BY <1>4 DEF VolumeLost, ServerStep
<1>5. ASSUME NEW k \in Kinds, CollectChild(k)
      PROVE  ServerStep
  BY <1>5, <1>a DEF CollectChild, Orphan, ServerStep, Children, NoChild, Child
<1>6. CASE CollectPod
  BY <1>6, <1>a, DeletePodType DEF CollectPod, ServerStep
<1>7. CASE CollectPVC
  BY <1>7 DEF CollectPVC, ServerStep
<1>8. CASE UserDeletes
  <2>1. ws'.uid \in {ws.uid, 0}
    BY <1>8, <1>a, NoWorkspaceType DEF UserDeletes, Workspaces
  <2> QED
    BY <1>8, <2>1 DEF UserDeletes, ServerStep
<1>9. CASE UserEdits
  <2>1. ws'.uid = ws.uid
    BY <1>9, <1>a DEF UserEdits, Workspaces
  <2> QED
    BY <1>9, <2>1 DEF UserEdits, ServerStep
<1>10. CASE Tick
  BY <1>10 DEF Tick, ServerStep
<1> QED
  BY <1>1, <1>2, <1>3, <1>4, <1>5, <1>6, <1>7, <1>8, <1>9, <1>10 DEF ClusterNext

(* A request creates a Workspace, or patches the status of the one there is. *)
LEMMA GatewayNextOwners ==
    ASSUME OwnersInv, GatewayNext
    PROVE  \/ ServerStep
           \/ (\E s \in Specs : CreateWorkspace(s)) /\ UNCHANGED <<pod, child>>
<1> PICK r \in Requests :
        \/ Arrive(r) \/ RequestFails(r) \/ RequestNext(r)
        \/ GiveUp(r) \/ TouchLastAccessed(r) \/ SessionEnds(r)
  BY DEF GatewayNext
<1>a. ws \in Workspaces /\ copy[r] \in Status /\ NewStatus \in Status
  BY NewStatusType DEF OwnersInv, TypeOK, ClusterTypeOK, GatewayTypeOK
<1>b. PatchStatus(copy[r], Cleared(copy[r])) => ws'.uid = ws.uid
  BY <1>a, ClearedType, PatchStatusType
<1>c. PatchStatus(NewStatus, copy[r]) => ws'.uid = ws.uid
  BY <1>a, PatchStatusType
<1>d. ASSUME ws'.uid = ws.uid, UNCHANGED <<pod, child, lastUid>>
      PROVE  ServerStep
  BY <1>d DEF ServerStep
<1>e. (\E s \in ClaimSpecs : CreateWorkspace(s)) => \E s \in Specs : CreateWorkspace(s)
  BY GatewayAssumption
<1>f. UNCHANGED clusterVars => ServerStep
  BY <1>d DEF clusterVars
<1>1. CASE RequestFails(r)
  BY <1>1, <1>b, <1>d, <1>e DEF RequestFails
<1>2. CASE PageCreate(r)
  BY <1>2, <1>d, <1>e DEF PageCreate
<1>3. CASE PageClear(r)
  BY <1>3, <1>b, <1>d DEF PageClear
<1>4. CASE Create(r)
  BY <1>4, <1>d, <1>e DEF Create
<1>5. CASE Clear(r)
  BY <1>5, <1>b, <1>d DEF Clear
<1>6. CASE Stamp(r)
  BY <1>6, <1>c, <1>d DEF Stamp
<1>7. CASE \/ Arrive(r) \/ PageGet(r) \/ Get(r) \/ Poll(r) \/ PollAgain(r)
           \/ GiveUp(r) \/ TouchLastAccessed(r) \/ SessionEnds(r)
  BY <1>7, <1>f DEF Arrive, PageGet, Get, Poll, PollAgain, GiveUp, TouchLastAccessed,
                    SessionEnds
<1> QED
  BY <1>1, <1>2, <1>3, <1>4, <1>5, <1>6, <1>7 DEF RequestNext

(* What CreateOrUpdate does to owners, and that it ensures its object.       *)
LEMMA CreateOrUpdateOwners ==
    ASSUME OwnersInv, NEW k \in Kinds
    PROVE  /\ CreateOrUpdateOk(k) =>
                child'[k].owner = obj.uid \/ cachedChild[k].owner = obj.uid
           /\ CreateOrUpdateOk(k) \/ (\E class \in Refusals : CreateOrUpdateErr(k, class)) =>
                \A j \in Kinds : child'[j].owner = child[j].owner \/ child'[j].owner = obj.uid
<1>1. obj \in Workspaces /\ child \in Children
  BY DEF OwnersInv, TypeOK, ClusterTypeOK, OperatorTypeOK
<1>2. Desired(k).owner = obj.uid
  BY <1>1, DesiredType
<1>3. Written(k) => /\ child'[k] = Desired(k)
                    /\ \A j \in Kinds : j # k => child'[j] = child[j]
  BY <1>1 DEF Written, Children
<1> QED
  BY <1>2, <1>3 DEF CreateOrUpdateOk, CreateOrUpdateErr

(* Every step of Reconcile but its first is an OwnerStep.                    *)
LEMMA ReconcileNextOwners ==
    ASSUME OwnersInv, ReconcileNext, ~Reconcile
    PROVE  OwnerStep
<1>a. /\ ws \in Workspaces /\ pod \in Pods /\ obj \in Workspaces /\ image \in Images
      /\ at \in 1..Len(GuardSeq) /\ sum \in Summaries
  BY DEF OwnersInv, TypeOK, ClusterTypeOK, OperatorTypeOK
<1>b. ASSUME UNCHANGED <<pod, child, lastUid>>, ws'.uid \in {ws.uid, 0}
      PROVE  ServerStep
  BY <1>b DEF ServerStep
<1>c. ASSUME NEW s, NEW r, Finish(r) \/ Report(s, r), ServerStep, UNCHANGED cacheVars
      PROVE  OwnerStep
  BY <1>c, FinishOrReport, LeavingStep
<1>d. DeletePod => pod'.owner = pod.owner
  BY <1>a, DeletePodType
<1>1. CASE ReconcileUnread
  <2>1. ServerStep
    BY <1>1, <1>b DEF ReconcileUnread
  <2> QED
    BY <1>1, <2>1, StayingStep DEF ReconcileUnread
<1>2. CASE AddFinalizer
  <2>1. ws'.uid = ws.uid
    BY <1>2, <1>a DEF AddFinalizer, UpdateOk, UpdateErr, Workspaces
  <2> QED
    BY <1>2, <2>1, <1>b, <1>c DEF AddFinalizer
<1>3. CASE reconcileDelete
  <2>1. ws'.uid \in {ws.uid, 0}
    BY <1>3, NoWorkspaceType DEF reconcileDelete, UpdateOk, UpdateErr
  <2> QED
    BY <1>3, <2>1, <1>b, <1>c DEF reconcileDelete
<1>4. CASE EnsureGuard
  <2> DEFINE k == GuardSeq[at]
  <2>1. k \in Kinds
    BY <1>a DEF Kinds, Guards
  <2>2. ServerStep
    BY <1>4, <2>1, CreateOrUpdateOwners DEF EnsureGuard, ServerStep, Ensuring
  <2>3. CASE CreateOrUpdateOk(k) /\ NextGuard
    <3>1. child'[k].owner = obj.uid \/ cachedChild[k].owner = obj.uid
      BY <2>1, <2>3, CreateOrUpdateOwners
    <3>2. obj' = obj /\ Ensuring /\ Ensuring'
      BY <1>4, <2>3 DEF EnsureGuard, NextGuard, Continue, Ensuring
    <3>3. ASSUME NEW j \in Kinds, Passed(j)'
          PROVE  Passed(j) \/ j = k
      <4>1. CASE at < Len(GuardSeq)
        BY <1>4, <1>a, <2>3, <3>3, <4>1 DEF EnsureGuard, NextGuard, Passed
      <4>2. CASE ~(at < Len(GuardSeq))
        <5>1. at = Len(GuardSeq) /\ Len(GuardSeq) \in Nat
          BY <1>a, <4>2, GuardsNonEmpty
        <5>2. j \in Guards
          BY <1>4, <2>3, <3>3, <4>2 DEF EnsureGuard, NextGuard, Continue, Passed
        <5>3. PICK i \in 1..Len(GuardSeq) : j = GuardSeq[i]
          BY <5>2 DEF Guards
        <5> QED
          BY <1>4, <5>1, <5>3 DEF EnsureGuard, Passed
      <4> QED
        BY <4>1, <4>2
    <3>4. cachedWs' = cachedWs /\ cachedChild' = cachedChild
      BY <1>4 DEF EnsureGuard, cacheVars
    <3>5. obj'.uid <= lastUid
      BY <3>2 DEF OwnersInv, OwnersInOrder
    <3> QED
      BY <2>2, <3>1, <3>2, <3>3, <3>4, <3>5 DEF ServerStep, OwnerStep
  <2>4. CASE \E s, r : Report(s, r)
    BY <1>4, <1>c, <2>2, <2>4 DEF EnsureGuard
  <2> QED
    BY <1>4, <2>3, <2>4 DEF EnsureGuard
<1>5. CASE EnsurePVC
  <2>1. ServerStep
    BY <1>5, <1>b DEF EnsurePVC
  <2>2. CASE Continue("pod")
    <3>1. obj' = obj /\ Ensuring /\ \A k \in Kinds : Passed(k)' = Passed(k)
      BY <1>5, <2>2 DEF EnsurePVC, Continue, Ensuring, Passed
    <3> QED
      BY <1>5, <2>1, <3>1 DEF EnsurePVC, cacheVars, ServerStep, OwnerStep, OwnersInv, OwnersInOrder
  <2>3. CASE \E s, r : Report(s, r)
    BY <1>5, <1>c, <2>1, <2>3 DEF EnsurePVC
  <2> QED
    BY <1>5, <2>2, <2>3 DEF EnsurePVC
<1>6. CASE EnsurePod
  <2>1. CreatePod => pod'.owner = obj.uid
    BY <1>a, NewPodType DEF CreatePod, Workspaces
  <2>2. pod'.owner \in {pod.owner, obj.uid} /\ pc = "pod"
    BY <1>6, <1>d, <2>1 DEF EnsurePod, CreatePodErr, DeletePodErr
  <2>3. ServerStep
    BY <1>6, <2>2 DEF EnsurePod, ServerStep
  <2>4. CASE pc' = "service" /\ UNCHANGED <<at, obj>>
    <3>1. Ensuring /\ \A k \in Kinds : ~Passed(k)'
      BY <2>2, <2>4 DEF Ensuring, Passed
    <3> QED
      BY <1>6, <2>3, <2>4, <3>1 DEF EnsurePod, cacheVars, ServerStep, OwnerStep, OwnersInv, OwnersInOrder
  <2>5. CASE \E s, r : Finish(r) \/ Report(s, r)
    BY <1>6, <1>c, <2>3, <2>5 DEF EnsurePod
  <2> QED
    BY <1>6, <2>4, <2>5 DEF EnsurePod
<1>7. CASE EnsureService
  <2>1. ServerStep
    BY <1>7, CreateOrUpdateOwners DEF EnsureService, ServerStep, Ensuring, Kinds
  <2>2. CASE Continue("idleCheck")
    BY <1>7, <2>1, <2>2, LeavingStep DEF EnsureService, Continue, OwnersInv, OwnersInOrder
  <2>3. CASE \E s, r : Report(s, r)
    BY <1>7, <1>c, <2>1, <2>3 DEF EnsureService
  <2> QED
    BY <1>7, <2>2, <2>3 DEF EnsureService
<1>8. CASE SeedLastAccessed
  <2>1. obj'.uid = obj.uid
    BY <1>8, <1>a DEF SeedLastAccessed, Workspaces
  <2>2. ServerStep
    BY <1>8, <1>b DEF SeedLastAccessed, clusterVars
  <2> QED
    BY <1>8, <2>1, <2>2, LeavingStep DEF SeedLastAccessed, OwnersInv, OwnersInOrder
<1>9. CASE PatchSeed
  <2> DEFINE base == [obj.status EXCEPT !.lastAccessed = 0]
             patch == PatchStatus(base, obj.status)
  <2>1. obj.status \in Status /\ base \in Status
    BY <1>a DEF Workspaces, Status
  <2>2. patch => ws' \in Workspaces /\ ws'.uid = ws.uid
    BY <1>a, <2>1, PatchStatusType
  <2>3. ServerStep
    BY <1>9, <1>b, <2>2 DEF PatchSeed
  <2>4. CASE patch /\ obj' = [ws' EXCEPT !.spec = obj.spec] /\ pc' = "idleCheck"
    <3>1. Exists(ws) /\ obj'.uid = ws.uid
      BY <2>2, <2>4 DEF PatchStatus, Workspaces
    <3>2. obj'.uid <= lastUid
      <4>1. ws.uid = lastUid
        BY <3>1 DEF OwnersInv, OwnersInOrder
      <4>2. lastUid \in Nat
        BY OwnersAreNumbers DEF OwnersInv
      <4> QED
        BY <3>1, <4>1, <4>2
    <3> QED
      BY <1>9, <2>3, <2>4, <3>2, LeavingStep DEF PatchSeed
  <2>5. CASE Finish("error")
    BY <1>9, <1>c, <2>3, <2>5 DEF PatchSeed
  <2> QED
    BY <1>9, <2>4, <2>5 DEF PatchSeed
<1>10. CASE StopIdle
  <2>1. ServerStep
    BY <1>10, <1>d DEF StopIdle, DeletePodErr, ServerStep
  <2> QED
    BY <1>10, <1>c, <2>1 DEF StopIdle
<1>11. CASE ObservePod
  <2>1. ServerStep
    BY <1>11, <1>b DEF ObservePod, clusterVars
  <2> QED
    BY <1>11, <1>c, <2>1 DEF ObservePod
<1>12. CASE updateStatus
  <2> DEFINE patch == PatchStatus(obj.status, ApplyStatusSummary(obj.status, sum))
  <2>1. obj.status \in Status /\ ApplyStatusSummary(obj.status, sum) \in Status
    BY <1>a, ApplyStatusSummaryType DEF Workspaces
  <2>2. patch => ws'.uid = ws.uid
    BY <1>a, <2>1, PatchStatusType
  <2>3. ServerStep
    BY <1>12, <1>b, <2>2 DEF updateStatus
  <2> QED
    BY <1>12, <1>c, <2>3 DEF updateStatus
<1> QED
  BY <1>1, <1>2, <1>3, <1>4, <1>5, <1>6, <1>7, <1>8, <1>9, <1>10, <1>11, <1>12
  DEF ReconcileNext

(* What is no younger than the last uid is older than the next.              *)
LEMMA NextUid ==
    \A a, n \in Nat : a <= n => a <= n + 1 /\ a # n + 1
OBVIOUS

(* A new Workspace is younger than every owner and every copy.               *)
LEMMA CreateWorkspaceOwners ==
    ASSUME OwnersInv, NEW s \in Specs, CreateWorkspace(s), UNCHANGED <<pod, child>>,
           UNCHANGED <<cacheVars, localVars>>
    PROVE  OwnersInOrder' /\ PodBehindGuards'
<1>a. /\ lastUid \in Nat /\ cachedWs.uid \in Nat /\ obj.uid \in Nat /\ pod.owner \in Nat
      /\ \A k \in Kinds : child[k].owner \in Nat /\ cachedChild[k].owner \in Nat
  BY OwnersAreNumbers DEF OwnersInv
<1>1. ws'.uid = lastUid + 1 /\ lastUid' = lastUid + 1
  BY <1>a, NewWorkspaceType DEF CreateWorkspace
<1>2. /\ cachedWs' = cachedWs /\ cachedChild' = cachedChild /\ pod' = pod /\ child' = child
      /\ obj' = obj /\ pc' = pc /\ at' = at
  BY DEF cacheVars, localVars
<1>3. Ensuring' = Ensuring /\ \A k \in Kinds : Passed(k)' = Passed(k)
  BY <1>2 DEF Ensuring, Passed
<1>4. /\ pod.owner <= lastUid /\ cachedWs.uid <= lastUid /\ obj.uid <= lastUid
      /\ Ensuring /\ Exists(cachedWs) => obj.uid <= cachedWs.uid
  BY DEF OwnersInv, OwnersInOrder
<1>5. ASSUME NEW k \in Kinds
      PROVE  /\ child[k].owner <= lastUid /\ cachedChild[k].owner <= lastUid
             /\ Ensuring => child[k].owner <= obj.uid
             /\ Exists(cachedWs) => child[k].owner <= cachedWs.uid
  BY <1>5 DEF OwnersInv, OwnersInOrder
<1>6. /\ pod'.owner <= lastUid' /\ cachedWs'.uid <= lastUid' /\ obj'.uid <= lastUid'
      /\ pod'.owner # ws'.uid /\ obj'.uid # ws'.uid
  <2>1. /\ pod.owner <= lastUid + 1 /\ cachedWs.uid <= lastUid + 1 /\ obj.uid <= lastUid + 1
        /\ pod.owner # lastUid + 1 /\ obj.uid # lastUid + 1
    BY <1>a, <1>4, NextUid
  <2> QED
    BY <1>1, <1>2, <2>1
<1>7. ASSUME NEW k \in Kinds
      PROVE  /\ child'[k].owner <= lastUid' /\ cachedChild'[k].owner <= lastUid'
             /\ cachedChild'[k].owner # ws'.uid
             /\ Ensuring' => child'[k].owner <= obj'.uid
             /\ Exists(cachedWs)' => child'[k].owner <= cachedWs'.uid
  <2>1. /\ child[k].owner \in Nat /\ cachedChild[k].owner \in Nat
        /\ child[k].owner <= lastUid /\ cachedChild[k].owner <= lastUid
    BY <1>a, <1>5, <1>7
  <2>2. /\ child'[k].owner <= lastUid' /\ cachedChild'[k].owner <= lastUid'
        /\ cachedChild'[k].owner # ws'.uid
    <3>1. child'[k] = child[k] /\ cachedChild'[k] = cachedChild[k]
      BY <1>2
    <3>2. /\ child[k].owner <= lastUid + 1 /\ cachedChild[k].owner <= lastUid + 1
          /\ cachedChild[k].owner # lastUid + 1
      BY <1>a, <2>1, NextUid
    <3> QED
      BY <1>1, <3>1, <3>2
  <2> QED
    BY <1>2, <1>3, <1>5, <1>7, <2>2 DEF Exists
<1>8. /\ ws'.uid = lastUid'
      /\ Ensuring' /\ Exists(cachedWs)' => obj'.uid <= cachedWs'.uid
  BY <1>1, <1>2, <1>3, <1>4 DEF Exists
<1>9. OwnersInOrder'
  BY <1>6, <1>7, <1>8 DEF OwnersInOrder
<1>10. PodBehindGuards'
  BY <1>6 DEF PodBehindGuards
<1> QED
  BY <1>9, <1>10

(* A watch event, or the list of a new process, brings a cache up to date.   *)
LEMMA CachesOwners ==
    ASSUME OwnersInv, UNCHANGED <<ws, pod, child, lastUid>>,
           cachedWs' \in {cachedWs, ws},
           \A k \in Kinds : cachedChild'[k] \in {cachedChild[k], child[k]},
           UNCHANGED localVars \/ (pc' = "idle" /\ obj' = NoWorkspace)
    PROVE  OwnersInOrder' /\ PodBehindGuards'
<1>a. /\ ws.uid \in Nat /\ lastUid \in Nat /\ cachedWs.uid \in Nat
      /\ obj.uid \in Nat
      /\ \A k \in Kinds : child[k].owner \in Nat /\ cachedChild[k].owner \in Nat
  BY OwnersAreNumbers DEF OwnersInv
<1>1. /\ obj'.uid <= lastUid
      /\ Ensuring' => Ensuring /\ obj' = obj
      /\ \A k \in Kinds : Passed(k)' => Passed(k) /\ obj' = obj
  <2>1. CASE UNCHANGED localVars
    <3>1. obj' = obj /\ pc' = pc /\ at' = at
      BY <2>1 DEF localVars
    <3>2. obj.uid <= lastUid
      BY DEF OwnersInv, OwnersInOrder
    <3> QED
      BY <3>1, <3>2 DEF Ensuring, Passed
  <2>2. CASE pc' = "idle" /\ obj' = NoWorkspace
    <3>1. obj'.uid <= lastUid
      BY <1>a, <2>2, NoWorkspaceType
    <3> QED
      BY <2>2, <3>1 DEF Ensuring, Passed
  <2> QED
    BY <2>1, <2>2
<1>2. /\ ws' = ws /\ pod' = pod /\ child' = child /\ lastUid' = lastUid
      /\ cachedWs' = cachedWs \/ cachedWs' = ws
      /\ \A k \in Kinds : cachedChild'[k] = cachedChild[k] \/ cachedChild'[k] = child[k]
  OBVIOUS
<1>3. ASSUME NEW k \in Kinds
      PROVE  /\ child'[k].owner <= lastUid' /\ cachedChild'[k].owner <= lastUid'
             /\ Ensuring' => child'[k].owner <= obj'.uid
             /\ Exists(cachedWs)' => child'[k].owner <= cachedWs'.uid
             /\ Exists(ws)' /\ cachedChild'[k].owner = ws'.uid => child'[k].owner = ws'.uid
             /\ Exists(ws)' /\ obj'.uid = ws'.uid /\ Passed(k)' => child'[k].owner = ws'.uid
  <2>1. /\ Exists(ws) => ws.uid = lastUid
        /\ child[k].owner <= lastUid /\ cachedChild[k].owner <= lastUid
        /\ Ensuring => child[k].owner <= obj.uid
        /\ Exists(cachedWs) => child[k].owner <= cachedWs.uid
        /\ Exists(ws) /\ cachedChild[k].owner = ws.uid => child[k].owner = ws.uid
        /\ Exists(ws) /\ obj.uid = ws.uid /\ Passed(k) => child[k].owner = ws.uid
    BY DEF OwnersInv, OwnersInOrder
  <2>2. child'[k].owner <= lastUid' /\ cachedChild'[k].owner <= lastUid'
    BY <1>2, <1>3, <2>1
  <2>3. Exists(cachedWs)' => child'[k].owner <= cachedWs'.uid
    BY <1>2, <1>3, <2>1 DEF Exists
  <2>4. Exists(ws)' /\ cachedChild'[k].owner = ws'.uid => child'[k].owner = ws'.uid
    BY <1>2, <1>3, <2>1 DEF Exists
  <2>5. /\ Ensuring' => child'[k].owner <= obj'.uid
        /\ Exists(ws)' /\ obj'.uid = ws'.uid /\ Passed(k)' => child'[k].owner = ws'.uid
    BY <1>1, <1>2, <1>3, <2>1 DEF Exists
  <2> QED
    BY <2>2, <2>3, <2>4, <2>5
<1>4. /\ Exists(ws)' => ws'.uid = lastUid'
      /\ pod'.owner <= lastUid' /\ cachedWs'.uid <= lastUid' /\ obj'.uid <= lastUid'
      /\ Ensuring' /\ Exists(cachedWs)' => obj'.uid <= cachedWs'.uid
  <2>1. /\ Exists(ws) => ws.uid = lastUid
        /\ pod.owner <= lastUid /\ cachedWs.uid <= lastUid /\ obj.uid <= lastUid
        /\ Ensuring /\ Exists(cachedWs) => obj.uid <= cachedWs.uid
    BY DEF OwnersInv, OwnersInOrder
  <2>2. ws.uid <= lastUid
    BY <1>a, <2>1 DEF Exists
  <2> QED
    BY <1>1, <1>2, <2>1, <2>2 DEF Exists
<1>5. OwnersInOrder'
  BY <1>3, <1>4 DEF OwnersInOrder
<1> QED
  BY <1>2, <1>5 DEF OwnersInv, PodBehindGuards

(* Reconcile starts from the cached Workspace, with no guard passed.         *)
LEMMA ReconcileOwners ==
    ASSUME OwnersInv, Reconcile
    PROVE  OwnersInOrder' /\ PodBehindGuards'
<1>a. /\ ws.uid \in Nat /\ lastUid \in Nat /\ cachedWs.uid \in Nat
      /\ \A k \in Kinds : child[k].owner \in Nat /\ cachedChild[k].owner \in Nat
  BY OwnersAreNumbers DEF OwnersInv
<1>1. /\ ws' = ws /\ pod' = pod /\ child' = child /\ lastUid' = lastUid
      /\ cachedWs' = cachedWs /\ cachedChild' = cachedChild
  BY DEF Reconcile, clusterVars, cacheVars
<1>2. /\ obj'.uid \in {cachedWs.uid, 0}
      /\ Ensuring' => Exists(cachedWs) /\ obj' = cachedWs
      /\ \A k \in Kinds : ~Passed(k)'
  <2>1. pc' = FirstStep(cachedWs) /\ at' = 1
    BY DEF Reconcile
  <2>2. FirstStep(cachedWs) = "ensure" => Exists(cachedWs)
    BY DEF FirstStep
  <2>3. FirstStep(cachedWs) \notin {"pvc", "pod", "service"}
    BY FirstStepType DEF OwnersInv, TypeOK, OperatorTypeOK
  <2>4. obj'.uid \in {cachedWs.uid, 0} /\ (pc' = "ensure" => obj' = cachedWs)
    BY <2>1, NoWorkspaceType DEF Reconcile
  <2> QED
    BY <2>1, <2>2, <2>3, <2>4 DEF Ensuring, Passed
<1>3. ASSUME NEW k \in Kinds
      PROVE  /\ child'[k].owner <= lastUid' /\ cachedChild'[k].owner <= lastUid'
             /\ Ensuring' => child'[k].owner <= obj'.uid
             /\ Exists(cachedWs)' => child'[k].owner <= cachedWs'.uid
             /\ Exists(ws)' /\ cachedChild'[k].owner = ws'.uid => child'[k].owner = ws'.uid
             /\ Exists(ws)' /\ obj'.uid = ws'.uid /\ Passed(k)' => child'[k].owner = ws'.uid
  <2>1. /\ child[k].owner <= lastUid /\ cachedChild[k].owner <= lastUid
        /\ Exists(cachedWs) => child[k].owner <= cachedWs.uid
        /\ Exists(ws) /\ cachedChild[k].owner = ws.uid => child[k].owner = ws.uid
    BY DEF OwnersInv, OwnersInOrder
  <2> QED
    BY <1>1, <1>2, <1>3, <2>1 DEF Exists
<1>4. /\ Exists(ws)' => ws'.uid = lastUid'
      /\ pod'.owner <= lastUid' /\ cachedWs'.uid <= lastUid' /\ obj'.uid <= lastUid'
      /\ Ensuring' /\ Exists(cachedWs)' => obj'.uid <= cachedWs'.uid
  <2>1. /\ Exists(ws) => ws.uid = lastUid
        /\ pod.owner <= lastUid /\ cachedWs.uid <= lastUid
    BY DEF OwnersInv, OwnersInOrder
  <2>2. obj'.uid <= lastUid /\ cachedWs.uid <= cachedWs.uid
    <3>1. 0 <= lastUid /\ cachedWs.uid <= cachedWs.uid
      BY <1>a
    <3>2. obj'.uid = cachedWs.uid \/ obj'.uid = 0
      BY <1>2
    <3> QED
      BY <2>1, <3>1, <3>2
  <2> QED
    BY <1>1, <1>2, <2>1, <2>2 DEF Exists
<1>5. OwnersInOrder'
  BY <1>3, <1>4 DEF OwnersInOrder
<1> QED
  BY <1>1, <1>5 DEF OwnersInv, PodBehindGuards

(* The order of owners and the guards of the pod are inductive together.     *)
LEMMA OwnersInvNext ==
    ASSUME OwnersInv, [Next]_vars
    PROVE  OwnersInv'
<1>a. TypeOK'
  BY NextType DEF OwnersInv
<1>b. OwnerStep => OwnersInv'
  BY <1>a, OwnerStepPreserves
<1>c. OwnersInOrder' /\ PodBehindGuards' => OwnersInv'
  BY <1>a DEF OwnersInv
<1>1. CASE ClusterNext /\ Watches
  BY <1>1, <1>b, ClusterNextOwners, StayingStep DEF Watches
<1>2. CASE GatewayNext /\ Watches
  <2>1. UNCHANGED <<cacheVars, localVars>>
    BY <1>2 DEF Watches
  <2> QED
    BY <1>2, <2>1, <1>b, <1>c, GatewayNextOwners, StayingStep, CreateWorkspaceOwners
<1>3. CASE OperatorNext
  <2>1. ASSUME NEW x \in Watched, SeeEvent(x)
        PROVE  OwnersInv'
    BY <2>1, <1>c, CachesOwners DEF SeeEvent, clusterVars
  <2>2. CASE TimerFires \/ Resync
    <3>1. ServerStep /\ UNCHANGED <<cacheVars, localVars>>
      BY <2>2 DEF TimerFires, Resync, clusterVars, ServerStep
    <3> QED
      BY <3>1, <1>b, StayingStep
  <2>3. CASE Restart
    BY <2>3, <1>c, CachesOwners DEF Restart
  <2>4. CASE ReconcileNext
    BY <2>4, <1>b, <1>c, ReconcileNextOwners, ReconcileOwners
  <2> QED
    BY <1>3, <2>1, <2>2, <2>3, <2>4 DEF OperatorNext
<1>4. CASE UNCHANGED vars
  <2>1. ServerStep /\ UNCHANGED <<cacheVars, localVars>>
    BY <1>4 DEF vars, clusterVars, operatorVars, ServerStep
  <2> QED
    BY <2>1, <1>b, StayingStep
<1> QED
  BY <1>1, <1>2, <1>3, <1>4 DEF Next

(* Nothing is owned at the start.                                            *)
LEMMA OwnersInvInit ==
    ASSUME Init
    PROVE  OwnersInv
<1>a. TypeOK
  BY InitType
<1>1. /\ ws.uid = lastUid /\ lastUid \in Nat /\ cachedWs.uid = 0 /\ obj.uid = 0
      /\ pod.owner = 0 /\ pc = "idle"
  BY <1>a, NoWorkspaceType, NoObjects DEF Init, ClusterInit, OperatorInit, TypeOK, ClusterTypeOK
<1>2. \A k \in Kinds : child[k].owner = 0 /\ cachedChild[k].owner = 0
  BY DEF Init, ClusterInit, OperatorInit, NoChild, Child
<1>3. ~Ensuring /\ \A k \in Kinds : ~Passed(k)
  BY <1>1 DEF Ensuring, Passed
<1>4. OwnersInOrder
  <2>1. 0 <= lastUid /\ 0 <= 0
    BY <1>1
  <2>2. /\ pod.owner <= lastUid /\ cachedWs.uid <= lastUid /\ obj.uid <= lastUid
        /\ \A k \in Kinds : child[k].owner <= lastUid /\ cachedChild[k].owner <= lastUid
    BY <1>1, <1>2, <2>1
  <2>3. \A k \in Kinds : child[k].owner = cachedChild[k].owner
    BY <1>2
  <2> QED
    BY <1>1, <1>3, <2>2, <2>3 DEF OwnersInOrder, Exists
<1> QED
  BY <1>a, <1>1, <1>4 DEF OwnersInv, PodBehindGuards, Exists

(* Whatever the caches say, whatever API calls fail and however often the    *)
(* operator restarts or the Workspace is deleted and created anew: a pod of  *)
(* the live Workspace is never without its ServiceAccount, Role, RoleBinding *)
(* and NetworkPolicies.                                                      *)
THEOREM PodAlwaysBehindGuards == Spec => []PodBehindGuards
<1>1. Init => OwnersInv
  BY OwnersInvInit
<1>2. OwnersInv /\ [Next]_vars => OwnersInv'
  BY OwnersInvNext
<1>3. OwnersInv => PodBehindGuards
  BY DEF OwnersInv
<1> QED
  BY <1>1, <1>2, <1>3, PTL DEF Spec

(* The strengthening is itself an invariant: uids and owners stay in order.  *)
THEOREM OwnersAlwaysInOrder == Spec => []OwnersInOrder
<1>1. Init => OwnersInv
  BY OwnersInvInit
<1>2. OwnersInv /\ [Next]_vars => OwnersInv'
  BY OwnersInvNext
<1>3. OwnersInv => OwnersInOrder
  BY DEF OwnersInv
<1> QED
  BY <1>1, <1>2, <1>3, PTL DEF Spec

=============================================================================

---------------------------- MODULE SandboxProofs -----------------------------
(* DevPlane implements the sandbox: every step of every program is a step of *)
(* Sandbox, or changes nothing there.                                        *)
EXTENDS GuardProofs

(* Reconcile removes the finalizer of a deleted Workspace only.              *)
RemovesDeleted == pc = "removeFinalizer" => Exists(obj) /\ obj.deleting

BoxInv == OwnersInv /\ FinalizerFirst /\ RemovesDeleted

(***************************************************************************)
(* No step changes more than one of Workspace, pod and children: the       *)
(* Workspace is kept, condemned, gone or created; the pod is kept, gone or *)
(* created by Reconcile; one child is kept, collected as an orphan or      *)
(* written by Reconcile.                                                   *)
(***************************************************************************)
WsStep ==
    /\ UNCHANGED <<pod, child>>
    /\ \/ /\ UNCHANGED lastUid
          /\ \/ /\ ws'.uid = ws.uid
                /\ ws'.deleting = ws.deleting \/ (Exists(ws) /\ ws'.deleting = TRUE)
                /\ ws.finalizer => ws'.finalizer
             \/ Exists(ws) /\ ws' = NoWorkspace /\ (ws.deleting \/ ~ws.finalizer)
       \/ \E s \in Specs : CreateWorkspace(s)

PodStep ==
    /\ UNCHANGED <<ws, child, lastUid>>
    /\ \/ pod'.owner \in {pod.owner, 0}
       \/ pc = "pod" /\ pod'.owner = obj.uid

ChildStep ==
    /\ UNCHANGED <<ws, pod, lastUid>>
    /\ \E k \in Kinds :
        /\ \A j \in Kinds : j # k => child'[j].owner = child[j].owner
        /\ \/ child'[k].owner = child[k].owner
           \/ child'[k].owner = 0 /\ child[k].owner # ws.uid
           \/ Ensuring /\ child'[k].owner = obj.uid

ObjectStep == WsStep \/ PodStep \/ ChildStep

(* A step that leaves the objects alone.                                     *)
LEMMA StillStep ==
    ASSUME UNCHANGED <<ws, pod, child, lastUid>>
    PROVE  ObjectStep
BY DEF ObjectStep, PodStep

(* What the cluster does to the objects.                                     *)
LEMMA ClusterNextObjects ==
    ASSUME BoxInv, ClusterNext
    PROVE  ObjectStep
<1>a. ws \in Workspaces /\ pod \in Pods /\ child \in Children
  BY DEF BoxInv, OwnersInv, TypeOK, ClusterTypeOK
<1>1. CASE PodStarts
  BY <1>1, <1>a DEF PodStarts, ObjectStep, PodStep, Pods
<1>2. CASE PodGone
  BY <1>2, NoObjects DEF PodGone, ObjectStep, PodStep
<1>3. CASE PodDisturbed
  <2>1. pod'.owner = pod.owner
    BY <1>3, <1>a, DeletePodType DEF PodDisturbed, Pods
  <2> QED
    BY <1>3, <2>1 DEF PodDisturbed, ObjectStep, PodStep
<1>4. CASE VolumeLost \/ CollectPVC \/ Tick
  BY <1>4, StillStep DEF VolumeLost, CollectPVC, Tick
<1>5. ASSUME NEW k \in Kinds, CollectChild(k)
      PROVE  ObjectStep
  BY <1>5, <1>a DEF CollectChild, Orphan, ObjectStep, ChildStep, Children, NoChild, Child
<1>6. CASE CollectPod
  BY <1>6, <1>a, DeletePodType DEF CollectPod, ObjectStep, PodStep
<1>7. CASE UserDeletes
  <2>1. CASE ws.finalizer
    <3>1. ws' = [ws EXCEPT !.deleting = TRUE]
      BY <1>7, <2>1 DEF UserDeletes
    <3>2. ws'.uid = ws.uid /\ ws'.deleting = TRUE /\ ws'.finalizer = ws.finalizer
      BY <3>1, <1>a DEF Workspaces
    <3> QED
      BY <1>7, <3>2 DEF UserDeletes, ObjectStep, WsStep
  <2>2. CASE ~ws.finalizer
    BY <1>7, <2>2 DEF UserDeletes, ObjectStep, WsStep
  <2> QED
    BY <2>1, <2>2
<1>8. CASE UserEdits
  <2>1. ws'.uid = ws.uid /\ ws'.deleting = ws.deleting /\ ws'.finalizer = ws.finalizer
    BY <1>8, <1>a DEF UserEdits, Workspaces
  <2> QED
    BY <1>8, <2>1 DEF UserEdits, ObjectStep, WsStep
<1> QED
  BY <1>1, <1>2, <1>3, <1>4, <1>5, <1>6, <1>7, <1>8 DEF ClusterNext

(* A patch of the status keeps everything else.                              *)
LEMMA PatchKeeps ==
    ASSUME TypeOK, NEW base, NEW new, PatchStatus(base, new)
    PROVE  ws'.uid = ws.uid /\ ws'.deleting = ws.deleting /\ ws'.finalizer = ws.finalizer
BY DEF PatchStatus, TypeOK, ClusterTypeOK, Workspaces

(* What a request does to the objects.                                       *)
LEMMA GatewayNextObjects ==
    ASSUME BoxInv, GatewayNext
    PROVE  ObjectStep
<1> PICK r \in Requests :
        \/ Arrive(r) \/ RequestFails(r) \/ RequestNext(r)
        \/ GiveUp(r) \/ TouchLastAccessed(r) \/ SessionEnds(r)
  BY DEF GatewayNext
<1>a. TypeOK
  BY DEF BoxInv, OwnersInv
<1>b. ASSUME UNCHANGED <<pod, child, lastUid>>, NEW base, NEW new, PatchStatus(base, new)
      PROVE  ObjectStep
  <2>1. ws'.uid = ws.uid /\ ws'.deleting = ws.deleting /\ ws'.finalizer = ws.finalizer
    BY <1>a, <1>b, PatchKeeps
  <2> QED
    BY <1>b, <2>1 DEF ObjectStep, WsStep
<1>c. ASSUME UNCHANGED <<pod, child>>, \E s \in ClaimSpecs : CreateWorkspace(s)
      PROVE  ObjectStep
  BY <1>c, GatewayAssumption DEF ObjectStep, WsStep
<1>f. UNCHANGED clusterVars => ObjectStep
  BY StillStep DEF clusterVars
<1>1. CASE RequestFails(r)
  BY <1>1, <1>b, <1>c, StillStep DEF RequestFails
<1>2. CASE PageCreate(r) \/ Create(r)
  BY <1>2, <1>c, StillStep DEF PageCreate, Create
<1>3. CASE PageClear(r) \/ Clear(r) \/ Stamp(r)
  BY <1>3, <1>b, StillStep DEF PageClear, Clear, Stamp
<1>4. CASE \/ Arrive(r) \/ PageGet(r) \/ Get(r) \/ Poll(r) \/ PollAgain(r)
           \/ GiveUp(r) \/ TouchLastAccessed(r) \/ SessionEnds(r)
  BY <1>4, <1>f DEF Arrive, PageGet, Get, Poll, PollAgain, GiveUp, TouchLastAccessed,
                    SessionEnds
<1> QED
  BY <1>1, <1>2, <1>3, <1>4 DEF RequestNext

(* What Reconcile does to the objects.                                       *)
LEMMA ReconcileNextObjects ==
    ASSUME BoxInv, ReconcileNext
    PROVE  ObjectStep
<1>a. TypeOK
  BY DEF BoxInv, OwnersInv
<1>b. ws \in Workspaces /\ pod \in Pods /\ obj \in Workspaces /\ at \in 1..Len(GuardSeq)
  BY <1>a DEF TypeOK, ClusterTypeOK, OperatorTypeOK
<1>c. ASSUME UNCHANGED <<pod, child, lastUid>>, NEW base, NEW new, PatchStatus(base, new)
      PROVE  ObjectStep
  <2>1. ws'.uid = ws.uid /\ ws'.deleting = ws.deleting /\ ws'.finalizer = ws.finalizer
    BY <1>a, <1>c, PatchKeeps
  <2> QED
    BY <1>c, <2>1 DEF ObjectStep, WsStep
<1>d. DeletePod => pod'.owner = pod.owner
  BY <1>b, DeletePodType
<1>e. ASSUME NEW k \in Kinds, Ensuring, UNCHANGED <<ws, pod, lastUid>>,
             CreateOrUpdateOk(k) \/ \E class \in Refusals : CreateOrUpdateErr(k, class)
      PROVE  ObjectStep
  <2>1. child \in Children /\ Desired(k).owner = obj.uid
    BY <1>a, DesiredType DEF TypeOK, ClusterTypeOK, OperatorTypeOK
  <2>2. Written(k) => /\ child'[k] = Desired(k)
                      /\ \A j \in Kinds : j # k => child'[j] = child[j]
    BY <2>1 DEF Written, Children
  <2>3. Written(k) \/ UNCHANGED child
    BY <1>e DEF CreateOrUpdateOk, CreateOrUpdateErr
  <2> QED
    BY <1>e, <2>1, <2>2, <2>3 DEF ObjectStep, ChildStep
<1>1. CASE Reconcile \/ ReconcileUnread \/ EnsurePVC \/ SeedLastAccessed \/ ObservePod
  BY <1>1, StillStep
  DEF Reconcile, ReconcileUnread, EnsurePVC, SeedLastAccessed, ObservePod, clusterVars
<1>2. CASE AddFinalizer
  <2>1. /\ ws'.uid = ws.uid /\ ws'.deleting = ws.deleting
        /\ ws.finalizer => ws'.finalizer
    BY <1>2, <1>b DEF AddFinalizer, UpdateOk, UpdateErr, Workspaces
  <2> QED
    BY <1>2, <2>1 DEF AddFinalizer, ObjectStep, WsStep
<1>3. CASE reconcileDelete
  <2>1. UpdateOk(NoWorkspace) => Exists(ws) /\ ws' = NoWorkspace /\ ws.deleting
    BY <1>3 DEF BoxInv, RemovesDeleted, reconcileDelete, UpdateOk
  <2>2. UpdateOk(NoWorkspace) \/ ws' = ws
    BY <1>3 DEF reconcileDelete, UpdateErr
  <2> QED
    BY <1>3, <2>1, <2>2 DEF reconcileDelete, ObjectStep, WsStep
<1>4. CASE EnsureGuard
  <2>1. GuardSeq[at] \in Kinds
    BY <1>b DEF Kinds, Guards
  <2> QED
    BY <1>4, <2>1, <1>e DEF EnsureGuard, Ensuring
<1>5. CASE EnsurePod
  <2>1. CreatePod => pod'.owner = obj.uid
    BY <1>a, NewPodType DEF CreatePod, TypeOK, OperatorTypeOK, Workspaces
  <2>2. pod'.owner \in {pod.owner, obj.uid} /\ pc = "pod"
    BY <1>5, <1>d, <2>1 DEF EnsurePod, CreatePodErr, DeletePodErr
  <2> QED
    BY <1>5, <2>2 DEF EnsurePod, ObjectStep, PodStep
<1>6. CASE EnsureService
  BY <1>6, <1>e DEF EnsureService, Ensuring, Kinds
<1>7. CASE PatchSeed \/ updateStatus
  BY <1>7, <1>c, StillStep DEF PatchSeed, updateStatus
<1>8. CASE StopIdle
  BY <1>8, <1>d DEF StopIdle, DeletePodErr, ObjectStep, PodStep
<1> QED
  BY <1>1, <1>2, <1>3, <1>4, <1>5, <1>6, <1>7, <1>8 DEF ReconcileNext

(* Such a step is a step of the sandbox.                                     *)
LEMMA ObjectStepInBox ==
    ASSUME BoxInv, ObjectStep
    PROVE  [Box!Next]_(Box!vars)
<1> DEFINE standing == {k \in Guards : Exists(ws) /\ child[k].owner = ws.uid}
           open == Exists(ws) /\ pod.owner = ws.uid
           doomed == Exists(ws) /\ ws.deleting
<1>a. /\ ws.uid \in Nat /\ lastUid \in Nat /\ obj.uid \in Nat /\ pod.owner \in Nat
      /\ \A k \in Kinds : child[k].owner \in Nat
  BY OwnersAreNumbers DEF BoxInv, OwnersInv
<1>b. Guards \subseteq Kinds
  BY DEF Kinds
<1>c. ws.deleting \in BOOLEAN /\ ws.finalizer \in BOOLEAN
  BY DEF BoxInv, OwnersInv, TypeOK, ClusterTypeOK, Workspaces
<1>1. CASE WsStep
  <2>a. pod' = pod /\ child' = child
    BY <1>1 DEF WsStep
  <2>1. CASE lastUid' = lastUid /\ ws'.uid = ws.uid
    <3>1. standing' = standing /\ open' = open
      BY <2>a, <2>1 DEF Exists
    <3>2. CASE ws'.deleting = ws.deleting
      <4>1. doomed' = doomed
        BY <2>1, <3>2 DEF Exists
      <4> QED
        BY <2>1, <3>1, <4>1 DEF Box!vars
    <3>3. CASE Exists(ws) /\ ws'.deleting = TRUE
      <4>1. doomed' = TRUE
        BY <2>1, <3>3 DEF Exists
      <4> QED
        BY <2>1, <3>1, <3>3, <4>1 DEF Box!Next, Box!Condemn, Exists
    <3>4. CASE Exists(ws) /\ ws' = NoWorkspace
      BY <2>1, <3>4, NoWorkspaceType DEF Exists
    <3>5. CASE \E s \in Specs : CreateWorkspace(s)
      BY <1>a, <2>1, <3>5 DEF CreateWorkspace
    <3> QED
      BY <1>1, <3>2, <3>3, <3>4, <3>5 DEF WsStep
  <2>2. CASE lastUid' = lastUid /\ Exists(ws) /\ ws' = NoWorkspace /\ (ws.deleting \/ ~ws.finalizer)
    <3>1. ws'.uid = 0 /\ doomed' = FALSE /\ standing' = {} /\ open' = FALSE
      BY <2>2, NoWorkspaceType DEF Exists
    <3>2. ~ws.finalizer => standing = {} /\ ~open
      BY <1>b, <2>2 DEF BoxInv, FinalizerFirst
    <3> QED
      BY <2>2, <3>1, <3>2 DEF Box!Next, Box!End, Exists
  <2>3. ASSUME NEW s \in Specs, CreateWorkspace(s)
        PROVE  Box!Create
    <3>1. ws.uid = 0 /\ ws'.uid = lastUid + 1 /\ lastUid' = lastUid + 1
      <4>1. ws.uid = 0 /\ lastUid' = lastUid + 1 /\ ws' = NewWorkspace(lastUid + 1, s)
        BY <2>3 DEF CreateWorkspace, Exists
      <4>2. lastUid + 1 \in Nat /\ s \in Specs \cup {NoSpec}
        BY <1>a
      <4>3. NewWorkspace(lastUid + 1, s).uid = lastUid + 1
        BY <4>2, NewWorkspaceType
      <4> QED
        BY <4>1, <4>3
    <3>2. doomed = FALSE /\ doomed' = FALSE
      BY <2>3, <3>1 DEF Exists, CreateWorkspace, NewWorkspace
    <3>3. standing = {} /\ ~open
      BY <3>1 DEF Exists
    <3>4. standing' = {} /\ ~open'
      BY <1>a, <1>b, <2>a, <3>1 DEF BoxInv, OwnersInv, OwnersInOrder
    <3> QED
      BY <3>1, <3>2, <3>3, <3>4 DEF Box!Create
  <2> QED
    BY <1>1, <2>1, <2>2, <2>3 DEF WsStep, Box!Next
<1>2. CASE PodStep
  <2>a. /\ ws' = ws /\ lastUid' = lastUid
        /\ standing' = standing /\ doomed' = doomed
    BY <1>2 DEF PodStep
  <2>1. CASE open' = open
    BY <2>a, <2>1 DEF Box!vars
  <2>2. CASE ~open'
    BY <2>a, <2>2 DEF Box!Next, Box!Close
  <2>3. CASE open' /\ ~open
    <3>1. Exists(ws) /\ pc = "pod" /\ obj.uid = ws.uid
      BY <1>2, <2>a, <2>3 DEF PodStep, Exists
    <3>2. standing = Guards
      BY <1>b, <3>1 DEF BoxInv, OwnersInv, OwnersInOrder, Passed
    <3> QED
      BY <2>a, <2>3, <3>1, <3>2 DEF Box!Next, Box!Open, Exists
  <2> QED
    BY <2>1, <2>2, <2>3
<1>3. CASE ChildStep
  <2>a. /\ ws' = ws /\ lastUid' = lastUid /\ pod' = pod
        /\ open' = open /\ doomed' = doomed
    BY <1>3 DEF ChildStep
  <2> PICK k \in Kinds :
        /\ \A j \in Kinds : j # k => child'[j].owner = child[j].owner
        /\ \/ child'[k].owner = child[k].owner
           \/ child'[k].owner = 0 /\ child[k].owner # ws.uid
           \/ Ensuring /\ child'[k].owner = obj.uid
    BY <1>3 DEF ChildStep
  <2>1. Exists(ws) /\ child[k].owner = ws.uid => child'[k].owner = ws.uid
    BY <1>a DEF BoxInv, OwnersInv, OwnersInOrder, Exists
  <2>2. CASE standing' = standing
    BY <2>a, <2>2 DEF Box!vars
  <2>3. CASE standing' # standing
    <3>1. standing' = standing \cup {k} /\ k \in Guards /\ Exists(ws)
      BY <1>b, <2>a, <2>1, <2>3
    <3> QED
      BY <2>a, <3>1 DEF Box!Next, Box!Raise, Exists
  <2> QED
    BY <2>2, <2>3
<1> QED
  BY <1>1, <1>2, <1>3 DEF ObjectStep

(* Nothing is built before the finalizer is on, as long as Reconcile only    *)
(* goes on with the Workspace it is ensuring objects for.                    *)
LEMMA ObjectStepFinalizer ==
    ASSUME BoxInv, ObjectStep, cachedWs' = cachedWs,
           Ensuring' => Ensuring /\ obj'.uid = obj.uid
    PROVE  FinalizerFirst'
<1>a. /\ ws.uid \in Nat /\ lastUid \in Nat /\ obj.uid \in Nat /\ pod.owner \in Nat
      /\ cachedWs.uid \in Nat
      /\ \A k \in Kinds : child[k].owner \in Nat
  BY OwnersAreNumbers DEF BoxInv, OwnersInv
<1>1. CASE WsStep
  <2>1. CASE ws'.uid = ws.uid /\ (ws.finalizer => ws'.finalizer)
    BY <1>1, <2>1 DEF WsStep, BoxInv, FinalizerFirst, Exists
  <2>2. CASE ws' = NoWorkspace
    BY <2>2, NoWorkspaceType DEF FinalizerFirst, Exists
  <2>3. ASSUME NEW s \in Specs, CreateWorkspace(s)
        PROVE  FinalizerFirst'
    <3>1. ws'.uid = lastUid + 1
      BY <1>a, <2>3, NewWorkspaceType DEF CreateWorkspace
    <3>2. /\ pod'.owner # ws'.uid /\ cachedWs'.uid # ws'.uid /\ obj.uid # ws'.uid
          /\ \A k \in Kinds : child'[k].owner # ws'.uid
      BY <1>1, <1>a, <3>1 DEF WsStep, BoxInv, OwnersInv, OwnersInOrder
    <3> QED
      BY <3>2 DEF FinalizerFirst
  <2> QED
    BY <1>1, <2>1, <2>2, <2>3 DEF WsStep
<1>2. CASE PodStep
  BY <1>2 DEF PodStep, BoxInv, FinalizerFirst, Exists, Ensuring
<1>3. CASE ChildStep
  <2> PICK k \in Kinds :
        /\ \A j \in Kinds : j # k => child'[j].owner = child[j].owner
        /\ \/ child'[k].owner = child[k].owner
           \/ child'[k].owner = 0 /\ child[k].owner # ws.uid
           \/ Ensuring /\ child'[k].owner = obj.uid
    BY <1>3 DEF ChildStep
  <2>1. ws' = ws /\ pod' = pod
    BY <1>3 DEF ChildStep
  <2>2. ASSUME Exists(ws), NEW j \in Kinds, child'[j].owner = ws.uid
        PROVE  ws.finalizer
    BY <2>2 DEF BoxInv, FinalizerFirst, Exists
  <2> QED
    BY <2>1, <2>2 DEF BoxInv, FinalizerFirst
<1> QED
  BY <1>1, <1>2, <1>3 DEF ObjectStep

(* No step of Reconcile but the first leads to the removal of the finalizer. *)
LEMMA ReconcileNextRemoves ==
    ASSUME BoxInv, ReconcileNext, ~Reconcile
    PROVE  RemovesDeleted'
<1>1. ASSUME NEW r, Finish(r)
      PROVE  RemovesDeleted'
  BY <1>1 DEF Finish, RemovesDeleted
<1>2. ASSUME NEW s, NEW r, Report(s, r)
      PROVE  RemovesDeleted'
  BY <1>2 DEF Report, RemovesDeleted
<1>3. CASE ReconcileUnread
  BY <1>3 DEF ReconcileUnread, localVars, BoxInv, RemovesDeleted, Exists
<1>4. CASE AddFinalizer \/ reconcileDelete \/ updateStatus
  BY <1>1, <1>4 DEF AddFinalizer, reconcileDelete, updateStatus
<1>5. CASE EnsureGuard
  <2>1. NextGuard => pc' # "removeFinalizer"
    BY <1>5 DEF EnsureGuard, NextGuard, Continue
  <2> QED
    BY <1>2, <1>5, <2>1 DEF EnsureGuard, RemovesDeleted
<1>6. CASE EnsurePVC \/ EnsureService
  BY <1>2, <1>6 DEF EnsurePVC, EnsureService, Continue, RemovesDeleted
<1>7. CASE EnsurePod
  BY <1>1, <1>2, <1>7 DEF EnsurePod, RemovesDeleted
<1>8. CASE SeedLastAccessed \/ PatchSeed
  BY <1>1, <1>8 DEF SeedLastAccessed, PatchSeed, RemovesDeleted
<1>9. CASE StopIdle \/ ObservePod
  BY <1>1, <1>2, <1>9 DEF StopIdle, ObservePod
<1> QED
  BY <1>3, <1>4, <1>5, <1>6, <1>7, <1>8, <1>9 DEF ReconcileNext

(* The invariant is preserved, and every step is one of the sandbox.         *)
LEMMA BoxInvNext ==
    ASSUME BoxInv, [Next]_vars
    PROVE  BoxInv' /\ [Box!Next]_(Box!vars)
<1>a. OwnersInv'
  BY OwnersInvNext DEF BoxInv
<1>b. ASSUME ObjectStep, cachedWs' = cachedWs, UNCHANGED localVars
      PROVE  BoxInv' /\ [Box!Next]_(Box!vars)
  <2>1. pc' = pc /\ obj' = obj
    BY <1>b DEF localVars
  <2>2. FinalizerFirst'
    BY <1>b, <2>1, ObjectStepFinalizer DEF Ensuring
  <2>3. RemovesDeleted'
    BY <2>1 DEF BoxInv, RemovesDeleted, Exists
  <2> QED
    BY <1>a, <1>b, <2>2, <2>3, ObjectStepInBox DEF BoxInv
<1>1. CASE ClusterNext /\ Watches
  BY <1>1, <1>b, ClusterNextObjects DEF Watches, cacheVars
<1>2. CASE GatewayNext /\ Watches
  BY <1>2, <1>b, GatewayNextObjects DEF Watches, cacheVars
<1>3. CASE UNCHANGED vars \/ TimerFires \/ Resync
  <2>1. UNCHANGED <<ws, pod, child, lastUid>> /\ cachedWs' = cachedWs /\ UNCHANGED localVars
    BY <1>3 DEF vars, clusterVars, operatorVars, cacheVars, TimerFires, Resync
  <2> QED
    BY <1>b, <2>1, StillStep
<1>4. ASSUME UNCHANGED <<ws, pod, child, lastUid>>, cachedWs' \in {cachedWs, ws},
             UNCHANGED localVars \/ pc' = "idle"
      PROVE  BoxInv' /\ [Box!Next]_(Box!vars)
  <2>1. (pc' = pc /\ obj' = obj) \/ pc' = "idle"
    BY <1>4 DEF localVars
  <2>2. FinalizerFirst'
    BY <1>4, <2>1 DEF BoxInv, FinalizerFirst, Ensuring, Exists
  <2>3. RemovesDeleted'
    BY <2>1 DEF BoxInv, RemovesDeleted, Exists
  <2> QED
    BY <1>a, <1>4, <2>2, <2>3, StillStep, ObjectStepInBox DEF BoxInv
<1>5. ASSUME NEW x \in Watched, SeeEvent(x)
      PROVE  BoxInv' /\ [Box!Next]_(Box!vars)
  BY <1>4, <1>5 DEF SeeEvent, clusterVars
<1>6. CASE Restart
  BY <1>4, <1>6 DEF Restart
<1>7. CASE ReconcileNext /\ ~Reconcile
  <2>1. ObjectStep /\ OwnerStep /\ RemovesDeleted'
    BY <1>7, ReconcileNextObjects, ReconcileNextOwners, ReconcileNextRemoves DEF BoxInv
  <2>2. FinalizerFirst'
    BY <2>1, ObjectStepFinalizer DEF OwnerStep
  <2> QED
    BY <1>a, <2>1, <2>2, ObjectStepInBox DEF BoxInv
<1>8. CASE Reconcile
  <2>1. /\ ws' = ws /\ pod' = pod /\ child' = child /\ lastUid' = lastUid
        /\ cachedWs' = cachedWs /\ pc' = FirstStep(cachedWs)
        /\ pc' # "idle" => obj' = cachedWs
    BY <1>8 DEF Reconcile, clusterVars, cacheVars
  <2>2. /\ pc' = "ensure" => cachedWs.finalizer
        /\ pc' = "removeFinalizer" => Exists(cachedWs) /\ cachedWs.deleting
        /\ pc' \notin {"pvc", "pod", "service"}
    BY <2>1 DEF FirstStep, Deleted
  <2>3. FinalizerFirst'
    BY <2>1, <2>2 DEF BoxInv, FinalizerFirst, Ensuring
  <2>4. RemovesDeleted'
    BY <2>1, <2>2 DEF RemovesDeleted
  <2> QED
    BY <1>a, <2>1, <2>3, <2>4, StillStep, ObjectStepInBox DEF BoxInv
<1> QED
  BY <1>1, <1>2, <1>3, <1>5, <1>6, <1>7, <1>8 DEF Next, OperatorNext

(* At the start there is no sandbox, or one of which nothing stands.         *)
LEMMA BoxInvInit ==
    ASSUME Init
    PROVE  BoxInv /\ Box!Init
<1>a. OwnersInv
  BY OwnersInvInit
<1>1. /\ ws.uid = lastUid /\ lastUid \in Nat /\ cachedWs.uid = 0
      /\ pod.owner = 0 /\ pc = "idle"
  BY <1>a, NoWorkspaceType, NoObjects
  DEF Init, ClusterInit, OperatorInit, OwnersInv, TypeOK, ClusterTypeOK
<1>2. \A k \in Kinds : child[k].owner = 0
  BY DEF Init, ClusterInit, NoChild, Child
<1>3. BoxInv
  BY <1>a, <1>1, <1>2 DEF BoxInv, FinalizerFirst, RemovesDeleted, Exists, Ensuring
<1>4. Guards \subseteq Kinds
  BY DEF Kinds
<1>5. ws.deleting \in BOOLEAN
  BY <1>a DEF OwnersInv, TypeOK, ClusterTypeOK, Workspaces
<1>6. {k \in Guards : Exists(ws) /\ child[k].owner = ws.uid} = {}
  BY <1>1, <1>2, <1>4 DEF Exists
<1> QED
  BY <1>1, <1>3, <1>5, <1>6 DEF Box!Init, Exists

(* Nothing is made for a Workspace before Reconcile has put its finalizer    *)
(* on, so none ends with something built for it unless it was deleted.       *)
THEOREM FinalizerAlwaysFirst == Spec => []FinalizerFirst
<1>1. Init => BoxInv
  BY BoxInvInit
<1>2. BoxInv /\ [Next]_vars => BoxInv'
  BY BoxInvNext
<1>3. BoxInv => FinalizerFirst
  BY DEF BoxInv
<1> QED
  BY <1>1, <1>2, <1>3, PTL DEF Spec

(* The operator, the gateway and the cluster around them, whatever fails,    *)
(* implement the sandbox.                                                    *)
THEOREM DevPlaneImplementsSandbox == Spec => ImplementsSandbox
<1>1. Init => BoxInv /\ Box!Init
  BY BoxInvInit
<1>2. BoxInv /\ [Next]_vars => BoxInv' /\ [Box!Next]_(Box!vars)
  BY BoxInvNext
<1> QED
  BY <1>1, <1>2, PTL DEF Spec, ImplementsSandbox, Box!Spec

=============================================================================

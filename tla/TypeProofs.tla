----------------------------- MODULE TypeProofs -----------------------------
(* Type correctness of DevPlane, for every value of its constants.           *)
EXTENDS DevPlane, TLAPS

-----------------------------------------------------------------------------
(* Types of the operators of Workspace.                                      *)

(* A merge patch of a status is a status.                                    *)
LEMMA MergePatchType ==
    ASSUME NEW server \in Status, NEW base \in Status, NEW new \in Status
    PROVE  MergePatch(server, base, new) \in Status
BY DEF MergePatch, Status

(* A merge patch that leaves lastAccessed alone keeps the server's.          *)
LEMMA MergePatchKeeps ==
    ASSUME NEW server \in Status, NEW base \in Status, NEW new \in Status,
           new.lastAccessed = base.lastAccessed
    PROVE  MergePatch(server, base, new).lastAccessed = server.lastAccessed
BY DEF MergePatch, Status

(* Conditions and summaries are what updateStatus takes.                     *)
LEMMA ConditionType ==
    ASSUME NEW reason \in Reasons
    PROVE  Condition(reason) \in Conditions
BY DEF Condition, Conditions, Causes

(* ErrorDetailsFor gives a Ready condition for every stage and class.        *)
LEMMA ErrorDetailsType ==
    ASSUME NEW stage \in StageReasons, NEW class \in ErrorClasses \cup {Conflict}
    PROVE  ErrorDetailsFor(stage, class) \in Conditions
BY DEF ErrorDetailsFor, Conditions, Causes, Reasons

(* A summary made of typed parts is a StatusSummary.                         *)
LEMMA SummaryType ==
    ASSUME NEW phase \in Phases, NEW podName \in BOOLEAN, NEW endpoint \in BOOLEAN,
           NEW ready \in Conditions
    PROVE  Summary(phase, podName, endpoint, ready) \in Summaries
BY DEF Summary, Summaries

(* So is the summary of a Workspace that is still Creating.                  *)
LEMMA ProgressingType ==
    ASSUME NEW w \in Workspaces, NEW ready \in Conditions
    PROVE  Progressing(w, ready) \in Summaries
BY DEF Progressing, Summary, Summaries, Workspaces, Status, Phases

(* So is the summary of a Failed Workspace.                                  *)
LEMMA FailedType ==
    ASSUME NEW podName \in BOOLEAN, NEW ready \in Conditions
    PROVE  Failed(podName, ready) \in Summaries
BY DEF Failed, Summary, Summaries, Phases

(* So is the empty summary between two reconciles.                           *)
LEMMA NoSummaryType == NoSummary \in Summaries
BY DEF NoSummary, Summary, Summaries, Phases, Condition, Conditions, Causes, Reasons

(* ApplyStatusSummary makes a status and does not touch lastAccessed.        *)
LEMMA ApplyStatusSummaryType ==
    ASSUME NEW st \in Status, NEW s \in Summaries
    PROVE  /\ ApplyStatusSummary(st, s) \in Status
           /\ ApplyStatusSummary(st, s).lastAccessed = st.lastAccessed
BY DEF ApplyStatusSummary, Status, Summaries

(* The empty status of a new Workspace is a status.                          *)
LEMMA NewStatusType == NewStatus \in Status
BY DEF NewStatus, Status, Phases, Condition, Conditions, Causes, Reasons

(* A Workspace just created has the uid the server gave it.                  *)
LEMMA NewWorkspaceType ==
    ASSUME NEW uid \in Nat, NEW spec \in Specs \cup {NoSpec}
    PROVE  /\ NewWorkspace(uid, spec) \in Workspaces
           /\ NewWorkspace(uid, spec).uid = uid
BY NewStatusType DEF NewWorkspace, Workspaces

(* The absent Workspace has uid 0.                                           *)
LEMMA NoWorkspaceType == NoWorkspace \in Workspaces /\ NoWorkspace.uid = 0
BY NewWorkspaceType DEF NoWorkspace

(* Reconcile starts with one of five steps.                                  *)
LEMMA FirstStepType ==
    ASSUME NEW w \in Workspaces
    PROVE  FirstStep(w) \in {"idle", "removeFinalizer", "status", "addFinalizer", "ensure"}
BY DEF FirstStep

(* Absent pods, claims and children have their types.                        *)
LEMMA NoObjects ==
    /\ NoPod \in Pods /\ NoPod.owner = 0
    /\ NoPVC \in PVCs
    /\ [k \in Kinds |-> NoChild] \in Children
BY DEF NoPod, Pod, Pods, PodStates, NoPVC, PVCs, NoChild, Child, Children

(* BuildPod makes a pod owned by the Workspace it is for.                    *)
LEMMA NewPodType ==
    ASSUME NEW uid \in Nat, NEW img \in Images
    PROVE  Pod(uid, img, "Pending") \in Pods /\ Pod(uid, img, "Pending").owner = uid
BY DEF Pod, Pods, PodStates

-----------------------------------------------------------------------------
(* Type correctness.                                                         *)

(* The API server's writes keep the Workspace a Workspace.                   *)
LEMMA PatchStatusType ==
    ASSUME ws \in Workspaces, NEW base \in Status, NEW new \in Status,
           PatchStatus(base, new)
    PROVE  /\ ws' \in Workspaces
           /\ ws'.uid = ws.uid
           /\ ws'.status.lastAccessed = MergePatch(ws.status, base, new).lastAccessed
<1>1. ws.status \in Status
  BY DEF Workspaces
<1>2. MergePatch(ws.status, base, new) \in Status
  BY <1>1, MergePatchType
<1> QED
  BY <1>2 DEF PatchStatus, Workspaces

(* Creation by the gateway gives a Workspace.                                *)
LEMMA CreateWorkspaceType ==
    ASSUME lastUid \in Nat, NEW s \in Specs, CreateWorkspace(s)
    PROVE  ws' \in Workspaces /\ lastUid' \in Nat
BY NewWorkspaceType DEF CreateWorkspace

(* Deleting a pod leaves its owner alone.                                    *)
LEMMA DeletePodType ==
    ASSUME pod \in Pods, DeletePod
    PROVE  pod' \in Pods /\ pod'.owner = pod.owner
BY DEF DeletePod, Pods

(* The steps of the cluster keep its types.                                  *)
LEMMA ClusterNextType ==
    ASSUME ClusterTypeOK, ClusterNext
    PROVE  ClusterTypeOK'
<1> USE DEF ClusterTypeOK
<1>1. CASE PodStarts
  BY <1>1 DEF PodStarts, Pods, PodStates
<1>2. CASE PodGone
  BY <1>2, NoObjects DEF PodGone
<1>3. CASE PodDisturbed
  <2>1. budget' \in Nat
    BY <1>3 DEF PodDisturbed, Disrupt
  <2>2. pod' \in Pods
    <3>1. CASE \E s \in PodFailures \cup {"Pending"} : pod' = [pod EXCEPT !.state = s]
      BY <3>1 DEF Pods, PodStates
    <3>2. CASE DeletePod
      BY <3>2, DeletePodType
    <3> QED
      BY <3>1, <3>2, <1>3 DEF PodDisturbed
  <2> QED
    BY <1>3, <2>1, <2>2 DEF PodDisturbed
<1>4. CASE VolumeLost
  <2>1. pvc' \in PVCs
    BY <1>4 DEF VolumeLost, PVCs
  <2> QED
    BY <1>4, <2>1 DEF VolumeLost, Disrupt
<1>5. ASSUME NEW k \in Kinds, CollectChild(k)
      PROVE  ClusterTypeOK'
  BY <1>5 DEF CollectChild, Children, NoChild, Child
<1>6. CASE CollectPod
  BY <1>6, DeletePodType DEF CollectPod
<1>7. CASE CollectPVC
  BY <1>7, NoObjects DEF CollectPVC
<1>8. CASE UserDeletes
  <2>1. ws' \in Workspaces
    BY <1>8, NoWorkspaceType DEF UserDeletes, Workspaces
  <2> QED
    BY <1>8, <2>1 DEF UserDeletes, Disrupt
<1>9. CASE UserEdits
  BY <1>9 DEF UserEdits, Disrupt, Workspaces
<1>10. CASE Tick
  BY <1>10 DEF Tick
<1> QED
  BY <1>1, <1>2, <1>3, <1>4, <1>5, <1>6, <1>7, <1>8, <1>9, <1>10 DEF ClusterNext

(* Where a request goes on, the types of the gateway are kept.               *)
LEMMA GoesType ==
    ASSUME GatewayTypeOK, NEW r \in Requests, NEW next \in RequestPCs,
           NEW st \in Status, Goes(r, next)
    PROVE  /\ rpc' \in [Requests -> RequestPCs]
           /\ Holds(r, st) => copy' \in [Requests -> Status]
BY DEF GatewayTypeOK, Goes, Holds

(* Answering a request keeps the types of the gateway.                       *)
LEMMA AnswerType ==
    ASSUME GatewayTypeOK, NEW r \in Requests, Answer(r)
    PROVE  GatewayTypeOK'
BY NewStatusType, GoesType DEF GatewayTypeOK, Answer, Goes, Holds, RequestPCs

(* Clearing the phase to wake a Workspace does not touch lastAccessed.       *)
LEMMA ClearedType ==
    ASSUME NEW st \in Status
    PROVE  Cleared(st) \in Status /\ Cleared(st).lastAccessed = st.lastAccessed
BY DEF Cleared, Status, Phases

(* Taking a stamp keeps the types of the gateway.                            *)
LEMMA StampsType ==
    ASSUME GatewayTypeOK, now \in Nat, NEW r \in Requests, NEW last, Stamps(r, last)
    PROVE  GatewayTypeOK'
<1>1. [NewStatus EXCEPT !.lastAccessed = now] \in Status
  BY NewStatusType DEF Status
<1>2. (IF last = now THEN "session" ELSE "stamp") \in RequestPCs
  BY DEF RequestPCs
<1> QED
  BY <1>1, <1>2, GoesType DEF Stamps, GatewayTypeOK

(* Every step of a request keeps the types.                                  *)
LEMMA GatewayNextType ==
    ASSUME ClusterTypeOK, GatewayTypeOK, GatewayNext
    PROVE  ClusterTypeOK' /\ GatewayTypeOK'
<1> PICK r \in Requests :
        \/ Arrive(r) \/ RequestFails(r) \/ RequestNext(r)
        \/ GiveUp(r) \/ TouchLastAccessed(r) \/ SessionEnds(r)
  BY DEF GatewayNext
<1>a. copy[r] \in Status /\ ws.status \in Status /\ NewStatus \in Status
  BY NewStatusType DEF GatewayTypeOK, ClusterTypeOK, Workspaces
<1>b. Cleared(copy[r]) \in Status
  BY <1>a, ClearedType
<1>c. ASSUME UNCHANGED clusterVars
      PROVE  ClusterTypeOK'
  BY <1>c DEF clusterVars, ClusterTypeOK
<1>d. ASSUME NEW next \in RequestPCs, Goes(r, next), UNCHANGED copy
      PROVE  GatewayTypeOK'
  BY <1>d, <1>a, GoesType DEF GatewayTypeOK
<1>e. ASSUME NEW next \in RequestPCs, Goes(r, next), NEW st \in Status, Holds(r, st)
      PROVE  GatewayTypeOK'
  BY <1>e, GoesType DEF GatewayTypeOK
<1>f. ASSUME ws' \in Workspaces, lastUid' \in Nat, budget' \in Nat,
             UNCHANGED <<pod, pvc, child, now>>
      PROVE  ClusterTypeOK'
  BY <1>f DEF ClusterTypeOK
<1>g. ASSUME NEW kind, Disrupt(kind)
      PROVE  budget' \in Nat
  BY <1>g DEF Disrupt, ClusterTypeOK
<1>h. ASSUME \E s \in ClaimSpecs : CreateWorkspace(s)
      PROVE  ws' \in Workspaces /\ lastUid' \in Nat
  BY <1>h, CreateWorkspaceType, GatewayAssumption DEF ClusterTypeOK
<1>i. ASSUME PatchStatus(copy[r], Cleared(copy[r]))
      PROVE  ws' \in Workspaces
  BY <1>i, <1>a, <1>b, PatchStatusType DEF ClusterTypeOK
<1>1. CASE Arrive(r)
  BY <1>1, <1>c, <1>d DEF Arrive, RequestPCs
<1>2. CASE RequestFails(r)
  <2>1. ws' \in Workspaces /\ lastUid' \in Nat
    BY <1>2, <1>h, <1>i DEF RequestFails, ClusterTypeOK
  <2> QED
    BY <1>2, <2>1, <1>f, <1>g, AnswerType DEF RequestFails
<1>3. CASE RequestNext(r)
  <2>1. CASE PageGet(r)
    BY <2>1, <1>a, <1>c, <1>d, <1>e, AnswerType DEF PageGet, RequestPCs
  <2>2. CASE PageCreate(r)
    <3>1. ws' \in Workspaces /\ lastUid' \in Nat
      BY <2>2, <1>h DEF PageCreate, ClusterTypeOK
    <3> QED
      BY <2>2, <3>1, <1>f, AnswerType DEF PageCreate, ClusterTypeOK
  <2>3. CASE PageClear(r)
    <3>1. ws' \in Workspaces
      BY <2>3, <1>i DEF PageClear, ClusterTypeOK
    <3> QED
      BY <2>3, <3>1, <1>f, AnswerType DEF PageClear, ClusterTypeOK
  <2>4. CASE Get(r)
    BY <2>4, <1>c, <1>d DEF Get, RequestPCs
  <2>5. CASE Create(r)
    <3>1. ws' \in Workspaces /\ lastUid' \in Nat
      BY <2>5, <1>h DEF Create, ClusterTypeOK
    <3> QED
      BY <2>5, <3>1, <1>d, <1>f, AnswerType DEF Create, ClusterTypeOK, RequestPCs
  <2>6. CASE Poll(r)
    <3>1. GatewayTypeOK'
      BY <2>6, <1>a, <1>d, <1>e, AnswerType, StampsType DEF Poll, RequestPCs, ClusterTypeOK
    <3> QED
      BY <2>6, <3>1, <1>c DEF Poll
  <2>7. CASE Clear(r)
    <3>1. ws' \in Workspaces
      BY <2>7, <1>i DEF Clear, ClusterTypeOK
    <3>2. GatewayTypeOK'
      BY <2>7, <1>a, <1>e, AnswerType DEF Clear, RequestPCs
    <3> QED
      BY <2>7, <3>1, <3>2, <1>f DEF Clear, ClusterTypeOK
  <2>8. CASE PollAgain(r)
    BY <2>8, <1>c, <1>d DEF PollAgain, RequestPCs
  <2>9. CASE Stamp(r)
    <3>1. PatchStatus(NewStatus, copy[r]) => ws' \in Workspaces
      BY <1>a, PatchStatusType DEF ClusterTypeOK
    <3>2. ws' \in Workspaces /\ budget' \in Nat
      BY <2>9, <3>1, <1>g DEF Stamp, ClusterTypeOK
    <3>3. GatewayTypeOK'
      BY <2>9, <1>d DEF Stamp, RequestPCs
    <3> QED
      BY <2>9, <3>2, <3>3, <1>f DEF Stamp, ClusterTypeOK
  <2> QED
    BY <1>3, <2>1, <2>2, <2>3, <2>4, <2>5, <2>6, <2>7, <2>8, <2>9 DEF RequestNext
<1>4. CASE GiveUp(r)
  BY <1>4, <1>c, AnswerType DEF GiveUp
<1>5. CASE TouchLastAccessed(r)
  BY <1>5, <1>c, StampsType DEF TouchLastAccessed, ClusterTypeOK
<1>6. CASE SessionEnds(r)
  BY <1>6, <1>c, AnswerType DEF SessionEnds
<1> QED
  BY <1>1, <1>2, <1>3, <1>4, <1>5, <1>6

(* Where Reconcile goes on, its local variables keep their types.            *)
LocalTypeOK ==
    /\ timer \in BOOLEAN
    /\ pc \in PCs
    /\ at \in 1..Len(GuardSeq)
    /\ obj \in Workspaces
    /\ seen \in Pods
    /\ sum \in Summaries
    /\ result \in Results

(* There is a first guard.                                                   *)
LEMMA GuardsNonEmpty == Len(GuardSeq) \in Nat /\ 1 \in 1..Len(GuardSeq)
BY ClusterAssumption

(* Returning from Reconcile keeps the types of its variables.                *)
LEMMA FinishType ==
    ASSUME LocalTypeOK, NEW r \in Results, Finish(r)
    PROVE  LocalTypeOK'
BY GuardsNonEmpty, NoWorkspaceType, NoObjects, NoSummaryType
   DEF LocalTypeOK, Finish, PCs, Results

(* So does a call of updateStatus.                                           *)
LEMMA ReportType ==
    ASSUME LocalTypeOK, NEW s \in Summaries, NEW r \in Results, Report(s, r)
    PROVE  LocalTypeOK'
BY GuardsNonEmpty, NoObjects DEF LocalTypeOK, Report, PCs

(* So does going on to the next stage.                                       *)
LEMMA ContinueType ==
    ASSUME LocalTypeOK, NEW next \in PCs, Continue(next)
    PROVE  LocalTypeOK'
BY GuardsNonEmpty DEF LocalTypeOK, Continue

(* Watch events concern watched objects.                                     *)
LEMMA NotifyType ==
    ASSUME unseen \subseteq Watched, Notify
    PROVE  unseen' \subseteq Watched
BY DEF Notify, Watched

(* A write of Reconcile to a child or to the Workspace keeps the types.      *)
LEMMA DesiredType ==
    ASSUME obj \in Workspaces, NEW k \in Kinds
    PROVE  Desired(k) \in [owner: Nat, spec: Specs \cup {NoSpec}] /\ Desired(k).owner = obj.uid
BY DEF Desired, Child, Workspaces

(* A create or update that succeeds leaves typed children.                   *)
LEMMA WrittenType ==
    ASSUME obj \in Workspaces, child \in Children, NEW k \in Kinds, Written(k)
    PROVE  child' \in Children
BY DesiredType DEF Written, Children

(* So does CreateOrUpdate, whether it succeeds or fails.                     *)
LEMMA CreateOrUpdateType ==
    ASSUME ClusterTypeOK, obj \in Workspaces, NEW k \in Kinds,
           \/ CreateOrUpdateOk(k)
           \/ \E class \in Refusals : CreateOrUpdateErr(k, class)
    PROVE  child' \in Children /\ budget' \in Nat
<1>1. Written(k) => child' \in Children
  BY WrittenType DEF ClusterTypeOK
<1> QED
  BY <1>1 DEF CreateOrUpdateOk, CreateOrUpdateErr, Disrupt, ClusterTypeOK

(* Update leaves a Workspace, whether it succeeds or fails.                  *)
LEMMA UpdateType ==
    ASSUME ClusterTypeOK, NEW new \in Workspaces,
           (UpdateOk(new) /\ UNCHANGED budget) \/ UpdateErr(new)
    PROVE  ws' \in Workspaces /\ budget' \in Nat
BY DEF UpdateOk, UpdateErr, Disrupt, ClusterTypeOK

(* Every step of Reconcile keeps the types.                                  *)
LEMMA ReconcileNextType ==
    ASSUME ClusterTypeOK, OperatorTypeOK, ReconcileNext
    PROVE  ClusterTypeOK' /\ LocalTypeOK' /\ queued' \in BOOLEAN
           /\ UNCHANGED <<cacheVars, image>>
<1>a. LocalTypeOK
  BY DEF OperatorTypeOK, LocalTypeOK
<1>b. {"done", "after", "error"} = Results /\ "done" \in Results
      /\ "after" \in Results /\ "error" \in Results
  BY DEF Results
<1>c. ASSUME NEW stage \in StageReasons, NEW class \in Refusals
      PROVE  /\ Progressing(obj, ErrorDetailsFor(stage, class)) \in Summaries
             /\ Failed(FALSE, ErrorDetailsFor(stage, class)) \in Summaries
  BY <1>a, <1>c, ErrorDetailsType, ProgressingType, FailedType DEF LocalTypeOK, Refusals
<1>d. ASSUME NEW kind, Disrupt(kind)
      PROVE  budget' \in Nat
  BY <1>d DEF Disrupt, ClusterTypeOK
<1>e. ErrorClasses \subseteq Refusals
  BY DEF Refusals
<1>1. CASE Reconcile
  <2>1. Condition("ValidationFailed") \in Conditions
    BY ConditionType DEF Reasons
  <2>2. pc' \in PCs
    BY <1>1, FirstStepType DEF Reconcile, OperatorTypeOK, PCs
  <2>3. obj' \in Workspaces /\ sum' \in Summaries
    BY <1>1, <2>1, NoWorkspaceType, NoSummaryType, FailedType DEF Reconcile, OperatorTypeOK
  <2>4. queued' \in BOOLEAN
    BY <1>1 DEF Reconcile
  <2>5. UNCHANGED <<timer, seen, result>> /\ at' = 1
    BY <1>1 DEF Reconcile
  <2>6. LocalTypeOK'
    BY <1>a, <2>2, <2>3, <2>5, GuardsNonEmpty DEF LocalTypeOK
  <2> QED
    BY <1>1, <2>4, <2>6 DEF Reconcile, ClusterTypeOK, clusterVars, cacheVars
<1>2. CASE ReconcileUnread
  <2>1. LocalTypeOK'
    BY <1>2, <1>a DEF ReconcileUnread, LocalTypeOK, localVars
  <2> QED
    BY <1>2, <1>d, <2>1 DEF ReconcileUnread, ClusterTypeOK, cacheVars
<1>3. CASE AddFinalizer
  <2>1. [obj EXCEPT !.finalizer = TRUE] \in Workspaces
    BY <1>a DEF LocalTypeOK, Workspaces
  <2>2. ws' \in Workspaces /\ budget' \in Nat
    BY <1>3, <2>1, UpdateType DEF AddFinalizer
  <2>3. LocalTypeOK'
    BY <1>3, <1>a, <1>b, FinishType DEF AddFinalizer
  <2> QED
    BY <1>3, <2>2, <2>3 DEF AddFinalizer, ClusterTypeOK, OperatorTypeOK
<1>4. CASE reconcileDelete
  <2>1. ws' \in Workspaces /\ budget' \in Nat
    BY <1>4, NoWorkspaceType, UpdateType DEF reconcileDelete
  <2>2. LocalTypeOK'
    BY <1>4, <1>a, <1>b, FinishType DEF reconcileDelete
  <2> QED
    BY <1>4, <2>1, <2>2 DEF reconcileDelete, ClusterTypeOK, OperatorTypeOK
<1>5. CASE EnsureGuard
  <2> DEFINE k == GuardSeq[at]
  <2>1. k \in Kinds
    BY <1>a DEF LocalTypeOK, Kinds, Guards
  <2>2. child' \in Children /\ budget' \in Nat
    BY <1>5, <1>a, <2>1, CreateOrUpdateType DEF EnsureGuard, LocalTypeOK
  <2>3. GuardStage(k) \in StageReasons
    BY DEF GuardStage, StageReasons
  <2>4. NextGuard => LocalTypeOK'
    <3>1. CASE at < Len(GuardSeq)
      BY <3>1, <1>a, GuardsNonEmpty DEF NextGuard, LocalTypeOK
    <3>2. CASE ~(at < Len(GuardSeq))
      BY <3>2, <1>a, ContinueType DEF NextGuard, PCs
    <3> QED
      BY <3>1, <3>2
  <2>5. LocalTypeOK'
    BY <1>5, <1>a, <1>b, <1>c, <2>3, <2>4, ReportType DEF EnsureGuard
  <2> QED
    BY <1>5, <2>2, <2>5 DEF EnsureGuard, ClusterTypeOK, OperatorTypeOK
<1>6. CASE EnsurePVC
  <2>1. CreatePVC => pvc' \in PVCs
    BY <1>a DEF CreatePVC, PVCs, LocalTypeOK, Workspaces
  <2>2. pvc' \in PVCs /\ budget' \in Nat
    BY <1>6, <1>d, <2>1 DEF EnsurePVC, CreatePVCErr, ClusterTypeOK
  <2>3. /\ Failed(FALSE, Condition("PVCLost")) \in Summaries
        /\ Progressing(obj, Condition("Progressing")) \in Summaries
    BY <1>a, ConditionType, FailedType, ProgressingType DEF LocalTypeOK, Reasons
  <2>4. LocalTypeOK'
    BY <1>6, <1>a, <1>b, <1>c, <1>e, <2>3, ReportType, ContinueType
    DEF EnsurePVC, StageReasons, PCs
  <2> QED
    BY <1>6, <2>2, <2>4 DEF EnsurePVC, ClusterTypeOK, OperatorTypeOK
<1>7. CASE EnsurePod
  <2>a. obj.uid \in Nat /\ image \in Images
    BY DEF Workspaces, OperatorTypeOK
  <2>1. CreatePod => pod' \in Pods
    BY <2>a, NewPodType DEF CreatePod
  <2>2. DeletePod => pod' \in Pods
    BY DeletePodType DEF ClusterTypeOK
  <2>3. pod' \in Pods /\ budget' \in Nat
    BY <1>7, <1>d, <2>1, <2>2 DEF EnsurePod, CreatePodErr, DeletePodErr, ClusterTypeOK
  <2>4. ASSUME UNCHANGED <<at, obj, sum, result, timer>>, pc' = "service", seen' = cachedPod
        PROVE  LocalTypeOK'
    BY <1>a, <2>4 DEF LocalTypeOK, OperatorTypeOK, PCs
  <2>5. LocalTypeOK'
    BY <1>7, <1>a, <1>b, <1>c, <1>e, <2>4, ReportType, FinishType
    DEF EnsurePod, StageReasons
  <2> QED
    BY <1>7, <2>3, <2>5 DEF EnsurePod, ClusterTypeOK, OperatorTypeOK
<1>8. CASE EnsureService
  <2>1. child' \in Children /\ budget' \in Nat
    BY <1>8, <1>a, CreateOrUpdateType DEF EnsureService, LocalTypeOK, Kinds
  <2>2. LocalTypeOK'
    BY <1>8, <1>a, <1>b, <1>c, ReportType, ContinueType DEF EnsureService, StageReasons, PCs
  <2> QED
    BY <1>8, <2>1, <2>2 DEF EnsureService, ClusterTypeOK, OperatorTypeOK
<1>9. CASE SeedLastAccessed
  <2>1. obj' \in Workspaces
    BY <1>9, <1>a DEF SeedLastAccessed, LocalTypeOK, ClusterTypeOK, Workspaces, Status
  <2>2. LocalTypeOK'
    BY <1>9, <1>a, <2>1 DEF SeedLastAccessed, LocalTypeOK, PCs
  <2> QED
    BY <1>9, <2>2 DEF SeedLastAccessed, ClusterTypeOK, clusterVars, cacheVars, OperatorTypeOK
<1>10. CASE PatchSeed
  <2> DEFINE base == [obj.status EXCEPT !.lastAccessed = 0]
             patch == PatchStatus(base, obj.status)
  <2>1. obj.status \in Status /\ base \in Status
    BY <1>a DEF LocalTypeOK, Workspaces, Status
  <2>2. patch => ws' \in Workspaces
    BY <2>1, PatchStatusType DEF ClusterTypeOK
  <2>3. ws' \in Workspaces /\ budget' \in Nat
    BY <1>10, <1>d, <2>2 DEF PatchSeed, ClusterTypeOK
  <2>4. [ws' EXCEPT !.spec = obj.spec] \in Workspaces
    BY <1>a, <2>3 DEF LocalTypeOK, Workspaces
  <2>5. LocalTypeOK'
    <3>1. CASE obj' = [ws' EXCEPT !.spec = obj.spec] /\ pc' = "idleCheck"
               /\ UNCHANGED <<at, seen, sum, result, timer>>
      BY <3>1, <1>a, <2>4 DEF LocalTypeOK, PCs
    <3>2. CASE Finish("error")
      BY <3>2, <1>a, <1>b, FinishType
    <3> QED
      BY <1>10, <3>1, <3>2 DEF PatchSeed
  <2> QED
    BY <1>10, <2>3, <2>5 DEF PatchSeed, ClusterTypeOK, OperatorTypeOK
<1>11. CASE StopIdle
  <2>1. pod' \in Pods /\ budget' \in Nat
    BY <1>11, <1>d, DeletePodType DEF StopIdle, DeletePodErr, ClusterTypeOK
  <2>2. Summary("Stopped", FALSE, FALSE, Condition("Stopped")) \in Summaries
    BY ConditionType, SummaryType DEF Phases, Reasons
  <2>3. LocalTypeOK'
    BY <1>11, <1>a, <1>b, <2>2, ReportType, FinishType DEF StopIdle
  <2> QED
    BY <1>11, <2>1, <2>3 DEF StopIdle, ClusterTypeOK, OperatorTypeOK
<1>12. CASE ObservePod
  <2>1. /\ Summary("Running", TRUE, TRUE, Condition("Running")) \in Summaries
        /\ Summary("Creating", TRUE, TRUE, Condition("Progressing")) \in Summaries
    BY ConditionType, SummaryType DEF Phases, Reasons
  <2>2. Failed(TRUE, Condition(PodReason(seen.state))) \in Summaries
    BY ConditionType, FailedType DEF PodReason, Reasons
  <2>3. LookAgain(obj) \in Results
    BY DEF LookAgain, Results
  <2>4. LocalTypeOK'
    BY <1>12, <1>a, <1>b, <2>1, <2>2, <2>3, ReportType DEF ObservePod
  <2> QED
    BY <1>12, <2>4 DEF ObservePod, ClusterTypeOK, clusterVars, cacheVars, OperatorTypeOK
<1>13. CASE updateStatus
  <2> DEFINE patch == PatchStatus(obj.status, ApplyStatusSummary(obj.status, sum))
  <2>1. obj.status \in Status /\ ApplyStatusSummary(obj.status, sum) \in Status
    BY <1>a, ApplyStatusSummaryType DEF LocalTypeOK, Workspaces
  <2>2. patch => ws' \in Workspaces
    BY <2>1, PatchStatusType DEF ClusterTypeOK
  <2>3. ws' \in Workspaces /\ budget' \in Nat
    BY <1>13, <1>d, <2>2 DEF updateStatus, ClusterTypeOK
  <2>4. LocalTypeOK'
    BY <1>13, <1>a, <1>b, FinishType DEF updateStatus, LocalTypeOK
  <2> QED
    BY <1>13, <2>3, <2>4 DEF updateStatus, ClusterTypeOK, OperatorTypeOK
<1> QED
  BY <1>1, <1>2, <1>3, <1>4, <1>5, <1>6, <1>7, <1>8, <1>9, <1>10, <1>11, <1>12, <1>13
  DEF ReconcileNext

(* The operator keeps the types of the cluster and its own.                  *)
LEMMA OperatorNextType ==
    ASSUME ClusterTypeOK, OperatorTypeOK, OperatorNext
    PROVE  ClusterTypeOK' /\ OperatorTypeOK'
<1>1. ASSUME NEW x \in Watched, SeeEvent(x)
      PROVE  ClusterTypeOK' /\ OperatorTypeOK'
  <2>1. /\ cachedWs' \in Workspaces /\ cachedPod' \in Pods
        /\ cachedPvc' \in PVCs /\ unseen' \subseteq Watched /\ queued' \in BOOLEAN
    BY <1>1 DEF SeeEvent, ClusterTypeOK, OperatorTypeOK
  <2>2. cachedChild' \in Children
    BY <1>1 DEF SeeEvent, ClusterTypeOK, OperatorTypeOK, Children
  <2> QED
    BY <1>1, <2>1, <2>2 DEF SeeEvent, ClusterTypeOK, OperatorTypeOK, clusterVars, localVars
<1>2. CASE TimerFires \/ Resync
  BY <1>2 DEF TimerFires, Resync, ClusterTypeOK, OperatorTypeOK, clusterVars, cacheVars, localVars
<1>3. CASE Restart
  <2>1. budget' \in Nat
    BY <1>3 DEF Restart, Disrupt, ClusterTypeOK
  <2>2. ClusterTypeOK'
    BY <1>3, <2>1 DEF Restart, ClusterTypeOK
  <2>3. /\ pc' \in PCs /\ at' \in 1..Len(GuardSeq) /\ obj' \in Workspaces
        /\ seen' \in Pods /\ sum' \in Summaries /\ result' \in Results
        /\ unseen' \subseteq Watched /\ image' \in Images
    BY <1>3, GuardsNonEmpty, NoWorkspaceType, NoObjects, NoSummaryType
    DEF Restart, PCs, Results
  <2>4. queued' \in BOOLEAN /\ timer' \in BOOLEAN
    BY <1>3 DEF Restart
  <2> QED
    BY <1>3, <2>2, <2>3, <2>4 DEF Restart, ClusterTypeOK, OperatorTypeOK
<1>4. CASE ReconcileNext /\ Notify
  <2>1. unseen' \subseteq Watched
    BY <1>4, NotifyType DEF OperatorTypeOK
  <2> QED
    BY <1>4, <2>1, ReconcileNextType DEF OperatorTypeOK, LocalTypeOK, cacheVars
<1> QED
  BY <1>1, <1>2, <1>3, <1>4 DEF OperatorNext

(* Type correctness: no step of the operator, the gateway or the cluster     *)
(* leaves the types; the index of the guard being ensured stays in range.    *)
LEMMA NextType ==
    ASSUME TypeOK, [Next]_vars
    PROVE  TypeOK'
<1>1. CASE ClusterNext /\ Watches /\ UNCHANGED gatewayVars
  BY <1>1, ClusterNextType, NotifyType
  DEF TypeOK, Watches, OperatorTypeOK, GatewayTypeOK, gatewayVars, cacheVars, localVars
<1>2. CASE GatewayNext /\ Watches
  BY <1>2, GatewayNextType, NotifyType DEF TypeOK, Watches, OperatorTypeOK, cacheVars, localVars
<1>3. CASE OperatorNext /\ UNCHANGED gatewayVars
  BY <1>3, OperatorNextType DEF TypeOK, GatewayTypeOK, gatewayVars
<1>4. CASE UNCHANGED vars
  BY <1>4 DEF TypeOK, ClusterTypeOK, OperatorTypeOK, GatewayTypeOK,
     vars, clusterVars, operatorVars, gatewayVars, cacheVars, localVars
<1> QED
  BY <1>1, <1>2, <1>3, <1>4 DEF Next

(* The initial state has the types.                                          *)
LEMMA InitType ==
    ASSUME Init
    PROVE  TypeOK
<1>1. ws \in Workspaces /\ lastUid \in Nat
  BY NewWorkspaceType, NoWorkspaceType DEF Init, ClusterInit
<1>2. ClusterTypeOK
  BY <1>1, NoObjects, ClusterAssumption DEF Init, ClusterInit, ClusterTypeOK
<1>3. OperatorTypeOK
  BY NoWorkspaceType, NoObjects, NoSummaryType, GuardsNonEmpty
  DEF Init, OperatorInit, OperatorTypeOK, Watched, PCs, Results
<1>4. GatewayTypeOK
  BY NewStatusType DEF Init, GatewayInit, GatewayTypeOK, RequestPCs
<1> QED
  BY <1>2, <1>3, <1>4 DEF TypeOK

(* In every run of DevPlane all variables of the operator, the gateway and   *)
(* the cluster keep their types, whatever fails or is restarted.             *)
THEOREM TypeCorrect == Spec => []TypeOK
BY InitType, NextType, PTL DEF Spec

=============================================================================

------------------------------- MODULE Operator -------------------------------
(***************************************************************************)
(* The operator: WorkspaceReconciler of controllers/workspace_controller.go *)
(* with the work queue and the informer caches that controller-runtime     *)
(* puts around it.                                                         *)
(*                                                                         *)
(* One worker reconciles the Workspace.  It reads from the caches, which   *)
(* follow the API server with a delay of their own per kind, and writes to *)
(* the API server.  Every call that writes is a step of its own, so that   *)
(* anything may happen in the cluster between two of them; what the code   *)
(* does between two writes reads only local copies and the caches, and is  *)
(* part of the step.  A write may be refused, or be carried out and        *)
(* reported as failed (a lost reply): the "api" disruption.                *)
(***************************************************************************)
EXTENDS Cluster

CONSTANT
    RbacKinds       \* the guards ensured by ensureRBAC, the others being
                    \* those of ensureNetworkPolicies

VARIABLES
    cachedWs, cachedPod, cachedPvc, cachedChild,    \* the informer caches
    unseen,         \* the objects with watch events still to be delivered
    queued,         \* the request is in the work queue
    timer,          \* a delayed or rate-limited re-add is pending
    image,          \* the operator's WORKSPACE_IMAGE
    pc,             \* where Reconcile stands
    at,             \* the guard that is being ensured
    obj,            \* the variable ws of Reconcile
    seen,           \* the variable pod of Reconcile
    sum,            \* the StatusSummary about to be written
    result          \* what Reconcile returns after writing it

cacheVars == <<cachedWs, cachedPod, cachedPvc, cachedChild>>

localVars == <<pc, at, obj, seen, sum, result>>

operatorVars == <<cacheVars, unseen, queued, timer, image, localVars>>

PCs == {"idle", "addFinalizer", "removeFinalizer", "ensure", "pvc", "pod",
        "service", "idleCheck", "seed", "status"}

(* done: nothing to add to the queue; after: RequeueAfter or Requeue;       *)
(* error: an error, which the queue retries with back-off.                  *)
Results == {"done", "after", "error"}

Watched == {"ws", "pod", "pvc"} \cup Kinds

ASSUME OperatorAssumption == RbacKinds \subseteq Guards

OperatorTypeOK ==
    /\ cachedWs \in Workspaces
    /\ cachedPod \in Pods
    /\ cachedPvc \in PVCs
    /\ cachedChild \in Children
    /\ unseen \subseteq Watched
    /\ queued \in BOOLEAN
    /\ timer \in BOOLEAN
    /\ image \in Images
    /\ pc \in PCs
    /\ at \in 1..Len(GuardSeq)
    /\ obj \in Workspaces
    /\ seen \in Pods
    /\ sum \in Summaries
    /\ result \in Results

OperatorInit ==
    /\ cachedWs = NoWorkspace
    /\ cachedPod = NoPod
    /\ cachedPvc = NoPVC
    /\ cachedChild = [k \in Kinds |-> NoChild]
    /\ unseen = IF Exists(ws) THEN {"ws"} ELSE {}
    /\ queued = FALSE
    /\ timer = FALSE
    /\ image \in Images
    /\ pc = "idle"
    /\ at = 1
    /\ obj = NoWorkspace
    /\ seen = NoPod
    /\ sum = NoSummary
    /\ result = "done"

-----------------------------------------------------------------------------
(* Informers and work queue: whatever changes at the API server will be     *)
(* delivered as a watch event, which updates the cache and adds the request; *)
(* a delayed re-add that comes due and the periodic resync add it too.       *)
(* Several changes of one object may be seen as one.                         *)

Notify ==
    unseen' = unseen \cup (IF ws' # ws THEN {"ws"} ELSE {})
                     \cup (IF pod' # pod THEN {"pod"} ELSE {})
                     \cup (IF pvc' # pvc THEN {"pvc"} ELSE {})
                     \cup {k \in Kinds : child'[k] # child[k]}

SeeEvent(x) ==
    /\ x \in unseen
    /\ unseen' = unseen \ {x}
    /\ cachedWs' = IF x = "ws" THEN ws ELSE cachedWs
    /\ cachedPod' = IF x = "pod" THEN pod ELSE cachedPod
    /\ cachedPvc' = IF x = "pvc" THEN pvc ELSE cachedPvc
    /\ cachedChild' = [k \in Kinds |-> IF x = k THEN child[k] ELSE cachedChild[k]]
    /\ queued' = TRUE
    /\ UNCHANGED <<clusterVars, timer, image, localVars>>

TimerFires ==
    /\ timer
    /\ timer' = FALSE
    /\ queued' = TRUE
    /\ UNCHANGED <<clusterVars, cacheVars, unseen, image, localVars>>

Resync ==
    /\ ~queued
    /\ "resync" \in Disruptions
    /\ queued' = TRUE
    /\ UNCHANGED <<clusterVars, cacheVars, unseen, timer, image, localVars>>

(* The process dies and another takes the lease, perhaps with a new image:   *)
(* it lists everything anew and starts with every object as an event.        *)
Restart ==
    /\ Disrupt("restart")
    /\ cachedWs' = ws /\ cachedPod' = pod /\ cachedPvc' = pvc /\ cachedChild' = child
    /\ unseen' = {}
    /\ queued' = TRUE
    /\ timer' = FALSE
    /\ image' \in Images
    /\ pc' = "idle"
    /\ at' = 1
    /\ obj' = NoWorkspace
    /\ seen' = NoPod
    /\ sum' = NoSummary
    /\ result' = "done"
    /\ UNCHANGED <<ws, pod, pvc, child, lastUid, now>>

-----------------------------------------------------------------------------
(* Ways for Reconcile to go on.                                              *)

(* A faulty variant: an error is not returned, so that nothing retries.      *)
FinishForgetting(r) ==
    /\ pc' = "idle"
    /\ at' = 1
    /\ obj' = NoWorkspace
    /\ seen' = NoPod
    /\ sum' = NoSummary
    /\ result' = "done"
    /\ timer' = (timer \/ r = "after")

(* Return, leaving a delayed re-add unless there is nothing more to do.      *)
Finish(r) ==
    /\ pc' = "idle"
    /\ at' = 1
    /\ obj' = NoWorkspace
    /\ seen' = NoPod
    /\ sum' = NoSummary
    /\ result' = "done"
    /\ timer' = (timer \/ r # "done")

(* Call updateStatus with s, then return r.                                  *)
Report(s, r) ==
    /\ pc' = "status"
    /\ at' = 1
    /\ seen' = NoPod
    /\ sum' = s
    /\ result' = r
    /\ UNCHANGED <<obj, timer>>

Continue(next) ==
    /\ pc' = next
    /\ at' = 1
    /\ UNCHANGED <<obj, seen, sum, result, timer>>

-----------------------------------------------------------------------------
(* The beginning of Reconcile: what the cached Workspace calls for.          *)

(* Faulty variants: deletion is not looked for, the Ready condition is taken *)
(* for the phase, a failed or a running Workspace is left alone as well.     *)
NeverDeleted(w) == FALSE

ParkedByReason(w) == w.status.ready.reason = "Stopped"

ParkedOrFailed(w) == w.status.phase \in {"Stopped", "Failed"}

ParkedOrRunning(w) == w.status.phase \in {"Stopped", "Running"}

Deleted(w) == w.deleting

(* A Stopped Workspace is left alone until the gateway clears its phase.     *)
Parked(w) == w.status.phase = "Stopped"

(* A faulty variant: the finalizer is not waited for.                        *)
FirstStepUnfinalized(w) ==
    IF ~Exists(w) THEN "idle"
    ELSE IF Deleted(w) THEN "removeFinalizer"
    ELSE IF ~ValidateSpec(w) THEN "status"
    ELSE IF Parked(w) THEN "idle"
    ELSE "ensure"

FirstStep(w) ==
    IF ~Exists(w) THEN "idle"
    ELSE IF Deleted(w) THEN "removeFinalizer"
    ELSE IF ~ValidateSpec(w) THEN "status"
    ELSE IF ~w.finalizer THEN "addFinalizer"
    ELSE IF Parked(w) THEN "idle"
    ELSE "ensure"

Reconcile ==
    /\ pc = "idle"
    /\ queued
    /\ queued' = FALSE
    /\ pc' = FirstStep(cachedWs)
    /\ at' = 1
    /\ obj' = IF FirstStep(cachedWs) = "idle" THEN NoWorkspace ELSE cachedWs
    /\ sum' = IF FirstStep(cachedWs) = "status"
              THEN Failed(FALSE, Condition("ValidationFailed")) ELSE NoSummary
    /\ UNCHANGED <<clusterVars, cacheVars, timer, image, seen, result>>

(* The Workspace cannot be read: an error, to be retried.                    *)
ReconcileUnread ==
    /\ pc = "idle"
    /\ queued
    /\ Disrupt("api")
    /\ queued' = FALSE
    /\ timer' = TRUE
    /\ UNCHANGED <<ws, pod, pvc, child, lastUid, now, cacheVars, image, localVars>>

(* Update(ctx, ws) is refused unless ws is the version the server holds.     *)
UpdateOk(new) == ws = obj /\ ws' = new

UpdateErr(new) ==
    \/ ws # obj /\ UNCHANGED <<ws, budget>>
    \/ Disrupt("api") /\ (UNCHANGED ws \/ UpdateOk(new))

AddFinalizer ==
    LET new == [obj EXCEPT !.finalizer = TRUE]
    IN  /\ pc = "addFinalizer"
        /\ \/ UpdateOk(new) /\ UNCHANGED budget /\ Finish("after")
           \/ UpdateErr(new) /\ Finish("error")
        /\ UNCHANGED <<pod, pvc, child, lastUid, now, cacheVars, queued, image>>

(* Without its finalizer a Workspace that is being deleted is gone.          *)
reconcileDelete ==
    /\ pc = "removeFinalizer"
    /\ \/ UpdateOk(NoWorkspace) /\ UNCHANGED budget /\ Finish("done")
       \/ UpdateErr(NoWorkspace) /\ Finish("error")
    /\ UNCHANGED <<pod, pvc, child, lastUid, now, cacheVars, queued, image>>

-----------------------------------------------------------------------------
(***************************************************************************)
(* controllerutil.CreateOrUpdate: create what the cache lacks, update what *)
(* differs, do nothing otherwise.  SetControllerReference compares owners  *)
(* by name, so a child of an earlier Workspace of that name is taken over. *)
(* A create of what exists and an update of another version are refused.   *)
(***************************************************************************)
Desired(k) == Child(obj.uid, IF k \in DynamicKinds THEN obj.spec ELSE NoSpec)

Written(k) == cachedChild[k] = child[k] /\ child' = [child EXCEPT ![k] = Desired(k)]

(* A faulty variant: an object that exists is not updated.                   *)
CreateIfMissing(k) ==
    /\ IF cachedChild[k].owner = 0 THEN Written(k) ELSE UNCHANGED child
    /\ UNCHANGED budget

CreateOrUpdateOk(k) ==
    /\ \/ cachedChild[k] = Desired(k) /\ UNCHANGED child
       \/ cachedChild[k] # Desired(k) /\ Written(k)
    /\ UNCHANGED budget

CreateOrUpdateErr(k, class) ==
    \/ /\ cachedChild[k] # Desired(k) /\ cachedChild[k] # child[k]
       /\ class = Conflict
       /\ UNCHANGED <<child, budget>>
    \/ Disrupt("api") /\ class \in ErrorClasses /\ (UNCHANGED child \/ Written(k))

(* How a write may fail: refused by the server, or by a failing API.         *)
Refusals == ErrorClasses \cup {Conflict}

GuardStage(k) ==
    IF k \in RbacKinds THEN "RBACReconcileFailed" ELSE "NetworkPolicyReconcileFailed"

(* A faulty variant: one guard too far.                                      *)
NextGuardTooFar ==
    IF at <= Len(GuardSeq)
    THEN at' = at + 1 /\ UNCHANGED <<pc, obj, seen, sum, result, timer>>
    ELSE Continue("pvc")

NextGuard ==
    IF at < Len(GuardSeq)
    THEN at' = at + 1 /\ UNCHANGED <<pc, obj, seen, sum, result, timer>>
    ELSE Continue("pvc")

(* ensureRBAC and ensureNetworkPolicies, one object after the other.         *)
EnsureGuard ==
    LET k == GuardSeq[at]
    IN  /\ pc = "ensure"
        /\ \/ CreateOrUpdateOk(k) /\ NextGuard
           \/ \E class \in Refusals :
                /\ CreateOrUpdateErr(k, class)
                /\ Report(Progressing(obj, ErrorDetailsFor(GuardStage(k), class)), "error")
        /\ UNCHANGED <<ws, pod, pvc, lastUid, now, cacheVars, queued, image>>

-----------------------------------------------------------------------------
(* The claim is created when the cache lacks it and never changed again.     *)

CreatePVC == pvc.owner = 0 /\ pvc' = [owner |-> obj.uid, lost |-> FALSE]

CreatePVCErr(class) ==
    \/ pvc.owner # 0 /\ class = Conflict /\ UNCHANGED <<pvc, budget>>
    \/ Disrupt("api") /\ class \in ErrorClasses /\ (UNCHANGED pvc \/ CreatePVC)

EnsurePVC ==
    /\ pc = "pvc"
    /\ \/ /\ cachedPvc.owner # 0
          /\ UNCHANGED <<pvc, budget>>
          /\ IF cachedPvc.lost THEN Report(Failed(FALSE, Condition("PVCLost")), "done")
                               ELSE Continue("pod")
       \/ /\ cachedPvc.owner = 0
          /\ CreatePVC
          /\ UNCHANGED budget
          /\ Report(Progressing(obj, Condition("Progressing")), "after")
       \/ /\ cachedPvc.owner = 0
          /\ \E class \in Refusals :
                /\ CreatePVCErr(class)
                /\ Report(Failed(FALSE, ErrorDetailsFor("PVCCreateFailed", class)), "done")
       \/ /\ Disrupt("api")
          /\ UNCHANGED pvc
          /\ \E class \in ErrorClasses :
                Report(Progressing(obj, ErrorDetailsFor("PVCReadFailed", class)), "error")
    /\ UNCHANGED <<ws, pod, child, lastUid, now, cacheVars, queued, image>>

-----------------------------------------------------------------------------
(* The pod is created when the cache lacks it, and deleted when it runs      *)
(* another image; creation writes no status.                                 *)

CreatePod == pod.owner = 0 /\ pod' = Pod(obj.uid, image, "Pending")

CreatePodErr(class) ==
    \/ pod.owner # 0 /\ class = Conflict /\ UNCHANGED <<pod, budget>>
    \/ Disrupt("api") /\ class \in ErrorClasses /\ (UNCHANGED pod \/ CreatePod)

(* Delete ignores NotFound, so it fails only when the API does.              *)
DeletePodErr == Disrupt("api") /\ (UNCHANGED pod \/ DeletePod)

(* A faulty variant: the image of a pod is not looked at.                    *)
AnyImage(p) == FALSE

OutdatedImage(p) == p.image # image /\ ~p.terminating

EnsurePod ==
    /\ pc = "pod"
    /\ \/ cachedPod.owner = 0 /\ CreatePod /\ UNCHANGED budget /\ Finish("after")
       \/ /\ cachedPod.owner = 0
          /\ \E class \in Refusals :
                /\ CreatePodErr(class)
                /\ Report(Failed(FALSE, ErrorDetailsFor("PodCreateFailed", class)), "done")
       \/ /\ cachedPod.owner # 0 /\ OutdatedImage(cachedPod)
          /\ \/ DeletePod /\ UNCHANGED budget /\ Finish("after")
             \/ DeletePodErr /\ Finish("error")
       \/ /\ cachedPod.owner # 0 /\ ~OutdatedImage(cachedPod)
          /\ UNCHANGED <<pod, budget, at, obj, sum, result, timer>>
          /\ pc' = "service"
          /\ seen' = cachedPod
       \/ /\ Disrupt("api")
          /\ UNCHANGED pod
          /\ \E class \in ErrorClasses :
                Report(Progressing(obj, ErrorDetailsFor("PodReadFailed", class)), "error")
    /\ UNCHANGED <<ws, pvc, child, lastUid, now, cacheVars, queued, image>>

EnsureService ==
    /\ pc = "service"
    /\ \/ CreateOrUpdateOk(Service) /\ Continue("idleCheck")
       \/ \E class \in Refusals :
            /\ CreateOrUpdateErr(Service, class)
            /\ Report(Failed(FALSE, ErrorDetailsFor("ServiceEnsureFailed", class)), "done")
    /\ UNCHANGED <<ws, pod, pvc, lastUid, now, cacheVars, queued, image>>

-----------------------------------------------------------------------------
(* The idle check concerns a ready pod of a Workspace with an idle window.   *)

(* MayIdleAtZero is a faulty variant: a window of zero is not "never".       *)
MayIdleAtZero == pc = "idleCheck" /\ seen.state = "Ready" /\ effectiveIdleTimeout(obj) >= 0

MayIdle == pc = "idleCheck" /\ seen.state = "Ready" /\ effectiveIdleTimeout(obj) > 0

Idle == now - obj.status.lastAccessed > effectiveIdleTimeout(obj)

(* A Workspace that was never accessed is stamped with the time, which is    *)
(* then patched.  The patch refreshes the local copy, and the idle check     *)
(* goes on with it and with the window it already has.                       *)
SeedLastAccessed ==
    /\ MayIdle
    /\ obj.status.lastAccessed = 0
    /\ obj' = [obj EXCEPT !.status.lastAccessed = now]
    /\ pc' = "seed"
    /\ UNCHANGED <<at, seen, sum, result, timer>>
    /\ UNCHANGED <<clusterVars, cacheVars, queued, image>>

PatchSeed ==
    LET patch == PatchStatus([obj.status EXCEPT !.lastAccessed = 0], obj.status)
    IN  /\ pc = "seed"
        /\ \/ /\ patch
              /\ obj' = [ws' EXCEPT !.spec = obj.spec]
              /\ pc' = "idleCheck"
              /\ UNCHANGED <<budget, at, seen, sum, result, timer>>
           \/ ~Exists(ws) /\ UNCHANGED <<ws, budget>> /\ Finish("error")
           \/ Disrupt("api") /\ (UNCHANGED ws \/ patch) /\ Finish("error")
        /\ UNCHANGED <<pod, pvc, child, lastUid, now, cacheVars, queued, image>>

(* A Workspace idle for longer than its window loses its pod.                *)
StopIdle ==
    /\ MayIdle
    /\ obj.status.lastAccessed # 0
    /\ Idle
    /\ \/ /\ DeletePod /\ UNCHANGED budget
          /\ Report(Summary("Stopped", FALSE, FALSE, Condition("Stopped")), "done")
       \/ DeletePodErr /\ Finish("error")
    /\ UNCHANGED <<ws, pvc, child, lastUid, now, cacheVars, queued, image>>

(* Otherwise the status follows the pod.                                     *)
PodReason(state) ==
    CASE state = "Failed"  -> "PodFailed"
      [] state = "Unknown" -> "PodUnknown"
      [] OTHER             -> "CrashLoopBackOff"

(* How soon to look at a Running Workspace again: after a quarter of its     *)
(* idle window, if it has one.  OnlyOnEvents is a faulty variant.            *)
OnlyOnEvents(w) == "done"

LookAgain(w) == IF effectiveIdleTimeout(w) > 0 THEN "after" ELSE "done"

ObservePod ==
    /\ pc = "idleCheck"
    /\ MayIdle => obj.status.lastAccessed # 0 /\ ~Idle
    /\ \/ /\ seen.state = "Ready"
          /\ Report(Summary("Running", TRUE, TRUE, Condition("Running")), LookAgain(obj))
       \/ /\ seen.state \in PodFailures
          /\ Report(Failed(TRUE, Condition(PodReason(seen.state))), "done")
       \/ /\ seen.state = "Pending"
          /\ Report(Summary("Creating", TRUE, TRUE, Condition("Progressing")), "after")
    /\ UNCHANGED <<clusterVars, cacheVars, queued, image>>

(* updateStatus: the summary is applied to the local copy and the difference *)
(* is patched; a failed patch is an error whatever was to be returned.       *)
updateStatus ==
    LET patch == PatchStatus(obj.status, ApplyStatusSummary(obj.status, sum))
    IN  /\ pc = "status"
        /\ \/ patch /\ UNCHANGED budget /\ Finish(result)
           \/ ~Exists(ws) /\ UNCHANGED <<ws, budget>> /\ Finish("error")
           \/ Disrupt("api") /\ (UNCHANGED ws \/ patch) /\ Finish("error")
        /\ UNCHANGED <<pod, pvc, child, lastUid, now, cacheVars, queued, image>>

ReconcileNext ==
    \/ Reconcile
    \/ ReconcileUnread
    \/ AddFinalizer
    \/ reconcileDelete
    \/ EnsureGuard
    \/ EnsurePVC
    \/ EnsurePod
    \/ EnsureService
    \/ SeedLastAccessed
    \/ PatchSeed
    \/ StopIdle
    \/ ObservePod
    \/ updateStatus

OperatorNext ==
    \/ \E x \in Watched : SeeEvent(x)
    \/ TimerFires
    \/ Resync
    \/ Restart
    \/ ReconcileNext /\ Notify

=============================================================================

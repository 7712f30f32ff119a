------------------------------- MODULE DevPlane -------------------------------
(***************************************************************************)
(* DevPlane as a whole, for one user: the operator and the gateway acting  *)
(* on the same Workspace through the API server, with no other             *)
(* communication between them.                                             *)
(***************************************************************************)
EXTENDS Operator, Gateway

vars == <<clusterVars, operatorVars, gatewayVars>>

TypeOK == ClusterTypeOK /\ OperatorTypeOK /\ GatewayTypeOK

Init == ClusterInit /\ OperatorInit /\ GatewayInit

(* What changes at the API server becomes an event for the operator.         *)
Watches ==
    /\ Notify
    /\ UNCHANGED <<cacheVars, queued, timer, image, localVars>>

Next ==
    \/ ClusterNext /\ Watches /\ UNCHANGED gatewayVars
    \/ GatewayNext /\ Watches
    \/ OperatorNext /\ UNCHANGED gatewayVars

Spec == Init /\ [][Next]_vars

(***************************************************************************)
(* Fairness: watch events arrive, delayed re-adds come due, the worker of  *)
(* the operator keeps working; the kubelet and the garbage collector do    *)
(* their duty; a request that is being served goes on.  Nothing is assumed *)
(* of people, of disruptions, or of the resync.                            *)
(***************************************************************************)
ClusterStep(A) == A /\ Watches /\ UNCHANGED gatewayVars

OperatorFairness ==
    /\ \A x \in Watched : WF_vars(SeeEvent(x) /\ UNCHANGED gatewayVars)
    /\ WF_vars(TimerFires /\ UNCHANGED gatewayVars)
    /\ WF_vars(ReconcileNext /\ Notify /\ UNCHANGED gatewayVars)

ClusterFairness ==
    /\ WF_vars(ClusterStep(PodStarts))
    /\ WF_vars(ClusterStep(PodGone))
    /\ WF_vars(ClusterStep(CollectPod))
    /\ WF_vars(ClusterStep(CollectPVC))
    /\ \A k \in Kinds : WF_vars(ClusterStep(CollectChild(k)))

GatewayFairness == \A r \in Requests : WF_vars(RequestNext(r) /\ Watches)

Fairness == OperatorFairness /\ ClusterFairness /\ GatewayFairness

FairSpec == Spec /\ Fairness

-----------------------------------------------------------------------------
(* Nothing is under way: the operator has seen every object as it is, its    *)
(* queue is empty, no re-add is pending, and no pod is terminating.           *)
Quiescent ==
    /\ pc = "idle" /\ ~queued /\ ~timer
    /\ unseen = {}
    /\ ~pod.terminating

(* Whatever the caches told the operator, a pod of the live Workspace is     *)
(* never without its ServiceAccount, Role, RoleBinding and NetworkPolicies:  *)
(* Reconcile ensures them all before it creates the pod.                     *)
PodBehindGuards ==
    Exists(ws) /\ pod.owner = ws.uid => \A k \in Guards : child[k].owner = ws.uid

(***************************************************************************)
(* Why that is so.  Uids grow, and a child's owner is never younger than   *)
(* the Workspace a cache or a running Reconcile knows: a Reconcile of an   *)
(* earlier Workspace of the name therefore takes no child away from a      *)
(* later one, and what it ensured belongs to the Workspace it is for.      *)
(***************************************************************************)
Ensuring == pc \in {"ensure", "pvc", "pod", "service"}

Passed(k) ==
    \/ pc = "ensure" /\ \E i \in 1..Len(GuardSeq) : i < at /\ k = GuardSeq[i]
    \/ pc \in {"pvc", "pod"} /\ k \in Guards

OwnersInOrder ==
    /\ Exists(ws) => ws.uid = lastUid
    /\ pod.owner <= lastUid /\ cachedWs.uid <= lastUid /\ obj.uid <= lastUid
    /\ \A k \in Kinds :
        /\ child[k].owner <= lastUid /\ cachedChild[k].owner <= lastUid
        /\ Ensuring => child[k].owner <= obj.uid
        /\ Exists(cachedWs) => child[k].owner <= cachedWs.uid
        /\ Exists(ws) /\ cachedChild[k].owner = ws.uid => child[k].owner = ws.uid
        /\ Exists(ws) /\ obj.uid = ws.uid /\ Passed(k) => child[k].owner = ws.uid
    /\ Ensuring /\ Exists(cachedWs) => obj.uid <= cachedWs.uid

(* Nothing is made for a Workspace before its finalizer is on: otherwise it  *)
(* could be gone at once, with a Reconcile still building for it.            *)
FinalizerFirst ==
    Exists(ws) =>
        /\ pod.owner = ws.uid \/ (\E k \in Kinds : child[k].owner = ws.uid) => ws.finalizer
        /\ cachedWs.uid = ws.uid /\ cachedWs.finalizer => ws.finalizer
        /\ Ensuring /\ obj.uid = ws.uid => ws.finalizer

(* The sandbox of the user: the live Workspace with its guards for walls,    *)
(* open while it has a pod.  What all the programs do to all the objects     *)
(* amounts to the few things that may happen to a sandbox.                   *)
Box == INSTANCE Sandbox WITH
    Walls    <- Guards,
    uid      <- ws.uid,
    last     <- lastUid,
    doomed   <- Exists(ws) /\ ws.deleting,
    standing <- {k \in Guards : Exists(ws) /\ child[k].owner = ws.uid},
    open     <- Exists(ws) /\ pod.owner = ws.uid

ImplementsSandbox == Box!Spec

(* The operator never falls silent half way: when nothing is under way, the  *)
(* Workspace is not being deleted and its phase is one that Reconcile leaves *)
(* without asking to be called again.                                        *)
NeverQuietMidway ==
    Quiescent /\ Exists(ws) =>
        ~ws.deleting /\ ws.status.phase \in {"Running", "Failed", "Stopped"}

(* A ready pod of the wanted image, all other objects owned by this          *)
(* Workspace and following its spec, and a complete status.                  *)
Provisioned ==
    /\ pod.state = "Ready" /\ pod.image = image
    /\ ws.status.podName /\ ws.status.endpoint /\ ws.status.ready = Condition("Running")
    /\ \A k \in Kinds : child[k].owner = ws.uid
    /\ \A k \in DynamicKinds : child[k].spec = ws.spec

(* When nothing is under way, a Workspace whose phase is Running is          *)
(* provisioned, although updateStatus patches each field against a copy that *)
(* may be stale and the gateway patches the same status.                     *)
RunningIsTrue ==
    Quiescent /\ Exists(ws) /\ ws.status.phase = "Running" => Provisioned

(* When nothing is under way, a Failed Workspace says why: its spec is        *)
(* invalid, its volume is lost, its pod is in the state it names, or an API  *)
(* call failed.  A write refused because the operator had looked at an old   *)
(* version is never the last word, although no re-add follows it.            *)
FailureIsTrue ==
    Quiescent /\ Exists(ws) /\ ws.status.phase = "Failed" =>
        LET ready == ws.status.ready
        IN  \/ ready.cause \in ErrorClasses
            \/ ready = Condition("ValidationFailed") /\ ~ValidateSpec(ws)
            \/ ready = Condition("PVCLost") /\ pvc.lost
            \/ ready = Condition(PodReason(pod.state)) /\ pod.state \in PodFailures

(* A Running Workspace with an idle window is always looked at again, without *)
(* any event: the re-add that Reconcile asks for is never lost.              *)
IdleIsWatched ==
    Quiescent /\ Exists(ws) /\ ws.status.phase = "Running" => ~(effectiveIdleTimeout(ws) > 0)

(* A Reconcile is current when nothing has changed since it read the caches. *)
Current == unseen = {} /\ ~queued

InUse ==
    effectiveIdleTimeout(ws) > 0 =>
        /\ ws.status.lastAccessed # 0
        /\ ~(now - ws.status.lastAccessed > effectiveIdleTimeout(ws))

InOrder ==
    /\ Exists(ws) /\ ~ws.deleting /\ ws.finalizer /\ ValidateSpec(ws)
    /\ ws.status.phase = "Running" /\ Provisioned /\ InUse
    /\ pod.owner # 0 /\ ~pod.terminating
    /\ pvc.owner # 0 /\ ~pvc.lost

ReportsAPIError == pc = "status" /\ sum.ready.cause \in ErrorClasses

(* A current Reconcile writes nothing about a Workspace that is in order, but *)
(* for an API error (a spent budget, or one it has still to report).  Its     *)
(* writes come back to it as events: with a write that changes something      *)
(* without need, operator and API server would never come to rest.            *)
LeftAlone ==
    [][Current /\ InOrder /\ ~ReportsAPIError /\ ReconcileNext /\ UNCHANGED budget =>
        UNCHANGED <<ws, pod, pvc, child>>]_vars

(* Nothing but a stamp that was taken earlier and arrives later sets         *)
(* lastAccessed back, whatever stale copy a status is patched from: "Patch   *)
(* is used instead of Update to avoid clobbering fields owned by other       *)
(* controllers (e.g. the gateway writes LastAccessed)", says updateStatus.   *)
LateStamp(t) ==
    \/ pc = "seed" /\ obj.status.lastAccessed = t
    \/ \E r \in Requests : rpc[r] = "stamp" /\ copy[r].lastAccessed = t

LastAccessedKept ==
    [][ws'.uid = ws.uid =>
        \/ ws'.status.lastAccessed >= ws.status.lastAccessed
        \/ LateStamp(ws'.status.lastAccessed)]_ws

-----------------------------------------------------------------------------
(* A Workspace that nobody deletes is Running and provisioned in the end,    *)
(* and stays so once the disruptions are over: every early return of         *)
(* Reconcile leaves an event or a re-add behind that leads on.               *)
Converges ==
    [](Exists(ws) => <>[](ws.status.phase = "Running" /\ Provisioned))

(* A deleted Workspace goes away once reconcileDelete has removed the        *)
(* finalizer, and in the end everything it owned does, whatever the          *)
(* Reconcile that was running at its deletion still created.                 *)
NothingLeft ==
    ~Exists(ws) /\ pod.owner = 0 /\ pvc.owner = 0 /\ \A k \in Kinds : child[k].owner = 0

DeletionCompletes ==
    /\ ws.deleting ~> ~Exists(ws)
    /\ [](~Exists(ws) /\ lastUid = MaxUid => <>[]NothingLeft)

(* A Running Workspace that is idle for longer than its window does not stay *)
(* so, without any event to remind the operator: Reconcile asks to be called *)
(* again after a quarter of the window.                                      *)
Expired ==
    /\ Exists(ws) /\ ~ws.deleting /\ ws.status.phase = "Running"
    /\ pod.state = "Ready" /\ ~pod.terminating
    /\ effectiveIdleTimeout(ws) > 0
    /\ now - ws.status.lastAccessed > effectiveIdleTimeout(ws)

IdleStops == Expired ~> ~Expired

(* When the gateway clears the phase of a Stopped Workspace, the operator    *)
(* makes it Running again: "the gateway transparently restarts them on the   *)
(* user's next login" (README.md:32).  So it is without an idle window; with *)
(* one, lastAccessed is still the old one when the pod is ready again.       *)
WakesUp ==
    (\E r \in Requests : rpc[r] \in {"clear", "pageClear"}) ~> ws.status.phase = "Running"

-----------------------------------------------------------------------------
(* What the documents say and the code does not keep.                        *)

(* "the operator deletes the pod and sets phase to Stopped"                  *)
(* (workspace_types.go:29): a Stopped Workspace keeps no pod.                *)
StoppedHasNoPod ==
    Quiescent /\ Exists(ws) /\ ws.status.phase = "Stopped" => pod.owner = 0

(* The claim a ready pod of the Workspace works on is the Workspace's: "PVC  *)
(* is created with the Workspace and has an OwnerReference to the Workspace  *)
(* CR so it is deleted when the Workspace is deleted" (ARCHITECTURE.md:128). *)
VolumeIsOwned ==
    Exists(ws) /\ pod.owner = ws.uid /\ pod.state = "Ready" => pvc.owner = ws.uid

=============================================================================

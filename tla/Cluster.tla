------------------------------- MODULE Cluster -------------------------------
(***************************************************************************)
(* The Kubernetes cluster around one Workspace: the objects the API server *)
(* holds for it, and what the kubelet, the garbage collector and the       *)
(* owner of the Workspace do to them.  None of this is DevPlane's code: it *)
(* is modelled from how the operator and the gateway use it.               *)
(***************************************************************************)
EXTENDS Workspace, Sequences

CONSTANTS
    GuardSeq,       \* the objects ensured before the pod, in the code's order
    DynamicKinds,   \* those of them whose content follows the Workspace spec
    Images,         \* the images WORKSPACE_IMAGE may name
    PodFailures,    \* the ways a pod may go wrong
    Disruptions,    \* the kinds of disruption that may happen
    MaxDisruptions, \* how many of them (a bound)
    MaxTime,        \* where the clock stops (a bound)
    MaxUid          \* how many Workspaces may be created under the name (a bound)

VARIABLES
    ws,             \* the Workspace
    pod,            \* its Pod
    pvc,            \* its PersistentVolumeClaim
    child,          \* its other children: RBAC, NetworkPolicies, Service
    lastUid,        \* the last uid given to a Workspace
    now,            \* the clock, in ticks of the idle window
    budget          \* disruptions still to come

clusterVars == <<ws, pod, pvc, child, lastUid, now, budget>>

Guards == {GuardSeq[i] : i \in 1..Len(GuardSeq)}

Service == "service"

Kinds == Guards \cup {Service}

PodStates == {"Pending", "Ready"} \cup PodFailures

ASSUME ClusterAssumption ==
    /\ GuardSeq \in Seq(STRING)
    /\ Len(GuardSeq) > 0
    /\ Guards \cap {Service, "ws", "pod", "pvc"} = {}
    /\ DynamicKinds \subseteq Guards
    /\ Images \subseteq STRING
    /\ Images # {}
    /\ PodFailures \subseteq {"Failed", "Unknown", "Stuck"}
    /\ MaxDisruptions \in Nat /\ MaxTime \in Nat /\ MaxUid \in Nat

Child(owner, spec) == [owner |-> owner, spec |-> spec]

NoChild == Child(0, NoSpec)

Pod(owner, image, state) ==
    [owner |-> owner, image |-> image, state |-> state, terminating |-> FALSE]

NoPod == Pod(0, "", "Pending")

NoPVC == [owner |-> 0, lost |-> FALSE]

Children == [Kinds -> [owner: Nat, spec: Specs \cup {NoSpec}]]

Pods == [owner: Nat, image: Images \cup {""}, state: PodStates, terminating: BOOLEAN]

PVCs == [owner: Nat, lost: BOOLEAN]

ClusterTypeOK ==
    /\ ws \in Workspaces
    /\ pod \in Pods
    /\ pvc \in PVCs
    /\ child \in Children
    /\ lastUid \in Nat
    /\ now \in Nat
    /\ budget \in Nat

(* There is no Workspace yet, or one has just been applied with kubectl.     *)
ClusterInit ==
    /\ ws \in {NoWorkspace} \cup {NewWorkspace(1, s) : s \in Specs}
    /\ pod = NoPod
    /\ pvc = NoPVC
    /\ child = [k \in Kinds |-> NoChild]
    /\ lastUid = ws.uid
    /\ now = 1
    /\ budget = MaxDisruptions

(* One of the disruptions a run allows, paid from its budget.               *)
Disrupt(kind) ==
    /\ kind \in Disruptions
    /\ budget > 0
    /\ budget' = budget - 1

-----------------------------------------------------------------------------
(* The API server's writes, as the operator and the gateway use them.       *)

CreateWorkspace(spec) ==
    /\ ~Exists(ws)
    /\ lastUid < MaxUid
    /\ lastUid' = lastUid + 1
    /\ ws' = NewWorkspace(lastUid + 1, spec)

(* Deleting a pod starts its graceful termination; deleting none is a no-op. *)
DeletePod == pod' = [pod EXCEPT !.terminating = (pod.owner # 0)]

(* A patch of the status goes to whatever Workspace has the name.            *)
PatchStatus(base, new) ==
    /\ Exists(ws)
    /\ ws' = [ws EXCEPT !.status = MergePatch(ws.status, base, new)]

-----------------------------------------------------------------------------
(* The kubelet.                                                             *)

PodStarts ==
    /\ pod.owner # 0
    /\ pod.state \in {"Pending", "Stuck", "Unknown"}
    /\ ~pod.terminating
    /\ pvc.owner # 0 /\ ~pvc.lost
    /\ pod' = [pod EXCEPT !.state = "Ready"]
    /\ UNCHANGED <<ws, pvc, child, lastUid, now, budget>>

PodGone ==
    /\ pod.terminating
    /\ pod' = NoPod
    /\ UNCHANGED <<ws, pvc, child, lastUid, now, budget>>

(* The pod stops being ready, fails, or is evicted.                          *)
PodDisturbed ==
    /\ Disrupt("pod")
    /\ pod.owner # 0
    /\ \/ \E s \in PodFailures \cup {"Pending"} :
            /\ s # pod.state
            /\ pod.state # "Failed"
            /\ pod' = [pod EXCEPT !.state = s]
       \/ ~pod.terminating /\ DeletePod
    /\ UNCHANGED <<ws, pvc, child, lastUid, now>>

VolumeLost ==
    /\ Disrupt("volume")
    /\ pvc.owner # 0
    /\ pvc' = [pvc EXCEPT !.lost = TRUE]
    /\ UNCHANGED <<ws, pod, child, lastUid, now>>

-----------------------------------------------------------------------------
(* The garbage collector removes what no live Workspace owns.  A claim that  *)
(* a started pod mounts is kept until that pod is gone.                      *)

Orphan(owner) == owner # 0 /\ owner # ws.uid

CollectChild(k) ==
    /\ Orphan(child[k].owner)
    /\ child' = [child EXCEPT ![k] = NoChild]
    /\ UNCHANGED <<ws, pod, pvc, lastUid, now, budget>>

CollectPod ==
    /\ Orphan(pod.owner)
    /\ ~pod.terminating
    /\ DeletePod
    /\ UNCHANGED <<ws, pvc, child, lastUid, now, budget>>

CollectPVC ==
    /\ Orphan(pvc.owner)
    /\ pod.owner = 0 \/ pod.state = "Pending"
    /\ pvc' = NoPVC
    /\ UNCHANGED <<ws, pod, child, lastUid, now, budget>>

-----------------------------------------------------------------------------
(* The people: kubectl delete and kubectl edit.                              *)

UserDeletes ==
    /\ Disrupt("delete")
    /\ Exists(ws) /\ ~ws.deleting
    /\ ws' = IF ws.finalizer THEN [ws EXCEPT !.deleting = TRUE] ELSE NoWorkspace
    /\ UNCHANGED <<pod, pvc, child, lastUid, now>>

UserEdits ==
    /\ Disrupt("edit")
    /\ Exists(ws)
    /\ \E s \in Specs \ {ws.spec} : ws' = [ws EXCEPT !.spec = s]
    /\ UNCHANGED <<pod, pvc, child, lastUid, now>>

Tick ==
    /\ now < MaxTime
    /\ now' = now + 1
    /\ UNCHANGED <<ws, pod, pvc, child, lastUid, budget>>

ClusterNext ==
    \/ PodStarts
    \/ PodGone
    \/ PodDisturbed
    \/ VolumeLost
    \/ \E k \in Kinds : CollectChild(k)
    \/ CollectPod
    \/ CollectPVC
    \/ UserDeletes
    \/ UserEdits
    \/ Tick

=============================================================================

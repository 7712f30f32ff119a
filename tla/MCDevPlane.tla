------------------------------ MODULE MCDevPlane ------------------------------
(* Small instances of DevPlane for TLC.                                      *)
EXTENDS DevPlane

OneGuard == <<"egress">>

TwoGuards == <<"role", "egress">>

InheritIdle == [s \in Specs |-> -1]

(* One spec with an idle window of its own, the others without.              *)
OwnIdle == [s \in Specs |-> IF s = "b" THEN 3 ELSE -1]

(* The images are interchangeable: one of them is enough to start with.      *)
FirstImage == CHOOSE img \in Images : TRUE

FirstImageSpec == Init /\ image = FirstImage /\ [][Next]_vars

(* States of DevPlane from which some runs start: everything is provisioned  *)
(* and seen by the operator, and the owner connected once, at time 1.        *)
SettledFor(spec, img, phase, disruptions) ==
    /\ ws = [NewWorkspace(1, spec) EXCEPT
                !.finalizer = TRUE,
                !.status = [phase |-> phase, podName |-> phase = "Running",
                            endpoint |-> phase = "Running",
                            ready |-> Condition(phase), lastAccessed |-> 1]]
    /\ pod = IF phase = "Running" THEN Pod(1, img, "Ready") ELSE NoPod
    /\ pvc = [owner |-> 1, lost |-> FALSE]
    /\ child = [k \in Kinds |-> Child(1, IF k \in DynamicKinds THEN spec ELSE NoSpec)]
    /\ lastUid = 1 /\ now = 1 /\ budget = disruptions
    /\ cachedWs = ws /\ cachedPod = pod /\ cachedPvc = pvc /\ cachedChild = child
    /\ unseen = {} /\ queued = FALSE /\ timer = (phase = "Running") /\ image = img
    /\ pc = "idle" /\ at = 1 /\ obj = NoWorkspace /\ seen = NoPod
    /\ sum = NoSummary /\ result = "done"
    /\ GatewayInit

Settled(spec, img, phase) == SettledFor(spec, img, phase, MaxDisruptions)

(* Running, the next idle check pending.                                     *)
RunningSpec ==
    /\ \E spec \in ValidSpecs : Settled(spec, FirstImage, "Running")
    /\ [][Next]_vars

FairRunningSpec == RunningSpec /\ Fairness

(* Stopped by an operator that had an idle window.                           *)
StoppedSpec ==
    /\ \E spec \in ValidSpecs : Settled(spec, FirstImage, "Stopped")
    /\ [][Next]_vars

FairStoppedSpec == StoppedSpec /\ Fairness

(* A Workspace with an idle window, Running, with disruptions and time to    *)
(* come; or one without, Stopped, with requests to come.                     *)
WindowOfA == [s \in Specs |-> IF s = "a" THEN 1 ELSE 0]

LifecycleSpec ==
    /\ \/ Settled("a", FirstImage, "Running")
       \/ SettledFor("b", FirstImage, "Stopped", 0)
    /\ [][/\ Next
          /\ IF ws.spec = "b" THEN UNCHANGED now ELSE UNCHANGED gatewayVars]_vars

FairLifecycleSpec == LifecycleSpec /\ Fairness

(* The informers resync every ten hours, which adds the request anew.        *)
ResyncFairness == WF_vars(Resync /\ UNCHANGED gatewayVars)

FairRolloutSpec == FairRunningSpec /\ ResyncFairness

=============================================================================

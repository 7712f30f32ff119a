------------------------------ MODULE Workspace ------------------------------
(***************************************************************************)
(* The Workspace custom resource as the operator and the gateway see it:   *)
(* api/v1alpha1/workspace_types.go, the status helpers of pkg/workspace    *)
(* (status_summary.go, diagnostics.go, ValidateSpec) and the JSON merge    *)
(* patch with which both programs write the status.                        *)
(*                                                                         *)
(* Data is abstracted to what control depends on.  A spec is a value of    *)
(* Specs; PodName and ServiceEndpoint are set (TRUE) or empty (FALSE),     *)
(* because their text is a function of the user name; ready is the Ready   *)
(* condition, of which the reason and the error in its message (cause) are *)
(* kept, its status being True exactly for the reason "Running".  An       *)
(* absent object is one with uid or owner 0.                               *)
(***************************************************************************)
EXTENDS Integers

CONSTANTS
    Specs,          \* the specs a Workspace may carry
    ValidSpecs,     \* those that ValidateSpec accepts
    SpecIdle,       \* spec.lifecycle.idleTimeout: -1 when empty, else ticks
    IdleTimeout,    \* the operator's IDLE_TIMEOUT default, 0 when disabled
    ErrorClasses    \* the classes of API error that may be met

NoSpec == "none"

APIError == "APIError"

Conflict == "Conflict"

Phases == {"", "Creating", "Running", "Failed", "Stopped"}

StageReasons ==
    {"RBACReconcileFailed", "NetworkPolicyReconcileFailed", "PVCReadFailed",
     "PVCCreateFailed", "PodReadFailed", "PodCreateFailed", "ServiceEnsureFailed"}

Reasons ==
    {"", "Running", "Progressing", "Stopped", "ValidationFailed", "PVCLost",
     "PodFailed", "PodUnknown", "CrashLoopBackOff"} \cup StageReasons \cup ErrorClasses

(* What an error message may say, "" when there is none.  A write refused    *)
(* because of what the server holds is told apart from an unreachable API.   *)
Causes == {"", Conflict} \cup ErrorClasses

ASSUME SpecAssumption ==
    /\ NoSpec \notin Specs
    /\ ValidSpecs \subseteq Specs
    /\ SpecIdle \in [Specs -> Int]
    /\ IdleTimeout \in Nat
    /\ APIError \in ErrorClasses
    /\ {"", Conflict} \cap ErrorClasses = {}

-----------------------------------------------------------------------------
Conditions == [reason: Reasons, cause: Causes]

Condition(reason) == [reason |-> reason, cause |-> ""]

Status == [phase: Phases, podName: BOOLEAN, endpoint: BOOLEAN,
           ready: Conditions, lastAccessed: Nat]

Workspaces == [uid: Nat, deleting: BOOLEAN, finalizer: BOOLEAN,
               spec: Specs \cup {NoSpec}, status: Status]

NewStatus == [phase |-> "", podName |-> FALSE, endpoint |-> FALSE,
              ready |-> Condition(""), lastAccessed |-> 0]

NewWorkspace(uid, spec) ==
    [uid |-> uid, deleting |-> FALSE, finalizer |-> FALSE,
     spec |-> spec, status |-> NewStatus]

NoWorkspace == NewWorkspace(0, NoSpec)

Exists(w) == w.uid # 0

ValidateSpec(w) == w.spec \in ValidSpecs

(* The idle window of this workspace: its own, or the operator's default.   *)
effectiveIdleTimeout(w) ==
    IF w.spec \notin Specs \/ SpecIdle[w.spec] = -1 THEN IdleTimeout ELSE SpecIdle[w.spec]

-----------------------------------------------------------------------------
(* StatusSummary: what one call of updateStatus wants the status to say.    *)
Summaries == [phase: Phases, podName: BOOLEAN, endpoint: BOOLEAN, ready: Conditions]

Summary(phase, podName, endpoint, ready) ==
    [phase |-> phase, podName |-> podName, endpoint |-> endpoint, ready |-> ready]

NoSummary == Summary("", FALSE, FALSE, Condition(""))

(* Still Creating: the pod and the endpoint stay as they were reported.      *)
Progressing(w, ready) ==
    Summary("Creating", w.status.podName, w.status.endpoint, ready)

Failed(podName, ready) == Summary("Failed", podName, FALSE, ready)

(* ErrorDetailsFor*: a recognised class of API error names itself, any other *)
(* is reported as the failure of the stage that met it.                      *)
ErrorDetailsFor(stage, class) ==
    [reason |-> IF class \in {APIError, Conflict} THEN stage ELSE class,
     cause  |-> class]

ApplyStatusSummary(st, sum) ==
    [st EXCEPT !.phase = sum.phase, !.podName = sum.podName,
               !.endpoint = sum.endpoint, !.ready = sum.ready]

(***************************************************************************)
(* Status().Patch(ctx, new, MergeFrom(base)): only the fields in which new *)
(* differs from base are sent, and the server sets just those, whatever    *)
(* version or uid its object has.                                          *)
(***************************************************************************)
(* A faulty variant: the whole status is written, as Update would.           *)
MergePatchAsUpdate(server, base, new) == new

MergePatch(server, base, new) ==
    [phase        |-> IF new.phase = base.phase THEN server.phase ELSE new.phase,
     podName      |-> IF new.podName = base.podName THEN server.podName ELSE new.podName,
     endpoint     |-> IF new.endpoint = base.endpoint THEN server.endpoint ELSE new.endpoint,
     ready        |-> IF new.ready = base.ready THEN server.ready ELSE new.ready,
     lastAccessed |-> IF new.lastAccessed = base.lastAccessed
                      THEN server.lastAccessed ELSE new.lastAccessed]

=============================================================================

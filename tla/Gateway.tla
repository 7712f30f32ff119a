------------------------------- MODULE Gateway -------------------------------
(***************************************************************************)
(* The gateway's part in the life of a Workspace: LifecycleManager of      *)
(* pkg/gateway/lifecycle.go, as the handlers of cmd/gateway/main.go call   *)
(* it once a request is authenticated.                                     *)
(*                                                                         *)
(* Requests run concurrently, in one replica or in several; they share     *)
(* nothing but the API server, which they read without a cache.  A request *)
(* is either a page or API call (EnsureExists) or a WebSocket              *)
(* (EnsureWorkspace, then the terminal session).                           *)
(***************************************************************************)
EXTENDS Cluster

CONSTANTS
    Requests,       \* requests that may be in progress at a time
    RequestKinds,   \* the kinds of request: "page", "terminal"
    ClaimSpecs      \* the specs the user's claims and the defaults may give

VARIABLES
    rpc,            \* where each request stands
    copy            \* the status in the ws it holds

gatewayVars == <<rpc, copy>>

(* Each step of EnsureExists has a name of its own ("page...").              *)
RequestPCs == {"none", "get", "create", "poll", "wait", "clear", "stamp",
               "session", "pageGet", "pageCreate", "pageClear"}

ASSUME GatewayAssumption == ClaimSpecs \subseteq Specs

GatewayTypeOK ==
    /\ rpc \in [Requests -> RequestPCs]
    /\ copy \in [Requests -> Status]

GatewayInit ==
    /\ rpc = [r \in Requests |-> "none"]
    /\ copy = [r \in Requests |-> NewStatus]

Goes(r, next) == rpc' = [rpc EXCEPT ![r] = next]

Holds(r, st) == copy' = [copy EXCEPT ![r] = st]

(* The request is answered: with a page, a JSON error, or by its session end. *)
Answer(r) == Goes(r, "none") /\ Holds(r, NewStatus)

Cleared(st) == [st EXCEPT !.phase = "", !.podName = FALSE]

Arrive(r) ==
    /\ rpc[r] = "none"
    /\ \/ "page" \in RequestKinds /\ Goes(r, "pageGet")
       \/ "terminal" \in RequestKinds /\ Goes(r, "get")
    /\ UNCHANGED <<clusterVars, copy>>

(* An API call of the request fails, perhaps after it was carried out: the   *)
(* request is answered with an error.                                        *)
RequestFails(r) ==
    /\ rpc[r] \in RequestPCs \ {"none", "wait", "stamp", "session"}
    /\ Disrupt("api")
    /\ \/ UNCHANGED <<ws, lastUid>>
       \/ rpc[r] \in {"create", "pageCreate"} /\ \E s \in ClaimSpecs : CreateWorkspace(s)
       \/ /\ rpc[r] \in {"clear", "pageClear"}
          /\ PatchStatus(copy[r], Cleared(copy[r]))
          /\ UNCHANGED lastUid
    /\ Answer(r)
    /\ UNCHANGED <<pod, pvc, child, now>>

-----------------------------------------------------------------------------
(* EnsureExists: get or create, clear a Stopped phase, return.               *)

PageGet(r) ==
    /\ rpc[r] = "pageGet"
    /\ \/ ~Exists(ws) /\ Goes(r, "pageCreate") /\ UNCHANGED copy
       \/ Exists(ws) /\ ws.status.phase = "Stopped" /\ Goes(r, "pageClear") /\ Holds(r, ws.status)
       \/ Exists(ws) /\ ws.status.phase # "Stopped" /\ Answer(r)
    /\ UNCHANGED clusterVars

(* Another request was faster, or a quota (the bound MaxUid) is used up.     *)
CreateRefused == Exists(ws) \/ lastUid = MaxUid

PageCreate(r) ==
    /\ rpc[r] = "pageCreate"
    /\ \/ \E s \in ClaimSpecs : CreateWorkspace(s)
       \/ CreateRefused /\ UNCHANGED <<ws, lastUid>>
    /\ Answer(r)
    /\ UNCHANGED <<pod, pvc, child, now, budget>>

PageClear(r) ==
    /\ rpc[r] = "pageClear"
    /\ \/ PatchStatus(copy[r], Cleared(copy[r]))
       \/ ~Exists(ws) /\ UNCHANGED ws
    /\ Answer(r)
    /\ UNCHANGED <<pod, pvc, child, lastUid, now, budget>>

-----------------------------------------------------------------------------
(* EnsureWorkspace: get or create, then waitForRunning, then stamp.          *)

Get(r) ==
    /\ rpc[r] = "get"
    /\ IF Exists(ws) THEN Goes(r, "poll") ELSE Goes(r, "create")
    /\ UNCHANGED <<clusterVars, copy>>

Create(r) ==
    /\ rpc[r] = "create"
    /\ \/ (\E s \in ClaimSpecs : CreateWorkspace(s)) /\ Goes(r, "poll") /\ UNCHANGED copy
       \/ CreateRefused /\ UNCHANGED <<ws, lastUid>> /\ Answer(r)
    /\ UNCHANGED <<pod, pvc, child, now, budget>>

(***************************************************************************)
(* waitForRunning reads the Workspace at once and then every poll interval. *)
(* A Running one is stamped: the time is taken, then patched.  From here   *)
(* on only the time is kept of the copy; a stamp of the tick that is       *)
(* already there is an empty patch.                                        *)
(***************************************************************************)
Stamps(r, last) ==
    /\ Goes(r, IF last = now THEN "session" ELSE "stamp")
    /\ Holds(r, [NewStatus EXCEPT !.lastAccessed = now])

Poll(r) ==
    /\ rpc[r] = "poll"
    /\ \/ Exists(ws) /\ ws.status.phase = "Running" /\ Stamps(r, ws.status.lastAccessed)
       \/ Exists(ws) /\ ws.status.phase = "Stopped" /\ Goes(r, "clear") /\ Holds(r, ws.status)
       \/ Exists(ws) /\ ws.status.phase \in {"", "Creating"} /\ Goes(r, "wait") /\ UNCHANGED copy
       \/ (~Exists(ws) \/ ws.status.phase = "Failed") /\ Answer(r)
    /\ UNCHANGED clusterVars

Clear(r) ==
    /\ rpc[r] = "clear"
    /\ \/ PatchStatus(copy[r], Cleared(copy[r])) /\ Goes(r, "wait") /\ Holds(r, NewStatus)
       \/ ~Exists(ws) /\ UNCHANGED ws /\ Answer(r)
    /\ UNCHANGED <<pod, pvc, child, lastUid, now, budget>>

PollAgain(r) ==
    /\ rpc[r] = "wait"
    /\ Goes(r, "poll")
    /\ UNCHANGED <<clusterVars, copy>>

(* The deadline of waitForRunning passes, or the client goes away.           *)
GiveUp(r) ==
    /\ rpc[r] = "wait"
    /\ Answer(r)
    /\ UNCHANGED clusterVars

-----------------------------------------------------------------------------
(* The stamp is patched, and the session goes on whether or not that works.  *)
Stamp(r) ==
    LET patch == PatchStatus(NewStatus, copy[r])
    IN  /\ rpc[r] = "stamp"
        /\ \/ patch /\ UNCHANGED budget
           \/ ~Exists(ws) /\ UNCHANGED <<ws, budget>>
           \/ Disrupt("api") /\ (UNCHANGED ws \/ patch)
        /\ Goes(r, "session")
        /\ UNCHANGED <<pod, pvc, child, lastUid, now, copy>>

(* TouchLastAccessed, called as frames flow, stamps again.                   *)
TouchLastAccessed(r) ==
    /\ rpc[r] = "session"
    /\ copy[r].lastAccessed # now
    /\ Stamps(r, copy[r].lastAccessed)
    /\ UNCHANGED clusterVars

(* The backend is not ready, or either side closes the session.              *)
SessionEnds(r) ==
    /\ rpc[r] = "session"
    /\ Answer(r)
    /\ UNCHANGED clusterVars

RequestNext(r) ==
    \/ PageGet(r) \/ PageCreate(r) \/ PageClear(r)
    \/ Get(r) \/ Create(r) \/ Poll(r) \/ Clear(r) \/ PollAgain(r) \/ Stamp(r)

GatewayNext ==
    \E r \in Requests :
        \/ Arrive(r) \/ RequestFails(r)
        \/ RequestNext(r)
        \/ GiveUp(r) \/ TouchLastAccessed(r) \/ SessionEnds(r)

=============================================================================

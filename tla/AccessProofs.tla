---------------------------- MODULE AccessProofs ----------------------------
(* Status patches from stale copies do not set lastAccessed back.            *)
EXTENDS TypeProofs

(* reconcileDelete and AddFinalizer work on a Workspace that exists.         *)
FinalizerInv ==
    TypeOK /\ (pc \in {"addFinalizer", "removeFinalizer"} => Exists(obj))

(* What a step may do to the Workspace at the API server: lastAccessed is    *)
(* kept, or is set to a stamp that was on its way.                           *)
KeepsOrStamps ==
    ws'.uid = ws.uid => \/ ws'.status.lastAccessed = ws.status.lastAccessed
                        \/ LateStamp(ws'.status.lastAccessed)

(* Only the first step of Reconcile leads to a finalizer update.             *)
LEMMA FinalizerInvNext ==
    ASSUME FinalizerInv, [Next]_vars
    PROVE  FinalizerInv'
<1>a. TypeOK'
  BY NextType DEF FinalizerInv
<1>1. CASE UNCHANGED localVars
  BY <1>1, <1>a DEF FinalizerInv, localVars
<1>2. CASE pc' \notin {"addFinalizer", "removeFinalizer"}
  BY <1>2, <1>a DEF FinalizerInv
<1>3. CASE Reconcile
  <2>1. FirstStep(cachedWs) # "idle" => Exists(cachedWs)
    BY DEF FirstStep
  <2> QED
    BY <1>3, <1>a, <2>1 DEF FinalizerInv, Reconcile
<1>4. CASE ReconcileNext
  <2>1. CASE ReconcileUnread
    BY <2>1, <1>1 DEF ReconcileUnread
  <2>2. CASE AddFinalizer \/ reconcileDelete \/ StopIdle \/ ObservePod \/ updateStatus
    BY <2>2, <1>2 DEF AddFinalizer, reconcileDelete, StopIdle, ObservePod, updateStatus,
                      Finish, Report
  <2>3. CASE EnsureGuard
    BY <2>3, <1>2 DEF EnsureGuard, NextGuard, Continue, Report
  <2>4. CASE EnsurePVC \/ EnsureService
    BY <2>4, <1>2 DEF EnsurePVC, EnsureService, Continue, Report
  <2>5. CASE EnsurePod
    BY <2>5, <1>2 DEF EnsurePod, Finish, Report
  <2>6. CASE SeedLastAccessed \/ PatchSeed
    BY <2>6, <1>2 DEF SeedLastAccessed, PatchSeed, Finish
  <2> QED
    BY <1>3, <1>4, <2>1, <2>2, <2>3, <2>4, <2>5, <2>6 DEF ReconcileNext
<1>5. CASE Restart
  BY <1>5, <1>2 DEF Restart
<1>6. CASE (\E x \in Watched : SeeEvent(x)) \/ TimerFires \/ Resync
  BY <1>6, <1>1 DEF SeeEvent, TimerFires, Resync
<1>7. CASE Watches \/ UNCHANGED vars
  BY <1>7, <1>1 DEF Watches, vars, operatorVars
<1> QED
  BY <1>4, <1>5, <1>6, <1>7 DEF Next, OperatorNext

(* The cluster and its users never write lastAccessed.                       *)
LEMMA ClusterKeeps ==
    ASSUME TypeOK, ClusterNext
    PROVE  KeepsOrStamps
<1>a. ws \in Workspaces
  BY DEF TypeOK, ClusterTypeOK
<1>1. CASE UserDeletes
  BY <1>1, <1>a, NoWorkspaceType DEF UserDeletes, KeepsOrStamps, Workspaces, Exists
<1>2. CASE UserEdits
  BY <1>2, <1>a DEF UserEdits, KeepsOrStamps, Workspaces
<1>3. CASE ws' = ws
  BY <1>3 DEF KeepsOrStamps
<1> QED
  BY <1>1, <1>2, <1>3 DEF ClusterNext, PodStarts, PodGone, PodDisturbed, VolumeLost,
     CollectChild, CollectPod, CollectPVC, Tick

(* The gateway writes lastAccessed only by a stamp it has taken.             *)
LEMMA GatewayKeeps ==
    ASSUME TypeOK, GatewayNext
    PROVE  KeepsOrStamps
<1> PICK r \in Requests :
        \/ Arrive(r) \/ RequestFails(r) \/ RequestNext(r)
        \/ GiveUp(r) \/ TouchLastAccessed(r) \/ SessionEnds(r)
  BY DEF GatewayNext
<1>a. /\ ws \in Workspaces /\ ws.status \in Status /\ lastUid \in Nat
      /\ copy[r] \in Status /\ NewStatus \in Status
  BY NewStatusType DEF TypeOK, ClusterTypeOK, GatewayTypeOK, Workspaces
<1>b. ASSUME PatchStatus(copy[r], Cleared(copy[r]))
      PROVE  KeepsOrStamps
  <2> DEFINE new == Cleared(copy[r])
  <2>1. new \in Status /\ new.lastAccessed = copy[r].lastAccessed
    BY <1>a, ClearedType
  <2>2. ws'.status.lastAccessed = MergePatch(ws.status, copy[r], new).lastAccessed
    BY <1>a, <1>b, <2>1, PatchStatusType
  <2> QED
    BY <1>a, <2>1, <2>2, MergePatchKeeps DEF KeepsOrStamps
<1>c. ASSUME NEW s, CreateWorkspace(s)
      PROVE  KeepsOrStamps
  <2>1. ws.uid = 0 /\ ws'.uid = lastUid + 1
    BY <1>c DEF CreateWorkspace, Exists, NewWorkspace
  <2>2. ws'.uid # ws.uid
    BY <1>a, <2>1
  <2> QED
    BY <2>2 DEF KeepsOrStamps
<1>d. ws' = ws => KeepsOrStamps
  BY DEF KeepsOrStamps
<1>1. CASE Stamp(r)
  <2>1. ASSUME PatchStatus(NewStatus, copy[r])
        PROVE  \/ ws'.status.lastAccessed = ws.status.lastAccessed
               \/ ws'.status.lastAccessed = copy[r].lastAccessed
    BY <1>a, <2>1, PatchStatusType DEF MergePatch
  <2> QED
    BY <1>1, <1>d, <2>1 DEF Stamp, KeepsOrStamps, LateStamp
<1>2. CASE RequestFails(r)
  BY <1>2, <1>b, <1>c, <1>d DEF RequestFails
<1>3. CASE PageCreate(r) \/ Create(r)
  BY <1>3, <1>c, <1>d DEF PageCreate, Create
<1>4. CASE PageClear(r) \/ Clear(r)
  BY <1>4, <1>b, <1>d DEF PageClear, Clear
<1>5. CASE \/ Arrive(r) \/ PageGet(r) \/ Get(r) \/ Poll(r) \/ PollAgain(r)
           \/ GiveUp(r) \/ TouchLastAccessed(r) \/ SessionEnds(r)
  BY <1>5, <1>d DEF Arrive, PageGet, Get, Poll, PollAgain, GiveUp, TouchLastAccessed,
                    SessionEnds, clusterVars
<1> QED
  BY <1>1, <1>2, <1>3, <1>4, <1>5 DEF RequestNext

(* The operator writes lastAccessed only by the seed it has taken.           *)
LEMMA OperatorKeeps ==
    ASSUME FinalizerInv, OperatorNext
    PROVE  KeepsOrStamps
<1>a. /\ ws \in Workspaces /\ ws.status \in Status
      /\ obj \in Workspaces /\ obj.status \in Status /\ sum \in Summaries
  BY DEF FinalizerInv, TypeOK, ClusterTypeOK, OperatorTypeOK, Workspaces
<1>b. ws' = ws => KeepsOrStamps
  BY DEF KeepsOrStamps
<1>1. CASE AddFinalizer
  <2>1. ASSUME UpdateOk([obj EXCEPT !.finalizer = TRUE])
        PROVE  KeepsOrStamps
    BY <2>1, <1>a DEF UpdateOk, KeepsOrStamps, Workspaces
  <2> QED
    BY <1>1, <1>b, <2>1 DEF AddFinalizer, UpdateErr
<1>2. CASE reconcileDelete
  <2>1. ASSUME UpdateOk(NoWorkspace)
        PROVE  KeepsOrStamps
    BY <1>2, <2>1, NoWorkspaceType
    DEF UpdateOk, KeepsOrStamps, FinalizerInv, reconcileDelete, Exists
  <2> QED
    BY <1>2, <1>b, <2>1 DEF reconcileDelete, UpdateErr
<1>3. CASE PatchSeed
  <2> DEFINE base == [obj.status EXCEPT !.lastAccessed = 0]
  <2>1. base \in Status
    BY <1>a DEF Status
  <2>2. ASSUME PatchStatus(base, obj.status)
        PROVE  KeepsOrStamps
    <3>1. \/ ws'.status.lastAccessed = ws.status.lastAccessed
          \/ ws'.status.lastAccessed = obj.status.lastAccessed
      BY <1>a, <2>1, <2>2, PatchStatusType DEF MergePatch
    <3> QED
      BY <1>3, <3>1 DEF PatchSeed, KeepsOrStamps, LateStamp
  <2> QED
    BY <1>3, <1>b, <2>2 DEF PatchSeed
<1>4. CASE updateStatus
  <2> DEFINE new == ApplyStatusSummary(obj.status, sum)
  <2>1. new \in Status /\ new.lastAccessed = obj.status.lastAccessed
    BY <1>a, ApplyStatusSummaryType
  <2>2. ASSUME PatchStatus(obj.status, new)
        PROVE  KeepsOrStamps
    <3>1. ws'.status.lastAccessed = MergePatch(ws.status, obj.status, new).lastAccessed
      BY <1>a, <2>1, <2>2, PatchStatusType
    <3> QED
      BY <1>a, <2>1, <3>1, MergePatchKeeps DEF KeepsOrStamps
  <2> QED
    BY <1>4, <1>b, <2>2 DEF updateStatus
<1>5. CASE \/ Reconcile \/ ReconcileUnread \/ EnsureGuard \/ EnsurePVC \/ EnsurePod
           \/ EnsureService \/ SeedLastAccessed \/ StopIdle \/ ObservePod
  BY <1>5, <1>b DEF Reconcile, ReconcileUnread, EnsureGuard, EnsurePVC, EnsurePod,
     EnsureService, SeedLastAccessed, StopIdle, ObservePod, clusterVars
<1>6. CASE (\E x \in Watched : SeeEvent(x)) \/ TimerFires \/ Resync \/ Restart
  BY <1>6, <1>b DEF SeeEvent, TimerFires, Resync, Restart, clusterVars
<1> QED
  BY <1>1, <1>2, <1>3, <1>4, <1>5, <1>6 DEF OperatorNext, ReconcileNext

(* Whatever stale copy a status is patched from, lastAccessed goes back only *)
(* for a stamp that was taken earlier and arrives later.                     *)
THEOREM LastAccessedIsKept == Spec => LastAccessedKept
<1>1. Init => FinalizerInv
  BY InitType DEF Init, OperatorInit, FinalizerInv
<1>2. FinalizerInv /\ [Next]_vars => FinalizerInv'
  BY FinalizerInvNext
<1>3. FinalizerInv /\ FinalizerInv' /\ [Next]_vars =>
        [ws'.uid = ws.uid =>
            \/ ws'.status.lastAccessed >= ws.status.lastAccessed
            \/ LateStamp(ws'.status.lastAccessed)]_ws
  <2> SUFFICES ASSUME FinalizerInv, FinalizerInv', [Next]_vars
               PROVE  [ws'.uid = ws.uid =>
                        \/ ws'.status.lastAccessed >= ws.status.lastAccessed
                        \/ LateStamp(ws'.status.lastAccessed)]_ws
    OBVIOUS
  <2>1. CASE UNCHANGED vars
    BY <2>1 DEF vars, clusterVars
  <2>2. CASE Next
    <3>1. KeepsOrStamps
      BY <2>2, ClusterKeeps, GatewayKeeps, OperatorKeeps DEF Next, FinalizerInv
    <3>2. ws.status.lastAccessed \in Nat
      BY DEF FinalizerInv, TypeOK, ClusterTypeOK, Workspaces, Status
    <3> QED
      BY <3>1, <3>2 DEF KeepsOrStamps
  <2> QED
    BY <2>1, <2>2
<1> QED
  BY <1>1, <1>2, <1>3, PTL DEF Spec, LastAccessedKept

-----------------------------------------------------------------------------
(* The order in which the two programs patch.                                *)

(* No field is changed both from base to new and from base2 to new2.         *)
Disjoint(base, new, base2, new2) ==
    /\ new.phase = base.phase \/ new2.phase = base2.phase
    /\ new.podName = base.podName \/ new2.podName = base2.podName
    /\ new.endpoint = base.endpoint \/ new2.endpoint = base2.endpoint
    /\ new.ready = base.ready \/ new2.ready = base2.ready
    /\ new.lastAccessed = base.lastAccessed \/ new2.lastAccessed = base2.lastAccessed

(* Patches of different fields may arrive in either order, however stale the *)
(* copies they were computed from.                                           *)
LEMMA DisjointPatchesCommute ==
    ASSUME NEW server, NEW base, NEW new, NEW base2, NEW new2, Disjoint(base, new, base2, new2)
    PROVE  MergePatch(MergePatch(server, base, new), base2, new2)
             = MergePatch(MergePatch(server, base2, new2), base, new)
<1> DEFINE one == MergePatch(server, base, new)
           two == MergePatch(server, base2, new2)
<1>1. /\ one.phase = IF new.phase = base.phase THEN server.phase ELSE new.phase
      /\ one.podName = IF new.podName = base.podName THEN server.podName ELSE new.podName
      /\ one.endpoint = IF new.endpoint = base.endpoint THEN server.endpoint ELSE new.endpoint
      /\ one.ready = IF new.ready = base.ready THEN server.ready ELSE new.ready
      /\ one.lastAccessed = IF new.lastAccessed = base.lastAccessed
                            THEN server.lastAccessed ELSE new.lastAccessed
  BY DEF MergePatch
<1>2. /\ two.phase = IF new2.phase = base2.phase THEN server.phase ELSE new2.phase
      /\ two.podName = IF new2.podName = base2.podName THEN server.podName ELSE new2.podName
      /\ two.endpoint = IF new2.endpoint = base2.endpoint THEN server.endpoint ELSE new2.endpoint
      /\ two.ready = IF new2.ready = base2.ready THEN server.ready ELSE new2.ready
      /\ two.lastAccessed = IF new2.lastAccessed = base2.lastAccessed
                            THEN server.lastAccessed ELSE new2.lastAccessed
  BY DEF MergePatch
<1> HIDE DEF one, two
<1>3. (IF new2.phase = base2.phase THEN one.phase ELSE new2.phase)
        = IF new.phase = base.phase THEN two.phase ELSE new.phase
  BY <1>1, <1>2 DEF Disjoint
<1>4. (IF new2.podName = base2.podName THEN one.podName ELSE new2.podName)
        = IF new.podName = base.podName THEN two.podName ELSE new.podName
  BY <1>1, <1>2 DEF Disjoint
<1>5. (IF new2.endpoint = base2.endpoint THEN one.endpoint ELSE new2.endpoint)
        = IF new.endpoint = base.endpoint THEN two.endpoint ELSE new.endpoint
  BY <1>1, <1>2 DEF Disjoint
<1>6. (IF new2.ready = base2.ready THEN one.ready ELSE new2.ready)
        = IF new.ready = base.ready THEN two.ready ELSE new.ready
  BY <1>1, <1>2 DEF Disjoint
<1>7. (IF new2.lastAccessed = base2.lastAccessed THEN one.lastAccessed ELSE new2.lastAccessed)
        = IF new.lastAccessed = base.lastAccessed THEN two.lastAccessed ELSE new.lastAccessed
  BY <1>1, <1>2 DEF Disjoint
<1>8. MergePatch(one, base2, new2) = MergePatch(two, base, new)
  BY <1>3, <1>4, <1>5, <1>6, <1>7 DEF MergePatch
<1> QED
  BY <1>8 DEF one, two

(* The report of updateStatus and a stamp of the gateway may reach the API   *)
(* server in either order: the status is the same, and carries the stamp.    *)
THEOREM StampAndReportCommute ==
    ASSUME NEW server \in Status, NEW base \in Status, NEW summary \in Summaries,
           NEW old \in Status, NEW time \in Nat, time # old.lastAccessed
    PROVE  LET report(s) == MergePatch(s, base, ApplyStatusSummary(base, summary))
               stamp(s)  == MergePatch(s, old, [old EXCEPT !.lastAccessed = time])
           IN  /\ report(stamp(server)) = stamp(report(server))
               /\ report(stamp(server)).lastAccessed = time
<1> DEFINE reported == ApplyStatusSummary(base, summary)
           stamped  == [old EXCEPT !.lastAccessed = time]
<1>1. reported.lastAccessed = base.lastAccessed
  BY DEF ApplyStatusSummary, Status
<1>2. /\ stamped.phase = old.phase /\ stamped.podName = old.podName
      /\ stamped.endpoint = old.endpoint /\ stamped.ready = old.ready
      /\ stamped.lastAccessed = time
  BY DEF Status
<1> HIDE DEF reported, stamped
<1>3. Disjoint(old, stamped, base, reported)
  BY <1>1, <1>2 DEF Disjoint
<1>4. MergePatch(MergePatch(server, old, stamped), base, reported)
        = MergePatch(MergePatch(server, base, reported), old, stamped)
  BY <1>3, DisjointPatchesCommute
<1>5. MergePatch(server, old, stamped).lastAccessed = time
  BY <1>2 DEF MergePatch
<1>6. MergePatch(MergePatch(server, old, stamped), base, reported).lastAccessed = time
  BY <1>1, <1>5 DEF MergePatch
<1> QED
  BY <1>4, <1>6 DEF reported, stamped

=============================================================================

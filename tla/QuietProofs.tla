---------------------------- MODULE QuietProofs -----------------------------
(* The operator never falls silent half way.                                 *)
EXTENDS TypeProofs

AtRest(w) == ~w.deleting /\ w.status.phase \in {"Running", "Failed", "Stopped"}

(* A summary that may be reported with the result r: one that says Creating  *)
(* is never the last word.                                                   *)
Reportable(s, r) ==
    /\ s.phase \in {"Creating", "Running", "Failed", "Stopped"}
    /\ s.phase = "Creating" => r # "done"

(* Reconcile has begun after the last change of the Workspace.               *)
UpToDate == "ws" \notin unseen /\ ~queued

Working == pc \notin {"idle", "removeFinalizer"}

(* Why the operator is never silent too early: a cache without events to     *)
(* come is right about the Workspace, and a Reconcile without a successor in *)
(* the queue works on its present phase, so that what it reports arrives.    *)
QuietInv ==
    /\ TypeOK
    /\ "ws" \notin unseen => cachedWs = ws
    /\ pc = "status" => Reportable(sum, result)
    /\ UpToDate /\ Working => ~ws.deleting /\ obj.status.phase = ws.status.phase
    /\ UpToDate /\ pc = "idle" /\ ~timer /\ Exists(ws) => AtRest(ws)

(* A change of the Workspace is an event, and no event is lost.              *)
LEMMA NotifyTells ==
    ASSUME Notify, "ws" \notin unseen'
    PROVE  ws' = ws /\ "ws" \notin unseen
BY DEF Notify

(* What happens outside the operator leaves the invariant alone.             *)
LEMMA OutsideStepQuiet ==
    ASSUME QuietInv, TypeOK', Notify, UNCHANGED <<cacheVars, queued, timer, localVars>>
    PROVE  QuietInv'
<1>1. /\ cachedWs' = cachedWs /\ queued' = queued /\ timer' = timer
      /\ pc' = pc /\ obj' = obj /\ sum' = sum /\ result' = result
  BY DEF cacheVars, localVars
<1>2. "ws" \notin unseen' => ws' = ws /\ "ws" \notin unseen
  BY NotifyTells
<1> QED
  BY <1>1, <1>2 DEF QuietInv, UpToDate, Working, Reportable, AtRest, Exists

(* What a step of Reconcile may do once it has begun: return with a re-add   *)
(* pending, return from a Workspace that is at rest, or go on.               *)
StageStep ==
    /\ queued' = queued /\ cachedWs' = cachedWs
    /\ \/ pc' = "idle" /\ timer'
       \/ pc' = "idle" /\ (UpToDate' /\ Exists(ws)' => AtRest(ws)')
       \/ /\ Working /\ Working'
          /\ obj'.status.phase \in {obj.status.phase, ws'.status.phase}
          /\ pc' = "status" => Reportable(sum', result')

(* Such a step preserves the invariant.                                      *)
LEMMA StageStepQuiet ==
    ASSUME QuietInv, TypeOK', Notify, StageStep
    PROVE  QuietInv'
<1>1. "ws" \notin unseen' => ws' = ws /\ "ws" \notin unseen
  BY NotifyTells
<1>2. UpToDate' => UpToDate /\ ws' = ws
  BY <1>1 DEF UpToDate, StageStep
<1>3. "ws" \notin unseen' => cachedWs' = ws'
  BY <1>1 DEF QuietInv, StageStep
<1>4. pc' = "status" => Reportable(sum', result')
  BY DEF StageStep
<1>5. UpToDate' /\ Working' => ~ws'.deleting /\ obj'.status.phase = ws'.status.phase
  BY <1>2 DEF StageStep, QuietInv, Working
<1>6. UpToDate' /\ pc' = "idle" /\ ~timer' /\ Exists(ws)' => AtRest(ws)'
  BY DEF StageStep, Working
<1> QED
  BY <1>3, <1>4, <1>5, <1>6 DEF QuietInv, Reportable, AtRest, Exists

(* Returning with anything but "done" leaves a re-add pending.               *)
LEMMA FinishPending ==
    ASSUME NEW r, r # "done", Finish(r)
    PROVE  pc' = "idle" /\ timer'
BY DEF Finish

(* Reporting a summary that may be reported is a step of a Reconcile at work.*)
LEMMA ReportStage ==
    ASSUME Working, queued' = queued, UNCHANGED cacheVars,
           NEW s, NEW r, Reportable(s, r), Report(s, r)
    PROVE  StageStep
BY DEF StageStep, Working, Report, Reportable, cacheVars

(* So is going on to another stage.                                          *)
LEMMA ContinueStage ==
    ASSUME Working, queued' = queued, UNCHANGED cacheVars,
           UNCHANGED obj, Working', pc' # "status"
    PROVE  StageStep
BY DEF StageStep, cacheVars

(* The phases of summaries: an error met half way says Creating, and is      *)
(* returned or asks to be called again.                                      *)
LEMMA SummariesReportable ==
    ASSUME NEW w, NEW ready, NEW podName, NEW r
    PROVE  /\ r # "done" => Reportable(Progressing(w, ready), r)
           /\ Reportable(Failed(podName, ready), r)
BY DEF Reportable, Progressing, Failed, Summary

(* A patch that tells the server nothing new has found the status there.     *)
LEMMA ReportArrives ==
    ASSUME QuietInv, Notify, pc = "status", UpToDate', queued' = queued, result = "done",
           PatchStatus(obj.status, ApplyStatusSummary(obj.status, sum))
    PROVE  AtRest(ws)'
<1>1. "ws" \notin unseen /\ ~queued /\ ws' = ws
  BY NotifyTells DEF UpToDate
<1>2. ~ws.deleting /\ obj.status.phase = ws.status.phase
  BY <1>1 DEF QuietInv, UpToDate, Working
<1>3. sum.phase \in {"Running", "Failed", "Stopped"}
  BY DEF QuietInv, Reportable
<1>4. ws \in Workspaces /\ obj \in Workspaces /\ sum \in Summaries
  BY DEF QuietInv, TypeOK, ClusterTypeOK, OperatorTypeOK
<1>5. ws.status \in Status /\ obj.status \in Status
  BY <1>4 DEF Workspaces
<1> DEFINE new == ApplyStatusSummary(obj.status, sum)
<1>6. new \in Status /\ new.phase = sum.phase
  BY <1>4, <1>5 DEF ApplyStatusSummary, Status, Summaries
<1>7. MergePatch(ws.status, obj.status, new).phase = sum.phase
  BY <1>2, <1>6 DEF MergePatch
<1>8. ws'.status = MergePatch(ws.status, obj.status, new)
  BY <1>4 DEF PatchStatus, Workspaces
<1> QED
  BY <1>1, <1>2, <1>3, <1>7, <1>8 DEF AtRest

(* Every step of Reconcile but the first is a StageStep.                     *)
LEMMA ReconcileNextStage ==
    ASSUME QuietInv, Notify, ReconcileNext, ~Reconcile, ~ReconcileUnread
    PROVE  StageStep
<1>a. ASSUME NEW r, r # "done", Finish(r), queued' = queued, UNCHANGED cacheVars
      PROVE  StageStep
  BY <1>a, FinishPending DEF StageStep, cacheVars
<1>b. "after" # "done" /\ "error" # "done"
  OBVIOUS
<1>1. CASE AddFinalizer
  BY <1>1, <1>a DEF AddFinalizer
<1>2. CASE reconcileDelete
  <2>1. CASE UpdateErr(NoWorkspace) /\ Finish("error")
    BY <1>2, <2>1, <1>a DEF reconcileDelete
  <2>2. CASE UpdateOk(NoWorkspace) /\ Finish("done")
    <3>1. ~Exists(ws)'
      BY <2>2, NoWorkspaceType DEF UpdateOk, Exists
    <3> QED
      BY <1>2, <2>2, <3>1 DEF reconcileDelete, Finish, StageStep, cacheVars
  <2> QED
    BY <1>2, <2>1, <2>2 DEF reconcileDelete
<1>3. CASE EnsureGuard
  <2>1. Working /\ queued' = queued /\ UNCHANGED cacheVars
    BY <1>3 DEF EnsureGuard, Working
  <2>2. CASE NextGuard
    <3>1. UNCHANGED obj /\ Working' /\ pc' # "status"
      BY <1>3, <2>2 DEF EnsureGuard, NextGuard, Continue, Working
    <3> QED
      BY <2>1, <3>1, ContinueStage
  <2>3. CASE \E class \in Refusals :
            Report(Progressing(obj, ErrorDetailsFor(GuardStage(GuardSeq[at]), class)), "error")
    BY <2>1, <2>3, <1>b, ReportStage, SummariesReportable
  <2> QED
    BY <1>3, <2>2, <2>3 DEF EnsureGuard
<1>4. CASE EnsurePVC
  <2>1. Working /\ queued' = queued /\ UNCHANGED cacheVars
    BY <1>4 DEF EnsurePVC, Working
  <2>2. CASE Continue("pod")
    BY <2>1, <2>2, ContinueStage DEF Continue, Working
  <2>3. ASSUME NEW ready, NEW r,
               \/ Report(Failed(FALSE, ready), r)
               \/ r # "done" /\ Report(Progressing(obj, ready), r)
        PROVE  StageStep
    BY <2>1, <2>3, ReportStage, SummariesReportable
  <2> QED
    BY <1>4, <1>b, <2>2, <2>3 DEF EnsurePVC
<1>5. CASE EnsurePod
  <2>1. Working /\ queued' = queued /\ UNCHANGED cacheVars
    BY <1>5 DEF EnsurePod, Working
  <2>2. CASE pc' = "service" /\ UNCHANGED obj
    BY <2>1, <2>2, ContinueStage DEF Working
  <2>3. ASSUME NEW ready, NEW r,
               \/ Report(Failed(FALSE, ready), r)
               \/ r # "done" /\ Report(Progressing(obj, ready), r)
        PROVE  StageStep
    BY <2>1, <2>3, ReportStage, SummariesReportable
  <2> QED
    BY <1>5, <1>a, <1>b, <2>1, <2>2, <2>3 DEF EnsurePod
<1>6. CASE EnsureService
  <2>1. Working /\ queued' = queued /\ UNCHANGED cacheVars
    BY <1>6 DEF EnsureService, Working
  <2>2. CASE Continue("idleCheck")
    BY <2>1, <2>2, ContinueStage DEF Continue, Working
  <2>3. ASSUME NEW ready, Report(Failed(FALSE, ready), "done")
        PROVE  StageStep
    BY <2>1, <2>3, ReportStage, SummariesReportable
  <2> QED
    BY <1>6, <2>2, <2>3 DEF EnsureService
<1>7. CASE SeedLastAccessed
  <2>1. /\ Working /\ queued' = queued /\ UNCHANGED cacheVars
        /\ pc' = "seed" /\ obj' = [obj EXCEPT !.status.lastAccessed = now]
    BY <1>7 DEF SeedLastAccessed, MayIdle, Working
  <2>2. obj \in Workspaces
    BY DEF QuietInv, TypeOK, OperatorTypeOK
  <2>3. obj'.status.phase = obj.status.phase
    BY <2>1, <2>2 DEF Workspaces, Status
  <2> QED
    BY <2>1, <2>3 DEF StageStep, Working, cacheVars
<1>8. CASE PatchSeed
  <2>1. Working /\ queued' = queued /\ UNCHANGED cacheVars
    BY <1>8 DEF PatchSeed, Working
  <2>2. CASE Finish("error")
    BY <1>a, <1>b, <2>1, <2>2
  <2>3. CASE /\ PatchStatus([obj.status EXCEPT !.lastAccessed = 0], obj.status)
             /\ obj' = [ws' EXCEPT !.spec = obj.spec] /\ pc' = "idleCheck"
    <3>1. ws \in Workspaces
      BY DEF QuietInv, TypeOK, ClusterTypeOK
    <3>2. obj'.status = ws'.status
      BY <3>1, <2>3 DEF PatchStatus, Workspaces
    <3> QED
      BY <2>1, <2>3, <3>2 DEF StageStep, Working, cacheVars
  <2> QED
    BY <1>8, <2>2, <2>3 DEF PatchSeed
<1>9. CASE StopIdle
  <2>1. Working /\ queued' = queued /\ UNCHANGED cacheVars
    BY <1>9 DEF StopIdle, MayIdle, Working
  <2>2. Reportable(Summary("Stopped", FALSE, FALSE, Condition("Stopped")), "done")
    BY DEF Reportable, Summary
  <2> QED
    BY <1>9, <1>a, <1>b, <2>1, <2>2, ReportStage DEF StopIdle
<1>10. CASE ObservePod
  <2>1. Working /\ queued' = queued /\ UNCHANGED cacheVars
    BY <1>10 DEF ObservePod, Working
  <2>2. /\ \A r : Reportable(Summary("Running", TRUE, TRUE, Condition("Running")), r)
        /\ Reportable(Summary("Creating", TRUE, TRUE, Condition("Progressing")), "after")
        /\ \A ready : Reportable(Failed(TRUE, ready), "done")
    BY <1>b DEF Reportable, Summary, Failed
  <2> QED
    BY <1>10, <2>1, <2>2, ReportStage DEF ObservePod
<1>11. CASE updateStatus
  <2>1. pc = "status" /\ queued' = queued /\ UNCHANGED cacheVars
    BY <1>11 DEF updateStatus
  <2>2. CASE Finish("error")
    BY <1>a, <1>b, <2>1, <2>2
  <2>3. CASE /\ PatchStatus(obj.status, ApplyStatusSummary(obj.status, sum))
             /\ Finish(result)
    <3>1. CASE result # "done"
      BY <1>a, <2>1, <2>3, <3>1
    <3>2. CASE result = "done"
      <4>1. UpToDate' => AtRest(ws)'
        BY <2>1, <2>3, <3>2, ReportArrives
      <4>2. pc' = "idle"
        BY <2>3 DEF Finish
      <4> QED
        BY <2>1, <4>1, <4>2 DEF StageStep, cacheVars
    <3> QED
      BY <3>1, <3>2
  <2> QED
    BY <1>11, <2>2, <2>3 DEF updateStatus
<1> QED
  BY <1>1, <1>2, <1>3, <1>4, <1>5, <1>6, <1>7, <1>8, <1>9, <1>10, <1>11 DEF ReconcileNext

(* A Reconcile that begins has seen what was there to see: it stops at once  *)
(* only for a Workspace that is gone or parked.                              *)
LEMMA ReconcileQuiet ==
    ASSUME QuietInv, TypeOK', Notify, Reconcile
    PROVE  QuietInv'
<1>1. /\ ws' = ws /\ cachedWs' = cachedWs /\ timer' = timer /\ ~queued'
      /\ pc' = FirstStep(cachedWs)
      /\ pc' # "idle" => obj' = cachedWs
      /\ pc' = "status" => sum' = Failed(FALSE, Condition("ValidationFailed"))
  BY DEF Reconcile, clusterVars, cacheVars
<1>2. "ws" \notin unseen' => "ws" \notin unseen /\ cachedWs = ws
  BY NotifyTells DEF QuietInv
<1>3. pc' = "status" => Reportable(sum', result')
  BY <1>1, SummariesReportable
<1>4. UpToDate' /\ Working' => ~ws'.deleting /\ obj'.status.phase = ws'.status.phase
  BY <1>1, <1>2 DEF UpToDate, Working, FirstStep, Deleted
<1>5. UpToDate' /\ pc' = "idle" /\ Exists(ws)' => AtRest(ws)'
  BY <1>1, <1>2 DEF UpToDate, FirstStep, Deleted, Parked, AtRest, Exists
<1> QED
  BY <1>1, <1>2, <1>3, <1>4, <1>5 DEF QuietInv, Reportable, AtRest, Exists

(* Every step of the system preserves the invariant.                         *)
LEMMA QuietInvNext ==
    ASSUME QuietInv, [Next]_vars
    PROVE  QuietInv'
<1>a. TypeOK'
  BY NextType DEF QuietInv
<1>1. CASE (ClusterNext \/ GatewayNext) /\ Watches
  BY <1>1, <1>a, OutsideStepQuiet DEF Watches
<1>2. CASE ReconcileNext /\ Notify
  <2>1. CASE Reconcile
    BY <1>2, <1>a, <2>1, ReconcileQuiet
  <2>2. CASE ReconcileUnread
    <3>1. /\ cachedWs' = cachedWs /\ pc' = "idle" /\ pc = "idle" /\ timer' = TRUE
          /\ ws' = ws
      BY <2>2 DEF ReconcileUnread, cacheVars, localVars
    <3>2. "ws" \notin unseen' => cachedWs' = ws'
      BY <1>2, <3>1, NotifyTells DEF QuietInv
    <3> QED
      BY <1>a, <3>1, <3>2 DEF QuietInv, Working
  <2>3. CASE ~Reconcile /\ ~ReconcileUnread
    BY <1>2, <1>a, <2>3, ReconcileNextStage, StageStepQuiet
  <2> QED
    BY <2>1, <2>2, <2>3
<1>3. ASSUME NEW x \in Watched, SeeEvent(x)
      PROVE  QuietInv'
  <2>1. /\ cachedWs' = IF x = "ws" THEN ws ELSE cachedWs
        /\ unseen' = unseen \ {x} /\ queued' = TRUE /\ ws' = ws
        /\ pc' = pc /\ sum' = sum /\ result' = result
    BY <1>3 DEF SeeEvent, clusterVars, localVars
  <2>2. "ws" \notin unseen' => cachedWs' = ws'
    BY <2>1 DEF QuietInv
  <2>3. ~UpToDate'
    BY <2>1 DEF UpToDate
  <2> QED
    BY <1>a, <2>1, <2>2, <2>3 DEF QuietInv, Reportable
<1>4. CASE TimerFires \/ Resync
  <2>1. /\ cachedWs' = cachedWs /\ unseen' = unseen /\ queued' = TRUE /\ ws' = ws
        /\ pc' = pc /\ sum' = sum /\ result' = result
    BY <1>4 DEF TimerFires, Resync, clusterVars, cacheVars, localVars
  <2> QED
    BY <1>a, <2>1 DEF QuietInv, Reportable, UpToDate
<1>5. CASE Restart
  <2>1. cachedWs' = ws' /\ pc' = "idle" /\ queued' = TRUE
    BY <1>5 DEF Restart
  <2> QED
    BY <1>a, <2>1 DEF QuietInv, UpToDate
<1>6. CASE UNCHANGED vars
  BY <1>6 DEF QuietInv, UpToDate, Working, Reportable, AtRest, Exists, TypeOK, ClusterTypeOK,
     OperatorTypeOK, GatewayTypeOK, vars, clusterVars, operatorVars, gatewayVars,
     cacheVars, localVars
<1> QED
  BY <1>1, <1>2, <1>3, <1>4, <1>5, <1>6 DEF Next, OperatorNext

(* At the start a Workspace that exists is an event to come.                 *)
LEMMA QuietInvInit ==
    ASSUME Init
    PROVE  QuietInv
<1>1. TypeOK
  BY InitType
<1>2. /\ pc = "idle" /\ cachedWs = NoWorkspace
      /\ unseen = IF Exists(ws) THEN {"ws"} ELSE {}
  BY DEF Init, OperatorInit
<1>3. ~Exists(ws) => ws = NoWorkspace
  BY NewWorkspaceType DEF Init, ClusterInit, Exists
<1> QED
  BY <1>1, <1>2, <1>3 DEF QuietInv, UpToDate, Working

(* The operator never falls silent half way: every way out of Reconcile      *)
(* leaves an event, an entry in the queue or a re-add behind, or else a      *)
(* Workspace that is Running, Failed or Stopped and not being deleted.       *)
THEOREM NeverQuiet == Spec => []NeverQuietMidway
<1>1. Init => QuietInv
  BY QuietInvInit
<1>2. QuietInv /\ [Next]_vars => QuietInv'
  BY QuietInvNext
<1>3. QuietInv => NeverQuietMidway
  BY DEF QuietInv, NeverQuietMidway, Quiescent, UpToDate, AtRest
<1> QED
  BY <1>1, <1>2, <1>3, PTL DEF Spec

-----------------------------------------------------------------------------
(* What the operator says last is true.                                      *)

(* What is asked of the children of the Workspace.                           *)
Wanted(k) == Child(ws.uid, IF k \in DynamicKinds THEN ws.spec ELSE NoSpec)

(* A report s of phase, pod, endpoint and condition is true.                 *)
Runs(s) ==
    /\ s.phase = "Running" /\ s.podName = TRUE /\ s.endpoint = TRUE
    /\ s.ready = Condition("Running")
    /\ pod.state = "Ready" /\ (pod.terminating \/ pod.image = image)
    /\ \A k \in Kinds : child[k] = Wanted(k)

Fails(s) ==
    /\ s.phase = "Failed"
    /\ \/ s.ready.cause \in ErrorClasses
       \/ s.ready = Condition("ValidationFailed") /\ ~ValidateSpec(ws)
       \/ s.ready = Condition("PVCLost") /\ pvc.lost
       \/ s.ready = Condition(PodReason(pod.state)) /\ pod.state \in PodFailures

Progresses(s) ==
    s.phase = "Creating" /\ (s.ready.cause \in ErrorClasses \/ pod.state = "Pending")

Stops(s) == s.phase = "Stopped" /\ (pod.owner = 0 \/ pod.terminating)

IsTrue(s) == Runs(s) \/ Fails(s) \/ Progresses(s) \/ Stops(s)

(* The caches without events to come are right.                              *)
CachesRight ==
    /\ "ws" \notin unseen => cachedWs = ws
    /\ "pod" \notin unseen => cachedPod = pod
    /\ "pvc" \notin unseen => cachedPvc = pvc
    /\ \A k \in Kinds : k \notin unseen => cachedChild[k] = child[k]

(* Two copies of the Workspace that differ at most in lastAccessed.          *)
SameButTime(v, w) ==
    /\ v.uid = w.uid /\ v.deleting = w.deleting /\ v.finalizer = w.finalizer
    /\ v.spec = w.spec /\ v.status.phase = w.status.phase
    /\ v.status.podName = w.status.podName /\ v.status.endpoint = w.status.endpoint
    /\ v.status.ready = w.status.ready

(* What a Reconcile that is current knows at each of its stages.             *)
KnowsWorkspace ==
    /\ pc # "idle" => Exists(ws) /\ SameButTime(obj, ws)
    /\ pc \notin {"idle", "seed"} => obj.status.lastAccessed = ws.status.lastAccessed
    /\ pc = "seed" => ws.status.lastAccessed = 0 /\ effectiveIdleTimeout(ws) > 0
    /\ pc = "removeFinalizer" => ws.deleting = TRUE
    /\ pc = "addFinalizer" => ws.finalizer = FALSE

KnowsChildren ==
    /\ pc = "ensure" => \A i \in 1..Len(GuardSeq) : i < at => child[GuardSeq[i]] = Wanted(GuardSeq[i])
    /\ pc \in {"pvc", "pod", "service", "idleCheck", "seed"} =>
        \A k \in Guards : child[k] = Wanted(k)
    /\ pc \in {"idleCheck", "seed"} => child[Service] = Wanted(Service)

KnowsPod ==
    pc \in {"service", "idleCheck", "seed"} =>
        seen = pod /\ (pod.terminating \/ pod.image = image)

Reports ==
    /\ pc = "status" => IsTrue(sum) /\ (sum.phase = "Running" => result = LookAgain(ws))
    /\ pc = "idle" /\ ~timer /\ Exists(ws) =>
        \/ ws.status.phase = "Stopped"
        \/ IsTrue(ws.status) /\ (ws.status.phase = "Running" => LookAgain(ws) = "done")

Informed == KnowsWorkspace /\ KnowsChildren /\ KnowsPod /\ Reports

(* Only the objects that follow the spec carry any of it.                    *)
PlainChildren == \A k \in Kinds : k \notin DynamicKinds => child[k].spec = NoSpec

(* Why the status is true once nothing is under way.                         *)
TruthInv ==
    /\ TypeOK
    /\ CachesRight
    /\ PlainChildren
    /\ Current => Informed

(* Without an event to come nothing has changed, and nothing had before.     *)
LEMMA NothingNew ==
    ASSUME TypeOK, TypeOK', Notify, unseen' = {}
    PROVE  /\ unseen = {}
           /\ ws' = ws /\ pod' = pod /\ pvc' = pvc /\ child' = child
<1>1. unseen = {} /\ ws' = ws /\ pod' = pod /\ pvc' = pvc
  BY DEF Notify
<1>2. \A k \in Kinds : child'[k] = child[k]
  BY DEF Notify
<1>3. child \in Children /\ child' \in Children
  BY DEF TypeOK, ClusterTypeOK
<1> QED
  BY <1>1, <1>2, <1>3 DEF Children

(* Caches that stay as they are stay right.                                  *)
LEMMA CachesStayRight ==
    ASSUME CachesRight, Notify, UNCHANGED cacheVars
    PROVE  CachesRight'
<1>1. /\ cachedWs' = cachedWs /\ cachedPod' = cachedPod /\ cachedPvc' = cachedPvc
      /\ cachedChild' = cachedChild
  BY DEF cacheVars
<1>2. /\ "ws" \notin unseen' => "ws" \notin unseen /\ ws' = ws
      /\ "pod" \notin unseen' => "pod" \notin unseen /\ pod' = pod
      /\ "pvc" \notin unseen' => "pvc" \notin unseen /\ pvc' = pvc
      /\ \A k \in Kinds : k \notin unseen' => k \notin unseen /\ child'[k] = child[k]
  BY DEF Notify
<1> QED
  BY <1>1, <1>2 DEF CachesRight

(* A report that is true stays so as long as nothing changes.                *)
LEMMA StaysTrue ==
    ASSUME UNCHANGED <<ws, pod, pvc, child, image>>, UNCHANGED <<sum, timer, pc, result>>,
           Reports
    PROVE  Reports'
<1>1. /\ ws' = ws /\ pod' = pod /\ pvc' = pvc /\ child' = child /\ image' = image
      /\ sum' = sum /\ timer' = timer /\ pc' = pc /\ result' = result
  OBVIOUS
<1>2. (IsTrue(sum) => IsTrue(sum)') /\ (IsTrue(ws.status) => IsTrue(ws.status)')
  BY <1>1 DEF IsTrue, Runs, Fails, Progresses, Stops, Wanted, ValidateSpec
<1>3. LookAgain(ws)' = LookAgain(ws) /\ Exists(ws)' = Exists(ws)
  BY <1>1 DEF LookAgain, effectiveIdleTimeout, Exists
<1> QED
  BY <1>1, <1>2, <1>3 DEF Reports

(* What happens outside the operator and is no event leaves all as it is.    *)
LEMMA OutsideStepTruth ==
    ASSUME TruthInv, TypeOK', PlainChildren', Notify,
           UNCHANGED <<cacheVars, queued, timer, image, localVars>>
    PROVE  TruthInv'
<1>1. CachesRight'
  BY CachesStayRight DEF TruthInv
<1>2. ASSUME Current'
      PROVE  Informed'
  <2>1. /\ unseen = {} /\ ws' = ws /\ pod' = pod /\ pvc' = pvc /\ child' = child
    BY <1>2, NothingNew DEF TruthInv, Current
  <2>2. /\ queued' = queued /\ timer' = timer /\ image' = image /\ pc' = pc /\ at' = at
        /\ obj' = obj /\ seen' = seen /\ sum' = sum /\ result' = result
    BY DEF localVars
  <2>3. KnowsWorkspace /\ KnowsChildren /\ KnowsPod /\ Reports
    BY <1>2, <2>1, <2>2 DEF TruthInv, Current, Informed
  <2>4. KnowsWorkspace'
    BY <2>1, <2>2, <2>3 DEF KnowsWorkspace, SameButTime, Exists, effectiveIdleTimeout
  <2>5. KnowsChildren'
    BY <2>1, <2>2, <2>3 DEF KnowsChildren, Wanted
  <2>6. KnowsPod'
    BY <2>1, <2>2, <2>3 DEF KnowsPod
  <2>7. Reports'
    BY <2>1, <2>2, <2>3, StaysTrue
  <2> QED
    BY <2>4, <2>5, <2>6, <2>7 DEF Informed
<1> QED
  BY <1>1, <1>2 DEF TruthInv

(* A child is written as it is wanted, or collected.                         *)
LEMMA StayPlain ==
    ASSUME TypeOK, PlainChildren,
           \/ child' = child
           \/ \E k \in Kinds : \/ child' = [child EXCEPT ![k] = Desired(k)]
                               \/ child' = [child EXCEPT ![k] = NoChild]
    PROVE  PlainChildren'
<1>1. child \in Children
  BY DEF TypeOK, ClusterTypeOK
<1>2. \A k \in Kinds : k \notin DynamicKinds => Desired(k).spec = NoSpec /\ NoChild.spec = NoSpec
  BY DEF Desired, NoChild, Child
<1> QED
  BY <1>1, <1>2 DEF PlainChildren, Children

(* Who returns with a re-add pending has said nothing yet.                   *)
LEMMA PendingInformed ==
    ASSUME pc' = "idle", timer'
    PROVE  Informed'
BY DEF Informed, KnowsWorkspace, KnowsChildren, KnowsPod, Reports

(* Reporting what is true.                                                   *)
LEMMA ReportInformed ==
    ASSUME Informed, pc \notin {"idle", "seed"}, UNCHANGED <<ws, pod, pvc, child, image>>,
           NEW s, NEW r, IsTrue(s), s.phase = "Running" => r = LookAgain(ws), Report(s, r)
    PROVE  Informed'
<1>1. /\ ws' = ws /\ pod' = pod /\ pvc' = pvc /\ child' = child /\ image' = image
      /\ pc' = "status" /\ sum' = s /\ result' = r /\ obj' = obj
  BY DEF Report
<1>2. KnowsWorkspace'
  BY <1>1 DEF Informed, KnowsWorkspace, SameButTime, Exists
<1>3. IsTrue(sum)'
  BY <1>1 DEF IsTrue, Runs, Fails, Progresses, Stops, Wanted, ValidateSpec
<1>4. LookAgain(ws)' = LookAgain(ws)
  BY <1>1 DEF LookAgain, effectiveIdleTimeout
<1>5. Reports'
  BY <1>1, <1>3, <1>4 DEF Reports
<1> QED
  BY <1>1, <1>2, <1>5 DEF Informed, KnowsChildren, KnowsPod

(* Errors of the API are true, whatever the stage.                           *)
LEMMA APIErrorIsTrue ==
    ASSUME NEW stage, NEW class \in ErrorClasses, NEW w, NEW podName
    PROVE  /\ IsTrue(Failed(podName, ErrorDetailsFor(stage, class)))
           /\ IsTrue(Progressing(w, ErrorDetailsFor(stage, class)))
           /\ Failed(podName, ErrorDetailsFor(stage, class)).phase # "Running"
           /\ Progressing(w, ErrorDetailsFor(stage, class)).phase # "Running"
BY DEF IsTrue, Fails, Progresses, Failed, Progressing, Summary, ErrorDetailsFor

(* The stages of Reconcile leave the caches and the queue alone.             *)
LEMMA StagesKeep ==
    ASSUME ReconcileNext, ~Reconcile, ~ReconcileUnread
    PROVE  queued' = queued /\ UNCHANGED cacheVars /\ image' = image /\ pc # "idle"
<1>1. CASE AddFinalizer \/ reconcileDelete \/ EnsureGuard \/ EnsurePVC
  BY <1>1 DEF AddFinalizer, reconcileDelete, EnsureGuard, EnsurePVC
<1>2. CASE EnsurePod \/ EnsureService \/ SeedLastAccessed \/ PatchSeed
  BY <1>2 DEF EnsurePod, EnsureService, SeedLastAccessed, PatchSeed, MayIdle
<1>3. CASE StopIdle \/ ObservePod \/ updateStatus
  BY <1>3 DEF StopIdle, ObservePod, updateStatus, MayIdle
<1> QED
  BY <1>1, <1>2, <1>3 DEF ReconcileNext

(* A step of a Reconcile that is current, and that no event follows.         *)
StillCurrent ==
    /\ TruthInv /\ Current /\ pc # "idle"
    /\ ws' = ws /\ pod' = pod /\ pvc' = pvc /\ child' = child /\ image' = image

(* What it has to go by is what is there.                                    *)
LEMMA CurrentAgrees ==
    ASSUME TruthInv, Current
    PROVE  /\ Informed
           /\ cachedWs = ws /\ cachedPod = pod /\ cachedPvc = pvc
           /\ \A k \in Kinds : cachedChild[k] = child[k]
           /\ pc # "idle" => \A k \in Kinds : Desired(k) = Wanted(k)
<1>1. Informed /\ unseen = {}
  BY DEF TruthInv, Current
<1>2. pc # "idle" => obj.uid = ws.uid /\ obj.spec = ws.spec
  BY <1>1 DEF Informed, KnowsWorkspace, SameButTime
<1>3. pc # "idle" => \A k \in Kinds : Desired(k) = Wanted(k)
  BY <1>2 DEF Desired, Wanted
<1> QED
  BY <1>1, <1>3 DEF TruthInv, CachesRight

(* Who leaves the Workspace as it is still knows it.                         *)
LEMMA StillKnowsWorkspace ==
    ASSUME StillCurrent, pc # "seed", obj' = obj,
           pc' \in {"ensure", "pvc", "pod", "service", "idleCheck", "status"}
    PROVE  KnowsWorkspace'
<1>1. KnowsWorkspace /\ ws' = ws /\ pc # "idle"
  BY CurrentAgrees DEF StillCurrent, Informed
<1> QED
  BY <1>1 DEF KnowsWorkspace, SameButTime, Exists

(* CreateOrUpdate leaves a child as it is wanted.                            *)
LEMMA EnsuredIsWanted ==
    ASSUME StillCurrent, NEW k \in Kinds, CreateOrUpdateOk(k)
    PROVE  child[k] = Wanted(k)
<1>1. cachedChild[k] = child[k] /\ Desired(k) = Wanted(k) /\ child' = child
  BY CurrentAgrees DEF StillCurrent
<1>2. child \in Children
  BY DEF StillCurrent, TruthInv, TypeOK, ClusterTypeOK
<1>3. CASE cachedChild[k] = Desired(k)
  BY <1>1, <1>3
<1>4. CASE child' = [child EXCEPT ![k] = Desired(k)]
  BY <1>1, <1>2, <1>4 DEF Children
<1> QED
  BY <1>3, <1>4 DEF CreateOrUpdateOk, Written

(* It is not refused to a Reconcile that is current.                         *)
LEMMA OnlyTheAPIFails ==
    ASSUME StillCurrent, NEW k \in Kinds, NEW class, CreateOrUpdateErr(k, class)
    PROVE  class \in ErrorClasses
<1>1. cachedChild[k] = child[k]
  BY CurrentAgrees DEF StillCurrent
<1> QED
  BY <1>1 DEF CreateOrUpdateErr

(* The guards, one after the other.                                          *)
LEMMA EnsureGuardInformed ==
    ASSUME StillCurrent, EnsureGuard
    PROVE  Informed'
<1>a. /\ Informed /\ pc = "ensure" /\ at \in 1..Len(GuardSeq) /\ Len(GuardSeq) \in Nat
      /\ UNCHANGED <<ws, pod, pvc, child, image>>
  <2>1. at \in 1..Len(GuardSeq)
    BY DEF StillCurrent, TruthInv, TypeOK, OperatorTypeOK
  <2>2. Informed
    BY CurrentAgrees DEF StillCurrent
  <2>3. pc = "ensure" /\ UNCHANGED <<ws, pod, pvc, child, image>>
    BY DEF StillCurrent, EnsureGuard
  <2> QED
    BY <2>1, <2>2, <2>3, GuardsNonEmpty
<1>b. GuardSeq[at] \in Kinds
  BY <1>a DEF Kinds, Guards
<1>1. CASE CreateOrUpdateOk(GuardSeq[at]) /\ NextGuard
  <2>1. \A i \in 1..Len(GuardSeq) : i < at + 1 => child[GuardSeq[i]] = Wanted(GuardSeq[i])
    <3>1. child[GuardSeq[at]] = Wanted(GuardSeq[at])
      BY <1>1, <1>b, EnsuredIsWanted
    <3>2. \A i \in 1..Len(GuardSeq) : i < at + 1 => i < at \/ i = at
      BY <1>a
    <3> QED
      BY <1>a, <3>1, <3>2 DEF Informed, KnowsChildren
  <2>2. \A k : Wanted(k)' = Wanted(k)
    BY <1>a DEF Wanted
  <2>3. CASE at < Len(GuardSeq)
    <3>1. pc' = "ensure" /\ at' = at + 1 /\ obj' = obj
      BY <1>1, <1>a, <2>3 DEF NextGuard
    <3>2. KnowsWorkspace'
      BY <1>a, <3>1, StillKnowsWorkspace
    <3>3. KnowsChildren'
      BY <1>a, <2>1, <2>2, <3>1 DEF KnowsChildren
    <3> QED
      BY <3>1, <3>2, <3>3 DEF Informed, KnowsPod, Reports
  <2>4. CASE ~(at < Len(GuardSeq))
    <3>1. pc' = "pvc" /\ obj' = obj
      BY <1>1, <2>4 DEF NextGuard, Continue
    <3>2. KnowsWorkspace'
      BY <1>a, <3>1, StillKnowsWorkspace
    <3>3. \A i \in 1..Len(GuardSeq) : i < at + 1
      BY <1>a, <2>4
    <3>4. \A k \in Guards : child'[k] = Wanted(k)'
      BY <1>a, <2>1, <2>2, <3>3 DEF Guards
    <3>5. KnowsChildren'
      BY <3>1, <3>4 DEF KnowsChildren
    <3> QED
      BY <3>1, <3>2, <3>5 DEF Informed, KnowsPod, Reports
  <2> QED
    BY <2>3, <2>4
<1>2. ASSUME NEW class \in Refusals, CreateOrUpdateErr(GuardSeq[at], class),
             Report(Progressing(obj, ErrorDetailsFor(GuardStage(GuardSeq[at]), class)), "error")
      PROVE  Informed'
  <2>1. class \in ErrorClasses
    BY <1>2, <1>b, OnlyTheAPIFails
  <2> QED
    BY <1>2, <1>a, <2>1, APIErrorIsTrue, ReportInformed
<1> QED
  BY <1>1, <1>2 DEF EnsureGuard

(* Children that are as they are wanted stay so as long as nothing changes.  *)
LEMMA GuardsStayWanted ==
    ASSUME StillCurrent, pc \in {"pvc", "pod", "service", "idleCheck", "seed"}
    PROVE  /\ \A k \in Guards : child[k] = Wanted(k) /\ child'[k] = Wanted(k)'
           /\ \A k : Wanted(k)' = Wanted(k)
<1>1. Informed /\ ws' = ws /\ child' = child
  BY CurrentAgrees DEF StillCurrent
<1>2. \A k : Wanted(k)' = Wanted(k)
  BY <1>1 DEF Wanted
<1> QED
  BY <1>1, <1>2 DEF Informed, KnowsChildren

(* The claim.                                                                *)
LEMMA EnsurePVCInformed ==
    ASSUME StillCurrent, EnsurePVC
    PROVE  Informed'
<1>a. /\ Informed /\ pc = "pvc" /\ cachedPvc = pvc /\ pvc' = pvc
      /\ UNCHANGED <<ws, pod, pvc, child, image>>
  BY CurrentAgrees DEF StillCurrent, EnsurePVC
<1>1. CASE Continue("pod")
  <2>1. pc' = "pod" /\ obj' = obj
    BY <1>1 DEF Continue
  <2>2. KnowsWorkspace'
    BY <1>a, <2>1, StillKnowsWorkspace
  <2>3. KnowsChildren'
    BY <1>a, <2>1, GuardsStayWanted DEF KnowsChildren
  <2> QED
    BY <2>1, <2>2, <2>3 DEF Informed, KnowsPod, Reports
<1>2. CASE cachedPvc.lost /\ Report(Failed(FALSE, Condition("PVCLost")), "done")
  <2>1. /\ IsTrue(Failed(FALSE, Condition("PVCLost")))
        /\ Failed(FALSE, Condition("PVCLost")).phase # "Running"
    BY <1>a, <1>2 DEF IsTrue, Fails, Failed, Summary
  <2> QED
    BY <1>a, <1>2, <2>1, ReportInformed
<1>3. CASE CreatePVC
  <2>1. pvc' = [owner |-> obj.uid, lost |-> FALSE] /\ pvc.owner = 0
    BY <1>3 DEF CreatePVC
  <2>2. obj.uid # 0
    BY <1>a DEF Informed, KnowsWorkspace, SameButTime, Exists
  <2> QED
    BY <1>a, <2>1, <2>2
<1>4. ASSUME NEW class \in Refusals, cachedPvc.owner = 0, CreatePVCErr(class),
             Report(Failed(FALSE, ErrorDetailsFor("PVCCreateFailed", class)), "done")
      PROVE  Informed'
  <2>1. class \in ErrorClasses
    BY <1>a, <1>4 DEF CreatePVCErr
  <2> QED
    BY <1>4, <1>a, <2>1, APIErrorIsTrue, ReportInformed
<1>5. ASSUME NEW class \in ErrorClasses,
             Report(Progressing(obj, ErrorDetailsFor("PVCReadFailed", class)), "error")
      PROVE  Informed'
  BY <1>5, <1>a, APIErrorIsTrue, ReportInformed
<1> QED
  BY <1>1, <1>2, <1>3, <1>4, <1>5 DEF EnsurePVC

(* Going on with the pod that was read, or returning.                        *)
LEMMA EnsurePodInformed ==
    ASSUME StillCurrent, EnsurePod
    PROVE  Informed'
<1>a. /\ Informed /\ pc = "pod" /\ cachedPod = pod
      /\ UNCHANGED <<ws, pod, pvc, child, image>>
  BY CurrentAgrees DEF StillCurrent, EnsurePod
<1>1. CASE /\ ~OutdatedImage(cachedPod) /\ UNCHANGED obj
           /\ pc' = "service" /\ seen' = cachedPod
  <2>1. KnowsWorkspace'
    BY <1>a, <1>1, StillKnowsWorkspace
  <2>2. KnowsChildren'
    BY <1>a, <1>1, GuardsStayWanted DEF KnowsChildren
  <2>3. KnowsPod'
    BY <1>a, <1>1 DEF KnowsPod, OutdatedImage
  <2> QED
    BY <1>1, <2>1, <2>2, <2>3 DEF Informed, Reports
<1>2. CASE Finish("after") \/ Finish("error")
  BY <1>2, FinishPending, PendingInformed
<1>3. ASSUME NEW class \in Refusals, cachedPod.owner = 0, CreatePodErr(class),
             Report(Failed(FALSE, ErrorDetailsFor("PodCreateFailed", class)), "done")
      PROVE  Informed'
  <2>1. class \in ErrorClasses
    BY <1>a, <1>3 DEF CreatePodErr
  <2> QED
    BY <1>3, <1>a, <2>1, APIErrorIsTrue, ReportInformed
<1>4. ASSUME NEW class \in ErrorClasses,
             Report(Progressing(obj, ErrorDetailsFor("PodReadFailed", class)), "error")
      PROVE  Informed'
  BY <1>4, <1>a, APIErrorIsTrue, ReportInformed
<1> QED
  BY <1>1, <1>2, <1>3, <1>4 DEF EnsurePod

(* The service, the last of the children.                                    *)
LEMMA EnsureServiceInformed ==
    ASSUME StillCurrent, EnsureService
    PROVE  Informed'
<1>a. /\ Informed /\ pc = "service" /\ Service \in Kinds
      /\ UNCHANGED <<ws, pod, pvc, child, image>>
  BY CurrentAgrees DEF StillCurrent, EnsureService, Kinds
<1>1. CASE CreateOrUpdateOk(Service) /\ Continue("idleCheck")
  <2>1. pc' = "idleCheck" /\ obj' = obj /\ seen' = seen
    BY <1>1 DEF Continue
  <2>2. KnowsWorkspace'
    BY <1>a, <2>1, StillKnowsWorkspace
  <2>3. child[Service] = Wanted(Service)
    BY <1>1, <1>a, EnsuredIsWanted
  <2>4. KnowsChildren'
    BY <1>a, <2>1, <2>3, GuardsStayWanted DEF KnowsChildren
  <2>5. KnowsPod'
    BY <1>a, <2>1 DEF KnowsPod, Informed
  <2> QED
    BY <2>1, <2>2, <2>4, <2>5 DEF Informed, Reports
<1>2. ASSUME NEW class \in Refusals, CreateOrUpdateErr(Service, class),
             Report(Failed(FALSE, ErrorDetailsFor("ServiceEnsureFailed", class)), "done")
      PROVE  Informed'
  <2>1. class \in ErrorClasses
    BY <1>2, <1>a, OnlyTheAPIFails
  <2> QED
    BY <1>2, <1>a, <2>1, APIErrorIsTrue, ReportInformed
<1> QED
  BY <1>1, <1>2 DEF EnsureService

(* The window of the copy is that of the Workspace.                          *)
LEMMA SameWindow ==
    ASSUME NEW v, NEW w, v.spec = w.spec
    PROVE  effectiveIdleTimeout(v) = effectiveIdleTimeout(w) /\ LookAgain(v) = LookAgain(w)
BY DEF effectiveIdleTimeout, LookAgain

(* The stamp of a Workspace that was never accessed.                         *)
LEMMA SeedInformed ==
    ASSUME StillCurrent, SeedLastAccessed
    PROVE  Informed'
<1>a. /\ Informed /\ pc = "idleCheck" /\ pc' = "seed" /\ seen' = seen
      /\ obj.status.lastAccessed = 0 /\ effectiveIdleTimeout(obj) > 0
      /\ obj' = [obj EXCEPT !.status.lastAccessed = now]
      /\ ws' = ws /\ pod' = pod /\ image' = image
  BY CurrentAgrees DEF StillCurrent, SeedLastAccessed, MayIdle
<1>b. obj \in Workspaces
  BY DEF StillCurrent, TruthInv, TypeOK, OperatorTypeOK
<1>1. /\ Exists(ws) /\ SameButTime(obj, ws)
      /\ obj.status.lastAccessed = ws.status.lastAccessed
  BY <1>a DEF Informed, KnowsWorkspace
<1>2. SameButTime(obj', obj)
  BY <1>a, <1>b DEF SameButTime, Workspaces, Status
<1>3. effectiveIdleTimeout(ws) > 0
  BY <1>a, <1>1, SameWindow DEF SameButTime
<1>4. KnowsWorkspace'
  <2>1. Exists(ws)' /\ SameButTime(obj, ws)'
    BY <1>a, <1>1, <1>2 DEF SameButTime, Exists
  <2>2. ws'.status.lastAccessed = 0 /\ (effectiveIdleTimeout(ws) > 0)'
    BY <1>a, <1>1, <1>3 DEF effectiveIdleTimeout
  <2> QED
    BY <1>a, <2>1, <2>2 DEF KnowsWorkspace
<1>5. KnowsChildren'
  <2>1. child[Service] = Wanted(Service) /\ child' = child
    BY <1>a DEF StillCurrent, Informed, KnowsChildren
  <2> QED
    BY <1>a, <2>1, GuardsStayWanted DEF KnowsChildren
<1>6. KnowsPod'
  BY <1>a DEF KnowsPod, Informed
<1> QED
  BY <1>a, <1>4, <1>5, <1>6 DEF Informed, Reports

(* A stamp that changes nothing leaves the copy as the Workspace is.         *)
LEMMA PatchSeedInformed ==
    ASSUME StillCurrent, PatchSeed
    PROVE  Informed'
<1>a. /\ Informed /\ pc = "seed" /\ ws' = ws /\ pod' = pod /\ image' = image
      /\ child' = child /\ ws \in Workspaces /\ obj \in Workspaces
  BY CurrentAgrees DEF StillCurrent, PatchSeed, TruthInv, TypeOK, ClusterTypeOK, OperatorTypeOK
<1>1. CASE Finish("error")
  BY <1>1, FinishPending, PendingInformed
<1>2. CASE obj' = [ws' EXCEPT !.spec = obj.spec] /\ pc' = "idleCheck" /\ UNCHANGED seen
  <2>1. Exists(ws) /\ obj.spec = ws.spec
    BY <1>a DEF Informed, KnowsWorkspace, SameButTime
  <2>2. SameButTime(obj', ws) /\ obj'.status.lastAccessed = ws.status.lastAccessed
    BY <1>2, <1>a, <2>1 DEF SameButTime, Workspaces
  <2>3. KnowsWorkspace'
    BY <1>2, <1>a, <2>1, <2>2 DEF KnowsWorkspace, SameButTime, Exists
  <2>4. KnowsChildren'
    BY <1>2, <1>a, GuardsStayWanted DEF KnowsChildren, Informed
  <2>5. KnowsPod'
    BY <1>2, <1>a DEF KnowsPod, Informed
  <2> QED
    BY <1>2, <2>3, <2>4, <2>5 DEF Informed, Reports
<1> QED
  BY <1>1, <1>2 DEF PatchSeed

(* The pod of an idle Workspace, if it has one, is on its way out.           *)
LEMMA StopIdleInformed ==
    ASSUME StillCurrent, StopIdle
    PROVE  Informed'
<1>a. /\ Informed /\ pc = "idleCheck" /\ pod' = pod /\ pod \in Pods
      /\ UNCHANGED <<ws, pod, pvc, child, image>>
  BY CurrentAgrees DEF StillCurrent, StopIdle, MayIdle, TruthInv, TypeOK, ClusterTypeOK
<1>1. CASE Finish("error")
  BY <1>1, FinishPending, PendingInformed
<1>2. CASE DeletePod /\ Report(Summary("Stopped", FALSE, FALSE, Condition("Stopped")), "done")
  <2>1. pod.owner = 0 \/ pod.terminating
    BY <1>2, <1>a DEF DeletePod, Pods
  <2>2. IsTrue(Summary("Stopped", FALSE, FALSE, Condition("Stopped")))
    BY <2>1 DEF IsTrue, Stops, Summary
  <2>3. Summary("Stopped", FALSE, FALSE, Condition("Stopped")).phase # "Running"
    BY DEF Summary
  <2> QED
    BY <1>2, <1>a, <2>2, <2>3, ReportInformed
<1> QED
  BY <1>1, <1>2 DEF StopIdle

(* Otherwise the report follows the pod.                                     *)
LEMMA ObservePodInformed ==
    ASSUME StillCurrent, ObservePod
    PROVE  Informed'
<1>a. /\ Informed /\ pc = "idleCheck" /\ seen = pod /\ (pod.terminating \/ pod.image = image)
      /\ UNCHANGED <<ws, pod, pvc, child, image>>
  BY CurrentAgrees DEF StillCurrent, ObservePod, Informed, KnowsPod
<1>1. CASE /\ seen.state = "Ready"
           /\ Report(Summary("Running", TRUE, TRUE, Condition("Running")), LookAgain(obj))
  <2>1. \A k \in Kinds : child[k] = Wanted(k)
    BY <1>a DEF Informed, KnowsChildren, Kinds
  <2>2. IsTrue(Summary("Running", TRUE, TRUE, Condition("Running")))
    BY <1>a, <1>1, <2>1 DEF IsTrue, Runs, Summary
  <2>3. obj.spec = ws.spec
    BY <1>a DEF Informed, KnowsWorkspace, SameButTime
  <2>4. LookAgain(obj) = LookAgain(ws)
    BY <2>3, SameWindow
  <2> QED
    BY <1>a, <1>1, <2>2, <2>4, ReportInformed
<1>2. CASE /\ seen.state \in PodFailures
           /\ Report(Failed(TRUE, Condition(PodReason(seen.state))), "done")
  <2>1. /\ IsTrue(Failed(TRUE, Condition(PodReason(seen.state))))
        /\ Failed(TRUE, Condition(PodReason(seen.state))).phase # "Running"
    BY <1>a, <1>2 DEF IsTrue, Fails, Failed, Summary
  <2> QED
    BY <1>a, <1>2, <2>1, ReportInformed
<1>3. CASE /\ seen.state = "Pending"
           /\ Report(Summary("Creating", TRUE, TRUE, Condition("Progressing")), "after")
  <2>1. /\ IsTrue(Summary("Creating", TRUE, TRUE, Condition("Progressing")))
        /\ Summary("Creating", TRUE, TRUE, Condition("Progressing")).phase # "Running"
    BY <1>a, <1>3 DEF IsTrue, Progresses, Summary
  <2> QED
    BY <1>a, <1>3, <2>1, ReportInformed
<1> QED
  BY <1>1, <1>2, <1>3 DEF ObservePod

(* A patch that changes nothing has found there what it was to say.          *)
LEMMA StatusArrives ==
    ASSUME StillCurrent, pc = "status",
           PatchStatus(obj.status, ApplyStatusSummary(obj.status, sum))
    PROVE  /\ ws.status.phase = sum.phase /\ ws.status.podName = sum.podName
           /\ ws.status.endpoint = sum.endpoint /\ ws.status.ready = sum.ready
<1>1. ws \in Workspaces /\ obj \in Workspaces /\ sum \in Summaries /\ ws' = ws
  BY DEF StillCurrent, TruthInv, TypeOK, ClusterTypeOK, OperatorTypeOK
<1>2. ws.status \in Status /\ obj.status \in Status
  BY <1>1 DEF Workspaces
<1>3. /\ obj.status.phase = ws.status.phase /\ obj.status.podName = ws.status.podName
      /\ obj.status.endpoint = ws.status.endpoint /\ obj.status.ready = ws.status.ready
  BY CurrentAgrees DEF StillCurrent, Informed, KnowsWorkspace, SameButTime
<1> DEFINE new == ApplyStatusSummary(obj.status, sum)
<1>4. /\ new.phase = sum.phase /\ new.podName = sum.podName
      /\ new.endpoint = sum.endpoint /\ new.ready = sum.ready
  BY <1>1, <1>2 DEF ApplyStatusSummary, Status, Summaries
<1>5. ws'.status = MergePatch(ws.status, obj.status, new)
  BY <1>1 DEF PatchStatus, Workspaces
<1> HIDE DEF new
<1> DEFINE merged == MergePatch(ws.status, obj.status, new)
<1>6. /\ merged.phase = new.phase /\ merged.podName = new.podName
      /\ merged.endpoint = new.endpoint /\ merged.ready = new.ready
  BY <1>3 DEF MergePatch
<1> QED
  BY <1>1, <1>4, <1>5, <1>6

(* What updateStatus leaves behind is true, or it will be called again.      *)
LEMMA updateStatusInformed ==
    ASSUME StillCurrent, updateStatus
    PROVE  Informed'
<1>a. /\ Informed /\ pc = "status" /\ ws' = ws /\ pod' = pod /\ pvc' = pvc
      /\ child' = child /\ image' = image
  BY CurrentAgrees DEF StillCurrent, updateStatus
<1>1. CASE Finish("error")
  BY <1>1, FinishPending, PendingInformed
<1>2. CASE result # "done" /\ Finish(result)
  BY <1>2, FinishPending, PendingInformed
<1>3. CASE /\ result = "done" /\ Finish(result)
           /\ PatchStatus(obj.status, ApplyStatusSummary(obj.status, sum))
  <2>1. /\ ws.status.phase = sum.phase /\ ws.status.podName = sum.podName
        /\ ws.status.endpoint = sum.endpoint /\ ws.status.ready = sum.ready
    BY <1>a, <1>3, StatusArrives
  <2>2. IsTrue(sum) /\ (sum.phase = "Running" => result = LookAgain(ws))
    BY <1>a DEF Informed, Reports
  <2>3. IsTrue(ws.status)
    BY <2>1, <2>2 DEF IsTrue, Runs, Fails, Progresses, Stops
  <2>4. IsTrue(ws.status)'
    BY <1>a, <2>3 DEF IsTrue, Runs, Fails, Progresses, Stops, Wanted, ValidateSpec
  <2>5. (ws.status.phase = "Running" => LookAgain(ws) = "done")'
    BY <1>a, <1>3, <2>1, <2>2 DEF LookAgain, effectiveIdleTimeout
  <2>6. pc' = "idle"
    BY <1>3 DEF Finish
  <2>7. Reports'
    BY <2>4, <2>5, <2>6 DEF Reports
  <2> QED
    BY <2>6, <2>7 DEF Informed, KnowsWorkspace, KnowsChildren, KnowsPod
<1> QED
  BY <1>1, <1>2, <1>3 DEF updateStatus

(* Every stage of a Reconcile that is current tells the truth.               *)
LEMMA StagesInformed ==
    ASSUME StillCurrent, ReconcileNext, ~Reconcile, ~ReconcileUnread
    PROVE  Informed'
<1>1. CASE AddFinalizer
  BY <1>1, FinishPending, PendingInformed DEF AddFinalizer
<1>2. CASE reconcileDelete
  <2>1. CASE Finish("error")
    BY <2>1, FinishPending, PendingInformed
  <2>2. CASE UpdateOk(NoWorkspace) /\ Finish("done")
    <3>1. ~Exists(ws)' /\ pc' = "idle"
      BY <2>2, NoWorkspaceType DEF UpdateOk, Exists, Finish
    <3> QED
      BY <3>1 DEF Informed, KnowsWorkspace, KnowsChildren, KnowsPod, Reports
  <2> QED
    BY <1>2, <2>1, <2>2 DEF reconcileDelete
<1> QED
  BY <1>1, <1>2, EnsureGuardInformed, EnsurePVCInformed, EnsurePodInformed,
     EnsureServiceInformed, SeedInformed, PatchSeedInformed, StopIdleInformed,
     ObservePodInformed, updateStatusInformed DEF ReconcileNext

(* Reconcile begins with what the caches hold.                               *)
LEMMA ReconcileInformed ==
    ASSUME TruthInv, Notify, Reconcile, Current'
    PROVE  Informed'
<1>1. /\ ws' = ws /\ pod' = pod /\ pvc' = pvc /\ child' = child /\ timer' = timer
      /\ pc' = FirstStep(cachedWs) /\ at' = 1 /\ image' = image
      /\ pc' # "idle" => obj' = cachedWs
      /\ pc' = "status" => sum' = Failed(FALSE, Condition("ValidationFailed"))
  BY DEF Reconcile, clusterVars
<1>2. unseen = {}
  BY DEF Current, Notify
<1>3. cachedWs = ws
  BY <1>2 DEF TruthInv, CachesRight
<1>4. pc' \in {"idle", "removeFinalizer", "status", "addFinalizer", "ensure"}
  BY <1>1, FirstStepType DEF TruthInv, TypeOK, OperatorTypeOK
<1>5. /\ pc' # "idle" => Exists(ws)
      /\ pc' = "idle" /\ Exists(ws) => ws.status.phase = "Stopped"
      /\ pc' = "removeFinalizer" => ws.deleting
      /\ pc' = "addFinalizer" => ~ws.finalizer
      /\ pc' = "status" => ~ValidateSpec(ws)
  BY <1>1, <1>3 DEF FirstStep, Parked, Deleted
<1>6. ws.deleting \in BOOLEAN /\ ws.finalizer \in BOOLEAN
  BY DEF TruthInv, TypeOK, ClusterTypeOK, Workspaces
<1>7. KnowsWorkspace'
  BY <1>1, <1>3, <1>4, <1>5, <1>6 DEF KnowsWorkspace, SameButTime, Exists
<1>8. KnowsChildren'
  <2>1. \A i \in 1..Len(GuardSeq) : ~(i < at')
    BY <1>1, GuardsNonEmpty
  <2> QED
    BY <1>4, <2>1 DEF KnowsChildren
<1>9. pc' = "status" => IsTrue(sum)' /\ sum'.phase # "Running"
  <2>1. /\ Failed(FALSE, Condition("ValidationFailed")).phase = "Failed"
        /\ Failed(FALSE, Condition("ValidationFailed")).ready = Condition("ValidationFailed")
    BY DEF Failed, Summary
  <2>2. ~ValidateSpec(ws) => ~ValidateSpec(ws)'
    BY <1>1 DEF ValidateSpec
  <2>3. pc' = "status" => Fails(sum)' /\ sum'.phase # "Running"
    BY <1>1, <1>5, <2>1, <2>2 DEF Fails
  <2> QED
    BY <2>3 DEF IsTrue
<1>10. Reports'
  BY <1>1, <1>5, <1>9 DEF Reports, Exists
<1> QED
  BY <1>4, <1>7, <1>8, <1>10 DEF Informed, KnowsPod

(* CreateOrUpdate writes a child as it is wanted, or none.                   *)
LEMMA CreateOrUpdateWrites ==
    ASSUME NEW k \in Kinds,
           \/ CreateOrUpdateOk(k)
           \/ \E class \in Refusals : CreateOrUpdateErr(k, class)
    PROVE  child' = child \/ child' = [child EXCEPT ![k] = Desired(k)]
<1>1. Written(k) => child' = [child EXCEPT ![k] = Desired(k)]
  BY DEF Written
<1> QED
  BY <1>1 DEF CreateOrUpdateOk, CreateOrUpdateErr

(* The gateway leaves the children of the Workspace to the operator.         *)
LEMMA GatewayLeavesChildren ==
    ASSUME GatewayNext
    PROVE  child' = child
<1>1. PICK r \in Requests : \/ Arrive(r) \/ RequestFails(r) \/ RequestNext(r)
                            \/ GiveUp(r) \/ TouchLastAccessed(r) \/ SessionEnds(r)
  BY DEF GatewayNext
<1>2. CASE Arrive(r) \/ RequestFails(r) \/ GiveUp(r) \/ TouchLastAccessed(r) \/ SessionEnds(r)
  BY <1>2 DEF Arrive, RequestFails, GiveUp, TouchLastAccessed, SessionEnds, clusterVars
<1>3. CASE PageGet(r) \/ PageCreate(r) \/ PageClear(r) \/ Get(r) \/ Create(r)
  BY <1>3 DEF PageGet, PageCreate, PageClear, Get, Create, clusterVars
<1>4. CASE Poll(r) \/ Clear(r) \/ PollAgain(r) \/ Stamp(r)
  BY <1>4 DEF Poll, Clear, PollAgain, Stamp, clusterVars
<1> QED
  BY <1>1, <1>2, <1>3, <1>4 DEF RequestNext

(* Nobody gives a child more of the spec than it follows.                    *)
LEMMA NextPlain ==
    ASSUME TypeOK, PlainChildren, [Next]_vars
    PROVE  PlainChildren'
<1>1. CASE ClusterNext
  <2>1. ASSUME NEW k \in Kinds, CollectChild(k)
        PROVE  PlainChildren'
    BY <2>1, StayPlain DEF CollectChild
  <2>2. CASE ~\E k \in Kinds : CollectChild(k)
    <3>1. child' = child
      BY <1>1, <2>2 DEF ClusterNext, PodStarts, PodGone, PodDisturbed, VolumeLost,
         CollectPod, CollectPVC, UserDeletes, UserEdits, Tick
    <3> QED
      BY <3>1, StayPlain
  <2> QED
    BY <2>1, <2>2
<1>2. CASE GatewayNext
  <2>1. child' = child
    BY <1>2, GatewayLeavesChildren
  <2> QED
    BY <2>1, StayPlain
<1>3. CASE EnsureGuard
  <2>1. GuardSeq[at] \in Kinds
    BY DEF TypeOK, OperatorTypeOK, Kinds, Guards
  <2>2. child' = child \/ child' = [child EXCEPT ![GuardSeq[at]] = Desired(GuardSeq[at])]
    BY <1>3, <2>1, CreateOrUpdateWrites DEF EnsureGuard
  <2> QED
    BY <2>1, <2>2, StayPlain
<1>4. CASE EnsureService
  <2>1. Service \in Kinds
    BY DEF Kinds
  <2>2. child' = child \/ child' = [child EXCEPT ![Service] = Desired(Service)]
    BY <1>4, <2>1, CreateOrUpdateWrites DEF EnsureService
  <2> QED
    BY <2>1, <2>2, StayPlain
<1>5. CASE ReconcileNext /\ ~EnsureGuard /\ ~EnsureService
  <2>1. CASE Reconcile \/ ReconcileUnread \/ AddFinalizer \/ reconcileDelete \/ EnsurePVC
    BY <2>1, StayPlain DEF Reconcile, ReconcileUnread, AddFinalizer, reconcileDelete,
       EnsurePVC, clusterVars
  <2>2. CASE EnsurePod \/ SeedLastAccessed \/ PatchSeed
    BY <2>2, StayPlain DEF EnsurePod, SeedLastAccessed, PatchSeed, clusterVars
  <2>3. CASE StopIdle \/ ObservePod \/ updateStatus
    BY <2>3, StayPlain DEF StopIdle, ObservePod, updateStatus, clusterVars
  <2> QED
    BY <1>5, <2>1, <2>2, <2>3 DEF ReconcileNext
<1>6. CASE (\E x \in Watched : SeeEvent(x)) \/ TimerFires \/ Resync \/ Restart
  BY <1>6, StayPlain DEF SeeEvent, TimerFires, Resync, Restart, clusterVars
<1>7. CASE UNCHANGED vars
  BY <1>7, StayPlain DEF vars, clusterVars
<1> QED
  BY <1>1, <1>2, <1>3, <1>4, <1>5, <1>6, <1>7 DEF Next, OperatorNext

(* Every step of Reconcile keeps the invariant.                              *)
LEMMA ReconcileNextTruth ==
    ASSUME TruthInv, TypeOK', PlainChildren', ReconcileNext, Notify
    PROVE  TruthInv'
<1>a. UNCHANGED cacheVars
  BY ReconcileNextType DEF TruthInv, TypeOK
<1>1. CachesRight'
  BY <1>a, CachesStayRight DEF TruthInv
<1>2. ASSUME Current'
      PROVE  Informed'
  <2>1. CASE Reconcile
    BY <1>2, <2>1, ReconcileInformed
  <2>2. CASE ReconcileUnread
    <3>1. pc' = "idle" /\ timer'
      BY <2>2 DEF ReconcileUnread, localVars
    <3> QED
      BY <3>1, PendingInformed
  <2>3. CASE ~Reconcile /\ ~ReconcileUnread
    <3>1. queued' = queued /\ image' = image /\ pc # "idle"
      BY <2>3, StagesKeep
    <3>2. unseen = {} /\ ws' = ws /\ pod' = pod /\ pvc' = pvc /\ child' = child
      BY <1>2, NothingNew DEF TruthInv, Current
    <3>3. Current
      BY <1>2, <3>1, <3>2 DEF Current
    <3>4. StillCurrent
      BY <3>1, <3>2, <3>3 DEF StillCurrent
    <3> QED
      BY <2>3, <3>4, StagesInformed
  <2> QED
    BY <2>1, <2>2, <2>3
<1> QED
  BY <1>1, <1>2 DEF TruthInv

(* An event that is seen makes one cache more right.                         *)
LEMMA SeeEventTruth ==
    ASSUME TruthInv, TypeOK', PlainChildren', NEW x \in Watched, SeeEvent(x)
    PROVE  TruthInv'
<1>1. /\ unseen' = unseen \ {x} /\ queued' = TRUE
      /\ ws' = ws /\ pod' = pod /\ pvc' = pvc /\ child' = child
      /\ cachedWs' = IF x = "ws" THEN ws ELSE cachedWs
      /\ cachedPod' = IF x = "pod" THEN pod ELSE cachedPod
      /\ cachedPvc' = IF x = "pvc" THEN pvc ELSE cachedPvc
      /\ \A k \in Kinds : cachedChild'[k] = IF x = k THEN child[k] ELSE cachedChild[k]
  BY DEF SeeEvent, clusterVars
<1>2. \A y : y \notin unseen' => y = x \/ y \notin unseen
  BY <1>1
<1>3. CachesRight'
  BY <1>1, <1>2 DEF TruthInv, CachesRight
<1> QED
  BY <1>1, <1>3 DEF TruthInv, Current

(* Every step of the system keeps the invariant.                             *)
LEMMA TruthInvNext ==
    ASSUME TruthInv, [Next]_vars
    PROVE  TruthInv'
<1>a. TypeOK' /\ PlainChildren'
  BY NextType, NextPlain DEF TruthInv
<1>1. CASE (ClusterNext \/ GatewayNext) /\ Watches
  BY <1>1, <1>a, OutsideStepTruth DEF Watches
<1>2. CASE ReconcileNext /\ Notify
  BY <1>2, <1>a, ReconcileNextTruth
<1>3. ASSUME NEW x \in Watched, SeeEvent(x)
      PROVE  TruthInv'
  BY <1>3, <1>a, SeeEventTruth
<1>4. CASE TimerFires \/ Resync
  <2>1. /\ cachedWs' = cachedWs /\ cachedPod' = cachedPod /\ cachedPvc' = cachedPvc
        /\ cachedChild' = cachedChild /\ unseen' = unseen /\ queued' = TRUE
        /\ ws' = ws /\ pod' = pod /\ pvc' = pvc /\ child' = child
    BY <1>4 DEF TimerFires, Resync, clusterVars, cacheVars
  <2>2. CachesRight'
    BY <2>1 DEF TruthInv, CachesRight
  <2> QED
    BY <1>a, <2>1, <2>2 DEF TruthInv, Current
<1>5. CASE Restart
  <2>1. /\ cachedWs' = ws' /\ cachedPod' = pod' /\ cachedPvc' = pvc'
        /\ cachedChild' = child' /\ queued' = TRUE
    BY <1>5 DEF Restart
  <2>2. CachesRight'
    BY <2>1 DEF CachesRight
  <2> QED
    BY <1>a, <2>1, <2>2 DEF TruthInv, Current
<1>6. CASE UNCHANGED vars
  <2>1. /\ UNCHANGED <<ws, pod, pvc, child>> /\ UNCHANGED cacheVars
        /\ UNCHANGED <<unseen, queued, timer, image>> /\ UNCHANGED localVars
    BY <1>6 DEF vars, clusterVars, operatorVars
  <2>2. Notify
    BY <2>1 DEF Notify
  <2> QED
    BY <1>a, <2>1, <2>2, OutsideStepTruth
<1> QED
  BY <1>1, <1>2, <1>3, <1>4, <1>5, <1>6 DEF Next, OperatorNext

(* At the start there is nothing to know but the Workspace, an event to come.*)
LEMMA TruthInvInit ==
    ASSUME Init
    PROVE  TruthInv
<1>1. TypeOK
  BY InitType
<1>2. /\ pc = "idle" /\ cachedWs = NoWorkspace /\ cachedPod = pod /\ cachedPvc = pvc
      /\ cachedChild = child /\ unseen = IF Exists(ws) THEN {"ws"} ELSE {}
      /\ child = [k \in Kinds |-> NoChild]
  BY DEF Init, OperatorInit, ClusterInit
<1>3. ~Exists(ws) => ws = NoWorkspace
  BY NewWorkspaceType DEF Init, ClusterInit, Exists
<1>4. CachesRight
  BY <1>2, <1>3 DEF CachesRight
<1>5. PlainChildren
  BY <1>2 DEF PlainChildren, NoChild, Child
<1>6. Current => Informed
  BY <1>2 DEF Current, Informed, KnowsWorkspace, KnowsChildren, KnowsPod, Reports
<1> QED
  BY <1>1, <1>4, <1>5, <1>6 DEF TruthInv

(* What is at rest has said the truth.                                       *)
LEMMA TruthAtRest ==
    ASSUME TruthInv, Quiescent, Exists(ws), ws.status.phase # "Stopped"
    PROVE  /\ IsTrue(ws.status)
           /\ ws.status.phase = "Running" => LookAgain(ws) = "done"
BY DEF TruthInv, Quiescent, Current, Informed, Reports

(* When nothing is under way, a Workspace that says it is Running has a      *)
(* ready pod of the operator's image, behind objects that are its own and    *)
(* follow its spec, and a complete status: whatever updateStatus patched     *)
(* from stale copies, and whatever the gateway patched in between.           *)
THEOREM RunningAlwaysTrue == Spec => []RunningIsTrue
<1>1. Init => TruthInv
  BY TruthInvInit
<1>2. TruthInv /\ [Next]_vars => TruthInv'
  BY TruthInvNext
<1>3. TruthInv => RunningIsTrue
  <2>1. SUFFICES ASSUME TruthInv, Quiescent, Exists(ws), ws.status.phase = "Running"
                 PROVE  Provisioned
    BY DEF RunningIsTrue
  <2>2. Runs(ws.status) /\ ~pod.terminating
    BY <2>1, TruthAtRest DEF IsTrue, Fails, Progresses, Stops, Quiescent
  <2>3. \A k \in Kinds : /\ child[k].owner = ws.uid
                         /\ k \in DynamicKinds => child[k].spec = ws.spec
    <3>1. TAKE k \in Kinds
    <3>2. child[k] = Wanted(k)
      BY <2>2 DEF Runs
    <3>3. Wanted(k).owner = ws.uid /\ (k \in DynamicKinds => Wanted(k).spec = ws.spec)
      BY DEF Wanted, Child
    <3> QED
      BY <3>2, <3>3
  <2>4. DynamicKinds \subseteq Kinds
    BY ClusterAssumption DEF Kinds
  <2> QED
    BY <2>2, <2>3, <2>4 DEF Provisioned, Runs
<1> QED
  BY <1>1, <1>2, <1>3, PTL DEF Spec

(* When nothing is under way, a Workspace that says it has Failed names a    *)
(* cause that is there, or the failure of an API call.  A create or update   *)
(* refused because a cache was stale ends with no error to retry it; the     *)
(* event that made the cache stale is what brings Reconcile back.            *)
THEOREM FailuresAreTrue == Spec => []FailureIsTrue
<1>1. Init => TruthInv
  BY TruthInvInit
<1>2. TruthInv /\ [Next]_vars => TruthInv'
  BY TruthInvNext
<1>3. TruthInv => FailureIsTrue
  <2>1. SUFFICES ASSUME TruthInv, Quiescent, Exists(ws), ws.status.phase = "Failed"
                 PROVE  Fails(ws.status)
    BY DEF FailureIsTrue, Fails
  <2> QED
    BY <2>1, TruthAtRest DEF IsTrue, Runs, Progresses, Stops
<1> QED
  BY <1>1, <1>2, <1>3, PTL DEF Spec

(* A Running Workspace with an idle window is never at rest: the re-add by   *)
(* which Reconcile comes back to look at lastAccessed is never lost.         *)
THEOREM IdleAlwaysWatched == Spec => []IdleIsWatched
<1>1. Init => TruthInv
  BY TruthInvInit
<1>2. TruthInv /\ [Next]_vars => TruthInv'
  BY TruthInvNext
<1>3. TruthInv => IdleIsWatched
  <2>1. SUFFICES ASSUME TruthInv, Quiescent, Exists(ws), ws.status.phase = "Running"
                 PROVE  ~(effectiveIdleTimeout(ws) > 0)
    BY DEF IdleIsWatched
  <2> QED
    BY <2>1, TruthAtRest DEF LookAgain
<1> QED
  BY <1>1, <1>2, <1>3, PTL DEF Spec

-----------------------------------------------------------------------------
(* What is in order is left alone.                                           *)

(* A Reconcile that is current looks at a Workspace that is in order, and    *)
(* the API server answers.                                                   *)
AllWell ==
    /\ TruthInv /\ Current /\ InOrder /\ ~ReportsAPIError
    /\ UNCHANGED budget

(* No call fails without a disruption.                                       *)
LEMMA NoDisruption ==
    ASSUME AllWell, NEW kind
    PROVE  ~Disrupt(kind)
<1>1. budget \in Nat /\ budget' = budget
  BY DEF AllWell, TruthInv, TypeOK, ClusterTypeOK
<1> QED
  BY <1>1 DEF Disrupt

(* Every child is as it is wanted, and known to be.                          *)
LEMMA ChildrenInOrder ==
    ASSUME AllWell, pc # "idle", NEW k \in Kinds
    PROVE  cachedChild[k] = child[k] /\ Desired(k) = child[k]
<1>1. cachedChild[k] = child[k] /\ Desired(k) = Wanted(k)
  BY CurrentAgrees DEF AllWell
<1>2. child[k] \in [owner: Nat, spec: Specs \cup {NoSpec}]
  BY DEF AllWell, TruthInv, TypeOK, ClusterTypeOK, Children
<1>3. child[k].owner = ws.uid
  BY DEF AllWell, InOrder, Provisioned
<1>4. CASE k \in DynamicKinds
  <2>1. child[k].spec = ws.spec
    BY <1>4 DEF AllWell, InOrder, Provisioned
  <2>2. Wanted(k) = [owner |-> ws.uid, spec |-> ws.spec]
    BY <1>4 DEF Wanted, Child
  <2> QED
    BY <1>1, <1>2, <1>3, <2>1, <2>2
<1>5. CASE k \notin DynamicKinds
  <2>1. child[k].spec = NoSpec
    BY <1>5 DEF AllWell, TruthInv, PlainChildren
  <2>2. Wanted(k) = [owner |-> ws.uid, spec |-> NoSpec]
    BY <1>5 DEF Wanted, Child
  <2> QED
    BY <1>1, <1>2, <1>3, <2>1, <2>2
<1> QED
  BY <1>4, <1>5

(* So CreateOrUpdate finds nothing to do.                                    *)
LEMMA NothingToWrite ==
    ASSUME AllWell, pc # "idle", NEW k \in Kinds,
           \/ CreateOrUpdateOk(k)
           \/ \E class \in Refusals : CreateOrUpdateErr(k, class)
    PROVE  child' = child
BY ChildrenInOrder, NoDisruption DEF CreateOrUpdateOk, CreateOrUpdateErr

(* The report of a Workspace in order is the one it carries.                 *)
LEMMA NothingToReport ==
    ASSUME AllWell, pc = "status"
    PROVE  /\ sum.phase = ws.status.phase /\ sum.podName = ws.status.podName
           /\ sum.endpoint = ws.status.endpoint /\ sum.ready = ws.status.ready
<1>1. IsTrue(sum) /\ sum.ready.cause \notin ErrorClasses
  BY CurrentAgrees DEF AllWell, Informed, Reports, ReportsAPIError
<1>2. /\ ws.status.phase = "Running" /\ ValidateSpec(ws) /\ ~pvc.lost
      /\ pod.state = "Ready" /\ pod.owner # 0 /\ ~pod.terminating
      /\ ws.status.podName /\ ws.status.endpoint /\ ws.status.ready = Condition("Running")
  BY DEF AllWell, InOrder, Provisioned
<1>3. ws.status.podName = TRUE /\ ws.status.endpoint = TRUE
  <2>1. ws.status.podName \in BOOLEAN /\ ws.status.endpoint \in BOOLEAN
    BY DEF AllWell, TruthInv, TypeOK, ClusterTypeOK, Workspaces, Status
  <2> QED
    BY <1>2, <2>1
<1>4. "Ready" \notin PodFailures
  BY ClusterAssumption
<1>5. ~Fails(sum)
  BY <1>1, <1>2, <1>4 DEF Fails
<1>6. ~Progresses(sum)
  BY <1>1, <1>2 DEF Progresses
<1>7. ~Stops(sum)
  BY <1>2 DEF Stops
<1> QED
  BY <1>1, <1>2, <1>3, <1>5, <1>6, <1>7 DEF IsTrue, Runs

(* A patch from the status that is there to the same status changes nothing. *)
LEMMA NothingToPatch ==
    ASSUME NEW w \in Workspaces, NEW base \in Status, NEW new, base = w.status,
           /\ new.phase = base.phase /\ new.podName = base.podName
           /\ new.endpoint = base.endpoint /\ new.ready = base.ready
           /\ new.lastAccessed = base.lastAccessed
    PROVE  [w EXCEPT !.status = MergePatch(w.status, base, new)] = w
<1>1. MergePatch(w.status, base, new) = w.status
  <2>1. w.status \in Status
    BY DEF Workspaces
  <2> QED
    BY <2>1 DEF MergePatch, Status
<1> QED
  BY <1>1 DEF Workspaces

(* A status is its fields.                                                   *)
LEMMA SameStatus ==
    ASSUME NEW s \in Status, NEW t \in Status, s.phase = t.phase, s.podName = t.podName,
           s.endpoint = t.endpoint, s.ready = t.ready, s.lastAccessed = t.lastAccessed
    PROVE  s = t
BY DEF Status

(* updateStatus leaves it as it is.                                          *)
LEMMA StatusLeftAlone ==
    ASSUME AllWell, updateStatus
    PROVE  ws' = ws
<1>a. /\ pc = "status" /\ Exists(ws) /\ ws \in Workspaces /\ obj \in Workspaces
      /\ sum \in Summaries
  BY DEF AllWell, updateStatus, InOrder, TruthInv, TypeOK, ClusterTypeOK, OperatorTypeOK
<1>b. ws.status \in Status /\ obj.status \in Status
  BY <1>a DEF Workspaces
<1>c. SameButTime(obj, ws) /\ obj.status.lastAccessed = ws.status.lastAccessed
  BY <1>a, CurrentAgrees DEF AllWell, Informed, KnowsWorkspace
<1>1. obj.status = ws.status
  BY <1>b, <1>c, SameStatus DEF SameButTime
<1> DEFINE new == ApplyStatusSummary(obj.status, sum)
<1>2. /\ new.phase = sum.phase /\ new.podName = sum.podName
      /\ new.endpoint = sum.endpoint /\ new.ready = sum.ready
      /\ new.lastAccessed = obj.status.lastAccessed
  BY <1>a, <1>b DEF ApplyStatusSummary, Status, Summaries
<1>3. \/ ws' = ws
      \/ ws' = [ws EXCEPT !.status = MergePatch(ws.status, obj.status, new)]
  BY DEF updateStatus, PatchStatus
<1> HIDE DEF new
<1>4. /\ new.phase = obj.status.phase /\ new.podName = obj.status.podName
      /\ new.endpoint = obj.status.endpoint /\ new.ready = obj.status.ready
  BY <1>a, <1>1, <1>2, NothingToReport
<1> QED
  BY <1>a, <1>b, <1>1, <1>2, <1>3, <1>4, NothingToPatch

(* The stages that write leave all as it is.                                 *)
LEMMA StagesLeaveAlone ==
    ASSUME AllWell, ReconcileNext
    PROVE  UNCHANGED <<ws, pod, pvc, child>>
<1>a. /\ Informed /\ cachedPod = pod /\ cachedPvc = pvc
      /\ ~ws.deleting /\ ws.finalizer /\ InUse
      /\ pod.owner # 0 /\ ~pod.terminating /\ pod.image = image /\ pvc.owner # 0
  BY CurrentAgrees DEF AllWell, InOrder, Provisioned
<1>1. CASE Reconcile \/ ReconcileUnread \/ SeedLastAccessed \/ ObservePod
  BY <1>1 DEF Reconcile, ReconcileUnread, SeedLastAccessed, ObservePod, clusterVars
<1>2. CASE AddFinalizer \/ reconcileDelete
  BY <1>2, <1>a DEF AddFinalizer, reconcileDelete, Informed, KnowsWorkspace
<1>3. CASE EnsureGuard
  <2>1. pc # "idle" /\ GuardSeq[at] \in Kinds
    BY <1>3 DEF EnsureGuard, AllWell, TruthInv, TypeOK, OperatorTypeOK, Kinds, Guards
  <2>2. child' = child
    BY <1>3, <2>1, NothingToWrite DEF EnsureGuard
  <2> QED
    BY <1>3, <2>2 DEF EnsureGuard
<1>4. CASE EnsurePVC
  BY <1>4, <1>a, NoDisruption DEF EnsurePVC
<1>5. CASE EnsurePod
  BY <1>5, <1>a, NoDisruption DEF EnsurePod, OutdatedImage
<1>6. CASE EnsureService
  <2>1. pc # "idle" /\ Service \in Kinds
    BY <1>6 DEF EnsureService, Kinds
  <2>2. child' = child
    BY <1>6, <2>1, NothingToWrite DEF EnsureService
  <2> QED
    BY <1>6, <2>2 DEF EnsureService
<1>7. CASE PatchSeed
  BY <1>7, <1>a DEF PatchSeed, Informed, KnowsWorkspace, InUse
<1>8. CASE StopIdle
  <2>1. /\ obj.spec = ws.spec /\ obj.status.lastAccessed = ws.status.lastAccessed
        /\ effectiveIdleTimeout(obj) > 0 /\ Idle
    BY <1>8, <1>a DEF StopIdle, MayIdle, Informed, KnowsWorkspace, SameButTime
  <2>2. effectiveIdleTimeout(obj) = effectiveIdleTimeout(ws)
    BY <2>1, SameWindow
  <2> QED
    BY <1>a, <2>1, <2>2 DEF Idle, InUse
<1>9. CASE updateStatus
  BY <1>9, StatusLeftAlone DEF updateStatus
<1> QED
  BY <1>1, <1>2, <1>3, <1>4, <1>5, <1>6, <1>7, <1>8, <1>9 DEF ReconcileNext

(* A Reconcile that looks at a Workspace in order as it is writes nothing:   *)
(* what the operator writes comes back to it as an event, and this is why it *)
(* does not keep itself busy for ever.                                       *)
THEOREM OrderLeftAlone == Spec => LeftAlone
<1>1. Init => TruthInv
  BY TruthInvInit
<1>2. TruthInv /\ [Next]_vars => TruthInv'
  BY TruthInvNext
<1>3. TruthInv /\ [Next]_vars =>
        [Current /\ InOrder /\ ~ReportsAPIError /\ ReconcileNext /\ UNCHANGED budget =>
            UNCHANGED <<ws, pod, pvc, child>>]_vars
  BY StagesLeaveAlone DEF AllWell
<1> QED
  BY <1>1, <1>2, <1>3, PTL DEF Spec, LeftAlone

=============================================================================

-------------------------------- MODULE Tunnel --------------------------------
(***************************************************************************)
(* One terminal session of the gateway: handleWS of cmd/gateway/main.go    *)
(* from the readiness check on, and ServeWS with its two copyFrames        *)
(* goroutines of pkg/gateway/proxy.go.                                     *)
(*                                                                         *)
(* A copy loop is named after the peer it reads from.  Frames of a peer    *)
(* are numbered; of a frame only its number is kept.  A connection is what *)
(* the gateway holds, a peer what is at its other end.  The clock counts   *)
(* minutes, the spacing of stamps.                                         *)
(***************************************************************************)
EXTENDS SessionRecorder, FiniteSets

CONSTANTS
    MaxFrames,      \* how many frames each peer may send
    WireCapacity,   \* frames the network holds for a peer that does not read
    MaxMinutes      \* the end of the clock

VARIABLES
    hpc,            \* where handleWS stands
    outcome,        \* what ServeWS has returned
    audit,          \* the session's audit events
    conn,           \* the gateway's connection to each peer
    peer,           \* whether a peer is there, has closed, or has failed
    sent,           \* frames each peer has sent
    taken,          \* those the loop has read
    forwarded,      \* those it has written to the other peer
    received,       \* those the other peer has read
    loop,           \* where each copy loop stands
    errc,           \* errors in the channel
    lastTouch,      \* shared by the loops: when activity was last stamped
    stamps,         \* stamps decided on in the current minute
    minute

tunnelVars == <<hpc, outcome, audit, conn, peer, sent, taken, forwarded, received,
                loop, errc, lastTouch, stamps, minute>>

vars == <<recorderVars, tunnelVars>>

Peers == {"client", "backend"}

ASSUME TunnelAssumption ==
    /\ MaxFrames \in [Peers -> Nat]
    /\ MaxMinutes \in Nat \ {0}

Other(p) == IF p = "client" THEN "backend" ELSE "client"

(* The direction each loop is given by ServeWS: the one that reads the        *)
(* backend is started as "client_to_backend".                                 *)
Direction(p) == IF p = "backend" THEN "client_to_backend" ELSE "backend_to_client"

LoopPCs == {"off", "read", "write", "touch", "store", "stamp", "record",
            "propagate", "send", "ended"}

TypeOK ==
    /\ file \in {"none", "open", "closed"}
    /\ encErr \in BOOLEAN
    /\ seq \in 0..MaxFrames["client"] + MaxFrames["backend"]
    /\ Len(records) <= seq
    /\ writeFaults \in 0..MaxWriteFaults
    /\ hpc \in {"check", "upgrade", "dial", "serving", "closing", "audit", "done"}
    /\ outcome \in {"none", "nil", "error"}
    /\ audit \subseteq {"start", "end"}
    /\ conn \in [Peers -> {"none", "open", "closed"}]
    /\ peer \in [Peers -> {"open", "closed", "broken"}]
    /\ \A p \in Peers :
        /\ 0 <= received[p] /\ received[p] <= forwarded[p]
        /\ forwarded[p] <= taken[p] /\ taken[p] <= sent[p] /\ sent[p] <= MaxFrames[p]
        /\ forwarded[p] < taken[p] => loop[p] \in {"write", "send", "ended"}
    /\ loop \in [Peers -> LoopPCs]
    /\ errc \in 0..2
    /\ lastTouch \in 0..minute
    /\ stamps \in Nat
    /\ minute \in 1..MaxMinutes

Init ==
    /\ RecorderInit
    /\ hpc = "check"
    /\ outcome = "none"
    /\ audit = {}
    /\ conn = [p \in Peers |-> "none"]
    /\ peer = [p \in Peers |-> "open"]
    /\ sent = [p \in Peers |-> 0]
    /\ taken = [p \in Peers |-> 0]
    /\ forwarded = [p \in Peers |-> 0]
    /\ received = [p \in Peers |-> 0]
    /\ loop = [p \in Peers |-> "off"]
    /\ errc = 0
    /\ lastTouch = 0
    /\ stamps = 0
    /\ minute = 1

-----------------------------------------------------------------------------
(* The peers and the clock.  A peer sends, reads, and closes in good order    *)
(* or not; an oversized frame counts as a failure of its sender.              *)

PeerSends(p) ==
    /\ conn[p] = "open" /\ peer[p] = "open" /\ sent[p] < MaxFrames[p]
    /\ sent' = [sent EXCEPT ![p] = @ + 1]
    /\ UNCHANGED <<recorderVars, hpc, outcome, audit, conn, peer, taken, forwarded,
                   received, loop, errc, lastTouch, stamps, minute>>

(* The other peer reads the next frame of p that it was sent.                 *)
PeerReads(p) ==
    /\ peer[Other(p)] = "open" /\ received[p] < forwarded[p]
    /\ received' = [received EXCEPT ![p] = @ + 1]
    /\ UNCHANGED <<recorderVars, hpc, outcome, audit, conn, peer, sent, taken,
                   forwarded, loop, errc, lastTouch, stamps, minute>>

PeerLeaves(p) ==
    /\ conn[p] = "open" /\ peer[p] = "open"
    /\ \E how \in {"closed", "broken"} : peer' = [peer EXCEPT ![p] = how]
    /\ UNCHANGED <<recorderVars, hpc, outcome, audit, conn, sent, taken, forwarded,
                   received, loop, errc, lastTouch, stamps, minute>>

MinutePasses ==
    /\ minute < MaxMinutes
    /\ minute' = minute + 1
    /\ stamps' = 0
    /\ UNCHANGED <<recorderVars, hpc, outcome, audit, conn, peer, sent, taken,
                   forwarded, received, loop, errc, lastTouch>>

-----------------------------------------------------------------------------
(* handleWS and ServeWS.                                                      *)

handlerOnly == <<peer, sent, taken, forwarded, received, lastTouch, stamps, minute>>

(* ttyd does not answer yet, or the session starts: a recorder is made and    *)
(* the start is audited.                                                      *)
StartSession ==
    /\ hpc = "check"
    /\ \/ hpc' = "done" /\ UNCHANGED <<recorderVars, audit>>
       \/ hpc' = "upgrade" /\ NewSessionRecorder /\ audit' = audit \cup {"start"}
    /\ UNCHANGED <<handlerOnly, outcome, conn, loop, errc>>

(* ServeWS returns; the deferred calls close the connections that were made.  *)
CloseAll == conn' = [p \in Peers |-> IF conn[p] = "open" THEN "closed" ELSE conn[p]]

UpgradeClient ==
    /\ hpc = "upgrade"
    /\ \/ hpc' = "dial" /\ conn' = [conn EXCEPT !["client"] = "open"] /\ UNCHANGED outcome
       \/ hpc' = "closing" /\ outcome' = "error" /\ UNCHANGED conn
    /\ UNCHANGED <<recorderVars, handlerOnly, audit, loop, errc>>

DialBackend ==
    /\ hpc = "dial"
    /\ \/ /\ hpc' = "serving"
          /\ conn' = [conn EXCEPT !["backend"] = "open"]
          /\ loop' = [p \in Peers |-> "read"]
          /\ UNCHANGED outcome
       \/ hpc' = "closing" /\ outcome' = "error" /\ CloseAll /\ UNCHANGED loop
    /\ UNCHANGED <<recorderVars, handlerOnly, audit, errc>>

(* err = <-errc: the first loop to end ends the session, without an error.    *)
ReturnOnFirstError ==
    /\ hpc = "serving" /\ errc > 0
    /\ errc' = errc - 1
    /\ outcome' = "nil"
    /\ CloseAll
    /\ hpc' = "closing"
    /\ UNCHANGED <<recorderVars, handlerOnly, audit, loop>>

CloseRecorder ==
    /\ hpc = "closing"
    /\ Close
    /\ hpc' = "audit"
    /\ UNCHANGED <<handlerOnly, outcome, audit, conn, loop, errc>>

AuditEnd ==
    /\ hpc = "audit"
    /\ audit' = IF outcome = "error" THEN audit \cup {"end"} ELSE audit
    /\ hpc' = "done"
    /\ UNCHANGED <<recorderVars, handlerOnly, outcome, conn, loop, errc>>

HandlerNext ==
    \/ StartSession \/ UpgradeClient \/ DialBackend
    \/ ReturnOnFirstError \/ CloseRecorder \/ AuditEnd

-----------------------------------------------------------------------------
(* copyFrames.  A read waits for a frame or an error, a write for room.       *)

loopOnly == <<hpc, outcome, audit, conn, peer, sent, received, minute>>

LoopGoes(p, next) == loop' = [loop EXCEPT ![p] = next]

ReadMessage(p) ==
    /\ loop[p] = "read"
    /\ \/ /\ conn[p] = "open" /\ peer[p] # "broken" /\ taken[p] < sent[p]
          /\ taken' = [taken EXCEPT ![p] = @ + 1]
          /\ LoopGoes(p, "write")
       \/ /\ conn[p] = "open" /\ peer[p] = "closed" /\ taken[p] = sent[p]
          /\ LoopGoes(p, "propagate")
          /\ UNCHANGED taken
       \/ /\ conn[p] = "closed" \/ peer[p] = "broken"
          /\ LoopGoes(p, "send")
          /\ UNCHANGED taken
    /\ UNCHANGED <<recorderVars, loopOnly, forwarded, errc, lastTouch, stamps>>

(* The network takes a frame for the other peer when there is room, and       *)
(* anything once that peer is gone, until the loss is noticed.                *)
CanWrite(p) ==
    /\ conn[Other(p)] = "open"
    /\ forwarded[p] - received[p] < WireCapacity \/ peer[Other(p)] # "open"

WriteFails(p) == conn[Other(p)] = "closed" \/ peer[Other(p)] # "open"

(* A faulty variant: a failed write is ignored.                               *)
WriteMessageUnchecked(p) ==
    /\ loop[p] = "write"
    /\ \/ CanWrite(p) /\ forwarded' = [forwarded EXCEPT ![p] = @ + 1]
       \/ WriteFails(p) /\ UNCHANGED forwarded
    /\ LoopGoes(p, "touch")
    /\ UNCHANGED <<recorderVars, loopOnly, taken, errc, lastTouch, stamps>>

WriteMessage(p) ==
    /\ loop[p] = "write"
    /\ \/ /\ CanWrite(p)
          /\ forwarded' = [forwarded EXCEPT ![p] = @ + 1]
          /\ LoopGoes(p, "touch")
       \/ WriteFails(p) /\ LoopGoes(p, "send") /\ UNCHANGED forwarded
    /\ UNCHANGED <<recorderVars, loopOnly, taken, errc, lastTouch, stamps>>

(* A close in good order is passed on, whether or not that works.             *)
PropagateClose(p) ==
    /\ loop[p] = "propagate"
    /\ CanWrite(p) \/ WriteFails(p)
    /\ LoopGoes(p, "send")
    /\ UNCHANGED <<recorderVars, loopOnly, taken, forwarded, errc, lastTouch, stamps>>

(***************************************************************************)
(* onActivity: at most once a minute by lastTouch, which both loops read   *)
(* and write without a lock.  A torn read is as good as one of the value   *)
(* before or of the value after the write; so reads and writes are atomic  *)
(* here, and nothing else is.                                              *)
(***************************************************************************)
CheckTouch(p) ==
    /\ loop[p] = "touch"
    /\ LoopGoes(p, IF lastTouch = minute THEN "record" ELSE "store")
    /\ UNCHANGED <<recorderVars, loopOnly, taken, forwarded, errc, lastTouch, stamps>>

(* A faulty variant: the time is not kept.                                    *)
StoreTouchNowhere(p) ==
    /\ loop[p] = "store"
    /\ stamps' = stamps + 1
    /\ LoopGoes(p, "stamp")
    /\ UNCHANGED <<recorderVars, loopOnly, taken, forwarded, errc, lastTouch>>

StoreTouch(p) ==
    /\ loop[p] = "store"
    /\ lastTouch' = minute
    /\ stamps' = stamps + 1
    /\ LoopGoes(p, "stamp")
    /\ UNCHANGED <<recorderVars, loopOnly, taken, forwarded, errc>>

(* TouchLastAccessed returns, whether or not its patch was accepted.          *)
TouchReturns(p) ==
    /\ loop[p] = "stamp"
    /\ LoopGoes(p, "record")
    /\ UNCHANGED <<recorderVars, loopOnly, taken, forwarded, errc, lastTouch, stamps>>

(* onFrame, which does nothing without a recorder.                            *)
ObserveFrame(p) ==
    /\ loop[p] = "record"
    /\ \/ file = "none" /\ UNCHANGED recorderVars
       \/ RecordFrame(Direction(p), taken[p])
    /\ LoopGoes(p, "read")
    /\ UNCHANGED <<loopOnly, taken, forwarded, errc, lastTouch, stamps>>

(* errc is buffered for both loops, so that the second can end without        *)
(* anybody receiving its error.  ErrcUnbuffered is a faulty variant.          *)
ErrcUnbuffered == errc = 0 /\ hpc = "serving"

ErrcHasRoom == errc < 2

SendError(p) ==
    /\ loop[p] = "send"
    /\ ErrcHasRoom
    /\ errc' = errc + 1
    /\ LoopGoes(p, "ended")
    /\ UNCHANGED <<recorderVars, loopOnly, taken, forwarded, lastTouch, stamps>>

LoopNext(p) ==
    \/ ReadMessage(p) \/ WriteMessage(p) \/ PropagateClose(p)
    \/ CheckTouch(p) \/ StoreTouch(p) \/ TouchReturns(p) \/ ObserveFrame(p) \/ SendError(p)

Next ==
    \/ HandlerNext
    \/ MinutePasses
    \/ \E p \in Peers : PeerSends(p) \/ PeerReads(p) \/ PeerLeaves(p) \/ LoopNext(p)

Spec == Init /\ [][Next]_vars

(* The handler and the loops go on when they can, and a peer reads what it    *)
(* is sent.  Nothing makes a peer send or leave.                              *)
Fairness ==
    /\ WF_vars(HandlerNext)
    /\ \A p \in Peers : WF_vars(LoopNext(p)) /\ WF_vars(PeerReads(p))

FairSpec == Spec /\ Fairness

-----------------------------------------------------------------------------
(* The recording is complete up to one frame: when the manifest is written    *)
(* and no write has failed, every frame that was forwarded has been recorded, *)
(* in its direction and in order, except for the one that the loop which had  *)
(* not ended may have been holding.                                           *)
RecordedInOrder ==
    \A i, j \in 1..Len(records) :
        i < j /\ records[i].entry.direction = records[j].entry.direction =>
            records[i].entry.frame < records[j].entry.frame

Missing == forwarded["client"] + forwarded["backend"] - Len(records)

OneFrameMissingAtMost ==
    /\ RecordedInOrder
    /\ manifest # NoManifest /\ writeFaults = MaxWriteFaults => Missing <= 1

(* The record of the session is a transcript, which the manifest seals: both  *)
(* loops add to it until Close, and a frame that comes later leaves it alone. *)
Log == INSTANCE Transcript WITH
    lines  <- records,
    sealed <- manifest # NoManifest,
    seal   <- manifest.finalHash

ImplementsTranscript == Log!Spec

(* Each loop stamps a minute at most once, although both read and write       *)
(* lastTouch without a lock.                                                  *)
StampsBounded == stamps <= Cardinality(Peers)

(* A loop that ends never waits to say so: errc has room for the error of     *)
(* each loop, even when ServeWS has returned and nobody receives any more.    *)
(* Otherwise every session would leave a goroutine and its buffers behind.    *)
SendNeverBlocks == \A p \in Peers : loop[p] = "send" => ErrcHasRoom

(* When a peer has gone, the session ends and so do both loops, whatever      *)
(* they were doing: closing the connections frees the one that still reads or *)
(* writes, and errc has room for its error.                                   *)
SessionsEnd ==
    (hpc = "serving" /\ \E p \in Peers : peer[p] # "open")
        ~> (hpc = "done" /\ \A p \in Peers : loop[p] = "ended")

-----------------------------------------------------------------------------
(* "devplane.audit.ws.session.end: WebSocket proxy returned (normal or        *)
(* error)" (docs/audit-events.md:31).                                         *)
ReturnIsAudited == hpc = "done" /\ "start" \in audit => "end" \in audit

=============================================================================

---------------------------- MODULE SessionRecorder ----------------------------
(***************************************************************************)
(* The recorder of a terminal session: pkg/gateway/session_recording.go.   *)
(*                                                                         *)
(* A record is one line of <session>.ndjson.  SHA-256 is taken to be       *)
(* injective, so that a hash is what was hashed: entryHash is the previous *)
(* hash with the entry appended to it.  Timestamps and payload digests are *)
(* abstracted to the identity of the frame.  Both methods hold the mutex   *)
(* from beginning to end, so each of them is one step.                     *)
(***************************************************************************)
EXTENDS Integers, Sequences

CONSTANT
    MaxWriteFaults  \* how often a write to the disk may fail

VARIABLES
    file,           \* "none": no recorder; "open"; "closed"
    encErr,         \* the json.Encoder has failed, and refuses all later calls
    seq,            \* frames counted
    prev,           \* the hash of the last record
    records,        \* the complete lines of the record file
    manifest,       \* the manifest file, NoManifest when there is none
    writeFaults     \* disk faults still to come

ASSUME RecorderAssumption == MaxWriteFaults \in Nat

recorderVars == <<file, encErr, seq, prev, records, manifest, writeFaults>>

GenesisHash == <<>>

NoManifest == [frameCount |-> -1, finalHash |-> GenesisHash]

Entry(n, direction, frame) == [seq |-> n, direction |-> direction, frame |-> frame]

RecorderInit ==
    /\ file = "none"
    /\ encErr = FALSE
    /\ seq = 0
    /\ prev = GenesisHash
    /\ records = <<>>
    /\ manifest = NoManifest
    /\ writeFaults = MaxWriteFaults

(* Recording is switched off, or directory or file cannot be made: the        *)
(* session goes on without a recorder.                                        *)
NewSessionRecorder ==
    /\ file' \in {"none", "open"}
    /\ UNCHANGED <<encErr, seq, prev, records, manifest, writeFaults>>

DiskFault == writeFaults > 0 /\ writeFaults' = writeFaults - 1

(* enc.Encode(rec): a line is written, or the call fails and so will all      *)
(* calls after it.  A line cut short is no record.                            *)
EncodeOk(rec) ==
    /\ file = "open" /\ ~encErr
    /\ records' = Append(records, rec)
    /\ UNCHANGED <<encErr, writeFaults>>

(* A faulty variant: the file is cut back behind a line too many.             *)
EncodeErrCutsBack ==
    /\ \/ (file = "closed" \/ encErr) /\ UNCHANGED writeFaults
       \/ file = "open" /\ ~encErr /\ DiskFault
    /\ encErr' = TRUE
    /\ records' = SubSeq(records, 1, Len(records) - 1)

EncodeErr ==
    /\ \/ (file = "closed" \/ encErr) /\ UNCHANGED writeFaults
       \/ file = "open" /\ ~encErr /\ DiskFault
    /\ encErr' = TRUE
    /\ UNCHANGED records

Chained(direction, frame) == Append(prev, Entry(seq + 1, direction, frame))

Record(direction, frame) ==
    [entry |-> Entry(seq + 1, direction, frame), prevHash |-> prev,
     entryHash |-> Chained(direction, frame)]

(* Faulty variants: the hash moves on even when the record is not written;    *)
(* every frame has an encoder of its own, which knows of no earlier failure;  *)
(* a frame that finds the mutex taken is left out.                            *)
RecordFrameHashFirst(direction, frame) ==
    /\ file # "none"
    /\ seq' = seq + 1
    /\ EncodeOk(Record(direction, frame)) \/ EncodeErr
    /\ prev' = Chained(direction, frame)
    /\ UNCHANGED <<file, manifest>>

RecordFrameForgiving(direction, frame) ==
    /\ file # "none"
    /\ seq' = seq + 1
    /\ \/ /\ file = "open"
          /\ records' = Append(records, Record(direction, frame))
          /\ prev' = Chained(direction, frame)
          /\ UNCHANGED <<encErr, writeFaults>>
       \/ EncodeErr /\ UNCHANGED prev
    /\ UNCHANGED <<file, manifest>>

RecordFrameIfFree(direction, frame) ==
    \/ UNCHANGED recorderVars
    \/ /\ file # "none"
       /\ seq' = seq + 1
       /\ EncodeOk(Record(direction, frame))
       /\ prev' = Chained(direction, frame)
       /\ UNCHANGED <<file, manifest>>

RecordFrame(direction, frame) ==
    /\ file # "none"
    /\ seq' = seq + 1
    /\ \/ EncodeOk(Record(direction, frame)) /\ prev' = Chained(direction, frame)
       \/ EncodeErr /\ UNCHANGED prev
    /\ UNCHANGED <<file, manifest>>

(* Close: the file is closed, and the manifest is written if that works.      *)
Close ==
    /\ \/ file # "open" /\ UNCHANGED <<file, manifest, writeFaults>>
       \/ /\ file = "open"
          /\ file' = "closed"
          /\ \/ /\ manifest' = [frameCount |-> seq, finalHash |-> prev]
                /\ UNCHANGED writeFaults
             \/ DiskFault /\ UNCHANGED manifest
    /\ UNCHANGED <<encErr, seq, prev, records>>

-----------------------------------------------------------------------------
(* The lines on disk verify as docs/audit-events.md describes it: each        *)
(* carries the hash of the one before it and the next number, whatever        *)
(* writes failed and in whatever order the two directions were recorded.      *)
HashAt(i) == IF i = 0 THEN GenesisHash ELSE records[i].entryHash

ChainIntact ==
    \A i \in 1..Len(records) :
        /\ records[i].entry.seq = i
        /\ records[i].prevHash = HashAt(i - 1)
        /\ records[i].entryHash = Append(records[i].prevHash, records[i].entry)

(* "that the manifest finalHash equals the last entry hash"                   *)
(* (audit-events.md:75): a frame that comes late never changes what a         *)
(* manifest has sealed, and the frames it counts are all on disk unless a     *)
(* write has failed.                                                          *)
ManifestSeals ==
    manifest # NoManifest =>
        /\ manifest.finalHash = HashAt(Len(records))
        /\ writeFaults = MaxWriteFaults => manifest.frameCount = Len(records)

=============================================================================

---------------------------- MODULE SessionProofs ----------------------------
(* What a session recording is worth, for any number of frames and faults.   *)
EXTENDS Tunnel, FiniteSetTheorems, TLAPS

Directions == {"client_to_backend", "backend_to_client"}

Entries == [seq: Nat, direction: Directions, frame: Nat]

Records == [entry: Entries, prevHash: Seq(Entries), entryHash: Seq(Entries)]

-----------------------------------------------------------------------------
(* The recorder.                                                             *)

(* Why recordings verify: prev is the hash of the last line, the numbers are *)
(* those of the lines until a write fails, and once one has, none follows.   *)
RecorderInv ==
    /\ file \in {"none", "open", "closed"}
    /\ encErr \in BOOLEAN
    /\ seq \in Nat
    /\ prev \in Seq(Entries)
    /\ records \in Seq(Records)
    /\ writeFaults \in 0..MaxWriteFaults
    /\ prev = HashAt(Len(records))
    /\ ChainIntact
    /\ file = "none" => seq = 0 /\ Len(records) = 0 /\ encErr = FALSE
    /\ file = "open" /\ encErr = FALSE => seq = Len(records)
    /\ file = "open" /\ encErr = TRUE => writeFaults < MaxWriteFaults
    /\ file # "closed" => manifest = NoManifest
    /\ ManifestSeals

(* A new recorder has recorded nothing.                                      *)
LEMMA NewSessionRecorderKeeps ==
    ASSUME RecorderInv, file = "none", NewSessionRecorder
    PROVE  RecorderInv'
BY DEF RecorderInv, NewSessionRecorder, ChainIntact, HashAt, ManifestSeals

(* Append adds one element at the end.                                       *)
LEMMA AppendAdds ==
    ASSUME NEW S, NEW s \in Seq(S), NEW e \in S
    PROVE  /\ Append(s, e) \in Seq(S) /\ Len(s) \in Nat /\ Len(Append(s, e)) = Len(s) + 1
           /\ Append(s, e)[Len(s) + 1] = e
           /\ \A i \in 1..Len(s) : Append(s, e)[i] = s[i]
OBVIOUS

(* A record is made of typed parts.                                          *)
LEMMA RecordType ==
    ASSUME RecorderInv, NEW direction \in Directions, NEW frame \in Nat
    PROVE  /\ Entry(seq + 1, direction, frame) \in Entries
           /\ Chained(direction, frame) \in Seq(Entries)
           /\ Record(direction, frame) \in Records
<1>1. Entry(seq + 1, direction, frame) \in Entries
  BY DEF RecorderInv, Entry, Entries
<1>2. Chained(direction, frame) \in Seq(Entries)
  BY <1>1 DEF RecorderInv, Chained
<1> QED
  BY <1>1, <1>2 DEF Record, Records, RecorderInv

(* A line that is written continues the chain.                               *)
LEMMA EncodeOkKeeps ==
    ASSUME RecorderInv, NEW direction \in Directions, NEW frame \in Nat,
           EncodeOk(Record(direction, frame)), prev' = Chained(direction, frame),
           seq' = seq + 1, UNCHANGED <<file, manifest>>
    PROVE  RecorderInv'
<1>n. PICK n : n = Len(records)
  OBVIOUS
<1> DEFINE rec == Record(direction, frame)
<1>a. rec \in Records /\ Chained(direction, frame) \in Seq(Entries)
  BY RecordType
<1>b. /\ records \in Seq(Records) /\ n \in Nat /\ seq = n /\ prev = HashAt(n)
      /\ file = "open" /\ encErr = FALSE /\ manifest = NoManifest
      /\ writeFaults \in 0..MaxWriteFaults
  BY <1>n DEF RecorderInv, EncodeOk
<1>c. file' = file /\ encErr' = encErr /\ manifest' = manifest /\ writeFaults' = writeFaults
  BY DEF EncodeOk
<1>d. /\ rec.entry = Entry(seq + 1, direction, frame) /\ rec.entry.seq = seq + 1
      /\ rec.prevHash = prev /\ rec.entryHash = Append(prev, rec.entry)
      /\ rec.entryHash = Chained(direction, frame)
  BY DEF Record, Entry, Chained
<1>1. /\ records' = Append(records, rec) /\ records' \in Seq(Records) /\ Len(records') = n + 1
      /\ records'[n + 1] = rec
      /\ \A i \in 1..n : records'[i] = records[i]
  <2>1. records' = Append(records, rec)
    BY DEF EncodeOk
  <2> HIDE DEF rec
  <2> QED
    BY <1>a, <1>b, <1>n, <2>1
<1> HIDE DEF rec
<1>2. \A i \in 0..n : HashAt(i)' = HashAt(i)
  BY <1>1, <1>b DEF HashAt
<1>3. HashAt(n + 1)' = rec.entryHash
  BY <1>1, <1>b DEF HashAt
<1>4. ASSUME NEW i \in 1..n + 1
      PROVE  /\ records'[i].entry.seq = i
             /\ records'[i].prevHash = HashAt(i - 1)'
             /\ records'[i].entryHash = Append(records'[i].prevHash, records'[i].entry)
  <2>1. CASE i = n + 1
    <3>1. HashAt(i - 1)' = HashAt(n)
      BY <2>1, <1>2, <1>b
    <3> QED
      BY <2>1, <3>1, <1>1, <1>b, <1>d
  <2>2. CASE i # n + 1
    <3>1. i \in 1..n /\ i - 1 \in 0..n
      BY <1>b, <2>2
    <3>2. /\ records[i].entry.seq = i
          /\ records[i].prevHash = HashAt(i - 1)
          /\ records[i].entryHash = Append(records[i].prevHash, records[i].entry)
      BY <3>1, <1>n DEF RecorderInv, ChainIntact
    <3> QED
      BY <3>1, <3>2, <1>1, <1>2
  <2> QED
    BY <2>1, <2>2
<1>5. ChainIntact'
  BY <1>1, <1>4 DEF ChainIntact
<1>6. ManifestSeals'
  BY <1>b, <1>c DEF ManifestSeals, NoManifest
<1>7. prev' = HashAt(Len(records))'
  BY <1>1, <1>3, <1>d
<1> QED
  BY <1>a, <1>b, <1>c, <1>1, <1>5, <1>6, <1>7 DEF RecorderInv

(* A line that is not written leaves the chain as it was.                    *)
LEMMA EncodeErrKeeps ==
    ASSUME RecorderInv, EncodeErr, UNCHANGED <<prev, file, manifest>>, seq' = seq + 1,
           file # "none"
    PROVE  RecorderInv'
<1>1. records' = records /\ encErr' = TRUE /\ writeFaults' \in {writeFaults, writeFaults - 1}
  BY DEF EncodeErr, DiskFault
<1>2. writeFaults' \in 0..MaxWriteFaults
  BY RecorderAssumption DEF RecorderInv, EncodeErr, DiskFault
<1>3. \A i \in 0..Len(records) : HashAt(i)' = HashAt(i)
  BY <1>1 DEF HashAt
<1>4. ChainIntact' /\ HashAt(Len(records))' = HashAt(Len(records))
  BY <1>1 DEF RecorderInv, ChainIntact, HashAt
<1>5. file' = "open" => writeFaults' < MaxWriteFaults
  BY <1>2, RecorderAssumption DEF RecorderInv, EncodeErr, DiskFault
<1>6. file = "closed" => writeFaults' = writeFaults
  BY DEF EncodeErr
<1>7. ManifestSeals'
  BY <1>1, <1>4, <1>6 DEF RecorderInv, ManifestSeals, NoManifest
<1> QED
  BY <1>1, <1>2, <1>4, <1>5, <1>7 DEF RecorderInv

(* The manifest seals what is on disk.                                       *)
LEMMA CloseKeeps ==
    ASSUME RecorderInv, Close
    PROVE  RecorderInv'
<1>1. UNCHANGED <<encErr, seq, prev, records>>
  BY DEF Close
<1>2. ChainIntact' /\ HashAt(Len(records))' = HashAt(Len(records))
  BY <1>1 DEF RecorderInv, ChainIntact, HashAt
<1>3. CASE UNCHANGED <<file, manifest, writeFaults>>
  BY <1>1, <1>2, <1>3 DEF RecorderInv, ManifestSeals
<1>4. CASE file = "open" /\ file' = "closed"
  <2>1. writeFaults' \in 0..MaxWriteFaults
    BY <1>4, RecorderAssumption DEF RecorderInv, Close, DiskFault
  <2>2. ManifestSeals'
    BY <1>1, <1>2, <1>4, RecorderAssumption
    DEF RecorderInv, Close, DiskFault, ManifestSeals, NoManifest
  <2> QED
    BY <1>1, <1>2, <1>4, <2>1, <2>2 DEF RecorderInv
<1> QED
  BY <1>3, <1>4 DEF Close

-----------------------------------------------------------------------------
(* The session around it.                                                    *)

TunnelTypes ==
    /\ hpc \in {"check", "upgrade", "dial", "serving", "closing", "audit", "done"}
    /\ conn \in [Peers -> {"none", "open", "closed"}]
    /\ loop \in [Peers -> LoopPCs]
    /\ taken \in [Peers -> Nat]
    /\ forwarded \in [Peers -> Nat]
    /\ errc \in Nat /\ lastTouch \in Nat /\ stamps \in Nat /\ minute \in Nat

(* The handler waits for a loop to end before it closes anything, and all is *)
(* closed before the recorder is.                                            *)
Stages ==
    /\ hpc = "check" => file = "none"
    /\ hpc \in {"check", "upgrade"} => \A p \in Peers : conn[p] # "open"
    /\ hpc \in {"check", "upgrade", "dial"} =>
        \A p \in Peers : loop[p] = "off" /\ forwarded[p] = 0
    /\ file = "closed" => hpc \in {"audit", "done"}
    /\ hpc \in {"closing", "audit", "done"} =>
        /\ \A p \in Peers : conn[p] # "open"
        /\ \E p \in Peers : loop[p] \in {"off", "ended"}
    /\ errc > 0 => \E p \in Peers : loop[p] = "ended"

(* A frame that was forwarded has been given to the recorder, unless its     *)
(* loop still holds it.                                                      *)
Holds(p) == loop[p] \in {"touch", "store", "stamp", "record"}

Holding(p) == IF Holds(p) THEN 1 ELSE 0

Counted ==
    file # "none" =>
        seq + Holding("client") + Holding("backend")
            = forwarded["client"] + forwarded["backend"]

Ordered ==
    /\ RecordedInOrder
    /\ \A p \in Peers, i \in 1..Len(records) :
        records[i].entry.direction = Direction(p) =>
            /\ records[i].entry.frame <= taken[p]
            /\ loop[p] = "write" \/ Holds(p) => records[i].entry.frame < taken[p]

Sealed == manifest # NoManifest /\ writeFaults = MaxWriteFaults => Missing <= 1

(* Who has found lastTouch old has not stamped this minute.                  *)
Storing(p) == IF loop[p] = "store" THEN 1 ELSE 0

Touched ==
    /\ lastTouch <= minute
    /\ lastTouch < minute => stamps = 0
    /\ stamps + Storing("client") + Storing("backend") <= 2

SessionInv ==
    RecorderInv /\ TunnelTypes /\ Stages /\ Counted /\ Ordered /\ Sealed /\ Touched

(* The two peers.                                                            *)
LEMMA ThePeers ==
    /\ "client" \in Peers /\ "backend" \in Peers
    /\ \A p \in Peers : /\ Other(p) \in Peers /\ Other(p) # p
                         /\ \A q \in Peers : q = p \/ q = Other(p)
BY DEF Peers, Other

(* A loop that goes on leaves the other where it is.                         *)
LEMMA LoopGoesType ==
    ASSUME TunnelTypes, NEW p \in Peers, NEW next \in LoopPCs, LoopGoes(p, next)
    PROVE  /\ loop' \in [Peers -> LoopPCs]
           /\ loop'[p] = next
           /\ \A q \in Peers : q # p => loop'[q] = loop[q]
BY DEF TunnelTypes, LoopGoes

(* A step of a loop that leaves recorder, connections and errors alone: it   *)
(* keeps the invariant if it keeps count of frames and stamps.               *)
LEMMA LoopStepKeeps ==
    ASSUME SessionInv, NEW p \in Peers, NEW next \in LoopPCs, LoopGoes(p, next),
           UNCHANGED <<recorderVars, hpc, conn, minute>>,
           loop[p] \notin {"off", "ended"},
           errc' = errc \/ (next = "ended" /\ errc' = errc + 1),
           \/ taken' = taken /\ (next = "write" \/ Holds(p)' => loop[p] = "write" \/ Holds(p))
           \/ taken' = [taken EXCEPT ![p] = @ + 1] /\ next = "write",
           \/ forwarded' = forwarded /\ (Holding(p)' = Holding(p) \/ file = "none")
           \/ /\ forwarded' = [forwarded EXCEPT ![p] = @ + 1]
              /\ ~Holds(p) /\ Holds(p)' /\ conn[Other(p)] = "open",
           \/ UNCHANGED <<lastTouch, stamps>> /\ (next = "store" => lastTouch # minute)
           \/ loop[p] = "store" /\ next # "store" /\ lastTouch' = minute /\ stamps' = stamps + 1
    PROVE  SessionInv'
<1>a. /\ TunnelTypes /\ RecorderInv
      /\ file' = file /\ records' = records /\ seq' = seq /\ manifest' = manifest
      /\ writeFaults' = writeFaults /\ encErr' = encErr /\ prev' = prev
      /\ hpc' = hpc /\ conn' = conn /\ minute' = minute
  BY DEF SessionInv, recorderVars
<1>b. /\ loop' \in [Peers -> LoopPCs] /\ loop'[p] = next
      /\ \A q \in Peers : q # p => loop'[q] = loop[q]
  BY <1>a, LoopGoesType
<1>1. RecorderInv'
  BY <1>a DEF RecorderInv, ChainIntact, HashAt, ManifestSeals
<1>2. TunnelTypes'
  BY <1>a, <1>b DEF TunnelTypes
<1>3. Stages'
  <2>1. hpc \notin {"check", "upgrade", "dial"}
    BY DEF SessionInv, Stages
  <2>2. ASSUME NEW q \in Peers, loop[q] \in {"off", "ended"}
        PROVE  loop'[q] = loop[q]
    BY <1>b, <2>2
  <2>3. errc' > 0 => \E q \in Peers : loop'[q] = "ended"
    BY <1>a, <1>b, <2>2 DEF SessionInv, Stages, TunnelTypes
  <2> QED
    BY <1>a, <2>1, <2>2, <2>3 DEF SessionInv, Stages
<1>4. Counted' /\ Sealed'
  <2>1. \A q \in Peers : q # p => Holding(q)' = Holding(q)
    BY <1>b DEF Holding, Holds
  <2>0. CASE file = "none"
    BY <1>a, <2>0 DEF Counted, Sealed, RecorderInv
  <2>2. CASE forwarded' = forwarded /\ Holding(p)' = Holding(p)
    <3>1. Holding("client")' = Holding("client") /\ Holding("backend")' = Holding("backend")
      BY <2>1, <2>2, ThePeers
    <3> QED
      BY <1>a, <2>2, <3>1 DEF SessionInv, Counted, Sealed, Missing
  <2>3. CASE /\ forwarded' = [forwarded EXCEPT ![p] = @ + 1]
             /\ ~Holds(p) /\ Holds(p)' /\ conn[Other(p)] = "open"
    <3>1. Holding(p) = 0 /\ Holding(p)' = 1
      BY <2>3 DEF Holding
    <3>2. /\ forwarded'[p] = forwarded[p] + 1 /\ forwarded[p] \in Nat
          /\ \A q \in Peers : q # p => forwarded'[q] = forwarded[q] /\ forwarded[q] \in Nat
      BY <1>a, <2>3 DEF TunnelTypes
    <3>3. Holding("client") \in Nat /\ Holding("backend") \in Nat /\ seq \in Nat
      BY <1>a DEF Holding, RecorderInv
    <3>4. Counted'
      BY <1>a, <2>1, <3>1, <3>2, <3>3, ThePeers DEF SessionInv, Counted, Peers
    <3>5. file # "closed"
      BY <2>3, ThePeers DEF SessionInv, Stages
    <3> QED
      BY <1>a, <3>4, <3>5 DEF Sealed, RecorderInv
  <2> QED
    BY <2>0, <2>2, <2>3
<1>5. Ordered'
  <2>1. RecordedInOrder'
    BY <1>a DEF SessionInv, Ordered, RecordedInOrder
  <2>2. ASSUME NEW q \in Peers, NEW i \in 1..Len(records),
               records[i].entry.direction = Direction(q)
        PROVE  /\ records[i].entry.frame <= taken'[q]
               /\ loop'[q] = "write" \/ Holds(q)' => records[i].entry.frame < taken'[q]
    <3>1. /\ records[i].entry.frame <= taken[q]
          /\ loop[q] = "write" \/ Holds(q) => records[i].entry.frame < taken[q]
      BY <2>2 DEF SessionInv, Ordered
    <3>2. records[i].entry.frame \in Nat /\ taken[q] \in Nat
      <4>1. records[i] \in Records
        BY <1>a, <2>2 DEF RecorderInv
      <4> QED
        BY <1>a, <4>1 DEF Records, Entries, TunnelTypes
    <3>3. CASE q # p
      BY <1>a, <1>b, <3>1, <3>3 DEF Holds, TunnelTypes
    <3>4. CASE q = p
      BY <1>a, <1>b, <3>1, <3>2, <3>4 DEF TunnelTypes
    <3> QED
      BY <3>3, <3>4
  <2>3. Len(records') = Len(records) /\ \A q \in Peers : Direction(q)' = Direction(q)
    BY <1>a DEF Direction
  <2> QED
    BY <1>a, <2>1, <2>2, <2>3 DEF Ordered
<1>6. Touched'
  <2>1. \A q \in Peers : q # p => Storing(q)' = Storing(q)
    BY <1>b DEF Storing
  <2>2. \A q \in Peers : Storing(q) \in {0, 1}
    BY DEF Storing
  <2>3. CASE UNCHANGED <<lastTouch, stamps>> /\ (next = "store" => lastTouch # minute)
    <3>1. CASE next # "store"
      <4>1. Storing(p)' = 0
        BY <1>b, <3>1 DEF Storing
      <4> QED
        BY <1>a, <2>1, <2>2, <2>3, <4>1, ThePeers DEF SessionInv, Touched, TunnelTypes, Peers
    <3>2. CASE next = "store"
      <4>1. lastTouch < minute /\ stamps = 0
        BY <1>a, <2>3, <3>2 DEF SessionInv, Touched, TunnelTypes
      <4>2. \A q \in Peers : Storing(q)' \in {0, 1}
        BY DEF Storing
      <4> QED
        BY <1>a, <2>3, <4>1, <4>2, ThePeers DEF SessionInv, Touched, TunnelTypes
    <3> QED
      BY <3>1, <3>2
  <2>4. CASE loop[p] = "store" /\ next # "store" /\ lastTouch' = minute /\ stamps' = stamps + 1
    <3>1. Storing(p) = 1 /\ Storing(p)' = 0
      BY <1>b, <2>4 DEF Storing
    <3> QED
      BY <1>a, <2>1, <2>2, <2>4, <3>1, ThePeers DEF SessionInv, Touched, TunnelTypes, Peers
  <2> QED
    BY <2>3, <2>4
<1> QED
  BY <1>1, <1>2, <1>3, <1>4, <1>5, <1>6 DEF SessionInv

(* A frame that its loop gives to the recorder is later than all that the    *)
(* loop gave it before.                                                      *)
LEMMA ObserveFrameKeeps ==
    ASSUME SessionInv, NEW p \in Peers, loop[p] = "record", LoopGoes(p, "read"),
           RecordFrame(Direction(p), taken[p]),
           UNCHANGED <<hpc, conn, minute, taken, forwarded, errc, lastTouch, stamps>>
    PROVE  SessionInv'
<1>a. /\ TunnelTypes /\ RecorderInv
      /\ file' = file /\ manifest' = manifest /\ seq' = seq + 1 /\ file # "none"
      /\ hpc' = hpc /\ conn' = conn /\ minute' = minute /\ taken' = taken
      /\ forwarded' = forwarded /\ errc' = errc /\ lastTouch' = lastTouch /\ stamps' = stamps
  BY DEF SessionInv, RecordFrame
<1>b. /\ loop' \in [Peers -> LoopPCs] /\ loop'[p] = "read"
      /\ \A q \in Peers : q # p => loop'[q] = loop[q]
  BY <1>a, LoopGoesType DEF LoopPCs
<1>c. Direction(p) \in Directions /\ taken[p] \in Nat
  <2>1. Direction(p) \in Directions
    BY DEF Direction, Directions
  <2> QED
    BY <1>a, <2>1 DEF TunnelTypes
<1>1. RecorderInv'
  BY <1>a, <1>c, EncodeOkKeeps, EncodeErrKeeps DEF RecordFrame
<1>2. TunnelTypes'
  BY <1>a, <1>b DEF TunnelTypes
<1>3. Stages'
  <2>1. hpc \notin {"check", "upgrade", "dial"}
    BY DEF SessionInv, Stages
  <2>2. ASSUME NEW q \in Peers, loop[q] \in {"off", "ended"}
        PROVE  loop'[q] = loop[q]
    BY <1>b, <2>2
  <2> QED
    BY <1>a, <2>1, <2>2 DEF SessionInv, Stages
<1>4. Counted'
  <2>1. Holding(p) = 1 /\ Holding(p)' = 0 /\ \A q \in Peers : q # p => Holding(q)' = Holding(q)
    BY <1>b DEF Holding, Holds
  <2>2. Holding("client") \in Nat /\ Holding("backend") \in Nat /\ seq \in Nat
    BY <1>a DEF Holding, RecorderInv
  <2> QED
    BY <1>a, <2>1, <2>2, ThePeers DEF SessionInv, Counted, Peers
<1>5. CASE records' = records
  <2>1. writeFaults' = MaxWriteFaults /\ manifest' # NoManifest => writeFaults = MaxWriteFaults
    BY <1>a DEF RecordFrame, EncodeErr, EncodeOk, RecorderInv
  <2>2. Sealed'
    BY <1>a, <1>5, <2>1 DEF SessionInv, Sealed, Missing
  <2>3. \A q \in Peers : loop'[q] = "write" \/ Holds(q)' => loop[q] = "write" \/ Holds(q)
    BY <1>b DEF Holds
  <2>4. Ordered'
    BY <1>a, <1>5, <2>3 DEF SessionInv, Ordered, RecordedInOrder, Direction
  <2> QED
    BY <2>2, <2>4, <1>1, <1>2, <1>3, <1>4, <1>a, <1>b DEF SessionInv, Touched, Storing, Peers
<1>6. CASE EncodeOk(Record(Direction(p), taken[p]))
  <2>n. PICK n : n = Len(records)
    OBVIOUS
  <2>1. Sealed'
    BY <1>6, <1>a DEF EncodeOk, Sealed, RecorderInv
  <2>2. Record(Direction(p), taken[p]) \in Records
    BY <1>a, <1>c, RecordType
  <2>3. /\ n \in Nat /\ Len(records') = n + 1
        /\ records'[n + 1] = Record(Direction(p), taken[p])
        /\ \A i \in 1..n : records'[i] = records[i]
    <3>1. records' = Append(records, Record(Direction(p), taken[p]))
      BY <1>6 DEF EncodeOk
    <3>2. records \in Seq(Records)
      BY <1>a DEF RecorderInv
    <3> QED
      BY <2>n, <2>2, <3>1, <3>2, AppendAdds
  <2>4. /\ records'[n + 1].entry.direction = Direction(p)
        /\ records'[n + 1].entry.frame = taken[p]
    <3>1. /\ Record(Direction(p), taken[p]).entry.direction = Direction(p)
          /\ Record(Direction(p), taken[p]).entry.frame = taken[p]
      BY DEF Record, Entry
    <3> QED
      BY <2>3, <3>1
  <2>5. ASSUME NEW q \in Peers, Direction(q) = Direction(p)
        PROVE  q = p
    BY <2>5 DEF Direction, Peers
  <2>6. \A i \in 1..n : /\ records[i].entry.frame \in Nat
                        /\ records[i].entry.direction = Direction(p) =>
                            records[i].entry.frame < taken[p]
    <3>0. records \in Seq(Records)
      BY <1>a DEF RecorderInv
    <3>1. \A i \in 1..n : records[i] \in Records
      BY <2>n, <3>0
    <3> QED
      BY <2>n, <3>1 DEF SessionInv, Ordered, Holds, Records, Entries
  <2>7. RecordedInOrder'
    <3>1. ASSUME NEW i \in 1..n + 1, NEW j \in 1..n + 1, i < j,
                 records'[i].entry.direction = records'[j].entry.direction
          PROVE  records'[i].entry.frame < records'[j].entry.frame
      <4>1. i \in 1..n
        BY <2>3, <3>1
      <4>2. CASE j = n + 1
        BY <2>3, <2>4, <2>6, <3>1, <4>1, <4>2
      <4>3. CASE j \in 1..n
        BY <2>3, <2>n, <3>1, <4>1, <4>3 DEF SessionInv, Ordered, RecordedInOrder
      <4> QED
        BY <2>3, <4>2, <4>3
    <3> QED
      BY <2>3, <3>1 DEF RecordedInOrder
  <2>8. ASSUME NEW q \in Peers, NEW i \in 1..n + 1, records'[i].entry.direction = Direction(q)
        PROVE  /\ records'[i].entry.frame <= taken[q]
               /\ loop'[q] = "write" \/ Holds(q)' => records'[i].entry.frame < taken[q]
    <3>1. CASE i = n + 1
      <4>1. q = p
        BY <2>4, <2>5, <2>8, <3>1
      <4>2. ~(loop'[q] = "write" \/ Holds(q)')
        BY <4>1, <1>b DEF Holds
      <4>3. records'[i].entry.frame = taken[q]
        BY <2>4, <3>1, <4>1
      <4>4. taken[q] \in Nat
        BY <1>c, <4>1
      <4> QED
        BY <4>2, <4>3, <4>4
    <3>2. CASE i \in 1..n
      <4>1. loop'[q] = "write" \/ Holds(q)' => loop[q] = "write" \/ Holds(q)
        BY <1>b DEF Holds
      <4> QED
        BY <2>3, <2>n, <2>8, <3>2, <4>1 DEF SessionInv, Ordered
    <3>3. i = n + 1 \/ i \in 1..n
      BY <2>3, <2>8
    <3> QED
      BY <3>1, <3>2, <3>3
  <2>9. Ordered'
    BY <1>a, <2>3, <2>7, <2>8 DEF Ordered, Direction
  <2> QED
    BY <2>1, <2>9, <1>1, <1>2, <1>3, <1>4, <1>a, <1>b DEF SessionInv, Touched, Storing, Peers
<1> QED
  BY <1>5, <1>6 DEF RecordFrame, EncodeErr

(* Every step of a copy loop preserves the invariant.                        *)
LEMMA LoopNextKeeps ==
    ASSUME SessionInv, NEW p \in Peers, LoopNext(p)
    PROVE  SessionInv'
<1>1. CASE ReadMessage(p)
  BY <1>1, LoopStepKeeps DEF ReadMessage, loopOnly, LoopGoes, LoopPCs, Holding, Holds, SessionInv, TunnelTypes
<1>2. CASE WriteMessage(p)
  BY <1>2, LoopStepKeeps DEF WriteMessage, CanWrite, loopOnly, LoopGoes, LoopPCs, Holding, Holds, SessionInv, TunnelTypes
<1>3. CASE PropagateClose(p)
  BY <1>3, LoopStepKeeps DEF PropagateClose, loopOnly, LoopGoes, LoopPCs, Holding, Holds, SessionInv, TunnelTypes
<1>4. CASE CheckTouch(p)
  BY <1>4, LoopStepKeeps DEF CheckTouch, loopOnly, LoopGoes, LoopPCs, Holding, Holds, SessionInv, TunnelTypes
<1>5. CASE StoreTouch(p)
  BY <1>5, LoopStepKeeps DEF StoreTouch, loopOnly, LoopGoes, LoopPCs, Holding, Holds, SessionInv, TunnelTypes
<1>6. CASE TouchReturns(p)
  BY <1>6, LoopStepKeeps DEF TouchReturns, loopOnly, LoopGoes, LoopPCs, Holding, Holds, SessionInv, TunnelTypes
<1>7. CASE ObserveFrame(p) /\ file = "none"
  BY <1>7, LoopStepKeeps DEF ObserveFrame, RecordFrame, loopOnly, LoopGoes, LoopPCs, Holding, Holds, SessionInv, TunnelTypes
<1>8. CASE ObserveFrame(p) /\ file # "none"
  BY <1>8, ObserveFrameKeeps DEF ObserveFrame, loopOnly
<1>9. CASE SendError(p)
  BY <1>9, LoopStepKeeps DEF SendError, loopOnly, LoopGoes, LoopPCs, Holding, Holds, SessionInv, TunnelTypes
<1> QED
  BY <1>1, <1>2, <1>3, <1>4, <1>5, <1>6, <1>7, <1>8, <1>9 DEF LoopNext

-----------------------------------------------------------------------------
(* The handler, the peers and the clock.                                     *)

(* The handler's steps leave to the recorder what the loops gave it.         *)
LEMMA HandlerStepKeeps ==
    ASSUME SessionInv, UNCHANGED <<handlerOnly, seq, records>>,
           RecorderInv', file' = "none" => file = "none",
           file = "none" /\ file' # "none" => hpc = "check",
           manifest' # NoManifest /\ writeFaults' = MaxWriteFaults =>
               Missing <= 1,
           \/ loop' = loop
           \/ loop' = [p \in Peers |-> "read"] /\ \A p \in Peers : loop[p] = "off",
           TunnelTypes', Stages'
    PROVE  SessionInv'
<1>a. /\ TunnelTypes /\ RecorderInv /\ seq' = seq /\ records' = records
      /\ taken' = taken /\ forwarded' = forwarded /\ lastTouch' = lastTouch
      /\ stamps' = stamps /\ minute' = minute
  BY DEF SessionInv, handlerOnly
<1>1. \A p \in Peers : /\ Holding(p)' = Holding(p) /\ Storing(p)' = Storing(p)
                       /\ loop'[p] = "write" \/ Holds(p)' => loop[p] = "write" \/ Holds(p)
  BY DEF Holding, Holds, Storing
<1>2. Counted'
  <2>1. CASE file = "none" /\ file' # "none"
    <3>1. \A p \in Peers : loop[p] = "off" /\ forwarded[p] = 0
      BY <2>1 DEF SessionInv, Stages
    <3>2. \A p \in Peers : Holding(p) = 0
      BY <3>1 DEF Holding, Holds
    <3>3. seq = 0
      BY <1>a, <2>1 DEF RecorderInv
    <3> QED
      BY <1>a, <1>1, <3>1, <3>2, <3>3, ThePeers DEF Counted
  <2> QED
    BY <2>1, <1>a, <1>1, ThePeers DEF SessionInv, Counted
<1>3. Ordered'
  BY <1>a, <1>1 DEF SessionInv, Ordered, RecordedInOrder, Direction
<1>4. Touched'
  BY <1>a, <1>1, ThePeers DEF SessionInv, Touched
<1>5. Sealed'
  BY <1>a DEF Sealed, Missing
<1> QED
  BY <1>2, <1>3, <1>4, <1>5 DEF SessionInv

(* The readiness check and the new recorder.                                 *)
LEMMA StartSessionKeeps ==
    ASSUME SessionInv, StartSession
    PROVE  SessionInv'
<1>a. /\ TunnelTypes /\ RecorderInv /\ hpc = "check" /\ file = "none" /\ hpc' \in {"done", "upgrade"}
      /\ conn' = conn /\ loop' = loop /\ errc' = errc /\ UNCHANGED handlerOnly
  BY DEF SessionInv, Stages, StartSession
<1>1. /\ RecorderInv' /\ seq' = seq /\ records' = records /\ file' \in {"none", "open"}
      /\ manifest' = manifest
  <2>1. CASE UNCHANGED recorderVars
    BY <1>a, <2>1 DEF recorderVars, RecorderInv, ChainIntact, HashAt, ManifestSeals
  <2>2. CASE NewSessionRecorder
    BY <1>a, <2>2, NewSessionRecorderKeeps DEF NewSessionRecorder
  <2> QED
    BY <2>1, <2>2 DEF StartSession
<1>2. TunnelTypes'
  BY <1>a DEF TunnelTypes, handlerOnly
<1>3. Stages'
  BY <1>a, <1>1, ThePeers DEF SessionInv, Stages, handlerOnly
<1>4. manifest' = NoManifest
  BY <1>a, <1>1 DEF RecorderInv
<1> QED
  BY <1>a, <1>1, <1>2, <1>3, <1>4, HandlerStepKeeps

(* ServeWS from the upgrade to its return, and the audit event after it.     *)
LEMMA ServeKeeps ==
    ASSUME SessionInv, UpgradeClient \/ DialBackend \/ ReturnOnFirstError \/ AuditEnd
    PROVE  SessionInv'
<1>a. /\ TunnelTypes /\ RecorderInv /\ Stages /\ UNCHANGED recorderVars /\ UNCHANGED handlerOnly
  BY DEF SessionInv, UpgradeClient, DialBackend, ReturnOnFirstError, AuditEnd
<1>1. RecorderInv'
  BY <1>a DEF recorderVars, RecorderInv, ChainIntact, HashAt, ManifestSeals
<1>2. CloseAll => /\ conn' \in [Peers -> {"none", "open", "closed"}]
                  /\ \A p \in Peers : conn'[p] # "open"
  BY <1>a DEF CloseAll, TunnelTypes
<1>3. /\ TunnelTypes' /\ Stages'
      /\ \/ loop' = loop
         \/ loop' = [p \in Peers |-> "read"] /\ \A p \in Peers : loop[p] = "off"
  <2>1. CASE UpgradeClient
    <3>1. /\ hpc = "upgrade" /\ hpc' \in {"dial", "closing"} /\ file' = file
          /\ loop' = loop /\ errc' = errc /\ UNCHANGED handlerOnly
      BY <1>a, <2>1 DEF UpgradeClient, recorderVars
    <3>2. /\ conn' \in [Peers -> {"none", "open", "closed"}]
          /\ hpc' = "closing" => conn' = conn
      BY <1>a, <2>1 DEF UpgradeClient, TunnelTypes
    <3>3. TunnelTypes'
      BY <1>a, <3>1, <3>2 DEF TunnelTypes, handlerOnly
    <3>4. forwarded' = forwarded
      BY <3>1 DEF handlerOnly
    <3>5. Stages'
      BY <1>a, <3>1, <3>2, <3>4, ThePeers DEF Stages
    <3> QED
      BY <3>1, <3>3, <3>5
  <2>2. CASE DialBackend
    <3>1. TunnelTypes'
      BY <1>a, <1>2, <2>2 DEF DialBackend, TunnelTypes, handlerOnly, LoopPCs
    <3>2. hpc = "dial" /\ errc = 0 /\ errc' = errc /\ file' = file /\ file # "closed"
          /\ hpc' \in {"serving", "closing"} /\ \A p \in Peers : loop[p] = "off"
      BY <1>a, <2>2 DEF DialBackend, Stages, recorderVars, TunnelTypes
    <3>3. Stages'
      BY <1>2, <2>2, <3>2, ThePeers DEF DialBackend, Stages
    <3> QED
      BY <2>2, <3>1, <3>2, <3>3 DEF DialBackend
  <2>3. CASE ReturnOnFirstError
    <3>1. TunnelTypes'
      BY <1>a, <1>2, <2>3 DEF ReturnOnFirstError, TunnelTypes, handlerOnly
    <3>2. \E p \in Peers : loop[p] = "ended"
      BY <1>a, <2>3 DEF ReturnOnFirstError, Stages
    <3>3. Stages'
      BY <1>a, <1>2, <2>3, <3>2 DEF ReturnOnFirstError, Stages, recorderVars
    <3> QED
      BY <2>3, <3>1, <3>3 DEF ReturnOnFirstError
  <2>4. CASE AuditEnd
    BY <1>a, <2>4 DEF AuditEnd, TunnelTypes, Stages, handlerOnly, recorderVars
  <2> QED
    BY <2>1, <2>2, <2>3, <2>4
<1>4. manifest' # NoManifest /\ writeFaults' = MaxWriteFaults => Missing <= 1
  BY <1>a DEF SessionInv, Sealed, recorderVars
<1>5. UNCHANGED <<handlerOnly, seq, records>> /\ file' = file
  BY <1>a DEF recorderVars
<1>6. /\ file' = "none" => file = "none"
      /\ file = "none" /\ file' # "none" => hpc = "check"
  BY <1>5
<1>7. TunnelTypes' /\ Stages'
  BY <1>3
<1>8. \/ loop' = loop
      \/ loop' = [p \in Peers |-> "read"] /\ \A p \in Peers : loop[p] = "off"
  BY <1>3
<1> QED
  BY <1>1, <1>4, <1>5, <1>6, <1>7, <1>8, HandlerStepKeeps

(* When the recorder is closed, one loop has ended and holds nothing; the    *)
(* other holds one frame at most.                                            *)
LEMMA CloseRecorderKeeps ==
    ASSUME SessionInv, CloseRecorder
    PROVE  SessionInv'
<1>a. /\ TunnelTypes /\ RecorderInv /\ Stages /\ hpc = "closing" /\ hpc' = "audit" /\ Close
      /\ conn' = conn /\ loop' = loop /\ errc' = errc /\ UNCHANGED handlerOnly
  BY DEF SessionInv, CloseRecorder
<1>1. RecorderInv'
  BY <1>a, CloseKeeps
<1>2. /\ seq' = seq /\ records' = records
      /\ file' = "none" => file = "none"
      /\ file = "none" => file' = "none"
  BY <1>a DEF Close
<1>3. TunnelTypes'
  BY <1>a DEF TunnelTypes, handlerOnly
<1>4. Stages'
  BY <1>a DEF Stages, handlerOnly
<1>5. ASSUME manifest' # NoManifest, writeFaults' = MaxWriteFaults
      PROVE  Missing <= 1
  <2>1. CASE file # "open"
    BY <1>a, <1>5, <2>1 DEF Close, Stages, RecorderInv
  <2>2. CASE file = "open"
    <3>1. writeFaults = MaxWriteFaults
      BY <1>a, <1>5, <2>2, RecorderAssumption DEF Close, DiskFault, RecorderInv
    <3>2. seq = Len(records)
      BY <1>a, <2>2, <3>1, RecorderAssumption DEF RecorderInv
    <3>3. Holding("client") + Holding("backend") <= 1
      <4>1. PICK p \in Peers : loop[p] \in {"off", "ended"}
        BY <1>a DEF Stages
      <4>2. Holding(p) = 0 /\ Holding(Other(p)) \in {0, 1}
        BY <4>1 DEF Holding, Holds
      <4> QED
        BY <4>2 DEF Peers, Other
    <3>4. Holding("client") \in Nat /\ Holding("backend") \in Nat /\ seq \in Nat
          /\ forwarded["client"] \in Nat /\ forwarded["backend"] \in Nat
      BY <1>a, ThePeers DEF Holding, RecorderInv, TunnelTypes
    <3> QED
      BY <2>2, <3>2, <3>3, <3>4 DEF SessionInv, Counted, Missing
  <2> QED
    BY <2>1, <2>2
<1> QED
  BY <1>a, <1>1, <1>2, <1>3, <1>4, <1>5, HandlerStepKeeps

(* Steps that touch neither the recorder nor the loops.                      *)
LEMMA AsideKeeps ==
    ASSUME SessionInv,
           UNCHANGED <<file, encErr, seq, prev, records, manifest, writeFaults>>,
           UNCHANGED <<hpc, conn, taken, forwarded, loop, errc>>
    PROVE  RecorderInv' /\ Stages' /\ Counted' /\ Ordered' /\ Sealed'
<1>1. RecorderInv'
  BY DEF SessionInv, RecorderInv, ChainIntact, HashAt, ManifestSeals
<1>2. Stages'
  BY DEF SessionInv, Stages
<1>3. Counted'
  BY DEF SessionInv, Counted, Holding, Holds
<1>4. Ordered'
  BY DEF SessionInv, Ordered, RecordedInOrder, Direction, Holds
<1>5. Sealed'
  BY DEF SessionInv, Sealed, Missing
<1> QED
  BY <1>1, <1>2, <1>3, <1>4, <1>5

(* Peers and clock.                                                          *)
LEMMA OutsideKeeps ==
    ASSUME SessionInv,
           MinutePasses \/ \E p \in Peers : PeerSends(p) \/ PeerReads(p) \/ PeerLeaves(p)
    PROVE  SessionInv'
<1>a. /\ UNCHANGED <<file, encErr, seq, prev, records, manifest, writeFaults>>
      /\ UNCHANGED <<hpc, conn, taken, forwarded, loop, errc>>
  BY DEF MinutePasses, PeerSends, PeerReads, PeerLeaves, recorderVars
<1>b. lastTouch' = lastTouch /\ \/ minute' = minute /\ stamps' = stamps
                                \/ minute' = minute + 1 /\ stamps' = 0
  BY DEF MinutePasses, PeerSends, PeerReads, PeerLeaves
<1>1. RecorderInv' /\ Stages' /\ Counted' /\ Ordered' /\ Sealed'
  BY <1>a, AsideKeeps
<1>2. TunnelTypes'
  BY <1>a, <1>b DEF SessionInv, TunnelTypes
<1>3. Touched'
  BY <1>a, <1>b DEF SessionInv, TunnelTypes, Touched, Storing
<1> QED
  BY <1>1, <1>2, <1>3 DEF SessionInv

-----------------------------------------------------------------------------
(* A session starts without a recording.                                     *)
LEMMA SessionInvInit == Init => SessionInv
<1> SUFFICES ASSUME Init
             PROVE  SessionInv
  OBVIOUS
<1>1. records = <<>> /\ prev = <<>> /\ file = "none" /\ manifest = NoManifest /\ seq = 0
      /\ encErr = FALSE /\ writeFaults = MaxWriteFaults
  BY DEF Init, RecorderInit, GenesisHash
<1>2. RecorderInv
  <2>1. records \in Seq(Records) /\ prev \in Seq(Entries) /\ Len(records) = 0
    BY <1>1
  <2>2. ChainIntact /\ prev = HashAt(Len(records))
    BY <1>1, <2>1 DEF ChainIntact, HashAt, GenesisHash
  <2>3. ManifestSeals
    BY <1>1 DEF ManifestSeals
  <2>4. writeFaults \in 0..MaxWriteFaults /\ seq \in Nat
    BY <1>1, RecorderAssumption
  <2>5. encErr \in BOOLEAN /\ file # "open"
    BY <1>1
  <2> QED
    BY <1>1, <2>1, <2>2, <2>3, <2>4, <2>5 DEF RecorderInv
<1>3. TunnelTypes /\ Stages
  BY <1>1 DEF Init, TunnelTypes, LoopPCs, Stages
<1>4. Counted /\ Sealed /\ Touched
  BY <1>1 DEF Init, Counted, Sealed, Touched, Storing, Peers
<1>5. Ordered
  BY <1>1 DEF Ordered, RecordedInOrder
<1> QED
  BY <1>2, <1>3, <1>4, <1>5 DEF SessionInv

(* Every step of a session preserves the invariant.                          *)
LEMMA SessionInvNext == SessionInv /\ [Next]_vars => SessionInv'
<1> SUFFICES ASSUME SessionInv, [Next]_vars
             PROVE  SessionInv'
  OBVIOUS
<1>1. CASE HandlerNext
  BY <1>1, StartSessionKeeps, ServeKeeps, CloseRecorderKeeps DEF HandlerNext
<1>2. CASE MinutePasses \/ \E p \in Peers : PeerSends(p) \/ PeerReads(p) \/ PeerLeaves(p)
  BY <1>2, OutsideKeeps
<1>3. CASE \E p \in Peers : LoopNext(p)
  BY <1>3, LoopNextKeeps
<1>4. CASE UNCHANGED vars
  <2>1. /\ UNCHANGED <<file, encErr, seq, prev, records, manifest, writeFaults>>
        /\ UNCHANGED <<hpc, conn, taken, forwarded, loop, errc>>
        /\ UNCHANGED <<lastTouch, stamps, minute>>
    BY <1>4 DEF vars, recorderVars, tunnelVars
  <2>2. RecorderInv' /\ Stages' /\ Counted' /\ Ordered' /\ Sealed'
    BY <2>1, AsideKeeps
  <2>3. TunnelTypes' /\ Touched'
    BY <2>1 DEF SessionInv, TunnelTypes, Touched, Storing
  <2> QED
    BY <2>2, <2>3 DEF SessionInv
<1> QED
  BY <1>1, <1>2, <1>3, <1>4 DEF Next

(* The lines of a recording verify, whatever writes fail and in whatever     *)
(* order the two loops record (SessionRecorder.RecordFrame).                 *)
THEOREM RecordingsVerify == Spec => []ChainIntact
<1>1. SessionInv => ChainIntact
  BY DEF SessionInv, RecorderInv
<1> QED
  BY <1>1, SessionInvInit, SessionInvNext, PTL DEF Spec

(* A manifest seals the lines on disk: its final hash is that of the last    *)
(* one, and its frame count tells whether writes failed (Close).             *)
THEOREM ManifestsSeal == Spec => []ManifestSeals
<1>1. SessionInv => ManifestSeals
  BY DEF SessionInv, RecorderInv
<1> QED
  BY <1>1, SessionInvInit, SessionInvNext, PTL DEF Spec

(* A sealed recording without a fault holds all forwarded frames but one at  *)
(* most, each direction in order (copyFrames and the deferred Close).        *)
THEOREM RecordingsComplete == Spec => []OneFrameMissingAtMost
<1>1. SessionInv => OneFrameMissingAtMost
  BY DEF SessionInv, Ordered, Sealed, OneFrameMissingAtMost
<1> QED
  BY <1>1, SessionInvInit, SessionInvNext, PTL DEF Spec

(* Two stamps a minute at most, although the loops share lastTouch without a *)
(* lock (onActivity in handleWS).                                            *)
THEOREM StampsAreBounded == Spec => []StampsBounded
<1>1. Cardinality(Peers) = 2
  <2>1. Cardinality({"client"}) = 1 /\ IsFiniteSet({"client"})
    BY FS_Singleton
  <2>2. Peers = {"client"} \cup {"backend"} /\ "backend" \notin {"client"}
    BY DEF Peers
  <2> QED
    BY <2>1, <2>2, FS_AddElement
<1>2. SessionInv => StampsBounded
  BY <1>1 DEF SessionInv, TunnelTypes, Touched, Storing, StampsBounded
<1> QED
  BY <1>2, SessionInvInit, SessionInvNext, PTL DEF Spec

-----------------------------------------------------------------------------
(* The frames and the errors on their way.                                   *)

Ended(p) == IF loop[p] = "ended" THEN 1 ELSE 0

(* How far the frames of p have come.                                        *)
Flowing(p) ==
    /\ received[p] <= forwarded[p] /\ forwarded[p] <= taken[p]
    /\ taken[p] <= sent[p] /\ sent[p] <= MaxFrames[p]
    /\ forwarded[p] < taken[p] => loop[p] \in {"write", "send", "ended"}
    /\ loop[p] = "write" => taken[p] = forwarded[p] + 1

(* Why a session stays within its bounds: a loop holds one frame at a time,  *)
(* and has one error to send, after which it has ended.                      *)
FlowInv ==
    /\ outcome \in {"none", "nil", "error"} /\ audit \subseteq {"start", "end"}
    /\ peer \in [Peers -> {"open", "closed", "broken"}]
    /\ sent \in [Peers -> Nat] /\ received \in [Peers -> Nat]
    /\ \A p \in Peers : Flowing(p)
    /\ Len(records) <= seq
    /\ errc <= Ended("client") + Ended("backend")
    /\ minute \in 1..MaxMinutes

(* The numbers of frames are numbers.                                        *)
LEMMA FrameNumbers ==
    ASSUME SessionInv, FlowInv, NEW p \in Peers
    PROVE  /\ received[p] \in Nat /\ forwarded[p] \in Nat /\ taken[p] \in Nat
           /\ sent[p] \in Nat /\ MaxFrames[p] \in Nat
BY TunnelAssumption DEF SessionInv, TunnelTypes, FlowInv

(* What the counts of frames of one peer say of each other: r received, f    *)
(* forwarded, t taken, s sent, m at most.                                    *)
LEMMA NoneInHand ==
    ASSUME NEW f \in Nat, NEW t \in Nat, f <= t, ~(f < t)
    PROVE  f = t
OBVIOUS

(* Taking one more frame when none is in hand.                               *)
LEMMA TakesOne ==
    ASSUME NEW f \in Nat, NEW t \in Nat, NEW s \in Nat, f = t, t < s
    PROVE  f <= t + 1 /\ t + 1 <= s /\ t + 1 = f + 1
OBVIOUS

(* Forwarding the one in hand.                                               *)
LEMMA ForwardsOne ==
    ASSUME NEW r \in Nat, NEW f \in Nat, NEW t \in Nat, r <= f, t = f + 1
    PROVE  r <= f + 1 /\ f + 1 <= t /\ ~(f + 1 < t)
OBVIOUS

(* Sending one more.                                                         *)
LEMMA SendsOne ==
    ASSUME NEW t \in Nat, NEW s \in Nat, NEW m \in Nat, t <= s, s < m
    PROVE  t <= s + 1 /\ s + 1 <= m
OBVIOUS

(* Receiving one more.                                                       *)
LEMMA ReceivesOne ==
    ASSUME NEW r \in Nat, NEW f \in Nat, r < f
    PROVE  r + 1 <= f
OBVIOUS

(* No more are forwarded than may be sent.                                   *)
LEMMA ForwardedBound ==
    ASSUME NEW f \in Nat, NEW t \in Nat, NEW s \in Nat, NEW m \in Nat,
           f <= t, t <= s, s <= m
    PROVE  f <= m
OBVIOUS

(* A step of the loop that reads p: it takes a frame, writes one, or goes on *)
(* without one in hand, and counts its error when it ends.                   *)
LEMMA LoopStepFlows ==
    ASSUME SessionInv, FlowInv, NEW p \in Peers, NEW next \in LoopPCs, LoopGoes(p, next),
           UNCHANGED loopOnly, Len(records)' <= seq', loop[p] # "ended",
           \/ errc' = errc
           \/ next = "ended" /\ errc' = errc + 1,
           \/ /\ loop[p] = "read" /\ next = "write" /\ taken[p] < sent[p]
              /\ taken' = [taken EXCEPT ![p] = @ + 1] /\ forwarded' = forwarded
           \/ /\ loop[p] = "write" /\ next = "touch"
              /\ taken' = taken /\ forwarded' = [forwarded EXCEPT ![p] = @ + 1]
           \/ /\ taken' = taken /\ forwarded' = forwarded /\ next # "write"
              /\ loop[p] \in {"write", "send"} => next \in {"send", "ended"}
    PROVE  FlowInv'
<1>a. /\ loop' \in [Peers -> LoopPCs] /\ loop'[p] = next
      /\ \A q \in Peers : q # p => loop'[q] = loop[q]
  BY LoopGoesType DEF SessionInv
<1>b. /\ outcome' = outcome /\ audit' = audit /\ peer' = peer /\ sent' = sent
      /\ received' = received /\ minute' = minute
  BY DEF loopOnly
<1>c. taken \in [Peers -> Nat] /\ forwarded \in [Peers -> Nat]
  BY DEF SessionInv, TunnelTypes
<1>1. ASSUME NEW q \in Peers, q # p
      PROVE  Flowing(q)'
  <2>1. taken'[q] = taken[q] /\ forwarded'[q] = forwarded[q] /\ loop'[q] = loop[q]
    BY <1>1, <1>a, <1>c
  <2> QED
    BY <1>1, <1>b, <2>1 DEF FlowInv, Flowing
<1>2. Flowing(p)'
  <2>a. /\ received[p] <= forwarded[p] /\ forwarded[p] <= taken[p]
        /\ taken[p] <= sent[p] /\ sent[p] <= MaxFrames[p]
        /\ forwarded[p] < taken[p] => loop[p] \in {"write", "send", "ended"}
        /\ loop[p] = "write" => taken[p] = forwarded[p] + 1
    BY DEF FlowInv, Flowing
  <2>b. forwarded[p] \in Nat /\ taken[p] \in Nat /\ sent[p] \in Nat /\ received[p] \in Nat
    BY FrameNumbers
  <2>1. CASE /\ loop[p] = "read" /\ next = "write" /\ taken[p] < sent[p]
             /\ taken' = [taken EXCEPT ![p] = @ + 1] /\ forwarded' = forwarded
    <3>1. taken'[p] = taken[p] + 1 /\ forwarded'[p] = forwarded[p]
      BY <2>1, <1>c
    <3>2. forwarded[p] = taken[p]
      <4>1. ~(forwarded[p] < taken[p])
        BY <2>a, <2>1
      <4> QED
        BY <2>a, <2>b, <4>1, NoneInHand, Zenon
    <3>3. /\ forwarded[p] <= taken[p] + 1 /\ taken[p] + 1 <= sent[p]
          /\ taken[p] + 1 = forwarded[p] + 1
      BY <2>b, <2>1, <3>2, TakesOne, Zenon
    <3> QED
      BY <1>a, <1>b, <2>a, <2>1, <3>1, <3>3 DEF Flowing
  <2>2. CASE /\ loop[p] = "write" /\ next = "touch"
             /\ taken' = taken /\ forwarded' = [forwarded EXCEPT ![p] = @ + 1]
    <3>1. taken'[p] = taken[p] /\ forwarded'[p] = forwarded[p] + 1
      BY <2>2, <1>c
    <3>2. taken[p] = forwarded[p] + 1
      BY <2>a, <2>2
    <3>3. /\ received[p] <= forwarded[p] + 1 /\ forwarded[p] + 1 <= taken[p]
          /\ ~(forwarded[p] + 1 < taken[p])
      BY <2>a, <2>b, <3>2, ForwardsOne, Zenon
    <3> QED
      BY <1>a, <1>b, <2>a, <2>2, <3>1, <3>3 DEF Flowing
  <2>3. CASE /\ taken' = taken /\ forwarded' = forwarded /\ next # "write"
             /\ loop[p] \in {"write", "send"} => next \in {"send", "ended"}
    BY <1>a, <1>b, <2>a, <2>3 DEF Flowing
  <2> QED
    BY <2>1, <2>2, <2>3
<1>3. errc' <= Ended("client")' + Ended("backend")'
  <2>1. Ended(p) = 0 /\ Ended(p)' = (IF next = "ended" THEN 1 ELSE 0)
    BY <1>a DEF Ended
  <2>2. Ended(Other(p))' = Ended(Other(p)) /\ Ended(Other(p)) \in {0, 1}
    BY <1>a, ThePeers DEF Ended
  <2>3. errc \in Nat /\ errc <= Ended("client") + Ended("backend")
    BY DEF SessionInv, TunnelTypes, FlowInv
  <2>4. \/ p = "client" /\ Other(p) = "backend"
        \/ p = "backend" /\ Other(p) = "client"
    BY DEF Peers, Other
  <2> QED
    BY <2>1, <2>2, <2>3, <2>4
<1> QED
  BY <1>b, <1>1, <1>2, <1>3 DEF FlowInv

(* Recording a frame adds one line at most.                                  *)
LEMMA RecordFrameCounts ==
    ASSUME RecorderInv, Len(records) <= seq, NEW direction, NEW frame,
           RecordFrame(direction, frame)
    PROVE  Len(records') <= seq'
<1>1. records \in Seq(Records) /\ seq \in Nat /\ seq' = seq + 1
  BY DEF RecorderInv, RecordFrame
<1>2. CASE records' = records
  BY <1>1, <1>2
<1>3. CASE records' = Append(records, Record(direction, frame))
  <2>1. Len(records) \in Nat /\ Len(records') = Len(records) + 1
    BY <1>1, <1>3
  <2> QED
    BY <1>1, <2>1
<1> QED
  BY <1>2, <1>3 DEF RecordFrame, EncodeOk, EncodeErr

(* Every step of a copy loop keeps the frames in order.                      *)
LEMMA LoopNextFlows ==
    ASSUME SessionInv, FlowInv, NEW p \in Peers, LoopNext(p)
    PROVE  FlowInv'
<1>a. Len(records) <= seq /\ RecorderInv
  BY DEF FlowInv, SessionInv
<1>b. UNCHANGED recorderVars => Len(records') <= seq'
  BY <1>a DEF recorderVars
<1>1. CASE ReadMessage(p)
  <2>1. /\ loop[p] = "read" /\ UNCHANGED loopOnly /\ Len(records') <= seq'
        /\ forwarded' = forwarded /\ errc' = errc
    BY <1>1, <1>b DEF ReadMessage
  <2>2. CASE taken[p] < sent[p] /\ taken' = [taken EXCEPT ![p] = @ + 1] /\ LoopGoes(p, "write")
    BY <2>1, <2>2, LoopStepFlows DEF LoopPCs
  <2>3. CASE taken' = taken /\ LoopGoes(p, "propagate")
    BY <2>1, <2>3, LoopStepFlows DEF LoopPCs
  <2>4. CASE taken' = taken /\ LoopGoes(p, "send")
    BY <2>1, <2>4, LoopStepFlows DEF LoopPCs
  <2> QED
    BY <1>1, <2>2, <2>3, <2>4 DEF ReadMessage
<1>2. CASE WriteMessage(p)
  <2>1. /\ loop[p] = "write" /\ UNCHANGED loopOnly /\ Len(records') <= seq'
        /\ taken' = taken /\ errc' = errc
    BY <1>2, <1>b DEF WriteMessage
  <2>2. CASE forwarded' = [forwarded EXCEPT ![p] = @ + 1] /\ LoopGoes(p, "touch")
    BY <2>1, <2>2, LoopStepFlows DEF LoopPCs
  <2>3. CASE forwarded' = forwarded /\ LoopGoes(p, "send")
    BY <2>1, <2>3, LoopStepFlows DEF LoopPCs
  <2> QED
    BY <1>2, <2>2, <2>3 DEF WriteMessage
<1>3. CASE PropagateClose(p) \/ CheckTouch(p) \/ StoreTouch(p) \/ TouchReturns(p)
  <2>1. /\ loop[p] \in {"propagate", "touch", "store", "stamp"}
        /\ UNCHANGED loopOnly /\ Len(records') <= seq'
        /\ taken' = taken /\ forwarded' = forwarded /\ errc' = errc
    BY <1>3, <1>b DEF PropagateClose, CheckTouch, StoreTouch, TouchReturns
  <2>2. \E next \in {"send", "record", "store", "stamp"} : LoopGoes(p, next)
    BY <1>3 DEF PropagateClose, CheckTouch, StoreTouch, TouchReturns
  <2> QED
    BY <2>1, <2>2, LoopStepFlows DEF LoopPCs
<1>4. CASE ObserveFrame(p)
  <2>1. /\ loop[p] = "record" /\ UNCHANGED loopOnly /\ LoopGoes(p, "read")
        /\ taken' = taken /\ forwarded' = forwarded /\ errc' = errc
    BY <1>4 DEF ObserveFrame
  <2>2. Len(records') <= seq'
    BY <1>4, <1>a, <1>b, RecordFrameCounts DEF ObserveFrame
  <2> QED
    BY <2>1, <2>2, LoopStepFlows DEF LoopPCs
<1>5. CASE SendError(p)
  <2>1. /\ loop[p] = "send" /\ UNCHANGED loopOnly /\ LoopGoes(p, "ended")
        /\ taken' = taken /\ forwarded' = forwarded /\ errc' = errc + 1
        /\ Len(records') <= seq'
    BY <1>5, <1>b DEF SendError
  <2> QED
    BY <2>1, LoopStepFlows DEF LoopPCs
<1> QED
  BY <1>1, <1>2, <1>3, <1>4, <1>5 DEF LoopNext

(* The handler starts the loops and takes one error at most.                 *)
LEMMA HandlerFlows ==
    ASSUME SessionInv, FlowInv, HandlerNext
    PROVE  FlowInv'
<1>a. /\ peer' = peer /\ sent' = sent /\ taken' = taken /\ forwarded' = forwarded
      /\ received' = received /\ minute' = minute
  BY DEF HandlerNext, StartSession, UpgradeClient, DialBackend, ReturnOnFirstError,
     CloseRecorder, AuditEnd, handlerOnly
<1>b. seq' = seq /\ records' = records
  BY DEF HandlerNext, StartSession, UpgradeClient, DialBackend, ReturnOnFirstError,
     CloseRecorder, AuditEnd, NewSessionRecorder, Close, recorderVars
<1>c. outcome' \in {"none", "nil", "error"} /\ audit' \subseteq {"start", "end"}
  BY DEF FlowInv, HandlerNext, StartSession, UpgradeClient, DialBackend, ReturnOnFirstError,
     CloseRecorder, AuditEnd
<1>d. errc' = errc \/ errc' = errc - 1
  BY DEF HandlerNext, StartSession, UpgradeClient, DialBackend, ReturnOnFirstError,
     CloseRecorder, AuditEnd
<1>e. \/ loop' = loop
      \/ loop' = [p \in Peers |-> "read"] /\ \A p \in Peers : loop[p] = "off"
  <2>1. CASE DialBackend
    BY <2>1 DEF DialBackend, SessionInv, Stages
  <2> QED
    BY <2>1 DEF HandlerNext, StartSession, UpgradeClient, ReturnOnFirstError,
       CloseRecorder, AuditEnd
<1>1. \A p \in Peers : Flowing(p)'
  BY <1>a, <1>e DEF FlowInv, Flowing
<1>2. errc' <= Ended("client")' + Ended("backend")'
  <2>1. Ended("client")' = Ended("client") /\ Ended("backend")' = Ended("backend")
    BY <1>e, ThePeers DEF Ended
  <2>2. Ended("client") \in Nat /\ Ended("backend") \in Nat /\ errc \in Nat
    BY DEF Ended, SessionInv, TunnelTypes
  <2> QED
    BY <1>d, <2>1, <2>2 DEF FlowInv
<1> QED
  BY <1>a, <1>b, <1>c, <1>1, <1>2 DEF FlowInv

(* A peer sends what it may and reads what was written to it.                *)
LEMMA OutsideFlows ==
    ASSUME SessionInv, FlowInv,
           MinutePasses \/ \E p \in Peers : PeerSends(p) \/ PeerReads(p) \/ PeerLeaves(p)
    PROVE  FlowInv'
<1>a. /\ outcome' = outcome /\ audit' = audit /\ taken' = taken /\ forwarded' = forwarded
      /\ loop' = loop /\ errc' = errc /\ records' = records /\ seq' = seq
  BY DEF MinutePasses, PeerSends, PeerReads, PeerLeaves, recorderVars
<1>b. Len(records') <= seq' /\ errc' <= Ended("client")' + Ended("backend")'
  BY <1>a DEF FlowInv, Ended
<1>1. CASE MinutePasses
  <2>1. minute' \in 1..MaxMinutes
    BY <1>1, TunnelAssumption DEF MinutePasses, FlowInv
  <2>2. peer' = peer /\ sent' = sent /\ received' = received
    BY <1>1 DEF MinutePasses
  <2> QED
    BY <1>a, <1>b, <2>1, <2>2 DEF FlowInv, Flowing
<1>2. ASSUME NEW p \in Peers, PeerSends(p)
      PROVE  FlowInv'
  <2>1. /\ sent' = [sent EXCEPT ![p] = @ + 1] /\ sent[p] < MaxFrames[p]
        /\ peer' = peer /\ received' = received /\ minute' = minute
    BY <1>2 DEF PeerSends
  <2>2. /\ sent' \in [Peers -> Nat] /\ sent'[p] = sent[p] + 1
        /\ \A q \in Peers : q # p => sent'[q] = sent[q]
    BY <1>2, <2>1 DEF FlowInv
  <2>3. taken[p] <= sent'[p] /\ sent'[p] <= MaxFrames[p]
    <3>1. /\ received[p] \in Nat /\ forwarded[p] \in Nat /\ taken[p] \in Nat
          /\ sent[p] \in Nat /\ MaxFrames[p] \in Nat
      BY <1>2, FrameNumbers
    <3>2. taken[p] <= sent[p]
      BY <1>2 DEF FlowInv, Flowing
    <3>3. taken[p] <= sent[p] + 1 /\ sent[p] + 1 <= MaxFrames[p]
      BY <2>1, <3>1, <3>2, SendsOne, Zenon
    <3> QED
      BY <2>2, <3>3, Zenon
  <2>4. ASSUME NEW q \in Peers
        PROVE  Flowing(q)'
    <3>1. Flowing(q)
      BY <2>4 DEF FlowInv
    <3>2. CASE q = p
      BY <1>a, <2>1, <2>3, <3>1, <3>2 DEF Flowing
    <3>3. CASE q # p
      <4>1. sent'[q] = sent[q]
        BY <2>2, <2>4, <3>3
      <4> QED
        BY <1>a, <2>1, <3>1, <4>1 DEF Flowing
    <3> QED
      BY <3>2, <3>3
  <2> QED
    BY <1>a, <1>b, <2>1, <2>2, <2>4 DEF FlowInv
<1>3. ASSUME NEW p \in Peers, PeerReads(p)
      PROVE  FlowInv'
  <2>1. /\ received' = [received EXCEPT ![p] = @ + 1] /\ received[p] < forwarded[p]
        /\ peer' = peer /\ sent' = sent /\ minute' = minute
    BY <1>3 DEF PeerReads
  <2>2. /\ received' \in [Peers -> Nat] /\ received'[p] = received[p] + 1
        /\ \A q \in Peers : q # p => received'[q] = received[q]
    BY <1>3, <2>1 DEF FlowInv
  <2>3. received'[p] <= forwarded[p]
    <3>1. /\ received[p] \in Nat /\ forwarded[p] \in Nat /\ taken[p] \in Nat
          /\ sent[p] \in Nat /\ MaxFrames[p] \in Nat
      BY <1>3, FrameNumbers
    <3>2. received[p] + 1 <= forwarded[p]
      BY <2>1, <3>1, ReceivesOne, Zenon
    <3> QED
      BY <2>2, <3>2, Zenon
  <2>4. ASSUME NEW q \in Peers
        PROVE  Flowing(q)'
    <3>1. Flowing(q)
      BY <2>4 DEF FlowInv
    <3>2. CASE q = p
      BY <1>a, <2>1, <2>3, <3>1, <3>2 DEF Flowing
    <3>3. CASE q # p
      <4>1. received'[q] = received[q]
        BY <2>2, <2>4, <3>3
      <4> QED
        BY <1>a, <2>1, <3>1, <4>1 DEF Flowing
    <3> QED
      BY <3>2, <3>3
  <2> QED
    BY <1>a, <1>b, <2>1, <2>2, <2>4 DEF FlowInv
<1>4. ASSUME NEW p \in Peers, PeerLeaves(p)
      PROVE  FlowInv'
  <2>1. /\ peer' \in [Peers -> {"open", "closed", "broken"}]
        /\ received' = received /\ sent' = sent /\ minute' = minute
    BY <1>4 DEF PeerLeaves, FlowInv
  <2> QED
    BY <1>a, <1>b, <2>1 DEF FlowInv, Flowing
<1> QED
  BY <1>1, <1>2, <1>3, <1>4

(* At the start nothing flows.                                               *)
LEMMA FlowInvInit == Init => FlowInv
<1> SUFFICES ASSUME Init
             PROVE  FlowInv
  OBVIOUS
<1>1. records = <<>> /\ seq = 0
  BY DEF Init, RecorderInit
<1>2. Len(records) <= seq
  BY <1>1
<1>3. \A p \in Peers : Flowing(p)
  BY TunnelAssumption DEF Init, Flowing
<1>4. errc <= Ended("client") + Ended("backend")
  BY ThePeers DEF Init, Ended
<1>5. minute \in 1..MaxMinutes
  BY TunnelAssumption DEF Init
<1> QED
  BY <1>2, <1>3, <1>4, <1>5 DEF Init, FlowInv

(* Every step of a session keeps its bounds.                                 *)
LEMMA FlowInvNext == SessionInv /\ FlowInv /\ [Next]_vars => FlowInv'
<1> SUFFICES ASSUME SessionInv, FlowInv, [Next]_vars
             PROVE  FlowInv'
  OBVIOUS
<1>1. CASE UNCHANGED vars
  BY <1>1 DEF vars, tunnelVars, recorderVars, FlowInv, Flowing, Ended
<1> QED
  BY <1>1, HandlerFlows, OutsideFlows, LoopNextFlows DEF Next

(* A frame is read, written and received once, and recorded once at most;    *)
(* the loops and the handler stay within the bounds of the session.          *)
THEOREM SessionTypes == Spec => []TypeOK
<1>1. ASSUME SessionInv, FlowInv
      PROVE  TypeOK
  <2>1. \A p \in Peers : Flowing(p) /\ received[p] \in Nat
    BY <1>1, FrameNumbers DEF FlowInv
  <2>2. seq \in 0..MaxFrames["client"] + MaxFrames["backend"]
    <3>1. /\ Holding("client") \in Nat /\ Holding("backend") \in Nat /\ seq \in Nat
          /\ file = "none" => seq = 0
      BY <1>1 DEF Holding, SessionInv, RecorderInv
    <3>2. \A p \in Peers : /\ forwarded[p] \in Nat /\ MaxFrames[p] \in Nat
                           /\ forwarded[p] <= MaxFrames[p]
      <4>1. TAKE p \in Peers
      <4>2. /\ forwarded[p] \in Nat /\ taken[p] \in Nat /\ sent[p] \in Nat
            /\ MaxFrames[p] \in Nat
        BY <1>1, FrameNumbers
      <4>3. forwarded[p] <= taken[p] /\ taken[p] <= sent[p] /\ sent[p] <= MaxFrames[p]
        BY <2>1 DEF Flowing
      <4>4. forwarded[p] <= MaxFrames[p]
        BY <4>2, <4>3, ForwardedBound, Zenon
      <4> QED
        BY <4>2, <4>4
    <3>3. file # "none" => seq <= forwarded["client"] + forwarded["backend"]
      BY <1>1, <3>1, <3>2, ThePeers DEF SessionInv, Counted
    <3> QED
      BY <3>1, <3>2, <3>3, ThePeers
  <2>3. errc \in 0..2
    <3>1. Ended("client") \in {0, 1} /\ Ended("backend") \in {0, 1} /\ errc \in Nat
      BY <1>1 DEF Ended, SessionInv, TunnelTypes
    <3> QED
      BY <1>1, <3>1 DEF FlowInv
  <2>4. lastTouch \in 0..minute /\ stamps \in Nat
    BY <1>1 DEF SessionInv, TunnelTypes, Touched
  <2>5. file \in {"none", "open", "closed"} /\ encErr \in BOOLEAN
        /\ writeFaults \in 0..MaxWriteFaults
    BY <1>1 DEF SessionInv, RecorderInv
  <2>6. \A p \in Peers :
          /\ 0 <= received[p] /\ received[p] <= forwarded[p]
          /\ forwarded[p] <= taken[p] /\ taken[p] <= sent[p] /\ sent[p] <= MaxFrames[p]
          /\ forwarded[p] < taken[p] => loop[p] \in {"write", "send", "ended"}
    BY <2>1 DEF Flowing
  <2> QED
    BY <1>1, <2>2, <2>3, <2>4, <2>5, <2>6 DEF TypeOK, SessionInv, TunnelTypes, FlowInv
<1> QED
  BY <1>1, SessionInvInit, SessionInvNext, FlowInvInit, FlowInvNext, PTL DEF Spec

(* A loop that ends finds room in errc for its error, whether or not anybody *)
(* receives it (make(chan error, 2) in ServeWS): no goroutine is left behind.*)
THEOREM LoopsNeverBlock == Spec => []SendNeverBlocks
<1>1. ASSUME SessionInv, FlowInv, NEW p \in Peers, loop[p] = "send"
      PROVE  ErrcHasRoom
  <2>1. Ended(p) = 0 /\ Ended(Other(p)) \in {0, 1}
    BY <1>1 DEF Ended
  <2>2. errc \in Nat /\ errc <= Ended("client") + Ended("backend")
    BY <1>1 DEF SessionInv, TunnelTypes, FlowInv
  <2>3. \/ p = "client" /\ Other(p) = "backend"
        \/ p = "backend" /\ Other(p) = "client"
    BY DEF Peers, Other
  <2> QED
    BY <2>1, <2>2, <2>3 DEF ErrcHasRoom
<1>2. SessionInv /\ FlowInv => SendNeverBlocks
  BY <1>1 DEF SendNeverBlocks
<1> QED
  BY <1>2, SessionInvInit, SessionInvNext, FlowInvInit, FlowInvNext, PTL DEF Spec

-----------------------------------------------------------------------------
(* The record is a transcript.                                               *)

(* What prev holds is the last hash of the transcript.                       *)
LEMMA PrevIsLast ==
    ASSUME RecorderInv
    PROVE  Log!LastHash = prev
<1>1. records \in Seq(Records) /\ prev = HashAt(Len(records))
  BY DEF RecorderInv
<1>2. records = <<>> <=> Len(records) = 0
  BY <1>1
<1> QED
  BY <1>1, <1>2 DEF Log!LastHash, HashAt, GenesisHash

(* A frame that is recorded adds a line, or nothing.                         *)
LEMMA RecordFrameWrites ==
    ASSUME RecorderInv, NEW direction \in Directions, NEW frame \in Nat,
           RecordFrame(direction, frame)
    PROVE  Log!Write \/ UNCHANGED Log!vars
<1>a. manifest' = manifest
  BY DEF RecordFrame
<1>1. CASE records' = records
  BY <1>a, <1>1 DEF Log!vars
<1>2. CASE EncodeOk(Record(direction, frame))
  <2> DEFINE rec == Record(direction, frame)
  <2>1. rec \in Records /\ records \in Seq(Records)
    BY RecordType DEF RecorderInv
  <2>2. rec.prevHash = prev /\ rec.entryHash = Append(prev, rec.entry)
    BY DEF Record, Chained
  <2>3. records' = Append(records, rec) /\ file = "open"
    BY <1>2 DEF EncodeOk
  <2> HIDE DEF rec
  <2>4. /\ Len(records') = Len(records) + 1 /\ records'[Len(records) + 1] = rec
        /\ \A i \in 1..Len(records) : records'[i] = records[i]
    <3>1. /\ Len(Append(records, rec)) = Len(records) + 1
          /\ Append(records, rec)[Len(records) + 1] = rec
          /\ \A i \in 1..Len(records) : Append(records, rec)[i] = records[i]
      BY <2>1, AppendAdds
    <3> QED
      BY <2>3, <3>1
  <2>5. manifest = NoManifest
    BY <2>3 DEF RecorderInv
  <2>6. Log!LastHash = prev
    BY PrevIsLast
  <2>7. Log!Write
    BY <1>a, <2>2, <2>4, <2>5, <2>6 DEF Log!Write
  <2> QED
    BY <2>7
<1> QED
  BY <1>1, <1>2 DEF RecordFrame, EncodeErr

(* Close seals it, if the manifest can be written.                           *)
LEMMA CloseSeals ==
    ASSUME RecorderInv, Close
    PROVE  Log!Seal \/ UNCHANGED Log!vars
<1>a. records' = records
  BY DEF Close
<1>1. CASE manifest' = manifest
  BY <1>a, <1>1 DEF Log!vars
<1>2. CASE file = "open" /\ manifest' = [frameCount |-> seq, finalHash |-> prev]
  <2>1. manifest = NoManifest /\ seq \in Nat
    BY <1>2 DEF RecorderInv
  <2>2. manifest'.frameCount # -1 /\ manifest'.finalHash = prev
    BY <1>2, <2>1
  <2>3. manifest' # NoManifest
    BY <2>2 DEF NoManifest
  <2> QED
    BY <1>a, <2>1, <2>2, <2>3, PrevIsLast DEF Log!Seal
<1> QED
  BY <1>1, <1>2 DEF Close

(* What all the programs of a session do to its record is what may be done   *)
(* to a transcript: add a bound line at the end, seal it once, and no more   *)
(* (RecordFrame by either loop, Close by handleWS, in any order).            *)
THEOREM SessionImplementsTranscript == Spec => ImplementsTranscript
<1>1. Init => Log!Init
  BY DEF Init, RecorderInit, Log!Init, GenesisHash, NoManifest
<1>2. ASSUME SessionInv, [Next]_vars
      PROVE  [Log!Next]_(Log!vars)
  <2>a. RecorderInv
    BY <1>2 DEF SessionInv
  <2>b. UNCHANGED recorderVars => UNCHANGED Log!vars
    BY DEF recorderVars, Log!vars
  <2>1. CASE StartSession
    BY <2>1, <2>b DEF StartSession, NewSessionRecorder, Log!vars
  <2>2. CASE CloseRecorder
    BY <2>2, <2>a, CloseSeals DEF CloseRecorder, Log!Next
  <2>3. CASE UpgradeClient \/ DialBackend \/ ReturnOnFirstError \/ AuditEnd
    BY <2>3, <2>b DEF UpgradeClient, DialBackend, ReturnOnFirstError, AuditEnd
  <2>4. CASE MinutePasses \/ \E p \in Peers : PeerSends(p) \/ PeerReads(p) \/ PeerLeaves(p)
    BY <2>4, <2>b DEF MinutePasses, PeerSends, PeerReads, PeerLeaves
  <2>5. ASSUME NEW p \in Peers, ObserveFrame(p)
        PROVE  [Log!Next]_(Log!vars)
    <3>1. Direction(p) \in Directions
      BY DEF Direction, Directions
    <3>2. taken[p] \in Nat
      BY <1>2 DEF SessionInv, TunnelTypes
    <3> QED
      BY <2>5, <2>a, <2>b, <3>1, <3>2, RecordFrameWrites DEF ObserveFrame, Log!Next
  <2>6. ASSUME NEW p \in Peers, LoopNext(p), ~ObserveFrame(p)
        PROVE  UNCHANGED recorderVars
    BY <2>6 DEF LoopNext, ReadMessage, WriteMessage, PropagateClose, CheckTouch, StoreTouch,
       TouchReturns, SendError
  <2>7. CASE UNCHANGED vars
    BY <2>7, <2>b DEF vars
  <2> QED
    BY <1>2, <2>b, <2>1, <2>2, <2>3, <2>4, <2>5, <2>6, <2>7 DEF Next, HandlerNext
<1> QED
  BY <1>1, <1>2, SessionInvInit, SessionInvNext, PTL DEF Spec, ImplementsTranscript, Log!Spec

=============================================================================

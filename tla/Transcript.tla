------------------------------ MODULE Transcript ------------------------------
(***************************************************************************)
(* What the gateway promises about the record of a session, whatever fails *)
(* and whenever: a line is added at the end and bound to all before it, no *)
(* line is ever changed or taken away, and once the record is sealed with  *)
(* the hash of its last line, nothing is added and the seal stays.         *)
(***************************************************************************)
EXTENDS Naturals, Sequences

VARIABLES
    lines,          \* each with an entry, the hash before it and its own
    sealed,
    seal            \* the hash it was sealed with

vars == <<lines, sealed, seal>>

LastHash == IF lines = <<>> THEN <<>> ELSE lines[Len(lines)].entryHash

Init ==
    /\ lines = <<>>
    /\ sealed = FALSE
    /\ seal = <<>>

Write ==
    /\ ~sealed
    /\ Len(lines') = Len(lines) + 1
    /\ \A i \in 1..Len(lines) : lines'[i] = lines[i]
    /\ LET line == lines'[Len(lines) + 1]
       IN  line.prevHash = LastHash /\ line.entryHash = Append(LastHash, line.entry)
    /\ UNCHANGED <<sealed, seal>>

Seal ==
    /\ ~sealed
    /\ sealed' = TRUE
    /\ seal' = LastHash
    /\ UNCHANGED lines

Next == Write \/ Seal

Spec == Init /\ [][Next]_vars

=============================================================================

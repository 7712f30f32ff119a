------------------------------- MODULE MCTunnel -------------------------------
(* A small session for TLC.                                                   *)
EXTENDS Tunnel

(* The terminal shows more than is typed.                                     *)
Frames == [p \in Peers |-> IF p = "client" THEN 1 ELSE 2]

=============================================================================

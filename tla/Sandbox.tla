-------------------------------- MODULE Sandbox --------------------------------
(***************************************************************************)
(* What DevPlane promises about a user's workspace, whatever fails: a      *)
(* sandbox opens only once all of its walls stand, and no wall comes down  *)
(* while it lasts; once something has been built, it ends only after it    *)
(* was condemned; and its successor starts from nothing.                   *)
(***************************************************************************)
EXTENDS Naturals

CONSTANT Walls

VARIABLES
    uid,            \* the sandbox, 0 when there is none
    last,           \* the one made last
    doomed,         \* it has been condemned
    standing,       \* the walls that stand
    open            \* somebody may be inside

vars == <<uid, last, doomed, standing, open>>

(* History may begin at any time.                                             *)
Init ==
    /\ last \in Nat
    /\ uid \in {0, last}
    /\ doomed \in BOOLEAN
    /\ standing \subseteq Walls
    /\ open \in BOOLEAN
    /\ open => standing = Walls
    /\ uid = 0 => ~doomed /\ standing = {} /\ ~open

Create ==
    /\ uid = 0
    /\ uid' = last + 1
    /\ last' = last + 1
    /\ UNCHANGED <<doomed, standing, open>>

Condemn ==
    /\ uid # 0
    /\ doomed' = TRUE
    /\ UNCHANGED <<uid, last, standing, open>>

Raise(w) ==
    /\ uid # 0
    /\ standing' = standing \cup {w}
    /\ UNCHANGED <<uid, last, doomed, open>>

Open ==
    /\ uid # 0
    /\ standing = Walls
    /\ open' = TRUE
    /\ UNCHANGED <<uid, last, doomed, standing>>

Close ==
    /\ open' = FALSE
    /\ UNCHANGED <<uid, last, doomed, standing>>

End ==
    /\ uid # 0
    /\ doomed \/ (standing = {} /\ ~open)
    /\ uid' = 0
    /\ doomed' = FALSE
    /\ standing' = {}
    /\ open' = FALSE
    /\ UNCHANGED last

Next ==
    \/ Create \/ Condemn \/ Open \/ Close \/ End
    \/ \E w \in Walls : Raise(w)

Spec == Init /\ [][Next]_vars

=============================================================================

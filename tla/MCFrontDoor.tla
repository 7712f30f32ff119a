------------------------------ MODULE MCFrontDoor ------------------------------
(***************************************************************************)
(* The front door for TLC: a browser that may have a cookie already and    *)
(* whose logins bring a token of alice, just expired but within the skew,  *)
(* or one for another audience; and clients that come with bob's token.    *)
(***************************************************************************)
EXTENDS FrontDoor, TLC

Interchangeable == Permutations(Requests)

ExpiryOf == [t \in Tokens |-> IF t = "old" THEN 0 ELSE 2]

SubOf == [t \in Tokens |-> IF t = "bobs" THEN "bob" ELSE "alice"]

Ids == 1..TokenCacheMax + 1

(* What is explored together: the limiter and logins apart, and a second      *)
(* login or the limiter only while little time has passed.                    *)
Explored ==
    /\ logins = 0 \/ passed = 0
    /\ clock <= 2 \/ (logins < 2 /\ passed = 0)

MCSpec == Init /\ [][Next /\ Explored']_vars

=============================================================================

------------------------------ MODULE RateLimiter ------------------------------
(***************************************************************************)
(* An EndpointLimiter of the gateway: pkg/gateway/ratelimit.go.  The       *)
(* token buckets are golang.org/x/time/rate, modelled as the code uses     *)
(* them: Allow takes a token if there is one, and a bucket gains its rate  *)
(* in every unit of time, up to its burst.                                 *)
(***************************************************************************)
EXTENDS Integers

CONSTANTS
    Users,          \* OIDC subjects
    GlobalRPS, GlobalBurst, UserRPS, UserBurst

VARIABLES
    global,         \* tokens in the global bucket
    users,          \* tokens in each user's bucket, NoBucket before the first
    refills,        \* units of time that have passed
    passed,         \* how often the global bucket has let somebody through
    admitted        \* how often each user was let through by both

limiterVars == <<global, users, refills, passed, admitted>>

NoBucket == -1

ASSUME LimiterAssumption ==
    GlobalRPS \in Nat /\ GlobalBurst \in Nat /\ UserRPS \in Nat /\ UserBurst \in Nat

(* NewEndpointLimiter: which limits there are.                                *)
GlobalLimited == GlobalRPS > 0 /\ GlobalBurst > 0

UserLimited == UserRPS > 0

Burst == IF UserBurst = 0 THEN 1 ELSE UserBurst

LimiterTypeOK ==
    /\ global \in 0..GlobalBurst
    /\ users \in [Users -> NoBucket..Burst]
    /\ refills \in Nat
    /\ passed \in Nat
    /\ admitted \in [Users -> Nat]

LimiterInit ==
    /\ global = GlobalBurst
    /\ users = [u \in Users |-> NoBucket]
    /\ refills = 0
    /\ passed = 0
    /\ admitted = [u \in Users |-> 0]

Filled(tokens, rate, burst) == IF tokens + rate > burst THEN burst ELSE tokens + rate

Refill ==
    /\ refills' = refills + 1
    /\ global' = Filled(global, GlobalRPS, GlobalBurst)
    /\ users' = [u \in Users |->
                    IF users[u] = NoBucket THEN NoBucket ELSE Filled(users[u], UserRPS, Burst)]
    /\ UNCHANGED <<passed, admitted>>

(* A faulty variant: the answer of the global bucket is not heeded.           *)
AllowGlobalAlways ==
    /\ global' = IF GlobalLimited THEN global - 1 ELSE global
    /\ passed' = passed + 1
    /\ UNCHANGED <<users, refills, admitted>>

(* Allow, up to the global bucket.                                            *)
AllowGlobal ==
    /\ GlobalLimited => global > 0
    /\ global' = IF GlobalLimited THEN global - 1 ELSE global
    /\ passed' = passed + 1
    /\ UNCHANGED <<users, refills, admitted>>

DenyGlobal == GlobalLimited /\ global = 0 /\ UNCHANGED limiterVars

(* A faulty variant: Store in place of LoadOrStore gives a new bucket to      *)
(* every request.                                                             *)
StoreBucket(u) == Burst

(* users.LoadOrStore: the first request of a user makes the bucket.           *)
Bucket(u) == IF users[u] = NoBucket THEN Burst ELSE users[u]

(* Allow, from there on.                                                      *)
AllowUser(u) ==
    /\ UserLimited => Bucket(u) > 0
    /\ users' = IF UserLimited THEN [users EXCEPT ![u] = Bucket(u) - 1] ELSE users
    /\ admitted' = [admitted EXCEPT ![u] = @ + 1]
    /\ UNCHANGED <<global, refills, passed>>

DenyUser(u) ==
    /\ UserLimited /\ Bucket(u) = 0
    /\ users' = [users EXCEPT ![u] = 0]
    /\ UNCHANGED <<global, refills, passed, admitted>>

-----------------------------------------------------------------------------
(* Nobody gets more than the burst and the rate allow, not even with first    *)
(* requests at the same time, and neither do all together: the tokens a       *)
(* bucket has given are those it started with and those it gained.            *)
WithinLimits ==
    /\ UserLimited => \A u \in Users : admitted[u] <= Burst + UserRPS * refills
    /\ GlobalLimited => passed <= GlobalBurst + GlobalRPS * refills

=============================================================================

---------------------------- MODULE FrontDoorProofs ----------------------------
(* What passes the front door, for any number of requests, tokens and users. *)
EXTENDS FrontDoor, ValidatorProofs

-----------------------------------------------------------------------------
(* The limiter.                                                              *)

(* What a bucket has given and what it still holds never exceed what it      *)
(* started with and what it gained.                                          *)
LimiterInv ==
    /\ LimiterTypeOK
    /\ GlobalLimited => passed + global <= GlobalBurst + GlobalRPS * refills
    /\ UserLimited => \A u \in Users : admitted[u] + Bucket(u) <= Burst + UserRPS * refills

(* What may happen to the limiter in a step of the front door.               *)
LimiterMove ==
    \/ UNCHANGED limiterVars
    \/ Refill
    \/ AllowGlobal \/ DenyGlobal
    \/ \E u \in Users : AllowUser(u) \/ DenyUser(u)

(* Rates add up.                                                             *)
LEMMA OneMore ==
    ASSUME NEW rate \in Nat, NEW n \in Nat
    PROVE  rate * n \in Nat /\ rate * (n + 1) = rate * n + rate
OBVIOUS

(* A bucket gains no more than its rate.                                     *)
LEMMA FilledBounds ==
    ASSUME NEW tokens \in Nat, NEW rate \in Nat, NEW burst \in Nat, tokens <= burst
    PROVE  Filled(tokens, rate, burst) \in 0..burst /\ Filled(tokens, rate, burst) <= tokens + rate
BY DEF Filled

(* A user's bucket holds up to a burst, from the first request on.           *)
LEMMA BucketType ==
    ASSUME LimiterTypeOK, NEW u \in Users
    PROVE  Bucket(u) \in 0..Burst /\ Burst \in Nat
<1>1. Burst \in Nat
  BY LimiterAssumption DEF Burst
<1>2. users[u] \in NoBucket..Burst
  BY DEF LimiterTypeOK
<1> QED
  BY <1>1, <1>2 DEF Bucket, NoBucket

(* A unit of time.                                                           *)
LEMMA RefillKeeps ==
    ASSUME LimiterInv, Refill
    PROVE  LimiterInv'
<1>a. /\ LimiterTypeOK /\ refills \in Nat /\ global \in 0..GlobalBurst /\ passed \in Nat
      /\ admitted \in [Users -> Nat] /\ users \in [Users -> NoBucket..Burst]
      /\ passed' = passed /\ admitted' = admitted /\ refills' = refills + 1
  BY DEF LimiterInv, LimiterTypeOK, Refill
<1>b. Burst \in Nat
  BY LimiterAssumption DEF Burst
<1>1. global' \in 0..GlobalBurst /\ global' <= global + GlobalRPS
  BY <1>a, FilledBounds, LimiterAssumption DEF Refill
<1>2. ASSUME NEW u \in Users
      PROVE  /\ users'[u] \in NoBucket..Burst
             /\ Bucket(u)' \in Nat /\ Bucket(u)' <= Bucket(u) + UserRPS
  <2>1. users[u] \in NoBucket..Burst
    BY <1>a
  <2>2. CASE users[u] = NoBucket
    <3>1. users'[u] = NoBucket
      BY <2>2 DEF Refill
    <3> QED
      BY <1>b, <2>2, <3>1, LimiterAssumption DEF Bucket, NoBucket
  <2>3. CASE users[u] # NoBucket
    <3>1. users[u] \in Nat /\ users[u] <= Burst
      BY <1>b, <2>1, <2>3 DEF NoBucket
    <3>2. users'[u] = Filled(users[u], UserRPS, Burst)
      BY <2>3 DEF Refill
    <3>3. users'[u] \in 0..Burst /\ users'[u] <= users[u] + UserRPS
      BY <1>b, <3>1, <3>2, FilledBounds, LimiterAssumption
    <3> QED
      BY <1>b, <2>3, <3>3 DEF Bucket, NoBucket
  <2> QED
    BY <2>2, <2>3
<1>3. users' \in [Users -> NoBucket..Burst]
  <2>1. users' = [u \in Users |-> users'[u]]
    BY DEF Refill
  <2> QED
    BY <1>2, <2>1
<1>4. LimiterTypeOK'
  BY <1>a, <1>1, <1>3 DEF LimiterTypeOK, Burst
<1>5. GlobalLimited => passed' + global' <= GlobalBurst + GlobalRPS * refills'
  <2>1. GlobalRPS * refills \in Nat /\ GlobalRPS * refills' = GlobalRPS * refills + GlobalRPS
    BY <1>a, OneMore, LimiterAssumption
  <2>2. GlobalLimited => passed + global <= GlobalBurst + GlobalRPS * refills
    BY DEF LimiterInv
  <2>3. PICK m \in Nat : m = GlobalRPS * refills
    BY <2>1
  <2>4. GlobalLimited => passed + global <= GlobalBurst + m
    BY <2>2, <2>3
  <2>5. GlobalRPS * refills' = m + GlobalRPS
    BY <2>1, <2>3
  <2>6. ASSUME GlobalLimited
        PROVE  passed + global' <= GlobalBurst + (m + GlobalRPS)
    <3>1. passed + global <= GlobalBurst + m
      BY <2>4, <2>6
    <3>2. passed \in Nat /\ global \in Nat /\ global' \in Nat /\ GlobalBurst \in Nat /\ GlobalRPS \in Nat
      BY <1>a, <1>1, LimiterAssumption
    <3> QED
      BY <1>1, <2>3, <3>1, <3>2
  <2> QED
    BY <1>a, <2>5, <2>6
<1>6. ASSUME UserLimited, NEW u \in Users
      PROVE  admitted'[u] + Bucket(u)' <= Burst + UserRPS * refills'
  <2>1. UserRPS * refills \in Nat /\ UserRPS * refills' = UserRPS * refills + UserRPS
    BY <1>a, OneMore, LimiterAssumption
  <2>2. admitted[u] + Bucket(u) <= Burst + UserRPS * refills
    BY <1>6 DEF LimiterInv
  <2>3. Bucket(u) \in Nat /\ admitted[u] \in Nat
    BY <1>a, BucketType
  <2> QED
    BY <1>a, <1>b, <1>2, <2>1, <2>2, <2>3, LimiterAssumption
<1> QED
  BY <1>4, <1>5, <1>6 DEF LimiterInv, GlobalLimited, UserLimited, Burst

(* Allow at the global bucket.                                               *)
LEMMA AllowGlobalKeeps ==
    ASSUME LimiterInv, AllowGlobal
    PROVE  LimiterInv'
<1>a. /\ LimiterTypeOK /\ refills \in Nat /\ global \in 0..GlobalBurst /\ passed \in Nat
      /\ users' = users /\ refills' = refills /\ admitted' = admitted /\ passed' = passed + 1
  BY DEF LimiterInv, LimiterTypeOK, AllowGlobal
<1>1. global' \in 0..GlobalBurst /\ (GlobalLimited => global' = global - 1)
  BY <1>a, LimiterAssumption DEF AllowGlobal
<1>2. LimiterTypeOK'
  BY <1>a, <1>1 DEF LimiterTypeOK, Burst
<1>3. GlobalLimited => passed' + global' <= GlobalBurst + GlobalRPS * refills'
  <2>1. GlobalLimited => passed' + global' = passed + global
    BY <1>a, <1>1, LimiterAssumption
  <2> QED
    BY <1>a, <2>1 DEF LimiterInv
<1> QED
  BY <1>a, <1>2, <1>3 DEF LimiterInv, GlobalLimited, UserLimited, Bucket, Burst

(* Allow at the user's bucket.                                               *)
LEMMA AllowUserKeeps ==
    ASSUME LimiterInv, NEW u \in Users, AllowUser(u) \/ DenyUser(u)
    PROVE  LimiterInv'
<1>a. /\ LimiterTypeOK /\ refills \in Nat /\ users \in [Users -> NoBucket..Burst]
      /\ admitted \in [Users -> Nat]
      /\ global' = global /\ refills' = refills /\ passed' = passed
      /\ Bucket(u) \in 0..Burst /\ Burst \in Nat
  BY BucketType DEF LimiterInv, LimiterTypeOK, AllowUser, DenyUser
<1>1. PICK b, n : /\ b \in 0..Burst /\ n \in 0..1
                  /\ users' = IF UserLimited THEN [users EXCEPT ![u] = b] ELSE users
                  /\ admitted' = [admitted EXCEPT ![u] = @ + n]
                  /\ UserLimited => b + n = Bucket(u)
  <2>1. CASE AllowUser(u)
    <3>1. UserLimited => Bucket(u) - 1 \in 0..Burst /\ Bucket(u) - 1 + 1 = Bucket(u)
      BY <1>a, <2>1 DEF AllowUser
    <3>2. CASE UserLimited
      <4> WITNESS Bucket(u) - 1, 1
      <4>1. Bucket(u) - 1 \in 0..Burst /\ 1 \in 0..1 /\ Bucket(u) - 1 + 1 = Bucket(u)
        BY <3>1, <3>2
      <4> QED
        BY <2>1, <3>2, <4>1 DEF AllowUser
    <3>3. CASE ~UserLimited
      <4> WITNESS 0, 1
      <4>1. 0 \in 0..Burst /\ 1 \in 0..1
        BY <1>a
      <4> QED
        BY <2>1, <3>3, <4>1 DEF AllowUser
    <3> QED
      BY <3>2, <3>3
  <2>2. CASE DenyUser(u)
    <3>1. admitted' = [admitted EXCEPT ![u] = @ + 0]
      BY <1>a, <2>2 DEF DenyUser
    <3>2. UserLimited /\ users' = [users EXCEPT ![u] = 0] /\ 0 + 0 = Bucket(u) /\ 0 \in 0..Burst
      BY <1>a, <2>2 DEF DenyUser
    <3>3. 0 \in 0..1
      OBVIOUS
    <3> WITNESS 0, 0
    <3> QED
      BY <3>1, <3>2, <3>3
  <2> QED
    BY <2>1, <2>2
<1>2. b \in NoBucket..Burst /\ b # NoBucket
  BY <1>1, <1>a DEF NoBucket
<1>3. LimiterTypeOK'
  <2>1. users' \in [Users -> NoBucket..Burst] /\ admitted' \in [Users -> Nat]
    BY <1>a, <1>1, <1>2
  <2> QED
    BY <1>a, <2>1 DEF LimiterTypeOK, Burst
<1>4. ASSUME UserLimited, NEW v \in Users
      PROVE  admitted'[v] + Bucket(v)' <= Burst + UserRPS * refills'
  <2>1. admitted[v] + Bucket(v) <= Burst + UserRPS * refills /\ Bucket(v) \in Nat /\ admitted[v] \in Nat
    BY <1>a, <1>4, BucketType DEF LimiterInv
  <2>2. CASE v = u
    <3>1. Bucket(v)' = b /\ admitted'[v] = admitted[v] + n
      BY <1>a, <1>1, <1>2, <1>4, <2>2 DEF Bucket
    <3>2. admitted'[v] + Bucket(v)' = admitted[v] + Bucket(v)
      BY <1>1, <1>4, <2>1, <2>2, <3>1
    <3> QED
      BY <1>a, <2>1, <3>2
  <2>3. CASE v # u
    <3>1. Bucket(v)' = Bucket(v) /\ admitted'[v] = admitted[v]
      BY <1>a, <1>1, <2>3 DEF Bucket, Burst
    <3> QED
      BY <1>a, <2>1, <3>1
  <2> QED
    BY <2>2, <2>3
<1> QED
  BY <1>a, <1>3, <1>4 DEF LimiterInv, GlobalLimited, UserLimited, Burst

(* All that happens to the limiter.                                          *)
LEMMA LimiterKeeps ==
    ASSUME LimiterInv, LimiterMove
    PROVE  LimiterInv'
<1>1. CASE UNCHANGED limiterVars
  BY <1>1 DEF limiterVars, LimiterInv, LimiterTypeOK, GlobalLimited, UserLimited, Bucket, Burst
<1> QED
  BY <1>1, RefillKeeps, AllowGlobalKeeps, AllowUserKeeps DEF LimiterMove, DenyGlobal

-----------------------------------------------------------------------------
(* The handlers.                                                             *)

(* A handler that is in the course of a login, with its state.               *)
InLogin(r) ==
    \/ rpc[r] \in {"idp", "callback", "exchange"}
    \/ rpc[r] = "validating" /\ kind[r] = "callback"

(* The handlers that have called Validate.                                   *)
Calling == {"validating", "global", "user"}

HandlerTypes ==
    /\ tokenCookie \in Tokens \cup {NoToken}
    /\ logins \in 0..MaxLogins
    /\ stateCookie \in 0..logins
    /\ rpc \in [Requests -> Steps]
    /\ kind \in [Requests -> Kinds]
    /\ state \in [Requests -> 0..logins]
    /\ over \subseteq 1..logins
    /\ \A r \in Requests : vpc[r] # "idle" => rpc[r] \in Calling

(* The state cookie is that of the latest login, until it is over.           *)
FrontInv ==
    /\ ValidatorInv /\ LimiterInv /\ HandlerTypes
    /\ CookieIsGenuine
    /\ stateCookie # NoState => stateCookie = logins /\ stateCookie \notin over
    /\ \A r \in Requests : InLogin(r) => state[r] # NoState

(* What a step does to the validator and to the limiter.                     *)
LEMMA Moves ==
    ASSUME FrontInv, [Next]_vars
    PROVE  ValidatorMove /\ LimiterMove
<1>1. CASE UNCHANGED vars
  BY <1>1 DEF vars, ValidatorMove, LimiterMove
<1>2. CASE ValidatorStep
  BY <1>2 DEF ValidatorStep, ValidatorMove, LimiterMove
<1>3. CASE TimePasses
  BY <1>3 DEF TimePasses, ValidatorMove, LimiterMove
<1>4. CASE CookieExpires
  BY <1>4 DEF CookieExpires, ValidatorMove, LimiterMove
<1>5. ASSUME NEW r \in Requests, RequestNext(r)
      PROVE  ValidatorMove /\ LimiterMove
  <2>1. CASE PageArrives(r) \/ PollArrives(r) \/ ClientArrives(r)
    <3>1. PICK t \in Tokens : Validate(r, t)
      BY <2>1, FrontDoorAssumption
      DEF PageArrives, PollArrives, ClientArrives, Presents, FrontInv, HandlerTypes
    <3>2. UNCHANGED limiterVars
      BY <2>1 DEF PageArrives, PollArrives, ClientArrives, Presents
    <3> QED
      BY <3>1, <3>2 DEF ValidatorMove, LimiterMove
  <2>2. CASE \/ PageWithoutToken(r) \/ HandleLogin(r) \/ ReturnFromIdP(r) \/ ReloadCallback(r)
             \/ HandleCallback(r)
    BY <2>2 DEF PageWithoutToken, HandleLogin, ReturnFromIdP, ReloadCallback, HandleCallback,
        ValidatorMove, LimiterMove
  <2>3. CASE PageValidated(r) \/ ApiValidated(r) \/ CallbackValidated(r)
    BY <2>3 DEF PageValidated, ApiValidated, CallbackValidated, ValidatorMove, LimiterMove
  <2>4. CASE ApiGlobal(r)
    <3>1. UNCHANGED validatorVars \/ Validated(r)
      BY <2>4 DEF ApiGlobal
    <3>2. AllowGlobal \/ DenyGlobal
      BY <2>4 DEF ApiGlobal
    <3> QED
      BY <3>1, <3>2 DEF ValidatorMove, LimiterMove
  <2>5. CASE ApiUser(r)
    <3>1. Validated(r) /\ (AllowUser(Sub[tok[r]]) \/ DenyUser(Sub[tok[r]]))
      BY <2>5 DEF ApiUser
    <3>2. tok[r] \in Tokens
      BY <3>1 DEF FrontInv, ValidatorInv, ValidatorTypeOK, Validated
    <3>3. Sub[tok[r]] \in Users
      BY <3>2, FrontDoorAssumption
    <3> QED
      BY <3>1, <3>3 DEF ValidatorMove, LimiterMove
  <2>6. CASE Exchange(r)
    <3>1. UNCHANGED validatorVars \/ \E t \in Tokens : Validate(r, t)
      BY <2>6, FrontDoorAssumption DEF Exchange
    <3>2. UNCHANGED limiterVars
      BY <2>6 DEF Exchange
    <3> QED
      BY <3>1, <3>2 DEF ValidatorMove, LimiterMove
  <2> QED
    BY <1>5, <2>1, <2>2, <2>3, <2>4, <2>5, <2>6 DEF RequestNext
<1> QED
  BY <1>1, <1>2, <1>3, <1>4, <1>5 DEF Next

(* A step of a handler that begins no login and ends none.                   *)
LEMMA HandlerStepKeeps ==
    ASSUME FrontInv, ValidatorInv', LimiterInv', NEW r \in Requests, NEW step \in Steps, Goes(r, step),
           NEW k \in Kinds, kind' = [kind EXCEPT ![r] = k],
           UNCHANGED loginVars,
           stateCookie' \in {stateCookie, NoState}, tokenCookie' \in Genuine \cup {NoToken},
           \A q \in Requests : q # r => vpc'[q] = vpc[q],
           vpc'[r] # "idle" => step \in Calling,
           step \in {"idp", "callback", "exchange"} \/ (step = "validating" /\ k = "callback") =>
               state[r] # NoState
    PROVE  FrontInv'
<1>a. /\ HandlerTypes /\ logins' = logins /\ state' = state /\ over' = over /\ NoState = 0
      /\ rpc' = [rpc EXCEPT ![r] = step]
  BY DEF FrontInv, loginVars, Goes, NoState
<1>b. /\ rpc' \in [Requests -> Steps] /\ rpc'[r] = step /\ kind' \in [Requests -> Kinds] /\ kind'[r] = k
      /\ \A q \in Requests : q # r => rpc'[q] = rpc[q] /\ kind'[q] = kind[q]
  BY <1>a DEF HandlerTypes
<1>1. HandlerTypes'
  <2>1. stateCookie' \in 0..logins
    BY <1>a DEF HandlerTypes
  <2>2. tokenCookie' \in Tokens \cup {NoToken}
    BY ValidatorAssumption
  <2>3. \A q \in Requests : vpc'[q] # "idle" => rpc'[q] \in Calling
    BY <1>a, <1>b DEF HandlerTypes
  <2> QED
    BY <1>a, <1>b, <2>1, <2>2, <2>3 DEF HandlerTypes, Calling
<1>2. \A q \in Requests : InLogin(q)' => state'[q] # NoState
  BY <1>a, <1>b DEF FrontInv, InLogin
<1>3. stateCookie' # NoState => stateCookie' = logins' /\ stateCookie' \notin over'
  BY <1>a DEF FrontInv
<1> QED
  BY <1>1, <1>2, <1>3 DEF FrontInv, CookieIsGenuine

(* The answer to a callback that passed the check ends its login.            *)
LEMMA CallbackAnswersKeeps ==
    ASSUME FrontInv, ValidatorInv', LimiterInv', NEW r \in Requests, InLogin(r), CallbackAnswers(r),
           tokenCookie' \in Genuine \cup {NoToken}, UNCHANGED <<logins, state, kind>>,
           \A q \in Requests : q # r => vpc'[q] = vpc[q],
           vpc'[r] = "idle"
    PROVE  FrontInv'
<1>a. /\ HandlerTypes /\ logins' = logins /\ state' = state /\ kind' = kind /\ stateCookie' = NoState
      /\ over' = over \cup {state[r]} /\ rpc' = [rpc EXCEPT ![r] = "idle"] /\ NoState = 0
  BY DEF FrontInv, CallbackAnswers, Goes, NoState
<1>b. /\ rpc' \in [Requests -> Steps] /\ rpc'[r] = "idle"
      /\ \A q \in Requests : q # r => rpc'[q] = rpc[q]
  BY <1>a DEF HandlerTypes, Steps
<1>1. state[r] \in 1..logins
  BY <1>a DEF FrontInv, HandlerTypes
<1>2. HandlerTypes'
  <2>1. stateCookie' \in 0..logins /\ over' \subseteq 1..logins
    <3>1. logins \in Nat /\ over \subseteq 1..logins
      BY <1>a, FrontDoorAssumption DEF HandlerTypes
    <3>2. 0 \in 0..logins
      BY <3>1
    <3> QED
      BY <1>a, <1>1, <3>1, <3>2
  <2>2. tokenCookie' \in Tokens \cup {NoToken}
    BY ValidatorAssumption
  <2>3. \A q \in Requests : vpc'[q] # "idle" => rpc'[q] \in Calling
    BY <1>a, <1>b DEF HandlerTypes
  <2> QED
    BY <1>a, <1>b, <2>1, <2>2, <2>3 DEF HandlerTypes, Calling
<1>3. \A q \in Requests : InLogin(q)' => state'[q] # NoState
  BY <1>a, <1>b DEF FrontInv, InLogin
<1> QED
  BY <1>a, <1>2, <1>3 DEF FrontInv, CookieIsGenuine

(* A new login replaces the state of any other.                              *)
LEMMA HandleLoginKeeps ==
    ASSUME FrontInv, ValidatorInv', LimiterInv', NEW r \in Requests, HandleLogin(r)
    PROVE  FrontInv'
<1>a. /\ HandlerTypes /\ logins' = logins + 1 /\ stateCookie' = logins + 1 /\ over' = over /\ kind' = kind
      /\ state' = [state EXCEPT ![r] = logins + 1] /\ rpc' = [rpc EXCEPT ![r] = "idp"] /\ NoState = 0
      /\ tokenCookie' = tokenCookie /\ vpc' = vpc /\ logins < MaxLogins /\ rpc[r] = "login"
  BY DEF FrontInv, HandleLogin, Goes, At, validatorVars, callVars, NoState
<1>b. logins \in Nat /\ MaxLogins \in Nat
  BY <1>a, FrontDoorAssumption DEF HandlerTypes
<1>1. \A q \in Requests : state'[q] = IF q = r THEN logins + 1 ELSE state[q]
  BY <1>a DEF HandlerTypes
<1>2. HandlerTypes'
  <2>1. state' \in [Requests -> 0..logins + 1]
    BY <1>a, <1>b DEF HandlerTypes
  <2>2. over \subseteq 1..logins + 1 /\ logins + 1 \in 0..MaxLogins /\ logins + 1 \in 0..logins + 1
    BY <1>a, <1>b DEF HandlerTypes
  <2>3. rpc' \in [Requests -> Steps]
    BY <1>a DEF HandlerTypes, Steps
  <2>4. \A q \in Requests : vpc'[q] # "idle" => rpc'[q] \in Calling
    BY <1>a DEF HandlerTypes, Calling
  <2> QED
    BY <1>a, <2>1, <2>2, <2>3, <2>4 DEF HandlerTypes, Calling
<1>3. \A q \in Requests : InLogin(q)' => state'[q] # NoState
  <2>1. \A q \in Requests : q # r /\ InLogin(q)' => InLogin(q)
    BY <1>a DEF HandlerTypes, InLogin
  <2> QED
    BY <1>a, <1>b, <1>1, <2>1 DEF FrontInv
<1>4. logins + 1 \notin over
  BY <1>a, <1>b DEF HandlerTypes
<1> QED
  BY <1>a, <1>2, <1>3, <1>4 DEF FrontInv, CookieIsGenuine

(* Steps that leave the handlers where they are.                             *)
LEMMA OutsideKeeps ==
    ASSUME FrontInv, ValidatorInv', LimiterInv',
           UNCHANGED vars \/ ValidatorStep \/ TimePasses \/ CookieExpires
    PROVE  FrontInv'
<1>a. /\ HandlerTypes /\ UNCHANGED <<logins, state, over, rpc, kind>>
      /\ tokenCookie' \in {tokenCookie, NoToken} /\ stateCookie' \in {stateCookie, NoState}
  BY DEF FrontInv, vars, loginVars, browserVars, ValidatorStep, TimePasses, CookieExpires
<1>1. \A q \in Requests : vpc'[q] # "idle" => vpc[q] # "idle"
  <2>1. CASE ValidatorStep
    <3>1. CASE StartSweep \/ SweepOne \/ EndSweep
      BY <3>1 DEF StartSweep, SweepOne, EndSweep, callVars
    <3>2. ASSUME NEW c \in Requests, Lookup(c) \/ Verify(c) \/ Insert(c)
          PROVE  vpc[c] # "idle" /\ \E p : vpc' = [vpc EXCEPT ![c] = p]
      BY <3>2 DEF Lookup, Verify, Insert, GoesOn, Returns
    <3> QED
      BY <2>1, <3>1, <3>2 DEF ValidatorStep, ValidatorNext, FrontInv, ValidatorInv, ValidatorTypeOK
  <2>2. CASE UNCHANGED vars \/ TimePasses \/ CookieExpires
    BY <2>2 DEF vars, validatorVars, callVars, TimePasses, ClockTicks, CookieExpires
  <2> QED
    BY <2>1, <2>2
<1>2. HandlerTypes'
  <2>1. stateCookie' \in 0..logins
    BY <1>a DEF HandlerTypes, NoState
  <2> QED
    BY <1>a, <1>1, <2>1 DEF HandlerTypes, Calling
<1>3. CookieIsGenuine'
  BY <1>a DEF FrontInv, CookieIsGenuine
<1> QED
  BY <1>a, <1>2, <1>3 DEF FrontInv, InLogin

(* Every request, step by step.                                              *)
LEMMA RequestKeeps ==
    ASSUME FrontInv, ValidatorInv', LimiterInv', NEW r \in Requests, RequestNext(r)
    PROVE  FrontInv'
<1>a. /\ HandlerTypes /\ vpc \in [Requests -> {"idle", "lookup", "verify", "insert", "done"}]
      /\ tokenCookie \in Genuine \cup {NoToken}
      /\ kind \in [Requests -> Kinds] /\ kind[r] \in Kinds /\ kind = [kind EXCEPT ![r] = kind[r]]
      /\ vpc[r] # "idle" => rpc[r] \in Calling
  BY DEF FrontInv, ValidatorInv, ValidatorTypeOK, CookieIsGenuine, HandlerTypes
<1>b. Accepted(r) => tok[r] \in Genuine
  BY DEF FrontInv, ValidatorInv, Accepted
<1>c. Validated(r) => vpc'[r] = "idle" /\ \A q \in Requests : q # r => vpc'[q] = vpc[q]
  BY <1>a DEF Validated
<1>d. \A t : Validate(r, t) => \A q \in Requests : q # r => vpc'[q] = vpc[q]
  BY <1>a DEF Validate
<1>e. UNCHANGED validatorVars => vpc' = vpc
  BY DEF validatorVars, callVars
<1>1. CASE PageArrives(r) \/ PollArrives(r) \/ ClientArrives(r)
  <2>1. PICK k \in {"page", "poll", "client"} : \E t : Presents(r, k, t)
    BY <1>1 DEF PageArrives, PollArrives, ClientArrives
  <2> QED
    BY <1>a, <1>d, <2>1, HandlerStepKeeps DEF Presents, Steps, Kinds, Calling, browserVars
<1>2. CASE PageWithoutToken(r)
  BY <1>a, <1>e, <1>2, HandlerStepKeeps DEF PageWithoutToken, At, Steps, Kinds, Calling, browserVars
<1>3. CASE PageValidated(r)
  BY <1>a, <1>c, <1>3, HandlerStepKeeps DEF PageValidated, Steps, Kinds, Calling
<1>4. CASE ApiValidated(r)
  <2>1. CASE Accepted(r) /\ Goes(r, "global") /\ UNCHANGED <<validatorVars, tokenCookie>>
    BY <1>a, <1>e, <1>4, <2>1, HandlerStepKeeps DEF ApiValidated, Steps, Calling
  <2>2. CASE Goes(r, "idle") /\ Validated(r)
    <3>1. tokenCookie' \in Genuine \cup {NoToken}
      BY <1>a, <1>4 DEF ApiValidated
    <3> QED
      BY <1>a, <1>c, <1>4, <2>2, <3>1, HandlerStepKeeps DEF ApiValidated, Steps
  <2> QED
    BY <1>4, <2>1, <2>2 DEF ApiValidated
<1>5. CASE ApiGlobal(r)
  BY <1>a, <1>c, <1>e, <1>5, HandlerStepKeeps DEF ApiGlobal, Steps, Kinds, Calling, browserVars
<1>6. CASE ApiUser(r)
  BY <1>a, <1>c, <1>6, HandlerStepKeeps DEF ApiUser, Steps, Kinds, Calling, browserVars
<1>7. CASE HandleLogin(r)
  BY <1>7, HandleLoginKeeps
<1>8. CASE ReturnFromIdP(r)
  <2>1. state[r] # NoState /\ vpc[r] = "idle"
    BY <1>a, <1>8 DEF ReturnFromIdP, FrontInv, InLogin, At, Calling
  <2> QED
    BY <1>a, <1>e, <1>8, <2>1, HandlerStepKeeps DEF ReturnFromIdP, Steps, Kinds, browserVars
<1>9. CASE ReloadCallback(r)
  BY <1>a, <1>e, <1>9, HandlerStepKeeps DEF ReloadCallback, At, Steps, Kinds, Calling, browserVars
<1>10. CASE HandleCallback(r)
  <2>1. state[r] # NoState /\ vpc[r] = "idle"
    BY <1>a, <1>10 DEF HandleCallback, FrontInv, InLogin, At, Calling
  <2> QED
    BY <1>a, <1>e, <1>10, <2>1, HandlerStepKeeps DEF HandleCallback, Steps, Kinds, browserVars
<1>11. CASE Exchange(r)
  <2>1. InLogin(r) /\ state[r] # NoState /\ vpc[r] = "idle"
    BY <1>a, <1>11 DEF Exchange, FrontInv, InLogin, At, Calling
  <2>2. CASE CallbackAnswers(r) /\ UNCHANGED validatorVars
    BY <1>a, <1>e, <1>11, <2>1, <2>2, CallbackAnswersKeeps DEF Exchange
  <2>3. CASE \E t \in Minted : Validate(r, t) /\ Goes(r, "validating") /\ UNCHANGED <<stateCookie, over>>
    BY <1>a, <1>d, <1>11, <2>1, <2>3, HandlerStepKeeps
    DEF Exchange, Steps, Calling, loginVars
  <2> QED
    BY <1>11, <2>2, <2>3 DEF Exchange
<1>12. CASE CallbackValidated(r)
  <2>1. InLogin(r)
    BY <1>12 DEF CallbackValidated, InLogin, At
  <2>2. tokenCookie' \in Genuine \cup {NoToken}
    BY <1>a, <1>b, <1>12 DEF CallbackValidated
  <2> QED
    BY <1>c, <1>12, <2>1, <2>2, CallbackAnswersKeeps DEF CallbackValidated
<1> QED
  BY <1>1, <1>2, <1>3, <1>4, <1>5, <1>6, <1>7, <1>8, <1>9, <1>10, <1>11, <1>12 DEF RequestNext

-----------------------------------------------------------------------------
(* At first nobody has asked for anything.                                   *)
LEMMA FrontInvInit == Init => FrontInv
<1> SUFFICES ASSUME Init
             PROVE  FrontInv
  OBVIOUS
<1>1. ValidatorInv
  <2>1. lru = <<>> /\ index = [k \in Tokens |-> NoElement]
    BY DEF Init, ValidatorInit
  <2>2. lru \in Seq(Elements) /\ Len(lru) = 0
    BY <2>1
  <2>3. CacheOK(lru, index)
    BY <2>1, <2>2, ValidatorAssumption DEF CacheOK, Distinct, Indexed
  <2>4. ValidatorTypeOK
    BY <2>2 DEF Init, ValidatorInit, ValidatorTypeOK, Answers
  <2> QED
    BY <2>3, <2>4 DEF Init, ValidatorInit, ValidatorInv
<1>2. LimiterInv
  <2>1. Burst \in Nat /\ GlobalBurst \in Nat /\ GlobalRPS * 0 = 0 /\ UserRPS * 0 = 0
    BY LimiterAssumption DEF Burst
  <2>2. LimiterTypeOK
    BY <2>1 DEF Init, LimiterInit, LimiterTypeOK, NoBucket
  <2>3. \A u \in Users : Bucket(u) = Burst
    BY DEF Init, LimiterInit, Bucket
  <2> QED
    BY <2>1, <2>2, <2>3 DEF Init, LimiterInit, LimiterInv
<1>3. HandlerTypes
  BY ValidatorAssumption, FrontDoorAssumption
  DEF Init, HandlerTypes, NoState, Steps, Kinds, ValidatorInit
<1> QED
  BY <1>1, <1>2, <1>3 DEF Init, FrontInv, CookieIsGenuine, InLogin

(* Every step of the front door preserves the invariant.                     *)
LEMMA FrontInvNext == FrontInv /\ [Next]_vars => FrontInv' /\ AcceptsInTime
<1> SUFFICES ASSUME FrontInv, [Next]_vars
             PROVE  FrontInv' /\ AcceptsInTime
  OBVIOUS
<1>1. ValidatorInv' /\ AcceptsInTime /\ LimiterInv'
  BY Moves, ValidatorKeeps, LimiterKeeps DEF FrontInv
<1>2. FrontInv'
  BY <1>1, RequestKeeps, OutsideKeeps DEF Next
<1> QED
  BY <1>1, <1>2

(* The invariant always holds.                                               *)
LEMMA AlwaysFrontInv == Spec => []FrontInv
BY FrontInvInit, FrontInvNext, PTL DEF Spec

(* Every variable of the front door keeps its type, and only a handler that  *)
(* has called Validate has a call under way.                                 *)
THEOREM FrontDoorTypeCorrect == Spec => []TypeOK
<1>1. FrontInv => TypeOK
  BY DEF FrontInv, ValidatorInv, LimiterInv, HandlerTypes, Calling, TypeOK
<1> QED
  BY <1>1, AlwaysFrontInv, PTL

(* The cache never outgrows its capacity (Validator.Validate).               *)
THEOREM CacheStaysBounded == Spec => []CacheBounded
<1>1. FrontInv => CacheBounded
  BY DEF FrontInv, ValidatorInv, CacheOK, CacheBounded
<1> QED
  BY <1>1, AlwaysFrontInv, PTL

(* The index only refers to elements of the list, each to one of its token   *)
(* (Validate and evictExpired).                                              *)
THEOREM IndexStaysSound == Spec => []IndexSound
<1>1. FrontInv => IndexSound
  BY DEF FrontInv, ValidatorInv, CacheOK, Distinct, Indexed, IndexSound
<1> QED
  BY <1>1, AlwaysFrontInv, PTL

(* No token is accepted that is not genuine, and none later than a cache     *)
(* entry may live after its expiry (Validate).                               *)
THEOREM TokensAcceptedInTime == Spec => AcceptedInTime
<1>1. FrontInv /\ [Next]_vars => [AcceptsInTime]_validatorVars
  BY FrontInvNext
<1> QED
  BY <1>1, AlwaysFrontInv, PTL DEF Spec, AcceptedInTime, AcceptsInTime

(* Neither a user nor all of them together are let through more often than   *)
(* burst and rate allow (EndpointLimiter.Allow).                             *)
THEOREM LimitsHold == Spec => []WithinLimits
<1>1. FrontInv => WithinLimits
  <2> SUFFICES ASSUME FrontInv
               PROVE  WithinLimits
    OBVIOUS
  <2>1. LimiterInv /\ LimiterTypeOK
    BY DEF FrontInv, LimiterInv
  <2>2. ASSUME UserLimited, NEW u \in Users
        PROVE  admitted[u] <= Burst + UserRPS * refills
    <3>1. admitted[u] + Bucket(u) <= Burst + UserRPS * refills
      BY <2>1, <2>2 DEF LimiterInv
    <3>2. admitted[u] \in Nat /\ Bucket(u) \in Nat /\ Burst \in Nat /\ UserRPS * refills \in Nat
      BY <2>1, BucketType, OneMore, LimiterAssumption DEF LimiterTypeOK
    <3> QED
      BY <3>1, <3>2
  <2>3. ASSUME GlobalLimited
        PROVE  passed <= GlobalBurst + GlobalRPS * refills
    <3>1. passed + global <= GlobalBurst + GlobalRPS * refills
      BY <2>1, <2>3 DEF LimiterInv
    <3>2. passed \in Nat /\ global \in Nat /\ GlobalBurst \in Nat /\ GlobalRPS * refills \in Nat
      BY <2>1, OneMore, LimiterAssumption DEF LimiterTypeOK
    <3> QED
      BY <3>1, <3>2
  <2> QED
    BY <2>2, <2>3 DEF WithinLimits
<1> QED
  BY <1>1, AlwaysFrontInv, PTL

(* The session cookie only holds genuine tokens (handleCallback).            *)
THEOREM CookieStaysGenuine == Spec => []CookieIsGenuine
<1>1. FrontInv => CookieIsGenuine
  BY DEF FrontInv
<1> QED
  BY <1>1, AlwaysFrontInv, PTL

(* A callback passes its check for the latest login only, and only until     *)
(* that login has been answered (handleLogin and handleCallback).            *)
THEOREM OnlyLatestLogin == Spec => LatestLoginOnly
<1> DEFINE Latest == \A r \in Requests : At(r, "callback") /\ rpc'[r] = "exchange" =>
                        state[r] = logins /\ state[r] \notin over
<1>1. FrontInv /\ [Next]_vars => [Latest]_vars
  <2> SUFFICES ASSUME FrontInv, Next, NEW r \in Requests, At(r, "callback"), rpc'[r] = "exchange"
               PROVE  state[r] = logins /\ state[r] \notin over
    OBVIOUS
  <2>1. rpc \in [Requests -> Steps] /\ rpc[r] = "callback" /\ rpc' # rpc
    BY DEF FrontInv, HandlerTypes, At
  <2>2. PICK q \in Requests : RequestNext(q)
    BY <2>1 DEF Next, ValidatorStep, TimePasses, CookieExpires
  <2>3. PICK step : rpc' = [rpc EXCEPT ![q] = step]
    BY <2>2 DEF RequestNext, PageArrives, PollArrives, ClientArrives, Presents, PageWithoutToken,
        PageValidated, ApiValidated, ApiGlobal, ApiUser, HandleLogin, ReturnFromIdP, ReloadCallback,
        HandleCallback, Exchange, CallbackValidated, CallbackAnswers, Goes
  <2>4. q = r
    BY <2>1, <2>3
  <2>5. HandleCallback(r)
    BY <2>1, <2>2, <2>4 DEF RequestNext, PageArrives, PollArrives, ClientArrives, Presents,
        PageWithoutToken, PageValidated, ApiValidated, ApiGlobal, ApiUser, HandleLogin, ReturnFromIdP,
        ReloadCallback, Exchange, CallbackValidated, At
  <2>6. stateCookie = state[r]
    BY <2>1, <2>5 DEF HandleCallback, Goes
  <2>7. state[r] # NoState
    BY <2>1 DEF FrontInv, InLogin
  <2> QED
    BY <2>6, <2>7 DEF FrontInv
<1> QED
  BY <1>1, AlwaysFrontInv, PTL DEF Spec, LatestLoginOnly

=============================================================================

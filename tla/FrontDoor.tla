------------------------------- MODULE FrontDoor -------------------------------
(***************************************************************************)
(* What a request passes before the gateway touches a Workspace: the       *)
(* handlers of cmd/gateway/main.go over the Validator they share and the   *)
(* limiter of their endpoint.  One browser, with one jar of cookies for    *)
(* all of its tabs, loads pages, polls the API and logs in; other clients  *)
(* call the API with a bearer token.                                       *)
(*                                                                         *)
(* A handler runs concurrently with the others.  It reads the cookies when *)
(* the request arrives; what it sets reaches the browser when it answers.  *)
(***************************************************************************)
EXTENDS Validator, RateLimiter

CONSTANTS
    Sub,            \* the subject of each token
    Bearers,        \* tokens other clients present
    Minted,         \* tokens the IdP may give the browser at the end of a login
    MaxLogins       \* how many logins begin

VARIABLES
    tokenCookie,    \* devplane_token, NoToken if not set
    stateCookie,    \* devplane_state, NoState if not set
    logins,         \* states given out by handleLogin
    rpc,            \* where the handler of each request stands
    kind,           \* who asks, and for what
    state,          \* the state in the callback URL of the request's tab
    over            \* logins whose callback passed the check and was answered

browserVars == <<tokenCookie, stateCookie>>

loginVars == <<logins, state, over>>

vars == <<validatorVars, limiterVars, browserVars, loginVars, rpc, kind>>

NoState == 0

ASSUME FrontDoorAssumption ==
    /\ Sub \in [Tokens -> Users]
    /\ Bearers \subseteq Tokens /\ Minted \subseteq Tokens
    /\ MaxLogins \in Nat

Kinds == {"page", "poll", "client", "callback"}

Steps == {"idle", "validating", "global", "user", "login", "idp", "callback", "exchange"}

TypeOK ==
    /\ ValidatorTypeOK
    /\ LimiterTypeOK
    /\ tokenCookie \in Tokens \cup {NoToken}
    /\ stateCookie \in 0..logins
    /\ logins \in 0..MaxLogins
    /\ rpc \in [Requests -> Steps]
    /\ kind \in [Requests -> Kinds]
    /\ state \in [Requests -> 0..logins]
    /\ over \subseteq 1..logins
    /\ \A r \in Requests : (vpc[r] # "idle") => (rpc[r] \in {"validating", "global", "user"})

Init ==
    /\ ValidatorInit /\ LimiterInit
    /\ tokenCookie \in Genuine \cup {NoToken}
    /\ stateCookie = NoState
    /\ logins = 0
    /\ rpc = [r \in Requests |-> "idle"]
    /\ kind = [r \in Requests |-> "page"]
    /\ state = [r \in Requests |-> NoState]
    /\ over = {}

At(r, step) == rpc[r] = step

Goes(r, step) == rpc' = [rpc EXCEPT ![r] = step]

(* extractToken gives the token of a request to Validate.                     *)
Presents(r, k, t) ==
    /\ At(r, "idle")
    /\ Validate(r, t)
    /\ Goes(r, "validating")
    /\ kind' = [kind EXCEPT ![r] = k]
    /\ UNCHANGED <<limiterVars, browserVars, loginVars>>

PageArrives(r) == tokenCookie # NoToken /\ Presents(r, "page", tokenCookie)

PollArrives(r) == tokenCookie # NoToken /\ Presents(r, "poll", tokenCookie)

ClientArrives(r) == \E t \in Bearers : Presents(r, "client", t)

(* handleProxy without a token sends the browser to /login.                   *)
PageWithoutToken(r) ==
    /\ At(r, "idle")
    /\ tokenCookie = NoToken
    /\ Goes(r, "login")
    /\ kind' = [kind EXCEPT ![r] = "callback"]
    /\ UNCHANGED <<validatorVars, limiterVars, browserVars, loginVars>>

Accepted(r) == vpc[r] = "done" /\ answer[r] = "ok"

Refused(r) == vpc[r] = "done" /\ answer[r] # "ok"

(* handleProxy clears the cookie it takes for stale, whatever it holds by     *)
(* now; with an accepted token it goes on to the Workspace.                   *)
PageValidated(r) ==
    /\ At(r, "validating") /\ kind[r] = "page"
    /\ \/ Accepted(r) /\ Goes(r, "idle") /\ UNCHANGED <<tokenCookie, kind>>
       \/ /\ Refused(r)
          /\ tokenCookie' = NoToken
          /\ Goes(r, "login")
          /\ kind' = [kind EXCEPT ![r] = "callback"]
    /\ Validated(r)
    /\ UNCHANGED <<limiterVars, stateCookie, loginVars>>

(* handleWorkspaceAPI does so too, of a browser that asked; with an accepted  *)
(* token it goes on to the limiter.                                           *)
ApiValidated(r) ==
    /\ At(r, "validating") /\ kind[r] \in {"poll", "client"}
    /\ \/ /\ Accepted(r)
          /\ Goes(r, "global")
          /\ UNCHANGED <<validatorVars, tokenCookie>>
       \/ /\ Refused(r)
          /\ tokenCookie' = IF kind[r] = "poll" THEN NoToken ELSE tokenCookie
          /\ Goes(r, "idle")
          /\ Validated(r)
    /\ UNCHANGED <<limiterVars, stateCookie, loginVars, kind>>

(* lifecycleRL.Allow; a request it lets through goes on to the Workspace.     *)
ApiGlobal(r) ==
    /\ At(r, "global")
    /\ \/ AllowGlobal /\ Goes(r, "user") /\ UNCHANGED validatorVars
       \/ DenyGlobal /\ Goes(r, "idle") /\ Validated(r)
    /\ UNCHANGED <<browserVars, loginVars, kind>>

ApiUser(r) ==
    /\ At(r, "user")
    /\ AllowUser(Sub[tok[r]]) \/ DenyUser(Sub[tok[r]])
    /\ Goes(r, "idle")
    /\ Validated(r)
    /\ UNCHANGED <<browserVars, loginVars, kind>>

(* handleLogin: the state of a tab replaces that of any other.                *)
HandleLogin(r) ==
    /\ At(r, "login")
    /\ logins < MaxLogins
    /\ logins' = logins + 1
    /\ stateCookie' = logins'
    /\ state' = [state EXCEPT ![r] = logins']
    /\ Goes(r, "idp")
    /\ UNCHANGED <<validatorVars, limiterVars, tokenCookie, over, kind>>

(* The IdP sends the tab to the callback URL, or the user leaves it; later    *)
(* the page at that URL may be loaded again.                                  *)
ReturnFromIdP(r) ==
    /\ At(r, "idp")
    /\ Goes(r, "callback") \/ Goes(r, "idle")
    /\ UNCHANGED <<validatorVars, limiterVars, browserVars, loginVars, kind>>

ReloadCallback(r) ==
    /\ At(r, "idle")
    /\ state[r] # NoState
    /\ Goes(r, "callback")
    /\ kind' = [kind EXCEPT ![r] = "callback"]
    /\ UNCHANGED <<validatorVars, limiterVars, browserVars, loginVars>>

(* handleCallback, up to the check of the state.                              *)
HandleCallback(r) ==
    /\ At(r, "callback")
    /\ \/ stateCookie # state[r] /\ Goes(r, "idle")
       \/ stateCookie = state[r] /\ Goes(r, "exchange")
    /\ UNCHANGED <<validatorVars, limiterVars, browserVars, loginVars, kind>>

(* A faulty variant: the state cookie stays.                                  *)
CallbackLeavesState(r) ==
    /\ UNCHANGED stateCookie
    /\ over' = over \cup {state[r]}
    /\ Goes(r, "idle")

(* Any answer from there on clears the state cookie.                          *)
CallbackAnswers(r) ==
    /\ stateCookie' = NoState
    /\ over' = over \cup {state[r]}
    /\ Goes(r, "idle")

(* cfg.Exchange fails, brings no ID token, or brings one to validate.         *)
Exchange(r) ==
    /\ At(r, "exchange")
    /\ \/ CallbackAnswers(r) /\ UNCHANGED validatorVars
       \/ /\ \E t \in Minted : Validate(r, t)
          /\ Goes(r, "validating")
          /\ UNCHANGED <<stateCookie, over>>
    /\ UNCHANGED <<limiterVars, tokenCookie, logins, state, kind>>

(* A faulty variant: the result of Validate is not looked at.                 *)
CallbackTrusts(r) ==
    /\ At(r, "validating") /\ kind[r] = "callback"
    /\ Accepted(r) \/ Refused(r)
    /\ tokenCookie' = tok[r]
    /\ CallbackAnswers(r)
    /\ Validated(r)
    /\ UNCHANGED <<limiterVars, logins, state, kind>>

(* The rest of handleCallback: an ID token that is valid becomes the cookie.  *)
CallbackValidated(r) ==
    /\ At(r, "validating") /\ kind[r] = "callback"
    /\ \/ Accepted(r) /\ tokenCookie' = tok[r]
       \/ Refused(r) /\ UNCHANGED tokenCookie
    /\ CallbackAnswers(r)
    /\ Validated(r)
    /\ UNCHANGED <<limiterVars, logins, state, kind>>

(* The browser drops a cookie whose time is up: the token cookie has that of  *)
(* the access token, the state cookie ten minutes.                            *)
CookieExpires ==
    /\ \/ tokenCookie # NoToken /\ tokenCookie' = NoToken /\ UNCHANGED stateCookie
       \/ stateCookie # NoState /\ stateCookie' = NoState /\ UNCHANGED tokenCookie
    /\ UNCHANGED <<validatorVars, limiterVars, loginVars, rpc, kind>>

TimePasses ==
    /\ ClockTicks
    /\ Refill
    /\ UNCHANGED <<browserVars, loginVars, rpc, kind>>

ValidatorStep ==
    /\ ValidatorNext
    /\ UNCHANGED <<limiterVars, browserVars, loginVars, rpc, kind>>

RequestNext(r) ==
    \/ PageArrives(r) \/ PollArrives(r) \/ ClientArrives(r) \/ PageWithoutToken(r)
    \/ PageValidated(r) \/ ApiValidated(r) \/ ApiGlobal(r) \/ ApiUser(r)
    \/ HandleLogin(r) \/ ReturnFromIdP(r) \/ ReloadCallback(r)
    \/ HandleCallback(r) \/ Exchange(r) \/ CallbackValidated(r)

Next ==
    \/ ValidatorStep \/ TimePasses \/ CookieExpires
    \/ \E r \in Requests : RequestNext(r)

Spec == Init /\ [][Next]_vars

-----------------------------------------------------------------------------
(* The session cookie only ever holds a token the IdP issued for this         *)
(* gateway: what a login brings is validated before it is set.                *)
CookieIsGenuine == tokenCookie \in Genuine \cup {NoToken}

(* A callback passes the check of handleCallback only for the login that the  *)
(* browser began last, whichever tab began it, and only while no callback of  *)
(* that login has been answered.                                              *)
LatestLoginOnly ==
    [][\A r \in Requests : At(r, "callback") /\ rpc'[r] = "exchange" =>
        state[r] = logins /\ state[r] \notin over]_vars

=============================================================================

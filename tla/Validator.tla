------------------------------- MODULE Validator -------------------------------
(***************************************************************************)
(* The gateway's token validator and its cache: pkg/gateway/auth.go.       *)
(*                                                                         *)
(* Validate has two critical sections, with the verification of the token  *)
(* between them and outside the mutex; calls run concurrently, several of  *)
(* them perhaps for one token.  The LRU list holds elements with an        *)
(* identity, as list.Element has, and the index refers to them by it.  The *)
(* hash of a token is injective, so the token is the key.  Time is in the  *)
(* unit of which tokenCacheTTL is a multiple.                              *)
(***************************************************************************)
EXTENDS Integers, Sequences

CONSTANTS
    Requests,       \* the requests that may call Validate at a time
    Tokens,         \* raw tokens
    Genuine,        \* those the IdP signed for this audience
    Foreign,        \* those it signed for another
    Expiry,         \* the exp claim of each token
    ClockSkew,
    TokenCacheTTL,
    TokenCacheMax,
    MaxClock,       \* the end of the clock
    ElementIds      \* identities of list elements, one more than fit the list

VARIABLES
    clock,
    index,          \* token -> identity of its element, NoElement if none
    lru,            \* the elements, most recently used first
    sweeping,       \* evictExpired holds the mutex
    vpc,            \* where each call of Validate stands
    tok,            \* its token
    answer          \* its result

cacheVars == <<index, lru>>

callVars == <<vpc, tok, answer>>

validatorVars == <<clock, cacheVars, sweeping, callVars>>

NoElement == 0

NoToken == "none"

Answers == {"none", "ok", "token_expired", "forbidden", "unauthorized"}

ASSUME ValidatorAssumption ==
    /\ NoToken \notin Tokens
    /\ Genuine \subseteq Tokens /\ Foreign \subseteq Tokens
    /\ Expiry \in [Tokens -> Nat]
    /\ ClockSkew \in Nat /\ TokenCacheTTL \in Nat
    /\ TokenCacheMax \in Nat \ {0}
    /\ NoElement \notin ElementIds

Elements == [id: ElementIds, key: Tokens, expiry: Nat]

ValidatorTypeOK ==
    /\ clock \in Nat
    /\ index \in [Tokens -> ElementIds \cup {NoElement}]
    /\ lru \in Seq(Elements)
    /\ sweeping \in BOOLEAN
    /\ vpc \in [Requests -> {"idle", "lookup", "verify", "insert", "done"}]
    /\ tok \in [Requests -> Tokens \cup {NoToken}]
    /\ answer \in [Requests -> Answers]
    /\ \A c \in Requests : vpc[c] # "idle" => tok[c] \in Tokens

ValidatorInit ==
    /\ clock = 1
    /\ index = [k \in Tokens |-> NoElement]
    /\ lru = <<>>
    /\ sweeping = FALSE
    /\ vpc = [c \in Requests |-> "idle"]
    /\ tok = [c \in Requests |-> NoToken]
    /\ answer = [c \in Requests |-> "none"]

(* A handler calls Validate, and takes note of its result.                    *)
Validate(c, t) ==
    /\ vpc[c] = "idle"
    /\ vpc' = [vpc EXCEPT ![c] = "lookup"]
    /\ tok' = [tok EXCEPT ![c] = t]
    /\ UNCHANGED <<clock, cacheVars, sweeping, answer>>

Validated(c) ==
    /\ vpc[c] = "done"
    /\ vpc' = [vpc EXCEPT ![c] = "idle"]
    /\ tok' = [tok EXCEPT ![c] = NoToken]
    /\ answer' = [answer EXCEPT ![c] = "none"]
    /\ UNCHANGED <<clock, cacheVars, sweeping>>

Returns(c, a) ==
    /\ vpc' = [vpc EXCEPT ![c] = "done"]
    /\ answer' = [answer EXCEPT ![c] = a]

GoesOn(c, next) == vpc' = [vpc EXCEPT ![c] = next] /\ UNCHANGED answer

(* list.Remove and list.MoveToFront of the element at i.                      *)
RemoveAt(s, i) == SubSeq(s, 1, i - 1) \o SubSeq(s, i + 1, Len(s))

MovedToFront(i) == <<lru[i]>> \o RemoveAt(lru, i)

(* A faulty variant: a hit prolongs the entry.                                *)
LookupSliding(c) ==
    LET k == tok[c]
    IN  /\ vpc[c] = "lookup" /\ ~sweeping
        /\ \/ index[k] = NoElement /\ GoesOn(c, "verify") /\ UNCHANGED <<index, lru>>
           \/ \E i \in 1..Len(lru) :
                /\ lru[i].id = index[k]
                /\ \/ /\ clock < lru[i].expiry
                      /\ lru' = <<[lru[i] EXCEPT !.expiry = clock + TokenCacheTTL]>>
                                    \o RemoveAt(lru, i)
                      /\ Returns(c, "ok")
                      /\ UNCHANGED index
                   \/ /\ clock >= lru[i].expiry
                      /\ lru' = RemoveAt(lru, i)
                      /\ index' = [index EXCEPT ![k] = NoElement]
                      /\ GoesOn(c, "verify")
        /\ UNCHANGED <<clock, sweeping, tok>>

(* The first critical section: a hit is answered, an entry that has expired   *)
(* is removed at once.                                                        *)
Lookup(c) ==
    LET k == tok[c]
    IN  /\ vpc[c] = "lookup" /\ ~sweeping
        /\ \/ index[k] = NoElement /\ GoesOn(c, "verify") /\ UNCHANGED <<index, lru>>
           \/ \E i \in 1..Len(lru) :
                /\ lru[i].id = index[k]
                /\ \/ /\ clock < lru[i].expiry
                      /\ lru' = MovedToFront(i)
                      /\ Returns(c, "ok")
                      /\ UNCHANGED index
                   \/ /\ clock >= lru[i].expiry
                      /\ lru' = RemoveAt(lru, i)
                      /\ index' = [index EXCEPT ![k] = NoElement]
                      /\ GoesOn(c, "verify")
        /\ UNCHANGED <<clock, sweeping, tok>>

(***************************************************************************)
(* verifier.Verify, and how classifyOIDCVerifyError names its errors.  The *)
(* audience is checked before the expiry, which is compared with a clock   *)
(* set back by the skew; the signature comes last, and cannot be checked   *)
(* while the IdP's keys cannot be had.                                     *)
(***************************************************************************)
Verify(c) ==
    LET t == tok[c]
    IN  /\ vpc[c] = "verify"
        /\ \/ t \in Genuine /\ clock - ClockSkew <= Expiry[t] /\ GoesOn(c, "insert")
           \/ t \in Genuine /\ clock - ClockSkew > Expiry[t] /\ Returns(c, "token_expired")
           \/ t \in Foreign /\ Returns(c, "forbidden")
           \/ /\ t \notin Foreign /\ ~(t \in Genuine /\ clock - ClockSkew > Expiry[t])
              /\ Returns(c, "unauthorized")
        /\ UNCHANGED <<clock, cacheVars, sweeping, tok>>

(* An element that PushFront makes is none of those in the list.              *)
Unused(n) == \A i \in 1..Len(lru) : lru[i].id # n

NewElement == CHOOSE n \in ElementIds : Unused(n)

(* Faulty variants: the bound is one too high; the index keeps the key of     *)
(* an element that was evicted.                                               *)
InsertOneTooMany(c) ==
    LET k == tok[c]
        kept == IF Len(lru) <= TokenCacheMax THEN Len(lru) ELSE TokenCacheMax
        Evicted == kept + 1..Len(lru)
    IN  /\ vpc[c] = "insert" /\ ~sweeping
        /\ \E n \in ElementIds : Unused(n)
        /\ lru' = <<[id |-> NewElement, key |-> k, expiry |-> clock + TokenCacheTTL]>>
                    \o SubSeq(lru, 1, kept)
        /\ index' = [x \in Tokens |->
                        IF x = k THEN NewElement
                        ELSE IF \E i \in Evicted : lru[i].key = x THEN NoElement
                        ELSE index[x]]
        /\ Returns(c, "ok")
        /\ UNCHANGED <<clock, sweeping, tok>>

InsertKeepingIndex(c) ==
    LET k == tok[c]
        kept == IF Len(lru) < TokenCacheMax THEN Len(lru) ELSE TokenCacheMax - 1
    IN  /\ vpc[c] = "insert" /\ ~sweeping
        /\ \E n \in ElementIds : Unused(n)
        /\ lru' = <<[id |-> NewElement, key |-> k, expiry |-> clock + TokenCacheTTL]>>
                    \o SubSeq(lru, 1, kept)
        /\ index' = [index EXCEPT ![k] = NewElement]
        /\ Returns(c, "ok")
        /\ UNCHANGED <<clock, sweeping, tok>>

(* The second critical section.  Elements are evicted from the back until     *)
(* there is room, each with the index entry of its key; the new one goes to   *)
(* the front, although a concurrent call may have inserted the token already. *)
Insert(c) ==
    LET k == tok[c]
        kept == IF Len(lru) < TokenCacheMax THEN Len(lru) ELSE TokenCacheMax - 1
        Evicted == kept + 1..Len(lru)
    IN  /\ vpc[c] = "insert" /\ ~sweeping
        /\ \E n \in ElementIds : Unused(n)
        /\ lru' = <<[id |-> NewElement, key |-> k, expiry |-> clock + TokenCacheTTL]>>
                    \o SubSeq(lru, 1, kept)
        /\ index' = [x \in Tokens |->
                        IF x = k THEN NewElement
                        ELSE IF \E i \in Evicted : lru[i].key = x THEN NoElement
                        ELSE index[x]]
        /\ Returns(c, "ok")
        /\ UNCHANGED <<clock, sweeping, tok>>

(* evictExpired goes through the index, with the mutex held.                  *)
Stale(i) == index[lru[i].key] = lru[i].id /\ clock > lru[i].expiry

StartSweep ==
    /\ ~sweeping
    /\ sweeping' = TRUE
    /\ UNCHANGED <<clock, cacheVars, callVars>>

SweepOne ==
    /\ sweeping
    /\ \E i \in 1..Len(lru) :
        /\ Stale(i)
        /\ lru' = RemoveAt(lru, i)
        /\ index' = [index EXCEPT ![lru[i].key] = NoElement]
    /\ UNCHANGED <<clock, sweeping, callVars>>

EndSweep ==
    /\ sweeping
    /\ \A i \in 1..Len(lru) : ~Stale(i)
    /\ sweeping' = FALSE
    /\ UNCHANGED <<clock, cacheVars, callVars>>

(* Between verification and insertion nothing waits but for the mutex: the    *)
(* unit of time is long against that.                                         *)
ClockTicks ==
    /\ clock < MaxClock
    /\ \A c \in Requests : vpc[c] # "insert"
    /\ ~sweeping
    /\ clock' = clock + 1
    /\ UNCHANGED <<cacheVars, sweeping, callVars>>

ValidatorNext ==
    \/ \E c \in Requests : Lookup(c) \/ Verify(c) \/ Insert(c)
    \/ StartSweep \/ SweepOne \/ EndSweep

-----------------------------------------------------------------------------
(* The cache stays within its capacity, however many calls insert at a time   *)
(* and however many elements the index has lost.                              *)
CacheBounded == Len(lru) <= TokenCacheMax

(* The index never refers to an element that is no longer in the list, nor    *)
(* to one of another token: concurrent misses of a token make two elements    *)
(* of it, and the eviction of either takes the index entry with it.           *)
IndexSound ==
    /\ \A k \in Tokens : index[k] # NoElement =>
        \E i \in 1..Len(lru) : lru[i].id = index[k] /\ lru[i].key = k
    /\ \A i, j \in 1..Len(lru) : lru[i].id = lru[j].id => i = j

(* A token is accepted only if the IdP issued it for this gateway, and no     *)
(* later than one lifetime of a cache entry after its own expiry.             *)
AcceptedInTime ==
    [][\A c \in Requests : answer[c] # "ok" /\ answer'[c] = "ok" =>
        /\ tok[c] \in Genuine
        /\ clock <= Expiry[tok[c]] + ClockSkew + TokenCacheTTL]_validatorVars

=============================================================================

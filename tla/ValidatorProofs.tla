---------------------------- MODULE ValidatorProofs ----------------------------
(* Why the token cache is right, for any capacity and any number of calls.   *)
EXTENDS Validator, TLAPS

-----------------------------------------------------------------------------
(* The LRU list.                                                             *)

(* An element put before a sequence.                                         *)
LEMMA FrontProperties ==
    ASSUME NEW S, NEW e \in S, NEW s \in Seq(S)
    PROVE  /\ <<e>> \o s \in Seq(S) /\ Len(<<e>> \o s) = Len(s) + 1
           /\ (<<e>> \o s)[1] = e
           /\ \A j \in 1..Len(s) : (<<e>> \o s)[j + 1] = s[j]
<1>1. <<e>> \in Seq(S) /\ Len(<<e>>) = 1 /\ <<e>>[1] = e
  OBVIOUS
<1> QED
  BY <1>1

(* The elements of two sequences put together.                               *)
LEMMA ConcatElements ==
    ASSUME NEW S, NEW a \in Seq(S), NEW b \in Seq(S)
    PROVE  /\ a \o b \in Seq(S) /\ Len(a \o b) = Len(a) + Len(b)
           /\ \A j \in 1..Len(a) + Len(b) :
                (a \o b)[j] = IF j <= Len(a) THEN a[j] ELSE b[j - Len(a)]
<1>1. a \o b \in Seq(S) /\ Len(a \o b) = Len(a) + Len(b)
  OBVIOUS
<1>2. ASSUME NEW j \in 1..Len(a) + Len(b)
      PROVE  (a \o b)[j] = IF j <= Len(a) THEN a[j] ELSE b[j - Len(a)]
  <2>1. CASE j <= Len(a)
    BY <2>1
  <2>2. CASE ~(j <= Len(a))
    BY <2>2
  <2> QED
    BY <2>1, <2>2
<1> QED
  BY <1>1, <1>2

(* A sequence without its element at i.                                      *)
LEMMA RemoveAtProperties ==
    ASSUME NEW S, NEW s \in Seq(S), NEW i \in 1..Len(s)
    PROVE  /\ RemoveAt(s, i) \in Seq(S) /\ Len(RemoveAt(s, i)) = Len(s) - 1
           /\ \A j \in 1..Len(s) - 1 : RemoveAt(s, i)[j] = IF j < i THEN s[j] ELSE s[j + 1]
<1> DEFINE a == SubSeq(s, 1, i - 1)
           b == SubSeq(s, i + 1, Len(s))
<1>1. /\ a \in Seq(S) /\ Len(a) = i - 1 /\ \A j \in 1..i - 1 : a[j] = s[j]
  OBVIOUS
<1>2. /\ b \in Seq(S) /\ Len(b) = Len(s) - i /\ \A j \in 1..Len(s) - i : b[j] = s[j + i]
  OBVIOUS
<1>3. RemoveAt(s, i) = a \o b
  BY DEF RemoveAt
<1> HIDE DEF a, b
<1>4. /\ a \o b \in Seq(S) /\ Len(a \o b) = Len(s) - 1
      /\ \A j \in 1..Len(s) - 1 : (a \o b)[j] = IF j < i THEN a[j] ELSE b[j - (i - 1)]
  <2>1. /\ a \o b \in Seq(S) /\ Len(a \o b) = Len(a) + Len(b)
        /\ \A j \in 1..Len(a) + Len(b) :
            (a \o b)[j] = IF j <= Len(a) THEN a[j] ELSE b[j - Len(a)]
    BY <1>1, <1>2, ConcatElements
  <2>2. Len(a) + Len(b) = Len(s) - 1 /\ \A j \in Nat : j <= Len(a) <=> j < i
    BY <1>1, <1>2
  <2> QED
    BY <1>1, <2>1, <2>2
<1>5. ASSUME NEW j \in 1..Len(s) - 1
      PROVE  (a \o b)[j] = IF j < i THEN s[j] ELSE s[j + 1]
  <2>1. CASE j < i
    BY <1>1, <1>4, <2>1
  <2>2. CASE ~(j < i)
    <3>1. j - (i - 1) \in 1..Len(s) - i /\ j - (i - 1) + i = j + 1
      BY <2>2
    <3> QED
      BY <1>2, <1>4, <2>2, <3>1
  <2> QED
    BY <2>1, <2>2
<1> QED
  BY <1>3, <1>4, <1>5

(* An entry of the cache is of a genuine token, and does not outlive it by   *)
(* more than the skew and one lifetime.                                      *)
Timely(e) ==
    /\ e.key \in Genuine
    /\ e.expiry <= Expiry[e.key] + ClockSkew + TokenCacheTTL

(* What the two critical sections and the sweep rely on.                     *)
Distinct(s) == \A i, j \in 1..Len(s) : s[i].id = s[j].id => i = j

Indexed(s, ix) ==
    \A k \in Tokens : ix[k] # NoElement =>
        \E i \in 1..Len(s) : s[i].id = ix[k] /\ s[i].key = k

CacheOK(s, ix) ==
    /\ s \in Seq(Elements)
    /\ ix \in [Tokens -> ElementIds \cup {NoElement}]
    /\ Len(s) <= TokenCacheMax
    /\ Indexed(s, ix)
    /\ Distinct(s)
    /\ \A i \in 1..Len(s) : Timely(s[i])

(* Removing an element with the index entry of its key.                      *)
LEMMA DropKeeps ==
    ASSUME NEW s, NEW ix, CacheOK(s, ix), NEW i \in 1..Len(s)
    PROVE  CacheOK(RemoveAt(s, i), [ix EXCEPT ![s[i].key] = NoElement])
<1> DEFINE t == RemoveAt(s, i)
           iy == [ix EXCEPT ![s[i].key] = NoElement]
<1>a. s \in Seq(Elements) /\ Len(s) \in Nat /\ ix \in [Tokens -> ElementIds \cup {NoElement}]
  BY DEF CacheOK
<1>b. \A j \in 1..Len(s) : s[j].key \in Tokens
  <2>1. \A j \in 1..Len(s) : s[j] \in Elements
    BY <1>a
  <2> QED
    BY <2>1 DEF Elements
<1>1. /\ t \in Seq(Elements) /\ Len(t) = Len(s) - 1
      /\ \A j \in 1..Len(s) - 1 : t[j] = IF j < i THEN s[j] ELSE s[j + 1]
  BY <1>a, RemoveAtProperties
<1>2. /\ iy \in [Tokens -> ElementIds \cup {NoElement}]
      /\ \A k \in Tokens : iy[k] = IF k = s[i].key THEN NoElement ELSE ix[k]
  BY <1>a, <1>b
<1> HIDE DEF t, iy
<1>3. Len(t) <= TokenCacheMax /\ \A j \in 1..Len(t) : Timely(t[j])
  <2>1. Len(t) <= TokenCacheMax
    BY <1>a, <1>1, ValidatorAssumption DEF CacheOK
  <2>2. ASSUME NEW j \in 1..Len(t)
        PROVE  Timely(t[j])
    <3>1. j \in 1..Len(s) /\ j + 1 \in 1..Len(s)
      BY <1>a, <1>1
    <3> QED
      BY <1>1, <3>1 DEF CacheOK
  <2> QED
    BY <2>1, <2>2
<1>4. ASSUME NEW j \in 1..Len(t), NEW l \in 1..Len(t), t[j].id = t[l].id
      PROVE  j = l
  <2> DEFINE pj == IF j < i THEN j ELSE j + 1
             pl == IF l < i THEN l ELSE l + 1
  <2>1. pj \in 1..Len(s) /\ pl \in 1..Len(s) /\ (pj = pl => j = l)
    BY <1>a, <1>1
  <2>2. t[j] = s[pj] /\ t[l] = s[pl]
    BY <1>a, <1>1
  <2> HIDE DEF pj, pl
  <2> QED
    BY <2>1, <2>2, <1>4 DEF CacheOK, Distinct
<1>5. ASSUME NEW k \in Tokens, iy[k] # NoElement
      PROVE  \E j \in 1..Len(t) : t[j].id = iy[k] /\ t[j].key = k
  <2>1. k # s[i].key /\ iy[k] = ix[k]
    BY <1>2, <1>5
  <2>2. PICK j \in 1..Len(s) : s[j].id = ix[k] /\ s[j].key = k
    BY <1>5, <2>1 DEF CacheOK, Indexed
  <2>3. j # i
    BY <2>1, <2>2
  <2> DEFINE p == IF j < i THEN j ELSE j - 1
  <2>4. p \in 1..Len(t) /\ t[p] = s[j]
    BY <1>a, <1>1, <2>3
  <2> HIDE DEF p
  <2> QED
    BY <2>1, <2>2, <2>4
<1> QED
  BY <1>1, <1>2, <1>3, <1>4, <1>5 DEF CacheOK, Distinct, Indexed, t, iy

(* Moving an element to the front.                                           *)
LEMMA MoveToFrontKeeps ==
    ASSUME NEW s, NEW ix, CacheOK(s, ix), NEW i \in 1..Len(s)
    PROVE  CacheOK(<<s[i]>> \o RemoveAt(s, i), ix)
<1> DEFINE r == RemoveAt(s, i)
           t == <<s[i]>> \o r
<1>a. s \in Seq(Elements) /\ Len(s) \in Nat /\ s[i] \in Elements
  BY DEF CacheOK
<1>1. /\ r \in Seq(Elements) /\ Len(r) = Len(s) - 1
      /\ \A j \in 1..Len(s) - 1 : r[j] = IF j < i THEN s[j] ELSE s[j + 1]
  BY <1>a, RemoveAtProperties
<1> HIDE DEF r
<1>2. /\ t \in Seq(Elements) /\ Len(t) = Len(r) + 1 /\ t[1] = s[i]
      /\ \A j \in 1..Len(r) : t[j + 1] = r[j]
  BY <1>a, <1>1, FrontProperties
<1> HIDE DEF t
<1> DEFINE From == [j \in 1..Len(s) |-> IF j = 1 THEN i ELSE IF j <= i THEN j - 1 ELSE j]
           To == [j \in 1..Len(s) |-> IF j = i THEN 1 ELSE IF j < i THEN j + 1 ELSE j]
<1>3. Len(t) = Len(s)
  BY <1>a, <1>1, <1>2
<1>4. ASSUME NEW j \in 1..Len(s)
      PROVE  From[j] \in 1..Len(s) /\ t[j] = s[From[j]]
  <2>1. CASE j = 1
    BY <1>2, <2>1
  <2>2. CASE j # 1
    <3>1. j - 1 \in 1..Len(r) /\ j = (j - 1) + 1
      BY <1>a, <1>1, <2>2
    <3>2. t[j] = r[j - 1]
      BY <1>2, <3>1
    <3> QED
      BY <1>a, <1>1, <2>2, <3>1, <3>2
  <2> QED
    BY <2>1, <2>2
<1>5. ASSUME NEW j \in 1..Len(s)
      PROVE  To[j] \in 1..Len(s) /\ From[To[j]] = j
  BY <1>a
<1>6. ASSUME NEW j \in 1..Len(s), NEW l \in 1..Len(s), From[j] = From[l]
      PROVE  j = l
  BY <1>a, <1>6
<1> HIDE DEF From, To
<1>7. Distinct(t)
  <2>1. ASSUME NEW j \in 1..Len(s), NEW l \in 1..Len(s), t[j].id = t[l].id
        PROVE  j = l
    <3>1. From[j] \in 1..Len(s) /\ From[l] \in 1..Len(s) /\ s[From[j]].id = s[From[l]].id
      BY <1>4, <2>1
    <3>2. From[j] = From[l]
      BY <3>1 DEF CacheOK, Distinct
    <3> QED
      BY <1>6, <3>2
  <2> QED
    BY <1>3, <2>1 DEF Distinct
<1>8. Indexed(t, ix)
  <2>1. ASSUME NEW j \in 1..Len(s)
        PROVE  t[To[j]] = s[j]
    BY <1>4, <1>5
  <2> QED
    BY <1>3, <1>5, <2>1 DEF CacheOK, Indexed
<1>9. \A j \in 1..Len(t) : Timely(t[j])
  BY <1>3, <1>4 DEF CacheOK
<1> QED
  BY <1>2, <1>3, <1>7, <1>8, <1>9 DEF CacheOK, t, r

(* Making room at the back and inserting at the front.                       *)
LEMMA InsertKeeps ==
    ASSUME NEW s, NEW ix, CacheOK(s, ix), NEW e \in Elements, Timely(e),
           \A i \in 1..Len(s) : s[i].id # e.id,
           NEW kept, kept = (IF Len(s) < TokenCacheMax THEN Len(s) ELSE TokenCacheMax - 1)
    PROVE  CacheOK(<<e>> \o SubSeq(s, 1, kept),
                   [x \in Tokens |->
                       IF x = e.key THEN e.id
                       ELSE IF \E i \in kept + 1..Len(s) : s[i].key = x THEN NoElement
                       ELSE ix[x]])
<1> DEFINE r == SubSeq(s, 1, kept)
           t == <<e>> \o r
           iy == [x \in Tokens |->
                       IF x = e.key THEN e.id
                       ELSE IF \E i \in kept + 1..Len(s) : s[i].key = x THEN NoElement
                       ELSE ix[x]]
<1>a. /\ s \in Seq(Elements) /\ Len(s) \in Nat /\ ix \in [Tokens -> ElementIds \cup {NoElement}]
      /\ e.key \in Tokens /\ e.id \in ElementIds /\ Distinct(s) /\ Indexed(s, ix)
      /\ \A i \in 1..Len(s) : Timely(s[i])
  BY DEF CacheOK, Elements
<1>b. kept \in 0..Len(s) /\ kept + 1 <= TokenCacheMax
  BY <1>a, ValidatorAssumption
<1>1. /\ r \in Seq(Elements) /\ Len(r) = kept /\ \A j \in 1..kept : r[j] = s[j]
  <2>1. \A j \in 1..kept : s[j] \in Elements
    BY <1>a, <1>b
  <2>2. kept \in Int /\ kept - 1 + 1 = kept
    BY <1>b
  <2> QED
    BY <1>b, <2>1, <2>2
<1> HIDE DEF r
<1>2. /\ t \in Seq(Elements) /\ Len(t) = kept + 1 /\ t[1] = e
      /\ \A j \in 1..kept : t[j + 1] = s[j]
  BY <1>1, FrontProperties
<1>3. \A j \in 2..kept + 1 : j - 1 \in 1..Len(s) /\ t[j] = s[j - 1]
  <2> HIDE DEF t
  <2>1. ASSUME NEW j \in 2..kept + 1
        PROVE  j - 1 \in 1..kept /\ j - 1 \in 1..Len(s) /\ (j - 1) + 1 = j
    BY <1>b
  <2> QED
    BY <1>2, <2>1
<1>4. iy \in [Tokens -> ElementIds \cup {NoElement}]
  BY <1>a
<1> HIDE DEF t
<1>5. ASSUME NEW j \in 1..Len(t), NEW l \in 1..Len(t), t[j].id = t[l].id
      PROVE  j = l
  <2>1. (j = 1 \/ j \in 2..kept + 1) /\ (l = 1 \/ l \in 2..kept + 1)
    BY <1>b, <1>2
  <2>2. CASE j = 1 \/ l = 1
    BY <1>2, <1>3, <1>5, <2>1, <2>2
  <2>3. CASE j \in 2..kept + 1 /\ l \in 2..kept + 1
    <3>1. j - 1 = l - 1
      <4>1. /\ j - 1 \in 1..Len(s) /\ l - 1 \in 1..Len(s)
            /\ t[j] = s[j - 1] /\ t[l] = s[l - 1]
        BY <1>3, <2>3
      <4>2. s[j - 1].id = s[l - 1].id
        BY <1>5, <4>1
      <4> QED
        BY <1>a, <4>1, <4>2 DEF Distinct
    <3> QED
      BY <2>3, <3>1
  <2> QED
    BY <2>1, <2>2, <2>3
<1>6. ASSUME NEW k \in Tokens, iy[k] # NoElement
      PROVE  \E j \in 1..Len(t) : t[j].id = iy[k] /\ t[j].key = k
  <2>1. CASE k = e.key
    BY <1>b, <1>2, <2>1
  <2>2. CASE k # e.key
    <3>1. iy[k] = ix[k] /\ ~\E i \in kept + 1..Len(s) : s[i].key = k
      BY <1>6, <2>2
    <3>2. PICK j \in 1..Len(s) : s[j].id = ix[k] /\ s[j].key = k
      BY <1>a, <1>6, <3>1 DEF Indexed
    <3>3. j \in 1..kept
      BY <1>a, <1>b, <3>1, <3>2
    <3>4. j + 1 \in 1..Len(t) /\ t[j + 1] = s[j]
      BY <1>b, <1>2, <3>3
    <3> HIDE DEF iy
    <3> QED
      BY <3>1, <3>2, <3>4
  <2> QED
    BY <2>1, <2>2
<1>7. ASSUME NEW j \in 1..Len(t)
      PROVE  Timely(t[j])
  <2>1. j = 1 \/ j \in 2..kept + 1
    BY <1>b, <1>2
  <2> QED
    BY <1>a, <1>2, <1>3, <2>1
<1>8. Len(t) <= TokenCacheMax
  BY <1>b, <1>2
<1> HIDE DEF iy
<1>9. CacheOK(t, iy)
  BY <1>2, <1>4, <1>5, <1>6, <1>7, <1>8 DEF CacheOK, Distinct, Indexed
<1> QED
  BY <1>9 DEF t, r, iy

-----------------------------------------------------------------------------
(* The validator.                                                            *)

(* A token about to be inserted has just been verified, and the tokens that  *)
(* were accepted are genuine.                                                *)
ValidatorInv ==
    /\ ValidatorTypeOK
    /\ CacheOK(lru, index)
    /\ \A c \in Requests :
        /\ vpc[c] = "insert" => /\ tok[c] \in Genuine
                                /\ clock <= Expiry[tok[c]] + ClockSkew
        /\ answer[c] = "ok" => vpc[c] = "done" /\ tok[c] \in Genuine

(* What may happen to the validator in a step of the front door.             *)
ValidatorMove ==
    \/ UNCHANGED validatorVars
    \/ \E c \in Requests, t \in Tokens : Validate(c, t)
    \/ \E c \in Requests : Validated(c)
    \/ ValidatorNext
    \/ ClockTicks

(* An answer that becomes "ok" in a step.                                    *)
AcceptsInTime ==
    \A c \in Requests : answer[c] # "ok" /\ answer'[c] = "ok" =>
        /\ tok[c] \in Genuine
        /\ clock <= Expiry[tok[c]] + ClockSkew + TokenCacheTTL

(* Calls of Validate begin and end, and time passes.                         *)
LEMMA CallKeeps ==
    ASSUME ValidatorInv,
           \/ UNCHANGED validatorVars
           \/ \E c \in Requests, t \in Tokens : Validate(c, t)
           \/ \E c \in Requests : Validated(c)
           \/ ClockTicks \/ StartSweep \/ EndSweep
    PROVE  ValidatorInv' /\ AcceptsInTime
<1>a. ValidatorTypeOK /\ lru' = lru /\ index' = index
  BY DEF ValidatorInv, validatorVars, cacheVars, Validate, Validated, ClockTicks, StartSweep, EndSweep
<1>1. CacheOK(lru, index)'
  BY <1>a DEF ValidatorInv, CacheOK, Distinct, Indexed, Timely
<1> DEFINE CallsOK ==
             \A c \in Requests :
                 /\ vpc'[c] = "insert" => /\ tok'[c] \in Genuine
                                          /\ clock' <= Expiry[tok'[c]] + ClockSkew
                 /\ answer'[c] = "ok" => /\ vpc'[c] = "done" /\ tok'[c] \in Genuine
                                         /\ answer[c] = "ok"
<1>2. ValidatorTypeOK' /\ CallsOK
  <2>1. CASE UNCHANGED validatorVars \/ StartSweep \/ EndSweep
    BY <1>a, <2>1 DEF ValidatorInv, ValidatorTypeOK, validatorVars, cacheVars, callVars, StartSweep,
        EndSweep
  <2>2. ASSUME NEW r \in Requests, NEW t \in Tokens, Validate(r, t)
        PROVE  ValidatorTypeOK' /\ CallsOK
    <3>1. ValidatorTypeOK'
      BY <1>a, <2>2 DEF ValidatorTypeOK, Validate, cacheVars
    <3>2. CallsOK
      BY <1>a, <2>2 DEF ValidatorInv, ValidatorTypeOK, Validate
    <3> QED
      BY <3>1, <3>2
  <2>3. ASSUME NEW r \in Requests, Validated(r)
        PROVE  ValidatorTypeOK' /\ CallsOK
    <3>1. ValidatorTypeOK'
      BY <1>a, <2>3 DEF ValidatorTypeOK, Validated, cacheVars, Answers
    <3>2. CallsOK
      BY <1>a, <2>3 DEF ValidatorInv, ValidatorTypeOK, Validated
    <3> QED
      BY <3>1, <3>2
  <2>4. CASE ClockTicks
    BY <1>a, <2>4 DEF ValidatorInv, ValidatorTypeOK, ClockTicks, callVars
  <2> QED
    BY <2>1, <2>2, <2>3, <2>4
<1> QED
  BY <1>1, <1>2 DEF ValidatorInv, AcceptsInTime

(* The cache in the next state.                                              *)
LEMMA CachePrimed ==
    ASSUME CacheOK(lru', index')
    PROVE  CacheOK(lru, index)'
BY DEF CacheOK, Distinct, Indexed, Timely

(* The index leads to the element of the token, and to no other.             *)
LEMMA HitIsOfToken ==
    ASSUME CacheOK(lru, index), NEW k \in Tokens, NEW i \in 1..Len(lru), lru[i].id = index[k]
    PROVE  lru[i].key = k /\ lru[i] \in Elements /\ Timely(lru[i])
<1>1. lru[i] \in Elements /\ Timely(lru[i])
  BY DEF CacheOK
<1>2. index[k] # NoElement
  BY <1>1, ValidatorAssumption DEF Elements
<1>3. PICK j \in 1..Len(lru) : lru[j].id = index[k] /\ lru[j].key = k
  BY <1>2 DEF CacheOK, Indexed
<1>4. i = j
  BY <1>3 DEF CacheOK, Distinct
<1> QED
  BY <1>1, <1>3, <1>4

(* The first critical section.                                               *)
LEMMA LookupKeeps ==
    ASSUME ValidatorInv, NEW c \in Requests, Lookup(c)
    PROVE  ValidatorInv' /\ AcceptsInTime
<1>a. /\ ValidatorTypeOK /\ CacheOK(lru, index) /\ vpc[c] = "lookup" /\ tok[c] \in Tokens
      /\ clock' = clock /\ sweeping' = sweeping /\ tok' = tok /\ clock \in Nat
  BY DEF ValidatorInv, ValidatorTypeOK, Lookup
<1>b. ASSUME NEW p \in {"verify", "done"}, vpc' = [vpc EXCEPT ![c] = p],
             \/ answer' = answer
             \/ /\ answer' = [answer EXCEPT ![c] = "ok"] /\ p = "done" /\ tok[c] \in Genuine
                /\ clock <= Expiry[tok[c]] + ClockSkew + TokenCacheTTL,
             CacheOK(lru', index')
      PROVE  ValidatorInv' /\ AcceptsInTime
  <2>1. CacheOK(lru, index)'
    BY <1>b, CachePrimed
  <2>2. lru' \in Seq(Elements) /\ index' \in [Tokens -> ElementIds \cup {NoElement}]
    BY <1>b DEF CacheOK
  <2>3. ValidatorTypeOK'
    BY <1>a, <1>b, <2>2 DEF ValidatorTypeOK, Answers
  <2>4. AcceptsInTime
    BY <1>a, <1>b DEF AcceptsInTime, ValidatorTypeOK
  <2>5. ASSUME NEW r \in Requests
        PROVE  /\ vpc'[r] = "insert" => /\ tok'[r] \in Genuine
                                        /\ clock' <= Expiry[tok'[r]] + ClockSkew
               /\ answer'[r] = "ok" => vpc'[r] = "done" /\ tok'[r] \in Genuine
    <3>1. CASE r = c
      BY <1>a, <1>b, <3>1 DEF ValidatorInv, ValidatorTypeOK
    <3>2. CASE r # c
      BY <1>a, <1>b, <3>2 DEF ValidatorInv, ValidatorTypeOK
    <3> QED
      BY <3>1, <3>2
  <2> QED
    BY <2>1, <2>3, <2>4, <2>5 DEF ValidatorInv
<1>1. CASE index[tok[c]] = NoElement /\ GoesOn(c, "verify") /\ UNCHANGED <<index, lru>>
  BY <1>a, <1>b, <1>1 DEF GoesOn
<1>2. ASSUME NEW i \in 1..Len(lru), lru[i].id = index[tok[c]], clock < lru[i].expiry,
             lru' = MovedToFront(i), Returns(c, "ok"), index' = index
      PROVE  ValidatorInv' /\ AcceptsInTime
  <2>1. CacheOK(lru', index')
    BY <1>a, <1>2, MoveToFrontKeeps DEF MovedToFront
  <2>2. /\ lru[i].key = tok[c] /\ lru[i].expiry \in Nat /\ tok[c] \in Genuine
        /\ lru[i].expiry <= Expiry[tok[c]] + ClockSkew + TokenCacheTTL
    BY <1>a, <1>2, HitIsOfToken DEF Timely, Elements
  <2>3. clock <= Expiry[tok[c]] + ClockSkew + TokenCacheTTL
    BY <1>a, <1>2, <2>2, ValidatorAssumption
  <2> QED
    BY <1>b, <1>2, <2>1, <2>2, <2>3 DEF Returns
<1>3. ASSUME NEW i \in 1..Len(lru), lru[i].id = index[tok[c]], lru' = RemoveAt(lru, i),
             index' = [index EXCEPT ![tok[c]] = NoElement], GoesOn(c, "verify")
      PROVE  ValidatorInv' /\ AcceptsInTime
  <2>1. lru[i].key = tok[c]
    BY <1>a, <1>3, HitIsOfToken
  <2>2. CacheOK(lru', index')
    BY <1>a, <1>3, <2>1, DropKeeps
  <2> QED
    BY <1>b, <1>3, <2>2 DEF GoesOn
<1> QED
  BY <1>1, <1>2, <1>3 DEF Lookup

(* The verification.                                                         *)
LEMMA VerifyKeeps ==
    ASSUME ValidatorInv, NEW c \in Requests, Verify(c)
    PROVE  ValidatorInv' /\ AcceptsInTime
<1>a. /\ ValidatorTypeOK /\ CacheOK(lru, index) /\ tok[c] \in Tokens /\ lru' = lru /\ index' = index
      /\ clock' = clock /\ sweeping' = sweeping /\ tok' = tok /\ clock \in Nat /\ vpc[c] = "verify"
  BY DEF ValidatorInv, ValidatorTypeOK, Verify, cacheVars
<1>1. \/ /\ vpc' = [vpc EXCEPT ![c] = "insert"] /\ answer' = answer
         /\ tok[c] \in Genuine /\ clock <= Expiry[tok[c]] + ClockSkew
      \/ /\ vpc' = [vpc EXCEPT ![c] = "done"]
         /\ \E a \in Answers \ {"ok"} : answer' = [answer EXCEPT ![c] = a]
  <2>1. clock - ClockSkew <= Expiry[tok[c]] => clock <= Expiry[tok[c]] + ClockSkew
    BY <1>a, ValidatorAssumption
  <2> QED
    BY <2>1 DEF Verify, GoesOn, Returns, Answers
<1>2. CacheOK(lru, index)'
  BY <1>a, CachePrimed
<1>3. ValidatorTypeOK'
  BY <1>a, <1>1 DEF ValidatorTypeOK, Answers
<1>4. ASSUME NEW r \in Requests
      PROVE  /\ vpc'[r] = "insert" => /\ tok'[r] \in Genuine
                                      /\ clock' <= Expiry[tok'[r]] + ClockSkew
             /\ answer'[r] = "ok" => /\ vpc'[r] = "done" /\ tok'[r] \in Genuine
                                     /\ answer[r] = "ok"
  <2>1. CASE r = c
    BY <1>a, <1>1, <2>1 DEF ValidatorInv, ValidatorTypeOK
  <2>2. CASE r # c
    BY <1>a, <1>1, <2>2 DEF ValidatorInv, ValidatorTypeOK
  <2> QED
    BY <2>1, <2>2
<1> QED
  BY <1>2, <1>3, <1>4 DEF ValidatorInv, AcceptsInTime

(* The second critical section.                                              *)
LEMMA InsertsKeep ==
    ASSUME ValidatorInv, NEW c \in Requests, Insert(c)
    PROVE  ValidatorInv' /\ AcceptsInTime
<1> DEFINE e == [id |-> NewElement, key |-> tok[c], expiry |-> clock + TokenCacheTTL]
           kept == IF Len(lru) < TokenCacheMax THEN Len(lru) ELSE TokenCacheMax - 1
<1>a. /\ ValidatorTypeOK /\ CacheOK(lru, index) /\ tok[c] \in Tokens /\ vpc[c] = "insert"
      /\ clock' = clock /\ sweeping' = sweeping /\ tok' = tok /\ clock \in Nat
      /\ tok[c] \in Genuine /\ clock <= Expiry[tok[c]] + ClockSkew
      /\ Expiry[tok[c]] \in Nat
  BY ValidatorAssumption DEF ValidatorInv, ValidatorTypeOK, Insert
<1>b. vpc' = [vpc EXCEPT ![c] = "done"] /\ answer' = [answer EXCEPT ![c] = "ok"]
  BY DEF Insert, Returns
<1>1. NewElement \in ElementIds /\ Unused(NewElement)
  BY DEF Insert, NewElement
<1>2. e \in Elements /\ Timely(e) /\ e.key = tok[c] /\ e.id = NewElement
  <2>1. clock + TokenCacheTTL \in Nat
    BY <1>a, ValidatorAssumption
  <2>2. clock + TokenCacheTTL <= Expiry[tok[c]] + ClockSkew + TokenCacheTTL
    BY <1>a, ValidatorAssumption
  <2>3. e \in Elements
    BY <1>a, <1>1, <2>1 DEF Elements
  <2> QED
    BY <1>a, <2>2, <2>3 DEF Timely
<1>3. \A i \in 1..Len(lru) : lru[i].id # e.id
  BY <1>1, <1>2 DEF Unused
<1>4. /\ lru' = <<e>> \o SubSeq(lru, 1, kept)
      /\ index' = [x \in Tokens |->
                       IF x = tok[c] THEN NewElement
                       ELSE IF \E i \in kept + 1..Len(lru) : lru[i].key = x THEN NoElement
                       ELSE index[x]]
  BY DEF Insert
<1>5. kept = (IF Len(lru) < TokenCacheMax THEN Len(lru) ELSE TokenCacheMax - 1)
  OBVIOUS
<1> HIDE DEF e, kept
<1>6. CacheOK(lru', index')
  BY <1>a, <1>2, <1>3, <1>4, <1>5, InsertKeeps
<1>7. lru' \in Seq(Elements) /\ index' \in [Tokens -> ElementIds \cup {NoElement}]
  BY <1>6 DEF CacheOK
<1>8. ValidatorTypeOK'
  BY <1>a, <1>b, <1>7 DEF ValidatorTypeOK, Answers
<1>9. ASSUME NEW r \in Requests
      PROVE  /\ vpc'[r] = "insert" => /\ tok'[r] \in Genuine
                                      /\ clock' <= Expiry[tok'[r]] + ClockSkew
             /\ answer'[r] = "ok" => vpc'[r] = "done" /\ tok'[r] \in Genuine
             /\ answer'[r] = "ok" => r = c \/ answer[r] = "ok"
  <2>1. CASE r = c
    BY <1>a, <1>b, <2>1 DEF ValidatorInv, ValidatorTypeOK
  <2>2. CASE r # c
    BY <1>a, <1>b, <2>2 DEF ValidatorInv, ValidatorTypeOK
  <2> QED
    BY <2>1, <2>2
<1>10. clock <= Expiry[tok[c]] + ClockSkew + TokenCacheTTL
  BY <1>a, ValidatorAssumption
<1> QED
  BY <1>a, <1>6, <1>8, <1>9, <1>10, CachePrimed DEF ValidatorInv, AcceptsInTime

(* One removal of the sweep.                                                 *)
LEMMA SweepKeeps ==
    ASSUME ValidatorInv, SweepOne
    PROVE  ValidatorInv' /\ AcceptsInTime
<1>1. PICK i \in 1..Len(lru) : /\ lru' = RemoveAt(lru, i)
                              /\ index' = [index EXCEPT ![lru[i].key] = NoElement]
  BY DEF SweepOne
<1>2. CacheOK(lru', index')
  BY <1>1, DropKeeps DEF ValidatorInv
<1>3. UNCHANGED <<clock, sweeping, vpc, tok, answer>>
  BY DEF SweepOne, callVars
<1>4. ValidatorTypeOK'
  BY <1>2, <1>3 DEF ValidatorInv, ValidatorTypeOK, CacheOK
<1> QED
  BY <1>2, <1>3, <1>4, CachePrimed DEF ValidatorInv, AcceptsInTime

(* All that happens to the validator.                                        *)
LEMMA ValidatorKeeps ==
    ASSUME ValidatorInv, ValidatorMove
    PROVE  ValidatorInv' /\ AcceptsInTime
BY CallKeeps, LookupKeeps, VerifyKeeps, InsertsKeep, SweepKeeps DEF ValidatorMove, ValidatorNext

=============================================================================

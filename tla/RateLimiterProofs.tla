------------------------- MODULE RateLimiterProofs -------------------------
(***************************************************************************)
(* Proofs about RateLimiter for any number of addresses, users, handlers   *)
(* and buckets and for any settings within the top rate and burst.         *)
(*                                                                         *)
(* The argument: a handler holds either its key's live bucket or one that  *)
(* a sweep has orphaned and nobody can find again (Holding); what a key's  *)
(* next handler can find is at most what the ideal bucket holds (Budget);  *)
(* and a bucket either dates from before the last refusal of its key, so   *)
(* that Retry-After refills it, or still has a token (Promised).           *)
(***************************************************************************)
EXTENDS RateLimiter, TLAPS

-----------------------------------------------------------------------------
(* Arithmetic.                                                             *)

\* Products grow with their first factor: more seconds, more tokens.
LEMMA ProductGrows ==
  \A a, b, c \in Nat : a <= b => a * c <= b * c
OBVIOUS

\* ... and with their second: a faster setting, more tokens.
LEMMA ProductGrowsRight ==
  \A a, b, c \in Nat : a <= b => c * a <= c * b
OBVIOUS

\* The rounded-up wait earns a token.
LEMMA WaitEarnsToken ==
  ASSUME LimiterAssumption, NEW t \in Tiers
  PROVE  /\ RetryAfter(t) \in Nat
         /\ RetryAfter(t) * t.rate >= Unit
<1> DEFINE d == RetryAfter(t)
<1>1. t.rate \in Nat \ {0} /\ Unit \in Nat \ {0}
  BY DEF LimiterAssumption, Tier
<1>2. d = (Unit + t.rate - 1) \div t.rate
  BY DEF RetryAfter
<1>3. d \in Nat
  BY <1>1, <1>2
<1>4. t.rate * d <= Unit + t.rate - 1 /\ Unit + t.rate - 1 < t.rate * d + t.rate
  BY <1>1, <1>2, <1>3
<1>5. t.rate * d = d * t.rate
  BY <1>1, <1>3
<1> QED
  BY <1>1, <1>3, <1>4, <1>5
-----------------------------------------------------------------------------
(* The invariant.                                                          *)

Holds(r, b) == pc[r] = "allow" /\ ptr[r] = b

\* A handler about to take a token holds its key's live bucket, or one no map
\* knows any more; handlers that share a bucket share the key.
Holding ==
  /\ \A r \in Requests :
       pc[r] = "allow" =>
         IF late[r] THEN \A k \in Keys : buckets[k] # ptr[r]
                    ELSE buckets[key[r]] = ptr[r]
  /\ \A r \in Requests : late[r] => pc[r] = "allow"
  /\ \A q, r \in Requests :
       pc[q] = "allow" /\ pc[r] = "allow" /\ ptr[q] = ptr[r] => key[q] = key[r]

\* What a bucket can give at the top setting.
Available(b) == LesserOf(TopBurst, b.tokens + (now - b.lastFill) * TopRate)

\* What a key's next handler can find: a missing bucket is as good as a full one.
Offer(k) == IF buckets[k] = NoBucket THEN TopBurst ELSE Available(heap[buckets[k]])

Budget == \A k \in Keys : Offer(k) <= credit[k] + extra[k]

BucketOf(b, k) == buckets[k] = b \/ \E r \in Requests : Holds(r, b) /\ key[r] = k

\* A bucket of a refused key is older than the refusal, or has a token.
Promised ==
  \A k \in Keys, b \in BucketIds :
    promise[k] # NoPromise /\ BucketOf(b, k) =>
      heap[b].lastFill <= promise[k].at \/ heap[b].tokens >= Unit

LimiterInv == LimiterTypeOK /\ Holding /\ Budget /\ Promised

-----------------------------------------------------------------------------
(* Buckets.                                                                *)

LEMMA AvailableBounds ==
  ASSUME LimiterAssumption, LimiterTypeOK, NEW b \in BucketIds
  PROVE  Available(heap[b]) \in 0..TopBurst
<1> DEFINE e == now - heap[b].lastFill
<1>1. /\ heap[b].tokens \in 0..TopBurst
      /\ heap[b].lastFill \in 0..now
      /\ now \in Nat /\ TopRate \in Nat /\ TopBurst \in Nat
  BY DEF LimiterTypeOK, Bucket, LimiterAssumption
<1>2. e * TopRate \in Nat
  BY <1>1
<1>3. Available(heap[b]) = LesserOf(TopBurst, heap[b].tokens + e * TopRate)
  BY DEF Available
<1> HIDE DEF e
<1> QED
  BY <1>1, <1>2, <1>3 DEF LesserOf

\* Refilling keeps a bucket within the burst, and never finds more than the
\* top setting would.
LEMMA RefilledBounds ==
  ASSUME LimiterAssumption, LimiterTypeOK, NEW b \in BucketIds, NEW t \in Tiers
  PROVE  /\ Refilled(heap[b], t, now) \in 0..TopBurst
         /\ Refilled(heap[b], t, now) <= Available(heap[b])
<1> DEFINE e == now - heap[b].lastFill
<1>1. /\ heap[b].tokens \in 0..TopBurst
      /\ heap[b].lastFill \in 0..now
      /\ now \in Nat
  BY DEF LimiterTypeOK, Bucket
<1>2. e \in Nat
  BY <1>1
<1>3. t.rate \in 1..TopRate /\ t.burst \in Unit..TopBurst
      /\ Unit \in Nat /\ TopRate \in Nat /\ TopBurst \in Nat
  BY DEF LimiterAssumption, Tier
<1>4. e * t.rate <= e * TopRate
  BY <1>2, <1>3, ProductGrowsRight
<1>5. e * t.rate \in Nat /\ e * TopRate \in Nat
  BY <1>2, <1>3
<1> HIDE DEF e
<1>6. Refilled(heap[b], t, now) = LesserOf(t.burst, heap[b].tokens + e * t.rate)
  BY DEF Refilled, e
<1>7. Available(heap[b]) = LesserOf(TopBurst, heap[b].tokens + e * TopRate)
  BY DEF Available, e
<1> QED
  BY <1>1, <1>3, <1>4, <1>5, <1>6, <1>7 DEF LesserOf

\* A bucket idle for longer than MaxIdle is full: sweeping it forgets nothing.
LEMMA IdleIsFull ==
  ASSUME LimiterAssumption, LimiterTypeOK, NEW k \in Keys, Idle(k)
  PROVE  buckets[k] \in BucketIds /\ Available(heap[buckets[k]]) = TopBurst
<1> DEFINE b == buckets[k]
           e == now - heap[b].lastFill
<1>1. b \in BucketIds
  BY DEF LimiterTypeOK, Idle
<1>2. /\ heap[b].tokens \in 0..TopBurst
      /\ heap[b].lastFill \in 0..now
      /\ now \in Nat
  BY <1>1 DEF LimiterTypeOK, Bucket
<1>3. e \in Nat /\ MaxIdle <= e /\ MaxIdle \in Nat /\ TopRate \in Nat
  BY <1>2 DEF Idle, LimiterAssumption
<1>4. MaxIdle * TopRate <= e * TopRate
  BY <1>3, ProductGrows
<1>5. TopBurst <= MaxIdle * TopRate /\ TopBurst \in Nat
  BY DEF LimiterAssumption
<1>6. e * TopRate \in Nat /\ MaxIdle * TopRate \in Nat
  BY <1>3
<1>7. Available(heap[b]) = LesserOf(TopBurst, heap[b].tokens + e * TopRate)
  BY DEF Available
<1> HIDE DEF e
<1>8. TopBurst <= heap[b].tokens + e * TopRate
  BY <1>2, <1>4, <1>5, <1>6
<1> QED
  BY <1>1, <1>7, <1>8, <1>5, <1>6, <1>2 DEF LesserOf

-----------------------------------------------------------------------------
(* Every step keeps the invariant.                                         *)

LEMMA InitIsSafe ==
  ASSUME LimiterAssumption, Init
  PROVE  LimiterInv
<1>1. LimiterTypeOK
  <2>1. heap \in [BucketIds -> Bucket]
    BY DEF Init, Bucket, LimiterAssumption
  <2>2. key \in [Requests -> Keys] /\ tier \in [Requests -> Tiers]
    BY DEF Init
  <2>3. credit \in [Keys -> Int] /\ extra \in [Keys -> Nat]
    BY DEF Init, LimiterAssumption
  <2> QED
    BY <2>1, <2>2, <2>3 DEF Init, LimiterTypeOK
<1>2. Holding
  BY DEF Init, Holding
<1>3. Budget
  BY DEF Init, Budget, Offer, LimiterAssumption
<1>4. Promised
  BY DEF Init, Promised
<1> QED
  BY <1>1, <1>2, <1>3, <1>4 DEF LimiterInv

LEMMA ArriveIsSafe ==
  ASSUME LimiterAssumption, LimiterInv, NEW r \in Requests, NEW ip \in IPs,
         NEW u \in Users \cup {NoUser}, NEW t \in Tiers, Arrive(r, ip, u, t)
  PROVE  LimiterInv'
<1> USE DEF LimiterInv
<1>1. LimiterTypeOK'
  BY DEF LimiterTypeOK, Arrive, Bucket, Keys
<1>2. \A q \in Requests : pc'[q] = "allow" => pc[q] = "allow" /\ key'[q] = key[q]
  BY DEF LimiterTypeOK, Arrive
<1>3. pc[r] # "allow"
  BY DEF Arrive
<1>4. Holding'
  BY <1>2, <1>3 DEF Holding, Arrive, LimiterTypeOK
<1>5. Budget'
  BY DEF Budget, Offer, Available, Arrive
<1>6. Promised'
  BY <1>2 DEF Promised, BucketOf, Holds, Arrive
<1> QED
  BY <1>1, <1>4, <1>5, <1>6

LEMMA LookupIsSafe ==
  ASSUME LimiterAssumption, LimiterInv, NEW r \in Requests, Lookup(r)
  PROVE  LimiterInv'
<1> USE DEF LimiterInv
<1>1. LimiterTypeOK'
  BY DEF LimiterTypeOK, Lookup, Bucket
<1>2. ~late[r] /\ pc[r] = "lookup"
  BY DEF Holding, Lookup
<1>3. \A q \in Requests :
        pc'[q] = "allow" => \/ pc[q] = "allow" /\ ptr'[q] = ptr[q]
                            \/ q = r /\ ptr'[q] = buckets[key[r]] /\ ptr'[q] # NoBucket
  BY DEF LimiterTypeOK, Lookup
<1>4. \A q \in Requests : pc[q] = "allow" => pc'[q] = "allow" /\ ptr'[q] = ptr[q]
  BY <1>2 DEF LimiterTypeOK, Lookup
<1>5. Holding'
  <2>1. \A q \in Requests :
          pc'[q] = "allow" =>
            IF late[q] THEN \A k \in Keys : buckets[k] # ptr'[q]
                       ELSE buckets[key[q]] = ptr'[q]
    BY <1>2, <1>3 DEF Holding
  <2>2. \A q \in Requests : late[q] => pc'[q] = "allow"
    BY <1>4 DEF Holding
  <2>3. \A p, q \in Requests :
          pc'[p] = "allow" /\ pc'[q] = "allow" /\ ptr'[p] = ptr'[q] => key[p] = key[q]
    BY <1>2, <1>3, <2>1 DEF Holding, LimiterTypeOK
  <2> QED
    BY <2>1, <2>2, <2>3 DEF Holding, Lookup
<1>6. Budget'
  BY DEF Budget, Offer, Available, Lookup
<1>7. Promised'
  <2> SUFFICES ASSUME NEW k \in Keys, NEW b \in BucketIds,
                      promise[k] # NoPromise, BucketOf(b, k)'
               PROVE  heap[b].lastFill <= promise[k].at \/ heap[b].tokens >= Unit
    BY DEF Promised, Lookup
  <2>1. BucketOf(b, k)
    BY <1>3 DEF BucketOf, Holds, Lookup
  <2> QED
    BY <2>1 DEF Promised
<1> QED
  BY <1>1, <1>5, <1>6, <1>7

LEMMA CreateIsSafe ==
  ASSUME LimiterAssumption, LimiterInv, NEW r \in Requests, Create(r)
  PROVE  LimiterInv'
<1> USE DEF LimiterInv
<1>0. key[r] \in Keys /\ tier[r] \in Tiers /\ pc[r] = "create" /\ ~late[r]
      /\ now' = now /\ key' = key /\ late' = late /\ credit' = credit
      /\ extra' = extra /\ promise' = promise /\ user' = user /\ tier' = tier
      /\ pc' = [pc EXCEPT ![r] = "allow"]
  BY DEF LimiterTypeOK, Holding, Create
<1>1. CASE buckets[key[r]] # NoBucket
  <2>1. ptr' = [ptr EXCEPT ![r] = buckets[key[r]]] /\ buckets' = buckets /\ heap' = heap
    BY <1>1 DEF Create
  <2>2. LimiterTypeOK'
    BY <1>0, <1>1, <2>1 DEF LimiterTypeOK, Bucket
  <2>3. \A q \in Requests :
          pc'[q] = "allow" => \/ pc[q] = "allow" /\ ptr'[q] = ptr[q] /\ q # r
                              \/ q = r /\ ptr'[q] = buckets[key[r]]
    BY <1>0, <2>1 DEF LimiterTypeOK
  <2>4. \A q \in Requests : pc[q] = "allow" => pc'[q] = "allow"
    BY <1>0 DEF LimiterTypeOK
  <2>5. Holding'
    <3>1. \A q \in Requests :
            pc'[q] = "allow" =>
              IF late[q] THEN \A k \in Keys : buckets[k] # ptr'[q]
                         ELSE buckets[key[q]] = ptr'[q]
      BY <1>0, <2>3 DEF Holding
    <3>2. \A p, q \in Requests :
            pc'[p] = "allow" /\ pc'[q] = "allow" /\ ptr'[p] = ptr'[q] => key[p] = key[q]
      BY <1>0, <1>1, <2>3, <3>1 DEF Holding, LimiterTypeOK
    <3> QED
      BY <1>0, <2>1, <2>4, <3>1, <3>2 DEF Holding
  <2>6. Budget'
    BY <1>0, <2>1 DEF Budget, Offer, Available
  <2>7. Promised'
    <3> SUFFICES ASSUME NEW k \in Keys, NEW b \in BucketIds,
                        promise[k] # NoPromise, BucketOf(b, k)'
                 PROVE  heap[b].lastFill <= promise[k].at \/ heap[b].tokens >= Unit
      BY <1>0, <2>1 DEF Promised
    <3>1. BucketOf(b, k)
      BY <1>0, <2>1, <2>3 DEF BucketOf, Holds
    <3> QED
      BY <3>1 DEF Promised
  <2> QED
    BY <2>2, <2>5, <2>6, <2>7
<1>2. CASE buckets[key[r]] = NoBucket
  <2>1. PICK b \in BucketIds \ InUse :
               /\ ptr' = [ptr EXCEPT ![r] = b]
               /\ buckets' = [buckets EXCEPT ![key[r]] = b]
               /\ heap' = [heap EXCEPT ![b] = Fresh(tier[r])]
    BY <1>2 DEF Create
  <2>2. Fresh(tier[r]) \in Bucket /\ Fresh(tier[r]).tokens >= Unit
        /\ Fresh(tier[r]).lastFill = now /\ Fresh(tier[r]).tokens <= TopBurst
    BY <1>0 DEF Fresh, Bucket, LimiterTypeOK, LimiterAssumption, Tier
  <2>3. /\ \A k \in Keys : buckets[k] # b
        /\ \A q \in Requests : pc[q] = "allow" => ptr[q] # b
        /\ b # NoBucket
    BY DEF InUse, Held, LimiterAssumption
  <2>4. /\ \A k \in Keys : buckets'[k] = IF k = key[r] THEN b ELSE buckets[k]
        /\ \A c \in BucketIds : c # b => heap'[c] = heap[c]
        /\ heap'[b] = Fresh(tier[r])
    BY <1>0, <2>1 DEF LimiterTypeOK
  <2>5. LimiterTypeOK'
    <3>1. heap' \in [BucketIds -> Bucket']
      BY <1>0, <2>1, <2>2 DEF LimiterTypeOK, Bucket
    <3>2. \A q \in Requests : pc'[q] = "allow" => ptr'[q] # NoBucket
      BY <1>0, <2>1, <2>3 DEF LimiterTypeOK
    <3>3. \A j, k \in Keys : buckets'[j] = buckets'[k] => j = k \/ buckets'[j] = NoBucket
      BY <1>0, <2>3, <2>4 DEF LimiterTypeOK
    <3> QED
      BY <1>0, <2>1, <3>1, <3>2, <3>3 DEF LimiterTypeOK
  <2>6. \A q \in Requests :
          pc'[q] = "allow" => \/ pc[q] = "allow" /\ ptr'[q] = ptr[q] /\ q # r
                              \/ q = r /\ ptr'[q] = b
    BY <1>0, <2>1 DEF LimiterTypeOK
  <2>7. Holding'
    <3>1. \A q \in Requests :
            pc'[q] = "allow" =>
              IF late[q] THEN \A k \in Keys : buckets'[k] # ptr'[q]
                         ELSE buckets'[key[q]] = ptr'[q]
      <4> SUFFICES ASSUME NEW q \in Requests, pc'[q] = "allow"
                   PROVE  IF late[q] THEN \A k \in Keys : buckets'[k] # ptr'[q]
                                     ELSE buckets'[key[q]] = ptr'[q]
        OBVIOUS
      <4>1. CASE q = r
        BY <4>1, <1>0, <2>4, <2>6
      <4>2. CASE q # r
        <5>1. pc[q] = "allow" /\ ptr'[q] = ptr[q] /\ ptr[q] # NoBucket /\ ptr[q] # b
          BY <4>2, <2>3, <2>6 DEF LimiterTypeOK
        <5>2. CASE late[q]
          BY <5>1, <5>2, <2>4 DEF Holding
        <5>3. CASE ~late[q]
          <6>1. buckets[key[q]] = ptr[q]
            BY <5>1, <5>3 DEF Holding
          <6>2. key[q] # key[r] /\ key[q] \in Keys
            BY <6>1, <5>1, <1>2 DEF LimiterTypeOK
          <6> QED
            BY <6>1, <6>2, <5>1, <5>3, <2>4
        <5> QED
          BY <5>2, <5>3 DEF LimiterTypeOK
      <4> QED
        BY <4>1, <4>2
    <3>2. \A p, q \in Requests :
            pc'[p] = "allow" /\ pc'[q] = "allow" /\ ptr'[p] = ptr'[q] => key[p] = key[q]
      BY <2>3, <2>6 DEF Holding
    <3>3. \A q \in Requests : late[q] => pc'[q] = "allow"
      BY <1>0 DEF Holding, LimiterTypeOK
    <3> QED
      BY <1>0, <3>1, <3>2, <3>3 DEF Holding
  <2>8. Budget'
    <3> SUFFICES ASSUME NEW k \in Keys
                 PROVE  Offer(k)' <= credit[k] + extra[k]
      BY <1>0 DEF Budget
    <3>1. CASE k = key[r]
      <4>1. buckets'[k] = b /\ b # NoBucket
        BY <3>1, <2>3, <2>4
      <4>2. Offer(k)' = LesserOf(TopBurst, Fresh(tier[r]).tokens + (now - now) * TopRate)
        BY <4>1, <1>0, <2>2, <2>4 DEF Offer, Available
      <4>3. (now - now) * TopRate = 0
        BY DEF LimiterTypeOK, LimiterAssumption
      <4>4. Offer(k) = TopBurst
        BY <3>1, <1>2 DEF Offer
      <4>5. Offer(k)' <= TopBurst /\ Offer(k)' \in Nat
        BY <4>2, <4>3, <2>2 DEF LesserOf, Bucket, LimiterAssumption
      <4>6. TopBurst <= credit[k] + extra[k]
        BY <4>4 DEF Budget
      <4> QED
        BY <4>5, <4>6 DEF LimiterTypeOK, LimiterAssumption
    <3>2. CASE k # key[r]
      <4>1. buckets'[k] = buckets[k] /\ buckets[k] # b /\ buckets[k] \in BucketIds \cup {NoBucket}
        BY <3>2, <2>3, <2>4 DEF LimiterTypeOK
      <4>2. Offer(k)' = Offer(k)
        BY <4>1, <1>0, <2>4 DEF Offer, Available
      <4> QED
        BY <4>2 DEF Budget
    <3> QED
      BY <3>1, <3>2
  <2>9. Promised'
    <3> SUFFICES ASSUME NEW k \in Keys, NEW c \in BucketIds,
                        promise[k] # NoPromise, BucketOf(c, k)'
                 PROVE  heap'[c].lastFill <= promise[k].at \/ heap'[c].tokens >= Unit
      BY <1>0 DEF Promised
    <3>1. CASE c = b
      BY <3>1, <2>2, <2>4
    <3>2. CASE c # b
      <4>1. BucketOf(c, k)
        BY <3>2, <1>0, <2>4, <2>6 DEF BucketOf, Holds
      <4> QED
        BY <4>1, <3>2, <2>4 DEF Promised
    <3> QED
      BY <3>1, <3>2
  <2> QED
    BY <2>5, <2>7, <2>8, <2>9
<1> QED
  BY <1>1, <1>2

\* What a call leaves in the bucket, on the map's books and in the promise.
LEMMA AllowEffect ==
  ASSUME LimiterAssumption, LimiterInv, NEW r \in Requests, Allow(r)
  PROVE  /\ pc[r] = "allow" /\ pc'[r] # "allow"
         /\ \A q \in Requests : q # r => pc'[q] = pc[q] /\ ptr'[q] = ptr[q]
                                         /\ key'[q] = key[q] /\ late'[q] = late[q]
         /\ ~late'[r]
         /\ ptr[r] \in BucketIds /\ key[r] \in Keys
         /\ \A c \in BucketIds : c # ptr[r] => heap'[c] = heap[c]
         /\ \A j \in Keys : j # key[r] => /\ credit'[j] = credit[j]
                                          /\ extra'[j] = extra[j]
                                          /\ promise'[j] = promise[j]
         /\ \E n \in 0..TopBurst :
              /\ heap'[ptr[r]] = [tokens |-> n, lastFill |-> now]
              /\ n <= Available(heap[ptr[r]])
              /\ promise'[key[r]] \in {NoPromise, [tier |-> tier[r], at |-> now]}
              /\ \/ n + Unit <= Available(heap[ptr[r]]) /\ late[r]
                    /\ credit'[key[r]] = credit[key[r]] - Unit
                    /\ extra'[key[r]] = extra[key[r]] + Unit
                 \/ n + Unit <= Available(heap[ptr[r]]) /\ ~late[r]
                    /\ credit'[key[r]] = credit[key[r]] - Unit
                    /\ extra'[key[r]] = extra[key[r]]
                 \/ /\ credit'[key[r]] = credit[key[r]]
                    /\ extra'[key[r]] = extra[key[r]]
<1> USE DEF LimiterInv
<1> DEFINE b == ptr[r]
           left == Refilled(heap[b], tier[r], now)
<1>1. pc[r] = "allow" /\ b \in BucketIds /\ key[r] \in Keys /\ tier[r] \in Tiers
  BY DEF Allow, LimiterTypeOK
<1>2. left \in 0..TopBurst /\ left <= Available(heap[b]) /\ Available(heap[b]) \in 0..TopBurst
  BY <1>1, RefilledBounds, AvailableBounds
<1>3. ptr' = [ptr EXCEPT ![r] = NoBucket] /\ late' = [late EXCEPT ![r] = FALSE]
  BY DEF Allow
<1>4. Unit \in Nat \ {0} /\ TopBurst \in Nat /\ now \in Nat
  BY DEF LimiterAssumption, LimiterTypeOK
<1>5. CASE Grant(r, left)
  <2>1. pc'[r] # "allow" /\ \A q \in Requests : q # r => pc'[q] = pc[q] /\ key'[q] = key[q]
    BY <1>5 DEF Grant, NextStage, LimiterTypeOK
  <2>2. left - Unit \in 0..TopBurst /\ left - Unit + Unit <= Available(heap[b])
        /\ left - Unit <= Available(heap[b])
    BY <1>2, <1>4, <1>5 DEF Grant
  <2>3. /\ heap'[b] = [tokens |-> left - Unit, lastFill |-> now]
        /\ \A c \in BucketIds : c # b => heap'[c] = heap[c]
    BY <1>1, <1>5 DEF Grant, LimiterTypeOK
  <2>4. /\ credit'[key[r]] = credit[key[r]] - Unit
        /\ extra'[key[r]] = IF late[r] THEN extra[key[r]] + Unit ELSE extra[key[r]]
        /\ promise'[key[r]] = NoPromise
        /\ \A j \in Keys : j # key[r] => /\ credit'[j] = credit[j]
                                         /\ extra'[j] = extra[j]
                                         /\ promise'[j] = promise[j]
    BY <1>1, <1>5 DEF Grant, LimiterTypeOK
  <2> HIDE DEF left
  <2> QED
    BY <1>1, <1>3, <2>1, <2>2, <2>3, <2>4 DEF LimiterTypeOK
<1>6. CASE Refuse(r, left)
  <2>1. pc'[r] # "allow" /\ \A q \in Requests : q # r => pc'[q] = pc[q] /\ key'[q] = key[q]
    BY <1>6 DEF Refuse, LimiterTypeOK
  <2>2. /\ heap'[b] = [tokens |-> left, lastFill |-> now]
        /\ \A c \in BucketIds : c # b => heap'[c] = heap[c]
    BY <1>1, <1>6 DEF Refuse, LimiterTypeOK
  <2>3. /\ credit' = credit /\ extra' = extra
        /\ promise'[key[r]] = [tier |-> tier[r], at |-> now]
        /\ \A j \in Keys : j # key[r] => promise'[j] = promise[j]
    BY <1>1, <1>6 DEF Refuse, LimiterTypeOK
  <2> HIDE DEF left
  <2> QED
    BY <1>1, <1>2, <1>3, <2>1, <2>2, <2>3 DEF LimiterTypeOK
<1> QED
  BY <1>5, <1>6 DEF Allow

LEMMA AllowKeepsTypes ==
  ASSUME LimiterAssumption, LimiterInv, NEW r \in Requests, Allow(r)
  PROVE  LimiterTypeOK'
<1> USE DEF LimiterInv
<1> DEFINE b == ptr[r]
           left == Refilled(heap[b], tier[r], now)
<1>1. pc[r] = "allow" /\ b \in BucketIds /\ key[r] \in Keys /\ tier[r] \in Tiers
  BY DEF Allow, LimiterTypeOK
<1>2. left \in 0..TopBurst
  BY <1>1, RefilledBounds
<1>3. /\ ptr' = [ptr EXCEPT ![r] = NoBucket] /\ late' = [late EXCEPT ![r] = FALSE]
      /\ now' = now /\ buckets' = buckets /\ tier' = tier
  BY DEF Allow
<1>4. Unit \in Nat \ {0} /\ TopBurst \in Nat /\ now \in Nat
  BY DEF LimiterAssumption, LimiterTypeOK
<1> HIDE DEF left
<1>5. CASE Grant(r, left)
  <2>1. [tokens |-> left - Unit, lastFill |-> now] \in Bucket
    BY <1>2, <1>4, <1>5 DEF Grant, Bucket
  <2>2. heap' \in [BucketIds -> Bucket']
    BY <1>3, <1>5, <2>1 DEF Grant, Bucket, LimiterTypeOK
  <2>3. /\ pc' \in [Requests -> {"idle", "lookup", "create", "allow"}]
        /\ key' \in [Requests -> Keys]
        /\ user' \in [Requests -> Users \cup {NoUser}]
        /\ \A q \in Requests : pc'[q] = "allow" => ptr'[q] # NoBucket
    BY <1>1, <1>3, <1>5 DEF Grant, NextStage, LimiterTypeOK, Keys
  <2>4. /\ credit' \in [Keys -> Int]
        /\ extra' \in [Keys -> Nat]
        /\ promise' \in [Keys -> [tier : Tiers, at : 0..now] \cup {NoPromise}]
    BY <1>1, <1>4, <1>5 DEF Grant, LimiterTypeOK
  <2> QED
    BY <1>3, <2>2, <2>3, <2>4 DEF LimiterTypeOK
<1>6. CASE Refuse(r, left)
  <2>1. [tokens |-> left, lastFill |-> now] \in Bucket
    BY <1>2, <1>4 DEF Bucket
  <2>2. heap' \in [BucketIds -> Bucket']
    BY <1>3, <1>6, <2>1 DEF Refuse, Bucket, LimiterTypeOK
  <2>3. /\ pc' \in [Requests -> {"idle", "lookup", "create", "allow"}]
        /\ key' \in [Requests -> Keys]
        /\ user' \in [Requests -> Users \cup {NoUser}]
        /\ \A q \in Requests : pc'[q] = "allow" => ptr'[q] # NoBucket
    BY <1>1, <1>3, <1>6 DEF Refuse, LimiterTypeOK
  <2>4. /\ credit' \in [Keys -> Int]
        /\ extra' \in [Keys -> Nat]
        /\ promise' \in [Keys -> [tier : Tiers, at : 0..now] \cup {NoPromise}]
    BY <1>1, <1>4, <1>6 DEF Refuse, LimiterTypeOK
  <2> QED
    BY <1>3, <2>2, <2>3, <2>4 DEF LimiterTypeOK
<1> QED
  BY <1>5, <1>6 DEF Allow, left

LEMMA AllowIsSafe ==
  ASSUME LimiterAssumption, LimiterInv, NEW r \in Requests, Allow(r)
  PROVE  LimiterInv'
<1> USE DEF LimiterInv
<1> DEFINE b == ptr[r]
           k == key[r]
<1>1. LimiterTypeOK'
  BY AllowKeepsTypes
<1>2. /\ pc[r] = "allow" /\ pc'[r] # "allow"
      /\ \A q \in Requests : q # r => pc'[q] = pc[q] /\ ptr'[q] = ptr[q]
                                      /\ key'[q] = key[q] /\ late'[q] = late[q]
      /\ ~late'[r] /\ b \in BucketIds /\ k \in Keys
      /\ \A c \in BucketIds : c # b => heap'[c] = heap[c]
      /\ \A j \in Keys : j # k => /\ credit'[j] = credit[j]
                                  /\ extra'[j] = extra[j]
                                  /\ promise'[j] = promise[j]
  BY AllowEffect
<1>3. PICK n \in 0..TopBurst :
        /\ heap'[b] = [tokens |-> n, lastFill |-> now]
        /\ n <= Available(heap[b])
        /\ promise'[k] \in {NoPromise, [tier |-> tier[r], at |-> now]}
        /\ \/ n + Unit <= Available(heap[b]) /\ late[r]
              /\ credit'[k] = credit[k] - Unit /\ extra'[k] = extra[k] + Unit
           \/ n + Unit <= Available(heap[b]) /\ ~late[r]
              /\ credit'[k] = credit[k] - Unit /\ extra'[k] = extra[k]
           \/ credit'[k] = credit[k] /\ extra'[k] = extra[k]
  BY AllowEffect
<1>4. now' = now /\ buckets' = buckets
  BY DEF Allow
<1>5. Holding'
  BY <1>2, <1>4 DEF Holding
<1>6. \A j \in Keys : buckets[j] = b => j = k /\ ~late[r]
  BY <1>2 DEF Holding, LimiterTypeOK, LimiterAssumption
<1>7. Budget'
  <2> SUFFICES ASSUME NEW j \in Keys
               PROVE  Offer(j)' <= credit'[j] + extra'[j]
    BY DEF Budget
  <2>0. /\ Offer(j) <= credit[j] + extra[j]
        /\ credit[j] \in Int /\ extra[j] \in Nat /\ Unit \in Nat /\ TopBurst \in Nat
        /\ TopRate \in Nat /\ now \in Nat
        /\ buckets[j] \in BucketIds \cup {NoBucket}
    BY DEF Budget, LimiterTypeOK, LimiterAssumption
  <2>1. CASE buckets[j] = b
    <3>1. j = k /\ ~late[r] /\ b # NoBucket
      BY <1>2, <1>6, <2>1 DEF LimiterAssumption
    <3>2. Offer(j)' = LesserOf(TopBurst, n + (now - now) * TopRate)
      BY <1>3, <1>4, <2>1, <3>1 DEF Offer, Available
    <3>3. (now - now) * TopRate = 0
      BY <2>0
    <3>4. Offer(j)' = n
      BY <3>2, <3>3, <2>0 DEF LesserOf
    <3>5. Offer(j) = Available(heap[b])
      BY <2>1, <3>1 DEF Offer
    <3>6. Available(heap[b]) \in 0..TopBurst
      BY <1>2, AvailableBounds
    <3> QED
      BY <1>3, <2>0, <3>1, <3>4, <3>5, <3>6
  <2>2. CASE buckets[j] # b
    <3>1. Offer(j)' = Offer(j)
      BY <1>2, <1>4, <2>0, <2>2 DEF Offer, Available
    <3>2. j = k => late[r]
      BY <1>2, <2>2 DEF Holding
    <3>3. credit'[j] + extra'[j] = credit[j] + extra[j]
      BY <1>2, <1>3, <2>0, <3>2
    <3> QED
      BY <2>0, <3>1, <3>3
  <2> QED
    BY <2>1, <2>2
<1>8. Promised'
  <2> SUFFICES ASSUME NEW j \in Keys, NEW c \in BucketIds,
                      promise'[j] # NoPromise, BucketOf(c, j)'
               PROVE  heap'[c].lastFill <= promise'[j].at \/ heap'[c].tokens >= Unit
    BY DEF Promised
  <2>1. BucketOf(c, j)
    BY <1>2, <1>4 DEF BucketOf, Holds
  <2>2. c = b => j = k
    BY <1>2, <1>6, <2>1 DEF BucketOf, Holds, Holding
  <2>3. now \in Nat /\ heap[c].lastFill \in 0..now
    BY DEF LimiterTypeOK, Bucket
  <2>4. CASE j = k
    <3>1. promise'[j].at = now
      BY <1>3, <2>4
    <3> QED
      BY <1>2, <1>3, <2>3, <3>1
  <2>5. CASE j # k
    <3>1. heap'[c] = heap[c] /\ promise'[j] = promise[j]
      BY <1>2, <2>2, <2>5
    <3> QED
      BY <2>1, <3>1 DEF Promised
  <2> QED
    BY <2>4, <2>5
<1> QED
  BY <1>1, <1>5, <1>7, <1>8

LEMMA SweepIsSafe ==
  ASSUME LimiterAssumption, LimiterInv, Sweep
  PROVE  LimiterInv'
<1> USE DEF LimiterInv
<1>1. /\ now' = now /\ heap' = heap /\ pc' = pc /\ key' = key /\ user' = user
      /\ tier' = tier /\ ptr' = ptr /\ credit' = credit /\ extra' = extra
      /\ promise' = promise
      /\ buckets' = [k \in Keys |-> IF Idle(k) THEN NoBucket ELSE buckets[k]]
      /\ late' = [r \in Requests |-> late[r] \/ (pc[r] = "allow" /\ Idle(key[r]))]
  BY DEF Sweep
<1>2. LimiterTypeOK'
  BY <1>1 DEF LimiterTypeOK, Bucket
<1>3. Holding'
  <2>1. \A r \in Requests :
          pc[r] = "allow" =>
            IF late'[r] THEN \A k \in Keys : buckets'[k] # ptr[r]
                        ELSE buckets'[key[r]] = ptr[r]
    <3> SUFFICES ASSUME NEW r \in Requests, pc[r] = "allow"
                 PROVE  IF late'[r] THEN \A k \in Keys : buckets'[k] # ptr[r]
                                    ELSE buckets'[key[r]] = ptr[r]
      OBVIOUS
    <3>1. ptr[r] # NoBucket /\ key[r] \in Keys
      BY DEF LimiterTypeOK
    <3>2. CASE late[r]
      BY <1>1, <3>1, <3>2 DEF Holding
    <3>3. CASE ~late[r]
      <4>1. buckets[key[r]] = ptr[r]
        BY <3>3 DEF Holding
      <4>2. \A k \in Keys : buckets[k] = ptr[r] => k = key[r]
        BY <3>1, <4>1 DEF LimiterTypeOK
      <4> QED
        BY <1>1, <3>1, <3>3, <4>1, <4>2
    <3> QED
      BY <3>2, <3>3 DEF LimiterTypeOK
  <2> QED
    BY <1>1, <2>1 DEF Holding
<1>4. Budget'
  <2> SUFFICES ASSUME NEW k \in Keys
               PROVE  Offer(k)' <= credit[k] + extra[k]
    BY <1>1 DEF Budget
  <2>1. CASE Idle(k)
    <3>1. buckets[k] # NoBucket /\ Available(heap[buckets[k]]) = TopBurst
      BY <2>1, IdleIsFull DEF Idle
    <3> QED
      BY <1>1, <2>1, <3>1 DEF Budget, Offer
  <2>2. CASE ~Idle(k)
    BY <1>1, <2>2 DEF Budget, Offer, Available
  <2> QED
    BY <2>1, <2>2
<1>5. Promised'
  <2> SUFFICES ASSUME NEW k \in Keys, NEW b \in BucketIds,
                      promise[k] # NoPromise, BucketOf(b, k)'
               PROVE  heap[b].lastFill <= promise[k].at \/ heap[b].tokens >= Unit
    BY <1>1 DEF Promised
  <2>1. b # NoBucket
    BY DEF LimiterAssumption
  <2>2. BucketOf(b, k)
    BY <1>1, <2>1 DEF BucketOf, Holds
  <2> QED
    BY <2>2 DEF Promised
<1> QED
  BY <1>2, <1>3, <1>4, <1>5

LEMMA TickIsSafe ==
  ASSUME LimiterAssumption, LimiterInv, Tick
  PROVE  LimiterInv'
<1> USE DEF LimiterInv
<1>1. /\ now' = now + 1 /\ heap' = heap /\ pc' = pc /\ key' = key /\ user' = user
      /\ tier' = tier /\ ptr' = ptr /\ late' = late /\ extra' = extra
      /\ promise' = promise /\ buckets' = buckets
      /\ credit' = [k \in Keys |-> LesserOf(TopBurst, credit[k] + TopRate)]
  BY DEF Tick
<1>2. now \in Nat /\ TopRate \in Nat \ {0} /\ TopBurst \in Nat
  BY DEF LimiterTypeOK, LimiterAssumption
<1>3. LimiterTypeOK'
  <2>1. heap' \in [BucketIds -> Bucket']
    BY <1>1, <1>2 DEF LimiterTypeOK, Bucket
  <2>2. credit' \in [Keys -> Int]
    BY <1>1, <1>2 DEF LimiterTypeOK, LesserOf
  <2>3. promise' \in [Keys -> [tier : Tiers, at : 0..now'] \cup {NoPromise}]
    BY <1>1, <1>2 DEF LimiterTypeOK
  <2> QED
    BY <1>1, <1>2, <2>1, <2>2, <2>3 DEF LimiterTypeOK
<1>4. Holding'
  BY <1>1 DEF Holding
<1>5. Budget'
  <2> SUFFICES ASSUME NEW k \in Keys
               PROVE  Offer(k)' <= credit'[k] + extra[k]
    BY <1>1 DEF Budget
  <2>0. /\ credit[k] \in Int /\ extra[k] \in Nat
        /\ Offer(k) <= credit[k] + extra[k]
        /\ credit'[k] = LesserOf(TopBurst, credit[k] + TopRate)
        /\ buckets[k] \in BucketIds \cup {NoBucket}
    BY <1>1 DEF LimiterTypeOK, Budget
  <2>1. CASE buckets[k] = NoBucket
    BY <1>1, <1>2, <2>0, <2>1 DEF Offer, LesserOf
  <2>2. CASE buckets[k] # NoBucket
    <3> DEFINE b == heap[buckets[k]]
               e == now - b.lastFill
    <3>1. b.tokens \in 0..TopBurst /\ b.lastFill \in 0..now
      BY <2>0, <2>2 DEF LimiterTypeOK, Bucket
    <3>2. e \in Nat /\ now' - b.lastFill = e + 1
      BY <1>1, <1>2, <3>1
    <3>3. (e + 1) * TopRate = e * TopRate + TopRate /\ e * TopRate \in Nat
      BY <1>2, <3>2
    <3>4. Offer(k) = LesserOf(TopBurst, b.tokens + e * TopRate)
      BY <2>2 DEF Offer, Available
    <3>5. Offer(k)' = LesserOf(TopBurst, b.tokens + (e + 1) * TopRate)
      BY <1>1, <2>2, <3>2 DEF Offer, Available
    <3> HIDE DEF e, b
    <3> QED
      BY <1>2, <2>0, <3>1, <3>3, <3>4, <3>5 DEF LesserOf
  <2> QED
    BY <2>1, <2>2
<1>6. Promised'
  BY <1>1 DEF Promised, BucketOf, Holds
<1> QED
  BY <1>3, <1>4, <1>5, <1>6

-----------------------------------------------------------------------------
(* The theorems.                                                           *)

\* LimiterInv is inductive.
THEOREM NextIsSafe ==
  ASSUME LimiterAssumption, LimiterInv, [Next]_vars
  PROVE  LimiterInv'
<1>1. CASE UNCHANGED vars
  BY <1>1 DEF vars, LimiterInv, LimiterTypeOK, Bucket, Holding, Budget, Offer,
              Available, Promised, BucketOf, Holds
<1>2. CASE Next
  <2>1. CASE \E r \in Requests, ip \in IPs, u \in Users \cup {NoUser}, t \in Tiers :
               Arrive(r, ip, u, t)
    BY <2>1, ArriveIsSafe
  <2>2. CASE \E r \in Requests : Step(r)
    BY <2>2, LookupIsSafe, CreateIsSafe, AllowIsSafe DEF Step
  <2> QED
    BY <1>2, <2>1, <2>2, SweepIsSafe, TickIsSafe DEF Next
<1> QED
  BY <1>1, <1>2

THEOREM LimiterIsSafe == LimiterAssumption => (Spec => []LimiterInv)
<1> SUFFICES ASSUME LimiterAssumption PROVE Spec => []LimiterInv
  OBVIOUS
<1>1. Init => LimiterInv
  BY InitIsSafe
<1>2. LimiterInv /\ [Next]_vars => LimiterInv'
  BY NextIsSafe
<1> QED
  BY <1>1, <1>2, PTL DEF Spec

\* Types: every bucket stays within the top burst and every handler in
\* TokenBucket.Allow has a bucket, for any number of handlers.
THEOREM LimiterTypes == LimiterAssumption => (Spec => []LimiterTypeOK)
<1>1. LimiterInv => LimiterTypeOK
  BY DEF LimiterInv
<1> QED
  BY <1>1, LimiterIsSafe, PTL

\* A key is never granted more than the ideal bucket allows, plus one request
\* for each handler whose bucket a sweep evicted under it.
THEOREM BudgetIsKept == LimiterAssumption => (Spec => []WithinBudget)
<1> SUFFICES ASSUME LimiterAssumption PROVE Spec => []WithinBudget
  OBVIOUS
<1>1. LimiterInv => WithinBudget
  <2> SUFFICES ASSUME LimiterInv, NEW k \in Keys PROVE credit[k] + extra[k] >= 0
    BY DEF WithinBudget
  <2>1. Offer(k) <= credit[k] + extra[k] /\ credit[k] \in Int /\ extra[k] \in Nat
    BY DEF LimiterInv, Budget, LimiterTypeOK
  <2>2. Offer(k) \in Nat
    <3>1. CASE buckets[k] = NoBucket
      BY <3>1 DEF Offer, LimiterAssumption
    <3>2. CASE buckets[k] # NoBucket
      BY <3>2, AvailableBounds DEF Offer, LimiterInv, LimiterTypeOK
    <3> QED
      BY <3>1, <3>2
  <2> QED
    BY <2>1, <2>2
<1> QED
  BY <1>1, LimiterIsSafe, PTL

\* A refused client that waits as long as Retry-After says finds a token.
THEOREM RetryAfterIsHonoured == LimiterAssumption => (Spec => []RetryAfterHonoured)
<1> SUFFICES ASSUME LimiterAssumption PROVE Spec => []RetryAfterHonoured
  OBVIOUS
<1>1. LimiterInv => RetryAfterHonoured
  <2> SUFFICES ASSUME LimiterInv, NEW r \in Requests, pc[r] = "allow",
                      promise[key[r]] # NoPromise, promise[key[r]].tier = tier[r],
                      now >= promise[key[r]].at + RetryAfter(tier[r])
               PROVE  Refilled(heap[ptr[r]], tier[r], now) >= Unit
    BY DEF RetryAfterHonoured
  <2> DEFINE b == heap[ptr[r]]
             t == tier[r]
             e == now - b.lastFill
             w == RetryAfter(t)
  <2>1. /\ ptr[r] \in BucketIds /\ t \in Tiers /\ key[r] \in Keys
        /\ b.tokens \in 0..TopBurst /\ b.lastFill \in 0..now /\ now \in Nat
        /\ promise[key[r]].at \in 0..now
    BY DEF LimiterInv, LimiterTypeOK, Bucket
  <2>2. /\ t.rate \in Nat /\ t.burst \in Nat /\ Unit <= t.burst /\ Unit \in Nat
        /\ TopBurst \in Nat
    BY <2>1 DEF LimiterAssumption, Tier
  <2>3. b.lastFill <= promise[key[r]].at \/ b.tokens >= Unit
    BY <2>1 DEF LimiterInv, Promised, BucketOf, Holds
  <2>4. w \in Nat /\ w * t.rate >= Unit
    BY <2>1, WaitEarnsToken
  <2>5. e \in Nat /\ e * t.rate \in Nat
    BY <2>1, <2>2
  <2>6. b.tokens + e * t.rate >= Unit
    <3>1. CASE b.tokens >= Unit
      BY <3>1, <2>1, <2>2, <2>5
    <3>2. CASE b.lastFill <= promise[key[r]].at
      <4>1. w <= e
        BY <3>2, <2>1, <2>4
      <4>2. w * t.rate <= e * t.rate
        BY <4>1, <2>2, <2>4, <2>5, ProductGrows
      <4>3. w * t.rate \in Nat
        BY <2>2, <2>4
      <4> HIDE DEF w, e
      <4> QED
        BY <4>2, <4>3, <2>1, <2>2, <2>4, <2>5
    <3> QED
      BY <2>3, <3>1, <3>2
  <2>7. Refilled(b, t, now) = LesserOf(t.burst, b.tokens + e * t.rate)
    BY DEF Refilled
  <2> HIDE DEF e
  <2> QED
    BY <2>1, <2>2, <2>5, <2>6, <2>7 DEF LesserOf
<1> QED
  BY <1>1, LimiterIsSafe, PTL
=============================================================================

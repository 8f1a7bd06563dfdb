---------------------------- MODULE RateLimiter ----------------------------
(***************************************************************************)
(* The in-memory token buckets of rate_limiter.go as the proxy's           *)
(* checkRateLimits uses them: one map from address to bucket and one from  *)
(* user to bucket, an RWMutex over both maps, a mutex in each bucket, and  *)
(* an eviction goroutine.  A handler looks its bucket up under the read    *)
(* lock, creates it under the write lock, and takes a token under the      *)
(* bucket's own lock: other handlers and the eviction run in between.      *)
(*                                                                         *)
(* Rate and burst come with every call, so the tiers of one client share   *)
(* its bucket.  Time is counted in seconds, tokens in units of 1/Unit      *)
(* token, so that a rate of less than one token per second is a natural    *)
(* number.                                                                 *)
(***************************************************************************)
EXTENDS Integers

CONSTANTS
  IPs, Users,   \* keys of the two maps
  NoUser,       \* the empty user identifier of an anonymous request
  Requests,     \* handler goroutines
  BucketIds,    \* identities of TokenBucket objects
  NoBucket,     \* a nil pointer
  Tiers,        \* the [rate, burst] settings calls are made with
  Unit,         \* units in a token
  TopRate,      \* no setting refills faster: units per second
  TopBurst,     \* no setting allows a larger burst: units
  MaxIdle,      \* maxIdle of startEviction
  NoPromise     \* no Retry-After is outstanding

Keys == IPs \cup Users

Tier == [rate : 1..TopRate, burst : Unit..TopBurst]

\* A bucket idle for MaxIdle is full again at the top rate: the premise
\* under which its eviction forgets nothing.
LimiterAssumption ==
  /\ Unit \in Nat \ {0} /\ TopRate \in Nat \ {0}
  /\ TopBurst \in Nat /\ Unit <= TopBurst
  /\ Tiers \subseteq Tier
  /\ MaxIdle \in Nat /\ TopBurst <= MaxIdle * TopRate
  /\ NoUser \notin Keys /\ IPs \cap Users = {}
  /\ NoBucket \notin BucketIds
  /\ NoPromise \notin [tier : Tiers, at : Nat]

ASSUME LimiterConstants == LimiterAssumption

VARIABLES
  now,      \* the clock
  buckets,  \* ipBuckets and userBuckets
  heap,     \* the contents of each TokenBucket
  pc,       \* where each handler is in AllowIP / AllowUser
  key,      \* the key it asks for
  user,     \* the user it will ask for after its address
  tier,     \* the setting it was called with
  ptr,      \* the bucket it found or created
  late,     \* history: a sweep evicted the bucket it holds
  credit,   \* history: a bucket per key at the top setting, never evicted
  extra,    \* history: units granted to handlers a sweep overtook
  promise   \* history: the last answer on a key was a Retry-After

vars == <<now, buckets, heap, pc, key, user, tier, ptr, late, credit, extra, promise>>

-----------------------------------------------------------------------------
LesserOf(a, b) == IF a < b THEN a ELSE b

\* (mutant: the refill is not capped at the burst)
RefilledUncapped(b, t, at) == b.tokens + (at - b.lastFill) * t.rate

\* What Allow(rate, burst) finds in a bucket before it takes a token.
Refilled(b, t, at) == LesserOf(t.burst, b.tokens + (at - b.lastFill) * t.rate)

\* (mutant: rounded down, as int() alone would)
RetryAfterFloor(t) == Unit \div t.rate

\* retryAfter = ceil(1 / rate).
RetryAfter(t) == (Unit + t.rate - 1) \div t.rate

Held == {ptr[r] : r \in {x \in Requests : pc[x] = "allow"}}

InUse == {buckets[k] : k \in Keys} \cup Held

Fresh(t) == [tokens |-> t.burst, lastFill |-> now]

-----------------------------------------------------------------------------
Init ==
  /\ now = 0
  /\ buckets = [k \in Keys |-> NoBucket]
  /\ heap \in [BucketIds -> {[tokens |-> 0, lastFill |-> 0]}]
  /\ pc = [r \in Requests |-> "idle"]
  /\ key \in [Requests -> Keys] /\ \A q, r \in Requests : key[q] = key[r]
  /\ user = [r \in Requests |-> NoUser]
  /\ tier \in [Requests -> Tiers] /\ \A q, r \in Requests : tier[q] = tier[r]
  /\ ptr = [r \in Requests |-> NoBucket]
  /\ late = [r \in Requests |-> FALSE]
  /\ credit = [k \in Keys |-> TopBurst]
  /\ extra = [k \in Keys |-> 0]
  /\ promise = [k \in Keys |-> NoPromise]

\* checkRateLimits starts with the client address.
Arrive(r, ip, u, t) ==
  /\ pc[r] = "idle"
  /\ pc' = [pc EXCEPT ![r] = "lookup"]
  /\ key' = [key EXCEPT ![r] = ip]
  /\ user' = [user EXCEPT ![r] = u]
  /\ tier' = [tier EXCEPT ![r] = t]
  /\ UNCHANGED <<now, buckets, heap, ptr, late, credit, extra, promise>>

\* Fast path, under the read lock.
Lookup(r) ==
  /\ pc[r] = "lookup"
  /\ IF buckets[key[r]] = NoBucket
     THEN pc' = [pc EXCEPT ![r] = "create"] /\ UNCHANGED ptr
     ELSE /\ pc' = [pc EXCEPT ![r] = "allow"]
          /\ ptr' = [ptr EXCEPT ![r] = buckets[key[r]]]
  /\ UNCHANGED <<now, buckets, heap, key, user, tier, late, credit, extra, promise>>

\* (mutant: the map is not read again under the write lock)
CreateUnchecked(r) ==
  /\ pc[r] = "create"
  /\ pc' = [pc EXCEPT ![r] = "allow"]
  /\ \E b \in BucketIds \ InUse :
       /\ ptr' = [ptr EXCEPT ![r] = b]
       /\ buckets' = [buckets EXCEPT ![key[r]] = b]
       /\ heap' = [heap EXCEPT ![b] = Fresh(tier[r])]
  /\ UNCHANGED <<now, key, user, tier, late, credit, extra, promise>>

\* Slow path, under the write lock: another handler's bucket, or a new one.
Create(r) ==
  /\ pc[r] = "create"
  /\ pc' = [pc EXCEPT ![r] = "allow"]
  /\ \/ /\ buckets[key[r]] # NoBucket
        /\ ptr' = [ptr EXCEPT ![r] = buckets[key[r]]]
        /\ UNCHANGED <<buckets, heap>>
     \/ /\ buckets[key[r]] = NoBucket
        /\ \E b \in BucketIds \ InUse :
             /\ ptr' = [ptr EXCEPT ![r] = b]
             /\ buckets' = [buckets EXCEPT ![key[r]] = b]
             /\ heap' = [heap EXCEPT ![b] = Fresh(tier[r])]
  /\ UNCHANGED <<now, key, user, tier, late, credit, extra, promise>>

\* The client's address had a token: its user is asked next, if it has one.
NextStage(r) ==
  IF user[r] = NoUser
  THEN pc' = [pc EXCEPT ![r] = "idle"] /\ UNCHANGED <<key, user>>
  ELSE /\ pc' = [pc EXCEPT ![r] = "lookup"]
       /\ key' = [key EXCEPT ![r] = user[r]]
       /\ user' = [user EXCEPT ![r] = NoUser]

Grant(r, left) ==
  /\ left >= Unit
  /\ heap' = [heap EXCEPT ![ptr[r]] = [tokens |-> left - Unit, lastFill |-> now]]
  /\ credit' = [credit EXCEPT ![key[r]] = @ - Unit]
  /\ extra' = [extra EXCEPT ![key[r]] = IF late[r] THEN @ + Unit ELSE @]
  /\ promise' = [promise EXCEPT ![key[r]] = NoPromise]
  /\ NextStage(r)

\* 429 with a Retry-After header.
Refuse(r, left) ==
  /\ left < Unit
  /\ heap' = [heap EXCEPT ![ptr[r]] = [tokens |-> left, lastFill |-> now]]
  /\ promise' = [promise EXCEPT ![key[r]] = [tier |-> tier[r], at |-> now]]
  /\ pc' = [pc EXCEPT ![r] = "idle"]
  /\ user' = [user EXCEPT ![r] = NoUser]
  /\ UNCHANGED <<credit, extra, key>>

\* TokenBucket.Allow, on the bucket the handler holds, live or evicted.
Allow(r) ==
  /\ pc[r] = "allow"
  /\ LET left == Refilled(heap[ptr[r]], tier[r], now)
     IN  Grant(r, left) \/ Refuse(r, left)
  /\ ptr' = [ptr EXCEPT ![r] = NoBucket]
  /\ late' = [late EXCEPT ![r] = FALSE]
  /\ UNCHANGED <<now, buckets, tier>>

\* (mutant: eviction half way)
IdleEarly(k) == buckets[k] # NoBucket /\ now - heap[buckets[k]].lastFill > 0

Idle(k) == buckets[k] # NoBucket /\ now - heap[buckets[k]].lastFill > MaxIdle

\* The ticker of startEviction: one sweep under the write lock.
Sweep ==
  /\ \E k \in Keys : Idle(k)
  /\ buckets' = [k \in Keys |-> IF Idle(k) THEN NoBucket ELSE buckets[k]]
  /\ late' = [r \in Requests |-> late[r] \/ (pc[r] = "allow" /\ Idle(key[r]))]
  /\ UNCHANGED <<now, heap, pc, key, user, tier, ptr, credit, extra, promise>>

Tick ==
  /\ now' = now + 1
  /\ credit' = [k \in Keys |-> LesserOf(TopBurst, credit[k] + TopRate)]
  /\ UNCHANGED <<buckets, heap, pc, key, user, tier, ptr, late, extra, promise>>

Step(r) == Lookup(r) \/ Create(r) \/ Allow(r)

Next ==
  \/ \E r \in Requests, ip \in IPs, u \in Users \cup {NoUser}, t \in Tiers :
       Arrive(r, ip, u, t)
  \/ \E r \in Requests : Step(r)
  \/ Sweep
  \/ Tick

Spec == Init /\ [][Next]_vars

-----------------------------------------------------------------------------
(* Properties.                                                             *)

Bucket == [tokens : 0..TopBurst, lastFill : 0..now]

\* Types; a bucket never holds more than the top burst, a handler that is
\* about to take a token has a bucket, and a bucket belongs to one key.
LimiterTypeOK ==
  /\ now \in Nat
  /\ buckets \in [Keys -> BucketIds \cup {NoBucket}]
  /\ heap \in [BucketIds -> Bucket]
  /\ pc \in [Requests -> {"idle", "lookup", "create", "allow"}]
  /\ key \in [Requests -> Keys]
  /\ user \in [Requests -> Users \cup {NoUser}]
  /\ tier \in [Requests -> Tiers]
  /\ ptr \in [Requests -> BucketIds \cup {NoBucket}]
  /\ late \in [Requests -> BOOLEAN]
  /\ credit \in [Keys -> Int]
  /\ extra \in [Keys -> Nat]
  /\ promise \in [Keys -> [tier : Tiers, at : 0..now] \cup {NoPromise}]
  /\ \A r \in Requests : pc[r] = "allow" => ptr[r] # NoBucket
  /\ \A j, k \in Keys : buckets[j] = buckets[k] => j = k \/ buckets[j] = NoBucket

\* In every interval a key is granted at most the burst plus the refill of
\* the interval (credit is the bucket that would allow exactly that), and one
\* request more for each handler whose bucket was evicted between its lookup
\* and its Allow: creation races, shared tiers and evictions give nothing else
\* away.
WithinBudget == \A k \in Keys : credit[k] + extra[k] >= 0

\* The Retry-After header is honest: a client that waits that long, with
\* nobody else on its key, and comes back at the same tier finds a token in
\* whatever bucket the handler has in hand.
RetryAfterHonoured ==
  \A r \in Requests :
    LET p == promise[key[r]]
    IN  /\ pc[r] = "allow"
        /\ p # NoPromise
        /\ p.tier = tier[r]
        /\ now >= p.at + RetryAfter(tier[r])
        => Refilled(heap[ptr[r]], tier[r], now) >= Unit
=============================================================================

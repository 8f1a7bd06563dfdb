-------------------------- MODULE DetectionProofs --------------------------
(***************************************************************************)
(* The request windows of an address and the detectors that read them, for *)
(* every number of learners, every window length, threshold and clock: no  *)
(* window loses a recent request, whatever the order the learners record   *)
(* in, and the detectors raise what the address has done and miss no flood *)
(* recorded.                                                               *)
(***************************************************************************)
EXTENDS Detection, FiniteSetTheorems, WellFoundedInduction, TLAPS

\* A learner that is at work has a request, and what is recorded are requests;
\* each window has a set of late ones.
WTypeOK ==
  /\ at \in [Learners -> {"idle", "serve", "scored"}]
  /\ \A l \in Learners : at[l] # "idle" => event[l] \in Request
  /\ event \in [Learners -> Request \cup {Nothing}]
  /\ learned \subseteq Request
  /\ recent \subseteq Request
  /\ burst \subseteq Request
  /\ byPath \in [{Login, Items} -> SUBSET Request]
  /\ DOMAIN late = {Second, Minute}

WInv ==
  /\ WTypeOK
  /\ WindowsKeepTheRecent

-----------------------------------------------------------------------------
\* A request of the model has a whole second as its timestamp.
LEMMA RequestTime == ASSUME NEW e \in Request PROVE e.ts \in Nat
  BY DetectionConstants DEF Request, DetectionAssumption

\* KeepsTheRecent, of a window, a set of requests and the late ones among them;
\* and e is late after those seen.
Kept(window, seen, span, lateOnes) ==
  /\ \A f \in seen : Fresh(f, seen, span) => f \in window
  /\ \A f \in window : f \in seen /\ (Fresh(f, seen, span) \/ f \in lateOnes)

Overtaken(e, seen, span) == \E f \in seen : f.ts > e.ts + span

\* What the code keeps of a window when it records e (types.go trimTimestamps): if
\* the window kept the recent requests of seen before, it keeps those of seen and
\* e, and late ones stay known as late.
LEMMA TrimKeepsTheRecent ==
  ASSUME NEW e \in Request, NEW window \in SUBSET Request, NEW seen \in SUBSET Request,
         NEW span \in Nat, NEW before, NEW after,
         Kept(window, seen, span, before), before \subseteq after,
         Overtaken(e, seen, span) => e \in after
  PROVE  Kept(Trim(window \cup {e}, e.ts, span), seen \cup {e}, span, after)
<1> DEFINE kept == Trim(window \cup {e}, e.ts, span)
           all == seen \cup {e}
<1>t. \A f \in Request : f.ts \in Nat
  BY RequestTime
<1>1. ASSUME NEW f \in all, Fresh(f, all, span) PROVE f \in kept
  <2>1. CASE f = e
    BY <1>t, <2>1 DEF Trim
  <2>2. CASE f \in seen
    <3>1. Fresh(f, seen, span) /\ e.ts <= f.ts + span
      BY <1>1 DEF Fresh
    <3> QED  BY <2>2, <3>1 DEF Trim, Kept
  <2> QED  BY <2>1, <2>2
<1>2. ASSUME NEW f \in kept PROVE f \in all /\ (Fresh(f, all, span) \/ f \in after)
  <2>1. f \in window \cup {e} /\ e.ts <= f.ts + span
    BY DEF Trim
  <2>2. CASE f = e
    <3>1. CASE Overtaken(e, seen, span)
      BY <2>2, <3>1
    <3>2. CASE ~Overtaken(e, seen, span)
      <4>1. \A g \in all : g.ts <= e.ts + span
        BY <1>t, <3>2 DEF Overtaken
      <4> QED  BY <2>2, <4>1 DEF Fresh
    <3> QED  BY <3>1, <3>2
  <2>3. CASE f \in window
    <3>1. f \in seen /\ (Fresh(f, seen, span) \/ f \in before)
      BY <2>3 DEF Kept
    <3>2. CASE Fresh(f, seen, span)
      BY <2>1, <3>1, <3>2 DEF Fresh
    <3> QED  BY <3>1, <3>2
  <2> QED  BY <2>1, <2>2, <2>3
<1> QED  BY <1>1, <1>2 DEF Kept

-----------------------------------------------------------------------------
LEMMA InitEstablishes == DetectionInit => WInv
<1> SUFFICES ASSUME DetectionInit PROVE WInv
  OBVIOUS
<1>1. WTypeOK
  BY DEF DetectionInit, WTypeOK
<1>2. WindowsKeepTheRecent
  BY DEF DetectionInit, WindowsKeepTheRecent, KeepsTheRecent, On
<1> QED  BY <1>1, <1>2 DEF WInv

\* Steps that touch no window and record nothing.
LEMMA WindowsUntouched ==
  ASSUME WindowsKeepTheRecent, UNCHANGED <<recent, burst, byPath, learned, late>>
  PROVE  WindowsKeepTheRecent'
  BY DEF WindowsKeepTheRecent, KeepsTheRecent, On

\* Update (types.go:282-298) on every one of the windows it trims.
LEMMA UpdateKeepsTheRecent ==
  ASSUME WInv, NEW l \in Learners, Update(l)
  PROVE  WInv'
<1> DEFINE e == event[l]
<1>e. e \in Request /\ e.path \in {Login, Items} /\ at[l] = "scored"
  BY DEF WInv, WTypeOK, Update, Request
<1>c. Minute \in Nat /\ Second \in Nat /\ Login # Items
  BY DetectionConstants DEF DetectionAssumption
<1>u. /\ recent' = Trim(recent \cup {e}, e.ts, Minute)
      /\ burst' = Trim(burst \cup {e}, e.ts, Second)
      /\ byPath' = [byPath EXCEPT ![e.path] = Trim(byPath[e.path] \cup {e}, e.ts, Minute)]
      /\ learned' = learned \cup {e}
      /\ late' = [s \in {Second, Minute} |->
                    IF \E f \in learned : f.ts > e.ts + s THEN late[s] \cup {e} ELSE late[s]]
      /\ at' = [at EXCEPT ![l] = "idle"]
      /\ event' = [event EXCEPT ![l] = Nothing]
  BY DEF Update
<1>w. /\ learned \in SUBSET Request /\ recent \in SUBSET Request /\ burst \in SUBSET Request
      /\ byPath \in [{Login, Items} -> SUBSET Request]
      /\ at \in [Learners -> {"idle", "serve", "scored"}]
      /\ event \in [Learners -> Request \cup {Nothing}]
      /\ \A k \in Learners : at[k] # "idle" => event[k] \in Request
  BY DEF WInv, WTypeOK
<1> HIDE DEF e
<1>1. WTypeOK'
  <2>1. /\ learned' \subseteq Request /\ recent' \subseteq Request /\ burst' \subseteq Request
        /\ byPath' \in [{Login, Items} -> SUBSET Request]
    BY <1>e, <1>u, <1>w DEF Trim
  <2>2. /\ at' \in [Learners -> {"idle", "serve", "scored"}]
        /\ event' \in [Learners -> Request \cup {Nothing}]
        /\ \A k \in Learners : at'[k] # "idle" => event'[k] \in Request
    BY <1>u, <1>w
  <2>3. DOMAIN late' = {Second, Minute}
    BY <1>u
  <2> QED  BY <2>1, <2>2, <2>3 DEF WTypeOK
<1>2. /\ late[Minute] \subseteq late'[Minute] /\ late[Second] \subseteq late'[Second]
      /\ Overtaken(e, learned, Minute) => e \in late'[Minute]
      /\ Overtaken(e, learned, Second) => e \in late'[Second]
  BY <1>u DEF Overtaken
<1>k. /\ Kept(recent, learned, Minute, late[Minute])
      /\ Kept(burst, learned, Second, late[Second])
      /\ \A p \in {Login, Items} : Kept(byPath[p], On(p), Minute, late[Minute])
  BY DEF WInv, WindowsKeepTheRecent, KeepsTheRecent, Kept
<1>3. Kept(recent', learned', Minute, late'[Minute])
  BY <1>c, <1>e, <1>k, <1>u, <1>w, <1>2, TrimKeepsTheRecent
<1>4. Kept(burst', learned', Second, late'[Second])
  BY <1>c, <1>e, <1>k, <1>u, <1>w, <1>2, TrimKeepsTheRecent
<1>5. ASSUME NEW p \in {Login, Items} PROVE Kept(byPath'[p], On(p)', Minute, late'[Minute])
  <2>1. /\ Kept(byPath[p], On(p), Minute, late[Minute])
        /\ On(p) \in SUBSET Request /\ On(p) \subseteq learned /\ byPath[p] \in SUBSET Request
    BY <1>k, <1>w DEF On
  <2>2. CASE p = e.path
    <3>1. On(p)' = On(p) \cup {e} /\ byPath'[p] = Trim(byPath[p] \cup {e}, e.ts, Minute)
      BY <1>u, <1>w, <2>2 DEF On
    <3>2. Overtaken(e, On(p), Minute) => e \in late'[Minute]
      BY <1>2, <2>1 DEF Overtaken
    <3> QED  BY <1>c, <1>e, <1>2, <2>1, <3>1, <3>2, TrimKeepsTheRecent
  <2>3. CASE p # e.path
    <3>1. On(p)' = On(p) /\ byPath'[p] = byPath[p]
      BY <1>u, <1>w, <2>3 DEF On
    <3> QED  BY <1>2, <2>1, <3>1 DEF Kept
  <2> QED  BY <2>2, <2>3
<1>6. WindowsKeepTheRecent'
  BY <1>3, <1>4, <1>5 DEF WindowsKeepTheRecent, KeepsTheRecent, Kept, Fresh
<1> QED  BY <1>1, <1>6 DEF WInv

\* WInv is inductive: only Update touches the windows, and it keeps it.
THEOREM DetectionKeepsWInv == WInv /\ [DetectionNext]_detectionVars => WInv'
<1> SUFFICES ASSUME WInv, [DetectionNext]_detectionVars PROVE WInv'
  OBVIOUS
<1>w. WTypeOK /\ WindowsKeepTheRecent
  BY DEF WInv
<1>1. CASE Tick
  <2>1. WTypeOK'
    BY <1>1, <1>w DEF Tick, WTypeOK
  <2> QED  BY <1>1, <1>w, <2>1, WindowsUntouched DEF Tick, WInv
<1>2. ASSUME NEW l \in Learners, NEW e \in Request, Arrive(l, e) PROVE WInv'
  <2>1. WTypeOK'
    BY <1>2, <1>w DEF Arrive, WTypeOK
  <2> QED  BY <1>2, <1>w, <2>1, WindowsUntouched DEF Arrive, WInv
<1>3. ASSUME NEW l \in Learners, Score(l) PROVE WInv'
  <2>1. WTypeOK'
    BY <1>3, <1>w DEF Score, WTypeOK
  <2> QED  BY <1>3, <1>w, <2>1, WindowsUntouched DEF Score, WInv
<1>4. CASE UNCHANGED detectionVars
  <2>1. WTypeOK'
    BY <1>4, <1>w DEF detectionVars, WTypeOK
  <2> QED  BY <1>4, <1>w, <2>1, WindowsUntouched DEF detectionVars, WInv
<1> QED  BY <1>1, <1>2, <1>3, <1>4, UpdateKeepsTheRecent DEF DetectionNext

\* The sliding windows of types.go:282-298: however the learners of an address
\* interleave, a request no older than a window, seen from the newest, is in it,
\* and what is in it but older was recorded late.
THEOREM RecentRequestsAreKept == DetectionSpec => []WindowsKeepTheRecent
<1>1. WInv => WindowsKeepTheRecent
  BY DEF WInv
<1> QED  BY <1>1, InitEstablishes, DetectionKeepsWInv, PTL DEF DetectionSpec

-----------------------------------------------------------------------------
(* What the detectors raise.                                               *)

\* Every set of numbers that is not empty has a least one.
LEMMA LeastNumber ==
  ASSUME NEW S \in SUBSET Nat, S # {}
  PROVE  \E n \in S : \A m \in S : n <= m
<1>1. PICK n \in S : \A m \in S : ~ (<<m, n>> \in OpToRel(<, Nat))
  BY NatLessThanWellFounded, WFMin, Zenon
<1>2. \A m \in S : ~(m < n)
  BY <1>1 DEF OpToRel
<1> QED  BY <1>2

\* k numbers of s follow each other down from n.
Descends(s, n, k) == \A i \in 0 .. (k - 1) : i <= n /\ n - i \in s

\* The function detectIDSequence's loop computes, as TopRun defines it.
RunOf(f, s) == f = [n \in Nat |-> IF n \in s THEN IF n = 0 THEN 1 ELSE 1 + f[n - 1] ELSE 0]

\* There is such a function: the longest descent from each number.
LEMMA RunExists == ASSUME NEW s PROVE \E f : RunOf(f, s)
<1> DEFINE Stops(n, k) == Descends(s, n, k) /\ ~(k <= n /\ n - k \in s)
           Longest(n) == CHOOSE k \in Nat : Stops(n, k)
           f == [n \in Nat |-> Longest(n)]
<1>1. ASSUME NEW n \in Nat PROVE \E k \in Nat : Stops(n, k)
  <2> DEFINE E == {k \in Nat : ~(k <= n /\ n - k \in s)}
  <2>1. E \in SUBSET Nat /\ n + 1 \in E
    OBVIOUS
  <2>2. PICK k \in E : \A m \in E : k <= m
    BY <2>1, LeastNumber
  <2>3. \A i \in 0 .. (k - 1) : i \in Nat /\ ~(k <= i)
    BY <2>1
  <2>4. Descends(s, n, k)
    BY <2>2, <2>3 DEF Descends
  <2> QED  BY <2>2, <2>4
<1>2. ASSUME NEW n \in Nat, NEW j \in Nat, NEW k \in Nat, Stops(n, j), Stops(n, k) PROVE j = k
  <2>1. ~(j < k)
    BY <1>2 DEF Descends
  <2>2. ~(k < j)
    BY <1>2 DEF Descends
  <2> QED  BY <2>1, <2>2
<1>3. ASSUME NEW n \in Nat PROVE Longest(n) \in Nat /\ Stops(n, Longest(n))
  BY <1>1
<1>4. ASSUME NEW n \in Nat, NEW k \in Nat, Stops(n, k) PROVE f[n] = k
  BY <1>2, <1>3, <1>4
<1>5. ASSUME NEW n \in Nat
      PROVE  f[n] = IF n \in s THEN IF n = 0 THEN 1 ELSE 1 + f[n - 1] ELSE 0
  <2>1. CASE n \notin s
    <3>1. Stops(n, 0)
      BY <2>1 DEF Descends
    <3> QED  BY <1>4, <2>1, <3>1
  <2>2. CASE n \in s /\ n = 0
    <3>1. Stops(n, 1)
      BY <2>2 DEF Descends
    <3> QED  BY <1>4, <2>2, <3>1
  <2>3. CASE n \in s /\ n # 0
    <3> DEFINE k == f[n - 1]
    <3>1. n - 1 \in Nat /\ k \in Nat /\ Stops(n - 1, k)
      BY <1>3, <2>3
    <3> HIDE DEF k
    <3>2. Descends(s, n, 1 + k)
      <4> SUFFICES ASSUME NEW i \in 0 .. ((1 + k) - 1) PROVE i <= n /\ n - i \in s
        BY DEF Descends
      <4>1. CASE i = 0
        BY <2>3, <4>1
      <4>2. CASE i # 0
        <5>1. i - 1 \in 0 .. (k - 1) /\ (n - 1) - (i - 1) = n - i
          BY <3>1, <4>2
        <5>2. i - 1 <= n - 1 /\ (n - 1) - (i - 1) \in s
          BY <3>1, <5>1 DEF Descends
        <5> QED  BY <3>1, <5>1, <5>2
      <4> QED  BY <4>1, <4>2
    <3>3. ~(1 + k <= n /\ n - (1 + k) \in s)
      <4>1. n - (1 + k) = (n - 1) - k /\ (1 + k <= n <=> k <= n - 1)
        BY <3>1
      <4> QED  BY <3>1, <4>1
    <3>4. f[n] = 1 + k
      BY <1>4, <3>1, <3>2, <3>3
    <3> QED  BY <2>3, <3>4 DEF k
  <2> QED  BY <2>1, <2>2, <2>3
<1> HIDE DEF f
<1>6. RunOf(f, s)
  <2>1. f = [n \in Nat |-> f[n]]
    BY DEF f
  <2> QED  BY <1>5, <2>1 DEF RunOf
<1> QED  BY <1>6

\* The descent from n is k numbers long, and no longer.
IsRun(s, n, k) == k \in Nat /\ Descends(s, n, k) /\ ~(k <= n /\ n - k \in s)

\* What the function computes is the length of the descent.
LEMMA RunIsCounted ==
  ASSUME NEW s, NEW f, RunOf(f, s), NEW n \in Nat
  PROVE  IsRun(s, n, f[n])
<1> DEFINE Bad == {m \in Nat : ~IsRun(s, m, f[m])}
<1>0. \A m \in Nat : f[m] = IF m \in s THEN IF m = 0 THEN 1 ELSE 1 + f[m - 1] ELSE 0
  BY DEF RunOf
<1>1. ASSUME Bad # {} PROVE FALSE
  <2>1. PICK m \in Bad : \A b \in Bad : m <= b
    BY <1>1, LeastNumber
  <2>2. CASE m \notin s
    BY <1>0, <2>1, <2>2 DEF IsRun, Descends
  <2>3. CASE m \in s /\ m = 0
    BY <1>0, <2>1, <2>3 DEF IsRun, Descends
  <2>4. CASE m \in s /\ m # 0
    <3> DEFINE k == f[m - 1]
    <3>1. m \in Nat /\ m - 1 \in Nat /\ m - 1 \notin Bad
      BY <2>1, <2>4
    <3>2. k \in Nat /\ Descends(s, m - 1, k) /\ ~(k <= m - 1 /\ (m - 1) - k \in s)
      BY <3>1 DEF IsRun
    <3>3. f[m] = 1 + k
      BY <1>0, <2>4, <3>1
    <3> HIDE DEF k
    <3>4. Descends(s, m, 1 + k)
      <4> SUFFICES ASSUME NEW i \in 0 .. ((1 + k) - 1) PROVE i <= m /\ m - i \in s
        BY DEF Descends
      <4>1. CASE i = 0
        BY <2>4, <4>1
      <4>2. CASE i # 0
        <5>1. i - 1 \in 0 .. (k - 1) /\ (m - 1) - (i - 1) = m - i
          BY <3>1, <3>2, <4>2
        <5>2. i - 1 <= m - 1 /\ (m - 1) - (i - 1) \in s
          BY <3>1, <3>2, <5>1 DEF Descends
        <5> QED  BY <3>1, <3>2, <5>1, <5>2
      <4> QED  BY <4>1, <4>2
    <3>5. ~(1 + k <= m /\ m - (1 + k) \in s)
      <4>1. m - (1 + k) = (m - 1) - k /\ (1 + k <= m <=> k <= m - 1)
        BY <3>1, <3>2
      <4> QED  BY <3>2, <4>1
    <3> QED  BY <2>1, <3>2, <3>3, <3>4, <3>5 DEF IsRun
  <2> QED  BY <2>2, <2>3, <2>4
<1> QED  BY <1>1

\* detectIDSequence (recon.go:182-196), for every set of numbers with a largest one:
\* TopRun is how many of them follow each other down from it, no more and no less.
THEOREM TopRunIsTheRun ==
  ASSUME NEW s \in SUBSET Nat, NEW top \in s, \A m \in s : m <= top
  PROVE  IsRun(s, top, TopRun(s))
<1>1. (CHOOSE n \in s : \A m \in s : m <= n) = top
  <2>1. \A n \in s : (\A m \in s : m <= n) => n = top
    OBVIOUS
  <2> QED  BY <2>1
<1>2. \E f : RunOf(f, s) /\ TopRun(s) = f[CHOOSE n \in s : \A m \in s : m <= n]
  BY RunExists DEF TopRun, RunOf
<1>3. PICK f : RunOf(f, s) /\ TopRun(s) = f[top]
  BY <1>1, <1>2
<1> QED  BY <1>3, RunIsCounted

-----------------------------------------------------------------------------
\* Every request has a number of its own, whether it is learned or with a learner,
\* and only one on an item carries the number of an item.
Numbered ==
  /\ arrived \in Nat
  /\ \A e \in learned : e.n <= arrived
  /\ \A l \in Learners : at[l] # "idle" =>
       /\ event[l].n <= arrived
       /\ \A e \in learned : e.n # event[l].n
       /\ \A k \in Learners \ {l} : at[k] # "idle" => event[k].n # event[l].n
       /\ IF event[l].path = Items THEN event[l].id \in Numbers ELSE event[l].id = 0

Limited == {e \in learned : e.limited}

\* The profile's numbers were asked for, and one is the largest; each pause, and
\* the 429 that may become one, has an answer 429 of its own.
Remembered ==
  /\ IsFiniteSet(learned)
  /\ \A k \in ids : k \in Numbers /\ \E e \in On(Items) : e.id = k
  /\ ids # {} => \E top \in ids : \A k \in ids : k <= top
  /\ pauses \in Nat /\ last429 \in Nat
  /\ pauses + (IF last429 > 0 THEN 1 ELSE 0) <= Cardinality(Limited)

FlagKinds == {"burst", "rate", "login", "enumeration", "pauses"}

ProfileInv ==
  /\ WInv /\ Numbered /\ Remembered
  /\ flags \in [Learners -> SUBSET FlagKinds]

\* The constants' bounds, where the proofs need them.
LEMMA Thresholds ==
  /\ Numbers \subseteq Nat /\ Login # Items
  /\ Minute \in Nat /\ Second \in Nat /\ PauseGap \in Nat /\ BurstHigh \in Nat
  /\ RateHigh \in Nat /\ LoginHigh \in Nat /\ MinSequence \in Nat /\ PauseCount \in Nat
  /\ MaxTime \in Nat /\ MaxRequests \in Nat
BY DetectionConstants DEF DetectionAssumption

LEMMA RequestFields ==
  ASSUME NEW e \in Request
  PROVE  /\ e.n \in Nat /\ e.ts \in 1 .. MaxTime /\ e.path \in {Login, Items}
         /\ e.id \in Numbers \cup {0} /\ e.limited \in BOOLEAN
BY Thresholds DEF Request

-----------------------------------------------------------------------------
(* The detectors, when a request is scored.                                *)

\* A set of requests that another contains is not counted above it.
LEMMA CountedInWindow ==
  ASSUME NEW part, NEW window, part \subseteq window, window \subseteq learned,
         IsFiniteSet(learned), NEW b \in Nat, Cardinality(part) > b
  PROVE  Cardinality(window) > b
<1>1. IsFiniteSet(window) /\ window \in SUBSET learned
  BY FS_Subset
<1>2. Cardinality(part) <= Cardinality(window)
  BY <1>1, FS_Subset
<1>3. Cardinality(part) \in Nat /\ Cardinality(window) \in Nat
  BY <1>1, FS_Subset, FS_CardinalityType
<1> QED  BY <1>2, <1>3

\* A set between the sure and the possible requests is counted between them.
LEMMA CountingBetween ==
  ASSUME NEW sure, NEW counted, NEW possible, sure \subseteq counted, counted \subseteq possible,
         possible \subseteq learned, IsFiniteSet(learned), NEW high \in Nat
  PROVE  /\ Cardinality(sure) > high => Cardinality(counted) > high
         /\ Cardinality(counted) > high => Cardinality(possible) > high
<1>1. counted \subseteq learned
  OBVIOUS
<1>2. ASSUME Cardinality(sure) > high PROVE Cardinality(counted) > high
  BY <1>1, <1>2, CountedInWindow
<1>3. ASSUME Cardinality(counted) > high PROVE Cardinality(possible) > high
  BY <1>3, CountedInWindow
<1> QED  BY <1>2, <1>3

\* A window that keeps the recent requests is between the current ones and those with
\* the late ones.
LEMMA WindowIsBetween ==
  ASSUME NEW window, NEW seen, NEW span, KeepsTheRecent(window, seen, span)
  PROVE  Current(seen, span) \subseteq window /\ window \subseteq OrLate(seen, span)
BY DEF KeepsTheRecent, Current, OrLate

\* The numbers Recon counts, the request's own among them: a run of three at least,
\* and of MinSequence, is one the address asked for.
LEMMA RunsAreAskedFor ==
  ASSUME WInv, Remembered, NEW e \in Request, e.path = Items, e.id \in Numbers,
         Enumerates(ids \cup {e.id})
  PROVE  \E first \in Numbers :
           \A i \in {0, 1, 2} \cup 0 .. (MinSequence - 1) :
             \E f \in On(Items) \cup {e} : f.id = first + i
<1> DEFINE s == ids \cup {e.id}
           run == TopRun(s)
           long == IF MinSequence > 3 THEN MinSequence ELSE 3
<1>0. \A n \in s : n \in Numbers /\ n \in Nat /\ \E f \in On(Items) \cup {e} : f.id = n
  BY Thresholds DEF Remembered
<1>1. PICK top \in s : \A n \in s : n <= top
  <2>1. CASE ids = {}
    BY <1>0, <2>1
  <2>2. CASE ids # {}
    <3>1. PICK m \in ids : \A n \in ids : n <= m
      BY <2>2 DEF Remembered
    <3>2. CASE m <= e.id
      BY <1>0, <3>1, <3>2
    <3>3. CASE ~(m <= e.id)
      BY <1>0, <3>1, <3>3
    <3> QED  BY <3>2, <3>3
  <2> QED  BY <2>1, <2>2
<1>2. s \in SUBSET Nat
  BY <1>0
<1>3. run \in Nat /\ Descends(s, top, run)
  BY <1>1, <1>2, TopRunIsTheRun DEF IsRun
<1>4. run >= 3 /\ run >= MinSequence
  BY DEF Enumerates
<1>5. long \in Nat /\ long >= 3 /\ long >= MinSequence /\ long <= run
  BY <1>3, <1>4, Thresholds
<1>6. top \in Nat
  BY <1>1, <1>0
<1> HIDE DEF run, long, s
<1>7. ASSUME NEW i \in {0, 1, 2} \cup 0 .. (MinSequence - 1)
      PROVE  i \in Nat /\ i < long
  BY <1>5, <1>7, Thresholds
<1>8. ASSUME NEW i \in Nat, i < long PROVE i <= top /\ top - i \in s
  <2>1. i \in 0 .. (run - 1)
    BY <1>3, <1>5, <1>8
  <2> QED  BY <1>3, <2>1 DEF Descends
<1>9. (long - 1) \in Nat /\ (long - 1) < long
  BY <1>5
<1>10. top - (long - 1) \in s /\ long - 1 <= top
  BY <1>8, <1>9
<1>11. ASSUME NEW i \in {0, 1, 2} \cup 0 .. (MinSequence - 1)
       PROVE  \E f \in On(Items) \cup {e} : f.id = (top - (long - 1)) + i
  <2>1. i \in Nat /\ i < long
    BY <1>7
  <2>2. ((long - 1) - i) \in Nat /\ ((long - 1) - i) < long
    BY <1>5, <2>1
  <2>3. top - ((long - 1) - i) \in s
    BY <1>8, <2>2
  <2>4. top - ((long - 1) - i) = (top - (long - 1)) + i
    BY <1>5, <1>6, <2>1
  <2> QED  BY <1>0, <2>3, <2>4
<1>12. top - (long - 1) \in Numbers
  BY <1>0, <1>10
<1> QED  BY <1>11, <1>12

-----------------------------------------------------------------------------
LEMMA InitHasProfile == DetectionInit => ProfileInv
<1> SUFFICES ASSUME DetectionInit PROVE ProfileInv
  OBVIOUS
<1>1. Numbered
  BY DEF DetectionInit, Numbered
<1>2. Limited = {} /\ learned = {}
  BY DEF DetectionInit, Limited
<1>3. Remembered
  BY <1>2, FS_EmptySet DEF DetectionInit, Remembered
<1>4. flags \in [Learners -> SUBSET FlagKinds]
  BY DEF DetectionInit
<1> QED  BY <1>1, <1>3, <1>4, InitEstablishes DEF ProfileInv

\* A step that records nothing leaves the profile as it was.
LEMMA RememberedUntouched ==
  ASSUME Remembered, UNCHANGED <<ids, last429, pauses, learned>>
  PROVE  Remembered'
BY DEF Remembered, Limited, On

\* A request arrives with the next number.
LEMMA ArriveKeepsProfile ==
  ASSUME ProfileInv, NEW l \in Learners, NEW e \in Request, Arrive(l, e)
  PROVE  Numbered' /\ Remembered'
<1>1. /\ at[l] = "idle" /\ e.n = arrived + 1 /\ arrived' = e.n
      /\ IF e.path = Items THEN e.id \in Numbers ELSE e.id = 0
      /\ event' = [event EXCEPT ![l] = e] /\ at' = [at EXCEPT ![l] = "serve"]
      /\ UNCHANGED <<flags, ids, last429, pauses, learned, late>>
  BY DEF Arrive
<1>2. /\ at \in [Learners -> {"idle", "serve", "scored"}]
      /\ event \in [Learners -> Request \cup {Nothing}] /\ learned \subseteq Request
      /\ \A k \in Learners : at[k] # "idle" => event[k] \in Request
  BY DEF ProfileInv, WInv, WTypeOK
<1>3. Numbered'
  <2>1. arrived \in Nat /\ arrived' = arrived + 1
    BY <1>1 DEF ProfileInv, Numbered
  <2>2. \A f \in learned : f.n <= arrived /\ f.n \in Nat
    BY <1>2, RequestFields DEF ProfileInv, Numbered
  <2>3. \A k \in Learners : at[k] # "idle" => event[k].n <= arrived /\ event[k].n \in Nat
    BY <1>2, RequestFields DEF ProfileInv, Numbered
  <2>4. ASSUME NEW k \in Learners, at'[k] # "idle"
        PROVE  /\ event'[k].n <= arrived'
               /\ \A f \in learned' : f.n # event'[k].n
               /\ \A j \in Learners \ {k} : at'[j] # "idle" => event'[j].n # event'[k].n
               /\ IF event'[k].path = Items THEN event'[k].id \in Numbers ELSE event'[k].id = 0
    <3>1. CASE k = l
      <4>1. event'[k] = e /\ e.n = arrived + 1
        BY <1>1, <1>2, <3>1
      <4>2. \A j \in Learners \ {k} : at'[j] = at[j] /\ event'[j] = event[j]
        BY <1>1, <1>2, <3>1
      <4> QED  BY <1>1, <2>1, <2>2, <2>3, <4>1, <4>2
    <3>2. CASE k # l
      <4>1. event'[k] = event[k] /\ at'[k] = at[k]
        BY <1>1, <1>2, <3>2
      <4>2. /\ \A f \in learned : f.n # event[k].n
            /\ \A j \in Learners \ {k} : at[j] # "idle" => event[j].n # event[k].n
            /\ IF event[k].path = Items THEN event[k].id \in Numbers ELSE event[k].id = 0
        BY <2>4, <4>1 DEF ProfileInv, Numbered
      <4>3. event'[l] = e /\ \A j \in Learners \ {l} : at'[j] = at[j] /\ event'[j] = event[j]
        BY <1>1, <1>2
      <4>4. \A j \in Learners \ {k} : at'[j] # "idle" => event'[j].n # event[k].n
        BY <1>1, <2>1, <2>3, <2>4, <4>1, <4>2, <4>3
      <4> QED  BY <1>1, <2>1, <2>3, <2>4, <4>1, <4>2, <4>4
    <3> QED  BY <3>1, <3>2
  <2>5. \A f \in learned' : f.n <= arrived'
    BY <1>1, <2>1, <2>2
  <2> QED  BY <2>1, <2>4, <2>5 DEF Numbered
<1>4. Remembered'
  BY <1>1, RememberedUntouched DEF ProfileInv
<1> QED  BY <1>3, <1>4

\* A pause is counted against the answer 429 before it, and once (evasion.go and
\* types.go, Last429Ts).
LEMMA UpdateCountsPauses ==
  ASSUME ProfileInv, NEW l \in Learners, Update(l)
  PROVE  /\ pauses' \in Nat /\ last429' \in Nat /\ IsFiniteSet(learned')
         /\ pauses' + (IF last429' > 0 THEN 1 ELSE 0) <= Cardinality(Limited')
<1> DEFINE e == event[l]
           due == IF last429 > 0 THEN 1 ELSE 0
<1>1. /\ at[l] = "scored" /\ last429' = Last429(e) /\ learned' = learned \cup {e}
      /\ pauses' = IF Resumed(e) THEN pauses + 1 ELSE pauses
  BY DEF Update
<1>2. e \in Request /\ IsFiniteSet(learned)
  BY <1>1 DEF ProfileInv, WInv, WTypeOK, Remembered
<1>3. e.ts \in Nat /\ e.ts > 0 /\ e.limited \in BOOLEAN
  BY <1>2, RequestFields, Thresholds
<1>4. pauses \in Nat /\ last429 \in Nat /\ pauses + due <= Cardinality(Limited)
  BY DEF ProfileInv, Remembered
<1>5. IsFiniteSet(Limited) /\ Cardinality(Limited) \in Nat
  <2>1. Limited \in SUBSET learned
    BY DEF Limited
  <2> QED  BY <1>2, <2>1, FS_Subset, FS_CardinalityType
<1>6. e \notin learned
  BY <1>1 DEF ProfileInv, Numbered
<1> HIDE DEF e
<1>7. IsFiniteSet(learned')
  BY <1>1, <1>2, FS_AddElement
<1>8. CASE e.limited
  <2>1. Limited' = Limited \cup {e} /\ e \notin Limited
    BY <1>1, <1>6, <1>8 DEF Limited
  <2>2. Cardinality(Limited') = Cardinality(Limited) + 1
    BY <1>5, <2>1, FS_AddElement
  <2>3. last429' = e.ts /\ pauses' = pauses
    BY <1>1, <1>8 DEF Last429, Resumed
  <2> QED  BY <1>3, <1>4, <1>5, <1>7, <2>2, <2>3
<1>9. CASE ~e.limited
  <2>1. Limited' = Limited
    BY <1>1, <1>9 DEF Limited
  <2>2. CASE Resumed(e)
    <3>1. last429 > 0 /\ last429' = 0 /\ pauses' = pauses + 1
      BY <1>1, <1>9, <2>2 DEF Last429, Resumed
    <3> QED  BY <1>4, <1>5, <1>7, <2>1, <3>1
  <2>3. CASE ~Resumed(e)
    <3>1. last429' = last429 /\ pauses' = pauses
      BY <1>1, <1>9, <2>3 DEF Last429
    <3> QED  BY <1>4, <1>5, <1>7, <2>1, <3>1
  <2> QED  BY <2>2, <2>3
<1> QED  BY <1>8, <1>9

\* Update records the request: the numbers and pauses of the profile are still its own.
LEMMA UpdateKeepsProfile ==
  ASSUME ProfileInv, NEW l \in Learners, Update(l)
  PROVE  Numbered' /\ Remembered'
<1> DEFINE e == event[l]
<1>1. /\ at[l] = "scored" /\ learned' = learned \cup {e} /\ arrived' = arrived
      /\ ids' = IF e.id # 0 THEN ids \cup {e.id} ELSE ids
      /\ at' = [at EXCEPT ![l] = "idle"]
      /\ event' = [event EXCEPT ![l] = Nothing]
  BY DEF Update
<1>2. /\ at \in [Learners -> {"idle", "serve", "scored"}] /\ e \in Request
      /\ event \in [Learners -> Request \cup {Nothing}]
  BY <1>1 DEF ProfileInv, WInv, WTypeOK
<1>3. /\ e.n <= arrived /\ IF e.path = Items THEN e.id \in Numbers ELSE e.id = 0
      /\ \A k \in Learners \ {l} : at[k] # "idle" => event[k].n # e.n
  BY <1>1 DEF ProfileInv, Numbered
<1> HIDE DEF e
<1>4. Numbered'
  <2>1. arrived' \in Nat /\ \A f \in learned' : f.n <= arrived'
    BY <1>1, <1>3 DEF ProfileInv, Numbered
  <2>2. ASSUME NEW k \in Learners, at'[k] # "idle"
        PROVE  /\ event'[k].n <= arrived'
               /\ \A f \in learned' : f.n # event'[k].n
               /\ \A j \in Learners \ {k} : at'[j] # "idle" => event'[j].n # event'[k].n
               /\ IF event'[k].path = Items THEN event'[k].id \in Numbers ELSE event'[k].id = 0
    <3>1. k # l /\ at'[k] = at[k] /\ event'[k] = event[k]
      BY <1>1, <1>2, <2>2
    <3>2. \A j \in Learners : at'[j] # "idle" => j # l /\ at'[j] = at[j] /\ event'[j] = event[j]
      BY <1>1, <1>2
    <3> QED  BY <1>1, <1>3, <2>2, <3>1, <3>2 DEF ProfileInv, Numbered
  <2> QED  BY <2>1, <2>2 DEF Numbered
<1>5. Remembered'
  <2>1. ASSUME NEW k \in ids' PROVE k \in Numbers /\ \E f \in On(Items)' : f.id = k
    <3>1. On(Items) \subseteq On(Items)'
      BY <1>1 DEF On
    <3>2. CASE k \in ids
      BY <3>1, <3>2 DEF ProfileInv, Remembered
    <3>3. CASE k \notin ids
      <4>1. k = e.id /\ e.path = Items
        BY <1>1, <1>3, <3>3
      <4>2. e \in On(Items)'
        BY <1>1, <4>1 DEF On
      <4> QED  BY <1>3, <4>1, <4>2
    <3> QED  BY <3>2, <3>3
  <2>2. ASSUME ids' # {} PROVE \E top \in ids' : \A k \in ids' : k <= top
    <3>0. \A k \in ids' : k \in Nat
      BY <2>1, Thresholds
    <3>1. CASE ids' = ids
      BY <2>2, <3>1 DEF ProfileInv, Remembered
    <3>2. CASE ids' = ids \cup {e.id} /\ ids = {}
      BY <3>0, <3>2
    <3>3. CASE ids' = ids \cup {e.id} /\ ids # {}
      <4>1. PICK top \in ids : \A k \in ids : k <= top
        BY <3>3 DEF ProfileInv, Remembered
      <4>2. CASE top <= e.id
        BY <3>0, <3>3, <4>1, <4>2
      <4>3. CASE ~(top <= e.id)
        BY <3>0, <3>3, <4>1, <4>3
      <4> QED  BY <4>2, <4>3
    <3> QED  BY <1>1, <3>1, <3>2, <3>3
  <2> QED  BY <2>1, <2>2, UpdateCountsPauses DEF Remembered
<1> QED  BY <1>4, <1>5

\* ProfileInv is inductive.
THEOREM DetectionKeepsProfile == ProfileInv /\ [DetectionNext]_detectionVars => ProfileInv'
<1> SUFFICES ASSUME ProfileInv, [DetectionNext]_detectionVars PROVE ProfileInv'
  OBVIOUS
<1>w. WInv'
  BY DetectionKeepsWInv DEF ProfileInv
<1>1. CASE Tick \/ UNCHANGED detectionVars
  <2>1. UNCHANGED <<arrived, event, at, flags, ids, last429, pauses, learned>>
    BY <1>1 DEF Tick, detectionVars
  <2>2. Numbered'
    BY <2>1 DEF ProfileInv, Numbered
  <2>3. Remembered'
    BY <2>1, RememberedUntouched DEF ProfileInv
  <2> QED  BY <1>w, <2>1, <2>2, <2>3 DEF ProfileInv
<1>2. ASSUME NEW l \in Learners, NEW e \in Request, Arrive(l, e) PROVE ProfileInv'
  <2>1. flags' = flags
    BY <1>2 DEF Arrive
  <2> QED  BY <1>2, <1>w, <2>1, ArriveKeepsProfile DEF ProfileInv
<1>3. ASSUME NEW l \in Learners, Score(l) PROVE ProfileInv'
  <2> DEFINE raised == Floods(event[l]) \cup BruteForce(event[l]) \cup Recon(event[l]) \cup Evasion(event[l])
  <2>1. /\ flags' = [flags EXCEPT ![l] = raised] /\ at' = [at EXCEPT ![l] = "scored"] /\ at[l] = "serve"
        /\ UNCHANGED <<arrived, event, ids, last429, pauses, learned>>
    BY <1>3 DEF Score
  <2>2. raised \subseteq FlagKinds
    BY DEF Floods, BruteForce, Recon, Evasion, FlagKinds
  <2> HIDE DEF raised
  <2>3. flags' \in [Learners -> SUBSET FlagKinds]
    BY <2>1, <2>2 DEF ProfileInv
  <2>4. Numbered'
    BY <2>1 DEF ProfileInv, WInv, WTypeOK, Numbered
  <2>5. Remembered'
    BY <2>1, RememberedUntouched DEF ProfileInv
  <2> QED  BY <1>w, <2>3, <2>4, <2>5 DEF ProfileInv
<1>4. ASSUME NEW l \in Learners, Update(l) PROVE ProfileInv'
  <2>1. flags' \in [Learners -> SUBSET FlagKinds]
    BY <1>4 DEF Update, ProfileInv
  <2> QED  BY <1>4, <1>w, <2>1, UpdateKeepsProfile DEF ProfileInv
<1> QED  BY <1>1, <1>2, <1>3, <1>4 DEF DetectionNext

\* Who becomes scored is scored by Score, on the profile as it is.
LEMMA ScoredByScore ==
  ASSUME ProfileInv, [DetectionNext]_detectionVars, NEW l \in Learners, Scored(l)
  PROVE  Score(l)
<1>t. at \in [Learners -> {"idle", "serve", "scored"}]
  BY DEF ProfileInv, WInv, WTypeOK
<1>1. at[l] = "serve" /\ at'[l] = "scored"
  BY DEF Scored
<1>2. at' # at
  BY <1>1
<1>3. ASSUME NEW k \in Learners, NEW e \in Request, Arrive(k, e) PROVE FALSE
  BY <1>1, <1>3, <1>t DEF Arrive
<1>4. ASSUME NEW k \in Learners, Update(k) PROVE FALSE
  BY <1>1, <1>4, <1>t DEF Update
<1>5. ASSUME NEW k \in Learners, Score(k) PROVE k = l
  BY <1>1, <1>5, <1>t DEF Score
<1>6. ~Tick /\ ~UNCHANGED detectionVars
  BY <1>2 DEF Tick, detectionVars
<1> QED  BY <1>3, <1>4, <1>5, <1>6 DEF DetectionNext

\* The detectors (ddos.go, bruteforce.go, recon.go, evasion.go) raise what the address
\* has done and miss no flood and no series of logins, however its learners interleave:
\* a flood is counted around the newest request recorded, late ones at most besides, a
\* run of numbers was asked for, a pause has an answer 429 of its own.
THEOREM DetectorsAreRight == DetectionSpec => FlagsAreEarned
<1>1. ASSUME ProfileInv, [DetectionNext]_detectionVars, NEW l \in Learners, Scored(l)
      PROVE  RaisesWhatWasDone(l)
  <2> DEFINE e == event[l]
             raised == flags'[l]
  <2>s. Score(l)
    BY <1>1, ScoredByScore
  <2>p. /\ WInv /\ Numbered /\ Remembered /\ IsFiniteSet(learned)
        /\ flags \in [Learners -> SUBSET FlagKinds]
    BY <1>1 DEF ProfileInv, Remembered
  <2>0. e \in Request /\ (e.path = Items => e.id \in Numbers)
    BY <2>p, <2>s DEF Score, Numbered, WInv, WTypeOK
  <2>1. raised = Floods(e) \cup BruteForce(e) \cup Recon(e) \cup Evasion(e)
    BY <2>p, <2>s DEF Score
  <2> HIDE DEF raised, e
  <2>2. /\ "burst" \in raised <=> Cardinality(burst) > BurstHigh
        /\ "rate" \in raised <=> Cardinality(recent) > RateHigh
        /\ e.path = Login =>
             ("login" \in raised <=> Cardinality(Trim(byPath[Login], e.ts, Minute)) > LoginHigh)
        /\ "enumeration" \in raised => e.path = Items /\ Enumerates(ids \cup {e.id})
        /\ "pauses" \in raised => pauses >= PauseCount
    BY <2>1 DEF Floods, BruteForce, Recon, Evasion, WindowCount
  <2>3. /\ KeepsTheRecent(burst, learned, Second) /\ KeepsTheRecent(recent, learned, Minute)
        /\ KeepsTheRecent(byPath[Login], On(Login), Minute)
    BY <2>p DEF WInv, WindowsKeepTheRecent
  <2>b. BurstHigh \in Nat /\ RateHigh \in Nat /\ LoginHigh \in Nat
    BY Thresholds
  <2>4. Counts("burst" \in raised, BurstHigh, Current(learned, Second), OrLate(learned, Second))
    <3>1. OrLate(learned, Second) \subseteq learned
      BY DEF OrLate, Current
    <3>2. Current(learned, Second) \subseteq burst /\ burst \subseteq OrLate(learned, Second)
      BY <2>3, WindowIsBetween
    <3>3. /\ Cardinality(Current(learned, Second)) > BurstHigh => Cardinality(burst) > BurstHigh
          /\ Cardinality(burst) > BurstHigh => Cardinality(OrLate(learned, Second)) > BurstHigh
      BY <2>p, <2>b, <3>1, <3>2, CountingBetween
    <3> QED  BY <2>2, <3>3 DEF Counts
  <2>5. Counts("rate" \in raised, RateHigh, Current(learned, Minute), OrLate(learned, Minute))
    <3>1. OrLate(learned, Minute) \subseteq learned
      BY DEF OrLate, Current
    <3>2. Current(learned, Minute) \subseteq recent /\ recent \subseteq OrLate(learned, Minute)
      BY <2>3, WindowIsBetween
    <3>3. /\ Cardinality(Current(learned, Minute)) > RateHigh => Cardinality(recent) > RateHigh
          /\ Cardinality(recent) > RateHigh => Cardinality(OrLate(learned, Minute)) > RateHigh
      BY <2>p, <2>b, <3>1, <3>2, CountingBetween
    <3> QED  BY <2>2, <3>3 DEF Counts
  <2>6. ASSUME e.path = Login
        PROVE  Counts("login" \in raised, LoginHigh,
                      Since(e.ts, Current(On(Login), Minute)), Since(e.ts, On(Login)))
    <3>1. /\ Since(e.ts, Current(On(Login), Minute)) \subseteq Trim(byPath[Login], e.ts, Minute)
          /\ Trim(byPath[Login], e.ts, Minute) \subseteq Since(e.ts, On(Login))
      BY <2>3 DEF KeepsTheRecent, Trim, Since, Current
    <3>2. Since(e.ts, On(Login)) \subseteq learned
      BY DEF Since, On
    <3> DEFINE counted  == Trim(byPath[Login], e.ts, Minute)
               sure     == Since(e.ts, Current(On(Login), Minute))
               possible == Since(e.ts, On(Login))
    <3> HIDE DEF counted, sure, possible
    <3>3. /\ sure \subseteq counted /\ counted \subseteq possible /\ possible \subseteq learned
      BY <3>1, <3>2 DEF counted, sure, possible
    <3>4. /\ Cardinality(sure) > LoginHigh => Cardinality(counted) > LoginHigh
          /\ Cardinality(counted) > LoginHigh => Cardinality(possible) > LoginHigh
      BY <2>p, <2>b, <3>3, CountingBetween
    <3> QED  BY <2>2, <2>6, <3>4 DEF Counts, counted, sure, possible
  <2>7. ASSUME "enumeration" \in raised
        PROVE  \E first \in Numbers :
                 \A i \in {0, 1, 2} \cup 0 .. (MinSequence - 1) :
                   \E f \in On(Items) \cup {e} : f.id = first + i
    BY <2>p, <2>0, <2>2, <2>7, RunsAreAskedFor
  <2>8. ASSUME "pauses" \in raised PROVE Cardinality({f \in learned : f.limited}) >= PauseCount
    <3>1. Limited \in SUBSET learned
      BY DEF Limited
    <3>2. Cardinality(Limited) \in Nat
      BY <2>p, <3>1, FS_Subset, FS_CardinalityType
    <3>3. pauses \in Nat /\ pauses <= Cardinality(Limited)
      BY <2>p, <3>2 DEF Remembered
    <3>4. Cardinality(Limited) >= PauseCount
      BY <2>2, <2>8, <3>2, <3>3, Thresholds
    <3> QED  BY <3>4 DEF Limited
  <2> QED  BY <2>4, <2>5, <2>6, <2>7, <2>8 DEF RaisesWhatWasDone, raised, e
<1>2. ProfileInv /\ [DetectionNext]_detectionVars =>
        [\A l \in Learners : Scored(l) => RaisesWhatWasDone(l)]_detectionVars
  BY <1>1
<1> QED  BY <1>2, InitHasProfile, DetectionKeepsProfile, PTL DEF DetectionSpec, FlagsAreEarned
=============================================================================

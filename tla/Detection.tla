----------------------------- MODULE Detection -----------------------------
(***************************************************************************)
(* What the trust engine remembers of an address's requests to detect      *)
(* floods, brute force, enumeration and pausing clients (types.go,         *)
(* time_window.go, ddos.go, bruteforce.go, account_abuse.go, recon.go,     *)
(* evasion.go), and what the detectors make of it.                         *)
(*                                                                         *)
(* A request is stamped when it arrives, in whole seconds, and learned     *)
(* after its response: a learner scores it from the profile under the read *)
(* lock and records it later under the write lock.  Learners of one        *)
(* address run side by side, so requests are recorded in any order.        *)
(***************************************************************************)
EXTENDS Naturals, FiniteSets

CONSTANTS
  Learners,     \* requests between their arrival and the end of their learner
  Login, Items, \* a login endpoint, and a collection whose members have a number
  Numbers,      \* the numbers clients ask for
  Minute,       \* the long windows, in seconds
  Second,       \* the burst window
  PauseGap,     \* how long a client must have been away to have paused
  BurstHigh, RateHigh, LoginHigh, MinSequence, PauseCount, \* thresholds of Config
  Nothing,      \* the learner has no request
  MaxTime,      \* bound: the clock
  MaxRequests   \* bound: requests of the address

DetectionAssumption ==
  /\ Login # Items
  /\ Numbers \subseteq Nat
  /\ Minute \in Nat /\ Second \in Nat /\ PauseGap \in Nat
  /\ BurstHigh \in Nat /\ RateHigh \in Nat /\ LoginHigh \in Nat
  /\ MinSequence \in Nat /\ PauseCount \in Nat
  /\ MaxTime \in Nat /\ MaxRequests \in Nat

ASSUME DetectionConstants == DetectionAssumption

VARIABLES
  clock,   \* seconds
  arrived, \* requests that arrived so far
  event,   \* the request each learner has
  at,      \* what it does with it
  flags,   \* what the detectors found when it was scored
  recent,  \* RecentTimestamps
  burst,   \* BurstTimestamps
  byPath,  \* EndpointTimestamps
  ids,     \* NumericIDSequences of Items
  last429, \* Last429Ts, 0 for none
  pauses,  \* RateLimitPauses
  learned, \* history: the requests recorded
  late     \* history: per window, those recorded after a request newer by more than it

detectionVars == <<clock, arrived, event, at, flags, recent, burst, byPath, ids,
                   last429, pauses, learned, late>>

-----------------------------------------------------------------------------
\* A request: which one it is, its timestamp, its path, the number in the path of
\* an item (a path without one carries 0, which is not recorded either), whether
\* it was answered 429.
Request == [n : 1 .. MaxRequests, ts : 1 .. MaxTime, path : {Login, Items},
            id : Numbers \cup {0}, limited : BOOLEAN]

\* (mutant: the newest timestamp is the window's first)
TrimShort(window, now, span) == {e \in window : now < e.ts + span}

\* trimTimestamps: what is not older than span, seen from now.
Trim(window, now, span) == {e \in window : now <= e.ts + span}

\* slidingWindowCount over a stored window.
WindowCount(window, now, span) == Cardinality(Trim(window, now, span))

\* (mutant: gaps of two count as consecutive)
TopRunLoose(s) ==
  LET below[n \in Nat] == IF n = 0 THEN 0
                          ELSE IF n \in s \/ n + 1 \in s THEN 1 + below[n - 1] ELSE 0
      top == CHOOSE n \in s : \A m \in s : m <= n
  IN  below[top]

\* detectIDSequence: how many numbers follow each other at the end of the sorted
\* list.
TopRun(s) ==
  LET below[n \in Nat] == IF n \in s THEN IF n = 0 THEN 1 ELSE 1 + below[n - 1] ELSE 0
      top == CHOOSE n \in s : \A m \in s : m <= n
  IN  below[top]

\* A run of two is none.
Enumerates(s) == Cardinality(s) >= 3 /\ TopRun(s) >= 3 /\ TopRun(s) >= MinSequence

-----------------------------------------------------------------------------
DetectionInit ==
  /\ clock = 1 /\ arrived = 0
  /\ event = [l \in Learners |-> Nothing]
  /\ at = [l \in Learners |-> "idle"]
  /\ flags = [l \in Learners |-> {}]
  /\ recent = {} /\ burst = {}
  /\ byPath = [p \in {Login, Items} |-> {}]
  /\ ids = {} /\ last429 = 0 /\ pauses = 0
  /\ learned = {} /\ late = [s \in {Second, Minute} |-> {}]

Tick ==
  /\ clock < MaxTime
  /\ clock' = clock + 1
  /\ UNCHANGED <<arrived, event, at, flags, recent, burst, byPath, ids, last429, pauses, learned, late>>

\* A request arrives; its learner starts when it has been answered.
Arrive(l, e) ==
  /\ at[l] = "idle" /\ arrived < MaxRequests
  /\ e.n = arrived + 1 /\ e.ts = clock
  /\ IF e.path = Items THEN e.id \in Numbers ELSE e.id = 0
  /\ e.limited => e.path = Login
  /\ arrived' = e.n
  /\ event' = [event EXCEPT ![l] = e]
  /\ at' = [at EXCEPT ![l] = "serve"]
  /\ UNCHANGED <<clock, flags, recent, burst, byPath, ids, last429, pauses, learned, late>>

\* ScoreDDoS and the burst override look at the windows as they were left by the
\* last update, however long ago that was.
Floods(e) ==
  {f \in {"burst", "rate"} : \/ f = "burst" /\ Cardinality(burst) > BurstHigh
                             \/ f = "rate" /\ Cardinality(recent) > RateHigh}

\* ScoreBruteForce counts the logins since a minute before the request.
BruteForce(e) ==
  {f \in {"login"} : e.path = Login /\ WindowCount(byPath[Login], e.ts, Minute) > LoginHigh}

\* ScoreRecon looks at the numbers with the request's own among them.
Recon(e) == {f \in {"enumeration"} : e.path = Items /\ Enumerates(ids \cup {e.id})}

\* ScoreEvasion.
Evasion(e) == {f \in {"pauses"} : pauses >= PauseCount}

\* Phase 1 of ComputeTrustScore, under the read lock.
Score(l) ==
  /\ at[l] = "serve"
  /\ flags' = [flags EXCEPT ![l] =
       Floods(event[l]) \cup BruteForce(event[l]) \cup Recon(event[l]) \cup Evasion(event[l])]
  /\ at' = [at EXCEPT ![l] = "scored"]
  /\ UNCHANGED <<clock, arrived, event, recent, burst, byPath, ids, last429, pauses, learned, late>>

\* A request that is served again, some seconds after the last 429.
Resumed(e) == ~e.limited /\ last429 > 0 /\ e.ts > last429 + PauseGap

\* Last429Ts after request e: a pause is counted once.
Last429(e) == IF e.limited THEN e.ts ELSE IF Resumed(e) THEN 0 ELSE last429

\* IPProfile.Update, under the write lock.
Update(l) ==
  LET e == event[l]
  IN  /\ at[l] = "scored"
      /\ recent' = Trim(recent \cup {e}, e.ts, Minute)
      /\ burst' = Trim(burst \cup {e}, e.ts, Second)
      /\ byPath' = [byPath EXCEPT ![e.path] = Trim(@ \cup {e}, e.ts, Minute)]
      /\ ids' = IF e.id # 0 THEN ids \cup {e.id} ELSE ids
      /\ last429' = Last429(e)
      /\ pauses' = IF Resumed(e) THEN pauses + 1 ELSE pauses
      /\ learned' = learned \cup {e}
      /\ late' = [s \in {Second, Minute} |->
                    IF \E f \in learned : f.ts > e.ts + s THEN late[s] \cup {e} ELSE late[s]]
      /\ at' = [at EXCEPT ![l] = "idle"]
      /\ event' = [event EXCEPT ![l] = Nothing]
      /\ flags' = [flags EXCEPT ![l] = {}]
      /\ UNCHANGED <<clock, arrived>>

DetectionNext ==
  \/ Tick
  \/ \E l \in Learners, e \in Request : Arrive(l, e)
  \/ \E l \in Learners : Score(l) \/ Update(l)

DetectionSpec == DetectionInit /\ [][DetectionNext]_detectionVars

-----------------------------------------------------------------------------
(* Properties.                                                             *)

\* Request e is no older than span, seen from the newest of the requests seen.
Fresh(e, seen, span) == \A f \in seen : f.ts <= e.ts + span

KeepsTheRecent(window, seen, span) ==
  /\ \A e \in seen : Fresh(e, seen, span) => e \in window
  /\ \A e \in window : e \in seen /\ (Fresh(e, seen, span) \/ e \in late[span])

On(path) == {e \in learned : e.path = path}

\* In whatever order learners record their requests, no window ever loses one
\* that is recent, seen from the newest; and what else it holds was recorded late,
\* after a request newer by more than the window.
WindowsKeepTheRecent ==
  /\ KeepsTheRecent(recent, learned, Minute)
  /\ KeepsTheRecent(burst, learned, Second)
  /\ \A p \in {Login, Items} : KeepsTheRecent(byPath[p], On(p), Minute)

\* The requests recorded that are no older than span, seen from the newest, and
\* those with what a window may still hold of late ones.  Timestamps are whole
\* seconds: a span of one is two seconds of the clock.
Current(seen, span) == {e \in seen : Fresh(e, seen, span)}
OrLate(seen, span)  == Current(seen, span) \cup {e \in seen : e \in late[span]}

\* A detector that must raise a flag above high for the sure ones, and only may with
\* the possible ones.
Counts(raised, high, sure, possible) ==
  /\ Cardinality(sure) > high => raised
  /\ raised => Cardinality(possible) > high

Since(then, requests) == {e \in requests : then <= e.ts + Minute}

RaisesWhatWasDone(l) ==
  LET e == event[l]
      raised == flags'[l]
  IN  /\ Counts("burst" \in raised, BurstHigh, Current(learned, Second), OrLate(learned, Second))
      /\ Counts("rate" \in raised, RateHigh, Current(learned, Minute), OrLate(learned, Minute))
      /\ e.path = Login =>
           Counts("login" \in raised, LoginHigh,
                  Since(e.ts, Current(On(Login), Minute)), Since(e.ts, On(Login)))
      /\ "enumeration" \in raised =>
           \E first \in Numbers :
             \A i \in {0, 1, 2} \cup 0 .. (MinSequence - 1) :
               \E f \in On(Items) \cup {e} : f.id = first + i
      /\ "pauses" \in raised => Cardinality({f \in learned : f.limited}) >= PauseCount

Scored(l) == at[l] = "serve" /\ at'[l] = "scored"

\* What the detectors find when they score a request is what the address has done so
\* far, in whatever order its learners recorded it: a flood is one around the newest
\* request recorded, none around it is missed, and late ones are all that may be
\* counted besides; logins are those since a minute before the request; a run of
\* numbers was really asked for, and each pause had an answer 429 of its own.
FlagsAreEarned == [][\A l \in Learners : Scored(l) => RaisesWhatWasDone(l)]_detectionVars

-----------------------------------------------------------------------------
(* A claim of the documentation that does not hold.                        *)

\* The requests known when one is scored, those still with their learners included.
Known == learned \cup {event[k] : k \in {k \in Learners : at[k] # "idle"}}

\* trustscore/README.md counts bursts in requests per second, "over 15 req/s: 4.0
\* (challenge); over 50 req/s: 0.0 (ban)", and so does the reason ScoreDDoS gives: a
\* burst raised for a request should be that of the second before it.
BurstsAreCurrent ==
  [][\A l \in Learners : Scored(l) /\ "burst" \in flags'[l] =>
       Cardinality({e \in Known : event[l].ts <= e.ts + Second}) > BurstHigh]_detectionVars
=============================================================================

----------------------------- MODULE Tier1Review -----------------------------
(***************************************************************************)
(* What the Tier 1 pipeline promises about a job, without queues, workers  *)
(* or storage: it is attempted a bounded number of times, judged at most   *)
(* once, never attempted again once judged, and corrects a profile at most *)
(* once, only after it was judged.  A job may be given up, and a crash or  *)
(* a storage failure may lose it.                                          *)
(***************************************************************************)
EXTENDS Naturals

CONSTANTS
  Jobs,
  Limit       \* attempts a job may cost the model

VARIABLES
  live,       \* jobs somebody may still attempt
  tries,      \* attempts so far
  judged,     \* jobs the model has judged
  givenUp,    \* jobs put aside
  corrected   \* jobs whose judgement corrected a profile

revVars == <<live, tries, judged, givenUp, corrected>>

Init ==
  /\ live = {} /\ judged = {} /\ givenUp = {} /\ corrected = {}
  /\ tries = [j \in Jobs |-> 0]

Accept(j) ==
  /\ j \notin live \cup judged \cup givenUp /\ tries[j] = 0
  /\ live' = live \cup {j}
  /\ UNCHANGED <<tries, judged, givenUp, corrected>>

Attempt(j) ==
  /\ j \in live \ judged /\ tries[j] < Limit
  /\ tries' = [tries EXCEPT ![j] = @ + 1]
  /\ UNCHANGED <<live, judged, givenUp, corrected>>

\* A copy of the job may outlive a judgement or a surrender.
Released(j) == live' \in {live, live \ {j}}

Judge(j) ==
  /\ j \in live \ judged /\ tries[j] > 0
  /\ Released(j)
  /\ judged' = judged \cup {j}
  /\ UNCHANGED <<tries, givenUp, corrected>>

GiveUp(j) ==
  /\ j \in live
  /\ Released(j)
  /\ givenUp' = givenUp \cup {j}
  /\ UNCHANGED <<tries, judged, corrected>>

Correct(j) ==
  /\ j \in judged \ corrected
  /\ corrected' = corrected \cup {j}
  /\ UNCHANGED <<live, tries, judged, givenUp>>

Lose(S) ==
  /\ live' = live \ S
  /\ UNCHANGED <<tries, judged, givenUp, corrected>>

Next ==
  \/ \E j \in Jobs : Accept(j) \/ Attempt(j) \/ Judge(j) \/ GiveUp(j) \/ Correct(j)
  \/ \E S \in SUBSET Jobs : Lose(S)

Spec == Init /\ [][Next]_revVars
=============================================================================

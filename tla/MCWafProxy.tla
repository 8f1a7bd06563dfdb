---------------------------- MODULE MCWafProxy ----------------------------
(***************************************************************************)
(* A small instance of WafProxy: the first address of a network and        *)
(* another one of it, two tunings with different thresholds and margins,   *)
(* one dashboard, and bounds on the configuration changes, on the crashes  *)
(* and on the solutions clients post.                                      *)
(***************************************************************************)
EXTENDS WafProxy, TLC

CONSTANTS First, Inside, Lax, Strict, MaxChanges, MaxCrashes, MaxSolutions

VARIABLE spent

MCAddresses == {First, Inside}
MCMaskOf    == (First :> First) @@ (Inside :> First)

MCTunings == {Lax, Strict}

\* Lax inspects from 4 and blocks from 8 tenths, Strict blocks from 6 and
\* inspects nothing below.
MCUnit    == 10
MCProbs   == {5, 7, 9}
MCBlockAt == (Lax :> 8) @@ (Strict :> 6)
MCMargin  == (Lax :> 5) @@ (Strict :> 0)

MCSymmetry == Permutations(JWTSecrets) \cup Permutations(Requests)

Spend(what, max) == spent[what] < max /\ spent' = [spent EXCEPT ![what] = @ + 1]

MCInit ==
  /\ ProxyInit
  /\ cfgFile = NoFile
  /\ spent = [changes |-> 0, crashes |-> 0, solutions |-> 0]

\* Bounds: one configuration change, one crash, one posted solution, whose salt
\* is of the day it is posted; days pass once there is a solution to grow old.
\* A handler that has its answer changes nothing any more: it returns before
\* anything else happens.  Past the gate no handler looks at cookies or the date:
\* solutions, cookies and midnights come while none is.
Answered == {r \in Requests : req[r].at = "done"}
PastTheGate == {r \in Requests : req[r].at \notin {"idle", "identify", "gate", "done"}}

MCHandle ==
  /\ Handle
  /\ Answered = {} \/ \E r \in Answered : req'[r] = Idle
  /\ UNCHANGED <<day, solving, cookies, worked>> \/ PastTheGate = {}
  /\ day' = day \/ worked # {}
  /\ \A w \in worked' \ worked : w.day = day
  /\ IF worked' = worked THEN UNCHANGED spent ELSE Spend("solutions", MaxSolutions)

MCConfigure ==
  /\ Answered = {}
  /\ Configure
  /\ IF \E e \in Editors : save[e] = "idle" /\ save'[e] = "post"
     THEN Spend("changes", MaxChanges) ELSE UNCHANGED spent

MCNext ==
  \/ MCHandle
  \/ MCConfigure
  \/ Answered = {} /\ CrashProxy /\ Spend("crashes", MaxCrashes)
  \/ RestartProxy /\ UNCHANGED spent

MCSpec == MCInit /\ [][MCNext]_<<proxyVars, spent>>
=============================================================================

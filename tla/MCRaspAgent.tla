---------------------------- MODULE MCRaspAgent ----------------------------
(***************************************************************************)
(* A small instance of RaspAgent: a backend of two threads and one child.  *)
(* Each thread serves requests of its own, those of one of them with an    *)
(* identity no JSON string can hold; the threads query the database, which *)
(* is only observed, and the child executes a command, which is refused.   *)
(***************************************************************************)
EXTENDS RaspAgent, TLC

CONSTANTS t1, t2, r1, r2

RequestOf == (t1 :> r1) @@ (t2 :> r2)

\* Nobody begins anything once the last verdict is on its way.
MCStep ==
  /\ \A t \in Threads : serving'[t] \in {NoRequest, RequestOf[t]}
  /\ sent = MaxVerdicts => \A a \in Actors : serving'[a] \in {serving[a], NoRequest}
  /\ sent = MaxVerdicts => ctx' = ctx \/ alive' # alive
  /\ \A a \in Actors : at'[a] = "lock" => job'[a].effect = (IF a \in Threads THEN "tautology" ELSE "exec")

MCInit == RaspInit /\ ingest.up
MCNext == RaspNext /\ MCStep

MCSpec == MCInit /\ [][MCNext]_raspVars /\ RaspFairness
=============================================================================

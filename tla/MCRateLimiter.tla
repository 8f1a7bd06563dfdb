--------------------------- MODULE MCRateLimiter ---------------------------
(***************************************************************************)
(* A small instance of RateLimiter: one address, one user, two settings    *)
(* (one and a half tokens' difference in burst, one of them slower than a  *)
(* token per second), a clock that stops at MaxTime.  The objects nothing  *)
(* points to are normalised, so that states differ only where they can.    *)
(***************************************************************************)
EXTENDS RateLimiter, TLC

CONSTANT MaxTime

MCTiers == {[rate |-> 3, burst |-> 4], [rate |-> 1, burst |-> 2]}

MCSymmetry == Permutations(BucketIds) \cup Permutations(Requests)

Early == now < MaxTime

MCNext ==
  \/ \E r \in Requests, ip \in IPs, u \in Users \cup {NoUser}, t \in Tiers :
       Arrive(r, ip, u, t)
  \/ \E r \in Requests : Step(r)
  \/ Sweep
  \/ Early /\ Tick

MCSpec == Init /\ [][MCNext]_vars

\* An idle handler's last key and setting, and a garbage bucket's contents,
\* are not part of the state.
MCView ==
  <<now, buckets, promise, credit, extra, pc, ptr, late,
    [b \in InUse \ {NoBucket} |-> heap[b]],
    [r \in Requests |-> IF pc[r] = "idle" THEN <<>> ELSE <<key[r], user[r], tier[r]>>]>>
=============================================================================

----------------------------- MODULE Reputation -----------------------------
(***************************************************************************)
(* What the trust engine promises the proxy about an entity, without       *)
(* scores, profiles or goroutines: an entity has a standing, and once it   *)
(* has been rejected it is never again served without passing a challenge, *)
(* until the engine forgets it altogether.                                 *)
(***************************************************************************)
CONSTANT Entities

VARIABLES
  standing,   \* the Gatekeeper's recommendation for the next request
  flagged     \* the entity has been rejected since it became known

repVars == <<standing, flagged>>

Standings == {"allow", "allow+stricter", "challenge", "block", "ban"}
Stranger  == "allow+stricter"     \* 7.5 is in this band

Init ==
  /\ standing = [e \in Entities |-> Stranger]
  /\ flagged  = [e \in Entities |-> FALSE]

\* New evidence moves the standing; a rejection leaves its mark.
Judge(e, d) ==
  /\ flagged[e] => d \notin {"allow", "allow+stricter"}
  /\ standing' = [standing EXCEPT ![e] = d]
  /\ flagged'  = [flagged EXCEPT ![e] = @ \/ d \in {"block", "ban"}]

\* Eviction or an administrator's reset: the entities in S are strangers again.
Forget(S) ==
  /\ standing' = [e \in Entities |-> IF e \in S THEN Stranger ELSE standing[e]]
  /\ flagged'  = [e \in Entities |-> e \notin S /\ flagged[e]]

Next ==
  \/ \E e \in Entities, d \in Standings : Judge(e, d)
  \/ \E S \in SUBSET Entities : Forget(S)

Spec == Init /\ [][Next]_repVars
=============================================================================

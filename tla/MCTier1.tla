------------------------------ MODULE MCTier1 ------------------------------
(***************************************************************************)
(* Small instances of Tier1Pipeline for TLC.                               *)
(***************************************************************************)
EXTENDS Tier1Pipeline, TLC

CONSTANTS j1, j2

\* One job was served, the other challenged: both signs of a correction.
MCTier0Of == (j1 :> "allow") @@ (j2 :> "challenge")

MCSymmetry == Permutations(Workers)
=============================================================================

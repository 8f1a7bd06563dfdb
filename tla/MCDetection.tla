---------------------------- MODULE MCDetection ----------------------------
(***************************************************************************)
(* A small instance of Detection: two learners, four requests, a minute of *)
(* two seconds, so that requests are recorded late and leave the windows.  *)
(***************************************************************************)
EXTENDS Detection, TLC

MCSymmetry == Permutations(Learners)
=============================================================================

---------------------------- MODULE MCWafAdmin ----------------------------
(***************************************************************************)
(* A small instance of WafAdmin: an owner and a guest, two names, two      *)
(* account calls in flight, two dashboards saving, and bounds on how many  *)
(* account calls, configuration changes and crashes there are.             *)
(***************************************************************************)
EXTENDS WafAdmin, TLC, Integers

CONSTANTS MaxCalls, MaxChanges, MaxCrashes

VARIABLE spent

MCSymmetry == Permutations(Editors) \cup Permutations(Calls) \cup Permutations(Names)
                \cup Permutations(JWTSecrets) \cup Permutations(People) \cup Permutations(Keys)

Spend(what, max) == spent[what] < max /\ spent' = [spent EXCEPT ![what] = @ + 1]

\* A provisioned file is one that differs from the defaults.
MCInit ==
  /\ AdminInit
  /\ cfgFile # NoFile => cfgFile.tuning # Default /\ cfgFile.trust # BuiltIn
  /\ spent = [calls |-> 0, changes |-> 0, crashes |-> 0]

MCNext ==
  \/ ChangeConfig /\ Spend("changes", MaxChanges)
  \/ ContinueSave /\ UNCHANGED spent
  \/ /\ \E c \in Calls, p \in People, n \in Names : SetupCheck(c, p, n) \/ CreateCheck(c, p, n)
     /\ UNCHANGED configVars
     /\ Spend("calls", MaxCalls)
  \/ /\ \/ \E c \in Calls : CreateAdmin(c) \/ WriteStore(c)
        \/ \E p \in People : Login(p)
        \/ \E s \in sessions : Expire(s)
     /\ UNCHANGED configVars
     /\ UNCHANGED spent
  \/ Crash /\ Spend("crashes", MaxCrashes)
  \/ Restart /\ UNCHANGED spent

MCSpec == MCInit /\ [][MCNext]_<<adminVars, spent>>
=============================================================================

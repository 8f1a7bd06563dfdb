--------------------------- MODULE WafAdminProofs ---------------------------
(***************************************************************************)
(* Proofs about WafAdmin for any number of editors, calls, people, names   *)
(* and secrets.  Whoever can have a session under the present secret is in *)
(* admitted: its account, its call or its cookie got there through a check *)
(* (StoreInv).  The composition keeps it and the configuration's invariant *)
(* (WafConfigProofs), as it implements both.                               *)
(***************************************************************************)
EXTENDS WafAdmin, WafConfigProofs

-----------------------------------------------------------------------------
(* The accounts.                                                           *)

StoreTypeOK ==
  /\ running \in BOOLEAN
  /\ store \in Store
  /\ file \in Store \cup {Torn}
  /\ call \in [Calls -> Call \cup {NoCall}]
  /\ sessions \subseteq [person : People, key : Keys]
  /\ admitted \subseteq People
  /\ kept \subseteq Names \X People

\* Every way to a session was let in: the accounts in memory and in the file,
\* the calls under way, and the cookies that pass the check.
AllAreAdmitted ==
  /\ \A n \in Names : store.owner[n] # Nobody => store.owner[n] \in admitted
  /\ file # Torn =>
       /\ file.key = store.key
       /\ \A n \in Names : file.owner[n] # Nobody => file.owner[n] \in admitted
  /\ \A c \in Calls : call[c] # NoCall => running /\ call[c].person \in admitted
  /\ \A s \in sessions : s.key = store.key => s.person \in admitted

\* What was answered "success", or is about to be, is in memory.
KeptIsInMemory ==
  /\ running => \A a \in kept : store.owner[a[1]] = a[2]
  /\ \A c \in Calls : call[c] # NoCall /\ call[c].step = "writing" =>
       store.owner[call[c].name] = call[c].person

StoreInv == StoreTypeOK /\ AllAreAdmitted /\ KeptIsInMemory /\ AckedAccountsAreStored

LEMMA StoreInitIsSafe ==
  ASSUME StoreAssumption, StoreInit
  PROVE  StoreInv
<1>1. NoAccounts \in [Names -> People \cup {Nobody}]
  BY DEF NoAccounts
<1>2. StoreTypeOK
  BY <1>1 DEF StoreInit, StoreTypeOK, Store
<1>3. AllAreAdmitted
  BY DEF StoreInit, AllAreAdmitted, NoAccounts
<1>4. KeptIsInMemory /\ AckedAccountsAreStored
  BY DEF StoreInit, KeptIsInMemory, AckedAccountsAreStored
<1> QED
  BY <1>2, <1>3, <1>4 DEF StoreInv

\* A setup or create request that passed its check.
LEMMA CheckIsSafe ==
  ASSUME StoreAssumption, StoreInv, NEW c \in Calls, NEW p \in People, NEW n \in Names,
         NEW by \in {"setup", "create"}, running,
         call' = [call EXCEPT ![c] = [step |-> "checked", by |-> by, name |-> n, person |-> p]],
         admitted' = admitted \cup {p},
         UNCHANGED <<running, store, file, sessions, kept>>
  PROVE  StoreInv'
<1> USE DEF StoreInv
<1>1. StoreTypeOK'
  BY DEF StoreTypeOK, Call
<1>2. \A d \in Calls : d # c => call'[d] = call[d]
  BY DEF StoreTypeOK
<1>3. call'[c] = [step |-> "checked", by |-> by, name |-> n, person |-> p]
  BY DEF StoreTypeOK
<1>4. AllAreAdmitted'
  BY <1>2, <1>3 DEF AllAreAdmitted
<1>5. KeptIsInMemory' /\ AckedAccountsAreStored'
  BY <1>2, <1>3 DEF KeptIsInMemory, AckedAccountsAreStored
<1> QED
  BY <1>1, <1>4, <1>5

LEMMA CreateAdminIsSafe ==
  ASSUME StoreAssumption, StoreInv, NEW c \in Calls, CreateAdmin(c)
  PROVE  StoreInv'
<1> USE DEF StoreInv
<1>1. /\ call[c] # NoCall /\ call[c].step = "checked"
      /\ UNCHANGED <<running, sessions, admitted, kept>>
  BY DEF CreateAdmin
<1>2. call[c] \in Call
  BY <1>1 DEF StoreTypeOK
<1>3. running /\ call[c].person \in admitted
  BY <1>1 DEF AllAreAdmitted
<1>4. CASE Ends(c) /\ UNCHANGED <<store, file>>
  <2>1. /\ call' = [call EXCEPT ![c] = NoCall] /\ call'[c] = NoCall
        /\ \A d \in Calls : d # c => call'[d] = call[d]
    BY <1>4 DEF Ends, StoreTypeOK
  <2>2. StoreTypeOK' /\ AllAreAdmitted'
    BY <1>1, <1>4, <2>1 DEF StoreTypeOK, AllAreAdmitted
  <2>3. KeptIsInMemory' /\ AckedAccountsAreStored'
    BY <1>1, <1>4, <2>1 DEF KeptIsInMemory, AckedAccountsAreStored
  <2> QED
    BY <2>2, <2>3
<1>5. CASE /\ call[c].name \notin Accounts(store)
           /\ store' = [store EXCEPT !.owner[call[c].name] = call[c].person]
           /\ \/ file' = Torn /\ call' = [call EXCEPT ![c].step = "writing"]
              \/ UNCHANGED file /\ Ends(c)
  <2> DEFINE nm == call[c].name
             pr == call[c].person
  <2>1. nm \in Names /\ pr \in People
    BY <1>2 DEF Call
  <2>2. store.owner[nm] = Nobody
    BY <1>5, <2>1 DEF Accounts
  <2>3. /\ store' \in Store /\ store'.key = store.key
        /\ store'.owner[nm] = pr
        /\ \A n \in Names : n # nm => store'.owner[n] = store.owner[n]
    BY <1>5, <2>1 DEF StoreTypeOK, Store
  <2>4. \A d \in Calls : d # c => call'[d] = call[d]
    BY <1>5 DEF StoreTypeOK, Ends
  <2>5. \/ file' = Torn /\ call'[c] = [call[c] EXCEPT !.step = "writing"]
        \/ file' = file /\ call'[c] = NoCall
    BY <1>5 DEF StoreTypeOK, Ends
  <2>6. call' \in [Calls -> Call \cup {NoCall}]
    <3>1. [call[c] EXCEPT !.step = "writing"] \in Call
      BY <1>2 DEF Call
    <3> QED
      BY <1>5, <3>1 DEF StoreTypeOK, Ends
  <2>7. call'[c] # NoCall => call'[c].person = pr /\ call'[c].name = nm
    BY <1>2, <2>5 DEF Call
  <2> HIDE DEF nm, pr
  <2>8. StoreTypeOK'
    BY <1>1, <2>3, <2>5, <2>6 DEF StoreTypeOK
  <2>9. AllAreAdmitted'
    <3>1. \A n \in Names : store'.owner[n] # Nobody => store'.owner[n] \in admitted
      BY <1>3, <2>3 DEF AllAreAdmitted, pr
    <3> QED
      BY <1>1, <1>3, <2>3, <2>4, <2>5, <2>7, <3>1 DEF AllAreAdmitted, pr
  <2>10. KeptIsInMemory'
    <3>1. \A a \in kept : a[1] \in Names /\ a[2] \in People
      BY DEF StoreTypeOK
    <3>2. \A a \in kept : a[1] # nm
      BY <1>3, <2>2, <3>1 DEF KeptIsInMemory, StoreAssumption
    <3>3. \A d \in Calls : d # c /\ call[d] # NoCall /\ call[d].step = "writing" =>
            call[d].name # nm /\ call[d].name \in Names
      <4> TAKE d \in Calls
      <4> HAVE d # c /\ call[d] # NoCall /\ call[d].step = "writing"
      <4>1. call[d] \in Call /\ store.owner[call[d].name] = call[d].person
        BY DEF KeptIsInMemory, StoreTypeOK
      <4>2. call[d].person # Nobody /\ call[d].name \in Names
        BY <4>1 DEF Call, StoreAssumption
      <4> QED
        BY <2>2, <4>1, <4>2
    <3> QED
      BY <1>1, <1>3, <2>3, <2>4, <2>7, <3>1, <3>2, <3>3 DEF KeptIsInMemory
  <2>11. AckedAccountsAreStored'
    BY <1>1, <2>5 DEF AckedAccountsAreStored
  <2> QED
    BY <2>8, <2>9, <2>10, <2>11
<1> QED
  BY <1>4, <1>5 DEF CreateAdmin

LEMMA WriteStoreIsSafe ==
  ASSUME StoreAssumption, StoreInv, NEW c \in Calls, WriteStore(c)
  PROVE  StoreInv'
<1> USE DEF StoreInv
<1>1. /\ call[c] # NoCall /\ call[c].step = "writing"
      /\ call' = [call EXCEPT ![c] = NoCall]
      /\ UNCHANGED <<running, store, admitted>>
  BY DEF WriteStore, Ends
<1>2. call[c] \in Call /\ call[c].name \in Names /\ call[c].person \in People
  BY <1>1 DEF StoreTypeOK, Call
<1>3. running /\ call[c].person \in admitted /\ store.owner[call[c].name] = call[c].person
  BY <1>1 DEF AllAreAdmitted, KeptIsInMemory
<1>4. call'[c] = NoCall /\ \A d \in Calls : d # c => call'[d] = call[d]
  BY <1>1 DEF StoreTypeOK
<1>5. CASE UNCHANGED <<file, kept, sessions>>
  <2>1. StoreTypeOK' /\ AllAreAdmitted'
    BY <1>1, <1>4, <1>5 DEF StoreTypeOK, AllAreAdmitted
  <2>2. KeptIsInMemory' /\ AckedAccountsAreStored'
    BY <1>1, <1>4, <1>5 DEF KeptIsInMemory, AckedAccountsAreStored
  <2> QED
    BY <2>1, <2>2
<1>6. CASE /\ file' = store
           /\ kept' = kept \cup {<<call[c].name, call[c].person>>}
           /\ sessions' = IF call[c].by = "setup"
                          THEN sessions \cup {[person |-> call[c].person, key |-> store.key]}
                          ELSE sessions
  <2>1. \A s \in sessions' : s \in sessions \/ s = [person |-> call[c].person, key |-> store.key]
    BY <1>6
  <2>2. StoreTypeOK'
    BY <1>1, <1>2, <1>6, <2>1 DEF StoreTypeOK, Store
  <2>3. AllAreAdmitted'
    BY <1>1, <1>3, <1>4, <1>6, <2>1 DEF AllAreAdmitted
  <2>4. KeptIsInMemory'
    BY <1>1, <1>3, <1>4, <1>6 DEF KeptIsInMemory
  <2>5. AckedAccountsAreStored'
    BY <1>1, <1>3, <1>6 DEF KeptIsInMemory, AckedAccountsAreStored
  <2> QED
    BY <2>2, <2>3, <2>4, <2>5
<1> QED
  BY <1>5, <1>6 DEF WriteStore

LEMMA LoginIsSafe ==
  ASSUME StoreAssumption, StoreInv, NEW p \in People, Login(p)
  PROVE  StoreInv'
<1> USE DEF StoreInv
<1>1. PICK n \in Names : store.owner[n] = p
  BY DEF Login
<1>2. p \in admitted
  BY <1>1 DEF AllAreAdmitted, StoreAssumption
<1>3. StoreTypeOK'
  BY DEF Login, StoreTypeOK, Store
<1>4. AllAreAdmitted'
  BY <1>2 DEF Login, AllAreAdmitted
<1>5. KeptIsInMemory' /\ AckedAccountsAreStored'
  BY DEF Login, KeptIsInMemory, AckedAccountsAreStored
<1> QED
  BY <1>3, <1>4, <1>5

LEMMA CrashStoreIsSafe ==
  ASSUME StoreAssumption, StoreInv, CrashStore
  PROVE  StoreInv'
<1> USE DEF StoreInv
<1>1. StoreTypeOK' /\ AllAreAdmitted'
  BY DEF CrashStore, StoreTypeOK, AllAreAdmitted
<1>2. KeptIsInMemory' /\ AckedAccountsAreStored'
  BY DEF CrashStore, KeptIsInMemory, AckedAccountsAreStored
<1> QED
  BY <1>1, <1>2

\* The file still holds what was answered, or nobody is anybody any more.
LEMMA RestartStoreIsSafe ==
  ASSUME StoreAssumption, StoreInv, RestartStore
  PROVE  StoreInv'
<1> USE DEF StoreInv
<1>1. ~running /\ running' = TRUE /\ UNCHANGED <<call, sessions>>
  BY DEF RestartStore
<1>2. \A c \in Calls : call[c] = NoCall
  BY <1>1 DEF AllAreAdmitted
<1>3. CASE file \in Store /\ store' = file /\ UNCHANGED <<file, admitted, kept>>
  <2>1. file # Torn
    BY <1>3 DEF StoreAssumption, Store
  <2>2. StoreTypeOK' /\ AllAreAdmitted'
    BY <1>1, <1>2, <1>3, <2>1 DEF StoreTypeOK, AllAreAdmitted
  <2>3. KeptIsInMemory' /\ AckedAccountsAreStored'
    BY <1>1, <1>2, <1>3, <2>1 DEF KeptIsInMemory, AckedAccountsAreStored
  <2> QED
    BY <2>2, <2>3
<1>4. CASE /\ file \notin Store
           /\ \E k \in Keys : Fresh(k) /\ store' = [key |-> k, owner |-> NoAccounts]
           /\ file' = store' /\ admitted' = {} /\ kept' = {}
  <2>1. PICK k \in Keys : Fresh(k) /\ store' = [key |-> k, owner |-> NoAccounts]
    BY <1>4
  <2>2. StoreTypeOK'
    BY <1>1, <1>4, <2>1 DEF StoreTypeOK, Store, NoAccounts
  <2>3. AllAreAdmitted'
    BY <1>1, <1>2, <1>4, <2>1 DEF AllAreAdmitted, NoAccounts, Fresh
  <2>4. KeptIsInMemory' /\ AckedAccountsAreStored'
    BY <1>1, <1>2, <1>4 DEF KeptIsInMemory, AckedAccountsAreStored
  <2> QED
    BY <2>2, <2>3, <2>4
<1> QED
  BY <1>3, <1>4 DEF RestartStore

LEMMA StoreNextIsSafe ==
  ASSUME StoreAssumption, StoreInv, [StoreNext]_storeVars
  PROVE  StoreInv'
<1>1. CASE \E c \in Calls, p \in People, n \in Names : SetupCheck(c, p, n) \/ CreateCheck(c, p, n)
  BY <1>1, CheckIsSafe DEF SetupCheck, CreateCheck
<1>2. CASE \E c \in Calls : CreateAdmin(c) \/ WriteStore(c)
  BY <1>2, CreateAdminIsSafe, WriteStoreIsSafe
<1>3. CASE \E p \in People : Login(p)
  BY <1>3, LoginIsSafe
<1>4. CASE \E s \in sessions : Expire(s)
  BY <1>4 DEF Expire, StoreInv, StoreTypeOK, AllAreAdmitted, KeptIsInMemory, AckedAccountsAreStored
<1>5. CASE CrashStore \/ RestartStore
  BY <1>5, CrashStoreIsSafe, RestartStoreIsSafe
<1>6. CASE UNCHANGED storeVars
  BY <1>6 DEF storeVars, StoreInv, StoreTypeOK, AllAreAdmitted, KeptIsInMemory,
     AckedAccountsAreStored
<1> QED
  BY <1>1, <1>2, <1>3, <1>4, <1>5, <1>6 DEF StoreNext

\* While the process lives an account keeps its password.
LEMMA StepTakesNothingOver ==
  ASSUME StoreAssumption, StoreInv, [StoreNext]_storeVars, running, running',
         NEW n \in Names, store.owner[n] # Nobody
  PROVE  store'.owner[n] = store.owner[n]
<1>1. CASE \E c \in Calls : CreateAdmin(c)
  <2> PICK c \in Calls : CreateAdmin(c)
    BY <1>1
  <2>1. CASE store' = store
    BY <2>1
  <2>2. CASE /\ call[c].name \notin Accounts(store)
             /\ store' = [store EXCEPT !.owner[call[c].name] = call[c].person]
    <3>1. n # call[c].name
      BY <2>2 DEF Accounts
    <3> QED
      BY <2>2, <3>1 DEF StoreInv, StoreTypeOK, Store
  <2> QED
    BY <2>1, <2>2 DEF CreateAdmin
<1>2. CASE UNCHANGED store
  BY <1>2
<1> QED
  BY <1>1, <1>2 DEF StoreNext, SetupCheck, CreateCheck, WriteStore, Login, Expire, CrashStore,
     RestartStore, storeVars

-----------------------------------------------------------------------------
(* The admin server.                                                       *)

\* A step of the server is one of the configuration, one of the accounts, or
\* one of both.
LEMMA AdminStepsAreSteps ==
  ASSUME [AdminNext]_adminVars
  PROVE  [ConfigNext]_configVars /\ [StoreNext]_storeVars
<1>1. CASE ChangeConfig
  BY <1>1 DEF ChangeConfig, ConfigNext
<1>2. CASE ContinueSave
  BY <1>2 DEF ContinueSave, ConfigNext
<1>3. CASE ManageAccounts
  BY <1>3 DEF ManageAccounts, StoreNext
<1>4. CASE Crash
  BY <1>4 DEF Crash, ConfigNext, StoreNext
<1>5. CASE Restart
  BY <1>5 DEF Restart, ConfigNext, StoreNext
<1>6. CASE UNCHANGED adminVars
  BY <1>6 DEF adminVars
<1> QED
  BY <1>1, <1>2, <1>3, <1>4, <1>5, <1>6 DEF AdminNext

\* The admin server implements the configuration and the account store: none of
\* its interleavings does what SaveWafConfig or the store alone could not.
THEOREM AdminImplementsBoth == AdminSpec => ConfigSpec /\ StoreSpec
<1>1. AdminInit => ConfigInit /\ StoreInit
  BY DEF AdminInit
<1>2. [AdminNext]_adminVars => [ConfigNext]_configVars /\ [StoreNext]_storeVars
  BY AdminStepsAreSteps
<1> QED
  BY <1>1, <1>2, PTL DEF AdminSpec, ConfigSpec, StoreSpec

\* Everyone on the way to a session was let in, through torn files and restarts.
THEOREM StoreIsSafe == ASSUME StoreAssumption PROVE StoreSpec => []StoreInv
<1>1. StoreInit => StoreInv
  BY StoreInitIsSafe
<1>2. StoreInv /\ [StoreNext]_storeVars => StoreInv'
  BY StoreNextIsSafe
<1> QED
  BY <1>1, <1>2, PTL DEF StoreSpec

\* At most one save holds ConfigMu, and every part of the state has its type.
THEOREM ConfigTypes == ASSUME ConfigAssumption PROVE AdminSpec => []ConfigTypeOK
<1>1. ConfigInv => ConfigTypeOK
  BY DEF ConfigInv
<1> QED
  BY <1>1, AdminImplementsBoth, ConfigIsSafe, PTL

\* Between saves the trust engine, the proxy and a restart have one configuration.
THEOREM SettledSavesAgree == ASSUME ConfigAssumption PROVE AdminSpec => []SettledConfigAgrees
<1>1. ConfigInv => SettledConfigAgrees
  BY ConfigInvSettles
<1> QED
  BY <1>1, AdminImplementsBoth, ConfigIsSafe, PTL

\* A configuration answered "success" survives failed saves and crashes.
THEOREM SuccessIsStored == ASSUME ConfigAssumption PROVE AdminSpec => []AckedConfigIsStored
<1>1. ConfigInv => AckedConfigIsStored
  BY DEF ConfigInv
<1> QED
  BY <1>1, AdminImplementsBoth, ConfigIsSafe, PTL

\* A cookie that passes validateSession belongs to somebody who was let in.
THEOREM SessionsAreAdmitted ==
  ASSUME StoreAssumption PROVE AdminSpec => []OnlyAdmittedHoldSessions
<1>1. StoreInv => OnlyAdmittedHoldSessions
  BY DEF StoreInv, AllAreAdmitted, OnlyAdmittedHoldSessions, Valid
<1> QED
  BY <1>1, AdminImplementsBoth, StoreIsSafe, PTL

\* An account answered "success" is in every admins.json that parses.
THEOREM AccountsAreStored ==
  ASSUME StoreAssumption PROVE AdminSpec => []AckedAccountsAreStored
<1>1. StoreInv => AckedAccountsAreStored
  BY DEF StoreInv
<1> QED
  BY <1>1, AdminImplementsBoth, StoreIsSafe, PTL

\* No setup or create takes an existing account over.
THEOREM AccountsAreNotTakenOver == ASSUME StoreAssumption PROVE AdminSpec => NoTakeover
<1>1. StoreInv /\ [StoreNext]_storeVars =>
        [running /\ running' =>
          \A n \in Names : store.owner[n] # Nobody => store'.owner[n] = store.owner[n]]_storeVars
  BY StepTakesNothingOver
<1> QED
  BY <1>1, AdminImplementsBoth, StoreIsSafe, PTL DEF StoreSpec, NoTakeover
=============================================================================

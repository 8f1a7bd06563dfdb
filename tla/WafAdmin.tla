------------------------------ MODULE WafAdmin ------------------------------
(***************************************************************************)
(* The admin API server: the configuration endpoints behind the session    *)
(* check of the account store, in one process.  secureApiMiddleware looks  *)
(* at the cookie when the request comes in; the save it lets through goes  *)
(* on whatever happens to the account or the cookie.                       *)
(***************************************************************************)
EXTENDS WafConfig, AdminStore

adminVars == <<configVars, storeVars>>

AdminInit == ConfigInit /\ StoreInit

\* A change of the configuration by somebody with a session.
ChangeConfig ==
  /\ \E p \in People : HasSession(p)
  /\ ~StoreLocked
  /\ \/ \E e \in Editors, c \in Config : Fetch(e, c)
     \/ \E e \in Editors, s \in JWTSecrets : Reset(e, s)
  /\ UNCHANGED storeVars

ContinueSave == (\E e \in Editors : SaveStep(e)) /\ UNCHANGED storeVars

ManageAccounts ==
  /\ \/ \E c \in Calls, p \in People, n \in Names : SetupCheck(c, p, n) \/ CreateCheck(c, p, n)
     \/ \E c \in Calls : CreateAdmin(c) \/ WriteStore(c)
     \/ \E p \in People : Login(p)
     \/ \E s \in sessions : Expire(s)
  /\ UNCHANGED configVars

Crash == CrashConfig /\ CrashStore

\* The admin server starts after the configuration was loaded.
Restart == RestartConfig /\ RestartStore

AdminNext == ChangeConfig \/ ContinueSave \/ ManageAccounts \/ Crash \/ Restart

AdminSpec == AdminInit /\ [][AdminNext]_adminVars
=============================================================================

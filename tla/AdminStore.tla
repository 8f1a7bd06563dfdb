----------------------------- MODULE AdminStore -----------------------------
(***************************************************************************)
(* The administrator accounts of admin.go: the store in memory, its file,  *)
(* and the session cookies signed with the store's secret.                 *)
(*                                                                         *)
(* The first account is created by an open setup endpoint that checks for  *)
(* an existing account and creates one under two separate locks; every     *)
(* other one by a request with a valid session.  os.WriteFile truncates    *)
(* the file and then fills it: a crash or a full disk in between leaves a  *)
(* file that does not parse, and loadAdminStore starts over from it.       *)
(***************************************************************************)
EXTENDS FiniteSets

CONSTANTS
  People,       \* who talks to the admin API
  Names,        \* user names
  Keys,         \* session secrets
  Calls,        \* setup and create requests
  Nobody,       \* a name without an account
  Torn,         \* the file was truncated and not filled
  NoCall        \* a call is not under way

StoreAssumption ==
  /\ Nobody \notin People
  /\ Torn \notin [key : Keys, owner : [Names -> People \cup {Nobody}]]

ASSUME StoreConstants == StoreAssumption

VARIABLES
  running,   \* the process runs
  store,     \* liveAdminStore: its secret, and who knows each password
  file,      \* admins.json
  call,      \* where each setup or create request is
  sessions,  \* the cookies in the hands of people
  admitted,  \* history: who was let in under the present secret
  kept       \* history: accounts answered "success" since then

storeVars == <<running, store, file, call, sessions, admitted, kept>>

Store == [key : Keys, owner : [Names -> People \cup {Nobody}]]

NoAccounts == [n \in Names |-> Nobody]

Accounts(s) == {n \in Names : s.owner[n] # Nobody}

\* A call of person p for name n: it passed the setup check, or the session
\* check (on behalf of an administrator), or holds adminMu to write the file.
Call == [step : {"checked", "writing"}, by : {"setup", "create"},
         name : Names, person : People]

\* adminMu is held in write mode.
StoreLocked == \E c \in Calls : call[c] # NoCall /\ call[c].step = "writing"

\* validateSession: the signature, never the account.
Valid(s) == s \in sessions /\ s.key = store.key

HasSession(p) == \E s \in sessions : s.person = p /\ Valid(s)

-----------------------------------------------------------------------------
StoreInit ==
  /\ running = TRUE
  /\ \E k \in Keys : store = [key |-> k, owner |-> NoAccounts]
  /\ file = store
  /\ call = [c \in Calls |-> NoCall]
  /\ sessions = {}
  /\ admitted = {}
  /\ kept = {}

\* /setup is open while there is no account.
SetupCheck(c, p, n) ==
  /\ running /\ ~StoreLocked
  /\ call[c] = NoCall
  /\ Accounts(store) = {}
  /\ call' = [call EXCEPT ![c] = [step |-> "checked", by |-> "setup", name |-> n, person |-> p]]
  /\ admitted' = admitted \cup {p}
  /\ UNCHANGED <<running, store, file, sessions, kept>>

\* /create behind secureApiMiddleware: an administrator makes an account for p.
CreateCheck(c, p, n) ==
  /\ running /\ ~StoreLocked
  /\ call[c] = NoCall
  /\ \E a \in People : HasSession(a)
  /\ call' = [call EXCEPT ![c] = [step |-> "checked", by |-> "create", name |-> n, person |-> p]]
  /\ admitted' = admitted \cup {p}
  /\ UNCHANGED <<running, store, file, sessions, kept>>

Ends(c) == call' = [call EXCEPT ![c] = NoCall]

\* (mutant: the name is not looked up under the lock)
CreateOver(c) ==
  /\ call[c] # NoCall /\ call[c].step = "checked"
  /\ ~StoreLocked
  /\ store' = [store EXCEPT !.owner[call[c].name] = call[c].person]
  /\ \/ file' = Torn /\ call' = [call EXCEPT ![c].step = "writing"]
     \/ UNCHANGED file /\ Ends(c)
  /\ UNCHANGED <<running, sessions, admitted, kept>>

\* (mutant: the error of saveAdminStoreLocked is dropped)
CreateUnsaved(c) ==
  /\ call[c] # NoCall /\ call[c].step = "checked"
  /\ ~StoreLocked
  /\ call[c].name \notin Accounts(store)
  /\ store' = [store EXCEPT !.owner[call[c].name] = call[c].person]
  /\ \/ file' = Torn /\ call' = [call EXCEPT ![c].step = "writing"] /\ UNCHANGED kept
     \/ /\ UNCHANGED file /\ Ends(c)
        /\ kept' = kept \cup {<<call[c].name, call[c].person>>}
  /\ UNCHANGED <<running, sessions, admitted>>

\* createAdmin up to the truncated file: it is refused (the name is taken, or
\* bcrypt does not take the password), or the account is in memory and the file
\* is opened, or could not be.
CreateAdmin(c) ==
  /\ call[c] # NoCall /\ call[c].step = "checked"
  /\ ~StoreLocked
  /\ \/ Ends(c) /\ UNCHANGED <<store, file>>
     \/ /\ call[c].name \notin Accounts(store)
        /\ store' = [store EXCEPT !.owner[call[c].name] = call[c].person]
        /\ \/ file' = Torn /\ call' = [call EXCEPT ![c].step = "writing"]
           \/ UNCHANGED file /\ Ends(c)
  /\ UNCHANGED <<running, sessions, admitted, kept>>

\* The rest of WriteFile.  A successful setup answers with a session cookie.
WriteStore(c) ==
  /\ call[c] # NoCall /\ call[c].step = "writing"
  /\ \/ /\ file' = store
        /\ kept' = kept \cup {<<call[c].name, call[c].person>>}
        /\ sessions' = IF call[c].by = "setup"
                       THEN sessions \cup {[person |-> call[c].person, key |-> store.key]}
                       ELSE sessions
     \/ UNCHANGED <<file, kept, sessions>>
  /\ Ends(c)
  /\ UNCHANGED <<running, store, admitted>>

\* /login with the right password.
Login(p) ==
  /\ running /\ ~StoreLocked
  /\ \E n \in Names : store.owner[n] = p
  /\ sessions' = sessions \cup {[person |-> p, key |-> store.key]}
  /\ UNCHANGED <<running, store, file, call, admitted, kept>>

\* A cookie reaches its 24 hours, or the user logs out.
Expire(s) ==
  /\ s \in sessions
  /\ sessions' = sessions \ {s}
  /\ UNCHANGED <<running, store, file, call, admitted, kept>>

CrashStore ==
  /\ running
  /\ running' = FALSE
  /\ call' = [c \in Calls |-> NoCall]
  /\ UNCHANGED <<store, file, sessions, admitted, kept>>

Fresh(k) == k # store.key /\ \A s \in sessions : s.key # k

\* (mutant: the accounts start over, the secret stays)
RestartStoreSameKey ==
  /\ ~running
  /\ running' = TRUE
  /\ \/ file \in Store /\ store' = file /\ UNCHANGED <<file, admitted, kept>>
     \/ /\ file \notin Store
        /\ store' = [store EXCEPT !.owner = NoAccounts]
        /\ file' = store'
        /\ admitted' = {}
        /\ kept' = {}
  /\ UNCHANGED <<call, sessions>>

\* loadAdminStore: the file, or a new secret that is saved at once.  (When that
\* fails the process ends again, and nothing has changed.)
RestartStore ==
  /\ ~running
  /\ running' = TRUE
  /\ \/ file \in Store /\ store' = file /\ UNCHANGED <<file, admitted, kept>>
     \/ /\ file \notin Store
        /\ \E k \in Keys : Fresh(k) /\ store' = [key |-> k, owner |-> NoAccounts]
        /\ file' = store'
        /\ admitted' = {}
        /\ kept' = {}
  /\ UNCHANGED <<call, sessions>>

StoreNext ==
  \/ \E c \in Calls, p \in People, n \in Names : SetupCheck(c, p, n) \/ CreateCheck(c, p, n)
  \/ \E c \in Calls : CreateAdmin(c) \/ WriteStore(c)
  \/ \E p \in People : Login(p)
  \/ \E s \in sessions : Expire(s)
  \/ CrashStore
  \/ RestartStore

StoreSpec == StoreInit /\ [][StoreNext]_storeVars

-----------------------------------------------------------------------------
(* Properties.                                                             *)

\* Nobody holds a cookie that passes validateSession but those who were let in
\* under the present secret: through a setup that found no account, or by an
\* administrator.  Two setups may race, an account may be lost on a torn file,
\* its cookie may outlive it: never does a stranger get in.
OnlyAdmittedHoldSessions ==
  running => \A s \in sessions : Valid(s) => s.person \in admitted

\* While its process lives an account keeps its password: a second setup in
\* flight, or a later create, for the same name is refused.
NoTakeover ==
  [][running /\ running' =>
       \A n \in Names : store.owner[n] # Nobody => store'.owner[n] = store.owner[n]]_storeVars

\* An account answered "success" is in the file, unless the file was torn by a
\* later write that a crash or a full disk cut short.
AckedAccountsAreStored ==
  file # Torn => \A a \in kept : file.owner[a[1]] = a[2]
=============================================================================

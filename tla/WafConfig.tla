----------------------------- MODULE WafConfig -----------------------------
(***************************************************************************)
(* The configuration of the WAF process: LiveConfig, which every handler   *)
(* reads, the file it is saved to, the JWT secret's own file, and the four *)
(* places a saved configuration is applied to (the trust engine, the       *)
(* proxy's threshold, its identity resolver, its Coraza engine).           *)
(*                                                                         *)
(* SaveWafConfig (config_manager.go) runs under ConfigMu and is one step   *)
(* per observable effect; its writer is a dashboard that fetches the whole *)
(* configuration, changes one control and posts it back (app.py).  Writing *)
(* the temporary file and renaming it may fail, and the process may crash  *)
(* between any two steps; a restart loads what the files hold.             *)
(*                                                                         *)
(* A configuration is four fields: the trust engine's thresholds, the JWT  *)
(* secret, whether Coraza is enabled, and a tuning that stands for all the *)
(* other controls.                                                         *)
(***************************************************************************)
EXTENDS FiniteSets

CONSTANTS
  Tunings,     \* settings of the other controls
  Default,     \* the tuning of defaultConfig
  Thresholds,  \* settings of the trust engine's thresholds
  BuiltIn,     \* the ones trustscore.DefaultConfig is compiled with
  JWTSecrets,  \* secrets an operator sets or the process generates
  Editors,     \* dashboard requests that change the configuration
  NoFile,      \* the file does not exist
  NoConfig,    \* an editor has none in hand
  EnvCorazaOff \* the environment has ENABLE_CORAZA=false

Config == [tuning : Tunings, trust : Thresholds, secret : JWTSecrets, coraza : BOOLEAN]

ConfigAssumption ==
  /\ Default \in Tunings
  /\ BuiltIn \in Thresholds
  /\ NoFile \notin Config \cup JWTSecrets
  /\ NoConfig \notin Config
  /\ EnvCorazaOff \in BOOLEAN

ASSUME ConfigConstants == ConfigAssumption

VARIABLES
  up,          \* the process runs
  live,        \* LiveConfig
  cfgFile,     \* waf_config.json
  secretFile,  \* .jwt_secret
  weights,     \* the tuning (user weights) the trust engine applies
  trust,       \* its thresholds: trustscore.DefaultConfig, which SetConfig replaces
  threshold,   \* the tuning the proxy applies
  resolver,    \* what the proxy's identity resolver was built from
  coraza,      \* the proxy has a Coraza engine
  save,        \* where each editor is
  edit,        \* the configuration it posts
  acked,       \* history: the one last answered "success", unless replaced since
  failed       \* history: a save has failed since

diskVars   == <<cfgFile, secretFile>>
partVars   == <<weights, trust, threshold, resolver, coraza>>
configVars == <<up, live, cfgFile, secretFile, weights, trust, threshold, resolver,
                coraza, save, edit, acked, failed>>

-----------------------------------------------------------------------------
SaveSteps == {"write", "rename", "weights", "threshold", "resolver", "coraza"}

\* ConfigMu is held.
Locked == \E e \in Editors : save[e] \in SaveSteps

Identity(c) == [tuning |-> c.tuning, secret |-> c.secret]

\* defaultConfig: the secret is that of .jwt_secret (read, or generated and
\* stored), the thresholds are those trustscore.GetConfig returns.
DefaultConfig(t, s) == [tuning |-> Default, trust |-> t, secret |-> s, coraza |-> TRUE]

\* loadOrGenerateJWTSecret.
SecretFor(s) == IF secretFile = NoFile THEN s \in JWTSecrets ELSE s = secretFile

\* What initCorazaWAF makes of a configuration: no engine when it is disabled
\* or its rules do not load.
CorazaFrom(c) == IF c.coraza THEN BOOLEAN ELSE {FALSE}

\* main applies the environment after the file was loaded.
Overridden(c) == [c EXCEPT !.coraza = @ /\ ~EnvCorazaOff]

\* LoadWafConfig and the wiring of main: everything is built from the file, or
\* from the defaults without one.
Boot ==
  \E s \in JWTSecrets, engine \in BOOLEAN :
    LET loaded == IF cfgFile = NoFile THEN DefaultConfig(BuiltIn, s) ELSE cfgFile
        c == Overridden(loaded)
    IN  /\ cfgFile = NoFile => SecretFor(s)
        /\ secretFile' = IF cfgFile = NoFile THEN s ELSE secretFile
        /\ engine \in CorazaFrom(c)
        /\ live' = c
        /\ weights' = c.tuning
        /\ trust' = c.trust
        /\ threshold' = c.tuning
        /\ resolver' = Identity(c)
        /\ coraza' = engine

-----------------------------------------------------------------------------
\* First start, with no file at all or with a provisioned waf_config.json.
ConfigInit ==
  /\ up = TRUE
  /\ cfgFile \in Config \cup {NoFile}
  /\ \E s \in JWTSecrets, engine \in BOOLEAN :
       LET c == Overridden(IF cfgFile = NoFile THEN DefaultConfig(BuiltIn, s) ELSE cfgFile)
       IN  /\ secretFile = IF cfgFile = NoFile THEN s ELSE NoFile
           /\ live = c
           /\ weights = c.tuning
           /\ trust = c.trust
           /\ threshold = c.tuning
           /\ resolver = Identity(c)
           /\ engine \in CorazaFrom(c)
           /\ coraza = engine
  /\ save = [e \in Editors |-> "idle"]
  /\ edit = [e \in Editors |-> NoConfig]
  /\ acked = NoConfig
  /\ failed = FALSE

Moves(e, from, to) == save[e] = from /\ save' = [save EXCEPT ![e] = to]

\* The dashboard gets LiveConfig and changes one control in its copy.
Fetch(e, c) ==
  /\ up
  /\ \/ \E t \in Tunings : c = [live EXCEPT !.tuning = t]
     \/ \E t \in Thresholds : c = [live EXCEPT !.trust = t]
     \/ \E s \in JWTSecrets : c = [live EXCEPT !.secret = s]
     \/ \E b \in BOOLEAN : c = [live EXCEPT !.coraza = b]
  /\ Moves(e, "idle", "post")
  /\ edit' = [edit EXCEPT ![e] = c]
  /\ UNCHANGED <<up, live, diskVars, partVars, acked, failed>>

\* "Reset to defaults": the handler makes a default configuration, then saves it.
Reset(e, s) ==
  /\ up
  /\ SecretFor(s)
  /\ secretFile' = s
  /\ Moves(e, "idle", "post")
  /\ edit' = [edit EXCEPT ![e] = DefaultConfig(trust, s)]
  /\ UNCHANGED <<up, live, cfgFile, partVars, acked, failed>>

\* (mutant: no mutual exclusion between two saves)
AssignUnlocked(e) ==
  /\ Moves(e, "post", "write")
  /\ live' = edit[e]
  /\ UNCHANGED <<up, diskVars, partVars, edit, acked, failed>>

\* ConfigMu is taken and LiveConfig assigned before anything is written.
Assign(e) ==
  /\ ~Locked
  /\ Moves(e, "post", "write")
  /\ live' = edit[e]
  /\ UNCHANGED <<up, diskVars, partVars, edit, acked, failed>>

\* The temporary file is written, or the save ends with status 500.
WriteTmp(e) ==
  /\ \/ Moves(e, "write", "rename") /\ UNCHANGED <<edit, failed>>
     \/ /\ Moves(e, "write", "idle")
        /\ edit' = [edit EXCEPT ![e] = NoConfig]
        /\ failed' = TRUE
  /\ UNCHANGED <<up, live, diskVars, partVars, acked>>

\* (mutant: the error of Rename is logged, not returned)
RenameOrGoOn(e) ==
  /\ Moves(e, "rename", "weights")
  /\ cfgFile' \in {live, cfgFile}
  /\ acked' = NoConfig
  /\ UNCHANGED <<up, live, secretFile, partVars, edit, failed>>

Rename(e) ==
  /\ \/ /\ Moves(e, "rename", "weights")
        /\ cfgFile' = live
        /\ acked' = NoConfig
        /\ UNCHANGED <<edit, failed>>
     \/ /\ Moves(e, "rename", "idle")
        /\ edit' = [edit EXCEPT ![e] = NoConfig]
        /\ failed' = TRUE
        /\ UNCHANGED <<cfgFile, acked>>
  /\ UNCHANGED <<up, live, secretFile, partVars>>

\* SetUserWeights and SetConfig.
ApplyWeights(e) ==
  /\ Moves(e, "weights", "threshold")
  /\ weights' = live.tuning
  /\ trust' = live.trust
  /\ UNCHANGED <<up, live, diskVars, threshold, resolver, coraza, edit, acked, failed>>

ApplyThreshold(e) ==
  /\ Moves(e, "threshold", "resolver")
  /\ threshold' = live.tuning
  /\ UNCHANGED <<up, live, diskVars, weights, trust, resolver, coraza, edit, acked, failed>>

ApplyResolver(e) ==
  /\ Moves(e, "resolver", "coraza")
  /\ resolver' = Identity(live)
  /\ UNCHANGED <<up, live, diskVars, weights, trust, threshold, coraza, edit, acked, failed>>

\* initCorazaWAF, after which the save is answered.
ApplyCoraza(e) ==
  /\ Moves(e, "coraza", "idle")
  /\ coraza' \in CorazaFrom(live)
  /\ edit' = [edit EXCEPT ![e] = NoConfig]
  /\ acked' = live
  /\ failed' = FALSE
  /\ UNCHANGED <<up, live, diskVars, weights, trust, threshold, resolver>>

SaveStep(e) ==
  \/ Assign(e) \/ WriteTmp(e) \/ Rename(e) \/ ApplyWeights(e)
  \/ ApplyThreshold(e) \/ ApplyResolver(e) \/ ApplyCoraza(e)

\* The process dies: what is in memory is gone.
CrashConfig ==
  /\ up
  /\ up' = FALSE
  /\ save' = [e \in Editors |-> "idle"]
  /\ edit' = [e \in Editors |-> NoConfig]
  /\ failed' = FALSE
  /\ UNCHANGED <<live, diskVars, partVars, acked>>

RestartConfig ==
  /\ ~up
  /\ up' = TRUE
  /\ Boot
  /\ UNCHANGED <<cfgFile, save, edit, acked, failed>>

ConfigNext ==
  \/ \E e \in Editors, c \in Config : Fetch(e, c)
  \/ \E e \in Editors, s \in JWTSecrets : Reset(e, s)
  \/ \E e \in Editors : SaveStep(e)
  \/ CrashConfig
  \/ RestartConfig

ConfigSpec == ConfigInit /\ [][ConfigNext]_configVars

-----------------------------------------------------------------------------
(* Properties.                                                             *)

ConfigTypeOK ==
  /\ up \in BOOLEAN /\ coraza \in BOOLEAN /\ failed \in BOOLEAN
  /\ live \in Config
  /\ cfgFile \in Config \cup {NoFile}
  /\ secretFile \in JWTSecrets \cup {NoFile}
  /\ cfgFile = NoFile => secretFile # NoFile
  /\ weights \in Tunings /\ threshold \in Tunings /\ trust \in Thresholds
  /\ resolver \in [tuning : Tunings, secret : JWTSecrets]
  /\ save \in [Editors -> {"idle", "post"} \cup SaveSteps]
  /\ edit \in [Editors -> Config \cup {NoConfig}]
  /\ acked \in Config \cup {NoConfig}
  /\ \A e \in Editors : save[e] = "idle" <=> edit[e] = NoConfig
  /\ \A d, e \in Editors : save[d] \in SaveSteps /\ save[e] \in SaveSteps => d = e

\* The configuration a restart would load.
Stored == IF cfgFile = NoFile THEN DefaultConfig(BuiltIn, secretFile) ELSE cfgFile

\* Between saves, whatever failed or crashed before, the four places a
\* configuration is applied to agree with each other and with what a restart
\* would load; only LiveConfig may be ahead of them, and only while the last
\* save is one that was answered with an error.
SettledConfigAgrees ==
  up /\ ~Locked =>
    /\ weights = Stored.tuning
    /\ trust = Stored.trust
    /\ threshold = Stored.tuning
    /\ resolver = Identity(Stored)
    /\ coraza => Stored.coraza
    /\ live \in {Stored, Overridden(Stored)} \/ failed

\* A configuration answered "success" is what the file holds until another save
\* replaces it: neither a failed save nor a crash brings back an older one.
AckedConfigIsStored == acked # NoConfig => cfgFile = acked
=============================================================================

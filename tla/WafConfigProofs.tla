--------------------------- MODULE WafConfigProofs ---------------------------
(***************************************************************************)
(* Proofs about WafConfig for any number of editors and settings.  A save  *)
(* that got past its rename has made the file what it is about to apply;   *)
(* what it has not applied yet does not matter, because only a crash can   *)
(* stop it there, and a restart applies the file (ConfigInv).              *)
(***************************************************************************)
EXTENDS WafConfig, TLAPS

-----------------------------------------------------------------------------
Applying == SaveSteps \ {"write", "rename"}

PartsAgree(c) ==
  /\ weights = c.tuning
  /\ trust = c.trust
  /\ threshold = c.tuning
  /\ resolver = Identity(c)
  /\ coraza => c.coraza

\* How far the save that holds ConfigMu has come.
SaveProgress ==
  /\ (\A e \in Editors : save[e] \notin Applying) /\ up => PartsAgree(Stored)
  /\ \A e \in Editors :
       /\ save[e] # "idle" => up
       /\ save[e] \in Applying => cfgFile = live
       /\ save[e] \in Applying \ {"weights"} => weights = live.tuning /\ trust = live.trust
       /\ save[e] \in {"resolver", "coraza"} => threshold = live.tuning
       /\ save[e] = "coraza" => resolver = Identity(live)

LiveIsExplained ==
  up /\ ~Locked => live \in {Stored, Overridden(Stored)} \/ failed

ConfigInv ==
  ConfigTypeOK /\ SaveProgress /\ LiveIsExplained /\ AckedConfigIsStored

LEMMA ConfigInitIsSafe ==
  ASSUME ConfigAssumption, ConfigInit
  PROVE  ConfigInv
<1>1. PICK s \in JWTSecrets, engine \in BOOLEAN :
        LET c == Overridden(IF cfgFile = NoFile THEN DefaultConfig(BuiltIn, s) ELSE cfgFile)
        IN  /\ secretFile = IF cfgFile = NoFile THEN s ELSE NoFile
            /\ live = c
            /\ weights = c.tuning
            /\ trust = c.trust
            /\ threshold = c.tuning
            /\ resolver = Identity(c)
            /\ engine \in CorazaFrom(c)
            /\ coraza = engine
  BY DEF ConfigInit
<1> DEFINE loaded == IF cfgFile = NoFile THEN DefaultConfig(BuiltIn, s) ELSE cfgFile
<1>2. loaded \in Config /\ Overridden(loaded) \in Config
  BY DEF ConfigInit, DefaultConfig, Overridden, Config, ConfigAssumption
<1>3. loaded = Stored
  BY <1>1 DEF Stored
<1>4. ConfigTypeOK
  BY <1>1, <1>2 DEF ConfigTypeOK, ConfigInit, Identity, Config, SaveSteps, ConfigAssumption
<1>5. PartsAgree(Stored)
  BY <1>1, <1>2, <1>3 DEF PartsAgree, Overridden, Identity, CorazaFrom, Config
<1>6. SaveProgress
  BY <1>5 DEF SaveProgress, ConfigInit, SaveSteps, Applying
<1>7. LiveIsExplained
  BY <1>1, <1>3 DEF LiveIsExplained
<1>8. AckedConfigIsStored
  BY DEF AckedConfigIsStored, ConfigInit
<1> QED
  BY <1>4, <1>6, <1>7, <1>8 DEF ConfigInv

LEMMA FetchIsSafe ==
  ASSUME ConfigAssumption, ConfigInv, NEW e \in Editors, NEW c \in Config, Fetch(e, c)
  PROVE  ConfigInv'
<1> USE DEF ConfigInv
<1>1. /\ UNCHANGED <<up, live, diskVars, partVars, acked, failed>>
      /\ save[e] = "idle" /\ save' = [save EXCEPT ![e] = "post"]
      /\ edit' = [edit EXCEPT ![e] = c]
  BY DEF Fetch, Moves
<1>2. ConfigTypeOK'
  BY <1>1 DEF ConfigTypeOK, diskVars, partVars, SaveSteps, ConfigAssumption
<1>3. \A d \in Editors : save'[d] \in SaveSteps <=> save[d] \in SaveSteps
  BY <1>1 DEF ConfigTypeOK, SaveSteps
<1>4. \A d \in Editors : save'[d] \in SaveSteps => save'[d] = save[d]
  BY <1>1 DEF ConfigTypeOK, SaveSteps
<1>5. Stored' = Stored /\ (Locked' <=> Locked)
  BY <1>1, <1>3 DEF Stored, DefaultConfig, diskVars, Locked
<1> up
  BY DEF Fetch
<1>6. SaveProgress'
  BY <1>1, <1>3, <1>4, <1>5 DEF SaveProgress, PartsAgree, diskVars, partVars, Applying, SaveSteps
<1>7. LiveIsExplained' /\ AckedConfigIsStored'
  BY <1>1, <1>5 DEF LiveIsExplained, AckedConfigIsStored, diskVars
<1> QED
  BY <1>2, <1>6, <1>7

LEMMA ResetIsSafe ==
  ASSUME ConfigAssumption, ConfigInv, NEW e \in Editors, NEW s \in JWTSecrets, Reset(e, s)
  PROVE  ConfigInv'
<1> USE DEF ConfigInv
<1>1. /\ UNCHANGED <<up, live, cfgFile, partVars, acked, failed>>
      /\ save[e] = "idle" /\ save' = [save EXCEPT ![e] = "post"]
      /\ edit' = [edit EXCEPT ![e] = DefaultConfig(trust, s)]
      /\ secretFile' = s
      /\ secretFile # NoFile => secretFile = s
  BY DEF Reset, Moves, SecretFor
<1>2. DefaultConfig(trust, s) \in Config
  BY DEF DefaultConfig, Config, ConfigAssumption, ConfigTypeOK
<1>3. ConfigTypeOK'
  BY <1>1, <1>2 DEF ConfigTypeOK, partVars, SaveSteps, ConfigAssumption
<1>4. \A d \in Editors : /\ save'[d] \in SaveSteps <=> save[d] \in SaveSteps
                         /\ save'[d] \in SaveSteps => save'[d] = save[d]
  BY <1>1 DEF ConfigTypeOK, SaveSteps
<1>5. Stored' = Stored /\ (Locked' <=> Locked)
  BY <1>1, <1>4 DEF Stored, Locked, ConfigTypeOK
<1> up
  BY DEF Reset
<1>6. SaveProgress'
  BY <1>1, <1>4, <1>5 DEF SaveProgress, PartsAgree, partVars, Applying, SaveSteps
<1>7. LiveIsExplained' /\ AckedConfigIsStored'
  BY <1>1, <1>5 DEF LiveIsExplained, AckedConfigIsStored
<1> QED
  BY <1>3, <1>6, <1>7

LEMMA AssignIsSafe ==
  ASSUME ConfigAssumption, ConfigInv, NEW e \in Editors, Assign(e)
  PROVE  ConfigInv'
<1> USE DEF ConfigInv
<1>1. /\ UNCHANGED <<up, diskVars, partVars, edit, acked, failed>>
      /\ ~Locked
      /\ save[e] = "post" /\ save' = [save EXCEPT ![e] = "write"]
      /\ live' = edit[e]
  BY DEF Assign, Moves
<1>2. edit[e] \in Config
  BY <1>1 DEF ConfigTypeOK
<1>3. \A d \in Editors : save[d] \notin SaveSteps /\ (d # e => save'[d] \notin SaveSteps)
  BY <1>1 DEF Locked, ConfigTypeOK
<1>4. save'[e] = "write"
  BY <1>1 DEF ConfigTypeOK
<1>5. ConfigTypeOK'
  BY <1>1, <1>2, <1>3 DEF ConfigTypeOK, diskVars, partVars, SaveSteps
<1>6. up
  BY <1>1 DEF SaveProgress
<1>7. Stored' = Stored
  BY <1>1 DEF Stored, DefaultConfig, diskVars
<1>8. PartsAgree(Stored)
  BY <1>3, <1>6 DEF SaveProgress, Applying
<1>9. SaveProgress'
  BY <1>1, <1>3, <1>4, <1>6, <1>7, <1>8
     DEF SaveProgress, PartsAgree, partVars, Applying, SaveSteps
<1>10. Locked'
  BY <1>4 DEF Locked, SaveSteps
<1>11. LiveIsExplained' /\ AckedConfigIsStored'
  BY <1>1, <1>10 DEF LiveIsExplained, AckedConfigIsStored, diskVars
<1> QED
  BY <1>5, <1>9, <1>11

LEMMA WriteTmpIsSafe ==
  ASSUME ConfigAssumption, ConfigInv, NEW e \in Editors, WriteTmp(e)
  PROVE  ConfigInv'
<1> USE DEF ConfigInv
<1>1. /\ UNCHANGED <<up, live, diskVars, partVars, acked>>
      /\ save[e] = "write"
  BY DEF WriteTmp, Moves
<1>2. Stored' = Stored
  BY <1>1 DEF Stored, DefaultConfig, diskVars
<1>3. up /\ Locked
  BY <1>1 DEF SaveProgress, Locked, SaveSteps
<1>4. \A d \in Editors : d # e => save[d] \notin SaveSteps
  BY <1>1 DEF ConfigTypeOK, SaveSteps
<1>5. PartsAgree(Stored)
  BY <1>1, <1>3, <1>4 DEF SaveProgress, Applying, SaveSteps
<1>6. AckedConfigIsStored'
  BY <1>1 DEF AckedConfigIsStored, diskVars
<1>7. CASE Moves(e, "write", "rename") /\ UNCHANGED <<edit, failed>>
  <2>1. /\ save' = [save EXCEPT ![e] = "rename"]
        /\ save'[e] = "rename"
        /\ \A d \in Editors : d # e => save'[d] = save[d]
    BY <1>7 DEF Moves, ConfigTypeOK
  <2>2. ConfigTypeOK'
    BY <1>1, <1>4, <1>7, <2>1 DEF ConfigTypeOK, diskVars, partVars, SaveSteps
  <2>3. SaveProgress'
    BY <1>1, <1>2, <1>3, <1>4, <1>5, <2>1
       DEF SaveProgress, PartsAgree, partVars, Applying, SaveSteps
  <2>4. Locked'
    BY <2>1 DEF Locked, SaveSteps
  <2> QED
    BY <1>6, <2>2, <2>3, <2>4 DEF LiveIsExplained
<1>8. CASE /\ Moves(e, "write", "idle")
           /\ edit' = [edit EXCEPT ![e] = NoConfig]
           /\ failed' = TRUE
  <2>1. /\ save' = [save EXCEPT ![e] = "idle"]
        /\ save'[e] = "idle"
        /\ \A d \in Editors : d # e => save'[d] = save[d]
    BY <1>8 DEF Moves, ConfigTypeOK
  <2>2. ConfigTypeOK'
    BY <1>1, <1>4, <1>8, <2>1 DEF ConfigTypeOK, diskVars, partVars, SaveSteps
  <2>3. SaveProgress'
    BY <1>1, <1>2, <1>3, <1>4, <1>5, <2>1
       DEF SaveProgress, PartsAgree, partVars, Applying, SaveSteps
  <2> QED
    BY <1>6, <1>8, <2>2, <2>3 DEF LiveIsExplained
<1> QED
  BY <1>7, <1>8 DEF WriteTmp

LEMMA RenameIsSafe ==
  ASSUME ConfigAssumption, ConfigInv, NEW e \in Editors, Rename(e)
  PROVE  ConfigInv'
<1> USE DEF ConfigInv
<1>1. /\ UNCHANGED <<up, live, secretFile, partVars>>
      /\ save[e] = "rename"
  BY DEF Rename, Moves
<1>2. up /\ Locked
  BY <1>1 DEF SaveProgress, Locked, SaveSteps
<1>3. \A d \in Editors : d # e => save[d] \notin SaveSteps
  BY <1>1 DEF ConfigTypeOK, SaveSteps
<1>4. PartsAgree(Stored)
  BY <1>1, <1>2, <1>3 DEF SaveProgress, Applying, SaveSteps
<1>5. CASE /\ Moves(e, "rename", "weights")
           /\ cfgFile' = live
           /\ acked' = NoConfig
           /\ UNCHANGED <<edit, failed>>
  <2>1. /\ save' = [save EXCEPT ![e] = "weights"]
        /\ save'[e] = "weights"
        /\ \A d \in Editors : d # e => save'[d] = save[d]
    BY <1>5 DEF Moves, ConfigTypeOK
  <2>2. ConfigTypeOK'
    BY <1>1, <1>3, <1>5, <2>1 DEF ConfigTypeOK, partVars, SaveSteps, ConfigAssumption
  <2>3. SaveProgress'
    BY <1>1, <1>2, <1>3, <1>5, <2>1
       DEF SaveProgress, Applying, SaveSteps
  <2>4. Locked'
    BY <2>1 DEF Locked, SaveSteps
  <2> QED
    BY <1>5, <2>2, <2>3, <2>4 DEF LiveIsExplained, AckedConfigIsStored
<1>6. CASE /\ Moves(e, "rename", "idle")
           /\ edit' = [edit EXCEPT ![e] = NoConfig]
           /\ failed' = TRUE
           /\ UNCHANGED <<cfgFile, acked>>
  <2>1. /\ save' = [save EXCEPT ![e] = "idle"]
        /\ save'[e] = "idle"
        /\ \A d \in Editors : d # e => save'[d] = save[d]
    BY <1>6 DEF Moves, ConfigTypeOK
  <2>2. ConfigTypeOK'
    BY <1>1, <1>3, <1>6, <2>1 DEF ConfigTypeOK, partVars, SaveSteps
  <2>3. Stored' = Stored
    BY <1>1, <1>6 DEF Stored, DefaultConfig
  <2>4. SaveProgress'
    BY <1>1, <1>2, <1>3, <1>4, <2>1, <2>3
       DEF SaveProgress, PartsAgree, partVars, Applying, SaveSteps
  <2> QED
    BY <1>6, <2>2, <2>4 DEF LiveIsExplained, AckedConfigIsStored
<1> QED
  BY <1>5, <1>6 DEF Rename

\* A step of a save that applies the configuration to one more place.
LEMMA ApplyingKeepsTheLock ==
  ASSUME ConfigAssumption, ConfigInv, NEW e \in Editors,
         NEW from \in Applying, NEW to \in Applying, Moves(e, from, to),
         UNCHANGED <<up, live, diskVars, coraza, edit, acked, failed>>,
         weights' \in Tunings, trust' \in Thresholds, threshold' \in Tunings,
         resolver' \in [tuning : Tunings, secret : JWTSecrets]
  PROVE  /\ ConfigTypeOK' /\ LiveIsExplained' /\ AckedConfigIsStored'
         /\ up' /\ cfgFile' = live' /\ save'[e] = to
         /\ \A d \in Editors : d # e => save'[d] \notin SaveSteps /\ save'[d] = save[d]
<1> USE DEF ConfigInv
<1>1. save[e] = from /\ from \in SaveSteps /\ to \in SaveSteps /\ to # "idle" /\ to # "post"
  BY DEF Moves, Applying, SaveSteps
<1>2. \A d \in Editors : d # e => save[d] \notin SaveSteps /\ save'[d] = save[d]
  BY <1>1 DEF Moves, ConfigTypeOK
<1>3. save'[e] = to
  BY DEF Moves, ConfigTypeOK
<1>4. up /\ cfgFile = live
  BY <1>1 DEF SaveProgress, SaveSteps
<1>5. Locked'
  BY <1>1, <1>3 DEF Locked
<1>6. edit[e] # NoConfig
  BY <1>1 DEF ConfigTypeOK, SaveSteps
<1>7. save' \in [Editors -> {"idle", "post"} \cup SaveSteps]
  BY <1>1 DEF Moves, ConfigTypeOK
<1>8. ConfigTypeOK'
  BY <1>1, <1>2, <1>3, <1>6, <1>7 DEF ConfigTypeOK, diskVars
<1> QED
  BY <1>2, <1>3, <1>4, <1>5, <1>8 DEF LiveIsExplained, AckedConfigIsStored, diskVars

LEMMA ApplyWeightsIsSafe ==
  ASSUME ConfigAssumption, ConfigInv, NEW e \in Editors, ApplyWeights(e)
  PROVE  ConfigInv'
<1>1. /\ Moves(e, "weights", "threshold") /\ weights' = live.tuning /\ trust' = live.trust
      /\ UNCHANGED <<up, live, diskVars, threshold, resolver, coraza, edit, acked, failed>>
  BY DEF ApplyWeights
<1>2. weights' \in Tunings /\ trust' \in Thresholds /\ threshold' \in Tunings
      /\ resolver' \in [tuning : Tunings, secret : JWTSecrets]
  BY <1>1 DEF ConfigInv, ConfigTypeOK, Config
<1>3. "weights" \in Applying /\ "threshold" \in Applying
  BY DEF Applying, SaveSteps
<1>4. /\ ConfigTypeOK' /\ LiveIsExplained' /\ AckedConfigIsStored'
      /\ up' /\ cfgFile' = live' /\ save'[e] = "threshold"
      /\ \A d \in Editors : d # e => save'[d] \notin SaveSteps /\ save'[d] = save[d]
  BY <1>1, <1>2, <1>3, ApplyingKeepsTheLock
<1>5. SaveProgress'
  BY <1>1, <1>4 DEF SaveProgress, Applying, SaveSteps
<1> QED
  BY <1>4, <1>5 DEF ConfigInv

LEMMA ApplyThresholdIsSafe ==
  ASSUME ConfigAssumption, ConfigInv, NEW e \in Editors, ApplyThreshold(e)
  PROVE  ConfigInv'
<1>1. /\ Moves(e, "threshold", "resolver") /\ threshold' = live.tuning
      /\ UNCHANGED <<up, live, diskVars, weights, trust, resolver, coraza, edit, acked, failed>>
  BY DEF ApplyThreshold
<1>2. weights' \in Tunings /\ trust' \in Thresholds /\ threshold' \in Tunings
      /\ resolver' \in [tuning : Tunings, secret : JWTSecrets]
  BY <1>1 DEF ConfigInv, ConfigTypeOK, Config
<1>3. "threshold" \in Applying /\ "resolver" \in Applying
  BY DEF Applying, SaveSteps
<1>4. /\ ConfigTypeOK' /\ LiveIsExplained' /\ AckedConfigIsStored'
      /\ up' /\ cfgFile' = live' /\ save'[e] = "resolver"
      /\ \A d \in Editors : d # e => save'[d] \notin SaveSteps /\ save'[d] = save[d]
  BY <1>1, <1>2, <1>3, ApplyingKeepsTheLock
<1>5. weights = live.tuning /\ trust = live.trust
  BY <1>1, <1>3 DEF ConfigInv, SaveProgress, Moves
<1>6. SaveProgress'
  BY <1>1, <1>4, <1>5 DEF SaveProgress, Applying, SaveSteps
<1> QED
  BY <1>4, <1>6 DEF ConfigInv

LEMMA ApplyResolverIsSafe ==
  ASSUME ConfigAssumption, ConfigInv, NEW e \in Editors, ApplyResolver(e)
  PROVE  ConfigInv'
<1>1. /\ Moves(e, "resolver", "coraza") /\ resolver' = Identity(live)
      /\ UNCHANGED <<up, live, diskVars, weights, trust, threshold, coraza, edit, acked, failed>>
  BY DEF ApplyResolver
<1>2. weights' \in Tunings /\ trust' \in Thresholds /\ threshold' \in Tunings
      /\ resolver' \in [tuning : Tunings, secret : JWTSecrets]
  BY <1>1 DEF ConfigInv, ConfigTypeOK, Config, Identity
<1>3. "resolver" \in Applying /\ "coraza" \in Applying
  BY DEF Applying, SaveSteps
<1>4. /\ ConfigTypeOK' /\ LiveIsExplained' /\ AckedConfigIsStored'
      /\ up' /\ cfgFile' = live' /\ save'[e] = "coraza"
      /\ \A d \in Editors : d # e => save'[d] \notin SaveSteps /\ save'[d] = save[d]
  BY <1>1, <1>2, <1>3, ApplyingKeepsTheLock
<1>5. weights = live.tuning /\ trust = live.trust /\ threshold = live.tuning
  BY <1>1, <1>3 DEF ConfigInv, SaveProgress, Moves
<1>6. resolver' = Identity(live)'
  BY <1>1 DEF Identity
<1>7. SaveProgress'
  BY <1>1, <1>4, <1>5, <1>6 DEF SaveProgress, Applying, SaveSteps
<1> QED
  BY <1>4, <1>7 DEF ConfigInv

LEMMA ApplyCorazaIsSafe ==
  ASSUME ConfigAssumption, ConfigInv, NEW e \in Editors, ApplyCoraza(e)
  PROVE  ConfigInv'
<1> USE DEF ConfigInv
<1>1. /\ save[e] = "coraza" /\ save' = [save EXCEPT ![e] = "idle"]
      /\ coraza' \in CorazaFrom(live)
      /\ edit' = [edit EXCEPT ![e] = NoConfig]
      /\ acked' = live /\ failed' = FALSE
      /\ UNCHANGED <<up, live, diskVars, weights, trust, threshold, resolver>>
  BY DEF ApplyCoraza, Moves
<1>2. /\ cfgFile = live
      /\ weights = live.tuning /\ trust = live.trust /\ threshold = live.tuning /\ resolver = Identity(live)
  BY <1>1 DEF SaveProgress, Applying, SaveSteps
<1>3. coraza' \in BOOLEAN /\ (coraza' => live.coraza)
  BY <1>1 DEF CorazaFrom
<1>4. \A d \in Editors : d # e => save[d] \notin SaveSteps /\ save'[d] = save[d]
  BY <1>1 DEF ConfigTypeOK, SaveSteps
<1>5. save'[e] = "idle"
  BY <1>1 DEF ConfigTypeOK
<1>6. ConfigTypeOK'
  BY <1>1, <1>3, <1>4, <1>5 DEF ConfigTypeOK, diskVars, SaveSteps
<1>7. cfgFile # NoFile
  BY <1>2 DEF ConfigTypeOK, ConfigAssumption
<1>8. Stored' = live
  BY <1>1, <1>2, <1>7 DEF Stored, diskVars
<1>9. PartsAgree(Stored)'
  BY <1>1, <1>2, <1>3, <1>8 DEF PartsAgree, Identity
<1>10. SaveProgress'
  BY <1>1, <1>4, <1>5, <1>9 DEF SaveProgress, Applying, SaveSteps
<1>11. LiveIsExplained' /\ AckedConfigIsStored'
  BY <1>1, <1>2, <1>8 DEF LiveIsExplained, AckedConfigIsStored, diskVars
<1> QED
  BY <1>6, <1>10, <1>11

LEMMA CrashConfigIsSafe ==
  ASSUME ConfigAssumption, ConfigInv, CrashConfig
  PROVE  ConfigInv'
<1> USE DEF ConfigInv
<1>1. ConfigTypeOK'
  BY DEF CrashConfig, ConfigTypeOK, diskVars, partVars, SaveSteps
<1>2. SaveProgress' /\ LiveIsExplained'
  BY DEF CrashConfig, SaveProgress, LiveIsExplained, Applying, SaveSteps
<1>3. AckedConfigIsStored'
  BY DEF CrashConfig, AckedConfigIsStored, diskVars
<1> QED
  BY <1>1, <1>2, <1>3

\* Only a running process has a save under way.
LEMMA RestartConfigIsSafe ==
  ASSUME ConfigAssumption, ConfigInv, RestartConfig
  PROVE  ConfigInv'
<1> USE DEF ConfigInv
<1>1. /\ ~up /\ up' = TRUE
      /\ UNCHANGED <<cfgFile, save, edit, acked, failed>>
  BY DEF RestartConfig
<1>2. \A e \in Editors : save[e] = "idle"
  BY <1>1 DEF SaveProgress
<1>3. PICK s \in JWTSecrets, engine \in BOOLEAN :
        LET loaded == IF cfgFile = NoFile THEN DefaultConfig(BuiltIn, s) ELSE cfgFile
            c == Overridden(loaded)
        IN  /\ cfgFile = NoFile => SecretFor(s)
            /\ secretFile' = IF cfgFile = NoFile THEN s ELSE secretFile
            /\ engine \in CorazaFrom(c)
            /\ live' = c
            /\ weights' = c.tuning
            /\ trust' = c.trust
            /\ threshold' = c.tuning
            /\ resolver' = Identity(c)
            /\ coraza' = engine
  BY DEF RestartConfig, Boot
<1> DEFINE loaded == IF cfgFile = NoFile THEN DefaultConfig(BuiltIn, s) ELSE cfgFile
<1>4. loaded \in Config /\ Overridden(loaded) \in Config
  BY DEF ConfigTypeOK, DefaultConfig, Overridden, Config, ConfigAssumption
<1>5. loaded = Stored'
  BY <1>1, <1>3 DEF Stored, DefaultConfig
<1>6. ConfigTypeOK'
  BY <1>1, <1>3, <1>4 DEF ConfigTypeOK, Identity, Config, CorazaFrom, ConfigAssumption
<1>7. PartsAgree(Stored)'
  BY <1>3, <1>4, <1>5 DEF PartsAgree, Overridden, Identity, CorazaFrom, Config
<1>8. SaveProgress'
  BY <1>1, <1>2, <1>7 DEF SaveProgress, Applying, SaveSteps
<1>9. LiveIsExplained'
  BY <1>3, <1>5 DEF LiveIsExplained, Overridden
<1>10. AckedConfigIsStored'
  BY <1>1 DEF AckedConfigIsStored
<1> QED
  BY <1>6, <1>8, <1>9, <1>10

LEMMA ConfigStutters ==
  ASSUME ConfigInv, UNCHANGED configVars
  PROVE  ConfigInv'
BY DEF ConfigInv, configVars, ConfigTypeOK, SaveProgress, LiveIsExplained, AckedConfigIsStored,
       PartsAgree, Stored, DefaultConfig, Overridden, Identity, Locked, diskVars, partVars

LEMMA ConfigNextIsSafe ==
  ASSUME ConfigAssumption, ConfigInv, [ConfigNext]_configVars
  PROVE  ConfigInv'
<1>1. CASE \E e \in Editors, c \in Config : Fetch(e, c)
  BY <1>1, FetchIsSafe
<1>2. CASE \E e \in Editors, s \in JWTSecrets : Reset(e, s)
  BY <1>2, ResetIsSafe
<1>3. CASE \E e \in Editors : SaveStep(e)
  BY <1>3, AssignIsSafe, WriteTmpIsSafe, RenameIsSafe, ApplyWeightsIsSafe, ApplyThresholdIsSafe,
     ApplyResolverIsSafe, ApplyCorazaIsSafe DEF SaveStep
<1>4. CASE CrashConfig
  BY <1>4, CrashConfigIsSafe
<1>5. CASE RestartConfig
  BY <1>5, RestartConfigIsSafe
<1>6. CASE UNCHANGED configVars
  BY <1>6, ConfigStutters
<1> QED
  BY <1>1, <1>2, <1>3, <1>4, <1>5, <1>6 DEF ConfigNext

\* The places a configuration is applied to agree while no save holds ConfigMu.
LEMMA ConfigInvSettles ==
  ASSUME ConfigInv
  PROVE  SettledConfigAgrees
<1> SUFFICES ASSUME up, ~Locked
             PROVE  /\ PartsAgree(Stored)
                    /\ live \in {Stored, Overridden(Stored)} \/ failed
  BY DEF SettledConfigAgrees, PartsAgree
<1>1. \A e \in Editors : save[e] \notin Applying
  BY DEF Locked, Applying
<1> QED
  BY <1>1 DEF ConfigInv, SaveProgress, LiveIsExplained

\* The save protocol keeps its invariant through failed writes and crashes.
THEOREM ConfigIsSafe == ASSUME ConfigAssumption PROVE ConfigSpec => []ConfigInv
<1>1. ConfigInit => ConfigInv
  BY ConfigInitIsSafe
<1>2. ConfigInv /\ [ConfigNext]_configVars => ConfigInv'
  BY ConfigNextIsSafe
<1> QED
  BY <1>1, <1>2, PTL DEF ConfigSpec
=============================================================================

------------------------ MODULE ConsoleDeployProofs ------------------------
(***************************************************************************)
(* Proofs about ConsoleDeploy for any number of runs and faults: types, what*)
(* a script that ended well or failed leaves, and that the console survives.*)
(***************************************************************************)
EXTENDS ConsoleDeploy, TLAPS

Editors == {"gfx", "resize"}

LEMMA IniSettings ==
    ASSUME NEW c \in Ini, NEW s \in Editors
    PROVE  /\ [c EXCEPT ![s] = TRUE] \in Ini
           /\ [c EXCEPT ![s] = TRUE][s]
           /\ c[s] \in BOOLEAN
           /\ \A t \in Editors : t # s => [c EXCEPT ![s] = TRUE][t] = c[t]
<1>1. CASE s = "gfx"
  BY <1>1 DEF Ini, Editors
<1>2. CASE s = "resize"
  BY <1>2 DEF Ini, Editors
<1> QED
  BY <1>1, <1>2 DEF Editors

LEMMA IniGlued ==
    ASSUME NEW c \in Ini
    PROVE  /\ [c EXCEPT !.tail = "newline", !.glued = TRUE] \in Ini
           /\ \A t \in Editors : [c EXCEPT !.tail = "newline", !.glued = TRUE][t] = c[t]
BY DEF Ini, Editors

\* Only the settings and the drop-in make a change.
LEMMA SameChanges ==
    ASSUME NEW c, NEW d, NEW e, \A t \in Editors : c[t] = d[t]
    PROVE  Changes(c, e) = Changes(d, e)
BY DEF Changes, Editors

LEMMA ScriptIsEditor ==
    ASSUME script \in Script, script # "daemon" PROVE script \in Editors
BY ScriptsAreKnown DEF Editors

\* Which script is at which command.
Placed ==
    /\ pc \in {"idle", "check", "backup", "edit", "validate", "reload", "restart",
               "restore", "reload again", "restart again"}
    /\ script \in Script \cup {"none"}
    /\ pc # "idle" => script \in Script
    /\ pc \in {"reload", "reload again"} => script = "daemon"
    /\ pc = "validate" => script # "daemon"

LEMMA PlacedInductive == Placed /\ [Next]_vars => Placed'
<1> SUFFICES ASSUME Placed, [Next]_vars PROVE Placed'
  OBVIOUS
<1> USE DEF Placed, Goto, End, runVars
<1>1. CASE Start
  BY <1>1 DEF Start
<1>2. CASE CheckNotMade \/ CheckMade
  BY <1>2 DEF CheckNotMade, CheckMade
<1>3. CASE CheckMadeInactive
  BY <1>3 DEF CheckMadeInactive
<1>4. CASE Backup \/ EditFails \/ EditIni
  BY <1>4 DEF Backup, EditFails, EditIni
<1>5. CASE Validate
  BY <1>5 DEF Validate
<1>6. CASE EditDropIn \/ Reload \/ ReloadAgain \/ ReloadAgainFails
  BY <1>6 DEF EditDropIn, Reload, ReloadAgain, ReloadAgainFails
<1>7. CASE Restart \/ RestartAgain
  BY <1>7 DEF Restart, RestartAgain
<1>8. CASE Restore
  BY <1>8 DEF Restore
<1>9. CASE KillScript
  BY <1>9 DEF KillScript
<1>10. CASE ServiceDies \/ UNCHANGED vars
  BY <1>10 DEF ServiceDies, vars
<1> QED
  BY <1>1, <1>2, <1>3, <1>4, <1>5, <1>6, <1>7, <1>8, <1>9, <1>10 DEF Next, Command

\* The files, what was started with them, and what is known to break it.
Stored ==
    /\ ini \in Ini /\ dropin \in DropIn /\ loaded \in DropIn
    /\ service \in [active : BOOLEAN, ini : Ini, dropin : DropIn]
    /\ backup \in [ini : Ini, dropin : DropIn]
    /\ fatal \subseteq {"gfx", "resize", "daemon"} /\ late \in BOOLEAN

LEMMA StoredInductive == Placed /\ Stored /\ [Next]_vars => Stored'
<1> SUFFICES ASSUME Placed, Stored, [Next]_vars PROVE Stored'
  OBVIOUS
<1> USE DEF Stored, Goto, End, fileVars, hostVars, runVars
<1>1. CASE \/ Start \/ CheckNotMade \/ CheckMade \/ EditFails \/ Validate \/ KillScript
           \/ ReloadAgainFails \/ UNCHANGED vars
  BY <1>1 DEF Start, CheckNotMade, CheckMade, EditFails, Validate, KillScript, ReloadAgainFails, vars
<1>2. CASE CheckMadeInactive \/ Restart \/ RestartAgain
  <2>1. \/ service' = service
        \/ \E active \in BOOLEAN : service' = [active |-> active, ini |-> ini, dropin |-> loaded]
    BY <1>2 DEF CheckMadeInactive, Restart, RestartAgain, RestartStays, RestartFails, Restarted
  <2>2. service' \in [active : BOOLEAN, ini : Ini, dropin : DropIn]
    BY <2>1
  <2>3. UNCHANGED <<ini, dropin, loaded, backup, fatal, late>>
    BY <1>2 DEF CheckMadeInactive, Restart, RestartAgain
  <2> QED
    BY <2>2, <2>3
<1>3. CASE Backup
  BY <1>3 DEF Backup
<1>4. CASE EditIni
  <2>1. script \in Editors
    BY <1>4, ScriptIsEditor DEF EditIni, Placed
  <2>2. ini' \in Ini
    BY <1>4, <2>1, IniSettings, IniGlued DEF EditIni
  <2> QED
    BY <1>4, <2>2 DEF EditIni
<1>5. CASE EditDropIn \/ Reload \/ ReloadAgain
  BY <1>5 DEF EditDropIn, Reload, ReloadAgain, DropIn
<1>6. CASE Restore
  BY <1>6 DEF Restore
<1>7. CASE ServiceDies
  BY <1>7 DEF ServiceDies
<1> QED
  BY <1>1, <1>2, <1>3, <1>4, <1>5, <1>6, <1>7 DEF Next, Command

Tallied == runs \in 0..MaxRuns /\ faults \in 0..MaxFaults

LEMMA TalliedInductive == Tallied /\ [Next]_vars => Tallied'
<1> SUFFICES ASSUME Tallied, [Next]_vars PROVE Tallied'
  OBVIOUS
<1>1. \/ runs' = runs /\ faults' = faults
      \/ runs < MaxRuns /\ runs' = runs + 1 /\ faults' = faults
      \/ faults < MaxFaults /\ runs' = runs /\ faults' = faults + 1
  BY DEF Next, Command, vars, runVars, Goto, End, Start, CheckNotMade, CheckMade, CheckMadeInactive,
     Backup, EditFails, EditIni, Validate, EditDropIn, Reload, Restart, Restore, ReloadAgain,
     ReloadAgainFails, RestartAgain, KillScript, ServiceDies
<1> QED
  BY <1>1, BoundsAreNat DEF Tallied

Concluded == last \in [script : Script \cup {"none"}, status : Status]

LEMMA ConcludedInductive == Placed /\ Concluded /\ [Next]_vars => Concluded'
<1> SUFFICES ASSUME Placed, Concluded, [Next]_vars PROVE Concluded'
  OBVIOUS
<1>1. \/ last' = last
      \/ /\ pc # "idle"
         /\ \E status \in {"done", "already", "failed", "aborted", "killed"} :
               last' = [script |-> script, status |-> status]
  BY DEF Next, Command, vars, runVars, Goto, End, Start, CheckNotMade, CheckMade, CheckMadeInactive,
     Backup, EditFails, EditIni, Validate, EditDropIn, Reload, Restart, Restore, ReloadAgain,
     ReloadAgainFails, RestartAgain, KillScript, ServiceDies
<1>2. ASSUME pc # "idle", NEW status \in Status PROVE
         [script |-> script, status |-> status] \in [script : Script \cup {"none"}, status : Status]
  BY <1>2 DEF Placed
<1>3. CASE last' = last
  BY <1>3 DEF Concluded
<1>4. CASE last' # last
  <2>1. PICK status \in Status : pc # "idle" /\ last' = [script |-> script, status |-> status]
    BY <1>1, <1>4 DEF Status
  <2> QED
    BY <1>2, <2>1 DEF Concluded
<1> QED
  BY <1>3, <1>4

Typed == Placed /\ Stored /\ Tallied /\ Concluded

LEMMA TypedAlways == Spec => []Typed
<1>1. ASSUME Init PROVE Typed
  <2>1. ini \in Ini
    BY <1>1 DEF Init, Ini
  <2>2. Stored
    BY <1>1, <2>1 DEF Init, Stored, DropIn
  <2>3. Placed /\ Concluded
    BY <1>1 DEF Init, Placed, Concluded, Status
  <2>4. Tallied
    BY <1>1, BoundsAreNat DEF Init, Tallied
  <2> QED
    BY <2>2, <2>3, <2>4 DEF Typed
<1>2. Typed /\ [Next]_vars => Typed'
  BY PlacedInductive, StoredInductive, TalliedInductive, ConcludedInductive DEF Typed
<1> QED
  BY <1>1, <1>2, PTL DEF Spec

\* The types, for any number of runs and faults.
THEOREM TypeCorrect == Spec => []TypeOK
<1>1. Typed => TypeOK
  BY DEF Typed, Placed, Stored, Tallied, Concluded, TypeOK
<1> QED
  BY <1>1, TypedAlways, PTL
-----------------------------------------------------------------------------
(* A script that ends well.                                                 *)

\* The change is in what the restart is going to start; a service that still
\* runs was started with nothing that breaks it, unless it breaks late.
InForceSoon ==
    /\ pc = "reload" => dropin = "optimized"
    /\ pc = "restart" => script \in Changes(ini, loaded)
    /\ ~ late /\ service.active => Healthy(service.ini, service.dropin)

LEMMA InForceSoonInductive == Typed /\ InForceSoon /\ [Next]_vars => InForceSoon'
<1> SUFFICES ASSUME Typed, InForceSoon, [Next]_vars PROVE InForceSoon'
  OBVIOUS
<1>f. fatal' = fatal => \A c, d : Healthy(c, d)' = Healthy(c, d)
  BY DEF Healthy
<1> USE <1>f DEF InForceSoon, Goto, End, fileVars, hostVars, runVars
<1>1. CASE \/ Start \/ CheckNotMade \/ CheckMade \/ Backup \/ EditFails \/ EditIni \/ EditDropIn
           \/ KillScript \/ Restore \/ ReloadAgain \/ ReloadAgainFails
  BY <1>1 DEF Start, CheckNotMade, CheckMade, Backup, EditFails, EditIni, EditDropIn, KillScript,
              Restore, ReloadAgain, ReloadAgainFails
<1>2. CASE Validate
  <2>1. script \in Editors
    BY <1>2, ScriptIsEditor DEF Validate, Typed, Placed
  <2> QED
    BY <1>2, <2>1 DEF Validate, Changes, Editors
<1>3. CASE Reload
  BY <1>3 DEF Reload, Typed, Placed, Changes
<1>4. CASE CheckMadeInactive \/ Restart \/ RestartAgain
  <2>1. pc' \notin {"reload", "restart"} /\ UNCHANGED <<late, fatal>>
    BY <1>4 DEF CheckMadeInactive, Restart, RestartAgain
  <2>2. \/ service' = service
        \/ /\ late \/ Healthy(ini, loaded)
           /\ service' = [active |-> TRUE, ini |-> ini, dropin |-> loaded]
        \/ service' = [active |-> FALSE, ini |-> ini, dropin |-> loaded]
    BY <1>4 DEF CheckMadeInactive, Restart, RestartAgain, RestartStays, RestartFails, Restarted
  <2>3. ~ late' /\ service'.active => Healthy(service'.ini, service'.dropin)
    BY <2>1, <2>2
  <2> QED
    BY <2>1, <2>3
<1>5. CASE ServiceDies
  BY <1>5 DEF ServiceDies, Typed, Stored
<1>6. CASE UNCHANGED vars
  BY <1>6 DEF vars
<1> QED
  BY <1>1, <1>2, <1>3, <1>4, <1>5, <1>6 DEF Next, Command

LEMMA DoneInductive ==
    Typed /\ InForceSoon /\ DoneMeansInForce /\ [Next]_vars => DoneMeansInForce'
<1> SUFFICES ASSUME Typed, InForceSoon, DoneMeansInForce, [Next]_vars PROVE DoneMeansInForce'
  OBVIOUS
<1> USE DEF DoneMeansInForce, InForce, Goto, End, fileVars, hostVars, runVars
<1>1. CASE \/ Start \/ CheckNotMade \/ CheckMade \/ Backup \/ EditFails \/ EditIni \/ Validate
           \/ EditDropIn \/ Reload \/ KillScript \/ Restore \/ ReloadAgain \/ ReloadAgainFails
  BY <1>1 DEF Start, CheckNotMade, CheckMade, Backup, EditFails, EditIni, Validate, EditDropIn,
              Reload, KillScript, Restore, ReloadAgain, ReloadAgainFails
<1>2. CASE CheckMadeInactive \/ RestartAgain
  <2>1. \E status \in {"already", "failed"} : last' = [script |-> script, status |-> status]
    BY <1>2 DEF CheckMadeInactive, RestartAgain
  <2> QED
    BY <2>1
<1>3. CASE Restart
  BY <1>3 DEF Restart, RestartStays, RestartFails, Restarted, InForceSoon
<1>4. CASE ServiceDies
  BY <1>4 DEF ServiceDies, InForceSoon
<1>5. CASE UNCHANGED vars
  BY <1>5 DEF vars
<1> QED
  BY <1>1, <1>2, <1>3, <1>4, <1>5 DEF Next, Command

LEMMA InForceSoonInitial == Init => InForceSoon /\ DoneMeansInForce
<1> SUFFICES ASSUME Init PROVE InForceSoon /\ DoneMeansInForce
  OBVIOUS
<1>1. service.ini = ini /\ service.dropin = dropin /\ dropin # "optimized" /\ ~ ini["gfx"] /\ ~ ini["resize"]
  BY DEF Init
<1>2. Changes(service.ini, service.dropin) = {}
  BY <1>1 DEF Changes
<1> QED
  BY <1>2 DEF Init, InForceSoon, DoneMeansInForce, Healthy

\* "done" is only said when xrdp runs with the change, for any number of runs
\* and scripts killed before.
THEOREM DoneCorrect == Spec => []DoneMeansInForce
BY InForceSoonInitial, InForceSoonInductive, DoneInductive, TypedAlways, PTL DEF Spec
-----------------------------------------------------------------------------
(* A script whose service did not stay active.                              *)

\* What is restored is free of the script's change and does not break xrdp.
BackupGood ==
    /\ script = "daemon" => backup.dropin # "optimized" /\ Healthy(ini, backup.dropin)
    /\ script # "daemon" => ~ backup.ini[script] /\ Healthy(backup.ini, loaded) /\ loaded = dropin

\* Between two runs everything on disk has been started and works; in a run the
\* backup stands in for what the script has changed.
Calm ==
    /\ pc \in {"idle", "check", "backup"} => Healthy(ini, loaded)
    /\ pc \in {"idle", "check", "backup", "edit", "validate"} => service.active
    /\ pc \in {"idle", "check", "backup", "edit", "restart", "restart again"} => loaded = dropin
    /\ pc = "backup" => ~ AlreadyMade
    /\ pc \notin {"idle", "check", "backup", "restart again"} => BackupGood
    /\ pc = "edit" /\ script # "daemon" => ini = backup.ini
    /\ pc = "validate" => \A s \in Editors : s # script => ini[s] = backup.ini[s]
    /\ pc = "reload again" => dropin = backup.dropin
    /\ pc = "restart again" => Healthy(ini, loaded) /\ script \notin Changes(ini, dropin)

CalmInv == faults = 0 /\ ~ late => Calm

LEMMA CalmInductive == Typed /\ InForceSoon /\ CalmInv /\ [Next]_vars => CalmInv'
<1> SUFFICES ASSUME Typed, InForceSoon, CalmInv, [Next]_vars, faults' = 0, ~ late' PROVE Calm'
  BY DEF CalmInv
<1>c. faults = 0 /\ ~ late /\ fatal' = fatal /\ Calm
  <2>1. faults = 0 \/ faults' = faults + 1
    BY DEF Next, Command, vars, runVars, Goto, End, Start, CheckNotMade, CheckMade,
       CheckMadeInactive, Backup, EditFails, EditIni, Validate, EditDropIn, Reload, Restart,
       Restore, ReloadAgain, ReloadAgainFails, RestartAgain, KillScript, ServiceDies
  <2>2. faults = 0
    BY <2>1 DEF Typed, Tallied
  <2>3. late' = late /\ fatal' = fatal
    BY DEF Next, Command, vars, hostVars, Start, CheckNotMade, CheckMade,
       CheckMadeInactive, Backup, EditFails, EditIni, Validate, EditDropIn, Reload, Restart,
       Restore, ReloadAgain, ReloadAgainFails, RestartAgain, KillScript, ServiceDies
  <2> QED
    BY <2>2, <2>3 DEF CalmInv
<1>f. \A c, d : Healthy(c, d)' = Healthy(c, d)
  BY <1>c DEF Healthy
<1>k. ~ ReloadAgainFails /\ ~ KillScript
  <2>1. ReloadAgainFails \/ KillScript => faults' = faults + 1
    BY DEF ReloadAgainFails, KillScript
  <2> QED
    BY <1>c, <2>1
<1>e. pc # "idle" /\ script # "daemon" => script \in Editors
  BY ScriptIsEditor DEF Typed, Placed
<1> USE <1>c, <1>f DEF Calm, Goto, End, fileVars, runVars
<1>1. CASE Start \/ CheckMade
  BY <1>1 DEF Start, CheckMade
<1>2. CASE CheckNotMade
  BY <1>2 DEF CheckNotMade, AlreadyMade
<1>3. CASE Backup
  <2>1. /\ script = "daemon" => backup'.dropin = dropin
        /\ script # "daemon" => backup'.ini = ini
    BY <1>3 DEF Backup, Typed, Stored
  <2> QED
    BY <1>3, <2>1 DEF Backup, AlreadyMade, BackupGood
<1>4. CASE EditFails
  BY <1>4 DEF EditFails, BackupGood
<1>5. CASE EditIni
  <2>1. \A s \in Editors : s # script => ini'[s] = ini[s]
    <3>1. script \in Editors /\ ini \in Ini
      BY <1>5, <1>e DEF EditIni, Typed, Stored
    <3>2. CASE Glues
      BY <1>5, <3>1, <3>2, IniGlued DEF EditIni
    <3>3. CASE ~ Glues
      <4>1. ini' = [ini EXCEPT ![script] = TRUE]
        BY <1>5, <3>3 DEF EditIni
      <4>2. \A s \in Editors : s # script => [ini EXCEPT ![script] = TRUE][s] = ini[s]
        BY <3>1, IniSettings
      <4> QED
        BY <4>1, <4>2
    <3> QED
      BY <3>2, <3>3
  <2> QED
    BY <1>5, <2>1 DEF EditIni, BackupGood
<1>6. CASE Validate
  <2>1. CASE ini[script]
    BY <1>6, <2>1 DEF Validate, BackupGood, Typed, Placed
  <2>2. CASE ~ ini[script]
    <3>1. script \in Editors /\ ini[script] = backup.ini[script]
      <4>1. script \in Editors /\ ini \in Ini /\ backup.ini \in Ini
        BY <1>6, <1>e DEF Validate, Typed, Placed, Stored
      <4>2. ini[script] \in BOOLEAN /\ backup.ini[script] \in BOOLEAN
        BY <4>1, IniSettings
      <4> QED
        <5>1. pc = "validate" /\ script # "daemon"
          BY <1>6, <4>1 DEF Validate, Editors
        <5>2. ~ backup.ini[script]
          BY <5>1 DEF BackupGood
        <5> QED
          BY ONLY <2>2, <4>1, <4>2, <5>2, Zenon
    <3>2. Changes(ini, loaded) = Changes(backup.ini, loaded)
      BY <1>6, <3>1, SameChanges DEF Validate
    <3>3. Healthy(ini, loaded) /\ loaded = dropin
      BY <1>6, <3>2 DEF Validate, BackupGood, Healthy, Typed, Placed
    <3> QED
      BY <1>6, <2>2, <3>3 DEF Validate
  <2> QED
    BY <2>1, <2>2
<1>7. CASE EditDropIn
  BY <1>7 DEF EditDropIn, BackupGood
<1>8. CASE Reload
  BY <1>8 DEF Reload, BackupGood, Typed, Placed
<1>9. CASE Restart
  <2>1. CASE RestartStays
    <3>1. service'.active /\ Healthy(ini, loaded)
      BY <2>1 DEF RestartStays, Restarted
    <3>2. CASE pc' = "idle"
      BY <1>9, <3>1, <3>2 DEF Restart
    <3>3. CASE pc' = "restore"
      BY <1>9, <3>1, <3>3 DEF Restart, RestartFails
    <3> QED
      BY <1>9, <3>2, <3>3 DEF Restart
  <2>2. CASE RestartFails
    <3>1. pc' = "restore" /\ UNCHANGED <<ini, dropin, loaded, script, backup>>
      BY <1>9, <2>2 DEF Restart, RestartStays, RestartFails
    <3> QED
      BY <1>9, <3>1 DEF Restart, BackupGood
  <2> QED
    BY <1>9, <2>1, <2>2 DEF Restart
<1>10. CASE Restore
  <2>1. CASE script = "daemon"
    BY <1>10, <2>1 DEF Restore, BackupGood
  <2>2. CASE script # "daemon"
    <3>1. script \notin Changes(backup.ini, dropin)
      BY <1>10, <2>2, <1>e DEF Restore, BackupGood, Changes, Editors
    <3> QED
      BY <1>10, <2>2, <3>1 DEF Restore, BackupGood
  <2> QED
    BY <2>1, <2>2
<1>11. CASE ReloadAgain
  BY <1>11 DEF ReloadAgain, BackupGood, Changes, Typed, Placed
<1>12. CASE RestartAgain
  <2>1. RestartStays
    BY <1>12 DEF RestartAgain, RestartFails
  <2>2. service'.active
    BY <2>1 DEF RestartStays, Restarted
  <2> QED
    BY <1>12, <2>2 DEF RestartAgain
<1>13. CASE CheckMadeInactive
  BY <1>13 DEF CheckMadeInactive
<1>15. CASE ServiceDies
  BY <1>15 DEF ServiceDies, InForceSoon
<1>16. CASE UNCHANGED vars
  BY <1>16 DEF vars, BackupGood, AlreadyMade
<1> QED
  BY <1>1, <1>2, <1>3, <1>4, <1>5, <1>6, <1>7, <1>8, <1>9, <1>10, <1>11, <1>12, <1>13, <1>k,
     <1>15, <1>16 DEF Next, Command

LEMMA UndoneInductive ==
    Typed /\ InForceSoon /\ CalmInv /\ FailedRunIsUndone /\ [Next]_vars => FailedRunIsUndone'
<1> SUFFICES ASSUME Typed, InForceSoon, CalmInv, FailedRunIsUndone, [Next]_vars
             PROVE  FailedRunIsUndone'
  OBVIOUS
<1> USE DEF FailedRunIsUndone, Goto, End, fileVars, hostVars, runVars
<1>1. CASE \/ Start \/ CheckNotMade \/ CheckMade \/ Backup \/ EditFails \/ EditIni \/ Validate
           \/ EditDropIn \/ Reload \/ KillScript \/ Restore \/ ReloadAgain \/ ReloadAgainFails
  BY <1>1 DEF Start, CheckNotMade, CheckMade, Backup, EditFails, EditIni, Validate, EditDropIn,
              Reload, KillScript, Restore, ReloadAgain, ReloadAgainFails
<1>2. CASE CheckMadeInactive
  BY <1>2 DEF CheckMadeInactive, CalmInv, Calm
<1>3. CASE RestartAgain
  <2>1. /\ UNCHANGED <<ini, dropin, loaded, fatal, late>>
        /\ last'.script = script /\ pc' = "idle" /\ faults' = faults
        /\ service'.ini = ini /\ service'.dropin = loaded
    <3>1. \E active \in BOOLEAN : service' = [active |-> active, ini |-> ini, dropin |-> loaded]
      BY <1>3 DEF RestartAgain, RestartStays, RestartFails, Restarted
    <3>2. service'.ini = ini /\ service'.dropin = loaded
      BY <3>1
    <3> QED
      BY <1>3, <3>2 DEF RestartAgain
  <2>2. faults = 0 /\ ~ late => loaded = dropin /\ script \notin Changes(ini, dropin)
    BY <1>3 DEF RestartAgain, CalmInv, Calm
  <2> QED
    BY <2>1, <2>2
<1>4. CASE Restart
  <2>1. pc' # "idle" \/ last'.status = "done"
    BY <1>4 DEF Restart
  <2> QED
    BY <2>1
<1>5. CASE ServiceDies
  <2>1. service'.ini = service.ini /\ service'.dropin = service.dropin
    BY <1>5 DEF ServiceDies, Typed, Stored
  <2> QED
    BY <1>5, <2>1 DEF ServiceDies
<1>6. CASE UNCHANGED vars
  BY <1>6 DEF vars
<1> QED
  BY <1>1, <1>2, <1>3, <1>4, <1>5, <1>6 DEF Next, Command

LEMMA CalmInitial == Init => CalmInv /\ FailedRunIsUndone
<1> SUFFICES ASSUME Init PROVE CalmInv /\ FailedRunIsUndone
  OBVIOUS
<1>1. loaded = dropin /\ dropin # "optimized" /\ ~ ini["gfx"] /\ ~ ini["resize"]
  BY DEF Init
<1>2. Changes(ini, loaded) = {}
  BY <1>1 DEF Changes
<1> QED
  BY <1>1, <1>2 DEF Init, CalmInv, Calm, FailedRunIsUndone, Healthy

LEMMA CalmAlways == Spec => [](CalmInv /\ FailedRunIsUndone)
BY TypedAlways, InForceSoonInitial, InForceSoonInductive, CalmInitial, CalmInductive,
   UndoneInductive, PTL DEF Spec

\* A failed script has undone its change on disk, in systemd and in the service,
\* for any number of runs in any order, as long as no script was killed.
THEOREM FailedCorrect == Spec => []FailedRunIsUndone
BY CalmAlways, PTL

\* No sequence of runs of any length takes the console down.
THEOREM ConsoleSurvives == Spec => []ServiceSurvives
<1>1. CalmInv => ServiceSurvives
  BY DEF CalmInv, Calm, ServiceSurvives
<1> QED
  BY <1>1, CalmAlways, PTL
=============================================================================

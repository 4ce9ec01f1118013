--------------------------- MODULE ConsoleDeploy ---------------------------
(***************************************************************************)
(* The three scripts that change the host's console service:                *)
(* scripts/fix-console-gfx-black-screen.sh ("gfx") and                      *)
(* scripts/fix-console-dynamic-resizing.sh ("resize") edit xrdp.ini,        *)
(* scripts/use-matched-xrdp-console-daemon.sh ("daemon") replaces a systemd *)
(* drop-in.  Each looks whether its change is made already, keeps a backup, *)
(* makes the change, restarts xrdp and puts the backup back if the service  *)
(* is not active.  An operator runs them one after the other; any of them   *)
(* may be killed between two commands, and may then be run again.           *)
(***************************************************************************)
EXTENDS Naturals

CONSTANTS
    Script,         \* the scripts the operator may run
    MaxRuns,        \* bound: scripts started
    MaxFaults       \* bound: scripts killed and reloads of a restored drop-in failing

ASSUME ScriptsAreKnown == Script \subseteq {"gfx", "resize", "daemon"}
ASSUME BoundsAreNat == MaxRuns \in Nat /\ MaxFaults \in Nat

VARIABLES
    ini,        \* /etc/xrdp/xrdp.ini
    dropin,     \* the drop-in on disk: "absent", "other" or "optimized"
    loaded,     \* the drop-in systemd has read
    service,    \* what the running xrdp was started with, and whether it runs
    fatal,      \* the changes with which xrdp does not stay active
    late,       \* it then fails only after "systemctl is-active" was asked
    script,     \* the script running, "none" between two runs
    pc,         \* its next command
    backup,     \* the newest backup of each file
    last,       \* history: how the last run ended
    runs, faults

fileVars == <<ini, dropin, loaded>>
hostVars == <<fatal, late>>
runVars == <<script, pc, backup, last, runs, faults>>
vars == <<fileVars, service, hostVars, runVars>>

\* What the scripts tell apart in xrdp.ini: the settings in force, the section
\* that ends the file without a newline, and a line glued to another.
Ini == [gfx : BOOLEAN, resize : BOOLEAN,
        tail : {"newline", "Channels", "Console"}, glued : BOOLEAN]
DropIn == {"absent", "other", "optimized"}

Status == {"none", "done", "already", "failed", "aborted", "killed"}

TypeOK ==
    /\ ini \in Ini /\ dropin \in DropIn /\ loaded \in DropIn
    /\ service \in [active : BOOLEAN, ini : Ini, dropin : DropIn]
    /\ fatal \subseteq {"gfx", "resize", "daemon"} /\ late \in BOOLEAN
    /\ script \in Script \cup {"none"}
    /\ pc \in {"idle", "check", "backup", "edit", "validate", "reload", "restart",
               "restore", "reload again", "restart again"}
    /\ backup \in [ini : Ini, dropin : DropIn]
    /\ last \in [script : Script \cup {"none"}, status : Status]
    /\ runs \in 0..MaxRuns /\ faults \in 0..MaxFaults

Init ==
    /\ ini \in [gfx : {FALSE}, resize : {FALSE},
                tail : {"newline", "Channels", "Console"}, glued : {FALSE}]
    /\ dropin \in {"absent", "other"}
    /\ loaded = dropin
    /\ service = [active |-> TRUE, ini |-> ini, dropin |-> dropin]
    /\ fatal \in SUBSET {"gfx", "resize", "daemon"} /\ late \in BOOLEAN
    /\ script = "none" /\ pc = "idle"
    /\ backup = [ini |-> ini, dropin |-> dropin]
    /\ last = [script |-> "none", status |-> "none"]
    /\ runs = 0 /\ faults = 0
-----------------------------------------------------------------------------
(* systemctl.                                                               *)

\* The changes a service started with c and d has.
Changes(c, d) ==
    {s \in {"gfx", "resize"} : c[s]} \cup (IF d = "optimized" THEN {"daemon"} ELSE {})
Healthy(c, d) == Changes(c, d) \cap fatal = {}

\* systemctl restart xrdp: a service that is going to fail may still be active
\* when the restart returns.
Restarted(active) == service' = [active |-> active, ini |-> ini, dropin |-> loaded]
RestartStays == (Healthy(ini, loaded) \/ late) /\ Restarted(TRUE)
RestartFails == ~ Healthy(ini, loaded) /\ ~ late /\ Restarted(FALSE)

\* It fails when nobody looks any more.
ServiceDies ==
    /\ service.active
    /\ ~ Healthy(service.ini, service.dropin)
    /\ service' = [service EXCEPT !.active = FALSE]
    /\ UNCHANGED <<fileVars, hostVars, runVars>>
-----------------------------------------------------------------------------
(* The scripts.                                                             *)

Goto(p) == pc' = p /\ UNCHANGED <<script, last, runs, faults>>

End(status) ==
    /\ last' = [script |-> script, status |-> status]
    /\ script' = "none" /\ pc' = "idle"
    /\ UNCHANGED <<backup, runs, faults>>

Start ==
    /\ pc = "idle" /\ runs < MaxRuns
    /\ runs' = runs + 1
    /\ script' \in Script
    /\ pc' = "check"
    /\ UNCHANGED <<fileVars, service, hostVars, backup, last, faults>>

\* The file already says what the script would make it say.
AlreadyMade == IF script = "daemon" THEN dropin = "optimized" ELSE ini[script]

CheckNotMade ==
    /\ pc = "check" /\ ~ AlreadyMade
    /\ Goto("backup")
    /\ UNCHANGED <<fileVars, service, hostVars, backup>>

CheckMade ==
    /\ pc = "check" /\ AlreadyMade /\ service.active
    /\ End("already")
    /\ UNCHANGED <<fileVars, service, hostVars>>

\* The xrdp.ini scripts start a service that does not run; the daemon script
\* ends with the status of "systemctl is-active".
CheckMadeInactive ==
    /\ pc = "check" /\ AlreadyMade /\ ~ service.active
    /\ \/ script # "daemon" /\ RestartStays /\ End("already")
       \/ script # "daemon" /\ RestartFails /\ End("failed")
       \/ script = "daemon" /\ End("failed") /\ UNCHANGED service
    /\ UNCHANGED <<fileVars, hostVars>>

\* Mutant: a drop-in that was absent is backed up as an empty file.
BackupEmpty ==
    /\ pc = "backup"
    /\ backup' = IF script # "daemon" THEN [backup EXCEPT !.ini = ini]
                 ELSE [backup EXCEPT !.dropin = IF dropin = "absent" THEN "empty" ELSE dropin]
    /\ Goto("edit")
    /\ UNCHANGED <<fileVars, service, hostVars>>

Backup ==
    /\ pc = "backup"
    /\ backup' = IF script = "daemon" THEN [backup EXCEPT !.dropin = dropin]
                                     ELSE [backup EXCEPT !.ini = ini]
    /\ Goto("edit")
    /\ UNCHANGED <<fileVars, service, hostVars>>

\* The key is appended to its section's lines; the last line of a file that does
\* not end with a newline takes it up.
Glues == ini.tail = "Console" \/ (script = "gfx" /\ ini.tail = "Channels")

\* The temporary file cannot be written, or a section is missing: "set -e" ends
\* the script before the file was replaced.
EditFails ==
    /\ pc = "edit"
    /\ script # "daemon"
    /\ End("aborted")
    /\ UNCHANGED <<fileVars, service, hostVars>>

EditIni ==
    /\ pc = "edit" /\ script # "daemon"
    /\ ini' = IF Glues
              THEN [ini EXCEPT !.tail = "newline", !.glued = TRUE]
              ELSE [ini EXCEPT ![script] = TRUE]
    /\ Goto("validate")
    /\ UNCHANGED <<dropin, loaded, service, hostVars, backup>>

\* The result is read again; nothing is put back when it is not as expected.
Validate ==
    /\ pc = "validate"
    /\ IF ini[script] THEN Goto("restart") /\ UNCHANGED backup ELSE End("aborted")
    /\ UNCHANGED <<fileVars, service, hostVars>>

\* mv(1) of the candidate, written before, over the drop-in.
EditDropIn ==
    /\ pc = "edit" /\ script = "daemon"
    /\ dropin' = "optimized"
    /\ Goto("reload")
    /\ UNCHANGED <<ini, loaded, service, hostVars, backup>>

Reload ==
    /\ pc = "reload"
    /\ \/ loaded' = dropin /\ Goto("restart")
       \/ UNCHANGED loaded /\ Goto("restore")
    /\ UNCHANGED <<ini, dropin, service, hostVars, backup>>

\* Mutant: only the status of the restart is looked at, which may be 0 for a
\* service that is not active.
RestartUnchecked ==
    /\ pc = "restart"
    /\ RestartStays \/ RestartFails
    /\ End("done")
    /\ UNCHANGED <<fileVars, hostVars>>

Restart ==
    /\ pc = "restart"
    /\ \/ RestartStays /\ End("done")
       \/ RestartFails /\ Goto("restore") /\ UNCHANGED backup
    /\ UNCHANGED <<fileVars, hostVars>>

\* Mutant: the restored drop-in is not read again.
RestoreNoReload ==
    /\ pc = "restore"
    /\ IF script = "daemon"
       THEN dropin' = backup.dropin /\ UNCHANGED ini
       ELSE ini' = backup.ini /\ UNCHANGED dropin
    /\ Goto("restart again")
    /\ UNCHANGED <<loaded, service, hostVars, backup>>

\* The backup goes back; a drop-in that was absent is unlinked.
Restore ==
    /\ pc = "restore"
    /\ IF script = "daemon"
       THEN dropin' = backup.dropin /\ UNCHANGED ini /\ Goto("reload again")
       ELSE ini' = backup.ini /\ UNCHANGED dropin /\ Goto("restart again")
    /\ UNCHANGED <<loaded, service, hostVars, backup>>

ReloadAgain ==
    /\ pc = "reload again"
    /\ loaded' = dropin
    /\ Goto("restart again")
    /\ UNCHANGED <<ini, dropin, service, hostVars, backup>>

\* "|| true": the failure goes unnoticed.
ReloadAgainFails ==
    /\ pc = "reload again" /\ faults < MaxFaults
    /\ faults' = faults + 1
    /\ pc' = "restart again"
    /\ UNCHANGED <<fileVars, service, hostVars, script, backup, last, runs>>

RestartAgain ==
    /\ pc = "restart again"
    /\ RestartStays \/ RestartFails
    /\ End("failed")
    /\ UNCHANGED <<fileVars, hostVars>>

Command ==
    \/ CheckNotMade \/ CheckMade \/ CheckMadeInactive \/ Backup
    \/ EditFails \/ EditIni \/ Validate \/ EditDropIn \/ Reload \/ Restart
    \/ Restore \/ ReloadAgain \/ ReloadAgainFails \/ RestartAgain

\* No script catches signals: the next command is not run.  A cp(1) or mv(1) that
\* fails ends a script in the same way ("set -e").
KillScript ==
    /\ pc # "idle" /\ faults < MaxFaults
    /\ faults' = faults + 1
    /\ last' = [script |-> script, status |-> "killed"]
    /\ script' = "none" /\ pc' = "idle"
    /\ UNCHANGED <<fileVars, service, hostVars, backup, runs>>

Next == Start \/ Command \/ KillScript \/ ServiceDies

Spec == Init /\ [][Next]_vars
-----------------------------------------------------------------------------
(* Properties.                                                              *)

\* The service runs with the change of script s.
InForce(s) == service.active /\ s \in Changes(service.ini, service.dropin)

\* A script that ends well has its change in force: the service was restarted
\* with it, whatever an earlier run that was killed has left on disk.
DoneMeansInForce ==
    (last.status = "done" /\ pc = "idle" /\ ~ late) => InForce(last.script)

\* A script whose service did not stay active has undone its change on disk, in
\* what systemd has read and in what was started last.
FailedRunIsUndone ==
    (last.status = "failed" /\ pc = "idle" /\ faults = 0 /\ ~ late) =>
        /\ last.script \notin Changes(ini, dropin)
        /\ loaded = dropin
        /\ service.ini = ini /\ service.dropin = loaded

\* No sequence of runs takes the console down: each change that breaks the
\* service is taken back before the next script adds its own.  A file without a
\* final newline and a killed script are what can leave a change behind.
ServiceSurvives ==
    (pc = "idle" /\ faults = 0 /\ ~ late /\ ~ ini.glued) => service.active

\* "already disabled; no restart or backup needed": the running service has the
\* change the file has.
NoRestartNeeded ==
    (last.status = "already" /\ pc = "idle") => InForce(last.script)
=============================================================================

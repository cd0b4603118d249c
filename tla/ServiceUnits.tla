---------------------------- MODULE ServiceUnits ----------------------------
(***************************************************************************)
(* The modules service and systemd_service.  Each asks systemctl (or, for  *)
(* service on a host without systemd, the init scripts) about the unit,    *)
(* and starts, stops, restarts, reloads, enables, disables or masks it if  *)
(* the answer is not what the task asks for.  systemd_service decides on   *)
(* the state of the unit from what it read first; a unit starts and stops  *)
(* in time, and fails, whoever waits for it.                               *)
(***************************************************************************)
EXTENDS ModuleRuns, Naturals

CONSTANTS
    Tasks,
    Alike   \* whether another service's name contains this one's

Requests ==
    [kind : {"service", "systemd"}, state : {"", "started", "stopped", "restarted", "reloaded"},
     enabled : {"", "yes", "no"}, masked : {"", "yes", "no"}, noblock : BOOLEAN, sleep : BOOLEAN,
     pattern : BOOLEAN, reload : BOOLEAN]

TaskAssumption == Tasks \subseteq Requests /\ Alike \subseteq BOOLEAN

ActiveStates == {"inactive", "failed", "active", "activating", "deactivating"}
EnabledStates == {"enabled", "disabled", "static"}
(* like: another service, whose name contains this one's, is enabled;      *)
(* stray: a process that matches the pattern runs.                         *)
Hosts ==
    [manager : {"systemd", "sysvinit"}, exists : BOOLEAN, active : ActiveStates,
     enabled : EnabledStates, masked : BOOLEAN, like : BOOLEAN, stray : BOOLEAN]
Reading == [active : ActiveStates]
Nothing == [active |-> "inactive"]
Places == {"daemon", "show", "ismasked", "mask", "isenabled", "enable", "isactive", "act", "sleep",
           "reload", "answer"}

TypeOK ==
    /\ actual \in Hosts /\ memo \in Memos
    /\ run \in RunStates(Tasks, Places, Reading)
    /\ ~Checking
    /\ actual.manager = "sysvinit" => ~actual.masked /\ actual.enabled # "static"

t == run.task
now == run.read
unit == actual
Systemd == unit.manager = "systemd"
(* systemd_service knows only systemctl.                                   *)
Managed == unit.exists /\ (t.kind = "service" \/ Systemd)

-----------------------------------------------------------------------------
(* Neither module has a check mode.                                        *)
Start == \E task \in Tasks : Begin(task, "apply", "daemon", Nothing)

(* A daemon-reload is reported only if nothing else is asked for, and one  *)
(* of the two has to be.                                                   *)
DaemonReload ==
    /\ At("daemon")
    /\ IF t.state # "" \/ t.enabled # "" \/ t.masked # "" THEN Goto("show")
       ELSE IF t.reload THEN Reports("answer") ELSE Refuse

(* The status is read; a unit that does not exist may be masked, and may   *)
(* be said to run if a process of that pattern does.                       *)
Show ==
    /\ At("show")
    /\ IF \/ Managed
          \/ (IF t.kind = "service" THEN t.pattern ELSE t.masked # "")
       THEN Reads("ismasked", [now EXCEPT !.active = IF Systemd /\ unit.exists THEN unit.active
                                                     ELSE "inactive"])
       ELSE Refuse

(* Asked and then changed: two calls, if what is said is not what is       *)
(* wanted.                                                                 *)
IsUnitMasked ==
    /\ At("ismasked")
    /\ IF t.masked = "" \/ unit.masked = (t.masked = "yes") THEN Goto("isenabled") ELSE Goto("mask")
Mask ==
    /\ At("mask")
    /\ IF Systemd THEN Changes("isenabled", [actual EXCEPT !.masked = (t.masked = "yes")]) ELSE Refuse

SaysEnabledAlthoughMasked ==   \* mutant
    IF Systemd THEN unit.exists /\ unit.enabled \in {"enabled", "static"}
    ELSE unit.exists /\ (unit.enabled = "enabled" \/ unit.like)
(* A static unit counts as enabled, a masked one does not; for init        *)
(* scripts any link whose name contains the service's does.                *)
SaysEnabled ==
    IF Systemd THEN unit.exists /\ ~unit.masked /\ unit.enabled \in {"enabled", "static"}
    ELSE unit.exists /\ (unit.enabled = "enabled" \/ unit.like)
IsEnabled ==
    /\ At("isenabled")
    /\ Goto(IF t.enabled = "" \/ SaysEnabled = (t.enabled = "yes") THEN "isactive" ELSE "enable")
Enable ==
    /\ At("enable")
    /\ IF ~Managed \/ (unit.masked /\ t.enabled = "yes") THEN Refuse
       ELSE Changes("isactive", [actual EXCEPT !.enabled =
                IF @ = "static" THEN @ ELSE IF t.enabled = "yes" THEN "enabled" ELSE "disabled"])

(* systemd_service goes by the status it read, service asks again.         *)
Running(active) == active \in {"active", "activating"}
IsRunning(active) == Running(active) \/ (t.kind = "service" /\ t.pattern /\ unit.stray)
Decides(active) ==
    IF t.state = "" THEN Goto("answer")
    ELSE LET acts == \/ t.state = "restarted"
                     \/ t.state \in {"started", "reloaded"} /\ ~IsRunning(active)
                     \/ t.state = "stopped" /\ IsRunning(active)
                     \/ t.state = "stopped" /\ t.kind = "systemd" /\ active = "deactivating" IN
         IF acts THEN Goto("act") ELSE Goto(IF t.state = "reloaded" THEN "reload" ELSE "answer")
Decide == At("isactive") /\ Decides(IF t.kind = "systemd" THEN now.active ELSE unit.active)

-----------------------------------------------------------------------------
(* systemctl start and stop wait for their job, unless no_block is given.  *)
FailsAs(active) ==
    actual' = [actual EXCEPT !.active = active] /\ Ends("failed", FALSE) /\ memo' = NoMemo
Runs(place) ==
    \/ (~Managed \/ unit.masked) /\ Refuse
    \/ /\ Managed /\ ~unit.masked
       /\ \/ Changes(place, [actual EXCEPT !.active =
                 IF t.noblock /\ @ # "active" THEN "activating" ELSE "active"])
          \/ ~t.noblock /\ FailsAs("failed")
Stopped == IF unit.active \in {"inactive", "failed"} THEN unit.active
           ELSE IF t.noblock THEN "deactivating" ELSE "inactive"
RunAct ==
    /\ At("act") /\ t.state # "stopped" /\ ~(t.state = "restarted" /\ t.sleep)
    /\ Runs(IF t.state = "reloaded" THEN "reload" ELSE "answer")
StopAct ==
    /\ At("act") /\ (t.state = "stopped" \/ (t.state = "restarted" /\ t.sleep))
    /\ IF ~Managed THEN Refuse
       ELSE Changes(IF t.state = "stopped" THEN "answer" ELSE "sleep",
                    [actual EXCEPT !.active = Stopped])
StartAfterSleep == At("sleep") /\ Runs("answer")
(* Only what runs can be reloaded.                                         *)
Reload == At("reload") /\ IF Managed /\ Running(unit.active) THEN Reports("answer") ELSE Refuse

Finish == At("answer") /\ Answer(run.changed)
CallError == CallFails(Places \ {"answer", "show", "ismasked", "isenabled", "isactive"})

(* Jobs end by themselves.                                                 *)
JobEnds ==
    \/ unit.active = "activating" /\ Awaited([actual EXCEPT !.active = "active"])
    \/ unit.active = "deactivating" /\ Awaited([actual EXCEPT !.active = "inactive"])
(* Others use the service, and a service that starts may fail.             *)
Outside ==
    \/ \E a \in IF Systemd THEN ActiveStates ELSE {"inactive", "active"} :
          unit.exists /\ Interferes([actual EXCEPT !.active = a])
    \/ unit.exists /\ unit.enabled # "static"
          /\ \E e \in {"enabled", "disabled"} : Interferes([actual EXCEPT !.enabled = e])
    \/ Systemd /\ unit.exists /\ \E m \in BOOLEAN : Interferes([actual EXCEPT !.masked = m])

Steps ==
    \/ DaemonReload \/ Show \/ IsUnitMasked \/ Mask \/ IsEnabled \/ Enable \/ Decide \/ RunAct
    \/ StopAct \/ StartAfterSleep \/ Reload \/ Finish
InitHosts ==
    {h \in [manager : {"systemd", "sysvinit"}, exists : BOOLEAN, active : {"inactive"},
            enabled : {"disabled", "static"}, masked : {FALSE}, like : Alike, stray : BOOLEAN] :
        h.manager = "sysvinit" => h.enabled = "disabled"}
Init == InitRuns(InitHosts, Tasks)
Next == Start \/ Steps \/ CallError \/ Killed \/ JobEnds \/ (Undisturbed /\ Outside)
Spec == Init /\ [][Next]_vars

-----------------------------------------------------------------------------
(* Without no_block systemd_service answers when the unit has stopped,     *)
(* also if it was stopping when the task began.                            *)
Awaits(task) == task.kind = "systemd" /\ ~task.noblock
(* A static unit cannot be disabled, and is as good as enabled.            *)
Satisfied(task, h) ==
    /\ task.masked # "" => h.masked = (task.masked = "yes")
    /\ task.enabled = "yes" => h.enabled \in {"enabled", "static"} /\ ~h.masked
    /\ task.enabled = "no" => h.enabled \in {"disabled", "static"} \/ h.masked
    /\ task.state \in {"started", "restarted", "reloaded"} =>
          (h.exists /\ h.active \in {"active", "activating"}) \/ (task.pattern /\ h.stray)
    /\ task.state = "stopped" => h.active \in
          {"inactive", "failed"} \union (IF Awaits(task) THEN {} ELSE {"deactivating"})

(* What is asked for is done once, but for restarts and reloads; without   *)
(* waiting it may be asked for again while it is being done.               *)
Idempotent ==
    \/ t.state \in {"restarted", "reloaded"} \/ t.reload \/ t.noblock
    \/ unit.enabled = "static" /\ t.enabled = "no"
    \/ Unchanging
=============================================================================

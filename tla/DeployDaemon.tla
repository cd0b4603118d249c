---------------------------- MODULE DeployDaemon ----------------------------
(***************************************************************************)
(* dibra-deploy: the loop that polls a task server, executes the project   *)
(* it is handed and reports one outcome, together with what surrounds it:  *)
(* the server, the network between them, systemd (Restart=on-failure) and  *)
(* the machine, which the last task of a project may reboot.               *)
(*                                                                         *)
(* A call of controller.Run is the contract of module RunContract, which   *)
(* PlayRun is shown to keep.                                               *)
(***************************************************************************)
EXTENDS Naturals, FiniteSets

CONSTANTS Tasks,      \* the task IDs the server hands out
          NoTask,     \* no task is being processed
          Project,    \* what the archive of each task holds
          MaxFaults   \* bound on crashes, signals and failed starts

(* `playbooks` is the length of the manifest's list; `reboots` says that   *)
(* the last playbook can come to a reboot task.                            *)
ASSUME DeployAssumption ==
    /\ NoTask \notin Tasks
    /\ Project \in [Tasks -> [playbooks : Nat \ {0}, reboots : BOOLEAN]]
    /\ MaxFaults \in Nat

VARIABLES
    dpc,         \* where the daemon's process is
    cur,         \* the task PollOnce is processing
    book,        \* index of the playbook being executed
    taskFailed, rebooted, \* taskErr # nil and the flag processTask returns
    ctxDone,     \* SIGTERM cancelled the daemon's context
    jobs,        \* job directories under the state directory
    status, may, failed, initiated, issued, \* the call of controller.Run
    recorded,    \* the server's terminal outcome of each task
    posts,       \* outcomes on their way to the server
    shutdown,    \* a reboot was issued and the machine is still up
    faults,      \* crashes, signals and failed starts so far
    issuedHere,  \* history: this process issued a reboot
    streak,      \* history: playbooks of this attempt that returned and did not fail
    finished,    \* history: tasks with an attempt whose every playbook did so
    attempted,   \* history: tasks that were handed to the daemon
    issuedFor    \* history: tasks with an attempt that issued a reboot

runVars    == <<status, may, failed, initiated, issued>>
serverVars == <<recorded, posts>>
history    == <<issuedHere, streak, finished, attempted, issuedFor>>
vars == <<dpc, cur, book, taskFailed, rebooted, ctxDone, jobs, runVars, serverVars,
          shutdown, faults, history>>

Run == INSTANCE RunContract

Outcome == [task : Tasks, status : {"succeeded", "failed"}, reboot : BOOLEAN]

Alive == dpc \notin {"off", "crashed", "exited"}

-----------------------------------------------------------------------------
Init ==
    /\ dpc = "starting" /\ cur = NoTask /\ book = 1
    /\ taskFailed = FALSE /\ rebooted = FALSE /\ ctxDone = FALSE /\ jobs = {}
    /\ status = "idle" /\ may = FALSE /\ failed = FALSE /\ initiated = FALSE /\ issued = FALSE
    /\ recorded = [t \in Tasks |-> "none"] /\ posts = {}
    /\ shutdown = FALSE /\ faults = 0
    /\ issuedHere = FALSE /\ streak = 0
    /\ finished = {} /\ attempted = {} /\ issuedFor = {}

(* Mutant: New leaves the job directories of a previous process alone.     *)
StartDaemonUnclean ==
    /\ dpc = "starting"
    /\ dpc' = "polling" /\ cur' = NoTask
    /\ issuedHere' = FALSE
    /\ UNCHANGED <<book, taskFailed, rebooted, ctxDone, jobs, runVars, serverVars, shutdown, faults,
                   streak, finished, attempted, issuedFor>>

(* New: the job directories a previous process left behind are removed and *)
(* the agent is prepared.                                                  *)
StartDaemon ==
    /\ dpc = "starting"
    /\ jobs' = {}
    /\ dpc' = "polling" /\ cur' = NoTask
    /\ issuedHere' = FALSE
    /\ UNCHANGED <<book, taskFailed, rebooted, ctxDone, runVars, serverVars, shutdown, faults,
                   streak, finished, attempted, issuedFor>>

(* Mutant: main does not return the error of New.                          *)
StartFailsSilently ==
    /\ dpc = "starting" /\ faults < MaxFaults
    /\ faults' = faults + 1
    /\ dpc' = "exited"
    /\ UNCHANGED <<cur, book, taskFailed, rebooted, ctxDone, jobs, runVars, serverVars, shutdown,
                   history>>

(* New fails, for example because no agent can be resolved: main exits     *)
(* with an error and systemd restarts the unit.                            *)
StartFails ==
    /\ dpc = "starting" /\ faults < MaxFaults
    /\ faults' = faults + 1
    /\ jobs' \in {jobs, {}}
    /\ dpc' = "crashed" /\ ctxDone' = FALSE
    /\ UNCHANGED <<cur, book, taskFailed, rebooted, runVars, serverVars, shutdown,
                   history>>

(* Mutant: the server hands out a task once.                               *)
FetchTaskOnce(t) ==
    /\ dpc = "polling" /\ ~ctxDone
    /\ recorded[t] = "none" /\ t \notin attempted
    /\ cur' = t /\ attempted' = attempted \cup {t}
    /\ jobs' = jobs \cup {t}
    /\ dpc' = "received"
    /\ UNCHANGED <<book, taskFailed, rebooted, ctxDone, runVars, serverVars, shutdown, faults,
                   issuedHere, streak, finished, issuedFor>>

(* A 200 response that names a task, for which a job directory is made.    *)
FetchTask(t) ==
    /\ dpc = "polling" /\ ~ctxDone
    /\ recorded[t] = "none"
    /\ cur' = t /\ attempted' = attempted \cup {t}
    /\ jobs' = jobs \cup {t}
    /\ dpc' = "received"
    /\ UNCHANGED <<book, taskFailed, rebooted, ctxDone, runVars, serverVars, shutdown, faults,
                   issuedHere, streak, finished, issuedFor>>

(* No work, an unusable response, or no response: nothing is reported.     *)
FetchNothing ==
    /\ dpc = "polling"
    /\ dpc' = "polled"
    /\ rebooted' = FALSE
    /\ UNCHANGED <<cur, book, taskFailed, ctxDone, jobs, runVars, serverVars, shutdown, faults,
                   history>>

(* The archive is too large, cannot be stored or is rejected, or the       *)
(* preflight check of the playbooks fails: the job directory is gone.      *)
RejectTask ==
    /\ dpc = "received"
    /\ taskFailed' = TRUE /\ rebooted' = FALSE
    /\ jobs' = jobs \ {cur}
    /\ dpc' = "reporting"
    /\ UNCHANGED <<cur, book, ctxDone, runVars, serverVars, shutdown, faults, history>>

AllowReboot(k) == k = Project[cur].playbooks

StartProject ==
    /\ dpc = "received"
    /\ book' = 1 /\ Run!Call(AllowReboot(1))
    /\ streak' = 0
    /\ dpc' = "executing"
    /\ UNCHANGED <<cur, taskFailed, rebooted, ctxDone, jobs, serverVars, shutdown, faults,
                   issuedHere, finished, attempted, issuedFor>>

(* The playbook runs; the reboot of the last one reaches the machine.      *)
PlaybookReboots ==
    /\ dpc = "executing" /\ Project[cur].reboots
    /\ Run!IssueReboot
    /\ shutdown' = TRUE /\ issuedHere' = TRUE /\ issuedFor' = issuedFor \cup {cur}
    /\ UNCHANGED <<dpc, cur, book, taskFailed, rebooted, ctxDone, jobs, serverVars, faults,
                   streak, finished, attempted>>

PlaybookFails ==
    /\ dpc = "executing" /\ Run!Fail
    /\ UNCHANGED <<dpc, cur, book, taskFailed, rebooted, ctxDone, jobs, serverVars, shutdown,
                   faults, history>>

(* The call returns.  The history counts the playbooks of this attempt     *)
(* that returned without an error and without a failure, one after another.*)
PlaybookReturns ==
    /\ dpc = "executing"
    /\ Run!Return \/ Run!ReturnError
    /\ streak' = IF Run!Return /\ ~failed THEN streak + 1 ELSE 0
    /\ finished' = IF streak' = Project[cur].playbooks THEN finished \cup {cur} ELSE finished
    /\ UNCHANGED <<dpc, cur, book, taskFailed, rebooted, ctxDone, jobs, serverVars, shutdown,
                   faults, issuedHere, attempted, issuedFor>>

(* executeProject returns and the job directory is removed.                *)
EndProject(err, reboot) ==
    /\ taskFailed' = err /\ rebooted' = reboot
    /\ jobs' = jobs \ {cur}
    /\ dpc' = "reporting"
    /\ UNCHANGED <<cur, book, ctxDone, runVars, serverVars, shutdown, faults, history>>

PlaybookReturned == dpc = "executing" /\ status \in {"done", "error"}

(* Mutant: RunResult.Failed is not looked at.                              *)
SucceededIfReturned == status = "done"

Succeeded == status = "done" /\ ~failed

(* The result's Failed is looked at before RebootInitiated.                *)
PlaybookFailed ==
    /\ PlaybookReturned /\ ~Succeeded
    /\ EndProject(TRUE, FALSE)

(* A reboot before the final playbook is an error.                         *)
PlaybookRebooted ==
    /\ PlaybookReturned /\ Succeeded /\ initiated
    /\ LET final == book = Project[cur].playbooks IN EndProject(~final, final)

NextPlaybook ==
    /\ PlaybookReturned /\ Succeeded /\ ~initiated
    /\ book < Project[cur].playbooks
    /\ book' = book + 1 /\ Run!Call(AllowReboot(book + 1))
    /\ UNCHANGED <<dpc, cur, taskFailed, rebooted, ctxDone, jobs, serverVars, shutdown, faults,
                   history>>

(* Mutant: whether the last playbook may reboot is reported as the reboot. *)
ProjectSucceededAllowed ==
    /\ PlaybookReturned /\ Succeeded /\ ~initiated
    /\ book = Project[cur].playbooks
    /\ EndProject(FALSE, may)

ProjectSucceeded ==
    /\ PlaybookReturned /\ Succeeded /\ ~initiated
    /\ book = Project[cur].playbooks
    /\ EndProject(FALSE, FALSE)

-----------------------------------------------------------------------------
(* reportTaskOutcome: one POST, bound to the daemon's context.             *)

OutcomeOfTask == [task |-> cur, status |-> IF taskFailed THEN "failed" ELSE "succeeded",
                  reboot |-> rebooted]

SendOutcome ==
    /\ dpc = "reporting" /\ ~ctxDone
    /\ posts' = posts \cup {OutcomeOfTask}
    /\ dpc' = "awaiting"
    /\ UNCHANGED <<cur, book, taskFailed, rebooted, ctxDone, jobs, runVars, recorded, shutdown,
                   faults, history>>

(* The request is not sent at all: its context is cancelled, or there is   *)
(* no connection.                                                          *)
SendFails ==
    /\ dpc = "reporting"
    /\ dpc' = "polled"
    /\ UNCHANGED <<cur, book, taskFailed, rebooted, ctxDone, jobs, runVars, serverVars,
                   shutdown, faults, history>>

(* Mutant: the server lets a later outcome replace an earlier one.         *)
RecordLatest(m) ==
    /\ m \in posts
    /\ posts' = posts \ {m}
    /\ recorded' = [recorded EXCEPT ![m.task] = m.status]
    /\ \/ dpc = "awaiting" /\ m = OutcomeOfTask /\ dpc' = "polled"
       \/ UNCHANGED dpc
    /\ UNCHANGED <<cur, book, taskFailed, rebooted, ctxDone, jobs, runVars, shutdown, faults,
                   history>>

(* The server keeps the first outcome of a task and accepts later ones     *)
(* without looking at them.  Its answer may still reach the daemon.        *)
RecordOutcome(m) ==
    /\ m \in posts
    /\ posts' = posts \ {m}
    /\ recorded' = [recorded EXCEPT ![m.task] = IF @ = "none" THEN m.status ELSE @]
    /\ \/ dpc = "awaiting" /\ m = OutcomeOfTask /\ dpc' = "polled"
       \/ UNCHANGED dpc
    /\ UNCHANGED <<cur, book, taskFailed, rebooted, ctxDone, jobs, runVars, shutdown, faults,
                   history>>

(* The request is lost or refused.                                         *)
LoseOutcome(m) ==
    /\ m \in posts
    /\ posts' = posts \ {m}
    /\ UNCHANGED <<dpc, cur, book, taskFailed, rebooted, ctxDone, jobs, runVars, recorded,
                   shutdown, faults, history>>

(* A timeout, a refusal, a lost answer or a signal while the daemon waits: *)
(* the report is not repeated, although the request may still arrive.      *)
ReportFails ==
    /\ dpc = "awaiting"
    /\ dpc' = "polled"
    /\ UNCHANGED <<cur, book, taskFailed, rebooted, ctxDone, jobs, runVars, serverVars,
                   shutdown, faults, history>>

(* Behind PollOnce: after a reboot the daemon exits, whatever became of    *)
(* the report; after a signal it exits too; otherwise it polls again after *)
(* the interval.                                                           *)
ExitDaemon ==
    /\ dpc = "polled" /\ (rebooted \/ ctxDone)
    /\ dpc' = "exited" /\ cur' = NoTask
    /\ UNCHANGED <<book, taskFailed, rebooted, ctxDone, jobs, runVars, serverVars, shutdown,
                   faults, history>>

PollAgain ==
    /\ dpc = "polled" /\ ~rebooted /\ ~ctxDone
    /\ dpc' = "polling" /\ cur' = NoTask
    /\ UNCHANGED <<book, taskFailed, rebooted, ctxDone, jobs, runVars, serverVars, shutdown,
                   faults, history>>

-----------------------------------------------------------------------------
(* What happens to the process and the machine.                            *)

Terminate ==
    /\ Alive /\ ~ctxDone /\ faults < MaxFaults
    /\ ctxDone' = TRUE /\ faults' = faults + 1
    /\ UNCHANGED <<dpc, cur, book, taskFailed, rebooted, jobs, runVars, serverVars, shutdown,
                   history>>

(* The state of the process is gone; files and sent requests are not.      *)
ForgetProcess ==
    /\ cur' = NoTask /\ book' = 1 /\ taskFailed' = FALSE /\ rebooted' = FALSE
    /\ ctxDone' = FALSE
    /\ status' = "idle" /\ may' = FALSE
    /\ failed' = FALSE /\ initiated' = FALSE /\ issued' = FALSE

Crash ==
    /\ Alive /\ faults < MaxFaults
    /\ faults' = faults + 1
    /\ dpc' = "crashed" /\ ForgetProcess
    /\ UNCHANGED <<jobs, serverVars, shutdown, history>>

(* systemd restarts the unit after a failure, not after a clean exit.      *)
Restart ==
    /\ dpc = "crashed"
    /\ dpc' = "starting"
    /\ UNCHANGED <<cur, book, taskFailed, rebooted, ctxDone, jobs, runVars, serverVars,
                   shutdown, faults, history>>

(* An operator starts the unit again that a signal stopped.                *)
StartUnit ==
    /\ dpc = "exited" /\ ctxDone /\ ~shutdown
    /\ dpc' = "starting" /\ ctxDone' = FALSE
    /\ UNCHANGED <<cur, book, taskFailed, rebooted, jobs, runVars, serverVars,
                   shutdown, faults, history>>

(* The shutdown first signals the process, if it is given the time.        *)
ShutdownSignals ==
    /\ shutdown /\ Alive /\ ~ctxDone
    /\ ctxDone' = TRUE
    /\ UNCHANGED <<dpc, cur, book, taskFailed, rebooted, jobs, runVars, serverVars, shutdown,
                   faults, history>>

MachineReboots ==
    /\ shutdown /\ dpc # "off"
    /\ shutdown' = FALSE
    /\ dpc' = "off" /\ ForgetProcess
    /\ UNCHANGED <<jobs, serverVars, faults, history>>

Boot ==
    /\ dpc = "off"
    /\ dpc' = "starting"
    /\ UNCHANGED <<cur, book, taskFailed, rebooted, ctxDone, jobs, runVars, serverVars,
                   shutdown, faults, history>>

-----------------------------------------------------------------------------
DaemonStep ==
    \/ StartDaemon \/ FetchNothing \/ RejectTask \/ StartProject
    \/ PlaybookReboots \/ PlaybookFails \/ PlaybookReturns
    \/ PlaybookFailed \/ PlaybookRebooted \/ NextPlaybook \/ ProjectSucceeded
    \/ SendOutcome \/ SendFails \/ ReportFails \/ ExitDaemon \/ PollAgain
    \/ \E t \in Tasks : FetchTask(t)

ServerStep == \E m \in posts : RecordOutcome(m) \/ LoseOutcome(m)

SystemStep ==
    \/ StartFails \/ Terminate \/ Crash \/ Restart \/ StartUnit
    \/ ShutdownSignals \/ MachineReboots \/ Boot

Next == DaemonStep \/ ServerStep \/ SystemStep

Spec == Init /\ [][Next]_vars

(* A process that is running takes its steps, systemd restarts a failed    *)
(* unit, and a machine that was told to reboot does so and comes up.       *)
SystemFairness ==
    /\ WF_vars(DaemonStep)
    /\ WF_vars(Restart) /\ WF_vars(MachineReboots) /\ WF_vars(Boot)

(* The server hands out every task it holds again and again, and of the    *)
(* outcomes that are sent again and again some arrive.                     *)
DeliveryFairness ==
    /\ \A t \in Tasks : SF_vars(FetchTask(t))
    /\ SF_vars(SendOutcome)
    /\ \A m \in Outcome : SF_vars(RecordOutcome(m))

SystemSpec == Spec /\ SystemFairness

-----------------------------------------------------------------------------
(* Properties.                                                             *)

(* The variables range over what the program declares.                     *)
Flags ==
    /\ taskFailed \in BOOLEAN /\ rebooted \in BOOLEAN /\ ctxDone \in BOOLEAN
    /\ may \in BOOLEAN /\ failed \in BOOLEAN /\ initiated \in BOOLEAN /\ issued \in BOOLEAN
    /\ shutdown \in BOOLEAN /\ issuedHere \in BOOLEAN

Ranges ==
    /\ dpc \in {"starting", "polling", "received", "executing", "reporting", "awaiting",
                "polled", "exited", "crashed", "off"}
    /\ cur \in Tasks \cup {NoTask} /\ book \in Nat \ {0}
    /\ jobs \subseteq Tasks
    /\ status \in {"idle", "running", "done", "error"}
    /\ recorded \in [Tasks -> {"none", "succeeded", "failed"}]
    /\ posts \subseteq Outcome
    /\ faults \in 0 .. MaxFaults /\ streak \in Nat
    /\ finished \subseteq Tasks /\ attempted \subseteq Tasks /\ issuedFor \subseteq Tasks

TypeOK == Flags /\ Ranges

(* An outcome never claims what did not happen, however late it arrives:   *)
(* "succeeded" is sent and recorded only for a task all of whose playbooks *)
(* returned without failure in one attempt, and reboot_initiated is only   *)
(* sent for a success whose attempt issued a reboot.                       *)
OutcomesAreTrue ==
    /\ \A m \in posts :
          /\ m.task \in attempted
          /\ m.status = "succeeded" => m.task \in finished
          /\ m.reboot => m.status = "succeeded" /\ m.task \in issuedFor
    /\ \A t \in Tasks :
          /\ recorded[t] # "none" => t \in attempted
          /\ recorded[t] = "succeeded" => t \in finished

(* While tasks are processed the jobs directory holds the directory of the *)
(* task in progress and nothing of an earlier process or task.             *)
JobsBelongToTask ==
    dpc \in {"polling", "received", "executing", "reporting", "awaiting", "polled"} =>
        jobs = IF dpc \in {"received", "executing"} THEN {cur} ELSE {}

(* systemd does not restart a clean exit: the daemon leaves without being  *)
(* told to only when the machine is going to reboot and start it again.    *)
NeverStranded == (dpc = "exited" /\ ~ctxDone) => shutdown

(* The daemon comes back to polling after every failure, crash and reboot, *)
(* unless a signal stopped it.                                             *)
KeepsPolling == []<>(dpc = "polling" \/ (dpc = "exited" /\ ctxDone))

(* A task is executed and reported again until the server has recorded an  *)
(* outcome, unless the daemon is stopped for good.  A task that issued a   *)
(* reboot is excepted: each of its reports may be cut off by the shutdown  *)
(* it caused.                                                              *)
EveryTaskRecorded ==
    DeliveryFairness =>
        \A t \in Tasks :
            \/ <>[](dpc = "exited")
            \/ <>(recorded[t] # "none" \/ t \in issuedFor)

(* The delivery protocol the server and the daemon implement together.     *)
Delivery == INSTANCE TaskDelivery
DeliversTasks == Delivery!Spec

(* docs/DibraDeploy.md:117: once the local agent initiated a reboot, the   *)
(* daemon exits; it does not poll again before the next boot.              *)
ExitsAfterReboot == issuedHere => dpc # "polling"

=============================================================================

------------------------- MODULE DeployDaemonProofs -------------------------
(***************************************************************************)
(* What DeployDaemon guarantees for every set of tasks, every project and  *)
(* any number of faults: type correctness, the truth of the outcomes, the  *)
(* job directories, that the unit is not stranded, and that the daemon and *)
(* the server implement TaskDelivery.                                      *)
(***************************************************************************)
EXTENDS DeployDaemon, TLAPS

(* The task in progress was handed out.                                    *)
TaskIsAttempted ==
    dpc \in {"received", "executing", "reporting", "awaiting"} => cur \in attempted

(* While a playbook is executed, all earlier ones of this attempt returned *)
(* without failure, and what the run says of a reboot is so.               *)
RunIsOfPlaybook ==
    dpc = "executing" =>
        /\ status # "idle"
        /\ book <= Project[cur].playbooks
        /\ status = "running" => streak + 1 = book
        /\ Succeeded => streak = book
        /\ (Succeeded /\ book = Project[cur].playbooks) => cur \in finished
        /\ initiated => issued
        /\ issued => shutdown /\ cur \in issuedFor

(* What is going to be reported is true.                                   *)
ReportIsTrue ==
    dpc \in {"reporting", "awaiting"} =>
        /\ ~taskFailed => cur \in finished
        /\ rebooted => ~taskFailed /\ cur \in issuedFor

(* A reboot the daemon believes in is under way.                           *)
RebootIsComing ==
    (dpc \in {"reporting", "awaiting", "polled"} /\ rebooted) => shutdown

-----------------------------------------------------------------------------
(* The flags start as booleans.                                            *)
LEMMA FlagsInit == Init => Flags
  BY DEF Init, Flags

(* Every flag stays a boolean.                                             *)
LEMMA FlagsNext == Flags /\ [Next]_vars => Flags'
<1> SUFFICES ASSUME Flags, [Next]_vars PROVE Flags'
  OBVIOUS
<1> USE DEF Flags
<1>1. CASE StartDaemon
  BY <1>1 DEF StartDaemon, runVars
<1>2. ASSUME NEW t \in Tasks, FetchTask(t) PROVE Flags'
  BY <1>2 DEF FetchTask, runVars
<1>3. CASE FetchNothing
  BY <1>3 DEF FetchNothing, runVars, history
<1>4. CASE RejectTask
  BY <1>4 DEF RejectTask, runVars, history
<1>5. CASE StartProject
  BY <1>5 DEF StartProject, Run!Call, AllowReboot
<1>6. CASE PlaybookReboots
  BY <1>6 DEF PlaybookReboots, Run!IssueReboot
<1>7. CASE PlaybookFails
  BY <1>7 DEF PlaybookFails, Run!Fail, history
<1>8. CASE PlaybookReturns
  BY <1>8 DEF PlaybookReturns, Run!Return, Run!ReturnError
<1>9. CASE PlaybookFailed
  BY <1>9 DEF PlaybookFailed, EndProject, runVars, history
<1>10. CASE PlaybookRebooted
  BY <1>10 DEF PlaybookRebooted, EndProject, runVars, history
<1>11. CASE NextPlaybook
  BY <1>11 DEF NextPlaybook, Run!Call, AllowReboot, history
<1>12. CASE ProjectSucceeded
  BY <1>12 DEF ProjectSucceeded, EndProject, runVars, history
<1>13. CASE SendOutcome
  BY <1>13 DEF SendOutcome, runVars, history
<1>14. CASE SendFails \/ ReportFails
  BY <1>14 DEF SendFails, ReportFails, runVars, history
<1>15. CASE ExitDaemon \/ PollAgain
  BY <1>15 DEF ExitDaemon, PollAgain, runVars, history
<1>16. ASSUME NEW m \in posts, RecordOutcome(m) \/ LoseOutcome(m) PROVE Flags'
  BY <1>16 DEF RecordOutcome, LoseOutcome, runVars, history
<1>17. CASE StartFails \/ Terminate
  BY <1>17 DEF StartFails, Terminate, runVars, history
<1>18. CASE Crash \/ MachineReboots
  BY <1>18 DEF Crash, MachineReboots, ForgetProcess, history
<1>19. CASE Restart \/ StartUnit \/ Boot
  BY <1>19 DEF Restart, StartUnit, Boot, runVars, history
<1>20. CASE ShutdownSignals
  BY <1>20 DEF ShutdownSignals, runVars, history
<1>21. CASE UNCHANGED vars
  BY <1>21 DEF vars, runVars, history
<1> QED
  BY <1>1, <1>2, <1>3, <1>4, <1>5, <1>6, <1>7, <1>8, <1>9, <1>10, <1>11, <1>12, <1>13,
     <1>14, <1>15, <1>16, <1>17, <1>18, <1>19, <1>20, <1>21
     DEF Next, DaemonStep, ServerStep, SystemStep

-----------------------------------------------------------------------------
(* The other variables start in their ranges.                              *)
LEMMA RangesInit == Init => Ranges /\ TaskIsAttempted
  BY DeployAssumption DEF Init, Ranges, TaskIsAttempted

(* However a project ends, its task is reported and its directory removed. *)
LEMMA ProjectEnds ==
    PlaybookFailed \/ PlaybookRebooted \/ ProjectSucceeded =>
        /\ dpc = "executing" /\ dpc' = "reporting"
        /\ jobs' = jobs \ {cur}
        /\ UNCHANGED <<cur, book, ctxDone, runVars, serverVars, shutdown, faults, history>>
  BY Zenon DEF PlaybookFailed, PlaybookRebooted, ProjectSucceeded, PlaybookReturned, EndProject

(* What SendOutcome sends is an outcome.                                   *)
LEMMA SentOutcome ==
    ASSUME Flags, TaskIsAttempted, Ranges, SendOutcome
    PROVE  OutcomeOfTask \in Outcome
<1>1. cur \in Tasks /\ rebooted \in BOOLEAN
  BY DEF Flags, Ranges, TaskIsAttempted, SendOutcome
<1>2. CASE taskFailed
  BY <1>1, <1>2 DEF OutcomeOfTask, Outcome
<1>3. CASE ~taskFailed
  BY <1>1, <1>3 DEF OutcomeOfTask, Outcome
<1> QED
  BY <1>2, <1>3

(* The other variables keep their ranges.  That the histories are sets of  *)
(* tasks needs that the task in progress is one.                           *)
LEMMA RangesNext ==
    Flags /\ Ranges /\ TaskIsAttempted /\ [Next]_vars => Ranges' /\ TaskIsAttempted'
<1> SUFFICES ASSUME Flags, Ranges, TaskIsAttempted, [Next]_vars
             PROVE  Ranges' /\ TaskIsAttempted'
  OBVIOUS
<1> USE DeployAssumption DEF Ranges, TaskIsAttempted
<1>1. CASE StartDaemon
  BY <1>1 DEF StartDaemon, runVars, serverVars
<1>2. ASSUME NEW t \in Tasks, FetchTask(t) PROVE Ranges' /\ TaskIsAttempted'
  BY <1>2 DEF FetchTask, runVars, serverVars
<1>3. CASE FetchNothing
  BY <1>3 DEF FetchNothing, runVars, serverVars, history
<1>4. CASE RejectTask
  BY <1>4 DEF RejectTask, runVars, serverVars, history
<1>5. CASE StartProject
  BY <1>5 DEF StartProject, Run!Call, serverVars
<1>6. CASE PlaybookReboots
  BY <1>6 DEF PlaybookReboots, Run!IssueReboot, serverVars
<1>7. CASE PlaybookFails
  BY <1>7 DEF PlaybookFails, Run!Fail, serverVars, history
<1>8. CASE PlaybookReturns
  BY <1>8 DEF PlaybookReturns, Run!Return, Run!ReturnError, serverVars
<1>9. CASE PlaybookFailed \/ PlaybookRebooted \/ ProjectSucceeded
  BY <1>9, ProjectEnds DEF runVars, serverVars, history
<1>11. CASE NextPlaybook
  BY <1>11 DEF NextPlaybook, Run!Call, serverVars, history
<1>13. CASE SendOutcome
  BY <1>13, SentOutcome DEF SendOutcome, runVars, history
<1>14. CASE SendFails \/ ReportFails
  BY <1>14 DEF SendFails, ReportFails, runVars, serverVars, history
<1>15. CASE ExitDaemon \/ PollAgain
  BY <1>15 DEF ExitDaemon, PollAgain, runVars, serverVars, history
<1>16. ASSUME NEW m \in posts, RecordOutcome(m) \/ LoseOutcome(m)
       PROVE  Ranges' /\ TaskIsAttempted'
  BY <1>16 DEF RecordOutcome, LoseOutcome, Outcome, runVars, history
<1>17. CASE StartFails \/ Terminate
  BY <1>17 DEF StartFails, Terminate, Alive, runVars, serverVars, history
<1>18. CASE Crash \/ MachineReboots
  BY <1>18 DEF Crash, MachineReboots, ForgetProcess, serverVars, history
<1>19. CASE Restart \/ StartUnit \/ Boot
  BY <1>19 DEF Restart, StartUnit, Boot, runVars, serverVars, history
<1>20. CASE ShutdownSignals
  BY <1>20 DEF ShutdownSignals, runVars, serverVars, history
<1>21. CASE UNCHANGED vars
  BY <1>21 DEF vars, runVars, serverVars, history
<1> QED
  BY <1>1, <1>2, <1>3, <1>4, <1>5, <1>6, <1>7, <1>8, <1>9, <1>11, <1>13,
     <1>14, <1>15, <1>16, <1>17, <1>18, <1>19, <1>20, <1>21
     DEF Next, DaemonStep, ServerStep, SystemStep

(* The daemon, the server and the machine never leave the ranges of the    *)
(* variables.                                                              *)
THEOREM TypeCorrect == Spec => []TypeOK
<1>1. Init => Flags /\ Ranges /\ TaskIsAttempted
  BY FlagsInit, RangesInit
<1>2. Flags /\ Ranges /\ TaskIsAttempted /\ [Next]_vars
        => (Flags /\ Ranges /\ TaskIsAttempted)'
  BY FlagsNext, RangesNext
<1> QED
  BY <1>1, <1>2, PTL DEF Spec, TypeOK

-----------------------------------------------------------------------------
(* No job directory exists before the daemon is started.                   *)
LEMMA JobsInit == Init => JobsBelongToTask
  BY DEF Init, JobsBelongToTask

(* Every way into and out of a task keeps the jobs directory in step.      *)
LEMMA JobsNext == JobsBelongToTask /\ [Next]_vars => JobsBelongToTask'
<1> SUFFICES ASSUME JobsBelongToTask, [Next]_vars PROVE JobsBelongToTask'
  OBVIOUS
<1> USE DEF JobsBelongToTask
<1>1. CASE StartDaemon
  BY <1>1 DEF StartDaemon
<1>2. ASSUME NEW t \in Tasks, FetchTask(t) PROVE JobsBelongToTask'
  BY <1>2 DEF FetchTask
<1>3. CASE FetchNothing \/ RejectTask
  BY <1>3 DEF FetchNothing, RejectTask
<1>4. CASE StartProject \/ NextPlaybook
  BY <1>4 DEF StartProject, NextPlaybook, PlaybookReturned
<1>5. CASE PlaybookReboots \/ PlaybookFails \/ PlaybookReturns
  BY <1>5 DEF PlaybookReboots, PlaybookFails, PlaybookReturns
<1>6. CASE PlaybookFailed \/ PlaybookRebooted \/ ProjectSucceeded
  BY <1>6, ProjectEnds
<1>7. CASE SendOutcome \/ SendFails \/ ReportFails
  BY <1>7 DEF SendOutcome, SendFails, ReportFails
<1>8. CASE ExitDaemon \/ PollAgain
  BY <1>8 DEF ExitDaemon, PollAgain
<1>9. ASSUME NEW m \in posts, RecordOutcome(m) \/ LoseOutcome(m)
      PROVE  JobsBelongToTask'
  BY <1>9 DEF RecordOutcome, LoseOutcome
<1>10. CASE StartFails \/ Crash \/ Restart \/ StartUnit \/ MachineReboots \/ Boot
  BY <1>10 DEF StartFails, Crash, Restart, StartUnit, MachineReboots, Boot
<1>11. CASE Terminate \/ ShutdownSignals
  BY <1>11 DEF Terminate, ShutdownSignals
<1>12. CASE UNCHANGED vars
  BY <1>12 DEF vars
<1> QED
  BY <1>1, <1>2, <1>3, <1>4, <1>5, <1>6, <1>7, <1>8, <1>9, <1>10, <1>11, <1>12
     DEF Next, DaemonStep, ServerStep, SystemStep

(* No directory of an earlier task or process is ever left beside the one  *)
(* that is processed.                                                      *)
THEOREM JobsAreClean == Spec => []JobsBelongToTask
  BY JobsInit, JobsNext, PTL DEF Spec

-----------------------------------------------------------------------------
Typed == Flags /\ Ranges /\ TaskIsAttempted

(* The history only grows.                                                 *)
LEMMA HistoryGrows ==
    [Next]_vars => /\ attempted \subseteq attempted'
                   /\ finished \subseteq finished'
                   /\ issuedFor \subseteq issuedFor'
<1> SUFFICES ASSUME [Next]_vars
             PROVE  /\ attempted \subseteq attempted'
                    /\ finished \subseteq finished'
                    /\ issuedFor \subseteq issuedFor'
  OBVIOUS
<1>1. ASSUME NEW t \in Tasks, FetchTask(t)
      PROVE  attempted \subseteq attempted' /\ UNCHANGED <<finished, issuedFor>>
  BY <1>1 DEF FetchTask
<1>2. CASE PlaybookReturns
  BY <1>2 DEF PlaybookReturns
<1>3. CASE PlaybookReboots
  BY <1>3 DEF PlaybookReboots
<1>4. CASE StartDaemon \/ StartProject
  BY <1>4 DEF StartDaemon, StartProject
<1>5. CASE \/ FetchNothing \/ RejectTask \/ PlaybookFails \/ NextPlaybook
           \/ SendOutcome \/ SendFails \/ ReportFails \/ ExitDaemon \/ PollAgain
  BY <1>5 DEF FetchNothing, RejectTask, PlaybookFails, NextPlaybook, SendOutcome,
              SendFails, ReportFails, ExitDaemon, PollAgain, history
<1>6. CASE PlaybookFailed \/ PlaybookRebooted \/ ProjectSucceeded
  BY <1>6, ProjectEnds DEF history
<1>7. CASE ServerStep
  BY <1>7 DEF ServerStep, RecordOutcome, LoseOutcome, history
<1>8. CASE SystemStep
  BY <1>8 DEF SystemStep, StartFails, Terminate, Crash, Restart, StartUnit,
              ShutdownSignals, MachineReboots, Boot, history
<1>9. CASE UNCHANGED vars
  BY <1>9 DEF vars, history
<1> QED
  BY <1>1, <1>2, <1>3, <1>4, <1>5, <1>6, <1>7, <1>8, <1>9 DEF Next, DaemonStep

(* Outside of the executing state a step does not enter it, except by      *)
(* StartProject; within it, these are the steps that stay.                 *)
LEMMA StaysExecuting ==
    ASSUME [Next]_vars, dpc' = "executing"
    PROVE  \/ StartProject \/ PlaybookReboots \/ PlaybookFails \/ PlaybookReturns
           \/ NextPlaybook
           \/ /\ UNCHANGED <<dpc, cur, book, status, failed, initiated, issued, streak,
                             finished, issuedFor, shutdown>>
<1>1. CASE DaemonStep
  BY <1>1, ProjectEnds
     DEF DaemonStep, StartDaemon, FetchNothing, RejectTask, SendOutcome, SendFails,
         ReportFails, ExitDaemon, PollAgain, FetchTask
<1>2. CASE ServerStep
  BY <1>2 DEF ServerStep, RecordOutcome, LoseOutcome, runVars, history
<1>3. CASE SystemStep
  BY <1>3 DEF SystemStep, StartFails, Terminate, Crash, Restart, StartUnit,
              ShutdownSignals, MachineReboots, Boot, runVars, history
<1>4. CASE UNCHANGED vars
  BY <1>4 DEF vars, runVars, history
<1> QED
  BY <1>1, <1>2, <1>3, <1>4 DEF Next

(* Each call of controller.Run goes on from where the one before it ended. *)
LEMMA RunNext == Typed /\ RunIsOfPlaybook /\ [Next]_vars => RunIsOfPlaybook'
<1> SUFFICES ASSUME Typed, RunIsOfPlaybook, [Next]_vars, dpc' = "executing"
             PROVE  RunIsOfPlaybook'
  BY DEF RunIsOfPlaybook
<1> USE DEF RunIsOfPlaybook, Succeeded
<1>1. CASE StartProject
  BY <1>1, DeployAssumption DEF StartProject, Run!Call, Typed, Ranges, TaskIsAttempted
<1>2. CASE PlaybookReboots
  BY <1>2 DEF PlaybookReboots, Run!IssueReboot, Typed, Flags
<1>3. CASE PlaybookFails
  BY <1>3 DEF PlaybookFails, Run!Fail, history, Typed, Flags
<1>4. CASE PlaybookReturns
  <2>1. CASE Run!Return /\ ~failed
    BY <1>4, <2>1 DEF PlaybookReturns, Run!Return, Typed, Ranges, Flags
  <2>2. CASE Run!Return /\ failed
    BY <1>4, <2>2 DEF PlaybookReturns, Run!Return, Typed, Ranges, Flags
  <2>3. CASE Run!ReturnError
    BY <1>4, <2>3 DEF PlaybookReturns, Run!ReturnError, Typed, Ranges, Flags
  <2> QED
    BY <1>4, <2>1, <2>2, <2>3 DEF PlaybookReturns
<1>5. CASE NextPlaybook
  BY <1>5, DeployAssumption
     DEF NextPlaybook, Run!Call, PlaybookReturned, history, Typed, Ranges, TaskIsAttempted
<1>6. CASE UNCHANGED <<dpc, cur, book, status, failed, initiated, issued, streak,
                       finished, issuedFor, shutdown>>
  BY <1>6
<1> QED
  BY <1>1, <1>2, <1>3, <1>4, <1>5, <1>6, StaysExecuting

(* What is reported of a project is what happened to it.                   *)
LEMMA ReportNext ==
    Typed /\ RunIsOfPlaybook /\ ReportIsTrue /\ [Next]_vars => ReportIsTrue'
<1> SUFFICES ASSUME Typed, RunIsOfPlaybook, ReportIsTrue, [Next]_vars,
                    dpc' \in {"reporting", "awaiting"}
             PROVE  ReportIsTrue'
  BY DEF ReportIsTrue
<1> USE DEF ReportIsTrue
<1>1. CASE RejectTask
  BY <1>1 DEF RejectTask
<1>2. CASE PlaybookFailed
  BY <1>2 DEF PlaybookFailed, EndProject
<1>3. CASE PlaybookRebooted
  BY <1>3 DEF PlaybookRebooted, PlaybookReturned, EndProject, RunIsOfPlaybook, history,
              Typed, Flags, Ranges
<1>4. CASE ProjectSucceeded
  BY <1>4 DEF ProjectSucceeded, PlaybookReturned, EndProject, RunIsOfPlaybook, history
<1>5. CASE SendOutcome
  BY <1>5 DEF SendOutcome, history
<1>6. CASE UNCHANGED <<dpc, cur, taskFailed, rebooted, finished, issuedFor>>
  BY <1>6
<1> QED
  BY <1>1, <1>2, <1>3, <1>4, <1>5, <1>6
     DEF Next, DaemonStep, ServerStep, SystemStep, StartDaemon, FetchNothing, FetchTask,
         StartProject, NextPlaybook, PlaybookReboots, PlaybookFails, PlaybookReturns,
         PlaybookReturned, SendFails, ReportFails, ExitDaemon, PollAgain, RecordOutcome,
         LoseOutcome, StartFails, Terminate, Crash, Restart, StartUnit, ShutdownSignals,
         MachineReboots, Boot, vars, history

(* A reboot that was issued is lost only with the process that issued it.  *)
LEMMA RebootNext ==
    Typed /\ RunIsOfPlaybook /\ RebootIsComing /\ [Next]_vars => RebootIsComing'
<1> SUFFICES ASSUME Typed, RunIsOfPlaybook, RebootIsComing, [Next]_vars,
                    dpc' \in {"reporting", "awaiting", "polled"}, rebooted'
             PROVE  shutdown'
  BY DEF RebootIsComing
<1> USE DEF RebootIsComing
<1>1. CASE FetchNothing \/ RejectTask
  BY <1>1 DEF FetchNothing, RejectTask
<1>2. CASE PlaybookFailed \/ ProjectSucceeded
  BY <1>2 DEF PlaybookFailed, ProjectSucceeded, EndProject
<1>3. CASE PlaybookRebooted
  BY <1>3 DEF PlaybookRebooted, PlaybookReturned, EndProject, RunIsOfPlaybook
<1>4. CASE SendOutcome \/ SendFails \/ ReportFails
  BY <1>4 DEF SendOutcome, SendFails, ReportFails
<1>5. ASSUME NEW m \in posts, RecordOutcome(m) \/ LoseOutcome(m) PROVE shutdown'
  BY <1>5 DEF RecordOutcome, LoseOutcome
<1>6. CASE UNCHANGED <<dpc, rebooted, shutdown>>
  BY <1>6
<1> QED
  BY <1>1, <1>2, <1>3, <1>4, <1>5, <1>6
     DEF Next, DaemonStep, ServerStep, SystemStep, StartDaemon, FetchTask,
         StartProject, NextPlaybook, PlaybookReboots, PlaybookFails, PlaybookReturns,
         PlaybookReturned, ExitDaemon, PollAgain, StartFails, Terminate, Crash, Restart,
         StartUnit, ShutdownSignals, MachineReboots, Boot, vars

(* The daemon leaves by itself only with a reboot under way.               *)
LEMMA StrandedNext ==
    RebootIsComing /\ NeverStranded /\ [Next]_vars => NeverStranded'
<1> SUFFICES ASSUME RebootIsComing, NeverStranded, [Next]_vars, dpc' = "exited", ~ctxDone'
             PROVE  shutdown'
  BY DEF NeverStranded
<1>1. CASE ExitDaemon
  BY <1>1 DEF ExitDaemon, RebootIsComing
<1>2. CASE UNCHANGED <<dpc, ctxDone, shutdown>>
  BY <1>2 DEF NeverStranded
<1> QED
  BY <1>1, <1>2, ProjectEnds
     DEF Next, DaemonStep, ServerStep, SystemStep, StartDaemon, FetchTask, FetchNothing,
         RejectTask, StartProject, NextPlaybook, PlaybookReboots, PlaybookFails,
         PlaybookReturns, PlaybookReturned, SendOutcome, SendFails, ReportFails, PollAgain,
         RecordOutcome, LoseOutcome, StartFails, Terminate, Alive, Crash, Restart, StartUnit,
         ShutdownSignals, MachineReboots, Boot, vars

(* The step that sends a report is the only one that adds an outcome, the  *)
(* step that delivers one the only one that records it.                    *)
LEMMA ServerChanges ==
    ASSUME [Next]_vars
    PROVE  \/ SendOutcome
           \/ \E m \in posts : RecordOutcome(m)
           \/ UNCHANGED recorded /\ posts' \subseteq posts
<1>1. CASE DaemonStep /\ ~SendOutcome
  BY <1>1, ProjectEnds
     DEF DaemonStep, StartDaemon, FetchTask, FetchNothing, RejectTask, StartProject,
         NextPlaybook, PlaybookReboots, PlaybookFails, PlaybookReturns, SendFails,
         ReportFails, ExitDaemon, PollAgain, serverVars
<1>2. CASE ServerStep
  BY <1>2 DEF ServerStep, LoseOutcome
<1>3. CASE SystemStep
  BY <1>3 DEF SystemStep, StartFails, Terminate, Crash, Restart, StartUnit,
              ShutdownSignals, MachineReboots, Boot, serverVars
<1>4. CASE UNCHANGED vars
  BY <1>4 DEF vars, serverVars
<1> QED
  BY <1>1, <1>2, <1>3, <1>4 DEF Next

(* A report that is sent is true, and what is recorded was sent.           *)
LEMMA OutcomesNext ==
    Typed /\ ReportIsTrue /\ OutcomesAreTrue /\ [Next]_vars => OutcomesAreTrue'
<1> SUFFICES ASSUME Typed, ReportIsTrue, OutcomesAreTrue, [Next]_vars
             PROVE  OutcomesAreTrue'
  OBVIOUS
<1> USE HistoryGrows DEF OutcomesAreTrue
<1>1. CASE SendOutcome
  <2> DEFINE m == OutcomeOfTask
  <2>1. /\ m.task \in attempted
        /\ m.status = "succeeded" => m.task \in finished
        /\ m.reboot => m.status = "succeeded" /\ m.task \in issuedFor
    BY <1>1 DEF SendOutcome, OutcomeOfTask, ReportIsTrue, Typed, TaskIsAttempted
  <2>2. posts' = posts \cup {m} /\ UNCHANGED recorded
    BY <1>1 DEF SendOutcome
  <2> HIDE DEF m
  <2> QED
    BY <2>1, <2>2
<1>2. ASSUME NEW m \in posts, RecordOutcome(m) PROVE OutcomesAreTrue'
  BY <1>2 DEF RecordOutcome, Typed, Ranges
<1>3. CASE UNCHANGED recorded /\ posts' \subseteq posts
  BY <1>3
<1> QED
  BY <1>1, <1>2, <1>3, ServerChanges

-----------------------------------------------------------------------------
(* The inductive invariant.                                                *)
IInv ==
    /\ Typed /\ RunIsOfPlaybook /\ ReportIsTrue /\ RebootIsComing
    /\ OutcomesAreTrue /\ NeverStranded

(* IInv is an inductive invariant of the daemon, server and machine.       *)
LEMMA Inductive == Spec => []IInv
<1>1. Init => IInv
  BY FlagsInit, RangesInit
     DEF Init, IInv, Typed, RunIsOfPlaybook, ReportIsTrue, RebootIsComing,
         OutcomesAreTrue, NeverStranded
<1>2. IInv /\ [Next]_vars => IInv'
  BY FlagsNext, RangesNext, RunNext, ReportNext, RebootNext, OutcomesNext, StrandedNext
     DEF IInv, Typed
<1> QED
  BY <1>1, <1>2, PTL DEF Spec

(* However late, often or never a report arrives: an outcome is sent and   *)
(* recorded only of a task that was executed, a success only of one whose  *)
(* playbooks all returned without failure, and reboot_initiated only of a  *)
(* success whose attempt issued a reboot.                                  *)
THEOREM OutcomesTrue == Spec => []OutcomesAreTrue
  BY Inductive, PTL DEF IInv

(* A daemon that left without being signalled is started again, by the     *)
(* boot that follows the reboot it left for.                               *)
THEOREM NotStranded == Spec => []NeverStranded
  BY Inductive, PTL DEF IInv

(* The daemon and the server together are an at-least-once delivery.       *)
THEOREM Delivers == Spec => DeliversTasks
<1>1. Init => Delivery!Init
  BY DEF Init, Delivery!Init
<1>2. IInv /\ [Next]_vars => [Delivery!Next]_(Delivery!vars)
  <2> SUFFICES ASSUME IInv, [Next]_vars
               PROVE  Delivery!Next \/ UNCHANGED <<recorded, attempted, finished>>
    BY DEF Delivery!vars
  <2>1. ASSUME NEW t \in Tasks, FetchTask(t) PROVE Delivery!Attempt(t)
    BY <2>1 DEF FetchTask, serverVars, Delivery!Attempt
  <2>2. ASSUME PlaybookReturns, finished' # finished PROVE Delivery!Finish(cur) /\ cur \in Tasks
    BY <2>2 DEF PlaybookReturns, serverVars, Delivery!Finish, IInv, Typed, Ranges, TaskIsAttempted
  <2>3. ASSUME NEW m \in posts, RecordOutcome(m), recorded' # recorded
        PROVE  Delivery!Record(m.task, m.status) /\ m.task \in Tasks
                 /\ m.status \in {"succeeded", "failed"}
    <3>1. m.task \in Tasks /\ m.status \in {"succeeded", "failed"}
      BY DEF IInv, Typed, Ranges, Outcome
    <3>2. recorded[m.task] = "none"
      BY <2>3, <3>1 DEF RecordOutcome, IInv, Typed, Ranges
    <3> QED
      BY <2>3, <3>1, <3>2 DEF RecordOutcome, IInv, OutcomesAreTrue, history, Delivery!Record
  <2>4. \/ \E t \in Tasks : FetchTask(t)
        \/ PlaybookReturns
        \/ \E m \in posts : RecordOutcome(m)
        \/ UNCHANGED <<recorded, attempted, finished>>
    <3>1. CASE DaemonStep
      BY <3>1, ProjectEnds
         DEF DaemonStep, StartDaemon, FetchNothing, RejectTask, StartProject, NextPlaybook,
             PlaybookReboots, PlaybookFails, SendOutcome, SendFails, ReportFails,
             ExitDaemon, PollAgain, serverVars, history
    <3>2. CASE ServerStep
      BY <3>2 DEF ServerStep, LoseOutcome, history
    <3>3. CASE SystemStep
      BY <3>3 DEF SystemStep, StartFails, Terminate, Crash, Restart, StartUnit,
                  ShutdownSignals, MachineReboots, Boot, serverVars, history
    <3>4. CASE UNCHANGED vars
      BY <3>4 DEF vars, serverVars, history
    <3> QED
      BY <3>1, <3>2, <3>3, <3>4 DEF Next
  <2>5. PlaybookReturns => UNCHANGED <<recorded, attempted>>
    BY DEF PlaybookReturns, serverVars
  <2>6. \A m \in posts : RecordOutcome(m) => UNCHANGED <<attempted, finished>>
    BY DEF RecordOutcome, history
  <2> QED
    BY <2>1, <2>2, <2>3, <2>4, <2>5, <2>6 DEF Delivery!Next
<1> QED
  BY <1>1, <1>2, Inductive, PTL DEF Spec, DeliversTasks, Delivery!Spec

=============================================================================

------------------------------- MODULE PlayRun -------------------------------
(***************************************************************************)
(* controller.Run: one playbook executed against its hosts, one after the  *)
(* other.  The module follows the control of internal/controller/runner.go *)
(* and handlers.go: the task queue that include_tasks grows while it is    *)
(* being walked, loops, meta actions, notifications, the flush of pending  *)
(* handlers, force_handlers, and the early exits of the local              *)
(* (dibra-deploy) and the remote (SSH) mode, which differ.                 *)
(*                                                                         *)
(* What a module does on a host is abstracted to the outcome the runner    *)
(* branches on.  `when`, check mode, changed_when and failed_when only     *)
(* choose among those outcomes, so they are part of the choice.            *)
(***************************************************************************)
EXTENDS Naturals, Sequences, FiniteSets

CONSTANTS Targets,   \* handler names and `listen` topics a notify can resolve to
          NoName,    \* the name of a handler that was given none
          Files,     \* files an include_tasks can name
          NoFile,    \* the file of a task that is not an include_tasks
          Included,  \* what each file holds: a function from Files to task lists
          Plays      \* the playbooks and options that are run

MetaKinds == {"flush_handlers", "end_host", "end_play"}
Kinds == {"primitive", "module", "reboot", "include"} \cup MetaKinds

(* One task of a play.  `items` counts the loop items of a looped task.    *)
Task == [kind : Kinds, looped : BOOLEAN, items : Nat,
         notify : Seq(Targets), file : Files \cup {NoFile}]

Handler == [name : Targets \cup {NoName}, listen : SUBSET Targets, task : Task]

Play == [local : BOOLEAN, allowReboot : BOOLEAN, force : BOOLEAN, hosts : Nat,
         tasks : Seq(Task), handlers : Seq(Handler)]

(* What the daemon makes sure of before it runs a project: a reboot that is *)
(* written in a playbook is its last task, is not looped, and the playbook *)
(* is the last one.  Reboots in handlers and included files are not seen.  *)
RebootPlaced(p) ==
    \A i \in DOMAIN p.tasks :
        p.tasks[i].kind = "reboot" =>
            p.allowReboot /\ ~p.tasks[i].looped /\ i = Len(p.tasks)

ASSUME PlayRunAssumption ==
    /\ NoName \notin Targets
    /\ NoFile \notin Files
    /\ Included \in [Files -> Seq(Task)]
    /\ Plays \subseteq Play
    \* a local run replaces the host list by the single implicit localhost,
    \* and only the daemon asks for one
    /\ \A p \in Plays : p.local => p.hosts = 1 /\ RebootPlaced(p)

VARIABLES
    play,        \* the playbook and options of this run
    cancelled,   \* the context was cancelled (SIGTERM of the daemon)
    pc,          \* where Run is
    host,        \* index of the current host
    conn,        \* Run's own client for the current host is usable
    queue, idx,  \* taskQueue and taskIdx
    loop,        \* the loop in progress: next item, loopChanged, loopFailed
    pending,     \* pendingHandlers
    flush,       \* the flushHandlers call in progress
    hqueue, hidx,\* handlerQueue and handlerTaskIndex
    hostFailed, hostEnded, endPlay,
    failed, initiated, \* RunResult.Failed and RunResult.RebootInitiated
    owed,        \* history: handlers notified and not served since
    faulty,      \* history: something could not be done on some host
    issued       \* history: reboot commands issued so far

hostVars  == <<hostFailed, hostEnded, endPlay>>
flushVars == <<flush, hqueue, hidx>>
result    == <<failed, initiated>>
history   == <<owed, faulty, issued>>
vars == <<play, cancelled, pc, host, conn, queue, idx, loop, pending, flushVars,
          hostVars, result, history>>

NoFlush == [from |-> "none", scheduled |-> {}, ran |-> {}]
NoLoop  == [item |-> 1, changed |-> FALSE, failed |-> FALSE]

-----------------------------------------------------------------------------
(* The handler index: a handler is known by its position in the play.      *)

(* Of several handlers with one name the last is kept, in its place.       *)
Definitions(hs) ==
    {d \in DOMAIN hs : \A e \in DOMAIN hs : hs[e].name = hs[d].name => e <= d}

Unnamed(hs) == \E d \in DOMAIN hs : hs[d].name = NoName

(* Mutant: a handler that a later one of its name replaced can be notified.*)
SelectedOfAll(hs, target) == {d \in DOMAIN hs : hs[d].name = target \/ target \in hs[d].listen}

(* The handlers a notify target selects, by name and by topic.             *)
Selected(hs, target) ==
    {d \in Definitions(hs) : hs[d].name = target \/ target \in hs[d].listen}

SelectedByAll(hs, targets) ==
    UNION {Selected(hs, targets[i]) : i \in DOMAIN targets}

(* Notifying selects the handlers of every target; rendering the target at *)
(* some position may fail, which leaves those before it notified.          *)
Notified(t) == SelectedByAll(play.handlers, t.notify)
NotifiedUntilError(t) ==
    {SelectedByAll(play.handlers, SubSeq(t.notify, 1, k - 1)) : k \in DOMAIN t.notify}

(* A handler that already ran in the flush in progress is not run by it    *)
(* again: such a notification is taken as served.                          *)
Notify(handlers) ==
    /\ pending' = pending \cup handlers
    /\ owed' = owed \cup (handlers \ flush.ran)

-----------------------------------------------------------------------------
(* executeTaskOnce: the outcomes it can have.  "none" is hasResult = false:*)
(* arguments that do not render, no module, or an include_tasks.           *)

(* The agent can still be executed: Run's own connection is open and, in   *)
(* local mode, the context its processes are bound to is not cancelled.    *)
AgentReachable == conn /\ (play.local => ~cancelled)

(* debug, fail, assert, set_fact, include_vars, pause, noop: executed by   *)
(* the runner itself, always with a result.                                *)
PrimitiveOutcomes == {"ok", "changed", "skipped", "failed"}

Outcomes(t) ==
    CASE t.kind = "primitive" -> PrimitiveOutcomes
      [] t.kind = "module" /\ AgentReachable -> PrimitiveOutcomes \cup {"none"}
      [] OTHER -> {"skipped", "failed", "none"}

(* A task that is neither an include nor a reboot.                         *)
ExecuteModule(t, o) ==
    /\ t.kind \in {"primitive", "module"}
    /\ o \in Outcomes(t)
    /\ UNCHANGED <<conn, issued>>

(* A reboot: skipped, refused in local mode unless it is the last task of  *)
(* the last playbook, or issued.  In remote mode the runner closes its     *)
(* client before it waits for the host with connections of its own.        *)
ExecuteReboot(t, allowed, o) ==
    /\ t.kind = "reboot"
    /\ \/ /\ o \in {"skipped", "failed"} \cup (IF play.local /\ ~allowed THEN {} ELSE {"none"})
          /\ UNCHANGED <<conn, issued>>
       \/ /\ AgentReachable /\ (play.local => allowed)
          /\ o \in {"ok", "changed", "failed"}
          /\ issued' = issued + 1
          /\ conn' = play.local

(* An include_tasks that is skipped or whose file does not load: the local *)
(* mode reports a failed result, the remote mode no result at all.         *)
ExecuteIncludeInVain(t, o) ==
    /\ t.kind = "include"
    /\ o \in {"skipped", IF play.local THEN "failed" ELSE "none"}
    /\ UNCHANGED <<conn, issued>>

Execute(t, allowed, o) ==
    \/ ExecuteModule(t, o)
    \/ ExecuteReboot(t, allowed, o)
    \/ ExecuteIncludeInVain(t, o)

(* Something could not be done: a failure, or a task that was not executed.*)
Fault(o) == faulty' = (faulty \/ o \in {"failed", "none"} \/ hostFailed')

(* The included tasks go right behind the task at position i.              *)
Splice(q, i, new) == SubSeq(q, 1, i) \o new \o SubSeq(q, i + 1, Len(q))

RebootTasks(q) == {i \in DOMAIN q : q[i].kind = "reboot"}

-----------------------------------------------------------------------------
Init ==
    /\ play \in Plays
    /\ cancelled = FALSE
    /\ pc = "load" /\ host = 1 /\ conn = FALSE
    /\ queue = <<>> /\ idx = 1 /\ loop = NoLoop
    /\ pending = {} /\ flush = NoFlush /\ hqueue = <<>> /\ hidx = 1
    /\ hostFailed = FALSE /\ hostEnded = FALSE /\ endPlay = FALSE
    /\ failed = FALSE /\ initiated = FALSE
    /\ owed = {} /\ faulty = FALSE /\ issued = 0

(* SIGTERM reaches the process that runs the play: only dibra-deploy hands *)
(* Run a context that can be cancelled.                                    *)
Cancel ==
    /\ play.local /\ ~cancelled /\ pc \notin {"done", "error"}
    /\ cancelled' = TRUE
    /\ UNCHANGED <<play, pc, host, conn, queue, idx, loop, pending, flushVars,
                   hostVars, result, history>>

(* Configuration, inventory, variables and import_tasks are loaded before  *)
(* the first host, and the context is looked at.                           *)
Load ==
    /\ pc = "load"
    /\ \/ pc' = "host" /\ ~cancelled
       \/ pc' = "error"
    /\ UNCHANGED <<play, cancelled, host, conn, queue, idx, loop, pending, flushVars,
                   hostVars, result, history>>

(* The host cannot be connected to, its agent cannot be resolved, uploaded *)
(* or made executable, or the handler index cannot be built: the host is   *)
(* given up and the next one is tried.                                     *)
HostUnusable ==
    /\ pc = "host" /\ host <= play.hosts
    /\ faulty' = TRUE
    /\ failed' = TRUE
    /\ host' = host + 1
    /\ UNCHANGED <<play, cancelled, pc, conn, queue, idx, loop, pending, flushVars,
                   hostVars, initiated, owed, issued>>

StartHost ==
    /\ pc = "host" /\ host <= play.hosts /\ ~Unnamed(play.handlers)
    /\ pc' = "task" /\ conn' = TRUE
    /\ queue' = play.tasks /\ idx' = 1
    /\ pending' = {} /\ owed' = {}
    /\ hostFailed' = FALSE /\ hostEnded' = FALSE
    /\ UNCHANGED <<play, cancelled, host, loop, flushVars, endPlay, result, faulty, issued>>

NoMoreHosts ==
    /\ pc = "host" /\ host > play.hosts
    /\ pc' = "done"
    /\ UNCHANGED <<play, cancelled, host, conn, queue, idx, loop, pending, flushVars,
                   hostVars, result, history>>

-----------------------------------------------------------------------------
(* The task loop of one host.                                              *)

Current == queue[idx]

(* The context is cancelled at the top of the task loop: Run returns its   *)
(* error at once, no handler runs and no further host is tried.            *)
Interrupted ==
    /\ pc = "task" /\ idx <= Len(queue) /\ cancelled
    /\ pc' = "error"
    /\ UNCHANGED <<play, cancelled, host, conn, queue, idx, loop, pending, flushVars,
                   hostVars, result, history>>

TooManyReboots == play.local /\ Cardinality(RebootTasks(queue)) > 1

AtTask == pc = "task" /\ idx <= Len(queue) /\ ~cancelled /\ ~TooManyReboots

(* The host has failed and its task loop ends here.                        *)
StopHost ==
    /\ failed' = TRUE
    /\ hostFailed' = TRUE
    /\ pc' = "drained"
    /\ UNCHANGED <<idx, hostEnded, endPlay>>

NextTask ==
    /\ idx' = idx + 1 /\ pc' = "task"
    /\ UNCHANGED <<failed, hostVars>>

(* Mutant: the local mode goes on with the next task as well.              *)
FailTaskAndGoOn ==
    /\ failed' = TRUE /\ hostFailed' = TRUE
    /\ pc' = "task" /\ idx' = idx + 1
    /\ UNCHANGED <<hostEnded, endPlay>>

(* The host has failed; the local mode stops there, the remote mode goes   *)
(* on with the next task.                                                  *)
FailTask ==
    /\ failed' = TRUE
    /\ hostFailed' = TRUE
    /\ IF play.local THEN pc' = "drained" /\ UNCHANGED idx
                     ELSE pc' = "task" /\ idx' = idx + 1
    /\ UNCHANGED <<hostEnded, endPlay>>

RefuseReboots ==
    /\ pc = "task" /\ idx <= Len(queue) /\ ~cancelled /\ TooManyReboots
    /\ StopHost /\ faulty' = TRUE
    /\ UNCHANGED <<play, cancelled, host, conn, queue, loop, pending, flushVars, initiated, owed, issued>>

(* An invalid register name, or variables or a loop that do not resolve.   *)
UnresolvableTask ==
    /\ AtTask
    /\ FailTask /\ faulty' = TRUE
    /\ UNCHANGED <<play, cancelled, host, conn, queue, loop, pending, flushVars, initiated, owed, issued>>

(* A meta task: its condition does not evaluate, is false, or it is acted  *)
(* upon.                                                                   *)
MetaUnevaluable ==
    /\ AtTask /\ Current.kind \in MetaKinds
    /\ StopHost /\ faulty' = TRUE
    /\ UNCHANGED <<play, cancelled, host, conn, queue, loop, pending, flushVars, initiated, owed, issued>>

MetaSkipped ==
    /\ AtTask /\ Current.kind \in MetaKinds
    /\ NextTask
    /\ UNCHANGED <<play, cancelled, host, conn, queue, loop, pending, flushVars, initiated,
                   history>>

FlushHandlersTask ==
    /\ AtTask /\ Current.kind = "flush_handlers"
    /\ pc' = "flush" /\ flush' = [NoFlush EXCEPT !.from = "meta"]
    /\ UNCHANGED <<play, cancelled, host, conn, queue, idx, loop, pending, hqueue, hidx,
                   hostVars, result, history>>

EndTask ==
    /\ AtTask /\ Current.kind \in {"end_host", "end_play"}
    /\ hostEnded' = TRUE
    /\ endPlay' = (endPlay \/ Current.kind = "end_play")
    /\ pc' = "drained"
    /\ UNCHANGED <<play, cancelled, host, conn, queue, idx, loop, pending, flushVars,
                   hostFailed, result, history>>

(* What the runner does with the outcome of a task that is not looped: a   *)
(* change notifies, and a notify target that does not render is a failure. *)
Conclude(t, o) ==
    \/ o = "none" /\ t.kind = "include" /\ NextTask /\ UNCHANGED <<pending, owed>>
    \/ o = "none" /\ t.kind # "include" /\ StopHost /\ UNCHANGED <<pending, owed>>
    \/ o = "failed" /\ StopHost /\ UNCHANGED <<pending, owed>>
    \/ o \in {"ok", "skipped"} /\ NextTask /\ UNCHANGED <<pending, owed>>
    \/ o = "changed" /\ NextTask /\ Notify(Notified(t))
    \/ o = "changed" /\ StopHost /\ \E hs \in NotifiedUntilError(t) : Notify(hs)

RunTask ==
    /\ AtTask /\ ~Current.looped /\ Current.kind \notin MetaKinds \cup {"reboot"}
    /\ \E o \in {"ok", "changed", "skipped", "failed", "none"} :
          /\ Execute(Current, FALSE, o)
          /\ Conclude(Current, o)
          /\ Fault(o)
    /\ UNCHANGED <<play, cancelled, host, queue, loop, flushVars, initiated>>

(* include_tasks: the tasks of the file are run next.                      *)
IncludeTasks ==
    /\ AtTask /\ ~Current.looped /\ Current.kind = "include"
    /\ Current.file \in Files
    /\ queue' = Splice(queue, idx, Included[Current.file])
    /\ NextTask
    /\ UNCHANGED <<play, cancelled, host, conn, loop, pending, flushVars, initiated, history>>

(* Mutant: any task of the last playbook may reboot.                       *)
MayRebootAnywhere == play.local /\ play.allowReboot

MayReboot == play.local /\ play.allowReboot /\ idx = Len(queue)

(* Mutant: RebootInitiated is set before the outcome is looked at.         *)
RunRebootClaimed ==
    /\ AtTask /\ ~Current.looped /\ Current.kind = "reboot"
    /\ \E o \in {"ok", "changed", "skipped", "failed", "none"} :
          Execute(Current, MayReboot, o) /\ Conclude(Current, o) /\ Fault(o)
    /\ initiated' = (initiated \/ issued' > issued)
    /\ UNCHANGED <<play, cancelled, host, queue, loop, flushVars>>

RunReboot ==
    /\ AtTask /\ ~Current.looped /\ Current.kind = "reboot"
    /\ \E o \in {"ok", "changed", "skipped", "failed", "none"} :
          /\ Execute(Current, MayReboot, o)
          /\ Conclude(Current, o)
          /\ Fault(o)
    \* the result says that the host reboots only when nothing after it failed
    /\ initiated' = (initiated \/ (issued' > issued /\ pc' = "task"))
    /\ UNCHANGED <<play, cancelled, host, queue, loop, flushVars>>

-----------------------------------------------------------------------------
(* Loops.                                                                  *)

(* A looped include_tasks puts the file's tasks behind itself once for     *)
(* every item whose condition holds.                                       *)
Repeat(s, n) == [i \in 1 .. n * Len(s) |-> s[((i - 1) % Len(s)) + 1]]

IncludeTasksForLoop ==
    /\ AtTask /\ Current.looped /\ Current.kind = "include"
    /\ \/ /\ Current.file \in Files
          /\ \E n \in 0 .. Current.items :
                queue' = Splice(queue, idx, Repeat(Included[Current.file], n))
          /\ NextTask /\ UNCHANGED faulty
       \/ FailTask /\ faulty' = TRUE /\ UNCHANGED queue
    /\ UNCHANGED <<play, cancelled, host, conn, loop, pending, flushVars, initiated, owed, issued>>

EmptyLoop ==
    /\ AtTask /\ Current.looped /\ Current.items = 0
    /\ Current.kind \notin MetaKinds \cup {"include"}
    /\ NextTask
    /\ UNCHANGED <<play, cancelled, host, conn, queue, loop, pending, flushVars, initiated,
                   history>>

BeginLoop ==
    /\ AtTask /\ Current.looped /\ Current.items > 0
    /\ Current.kind \notin MetaKinds \cup {"include"}
    /\ pc' = "loop" /\ loop' = NoLoop
    /\ UNCHANGED <<play, cancelled, host, conn, queue, idx, pending, flushVars, hostVars,
                   result, history>>

(* An item is executed; the items behind a failed one are executed too.    *)
(* An item without a result fails the loop in local mode only.             *)
LoopItem ==
    /\ pc = "loop" /\ loop.item <= Current.items
    /\ \E o \in {"ok", "changed", "skipped", "failed", "none"} :
          /\ Execute(Current, FALSE, o)
          /\ loop' = [item |-> loop.item + 1,
                      changed |-> loop.changed \/ o = "changed",
                      failed |-> loop.failed \/ o = "failed" \/ (o = "none" /\ play.local)]
          /\ faulty' = (faulty \/ o \in {"failed", "none"})
    /\ UNCHANGED <<play, cancelled, pc, host, queue, idx, pending, flushVars, hostVars,
                   result, owed>>

(* Every item of a loop that changed something notifies, whether or not it *)
(* is the item that changed; a loop that failed notifies nobody.           *)
LoopNotifiedUntilError(t) ==
    NotifiedUntilError(t)
    \cup (IF t.items > 1 /\ t.notify # <<>> THEN {Notified(t)} ELSE {})

EndLoop ==
    /\ pc = "loop" /\ loop.item > Current.items
    /\ \/ /\ loop.failed /\ StopHost
          /\ UNCHANGED <<pending, owed, faulty>>
       \/ /\ ~loop.failed /\ NextTask
          /\ IF loop.changed THEN Notify(Notified(Current)) ELSE UNCHANGED <<pending, owed>>
          /\ UNCHANGED faulty
       \/ /\ ~loop.failed /\ loop.changed /\ FailTask /\ faulty' = TRUE
          /\ \E hs \in LoopNotifiedUntilError(Current) : Notify(hs)
    /\ loop' = NoLoop
    /\ UNCHANGED <<play, cancelled, host, conn, queue, flushVars, initiated, issued>>

TasksDone ==
    /\ pc = "task" /\ idx > Len(queue)
    /\ pc' = "drained"
    /\ UNCHANGED <<play, cancelled, host, conn, queue, idx, loop, pending, flushVars,
                   hostVars, result, history>>

-----------------------------------------------------------------------------
(* flushHandlers.                                                          *)

(* What is scheduled in this round and has not run in this flush.          *)
Ready == flush.scheduled \ flush.ran

(* Mutant: a notification during a round starts the next round at once.    *)
BeginRoundAtOnce ==
    /\ pc = "flush" /\ pending # {}
    /\ flush' = [flush EXCEPT !.scheduled = pending]
    /\ pending' = {}
    /\ UNCHANGED <<play, cancelled, pc, host, conn, queue, idx, loop, hqueue, hidx,
                   hostVars, result, history>>

(* The handlers notified since the last round become the next round.       *)
BeginRound ==
    /\ pc = "flush" /\ Ready = {} /\ pending # {}
    /\ flush' = [flush EXCEPT !.scheduled = pending]
    /\ pending' = {}
    /\ UNCHANGED <<play, cancelled, pc, host, conn, queue, idx, loop, hqueue, hidx,
                   hostVars, result, history>>

(* Mutant: that a handler ran in this flush is not remembered.             *)
BeginHandlerAgain ==
    /\ pc = "flush"
    /\ \E d \in Ready :
          /\ \A e \in Ready : d <= e
          /\ flush' = [flush EXCEPT !.scheduled = @ \ {d}]
          /\ hqueue' = <<play.handlers[d].task>> /\ hidx' = 1
          /\ owed' = owed \ {d}
    /\ pc' = "handler"
    /\ UNCHANGED <<play, cancelled, host, conn, queue, idx, loop, pending, hostVars,
                   result, faulty, issued>>

(* Handlers run in the order of their definitions.                         *)
BeginHandler ==
    /\ pc = "flush"
    /\ \E d \in Ready :
          /\ \A e \in Ready : d <= e
          /\ flush' = [flush EXCEPT !.ran = @ \cup {d}]
          /\ hqueue' = <<play.handlers[d].task>> /\ hidx' = 1
          /\ owed' = owed \ {d}
    /\ pc' = "handler"
    /\ UNCHANGED <<play, cancelled, host, conn, queue, idx, loop, pending, hostVars,
                   result, faulty, issued>>

(* Mutant: a flush is a single round.                                      *)
EndFlushAfterRound ==
    /\ pc = "flush" /\ Ready = {}
    /\ flush' = NoFlush
    /\ \/ flush.from = "meta" /\ pc' = "task" /\ idx' = idx + 1
       \/ flush.from = "final" /\ pc' = "closing" /\ UNCHANGED idx
    /\ UNCHANGED <<play, cancelled, host, conn, queue, loop, pending, hqueue, hidx,
                   hostVars, result, history>>

(* Nothing is pending any more: back behind the flush_handlers task, or    *)
(* the host is finished.                                                   *)
EndFlush ==
    /\ pc = "flush" /\ Ready = {} /\ pending = {}
    /\ flush' = NoFlush
    /\ \/ flush.from = "meta" /\ pc' = "task" /\ idx' = idx + 1
       \/ flush.from = "final" /\ pc' = "closing" /\ UNCHANGED idx
    /\ UNCHANGED <<play, cancelled, host, conn, queue, loop, pending, hqueue, hidx,
                   hostVars, result, history>>

(* Mutant: a handler that fails in the final flush does not fail the run.  *)
AbortFlushQuietly ==
    /\ failed' = (failed \/ flush.from = "meta") /\ faulty' = TRUE
    /\ flush' = NoFlush
    /\ \/ flush.from = "meta" /\ hostFailed' = TRUE /\ pc' = "drained"
       \/ flush.from = "final" /\ UNCHANGED hostFailed /\ pc' = "closing"
    /\ UNCHANGED hidx

(* A handler failed: flushHandlers returns at once, and the handlers that  *)
(* were scheduled behind it are forgotten.  A flush_handlers task then     *)
(* fails its host.                                                         *)
AbortFlush ==
    /\ failed' = TRUE /\ faulty' = TRUE
    /\ flush' = NoFlush
    /\ \/ flush.from = "meta" /\ hostFailed' = TRUE /\ pc' = "drained"
       \/ flush.from = "final" /\ UNCHANGED hostFailed /\ pc' = "closing"
    /\ UNCHANGED hidx

NextHandlerTask ==
    /\ hidx' = hidx + 1 /\ pc' = "handler"
    /\ UNCHANGED <<flush, failed, hostFailed>>

HandlerDone ==
    /\ pc = "handler" /\ hidx > Len(hqueue)
    /\ pc' = "flush"
    /\ UNCHANGED <<play, cancelled, host, conn, queue, idx, loop, pending, flushVars,
                   hostVars, result, history>>

AtHandlerTask == pc = "handler" /\ hidx <= Len(hqueue)
HandlerTask == hqueue[hidx]

(* A meta action other than noop cannot be used from a handler; the        *)
(* register name, the variables or the loop of any handler may not resolve.*)
UnusableHandler ==
    /\ AtHandlerTask
    /\ AbortFlush
    /\ UNCHANGED <<play, cancelled, host, conn, queue, idx, loop, pending, hqueue,
                   hostEnded, endPlay, initiated, owed, issued>>

ConcludeHandler(t, o) ==
    \/ o = "none" /\ t.kind = "include" /\ NextHandlerTask /\ Fault(o) /\ UNCHANGED <<pending, owed>>
    \/ o = "none" /\ t.kind # "include" /\ AbortFlush /\ UNCHANGED <<pending, owed>>
    \/ o = "failed" /\ AbortFlush /\ UNCHANGED <<pending, owed>>
    \/ o \in {"ok", "skipped"} /\ NextHandlerTask /\ UNCHANGED <<pending, owed, faulty>>
    \/ o = "changed" /\ NextHandlerTask /\ UNCHANGED faulty /\ Notify(Notified(t))
    \/ o = "changed" /\ AbortFlush /\ \E hs \in NotifiedUntilError(t) : Notify(hs)

(* A reboot is refused in a handler of a local run.                        *)
RunHandlerTask ==
    /\ AtHandlerTask /\ ~HandlerTask.looped /\ HandlerTask.kind \notin MetaKinds
    /\ \E o \in {"ok", "changed", "skipped", "failed", "none"} :
          /\ Execute(HandlerTask, FALSE, o)
          /\ ConcludeHandler(HandlerTask, o)
    /\ UNCHANGED <<play, cancelled, host, queue, idx, loop, hqueue, hostEnded, endPlay,
                   initiated>>

HandlerIncludeTasks ==
    /\ AtHandlerTask /\ HandlerTask.kind = "include" /\ HandlerTask.file \in Files
    /\ \E n \in IF HandlerTask.looped THEN 0 .. HandlerTask.items ELSE {1} :
          hqueue' = Splice(hqueue, hidx, Repeat(Included[HandlerTask.file], n))
    /\ NextHandlerTask
    /\ UNCHANGED <<play, cancelled, host, conn, queue, idx, loop, pending, hostEnded, endPlay,
                   initiated, history>>

BeginHandlerLoop ==
    /\ AtHandlerTask /\ HandlerTask.looped
    /\ HandlerTask.kind \notin MetaKinds \cup {"include"}
    /\ pc' = "handlerLoop" /\ loop' = NoLoop
    /\ UNCHANGED <<play, cancelled, host, conn, queue, idx, pending, flushVars, hostVars,
                   result, history>>

(* An item without a result ends the loop and with it the flush.           *)
HandlerLoopItem ==
    /\ pc = "handlerLoop" /\ loop.item <= HandlerTask.items
    /\ \E o \in {"ok", "changed", "skipped", "failed", "none"} :
          /\ Execute(HandlerTask, FALSE, o)
          /\ \/ /\ o = "none" /\ AbortFlush
                /\ loop' = NoLoop
             \/ /\ o # "none"
                /\ loop' = [item |-> loop.item + 1,
                            changed |-> loop.changed \/ o = "changed",
                            failed |-> loop.failed \/ o = "failed"]
                /\ faulty' = (faulty \/ o = "failed")
                /\ UNCHANGED <<pc, flush, hidx, failed, hostFailed>>
    /\ UNCHANGED <<play, cancelled, host, queue, idx, pending, hqueue, hostEnded, endPlay,
                   initiated, owed>>

EndHandlerLoop ==
    /\ pc = "handlerLoop" /\ loop.item > HandlerTask.items
    /\ \/ /\ loop.failed /\ AbortFlush
          /\ UNCHANGED <<pending, owed>>
       \/ /\ ~loop.failed /\ NextHandlerTask
          /\ IF loop.changed THEN Notify(Notified(HandlerTask)) ELSE UNCHANGED <<pending, owed>>
          /\ UNCHANGED faulty
       \/ /\ ~loop.failed /\ loop.changed /\ AbortFlush
          /\ \E hs \in LoopNotifiedUntilError(HandlerTask) : Notify(hs)
    /\ loop' = NoLoop
    /\ UNCHANGED <<play, cancelled, host, conn, queue, idx, hqueue, hostEnded, endPlay,
                   initiated, issued>>

-----------------------------------------------------------------------------
(* Mutant: the handlers of a host that was ended run.                      *)
FinalFlushAlways ==
    /\ pc = "drained" /\ (hostFailed => play.force)
    /\ pc' = "flush" /\ flush' = [NoFlush EXCEPT !.from = "final"]
    /\ UNCHANGED <<play, cancelled, host, conn, queue, idx, loop, pending, hqueue, hidx,
                   hostVars, result, history>>

(* The end of a host: handlers that are still pending run unless the host  *)
(* was ended, or failed without force_handlers.                            *)
FinalFlush ==
    /\ pc = "drained" /\ ~hostEnded /\ (hostFailed => play.force)
    /\ pc' = "flush" /\ flush' = [NoFlush EXCEPT !.from = "final"]
    /\ UNCHANGED <<play, cancelled, host, conn, queue, idx, loop, pending, hqueue, hidx,
                   hostVars, result, history>>

NoFinalFlush ==
    /\ pc = "drained" /\ (hostEnded \/ (hostFailed /\ ~play.force))
    /\ pc' = "closing"
    /\ UNCHANGED <<play, cancelled, host, conn, queue, idx, loop, pending, flushVars,
                   hostVars, result, history>>

(* Mutant: end_play ends the current host only.                            *)
NextHostAlways ==
    /\ pc = "closing"
    /\ pc' = "host" /\ host' = host + 1
    /\ UNCHANGED <<play, cancelled, conn, queue, idx, loop, pending, flushVars, hostVars,
                   result, history>>

NextHost ==
    /\ pc = "closing"
    /\ IF endPlay THEN pc' = "done" /\ UNCHANGED host
                  ELSE pc' = "host" /\ host' = host + 1
    /\ UNCHANGED <<play, cancelled, conn, queue, idx, loop, pending, flushVars, hostVars,
                   result, history>>

TaskStep ==
    \/ Interrupted \/ RefuseReboots \/ UnresolvableTask
    \/ MetaUnevaluable \/ MetaSkipped \/ FlushHandlersTask \/ EndTask
    \/ RunTask \/ IncludeTasks \/ RunReboot
    \/ IncludeTasksForLoop \/ EmptyLoop \/ BeginLoop \/ LoopItem \/ EndLoop
    \/ TasksDone

FlushStep ==
    \/ BeginRound \/ BeginHandler \/ EndFlush \/ HandlerDone
    \/ UnusableHandler \/ RunHandlerTask \/ HandlerIncludeTasks
    \/ BeginHandlerLoop \/ HandlerLoopItem \/ EndHandlerLoop

HostStep ==
    \/ HostUnusable \/ StartHost \/ NoMoreHosts
    \/ FinalFlush \/ NoFinalFlush \/ NextHost

RunStep == Load \/ HostStep \/ TaskStep \/ FlushStep

Next == RunStep \/ Cancel

Returned == pc \in {"done", "error"}

Spec == Init /\ [][Next]_vars

(* The process runs until Run returns; nothing makes a signal arrive.      *)
FairSpec == Spec /\ WF_vars(RunStep)

-----------------------------------------------------------------------------
(* Properties.                                                             *)

PCs == {"load", "host", "task", "loop", "flush", "handler", "handlerLoop",
        "drained", "closing", "done", "error"}

Flags ==
    /\ cancelled \in BOOLEAN /\ conn \in BOOLEAN
    /\ hostFailed \in BOOLEAN /\ hostEnded \in BOOLEAN /\ endPlay \in BOOLEAN
    /\ failed \in BOOLEAN /\ initiated \in BOOLEAN /\ faulty \in BOOLEAN

Places ==
    /\ play \in Plays /\ pc \in PCs
    /\ host \in Nat /\ idx \in Nat \ {0} /\ hidx \in Nat \ {0} /\ issued \in Nat
    /\ loop \in [item : Nat \ {0}, changed : BOOLEAN, failed : BOOLEAN]

Queues == queue \in Seq(Task) /\ hqueue \in Seq(Task)

KnownHandlers ==
    /\ pending \subseteq Definitions(play.handlers)
    /\ owed \subseteq Definitions(play.handlers)
    /\ flush \in [from : {"none", "meta", "final"},
                  scheduled : SUBSET Definitions(play.handlers),
                  ran : SUBSET Definitions(play.handlers)]

(* The variables range over what the declarations in Run say, and every    *)
(* handler that is pending, scheduled or done is one the index still has.  *)
TypeOK == Flags /\ Places /\ Queues /\ KnownHandlers

Flushing == pc \in {"flush", "handler", "handlerLoop"}

(* No notification is forgotten: as long as the host has not failed, a     *)
(* handler that a change notified and that was not run since (or earlier   *)
(* in the flush in progress) is pending or still to come in this round.    *)
NoLostNotification ==
    (pc \in {"task", "loop", "drained"} /\ ~hostFailed) \/ (Flushing /\ ~hostFailed)
        => owed \subseteq pending \cup Ready

(* A flush that is not aborted has run every handler that was notified     *)
(* before it or during it.                                                 *)
FlushServesAll ==
    [][(pc = "flush" /\ pc' \in {"task", "closing"} /\ ~hostFailed) => owed' = {}]_vars

(* RunResult.Failed of a local run says exactly whether something could    *)
(* not be done: no failure is swallowed and none is invented.              *)
LocalFailureSurfaces == (play.local /\ pc = "done") => (failed <=> faulty)

(* A local run stops its task list at the first failure: afterwards no     *)
(* task is started, and no handler unless handlers are forced.             *)
LocalStopsAtFailure ==
    [][(play.local /\ hostFailed) =>
          /\ idx' = idx /\ pc' \notin {"task", "loop"}
          /\ (pc' = "handler" => play.force)]_vars

(* A local run issues at most one reboot, only where it is allowed, and    *)
(* once it is issued nothing of the task list is left to be run: neither   *)
(* behind it nor behind tasks included meanwhile.                          *)
LocalRebootIsLast ==
    (play.local /\ issued > 0) =>
        /\ issued = 1 /\ play.allowReboot
        /\ pc \notin {"loop", "error"}
        /\ \/ idx = Len(queue) + 1
           \/ idx = Len(queue) /\ hostFailed /\ pc # "task"

(* A host that was ended runs no further task and none of its handlers,    *)
(* and end_play keeps every later host from being started.                 *)
EndIsFinal ==
    [][/\ (hostEnded /\ pc \in {"drained", "closing"}) => pc' \in {"closing", "host", "done", pc}
       /\ hostEnded => pc \in {"drained", "closing", "host", "done"}
       /\ endPlay => host' = host]_vars

(* Every run returns: included files are finite, a loop has an end, and    *)
(* handlers that notify each other run once per flush.                     *)
Termination == <>Returned

(* A local run keeps the contract the deployment daemon relies on: for it  *)
(* this is Contract!Spec (a playbook stays local or remote while it runs). *)
Contract == INSTANCE RunContract WITH
    status <- IF Returned THEN pc ELSE "running",
    may    <- play.allowReboot,
    issued <- issued > 0

KeepsContract ==
    /\ play.local => Contract!Init
    /\ [][play.local => [Contract!Next]_(Contract!vars)]_vars

=============================================================================

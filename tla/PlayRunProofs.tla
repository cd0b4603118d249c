---------------------------- MODULE PlayRunProofs ----------------------------
(***************************************************************************)
(* What PlayRun guarantees for every playbook, every set of included files *)
(* and any number of hosts.                                                *)
(***************************************************************************)
EXTENDS PlayRun, SequenceTheorems, TLAPS

(* The task queue is a queue of tasks whatever is included.                *)
LEMMA SpliceType ==
    ASSUME NEW S, NEW q \in Seq(S), NEW i \in Nat \ {0}, i <= Len(q), NEW new \in Seq(S)
    PROVE  Splice(q, i, new) \in Seq(S)
<1>1. SubSeq(q, 1, i) \in Seq(S)
  BY SubSeqProperties, ElementOfSeq, LenProperties
<1>2. SubSeq(q, i + 1, Len(q)) \in Seq(S)
  BY SubSeqProperties, ElementOfSeq, LenProperties
<1> QED
  BY <1>1, <1>2, ConcatProperties DEF Splice

(* So is a list of tasks that is included once per item.                   *)
LEMMA RepeatType ==
    ASSUME NEW S, NEW s \in Seq(S), NEW n \in Nat
    PROVE  Repeat(s, n) \in Seq(S)
<1> DEFINE len == Len(s)
<1>1. len \in Nat
  BY LenProperties
<1>2. n * len \in Nat
  BY <1>1
<1>3. ASSUME NEW i \in 1 .. n * len PROVE s[((i - 1) % len) + 1] \in S
  <2>1. len # 0
    BY <1>3
  <2>2. (i - 1) % len \in 0 .. len - 1
    BY <1>1, <2>1
  <2> QED
    BY <1>1, <2>2, ElementOfSeq
<1> QED
  BY <1>2, <1>3, IsASeq DEF Repeat

-----------------------------------------------------------------------------
(* The play of a run is a play.                                            *)
LEMMA PlayType == play \in Plays => play \in Play
  BY PlayRunAssumption

(* Outcomes leave the flags booleans, whether they are of a task of the    *)
(* play or of a handler.                                                   *)
LEMMA ExecuteFlags ==
    ASSUME Flags, play \in Play, NEW t, NEW allowed, NEW o, Execute(t, allowed, o)
    PROVE  conn' \in BOOLEAN
  BY DEF Execute, ExecuteModule, ExecuteReboot, ExecuteIncludeInVain, Flags, Play

(* The flags start as booleans and stay booleans.                          *)
LEMMA FlagsNext ==
    ASSUME Flags, play \in Play, [Next]_vars
    PROVE  Flags'
<1> USE DEF Flags, hostVars, result
<1>1. CASE Cancel \/ Load
  BY <1>1 DEF Cancel, Load, history
<1>2. CASE HostUnusable \/ StartHost \/ NoMoreHosts
  BY <1>2 DEF HostUnusable, StartHost, NoMoreHosts, history
<1>3. CASE FinalFlush \/ NoFinalFlush \/ NextHost
  BY <1>3 DEF FinalFlush, NoFinalFlush, NextHost, history
<1>4. CASE Interrupted \/ RefuseReboots \/ UnresolvableTask
  BY <1>4 DEF Interrupted, RefuseReboots, UnresolvableTask, StopHost, FailTask, history
<1>5. CASE MetaUnevaluable \/ MetaSkipped \/ FlushHandlersTask \/ EndTask \/ TasksDone
  BY <1>5 DEF MetaUnevaluable, MetaSkipped, FlushHandlersTask, EndTask, TasksDone,
              StopHost, NextTask, history
<1>6. CASE RunTask
  <2>1. conn' \in BOOLEAN
    BY <1>6, ExecuteFlags DEF RunTask
  <2> QED
    BY <1>6, <2>1 DEF RunTask, Conclude, NextTask, StopHost, Fault
<1>7. CASE RunReboot
  <2>1. conn' \in BOOLEAN
    BY <1>7, ExecuteFlags DEF RunReboot
  <2> QED
    BY <1>7, <2>1 DEF RunReboot, Conclude, NextTask, StopHost, Fault
<1>8. CASE IncludeTasks \/ IncludeTasksForLoop \/ EmptyLoop \/ BeginLoop
  BY <1>8 DEF IncludeTasks, IncludeTasksForLoop, EmptyLoop, BeginLoop, NextTask, FailTask,
              history
<1>9. CASE LoopItem
  <2>1. conn' \in BOOLEAN
    BY <1>9, ExecuteFlags DEF LoopItem
  <2> QED
    BY <1>9, <2>1 DEF LoopItem
<1>10. CASE EndLoop
  BY <1>10 DEF EndLoop, NextTask, StopHost, FailTask
<1>11. CASE BeginRound \/ BeginHandler \/ EndFlush \/ HandlerDone \/ BeginHandlerLoop
  BY <1>11 DEF BeginRound, BeginHandler, EndFlush, HandlerDone, BeginHandlerLoop, history
<1>12. CASE UnusableHandler \/ HandlerIncludeTasks
  BY <1>12 DEF UnusableHandler, HandlerIncludeTasks, AbortFlush, NextHandlerTask, history
<1>13. CASE RunHandlerTask
  <2>1. conn' \in BOOLEAN
    BY <1>13, ExecuteFlags DEF RunHandlerTask
  <2> QED
    BY <1>13, <2>1 DEF RunHandlerTask, ConcludeHandler, AbortFlush, NextHandlerTask, Fault
<1>14. CASE HandlerLoopItem
  <2>1. conn' \in BOOLEAN
    BY <1>14, ExecuteFlags DEF HandlerLoopItem
  <2> QED
    BY <1>14, <2>1 DEF HandlerLoopItem, AbortFlush
<1>15. CASE EndHandlerLoop
  BY <1>15 DEF EndHandlerLoop, AbortFlush, NextHandlerTask
<1>16. CASE UNCHANGED vars
  BY <1>16 DEF vars, history
<1> QED
  BY <1>1, <1>2, <1>3, <1>4, <1>5, <1>6, <1>7, <1>8, <1>9, <1>10, <1>11, <1>12, <1>13,
     <1>14, <1>15, <1>16
     DEF Next, RunStep, HostStep, TaskStep, FlushStep

(* Reboots are counted, whatever is executed.                              *)
LEMMA ExecuteIssued ==
    ASSUME issued \in Nat, NEW t, NEW allowed, NEW o, Execute(t, allowed, o)
    PROVE  issued' \in Nat
  BY DEF Execute, ExecuteModule, ExecuteReboot, ExecuteIncludeInVain

(* The loop in progress stays a loop when an item is executed.             *)
LEMMA LoopType ==
    ASSUME NEW S, NEW i \in S, NEW c \in BOOLEAN, NEW f \in BOOLEAN
    PROVE  [item |-> i, changed |-> c, failed |-> f]
               \in [item : S, changed : BOOLEAN, failed : BOOLEAN]
  OBVIOUS

(* A step of an outcome of a task goes to a place the program has.         *)
LEMMA ConcludePlaces ==
    ASSUME idx \in Nat \ {0}, pc \in PCs, NEW t, NEW o, Conclude(t, o)
    PROVE  idx' \in Nat \ {0} /\ pc' \in PCs
  BY DEF Conclude, NextTask, StopHost, PCs

(* So does a step of an outcome of a handler.                              *)
LEMMA ConcludeHandlerPlaces ==
    ASSUME hidx \in Nat \ {0}, pc \in PCs, NEW t, NEW o, ConcludeHandler(t, o)
    PROVE  hidx' \in Nat \ {0} /\ pc' \in PCs
  BY DEF ConcludeHandler, NextHandlerTask, AbortFlush, PCs

(* The run keeps to its places, and its counters to their ranges.          *)
LEMMA PlacesNext ==
    ASSUME Flags, Places, [Next]_vars
    PROVE  Places'
<1> USE DEF Places, PCs, flushVars
<1>0. play \in Play /\ NoLoop \in [item : Nat \ {0}, changed : BOOLEAN, failed : BOOLEAN]
  BY PlayType DEF NoLoop
<1>1. CASE Cancel \/ Load
  BY <1>1 DEF Cancel, Load, history
<1>2. CASE HostUnusable \/ StartHost \/ NoMoreHosts
  BY <1>2 DEF HostUnusable, StartHost, NoMoreHosts, history
<1>3. CASE FinalFlush \/ NoFinalFlush \/ NextHost
  BY <1>3 DEF FinalFlush, NoFinalFlush, NextHost, history
<1>4. CASE Interrupted \/ RefuseReboots \/ UnresolvableTask
  BY <1>4 DEF Interrupted, RefuseReboots, UnresolvableTask, StopHost, FailTask, history
<1>5. CASE MetaUnevaluable \/ MetaSkipped \/ FlushHandlersTask \/ EndTask \/ TasksDone
  BY <1>5 DEF MetaUnevaluable, MetaSkipped, FlushHandlersTask, EndTask, TasksDone,
              StopHost, NextTask, history
<1>6. CASE RunTask
  BY <1>6, ExecuteIssued, ConcludePlaces DEF RunTask
<1>7. CASE RunReboot
  BY <1>7, ExecuteIssued, ConcludePlaces DEF RunReboot
<1>8. CASE IncludeTasks \/ IncludeTasksForLoop \/ EmptyLoop \/ BeginLoop
  BY <1>0, <1>8 DEF IncludeTasks, IncludeTasksForLoop, EmptyLoop, BeginLoop, NextTask, FailTask,
              history
<1>9. CASE LoopItem
  <2>1. PICK o \in {"ok", "changed", "skipped", "failed", "none"} :
          /\ Execute(Current, FALSE, o)
          /\ loop' = [item |-> loop.item + 1,
                      changed |-> loop.changed \/ o = "changed",
                      failed |-> loop.failed \/ o = "failed" \/ (o = "none" /\ play.local)]
    BY <1>9 DEF LoopItem
  <2>2. loop' \in [item : Nat \ {0}, changed : BOOLEAN, failed : BOOLEAN]
    <3> DEFINE c == loop.changed \/ o = "changed"
               f == loop.failed \/ o = "failed" \/ (o = "none" /\ play.local)
    <3>1. loop.item + 1 \in Nat \ {0}
      OBVIOUS
    <3>2. c \in BOOLEAN /\ f \in BOOLEAN
      BY Zenon
    <3> HIDE DEF c, f
    <3> QED
      BY <2>1, <3>1, <3>2, LoopType DEF c, f
  <2> QED
    BY <1>9, <2>1, <2>2, ExecuteIssued DEF LoopItem
<1>10. CASE EndLoop
  BY <1>0, <1>10 DEF EndLoop, NextTask, StopHost, FailTask
<1>11. CASE BeginRound \/ BeginHandler \/ EndFlush \/ HandlerDone \/ BeginHandlerLoop
  BY <1>0, <1>11 DEF BeginRound, BeginHandler, EndFlush, HandlerDone, BeginHandlerLoop, history
<1>12. CASE UnusableHandler \/ HandlerIncludeTasks
  BY <1>12 DEF UnusableHandler, HandlerIncludeTasks, AbortFlush, NextHandlerTask, history
<1>13. CASE RunHandlerTask
  BY <1>13, ExecuteIssued, ConcludeHandlerPlaces DEF RunHandlerTask
<1>14. CASE HandlerLoopItem
  <2>1. PICK o \in {"ok", "changed", "skipped", "failed", "none"} :
          /\ Execute(HandlerTask, FALSE, o)
          /\ \/ AbortFlush /\ loop' = NoLoop
             \/ /\ loop' = [item |-> loop.item + 1,
                            changed |-> loop.changed \/ o = "changed",
                            failed |-> loop.failed \/ o = "failed"]
                /\ UNCHANGED <<pc, hidx>>
    BY <1>14 DEF HandlerLoopItem
  <2>2. loop' \in [item : Nat \ {0}, changed : BOOLEAN, failed : BOOLEAN]
    <3> DEFINE c == loop.changed \/ o = "changed"
               f == loop.failed \/ o = "failed"
    <3>1. loop.item + 1 \in Nat \ {0}
      OBVIOUS
    <3>2. c \in BOOLEAN /\ f \in BOOLEAN
      BY Zenon
    <3>3. [item |-> loop.item + 1, changed |-> c, failed |-> f]
              \in [item : Nat \ {0}, changed : BOOLEAN, failed : BOOLEAN]
      <4> HIDE DEF c, f
      <4> QED
        BY <3>1, <3>2, LoopType
    <3> QED
      BY <1>0, <2>1, <3>3, Zenon
  <2> QED
    BY <1>14, <2>1, <2>2, ExecuteIssued DEF HandlerLoopItem, AbortFlush
<1>15. CASE EndHandlerLoop
  BY <1>0, <1>15 DEF EndHandlerLoop, AbortFlush, NextHandlerTask
<1>16. CASE UNCHANGED vars
  BY <1>16 DEF vars, history
<1> QED
  BY <1>1, <1>2, <1>3, <1>4, <1>5, <1>6, <1>7, <1>8, <1>9, <1>10, <1>11, <1>12, <1>13,
     <1>14, <1>15, <1>16
     DEF Next, RunStep, HostStep, TaskStep, FlushStep

(* The queues stay queues of tasks, whatever is included.                  *)
LEMMA QueuesNext ==
    ASSUME Places, Queues, KnownHandlers, [Next]_vars
    PROVE  Queues'
<1> USE DEF Queues, flushVars
<1>0. play \in Play /\ Included \in [Files -> Seq(Task)]
  BY PlayType, PlayRunAssumption DEF Places
<1>1. CASE StartHost
  BY <1>0, <1>1 DEF StartHost, Play
<1>2. CASE IncludeTasks
  BY <1>0, <1>2, SpliceType DEF IncludeTasks, AtTask, Current, Places
<1>3. CASE IncludeTasksForLoop
  <2>1. CASE UNCHANGED queue
    BY <1>3, <2>1 DEF IncludeTasksForLoop
  <2>2. ASSUME NEW n \in 0 .. Current.items, Current.file \in Files,
               queue' = Splice(queue, idx, Repeat(Included[Current.file], n))
        PROVE  Queues'
    <3>1. n \in Nat /\ Included[Current.file] \in Seq(Task)
      BY <1>0, <2>2
    <3>2. Repeat(Included[Current.file], n) \in Seq(Task)
      BY <3>1, RepeatType
    <3> QED
      BY <1>3, <2>2, <3>2, SpliceType DEF IncludeTasksForLoop, AtTask, Places
  <2> QED
    BY <1>3, <2>1, <2>2 DEF IncludeTasksForLoop
<1>4. CASE BeginHandler
  <2>1. PICK d \in Ready : hqueue' = <<play.handlers[d].task>>
    BY <1>4 DEF BeginHandler
  <2>2. d \in DOMAIN play.handlers /\ play.handlers \in Seq(Handler)
    BY <1>0, <2>1 DEF Ready, KnownHandlers, Definitions, Play
  <2>3. play.handlers[d] \in Handler
    BY <2>2, LenProperties, ElementOfSeq
  <2>4. play.handlers[d].task \in Task
    BY <2>3 DEF Handler
  <2> QED
    BY <1>4, <2>1, <2>4 DEF BeginHandler
<1>5. CASE HandlerIncludeTasks
  <2>1. PICK n \in IF HandlerTask.looped THEN 0 .. HandlerTask.items ELSE {1} :
          hqueue' = Splice(hqueue, hidx, Repeat(Included[HandlerTask.file], n))
    BY <1>5 DEF HandlerIncludeTasks
  <2>2. n \in Nat /\ Included[HandlerTask.file] \in Seq(Task)
    BY <1>0, <1>5, <2>1 DEF HandlerIncludeTasks
  <2>3. Repeat(Included[HandlerTask.file], n) \in Seq(Task)
    BY <2>2, RepeatType
  <2> QED
    BY <1>5, <2>1, <2>3, SpliceType DEF HandlerIncludeTasks, AtHandlerTask, Places
<1>6. CASE UNCHANGED <<queue, hqueue>>
  BY <1>6
<1>7. \/ StartHost \/ IncludeTasks \/ IncludeTasksForLoop \/ BeginHandler \/ HandlerIncludeTasks
      \/ UNCHANGED <<queue, hqueue>>
  BY DEF Next, RunStep, HostStep, TaskStep, FlushStep, Cancel, Load, HostUnusable, NoMoreHosts,
         FinalFlush, NoFinalFlush, NextHost, Interrupted, RefuseReboots, UnresolvableTask,
         MetaUnevaluable, MetaSkipped, FlushHandlersTask, EndTask, RunTask, RunReboot,
         EmptyLoop, BeginLoop, LoopItem, EndLoop, TasksDone, BeginRound, EndFlush,
         HandlerDone, UnusableHandler, RunHandlerTask, BeginHandlerLoop, HandlerLoopItem,
         EndHandlerLoop, vars
<1> QED
  BY <1>1, <1>2, <1>3, <1>4, <1>5, <1>6, <1>7

(* Only handlers the index knows are ever notified.                        *)
LEMMA NotifiedKnown ==
    ASSUME NEW t
    PROVE  /\ Notified(t) \subseteq Definitions(play.handlers)
           /\ \A hs \in NotifiedUntilError(t) : hs \subseteq Definitions(play.handlers)
           /\ \A hs \in LoopNotifiedUntilError(t) : hs \subseteq Definitions(play.handlers)
<1>1. ASSUME NEW targets PROVE SelectedByAll(play.handlers, targets) \subseteq Definitions(play.handlers)
  BY DEF SelectedByAll, Selected
<1> QED
  BY <1>1 DEF Notified, NotifiedUntilError, LoopNotifiedUntilError

(* Notifying known handlers keeps what is pending and owed known.          *)
LEMMA NotifyKnown ==
    ASSUME KnownHandlers, play' = play, NEW hs, hs \subseteq Definitions(play.handlers),
           Notify(hs)
    PROVE  /\ pending' \subseteq Definitions(play'.handlers)
           /\ owed' \subseteq Definitions(play'.handlers)
  BY DEF KnownHandlers, Notify

(* A step that notifies nobody and is not of a flush changes none of them. *)
LEMMA KnownUnchanged ==
    ASSUME KnownHandlers, play' = play, UNCHANGED <<pending, owed, flush>>
    PROVE  KnownHandlers'
  BY DEF KnownHandlers

(* Neither does one that notifies known handlers, in a flush or not.       *)
LEMMA KnownNotified ==
    ASSUME KnownHandlers, play' = play, flush' = flush \/ flush' = NoFlush,
           \/ UNCHANGED <<pending, owed>>
           \/ \E hs \in SUBSET Definitions(play.handlers) : Notify(hs)
    PROVE  KnownHandlers'
<1>1. /\ pending' \subseteq Definitions(play'.handlers)
      /\ owed' \subseteq Definitions(play'.handlers)
  <2>1. CASE UNCHANGED <<pending, owed>>
    BY <2>1 DEF KnownHandlers
  <2>2. CASE \E hs \in SUBSET Definitions(play.handlers) : Notify(hs)
    BY <2>2, NotifyKnown
  <2> QED
    BY <2>1, <2>2
<1>2. flush' \in [from : {"none", "meta", "final"},
                  scheduled : SUBSET Definitions(play'.handlers),
                  ran : SUBSET Definitions(play'.handlers)]
  BY DEF KnownHandlers, NoFlush
<1> QED
  BY <1>1, <1>2 DEF KnownHandlers

(* The outcomes of a task or of a handler notify known handlers or nobody. *)
LEMMA ConcludeNotifies ==
    ASSUME NEW t, NEW o, Conclude(t, o) \/ ConcludeHandler(t, o)
    PROVE  \/ UNCHANGED <<pending, owed>>
           \/ \E hs \in SUBSET Definitions(play.handlers) : Notify(hs)
<1>1. Notified(t) \in SUBSET Definitions(play.handlers)
  BY NotifiedKnown
<1>2. NotifiedUntilError(t) \subseteq SUBSET Definitions(play.handlers)
  BY NotifiedKnown
<1> HIDE DEF Notified, NotifiedUntilError
<1> QED
  BY <1>1, <1>2 DEF Conclude, ConcludeHandler

(* Every handler that is pending, scheduled or done is one of the index.   *)
LEMMA KnownHandlersNext ==
    ASSUME Places, KnownHandlers, [Next]_vars
    PROVE  KnownHandlers'
<1>1. CASE StartHost
  BY <1>1 DEF StartHost, KnownHandlers, flushVars
<1>2. CASE RunTask
  BY <1>2, ConcludeNotifies, KnownNotified DEF RunTask, flushVars
<1>3. CASE RunReboot
  BY <1>3, ConcludeNotifies, KnownNotified DEF RunReboot, flushVars
<1>4. CASE EndLoop
  <2>1. Notified(Current) \in SUBSET Definitions(play.handlers)
    BY NotifiedKnown
  <2>2. LoopNotifiedUntilError(Current) \subseteq SUBSET Definitions(play.handlers)
    BY NotifiedKnown
  <2> QED
    BY <1>4, <2>1, <2>2, KnownNotified DEF EndLoop, flushVars
<1>5. CASE BeginRound
  BY <1>5 DEF BeginRound, KnownHandlers, history
<1>6. CASE BeginHandler
  <2>1. PICK d \in Ready : /\ flush' = [flush EXCEPT !.ran = @ \cup {d}]
                           /\ owed' = owed \ {d}
    BY <1>6 DEF BeginHandler
  <2>2. d \in Definitions(play.handlers)
    BY <2>1 DEF Ready, KnownHandlers
  <2> QED
    BY <1>6, <2>1, <2>2 DEF BeginHandler, KnownHandlers
<1>7. CASE EndFlush
  BY <1>7, KnownNotified DEF EndFlush, history
<1>8. CASE UnusableHandler
  BY <1>8, KnownNotified DEF UnusableHandler, AbortFlush
<1>9. CASE RunHandlerTask
  <2>1. flush' = flush \/ flush' = NoFlush
    BY <1>9 DEF RunHandlerTask, ConcludeHandler, NextHandlerTask, AbortFlush
  <2> QED
    BY <1>9, <2>1, ConcludeNotifies, KnownNotified DEF RunHandlerTask
<1>10. CASE HandlerLoopItem
  BY <1>10, KnownNotified DEF HandlerLoopItem, AbortFlush
<1>11. CASE EndHandlerLoop
  <2>1. Notified(HandlerTask) \in SUBSET Definitions(play.handlers)
    BY NotifiedKnown
  <2>2. LoopNotifiedUntilError(HandlerTask) \subseteq SUBSET Definitions(play.handlers)
    BY NotifiedKnown
  <2>3. flush' = flush \/ flush' = NoFlush
    BY <1>11 DEF EndHandlerLoop, NextHandlerTask, AbortFlush
  <2> QED
    BY <1>11, <2>1, <2>2, <2>3, KnownNotified DEF EndHandlerLoop
<1>12. CASE FinalFlush \/ FlushHandlersTask
  BY <1>12 DEF FinalFlush, FlushHandlersTask, KnownHandlers, NoFlush, history
<1>13. CASE UNCHANGED <<play, pending, owed, flush>>
  BY <1>13, KnownUnchanged
<1>14. \/ StartHost \/ RunTask \/ RunReboot \/ EndLoop \/ BeginRound \/ BeginHandler
       \/ EndFlush \/ UnusableHandler \/ RunHandlerTask \/ HandlerLoopItem \/ EndHandlerLoop
       \/ FinalFlush \/ FlushHandlersTask
       \/ UNCHANGED <<play, pending, owed, flush>>
  BY DEF Next, RunStep, HostStep, TaskStep, FlushStep, Cancel, Load, HostUnusable, NoMoreHosts,
         NoFinalFlush, NextHost, Interrupted, RefuseReboots, UnresolvableTask,
         MetaUnevaluable, MetaSkipped, EndTask, IncludeTasks, IncludeTasksForLoop,
         EmptyLoop, BeginLoop, LoopItem, TasksDone,
         HandlerDone, HandlerIncludeTasks, NextHandlerTask, BeginHandlerLoop,
         vars, flushVars, history
<1> QED
  BY <1>1, <1>2, <1>3, <1>4, <1>5, <1>6, <1>7, <1>8, <1>9, <1>10, <1>11, <1>12, <1>13, <1>14

(* Type correctness for every play, every set of included files and every  *)
(* interleaving with a cancellation: in particular no handler that a later *)
(* one of its name replaced is ever pending, scheduled or run.             *)
THEOREM TypeCorrect == Spec => []TypeOK
<1>1. Init => TypeOK
  <2> SUFFICES ASSUME Init PROVE TypeOK
    OBVIOUS
  <2>1. Flags
    BY DEF Init, Flags
  <2>2. Places
    BY DEF Init, Places, PCs, NoLoop
  <2>3. Queues /\ KnownHandlers
    BY EmptySeq DEF Init, Queues, KnownHandlers, NoFlush
  <2> QED
    BY <2>1, <2>2, <2>3 DEF TypeOK
<1>2. TypeOK /\ [Next]_vars => TypeOK'
  BY PlayType, FlagsNext, PlacesNext, QueuesNext, KnownHandlersNext DEF TypeOK, Places
<1> QED
  BY <1>1, <1>2, PTL DEF Spec

-----------------------------------------------------------------------------
(* Notifications.                                                          *)

Notifiable == pc \in {"task", "loop", "drained", "flush", "handler", "handlerLoop"}

(* What is owed is pending or waits in the round, none of it has run in    *)
(* this flush, and outside of a flush no round is in progress.             *)
Accounted ==
    /\ (Notifiable /\ ~hostFailed) => owed \subseteq pending \cup Ready
    /\ owed \cap flush.ran = {}
    /\ pc \notin {"flush", "handler", "handlerLoop"} => flush = NoFlush

(* Notifying keeps the account, in a flush and outside of one.             *)
LEMMA NotifyAccounted ==
    ASSUME NEW hs, Notify(hs), owed \cap flush.ran = {}
    PROVE  /\ owed' \cap flush.ran = {}
           /\ owed \subseteq pending \cup Ready => owed' \subseteq pending' \cup Ready
  BY DEF Notify, Ready

(* A step that at most notifies keeps the account, as long as it does not  *)
(* touch the flush or abandons it.                                         *)
LEMMA ConcludeAccounted ==
    ASSUME KnownHandlers, Accounted,
           UNCHANGED <<pending, owed>> \/ \E hs : Notify(hs),
           \/ /\ UNCHANGED <<flush, hostFailed>> /\ Notifiable
              /\ \/ pc' \in {"flush", "handler", "handlerLoop"}
                 \/ pc \notin {"flush", "handler", "handlerLoop"}
           \/ /\ hostFailed'
              /\ \/ flush' = flush /\ pc \notin {"flush", "handler", "handlerLoop"}
                 \/ flush' = NoFlush
           \/ pc' = "closing" /\ flush' = NoFlush
    PROVE  Accounted'
<1>1. owed' \cap flush.ran = {}
  BY NotifyAccounted DEF Accounted
<1>2. owed \subseteq pending \cup Ready => owed' \subseteq pending' \cup Ready
  BY NotifyAccounted DEF Accounted
<1>3. NoFlush.ran = {}
  BY DEF NoFlush
<1> QED
  BY <1>1, <1>2, <1>3 DEF Accounted, Ready, Notifiable

(* The outcomes of a task and of a handler keep the account.               *)
LEMMA OutcomeAccounted ==
    ASSUME KnownHandlers, Accounted,
           NEW t, NEW o,
           \/ pc = "task" /\ flush' = flush /\ Conclude(t, o)
           \/ pc = "handler" /\ ConcludeHandler(t, o)
    PROVE  Accounted'
<1>1. UNCHANGED <<pending, owed>> \/ \E hs : Notify(hs)
  BY DEF Conclude, ConcludeHandler
<1>2. CASE pc = "task" /\ flush' = flush /\ Conclude(t, o)
  <2>1. (hostFailed' = hostFailed /\ pc' = "task") \/ hostFailed'
    BY <1>2 DEF Conclude, NextTask, StopHost, hostVars
  <2> QED
    BY <1>1, <1>2, <2>1, ConcludeAccounted DEF Notifiable
<1>3. CASE pc = "handler" /\ ConcludeHandler(t, o)
  <2>1. \/ UNCHANGED <<flush, hostFailed>> /\ pc' = "handler"
        \/ flush' = NoFlush /\ (hostFailed' \/ pc' = "closing")
    BY <1>3 DEF ConcludeHandler, NextHandlerTask, AbortFlush
  <2> QED
    BY <1>1, <1>3, <2>1, ConcludeAccounted DEF Notifiable
<1> QED
  BY <1>2, <1>3

(* Every step keeps the account.                                           *)
LEMMA AccountedNext ==
    ASSUME KnownHandlers, Accounted, [Next]_vars
    PROVE  Accounted'
<1>1. CASE UNCHANGED <<pending, owed, flush>>
           /\ (hostFailed' \/ pc' \in {"host", "done", "error", "closing"} \/ UNCHANGED <<hostFailed, pc>>)
           /\ (UNCHANGED pc \/ pc \notin {"flush", "handler", "handlerLoop"})
  BY <1>1 DEF Accounted, Ready, Notifiable
<1>2. CASE Cancel \/ Load \/ HostUnusable \/ NoMoreHosts \/ NoFinalFlush \/ NextHost \/ UNCHANGED vars
  BY <1>1, <1>2 DEF Cancel, Load, HostUnusable, NoMoreHosts, NoFinalFlush, NextHost, vars,
                    flushVars, hostVars, history
<1>3. CASE StartHost
  BY <1>3 DEF StartHost, Accounted, Ready, flushVars, NoFlush
<1>4. CASE Interrupted \/ RefuseReboots \/ UnresolvableTask \/ MetaUnevaluable
  BY <1>1, <1>4 DEF Interrupted, RefuseReboots, UnresolvableTask, MetaUnevaluable, AtTask,
                    StopHost, FailTask, flushVars, hostVars, history
<1>5. CASE MetaSkipped \/ EndTask \/ TasksDone \/ IncludeTasks \/ EmptyLoop \/ BeginLoop
  <2>1. /\ pc = "task" /\ UNCHANGED <<pending, owed, flush, hostFailed>>
        /\ pc' \in {"task", "loop", "drained"}
    BY <1>5 DEF MetaSkipped, EndTask, TasksDone, IncludeTasks, EmptyLoop, BeginLoop, AtTask,
                NextTask, flushVars, hostVars, history
  <2> QED
    BY <2>1, ConcludeAccounted DEF Notifiable
<1>6. CASE FlushHandlersTask \/ FinalFlush
  BY <1>6 DEF FlushHandlersTask, FinalFlush, AtTask, Accounted, Ready, Notifiable, NoFlush,
              hostVars, history
<1>7. CASE RunTask
  BY <1>7, OutcomeAccounted DEF RunTask, AtTask, flushVars
<1>8. CASE RunReboot
  BY <1>8, OutcomeAccounted DEF RunReboot, AtTask, flushVars
<1>9. CASE IncludeTasksForLoop
  BY <1>9, ConcludeAccounted
     DEF IncludeTasksForLoop, AtTask, NextTask, FailTask, flushVars, hostVars, Notifiable
<1>10. CASE LoopItem
  BY <1>10, ConcludeAccounted DEF LoopItem, flushVars, hostVars, Notifiable
<1>11. CASE EndLoop
  BY <1>11, ConcludeAccounted
     DEF EndLoop, NextTask, StopHost, FailTask, flushVars, hostVars, Notifiable
<1>12. CASE BeginRound
  BY <1>12 DEF BeginRound, Accounted, Ready, Notifiable, hostVars, history
<1>13. CASE BeginHandler
  <2>1. PICK d \in Ready : /\ flush' = [flush EXCEPT !.ran = @ \cup {d}]
                           /\ owed' = owed \ {d}
    BY <1>13 DEF BeginHandler
  <2>2. flush'.ran = flush.ran \cup {d} /\ flush'.scheduled = flush.scheduled
    BY <2>1 DEF KnownHandlers
  <2> QED
    BY <1>13, <2>1, <2>2 DEF BeginHandler, Accounted, Ready, Notifiable, hostVars
<1>14. CASE EndFlush
  BY <1>14 DEF EndFlush, Accounted, Ready, Notifiable, NoFlush, hostVars, history
<1>15. CASE HandlerDone \/ HandlerIncludeTasks \/ BeginHandlerLoop
  <2>1. /\ pc = "handler" /\ UNCHANGED <<pending, owed, flush, hostFailed>>
        /\ pc' \in {"flush", "handler", "handlerLoop"}
    BY <1>15 DEF HandlerDone, HandlerIncludeTasks, BeginHandlerLoop, AtHandlerTask,
                 NextHandlerTask, flushVars, hostVars, history
  <2> QED
    BY <2>1, ConcludeAccounted DEF Notifiable
<1>16. CASE UnusableHandler
  BY <1>16, ConcludeAccounted DEF UnusableHandler, AtHandlerTask, AbortFlush, Notifiable
<1>17. CASE RunHandlerTask
  BY <1>17, OutcomeAccounted DEF RunHandlerTask, AtHandlerTask
<1>18. CASE HandlerLoopItem
  BY <1>18, ConcludeAccounted DEF HandlerLoopItem, AbortFlush, Notifiable
<1>19. CASE EndHandlerLoop
  BY <1>19, ConcludeAccounted DEF EndHandlerLoop, AbortFlush, NextHandlerTask, Notifiable
<1> QED
  BY <1>2, <1>3, <1>4, <1>5, <1>6, <1>7, <1>8, <1>9, <1>10, <1>11, <1>12, <1>13, <1>14,
     <1>15, <1>16, <1>17, <1>18, <1>19
     DEF Next, RunStep, HostStep, TaskStep, FlushStep

(* No notification is ever lost on a host that has not failed.             *)
LEMMA AccountKept == Spec => []Accounted
<1>1. Init => Accounted
  BY DEF Init, Accounted, Notifiable, NoFlush
<1>2. TypeOK /\ Accounted /\ [Next]_vars => Accounted'
  BY AccountedNext DEF TypeOK
<1> QED
  BY <1>1, <1>2, TypeCorrect, PTL DEF Spec

(* No notification is forgotten, for any handlers that notify each other   *)
(* in any way, through loops and includes.                                 *)
THEOREM NothingLost == Spec => []NoLostNotification
<1>1. Accounted => NoLostNotification
  BY DEF Accounted, NoLostNotification, Notifiable, Flushing
<1> QED
  BY <1>1, AccountKept, PTL

(* A flush that ends without a failure leaves no notification unserved.    *)
THEOREM FlushComplete == Spec => FlushServesAll
<1> DEFINE Served == (pc = "flush" /\ pc' \in {"task", "closing"} /\ ~hostFailed) => owed' = {}
<1>1. Accounted /\ [Next]_vars => [Served]_vars
  <2> SUFFICES ASSUME Accounted, Next, pc = "flush", pc' \in {"task", "closing"}, ~hostFailed
               PROVE  owed' = {}
    OBVIOUS
  <2>1. EndFlush
    BY DEF Next, RunStep, HostStep, TaskStep, FlushStep, Cancel, Load, HostUnusable, StartHost,
           NoMoreHosts, FinalFlush, NoFinalFlush, NextHost, Interrupted, RefuseReboots,
           UnresolvableTask, MetaUnevaluable, MetaSkipped, FlushHandlersTask, EndTask, RunTask,
           IncludeTasks, RunReboot, IncludeTasksForLoop, EmptyLoop, BeginLoop, LoopItem,
           EndLoop, TasksDone, AtTask, BeginRound, BeginHandler, HandlerDone,
           UnusableHandler, RunHandlerTask, HandlerIncludeTasks, BeginHandlerLoop,
           AtHandlerTask, HandlerLoopItem, EndHandlerLoop
  <2> QED
    BY <2>1 DEF EndFlush, Accounted, Notifiable, history
<1> QED
  BY <1>1, AccountKept, PTL DEF Spec, FlushServesAll

-----------------------------------------------------------------------------
(* end_host and end_play.                                                  *)

Ended ==
    /\ hostEnded => pc \in {"drained", "closing", "host", "done"}
    /\ endPlay => hostEnded /\ pc \in {"drained", "closing", "done"}

(* The task list is only executed in its two places.                       *)
LEMMA PlacesOfTasks == TaskStep => pc \in {"task", "loop"}
  BY DEF TaskStep, Interrupted, RefuseReboots, UnresolvableTask, MetaUnevaluable,
         MetaSkipped, FlushHandlersTask, EndTask, RunTask, IncludeTasks, RunReboot,
         IncludeTasksForLoop, EmptyLoop, BeginLoop, LoopItem, EndLoop, TasksDone, AtTask

(* A flush is only executed in its three.                                  *)
LEMMA PlacesOfFlush == FlushStep => pc \in {"flush", "handler", "handlerLoop"}
  BY DEF FlushStep, BeginRound, BeginHandler, EndFlush, HandlerDone, UnusableHandler,
         RunHandlerTask, HandlerIncludeTasks, BeginHandlerLoop, HandlerLoopItem,
         EndHandlerLoop, AtHandlerTask

(* Only EndTask ends a host, and only the start of the next host forgets it.*)
LEMMA EndedNext == Ended /\ [Next]_vars => Ended'
<1> SUFFICES ASSUME Ended, [Next]_vars PROVE Ended'
  OBVIOUS
<1> USE DEF Ended, hostVars, history
<1>1. CASE StartHost
  BY <1>1 DEF StartHost
<1>2. CASE EndTask
  BY <1>2 DEF EndTask
<1>3. CASE NextHost
  BY <1>3 DEF NextHost
<1>4. CASE NoMoreHosts \/ HostUnusable \/ NoFinalFlush \/ UNCHANGED vars
  BY <1>4 DEF NoMoreHosts, HostUnusable, NoFinalFlush, vars
<1>5. CASE Cancel \/ Load \/ FinalFlush
  BY <1>5 DEF Cancel, Load, FinalFlush
<1>6. CASE TaskStep /\ ~EndTask
  <2>1. pc \in {"task", "loop"}
    BY <1>6, PlacesOfTasks
  <2>2. UNCHANGED <<hostEnded, endPlay>>
    BY <1>6 DEF TaskStep, Interrupted, RefuseReboots, UnresolvableTask, MetaUnevaluable,
           MetaSkipped, FlushHandlersTask, RunTask, IncludeTasks, RunReboot,
           IncludeTasksForLoop, EmptyLoop, BeginLoop, LoopItem, EndLoop, TasksDone,
           Conclude, NextTask, StopHost, FailTask
  <2> QED
    BY <2>1, <2>2
<1>7. CASE FlushStep
  <2>1. pc \in {"flush", "handler", "handlerLoop"}
    BY <1>7, PlacesOfFlush
  <2>2. UNCHANGED <<hostEnded, endPlay>>
    BY <1>7 DEF FlushStep, BeginRound, BeginHandler, EndFlush, HandlerDone, UnusableHandler,
           RunHandlerTask, HandlerIncludeTasks, BeginHandlerLoop, HandlerLoopItem,
           EndHandlerLoop
  <2> QED
    BY <2>1, <2>2
<1> QED
  BY <1>1, <1>2, <1>3, <1>4, <1>5, <1>6, <1>7 DEF Next, RunStep, HostStep

(* A host that was ended runs nothing more, and end_play starts no later   *)
(* host.                                                                   *)
THEOREM EndsForGood == Spec => EndIsFinal
<1>1. Init => Ended
  BY DEF Init, Ended
<1>2. Ended /\ [Next]_vars =>
        [/\ (hostEnded /\ pc \in {"drained", "closing"}) => pc' \in {"closing", "host", "done", pc}
         /\ hostEnded => pc \in {"drained", "closing", "host", "done"}
         /\ endPlay => host' = host]_vars
  <2> SUFFICES ASSUME Ended, Next
               PROVE  /\ (hostEnded /\ pc \in {"drained", "closing"}) => pc' \in {"closing", "host", "done", pc}
                      /\ hostEnded => pc \in {"drained", "closing", "host", "done"}
                      /\ endPlay => host' = host
    OBVIOUS
  <2>1. ASSUME hostEnded, pc \in {"drained", "closing"}
        PROVE  Cancel \/ NoFinalFlush \/ NextHost
    BY <2>1, PlacesOfTasks, PlacesOfFlush
       DEF Next, RunStep, HostStep, Load, HostUnusable, StartHost, NoMoreHosts, FinalFlush
  <2>2. hostEnded /\ pc \in {"drained", "closing"} => pc' \in {"closing", "host", "done", pc}
    BY <2>1 DEF Cancel, NoFinalFlush, NextHost
  <2>3. pc # "done"
    BY PlacesOfTasks, PlacesOfFlush
       DEF Next, RunStep, HostStep, Cancel, Load, HostUnusable, StartHost, NoMoreHosts,
           FinalFlush, NoFinalFlush, NextHost
  <2>4. endPlay => host' = host
    BY <2>1, <2>3 DEF Ended, Cancel, NoFinalFlush, NextHost
  <2> QED
    BY <2>2, <2>4 DEF Ended
<1> QED
  BY <1>1, <1>2, EndedNext, PTL DEF Spec, EndIsFinal

-----------------------------------------------------------------------------
(* The local mode.                                                         *)

InFlush == pc \in {"flush", "handler", "handlerLoop"}

(* There is one host, and it is started once: its failure and its reboot   *)
(* are not those of an earlier one.                                        *)
OneHost ==
    /\ host # 0 /\ (pc \notin {"host", "done", "error"} => host = 1)
    /\ pc = "load" => ~hostFailed /\ issued = 0
    /\ pc = "host" /\ host = 1 => ~hostFailed /\ issued = 0

(* A failed host only has forced handlers left, of its final flush.        *)
StoppedAtFailure ==
    hostFailed =>
        /\ pc \notin {"task", "loop"}
        /\ InFlush => play.force /\ flush.from = "final"

(* Behind a reboot only the handlers of the final flush are left.          *)
StoppedAtReboot ==
    issued > 0 =>
        /\ issued = 1 /\ play.allowReboot
        /\ pc \notin {"loop", "error"}
        /\ InFlush => flush.from = "final"
        /\ \/ idx = Len(queue) + 1
           \/ idx = Len(queue) /\ hostFailed /\ pc # "task"

LocalInv == play.local => OneHost /\ StoppedAtFailure /\ StoppedAtReboot

(* A run keeps its play.                                                   *)
LEMMA PlayKept == [Next]_vars => play' = play
  BY DEF Next, RunStep, HostStep, TaskStep, FlushStep, Cancel, Load, HostUnusable, StartHost,
         NoMoreHosts, FinalFlush, NoFinalFlush, NextHost, Interrupted, RefuseReboots,
         UnresolvableTask, MetaUnevaluable, MetaSkipped, FlushHandlersTask, EndTask, RunTask,
         IncludeTasks, RunReboot, IncludeTasksForLoop, EmptyLoop, BeginLoop, LoopItem,
         EndLoop, TasksDone, BeginRound, BeginHandler, EndFlush, HandlerDone,
         UnusableHandler, RunHandlerTask, HandlerIncludeTasks, BeginHandlerLoop,
         HandlerLoopItem, EndHandlerLoop, vars

(* In a local run only an allowed reboot task issues a reboot.             *)
LEMMA OnlyRebootIssues ==
    ASSUME play.local, NEW t, NEW o, Execute(t, FALSE, o)
    PROVE  issued' = issued
  BY DEF Execute, ExecuteModule, ExecuteReboot, ExecuteIncludeInVain

(* Every step of a local run keeps its invariant.                          *)
LEMMA LocalNext ==
    ASSUME TypeOK, LocalInv, [Next]_vars
    PROVE  LocalInv'
<1> SUFFICES ASSUME play.local, play' = play PROVE (OneHost /\ StoppedAtFailure /\ StoppedAtReboot)'
  BY PlayKept DEF LocalInv
<1> USE DEF OneHost, StoppedAtFailure, StoppedAtReboot, InFlush, hostVars, history, result
<1>0. /\ OneHost /\ StoppedAtFailure /\ StoppedAtReboot
      /\ play.hosts = 1
      /\ issued \in Nat /\ idx \in Nat \ {0} /\ host \in Nat /\ Len(queue) \in Nat
  BY PlayRunAssumption, LenProperties DEF LocalInv, TypeOK, Places, Queues
<1> HIDE DEF TypeOK, LocalInv
<1>1. CASE Cancel \/ Load \/ HostUnusable \/ NoMoreHosts \/ NoFinalFlush \/ NextHost \/ UNCHANGED vars
  BY <1>0, <1>1 DEF Cancel, Load, HostUnusable, NoMoreHosts, NoFinalFlush, NextHost, vars, flushVars
<1>2. CASE StartHost
  BY <1>0, <1>2 DEF StartHost, flushVars
<1>3. CASE FinalFlush
  BY <1>0, <1>3 DEF FinalFlush, NoFlush
<1>4. CASE Interrupted \/ RefuseReboots \/ UnresolvableTask \/ MetaUnevaluable
  BY <1>0, <1>4 DEF Interrupted, RefuseReboots, UnresolvableTask, MetaUnevaluable, AtTask,
                    StopHost, FailTask, flushVars
<1>5. CASE MetaSkipped \/ EndTask \/ EmptyLoop \/ BeginLoop
  BY <1>0, <1>5 DEF MetaSkipped, EndTask, EmptyLoop, BeginLoop, AtTask, NextTask, flushVars
<1>6. CASE TasksDone
  BY <1>0, <1>6 DEF TasksDone, flushVars
<1>7. CASE FlushHandlersTask
  BY <1>0, <1>7 DEF FlushHandlersTask, AtTask
<1>8. CASE IncludeTasks \/ IncludeTasksForLoop
  BY <1>0, <1>8 DEF IncludeTasks, IncludeTasksForLoop, AtTask, NextTask, FailTask, flushVars
<1>9. CASE RunTask
  <2>1. issued' = issued /\ UNCHANGED <<queue, host, flush>> /\ pc = "task" /\ idx <= Len(queue)
    BY <1>9, OnlyRebootIssues DEF RunTask, AtTask, flushVars
  <2>2. \/ pc' = "task" /\ UNCHANGED hostFailed
        \/ pc' = "drained" /\ hostFailed' = TRUE
    BY <1>9 DEF RunTask, Conclude, NextTask, StopHost
  <2> QED
    BY <1>0, <2>1, <2>2
<1>10. CASE RunReboot
  <2>1. UNCHANGED <<queue, host, flush>> /\ pc = "task" /\ idx <= Len(queue) /\ issued = 0
    BY <1>0, <1>10 DEF RunReboot, AtTask, flushVars
  <2>2. \/ issued' = issued
        \/ issued' = issued + 1 /\ MayReboot
    BY <1>10 DEF RunReboot, Execute, ExecuteModule, ExecuteReboot, ExecuteIncludeInVain
  <2>3. \/ pc' = "task" /\ UNCHANGED hostFailed /\ idx' = idx + 1
        \/ pc' = "drained" /\ hostFailed' = TRUE /\ idx' = idx
    BY <1>10 DEF RunReboot, Conclude, NextTask, StopHost
  <2> QED
    BY <1>0, <2>1, <2>2, <2>3 DEF MayReboot
<1>11. CASE LoopItem
  <2>1. issued' = issued
    BY <1>11, OnlyRebootIssues DEF LoopItem
  <2> QED
    BY <1>0, <1>11, <2>1 DEF LoopItem, flushVars
<1>12. CASE EndLoop
  BY <1>0, <1>12 DEF EndLoop, NextTask, StopHost, FailTask, flushVars
<1>13. CASE BeginRound \/ HandlerDone \/ BeginHandlerLoop
  <2>1. flush'.from = flush.from
    BY <1>13 DEF BeginRound, HandlerDone, BeginHandlerLoop, flushVars, TypeOK, KnownHandlers
  <2> QED
    BY <1>0, <1>13, <2>1 DEF BeginRound, HandlerDone, BeginHandlerLoop, AtHandlerTask
<1>14. CASE BeginHandler
  <2>1. flush'.from = flush.from
    BY <1>14 DEF BeginHandler, TypeOK, KnownHandlers
  <2> QED
    BY <1>0, <1>14, <2>1 DEF BeginHandler
<1>15. CASE EndFlush
  BY <1>0, <1>15 DEF EndFlush
<1>16. CASE UnusableHandler \/ HandlerIncludeTasks
  BY <1>0, <1>16 DEF UnusableHandler, HandlerIncludeTasks, AtHandlerTask, AbortFlush,
                     NextHandlerTask
<1>17. CASE RunHandlerTask
  <2>1. issued' = issued /\ UNCHANGED <<queue, idx, host>> /\ pc = "handler"
    BY <1>17, OnlyRebootIssues DEF RunHandlerTask, AtHandlerTask
  <2>2. \/ pc' = "handler" /\ UNCHANGED <<flush, hostFailed>>
        \/ pc' = "drained" /\ hostFailed' = TRUE /\ flush.from = "meta"
        \/ pc' = "closing" /\ UNCHANGED hostFailed
    BY <1>17 DEF RunHandlerTask, ConcludeHandler, NextHandlerTask, AbortFlush
  <2> QED
    BY <1>0, <2>1, <2>2
<1>18. CASE HandlerLoopItem
  <2>1. issued' = issued
    BY <1>18, OnlyRebootIssues DEF HandlerLoopItem
  <2> QED
    BY <1>0, <1>18, <2>1 DEF HandlerLoopItem, AbortFlush
<1>19. CASE EndHandlerLoop
  BY <1>0, <1>19 DEF EndHandlerLoop, AbortFlush, NextHandlerTask
<1> QED
  BY <1>1, <1>2, <1>3, <1>4, <1>5, <1>6, <1>7, <1>8, <1>9, <1>10, <1>11, <1>12, <1>13, <1>14,
     <1>15, <1>16, <1>17, <1>18, <1>19
     DEF Next, RunStep, HostStep, TaskStep, FlushStep

(* It holds of every local run.                                            *)
LEMMA LocalKept == Spec => []LocalInv
<1>1. Init => LocalInv
  BY DEF Init, LocalInv, OneHost, StoppedAtFailure, StoppedAtReboot, InFlush
<1>2. TypeOK /\ LocalInv /\ [Next]_vars => LocalInv'
  BY LocalNext
<1> QED
  BY <1>1, <1>2, TypeCorrect, PTL DEF Spec

(* A local run reboots at most once, only as its very last task, whatever  *)
(* include_tasks put into the queue meanwhile.                             *)
THEOREM RebootIsLast == Spec => []LocalRebootIsLast
<1>1. LocalInv => LocalRebootIsLast
  BY DEF LocalInv, StoppedAtReboot, LocalRebootIsLast
<1> QED
  BY <1>1, LocalKept, PTL

(* The first failure of a local run is the last thing of its task list.    *)
THEOREM StopsAtFailure == Spec => LocalStopsAtFailure
<1>1. TypeOK /\ LocalInv /\ [Next]_vars =>
        [(play.local /\ hostFailed) =>
            /\ idx' = idx /\ pc' \notin {"task", "loop"}
            /\ (pc' = "handler" => play.force)]_vars
  <2> SUFFICES ASSUME TypeOK, LocalInv, Next, play.local, hostFailed
               PROVE  /\ idx' = idx /\ pc' \notin {"task", "loop"}
                      /\ (pc' = "handler" => play.force)
    OBVIOUS
  <2>1. /\ pc \notin {"task", "loop", "load"}
        /\ pc = "host" => ~(host <= play.hosts)
        /\ InFlush => play.force /\ flush.from = "final"
    BY PlayRunAssumption DEF LocalInv, OneHost, StoppedAtFailure, TypeOK, Places
  <2>2. CASE Cancel \/ NoMoreHosts \/ FinalFlush \/ NoFinalFlush \/ NextHost
    BY <2>1, <2>2 DEF Cancel, NoMoreHosts, FinalFlush, NoFinalFlush, NextHost, InFlush
  <2>3. CASE BeginRound \/ BeginHandler \/ EndFlush \/ HandlerDone \/ UnusableHandler
             \/ HandlerIncludeTasks \/ BeginHandlerLoop
    BY <2>1, <2>3 DEF BeginRound, BeginHandler, EndFlush, HandlerDone, UnusableHandler,
           HandlerIncludeTasks, BeginHandlerLoop, AtHandlerTask, NextHandlerTask, AbortFlush,
           InFlush
  <2>4. CASE RunHandlerTask
    <3>1. idx' = idx /\ pc' \in {"handler", "drained", "closing"} /\ InFlush
      BY <2>4 DEF RunHandlerTask, ConcludeHandler, AtHandlerTask, NextHandlerTask, AbortFlush,
             InFlush
    <3> QED
      BY <2>1, <3>1
  <2>5. CASE HandlerLoopItem \/ EndHandlerLoop
    BY <2>1, <2>5 DEF HandlerLoopItem, EndHandlerLoop, NextHandlerTask, AbortFlush, InFlush
  <2>6. \/ Cancel \/ NoMoreHosts \/ FinalFlush \/ NoFinalFlush \/ NextHost
        \/ FlushStep
    BY <2>1, PlacesOfTasks DEF Next, RunStep, HostStep, Load, HostUnusable, StartHost
  <2> QED
    BY <2>2, <2>3, <2>4, <2>5, <2>6 DEF FlushStep
<1> QED
  BY <1>1, LocalKept, TypeCorrect, PTL DEF Spec, LocalStopsAtFailure

-----------------------------------------------------------------------------
(* Failures of a local run.                                                *)

(* The loop in progress already has an item that failed.                   *)
LoopFailed == pc \in {"loop", "handlerLoop"} /\ loop.failed

(* What went wrong is in the result, or in the loop in progress.           *)
Surfaced ==
    /\ hostFailed => failed
    /\ failed => faulty
    /\ LoopFailed => faulty
    /\ faulty => failed \/ LoopFailed

(* In a local run an include_tasks always has a result.                    *)
LEMMA LocalIncludes ==
    ASSUME play.local, NEW t, NEW allowed, NEW o, Execute(t, allowed, o), t.kind = "include"
    PROVE  o # "none"
  BY DEF Execute, ExecuteModule, ExecuteReboot, ExecuteIncludeInVain

(* No step swallows a failure or invents one.                              *)
LEMMA SurfacedNext ==
    ASSUME TypeOK, play.local, Surfaced, [Next]_vars
    PROVE  Surfaced'
<1> USE DEF Surfaced, LoopFailed, hostVars, history, result
<1>0. /\ faulty \in BOOLEAN /\ failed \in BOOLEAN /\ hostFailed \in BOOLEAN
      /\ faulty' \in BOOLEAN /\ failed' \in BOOLEAN /\ hostFailed' \in BOOLEAN
  BY FlagsNext, PlayType DEF TypeOK, Flags, Places
<1>1. CASE Cancel \/ Load \/ HostUnusable \/ NoMoreHosts \/ NoFinalFlush \/ NextHost
           \/ StartHost \/ FinalFlush \/ UNCHANGED vars
  BY <1>1 DEF Cancel, Load, HostUnusable, NoMoreHosts, NoFinalFlush, NextHost, StartHost,
              FinalFlush, vars
<1>2. CASE Interrupted \/ RefuseReboots \/ UnresolvableTask \/ MetaUnevaluable
  BY <1>2 DEF Interrupted, RefuseReboots, UnresolvableTask, MetaUnevaluable, AtTask,
              StopHost, FailTask
<1>3. CASE MetaSkipped \/ EndTask \/ EmptyLoop \/ BeginLoop \/ TasksDone \/ FlushHandlersTask
           \/ IncludeTasks \/ IncludeTasksForLoop
  BY <1>3 DEF MetaSkipped, EndTask, EmptyLoop, BeginLoop, TasksDone, FlushHandlersTask,
              IncludeTasks, IncludeTasksForLoop, AtTask, NextTask, FailTask, NoLoop
<1>4. CASE RunTask \/ RunReboot
  <2>1. PICK o, allowed : Execute(Current, allowed, o) /\ Conclude(Current, o) /\ Fault(o)
    BY <1>4 DEF RunTask, RunReboot
  <2>2. pc = "task" /\ pc' \in {"task", "drained"}
    BY <1>4, <2>1 DEF RunTask, RunReboot, AtTask, Conclude, NextTask, StopHost
  <2>3. \/ o \notin {"failed", "none"} /\ UNCHANGED <<failed, hostFailed>>
        \/ failed' = TRUE /\ hostFailed' = TRUE
    BY <2>1, LocalIncludes DEF Conclude, NextTask, StopHost
  <2> QED
    BY <1>0, <2>1, <2>2, <2>3 DEF Fault
<1>5. CASE LoopItem
  <2>1. PICK o : /\ loop'.failed = (loop.failed \/ o = "failed" \/ (o = "none" /\ play.local))
                 /\ faulty' = (faulty \/ o \in {"failed", "none"})
    BY <1>5 DEF LoopItem
  <2> QED
    BY <1>0, <1>5, <2>1 DEF LoopItem
<1>6. CASE EndLoop
  <2>1. pc = "loop" /\ pc' \in {"task", "drained"}
    BY <1>6 DEF EndLoop, NextTask, StopHost, FailTask
  <2>2. \/ loop.failed /\ failed' = TRUE /\ UNCHANGED faulty
        \/ ~loop.failed /\ UNCHANGED <<failed, hostFailed, faulty>>
        \/ failed' = TRUE /\ faulty' = TRUE
    BY <1>6 DEF EndLoop, NextTask, StopHost, FailTask
  <2> QED
    BY <1>0, <2>1, <2>2
<1>7. CASE BeginRound \/ BeginHandler \/ EndFlush \/ HandlerDone \/ BeginHandlerLoop
  BY <1>7 DEF BeginRound, BeginHandler, EndFlush, HandlerDone, BeginHandlerLoop, AtHandlerTask,
              NoLoop
<1>8. CASE UnusableHandler \/ HandlerIncludeTasks
  BY <1>8 DEF UnusableHandler, HandlerIncludeTasks, AtHandlerTask, AbortFlush, NextHandlerTask
<1>9. CASE RunHandlerTask
  <2>1. PICK o : Execute(HandlerTask, FALSE, o) /\ ConcludeHandler(HandlerTask, o)
    BY <1>9 DEF RunHandlerTask
  <2>2. \/ UNCHANGED <<failed, hostFailed, faulty>>
        \/ failed' = TRUE /\ faulty' = TRUE
    BY <2>1, LocalIncludes DEF ConcludeHandler, NextHandlerTask, AbortFlush, Fault
  <2>3. pc = "handler" /\ pc' \in {"handler", "drained", "closing"}
    BY <1>9, <2>1 DEF RunHandlerTask, AtHandlerTask, ConcludeHandler, NextHandlerTask, AbortFlush
  <2> QED
    BY <1>0, <2>2, <2>3
<1>10. CASE HandlerLoopItem
  <2>1. CASE AbortFlush
    BY <1>0, <2>1 DEF AbortFlush
  <2>2. ASSUME NEW o, loop'.failed = (loop.failed \/ o = "failed"),
               faulty' = (faulty \/ o = "failed"), UNCHANGED <<pc, failed, hostFailed>>
        PROVE  Surfaced'
    BY <1>0, <1>10, <2>2 DEF HandlerLoopItem
  <2> QED
    BY <1>10, <2>1, <2>2 DEF HandlerLoopItem
<1>11. CASE EndHandlerLoop
  <2>1. CASE AbortFlush
    BY <1>0, <2>1 DEF AbortFlush
  <2>2. CASE ~loop.failed /\ pc' = "handler" /\ UNCHANGED <<failed, hostFailed, faulty>>
    BY <1>0, <2>2
  <2> QED
    BY <1>11, <2>1, <2>2 DEF EndHandlerLoop, NextHandlerTask
<1> QED
  BY <1>1, <1>2, <1>3, <1>4, <1>5, <1>6, <1>7, <1>8, <1>9, <1>10, <1>11
     DEF Next, RunStep, HostStep, TaskStep, FlushStep

(* RunResult.Failed of a local run that returned says exactly whether      *)
(* something could not be done.                                            *)
THEOREM FailureSurfaces == Spec => []LocalFailureSurfaces
<1> DEFINE Inv == play.local => Surfaced
<1>1. Init => Inv
  BY DEF Init, Surfaced, LoopFailed
<1>2. TypeOK /\ Inv /\ [Next]_vars => Inv'
  BY SurfacedNext, PlayKept
<1>3. Inv => LocalFailureSurfaces
  BY DEF Surfaced, LoopFailed, LocalFailureSurfaces
<1> QED
  BY <1>1, <1>2, <1>3, TypeCorrect, PTL DEF Spec

-----------------------------------------------------------------------------
(* The contract of a local run.                                            *)

(* A failure that is not the host's is one of a host that could not be     *)
(* started, or of a handler of the final flush: nothing but the end of the *)
(* run comes after it.  A reboot that was reported was issued.             *)
Reported ==
    /\ (failed /\ ~hostFailed) =>
          pc \in {"closing", "host", "done"} /\ (pc = "host" => host > 1)
    /\ initiated => issued > 0

(* A step within the run that reports no reboot.                           *)
Quiet ==
    /\ ~Returned /\ ~Returned'
    /\ failed' = failed \/ failed' = TRUE
    /\ UNCHANGED <<initiated, issued>>

(* Everything that happens between Load and the return is quiet, except    *)
(* for the reboot task.                                                    *)
LEMMA QuietSteps ==
    ASSUME play.local, Next
    PROVE  Quiet \/ Load \/ NoMoreHosts \/ NextHost \/ Interrupted \/ RunReboot
<1> USE DEF Quiet, Returned, hostVars, history, result
<1>1. CASE Cancel \/ HostUnusable \/ StartHost \/ FinalFlush \/ NoFinalFlush
  BY <1>1 DEF Cancel, HostUnusable, StartHost, FinalFlush, NoFinalFlush
<1>2. CASE RefuseReboots \/ UnresolvableTask \/ MetaUnevaluable \/ MetaSkipped
           \/ FlushHandlersTask \/ EndTask
  BY <1>2 DEF RefuseReboots, UnresolvableTask, MetaUnevaluable, MetaSkipped,
              FlushHandlersTask, EndTask, AtTask, NextTask, StopHost, FailTask
<1>3. CASE IncludeTasks \/ IncludeTasksForLoop \/ EmptyLoop \/ BeginLoop \/ EndLoop \/ TasksDone
  BY <1>3 DEF IncludeTasks, IncludeTasksForLoop, EmptyLoop, BeginLoop, EndLoop, TasksDone,
              AtTask, NextTask, StopHost, FailTask
<1>4. CASE RunTask
  <2>1. UNCHANGED <<initiated, issued>> /\ pc = "task"
    BY <1>4, OnlyRebootIssues DEF RunTask, AtTask
  <2>2. pc' \in {"task", "drained"} /\ (failed' = failed \/ failed' = TRUE)
    BY <1>4 DEF RunTask, Conclude, NextTask, StopHost
  <2> QED
    BY <2>1, <2>2
<1>5. CASE LoopItem
  <2>1. issued' = issued
    BY <1>5, OnlyRebootIssues DEF LoopItem
  <2> QED
    BY <1>5, <2>1 DEF LoopItem
<1>6. CASE BeginRound \/ BeginHandler \/ EndFlush \/ HandlerDone \/ BeginHandlerLoop
  BY <1>6 DEF BeginRound, BeginHandler, EndFlush, HandlerDone, BeginHandlerLoop, AtHandlerTask
<1>7. CASE UnusableHandler \/ HandlerIncludeTasks \/ EndHandlerLoop
  BY <1>7 DEF UnusableHandler, HandlerIncludeTasks, EndHandlerLoop, AtHandlerTask, AbortFlush,
              NextHandlerTask
<1>8. CASE RunHandlerTask
  <2>1. UNCHANGED <<initiated, issued>> /\ pc = "handler"
    BY <1>8, OnlyRebootIssues DEF RunHandlerTask, AtHandlerTask
  <2>2. pc' \in {"handler", "drained", "closing"} /\ (failed' = failed \/ failed' = TRUE)
    BY <1>8 DEF RunHandlerTask, ConcludeHandler, NextHandlerTask, AbortFlush
  <2> QED
    BY <2>1, <2>2
<1>9. CASE HandlerLoopItem
  <2>1. issued' = issued
    BY <1>9, OnlyRebootIssues DEF HandlerLoopItem
  <2> QED
    BY <1>9, <2>1 DEF HandlerLoopItem, AbortFlush
<1> QED
  BY <1>1, <1>2, <1>3, <1>4, <1>5, <1>6, <1>7, <1>8, <1>9
     DEF Next, RunStep, HostStep, TaskStep, FlushStep

(* The reboot task of a local run: nothing is issued, or the reboot is     *)
(* issued where it is allowed and is reported unless the task then counts  *)
(* as failed.                                                              *)
LEMMA RebootStep ==
    ASSUME TypeOK, play.local, RunReboot
    PROVE  /\ pc = "task" /\ idx <= Len(queue) /\ host' = host
           /\ \/ issued' = issued /\ initiated' = initiated
              \/ /\ issued' = issued + 1 /\ MayReboot
                 /\ \/ pc' = "task" /\ initiated' = TRUE
                    \/ pc' # "task" /\ initiated' = initiated
           /\ \/ pc' = "task" /\ UNCHANGED <<failed, hostFailed>>
              \/ pc' = "drained" /\ failed' = TRUE /\ hostFailed' = TRUE
<1>1. pc = "task" /\ idx <= Len(queue) /\ host' = host
  BY DEF RunReboot, AtTask
<1>2. \/ pc' = "task" /\ UNCHANGED <<failed, hostFailed>>
      \/ pc' = "drained" /\ failed' = TRUE /\ hostFailed' = TRUE
  BY DEF RunReboot, Conclude, NextTask, StopHost, hostVars
<1>3. \/ issued' = issued
      \/ issued' = issued + 1 /\ MayReboot
  BY DEF RunReboot, Execute, ExecuteModule, ExecuteReboot, ExecuteIncludeInVain
<1>4. initiated' = (initiated \/ (issued' > issued /\ pc' = "task"))
  BY DEF RunReboot
<1>5. initiated \in BOOLEAN /\ issued \in Nat
  BY DEF TypeOK, Flags, Places
<1>6. CASE issued' = issued
  <2>1. ~(issued' > issued)
    BY <1>5, <1>6
  <2>2. initiated' = initiated
    BY <1>4, <1>5, <2>1, Zenon
  <2> QED
    BY <1>1, <1>2, <1>6, <2>2
<1>7. CASE issued' = issued + 1 /\ MayReboot
  <2>1. issued' > issued
    BY <1>5, <1>7
  <2>2. pc' = "task" => initiated' = TRUE
    BY <1>4, <1>5, <2>1, Zenon
  <2>3. pc' # "task" => initiated' = initiated
    BY <1>4, <1>5, Zenon
  <2> QED
    BY <1>1, <1>2, <1>7, <2>2, <2>3
<1> QED
  BY <1>3, <1>6, <1>7

(* Every step of a local run keeps what its result says.                   *)
LEMMA ReportedNext ==
    ASSUME TypeOK, play.local, LocalInv, Reported, [Next]_vars
    PROVE  Reported'
<1> USE DEF Reported, hostVars, history, result
<1>0. /\ OneHost
      /\ play.hosts = 1
      /\ issued \in Nat /\ host \in Nat
  BY PlayRunAssumption DEF LocalInv, TypeOK, Places
<1>1. CASE Cancel \/ Load \/ HostUnusable \/ NoMoreHosts \/ FinalFlush \/ NoFinalFlush
           \/ UNCHANGED vars
  BY <1>0, <1>1 DEF Cancel, Load, HostUnusable, NoMoreHosts, FinalFlush, NoFinalFlush, vars,
                    OneHost
<1>2. CASE StartHost \/ NextHost
  BY <1>0, <1>2 DEF StartHost, NextHost, OneHost
<1>3. CASE Interrupted \/ RefuseReboots \/ UnresolvableTask \/ MetaUnevaluable \/ MetaSkipped
           \/ FlushHandlersTask \/ EndTask
  BY <1>3 DEF Interrupted, RefuseReboots, UnresolvableTask, MetaUnevaluable, MetaSkipped,
              FlushHandlersTask, EndTask, AtTask, NextTask, StopHost, FailTask
<1>4. CASE IncludeTasks \/ IncludeTasksForLoop \/ EmptyLoop \/ BeginLoop \/ EndLoop \/ TasksDone
  BY <1>4 DEF IncludeTasks, IncludeTasksForLoop, EmptyLoop, BeginLoop, EndLoop, TasksDone,
              AtTask, NextTask, StopHost, FailTask
<1>5. CASE RunTask
  <2>1. UNCHANGED <<initiated, issued>> /\ pc = "task"
    BY <1>5, OnlyRebootIssues DEF RunTask, AtTask
  <2>2. UNCHANGED <<failed, hostFailed>> \/ hostFailed' = TRUE
    BY <1>5 DEF RunTask, Conclude, NextTask, StopHost
  <2> QED
    BY <2>1, <2>2
<1>6. CASE RunReboot
  <2>1. (failed /\ ~hostFailed)' => FALSE
    BY <1>6, RebootStep
  <2>2. CASE issued' = issued /\ initiated' = initiated
    BY <2>1, <2>2
  <2>3. CASE issued' = issued + 1
    BY <1>0, <2>1, <2>3
  <2> QED
    BY <1>6, <2>2, <2>3, RebootStep
<1>7. CASE LoopItem
  <2>1. issued' = issued
    BY <1>7, OnlyRebootIssues DEF LoopItem
  <2> QED
    BY <1>7, <2>1 DEF LoopItem
<1>8. CASE BeginRound \/ BeginHandler \/ EndFlush \/ HandlerDone \/ BeginHandlerLoop
  BY <1>8 DEF BeginRound, BeginHandler, EndFlush, HandlerDone, BeginHandlerLoop, AtHandlerTask
<1>9. CASE UnusableHandler \/ HandlerIncludeTasks \/ EndHandlerLoop
  BY <1>9 DEF UnusableHandler, HandlerIncludeTasks, EndHandlerLoop, AtHandlerTask, AbortFlush,
              NextHandlerTask
<1>10. CASE RunHandlerTask
  <2>1. UNCHANGED <<initiated, issued>> /\ pc = "handler"
    BY <1>10, OnlyRebootIssues DEF RunHandlerTask, AtHandlerTask
  <2>2. UNCHANGED <<failed, hostFailed>> \/ hostFailed' = TRUE \/ pc' = "closing"
    BY <1>10 DEF RunHandlerTask, ConcludeHandler, NextHandlerTask, AbortFlush
  <2> QED
    BY <2>1, <2>2
<1>11. CASE HandlerLoopItem
  <2>1. issued' = issued
    BY <1>11, OnlyRebootIssues DEF HandlerLoopItem
  <2> QED
    BY <1>11, <2>1 DEF HandlerLoopItem, AbortFlush
<1> QED
  BY <1>1, <1>2, <1>3, <1>4, <1>5, <1>6, <1>7, <1>8, <1>9, <1>10, <1>11
     DEF Next, RunStep, HostStep, TaskStep, FlushStep

(* Every step of a local run is one the contract allows.                   *)
LEMMA ContractStep ==
    ASSUME TypeOK, play.local, LocalInv, Reported, [Next]_vars
    PROVE  [Contract!Next]_(Contract!vars)
<1> USE DEF Contract!Next, Contract!vars, Contract!Fail, Contract!IssueReboot,
            Contract!Return, Contract!ReturnError, Returned, hostVars, history, result
<1>0. /\ OneHost /\ StoppedAtFailure /\ StoppedAtReboot
      /\ play.hosts = 1 /\ play' = play
      /\ issued \in Nat /\ host \in Nat /\ idx \in Nat \ {0} /\ Len(queue) \in Nat
      /\ failed \in BOOLEAN /\ initiated \in BOOLEAN
  BY PlayRunAssumption, PlayKept, LenProperties DEF LocalInv, TypeOK, Flags, Places, Queues
<1>1. CASE UNCHANGED vars
  BY <1>1 DEF vars
<1>2. CASE Quiet
  BY <1>0, <1>2 DEF Quiet
<1>3. CASE Load
  BY <1>0, <1>3 DEF Load, OneHost, Reported
<1>4. CASE NoMoreHosts \/ NextHost
  BY <1>0, <1>4 DEF NoMoreHosts, NextHost
<1>5. CASE Interrupted
  <2>1. issued = 0 /\ ~failed
    BY <1>0, <1>5 DEF Interrupted, StoppedAtReboot, StoppedAtFailure, Reported
  <2> QED
    BY <1>0, <1>5, <2>1 DEF Interrupted
<1>6. CASE RunReboot
  <2>1. issued = 0 /\ ~failed /\ ~initiated /\ pc = "task"
    BY <1>0, <1>6, RebootStep DEF StoppedAtReboot, StoppedAtFailure, Reported
  <2>2. pc' \in {"task", "drained"}
    BY <1>6, RebootStep
  <2>3. CASE UNCHANGED <<issued, initiated>>
    <3>1. failed' = failed \/ failed' = TRUE
      BY <1>6, RebootStep
    <3> QED
      BY <1>0, <2>1, <2>2, <2>3, <3>1
  <2>4. CASE issued' = issued + 1 /\ MayReboot
    <3>1. (issued > 0)' = TRUE /\ (issued > 0) = FALSE
      BY <2>1, <2>4
    <3>2. \/ initiated' = TRUE /\ failed' = FALSE
          \/ initiated' = FALSE /\ failed' = TRUE
      <4>1. issued' # issued /\ failed = FALSE /\ initiated = FALSE
        BY <1>0, <2>1, <2>4
      <4> QED
        BY <1>6, <4>1, RebootStep
    <3> QED
      BY <1>0, <2>1, <2>2, <2>4, <3>1, <3>2 DEF MayReboot
  <2> QED
    BY <1>6, <2>3, <2>4, RebootStep
<1> QED
  BY <1>1, <1>2, <1>3, <1>4, <1>5, <1>6, QuietSteps

(* Every local run keeps the contract the deployment daemon relies on.     *)
THEOREM RunKeepsContract == Spec => KeepsContract
<1> DEFINE Inv == play.local => Reported
           Kept == play.local => [Contract!Next]_(Contract!vars)
<1>1. Init => Inv /\ (play.local => Contract!Init)
  <2> SUFFICES ASSUME Init, play.local PROVE Reported /\ Contract!Init
    OBVIOUS
  <2>1. play.allowReboot \in BOOLEAN
    BY PlayRunAssumption DEF Init, Play
  <2> QED
    BY <2>1 DEF Init, Reported, Contract!Init, Returned
<1>2. TypeOK /\ LocalInv /\ Inv /\ [Next]_vars => Inv'
  BY ReportedNext, PlayKept
<1>3. TypeOK /\ LocalInv /\ Inv /\ [Next]_vars => Kept
  BY ContractStep
<1> QED
  <2>1. TypeOK /\ LocalInv /\ Inv /\ [Next]_vars => [Kept]_vars
    BY <1>3
  <2> HIDE DEF Kept, Inv
  <2>2. Spec => [][Kept]_vars
    BY <1>1, <1>2, <2>1, TypeCorrect, LocalKept, PTL DEF Spec
  <2>3. Spec => (play.local => Contract!Init)
    BY <1>1 DEF Spec
  <2> QED
    BY <2>2, <2>3 DEF KeepsContract, Kept

(* For a local run this is the contract itself: it refines RunContract.    *)
COROLLARY LocalRunsRefine == Spec /\ play.local => Contract!Spec
<1>1. play.local /\ [Next]_vars => play.local'
  BY PlayKept
<1>2. play.local /\ [play.local => [Contract!Next]_(Contract!vars)]_vars
        => [Contract!Next]_(Contract!vars)
  BY DEF vars, Contract!vars, hostVars, history, result, Returned
<1> QED
  BY <1>1, <1>2, RunKeepsContract, PTL DEF Spec, KeepsContract, Contract!Spec

=============================================================================

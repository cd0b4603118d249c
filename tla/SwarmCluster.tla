---------------------------- MODULE SwarmCluster ----------------------------
(***************************************************************************)
(* The docker_swarm module: the host creates a swarm, joins or leaves one, *)
(* changes the options of the swarm it manages, or removes a node from it. *)
(* An update names the version of the options it was computed from, and    *)
(* the managers refuse it when that is no longer the current one.          *)
(***************************************************************************)
EXTENDS ModuleRuns, Naturals, FiniteSets

CONSTANTS
    Options,   \* of a swarm, each with one of the values:
    Values,
    Default,   \* the value of an option no task gave
    Attempts,  \* to find a node down before it is removed (executor.go:21)
    Tasks

Given == UNION {[D -> Values] : D \in SUBSET Options}
Requests ==
    [state : {"present", "join", "absent", "remove"}, options : Given,
     rotate : BOOLEAN,   \* tokens to rotate or a signing CA: always a difference
     force : BOOLEAN]

TaskAssumption ==
    Tasks \subseteq Requests /\ Default \in Values /\ Attempts \in Nat \ {0}

(* This host in its swarm, the options of the swarm with their version (a  *)
(* bound: modulo 3, which is enough while others update once in a run),    *)
(* and the other node that tasks remove.                                   *)
Indexes == 0 .. 2
Defaults == [o \in Options |-> Default]
Clusters ==
    [member : {"no", "pending", "worker", "manager"}, options : [Options -> Values],
     version : Indexes, node : {"gone", "ready", "down"}]
Alone == [member |-> "no", options |-> Defaults, version |-> 0, node |-> "gone"]

Nothing == [options |-> Defaults, version |-> 0, attempt |-> 0, unknown |-> FALSE]
Snapshots == [options : [Options -> Values], version : Indexes, attempt : 0 .. Attempts,
              unknown : BOOLEAN]
Places == {"info", "inspect", "compare", "update", "init", "verify", "join", "leave", "probe",
           "drop", "failed", "answer"}

TypeOK ==
    /\ actual \in Clusters /\ memo \in Memos
    /\ run \in RunStates(Tasks, Places, Snapshots)
    /\ Checking => run.at \notin {"update", "init", "join", "leave", "drop"}

t == run.task
now == run.read

Overlay(options, given) ==
    [o \in Options |-> IF o \in DOMAIN given THEN given[o] ELSE options[o]]
Differences(task, options) == {o \in DOMAIN task.options : task.options[o] # options[o]}
Updated(options) == [actual EXCEPT !.options = options, !.version = (@ + 1) % 3]

-----------------------------------------------------------------------------
Start ==
    \E task \in Tasks, mode \in {"check", "apply"} : Begin(task, mode, "info", Nothing)

(* info: whether the host is in a swarm is only asked once.  A join that   *)
(* is still pending counts.                                                *)
Info ==
    /\ At("info")
    /\ CASE t.state = "present" -> Goto("inspect")
         [] t.state = "join" ->
              IF actual.member # "no" THEN Goto("answer")
              ELSE IF Checking THEN Reports("answer") ELSE Goto("join")
         [] t.state = "absent" ->
              IF actual.member = "no" THEN Goto("answer")
              ELSE IF Checking THEN Reports("answer") ELSE Goto("leave")
         [] t.state = "remove" ->
              IF actual.member = "manager" THEN Goto("probe") ELSE Refuse

(* present: a manager updates, unless a new cluster is forced.  Any other  *)
(* answer to the inspection means: create a swarm.                         *)
Present ==
    /\ At("inspect")
    /\ IF actual.member = "manager" /\ ~t.force THEN Goto("compare")
       ELSE IF Checking THEN Reports("answer") ELSE Goto("init")
(* The swarm is inspected again for its options, which only a manager can. *)
Compare ==
    /\ At("compare")
    /\ IF actual.member # "manager" THEN Refuse
       ELSE LET differs == Differences(t, actual.options) # {} \/ t.rotate IN
            Step(IF differs /\ ~Checking THEN "update" ELSE "answer", actual,
                 [now EXCEPT !.options = actual.options, !.version = actual.version], differs)

UpdateAnyVersion ==   \* mutant
    /\ At("update") /\ actual.member = "manager"
    /\ Changes("answer", Updated(Overlay(now.options, t.options)))
Update ==
    /\ At("update") /\ actual.member = "manager" /\ actual.version = now.version
    /\ Changes("answer", Updated(Overlay(now.options, t.options)))

(* SwarmInit: not inside another swarm; only a manager can force a new one.*)
InitSwarm ==
    /\ At("init") /\ actual.member = (IF t.force /\ actual.member # "no" THEN "manager" ELSE "no")
    /\ Changes("verify", [member |-> "manager", options |-> Overlay(Defaults, t.options),
                          version |-> 0, node |-> "gone"])
Verify == At("verify") /\ IF actual.member = "manager" THEN Goto("answer") ELSE Refuse

(* A join that times out goes on in the background.                        *)
Join ==
    /\ At("join") /\ actual.member = "no"
    /\ Changes("answer", [actual EXCEPT !.member = "worker"])
JoinTimesOut ==
    /\ At("join") /\ actual.member = "no"
    /\ Changes("failed", [actual EXCEPT !.member = "pending"])

(* The engine lets a manager leave only by force.                          *)
Leave ==
    /\ At("leave") /\ actual.member # "no" /\ (actual.member = "manager" => t.force)
    /\ Changes("answer", Alone)

(* nodeIsDown: every few seconds, a number of times; an inspection that    *)
(* fails, for whatever reason, passes for a node that was removed before.  *)
Probe ==
    /\ At("probe") /\ actual.node # "gone"
    /\ IF actual.node = "down" THEN (IF Checking THEN Reports("answer") ELSE Goto("drop"))
       ELSE IF now.attempt < Attempts - 1 THEN Reads("probe", [now EXCEPT !.attempt = @ + 1])
       ELSE Refuse
NodeGone == At("probe") /\ actual.node = "gone" /\ Goto("answer")
NodeNotInspected == At("probe") /\ Reads("answer", [now EXCEPT !.unknown = TRUE])

(* NodeRemove: a node that is ready is only removed by force.              *)
RemoveNode ==
    /\ At("drop") /\ (actual.node = "down" \/ (actual.node = "ready" /\ t.force))
    /\ Changes("answer", [actual EXCEPT !.node = "gone"])

EngineRefuses ==
    /\ \/ At("update") /\ (actual.member # "manager" \/ actual.version # now.version)
       \/ At("init") /\ actual.member \notin (IF t.force THEN {"no", "manager"} ELSE {"no"})
       \/ At("join") /\ actual.member # "no"
       \/ At("leave") /\ (actual.member = "no" \/ (actual.member = "manager" /\ ~t.force))
       \/ At("drop") /\ (actual.node = "gone" \/ (actual.node = "ready" /\ ~t.force))
    /\ Refuse

Finish == (At("answer") /\ Answer(run.changed)) \/ (At("failed") /\ Stops("failed"))

CallError ==
    \/ NodeNotInspected
    \/ CallFails({"info", "inspect", "compare", "update", "init", "verify", "join", "leave", "drop"})

(* Another manager updates the options; nodes come, go down and are        *)
(* removed; this one is promoted, demoted, or its pending join ends.       *)
NodeGoesDown ==
    /\ actual.node = "ready"
    /\ LET h == [actual EXCEPT !.node = "down"] IN
       IF At("probe") THEN Awaited(h) ELSE Undisturbed /\ Interferes(h)
Outside ==
    \/ /\ actual.member \in {"worker", "manager"}
       /\ \/ \E o \in Options, v \in Values :
                Interferes(Updated([actual.options EXCEPT ![o] = v]))
          \/ \E m \in {"worker", "manager"}, n \in {"gone", "ready"} :
                Interferes([actual EXCEPT !.member = m, !.node = n])
    \/ /\ actual.member = "pending"
       /\ \E m \in {"no", "worker"} : Interferes([actual EXCEPT !.member = m])

Steps ==
    \/ Info \/ Present \/ Compare \/ Update \/ InitSwarm \/ Verify \/ Join \/ JoinTimesOut
    \/ Leave \/ Probe \/ NodeGone \/ RemoveNode \/ EngineRefuses \/ Finish

Init == InitRuns({Alone}, Tasks)
Next == Start \/ Steps \/ CallError \/ Killed \/ NodeGoesDown \/ (Undisturbed /\ Outside)
Spec == Init /\ [][Next]_vars

-----------------------------------------------------------------------------
(* The state a task asks for.  A node whose inspection failed is taken for *)
(* one that was removed (executor.go:240).                                 *)
Satisfied(task, h) ==
    CASE task.state = "present" -> h.member = "manager" /\ Differences(task, h.options) = {}
      [] task.state = "join" -> h.member # "no"
      [] task.state = "absent" -> h.member = "no"
      [] task.state = "remove" ->
            Checking \/ h.node = "gone" \/ (~Idle /\ now.unknown)

(* A check run of docker_swarm announces what the real run then does,      *)
(* unless it could not inspect the node that is to be removed.             *)
Predicts == t.state # "remove" => Foretold

(* Applying a task again changes nothing, unless it rotates tokens, sets a *)
(* signing CA or forces a new cluster (executor_test.go:246), or took a    *)
(* node for one that is gone.                                              *)
Idempotent ==
    t.state # "remove" /\ ~(t.state = "present" /\ (t.rotate \/ t.force)) => Unchanging

(* An update computed from old options never takes back what another       *)
(* manager changed meanwhile: options the task does not give keep the      *)
(* value they have at that moment (executor.go:176).                       *)
NothingTakenBack ==
    At("update") /\ run'.at = "answer" =>
      \A o \in Options \ DOMAIN t.options : actual'.options[o] = actual.options[o]

(* A node is only removed after it was found down, so the managers do not  *)
(* refuse it, unless it comes back in that moment (executor.go:245).       *)
RemovalNotRefused ==
    At("drop") /\ Answers /\ run'.reply = "refused" => run.disturbed
=============================================================================

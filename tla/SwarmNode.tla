----------------------------- MODULE SwarmNode -----------------------------
(***************************************************************************)
(* The docker_node module: the role, availability and labels of a node of  *)
(* the swarm.  The new specification is computed once, from one            *)
(* inspection; each attempt to send it reads the current version again.    *)
(***************************************************************************)
EXTENDS ModuleRuns, Naturals

CONSTANTS
    Labels,     \* names of labels
    Values,     \* of labels, one of them empty:
    Empty,
    Attempts,   \* to send the specification (executor.go:216)
    Tasks

LabelMaps == UNION {[D -> Values] : D \in SUBSET Labels}
Roles == {"manager", "worker"}
Availabilities == {"active", "pause", "drain"}

(* Without a wish for a role or an availability the node keeps it.         *)
Requests ==
    [role : Roles \union {""}, availability : Availabilities \union {""}, labels : LabelMaps,
     drop : SUBSET Labels, replace : BOOLEAN]

TaskAssumption == Tasks \subseteq Requests /\ Empty \in Values /\ Attempts \in Nat \ {0}

(* The node, and what the swarm knows beside its specification: whether    *)
(* this host is down, and whether the node is the last manager.            *)
Specs == [role : Roles, availability : Availabilities, labels : LabelMaps]
Nodes == [spec : Specs, down : BOOLEAN, last : BOOLEAN]

(* What a run knows: the specification it will send, its attempt, and      *)
(* whether nobody updated the node since the run read its version.         *)
NoSpec == [role |-> "worker", availability |-> "active", labels |-> [l \in {} |-> Empty]]
Nothing == [spec |-> NoSpec, attempt |-> 0, fresh |-> FALSE]
Snapshots == [spec : Specs, attempt : 0 .. Attempts - 1, fresh : BOOLEAN]
Places == {"local", "inspect", "version", "update", "report"}

TypeOK ==
    /\ actual \in Nodes /\ memo \in Memos
    /\ run \in RunStates(Tasks, Places, Snapshots)
    /\ Checking => run.at \notin {"version", "update"}

t == run.task
now == run.read

(* A label the node does not have reads as the empty value.                *)
LabelOf(labels, l) == IF l \in DOMAIN labels THEN labels[l] ELSE Empty
Assigned(task, l) == l \in DOMAIN task.labels /\ task.labels[l] # Empty

Merged(task, labels) ==
    LET names == DOMAIN labels \union {l \in DOMAIN task.labels : Assigned(task, l)}
        dropped == {l \in task.drop : ~Assigned(task, l)} IN
    [l \in names \ dropped |-> IF l \in DOMAIN task.labels THEN task.labels[l] ELSE labels[l]]

Desired(task, spec) ==
    [role |-> IF task.role = "" THEN spec.role ELSE task.role,
     availability |-> IF task.availability = "" THEN spec.availability ELSE task.availability,
     labels |-> IF task.replace THEN task.labels ELSE Merged(task, spec.labels)]

-----------------------------------------------------------------------------
Start ==
    \E task \in Tasks, mode \in {"check", "apply"} : Begin(task, mode, "local", Nothing)

(* localNodeIsDown: it is this host that is asked about, not the node.     *)
Local == At("local") /\ IF actual.down THEN Refuse ELSE Goto("inspect")

Inspect ==
    /\ At("inspect")
    /\ LET spec == Desired(t, actual.spec) IN
       IF spec = actual.spec THEN Answer(FALSE)
       ELSE Step(IF Checking THEN "report" ELSE "version", actual, [now EXCEPT !.spec = spec], TRUE)

(* updateNode: the version is read for every attempt, the specification is *)
(* the one of the first inspection.                                        *)
Version == At("version") /\ Reads("update", [now EXCEPT !.fresh = TRUE])

Accepted == now.fresh /\ ~(actual.last /\ actual.spec.role = "manager" /\ now.spec.role = "worker")
Update ==
    /\ At("update") /\ Accepted
    /\ Changes("report", [actual EXCEPT !.spec = now.spec])

Again ==
    IF now.attempt < Attempts - 1 THEN Reads("version", [now EXCEPT !.attempt = @ + 1]) ELSE Refuse
OutOfSequence == At("update") /\ ~now.fresh /\ Again
(* Whatever else fails with an error that mentions a version.              *)
OtherVersionError == At("update") /\ now.fresh /\ now.attempt < Attempts - 1 /\ Again

(* Any other refusal is final; the last manager cannot be demoted.         *)
Refused == At("update") /\ now.fresh /\ ~Accepted /\ Refuse

Report == At("report") /\ Answer(run.changed)

CallError == CallFails({"local", "inspect", "version", "update", "report"})

(* Another manager updates the node, or this host goes down or comes back. *)
OutdatedBy(a) ==
    /\ a # actual /\ actual' = a /\ memo' = NoMemo
    /\ run' = IF Idle THEN run ELSE [run EXCEPT !.disturbed = TRUE, !.read.fresh = FALSE]
Outside ==
    \/ \E r \in Roles : OutdatedBy([actual EXCEPT !.spec.role = r])
    \/ \E l \in Labels, v \in Values \ {Empty} :
          OutdatedBy([actual EXCEPT !.spec.labels =
                        [k \in DOMAIN @ \union {l} |-> IF k = l THEN v ELSE @[k]]])
    \/ \E l \in Labels :
          OutdatedBy([actual EXCEPT !.spec.labels = [k \in DOMAIN @ \ {l} |-> @[k]]])
    \/ Interferes([actual EXCEPT !.down = ~@])
    \/ Interferes([actual EXCEPT !.last = ~@])

Steps ==
    \/ Local \/ Inspect \/ Version \/ Update \/ OutOfSequence \/ OtherVersionError \/ Refused
    \/ Report

Init ==
    InitRuns([spec : {[NoSpec EXCEPT !.role = r] : r \in Roles}, down : {FALSE}, last : BOOLEAN],
             Tasks)
Next == Start \/ Steps \/ CallError \/ Killed \/ Outside
Spec == Init /\ [][Next]_vars

-----------------------------------------------------------------------------
Satisfied(task, node) ==
    /\ task.role \in {"", node.spec.role}
    /\ task.availability \in {"", node.spec.availability}
    /\ IF task.replace THEN node.spec.labels = task.labels
       ELSE /\ \A l \in DOMAIN task.labels : LabelOf(node.spec.labels, l) = task.labels[l]
            /\ \A l \in task.drop \ DOMAIN task.labels : l \notin DOMAIN node.spec.labels

(* A check run of docker_node announces what the real run then does.       *)
Predicts == Foretold

(* Applying a task again changes nothing (executor.go:72).                 *)
Idempotent == Unchanging

(* An update that is refused for its version is tried again: a run that is *)
(* outdated once does not fail for it (executor.go:216).                   *)
OutdatedOnceIsRetried ==
    At("update") /\ ~now.fresh /\ now.attempt = 0 => run'.reply # "refused"
=============================================================================

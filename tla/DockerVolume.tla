---------------------------- MODULE DockerVolume ----------------------------
(***************************************************************************)
(* The docker_volume module.  A volume cannot be reconfigured: one that    *)
(* differs is kept as it is, or removed with its data and created again.   *)
(***************************************************************************)
EXTENDS ModuleRuns, FiniteSets

CONSTANTS
    Drivers,
    local,      \* the driver of a task that names none
    Options,    \* driver options, each with its value
    Labels,     \* labels, each with its value
    Tasks

Requests ==
    [state : {"present", "absent"}, driver : Drivers, options : SUBSET Options,
     labels : SUBSET Labels, recreate : {"never", "always", "options-changed"}]

TaskAssumption == Tasks \subseteq Requests /\ local \in Drivers

(* A volume, whether containers use it, and whether they wrote to it.      *)
Volumes ==
    [there : BOOLEAN, driver : Drivers, options : SUBSET Options, labels : SUBSET Labels,
     used : BOOLEAN, data : BOOLEAN]
NoVolume == [there |-> FALSE, driver |-> local, options |-> {}, labels |-> {},
             used |-> FALSE, data |-> FALSE]

Nothing == [found |-> FALSE, differs |-> FALSE]
Snapshots == {s \in [found : BOOLEAN, differs : BOOLEAN] : s.differs => s.found}
Places == {"inspect", "decide", "remove", "create", "answer"}

TypeOK ==
    /\ actual \in {v \in Volumes : ~v.there => v = NoVolume}
    /\ memo \in Memos /\ run \in RunStates(Tasks, Places, Snapshots)

t == run.task

-----------------------------------------------------------------------------
(* What is given is compared; a volume may have more options and labels.   *)
HasDifferentConfig(task, v) ==
    \/ task.driver # v.driver
    \/ ~(task.options \subseteq v.options)
    \/ ~(task.labels \subseteq v.labels)

ShouldRecreate(task, seen) ==
    seen.found /\ (task.recreate = "always" \/ (task.recreate = "options-changed" /\ seen.differs))

Start ==
    \E task \in Tasks, mode \in {"check", "apply"} : Begin(task, mode, "inspect", Nothing)

InspectVolume ==
    /\ At("inspect")
    /\ Reads("decide", [found |-> actual.there,
                        differs |-> actual.there /\ HasDifferentConfig(t, actual)])

DecideAbsent ==
    /\ At("decide") /\ t.state = "absent"
    /\ IF ~run.read.found THEN Goto("answer")
       ELSE IF Checking THEN Reports("answer") ELSE Goto("remove")

DecidePresent ==
    /\ At("decide") /\ t.state = "present"
    /\ IF ShouldRecreate(t, run.read)
         THEN IF Checking THEN Reports("answer") ELSE Goto("remove")
       ELSE IF run.read.found THEN Goto("answer")
       ELSE IF Checking THEN Reports("answer") ELSE Goto("create")

(* The engine removes no volume a container uses, and none that is gone.   *)
RemoveVolume ==
    /\ At("remove") /\ actual.there /\ ~actual.used
    /\ Changes(IF t.state = "absent" THEN "answer" ELSE "create", NoVolume)
CannotRemove == At("remove") /\ (~actual.there \/ actual.used) /\ Refuse

(* Creating a volume that exists by now succeeds, unless by another driver.*)
CreateVolume ==
    /\ At("create") /\ (actual.there => actual.driver = t.driver)
    /\ Changes("answer",
               IF actual.there THEN actual
               ELSE [NoVolume EXCEPT !.there = TRUE, !.driver = t.driver, !.options = t.options,
                                     !.labels = t.labels])
CannotCreate == At("create") /\ actual.there /\ actual.driver # t.driver /\ Refuse

Finish == At("answer") /\ Answer(run.changed)

CallError == CallFails({"inspect", "remove", "create", "answer"})

(* Containers come to use the volume, write to it and leave it; others     *)
(* remove it or create one of their own.                                   *)
Outside ==
    \/ actual.there /\ Interferes([actual EXCEPT !.used = TRUE, !.data = TRUE])
    \/ Interferes([actual EXCEPT !.used = FALSE])
    \/ ~actual.used /\ Interferes(NoVolume)
    \/ /\ ~actual.there
       /\ \E d \in Drivers, o \in SUBSET Options, l \in SUBSET Labels :
             Interferes([NoVolume EXCEPT !.there = TRUE, !.driver = d, !.options = o, !.labels = l])

Steps ==
    \/ InspectVolume \/ DecideAbsent \/ DecidePresent \/ RemoveVolume \/ CannotRemove
    \/ CreateVolume \/ CannotCreate \/ Finish

Init == InitRuns({NoVolume}, Tasks)
Next == Start \/ Steps \/ CallError \/ Killed \/ Outside
Spec == Init /\ [][Next]_vars

-----------------------------------------------------------------------------
(* The state a task asks for; what differs is kept, unless it may be       *)
(* created again.                                                          *)
Satisfied(task, v) ==
    IF task.state = "absent" THEN ~v.there
    ELSE v.there /\ (task.recreate # "never" => ~HasDifferentConfig(task, v))

(* A check run of docker_volume announces what the real run then does.     *)
Predicts == Foretold

(* Applying a task again changes nothing, unless it always recreates.      *)
Idempotent == t.state = "absent" \/ t.recreate # "always" => Unchanging

(* A run destroys what containers wrote only if the task removes the       *)
(* volume, always recreates it, or asks for an option or a label that the  *)
(* volume does not have (docker_volume/executor.go:158).                   *)
DataKept ==
    ~Idle /\ run.touched' /\ actual.data /\ ~actual'.data /\ ~run.disturbed =>
      \/ t.state = "absent" \/ t.recreate = "always"
      \/ ~(t.labels \subseteq actual.labels /\ t.options \subseteq actual.options)
      \/ t.driver # actual.driver
=============================================================================

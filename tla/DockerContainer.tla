-------------------------- MODULE DockerContainer --------------------------
(***************************************************************************)
(* The docker_container module.  A container is compared with what the     *)
(* task and its image ask for; some differences are updated in place, the  *)
(* others mean stopping, removing, waiting for the removal and creating it *)
(* again.  Its networks and its life cycle are reconciled afterwards.      *)
(***************************************************************************)
EXTENDS ModuleRuns, FiniteSets, Naturals

CONSTANTS
    Options,     \* what is compared; a value is the set of its elements
    Mutable,     \* the options the engine can update in place
    Elements,
    Networks,    \* with the engine's default network:
    bridge,
    Versions,    \* the images a name can stand for; 0 is no image
    ImageValue,  \* ImageValue[v][o]: what image v itself says of option o
    Hosts,       \* the states of the host to start from
    Tasks

Given == UNION {[D -> SUBSET Elements] : D \in SUBSET Options}
Modes == {"strict", "allow_more_present", "ignore"}

(* What is left of a request behind normalizeDefaults and validateRequest. *)
Requests ==
    [state : {"absent", "present", "started", "healthy", "stopped"},
     options : Given, comparisons : [Options \union {"networks", "image"} -> Modes], image : BOOLEAN,
     networks : SUBSET Networks, network_given : BOOLEAN, cli_compatible : BOOLEAN,
     pull : {"never", "missing", "always"}, pull_in_check : BOOLEAN,
     image_comparison : {"desired-image", "current-image"},
     recreate : {"auto", "always", "never"}, restart : BOOLEAN,
     paused : {"any", "yes", "no"}, detach : BOOLEAN, cleanup : BOOLEAN,
     force_kill : BOOLEAN]

(* The container, as the engine sees it, and the images of its name.       *)
Healths == {"none", "starting", "healthy", "unhealthy"}
Containers ==
    [options : [Options -> SUBSET Elements], image : Versions \ {0},
     nets : SUBSET Networks, running : BOOLEAN, paused : BOOLEAN, health : Healths]
NoContainer == [options |-> [o \in Options |-> {}], image |-> 0, nets |-> {},
                running |-> FALSE, paused |-> FALSE, health |-> "none"]
HostStates ==
    {h \in [there : {"no", "yes", "removing"}, c : Containers \union {NoContainer},
            local : Versions, registry : Versions \ {0}] :
        /\ (h.c = NoContainer) <=> (h.there = "no")
        /\ h.c.paused => h.c.running
        /\ h.there = "removing" => ~h.c.running}

(* What can be updated in place are limits, of which an image says nothing.*)
TaskAssumption ==
    /\ Tasks \subseteq Requests /\ Hosts \subseteq HostStates
    /\ Mutable \subseteq Options /\ bridge \in Networks
    /\ Versions \subseteq Nat /\ 0 \in Versions
    /\ ImageValue \in [Versions \ {0} -> [Options -> SUBSET Elements]]
    /\ \A v \in Versions \ {0}, o \in Mutable : ImageValue[v][o] = {}

Nothing == [exists |-> FALSE, dying |-> FALSE, old |-> NoContainer, fresh |-> FALSE,
            drop |-> {}, join |-> {}]
Snapshots ==
    [exists : BOOLEAN, dying : BOOLEAN, old : Containers \union {NoContainer}, fresh : BOOLEAN,
     drop : SUBSET Networks, join : SUBSET Networks]
Places ==
    {"inspect", "image", "pull", "decide", "stop", "remove", "gone", "create",
     "created", "update", "networks", "rollback", "life", "pause", "health", "exit",
     "failed", "answer"}

TypeOK ==
    /\ actual \in HostStates /\ memo \in Memos
    /\ run \in RunStates(Tasks, Places, Snapshots)

t == run.task
now == run.read
Gone == [actual EXCEPT !.there = "no", !.c = NoContainer]
WithContainer(c) == [actual EXCEPT !.c = c]
Live(task) == task.state \in {"started", "healthy"}

-----------------------------------------------------------------------------
(* What a container is compared for.                                       *)

(* compareValues: sets, dictionaries and lists; a plain value is strict.   *)
Agrees(wanted, current, mode) ==
    \/ mode = "ignore"
    \/ mode = "strict" /\ wanted = current
    \/ mode = "allow_more_present" /\ wanted \subseteq current

(* expectedConfigWithImageDefaults: what the image adds is expected too.   *)
ExpectedGiven(task, o, v) == task.options[o]   \* mutant
Expected(task, o, v) ==
    task.options[o] \union (IF v = 0 THEN {} ELSE ImageValue[v][o])

(* The image whose defaults count: the wanted one or that of the container.*)
ComparisonImage(task, c, id) ==
    IF ~task.image \/ task.image_comparison = "current-image" THEN c.image ELSE id

Different(task, c, id) ==
    {o \in DOMAIN task.options :
        ~Agrees(Expected(task, o, ComparisonImage(task, c, id)), c.options[o],
                task.comparisons[o])}

ImageDiffers(task, c, id) ==
    task.image /\ task.comparisons["image"] # "ignore" /\ id # 0 /\ id # c.image

MustRecreate(task, c, id) ==
    \/ task.recreate = "always"
    \/ task.recreate = "auto" /\ (ImageDiffers(task, c, id) \/ Different(task, c, id) \ Mutable # {})

MustUpdate(task, c, id) == Different(task, c, id) \intersect Mutable # {}

(* networkDifferences: what to connect, and with strict what to leave.     *)
Connect(task, c) ==
    IF task.network_given /\ task.comparisons["networks"] # "ignore"
    THEN task.networks \ c.nets ELSE {}
Disconnect(task, c) ==
    IF task.network_given /\ task.comparisons["networks"] = "strict"
    THEN c.nets \ task.networks ELSE {}

(* needsLifecycleChange.                                                   *)
NeedsPause(task, c) == task.paused # "any" /\ (task.paused = "yes") # c.paused
NeedsLifecycle(task, c) ==
    \/ Live(task) /\ (~c.running \/ task.restart)
    \/ task.state = "stopped" /\ c.running
    \/ NeedsPause(task, c)

(* buildContainerConfig and what the engine takes from the image.          *)
Created(task, v) ==
    [options |-> [o \in Options |->
        (IF o \in DOMAIN task.options THEN task.options[o] ELSE {}) \union ImageValue[v][o]],
     image |-> v, nets |-> IF task.cli_compatible /\ task.networks # {} THEN task.networks
                           ELSE {bridge},
     running |-> FALSE, paused |-> FALSE, health |-> "none"]

-----------------------------------------------------------------------------
Start ==
    \E task \in Tasks, mode \in {"check", "apply"} : Begin(task, mode, "inspect", Nothing)

(* The snapshot everything that follows is decided with.                   *)
Inspect ==
    /\ At("inspect")
    /\ LET seen == [Nothing EXCEPT !.exists = actual.there # "no",
                                   !.dying = actual.there = "removing", !.old = actual.c] IN
       IF t.state = "absent"
       THEN Step(IF seen.exists /\ ~Checking THEN "stop" ELSE "answer",
                 actual, seen, seen.exists)
       ELSE Reads("image", seen)

(* ensureImage.                                                            *)
EnsureImage ==
    /\ At("image") /\ ~(t.image /\ t.pull = "never" /\ actual.local = 0)
    /\ IF t.image /\ (t.pull = "always" \/ actual.local = 0)
       THEN IF Checking THEN Step("decide", actual, now, actual.local = 0 \/ t.pull_in_check)
            ELSE Goto("pull")
       ELSE Goto("decide")
MissingImage == At("image") /\ t.image /\ t.pull = "never" /\ actual.local = 0 /\ Refuse

PullImage ==
    /\ At("pull")
    /\ Step("decide", [actual EXCEPT !.local = actual.registry], now,
            actual.local # actual.registry)

(* The image was removed between the pull and its inspection.              *)
LostImage == At("decide") /\ t.image /\ ~Checking /\ actual.local = 0 /\ Refuse

Decidable == At("decide") /\ (t.image => Checking \/ actual.local # 0)

(* A container that is being removed counts as absent; a real run waits    *)
(* until it is gone.                                                       *)
DecideCreate ==
    /\ Decidable /\ (~now.exists \/ now.dying) /\ t.image
    /\ Reports(IF Checking THEN "answer" ELSE IF now.dying THEN "gone" ELSE "create")

NothingToCreateFrom == Decidable /\ (~now.exists \/ now.dying) /\ ~t.image /\ Refuse

DecideRecreateSilently ==   \* mutant
    /\ Decidable /\ now.exists /\ ~now.dying
    /\ MustRecreate(t, now.old, actual.local)
    /\ IF Checking THEN Goto("answer") ELSE Reports("stop")
DecideRecreate ==
    /\ Decidable /\ now.exists /\ ~now.dying
    /\ MustRecreate(t, now.old, actual.local)
    /\ Reports(IF Checking THEN "answer" ELSE "stop")

(* Everything that is not recreated is decided on the snapshot.            *)
DecideKeep ==
    /\ Decidable /\ now.exists /\ ~now.dying
    /\ ~MustRecreate(t, now.old, actual.local)
    /\ LET update == MustUpdate(t, now.old, actual.local)
           drop == Disconnect(t, now.old)
           join == Connect(t, now.old)
       IN Step(IF Checking THEN "answer" ELSE IF update THEN "update" ELSE "networks", actual,
               [now EXCEPT !.drop = drop, !.join = join],
               run.changed \/ update \/ drop \union join # {} \/ NeedsLifecycle(t, now.old))

(* removeContainer: unpause, stop or kill, remove.  The snapshot says      *)
(* whether to stop; the engine removes no running container unforced.  A   *)
(* removal by somebody else that is still in progress is good enough.      *)
StopOld ==
    /\ At("stop")
    /\ IF now.old.running /\ actual.there = "yes"
       THEN Changes("remove", WithContainer([actual.c EXCEPT !.running = FALSE, !.paused = FALSE,
                                                             !.health = "none"]))
       ELSE Goto("remove")
RemoveOld ==
    /\ At("remove") /\ (actual.c.running => t.force_kill)
    /\ Changes(IF t.state = "absent" THEN "answer" ELSE "gone",
               IF actual.there = "removing" THEN actual ELSE Gone)
StillRunning == At("remove") /\ actual.c.running /\ ~t.force_kill /\ Refuse

WaitForRemoval == At("gone") /\ actual.there = "no" /\ Goto("create")

(* createContainer: the container, then the networks it is still to join.  *)
SourceImage == IF t.image THEN actual.local ELSE now.old.image
CreateContainer ==
    /\ At("create") /\ actual.there = "no" /\ SourceImage # 0
    /\ Step("created", [actual EXCEPT !.there = "yes", !.c = Created(t, SourceImage)],
            [now EXCEPT !.fresh = TRUE], TRUE)
CannotCreate == At("create") /\ (actual.there # "no" \/ SourceImage = 0) /\ Refuse

AsCreated(task) ==
    IF task.comparisons["networks"] # "ignore" THEN task
    ELSE [task EXCEPT !.comparisons["networks"] = "allow_more_present"]
NetworksOfCreated ==
    /\ At("created")
    /\ IF actual.there # "yes" THEN Goto("rollback")
       ELSE Reads("networks", [now EXCEPT !.drop = Disconnect(AsCreated(t), actual.c),
                                          !.join = Connect(AsCreated(t), actual.c)])

(* A container whose networks cannot be completed is removed again, and an *)
(* error of that removal is passed over.                                   *)
RollBack ==
    /\ At("rollback")
    /\ Step("failed", IF actual.there = "yes" THEN Gone ELSE actual, now, run.changed)

UpdateContainer ==
    /\ At("update") /\ actual.there = "yes"
    /\ Changes("networks",
         WithContainer([actual.c EXCEPT !.options =
             [o \in Options |-> IF o \in DOMAIN t.options \intersect Mutable
                                THEN t.options[o] ELSE @[o]]]))

(* applyNetworkChanges.                                                    *)
LeaveNetwork ==
    /\ At("networks") /\ now.drop # {}
    /\ \E n \in now.drop :
          Step("networks", WithContainer([actual.c EXCEPT !.nets = @ \ {n}]),
               [now EXCEPT !.drop = @ \ {n}], TRUE)
JoinNetwork ==
    /\ At("networks") /\ now.drop = {} /\ now.join # {} /\ actual.there = "yes"
    /\ \E n \in now.join :
          Step("networks", WithContainer([actual.c EXCEPT !.nets = @ \union {n}]),
               [now EXCEPT !.join = @ \ {n}], TRUE)
NetworksDone == At("networks") /\ now.drop = {} /\ now.join = {} /\ Goto("life")

(* reconcileLifecycle looks again: start, restart or stop; then pause.     *)
StartOrStop ==
    /\ At("life") /\ actual.there = "yes"
    /\ LET c == actual.c
           started == [c EXCEPT !.running = TRUE, !.paused = FALSE, !.health = "starting"]
       IN IF Live(t) /\ (~c.running \/ (t.restart /\ ~now.fresh))
          THEN Changes("pause", WithContainer(started))
          ELSE IF t.state = "stopped" /\ c.running
          THEN Changes("pause", WithContainer([c EXCEPT !.running = FALSE, !.paused = FALSE,
                                                        !.health = "none"]))
          ELSE Goto("pause")
Pause ==
    /\ At("pause") /\ actual.there = "yes"
    /\ (Live(t) /\ NeedsPause(t, actual.c)) => actual.c.running
    /\ LET next == IF t.state = "healthy" THEN "health"
                   ELSE IF ~t.detach /\ Live(t) THEN "exit" ELSE "answer"
       IN IF Live(t) /\ NeedsPause(t, actual.c)
          THEN Changes(next, WithContainer([actual.c EXCEPT !.paused = ~@]))
          ELSE Goto(next)

(* The container was removed, or has stopped, under the run.               *)
ContainerLost ==
    /\ \/ run.at \in {"update", "life", "pause"} /\ actual.there # "yes"
       \/ At("networks") /\ now.drop = {} /\ now.join # {} /\ actual.there # "yes" /\ ~now.fresh
       \/ At("pause") /\ Live(t) /\ NeedsPause(t, actual.c) /\ ~actual.c.running
       \/ At("health") /\ actual.there # "yes"
    /\ Refuse

(* waitForHealthy: an unhealthy container is waited for as well.           *)
Healthy ==
    /\ At("health") /\ actual.c.health \in {"none", "healthy"} /\ actual.there = "yes"
    /\ Goto(IF t.detach THEN "answer" ELSE "exit")

(* waitForExit: a task that is not detached waits for the process to end   *)
(* and fails when its status is not 0.                                     *)
Exited ==
    /\ At("exit") /\ ~actual.c.running
    /\ \E next \in {"answer", "failed"} :
          Step(next, IF t.cleanup /\ actual.there = "yes" THEN Gone ELSE actual, now, run.changed)

Finish == (At("answer") /\ Answer(run.changed)) \/ (At("failed") /\ Stops("failed"))

(* A call fails.  Checks make fewer calls; a created container whose       *)
(* networks fail is rolled back.                                           *)
CallError ==
    \/ /\ CallFails(Places \ {"created", "rollback", "answer", "failed"})
       /\ Checking => run.at \in {"inspect", "image", "decide"}
       /\ ~(At("networks") /\ now.fresh)
    \/ run.at \in {"created", "networks"} /\ now.fresh /\ Goto("rollback")

-----------------------------------------------------------------------------
(* The engine and the container go on by themselves.                       *)
Removed == actual.there = "removing" /\ IF At("gone") THEN Awaited(Gone) ELSE Interferes(Gone)
HealthChanges ==
    /\ actual.c.running /\ t.state = "healthy" /\ (Undisturbed \/ At("health"))
    /\ \E health \in {"healthy", "unhealthy"} :
          LET h == WithContainer([actual.c EXCEPT !.health = health]) IN
          IF At("health") THEN Awaited(h) ELSE Interferes(h)
Exits ==
    /\ actual.c.running /\ (Undisturbed \/ At("exit"))
    /\ LET h == WithContainer([actual.c EXCEPT !.running = FALSE, !.paused = FALSE, !.health = "none"]) IN
       IF At("exit") THEN Awaited(h) ELSE Interferes(h)

(* Others remove the container, take it off a network the task looks at,   *)
(* remove the image or publish a newer one where the task pulls it.        *)
Outside ==
    \/ Interferes(Gone)
    \/ /\ actual.there = "yes"
       /\ Interferes([actual EXCEPT !.there = "removing", !.c.running = FALSE,
                                    !.c.paused = FALSE, !.c.health = "none"])
    \/ /\ t.network_given
       /\ \E n \in actual.c.nets : Interferes(WithContainer([actual.c EXCEPT !.nets = @ \ {n}]))
    \/ Interferes([actual EXCEPT !.local = 0])
    \/ /\ t.pull # "never" /\ actual.registry + 1 \in Versions
       /\ Interferes([actual EXCEPT !.registry = @ + 1])

Steps ==
    \/ Inspect \/ EnsureImage \/ MissingImage \/ PullImage \/ LostImage \/ DecideCreate
    \/ NothingToCreateFrom \/ DecideRecreate \/ DecideKeep \/ StopOld \/ RemoveOld \/ StillRunning
    \/ WaitForRemoval \/ CreateContainer \/ CannotCreate \/ NetworksOfCreated \/ RollBack
    \/ UpdateContainer \/ LeaveNetwork \/ JoinNetwork \/ NetworksDone \/ StartOrStop
    \/ Pause \/ ContainerLost \/ Healthy \/ Exited \/ Finish

Init == InitRuns(Hosts, Tasks)
Next ==
    \/ Start \/ Steps \/ CallError \/ Killed \/ Removed \/ HealthChanges \/ Exits
    \/ (Undisturbed /\ Outside)
Spec == Init /\ [][Next]_vars

-----------------------------------------------------------------------------
(* The state a task asks for, as far as it lets the module establish it;   *)
(* a check run waits for no container to be healthy or to end.             *)
Satisfied(task, h) ==
    IF task.state = "absent" THEN h.there # "yes"
    ELSE IF ~task.detach /\ Live(task) THEN task.cleanup /\ ~Checking => ~h.c.running
    ELSE /\ h.there = "yes"
         /\ ~MustRecreate([task EXCEPT !.recreate = IF @ = "never" THEN @ ELSE "auto"], h.c, h.local)
         /\ ~MustUpdate(task, h.c, h.local)
         /\ Connect(task, h.c) = {} /\ Disconnect(task, h.c) = {}
         /\ Live(task) => h.c.running /\ ~NeedsPause(task, h.c)
         /\ task.state = "stopped" => ~h.c.running
         /\ task.state = "healthy" /\ ~Checking => h.c.health \in {"none", "healthy"}

(* A check run announces what the real run does, unless the real run pulls *)
(* an image the check run could not see.                                   *)
Predicts == t.pull # "always" /\ t.detach => Foretold

(* Applying a task again changes nothing, unless it asks for a restart or  *)
(* to be recreated.  A task that pauses a container without starting it is *)
(* left out: it reports a change every time and makes none; so is one that *)
(* finds the container still being removed by somebody else.  A check run  *)
(* can be told to announce every pull.                                     *)
Settles(task) ==
    /\ task.recreate # "always" /\ ~task.restart /\ task.detach
    /\ task.paused # "any" => Live(task)
Announced == Checking /\ t.pull = "always" /\ t.pull_in_check
Idempotent == Settles(t) /\ actual.there # "removing" /\ ~Announced => Unchanging

(* What a failed run leaves behind is no obstacle: the next run goes       *)
(* through, if it names an image that is to be had.                        *)
Recovers == t.image /\ t.pull # "never" => Recovering

(* A container that is created by a run is on the networks of its task     *)
(* before it is started, or it is removed again: no process ever runs in a *)
(* container the run created with only some of them.                       *)
StartedOnItsNetworks ==
    ~Idle /\ now.fresh /\ ~run.disturbed /\ t.network_given /\ run.touched
    /\ actual'.c.running /\ ~actual.c.running => t.networks \subseteq actual.c.nets
=============================================================================

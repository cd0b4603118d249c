--------------------------- MODULE DockerNetwork ---------------------------
(***************************************************************************)
(* The docker_network module: a network is created, replaced when it is    *)
(* configured differently, and the containers attached to it reconciled.   *)
(* Docker changes no existing network, so replacing means detaching every  *)
(* container, removing, creating and attaching again, call by call.        *)
(***************************************************************************)
EXTENDS ModuleRuns, FiniteSets

CONSTANTS
    Containers,   \* the names of containers
    Options,      \* the options compared for equality (driver, internal, ...)
    Values,       \* what they can be
    Default,      \* what the engine chooses for an option that is not given
    Labels,       \* labels and driver options: compared as a subset
    Pools,        \* address pools: the given fields of a pool, as a set
    Tasks

(* A task gives some of the options.  No connected list means: keep those  *)
(* that are attached.                                                      *)
Requests ==
    [state : {"present", "absent"}, options : UNION {[D -> Values] : D \in SUBSET Options},
     labels : SUBSET Labels, pools : SUBSET Pools, force : BOOLEAN,
     appends : BOOLEAN, connected : SUBSET Containers]

TaskAssumption == Tasks \subseteq Requests /\ Default \in Values

(* The network, and which containers exist.  A network of scope swarm is   *)
(* still found while the managers forget it ("removing").                  *)
Configs == [options : [Options -> Values], labels : SUBSET Labels, pools : SUBSET Pools]
NoConfig == [options |-> [o \in Options |-> Default], labels |-> {}, pools |-> {}]
Networks ==
    {n \in [there : {"no", "yes", "removing"}, config : Configs, scope : {"local", "swarm"},
            attached : SUBSET Containers, containers : SUBSET Containers] :
        /\ n.attached \subseteq n.containers
        /\ n.there # "yes" => n.attached = {}
        /\ n.there = "no" => n.config = NoConfig
        /\ n.there = "removing" => n.scope = "swarm"}

Found(n) == n.there # "no"
Nothing == [exists |-> FALSE, before |-> {}, want |-> {}, attached |-> {}, todo |-> {}]

ReadStates ==
    [exists : BOOLEAN, before : SUBSET Containers, want : SUBSET Containers,
     attached : SUBSET Containers, todo : SUBSET Containers]
Places == {"inspect", "detach", "detaching", "remove", "gone", "create",
           "reread", "connect", "attached", "disconnect", "answer"}

TypeOK ==
    /\ actual \in Networks /\ memo \in Memos
    /\ run \in RunStates(Tasks, Places, ReadStates)

t == run.task
now == run.read

-----------------------------------------------------------------------------
(* What the network is compared for.                                       *)

(* A requested pool is covered when one existing pool has all its fields.  *)
PoolsDiffer(wanted, pools) ==
    \E p \in wanted : p # {} /\ ~\E q \in pools : p \subseteq q

LabelsDiffer(wanted, labels) == ~(wanted \subseteq labels)

HasDifferentConfig(task, config) ==
    \/ \E o \in DOMAIN task.options : task.options[o] # config.options[o]
    \/ LabelsDiffer(task.labels, config.labels)
    \/ PoolsDiffer(task.pools, config.pools)

CreateOptions(task) ==
    [options |-> [o \in Options |->
                    IF o \in DOMAIN task.options THEN task.options[o] ELSE Default],
     labels |-> task.labels, pools |-> task.pools]

-----------------------------------------------------------------------------
Start ==
    \E task \in Tasks, mode \in {"check", "apply"} : Begin(task, mode, "inspect", Nothing)

(* No connected list: those that are attached now.                         *)
ListedContainers(task) == task.connected   \* mutant
WantedContainers(task) ==
    IF task.connected = {} /\ Found(actual) THEN actual.attached ELSE task.connected

(* The first inspection decides: what to connect, and whether to replace.  *)
Inspect ==
    /\ At("inspect")
    /\ LET found == Found(actual)
           replace == t.state = "absent" \/ t.force \/ HasDifferentConfig(t, actual.config)
       IN Reads(IF found /\ replace THEN "detach"
                ELSE IF t.state = "absent" THEN "answer"
                ELSE IF found THEN "connect" ELSE "create",
                [exists |-> found, before |-> actual.attached, want |-> WantedContainers(t),
                 attached |-> actual.attached, todo |-> {}])

(* removeNetwork in check mode: everything is only announced.              *)
RemoveInCheckMode ==
    /\ At("detach") /\ Checking
    /\ Step(IF t.state = "absent" THEN "answer" ELSE "create", actual,
            [now EXCEPT !.exists = FALSE, !.attached = {}], TRUE)

(* disconnectAllContainers looks at the network again.                     *)
ListAttached ==
    /\ At("detach") /\ ~Checking
    /\ Reads("detaching", [now EXCEPT !.todo = actual.attached])

(* A container or a network that is gone meanwhile counts as disconnected. *)
Disconnect(c, place) ==
    /\ c \in now.todo
    /\ Step(place, [actual EXCEPT !.attached = @ \ {c}],
            [now EXCEPT !.todo = @ \ {c}], TRUE)
DisconnectAll == At("detaching") /\ \E c \in now.todo : Disconnect(c, "detaching")
AllDisconnected == At("detaching") /\ now.todo = {} /\ Goto("remove")

(* The engine removes no network that has containers attached.             *)
RemoveNetwork ==
    /\ At("remove") /\ actual.attached = {}
    /\ Step("gone",
            IF actual.there # "yes" THEN actual
            ELSE IF actual.scope = "swarm" THEN [actual EXCEPT !.there = "removing"]
            ELSE [actual EXCEPT !.there = "no", !.config = NoConfig],
            now, TRUE)
NetworkInUse == At("remove") /\ actual.attached # {} /\ Refuse

(* A swarm network is inspected every 100 ms until it is no longer found.  *)
NetworkGone ==
    /\ At("gone") /\ (actual.scope = "swarm" => ~Found(actual))
    /\ Reads(IF t.state = "absent" THEN "answer" ELSE "create",
             [now EXCEPT !.exists = FALSE, !.attached = {}])

(* createNetwork; the engine refuses a second network of the name.         *)
CreateNetwork ==
    /\ At("create")
    /\ IF Checking THEN Reports("connect")
       ELSE /\ ~Found(actual)
            /\ Changes("reread", [actual EXCEPT !.there = "yes", !.config = CreateOptions(t)])
NameTaken == At("create") /\ ~Checking /\ Found(actual) /\ Refuse

(* After creating and after each connection the network is read again; one *)
(* that is gone by then leaves the manager with what it knew.              *)
Reread(place, next) ==
    /\ At(place)
    /\ Reads(next, IF Found(actual)
                     THEN [now EXCEPT !.exists = TRUE, !.attached = actual.attached]
                     ELSE now)
InspectCreated == Reread("reread", "connect")
InspectConnected == Reread("attached", "connect")

(* connectContainers: one that is not attached yet, if there is such a     *)
(* container; others are passed over in silence.                           *)
Lacking == now.want \ (IF now.exists THEN now.attached ELSE {})
NextLacking == CHOOSE c \in Lacking : TRUE
SkipContainer ==
    /\ At("connect") /\ Lacking # {} /\ NextLacking \notin actual.containers
    /\ Reads("connect", [now EXCEPT !.want = @ \ {NextLacking}])
ConnectContainer ==
    /\ At("connect") /\ Lacking # {} /\ NextLacking \in actual.containers
    /\ IF Checking
         THEN Step("connect", actual, [now EXCEPT !.want = @ \ {NextLacking}], TRUE)
         ELSE /\ actual.there = "yes"
              /\ Changes("attached", [actual EXCEPT !.attached = @ \union {NextLacking}])
NothingToConnectTo ==
    /\ At("connect") /\ ~Checking /\ actual.there # "yes"
    /\ Lacking \intersect actual.containers # {} /\ Refuse

(* disconnectMissing works on the last inspection; unlike removeNetwork it *)
(* does not look again.                                                    *)
AllConnected ==
    /\ At("connect") /\ Lacking = {}
    /\ Reads("disconnect",
             [now EXCEPT !.todo = IF t.appends \/ ~now.exists THEN {}
                                  ELSE now.attached \ now.want])
DisconnectMissing ==
    /\ At("disconnect")
    /\ \E c \in now.todo :
          IF Checking THEN Step("disconnect", actual, [now EXCEPT !.todo = @ \ {c}], TRUE)
          ELSE Disconnect(c, "disconnect")
NoneLeft == At("disconnect") /\ now.todo = {} /\ Goto("answer")

(* inspectResult and finish.                                               *)
Finish == At("answer") /\ Answer(run.changed)

CallError == CallFails(Places) /\ (Checking => run.at \in {"inspect", "connect"})

-----------------------------------------------------------------------------
(* Others: containers come, go, are attached and detached, and networks    *)
(* are created and removed.                                                *)
Outside ==
    \/ \E c \in Containers : \/ Interferes([actual EXCEPT !.containers = @ \union {c}])
                             \/ Interferes([actual EXCEPT !.containers = @ \ {c},
                                                        !.attached = @ \ {c}])
                             \/ Interferes([actual EXCEPT !.attached = @ \ {c}])
                             \/ /\ c \in actual.containers /\ actual.there = "yes"
                                /\ Interferes([actual EXCEPT !.attached = @ \union {c}])
    \/ /\ actual.attached = {}
       /\ Interferes([actual EXCEPT !.there = "no", !.config = NoConfig])
    \/ ~Found(actual) /\ Interferes([actual EXCEPT !.there = "yes"])

(* The managers have forgotten a removed network.                          *)
Vanish ==
    /\ actual.there = "removing"
    /\ LET n == [actual EXCEPT !.there = "no", !.config = NoConfig] IN
       IF At("gone") THEN Awaited(n) ELSE Interferes(n)

Steps ==
    \/ Inspect \/ RemoveInCheckMode \/ ListAttached \/ DisconnectAll \/ AllDisconnected
    \/ RemoveNetwork \/ NetworkInUse \/ NetworkGone \/ CreateNetwork \/ NameTaken
    \/ InspectCreated \/ InspectConnected \/ SkipContainer \/ ConnectContainer
    \/ NothingToConnectTo \/ AllConnected \/ DisconnectMissing \/ NoneLeft \/ Finish

Init == InitRuns(Networks, Tasks)
Next == Start \/ Steps \/ CallError \/ Killed \/ Vanish \/ (Undisturbed /\ Outside)
Spec == Init /\ [][Next]_vars

-----------------------------------------------------------------------------
(* The state a task asks for: docker_network/executor.go, present/absent.  *)
Satisfied(task, n) ==
    IF task.state = "absent" THEN ~Found(n)
    ELSE /\ Found(n) /\ ~HasDifferentConfig(task, n.config)
         /\ task.connected \intersect n.containers \subseteq n.attached
         /\ (task.connected # {} /\ ~task.appends) => n.attached \subseteq task.connected

(* A check run of docker_network announces what a real run then does, in   *)
(* spite of the replacement it only pretends (executor.go:168).            *)
Predicts == Foretold

(* Applying a task twice changes nothing the second time, unless it is     *)
(* forced to recreate the network.                                         *)
Idempotent ==
    ~(run.task.force /\ run.task.state = "present") => Unchanging

(* Whatever state earlier runs left behind when a call failed, the next    *)
(* run is not refused by the engine, once the managers have forgotten a    *)
(* swarm network that an abandoned run removed (executor.go:236).          *)
Recovers == actual.there # "removing" => Recovering

(* A task without a connected list keeps the containers that are attached, *)
(* also when the network has to be replaced (executor.go:66).              *)
NothingForgotten ==
    AnswersOK /\ ~run.disturbed /\ t.state = "present" /\ t.connected = {} =>
      now.before \subseteq actual.attached
=============================================================================

--------------------------- MODULE DockerModules ----------------------------
(***************************************************************************)
(* The modules of the agent that manage a docker engine and its swarm,     *)
(* side by side: the agent runs one of them, and all of them owe the same  *)
(* to its caller.  What they promise beside the contract of modules is     *)
(* stated here for all of them.                                            *)
(***************************************************************************)
EXTENDS ModuleRuns, Integers, Sequences

CONSTANTS
    Missing, Broken,           \* no service or file; an archive that cannot be read
    Options, Elements,         \* of containers, volumes and swarms
    Values, Default, Labels,   \* of the options of networks and swarms, and of labels
    Mutable, Links, bridge, Versions, ImageValue, Machines, ContainerTasks,
    ImageTasks,
    Attached, NetworkOptions, Pools, NetworkTasks,
    Drivers, local, VolumeTasks,
    Names, ToolTasks, ArchiveTasks,
    ClusterTasks,
    Texts, MaxVersion, DataTasks,       \* of config and secret
    NodeLabels, NodeTasks,
    Fields, Kind, Settings, Groups, Variables, Words, Targets, Published, ServicesFound, SharedFields,
    Omitted, Chosen, Empty, ServiceTasks

VARIABLE module   \* the module that the agent runs

Container == INSTANCE DockerContainer WITH
    Networks <- Links, Hosts <- Machines, Tasks <- ContainerTasks
Image == INSTANCE DockerImage WITH Tasks <- ImageTasks
Network == INSTANCE DockerNetwork WITH
    Containers <- Attached, Options <- NetworkOptions, Tasks <- NetworkTasks
Volume == INSTANCE DockerVolume WITH Tasks <- VolumeTasks
Tool == INSTANCE ImageTools WITH Tasks <- ToolTasks
Archive == INSTANCE ImageTools WITH Tasks <- ArchiveTasks
Cluster == INSTANCE SwarmCluster WITH Attempts <- 5, Tasks <- ClusterTasks
Data == INSTANCE SwarmData WITH
    Data <- Texts, Hosts <- {[n \in {} |-> Default]}, Tasks <- DataTasks
Node == INSTANCE SwarmNode WITH
    Labels <- NodeLabels, Empty <- Default, Attempts <- 3, Tasks <- NodeTasks
Service == INSTANCE SwarmService WITH
    Default <- Chosen, Found <- ServicesFound, Shared <- SharedFields, Retries <- 2,
    Tasks <- ServiceTasks

ASSUME DockerAssumption ==
    /\ Container!TaskAssumption /\ Image!TaskAssumption /\ Network!TaskAssumption /\ Volume!TaskAssumption
    /\ Tool!TaskAssumption /\ Archive!TaskAssumption /\ Cluster!TaskAssumption /\ Data!TaskAssumption
    /\ Node!TaskAssumption /\ Service!TaskAssumption

-----------------------------------------------------------------------------
Init ==
    \/ module = "container" /\ Container!Init
    \/ module = "image" /\ Image!Init
    \/ module = "network" /\ Network!Init
    \/ module = "volume" /\ Volume!Init
    \/ module = "tools" /\ Tool!Init
    \/ module = "archive" /\ Archive!Init
    \/ module = "swarm" /\ Cluster!Init
    \/ module = "config" /\ Data!Init
    \/ module = "node" /\ Node!Init
    \/ module = "service" /\ Service!Init
Next ==
    \/ UNCHANGED module /\ module = "container" /\ Container!Next
    \/ UNCHANGED module /\ module = "image" /\ Image!Next
    \/ UNCHANGED module /\ module = "network" /\ Network!Next
    \/ UNCHANGED module /\ module = "volume" /\ Volume!Next
    \/ UNCHANGED module /\ module = "tools" /\ Tool!Next
    \/ UNCHANGED module /\ module = "archive" /\ Archive!Next
    \/ UNCHANGED module /\ module = "swarm" /\ Cluster!Next
    \/ UNCHANGED module /\ module = "config" /\ Data!Next
    \/ UNCHANGED module /\ module = "node" /\ Node!Next
    \/ UNCHANGED module /\ module = "service" /\ Service!Next
all == <<module, vars>>
Spec == Init /\ [][Next]_all

(* Every module keeps to its states.                                       *)
TypeOK ==
    \/ module = "container" /\ Container!TypeOK
    \/ module = "image" /\ Image!TypeOK
    \/ module = "network" /\ Network!TypeOK
    \/ module = "volume" /\ Volume!TypeOK
    \/ module = "tools" /\ Tool!TypeOK
    \/ module = "archive" /\ Archive!TypeOK
    \/ module = "swarm" /\ Cluster!TypeOK
    \/ module = "config" /\ Data!TypeOK
    \/ module = "node" /\ Node!TypeOK
    \/ module = "service" /\ Service!TypeOK

-----------------------------------------------------------------------------
Holds ==
    CASE module = "container" -> Container!Satisfied(run.task, actual)
      [] module = "image" -> Image!Satisfied(run.task, actual)
      [] module = "network" -> Network!Satisfied(run.task, actual)
      [] module = "volume" -> Volume!Satisfied(run.task, actual)
      [] module = "tools" -> Tool!Satisfied(run.task, actual)
      [] module = "archive" -> Archive!Satisfied(run.task, actual)
      [] module = "swarm" -> Cluster!Satisfied(run.task, actual)
      [] module = "config" -> Data!Satisfied(run.task, actual)
      [] module = "node" -> Node!Satisfied(run.task, actual)
      [] module = "service" -> Service!Satisfied(run.task, actual)

(* What a docker_image task that pushes does to the host is left out of    *)
(* its answer (docker_image/executor.go:178), and so is that the container *)
(* a task has waited for was removed (docker_container/executor.go:832).   *)
Contract == INSTANCE ModuleContract WITH
    phase <- RunPhase, holds <- Holds,
    touched <- /\ run.touched /\ ~(module = "image" /\ run.task.push)
               /\ ~(module = "container" /\ run.task.cleanup /\ ~run.task.detach),
    disturbed <- run.disturbed, answer <- RunAnswer

(* Every module implements the contract of modules: a change it reports    *)
(* left what the task asks for, no change means that it was so before, and *)
(* nothing is touched in check mode.                                       *)
KeepsContract == Contract!Spec

(* A check run announces what the real run then does.  What a registry     *)
(* would send, and some waits, a check run cannot know: the modules name   *)
(* these tasks.                                                            *)
Predicts ==
    [][ /\ module = "container" => Container!Predicts
        /\ module = "image" => Image!Predicts
        /\ module = "network" => Network!Predicts
        /\ module = "volume" => Volume!Predicts
        /\ module = "tools" => Tool!Predicts
        /\ module = "archive" => Archive!Predicts
        /\ module = "swarm" => Cluster!Predicts
        /\ module = "config" => Data!Predicts
        /\ module = "node" => Node!Predicts
        /\ module = "service" => Service!Predicts ]_all

(* A task that was applied, and is applied again, finds nothing to do:     *)
(* nothing is changed and no change is reported.  The tasks for which it   *)
(* is not meant to be so are named by each module.                         *)
Idempotent ==
    [][ /\ module = "container" => Container!Idempotent
        /\ module = "image" => Image!Idempotent
        /\ module = "network" => Network!Idempotent
        /\ module = "volume" => Volume!Idempotent
        /\ module = "tools" => Tool!Idempotent
        /\ module = "archive" => Archive!Idempotent
        /\ module = "swarm" => Cluster!Idempotent
        /\ module = "config" => Data!Idempotent
        /\ module = "node" => Node!Idempotent
        /\ module = "service" => Service!Idempotent ]_all

(* What a run leaves that fails half-way, a container that is half made, a *)
(* network without its containers, a config of a new version, is no        *)
(* obstacle for the next run.                                              *)
Recovers ==
    [][ /\ module = "container" => Container!Recovers
        /\ module = "network" => Network!Recovers
        /\ module = "config" => Data!Recovers ]_all

(* Others who use the same engine or swarm between two calls of a run:     *)
(* what they change is not taken back by an update that was computed       *)
(* before, one update out of sequence is tried again, and several names    *)
(* that a run gives stand for one image.                                   *)
StandsInterference ==
    [][ /\ module = "tools" => Tool!OneImage
        /\ module = "swarm" => Cluster!NothingTakenBack /\ Cluster!RemovalNotRefused
        /\ module = "node" => Node!OutdatedOnceIsRetried
        /\ module = "service" => Service!KeepsOmitted /\ Service!OutdatedOnceIsRetried ]_all

(* A run that replaces something loses nothing with it: containers stay on *)
(* their network, data in a volume, a swarm is never without the config it *)
(* uses, and a new container is on its networks before it starts.          *)
LosesNothing ==
    [][ /\ module = "container" => Container!StartedOnItsNetworks
        /\ module = "network" => Network!NothingForgotten
        /\ module = "volume" => Volume!DataKept
        /\ module = "config" => Data!NeverWithout ]_all

=============================================================================

-------------------------- MODULE MCDockerModules ---------------------------
(* Small instances of the modules that manage a docker engine and a swarm. *)
EXTENDS DockerModules, TLC

CONSTANTS
    overlay, nfs,                   \* networks and drivers
    env, memory, x, subnet, label,  \* options, their elements, labels
    na, nb                          \* containers, names of images, data

-----------------------------------------------------------------------------
(* Two versions of an image, one option of each kind, two networks, and a  *)
(* task for each branch.                                                   *)
MCImageValue == 1 :> (env :> {x} @@ memory :> {}) @@ 2 :> (env :> {} @@ memory :> {})
PlainContainer ==
    [state |-> "started", options |-> [o \in {} |-> {}],
     comparisons |-> env :> "strict" @@ memory :> "strict" @@ "networks" :> "allow_more_present"
                    @@ "image" :> "strict",
     image |-> TRUE,
     networks |-> {}, network_given |-> FALSE, cli_compatible |-> TRUE, pull |-> "missing",
     pull_in_check |-> FALSE, image_comparison |-> "desired-image", recreate |-> "auto",
     restart |-> FALSE, paused |-> "any", detach |-> TRUE, cleanup |-> FALSE, force_kill |-> FALSE]
MCContainerTasks ==
    { [PlainContainer EXCEPT !.options = env :> {} @@ memory :> {x}, !.paused = "no"],
      [PlainContainer EXCEPT !.state = "healthy", !.networks = {overlay}, !.network_given = TRUE,
                    !.cli_compatible = FALSE, !.comparisons["networks"] = "strict",
                    !.pull = "always"],
      [PlainContainer EXCEPT !.state = "stopped", !.options = env :> {x}, !.pull = "never",
                    !.comparisons[env] = "allow_more_present", !.image_comparison = "current-image"],
      [PlainContainer EXCEPT !.image = FALSE, !.state = "present", !.options = env :> {},
                    !.paused = "yes", !.comparisons["image"] = "ignore"],
      [PlainContainer EXCEPT !.detach = FALSE, !.cleanup = TRUE, !.restart = TRUE,
                    !.recreate = "never"],
      [PlainContainer EXCEPT !.state = "absent", !.force_kill = TRUE] }
OldContainer ==
    [options |-> env :> {} @@ memory :> {}, image |-> 1, nets |-> {bridge},
     running |-> TRUE, paused |-> TRUE, health |-> "none"]
NoContainer == [OldContainer EXCEPT !.image = 0, !.nets = {}, !.running = FALSE, !.paused = FALSE]
MCMachines ==
    { [there |-> "no", c |-> NoContainer, local |-> 0, registry |-> 1],
      [there |-> "yes", c |-> OldContainer, local |-> 2, registry |-> 2] }

(* Pull, archive, tag, push, remove.                                       *)
PlainImage == [state |-> "present", source |-> "pull", force |-> FALSE, never |-> FALSE,
          archive |-> FALSE, repository |-> FALSE, forceTag |-> FALSE, push |-> FALSE]
MCImageTasks ==
    { [PlainImage EXCEPT !.archive = TRUE],
      [PlainImage EXCEPT !.source = "local", !.repository = TRUE],
      [PlainImage EXCEPT !.never = TRUE, !.repository = TRUE, !.forceTag = TRUE, !.push = TRUE],
      [PlainImage EXCEPT !.source = "build", !.force = TRUE, !.push = TRUE],
      [PlainImage EXCEPT !.state = "absent"] }

(* Two containers, one compared option, one label, pools of one field.     *)
PlainNetwork == [state |-> "present", options |-> [o \in {} |-> 0], labels |-> {}, pools |-> {},
          force |-> FALSE, appends |-> FALSE, connected |-> {}]
MCNetworkTasks ==
    { [PlainNetwork EXCEPT !.options = env :> 1, !.pools = {{subnet}}],
      [PlainNetwork EXCEPT !.connected = {na}, !.labels = {label}, !.appends = TRUE],
      [PlainNetwork EXCEPT !.connected = {na}],
      [PlainNetwork EXCEPT !.force = TRUE],
      [PlainNetwork EXCEPT !.state = "absent"] }

(* Two drivers, two options and a label.                                   *)
PlainVolume == [state |-> "present", driver |-> local, options |-> {}, labels |-> {},
          recreate |-> "never"]
MCVolumeTasks ==
    { PlainVolume, [PlainVolume EXCEPT !.state = "absent"],
      [PlainVolume EXCEPT !.options = {memory}, !.labels = {label}, !.recreate = "options-changed"],
      [PlainVolume EXCEPT !.recreate = "always"] }

(* Two names, two images, and a task for each branch of each module.       *)
PlainTool ==
    [op |-> "pull", name |-> na, targets |-> <<>>, id |-> 0, lazy |-> FALSE, force |-> FALSE,
     diff |-> FALSE]
MCToolTasks ==
    { PlainTool, [PlainTool EXCEPT !.lazy = TRUE], [PlainTool EXCEPT !.op = "push"],
      [PlainTool EXCEPT !.op = "tag", !.targets = <<nb>>],
      [PlainTool EXCEPT !.op = "tag", !.targets = <<nb, na>>, !.lazy = TRUE],
      [PlainTool EXCEPT !.op = "remove"],
      [PlainTool EXCEPT !.op = "remove", !.id = 1, !.diff = TRUE] }
MCArchiveTasks ==
    { [PlainTool EXCEPT !.op = "export", !.targets = <<nb>>],
      [PlainTool EXCEPT !.op = "export", !.targets = <<na>>],
      [PlainTool EXCEPT !.op = "export", !.force = TRUE], [PlainTool EXCEPT !.op = "load"] }

-----------------------------------------------------------------------------
(* Two options of a swarm and a task for each branch.                      *)
PlainCluster == [state |-> "present", options |-> memory :> 1, rotate |-> FALSE, force |-> FALSE]
NoOption == [o \in {} |-> 0]
MCClusterTasks ==
    { PlainCluster, [PlainCluster EXCEPT !.options = env :> 1, !.rotate = TRUE],
      [PlainCluster EXCEPT !.force = TRUE],
      [PlainCluster EXCEPT !.state = "join", !.options = NoOption],
      [PlainCluster EXCEPT !.state = "absent", !.options = NoOption, !.force = TRUE],
      [PlainCluster EXCEPT !.state = "absent", !.options = NoOption],
      [PlainCluster EXCEPT !.state = "remove", !.options = NoOption] }

(* Two kinds of data, a label, two rolling versions and somebody else's.   *)
PlainData == [state |-> "present", rolling |-> FALSE, data |-> nb, template |-> FALSE,
         labels |-> {}, force |-> FALSE, keep |-> 5]
MCDataTasks ==
    { [PlainData EXCEPT !.labels = {label}], [PlainData EXCEPT !.state = "absent"],
      [PlainData EXCEPT !.rolling = TRUE, !.keep = 0, !.labels = {label}],
      [PlainData EXCEPT !.rolling = TRUE, !.data = na, !.template = TRUE, !.keep = 1],
      [PlainData EXCEPT !.rolling = TRUE, !.force = TRUE, !.keep = -1] }

(* Two labels, and tasks that merge, remove, replace, and change the role. *)
PlainNode == [role |-> "", availability |-> "", labels |-> NoOption, drop |-> {}, replace |-> FALSE]
MCNodeTasks ==
    { [PlainNode EXCEPT !.labels = na :> 1],
      [PlainNode EXCEPT !.labels = na :> 0, !.drop = {na, nb}],
      [PlainNode EXCEPT !.labels = nb :> 1, !.replace = TRUE],
      [PlainNode EXCEPT !.role = "worker", !.availability = "drain"] }

(* An option of each kind, two that are written together, one variable and *)
(* two ports; a service of others that is a global job.                    *)
MCFields ==
    {"user", "limit", "constraints", "condition", "attempts", "labels", "mounts", "rollback"}
MCKind ==
    "user" :> "user" @@ "limit" :> "limit" @@ "constraints" :> "set" @@ "labels" :> "map"
      @@ "mounts" :> "items" @@ "rollback" :> "dict" @@ [f \in MCFields |-> "plain"]
MCSettings ==
    "constraints" :> {<<na, nb>>, <<nb, na>>} @@ "labels" :> {1 :> Empty}
      @@ "mounts" :> {1 :> Omitted} @@ "rollback" :> {2 :> x}
      @@ [f \in MCFields |-> {<<x>>}]
NoField == [f \in MCFields |-> Omitted]
PlainService == [state |-> "present", image |-> 1, resolve |-> FALSE, mode |-> "replicated",
          replicas |-> -1, fields |-> NoField, health |-> "keep", env |-> Omitted, file |-> FALSE,
          ports |-> Omitted, secret |-> FALSE, force |-> FALSE, valid |-> TRUE]
MCServiceTasks ==
    { [PlainService EXCEPT !.resolve = TRUE, !.replicas = 2, !.file = TRUE,
                           !.ports = 1 :> 3 @@ 2 :> Omitted,
                           !.fields = "constraints" :> <<na, nb>> @@ "mounts" :> (1 :> Omitted)
                                        @@ NoField],
      [PlainService EXCEPT !.mode = "replicated-job", !.health = "test", !.secret = TRUE,
                           !.fields = "limit" :> <<>> @@ "user" :> <<x>> @@ "condition" :> <<x>>
                                        @@ "rollback" :> (2 :> x) @@ NoField],
      [PlainService EXCEPT !.image = 0, !.mode = "global", !.health = "none"],
      [PlainService EXCEPT !.force = TRUE, !.health = "clear", !.image = 2, !.env = 1 :> 1,
                           !.fields = "labels" :> (1 :> Empty) @@ "constraints" :> <<nb, na>>
                                        @@ "user" :> <<>> @@ NoField],
      [PlainService EXCEPT !.state = "absent"], [PlainService EXCEPT !.valid = FALSE] }
ForeignService ==
    [image |-> 1, digest |-> 1, mode |-> "global-job", replicas |-> -1, health |-> "unset",
     env |-> NoOption, ports |-> NoOption, secret |-> 0, fields |-> [f \in MCFields |-> <<>>]]

MCOptions == {env, memory}
MCElements == {x}
MCValues == {0, 1}
MCLabels == {label}
MCMutable == {memory}
MCLinks == {bridge, overlay}
MCVersions == 0 .. 2
MCNames == {na, nb}
MCNetworkOptions == {env}
MCPools == {{subnet}}
MCDrivers == {local, nfs}
MCGroups == {{"condition", "attempts"}}
MCVariables == {1}
MCWords == {1}
MCTargets == {1, 2}
MCPublished == {0, 3}
MCFound == {ForeignService}
MCShared == {"labels"}
=============================================================================

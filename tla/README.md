# A TLA+ model of dibra

dibra applies playbooks to machines: a controller reads a YAML playbook and
executes its tasks on hosts over SSH by running an agent there, and
`dibra-deploy` is a daemon that polls a task server for ZIP projects and applies
them to its own machine without SSH. This directory holds TLA+ models of that
program, the TLC configurations that check them, and theorems about them that
TLAPS checks. Sources are named relative to the repository.

## Inventory

| Component | Sources | State it keeps | Operations | Hard behaviour | What makes it correct |
|---|---|---|---|---|---|
| Playbook runner | `internal/controller/runner.go`, `handlers.go`, `primitives.go`, `local_client.go` | task queue and index, pending handlers, host flags, `RunResult`, facts and registered results of each host | `Run`, `flushHandlers`, `executeTaskOnce`, `includeTasksForLoop`, notifications | the queue grows while it is walked; handlers notify handlers; about two dozen early exits that differ between local and remote mode | no notification lost, no failure swallowed, nothing runs behind a local failure or a reboot, the run ends |
| Remote steps of the runner | `executeReboot`, `executeFetch`, `executeScript`, `executeUnarchive` in `runner.go` | boot identifier, connections, files on both sides | wait for a reboot, fetch, upload and run | deadline against boot, closed connection, checksum read before download, uploads that are cut short | success means a new boot; what was hashed is what is used |
| Deployment daemon | `internal/deploy/daemon.go`, `internal/dibra-deploy-cli`, `cmd/dibra-deploy` | task in progress, job directories, agent path | `New`, `Run`, `PollOnce`, `processTask`, `executeProject`, `reportTaskOutcome` | signals, crashes and reboots at any step, lost and late reports | outcomes are true, tasks get one, the daemon comes back |
| Task server (reference) | `test/deploy_integration/taskserver` | terminal outcome of each task | `getTasks`, `recordOutcome` | late and repeated outcomes | the first outcome of a task stands |
| Service manager | `packaging/systemd/dibra-deploy.service` | unit state | restart on failure, start at boot | a clean exit is not restarted | the daemon is not left stopped by accident |
| Project archive | `internal/deploy/archive.go`, `project.go` | extracted tree, manifest | extraction with limits, manifest lookup, reboot placement | dynamic includes are invisible to the preflight check | limits hold, misplaced reboots are refused |
| Agent provisioning | `internal/agent` | cache of archives and binaries, installed agent | resolve, download, extract, install, check version | fixed temporary names shared by processes, stale cache | the agent that runs has the expected version |
| SSH transport | `internal/ssh` | connections | run, upload, download, reconnect | closed connection used again | I/O |
| Agent and protocol | `cmd/agent`, `internal/execution` | none between requests | one request, one result | check mode and diff | a check-mode run changes nothing |
| Configuration | `internal/config` | playbook, plays, tasks | parse, expand `import_tasks` | depth bound, circular imports | expansion ends, order is kept |
| Inventory | `internal/inventory` | hosts, groups, variables | parse, merge, patterns | order of maps, inheritance | precedence of groups |
| Variables and templates | `internal/vars`, `internal/template`, `internal/secrets` | layers of variables | merge, render | precedence, recursive values | the documented precedence |
| File modules | `lineinfile`, `blockinfile`, `replace`, `template`, `copy`, `file`, `unarchive` in `internal/modules` | the file and its fixed temporary name | compare, validate, back up, write, rename, set attributes | kills between two writes, others who use the file, attributes lost by the rename | no half-written file, a second run changes nothing |
| System modules | `command`, `shell`, `script`, `user`, `group`, `service`, `systemd_service`, `git`, `cron`, `apt` | accounts, units, checkouts, crontabs, packages | ask a program, compare, call another | half-done sequences of programs, answers that are stale, work of others | what is reported is so, others' work is kept |
| Docker modules | `docker_container`, `docker_image*`, `docker_network`, `docker_volume` | containers, images, networks, volumes of an engine | reconcile by stopping, removing, creating, attaching call by call | partial failure, check mode that predicts, engine used by others | nothing lost, next run recovers |
| Swarm modules | `docker_swarm`, `docker_node`, `docker_swarm_service`, `docker_config`, `docker_secret` | objects of a swarm with versions | compute an update from an inspection and send it with its version | other managers between the two, retries, rolling versions | nobody's change is taken back, never without the config |
| Other modules (about 42) | the rest of `internal/modules` | | read, or wrap one program or library call | | see *Not modelled* |
| Tooling | `internal/builder`, `internal/parity`, `internal/version`, `cmd/controller` | none | build, compare documentation, parse flags | none | outside of a run |

Interactions: `cmd/controller` calls `Run` once with a background context.
`dibra-deploy` calls `Run` once per playbook of a project, with `Local`,
`AllowReboot` for the last one, and a context that SIGTERM cancels. `Run` reaches
agents through a client (SSH, or a child process in local mode). The daemon and the task
server exchange one GET and one POST per task, and share nothing else. The reboot
task ends the daemon by way of the machine.

## Modules

| Module | What it models |
|---|---|
| `PlayRun` | `controller.Run` for one playbook, with `flushHandlers`, loops and includes |
| `RunContract` | what the daemon may rely on when it calls `Run` locally (abstract) |
| `DeployDaemon` | `dibra-deploy` with server, network, systemd and machine; its calls of `Run` are `RunContract` |
| `TaskDelivery` | at-least-once execution and at-most-once recording of tasks (abstract) |
| `DeployDaemonProofs` | theorems about `DeployDaemon` |
| `PlayRunProofs` | theorems about `PlayRun` |
| `HostReboot` | `executeReboot`: the controller's wait for a host that reboots; and theorems about it |
| `AgentStore` | `internal/agent` and the upload in `RunHosts`: cache, archive, extraction, installation, by processes that share them |
| `AgentStoreProofs` | theorems about `AgentStore` |
| `ModuleContract` | what a playbook may rely on when a task runs a module (abstract) |
| `ModuleRuns` | one request of the agent: steps, failing calls, kills, others; what the properties of modules are made of |
| `FileRuns` | what modules that edit one file have in common: validation, backup, temporary file, rename, attributes |
| `LineInFile`, `BlockInFile`, `ReplaceInFile`, `TemplateFile` | the modules of those names, on `FileRuns` |
| `CopyFiles`, `FetchFile`, `ManageFile`, `Unarchive` | copy (also of directories), the fetch task, file, unarchive with its upload |
| `CommandRun` | command, shell, and script with its upload |
| `UserAccounts`, `ServiceUnits`, `GitCheckout`, `CronTable`, `AptPackages` | user and group, service and systemd_service, git, cron, apt |
| `DockerContainer`, `DockerImage`, `DockerNetwork`, `DockerVolume` | the modules of those names |
| `ImageTools` | docker_image_pull, _push, _tag, _remove, _export, _load |
| `SwarmCluster`, `SwarmNode`, `SwarmService`, `SwarmData` | docker_swarm, docker_node, docker_swarm_service, docker_config with docker_secret |
| `FileModules` | lineinfile, blockinfile, replace, template, copy and the commands side by side, and what they promise together |
| `HostModules` | fetch, file, unarchive, user, service, git, cron and apt side by side, and what they promise together |
| `DockerModules` | the docker and swarm modules side by side, and what they promise together |
| `FileModulesProofs`, `HostModulesProofs` | theorems about `FileModules` and `HostModules` |
| `DockerEngineProofs`, `DockerModulesProofs` | lemmas about runs and the modules of the engine; those of the swarm, and the theorems about `DockerModules` |
| `MCPlayRun`, `MCDeployDaemon`, `MCAgentStore`, `MCFileModules`, `MCHostModules`, `MCDockerModules` | instances for TLC |

The composition is by contract: `PlayRun` implements `RunContract` (`KeepsContract`,
run `plays`), `DeployDaemon` is built on `RunContract`, and `DeployDaemon`
implements `TaskDelivery` (`DeliversTasks`, run `safety`, and theorem `Delivers`).
One level down, a task of `PlayRun` has one of the outcomes `ok`, `changed` and `failed`, and each of
the 23 models of tasks and modules in `FileModules`, `HostModules` and `DockerModules` implements `ModuleContract`, which says
what these outcomes mean. In each of the three a variable `module` says which module the agent runs, the
next-state relation is that of the module, and the refinement mapping gives the contract whether the
state the task asks for (`Satisfied`) holds, what the run touched, and its answer. Where the code hides what it touched the mapping says so: a
`docker_image` task that pushes (`Contract` in `DockerModules`), a container that is removed after the task has waited
for it (`docker_container/executor.go:832`) and old versions of a config that are pruned (`PruneOldVersion`; a run that only prunes answers
"unchanged", `docker_config/executor.go:276`) count as not touched. And where the code takes the failure of a git query for an answer
(`Misled` in `GitCheckout`), the run counts as disturbed: it promises nothing.

### PlayRun

`pc` is the place in `Run`: loading, the host loop, the task loop (`"task"`,
`"loop"`), `flushHandlers` (`"flush"`, `"handler"`, `"handlerLoop"`), the end of a
host. `queue`/`idx` are `taskQueue`/`taskIdx`, `hqueue`/`hidx` the queue of the
handler being run, `pending` is `pendingHandlers`, `flush` the local variables of
`flushHandlers`, `loop` those of a loop. A handler is known by its position, as in
`handlerIndex`. Every place where `Run` sets `Failed`, breaks or continues is a
disjunct of its own: `FailTask` ends the task list in local mode and goes on in
remote mode, `StopHost` ends it in both.

What a module does on a host is the outcome the runner branches on: `ok`, `changed`,
`skipped`, `failed`, or no result at all. `when`, `changed_when`, `failed_when`, check
mode and the contents of variables only choose among those outcomes, so any outcome
is possible at any task. Not everything is free: primitives always have a result,
without a usable connection no module succeeds, a local reboot is refused unless it
is the last task of the last playbook, and an include that does not load fails in local
mode and vanishes in remote mode. `conn` is Run's own client; the remote reboot closes it
(`runner.go:3461`) and does not replace it, so that later modules of the host fail.
`owed`, `faulty` and `issued` are history: they record what should be served, whether
anything went wrong, and reboot commands.

`Cancel` is SIGTERM; only `dibra-deploy` passes a context that can be cancelled, so
it happens in local plays only. It is looked at by `Load` and at the top of the task
loop and nowhere else, in particular not in a flush; but it also kills the agent
processes of a local run, so that modules fail afterwards.

### DeployDaemon

`dpc` is the place in `Daemon.Run`: New, polling, a task received, executing,
reporting, awaiting the answer, after `PollOnce`; or the process exited, crashed, or
the machine is off. `status, may, failed, initiated, issued` are one call of
`controller.Run`. `posts` are outcomes in the network: they can be lost, and a request
the daemon gave up on can still arrive, also after the task was executed again.
`recorded` is the server's map. `Crash` keeps files and sent requests and
forgets the rest. `Restart` is `Restart=on-failure`, `Boot` is `WantedBy=multi-user.target`,
`StartUnit` an operator who starts a unit again that a signal stopped. After a reboot
was issued the machine may go down at any later step, with or without a signal to
the process first.

`issuedHere`, `streak`, `finished`, `attempted` and `issuedFor` are history.

### HostReboot

`pc` is the place in `executeReboot`: reading the boot identifier, looking for the command, issuing
it, and then the loop of sleeping, reconnecting, polling and testing. `conn` is the connection in
use, named by the boot in which it was made, so that one that outlives its boot is dead (`Alive`);
`prev` is what the boot time command printed, `left` how many attempts the deadline still allows.
The host goes down and comes back when it likes, with or without the agent in its `/tmp`, also without having
been asked. In local mode nothing is waited for.

### AgentStore

Names and files are apart: `dir` says which file has which name in the cache, `data` what was written
to each file since it was truncated, because two processes can have the same `.tmp` file open and one can
rename what the other has truncated. A daemon checks the version and installs a copy of its own
(`runtime`); a controller uploads what has the name (`agent` of the host) and only looks at the version that is
there before. Any call may fail, any process may be killed at any step.

### Modules of the agent

`ModuleRuns` fixes the shape of all of them. `actual` is the managed resource. `run` is the process
that serves one request: its place in the code (`at`), what it read (`read`), what it will report. `memo`
is history for the properties. Each operation of the module is an action: its `read` is only what the code
has in variables at that point, so a decision on an old inspection is a decision on an old inspection.
`CallError` fails the call that is due, `Killed` ends the process between two calls, `Outside` lets
others change the resource between any two steps, and what the module waits for happens by itself.

Data are abstract. A text is a sequence of lines or words; a regular expression is the set of lines it
matches; an attribute has two values; the options of a container are sets and maps, of which
only equality and inclusion are looked at, as the comparisons in the code do. An image, a commit or a package is a
number or a name. An archive has two files. The parts that decide are kept: which of two
markers comes first, which of several matches is used, which attribute is set on which path and in
which order, what is defaulted from an image, which of two inspections a value comes from; and what the code takes for
an answer, where that is not what it seems:

- In `GitCheckout` every query whose failure the code swallows can fail (`Unnoticed`: `rev-parse`, `remote get-url`, `status`,
  `clean`, `ls-remote`), and the run goes on with what the failure means to it: no commit, no URL, nothing modified, no branch of
  that name. Commands whose failure the code reports end the run (`CallError`). One of the first kind fails in a run.
- In `Unarchive` other controllers write what they have under the names of the uploads, before the agent compares the hash and after it
  (`OtherUpload`); what was opened goes on with whatever is there then.
- In `AptPackages` the cache is as young as the youngest of stamp, `pkgcache.bin`, list directory and lists (`young`), which says nothing of what the lists
  know: lists that somebody removes leave a young directory, and an update may fetch only some of them.
- In `FetchFile` `stat` may have no checksum, and then nothing is compared.
- In `ReplaceInFile` the section of a task with both bounds is the first group of the joined pattern: that of `after`, if it has one (`Grouped`), and no
  position at all if an alternative matches alone (`Panics`).
- In `SwarmData` a version is what its label says, and a config without the label has version 0 whatever its name (`VersionOf`, `Newest`, `Oldest`).

What `Satisfied` says of a task is what the code lets the module establish, which is sometimes less than a
document says; see *Met while modelling*.

## What is checked

Bounds are in the MC modules and the cfg files; nothing else is bounded.

| Run | Specification and bounds | Properties |
|---|---|---|
| `plays` | `FairSpec`; 48 local plays: 7 task lists that the preflight check lets pass, 2 sets of handlers, with and without reboot permission and `force_handlers`; 32 remote plays: 8 task lists on 2 hosts | all properties of `PlayRun` that hold, and `KeepsContract`. Those whose names begin with `Local`, and `KeepsContract`, are about local plays |
| `safety` | `Spec`, a rebooting project of 2 playbooks and a plain one, 2 faults | `OutcomesAreTrue`, `JobsBelongToTask`, `NeverStranded`, `DeliversTasks` |
| `liveness` | `SystemSpec`, the rebooting project, 2 faults | `KeepsPolling`, `EveryTaskRecorded` |
| `reboot` | `Spec`, the rebooting project, no faults | `ExitsAfterReboot`, violated |
| `file_modules` | `Spec`, 6 modules with 3 to 12 tasks each | `WholeFiles`, `SafeEdits`, `KeepsOtherLines`, `KeepsContract`, `Idempotent`, `Respects` |
| `host_modules` | `Spec`, 8 modules with 3 to 12 tasks each | `TypeOK`, `KeepsContract`, `Idempotent`, `Recovers`, `UsesWhatItChecked`, `KeepsWhatIsOthers`, `KeepsTables` |
| `docker_modules` | `Spec`, 9 modules (`ImageTools` twice) with 3 to 7 tasks each | `KeepsContract`, `Predicts`, `Idempotent`, `Recovers`, `StandsInterference`, `LosesNothing` |
| `host_reboot` | `FairSpec`, 4 boots and 4 attempts | `NoConnectionLeft`, `RebootedForReal`, `Ends` |
| `agents` | `Spec`, 2 processes and 6 files, daemons and controllers with and without `--force-agent`, releases of the right and of another version | `StoreSound`, `Serves` |
| `agent_store` | `Spec` of `AgentStore`, one daemon and one controller | `CachesMatching`, violated |

The lists of `MCPlayRun` are chosen so that each of these meets the others: two handlers that
notify each other, a handler that a later one of its name replaces, a topic
two handlers listen to, a looped handler, a handler that is an include; an
include of an include that ends in a reboot, one with a task behind it, a looped include; `end_host` and
`end_play` with something behind them; an explicit flush with tasks behind it;
a reboot that is not last and a looped one. Two hosts are enough for what crosses
hosts, which is `endPlay`, `failed` and the variables a new host resets. Three handlers
are enough for one that runs, one that waits in its round and one it notifies.
Two faults in `DeployDaemon` allow a crash during the recovery from a crash, and
a crash or signal in an attempt whose outcome is still on its way; two tasks allow
an outcome of one to arrive while the other is in progress. `MCPlayRun` does not check
deadlock because a run ends; `DeployDaemon` never ends and is checked for it (an exited
unit can be started again or its machine reboots).

The modules of the agent are independent of each other: one request runs one module. Checking them
side by side in one run asks the same questions of all of them. Their bounds:

- Tasks. Each instance has a task for each branch of its module, not the product of all options.
  The tasks of one instance are run one after the other in any order on the same host, which is how a
  later task meets what an earlier one left.
- Others. Between two runs others act as often as they like; during a run they change the host once
  (`Undisturbed`). One change is enough for every stale read; two would add the case in which the second
  undoes the first, and all properties about interference except `StandsInterference` and
  `UsesWhatItChecked` are stated for undisturbed runs anyway. Others change what the task at hand looks at
  (`t.repository`, `t.network_given`, `t.secret` and the like in `Outside`): a change that the
  module does not read commutes with all its steps.
- Sizes: files of at most three lines to begin with (`blockinfile` grows to `MaxLines`), two names, two containers, two labels.
  Versions: a registry and a published package only move forward and at most once or twice, an
  archive changes once, rolling versions end at `MaxVersion`, a secret is remade once.
- Retries are those of the code: two of a service update (`docker_swarm_service/executor.go:15`), three attempts to update a node
  (`docker_node/executor.go:216`), five to find one down (`docker_swarm/executor.go:21`).
- In `GitCheckout` one query of a run fails unnoticed (`Fails`). In `SwarmService` the environment file is there or not, and when it is there it sets something.
- `AptPackages` takes the queries of one loop over the packages as one step. In `CronTable` a listing of the
  crontab that fails is taken by the code for an empty one; such a run counts as disturbed. In `ServiceUnits` no
  other service has a similar name (`Alike`).

In `AgentStore` two processes meet once (`crowd`), and before and after that they come one by one; more
meetings only repeat the state a meeting leaves. Six files are one for each of the four names and
one for each process. Four boots of `HostReboot` allow another program to reboot the host
twice more during the wait, four attempts one that meets the old boot, one that meets nothing, one that is
refused and one that succeeds.

The type invariants of `DeployDaemon`, `HostReboot`, `AgentStore`, `FileModules` and `DockerModules` are theorems (below) and no longer
part of a run.

What the properties say:

- `NoLostNotification`, `FlushServesAll`: while the host has not failed, every handler a
  change notified and that has not run since is pending or still in the current
  round, and a flush that is not aborted leaves none. A handler that is notified again
  by a handler of the same flush is not run again in it; the model takes that
  as the meaning of deduplication ("ran" at `runner.go:501`), not as a loss.
- `LocalFailureSurfaces`, `LocalStopsAtFailure`: `RunResult.Failed` of a local run says
  exactly whether something could not be done, and the first failure ends the list. In remote
  mode neither holds: an include that does not load, or a loop item without result,
  is passed over, and unresolvable tasks are followed by the next.
- `LocalRebootIsLast`: at most one reboot, only where allowed, nothing of the list behind it,
  whatever `include_tasks` did to the queue.
- `EndIsFinal`: `end_host` and `end_play` skip the rest, the handlers and, for `end_play`,
  the later hosts.
- `Termination`: every run returns.
- `OutcomesAreTrue`: no outcome, however late, claims what no attempt did.
- `JobsBelongToTask`: no directory of an earlier process or task is there while tasks are processed.
- `NeverStranded`, `KeepsPolling`: systemd does not restart a clean exit, so the daemon
  exits cleanly only when told to or when the machine goes down.
- `EveryTaskRecorded`: retries come only from the server offering the task again. A task that issued a
  reboot is excepted: see *Fairness*.
- `RebootedForReal`, `NoConnectionLeft`, `Ends`: a remote reboot is reported only by a later boot than the one
  whose identifier was read, however long the old one goes on answering; no connection is held
  between two attempts or left at the end; the task ends. (A boot time command that prints nothing
  cannot tell two boots apart; `RebootedForReal` excludes it, because `executeReboot` accepts it.)
- `StoreSound`: processes that come one after another, killed wherever, never leave a half-written file
  under a name that is used, and the daemon's own agent is of its version. `Serves`: what a daemon that was alone could not use
  is not left for the next one, and a controller whose cache has no agent of another version goes on only with its own
  version on the host. A cache that has an archive of another version is excepted: such an archive is
  extracted again by every start (see *Met while modelling*).
- `KeepsContract` (of modules): see *Modules*. `Idempotent`: a task applied again finds nothing to do.
  `Predicts`: a check run announces a change exactly when the real run then makes one. `Recovers`:
  after a failed or killed run the next one is not refused. Each module names, in the definition and the comment above it, the
  tasks these are not meant for (a restart, a forced update, a pull whose result nobody can know).
- `WholeFiles`: no file is ever half written, backups hold what is replaced, and no half-uploaded script runs.
  `SafeEdits`: lineinfile changes one line, that matches, and with `firstmatch` the first; replace changes nothing
  outside the section it takes. `KeepsOtherLines`: lines that a task does not remove, or that are not of its
  block, stay in their order, for a text with at most one pair of markers. `Respects`: a template that is not forced leaves a file its text, and one that does not follow links
  leaves what is behind one alone, if nobody changes the destination meanwhile (the code does nothing against that).
- `UsesWhatItChecked`: what fetch delivers is what it saw, if it saw a checksum, and what unarchive extracts is what it hashed, unless
  another archive is uploaded under that name between the comparison and the extraction, which nothing in the code notices.
  `KeepsWhatIsOthers`: of what the task is not about: work in a checkout (edits excepted where `git status` failed), what is at a path without
  force, files an archive is not to touch, passwords, groups.
  `KeepsTables`: the lines, variables and jobs of others in a crontab, in runs in which nobody else writes it.
- `StandsInterference`: what another manager of a swarm changed between the inspection and the update is not taken back, one
  update out of sequence is tried again, and all targets of a tag get one image, also when others move its
  name between two of them. `LosesNothing`: when a run that nobody disturbed has answered, the containers are on the network that was replaced and the data in their
  volume, a container that is started is on its networks, and at no step of a rolling update is the swarm without any of the versions of the config
  that were listed. A network whose replacement fails half-way does lose containers: only the failed process knew them.

Fairness. `HostReboot`: the controller goes on (`WF` of its steps), also when the host does not come
back: connecting has a timeout (`ssh/client.go:77`), a session with a host that is down ends when TCP keepalive gives it up, and the loop
looks at the deadline before each attempt. Nothing is assumed of the host going down or coming back. A host
that keeps the connection alive and never answers is not covered: a command has no timeout of its own. `PlayRun`: a process that is running continues (`WF` of its steps); nothing
forces a signal. `DeployDaemon`: the same for the daemon, and systemd restarts, a machine
that was told to reboot does so and boots. `EveryTaskRecorded` needs more, stated
apart as `DeliveryFairness`: the server offers each task infinitely often if it is asked infinitely often,
and of requests that are sent again and again some are sent and some arrive.
Without it an always failing network keeps a task open for ever, which the
daemon does not promise to prevent. A task that issued a reboot is
excepted: each of its reports may be cut off by the shutdown
it caused, and the server then hands the task out again, so that it may reboot for ever
(`docs/DibraDeploy.md:94` acknowledges the repetition).

### Where the code and the documentation disagree

- `ExitsAfterReboot` (run `reboot`): `docs/DibraDeploy.md:117` says the daemon exits
  after the reboot was initiated. Handlers run after the reboot task, and when one fails
  `Failed` is looked at before `RebootInitiated` (`daemon.go:305`), so the
  task is reported failed and the daemon polls again while the machine goes down.
- `CachesMatching` (run `agent_store`): `docs/DibraDeploy.md:169` says that `dibra-deploy` downloads and
  caches its matching agent. The temporary file has a fixed name (`extract.go:48`, `download.go:26`), so of two processes of
  one user one can rename the file the other has just truncated. A daemon finds out, because it runs the agent to ask for
  its version, and removes it; a controller uploads what has the name.

### Met while modelling

These are left out of what the properties ask, each by a guard that its module names. They are
listed because a reader of `Satisfied` or `Idempotent` will ask about them.

- Handlers: in remote mode a task that cannot be resolved marks the host failed and the list goes on (`runner.go:683-691`), so a
  later `flush_handlers` runs handlers although `README.md:134` says that failed hosts skip them unless forced; and handlers
  scheduled behind one that fails are forgotten (`runner.go:503`, `619`), so that the forced flush at the end does not find them.
- lineinfile: a line that contains a newline is compared with single lines and added by every run (`executor.go:199`);
  what is left when lines are removed is not validated (`:242` is on the way of `present` only).
- replace: with `after` and `before` a group of `after` is taken for the section, so that the bound itself is edited (`:143`), and a bare alternation in one of
  them ends the agent with a panic when its own alternative matches (`:147`).
- blockinfile: with `(?m)` a match at the beginning of a line inserts before the line above it (`:313`); removing a block that is
  not there may still add the newline the last line lacks (`:124`).
- copy: a file whose checksum is right is answered before its mode is looked at (`:141`), so the mode is not part
  of `Satisfied`. unarchive: the same (`:110`); `exclude` and `mode` make `tar --diff` differ for ever (`:218`); for a zip only existence is checked (`:346`).
- file: a mode with set-user-id or sticky bit never compares equal (`:341`).
- git: a killed clone is accepted with `HEAD` and stays empty (`:296`); a bare clone does not follow its remote (`:224`); with
  `separate_git_dir` the second run clones again (`:162`); submodules change unreported (`:119`). A `git status` that fails counts as a clean work tree,
  and `reset --hard` then discards edits without `force` (`:394`, `:308`); an `ls-remote` that fails counts as a version that is no branch, so that an old commit is
  answered "unchanged" (`:407`).
- unarchive: the upload is named after the hash of the archive read first, but has the bytes read second (`runner.go:2459-2466`), so two controllers can replace each other's
  between the comparison (`:48`) and the extraction (`:121`).
- cron: a file of `cron.d` is written in place (`:249`), a repeated removal of it fails (`:304`), a special time drops the user (`:310`);
  a job whose marker is followed by an empty line is added again by every run, and the headers `crontab -l` prints above a table are dropped when it is read.
- apt: `latest` does not install what is absent (`:239`); a summary with "10 upgraded" contains "0 upgraded" (`:278`).
- service: a link of a service whose name contains this one's makes it enabled (`:407`); a static unit is "disabled" again by every
  run (`:257`); a unit that is starting counts as started (`:249`); a process of the `pattern` that is not the service's counts
  as running, and is not what `stopped` stops, so every run stops the service again (`:104`).
- systemd_service: if `systemctl show` fails the status is empty and counts as not running (`:272`), and with `masked` the unit need not exist (`:88`):
  `masked: false` with `stopped` then answers "unchanged" although an init script runs.
- user: a key left to root by an interrupted run stays so (`:512`); an expiry date is a change each time (`:321`).
- docker_image: the answer of the push replaces what the run reported (`:178`). docker_image_export: an archive of two names of one image is rewritten by every run (`:156`).
- docker_swarm: rotating tokens, forcing a new cluster and removing a node report a change each time (`:246`).
- docker_container: a task that pauses without starting reports a change each time; a check run can be told to announce every
  pull (`Announced`).
- docker_node: the specification of the first inspection is sent with a fresh version (`:223`), so another manager's labels are taken back.
- docker_swarm_service: a change of mode removes the service also when no image is given to create it with (`:336`); an update
  that is refused for its version repeats the whole run (`executor.go:15`); a limit of zero, a `rollback_config` in which
  nothing is set, is a difference in every run (`service.go:963`), and a label of the task with no value equals another label of the service, because the maps are
  compared by length and by what a lookup yields (`mapsEqual`).
- docker_config, docker_secret: a config `name_v2` without the label `ansible_version` has version 0; beside a labelled `name_v1` it makes every
  run create `name_v2` again and be refused (`docker_config/executor.go:206`, `:240`). `Recovers` excepts it.
- agent: a cached archive of another version is extracted again by every start (`local.go:28`); `AgentStore` has such a release
  (`Releases`), and `Serves` excepts a cache that holds what came from it.

## What is proved

`DeployDaemonProofs` proves, for all sets of tasks, projects and numbers of faults that satisfy
`DeployAssumption`:

| Theorem | Statement |
|---|---|
| `TypeCorrect` | `Spec => []TypeOK` |
| `OutcomesTrue` | `Spec => []OutcomesAreTrue` |
| `JobsAreClean` | `Spec => []JobsBelongToTask` |
| `NotStranded` | `Spec => []NeverStranded` |
| `Delivers` | `Spec => DeliversTasks`, that is, `Delivery!Spec` |

None of the four properties is inductive. `TypeOK` is not, because an outcome that is sent
must name a task, so `Typed` adds that a task is being processed in the places that use it.
`OutcomesAreTrue` needs what connects the daemon's local variables with the history of its
attempt: `RunIsOfPlaybook` (which playbook the call in progress belongs to, how many have succeeded
before it), `ReportIsTrue` (what a report about to be sent claims was done) and, for
`NeverStranded`, `RebootIsComing` (a call that initiated a reboot, and the flag made of it, imply
that the machine is about to go down or has forgotten the process). Their conjunction `IInv` is
inductive and implies the rest. `Delivers` is the usual pair: initial states map to
initial states, and under `IInv` each step maps to a step of `TaskDelivery` or a stutter.
`JobsBelongToTask` has its own small induction.

`PlayRunProofs` proves, for all plays, included files, handlers and numbers of hosts that satisfy
`PlayRunAssumption` (well-formed tasks; a local play has one host and its own reboots are placed
as the preflight check demands, which `RebootPlaced` takes from `project.go`):

| Theorem | Statement |
|---|---|
| `TypeCorrect` | `Spec => []TypeOK` |
| `NothingLost` | `Spec => []NoLostNotification` |
| `FlushComplete` | `Spec => FlushServesAll` |
| `EndsForGood` | `Spec => EndIsFinal` |
| `RebootIsLast` | `Spec => []LocalRebootIsLast` |
| `StopsAtFailure` | `Spec => LocalStopsAtFailure` |
| `FailureSurfaces` | `Spec => []LocalFailureSurfaces` |
| `RunKeepsContract` | `Spec => KeepsContract`; and for a local play that is the contract: `Spec /\ play.local => Contract!Spec` (`LocalRunsRefine`) |

`TypeOK` is inductive, part by part: the flags, the places, the queues (for which `SpliceType` and
`RepeatType` say what including does to a queue) and the handlers, where the point is that a notification
only ever selects handlers the index still has. The others need more:

- `Accounted` adds to `NoLostNotification` that what is owed has not run in the flush in progress
  and that the variables of a flush are at rest outside of one. Without the second a handler could be
  owed, scheduled and already done, and so not be `Ready`. `FlushComplete` follows from it at the step that ends a flush.
- `Ended` says where a run can be after `hostEnded` and `endPlay` were set.
- `LocalInv` keeps together what makes the local mode stop: there is one host, so flags that
  `StartHost` resets are not reset once they are set; after a failure the task loop is over; after a
  reboot was issued the index is past the queue, or at its end with the host failed. The reboot's
  `idx = len(queue)` at the time it is issued is enough because nothing is
  included into the queue from outside the task loop (handlers have queues of their own).
- `Surfaced` relates `hostFailed`, `failed` and `faulty` to the loop in progress, whose failed items
  are not in the result until it ends.
- `Reported` says that a failure which is not the host's leaves only the end of the run, and that a
  reboot in the result was issued. With `LocalInv` it shows that the steps `RunContract`
  restricts (the reboot, the return of an error) are only taken where it allows them; all other
  steps are quiet (`QuietSteps`).

With `RunKeepsContract`, what `DeployDaemonProofs` proves of a daemon that calls `RunContract` is about
a daemon that calls `PlayRun`; the remaining gap is that a project is a number of playbooks there
and their contents here.

`HostReboot` itself ends with its proofs, for any number of boots and attempts (`Bounds`):

| Theorem | Statement |
|---|---|
| `RebootTypes` | `Spec => []TypeOK` |
| `RebootLeavesNoConnection` | `Spec => []NoConnectionLeft` |
| `RebootIsReal` | `Spec => RebootedForReal` |

`RebootedForReal` is about the last step only, and needs what connects it with the first: `HostComesBack` (boots only grow, and a
connection is to no later boot), `ReadBefore` (what was read is no later than the host) and `TestsAnotherBoot` (the test command runs only over
a connection whose boot differs from the one read). Their conjunction with `TypeOK` and `NoConnectionLeft` is inductive.

`AgentStoreProofs` proves, for any number of processes and files, any requests and any releases that satisfy
`StoreAssumption`:

| Theorem | Statement |
|---|---|
| `StoreTypes` | `Spec => []TypeOK` |
| `StoreIsSound` | `Spec => []StoreSound` |
| `StoreServes` | `Spec => Serves` |

`StoreSound` says nothing of the temporary files, so it is not inductive: what is renamed has to be whole. `IInv` adds, for
a process that is alone, what it has found or written up to each place (`Downloading`, `Extracting`, `Installing`,
`Serving`): for instance that the file it fills is the one that has the temporary name and has exactly the parts that are
written. That needs `Solitude` (whoever is alone is the only one that is there; so is whoever is there before two
processes meet, or after one found that nothing helps), `Kinds` (which places belong to which kind of process) and
`Underway`. `ArchiveDropped` is the point of `Heals`: the removal of the archive is what makes the next
daemon download it again. A mutant that keeps it violates the run and breaks the proof at this step.

`FileModulesProofs` proves, for all lines, words, texts of any length, and all tasks that satisfy
`FileAssumption` (the tasks are requests the modules accept, and a missing or a torn file is no text):

| Theorem | Statement |
|---|---|
| `FileTypes` | `Spec => []TypeOK` |
| `FilesAreWhole` | `Spec => []WholeFiles` |
| `EditsAreSafe` | `Spec => []SafeEdits` |
| `TemplatesRespect` | `Spec => Respects` |

Four of the six modules write through `FileRuns`, so their common invariant is stated and proved once, with the states, texts
and tasks as parameters: `FileInv` is `Typed`, `Busy` (a run knows what it read), `Texted` (what will be
written is a text), `Filled` (a temporary file about to be renamed has all of the new text, or is not there), `Seen` and `Saved` (between
the backup and the rename the file is what was backed up, unless others disturbed the run). What a module adds is one invariant:
`LineEdited` and `ReplaceEdited` relate the text that is going to be written to the one that is there, `TemplateEdited` says how a run
that reached the edit got past `force` and `follow`. `CopyFiles` writes several files and `CommandRun` uploads one, so they have
invariants of their own (`CopyInv`, `CommandInv`).

The edits themselves are sequences, put together with `\o`, `SubSeq` and `FlattenSeq`. That the last yields a list of the
right lines (`FlattenType`) is an induction. The prover cannot instantiate the library's induction theorems, which take
an operator, so `SetInduction` states induction over the natural numbers for a set of them, and is proved from the
well-foundedness of `<` (`WFMin`).

`HostModulesProofs` proves, for all files, accounts, packages, tables and tasks that satisfy `HostAssumption`:

| Theorem | Statement |
|---|---|
| `HostTypes` | `Spec => []TypeOK` |
| `HostsRecover` | `Spec => Recovers` |
| `HostsUseWhatTheyChecked` | `Spec => UsesWhatItChecked` |
| `HostsKeepWhatIsOthers` | `Spec => KeepsWhatIsOthers` |
| `HostsKeepContract` | `Spec /\ module \in Steady => KeepsContract` |
| `HostsSettle` | `Spec /\ module \in Steady => Idempotent` |

`RunTyped` is what a run of any module keeps, with a lemma for each action of `ModuleRuns` (`RunStep`, `RunEnds`, `RunInterferes` and so on).
On top of it, each module has a predicate that says what its run knows at each place, as long as nobody disturbed it:

- `ManageKnown`, `ManageNested`: which kind of thing is at the path when it is replaced, and that a child is only in a directory.
- `ArchiveFound`: what is in the upload at each place is the archive that was hashed, or torn, and a torn one is uploaded again before it
  is extracted, as long as no other took its place (`swapped`). This is what connects `Recovers` with `ExtractsWhatWasHashed`.
- `GitFound`: the checkout is a repository on a branch when it is reset, clean if it is not forced, unless `git status` failed; and the commit it is reset to
  descends from it, because what was fetched was never anything but `Published`.
- `UnitKept`: an init script is neither masked nor static. For apt types are enough (`AptTyped`).

`Steady` are fetch, file, unarchive and user: for these the contract and idempotence hold for every task. Both need more than
types, because `KeepsContract` is a refinement whose mapping asks at every step whether `Satisfied` holds. A run that nobody
disturbs knows at each place which part of the task it has established and how what it will report relates to what it has
touched (`FetchKnows`, `ManageKnows`, `ArchiveKnows`, `UserKnows`); at the answer this is `Truthful`, and
`RunContract` turns a truthful answer of any module but git, where the mapping has `Misled`, into a step of `ModuleContract`. `Idempotent` is about two runs: `memo.settled`
says that nothing has come between, and the invariant then relates the host to the task that was applied (`ManageDone`,
`ArchiveDone`), which the `...Settled` predicate hands to the places of the second run. In `file` the
attributes are a list of things still to be set, so what is established is what is due and no longer in the list
(`ManageLeft`); for unarchive it is the files that are no longer to be extracted.

`DockerModulesProofs` proves, for all options, labels, names, versions and tasks that satisfy `DockerAssumption` (the tasks are requests the
modules accept, and a missing service or a broken archive is no value); what it needs of the modules of the engine is in `DockerEngineProofs`:

| Theorem | Statement |
|---|---|
| `DockerTypes` | `Spec => []TypeOK` |
| `DockersKeepContract` | `Spec => KeepsContract` |
| `DockersPredict` | `Spec => Predicts` |
| `DockersSettle` | `Spec => Idempotent` |
| `DockersRecover` | `Spec => Recovers` |
| `DockersStandInterference` | `Spec => StandsInterference` |
| `DockersLoseNothing` | `Spec => LosesNothing` |

All but the first are the properties of the run `docker_modules`. Four of them are about more than one step: the contract relates an answer to the state
before the run, `Predicts` and `Idempotent` relate the answers of two runs with arbitrary tasks and modes
between them. One invariant for each module, of the same form for all (here for X), carries them:

- `XAlways(place, task, h, r, checking)`: what is so at a place whoever interferes (which task gets there, that a place that writes is not reached in check mode).
- `XKnows(place, ...)`: what a run that nobody disturbed knows of the resource: which part of the task it has established, and how what it
  read compares with what is there now.
- `XWill(place, task, h, r, c)`: whether the run, from this place on, will report a change; `XChange(task, h)` is the same for a run
  that is yet to begin. This is the strengthening that makes the rest inductive: every step of an undisturbed run keeps `XWill`, and an answer is what it says.
- A run that was given a forecast (`expect`), or repeats a task that succeeded (`again`), has the forecast equal to `XWill`, or `XWill` false; between two runs
  the history (`memo`) says the same of `XChange`. `XForetells` and `XSettles` are the tasks for which a
  module promises it, as in its `Predicts` and `Idempotent`.

`XInv` is the conjunction, over `RunTyped`. The generic part (`RunBegin`, `RunStep`, `RunEnds`, `RunInterferes`) is proved once; the lemmas `XStep`,
`XAnswers`, `XStops`, `XBegins`, `XMeets` reduce a step of a module to what it does to `XKnows` and `XWill`, and `XSteps` has one step for each
action of the module. `DockerInv` puts the ten instances together, and `RunMoves` with `Truthful` is all that the contract needs to know of a step.

What the properties of one module need beside this:

- `StandsInterference` is about disturbed runs, so only `XAlways` helps. `ClusterAlways` and `ServiceAlways` say that what a run read is what is
  there as long as the version it read is (`r.version = h.version`, `r.fresh`): an update the engine accepts takes back nothing. That one
  refusal is retried, and that all targets get the image that was inspected, is in the steps themselves.
- `Recovers` and `StartedOnItsNetworks` need `ContainerKnows` (a container seen as created by this run is the one that is there, with the networks
  joined so far), `NetworkKnows` and `DataKnows` (what is due to be removed is what is listed; where all versions are labelled, the name
  of the next one is free).
- `LosesNothing` needs the newest version of a config, which is a `CHOOSE`; that it exists (`Least`) is the well-foundedness of `<`, which
  is also how `FileModulesProofs` gets its induction.

## What is only model-checked

- Liveness (`Termination`, `Ends`, `KeepsPolling`, `EveryTaskRecorded`): fairness and ENABLED are out of the prover's reach.
- `KeepsContract` and `Idempotent` of the modules that are not in `Steady`. For service and git they do not hold for all
  tasks and hosts the definitions allow, only for those of the runs (see *Met while modelling*): an empty status, a stray process and
  submodules are excepted there. For cron and apt, and those that edit files, they need what each edit establishes of a list.
- `KeepsOtherLines` and `KeepsTables`: they say that one list is what another leaves over (`SelectSeq`, `FlattenSeq`),
  an induction over data.

## Not modelled

- The contents of templates and variables; SSH and HTTP as byte streams; output, diffs and
  wording. A rendering that fails is an outcome.
- That lineinfile and blockinfile make the parent directory of a file they create (`lineinfile/executor.go:93`, `blockinfile/executor.go:84`): the directory is
  taken to be there.
- Facts and registered results: they choose among outcomes.
- Precedence of variables, groups of the inventory, expansion of `import_tasks`, the manifest and the archive limits of a
  project: pure functions that are computed before a run from files that do not change; nothing is
  interleaved with them. What the preflight check demands of a reboot is in the models (`RebootPlaced`).
- Modules that only read (`stat`, `find`, `slurp`, `gather_facts`, `service_facts`, `*_info`), that make one call
  (`tempfile`, `ping`, `uri`), or that compare the text a tool prints and call it (`apt_key`, `apt_repository`, `docker_stack`, `docker_plugin`, `docker_prune`, `docker_login`, the compose modules). They would instantiate `ModuleRuns` with two
  steps and nothing in between.
- `iptables`, `iptables_state` and `ufw`: chains of rules in the kernel that the tools list, compare and change one by one; what would be
  said of them is what a sequence is without some of its members.
- Liveness of the waits of the docker modules: their deadlines are contexts of the docker library.
- An include that includes itself: the queue then grows for ever (`runner.go:2869` has
  no bound, unlike static imports), and `Termination` is stated for acyclic files.
- Two controllers that run one script on one host: they use the same path and the code does nothing against it.
- `cmd/controller` passes a background context and does not look at `RunResult.Failed`,
  so it exits with 0 after a failed remote run.

## What could follow

1. `KeepsContract` and `Idempotent` of template, copy and command in `FileModules`, and of git for tasks that agree on submodules.
2. `docker_container_copy_into`, whose comparison of two trees would be a module like `CopyFiles`.
3. `ProjectPreflight`: manifest, static imports with depth bound and cycle check, composed with `PlayRun`.
4. `VarLayers` and `InventoryGroups`: precedence as folds, checked against a reference definition.

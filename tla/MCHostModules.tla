--------------------------- MODULE MCHostModules ----------------------------
(* Small instances of the modules that manage files, accounts, packages,   *)
(* services, checkouts and crontabs.                                       *)
EXTENDS HostModules, TLC

CONSTANTS
    wa, wb,          \* texts, files, names, packages
    jx, jy,          \* jobs
    wheel, docker    \* groups

(* Over SSH and locally, validated or not, required or not.                *)
PlainFetch == [must |-> TRUE, validate |-> TRUE, local |-> FALSE]
MCFetchTasks ==
    { PlainFetch, [PlainFetch EXCEPT !.local = TRUE], [PlainFetch EXCEPT !.validate = FALSE],
      [PlainFetch EXCEPT !.must = FALSE] }

(* A task for each state, with and without force, and all attributes.      *)
PlainManage == [state |-> "", owner |-> 0, mode |-> 2, recurse |-> FALSE, force |-> FALSE]
MCManageTasks ==
    { PlainManage, [PlainManage EXCEPT !.state = "absent"], [PlainManage EXCEPT !.state = "touch"],
      [PlainManage EXCEPT !.state = "directory", !.owner = 2, !.recurse = TRUE],
      [PlainManage EXCEPT !.state = "file", !.owner = 2], [PlainManage EXCEPT !.state = "link"],
      [PlainManage EXCEPT !.state = "link", !.force = TRUE],
      [PlainManage EXCEPT !.state = "hard", !.force = TRUE] }

(* Two files, archives of both types, uploaded and on the host.            *)
MCFiles == {wa, wb}
PlainArchive ==
    [type |-> "tar", remote |-> FALSE, creates |-> Missing, list |-> FALSE, select |-> MCFiles,
     newer |-> FALSE, mode |-> FALSE]
MCArchiveTasks ==
    { PlainArchive, [PlainArchive EXCEPT !.remote = TRUE, !.newer = TRUE, !.list = TRUE],
      [PlainArchive EXCEPT !.type = "zip"],
      [PlainArchive EXCEPT !.remote = TRUE, !.select = {wa}, !.mode = TRUE],
      [PlainArchive EXCEPT !.remote = TRUE, !.creates = wb] }

(* A task for each program that is called; two groups, two of each value.  *)
PlainUser ==
    [kind |-> "user", state |-> "present", shell |-> 2, groups |-> {wheel}, append |-> TRUE,
     password |-> 0, update |-> "always", lock |-> "", key |-> FALSE, force |-> FALSE,
     remove |-> FALSE, expires |-> FALSE, gid |-> 0]
MCUserTasks ==
    { PlainUser, [PlainUser EXCEPT !.groups = {wheel, docker}, !.password = 1, !.lock = "lock"],
      [PlainUser EXCEPT !.append = FALSE, !.password = 2, !.update = "on_create", !.key = TRUE],
      [PlainUser EXCEPT !.password = 1, !.lock = "unlock", !.key = TRUE, !.force = TRUE],
      [PlainUser EXCEPT !.state = "absent", !.remove = TRUE],
      [PlainUser EXCEPT !.kind = "group", !.gid = 2],
      [PlainUser EXCEPT !.kind = "group", !.state = "absent"] }

(* A task for each of the operations of the two modules.                   *)
Service ==
    [kind |-> "service", state |-> "started", enabled |-> "", masked |-> "", noblock |-> FALSE,
     sleep |-> FALSE, pattern |-> FALSE, reload |-> FALSE]
SystemdUnit == [Service EXCEPT !.kind = "systemd"]
MCUnitTasks ==
    { [Service EXCEPT !.enabled = "yes"], [Service EXCEPT !.state = "stopped", !.enabled = "no"],
      [Service EXCEPT !.pattern = TRUE], [Service EXCEPT !.state = "restarted", !.sleep = TRUE],
      [Service EXCEPT !.state = "reloaded"],
      [SystemdUnit EXCEPT !.masked = "no", !.enabled = "yes"],
      [SystemdUnit EXCEPT !.state = "stopped", !.masked = "yes"],
      [SystemdUnit EXCEPT !.noblock = TRUE], [SystemdUnit EXCEPT !.state = "stopped", !.noblock = TRUE],
      [SystemdUnit EXCEPT !.state = "restarted"],
      [SystemdUnit EXCEPT !.state = "", !.enabled = "no", !.reload = TRUE],
      [SystemdUnit EXCEPT !.state = "", !.reload = TRUE] }

(* A task for each version and for what a repository may be.               *)
Main ==
    [version |-> "main", clone |-> TRUE, update |-> TRUE, force |-> FALSE, bare |-> FALSE,
     separate |-> FALSE, recursive |-> FALSE]
MCGitTasks ==
    { Main, [Main EXCEPT !.force = TRUE, !.version = "dev"], [Main EXCEPT !.version = "sha"],
      [Main EXCEPT !.version = "HEAD"], [Main EXCEPT !.clone = FALSE, !.version = "HEAD", !.force = TRUE],
      [Main EXCEPT !.update = FALSE], [Main EXCEPT !.bare = TRUE] }

(* Two names, for jobs and variables, in a crontab and in a file.          *)
PlainJob ==
    [name |-> wa, job |-> jx, state |-> "present", env |-> FALSE, file |-> FALSE, user |-> FALSE,
     special |-> FALSE, disabled |-> FALSE, backup |-> FALSE, place |-> "top", anchor |-> wb]
FileJob == [PlainJob EXCEPT !.file = TRUE, !.user = TRUE]
OldJob == <<"job", jy, [special |-> FALSE, user |-> FALSE, off |-> TRUE]>>
MCTables ==
    { Missing, << <<"header">>, <<"comment">> >>,
      << <<"env", wa, jx, [tight |-> FALSE]>>, <<"env", wb, jy, [tight |-> TRUE]>>, <<"empty">>,
         <<"marker", wa>>, OldJob, <<"comment">> >> }
MCCronTasks ==
    { [PlainJob EXCEPT !.backup = TRUE, !.special = TRUE], [PlainJob EXCEPT !.state = "absent"],
      [PlainJob EXCEPT !.env = TRUE, !.place = "after"],
      [PlainJob EXCEPT !.env = TRUE, !.state = "absent"],
      FileJob, [FileJob EXCEPT !.name = wb, !.disabled = TRUE], [FileJob EXCEPT !.user = FALSE],
      [FileJob EXCEPT !.env = TRUE, !.place = "before", !.job = jy] }

(* Two packages, one of which depends on the other.                        *)
MCNeeds == wa :> {wb} @@ wb :> {}
MCWeight == wa :> 1 @@ wb :> 1
PlainApt ==
    [packages |-> {}, state |-> "present", update |-> FALSE, valid |-> FALSE, purge |-> FALSE,
     upgrade |-> FALSE, autoremove |-> FALSE]
MCAptTasks ==
    { [PlainApt EXCEPT !.packages = {wa}, !.update = TRUE, !.valid = TRUE],
      [PlainApt EXCEPT !.packages = {wa, wb}], [PlainApt EXCEPT !.update = TRUE],
      [PlainApt EXCEPT !.packages = {wa}, !.state = "absent", !.purge = TRUE],
      [PlainApt EXCEPT !.packages = {wb}, !.state = "absent"],
      [PlainApt EXCEPT !.packages = {wa, wb}, !.state = "latest", !.update = TRUE],
      [PlainApt EXCEPT !.upgrade = TRUE], [PlainApt EXCEPT !.autoremove = TRUE] }

MCTexts == {wa, wb}
MCGroups == {wheel, docker}
MCAlike == {FALSE}
MCNames == {wa, wb}
MCJobs == {jx, jy}
MCPackages == {wa, wb}
=============================================================================

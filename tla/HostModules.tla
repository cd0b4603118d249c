---------------------------- MODULE HostModules -----------------------------
(***************************************************************************)
(* The modules of the agent that fetch and manage files, accounts,         *)
(* packages, services, checkouts and crontabs, side by side: the agent     *)
(* runs one of them, and all of them owe the same to its caller.  What     *)
(* they promise beside the contract of modules is stated here for all.     *)
(***************************************************************************)
EXTENDS ModuleRuns, Naturals, Sequences

CONSTANTS
    Missing, Torn, Directory,      \* what may be in place of a text
    Texts, FetchTasks,             \* of fetch
    ManageTasks,                   \* of file
    Theirs, Files, ArchiveTasks,   \* of unarchive
    Groups, UserTasks,             \* of user and group
    Alike, UnitTasks,              \* of service and systemd_service
    GitTasks,                      \* of git
    Names, Jobs, Tables, CronTasks,            \* of cron
    Packages, Needs, Weight, AptTasks          \* of apt

VARIABLE module   \* the module that the agent runs

Fetch == INSTANCE FetchFile WITH Words <- Texts, Tasks <- FetchTasks
Manage == INSTANCE ManageFile WITH Tasks <- ManageTasks
Archive == INSTANCE Unarchive WITH Own <- Theirs, Tasks <- ArchiveTasks
User == INSTANCE UserAccounts WITH Tasks <- UserTasks
Unit == INSTANCE ServiceUnits WITH Tasks <- UnitTasks
Git == INSTANCE GitCheckout WITH Tasks <- GitTasks
Cron == INSTANCE CronTable WITH Tasks <- CronTasks
Apt == INSTANCE AptPackages WITH Tasks <- AptTasks

(* A file or an account that is not there is none of those that may be.    *)
ASSUME HostAssumption ==
    /\ Fetch!TaskAssumption /\ {Missing, Torn, Directory} \cap Texts = {}
    /\ Manage!TaskAssumption /\ Missing \notin Manage!Nodes
    /\ Archive!TaskAssumption /\ {Missing, Torn, Theirs} \cap Archive!Versions = {}
    /\ Missing \notin Files /\ Missing \notin Archive!FileStates
    /\ User!TaskAssumption /\ Missing \notin User!Accounts \union 1 .. 2
    /\ Unit!TaskAssumption
    /\ Git!TaskAssumption /\ Missing \notin Git!Checkouts
    /\ Cron!TaskAssumption /\ Missing \notin Seq(Cron!Lines)
    /\ Apt!TaskAssumption
    /\ Missing # Torn /\ Missing # Directory /\ Torn # Directory

-----------------------------------------------------------------------------
Init ==
    \/ module = "fetch" /\ Fetch!Init
    \/ module = "file" /\ Manage!Init
    \/ module = "unarchive" /\ Archive!Init
    \/ module = "user" /\ User!Init
    \/ module = "service" /\ Unit!Init
    \/ module = "git" /\ Git!Init
    \/ module = "cron" /\ Cron!Init
    \/ module = "apt" /\ Apt!Init
Next ==
    \/ UNCHANGED module /\ module = "fetch" /\ Fetch!Next
    \/ UNCHANGED module /\ module = "file" /\ Manage!Next
    \/ UNCHANGED module /\ module = "unarchive" /\ Archive!Next
    \/ UNCHANGED module /\ module = "user" /\ User!Next
    \/ UNCHANGED module /\ module = "service" /\ Unit!Next
    \/ UNCHANGED module /\ module = "git" /\ Git!Next
    \/ UNCHANGED module /\ module = "cron" /\ Cron!Next
    \/ UNCHANGED module /\ module = "apt" /\ Apt!Next
all == <<module, vars>>
Spec == Init /\ [][Next]_all

(* Every module keeps to its states.                                       *)
TypeOK ==
    \/ module = "fetch" /\ Fetch!TypeOK
    \/ module = "file" /\ Manage!TypeOK
    \/ module = "unarchive" /\ Archive!TypeOK
    \/ module = "user" /\ User!TypeOK
    \/ module = "service" /\ Unit!TypeOK
    \/ module = "git" /\ Git!TypeOK
    \/ module = "cron" /\ Cron!TypeOK
    \/ module = "apt" /\ Apt!TypeOK

-----------------------------------------------------------------------------
(* Whatever a run leaves that fails or is killed half-way, in the          *)
(* directory, the checkout or the upload, the next run gets over it.       *)
Recovers ==
    [][ /\ module = "file" => Manage!Recovers
        /\ module = "unarchive" => Archive!Recovers
        /\ module = "git" => Git!Recovers ]_all

(* What a run has checked is what it uses, though others change it between *)
(* the check and the use: the text that was hashed is the one fetched, and *)
(* the archive that was hashed the one extracted, whatever happens to the  *)
(* file or the archive on the controller (runner.go:3129,                  *)
(* unarchive/executor.go:48).                                              *)
UsesWhatItChecked ==
    [][ /\ module = "fetch" => Fetch!FetchesWhatItSaw
        /\ module = "unarchive" => Archive!ExtractsWhatWasHashed ]_all

(* No step of a run takes away what belongs to others: work in a checkout, *)
(* what is at a path without force, files an archive is not to touch,      *)
(* passwords that are set once, groups that are appended to.               *)
KeepsWhatIsOthers ==
    [][ /\ module = "file" => Manage!KeepsWhatIsThere
        /\ module = "unarchive" => Archive!KeepsTheRest
        /\ module = "user" => User!OnlyOnCreate /\ User!Appends
        /\ module = "git" => Git!KeepsWork ]_all

(* The lines, variables and jobs of others in a crontab stay, and stay in  *)
(* their order.                                                            *)
KeepsTables == [][module = "cron" => Cron!KeepsOthers]_all

-----------------------------------------------------------------------------
Holds ==
    CASE module = "fetch" -> Fetch!Satisfied(run.task, actual)
      [] module = "file" -> Manage!Satisfied(run.task, actual)
      [] module = "unarchive" -> Archive!Satisfied(run.task, actual)
      [] module = "user" -> User!Satisfied(run.task, actual)
      [] module = "service" -> Unit!Satisfied(run.task, actual)
      [] module = "git" -> Git!Satisfied(run.task, actual)
      [] module = "cron" -> Cron!Satisfied(run.task, actual)
      [] module = "apt" -> Apt!Satisfied(run.task, actual)
(* git takes the failure of a query for an answer, and a run in which it   *)
(* did so promises no more than one that others have disturbed             *)
(* (git/executor.go:394, 407).                                             *)
Contract == INSTANCE ModuleContract WITH
    phase <- RunPhase, holds <- Holds, touched <- run.touched,
    disturbed <- run.disturbed \/ (module = "git" /\ Git!Misled), answer <- RunAnswer

(* Every module implements the contract of modules: a change it reports    *)
(* left what the task asks for, no change means that it was so before, and *)
(* nothing is touched in check mode.                                       *)
KeepsContract == Contract!Spec

(* A task that was applied, and is applied again, finds nothing to do:     *)
(* nothing is changed and no change is reported.  The tasks for which it   *)
(* is not meant to be so are named by each module.                         *)
Idempotent ==
    [][ /\ module = "fetch" => Fetch!Idempotent
        /\ module = "file" => Manage!Idempotent
        /\ module = "unarchive" => Archive!Idempotent
        /\ module = "user" => User!Idempotent
        /\ module = "service" => Unit!Idempotent
        /\ module = "git" => Git!Idempotent
        /\ module = "cron" => Cron!Idempotent
        /\ module = "apt" => Apt!Idempotent ]_all

=============================================================================

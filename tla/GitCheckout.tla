---------------------------- MODULE GitCheckout ----------------------------
(***************************************************************************)
(* The module git: a repository is cloned, or fetched and moved to the     *)
(* version the task names, by one git command after the other.  Each sees  *)
(* the checkout as it is then, the local work in it included, and the      *)
(* remote as it is then.  A query that fails counts as an answer: a status *)
(* as a clean work tree, the branches of the remote as none.               *)
(***************************************************************************)
EXTENDS ModuleRuns, Naturals

CONSTANTS
    Missing,   \* no directory at the destination
    Tasks

(* Commits: the first one, which tasks name by its hash; main grows, or is *)
(* written anew; another branch; and somebody's own work.                  *)
First == 1
Parent == <<0, First, First, 2, 2, First>>
Mains == {2, 5, 6}
Devs == {3}
Local == 4
Commits == 1 .. 6
NoCommit == 0
IsAncestor(a, b) ==
    a \in {b, NoCommit, Parent[b]} \/ (Parent[b] # NoCommit /\ Parent[Parent[b]] = a)
Branches == {"main", "dev"}

Requests ==
    [version : {"HEAD", "sha"} \union Branches, clone : BOOLEAN, update : BOOLEAN, force : BOOLEAN,
     bare : BOOLEAN, separate : BOOLEAN, recursive : BOOLEAN]

TaskAssumption == Tasks \subseteq Requests

(* A checkout on a branch, or on a commit (""), and what is not committed. *)
Work == {"edited", "untracked"}
Checkouts ==
    [shape : {"plain", "bare", "separate"}, url : {"task", "other"}, branch : Branches \union {""},
     heads : [Branches -> Commits \union {NoCommit}], commit : Commits \union {NoCommit},
     dirty : SUBSET Work, submodules : BOOLEAN]
Remotes == [Branches -> Commits]
Hosts == [remote : Remotes, dest : Checkouts \union {Missing}]
Head(d) == IF d = Missing THEN NoCommit ELSE IF d.branch = "" THEN d.commit ELSE d.heads[d.branch]

(* before: what HEAD was; fetched: the branches of the remote as fetched;  *)
(* failed: the commands whose failure was not noticed.                     *)
Unnoticed == {"before", "url", "status", "clean", "branch", "remote", "after"}
Reading ==
    [before : Commits \union {NoCommit}, fetched : [Branches -> Commits \union {NoCommit}],
     failed : SUBSET Unnoticed]
Nothing == [before |-> NoCommit, fetched |-> [b \in Branches |-> NoCommit], failed |-> {}]
Places == {"look", "url", "mods", "resethard", "clean", "fetch", "switch", "branch", "version",
           "ancestor", "reset", "submodules", "clone", "cloning", "pin", "after", "blind"}

TypeOK ==
    /\ actual \in Hosts /\ memo \in Memos
    /\ run \in RunStates(Tasks, Places, Reading)
    /\ ~Checking

t == run.task
now == run.read
dest == actual.dest
Version(b) == IF b = "HEAD" THEN "main" ELSE b

-----------------------------------------------------------------------------
(* The module has no check mode.                                           *)
Start == \E task \in Tasks : Begin(task, "apply", "look", Nothing)

(* A bound: one command of a run fails for no reason of its own.           *)
Fails(command, place) ==
    /\ now.failed = {} \/ dest = Missing
    /\ Reads(place, [now EXCEPT !.failed = @ \union {command}])

(* A repository is a HEAD in the directory, or a .git that is a directory. *)
IsRepo == dest # Missing /\ dest.shape = (IF t.bare THEN "bare" ELSE "plain")
Look ==
    /\ At("look")
    /\ IF IsRepo THEN Fails("before", "url") \/ Reads("url", [now EXCEPT !.before = Head(dest)])
       ELSE IF t.clone THEN Goto("clone") ELSE Answer(FALSE)
SetRemoteURL ==
    /\ At("url")
    /\ LET next == IF t.update THEN "mods" ELSE "after" IN
       \/ Fails("url", next)
       \/ dest # Missing /\ dest.url = "task" /\ Goto(next)
       \/ dest # Missing /\ dest.url # "task" /\ Changes(next, [actual EXCEPT !.dest.url = "task"])

(* Without a work tree nothing is modified.                                *)
HasLocalMods ==
    /\ At("mods")
    /\ \/ Fails("status", "fetch")
       \/ /\ dest # Missing
          /\ IF t.bare \/ dest.dirty = {} THEN Goto("fetch")
             ELSE IF t.force THEN Goto("resethard") ELSE Refuse
(* git reset leaves the files it does not know to git clean.               *)
ResetHard ==
    /\ At("resethard")
    /\ IF dest = Missing THEN Refuse ELSE Changes("clean", [actual EXCEPT !.dest.dirty = @ \ {"edited"}])
Clean ==
    /\ At("clean")
    /\ \/ Fails("clean", "fetch")
       \/ dest # Missing /\ Changes("fetch", [actual EXCEPT !.dest.dirty = @ \ {"untracked"}])
(* A bare clone has no branches of the remote to update.                   *)
FetchRepo ==
    /\ At("fetch")
    /\ IF dest = Missing THEN Refuse ELSE Reads("switch", [now EXCEPT !.fetched = actual.remote])

Checkout(place, d) == Step(place, [actual EXCEPT !.dest = d], now, run.changed)
(* HEAD is whatever branch is checked out; a name is a branch if the       *)
(* remote says so.                                                         *)
SwitchVersion ==
    /\ At("switch")
    /\ IF dest = Missing THEN Refuse
       ELSE IF t.bare THEN Goto("after")
       ELSE IF t.version = "HEAD"
            THEN \/ Fails("branch", "submodules")
                 \/ Goto(IF dest.branch = "" \/ Head(dest) = NoCommit THEN "submodules" ELSE "ancestor")
       ELSE IF t.version = "sha" THEN Goto("version")
       ELSE Goto("branch") \/ Fails("remote", "version")
(* git refuses to check out over somebody's work that is in its way, and   *)
(* makes a branch that does not exist from the one that was fetched.       *)
InTheWay == dest.dirty # {} /\ Refuse
Made(b) == [dest EXCEPT !.branch = b, !.heads[b] = IF @ = NoCommit THEN now.fetched[b] ELSE @]
(* A local branch is checked out and moved to the remote's.                *)
CheckoutBranch ==
    /\ At("branch")
    /\ IF dest = Missing THEN Refuse
       ELSE \/ InTheWay
            \/ Checkout(IF dest.heads[t.version] = NoCommit THEN "submodules" ELSE "ancestor",
                        Made(t.version))
CheckoutVersion ==
    /\ At("version")
    /\ IF dest = Missing THEN Refuse
       ELSE \/ InTheWay
            \/ Checkout("submodules", IF t.version = "sha" THEN [dest EXCEPT !.branch = "", !.commit = First]
                                      ELSE Made(t.version))
ResetAnyway ==   \* mutant
    At("ancestor") /\ Goto("reset")
(* Commits that the remote does not have are kept, unless by force.        *)
CheckAncestor ==
    /\ At("ancestor")
    /\ IF dest = Missing THEN Refuse
       ELSE IF dest.branch = "" THEN Refuse
       ELSE IF t.force \/ IsAncestor(Head(dest), now.fetched[dest.branch]) THEN Goto("reset") ELSE Refuse
ResetToRemoteBranch ==
    /\ At("reset")
    /\ IF dest = Missing THEN Refuse
       ELSE IF dest.branch = "" THEN Refuse
       ELSE Checkout("submodules", [dest EXCEPT !.heads[dest.branch] = now.fetched[dest.branch],
                                                !.dirty = @ \ {"edited"}])
(* An empty repository has no submodules.                                  *)
UpdateSubmodules ==
    /\ At("submodules")
    /\ IF ~t.recursive THEN Goto("after")
       ELSE IF dest = Missing THEN Refuse
       ELSE Checkout("after", [dest EXCEPT !.submodules = @ \/ Head(dest) # NoCommit])

-----------------------------------------------------------------------------
(* git clone makes the repository and then fills it.  If it fails it       *)
(* removes it; if it is killed it cannot.                                  *)
Empty(shape) ==
    [shape |-> shape, url |-> "task", branch |-> Version("HEAD"), dirty |-> {},
     heads |-> [b \in Branches |-> NoCommit], commit |-> NoCommit, submodules |-> FALSE]
Clone ==
    /\ At("clone")
    /\ IF dest # Missing THEN Refuse
       ELSE Checkout("cloning",
                     Empty(IF t.bare THEN "bare" ELSE IF t.separate THEN "separate" ELSE "plain"))
FinishClone ==
    /\ At("cloning")
    /\ IF dest = Missing THEN Refuse
       ELSE LET b == Version(IF t.version = "sha" THEN "HEAD" ELSE t.version) IN
            Changes(IF t.version = "sha" THEN "pin" ELSE IF t.bare THEN "after" ELSE "submodules",
                [actual EXCEPT !.dest.branch = b, !.dest.heads[b] = actual.remote[b],
                               !.dest.submodules = t.recursive])
CloneFails ==
    /\ At("cloning")
    /\ actual' = [actual EXCEPT !.dest = Missing] /\ Ends("failed", FALSE) /\ memo' = NoMemo
Pin ==
    /\ At("pin")
    /\ IF dest = Missing THEN Refuse
       ELSE Checkout(IF t.bare THEN "after" ELSE "submodules",
                     [dest EXCEPT !.branch = "", !.commit = First])

(* An answer that rests on a failure nobody noticed promises nothing.      *)
Answered(head) ==
    /\ Ends("ok", run.changed \/ now.before # head)
    /\ memo' = [forecast |-> "none", settled |-> ~run.disturbed /\ now.failed = {}]
    /\ UNCHANGED actual
Finish ==
    \/ At("after") /\ (Answered(Head(dest)) \/ Fails("after", "blind"))
    \/ At("blind") /\ Answered(NoCommit)
CallError ==
    CallFails({"url", "resethard", "fetch", "branch", "version", "ancestor", "reset", "submodules",
               "clone", "pin"})

(* Somebody works in the checkout, removes it or moves it; the remote gets *)
(* commits, or is written anew.                                            *)
Outside ==
    \/ \E m \in Mains : Interferes([actual EXCEPT !.remote["main"] = m])
    \/ /\ dest # Missing /\ dest.shape # "bare"
       /\ \E w \in Work : Interferes([actual EXCEPT !.dest.dirty = @ \union {w}])
    \/ dest # Missing /\ dest.shape # "bare" /\ dest.branch # "" /\ Head(dest) = 2
          /\ Interferes([actual EXCEPT !.dest.heads[dest.branch] = Local])
    \/ Interferes([actual EXCEPT !.dest = Missing])
    \/ dest # Missing /\ Interferes([actual EXCEPT !.dest.url = "other"])

Steps ==
    \/ Look \/ SetRemoteURL \/ HasLocalMods \/ ResetHard \/ Clean \/ FetchRepo \/ SwitchVersion
    \/ CheckoutBranch \/ CheckoutVersion \/ CheckAncestor \/ ResetToRemoteBranch \/ UpdateSubmodules \/ Clone \/ FinishClone
    \/ CloneFails \/ Pin \/ Finish
Init == InitRuns([remote : {[main |-> 2, dev |-> 3]}, dest : {Missing}], Tasks)
Next == Start \/ Steps \/ CallError \/ Killed \/ (Undisturbed /\ Outside)
Spec == Init /\ [][Next]_vars

-----------------------------------------------------------------------------
(* HEAD is the branch that is checked out, if one is; the branches of the  *)
(* repository are at different commits and it has no submodules.           *)
Satisfied(task, h) ==
    LET d == h.dest IN
    IF d = Missing THEN ~task.clone
    ELSE task.update /\ ~task.bare /\ (task.clone \/ d.shape = "plain") =>
            /\ d.url = "task" /\ d.dirty = {}
            /\ task.version \in Branches => d.branch = task.version /\ Head(d) = h.remote[task.version]
            /\ task.version = "sha" => Head(d) = First
            /\ task.version = "HEAD" /\ d.branch # "" /\ Head(d) # NoCommit =>
                  Head(d) = h.remote[d.branch]

(* The queries of the run that failed without being noticed.               *)
Misled == ~Idle /\ now.failed # {}

(* A task that succeeded changes nothing the next time.                    *)
Idempotent == ~Misled => Unchanging

(* Without force no step of a run loses somebody's work: never a commit    *)
(* that the remote does not have, nor a file that git does not know, and   *)
(* an edit only if git status failed (executor.go:394).                    *)
KeepsWork ==
    ~Idle /\ ~t.force /\ ~run.disturbed /\ ~run'.disturbed /\ dest # Missing /\ actual'.dest # Missing =>
      /\ dest.dirty \ actual'.dest.dirty \subseteq (IF "status" \in now.failed THEN {"edited"} ELSE {})
      /\ \A b \in Branches : dest.heads[b] = Local => actual'.dest.heads[b] = Local

(* A run that was killed, or that failed, leaves a repository with which   *)
(* the next one succeeds: without force, unless somebody worked there.     *)
Recovers ==
    Answers /\ ~run.disturbed /\ run'.reply = "refused" =>
      dest # Missing /\ (dest.dirty # {} \/ ~IsRepo
         \/ \E b \in Branches : dest.heads[b] # NoCommit /\ ~IsAncestor(dest.heads[b], actual.remote[b]))
=============================================================================

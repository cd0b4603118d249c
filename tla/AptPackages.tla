---------------------------- MODULE AptPackages -----------------------------
(***************************************************************************)
(* The module apt: the package lists are refreshed, and packages installed,*)
(* removed and upgraded by apt-get, whose summary is all that says whether *)
(* anything was upgraded.                                                  *)
(***************************************************************************)
EXTENDS ModuleRuns, FiniteSets, FiniteSetsExt, Integers

CONSTANTS
    Packages,
    Needs,     \* the packages a package depends on
    Weight,    \* how many packages a name stands for in the summary
    Tasks

Requests ==
    [packages : SUBSET Packages, state : {"present", "absent", "latest"}, update : BOOLEAN,
     valid : BOOLEAN, purge : BOOLEAN, upgrade : BOOLEAN, autoremove : BOOLEAN]

TaskAssumption ==
    /\ Needs \in [Packages -> SUBSET Packages] /\ Weight \in [Packages -> Nat \ {0}]
    /\ Tasks \subseteq Requests

(* dpkg: half is unpacked or half removed, config removed but not purged.  *)
PackageStates == {"absent", "config", "half", "old", "new"}
Installed == {"old", "new"}
(* published: the version of the archive; lists: the one that the package  *)
(* lists know; young: the stamp, the package cache, the directory of the   *)
(* lists or a list is younger than cache_valid_time; auto: the packages    *)
(* that came with others.                                                  *)
Hosts ==
    [pkg : [Packages -> PackageStates], published : Installed, lists : Installed \union {"none"},
     young : BOOLEAN, auto : SUBSET Packages]
(* todo: what apt-get is asked for; goal: what it makes of the packages;   *)
(* says: its summary tells of a change.                                    *)
Reading == [todo : SUBSET Packages, goal : [Packages -> PackageStates], auto : SUBSET Packages,
            says : BOOLEAN]
Nothing == [todo |-> {}, goal |-> [p \in Packages |-> "absent"], auto |-> {}, says |-> FALSE]
Places == {"cache", "update", "query", "plan", "get"}

TypeOK ==
    /\ actual \in Hosts /\ memo \in Memos
    /\ run \in RunStates(Tasks, Places, Reading)
    /\ ~Checking

t == run.task
now == run.read
pkg == actual.pkg
Present == {p \in Packages : pkg[p] \in Installed}

-----------------------------------------------------------------------------
(* Not in check mode, which apt does not have.                             *)
Start == \E task \in Tasks : Begin(task, "apply", IF task.update THEN "cache" ELSE "query", Nothing)

(* The newest of them counts, and it says nothing of what the lists know.  *)
AptCacheIsFresh == actual.young
CheckCache == At("cache") /\ IF t.valid /\ AptCacheIsFresh THEN Goto("query") ELSE Goto("update")
(* apt-get update succeeds also when it got only some of the lists.        *)
UpdateCache ==
    /\ At("update")
    /\ \E known \in {actual.published, actual.lists} \ {"none"} :
          Changes("query", [actual EXCEPT !.lists = known, !.young = TRUE])

IsInstalled(p) == pkg[p] \in Installed
Asked ==
    CASE t.state = "present" -> {p \in t.packages : ~IsInstalled(p)}
      [] t.state = "absent" -> {p \in t.packages : IsInstalled(p)}
      [] OTHER -> t.packages
(* Packages come before an upgrade, and both before autoremove, for which  *)
(* a task that refreshes the lists has no time.                            *)
Query ==
    /\ At("query")
    /\ IF t.packages # {}
       THEN IF Asked = {} THEN Answer(run.changed) ELSE Reads("plan", [now EXCEPT !.todo = Asked])
       ELSE IF t.upgrade \/ (t.autoremove /\ ~t.update) THEN Goto("plan")
       ELSE IF t.update THEN Answer(run.changed) ELSE Refuse

Needed(S) == S \union UNION {Needs[p] : p \in S}
Unneeded == {p \in actual.auto \cap Present : \A s \in Present : p \notin Needs[s]}
Upgrades == IF actual.lists = "new" THEN {p \in Present : pkg[p] = "old"} ELSE {}
(* What a call of apt-get comes to: the packages that go to another state. *)
ToInstall == IF t.packages # {} /\ t.state = "present" THEN Needed(now.todo) \ Present ELSE {}
ToUpgrade ==
    IF t.packages = {} THEN (IF t.upgrade THEN Upgrades ELSE {})
    ELSE IF t.state = "latest" THEN Upgrades \cap now.todo ELSE {}
ToRemove ==
    IF t.packages = {} THEN (IF t.upgrade THEN {} ELSE Unneeded)
    ELSE IF t.state = "absent" THEN {p \in Present : Needed({p}) \cap now.todo # {}} ELSE {}
Goal ==
    [p \in Packages |->
       IF p \in ToInstall THEN actual.lists
       ELSE IF p \in ToUpgrade THEN "new"
       ELSE IF p \in ToRemove THEN (IF t.purge THEN "absent" ELSE "config")
       ELSE pkg[p]]
(* "0 upgraded" is also in "10 upgraded", and "0 to remove" in others.     *)
Total(S) == MapThenSumSet(LAMBDA p : Weight[p], S)
SaysChanged ==
    IF t.packages # {} /\ t.state # "latest" THEN TRUE
    ELSE IF t.packages # {} \/ t.upgrade THEN Total(ToUpgrade) % 10 # 0
    ELSE Total(ToRemove) % 10 # 0
(* apt-get first finishes what an earlier call left half done; it does not *)
(* find a package that is in no list.                                      *)
Plan ==
    /\ At("plan")
    /\ IF \E p \in Packages : pkg[p] = "half"
       THEN \E p \in Packages :
              /\ pkg[p] = "half"
              /\ Awaited([actual EXCEPT !.pkg[p] = IF actual.lists = "new" THEN "new" ELSE "old"])
       ELSE IF actual.lists = "none" /\ (ToInstall # {} \/ (t.state = "latest" /\ now.todo \ Present # {}))
            THEN Refuse
       ELSE Reads("get", [now EXCEPT !.goal = Goal, !.says = SaysChanged,
              !.auto = (actual.auto \ (now.todo \union ToRemove)) \union (ToInstall \ now.todo)])
(* apt-get may write its package cache anew.                               *)
RunAptGet ==
    /\ At("get")
    /\ \E p \in Packages, young \in {TRUE, actual.young} :
          /\ pkg[p] # now.goal[p]
          /\ Step("get", [actual EXCEPT !.pkg[p] = IF @ = "half" THEN now.goal[p] ELSE "half",
                                        !.young = young], now, run.changed)
Finish ==
    /\ At("get") /\ pkg = now.goal
    /\ IF actual.auto # now.auto
       THEN Step("get", [actual EXCEPT !.auto = now.auto], now, run.changed)
       ELSE Answer(run.changed \/ now.says)
CallError == CallFails({"update", "plan", "get"})

(* A version is published, time goes by, and somebody removes the lists,   *)
(* or installs and removes packages, but not while apt-get holds its lock. *)
Outside ==
    \/ Interferes([actual EXCEPT !.published = "new"])
    \/ Interferes([actual EXCEPT !.young = FALSE])
    \/ ~At("get") /\ Interferes([actual EXCEPT !.lists = "none", !.young = TRUE])
    \/ /\ ~At("get")
       /\ \E p \in Packages, s \in {"absent", "config", "old"} :
             LET these == IF s = "old" THEN Needed({p}) \ Present
                          ELSE {r \in Packages : p \in Needed({r})}
             IN Interferes([actual EXCEPT !.auto = @ \ {p},
                              !.pkg = [r \in Packages |-> IF r \in these THEN s ELSE @[r]]])

Steps == CheckCache \/ UpdateCache \/ Query \/ Plan \/ RunAptGet \/ Finish
Init ==
    InitRuns([pkg : {[p \in Packages |-> "absent"]}, published : {"old"}, lists : {"none"},
              young : BOOLEAN, auto : {{}}], Tasks)
Next == Start \/ Steps \/ CallError \/ Killed \/ (Undisturbed /\ Outside)
Spec == Init /\ [][Next]_vars

-----------------------------------------------------------------------------
(* Latest and upgrade are about the version in the lists, as long as no    *)
(* summary of apt-get counts to ten.                                       *)
Satisfied(task, h) ==
    LET current(p) == h.pkg[p] = "old" => h.lists # "new" IN
    IF task.packages # {}
    THEN \A p \in task.packages :
           CASE task.state = "present" -> h.pkg[p] \in Installed
             [] task.state = "absent" -> h.pkg[p] \notin Installed
             [] OTHER -> current(p)
    ELSE IF task.upgrade THEN \A p \in Packages : current(p)
    ELSE task.autoremove /\ ~task.update =>
           \A p \in h.auto : h.pkg[p] \in Installed =>
               \E s \in Packages : p \in Needs[s] /\ h.pkg[s] \in Installed

(* Lists that are fetched anew may make the next run change something.    *)
Idempotent == (t.update => t.valid) => Unchanging
=============================================================================

---------------------------- MODULE UserAccounts ----------------------------
(***************************************************************************)
(* The modules user and group.  An account is created by one program and   *)
(* then gets its password, its lock and its SSH key by others; one that    *)
(* exists is compared with the task and changed by the same programs.  A   *)
(* run that ends in between is followed by one that finds the account.     *)
(***************************************************************************)
EXTENDS ModuleRuns, Naturals, FiniteSets

CONSTANTS
    Missing,   \* no such account or group
    Groups,    \* supplementary groups
    Tasks

(* shell: any of the settings that are compared and changed, 0 for none;   *)
(* password: the hash; gid of a group.                                     *)
Requests ==
    [kind : {"user", "group"}, state : {"present", "absent"}, shell : 0 .. 2,
     groups : SUBSET Groups, append : BOOLEAN, password : 0 .. 2,
     update : {"always", "on_create"}, lock : {"", "lock", "unlock"}, key : BOOLEAN,
     force : BOOLEAN, remove : BOOLEAN, expires : BOOLEAN, gid : 0 .. 2]

TaskAssumption == Tasks \subseteq Requests

(* The primary group of the account is the managed group or another one.   *)
Accounts ==
    [shell : 1 .. 2, groups : SUBSET Groups, password : 0 .. 2, locked : BOOLEAN,
     primary : BOOLEAN]
Keys == {"none", "roots", "users"}
Hosts == [user : Accounts \union {Missing}, key : Keys, group : 1 .. 2 \union {Missing}]
NewAccount ==
    [shell |-> 1, groups |-> {}, password |-> 0, locked |-> TRUE, primary |-> FALSE]

Snapshots == [user : Accounts \union {Missing}, group : 1 .. 2 \union {Missing}, new : BOOLEAN]
Nothing == [user |-> Missing, group |-> Missing, new |-> FALSE]
Places == {"look", "decide", "useradd", "usermod", "password", "lock", "key", "keygen", "chown",
           "answer"}

TypeOK ==
    /\ actual \in Hosts /\ memo \in Memos
    /\ run \in RunStates(Tasks, Places, Snapshots)
    /\ ~Checking

t == run.task
now == run.read
user == actual.user

-----------------------------------------------------------------------------
(* Neither module has a check mode.                                        *)
Start == \E task \in Tasks : Begin(task, "apply", "look", Nothing)

Look == At("look") /\ Reads("decide", [now EXCEPT !.user = user, !.group = actual.group])

(* groupadd, groupmod and groupdel; a group that is primary for an account *)
(* is removed only by force.                                               *)
ManageGroup ==
    /\ At("decide") /\ t.kind = "group"
    /\ IF t.state = "absent"
       THEN IF now.group = Missing THEN Answer(FALSE)
            ELSE IF actual.group = Missing \/ (user # Missing /\ user.primary /\ ~t.force) THEN Refuse
            ELSE Changes("answer", [actual EXCEPT !.group = Missing])
       ELSE IF now.group = Missing
       THEN IF actual.group # Missing THEN Refuse
            ELSE Changes("answer", [actual EXCEPT !.group = IF t.gid = 0 THEN 1 ELSE t.gid])
       ELSE IF t.gid \in {0, now.group} THEN Answer(FALSE)
       ELSE IF actual.group = Missing THEN Refuse
       ELSE Changes("answer", [actual EXCEPT !.group = t.gid])

(* userdel; the key goes with the home directory.                          *)
RemoveUser ==
    /\ At("decide") /\ t.kind = "user" /\ t.state = "absent"
    /\ IF now.user = Missing THEN Answer(FALSE)
       ELSE IF user = Missing THEN Refuse
       ELSE Changes("answer", [actual EXCEPT !.user = Missing,
                                             !.key = IF t.remove THEN "none" ELSE @])
DecideUser ==
    /\ At("decide") /\ t.kind = "user" /\ t.state = "present"
    /\ Goto(IF now.user = Missing THEN "useradd" ELSE "usermod")

CreateUser ==
    /\ At("useradd")
    /\ IF user # Missing THEN Refuse
       ELSE Step("password",
                 [actual EXCEPT !.user = [NewAccount EXCEPT
                     !.shell = IF t.shell = 0 THEN @ ELSE t.shell, !.groups = t.groups]],
                 [now EXCEPT !.new = TRUE], TRUE)

GroupsDiffer == IF t.append THEN ~(t.groups \subseteq now.user.groups) ELSE t.groups # now.user.groups
ShellDiffers == t.shell \notin {0, now.user.shell}
(* One call for what differed when it was looked at; an expiry date is set *)
(* each time.                                                              *)
ModifyUser ==
    /\ At("usermod")
    /\ IF ~(GroupsDiffer \/ ShellDiffers \/ t.expires) THEN Goto("password")
       ELSE IF user = Missing THEN Refuse
       ELSE Changes("password",
              [actual EXCEPT
                 !.user.shell = IF ShellDiffers THEN t.shell ELSE @,
                 !.user.groups = IF ~GroupsDiffer THEN @
                                 ELSE IF t.append THEN @ \union t.groups ELSE t.groups])

(* A new account gets the password unseen; an old one if it has another,   *)
(* and not at all with on_create.                                          *)
SetPassword ==
    /\ At("password")
    /\ IF \/ t.password = 0
          \/ ~now.new /\ (t.update = "on_create" \/ (user # Missing /\ user.password = t.password))
       THEN Goto("lock")
       ELSE IF user = Missing THEN Refuse
       ELSE Changes("lock", [actual EXCEPT !.user.password = t.password, !.user.locked = FALSE])

(* An account that is gone counts as not locked; one without a password    *)
(* cannot be unlocked.                                                     *)
SetPasswordLock ==
    /\ At("lock")
    /\ LET locked == user # Missing /\ user.locked IN
       IF t.lock = "" \/ (~now.new /\ locked = (t.lock = "lock")) THEN Goto("key")
       ELSE IF user = Missing \/ (t.lock = "unlock" /\ user.password = 0) THEN Refuse
       ELSE Changes("key", [actual EXCEPT !.user.locked = (t.lock = "lock")])

(* A key that exists is kept, unless by force.                             *)
GenerateSSHKey ==
    /\ At("key")
    /\ IF ~t.key THEN Goto("answer")
       ELSE IF user = Missing THEN Refuse
       ELSE IF actual.key # "none" /\ ~t.force THEN Goto("answer")
       ELSE Step("keygen", [actual EXCEPT !.key = "none"], now, run.changed)
Keygen ==
    /\ At("keygen")
    /\ IF actual.key # "none" THEN Refuse ELSE Changes("chown", [actual EXCEPT !.key = "roots"])
ChownKey ==
    /\ At("chown")
    /\ IF actual.key = "none" THEN Refuse
       ELSE Step("answer", [actual EXCEPT !.key = "users"], now, run.changed)

Finish == At("answer") /\ Answer(run.changed)
CallError == CallFails(Places \ {"answer"})

(* Others manage accounts, too.                                            *)
Outside ==
    \/ \E g \in SUBSET Groups :
          Interferes([actual EXCEPT !.user =
                        [NewAccount EXCEPT !.groups = g, !.shell = 2, !.primary = TRUE]])
    \/ Interferes([actual EXCEPT !.user = Missing])
    \/ user # Missing /\ \E p \in 1 .. 2 :
          Interferes([actual EXCEPT !.user.password = p, !.user.locked = FALSE])
    \/ user # Missing /\ Interferes([actual EXCEPT !.user.locked = TRUE])
    \/ \E g \in 1 .. 2 \union {Missing} : Interferes([actual EXCEPT !.group = g])

Steps ==
    \/ Look \/ ManageGroup \/ RemoveUser \/ DecideUser \/ CreateUser \/ ModifyUser \/ SetPassword
    \/ SetPasswordLock \/ GenerateSSHKey \/ Keygen \/ ChownKey \/ Finish
Init == InitRuns({[user |-> Missing, key |-> "none", group |-> Missing]}, Tasks)
Next == Start \/ Steps \/ CallError \/ Killed \/ (Undisturbed /\ Outside)
Spec == Init /\ [][Next]_vars

-----------------------------------------------------------------------------
Satisfied(task, h) ==
    IF task.kind = "group"
    THEN IF task.state = "absent" THEN h.group = Missing
         ELSE h.group # Missing /\ task.gid \in {0, h.group}
    ELSE IF task.state = "absent" THEN h.user = Missing
    ELSE /\ h.user # Missing
         /\ task.shell \in {0, h.user.shell}
         /\ IF task.append THEN task.groups \subseteq h.user.groups ELSE h.user.groups = task.groups
         /\ task.update = "always" => task.password \in {0, h.user.password}
         /\ task.lock # "" => (h.user.locked <=> task.lock = "lock")
         /\ task.key => h.key # "none"

(* A task that succeeded changes nothing the next time, unless it makes a  *)
(* new key by force.                                                       *)
Idempotent == (t.key => ~t.force) /\ ~t.expires => Unchanging

(* A password that is to be set only when the account is created is never  *)
(* set for an account that existed, whatever failed before.                *)
OnlyOnCreate ==
    ~Idle /\ run'.touched /\ ~run'.disturbed /\ t.update = "on_create" /\ user # Missing
      /\ actual'.user # Missing /\ actual'.user.password # user.password => now.new

(* A task never takes a group away that it appends to.                     *)
Appends ==
    ~Idle /\ run'.touched /\ ~run'.disturbed /\ t.append /\ user # Missing /\ actual'.user # Missing
      => user.groups \subseteq actual'.user.groups
=============================================================================

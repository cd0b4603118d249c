----------------------------- MODULE SwarmData -----------------------------
(***************************************************************************)
(* The docker_config module (docker_secret is the same code without        *)
(* templates).  A config cannot be changed: it is replaced, or, with       *)
(* rolling versions, a new one is created beside it and old ones pruned.   *)
(* The data cannot always be read back, so its digest is kept in a label.  *)
(***************************************************************************)
EXTENDS ModuleRuns, Integers, FiniteSets, FiniteSetsExt

CONSTANTS
    Data,        \* digests of data
    Labels,
    MaxVersion,  \* a bound on rolling versions
    Hosts,       \* the states to start from
    Tasks

Requests ==
    [state : {"present", "absent"}, rolling : BOOLEAN, data : Data, template : BOOLEAN,
     labels : SUBSET Labels, force : BOOLEAN, keep : Int]

TaskAssumption == Tasks \subseteq Requests /\ MaxVersion \in Nat

(* The configs of a swarm that matter: the one of the plain name, its      *)
(* versions (name_v1, ...), and one of somebody else whose name only       *)
(* begins like that of a version (name_vault).  The engine lists them in   *)
(* this order.  numbered: it has the label that says which version it is.  *)
Numbers == 1 .. MaxVersion
ConfigNames == 0 .. MaxVersion + 1
Plain == 0
Other == MaxVersion + 1
NoKey == "nokey"
Configs == [key : Data \union {NoKey}, template : BOOLEAN, labels : SUBSET Labels,
            used : BOOLEAN, numbered : BOOLEAN]

(* todo: the configs that were listed; numbered: those of them that are.   *)
Nothing == [todo |-> {}, numbered |-> {}, then |-> "answer", version |-> 0]
Snapshots == [todo : SUBSET ConfigNames, numbered : SUBSET ConfigNames,
              then : {"create", "answer"}, version : 0 .. MaxVersion]
Places == {"list", "remove", "create", "prune", "answer"}

TypeOK ==
    /\ \A n \in DOMAIN actual : n \in ConfigNames /\ actual[n] \in Configs
    /\ memo \in Memos /\ run \in RunStates(Tasks, Places, Snapshots)
    /\ At("create") /\ ~run.task.rolling => run.read.todo = {}

t == run.task
now == run.read
Without(n) == [m \in DOMAIN actual \ {n} |-> actual[m]]
With(n, c) == [m \in DOMAIN actual \union {n} |-> IF m = n THEN c ELSE actual[m]]

-----------------------------------------------------------------------------
(* getConfigs: with rolling versions, whatever begins like one.            *)
Listed(task, store) ==
    DOMAIN store \intersect (IF task.rolling THEN ConfigNames \ {Plain} ELSE {Plain})

(* Those without the label have version 0 and come first.                  *)
Numbered(store) == {n \in DOMAIN store : store[n].numbered}
FirstListed(names, numbered) == Min(names)   \* mutant
Oldest(names, numbered) == Min(IF names \subseteq numbered THEN names ELSE names \ numbered)
Newest(names, numbered) ==
    Max(IF names \cap numbered = {} THEN names ELSE names \cap numbered)
VersionOf(n, numbered) == IF n \in numbered THEN n ELSE 0

DiffersWhenKnown(task, c) ==   \* mutant
    c.key # NoKey /\ (c.key # task.data \/ ~(task.labels \subseteq c.labels))
Differs(task, c) ==
    \/ c.key # NoKey /\ c.key # task.data
    \/ c.template # task.template
    \/ ~(task.labels \subseteq c.labels)

Start ==
    \E task \in Tasks, mode \in {"check", "apply"} : Begin(task, mode, "list", Nothing)

ListAbsent ==
    /\ At("list") /\ t.state = "absent"
    /\ LET old == Listed(t, actual) IN
       IF Checking THEN Step("answer", actual, now, old # {})
       ELSE Reads("remove", [now EXCEPT !.todo = old])

(* present: the newest one decides; a plain one is removed before it is    *)
(* created again.                                                          *)
ListPresent ==
    /\ At("list") /\ t.state = "present"
    /\ LET old == Listed(t, actual)
           numbered == old \cap Numbered(actual)
           current == Newest(old, numbered)
           version == IF old # {} /\ t.rolling THEN VersionOf(current, numbered) ELSE 0
           create == old = {} \/ t.force \/ Differs(t, actual[current])
       IN IF Checking THEN Step("answer", actual, now, create)
          ELSE Reads(IF ~create THEN "prune" ELSE IF t.rolling THEN "create" ELSE "remove",
                     [todo |-> old, numbered |-> numbered, then |-> "create", version |-> version])

(* absent and removeConfig: one after the other, none may be in use.       *)
RemoveConfig ==
    /\ At("remove")
    /\ \E n \in now.todo :
          /\ n \in DOMAIN actual /\ ~actual[n].used
          /\ Step("remove", Without(n), [now EXCEPT !.todo = @ \ {n}], TRUE)
AllRemoved == At("remove") /\ now.todo = {} /\ Goto(now.then)

(* createConfig; the engine refuses a second config of a name.             *)
Created == IF t.rolling THEN now.version + 1 ELSE Plain
CreateConfig ==
    /\ At("create")
    /\ LET v == Created IN
       /\ v <= MaxVersion /\ v \notin DOMAIN actual
       /\ Step("prune",
               With(v, [key |-> t.data, template |-> t.template,
                        labels |-> t.labels, used |-> FALSE, numbered |-> t.rolling]),
               [now EXCEPT !.todo = @ \union {v}, !.numbered = @ \union {v}], TRUE)

(* removeOldVersions: oldest first, as they were listed; at least one is   *)
(* kept.  It is not reported, so for ModuleContract others might have done *)
(* it.                                                                     *)
Excess == t.rolling /\ t.keep >= 0 /\ Cardinality(now.todo) > Max({t.keep, 1})
PruneOldVersion ==
    /\ At("prune") /\ Excess
    /\ LET n == Oldest(now.todo, now.numbered) IN
       /\ n \in DOMAIN actual /\ ~actual[n].used
       /\ actual' = Without(n) /\ memo' = NoMemo
       /\ run' = [run EXCEPT !.read.todo = @ \ {n}]
Pruned == At("prune") /\ ~Excess /\ Goto("answer")

(* The engine refuses to remove a config that is used or gone, and to      *)
(* create one whose name is taken.                                         *)
EngineRefuses ==
    /\ \/ At("remove") /\ \E n \in now.todo : n \in DOMAIN actual => actual[n].used
       \/ At("create") /\ Created <= MaxVersion /\ Created \in DOMAIN actual
       \/ /\ At("prune") /\ Excess
          /\ LET n == Oldest(now.todo, now.numbered) IN n \in DOMAIN actual => actual[n].used
    /\ Refuse

Finish == At("answer") /\ Answer(run.changed)

CallError == CallFails(Places)

(* Services come to use a config; others remove configs and create some    *)
(* that lack the labels of this module: one that is not a version, and the *)
(* last version.                                                           *)
Outside ==
    \/ \E n \in DOMAIN actual :
          \/ n # Other /\ Interferes([actual EXCEPT ![n].used = ~@])
          \/ ~actual[n].used /\ Interferes(Without(n))
    \/ \E n \in {Other, MaxVersion} \ DOMAIN actual :
          Interferes(With(n, [key |-> NoKey, template |-> FALSE, labels |-> {}, used |-> FALSE,
                            numbered |-> FALSE]))

Steps ==
    \/ ListAbsent \/ ListPresent \/ RemoveConfig \/ AllRemoved \/ CreateConfig
    \/ PruneOldVersion \/ Pruned \/ EngineRefuses \/ Finish

Init == InitRuns(Hosts, Tasks)
Next == Start \/ Steps \/ CallError \/ Killed \/ (Undisturbed /\ Outside)
Spec == Init /\ [][Next]_vars

-----------------------------------------------------------------------------
(* The state a task asks for.  A config without the digest label counts as *)
(* one with the right data (executor_test.go:292).                         *)
Satisfied(task, store) ==
    LET old == Listed(task, store) IN
    IF task.state = "absent" THEN old = {}
    ELSE /\ old # {}
         /\ LET c == store[Newest(old, Numbered(store))] IN
            /\ c.key \in {NoKey, task.data} /\ c.template = task.template
            /\ task.labels \subseteq c.labels

(* A check run of docker_config announces what the real run then does.     *)
Predicts == Foretold

(* Applying a task again changes nothing, unless it is forced.             *)
Idempotent == t.state = "absent" \/ ~t.force => Unchanging

(* A failed run leaves nothing that stops the next one, while no service   *)
(* uses the config, and nobody has created one by the name of a version    *)
(* without its number: when that is the next version every run is refused. *)
Recovers ==
    (\A n \in DOMAIN actual : ~actual[n].used /\ (n \in Numbers => actual[n].numbered)) => Recovering

(* With rolling versions a task that asks for a config never leaves the    *)
(* swarm without one, not for a moment and not if it fails                 *)
(* (docker_config/executor.go:280).                                        *)
NeverWithout ==
    ~Idle /\ ~run.disturbed /\ ~run'.disturbed /\ t.rolling /\ t.state = "present"
    /\ Listed(t, actual) # {} => Listed(t, actual') # {}
=============================================================================

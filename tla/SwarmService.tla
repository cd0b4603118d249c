---------------------------- MODULE SwarmService ----------------------------
(***************************************************************************)
(* The docker_swarm_service module: creates, updates, rebuilds or removes  *)
(* a service of the swarm.  An update names the version of the inspection  *)
(* it was computed from; when the managers refuse it as out of sequence,   *)
(* the whole run is done again.                                            *)
(***************************************************************************)
EXTENDS ModuleRuns, Integers, Sequences, FiniteSets

CONSTANTS
    Fields,    \* options of a service,
    Kind,      \* how each of them is compared with what a task gives,
    Settings,  \* and what each may be set to
    Groups,    \* options that the code writes together
    Variables, \* the names and
    Words,     \* values of an environment
    Targets,   \* ports of the containers and
    Published, \* of the nodes; 0 is for the swarm to choose
    Found,     \* services of others that are there at the start,
    Shared,    \* bound: options that others set as well
    Missing,   \* no service, no file
    Omitted,   \* not given
    Default,   \* what the engine makes of an attribute that is omitted,
    Empty,     \* an empty value of a label
    Retries,   \* of a run that was out of sequence (executor.go:15)
    Tasks

(* An option is a list, a text of one word, a number of one digit, or maps *)
(* names to attributes: labels, mounts, references, networks.              *)
Unset == <<>>   \* no list, no text, the number 0, no names
Kinds == {"plain", "user", "limit", "set", "map", "items", "dict"}
AllOmitted(given) == \A k \in DOMAIN given : given[k] = Omitted
(* writeSpecified: how a setting arrives at the managers.                  *)
Sent(f, given) ==
    IF Kind[f] = "dict" /\ AllOmitted(given) THEN Unset
    ELSE IF Kind[f] \notin {"items", "dict"} THEN given
    ELSE [k \in DOMAIN given |-> IF given[k] = Omitted THEN Default ELSE given[k]]
FieldValues == {Unset} \union {Sent(f, v) : f \in Fields, v \in UNION {Settings[g] : g \in Fields}}
Given == {Omitted, Unset} \union UNION {Settings[f] : f \in Fields}
Envs == UNION {[D -> Words] : D \in SUBSET Variables}
Digests == 1 .. 2
Modes == {"replicated", "global", "replicated-job"}

(* image 0, replicas -1 and health "keep" stand for options that are left  *)
(* out; clear is a health check without a test, none the test NONE; file:  *)
(* the environment is read from a file as well.  Arguments that do not     *)
(* parse, or name a network that is not there, are not valid.              *)
Requests ==
    [state : {"present", "absent"}, image : 0 .. 2, resolve : BOOLEAN, mode : Modes,
     replicas : -1 .. 2, fields : [Fields -> Given], health : {"keep", "clear", "none", "test"},
     env : Envs \union {Omitted}, file : BOOLEAN,
     ports : {Omitted} \union UNION {[D -> Published \union {Omitted}] : D \in SUBSET Targets},
     secret : BOOLEAN, force : BOOLEAN, valid : BOOLEAN]

(* The service, the digest the registry has for the images, the identity   *)
(* of the secret with the name the tasks use (0: there is none), which     *)
(* stands for configs as well, and the file with an environment.           *)
Services ==
    [image : 0 .. 2, digest : 0 .. 2, mode : Modes \union {"global-job"}, replicas : -1 .. 2,
     fields : [Fields -> FieldValues], health : {"unset", "none", "test"}, env : Envs,
     ports : UNION {[D -> Published] : D \in SUBSET Targets}, secret : 0 .. 2]
Swarms ==
    [service : Services \union {Missing}, digest : Digests, secret : 0 .. 2,
     file : Envs \union {Missing}]

(* Only a service that runs on every node is without a number.             *)
TaskAssumption ==
    /\ Tasks \subseteq Requests /\ Retries \in Nat /\ Kind \in [Fields -> Kinds]
    /\ Found \subseteq Services /\ UNION Groups \subseteq Fields /\ Shared \subseteq Fields
    /\ Targets \subseteq Nat /\ Published \subseteq Nat /\ 0 \in Published
    /\ Missing \notin Services /\ Missing \notin Given
    /\ \A s \in Found : s.replicas = -1 <=> s.mode \in {"global", "global-job"}

Nothing ==
    [digest |-> 0, secret |-> 0, found |-> Missing, env |-> Unset, retries |-> Retries,
     fresh |-> FALSE]
Snapshots ==
    [digest : 0 .. 2, secret : 0 .. 2, found : Services \union {Missing}, env : Envs,
     retries : 0 .. Retries, fresh : BOOLEAN]
Places == {"digest", "inspect", "references", "parse", "decide", "create", "update", "replace",
           "remove", "answer"}

TypeOK ==
    /\ actual \in Swarms /\ memo \in Memos
    /\ run \in RunStates(Tasks, Places, Snapshots)
    /\ run.at \in {"create", "update", "replace", "remove"} => ~Checking

t == run.task
now == run.read
Exists == actual.service # Missing

-----------------------------------------------------------------------------
(* What the task makes of a service.                                       *)

Bare == [image |-> 0, digest |-> 0, mode |-> "replicated", replicas |-> 1,
         fields |-> [f \in Fields |-> Unset], health |-> "unset", env |-> Unset,
         ports |-> Unset, secret |-> 0]

GivenBy(task) == {f \in Fields : task.fields[f] # Omitted}
(* resolveReplicas: as many as the task says, or as there are, or one.  A  *)
(* global service has no number.                                           *)
ReplicasOf(task, found) ==
    IF task.mode = "global" THEN -1
    ELSE IF task.replicas # -1 THEN task.replicas
    ELSE IF found = Missing THEN 1 ELSE found.replicas
(* The engine runs one replica of a service that is sent without a number. *)
ReplicasWritten(task, found) ==
    IF task.mode # "global" /\ ReplicasOf(task, found) = -1 THEN 1 ELSE ReplicasOf(task, found)

(* getDockerEnvironment: what the file says, and the task over it.         *)
EnvGiven(task) == task.env # Omitted \/ task.file
EnvOf(task, file) ==
    LET given == IF task.env = Omitted THEN Unset ELSE task.env
        base == IF task.file THEN file ELSE Unset
    IN  [k \in DOMAIN given \union DOMAIN base |-> IF k \in DOMAIN given THEN given[k] ELSE base[k]]

HealthWritten(task, health) ==
    CASE task.health = "keep" -> health [] task.health = "clear" -> "unset"
      [] OTHER -> task.health
(* A disabled check is not compared with a service that has none of its own.*)
HealthDiffers(task, health) ==
    CASE task.health = "keep" -> FALSE [] task.health = "clear" -> health # "unset"
      [] task.health = "none" -> health = "test" [] OTHER -> health # "test"

(* DNS, log driver and restart policy are written whole: an option of the  *)
(* group resets the others.                                                *)
Together(f) == UNION {g \in Groups : f \in g}
FieldsWritten(task, fields) ==
    [f \in Fields |-> IF f \in GivenBy(task) THEN Sent(f, task.fields[f])
                      ELSE IF GivenBy(task) \cap Together(f) # {} THEN Unset
                      ELSE fields[f]]
PublishedAs(p) == IF p = Omitted THEN 0 ELSE p
PortsWritten(task, ports) ==
    IF task.ports = Omitted THEN ports
    ELSE [p \in DOMAIN task.ports |-> PublishedAs(task.ports[p])]
Written(task, read, base) ==
    [image |-> IF task.image # 0 THEN task.image ELSE base.image,
     digest |-> IF task.image # 0 THEN read.digest ELSE base.digest,
     mode |-> task.mode, replicas |-> ReplicasWritten(task, read.found),
     fields |-> FieldsWritten(task, base.fields), health |-> HealthWritten(task, base.health),
     env |-> IF EnvGiven(task) THEN read.env ELSE base.env,
     ports |-> PortsWritten(task, base.ports),
     secret |-> IF task.secret THEN read.secret ELSE base.secret]

-----------------------------------------------------------------------------
(* How it is compared with the service that was found.                     *)

(* hasListChanged: one by one, after both are sorted.                      *)
Times(list, e) == Cardinality({i \in DOMAIN list : list[i] = e})
SameElements(list, other) ==
    Len(list) = Len(other) /\ \A i \in DOMAIN list : Times(list, list[i]) = Times(other, list[i])
(* mapsEqual: a label that is missing is taken for one with an empty value. *)
MapsEqual(left, right) ==
    /\ Cardinality(DOMAIN left) = Cardinality(DOMAIN right)
    /\ \A k \in DOMAIN left : left[k] = IF k \in DOMAIN right THEN right[k] ELSE Empty
(* hasDictChanged: only the attributes that are given are compared.        *)
Agree(given, active) ==
    \A k \in DOMAIN given : given[k] = Omitted \/ (k \in DOMAIN active /\ given[k] = active[k])
ItemsDiffer(given, active) == DOMAIN given # DOMAIN active \/ ~Agree(given, active)
(* serviceFromInspect: a limit of 0 is read as none.                       *)
Seen(f, active) == IF Kind[f] = "limit" /\ active = Unset THEN Missing ELSE active
FieldDiffers(f, given, active) ==
    CASE Kind[f] = "user" -> given \notin {Unset, active}
      [] Kind[f] = "set" -> ~SameElements(given, active)
      [] Kind[f] = "map" -> ~MapsEqual(given, active)
      [] Kind[f] = "items" -> ItemsDiffer(given, active)
      [] Kind[f] = "dict" -> active = Unset \/ ~Agree(given, active)
      [] OTHER -> given # Seen(f, active)
FieldsDiffer(task, fields) ==
    \E f \in GivenBy(task) : FieldDiffers(f, task.fields[f], fields[f])

(* hasPublishChanged: pair by pair, in the order of the published ports    *)
(* and then of the others; one the task leaves open is not compared.       *)
Before(ports, p, q) ==
    \/ PublishedAs(ports[p]) < PublishedAs(ports[q])
    \/ PublishedAs(ports[p]) = PublishedAs(ports[q]) /\ p < q
PortsDiffer(given, active) ==
    \/ ItemsDiffer(given, active)
    \/ \E p \in DOMAIN given, q \in DOMAIN given : Before(given, p, q) # Before(active, p, q)

(* hasImageChanged: an image without a digest matches every digest.        *)
ImageDiffers(task, read, service) ==
    task.image # service.image \/ read.digest \notin {0, service.digest}
Differs(task, read, service) ==
    \/ task.image # 0 /\ ImageDiffers(task, read, service)
    \/ task.mode # service.mode \/ ReplicasOf(task, read.found) # service.replicas
    \/ FieldsDiffer(task, service.fields)
    \/ HealthDiffers(task, service.health)
    \/ EnvGiven(task) /\ read.env # service.env
    \/ task.ports # Omitted /\ PortsDiffer(task.ports, service.ports)
    \/ task.secret /\ read.secret # service.secret

-----------------------------------------------------------------------------
Start ==
    \E task \in Tasks, mode \in {"check", "apply"} : Begin(task, mode, "digest", Nothing)

Digest ==
    /\ At("digest")
    /\ Reads("inspect",
             [now EXCEPT !.digest = IF t.image # 0 /\ t.resolve THEN actual.digest ELSE 0])
(* serviceFromInspect: a mode that is not known is refused.                *)
Inspect ==
    /\ At("inspect")
    /\ IF Exists /\ actual.service.mode \notin Modes THEN Refuse
       ELSE Reads("references", [now EXCEPT !.found = actual.service, !.fresh = TRUE])
(* secretIDs, configIDs: every name has to exist, also for state absent;   *)
(* and so it is with what desiredService parses, and the file it reads.    *)
References ==
    /\ At("references")
    /\ IF t.secret /\ actual.secret = 0 THEN Refuse
       ELSE Reads("parse", [now EXCEPT !.secret = actual.secret])
Parse ==
    /\ At("parse")
    /\ IF ~t.valid \/ (t.file /\ actual.file = Missing) THEN Refuse
       ELSE Reads("decide", [now EXCEPT !.env = EnvOf(t, actual.file)])

Announce(place) == IF Checking THEN Reports("answer") ELSE Goto(place)
Decide ==
    /\ At("decide")
    /\ CASE now.found = Missing /\ t.state = "absent" -> Goto("answer")
         [] now.found = Missing /\ t.state = "present" ->
              IF t.image # 0 THEN Announce("create") ELSE Refuse
         [] now.found # Missing /\ t.state = "absent" -> Announce("remove")
         [] now.found # Missing /\ t.state = "present" ->
              IF ~Differs(t, now, now.found) /\ ~t.force THEN Goto("answer")
              ELSE Announce(IF t.mode # now.found.mode THEN "replace" ELSE "update")

(* ServiceCreate: the name is free and there is an image.                  *)
Create ==
    /\ At("create") /\ ~Exists /\ t.image # 0
    /\ Changes("answer", [actual EXCEPT !.service = Written(t, now, Bare)])

Update ==
    /\ At("update") /\ Exists /\ now.fresh
    /\ Changes("answer", [actual EXCEPT !.service = Written(t, now, now.found)])

(* runSafe: everything again, but the identities read before are replaced. *)
OutOfSequence ==
    /\ At("update") /\ Exists /\ ~now.fresh
    /\ IF now.retries > 0 THEN Reads("digest", [Nothing EXCEPT !.retries = now.retries - 1])
       ELSE Refuse

(* Another mode: the service is removed and made anew from the task alone. *)
Replace == At("replace") /\ Exists /\ Step("create", [actual EXCEPT !.service = Missing], now, FALSE)
Remove == At("remove") /\ Exists /\ Changes("answer", [actual EXCEPT !.service = Missing])

EngineRefuses ==
    /\ \/ At("create") /\ (Exists \/ t.image = 0)
       \/ run.at \in {"update", "replace", "remove"} /\ ~Exists
    /\ Refuse

Finish == At("answer") /\ Answer(run.changed)

CallError ==
    \/ t.image # 0 /\ t.resolve /\ CallFails({"digest"})
    \/ CallFails({"inspect", "references", "parse", "create", "update", "replace", "remove"})

(* Others scale, change or remove the service, push an image, make the     *)
(* secret anew, write something to the file or remove it, where the task   *)
(* refers to them; a secret in use is never removed.  The swarm itself     *)
(* makes new versions.                                                     *)
OutdatedBy(a) ==
    /\ actual' = a /\ memo' = (IF a = actual THEN memo ELSE NoMemo)
    /\ run' = IF Idle THEN run
              ELSE [run EXCEPT !.disturbed = TRUE, !.read.fresh = FALSE]
Outside ==
    \/ /\ Exists
       /\ \/ OutdatedBy([actual EXCEPT !.service = Missing]) \/ OutdatedBy(actual)
          \/ /\ actual.service.mode = "replicated"
             /\ OutdatedBy([actual EXCEPT !.service.replicas = IF @ = 1 THEN 2 ELSE 1])
          \/ \E f \in Shared : \E v \in Settings[f] :
                OutdatedBy([actual EXCEPT !.service.fields[f] = Sent(f, v)])
    \/ t.resolve /\ actual.digest + 1 \in Digests /\ Interferes([actual EXCEPT !.digest = @ + 1])
    \/ /\ t.secret /\ (Exists => actual.service.secret # actual.secret)
       /\ Interferes([actual EXCEPT !.secret = IF @ = 0 THEN 2 ELSE 0])
    \/ t.file /\ \E e \in (Envs \ {Unset}) \union {Missing} : Interferes([actual EXCEPT !.file = e])

Steps ==
    \/ Digest \/ Inspect \/ References \/ Parse \/ Decide \/ Create \/ Update \/ OutOfSequence
    \/ Replace \/ Remove \/ EngineRefuses \/ Finish

Init ==
    InitRuns({[service |-> s, digest |-> 1, secret |-> 1, file |-> Missing]
                : s \in Found \union {Missing}}, Tasks)
Next == Start \/ Steps \/ CallError \/ Killed \/ (Undisturbed /\ Outside)
Spec == Init /\ [][Next]_vars

-----------------------------------------------------------------------------
(* What an option that a task gives has to be.  Of labels no more than     *)
(* what mapsEqual looks at: an empty one stands for another that is there. *)
Fits(f, given, active) ==
    CASE Kind[f] = "limit" -> given = active
      [] Kind[f] = "dict" -> Agree(given, active)
      [] OTHER -> ~FieldDiffers(f, given, active)
(* The state a task asks for.  A task that disables the health check is    *)
(* content with a service that defines none.                               *)
Satisfied(task, swarm) ==
    IF task.state = "absent" THEN swarm.service = Missing
    ELSE LET s == swarm.service IN
         /\ s # Missing
         /\ task.image # 0 => s.image = task.image
         /\ task.image # 0 /\ task.resolve =>
               s.digest \in (IF run.disturbed THEN Digests ELSE {swarm.digest})
         /\ s.mode = task.mode
         /\ task.replicas # -1 /\ task.mode # "global" => s.replicas = task.replicas
         /\ \A f \in GivenBy(task) : Fits(f, task.fields[f], s.fields[f])
         /\ task.health = "test" => s.health = "test"
         /\ task.health = "none" => s.health # "test"
         /\ task.health = "clear" => s.health = "unset"
         /\ EnvGiven(task) /\ ~(task.file /\ swarm.file = Missing) =>
               s.env = EnvOf(task, swarm.file)
         /\ task.ports # Omitted => ~ItemsDiffer(task.ports, s.ports)
         /\ task.secret => s.secret = swarm.secret

(* A check run announces what the real run then does (executor_test.go:228)*)
Predicts == Foretold

(* Applying a task again changes nothing, unless it forces an update       *)
(* (executor_test.go:187).  A limit of 0, and a rollback configuration in  *)
(* which nothing is set, are found missing every time.                     *)
Idempotent ==
    \/ t.force \/ Unchanging
    \/ \E f \in GivenBy(t) :
          \/ Kind[f] = "limit" /\ t.fields[f] = Unset
          \/ Kind[f] = "dict" /\ AllOmitted(t.fields[f])

(* An update leaves what the task does not give as it is at that moment,   *)
(* whoever set it last: omitted options are preserved                      *)
(* (executor_test.go:301), and so are the number of replicas, the ports    *)
(* and the environment.                                                    *)
KeepsOmitted ==
    At("update") /\ run'.at = "answer" =>
      LET old == actual.service new == actual'.service IN
      /\ t.replicas = -1 => new.replicas = old.replicas
      /\ t.ports = Omitted => new.ports = old.ports
      /\ ~EnvGiven(t) => new.env = old.env
      /\ \A f \in Fields \ UNION {{f} \union Together(f) : f \in GivenBy(t)} :
            new.fields[f] = old.fields[f]

(* One update by somebody else does not make a run fail: it is done again  *)
(* from the inspection (executor.go:77).                                   *)
OutdatedOnceIsRetried ==
    At("update") /\ Exists /\ Answers /\ run'.reply = "refused" => now.retries < Retries
=============================================================================

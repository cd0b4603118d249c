----------------------------- MODULE ImageTools -----------------------------
(***************************************************************************)
(* The modules that each do one thing with images: docker_image_pull,      *)
(* _push, _tag, _remove, _export and _load.  They share the images and     *)
(* names of one docker engine with each other and with everybody else.     *)
(***************************************************************************)
EXTENDS ModuleRuns, Naturals, Sequences

CONSTANTS
    Names,   \* of images
    Broken,  \* what an archive is that cannot be read
    Tasks

Ids == 1 .. 2

(* An archive lists images with the names each was saved under.            *)
Contents == UNION {[I -> (SUBSET Names) \ {{}}] : I \in SUBSET Ids}
Content(names, N) == [i \in {names[n] : n \in N} |-> {n \in N : names[n] = i}]
(* What is requested of an archive, as far as it has been inspected.       *)
Requested == UNION {[N -> Ids] : N \in SUBSET Names}

(* name: the image a task is about; targets: further names, in order; id:  *)
(* an image to remove by its identity (0: by name); lazy: do not pull what *)
(* is there, keep the names that exist; force: remove, overwrite anyway;   *)
(* diff: an image that was removed is inspected again.                     *)
Requests ==
    [op : {"pull", "push", "tag", "remove", "export", "load"}, name : Names, targets : Seq(Names),
     id : Ids \union {0}, lazy : BOOLEAN, force : BOOLEAN,
     diff : BOOLEAN]

TaskAssumption == Tasks \subseteq Requests /\ Broken \notin Contents

(* The images of the engine, what each name stands for (0: nothing, also   *)
(* an image of another platform), what the registry offers and was given,  *)
(* and the archive.                                                        *)
Engines ==
    [images : SUBSET Ids, names : [Names -> Ids \union {0}], offered : Ids,
     pushed : Ids \union {0}, archive : Contents \union {Broken}]

(* id and names: the image that was inspected; next: the target that is    *)
(* due; wanted: what the names stood for; content: what is being saved.    *)
Nothing ==
    [id |-> 0, names |-> {}, next |-> 1, wanted |-> [n \in {} |-> 0],
     content |-> [i \in {} |-> {}]]
Snapshots ==
    [id : Ids \union {0}, names : SUBSET Names, next : Nat \ {0}, wanted : Requested,
     content : Contents]
Places == {"inspect", "pull", "pulled", "push", "target", "retag", "drop", "compare", "save",
           "copy", "load", "inspect again", "answer"}

TypeOK ==
    /\ actual \in Engines /\ memo \in Memos
    /\ run \in RunStates(Tasks, Places, Snapshots)
    /\ \A n \in Names : actual.names[n] \in actual.images \union {0}
    /\ run.at \in {"pull", "push", "retag", "drop", "save", "copy", "load", "pulled"} => ~Checking

t == run.task
now == run.read
Source == actual.names[t.name]
Named(e, i) == {n \in Names : e.names[n] = i}
(* A name that is listed twice is not found twice in an archive, which     *)
(* then is always written again.                                           *)
Rewrites(task) ==
    \/ task.force
    \/ \E k \in DOMAIN task.targets :
          task.targets[k] \in {task.name} \union {task.targets[j] : j \in 1 .. k - 1}
Wanted == {t.name} \union {t.targets[k] : k \in 1 .. Len(t.targets)}

Point(e, n, i) == [e EXCEPT !.names[n] = i, !.images = @ \union {i}]
(* An image whose last name goes is deleted.                               *)
Untag(e, n) ==
    [e EXCEPT !.names[n] = 0,
              !.images = IF Named(e, e.names[n]) = {n} THEN @ \ {e.names[n]} ELSE @]
Delete(e, i) ==
    [e EXCEPT !.names = [n \in Names |-> IF @[n] = i THEN 0 ELSE @[n]], !.images = @ \ {i}]

-----------------------------------------------------------------------------
(* docker_image_push and _load have no check mode: they are skipped then.  *)
Start ==
    \E task \in Tasks, mode \in {"check", "apply"} :
        /\ task.op \in {"push", "load"} => mode = "apply"
        /\ Begin(task, mode, IF task.op = "load" THEN "load" ELSE "inspect", Nothing)

InspectForPull ==
    /\ At("inspect") /\ t.op = "pull"
    /\ IF Source # 0 /\ t.lazy THEN Answer(FALSE)
       ELSE IF Checking THEN Reports("answer")
       ELSE Reads("pull", [now EXCEPT !.id = Source, !.names = Named(actual, Source)])
Pull ==
    /\ At("pull")
    /\ Step("pulled", Point(actual, t.name, actual.offered), now, run.changed)
(* What was pulled is inspected again and compared with what was there.    *)
Pulled ==
    /\ At("pulled")
    /\ IF Source = 0 THEN Refuse
       ELSE Answer(now.id # Source \/ now.names # Named(actual, Source))

InspectForPush ==
    /\ At("inspect") /\ t.op = "push"
    /\ IF Source = 0 THEN Refuse ELSE Goto("push")
(* The image that has the name now is pushed; the registry may have it.    *)
Push ==
    /\ At("push")
    /\ IF Source = 0 THEN Refuse
       ELSE Step("answer", [actual EXCEPT !.pushed = Source], now, actual.pushed # Source)

InspectForTag ==
    /\ At("inspect") /\ t.op = "tag"
    /\ IF Source = 0 THEN Refuse ELSE Reads("target", [now EXCEPT !.id = Source])
Done == now.next > Len(t.targets)
Following == [now EXCEPT !.next = @ + 1]
(* Each target is inspected in its turn.                                   *)
Target ==
    /\ At("target") /\ ~Done
    /\ LET there == actual.names[t.targets[now.next]] IN
       IF there = now.id \/ (there # 0 /\ t.lazy) THEN Reads("target", Following)
       ELSE IF Checking THEN Step("target", actual, Following, TRUE)
       ELSE Goto("retag")
(* The source is named by its identity, so it may lose its name meanwhile. *)
Retag ==
    /\ At("retag")
    /\ IF now.id \notin actual.images THEN Refuse
       ELSE Step("target", Point(actual, t.targets[now.next], now.id), Following, TRUE)
TargetsDone == At("target") /\ Done /\ Answer(run.changed)

(* A check run refuses to remove an image by identity that has names.      *)
InspectForRemove ==
    /\ At("inspect") /\ t.op = "remove"
    /\ IF (t.id = 0 /\ Source = 0) \/ (t.id # 0 /\ t.id \notin actual.images) THEN Answer(FALSE)
       ELSE IF Checking
       THEN (IF t.id # 0 /\ ~t.force /\ Named(actual, t.id) # {} THEN Refuse ELSE Reports("answer"))
       ELSE Goto("drop")
(* Without force the engine keeps an image with several names; one that    *)
(* was removed meanwhile is removed.                                       *)
Drop ==
    /\ At("drop")
    /\ IF /\ t.id # 0 /\ ~t.force
          /\ \E n, m \in Named(actual, t.id) : n # m
       THEN Refuse
       ELSE Changes(IF t.diff THEN "inspect again" ELSE "answer",
                    IF t.id # 0 THEN Delete(actual, t.id)
                    ELSE IF Source = 0 THEN actual ELSE Untag(actual, t.name))

(* The images are inspected one after the other.                           *)
InspectForExport ==
    /\ At("inspect") /\ t.op = "export"
    /\ LET n == IF now.next = 1 THEN t.name ELSE t.targets[now.next - 1] IN
       IF actual.names[n] = 0 THEN Refuse
       ELSE Reads(IF now.next > Len(t.targets) THEN "compare" ELSE "inspect",
                  [now EXCEPT !.next = @ + 1,
                     !.wanted = [m \in {n} \union DOMAIN @ |->
                                   IF m = n THEN actual.names[n] ELSE @[m]]])
(* exportReason: every image of the archive is to have one name only.      *)
Matches(archive, wanted) ==
    /\ archive # Broken /\ archive = Content(wanted, DOMAIN wanted)
    /\ \A i \in DOMAIN archive : \E n \in Names : archive[i] = {n}
Compare ==
    /\ At("compare")
    /\ IF ~Rewrites(t) /\ Matches(actual.archive, now.wanted) THEN Answer(FALSE)
       ELSE IF Checking THEN Reports("answer") ELSE Goto("save")
(* ImageSave takes the names as they are now; the file is created, and     *)
(* then the stream copied to it.                                           *)
Save ==
    /\ At("save")
    /\ IF \E n \in Wanted : actual.names[n] = 0 THEN Refuse
       ELSE Step("copy", [actual EXCEPT !.archive = Broken],
                 [now EXCEPT !.content = Content(actual.names, Wanted)], run.changed)
Copy == At("copy") /\ Changes("answer", [actual EXCEPT !.archive = now.content])

(* An archive without images is corrupt.  Loading always is a change; what *)
(* was loaded is inspected, and may be gone.                               *)
Load ==
    /\ At("load")
    /\ LET a == actual.archive IN
       IF a = Broken \/ a = [i \in {} |-> {}] THEN Refuse
       ELSE Changes("inspect again",
              [actual EXCEPT !.images = @ \union DOMAIN a,
                 !.names = [n \in Names |-> IF \E i \in DOMAIN a : n \in a[i]
                                            THEN CHOOSE i \in DOMAIN a : n \in a[i] ELSE @[n]]])

Finish == run.at \in {"inspect again", "answer"} /\ Answer(run.changed)

CallError == CallFails(Places \ {"compare", "answer"})

(* Others move and remove names and archives; the registry gets a newer    *)
(* image or loses what was pushed.                                         *)
Outside ==
    \/ \E n \in Names :
          \/ \E i \in actual.images : Interferes(Point(actual, n, i))
          \/ actual.names[n] # 0 /\ Interferes(Untag(actual, n))
    \/ Interferes([actual EXCEPT !.offered = 3 - @])
    \/ Interferes([actual EXCEPT !.pushed = 0])
    \/ Interferes([actual EXCEPT !.archive = Broken])

Inspect ==
    InspectForPull \/ InspectForPush \/ InspectForTag \/ InspectForRemove \/ InspectForExport
Steps ==
    \/ Inspect \/ Pull \/ Pulled \/ Push \/ Target \/ Retag \/ TargetsDone \/ Drop
    \/ Compare \/ Save \/ Copy \/ Load \/ Finish

Init ==
    InitRuns({[images |-> Ids, names |-> names, offered |-> 1, pushed |-> 0, archive |-> Broken] :
                names \in [Names -> Ids]}, Tasks)
Next == Start \/ Steps \/ CallError \/ Killed \/ (Undisturbed /\ Outside)
Spec == Init /\ [][Next]_vars

-----------------------------------------------------------------------------
Satisfied(task, e) ==
    CASE task.op = "pull" -> e.names[task.name] \in (IF task.lazy THEN Ids ELSE {e.offered})
      [] task.op = "push" -> e.names[task.name] # 0 /\ e.pushed = e.names[task.name]
      [] task.op = "tag" ->
            \A k \in 1 .. Len(task.targets) :
               e.names[task.targets[k]] \in (IF task.lazy THEN Ids ELSE {e.names[task.name]})
      [] task.op = "remove" ->
            IF task.id = 0 THEN e.names[task.name] = 0 ELSE task.id \notin e.images
      [] task.op = "export" ->
            /\ e.archive # Broken
            /\ LET N == {task.name} \union {task.targets[k] : k \in 1 .. Len(task.targets)} IN
               \A n \in N : e.names[n] \in DOMAIN e.archive /\ n \in e.archive[e.names[n]]
      [] task.op = "load" ->
            e.archive # Broken
              /\ \A i \in DOMAIN e.archive : \A n \in e.archive[i] : e.names[n] = i

(* A check run announces what the real run then does, but it cannot know   *)
(* what the registry would send.                                           *)
Predicts == (t.op = "pull" => t.lazy) => Foretold

(* Applying a task again changes nothing, except that a load always is a   *)
(* change and an export that is forced, or lists a name twice, always is   *)
(* written; a check run of pull always announces a change, and names that  *)
(* share an image are always saved again.                                  *)
Shared(e, N) == \E n, m \in N : n # m /\ e.names[n] = e.names[m]
Idempotent ==
    \/ t.op = "load" \/ (t.op = "export" /\ (Rewrites(t) \/ Shared(actual, Wanted)))
    \/ (t.op = "pull" /\ ~t.lazy /\ Checking)
    \/ Unchanging

(* All targets of one run get the same image, whatever happens to the name *)
(* of the source meanwhile (docker_image_tag/executor.go:88).              *)
OneImage ==
    At("retag") /\ run'.at = "target" =>
      actual'.names[t.targets[now.next]] = now.id
=============================================================================

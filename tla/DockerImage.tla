---------------------------- MODULE DockerImage ----------------------------
(***************************************************************************)
(* The docker_image module: an image is pulled, built or loaded, then      *)
(* archived to a file, tagged with a second name and pushed, in this order;*)
(* or it is removed.  Each part reads what it needs just before it acts.   *)
(***************************************************************************)
EXTENDS ModuleRuns, Naturals

CONSTANT Tasks

(* Identities of images; 0: none.  Of the archive also: cut off.           *)
Ids == 0 .. 2
CutOff == 3

(* force: source, tag or removal is forced; never: the pull policy.        *)
Requests ==
    [state : {"present", "absent"}, source : {"pull", "build", "load", "local"},
     force : BOOLEAN, never : BOOLEAN, archive : BOOLEAN, repository : BOOLEAN,
     forceTag : BOOLEAN, push : BOOLEAN]

TaskAssumption == Tasks \subseteq Requests

(* What the name and the second name stand for on the host, what the       *)
(* source of the image offers, what the archive holds, what the registry   *)
(* has under the pushed name, and whether a container uses the image.      *)
Hosts ==
    [image : Ids, target : Ids, offered : Ids \ {0}, archive : 0 .. CutOff, pushed : Ids,
     used : BOOLEAN]

(* The image a run goes on with, and the one it is about to save.          *)
Nothing == [image |-> 0, saved |-> 0]
Snapshots == [image : Ids, saved : Ids]
Places == {"inspect", "drop", "obtain", "archive", "save", "copy", "tag", "retag", "push",
           "answer"}

TypeOK ==
    /\ actual \in Hosts /\ memo \in Memos
    /\ run \in RunStates(Tasks, Places, Snapshots)
    /\ run.at \in {"drop", "obtain", "save", "copy", "retag"} => ~Checking

t == run.task
now == run.read
Pushed == IF t.repository THEN actual.target ELSE actual.image

AfterTag == IF t.push THEN "push" ELSE "answer"
AfterArchive == IF t.repository THEN "tag" ELSE AfterTag
AfterSource == IF t.archive THEN "archive" ELSE AfterArchive

-----------------------------------------------------------------------------
Start ==
    \E task \in Tasks, mode \in {"check", "apply"} : Begin(task, mode, "inspect", Nothing)

Absent ==
    /\ At("inspect") /\ t.state = "absent"
    /\ IF actual.image = 0 THEN Goto("answer")
       ELSE IF Checking THEN Reports("answer") ELSE Goto("drop")
(* An image that was removed meanwhile is removed.                         *)
Drop ==
    /\ At("drop")
    /\ IF actual.image # 0 /\ actual.used /\ ~t.force THEN Refuse
       ELSE Changes("answer", [actual EXCEPT !.image = 0])

(* The image is obtained when it is missing or the source is forced.  A    *)
(* check run goes on with the image it found, or none.                     *)
Present ==
    /\ At("inspect") /\ t.state = "present"
    /\ LET read == [now EXCEPT !.image = actual.image] IN
       IF actual.image = 0 /\ (t.never \/ t.source = "local") THEN Refuse
       ELSE IF t.source = "local" \/ (actual.image # 0 /\ ~t.force) THEN Reads(AfterSource, read)
       ELSE IF Checking THEN Step(AfterSource, actual, read, TRUE)
       ELSE Reads("obtain", read)

(* Pull, build or load: a change only when another image comes of it.      *)
Obtain ==
    /\ At("obtain")
    /\ Step(AfterSource, [actual EXCEPT !.image = actual.offered],
            [now EXCEPT !.image = actual.offered], now.image # actual.offered)

(* archiveImage: unless the archive holds this image; one that cannot be   *)
(* read is overwritten.  A check run without an image says nothing.        *)
Archive ==
    /\ At("archive")
    /\ IF now.image = 0 \/ actual.archive = now.image THEN Goto(AfterArchive)
       ELSE IF Checking THEN Reports(AfterArchive) ELSE Goto("save")
(* ImageSave, and the file is created; then the stream is copied to it.    *)
Save ==
    /\ At("save")
    /\ IF actual.image = 0 THEN Refuse
       ELSE Step("copy", [actual EXCEPT !.archive = CutOff],
                 [now EXCEPT !.saved = actual.image], run.changed)
Copy == At("copy") /\ Changes(AfterArchive, [actual EXCEPT !.archive = now.saved])

(* tagImage: a second name that exists is left alone, whatever it names.   *)
Tag ==
    /\ At("tag")
    /\ IF actual.target # 0 /\ ~t.forceTag THEN Goto(AfterTag)
       ELSE IF Checking THEN Reports(AfterTag) ELSE Goto("retag")
Retag ==
    /\ At("retag")
    /\ IF actual.image = 0 THEN Refuse
       ELSE Step(AfterTag, [actual EXCEPT !.target = actual.image], now,
                 run.changed \/ actual.target # actual.image)

(* pushImage: whether the registry took anything is the answer of the run. *)
Push ==
    /\ At("push")
    /\ IF Checking THEN Reports("answer")
       ELSE IF Pushed = 0 THEN Refuse
       ELSE Step("answer", [actual EXCEPT !.pushed = Pushed], now, actual.pushed # Pushed)

Finish == At("answer") /\ Answer(run.changed)

CallError == CallFails({"inspect", "drop", "obtain", "save", "copy", "tag", "retag", "push"})

(* Others remove, tag and use the images and the archive that the task is  *)
(* about; the source has another one.                                      *)
Outside ==
    \/ \E i \in {0, actual.offered} : Interferes([actual EXCEPT !.image = i])
    \/ t.repository /\ \E i \in {0, actual.image} : Interferes([actual EXCEPT !.target = i])
    \/ Interferes([actual EXCEPT !.offered = 3 - @])
    \/ t.archive /\ Interferes([actual EXCEPT !.archive = 0])
    \/ t.push /\ Interferes([actual EXCEPT !.pushed = 0])
    \/ actual.image # 0 /\ Interferes([actual EXCEPT !.used = ~@])

Steps == Absent \/ Drop \/ Present \/ Obtain \/ Archive \/ Save \/ Copy \/ Tag \/ Retag \/ Push
            \/ Finish

Init ==
    InitRuns({[image |-> 0, target |-> 0, offered |-> 1, archive |-> 0, pushed |-> 0,
               used |-> FALSE]}, Tasks)
Next == Start \/ Steps \/ CallError \/ Killed \/ (Undisturbed /\ Outside)
Spec == Init /\ [][Next]_vars

-----------------------------------------------------------------------------
(* The state a task asks for: without force any image of the name will do, *)
(* and any of the second name.                                             *)
Satisfied(task, h) ==
    IF task.state = "absent" THEN h.image = 0
    ELSE /\ h.image # 0
         /\ task.force /\ task.source # "local" => h.image = h.offered
         /\ task.archive => h.archive = h.image
         /\ task.repository => IF task.forceTag THEN h.target = h.image ELSE h.target # 0
         /\ task.push => h.pushed = (IF task.repository THEN h.target ELSE h.image)

(* A check run announces what the real run then does, unless that depends  *)
(* on what a registry or a build answers.                                  *)
Predicts == ~t.force /\ ~t.forceTag /\ ~t.push => Foretold

(* Applying a task again changes nothing, forced or not: the identities    *)
(* are compared (executor_test.go:139, :195).  A check run of a forced     *)
(* task cannot compare them.                                               *)
Idempotent == (Checking => ~t.force /\ ~t.forceTag /\ ~t.push) => Unchanging
=============================================================================

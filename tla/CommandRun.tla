----------------------------- MODULE CommandRun -----------------------------
(***************************************************************************)
(* The modules command, shell and script: a command of the playbook runs   *)
(* unless what it creates is there already, or what it removes is not.  A  *)
(* script lies with the controller, which uploads it to a path made of its *)
(* checksum, has the agent run it there and removes it.  Two controllers   *)
(* that run the same script use the same path.                             *)
(***************************************************************************)
EXTENDS ModuleRuns

CONSTANTS Missing, Torn, Whole, Tasks

Requests == [kind : {"command", "shell", "script"}, creates : BOOLEAN, removes : BOOLEAN]

TaskAssumption == Tasks \subseteq Requests

(* What the command creates, what it removes, and the uploaded script.     *)
Hosts == [made : BOOLEAN, there : BOOLEAN, script : {Missing, Torn, Whole}]
Nothing == [ran |-> FALSE, failed |-> FALSE]
Places == {"upload", "write", "chmod", "stat", "creates", "removes", "start", "cleanup"}

TypeOK ==
    /\ actual \in Hosts /\ memo \in Memos
    /\ run \in RunStates(Tasks, Places, [ran : BOOLEAN, failed : BOOLEAN])
    /\ ~Checking

t == run.task
now == run.read

-----------------------------------------------------------------------------
(* Neither the agent nor the controller runs a command in check mode.      *)
Start ==
    \E task \in Tasks :
        Begin(task, "apply", IF task.kind = "script" THEN "upload" ELSE "creates", Nothing)

(* UploadFile with scp: the file is truncated and then filled, and the end *)
(* of scp is waited for.                                                   *)
Upload == At("upload") /\ Step("write", [actual EXCEPT !.script = Torn], now, FALSE)
FinishUpload == At("write") /\ Step("chmod", [actual EXCEPT !.script = Whole], now, FALSE)
Chmod ==
    /\ At("chmod")
    /\ IF actual.script = Missing THEN Refuse ELSE Goto("stat")

(* The result of the agent is there, and the script is removed, if that is *)
(* possible, before it is used.                                            *)
Result(ran, failed, a) ==
    IF t.kind = "script" THEN Step("cleanup", a, [ran |-> ran, failed |-> failed], ran)
    ELSE IF failed THEN actual' = a /\ Ends("refused", FALSE) /\ memo' = NoMemo
    ELSE Step("cleanup", a, [ran |-> ran, failed |-> FALSE], ran)

StatScript ==
    /\ At("stat")
    /\ IF actual.script = Missing THEN Result(FALSE, TRUE, actual) ELSE Goto("creates")
CheckCreates ==
    /\ At("creates")
    /\ IF t.creates /\ actual.made THEN Result(FALSE, FALSE, actual) ELSE Goto("removes")
CheckRemoves ==
    /\ At("removes")
    /\ IF t.removes /\ ~actual.there THEN Result(FALSE, FALSE, actual) ELSE Goto("start")

(* What a command does that keeps what creates and removes say of it.      *)
Effect == [actual EXCEPT !.made = @ \/ t.creates, !.there = @ /\ ~t.removes]
(* The exit status decides; what a failing command did stays, and so does  *)
(* what a script did that somebody truncated while it was read.            *)
Execute ==
    /\ At("start")
    /\ IF t.kind = "script" /\ actual.script = Missing THEN Result(FALSE, TRUE, actual)
       ELSE \/ \E a \in {Effect, actual} : Result(TRUE, TRUE, a)
            \/ Result(TRUE, FALSE, IF t.kind = "script" /\ actual.script = Torn
                                   THEN actual ELSE Effect)

(* rm -f, whose failure is ignored.                                        *)
CleanUp ==
    /\ At("cleanup")
    /\ \/ t.kind = "script" /\ actual.script # Missing
          /\ Step("cleanup", [actual EXCEPT !.script = Missing], now, run.changed)
       \/ IF now.failed THEN Refuse ELSE Answer(run.changed)

CallError == CallFails(Places)

(* Others make and remove the files, and another controller uploads the    *)
(* same script and removes it.                                             *)
Outside ==
    \/ \E made, there \in BOOLEAN : Interferes([actual EXCEPT !.made = made, !.there = there])
    \/ \E s \in {Missing, Torn, Whole} : Interferes([actual EXCEPT !.script = s])

Steps ==
    \/ Upload \/ FinishUpload \/ Chmod \/ StatScript \/ CheckCreates \/ CheckRemoves \/ Execute
    \/ CleanUp
Init == InitRuns([made : BOOLEAN, there : BOOLEAN, script : {Missing}], Tasks)
Next == Start \/ Steps \/ CallError \/ Killed \/ (Undisturbed /\ Outside)
Spec == Init /\ [][Next]_vars

-----------------------------------------------------------------------------
(* A task with both says what it needs and what it makes.                  *)
Satisfied(task, h) ==
    IF task.creates /\ task.removes THEN h.made \/ ~h.there
    ELSE (task.creates => h.made) /\ (task.removes => ~h.there)
Ran == run.read # Blank /\ run.read.ran

(* A task with creates or removes that succeeded is skipped from then on.  *)
Idempotent ==
    AnswersOK /\ run.again /\ ~run.disturbed /\ (t.creates \/ t.removes) =>
      ~run'.changed /\ ~Ran

(* No half uploaded script runs, also after an upload that was cut off,    *)
(* unless another controller is at the same path.                          *)
WholeScripts == At("start") /\ t.kind = "script" /\ ~run.disturbed => actual.script = Whole
=============================================================================

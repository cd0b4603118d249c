----------------------------- MODULE FetchFile ------------------------------
(***************************************************************************)
(* The task fetch: the controller asks the agent for the checksum of a     *)
(* file of the host, compares it with the copy it has, downloads the file  *)
(* into the copy and compares again.  The file may be replaced before,     *)
(* while and after it is read, and other hosts' files may be fetched to    *)
(* the same copy.                                                          *)
(***************************************************************************)
EXTENDS ModuleRuns

CONSTANTS
    Words,      \* what the text of a file may be
    Missing,    \* no file
    Directory,  \* the path is a directory
    Torn,       \* a copy that is not completely written, or mixed
    Tasks

(* local: the playbook runs on the host itself, and the file is copied.    *)
Requests == [must : BOOLEAN, validate : BOOLEAN, local : BOOLEAN]

TaskAssumption == Tasks \subseteq Requests

Hosts == [file : Words \union {Missing, Directory}, copy : Words \union {Missing, Torn}]
Nothing == [sum |-> Missing, opened |-> Missing]
Places == {"stat", "compare", "create", "receive", "verify"}

TypeOK ==
    /\ actual \in Hosts /\ memo \in Memos
    /\ run \in RunStates(Tasks, Places, [sum : Words \union {Missing}, opened : Words \union {Missing}])
    /\ ~Checking

t == run.task
now == run.read

-----------------------------------------------------------------------------
(* In check mode the task is skipped.                                      *)
Start == \E task \in Tasks : Begin(task, "apply", "stat", Nothing)

(* A file that the agent cannot read has no checksum.                      *)
Stat ==
    /\ At("stat")
    /\ \/ actual.file = Missing /\ (IF t.must THEN Refuse ELSE Answer(FALSE))
       \/ actual.file = Directory /\ Refuse
       \/ /\ actual.file \in Words
          /\ \E s \in {actual.file, Missing} : Reads("compare", [now EXCEPT !.sum = s])

Compare ==
    /\ At("compare")
    /\ IF now.sum # Missing /\ actual.copy = now.sum THEN Answer(FALSE) ELSE Goto("create")

(* The file is opened, and over SSH the copy is truncated; on the host     *)
(* itself a temporary file is filled and renamed over the copy.            *)
Create ==
    /\ At("create")
    /\ IF actual.file \notin Words THEN Refuse
       ELSE Step("receive", IF t.local THEN actual ELSE [actual EXCEPT !.copy = Torn],
                 [now EXCEPT !.opened = actual.file], run.changed)

(* What arrives of a file that was replaced meanwhile is the old text, the *)
(* new one, or a mixture of both of the announced length.                  *)
Receive ==
    /\ At("receive")
    /\ \E x \in {now.opened} \union
                (IF actual.file = now.opened THEN {} ELSE {Torn, actual.file} \ {Missing, Directory}) :
          Changes("verify", [actual EXCEPT !.copy = x])

VerifyAgainstNow ==   \* mutant
    /\ At("verify")
    /\ IF t.validate /\ now.sum # Missing /\ actual.copy # actual.file
       THEN actual' = [actual EXCEPT !.copy = Missing] /\ Ends("refused", FALSE) /\ memo' = NoMemo
       ELSE Answer(TRUE)
(* A copy that is not what was looked at is removed.                       *)
Verify ==
    /\ At("verify")
    /\ IF t.validate /\ now.sum # Missing /\ actual.copy # now.sum
       THEN actual' = [actual EXCEPT !.copy = Missing] /\ Ends("refused", FALSE) /\ memo' = NoMemo
       ELSE Answer(TRUE)

CallError == CallFails(Places)

Outside ==
    \/ \E x \in Words \union {Missing, Directory} : Interferes([actual EXCEPT !.file = x])
    \/ \E x \in Words \union {Missing} : Interferes([actual EXCEPT !.copy = x])

Steps == Stat \/ Compare \/ Create \/ Receive \/ Verify
Init == InitRuns([file : Words \union {Missing, Directory}, copy : {Missing}], Tasks)
Next == Start \/ Steps \/ CallError \/ Killed \/ (Undisturbed /\ Outside)
Spec == Init /\ [][Next]_vars

-----------------------------------------------------------------------------
Satisfied(task, h) == (h.file = Missing /\ ~task.must) \/ (h.file \in Words /\ h.copy = h.file)

(* A file that was fetched is not fetched again, unless it has no          *)
(* checksum: that is compared with nothing (executor.go:57).               *)
Idempotent == ~Idle /\ now.sum # Missing => Unchanging

(* A validated copy is the text the agent looked at, as a whole, whatever  *)
(* happens to the file meanwhile: fetch does not answer that it fetched a  *)
(* mixture or a later text.                                                *)
FetchesWhatItSaw ==
    AnswersOK /\ run'.changed /\ t.validate /\ now.sum # Missing => actual.copy = now.sum
=============================================================================

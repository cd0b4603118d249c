----------------------------- MODULE CronTable ------------------------------
(***************************************************************************)
(* The module cron: a job under a marker line, or a variable, in a user's  *)
(* crontab or in a file of /etc/cron.d, among the lines of other people.   *)
(* The table is read as a whole and written as a whole.                    *)
(***************************************************************************)
EXTENDS ModuleRuns, Naturals, SequencesExt

CONSTANTS
    Missing,      \* no crontab, or no file
    Names, Jobs,
    Tables,       \* what somebody may make of a table
    Tasks

(* A line: a marker, the job after it, a variable (tight: NAME=value), or  *)
(* something else.  A job in a file should name its user; one that is off  *)
(* is commented out.                                                       *)
Marker(n) == <<"marker", n>>
JobLines == {"job"} \X Jobs \X [special : BOOLEAN, user : BOOLEAN, off : BOOLEAN]
EnvLines == {"env"} \X Names \X Jobs \X [tight : BOOLEAN]
Empty == <<"empty">>
Comment == <<"comment">>
Header == <<"header">>   \* as crontab itself puts above a table it installs
Lines ==
    {Marker(n) : n \in Names} \union JobLines \union EnvLines \union {Empty, Comment, Header}

Requests ==
    [name : Names, job : Jobs, state : {"present", "absent"}, env : BOOLEAN, file : BOOLEAN,
     user : BOOLEAN, special : BOOLEAN, disabled : BOOLEAN, backup : BOOLEAN,
     place : {"top", "after", "before"}, anchor : Names]

(* A job in a file names its user, and only a variable has an anchor.      *)
Valid(task) ==
    /\ task.file /\ task.state = "present" => task.user
    /\ task.place # "top" => task.env

TaskAssumption == Tasks \subseteq Requests /\ Tables \subseteq Seq(Lines) \union {Missing}

Kinds == {"crontab", "file"}
Hosts == [Kinds -> Seq(Lines) \union {Missing}]
(* was: the table that was read; lines: what becomes of it.                *)
Reading == [was : Seq(Lines), lines : Seq(Lines)]
Nothing == [was |-> <<>>, lines |-> <<>>]
Places == {"arguments", "read", "backup", "edit", "remove", "install", "truncate", "fill", "after"}

TypeOK ==
    /\ actual \in Hosts /\ memo \in Memos
    /\ run.read # Blank => run.read \in Reading
    /\ [run EXCEPT !.read = Blank] \in RunStates(Tasks, Places, {})
    /\ ~Checking

t == run.task
now == run.read
kind == IF t.file THEN "file" ELSE "crontab"
table == actual[kind]
LinesOf(x) == IF x = Missing THEN <<>> ELSE x
(* The lines but for those that are left out.                              *)
Without(lines, out) == FlattenSeq([i \in DOMAIN lines |-> IF i \in out THEN <<>> ELSE <<lines[i]>>])
WithoutFirstLines(lines) == Without(lines, {i \in DOMAIN lines : i <= 3})   \* mutant
WithoutHeaders(lines) == Without(lines, {i \in DOMAIN lines : i <= 3 /\ lines[i] = Header})

-----------------------------------------------------------------------------
(* The line the task asks for; a special time leaves the user out.         *)
GetCronJob(task) ==
    <<"job", task.job, [special |-> task.special, off |-> task.disabled,
                        user |-> task.file /\ task.user /\ ~task.special]>>
Declaration(task) == <<"env", task.name, task.job, [tight |-> TRUE]>>
IsEnv(line, n) == line[1] = "env" /\ line[2] = n

FirstOf(places) == IF places = {} THEN 0 ELSE Min(places)
FindJobBelowTop(lines, n) ==   \* mutant
    FirstOf({i \in 2 .. Len(lines) - 1 : lines[i] = Marker(n)})
(* The marker whose next line is the job; the last line is not looked at,  *)
(* and an empty line after the marker is no job.                           *)
FindJob(lines, n) ==
    LET k == FirstOf({i \in 1 .. Len(lines) - 1 : lines[i] = Marker(n)})
    IN IF k # 0 /\ lines[k + 1] = Empty THEN 0 ELSE k
FindEnv(lines, n) == FirstOf({i \in DOMAIN lines : IsEnv(lines[i], n)})

UpdateJob(lines) == [lines EXCEPT ![FindJob(lines, t.name) + 1] = GetCronJob(t)]
(* Each marker goes with the line after it.                                *)
OfJob(lines, n) ==
    {i \in DOMAIN lines : lines[i] = Marker(n) \/ (i > 1 /\ lines[i - 1] = Marker(n))}
RemoveJob(lines) == Without(lines, OfJob(lines, t.name))
(* A new variable comes first, or next to the first NAME= of another.      *)
AddEnv(lines) ==
    LET k == FirstOf({i \in DOMAIN lines : IsEnv(lines[i], t.anchor) /\ lines[i][4].tight})
        at == IF t.place = "top" \/ k = 0 THEN 1 ELSE IF t.place = "before" THEN k ELSE k + 1
    IN InsertAt(lines, at, Declaration(t))
UpdateEnv(lines) == [lines EXCEPT ![FindEnv(lines, t.name)] = Declaration(t)]
RemoveEnv(lines) == Without(lines, {i \in DOMAIN lines : IsEnv(lines[i], t.name)})

Edited(lines) ==
    IF t.env
    THEN IF t.state = "absent" THEN RemoveEnv(lines)
         ELSE IF FindEnv(lines, t.name) = 0 THEN AddEnv(lines) ELSE UpdateEnv(lines)
    ELSE IF FindJob(lines, t.name) = 0
         THEN IF t.state = "absent" THEN lines ELSE lines \o <<Marker(t.name), GetCronJob(t)>>
         ELSE IF t.state = "absent" THEN RemoveJob(lines) ELSE UpdateJob(lines)
IsEmpty(lines) == \A i \in DOMAIN lines : lines[i] = Empty

-----------------------------------------------------------------------------
(* Not in check mode, which cron does not have.                            *)
StartInCheckMode == \E task \in Tasks : Begin(task, "check", "arguments", Nothing)   \* mutant
Start == \E task \in Tasks : Begin(task, "apply", "arguments", Nothing)
Validate == At("arguments") /\ IF Valid(t) THEN Goto("read") ELSE Refuse

(* What crontab has put above the table is left out of it.                 *)
AfterRead == IF t.backup THEN "backup" ELSE "edit"
Read ==
    /\ At("read")
    /\ Reads(AfterRead,
             [was |-> LinesOf(table),
              lines |-> IF t.file THEN LinesOf(table) ELSE WithoutHeaders(LinesOf(table))])
(* crontab -l says with the same status that there is no crontab and that  *)
(* it cannot read it, which is as if somebody had taken it away.           *)
ListFails ==
    /\ At("read") /\ ~t.file /\ table # Missing /\ ~run.disturbed
    /\ run' = [run EXCEPT !.at = AfterRead, !.disturbed = TRUE]
    /\ memo' = NoMemo
    /\ UNCHANGED actual
Backup == At("backup") /\ Goto("edit")
Edit ==
    /\ At("edit")
    /\ LET lines == Edited(now.lines) IN
       IF t.file /\ IsEmpty(lines) /\ t.state = "absent" THEN Goto("remove")
       ELSE IF lines = now.lines THEN Answer(FALSE)
       ELSE Reads(IF t.file THEN "truncate" ELSE "install", [now EXCEPT !.lines = lines])
RemoveFile ==
    /\ At("remove")
    /\ IF table = Missing THEN Refuse ELSE Changes("after", [actual EXCEPT ![kind] = Missing])
(* crontab replaces the table in one step; the file is emptied first, and  *)
(* if it is replaced meanwhile it is another one that is filled.           *)
Install == At("install") /\ Changes("after", [actual EXCEPT ![kind] = now.lines])
Truncate == At("truncate") /\ Changes("fill", [actual EXCEPT ![kind] = <<>>])
Fill ==
    /\ At("fill")
    /\ \/ Changes("after", [actual EXCEPT ![kind] = now.lines])
       \/ run.disturbed /\ Reports("after")
Finish == At("after") /\ Answer(run.changed)
CallError == CallFails(Places \ {"arguments", "edit", "after"})

Outside == \E x \in Tables, k \in Kinds : Interferes([actual EXCEPT ![k] = x])

Steps ==
    \/ Validate \/ Read \/ ListFails \/ Backup \/ Edit \/ RemoveFile \/ Install \/ Truncate \/ Fill
    \/ Finish
Init == InitRuns([Kinds -> Tables], Tasks)
Next == Start \/ Steps \/ CallError \/ Killed \/ (Undisturbed /\ Outside)
Spec == Init /\ [][Next]_vars

-----------------------------------------------------------------------------
(* The job of a name is the line after its marker, in a table that cron    *)
(* has made.                                                               *)
JobsOf(lines, n) ==
    {lines[i + 1] : i \in {j \in 1 .. Len(lines) - 1 : lines[j] = Marker(n)}} \ {Empty}
EnvsOf(lines, n) == {lines[i] : i \in {j \in DOMAIN lines : IsEnv(lines[j], n)}}
Satisfied(task, h) ==
    LET x == h[IF task.file THEN "file" ELSE "crontab"]
        lines == IF x = Missing THEN <<>> ELSE x
        asked == IF task.state = "absent" THEN {}
                 ELSE IF task.env THEN {Declaration(task)} ELSE {GetCronJob(task)}
    IN (IF task.env THEN EnvsOf(lines, task.name) ELSE JobsOf(lines, task.name)) = asked

(* A task that succeeded changes nothing the next time.                    *)
Idempotent == Unchanging

(* A run that succeeds loses no line of other people and no other job:     *)
(* they come one after the other as they did, but for headers of crontab.  *)
OfOthers(lines) ==
    Without(lines,
            {i \in DOMAIN lines : lines[i] = Header} \union
            (IF t.env THEN {i \in DOMAIN lines : IsEnv(lines[i], t.name)} ELSE OfJob(lines, t.name)))
KeepsOthers ==
    AnswersOK /\ ~run.disturbed => OfOthers(now.was) = OfOthers(LinesOf(table))
=============================================================================

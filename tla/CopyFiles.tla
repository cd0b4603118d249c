----------------------------- MODULE CopyFiles ------------------------------
(***************************************************************************)
(* The module copy: a file has a given text, or that of another file of    *)
(* the host, or of one that the controller uploaded; or a directory has    *)
(* the files of another directory, which are copied one after the other.   *)
(***************************************************************************)
EXTENDS ModuleRuns, Naturals, Sequences, FiniteSets, SequencesExt

CONSTANTS
    Order,    \* the names in a directory, in the order of filepath.Walk
    Words,    \* what the text of a file may be
    Missing, Torn, Tasks

Names == {Order[i] : i \in DOMAIN Order}
(* text: the content, or the one with the checksum of the upload.          *)
Requests ==
    [from : {"content", "host", "upload", "directory"}, text : Words, force : BOOLEAN,
     backup : BOOLEAN, mode : 0 .. 2]

TaskAssumption == Tasks \subseteq Requests /\ Order \in Seq(Names) \ {<<>>} /\ Missing \notin Words

(* What is there to be copied, the copies and their temporary files.  Mode *)
(* 1 is the one that new files have.                                       *)
Hosts ==
    [source : [Names -> Words \union {Missing}],
     dest : [Names -> [text : Words \union {Torn}, mode : 1 .. 2] \union {Missing}],
     tmp : [Names -> Words \union {Torn, Missing}]]
Nothing == [left |-> <<>>, text |-> Missing, saved |-> Missing]
Places == {"open", "look", "backup", "write", "fill", "install", "chmod"}

TypeOK ==
    /\ actual \in Hosts /\ memo \in Memos
    /\ run.read # Blank =>
          /\ run.read.left \in Seq(Names) /\ {run.read.text, run.read.saved} \subseteq Words \union {Missing}
          /\ run.at \notin {"open", "look"} => run.read.left # <<>>
    /\ [run EXCEPT !.read = Blank] \in RunStates(Tasks, Places, {})
    /\ ~Checking

t == run.task
now == run.read
n == Head(now.left)
Following == [now EXCEPT !.left = Tail(@), !.text = Missing]
Listed ==
    FlattenSeq([i \in DOMAIN Order |-> IF actual.source[Order[i]] = Missing THEN <<>> ELSE <<Order[i]>>])
Wanted(task, h, name) == IF task.from = "content" THEN task.text ELSE h.source[name]

-----------------------------------------------------------------------------
(* Not in check mode, which copy does not have.                            *)
Start == \E task \in Tasks : Begin(task, "apply", "open", Nothing)

Open ==
    /\ At("open")
    /\ LET first == Head(Order) IN
       IF t.from = "content" THEN Reads("look", [now EXCEPT !.left = <<first>>])
       ELSE IF t.from = "directory"
       THEN Reads("look", [now EXCEPT !.left = Listed])
       ELSE IF actual.source[first] = Missing \/ (t.from = "upload" /\ actual.source[first] # t.text)
       THEN Refuse
       ELSE Reads("look", [now EXCEPT !.left = <<first>>])

(* The checksums of the two files are compared.                            *)
Look ==
    /\ At("look") /\ now.left # <<>>
    /\ LET wanted == Wanted(t, actual, n) IN
       IF wanted = Missing THEN Refuse
       ELSE IF ~t.force /\ actual.dest[n] # Missing /\ actual.dest[n].text = wanted
       THEN Reads("look", Following)
       ELSE Goto("backup")
Done == At("look") /\ now.left = <<>> /\ Answer(run.changed)

(* Only a single file is backed up; copyDirectory does not hand the        *)
(* option on.                                                              *)
Backup ==
    /\ At("backup")
    /\ IF t.backup /\ t.from # "directory" /\ actual.dest[n] # Missing
       THEN Reads("write", [now EXCEPT !.saved = actual.dest[n].text]) ELSE Goto("write")

Opened == [now EXCEPT !.text = Wanted(t, actual, n)]
(* The file that is copied is opened again, after the comparison.          *)
Write ==
    /\ At("write")
    /\ IF Wanted(t, actual, n) = Missing THEN Refuse
       ELSE Step("fill", [actual EXCEPT !.tmp[n] = Torn], Opened, run.changed)
Fill == At("fill") /\ Step("install", [actual EXCEPT !.tmp[n] = now.text], now, run.changed)
Install ==
    /\ At("install")
    /\ IF actual.tmp[n] = Missing THEN Refuse
       ELSE Changes("chmod", [actual EXCEPT !.dest[n] = [text |-> actual.tmp[n], mode |-> 1],
                                            !.tmp[n] = Missing])
Chmod ==
    /\ At("chmod")
    /\ IF t.mode = 0 THEN Reads("look", Following)
       ELSE IF actual.dest[n] = Missing THEN Refuse
       ELSE Step("look", [actual EXCEPT !.dest[n].mode = t.mode], Following, TRUE)

CallError == CallFails(Places)

(* Others write, remove and chmod the copies, and replace what is copied   *)
(* if it lies on the host.                                                 *)
Outside ==
    \E name \in IF t.from = "directory" THEN Names ELSE {Head(Order)} :
       \/ /\ t.from \in {"host", "directory"}
          /\ \E x \in Words \union {Missing} : Interferes([actual EXCEPT !.source[name] = x])
       \/ \E d \in [text : Words, mode : {1}] \union {Missing} :
             Interferes([actual EXCEPT !.dest[name] = d])
       \/ Interferes([actual EXCEPT !.tmp[name] = Missing])

Steps == Open \/ Look \/ Done \/ Backup \/ Write \/ Fill \/ Install \/ Chmod
Init ==
    InitRuns({[source |-> [name \in Names |-> x], dest |-> [name \in Names |-> Missing],
               tmp |-> [name \in Names |-> Missing]] : x \in Words}, Tasks)
Next == Start \/ Steps \/ CallError \/ Killed \/ (Undisturbed /\ Outside)
Spec == Init /\ [][Next]_vars

-----------------------------------------------------------------------------
Targets(task, h) ==
    IF task.from = "directory" THEN {name \in Names : h.source[name] # Missing} ELSE {Head(Order)}
(* The text of the files; see the README on their mode.                    *)
Satisfied(task, h) ==
    \A name \in Targets(task, h) :
        h.dest[name] # Missing /\ h.dest[name].text = Wanted(task, h, name)

(* Without force a copy that was made is not made again.                   *)
Idempotent == ~t.force => Unchanging

(* No copy is ever seen half written.                                      *)
NeverTorn == \A name \in Names : actual.dest[name] # Missing => actual.dest[name].text # Torn

(* A single file that is replaced was backed up before if the task says so. *)
BackedUp ==
    At("install") /\ t.backup /\ t.from # "directory" /\ ~run.disturbed /\ actual.dest[n] # Missing
        => now.saved = actual.dest[n].text
=============================================================================

------------------------------ MODULE FileRuns ------------------------------
(***************************************************************************)
(* What the modules that manage one file have in common: the new text is   *)
(* validated, the old one backed up, the new one written to a temporary    *)
(* file with a fixed name and renamed over the old one, and then owner,    *)
(* group and mode are set where they differ.  The process may end between  *)
(* any two of these steps, and other programs use the file meanwhile.      *)
(***************************************************************************)
EXTENDS ModuleRuns, Naturals, Sequences

CONSTANTS
    Missing,  \* no file
    Torn      \* the text of a file that is not completely written

Kinds == <<"owner", "group", "mode">>
(* Two values of each; a task asks for one, or does not care (0).          *)
Attributes == [{"owner", "group", "mode"} -> 1 .. 2]
Askable == [{"owner", "group", "mode"} -> 0 .. 2]
(* What os.WriteFile gives a new file: it belongs to the agent, mode 0644. *)
Fresh == [k \in {"owner", "group", "mode"} |-> 1]

(* The file and the temporary file beside it.                              *)
Files(Texts) == [text : Texts, attrs : Attributes] \union {Missing}
Hosts(Texts) == [file : Files(Texts), tmp : Texts \union {Torn, Missing}]
Host(file) == [file |-> file, tmp |-> Missing]

(* A run knows the new text, whether there was a file, which attributes    *)
(* are still to be looked at, and what it has backed up.                   *)
FileReads(Texts) ==
    [text : Texts \union {Missing}, existed : BOOLEAN,
     left : {SubSeq(Kinds, i, 3) : i \in 1 .. 4}, saved : Texts \union {Missing}]
Unread == [text |-> Missing, existed |-> FALSE, left |-> Kinds, saved |-> Missing]
FilePlaces == {"read", "validate", "backup", "write", "fill", "install", "attributes"}

t == run.task
now == run.read
Exists == actual.file # Missing
TextNow == actual.file.text

-----------------------------------------------------------------------------
(* What a module has decided: to write the text and then look at the given *)
(* attributes, or only to look at the attributes.  With none of them lines *)
(* are removed, which is not validated.                                    *)
Rewrite(text, kinds) ==
    Reads(IF kinds = <<>> THEN "backup" ELSE "validate",
          [now EXCEPT !.text = text, !.existed = Exists, !.left = kinds])
Keep(kinds) == Reads("attributes", [now EXCEPT !.existed = Exists, !.left = kinds])

(* The validation command is the task's own: it accepts or rejects.        *)
Validate ==
    /\ At("validate")
    /\ Goto("backup") \/ (t.validate /\ Refuse)
(* The backup has the text the file has now.                               *)
Backup ==
    /\ At("backup")
    /\ IF ~(t.backup /\ now.existed) THEN Goto("write")
       ELSE IF ~Exists THEN Refuse
       ELSE Reads("write", [now EXCEPT !.saved = TextNow])
(* atomicWrite: the temporary file is created or truncated, filled,        *)
WriteInPlace ==   \* mutant
    /\ At("write")
    /\ Step("fill", [actual EXCEPT !.file = [text |-> Torn, attrs |-> Fresh], !.tmp = Torn],
            now, run.changed)
Write == At("write") /\ Step("fill", [actual EXCEPT !.tmp = Torn], now, run.changed)
Fill == At("fill") /\ Step("install", [actual EXCEPT !.tmp = now.text], now, run.changed)
(* and renamed, whatever it contains by then; the old file's attributes    *)
(* are lost with it.                                                       *)
Install ==
    /\ At("install")
    /\ IF actual.tmp = Missing THEN Refuse
       ELSE Changes("attributes",
              [actual EXCEPT !.file = [text |-> actual.tmp, attrs |-> Fresh], !.tmp = Missing])

(* Each attribute the task asks for is looked at again when its turn is.   *)
AttributeUnreported ==   \* mutant
    /\ At("attributes") /\ now.left # <<>>
    /\ LET k == Head(now.left)
           rest == [now EXCEPT !.left = Tail(@)] IN
       IF ~Exists /\ now.left = Kinds THEN Answer(run.changed)
       ELSE IF t.asked[k] = 0 THEN Reads("attributes", rest)
       ELSE IF ~Exists THEN Refuse
       ELSE Step("attributes", [actual EXCEPT !.file.attrs[k] = t.asked[k]], rest, run.changed)
Attribute ==
    /\ At("attributes") /\ now.left # <<>>
    /\ LET k == Head(now.left)
           rest == [now EXCEPT !.left = Tail(@)] IN
       IF ~Exists /\ now.left = Kinds THEN Answer(run.changed)
       ELSE IF t.asked[k] = 0 THEN Reads("attributes", rest)
       ELSE IF ~Exists THEN Refuse
       ELSE IF actual.file.attrs[k] = t.asked[k] THEN Reads("attributes", rest)
       ELSE Step("attributes", [actual EXCEPT !.file.attrs[k] = t.asked[k]], rest, TRUE)
Done == At("attributes") /\ now.left = <<>> /\ Answer(run.changed)

(* Every module has its own copy of this code.                             *)
Guard == Validate \/ Backup
AtomicWrite == Write \/ Fill \/ Install
SetAttributes == Attribute \/ Done
FileCallError == CallFails(FilePlaces \ {"validate"})

(* Others edit, remove or chmod the file, in what the task asks for;       *)
(* another run for the same file may rename the temporary file away, but   *)
(* does not truncate it while this one is between filling and renaming it. *)
FileOutside(Texts) ==
    \/ \E x \in Texts :
          Interferes([actual EXCEPT !.file = [text |-> x, attrs |-> Fresh]])
    \/ Interferes([actual EXCEPT !.file = Missing])
    \/ Exists /\ \E k \in DOMAIN Fresh :
          t.asked[k] # 0 /\ Interferes([actual EXCEPT !.file.attrs[k] = 3 - @])
    \/ Interferes([actual EXCEPT !.tmp = Missing])

-----------------------------------------------------------------------------
Includes(lines, part) ==
    \E i \in 0 .. Len(lines) - Len(part) : SubSeq(lines, i + 1, i + Len(part)) = part
HasAttributes(task, h) ==
    h.file # Missing =>
        \A k \in DOMAIN Fresh : task.asked[k] \in {0, h.file.attrs[k]}

(* No crash leaves a half written file behind, and no later run installs   *)
(* the half written temporary file of an earlier one.                      *)
NeverTorn == Exists => TextNow # Torn

(* When a file is replaced, the backup the task asked for has what it had. *)
BackedUp ==
    At("install") /\ t.backup /\ Exists /\ ~run.disturbed => now.saved = TextNow
=============================================================================

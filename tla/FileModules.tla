---------------------------- MODULE FileModules -----------------------------
(***************************************************************************)
(* The modules of the agent that write files, side by side: the agent runs *)
(* one of them, and all of them owe the same to its caller.  What they     *)
(* promise beside the contract of modules is stated here for all of them.  *)
(***************************************************************************)
EXTENDS ModuleRuns, Naturals, Sequences

CONSTANTS
    Missing, Torn, Whole,                  \* what may be in place of a text
    Lines, LineTexts, LineTasks,           \* of lineinfile
    PlainLines, Opening, Closing, Empty,   \* of blockinfile: lines and markers
    MaxLines, BlockTexts, BlockTasks,
    Words, ReplaceTexts, ReplaceTasks,     \* of replace
    Contents, TemplateTasks,               \* of template and copy
    Order, CopyTasks,                      \* of copy: the files of a directory
    CommandTasks                           \* of command, shell and script

VARIABLE module   \* the module that the agent runs

Line == INSTANCE LineInFile WITH Texts <- LineTexts, Tasks <- LineTasks
Block == INSTANCE BlockInFile WITH Lines <- PlainLines, Texts <- BlockTexts, Tasks <- BlockTasks
Replace == INSTANCE ReplaceInFile WITH Texts <- ReplaceTexts, Tasks <- ReplaceTasks
Template == INSTANCE TemplateFile WITH Words <- Contents, Tasks <- TemplateTasks
Copy == INSTANCE CopyFiles WITH Words <- Contents, Tasks <- CopyTasks
Command == INSTANCE CommandRun WITH Tasks <- CommandTasks

(* What others write are texts, and no text is one that is not there or    *)
(* not complete.                                                           *)
ASSUME FileAssumption ==
    /\ Line!TaskAssumption /\ LineTexts \subseteq Seq(Lines)
    /\ Block!TaskAssumption
    /\ Replace!TaskAssumption /\ ReplaceTexts \subseteq Seq(Words)
    /\ Template!TaskAssumption /\ Copy!TaskAssumption /\ Command!TaskAssumption
    /\ {Missing, Torn} \cap (Seq(Lines) \union Block!AllTexts \union Seq(Words) \union Contents) = {}
    /\ Missing # Torn /\ Whole \notin {Missing, Torn}

-----------------------------------------------------------------------------
Init ==
    \/ module = "lineinfile" /\ Line!Init
    \/ module = "blockinfile" /\ Block!Init
    \/ module = "replace" /\ Replace!Init
    \/ module = "template" /\ Template!Init
    \/ module = "copy" /\ Copy!Init
    \/ module = "command" /\ Command!Init
Next ==
    \/ UNCHANGED module /\ module = "lineinfile" /\ Line!Next
    \/ UNCHANGED module /\ module = "blockinfile" /\ Block!Next
    \/ UNCHANGED module /\ module = "replace" /\ Replace!Next
    \/ UNCHANGED module /\ module = "template" /\ Template!Next
    \/ UNCHANGED module /\ module = "copy" /\ Copy!Next
    \/ UNCHANGED module /\ module = "command" /\ Command!Next
all == <<module, vars>>
Spec == Init /\ [][Next]_all

(* Every module keeps to its states.                                       *)
TypeOK ==
    \/ module = "lineinfile" /\ Line!TypeOK
    \/ module = "blockinfile" /\ Block!TypeOK
    \/ module = "replace" /\ Replace!TypeOK
    \/ module = "template" /\ Template!TypeOK
    \/ module = "copy" /\ Copy!TypeOK
    \/ module = "command" /\ Command!TypeOK

-----------------------------------------------------------------------------
(* A file that is written is at no moment half written and is backed up as *)
(* it was when the task asks for it, whoever is killed between any two     *)
(* steps, and a script that runs is the whole script: atomicWrite and      *)
(* backup of lineinfile, blockinfile, replace, template and copy, and the  *)
(* upload of a script by the controller.                                   *)
WholeFiles ==
    /\ module = "lineinfile" => Line!NeverTorn /\ Line!BackedUp
    /\ module = "blockinfile" => Block!NeverTorn /\ Block!BackedUp
    /\ module = "replace" => Replace!NeverTorn /\ Replace!BackedUp
    /\ module = "template" => Template!NeverTorn /\ Template!BackedUp
    /\ module = "copy" => Copy!NeverTorn /\ Copy!BackedUp
    /\ module = "command" => Command!WholeScripts

(* A run that inserts a line changes at most one line, that matches, with  *)
(* firstmatch the first one, and one that replaces words changes nothing   *)
(* outside the section it is about.                                        *)
SafeEdits ==
    /\ module = "lineinfile" => Line!ChangesOneLine /\ Line!ReplacesFirst
    /\ module = "replace" => Replace!KeepsOutside

(* The lines that a task does not remove, or that are not of its block,    *)
(* stay as they are and in their order.                                    *)
KeepsOtherLines ==
    /\ module = "lineinfile" => Line!KeepsOtherLines
    /\ module = "blockinfile" => Block!KeepsOtherLines

(* A template that is not forced leaves a file its text, and one that is   *)
(* not to follow links leaves the file behind a link alone.                *)
Respects == [][module = "template" => Template!Respects]_all

-----------------------------------------------------------------------------
Holds ==
    CASE module = "lineinfile" -> Line!Satisfied(run.task, actual)
      [] module = "blockinfile" -> Block!Satisfied(run.task, actual)
      [] module = "replace" -> Replace!Satisfied(run.task, actual)
      [] module = "template" -> Template!Satisfied(run.task, actual)
      [] module = "copy" -> Copy!Satisfied(run.task, actual)
      [] module = "command" -> Command!Satisfied(run.task, actual)

(* What a command did is not known: it counts as a change that it ran.     *)
Contract == INSTANCE ModuleContract WITH
    phase <- RunPhase, holds <- Holds,
    touched <- IF module = "command" THEN Command!Ran ELSE run.touched,
    disturbed <- run.disturbed, answer <- RunAnswer

(* Every module implements the contract of modules: a change it reports    *)
(* left what the task asks for, no change means that it was so before, and *)
(* nothing is touched in check mode.                                       *)
KeepsContract == Contract!Spec

(* A task that was applied, and is applied again, finds nothing to do:     *)
(* nothing is changed and no change is reported.  The tasks for which it   *)
(* is not meant to be so are named by each module.                         *)
Idempotent ==
    [][ /\ module = "lineinfile" => Line!Idempotent
        /\ module = "blockinfile" => Block!Idempotent
        /\ module = "replace" => Replace!Idempotent
        /\ module = "template" => Template!Idempotent
        /\ module = "copy" => Copy!Idempotent
        /\ module = "command" => Command!Idempotent ]_all

=============================================================================

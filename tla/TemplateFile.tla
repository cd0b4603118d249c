---------------------------- MODULE TemplateFile ----------------------------
(***************************************************************************)
(* The module template, on the agent: a text that the controller has       *)
(* rendered is the text of a file.                                         *)
(***************************************************************************)
EXTENDS FileRuns, FiniteSets

CONSTANTS
    Words,   \* what a text may be
    Tasks

Requests ==
    [text : Words, force : BOOLEAN, follow : BOOLEAN, backup : BOOLEAN, validate : BOOLEAN,
     asked : Askable]

TaskAssumption == Tasks \subseteq Requests

(* The destination or its directory may be a symbolic link; the file is    *)
(* then the one it leads to.                                               *)
Directories ==
    [file : Files(Words), tmp : Words \union {Torn, Missing}, link : BOOLEAN]

TypeOK ==
    /\ actual \in Directories /\ memo \in Memos
    /\ run.read # Blank => run.read \in FileReads(Words)
    /\ [run EXCEPT !.read = Blank] \in RunStates(Tasks, FilePlaces \union {"report"}, {})
    /\ ~Checking

-----------------------------------------------------------------------------
(* Not in check mode, which template does not have.                        *)
Start == \E task \in Tasks : Begin(task, "apply", "read", Unread)

ReadForced ==   \* mutant
    /\ At("read")
    /\ IF actual.link /\ ~t.follow THEN Refuse
       ELSE IF Exists /\ TextNow = t.text THEN Keep(Kinds) ELSE Rewrite(t.text, Kinds)
Read ==
    /\ At("read")
    /\ IF actual.link /\ ~t.follow THEN Refuse
       ELSE IF Exists /\ TextNow = t.text THEN Keep(Kinds)
       ELSE IF Exists /\ ~t.force THEN Goto("report")
       ELSE Rewrite(t.text, Kinds)

Secure == Guard
Replace == AtomicWrite
Adjust == Attribute \/ (At("attributes") /\ now.left = <<>> /\ Goto("report"))
(* responseFromStat: the file is looked at once more for the answer.       *)
Report == At("report") /\ IF Exists THEN Answer(run.changed) ELSE Refuse

(* Somebody makes the destination a link, or no link.                      *)
Relink == Interferes([actual EXCEPT !.link = ~@])

Steps == Read \/ Secure \/ Replace \/ Adjust \/ Report
Init ==
    InitRuns({[file |-> f, tmp |-> Missing, link |-> l] :
                f \in {Missing} \union {[text |-> x, attrs |-> Fresh] : x \in Words},
                l \in BOOLEAN}, Tasks)
Next ==
    \/ Start \/ Steps \/ FileCallError \/ Killed
    \/ Undisturbed /\ (FileOutside(Words) \/ Relink)
Spec == Init /\ [][Next]_vars

-----------------------------------------------------------------------------
Satisfied(task, h) ==
    /\ h.file # Missing
    /\ task.force => h.file.text = task.text
    /\ h.file.text = task.text => HasAttributes(task, h)

(* A task that succeeded changes nothing the next time.                    *)
Idempotent == Unchanging

(* Without force a file that exists keeps its text, and one that is        *)
(* reached through a link is left alone unless the task follows links.     *)
Respects ==
    ~run'.disturbed /\ ~Idle /\ Exists /\ actual'.file # actual.file =>
      /\ t.force \/ actual'.file.text = TextNow
      /\ t.follow \/ ~actual.link
=============================================================================

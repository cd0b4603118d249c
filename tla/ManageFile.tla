----------------------------- MODULE ManageFile -----------------------------
(***************************************************************************)
(* The module file: a path is absent, a directory, a file with given       *)
(* attributes, a symbolic or a hard link to another file, or touched.      *)
(* What is in the way is removed first if the task says force, and then    *)
(* there is nothing until the link is made.                                *)
(***************************************************************************)
EXTENDS ModuleRuns, Naturals, Sequences

CONSTANTS Missing, Tasks

States == {"", "absent", "directory", "file", "link", "hard", "touch"}
(* Owner (and the same way group) and mode; 0 asks for none.  Mode 3 has a *)
(* set-user-id or sticky bit beside the permissions of mode 2.             *)
Requests ==
    [state : States, owner : 0 .. 2, mode : 0 .. 3, recurse : BOOLEAN, force : BOOLEAN]

TaskAssumption == Tasks \subseteq Requests

(* What is at the path: a link leads to the source of the task or to       *)
(* another file, and a file is the source itself or not.                   *)
Nodes ==
    [kind : {"file", "directory", "link"}, source : BOOLEAN, owner : 1 .. 2, mode : 1 .. 2,
     time : {"epoch", "later"}]
New(kind, source) ==
    [kind |-> kind, source |-> source, owner |-> 1, mode |-> 1, time |-> "later"]
(* The path, a file in the directory there, and whether the source exists. *)
Hosts ==
    [path : Nodes \union {Missing}, child : Nodes \union {Missing}, source : BOOLEAN]
Items == {"path", "child"} \X {"owner", "mode"}
Own == << <<"path", "owner">>, <<"path", "mode">> >>
Walk == Own \o << <<"child", "owner">>, <<"child", "mode">> >>
Nothing == [state |-> "", left |-> <<>>]
Places == {"detect", "look", "create", "attributes"}

TypeOK ==
    /\ actual \in Hosts /\ memo \in Memos
    /\ actual.child # Missing => actual.path # Missing /\ actual.path.kind = "directory"
    /\ run.read # Blank => run.read.state \in States /\ run.read.left \in Seq(Items)
    /\ [run EXCEPT !.read = Blank] \in RunStates(Tasks, Places, {})
    /\ ~Checking

t == run.task
now == run.read
path == actual.path
There == path # Missing
Is(kind) == There /\ path.kind = kind

-----------------------------------------------------------------------------
(* The module has no check mode.                                           *)
Start == \E task \in Tasks : Begin(task, "apply", "detect", Nothing)

(* detectState: a task without a state keeps what is there.                *)
Detected ==
    IF ~There THEN "absent"
    ELSE IF path.kind = "file" /\ path.source THEN "hard" ELSE path.kind
Detect ==
    /\ At("detect")
    /\ Reads("look", [now EXCEPT !.state = IF t.state = "" THEN Detected ELSE t.state])

(* RemoveAll takes what is in a directory with it.                         *)
EnsureAbsent ==
    /\ At("look") /\ now.state = "absent"
    /\ IF ~There THEN Answer(run.changed)
       ELSE Changes("look", [actual EXCEPT !.path = Missing, !.child = Missing])

Attributes(items) == [now EXCEPT !.left = items]
Chosen == IF t.recurse THEN Own \o Walk ELSE Own

EnsureDirectory ==
    /\ At("look") /\ now.state = "directory"
    /\ IF There /\ path.kind # "directory" THEN Refuse
       ELSE IF There THEN Reads("attributes", Attributes(Chosen))
       ELSE Step("attributes", [actual EXCEPT !.path = New("directory", FALSE)],
                 Attributes(Chosen), TRUE)
EnsureFile ==
    /\ At("look") /\ now.state = "file"
    /\ IF ~There \/ path.kind = "directory" THEN Refuse
       ELSE Reads("attributes", Attributes(Own))

(* A task without a state has no source either.                            *)
EnsureSymlink ==
    /\ At("look") /\ now.state = "link"
    /\ IF t.state = "" THEN Refuse
       ELSE IF Is("link") /\ path.source THEN Answer(FALSE)
       ELSE IF There /\ ~t.force THEN Refuse
       ELSE Step("create", [actual EXCEPT !.path = Missing, !.child = Missing], now, There)
(* A directory with files is not removed for a hard link.                  *)
EnsureHardlink ==
    /\ At("look") /\ now.state = "hard"
    /\ IF t.state = "" \/ ~actual.source THEN Refuse
       ELSE IF Is("file") /\ path.source THEN Answer(FALSE)
       ELSE IF (There /\ ~t.force) \/ actual.child # Missing THEN Refuse
       ELSE Step("create", [actual EXCEPT !.path = Missing], now, There)
CreateLink ==
    /\ At("create")
    /\ IF There \/ (now.state = "hard" /\ ~actual.source) THEN Refuse
       ELSE Step("attributes",
                 [actual EXCEPT !.path = New(IF now.state = "hard" THEN "file" ELSE "link", TRUE)],
                 now, TRUE)

(* The time of a file that exists becomes the epoch.                       *)
EnsureTouch ==
    /\ At("look") /\ now.state = "touch"
    /\ Step("attributes",
            IF There THEN [actual EXCEPT !.path.time = "epoch"]
                     ELSE [actual EXCEPT !.path = New("file", FALSE)],
            Attributes(Own), TRUE)

(* The mode of a link is not looked at; of a mode only the permissions are *)
(* set, and compared with all of it.                                       *)
Settled(node, attr) ==
    IF attr = "owner" THEN t.owner \in {0, node.owner}
    ELSE node.kind = "link" \/ t.mode \in {0, node.mode}
Set(node, attr) ==
    IF attr = "owner" THEN [node EXCEPT !.owner = t.owner]
    ELSE [node EXCEPT !.mode = IF t.mode = 3 THEN 2 ELSE t.mode]
SetAttributes ==
    /\ At("attributes") /\ now.left # <<>>
    /\ LET item == Head(now.left)
           rest == [now EXCEPT !.left = Tail(@)]
           asked == IF item[2] = "owner" THEN t.owner ELSE t.mode
           node == actual[item[1]] IN
       IF asked = 0 \/ (item[1] = "child" /\ node = Missing) THEN Reads("attributes", rest)
       ELSE IF node = Missing THEN Refuse
       ELSE IF Settled(node, item[2]) THEN Reads("attributes", rest)
       ELSE Step("attributes", [actual EXCEPT ![item[1]] = Set(node, item[2])], rest, TRUE)
Done == At("attributes") /\ now.left = <<>> /\ Answer(run.changed)

CallError == CallFails(Places)

(* Others create, remove and change what is there.                         *)
Outside ==
    \/ \E node \in [kind : {"file", "directory", "link"}, source : BOOLEAN, owner : {1, 2},
                    mode : {1}, time : {"later"}] \union {Missing} :
          Interferes([actual EXCEPT !.path = node, !.child = Missing])
    \/ Is("directory") /\ Interferes([actual EXCEPT !.child = New("file", FALSE)])
    \/ Interferes([actual EXCEPT !.source = ~@])

Steps ==
    \/ Detect \/ EnsureAbsent \/ EnsureDirectory \/ EnsureFile \/ EnsureSymlink
    \/ EnsureHardlink \/ CreateLink \/ EnsureTouch \/ SetAttributes \/ Done
Init == InitRuns([path : {Missing}, child : {Missing}, source : {TRUE}], Tasks)
Next == Start \/ Steps \/ CallError \/ Killed \/ (Undisturbed /\ Outside)
Spec == Init /\ [][Next]_vars

-----------------------------------------------------------------------------
Has(task, node) ==
    /\ task.owner \in {0, node.owner}
    /\ node.kind = "link" \/ task.mode \in {0, node.mode} \/ (task.mode = 3 /\ node.mode = 2)
Satisfied(task, h) ==
    LET there == h.path # Missing IN
    CASE task.state = "absent" -> ~there
      [] task.state = "directory" ->
            /\ there /\ h.path.kind = "directory" /\ Has(task, h.path)
            /\ task.recurse /\ h.child # Missing => Has(task, h.child)
      [] task.state \in {"file", "touch"} -> there /\ Has(task, h.path)
      [] task.state = "link" -> there /\ h.path.kind = "link" /\ h.path.source
      [] task.state = "hard" -> there /\ h.path.kind = "file" /\ h.path.source
      [] task.state = "" -> there => Has(task, h.path)

(* Except for touch, a task that succeeded changes nothing the next time.  *)
Idempotent == t.state # "touch" /\ t.mode # 3 => Unchanging

(* Without force, a run removes only what is to be absent.                 *)
KeepsWhatIsThere ==
    ~Idle /\ run'.touched /\ ~run'.disturbed /\ There /\ actual'.path = Missing =>
      t.force \/ t.state = "absent"

(* A link that is made by force is made whatever is in the way, also after *)
(* a run that ended between removing and creating.                         *)
Recovers == t.state = "link" /\ t.force => Recovering
=============================================================================

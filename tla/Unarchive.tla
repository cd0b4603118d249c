----------------------------- MODULE Unarchive ------------------------------
(***************************************************************************)
(* The module unarchive: the controller uploads an archive under a name    *)
(* made of its checksum, and the agent compares it with the destination    *)
(* and extracts it, file by file, unless it is there already.              *)
(***************************************************************************)
EXTENDS ModuleRuns, Naturals

CONSTANTS
    Missing,   \* no file, or no upload
    Torn,      \* a file, or an upload, that is only partly there
    Own,       \* what somebody else has written into a file
    Files,     \* the files of the archive
    Tasks

(* The archive changes once: its files have the content 1, and then 2.     *)
Versions == 1 .. 2

(* remote: the archive is on the host already; select: the files left by   *)
(* include and exclude; creates: the file that makes the task superfluous. *)
Requests ==
    [type : {"tar", "zip"}, remote : BOOLEAN, creates : Files \union {Missing}, list : BOOLEAN,
     select : SUBSET Files, newer : BOOLEAN, mode : BOOLEAN]

TaskAssumption == Tasks \subseteq Requests

(* asked: a file has the owner and mode the task asks for; newer: it is    *)
(* newer than the one in the archive.  dir: the destination is there, and  *)
(* zipinfo: the program is.                                                *)
FileStates == [content : Versions \union {Torn, Own}, asked : BOOLEAN, newer : BOOLEAN]
Hosts ==
    [archive : Versions \union {Missing}, upload : [Versions -> Versions \union {Missing, Torn}],
     dir : BOOLEAN, dest : [Files -> FileStates \union {Missing}], zipinfo : BOOLEAN]
(* todo: the files that are still to be extracted, or to get the mode;     *)
(* open: the one that is being written.  swapped: history, whether another *)
(* controller has written to the upload since it was compared.             *)
Reading ==
    [hash : Versions \union {Missing}, todo : SUBSET Files, open : Files \union {Missing},
     swapped : BOOLEAN]
Nothing == [hash |-> Missing, todo |-> {}, open |-> Missing, swapped |-> FALSE]
Places == {"hash", "upload", "uploading", "dest", "verify", "creates", "list", "diff", "extract",
           "attributes", "after"}

TypeOK ==
    /\ actual \in Hosts /\ memo \in Memos
    /\ run \in RunStates(Tasks, Places, Reading)
    /\ ~Checking

t == run.task
now == run.read
dest == actual.dest
(* What the agent extracts from.                                           *)
src == IF t.remote THEN actual.archive ELSE actual.upload[now.hash]

-----------------------------------------------------------------------------
(* Not in check mode, which unarchive does not have.                       *)
First(task) == IF task.remote THEN "dest" ELSE "hash"
Start == \E task \in Tasks : Begin(task, "apply", First(task), Nothing)

(* The controller: the archive is read for its checksum and then again.    *)
Upload(place, content) ==
    /\ actual' = [actual EXCEPT !.upload[now.hash] = content]
    /\ run' = [run EXCEPT !.at = place]
    /\ UNCHANGED memo
Hash ==
    /\ At("hash")
    /\ IF actual.archive = Missing THEN Stops("failed")
       ELSE Reads("upload", [now EXCEPT !.hash = actual.archive])
UploadOnce ==   \* mutant
    /\ At("upload")
    /\ IF actual.upload[now.hash] = Missing THEN Upload("uploading", Torn) ELSE Goto("verify")
BeginUpload == At("upload") /\ Upload("uploading", Torn)
EndUpload == At("uploading") /\ Upload("dest", actual.archive)

(* The agent: the destination and the archive have to be there, and an     *)
(* archive that was uploaded to be the one that was hashed.                *)
StatDest ==
    /\ At("dest")
    /\ IF ~actual.dir \/ src = Missing THEN Refuse
       ELSE Goto(IF t.remote THEN "creates" ELSE "verify")
Verify == At("verify") /\ IF src = now.hash THEN Goto("creates") ELSE Refuse
Creates ==
    /\ At("creates")
    /\ IF t.creates = Missing THEN Goto(IF t.list THEN "list" ELSE "diff")
       ELSE IF dest[t.creates] # Missing THEN Answer(FALSE)
       ELSE Goto(IF t.list THEN "list" ELSE "diff")
ListFiles == At("list") /\ IF src = Torn THEN Stops("failed") ELSE Goto("diff")

(* tar compares every file with the archive, its mode included; for a zip  *)
(* each file has to exist.  Neither looks at include and exclude.  An      *)
(* archive that cannot be compared is not unarchived.                      *)
DiffTar ==
    /\ src # Torn
    /\ \A f \in Files : dest[f] = [content |-> src, asked |-> FALSE, newer |-> FALSE]
DiffZip == actual.zipinfo /\ src # Torn /\ \A f \in Files : dest[f] # Missing
IsUnarchived ==
    /\ At("diff")
    /\ IF (t.type = "tar" /\ DiffTar) \/ (t.type = "zip" /\ DiffZip)
       THEN Answer(FALSE) ELSE Reads("extract", [now EXCEPT !.todo = t.select])
(* A comparison that fails counts among what disturbs a run.               *)
DiffFails ==
    /\ At("diff") /\ Undisturbed
    /\ run' = [run EXCEPT !.at = "extract", !.read.todo = t.select, !.disturbed = TRUE]
    /\ UNCHANGED <<actual, memo>>

(* A file is made anew, and gets its content and then the time it has in   *)
(* the archive.  Of an archive that is cut short only some files are, and  *)
(* they are those of whatever is being uploaded.                           *)
Written(f, content) ==
    [actual EXCEPT !.dest[f] = [content |-> content, asked |-> FALSE, newer |-> content = Torn]]
Packed == IF src = Torn THEN Versions ELSE {src}
KeepNewer(f, v) ==
    /\ t.newer /\ dest[f] # Missing
    /\ dest[f].newer \/ (t.type = "zip" /\ dest[f].content = v)
Open(f, v) ==
    IF KeepNewer(f, v) THEN Reads("extract", [now EXCEPT !.todo = @ \ {f}])
    ELSE Step("extract", Written(f, Torn), [now EXCEPT !.open = f], TRUE)
(* What was removed or replaced meanwhile is not what is written to.       *)
Fill(f, v) ==
    LET a == IF dest[f] = Written(f, Torn).dest[f] THEN Written(f, v) ELSE actual IN
    Step("extract", a, [now EXCEPT !.todo = @ \ {f}, !.open = Missing], TRUE)
Extract ==
    /\ At("extract") /\ now.todo # {}
    /\ \/ (src = Torn \/ ~actual.dir) /\ Stops("failed")
       \/ now.open = Missing /\ actual.dir /\ \E f \in now.todo, v \in Packed : Open(f, v)
       \/ /\ now.open # Missing /\ (src = Torn => now.todo # {now.open})
          /\ \E v \in Packed : Fill(now.open, v)
(* Owner and mode of everything that is listed at the destination are set. *)
(* One that is gone by then ends the walk with an error.                   *)
Listed == {f \in Files : dest[f] # Missing}
Extracted ==
    /\ At("extract") /\ now.todo = {}
    /\ IF ~t.mode THEN Goto("after")
       ELSE IF ~actual.dir THEN Stops("failed")
       ELSE Reads("attributes", [now EXCEPT !.todo = Listed])
ApplyAttributes ==
    /\ At("attributes")
    /\ IF now.todo = {} THEN Goto("after")
       ELSE \E f \in now.todo :
              IF dest[f] = Missing THEN Stops("failed")
              ELSE Step("attributes", [actual EXCEPT !.dest[f].asked = TRUE],
                        [now EXCEPT !.todo = @ \ {f}], run.changed)
Finish == At("after") /\ Answer(TRUE)
CallError == CallFails(Places \ {"diff", "after"})

(* Another controller uploads what it has under the same name: the archive *)
(* that was hashed, or one that took its place after it was hashed.        *)
Compared == run.at \notin {"hash", "upload", "uploading", "dest", "verify"}
OtherUpload ==
    \E v \in Versions, c \in Versions \union {Torn} :
      /\ actual.upload[v] \notin {Missing, c}
      /\ actual' = [actual EXCEPT !.upload[v] = c] /\ memo' = NoMemo
      /\ run' = IF Idle THEN run ELSE [run EXCEPT !.disturbed = TRUE, !.read.swapped = Compared]

(* Somebody changes the archive, the destination or a file.                *)
Outside ==
    \/ \E v \in Versions :
          actual.archive \in {Missing, v - 1} /\ Interferes([actual EXCEPT !.archive = v])
    \/ Interferes([actual EXCEPT !.dir = ~@, !.dest = [f \in Files |-> Missing]])
    \/ actual.dir /\ \E f \in Files :
          Interferes([actual EXCEPT !.dest[f] = [content |-> Own, asked |-> FALSE, newer |-> TRUE]])
    \/ \E f \in Files : Interferes([actual EXCEPT !.dest[f] = Missing])
    \/ OtherUpload

Steps ==
    \/ Hash \/ BeginUpload \/ EndUpload \/ StatDest \/ Verify \/ Creates \/ ListFiles
    \/ IsUnarchived \/ DiffFails \/ Extract \/ Extracted \/ ApplyAttributes \/ Finish
Init ==
    InitRuns([archive : {Missing, 1}, upload : {[v \in Versions |-> Missing]},
              dir : BOOLEAN, dest : {[f \in Files |-> Missing]}, zipinfo : BOOLEAN], Tasks)
Next == Start \/ Steps \/ CallError \/ Killed \/ (Undisturbed /\ Outside)
Spec == Init /\ [][Next]_vars

-----------------------------------------------------------------------------
(* The files are those of the archive, or newer if these are to be kept;   *)
(* for a zip the module only sees to it that they exist.                   *)
Satisfied(task, h) ==
    \/ task.creates # Missing /\ h.dest[task.creates] # Missing
    \/ \A f \in task.select :
          /\ h.dest[f] # Missing
          /\ task.type = "tar" /\ ~(task.newer /\ h.dest[f].newer) => h.dest[f].content = h.archive

(* A task that sets no mode and takes all files settles, if the program    *)
(* that lists a zip is there.                                              *)
Idempotent ==
    ~t.mode /\ ~t.newer /\ t.select = Files /\ (t.type = "zip" => actual.zipinfo) => Unchanging

(* A failed or killed run, an upload that was cut short included, leaves   *)
(* nothing that the next one refuses, where there are an archive and a     *)
(* destination.                                                            *)
Recovers == actual.dir /\ actual.archive # Missing => Recovering

(* Nothing is extracted but the archive whose checksum the controller took *)
(* whoever changes the archive meanwhile, or uploads another one under its *)
(* name, but for an upload between the comparison and the extraction       *)
(* (unarchive/executor.go:48, 121).                                        *)
ExtractsWhatWasHashed ==
    \A f \in Files :
      Extract /\ ~t.remote /\ ~now.swapped /\ dest'[f] # dest[f] => dest'[f].content \in {now.hash, Torn}

(* What is excluded, or newer than the archive and to be kept, stays.      *)
KeepsTheRest ==
    \A f \in Files :
      ~Idle /\ run'.disturbed = run.disturbed /\ dest[f] # Missing /\ f # now.open
        /\ (f \notin t.select \/ (t.newer /\ dest[f].newer)) =>
           dest'[f] # Missing /\ dest'[f].content = dest[f].content
=============================================================================

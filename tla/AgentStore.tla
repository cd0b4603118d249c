----------------------------- MODULE AgentStore -----------------------------
(***************************************************************************)
(* How a process of dibra gets its agent.  Processes of one user share a   *)
(* cache with an archive and the binary in it.  What is missing is         *)
(* downloaded, or extracted, into a temporary file with a fixed name and   *)
(* renamed.  A controller uploads the binary to its host, unless the agent *)
(* there has the right version; a daemon checks it and installs a copy.    *)
(* Two processes may have one temporary file open, so names and files are  *)
(* apart: a file can be truncated by one and renamed by the other.         *)
(***************************************************************************)
EXTENDS Naturals, FiniteSets

CONSTANTS
    Procs,
    Inodes,    \* bound: files at a time
    Requests,  \* what processes are started for
    Releases,  \* which agents the release may contain while the processes run
    Together   \* bound: processes at a time

None == 0   \* no file has the name
Parts == {1, 2}
Agents == {"right", "wrong"}
Torn == "torn"
Missing == "missing"
Contents == Agents \union {Torn}

ASSUME StoreAssumption ==
    /\ None \notin Inodes /\ Inodes \subseteq Nat
    /\ Requests \subseteq [kind : {"controller", "daemon"}, force : BOOLEAN, become : BOOLEAN]
    /\ Requests # {} /\ Releases \subseteq Agents

Names == {"archive", "archive.tmp", "binary", "binary.tmp"}
Tmp == [archive |-> "archive.tmp", binary |-> "binary.tmp"]

VARIABLES
    release,  \* the agent that a download contains
    dir,      \* which file has which name in the cache
    data,     \* what is written in each file since it was truncated
    runtime,  \* the daemon's own copy
    host,     \* the agent on the controllers' host
    procs,
    crowd,    \* history: two processes were there at once
    helpless  \* history: the last process was alone and found what it could not use
vars == <<release, dir, data, runtime, host, procs, crowd, helpless>>

Replies == {"none", "ok", "refused", "failed"}
Places ==
    {"idle", "stat", "archive", "get", "create", "fill", "rename", "extract", "xcreate", "xfill",
     "xrename", "check", "installed", "copy", "install", "verify", "probe", "remove", "upload",
     "send", "chmod"}
(* fd: the open temporary file; part: what is to be written next; content: *)
(* what was read; again: the binary was removed once; alone: no other      *)
(* process was there since it started.                                     *)
ProcStates ==
    [at : Places, req : Requests, fd : Inodes \union {None}, part : Parts,
     content : Contents \union {Missing}, again : BOOLEAN, reply : Replies,
     alone : BOOLEAN]
NoRequest == CHOOSE r \in Requests : TRUE
Rest(r) ==
    [at |-> "idle", req |-> r, fd |-> None, part |-> 1, content |-> Missing, again |-> FALSE,
     reply |-> "none", alone |-> TRUE]

TypeOK ==
    /\ release \in Agents /\ dir \in [Names -> Inodes \union {None}]
    /\ data \in [Inodes -> [parts : SUBSET Parts, of : Contents]]
    /\ runtime \in Contents \union {Missing} /\ host \in Contents \union {Missing}
    /\ procs \in [Procs -> ProcStates] /\ crowd \in BOOLEAN /\ helpless \in BOOLEAN
    /\ \A n, m \in Names : dir[n] = dir[m] => n = m \/ dir[n] = None

Content(i) == IF data[i].parts = Parts THEN data[i].of ELSE Torn
Named(n) == IF dir[n] = None THEN Missing ELSE Content(dir[n])
Active == {p \in Procs : procs[p].at # "idle"}
Empty == [parts |-> {}, of |-> Torn]
Unused == Inodes \ ({dir[n] : n \in Names} \union {procs[p].fd : p \in Procs})
(* The file a name gets when it is opened: its own, or a new one.          *)
Opened(name) ==
    IF dir[name] # None THEN {dir[name]} ELSE {i \in Unused : \A j \in Unused : i <= j}
At(p, place) == procs[p].at = place
req(p) == procs[p].req

Init ==
    /\ release \in Releases
    /\ dir = [n \in Names |-> None]
    /\ data = [i \in Inodes |-> Empty]
    /\ runtime = Missing /\ host \in {Missing, "wrong"}
    /\ procs = [p \in Procs |-> Rest(NoRequest)]
    /\ crowd = FALSE /\ helpless = FALSE

-----------------------------------------------------------------------------
Goto(p, place) == procs' = [procs EXCEPT ![p].at = place] /\ UNCHANGED helpless
Ends(p, reply) ==
    /\ procs' = [procs EXCEPT ![p] = [Rest(NoRequest) EXCEPT !.reply = reply]]
    /\ helpless' = (reply = "refused" /\ procs[p].alone)
Stay == UNCHANGED <<release, crowd>>
Files == <<dir, data>>
Copies == <<runtime, host>>

(* Processes meet once: what they leave is found by ones that come alone.  *)
Start(p) ==
    /\ At(p, "idle") /\ Cardinality(Active) < Together /\ (Active = {} \/ ~crowd)
    /\ \E r \in Requests :
          procs' = [q \in Procs |->
                      IF q = p THEN [Rest(r) EXCEPT !.at = "stat", !.alone = Active = {}]
                      ELSE [procs[q] EXCEPT !.alone = FALSE]]
    /\ crowd' = (crowd \/ Active # {}) /\ helpless' = (helpless /\ Active = {})
    /\ UNCHANGED <<release, Files, Copies>>

(* Resolve: the binary, or the archive, or the release.                    *)
Resolved(p) == IF req(p).kind = "daemon" THEN "check" ELSE "probe"
StatBinary(p) ==
    /\ At(p, "stat")
    /\ Goto(p, IF dir["binary"] # None THEN Resolved(p) ELSE "archive")
    /\ UNCHANGED <<Files, Copies>> /\ Stay
StatArchive(p) ==
    /\ At(p, "archive")
    /\ Goto(p, IF dir["archive"] # None THEN "extract" ELSE "get")
    /\ UNCHANGED <<Files, Copies>> /\ Stay
Get(p) ==
    /\ At(p, "get")
    /\ procs' = [procs EXCEPT ![p].at = "create", ![p].content = release]
    /\ UNCHANGED <<Files, Copies, helpless>> /\ Stay

OpenDirectly(p, name, place) ==   \* mutant
    LET final == IF name = "binary.tmp" THEN "binary" ELSE "archive" IN
    \E i \in Opened(final) :
        /\ dir' = [dir EXCEPT ![final] = i, ![name] = i]
        /\ data' = [j \in Inodes |->
                       IF j = i THEN [parts |-> {}, of |-> procs[p].content]
                       ELSE IF j \in Unused THEN Empty ELSE data[j]]
        /\ procs' = [procs EXCEPT ![p].at = place, ![p].fd = i, ![p].part = 1]
        /\ UNCHANGED helpless
(* Opening a name truncates the file that has it, also one that another    *)
(* process has open.                                                       *)
OpenTmp(p, name, place) ==
    \E i \in Opened(name) :
        /\ dir' = [dir EXCEPT ![name] = i]
        /\ data' = [j \in Inodes |->
                       IF j = i THEN [parts |-> {}, of |-> procs[p].content]
                       ELSE IF j \in Unused THEN Empty ELSE data[j]]
        /\ procs' = [procs EXCEPT ![p].at = place, ![p].fd = i, ![p].part = 1]
        /\ UNCHANGED helpless
WritePart(p, place) ==
    LET i == procs[p].fd
        k == procs[p].part IN
    /\ data' = [data EXCEPT ![i].parts = @ \union {k},
                            ![i].of = IF @ = procs[p].content THEN @ ELSE Torn]
    /\ procs' = [procs EXCEPT ![p] = IF k = 1 THEN [@ EXCEPT !.part = 2]
                                     ELSE [@ EXCEPT !.at = place, !.fd = None, !.part = 1,
                                                    !.content = Missing]]
    /\ UNCHANGED <<dir, helpless>>
(* The name is moved, whichever file has it by now.                        *)
RenameTmp(p, name, place) ==
    /\ IF dir[Tmp[name]] = None THEN Ends(p, "refused") /\ UNCHANGED dir
       ELSE /\ dir' = [dir EXCEPT ![name] = dir[Tmp[name]], ![Tmp[name]] = None]
            /\ Goto(p, place)
    /\ UNCHANGED data

CreateDownload(p) ==
    At(p, "create") /\ OpenTmp(p, "archive.tmp", "fill") /\ UNCHANGED Copies /\ Stay
Download(p) == At(p, "fill") /\ WritePart(p, "rename") /\ UNCHANGED Copies /\ Stay
RenameDownload(p) ==
    At(p, "rename") /\ RenameTmp(p, "archive", "extract") /\ UNCHANGED Copies /\ Stay

KeepArchive(p) ==   \* mutant
    UNCHANGED dir /\ Ends(p, "refused")
(* An archive that cannot be used is removed.                              *)
DropArchive(p) ==
    /\ dir' = [dir EXCEPT !["archive"] = None] /\ Ends(p, "refused")
OpenArchive(p) ==
    /\ At(p, "extract")
    /\ \/ Named("archive") \in {Missing, Torn} /\ DropArchive(p)
       \/ Named("archive") # Missing
          /\ procs' = [procs EXCEPT ![p].at = "xcreate", ![p].content = Named("archive")]
          /\ UNCHANGED <<dir, helpless>>
    /\ UNCHANGED <<data, Copies>> /\ Stay
CreateBinary(p) ==
    At(p, "xcreate") /\ OpenTmp(p, "binary.tmp", "xfill") /\ UNCHANGED Copies /\ Stay
(* The archive ends too early: so does the binary.                         *)
Extract(p) ==
    /\ At(p, "xfill")
    /\ IF procs[p].content = Torn /\ procs[p].part = 2
       THEN dir' = [dir EXCEPT !["binary.tmp"] = None, !["archive"] = None]
            /\ Ends(p, "refused") /\ UNCHANGED data
       ELSE WritePart(p, "xrename")
    /\ UNCHANGED Copies /\ Stay
RenameBinary(p) ==
    At(p, "xrename") /\ RenameTmp(p, "binary", Resolved(p)) /\ UNCHANGED Copies /\ Stay

-----------------------------------------------------------------------------
(* The daemon: PrepareLocal                                                *)
CheckBinary(p) ==
    /\ At(p, "check")
    /\ IF Named("binary") = "right" THEN Goto(p, "installed") /\ UNCHANGED dir
       ELSE IF procs[p].again THEN Ends(p, "refused") /\ UNCHANGED dir
       ELSE /\ dir' = [dir EXCEPT !["binary"] = None]
            /\ procs' = [procs EXCEPT ![p].at = "stat", ![p].again = TRUE]
            /\ UNCHANGED helpless
    /\ UNCHANGED <<data, Copies>> /\ Stay
CheckInstalled(p) ==
    /\ At(p, "installed")
    /\ IF ~req(p).force /\ runtime = "right" THEN Ends(p, "ok") ELSE Goto(p, "copy")
    /\ UNCHANGED <<Files, Copies>> /\ Stay
(* The copy is made in a file of the process's own.                        *)
CopyBinary(p) ==
    /\ At(p, "copy")
    /\ IF dir["binary"] = None THEN Ends(p, "refused")
       ELSE /\ procs' = [procs EXCEPT ![p].at = "install", ![p].content = Named("binary")]
            /\ UNCHANGED helpless
    /\ UNCHANGED <<Files, Copies>> /\ Stay
Install(p) ==
    /\ At(p, "install")
    /\ runtime' = procs[p].content /\ Goto(p, "verify") /\ UNCHANGED <<Files, host>> /\ Stay
Verify(p) ==
    /\ At(p, "verify") /\ Ends(p, IF runtime = "right" THEN "ok" ELSE "refused")
    /\ UNCHANGED <<Files, Copies>> /\ Stay

-----------------------------------------------------------------------------
(* The controller: the agent of the host.  One that is torn has no version.*)
Probe(p) ==
    /\ At(p, "probe")
    /\ IF ~req(p).force /\ host = "right" THEN Ends(p, "ok")
       ELSE Goto(p, IF req(p).become THEN "remove" ELSE "upload")
    /\ UNCHANGED <<Files, Copies>> /\ Stay
Remove(p) ==
    /\ At(p, "remove")
    /\ host' = Missing /\ Goto(p, "upload") /\ UNCHANGED <<Files, runtime>> /\ Stay
ReadBinary(p) ==
    /\ At(p, "upload")
    /\ IF dir["binary"] = None THEN Ends(p, "refused") /\ UNCHANGED host
       ELSE /\ procs' = [procs EXCEPT ![p].at = "send", ![p].content = Named("binary")]
            /\ host' = Torn /\ UNCHANGED helpless
    /\ UNCHANGED <<Files, runtime>> /\ Stay
Send(p) ==
    /\ At(p, "send")
    /\ host' = procs[p].content /\ Goto(p, "chmod") /\ UNCHANGED <<Files, runtime>> /\ Stay
Chmod(p) ==
    /\ At(p, "chmod")
    /\ Ends(p, IF host = Missing THEN "refused" ELSE "ok") /\ UNCHANGED <<Files, Copies>> /\ Stay

(* A call fails: what was being written is removed.                        *)
CallError(p) ==
    /\ ~At(p, "idle") /\ Ends(p, "failed")
    /\ dir' = IF At(p, "fill") \/ At(p, "rename") THEN [dir EXCEPT !["archive.tmp"] = None]
              ELSE IF At(p, "xfill") \/ At(p, "xrename")
              THEN [dir EXCEPT !["binary.tmp"] = None, !["archive"] = None]
              ELSE IF At(p, "extract") \/ At(p, "xcreate") THEN [dir EXCEPT !["archive"] = None]
              ELSE dir
    /\ UNCHANGED <<data, Copies>> /\ Stay
Killed(p) == ~At(p, "idle") /\ Ends(p, "failed") /\ UNCHANGED <<Files, Copies>> /\ Stay

(* The release is replaced by one that has the right agent.                *)
Republish ==
    /\ release' \in Releases \ {release} /\ "right" = release'
    /\ UNCHANGED <<Files, Copies, procs, crowd, helpless>>

Fetching(p) ==
    \/ StatBinary(p) \/ StatArchive(p) \/ Get(p) \/ CreateDownload(p) \/ Download(p)
    \/ RenameDownload(p) \/ OpenArchive(p) \/ CreateBinary(p) \/ Extract(p) \/ RenameBinary(p)
Preparing(p) == CheckBinary(p) \/ CheckInstalled(p) \/ CopyBinary(p) \/ Install(p) \/ Verify(p)
Uploading(p) == Probe(p) \/ Remove(p) \/ ReadBinary(p) \/ Send(p) \/ Chmod(p)
Next ==
    \/ \E p \in Procs :
          Start(p) \/ Fetching(p) \/ Preparing(p) \/ Uploading(p) \/ CallError(p) \/ Killed(p)
    \/ Republish
Spec == Init /\ [][Next]_vars

-----------------------------------------------------------------------------
(* Whatever is killed when, the cache has no half written file under the   *)
(* names that are used, as long as the processes come one after another.   *)
CacheWhole == ~crowd => Named("archive") # Torn /\ Named("binary") # Torn

(* The daemon's agent is its own: no process that is killed replaces it by *)
(* one that is torn or of another version.                                 *)
RuntimeMatches == ~crowd => runtime \in {Missing, "right"}

(* A daemon that finds in the cache what it cannot use, whatever processes *)
(* that shared a temporary file left there, leaves nothing of it to the    *)
(* next daemon, which succeeds if no call fails, unless the archive holds  *)
(* an agent of another version.                                            *)
Heals ==
    \A p \in Procs :
      ~(/\ ~At(p, "idle") /\ req(p).kind = "daemon" /\ procs[p].alone /\ helpless
        /\ procs'[p].reply = "refused" /\ Named("archive") # "wrong")

(* A controller goes on with the agent of its own version on the host,     *)
(* whatever an earlier upload left there, if the cache has none of another.*)
AgentMatches ==
    \A p \in Procs :
      At(p, "idle") \/ procs'[p].reply # "ok" \/ req(p).kind = "daemon" \/ crowd
      \/ host = "right" \/ Named("binary") = "wrong"

(* Whatever is killed when, what the processes keep is whole, and the copy *)
(* that the daemon runs is of its own version.                             *)
StoreSound == CacheWhole /\ RuntimeMatches

(* A process that goes on has the agent of its own version on the host,    *)
(* and what a daemon cannot use is not left for the next one.              *)
Serves == [][Heals /\ AgentMatches]_vars

(* "dibra-deploy downloads and caches its matching agent"                  *)
(* (docs/DibraDeploy.md:169)                                               *)
CachesMatching == Named("binary") # Torn
=============================================================================

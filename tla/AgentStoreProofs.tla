-------------------------- MODULE AgentStoreProofs --------------------------
(***************************************************************************)
(* What AgentStore guarantees for any number of processes and files: its   *)
(* types, that whatever is killed when the cache and the daemon's copy     *)
(* stay sound, and that a process that goes on has the right agent.        *)
(***************************************************************************)
EXTENDS AgentStore, TLAPS

Alone(p) == ~At(p, "idle") /\ procs[p].alone
Idle(p) == At(p, "idle")

(* A process has no reply before it ends, and knows what it is to write.   *)
Underway ==
    \A p \in Procs :
        /\ ~Idle(p) => procs[p].reply = "none"
        /\ procs[p].at \in {"create", "xcreate"} => procs[p].content # Missing

(* Daemons do not upload and controllers do not install.                   *)
Kinds ==
    \A p \in Procs :
        /\ procs[p].at \in {"check", "installed", "copy", "install", "verify"}
           => req(p).kind = "daemon"
        /\ procs[p].at \in {"probe", "remove", "upload", "send", "chmod"}
           => req(p).kind = "controller"

(* One that is alone is the only one, and so is whoever is there before    *)
(* processes meet or after one was helpless.                               *)
Solitude ==
    /\ \A p, q \in Procs : Alone(p) /\ ~Idle(q) => q = p
    /\ ~crowd \/ helpless => \A p \in Procs : Idle(p) \/ Alone(p)

(* What a process that is alone has found or written is still there.       *)
Filling(p, name) ==
    /\ procs[p].fd # None /\ dir[name] = procs[p].fd
    /\ data[procs[p].fd] =
          [parts |-> IF procs[p].part = 1 THEN {} ELSE {1}, of |-> procs[p].content]
Downloading(p) ==
    /\ procs[p].at \in {"create", "fill"} => procs[p].content \in Agents
    /\ At(p, "fill") => Filling(p, "archive.tmp")
    /\ At(p, "rename") => Named("archive.tmp") \in Agents
Extracting(p) ==
    /\ At(p, "extract") => dir["archive"] # None
    /\ procs[p].at \in {"xcreate", "xfill"} =>
          procs[p].content = Named("archive") /\ Named("archive") \in Contents
    /\ At(p, "xfill") => Filling(p, "binary.tmp")
    /\ At(p, "xrename") =>
          Named("binary.tmp") = Named("archive") /\ Named("archive") \in Agents
Installing(p) ==
    /\ At(p, "stat") /\ procs[p].again => dir["binary"] = None
    /\ At(p, "check") /\ procs[p].again =>
          Named("binary") = Named("archive") /\ Named("archive") \in Agents
    /\ procs[p].at \in {"installed", "copy"} => Named("binary") = "right"
    /\ At(p, "install") => procs[p].content = "right"
    /\ At(p, "verify") => runtime = "right"
Serving(p) ==
    /\ procs[p].at \in {"probe", "remove", "upload"} => dir["binary"] # None
    /\ At(p, "send") => procs[p].content = Named("binary") /\ procs[p].content # Missing
    /\ At(p, "chmod") => host = Named("binary") /\ host # Missing
InOrder ==
    \A p \in Procs :
        Alone(p) => Downloading(p) /\ Extracting(p) /\ Installing(p) /\ Serving(p)

(* Nobody who was helpless leaves a torn archive.                          *)
ArchiveDropped == helpless => Named("archive") # Torn

IInv ==
    TypeOK /\ Underway /\ Kinds /\ Solitude /\ InOrder /\ ArchiveDropped /\ StoreSound

-----------------------------------------------------------------------------
(* The three outcomes of reading a file, and when there is one.            *)
LEMMA NamedType ==
  ASSUME TypeOK, NEW n \in Names
  PROVE Named(n) \in Contents \union {Missing} /\ (Named(n) = Missing <=> dir[n] = None)
<1>1. dir[n] # None => Content(dir[n]) \in Contents
  BY DEF TypeOK, Content, Contents
<1>2. Missing \notin Contents
  BY DEF Missing, Contents, Agents, Torn
<1> QED
  BY <1>1, <1>2 DEF Named

LEMMA SameFile ==
  ASSUME TypeOK, NEW n \in Names, dir'[n] = dir[n],
         dir[n] # None => data'[dir[n]] = data[dir[n]]
  PROVE Named(n)' = Named(n)
BY DEF Named, Content

LEMMA SameFiles ==
  ASSUME TypeOK, UNCHANGED <<dir, data>> PROVE \A n \in Names : Named(n)' = Named(n)
BY SameFile

(* One that is there is alone, or none is and no promise is made.          *)
LEMMA OnlyOne ==
  ASSUME IInv, NEW p \in Procs, ~Idle(p), ~crowd \/ helpless PROVE Alone(p)
BY DEF IInv, Solitude

(* A process goes on: nothing changes for the others.                      *)
LEMMA StepOfOne ==
  ASSUME IInv, NEW p \in Procs, ~Idle(p), NEW x \in ProcStates,
         procs' = [procs EXCEPT ![p] = x], UNCHANGED <<crowd, helpless>>,
         x.at # "idle", x.alone = procs[p].alone, x.req = req(p), x.reply = "none",
         x.at \in {"create", "xcreate"} => x.content # Missing,
         x.at \in {"check", "installed", "copy", "install", "verify"} => req(p).kind = "daemon",
         x.at \in {"probe", "remove", "upload", "send", "chmod"}
           => req(p).kind = "controller",
         Alone(p) =>
           Downloading(p)' /\ Extracting(p)' /\ Installing(p)' /\ Serving(p)'
  PROVE procs' \in [Procs -> ProcStates] /\ Underway' /\ Kinds' /\ Solitude' /\ InOrder'
<1> USE DEF IInv, TypeOK
<1>1. procs' \in [Procs -> ProcStates] /\ procs'[p] = x
  OBVIOUS
<1>2. \A q \in Procs \ {p} : procs'[q] = procs[q]
  OBVIOUS
<1>3. Underway'
  BY <1>1, <1>2 DEF Underway, Idle, At
<1>4. Kinds'
  BY <1>1, <1>2 DEF Kinds, req
<1>5. \A q \in Procs : (Idle(q) <=> Idle(q)') /\ (Alone(q) <=> Alone(q)')
  BY <1>1, <1>2 DEF Idle, Alone, At
<1>6. Solitude'
  BY <1>5 DEF Solitude
<1>7. \A q \in Procs : Alone(q)' => q = p /\ Alone(p)
  BY <1>5 DEF Solitude
<1>8. InOrder'
  BY <1>7 DEF InOrder
<1> QED
  BY <1>1, <1>3, <1>4, <1>6, <1>8

LEMMA RestType == ASSUME NEW r \in Requests PROVE Rest(r) \in ProcStates
BY StoreAssumption DEF Rest, ProcStates, Places, Parts, Replies

LEMMA NoRequestType == NoRequest \in Requests
BY StoreAssumption DEF NoRequest

(* A process ends: nobody who is there is alone.                           *)
LEMMA EndOfOne ==
  ASSUME IInv, NEW p \in Procs, ~Idle(p), NEW r \in Replies, Ends(p, r), UNCHANGED crowd
  PROVE /\ procs' \in [Procs -> ProcStates] /\ helpless' \in BOOLEAN
        /\ Underway' /\ Kinds' /\ Solitude' /\ InOrder'
        /\ helpless' => Alone(p) /\ r = "refused"
<1> USE DEF IInv, TypeOK
<1> DEFINE x == [Rest(NoRequest) EXCEPT !.reply = r]
<1>1. x \in ProcStates /\ x.at = "idle"
  BY RestType, NoRequestType DEF ProcStates, Rest
<1>2. procs' \in [Procs -> ProcStates] /\ procs'[p] = x
  BY <1>1 DEF Ends
<1>3. \A q \in Procs \ {p} : procs'[q] = procs[q]
  BY DEF Ends
<1>4. helpless' \in BOOLEAN /\ (helpless' => Alone(p) /\ r = "refused")
  BY DEF Ends, Alone, Idle
<1> HIDE DEF x
<1>5. Underway'
  BY <1>1, <1>2, <1>3 DEF Underway, Idle, At
<1>6. Kinds'
  BY <1>1, <1>2, <1>3 DEF Kinds, req
<1>7. Idle(p)' /\ \A q \in Procs \ {p} : (Idle(q) <=> Idle(q)') /\ (Alone(q) <=> Alone(q)')
  BY <1>1, <1>2, <1>3 DEF Idle, Alone, At
<1>8. \A q \in Procs : ~Alone(q)'
  BY <1>7 DEF Solitude, Alone, Idle
<1>9. ~crowd' \/ helpless' => \A q \in Procs : Idle(q)'
  BY <1>4, <1>7 DEF Solitude, Alone, Idle
<1>10. Solitude' /\ InOrder'
  BY <1>8, <1>9 DEF Solitude, InOrder
<1> QED
  BY <1>2, <1>4, <1>5, <1>6, <1>10

-----------------------------------------------------------------------------
(* What is left to show of a step that leaves the files alone.             *)
LEMMA FilesKept ==
  ASSUME IInv, UNCHANGED <<release, dir, data, crowd>>,
         procs' \in [Procs -> ProcStates], helpless' \in BOOLEAN,
         runtime' \in Contents \union {Missing}, host' \in Contents \union {Missing},
         helpless' => Named("archive") # Torn,
         ~crowd => runtime' \in {Missing, "right"}
  PROVE TypeOK' /\ ArchiveDropped' /\ StoreSound'
<1>1. TypeOK'
  BY DEF IInv, TypeOK
<1>2. Named("archive")' = Named("archive") /\ Named("binary")' = Named("binary")
  BY SameFiles DEF IInv, Names
<1>3. ArchiveDropped' /\ StoreSound'
  BY <1>2 DEF IInv, StoreSound, CacheWhole, RuntimeMatches, ArchiveDropped
<1> QED
  BY <1>1, <1>3

(* A process that goes on without touching the files.                      *)
LEMMA StepAside ==
  ASSUME IInv, NEW p \in Procs, ~Idle(p), NEW x \in ProcStates,
         procs' = [procs EXCEPT ![p] = x], UNCHANGED <<release, dir, data, crowd, helpless>>,
         runtime' \in Contents \union {Missing}, host' \in Contents \union {Missing},
         Alone(p) => runtime' \in {Missing, "right"} \/ runtime' = runtime,
         x.at # "idle", x.alone = procs[p].alone, x.req = req(p), x.reply = "none",
         x.at \in {"create", "xcreate"} => x.content # Missing,
         x.at \in {"check", "installed", "copy", "install", "verify"} => req(p).kind = "daemon",
         x.at \in {"probe", "remove", "upload", "send", "chmod"}
           => req(p).kind = "controller",
         ASSUME Alone(p), procs'[p] = x, \A n \in Names : Named(n)' = Named(n)
         PROVE Downloading(p)' /\ Extracting(p)' /\ Installing(p)' /\ Serving(p)'
  PROVE IInv'
<1>1. \A n \in Names : Named(n)' = Named(n)
  BY SameFiles DEF IInv
<1>2. procs'[p] = x
  BY DEF IInv, TypeOK
<1>3. procs' \in [Procs -> ProcStates] /\ Underway' /\ Kinds' /\ Solitude' /\ InOrder'
  BY <1>1, <1>2, StepOfOne
<1>4. ~crowd => runtime' \in {Missing, "right"}
  BY OnlyOne DEF IInv, StoreSound, RuntimeMatches
<1>5. TypeOK' /\ ArchiveDropped' /\ StoreSound'
  BY <1>3, <1>4, FilesKept DEF IInv, TypeOK, ArchiveDropped
<1> QED
  BY <1>3, <1>5 DEF IInv

(* A process that ends without touching the files.                         *)
LEMMA EndAside ==
  ASSUME IInv, NEW p \in Procs, ~Idle(p), NEW r \in Replies, Ends(p, r),
         UNCHANGED <<release, dir, data, runtime, host, crowd>>,
         Alone(p) /\ r = "refused" => Named("archive") # Torn
  PROVE IInv'
<1>1. /\ procs' \in [Procs -> ProcStates] /\ helpless' \in BOOLEAN
      /\ Underway' /\ Kinds' /\ Solitude' /\ InOrder'
      /\ helpless' => Alone(p) /\ r = "refused"
  BY EndOfOne
<1>2. TypeOK' /\ ArchiveDropped' /\ StoreSound'
  BY <1>1, FilesKept DEF IInv, TypeOK, StoreSound, RuntimeMatches
<1> QED
  BY <1>1, <1>2 DEF IInv

-----------------------------------------------------------------------------
(* Looking into the cache and asking for the archive.                      *)
LEMMA LookingSteps ==
  ASSUME IInv, NEW p \in Procs, StatBinary(p) \/ StatArchive(p) \/ Get(p) PROVE IInv'
<1> USE DEF Idle, At, Stay, Files, Copies, Goto
<1> DEFINE y == procs[p]
<1>1. y \in ProcStates /\ ~Idle(p) /\ y.reply = "none" /\ req(p).kind \in {"controller", "daemon"}
  BY StoreAssumption DEF IInv, TypeOK, Underway, StatBinary, StatArchive, Get, ProcStates, req
<1>2. runtime \in Contents \union {Missing} /\ host \in Contents \union {Missing}
      /\ release \in Agents
  BY DEF IInv, TypeOK
<1>3. CASE StatBinary(p)
  <2> DEFINE x == [y EXCEPT !.at = IF dir["binary"] # None THEN Resolved(p) ELSE "archive"]
  <2>1. x \in ProcStates /\ procs' = [procs EXCEPT ![p] = x]
    BY <1>1, <1>3 DEF StatBinary, ProcStates, Places, Resolved
  <2>2. x.at = (IF dir["binary"] # None THEN Resolved(p) ELSE "archive")
        /\ x.alone = y.alone /\ x.req = req(p) /\ x.reply = "none" /\ x.again = y.again
    BY <1>1 DEF ProcStates, req
  <2>3. Alone(p) => Downloading(p) /\ Extracting(p) /\ Installing(p) /\ Serving(p)
    BY DEF IInv, InOrder
  <2>4. ASSUME Alone(p), procs'[p] = x PROVE Downloading(p)' /\ Extracting(p)'
    BY <2>2, <2>4 DEF Downloading, Extracting, Resolved
  <2>5. ASSUME Alone(p), procs'[p] = x PROVE Installing(p)' /\ Serving(p)'
    BY <1>3, <2>2, <2>3, <2>5 DEF Installing, Serving, Resolved, StatBinary
  <2> HIDE DEF x
  <2> QED
    BY <1>1, <1>2, <1>3, <2>1, <2>2, <2>4, <2>5, StepAside DEF StatBinary, Resolved
<1>4. CASE StatArchive(p)
  <2> DEFINE x == [y EXCEPT !.at = IF dir["archive"] # None THEN "extract" ELSE "get"]
  <2>1. x \in ProcStates /\ procs' = [procs EXCEPT ![p] = x]
    BY <1>1, <1>4 DEF StatArchive, ProcStates, Places
  <2>2. x.at = (IF dir["archive"] # None THEN "extract" ELSE "get")
        /\ x.alone = y.alone /\ x.req = req(p) /\ x.reply = "none"
    BY <1>1 DEF ProcStates, req
  <2>4. ASSUME Alone(p), procs'[p] = x
        PROVE Downloading(p)' /\ Extracting(p)' /\ Installing(p)' /\ Serving(p)'
    BY <1>4, <2>2, <2>4 DEF Downloading, Extracting, Installing, Serving, StatArchive
  <2> HIDE DEF x
  <2> QED
    BY <1>1, <1>2, <1>4, <2>1, <2>2, <2>4, StepAside DEF StatArchive
<1>5. CASE Get(p)
  <2> DEFINE x == [y EXCEPT !.at = "create", !.content = release]
  <2>1. x \in ProcStates /\ procs' = [procs EXCEPT ![p] = x]
    BY <1>1, <1>2, <1>5 DEF Get, ProcStates, Places, Contents
  <2>2. x.at = "create" /\ x.content = release
        /\ x.alone = y.alone /\ x.req = req(p) /\ x.reply = "none"
    BY <1>1 DEF ProcStates, req
  <2>4. ASSUME Alone(p), procs'[p] = x
        PROVE Downloading(p)' /\ Extracting(p)' /\ Installing(p)' /\ Serving(p)'
    BY <1>2, <2>2, <2>4 DEF Downloading, Extracting, Installing, Serving
  <2>5. release # Missing
    BY <1>2 DEF Agents, Missing
  <2> HIDE DEF x
  <2> QED
    BY <1>1, <1>2, <1>5, <2>1, <2>2, <2>4, <2>5, StepAside DEF Get
<1> QED
  BY <1>3, <1>4, <1>5

-----------------------------------------------------------------------------
(* The daemon looks whether its copy is needed, makes it and runs it.      *)
LEMMA PreparingSteps ==
  ASSUME IInv, NEW p \in Procs,
         CheckInstalled(p) \/ CopyBinary(p) \/ Install(p) \/ Verify(p)
  PROVE IInv'
<1> USE DEF Idle, At, Stay, Files, Copies, Goto
<1> DEFINE y == procs[p]
<1>1. y \in ProcStates /\ ~Idle(p) /\ y.reply = "none" /\ req(p).kind = "daemon"
  BY DEF IInv, TypeOK, Underway, Kinds, CheckInstalled, CopyBinary, Install, Verify
<1>2. runtime \in Contents \union {Missing} /\ host \in Contents \union {Missing}
      /\ {"ok", "refused"} \subseteq Replies
  BY DEF IInv, TypeOK, Replies
<1>3. Alone(p) => Installing(p)
  BY DEF IInv, InOrder
<1>4. "binary" \in Names /\ Named("binary") \in Contents \union {Missing}
      /\ (Named("binary") = Missing <=> dir["binary"] = None)
  BY NamedType DEF IInv, Names
<1>5. CASE CheckInstalled(p)
  <2>1. CASE ~req(p).force /\ runtime = "right"
    BY <1>1, <1>2, <1>5, <2>1, EndAside DEF CheckInstalled
  <2>2. CASE ~(~req(p).force /\ runtime = "right")
    <3> DEFINE x == [y EXCEPT !.at = "copy"]
    <3>1. x \in ProcStates /\ procs' = [procs EXCEPT ![p] = x]
      BY <1>1, <1>5, <2>2 DEF CheckInstalled, ProcStates, Places
    <3>2. x.at = "copy" /\ x.alone = y.alone /\ x.req = req(p) /\ x.reply = "none"
      BY <1>1 DEF ProcStates, req
    <3>3. ASSUME Alone(p), procs'[p] = x, \A n \in Names : Named(n)' = Named(n)
          PROVE Downloading(p)' /\ Extracting(p)' /\ Installing(p)' /\ Serving(p)'
      BY <1>3, <1>4, <1>5, <3>2, <3>3
      DEF Downloading, Extracting, Installing, Serving, CheckInstalled
    <3> HIDE DEF x
    <3> QED
      BY <1>1, <1>2, <1>5, <2>2, <3>1, <3>2, <3>3, StepAside DEF CheckInstalled
  <2> QED
    BY <2>1, <2>2
<1>6. CASE CopyBinary(p)
  <2>1. CASE dir["binary"] = None
    <3>1. ~Alone(p)
      BY <1>3, <1>4, <1>6, <2>1 DEF Installing, CopyBinary, Missing
    <3> QED
      BY <1>1, <1>2, <1>6, <2>1, <3>1, EndAside DEF CopyBinary
  <2>2. CASE dir["binary"] # None
    <3> DEFINE x == [y EXCEPT !.at = "install", !.content = Named("binary")]
    <3>1. x \in ProcStates /\ procs' = [procs EXCEPT ![p] = x]
      BY <1>1, <1>4, <1>6, <2>2 DEF CopyBinary, ProcStates, Places
    <3>2. x.at = "install" /\ x.alone = y.alone /\ x.req = req(p) /\ x.reply = "none"
          /\ x.content = Named("binary")
      BY <1>1 DEF ProcStates, req
    <3>3. ASSUME Alone(p), procs'[p] = x, \A n \in Names : Named(n)' = Named(n)
          PROVE Downloading(p)' /\ Extracting(p)' /\ Installing(p)' /\ Serving(p)'
      BY <1>3, <1>6, <3>2, <3>3
      DEF Downloading, Extracting, Installing, Serving, CopyBinary
    <3> HIDE DEF x
    <3> QED
      BY <1>1, <1>2, <1>6, <2>2, <3>1, <3>2, <3>3, StepAside DEF CopyBinary
  <2> QED
    BY <2>1, <2>2
<1>7. CASE Install(p)
  <2> DEFINE x == [y EXCEPT !.at = "verify"]
  <2>1. x \in ProcStates /\ procs' = [procs EXCEPT ![p] = x] /\ runtime' = y.content
        /\ y.content \in Contents \union {Missing}
    BY <1>1, <1>7 DEF Install, ProcStates, Places
  <2>2. x.at = "verify" /\ x.alone = y.alone /\ x.req = req(p) /\ x.reply = "none"
    BY <1>1 DEF ProcStates, req
  <2>3. Alone(p) => runtime' = "right"
    BY <1>3, <1>7, <2>1 DEF Installing, Install
  <2>4. ASSUME Alone(p), procs'[p] = x
        PROVE Downloading(p)' /\ Extracting(p)' /\ Installing(p)' /\ Serving(p)'
    BY <2>2, <2>3, <2>4 DEF Downloading, Extracting, Installing, Serving
  <2> HIDE DEF x
  <2> QED
    BY <1>1, <1>2, <1>7, <2>1, <2>2, <2>3, <2>4, StepAside DEF Install
<1>8. CASE Verify(p)
  <2>1. CASE runtime = "right"
    BY <1>1, <1>2, <1>8, <2>1, EndAside DEF Verify
  <2>2. CASE runtime # "right"
    <3>1. ~Alone(p)
      BY <1>3, <1>8, <2>2 DEF Installing, Verify
    <3> QED
      BY <1>1, <1>2, <1>8, <2>2, <3>1, EndAside DEF Verify
  <2> QED
    BY <2>1, <2>2
<1> QED
  BY <1>5, <1>6, <1>7, <1>8

(* The controller looks at the host, and replaces the agent there.         *)
LEMMA UploadingSteps ==
  ASSUME IInv, NEW p \in Procs, Uploading(p) PROVE IInv'
<1> USE DEF Idle, At, Stay, Files, Copies, Goto
<1> DEFINE y == procs[p]
<1>1. y \in ProcStates /\ ~Idle(p) /\ y.reply = "none" /\ req(p).kind = "controller"
  BY DEF IInv, TypeOK, Underway, Kinds, Uploading, Probe, Remove, ReadBinary, Send, Chmod
<1>2. runtime \in Contents \union {Missing} /\ host \in Contents \union {Missing}
      /\ {"ok", "refused"} \subseteq Replies
  BY DEF IInv, TypeOK, Replies
<1>3. Alone(p) => Serving(p)
  BY DEF IInv, InOrder
<1>4. "binary" \in Names /\ Named("binary") \in Contents \union {Missing}
      /\ (Named("binary") = Missing <=> dir["binary"] = None)
  BY NamedType DEF IInv, Names
<1>5. CASE Probe(p)
  <2>1. CASE ~req(p).force /\ host = "right"
    BY <1>1, <1>2, <1>5, <2>1, EndAside DEF Probe
  <2>2. CASE ~(~req(p).force /\ host = "right")
    <3> DEFINE x == [y EXCEPT !.at = IF req(p).become THEN "remove" ELSE "upload"]
    <3>1. x \in ProcStates /\ procs' = [procs EXCEPT ![p] = x]
      BY <1>1, <1>5, <2>2 DEF Probe, ProcStates, Places
    <3>2. x.at \in {"remove", "upload"} /\ x.alone = y.alone /\ x.req = req(p) /\ x.reply = "none"
      BY <1>1 DEF ProcStates, req
    <3>3. ASSUME Alone(p), procs'[p] = x
          PROVE Downloading(p)' /\ Extracting(p)' /\ Installing(p)' /\ Serving(p)'
      BY <1>3, <1>4, <1>5, <3>2, <3>3
      DEF Downloading, Extracting, Installing, Serving, Probe
    <3> HIDE DEF x
    <3> QED
      BY <1>1, <1>2, <1>5, <2>2, <3>1, <3>2, <3>3, StepAside DEF Probe
  <2> QED
    BY <2>1, <2>2
<1>6. CASE Remove(p)
  <2> DEFINE x == [y EXCEPT !.at = "upload"]
  <2>1. x \in ProcStates /\ procs' = [procs EXCEPT ![p] = x]
    BY <1>1, <1>6 DEF Remove, ProcStates, Places
  <2>2. x.at = "upload" /\ x.alone = y.alone /\ x.req = req(p) /\ x.reply = "none"
    BY <1>1 DEF ProcStates, req
  <2>3. ASSUME Alone(p), procs'[p] = x
        PROVE Downloading(p)' /\ Extracting(p)' /\ Installing(p)' /\ Serving(p)'
    BY <1>3, <1>6, <2>2, <2>3 DEF Downloading, Extracting, Installing, Serving, Remove
  <2> HIDE DEF x
  <2> QED
    BY <1>1, <1>2, <1>6, <2>1, <2>2, <2>3, StepAside DEF Remove
<1>7. CASE ReadBinary(p)
  <2>1. CASE dir["binary"] = None
    <3>1. ~Alone(p)
      BY <1>3, <1>7, <2>1 DEF Serving, ReadBinary
    <3> QED
      BY <1>1, <1>2, <1>7, <2>1, <3>1, EndAside DEF ReadBinary
  <2>2. CASE dir["binary"] # None
    <3> DEFINE x == [y EXCEPT !.at = "send", !.content = Named("binary")]
    <3>1. x \in ProcStates /\ procs' = [procs EXCEPT ![p] = x] /\ host' = Torn
          /\ Torn \in Contents
      BY <1>1, <1>4, <1>7, <2>2 DEF ReadBinary, ProcStates, Places, Contents
    <3>2. x.at = "send" /\ x.alone = y.alone /\ x.req = req(p) /\ x.reply = "none"
          /\ x.content = Named("binary")
      BY <1>1 DEF ProcStates, req
    <3>3. ASSUME Alone(p), procs'[p] = x, \A n \in Names : Named(n)' = Named(n)
          PROVE Downloading(p)' /\ Extracting(p)' /\ Installing(p)' /\ Serving(p)'
      BY <1>4, <2>2, <3>2, <3>3 DEF Downloading, Extracting, Installing, Serving
    <3> HIDE DEF x
    <3> QED
      BY <1>1, <1>2, <1>7, <2>2, <3>1, <3>2, <3>3, StepAside DEF ReadBinary
  <2> QED
    BY <2>1, <2>2
<1>8. CASE Send(p)
  <2> DEFINE x == [y EXCEPT !.at = "chmod"]
  <2>1. x \in ProcStates /\ procs' = [procs EXCEPT ![p] = x] /\ host' = y.content
        /\ y.content \in Contents \union {Missing}
    BY <1>1, <1>8 DEF Send, ProcStates, Places
  <2>2. x.at = "chmod" /\ x.alone = y.alone /\ x.req = req(p) /\ x.reply = "none"
    BY <1>1 DEF ProcStates, req
  <2>3. ASSUME Alone(p), procs'[p] = x, \A n \in Names : Named(n)' = Named(n)
        PROVE Downloading(p)' /\ Extracting(p)' /\ Installing(p)' /\ Serving(p)'
    BY <1>3, <1>4, <1>8, <2>1, <2>2, <2>3 DEF Downloading, Extracting, Installing, Serving, Send
  <2> HIDE DEF x
  <2> QED
    BY <1>1, <1>2, <1>8, <2>1, <2>2, <2>3, StepAside DEF Send
<1>9. CASE Chmod(p)
  <2>1. CASE host # Missing
    BY <1>1, <1>2, <1>9, <2>1, EndAside DEF Chmod
  <2>2. CASE host = Missing
    <3>1. ~Alone(p)
      BY <1>3, <1>9, <2>2 DEF Serving, Chmod
    <3> QED
      BY <1>1, <1>2, <1>9, <2>2, <3>1, EndAside DEF Chmod
  <2> QED
    BY <2>1, <2>2
<1> QED
  BY <1>5, <1>6, <1>7, <1>8, <1>9 DEF Uploading

-----------------------------------------------------------------------------
(* What is left to show of steps that change names or files.               *)
LEMMA StepInside ==
  ASSUME IInv, NEW p \in Procs, ~Idle(p), NEW x \in ProcStates,
         procs' = [procs EXCEPT ![p] = x],
         UNCHANGED <<release, runtime, host, crowd, helpless>>,
         dir' \in [Names -> Inodes \union {None}],
         data' \in [Inodes -> [parts : SUBSET Parts, of : Contents]],
         \A n, m \in Names : dir'[n] = dir'[m] => n = m \/ dir'[n] = None,
         x.at # "idle", x.alone = procs[p].alone, x.req = req(p), x.reply = "none",
         x.at \in {"create", "xcreate"} => x.content # Missing,
         x.at \in {"check", "installed", "copy", "install", "verify"} => req(p).kind = "daemon",
         x.at \in {"probe", "remove", "upload", "send", "chmod"}
           => req(p).kind = "controller",
         ASSUME Alone(p), procs'[p] = x
         PROVE /\ Downloading(p)' /\ Extracting(p)' /\ Installing(p)' /\ Serving(p)'
               /\ Named("archive")' = Torn => Named("archive") = Torn
               /\ Named("binary")' = Torn => Named("binary") = Torn
  PROVE IInv'
<1>1. procs'[p] = x
  BY DEF IInv, TypeOK
<1>2. procs' \in [Procs -> ProcStates] /\ Underway' /\ Kinds' /\ Solitude' /\ InOrder'
  BY <1>1, StepOfOne
<1>3. TypeOK'
  BY <1>2 DEF IInv, TypeOK
<1>4. ArchiveDropped' /\ StoreSound'
  BY <1>1, OnlyOne DEF IInv, StoreSound, CacheWhole, RuntimeMatches, ArchiveDropped
<1> QED
  BY <1>2, <1>3, <1>4 DEF IInv

LEMMA EndInside ==
  ASSUME IInv, NEW p \in Procs, ~Idle(p), NEW r \in Replies, Ends(p, r),
         UNCHANGED <<release, data, runtime, host, crowd>>,
         dir' \in [Names -> Inodes \union {None}],
         \A n \in Names : dir'[n] \in {dir[n], None},
         Alone(p) /\ r = "refused" => dir'["archive"] = None
  PROVE IInv'
<1>1. /\ procs' \in [Procs -> ProcStates] /\ helpless' \in BOOLEAN
      /\ Underway' /\ Kinds' /\ Solitude' /\ InOrder'
      /\ helpless' => Alone(p) /\ r = "refused"
  BY EndOfOne
<1>2. TypeOK'
  BY <1>1 DEF IInv, TypeOK
<1>3. \A n \in Names : Named(n)' \in {Named(n), Missing}
  BY DEF Named, Content
<1>4. Missing # Torn /\ {"archive", "binary"} \subseteq Names
  BY DEF Missing, Torn, Names
<1>5. StoreSound'
  BY <1>3, <1>4 DEF IInv, StoreSound, CacheWhole, RuntimeMatches
<1>6. ArchiveDropped'
  BY <1>1, <1>4 DEF ArchiveDropped, Named
<1> QED
  BY <1>1, <1>2, <1>5, <1>6 DEF IInv

(* A temporary name is opened: the names in use keep their files.          *)
OpensAs(p, name, place, i) ==
    /\ dir' = [dir EXCEPT ![name] = i] /\ dir' \in [Names -> Inodes \union {None}]
    /\ data' \in [Inodes -> [parts : SUBSET Parts, of : Contents]]
    /\ data'[i] = [parts |-> {}, of |-> procs[p].content]
    /\ \A n, m \in Names : dir'[n] = dir'[m] => n = m \/ dir'[n] = None
    /\ Named("archive")' = Named("archive") /\ Named("binary")' = Named("binary")
    /\ procs' = [procs EXCEPT ![p] = [procs[p] EXCEPT !.at = place, !.fd = i, !.part = 1]]
LEMMA OpenTmpKeeps ==
  ASSUME TypeOK, NEW p \in Procs, NEW name \in {"archive.tmp", "binary.tmp"}, NEW place,
         OpenTmp(p, name, place), procs[p].content \in Contents
  PROVE \E i \in Inodes : OpensAs(p, name, place, i)
<1> USE DEF TypeOK
<1>1. PICK i \in Opened(name) :
        /\ dir' = [dir EXCEPT ![name] = i]
        /\ data' = [j \in Inodes |->
                       IF j = i THEN [parts |-> {}, of |-> procs[p].content]
                       ELSE IF j \in Unused THEN Empty ELSE data[j]]
        /\ procs' = [procs EXCEPT ![p].at = place, ![p].fd = i, ![p].part = 1]
  BY DEF OpenTmp
<1>2. name \in Names
  BY DEF Names
<1>3. i \in Inodes /\ \A n \in Names \ {name} : dir[n] # i
  BY <1>2, StoreAssumption DEF Opened, Unused
<1>4. dir' \in [Names -> Inodes \union {None}]
      /\ \A n, m \in Names : dir'[n] = dir'[m] => n = m \/ dir'[n] = None
  BY <1>1, <1>2, <1>3
<1>5. data' \in [Inodes -> [parts : SUBSET Parts, of : Contents]]
  BY <1>1, <1>3 DEF Empty, Contents
<1>6. \A n \in Names \ {name} :
        dir'[n] = dir[n] /\ (dir[n] # None => data'[dir[n]] = data[dir[n]])
  BY <1>1, <1>2, <1>3 DEF Unused
<1>7. \A n \in Names \ {name} : Named(n)' = Named(n)
  BY <1>6 DEF Named, Content
<1>8. procs' = [procs EXCEPT ![p] = [procs[p] EXCEPT !.at = place, !.fd = i, !.part = 1]]
  BY <1>1
<1>9. data'[i] = [parts |-> {}, of |-> procs[p].content]
  BY <1>1, <1>3
<1>10. {"archive", "binary"} \subseteq Names \ {name}
  BY DEF Names
<1>11. Named("archive")' = Named("archive") /\ Named("binary")' = Named("binary")
  BY <1>7, <1>10
<1> HIDE DEF TypeOK
<1> QED
  BY <1>1, <1>3, <1>4, <1>5, <1>8, <1>9, <1>11 DEF OpensAs

(* A part is written: into the file of the name, if nobody else moved it.  *)
LEMMA WritePartKeeps ==
  ASSUME TypeOK, NEW p \in Procs, NEW place, WritePart(p, place)
  PROVE /\ data' \in [Inodes -> [parts : SUBSET Parts, of : Contents]] /\ dir' = dir
        /\ procs' = [procs EXCEPT ![p] =
              IF procs[p].part = 1 THEN [procs[p] EXCEPT !.part = 2]
              ELSE [procs[p] EXCEPT !.at = place, !.fd = None, !.part = 1, !.content = Missing]]
        /\ \A name \in Names :
             Filling(p, name) =>
               /\ data'[procs[p].fd] =
                     [parts |-> IF procs[p].part = 1 THEN {1} ELSE Parts, of |-> procs[p].content]
               /\ \A n \in Names \ {name} : Named(n)' = Named(n)
<1> USE DEF TypeOK
<1> DEFINE i == procs[p].fd
           k == procs[p].part
           c == procs[p].content
<1>1. k \in Parts /\ i \in Inodes \union {None}
  BY DEF ProcStates
<1>2. data' = [data EXCEPT ![i].parts = @ \union {k}, ![i].of = IF @ = c THEN @ ELSE Torn]
      /\ dir' = dir
  BY DEF WritePart
<1>3. data' \in [Inodes -> [parts : SUBSET Parts, of : Contents]]
  BY <1>1, <1>2 DEF Contents
<1>4. procs' = [procs EXCEPT ![p] =
              IF procs[p].part = 1 THEN [procs[p] EXCEPT !.part = 2]
              ELSE [procs[p] EXCEPT !.at = place, !.fd = None, !.part = 1, !.content = Missing]]
  BY DEF WritePart
<1>5. ASSUME NEW name \in Names, Filling(p, name)
      PROVE /\ data'[i] = [parts |-> IF k = 1 THEN {1} ELSE Parts, of |-> c]
            /\ \A n \in Names \ {name} : Named(n)' = Named(n)
  <2>1. i \in Inodes /\ data[i] = [parts |-> IF k = 1 THEN {} ELSE {1}, of |-> c]
    BY <1>1, <1>5 DEF Filling
  <2>2. data'[i].parts = data[i].parts \union {k} /\ data'[i].of = c
    BY <1>2, <2>1
  <2>3. data[i].parts \union {k} = IF k = 1 THEN {1} ELSE Parts
    BY <1>1, <2>1 DEF Parts
  <2>4. data'[i] = [parts |-> IF k = 1 THEN {1} ELSE Parts, of |-> c]
    BY <1>3, <2>1, <2>2, <2>3
  <2>5. \A n \in Names \ {name} : dir[n] # None => dir[n] # i /\ data'[dir[n]] = data[dir[n]]
    BY <1>2, <1>5, <2>1 DEF Filling
  <2> QED
    BY <1>2, <2>4, <2>5, SameFile
<1> QED
  BY <1>2, <1>3, <1>4, <1>5

(* A temporary file that is there gets the name.                           *)
LEMMA RenameKeeps ==
  ASSUME TypeOK, NEW name \in {"archive", "binary"}, dir[Tmp[name]] # None, data' = data,
         dir' = [dir EXCEPT ![name] = dir[Tmp[name]], ![Tmp[name]] = None]
  PROVE /\ dir' \in [Names -> Inodes \union {None}]
        /\ \A n, m \in Names : dir'[n] = dir'[m] => n = m \/ dir'[n] = None
        /\ Named(name)' = Named(Tmp[name])
        /\ \A n \in Names \ {name, Tmp[name]} : Named(n)' = Named(n)
<1>1. name \in Names /\ Tmp[name] \in Names /\ name # Tmp[name]
  BY DEF Names, Tmp
<1>2. /\ dir' \in [Names -> Inodes \union {None}]
      /\ \A n, m \in Names : dir'[n] = dir'[m] => n = m \/ dir'[n] = None
  BY <1>1 DEF TypeOK
<1>3. dir'[name] = dir[Tmp[name]] /\ \A n \in Names \ {name, Tmp[name]} : dir'[n] = dir[n]
  BY <1>1 DEF TypeOK
<1>4. Named(name)' = Named(Tmp[name])
  BY <1>3 DEF Named, Content
<1>5. \A n \in Names \ {name, Tmp[name]} : Named(n)' = Named(n)
  BY <1>3, SameFile
<1> QED
  BY <1>2, <1>4, <1>5

-----------------------------------------------------------------------------
(* The archive is downloaded into its temporary file and renamed.          *)
LEMMA DownloadingSteps ==
  ASSUME IInv, NEW p \in Procs, CreateDownload(p) \/ Download(p) \/ RenameDownload(p)
  PROVE IInv'
<1> USE DEF Idle, At, Stay, Files, Copies, Goto
<1> DEFINE y == procs[p]
<1>1. y \in ProcStates /\ ~Idle(p) /\ y.reply = "none" /\ {"ok", "refused"} \subseteq Replies
  BY DEF IInv, TypeOK, Underway, CreateDownload, Download, RenameDownload, Replies
<1>2. Alone(p) => Downloading(p) /\ Installing(p)
  BY DEF IInv, InOrder
<1>3. CASE CreateDownload(p)
  <2>1. y.content \in Contents
    BY <1>1, <1>3 DEF IInv, TypeOK, Underway, CreateDownload, ProcStates
  <2>2. PICK i \in Inodes : OpensAs(p, "archive.tmp", "fill", i)
    <3>1. TypeOK /\ OpenTmp(p, "archive.tmp", "fill")
      BY <1>3 DEF CreateDownload, IInv
    <3> QED
      BY <2>1, <3>1, OpenTmpKeeps
  <2> DEFINE x == [y EXCEPT !.at = "fill", !.fd = i, !.part = 1]
  <2>3. x \in ProcStates
    BY <1>1 DEF ProcStates, Places, Parts
  <2>4. x.at = "fill" /\ x.alone = y.alone /\ x.req = req(p) /\ x.reply = "none"
        /\ x.fd = i /\ x.part = 1 /\ x.content = y.content
    BY <1>1 DEF ProcStates, req
  <2>5. i # None /\ dir'["archive.tmp"] = i
    BY <2>2, StoreAssumption DEF IInv, TypeOK, Names, OpensAs
  <2>6. ASSUME Alone(p), procs'[p] = x
        PROVE Downloading(p)' /\ Extracting(p)' /\ Installing(p)' /\ Serving(p)'
    BY <1>2, <1>3, <2>2, <2>4, <2>5, <2>6
    DEF Downloading, Extracting, Installing, Serving, Filling, CreateDownload, OpensAs
  <2>7. UNCHANGED <<release, runtime, host, crowd, helpless>>
    BY <1>3 DEF CreateDownload, OpenTmp
  <2>8. procs' = [procs EXCEPT ![p] = x]
    BY <2>2 DEF OpensAs
  <2> HIDE DEF x
  <2> QED
    BY <1>1, <2>2, <2>3, <2>4, <2>6, <2>7, <2>8, StepInside DEF OpensAs
<1>4. CASE Download(p)
  <2> DEFINE x == IF y.part = 1 THEN [y EXCEPT !.part = 2]
                  ELSE [y EXCEPT !.at = "rename", !.fd = None, !.part = 1, !.content = Missing]
  <2>1. /\ data' \in [Inodes -> [parts : SUBSET Parts, of : Contents]] /\ dir' = dir
        /\ procs' = [procs EXCEPT ![p] = x]
        /\ Filling(p, "archive.tmp") =>
             /\ data'[y.fd] = [parts |-> IF y.part = 1 THEN {1} ELSE Parts, of |-> y.content]
             /\ \A n \in Names \ {"archive.tmp"} : Named(n)' = Named(n)
    BY <1>4, WritePartKeeps DEF Download, IInv, Names
  <2>2. x \in ProcStates
    BY <1>1 DEF ProcStates, Places, Parts
  <2>3. /\ x.at = (IF y.part = 1 THEN "fill" ELSE "rename") /\ x.alone = y.alone /\ x.req = req(p)
        /\ x.reply = "none" /\ (y.part = 1 => x.part = 2 /\ x.fd = y.fd /\ x.content = y.content)
    BY <1>1, <1>4 DEF ProcStates, req, Download
  <2> HIDE DEF x
  <2>4. \A n, m \in Names : dir'[n] = dir'[m] => n = m \/ dir'[n] = None
    BY <2>1 DEF IInv, TypeOK
  <2>5. ASSUME Alone(p), procs'[p] = x
        PROVE /\ Downloading(p)' /\ Extracting(p)' /\ Installing(p)' /\ Serving(p)'
              /\ Named("archive")' = Named("archive") /\ Named("binary")' = Named("binary")
    <3>1. Filling(p, "archive.tmp") /\ y.content \in Agents
      BY <1>2, <1>4, <2>5 DEF Downloading, Download
    <3>2. Named("archive")' = Named("archive") /\ Named("binary")' = Named("binary")
      BY <2>1, <3>1 DEF Names
    <3>3. y.part # 1 => Named("archive.tmp")' = y.content
      BY <2>1, <3>1 DEF Named, Content, Filling
    <3>4. y.part = 1 => Filling(p, "archive.tmp")'
      <4>1. y.part = 1 => data'[y.fd] = [parts |-> {1}, of |-> y.content]
        BY <2>1, <3>1
      <4>2. y.fd # None /\ dir'["archive.tmp"] = y.fd
        BY <2>1, <3>1 DEF Filling
      <4> QED
        BY <2>3, <2>5, <4>1, <4>2 DEF Filling
    <3> QED
      BY <2>3, <2>5, <3>1, <3>2, <3>3, <3>4 DEF Downloading, Extracting, Installing, Serving
  <2> QED
    BY <1>1, <1>4, <2>1, <2>2, <2>3, <2>4, <2>5, StepInside DEF Download, WritePart, IInv, TypeOK
<1>5. CASE RenameDownload(p)
  <2>1. CASE dir["archive.tmp"] = None
    <3>1. ~Alone(p)
      BY <1>2, <1>5, <2>1 DEF Downloading, RenameDownload, Named, Missing, Agents
    <3> QED
      BY <1>1, <1>5, <2>1, <3>1, EndAside DEF RenameDownload, RenameTmp, Tmp
  <2>2. CASE dir["archive.tmp"] # None
    <3> DEFINE x == [y EXCEPT !.at = "extract"]
    <3>1. x \in ProcStates /\ procs' = [procs EXCEPT ![p] = x]
      BY <1>1, <1>5, <2>2 DEF RenameDownload, RenameTmp, Tmp, ProcStates, Places
    <3>2. x.at = "extract" /\ x.alone = y.alone /\ x.req = req(p) /\ x.reply = "none"
      BY <1>1 DEF ProcStates, req
    <3>3. data' = data /\ dir' = [dir EXCEPT !["archive"] = dir["archive.tmp"],
                                             !["archive.tmp"] = None]
          /\ UNCHANGED helpless
      BY <1>5, <2>2 DEF RenameDownload, RenameTmp, Tmp
    <3>4. /\ dir' \in [Names -> Inodes \union {None}]
          /\ \A n, m \in Names : dir'[n] = dir'[m] => n = m \/ dir'[n] = None
          /\ Named("archive")' = Named("archive.tmp") /\ Named("binary")' = Named("binary")
          /\ dir'["archive"] # None
      <4>1. Tmp["archive"] = "archive.tmp" /\ "binary" \in Names \ {"archive", "archive.tmp"}
            /\ {"archive", "archive.tmp"} \subseteq Names
        BY DEF Tmp, Names
      <4>2. dir'["archive"] # None
        BY <2>2, <3>3, <4>1 DEF IInv, TypeOK
      <4> QED
        BY <2>2, <3>3, <4>1, <4>2, RenameKeeps DEF IInv
    <3>5. ASSUME Alone(p), procs'[p] = x
          PROVE /\ Downloading(p)' /\ Extracting(p)' /\ Installing(p)' /\ Serving(p)'
                /\ Named("archive")' # Torn
      BY <1>2, <1>5, <3>2, <3>4, <3>5
      DEF Downloading, Extracting, Installing, Serving, RenameDownload, Agents, Torn
    <3> HIDE DEF x
    <3> QED
      BY <1>1, <1>5, <3>1, <3>2, <3>3, <3>4, <3>5, StepInside DEF RenameDownload, IInv, TypeOK
  <2> QED
    BY <2>1, <2>2
<1> QED
  BY <1>3, <1>4, <1>5

(* The binary is extracted into its temporary file and renamed.            *)
LEMMA ExtractingSteps ==
  ASSUME IInv, NEW p \in Procs, OpenArchive(p) \/ CreateBinary(p) \/ RenameBinary(p)
  PROVE IInv'
<1> USE DEF Idle, At, Stay, Files, Copies, Goto
<1> DEFINE y == procs[p]
<1>1. y \in ProcStates /\ ~Idle(p) /\ y.reply = "none" /\ {"ok", "refused"} \subseteq Replies
      /\ req(p).kind \in {"controller", "daemon"}
  BY StoreAssumption
  DEF IInv, TypeOK, Underway, OpenArchive, CreateBinary, RenameBinary, Replies, ProcStates, req
<1>2. Alone(p) => Extracting(p) /\ Installing(p)
  BY DEF IInv, InOrder
<1>3. \A n \in Names : Named(n) \in Contents \union {Missing}
                       /\ (Named(n) = Missing <=> dir[n] = None)
  BY NamedType DEF IInv
<1>4. {"archive", "binary", "archive.tmp", "binary.tmp"} \subseteq Names
  BY DEF Names
<1>5. CASE OpenArchive(p)
  <2>1. CASE DropArchive(p)
    <3>1. dir' = [dir EXCEPT !["archive"] = None] /\ Ends(p, "refused")
          /\ UNCHANGED <<release, data, runtime, host, crowd>>
      BY <1>5, <2>1 DEF OpenArchive, DropArchive
    <3>2. dir' \in [Names -> Inodes \union {None}] /\ dir'["archive"] = None
          /\ \A n \in Names : dir'[n] \in {dir[n], None}
      BY <1>4, <3>1 DEF IInv, TypeOK
    <3> QED
      BY <1>1, <3>1, <3>2, EndInside
  <2>2. CASE Named("archive") # Missing /\ UNCHANGED <<dir, helpless>>
             /\ procs' = [procs EXCEPT ![p].at = "xcreate", ![p].content = Named("archive")]
    <3> DEFINE x == [y EXCEPT !.at = "xcreate", !.content = Named("archive")]
    <3>1. x \in ProcStates /\ procs' = [procs EXCEPT ![p] = x]
      BY <1>1, <1>3, <1>4, <2>2 DEF ProcStates, Places
    <3>2. x.at = "xcreate" /\ x.alone = y.alone /\ x.req = req(p) /\ x.reply = "none"
          /\ x.content = Named("archive")
      BY <1>1 DEF ProcStates, req
    <3>3. ASSUME Alone(p), procs'[p] = x, \A n \in Names : Named(n)' = Named(n)
          PROVE Downloading(p)' /\ Extracting(p)' /\ Installing(p)' /\ Serving(p)'
      BY <1>3, <1>4, <2>2, <3>2, <3>3 DEF Downloading, Extracting, Installing, Serving
    <3>4. UNCHANGED <<release, dir, data, crowd, helpless, runtime, host>>
      BY <1>5, <2>2 DEF OpenArchive
    <3>5. runtime' \in Contents \union {Missing} /\ host' \in Contents \union {Missing}
      BY <3>4 DEF IInv, TypeOK
    <3> HIDE DEF x
    <3> QED
      BY <1>1, <2>2, <3>1, <3>2, <3>3, <3>4, <3>5, StepAside
  <2> QED
    BY <1>5, <2>1, <2>2 DEF OpenArchive
<1>6. CASE CreateBinary(p)
  <2>1. y.content \in Contents
    BY <1>1, <1>6 DEF IInv, TypeOK, Underway, CreateBinary, ProcStates
  <2>2. PICK i \in Inodes : OpensAs(p, "binary.tmp", "xfill", i)
    <3>1. TypeOK /\ OpenTmp(p, "binary.tmp", "xfill")
      BY <1>6 DEF CreateBinary, IInv
    <3> QED
      BY <2>1, <3>1, OpenTmpKeeps
  <2> DEFINE x == [y EXCEPT !.at = "xfill", !.fd = i, !.part = 1]
  <2>3. x \in ProcStates
    BY <1>1 DEF ProcStates, Places, Parts
  <2>4. x.at = "xfill" /\ x.alone = y.alone /\ x.req = req(p) /\ x.reply = "none"
        /\ x.fd = i /\ x.part = 1 /\ x.content = y.content
    BY <1>1 DEF ProcStates, req
  <2>5. i # None /\ dir'["binary.tmp"] = i
    BY <2>2, StoreAssumption DEF IInv, TypeOK, Names, OpensAs
  <2>6. ASSUME Alone(p), procs'[p] = x
        PROVE Downloading(p)' /\ Extracting(p)' /\ Installing(p)' /\ Serving(p)'
    BY <1>2, <1>6, <2>2, <2>4, <2>5, <2>6
    DEF Downloading, Extracting, Installing, Serving, Filling, CreateBinary, OpensAs
  <2>7. UNCHANGED <<release, runtime, host, crowd, helpless>>
    BY <1>6 DEF CreateBinary, OpenTmp
  <2>8. procs' = [procs EXCEPT ![p] = x]
    BY <2>2 DEF OpensAs
  <2> HIDE DEF x
  <2> QED
    BY <1>1, <2>2, <2>3, <2>4, <2>6, <2>7, <2>8, StepInside DEF OpensAs
<1>7. CASE RenameBinary(p)
  <2>1. CASE dir["binary.tmp"] = None
    <3>1. ~Alone(p)
      BY <1>2, <1>3, <1>4, <1>7, <2>1 DEF Extracting, RenameBinary, Missing, Agents
    <3> QED
      BY <1>1, <1>7, <2>1, <3>1, EndAside DEF RenameBinary, RenameTmp, Tmp
  <2>2. CASE dir["binary.tmp"] # None
    <3> DEFINE x == [y EXCEPT !.at = Resolved(p)]
    <3>1. x \in ProcStates /\ procs' = [procs EXCEPT ![p] = x]
      BY <1>1, <1>7, <2>2 DEF RenameBinary, RenameTmp, Tmp, ProcStates, Places, Resolved
    <3>2. x.at = Resolved(p) /\ x.alone = y.alone /\ x.req = req(p) /\ x.reply = "none"
      BY <1>1 DEF ProcStates, req
    <3>3. data' = data /\ dir' = [dir EXCEPT !["binary"] = dir["binary.tmp"],
                                             !["binary.tmp"] = None]
          /\ UNCHANGED helpless
      BY <1>7, <2>2 DEF RenameBinary, RenameTmp, Tmp
    <3>4. /\ dir' \in [Names -> Inodes \union {None}]
          /\ \A n, m \in Names : dir'[n] = dir'[m] => n = m \/ dir'[n] = None
          /\ Named("binary")' = Named("binary.tmp") /\ Named("archive")' = Named("archive")
          /\ dir'["binary"] # None
      <4>1. Tmp["binary"] = "binary.tmp" /\ "archive" \in Names \ {"binary", "binary.tmp"}
        BY DEF Tmp, Names
      <4>2. dir'["binary"] # None
        BY <1>4, <2>2, <3>3 DEF IInv, TypeOK
      <4> QED
        BY <2>2, <3>3, <4>1, <4>2, RenameKeeps DEF IInv
    <3>5. ASSUME Alone(p), procs'[p] = x
          PROVE /\ Downloading(p)' /\ Extracting(p)' /\ Installing(p)' /\ Serving(p)'
                /\ Named("binary")' # Torn
      BY <1>2, <1>7, <3>2, <3>4, <3>5
      DEF Downloading, Extracting, Installing, Serving, RenameBinary, Agents, Torn, Resolved
    <3> HIDE DEF x
    <3> QED
      BY <1>1, <1>7, <3>1, <3>2, <3>3, <3>4, <3>5, StepInside
      DEF RenameBinary, IInv, TypeOK, Resolved
  <2> QED
    BY <2>1, <2>2
<1> QED
  BY <1>5, <1>6, <1>7

LEMMA ExtractStep ==
  ASSUME IInv, NEW p \in Procs, Extract(p) PROVE IInv'
<1> USE DEF Idle, At, Stay, Files, Copies, Goto
<1> DEFINE y == procs[p]
<1>1. y \in ProcStates /\ ~Idle(p) /\ y.reply = "none" /\ "refused" \in Replies
  BY DEF IInv, TypeOK, Underway, Extract, Replies
<1>2. Alone(p) => Extracting(p)
  BY DEF IInv, InOrder
<1>3. CASE y.content = Torn /\ y.part = 2
  <2>1. dir' = [dir EXCEPT !["binary.tmp"] = None, !["archive"] = None] /\ Ends(p, "refused")
        /\ UNCHANGED <<release, data, runtime, host, crowd>>
    BY <1>3 DEF Extract
  <2>2. dir' \in [Names -> Inodes \union {None}] /\ dir'["archive"] = None
        /\ \A n \in Names : dir'[n] \in {dir[n], None}
    BY <2>1 DEF IInv, TypeOK, Names
  <2> QED
    BY <1>1, <2>1, <2>2, EndInside
<1>4. CASE ~(y.content = Torn /\ y.part = 2)
  <2> DEFINE x == IF y.part = 1 THEN [y EXCEPT !.part = 2]
                  ELSE [y EXCEPT !.at = "xrename", !.fd = None, !.part = 1, !.content = Missing]
  <2>1. /\ data' \in [Inodes -> [parts : SUBSET Parts, of : Contents]] /\ dir' = dir
        /\ procs' = [procs EXCEPT ![p] = x]
        /\ Filling(p, "binary.tmp") =>
             /\ data'[y.fd] = [parts |-> IF y.part = 1 THEN {1} ELSE Parts, of |-> y.content]
             /\ \A n \in Names \ {"binary.tmp"} : Named(n)' = Named(n)
    BY <1>4, WritePartKeeps DEF Extract, IInv, Names
  <2>2. x \in ProcStates
    BY <1>1 DEF ProcStates, Places, Parts
  <2>3. /\ x.at = (IF y.part = 1 THEN "xfill" ELSE "xrename") /\ x.alone = y.alone
        /\ x.req = req(p) /\ x.reply = "none"
        /\ (y.part = 1 => x.part = 2 /\ x.fd = y.fd /\ x.content = y.content)
    BY <1>1, <1>4 DEF ProcStates, req, Extract
  <2> HIDE DEF x
  <2>4. \A n, m \in Names : dir'[n] = dir'[m] => n = m \/ dir'[n] = None
    BY <2>1 DEF IInv, TypeOK
  <2>5. ASSUME Alone(p), procs'[p] = x
        PROVE /\ Downloading(p)' /\ Extracting(p)' /\ Installing(p)' /\ Serving(p)'
              /\ Named("archive")' = Named("archive") /\ Named("binary")' = Named("binary")
    <3>1. Filling(p, "binary.tmp") /\ y.content = Named("archive") /\ Named("archive") \in Contents
      BY <1>2, <2>5 DEF Extracting, Extract
    <3>2. Named("archive")' = Named("archive") /\ Named("binary")' = Named("binary")
      BY <2>1, <3>1 DEF Names
    <3>3. y.part # 1 => Named("binary.tmp")' = y.content
      BY <2>1, <3>1 DEF Named, Content, Filling
    <3>4. y.part = 1 => Filling(p, "binary.tmp")'
      <4>1. y.part = 1 => data'[y.fd] = [parts |-> {1}, of |-> y.content]
        BY <2>1, <3>1
      <4>2. y.fd # None /\ dir'["binary.tmp"] = y.fd
        BY <2>1, <3>1 DEF Filling
      <4> QED
        BY <2>3, <2>5, <4>1, <4>2 DEF Filling
    <3>5. y.part # 1 => y.content \in Agents
      BY <1>1, <1>4, <3>1 DEF ProcStates, Parts, Contents
    <3> QED
      BY <2>3, <2>5, <3>1, <3>2, <3>3, <3>4, <3>5
      DEF Downloading, Extracting, Installing, Serving
  <2>6. UNCHANGED <<release, runtime, host, crowd, helpless>>
    BY <1>4 DEF Extract, WritePart
  <2> QED
    BY <1>1, <2>1, <2>2, <2>3, <2>4, <2>5, <2>6, StepInside DEF IInv, TypeOK
<1> QED
  BY <1>3, <1>4

(* A binary of another version is removed once.                            *)
LEMMA CheckStep ==
  ASSUME IInv, NEW p \in Procs, CheckBinary(p) PROVE IInv'
<1> USE DEF Idle, At, Stay, Files, Copies, Goto
<1> DEFINE y == procs[p]
<1>1. y \in ProcStates /\ ~Idle(p) /\ y.reply = "none" /\ "refused" \in Replies
      /\ req(p).kind = "daemon"
  BY DEF IInv, TypeOK, Underway, Kinds, CheckBinary, Replies
<1>2. Alone(p) => Installing(p)
  BY DEF IInv, InOrder
<1>3. {"archive", "binary"} \subseteq Names
  BY DEF Names
<1>4. CASE Named("binary") = "right"
  <2> DEFINE x == [y EXCEPT !.at = "installed"]
  <2>1. x \in ProcStates /\ procs' = [procs EXCEPT ![p] = x]
    BY <1>1, <1>4 DEF CheckBinary, ProcStates, Places
  <2>2. x.at = "installed" /\ x.alone = y.alone /\ x.req = req(p) /\ x.reply = "none"
    BY <1>1 DEF ProcStates, req
  <2>3. ASSUME Alone(p), procs'[p] = x, \A n \in Names : Named(n)' = Named(n)
        PROVE Downloading(p)' /\ Extracting(p)' /\ Installing(p)' /\ Serving(p)'
    BY <1>3, <1>4, <2>2, <2>3 DEF Downloading, Extracting, Installing, Serving
  <2>4. UNCHANGED <<release, dir, data, crowd, helpless, runtime, host>>
    BY <1>4 DEF CheckBinary
  <2>5. runtime' \in Contents \union {Missing} /\ host' \in Contents \union {Missing}
    BY <2>4 DEF IInv, TypeOK
  <2> HIDE DEF x
  <2> QED
    BY <1>1, <2>1, <2>2, <2>3, <2>4, <2>5, StepAside
<1>5. CASE Named("binary") # "right" /\ y.again
  <2>1. Ends(p, "refused") /\ UNCHANGED <<release, dir, data, runtime, host, crowd>>
    BY <1>5 DEF CheckBinary
  <2>2. Alone(p) => Named("archive") # Torn
    BY <1>2, <1>5 DEF Installing, CheckBinary, Agents, Torn
  <2> QED
    BY <1>1, <2>1, <2>2, EndAside
<1>6. CASE Named("binary") # "right" /\ ~y.again
  <2> DEFINE x == [y EXCEPT !.at = "stat", !.again = TRUE]
  <2>1. x \in ProcStates /\ procs' = [procs EXCEPT ![p] = x]
    BY <1>1, <1>6 DEF CheckBinary, ProcStates, Places
  <2>2. x.at = "stat" /\ x.alone = y.alone /\ x.req = req(p) /\ x.reply = "none"
    BY <1>1 DEF ProcStates, req
  <2>3. dir' = [dir EXCEPT !["binary"] = None]
        /\ UNCHANGED <<release, data, runtime, host, crowd, helpless>>
    BY <1>6 DEF CheckBinary
  <2>4. dir' \in [Names -> Inodes \union {None}] /\ dir'["binary"] = None
        /\ \A n \in Names : dir'[n] \in {dir[n], None}
    BY <1>3, <2>3 DEF IInv, TypeOK
  <2>5. \A n, m \in Names : dir'[n] = dir'[m] => n = m \/ dir'[n] = None
    BY <2>4 DEF IInv, TypeOK
  <2>6. Named("archive")' \in {Named("archive"), Missing} /\ Named("binary")' = Missing
    BY <1>3, <2>3, <2>4 DEF Named, Content
  <2>7. ASSUME Alone(p), procs'[p] = x
        PROVE Downloading(p)' /\ Extracting(p)' /\ Installing(p)' /\ Serving(p)'
    BY <2>2, <2>4, <2>7 DEF Downloading, Extracting, Installing, Serving
  <2>8. Missing # Torn /\ data' \in [Inodes -> [parts : SUBSET Parts, of : Contents]]
    BY <2>3 DEF Missing, Torn, IInv, TypeOK
  <2> HIDE DEF x
  <2> QED
    BY <1>1, <2>1, <2>2, <2>3, <2>4, <2>5, <2>6, <2>7, <2>8, StepInside
<1> QED
  BY <1>4, <1>5, <1>6

(* A call fails, or the process is killed.                                 *)
LEMMA FailingSteps ==
  ASSUME IInv, NEW p \in Procs, CallError(p) \/ Killed(p) PROVE IInv'
<1>1. /\ ~Idle(p) /\ "failed" \in Replies /\ Ends(p, "failed")
      /\ UNCHANGED <<release, data, runtime, host, crowd>>
  BY DEF CallError, Killed, Idle, Replies, Stay, Copies, Files
<1>2. {"archive", "archive.tmp", "binary.tmp"} \subseteq Names
  BY DEF Names
<1>3. dir' \in [Names -> Inodes \union {None}] /\ \A n \in Names : dir'[n] \in {dir[n], None}
  <2>1. CASE CallError(p)
    BY <1>2, <2>1 DEF CallError, IInv, TypeOK
  <2>2. CASE Killed(p)
    BY <2>2 DEF Killed, IInv, TypeOK, Files
  <2> QED
    BY <2>1, <2>2
<1> QED
  BY <1>1, <1>3, EndInside

(* A process that starts ends the solitude of the others.                  *)
LEMMA StartStep == ASSUME IInv, NEW p \in Procs, Start(p) PROVE IInv'
<1> USE DEF IInv, TypeOK
<1>1. PICK r \in Requests :
        procs' = [q \in Procs |->
                    IF q = p THEN [Rest(r) EXCEPT !.at = "stat", !.alone = Active = {}]
                    ELSE [procs[q] EXCEPT !.alone = FALSE]]
  BY DEF Start
<1> DEFINE x == [Rest(r) EXCEPT !.at = "stat", !.alone = Active = {}]
<1>2. x \in ProcStates /\ x.at = "stat" /\ x.req = r /\ x.alone = (Active = {})
      /\ x.reply = "none" /\ x.again = FALSE
  BY RestType DEF ProcStates, Rest, Places
<1>3. procs'[p] = x
  BY <1>1
<1> HIDE DEF x
<1>4. \A q \in Procs \ {p} :
        /\ procs'[q] = [procs[q] EXCEPT !.alone = FALSE] /\ procs'[q] \in ProcStates
        /\ procs'[q].at = procs[q].at /\ procs'[q].req = procs[q].req
        /\ procs'[q].reply = procs[q].reply /\ procs'[q].content = procs[q].content
        /\ procs'[q].alone = FALSE
  <2> SUFFICES ASSUME NEW q \in Procs \ {p}
               PROVE /\ procs'[q] = [procs[q] EXCEPT !.alone = FALSE] /\ procs'[q] \in ProcStates
                     /\ procs'[q].at = procs[q].at /\ procs'[q].req = procs[q].req
                     /\ procs'[q].reply = procs[q].reply /\ procs'[q].content = procs[q].content
                     /\ procs'[q].alone = FALSE
    OBVIOUS
  <2>1. procs'[q] = [procs[q] EXCEPT !.alone = FALSE] /\ procs[q] \in ProcStates
    BY <1>1
  <2> QED
    BY <2>1 DEF ProcStates
<1>5. procs' \in [Procs -> ProcStates]
  BY <1>1, <1>2, <1>3, <1>4
<1>6. UNCHANGED <<release, dir, data, runtime, host>> /\ crowd' = (crowd \/ Active # {})
      /\ helpless' = (helpless /\ Active = {})
  BY DEF Start, Files, Copies
<1>7. Active = {} <=> \A q \in Procs : Idle(q)
  BY DEF Active, Idle, At
<1>8. Underway'
  BY <1>2, <1>3, <1>4 DEF Underway, Idle, At
<1>9. Kinds'
  BY <1>2, <1>3, <1>4 DEF Kinds, req
<1>10. /\ ~Idle(p)' /\ (Alone(p)' <=> \A q \in Procs : Idle(q))
       /\ \A q \in Procs \ {p} : ~Alone(q)' /\ (Idle(q)' <=> Idle(q))
  BY <1>2, <1>3, <1>4, <1>7 DEF Idle, Alone, At
<1>11. Solitude'
  BY <1>6, <1>7, <1>10 DEF Solitude
<1>12. Downloading(p)' /\ Extracting(p)' /\ Installing(p)' /\ Serving(p)'
  BY <1>2, <1>3 DEF Downloading, Extracting, Installing, Serving, At
<1>13. InOrder'
  BY <1>10, <1>12 DEF InOrder
<1>14. TypeOK' /\ ArchiveDropped' /\ StoreSound'
  <2>1. helpless' => Named("archive") # Torn
    BY <1>6 DEF ArchiveDropped
  <2>2. ArchiveDropped' /\ StoreSound'
    BY <1>6, <2>1 DEF ArchiveDropped, StoreSound, CacheWhole, RuntimeMatches, Named, Content
  <2> QED
    BY <1>5, <1>6, <2>2
<1> QED
  BY <1>8, <1>9, <1>11, <1>13, <1>14

LEMMA RepublishStep == ASSUME IInv, Republish \/ UNCHANGED vars PROVE IInv'
<1>1. release' \in Agents /\ UNCHANGED <<dir, data, runtime, host, procs, crowd, helpless>>
  BY StoreAssumption DEF Republish, vars, IInv, TypeOK, Files, Copies
<1> QED
  BY <1>1 DEF IInv, TypeOK, Underway, Kinds, Solitude, InOrder, ArchiveDropped, StoreSound,
    CacheWhole, RuntimeMatches, Named, Content, Alone, Idle, At, req, Downloading, Extracting,
    Installing, Serving, Filling

-----------------------------------------------------------------------------
LEMMA InitIInv == Init => IInv
<1> SUFFICES ASSUME Init PROVE IInv
  OBVIOUS
<1>1. Rest(NoRequest) \in ProcStates /\ Rest(NoRequest).at = "idle"
  BY RestType, NoRequestType DEF Rest
<1>2. procs \in [Procs -> ProcStates] /\ \A p \in Procs : Idle(p)
  BY <1>1 DEF Init, Idle, At
<1>3. TypeOK
  BY <1>2, StoreAssumption
  DEF Init, TypeOK, Empty, Contents, Agents, Torn, Missing, Names, None
<1>4. Underway /\ Kinds /\ Solitude /\ InOrder
  BY <1>2 DEF Init, Underway, Kinds, Solitude, InOrder, Alone, Idle, At
<1>5. ArchiveDropped /\ StoreSound
  BY DEF Init, ArchiveDropped, StoreSound, CacheWhole, RuntimeMatches, Named, Names, Missing, Torn
<1> QED
  BY <1>3, <1>4, <1>5 DEF IInv

LEMMA NextIInv == IInv /\ [Next]_vars => IInv'
<1> SUFFICES ASSUME IInv, [Next]_vars PROVE IInv'
  OBVIOUS
<1>1. ASSUME NEW p \in Procs, Start(p) PROVE IInv'
  BY <1>1, StartStep
<1>2. ASSUME NEW p \in Procs, Fetching(p) PROVE IInv'
  BY <1>2, LookingSteps, DownloadingSteps, ExtractingSteps, ExtractStep DEF Fetching
<1>3. ASSUME NEW p \in Procs, Preparing(p) PROVE IInv'
  BY <1>3, CheckStep, PreparingSteps DEF Preparing
<1>4. ASSUME NEW p \in Procs, Uploading(p) PROVE IInv'
  BY <1>4, UploadingSteps
<1>5. ASSUME NEW p \in Procs, CallError(p) \/ Killed(p) PROVE IInv'
  BY <1>5, FailingSteps
<1>6. CASE Republish \/ UNCHANGED vars
  BY <1>6, RepublishStep
<1> QED
  BY <1>1, <1>2, <1>3, <1>4, <1>5, <1>6 DEF Next

(* The files, the copies and the processes keep to their types.            *)
THEOREM StoreTypes == Spec => []TypeOK
<1>1. IInv => TypeOK
  BY DEF IInv
<1> QED
  BY <1>1, InitIInv, NextIInv, PTL DEF Spec

(* Whatever is killed when, what the processes keep is whole, and the copy *)
(* that the daemon runs is of its own version.                             *)
THEOREM StoreIsSound == Spec => []StoreSound
<1>1. IInv => StoreSound
  BY DEF IInv
<1> QED
  BY <1>1, InitIInv, NextIInv, PTL DEF Spec

-----------------------------------------------------------------------------
Acts(p) == Start(p) \/ Fetching(p) \/ Preparing(p) \/ Uploading(p) \/ CallError(p) \/ Killed(p)

LEMMA EndReplies ==
  ASSUME TypeOK, NEW p \in Procs, NEW r, Ends(p, r)
  PROVE procs'[p].reply = r /\ \A q \in Procs \ {p} : procs'[q].reply = procs[q].reply
BY DEF Ends, Rest, TypeOK

LEMMA GotoReplies ==
  ASSUME TypeOK, NEW p \in Procs, NEW place, Goto(p, place)
  PROVE procs'[p].reply = procs[p].reply
BY DEF Goto, TypeOK, ProcStates

LEMMA OpenReplies ==
  ASSUME TypeOK, NEW p \in Procs, NEW name, NEW place, OpenTmp(p, name, place)
  PROVE procs'[p].reply = procs[p].reply
BY DEF OpenTmp, TypeOK, ProcStates

LEMMA WriteReplies ==
  ASSUME TypeOK, NEW p \in Procs, NEW place, WritePart(p, place)
  PROVE procs'[p].reply = procs[p].reply
<1>1. procs[p] \in ProcStates /\ procs' = [procs EXCEPT ![p] = procs'[p]]
  BY DEF TypeOK, WritePart
<1>2. CASE procs[p].part = 1
  BY <1>1, <1>2 DEF WritePart, TypeOK, ProcStates
<1>3. CASE procs[p].part # 1
  BY <1>1, <1>3 DEF WritePart, TypeOK, ProcStates
<1> QED
  BY <1>2, <1>3

(* A process replies for itself.                                           *)
LEMMA OthersReplies ==
  ASSUME TypeOK, NEW p \in Procs, Acts(p), NEW q \in Procs \ {p}
  PROVE procs'[q].reply = procs[q].reply
<1> USE DEF Goto
<1>1. procs \in [Procs -> ProcStates] /\ procs[q] \in ProcStates
  BY DEF TypeOK
<1>2. CASE Start(p)
  BY <1>1, <1>2 DEF Start, ProcStates
<1>3. CASE Fetching(p)
  <2>1. CASE StatBinary(p) \/ StatArchive(p) \/ Get(p) \/ CreateDownload(p) \/ CreateBinary(p)
    BY <1>1, <2>1 DEF StatBinary, StatArchive, Get, CreateDownload, CreateBinary, OpenTmp
  <2>2. CASE Download(p)
    BY <1>1, <2>2 DEF Download, WritePart
  <2>3. CASE Extract(p)
    BY <1>1, <2>3, EndReplies DEF Extract, WritePart
  <2>4. CASE RenameDownload(p) \/ RenameBinary(p) \/ OpenArchive(p)
    BY <1>1, <2>4, EndReplies
    DEF RenameDownload, RenameBinary, OpenArchive, RenameTmp, DropArchive
  <2> QED
    BY <1>3, <2>1, <2>2, <2>3, <2>4 DEF Fetching
<1>4. CASE Preparing(p)
  BY <1>1, <1>4, EndReplies DEF Preparing, CheckBinary, CheckInstalled, CopyBinary, Install, Verify
<1>5. CASE Uploading(p)
  BY <1>1, <1>5, EndReplies DEF Uploading, Probe, Remove, ReadBinary, Send, Chmod
<1>6. CASE CallError(p) \/ Killed(p)
  BY <1>1, <1>6, EndReplies DEF CallError, Killed
<1> QED
  BY <1>2, <1>3, <1>4, <1>5, <1>6 DEF Acts

(* After one that was helpless, nothing of the cache is refused.           *)
LEMMA NothingRefused ==
  ASSUME IInv, NEW p \in Procs, Acts(p), Alone(p), helpless, Named("archive") # "wrong"
  PROVE procs'[p].reply # "refused"
<1> USE DEF At, ProcStates
<1>1. procs \in [Procs -> ProcStates] /\ procs[p] \in ProcStates
      /\ procs[p].reply = "none" /\ TypeOK
  BY DEF IInv, TypeOK, Underway, Alone, Idle
<1>2. Downloading(p) /\ Extracting(p) /\ Installing(p) /\ Serving(p)
  BY DEF IInv, InOrder
<1>3. Named("archive") # Torn
  BY DEF IInv, ArchiveDropped
<1>4. \A n \in Names : Named(n) = Missing <=> dir[n] = None
  BY NamedType DEF IInv
<1>5. CASE Start(p)
  BY <1>5 DEF Start, Alone, Idle
<1>6. CASE StatBinary(p) \/ StatArchive(p) \/ Get(p) \/ CreateDownload(p) \/ CreateBinary(p)
           \/ Download(p)
  <2>1. CASE Get(p)
    BY <1>1, <2>1 DEF Get
  <2>2. CASE ~Get(p)
    BY <1>1, <1>6, <2>2, GotoReplies, OpenReplies, WriteReplies
    DEF StatBinary, StatArchive, CreateDownload, CreateBinary, Download
  <2> QED
    BY <2>1, <2>2
<1>7. CASE RenameDownload(p)
  BY <1>1, <1>2, <1>4, <1>7, GotoReplies
  DEF RenameDownload, RenameTmp, Tmp, Names, Downloading, Missing, Agents
<1>8. CASE OpenArchive(p)
  BY <1>1, <1>2, <1>3, <1>4, <1>8 DEF OpenArchive, Extracting, Names
<1>9. CASE Extract(p)
  BY <1>1, <1>2, <1>3, <1>9, WriteReplies DEF Extract, Extracting
<1>10. CASE RenameBinary(p)
  BY <1>1, <1>2, <1>4, <1>10, GotoReplies
  DEF RenameBinary, RenameTmp, Tmp, Names, Extracting, Missing, Agents
<1>11. CASE CheckBinary(p)
  BY <1>1, <1>2, <1>11, GotoReplies DEF CheckBinary, Installing, Agents
<1>12. CASE CheckInstalled(p) \/ CopyBinary(p) \/ Install(p) \/ Verify(p)
  <2>1. At(p, "copy") => dir["binary"] # None
    BY <1>2, <1>4 DEF Installing, Names, Missing
  <2> QED
    <3>1. CASE CheckInstalled(p) \/ Install(p) \/ Verify(p)
      BY <1>1, <1>2, <3>1, EndReplies, GotoReplies
      DEF CheckInstalled, Install, Verify, Installing
    <3>2. CASE CopyBinary(p)
      BY <1>1, <2>1, <3>2 DEF CopyBinary
    <3> QED
      BY <1>12, <3>1, <3>2
<1>13. CASE Uploading(p)
  <2>1. CASE Probe(p) \/ Remove(p) \/ Send(p) \/ Chmod(p)
    BY <1>1, <1>2, <2>1, EndReplies, GotoReplies DEF Probe, Remove, Send, Chmod, Serving
  <2>2. CASE ReadBinary(p)
    BY <1>1, <1>2, <2>2 DEF ReadBinary, Serving
  <2> QED
    BY <1>13, <2>1, <2>2 DEF Uploading
<1>14. CASE CallError(p) \/ Killed(p)
  BY <1>1, <1>14, EndReplies DEF CallError, Killed
<1> QED
  BY <1>5, <1>6, <1>7, <1>8, <1>9, <1>10, <1>11, <1>12, <1>13, <1>14
  DEF Acts, Fetching, Preparing

(* A controller that goes on found or sent the right agent.                *)
LEMMA RightAgent ==
  ASSUME IInv, NEW p \in Procs, Acts(p), ~Idle(p), procs'[p].reply = "ok",
         req(p).kind # "daemon", ~crowd, Named("binary") # "wrong"
  PROVE host = "right"
<1> USE DEF At, ProcStates
<1>1. procs \in [Procs -> ProcStates] /\ procs[p] \in ProcStates
      /\ procs[p].reply = "none" /\ TypeOK
  BY DEF IInv, TypeOK, Underway
<1>2. CASE Start(p)
  BY <1>2 DEF Start, Idle
<1>3. CASE Fetching(p)
  <2>1. CASE StatBinary(p) \/ StatArchive(p) \/ Get(p) \/ CreateDownload(p) \/ CreateBinary(p)
             \/ Download(p)
    <3>1. CASE Get(p)
      BY <1>1, <3>1 DEF Get
    <3>2. CASE ~Get(p)
      BY <1>1, <2>1, <3>2, GotoReplies, OpenReplies, WriteReplies
      DEF StatBinary, StatArchive, CreateDownload, CreateBinary, Download
    <3> QED
      BY <3>1, <3>2
  <2>2. CASE Extract(p)
    BY <1>1, <2>2, EndReplies, WriteReplies DEF Extract
  <2>3. CASE RenameDownload(p) \/ RenameBinary(p) \/ OpenArchive(p)
    BY <1>1, <2>3, EndReplies, GotoReplies
    DEF RenameDownload, RenameBinary, OpenArchive, RenameTmp, DropArchive
  <2> QED
    BY <1>3, <2>1, <2>2, <2>3 DEF Fetching
<1>4. CASE Preparing(p)
  <2>1. req(p).kind = "daemon"
    BY <1>4 DEF IInv, Kinds, Preparing, CheckBinary, CheckInstalled, CopyBinary, Install, Verify
  <2> QED
    BY <2>1
<1>5. CASE Probe(p) \/ Remove(p) \/ ReadBinary(p) \/ Send(p)
  BY <1>1, <1>5, EndReplies, GotoReplies DEF Probe, Remove, ReadBinary, Send
<1>6. CASE Chmod(p)
  <2>1. host = Named("binary") /\ host # Missing
    BY <1>6, OnlyOne DEF IInv, InOrder, Serving, Chmod
  <2>2. Named("binary") \in Contents \union {Missing} /\ Named("binary") # Torn
    BY <1>1, NamedType DEF Names, IInv, StoreSound, CacheWhole
  <2> QED
    BY <2>1, <2>2 DEF Contents, Agents
<1>7. CASE CallError(p) \/ Killed(p)
  BY <1>1, <1>7, EndReplies DEF CallError, Killed
<1> QED
  BY <1>2, <1>3, <1>4, <1>5, <1>6, <1>7 DEF Acts, Uploading

(* A process that goes on has the agent of its own version on the host,    *)
(* and what a daemon cannot use is not left for the next one.              *)
THEOREM StoreServes == Spec => Serves
<1>1. ASSUME IInv, [Next]_vars PROVE [Heals /\ AgentMatches]_vars
  <2>1. ASSUME NEW p \in Procs, Acts(p) PROVE Heals /\ AgentMatches
    <3>1. ASSUME NEW q \in Procs, ~Idle(q), q # p PROVE procs'[q].reply = "none"
      BY <1>1, <2>1, <3>1, OthersReplies DEF IInv, Underway
    <3>2. Heals
      BY <1>1, <2>1, <3>1, NothingRefused DEF Heals, Alone, Idle
    <3>3. AgentMatches
      BY <1>1, <2>1, <3>1, RightAgent DEF AgentMatches, Idle
    <3> QED
      BY <3>2, <3>3
  <2>2. CASE Republish
    <3>1. procs' = procs
      BY <2>2 DEF Republish
    <3> QED
      BY <1>1, <3>1 DEF Heals, AgentMatches, IInv, Underway, Idle
  <2> QED
    BY <1>1, <2>1, <2>2 DEF Next, Acts
<1> QED
  BY <1>1, InitIInv, NextIInv, PTL DEF Spec, Serves

=============================================================================

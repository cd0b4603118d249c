----------------------------- MODULE LineInFile -----------------------------
(***************************************************************************)
(* The module lineinfile: one line is in a file, replaces a line that      *)
(* matches a pattern, or is not in the file.  The directory of the file,   *)
(* which a task that creates the file makes first, is taken to be there.   *)
(***************************************************************************)
EXTENDS FileRuns, FiniteSets, SequencesExt

CONSTANTS
    Lines,   \* what a line may be
    Texts,   \* the texts others write, sequences of lines
    Tasks

(* line: what to insert, more than one line when it contains a newline;    *)
(* matching: the lines that match the regexp or contain the search string; *)
(* becomes: what backrefs make of each of them (no backrefs: <<>>);        *)
(* anchor: the lines that match insertafter or insertbefore; first: look   *)
(* for the first match and not for the last.                               *)
Requests ==
    [state : {"present", "absent"}, line : Seq(Lines), matching : SUBSET Lines,
     becomes : UNION {[S -> Lines] : S \in SUBSET Lines}, place : {"after", "before", "top"},
     anchor : SUBSET Lines, first : BOOLEAN, create : BOOLEAN, backup : BOOLEAN,
     validate : BOOLEAN, asked : Askable]
Backrefs(task) == DOMAIN task.becomes # {}

TaskAssumption ==
    \A task \in Tasks :
        /\ task \in Requests
        /\ Backrefs(task) => DOMAIN task.becomes = task.matching
        /\ task.state = "present" => task.line # <<>>

TypeOK ==
    /\ actual \in Hosts(Seq(Lines)) /\ memo \in Memos
    /\ run.read # Blank => run.read \in FileReads(Seq(Lines))
    /\ [run EXCEPT !.read = Blank] \in RunStates(Tasks, FilePlaces, {})
    /\ ~Checking

-----------------------------------------------------------------------------
FoundFromTheEnd(lines, S) ==   \* mutant
    LET I == {i \in DOMAIN lines : lines[i] \in S} IN
    IF I = {} THEN 0 ELSE IF t.first THEN Max(I) ELSE Min(I)
Found(lines, S) ==
    LET I == {i \in DOMAIN lines : lines[i] \in S} IN
    IF I = {} THEN 0 ELSE IF t.first THEN Min(I) ELSE Max(I)

(* The lines with new between positions i and j, which are kept.           *)
Splice(lines, i, new, j) == SubSeq(lines, 1, i) \o new \o SubSeq(lines, j, Len(lines))

Matched(lines) == Found(lines, t.matching)
InsertedWithoutLooking(lines) ==   \* mutant
    LET i == Found(lines, t.anchor) IN
    IF t.place = "top" THEN t.line \o lines
    ELSE IF i = 0 THEN lines \o t.line
    ELSE LET k == IF t.place = "before" THEN i - 1 ELSE i IN Splice(lines, k, t.line, k + 1)
(* The line is added once, at the anchor or else at the end.               *)
Inserted(lines) ==
    LET i == Found(lines, t.anchor) IN
    IF \E k \in DOMAIN lines : <<lines[k]>> = t.line THEN lines
    ELSE IF t.place = "top" THEN t.line \o lines
    ELSE IF i = 0 THEN lines \o t.line
    ELSE LET k == IF t.place = "before" THEN i - 1 ELSE i IN Splice(lines, k, t.line, k + 1)
Present(lines) ==
    LET m == Matched(lines) IN
    IF m = 0 THEN (IF Backrefs(t) THEN lines ELSE Inserted(lines))
    ELSE Splice(lines, m - 1, IF Backrefs(t) THEN <<t.becomes[lines[m]]>> ELSE t.line, m + 1)

Unwanted(task, l) == IF task.matching # {} THEN l \in task.matching ELSE <<l>> = task.line
Absent(lines) ==
    FlattenSeq([i \in DOMAIN lines |-> IF Unwanted(t, lines[i]) THEN <<>> ELSE <<lines[i]>>])

-----------------------------------------------------------------------------
(* Not in check mode, which lineinfile does not have.                      *)
Start == \E task \in Tasks : Begin(task, "apply", "read", Unread)

ReadPresent ==
    /\ At("read") /\ t.state = "present"
    /\ LET lines == IF Exists THEN TextNow ELSE <<>> IN
       IF ~Exists /\ ~t.create THEN Refuse
       ELSE IF Present(lines) = lines THEN Keep(Kinds) ELSE Rewrite(Present(lines), Kinds)
(* Owner, group and mode are not looked at when lines are removed.         *)
ReadAbsent ==
    /\ At("read") /\ t.state = "absent"
    /\ IF ~Exists THEN Answer(FALSE)
       ELSE IF Absent(TextNow) = TextNow THEN Answer(FALSE) ELSE Rewrite(Absent(TextNow), <<>>)

Secure == Guard
Replace == AtomicWrite
Adjust == SetAttributes

Steps == ReadPresent \/ ReadAbsent \/ Secure \/ Replace \/ Adjust
Init == InitRuns({Host(Missing)} \union {Host([text |-> x, attrs |-> Fresh]) : x \in Texts}, Tasks)
Next == Start \/ Steps \/ FileCallError \/ Killed \/ (Undisturbed /\ FileOutside(Texts))
Spec == Init /\ [][Next]_vars

-----------------------------------------------------------------------------
Satisfied(task, h) ==
    IF task.state = "absent"
    THEN h.file = Missing \/ \A i \in DOMAIN h.file.text : ~Unwanted(task, h.file.text[i])
    ELSE /\ HasAttributes(task, h)
         /\ IF h.file = Missing THEN Backrefs(task) /\ task.create
            ELSE IF ~Backrefs(task) THEN Includes(h.file.text, task.line)
            ELSE \A i \in DOMAIN h.file.text : h.file.text[i] \in task.matching =>
                    \E k \in DOMAIN h.file.text : h.file.text[k] = task.becomes[h.file.text[i]]

(* A task whose pattern matches its own line is applied once.              *)
Stable(task) ==
    \/ task.state = "absent"
    \/ IF Backrefs(task) THEN \A l \in task.matching : task.becomes[l] \in task.matching
                                   /\ task.becomes[task.becomes[l]] = task.becomes[l]
       ELSE Len(task.line) = 1 /\ (task.matching = {} \/ Head(task.line) \in task.matching)
Idempotent == Stable(t) => Unchanging

(* Between reading the file and replacing it, a run that inserts a line    *)
(* changes no other line but one that matches.                             *)
ChangesOneLine ==
    At("install") /\ ~run.disturbed /\ Exists /\ t.state = "present" =>
        \E i \in 0 .. Len(TextNow) : \E j \in {i + 1, i + 2} :
           /\ \E new \in {t.line} \union {<<l>> : l \in Lines} : now.text = Splice(TextNow, i, new, j)
           /\ j = i + 2 => i + 1 <= Len(TextNow) /\ TextNow[i + 1] \in t.matching

(* One that removes lines leaves the others, in their order.               *)
KeepsOtherLines ==
    At("install") /\ ~run.disturbed /\ Exists /\ t.state = "absent" =>
        now.text = SelectSeq(TextNow, LAMBDA l : ~Unwanted(t, l))

(* With firstmatch the first matching line is the one that is replaced.    *)
ReplacesFirst ==
    At("install") /\ ~run.disturbed /\ Exists /\ t.first /\ t.state = "present" =>
        \A i \in DOMAIN TextNow :
            (TextNow[i] \in t.matching /\ \A k \in 1 .. i - 1 : TextNow[k] \notin t.matching)
                => now.text[i] # TextNow[i] \/ Len(now.text) > Len(TextNow)
=============================================================================

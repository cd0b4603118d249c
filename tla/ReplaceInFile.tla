--------------------------- MODULE ReplaceInFile ----------------------------
(***************************************************************************)
(* The module replace: what matches a pattern is replaced everywhere in a  *)
(* file, or in the section between two other patterns.                     *)
(***************************************************************************)
EXTENDS FileRuns, FiniteSets, SequencesExt

CONSTANTS
    Words,   \* what a pattern matches or does not
    Texts, Tasks

(* matching: the words that match the regexp; becomes: what each is        *)
(* replaced by; after, before: the words that bound the section ({}: none).*)
(* With both they are put together into one pattern, with the section as   *)
(* its first group; group: after has a group of its own, which then is the *)
(* first; alone: the other alternatives of a bare alternation in after or  *)
(* before, which match without the section.                                *)
Requests ==
    [matching : SUBSET Words, becomes : [Words -> Seq(Words)], after : SUBSET Words,
     before : SUBSET Words, group : BOOLEAN, alone : SUBSET Words, backup : BOOLEAN,
     validate : BOOLEAN, asked : Askable]

TaskAssumption == \A task \in Tasks : task \in Requests

Joined(task) == task.after # {} /\ task.before # {}
Grouped(task) == Joined(task) /\ task.group

TypeOK ==
    /\ actual \in Hosts(Seq(Words)) /\ memo \in Memos
    /\ run.read # Blank => run.read \in FileReads(Seq(Words))
    /\ [run EXCEPT !.read = Blank] \in RunStates(Tasks, FilePlaces, {})
    /\ ~Checking

-----------------------------------------------------------------------------
FirstIn(text, S, from) ==
    LET I == {i \in DOMAIN text : i >= from /\ text[i] \in S} IN IF I = {} THEN 0 ELSE Min(I)

(* replaceInSection: after the first match of after that has a match of    *)
(* before behind it; none: the section is not found.  A group of after is  *)
(* taken for the section.                                                  *)
Section(text) ==
    LET f == IF t.after = {} THEN 0 ELSE FirstIn(text, t.after, 1)
        b == IF t.before = {} THEN Len(text) + 1 ELSE FirstIn(text, t.before, f + 1)
    IN [found |-> (t.after = {} \/ f # 0) /\ b # 0, first |-> IF Grouped(t) THEN f ELSE f + 1,
        last |-> IF Grouped(t) THEN f ELSE b - 1]
(* An alternative that matches first has no section, whose index is -1.    *)
Panics(text) ==
    LET p == FirstIn(text, t.alone, 1) IN
    Joined(t) /\ p # 0 /\ (Section(text).found => p < FirstIn(text, t.after, 1))
Replaced(words) ==
    FlattenSeq([i \in DOMAIN words |->
                  IF words[i] \in t.matching THEN t.becomes[words[i]] ELSE <<words[i]>>])
NewText(text) ==
    LET s == Section(text) IN
    IF ~s.found THEN text
    ELSE SubSeq(text, 1, s.first - 1) \o Replaced(SubSeq(text, s.first, s.last))
           \o SubSeq(text, s.last + 1, Len(text))

-----------------------------------------------------------------------------
(* Not in check mode, which replace does not have.                         *)
Start == \E task \in Tasks : Begin(task, "apply", "read", Unread)

Read ==
    /\ At("read")
    /\ IF ~Exists THEN Refuse
       ELSE IF Panics(TextNow) THEN Stops("failed")
       ELSE IF NewText(TextNow) = TextNow THEN Keep(Kinds) ELSE Rewrite(NewText(TextNow), Kinds)

Secure == Guard
Replace == AtomicWrite
Adjust == SetAttributes

Steps == Read \/ Secure \/ Replace \/ Adjust
Init == InitRuns({Host(Missing)} \union {Host([text |-> x, attrs |-> Fresh]) : x \in Texts}, Tasks)
Next == Start \/ Steps \/ FileCallError \/ Killed \/ (Undisturbed /\ FileOutside(Texts))
Spec == Init /\ [][Next]_vars

-----------------------------------------------------------------------------
(* No word between the first two bounds matches any more; what a task with *)
(* a group in after does to the section is another matter.                 *)
Satisfied(task, h) ==
    /\ h.file # Missing /\ HasAttributes(task, h)
    /\ ~Grouped(task) => \A i \in DOMAIN h.file.text :
          LET text == h.file.text
              opened == task.after = {} \/ \E k \in 1 .. i - 1 : text[k] \in task.after
              closed == task.before # {} /\ \E k \in 1 .. i : text[k] \in task.before
                          /\ (task.after = {} \/ \E j \in 1 .. k - 1 : text[j] \in task.after)
              bounded == task.before = {} \/ \E k \in i .. Len(text) : text[k] \in task.before
          IN opened /\ ~closed /\ bounded => text[i] \notin task.matching

(* Where no replacement matches again, a second run changes nothing.  With *)
(* a group it goes on with the next bound.                                 *)
Idempotent == ~Grouped(t) => Unchanging

(* Nothing outside the section is lost or changed: the new text begins and *)
(* ends as the old one does, up to and from the bounds.  With a group that *)
(* is not so: the bound itself is edited (executor.go:143), and nothing    *)
(* else.                                                                   *)
KeepsOutside ==
    At("install") /\ ~run.disturbed /\ Exists =>
        LET f == IF t.after = {} THEN 0 ELSE FirstIn(TextNow, t.after, 1)
            a == IF Grouped(t) THEN f - 1 ELSE f
            b == IF Grouped(t) THEN f + 1 ELSE IF t.before = {} THEN Len(TextNow) + 1
                 ELSE FirstIn(TextNow, t.before, f + 1)
        IN /\ SubSeq(now.text, 1, a) = SubSeq(TextNow, 1, a)
           /\ Len(now.text) >= a + Len(TextNow) + 1 - b
           /\ SubSeq(now.text, Len(now.text) - Len(TextNow) + b, Len(now.text))
                = SubSeq(TextNow, b, Len(TextNow))
=============================================================================

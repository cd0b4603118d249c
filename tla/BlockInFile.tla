---------------------------- MODULE BlockInFile -----------------------------
(***************************************************************************)
(* The module blockinfile: a block of lines between two marker lines is in *)
(* a file, or is not.  The directory of the file, which a task that        *)
(* creates the file makes first, is taken to be there.                     *)
(***************************************************************************)
EXTENDS FileRuns, FiniteSets, SequencesExt

CONSTANTS
    Lines,       \* what a line may be, apart from the following three
    Opening, Closing, Empty,
    Texts, Tasks,
    MaxLines     \* a bound: no run starts on a longer file

AllLines == Lines \union {Opening, Closing, Empty}
(* A text is closed when its last line ends in a newline, or has no line.  *)
AllTexts == {x \in [lines : Seq(AllLines), closed : BOOLEAN] : x.lines = <<>> => x.closed}
Nothing == [lines |-> <<>>, closed |-> TRUE]

(* anchor: the lines that match insertafter or insertbefore; multi: the    *)
(* pattern has (?m); prepend, append: keep the block apart from its        *)
(* neighbours by empty lines.                                              *)
Requests ==
    [state : {"present", "absent"}, block : Seq(Lines), place : {"after", "before", "top"},
     anchor : SUBSET Lines, multi : BOOLEAN, prepend : BOOLEAN, append : BOOLEAN,
     create : BOOLEAN, backup : BOOLEAN, validate : BOOLEAN, asked : Askable]

TaskAssumption == Tasks \subseteq Requests /\ Texts \subseteq AllTexts /\ MaxLines \in Nat

TypeOK ==
    /\ actual \in Hosts(AllTexts) /\ memo \in Memos
    /\ run.read # Blank => run.read \in FileReads(AllTexts)
    /\ [run EXCEPT !.read = Blank] \in RunStates(Tasks, FilePlaces, {})
    /\ ~Checking

-----------------------------------------------------------------------------
Wanted == t.state = "present" /\ t.block # <<>>
BlockLines == IF Wanted THEN <<Opening>> \o t.block \o <<Closing>> ELSE <<>>
LastOf(lines, S) == LET I == {i \in DOMAIN lines : lines[i] \in S} IN IF I = {} THEN 0 ELSE Max(I)
FirstOf(lines, S) == LET I == {i \in DOMAIN lines : lines[i] \in S} IN IF I = {} THEN 0 ELSE Min(I)

MarkersAndOneMore(lines) ==   \* mutant
    LET m == LastOf(lines, {Opening}) e == LastOf(lines, {Closing}) IN
    IF m = 0 \/ e = 0 THEN [from |-> Max({m, e}), to |-> Max({m, e})]
    ELSE [from |-> Min({m, e}), to |-> Max({m, e}) + 1]
(* findMarkers: the last line of each kind; what is between them goes,     *)
(* also when they are in the wrong order, and a single one goes alone.     *)
Markers(lines) ==
    LET m == LastOf(lines, {Opening}) e == LastOf(lines, {Closing}) IN
    IF m = 0 \/ e = 0 THEN [from |-> Max({m, e}), to |-> Max({m, e})]
    ELSE [from |-> Min({m, e}), to |-> Max({m, e})]

(* calculateInsertPosition: how many lines precede the block.  A pattern   *)
(* with (?m) is looked for in the whole text, where the beginning of a     *)
(* line is the end of the line before it.                                  *)
InsertPosition(lines) ==
    LET k == IF t.multi THEN FirstOf(lines, t.anchor) ELSE LastOf(lines, t.anchor) IN
    IF t.place = "top" THEN 0
    ELSE IF k = 0 THEN Len(lines)
    ELSE IF t.place = "after" THEN k
    ELSE IF t.multi THEN Max({k - 2, 0}) ELSE k - 1

(* The text without its block, and where the block belongs; a last line    *)
(* that comes to precede the block is closed.                              *)
Cut(text) ==
    LET m == Markers(text.lines)
        rest == SubSeq(text.lines, 1, m.from - 1) \o SubSeq(text.lines, m.to + 1, Len(text.lines))
        at == IF m.from # 0 THEN m.from - 1 ELSE InsertPosition(text.lines)
        lines == IF m.from # 0 THEN rest ELSE text.lines
    IN [lines |-> lines, at |-> at,
        closed |-> text.closed \/ at = Len(lines)]
(* An empty line before the block, unless there is one, and after it.      *)
Before(lines, i) ==
    IF t.prepend /\ Wanted /\ i # 0 /\ lines[i] # Empty THEN <<Empty>> ELSE <<>>
After(lines, i) ==
    IF t.append /\ Wanted /\ i < Len(lines) /\ lines[i + 1] # Empty THEN <<Empty>> ELSE <<>>
NewText(text) ==
    LET c == Cut(text)
        lines == SubSeq(c.lines, 1, c.at) \o Before(c.lines, c.at) \o BlockLines
                   \o After(c.lines, c.at) \o SubSeq(c.lines, c.at + 1, Len(c.lines))
    IN [lines |-> lines, closed |-> c.closed \/ lines = <<>>]

-----------------------------------------------------------------------------
(* Not in check mode, which blockinfile does not have.                     *)
Within == Exists => Len(TextNow.lines) <= MaxLines
Start == Within /\ \E task \in Tasks : Begin(task, "apply", "read", Unread)

Read ==
    /\ At("read")
    /\ LET old == IF Exists THEN TextNow ELSE Nothing IN
       IF ~Exists /\ t.state = "absent" THEN Answer(FALSE)
       ELSE IF ~Exists /\ ~t.create THEN Refuse
       ELSE IF NewText(old) = old THEN Keep(Kinds) ELSE Rewrite(NewText(old), Kinds)

Secure == Guard
Replace == AtomicWrite
Adjust == SetAttributes

Steps == Read \/ Secure \/ Replace \/ Adjust
Init == InitRuns({Host(Missing)} \union {Host([text |-> x, attrs |-> Fresh]) : x \in Texts}, Tasks)
Next == Start \/ Steps \/ FileCallError \/ Killed \/ (Undisturbed /\ FileOutside(Texts))
Spec == Init /\ [][Next]_vars

-----------------------------------------------------------------------------
(* At most one marker of each kind, in the right order.                    *)
Single(lines) ==
    \A i, k \in DOMAIN lines :
        i < k /\ {lines[i], lines[k]} \subseteq {Opening, Closing} =>
            lines[i] = Opening /\ lines[k] = Closing
Satisfied(task, h) ==
    /\ HasAttributes(task, h)
    /\ IF h.file = Missing
       THEN task.state = "absent" \/ (task.create /\ task.block = <<>>)
       ELSE LET lines == h.file.text.lines IN
            IF task.state = "present" /\ task.block # <<>>
            THEN Includes(lines, <<Opening>> \o task.block \o <<Closing>>)
            ELSE Single(lines) => \A i \in DOMAIN lines : lines[i] \notin {Opening, Closing}

(* A block that was just inserted, with its empty lines, stays as it is.   *)
Idempotent == Wanted => Unchanging

(* A run changes no line of a file whose markers are in order but those    *)
(* of the block and empty ones.                                            *)
Outer(lines) ==
    LET f == FirstOf(lines, {Opening}) e == FirstOf(lines, {Closing})
        kept == {i \in DOMAIN lines : i \notin f .. e /\ lines[i] \notin {Opening, Closing, Empty}}
    IN [k \in 1 .. Cardinality(kept) |->
          lines[CHOOSE i \in kept : Cardinality({j \in kept : j <= i}) = k]]
KeepsOtherLines ==
    At("install") /\ ~run.disturbed /\ Exists /\ Single(TextNow.lines)
      /\ (FirstOf(TextNow.lines, {Opening}) # 0 <=> FirstOf(TextNow.lines, {Closing}) # 0)
        => Outer(now.text.lines) = Outer(TextNow.lines)
=============================================================================

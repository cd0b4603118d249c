--------------------------- MODULE MCFileModules ----------------------------
(* Small instances of the modules that write files.                        *)
EXTENDS FileModules

CONSTANTS wa, wb, wc, open, shut   \* lines, words, texts and names

No == [k \in {"owner", "group", "mode"} |-> 0]

(* Three lines, files of up to three lines, and a task for each way of     *)
(* looking for, inserting and removing a line.                             *)
MCLineTexts == {<<>>, <<wa, wc>>, <<wa, wb, wa>>}
PlainLine ==
    [state |-> "present", line |-> <<wb>>, matching |-> {}, becomes |-> <<>>, place |-> "after",
     anchor |-> {}, first |-> FALSE, create |-> FALSE, backup |-> FALSE, validate |-> FALSE,
     asked |-> No]
MCLineTasks ==
    { [PlainLine EXCEPT !.create = TRUE, !.asked = [No EXCEPT !["mode"] = 2, !["owner"] = 2]],
      [PlainLine EXCEPT !.matching = {wa, wb}, !.first = TRUE, !.backup = TRUE],
      [PlainLine EXCEPT !.matching = {wb, wc}, !.anchor = {wa}, !.validate = TRUE],
      [PlainLine EXCEPT !.anchor = {wa}, !.place = "before"],
      [PlainLine EXCEPT !.place = "top", !.create = TRUE],
      [PlainLine EXCEPT !.matching = {wa, wb}, !.becomes = [l \in {wa, wb} |-> wb], !.create = TRUE],
      [PlainLine EXCEPT !.state = "absent", !.backup = TRUE, !.validate = TRUE],
      [PlainLine EXCEPT !.state = "absent", !.matching = {wa}, !.line = <<>>] }

MCLines == {wa, wb, wc}

(* Two lines, markers out of order, and a last line without newline.       *)
BlockText(lines, closed) == [lines |-> lines, closed |-> closed]
MCBlockTexts == { BlockText(<<wa, wb>>, FALSE), BlockText(<<wa, Closing, wb, Opening>>, TRUE) }
PlainBlock ==
    [state |-> "present", block |-> <<wa>>, place |-> "after", anchor |-> {}, multi |-> FALSE,
     prepend |-> FALSE, append |-> FALSE, create |-> FALSE, backup |-> FALSE,
     validate |-> FALSE, asked |-> No]
MCBlockTasks ==
    { [PlainBlock EXCEPT !.create = TRUE, !.asked = [No EXCEPT !["mode"] = 2]],
      [PlainBlock EXCEPT !.anchor = {wa}, !.append = TRUE, !.backup = TRUE],
      [PlainBlock EXCEPT !.anchor = {wb}, !.place = "before", !.prepend = TRUE, !.validate = TRUE],
      [PlainBlock EXCEPT !.place = "top", !.block = <<>>, !.create = TRUE],
      [PlainBlock EXCEPT !.state = "absent", !.backup = TRUE] }

MCBlockLines == {wa, wb}

(* Texts with several matches inside and outside of a section.             *)
To(words) == [w \in {wa, wb, open, shut} |-> words]
MCReplaceTexts ==
    { <<>>, <<wa, wb, wa>>, <<wa, shut, wa, open, wa, wa, shut, wa>>, <<shut, wa, open, wa>> }
PlainReplace ==
    [matching |-> {wa}, becomes |-> To(<<wb>>), after |-> {}, before |-> {}, group |-> FALSE,
     alone |-> {}, backup |-> FALSE, validate |-> FALSE, asked |-> No]
Between == [PlainReplace EXCEPT !.after = {open}, !.before = {shut}, !.becomes = To(<<wb, wb>>)]
MCReplaceTasks ==
    { [PlainReplace EXCEPT !.asked = [No EXCEPT !["mode"] = 2, !["group"] = 2]],
      [PlainReplace EXCEPT !.after = {open}, !.backup = TRUE],
      [PlainReplace EXCEPT !.before = {shut}, !.becomes = To(<<>>), !.validate = TRUE],
      Between, [Between EXCEPT !.matching = {wa, open}, !.group = TRUE],
      [Between EXCEPT !.alone = {wb}] }

MCWords == {wa, wb, open, shut}

(* Two texts, all attributes, and a link or none.                          *)
PlainTemplate ==
    [text |-> wa, force |-> TRUE, follow |-> FALSE, backup |-> FALSE, validate |-> FALSE,
     asked |-> No]
MCTemplateTasks ==
    { [PlainTemplate EXCEPT !.asked = [k \in DOMAIN No |-> 2]],
      [PlainTemplate EXCEPT !.text = wb, !.follow = TRUE, !.backup = TRUE, !.validate = TRUE],
      [PlainTemplate EXCEPT !.force = FALSE, !.asked = [No EXCEPT !["mode"] = 1]] }

MCContents == {wa, wb}

(* Two files, two texts, and a task for each source.                       *)
MCOrder == <<open, shut>>
PlainCopy == [from |-> "content", text |-> wa, force |-> FALSE, backup |-> FALSE, mode |-> 0]
MCCopyTasks ==
    { [PlainCopy EXCEPT !.mode = 2, !.backup = TRUE], [PlainCopy EXCEPT !.from = "host", !.force = TRUE],
      [PlainCopy EXCEPT !.from = "upload", !.text = wb],
      [PlainCopy EXCEPT !.from = "directory", !.mode = 2] }

(* A command, a shell line and a script, with and without their guards.    *)
PlainCommand == [kind |-> "command", creates |-> FALSE, removes |-> FALSE]
MCCommandTasks ==
    { PlainCommand, [PlainCommand EXCEPT !.creates = TRUE],
      [PlainCommand EXCEPT !.kind = "shell", !.removes = TRUE],
      [PlainCommand EXCEPT !.kind = "script"], [PlainCommand EXCEPT !.kind = "script", !.creates = TRUE],
      [kind |-> "script", creates |-> TRUE, removes |-> TRUE] }
=============================================================================

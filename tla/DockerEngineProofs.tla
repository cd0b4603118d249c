------------------------- MODULE DockerEngineProofs --------------------------
(***************************************************************************)
(* What a run of any module that manages a docker engine or a swarm knows  *)
(* and announces at each of its places, in check mode or not, and that the *)
(* modules of the engine do: those of containers, images, networks and     *)
(* volumes.  The swarm, and what follows for all, is in                    *)
(* DockerModulesProofs.                                                    *)
(***************************************************************************)
EXTENDS DockerModules, FiniteSets, FiniteSetTheorems, WellFoundedInduction, TLAPS

-----------------------------------------------------------------------------
(* A run of any module: the resource, the task, what was read and where it *)
(* is are of their types, and nothing is known between two runs.           *)
RunTyped(H, Asks, Places, Known) ==
    /\ actual \in H /\ memo \in Memos
    /\ run \in RunStates(Asks, Places, Known)
    /\ IF Idle THEN run.read = Blank ELSE run.read \in Known /\ run.reply = "none"

(* What others see of a step: nothing, that a run starts, goes on, is      *)
(* disturbed, or answers.  One in check mode leaves the resource alone,    *)
(* but docker_swarm waits for a node in check mode as well.                *)
RunMoves ==
    \/ /\ run' = run
       /\ ~Idle /\ Checking => actual' = actual \/ (module = "swarm" /\ run.task.state = "remove")
    \/ /\ Idle /\ run'.at # "idle" /\ run'.reply = "none"
       /\ run'.touched = FALSE /\ run'.disturbed = FALSE
    \/ /\ ~Idle /\ run'.at # "idle" /\ run'.task = run.task /\ run'.mode = run.mode
       /\ run'.disturbed = run.disturbed /\ run'.touched \in {run.touched, TRUE}
       /\ Checking => actual' = actual /\ run'.touched = run.touched
    \/ /\ ~Idle /\ run'.at # "idle" /\ run'.task = run.task /\ run'.mode = run.mode
       /\ run'.disturbed = TRUE /\ run'.touched = run.touched
    \/ /\ ~Idle /\ run'.at = "idle" /\ run'.reply # "none"
       /\ run'.touched = FALSE /\ run'.disturbed = FALSE

(* What an answer says is true, holds being what the task asks for, unless *)
(* the run is one that hides what it touches.                              *)
Truthful(holds, hides) ==
    AnswersOK /\ ~run.disturbed =>
       IF run'.changed THEN ~Checking => holds ELSE holds /\ (run.touched => hides)

(* A step that does not answer says nothing.                               *)
LEMMA RunSilent == Idle \/ run'.at # "idle" \/ run'.reply # "ok" => ~AnswersOK
  BY DEF AnswersOK, Answers

LEMMA RunInit ==
    ASSUME NEW H, NEW Asks, NEW Places, NEW Known, NEW R \in SUBSET H, InitRuns(R, Asks)
    PROVE /\ RunTyped(H, Asks, Places, Known) /\ Idle /\ run.at = "idle" /\ actual \in R
          /\ ~memo.settled /\ memo.forecast = "none"
<1>1. PICK task \in Asks : run = Rest(task, Blank)
  BY DEF InitRuns
<1>2. run \in RunStates(Asks, Places, Known) /\ run.at = "idle" /\ run.read = Blank
  BY <1>1 DEF Rest, RunStates, Replies, Forecasts
<1>3. memo \in Memos /\ ~memo.settled /\ memo.forecast = "none"
  BY DEF InitRuns, NoMemo, Memos, Forecasts
<1> QED
  BY <1>2, <1>3 DEF InitRuns, RunTyped, At, Idle

LEMMA RunBegin ==
    ASSUME NEW H, NEW Asks, NEW Places, NEW Known, RunTyped(H, Asks, Places, Known),
           "idle" \notin Places, NEW task \in Asks, NEW m \in {"check", "apply"},
           NEW place \in Places, NEW r \in Known, Begin(task, m, place, r)
    PROVE /\ RunTyped(H, Asks, Places, Known)' /\ actual' = actual /\ Idle
          /\ run'.at = place /\ run'.read = r /\ run'.task = task /\ run'.mode = m
          /\ ~run'.disturbed /\ ~run'.touched /\ ~run'.changed /\ RunMoves
          /\ run'.again \/ memo'.settled => memo.settled /\ task = run.task
          /\ run'.expect # "none" => run'.expect = memo.forecast /\ task = run.task
          /\ memo'.forecast # "none" => memo'.forecast = memo.forecast /\ task = run.task
<1> DEFINE known == IF task = run.task THEN memo ELSE NoMemo
<1>1. /\ known \in Memos /\ (known.settled => memo.settled /\ task = run.task)
      /\ known.forecast # "none" => known.forecast = memo.forecast /\ task = run.task
  BY DEF RunTyped, Memos, NoMemo, Forecasts
<1>2. /\ run' = [Rest(task, r) EXCEPT !.at = place, !.mode = m,
                   !.expect = known.forecast, !.again = known.settled]
      /\ memo' = [known EXCEPT !.forecast = IF m = "apply" THEN "none" ELSE known.forecast]
  BY <1>1 DEF Begin, Memos
<1> HIDE DEF known
<1>3. /\ run' \in RunStates(Asks, Places, Known) /\ run'.at = place /\ run'.read = r
      /\ run'.task = task /\ run'.mode = m /\ run'.changed = FALSE /\ run'.reply = "none"
      /\ run'.touched = FALSE /\ run'.disturbed = FALSE
      /\ run'.expect = known.forecast /\ run'.again = known.settled
  BY <1>1, <1>2 DEF Rest, RunStates, Replies, Memos
<1>4. /\ memo' \in Memos /\ memo'.settled = known.settled
      /\ memo'.forecast # "none" => memo'.forecast = known.forecast
  BY <1>1, <1>2 DEF Memos, Forecasts
<1>5. RunMoves
  BY <1>3 DEF RunMoves, Begin
<1> QED
  BY <1>1, <1>3, <1>4, <1>5 DEF Begin, RunTyped, At, Idle

LEMMA RunStep ==
    ASSUME NEW H, NEW Asks, NEW Places, NEW Known, RunTyped(H, Asks, Places, Known),
           "idle" \notin Places, NEW place \in Places, NEW a \in H, NEW r \in Known,
           NEW c \in BOOLEAN, Step(place, a, r, c), ~Idle
    PROVE /\ RunTyped(H, Asks, Places, Known)' /\ actual' = a
          /\ run'.at = place /\ run'.read = r /\ run'.changed = c /\ run'.task = run.task
          /\ run'.mode = run.mode /\ run'.expect = run.expect /\ run'.again = run.again
          /\ run'.disturbed = run.disturbed /\ run'.touched = (run.touched \/ a # actual)
          /\ memo'.settled => memo.settled /\ a = actual
          /\ memo'.forecast # "none" => memo'.forecast = memo.forecast /\ a = actual
          /\ (Checking => a = actual) => RunMoves
<1> DEFINE b == run.touched \/ a # actual
<1>1. b \in BOOLEAN
  OBVIOUS
<1>2. run' = [run EXCEPT !.at = place, !.read = r, !.changed = c, !.touched = b]
  BY DEF Step, RunTyped, RunStates
<1> HIDE DEF b
<1>3. /\ run' \in RunStates(Asks, Places, Known) /\ run'.at = place /\ run'.read = r
      /\ run'.changed = c /\ run'.task = run.task /\ run'.mode = run.mode
      /\ run'.expect = run.expect /\ run'.again = run.again
      /\ run'.disturbed = run.disturbed /\ run'.touched = b /\ run'.reply = run.reply
  BY <1>1, <1>2 DEF RunTyped, RunStates
<1>4. /\ memo' \in Memos /\ (memo'.settled => memo.settled /\ a = actual)
      /\ memo'.forecast # "none" => memo'.forecast = memo.forecast /\ a = actual
  BY DEF Step, RunTyped, Memos, NoMemo, Forecasts
<1>5. (Checking => a = actual) => RunMoves
  <2>1. b \in {run.touched, TRUE} /\ (a = actual => b = run.touched)
    BY DEF b, RunTyped, RunStates
  <2> QED
    BY <1>3, <2>1 DEF RunMoves, Step
<1>6. RunTyped(H, Asks, Places, Known)'
  <2>1. run'.at # "idle" /\ actual' \in H
    BY <1>3 DEF Step
  <2>2. run.reply = "none"
    BY DEF RunTyped, Idle, At
  <2> QED
    BY <1>3, <1>4, <2>1, <2>2 DEF RunTyped, At, Idle
<1> QED
  BY <1>3, <1>4, <1>5, <1>6 DEF Step, b

LEMMA RunEnds ==
    ASSUME NEW H, NEW Asks, NEW Places, NEW Known, RunTyped(H, Asks, Places, Known),
           NEW reply \in Replies, NEW c \in BOOLEAN, Ends(reply, c), actual' \in H, memo' \in Memos
    PROVE /\ RunTyped(H, Asks, Places, Known)' /\ run'.at = "idle"
          /\ run'.reply = reply /\ run'.changed = c /\ run'.task = run.task /\ run'.mode = run.mode
          /\ ~Idle /\ reply # "none" => RunMoves
<1>1. /\ run' \in RunStates(Asks, Places, Known) /\ run'.at = "idle" /\ run'.read = Blank
      /\ run'.mode = run.mode /\ run'.reply = reply /\ run'.changed = c /\ run'.task = run.task
      /\ run'.touched = FALSE /\ run'.disturbed = FALSE
  BY DEF Ends, RunTyped, RunStates
<1> QED
  BY <1>1 DEF RunTyped, At, Idle, RunMoves

LEMMA RunStops ==
    ASSUME NEW H, NEW Asks, NEW Places, NEW Known, RunTyped(H, Asks, Places, Known),
           NEW reply \in Replies, Stops(reply)
    PROVE /\ RunTyped(H, Asks, Places, Known)' /\ run'.at = "idle" /\ actual' = actual
          /\ run'.reply = reply /\ run'.changed = FALSE /\ run'.task = run.task /\ memo' = memo
          /\ run'.mode = run.mode
          /\ ~Idle /\ reply # "none" => RunMoves
  BY RunEnds DEF Stops, RunTyped

(* A check run that answers leaves a forecast, a real one a settled task.  *)
LEMMA RunAnswers ==
    ASSUME NEW H, NEW Asks, NEW Places, NEW Known, RunTyped(H, Asks, Places, Known),
           NEW c \in BOOLEAN, Answer(c)
    PROVE /\ RunTyped(H, Asks, Places, Known)' /\ run'.at = "idle" /\ actual' = actual
          /\ run'.reply = "ok" /\ run'.changed = c /\ run'.task = run.task
          /\ run'.mode = run.mode
          /\ IF Checking THEN memo'.settled = memo.settled ELSE memo'.settled => ~run.disturbed
          /\ memo'.forecast # "none" =>
                Checking /\ ~run.disturbed /\ (memo'.forecast = "changed" <=> c)
          /\ ~Idle => RunMoves
<1>1. Ends("ok", c) /\ actual' = actual /\ memo \in Memos /\ run.disturbed \in BOOLEAN
  BY DEF Answer, RunTyped, RunStates
<1>2. CASE Checking
  <2> DEFINE f == IF run.disturbed THEN "none" ELSE IF c THEN "changed" ELSE "same"
  <2>1. memo' = [memo EXCEPT !.forecast = f] /\ f \in Forecasts
    BY <1>2 DEF Answer, Forecasts
  <2>2. f # "none" => ~run.disturbed /\ (f = "changed" <=> c)
    OBVIOUS
  <2> HIDE DEF f
  <2>3. memo' \in Memos /\ memo'.settled = memo.settled /\ memo'.forecast = f
    BY <1>1, <2>1 DEF Memos
  <2>4. actual' \in H
    BY <1>1 DEF RunTyped
  <2> QED
    BY <1>1, <1>2, <2>2, <2>3, <2>4, RunEnds DEF Replies
<1>3. CASE ~Checking
  <2> DEFINE b == ~run.disturbed
  <2>1. memo' = [forecast |-> "none", settled |-> b] /\ b \in BOOLEAN
    BY <1>3 DEF Answer
  <2> HIDE DEF b
  <2>2. memo' \in Memos /\ memo'.settled = b /\ memo'.forecast = "none" /\ actual' \in H
    BY <1>1, <2>1 DEF Memos, Forecasts, RunTyped
  <2> QED
    BY <1>1, <1>3, <2>2, RunEnds DEF Replies, b
<1> QED
  BY <1>2, <1>3

LEMMA NothingKnown == NoMemo \in Memos /\ NoMemo.settled = FALSE /\ NoMemo.forecast = "none"
  BY DEF NoMemo, Memos, Forecasts

(* Others leave the run what it is, but for what they have disturbed; a    *)
(* run that sends a version is also told that it is outdated.              *)
LEMMA RunDisturbed ==
    ASSUME NEW H, NEW Asks, NEW Places, NEW Known, RunTyped(H, Asks, Places, Known),
           NEW a \in H, actual' = a, NEW r \in Known,
           IF Idle THEN run' = run ELSE run' = [run EXCEPT !.disturbed = TRUE, !.read = r],
           memo' = NoMemo \/ (memo' = memo /\ a = actual)
    PROVE /\ RunTyped(H, Asks, Places, Known)'
          /\ run'.at = run.at /\ run'.task = run.task /\ run'.mode = run.mode
          /\ run'.changed = run.changed /\ run'.touched = run.touched
          /\ run.at # "idle" => run'.read = r /\ run'.disturbed
          /\ run.at = "idle" => run' = run
          /\ (~memo'.settled /\ memo'.forecast = "none") \/ (memo' = memo /\ a = actual)
          /\ RunMoves
<1>0. (~memo'.settled /\ memo'.forecast = "none") \/ (memo' = memo /\ a = actual)
  BY NothingKnown
<1>1. CASE Idle
  <2>1. memo' \in Memos
    <3>1. memo \in Memos
      BY DEF RunTyped
    <3> QED
      BY <3>1, NothingKnown
  <2>2. run' = run /\ run.at = "idle"
    BY <1>1 DEF Idle, At
  <2>3. RunTyped(H, Asks, Places, Known)'
    BY <2>1, <2>2 DEF RunTyped, Idle, At
  <2>4. RunMoves
    BY <2>2 DEF RunMoves, Idle, At
  <2> QED
    BY <1>0, <2>2, <2>3, <2>4
<1>2. CASE ~Idle
  <2>1. run' = [run EXCEPT !.disturbed = TRUE, !.read = r]
    BY <1>2
  <2>2. /\ run' \in RunStates(Asks, Places, Known)
        /\ run'.at = run.at /\ run'.read = r /\ run'.task = run.task /\ run'.mode = run.mode
        /\ run'.changed = run.changed /\ run'.touched = run.touched /\ run'.disturbed = TRUE
        /\ run'.reply = run.reply
    BY <2>1 DEF RunTyped, RunStates
  <2>3. memo' \in Memos
    <3>1. memo \in Memos
      BY DEF RunTyped
    <3> QED
      BY <3>1, NothingKnown
  <2>4. RunTyped(H, Asks, Places, Known)'
    BY <1>2, <2>2, <2>3 DEF RunTyped, Idle, At
  <2>5. RunMoves
    BY <1>2, <2>2 DEF RunMoves, Idle, At
  <2> QED
    BY <1>0, <1>2, <2>2, <2>4, <2>5 DEF Idle, At
<1> QED
  BY <1>1, <1>2

LEMMA RunInterferes ==
    ASSUME NEW H, NEW Asks, NEW Places, NEW Known, RunTyped(H, Asks, Places, Known),
           NEW a \in H, Interferes(a)
    PROVE /\ RunTyped(H, Asks, Places, Known)' /\ actual' = a
          /\ run'.at = run.at /\ run'.read = run.read /\ run'.task = run.task
          /\ run'.mode = run.mode /\ run'.changed = run.changed /\ run'.touched = run.touched
          /\ run.at = "idle" \/ run'.disturbed
          /\ ~memo'.settled /\ memo'.forecast = "none" /\ RunMoves
<1>1. CASE Idle
  <2>1. memo' = NoMemo /\ run' = run /\ actual' = a /\ run.at = "idle"
    BY <1>1 DEF Interferes, Idle, At
  <2>2. memo' \in Memos /\ ~memo'.settled /\ memo'.forecast = "none"
    BY <2>1 DEF NoMemo, Memos, Forecasts
  <2> QED
    BY <1>1, <2>1, <2>2 DEF RunTyped, Idle, At, RunMoves
<1>2. CASE ~Idle
  <2>1. run' = [run EXCEPT !.disturbed = TRUE, !.read = run.read]
    BY <1>2 DEF Interferes, RunTyped, RunStates
  <2>2. memo' = NoMemo /\ actual' = a /\ run.read \in Known
    BY <1>2 DEF Interferes, RunTyped
  <2>3. /\ RunTyped(H, Asks, Places, Known)'
        /\ run'.at = run.at /\ run'.task = run.task /\ run'.mode = run.mode
        /\ run'.changed = run.changed /\ run'.touched = run.touched
        /\ run.at # "idle" => run'.read = run.read /\ run'.disturbed
        /\ RunMoves
    BY Zenon, <1>2, <2>1, <2>2, RunDisturbed
  <2> QED
    BY <1>2, <2>2, <2>3, NothingKnown DEF Idle, At
<1> QED
  BY <1>1, <1>2

LEMMA RunAwaited ==
    ASSUME NEW H, NEW Asks, NEW Places, NEW Known, RunTyped(H, Asks, Places, Known),
           NEW a \in H, Awaited(a)
    PROVE /\ RunTyped(H, Asks, Places, Known)' /\ actual' = a /\ run' = run
          /\ ~memo'.settled /\ memo'.forecast = "none" /\ (Idle \/ ~Checking => RunMoves)
  BY DEF Awaited, RunTyped, Idle, At, RunMoves, NoMemo, Memos, Forecasts, RunStates, Checking

(* A run that answers truthfully keeps the contract of modules.            *)
Hides ==
    \/ module = "image" /\ run.task.push
    \/ module = "container" /\ run.task.cleanup /\ ~run.task.detach
LEMMA RunContract ==
    ASSUME NEW H, NEW Asks, NEW Places, NEW Known,
           RunTyped(H, Asks, Places, Known), RunTyped(H, Asks, Places, Known)',
           RunMoves, Truthful(Holds, Hides), Holds \in BOOLEAN, Holds' \in BOOLEAN, module' = module,
           (/\ ~Idle /\ Checking /\ run'.at # "idle" /\ run'.disturbed = run.disturbed
            /\ run'.task = run.task /\ run'.mode = run.mode
            /\ actual' = actual \/ (module = "swarm" /\ run.task.state = "remove"))
              => Holds' = Holds
    PROVE [Contract!Next]_(Contract!vars)
<1> USE DEF RunPhase, RunAnswer, Idle, At, Checking
<1> DEFINE touched == run.touched /\ ~Hides
<1>1. /\ run.mode \in {"check", "apply"} /\ run'.mode \in {"check", "apply"}
      /\ run.disturbed \in BOOLEAN /\ run.touched \in BOOLEAN
  BY DEF RunTyped, RunStates
<1>2. CASE /\ run' = run
           /\ ~Idle /\ Checking => actual' = actual \/ (module = "swarm" /\ run.task.state = "remove")
  <2>1. touched' = touched
    BY <1>2 DEF Hides
  <2>2. CASE Idle
    BY <1>1, <1>2, <2>1, <2>2 DEF Contract!Next, Contract!Others, Hides
  <2>3. CASE ~Idle /\ ~Checking
    BY <1>1, <1>2, <2>1, <2>3 DEF Contract!Next, Contract!Awaited, Hides
  <2>4. CASE ~Idle /\ Checking
    <3>1. Holds' = Holds
      BY <1>2, <2>4
    <3> QED
      BY <1>1, <1>2, <2>1, <2>4, <3>1 DEF Contract!vars, Hides
  <2> QED
    BY <2>2, <2>3, <2>4
<1>3. CASE /\ Idle /\ run'.at # "idle" /\ run'.reply = "none"
           /\ run'.touched = FALSE /\ run'.disturbed = FALSE
  BY <1>1, <1>3 DEF Contract!Next, Contract!Start
<1>4. CASE /\ ~Idle /\ run'.at # "idle" /\ run'.task = run.task /\ run'.mode = run.mode
           /\ run'.disturbed = run.disturbed /\ run'.touched \in {run.touched, TRUE}
           /\ Checking => actual' = actual /\ run'.touched = run.touched
  <2>1. Hides' = Hides
    BY <1>4 DEF Hides
  <2>2. CASE Checking
    BY <1>1, <1>4, <2>1, <2>2 DEF Contract!vars, Hides
  <2>3. CASE ~Checking /\ touched' = touched
    BY <1>1, <1>4, <2>1, <2>3 DEF Contract!Next, Contract!Awaited, Hides
  <2>4. CASE ~Checking /\ touched' # touched
    <3>1. touched' = TRUE
      BY <1>1, <1>4, <2>1, <2>4
    <3> QED
      BY <1>1, <1>4, <2>4, <3>1 DEF Contract!Next, Contract!Touch, Hides
  <2> QED
    BY <2>2, <2>3, <2>4
<1>5. CASE /\ ~Idle /\ run'.at # "idle" /\ run'.task = run.task /\ run'.mode = run.mode
           /\ run'.disturbed = TRUE /\ run'.touched = run.touched
  <2>1. touched' = touched
    BY <1>5 DEF Hides
  <2> QED
    BY <1>1, <1>5, <2>1 DEF Contract!Next, Contract!Others, Hides
<1>6. CASE /\ ~Idle /\ run'.at = "idle" /\ run'.reply # "none"
           /\ run'.touched = FALSE /\ run'.disturbed = FALSE
  <2>1. CASE run'.reply # "ok"
    BY <1>1, <1>6, <2>1 DEF Contract!Next, Contract!AnswerFailed
  <2>2. CASE run'.reply = "ok" /\ run'.changed
    BY <1>1, <1>6, <2>2 DEF Contract!Next, Contract!AnswerChanged, Truthful, AnswersOK, Answers
  <2>3. CASE run'.reply = "ok" /\ ~run'.changed
    BY <1>1, <1>6, <2>3 DEF Contract!Next, Contract!AnswerSame, Truthful, AnswersOK, Answers, Hides
  <2> QED
    BY <2>1, <2>2, <2>3
<1> QED
  BY <1>2, <1>3, <1>4, <1>5, <1>6 DEF RunMoves

-----------------------------------------------------------------------------
(* The steps that the modules have from ModuleRuns are the same for all.   *)

(* docker_container,                                                       *)
LEMMA ContainerIsARun ==
    /\ \A R, S : Container!InitRuns(R, S) <=> InitRuns(R, S)
    /\ \A task, m, place, r : Container!Begin(task, m, place, r) <=> Begin(task, m, place, r)
    /\ \A place, a, r, c : Container!Step(place, a, r, c) <=> Step(place, a, r, c)
    /\ \A place : Container!Goto(place) <=> Step(place, actual, run.read, run.changed)
    /\ \A place, r : Container!Reads(place, r) <=> Step(place, actual, r, run.changed)
    /\ \A place, a : Container!Changes(place, a) <=> Step(place, a, run.read, TRUE)
    /\ \A place : Container!Reports(place) <=> Step(place, actual, run.read, TRUE)
    /\ \A c : Container!Answer(c) <=> Answer(c)
    /\ \A reply : Container!Stops(reply) <=> Stops(reply)
    /\ Container!Refuse <=> Stops("refused")
    /\ Container!Killed <=> ~Idle /\ Stops("killed")
    /\ \A a : Container!Interferes(a) <=> Interferes(a)
    /\ \A a : Container!Awaited(a) <=> Awaited(a)
    /\ Container!NoMemo = NoMemo /\ Container!Undisturbed = Undisturbed
  BY DEF
    Container!At, At, Container!Idle, Idle, Container!Checking, Checking,
    Container!NoMemo, NoMemo, Container!Rest, Rest, Container!InitRuns, InitRuns,
    Container!Begin, Begin, Container!Step, Step, Container!Ends, Ends, Container!Answer,
    Answer, Container!Stops, Stops, Container!Interferes, Interferes, Container!Awaited,
    Awaited, Container!Goto, Goto, Container!Reads, Reads, Container!Changes, Changes,
    Container!Reports, Reports, Container!Refuse, Refuse, Container!Undisturbed,
    Undisturbed, Container!Killed, Killed

(* docker_image,                                                           *)
LEMMA ImageIsARun ==
    /\ \A R, S : Image!InitRuns(R, S) <=> InitRuns(R, S)
    /\ \A task, m, place, r : Image!Begin(task, m, place, r) <=> Begin(task, m, place, r)
    /\ \A place, a, r, c : Image!Step(place, a, r, c) <=> Step(place, a, r, c)
    /\ \A place : Image!Goto(place) <=> Step(place, actual, run.read, run.changed)
    /\ \A place, r : Image!Reads(place, r) <=> Step(place, actual, r, run.changed)
    /\ \A place, a : Image!Changes(place, a) <=> Step(place, a, run.read, TRUE)
    /\ \A place : Image!Reports(place) <=> Step(place, actual, run.read, TRUE)
    /\ \A c : Image!Answer(c) <=> Answer(c)
    /\ \A reply : Image!Stops(reply) <=> Stops(reply)
    /\ Image!Refuse <=> Stops("refused")
    /\ Image!Killed <=> ~Idle /\ Stops("killed")
    /\ \A a : Image!Interferes(a) <=> Interferes(a)
    /\ \A a : Image!Awaited(a) <=> Awaited(a)
    /\ Image!NoMemo = NoMemo /\ Image!Undisturbed = Undisturbed
  BY DEF
    Image!At, At, Image!Idle, Idle, Image!Checking, Checking, Image!NoMemo, NoMemo,
    Image!Rest, Rest, Image!InitRuns, InitRuns, Image!Begin, Begin, Image!Step, Step,
    Image!Ends, Ends, Image!Answer, Answer, Image!Stops, Stops, Image!Interferes,
    Interferes, Image!Awaited, Awaited, Image!Goto, Goto, Image!Reads, Reads,
    Image!Changes, Changes, Image!Reports, Reports, Image!Refuse, Refuse,
    Image!Undisturbed, Undisturbed, Image!Killed, Killed

(* docker_network,                                                         *)
LEMMA NetworkIsARun ==
    /\ \A R, S : Network!InitRuns(R, S) <=> InitRuns(R, S)
    /\ \A task, m, place, r : Network!Begin(task, m, place, r) <=> Begin(task, m, place, r)
    /\ \A place, a, r, c : Network!Step(place, a, r, c) <=> Step(place, a, r, c)
    /\ \A place : Network!Goto(place) <=> Step(place, actual, run.read, run.changed)
    /\ \A place, r : Network!Reads(place, r) <=> Step(place, actual, r, run.changed)
    /\ \A place, a : Network!Changes(place, a) <=> Step(place, a, run.read, TRUE)
    /\ \A place : Network!Reports(place) <=> Step(place, actual, run.read, TRUE)
    /\ \A c : Network!Answer(c) <=> Answer(c)
    /\ \A reply : Network!Stops(reply) <=> Stops(reply)
    /\ Network!Refuse <=> Stops("refused")
    /\ Network!Killed <=> ~Idle /\ Stops("killed")
    /\ \A a : Network!Interferes(a) <=> Interferes(a)
    /\ \A a : Network!Awaited(a) <=> Awaited(a)
    /\ Network!NoMemo = NoMemo /\ Network!Undisturbed = Undisturbed
  BY DEF
    Network!At, At, Network!Idle, Idle, Network!Checking, Checking, Network!NoMemo,
    NoMemo, Network!Rest, Rest, Network!InitRuns, InitRuns, Network!Begin, Begin,
    Network!Step, Step, Network!Ends, Ends, Network!Answer, Answer, Network!Stops, Stops,
    Network!Interferes, Interferes, Network!Awaited, Awaited, Network!Goto, Goto,
    Network!Reads, Reads, Network!Changes, Changes, Network!Reports, Reports,
    Network!Refuse, Refuse, Network!Undisturbed, Undisturbed, Network!Killed, Killed

(* docker_volume,                                                          *)
LEMMA VolumeIsARun ==
    /\ \A R, S : Volume!InitRuns(R, S) <=> InitRuns(R, S)
    /\ \A task, m, place, r : Volume!Begin(task, m, place, r) <=> Begin(task, m, place, r)
    /\ \A place, a, r, c : Volume!Step(place, a, r, c) <=> Step(place, a, r, c)
    /\ \A place : Volume!Goto(place) <=> Step(place, actual, run.read, run.changed)
    /\ \A place, r : Volume!Reads(place, r) <=> Step(place, actual, r, run.changed)
    /\ \A place, a : Volume!Changes(place, a) <=> Step(place, a, run.read, TRUE)
    /\ \A place : Volume!Reports(place) <=> Step(place, actual, run.read, TRUE)
    /\ \A c : Volume!Answer(c) <=> Answer(c)
    /\ \A reply : Volume!Stops(reply) <=> Stops(reply)
    /\ Volume!Refuse <=> Stops("refused")
    /\ Volume!Killed <=> ~Idle /\ Stops("killed")
    /\ \A a : Volume!Interferes(a) <=> Interferes(a)
    /\ \A a : Volume!Awaited(a) <=> Awaited(a)
    /\ Volume!NoMemo = NoMemo /\ Volume!Undisturbed = Undisturbed
  BY DEF
    Volume!At, At, Volume!Idle, Idle, Volume!Checking, Checking, Volume!NoMemo, NoMemo,
    Volume!Rest, Rest, Volume!InitRuns, InitRuns, Volume!Begin, Begin, Volume!Step, Step,
    Volume!Ends, Ends, Volume!Answer, Answer, Volume!Stops, Stops, Volume!Interferes,
    Interferes, Volume!Awaited, Awaited, Volume!Goto, Goto, Volume!Reads, Reads,
    Volume!Changes, Changes, Volume!Reports, Reports, Volume!Refuse, Refuse,
    Volume!Undisturbed, Undisturbed, Volume!Killed, Killed

(* docker_image_pull, _push, _tag and _remove,                             *)
LEMMA ToolIsARun ==
    /\ \A R, S : Tool!InitRuns(R, S) <=> InitRuns(R, S)
    /\ \A task, m, place, r : Tool!Begin(task, m, place, r) <=> Begin(task, m, place, r)
    /\ \A place, a, r, c : Tool!Step(place, a, r, c) <=> Step(place, a, r, c)
    /\ \A place : Tool!Goto(place) <=> Step(place, actual, run.read, run.changed)
    /\ \A place, r : Tool!Reads(place, r) <=> Step(place, actual, r, run.changed)
    /\ \A place, a : Tool!Changes(place, a) <=> Step(place, a, run.read, TRUE)
    /\ \A place : Tool!Reports(place) <=> Step(place, actual, run.read, TRUE)
    /\ \A c : Tool!Answer(c) <=> Answer(c)
    /\ \A reply : Tool!Stops(reply) <=> Stops(reply)
    /\ Tool!Refuse <=> Stops("refused")
    /\ Tool!Killed <=> ~Idle /\ Stops("killed")
    /\ \A a : Tool!Interferes(a) <=> Interferes(a)
    /\ \A a : Tool!Awaited(a) <=> Awaited(a)
    /\ Tool!NoMemo = NoMemo /\ Tool!Undisturbed = Undisturbed
  BY DEF
    Tool!At, At, Tool!Idle, Idle, Tool!Checking, Checking, Tool!NoMemo, NoMemo, Tool!Rest,
    Rest, Tool!InitRuns, InitRuns, Tool!Begin, Begin, Tool!Step, Step, Tool!Ends, Ends,
    Tool!Answer, Answer, Tool!Stops, Stops, Tool!Interferes, Interferes, Tool!Awaited,
    Awaited, Tool!Goto, Goto, Tool!Reads, Reads, Tool!Changes, Changes, Tool!Reports,
    Reports, Tool!Refuse, Refuse, Tool!Undisturbed, Undisturbed, Tool!Killed, Killed

(* docker_image_export and _load,                                          *)
LEMMA ArchiveIsARun ==
    /\ \A R, S : Archive!InitRuns(R, S) <=> InitRuns(R, S)
    /\ \A task, m, place, r : Archive!Begin(task, m, place, r) <=> Begin(task, m, place, r)
    /\ \A place, a, r, c : Archive!Step(place, a, r, c) <=> Step(place, a, r, c)
    /\ \A place : Archive!Goto(place) <=> Step(place, actual, run.read, run.changed)
    /\ \A place, r : Archive!Reads(place, r) <=> Step(place, actual, r, run.changed)
    /\ \A place, a : Archive!Changes(place, a) <=> Step(place, a, run.read, TRUE)
    /\ \A place : Archive!Reports(place) <=> Step(place, actual, run.read, TRUE)
    /\ \A c : Archive!Answer(c) <=> Answer(c)
    /\ \A reply : Archive!Stops(reply) <=> Stops(reply)
    /\ Archive!Refuse <=> Stops("refused")
    /\ Archive!Killed <=> ~Idle /\ Stops("killed")
    /\ \A a : Archive!Interferes(a) <=> Interferes(a)
    /\ \A a : Archive!Awaited(a) <=> Awaited(a)
    /\ Archive!NoMemo = NoMemo /\ Archive!Undisturbed = Undisturbed
  BY DEF
    Archive!At, At, Archive!Idle, Idle, Archive!Checking, Checking, Archive!NoMemo,
    NoMemo, Archive!Rest, Rest, Archive!InitRuns, InitRuns, Archive!Begin, Begin,
    Archive!Step, Step, Archive!Ends, Ends, Archive!Answer, Answer, Archive!Stops, Stops,
    Archive!Interferes, Interferes, Archive!Awaited, Awaited, Archive!Goto, Goto,
    Archive!Reads, Reads, Archive!Changes, Changes, Archive!Reports, Reports,
    Archive!Refuse, Refuse, Archive!Undisturbed, Undisturbed, Archive!Killed, Killed

(* docker_swarm,                                                           *)
LEMMA ClusterIsARun ==
    /\ \A R, S : Cluster!InitRuns(R, S) <=> InitRuns(R, S)
    /\ \A task, m, place, r : Cluster!Begin(task, m, place, r) <=> Begin(task, m, place, r)
    /\ \A place, a, r, c : Cluster!Step(place, a, r, c) <=> Step(place, a, r, c)
    /\ \A place : Cluster!Goto(place) <=> Step(place, actual, run.read, run.changed)
    /\ \A place, r : Cluster!Reads(place, r) <=> Step(place, actual, r, run.changed)
    /\ \A place, a : Cluster!Changes(place, a) <=> Step(place, a, run.read, TRUE)
    /\ \A place : Cluster!Reports(place) <=> Step(place, actual, run.read, TRUE)
    /\ \A c : Cluster!Answer(c) <=> Answer(c)
    /\ \A reply : Cluster!Stops(reply) <=> Stops(reply)
    /\ Cluster!Refuse <=> Stops("refused")
    /\ Cluster!Killed <=> ~Idle /\ Stops("killed")
    /\ \A a : Cluster!Interferes(a) <=> Interferes(a)
    /\ \A a : Cluster!Awaited(a) <=> Awaited(a)
    /\ Cluster!NoMemo = NoMemo /\ Cluster!Undisturbed = Undisturbed
  BY DEF
    Cluster!At, At, Cluster!Idle, Idle, Cluster!Checking, Checking, Cluster!NoMemo,
    NoMemo, Cluster!Rest, Rest, Cluster!InitRuns, InitRuns, Cluster!Begin, Begin,
    Cluster!Step, Step, Cluster!Ends, Ends, Cluster!Answer, Answer, Cluster!Stops, Stops,
    Cluster!Interferes, Interferes, Cluster!Awaited, Awaited, Cluster!Goto, Goto,
    Cluster!Reads, Reads, Cluster!Changes, Changes, Cluster!Reports, Reports,
    Cluster!Refuse, Refuse, Cluster!Undisturbed, Undisturbed, Cluster!Killed, Killed

(* docker_config and docker_secret,                                        *)
LEMMA DataIsARun ==
    /\ \A R, S : Data!InitRuns(R, S) <=> InitRuns(R, S)
    /\ \A task, m, place, r : Data!Begin(task, m, place, r) <=> Begin(task, m, place, r)
    /\ \A place, a, r, c : Data!Step(place, a, r, c) <=> Step(place, a, r, c)
    /\ \A place : Data!Goto(place) <=> Step(place, actual, run.read, run.changed)
    /\ \A place, r : Data!Reads(place, r) <=> Step(place, actual, r, run.changed)
    /\ \A place, a : Data!Changes(place, a) <=> Step(place, a, run.read, TRUE)
    /\ \A place : Data!Reports(place) <=> Step(place, actual, run.read, TRUE)
    /\ \A c : Data!Answer(c) <=> Answer(c)
    /\ \A reply : Data!Stops(reply) <=> Stops(reply)
    /\ Data!Refuse <=> Stops("refused")
    /\ Data!Killed <=> ~Idle /\ Stops("killed")
    /\ \A a : Data!Interferes(a) <=> Interferes(a)
    /\ \A a : Data!Awaited(a) <=> Awaited(a)
    /\ Data!NoMemo = NoMemo /\ Data!Undisturbed = Undisturbed
  BY DEF
    Data!At, At, Data!Idle, Idle, Data!Checking, Checking, Data!NoMemo, NoMemo, Data!Rest,
    Rest, Data!InitRuns, InitRuns, Data!Begin, Begin, Data!Step, Step, Data!Ends, Ends,
    Data!Answer, Answer, Data!Stops, Stops, Data!Interferes, Interferes, Data!Awaited,
    Awaited, Data!Goto, Goto, Data!Reads, Reads, Data!Changes, Changes, Data!Reports,
    Reports, Data!Refuse, Refuse, Data!Undisturbed, Undisturbed, Data!Killed, Killed

(* docker_node                                                             *)
LEMMA NodeIsARun ==
    /\ \A R, S : Node!InitRuns(R, S) <=> InitRuns(R, S)
    /\ \A task, m, place, r : Node!Begin(task, m, place, r) <=> Begin(task, m, place, r)
    /\ \A place, a, r, c : Node!Step(place, a, r, c) <=> Step(place, a, r, c)
    /\ \A place : Node!Goto(place) <=> Step(place, actual, run.read, run.changed)
    /\ \A place, r : Node!Reads(place, r) <=> Step(place, actual, r, run.changed)
    /\ \A place, a : Node!Changes(place, a) <=> Step(place, a, run.read, TRUE)
    /\ \A place : Node!Reports(place) <=> Step(place, actual, run.read, TRUE)
    /\ \A c : Node!Answer(c) <=> Answer(c)
    /\ \A reply : Node!Stops(reply) <=> Stops(reply)
    /\ Node!Refuse <=> Stops("refused")
    /\ Node!Killed <=> ~Idle /\ Stops("killed")
    /\ \A a : Node!Interferes(a) <=> Interferes(a)
    /\ \A a : Node!Awaited(a) <=> Awaited(a)
    /\ Node!NoMemo = NoMemo /\ Node!Undisturbed = Undisturbed
  BY DEF
    Node!At, At, Node!Idle, Idle, Node!Checking, Checking, Node!NoMemo, NoMemo, Node!Rest,
    Rest, Node!InitRuns, InitRuns, Node!Begin, Begin, Node!Step, Step, Node!Ends, Ends,
    Node!Answer, Answer, Node!Stops, Stops, Node!Interferes, Interferes, Node!Awaited,
    Awaited, Node!Goto, Goto, Node!Reads, Reads, Node!Changes, Changes, Node!Reports,
    Reports, Node!Refuse, Refuse, Node!Undisturbed, Undisturbed, Node!Killed, Killed

(* and docker_swarm_service.                                               *)
LEMMA ServiceIsARun ==
    /\ \A R, S : Service!InitRuns(R, S) <=> InitRuns(R, S)
    /\ \A task, m, place, r : Service!Begin(task, m, place, r) <=> Begin(task, m, place, r)
    /\ \A place, a, r, c : Service!Step(place, a, r, c) <=> Step(place, a, r, c)
    /\ \A place : Service!Goto(place) <=> Step(place, actual, run.read, run.changed)
    /\ \A place, r : Service!Reads(place, r) <=> Step(place, actual, r, run.changed)
    /\ \A place, a : Service!Changes(place, a) <=> Step(place, a, run.read, TRUE)
    /\ \A place : Service!Reports(place) <=> Step(place, actual, run.read, TRUE)
    /\ \A c : Service!Answer(c) <=> Answer(c)
    /\ \A reply : Service!Stops(reply) <=> Stops(reply)
    /\ Service!Refuse <=> Stops("refused")
    /\ Service!Killed <=> ~Idle /\ Stops("killed")
    /\ \A a : Service!Interferes(a) <=> Interferes(a)
    /\ \A a : Service!Awaited(a) <=> Awaited(a)
    /\ Service!NoMemo = NoMemo /\ Service!Undisturbed = Undisturbed
  BY DEF
    Service!At, At, Service!Idle, Idle, Service!Checking, Checking, Service!NoMemo,
    NoMemo, Service!Rest, Rest, Service!InitRuns, InitRuns, Service!Begin, Begin,
    Service!Step, Step, Service!Ends, Ends, Service!Answer, Answer, Service!Stops, Stops,
    Service!Interferes, Interferes, Service!Awaited, Awaited, Service!Goto, Goto,
    Service!Reads, Reads, Service!Changes, Changes, Service!Reports, Reports,
    Service!Refuse, Refuse, Service!Undisturbed, Undisturbed, Service!Killed, Killed

-----------------------------------------------------------------------------
(* docker_volume.                                                          *)

VolumeHosts == {v \in Volume!Volumes : ~v.there => v = Volume!NoVolume}
VolumeReads == Volume!Snapshots
VolumeForetells(task) == TRUE
VolumeSettles(task, checking) == task.state = "absent" \/ task.recreate # "always"
VolumeHides(task) == FALSE
VolumeMore == Volume!DataKept

(* What a run would do to a volume; and what one that is at a place will   *)
(* report.                                                                 *)
VolumeChange(task, v) ==
    IF task.state = "absent" THEN v.there
    ELSE \/ ~v.there \/ task.recreate = "always"
         \/ task.recreate = "options-changed" /\ Volume!HasDifferentConfig(task, v)
VolumeWill(place, task, v, r, c) == IF place = "answer" THEN c ELSE VolumeChange(task, v)
VolumeAlways(place, task, v, r, checking) ==
    /\ place \in {"remove", "create"} => ~checking
    /\ place = "create" => task.state = "present"
(* What a run with which nobody interferes knows at a place.               *)
VolumeKnows(place, task, v, r, c, touched, checking) ==
    /\ checking => ~touched
    /\ touched => ~v.data
    /\ place \in {"inspect", "decide", "remove"} => ~c /\ ~touched
    /\ place = "decide" => /\ r.found = v.there
                           /\ r.differs = (v.there /\ Volume!HasDifferentConfig(task, v))
    /\ place = "remove" => VolumeChange(task, v) /\ v.there
    /\ place = "create" => ~v.there
    /\ place = "answer" =>
          /\ IF c THEN ~checking => Volume!Satisfied(task, v)
                  ELSE Volume!Satisfied(task, v) /\ ~touched
          /\ ~checking /\ VolumeSettles(task, FALSE) => ~VolumeChange(task, v)
VolumeFine(place, task, h, r, c, touched, checking, expect, again) ==
    /\ VolumeKnows(place, task, h, r, c, touched, checking)
    /\ ~checking /\ expect # "none" /\ VolumeForetells(task) =>
          (expect = "changed" <=> VolumeWill(place, task, h, r, c))
    /\ checking /\ VolumeForetells(task) => (VolumeWill(place, task, h, r, c) <=> VolumeChange(task, h))
    /\ again /\ VolumeSettles(task, checking) => ~VolumeWill(place, task, h, r, c) /\ ~touched
VolumeInv ==
    /\ RunTyped(VolumeHosts, VolumeTasks, Volume!Places, VolumeReads)
    /\ run.at # "idle" => VolumeAlways(run.at, run.task, actual, run.read, Checking)
    /\ run.at # "idle" /\ ~run.disturbed =>
          VolumeFine(run.at, run.task, actual, run.read, run.changed, run.touched, Checking,
                run.expect, run.again)
    /\ memo.forecast # "none" /\ VolumeForetells(run.task) =>
          (memo.forecast = "changed" <=> VolumeChange(run.task, actual))
    /\ memo.settled /\ VolumeSettles(run.task, FALSE) => ~VolumeChange(run.task, actual)
VolumeRespects ==
    /\ RunMoves /\ Truthful(Volume!Satisfied(run.task, actual), VolumeHides(run.task))
    /\ Volume!Predicts /\ Volume!Idempotent /\ VolumeMore

LEMMA VolumeGiven ==
    VolumeInv =>
      /\ actual \in VolumeHosts /\ run.changed \in BOOLEAN /\ run.touched \in BOOLEAN
      /\ "idle" \notin Volume!Places /\ run.at \in Volume!Places \union {"idle"}
      /\ run.task \in VolumeTasks /\ run.mode \in {"check", "apply"} /\ run.disturbed \in BOOLEAN
      /\ run.at # "idle" => run.read \in VolumeReads /\ run.reply = "none"
  BY DEF VolumeInv, RunTyped, RunStates, Idle, At, Volume!Places

LEMMA VolumeRuns ==
    VolumeInv /\ run.at # "idle" /\ ~run.disturbed =>
      VolumeFine(run.at, run.task, actual, run.read, run.changed, run.touched, Checking,
            run.expect, run.again)
  BY DEF VolumeInv

LEMMA VolumeSilent ==
    ASSUME ~AnswersOK, RunMoves, VolumeMore PROVE VolumeRespects
  BY DEF VolumeRespects, Truthful, Volume!Predicts, Volume!Foretold, Volume!Idempotent, Volume!Unchanging,
     Volume!AnswersOK, AnswersOK, Volume!Answers, Answers, Volume!Idle, Idle, Volume!At, At

LEMMA VolumeStep ==
    ASSUME VolumeInv, run.at # "idle", NEW place \in Volume!Places, NEW a \in VolumeHosts,
           NEW r \in VolumeReads, NEW c \in BOOLEAN, Step(place, a, r, c), VolumeMore,
           Checking => a = actual, VolumeAlways(place, run.task, a, r, Checking),
           ~run.disturbed =>
             /\ VolumeKnows(place, run.task, a, r, c, run.touched \/ a # actual, Checking)
             /\ VolumeForetells(run.task) =>
                  (VolumeWill(place, run.task, a, r, c) <=>
                     VolumeWill(run.at, run.task, actual, run.read, run.changed))
             /\ VolumeSettles(run.task, Checking) /\ (a # actual \/ VolumeWill(place, run.task, a, r, c)) =>
                  VolumeWill(run.at, run.task, actual, run.read, run.changed)
    PROVE VolumeInv' /\ VolumeRespects
<1>1. /\ RunTyped(VolumeHosts, VolumeTasks, Volume!Places, VolumeReads)' /\ actual' = a
      /\ run'.at = place /\ run'.read = r /\ run'.changed = c /\ run'.task = run.task
      /\ run'.mode = run.mode /\ run'.expect = run.expect /\ run'.again = run.again
      /\ run'.disturbed = run.disturbed /\ run'.touched = (run.touched \/ a # actual)
      /\ memo'.settled => memo.settled /\ a = actual
      /\ memo'.forecast # "none" => memo'.forecast = memo.forecast /\ a = actual
      /\ RunMoves /\ place # "idle"
  <2>1. /\ RunTyped(VolumeHosts, VolumeTasks, Volume!Places, VolumeReads) /\ "idle" \notin Volume!Places
        /\ ~Idle /\ place # "idle"
    BY VolumeGiven DEF VolumeInv, Idle, At
  <2> QED
    BY <2>1, RunStep
<1>2. VolumeInv'
  <2>1. VolumeAlways(run'.at, run'.task, actual', run'.read, Checking')
    BY <1>1 DEF Checking
  <2>2. ASSUME ~run'.disturbed
        PROVE VolumeFine(run'.at, run'.task, actual', run'.read, run'.changed, run'.touched, Checking',
                    run'.expect, run'.again)
    <3>1. VolumeFine(run.at, run.task, actual, run.read, run.changed, run.touched, Checking,
                run.expect, run.again)
      BY <1>1, <2>2, VolumeRuns
    <3>2. VolumeFine(place, run.task, a, r, c, run.touched \/ a # actual, Checking,
                run.expect, run.again)
      BY <1>1, <2>2, <3>1 DEF VolumeFine
    <3> QED
      BY <1>1, <3>2 DEF Checking
  <2>3. /\ memo'.forecast # "none" /\ VolumeForetells(run'.task) =>
             (memo'.forecast = "changed" <=> VolumeChange(run'.task, actual'))
        /\ memo'.settled /\ VolumeSettles(run'.task, FALSE) => ~VolumeChange(run'.task, actual')
    BY <1>1 DEF VolumeInv
  <2> QED
    BY <1>1, <2>1, <2>2, <2>3 DEF VolumeInv
<1> QED
  BY <1>1, <1>2, RunSilent, VolumeSilent

LEMMA VolumeGoes ==
    ASSUME VolumeInv, run.at # "idle", NEW place \in Volume!Places, NEW r \in VolumeReads, NEW c \in BOOLEAN,
           Step(place, actual, r, c), VolumeMore, VolumeAlways(place, run.task, actual, r, Checking),
           ~run.disturbed =>
             /\ VolumeKnows(place, run.task, actual, r, c, run.touched, Checking)
             /\ VolumeForetells(run.task) =>
                  (VolumeWill(place, run.task, actual, r, c) <=>
                     VolumeWill(run.at, run.task, actual, run.read, run.changed))
             /\ VolumeSettles(run.task, Checking) /\ VolumeWill(place, run.task, actual, r, c) =>
                  VolumeWill(run.at, run.task, actual, run.read, run.changed)
    PROVE VolumeInv' /\ VolumeRespects
<1>1. actual \in VolumeHosts /\ (run.touched \/ actual # actual) = run.touched
  BY VolumeGiven
<1> QED
  BY <1>1, VolumeStep

LEMMA VolumeStops ==
    ASSUME VolumeInv, run.at # "idle", NEW reply \in {"failed", "refused", "killed"}, Stops(reply), VolumeMore
    PROVE VolumeInv' /\ VolumeRespects
<1>1. /\ RunTyped(VolumeHosts, VolumeTasks, Volume!Places, VolumeReads)' /\ run'.at = "idle" /\ actual' = actual
      /\ run'.reply = reply /\ run'.task = run.task /\ memo' = memo /\ RunMoves
  BY RunStops DEF VolumeInv, Replies, Idle, At
<1>2. VolumeInv'
  BY <1>1 DEF VolumeInv
<1> QED
  BY <1>1, <1>2, RunSilent, VolumeSilent

LEMMA VolumeAnswers ==
    ASSUME VolumeInv, run.at # "idle", NEW c \in BOOLEAN, Answer(c), VolumeMore,
           ~run.disturbed =>
             /\ c <=> VolumeWill(run.at, run.task, actual, run.read, run.changed)
             /\ IF c THEN ~Checking => Volume!Satisfied(run.task, actual)
                     ELSE Volume!Satisfied(run.task, actual) /\ (run.touched => VolumeHides(run.task))
             /\ ~Checking /\ VolumeSettles(run.task, FALSE) => ~VolumeChange(run.task, actual)
    PROVE VolumeInv' /\ VolumeRespects
<1>1. /\ RunTyped(VolumeHosts, VolumeTasks, Volume!Places, VolumeReads)' /\ run'.at = "idle" /\ actual' = actual
      /\ run'.reply = "ok" /\ run'.changed = c /\ run'.task = run.task /\ run'.mode = run.mode
      /\ IF Checking THEN memo'.settled = memo.settled ELSE memo'.settled => ~run.disturbed
      /\ memo'.forecast # "none" =>
            Checking /\ ~run.disturbed /\ (memo'.forecast = "changed" <=> c)
      /\ RunMoves
  BY RunAnswers DEF VolumeInv, Idle, At
<1>0. ~run.disturbed =>
        /\ ~Checking /\ run.expect # "none" /\ VolumeForetells(run.task) => (run.expect = "changed" <=> c)
        /\ Checking /\ VolumeForetells(run.task) => (c <=> VolumeChange(run.task, actual))
        /\ run.again /\ VolumeSettles(run.task, Checking) => ~c /\ ~run.touched
  BY VolumeRuns DEF VolumeFine
<1>2. VolumeInv'
  <2>1. memo'.forecast # "none" /\ VolumeForetells(run'.task) =>
             (memo'.forecast = "changed" <=> VolumeChange(run'.task, actual'))
    <3>1. ~run.disturbed /\ Checking /\ VolumeForetells(run.task) => (c <=> VolumeChange(run.task, actual))
      BY <1>0
    <3> QED
      BY <1>1, <3>1
  <2>2. memo'.settled /\ VolumeSettles(run'.task, FALSE) => ~VolumeChange(run'.task, actual')
    BY <1>1 DEF VolumeInv
  <2> QED
    BY <1>1, <2>1, <2>2 DEF VolumeInv
<1>3. Truthful(Volume!Satisfied(run.task, actual), VolumeHides(run.task))
  BY <1>1 DEF Truthful
<1>5. Volume!Predicts
  BY <1>0, <1>1 DEF Volume!Predicts, Volume!Foretold, Volume!Checking, Checking, Volume!t, VolumeForetells
<1>6. Volume!Idempotent
  BY <1>0, <1>1 DEF Volume!Idempotent, Volume!Unchanging, Volume!Checking, Checking, Volume!t, VolumeSettles
<1> QED
  BY <1>1, <1>2, <1>3, <1>5, <1>6 DEF VolumeRespects

LEMMA VolumeBegins ==
    ASSUME VolumeInv, run.at = "idle", NEW task \in VolumeTasks, NEW m \in {"check", "apply"},
           NEW place \in Volume!Places, NEW r \in VolumeReads, Begin(task, m, place, r), VolumeMore,
           VolumeAlways(place, task, actual, r, m = "check"),
           VolumeKnows(place, task, actual, r, FALSE, FALSE, m = "check"),
           \/ m = "check" /\ ~VolumeSettles(task, TRUE) /\ ~VolumeForetells(task)
           \/ VolumeWill(place, task, actual, r, FALSE) <=> VolumeChange(task, actual),
           VolumeSettles(task, TRUE) => VolumeSettles(task, FALSE)
    PROVE VolumeInv' /\ VolumeRespects
<1>1. /\ RunTyped(VolumeHosts, VolumeTasks, Volume!Places, VolumeReads)' /\ actual' = actual
      /\ run'.at = place /\ run'.read = r /\ run'.task = task /\ run'.mode = m
      /\ run'.disturbed = FALSE /\ run'.touched = FALSE /\ run'.changed = FALSE /\ RunMoves
      /\ run'.again \/ memo'.settled => memo.settled /\ task = run.task
      /\ run'.expect # "none" => run'.expect = memo.forecast /\ task = run.task
      /\ memo'.forecast # "none" => memo'.forecast = memo.forecast /\ task = run.task
      /\ Checking' = (m = "check") /\ run'.at # "idle"
  <2>1. /\ RunTyped(VolumeHosts, VolumeTasks, Volume!Places, VolumeReads)' /\ actual' = actual
        /\ run'.at = place /\ run'.read = r /\ run'.task = task /\ run'.mode = m
        /\ ~run'.disturbed /\ ~run'.touched /\ ~run'.changed /\ RunMoves
        /\ run'.again \/ memo'.settled => memo.settled /\ task = run.task
        /\ run'.expect # "none" => run'.expect = memo.forecast /\ task = run.task
        /\ memo'.forecast # "none" => memo'.forecast = memo.forecast /\ task = run.task
    <3>1. RunTyped(VolumeHosts, VolumeTasks, Volume!Places, VolumeReads) /\ "idle" \notin Volume!Places
      BY VolumeGiven DEF VolumeInv
    <3> QED
      BY <3>1, RunBegin
  <2>2. /\ run'.disturbed \in BOOLEAN /\ run'.touched \in BOOLEAN /\ run'.changed \in BOOLEAN
    BY <2>1 DEF RunTyped, RunStates
  <2> QED
    BY <2>1, <2>2, VolumeGiven DEF Checking
<1>2. VolumeInv'
  <2>1. VolumeAlways(run'.at, run'.task, actual', run'.read, Checking')
    BY <1>1
  <2>2. /\ memo'.forecast # "none" /\ VolumeForetells(run'.task) =>
             (memo'.forecast = "changed" <=> VolumeChange(run'.task, actual'))
        /\ memo'.settled /\ VolumeSettles(run'.task, FALSE) => ~VolumeChange(run'.task, actual')
    BY <1>1 DEF VolumeInv
  <2>3. VolumeFine(run'.at, run'.task, actual', run'.read, run'.changed, run'.touched, Checking',
              run'.expect, run'.again)
    <3>1. ~Checking' /\ run'.expect # "none" /\ VolumeForetells(task) =>
             (run'.expect = "changed" <=> VolumeWill(place, task, actual, r, FALSE))
      BY <1>1 DEF VolumeInv
    <3>2. run'.again /\ VolumeSettles(task, Checking') => ~VolumeWill(place, task, actual, r, FALSE)
      BY <1>1 DEF VolumeInv
    <3>3. VolumeFine(place, task, actual, r, FALSE, FALSE, Checking', run'.expect, run'.again)
      BY <1>1, <3>1, <3>2 DEF VolumeFine
    <3> QED
      BY <1>1, <3>3
  <2> QED
    BY <1>1, <2>1, <2>2, <2>3 DEF VolumeInv
<1> QED
  BY <1>1, <1>2, RunSilent, VolumeSilent DEF Idle, At

LEMMA VolumeInterferes ==
    ASSUME VolumeInv, NEW a \in VolumeHosts, Interferes(a), VolumeMore,
           run.at # "idle" => VolumeAlways(run.at, run.task, a, run.read, Checking)
    PROVE VolumeInv' /\ VolumeRespects
<1>1. /\ RunTyped(VolumeHosts, VolumeTasks, Volume!Places, VolumeReads)' /\ actual' = a
      /\ run'.at = run.at /\ run'.read = run.read /\ run'.task = run.task
      /\ run'.mode = run.mode /\ (run.at = "idle" \/ run'.disturbed)
      /\ ~memo'.settled /\ memo'.forecast = "none" /\ RunMoves
  BY RunInterferes DEF VolumeInv
<1>2. VolumeInv'
  BY <1>1 DEF VolumeInv, Checking
<1>3. ~AnswersOK
  BY <1>1 DEF AnswersOK, Answers, Idle, At
<1> QED
  BY <1>1, <1>2, <1>3, VolumeSilent

LEMMA VolumeStutters == ASSUME VolumeInv, UNCHANGED vars, VolumeMore PROVE VolumeInv' /\ VolumeRespects
<1>1. run' = run /\ actual' = actual /\ memo' = memo
  BY DEF vars
<1>2. VolumeInv'
  BY <1>1 DEF VolumeInv, RunTyped, Idle, At, Checking
<1>3. ~AnswersOK /\ RunMoves
  BY <1>1 DEF AnswersOK, Answers, Idle, At, RunMoves
<1> QED
  BY <1>2, <1>3, VolumeSilent

LEMMA VolumeInit == Volume!Init => VolumeInv
<1> SUFFICES ASSUME Volume!Init PROVE VolumeInv
  OBVIOUS
<1>1. {Volume!NoVolume} \subseteq VolumeHosts
  BY DockerAssumption DEF VolumeHosts, Volume!Volumes, Volume!NoVolume, Volume!TaskAssumption
<1>2. InitRuns({Volume!NoVolume}, VolumeTasks)
  BY VolumeIsARun DEF Volume!Init
<1> QED
  BY <1>1, <1>2, RunInit DEF VolumeInv

(* The steps of a run at each place.                                       *)
LEMMA VolumeSteps ==
    ASSUME VolumeInv, Volume!Steps \/ Volume!CallError \/ Volume!Killed
    PROVE VolumeInv' /\ VolumeRespects
<1> DEFINE Goal == VolumeInv' /\ VolumeRespects
           task == run.task
           r == run.read
<1>1. /\ actual \in VolumeHosts /\ run.changed \in BOOLEAN /\ run.touched \in BOOLEAN
      /\ "idle" \notin Volume!Places /\ task \in Volume!Requests
      /\ run.at # "idle" => r \in VolumeReads
  BY VolumeGiven, DockerAssumption DEF Volume!TaskAssumption
<1>2. run.at # "idle" => VolumeAlways(run.at, task, actual, r, Checking)
  BY DEF VolumeInv
<1>3. run.at # "idle" /\ ~run.disturbed =>
         VolumeKnows(run.at, task, actual, r, run.changed, run.touched, Checking)
  BY VolumeRuns DEF VolumeFine
<1>4. VolumeMore \/ actual' # actual
  BY DEF VolumeMore, Volume!DataKept
<1>5. CASE Volume!InspectVolume
  <2> DEFINE seen == [found |-> actual.there,
                      differs |-> actual.there /\ Volume!HasDifferentConfig(task, actual)]
  <2>1. run.at = "inspect" /\ Step("decide", actual, seen, run.changed)
    BY <1>5, VolumeIsARun DEF Volume!InspectVolume, Volume!At, Volume!t
  <2>2. seen \in VolumeReads
    BY <1>1 DEF VolumeReads, Volume!Snapshots, VolumeHosts, Volume!Volumes, Volume!HasDifferentConfig
  <2>3. VolumeAlways("decide", task, actual, seen, Checking)
    BY DEF VolumeAlways
  <2>4. ~run.disturbed =>
          VolumeKnows("decide", task, actual, seen, run.changed, run.touched, Checking)
    BY <1>3, <2>1 DEF VolumeKnows
  <2> HIDE DEF seen
  <2> QED
    BY Zenon, <1>1, <1>4, <2>1, <2>2, <2>3, <2>4, VolumeStep DEF VolumeWill, Volume!Places, Step
<1>6. ASSUME NEW place \in {"answer", "remove", "create"}, NEW c \in BOOLEAN,
             run.at = "decide", Step(place, actual, r, c),
             VolumeAlways(place, task, actual, r, Checking),
             ~run.disturbed =>
                /\ VolumeKnows(place, task, actual, r, c, run.touched, Checking)
                /\ VolumeWill(place, task, actual, r, c) <=> VolumeChange(task, actual)
      PROVE Goal
  <2>1. ~run.disturbed => (VolumeWill(place, task, actual, r, c) <=>
                               VolumeWill(run.at, task, actual, r, run.changed))
    BY <1>6 DEF VolumeWill
  <2>2. VolumeMore /\ place \in Volume!Places
    BY <1>4, <1>6 DEF Volume!Places, Step
  <2> QED
    BY <1>1, <1>6, <2>1, <2>2, VolumeGoes
<1>7. CASE Volume!DecideAbsent \/ Volume!DecidePresent
  <2> USE DEF VolumeAlways
  <2>1. /\ run.at = "decide" /\ run.changed \in BOOLEAN
        /\ ~run.disturbed => r.found = actual.there /\ ~run.changed /\ ~run.touched
    BY <1>1, <1>3, <1>7 DEF VolumeKnows, Volume!DecideAbsent, Volume!DecidePresent, Volume!At
  <2>2. ~run.disturbed => (r.differs <=> (actual.there /\ Volume!HasDifferentConfig(task, actual)))
    BY <1>3, <2>1 DEF VolumeKnows
  <2>3. task.state = "absent" \/ task.state = "present"
    BY <1>1 DEF Volume!Requests
  <2>4. CASE Volume!DecideAbsent
    <3>1. \/ Step("answer", actual, r, run.changed) /\ ~r.found
          \/ Step("answer", actual, r, TRUE) /\ r.found /\ Checking
          \/ Step("remove", actual, r, run.changed) /\ r.found /\ ~Checking
      BY <2>4, VolumeIsARun DEF Volume!DecideAbsent, Volume!Checking, Checking
    <3>2. task.state = "absent"
      BY <2>4 DEF Volume!DecideAbsent, Volume!t
    <3> QED
      BY <1>6, <2>1, <3>1, <3>2
         DEF VolumeKnows, VolumeWill, VolumeChange, Volume!Satisfied, VolumeHosts
  <2>5. CASE Volume!DecidePresent
    <3> DEFINE again == r.found /\ (task.recreate = "always"
                                     \/ (task.recreate = "options-changed" /\ r.differs))
    <3>1. \/ Step("answer", actual, r, TRUE) /\ (again \/ ~r.found) /\ Checking
          \/ Step("remove", actual, r, run.changed) /\ again /\ ~Checking
          \/ Step("answer", actual, r, run.changed) /\ r.found /\ ~again
          \/ Step("create", actual, r, run.changed) /\ ~r.found /\ ~Checking
      BY <2>5, VolumeIsARun DEF Volume!DecidePresent, Volume!ShouldRecreate, Volume!Checking, Checking,
         Volume!t
    <3>2. task.state = "present" /\ task.recreate \in {"never", "always", "options-changed"}
      BY <1>1, <2>5 DEF Volume!DecidePresent, Volume!t, Volume!Requests
    <3>3. task.state # "absent" /\ actual \in VolumeHosts
      BY <1>1, <3>2
    <3>4. ~run.disturbed /\ (r.found => ~again) /\ r.found => ~VolumeChange(task, actual)
      BY <2>1, <2>2, <3>2, <3>3 DEF VolumeChange
    <3>5. ~run.disturbed /\ (again \/ ~r.found) => VolumeChange(task, actual)
      BY <2>1, <2>2, <3>2, <3>3 DEF VolumeChange
    <3>6. ~VolumeChange(task, actual) => Volume!Satisfied(task, actual)
      BY <3>2, <3>3 DEF VolumeChange, Volume!Satisfied
    <3> HIDE DEF again
    <3>7. CASE Step("answer", actual, r, TRUE) /\ (again \/ ~r.found) /\ Checking
      BY <1>6, <2>1, <3>5, <3>7 DEF VolumeKnows, VolumeWill
    <3>8. CASE Step("remove", actual, r, run.changed) /\ again /\ ~Checking
      <4>1. r.found
        BY <3>8 DEF again
      <4> QED
        BY <1>6, <2>1, <3>5, <3>8, <4>1 DEF VolumeKnows, VolumeWill
    <3>9. CASE Step("answer", actual, r, run.changed) /\ r.found /\ ~again
      BY <1>6, <2>1, <3>4, <3>6, <3>9 DEF VolumeKnows, VolumeWill
    <3>10. CASE Step("create", actual, r, run.changed) /\ ~r.found /\ ~Checking
      BY <1>6, <2>1, <3>3, <3>2, <3>5, <3>10 DEF VolumeKnows, VolumeWill
    <3> QED
      BY <3>1, <3>7, <3>8, <3>9, <3>10
  <2> QED
    BY <1>7, <2>4, <2>5
<1>8. CASE Volume!RemoveVolume
  <2> DEFINE place == IF task.state = "absent" THEN "answer" ELSE "create"
  <2>1. /\ run.at = "remove" /\ actual.there /\ Step(place, Volume!NoVolume, r, TRUE)
        /\ ~Checking /\ (task.state = "absent" \/ task.state = "present")
    BY <1>1, <1>2, <1>8, VolumeIsARun
       DEF Volume!RemoveVolume, Volume!At, Volume!t, VolumeAlways, Volume!Requests
  <2>2. /\ Volume!NoVolume \in VolumeHosts /\ Volume!NoVolume # actual
        /\ ~Volume!NoVolume.there /\ ~Volume!NoVolume.data
    BY <2>1, DockerAssumption DEF VolumeHosts, Volume!Volumes, Volume!NoVolume, Volume!TaskAssumption
  <2>3. ~run.disturbed => VolumeChange(task, actual) /\ ~run.changed
    BY <1>3, <2>1 DEF VolumeKnows
  <2>4. VolumeMore
    BY <2>1, <2>3 DEF VolumeMore, Volume!DataKept, VolumeChange, Volume!HasDifferentConfig, Volume!t
  <2>5. VolumeAlways(place, task, Volume!NoVolume, r, Checking)
    BY <2>1 DEF VolumeAlways
  <2>6. ~run.disturbed =>
          /\ VolumeKnows(place, task, Volume!NoVolume, r, TRUE, TRUE, Checking)
          /\ VolumeWill(place, task, Volume!NoVolume, r, TRUE)
          /\ VolumeWill(run.at, task, actual, r, run.changed)
    BY <2>1, <2>2, <2>3 DEF VolumeKnows, VolumeWill, VolumeChange, Volume!Satisfied
  <2> HIDE DEF place
  <2>7. place \in Volume!Places
    BY DEF place, Volume!Places
  <2>8. Step(place, Volume!NoVolume, r, TRUE) /\ (run.touched \/ Volume!NoVolume # actual) = TRUE
    BY <2>1, <2>2
  <2> QED
    BY <1>1, <2>1, <2>2, <2>4, <2>5, <2>6, <2>7, <2>8, VolumeStep
<1>9. CASE Volume!CreateVolume
  <2> DEFINE a == IF actual.there THEN actual
                  ELSE [Volume!NoVolume EXCEPT !.there = TRUE, !.driver = task.driver,
                          !.options = task.options, !.labels = task.labels]
  <2>1. /\ run.at = "create" /\ Step("answer", a, r, TRUE)
        /\ ~Checking /\ task.state = "present"
    BY <1>2, <1>9, VolumeIsARun DEF Volume!CreateVolume, Volume!At, Volume!t, VolumeAlways
  <2>2. a \in VolumeHosts /\ (~actual.there => a.there /\ ~a.data /\ ~Volume!HasDifferentConfig(task, a))
    BY <1>1, DockerAssumption
       DEF VolumeHosts, Volume!Volumes, Volume!NoVolume, Volume!Requests, Volume!TaskAssumption,
           Volume!HasDifferentConfig
  <2>3. VolumeMore
    <3>1. ~actual.there => ~actual.data
      BY <1>1, DockerAssumption DEF VolumeHosts, Volume!NoVolume
    <3> QED
      BY <2>1, <3>1 DEF VolumeMore, Volume!DataKept, Step
  <2>4. ~run.disturbed => ~actual.there
    BY <1>3, <2>1 DEF VolumeKnows
  <2>5. VolumeAlways("answer", task, a, r, Checking)
    BY DEF VolumeAlways
  <2>6. ~run.disturbed =>
          /\ VolumeKnows("answer", task, a, r, TRUE, run.touched \/ a # actual, Checking)
          /\ VolumeWill("answer", task, a, r, TRUE)
          /\ VolumeWill(run.at, task, actual, r, run.changed)
    BY <2>1, <2>2, <2>4 DEF VolumeKnows, VolumeWill, VolumeChange, Volume!Satisfied, VolumeSettles
  <2> HIDE DEF a
  <2> QED
    BY <1>1, <2>1, <2>2, <2>3, <2>5, <2>6, VolumeStep DEF Volume!Places
<1>10. CASE Volume!Finish
  <2>1. run.at = "answer" /\ Answer(run.changed)
    BY <1>10, VolumeIsARun DEF Volume!Finish, Volume!At
  <2>2. VolumeMore
    BY <1>4, <2>1 DEF Answer
  <2> QED
    BY <1>1, <1>3, <2>1, <2>2, VolumeAnswers DEF VolumeKnows, VolumeWill, VolumeForetells
<1>11. CASE \/ Volume!CannotRemove \/ Volume!CannotCreate \/ Volume!CallError \/ Volume!Killed
  <2>1. PICK reply \in {"failed", "refused", "killed"} : run.at # "idle" /\ Stops(reply)
    BY <1>11, VolumeIsARun
       DEF Volume!CannotRemove, Volume!CannotCreate, Volume!CallError, Volume!CallFails, Volume!At,
           Idle, At
  <2>2. VolumeMore
    BY <1>4, <2>1 DEF Stops
  <2> QED
    BY <2>1, <2>2, VolumeStops
<1> QED
  BY <1>5, <1>7, <1>8, <1>9, <1>10, <1>11 DEF Volume!Steps

LEMMA VolumeNext == VolumeInv /\ [Volume!Next]_vars => VolumeInv' /\ VolumeRespects
<1> SUFFICES ASSUME VolumeInv, [Volume!Next]_vars PROVE VolumeInv' /\ VolumeRespects
  OBVIOUS
<1>1. actual \in VolumeHosts /\ run.touched \in BOOLEAN
  BY VolumeGiven
<1>2. CASE Volume!Start
  <2>1. PICK task \in VolumeTasks, m \in {"check", "apply"} : Begin(task, m, "inspect", Volume!Nothing)
    BY <1>2, VolumeIsARun DEF Volume!Start
  <2>2. /\ run.at = "idle" /\ VolumeMore /\ Volume!Nothing \in VolumeReads
        /\ task.state = "absent" \/ task.recreate # "always" => VolumeSettles(task, FALSE)
        /\ VolumeSettles(task, TRUE) => VolumeSettles(task, FALSE)
    BY <2>1 DEF Begin, Idle, At, VolumeMore, Volume!DataKept, Volume!Idle, Volume!At, VolumeReads,
       Volume!Snapshots, Volume!Nothing, VolumeSettles
  <2>3. VolumeAlways("inspect", task, actual, Volume!Nothing, m = "check")
    BY DEF VolumeAlways
  <2>4. /\ VolumeKnows("inspect", task, actual, Volume!Nothing, FALSE, FALSE, m = "check")
        /\ VolumeWill("inspect", task, actual, Volume!Nothing, FALSE) <=> VolumeChange(task, actual)
    BY DEF VolumeKnows, VolumeWill
  <2> QED
    BY <2>1, <2>2, <2>3, <2>4, VolumeBegins DEF Volume!Places
<1>3. CASE Volume!Outside
  <2>1. PICK a \in VolumeHosts : Interferes(a)
    <3> USE DEF VolumeHosts, Volume!Volumes, Volume!NoVolume
    <3>0. local \in Drivers
      BY DockerAssumption DEF Volume!TaskAssumption
    <3>1. CASE actual.there /\ Volume!Interferes([actual EXCEPT !.used = TRUE, !.data = TRUE])
      BY <1>1, <3>1, VolumeIsARun
    <3>2. ASSUME Volume!Interferes([actual EXCEPT !.used = FALSE])
          PROVE \E a \in VolumeHosts : Interferes(a)
      <4> DEFINE a == [actual EXCEPT !.used = FALSE]
      <4>1. Interferes(a)
        BY <3>2, VolumeIsARun
      <4>2. a # actual
        BY <4>1 DEF Interferes
      <4>3. CASE actual.there
        BY <1>1, <4>1, <4>3
      <4>4. CASE ~actual.there
        <5>1. actual = Volume!NoVolume
          BY <1>1, <4>4
        <5>2. [Volume!NoVolume EXCEPT !.used = FALSE] = Volume!NoVolume
          <6> DEFINE v == Volume!NoVolume
          <6>1. DOMAIN v = {"there", "driver", "options", "labels", "used", "data"} /\ v.used = FALSE
            OBVIOUS
          <6>2. v = [k \in DOMAIN v |-> v[k]]
            OBVIOUS
          <6> HIDE DEF v
          <6>3. [v EXCEPT !.used = FALSE] = v
            BY <6>1, <6>2
          <6> QED
            BY <6>3 DEF v
        <5> QED
          BY <4>2, <5>1, <5>2
      <4> QED
        BY <4>3, <4>4
    <3>3. CASE Volume!Interferes(Volume!NoVolume)
      BY <3>0, <3>3, VolumeIsARun
    <3>4. ASSUME NEW d \in Drivers, NEW o \in SUBSET Options, NEW l \in SUBSET Labels,
                 Volume!Interferes([Volume!NoVolume EXCEPT !.there = TRUE, !.driver = d,
                                      !.options = o, !.labels = l])
          PROVE \E a \in VolumeHosts : Interferes(a)
      BY <3>0, <3>4, VolumeIsARun
    <3> QED
      BY Zenon, <1>3, <3>1, <3>2, <3>3, <3>4 DEF Volume!Outside
  <2>2. VolumeMore
    <3>1. CASE run.disturbed
      BY <3>1 DEF VolumeMore, Volume!DataKept
    <3>2. CASE ~run.disturbed /\ ~Idle
      <4>1. run'.touched = run.touched /\ (run.touched => ~actual.data)
        <5>1. run'.touched = run.touched
          BY <2>1, RunInterferes DEF VolumeInv
        <5> QED
          BY <3>2, <5>1, VolumeRuns DEF VolumeFine, VolumeKnows, Idle, At
      <4> QED
        BY <1>1, <4>1 DEF VolumeMore, Volume!DataKept
    <3>3. CASE Idle
      BY <3>3 DEF VolumeMore, Volume!DataKept, Volume!Idle, Volume!At, Idle, At
    <3> QED
      BY <3>1, <3>2, <3>3
  <2>3. run.at # "idle" => VolumeAlways(run.at, run.task, a, run.read, Checking)
    BY DEF VolumeInv, VolumeAlways
  <2> QED
    BY <2>1, <2>2, <2>3, VolumeInterferes
<1>4. CASE UNCHANGED vars
  <2>1. VolumeMore
    BY <1>4 DEF vars, VolumeMore, Volume!DataKept
  <2> QED
    BY <1>4, <2>1, VolumeStutters
<1> QED
  BY <1>2, <1>3, <1>4, VolumeSteps DEF Volume!Next

LEMMA VolumeSafe == VolumeInv => Volume!TypeOK
  BY DEF VolumeInv, RunTyped, VolumeHosts, VolumeReads, Volume!TypeOK, Volume!Memos, Memos,
     Volume!RunStates, RunStates, Volume!Forecasts, Forecasts, Volume!Replies, Replies

LEMMA VolumeHolds ==
    ASSUME NEW task, NEW h PROVE Volume!Satisfied(task, h) \in BOOLEAN
  BY DEF Volume!Satisfied
-----------------------------------------------------------------------------
(* docker_image.                                                           *)

ImageReads == Image!Snapshots
ImageHosts == Image!Hosts
ImageForetells(task) == ~task.force /\ ~task.forceTag /\ ~task.push
ImageSettles(task, checking) == checking => ~task.force /\ ~task.forceTag /\ ~task.push
ImageHides(task) == task.push
ImageMore == TRUE

(* What is still to be done on a host: the image is obtained, archived,    *)
(* tagged with the second name, and pushed.                                *)
Obtaining(task, h) == h.image = 0 \/ (task.force /\ task.source # "local" /\ h.image # h.offered)
Archiving(task, h) == task.archive /\ h.archive # h.image
Tagging(task, h) == task.repository /\ (h.target = 0 \/ task.forceTag) /\ h.target # h.image
Tagged(task, h) ==
    IF task.repository /\ h.target # 0 /\ ~task.forceTag THEN h.target ELSE h.image
Pushing(task, h) == task.push /\ h.pushed # Tagged(task, h)
AfterObtaining(task, h) == Archiving(task, h) \/ Tagging(task, h) \/ Pushing(task, h)

ImageChange(task, h) ==
    IF task.state = "absent" THEN h.image # 0 ELSE Obtaining(task, h) \/ AfterObtaining(task, h)
ImageWill(place, task, h, r, c) ==
    CASE place \in {"inspect", "obtain"} -> ImageChange(task, h)
      [] place \in {"drop", "save", "copy"} -> TRUE
      [] place = "archive" -> c \/ AfterObtaining(task, h)
      [] place \in {"tag", "retag"} -> c \/ Tagging(task, h) \/ Pushing(task, h)
      [] place = "push" -> c \/ Pushing(task, h)
      [] OTHER -> c
(* Where a run can be at all, and that of a check run.                     *)
ImageAlways(place, task, h, r, checking) ==
    /\ place \in {"drop", "obtain", "save", "copy", "retag"} => ~checking
    /\ place \in {"obtain", "archive", "save", "copy", "tag", "retag", "push"} =>
          task.state = "present"
    /\ place \in {"archive", "save", "copy"} => task.archive
    /\ place \in {"tag", "retag"} => task.repository
    /\ place = "push" => task.push
    /\ place = "drop" => task.state = "absent"
(* What has been done at a place.                                          *)
ImageDone(place, task, h) ==
    /\ place = "answer" /\ task.state = "absent" => h.image = 0
    /\ place \notin {"inspect", "obtain", "drop"} /\ task.state = "present" => ~Obtaining(task, h)
    /\ place \in {"tag", "retag", "push", "answer"} /\ task.state = "present" => ~Archiving(task, h)
    /\ place \in {"push", "answer"} /\ task.state = "present" =>
          (task.repository => IF task.forceTag THEN h.target = h.image ELSE h.target # 0)
    /\ place = "answer" /\ task.state = "present" => ~Pushing(task, h)
ImageKnows(place, task, h, r, c, touched, checking) ==
    /\ checking => ~touched
    /\ touched => c \/ place = "copy" \/ task.push
    /\ place \in {"inspect", "obtain", "drop"} => ~c /\ ~touched
    /\ (checking /\ c) \/ ImageDone(place, task, h)
    /\ place = "drop" => h.image # 0
    /\ place = "obtain" => /\ r.image = h.image
                           /\ h.image = 0 \/ (task.force /\ task.source # "local")
    /\ place = "archive" => r.image = h.image
    /\ place = "copy" => r.saved = h.image /\ h.image # 0
    /\ place = "save" => Archiving(task, h)
    /\ place = "retag" => h.target = 0 \/ task.forceTag
    /\ checking /\ h.image = 0 /\ task.state = "present" => c \/ place = "inspect"
ImageFine(place, task, h, r, c, touched, checking, expect, again) ==
    /\ ImageKnows(place, task, h, r, c, touched, checking)
    /\ ~checking /\ expect # "none" /\ ImageForetells(task) =>
          (expect = "changed" <=> ImageWill(place, task, h, r, c))
    /\ checking /\ ImageForetells(task) => (ImageWill(place, task, h, r, c) <=> ImageChange(task, h))
    /\ again /\ ImageSettles(task, checking) => ~ImageWill(place, task, h, r, c) /\ ~touched
ImageInv ==
    /\ RunTyped(ImageHosts, ImageTasks, Image!Places, ImageReads)
    /\ run.at # "idle" => ImageAlways(run.at, run.task, actual, run.read, Checking)
    /\ run.at # "idle" /\ ~run.disturbed =>
          ImageFine(run.at, run.task, actual, run.read, run.changed, run.touched, Checking,
                run.expect, run.again)
    /\ memo.forecast # "none" /\ ImageForetells(run.task) =>
          (memo.forecast = "changed" <=> ImageChange(run.task, actual))
    /\ memo.settled /\ ImageSettles(run.task, FALSE) => ~ImageChange(run.task, actual)
ImageRespects ==
    /\ RunMoves /\ Truthful(Image!Satisfied(run.task, actual), ImageHides(run.task))
    /\ Image!Predicts /\ Image!Idempotent /\ ImageMore

LEMMA ImageGiven ==
    ImageInv =>
      /\ actual \in ImageHosts /\ run.changed \in BOOLEAN /\ run.touched \in BOOLEAN
      /\ "idle" \notin Image!Places /\ run.at \in Image!Places \union {"idle"}
      /\ run.task \in ImageTasks /\ run.mode \in {"check", "apply"} /\ run.disturbed \in BOOLEAN
      /\ run.at # "idle" => run.read \in ImageReads /\ run.reply = "none"
  BY DEF ImageInv, RunTyped, RunStates, Idle, At, Image!Places

LEMMA ImageRuns ==
    ImageInv /\ run.at # "idle" /\ ~run.disturbed =>
      ImageFine(run.at, run.task, actual, run.read, run.changed, run.touched, Checking,
            run.expect, run.again)
  BY DEF ImageInv

LEMMA ImageSilent ==
    ASSUME ~AnswersOK, RunMoves, ImageMore PROVE ImageRespects
  BY DEF ImageRespects, Truthful, Image!Predicts, Image!Foretold, Image!Idempotent, Image!Unchanging,
     Image!AnswersOK, AnswersOK, Image!Answers, Answers, Image!Idle, Idle, Image!At, At

LEMMA ImageStep ==
    ASSUME ImageInv, run.at # "idle", NEW place \in Image!Places, NEW a \in ImageHosts,
           NEW r \in ImageReads, NEW c \in BOOLEAN, Step(place, a, r, c), ImageMore,
           Checking => a = actual, ImageAlways(place, run.task, a, r, Checking),
           ~run.disturbed =>
             /\ ImageKnows(place, run.task, a, r, c, run.touched \/ a # actual, Checking)
             /\ ImageForetells(run.task) =>
                  (ImageWill(place, run.task, a, r, c) <=>
                     ImageWill(run.at, run.task, actual, run.read, run.changed))
             /\ ImageSettles(run.task, Checking) /\ (a # actual \/ ImageWill(place, run.task, a, r, c)) =>
                  ImageWill(run.at, run.task, actual, run.read, run.changed)
    PROVE ImageInv' /\ ImageRespects
<1>1. /\ RunTyped(ImageHosts, ImageTasks, Image!Places, ImageReads)' /\ actual' = a
      /\ run'.at = place /\ run'.read = r /\ run'.changed = c /\ run'.task = run.task
      /\ run'.mode = run.mode /\ run'.expect = run.expect /\ run'.again = run.again
      /\ run'.disturbed = run.disturbed /\ run'.touched = (run.touched \/ a # actual)
      /\ memo'.settled => memo.settled /\ a = actual
      /\ memo'.forecast # "none" => memo'.forecast = memo.forecast /\ a = actual
      /\ RunMoves /\ place # "idle"
  <2>1. /\ RunTyped(ImageHosts, ImageTasks, Image!Places, ImageReads) /\ "idle" \notin Image!Places
        /\ ~Idle /\ place # "idle"
    BY ImageGiven DEF ImageInv, Idle, At
  <2> QED
    BY <2>1, RunStep
<1>2. ImageInv'
  <2>1. ImageAlways(run'.at, run'.task, actual', run'.read, Checking')
    BY <1>1 DEF Checking
  <2>2. ASSUME ~run'.disturbed
        PROVE ImageFine(run'.at, run'.task, actual', run'.read, run'.changed, run'.touched, Checking',
                    run'.expect, run'.again)
    <3>1. ImageFine(run.at, run.task, actual, run.read, run.changed, run.touched, Checking,
                run.expect, run.again)
      BY <1>1, <2>2, ImageRuns
    <3>2. ImageFine(place, run.task, a, r, c, run.touched \/ a # actual, Checking,
                run.expect, run.again)
      BY <1>1, <2>2, <3>1 DEF ImageFine
    <3> QED
      BY <1>1, <3>2 DEF Checking
  <2>3. /\ memo'.forecast # "none" /\ ImageForetells(run'.task) =>
             (memo'.forecast = "changed" <=> ImageChange(run'.task, actual'))
        /\ memo'.settled /\ ImageSettles(run'.task, FALSE) => ~ImageChange(run'.task, actual')
    BY <1>1 DEF ImageInv
  <2> QED
    BY <1>1, <2>1, <2>2, <2>3 DEF ImageInv
<1> QED
  BY <1>1, <1>2, RunSilent, ImageSilent

LEMMA ImageGoes ==
    ASSUME ImageInv, run.at # "idle", NEW place \in Image!Places, NEW r \in ImageReads, NEW c \in BOOLEAN,
           Step(place, actual, r, c), ImageMore, ImageAlways(place, run.task, actual, r, Checking),
           ~run.disturbed =>
             /\ ImageKnows(place, run.task, actual, r, c, run.touched, Checking)
             /\ ImageForetells(run.task) =>
                  (ImageWill(place, run.task, actual, r, c) <=>
                     ImageWill(run.at, run.task, actual, run.read, run.changed))
             /\ ImageSettles(run.task, Checking) /\ ImageWill(place, run.task, actual, r, c) =>
                  ImageWill(run.at, run.task, actual, run.read, run.changed)
    PROVE ImageInv' /\ ImageRespects
<1>1. actual \in ImageHosts /\ (run.touched \/ actual # actual) = run.touched
  BY ImageGiven
<1> QED
  BY <1>1, ImageStep

LEMMA ImageStops ==
    ASSUME ImageInv, run.at # "idle", NEW reply \in {"failed", "refused", "killed"}, Stops(reply), ImageMore
    PROVE ImageInv' /\ ImageRespects
<1>1. /\ RunTyped(ImageHosts, ImageTasks, Image!Places, ImageReads)' /\ run'.at = "idle" /\ actual' = actual
      /\ run'.reply = reply /\ run'.task = run.task /\ memo' = memo /\ RunMoves
  BY RunStops DEF ImageInv, Replies, Idle, At
<1>2. ImageInv'
  BY <1>1 DEF ImageInv
<1> QED
  BY <1>1, <1>2, RunSilent, ImageSilent

LEMMA ImageAnswers ==
    ASSUME ImageInv, run.at # "idle", NEW c \in BOOLEAN, Answer(c), ImageMore,
           ~run.disturbed =>
             /\ c <=> ImageWill(run.at, run.task, actual, run.read, run.changed)
             /\ IF c THEN ~Checking => Image!Satisfied(run.task, actual)
                     ELSE Image!Satisfied(run.task, actual) /\ (run.touched => ImageHides(run.task))
             /\ ~Checking /\ ImageSettles(run.task, FALSE) => ~ImageChange(run.task, actual)
    PROVE ImageInv' /\ ImageRespects
<1>1. /\ RunTyped(ImageHosts, ImageTasks, Image!Places, ImageReads)' /\ run'.at = "idle" /\ actual' = actual
      /\ run'.reply = "ok" /\ run'.changed = c /\ run'.task = run.task /\ run'.mode = run.mode
      /\ IF Checking THEN memo'.settled = memo.settled ELSE memo'.settled => ~run.disturbed
      /\ memo'.forecast # "none" =>
            Checking /\ ~run.disturbed /\ (memo'.forecast = "changed" <=> c)
      /\ RunMoves
  BY RunAnswers DEF ImageInv, Idle, At
<1>0. ~run.disturbed =>
        /\ ~Checking /\ run.expect # "none" /\ ImageForetells(run.task) => (run.expect = "changed" <=> c)
        /\ Checking /\ ImageForetells(run.task) => (c <=> ImageChange(run.task, actual))
        /\ run.again /\ ImageSettles(run.task, Checking) => ~c /\ ~run.touched
  BY ImageRuns DEF ImageFine
<1>2. ImageInv'
  <2>1. memo'.forecast # "none" /\ ImageForetells(run'.task) =>
             (memo'.forecast = "changed" <=> ImageChange(run'.task, actual'))
    <3>1. ~run.disturbed /\ Checking /\ ImageForetells(run.task) => (c <=> ImageChange(run.task, actual))
      BY <1>0
    <3> QED
      BY <1>1, <3>1
  <2>2. memo'.settled /\ ImageSettles(run'.task, FALSE) => ~ImageChange(run'.task, actual')
    BY <1>1 DEF ImageInv
  <2> QED
    BY <1>1, <2>1, <2>2 DEF ImageInv
<1>3. Truthful(Image!Satisfied(run.task, actual), ImageHides(run.task))
  BY <1>1 DEF Truthful
<1>5. Image!Predicts
  BY <1>0, <1>1 DEF Image!Predicts, Image!Foretold, Image!Checking, Checking, Image!t, ImageForetells
<1>6. Image!Idempotent
  BY <1>0, <1>1 DEF Image!Idempotent, Image!Unchanging, Image!Checking, Checking, Image!t, ImageSettles
<1> QED
  BY <1>1, <1>2, <1>3, <1>5, <1>6 DEF ImageRespects

LEMMA ImageBegins ==
    ASSUME ImageInv, run.at = "idle", NEW task \in ImageTasks, NEW m \in {"check", "apply"},
           NEW place \in Image!Places, NEW r \in ImageReads, Begin(task, m, place, r), ImageMore,
           ImageAlways(place, task, actual, r, m = "check"),
           ImageKnows(place, task, actual, r, FALSE, FALSE, m = "check"),
           \/ m = "check" /\ ~ImageSettles(task, TRUE) /\ ~ImageForetells(task)
           \/ ImageWill(place, task, actual, r, FALSE) <=> ImageChange(task, actual),
           ImageSettles(task, TRUE) => ImageSettles(task, FALSE)
    PROVE ImageInv' /\ ImageRespects
<1>1. /\ RunTyped(ImageHosts, ImageTasks, Image!Places, ImageReads)' /\ actual' = actual
      /\ run'.at = place /\ run'.read = r /\ run'.task = task /\ run'.mode = m
      /\ run'.disturbed = FALSE /\ run'.touched = FALSE /\ run'.changed = FALSE /\ RunMoves
      /\ run'.again \/ memo'.settled => memo.settled /\ task = run.task
      /\ run'.expect # "none" => run'.expect = memo.forecast /\ task = run.task
      /\ memo'.forecast # "none" => memo'.forecast = memo.forecast /\ task = run.task
      /\ Checking' = (m = "check") /\ run'.at # "idle"
  <2>1. /\ RunTyped(ImageHosts, ImageTasks, Image!Places, ImageReads)' /\ actual' = actual
        /\ run'.at = place /\ run'.read = r /\ run'.task = task /\ run'.mode = m
        /\ ~run'.disturbed /\ ~run'.touched /\ ~run'.changed /\ RunMoves
        /\ run'.again \/ memo'.settled => memo.settled /\ task = run.task
        /\ run'.expect # "none" => run'.expect = memo.forecast /\ task = run.task
        /\ memo'.forecast # "none" => memo'.forecast = memo.forecast /\ task = run.task
    <3>1. RunTyped(ImageHosts, ImageTasks, Image!Places, ImageReads) /\ "idle" \notin Image!Places
      BY ImageGiven DEF ImageInv
    <3> QED
      BY <3>1, RunBegin
  <2>2. /\ run'.disturbed \in BOOLEAN /\ run'.touched \in BOOLEAN /\ run'.changed \in BOOLEAN
    BY <2>1 DEF RunTyped, RunStates
  <2> QED
    BY <2>1, <2>2, ImageGiven DEF Checking
<1>2. ImageInv'
  <2>1. ImageAlways(run'.at, run'.task, actual', run'.read, Checking')
    BY <1>1
  <2>2. /\ memo'.forecast # "none" /\ ImageForetells(run'.task) =>
             (memo'.forecast = "changed" <=> ImageChange(run'.task, actual'))
        /\ memo'.settled /\ ImageSettles(run'.task, FALSE) => ~ImageChange(run'.task, actual')
    BY <1>1 DEF ImageInv
  <2>3. ImageFine(run'.at, run'.task, actual', run'.read, run'.changed, run'.touched, Checking',
              run'.expect, run'.again)
    <3>1. ~Checking' /\ run'.expect # "none" /\ ImageForetells(task) =>
             (run'.expect = "changed" <=> ImageWill(place, task, actual, r, FALSE))
      BY <1>1 DEF ImageInv
    <3>2. run'.again /\ ImageSettles(task, Checking') => ~ImageWill(place, task, actual, r, FALSE)
      BY <1>1 DEF ImageInv
    <3>3. ImageFine(place, task, actual, r, FALSE, FALSE, Checking', run'.expect, run'.again)
      BY <1>1, <3>1, <3>2 DEF ImageFine
    <3> QED
      BY <1>1, <3>3
  <2> QED
    BY <1>1, <2>1, <2>2, <2>3 DEF ImageInv
<1> QED
  BY <1>1, <1>2, RunSilent, ImageSilent DEF Idle, At

LEMMA ImageInterferes ==
    ASSUME ImageInv, NEW a \in ImageHosts, Interferes(a), ImageMore,
           run.at # "idle" => ImageAlways(run.at, run.task, a, run.read, Checking)
    PROVE ImageInv' /\ ImageRespects
<1>1. /\ RunTyped(ImageHosts, ImageTasks, Image!Places, ImageReads)' /\ actual' = a
      /\ run'.at = run.at /\ run'.read = run.read /\ run'.task = run.task
      /\ run'.mode = run.mode /\ (run.at = "idle" \/ run'.disturbed)
      /\ ~memo'.settled /\ memo'.forecast = "none" /\ RunMoves
  BY RunInterferes DEF ImageInv
<1>2. ImageInv'
  BY <1>1 DEF ImageInv, Checking
<1>3. ~AnswersOK
  BY <1>1 DEF AnswersOK, Answers, Idle, At
<1> QED
  BY <1>1, <1>2, <1>3, ImageSilent

LEMMA ImageStutters == ASSUME ImageInv, UNCHANGED vars, ImageMore PROVE ImageInv' /\ ImageRespects
<1>1. run' = run /\ actual' = actual /\ memo' = memo
  BY DEF vars
<1>2. ImageInv'
  BY <1>1 DEF ImageInv, RunTyped, Idle, At, Checking
<1>3. ~AnswersOK /\ RunMoves
  BY <1>1 DEF AnswersOK, Answers, Idle, At, RunMoves
<1> QED
  BY <1>2, <1>3, ImageSilent

LEMMA ImageInit == Image!Init => ImageInv
<1> SUFFICES ASSUME Image!Init PROVE ImageInv
  OBVIOUS
<1> DEFINE h == [image |-> 0, target |-> 0, offered |-> 1, archive |-> 0, pushed |-> 0,
                 used |-> FALSE]
<1>1. {h} \subseteq ImageHosts
  BY DEF ImageHosts, Image!Hosts, Image!Ids, Image!CutOff
<1>2. InitRuns({h}, ImageTasks)
  BY ImageIsARun DEF Image!Init
<1> HIDE DEF h
<1> QED
  BY <1>1, <1>2, RunInit DEF ImageInv

(* Where the run goes when a part is done; what the parts left out would   *)
(* have done is done.                                                      *)
ImageArrives(place, h, r, c, touched) ==
    /\ place \in Image!Places \ {"inspect", "obtain", "drop", "save", "copy", "retag"}
    /\ ImageAlways(place, run.task, h, r, Checking)
    /\ ImageKnows(place, run.task, h, r, c, touched, Checking)

LEMMA ImageAfterTag ==
    ASSUME run.task.state = "present", NEW h, NEW r, NEW c \in BOOLEAN, NEW touched \in BOOLEAN
    PROVE LET place == Image!AfterTag IN
          /\ place \in {"push", "answer"} /\ ImageAlways(place, run.task, h, r, Checking)
          /\ ImageWill(place, run.task, h, r, c) <=> c \/ Pushing(run.task, h)
          /\ /\ Checking => ~touched
             /\ touched => c \/ run.task.push
             /\ \/ Checking /\ c
                \/ /\ ~Obtaining(run.task, h) /\ ~Archiving(run.task, h)
                   /\ run.task.repository =>
                        IF run.task.forceTag THEN h.target = h.image ELSE h.target # 0
             => ImageArrives(place, h, r, c, touched)
<1>1. CASE run.task.push
  <2>1. Image!AfterTag = "push"
    BY <1>1 DEF Image!AfterTag, Image!t
  <2> QED
    BY <1>1, <2>1 DEF ImageArrives, ImageAlways, ImageKnows, ImageDone, ImageWill, Image!Places, Obtaining
<1>2. CASE ~run.task.push
  <2>1. Image!AfterTag = "answer" /\ ~Pushing(run.task, h)
    BY <1>2 DEF Image!AfterTag, Image!t, Pushing
  <2> QED
    BY <1>2, <2>1 DEF ImageArrives, ImageAlways, ImageKnows, ImageDone, ImageWill, Image!Places, Obtaining
<1> QED
  BY <1>1, <1>2

LEMMA ImageAfterArchive ==
    ASSUME run.task.state = "present", NEW h, NEW r, NEW c \in BOOLEAN, NEW touched \in BOOLEAN
    PROVE LET place == Image!AfterArchive IN
          /\ place \in {"tag", "push", "answer"} /\ ImageAlways(place, run.task, h, r, Checking)
          /\ ImageWill(place, run.task, h, r, c) <=>
                c \/ Tagging(run.task, h) \/ Pushing(run.task, h)
          /\ /\ Checking => ~touched
             /\ touched => c \/ run.task.push
             /\ (Checking /\ c) \/ (~Obtaining(run.task, h) /\ ~Archiving(run.task, h))
             => ImageArrives(place, h, r, c, touched)
<1>1. CASE run.task.repository
  <2>1. Image!AfterArchive = "tag"
    BY <1>1 DEF Image!AfterArchive, Image!t
  <2> QED
    BY <1>1, <2>1 DEF ImageArrives, ImageAlways, ImageKnows, ImageDone, ImageWill, Image!Places, Obtaining
<1>2. CASE ~run.task.repository
  <2>1. Image!AfterArchive = Image!AfterTag /\ ~Tagging(run.task, h)
    BY <1>2 DEF Image!AfterArchive, Image!t, Tagging
  <2> QED
    BY <1>2, <2>1, ImageAfterTag
<1> QED
  BY <1>1, <1>2

LEMMA ImageAfterSource ==
    ASSUME run.task.state = "present", NEW h, NEW r, NEW c \in BOOLEAN, NEW touched \in BOOLEAN
    PROVE LET place == Image!AfterSource IN
          /\ place \in {"archive", "tag", "push", "answer"}
          /\ ImageAlways(place, run.task, h, r, Checking)
          /\ ImageWill(place, run.task, h, r, c) <=> c \/ AfterObtaining(run.task, h)
          /\ /\ Checking => ~touched
             /\ touched => c \/ run.task.push
             /\ (Checking /\ c) \/ ~Obtaining(run.task, h)
             /\ r.image = h.image
             => ImageArrives(place, h, r, c, touched)
<1>1. CASE run.task.archive
  <2>1. Image!AfterSource = "archive"
    BY <1>1 DEF Image!AfterSource, Image!t
  <2> QED
    BY <1>1, <2>1 DEF ImageArrives, ImageAlways, ImageKnows, ImageDone, ImageWill, Image!Places, Obtaining,
       AfterObtaining
<1>2. CASE ~run.task.archive
  <2>1. Image!AfterSource = Image!AfterArchive /\ ~Archiving(run.task, h)
    BY <1>2 DEF Image!AfterSource, Image!t, Archiving
  <2> QED
    BY <1>2, <2>1, ImageAfterArchive DEF AfterObtaining
<1> QED
  BY <1>1, <1>2

(* The steps of a run at each place.                                       *)
LEMMA ImageSteps ==
    ASSUME ImageInv, Image!Steps \/ Image!CallError \/ Image!Killed
    PROVE ImageInv' /\ ImageRespects
<1> DEFINE Goal == ImageInv' /\ ImageRespects
           task == run.task
           r == run.read
           c0 == run.changed
<1>1. /\ actual \in ImageHosts /\ c0 \in BOOLEAN /\ run.touched \in BOOLEAN
      /\ "idle" \notin Image!Places /\ task \in Image!Requests
      /\ run.at # "idle" => r \in ImageReads
  BY ImageGiven, DockerAssumption DEF Image!TaskAssumption
<1>2. run.at # "idle" => ImageAlways(run.at, task, actual, r, Checking)
  BY DEF ImageInv
<1>3. run.at # "idle" /\ ~run.disturbed =>
         ImageKnows(run.at, task, actual, r, c0, run.touched, Checking)
  BY ImageRuns DEF ImageFine
<1>4. ImageMore /\ task.state \in {"present", "absent"}
  BY <1>1 DEF ImageMore, Image!Requests
<1>5. ASSUME NEW reply \in {"failed", "refused", "killed"}, run.at # "idle", Stops(reply)
      PROVE Goal
  BY <1>4, <1>5, ImageStops
<1>6. ASSUME run.at # "idle", Image!Refuse PROVE Goal
  BY <1>5, <1>6, ImageIsARun
(* What leads to a part that comes next.                                   *)
<1>7. ASSUME NEW place, NEW a \in ImageHosts, NEW known \in ImageReads, NEW c \in BOOLEAN,
             Step(place, a, known, c), run.at # "idle", Checking => a = actual,
             place \in Image!Places, ImageAlways(place, task, a, known, Checking),
             ~run.disturbed =>
               /\ ImageArrives(place, a, known, c, run.touched \/ a # actual)
               /\ ImageForetells(task) =>
                    (ImageWill(place, task, a, known, c) <=> ImageWill(run.at, task, actual, r, c0))
               /\ ImageSettles(task, Checking) /\ (a # actual \/ ImageWill(place, task, a, known, c)) =>
                    ImageWill(run.at, task, actual, r, c0)
      PROVE Goal
  BY <1>4, <1>7, ImageStep DEF ImageArrives
<1>8. CASE Image!Absent
  <2>1. /\ run.at = "inspect" /\ task.state = "absent"
        /\ \/ Step("answer", actual, r, c0) /\ actual.image = 0
           \/ Step("answer", actual, r, TRUE) /\ actual.image # 0 /\ Checking
           \/ Step("drop", actual, r, c0) /\ actual.image # 0 /\ ~Checking
    BY <1>8, ImageIsARun DEF Image!Absent, Image!At, Image!t, Image!Checking, Checking
  <2>2. ASSUME NEW place \in {"answer", "drop"}, NEW c \in BOOLEAN, Step(place, actual, r, c),
               place = "drop" => ~Checking,
               ~run.disturbed =>
                 /\ ImageKnows(place, task, actual, r, c, run.touched, Checking)
                 /\ ImageWill(place, task, actual, r, c) <=> ImageChange(task, actual)
        PROVE Goal
    <3>1. ImageAlways(place, task, actual, r, Checking) /\ place \in Image!Places
      BY <2>1, <2>2 DEF ImageAlways, Image!Places
    <3>2. ~run.disturbed => (ImageWill(place, task, actual, r, c) <=> ImageWill(run.at, task, actual, r, c0))
      BY <2>1, <2>2 DEF ImageWill
    <3> QED
      BY <1>1, <1>4, <2>1, <2>2, <3>1, <3>2, ImageGoes
  <2>3. ~run.disturbed => ~c0 /\ ~run.touched
    BY <1>3, <2>1 DEF ImageKnows
  <2> QED
    BY <1>1, <2>1, <2>2, <2>3 DEF ImageKnows, ImageDone, ImageWill, ImageChange
<1>9. CASE Image!Drop
  <2> DEFINE a == [actual EXCEPT !.image = 0]
  <2>1. run.at = "drop" /\ (Image!Refuse \/ Step("answer", a, r, TRUE)) /\ ~Checking /\ task.state = "absent"
    BY <1>2, <1>9, ImageIsARun DEF Image!Drop, Image!At, ImageAlways
  <2>2. a \in ImageHosts /\ a.image = 0
    BY <1>1 DEF ImageHosts, Image!Hosts, Image!Ids
  <2>3. /\ ImageAlways("answer", task, a, r, Checking) /\ ImageWill("answer", task, a, r, TRUE)
        /\ ImageWill("drop", task, actual, r, c0)
        /\ ImageKnows("answer", task, a, r, TRUE, run.touched \/ a # actual, Checking)
    BY <2>1, <2>2 DEF ImageAlways, ImageKnows, ImageDone, ImageWill
  <2> HIDE DEF a
  <2> QED
    BY <1>1, <1>4, <1>6, <2>1, <2>2, <2>3, ImageStep DEF Image!Places
<1>10. CASE Image!Present
  <2> DEFINE known == [r EXCEPT !.image = actual.image]
             place == Image!AfterSource
  <2>1. /\ run.at = "inspect" /\ task.state = "present"
        /\ \/ Image!Refuse
           \/ /\ Step(place, actual, known, c0) /\ (task.source = "local" \/ ~task.force)
              /\ actual.image # 0
           \/ /\ Step(place, actual, known, TRUE) /\ Checking /\ task.source # "local"
              /\ actual.image = 0 \/ task.force
           \/ /\ Step("obtain", actual, known, c0) /\ ~Checking /\ task.source # "local"
              /\ actual.image = 0 \/ task.force
    BY <1>10, ImageIsARun DEF Image!Present, Image!At, Image!t, Image!Checking, Checking, Image!now
  <2>2. known \in ImageReads /\ known.image = actual.image
    BY <1>1, <2>1 DEF ImageHosts, Image!Hosts, Image!Snapshots, ImageReads
  <2>3. ~run.disturbed => ~c0 /\ ~run.touched
    BY <1>3, <2>1 DEF ImageKnows
  <2>4. ImageWill("inspect", task, actual, r, c0) <=>
           Obtaining(task, actual) \/ AfterObtaining(task, actual)
    BY <2>1 DEF ImageWill, ImageChange
  <2> HIDE DEF known, place
  <2>5. CASE \/ Step(place, actual, known, c0) /\ (task.source = "local" \/ ~task.force) /\ actual.image # 0
             \/ Step(place, actual, known, TRUE) /\ Checking /\ task.source # "local"
                   /\ (actual.image = 0 \/ task.force)
    <3>1. PICK c \in BOOLEAN :
             /\ Step(place, actual, known, c)
             /\ \/ c = c0 /\ ~Obtaining(task, actual)
                \/ /\ c /\ Checking /\ (actual.image = 0 \/ task.force)
                   /\ ImageSettles(task, Checking) \/ ImageForetells(task) => Obtaining(task, actual)
      BY <1>1, <2>5 DEF Obtaining, ImageSettles, ImageForetells
    <3>2. /\ place \in Image!Places /\ ImageAlways(place, task, actual, known, Checking)
          /\ ImageWill(place, task, actual, known, c) <=> c \/ AfterObtaining(task, actual)
          /\ /\ Checking => ~run.touched
             /\ run.touched => c \/ task.push
             /\ (Checking /\ c) \/ ~Obtaining(task, actual)
             => ImageArrives(place, actual, known, c, run.touched)
      BY <1>1, <2>1, <2>2, ImageAfterSource DEF place, Image!Places
    <3>3. (run.touched \/ actual # actual) = run.touched
      BY <1>1
    <3> QED
      BY <1>1, <1>7, <2>1, <2>2, <2>3, <2>4, <3>1, <3>2, <3>3
  <2>6. CASE /\ Step("obtain", actual, known, c0) /\ ~Checking /\ task.source # "local"
             /\ actual.image = 0 \/ task.force
    <3>1. /\ ImageAlways("obtain", task, actual, known, Checking)
          /\ ImageWill("obtain", task, actual, known, c0) <=> ImageWill("inspect", task, actual, r, c0)
          /\ ~run.disturbed => ImageKnows("obtain", task, actual, known, c0, run.touched, Checking)
      BY <2>1, <2>2, <2>3, <2>6 DEF ImageAlways, ImageWill, ImageKnows, ImageDone
    <3> QED
      BY <1>1, <1>4, <2>1, <2>2, <2>6, <3>1, ImageGoes DEF Image!Places
  <2> QED
    BY <1>6, <2>1, <2>5, <2>6
<1>11. CASE Image!Obtain
  <2> DEFINE a == [actual EXCEPT !.image = actual.offered]
             known == [r EXCEPT !.image = actual.offered]
             place == Image!AfterSource
             c == r.image # actual.offered
  <2>1. run.at = "obtain" /\ Step(place, a, known, c) /\ ~Checking /\ task.state = "present"
    BY <1>2, <1>11, ImageIsARun DEF Image!Obtain, Image!At, Image!now, ImageAlways
  <2>2. /\ a \in ImageHosts /\ known \in ImageReads /\ a.image = a.offered /\ a.image # 0
        /\ known.image = a.image /\ (actual.image = actual.offered => a = actual) /\ c \in BOOLEAN
        /\ a.offered = actual.offered
    BY <1>1, <2>1 DEF ImageHosts, Image!Hosts, Image!Ids, Image!Snapshots, ImageReads
  <2>3. ~run.disturbed => /\ ~c0 /\ ~run.touched /\ r.image = actual.image
                          /\ actual.image = 0 \/ (task.force /\ task.source # "local")
    BY <1>3, <2>1 DEF ImageKnows
  <2>4. ImageWill("obtain", task, actual, r, c0) <=>
           Obtaining(task, actual) \/ AfterObtaining(task, actual)
    BY <2>1 DEF ImageWill, ImageChange
  <2>5. ~run.disturbed => /\ ~Obtaining(task, a) /\ (a # actual => c)
                          /\ c => Obtaining(task, actual)
                          /\ ~c => a = actual
    BY <2>2, <2>3 DEF Obtaining
  <2> HIDE DEF a, known, c, place
  <2>6. /\ place \in Image!Places /\ ImageAlways(place, task, a, known, Checking)
        /\ ImageWill(place, task, a, known, c) <=> c \/ AfterObtaining(task, a)
        /\ /\ Checking => ~(run.touched \/ a # actual)
           /\ (run.touched \/ a # actual) => c \/ task.push
           /\ (Checking /\ c) \/ ~Obtaining(task, a)
           => ImageArrives(place, a, known, c, run.touched \/ a # actual)
    BY <1>1, <2>1, <2>2, ImageAfterSource DEF place, Image!Places
  <2> QED
    BY <1>1, <1>7, <2>1, <2>2, <2>3, <2>4, <2>5, <2>6
<1>12. CASE Image!Archive
  <2> DEFINE place == Image!AfterArchive
  <2>1. /\ run.at = "archive" /\ task.state = "present" /\ task.archive
        /\ \/ Step(place, actual, r, c0) /\ (r.image = 0 \/ actual.archive = r.image)
           \/ Step(place, actual, r, TRUE) /\ Checking /\ actual.archive # r.image
           \/ Step("save", actual, r, c0) /\ ~Checking /\ actual.archive # r.image /\ r.image # 0
    BY <1>2, <1>12, ImageIsARun
       DEF Image!Archive, Image!At, Image!now, Image!Checking, Checking, ImageAlways
  <2>2. ~run.disturbed =>
          /\ r.image = actual.image /\ (Checking => ~run.touched)
          /\ (run.touched => c0 \/ task.push)
          /\ (Checking /\ c0) \/ ~Obtaining(task, actual)
          /\ actual.image = 0 => Checking /\ c0
    BY <1>1, <1>3, <2>1 DEF ImageKnows, ImageDone, Obtaining
  <2>3. ImageWill("archive", task, actual, r, c0) <=> c0 \/ AfterObtaining(task, actual)
    BY DEF ImageWill
  <2> HIDE DEF place
  <2>4. CASE \/ Step(place, actual, r, c0) /\ (r.image = 0 \/ actual.archive = r.image)
             \/ Step(place, actual, r, TRUE) /\ Checking /\ actual.archive # r.image
    <3>1. PICK c \in BOOLEAN :
             /\ Step(place, actual, r, c)
             /\ \/ c = c0 /\ (r.image = 0 \/ actual.archive = r.image)
                \/ c /\ Checking /\ actual.archive # r.image
      BY <1>1, <2>4
    <3>2. /\ place \in Image!Places /\ ImageAlways(place, task, actual, r, Checking)
          /\ ImageWill(place, task, actual, r, c) <=>
                c \/ Tagging(task, actual) \/ Pushing(task, actual)
          /\ /\ Checking => ~run.touched
             /\ run.touched => c \/ task.push
             /\ (Checking /\ c) \/ (~Obtaining(task, actual) /\ ~Archiving(task, actual))
             => ImageArrives(place, actual, r, c, run.touched)
      BY <1>1, <2>1, ImageAfterArchive DEF place, Image!Places
    <3>3. (run.touched \/ actual # actual) = run.touched
      BY <1>1
    <3>4. ~run.disturbed =>
            /\ ImageArrives(place, actual, r, c, run.touched)
            /\ ImageWill(place, task, actual, r, c) <=> ImageWill("archive", task, actual, r, c0)
      BY <1>1, <2>1, <2>2, <2>3, <3>1, <3>2 DEF Archiving, AfterObtaining
    <3> QED
      BY <1>1, <1>7, <2>1, <3>1, <3>2, <3>3, <3>4
  <2>5. CASE Step("save", actual, r, c0) /\ ~Checking /\ actual.archive # r.image /\ r.image # 0
    <3>1. /\ ImageAlways("save", task, actual, r, Checking)
          /\ ImageWill("save", task, actual, r, c0)
          /\ ~run.disturbed =>
               /\ ImageKnows("save", task, actual, r, c0, run.touched, Checking)
               /\ ImageWill("archive", task, actual, r, c0)
      BY <2>1, <2>2, <2>5 DEF ImageAlways, ImageWill, ImageKnows, ImageDone, Archiving, AfterObtaining
    <3> QED
      BY <1>1, <1>4, <2>1, <2>5, <3>1, ImageGoes DEF Image!Places
  <2> QED
    BY <2>1, <2>4, <2>5
<1>13. CASE Image!Save
  <2> DEFINE a == [actual EXCEPT !.archive = Image!CutOff]
             known == [r EXCEPT !.saved = actual.image]
  <2>1. /\ run.at = "save" /\ ~Checking /\ task.state = "present" /\ task.archive
        /\ Image!Refuse \/ (Step("copy", a, known, c0) /\ actual.image # 0)
    BY <1>2, <1>13, ImageIsARun DEF Image!Save, Image!At, Image!now, ImageAlways
  <2>2. /\ a \in ImageHosts /\ known \in ImageReads /\ a.image = actual.image
        /\ a.offered = actual.offered /\ known.saved = actual.image
    BY <1>1, <2>1 DEF ImageHosts, Image!Hosts, Image!Ids, Image!CutOff, Image!Snapshots, ImageReads
  <2> HIDE DEF a, known
  <2>3. CASE Step("copy", a, known, c0) /\ actual.image # 0
    <3>1. /\ ImageAlways("copy", task, a, known, Checking) /\ ImageWill("copy", task, a, known, c0)
          /\ ImageWill("save", task, actual, r, c0)
      BY <2>1 DEF ImageAlways, ImageWill
    <3>2. ~run.disturbed => ImageKnows("copy", task, a, known, c0, run.touched \/ a # actual, Checking)
      <4>1. ~run.disturbed => ~Obtaining(task, actual)
        BY <1>3, <2>1 DEF ImageKnows, ImageDone
      <4> QED
        BY <2>1, <2>2, <2>3, <4>1 DEF ImageKnows, ImageDone, Obtaining
    <3> QED
      BY <1>1, <1>4, <2>1, <2>2, <2>3, <3>1, <3>2, ImageStep DEF Image!Places
  <2> QED
    BY <1>6, <2>1, <2>3
<1>14. CASE Image!Copy
  <2> DEFINE a == [actual EXCEPT !.archive = r.saved]
             place == Image!AfterArchive
  <2>1. /\ run.at = "copy" /\ ~Checking /\ task.state = "present" /\ task.archive
        /\ Step(place, a, r, TRUE)
    BY <1>2, <1>14, ImageIsARun DEF Image!Copy, Image!At, Image!now, ImageAlways
  <2>2. /\ a \in ImageHosts /\ a.image = actual.image /\ a.offered = actual.offered
        /\ a.archive = r.saved
    BY <1>1, <2>1 DEF ImageHosts, Image!Hosts, Image!Ids, Image!CutOff, Image!Snapshots, ImageReads
  <2>3. ~run.disturbed => ~Obtaining(task, actual) /\ r.saved = actual.image
    BY <1>3, <2>1 DEF ImageKnows, ImageDone
  <2>4. ~run.disturbed => ~Obtaining(task, a) /\ ~Archiving(task, a)
    BY <2>2, <2>3 DEF Obtaining, Archiving
  <2> HIDE DEF a, place
  <2>5. /\ place \in Image!Places /\ ImageAlways(place, task, a, r, Checking)
        /\ ImageWill(place, task, a, r, TRUE)
        /\ /\ Checking => ~(run.touched \/ a # actual)
           /\ (run.touched \/ a # actual) => TRUE \/ task.push
           /\ (Checking /\ TRUE) \/ (~Obtaining(task, a) /\ ~Archiving(task, a))
           => ImageArrives(place, a, r, TRUE, run.touched \/ a # actual)
    BY <1>1, <2>1, ImageAfterArchive DEF place, Image!Places
  <2>6. ImageWill("copy", task, actual, r, c0)
    BY DEF ImageWill
  <2> QED
    BY <1>1, <1>7, <2>1, <2>2, <2>4, <2>5, <2>6
<1>15. CASE Image!Tag
  <2> DEFINE place == Image!AfterTag
  <2>1. /\ run.at = "tag" /\ task.state = "present" /\ task.repository
        /\ \/ Step(place, actual, r, c0) /\ actual.target # 0 /\ ~task.forceTag
           \/ Step(place, actual, r, TRUE) /\ Checking /\ (actual.target = 0 \/ task.forceTag)
           \/ Step("retag", actual, r, c0) /\ ~Checking /\ (actual.target = 0 \/ task.forceTag)
    BY <1>2, <1>15, ImageIsARun
       DEF Image!Tag, Image!At, Image!t, Image!Checking, Checking, ImageAlways
  <2>2. ~run.disturbed =>
          /\ (Checking => ~run.touched) /\ (run.touched => c0 \/ task.push)
          /\ (Checking /\ c0) \/ (~Obtaining(task, actual) /\ ~Archiving(task, actual))
    BY <1>1, <1>3, <2>1 DEF ImageKnows, ImageDone
  <2>3. /\ ImageWill("tag", task, actual, r, c0) <=>
              c0 \/ Tagging(task, actual) \/ Pushing(task, actual)
        /\ ImageWill("retag", task, actual, r, c0) <=>
              c0 \/ Tagging(task, actual) \/ Pushing(task, actual)
    BY DEF ImageWill
  <2> HIDE DEF place
  <2>4. CASE \/ Step(place, actual, r, c0) /\ actual.target # 0 /\ ~task.forceTag
             \/ Step(place, actual, r, TRUE) /\ Checking /\ (actual.target = 0 \/ task.forceTag)
    <3>1. PICK c \in BOOLEAN :
             /\ Step(place, actual, r, c)
             /\ \/ c = c0 /\ actual.target # 0 /\ ~task.forceTag
                \/ c /\ Checking /\ (actual.target = 0 \/ task.forceTag)
      BY <1>1, <2>4
    <3>2. /\ place \in Image!Places /\ ImageAlways(place, task, actual, r, Checking)
          /\ ImageWill(place, task, actual, r, c) <=> c \/ Pushing(task, actual)
          /\ /\ Checking => ~run.touched
             /\ run.touched => c \/ task.push
             /\ \/ Checking /\ c
                \/ /\ ~Obtaining(task, actual) /\ ~Archiving(task, actual)
                   /\ task.repository =>
                        IF task.forceTag THEN actual.target = actual.image ELSE actual.target # 0
             => ImageArrives(place, actual, r, c, run.touched)
      BY <1>1, <2>1, ImageAfterTag DEF place, Image!Places
    <3>3. (run.touched \/ actual # actual) = run.touched
      BY <1>1
    <3>4. ~run.disturbed => ImageArrives(place, actual, r, c, run.touched)
      BY <1>1, <2>1, <2>2, <3>1, <3>2
    <3>5. ~run.disturbed /\ (ImageForetells(task) \/ ImageSettles(task, Checking)) =>
            (ImageWill(place, task, actual, r, c) <=> ImageWill("tag", task, actual, r, c0))
      <4>1. CASE c = c0 /\ actual.target # 0 /\ ~task.forceTag
        BY <2>1, <2>3, <3>2, <4>1 DEF Tagging
      <4>2. CASE c /\ Checking /\ (actual.target = 0 \/ task.forceTag)
        <5>1. ~run.disturbed => c0 \/ actual.image # 0
          BY <2>2 DEF Obtaining
        <5> QED
          BY <2>1, <2>3, <3>2, <4>2, <5>1 DEF Tagging, ImageForetells, ImageSettles
      <4> QED
        BY <3>1, <4>1, <4>2
    <3> QED
      BY <1>1, <1>7, <2>1, <3>1, <3>2, <3>3, <3>4, <3>5
  <2>5. CASE Step("retag", actual, r, c0) /\ ~Checking /\ (actual.target = 0 \/ task.forceTag)
    <3>1. /\ ImageAlways("retag", task, actual, r, Checking)
          /\ ~run.disturbed => ImageKnows("retag", task, actual, r, c0, run.touched, Checking)
      BY <2>1, <2>2, <2>5 DEF ImageAlways, ImageKnows, ImageDone
    <3> QED
      BY <1>1, <1>4, <2>1, <2>3, <2>5, <3>1, ImageGoes DEF Image!Places
  <2> QED
    BY <2>1, <2>4, <2>5
<1>16. CASE Image!Retag
  <2> DEFINE a == [actual EXCEPT !.target = actual.image]
             place == Image!AfterTag
             c == c0 \/ actual.target # actual.image
  <2>1. /\ run.at = "retag" /\ task.state = "present" /\ task.repository /\ ~Checking
        /\ Image!Refuse \/ (Step(place, a, r, c) /\ actual.image # 0)
    BY <1>2, <1>16, ImageIsARun DEF Image!Retag, Image!At, Image!now, ImageAlways
  <2>2. /\ a \in ImageHosts /\ a.image = actual.image /\ a.offered = actual.offered
        /\ a.archive = actual.archive /\ a.target = actual.image /\ a.pushed = actual.pushed
        /\ actual.target = actual.image => a = actual
        /\ c \in BOOLEAN
    BY <1>1, <2>1 DEF ImageHosts, Image!Hosts, Image!Ids
  <2>3. ~run.disturbed =>
          /\ run.touched => c0 \/ task.push
          /\ ~Obtaining(task, actual) /\ ~Archiving(task, actual)
          /\ actual.target = 0 \/ task.forceTag
    BY <1>1, <1>3, <2>1 DEF ImageKnows, ImageDone
  <2>4. ImageWill("retag", task, actual, r, c0) <=>
           c0 \/ Tagging(task, actual) \/ Pushing(task, actual)
    BY DEF ImageWill
  <2>5. /\ Obtaining(task, a) <=> Obtaining(task, actual)
        /\ Archiving(task, a) <=> Archiving(task, actual)
        /\ ~run.disturbed =>
             /\ Tagging(task, actual) <=> actual.target # actual.image
             /\ Pushing(task, a) <=> Pushing(task, actual)
    BY <2>1, <2>2, <2>3 DEF Obtaining, Archiving, Tagging, Pushing, Tagged
  <2>6. c <=> (c0 \/ actual.target # actual.image)
    OBVIOUS
  <2> HIDE DEF a, place, c
  <2>7. CASE Step(place, a, r, c) /\ actual.image # 0
    <3>1. /\ place \in Image!Places /\ ImageAlways(place, task, a, r, Checking)
          /\ ImageWill(place, task, a, r, c) <=> c \/ Pushing(task, a)
          /\ /\ Checking => ~(run.touched \/ a # actual)
             /\ (run.touched \/ a # actual) => c \/ task.push
             /\ \/ Checking /\ c
                \/ /\ ~Obtaining(task, a) /\ ~Archiving(task, a)
                   /\ task.repository => IF task.forceTag THEN a.target = a.image ELSE a.target # 0
             => ImageArrives(place, a, r, c, run.touched \/ a # actual)
      BY <1>1, <2>1, <2>2, ImageAfterTag DEF place, Image!Places
    <3>2. ~run.disturbed => ImageArrives(place, a, r, c, run.touched \/ a # actual)
      BY <2>1, <2>2, <2>3, <2>5, <2>6, <2>7, <3>1
    <3>3. ~run.disturbed => /\ ImageWill(place, task, a, r, c) <=> ImageWill("retag", task, actual, r, c0)
                            /\ a # actual => ImageWill("retag", task, actual, r, c0)
      BY <2>2, <2>4, <2>5, <2>6, <3>1
    <3> QED
      BY <1>1, <1>7, <2>1, <2>2, <2>7, <3>1, <3>2, <3>3
  <2> QED
    BY <1>6, <2>1, <2>7
<1>17. CASE Image!Push
  <2> DEFINE a == [actual EXCEPT !.pushed = Image!Pushed]
             c == actual.pushed # Image!Pushed
  <2>1. /\ run.at = "push" /\ task.push /\ task.state = "present"
        /\ \/ Step("answer", actual, r, TRUE) /\ Checking
           \/ Image!Refuse
           \/ Step("answer", a, r, c) /\ ~Checking
    BY <1>2, <1>17, ImageIsARun
       DEF Image!Push, Image!At, Image!now, Image!Checking, Checking, ImageAlways
  <2>2. /\ a \in ImageHosts /\ a.image = actual.image /\ a.offered = actual.offered
        /\ a.archive = actual.archive /\ a.target = actual.target /\ a.pushed = Image!Pushed
        /\ actual.pushed = Image!Pushed => a = actual
        /\ c \in BOOLEAN
    BY <1>1, <2>1 DEF ImageHosts, Image!Hosts, Image!Ids, Image!Pushed
  <2>3. ~run.disturbed =>
          /\ Checking => ~run.touched
          /\ \/ Checking /\ c0
             \/ /\ ~Obtaining(task, actual) /\ ~Archiving(task, actual)
                /\ task.repository =>
                     IF task.forceTag THEN actual.target = actual.image ELSE actual.target # 0
    BY <1>1, <1>3, <2>1 DEF ImageKnows, ImageDone
  <2>4. /\ ImageWill("push", task, actual, r, c0) <=> c0 \/ Pushing(task, actual)
        /\ ~ImageForetells(task) /\ (ImageSettles(task, Checking) => ~Checking)
    BY <2>1 DEF ImageWill, ImageForetells, ImageSettles
  <2>5. CASE Step("answer", actual, r, TRUE) /\ Checking
    <3>1. /\ ImageAlways("answer", task, actual, r, Checking)
          /\ ~run.disturbed => ImageKnows("answer", task, actual, r, TRUE, run.touched, Checking)
      BY <2>1, <2>3, <2>5 DEF ImageAlways, ImageKnows
    <3> QED
      BY <1>1, <1>4, <2>1, <2>4, <2>5, <3>1, ImageGoes DEF Image!Places
  <2>6. CASE Step("answer", a, r, c) /\ ~Checking
    <3>1. ~run.disturbed =>
            /\ ~Obtaining(task, a) /\ ~Archiving(task, a) /\ ~Pushing(task, a)
            /\ task.repository => IF task.forceTag THEN a.target = a.image ELSE a.target # 0
            /\ c <=> Pushing(task, actual)
      BY <2>1, <2>2, <2>3, <2>6
         DEF Obtaining, Archiving, Pushing, Tagged, Image!Pushed, Image!t
    <3>2. /\ ImageAlways("answer", task, a, r, Checking) /\ (ImageWill("answer", task, a, r, c) <=> c)
          /\ a # actual => c
      BY <2>2 DEF ImageAlways, ImageWill
    <3> HIDE DEF a, c
    <3>3. ~run.disturbed =>
             ImageKnows("answer", task, a, r, c, run.touched \/ a # actual, Checking)
      BY <2>1, <2>6, <3>1 DEF ImageKnows, ImageDone
    <3> QED
      BY <1>1, <1>4, <2>1, <2>2, <2>4, <2>6, <3>1, <3>2, <3>3, ImageStep DEF Image!Places
  <2> QED
    BY <1>6, <2>1, <2>5, <2>6
<1>18. CASE Image!Finish
  <2>1. run.at = "answer" /\ Answer(c0) /\ (ImageWill("answer", task, actual, r, c0) <=> c0)
    BY <1>18, ImageIsARun DEF Image!Finish, Image!At, ImageWill
  <2>2. ImageDone("answer", task, actual) =>
          Image!Satisfied(task, actual) /\ ~ImageChange(task, actual)
    <3>1. CASE task.state = "absent"
      BY <3>1 DEF ImageDone, Image!Satisfied, ImageChange
    <3>2. CASE task.state = "present"
      BY <3>2 DEF ImageDone, Image!Satisfied, ImageChange, AfterObtaining, Obtaining, Archiving,
         Tagging, Pushing, Tagged
    <3> QED
      BY <1>4, <3>1, <3>2
  <2>3. ~run.disturbed => /\ (Checking /\ c0) \/ ImageDone("answer", task, actual)
                          /\ run.touched => c0 \/ task.push
    BY <1>3, <2>1 DEF ImageKnows
  <2> QED
    BY <1>1, <1>4, <2>1, <2>2, <2>3, ImageAnswers DEF ImageHides
<1>19. CASE Image!CallError \/ Image!Killed
  <2>1. PICK reply \in {"failed", "refused", "killed"} : run.at # "idle" /\ Stops(reply)
    BY <1>19, ImageIsARun DEF Image!CallError, Image!CallFails, Idle, At
  <2> QED
    BY <1>5, <2>1
<1> QED
  BY <1>8, <1>9, <1>10, <1>11, <1>12, <1>13, <1>14, <1>15, <1>16, <1>17, <1>18, <1>19 DEF Image!Steps

LEMMA ImageNext == ImageInv /\ [Image!Next]_vars => ImageInv' /\ ImageRespects
<1> SUFFICES ASSUME ImageInv, [Image!Next]_vars PROVE ImageInv' /\ ImageRespects
  OBVIOUS
<1>1. actual \in ImageHosts /\ run.touched \in BOOLEAN /\ ImageMore
  BY ImageGiven DEF ImageMore
<1>2. CASE Image!Start
  <2>1. PICK task \in ImageTasks, m \in {"check", "apply"} : Begin(task, m, "inspect", Image!Nothing)
    BY <1>2, ImageIsARun DEF Image!Start
  <2>2. /\ run.at = "idle" /\ Image!Nothing \in ImageReads
        /\ ImageSettles(task, TRUE) => ImageSettles(task, FALSE)
    BY <2>1 DEF Begin, Idle, At, ImageReads, Image!Snapshots, Image!Nothing, Image!Ids, ImageSettles
  <2>3. /\ ImageAlways("inspect", task, actual, Image!Nothing, m = "check")
        /\ ImageKnows("inspect", task, actual, Image!Nothing, FALSE, FALSE, m = "check")
        /\ ImageWill("inspect", task, actual, Image!Nothing, FALSE) <=> ImageChange(task, actual)
    BY DEF ImageKnows, ImageWill, ImageAlways, ImageDone
  <2> QED
    BY <1>1, <2>1, <2>2, <2>3, ImageBegins DEF Image!Places
<1>3. CASE Image!Outside
  <2>1. PICK a \in ImageHosts : Interferes(a)
    <3> USE <1>1, ImageIsARun DEF ImageHosts, Image!Hosts, Image!Ids, Image!CutOff
    <3>1. ASSUME NEW i \in {0, actual.offered}, Image!Interferes([actual EXCEPT !.image = i])
          PROVE \E a \in ImageHosts : Interferes(a)
      BY <3>1
    <3>2. ASSUME NEW i \in {0, actual.image}, Image!Interferes([actual EXCEPT !.target = i])
          PROVE \E a \in ImageHosts : Interferes(a)
      BY <3>2
    <3>3. CASE Image!Interferes([actual EXCEPT !.offered = 3 - @])
      <4>1. 3 - actual.offered \in (0 .. 2) \ {0}
        OBVIOUS
      <4> QED
        BY <3>3, <4>1
    <3>4. CASE Image!Interferes([actual EXCEPT !.archive = 0])
      BY <3>4
    <3>5. CASE Image!Interferes([actual EXCEPT !.pushed = 0])
      BY <3>5
    <3>6. CASE Image!Interferes([actual EXCEPT !.used = ~@])
      BY <3>6
    <3> QED
      BY <1>3, <3>1, <3>2, <3>3, <3>4, <3>5, <3>6 DEF Image!Outside
  <2>2. run.at # "idle" => ImageAlways(run.at, run.task, a, run.read, Checking)
    BY DEF ImageInv, ImageAlways
  <2> QED
    BY <1>1, <2>1, <2>2, ImageInterferes
<1>4. CASE UNCHANGED vars
  BY <1>1, <1>4, ImageStutters
<1> QED
  BY <1>2, <1>3, <1>4, ImageSteps DEF Image!Next

LEMMA ImageSafe == ImageInv => Image!TypeOK
<1> SUFFICES ASSUME ImageInv PROVE Image!TypeOK
  OBVIOUS
<1>1. run.at \in {"drop", "obtain", "save", "copy", "retag"} => ~Checking
  BY DEF ImageInv, ImageAlways
<1> QED
  BY <1>1 DEF ImageInv, RunTyped, ImageHosts, ImageReads, Image!TypeOK, Image!Memos, Memos,
     Image!RunStates, RunStates, Image!Forecasts, Forecasts, Image!Replies, Replies,
     Image!Checking, Checking

LEMMA ImageHolds == ASSUME NEW task, NEW h PROVE Image!Satisfied(task, h) \in BOOLEAN
  BY DEF Image!Satisfied
-----------------------------------------------------------------------------
(* docker_network.                                                         *)
NetworkHosts == Network!Networks
NetworkReads == Network!ReadStates
NetworkForetells(task) == TRUE
NetworkSettles(task, checking) == ~(task.force /\ task.state = "present")
NetworkHides(task) == FALSE
NetworkMore == Network!Recovers /\ Network!NothingForgotten

(* The containers a run wants on a network, and those it was asked for.    *)
NetworkWant(task, h) ==
    IF task.connected = {} /\ Network!Found(h) THEN h.attached ELSE task.connected
NetworkAsked(task, r) == IF task.connected = {} THEN r.before ELSE task.connected
NetworkChange(task, h) ==
    IF task.state = "absent" THEN Network!Found(h)
    ELSE \/ ~Network!Found(h) \/ task.force \/ Network!HasDifferentConfig(task, h.config)
         \/ (NetworkWant(task, h) \ h.attached) \cap h.containers # {}
         \/ ~task.appends /\ h.attached \ NetworkWant(task, h) # {}

NetworkMissing(r) == r.want \ (IF r.exists THEN r.attached ELSE {})
NetworkWill(place, task, h, r, c) ==
    CASE place = "inspect" -> NetworkChange(task, h)
      [] place \in {"detach", "detaching", "remove", "gone", "create", "reread", "attached"} -> TRUE
      [] place = "connect" ->
           \/ c \/ NetworkMissing(r) \cap h.containers # {}
           \/ ~task.appends /\ r.exists /\ r.attached \ r.want # {}
      [] place = "disconnect" -> c \/ r.todo # {}
      [] OTHER -> c
NetworkAlways(place, task, h, r, checking) ==
    /\ place \in {"detaching", "remove", "gone", "reread", "attached"} => ~checking
    /\ place \in {"create", "reread", "connect", "attached", "disconnect"} => task.state = "present"

(* The network is as the task wants it; a run goes on with the containers  *)
(* it was asked for, but for those that are not there; and those that it   *)
(* detaches in the end are not among them.                                 *)
NetworkFits(task, h) == Network!Found(h) /\ ~Network!HasDifferentConfig(task, h.config)
NetworkLinks(task, h, r) ==
    /\ r.want \subseteq NetworkAsked(task, r)
    /\ NetworkAsked(task, r) \cap h.containers \subseteq r.want
    /\ task.connected = {} => h.attached \subseteq r.want /\ r.before \subseteq h.containers
NetworkLeaves(task, h, r) ==
    /\ task.connected \cap h.containers \subseteq h.attached
    /\ r.todo \cap task.connected = {}
    /\ task.connected = {} => r.todo = {} /\ r.before \subseteq h.attached
    /\ task.connected # {} /\ ~task.appends => h.attached \ r.todo \subseteq task.connected
NetworkKnows(place, task, h, r, c, touched, checking) ==
    /\ checking => ~touched
    /\ touched => c
    /\ place = "inspect" => ~c
    /\ place # "inspect" /\ checking => r.before = h.attached
    /\ place \in {"detach", "detaching", "remove", "gone", "create"} =>
          r.want = NetworkAsked(task, r) /\ r.before \subseteq h.containers
    /\ place = "detaching" => r.todo = h.attached
    /\ place = "remove" => h.attached = {}
    /\ place = "gone" => h.there # "yes" /\ c
    /\ place = "create" /\ ~checking => ~Network!Found(h)
    /\ place \in {"reread", "attached"} => c /\ NetworkFits(task, h) /\ NetworkLinks(task, h, r)
    /\ place = "connect" /\ (~checking \/ ~c) =>
          /\ r.exists /\ r.attached = h.attached
          /\ NetworkFits(task, h) /\ NetworkLinks(task, h, r)
    /\ place = "disconnect" /\ (~checking \/ ~c) =>
          NetworkFits(task, h) /\ NetworkLeaves(task, h, r)
    /\ place = "answer" =>
          /\ ~checking \/ ~c => Network!Satisfied(task, h)
          /\ ~checking /\ NetworkSettles(task, FALSE) => ~NetworkChange(task, h)
          /\ task.state = "present" /\ task.connected = {} => r.before \subseteq h.attached
NetworkFine(place, task, h, r, c, touched, checking, expect, again) ==
    /\ NetworkKnows(place, task, h, r, c, touched, checking)
    /\ ~checking /\ expect # "none" /\ NetworkForetells(task) =>
          (expect = "changed" <=> NetworkWill(place, task, h, r, c))
    /\ checking /\ NetworkForetells(task) => (NetworkWill(place, task, h, r, c) <=> NetworkChange(task, h))
    /\ again /\ NetworkSettles(task, checking) => ~NetworkWill(place, task, h, r, c) /\ ~touched
NetworkInv ==
    /\ RunTyped(NetworkHosts, NetworkTasks, Network!Places, NetworkReads)
    /\ run.at # "idle" => NetworkAlways(run.at, run.task, actual, run.read, Checking)
    /\ run.at # "idle" /\ ~run.disturbed =>
          NetworkFine(run.at, run.task, actual, run.read, run.changed, run.touched, Checking,
                run.expect, run.again)
    /\ memo.forecast # "none" /\ NetworkForetells(run.task) =>
          (memo.forecast = "changed" <=> NetworkChange(run.task, actual))
    /\ memo.settled /\ NetworkSettles(run.task, FALSE) => ~NetworkChange(run.task, actual)
NetworkRespects ==
    /\ RunMoves /\ Truthful(Network!Satisfied(run.task, actual), NetworkHides(run.task))
    /\ Network!Predicts /\ Network!Idempotent /\ NetworkMore

LEMMA NetworkGiven ==
    NetworkInv =>
      /\ actual \in NetworkHosts /\ run.changed \in BOOLEAN /\ run.touched \in BOOLEAN
      /\ "idle" \notin Network!Places /\ run.at \in Network!Places \union {"idle"}
      /\ run.task \in NetworkTasks /\ run.mode \in {"check", "apply"} /\ run.disturbed \in BOOLEAN
      /\ run.at # "idle" => run.read \in NetworkReads /\ run.reply = "none"
  BY DEF NetworkInv, RunTyped, RunStates, Idle, At, Network!Places

LEMMA NetworkRuns ==
    NetworkInv /\ run.at # "idle" /\ ~run.disturbed =>
      NetworkFine(run.at, run.task, actual, run.read, run.changed, run.touched, Checking,
            run.expect, run.again)
  BY DEF NetworkInv

LEMMA NetworkSilent ==
    ASSUME ~AnswersOK, RunMoves, NetworkMore PROVE NetworkRespects
  BY DEF NetworkRespects, Truthful, Network!Predicts, Network!Foretold, Network!Idempotent, Network!Unchanging,
     Network!AnswersOK, AnswersOK, Network!Answers, Answers, Network!Idle, Idle, Network!At, At

LEMMA NetworkStep ==
    ASSUME NetworkInv, run.at # "idle", NEW place \in Network!Places, NEW a \in NetworkHosts,
           NEW r \in NetworkReads, NEW c \in BOOLEAN, Step(place, a, r, c), NetworkMore,
           Checking => a = actual, NetworkAlways(place, run.task, a, r, Checking),
           ~run.disturbed =>
             /\ NetworkKnows(place, run.task, a, r, c, run.touched \/ a # actual, Checking)
             /\ NetworkForetells(run.task) =>
                  (NetworkWill(place, run.task, a, r, c) <=>
                     NetworkWill(run.at, run.task, actual, run.read, run.changed))
             /\ NetworkSettles(run.task, Checking) /\ (a # actual \/ NetworkWill(place, run.task, a, r, c)) =>
                  NetworkWill(run.at, run.task, actual, run.read, run.changed)
    PROVE NetworkInv' /\ NetworkRespects
<1>1. /\ RunTyped(NetworkHosts, NetworkTasks, Network!Places, NetworkReads)' /\ actual' = a
      /\ run'.at = place /\ run'.read = r /\ run'.changed = c /\ run'.task = run.task
      /\ run'.mode = run.mode /\ run'.expect = run.expect /\ run'.again = run.again
      /\ run'.disturbed = run.disturbed /\ run'.touched = (run.touched \/ a # actual)
      /\ memo'.settled => memo.settled /\ a = actual
      /\ memo'.forecast # "none" => memo'.forecast = memo.forecast /\ a = actual
      /\ RunMoves /\ place # "idle"
  <2>1. /\ RunTyped(NetworkHosts, NetworkTasks, Network!Places, NetworkReads) /\ "idle" \notin Network!Places
        /\ ~Idle /\ place # "idle"
    BY NetworkGiven DEF NetworkInv, Idle, At
  <2> QED
    BY <2>1, RunStep
<1>2. NetworkInv'
  <2>1. NetworkAlways(run'.at, run'.task, actual', run'.read, Checking')
    BY <1>1 DEF Checking
  <2>2. ASSUME ~run'.disturbed
        PROVE NetworkFine(run'.at, run'.task, actual', run'.read, run'.changed, run'.touched, Checking',
                    run'.expect, run'.again)
    <3>1. NetworkFine(run.at, run.task, actual, run.read, run.changed, run.touched, Checking,
                run.expect, run.again)
      BY <1>1, <2>2, NetworkRuns
    <3>2. NetworkFine(place, run.task, a, r, c, run.touched \/ a # actual, Checking,
                run.expect, run.again)
      BY <1>1, <2>2, <3>1 DEF NetworkFine
    <3> QED
      BY <1>1, <3>2 DEF Checking
  <2>3. /\ memo'.forecast # "none" /\ NetworkForetells(run'.task) =>
             (memo'.forecast = "changed" <=> NetworkChange(run'.task, actual'))
        /\ memo'.settled /\ NetworkSettles(run'.task, FALSE) => ~NetworkChange(run'.task, actual')
    BY <1>1 DEF NetworkInv
  <2> QED
    BY <1>1, <2>1, <2>2, <2>3 DEF NetworkInv
<1> QED
  BY <1>1, <1>2, RunSilent, NetworkSilent

LEMMA NetworkGoes ==
    ASSUME NetworkInv, run.at # "idle", NEW place \in Network!Places, NEW r \in NetworkReads, NEW c \in BOOLEAN,
           Step(place, actual, r, c), NetworkMore, NetworkAlways(place, run.task, actual, r, Checking),
           ~run.disturbed =>
             /\ NetworkKnows(place, run.task, actual, r, c, run.touched, Checking)
             /\ NetworkForetells(run.task) =>
                  (NetworkWill(place, run.task, actual, r, c) <=>
                     NetworkWill(run.at, run.task, actual, run.read, run.changed))
             /\ NetworkSettles(run.task, Checking) /\ NetworkWill(place, run.task, actual, r, c) =>
                  NetworkWill(run.at, run.task, actual, run.read, run.changed)
    PROVE NetworkInv' /\ NetworkRespects
<1>1. actual \in NetworkHosts /\ (run.touched \/ actual # actual) = run.touched
  BY NetworkGiven
<1> QED
  BY <1>1, NetworkStep

LEMMA NetworkStops ==
    ASSUME NetworkInv, run.at # "idle", NEW reply \in {"failed", "refused", "killed"}, Stops(reply), NetworkMore
    PROVE NetworkInv' /\ NetworkRespects
<1>1. /\ RunTyped(NetworkHosts, NetworkTasks, Network!Places, NetworkReads)' /\ run'.at = "idle" /\ actual' = actual
      /\ run'.reply = reply /\ run'.task = run.task /\ memo' = memo /\ RunMoves
  BY RunStops DEF NetworkInv, Replies, Idle, At
<1>2. NetworkInv'
  BY <1>1 DEF NetworkInv
<1> QED
  BY <1>1, <1>2, RunSilent, NetworkSilent

LEMMA NetworkAnswers ==
    ASSUME NetworkInv, run.at # "idle", NEW c \in BOOLEAN, Answer(c), NetworkMore,
           ~run.disturbed =>
             /\ c <=> NetworkWill(run.at, run.task, actual, run.read, run.changed)
             /\ IF c THEN ~Checking => Network!Satisfied(run.task, actual)
                     ELSE Network!Satisfied(run.task, actual) /\ (run.touched => NetworkHides(run.task))
             /\ ~Checking /\ NetworkSettles(run.task, FALSE) => ~NetworkChange(run.task, actual)
    PROVE NetworkInv' /\ NetworkRespects
<1>1. /\ RunTyped(NetworkHosts, NetworkTasks, Network!Places, NetworkReads)' /\ run'.at = "idle" /\ actual' = actual
      /\ run'.reply = "ok" /\ run'.changed = c /\ run'.task = run.task /\ run'.mode = run.mode
      /\ IF Checking THEN memo'.settled = memo.settled ELSE memo'.settled => ~run.disturbed
      /\ memo'.forecast # "none" =>
            Checking /\ ~run.disturbed /\ (memo'.forecast = "changed" <=> c)
      /\ RunMoves
  BY RunAnswers DEF NetworkInv, Idle, At
<1>0. ~run.disturbed =>
        /\ ~Checking /\ run.expect # "none" /\ NetworkForetells(run.task) => (run.expect = "changed" <=> c)
        /\ Checking /\ NetworkForetells(run.task) => (c <=> NetworkChange(run.task, actual))
        /\ run.again /\ NetworkSettles(run.task, Checking) => ~c /\ ~run.touched
  BY NetworkRuns DEF NetworkFine
<1>2. NetworkInv'
  <2>1. memo'.forecast # "none" /\ NetworkForetells(run'.task) =>
             (memo'.forecast = "changed" <=> NetworkChange(run'.task, actual'))
    <3>1. ~run.disturbed /\ Checking /\ NetworkForetells(run.task) => (c <=> NetworkChange(run.task, actual))
      BY <1>0
    <3> QED
      BY <1>1, <3>1
  <2>2. memo'.settled /\ NetworkSettles(run'.task, FALSE) => ~NetworkChange(run'.task, actual')
    BY <1>1 DEF NetworkInv
  <2> QED
    BY <1>1, <2>1, <2>2 DEF NetworkInv
<1>3. Truthful(Network!Satisfied(run.task, actual), NetworkHides(run.task))
  BY <1>1 DEF Truthful
<1>5. Network!Predicts
  BY <1>0, <1>1 DEF Network!Predicts, Network!Foretold, Network!Checking, Checking, Network!t, NetworkForetells
<1>6. Network!Idempotent
  BY <1>0, <1>1 DEF Network!Idempotent, Network!Unchanging, Network!Checking, Checking, Network!t, NetworkSettles
<1> QED
  BY <1>1, <1>2, <1>3, <1>5, <1>6 DEF NetworkRespects

LEMMA NetworkBegins ==
    ASSUME NetworkInv, run.at = "idle", NEW task \in NetworkTasks, NEW m \in {"check", "apply"},
           NEW place \in Network!Places, NEW r \in NetworkReads, Begin(task, m, place, r), NetworkMore,
           NetworkAlways(place, task, actual, r, m = "check"),
           NetworkKnows(place, task, actual, r, FALSE, FALSE, m = "check"),
           \/ m = "check" /\ ~NetworkSettles(task, TRUE) /\ ~NetworkForetells(task)
           \/ NetworkWill(place, task, actual, r, FALSE) <=> NetworkChange(task, actual),
           NetworkSettles(task, TRUE) => NetworkSettles(task, FALSE)
    PROVE NetworkInv' /\ NetworkRespects
<1>1. /\ RunTyped(NetworkHosts, NetworkTasks, Network!Places, NetworkReads)' /\ actual' = actual
      /\ run'.at = place /\ run'.read = r /\ run'.task = task /\ run'.mode = m
      /\ run'.disturbed = FALSE /\ run'.touched = FALSE /\ run'.changed = FALSE /\ RunMoves
      /\ run'.again \/ memo'.settled => memo.settled /\ task = run.task
      /\ run'.expect # "none" => run'.expect = memo.forecast /\ task = run.task
      /\ memo'.forecast # "none" => memo'.forecast = memo.forecast /\ task = run.task
      /\ Checking' = (m = "check") /\ run'.at # "idle"
  <2>1. /\ RunTyped(NetworkHosts, NetworkTasks, Network!Places, NetworkReads)' /\ actual' = actual
        /\ run'.at = place /\ run'.read = r /\ run'.task = task /\ run'.mode = m
        /\ ~run'.disturbed /\ ~run'.touched /\ ~run'.changed /\ RunMoves
        /\ run'.again \/ memo'.settled => memo.settled /\ task = run.task
        /\ run'.expect # "none" => run'.expect = memo.forecast /\ task = run.task
        /\ memo'.forecast # "none" => memo'.forecast = memo.forecast /\ task = run.task
    <3>1. RunTyped(NetworkHosts, NetworkTasks, Network!Places, NetworkReads) /\ "idle" \notin Network!Places
      BY NetworkGiven DEF NetworkInv
    <3> QED
      BY <3>1, RunBegin
  <2>2. /\ run'.disturbed \in BOOLEAN /\ run'.touched \in BOOLEAN /\ run'.changed \in BOOLEAN
    BY <2>1 DEF RunTyped, RunStates
  <2> QED
    BY <2>1, <2>2, NetworkGiven DEF Checking
<1>2. NetworkInv'
  <2>1. NetworkAlways(run'.at, run'.task, actual', run'.read, Checking')
    BY <1>1
  <2>2. /\ memo'.forecast # "none" /\ NetworkForetells(run'.task) =>
             (memo'.forecast = "changed" <=> NetworkChange(run'.task, actual'))
        /\ memo'.settled /\ NetworkSettles(run'.task, FALSE) => ~NetworkChange(run'.task, actual')
    BY <1>1 DEF NetworkInv
  <2>3. NetworkFine(run'.at, run'.task, actual', run'.read, run'.changed, run'.touched, Checking',
              run'.expect, run'.again)
    <3>1. ~Checking' /\ run'.expect # "none" /\ NetworkForetells(task) =>
             (run'.expect = "changed" <=> NetworkWill(place, task, actual, r, FALSE))
      BY <1>1 DEF NetworkInv
    <3>2. run'.again /\ NetworkSettles(task, Checking') => ~NetworkWill(place, task, actual, r, FALSE)
      BY <1>1 DEF NetworkInv
    <3>3. NetworkFine(place, task, actual, r, FALSE, FALSE, Checking', run'.expect, run'.again)
      BY <1>1, <3>1, <3>2 DEF NetworkFine
    <3> QED
      BY <1>1, <3>3
  <2> QED
    BY <1>1, <2>1, <2>2, <2>3 DEF NetworkInv
<1> QED
  BY <1>1, <1>2, RunSilent, NetworkSilent DEF Idle, At

LEMMA NetworkInterferes ==
    ASSUME NetworkInv, NEW a \in NetworkHosts, Interferes(a), NetworkMore,
           run.at # "idle" => NetworkAlways(run.at, run.task, a, run.read, Checking)
    PROVE NetworkInv' /\ NetworkRespects
<1>1. /\ RunTyped(NetworkHosts, NetworkTasks, Network!Places, NetworkReads)' /\ actual' = a
      /\ run'.at = run.at /\ run'.read = run.read /\ run'.task = run.task
      /\ run'.mode = run.mode /\ (run.at = "idle" \/ run'.disturbed)
      /\ ~memo'.settled /\ memo'.forecast = "none" /\ RunMoves
  BY RunInterferes DEF NetworkInv
<1>2. NetworkInv'
  BY <1>1 DEF NetworkInv, Checking
<1>3. ~AnswersOK
  BY <1>1 DEF AnswersOK, Answers, Idle, At
<1> QED
  BY <1>1, <1>2, <1>3, NetworkSilent

LEMMA NetworkStutters == ASSUME NetworkInv, UNCHANGED vars, NetworkMore PROVE NetworkInv' /\ NetworkRespects
<1>1. run' = run /\ actual' = actual /\ memo' = memo
  BY DEF vars
<1>2. NetworkInv'
  BY <1>1 DEF NetworkInv, RunTyped, Idle, At, Checking
<1>3. ~AnswersOK /\ RunMoves
  BY <1>1 DEF AnswersOK, Answers, Idle, At, RunMoves
<1> QED
  BY <1>2, <1>3, NetworkSilent

LEMMA NetworkGiven1 ==
    /\ Default \in Values /\ Network!NoConfig \in Network!Configs
    /\ \A task \in NetworkTasks :
          /\ task.state \in {"present", "absent"} /\ task.labels \in SUBSET Labels
          /\ task.pools \in SUBSET Pools /\ {task.force, task.appends} \subseteq BOOLEAN
          /\ task.connected \in SUBSET Attached
          /\ Network!CreateOptions(task) \in Network!Configs
          /\ ~Network!HasDifferentConfig(task, Network!CreateOptions(task))
<1>1. Default \in Values /\ NetworkTasks \subseteq Network!Requests
  BY DockerAssumption DEF Network!TaskAssumption
<1>2. Network!NoConfig \in Network!Configs
  BY <1>1 DEF Network!NoConfig, Network!Configs
<1>3. ASSUME NEW task \in NetworkTasks
      PROVE /\ task.state \in {"present", "absent"} /\ task.labels \in SUBSET Labels
            /\ task.pools \in SUBSET Pools /\ {task.force, task.appends} \subseteq BOOLEAN
            /\ task.connected \in SUBSET Attached
            /\ Network!CreateOptions(task) \in Network!Configs
            /\ ~Network!HasDifferentConfig(task, Network!CreateOptions(task))
  <2>1. /\ task.state \in {"present", "absent"} /\ task.labels \in SUBSET Labels
        /\ task.pools \in SUBSET Pools /\ {task.force, task.appends} \subseteq BOOLEAN
        /\ task.connected \in SUBSET Attached
        /\ task.options \in UNION {[D -> Values] : D \in SUBSET NetworkOptions}
    BY <1>1 DEF Network!Requests
  <2>2. PICK D \in SUBSET NetworkOptions : task.options \in [D -> Values]
    BY <2>1
  <2> DEFINE given == [o \in NetworkOptions |->
                         IF o \in DOMAIN task.options THEN task.options[o] ELSE Default]
             config == Network!CreateOptions(task)
  <2>3. given \in [NetworkOptions -> Values] /\ \A o \in DOMAIN task.options : given[o] = task.options[o]
    BY <1>1, <2>2
  <2>4. config = [options |-> given, labels |-> task.labels, pools |-> task.pools]
    BY DEF Network!CreateOptions
  <2> HIDE DEF given, config
  <2>5. config \in Network!Configs
    BY <2>1, <2>3, <2>4 DEF Network!Configs
  <2>6. ~Network!HasDifferentConfig(task, config)
    BY <2>3, <2>4 DEF Network!HasDifferentConfig, Network!LabelsDiffer, Network!PoolsDiffer
  <2> QED
    BY <2>1, <2>5, <2>6 DEF config
<1> QED
  BY <1>1, <1>2, <1>3

LEMMA NetworkInit == Network!Init => NetworkInv
  BY NetworkIsARun, RunInit DEF Network!Init, NetworkInv, NetworkHosts

LEMMA NetworkQuiet == run'.at # "idle" \/ run.at = "idle" => NetworkMore
  BY DEF NetworkMore, Network!Recovers, Network!Recovering, Network!NothingForgotten,
     Network!AnswersOK, Network!Answers, Network!Idle, Network!At

(* A step of a run that does not answer.                                   *)
LEMMA NetworkMoves ==
    ASSUME NetworkInv, run.at # "idle", NEW place \in Network!Places, NEW a \in NetworkHosts,
           NEW r \in NetworkReads, NEW c \in BOOLEAN, Step(place, a, r, c),
           Checking => a = actual, NetworkAlways(place, run.task, a, r, Checking),
           ~run.disturbed =>
             /\ NetworkKnows(place, run.task, a, r, c, run.touched \/ a # actual, Checking)
             /\ NetworkWill(place, run.task, a, r, c) <=>
                   NetworkWill(run.at, run.task, actual, run.read, run.changed)
             /\ a # actual => NetworkWill(run.at, run.task, actual, run.read, run.changed)
    PROVE NetworkInv' /\ NetworkRespects
<1>1. run'.at = place /\ place # "idle"
  BY NetworkGiven DEF Step, NetworkInv, RunTyped, RunStates
<1>2. NetworkMore
  BY <1>1, NetworkQuiet
<1> QED
  BY <1>2, NetworkStep

LEMMA NetworkReadsOn ==
    ASSUME NetworkInv, run.at # "idle", NEW place \in Network!Places,
           NEW r \in NetworkReads, NEW c \in BOOLEAN, Step(place, actual, r, c),
           NetworkAlways(place, run.task, actual, r, Checking),
           ~run.disturbed =>
             /\ NetworkKnows(place, run.task, actual, r, c, run.touched, Checking)
             /\ NetworkWill(place, run.task, actual, r, c) <=>
                   NetworkWill(run.at, run.task, actual, run.read, run.changed)
    PROVE NetworkInv' /\ NetworkRespects
<1>1. actual \in NetworkHosts /\ (run.touched \/ actual # actual) = run.touched
  BY NetworkGiven
<1> QED
  BY <1>1, NetworkMoves

LEMMA NetworkHere ==
    ASSUME NetworkInv, run.at # "idle"
    PROVE /\ actual \in NetworkHosts /\ run.task \in NetworkTasks /\ run.read \in NetworkReads
          /\ run.changed \in BOOLEAN /\ run.touched \in BOOLEAN
          /\ actual.attached \subseteq actual.containers /\ actual.containers \subseteq Attached
          /\ actual.there # "yes" => actual.attached = {}
          /\ actual.there \in {"no", "yes", "removing"}
          /\ actual.there = "removing" => actual.scope = "swarm"
          /\ NetworkAlways(run.at, run.task, actual, run.read, Checking)
          /\ ~run.disturbed =>
               NetworkKnows(run.at, run.task, actual, run.read, run.changed, run.touched, Checking)
<1>1. /\ actual \in NetworkHosts /\ run.task \in NetworkTasks /\ run.read \in NetworkReads
      /\ run.changed \in BOOLEAN /\ run.touched \in BOOLEAN
  BY NetworkGiven
<1>2. /\ NetworkAlways(run.at, run.task, actual, run.read, Checking)
      /\ ~run.disturbed =>
            NetworkKnows(run.at, run.task, actual, run.read, run.changed, run.touched, Checking)
  BY NetworkRuns DEF NetworkInv, NetworkFine
<1>3. /\ actual.attached \subseteq actual.containers /\ actual.containers \subseteq Attached
      /\ actual.there # "yes" => actual.attached = {}
      /\ actual.there \in {"no", "yes", "removing"}
      /\ actual.there = "removing" => actual.scope = "swarm"
  BY <1>1 DEF NetworkHosts, Network!Networks
<1> QED
  BY <1>1, <1>2, <1>3

(* What the inspection decides.                                            *)
LEMMA NetworkInspects ==
    ASSUME NetworkInv, Network!Inspect PROVE NetworkInv' /\ NetworkRespects
<1> DEFINE task == run.task
           found == Network!Found(actual)
           differs == Network!HasDifferentConfig(task, actual.config)
           replace == task.state = "absent" \/ task.force \/ differs
           place == IF found /\ replace THEN "detach"
                    ELSE IF task.state = "absent" THEN "answer"
                    ELSE IF found THEN "connect" ELSE "create"
           k == [exists |-> found, before |-> actual.attached, want |-> NetworkWant(task, actual),
                 attached |-> actual.attached, todo |-> {}]
<1>1. run.at = "inspect" /\ Step(place, actual, k, run.changed)
  BY NetworkIsARun
     DEF Network!Inspect, Network!At, Network!t, Network!WantedContainers, NetworkWant
<1>2. run.at # "idle"
  BY <1>1
<1>3. task.state \in {"present", "absent"} /\ task.connected \in SUBSET Attached
  BY <1>2, NetworkHere, NetworkGiven1
<1>4. k \in NetworkReads
  BY <1>2, <1>3, NetworkHere
     DEF NetworkReads, Network!ReadStates, NetworkWant, Network!Found
<1>5. k.want = NetworkAsked(task, k)
  BY <1>2, <1>3, NetworkHere DEF NetworkWant, NetworkAsked, Network!Found
<1>6. /\ k.exists = found /\ k.before = actual.attached /\ k.want = NetworkWant(task, actual)
      /\ k.attached = actual.attached /\ k.todo = {}
  OBVIOUS
<1> HIDE DEF k
<1>7. NetworkAlways(place, task, actual, k, Checking) /\ place \in Network!Places
  BY <1>3 DEF NetworkAlways, Network!Places
<1>8. ASSUME ~run.disturbed
      PROVE /\ NetworkKnows(place, task, actual, k, run.changed, run.touched, Checking)
            /\ NetworkWill(place, task, actual, k, run.changed) <=>
                  NetworkWill(run.at, task, actual, run.read, run.changed)
  <2>1. ~run.changed /\ ~run.touched
    BY <1>1, <1>2, <1>8, NetworkHere DEF NetworkKnows
  <2>2. NetworkWill(run.at, task, actual, run.read, run.changed) <=> NetworkChange(task, actual)
    BY <1>1 DEF NetworkWill
  <2>3. actual.attached \subseteq actual.containers
    BY <1>2, NetworkHere
  <2>4. CASE found /\ replace
    <3>1. NetworkChange(task, actual)
      BY <2>4 DEF NetworkChange
    <3> QED
      BY <1>3, <1>5, <1>6, <2>1, <2>2, <2>3, <2>4, <3>1 DEF NetworkKnows, NetworkWill
  <2>5. CASE task.state = "absent" /\ ~found
    <3>1. ~NetworkChange(task, actual) /\ Network!Satisfied(task, actual)
      BY <2>5 DEF NetworkChange, Network!Satisfied
    <3> QED
      BY <1>3, <1>5, <1>6, <2>1, <2>2, <2>3, <2>5, <3>1 DEF NetworkKnows, NetworkWill
  <2>6. CASE task.state = "present" /\ ~found
    <3>1. NetworkChange(task, actual)
      BY <2>6 DEF NetworkChange
    <3> QED
      BY <1>3, <1>5, <1>6, <2>1, <2>2, <2>3, <2>6, <3>1 DEF NetworkKnows, NetworkWill
  <2>7. CASE task.state = "present" /\ found /\ ~replace
    <3>1. NetworkFits(task, actual)
      BY <2>7 DEF NetworkFits
    <3>2. NetworkLinks(task, actual, k)
      BY <1>5, <1>6, <2>3 DEF NetworkLinks, NetworkAsked
    <3>3. NetworkKnows("connect", task, actual, k, run.changed, run.touched, Checking)
      BY <1>6, <2>1, <2>7, <3>1, <3>2 DEF NetworkKnows
    <3>4. NetworkWill("connect", task, actual, k, run.changed) <=> NetworkChange(task, actual)
      BY <1>6, <2>1, <2>7 DEF NetworkWill, NetworkChange, NetworkMissing
    <3> QED
      BY <2>2, <2>7, <3>3, <3>4
  <2> QED
    BY <1>3, <2>4, <2>5, <2>6, <2>7
<1> HIDE DEF place
<1> QED
  BY <1>1, <1>2, <1>4, <1>7, <1>8, NetworkHere, NetworkReadsOn

(* A network is removed: in check mode this is only announced.             *)
LEMMA NetworkRemoves ==
    ASSUME NetworkInv,
           \/ Network!RemoveInCheckMode \/ Network!ListAttached \/ Network!AllDisconnected
           \/ Network!DisconnectAll \/ Network!RemoveNetwork \/ Network!NetworkGone
    PROVE NetworkInv' /\ NetworkRespects
<1> DEFINE task == run.task
           r == run.read
<1>0. run.at \in {"detach", "detaching", "remove", "gone"} /\ run.at # "idle"
  BY DEF Network!RemoveInCheckMode, Network!ListAttached, Network!AllDisconnected,
     Network!DisconnectAll, Network!RemoveNetwork, Network!NetworkGone, Network!At
<1>1. /\ task.state \in {"present", "absent"} /\ task.connected \in SUBSET Attached
      /\ r \in NetworkReads /\ actual \in NetworkHosts /\ run.changed \in BOOLEAN
      /\ run.touched \in BOOLEAN
  BY <1>0, NetworkHere, NetworkGiven1
<1>2. CASE Network!RemoveInCheckMode
  <2> DEFINE k == [r EXCEPT !.exists = FALSE, !.attached = {}]
             place == IF task.state = "absent" THEN "answer" ELSE "create"
  <2>1. run.at = "detach" /\ Checking /\ Step(place, actual, k, TRUE)
    BY <1>2, NetworkIsARun DEF Network!RemoveInCheckMode, Network!At, Network!Checking, Checking,
       Network!t, Network!now
  <2>2. k \in NetworkReads /\ k.before = r.before /\ k.want = r.want
    BY <1>1 DEF NetworkReads, Network!ReadStates
  <2> HIDE DEF k
  <2>3. NetworkAlways(place, task, actual, k, Checking)
    BY <1>1 DEF NetworkAlways
  <2>4. ~run.disturbed =>
          /\ NetworkKnows(place, task, actual, k, TRUE, run.touched, Checking)
          /\ NetworkWill(place, task, actual, k, TRUE)
          /\ NetworkWill(run.at, task, actual, r, run.changed)
    BY <1>0, <2>1, <2>2, NetworkHere DEF NetworkKnows, NetworkWill, NetworkAsked
  <2>5. place \in Network!Places
    BY DEF Network!Places
  <2> HIDE DEF place
  <2> QED
    BY <1>0, <2>1, <2>2, <2>3, <2>4, <2>5, NetworkReadsOn
<1>3. CASE Network!ListAttached
  <2> DEFINE k == [r EXCEPT !.todo = actual.attached]
  <2>1. run.at = "detach" /\ ~Checking /\ Step("detaching", actual, k, run.changed)
    BY <1>3, NetworkIsARun DEF Network!ListAttached, Network!At, Network!Checking, Checking,
       Network!now
  <2>2. /\ k \in NetworkReads /\ k.before = r.before /\ k.want = r.want
        /\ k.todo = actual.attached
    BY <1>0, <1>1, NetworkHere DEF NetworkReads, Network!ReadStates
  <2> HIDE DEF k
  <2>3. NetworkAlways("detaching", task, actual, k, Checking)
    BY <2>1 DEF NetworkAlways
  <2>4. ~run.disturbed =>
          /\ NetworkKnows("detaching", task, actual, k, run.changed, run.touched, Checking)
          /\ NetworkWill("detaching", task, actual, k, run.changed)
          /\ NetworkWill(run.at, task, actual, r, run.changed)
    BY <1>0, <2>1, <2>2, NetworkHere DEF NetworkKnows, NetworkWill, NetworkAsked
  <2> QED
    BY <1>0, <1>1, <2>1, <2>2, <2>3, <2>4, NetworkReadsOn DEF Network!Places
<1>4. CASE Network!AllDisconnected
  <2>1. run.at = "detaching" /\ r.todo = {} /\ Step("remove", actual, r, run.changed)
    BY <1>4, NetworkIsARun DEF Network!AllDisconnected, Network!At, Network!now
  <2>2. NetworkAlways("remove", task, actual, r, Checking)
    BY <1>0, <2>1, NetworkHere DEF NetworkAlways
  <2>3. ~run.disturbed =>
          /\ NetworkKnows("remove", task, actual, r, run.changed, run.touched, Checking)
          /\ NetworkWill("remove", task, actual, r, run.changed)
          /\ NetworkWill(run.at, task, actual, r, run.changed)
    BY <1>0, <2>1, NetworkHere DEF NetworkKnows, NetworkWill
  <2> QED
    BY <1>0, <1>1, <2>1, <2>2, <2>3, NetworkReadsOn DEF Network!Places
<1>5. CASE Network!DisconnectAll
  <2>1. PICK c \in r.todo :
           /\ run.at = "detaching"
           /\ Step("detaching", [actual EXCEPT !.attached = @ \ {c}],
                   [r EXCEPT !.todo = @ \ {c}], TRUE)
    BY <1>5, NetworkIsARun DEF Network!DisconnectAll, Network!Disconnect, Network!At, Network!now
  <2> DEFINE k == [r EXCEPT !.todo = @ \ {c}]
             a == [actual EXCEPT !.attached = @ \ {c}]
  <2>2. /\ k \in NetworkReads /\ k.before = r.before /\ k.want = r.want
        /\ k.todo = r.todo \ {c}
    BY <1>1 DEF NetworkReads, Network!ReadStates
  <2>3. /\ a \in NetworkHosts /\ a.attached = actual.attached \ {c}
        /\ a.containers = actual.containers
    BY <1>1 DEF NetworkHosts, Network!Networks
  <2>4. Step("detaching", a, k, TRUE)
    BY <2>1
  <2> HIDE DEF k, a
  <2>5. ~Checking /\ NetworkAlways("detaching", task, a, k, Checking)
    BY <1>0, <2>1, NetworkHere DEF NetworkAlways
  <2>6. ~run.disturbed =>
          /\ NetworkKnows("detaching", task, a, k, TRUE, run.touched \/ a # actual, Checking)
          /\ NetworkWill("detaching", task, a, k, TRUE)
          /\ NetworkWill(run.at, task, actual, r, run.changed)
    BY <1>0, <2>1, <2>2, <2>3, <2>5, NetworkHere DEF NetworkKnows, NetworkWill, NetworkAsked
  <2> QED
    BY <1>0, <1>1, <2>2, <2>3, <2>4, <2>5, <2>6, NetworkMoves DEF Network!Places
<1>6. CASE Network!RemoveNetwork
  <2> DEFINE a == IF actual.there # "yes" THEN actual
                  ELSE IF actual.scope = "swarm" THEN [actual EXCEPT !.there = "removing"]
                  ELSE [actual EXCEPT !.there = "no", !.config = Network!NoConfig]
  <2>1. run.at = "remove" /\ actual.attached = {} /\ Step("gone", a, r, TRUE)
    BY <1>6, NetworkIsARun DEF Network!RemoveNetwork, Network!At, Network!now
  <2>2. /\ a \in NetworkHosts /\ a.there # "yes" /\ a.attached = {}
        /\ a.containers = actual.containers
    BY <1>1, <2>1, NetworkGiven1 DEF NetworkHosts, Network!Networks
  <2> HIDE DEF a
  <2>3. ~Checking /\ NetworkAlways("gone", task, a, r, Checking)
    BY <1>0, <2>1, NetworkHere DEF NetworkAlways
  <2>4. ~run.disturbed =>
          /\ NetworkKnows("gone", task, a, r, TRUE, run.touched \/ a # actual, Checking)
          /\ NetworkWill("gone", task, a, r, TRUE)
          /\ NetworkWill(run.at, task, actual, r, run.changed)
    BY <1>0, <2>1, <2>2, <2>3, NetworkHere DEF NetworkKnows, NetworkWill
  <2> QED
    BY <1>0, <1>1, <2>1, <2>2, <2>3, <2>4, NetworkMoves DEF Network!Places
<1>7. CASE Network!NetworkGone
  <2> DEFINE k == [r EXCEPT !.exists = FALSE, !.attached = {}]
             place == IF task.state = "absent" THEN "answer" ELSE "create"
  <2>1. /\ run.at = "gone" /\ Step(place, actual, k, run.changed)
        /\ actual.scope = "swarm" => ~Network!Found(actual)
    BY <1>7, NetworkIsARun DEF Network!NetworkGone, Network!At, Network!t, Network!now
  <2>2. k \in NetworkReads /\ k.before = r.before /\ k.want = r.want
    BY <1>1 DEF NetworkReads, Network!ReadStates
  <2> HIDE DEF k
  <2>3. ~Checking /\ NetworkAlways(place, task, actual, k, Checking)
    BY <1>0, <1>1, <2>1, NetworkHere DEF NetworkAlways
  <2>4. ~run.disturbed =>
          /\ NetworkKnows(place, task, actual, k, run.changed, run.touched, Checking)
          /\ NetworkWill(place, task, actual, k, run.changed)
          /\ NetworkWill(run.at, task, actual, r, run.changed)
    <3>1. ASSUME ~run.disturbed
          PROVE /\ NetworkKnows(place, task, actual, k, run.changed, run.touched, Checking)
                /\ NetworkWill(place, task, actual, k, run.changed)
                /\ NetworkWill(run.at, task, actual, r, run.changed)
      <4>1. /\ actual.there # "yes" /\ run.changed /\ r.want = NetworkAsked(task, r)
            /\ r.before \subseteq actual.containers
        BY <1>0, <2>1, <3>1, NetworkHere DEF NetworkKnows
      <4>2. ~Network!Found(actual)
        BY <1>0, <2>1, <4>1, NetworkHere DEF Network!Found
      <4>3. task.state = "absent" => Network!Satisfied(task, actual) /\ ~NetworkChange(task, actual)
        BY <4>2 DEF Network!Satisfied, NetworkChange
      <4> QED
        BY <1>1, <2>1, <2>2, <2>3, <4>1, <4>2, <4>3 DEF NetworkKnows, NetworkWill, NetworkAsked
    <3> QED
      BY <3>1
  <2>5. place \in Network!Places
    BY DEF Network!Places
  <2> HIDE DEF place
  <2> QED
    BY <1>0, <1>1, <2>1, <2>2, <2>3, <2>4, <2>5, NetworkReadsOn
<1> QED
  BY <1>2, <1>3, <1>4, <1>5, <1>6, <1>7

(* It is created, and read again.                                          *)
LEMMA NetworkCreates ==
    ASSUME NetworkInv, Network!CreateNetwork \/ Network!InspectCreated \/ Network!InspectConnected
    PROVE NetworkInv' /\ NetworkRespects
<1> DEFINE task == run.task
           r == run.read
<1>0. run.at \in {"create", "reread", "attached"} /\ run.at # "idle"
  BY DEF Network!CreateNetwork, Network!InspectCreated, Network!InspectConnected, Network!Reread,
     Network!At
<1>1. /\ task \in NetworkTasks /\ task.state = "present"
      /\ r \in NetworkReads /\ actual \in NetworkHosts /\ run.changed \in BOOLEAN
      /\ run.touched \in BOOLEAN
  BY <1>0, NetworkHere DEF NetworkAlways
<1>2. CASE Network!CreateNetwork /\ Checking
  <2>1. run.at = "create" /\ Step("connect", actual, r, TRUE)
    BY <1>2, NetworkIsARun DEF Network!CreateNetwork, Network!At, Network!Checking, Checking
  <2>2. NetworkAlways("connect", task, actual, r, Checking)
    BY <1>1 DEF NetworkAlways
  <2>3. ~run.disturbed =>
          /\ NetworkKnows("connect", task, actual, r, TRUE, run.touched, Checking)
          /\ NetworkWill("connect", task, actual, r, TRUE)
          /\ NetworkWill(run.at, task, actual, r, run.changed)
    BY <1>0, <1>2, <2>1, NetworkHere DEF NetworkKnows, NetworkWill
  <2> QED
    BY <1>0, <1>1, <2>1, <2>2, <2>3, NetworkReadsOn DEF Network!Places
<1>3. CASE Network!CreateNetwork /\ ~Checking
  <2> DEFINE a == [actual EXCEPT !.there = "yes", !.config = Network!CreateOptions(task)]
  <2>1. run.at = "create" /\ ~Network!Found(actual) /\ Step("reread", a, r, TRUE)
    BY <1>3, NetworkIsARun DEF Network!CreateNetwork, Network!At, Network!Checking, Checking,
       Network!t
  <2>2. /\ a \in NetworkHosts /\ a.attached = {} /\ a.containers = actual.containers
        /\ a.there = "yes" /\ a.config = Network!CreateOptions(task)
    BY <1>1, <2>1, NetworkGiven1 DEF NetworkHosts, Network!Networks, Network!Found
  <2> HIDE DEF a
  <2>3. NetworkFits(task, a)
    BY <1>1, <2>2, NetworkGiven1 DEF NetworkFits, Network!Found
  <2>4. NetworkAlways("reread", task, a, r, Checking)
    BY <1>1, <1>3 DEF NetworkAlways
  <2>5. ~run.disturbed =>
          /\ NetworkKnows("reread", task, a, r, TRUE, run.touched \/ a # actual, Checking)
          /\ NetworkWill("reread", task, a, r, TRUE)
          /\ NetworkWill(run.at, task, actual, r, run.changed)
    <3>1. ASSUME ~run.disturbed PROVE NetworkLinks(task, a, r)
      <4>1. r.want = NetworkAsked(task, r) /\ r.before \subseteq actual.containers
        BY <1>0, <2>1, <3>1, NetworkHere DEF NetworkKnows
      <4> QED
        BY <2>2, <4>1 DEF NetworkLinks
    <3> QED
      BY <1>3, <2>1, <2>3, <3>1 DEF NetworkKnows, NetworkWill
  <2> QED
    BY <1>0, <1>1, <1>3, <2>1, <2>2, <2>4, <2>5, NetworkMoves DEF Network!Places
<1>4. CASE Network!InspectCreated \/ Network!InspectConnected
  <2> DEFINE k == IF Network!Found(actual)
                  THEN [r EXCEPT !.exists = TRUE, !.attached = actual.attached] ELSE r
  <2>1. run.at \in {"reread", "attached"} /\ Step("connect", actual, k, run.changed)
    BY <1>4, NetworkIsARun DEF Network!InspectCreated, Network!InspectConnected, Network!Reread,
       Network!At, Network!now
  <2>2. k \in NetworkReads /\ k.before = r.before /\ k.want = r.want
        /\ (Network!Found(actual) => k.exists /\ k.attached = actual.attached)
    BY <1>0, <1>1, NetworkHere DEF NetworkReads, Network!ReadStates
  <2> HIDE DEF k
  <2>3. NetworkAlways("connect", task, actual, k, Checking) /\ ~Checking
    BY <1>0, <1>1, <2>1, NetworkHere DEF NetworkAlways
  <2>4. ~run.disturbed =>
          /\ NetworkKnows("connect", task, actual, k, run.changed, run.touched, Checking)
          /\ NetworkWill("connect", task, actual, k, run.changed)
          /\ NetworkWill(run.at, task, actual, r, run.changed)
    <3>1. ASSUME ~run.disturbed
          PROVE /\ run.changed /\ NetworkFits(task, actual) /\ NetworkLinks(task, actual, r)
                /\ Network!Found(actual)
      BY <1>0, <2>1, <3>1, NetworkHere DEF NetworkKnows, NetworkFits
    <3>2. NetworkLinks(task, actual, r) => NetworkLinks(task, actual, k)
      BY <2>2 DEF NetworkLinks, NetworkAsked
    <3> QED
      BY <2>1, <2>2, <2>3, <3>1, <3>2 DEF NetworkKnows, NetworkWill
  <2> QED
    BY <1>0, <1>1, <2>1, <2>2, <2>3, <2>4, NetworkReadsOn DEF Network!Places
<1> QED
  BY <1>2, <1>3, <1>4

(* The containers: those to connect,                                       *)
LEMMA NetworkConnects ==
    ASSUME NetworkInv, Network!SkipContainer \/ Network!ConnectContainer \/ Network!AllConnected
    PROVE NetworkInv' /\ NetworkRespects
<1> DEFINE task == run.task
           r == run.read
           missing == NetworkMissing(r)
           c == CHOOSE x \in missing : TRUE
<1>0. run.at = "connect" /\ run.at # "idle"
  BY DEF Network!SkipContainer, Network!ConnectContainer, Network!AllConnected, Network!At
<1>1. /\ task \in NetworkTasks /\ task.state = "present" /\ task.appends \in BOOLEAN
      /\ task.connected \in SUBSET Attached
      /\ r \in NetworkReads /\ actual \in NetworkHosts /\ run.changed \in BOOLEAN
      /\ run.touched \in BOOLEAN
  BY <1>0, NetworkHere, NetworkGiven1 DEF NetworkAlways
<1>2. /\ Network!Lacking = missing /\ Network!NextLacking = c
      /\ missing # {} => c \in missing /\ c \in r.want /\ (r.exists => c \notin r.attached)
  BY DEF Network!Lacking, Network!NextLacking, NetworkMissing, Network!now
<1>3. missing \subseteq r.want /\ r.want \subseteq Attached /\ r.attached \subseteq Attached
      /\ r.exists \in BOOLEAN
  BY <1>1 DEF NetworkMissing, NetworkReads, Network!ReadStates
<1> HIDE DEF c, missing
<1>4. ~run.disturbed =>
        /\ NetworkKnows("connect", task, actual, r, run.changed, run.touched, Checking)
        /\ Checking => ~run.touched /\ r.before = actual.attached
        /\ run.touched => run.changed
        /\ ~Checking \/ ~run.changed =>
              /\ r.exists /\ r.attached = actual.attached
              /\ NetworkFits(task, actual) /\ NetworkLinks(task, actual, r)
  <2>1. ~run.disturbed => NetworkKnows("connect", task, actual, r, run.changed, run.touched, Checking)
    BY <1>0, NetworkHere
  <2> QED
    BY <2>1 DEF NetworkKnows
<1>5. actual.attached \subseteq actual.containers
  BY <1>0, NetworkHere
<1> DEFINE k == [r EXCEPT !.want = @ \ {c}]
<1>6. /\ k \in NetworkReads /\ k.before = r.before /\ k.want = r.want \ {c}
      /\ k.exists = r.exists /\ k.attached = r.attached
  BY <1>1 DEF NetworkReads, Network!ReadStates
<1> HIDE DEF k
<1>7. NetworkMissing(k) = missing \ {c} /\ (missing # {} /\ k.exists => k.attached \ k.want = r.attached \ r.want)
  BY <1>2, <1>6 DEF NetworkMissing, missing
<1>8. NetworkAlways("connect", task, actual, k, Checking)
  BY <1>1 DEF NetworkAlways
<1>9. NetworkWill(run.at, task, actual, r, run.changed) <=>
         \/ run.changed \/ missing \cap actual.containers # {}
         \/ ~task.appends /\ r.exists /\ r.attached \ r.want # {}
  BY <1>0 DEF NetworkWill, missing
<1>10. CASE Network!SkipContainer
  <2>1. missing # {} /\ c \notin actual.containers /\ Step("connect", actual, k, run.changed)
    BY <1>2, <1>10, NetworkIsARun DEF Network!SkipContainer, Network!At, Network!now, k
  <2>2. NetworkLinks(task, actual, r) => NetworkLinks(task, actual, k)
    BY <1>5, <1>6, <2>1 DEF NetworkLinks, NetworkAsked
  <2>3. NetworkWill("connect", task, actual, k, run.changed) <=>
           NetworkWill(run.at, task, actual, r, run.changed)
    BY <1>6, <1>7, <1>9, <2>1 DEF NetworkWill
  <2>4. ~run.disturbed => NetworkKnows("connect", task, actual, k, run.changed, run.touched, Checking)
    BY <1>4, <1>6, <2>2 DEF NetworkKnows
  <2> QED
    BY <1>0, <1>1, <1>6, <1>8, <2>1, <2>3, <2>4, NetworkReadsOn DEF Network!Places
<1>11. CASE Network!ConnectContainer /\ Checking
  <2>1. missing # {} /\ c \in actual.containers /\ Step("connect", actual, k, TRUE)
    BY <1>2, <1>11, NetworkIsARun
       DEF Network!ConnectContainer, Network!At, Network!now, k, Network!Checking, Checking
  <2>2. /\ NetworkWill("connect", task, actual, k, TRUE)
        /\ NetworkWill(run.at, task, actual, r, run.changed)
    BY <1>2, <1>9, <2>1 DEF NetworkWill
  <2>3. ~run.disturbed => NetworkKnows("connect", task, actual, k, TRUE, run.touched, Checking)
    BY <1>4, <1>6, <1>11 DEF NetworkKnows
  <2> QED
    BY <1>0, <1>1, <1>6, <1>8, <2>1, <2>2, <2>3, NetworkReadsOn DEF Network!Places
<1>12. CASE Network!ConnectContainer /\ ~Checking
  <2> DEFINE a == [actual EXCEPT !.attached = @ \union {c}]
  <2>1. /\ missing # {} /\ c \in actual.containers /\ actual.there = "yes"
        /\ Step("attached", a, r, TRUE)
    BY <1>2, <1>12, NetworkIsARun
       DEF Network!ConnectContainer, Network!At, Network!now, Network!Checking, Checking
  <2>2. /\ a \in NetworkHosts /\ a.attached = actual.attached \union {c}
        /\ a.containers = actual.containers /\ a.there = "yes" /\ a.config = actual.config
    BY <1>1, <2>1 DEF NetworkHosts, Network!Networks
  <2> HIDE DEF a
  <2>3. /\ NetworkFits(task, actual) => NetworkFits(task, a)
        /\ NetworkLinks(task, actual, r) => NetworkLinks(task, a, r)
    BY <1>2, <2>1, <2>2 DEF NetworkFits, NetworkLinks, Network!Found
  <2>4. /\ NetworkWill("attached", task, a, r, TRUE)
        /\ NetworkWill(run.at, task, actual, r, run.changed)
    BY <1>2, <1>9, <2>1 DEF NetworkWill
  <2>5. ~run.disturbed =>
          NetworkKnows("attached", task, a, r, TRUE, run.touched \/ a # actual, Checking)
    BY <1>4, <1>12, <2>3 DEF NetworkKnows
  <2>6. NetworkAlways("attached", task, a, r, Checking)
    BY <1>1, <1>12 DEF NetworkAlways
  <2> QED
    BY <1>0, <1>1, <1>12, <2>1, <2>2, <2>4, <2>5, <2>6, NetworkMoves DEF Network!Places
<1>13. CASE Network!AllConnected
  <2> DEFINE todo == IF task.appends \/ ~r.exists THEN {} ELSE r.attached \ r.want
             d == [r EXCEPT !.todo = todo]
  <2>1. missing = {} /\ Step("disconnect", actual, d, run.changed)
    BY <1>2, <1>13, NetworkIsARun DEF Network!AllConnected, Network!At, Network!now, Network!t
  <2>2. todo \subseteq Attached
    BY <1>3
  <2> HIDE DEF todo
  <2>3. d \in NetworkReads /\ d.before = r.before /\ d.todo = todo
    BY <1>1, <2>2 DEF NetworkReads, Network!ReadStates
  <2> HIDE DEF d
  <2>4. NetworkWill("disconnect", task, actual, d, run.changed) <=>
           NetworkWill(run.at, task, actual, r, run.changed)
    BY <1>1, <1>3, <1>9, <2>1, <2>3 DEF NetworkWill, todo
  <2>5. ~run.disturbed => NetworkKnows("disconnect", task, actual, d, run.changed, run.touched, Checking)
    <3>1. ASSUME r.exists, r.attached = actual.attached, NetworkLinks(task, actual, r)
          PROVE NetworkLeaves(task, actual, d)
      <4>1. r.want \subseteq actual.attached
        BY <2>1, <3>1 DEF missing, NetworkMissing
      <4>2. todo = IF task.appends THEN {} ELSE actual.attached \ r.want
        BY <3>1 DEF todo
      <4>3. CASE task.connected = {}
        <5>1. r.before \subseteq r.want /\ actual.attached \subseteq r.want
          BY <3>1, <4>3 DEF NetworkLinks, NetworkAsked
        <5> QED
          BY <2>3, <4>1, <4>2, <4>3, <5>1 DEF NetworkLeaves
      <4>4. CASE task.connected # {}
        <5>1. /\ r.want \subseteq task.connected
              /\ task.connected \cap actual.containers \subseteq r.want
          BY <3>1, <4>4 DEF NetworkLinks, NetworkAsked
        <5> QED
          BY <1>5, <2>3, <4>1, <4>2, <4>4, <5>1 DEF NetworkLeaves
      <4> QED
        BY <4>3, <4>4
    <3> QED
      BY <1>4, <2>3, <3>1 DEF NetworkKnows
  <2>6. NetworkAlways("disconnect", task, actual, d, Checking)
    BY <1>1 DEF NetworkAlways
  <2> QED
    BY <1>0, <1>1, <2>1, <2>3, <2>4, <2>5, <2>6, NetworkReadsOn DEF Network!Places
<1> QED
  BY <1>10, <1>11, <1>12, <1>13

(* and those to disconnect.                                                *)
LEMMA NetworkDisconnects ==
    ASSUME NetworkInv, Network!DisconnectMissing \/ Network!NoneLeft
    PROVE NetworkInv' /\ NetworkRespects
<1> DEFINE task == run.task
           r == run.read
<1>0. run.at = "disconnect" /\ run.at # "idle"
  BY DEF Network!DisconnectMissing, Network!NoneLeft, Network!At
<1>1. /\ task \in NetworkTasks /\ task.state = "present" /\ task.appends \in BOOLEAN
      /\ r \in NetworkReads /\ actual \in NetworkHosts /\ run.changed \in BOOLEAN
      /\ run.touched \in BOOLEAN
  BY <1>0, NetworkHere, NetworkGiven1 DEF NetworkAlways
<1>2. ~run.disturbed =>
        /\ Checking => ~run.touched /\ r.before = actual.attached
        /\ run.touched => run.changed
        /\ ~Checking \/ ~run.changed => NetworkFits(task, actual) /\ NetworkLeaves(task, actual, r)
  <2>1. ~run.disturbed => NetworkKnows(run.at, task, actual, r, run.changed, run.touched, Checking)
    BY <1>0, NetworkHere
  <2> QED
    BY <1>0, <2>1 DEF NetworkKnows
<1>3. CASE Network!DisconnectMissing
  <2>1. PICK c \in r.todo :
          IF Checking THEN Step("disconnect", actual, [r EXCEPT !.todo = @ \ {c}], TRUE)
          ELSE Step("disconnect", [actual EXCEPT !.attached = @ \ {c}],
                    [r EXCEPT !.todo = @ \ {c}], TRUE)
    BY <1>3, NetworkIsARun
       DEF Network!DisconnectMissing, Network!Disconnect, Network!now, Network!Checking, Checking
  <2> DEFINE k == [r EXCEPT !.todo = @ \ {c}]
             a == [actual EXCEPT !.attached = @ \ {c}]
  <2>2. /\ k \in NetworkReads /\ k.before = r.before /\ k.todo = r.todo \ {c}
    BY <1>1 DEF NetworkReads, Network!ReadStates
  <2>3. /\ a \in NetworkHosts /\ a.attached = actual.attached \ {c}
        /\ a.containers = actual.containers /\ a.there = actual.there
        /\ a.config = actual.config
    BY <1>1 DEF NetworkHosts, Network!Networks
  <2>4. IF Checking THEN Step("disconnect", actual, k, TRUE) ELSE Step("disconnect", a, k, TRUE)
    BY <2>1
  <2> HIDE DEF k, a
  <2>5. /\ NetworkWill("disconnect", task, actual, k, TRUE)
        /\ NetworkWill("disconnect", task, a, k, TRUE)
        /\ NetworkWill(run.at, task, actual, r, run.changed)
    BY <1>0 DEF NetworkWill
  <2>6. /\ NetworkAlways("disconnect", task, actual, k, Checking)
        /\ NetworkAlways("disconnect", task, a, k, Checking)
    BY <1>1 DEF NetworkAlways
  <2>7. CASE Checking
    <3>1. ~run.disturbed => NetworkKnows("disconnect", task, actual, k, TRUE, run.touched, Checking)
      BY <1>2, <2>2, <2>7 DEF NetworkKnows
    <3> QED
      BY <1>0, <1>1, <2>2, <2>4, <2>5, <2>6, <2>7, <3>1, NetworkReadsOn DEF Network!Places
  <2>8. CASE ~Checking
    <3>1. ASSUME NetworkFits(task, actual), NetworkLeaves(task, actual, r)
          PROVE NetworkFits(task, a) /\ NetworkLeaves(task, a, k)
      <4>1. NetworkFits(task, a)
        BY <2>3, <3>1 DEF NetworkFits, Network!Found
      <4>2. c \notin task.connected /\ task.connected # {}
        BY <3>1 DEF NetworkLeaves
      <4>3. NetworkLeaves(task, a, k)
        BY <2>2, <2>3, <3>1, <4>2 DEF NetworkLeaves
      <4> QED
        BY <4>1, <4>3
    <3>2. ~run.disturbed =>
            NetworkKnows("disconnect", task, a, k, TRUE, run.touched \/ a # actual, Checking)
      BY <1>2, <2>8, <3>1 DEF NetworkKnows
    <3> QED
      BY <1>0, <1>1, <2>2, <2>3, <2>4, <2>5, <2>6, <2>8, <3>2, NetworkMoves DEF Network!Places
  <2> QED
    BY <2>7, <2>8
<1>4. CASE Network!NoneLeft
  <2>1. r.todo = {} /\ Step("answer", actual, r, run.changed)
    BY <1>4, NetworkIsARun DEF Network!NoneLeft, Network!now
  <2>2. NetworkWill("answer", task, actual, r, run.changed) <=>
           NetworkWill(run.at, task, actual, r, run.changed)
    BY <1>0, <2>1 DEF NetworkWill
  <2>3. ~run.disturbed => NetworkKnows("answer", task, actual, r, run.changed, run.touched, Checking)
    <3>1. ASSUME NetworkFits(task, actual), NetworkLeaves(task, actual, r)
          PROVE /\ Network!Satisfied(task, actual)
                /\ NetworkSettles(task, FALSE) => ~NetworkChange(task, actual)
                /\ task.connected = {} => r.before \subseteq actual.attached
      <4>1. /\ Network!Found(actual) /\ ~Network!HasDifferentConfig(task, actual.config)
            /\ task.connected \cap actual.containers \subseteq actual.attached
            /\ task.connected # {} /\ ~task.appends => actual.attached \subseteq task.connected
            /\ task.connected = {} => r.before \subseteq actual.attached
        BY <2>1, <3>1 DEF NetworkFits, NetworkLeaves
      <4>2. /\ (NetworkWant(task, actual) \ actual.attached) \cap actual.containers = {}
            /\ ~task.appends => actual.attached \ NetworkWant(task, actual) = {}
        BY <4>1 DEF NetworkWant
      <4> QED
        BY <1>1, <4>1, <4>2 DEF Network!Satisfied, NetworkSettles, NetworkChange
    <3> QED
      BY <1>2, <3>1 DEF NetworkKnows
  <2>4. NetworkAlways("answer", task, actual, r, Checking)
    BY DEF NetworkAlways
  <2> QED
    BY <1>0, <1>1, <2>1, <2>2, <2>3, <2>4, NetworkReadsOn DEF Network!Places
<1> QED
  BY <1>3, <1>4

(* A run that nobody disturbs is not refused, unless the managers have not *)
(* forgotten the network of an earlier one.                                *)
LEMMA NetworkEnds ==
    ASSUME NetworkInv,
           \/ Network!NetworkInUse \/ Network!NameTaken \/ Network!NothingToConnectTo
           \/ Network!Finish \/ Network!CallError \/ Network!Killed
    PROVE NetworkInv' /\ NetworkRespects
<1> DEFINE task == run.task
           r == run.read
<1>1. ASSUME run.at # "idle", NEW reply \in {"failed", "refused", "killed"}, Stops(reply),
             ~run.disturbed /\ actual.there # "removing" => reply # "refused"
      PROVE NetworkInv' /\ NetworkRespects
  <2>1. run'.reply = reply
    BY <1>1 DEF Stops, Ends, NetworkInv, RunTyped, RunStates
  <2>2. NetworkMore
    BY <1>1, <2>1 DEF NetworkMore, Network!Recovers, Network!Recovering, Network!NothingForgotten,
       Network!AnswersOK
  <2> QED
    BY <1>1, <2>2, NetworkStops
<1>2. CASE Network!NetworkInUse
  <2>1. run.at = "remove" /\ run.at # "idle" /\ actual.attached # {} /\ Stops("refused")
    BY <1>2, NetworkIsARun DEF Network!NetworkInUse, Network!At
  <2>2. run.disturbed
    BY <2>1, NetworkHere, NetworkGiven DEF NetworkKnows
  <2> QED
    BY <1>1, <2>1, <2>2
<1>3. CASE Network!NameTaken
  <2>1. run.at = "create" /\ run.at # "idle" /\ Network!Found(actual) /\ ~Checking /\ Stops("refused")
    BY <1>3, NetworkIsARun DEF Network!NameTaken, Network!At, Network!Checking, Checking
  <2>2. run.disturbed
    BY <2>1, NetworkHere, NetworkGiven DEF NetworkKnows
  <2> QED
    BY <1>1, <2>1, <2>2
<1>4. CASE Network!NothingToConnectTo
  <2>1. /\ run.at = "connect" /\ run.at # "idle" /\ actual.there # "yes" /\ ~Checking
        /\ Stops("refused")
    BY <1>4, NetworkIsARun DEF Network!NothingToConnectTo, Network!At, Network!Checking, Checking
  <2>2. ~run.disturbed => Network!Found(actual)
    BY <2>1, NetworkHere DEF NetworkKnows, NetworkFits
  <2>3. ~run.disturbed => actual.there = "removing"
    BY <2>1, <2>2, NetworkHere DEF Network!Found
  <2> QED
    BY <1>1, <2>1, <2>3
<1>5. CASE Network!Finish
  <2>1. run.at = "answer" /\ run.at # "idle" /\ Answer(run.changed)
    BY <1>5, NetworkIsARun DEF Network!Finish, Network!At
  <2>2. ~run.disturbed => NetworkKnows("answer", task, actual, r, run.changed, run.touched, Checking)
    BY <2>1, NetworkHere
  <2>3. NetworkMore
    <3>1. run'.reply = "ok" /\ actual' = actual
      BY <2>1 DEF Answer, Ends, NetworkInv, RunTyped, RunStates
    <3>2. ~run.disturbed /\ task.state = "present" /\ task.connected = {} =>
             r.before \subseteq actual.attached
      BY <2>2 DEF NetworkKnows
    <3> QED
      BY <3>1, <3>2 DEF NetworkMore, Network!Recovers, Network!Recovering, Network!NothingForgotten,
         Network!t, Network!now
  <2>4. ~run.disturbed =>
          /\ run.changed <=> NetworkWill(run.at, task, actual, r, run.changed)
          /\ IF run.changed THEN ~Checking => Network!Satisfied(task, actual)
             ELSE Network!Satisfied(task, actual) /\ (run.touched => NetworkHides(task))
          /\ ~Checking /\ NetworkSettles(task, FALSE) => ~NetworkChange(task, actual)
    BY <2>1, <2>2 DEF NetworkKnows, NetworkWill
  <2> QED
    BY <2>1, <2>3, <2>4, NetworkHere, NetworkAnswers
<1>6. CASE Network!CallError
  <2>1. run.at # "idle" /\ Stops("failed")
    BY <1>6, NetworkIsARun DEF Network!CallError, Network!CallFails, Network!Places
  <2> QED
    BY <1>1, <2>1
<1>7. CASE Network!Killed
  <2>1. run.at # "idle" /\ Stops("killed")
    BY <1>7, NetworkIsARun DEF Idle, At
  <2> QED
    BY <1>1, <2>1
<1> QED
  BY <1>2, <1>3, <1>4, <1>5, <1>6, <1>7

(* Others leave a network.                                                 *)
LEMMA NetworkOthers ==
    ASSUME NetworkInv, Network!Outside PROVE \E a \in NetworkHosts : Interferes(a)
<1>1. actual \in NetworkHosts
  BY NetworkGiven
<1> USE DEF NetworkHosts, Network!Networks
<1>2. ASSUME NEW c \in Attached, Interferes([actual EXCEPT !.containers = @ \union {c}])
      PROVE \E a \in NetworkHosts : Interferes(a)
  BY <1>1, <1>2
<1>3. ASSUME NEW c \in Attached,
             Interferes([actual EXCEPT !.containers = @ \ {c}, !.attached = @ \ {c}])
      PROVE \E a \in NetworkHosts : Interferes(a)
  BY <1>1, <1>3
<1>4. ASSUME NEW c \in Attached, Interferes([actual EXCEPT !.attached = @ \ {c}])
      PROVE \E a \in NetworkHosts : Interferes(a)
  BY <1>1, <1>4
<1>5. ASSUME NEW c \in Attached, c \in actual.containers, actual.there = "yes",
             Interferes([actual EXCEPT !.attached = @ \union {c}])
      PROVE \E a \in NetworkHosts : Interferes(a)
  BY <1>1, <1>5
<1>6. ASSUME actual.attached = {},
             Interferes([actual EXCEPT !.there = "no", !.config = Network!NoConfig])
      PROVE \E a \in NetworkHosts : Interferes(a)
  BY <1>1, <1>6, NetworkGiven1
<1>7. ASSUME ~Network!Found(actual), Interferes([actual EXCEPT !.there = "yes"])
      PROVE \E a \in NetworkHosts : Interferes(a)
  BY <1>1, <1>7 DEF Network!Found
<1>8. \/ \E c \in Attached :
            \/ Interferes([actual EXCEPT !.containers = @ \union {c}])
            \/ Interferes([actual EXCEPT !.containers = @ \ {c}, !.attached = @ \ {c}])
            \/ Interferes([actual EXCEPT !.attached = @ \ {c}])
            \/ /\ c \in actual.containers /\ actual.there = "yes"
               /\ Interferes([actual EXCEPT !.attached = @ \union {c}])
      \/ /\ actual.attached = {}
         /\ Interferes([actual EXCEPT !.there = "no", !.config = Network!NoConfig])
      \/ ~Network!Found(actual) /\ Interferes([actual EXCEPT !.there = "yes"])
  BY Zenon, NetworkIsARun DEF Network!Outside
<1> HIDE DEF NetworkHosts
<1> QED
  BY Zenon, <1>2, <1>3, <1>4, <1>5, <1>6, <1>7, <1>8

LEMMA NetworkNext == NetworkInv /\ [Network!Next]_vars => NetworkInv' /\ NetworkRespects
<1> SUFFICES ASSUME NetworkInv, [Network!Next]_vars PROVE NetworkInv' /\ NetworkRespects
  OBVIOUS
<1>1. actual \in NetworkHosts /\ run.touched \in BOOLEAN
  BY NetworkGiven
<1>2. CASE Network!Start
  <2>1. PICK task \in NetworkTasks, m \in {"check", "apply"} :
           Begin(task, m, "inspect", Network!Nothing)
    BY <1>2, NetworkIsARun DEF Network!Start
  <2>2. run.at = "idle" /\ NetworkMore
    BY <2>1, NetworkQuiet DEF Begin, Idle, At
  <2>3. Network!Nothing \in NetworkReads
    BY DEF NetworkReads, Network!ReadStates, Network!Nothing
  <2>4. /\ NetworkAlways("inspect", task, actual, Network!Nothing, m = "check")
        /\ NetworkKnows("inspect", task, actual, Network!Nothing, FALSE, FALSE, m = "check")
        /\ NetworkWill("inspect", task, actual, Network!Nothing, FALSE) <=> NetworkChange(task, actual)
        /\ NetworkSettles(task, TRUE) => NetworkSettles(task, FALSE)
    BY DEF NetworkKnows, NetworkWill, NetworkAlways, NetworkSettles
  <2> QED
    BY <2>1, <2>2, <2>3, <2>4, NetworkBegins DEF Network!Places
<1>3. ASSUME NEW a \in NetworkHosts, Interferes(a) PROVE NetworkInv' /\ NetworkRespects
  <2>1. run.at # "idle" => run'.at = run.at
    BY <1>3 DEF Interferes, Idle, At, NetworkInv, RunTyped, RunStates
  <2>2. NetworkMore
    BY <2>1, NetworkQuiet
  <2>3. run.at # "idle" => NetworkAlways(run.at, run.task, a, run.read, Checking)
    BY DEF NetworkInv, NetworkAlways
  <2> QED
    BY <1>3, <2>2, <2>3, NetworkInterferes
<1>4. CASE Network!Vanish
  <2> DEFINE a == [actual EXCEPT !.there = "no", !.config = Network!NoConfig]
  <2>1. /\ actual.there = "removing"
        /\ \/ run.at = "gone" /\ Awaited(a)
           \/ Interferes(a)
    BY <1>4, NetworkIsARun DEF Network!Vanish, Network!At
  <2>2. /\ a \in NetworkHosts /\ a.there # "yes" /\ a.containers = actual.containers
    BY <1>1, <2>1, NetworkGiven1 DEF NetworkHosts, Network!Networks
  <2> HIDE DEF a
  <2>3. CASE run.at = "gone" /\ Awaited(a)
    <3>1. /\ RunTyped(NetworkHosts, NetworkTasks, Network!Places, NetworkReads)'
          /\ actual' = a /\ run' = run /\ ~memo'.settled /\ memo'.forecast = "none"
          /\ (Idle \/ ~Checking => RunMoves)
      BY <2>2, <2>3, RunAwaited DEF NetworkInv
    <3>2. ~Checking /\ run.at # "idle"
      BY <2>3 DEF NetworkInv, NetworkAlways
    <3>3. NetworkAlways(run'.at, run'.task, actual', run'.read, Checking')
      BY <2>3, <3>1, <3>2 DEF NetworkAlways, Checking
    <3>4. ~run'.disturbed =>
            NetworkFine(run'.at, run'.task, actual', run'.read, run'.changed, run'.touched, Checking',
                        run'.expect, run'.again)
      <4>1. ~run.disturbed =>
              NetworkFine("gone", run.task, actual, run.read, run.changed, run.touched, Checking,
                          run.expect, run.again)
        BY <2>3, <3>2, NetworkRuns
      <4>2. ~run.disturbed =>
              NetworkFine("gone", run.task, a, run.read, run.changed, run.touched, Checking,
                          run.expect, run.again)
        BY <2>2, <3>2, <4>1 DEF NetworkFine, NetworkKnows, NetworkWill
      <4>3. Checking' = Checking
        BY <3>1 DEF Checking
      <4> QED
        BY <2>3, <3>1, <4>2, <4>3
    <3>5. NetworkInv'
      BY <3>1, <3>3, <3>4 DEF NetworkInv
    <3>6. NetworkMore /\ ~AnswersOK
      BY <2>3, <3>1, NetworkQuiet DEF AnswersOK, Answers, Idle, At
    <3> QED
      BY <3>1, <3>2, <3>5, <3>6, NetworkSilent
  <2> QED
    BY <1>3, <2>1, <2>2, <2>3
<1>5. CASE Network!Outside
  BY <1>3, <1>5, NetworkOthers
<1>6. CASE UNCHANGED vars
  <2>1. NetworkMore
    BY <1>6, NetworkQuiet DEF vars
  <2> QED
    BY <1>6, <2>1, NetworkStutters
<1>7. CASE Network!Steps \/ Network!CallError \/ Network!Killed
  BY <1>7, NetworkInspects, NetworkRemoves, NetworkCreates, NetworkConnects, NetworkDisconnects,
     NetworkEnds DEF Network!Steps
<1> QED
  BY <1>2, <1>4, <1>5, <1>6, <1>7 DEF Network!Next

LEMMA NetworkSafe == NetworkInv => Network!TypeOK
  BY DEF NetworkInv, RunTyped, NetworkHosts, NetworkReads, Network!TypeOK, Network!Memos, Memos,
     Network!RunStates, RunStates, Network!Forecasts, Forecasts, Network!Replies, Replies

LEMMA NetworkHolds ==
    ASSUME NEW task, NEW h PROVE Network!Satisfied(task, h) \in BOOLEAN
  BY DEF Network!Satisfied
-----------------------------------------------------------------------------
(* docker_image_pull, _push, _tag, _remove, _export and _load: two sets of *)
(* their tasks are run side by side.  An archive that an export has left   *)
(* has every name once.                                                    *)
ToolJobs == ToolTasks \union ArchiveTasks
ToolOnce(content) ==
    \A i \in DOMAIN content : \A j \in DOMAIN content :
       i # j => content[i] \cap content[j] = {}
ToolHosts ==
    {e \in Tool!Engines :
        /\ \A n \in Names : e.names[n] \in e.images \union {0}
        /\ e.archive # Broken => ToolOnce(e.archive)}
ToolReads == {s \in Tool!Snapshots : ToolOnce(s.content)}
ToolNames(task) == {task.name} \union {task.targets[k] : k \in 1 .. Len(task.targets)}
ToolWanted(task, e) == [n \in ToolNames(task) |-> e.names[n]]
ToolForetells(task) == task.op = "pull" => task.lazy
ToolSettles(task, h, checking) ==
    /\ task.op # "load" /\ ~(task.op = "pull" /\ ~task.lazy /\ checking)
    /\ ~(task.op = "export" /\ (Tool!Rewrites(task) \/ Tool!Shared(h, ToolNames(task))))
ToolHides(task) == FALSE
ToolMore == Tool!OneImage /\ ((run.at = "idle" /\ run'.at # "idle") \/ run'.task = run.task)

(* A target that does not stand for image id yet, or for none.             *)
ToolTags(task, e, id, k) ==
    /\ e.names[task.targets[k]] # id
    /\ ~(task.lazy /\ e.names[task.targets[k]] # 0)
ToolTagged(task, e, k) ==
    e.names[task.targets[k]] \in (IF task.lazy THEN Tool!Ids ELSE {e.names[task.name]})
ToolChange(task, e) ==
    CASE task.op = "pull" ->
           IF task.lazy THEN e.names[task.name] = 0 ELSE e.names[task.name] # e.offered
      [] task.op = "push" -> e.pushed # e.names[task.name]
      [] task.op = "tag" ->
           \E k \in 1 .. Len(task.targets) : ToolTags(task, e, e.names[task.name], k)
      [] task.op = "remove" ->
           IF task.id = 0 THEN e.names[task.name] # 0 ELSE task.id \in e.images
      [] task.op = "export" -> Tool!Rewrites(task) \/ ~Tool!Matches(e.archive, ToolWanted(task, e))
      [] OTHER -> TRUE
ToolWill(place, task, h, r, c) ==
    CASE place \in {"inspect", "load", "compare"} -> ToolChange(task, h)
      [] place = "pull" -> h.names[task.name] # h.offered
      [] place = "pulled" ->
           \/ r.id # h.names[task.name]
           \/ r.names # Tool!Named(h, h.names[task.name])
      [] place = "push" -> h.pushed # h.names[task.name]
      [] place = "target" ->
           c \/ \E k \in 1 .. Len(task.targets) : r.next <= k /\ ToolTags(task, h, r.id, k)
      [] place \in {"retag", "drop", "save", "copy"} -> TRUE
      [] OTHER -> c
ToolAlways(place, task, h, r, checking) ==
    /\ place \in {"pull", "push", "retag", "drop", "save", "copy", "load", "pulled"} => ~checking
    /\ place \in {"pull", "pulled"} => task.op = "pull"
    /\ place = "push" => task.op = "push"
    /\ place \in {"target", "retag"} => task.op = "tag" /\ r.id \in Tool!Ids
    /\ place = "retag" => r.next <= Len(task.targets)
    /\ place = "drop" => task.op = "remove"
    /\ place \in {"compare", "save", "copy"} => task.op = "export"
    /\ place = "load" => task.op = "load"
    /\ place = "inspect" => r.next <= Len(task.targets) + 1
    /\ place = "inspect" /\ task.op # "export" => r.next = 1
    /\ task.op \in {"push", "load"} => ~checking
(* The names that were inspected before the next one.                      *)
ToolSeen(task, next, n) ==
    \/ next > 1 /\ n = task.name
    \/ \E k \in 1 .. Len(task.targets) : k + 1 < next /\ n = task.targets[k]
ToolKnows(place, task, h, r, c, touched, checking) ==
    /\ checking => ~touched
    /\ place \notin {"copy", "pulled"} /\ touched => c
    /\ place \in {"inspect", "load", "pull", "pulled", "push", "drop", "compare", "save", "copy"} => ~c
    /\ place = "pull" =>
          /\ task.lazy => h.names[task.name] = 0
          /\ r.id = h.names[task.name] /\ r.names = Tool!Named(h, h.names[task.name])
    /\ place = "pulled" =>
          /\ h.names[task.name] = h.offered
          /\ touched => r.id # h.names[task.name]
    /\ place = "push" => h.names[task.name] # 0
    /\ place \in {"target", "retag"} =>
          /\ r.id = h.names[task.name]
          /\ ~checking \/ ~c =>
               \A k \in 1 .. Len(task.targets) : k < r.next => ToolTagged(task, h, k)
    /\ place = "retag" => ~checking
    /\ place = "inspect" /\ task.op = "export" =>
          /\ DOMAIN r.wanted = {n \in ToolNames(task) : ToolSeen(task, r.next, n)}
          /\ \A n \in DOMAIN r.wanted : r.wanted[n] = h.names[n]
    /\ place = "compare" => r.wanted = ToolWanted(task, h)
    /\ place = "copy" =>
          /\ r.content = Tool!Content(h.names, ToolNames(task))
          /\ \A n \in ToolNames(task) : h.names[n] # 0
    /\ place \in {"answer", "inspect again"} =>
          /\ ~checking \/ ~c => Tool!Satisfied(task, h)
          /\ ~checking /\ ToolSettles(task, h, FALSE) => ~ToolChange(task, h)
ToolFine(place, task, h, r, c, touched, checking, expect, again) ==
    /\ ToolKnows(place, task, h, r, c, touched, checking)
    /\ ~checking /\ expect # "none" /\ ToolForetells(task) =>
          (expect = "changed" <=> ToolWill(place, task, h, r, c))
    /\ checking /\ ToolForetells(task) => (ToolWill(place, task, h, r, c) <=> ToolChange(task, h))
    /\ again /\ ToolSettles(task, h, checking) => ~ToolWill(place, task, h, r, c) /\ ~touched
ToolInv ==
    /\ RunTyped(ToolHosts, ToolJobs, Tool!Places, ToolReads)
    /\ run.at # "idle" => ToolAlways(run.at, run.task, actual, run.read, Checking)
    /\ run.at # "idle" /\ ~run.disturbed =>
          ToolFine(run.at, run.task, actual, run.read, run.changed, run.touched, Checking,
                run.expect, run.again)
    /\ memo.forecast # "none" /\ ToolForetells(run.task) =>
          (memo.forecast = "changed" <=> ToolChange(run.task, actual))
    /\ memo.settled /\ ToolSettles(run.task, actual, FALSE) => ~ToolChange(run.task, actual)
ToolRespects ==
    /\ RunMoves /\ Truthful(Tool!Satisfied(run.task, actual), ToolHides(run.task))
    /\ Tool!Predicts /\ Tool!Idempotent /\ ToolMore

LEMMA ToolGiven ==
    ToolInv =>
      /\ actual \in ToolHosts /\ run.changed \in BOOLEAN /\ run.touched \in BOOLEAN
      /\ "idle" \notin Tool!Places /\ run.at \in Tool!Places \union {"idle"}
      /\ run.task \in ToolJobs /\ run.mode \in {"check", "apply"} /\ run.disturbed \in BOOLEAN
      /\ run.at # "idle" => run.read \in ToolReads /\ run.reply = "none"
  BY Zenon DEF ToolInv, RunTyped, RunStates, Idle, At, Tool!Places

LEMMA ToolRuns ==
    ToolInv /\ run.at # "idle" /\ ~run.disturbed =>
      ToolFine(run.at, run.task, actual, run.read, run.changed, run.touched, Checking,
            run.expect, run.again)
  BY DEF ToolInv

LEMMA ToolSilent ==
    ASSUME ~AnswersOK, RunMoves, ToolMore PROVE ToolRespects
  BY DEF ToolRespects, Truthful, Tool!Predicts, Tool!Foretold, Tool!Idempotent, Tool!Unchanging,
     Tool!AnswersOK, AnswersOK, Tool!Answers, Answers, Tool!Idle, Idle, Tool!At, At

LEMMA ToolStep ==
    ASSUME ToolInv, run.at # "idle", NEW place \in Tool!Places, NEW a \in ToolHosts,
           NEW r \in ToolReads, NEW c \in BOOLEAN, Step(place, a, r, c), ToolMore,
           Checking => a = actual, ToolAlways(place, run.task, a, r, Checking),
           ~run.disturbed =>
             /\ ToolKnows(place, run.task, a, r, c, run.touched \/ a # actual, Checking)
             /\ ToolForetells(run.task) =>
                  (ToolWill(place, run.task, a, r, c) <=>
                     ToolWill(run.at, run.task, actual, run.read, run.changed))
             /\ ToolSettles(run.task, a, Checking) =>
                  /\ ToolSettles(run.task, actual, Checking)
                  /\ a # actual \/ ToolWill(place, run.task, a, r, c) =>
                        ToolWill(run.at, run.task, actual, run.read, run.changed)
    PROVE ToolInv' /\ ToolRespects
<1>1. /\ RunTyped(ToolHosts, ToolJobs, Tool!Places, ToolReads)' /\ actual' = a
      /\ run'.at = place /\ run'.read = r /\ run'.changed = c /\ run'.task = run.task
      /\ run'.mode = run.mode /\ run'.expect = run.expect /\ run'.again = run.again
      /\ run'.disturbed = run.disturbed /\ run'.touched = (run.touched \/ a # actual)
      /\ memo'.settled => memo.settled /\ a = actual
      /\ memo'.forecast # "none" => memo'.forecast = memo.forecast /\ a = actual
      /\ RunMoves /\ place # "idle"
  <2>1. /\ RunTyped(ToolHosts, ToolJobs, Tool!Places, ToolReads) /\ "idle" \notin Tool!Places
        /\ ~Idle /\ place # "idle"
    BY ToolGiven DEF ToolInv, Idle, At
  <2> QED
    BY <2>1, RunStep
<1>2. ToolInv'
  <2>1. ToolAlways(run'.at, run'.task, actual', run'.read, Checking')
    BY <1>1 DEF Checking
  <2>2. ASSUME ~run'.disturbed
        PROVE ToolFine(run'.at, run'.task, actual', run'.read, run'.changed, run'.touched, Checking',
                    run'.expect, run'.again)
    <3>1. ToolFine(run.at, run.task, actual, run.read, run.changed, run.touched, Checking,
                run.expect, run.again)
      BY <1>1, <2>2, ToolRuns
    <3>2. ToolFine(place, run.task, a, r, c, run.touched \/ a # actual, Checking,
                run.expect, run.again)
      BY <1>1, <2>2, <3>1 DEF ToolFine
    <3> QED
      BY <1>1, <3>2 DEF Checking
  <2>3. /\ memo'.forecast # "none" /\ ToolForetells(run'.task) =>
             (memo'.forecast = "changed" <=> ToolChange(run'.task, actual'))
        /\ memo'.settled /\ ToolSettles(run'.task, actual', FALSE) => ~ToolChange(run'.task, actual')
    BY <1>1 DEF ToolInv
  <2> QED
    BY <1>1, <2>1, <2>2, <2>3 DEF ToolInv
<1> QED
  BY <1>1, <1>2, RunSilent, ToolSilent

LEMMA ToolGoes ==
    ASSUME ToolInv, run.at # "idle", NEW place \in Tool!Places, NEW r \in ToolReads, NEW c \in BOOLEAN,
           Step(place, actual, r, c), ToolMore, ToolAlways(place, run.task, actual, r, Checking),
           ~run.disturbed =>
             /\ ToolKnows(place, run.task, actual, r, c, run.touched, Checking)
             /\ ToolForetells(run.task) =>
                  (ToolWill(place, run.task, actual, r, c) <=>
                     ToolWill(run.at, run.task, actual, run.read, run.changed))
             /\ ToolSettles(run.task, actual, Checking) /\ ToolWill(place, run.task, actual, r, c) =>
                  ToolWill(run.at, run.task, actual, run.read, run.changed)
    PROVE ToolInv' /\ ToolRespects
<1>1. actual \in ToolHosts /\ (run.touched \/ actual # actual) = run.touched
  BY ToolGiven
<1> QED
  BY <1>1, ToolStep

LEMMA ToolStops ==
    ASSUME ToolInv, run.at # "idle", NEW reply \in {"failed", "refused", "killed"}, Stops(reply), ToolMore
    PROVE ToolInv' /\ ToolRespects
<1>1. /\ RunTyped(ToolHosts, ToolJobs, Tool!Places, ToolReads)' /\ run'.at = "idle" /\ actual' = actual
      /\ run'.reply = reply /\ run'.task = run.task /\ memo' = memo /\ RunMoves
  BY RunStops DEF ToolInv, Replies, Idle, At
<1>2. ToolInv'
  BY <1>1 DEF ToolInv
<1> QED
  BY <1>1, <1>2, RunSilent, ToolSilent

LEMMA ToolAnswers ==
    ASSUME ToolInv, run.at # "idle", NEW c \in BOOLEAN, Answer(c), ToolMore,
           ~run.disturbed =>
             /\ c <=> ToolWill(run.at, run.task, actual, run.read, run.changed)
             /\ IF c THEN ~Checking => Tool!Satisfied(run.task, actual)
                     ELSE Tool!Satisfied(run.task, actual) /\ (run.touched => ToolHides(run.task))
             /\ ~Checking /\ ToolSettles(run.task, actual, FALSE) => ~ToolChange(run.task, actual)
    PROVE ToolInv' /\ ToolRespects
<1>1. /\ RunTyped(ToolHosts, ToolJobs, Tool!Places, ToolReads)' /\ run'.at = "idle" /\ actual' = actual
      /\ run'.reply = "ok" /\ run'.changed = c /\ run'.task = run.task /\ run'.mode = run.mode
      /\ IF Checking THEN memo'.settled = memo.settled ELSE memo'.settled => ~run.disturbed
      /\ memo'.forecast # "none" =>
            Checking /\ ~run.disturbed /\ (memo'.forecast = "changed" <=> c)
      /\ RunMoves
  BY RunAnswers DEF ToolInv, Idle, At
<1>0. ~run.disturbed =>
        /\ ~Checking /\ run.expect # "none" /\ ToolForetells(run.task) => (run.expect = "changed" <=> c)
        /\ Checking /\ ToolForetells(run.task) => (c <=> ToolChange(run.task, actual))
        /\ run.again /\ ToolSettles(run.task, actual, Checking) => ~c /\ ~run.touched
  BY ToolRuns DEF ToolFine
<1>2. ToolInv'
  <2>1. memo'.forecast # "none" /\ ToolForetells(run'.task) =>
             (memo'.forecast = "changed" <=> ToolChange(run'.task, actual'))
    <3>1. ~run.disturbed /\ Checking /\ ToolForetells(run.task) => (c <=> ToolChange(run.task, actual))
      BY <1>0
    <3> QED
      BY <1>1, <3>1
  <2>2. memo'.settled /\ ToolSettles(run'.task, actual', FALSE) => ~ToolChange(run'.task, actual')
    BY <1>1 DEF ToolInv
  <2> QED
    BY <1>1, <2>1, <2>2 DEF ToolInv
<1>3. Truthful(Tool!Satisfied(run.task, actual), ToolHides(run.task))
  BY <1>1 DEF Truthful
<1>5. Tool!Predicts
  BY <1>0, <1>1 DEF Tool!Predicts, Tool!Foretold, Tool!Checking, Checking, Tool!t, ToolForetells
<1>6. Tool!Idempotent
  BY <1>0, <1>1 DEF Tool!Idempotent, Tool!Unchanging, Tool!Checking, Checking, Tool!t, ToolSettles, Tool!Wanted, ToolNames
<1> QED
  BY <1>1, <1>2, <1>3, <1>5, <1>6 DEF ToolRespects

LEMMA ToolBegins ==
    ASSUME ToolInv, run.at = "idle", NEW task \in ToolJobs, NEW m \in {"check", "apply"},
           NEW place \in Tool!Places, NEW r \in ToolReads, Begin(task, m, place, r), ToolMore,
           ToolAlways(place, task, actual, r, m = "check"),
           ToolKnows(place, task, actual, r, FALSE, FALSE, m = "check"),
           \/ m = "check" /\ ~ToolSettles(task, actual, TRUE) /\ ~ToolForetells(task)
           \/ ToolWill(place, task, actual, r, FALSE) <=> ToolChange(task, actual),
           ToolSettles(task, actual, TRUE) => ToolSettles(task, actual, FALSE)
    PROVE ToolInv' /\ ToolRespects
<1>1. /\ RunTyped(ToolHosts, ToolJobs, Tool!Places, ToolReads)' /\ actual' = actual
      /\ run'.at = place /\ run'.read = r /\ run'.task = task /\ run'.mode = m
      /\ run'.disturbed = FALSE /\ run'.touched = FALSE /\ run'.changed = FALSE /\ RunMoves
      /\ run'.again \/ memo'.settled => memo.settled /\ task = run.task
      /\ run'.expect # "none" => run'.expect = memo.forecast /\ task = run.task
      /\ memo'.forecast # "none" => memo'.forecast = memo.forecast /\ task = run.task
      /\ Checking' = (m = "check") /\ run'.at # "idle"
  <2>1. /\ RunTyped(ToolHosts, ToolJobs, Tool!Places, ToolReads)' /\ actual' = actual
        /\ run'.at = place /\ run'.read = r /\ run'.task = task /\ run'.mode = m
        /\ ~run'.disturbed /\ ~run'.touched /\ ~run'.changed /\ RunMoves
        /\ run'.again \/ memo'.settled => memo.settled /\ task = run.task
        /\ run'.expect # "none" => run'.expect = memo.forecast /\ task = run.task
        /\ memo'.forecast # "none" => memo'.forecast = memo.forecast /\ task = run.task
    <3>1. RunTyped(ToolHosts, ToolJobs, Tool!Places, ToolReads) /\ "idle" \notin Tool!Places
      BY ToolGiven DEF ToolInv
    <3> QED
      BY <3>1, RunBegin
  <2>2. /\ run'.disturbed \in BOOLEAN /\ run'.touched \in BOOLEAN /\ run'.changed \in BOOLEAN
    BY <2>1 DEF RunTyped, RunStates
  <2> QED
    BY <2>1, <2>2, ToolGiven DEF Checking
<1>2. ToolInv'
  <2>1. ToolAlways(run'.at, run'.task, actual', run'.read, Checking')
    BY <1>1
  <2>2. /\ memo'.forecast # "none" /\ ToolForetells(run'.task) =>
             (memo'.forecast = "changed" <=> ToolChange(run'.task, actual'))
        /\ memo'.settled /\ ToolSettles(run'.task, actual', FALSE) => ~ToolChange(run'.task, actual')
    BY <1>1 DEF ToolInv
  <2>3. ToolFine(run'.at, run'.task, actual', run'.read, run'.changed, run'.touched, Checking',
              run'.expect, run'.again)
    <3>1. ~Checking' /\ run'.expect # "none" /\ ToolForetells(task) =>
             (run'.expect = "changed" <=> ToolWill(place, task, actual, r, FALSE))
      BY <1>1 DEF ToolInv
    <3>2. run'.again /\ ToolSettles(task, actual, Checking') => ~ToolWill(place, task, actual, r, FALSE)
      BY <1>1 DEF ToolInv
    <3>3. ToolFine(place, task, actual, r, FALSE, FALSE, Checking', run'.expect, run'.again)
      BY <1>1, <3>1, <3>2 DEF ToolFine
    <3> QED
      BY <1>1, <3>3
  <2> QED
    BY <1>1, <2>1, <2>2, <2>3 DEF ToolInv
<1> QED
  BY <1>1, <1>2, RunSilent, ToolSilent DEF Idle, At

LEMMA ToolInterferes ==
    ASSUME ToolInv, NEW a \in ToolHosts, Interferes(a), ToolMore,
           run.at # "idle" => ToolAlways(run.at, run.task, a, run.read, Checking)
    PROVE ToolInv' /\ ToolRespects
<1>1. /\ RunTyped(ToolHosts, ToolJobs, Tool!Places, ToolReads)' /\ actual' = a
      /\ run'.at = run.at /\ run'.read = run.read /\ run'.task = run.task
      /\ run'.mode = run.mode /\ (run.at = "idle" \/ run'.disturbed)
      /\ ~memo'.settled /\ memo'.forecast = "none" /\ RunMoves
  BY RunInterferes DEF ToolInv
<1>2. ToolInv'
  BY <1>1 DEF ToolInv, Checking
<1>3. ~AnswersOK
  BY <1>1 DEF AnswersOK, Answers, Idle, At
<1> QED
  BY <1>1, <1>2, <1>3, ToolSilent

LEMMA ToolStutters == ASSUME ToolInv, UNCHANGED vars, ToolMore PROVE ToolInv' /\ ToolRespects
<1>1. run' = run /\ actual' = actual /\ memo' = memo
  BY DEF vars
<1>2. ToolInv'
  BY <1>1 DEF ToolInv, RunTyped, Idle, At, Checking
<1>3. ~AnswersOK /\ RunMoves
  BY <1>1 DEF AnswersOK, Answers, Idle, At, RunMoves
<1> QED
  BY <1>2, <1>3, ToolSilent

LEMMA ToolAsks ==
    ASSUME NEW task \in ToolJobs
    PROVE /\ task.op \in {"pull", "push", "tag", "remove", "export", "load"}
          /\ task.name \in Names /\ task.targets \in Seq(Names)
          /\ task.id \in 0 .. 2 /\ {task.lazy, task.force, task.diff} \subseteq BOOLEAN
          /\ Len(task.targets) \in Nat
          /\ \A k \in 1 .. Len(task.targets) : task.targets[k] \in Names
          /\ ToolNames(task) \subseteq Names /\ task.name \in ToolNames(task)
          /\ Broken \notin Tool!Contents
<1>1. task \in Tool!Requests /\ Broken \notin Tool!Contents
  BY DockerAssumption DEF ToolJobs, Tool!TaskAssumption, Archive!TaskAssumption, Tool!Requests,
     Archive!Requests, Tool!Ids, Archive!Ids
<1>2. /\ task.op \in {"pull", "push", "tag", "remove", "export", "load"}
      /\ task.name \in Names /\ task.targets \in Seq(Names)
      /\ task.id \in 0 .. 2 /\ {task.lazy, task.force, task.diff} \subseteq BOOLEAN
  BY <1>1 DEF Tool!Requests, Tool!Ids
<1>3. /\ Len(task.targets) \in Nat
      /\ \A k \in 1 .. Len(task.targets) : task.targets[k] \in Names
  BY <1>2
<1> QED
  BY <1>1, <1>2, <1>3 DEF ToolNames

LEMMA ToolEngine ==
    ASSUME NEW e \in ToolHosts
    PROVE /\ e.images \in SUBSET (1 .. 2) /\ e.names \in [Names -> 0 .. 2] /\ e.offered \in 1 .. 2
          /\ e.pushed \in 0 .. 2 /\ e.archive \in Tool!Contents \union {Broken}
          /\ \A n \in Names : e.names[n] \in e.images \union {0}
          /\ e.archive # Broken => ToolOnce(e.archive)
          /\ e = [images |-> e.images, names |-> e.names, offered |-> e.offered,
                  pushed |-> e.pushed, archive |-> e.archive]
  BY DEF ToolHosts, Tool!Engines, Tool!Ids

LEMMA ToolMade ==
    ASSUME NEW images \in SUBSET (1 .. 2), NEW names \in [Names -> 0 .. 2], NEW offered \in 1 .. 2,
           NEW pushed \in 0 .. 2, NEW archive \in Tool!Contents \union {Broken},
           \A n \in Names : names[n] \in images \union {0},
           archive # Broken => ToolOnce(archive)
    PROVE [images |-> images, names |-> names, offered |-> offered, pushed |-> pushed,
           archive |-> archive] \in ToolHosts
  BY DEF ToolHosts, Tool!Engines, Tool!Ids

(* A name is given to an image, taken from it, and an image deleted.       *)
LEMMA ToolPoints ==
    ASSUME NEW e \in ToolHosts, NEW n \in Names, NEW i \in 1 .. 2
    PROVE LET p == Tool!Point(e, n, i) IN
          /\ p \in ToolHosts /\ p.names[n] = i /\ p.offered = e.offered
          /\ \A m \in Names : m # n => p.names[m] = e.names[m]
          /\ e.names[n] = i => p = e
<1> DEFINE p == Tool!Point(e, n, i)
<1>1. p = [images |-> e.images \union {i}, names |-> [e.names EXCEPT ![n] = i],
           offered |-> e.offered, pushed |-> e.pushed, archive |-> e.archive]
  <2>1. PICK im, na, of, pu, ar : e = [images |-> im, names |-> na, offered |-> of,
                                       pushed |-> pu, archive |-> ar]
    BY ToolEngine
  <2> DEFINE f == [e EXCEPT !.names[n] = i]
             g == [images |-> im, names |-> [na EXCEPT ![n] = i], offered |-> of,
                   pushed |-> pu, archive |-> ar]
  <2>2. f = g
    BY <2>1
  <2>3. p = [f EXCEPT !.images = im \union {i}]
    BY <2>1, <2>2 DEF Tool!Point
  <2>4. [g EXCEPT !.images = im \union {i}] =
           [images |-> im \union {i}, names |-> [na EXCEPT ![n] = i], offered |-> of,
            pushed |-> pu, archive |-> ar]
    OBVIOUS
  <2>5. im = e.images /\ na = e.names /\ of = e.offered /\ pu = e.pushed /\ ar = e.archive
    BY <2>1
  <2>6. p = [images |-> im \union {i}, names |-> [na EXCEPT ![n] = i], offered |-> of,
             pushed |-> pu, archive |-> ar]
    <3> HIDE DEF f, g, p
    <3> QED
      BY <2>2, <2>3, <2>4
  <2> HIDE DEF p
  <2> QED
    BY <2>5, <2>6
<1>2. /\ e.images \union {i} \in SUBSET (1 .. 2) /\ [e.names EXCEPT ![n] = i] \in [Names -> 0 .. 2]
      /\ \A m \in Names : [e.names EXCEPT ![n] = i][m] = IF m = n THEN i ELSE e.names[m]
  BY ToolEngine
<1>3. p \in ToolHosts
  BY <1>1, <1>2, ToolEngine, ToolMade
<1>4. e.names[n] = i => p = e
  <2>1. ASSUME e.names[n] = i PROVE p = e
    <3>1. e.images \union {i} = e.images
      BY <2>1, ToolEngine
    <3>2. [e.names EXCEPT ![n] = i] = e.names
      BY <2>1, ToolEngine
    <3> QED
      BY <1>1, <3>1, <3>2, ToolEngine
  <2> QED
    BY <2>1
<1> QED
  BY <1>1, <1>2, <1>3, <1>4

LEMMA ToolUntags ==
    ASSUME NEW e \in ToolHosts, NEW n \in Names
    PROVE Tool!Untag(e, n) \in ToolHosts /\ Tool!Untag(e, n).names[n] = 0
<1> DEFINE i == e.names[n]
           images == IF Tool!Named(e, i) = {n} THEN e.images \ {i} ELSE e.images
           names == [e.names EXCEPT ![n] = 0]
<1>1. Tool!Untag(e, n) = [images |-> images, names |-> names, offered |-> e.offered,
                          pushed |-> e.pushed, archive |-> e.archive]
  <2>1. PICK im, na, of, pu, ar : e = [images |-> im, names |-> na, offered |-> of,
                                       pushed |-> pu, archive |-> ar]
    BY ToolEngine
  <2> DEFINE f == [e EXCEPT !.names[n] = 0]
             g == [images |-> im, names |-> [na EXCEPT ![n] = 0], offered |-> of,
                   pushed |-> pu, archive |-> ar]
  <2>2. f = g
    BY <2>1
  <2>3. Tool!Untag(e, n) = [f EXCEPT !.images = images]
    BY <2>1, <2>2 DEF Tool!Untag
  <2> HIDE DEF images
  <2>4. [g EXCEPT !.images = images] =
           [images |-> images, names |-> [na EXCEPT ![n] = 0], offered |-> of,
            pushed |-> pu, archive |-> ar]
    OBVIOUS
  <2>5. im = e.images /\ na = e.names /\ of = e.offered /\ pu = e.pushed /\ ar = e.archive
    BY <2>1
  <2>6. Tool!Untag(e, n) = [images |-> images, names |-> [na EXCEPT ![n] = 0], offered |-> of,
             pushed |-> pu, archive |-> ar]
    <3> HIDE DEF f, g
    <3> QED
      BY <2>2, <2>3, <2>4
  <2> QED
    BY <2>5, <2>6
<1>2. images \in SUBSET (1 .. 2) /\ names \in [Names -> 0 .. 2]
      /\ \A m \in Names : names[m] = IF m = n THEN 0 ELSE e.names[m]
  BY ToolEngine
<1>3. \A m \in Names : names[m] \in images \union {0}
  <2>1. SUFFICES ASSUME NEW m \in Names, m # n PROVE e.names[m] \in images \union {0}
    BY <1>2
  <2>2. Tool!Named(e, i) = {n} => e.names[m] # i
    BY <2>1 DEF Tool!Named
  <2> QED
    BY <2>2, ToolEngine
<1> HIDE DEF images, names
<1>4. Tool!Untag(e, n) \in ToolHosts
  BY <1>1, <1>2, <1>3, ToolEngine, ToolMade
<1> QED
  BY <1>1, <1>2, <1>4

LEMMA ToolDeletes ==
    ASSUME NEW e \in ToolHosts, NEW i \in 1 .. 2
    PROVE Tool!Delete(e, i) \in ToolHosts /\ i \notin Tool!Delete(e, i).images
<1> DEFINE names == [n \in Names |-> IF e.names[n] = i THEN 0 ELSE e.names[n]]
<1>1. Tool!Delete(e, i) = [images |-> e.images \ {i}, names |-> names, offered |-> e.offered,
                           pushed |-> e.pushed, archive |-> e.archive]
  <2>1. PICK im, na, of, pu, ar : e = [images |-> im, names |-> na, offered |-> of,
                                       pushed |-> pu, archive |-> ar]
    BY ToolEngine
  <2> DEFINE f == [e EXCEPT !.names = names]
             g == [images |-> im, names |-> names, offered |-> of, pushed |-> pu, archive |-> ar]
  <2>3. Tool!Delete(e, i) = [f EXCEPT !.images = im \ {i}]
    BY <2>1 DEF Tool!Delete
  <2> HIDE DEF names
  <2>2. f = g
    BY <2>1
  <2>4. [g EXCEPT !.images = im \ {i}] =
           [images |-> im \ {i}, names |-> names, offered |-> of, pushed |-> pu, archive |-> ar]
    OBVIOUS
  <2>5. im = e.images /\ na = e.names /\ of = e.offered /\ pu = e.pushed /\ ar = e.archive
    BY <2>1
  <2>6. Tool!Delete(e, i) = [images |-> im \ {i}, names |-> names, offered |-> of,
             pushed |-> pu, archive |-> ar]
    <3> HIDE DEF f, g
    <3> QED
      BY <2>2, <2>3, <2>4
  <2> QED
    BY <2>5, <2>6
<1>2. names \in [Names -> 0 .. 2] /\ \A n \in Names : names[n] \in (e.images \ {i}) \union {0}
  BY ToolEngine
<1> HIDE DEF names
<1>3. e.images \ {i} \in SUBSET (1 .. 2)
  BY ToolEngine
<1>4. Tool!Delete(e, i) \in ToolHosts
  BY <1>1, <1>2, <1>3, ToolEngine, ToolMade
<1> QED
  BY <1>1, <1>4

(* What an archive of some names holds.                                    *)
LEMMA ToolContents ==
    ASSUME NEW names \in [Names -> 0 .. 2], NEW N \in SUBSET Names,
           \A n \in N : names[n] # 0
    PROVE LET content == Tool!Content(names, N) IN
          /\ content \in Tool!Contents /\ ToolOnce(content)
          /\ \A n \in N : names[n] \in DOMAIN content /\ n \in content[names[n]]
          /\ content = Tool!Content([n \in N |-> names[n]], N)
          /\ (\A n \in N, m \in N : n # m => names[n] # names[m]) =>
                \A i \in DOMAIN content : \E n \in Names : content[i] = {n}
<1> DEFINE I == {names[n] : n \in N}
           content == Tool!Content(names, N)
<1>1. content = [i \in I |-> {n \in N : names[n] = i}] /\ I \in SUBSET (1 .. 2)
  BY DEF Tool!Content
<1>2. /\ DOMAIN content = I
      /\ \A i \in I : content[i] = {n \in N : names[n] = i}
  BY <1>1
<1>3. content \in [I -> (SUBSET Names) \ {{}}]
  <2>1. ASSUME NEW i \in I PROVE {n \in N : names[n] = i} \in (SUBSET Names) \ {{}}
    <3>1. PICK m \in N : i = names[m]
      OBVIOUS
    <3> DEFINE S == {n \in N : names[n] = i}
    <3>2. m \in S /\ S \subseteq Names
      BY <3>1
    <3> HIDE DEF S
    <3>3. S \in (SUBSET Names) \ {{}}
      BY <3>2
    <3> QED
      BY <3>3 DEF S
  <2> HIDE DEF I
  <2> QED
    BY <1>1, <2>1
<1>4. content \in Tool!Contents
  <2>1. [I -> (SUBSET Names) \ {{}}] \in {[J -> (SUBSET Names) \ {{}}] : J \in SUBSET Tool!Ids}
    BY <1>1 DEF Tool!Ids
  <2> QED
    BY <1>3, <2>1 DEF Tool!Contents
<1>5. ToolOnce(content)
  BY <1>2 DEF ToolOnce
<1>6. \A n \in N : names[n] \in DOMAIN content /\ n \in content[names[n]]
  BY <1>2
<1>7. content = Tool!Content([n \in N |-> names[n]], N)
  <2> DEFINE f == [n \in N |-> names[n]]
  <2>1. \A n \in N : f[n] = names[n]
    OBVIOUS
  <2>2. {f[n] : n \in N} = I /\ \A i : {n \in N : f[n] = i} = {n \in N : names[n] = i}
    BY <2>1
  <2> HIDE DEF f
  <2>3. Tool!Content(f, N) = [i \in I |-> {n \in N : names[n] = i}]
    BY <2>2 DEF Tool!Content
  <2> QED
    BY <1>1, <2>3 DEF f
<1>8. ASSUME \A n \in N, m \in N : n # m => names[n] # names[m], NEW i \in DOMAIN content
      PROVE \E n \in Names : content[i] = {n}
  <2>1. PICK n \in N : i = names[n]
    BY <1>2, <1>8
  <2>2. content[i] = {n}
    BY <1>2, <1>8, <2>1
  <2> QED
    BY <2>1, <2>2
<1> QED
  BY <1>4, <1>5, <1>6, <1>7, <1>8

(* An archive is loaded: its names stand for its images then.              *)
LEMMA ToolLoads ==
    ASSUME NEW e \in ToolHosts, e.archive # Broken
    PROVE LET ar == e.archive
              a == [e EXCEPT !.images = @ \union DOMAIN ar,
                      !.names = [n \in Names |-> IF \E i \in DOMAIN ar : n \in ar[i]
                                                 THEN CHOOSE i \in DOMAIN ar : n \in ar[i] ELSE @[n]]]
          IN  /\ a \in ToolHosts /\ a.archive = ar
              /\ \A i \in DOMAIN ar : \A n \in ar[i] : a.names[n] = i
<1> DEFINE ar == e.archive
           loaded(n) == \E i \in DOMAIN ar : n \in ar[i]
           img(n) == CHOOSE i \in DOMAIN ar : n \in ar[i]
           names == [n \in Names |-> IF loaded(n) THEN img(n) ELSE e.names[n]]
           images == e.images \union DOMAIN ar
           a == [e EXCEPT !.images = @ \union DOMAIN ar,
                   !.names = [n \in Names |-> IF \E i \in DOMAIN ar : n \in ar[i]
                                              THEN CHOOSE i \in DOMAIN ar : n \in ar[i] ELSE @[n]]]
<1>1. DOMAIN ar \in SUBSET (1 .. 2) /\ \A i \in DOMAIN ar : ar[i] \in SUBSET Names
  <2>1. ar \in Tool!Contents
    BY ToolEngine
  <2>2. PICK I \in SUBSET Tool!Ids : ar \in [I -> (SUBSET Names) \ {{}}]
    BY <2>1 DEF Tool!Contents
  <2> QED
    BY <2>2 DEF Tool!Ids
<1>2. \A n \in Names : loaded(n) => img(n) \in DOMAIN ar /\ n \in ar[img(n)]
  OBVIOUS
<1>3. \A i \in DOMAIN ar : \A n \in ar[i] : loaded(n) /\ img(n) = i
  <2>1. ToolOnce(ar)
    BY ToolEngine
  <2>2. SUFFICES ASSUME NEW i \in DOMAIN ar, NEW n \in ar[i] PROVE loaded(n) /\ img(n) = i
    OBVIOUS
  <2>3. img(n) \in DOMAIN ar /\ n \in ar[img(n)]
    BY <1>1, <1>2, <2>2
  <2>4. img(n) # i => ar[img(n)] \cap ar[i] = {}
    BY <2>1, <2>2, <2>3 DEF ToolOnce
  <2> QED
    BY <2>2, <2>3, <2>4
<1>4. /\ names \in [Names -> 0 .. 2] /\ images \in SUBSET (1 .. 2)
      /\ \A n \in Names : names[n] \in images \union {0}
      /\ \A i \in DOMAIN ar : \A n \in ar[i] : names[n] = i
  <2>1. \A n \in Names : names[n] = IF loaded(n) THEN img(n) ELSE e.names[n]
    OBVIOUS
  <2>2. images \in SUBSET (1 .. 2)
    BY <1>1, ToolEngine
  <2>3. ASSUME NEW n \in Names PROVE names[n] \in images \union {0} /\ names[n] \in 0 .. 2
    <3>1. loaded(n) => img(n) \in DOMAIN ar
      BY <1>2
    <3> HIDE DEF loaded, img, names, ar
    <3>2. e.names[n] \in e.images \union {0} /\ e.names[n] \in 0 .. 2
      BY ToolEngine
    <3> QED
      BY <1>1, <2>1, <3>1, <3>2
  <2>4. names = [n \in Names |-> names[n]]
    BY <2>1
  <2>5. \A i \in DOMAIN ar : \A n \in ar[i] : names[n] = i
    <3> HIDE DEF loaded, img, names, ar
    <3> QED
      BY <1>1, <1>3, <2>1
  <2> HIDE DEF names, images
  <2> QED
    BY <2>2, <2>3, <2>4, <2>5
<1>5. a = [images |-> images, names |-> names, offered |-> e.offered, pushed |-> e.pushed,
           archive |-> ar]
  <2>1. PICK im, na, of, pu, ac : e = [images |-> im, names |-> na, offered |-> of,
                                       pushed |-> pu, archive |-> ac]
    BY ToolEngine
  <2>2. im = e.images /\ na = e.names /\ of = e.offered /\ pu = e.pushed /\ ac = ar
    BY <2>1
  <2> DEFINE f == [e EXCEPT !.images = images]
  <2>3. a = [f EXCEPT !.names = names]
    BY <2>1
  <2> HIDE DEF images, names, a, ar
  <2>4. f = [images |-> images, names |-> na, offered |-> of, pushed |-> pu, archive |-> ac]
    BY <2>1
  <2> HIDE DEF f
  <2>5. a = [images |-> images, names |-> names, offered |-> of, pushed |-> pu, archive |-> ac]
    BY <2>3, <2>4
  <2> QED
    BY <2>2, <2>5
<1> HIDE DEF images, names
<1>6. a \in ToolHosts
  BY <1>4, <1>5, ToolEngine, ToolMade
<1> QED
  BY <1>4, <1>5, <1>6

LEMMA ToolInit == Tool!Init => ToolInv /\ run.task \in ToolTasks
<1> SUFFICES ASSUME Tool!Init PROVE ToolInv /\ run.task \in ToolTasks
  OBVIOUS
<1> DEFINE H == {[images |-> Tool!Ids, names |-> names, offered |-> 1, pushed |-> 0,
                  archive |-> Broken] : names \in [Names -> Tool!Ids]}
<1>1. H \subseteq ToolHosts
  BY DEF ToolHosts, Tool!Engines, Tool!Ids
<1>2. InitRuns(H, ToolTasks) /\ InitRuns(H, ToolJobs)
  BY ToolIsARun DEF Tool!Init, InitRuns, ToolJobs
<1> HIDE DEF H
<1>3. run.task \in ToolTasks
  BY <1>2 DEF InitRuns, Rest
<1> QED
  BY <1>1, <1>2, <1>3, RunInit DEF ToolInv

(* What a run has read, and what it reads next.                            *)
LEMMA ToolRead ==
    ASSUME NEW r \in ToolReads
    PROVE /\ r.id \in 0 .. 2 /\ r.names \in SUBSET Names /\ r.next \in Nat \ {0}
          /\ r.wanted \in Tool!Requested /\ r.content \in Tool!Contents /\ ToolOnce(r.content)
          /\ r = [id |-> r.id, names |-> r.names, next |-> r.next, wanted |-> r.wanted,
                  content |-> r.content]
  BY DEF ToolReads, Tool!Snapshots, Tool!Ids

LEMMA ToolReadMade ==
    ASSUME NEW i \in 0 .. 2, NEW N \in SUBSET Names, NEW k \in Nat \ {0},
           NEW w \in Tool!Requested, NEW c \in Tool!Contents, ToolOnce(c)
    PROVE [id |-> i, names |-> N, next |-> k, wanted |-> w, content |-> c] \in ToolReads
  BY DEF ToolReads, Tool!Snapshots, Tool!Ids

(* What is known of a run of the tools and of the engine it finds.          *)
LEMMA ToolSituation ==
    ASSUME ToolInv
    PROVE /\ actual \in ToolHosts /\ run.changed \in BOOLEAN /\ run.touched \in BOOLEAN
          /\ "idle" \notin Tool!Places /\ run.task \in ToolJobs
          /\ run.at # "idle" => run.read \in ToolReads
          /\ Tool!t = run.task /\ Tool!now = run.read /\ Tool!Source = actual.names[run.task.name]
          /\ Tool!Checking <=> Checking
          /\ run.at # "idle" => ToolAlways(run.at, run.task, actual, run.read, Checking)
          /\ run.at # "idle" /\ ~run.disturbed =>
                ToolKnows(run.at, run.task, actual, run.read, run.changed, run.touched, Checking)
          /\ actual.names[run.task.name] \in 0 .. 2 /\ actual.names[run.task.name] \in actual.images \union {0}
          /\ run.task.op \in {"pull", "push", "tag", "remove", "export", "load"}
          /\ run.task.name \in Names /\ Len(run.task.targets) \in Nat /\ run.task.id \in 0 .. 2
          /\ {run.task.lazy, run.task.force, run.task.diff} \subseteq BOOLEAN
          /\ \A k \in 1 .. Len(run.task.targets) : run.task.targets[k] \in Names
          /\ actual.names \in [Names -> 0 .. 2] /\ actual.offered \in 1 .. 2
<1> DEFINE task == run.task
           r == run.read
           c0 == run.changed
           name == actual.names[task.name]
<1>1. /\ actual \in ToolHosts /\ c0 \in BOOLEAN /\ run.touched \in BOOLEAN
      /\ "idle" \notin Tool!Places /\ task \in ToolJobs
      /\ run.at # "idle" => r \in ToolReads
      /\ Tool!t = task /\ Tool!now = r /\ Tool!Source = name
      /\ Tool!Checking <=> Checking
  BY ToolGiven DEF Tool!t, Tool!now, Tool!Source, Tool!Checking, Checking
<1>2. run.at # "idle" => ToolAlways(run.at, task, actual, r, Checking)
  BY DEF ToolInv
<1>3. run.at # "idle" /\ ~run.disturbed =>
         ToolKnows(run.at, task, actual, r, c0, run.touched, Checking)
  BY ToolRuns DEF ToolFine
<1>4. /\ name \in 0 .. 2 /\ name \in actual.images \union {0}
      /\ task.op \in {"pull", "push", "tag", "remove", "export", "load"}
      /\ task.name \in Names /\ Len(task.targets) \in Nat /\ task.id \in 0 .. 2
      /\ {task.lazy, task.force, task.diff} \subseteq BOOLEAN
      /\ \A k \in 1 .. Len(task.targets) : task.targets[k] \in Names
      /\ actual.names \in [Names -> 0 .. 2] /\ actual.offered \in 1 .. 2
  BY <1>1, ToolAsks, ToolEngine
<1> QED
  BY <1>1, <1>2, <1>3, <1>4

(* A run that stops leaves what it has done.                                *)
LEMMA ToolGaveUp ==
    ASSUME ToolInv, NEW reply \in {"failed", "refused", "killed"}, run.at # "idle", Stops(reply)
    PROVE ToolInv' /\ ToolRespects
<1> DEFINE task == run.task
           r == run.read
           c0 == run.changed
           name == actual.names[task.name]
<1>1. /\ actual \in ToolHosts /\ c0 \in BOOLEAN /\ run.touched \in BOOLEAN
      /\ "idle" \notin Tool!Places /\ task \in ToolJobs
      /\ run.at # "idle" => r \in ToolReads
      /\ Tool!t = task /\ Tool!now = r /\ Tool!Source = name
      /\ Tool!Checking <=> Checking
  BY ToolSituation
<1>2. ToolMore
  BY <1>1, RunStops DEF ToolMore, Tool!OneImage, Tool!At, ToolInv, Replies
<1> QED
  BY <1>2, ToolStops

LEMMA ToolRefused ==
    ASSUME ToolInv, run.at # "idle", Tool!Refuse
    PROVE ToolInv' /\ ToolRespects
<1> QED
  BY ToolGaveUp, ToolIsARun

LEMMA ToolKeepsOne ==
    ASSUME ToolInv, NEW place \in Tool!Places, NEW a, NEW known, NEW c, Step(place, a, known, c),
           run.at # "idle", run.at # "retag" \/ place # "target"
    PROVE ToolMore
<1>1. run'.task = run.task /\ run'.at = place
  BY DEF Step, ToolInv, RunTyped, RunStates
<1> QED
  BY <1>1 DEF ToolMore, Tool!OneImage, Tool!At

(* The run goes on and the engine is as it was; it ends.                   *)
LEMMA ToolWent ==
    ASSUME ToolInv, NEW place \in Tool!Places, NEW known \in ToolReads, NEW c \in BOOLEAN,
           Step(place, actual, known, c), run.at # "idle", run.at # "retag" \/ place # "target",
           ToolAlways(place, run.task, actual, known, Checking),
           ~run.disturbed =>
             /\ ToolKnows(place, run.task, actual, known, c, run.touched, Checking)
             /\ ToolForetells(run.task) \/ ~Checking =>
                  (ToolWill(place, run.task, actual, known, c) <=>
                     ToolWill(run.at, run.task, actual, run.read, run.changed))
             /\ ToolSettles(run.task, actual, Checking) =>
                  (ToolWill(place, run.task, actual, known, c) <=>
                     ToolWill(run.at, run.task, actual, run.read, run.changed))
    PROVE ToolInv' /\ ToolRespects
<1> DEFINE task == run.task
           r == run.read
           c0 == run.changed
<1>1. ToolMore
  BY ToolKeepsOne
<1>2. ~run.disturbed /\ ToolForetells(task) =>
        (ToolWill(place, task, actual, known, c) <=> ToolWill(run.at, task, actual, r, c0))
  OBVIOUS
<1> QED
  BY <1>1, <1>2, ToolGoes

LEMMA ToolAnswered ==
    ASSUME ToolInv, NEW c \in BOOLEAN, Answer(c), run.at # "idle",
           ~run.disturbed =>
             /\ c <=> ToolWill(run.at, run.task, actual, run.read, run.changed)
             /\ IF c THEN ~Checking => Tool!Satisfied(run.task, actual)
                     ELSE Tool!Satisfied(run.task, actual) /\ ~run.touched
             /\ ~Checking /\ ToolSettles(run.task, actual, FALSE) => ~ToolChange(run.task, actual)
    PROVE ToolInv' /\ ToolRespects
<1>1. run'.task = run.task /\ run'.at = "idle"
  BY DEF Answer, Ends, ToolInv, RunTyped, RunStates
<1>2. ToolMore
  BY <1>1 DEF ToolMore, Tool!OneImage, Tool!At
<1> QED
  BY <1>2, ToolAnswers

(* What a run reads of a name, and its count of the targets.               *)
LEMMA ToolReadOn ==
    ASSUME ToolInv, run.at # "idle"
     PROVE /\ LET s == [run.read EXCEPT !.id = actual.names[run.task.name]] IN
              s \in ToolReads /\ s.id = actual.names[run.task.name] /\ s.next = run.read.next
           /\ LET s == [run.read EXCEPT !.next = @ + 1] IN
              s \in ToolReads /\ s.id = run.read.id /\ s.next = run.read.next + 1
           /\ run.read.next \in Nat \ {0} /\ run.read.id \in 0 .. 2
<1> DEFINE task == run.task
           r == run.read
           c0 == run.changed
           name == actual.names[task.name]
<1>1. /\ actual \in ToolHosts /\ c0 \in BOOLEAN /\ run.touched \in BOOLEAN
      /\ "idle" \notin Tool!Places /\ task \in ToolJobs
      /\ run.at # "idle" => r \in ToolReads
      /\ Tool!t = task /\ Tool!now = r /\ Tool!Source = name
      /\ Tool!Checking <=> Checking
  BY ToolSituation
<1>4. /\ name \in 0 .. 2 /\ name \in actual.images \union {0}
      /\ task.op \in {"pull", "push", "tag", "remove", "export", "load"}
      /\ task.name \in Names /\ Len(task.targets) \in Nat /\ task.id \in 0 .. 2
      /\ {task.lazy, task.force, task.diff} \subseteq BOOLEAN
      /\ \A k \in 1 .. Len(task.targets) : task.targets[k] \in Names
      /\ actual.names \in [Names -> 0 .. 2] /\ actual.offered \in 1 .. 2
  BY ToolSituation
<1>5. PICK i0 \in 0 .. 2, N0 \in SUBSET Names, k0 \in Nat \ {0}, w0 \in Tool!Requested,
           d0 \in Tool!Contents :
        /\ r = [id |-> i0, names |-> N0, next |-> k0, wanted |-> w0, content |-> d0]
        /\ ToolOnce(d0)
  BY <1>1, ToolRead
<1>6. [r EXCEPT !.id = name] =
         [id |-> name, names |-> N0, next |-> k0, wanted |-> w0, content |-> d0]
  BY <1>5
<1>7. /\ [r EXCEPT !.next = @ + 1] =
            [id |-> i0, names |-> N0, next |-> k0 + 1, wanted |-> w0, content |-> d0]
      /\ r.next = k0 /\ r.id = i0 /\ k0 + 1 \in Nat \ {0}
  BY <1>5
<1>8. /\ [id |-> name, names |-> N0, next |-> k0, wanted |-> w0, content |-> d0] \in ToolReads
      /\ [id |-> i0, names |-> N0, next |-> k0 + 1, wanted |-> w0, content |-> d0] \in ToolReads
  BY <1>4, <1>5, <1>7, ToolReadMade
<1> QED
  BY <1>5, <1>6, <1>7, <1>8

LEMMA ToolPulls ==
    ASSUME ToolInv, Tool!InspectForPull \/ Tool!Pull \/ Tool!Pulled
    PROVE ToolInv' /\ ToolRespects
<1> DEFINE task == run.task
           r == run.read
           c0 == run.changed
           name == actual.names[task.name]
<1>1. /\ actual \in ToolHosts /\ c0 \in BOOLEAN /\ run.touched \in BOOLEAN
      /\ "idle" \notin Tool!Places /\ task \in ToolJobs
      /\ run.at # "idle" => r \in ToolReads
      /\ Tool!t = task /\ Tool!now = r /\ Tool!Source = name
      /\ Tool!Checking <=> Checking
  BY ToolSituation
<1>2. run.at # "idle" => ToolAlways(run.at, task, actual, r, Checking)
  BY ToolSituation
<1>3. run.at # "idle" /\ ~run.disturbed =>
         ToolKnows(run.at, task, actual, r, c0, run.touched, Checking)
  BY ToolSituation
<1>4. /\ name \in 0 .. 2 /\ name \in actual.images \union {0}
      /\ task.op \in {"pull", "push", "tag", "remove", "export", "load"}
      /\ task.name \in Names /\ Len(task.targets) \in Nat /\ task.id \in 0 .. 2
      /\ {task.lazy, task.force, task.diff} \subseteq BOOLEAN
      /\ \A k \in 1 .. Len(task.targets) : task.targets[k] \in Names
      /\ actual.names \in [Names -> 0 .. 2] /\ actual.offered \in 1 .. 2
  BY ToolSituation
<1>10. CASE Tool!InspectForPull
  <2>0. PICK i \in 0 .. 2, N \in SUBSET Names : i = name /\ N = Tool!Named(actual, name)
    BY <1>4 DEF Tool!Named
  <2> DEFINE known == [r EXCEPT !.id = i, !.names = N]
  <2>1. /\ run.at = "inspect" /\ task.op = "pull"
        /\ \/ Answer(FALSE) /\ name # 0 /\ task.lazy
           \/ Step("answer", actual, r, TRUE) /\ (name = 0 \/ ~task.lazy) /\ Checking
           \/ Step("pull", actual, known, c0) /\ (name = 0 \/ ~task.lazy) /\ ~Checking
    BY <1>4, <1>10, <2>0, ToolIsARun
       DEF Tool!InspectForPull, Tool!At, Tool!t, Tool!now, Tool!Source, Tool!Checking, Checking
  <2>2. ~run.disturbed => ~c0 /\ ~run.touched
    BY <1>3, <2>1 DEF ToolKnows
  <2>3. CASE Answer(FALSE) /\ name # 0 /\ task.lazy
    <3>1. Tool!Satisfied(task, actual) /\ ~ToolChange(task, actual)
      BY <1>4, <2>1, <2>3 DEF Tool!Satisfied, Tool!Ids, ToolChange
    <3>2. ToolWill("inspect", task, actual, r, c0) <=> ToolChange(task, actual)
      BY DEF ToolWill
    <3> QED
      BY ToolAnswered, <2>1, <2>2, <2>3, <3>1, <3>2
  <2>4. CASE Step("answer", actual, r, TRUE) /\ (name = 0 \/ ~task.lazy) /\ Checking
    <3>1. ToolAlways("answer", task, actual, r, Checking)
      BY <1>2, <2>1 DEF ToolAlways
    <3>2. ~run.disturbed =>
            /\ ToolKnows("answer", task, actual, r, TRUE, run.touched, Checking)
            /\ ToolForetells(task) =>
                 (ToolWill("answer", task, actual, r, TRUE) <=> ToolWill("inspect", task, actual, r, c0))
            /\ ~ToolSettles(task, actual, Checking) \/ task.lazy
      BY <2>1, <2>2, <2>4 DEF ToolKnows, ToolWill, ToolChange, ToolForetells, ToolSettles
    <3> QED
      BY Zenon, <1>1, ToolWent, <2>1, <2>4, <3>1, <3>2 DEF Tool!Places, ToolForetells
  <2>5. CASE Step("pull", actual, known, c0) /\ (name = 0 \/ ~task.lazy) /\ ~Checking
    <3>1. /\ known \in ToolReads /\ known.id = name /\ known.next = r.next
          /\ known.names = Tool!Named(actual, name)
      <4>1. r \in ToolReads
        BY <1>1, <2>1
      <4>2. PICK i0 \in 0 .. 2, N0 \in SUBSET Names, k0 \in Nat \ {0}, w0 \in Tool!Requested,
                 d0 \in Tool!Contents :
              /\ r = [id |-> i0, names |-> N0, next |-> k0, wanted |-> w0, content |-> d0]
              /\ ToolOnce(d0)
        BY <4>1, ToolRead
      <4> DEFINE q == [r EXCEPT !.id = i]
      <4>3. q = [id |-> i, names |-> N0, next |-> k0, wanted |-> w0, content |-> d0]
        BY <4>2
      <4>4. known = [q EXCEPT !.names = N]
        OBVIOUS
      <4> HIDE DEF q, known
      <4>5. known = [id |-> i, names |-> N, next |-> k0, wanted |-> w0, content |-> d0]
        BY <4>3, <4>4
      <4>6. known \in ToolReads
        BY <4>2, <4>5, ToolReadMade
      <4> QED
        BY <2>0, <4>2, <4>5, <4>6
    <3> HIDE DEF known
    <3>2. ToolAlways("pull", task, actual, known, Checking)
      BY <1>2, <2>1, <2>5, <3>1 DEF ToolAlways
    <3>3. ~run.disturbed =>
            /\ ToolKnows("pull", task, actual, known, c0, run.touched, Checking)
            /\ ToolWill("pull", task, actual, known, c0) <=> ToolWill("inspect", task, actual, r, c0)
      BY <1>4, <2>1, <2>2, <2>5, <3>1 DEF ToolKnows, ToolWill, ToolChange
    <3> QED
      BY Zenon, <1>1, ToolWent, <2>1, <2>5, <3>1, <3>2, <3>3 DEF Tool!Places
  <2> QED
    BY <2>1, <2>3, <2>4, <2>5
<1>11. CASE Tool!Pull
  <2> DEFINE a == Tool!Point(actual, task.name, actual.offered)
  <2>1. /\ run.at = "pull" /\ task.op = "pull" /\ ~Checking /\ Step("pulled", a, r, c0)
    BY <1>1, <1>2, <1>11, ToolIsARun DEF Tool!Pull, Tool!At, ToolAlways
  <2>2. /\ a \in ToolHosts /\ a.names[task.name] = actual.offered /\ a.offered = actual.offered
        /\ name = actual.offered => a = actual
    BY <1>1, <1>4, ToolPoints
  <2> HIDE DEF a
  <2>3. ~run.disturbed =>
          /\ r.id = name /\ r.names = Tool!Named(actual, name) /\ ~c0 /\ ~run.touched
          /\ task.lazy => name = 0
    BY <1>3, <2>1 DEF ToolKnows
  <2>4. ~run.disturbed =>
          /\ ToolKnows("pulled", task, a, r, c0, run.touched \/ a # actual, Checking)
          /\ ToolWill("pulled", task, a, r, c0) <=> ToolWill("pull", task, actual, r, c0)
          /\ a # actual => ToolWill("pull", task, actual, r, c0)
    BY <1>4, <2>1, <2>2, <2>3 DEF ToolKnows, ToolWill
  <2>5. /\ ToolAlways("pulled", task, a, r, Checking) /\ "pulled" \in Tool!Places
        /\ ToolSettles(task, a, Checking) => ToolSettles(task, actual, Checking)
    BY <1>2, <2>1 DEF ToolAlways, Tool!Places, ToolSettles
  <2>6. ToolMore
    BY ToolKeepsOne, <2>1, <2>5
  <2> QED
    BY <1>1, <2>1, <2>2, <2>4, <2>5, <2>6, ToolStep
<1>12. CASE Tool!Pulled
  <2> DEFINE c == r.id # name \/ r.names # Tool!Named(actual, name)
  <2>1. run.at = "pulled" /\ task.op = "pull" /\ (Tool!Refuse \/ Answer(c))
    BY <1>2, <1>12, ToolIsARun
       DEF Tool!Pulled, Tool!At, Tool!t, Tool!now, Tool!Source, ToolAlways
  <2>2. c <=> ToolWill("pulled", task, actual, r, c0)
    BY DEF ToolWill
  <2>3. ~run.disturbed =>
          /\ name = actual.offered /\ (run.touched => r.id # name)
    BY <1>3, <2>1 DEF ToolKnows
  <2>4. ~run.disturbed =>
          /\ Tool!Satisfied(task, actual) /\ ~ToolChange(task, actual) /\ (run.touched => c)
    BY <1>4, <2>1, <2>3 DEF Tool!Satisfied, Tool!Ids, ToolChange
  <2>5. c \in BOOLEAN
    OBVIOUS
  <2> HIDE DEF c
  <2> QED
    BY ToolRefused, ToolAnswered, <2>1, <2>2, <2>4, <2>5
<1> QED
  BY <1>10, <1>11, <1>12

LEMMA ToolPushes ==
    ASSUME ToolInv, Tool!InspectForPush \/ Tool!Push
    PROVE ToolInv' /\ ToolRespects
<1> DEFINE task == run.task
           r == run.read
           c0 == run.changed
           name == actual.names[task.name]
<1>1. /\ actual \in ToolHosts /\ c0 \in BOOLEAN /\ run.touched \in BOOLEAN
      /\ "idle" \notin Tool!Places /\ task \in ToolJobs
      /\ run.at # "idle" => r \in ToolReads
      /\ Tool!t = task /\ Tool!now = r /\ Tool!Source = name
      /\ Tool!Checking <=> Checking
  BY ToolSituation
<1>2. run.at # "idle" => ToolAlways(run.at, task, actual, r, Checking)
  BY ToolSituation
<1>3. run.at # "idle" /\ ~run.disturbed =>
         ToolKnows(run.at, task, actual, r, c0, run.touched, Checking)
  BY ToolSituation
<1>4. /\ name \in 0 .. 2 /\ name \in actual.images \union {0}
      /\ task.op \in {"pull", "push", "tag", "remove", "export", "load"}
      /\ task.name \in Names /\ Len(task.targets) \in Nat /\ task.id \in 0 .. 2
      /\ {task.lazy, task.force, task.diff} \subseteq BOOLEAN
      /\ \A k \in 1 .. Len(task.targets) : task.targets[k] \in Names
      /\ actual.names \in [Names -> 0 .. 2] /\ actual.offered \in 1 .. 2
  BY ToolSituation
<1>13. CASE Tool!InspectForPush
  <2>1. /\ run.at = "inspect" /\ task.op = "push" /\ ~Checking
        /\ Tool!Refuse \/ (Step("push", actual, r, c0) /\ name # 0)
    BY <1>1, <1>2, <1>13, ToolIsARun DEF Tool!InspectForPush, Tool!At, ToolAlways
  <2>2. CASE Step("push", actual, r, c0) /\ name # 0
    <3>1. /\ ToolAlways("push", task, actual, r, Checking)
          /\ ToolWill("push", task, actual, r, c0) <=> ToolWill("inspect", task, actual, r, c0)
          /\ ~run.disturbed => ToolKnows("push", task, actual, r, c0, run.touched, Checking)
      BY <1>2, <1>3, <2>1, <2>2 DEF ToolAlways, ToolKnows, ToolWill, ToolChange
    <3> QED
      BY Zenon, <1>1, ToolWent, <2>1, <2>2, <3>1 DEF Tool!Places
  <2> QED
    BY ToolRefused, <2>1, <2>2
<1>14. CASE Tool!Push
  <2> DEFINE a == [actual EXCEPT !.pushed = name]
             c == actual.pushed # name
  <2>1. /\ run.at = "push" /\ task.op = "push" /\ ~Checking
        /\ Tool!Refuse \/ (Step("answer", a, r, c) /\ name # 0)
    BY <1>1, <1>2, <1>14, ToolIsARun DEF Tool!Push, Tool!At, ToolAlways
  <2>2. /\ a \in ToolHosts /\ a.pushed = name /\ a.names = actual.names
        /\ actual.pushed = name => a = actual
    BY <1>1, <1>4, ToolEngine DEF ToolHosts, Tool!Engines, Tool!Ids
  <2>3. c \in BOOLEAN /\ (c <=> actual.pushed # name)
    OBVIOUS
  <2> HIDE DEF a, c
  <2>4. CASE Step("answer", a, r, c) /\ name # 0
    <3>1. ~run.disturbed => ~run.touched /\ ~c0
      BY <1>3, <2>1 DEF ToolKnows
    <3>2. ~run.disturbed =>
            /\ ToolKnows("answer", task, a, r, c, run.touched \/ a # actual, Checking)
            /\ ToolWill("answer", task, a, r, c) <=> ToolWill("push", task, actual, r, c0)
            /\ a # actual => ToolWill("push", task, actual, r, c0)
      BY <2>1, <2>2, <2>3, <2>4, <3>1
         DEF ToolKnows, ToolWill, Tool!Satisfied, ToolChange
    <3>3. /\ ToolAlways("answer", task, a, r, Checking) /\ "answer" \in Tool!Places
          /\ ToolSettles(task, a, Checking) => ToolSettles(task, actual, Checking)
      BY <1>2, <2>1 DEF ToolAlways, Tool!Places, ToolSettles
    <3>4. ToolMore
      BY ToolKeepsOne, <2>1, <2>4, <3>3
    <3> QED
      BY <1>1, <2>1, <2>2, <2>3, <2>4, <3>2, <3>3, <3>4, ToolStep
  <2> QED
    BY ToolRefused, <2>1, <2>4
(* The images a task names get the tag one after the other.                *)
<1> QED
  BY <1>13, <1>14

LEMMA ToolTagging ==
    ASSUME ToolInv, Tool!InspectForTag \/ Tool!Target
    PROVE ToolInv' /\ ToolRespects
<1> DEFINE task == run.task
           r == run.read
           c0 == run.changed
           name == actual.names[task.name]
<1>1. /\ actual \in ToolHosts /\ c0 \in BOOLEAN /\ run.touched \in BOOLEAN
      /\ "idle" \notin Tool!Places /\ task \in ToolJobs
      /\ run.at # "idle" => r \in ToolReads
      /\ Tool!t = task /\ Tool!now = r /\ Tool!Source = name
      /\ Tool!Checking <=> Checking
  BY ToolSituation
<1>2. run.at # "idle" => ToolAlways(run.at, task, actual, r, Checking)
  BY ToolSituation
<1>3. run.at # "idle" /\ ~run.disturbed =>
         ToolKnows(run.at, task, actual, r, c0, run.touched, Checking)
  BY ToolSituation
<1>4. /\ name \in 0 .. 2 /\ name \in actual.images \union {0}
      /\ task.op \in {"pull", "push", "tag", "remove", "export", "load"}
      /\ task.name \in Names /\ Len(task.targets) \in Nat /\ task.id \in 0 .. 2
      /\ {task.lazy, task.force, task.diff} \subseteq BOOLEAN
      /\ \A k \in 1 .. Len(task.targets) : task.targets[k] \in Names
      /\ actual.names \in [Names -> 0 .. 2] /\ actual.offered \in 1 .. 2
  BY ToolSituation
<1>16. CASE Tool!InspectForTag
  <2> DEFINE known == [r EXCEPT !.id = name]
  <2>1. /\ run.at = "inspect" /\ task.op = "tag"
        /\ Tool!Refuse \/ (Step("target", actual, known, c0) /\ name # 0)
    BY <1>16, ToolIsARun DEF Tool!InspectForTag, Tool!At, Tool!t, Tool!now, Tool!Source
  <2>2. known \in ToolReads /\ known.id = name /\ known.next = r.next
    BY ToolReadOn, <2>1
  <2>3. r.next = 1 /\ (~run.disturbed => ~c0 /\ ~run.touched)
    BY <1>2, <1>3, <2>1 DEF ToolAlways, ToolKnows
  <2> HIDE DEF known
  <2>4. CASE Step("target", actual, known, c0) /\ name # 0
    <3>1. ToolAlways("target", task, actual, known, Checking)
      BY <1>2, <1>4, <2>1, <2>2, <2>4 DEF ToolAlways, Tool!Ids
    <3>2. ~run.disturbed =>
             /\ ToolKnows("target", task, actual, known, c0, run.touched, Checking)
             /\ ToolWill("target", task, actual, known, c0) <=> ToolWill("inspect", task, actual, r, c0)
      BY <1>4, <2>1, <2>2, <2>3 DEF ToolKnows, ToolWill, ToolChange
    <3> QED
      BY Zenon, <1>1, ToolWent, <2>1, <2>2, <2>4, <3>1, <3>2 DEF Tool!Places
  <2> QED
    BY ToolRefused, <2>1, <2>4
<1>17. CASE Tool!Target
  <2> DEFINE k == r.next
             n == task.targets[k]
             there == actual.names[n]
             known == [r EXCEPT !.next = @ + 1]
             skip == there = r.id \/ (there # 0 /\ task.lazy)
  <2>1. /\ run.at = "target" /\ ~(r.next > Len(task.targets)) /\ task.op = "tag"
        /\ r.id \in Tool!Ids
        /\ \/ Step("target", actual, known, c0) /\ skip
           \/ Step("target", actual, known, TRUE) /\ ~skip /\ Checking
           \/ Step("retag", actual, r, c0) /\ ~skip /\ ~Checking
    BY <1>2, <1>17, ToolIsARun
       DEF Tool!Target, Tool!At, Tool!t, Tool!now, Tool!Done, Tool!Following, Tool!Checking,
           Checking, ToolAlways
  <2>2. known \in ToolReads /\ known.id = r.id /\ known.next = k + 1 /\ k \in Nat \ {0}
    BY ToolReadOn, <2>1
  <2>3. k \in 1 .. Len(task.targets) /\ n \in Names /\ there \in 0 .. 2
    BY <1>4, <2>1, <2>2
  <2>4. /\ skip <=> ~ToolTags(task, actual, r.id, k)
        /\ ~run.disturbed => r.id = name /\ (skip => ToolTagged(task, actual, k))
    <3>1. skip <=> ~ToolTags(task, actual, r.id, k)
      BY DEF ToolTags
    <3>2. ~run.disturbed => r.id = name
      BY <1>3, <2>1 DEF ToolKnows
    <3>3. r.id = name /\ skip => ToolTagged(task, actual, k)
      BY <2>1, <2>3 DEF ToolTagged, Tool!Ids
    <3> QED
      BY <3>1, <3>2, <3>3
  <2>5. ~run.disturbed =>
          /\ Checking => ~run.touched
          /\ run.touched => c0
          /\ ~Checking \/ ~c0 => \A j \in 1 .. Len(task.targets) : j < k => ToolTagged(task, actual, j)
    BY <1>3, <2>1 DEF ToolKnows
  <2>6. \A j \in 1 .. Len(task.targets) :
           (k <= j <=> (j = k \/ k + 1 <= j)) /\ (j < k + 1 <=> (j = k \/ j < k))
    BY <2>3
  <2> HIDE DEF known, skip, n, there
  <2>7. ToolAlways("target", task, actual, known, Checking)
    BY <1>2, <2>1, <2>2 DEF ToolAlways
  <2>8. CASE Step("target", actual, known, c0) /\ skip
    <3>1. ~run.disturbed => ToolKnows("target", task, actual, known, c0, run.touched, Checking)
      BY <2>2, <2>4, <2>5, <2>6, <2>8 DEF ToolKnows
    <3>2. ToolWill("target", task, actual, known, c0) <=> ToolWill("target", task, actual, r, c0)
      BY <2>2, <2>3, <2>4, <2>6, <2>8 DEF ToolWill
    <3> QED
      BY Zenon, <1>1, ToolWent, <2>1, <2>2, <2>7, <2>8, <3>1, <3>2 DEF Tool!Places
  <2>9. CASE Step("target", actual, known, TRUE) /\ ~skip /\ Checking
    <3>1. ~run.disturbed => ToolKnows("target", task, actual, known, TRUE, run.touched, Checking)
      BY <2>2, <2>4, <2>5, <2>9 DEF ToolKnows
    <3>2. /\ ToolWill("target", task, actual, known, TRUE)
          /\ ToolWill("target", task, actual, r, c0)
      BY <2>2, <2>3, <2>4, <2>6, <2>9 DEF ToolWill
    <3> QED
      BY Zenon, <1>1, ToolWent, <2>1, <2>2, <2>7, <2>9, <3>1, <3>2 DEF Tool!Places
  <2>10. CASE Step("retag", actual, r, c0) /\ ~skip /\ ~Checking
    <3>1. ~run.disturbed => ToolKnows("retag", task, actual, r, c0, run.touched, Checking)
      BY <2>2, <2>4, <2>5, <2>10 DEF ToolKnows
    <3>2. /\ ToolWill("retag", task, actual, r, c0)
          /\ ToolWill("target", task, actual, r, c0)
      BY <2>2, <2>3, <2>4, <2>6, <2>10 DEF ToolWill
    <3>3. ToolAlways("retag", task, actual, r, Checking)
      BY <1>2, <2>1, <2>3, <2>10 DEF ToolAlways
    <3> QED
      BY Zenon, <1>1, ToolWent, <2>1, <2>2, <2>10, <3>1, <3>2, <3>3 DEF Tool!Places
  <2> QED
    BY <2>1, <2>8, <2>9, <2>10
<1> QED
  BY <1>16, <1>17

LEMMA ToolRetags ==
    ASSUME ToolInv, Tool!Retag \/ Tool!TargetsDone
    PROVE ToolInv' /\ ToolRespects
<1> DEFINE task == run.task
           r == run.read
           c0 == run.changed
           name == actual.names[task.name]
<1>1. /\ actual \in ToolHosts /\ c0 \in BOOLEAN /\ run.touched \in BOOLEAN
      /\ "idle" \notin Tool!Places /\ task \in ToolJobs
      /\ run.at # "idle" => r \in ToolReads
      /\ Tool!t = task /\ Tool!now = r /\ Tool!Source = name
      /\ Tool!Checking <=> Checking
  BY ToolSituation
<1>2. run.at # "idle" => ToolAlways(run.at, task, actual, r, Checking)
  BY ToolSituation
<1>3. run.at # "idle" /\ ~run.disturbed =>
         ToolKnows(run.at, task, actual, r, c0, run.touched, Checking)
  BY ToolSituation
<1>4. /\ name \in 0 .. 2 /\ name \in actual.images \union {0}
      /\ task.op \in {"pull", "push", "tag", "remove", "export", "load"}
      /\ task.name \in Names /\ Len(task.targets) \in Nat /\ task.id \in 0 .. 2
      /\ {task.lazy, task.force, task.diff} \subseteq BOOLEAN
      /\ \A k \in 1 .. Len(task.targets) : task.targets[k] \in Names
      /\ actual.names \in [Names -> 0 .. 2] /\ actual.offered \in 1 .. 2
  BY ToolSituation
<1>18. CASE Tool!Retag
  <2> DEFINE k == r.next
             n == task.targets[k]
             a == Tool!Point(actual, n, r.id)
             known == [r EXCEPT !.next = @ + 1]
  <2>1. /\ run.at = "retag" /\ r.next <= Len(task.targets) /\ task.op = "tag" /\ ~Checking
        /\ r.id \in 1 .. 2
        /\ Tool!Refuse \/ Step("target", a, known, TRUE)
    BY <1>2, <1>18, ToolIsARun
       DEF Tool!Retag, Tool!At, Tool!t, Tool!now, Tool!Following, ToolAlways, Tool!Ids
  <2>2. known \in ToolReads /\ known.id = r.id /\ known.next = k + 1 /\ k \in Nat \ {0}
    BY ToolReadOn, <2>1
  <2>3. k \in 1 .. Len(task.targets) /\ n \in Names
    BY <1>4, <2>1, <2>2
  <2>4. /\ a \in ToolHosts /\ a.names[n] = r.id
        /\ \A m \in Names : m # n => a.names[m] = actual.names[m]
    <3>1. PICK m \in Names, i \in 1 .. 2 : m = n /\ i = r.id
      BY <2>1, <2>3
    <3>2. LET p == Tool!Point(actual, m, i) IN
          /\ p \in ToolHosts /\ p.names[m] = i
          /\ \A l \in Names : l # m => p.names[l] = actual.names[l]
      BY <1>1, ToolPoints
    <3> QED
      BY Zenon, <3>1, <3>2
  <2>5. ~run.disturbed =>
          /\ r.id = name
          /\ \A j \in 1 .. Len(task.targets) : j < k => ToolTagged(task, actual, j)
    BY <1>3, <2>1 DEF ToolKnows
  <2> HIDE DEF a, known
  <2>6. CASE Step("target", a, known, TRUE)
    <3>1. ToolAlways("target", task, a, known, Checking)
      BY <1>2, <2>1, <2>2 DEF ToolAlways
    <3>2. ~run.disturbed => a.names[task.name] = r.id
      BY <1>4, <2>3, <2>4, <2>5
    <3>3. ~run.disturbed => \A j \in 1 .. Len(task.targets) : j < k + 1 => ToolTagged(task, a, j)
      <4>1. SUFFICES ASSUME ~run.disturbed, NEW j \in 1 .. Len(task.targets), j < k + 1
                     PROVE ToolTagged(task, a, j)
        OBVIOUS
      <4>2. task.targets[j] \in Names /\ (j < k \/ j = k)
        BY <1>4, <2>2, <4>1
      <4>3. CASE task.targets[j] = n
        BY <2>1, <2>4, <3>2, <4>1, <4>3 DEF ToolTagged, Tool!Ids
      <4>4. CASE task.targets[j] # n
        <5>1. ToolTagged(task, actual, j) /\ a.names[task.targets[j]] = actual.names[task.targets[j]]
          BY <2>4, <2>5, <4>1, <4>2, <4>4
        <5> QED
          BY <2>5, <3>2, <4>1, <5>1 DEF ToolTagged
      <4> QED
        BY <4>3, <4>4
    <3>4. ~run.disturbed =>
            ToolKnows("target", task, a, known, TRUE, run.touched \/ a # actual, Checking)
      BY <2>1, <2>2, <3>2, <3>3 DEF ToolKnows
    <3>5. /\ ToolWill("target", task, a, known, TRUE)
          /\ ToolWill("retag", task, actual, r, c0)
          /\ ToolSettles(task, a, Checking) => ToolSettles(task, actual, Checking)
      BY <2>1 DEF ToolWill, ToolSettles
    <3>6. ToolMore
      <4>1. run'.task = run.task /\ actual' = a
        BY <2>6 DEF Step, ToolInv, RunTyped, RunStates
      <4> QED
        BY <2>4, <4>1 DEF ToolMore, Tool!OneImage, Tool!t, Tool!now
    <3> QED
      BY Zenon, <1>1, <2>1, <2>2, <2>4, <2>6, <3>1, <3>4, <3>5, <3>6, ToolStep DEF Tool!Places
  <2> QED
    BY ToolRefused, <2>1, <2>6
<1>19. CASE Tool!TargetsDone
  <2>1. /\ run.at = "target" /\ r.next > Len(task.targets) /\ task.op = "tag" /\ Answer(c0)
    BY <1>2, <1>19, ToolIsARun
       DEF Tool!TargetsDone, Tool!At, Tool!t, Tool!now, Tool!Done, ToolAlways
  <2>2. r.next \in Nat \ {0}
    BY ToolReadOn, <2>1
  <2>3. ~run.disturbed =>
          /\ r.id = name /\ (run.touched => c0)
          /\ ~Checking \/ ~c0 => \A j \in 1 .. Len(task.targets) : ToolTagged(task, actual, j)
    BY <1>3, <1>4, <2>1, <2>2 DEF ToolKnows
  <2>4. ToolWill("target", task, actual, r, c0) <=> c0
    BY <1>4, <2>1, <2>2 DEF ToolWill
  <2>5. (\A j \in 1 .. Len(task.targets) : ToolTagged(task, actual, j)) =>
           Tool!Satisfied(task, actual) /\ (~ToolChange(task, actual))
    <3>1. SUFFICES ASSUME \A j \in 1 .. Len(task.targets) : ToolTagged(task, actual, j)
                   PROVE Tool!Satisfied(task, actual) /\ ~ToolChange(task, actual)
      OBVIOUS
    <3>2. Tool!Satisfied(task, actual)
      BY <2>1, <3>1 DEF Tool!Satisfied, ToolTagged
    <3>3. \A j \in 1 .. Len(task.targets) : ~ToolTags(task, actual, name, j)
      BY <1>4, <3>1 DEF ToolTags, ToolTagged, Tool!Ids
    <3> QED
      BY <2>1, <3>2, <3>3 DEF ToolChange
  <2> QED
    BY <1>1, ToolAnswered, <2>1, <2>3, <2>4, <2>5
<1> QED
  BY <1>18, <1>19

LEMMA ToolRemoving ==
    ASSUME ToolInv, Tool!InspectForRemove \/ Tool!Drop
    PROVE ToolInv' /\ ToolRespects
<1> DEFINE task == run.task
           r == run.read
           c0 == run.changed
           name == actual.names[task.name]
<1>1. /\ actual \in ToolHosts /\ c0 \in BOOLEAN /\ run.touched \in BOOLEAN
      /\ "idle" \notin Tool!Places /\ task \in ToolJobs
      /\ run.at # "idle" => r \in ToolReads
      /\ Tool!t = task /\ Tool!now = r /\ Tool!Source = name
      /\ Tool!Checking <=> Checking
  BY ToolSituation
<1>2. run.at # "idle" => ToolAlways(run.at, task, actual, r, Checking)
  BY ToolSituation
<1>3. run.at # "idle" /\ ~run.disturbed =>
         ToolKnows(run.at, task, actual, r, c0, run.touched, Checking)
  BY ToolSituation
<1>4. /\ name \in 0 .. 2 /\ name \in actual.images \union {0}
      /\ task.op \in {"pull", "push", "tag", "remove", "export", "load"}
      /\ task.name \in Names /\ Len(task.targets) \in Nat /\ task.id \in 0 .. 2
      /\ {task.lazy, task.force, task.diff} \subseteq BOOLEAN
      /\ \A k \in 1 .. Len(task.targets) : task.targets[k] \in Names
      /\ actual.names \in [Names -> 0 .. 2] /\ actual.offered \in 1 .. 2
  BY ToolSituation
<1>20. CASE Tool!InspectForRemove
  <2> DEFINE there == IF task.id = 0 THEN name # 0 ELSE task.id \in actual.images
  <2>1. /\ run.at = "inspect" /\ task.op = "remove"
        /\ \/ Answer(FALSE) /\ ~there
           \/ Tool!Refuse
           \/ Step("answer", actual, r, TRUE) /\ there /\ Checking
           \/ Step("drop", actual, r, c0) /\ there /\ ~Checking
    BY <1>4, <1>20, ToolIsARun
       DEF Tool!InspectForRemove, Tool!At, Tool!t, Tool!now, Tool!Source, Tool!Checking, Checking
  <2>2. ~run.disturbed => ~c0 /\ ~run.touched
    BY <1>3, <2>1 DEF ToolKnows
  <2>3. /\ ToolWill("inspect", task, actual, r, c0) <=> there
        /\ ToolChange(task, actual) <=> there
        /\ Tool!Satisfied(task, actual) <=> ~there
    BY <2>1 DEF ToolWill, ToolChange, Tool!Satisfied
  <2> HIDE DEF there
  <2>4. CASE Answer(FALSE) /\ ~there
    BY ToolAnswered, <2>1, <2>2, <2>3, <2>4
  <2>5. CASE Step("answer", actual, r, TRUE) /\ there /\ Checking
    <3>1. ToolAlways("answer", task, actual, r, Checking)
      BY <1>2, <2>1 DEF ToolAlways
    <3>2. ~run.disturbed => ToolKnows("answer", task, actual, r, TRUE, run.touched, Checking)
      BY <2>2, <2>5 DEF ToolKnows
    <3>3. ToolWill("answer", task, actual, r, TRUE)
      BY DEF ToolWill
    <3> QED
      BY Zenon, <1>1, ToolWent, <2>1, <2>3, <2>5, <3>1, <3>2, <3>3 DEF Tool!Places
  <2>6. CASE Step("drop", actual, r, c0) /\ there /\ ~Checking
    <3>1. ToolAlways("drop", task, actual, r, Checking)
      BY <1>2, <2>1, <2>6 DEF ToolAlways
    <3>2. ~run.disturbed => ToolKnows("drop", task, actual, r, c0, run.touched, Checking)
      BY <2>2, <2>6 DEF ToolKnows
    <3>3. ToolWill("drop", task, actual, r, c0)
      BY DEF ToolWill
    <3> QED
      BY Zenon, <1>1, ToolWent, <2>1, <2>3, <2>6, <3>1, <3>2, <3>3 DEF Tool!Places
  <2> QED
    BY ToolRefused, <2>1, <2>4, <2>5, <2>6
<1>21. CASE Tool!Drop
  <2>1. /\ run.at = "drop" /\ task.op = "remove" /\ ~Checking
        /\ \/ Tool!Refuse
           \/ \E place \in {"inspect again", "answer"}, a \in ToolHosts :
                 /\ Step(place, a, r, TRUE)
                 /\ IF task.id = 0 THEN a.names[task.name] = 0 ELSE task.id \notin a.images
    <3> DEFINE a == IF task.id # 0 THEN Tool!Delete(actual, task.id)
                    ELSE IF name = 0 THEN actual ELSE Tool!Untag(actual, task.name)
               place == IF task.diff THEN "inspect again" ELSE "answer"
    <3>1. /\ run.at = "drop" /\ task.op = "remove" /\ ~Checking
          /\ Tool!Refuse \/ Step(place, a, r, TRUE)
      BY Zenon, <1>2, <1>21, ToolIsARun
         DEF Tool!Drop, Tool!At, Tool!t, Tool!now, Tool!Source, ToolAlways
    <3>2. /\ a \in ToolHosts
          /\ IF task.id = 0 THEN a.names[task.name] = 0 ELSE task.id \notin a.images
      <4>1. CASE task.id # 0
        <5>1. task.id \in 1 .. 2
          BY <1>4, <4>1
        <5> QED
          BY <1>1, <4>1, <5>1, ToolDeletes
      <4>2. CASE task.id = 0 /\ name = 0
        BY <1>1, <4>2
      <4>3. CASE task.id = 0 /\ name # 0
        BY <1>1, <1>4, <4>3, ToolUntags
      <4> QED
        BY <4>1, <4>2, <4>3
    <3>3. place \in {"inspect again", "answer"}
      OBVIOUS
    <3> HIDE DEF a, place
    <3> QED
      BY Zenon, <3>1, <3>2, <3>3
  <2>2. CASE \E place \in {"inspect again", "answer"}, a \in ToolHosts :
                 /\ Step(place, a, r, TRUE)
                 /\ IF task.id = 0 THEN a.names[task.name] = 0 ELSE task.id \notin a.images
    <3>1. PICK place \in {"inspect again", "answer"}, a \in ToolHosts :
                 /\ Step(place, a, r, TRUE)
                 /\ IF task.id = 0 THEN a.names[task.name] = 0 ELSE task.id \notin a.images
      BY Zenon, <2>2
    <3>2. /\ ToolAlways(place, task, a, r, Checking) /\ place \in Tool!Places
          /\ ToolSettles(task, a, Checking) => ToolSettles(task, actual, Checking)
      BY Zenon, <1>2, <2>1, <3>1 DEF ToolAlways, Tool!Places, ToolSettles
    <3>3. Tool!Satisfied(task, a) /\ ~ToolChange(task, a)
      BY Zenon, <2>1, <3>1 DEF Tool!Satisfied, ToolChange
    <3>4. ~run.disturbed =>
             ToolKnows(place, task, a, r, TRUE, run.touched \/ a # actual, Checking)
      BY Zenon, <2>1, <3>1, <3>3 DEF ToolKnows
    <3>5. /\ ToolWill(place, task, a, r, TRUE)
          /\ ToolWill("drop", task, actual, r, c0)
      BY Zenon, <3>1 DEF ToolWill
    <3>6. ToolMore
      BY Zenon, ToolKeepsOne, <2>1, <3>1, <3>2
    <3> QED
      BY Zenon, <1>1, <2>1, <3>1, <3>2, <3>4, <3>5, <3>6, ToolStep
  <2> QED
    BY Zenon, ToolRefused, <2>1, <2>2
(* The images to export are inspected one after the other.                 *)
<1> QED
  BY <1>20, <1>21

LEMMA ToolExports ==
    ASSUME ToolInv, Tool!InspectForExport
    PROVE ToolInv' /\ ToolRespects
<1> DEFINE task == run.task
           r == run.read
           c0 == run.changed
           name == actual.names[task.name]
<1>1. /\ actual \in ToolHosts /\ c0 \in BOOLEAN /\ run.touched \in BOOLEAN
      /\ "idle" \notin Tool!Places /\ task \in ToolJobs
      /\ run.at # "idle" => r \in ToolReads
      /\ Tool!t = task /\ Tool!now = r /\ Tool!Source = name
      /\ Tool!Checking <=> Checking
  BY ToolSituation
<1>2. run.at # "idle" => ToolAlways(run.at, task, actual, r, Checking)
  BY ToolSituation
<1>3. run.at # "idle" /\ ~run.disturbed =>
         ToolKnows(run.at, task, actual, r, c0, run.touched, Checking)
  BY ToolSituation
<1>4. /\ name \in 0 .. 2 /\ name \in actual.images \union {0}
      /\ task.op \in {"pull", "push", "tag", "remove", "export", "load"}
      /\ task.name \in Names /\ Len(task.targets) \in Nat /\ task.id \in 0 .. 2
      /\ {task.lazy, task.force, task.diff} \subseteq BOOLEAN
      /\ \A k \in 1 .. Len(task.targets) : task.targets[k] \in Names
      /\ actual.names \in [Names -> 0 .. 2] /\ actual.offered \in 1 .. 2
  BY ToolSituation
<1>22. CASE Tool!InspectForExport
  <2> DEFINE n == IF r.next = 1 THEN task.name ELSE task.targets[r.next - 1]
             w == [m \in {n} \union DOMAIN r.wanted |->
                     IF m = n THEN actual.names[n] ELSE r.wanted[m]]
             known == [r EXCEPT !.next = @ + 1, !.wanted = w]
             place == IF r.next > Len(task.targets) THEN "compare" ELSE "inspect"
  <2>1. /\ run.at = "inspect" /\ task.op = "export"
        /\ Tool!Refuse \/ (Step(place, actual, known, c0) /\ actual.names[n] # 0)
    BY <1>22, ToolIsARun DEF Tool!InspectForExport, Tool!At, Tool!t, Tool!now
  <2>2. r.next \in Nat \ {0} /\ r.next <= Len(task.targets) + 1
    BY Zenon, <1>2, ToolReadOn, <2>1 DEF ToolAlways
  <2>3. n \in Names
    BY <1>4, <2>2
  <2>4. CASE Step(place, actual, known, c0) /\ actual.names[n] # 0
    <3>1. w \in Tool!Requested
      <4>1. PICK N \in SUBSET Names : r.wanted \in [N -> 1 .. 2]
        <5>1. r.wanted \in Tool!Requested
          BY Zenon, <1>1, <2>1, ToolRead
        <5>2. PICK Q \in {[N -> 1 .. 2] : N \in SUBSET Names} : r.wanted \in Q
          BY <5>1 DEF Tool!Requested, Tool!Ids
        <5> QED
          BY <5>2
      <4>2. actual.names[n] \in 1 .. 2
        <5>1. actual.names[n] # 0
          BY Zenon, <2>4
        <5> HIDE DEF n
        <5>2. actual.names[n] \in 0 .. 2
          BY <1>4, <2>3
        <5> QED
          BY <5>1, <5>2
      <4> DEFINE M == {n} \union N
      <4>3. M \in SUBSET Names /\ w \in [M -> 1 .. 2]
        <5> HIDE DEF n
        <5> QED
          BY <2>3, <4>1, <4>2
      <4> HIDE DEF w, M
      <4>4. [M -> 1 .. 2] \in {[L -> 1 .. 2] : L \in SUBSET Names}
        BY <4>3
      <4> QED
        BY <4>3, <4>4 DEF Tool!Requested, Tool!Ids
    <3>2. known \in ToolReads /\ known.next = r.next + 1 /\ known.wanted = w
      <4>1. PICK i0 \in 0 .. 2, N0 \in SUBSET Names, k0 \in Nat \ {0}, w0 \in Tool!Requested,
                 d0 \in Tool!Contents :
              /\ r = [id |-> i0, names |-> N0, next |-> k0, wanted |-> w0, content |-> d0]
              /\ ToolOnce(d0)
        BY Zenon, <1>1, <2>1, ToolRead
      <4> DEFINE q == [r EXCEPT !.next = @ + 1]
      <4>2. q = [id |-> i0, names |-> N0, next |-> k0 + 1, wanted |-> w0, content |-> d0]
        BY <4>1
      <4>3. known = [q EXCEPT !.wanted = w]
        OBVIOUS
      <4>4. k0 + 1 \in Nat \ {0} /\ r.next = k0
        BY <4>1
      <4> HIDE DEF q, known, w
      <4>5. known = [id |-> i0, names |-> N0, next |-> k0 + 1, wanted |-> w, content |-> d0]
        BY <4>2, <4>3
      <4>6. known \in ToolReads
        BY <3>1, <4>1, <4>4, <4>5, ToolReadMade
      <4> QED
        BY <4>4, <4>5, <4>6
    <3>3. ~run.disturbed =>
            /\ ~c0 /\ ~run.touched
            /\ DOMAIN r.wanted = {l \in ToolNames(task) : ToolSeen(task, r.next, l)}
            /\ \A m \in DOMAIN r.wanted : r.wanted[m] = actual.names[m]
      BY Zenon, <1>3, <2>1 DEF ToolKnows
    <3>4. /\ DOMAIN w = {n} \union DOMAIN r.wanted
          /\ \A m \in DOMAIN w : w[m] = IF m = n THEN actual.names[n] ELSE r.wanted[m]
      OBVIOUS
    <3>5. n \in ToolNames(task)
      BY <2>2 DEF ToolNames
    <3>6. \A m : ToolSeen(task, r.next + 1, m) <=> (m = n \/ ToolSeen(task, r.next, m))
      <4>1. CASE r.next = 1
        BY <1>4, <4>1 DEF ToolSeen
      <4>2. CASE r.next # 1
        <5>1. /\ \A k \in 1 .. Len(task.targets) :
                    k + 1 < r.next + 1 <=> (k = r.next - 1 \/ k + 1 < r.next)
              /\ r.next - 1 \in 1 .. Len(task.targets) /\ r.next > 1
          BY <1>4, <2>2, <4>2
        <5> QED
          BY <2>2, <4>2, <5>1 DEF ToolSeen
      <4> QED
        BY <4>1, <4>2
    <3> HIDE DEF w, known, n, place
    <3>7. ~run.disturbed =>
            /\ DOMAIN w = {l \in ToolNames(task) : ToolSeen(task, r.next + 1, l)}
            /\ \A m \in DOMAIN w : w[m] = actual.names[m]
      BY <3>3, <3>4, <3>5, <3>6
    <3>8. CASE place = "inspect" /\ ~(r.next > Len(task.targets))
      <4>1. ToolAlways("inspect", task, actual, known, Checking)
        BY <1>2, <1>4, <2>1, <2>2, <3>2, <3>8 DEF ToolAlways
      <4>2. ~run.disturbed => ToolKnows("inspect", task, actual, known, c0, run.touched, Checking)
        BY <2>1, <3>2, <3>3, <3>7 DEF ToolKnows
      <4>3. ToolWill("inspect", task, actual, known, c0) <=> ToolWill("inspect", task, actual, r, c0)
        BY DEF ToolWill
      <4> QED
        BY Zenon, <1>1, ToolWent, <2>1, <2>4, <3>2, <3>8, <4>1, <4>2, <4>3 DEF Tool!Places
    <3>9. CASE place = "compare" /\ r.next > Len(task.targets)
      <4>1. ToolAlways("compare", task, actual, known, Checking)
        BY <1>2, <2>1, <3>2, <3>9 DEF ToolAlways
      <4>2. ~run.disturbed => w = ToolWanted(task, actual)
        <5>1. \A l \in ToolNames(task) : ToolSeen(task, r.next + 1, l)
          BY <1>4, <2>2, <3>9 DEF ToolNames, ToolSeen
        <5>2. ~run.disturbed => DOMAIN w = ToolNames(task)
          BY <3>7, <5>1
        <5>3. w = [m \in DOMAIN w |-> w[m]]
          BY DEF w
        <5> QED
          BY <3>7, <5>2, <5>3 DEF ToolWanted
      <4>3. ~run.disturbed => ToolKnows("compare", task, actual, known, c0, run.touched, Checking)
        BY <2>1, <3>2, <3>3, <4>2 DEF ToolKnows
      <4>4. ToolWill("compare", task, actual, known, c0) <=> ToolWill("inspect", task, actual, r, c0)
        BY DEF ToolWill
      <4> QED
        BY Zenon, <1>1, ToolWent, <2>1, <2>4, <3>2, <3>9, <4>1, <4>3, <4>4 DEF Tool!Places
    <3> QED
      BY <3>8, <3>9 DEF place
  <2> QED
    BY Zenon, ToolRefused, <2>1, <2>4
<1> QED
  BY <1>22

LEMMA ToolCompares ==
    ASSUME ToolInv, Tool!Compare \/ Tool!Save
    PROVE ToolInv' /\ ToolRespects
<1> DEFINE task == run.task
           r == run.read
           c0 == run.changed
           name == actual.names[task.name]
<1>1. /\ actual \in ToolHosts /\ c0 \in BOOLEAN /\ run.touched \in BOOLEAN
      /\ "idle" \notin Tool!Places /\ task \in ToolJobs
      /\ run.at # "idle" => r \in ToolReads
      /\ Tool!t = task /\ Tool!now = r /\ Tool!Source = name
      /\ Tool!Checking <=> Checking
  BY ToolSituation
<1>2. run.at # "idle" => ToolAlways(run.at, task, actual, r, Checking)
  BY ToolSituation
<1>3. run.at # "idle" /\ ~run.disturbed =>
         ToolKnows(run.at, task, actual, r, c0, run.touched, Checking)
  BY ToolSituation
<1>4. /\ name \in 0 .. 2 /\ name \in actual.images \union {0}
      /\ task.op \in {"pull", "push", "tag", "remove", "export", "load"}
      /\ task.name \in Names /\ Len(task.targets) \in Nat /\ task.id \in 0 .. 2
      /\ {task.lazy, task.force, task.diff} \subseteq BOOLEAN
      /\ \A k \in 1 .. Len(task.targets) : task.targets[k] \in Names
      /\ actual.names \in [Names -> 0 .. 2] /\ actual.offered \in 1 .. 2
  BY ToolSituation
<1>23. CASE Tool!Compare
  <2> DEFINE differs == Tool!Rewrites(task) \/ ~Tool!Matches(actual.archive, r.wanted)
  <2>1. /\ run.at = "compare" /\ task.op = "export"
        /\ \/ Answer(FALSE) /\ ~differs
           \/ Step("answer", actual, r, TRUE) /\ differs /\ Checking
           \/ Step("save", actual, r, c0) /\ differs /\ ~Checking
    BY <1>2, <1>23, ToolIsARun
       DEF Tool!Compare, Tool!At, Tool!t, Tool!now, Tool!Checking, Checking, ToolAlways
  <2>2. ~run.disturbed => ~c0 /\ ~run.touched /\ r.wanted = ToolWanted(task, actual)
    BY <1>3, <2>1 DEF ToolKnows
  <2>3. ~run.disturbed =>
          /\ ToolWill("compare", task, actual, r, c0) <=> differs
          /\ ToolChange(task, actual) <=> differs
    BY <2>1, <2>2 DEF ToolWill, ToolChange
  <2>4. CASE Answer(FALSE) /\ ~differs
    <3>1. ~run.disturbed => Tool!Satisfied(task, actual)
      <4>1. SUFFICES ASSUME ~run.disturbed PROVE Tool!Satisfied(task, actual)
        OBVIOUS
      <4> DEFINE N == ToolNames(task)
      <4>2. /\ actual.archive # Broken
            /\ actual.archive = Tool!Content(r.wanted, DOMAIN r.wanted)
            /\ r.wanted = [n \in N |-> actual.names[n]] /\ DOMAIN r.wanted = N
        BY <2>2, <2>4, <4>1 DEF Tool!Matches, ToolWanted
      <4>3. N \in SUBSET Names
        BY <1>1, ToolAsks
      <4>4. \A n \in N : actual.names[n] # 0
        <5>1. r.wanted \in Tool!Requested
          BY <1>1, <2>1, ToolRead
        <5>2. PICK Q \in {[M -> 1 .. 2] : M \in SUBSET Names} : r.wanted \in Q
          BY <5>1 DEF Tool!Requested, Tool!Ids
        <5>3. PICK M \in SUBSET Names : r.wanted \in [M -> 1 .. 2]
          BY <5>2
        <5> HIDE DEF N
        <5>4. \A n \in N : r.wanted[n] \in 1 .. 2 /\ r.wanted[n] = actual.names[n]
          BY <4>2, <5>3
        <5> QED
          BY <5>4
      <4>5. /\ \A n \in N : /\ actual.names[n] \in DOMAIN Tool!Content(actual.names, N)
                            /\ n \in Tool!Content(actual.names, N)[actual.names[n]]
            /\ Tool!Content(actual.names, N) = Tool!Content([n \in N |-> actual.names[n]], N)
        <5> HIDE DEF N
        <5> QED
          BY <1>4, <4>3, <4>4, ToolContents
      <4> QED
        BY <2>1, <4>2, <4>5 DEF Tool!Satisfied, ToolNames
    <3> HIDE DEF differs
    <3> QED
      BY ToolAnswered, <2>1, <2>2, <2>3, <2>4, <3>1
  <2> HIDE DEF differs
  <2>5. CASE Step("answer", actual, r, TRUE) /\ differs /\ Checking
    <3>1. ToolAlways("answer", task, actual, r, Checking)
      BY <1>2, <2>1 DEF ToolAlways
    <3>2. ~run.disturbed => ToolKnows("answer", task, actual, r, TRUE, run.touched, Checking)
      BY <2>2, <2>5 DEF ToolKnows
    <3>3. ToolWill("answer", task, actual, r, TRUE)
      BY DEF ToolWill
    <3> QED
      BY Zenon, <1>1, ToolWent, <2>1, <2>3, <2>5, <3>1, <3>2, <3>3 DEF Tool!Places
  <2>6. CASE Step("save", actual, r, c0) /\ differs /\ ~Checking
    <3>1. ToolAlways("save", task, actual, r, Checking)
      BY <1>2, <2>1, <2>6 DEF ToolAlways
    <3>2. ~run.disturbed => ToolKnows("save", task, actual, r, c0, run.touched, Checking)
      BY <2>2, <2>6 DEF ToolKnows
    <3>3. ToolWill("save", task, actual, r, c0)
      BY DEF ToolWill
    <3> QED
      BY Zenon, <1>1, ToolWent, <2>1, <2>3, <2>6, <3>1, <3>2, <3>3 DEF Tool!Places
  <2> QED
    BY <2>1, <2>4, <2>5, <2>6
<1>24. CASE Tool!Save
  <2> DEFINE N == ToolNames(task)
             a == [actual EXCEPT !.archive = Broken]
             content == Tool!Content(actual.names, N)
             known == [r EXCEPT !.content = content]
  <2>1. /\ run.at = "save" /\ task.op = "export" /\ ~Checking
        /\ Tool!Refuse \/ (Step("copy", a, known, c0) /\ \A n \in N : actual.names[n] # 0)
    BY <1>2, <1>24, ToolIsARun
       DEF Tool!Save, Tool!At, Tool!t, Tool!now, Tool!Wanted, ToolNames, ToolAlways
  <2>2. CASE Step("copy", a, known, c0) /\ \A n \in N : actual.names[n] # 0
    <3>1. a \in ToolHosts /\ a.names = actual.names
      BY <1>1, ToolEngine DEF ToolHosts, Tool!Engines
    <3>2. content \in Tool!Contents /\ ToolOnce(content)
      <4>1. N \in SUBSET Names
        BY <1>1, ToolAsks
      <4> HIDE DEF N
      <4> QED
        BY <1>4, <2>2, <4>1, ToolContents
    <3> HIDE DEF content
    <3>3. known \in ToolReads /\ known.content = content
      <4>1. PICK i0 \in 0 .. 2, N0 \in SUBSET Names, k0 \in Nat \ {0}, w0 \in Tool!Requested,
                 d0 \in Tool!Contents :
              /\ r = [id |-> i0, names |-> N0, next |-> k0, wanted |-> w0, content |-> d0]
              /\ ToolOnce(d0)
        BY <1>1, <2>1, ToolRead
      <4>2. known = [id |-> i0, names |-> N0, next |-> k0, wanted |-> w0, content |-> content]
        BY <4>1
      <4> HIDE DEF known
      <4> QED
        BY <3>2, <4>1, <4>2, ToolReadMade
    <3>4. ~run.disturbed => ~c0 /\ ~run.touched
      BY <1>3, <2>1 DEF ToolKnows
    <3> HIDE DEF known, a
    <3>5. ~run.disturbed =>
             ToolKnows("copy", task, a, known, c0, run.touched \/ a # actual, Checking)
      BY <2>1, <2>2, <3>1, <3>3, <3>4 DEF ToolKnows, content
    <3>6. /\ ToolAlways("copy", task, a, known, Checking) /\ "copy" \in Tool!Places
          /\ ToolSettles(task, a, Checking) => ToolSettles(task, actual, Checking)
      BY <1>2, <2>1, <3>1 DEF ToolAlways, Tool!Places, ToolSettles, Tool!Shared
    <3>7. /\ ToolWill("copy", task, a, known, c0)
          /\ ToolWill("save", task, actual, r, c0)
      BY DEF ToolWill
    <3>8. ToolMore
      BY ToolKeepsOne, <2>1, <2>2, <3>6
    <3> QED
      BY <1>1, <2>1, <2>2, <3>1, <3>3, <3>5, <3>6, <3>7, <3>8, ToolStep
  <2> QED
    BY ToolRefused, <2>1, <2>2
<1> QED
  BY <1>23, <1>24

LEMMA ToolArchives ==
    ASSUME ToolInv, Tool!Copy \/ Tool!Load \/ Tool!Finish
    PROVE ToolInv' /\ ToolRespects
<1> DEFINE task == run.task
           r == run.read
           c0 == run.changed
           name == actual.names[task.name]
<1>1. /\ actual \in ToolHosts /\ c0 \in BOOLEAN /\ run.touched \in BOOLEAN
      /\ "idle" \notin Tool!Places /\ task \in ToolJobs
      /\ run.at # "idle" => r \in ToolReads
      /\ Tool!t = task /\ Tool!now = r /\ Tool!Source = name
      /\ Tool!Checking <=> Checking
  BY ToolSituation
<1>2. run.at # "idle" => ToolAlways(run.at, task, actual, r, Checking)
  BY ToolSituation
<1>3. run.at # "idle" /\ ~run.disturbed =>
         ToolKnows(run.at, task, actual, r, c0, run.touched, Checking)
  BY ToolSituation
<1>4. /\ name \in 0 .. 2 /\ name \in actual.images \union {0}
      /\ task.op \in {"pull", "push", "tag", "remove", "export", "load"}
      /\ task.name \in Names /\ Len(task.targets) \in Nat /\ task.id \in 0 .. 2
      /\ {task.lazy, task.force, task.diff} \subseteq BOOLEAN
      /\ \A k \in 1 .. Len(task.targets) : task.targets[k] \in Names
      /\ actual.names \in [Names -> 0 .. 2] /\ actual.offered \in 1 .. 2
  BY ToolSituation
<1>25. CASE Tool!Copy
  <2> DEFINE N == ToolNames(task)
             a == [actual EXCEPT !.archive = r.content]
  <2>1. run.at = "copy" /\ task.op = "export" /\ ~Checking /\ Step("answer", a, r, TRUE)
    BY <1>2, <1>25, ToolIsARun DEF Tool!Copy, Tool!At, Tool!now, ToolAlways
  <2>2. r.content \in Tool!Contents /\ ToolOnce(r.content) /\ r.content # Broken
    BY <1>1, <2>1, ToolRead, ToolAsks
  <2>3. /\ a \in ToolHosts /\ a.names = actual.names /\ a.archive = r.content
    BY <1>1, <2>2, ToolEngine DEF ToolHosts, Tool!Engines
  <2>4. ~run.disturbed =>
          /\ r.content = Tool!Content(actual.names, N)
          /\ \A n \in N : actual.names[n] # 0
    BY <1>3, <2>1 DEF ToolKnows
  <2>5. ~run.disturbed =>
          /\ \A n \in N : actual.names[n] \in DOMAIN r.content /\ n \in r.content[actual.names[n]]
          /\ r.content = Tool!Content([n \in N |-> actual.names[n]], N)
          /\ (\A n \in N, m \in N : n # m => actual.names[n] # actual.names[m]) =>
                \A i \in DOMAIN r.content : \E n \in Names : r.content[i] = {n}
    <3>1. N \in SUBSET Names
      BY <1>1, ToolAsks
    <3> HIDE DEF N
    <3>2. (\A n \in N : actual.names[n] # 0) =>
            LET content == Tool!Content(actual.names, N) IN
            /\ \A n \in N : actual.names[n] \in DOMAIN content /\ n \in content[actual.names[n]]
            /\ content = Tool!Content([n \in N |-> actual.names[n]], N)
            /\ (\A n \in N, m \in N : n # m => actual.names[n] # actual.names[m]) =>
                  \A i \in DOMAIN content : \E n \in Names : content[i] = {n}
      BY <1>4, <3>1, ToolContents
    <3> QED
      BY <2>4, <3>2
  <2> HIDE DEF a
  <2>6. ~run.disturbed => Tool!Satisfied(task, a)
    BY <2>1, <2>2, <2>3, <2>5 DEF Tool!Satisfied, ToolNames
  <2>7. ~run.disturbed /\ ToolSettles(task, a, FALSE) => ~ToolChange(task, a)
    <3>1. SUFFICES ASSUME ~run.disturbed, ToolSettles(task, a, FALSE) PROVE ~ToolChange(task, a)
      OBVIOUS
    <3>2. ~Tool!Rewrites(task) /\ \A n \in N, m \in N : n # m => actual.names[n] # actual.names[m]
      BY <2>1, <2>3, <3>1 DEF ToolSettles, Tool!Shared
    <3>3. ToolWanted(task, a) = [n \in N |-> actual.names[n]] /\ DOMAIN ToolWanted(task, a) = N
      BY <2>3 DEF ToolWanted
    <3>4. Tool!Matches(a.archive, ToolWanted(task, a))
      <4> HIDE DEF N
      <4>1. /\ a.archive # Broken /\ a.archive = Tool!Content([n \in N |-> actual.names[n]], N)
            /\ \A i \in DOMAIN a.archive : \E n \in Names : a.archive[i] = {n}
        BY <2>2, <2>3, <2>5, <3>1, <3>2
      <4>2. a.archive = Tool!Content(ToolWanted(task, a), DOMAIN ToolWanted(task, a))
        BY <3>3, <4>1
      <4> QED
        BY <4>1, <4>2 DEF Tool!Matches
    <3> QED
      BY <2>1, <3>2, <3>4 DEF ToolChange
  <2>8. ~run.disturbed =>
           ToolKnows("answer", task, a, r, TRUE, run.touched \/ a # actual, Checking)
    BY <2>1, <2>6, <2>7 DEF ToolKnows
  <2>9. /\ ToolAlways("answer", task, a, r, Checking) /\ "answer" \in Tool!Places
        /\ ToolSettles(task, a, Checking) => ToolSettles(task, actual, Checking)
    BY <1>2, <2>1, <2>3 DEF ToolAlways, Tool!Places, ToolSettles, Tool!Shared
  <2>10. /\ ToolWill("answer", task, a, r, TRUE)
         /\ ToolWill("copy", task, actual, r, c0)
    BY DEF ToolWill
  <2>11. ToolMore
    BY ToolKeepsOne, <2>1, <2>9
  <2> QED
    BY <1>1, <2>1, <2>3, <2>8, <2>9, <2>10, <2>11, ToolStep
<1>26. CASE Tool!Load
  <2> DEFINE ar == actual.archive
             a == [actual EXCEPT !.images = @ \union DOMAIN ar,
                     !.names = [n \in Names |-> IF \E i \in DOMAIN ar : n \in ar[i]
                                                THEN CHOOSE i \in DOMAIN ar : n \in ar[i] ELSE @[n]]]
  <2>1. /\ run.at = "load" /\ task.op = "load" /\ ~Checking
        /\ Tool!Refuse \/ (Step("inspect again", a, r, TRUE) /\ ar # Broken)
    BY Zenon, <1>2, <1>26, ToolIsARun DEF Tool!Load, Tool!At, Tool!now, ToolAlways
  <2>2. CASE Step("inspect again", a, r, TRUE) /\ ar # Broken
    <3>1. /\ a \in ToolHosts /\ a.archive = ar
          /\ \A i \in DOMAIN ar : \A n \in ar[i] : a.names[n] = i
      BY Zenon, <1>1, <2>2, ToolLoads
    <3> HIDE DEF a
    <3>2. Tool!Satisfied(task, a)
      BY Zenon, <2>1, <2>2, <3>1 DEF Tool!Satisfied
    <3>3. ~run.disturbed =>
             ToolKnows("inspect again", task, a, r, TRUE, run.touched \/ a # actual, Checking)
      BY Zenon, <2>1, <3>2 DEF ToolKnows, ToolSettles
    <3>4. /\ ToolAlways("inspect again", task, a, r, Checking) /\ "inspect again" \in Tool!Places
          /\ ~ToolSettles(task, a, Checking)
      BY Zenon, <1>2, <2>1 DEF ToolAlways, Tool!Places, ToolSettles
    <3>5. /\ ToolWill("inspect again", task, a, r, TRUE)
          /\ ToolWill("load", task, actual, r, c0)
      BY Zenon, <2>1 DEF ToolWill, ToolChange
    <3>6. ToolMore
      BY Zenon, ToolKeepsOne, <2>1, <2>2, <3>4
    <3> QED
      BY Zenon, <1>1, <2>1, <2>2, <3>1, <3>3, <3>4, <3>5, <3>6, ToolStep
  <2> QED
    BY Zenon, ToolRefused, <2>1, <2>2
<1>27. CASE Tool!Finish
  <2>1. run.at \in {"inspect again", "answer"} /\ Answer(c0)
    BY Zenon, <1>27, ToolIsARun DEF Tool!Finish
  <2>2. ToolWill(run.at, task, actual, r, c0) <=> c0
    BY Zenon, <2>1 DEF ToolWill
  <2>3. ~run.disturbed =>
          /\ run.touched => c0
          /\ ~Checking \/ ~c0 => Tool!Satisfied(task, actual)
          /\ ~Checking /\ ToolSettles(task, actual, FALSE) => ~ToolChange(task, actual)
    BY Zenon, <1>3, <2>1 DEF ToolKnows
  <2> QED
    BY Zenon, <1>1, ToolAnswered, <2>1, <2>2, <2>3
<1> QED
  BY <1>25, <1>26, <1>27

LEMMA ToolSteps ==
    ASSUME ToolInv, Tool!Steps \/ Tool!CallError \/ Tool!Killed
    PROVE ToolInv' /\ ToolRespects
<1>28. CASE Tool!CallError \/ Tool!Killed
  <2>1. PICK reply \in {"failed", "refused", "killed"} : run.at # "idle" /\ Stops(reply)
    BY Zenon, Zenon, <1>28, ToolIsARun DEF Tool!CallError, Tool!CallFails, Idle, At, Tool!Places
  <2> QED
    BY ToolGaveUp, <2>1
<1> QED
  BY <1>28, ToolPulls, ToolPushes, ToolTagging, ToolRetags, ToolRemoving, ToolExports, ToolCompares, ToolArchives
     DEF Tool!Steps, Tool!Inspect

LEMMA ToolBegun ==
    ASSUME ToolInv, NEW task \in ToolJobs, NEW m \in {"check", "apply"},
           task.op \in {"push", "load"} => m = "apply",
           Begin(task, m, IF task.op = "load" THEN "load" ELSE "inspect", Tool!Nothing)
    PROVE ToolInv' /\ ToolRespects /\ run'.task = task
<1> DEFINE place == IF task.op = "load" THEN "load" ELSE "inspect"
           r == Tool!Nothing
<1>1. /\ run.at = "idle" /\ run'.at = place /\ run'.task = task
  BY DEF Begin, Idle, At, Rest
<1>2. ToolMore
  BY <1>1 DEF ToolMore, Tool!OneImage, Tool!At
<1>3. r \in ToolReads /\ r.next = 1 /\ DOMAIN r.wanted = {}
  <2>1. [n \in {} |-> 0] \in Tool!Requested
    <3>1. [n \in {} |-> 0] \in [{} -> 1 .. 2]
      OBVIOUS
    <3>2. [{} -> 1 .. 2] \in {[N -> 1 .. 2] : N \in SUBSET Names}
      OBVIOUS
    <3> QED
      BY <3>1, <3>2 DEF Tool!Requested, Tool!Ids
  <2>2. [i \in {} |-> {}] \in Tool!Contents /\ ToolOnce([i \in {} |-> {}])
    <3>1. [i \in {} |-> {}] \in [{} -> (SUBSET Names) \ {{}}]
      OBVIOUS
    <3>2. [{} -> (SUBSET Names) \ {{}}] \in {[I -> (SUBSET Names) \ {{}}] : I \in SUBSET Tool!Ids}
      OBVIOUS
    <3>3. [i \in {} |-> {}] \in Tool!Contents
      BY <3>1, <3>2 DEF Tool!Contents
    <3> QED
      <4>1. DOMAIN [i \in {} |-> {}] = {}
        OBVIOUS
      <4> QED
        BY <3>3, <4>1 DEF ToolOnce
  <2>3. r = [id |-> 0, names |-> {}, next |-> 1, wanted |-> [n \in {} |-> 0],
             content |-> [i \in {} |-> {}]]
    BY DEF Tool!Nothing
  <2>4. PICK w \in Tool!Requested, c \in Tool!Contents :
          w = [n \in {} |-> 0] /\ c = [i \in {} |-> {}]
    BY <2>1, <2>2
  <2>5. r = [id |-> 0, names |-> {}, next |-> 1, wanted |-> w, content |-> c] /\ ToolOnce(c)
    BY <2>2, <2>3, <2>4
  <2>6. r \in ToolReads
    BY <2>5, ToolReadMade
  <2> QED
    BY <2>3, <2>6
<1>4. /\ task.op \in {"pull", "push", "tag", "remove", "export", "load"}
      /\ Len(task.targets) \in Nat /\ place \in {"load", "inspect"} /\ place \in Tool!Places
      /\ place = "load" <=> task.op = "load"
  BY ToolAsks DEF Tool!Places
<1> HIDE DEF place, r
<1>5. ToolAlways(place, task, actual, r, m = "check")
  BY <1>3, <1>4 DEF ToolAlways
<1>6. /\ ToolWill(place, task, actual, r, FALSE) <=> ToolChange(task, actual)
      /\ ToolSettles(task, actual, TRUE) => ToolSettles(task, actual, FALSE)
  BY <1>4 DEF ToolWill, ToolSettles
<1>7. ToolKnows(place, task, actual, r, FALSE, FALSE, m = "check")
  <2>1. \A n : ~ToolSeen(task, 1, n)
    BY <1>4 DEF ToolSeen
  <2> QED
    BY Zenon, Zenon, <1>3, <1>4, <2>1 DEF ToolKnows
<1>8. Begin(task, m, place, r)
  BY DEF place, r
<1> QED
  BY <1>1, <1>2, <1>3, <1>4, <1>5, <1>6, <1>7, <1>8, ToolBegins

LEMMA ToolOthers == ASSUME ToolInv, Tool!Outside PROVE ToolInv' /\ ToolRespects /\ run'.task = run.task
<1>1. actual \in ToolHosts
  BY ToolGiven
<1>2. ASSUME NEW a \in ToolHosts, Tool!Interferes(a)
      PROVE ToolInv' /\ ToolRespects /\ run'.task = run.task
  <2>1. Interferes(a)
    BY <1>2, ToolIsARun
  <2>2. run'.task = run.task /\ run'.at = run.at
    BY <2>1, RunInterferes DEF ToolInv
  <2>3. ToolMore
    BY <2>2 DEF ToolMore, Tool!OneImage, Tool!At
  <2>4. run.at # "idle" => ToolAlways(run.at, run.task, a, run.read, Checking)
    BY DEF ToolInv, ToolAlways
  <2> QED
    BY <2>1, <2>2, <2>3, <2>4, ToolInterferes
<1>3. ASSUME NEW n \in Names, NEW i \in actual.images, Tool!Interferes(Tool!Point(actual, n, i))
      PROVE ToolInv' /\ ToolRespects /\ run'.task = run.task
  <2>1. Tool!Point(actual, n, i) \in ToolHosts
    <3>1. i \in 1 .. 2
      BY <1>1, ToolEngine
    <3> QED
      BY <1>1, <3>1, ToolPoints
  <2> QED
    BY <1>2, <1>3, <2>1
<1>4. ASSUME NEW n \in Names, Tool!Interferes(Tool!Untag(actual, n))
      PROVE ToolInv' /\ ToolRespects /\ run'.task = run.task
  <2>1. Tool!Untag(actual, n) \in ToolHosts
    BY <1>1, ToolUntags
  <2> QED
    BY <1>2, <1>4, <2>1
<1>5. /\ [actual EXCEPT !.offered = 3 - @] \in ToolHosts /\ [actual EXCEPT !.pushed = 0] \in ToolHosts
      /\ [actual EXCEPT !.archive = Broken] \in ToolHosts
  BY <1>1, ToolEngine DEF ToolHosts, Tool!Engines, Tool!Ids
<1> QED
  BY <1>2, <1>3, <1>4, <1>5 DEF Tool!Outside

LEMMA ToolGoesOn ==
    ASSUME ToolInv, \/ Tool!Steps \/ Tool!CallError \/ Tool!Killed
                    \/ Tool!Outside \/ UNCHANGED vars
    PROVE ToolInv' /\ ToolRespects /\ run'.task = run.task
<1>1. CASE Tool!Steps \/ Tool!CallError \/ Tool!Killed
  <2>1. run.at # "idle"
    BY Zenon, Zenon, <1>1, ToolGiven DEF Tool!Steps, Tool!Inspect, Tool!InspectForPull, Tool!InspectForPush,
       Tool!InspectForTag, Tool!InspectForRemove, Tool!InspectForExport, Tool!Pull, Tool!Pulled,
       Tool!Push, Tool!Target, Tool!Retag, Tool!TargetsDone, Tool!Drop, Tool!Compare, Tool!Save,
       Tool!Copy, Tool!Load, Tool!Finish, Tool!CallError, Tool!CallFails, Tool!Killed, Tool!Idle,
       Tool!At, Tool!Places
  <2>2. ToolInv' /\ ToolRespects
    BY <1>1, ToolSteps
  <2> QED
    BY <2>1, <2>2 DEF ToolRespects, ToolMore
<1>2. CASE Tool!Outside
  BY <1>2, ToolOthers
<1>3. CASE UNCHANGED vars
  <2>1. run' = run
    BY <1>3 DEF vars
  <2>2. ToolMore
    BY <2>1 DEF ToolMore, Tool!OneImage, Tool!At
  <2> QED
    BY <1>3, <2>1, <2>2, ToolStutters
<1> QED
  BY <1>1, <1>2, <1>3

LEMMA ToolNext ==
    ToolInv /\ run.task \in ToolTasks /\ [Tool!Next]_vars =>
      ToolInv' /\ ToolRespects /\ run'.task \in ToolTasks
<1> SUFFICES ASSUME ToolInv, run.task \in ToolTasks, [Tool!Next]_vars
             PROVE ToolInv' /\ ToolRespects /\ run'.task \in ToolTasks
  OBVIOUS
<1>1. CASE Tool!Start
  <2>1. PICK task \in ToolTasks, m \in {"check", "apply"} :
          /\ task.op \in {"push", "load"} => m = "apply"
          /\ Begin(task, m, IF task.op = "load" THEN "load" ELSE "inspect", Tool!Nothing)
    BY <1>1, ToolIsARun DEF Tool!Start
  <2>2. task \in ToolJobs
    BY DEF ToolJobs
  <2> QED
    BY <2>1, <2>2, ToolBegun
<1> QED
  BY <1>1, ToolGoesOn DEF Tool!Next

(* The same for the other set of tasks.                                    *)
LEMMA ArchiveIsATool ==
    /\ Archive!Steps <=> Tool!Steps
    /\ Archive!CallError <=> Tool!CallError
    /\ Archive!Killed <=> Tool!Killed
    /\ Archive!Outside <=> Tool!Outside
    /\ Archive!Predicts <=> Tool!Predicts
    /\ Archive!Idempotent <=> Tool!Idempotent
    /\ \A task, e : Archive!Satisfied(task, e) <=> Tool!Satisfied(task, e)
    /\ Archive!Nothing = Tool!Nothing /\ Archive!Places = Tool!Places
    /\ Archive!Engines = Tool!Engines /\ Archive!Snapshots = Tool!Snapshots
    /\ Archive!Ids = Tool!Ids
<1>1. Archive!InspectForPull <=> Tool!InspectForPull
  BY DEF Archive!InspectForPull, Tool!InspectForPull, Archive!At, Tool!At, Archive!t, Tool!t,
     Archive!Source, Tool!Source, Archive!Answer, Tool!Answer, Archive!Checking,
     Tool!Checking, Archive!Reports, Tool!Reports, Archive!Reads, Tool!Reads, Archive!now,
     Tool!now, Archive!Named, Tool!Named, Archive!Ends, Tool!Ends, Archive!Step,
     Tool!Step, Archive!NoMemo, Tool!NoMemo
<1>2. Archive!Pull <=> Tool!Pull
  BY DEF Archive!Pull, Tool!Pull, Archive!At, Tool!At, Archive!Step, Tool!Step, Archive!Point,
     Tool!Point, Archive!t, Tool!t, Archive!now, Tool!now, Archive!NoMemo, Tool!NoMemo
<1>3. Archive!Pulled <=> Tool!Pulled
  BY DEF Archive!Pulled, Tool!Pulled, Archive!At, Tool!At, Archive!Source, Tool!Source,
     Archive!Refuse, Tool!Refuse, Archive!Answer, Tool!Answer, Archive!now, Tool!now,
     Archive!Named, Tool!Named, Archive!t, Tool!t, Archive!Stops, Tool!Stops,
     Archive!Ends, Tool!Ends, Archive!Checking, Tool!Checking
<1>4. Archive!InspectForPush <=> Tool!InspectForPush
  BY DEF Archive!InspectForPush, Tool!InspectForPush, Archive!At, Tool!At, Archive!t, Tool!t,
     Archive!Source, Tool!Source, Archive!Refuse, Tool!Refuse, Archive!Goto, Tool!Goto,
     Archive!Stops, Tool!Stops, Archive!Step, Tool!Step, Archive!Ends, Tool!Ends,
     Archive!NoMemo, Tool!NoMemo
<1>5. Archive!Push <=> Tool!Push
  BY DEF Archive!Push, Tool!Push, Archive!At, Tool!At, Archive!Source, Tool!Source, Archive!Refuse,
     Tool!Refuse, Archive!Step, Tool!Step, Archive!now, Tool!now, Archive!t, Tool!t,
     Archive!Stops, Tool!Stops, Archive!NoMemo, Tool!NoMemo, Archive!Ends, Tool!Ends
<1>6. Archive!InspectForTag <=> Tool!InspectForTag
  BY DEF Archive!InspectForTag, Tool!InspectForTag, Archive!At, Tool!At, Archive!t, Tool!t,
     Archive!Source, Tool!Source, Archive!Refuse, Tool!Refuse, Archive!Reads, Tool!Reads,
     Archive!now, Tool!now, Archive!Stops, Tool!Stops, Archive!Step, Tool!Step,
     Archive!Ends, Tool!Ends, Archive!NoMemo, Tool!NoMemo
<1>7. Archive!Target <=> Tool!Target
  BY DEF Archive!Target, Tool!Target, Archive!At, Tool!At, Archive!Done, Tool!Done, Archive!t,
     Tool!t, Archive!now, Tool!now, Archive!Reads, Tool!Reads, Archive!Following,
     Tool!Following, Archive!Checking, Tool!Checking, Archive!Step, Tool!Step,
     Archive!Goto, Tool!Goto, Archive!NoMemo, Tool!NoMemo
<1>8. Archive!Retag <=> Tool!Retag
  BY DEF Archive!Retag, Tool!Retag, Archive!At, Tool!At, Archive!now, Tool!now, Archive!Refuse,
     Tool!Refuse, Archive!Step, Tool!Step, Archive!Point, Tool!Point, Archive!t, Tool!t,
     Archive!Following, Tool!Following, Archive!Stops, Tool!Stops, Archive!NoMemo,
     Tool!NoMemo, Archive!Ends, Tool!Ends
<1>9. Archive!TargetsDone <=> Tool!TargetsDone
  BY DEF Archive!TargetsDone, Tool!TargetsDone, Archive!At, Tool!At, Archive!Done, Tool!Done,
     Archive!Answer, Tool!Answer, Archive!now, Tool!now, Archive!t, Tool!t, Archive!Ends,
     Tool!Ends, Archive!Checking, Tool!Checking
<1>0. \A e, i : Archive!Named(e, i) = Tool!Named(e, i)
  BY DEF Archive!Named, Tool!Named
<1>10. Archive!InspectForRemove <=> Tool!InspectForRemove
  <2> DEFINE absent == \/ run.task.id = 0 /\ actual.names[run.task.name] = 0
                       \/ run.task.id # 0 /\ run.task.id \notin actual.images
             named == run.task.id # 0 /\ ~run.task.force /\ Tool!Named(actual, run.task.id) # {}
             seen == /\ run.at = "inspect" /\ run.task.op = "remove"
                     /\ IF absent THEN Answer(FALSE)
                        ELSE IF Checking
                        THEN (IF named THEN Stops("refused")
                              ELSE Step("answer", actual, run.read, TRUE))
                        ELSE Step("drop", actual, run.read, run.changed)
  <2>1. Archive!Named(actual, run.task.id) = Tool!Named(actual, run.task.id)
    BY <1>0
  <2>2. Archive!InspectForRemove <=> seen
    BY <2>1, ArchiveIsARun, Zenon DEF Archive!InspectForRemove, Archive!At, Archive!t, Archive!now,
       Archive!Source, Archive!Checking, Checking
  <2>3. Tool!InspectForRemove <=> seen
    BY ToolIsARun, Zenon DEF Tool!InspectForRemove, Tool!At, Tool!t, Tool!now,
       Tool!Source, Tool!Checking, Checking
  <2> QED
    BY <2>2, <2>3
<1>11. Archive!Drop <=> Tool!Drop
  BY DEF Archive!Drop, Tool!Drop, Archive!At, Tool!At, Archive!t, Tool!t, Archive!Named,
     Tool!Named, Archive!Refuse, Tool!Refuse, Archive!Changes, Tool!Changes,
     Archive!Delete, Tool!Delete, Archive!Source, Tool!Source, Archive!Untag, Tool!Untag,
     Archive!Stops, Tool!Stops, Archive!Step, Tool!Step, Archive!Ends, Tool!Ends,
     Archive!NoMemo, Tool!NoMemo
<1>12. Archive!InspectForExport <=> Tool!InspectForExport
  <2> DEFINE w == IF run.read.next = 1 THEN run.task.name ELSE run.task.targets[run.read.next - 1]
             next == [run.read EXCEPT !.next = @ + 1,
                        !.wanted = [m \in {w} \union DOMAIN @ |->
                                      IF m = w THEN actual.names[w] ELSE @[m]]]
             place == IF run.read.next > Len(run.task.targets) THEN "compare" ELSE "inspect"
             seen == /\ run.at = "inspect" /\ run.task.op = "export"
                     /\ IF actual.names[w] = 0 THEN Stops("refused")
                        ELSE Step(place, actual, next, run.changed)
  <2>1. Archive!InspectForExport <=> seen
    BY ArchiveIsARun, Zenon DEF Archive!InspectForExport, Archive!At, Archive!t, Archive!now
  <2>2. Tool!InspectForExport <=> seen
    BY ToolIsARun, Zenon DEF Tool!InspectForExport, Tool!At, Tool!t, Tool!now
  <2> QED
    BY Zenon, Zenon, <2>1, <2>2
<1>13. Archive!Compare <=> Tool!Compare
  BY DEF Archive!Compare, Tool!Compare, Archive!Rewrites, Tool!Rewrites,
     Archive!At, Tool!At, Archive!t, Tool!t, Archive!Matches,
     Tool!Matches, Archive!now, Tool!now, Archive!Answer, Tool!Answer, Archive!Checking,
     Tool!Checking, Archive!Reports, Tool!Reports, Archive!Goto, Tool!Goto,
     Archive!Content, Tool!Content, Archive!Ends, Tool!Ends, Archive!Step, Tool!Step,
     Archive!NoMemo, Tool!NoMemo
<1>14. Archive!Save <=> Tool!Save
  BY DEF Archive!Save, Tool!Save, Archive!At, Tool!At, Archive!Wanted, Tool!Wanted, Archive!Refuse,
     Tool!Refuse, Archive!Step, Tool!Step, Archive!now, Tool!now, Archive!Content,
     Tool!Content, Archive!t, Tool!t, Archive!Stops, Tool!Stops, Archive!NoMemo,
     Tool!NoMemo, Archive!Ends, Tool!Ends
<1>15. Archive!Copy <=> Tool!Copy
  BY DEF Archive!Copy, Tool!Copy, Archive!At, Tool!At, Archive!Changes, Tool!Changes, Archive!now,
     Tool!now, Archive!Step, Tool!Step, Archive!NoMemo, Tool!NoMemo
<1>16. Archive!Load <=> Tool!Load
  BY DEF Archive!Load, Tool!Load, Archive!At, Tool!At, Archive!Refuse, Tool!Refuse,
     Archive!Changes, Tool!Changes, Archive!Stops, Tool!Stops, Archive!Step, Tool!Step,
     Archive!Ends, Tool!Ends, Archive!NoMemo, Tool!NoMemo
<1>17. Archive!Finish <=> Tool!Finish
  BY DEF Archive!Finish, Tool!Finish, Archive!Answer, Tool!Answer, Archive!Ends, Tool!Ends,
     Archive!Checking, Tool!Checking
<1>18. Archive!Steps <=> Tool!Steps
  BY <1>1, <1>2, <1>3, <1>4, <1>5, <1>6, <1>7, <1>8, <1>9, <1>10, <1>11, <1>12, <1>13, <1>14,
     <1>15, <1>16, <1>17 DEF Archive!Steps, Tool!Steps, Archive!Inspect, Tool!Inspect
<1>19. Archive!CallError <=> Tool!CallError
  BY DEF Archive!CallError, Tool!CallError, Archive!CallFails, Tool!CallFails, Archive!Places,
     Tool!Places, Archive!Stops, Tool!Stops, Archive!Ends, Tool!Ends
<1>20. Archive!Killed <=> Tool!Killed
  BY DEF Archive!Killed, Tool!Killed, Archive!Idle, Tool!Idle, Archive!Stops, Tool!Stops,
     Archive!At, Tool!At, Archive!Ends, Tool!Ends
<1>21. Archive!Outside <=> Tool!Outside
  BY DEF Archive!Outside, Tool!Outside, Archive!Interferes, Tool!Interferes, Archive!Point,
     Tool!Point, Archive!Untag, Tool!Untag, Archive!Idle, Tool!Idle, Archive!NoMemo,
     Tool!NoMemo, Archive!Named, Tool!Named, Archive!At, Tool!At
<1>22. Archive!Predicts <=> Tool!Predicts
  BY DEF Archive!Predicts, Tool!Predicts, Archive!t, Tool!t, Archive!Foretold, Tool!Foretold,
     Archive!AnswersOK, Tool!AnswersOK, Archive!Checking, Tool!Checking, Archive!Answers,
     Tool!Answers, Archive!Idle, Tool!Idle, Archive!At, Tool!At
<1>23. Archive!Idempotent <=> Tool!Idempotent
  BY DEF Archive!Idempotent, Tool!Idempotent, Archive!Rewrites, Tool!Rewrites, Archive!t, Tool!t,
     Archive!Shared, Tool!Shared,
     Archive!Wanted, Tool!Wanted, Archive!Checking, Tool!Checking, Archive!Unchanging,
     Tool!Unchanging, Archive!AnswersOK, Tool!AnswersOK, Archive!Answers, Tool!Answers,
     Archive!Idle, Tool!Idle, Archive!At, Tool!At
<1>24. \A task, e : Archive!Satisfied(task, e) <=> Tool!Satisfied(task, e)
  BY DEF Archive!Satisfied, Tool!Satisfied, Archive!Ids, Tool!Ids
<1>25. /\ Archive!Nothing = Tool!Nothing /\ Archive!Places = Tool!Places
      /\ Archive!Engines = Tool!Engines /\ Archive!Snapshots = Tool!Snapshots
      /\ Archive!Ids = Tool!Ids
  BY DEF Archive!Nothing, Tool!Nothing, Archive!Places, Tool!Places, Archive!Engines, Tool!Engines,
     Archive!Snapshots, Tool!Snapshots, Archive!Ids, Tool!Ids, Archive!Contents,
     Tool!Contents, Archive!Requested, Tool!Requested
<1> QED
  BY <1>18, <1>19, <1>20, <1>21, <1>22, <1>23, <1>24, <1>25

LEMMA ArchiveNext ==
    ToolInv /\ run.task \in ArchiveTasks /\ [Archive!Next]_vars =>
      ToolInv' /\ ToolRespects /\ run'.task \in ArchiveTasks
<1> SUFFICES ASSUME ToolInv, run.task \in ArchiveTasks, [Archive!Next]_vars
             PROVE ToolInv' /\ ToolRespects /\ run'.task \in ArchiveTasks
  OBVIOUS
<1>1. CASE Archive!Start
  <2>1. PICK task \in ArchiveTasks, m \in {"check", "apply"} :
          /\ task.op \in {"push", "load"} => m = "apply"
          /\ Begin(task, m, IF task.op = "load" THEN "load" ELSE "inspect", Tool!Nothing)
    BY <1>1, ArchiveIsATool, ArchiveIsARun DEF Archive!Start
  <2>2. task \in ToolJobs
    BY DEF ToolJobs
  <2> QED
    BY <2>1, <2>2, ToolBegun
<1> QED
  BY <1>1, ToolGoesOn, ArchiveIsATool DEF Archive!Next

LEMMA ArchiveInit == Archive!Init => ToolInv /\ run.task \in ArchiveTasks
<1> SUFFICES ASSUME Archive!Init PROVE ToolInv /\ run.task \in ArchiveTasks
  OBVIOUS
<1> DEFINE H == {[images |-> Tool!Ids, names |-> names, offered |-> 1, pushed |-> 0,
                  archive |-> Broken] : names \in [Names -> Tool!Ids]}
<1>1. H \subseteq ToolHosts
  BY DEF ToolHosts, Tool!Engines, Tool!Ids
<1>2. InitRuns(H, ArchiveTasks) /\ InitRuns(H, ToolJobs)
  BY ArchiveIsARun, ArchiveIsATool DEF Archive!Init, InitRuns, ToolJobs, Archive!Ids, Tool!Ids
<1> HIDE DEF H
<1>3. run.task \in ArchiveTasks
  BY <1>2 DEF InitRuns, Rest
<1> QED
  BY <1>1, <1>2, <1>3, RunInit DEF ToolInv

LEMMA ToolSafe == ToolInv /\ run.task \in ToolTasks => Tool!TypeOK
<1> SUFFICES ASSUME ToolInv, run.task \in ToolTasks PROVE Tool!TypeOK
  OBVIOUS
<1>1. run.at \in {"pull", "push", "retag", "drop", "save", "copy", "load", "pulled"} => ~Checking
  BY DEF ToolInv, ToolAlways
<1>2. run \in RunStates(ToolJobs, Tool!Places, Tool!Snapshots)
  BY DEF ToolInv, RunTyped, ToolReads, RunStates
<1>3. run \in RunStates(ToolTasks, Tool!Places, Tool!Snapshots)
  BY <1>2 DEF RunStates
<1> QED
  BY <1>1, <1>3 DEF ToolInv, RunTyped, ToolHosts, Tool!TypeOK, Tool!Memos, Memos,
     Tool!RunStates, RunStates, Tool!Forecasts, Forecasts, Tool!Replies, Replies,
     Tool!Checking, Checking

LEMMA ArchiveSafe == ToolInv /\ run.task \in ArchiveTasks => Archive!TypeOK
<1> SUFFICES ASSUME ToolInv, run.task \in ArchiveTasks PROVE Archive!TypeOK
  OBVIOUS
<1>1. run.at \in {"pull", "push", "retag", "drop", "save", "copy", "load", "pulled"} => ~Checking
  BY DEF ToolInv, ToolAlways
<1>2. run \in RunStates(ToolJobs, Tool!Places, Tool!Snapshots)
  BY DEF ToolInv, RunTyped, ToolReads, RunStates
<1>3. run \in RunStates(ArchiveTasks, Tool!Places, Tool!Snapshots)
  BY <1>2 DEF RunStates
<1>4. /\ actual \in Tool!Engines /\ memo \in Memos
      /\ \A n \in Names : actual.names[n] \in actual.images \union {0}
  BY DEF ToolInv, RunTyped, ToolHosts
<1> QED
  BY <1>1, <1>3, <1>4, ArchiveIsATool DEF Archive!TypeOK, Archive!Memos, Memos,
     Archive!RunStates, RunStates, Archive!Forecasts, Forecasts, Archive!Replies, Replies,
     Archive!Checking, Checking

LEMMA ToolHolds ==
    ASSUME NEW task \in ToolJobs, NEW h
    PROVE /\ Tool!Satisfied(task, h) \in BOOLEAN
          /\ Archive!Satisfied(task, h) = Tool!Satisfied(task, h)
<1>1. Tool!Satisfied(task, h) \in BOOLEAN
  <2>1. task.op \in {"pull", "push", "tag", "remove", "export", "load"}
    BY ToolAsks
  <2>2. CASE task.op = "pull"
    BY <2>2 DEF Tool!Satisfied
  <2>3. CASE task.op = "push"
    BY <2>3 DEF Tool!Satisfied
  <2>4. CASE task.op = "tag"
    BY <2>4 DEF Tool!Satisfied
  <2>5. CASE task.op = "remove"
    BY <2>5 DEF Tool!Satisfied
  <2>6. CASE task.op = "export"
    BY <2>6 DEF Tool!Satisfied
  <2>7. CASE task.op = "load"
    BY <2>7 DEF Tool!Satisfied
  <2> QED
    BY <2>1, <2>2, <2>3, <2>4, <2>5, <2>6, <2>7
<1>2. Archive!Satisfied(task, h) \in BOOLEAN
  <2>1. task.op \in {"pull", "push", "tag", "remove", "export", "load"}
    BY ToolAsks
  <2>2. CASE task.op = "pull"
    BY <2>2 DEF Archive!Satisfied
  <2>3. CASE task.op = "push"
    BY <2>3 DEF Archive!Satisfied
  <2>4. CASE task.op = "tag"
    BY <2>4 DEF Archive!Satisfied
  <2>5. CASE task.op = "remove"
    BY <2>5 DEF Archive!Satisfied
  <2>6. CASE task.op = "export"
    BY <2>6 DEF Archive!Satisfied
  <2>7. CASE task.op = "load"
    BY <2>7 DEF Archive!Satisfied
  <2> QED
    BY <2>1, <2>2, <2>3, <2>4, <2>5, <2>6, <2>7
<1> QED
  BY <1>1, <1>2, ArchiveIsATool
-----------------------------------------------------------------------------
(* docker_container.                                                       *)
ContainerHosts == Container!HostStates
ContainerReads == Container!Snapshots
ContainerForetells(task) == task.pull # "always" /\ task.detach
ContainerSettles(task, h, checking) ==
    /\ Container!Settles(task) /\ (task.state = "absent" => h.there # "removing")
    /\ ~(checking /\ task.pull = "always" /\ task.pull_in_check)
ContainerHides(task) == task.cleanup /\ ~task.detach
ContainerMore == Container!Recovers /\ Container!StartedOnItsNetworks

(* The options and the image of a container are not what a task wants, and *)
(* cannot be made so in place.                                             *)
ContainerDiffers(task, c, id) ==
    Container!ImageDiffers(task, c, id) \/ Container!Different(task, c, id) \ Mutable # {}
ContainerFits(task, h) ==
    /\ h.there = "yes" /\ ~Container!MustUpdate(task, h.c, h.local)
    /\ task.recreate = "never" \/ ~ContainerDiffers(task, h.c, h.local)

(* What a task asks for, of a run that is in check mode or not.            *)
ContainerHas(task, h, checking) ==
    IF task.state = "absent" THEN h.there # "yes"
    ELSE IF ~task.detach /\ Container!Live(task) THEN task.cleanup /\ ~checking => ~h.c.running
    ELSE /\ ContainerFits(task, h)
         /\ Container!Connect(task, h.c) = {} /\ Container!Disconnect(task, h.c) = {}
         /\ Container!Live(task) => h.c.running /\ ~Container!NeedsPause(task, h.c)
         /\ task.state = "stopped" => ~h.c.running
         /\ task.state = "healthy" /\ ~checking => h.c.health \in {"none", "healthy"}

(* What a run finds to do.                                                 *)
ContainerLeft(task, h) ==
    \/ Container!MustRecreate(task, h.c, h.local) \/ Container!MustUpdate(task, h.c, h.local)
    \/ Container!Connect(task, h.c) # {} \/ Container!Disconnect(task, h.c) # {}
    \/ Container!NeedsLifecycle(task, h.c)
ContainerPulls(task, h) ==
    task.image /\ (task.pull = "always" \/ h.local = 0) /\ h.local # h.registry
ContainerChange(task, h) ==
    IF task.state = "absent" THEN h.there # "no"
    ELSE ContainerPulls(task, h) \/ h.there # "yes" \/ ContainerLeft(task, h)
ContainerWill(place, task, h, r, c) ==
    CASE place \in {"inspect", "image", "pull"} -> ContainerChange(task, h)
      [] place = "decide" -> c \/ h.there # "yes" \/ ContainerLeft(task, h)
      [] place \in {"stop", "remove", "gone", "create", "created"} -> TRUE
      [] OTHER -> c
ContainerAlways(place, task, h, r, checking) ==
    /\ checking => place \in {"inspect", "image", "decide", "answer"}
    /\ place \notin {"inspect", "stop", "remove", "answer"} => task.state # "absent"
    /\ place \in {"pull", "gone"} => task.state # "absent"
    /\ place = "pull" => task.image
    /\ place = "created" => r.fresh
    /\ place \in {"inspect", "image", "pull", "decide", "stop", "remove", "gone", "create", "update"} =>
         ~r.fresh
    /\ place = "health" => task.state = "healthy"
    /\ place = "exit" => ~task.detach /\ Container!Live(task)

(* The image is there, and is the newest if the task wants that; the       *)
(* container is as it was seen; and what is left of the networks to leave  *)
(* and to join makes those of the task.                                    *)
ContainerImages(task, h) ==
    task.image => h.local # 0 /\ (task.pull = "always" => h.local = h.registry)
ContainerSeen(h, r) ==
    r.exists = (h.there # "no") /\ r.dying = (h.there = "removing") /\ r.old = h.c
ContainerNets(task, h, r) ==
    /\ task.network_given /\ (task.comparisons["networks"] # "ignore" \/ r.fresh) =>
         task.networks \subseteq h.c.nets \union r.join /\ r.drop \cap task.networks = {}
    /\ task.network_given /\ task.comparisons["networks"] = "strict" =>
         (h.c.nets \ r.drop) \union r.join \subseteq task.networks
ContainerKnows(place, task, h, r, c, touched, checking) ==
    /\ checking => ~touched
    /\ place \notin {"answer", "failed"} /\ touched => c
    /\ place = "answer" /\ touched => c \/ ContainerHides(task)
    /\ place \in {"inspect", "image", "pull"} => ~c
    /\ r.fresh => c
    /\ place \in {"stop", "remove", "gone", "create", "created", "rollback", "update"} => c
    /\ place \in {"image", "pull", "decide", "stop"} => ContainerSeen(h, r)
    /\ place \notin {"inspect", "image", "pull"} /\ ~checking /\ task.state # "absent" =>
         ContainerImages(task, h)
    /\ place = "pull" => task.pull # "never" /\ (task.pull = "always" \/ h.local = 0)
    /\ place = "remove" => ~h.c.running
    /\ place = "create" => h.there = "no"
    /\ place \in {"created", "networks", "life", "pause", "health"} => ContainerFits(task, h)
    /\ place \in {"update", "networks", "life", "pause", "health"} => ContainerNets(task, h, r)
    /\ place = "update" =>
         h.there = "yes" /\ (task.recreate = "never" \/ ~ContainerDiffers(task, h.c, h.local))
    /\ place = "networks" /\ ~c => r.drop = {} /\ r.join = {}
    /\ place \in {"life", "pause", "health"} => r.drop = {} /\ r.join = {}
    /\ place \in {"networks", "life"} /\ ~c => ~Container!NeedsLifecycle(task, h.c)
    /\ place = "pause" =>
         /\ Container!Live(task) => h.c.running /\ (~c => ~Container!NeedsPause(task, h.c))
         /\ task.state = "stopped" => ~h.c.running
    /\ place = "health" => h.c.running /\ ~Container!NeedsPause(task, h.c)
    /\ place = "answer" =>
         /\ ~checking \/ ~c => ContainerHas(task, h, checking)
         /\ ~checking /\ ContainerSettles(task, h, FALSE) => ~ContainerChange(task, h)
ContainerFine(place, task, h, r, c, touched, checking, expect, again) ==
    /\ ContainerKnows(place, task, h, r, c, touched, checking)
    /\ ~checking /\ expect # "none" /\ ContainerForetells(task) =>
          (expect = "changed" <=> ContainerWill(place, task, h, r, c))
    /\ checking /\ ContainerForetells(task) => (ContainerWill(place, task, h, r, c) <=> ContainerChange(task, h))
    /\ again /\ ContainerSettles(task, h, checking) => ~ContainerWill(place, task, h, r, c) /\ ~touched
ContainerInv ==
    /\ RunTyped(ContainerHosts, ContainerTasks, Container!Places, ContainerReads)
    /\ run.at # "idle" => ContainerAlways(run.at, run.task, actual, run.read, Checking)
    /\ run.at # "idle" /\ ~run.disturbed =>
          ContainerFine(run.at, run.task, actual, run.read, run.changed, run.touched, Checking,
                run.expect, run.again)
    /\ memo.forecast # "none" /\ ContainerForetells(run.task) =>
          (memo.forecast = "changed" <=> ContainerChange(run.task, actual))
    /\ memo.settled /\ ContainerSettles(run.task, actual, FALSE) => ~ContainerChange(run.task, actual)
ContainerRespects ==
    /\ RunMoves /\ Truthful(Container!Satisfied(run.task, actual), ContainerHides(run.task))
    /\ Container!Predicts /\ Container!Idempotent /\ ContainerMore

LEMMA ContainerGiven ==
    ContainerInv =>
      /\ actual \in ContainerHosts /\ run.changed \in BOOLEAN /\ run.touched \in BOOLEAN
      /\ "idle" \notin Container!Places /\ run.at \in Container!Places \union {"idle"}
      /\ run.task \in ContainerTasks /\ run.mode \in {"check", "apply"} /\ run.disturbed \in BOOLEAN
      /\ run.at # "idle" => run.read \in ContainerReads /\ run.reply = "none"
  BY DEF ContainerInv, RunTyped, RunStates, Idle, At, Container!Places

LEMMA ContainerRuns ==
    ContainerInv /\ run.at # "idle" /\ ~run.disturbed =>
      ContainerFine(run.at, run.task, actual, run.read, run.changed, run.touched, Checking,
            run.expect, run.again)
  BY DEF ContainerInv

LEMMA ContainerSilent ==
    ASSUME ~AnswersOK, RunMoves, ContainerMore PROVE ContainerRespects
  BY DEF ContainerRespects, Truthful, Container!Predicts, Container!Foretold, Container!Idempotent, Container!Unchanging,
     Container!AnswersOK, AnswersOK, Container!Answers, Answers, Container!Idle, Idle, Container!At, At

LEMMA ContainerStep ==
    ASSUME ContainerInv, run.at # "idle", NEW place \in Container!Places, NEW a \in ContainerHosts,
           NEW r \in ContainerReads, NEW c \in BOOLEAN, Step(place, a, r, c), ContainerMore,
           Checking => a = actual, ContainerAlways(place, run.task, a, r, Checking),
           ~run.disturbed =>
             /\ ContainerKnows(place, run.task, a, r, c, run.touched \/ a # actual, Checking)
             /\ ContainerForetells(run.task) =>
                  (ContainerWill(place, run.task, a, r, c) <=>
                     ContainerWill(run.at, run.task, actual, run.read, run.changed))
             /\ ContainerSettles(run.task, a, Checking) =>
                  /\ ContainerSettles(run.task, actual, Checking)
                  /\ a # actual \/ ContainerWill(place, run.task, a, r, c) =>
                        ContainerWill(run.at, run.task, actual, run.read, run.changed)
    PROVE ContainerInv' /\ ContainerRespects
<1>1. /\ RunTyped(ContainerHosts, ContainerTasks, Container!Places, ContainerReads)' /\ actual' = a
      /\ run'.at = place /\ run'.read = r /\ run'.changed = c /\ run'.task = run.task
      /\ run'.mode = run.mode /\ run'.expect = run.expect /\ run'.again = run.again
      /\ run'.disturbed = run.disturbed /\ run'.touched = (run.touched \/ a # actual)
      /\ memo'.settled => memo.settled /\ a = actual
      /\ memo'.forecast # "none" => memo'.forecast = memo.forecast /\ a = actual
      /\ RunMoves /\ place # "idle"
  <2>1. /\ RunTyped(ContainerHosts, ContainerTasks, Container!Places, ContainerReads) /\ "idle" \notin Container!Places
        /\ ~Idle /\ place # "idle"
    BY ContainerGiven DEF ContainerInv, Idle, At
  <2> QED
    BY <2>1, RunStep
<1>2. ContainerInv'
  <2>1. ContainerAlways(run'.at, run'.task, actual', run'.read, Checking')
    BY <1>1 DEF Checking
  <2>2. ASSUME ~run'.disturbed
        PROVE ContainerFine(run'.at, run'.task, actual', run'.read, run'.changed, run'.touched, Checking',
                    run'.expect, run'.again)
    <3>1. ContainerFine(run.at, run.task, actual, run.read, run.changed, run.touched, Checking,
                run.expect, run.again)
      BY <1>1, <2>2, ContainerRuns
    <3>2. ContainerFine(place, run.task, a, r, c, run.touched \/ a # actual, Checking,
                run.expect, run.again)
      BY <1>1, <2>2, <3>1 DEF ContainerFine
    <3> QED
      BY <1>1, <3>2 DEF Checking
  <2>3. /\ memo'.forecast # "none" /\ ContainerForetells(run'.task) =>
             (memo'.forecast = "changed" <=> ContainerChange(run'.task, actual'))
        /\ memo'.settled /\ ContainerSettles(run'.task, actual', FALSE) => ~ContainerChange(run'.task, actual')
    BY <1>1 DEF ContainerInv
  <2> QED
    BY <1>1, <2>1, <2>2, <2>3 DEF ContainerInv
<1> QED
  BY <1>1, <1>2, RunSilent, ContainerSilent

LEMMA ContainerGoes ==
    ASSUME ContainerInv, run.at # "idle", NEW place \in Container!Places, NEW r \in ContainerReads, NEW c \in BOOLEAN,
           Step(place, actual, r, c), ContainerMore, ContainerAlways(place, run.task, actual, r, Checking),
           ~run.disturbed =>
             /\ ContainerKnows(place, run.task, actual, r, c, run.touched, Checking)
             /\ ContainerForetells(run.task) =>
                  (ContainerWill(place, run.task, actual, r, c) <=>
                     ContainerWill(run.at, run.task, actual, run.read, run.changed))
             /\ ContainerSettles(run.task, actual, Checking) /\ ContainerWill(place, run.task, actual, r, c) =>
                  ContainerWill(run.at, run.task, actual, run.read, run.changed)
    PROVE ContainerInv' /\ ContainerRespects
<1>1. actual \in ContainerHosts /\ (run.touched \/ actual # actual) = run.touched
  BY ContainerGiven
<1> QED
  BY <1>1, ContainerStep

LEMMA ContainerStops ==
    ASSUME ContainerInv, run.at # "idle", NEW reply \in {"failed", "refused", "killed"}, Stops(reply), ContainerMore
    PROVE ContainerInv' /\ ContainerRespects
<1>1. /\ RunTyped(ContainerHosts, ContainerTasks, Container!Places, ContainerReads)' /\ run'.at = "idle" /\ actual' = actual
      /\ run'.reply = reply /\ run'.task = run.task /\ memo' = memo /\ RunMoves
  BY RunStops DEF ContainerInv, Replies, Idle, At
<1>2. ContainerInv'
  BY <1>1 DEF ContainerInv
<1> QED
  BY <1>1, <1>2, RunSilent, ContainerSilent

LEMMA ContainerAnswers ==
    ASSUME ContainerInv, run.at # "idle", NEW c \in BOOLEAN, Answer(c), ContainerMore,
           ~run.disturbed =>
             /\ c <=> ContainerWill(run.at, run.task, actual, run.read, run.changed)
             /\ IF c THEN ~Checking => Container!Satisfied(run.task, actual)
                     ELSE Container!Satisfied(run.task, actual) /\ (run.touched => ContainerHides(run.task))
             /\ ~Checking /\ ContainerSettles(run.task, actual, FALSE) => ~ContainerChange(run.task, actual)
    PROVE ContainerInv' /\ ContainerRespects
<1>1. /\ RunTyped(ContainerHosts, ContainerTasks, Container!Places, ContainerReads)' /\ run'.at = "idle" /\ actual' = actual
      /\ run'.reply = "ok" /\ run'.changed = c /\ run'.task = run.task /\ run'.mode = run.mode
      /\ IF Checking THEN memo'.settled = memo.settled ELSE memo'.settled => ~run.disturbed
      /\ memo'.forecast # "none" =>
            Checking /\ ~run.disturbed /\ (memo'.forecast = "changed" <=> c)
      /\ RunMoves
  BY RunAnswers DEF ContainerInv, Idle, At
<1>0. ~run.disturbed =>
        /\ ~Checking /\ run.expect # "none" /\ ContainerForetells(run.task) => (run.expect = "changed" <=> c)
        /\ Checking /\ ContainerForetells(run.task) => (c <=> ContainerChange(run.task, actual))
        /\ run.again /\ ContainerSettles(run.task, actual, Checking) => ~c /\ ~run.touched
  BY ContainerRuns DEF ContainerFine
<1>2. ContainerInv'
  <2>1. memo'.forecast # "none" /\ ContainerForetells(run'.task) =>
             (memo'.forecast = "changed" <=> ContainerChange(run'.task, actual'))
    <3>1. ~run.disturbed /\ Checking /\ ContainerForetells(run.task) => (c <=> ContainerChange(run.task, actual))
      BY <1>0
    <3> QED
      BY <1>1, <3>1
  <2>2. memo'.settled /\ ContainerSettles(run'.task, actual', FALSE) => ~ContainerChange(run'.task, actual')
    BY <1>1 DEF ContainerInv
  <2> QED
    BY <1>1, <2>1, <2>2 DEF ContainerInv
<1>3. Truthful(Container!Satisfied(run.task, actual), ContainerHides(run.task))
  BY <1>1 DEF Truthful
<1>5. Container!Predicts
  BY <1>0, <1>1 DEF Container!Predicts, Container!Foretold, Container!Checking, Checking, Container!t, ContainerForetells
<1>6. Container!Idempotent
  BY <1>0, <1>1 DEF Container!Idempotent, Container!Unchanging, Container!Checking, Checking, Container!t, ContainerSettles, Container!Announced
<1> QED
  BY <1>1, <1>2, <1>3, <1>5, <1>6 DEF ContainerRespects

LEMMA ContainerBegins ==
    ASSUME ContainerInv, run.at = "idle", NEW task \in ContainerTasks, NEW m \in {"check", "apply"},
           NEW place \in Container!Places, NEW r \in ContainerReads, Begin(task, m, place, r), ContainerMore,
           ContainerAlways(place, task, actual, r, m = "check"),
           ContainerKnows(place, task, actual, r, FALSE, FALSE, m = "check"),
           \/ m = "check" /\ ~ContainerSettles(task, actual, TRUE) /\ ~ContainerForetells(task)
           \/ ContainerWill(place, task, actual, r, FALSE) <=> ContainerChange(task, actual),
           ContainerSettles(task, actual, TRUE) => ContainerSettles(task, actual, FALSE)
    PROVE ContainerInv' /\ ContainerRespects
<1>1. /\ RunTyped(ContainerHosts, ContainerTasks, Container!Places, ContainerReads)' /\ actual' = actual
      /\ run'.at = place /\ run'.read = r /\ run'.task = task /\ run'.mode = m
      /\ run'.disturbed = FALSE /\ run'.touched = FALSE /\ run'.changed = FALSE /\ RunMoves
      /\ run'.again \/ memo'.settled => memo.settled /\ task = run.task
      /\ run'.expect # "none" => run'.expect = memo.forecast /\ task = run.task
      /\ memo'.forecast # "none" => memo'.forecast = memo.forecast /\ task = run.task
      /\ Checking' = (m = "check") /\ run'.at # "idle"
  <2>1. /\ RunTyped(ContainerHosts, ContainerTasks, Container!Places, ContainerReads)' /\ actual' = actual
        /\ run'.at = place /\ run'.read = r /\ run'.task = task /\ run'.mode = m
        /\ ~run'.disturbed /\ ~run'.touched /\ ~run'.changed /\ RunMoves
        /\ run'.again \/ memo'.settled => memo.settled /\ task = run.task
        /\ run'.expect # "none" => run'.expect = memo.forecast /\ task = run.task
        /\ memo'.forecast # "none" => memo'.forecast = memo.forecast /\ task = run.task
    <3>1. RunTyped(ContainerHosts, ContainerTasks, Container!Places, ContainerReads) /\ "idle" \notin Container!Places
      BY ContainerGiven DEF ContainerInv
    <3> QED
      BY <3>1, RunBegin
  <2>2. /\ run'.disturbed \in BOOLEAN /\ run'.touched \in BOOLEAN /\ run'.changed \in BOOLEAN
    BY <2>1 DEF RunTyped, RunStates
  <2> QED
    BY <2>1, <2>2, ContainerGiven DEF Checking
<1>2. ContainerInv'
  <2>1. ContainerAlways(run'.at, run'.task, actual', run'.read, Checking')
    BY <1>1
  <2>2. /\ memo'.forecast # "none" /\ ContainerForetells(run'.task) =>
             (memo'.forecast = "changed" <=> ContainerChange(run'.task, actual'))
        /\ memo'.settled /\ ContainerSettles(run'.task, actual', FALSE) => ~ContainerChange(run'.task, actual')
    BY <1>1 DEF ContainerInv
  <2>3. ContainerFine(run'.at, run'.task, actual', run'.read, run'.changed, run'.touched, Checking',
              run'.expect, run'.again)
    <3>1. ~Checking' /\ run'.expect # "none" /\ ContainerForetells(task) =>
             (run'.expect = "changed" <=> ContainerWill(place, task, actual, r, FALSE))
      BY <1>1 DEF ContainerInv
    <3>2. run'.again /\ ContainerSettles(task, actual, Checking') => ~ContainerWill(place, task, actual, r, FALSE)
      BY <1>1 DEF ContainerInv
    <3>3. ContainerFine(place, task, actual, r, FALSE, FALSE, Checking', run'.expect, run'.again)
      BY <1>1, <3>1, <3>2 DEF ContainerFine
    <3> QED
      BY <1>1, <3>3
  <2> QED
    BY <1>1, <2>1, <2>2, <2>3 DEF ContainerInv
<1> QED
  BY <1>1, <1>2, RunSilent, ContainerSilent DEF Idle, At

LEMMA ContainerInterferes ==
    ASSUME ContainerInv, NEW a \in ContainerHosts, Interferes(a), ContainerMore,
           run.at # "idle" => ContainerAlways(run.at, run.task, a, run.read, Checking)
    PROVE ContainerInv' /\ ContainerRespects
<1>1. /\ RunTyped(ContainerHosts, ContainerTasks, Container!Places, ContainerReads)' /\ actual' = a
      /\ run'.at = run.at /\ run'.read = run.read /\ run'.task = run.task
      /\ run'.mode = run.mode /\ (run.at = "idle" \/ run'.disturbed)
      /\ ~memo'.settled /\ memo'.forecast = "none" /\ RunMoves
  BY RunInterferes DEF ContainerInv
<1>2. ContainerInv'
  BY <1>1 DEF ContainerInv, Checking
<1>3. ~AnswersOK
  BY <1>1 DEF AnswersOK, Answers, Idle, At
<1> QED
  BY <1>1, <1>2, <1>3, ContainerSilent

LEMMA ContainerStutters == ASSUME ContainerInv, UNCHANGED vars, ContainerMore PROVE ContainerInv' /\ ContainerRespects
<1>1. run' = run /\ actual' = actual /\ memo' = memo
  BY DEF vars
<1>2. ContainerInv'
  BY <1>1 DEF ContainerInv, RunTyped, Idle, At, Checking
<1>3. ~AnswersOK /\ RunMoves
  BY <1>1 DEF AnswersOK, Answers, Idle, At, RunMoves
<1> QED
  BY <1>2, <1>3, ContainerSilent

(* The tasks, and what the constants are of.                               *)
LEMMA ContainerAsks ==
    /\ Container!NoContainer.nets = {} /\ Container!NoContainer.image = 0
    /\ Container!NoContainer.running = FALSE /\ Container!NoContainer.paused = FALSE
    /\ 0 \in Versions /\ Versions \subseteq Nat /\ bridge \in Links /\ Mutable \subseteq Options
    /\ ContainerTasks \subseteq Container!Requests /\ Machines \subseteq ContainerHosts
    /\ ImageValue \in [Versions \ {0} -> [Options -> SUBSET Elements]]
    /\ \A v \in Versions \ {0}, o \in Mutable : ImageValue[v][o] = {}
    /\ \A task \in ContainerTasks :
          /\ task.state \in {"absent", "present", "started", "healthy", "stopped"}
          /\ DOMAIN task.options \subseteq Options
          /\ \A o \in DOMAIN task.options : task.options[o] \in SUBSET Elements
          /\ task.comparisons \in [Options \union {"networks", "image"} ->
                                     {"strict", "allow_more_present", "ignore"}]
          /\ {task.image, task.network_given, task.cli_compatible, task.pull_in_check, task.restart,
              task.detach, task.cleanup, task.force_kill} \subseteq BOOLEAN
          /\ task.networks \in SUBSET Links /\ task.pull \in {"never", "missing", "always"}
          /\ task.image_comparison \in {"desired-image", "current-image"}
          /\ task.recreate \in {"auto", "always", "never"} /\ task.paused \in {"any", "yes", "no"}
<1>1. Container!TaskAssumption
  BY DockerAssumption
<1>2. /\ Container!NoContainer.nets = {} /\ Container!NoContainer.image = 0
      /\ Container!NoContainer.running = FALSE /\ Container!NoContainer.paused = FALSE
  BY DEF Container!NoContainer
<1>3. ASSUME NEW task \in ContainerTasks
      PROVE /\ task.state \in {"absent", "present", "started", "healthy", "stopped"}
            /\ task.options \in UNION {[D -> SUBSET Elements] : D \in SUBSET Options}
            /\ task.comparisons \in [Options \union {"networks", "image"} ->
                                       {"strict", "allow_more_present", "ignore"}]
            /\ {task.image, task.network_given, task.cli_compatible, task.pull_in_check,
                task.restart, task.detach, task.cleanup, task.force_kill} \subseteq BOOLEAN
            /\ task.networks \in SUBSET Links /\ task.pull \in {"never", "missing", "always"}
            /\ task.image_comparison \in {"desired-image", "current-image"}
            /\ task.recreate \in {"auto", "always", "never"} /\ task.paused \in {"any", "yes", "no"}
  BY <1>1 DEF Container!TaskAssumption, Container!Requests, Container!Given, Container!Modes
<1>4. ASSUME NEW task \in ContainerTasks
      PROVE /\ DOMAIN task.options \subseteq Options
            /\ \A o \in DOMAIN task.options : task.options[o] \in SUBSET Elements
  <2>1. PICK D \in SUBSET Options : task.options \in [D -> SUBSET Elements]
    BY <1>3
  <2> QED
    BY <2>1
<1> QED
  BY <1>1, <1>2, <1>3, <1>4 DEF Container!TaskAssumption, ContainerHosts

(* The host, and what changes of it.                                       *)
LEMMA ContainerHost ==
    ASSUME NEW h \in ContainerHosts
    PROVE /\ h = [there |-> h.there, c |-> h.c, local |-> h.local, registry |-> h.registry]
          /\ h.there \in {"no", "yes", "removing"} /\ h.local \in Versions
          /\ h.registry \in Versions \ {0} /\ (h.c = Container!NoContainer <=> h.there = "no")
          /\ h.c.running \in BOOLEAN /\ h.c.paused \in BOOLEAN /\ (h.c.paused => h.c.running)
          /\ h.there # "yes" => ~h.c.running
          /\ h.there # "no" => h.c \in Container!Containers
          /\ h.c.nets \in SUBSET Links /\ h.c.image \in Versions
          /\ h.c \in Container!Containers \union {Container!NoContainer}
<1>1. /\ h = [there |-> h.there, c |-> h.c, local |-> h.local, registry |-> h.registry]
      /\ h.there \in {"no", "yes", "removing"} /\ h.local \in Versions
      /\ h.registry \in Versions \ {0} /\ (h.c = Container!NoContainer <=> h.there = "no")
      /\ h.c \in Container!Containers \union {Container!NoContainer}
      /\ h.c.paused => h.c.running
      /\ h.there = "removing" => ~h.c.running
  BY DEF ContainerHosts, Container!HostStates
<1>2. CASE h.there = "no"
  BY <1>1, <1>2, ContainerAsks
<1>3. CASE h.there # "no"
  <2>1. h.c \in Container!Containers
    BY <1>1, <1>3
  <2> QED
    BY <1>1, <1>3, <2>1 DEF Container!Containers
<1> QED
  BY <1>2, <1>3

LEMMA ContainerMade ==
    ASSUME NEW there \in {"yes", "removing"}, NEW q \in Container!Containers,
           q.paused => q.running, there = "removing" => ~q.running,
           NEW v \in Versions, NEW w \in Versions \ {0}
    PROVE [there |-> there, c |-> q, local |-> v, registry |-> w] \in ContainerHosts
<1>1. q # Container!NoContainer
  BY DEF Container!Containers, Container!NoContainer
<1> QED
  BY <1>1 DEF ContainerHosts, Container!HostStates

LEMMA ContainerWith ==
    ASSUME actual \in ContainerHosts, actual.there # "no", NEW q \in Container!Containers,
           q.paused => q.running, actual.there = "removing" => ~q.running
    PROVE LET a == Container!WithContainer(q) IN
          /\ a \in ContainerHosts /\ a.c = q /\ a.there = actual.there
          /\ a.local = actual.local /\ a.registry = actual.registry
<1> DEFINE a == Container!WithContainer(q)
<1>1. a = [there |-> actual.there, c |-> q, local |-> actual.local, registry |-> actual.registry]
  BY ContainerHost DEF Container!WithContainer
<1>2. a \in ContainerHosts
  BY <1>1, ContainerHost, ContainerMade
<1> QED
  BY <1>1, <1>2

LEMMA ContainerGone ==
    ASSUME actual \in ContainerHosts
    PROVE /\ Container!Gone \in ContainerHosts /\ Container!Gone.c = Container!NoContainer
          /\ Container!Gone.there = "no" /\ Container!Gone.local = actual.local
          /\ Container!Gone.registry = actual.registry /\ Container!Gone.c.running = FALSE
<1>1. Container!Gone = [there |-> "no", c |-> Container!NoContainer, local |-> actual.local,
                        registry |-> actual.registry]
  <2>1. actual = [there |-> actual.there, c |-> actual.c, local |-> actual.local,
                  registry |-> actual.registry]
    BY ContainerHost
  <2> DEFINE g == [actual EXCEPT !.there = "no"]
  <2>2. g = [there |-> "no", c |-> actual.c, local |-> actual.local, registry |-> actual.registry]
    BY <2>1
  <2>3. Container!Gone = [g EXCEPT !.c = Container!NoContainer]
    BY DEF Container!Gone
  <2> HIDE DEF g
  <2> QED
    BY <2>2, <2>3
<1>2. ASSUME NEW v \in Versions, NEW w \in Versions \ {0}
      PROVE [there |-> "no", c |-> Container!NoContainer, local |-> v, registry |-> w]
              \in ContainerHosts
  <2> DEFINE g == [there |-> "no", c |-> Container!NoContainer, local |-> v, registry |-> w]
  <2>1. /\ g.there = "no" /\ g.c = Container!NoContainer
        /\ g \in [there : {"no", "yes", "removing"},
                  c : Container!Containers \union {Container!NoContainer},
                  local : Versions, registry : Versions \ {0}]
    OBVIOUS
  <2> HIDE DEF g
  <2>2. g \in ContainerHosts
    BY <2>1, ContainerAsks DEF ContainerHosts, Container!HostStates
  <2> QED
    BY <2>2 DEF g
<1>3. Container!Gone \in ContainerHosts
  BY <1>1, <1>2, ContainerHost
<1> QED
  BY <1>1, <1>3, ContainerAsks

(* When a container is to be made anew, and what a task asks for.          *)
LEMMA ContainerRenews ==
    ASSUME NEW task, NEW c, NEW id
    PROVE Container!MustRecreate(task, c, id) <=>
             \/ task.recreate = "always"
             \/ task.recreate = "auto" /\ ContainerDiffers(task, c, id)
  BY DEF Container!MustRecreate, ContainerDiffers

LEMMA ContainerMeans ==
    ASSUME NEW task \in ContainerTasks, NEW h
    PROVE Container!Satisfied(task, h) <=> ContainerHas(task, h, Checking)
<1> DEFINE s == [task EXCEPT !.recreate = IF @ = "never" THEN @ ELSE "auto"]
<1>1. /\ s.recreate = (IF task.recreate = "never" THEN "never" ELSE "auto")
      /\ s.options = task.options /\ s.comparisons = task.comparisons /\ s.image = task.image
      /\ s.image_comparison = task.image_comparison
  BY ContainerAsks DEF Container!Requests
<1> HIDE DEF s
<1>2. ContainerDiffers(s, h.c, h.local) <=> ContainerDiffers(task, h.c, h.local)
  BY <1>1 DEF ContainerDiffers, Container!ImageDiffers, Container!Different, Container!Expected,
     Container!ComparisonImage
<1>3. Container!MustRecreate(s, h.c, h.local) <=>
         task.recreate # "never" /\ ContainerDiffers(task, h.c, h.local)
  BY <1>1, <1>2, ContainerRenews
<1>4. Container!Satisfied(task, h) <=>
         IF task.state = "absent" THEN h.there # "yes"
         ELSE IF ~task.detach /\ Container!Live(task) THEN task.cleanup /\ ~Checking => ~h.c.running
         ELSE /\ h.there = "yes" /\ ~Container!MustRecreate(s, h.c, h.local)
              /\ ~Container!MustUpdate(task, h.c, h.local)
              /\ Container!Connect(task, h.c) = {} /\ Container!Disconnect(task, h.c) = {}
              /\ Container!Live(task) => h.c.running /\ ~Container!NeedsPause(task, h.c)
              /\ task.state = "stopped" => ~h.c.running
              /\ task.state = "healthy" /\ ~Checking => h.c.health \in {"none", "healthy"}
  BY DEF s, Container!Satisfied, Container!Checking, Checking
<1> QED
  BY <1>3, <1>4 DEF ContainerHas, ContainerFits

LEMMA ContainerInit == Container!Init => ContainerInv
<1> SUFFICES ASSUME Container!Init PROVE ContainerInv
  OBVIOUS
<1>1. InitRuns(Machines, ContainerTasks) /\ Machines \in SUBSET ContainerHosts
  BY ContainerIsARun, ContainerAsks DEF Container!Init
<1> QED
  BY <1>1, RunInit DEF ContainerInv


(* A step that does not answer and starts nothing.                         *)
LEMMA ContainerQuiet ==
    ASSUME run'.at # "idle" \/ run.at = "idle" \/ run'.reply # "refused",
           run.at # "idle" /\ run.read.fresh /\ ~run.disturbed /\ run.task.network_given
             /\ actual'.c.running /\ ~actual.c.running
               => run.task.networks \subseteq actual.c.nets
    PROVE ContainerMore
  BY DEF ContainerMore, Container!Recovers, Container!Recovering, Container!StartedOnItsNetworks,
     Container!Answers, Container!Idle, Container!At, Container!t, Container!now

LEMMA ContainerMoves ==
    ASSUME ContainerInv, run.at # "idle", NEW place \in Container!Places, NEW a \in ContainerHosts,
           NEW r \in ContainerReads, NEW c \in BOOLEAN, Step(place, a, r, c),
           Checking => a = actual, ContainerAlways(place, run.task, a, r, Checking),
           run.read.fresh /\ ~run.disturbed /\ run.task.network_given
             /\ a.c.running /\ ~actual.c.running
               => run.task.networks \subseteq actual.c.nets,
           run.task.state = "absent" /\ actual.there = "removing" => a.there = "removing",
           ~run.disturbed =>
             /\ ContainerKnows(place, run.task, a, r, c, run.touched \/ a # actual, Checking)
             /\ ContainerForetells(run.task) =>
                  (ContainerWill(place, run.task, a, r, c) <=>
                     ContainerWill(run.at, run.task, actual, run.read, run.changed))
             /\ (ContainerSettles(run.task, a, Checking)
                   /\ (a # actual \/ ContainerWill(place, run.task, a, r, c)))
                  => ContainerWill(run.at, run.task, actual, run.read, run.changed)
    PROVE ContainerInv' /\ ContainerRespects
<1>1. run'.at = place /\ place # "idle" /\ actual' = a
  BY ContainerGiven DEF Step, ContainerInv, RunTyped, RunStates
<1>2. ContainerMore
  BY <1>1, ContainerQuiet
<1>3. ContainerSettles(run.task, a, Checking) => ContainerSettles(run.task, actual, Checking)
  BY DEF ContainerSettles
<1>4. ~run.disturbed /\ ContainerSettles(run.task, a, Checking) =>
        /\ ContainerSettles(run.task, actual, Checking)
        /\ a # actual \/ ContainerWill(place, run.task, a, r, c) =>
              ContainerWill(run.at, run.task, actual, run.read, run.changed)
  BY <1>3
<1> QED
  BY <1>2, <1>4, ContainerStep

LEMMA ContainerReadsOn ==
    ASSUME ContainerInv, run.at # "idle", NEW place \in Container!Places,
           NEW r \in ContainerReads, NEW c \in BOOLEAN, Step(place, actual, r, c),
           ContainerAlways(place, run.task, actual, r, Checking),
           ~run.disturbed =>
             /\ ContainerKnows(place, run.task, actual, r, c, run.touched, Checking)
             /\ ContainerForetells(run.task) =>
                  (ContainerWill(place, run.task, actual, r, c) <=>
                     ContainerWill(run.at, run.task, actual, run.read, run.changed))
             /\ (ContainerSettles(run.task, actual, Checking)
                   /\ ContainerWill(place, run.task, actual, r, c))
                  => ContainerWill(run.at, run.task, actual, run.read, run.changed)
    PROVE ContainerInv' /\ ContainerRespects
<1>1. run'.at = place /\ place # "idle" /\ actual' = actual
  BY ContainerGiven DEF Step, ContainerInv, RunTyped, RunStates
<1>2. ContainerMore
  BY <1>1, ContainerQuiet
<1> QED
  BY <1>2, ContainerGoes

(* Where a run is.                                                         *)
LEMMA ContainerHere ==
    ASSUME ContainerInv, run.at # "idle"
    PROVE /\ actual \in ContainerHosts /\ run.task \in ContainerTasks /\ run.read \in ContainerReads
          /\ run.changed \in BOOLEAN /\ run.touched \in BOOLEAN
          /\ ContainerAlways(run.at, run.task, actual, run.read, Checking)
          /\ ~run.disturbed =>
               ContainerKnows(run.at, run.task, actual, run.read, run.changed, run.touched, Checking)
<1>1. /\ actual \in ContainerHosts /\ run.task \in ContainerTasks /\ run.read \in ContainerReads
      /\ run.changed \in BOOLEAN /\ run.touched \in BOOLEAN
  BY ContainerGiven
<1>2. /\ ContainerAlways(run.at, run.task, actual, run.read, Checking)
      /\ ~run.disturbed =>
            ContainerKnows(run.at, run.task, actual, run.read, run.changed, run.touched, Checking)
  BY ContainerRuns DEF ContainerInv, ContainerFine
<1> QED
  BY <1>1, <1>2

(* What fits a task does not depend on the networks and the life of a      *)
(* container.                                                              *)
LEMMA ContainerKept ==
    ASSUME NEW task, NEW h, NEW g, g.there = h.there, g.local = h.local,
           g.c.options = h.c.options, g.c.image = h.c.image
    PROVE ContainerFits(task, g) <=> ContainerFits(task, h)
<1>1. Container!Different(task, g.c, g.local) = Container!Different(task, h.c, h.local)
  BY DEF Container!Different, Container!ComparisonImage
<1> QED
  BY <1>1 DEF ContainerFits, ContainerDiffers, Container!MustUpdate, Container!ImageDiffers

(* A container that is as its task wants it needs nothing more.            *)
LEMMA ContainerDone ==
    ASSUME NEW task \in ContainerTasks, NEW h, NEW r, task.state # "absent",
           ContainerFits(task, h), ContainerImages(task, h),
           ContainerNets(task, h, r), r.drop = {}, r.join = {}, task.detach \/ ~Container!Live(task),
           Container!Live(task) => h.c.running /\ ~Container!NeedsPause(task, h.c),
           task.state = "stopped" => ~h.c.running,
           task.state = "healthy" => h.c.health \in {"none", "healthy"}
    PROVE /\ ContainerHas(task, h, FALSE)
          /\ ContainerSettles(task, h, FALSE) => ~ContainerChange(task, h)
<1>1. Container!Connect(task, h.c) = {} /\ Container!Disconnect(task, h.c) = {}
  BY DEF ContainerNets, Container!Connect, Container!Disconnect
<1>2. ContainerHas(task, h, FALSE)
  BY <1>1, ContainerAsks DEF ContainerHas
<1>3. ASSUME ContainerSettles(task, h, FALSE) PROVE ~ContainerChange(task, h)
  <2>1. /\ task.recreate # "always" /\ ~task.restart /\ (task.paused # "any" => Container!Live(task))
    BY <1>3 DEF ContainerSettles, Container!Settles
  <2>2. ~Container!MustRecreate(task, h.c, h.local)
    BY <2>1, ContainerRenews DEF ContainerFits
  <2>3. ~Container!NeedsLifecycle(task, h.c)
    BY <2>1 DEF Container!NeedsLifecycle, Container!NeedsPause
  <2>4. ~ContainerPulls(task, h)
    BY DEF ContainerPulls, ContainerImages
  <2> QED
    BY <1>1, <2>2, <2>3, <2>4 DEF ContainerChange, ContainerLeft, ContainerFits
<1> QED
  BY <1>2, <1>3

(* The version of an image on the host, and what is created from it.       *)
LEMMA ContainerPulled ==
    ASSUME actual \in ContainerHosts, NEW v \in Versions
    PROVE LET a == [actual EXCEPT !.local = v] IN
          /\ a \in ContainerHosts /\ a.there = actual.there /\ a.c = actual.c /\ a.local = v
          /\ a.registry = actual.registry
  BY DEF ContainerHosts, Container!HostStates

(* What the inspection decides.                                            *)
LEMMA ContainerInspects ==
    ASSUME ContainerInv, Container!Inspect PROVE ContainerInv' /\ ContainerRespects
<1> DEFINE task == run.task
           k == [Container!Nothing EXCEPT !.exists = actual.there # "no",
                    !.dying = actual.there = "removing", !.old = actual.c]
           place == IF task.state # "absent" THEN "image"
                    ELSE IF k.exists /\ ~Checking THEN "stop" ELSE "answer"
           c == IF task.state = "absent" THEN k.exists ELSE run.changed
<1>1. run.at = "inspect" /\ run.at # "idle" /\ Step(place, actual, k, c)
  BY ContainerIsARun DEF Container!Inspect, Container!At, Container!t, Container!Checking, Checking
<1>2. /\ task \in ContainerTasks /\ actual \in ContainerHosts /\ run.changed \in BOOLEAN
      /\ run.touched \in BOOLEAN
  BY <1>1, ContainerHere
<1>3. /\ k \in ContainerReads /\ k.exists = (actual.there # "no")
      /\ k.dying = (actual.there = "removing") /\ k.old = actual.c /\ k.fresh = FALSE
  BY <1>2, ContainerHost DEF ContainerReads, Container!Snapshots, Container!Nothing
<1> HIDE DEF k
<1>4. /\ place \in Container!Places /\ c \in BOOLEAN
      /\ ContainerAlways(place, task, actual, k, Checking)
  BY <1>2, <1>3 DEF ContainerAlways, Container!Places
<1>5. ASSUME ~run.disturbed
      PROVE /\ ContainerKnows(place, task, actual, k, c, run.touched, Checking)
            /\ ContainerWill(place, task, actual, k, c) <=>
                 ContainerWill(run.at, task, actual, run.read, run.changed)
  <2>1. ~run.changed /\ ~run.touched
    BY <1>1, <1>5, ContainerHere DEF ContainerKnows
  <2>2. ContainerWill(run.at, task, actual, run.read, run.changed) <=> ContainerChange(task, actual)
    BY <1>1 DEF ContainerWill
  <2>3. CASE task.state # "absent"
    BY <1>3, <2>1, <2>2, <2>3 DEF ContainerKnows, ContainerSeen, ContainerWill
  <2>4. CASE task.state = "absent"
    <3>1. ContainerChange(task, actual) <=> k.exists
      BY <1>3, <2>4 DEF ContainerChange
    <3>2. ~k.exists => ContainerHas(task, actual, Checking)
      BY <1>3, <2>4 DEF ContainerHas
    <3> QED
      BY <1>3, <2>1, <2>2, <2>4, <3>1, <3>2 DEF ContainerKnows, ContainerSeen, ContainerWill
  <2> QED
    BY <2>3, <2>4
<1> HIDE DEF place, c
<1> QED
  BY <1>1, <1>3, <1>4, <1>5, ContainerReadsOn

(* The image is looked for, and pulled.                                    *)
LEMMA ContainerTakesImage ==
    ASSUME ContainerInv, Container!EnsureImage \/ Container!PullImage
    PROVE ContainerInv' /\ ContainerRespects
<1> DEFINE task == run.task
           r == run.read
<1>0. run.at \in {"image", "pull"} /\ run.at # "idle"
  BY DEF Container!EnsureImage, Container!PullImage, Container!At
<1>1. /\ task \in ContainerTasks /\ task.state # "absent" /\ actual \in ContainerHosts
      /\ r \in ContainerReads /\ run.changed \in BOOLEAN /\ run.touched \in BOOLEAN /\ ~r.fresh
      /\ {"decide", "pull"} \subseteq Container!Places
  BY <1>0, ContainerHere DEF ContainerAlways, Container!Places
<1>2. /\ actual.registry \in Versions /\ actual.registry # 0 /\ actual.local \in Versions
      /\ {task.image, task.pull_in_check} \subseteq BOOLEAN
      /\ task.pull \in {"never", "missing", "always"}
  BY <1>1, ContainerHost, ContainerAsks
<1>3. ContainerWill(run.at, task, actual, r, run.changed) <=> ContainerChange(task, actual)
  BY <1>0 DEF ContainerWill
<1>4. ~run.disturbed =>
        /\ ~run.changed /\ ~run.touched /\ ContainerSeen(actual, r)
        /\ run.at = "pull" => task.pull = "always" \/ actual.local = 0
  <2>1. ~run.disturbed => ContainerKnows(run.at, task, actual, r, run.changed, run.touched, Checking)
    BY <1>0, ContainerHere
  <2> QED
    BY <1>0, <2>1 DEF ContainerKnows
<1>5. CASE Container!EnsureImage
  <2> DEFINE needs == task.image /\ (task.pull = "always" \/ actual.local = 0)
             c == actual.local = 0 \/ task.pull_in_check
  <2>1. /\ run.at = "image" /\ ~(task.image /\ task.pull = "never" /\ actual.local = 0)
        /\ \/ needs /\ Checking /\ Step("decide", actual, r, c)
           \/ needs /\ ~Checking /\ Step("pull", actual, r, run.changed)
           \/ ~needs /\ Step("decide", actual, r, run.changed)
    BY <1>5, ContainerIsARun DEF Container!EnsureImage, Container!At, Container!t, Container!now,
       Container!Checking, Checking
  <2>2. /\ ContainerAlways("decide", task, actual, r, Checking)
        /\ ~Checking /\ needs => ContainerAlways("pull", task, actual, r, Checking)
    BY <1>1 DEF ContainerAlways
  <2>3. CASE needs /\ Checking /\ Step("decide", actual, r, c)
    <3>1. c \in BOOLEAN
      BY <1>2
    <3>2. ASSUME ~run.disturbed
          PROVE /\ ContainerKnows("decide", task, actual, r, c, run.touched, Checking)
                /\ ContainerForetells(task) =>
                     (ContainerWill("decide", task, actual, r, c) <=> ContainerChange(task, actual))
                /\ ContainerSettles(task, actual, Checking)
                     /\ ContainerWill("decide", task, actual, r, c) => ContainerChange(task, actual)
      <4>1. ContainerKnows("decide", task, actual, r, c, run.touched, Checking)
        BY <1>1, <1>4, <2>3, <3>2 DEF ContainerKnows
      <4>2. actual.local = 0 => ContainerChange(task, actual)
        BY <1>1, <1>2, <2>3 DEF ContainerChange, ContainerPulls
      <4>3. actual.there # "yes" \/ ContainerLeft(task, actual) => ContainerChange(task, actual)
        BY <1>1 DEF ContainerChange
      <4>4. ContainerWill("decide", task, actual, r, c) <=>
               c \/ actual.there # "yes" \/ ContainerLeft(task, actual)
        BY DEF ContainerWill
      <4> QED
        BY <2>3, <4>1, <4>2, <4>3, <4>4 DEF ContainerForetells, ContainerSettles
    <3> HIDE DEF c
    <3> QED
      BY <1>0, <1>1, <1>3, <2>2, <2>3, <3>1, <3>2, ContainerReadsOn
  <2>4. CASE needs /\ ~Checking /\ Step("pull", actual, r, run.changed)
    <3>1. ~run.disturbed => ContainerKnows("pull", task, actual, r, run.changed, run.touched, Checking)
      BY <1>1, <1>2, <1>4, <2>1, <2>4 DEF ContainerKnows
    <3>2. ContainerWill("pull", task, actual, r, run.changed) <=> ContainerChange(task, actual)
      BY DEF ContainerWill
    <3> QED
      BY <1>0, <1>1, <1>3, <2>2, <2>4, <3>1, <3>2, ContainerReadsOn
  <2>5. CASE ~needs /\ Step("decide", actual, r, run.changed)
    <3>1. ~run.disturbed => ContainerKnows("decide", task, actual, r, run.changed, run.touched, Checking)
      BY <1>1, <1>2, <1>4, <2>5 DEF ContainerKnows, ContainerImages
    <3>2. ~run.disturbed =>
            (ContainerWill("decide", task, actual, r, run.changed) <=> ContainerChange(task, actual))
      BY <1>1, <1>4, <2>5 DEF ContainerWill, ContainerChange, ContainerPulls
    <3> QED
      BY <1>0, <1>1, <1>3, <2>2, <2>5, <3>1, <3>2, ContainerReadsOn
  <2> QED
    BY <2>1, <2>3, <2>4, <2>5
<1>6. CASE Container!PullImage
  <2> DEFINE a == [actual EXCEPT !.local = actual.registry]
             c == actual.local # actual.registry
  <2>1. run.at = "pull" /\ Step("decide", a, r, c)
    BY <1>6, ContainerIsARun DEF Container!PullImage, Container!At, Container!now
  <2>2. /\ a \in ContainerHosts /\ a.there = actual.there /\ a.c = actual.c
        /\ a.local = actual.registry /\ a.registry = actual.registry
    BY <1>1, <1>2, ContainerPulled
  <2>3. c \in BOOLEAN /\ (~c => a = actual)
    BY <1>1, ContainerHost
  <2>4. ~Checking /\ task.image /\ ContainerAlways("decide", task, a, r, Checking)
    BY <1>0, <1>1, <2>1, ContainerHere DEF ContainerAlways
  <2> HIDE DEF a
  <2>5. ASSUME ~run.disturbed
        PROVE /\ ContainerKnows("decide", task, a, r, c, run.touched \/ a # actual, Checking)
              /\ ContainerWill("decide", task, a, r, c) <=> ContainerChange(task, actual)
              /\ a # actual => ContainerChange(task, actual)
    <3>1. ContainerSeen(a, r)
      BY <1>4, <2>2, <2>5 DEF ContainerSeen
    <3>2. ContainerImages(task, a)
      BY <1>2, <2>2 DEF ContainerImages
    <3>3. ContainerKnows("decide", task, a, r, c, run.touched \/ a # actual, Checking)
      BY <1>1, <1>4, <2>3, <2>4, <2>5, <3>1, <3>2 DEF ContainerKnows
    <3>4. ContainerPulls(task, actual) <=> c
      BY <1>4, <2>1, <2>4, <2>5 DEF ContainerPulls
    <3>5. ContainerChange(task, actual) <=>
             c \/ actual.there # "yes" \/ ContainerLeft(task, actual)
      BY <1>1, <3>4 DEF ContainerChange
    <3>6. ContainerWill("decide", task, a, r, c) <=> c \/ a.there # "yes" \/ ContainerLeft(task, a)
      BY DEF ContainerWill
    <3> QED
      BY <2>3, <3>3, <3>5, <3>6
  <2> HIDE DEF c
  <2> QED
    BY <1>0, <1>1, <1>3, <2>1, <2>2, <2>3, <2>4, <2>5, ContainerMoves
<1> QED
  BY <1>5, <1>6

(* What is to be done is decided with what was seen.                       *)
LEMMA ContainerDecides ==
    ASSUME ContainerInv,
           Container!DecideCreate \/ Container!DecideRecreate \/ Container!DecideKeep
    PROVE ContainerInv' /\ ContainerRespects
<1> DEFINE task == run.task
           r == run.read
<1>0. run.at = "decide" /\ run.at # "idle"
  BY DEF Container!DecideCreate, Container!DecideRecreate, Container!DecideKeep,
     Container!Decidable, Container!At
<1>1. /\ task \in ContainerTasks /\ task.state # "absent" /\ actual \in ContainerHosts
      /\ r \in ContainerReads /\ run.changed \in BOOLEAN /\ run.touched \in BOOLEAN /\ ~r.fresh
      /\ {"answer", "gone", "create", "stop", "update", "networks"} \subseteq Container!Places
  BY <1>0, ContainerHere DEF ContainerAlways, Container!Places
<1>2. ~run.disturbed =>
        /\ ContainerSeen(actual, r) /\ (Checking => ~run.touched) /\ (run.touched => run.changed)
        /\ ~Checking => ContainerImages(task, actual)
  BY <1>0, <1>1, ContainerHere DEF ContainerKnows
<1>3. ContainerWill(run.at, task, actual, r, run.changed) <=>
         run.changed \/ actual.there # "yes" \/ ContainerLeft(task, actual)
  BY <1>0 DEF ContainerWill
<1>4. /\ \A place \in {"answer", "gone", "create", "stop", "update", "networks"} :
            (Checking => place = "answer") => ContainerAlways(place, task, actual, r, Checking)
  BY <1>1 DEF ContainerAlways
<1>5. actual.there \in {"no", "yes", "removing"}
  BY <1>1, ContainerHost
<1>6. CASE Container!DecideCreate
  <2> DEFINE place == IF Checking THEN "answer" ELSE IF r.dying THEN "gone" ELSE "create"
  <2>1. (~r.exists \/ r.dying) /\ Step(place, actual, r, TRUE)
    BY <1>6, ContainerIsARun DEF Container!DecideCreate, Container!Checking, Checking, Container!now
  <2>2. ASSUME ~run.disturbed
        PROVE /\ ContainerKnows(place, task, actual, r, TRUE, run.touched, Checking)
              /\ ContainerWill(place, task, actual, r, TRUE)
              /\ ContainerWill(run.at, task, actual, r, run.changed)
    <3>1. actual.there # "yes" /\ (~r.dying => actual.there = "no")
      BY <1>2, <1>5, <2>1, <2>2 DEF ContainerSeen
    <3>2. ContainerWill(place, task, actual, r, TRUE)
      BY DEF ContainerWill
    <3> QED
      BY <1>1, <1>2, <1>3, <2>2, <3>1, <3>2 DEF ContainerKnows
  <2>3. place \in {"answer", "gone", "create"} /\ (Checking => place = "answer")
    OBVIOUS
  <2> HIDE DEF place
  <2> QED
    BY <1>0, <1>1, <1>4, <2>1, <2>2, <2>3, ContainerReadsOn
<1>7. CASE Container!DecideRecreate
  <2> DEFINE place == IF Checking THEN "answer" ELSE "stop"
  <2>1. /\ Container!MustRecreate(task, r.old, actual.local) /\ Step(place, actual, r, TRUE)
    BY <1>7, ContainerIsARun
       DEF Container!DecideRecreate, Container!Checking, Checking, Container!now, Container!t
  <2>2. ASSUME ~run.disturbed
        PROVE /\ ContainerKnows(place, task, actual, r, TRUE, run.touched, Checking)
              /\ ContainerWill(place, task, actual, r, TRUE)
              /\ ContainerWill(run.at, task, actual, r, run.changed)
    <3>1. ContainerLeft(task, actual)
      BY <1>2, <2>1, <2>2 DEF ContainerSeen, ContainerLeft
    <3>2. ContainerWill(place, task, actual, r, TRUE)
      BY DEF ContainerWill
    <3> QED
      BY <1>1, <1>2, <1>3, <2>2, <3>1, <3>2 DEF ContainerKnows
  <2>3. place \in {"answer", "stop"} /\ (Checking => place = "answer")
    OBVIOUS
  <2> HIDE DEF place
  <2> QED
    BY <1>0, <1>1, <1>4, <2>1, <2>2, <2>3, ContainerReadsOn
<1>8. CASE Container!DecideKeep
  <2> DEFINE update == Container!MustUpdate(task, r.old, actual.local)
             drop == Container!Disconnect(task, r.old)
             join == Container!Connect(task, r.old)
             k == [r EXCEPT !.drop = drop, !.join = join]
             c == run.changed \/ update \/ drop \union join # {}
                    \/ Container!NeedsLifecycle(task, r.old)
             place == IF Checking THEN "answer" ELSE IF update THEN "update" ELSE "networks"
  <2>1. /\ r.exists /\ ~r.dying /\ ~Container!MustRecreate(task, r.old, actual.local)
        /\ Step(place, actual, k, c)
    BY <1>8, ContainerIsARun
       DEF Container!DecideKeep, Container!Checking, Checking, Container!now, Container!t
  <2>2. /\ drop \subseteq Links /\ join \subseteq Links
    <3>1. r.old \in Container!Containers \union {Container!NoContainer}
      BY <1>1 DEF ContainerReads, Container!Snapshots
    <3>2. r.old.nets \subseteq Links
      BY <3>1, ContainerAsks DEF Container!Containers
    <3> QED
      BY <1>1, <3>2, ContainerAsks DEF Container!Disconnect, Container!Connect
  <2> HIDE DEF drop, join
  <2>3. /\ k \in ContainerReads /\ k.drop = drop /\ k.join = join /\ k.fresh = r.fresh
        /\ k.exists = r.exists /\ k.dying = r.dying /\ k.old = r.old
    BY <1>1, <2>2 DEF ContainerReads, Container!Snapshots
  <2> HIDE DEF k
  <2>4. c \in BOOLEAN /\ place \in {"answer", "update", "networks"} /\ (Checking => place = "answer")
    BY <1>1 DEF Container!NeedsLifecycle, Container!NeedsPause, Container!MustUpdate
  <2>5. ContainerAlways(place, task, actual, k, Checking)
    BY <1>1, <2>3, <2>4 DEF ContainerAlways
  <2>6. ASSUME ~run.disturbed
        PROVE /\ ContainerKnows(place, task, actual, k, c, run.touched, Checking)
              /\ ContainerWill(place, task, actual, k, c) <=>
                   ContainerWill(run.at, task, actual, r, run.changed)
    <3>1. actual.there = "yes" /\ r.old = actual.c
      BY <1>2, <1>5, <2>1, <2>6 DEF ContainerSeen
    <3>2. /\ task.recreate # "always"
          /\ task.recreate = "never" \/ ~ContainerDiffers(task, actual.c, actual.local)
      BY <1>1, <2>1, <3>1, ContainerAsks, ContainerRenews
    <3>3. ContainerLeft(task, actual) <=>
             update \/ drop \union join # {} \/ Container!NeedsLifecycle(task, actual.c)
      BY <2>1, <3>1 DEF ContainerLeft, drop, join
    <3>4. ContainerWill(run.at, task, actual, r, run.changed) <=> c
      BY <1>3, <3>1, <3>3
    <3>5. CASE Checking
      <4>1. ASSUME ~c PROVE ContainerHas(task, actual, TRUE)
        <5>1. /\ ~update /\ drop = {} /\ join = {}
              /\ ~Container!NeedsLifecycle(task, actual.c)
          BY <3>1, <4>1
        <5>2. ContainerFits(task, actual)
          BY <3>1, <3>2, <5>1 DEF ContainerFits
        <5> QED
          BY <1>1, <3>1, <5>1, <5>2, ContainerAsks DEF ContainerHas, Container!NeedsLifecycle, drop, join
      <4>2. ContainerKnows("answer", task, actual, k, c, run.touched, Checking)
        BY <1>1, <1>2, <2>3, <2>6, <3>5, <4>1 DEF ContainerKnows
      <4>3. ContainerWill("answer", task, actual, k, c) <=> c
        BY DEF ContainerWill
      <4> QED
        BY <3>4, <3>5, <4>2, <4>3
    <3>6. CASE ~Checking
      <4>1. /\ ContainerNets(task, actual, k) /\ ContainerImages(task, actual)
            /\ ~update => ContainerFits(task, actual)
        BY <1>1, <1>2, <2>3, <2>6, <3>1, <3>2, <3>6
           DEF ContainerNets, ContainerFits, drop, join, Container!Disconnect, Container!Connect
      <4>2. /\ ~c => ~update /\ drop = {} /\ join = {} /\ ~Container!NeedsLifecycle(task, actual.c)
            /\ update => c
        BY <3>1
      <4>3. ~c => ~run.touched
        BY <1>2, <2>6
      <4> HIDE DEF update, c
      <4>4. CASE update
        <5>1. ContainerKnows("update", task, actual, k, c, run.touched, Checking)
          BY <1>1, <2>3, <3>1, <3>2, <3>6, <4>1, <4>2, <4>4 DEF ContainerKnows
        <5>2. ContainerWill("update", task, actual, k, c) <=> c
          BY DEF ContainerWill
        <5> QED
          BY <3>4, <3>6, <4>4, <5>1, <5>2
      <4>5. CASE ~update
        <5>1. ContainerKnows("networks", task, actual, k, c, run.touched, Checking)
          BY <1>1, <2>3, <3>1, <3>6, <4>1, <4>2, <4>3, <4>5 DEF ContainerKnows
        <5>2. ContainerWill("networks", task, actual, k, c) <=> c
          BY DEF ContainerWill
        <5> QED
          BY <3>4, <3>6, <4>5, <5>1, <5>2
      <4> QED
        BY <4>4, <4>5
    <3> QED
      BY <3>5, <3>6
  <2>7. place \in Container!Places
    BY <1>1, <2>4
  <2> HIDE DEF place, c
  <2> QED
    BY <1>0, <2>1, <2>3, <2>4, <2>5, <2>6, <2>7, ContainerReadsOn
<1> QED
  BY <1>6, <1>7, <1>8

(* A container that is stopped.                                            *)
LEMMA ContainerStopped ==
    ASSUME actual \in ContainerHosts, actual.there = "yes"
    PROVE LET q == [actual.c EXCEPT !.running = FALSE, !.paused = FALSE, !.health = "none"]
              a == Container!WithContainer(q) IN
          /\ a \in ContainerHosts /\ a.there = actual.there /\ a.local = actual.local
          /\ a.registry = actual.registry /\ a.c = q /\ a.c.running = FALSE /\ a.c.paused = FALSE
          /\ a.c.health = "none" /\ a.c.options = actual.c.options /\ a.c.image = actual.c.image
          /\ a.c.nets = actual.c.nets
<1> DEFINE q == [actual.c EXCEPT !.running = FALSE, !.paused = FALSE, !.health = "none"]
<1>1. /\ q \in Container!Containers /\ q.running = FALSE /\ q.paused = FALSE /\ q.health = "none"
      /\ q.options = actual.c.options /\ q.image = actual.c.image /\ q.nets = actual.c.nets
  BY ContainerHost DEF Container!Containers, Container!Healths
<1> HIDE DEF q
<1>2. LET a == Container!WithContainer(q) IN
      /\ a \in ContainerHosts /\ a.c = q /\ a.there = actual.there
      /\ a.local = actual.local /\ a.registry = actual.registry
  BY <1>1, ContainerWith
<1>3. LET a == Container!WithContainer(q) IN
      /\ a \in ContainerHosts /\ a.there = actual.there /\ a.local = actual.local
      /\ a.registry = actual.registry /\ a.c = q /\ a.c.running = FALSE /\ a.c.paused = FALSE
      /\ a.c.health = "none" /\ a.c.options = actual.c.options /\ a.c.image = actual.c.image
      /\ a.c.nets = actual.c.nets
  BY <1>1, <1>2
<1> QED
  BY <1>3 DEF q

(* A container is stopped and removed.                                     *)
LEMMA ContainerRemoves ==
    ASSUME ContainerInv,
           Container!StopOld \/ Container!RemoveOld \/ Container!WaitForRemoval \/ Container!RollBack
    PROVE ContainerInv' /\ ContainerRespects
<1> DEFINE task == run.task
           r == run.read
<1>0. run.at \in {"stop", "remove", "gone", "rollback"} /\ run.at # "idle"
  BY DEF Container!StopOld, Container!RemoveOld, Container!WaitForRemoval, Container!RollBack,
     Container!At
<1>1. /\ task \in ContainerTasks /\ actual \in ContainerHosts /\ ~Checking
      /\ r \in ContainerReads /\ run.changed \in BOOLEAN /\ run.touched \in BOOLEAN
      /\ run.at # "rollback" => ~r.fresh
      /\ run.at \in {"gone", "rollback"} => task.state # "absent"
      /\ {"answer", "gone", "create", "remove", "failed"} \subseteq Container!Places
  BY <1>0, ContainerHere DEF ContainerAlways, Container!Places
<1>2. ~run.disturbed =>
        /\ run.changed /\ (task.state # "absent" => ContainerImages(task, actual))
        /\ run.at = "stop" => ContainerSeen(actual, r)
        /\ run.at = "remove" => ~actual.c.running
  <2>1. ~run.disturbed => ContainerKnows(run.at, task, actual, r, run.changed, run.touched, Checking)
    BY <1>0, ContainerHere
  <2> QED
    BY <1>0, <1>1, <2>1 DEF ContainerKnows
<1>3. /\ actual.there \in {"no", "yes", "removing"} /\ (actual.there # "yes" => ~actual.c.running)
      /\ Container!Gone \in ContainerHosts /\ Container!Gone.there = "no"
      /\ Container!Gone.local = actual.local /\ Container!Gone.registry = actual.registry
      /\ Container!Gone.c.running = FALSE
  BY <1>1, ContainerHost, ContainerGone
<1>4. ~run.disturbed => ContainerWill(run.at, task, actual, r, run.changed)
  BY <1>0, <1>2 DEF ContainerWill
<1>5. CASE Container!StopOld
  <2> DEFINE q == [actual.c EXCEPT !.running = FALSE, !.paused = FALSE, !.health = "none"]
             a == Container!WithContainer(q)
  <2>1. /\ run.at = "stop"
        /\ IF r.old.running /\ actual.there = "yes" THEN Step("remove", a, r, TRUE)
           ELSE Step("remove", actual, r, run.changed)
    BY <1>5, ContainerIsARun DEF Container!StopOld, Container!At, Container!now
  <2>2. CASE r.old.running /\ actual.there = "yes"
    <3>1. /\ a \in ContainerHosts /\ a.there = actual.there /\ a.local = actual.local
          /\ a.registry = actual.registry /\ a.c.running = FALSE
      BY <1>1, <2>2, ContainerStopped
    <3>2. Step("remove", a, r, TRUE)
      BY <2>1, <2>2
    <3> HIDE DEF a
    <3>3. ContainerAlways("remove", task, a, r, Checking) /\ ContainerWill("remove", task, a, r, TRUE)
      BY <1>0, <1>1, <2>1 DEF ContainerAlways, ContainerWill
    <3>4. ~run.disturbed =>
            ContainerKnows("remove", task, a, r, TRUE, run.touched \/ a # actual, Checking)
      BY <1>1, <1>2, <3>1 DEF ContainerKnows, ContainerImages
    <3> QED
      BY <1>0, <1>1, <1>4, <2>1, <3>1, <3>2, <3>3, <3>4, ContainerMoves
  <2>3. CASE ~(r.old.running /\ actual.there = "yes")
    <3>1. Step("remove", actual, r, run.changed)
      BY <2>1, <2>3
    <3>2. /\ ContainerAlways("remove", task, actual, r, Checking)
          /\ ContainerWill("remove", task, actual, r, run.changed)
      BY <1>0, <1>1, <2>1 DEF ContainerAlways, ContainerWill
    <3>3. ~run.disturbed =>
            ContainerKnows("remove", task, actual, r, run.changed, run.touched, Checking)
      BY <1>1, <1>2, <1>3, <2>1, <2>3 DEF ContainerKnows, ContainerSeen
    <3> QED
      BY <1>0, <1>1, <1>4, <3>1, <3>2, <3>3, ContainerReadsOn
  <2> QED
    BY <2>2, <2>3
<1>6. CASE Container!RemoveOld
  <2> DEFINE a == IF actual.there = "removing" THEN actual ELSE Container!Gone
             place == IF task.state = "absent" THEN "answer" ELSE "gone"
  <2>1. run.at = "remove" /\ Step(place, a, r, TRUE)
    BY <1>6, ContainerIsARun DEF Container!RemoveOld, Container!At, Container!now, Container!t
  <2>2. /\ a \in ContainerHosts /\ a.there \in {"no", "removing"} /\ a.local = actual.local
        /\ a.registry = actual.registry /\ a.c.running = FALSE
        /\ actual.there = "removing" => a.there = "removing"
    BY <1>1, <1>3, ContainerHost
  <2> HIDE DEF a
  <2>3. /\ ContainerAlways(place, task, a, r, Checking) /\ ContainerWill(place, task, a, r, TRUE)
        /\ place \in Container!Places
    BY <1>1, <2>1 DEF ContainerAlways, ContainerWill
  <2>4. ASSUME ~run.disturbed
        PROVE ContainerKnows(place, task, a, r, TRUE, run.touched \/ a # actual, Checking)
    <3>1. CASE task.state = "absent"
      <4>1. /\ ContainerHas(task, a, Checking)
            /\ ContainerSettles(task, a, FALSE) => ~ContainerChange(task, a)
        BY <2>2, <3>1 DEF ContainerHas, ContainerSettles, ContainerChange
      <4> QED
        BY <1>1, <3>1, <4>1 DEF ContainerKnows
    <3>2. CASE task.state # "absent"
      BY <1>1, <1>2, <2>2, <2>4, <3>2 DEF ContainerKnows, ContainerImages
    <3> QED
      BY <3>1, <3>2
  <2> HIDE DEF place
  <2> QED
    BY <1>0, <1>1, <1>4, <2>1, <2>2, <2>3, <2>4, ContainerMoves
<1>7. CASE Container!WaitForRemoval
  <2>1. run.at = "gone" /\ actual.there = "no" /\ Step("create", actual, r, run.changed)
    BY <1>7, ContainerIsARun DEF Container!WaitForRemoval, Container!At
  <2>2. /\ ContainerAlways("create", task, actual, r, Checking)
        /\ ContainerWill("create", task, actual, r, run.changed)
    BY <1>1, <2>1 DEF ContainerAlways, ContainerWill
  <2>3. ~run.disturbed =>
          ContainerKnows("create", task, actual, r, run.changed, run.touched, Checking)
    BY <1>1, <1>2, <2>1 DEF ContainerKnows
  <2> QED
    BY <1>0, <1>1, <1>4, <2>1, <2>2, <2>3, ContainerReadsOn
<1>8. CASE Container!RollBack
  <2> DEFINE a == IF actual.there = "yes" THEN Container!Gone ELSE actual
  <2>1. run.at = "rollback" /\ Step("failed", a, r, run.changed)
    BY <1>8, ContainerIsARun DEF Container!RollBack, Container!At, Container!now
  <2>2. /\ a \in ContainerHosts /\ a.local = actual.local /\ a.registry = actual.registry
        /\ a.c.running = FALSE \/ a = actual
    BY <1>1, <1>3
  <2> HIDE DEF a
  <2>3. ContainerAlways("failed", task, a, r, Checking)
    BY <1>1, <2>1 DEF ContainerAlways
  <2>4. ~run.disturbed =>
          /\ ContainerKnows("failed", task, a, r, run.changed, run.touched \/ a # actual, Checking)
          /\ ContainerWill("failed", task, a, r, run.changed)
    BY <1>1, <1>2, <2>1, <2>2 DEF ContainerKnows, ContainerImages, ContainerWill
  <2> QED
    BY <1>0, <1>1, <1>4, <2>1, <2>2, <2>3, <2>4, ContainerMoves
<1> QED
  BY <1>5, <1>6, <1>7, <1>8

(* A new container is what its task wants, but for the networks.           *)
LEMMA ContainerNew ==
    ASSUME NEW task \in ContainerTasks, NEW v \in Versions \ {0}
    PROVE LET q == Container!Created(task, v) IN
          /\ q \in Container!Containers /\ ~q.running /\ ~q.paused /\ q.image = v
          /\ q.options = [o \in Options |->
               (IF o \in DOMAIN task.options THEN task.options[o] ELSE {}) \union ImageValue[v][o]]
<1> DEFINE f == [o \in Options |->
               (IF o \in DOMAIN task.options THEN task.options[o] ELSE {}) \union ImageValue[v][o]]
           n == IF task.cli_compatible /\ task.networks # {} THEN task.networks ELSE {bridge}
           q == Container!Created(task, v)
<1>1. q = [options |-> f, image |-> v, nets |-> n, running |-> FALSE, paused |-> FALSE,
           health |-> "none"]
  BY DEF Container!Created
<1>2. f \in [Options -> SUBSET Elements]
  <2>1. ImageValue[v] \in [Options -> SUBSET Elements]
    BY ContainerAsks
  <2>2. \A o \in Options : (IF o \in DOMAIN task.options THEN task.options[o] ELSE {}) \subseteq Elements
    BY ContainerAsks
  <2> QED
    BY <2>1, <2>2
<1>3. n \in SUBSET Links
  BY ContainerAsks
<1> HIDE DEF f, n, q
<1>4. q \in Container!Containers
  BY <1>1, <1>2, <1>3 DEF Container!Containers, Container!Healths
<1> QED
  BY <1>1, <1>4 DEF f, q

LEMMA ContainerCreates ==
    ASSUME ContainerInv, Container!CreateContainer \/ Container!NetworksOfCreated
    PROVE ContainerInv' /\ ContainerRespects
<1> DEFINE task == run.task
           r == run.read
<1>0. run.at \in {"create", "created"} /\ run.at # "idle"
  BY DEF Container!CreateContainer, Container!NetworksOfCreated, Container!At
<1>1. /\ task \in ContainerTasks /\ task.state # "absent" /\ actual \in ContainerHosts /\ ~Checking
      /\ r \in ContainerReads /\ run.changed \in BOOLEAN /\ run.touched \in BOOLEAN
      /\ IF run.at = "create" THEN ~r.fresh ELSE r.fresh
      /\ {"created", "networks", "rollback"} \subseteq Container!Places
  BY <1>0, ContainerHere DEF ContainerAlways, Container!Places
<1>2. ~run.disturbed =>
        /\ run.changed /\ ContainerImages(task, actual)
        /\ run.at = "created" => ContainerFits(task, actual)
  <2>1. ~run.disturbed => ContainerKnows(run.at, task, actual, r, run.changed, run.touched, Checking)
    BY <1>0, ContainerHere
  <2> QED
    BY <1>0, <1>1, <2>1 DEF ContainerKnows
<1>3. ~run.disturbed => ContainerWill(run.at, task, actual, r, run.changed)
  BY <1>0, <1>2 DEF ContainerWill
<1>4. CASE Container!CreateContainer
  <2> DEFINE v == IF task.image THEN actual.local ELSE r.old.image
             q == Container!Created(task, v)
             a == [actual EXCEPT !.there = "yes", !.c = q]
             k == [r EXCEPT !.fresh = TRUE]
  <2>1. run.at = "create" /\ actual.there = "no" /\ v # 0 /\ Step("created", a, k, TRUE)
    BY <1>4, ContainerIsARun DEF Container!CreateContainer, Container!At, Container!now, Container!t,
       Container!SourceImage
  <2>2. v \in Versions \ {0}
    <3>1. r.old \in Container!Containers \union {Container!NoContainer}
      BY <1>1 DEF ContainerReads, Container!Snapshots
    <3>2. r.old.image \in Versions
      BY <3>1, ContainerAsks DEF Container!Containers
    <3> QED
      BY <1>1, <2>1, <3>2, ContainerHost
  <2>3. task.image => v = actual.local
    OBVIOUS
  <2> HIDE DEF v
  <2>4. /\ q \in Container!Containers /\ ~q.running /\ ~q.paused /\ q.image = v
        /\ q.options = [o \in Options |->
             (IF o \in DOMAIN task.options THEN task.options[o] ELSE {}) \union ImageValue[v][o]]
    BY <1>1, <2>2, ContainerNew
  <2> HIDE DEF q
  <2>5. /\ a \in ContainerHosts /\ a.there = "yes" /\ a.c = q /\ a.local = actual.local
        /\ a.registry = actual.registry
    <3>1. a = [there |-> "yes", c |-> q, local |-> actual.local, registry |-> actual.registry]
      <4> DEFINE g == [actual EXCEPT !.there = "yes"]
      <4>1. g = [there |-> "yes", c |-> actual.c, local |-> actual.local, registry |-> actual.registry]
        BY <1>1, ContainerHost
      <4>2. a = [g EXCEPT !.c = q]
        OBVIOUS
      <4> HIDE DEF g
      <4> QED
        BY <4>1, <4>2
    <3>2. [there |-> "yes", c |-> q, local |-> actual.local, registry |-> actual.registry]
             \in ContainerHosts
      BY <1>1, <2>4, ContainerHost, ContainerMade
    <3> QED
      BY <3>1, <3>2
  <2>6. /\ k \in ContainerReads /\ k.fresh = TRUE
    BY <1>1 DEF ContainerReads, Container!Snapshots
  <2> HIDE DEF a, k
  <2>7. Container!Different(task, a.c, a.local) = {}
    <3> DEFINE w == Container!ComparisonImage(task, a.c, a.local)
    <3>1. w = v
      BY <2>3, <2>4, <2>5 DEF Container!ComparisonImage
    <3> HIDE DEF w
    <3>2. ASSUME NEW o \in DOMAIN task.options
          PROVE Container!Agrees(Container!Expected(task, o, w), a.c.options[o], task.comparisons[o])
      <4>1. o \in Options /\ task.comparisons[o] \in {"strict", "allow_more_present", "ignore"}
        BY <1>1, ContainerAsks
      <4>2. Container!Expected(task, o, w) = task.options[o] \union ImageValue[v][o]
        BY <2>2, <3>1 DEF Container!Expected
      <4>3. a.c.options[o] = task.options[o] \union ImageValue[v][o]
        BY <2>4, <2>5, <4>1
      <4> QED
        BY <4>1, <4>2, <4>3 DEF Container!Agrees
    <3> QED
      BY <3>2 DEF Container!Different, w
  <2>8. ContainerFits(task, a)
    <3>1. ~Container!ImageDiffers(task, a.c, a.local)
      BY <2>3, <2>4, <2>5 DEF Container!ImageDiffers
    <3> QED
      BY <2>5, <2>7, <3>1 DEF ContainerFits, ContainerDiffers, Container!MustUpdate
  <2>9. /\ ContainerAlways("created", task, a, k, Checking)
        /\ ContainerWill("created", task, a, k, TRUE)
    BY <1>1, <2>6 DEF ContainerAlways, ContainerWill
  <2>10. ~run.disturbed =>
           ContainerKnows("created", task, a, k, TRUE, run.touched \/ a # actual, Checking)
    BY <1>1, <1>2, <2>5, <2>8 DEF ContainerKnows, ContainerImages
  <2> QED
    BY <1>0, <1>1, <1>3, <2>1, <2>5, <2>6, <2>9, <2>10, ContainerMoves
<1>5. CASE Container!NetworksOfCreated
  <2> DEFINE s == Container!AsCreated(task)
             drop == Container!Disconnect(s, actual.c)
             join == Container!Connect(s, actual.c)
             k == [r EXCEPT !.drop = drop, !.join = join]
  <2>1. /\ run.at = "created"
        /\ IF actual.there # "yes" THEN Step("rollback", actual, r, run.changed)
           ELSE Step("networks", actual, k, run.changed)
    BY <1>5, ContainerIsARun
       DEF Container!NetworksOfCreated, Container!At, Container!now, Container!t
  <2>2. /\ s.network_given = task.network_given /\ s.networks = task.networks
        /\ s.comparisons["networks"] # "ignore"
        /\ s.comparisons["networks"] = "strict" <=> task.comparisons["networks"] = "strict"
    <3>1. CASE task.comparisons["networks"] # "ignore"
      BY <3>1 DEF Container!AsCreated
    <3>2. CASE task.comparisons["networks"] = "ignore"
      <4> DEFINE f == [task.comparisons EXCEPT !["networks"] = "allow_more_present"]
      <4>1. f["networks"] = "allow_more_present"
        BY <1>1, ContainerAsks
      <4>2. s = [task EXCEPT !.comparisons = f]
        BY <3>2 DEF Container!AsCreated
      <4> HIDE DEF f
      <4>3. s.network_given = task.network_given /\ s.networks = task.networks /\ s.comparisons = f
        BY <1>1, <4>2, ContainerAsks DEF Container!Requests
      <4> QED
        BY <3>2, <4>1, <4>3
    <3> QED
      BY <3>1, <3>2
  <2> HIDE DEF s
  <2>3. /\ drop = IF task.network_given /\ task.comparisons["networks"] = "strict"
                  THEN actual.c.nets \ task.networks ELSE {}
        /\ join = IF task.network_given THEN task.networks \ actual.c.nets ELSE {}
    BY <2>2 DEF Container!Disconnect, Container!Connect
  <2> HIDE DEF drop, join
  <2>4. /\ k \in ContainerReads /\ k.drop = drop /\ k.join = join /\ k.fresh = r.fresh
    <3>1. drop \subseteq Links /\ join \subseteq Links
      BY <1>1, <2>3, ContainerHost, ContainerAsks
    <3> QED
      BY <1>1, <3>1 DEF ContainerReads, Container!Snapshots
  <2> HIDE DEF k
  <2>5. ContainerNets(task, actual, k)
    BY <2>3, <2>4 DEF ContainerNets
  <2>6. CASE actual.there # "yes"
    <3>1. ContainerAlways("rollback", task, actual, r, Checking)
      BY <1>1 DEF ContainerAlways
    <3>2. run.disturbed
      BY <1>2, <2>1, <2>6 DEF ContainerFits
    <3> QED
      BY <1>0, <1>1, <2>1, <2>6, <3>1, <3>2, ContainerReadsOn
  <2>7. CASE actual.there = "yes"
    <3>1. ContainerAlways("networks", task, actual, k, Checking)
      BY <1>1 DEF ContainerAlways
    <3>2. ~run.disturbed =>
            /\ ContainerKnows("networks", task, actual, k, run.changed, run.touched, Checking)
            /\ ContainerWill("networks", task, actual, k, run.changed)
      BY <1>1, <1>2, <2>1, <2>5 DEF ContainerKnows, ContainerWill
    <3> QED
      BY <1>0, <1>1, <1>3, <2>1, <2>4, <2>7, <3>1, <3>2, ContainerReadsOn
  <2> QED
    BY <2>6, <2>7
<1> QED
  BY <1>4, <1>5

(* A container with other networks.                                        *)
LEMMA ContainerLinked ==
    ASSUME actual \in ContainerHosts, NEW m \in SUBSET Links, actual.there = "no" => m = {}
    PROVE LET q == [actual.c EXCEPT !.nets = m]
              a == Container!WithContainer(q) IN
          /\ a \in ContainerHosts /\ a.there = actual.there /\ a.local = actual.local
          /\ a.registry = actual.registry /\ a.c = q /\ a.c.nets = m
          /\ a.c.running = actual.c.running /\ a.c.paused = actual.c.paused
          /\ a.c.health = actual.c.health
          /\ a.c.options = actual.c.options /\ a.c.image = actual.c.image
<1> DEFINE q == [actual.c EXCEPT !.nets = m]
<1>1. CASE actual.there = "no"
  <2>1. actual.c = Container!NoContainer /\ m = {}
    BY <1>1, ContainerHost
  <2>2. q = actual.c
    <3> DEFINE z == [o \in Options |-> {}]
    <3>1. Container!NoContainer = [options |-> z, image |-> 0, nets |-> {}, running |-> FALSE,
                                   paused |-> FALSE, health |-> "none"]
      BY DEF Container!NoContainer
    <3> HIDE DEF z
    <3> DEFINE S == [options : {z}, image : {0}, nets : SUBSET Links, running : BOOLEAN,
                     paused : BOOLEAN, health : {"none"}]
    <3>2. Container!NoContainer \in S
      BY <3>1
    <3>3. \A e \in S : e = [options |-> e.options, image |-> e.image, nets |-> e.nets,
                            running |-> e.running, paused |-> e.paused, health |-> e.health]
      OBVIOUS
    <3>4. /\ q \in S /\ q.options = z /\ q.image = 0 /\ q.nets = {} /\ q.running = FALSE
          /\ q.paused = FALSE /\ q.health = "none"
      <4>1. /\ actual.c \in S /\ actual.c.options = z /\ actual.c.image = 0
            /\ actual.c.running = FALSE /\ actual.c.paused = FALSE /\ actual.c.health = "none"
        BY <2>1, <3>1, <3>2
      <4>2. q = [actual.c EXCEPT !.nets = {}]
        BY <2>1
      <4> HIDE DEF q
      <4> QED
        BY <4>1, <4>2
    <3> HIDE DEF S, q
    <3>5. q = [options |-> z, image |-> 0, nets |-> {}, running |-> FALSE, paused |-> FALSE,
               health |-> "none"]
      BY <3>3, <3>4
    <3> QED
      BY <2>1, <3>1, <3>5
  <2> HIDE DEF q
  <2>3. Container!WithContainer(q) = actual
    BY <2>2, ContainerHost DEF Container!WithContainer
  <2>4. LET a == Container!WithContainer(q) IN
      /\ a \in ContainerHosts /\ a.there = actual.there /\ a.local = actual.local
      /\ a.registry = actual.registry /\ a.c = q /\ a.c.nets = m
      /\ a.c.running = actual.c.running /\ a.c.paused = actual.c.paused
      /\ a.c.health = actual.c.health
      /\ a.c.options = actual.c.options /\ a.c.image = actual.c.image
    BY <2>1, <2>2, <2>3, ContainerAsks
  <2> QED
    BY <2>4 DEF q
<1>2. CASE actual.there # "no"
  <2>1. /\ q \in Container!Containers /\ q.nets = m /\ q.running = actual.c.running
        /\ q.paused = actual.c.paused /\ q.options = actual.c.options
        /\ q.image = actual.c.image /\ q.health = actual.c.health
    BY <1>2, ContainerHost DEF Container!Containers
  <2> HIDE DEF q
  <2>2. LET a == Container!WithContainer(q) IN
        /\ a \in ContainerHosts /\ a.c = q /\ a.there = actual.there
        /\ a.local = actual.local /\ a.registry = actual.registry
    BY <1>2, <2>1, ContainerHost, ContainerWith
  <2>4. LET a == Container!WithContainer(q) IN
      /\ a \in ContainerHosts /\ a.there = actual.there /\ a.local = actual.local
      /\ a.registry = actual.registry /\ a.c = q /\ a.c.nets = m
      /\ a.c.running = actual.c.running /\ a.c.paused = actual.c.paused
      /\ a.c.health = actual.c.health
      /\ a.c.options = actual.c.options /\ a.c.image = actual.c.image
    BY <2>1, <2>2
  <2> QED
    BY <2>4 DEF q
<1> QED
  BY <1>1, <1>2

(* What is different is updated in place,                                  *)
LEMMA ContainerUpdates ==
    ASSUME ContainerInv, Container!UpdateContainer PROVE ContainerInv' /\ ContainerRespects
<1> DEFINE task == run.task
           r == run.read
           f == [o \in Options |-> IF o \in DOMAIN task.options \intersect Mutable
                                   THEN task.options[o] ELSE actual.c.options[o]]
           q == [actual.c EXCEPT !.options = f]
           a == Container!WithContainer(q)
<1>1. run.at = "update" /\ run.at # "idle" /\ actual.there = "yes" /\ Step("networks", a, r, TRUE)
  BY ContainerIsARun DEF Container!UpdateContainer, Container!At, Container!now, Container!t
<1>2. /\ task \in ContainerTasks /\ task.state # "absent" /\ actual \in ContainerHosts /\ ~Checking
      /\ r \in ContainerReads /\ run.changed \in BOOLEAN /\ run.touched \in BOOLEAN /\ ~r.fresh
      /\ "networks" \in Container!Places
  BY <1>1, ContainerHere DEF ContainerAlways, Container!Places
<1>3. ~run.disturbed =>
        /\ run.changed /\ ContainerImages(task, actual) /\ ContainerNets(task, actual, r)
        /\ task.recreate = "never" \/ ~ContainerDiffers(task, actual.c, actual.local)
  BY <1>1, <1>2, ContainerHere DEF ContainerKnows
<1>4. ~run.disturbed => ContainerWill(run.at, task, actual, r, run.changed)
  BY <1>1, <1>3 DEF ContainerWill
<1>5. actual.c \in Container!Containers /\ (actual.c.paused => actual.c.running)
  BY <1>1, <1>2, ContainerHost
<1>6. f \in [Options -> SUBSET Elements]
  BY <1>2, <1>5, ContainerAsks DEF Container!Containers
<1>7. \A o \in Options : f[o] = IF o \in DOMAIN task.options \intersect Mutable
                                THEN task.options[o] ELSE actual.c.options[o]
  OBVIOUS
<1> HIDE DEF f
<1>8. /\ q \in Container!Containers /\ q.running = actual.c.running /\ q.paused = actual.c.paused
      /\ q.options = f /\ q.image = actual.c.image /\ q.nets = actual.c.nets
  BY <1>5, <1>6 DEF Container!Containers
<1> HIDE DEF q
<1>9. /\ a \in ContainerHosts /\ a.c = q /\ a.there = "yes" /\ a.local = actual.local
      /\ a.registry = actual.registry
  BY <1>1, <1>2, <1>5, <1>8, ContainerWith
<1> HIDE DEF a
<1>10. /\ Container!Different(task, a.c, a.local) \intersect Mutable = {}
       /\ Container!Different(task, a.c, a.local) \ Mutable =
             Container!Different(task, actual.c, actual.local) \ Mutable
  <2> DEFINE w == Container!ComparisonImage(task, a.c, a.local)
  <2>1. w = Container!ComparisonImage(task, actual.c, actual.local) /\ w \in Versions
    BY <1>2, <1>8, <1>9, ContainerHost DEF Container!ComparisonImage
  <2> HIDE DEF w
  <2>2. ASSUME NEW o \in DOMAIN task.options, o \in Mutable
        PROVE Container!Agrees(Container!Expected(task, o, w), a.c.options[o], task.comparisons[o])
    <3>1. o \in Options /\ task.comparisons[o] \in {"strict", "allow_more_present", "ignore"}
      BY <1>2, ContainerAsks
    <3>2. Container!Expected(task, o, w) = task.options[o]
      BY <1>2, <2>1, <2>2, ContainerAsks DEF Container!Expected
    <3>3. a.c.options[o] = task.options[o]
      BY <1>7, <1>8, <1>9, <2>2, <3>1
    <3> QED
      BY <3>1, <3>2, <3>3 DEF Container!Agrees
  <2>3. \A o \in DOMAIN task.options \ Mutable : a.c.options[o] = actual.c.options[o]
    BY <1>2, <1>7, <1>8, <1>9, ContainerAsks
  <2>4. /\ Container!Different(task, a.c, a.local) = {o \in DOMAIN task.options :
             ~Container!Agrees(Container!Expected(task, o, w), a.c.options[o], task.comparisons[o])}
        /\ Container!Different(task, actual.c, actual.local) = {o \in DOMAIN task.options :
             ~Container!Agrees(Container!Expected(task, o, w), actual.c.options[o],
                               task.comparisons[o])}
    BY <2>1 DEF Container!Different, w
  <2> QED
    BY <2>2, <2>3, <2>4
<1>11. ~run.disturbed => ContainerFits(task, a)
  <2>1. ContainerDiffers(task, a.c, a.local) <=> ContainerDiffers(task, actual.c, actual.local)
    BY <1>8, <1>9, <1>10 DEF ContainerDiffers, Container!ImageDiffers
  <2>2. ~Container!MustUpdate(task, a.c, a.local)
    BY <1>10 DEF Container!MustUpdate
  <2> QED
    BY <1>3, <1>9, <2>1, <2>2 DEF ContainerFits
<1>12. /\ ContainerAlways("networks", task, a, r, Checking)
       /\ ContainerWill("networks", task, a, r, TRUE)
  BY <1>2 DEF ContainerAlways, ContainerWill
<1>13. ~run.disturbed =>
         ContainerKnows("networks", task, a, r, TRUE, run.touched \/ a # actual, Checking)
  BY <1>2, <1>3, <1>8, <1>9, <1>11 DEF ContainerKnows, ContainerImages, ContainerNets
<1> QED
  BY <1>1, <1>2, <1>4, <1>8, <1>9, <1>12, <1>13, ContainerMoves

(* networks are left and joined,                                           *)
LEMMA ContainerJoins ==
    ASSUME ContainerInv, Container!LeaveNetwork \/ Container!JoinNetwork \/ Container!NetworksDone
    PROVE ContainerInv' /\ ContainerRespects
<1> DEFINE task == run.task
           r == run.read
<1>0. run.at = "networks" /\ run.at # "idle"
  BY DEF Container!LeaveNetwork, Container!JoinNetwork, Container!NetworksDone, Container!At
<1>1. /\ task \in ContainerTasks /\ task.state # "absent" /\ actual \in ContainerHosts /\ ~Checking
      /\ r \in ContainerReads /\ run.changed \in BOOLEAN /\ run.touched \in BOOLEAN
      /\ {"networks", "life"} \subseteq Container!Places
  BY <1>0, ContainerHere DEF ContainerAlways, Container!Places
<1>2. ~run.disturbed =>
        /\ ContainerImages(task, actual) /\ ContainerNets(task, actual, r)
        /\ ContainerFits(task, actual) /\ (r.fresh => run.changed) /\ (run.touched => run.changed)
        /\ ~run.changed => /\ r.drop = {} /\ r.join = {}
                           /\ ~Container!NeedsLifecycle(task, actual.c)
  BY <1>0, <1>1, ContainerHere DEF ContainerKnows
<1>3. ContainerWill(run.at, task, actual, r, run.changed) <=> run.changed
  BY <1>0 DEF ContainerWill
<1>4. /\ actual.c.nets \subseteq Links /\ (actual.there = "no" => actual.c.nets = {})
      /\ r.drop \subseteq Links /\ r.join \subseteq Links
  <2>1. actual.there = "no" => actual.c.nets = {}
    BY <1>1, ContainerHost, ContainerAsks
  <2> QED
    BY <1>1, <2>1, ContainerHost DEF ContainerReads, Container!Snapshots
<1>5. ASSUME NEW m \in SUBSET Links, actual.there = "no" => m = {}, NEW k \in ContainerReads,
             Step("networks", Container!WithContainer([actual.c EXCEPT !.nets = m]), k, TRUE),
             r.drop # {} \/ r.join # {}, k.fresh = r.fresh,
             \A a \in ContainerHosts :
                a.c.nets = m /\ ContainerNets(task, actual, r) => ContainerNets(task, a, k)
      PROVE ContainerInv' /\ ContainerRespects
  <2> DEFINE a == Container!WithContainer([actual.c EXCEPT !.nets = m])
  <2>1. /\ a \in ContainerHosts /\ a.there = actual.there /\ a.local = actual.local
        /\ a.registry = actual.registry /\ a.c.nets = m /\ a.c.running = actual.c.running
        /\ a.c.options = actual.c.options /\ a.c.image = actual.c.image
    BY <1>1, <1>5, ContainerLinked
  <2>2. Step("networks", a, k, TRUE)
    BY <1>5
  <2> HIDE DEF a
  <2>3. ContainerFits(task, a) <=> ContainerFits(task, actual)
    BY <2>1, ContainerKept
  <2>4. /\ ContainerAlways("networks", task, a, k, Checking)
        /\ ContainerWill("networks", task, a, k, TRUE)
    BY <1>1 DEF ContainerAlways, ContainerWill
  <2>5. ~run.disturbed =>
          /\ ContainerKnows("networks", task, a, k, TRUE, run.touched \/ a # actual, Checking)
          /\ ContainerWill(run.at, task, actual, r, run.changed)
    BY <1>1, <1>2, <1>3, <1>5, <2>1, <2>3 DEF ContainerKnows, ContainerImages
  <2> QED
    BY <1>0, <1>1, <1>5, <2>1, <2>2, <2>4, <2>5, ContainerMoves
<1>6. CASE Container!LeaveNetwork
  <2>1. PICK n \in r.drop :
           Step("networks", Container!WithContainer([actual.c EXCEPT !.nets = @ \ {n}]),
                [r EXCEPT !.drop = @ \ {n}], TRUE)
    BY <1>6, ContainerIsARun DEF Container!LeaveNetwork, Container!now
  <2> DEFINE m == actual.c.nets \ {n}
             k == [r EXCEPT !.drop = @ \ {n}]
  <2>2. /\ k \in ContainerReads /\ k.drop = r.drop \ {n} /\ k.join = r.join /\ k.fresh = r.fresh
    BY <1>1 DEF ContainerReads, Container!Snapshots
  <2>3. Step("networks", Container!WithContainer([actual.c EXCEPT !.nets = m]), k, TRUE)
    BY <2>1
  <2> HIDE DEF k
  <2>4. \A a \in ContainerHosts :
           a.c.nets = m /\ ContainerNets(task, actual, r) => ContainerNets(task, a, k)
    BY <2>1, <2>2 DEF ContainerNets
  <2>5. m \in SUBSET Links /\ (actual.there = "no" => m = {})
    BY <1>4
  <2> HIDE DEF m
  <2> QED
    BY <1>5, <2>1, <2>2, <2>3, <2>4, <2>5
<1>7. CASE Container!JoinNetwork
  <2>1. PICK n \in r.join :
           Step("networks", Container!WithContainer([actual.c EXCEPT !.nets = @ \union {n}]),
                [r EXCEPT !.join = @ \ {n}], TRUE)
    BY <1>7, ContainerIsARun DEF Container!JoinNetwork, Container!now
  <2> DEFINE m == actual.c.nets \union {n}
             k == [r EXCEPT !.join = @ \ {n}]
  <2>2. /\ k \in ContainerReads /\ k.drop = r.drop /\ k.join = r.join \ {n} /\ k.fresh = r.fresh
    BY <1>1 DEF ContainerReads, Container!Snapshots
  <2>3. Step("networks", Container!WithContainer([actual.c EXCEPT !.nets = m]), k, TRUE)
    BY <2>1
  <2> HIDE DEF k
  <2>4. r.drop = {} /\ actual.there = "yes"
    BY <1>7 DEF Container!JoinNetwork, Container!now
  <2>5. \A a \in ContainerHosts :
           a.c.nets = m /\ ContainerNets(task, actual, r) => ContainerNets(task, a, k)
    BY <2>1, <2>2, <2>4 DEF ContainerNets
  <2>6. m \in SUBSET Links
    BY <1>4, <2>1
  <2> HIDE DEF m
  <2> QED
    BY <1>5, <2>1, <2>2, <2>3, <2>4, <2>5, <2>6
<1>8. CASE Container!NetworksDone
  <2>1. r.drop = {} /\ r.join = {} /\ Step("life", actual, r, run.changed)
    BY <1>8, ContainerIsARun DEF Container!NetworksDone, Container!now
  <2>2. /\ ContainerAlways("life", task, actual, r, Checking)
        /\ ContainerWill("life", task, actual, r, run.changed) <=> run.changed
    BY <1>1 DEF ContainerAlways, ContainerWill
  <2>3. ~run.disturbed =>
           ContainerKnows("life", task, actual, r, run.changed, run.touched, Checking)
    BY <1>1, <1>2, <2>1 DEF ContainerKnows
  <2> QED
    BY <1>0, <1>1, <1>3, <2>1, <2>2, <2>3, ContainerReadsOn
<1> QED
  BY <1>6, <1>7, <1>8

(* One that is started, paused or not, or of another health.               *)
LEMMA ContainerStarted ==
    ASSUME actual \in ContainerHosts, actual.there = "yes"
    PROVE LET q == [actual.c EXCEPT !.running = TRUE, !.paused = FALSE, !.health = "starting"]
              a == Container!WithContainer(q) IN
          /\ a \in ContainerHosts /\ a.there = actual.there /\ a.local = actual.local
          /\ a.registry = actual.registry /\ a.c = q /\ a.c.running = TRUE /\ a.c.paused = FALSE
          /\ a.c.options = actual.c.options /\ a.c.image = actual.c.image
          /\ a.c.nets = actual.c.nets
<1> DEFINE q == [actual.c EXCEPT !.running = TRUE, !.paused = FALSE, !.health = "starting"]
<1>1. /\ q \in Container!Containers /\ q.running = TRUE /\ q.paused = FALSE
      /\ q.options = actual.c.options /\ q.image = actual.c.image /\ q.nets = actual.c.nets
      /\ q.paused => q.running
  BY ContainerHost DEF Container!Containers, Container!Healths
<1> HIDE DEF q
<1>2. LET a == Container!WithContainer(q) IN
      /\ a \in ContainerHosts /\ a.c = q /\ a.there = actual.there
      /\ a.local = actual.local /\ a.registry = actual.registry
  BY <1>1, ContainerWith
<1>3. LET a == Container!WithContainer(q) IN
      /\ a \in ContainerHosts /\ a.there = actual.there /\ a.local = actual.local
      /\ a.registry = actual.registry /\ a.c = q /\ a.c.running = TRUE /\ a.c.paused = FALSE
      /\ a.c.options = actual.c.options /\ a.c.image = actual.c.image
      /\ a.c.nets = actual.c.nets
  BY <1>1, <1>2
<1> QED
  BY <1>3 DEF q

LEMMA ContainerPaused ==
    ASSUME actual \in ContainerHosts, actual.there = "yes", actual.c.running
    PROVE LET q == [actual.c EXCEPT !.paused = ~@]
              a == Container!WithContainer(q) IN
          /\ a \in ContainerHosts /\ a.there = actual.there /\ a.local = actual.local
          /\ a.registry = actual.registry /\ a.c = q /\ a.c.running = TRUE /\ a.c.paused = ~actual.c.paused
          /\ a.c.options = actual.c.options /\ a.c.image = actual.c.image
          /\ a.c.nets = actual.c.nets
<1> DEFINE q == [actual.c EXCEPT !.paused = ~@]
<1>1. /\ q \in Container!Containers /\ q.running = TRUE /\ q.paused = ~actual.c.paused
      /\ q.options = actual.c.options /\ q.image = actual.c.image /\ q.nets = actual.c.nets
      /\ q.paused => q.running
  BY ContainerHost DEF Container!Containers, Container!Healths
<1> HIDE DEF q
<1>2. LET a == Container!WithContainer(q) IN
      /\ a \in ContainerHosts /\ a.c = q /\ a.there = actual.there
      /\ a.local = actual.local /\ a.registry = actual.registry
  BY <1>1, ContainerWith
<1>3. LET a == Container!WithContainer(q) IN
      /\ a \in ContainerHosts /\ a.there = actual.there /\ a.local = actual.local
      /\ a.registry = actual.registry /\ a.c = q /\ a.c.running = TRUE /\ a.c.paused = ~actual.c.paused
      /\ a.c.options = actual.c.options /\ a.c.image = actual.c.image
      /\ a.c.nets = actual.c.nets
  BY <1>1, <1>2
<1> QED
  BY <1>3 DEF q

LEMMA ContainerAilsOrHeals ==
    ASSUME actual \in ContainerHosts, actual.there = "yes", actual.c.running, NEW health \in {"healthy", "unhealthy"}
    PROVE LET q == [actual.c EXCEPT !.health = health]
              a == Container!WithContainer(q) IN
          /\ a \in ContainerHosts /\ a.there = actual.there /\ a.local = actual.local
          /\ a.registry = actual.registry /\ a.c = q /\ a.c.running = TRUE /\ a.c.paused = actual.c.paused /\ a.c.health = health
          /\ a.c.options = actual.c.options /\ a.c.image = actual.c.image
          /\ a.c.nets = actual.c.nets
<1> DEFINE q == [actual.c EXCEPT !.health = health]
<1>1. /\ q \in Container!Containers /\ q.running = TRUE /\ q.paused = actual.c.paused /\ q.health = health
      /\ q.options = actual.c.options /\ q.image = actual.c.image /\ q.nets = actual.c.nets
      /\ q.paused => q.running
  BY ContainerHost DEF Container!Containers, Container!Healths
<1> HIDE DEF q
<1>2. LET a == Container!WithContainer(q) IN
      /\ a \in ContainerHosts /\ a.c = q /\ a.there = actual.there
      /\ a.local = actual.local /\ a.registry = actual.registry
  BY <1>1, ContainerWith
<1>3. LET a == Container!WithContainer(q) IN
      /\ a \in ContainerHosts /\ a.there = actual.there /\ a.local = actual.local
      /\ a.registry = actual.registry /\ a.c = q /\ a.c.running = TRUE /\ a.c.paused = actual.c.paused /\ a.c.health = health
      /\ a.c.options = actual.c.options /\ a.c.image = actual.c.image
      /\ a.c.nets = actual.c.nets
  BY <1>1, <1>2
<1> QED
  BY <1>3 DEF q

(* It is started or stopped, and paused.                                   *)
LEMMA ContainerLives ==
    ASSUME ContainerInv, Container!StartOrStop \/ Container!Pause
    PROVE ContainerInv' /\ ContainerRespects
<1> DEFINE task == run.task
           r == run.read
<1>0. run.at \in {"life", "pause"} /\ run.at # "idle"
  BY DEF Container!StartOrStop, Container!Pause, Container!At
<1>1. /\ task \in ContainerTasks /\ task.state # "absent" /\ actual \in ContainerHosts /\ ~Checking
      /\ r \in ContainerReads /\ run.changed \in BOOLEAN /\ run.touched \in BOOLEAN
      /\ actual.c.running \in BOOLEAN /\ actual.c.paused \in BOOLEAN
      /\ {"pause", "health", "exit", "answer"} \subseteq Container!Places
  BY <1>0, ContainerHere, ContainerHost DEF ContainerAlways, Container!Places
<1>2. ~run.disturbed =>
        /\ ContainerImages(task, actual) /\ ContainerNets(task, actual, r)
        /\ ContainerFits(task, actual) /\ (r.fresh => run.changed) /\ (run.touched => run.changed)
        /\ r.drop = {} /\ r.join = {}
        /\ run.at = "life" /\ ~run.changed => ~Container!NeedsLifecycle(task, actual.c)
        /\ run.at = "pause" =>
              /\ Container!Live(task) =>
                    actual.c.running /\ (~run.changed => ~Container!NeedsPause(task, actual.c))
              /\ task.state = "stopped" => ~actual.c.running
  <2>1. ~run.disturbed => ContainerKnows(run.at, task, actual, r, run.changed, run.touched, Checking)
    BY <1>0, ContainerHere
  <2> QED
    BY <1>0, <1>1, <2>1 DEF ContainerKnows
<1>3. ContainerWill(run.at, task, actual, r, run.changed) <=> run.changed
  BY <1>0 DEF ContainerWill
<1>4. /\ {task.detach, task.restart} \subseteq BOOLEAN
      /\ task.state \in {"absent", "present", "started", "healthy", "stopped"}
  BY <1>1, ContainerAsks
<1>5. CASE Container!StartOrStop
  <2> DEFINE c == actual.c
             q1 == [c EXCEPT !.running = TRUE, !.paused = FALSE, !.health = "starting"]
             q2 == [c EXCEPT !.running = FALSE, !.paused = FALSE, !.health = "none"]
             starts == Container!Live(task) /\ (~c.running \/ (task.restart /\ ~r.fresh))
             stops == ~starts /\ task.state = "stopped" /\ c.running
  <2>1. /\ run.at = "life" /\ actual.there = "yes"
        /\ starts => Step("pause", Container!WithContainer(q1), r, TRUE)
        /\ stops => Step("pause", Container!WithContainer(q2), r, TRUE)
        /\ ~starts /\ ~stops => Step("pause", actual, r, run.changed)
    BY <1>5, ContainerIsARun
       DEF Container!StartOrStop, Container!At, Container!now, Container!t
  <2>2. ASSUME NEW a \in ContainerHosts, Step("pause", a, r, TRUE), starts \/ stops,
               a.there = actual.there, a.local = actual.local, a.registry = actual.registry,
               a.c.options = actual.c.options, a.c.image = actual.c.image,
               a.c.nets = actual.c.nets, starts => a.c.running, stops => ~a.c.running
        PROVE ContainerInv' /\ ContainerRespects
    <3>1. ContainerFits(task, a) <=> ContainerFits(task, actual)
      BY <2>2, ContainerKept
    <3>2. ContainerAlways("pause", task, a, r, Checking) /\ ContainerWill("pause", task, a, r, TRUE) = TRUE
      BY <1>1 DEF ContainerAlways, ContainerWill
    <3>3. starts => task.state # "stopped"
      BY DEF Container!Live
    <3>4. stops => ~Container!Live(task)
      BY DEF Container!Live
    <3>5. ~run.disturbed =>
            ContainerKnows("pause", task, a, r, TRUE, run.touched \/ a # actual, Checking)
      BY <1>1, <1>2, <2>2, <3>1, <3>3, <3>4 DEF ContainerKnows, ContainerImages, ContainerNets
    <3>6. ~run.disturbed => run.changed
      BY <1>2, <2>1, <2>2 DEF Container!NeedsLifecycle
    <3>7. r.fresh /\ ~run.disturbed /\ task.network_given => task.networks \subseteq actual.c.nets
      BY <1>2 DEF ContainerNets
    <3> HIDE DEF starts, stops
    <3> QED
      BY <1>0, <1>1, <1>3, <2>2, <3>2, <3>5, <3>6, <3>7, ContainerMoves
  <2>3. CASE starts
    <3>1. LET a == Container!WithContainer(q1) IN
          /\ a \in ContainerHosts /\ a.there = actual.there /\ a.local = actual.local
          /\ a.registry = actual.registry /\ a.c.options = actual.c.options
          /\ a.c.image = actual.c.image /\ a.c.nets = actual.c.nets /\ a.c.running = TRUE
      BY <1>1, <2>1, ContainerStarted
    <3> HIDE DEF q1, starts
    <3> QED
      BY <2>1, <2>2, <2>3, <3>1
  <2>4. CASE stops
    <3>1. LET a == Container!WithContainer(q2) IN
          /\ a \in ContainerHosts /\ a.there = actual.there /\ a.local = actual.local
          /\ a.registry = actual.registry /\ a.c.options = actual.c.options
          /\ a.c.image = actual.c.image /\ a.c.nets = actual.c.nets /\ a.c.running = FALSE
      BY <1>1, <2>1, ContainerStopped
    <3> HIDE DEF q2, starts
    <3> QED
      BY <2>1, <2>2, <2>4, <3>1
  <2>5. CASE ~starts /\ ~stops
    <3>1. Step("pause", actual, r, run.changed)
      BY <2>1, <2>5
    <3>2. /\ ContainerAlways("pause", task, actual, r, Checking)
          /\ ContainerWill("pause", task, actual, r, run.changed) <=> run.changed
      BY <1>1 DEF ContainerAlways, ContainerWill
    <3>3. /\ Container!Live(task) => actual.c.running
          /\ task.state = "stopped" => ~actual.c.running
      BY <1>1, <2>5 DEF Container!Live
    <3>4. ~run.disturbed /\ ~run.changed => ~Container!NeedsPause(task, actual.c)
      BY <1>2, <2>1 DEF Container!NeedsLifecycle
    <3>5. ~run.disturbed =>
             ContainerKnows("pause", task, actual, r, run.changed, run.touched, Checking)
      BY <1>1, <1>2, <3>3, <3>4 DEF ContainerKnows
    <3> QED
      BY <1>0, <1>1, <1>3, <3>1, <3>2, <3>5, ContainerReadsOn
  <2> QED
    BY <2>3, <2>4, <2>5
<1>6. CASE Container!Pause
  <2> DEFINE q == [actual.c EXCEPT !.paused = ~@]
             w == Container!WithContainer(q)
             toggles == Container!Live(task) /\ Container!NeedsPause(task, actual.c)
             place == IF task.state = "healthy" THEN "health"
                      ELSE IF ~task.detach /\ Container!Live(task) THEN "exit" ELSE "answer"
  <2>1. /\ run.at = "pause" /\ actual.there = "yes" /\ (toggles => actual.c.running)
        /\ IF toggles THEN Step(place, w, r, TRUE) ELSE Step(place, actual, r, run.changed)
    BY <1>6, ContainerIsARun DEF Container!Pause, Container!At, Container!now, Container!t
  <2> DEFINE a == IF toggles THEN w ELSE actual
             c == IF toggles THEN TRUE ELSE run.changed
  <2>2. toggles => /\ w \in ContainerHosts /\ w.there = actual.there /\ w.local = actual.local
                   /\ w.registry = actual.registry /\ w.c.options = actual.c.options
                   /\ w.c.image = actual.c.image /\ w.c.nets = actual.c.nets
                   /\ w.c.running = TRUE /\ w.c.paused = ~actual.c.paused
    BY <1>1, <2>1, ContainerPaused
  <2> HIDE DEF w
  <2>3. /\ a \in ContainerHosts /\ a.there = actual.there /\ a.local = actual.local
        /\ a.registry = actual.registry /\ a.c.options = actual.c.options
        /\ a.c.image = actual.c.image /\ a.c.nets = actual.c.nets
        /\ a.c.running = actual.c.running /\ (c \in BOOLEAN) /\ (toggles => c)
        /\ ~toggles => a = actual /\ c = run.changed
    BY <1>1, <2>1, <2>2
  <2>4. Step(place, a, r, c)
    BY <2>1
  <2>5. Container!Live(task) => ~Container!NeedsPause(task, a.c)
    <3>1. CASE toggles
      BY <1>1, <2>2, <3>1 DEF Container!NeedsPause
    <3>2. CASE ~toggles
      BY <2>3, <3>2
    <3> QED
      BY <3>1, <3>2
  <2>6. ~run.disturbed => (c <=> run.changed)
    BY <1>2, <2>1, <2>3
  <2> HIDE DEF a, c, toggles
  <2>7. ContainerFits(task, a) <=> ContainerFits(task, actual)
    BY <2>3, ContainerKept
  <2>8. /\ place \in Container!Places /\ ContainerAlways(place, task, a, r, Checking)
        /\ ContainerWill(place, task, a, r, c) <=> c
    BY <1>1 DEF ContainerAlways, ContainerWill
  <2>9. ASSUME ~run.disturbed
        PROVE ContainerKnows(place, task, a, r, c, run.touched \/ a # actual, Checking)
    <3>1. /\ ContainerImages(task, a) /\ ContainerNets(task, a, r) /\ ContainerFits(task, a)
          /\ Container!Live(task) => a.c.running
          /\ task.state = "stopped" => ~a.c.running
          /\ r.drop = {} /\ r.join = {} /\ (r.fresh => c)
          /\ run.touched \/ a # actual => c
      BY <1>2, <2>1, <2>3, <2>6, <2>7, <2>9 DEF ContainerImages, ContainerNets
    <3>2. CASE task.state = "healthy"
      BY <1>1, <2>5, <3>1, <3>2 DEF ContainerKnows, Container!Live
    <3>3. CASE task.state # "healthy" /\ ~task.detach /\ Container!Live(task)
      BY <1>1, <3>1, <3>3 DEF ContainerKnows
    <3>4. CASE task.state # "healthy" /\ (task.detach \/ ~Container!Live(task))
      <4>1. /\ ContainerHas(task, a, FALSE)
            /\ ContainerSettles(task, a, FALSE) => ~ContainerChange(task, a)
        BY <1>1, <2>5, <3>1, <3>4, ContainerDone
      <4>2. ContainerHas(task, a, Checking)
        BY <1>1, <4>1 DEF ContainerHas
      <4> QED
        BY <1>1, <3>1, <3>4, <4>1, <4>2 DEF ContainerKnows
    <3> QED
      BY <1>4, <3>2, <3>3, <3>4
  <2> HIDE DEF place
  <2>10. r.fresh /\ ~run.disturbed /\ task.network_given => task.networks \subseteq actual.c.nets
    BY <1>2 DEF ContainerNets
  <2>11. ~run.disturbed /\ a # actual => run.changed
    BY <2>3, <2>6
  <2> QED
    BY <1>0, <1>1, <1>3, <2>3, <2>4, <2>6, <2>8, <2>9, <2>10, <2>11, ContainerMoves
<1> QED
  BY <1>5, <1>6

(* It is waited for to be healthy, or to end.                              *)
LEMMA ContainerWaits ==
    ASSUME ContainerInv, Container!Healthy \/ Container!Exited
    PROVE ContainerInv' /\ ContainerRespects
<1> DEFINE task == run.task
           r == run.read
<1>0. run.at \in {"health", "exit"} /\ run.at # "idle"
  BY DEF Container!Healthy, Container!Exited, Container!At
<1>1. /\ task \in ContainerTasks /\ task.state # "absent" /\ actual \in ContainerHosts /\ ~Checking
      /\ r \in ContainerReads /\ run.changed \in BOOLEAN /\ run.touched \in BOOLEAN
      /\ run.at = "health" => task.state = "healthy"
      /\ run.at = "exit" => ~task.detach /\ Container!Live(task)
      /\ {"exit", "answer", "failed"} \subseteq Container!Places
      /\ {task.detach, task.cleanup} \subseteq BOOLEAN
  BY <1>0, ContainerHere, ContainerAsks DEF ContainerAlways, Container!Places
<1>2. ~run.disturbed =>
        /\ ContainerImages(task, actual) /\ (r.fresh => run.changed) /\ (run.touched => run.changed)
        /\ run.at = "health" =>
             /\ ContainerNets(task, actual, r) /\ ContainerFits(task, actual)
             /\ r.drop = {} /\ r.join = {}
             /\ actual.c.running /\ ~Container!NeedsPause(task, actual.c)
  <2>1. ~run.disturbed => ContainerKnows(run.at, task, actual, r, run.changed, run.touched, Checking)
    BY <1>0, ContainerHere
  <2> QED
    BY <1>0, <1>1, <2>1 DEF ContainerKnows
<1>3. ContainerWill(run.at, task, actual, r, run.changed) <=> run.changed
  BY <1>0 DEF ContainerWill
<1>4. CASE Container!Healthy
  <2> DEFINE place == IF task.detach THEN "answer" ELSE "exit"
  <2>1. /\ run.at = "health" /\ actual.c.health \in {"none", "healthy"}
        /\ Step(place, actual, r, run.changed)
    BY <1>4, ContainerIsARun DEF Container!Healthy, Container!At, Container!t
  <2>2. /\ ContainerAlways(place, task, actual, r, Checking) /\ place \in Container!Places
        /\ ContainerWill(place, task, actual, r, run.changed) <=> run.changed
    BY <1>1, <2>1 DEF ContainerAlways, ContainerWill, Container!Live
  <2>3. ASSUME ~run.disturbed
        PROVE ContainerKnows(place, task, actual, r, run.changed, run.touched, Checking)
    <3>1. CASE task.detach
      <4>1. /\ ContainerHas(task, actual, FALSE)
            /\ ContainerSettles(task, actual, FALSE) => ~ContainerChange(task, actual)
        BY <1>1, <1>2, <2>1, <2>3, <3>1, ContainerDone
      <4>2. ContainerHas(task, actual, Checking)
        BY <1>1, <4>1 DEF ContainerHas
      <4> QED
        BY <1>1, <1>2, <2>3, <3>1, <4>1, <4>2 DEF ContainerKnows
    <3>2. CASE ~task.detach
      BY <1>1, <1>2, <2>3, <3>2 DEF ContainerKnows
    <3> QED
      BY <3>1, <3>2
  <2> HIDE DEF place
  <2> QED
    BY <1>0, <1>1, <1>3, <2>1, <2>2, <2>3, ContainerReadsOn
<1>5. CASE Container!Exited
  <2> DEFINE a == IF task.cleanup /\ actual.there = "yes" THEN Container!Gone ELSE actual
  <2>1. /\ run.at = "exit" /\ ~actual.c.running
        /\ \E next \in {"answer", "failed"} : Step(next, a, r, run.changed)
    BY <1>5, ContainerIsARun DEF Container!Exited, Container!At, Container!t, Container!now
  <2>2. PICK place \in {"answer", "failed"} : Step(place, a, r, run.changed)
    BY <2>1
  <2>3. /\ a \in ContainerHosts /\ a.local = actual.local /\ a.registry = actual.registry
        /\ ~a.c.running /\ (a # actual => task.cleanup)
    BY <1>1, <2>1, ContainerGone
  <2> HIDE DEF a
  <2>4. /\ ContainerAlways(place, task, a, r, Checking) /\ place \in Container!Places
        /\ ContainerWill(place, task, a, r, run.changed) <=> run.changed
    BY <1>1 DEF ContainerAlways, ContainerWill
  <2>5. ~ContainerSettles(task, a, Checking) /\ ~ContainerSettles(task, a, FALSE)
    BY <1>1, <2>1 DEF ContainerSettles, Container!Settles
  <2>6. ContainerHas(task, a, Checking)
    BY <1>1, <2>1, <2>3 DEF ContainerHas
  <2>7. ~run.disturbed =>
          ContainerKnows(place, task, a, r, run.changed, run.touched \/ a # actual, Checking)
    BY <1>1, <1>2, <2>1, <2>3, <2>5, <2>6 DEF ContainerKnows, ContainerImages, ContainerHides
  <2> QED
    BY <1>0, <1>1, <1>3, <2>2, <2>3, <2>4, <2>5, <2>7, ContainerMoves
<1> QED
  BY <1>4, <1>5

(* A run that nobody disturbs is not refused, if it names an image that it *)
(* may pull.                                                               *)
LEMMA ContainerEnds ==
    ASSUME ContainerInv,
           \/ Container!MissingImage \/ Container!LostImage \/ Container!NothingToCreateFrom
           \/ Container!StillRunning \/ Container!CannotCreate \/ Container!ContainerLost
           \/ Container!Finish \/ Container!CallError \/ Container!Killed
    PROVE ContainerInv' /\ ContainerRespects
<1> DEFINE task == run.task
           r == run.read
<1>1. ASSUME run.at # "idle", NEW reply \in {"failed", "refused", "killed"}, Stops(reply),
             ~run.disturbed /\ task.image /\ task.pull # "never" => reply # "refused"
      PROVE ContainerInv' /\ ContainerRespects
  <2>1. run'.reply = reply /\ actual' = actual
    BY <1>1 DEF Stops, Ends, ContainerInv, RunTyped, RunStates
  <2>2. ContainerMore
    BY <1>1, <2>1 DEF ContainerMore, Container!Recovers, Container!Recovering,
       Container!StartedOnItsNetworks, Container!t
  <2> QED
    BY <1>1, <2>2, ContainerStops
<1>2. CASE Container!MissingImage
  BY <1>1, <1>2, ContainerIsARun DEF Container!MissingImage, Container!At, Container!t
<1>3. CASE Container!LostImage
  <2>1. run.at = "decide" /\ task.image /\ ~Checking /\ actual.local = 0 /\ Stops("refused")
    BY <1>3, ContainerIsARun DEF Container!LostImage, Container!At, Container!t,
       Container!Checking, Checking
  <2>2. run.disturbed
    BY <2>1, ContainerHere DEF ContainerKnows, ContainerAlways, ContainerImages
  <2> QED
    BY <1>1, <2>1, <2>2
<1>4. CASE Container!NothingToCreateFrom
  BY <1>1, <1>4, ContainerIsARun
     DEF Container!NothingToCreateFrom, Container!Decidable, Container!At, Container!t
<1>5. CASE Container!StillRunning
  <2>1. run.at = "remove" /\ actual.c.running /\ Stops("refused")
    BY <1>5, ContainerIsARun DEF Container!StillRunning, Container!At
  <2>2. run.disturbed
    BY <2>1, ContainerHere DEF ContainerKnows
  <2> QED
    BY <1>1, <2>1, <2>2
<1>6. CASE Container!CannotCreate
  <2>1. /\ run.at = "create" /\ Stops("refused")
        /\ actual.there # "no" \/ (task.image => actual.local = 0)
    BY <1>6, ContainerIsARun
       DEF Container!CannotCreate, Container!At, Container!SourceImage, Container!t
  <2>2. ~run.disturbed => ~task.image
    <3>1. ~Checking /\ task.state # "absent"
      BY <2>1, ContainerHere DEF ContainerAlways
    <3>2. ~run.disturbed => actual.there = "no" /\ ContainerImages(task, actual)
      BY <2>1, <3>1, ContainerHere DEF ContainerKnows
    <3> QED
      BY <2>1, <3>2 DEF ContainerImages
  <2> QED
    BY <1>1, <2>1, <2>2
<1>7. CASE Container!ContainerLost
  <2>1. /\ run.at \in {"update", "life", "pause", "networks", "health"} /\ Stops("refused")
        /\ \/ actual.there # "yes"
           \/ /\ run.at = "pause" /\ Container!Live(task) /\ Container!NeedsPause(task, actual.c)
              /\ ~actual.c.running
    BY <1>7, ContainerIsARun DEF Container!ContainerLost, Container!At, Container!t
  <2>2. run.disturbed
    <3>1. ~run.disturbed => ContainerKnows(run.at, task, actual, r, run.changed, run.touched, Checking)
      BY <2>1, ContainerHere
    <3>2. ~run.disturbed => actual.there = "yes"
      BY <2>1, <3>1 DEF ContainerKnows, ContainerFits
    <3>3. ~run.disturbed /\ run.at = "pause" /\ Container!Live(task) => actual.c.running
      BY <3>1 DEF ContainerKnows
    <3> QED
      BY <2>1, <3>2, <3>3, ContainerGiven
  <2> QED
    BY <1>1, <2>1, <2>2
<1>8. CASE Container!Finish
  <2>1. \/ run.at = "answer" /\ Answer(run.changed)
        \/ run.at = "failed" /\ Stops("failed")
    BY <1>8, ContainerIsARun DEF Container!Finish, Container!At
  <2>2. CASE run.at = "failed" /\ Stops("failed")
    BY <1>1, <2>2
  <2>3. CASE run.at = "answer" /\ Answer(run.changed)
    <3>1. /\ run.at # "idle" /\ task \in ContainerTasks /\ run.changed \in BOOLEAN
          /\ ~run.disturbed =>
               ContainerKnows("answer", task, actual, r, run.changed, run.touched, Checking)
      BY <2>3, ContainerHere
    <3>2. ContainerMore
      <4>1. run'.reply = "ok" /\ actual' = actual
        BY <2>3 DEF Answer, Ends, ContainerInv, RunTyped, RunStates
      <4> QED
        BY <4>1, ContainerQuiet
    <3>3. Container!Satisfied(task, actual) <=> ContainerHas(task, actual, Checking)
      BY <3>1, ContainerMeans
    <3>4. ~run.disturbed =>
            /\ run.changed <=> ContainerWill(run.at, task, actual, r, run.changed)
            /\ IF run.changed THEN ~Checking => Container!Satisfied(task, actual)
               ELSE Container!Satisfied(task, actual) /\ (run.touched => ContainerHides(task))
            /\ ~Checking /\ ContainerSettles(task, actual, FALSE) => ~ContainerChange(task, actual)
      BY <2>3, <3>1, <3>3 DEF ContainerKnows, ContainerWill
    <3> QED
      BY <2>3, <3>1, <3>2, <3>4, ContainerAnswers
  <2> QED
    BY <2>1, <2>2, <2>3
<1>9. CASE Container!CallError
  <2>1. \/ run.at # "idle" /\ Stops("failed")
        \/ /\ run.at \in {"created", "networks"} /\ r.fresh
           /\ Step("rollback", actual, r, run.changed)
    BY <1>9, ContainerIsARun DEF Container!CallError, Container!CallFails, Container!Places,
       Container!now
  <2>2. CASE run.at # "idle" /\ Stops("failed")
    BY <1>1, <2>2
  <2>3. CASE /\ run.at \in {"created", "networks"} /\ r.fresh
             /\ Step("rollback", actual, r, run.changed)
    <3>1. /\ task.state # "absent" /\ ~Checking /\ run.changed \in BOOLEAN /\ r \in ContainerReads
          /\ "rollback" \in Container!Places
      BY <2>3, ContainerHere DEF ContainerAlways, Container!Places
    <3>2. ~run.disturbed => run.changed /\ ContainerImages(task, actual)
      <4>1. ~run.disturbed =>
               ContainerKnows(run.at, task, actual, r, run.changed, run.touched, Checking)
        BY <2>3, ContainerHere
      <4> QED
        BY <2>3, <3>1, <4>1 DEF ContainerKnows
    <3>3. ContainerAlways("rollback", task, actual, r, Checking)
      BY <3>1 DEF ContainerAlways
    <3>4. ~run.disturbed =>
            /\ ContainerKnows("rollback", task, actual, r, run.changed, run.touched, Checking)
            /\ ContainerWill("rollback", task, actual, r, run.changed)
            /\ ContainerWill(run.at, task, actual, r, run.changed)
      BY <2>3, <3>1, <3>2 DEF ContainerKnows, ContainerWill
    <3> QED
      BY <2>3, <3>1, <3>3, <3>4, ContainerReadsOn
  <2> QED
    BY <2>1, <2>2, <2>3
<1>10. CASE Container!Killed
  BY <1>1, <1>10, ContainerIsARun DEF Idle, At
<1> QED
  BY <1>2, <1>3, <1>4, <1>5, <1>6, <1>7, <1>8, <1>9, <1>10

(* Others leave a container, and start none.                               *)
LEMMA ContainerOthers ==
    ASSUME ContainerInv, Container!Outside
    PROVE \E a \in ContainerHosts : Interferes(a) /\ (a.c.running => actual.c.running)
<1>1. /\ actual \in ContainerHosts /\ actual.local \in Versions /\ actual.registry \in Versions \ {0}
      /\ actual.c.nets \in SUBSET Links /\ (actual.there = "no" => actual.c.nets = {})
  BY ContainerGiven, ContainerHost, ContainerAsks
<1>2. CASE Interferes(Container!Gone)
  BY <1>1, <1>2, ContainerGone
<1>3. CASE /\ actual.there = "yes"
           /\ Interferes([actual EXCEPT !.there = "removing", !.c.running = FALSE,
                                        !.c.paused = FALSE, !.c.health = "none"])
  <2> DEFINE q == [actual.c EXCEPT !.running = FALSE, !.paused = FALSE, !.health = "none"]
             a == [there |-> "removing", c |-> q, local |-> actual.local,
                   registry |-> actual.registry]
  <2>1. /\ q \in Container!Containers /\ q.running = FALSE /\ q.paused = FALSE
    BY Zenon, <1>1, <1>3, ContainerHost DEF Container!Containers, Container!Healths
  <2>2. [actual EXCEPT !.there = "removing", !.c.running = FALSE,
                       !.c.paused = FALSE, !.c.health = "none"] = a
    <3> DEFINE g1 == [actual EXCEPT !.there = "removing"]
               g2 == [g1 EXCEPT !.c.running = FALSE]
               g3 == [g2 EXCEPT !.c.paused = FALSE]
               q2 == [actual.c EXCEPT !.running = FALSE]
               q3 == [q2 EXCEPT !.paused = FALSE]
    <3>1. g1 = [there |-> "removing", c |-> actual.c, local |-> actual.local,
                registry |-> actual.registry]
      BY <1>1, ContainerHost
    <3>2. [actual EXCEPT !.there = "removing", !.c.running = FALSE, !.c.paused = FALSE,
                         !.c.health = "none"] = [g3 EXCEPT !.c.health = "none"]
      OBVIOUS
    <3>3. q = [q3 EXCEPT !.health = "none"]
      OBVIOUS
    <3> HIDE DEF g1
    <3>4. g2 = [there |-> "removing", c |-> q2, local |-> actual.local, registry |-> actual.registry]
      <4> DEFINE p == [g1.c EXCEPT !.running = FALSE]
      <4>1. g2 = [g1 EXCEPT !.c = p] /\ p = q2
        BY <3>1
      <4> HIDE DEF g2, q2, p
      <4> QED
        BY <3>1, <4>1
    <3> HIDE DEF g2, q2
    <3>5. g3 = [there |-> "removing", c |-> q3, local |-> actual.local, registry |-> actual.registry]
      <4> DEFINE p == [g2.c EXCEPT !.paused = FALSE]
      <4>1. g3 = [g2 EXCEPT !.c = p] /\ p = q3
        BY <3>4
      <4> HIDE DEF g3, q3, p
      <4> QED
        BY <3>4, <4>1
    <3> HIDE DEF g3, q3, q
    <3> QED
      BY <3>2, <3>3, <3>5
  <2> HIDE DEF q
  <2>3. a \in ContainerHosts
    BY <1>1, <2>1, ContainerMade
  <2>4. ~a.c.running
    BY <2>1
  <2> QED
    BY <1>3, <2>2, <2>3, <2>4
<1>4. ASSUME NEW n \in actual.c.nets,
             Interferes(Container!WithContainer([actual.c EXCEPT !.nets = @ \ {n}]))
      PROVE \E a \in ContainerHosts : Interferes(a) /\ (a.c.running => actual.c.running)
  <2> DEFINE m == actual.c.nets \ {n}
             a == Container!WithContainer([actual.c EXCEPT !.nets = m])
  <2>1. m \in SUBSET Links /\ (actual.there = "no" => m = {})
    BY <1>1
  <2>2. Interferes(a)
    BY <1>4
  <2> HIDE DEF m
  <2>3. a \in ContainerHosts /\ a.c.running = actual.c.running
    BY <1>1, <2>1, ContainerLinked
  <2> QED
    BY <2>2, <2>3
<1>5. ASSUME NEW v \in Versions, Interferes([actual EXCEPT !.local = v])
      PROVE \E a \in ContainerHosts : Interferes(a) /\ (a.c.running => actual.c.running)
  <2>1. LET a == [actual EXCEPT !.local = v] IN a \in ContainerHosts /\ a.c = actual.c
    BY <1>1, ContainerPulled
  <2> QED
    BY <1>5, <2>1
<1>6. CASE /\ actual.registry + 1 \in Versions
           /\ Interferes([actual EXCEPT !.registry = @ + 1])
  <2> DEFINE v == actual.registry + 1
             a == [actual EXCEPT !.registry = v]
  <2>1. v \in Versions \ {0} /\ Interferes(a)
    BY <1>1, <1>6, ContainerAsks
  <2> HIDE DEF v
  <2>2. a \in ContainerHosts /\ a.c = actual.c
    BY <1>1, <2>1 DEF ContainerHosts, Container!HostStates
  <2> QED
    BY <2>1, <2>2
<1>7. 0 \in Versions
  BY ContainerAsks
<1>8. \/ Interferes(Container!Gone)
      \/ /\ actual.there = "yes"
         /\ Interferes([actual EXCEPT !.there = "removing", !.c.running = FALSE,
                                      !.c.paused = FALSE, !.c.health = "none"])
      \/ \E n \in actual.c.nets :
            Interferes(Container!WithContainer([actual.c EXCEPT !.nets = @ \ {n}]))
      \/ Interferes([actual EXCEPT !.local = 0])
      \/ /\ actual.registry + 1 \in Versions
         /\ Interferes([actual EXCEPT !.registry = @ + 1])
  BY ContainerIsARun DEF Container!Outside
<1> QED
  BY <1>2, <1>3, <1>4, <1>5, <1>6, <1>7, <1>8

LEMMA ContainerInterfered ==
    ASSUME ContainerInv, NEW a \in ContainerHosts, Interferes(a), a.c.running => actual.c.running
    PROVE ContainerInv' /\ ContainerRespects
<1>1. actual' = a /\ (run.at # "idle" => run'.at = run.at)
  BY DEF Interferes, Idle, At, ContainerInv, RunTyped, RunStates
<1>2. ContainerMore
  BY <1>1, ContainerQuiet
<1>3. run.at # "idle" => ContainerAlways(run.at, run.task, a, run.read, Checking)
  BY DEF ContainerInv, ContainerAlways
<1> QED
  BY <1>2, <1>3, ContainerInterferes

(* What a run waits for.                                                   *)
LEMMA ContainerAwaits ==
    ASSUME ContainerInv, run.at \in {"gone", "health", "exit"}, NEW a \in ContainerHosts, Awaited(a),
           a.c.running => actual.c.running,
           a.local = actual.local, a.registry = actual.registry,
           run.at = "health" =>
             /\ a.there = actual.there /\ a.c.options = actual.c.options
             /\ a.c.image = actual.c.image /\ a.c.nets = actual.c.nets
             /\ a.c.running = actual.c.running /\ a.c.paused = actual.c.paused
    PROVE ContainerInv' /\ ContainerRespects
<1>1. /\ RunTyped(ContainerHosts, ContainerTasks, Container!Places, ContainerReads)'
      /\ actual' = a /\ run' = run /\ ~memo'.settled /\ memo'.forecast = "none"
      /\ (Idle \/ ~Checking => RunMoves)
  BY RunAwaited DEF ContainerInv
<1>2. run.at # "idle" /\ ~Checking
  BY ContainerHere DEF ContainerAlways
<1>3. ContainerAlways(run'.at, run'.task, actual', run'.read, Checking')
  <2>1. ContainerAlways(run.at, run.task, actual, run.read, Checking)
    BY <1>2, ContainerHere
  <2> QED
    BY <1>1, <2>1 DEF ContainerAlways, Checking
<1>4. ~run.disturbed =>
        ContainerFine(run'.at, run'.task, actual', run'.read, run'.changed, run'.touched, Checking',
                      run'.expect, run'.again)
  <2>1. Checking' = Checking
    BY <1>1 DEF Checking
  <2>2. ContainerWill(run.at, run.task, a, run.read, run.changed) <=>
           ContainerWill(run.at, run.task, actual, run.read, run.changed)
    BY DEF ContainerWill
  <2>3. ContainerSettles(run.task, a, FALSE) => ContainerSettles(run.task, actual, FALSE)
    BY <1>2, ContainerHere DEF ContainerSettles, ContainerAlways, Container!Settles, Container!Live
  <2>4. ASSUME ~run.disturbed
        PROVE ContainerKnows(run.at, run.task, a, run.read, run.changed, run.touched, Checking)
    <3>1. ContainerKnows(run.at, run.task, actual, run.read, run.changed, run.touched, Checking)
      BY <1>2, <2>4, ContainerHere
    <3>2. CASE run.at = "health"
      <4>1. ContainerFits(run.task, a) <=> ContainerFits(run.task, actual)
        BY <3>2, ContainerKept
      <4>2. Container!NeedsPause(run.task, a.c) <=> Container!NeedsPause(run.task, actual.c)
        BY <3>2 DEF Container!NeedsPause
      <4>3. /\ ContainerNets(run.task, a, run.read) <=> ContainerNets(run.task, actual, run.read)
            /\ ContainerImages(run.task, a) <=> ContainerImages(run.task, actual)
        BY <3>2 DEF ContainerNets, ContainerImages
      <4> QED
        BY <1>2, <3>1, <3>2, <4>1, <4>2, <4>3 DEF ContainerKnows
    <3>3. CASE run.at \in {"gone", "exit"}
      BY <1>2, <3>1, <3>3 DEF ContainerKnows, ContainerImages
    <3> QED
      BY <3>2, <3>3
  <2>5. ~run.disturbed =>
          ContainerFine(run.at, run.task, actual, run.read, run.changed, run.touched, Checking,
                        run.expect, run.again)
    BY <1>2, ContainerRuns
  <2>6. ContainerSettles(run.task, a, Checking) => ContainerSettles(run.task, actual, Checking)
    BY <1>2, <2>3 DEF ContainerSettles
  <2>7. ~run.disturbed =>
          ContainerFine(run.at, run.task, a, run.read, run.changed, run.touched, Checking,
                        run.expect, run.again)
    BY <1>2, <2>2, <2>4, <2>5, <2>6 DEF ContainerFine
  <2> QED
    BY <1>1, <2>1, <2>7
<1>5. ContainerInv'
  BY <1>1, <1>3, <1>4 DEF ContainerInv
<1>6. ContainerMore /\ ~AnswersOK
  BY <1>1, <1>2, ContainerQuiet DEF AnswersOK, Answers, Idle, At
<1> QED
  BY <1>1, <1>2, <1>5, <1>6, ContainerSilent

LEMMA ContainerGoesOn ==
    ASSUME ContainerInv, Container!Removed \/ Container!HealthChanges \/ Container!Exits
    PROVE ContainerInv' /\ ContainerRespects
<1>1. actual \in ContainerHosts /\ (actual.c.running => actual.there = "yes")
  BY ContainerGiven, ContainerHost
<1>2. CASE Container!Removed
  <2>1. IF run.at = "gone" THEN Awaited(Container!Gone) ELSE Interferes(Container!Gone)
    BY <1>2, ContainerIsARun DEF Container!Removed, Container!At
  <2> QED
    BY <1>1, <2>1, ContainerGone, ContainerAwaits, ContainerInterfered
<1>3. CASE Container!HealthChanges
  <2>1. PICK health \in {"healthy", "unhealthy"} :
           LET h == Container!WithContainer([actual.c EXCEPT !.health = health]) IN
           /\ actual.c.running
           /\ IF run.at = "health" THEN Awaited(h) ELSE Interferes(h)
    BY <1>3, ContainerIsARun DEF Container!HealthChanges, Container!At
  <2> DEFINE a == Container!WithContainer([actual.c EXCEPT !.health = health])
  <2>2. /\ a \in ContainerHosts /\ a.there = actual.there /\ a.local = actual.local
        /\ a.registry = actual.registry /\ a.c.options = actual.c.options
        /\ a.c.image = actual.c.image /\ a.c.nets = actual.c.nets
        /\ a.c.running = TRUE /\ a.c.paused = actual.c.paused
    BY <1>1, <2>1, ContainerAilsOrHeals
  <2>3. /\ actual.c.running = TRUE
        /\ IF run.at = "health" THEN Awaited(a) ELSE Interferes(a)
    BY <1>1, <2>1, ContainerHost
  <2> HIDE DEF a
  <2> QED
    BY <2>2, <2>3, ContainerAwaits, ContainerInterfered
<1>4. CASE Container!Exits
  <2> DEFINE a == Container!WithContainer([actual.c EXCEPT !.running = FALSE, !.paused = FALSE,
                                                           !.health = "none"])
  <2>1. /\ actual.c.running
        /\ IF run.at = "exit" THEN Awaited(a) ELSE Interferes(a)
    BY <1>4, ContainerIsARun DEF Container!Exits, Container!At
  <2>2. /\ a \in ContainerHosts /\ a.there = actual.there /\ a.local = actual.local
        /\ a.registry = actual.registry /\ a.c.running = FALSE
    BY <1>1, <2>1, ContainerStopped
  <2> HIDE DEF a
  <2> QED
    BY <2>1, <2>2, ContainerAwaits, ContainerInterfered
<1> QED
  BY <1>2, <1>3, <1>4

LEMMA ContainerNext == ContainerInv /\ [Container!Next]_vars => ContainerInv' /\ ContainerRespects
<1> SUFFICES ASSUME ContainerInv, [Container!Next]_vars PROVE ContainerInv' /\ ContainerRespects
  OBVIOUS
<1>1. actual \in ContainerHosts
  BY ContainerGiven
<1>2. CASE Container!Start
  <2>1. PICK task \in ContainerTasks, m \in {"check", "apply"} :
           Begin(task, m, "inspect", Container!Nothing)
    BY <1>2, ContainerIsARun DEF Container!Start
  <2>2. run.at = "idle" /\ ContainerMore
    BY <2>1, ContainerQuiet DEF Begin, Idle, At
  <2>3. Container!Nothing \in ContainerReads /\ Container!Nothing.fresh = FALSE
    BY DEF ContainerReads, Container!Snapshots, Container!Nothing
  <2>4. /\ ContainerAlways("inspect", task, actual, Container!Nothing, m = "check")
        /\ ContainerKnows("inspect", task, actual, Container!Nothing, FALSE, FALSE, m = "check")
        /\ ContainerWill("inspect", task, actual, Container!Nothing, FALSE) <=>
             ContainerChange(task, actual)
        /\ ContainerSettles(task, actual, TRUE) => ContainerSettles(task, actual, FALSE)
    BY <2>3 DEF ContainerKnows, ContainerWill, ContainerAlways, ContainerSettles
  <2> QED
    BY <2>1, <2>2, <2>3, <2>4, ContainerBegins DEF Container!Places
<1>3. CASE Container!Outside
  BY <1>3, ContainerOthers, ContainerInterfered
<1>4. CASE UNCHANGED vars
  <2>1. ContainerMore
    BY <1>4, ContainerQuiet DEF vars
  <2> QED
    BY <1>4, <2>1, ContainerStutters
<1>5. CASE Container!Steps \/ Container!CallError \/ Container!Killed
  BY <1>5, ContainerInspects, ContainerTakesImage, ContainerDecides, ContainerRemoves,
     ContainerCreates, ContainerUpdates, ContainerJoins, ContainerLives, ContainerWaits,
     ContainerEnds DEF Container!Steps
<1> QED
  BY <1>2, <1>3, <1>4, <1>5, ContainerGoesOn DEF Container!Next

LEMMA ContainerSafe == ContainerInv => Container!TypeOK
  BY DEF ContainerInv, RunTyped, ContainerHosts, ContainerReads, Container!TypeOK, Container!Memos,
     Memos, Container!RunStates, RunStates, Container!Forecasts, Forecasts, Container!Replies, Replies

LEMMA ContainerHolds ==
    ASSUME NEW task, NEW h PROVE Container!Satisfied(task, h) \in BOOLEAN
  BY DEF Container!Satisfied
=============================================================================

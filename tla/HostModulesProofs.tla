-------------------------- MODULE HostModulesProofs -------------------------
(***************************************************************************)
(* The modules that manage a host keep to their types, use what they have  *)
(* checked, take nothing from others and get over what a run that ended    *)
(* half-way has left, for all tasks, files, packages and tables.  fetch,   *)
(* file, unarchive and user also answer the truth, and settle.             *)
(***************************************************************************)
EXTENDS HostModules, FiniteSets, SequenceTheorems, WellFoundedInduction, TLAPS

Lists == INSTANCE SequencesExt

-----------------------------------------------------------------------------
(* A set of numbers that is not empty has a smallest one.                  *)
LEMMA Least ==
    ASSUME NEW S, S \subseteq Nat, S # {}
    PROVE \E x \in S : \A y \in S : x <= y
<1> DEFINE R == OpToRel(<, Nat)
<1>1. IsWellFoundedOn(R, Nat)
  BY NatLessThanWellFounded
<1>2. \A x, y \in Nat : y < x => <<y, x>> \in R
  BY DEF OpToRel
<1> HIDE DEF R
<1>3. PICK x \in S : \A y \in S : ~ (<<y, x>> \in R)
  BY <1>1, WFMin
<1>4. ASSUME NEW y \in S PROVE x <= y
  <2>1. ~(y < x)
    BY <1>2, <1>3
  <2>2. x \in Nat /\ y \in Nat
    OBVIOUS
  <2> QED
    BY <2>1, <2>2
<1> QED
  BY <1>4

(* Induction over the natural numbers, for a set of them.                  *)
LEMMA SetInduction ==
  ASSUME NEW T, T \subseteq Nat, 0 \in T, \A n \in T : n + 1 \in T
  PROVE T = Nat
<1> SUFFICES ASSUME Nat \ T # {} PROVE FALSE
  OBVIOUS
<1>1. PICK x \in Nat \ T : \A y \in Nat \ T : x <= y
  BY Least
<1>2. x - 1 \in Nat
  BY <1>1
<1>3. x - 1 \notin T
  <2>1. x - 1 \in T => (x - 1) + 1 \in T
    OBVIOUS
  <2> QED
    BY <1>1, <2>1
<1> QED
  BY <1>1, <1>2, <1>3

(* The concatenation of lists of members of S is one.                      *)
LEMMA FlattenType ==
  ASSUME NEW S, NEW s \in Seq(Seq(S))
  PROVE Lists!FlattenSeq(s) \in Seq(S)
<1> DEFINE Fn(g, n) == g = [i \in 1 .. n |-> IF i = 1 THEN s[i] ELSE g[i - 1] \o s[i]]
           T == {n \in Nat : n <= Len(s) => \E g : Fn(g, n)}
<1>1. 0 \in T
  <2>1. \E g : Fn(g, 0)
    OBVIOUS
  <2> QED BY <2>1
<1>2. ASSUME NEW n \in T PROVE n + 1 \in T
  <2> HIDE DEF Fn
  <2> SUFFICES ASSUME n + 1 <= Len(s) PROVE \E g : Fn(g, n + 1)
    OBVIOUS
  <2>0. n \in Nat /\ n <= Len(s) /\ Len(s) \in Nat
    OBVIOUS
  <2>1. PICK g : Fn(g, n)
    BY <1>2, <2>0
  <2> USE DEF Fn
  <2> DEFINE h == [i \in 1 .. n + 1 |->
                     IF i = n + 1 THEN (IF i = 1 THEN s[i] ELSE g[i - 1] \o s[i]) ELSE g[i]]
  <2>2. Fn(h, n + 1)
    <3>1. ASSUME NEW i \in 1 .. n + 1 PROVE h[i] = IF i = 1 THEN s[i] ELSE h[i - 1] \o s[i]
      <4>1. CASE i = n + 1
         BY <4>1
      <4>2. CASE i # n + 1
         <5>1. i \in 1 .. n /\ h[i] = g[i]
            BY <4>2
         <5>2. g[i] = IF i = 1 THEN s[i] ELSE g[i - 1] \o s[i]
            BY <5>1, <2>1
         <5>3. i # 1 => h[i-1] = g[i-1]
            BY <5>1
         <5> QED BY <5>1, <5>2, <5>3
      <4> QED BY <4>1, <4>2
    <3> QED BY <3>1
  <2> QED BY <2>2
<1>3. T = Nat
  <2> HIDE DEF T
  <2>1. T \subseteq Nat BY DEF T
  <2> QED BY <1>1, <1>2, <2>1, SetInduction
<1>4. \E g : Fn(g, Len(s))
  <2>1. Len(s) \in Nat
    OBVIOUS
  <2> HIDE DEF Fn
  <2> QED
    BY <1>3, <2>1
<1> DEFINE f == CHOOSE g : Fn(g, Len(s))
<1>5. Fn(f, Len(s))
  <2> HIDE DEF Fn
  <2> QED BY <1>4
<1> HIDE DEF f
<1> DEFINE U == {n \in Nat : n \in 1 .. Len(s) => f[n] \in Seq(S)}
<1>6. ASSUME NEW n \in U PROVE n + 1 \in U
  <2> SUFFICES ASSUME n + 1 \in 1 .. Len(s) PROVE f[n + 1] \in Seq(S)
    OBVIOUS
  <2>1. f[n + 1] = IF n + 1 = 1 THEN s[n + 1] ELSE f[(n + 1) - 1] \o s[n + 1]
    BY <1>5
  <2>2. s[n + 1] \in Seq(S)
    OBVIOUS
  <2>3. n # 0 => f[n] \in Seq(S)
    OBVIOUS
  <2> QED BY <2>1, <2>2, <2>3
<1>7. U = Nat
  <2>1. 0 \in U /\ U \subseteq Nat OBVIOUS
  <2> HIDE DEF U
  <2> QED BY <1>6, <2>1, SetInduction
<1>8. CASE Len(s) = 0
  BY <1>8 DEF Lists!FlattenSeq
<1>9. CASE Len(s) # 0
  <2>1. f[Len(s)] \in Seq(S)
    <3>1. Len(s) \in Nat /\ Len(s) \in 1 .. Len(s)
      BY <1>9
    <3> QED
      BY <1>7, <3>1
  <2>2. Lists!FlattenSeq(s) = f[Len(s)]
    BY <1>9 DEF Lists!FlattenSeq, f
  <2> QED BY <2>1, <2>2
<1> QED BY <1>8, <1>9

-----------------------------------------------------------------------------
(* A run of any module: the resource, the task, what was read and where it *)
(* is are of their types, and nothing is known between two runs.           *)
RunTyped(H, Asks, Places, Known) ==
    /\ actual \in H /\ memo \in Memos /\ ~Checking
    /\ run \in RunStates(Asks, Places, Known)
    /\ IF Idle THEN run.read = Blank ELSE run.read \in Known

(* What others see of a step: nothing, that a run starts, goes on, is      *)
(* disturbed, or answers.                                                  *)
RunMoves ==
    \/ run' = run
    \/ /\ Idle /\ run'.at # "idle" /\ run'.reply = "none"
       /\ run'.touched = FALSE /\ run'.disturbed = FALSE
    \/ /\ ~Idle /\ run'.at # "idle" /\ run'.disturbed = run.disturbed
       /\ run'.touched \in {run.touched, TRUE}
    \/ ~Idle /\ run'.at # "idle" /\ run'.disturbed = TRUE /\ run'.touched = run.touched
    \/ /\ ~Idle /\ run'.at = "idle" /\ run'.reply # "none"
       /\ run'.touched = FALSE /\ run'.disturbed = FALSE

(* What an answer says is true, holds being what the task asks for.        *)
Truthful(holds) == AnswersOK /\ ~run.disturbed => holds /\ (~run'.changed => ~run.touched)

(* A step that does not answer says nothing.                               *)
LEMMA RunSilent == Idle \/ run'.at # "idle" \/ run'.reply # "ok" => ~AnswersOK
  BY DEF AnswersOK, Answers

LEMMA RunInit ==
    ASSUME NEW H, NEW Asks, NEW Places, NEW Known, NEW R \in SUBSET H, InitRuns(R, Asks)
    PROVE RunTyped(H, Asks, Places, Known) /\ Idle /\ ~memo.settled
<1>1. PICK task \in Asks : run = Rest(task, Blank)
  BY DEF InitRuns
<1>2. run \in RunStates(Asks, Places, Known) /\ run.at = "idle" /\ run.read = Blank /\ run.mode = "apply"
  BY <1>1 DEF Rest, RunStates, Replies, Forecasts
<1>3. memo \in Memos /\ ~memo.settled
  BY DEF InitRuns, NoMemo, Memos, Forecasts
<1> QED
  BY <1>2, <1>3 DEF InitRuns, RunTyped, At, Idle, Checking

LEMMA RunBegin ==
    ASSUME NEW H, NEW Asks, NEW Places, NEW Known, RunTyped(H, Asks, Places, Known),
           "idle" \notin Places, NEW task \in Asks, NEW place \in Places, NEW r \in Known,
           Begin(task, "apply", place, r)
    PROVE /\ RunTyped(H, Asks, Places, Known)' /\ actual' = actual /\ Idle
          /\ run'.at = place /\ run'.read = r /\ run'.task = task
          /\ ~run'.disturbed /\ ~run'.touched /\ ~run'.changed /\ RunMoves
          /\ run'.again \/ memo'.settled => memo.settled /\ task = run.task
<1>1. /\ run' = [Rest(task, r) EXCEPT !.at = place, !.mode = "apply",
                   !.expect = run'.expect, !.again = run'.again]
      /\ run'.expect \in Forecasts /\ run'.again \in BOOLEAN /\ memo' \in Memos
  BY DEF Begin, Rest, RunTyped, Memos, NoMemo, Forecasts
<1>2. /\ run' \in RunStates(Asks, Places, Known) /\ run'.at = place /\ run'.read = r
      /\ run'.task = task /\ run'.mode = "apply" /\ run'.changed = FALSE /\ run'.reply = "none"
      /\ run'.touched = FALSE /\ run'.disturbed = FALSE
  BY <1>1 DEF Rest, RunStates, Replies
<1>3. run'.again \/ memo'.settled => memo.settled /\ task = run.task
  <2> DEFINE known == IF task = run.task THEN memo ELSE NoMemo
  <2>1. known \in Memos /\ (known.settled => memo.settled /\ task = run.task)
    BY DEF RunTyped, Memos, NoMemo, Forecasts
  <2>2. /\ run' = [Rest(task, r) EXCEPT !.at = place, !.mode = "apply",
                     !.expect = known.forecast, !.again = known.settled]
        /\ memo' = [known EXCEPT !.forecast = "none"]
    BY DEF Begin
  <2> HIDE DEF known
  <2>3. run'.again = known.settled /\ memo'.settled = known.settled
    BY <2>1, <2>2 DEF Rest, Memos
  <2> QED
    BY <2>1, <2>3
<1>4. RunMoves
  BY <1>2 DEF RunMoves, Begin
<1> QED
  BY <1>1, <1>2, <1>3, <1>4 DEF Begin, RunTyped, At, Idle, Checking

LEMMA RunStep ==
    ASSUME NEW H, NEW Asks, NEW Places, NEW Known, RunTyped(H, Asks, Places, Known),
           "idle" \notin Places, NEW place \in Places, NEW a \in H, NEW r \in Known,
           NEW c \in BOOLEAN, Step(place, a, r, c)
    PROVE /\ RunTyped(H, Asks, Places, Known)' /\ actual' = a
          /\ run'.at = place /\ run'.read = r /\ run'.changed = c /\ run'.task = run.task
          /\ run'.disturbed = run.disturbed /\ run'.touched = (run.touched \/ a # actual)
          /\ run'.again = run.again /\ (memo'.settled => memo.settled /\ a = actual)
          /\ ~Idle => RunMoves
<1>1. run' = [run EXCEPT !.at = place, !.read = r, !.changed = c,
                         !.touched = run.touched \/ a # actual]
  BY DEF Step, RunTyped, RunStates
<1> DEFINE b == run.touched \/ a # actual
<1>2. b \in BOOLEAN
  OBVIOUS
<1> HIDE DEF b
<1>3. run' = [run EXCEPT !.at = place, !.read = r, !.changed = c, !.touched = b]
  BY <1>1 DEF b
<1>4. /\ run' \in RunStates(Asks, Places, Known) /\ run'.at = place /\ run'.read = r
      /\ run'.changed = c /\ run'.task = run.task /\ run'.mode = run.mode
      /\ run'.disturbed = run.disturbed /\ run'.touched = b /\ run'.again = run.again
  BY <1>2, <1>3 DEF RunTyped, RunStates
<1>5. memo' \in Memos /\ (memo'.settled => memo.settled /\ a = actual)
  BY DEF Step, RunTyped, Memos, NoMemo, Forecasts
<1>6. ~Idle => RunMoves
  <2>1. b \in {run.touched, TRUE}
    BY DEF b, RunTyped, RunStates
  <2> QED
    BY <1>4, <2>1 DEF RunMoves
<1> QED
  BY <1>4, <1>5, <1>6 DEF Step, RunTyped, At, Idle, Checking, b

LEMMA RunEnds ==
    ASSUME NEW H, NEW Asks, NEW Places, NEW Known, RunTyped(H, Asks, Places, Known),
           NEW reply \in Replies, NEW c \in BOOLEAN, Ends(reply, c), actual' \in H, memo' \in Memos
    PROVE /\ RunTyped(H, Asks, Places, Known)' /\ run'.at = "idle"
          /\ run'.reply = reply /\ run'.changed = c /\ run'.task = run.task
          /\ ~Idle /\ reply # "none" => RunMoves
<1>1. /\ run' \in RunStates(Asks, Places, Known) /\ run'.at = "idle" /\ run'.read = Blank
      /\ run'.mode = run.mode /\ run'.reply = reply /\ run'.changed = c /\ run'.task = run.task
      /\ run'.touched = FALSE /\ run'.disturbed = FALSE
  BY DEF Ends, RunTyped, RunStates
<1> QED
  BY <1>1 DEF RunTyped, At, Idle, Checking, RunMoves

LEMMA RunStops ==
    ASSUME NEW H, NEW Asks, NEW Places, NEW Known, RunTyped(H, Asks, Places, Known),
           NEW reply \in Replies, Stops(reply)
    PROVE /\ RunTyped(H, Asks, Places, Known)' /\ run'.at = "idle" /\ actual' = actual
          /\ run'.reply = reply /\ run'.changed = FALSE /\ run'.task = run.task /\ memo' = memo
          /\ ~Idle /\ reply # "none" => RunMoves
  BY RunEnds DEF Stops, RunTyped

LEMMA RunAnswers ==
    ASSUME NEW H, NEW Asks, NEW Places, NEW Known, RunTyped(H, Asks, Places, Known),
           NEW c \in BOOLEAN, Answer(c)
    PROVE /\ RunTyped(H, Asks, Places, Known)' /\ run'.at = "idle" /\ actual' = actual
          /\ run'.reply = "ok" /\ run'.changed = c /\ run'.task = run.task
          /\ memo'.settled => ~run.disturbed
          /\ ~Idle => RunMoves
<1>1. memo' = [forecast |-> "none", settled |-> ~run.disturbed] /\ Ends("ok", c) /\ actual' = actual
  BY DEF Answer, RunTyped
<1> DEFINE b == ~run.disturbed
<1>2. b \in BOOLEAN
  OBVIOUS
<1> HIDE DEF b
<1>3. memo' \in Memos /\ memo'.settled = b
  BY <1>1, <1>2 DEF Memos, Forecasts, b
<1> QED
  BY <1>1, <1>3, RunEnds DEF Replies, RunTyped, b

(* Others leave the run what it is, but for what they have disturbed.      *)
LEMMA RunInterferes ==
    ASSUME NEW H, NEW Asks, NEW Places, NEW Known, RunTyped(H, Asks, Places, Known),
           NEW a \in H, Interferes(a) \/ Awaited(a)
    PROVE /\ RunTyped(H, Asks, Places, Known)' /\ actual' = a
          /\ run'.at = run.at /\ run'.read = run.read /\ run'.task = run.task
          /\ run'.changed = run.changed /\ run'.touched = run.touched
          /\ Interferes(a) => run.at = "idle" \/ run'.disturbed
          /\ Awaited(a) => run' = run
          /\ ~memo'.settled /\ RunMoves
<1>1. /\ run' \in RunStates(Asks, Places, Known)
      /\ run'.at = run.at /\ run'.read = run.read /\ run'.task = run.task /\ run'.mode = run.mode
      /\ run'.changed = run.changed /\ run'.touched = run.touched
  BY DEF Interferes, Awaited, RunTyped, RunStates
<1>2. memo' \in Memos /\ ~memo'.settled
  <2>1. memo' = NoMemo
    BY DEF Interferes, Awaited
  <2> QED
    BY <2>1 DEF NoMemo, Memos, Forecasts
<1>3. Interferes(a) => run' = run \/ (~Idle /\ run'.disturbed = TRUE)
  BY DEF Interferes, RunTyped, RunStates
<1>4. Interferes(a) => run.at = "idle" \/ run'.disturbed
  BY DEF Interferes, Idle, At, RunTyped, RunStates
<1>5. RunMoves
  BY <1>1, <1>3 DEF RunMoves, Awaited, Idle, At
<1> QED
  BY <1>1, <1>2, <1>4, <1>5 DEF Interferes, Awaited, RunTyped, At, Idle, Checking

(* A run that answers truthfully keeps the contract of modules.            *)
LEMMA RunContract ==
    ASSUME NEW H, NEW Asks, NEW Places, NEW Known,
           RunTyped(H, Asks, Places, Known), RunTyped(H, Asks, Places, Known)',
           RunMoves, Truthful(Holds), Holds \in BOOLEAN, Holds' \in BOOLEAN,
           module # "git", module' # "git"
    PROVE [Contract!Next]_(Contract!vars)
<1> USE DEF RunPhase, RunAnswer, Idle, At
<1>1. /\ run.mode = "apply" /\ run'.mode = "apply"
      /\ run.disturbed \in BOOLEAN /\ run.touched \in BOOLEAN
      /\ module # "git" /\ module' # "git"
  BY DEF RunTyped, RunStates, Checking
<1>2. CASE run' = run
  <2>1. CASE Idle
    BY <1>1, <1>2, <2>1 DEF Contract!Next, Contract!Others
  <2>2. CASE ~Idle
    BY <1>1, <1>2, <2>2 DEF Contract!Next, Contract!Awaited
  <2> QED
    BY <2>1, <2>2
<1>3. CASE /\ Idle /\ run'.at # "idle" /\ run'.reply = "none"
           /\ run'.touched = FALSE /\ run'.disturbed = FALSE
  BY <1>1, <1>3 DEF Contract!Next, Contract!Start
<1>4. CASE /\ ~Idle /\ run'.at # "idle" /\ run'.disturbed = run.disturbed
           /\ run'.touched \in {run.touched, TRUE}
  <2>1. CASE run'.touched = run.touched
    BY <1>1, <1>4, <2>1 DEF Contract!Next, Contract!Awaited
  <2>2. CASE run'.touched = TRUE
    BY <1>1, <1>4, <2>2 DEF Contract!Next, Contract!Touch
  <2> QED
    BY <1>4, <2>1, <2>2
<1>5. CASE ~Idle /\ run'.at # "idle" /\ run'.disturbed = TRUE /\ run'.touched = run.touched
  BY <1>1, <1>5 DEF Contract!Next, Contract!Others
<1>6. CASE /\ ~Idle /\ run'.at = "idle" /\ run'.reply # "none"
           /\ run'.touched = FALSE /\ run'.disturbed = FALSE
  <2>1. CASE run'.reply # "ok"
    BY <1>1, <1>6, <2>1 DEF Contract!Next, Contract!AnswerFailed
  <2>2. CASE run'.reply = "ok" /\ run'.changed
    BY <1>1, <1>6, <2>2 DEF Contract!Next, Contract!AnswerChanged, Truthful, AnswersOK, Answers
  <2>3. CASE run'.reply = "ok" /\ ~run'.changed
    BY <1>1, <1>6, <2>3 DEF Contract!Next, Contract!AnswerSame, Truthful, AnswersOK, Answers
  <2> QED
    BY <2>1, <2>2, <2>3
<1> QED
  BY <1>2, <1>3, <1>4, <1>5, <1>6 DEF RunMoves

-----------------------------------------------------------------------------
(* The steps that the modules have from ModuleRuns are the same for all.   *)

(* fetch,                                                                  *)
LEMMA FetchIsARun ==
    /\ \A R, S : Fetch!InitRuns(R, S) <=> InitRuns(R, S)
    /\ \A task, m, place, r : Fetch!Begin(task, m, place, r) <=> Begin(task, m, place, r)
    /\ \A place, a, r, c : Fetch!Step(place, a, r, c) <=> Step(place, a, r, c)
    /\ \A reply, c : Fetch!Ends(reply, c) <=> Ends(reply, c)
    /\ \A c : Fetch!Answer(c) <=> Answer(c)
    /\ \A reply : Fetch!Stops(reply) <=> Stops(reply)
    /\ \A a : Fetch!Interferes(a) <=> Interferes(a)
    /\ \A a : Fetch!Awaited(a) <=> Awaited(a)
    /\ Fetch!NoMemo = NoMemo
  BY DEF
    Fetch!At, At, Fetch!Idle, Idle, Fetch!Checking, Checking, Fetch!NoMemo, NoMemo,
    Fetch!Rest, Rest, Fetch!InitRuns, InitRuns, Fetch!Begin, Begin, Fetch!Step, Step,
    Fetch!Ends, Ends, Fetch!Answer, Answer, Fetch!Stops, Stops, Fetch!Interferes,
    Interferes, Fetch!Awaited, Awaited

(* file,                                                                   *)
LEMMA ManageIsARun ==
    /\ \A R, S : Manage!InitRuns(R, S) <=> InitRuns(R, S)
    /\ \A task, m, place, r : Manage!Begin(task, m, place, r) <=> Begin(task, m, place, r)
    /\ \A place, a, r, c : Manage!Step(place, a, r, c) <=> Step(place, a, r, c)
    /\ \A reply, c : Manage!Ends(reply, c) <=> Ends(reply, c)
    /\ \A c : Manage!Answer(c) <=> Answer(c)
    /\ \A reply : Manage!Stops(reply) <=> Stops(reply)
    /\ \A a : Manage!Interferes(a) <=> Interferes(a)
    /\ \A a : Manage!Awaited(a) <=> Awaited(a)
    /\ Manage!NoMemo = NoMemo
  BY DEF
    Manage!At, At, Manage!Idle, Idle, Manage!Checking, Checking, Manage!NoMemo, NoMemo,
    Manage!Rest, Rest, Manage!InitRuns, InitRuns, Manage!Begin, Begin, Manage!Step, Step,
    Manage!Ends, Ends, Manage!Answer, Answer, Manage!Stops, Stops, Manage!Interferes,
    Interferes, Manage!Awaited, Awaited

(* unarchive,                                                              *)
LEMMA ArchiveIsARun ==
    /\ \A R, S : Archive!InitRuns(R, S) <=> InitRuns(R, S)
    /\ \A task, m, place, r : Archive!Begin(task, m, place, r) <=> Begin(task, m, place, r)
    /\ \A place, a, r, c : Archive!Step(place, a, r, c) <=> Step(place, a, r, c)
    /\ \A reply, c : Archive!Ends(reply, c) <=> Ends(reply, c)
    /\ \A c : Archive!Answer(c) <=> Answer(c)
    /\ \A reply : Archive!Stops(reply) <=> Stops(reply)
    /\ \A a : Archive!Interferes(a) <=> Interferes(a)
    /\ \A a : Archive!Awaited(a) <=> Awaited(a)
    /\ Archive!NoMemo = NoMemo
  BY DEF
    Archive!At, At, Archive!Idle, Idle, Archive!Checking, Checking, Archive!NoMemo, NoMemo,
    Archive!Rest, Rest, Archive!InitRuns, InitRuns, Archive!Begin, Begin, Archive!Step,
    Step, Archive!Ends, Ends, Archive!Answer, Answer, Archive!Stops, Stops,
    Archive!Interferes, Interferes, Archive!Awaited, Awaited

(* user and group,                                                         *)
LEMMA UserIsARun ==
    /\ \A R, S : User!InitRuns(R, S) <=> InitRuns(R, S)
    /\ \A task, m, place, r : User!Begin(task, m, place, r) <=> Begin(task, m, place, r)
    /\ \A place, a, r, c : User!Step(place, a, r, c) <=> Step(place, a, r, c)
    /\ \A reply, c : User!Ends(reply, c) <=> Ends(reply, c)
    /\ \A c : User!Answer(c) <=> Answer(c)
    /\ \A reply : User!Stops(reply) <=> Stops(reply)
    /\ \A a : User!Interferes(a) <=> Interferes(a)
    /\ \A a : User!Awaited(a) <=> Awaited(a)
    /\ User!NoMemo = NoMemo
  BY DEF
    User!At, At, User!Idle, Idle, User!Checking, Checking, User!NoMemo, NoMemo, User!Rest,
    Rest, User!InitRuns, InitRuns, User!Begin, Begin, User!Step, Step, User!Ends, Ends,
    User!Answer, Answer, User!Stops, Stops, User!Interferes, Interferes, User!Awaited,
    Awaited

(* service and systemd_service,                                            *)
LEMMA UnitIsARun ==
    /\ \A R, S : Unit!InitRuns(R, S) <=> InitRuns(R, S)
    /\ \A task, m, place, r : Unit!Begin(task, m, place, r) <=> Begin(task, m, place, r)
    /\ \A place, a, r, c : Unit!Step(place, a, r, c) <=> Step(place, a, r, c)
    /\ \A reply, c : Unit!Ends(reply, c) <=> Ends(reply, c)
    /\ \A c : Unit!Answer(c) <=> Answer(c)
    /\ \A reply : Unit!Stops(reply) <=> Stops(reply)
    /\ \A a : Unit!Interferes(a) <=> Interferes(a)
    /\ \A a : Unit!Awaited(a) <=> Awaited(a)
    /\ Unit!NoMemo = NoMemo
  BY DEF
    Unit!At, At, Unit!Idle, Idle, Unit!Checking, Checking, Unit!NoMemo, NoMemo, Unit!Rest,
    Rest, Unit!InitRuns, InitRuns, Unit!Begin, Begin, Unit!Step, Step, Unit!Ends, Ends,
    Unit!Answer, Answer, Unit!Stops, Stops, Unit!Interferes, Interferes, Unit!Awaited,
    Awaited

(* git,                                                                    *)
LEMMA GitIsARun ==
    /\ \A R, S : Git!InitRuns(R, S) <=> InitRuns(R, S)
    /\ \A task, m, place, r : Git!Begin(task, m, place, r) <=> Begin(task, m, place, r)
    /\ \A place, a, r, c : Git!Step(place, a, r, c) <=> Step(place, a, r, c)
    /\ \A reply, c : Git!Ends(reply, c) <=> Ends(reply, c)
    /\ \A c : Git!Answer(c) <=> Answer(c)
    /\ \A reply : Git!Stops(reply) <=> Stops(reply)
    /\ \A a : Git!Interferes(a) <=> Interferes(a)
    /\ \A a : Git!Awaited(a) <=> Awaited(a)
    /\ Git!NoMemo = NoMemo
  BY DEF
    Git!At, At, Git!Idle, Idle, Git!Checking, Checking, Git!NoMemo, NoMemo, Git!Rest, Rest,
    Git!InitRuns, InitRuns, Git!Begin, Begin, Git!Step, Step, Git!Ends, Ends, Git!Answer,
    Answer, Git!Stops, Stops, Git!Interferes, Interferes, Git!Awaited, Awaited

(* cron                                                                    *)
LEMMA CronIsARun ==
    /\ \A R, S : Cron!InitRuns(R, S) <=> InitRuns(R, S)
    /\ \A task, m, place, r : Cron!Begin(task, m, place, r) <=> Begin(task, m, place, r)
    /\ \A place, a, r, c : Cron!Step(place, a, r, c) <=> Step(place, a, r, c)
    /\ \A reply, c : Cron!Ends(reply, c) <=> Ends(reply, c)
    /\ \A c : Cron!Answer(c) <=> Answer(c)
    /\ \A reply : Cron!Stops(reply) <=> Stops(reply)
    /\ \A a : Cron!Interferes(a) <=> Interferes(a)
    /\ \A a : Cron!Awaited(a) <=> Awaited(a)
    /\ Cron!NoMemo = NoMemo
  BY DEF
    Cron!At, At, Cron!Idle, Idle, Cron!Checking, Checking, Cron!NoMemo, NoMemo, Cron!Rest,
    Rest, Cron!InitRuns, InitRuns, Cron!Begin, Begin, Cron!Step, Step, Cron!Ends, Ends,
    Cron!Answer, Answer, Cron!Stops, Stops, Cron!Interferes, Interferes, Cron!Awaited,
    Awaited

(* and apt.                                                                *)
LEMMA AptIsARun ==
    /\ \A R, S : Apt!InitRuns(R, S) <=> InitRuns(R, S)
    /\ \A task, m, place, r : Apt!Begin(task, m, place, r) <=> Begin(task, m, place, r)
    /\ \A place, a, r, c : Apt!Step(place, a, r, c) <=> Step(place, a, r, c)
    /\ \A reply, c : Apt!Ends(reply, c) <=> Ends(reply, c)
    /\ \A c : Apt!Answer(c) <=> Answer(c)
    /\ \A reply : Apt!Stops(reply) <=> Stops(reply)
    /\ \A a : Apt!Interferes(a) <=> Interferes(a)
    /\ \A a : Apt!Awaited(a) <=> Awaited(a)
    /\ Apt!NoMemo = NoMemo
  BY DEF
    Apt!At, At, Apt!Idle, Idle, Apt!Checking, Checking, Apt!NoMemo, NoMemo, Apt!Rest, Rest,
    Apt!InitRuns, InitRuns, Apt!Begin, Begin, Apt!Step, Step, Apt!Ends, Ends, Apt!Answer,
    Answer, Apt!Stops, Stops, Apt!Interferes, Interferes, Apt!Awaited, Awaited

-----------------------------------------------------------------------------
(* fetch.                                                                  *)

FetchReads == [sum : Texts \union {Missing}, opened : Texts \union {Missing}]
FetchTyped == RunTyped(Fetch!Hosts, FetchTasks, Fetch!Places, FetchReads)

(* What a run with which nobody interferes knows at a place of a host h:   *)
(* r is what it has read, touched whether it has touched the copy, and     *)
(* again whether the copy has just been made.                              *)
FetchKnows(place, h, r, touched) ==
    /\ place \in {"stat", "compare", "create"} => ~touched
    /\ place # "stat" => h.file \in Texts /\ r.sum \in {h.file, Missing}
    /\ place \in {"receive", "verify"} => r.opened = h.file
    /\ place = "verify" => h.copy = h.file
(* What settled is fetched again only if it has no checksum.               *)
FetchSettled(place, task, h, r, again) ==
    again /\ (place = "stat" \/ r.sum # Missing) =>
       place \in {"stat", "compare"} /\ Fetch!Satisfied(task, h)
FetchInv ==
    /\ FetchTyped
    /\ ~Idle /\ ~run.disturbed =>
          /\ FetchKnows(run.at, actual, run.read, run.touched)
          /\ FetchSettled(run.at, run.task, actual, run.read, run.again)
    /\ memo.settled => Fetch!Satisfied(run.task, actual)
FetchRespects ==
    /\ Fetch!FetchesWhatItSaw /\ Fetch!Idempotent
    /\ RunMoves /\ Truthful(Fetch!Satisfied(run.task, actual))

LEMMA FetchInit == Fetch!Init => FetchInv
<1> SUFFICES ASSUME Fetch!Init PROVE FetchInv
  OBVIOUS
<1> DEFINE R == [file : Texts \union {Missing, Directory}, copy : {Missing}]
<1>1. InitRuns(R, FetchTasks) /\ R \subseteq Fetch!Hosts
  BY FetchIsARun DEF Fetch!Init, Fetch!Hosts
<1> HIDE DEF R
<1> QED
  BY <1>1, RunInit DEF FetchInv, FetchTyped

LEMMA FetchGiven ==
    FetchInv =>
      /\ actual \in Fetch!Hosts /\ run.changed \in BOOLEAN /\ "idle" \notin Fetch!Places
      /\ run.at \in Fetch!Places \union {"idle"} /\ run.task \in FetchTasks
      /\ run.at # "idle" => run.read \in FetchReads
  BY DEF FetchInv, FetchTyped, RunTyped, RunStates, Idle, At, Fetch!Places

LEMMA FetchSilent ==
    ASSUME ~AnswersOK, RunMoves
    PROVE FetchRespects
  BY FetchIsARun DEF FetchRespects, Truthful, Fetch!FetchesWhatItSaw, Fetch!Idempotent, Fetch!Unchanging,
     Fetch!AnswersOK, AnswersOK, Fetch!Answers, Answers, Fetch!Idle, Idle, Fetch!At, At

LEMMA FetchStep ==
    ASSUME FetchInv, ~Idle, NEW place \in Fetch!Places, NEW h \in Fetch!Hosts, NEW r \in FetchReads,
           NEW c \in BOOLEAN, Step(place, h, r, c),
           ~run.disturbed => /\ FetchKnows(place, h, r, run.touched \/ h # actual)
                             /\ FetchSettled(place, run.task, h, r, run.again)
    PROVE FetchInv' /\ FetchRespects
<1>1. /\ FetchTyped' /\ actual' = h /\ run'.at = place /\ run'.read = r /\ run'.task = run.task
      /\ run'.disturbed = run.disturbed /\ run'.touched = (run.touched \/ h # actual)
      /\ run'.again = run.again /\ (memo'.settled => memo.settled /\ h = actual)
      /\ RunMoves /\ place # "idle"
  BY FetchGiven, RunStep DEF FetchInv, FetchTyped
<1>2. FetchInv'
  BY <1>1 DEF FetchInv, FetchKnows, FetchSettled
<1> QED
  BY <1>1, <1>2, RunSilent, FetchSilent

LEMMA FetchStops == ASSUME FetchInv, ~Idle, NEW reply \in {"refused", "failed", "killed"}, Stops(reply)
                    PROVE FetchInv' /\ FetchRespects
<1>1. /\ FetchTyped' /\ run'.at = "idle" /\ actual' = actual /\ run'.reply = reply
      /\ run'.task = run.task /\ memo' = memo /\ RunMoves
  BY RunStops DEF FetchInv, FetchTyped, Replies
<1>2. FetchInv'
  BY <1>1 DEF FetchInv, Idle, At
<1> QED
  BY <1>1, <1>2, RunSilent, FetchSilent

LEMMA FetchAnswers ==
    ASSUME FetchInv, ~Idle, NEW c \in BOOLEAN, Answer(c),
           ~run.disturbed => /\ Fetch!Satisfied(run.task, actual)
                             /\ ~c => ~run.touched
                             /\ run.again /\ run.read.sum # Missing => ~c,
           c /\ run.task.validate /\ run.read.sum # Missing => actual.copy = run.read.sum
    PROVE FetchInv' /\ FetchRespects
<1>1. /\ FetchTyped' /\ run'.at = "idle" /\ actual' = actual /\ run'.reply = "ok"
      /\ run'.changed = c /\ run'.task = run.task /\ (memo'.settled => ~run.disturbed) /\ RunMoves
  BY RunAnswers DEF FetchInv, FetchTyped
<1>2. FetchInv'
  BY <1>1 DEF FetchInv, Idle, At
<1>3. Truthful(Fetch!Satisfied(run.task, actual))
  BY <1>1 DEF Truthful
<1>4. Fetch!Idempotent
  BY <1>1 DEF Fetch!Idempotent, Fetch!Unchanging, Fetch!now
<1>5. Fetch!FetchesWhatItSaw
  BY <1>1 DEF Fetch!FetchesWhatItSaw, Fetch!t, Fetch!now
<1> QED
  BY <1>1, <1>2, <1>3, <1>4, <1>5 DEF FetchRespects

LEMMA FetchNext == FetchInv /\ [Fetch!Next]_vars => FetchInv' /\ FetchRespects
<1> SUFFICES ASSUME FetchInv, [Fetch!Next]_vars PROVE FetchInv' /\ FetchRespects
  OBVIOUS
<1> DEFINE Goal == FetchInv' /\ FetchRespects
           now == run.read
           h == actual
<1>1. /\ h \in Fetch!Hosts /\ run.changed \in BOOLEAN /\ "idle" \notin Fetch!Places
      /\ run.at # "idle" => now \in FetchReads
  BY FetchGiven
<1>2. ~Idle /\ ~run.disturbed =>
        FetchKnows(run.at, h, now, run.touched) /\ FetchSettled(run.at, run.task, h, now, run.again)
  BY DEF FetchInv
<1>3. CASE UNCHANGED vars
  <2>1. actual' = actual /\ run' = run /\ memo' = memo
    BY <1>3 DEF vars
  <2>2. FetchInv'
    BY <2>1 DEF FetchInv, FetchTyped, RunTyped, Idle, At, Checking
  <2>3. Idle \/ run'.at # "idle"
    BY <2>1 DEF Idle, At
  <2>4. RunMoves
    BY <2>1 DEF RunMoves
  <2> QED
    BY <2>2, <2>3, <2>4, RunSilent, FetchSilent
<1>4. CASE Fetch!Start
  <2>1. PICK task \in FetchTasks : Begin(task, "apply", "stat", Fetch!Nothing)
    BY <1>4, FetchIsARun DEF Fetch!Start
  <2>2. Fetch!Nothing \in FetchReads /\ "stat" \in Fetch!Places
    BY DEF Fetch!Nothing, FetchReads, Fetch!Places
  <2>3. /\ FetchTyped' /\ actual' = actual /\ Idle /\ run'.at = "stat" /\ run'.task = task
        /\ ~run'.touched /\ RunMoves
        /\ run'.again \/ memo'.settled => memo.settled /\ task = run.task
    BY <1>1, <2>1, <2>2, RunBegin DEF FetchInv, FetchTyped
  <2>4. FetchInv'
    BY <2>3 DEF FetchInv, FetchKnows, FetchSettled
  <2> QED
    BY <2>3, <2>4, RunSilent, FetchSilent
<1>5. CASE (Fetch!Refuse /\ ~Idle) \/ Fetch!CallError \/ Fetch!Killed
  BY <1>1, <1>5, FetchStops, FetchIsARun
     DEF Fetch!Refuse, Fetch!CallError, Fetch!CallFails, Fetch!Killed, Fetch!Idle, Fetch!At, Idle, At
<1>6. CASE Fetch!Stat
  <2>1. run.at = "stat" /\ ~Idle /\ now \in FetchReads
    BY <1>1, <1>6 DEF Fetch!Stat, Fetch!At, Idle, At
  <2>2. CASE Fetch!Refuse
    BY <1>5, <2>1, <2>2
  <2>3. CASE h.file = Missing /\ ~run.task.must /\ Answer(FALSE)
    BY <1>2, <2>1, <2>3, FetchAnswers DEF FetchKnows, Fetch!Satisfied
  <2>4. ASSUME h.file \in Texts, NEW sum \in {h.file, Missing},
               Step("compare", h, [now EXCEPT !.sum = sum], run.changed)
        PROVE Goal
    <3> DEFINE r == [now EXCEPT !.sum = sum]
    <3>1. r \in FetchReads /\ r.sum = sum /\ "compare" \in Fetch!Places
      BY <2>1, <2>4 DEF FetchReads, Fetch!Places
    <3>2. ~run.disturbed => /\ FetchKnows("compare", h, r, run.touched \/ h # actual)
                            /\ FetchSettled("compare", run.task, h, r, run.again)
      BY <1>2, <2>1, <2>4, <3>1 DEF FetchKnows, FetchSettled
    <3> QED
      BY <1>1, <2>1, <2>4, <3>1, <3>2, FetchStep
  <2> QED
    BY <1>6, <2>2, <2>3, <2>4, FetchIsARun DEF Fetch!Stat, Fetch!Reads, Fetch!now, Fetch!t
<1>7. CASE Fetch!Compare
  <2>1. run.at = "compare" /\ ~Idle /\ now \in FetchReads
    BY <1>1, <1>7 DEF Fetch!Compare, Fetch!At, Idle, At
  <2>2. CASE now.sum # Missing /\ h.copy = now.sum /\ Answer(FALSE)
    BY <1>2, <2>1, <2>2, FetchAnswers DEF FetchKnows, Fetch!Satisfied
  <2>3. CASE ~(now.sum # Missing /\ h.copy = now.sum) /\ Step("create", h, now, run.changed)
    <3>1. ~run.disturbed => /\ FetchKnows("create", h, now, run.touched \/ h # actual)
                            /\ FetchSettled("create", run.task, h, now, run.again)
      BY <1>2, <2>1, <2>3, HostAssumption DEF FetchKnows, FetchSettled, Fetch!Satisfied
    <3> QED
      BY <1>1, <2>1, <2>3, <3>1, FetchStep DEF Fetch!Places
  <2> QED
    BY <1>7, <2>2, <2>3, FetchIsARun DEF Fetch!Compare, Fetch!Goto, Fetch!now
<1>8. CASE Fetch!Create
  <2>1. run.at = "create" /\ ~Idle /\ now \in FetchReads
    BY <1>1, <1>8 DEF Fetch!Create, Fetch!At, Idle, At
  <2> DEFINE torn == IF run.task.local THEN h ELSE [h EXCEPT !.copy = Torn]
             r == [now EXCEPT !.opened = h.file]
  <2>2. CASE h.file \in Texts /\ Step("receive", torn, r, run.changed)
    <3>1. torn \in Fetch!Hosts /\ torn.file = h.file /\ r \in FetchReads /\ r.sum = now.sum /\ r.opened = h.file
      BY <1>1, <2>1, <2>2 DEF FetchReads, Fetch!Hosts
    <3>2. ~run.disturbed => /\ FetchKnows("receive", torn, r, run.touched \/ torn # actual)
                            /\ FetchSettled("receive", run.task, torn, r, run.again)
      BY <1>2, <2>1, <3>1 DEF FetchKnows, FetchSettled
    <3> HIDE DEF torn, r
    <3> QED
      BY <1>1, <2>1, <2>2, <3>1, <3>2, FetchStep DEF Fetch!Places
  <2> QED
    BY <1>5, <1>8, <2>1, <2>2, FetchIsARun DEF Fetch!Create, Fetch!now, Fetch!t
<1>9. CASE Fetch!Receive
  <2>1. run.at = "receive" /\ ~Idle /\ now \in FetchReads
    BY <1>1, <1>9 DEF Fetch!Receive, Fetch!At, Idle, At
  <2>2. PICK x \in {now.opened} \union
               (IF h.file = now.opened THEN {} ELSE {Torn, h.file} \ {Missing, Directory}) :
          Step("verify", [h EXCEPT !.copy = x], now, TRUE)
    BY <1>9, FetchIsARun DEF Fetch!Receive, Fetch!Changes, Fetch!now
  <2> DEFINE new == [h EXCEPT !.copy = x]
  <2>3. new \in Fetch!Hosts /\ new.file = h.file /\ new.copy = x
    BY <1>1, <2>1, <2>2 DEF FetchReads, Fetch!Hosts
  <2>4. ~run.disturbed => /\ FetchKnows("verify", new, now, run.touched \/ new # actual)
                          /\ FetchSettled("verify", run.task, new, now, run.again)
    BY <1>2, <2>1, <2>2, <2>3 DEF FetchKnows, FetchSettled
  <2> HIDE DEF new
  <2> QED
    BY <2>1, <2>2, <2>3, <2>4, FetchStep DEF Fetch!Places, new
<1>10. CASE Fetch!Verify
  <2>1. run.at = "verify" /\ ~Idle /\ now \in FetchReads
    BY <1>1, <1>10 DEF Fetch!Verify, Fetch!At, Idle, At
  <2>2. CASE /\ actual' = [actual EXCEPT !.copy = Missing]
             /\ Fetch!Ends("refused", FALSE) /\ memo' = Fetch!NoMemo
    <3>1. /\ actual' \in Fetch!Hosts /\ memo' \in Memos /\ ~memo'.settled /\ Ends("refused", FALSE)
      BY <1>1, <2>2, FetchIsARun DEF Fetch!Hosts, NoMemo, Memos, Forecasts
    <3>2. FetchTyped' /\ run'.at = "idle" /\ run'.reply = "refused" /\ RunMoves
      BY <2>1, <3>1, RunEnds DEF FetchInv, FetchTyped, Replies
    <3>3. FetchInv'
      BY <3>1, <3>2 DEF FetchInv, Idle, At
    <3> QED
      BY <3>2, <3>3, RunSilent, FetchSilent
  <2>3. CASE Answer(TRUE) /\ (run.task.validate /\ now.sum # Missing => h.copy = now.sum)
    BY <1>2, <2>1, <2>3, FetchAnswers DEF FetchKnows, FetchSettled, Fetch!Satisfied
  <2> QED
    BY <1>10, <2>2, <2>3, FetchIsARun DEF Fetch!Verify, Fetch!t, Fetch!now
<1>11. CASE Fetch!Outside
  <2>1. PICK a \in Fetch!Hosts : Interferes(a)
    BY <1>1, <1>11, FetchIsARun DEF Fetch!Outside, Fetch!Hosts
  <2>2. FetchTyped' /\ run'.at = run.at /\ (run.at = "idle" \/ run'.disturbed) /\ ~memo'.settled /\ RunMoves
    BY <2>1, RunInterferes DEF FetchInv, FetchTyped
  <2>3. FetchInv' /\ (Idle \/ run'.at # "idle")
    BY <2>2 DEF FetchInv, Idle, At
  <2> QED
    BY <2>2, <2>3, RunSilent, FetchSilent
<1> QED
  BY <1>3, <1>4, <1>5, <1>6, <1>7, <1>8, <1>9, <1>10, <1>11 DEF Fetch!Next, Fetch!Steps

LEMMA FetchSafe == FetchInv => Fetch!TypeOK
  BY FetchIsARun DEF FetchInv, FetchTyped, RunTyped, RunStates, FetchReads, Fetch!TypeOK, Fetch!Memos, Memos,
     Fetch!Forecasts, Forecasts, Fetch!RunStates, Fetch!Replies, Replies, Fetch!Checking, Checking

-----------------------------------------------------------------------------
(* file.                                                                   *)

ManageReads == [state : Manage!States, left : Seq(Manage!Items)]
(* Only a directory has a file in it.                                      *)
ManageNested(h) == h.child # Missing => h.path # Missing /\ h.path.kind = "directory"
(* The state that was found, or that the task asks for, is the one that is *)
(* made; what is in the way of a link is gone until others come between;   *)
(* and a link has no attributes to be set.                                 *)
ManageKnown(place, path, r, task, disturbed) ==
    /\ place \in {"look", "create"} /\ task.state # "" => r.state = task.state
    /\ place = "look" /\ task.state = "" /\ r.state = "absent" /\ ~disturbed => path = Missing
    /\ place = "create" => task.state # "" /\ r.state \in {"link", "hard"}
                           /\ (~disturbed => path = Missing)
    /\ place # "attributes" \/ task.state = "link" => r.left = <<>>

(* A node has what the task asks for, or is still to get it.               *)
ManageHas(task, node, attr) ==
    IF attr = "owner" THEN task.owner \in {0, node.owner}
    ELSE node.kind = "link" \/ task.mode \in {0, node.mode} \/ (task.mode = 3 /\ node.mode = 2)
ManageDue(left, of, attr) == \E i \in 1 .. Len(left) : left[i] = <<of, attr>>
ManageSet(task, h, of, left) ==
    \A attr \in {"owner", "mode"} :
       h[of] = Missing \/ ManageHas(task, h[of], attr) \/ ManageDue(left, of, attr)
ManageWalks(task) == task.recurse /\ task.state \in {"directory", ""}
ManageLeft(task, h, left) ==
    /\ task.state \notin {"absent", "link", "hard"} => ManageSet(task, h, "path", left)
    /\ ManageWalks(task) => ManageSet(task, h, "child", left)
ManageMade(task, h) ==
    /\ task.state = "absent" => h.path = Missing
    /\ task.state \notin {"absent", ""} => h.path # Missing
    /\ task.state \in {"directory", "link"} => h.path.kind = task.state
    /\ task.state = "hard" => h.path.kind = "file"
    /\ task.state \in {"link", "hard"} => h.path.source
ManageDone(task, h) == ManageMade(task, h) /\ ManageLeft(task, h, <<>>)
(* What a run with which nobody interferes knows at a place of a host h.   *)
ManageKnows(place, task, h, r, changed, touched) ==
    /\ touched => changed
    /\ place = "detect" => ~changed
    /\ place = "look" => /\ r.state = "absent" \/ ~changed
                         /\ task.state = "" => r.state # "touch"
                         /\ task.state = "" /\ r.state # "absent" => h.path # Missing
    /\ place = "attributes" =>
          task.state # "absent" /\ ManageMade(task, h) /\ ManageLeft(task, h, r.left)
(* One that finds what the same task has left goes on without a change.    *)
ManageOnce(task) == task.state # "touch" /\ task.mode # 3
ManageSettled(place, task, h, r, changed, again) ==
    again /\ ManageOnce(task) =>
        /\ ManageDone(task, h) /\ ~changed /\ place # "create"
        /\ place = "attributes" =>
              /\ task.state \notin {"link", "hard"}
              /\ \A i \in 1 .. Len(r.left) : r.left[i][1] = "child" => ManageWalks(task)
ManageFine(place, task, h, r, changed, touched, again) ==
    ManageKnows(place, task, h, r, changed, touched) /\ ManageSettled(place, task, h, r, changed, again)
ManageInv ==
    /\ RunTyped(Manage!Hosts, ManageTasks, Manage!Places, ManageReads)
    /\ ManageNested(actual)
    /\ run.at # "idle" => ManageKnown(run.at, actual.path, run.read, run.task, run.disturbed)
    /\ run.at # "idle" /\ ~run.disturbed =>
          ManageFine(run.at, run.task, actual, run.read, run.changed, run.touched, run.again)
    /\ memo.settled => ManageDone(run.task, actual)

LEMMA ManageInit == Manage!Init => ManageInv
<1> SUFFICES ASSUME Manage!Init PROVE ManageInv
  OBVIOUS
<1> DEFINE R == [path : {Missing}, child : {Missing}, source : {TRUE}]
<1>1. InitRuns(R, ManageTasks) /\ R \subseteq Manage!Hosts
  BY ManageIsARun DEF Manage!Init, Manage!Hosts
<1>2. \A h \in R : ManageNested(h)
  BY DEF ManageNested
<1> HIDE DEF R
<1>3. actual \in R
  BY <1>1 DEF InitRuns
<1> QED
  BY <1>1, <1>2, <1>3, RunInit DEF ManageInv, Idle, At

(* Every step, and what it may not do.                                     *)
ManageRespects ==
    /\ Manage!KeepsWhatIsThere /\ Manage!Recovers /\ Manage!Idempotent
    /\ RunMoves /\ Truthful(Manage!Satisfied(run.task, actual))

LEMMA ManageSilent ==
    ASSUME ~AnswersOK, RunMoves, Manage!KeepsWhatIsThere, Manage!Recovers
    PROVE ManageRespects
  BY DEF ManageRespects, Truthful, Manage!Idempotent, Manage!Unchanging,
     Manage!AnswersOK, AnswersOK, Manage!Answers, Answers, Manage!Idle, Idle, Manage!At, At

(* What is done is what the task asks for.                                 *)
LEMMA ManageMeets ==
    ASSUME NEW task \in Manage!Requests, NEW h \in Manage!Hosts, ManageNested(h), ManageDone(task, h)
    PROVE Manage!Satisfied(task, h)
<1>1. task.state \in Manage!States
  BY DEF Manage!Requests
<1>2. \A attr : ~ManageDue(<<>>, "path", attr) /\ ~ManageDue(<<>>, "child", attr)
  BY DEF ManageDue
<1>3. task.state \notin {"absent", "link", "hard"} /\ h.path # Missing => Manage!Has(task, h.path)
  BY <1>2 DEF ManageDone, ManageLeft, ManageSet, ManageHas, Manage!Has
<1>4. task.state = "directory" /\ task.recurse /\ h.child # Missing => Manage!Has(task, h.child)
  BY <1>2 DEF ManageDone, ManageLeft, ManageWalks, ManageSet, ManageHas, Manage!Has
<1>5. CASE task.state = "absent"
  BY <1>5 DEF ManageDone, ManageMade, Manage!Satisfied
<1>6. CASE task.state = "directory"
  BY <1>3, <1>4, <1>6 DEF ManageDone, ManageMade, Manage!Satisfied
<1>7. CASE task.state \in {"file", "touch"}
  BY <1>3, <1>7 DEF ManageDone, ManageMade, Manage!Satisfied
<1>8. CASE task.state = "link"
  BY <1>8 DEF ManageDone, ManageMade, Manage!Satisfied
<1>9. CASE task.state = "hard"
  BY <1>9 DEF ManageDone, ManageMade, Manage!Satisfied
<1>10. CASE task.state = ""
  BY <1>3, <1>10 DEF Manage!Satisfied
<1> QED
  BY <1>1, <1>5, <1>6, <1>7, <1>8, <1>9, <1>10 DEF Manage!States

LEMMA ManageGiven ==
    ManageInv =>
      /\ actual \in Manage!Hosts /\ run.changed \in BOOLEAN /\ "idle" \notin Manage!Places
      /\ run.at \in Manage!Places \union {"idle"} /\ run.disturbed \in BOOLEAN
      /\ run.at # "idle" => run.read \in ManageReads
      /\ run.task \in Manage!Requests
  BY HostAssumption DEF ManageInv, RunTyped, RunStates, Idle, At, Manage!Places, Manage!TaskAssumption

LEMMA ManageStep ==
    ASSUME ManageInv, run.at # "idle", NEW place \in Manage!Places, NEW a \in Manage!Hosts,
           NEW r \in ManageReads, NEW c \in BOOLEAN, Step(place, a, r, c), ManageNested(a),
           ManageKnown(place, a.path, r, run.task, run.disturbed),
           a.path = Missing => actual.path = Missing \/ run.disturbed \/ run.task.force
                               \/ run.task.state = "absent",
           ~run.disturbed => ManageFine(place, run.task, a, r, c, run.touched \/ a # actual, run.again)
    PROVE ManageInv' /\ ManageRespects
<1>1. /\ RunTyped(Manage!Hosts, ManageTasks, Manage!Places, ManageReads)' /\ actual' = a
      /\ run'.at = place /\ run'.read = r /\ run'.task = run.task /\ run'.disturbed = run.disturbed
      /\ run'.touched = (run.touched \/ a # actual) /\ run'.changed = c /\ run'.again = run.again
      /\ (memo'.settled => memo.settled /\ a = actual) /\ RunMoves /\ place # "idle"
  BY ManageGiven, RunStep DEF ManageInv, Idle, At
<1>2. ManageInv'
  <2>1. ~run'.disturbed =>
          ManageFine(run'.at, run'.task, actual', run'.read, run'.changed, run'.touched, run'.again)
    BY <1>1
  <2>2. memo'.settled => ManageDone(run'.task, actual')
    BY <1>1 DEF ManageInv
  <2> QED
    BY <1>1, <2>1, <2>2 DEF ManageInv, ManageNested, ManageKnown, ManageFine, ManageKnows,
       ManageSettled, ManageDone, ManageMade, ManageLeft, ManageSet
<1>3. Manage!KeepsWhatIsThere
  BY <1>1 DEF Manage!KeepsWhatIsThere, Manage!There, Manage!path, Manage!t
<1>4. Manage!Recovers
  BY <1>1, ManageGiven DEF Manage!Recovers, Manage!Recovering, Manage!Answers
<1> QED
  BY <1>1, <1>2, <1>3, <1>4, RunSilent, ManageSilent

LEMMA ManageStops ==
    ASSUME ManageInv, run.at # "idle",
           \/ Stops("failed") \/ Stops("killed")
           \/ /\ Stops("refused")
              /\ run.task.state = "link" /\ run.task.force => run.disturbed
    PROVE ManageInv' /\ ManageRespects
<1>1. /\ RunTyped(Manage!Hosts, ManageTasks, Manage!Places, ManageReads)' /\ run'.at = "idle"
      /\ actual' = actual /\ run'.task = run.task /\ memo' = memo /\ RunMoves /\ run'.reply # "ok"
      /\ run'.reply # "refused" \/ (run.task.state = "link" /\ run.task.force => run.disturbed)
  BY RunStops DEF ManageInv, Replies, Idle, At
<1>2. ManageInv'
  BY <1>1 DEF ManageInv, ManageNested
<1>3. Manage!KeepsWhatIsThere
  BY <1>1 DEF Manage!KeepsWhatIsThere, Manage!There, Manage!path
<1>4. Manage!Recovers
  BY <1>1 DEF Manage!Recovers, Manage!Recovering, Manage!t
<1> QED
  BY <1>1, <1>2, <1>3, <1>4, RunSilent, ManageSilent

LEMMA ManageAnswers ==
    ASSUME ManageInv, run.at # "idle", NEW c \in BOOLEAN, Answer(c),
           ~run.disturbed => /\ ManageDone(run.task, actual)
                             /\ ~c => ~run.touched
                             /\ run.again /\ ManageOnce(run.task) => ~c
    PROVE ManageInv' /\ ManageRespects
<1>1. /\ RunTyped(Manage!Hosts, ManageTasks, Manage!Places, ManageReads)' /\ run'.at = "idle"
      /\ actual' = actual /\ run'.reply = "ok" /\ run'.changed = c /\ run'.task = run.task
      /\ (memo'.settled => ~run.disturbed) /\ RunMoves
  BY RunAnswers DEF ManageInv, Idle, At
<1>2. ManageInv'
  BY <1>1 DEF ManageInv, ManageNested
<1>3. Truthful(Manage!Satisfied(run.task, actual))
  BY <1>1, ManageGiven, ManageMeets DEF Truthful, ManageInv
<1>4. Manage!Idempotent
  BY <1>1 DEF Manage!Idempotent, Manage!Unchanging, ManageOnce, Manage!t
<1>5. Manage!KeepsWhatIsThere
  BY <1>1 DEF Manage!KeepsWhatIsThere, Manage!There, Manage!path
<1>6. Manage!Recovers
  BY <1>1 DEF Manage!Recovers, Manage!Recovering, Manage!t
<1> QED
  BY <1>1, <1>2, <1>3, <1>4, <1>5, <1>6 DEF ManageRespects

LEMMA ManageStart ==
    ManageInv /\ (UNCHANGED vars \/ Manage!Start \/ Manage!Outside) => ManageInv' /\ ManageRespects
<1> SUFFICES ASSUME ManageInv, UNCHANGED vars \/ Manage!Start \/ Manage!Outside
             PROVE ManageInv' /\ ManageRespects
  OBVIOUS
<1>1. CASE UNCHANGED vars
  <2>1. actual' = actual /\ run' = run /\ memo' = memo
    BY <1>1 DEF vars
  <2>2. ManageInv'
    <3>1. RunTyped(Manage!Hosts, ManageTasks, Manage!Places, ManageReads)'
      BY <2>1 DEF ManageInv, RunTyped, Idle, At, Checking
    <3>2. ManageNested(actual)'
      BY <2>1 DEF ManageInv, ManageNested
    <3>3. run'.at # "idle" =>
            ManageKnown(run'.at, actual'.path, run'.read, run'.task, run'.disturbed)
      BY <2>1 DEF ManageInv
    <3>4. run'.at # "idle" /\ ~run'.disturbed =>
            ManageFine(run'.at, run'.task, actual', run'.read, run'.changed, run'.touched, run'.again)
      BY <2>1 DEF ManageInv
    <3>5. memo'.settled => ManageDone(run'.task, actual')
      BY <2>1 DEF ManageInv
    <3> QED
      BY <3>1, <3>2, <3>3, <3>4, <3>5 DEF ManageInv
  <2> QED
    BY <2>1, <2>2, RunSilent, ManageSilent DEF RunMoves, Idle, At, Manage!KeepsWhatIsThere,
       Manage!There, Manage!path, Manage!Recovers, Manage!Recovering, Manage!Answers, Manage!Idle,
       Manage!At
<1>2. CASE Manage!Start
  <2>1. PICK task \in ManageTasks : Begin(task, "apply", "detect", Manage!Nothing)
    BY <1>2, ManageIsARun DEF Manage!Start
  <2>2. Manage!Nothing \in ManageReads /\ "detect" \in Manage!Places
    BY DEF Manage!Nothing, ManageReads, Manage!Places, Manage!States
  <2>3. /\ RunTyped(Manage!Hosts, ManageTasks, Manage!Places, ManageReads)' /\ actual' = actual
        /\ run'.at = "detect" /\ run'.read = Manage!Nothing /\ Idle /\ run'.task = task
        /\ ~run'.disturbed /\ ~run'.touched /\ ~run'.changed /\ RunMoves
        /\ run'.again \/ memo'.settled => memo.settled /\ task = run.task
    BY <2>1, <2>2, ManageGiven, RunBegin DEF ManageInv
  <2>4. ManageKnown("detect", actual.path, Manage!Nothing, run'.task, run'.disturbed)
    BY DEF ManageKnown, Manage!Nothing
  <2>5. run'.again \/ memo'.settled => ManageDone(run'.task, actual')
    BY <2>3 DEF ManageInv
  <2>6. ManageFine("detect", run'.task, actual', Manage!Nothing, run'.changed, run'.touched, run'.again)
    BY <2>3, <2>5 DEF ManageFine, ManageKnows, ManageSettled
  <2>7. ManageInv'
    BY <2>3, <2>4, <2>5, <2>6 DEF ManageInv, ManageNested
  <2> QED
    BY <2>3, <2>7, RunSilent, ManageSilent DEF Idle, At,
       Manage!KeepsWhatIsThere, Manage!There, Manage!path, Manage!Recovers, Manage!Recovering,
       Manage!Answers
<1>3. CASE Manage!Outside
  <2>1. PICK a \in Manage!Hosts : Interferes(a) /\ ManageNested(a)
    <3>1. actual \in Manage!Hosts /\ ManageNested(actual)
      BY ManageGiven DEF ManageInv
    <3> DEFINE Goal == \E a \in Manage!Hosts : Interferes(a) /\ ManageNested(a)
    <3>2. ASSUME NEW node \in Manage!Nodes \union {Missing},
                 Interferes([actual EXCEPT !.path = node, !.child = Missing])
          PROVE Goal
      <4> DEFINE a == [actual EXCEPT !.path = node, !.child = Missing]
      <4>1. a \in Manage!Hosts /\ a.child = Missing
        BY <3>1 DEF Manage!Hosts
      <4>2. ManageNested(a) /\ Interferes(a)
        BY <3>2, <4>1 DEF ManageNested
      <4> HIDE DEF a
      <4> QED
        BY <4>1, <4>2
    <3>3. ASSUME Manage!Is("directory"), Interferes([actual EXCEPT !.child = Manage!New("file", FALSE)])
          PROVE Goal
      <4> DEFINE a == [actual EXCEPT !.child = Manage!New("file", FALSE)]
      <4>1. Manage!New("file", FALSE) \in Manage!Nodes
        BY DEF Manage!New, Manage!Nodes
      <4>2. a \in Manage!Hosts /\ a.path = actual.path
        BY <3>1, <4>1 DEF Manage!Hosts
      <4>3. ManageNested(a) /\ Interferes(a)
        BY <3>3, <4>2 DEF ManageNested, Manage!Is, Manage!There, Manage!path
      <4> HIDE DEF a
      <4> QED
        BY <4>2, <4>3
    <3>4. ASSUME Interferes([actual EXCEPT !.source = ~@]) PROVE Goal
      <4> DEFINE b == ~actual.source
      <4>1. b \in BOOLEAN
        OBVIOUS
      <4> DEFINE a == [actual EXCEPT !.source = b]
      <4>2. Interferes(a)
        BY <3>4
      <4> HIDE DEF b
      <4>3. a \in Manage!Hosts /\ a.path = actual.path /\ a.child = actual.child
        BY <3>1, <4>1 DEF Manage!Hosts
      <4>4. ManageNested(a)
        BY <3>1, <4>3 DEF ManageNested
      <4> HIDE DEF a
      <4> QED
        BY <4>2, <4>3, <4>4
    <3>5. \/ \E node \in Manage!Nodes \union {Missing} :
                Interferes([actual EXCEPT !.path = node, !.child = Missing])
          \/ Manage!Is("directory") /\ Interferes([actual EXCEPT !.child = Manage!New("file", FALSE)])
          \/ Interferes([actual EXCEPT !.source = ~@])
      <4>1. [kind : {"file", "directory", "link"}, source : BOOLEAN, owner : {1, 2},
             mode : {1}, time : {"later"}] \subseteq Manage!Nodes
        BY DEF Manage!Nodes
      <4> QED
        BY <1>3, <4>1, ManageIsARun DEF Manage!Outside
    <3> HIDE DEF Goal
    <3>6. Goal
      BY <3>2, <3>3, <3>4, <3>5
    <3> QED
      BY <3>6 DEF Goal
  <2>2. /\ RunTyped(Manage!Hosts, ManageTasks, Manage!Places, ManageReads)' /\ actual' = a
        /\ run'.at = run.at /\ run'.read = run.read /\ run'.task = run.task
        /\ (run.at = "idle" \/ run'.disturbed) /\ ~memo'.settled /\ RunMoves
    BY <2>1, RunInterferes DEF ManageInv
  <2>3. ManageInv'
    BY <2>1, <2>2 DEF ManageInv, ManageNested, ManageKnown
  <2> QED
    BY <2>1, <2>2, <2>3, RunSilent, ManageSilent DEF Idle, At,
       Manage!KeepsWhatIsThere, Manage!There, Manage!path, Manage!Recovers, Manage!Recovering,
       Manage!Answers, Manage!Idle, Manage!At
<1> QED
  BY <1>1, <1>2, <1>3

(* What a run that nobody disturbed knows.                                 *)
LEMMA ManageRuns ==
    ManageInv /\ run.at # "idle" /\ ~run.disturbed =>
      /\ ManageKnows(run.at, run.task, actual, run.read, run.changed, run.touched)
      /\ ManageSettled(run.at, run.task, actual, run.read, run.changed, run.again)
  BY DEF ManageInv, ManageFine

LEMMA ManageDetect == ManageInv /\ Manage!Detect => ManageInv' /\ ManageRespects
<1> SUFFICES ASSUME ManageInv, Manage!Detect PROVE ManageInv' /\ ManageRespects
  OBVIOUS
<1> DEFINE state == IF run.task.state = "" THEN Manage!Detected ELSE run.task.state
           r == [run.read EXCEPT !.state = state]
<1>1. run.at = "detect" /\ run.read \in ManageReads /\ run.task.state \in Manage!States
  BY ManageGiven DEF Manage!Detect, Manage!At, Manage!Requests
<1>2. /\ Manage!Detected \in Manage!States \ {"", "touch"}
      /\ Manage!Detected = "absent" <=> actual.path = Missing
  BY ManageGiven DEF Manage!Detected, Manage!There, Manage!path, Manage!States, Manage!Hosts, Manage!Nodes
<1>3. state \in Manage!States
  BY <1>1, <1>2
<1>4. /\ run.task.state # "" => state = run.task.state
      /\ run.task.state = "" => state # "touch" /\ (state = "absent" <=> actual.path = Missing)
  BY <1>2
<1>5. Step("look", actual, r, run.changed)
  BY ManageIsARun DEF Manage!Detect, Manage!Reads, Manage!t, Manage!now
<1> HIDE DEF state
<1>6. r \in ManageReads /\ r.state = state /\ r.left = run.read.left
  BY <1>1, <1>3 DEF ManageReads
<1>7. run.read.left = <<>>
  BY <1>1 DEF ManageInv, ManageKnown
<1> HIDE DEF r
<1>8. ManageKnown("look", actual.path, r, run.task, run.disturbed)
  BY <1>4, <1>6, <1>7 DEF ManageKnown
<1>9. "look" \in Manage!Places /\ ManageNested(actual)
  BY DEF Manage!Places, ManageInv
<1>10. ~run.disturbed => ManageFine("look", run.task, actual, r, run.changed,
                                    run.touched \/ actual # actual, run.again)
  BY <1>1, <1>4, <1>6, ManageRuns DEF ManageFine, ManageKnows, ManageSettled
<1> QED
  BY <1>1, <1>5, <1>6, <1>8, <1>9, <1>10, ManageGiven, ManageStep

LEMMA ManageAbsent == ManageInv /\ Manage!EnsureAbsent => ManageInv' /\ ManageRespects
<1> SUFFICES ASSUME ManageInv, Manage!EnsureAbsent PROVE ManageInv' /\ ManageRespects
  OBVIOUS
<1> DEFINE a == [actual EXCEPT !.path = Missing, !.child = Missing]
<1>1. /\ run.at = "look" /\ run.read \in ManageReads /\ run.read.state = "absent"
      /\ ManageKnown("look", actual.path, run.read, run.task, run.disturbed)
  BY ManageGiven DEF Manage!EnsureAbsent, Manage!At, Manage!now, ManageInv
<1>2. \/ actual.path = Missing /\ Answer(run.changed)
      \/ actual.path # Missing /\ Step("look", a, run.read, TRUE)
  BY ManageIsARun DEF Manage!EnsureAbsent, Manage!Changes, Manage!There, Manage!path
<1>3. a \in Manage!Hosts /\ ManageNested(a) /\ a.path = Missing
  BY ManageGiven DEF Manage!Hosts, ManageNested
<1> HIDE DEF a
<1>4. ManageKnown("look", a.path, run.read, run.task, run.disturbed)
  BY <1>1, <1>3 DEF ManageKnown
<1>5. actual.path # Missing => run.task.state = "absent" \/ run.disturbed
  BY <1>1 DEF ManageKnown
<1>6. actual.path # Missing /\ ~run.disturbed =>
        ManageFine("look", run.task, a, run.read, TRUE, run.touched \/ a # actual, run.again)
  BY <1>1, <1>5, ManageRuns DEF ManageFine, ManageKnows, ManageSettled, ManageDone, ManageMade
<1>7. actual.path = Missing => ManageDone(run.task, actual)
  <2> SUFFICES ASSUME actual.path = Missing PROVE ManageDone(run.task, actual)
    OBVIOUS
  <2>1. run.task.state \in {"absent", ""} /\ actual.child = Missing
    BY <1>1 DEF ManageKnown, ManageInv, ManageNested
  <2> QED
    BY <2>1 DEF ManageDone, ManageMade, ManageLeft, ManageSet
<1>8. CASE actual.path = Missing /\ Answer(run.changed)
  <2>1. ~run.disturbed => /\ ~run.changed => ~run.touched
                          /\ run.again /\ ManageOnce(run.task) => ~run.changed
    BY <1>1, ManageRuns DEF ManageKnows, ManageSettled
  <2> QED
    BY <1>1, <1>7, <1>8, <2>1, ManageGiven, ManageAnswers
<1>9. CASE actual.path # Missing /\ Step("look", a, run.read, TRUE)
  BY <1>1, <1>3, <1>4, <1>5, <1>6, <1>9, ManageStep DEF Manage!Places
<1> QED
  BY <1>2, <1>8, <1>9

(* The items whose attributes are set.                                     *)
LEMMA ManageItems ==
    /\ Manage!Own \in Seq(Manage!Items) /\ Manage!Chosen \in Seq(Manage!Items)
    /\ \A r \in ManageReads, items \in Seq(Manage!Items) :
          /\ [r EXCEPT !.left = items] \in ManageReads
          /\ [r EXCEPT !.left = items].state = r.state /\ [r EXCEPT !.left = items].left = items
<1>1. \A i \in {"path", "child"}, j \in {"owner", "mode"} : <<i, j>> \in Manage!Items
  BY DEF Manage!Items
<1>2. Manage!Own \in Seq(Manage!Items)
  BY <1>1 DEF Manage!Own
<1>3. << <<"child", "owner">>, <<"child", "mode">> >> \in Seq(Manage!Items)
  BY <1>1
<1>4. Manage!Walk \in Seq(Manage!Items)
  BY <1>2, <1>3 DEF Manage!Walk
<1>5. Manage!Chosen \in Seq(Manage!Items)
  BY <1>2, <1>4 DEF Manage!Chosen
<1> QED
  BY <1>2, <1>5 DEF ManageReads

(* What is due at first.                                                   *)
LEMMA ManageDues ==
    /\ \A attr \in {"owner", "mode"} :
          ManageDue(Manage!Own, "path", attr) /\ ManageDue(Manage!Chosen, "path", attr)
    /\ run.task.recurse => \A attr \in {"owner", "mode"} : ManageDue(Manage!Chosen, "child", attr)
    /\ \A i \in 1 .. Len(Manage!Own) : Manage!Own[i][1] # "child"
    /\ \A i \in 1 .. Len(Manage!Chosen) : Manage!Chosen[i][1] = "child" => run.task.recurse
<1> DEFINE own == << <<"path", "owner">>, <<"path", "mode">> >>
           sub == << <<"child", "owner">>, <<"child", "mode">> >>
           walk == own \o sub
           both == own \o walk
<1>1. own \in Seq(Manage!Items) /\ sub \in Seq(Manage!Items)
  BY DEF Manage!Items
<1>2. Manage!Own = own /\ Manage!Chosen = IF run.task.recurse THEN both ELSE own
  BY DEF Manage!Own, Manage!Chosen, Manage!Walk, Manage!t
<1>3. /\ Len(own) = 2 /\ own[1] = <<"path", "owner">> /\ own[2] = <<"path", "mode">>
      /\ Len(sub) = 2 /\ sub[1] = <<"child", "owner">> /\ sub[2] = <<"child", "mode">>
  OBVIOUS
<1> HIDE DEF own, sub
<1>4. /\ walk \in Seq(Manage!Items) /\ Len(walk) = 4
      /\ walk[3] = <<"child", "owner">> /\ walk[4] = <<"child", "mode">>
  <2>1. /\ walk \in Seq(Manage!Items) /\ Len(walk) = Len(own) + Len(sub)
        /\ \A i \in 1 .. Len(own) + Len(sub) :
              walk[i] = IF i <= Len(own) THEN own[i] ELSE sub[i - Len(own)]
    BY <1>1, ConcatProperties
  <2> HIDE DEF walk
  <2> QED
    BY <1>3, <2>1
<1> HIDE DEF walk
<1>5. /\ Len(both) = 6 /\ both[1] = <<"path", "owner">> /\ both[2] = <<"path", "mode">>
      /\ both[5] = <<"child", "owner">> /\ both[6] = <<"child", "mode">>
  <2>1. /\ Len(both) = Len(own) + Len(walk)
        /\ \A i \in 1 .. Len(own) + Len(walk) :
              both[i] = IF i <= Len(own) THEN own[i] ELSE walk[i - Len(own)]
    BY <1>1, <1>4, ConcatProperties
  <2> HIDE DEF both
  <2> QED
    BY <1>3, <1>4, <2>1
<1> HIDE DEF both
<1>6. \A attr \in {"owner", "mode"} :
         /\ ManageDue(own, "path", attr)
         /\ ManageDue(both, "path", attr) /\ ManageDue(both, "child", attr)
  BY <1>3, <1>5 DEF ManageDue
<1>7. \A i \in 1 .. Len(own) : own[i][1] # "child"
  BY <1>3
<1> QED
  BY <1>2, <1>6, <1>7

(* A node may be put at the path where no file is in the directory there.  *)
LEMMA ManagePut ==
    ASSUME ManageInv, NEW node \in Manage!Nodes,
           actual.child # Missing => node.kind = "directory"
    PROVE LET a == [actual EXCEPT !.path = node] IN
          a \in Manage!Hosts /\ ManageNested(a) /\ a.path # Missing /\ a.path = node
  BY ManageGiven, HostAssumption DEF Manage!Hosts, ManageNested

LEMMA ManageNew ==
    \A kind \in {"file", "directory", "link"}, source \in BOOLEAN :
       Manage!New(kind, source) \in Manage!Nodes /\ Manage!New(kind, source).kind = kind
  BY DEF Manage!New, Manage!Nodes

LEMMA ManageDirectory ==
    ManageInv /\ (Manage!EnsureDirectory \/ Manage!EnsureFile) => ManageInv' /\ ManageRespects
<1> SUFFICES ASSUME ManageInv, Manage!EnsureDirectory \/ Manage!EnsureFile
             PROVE ManageInv' /\ ManageRespects
  OBVIOUS
<1> DEFINE task == run.task
<1>1. /\ run.at = "look" /\ run.read \in ManageReads /\ run.read.state \in {"directory", "file"}
      /\ ManageKnown("look", actual.path, run.read, task, run.disturbed)
  BY ManageGiven DEF Manage!EnsureDirectory, Manage!EnsureFile, Manage!At, Manage!now, ManageInv
<1>2. task.state \in {"", run.read.state}
  BY <1>1 DEF ManageKnown
<1> DEFINE new == [actual EXCEPT !.path = Manage!New("directory", FALSE)]
           kept(items) == [run.read EXCEPT !.left = items]
<1>3. \/ Stops("refused")
      \/ \E items \in {Manage!Own, Manage!Chosen} :
            /\ run.read.state = "directory" => items = Manage!Chosen
            /\ run.read.state = "file" => items = Manage!Own
            /\ \/ /\ actual.path # Missing /\ Step("attributes", actual, kept(items), run.changed)
                  /\ run.read.state = "directory" <=> actual.path.kind = "directory"
               \/ /\ actual.path = Missing /\ run.read.state = "directory"
                  /\ Step("attributes", new, kept(items), TRUE)
  BY <1>1, ManageIsARun DEF Manage!EnsureDirectory, Manage!EnsureFile, Manage!Refuse,
     Manage!Reads, Manage!Attributes, Manage!now, Manage!There, Manage!path
<1>4. actual.path = Missing => /\ new \in Manage!Hosts /\ ManageNested(new) /\ new.path # Missing
                               /\ new.path.kind = "directory"
  BY ManageNew, ManagePut DEF ManageInv, ManageNested
<1> HIDE DEF new
<1>5. ASSUME NEW items \in {Manage!Own, Manage!Chosen},
             run.read.state = "directory" => items = Manage!Chosen,
             run.read.state = "file" => items = Manage!Own,
             NEW a \in Manage!Hosts, ManageNested(a), a.path # Missing,
             run.read.state = "directory" <=> a.path.kind = "directory",
             NEW c \in BOOLEAN, c = run.changed \/ c,
             (a = actual /\ c = run.changed) \/ (actual.path = Missing /\ c),
             Step("attributes", a, kept(items), c)
      PROVE ManageInv' /\ ManageRespects
  <2>1. kept(items) \in ManageReads /\ kept(items).left = items /\ items \in Seq(Manage!Items)
    BY <1>1, ManageItems
  <2> DEFINE r == kept(items)
  <2> HIDE DEF kept, r
  <2>2. ManageKnown("attributes", a.path, r, task, run.disturbed)
    BY <1>1, <1>2 DEF ManageKnown
  <2>3. ManageSet(task, a, "path", items) /\ (ManageWalks(task) => ManageSet(task, a, "child", items))
    <3>1. ManageSet(task, a, "path", items)
      BY <1>5, ManageDues DEF ManageSet
    <3>2. CASE items = Manage!Chosen
      BY <3>1, <3>2, ManageDues DEF ManageSet, ManageWalks
    <3>3. CASE run.read.state = "file"
      <4>1. a.child = Missing
        BY <1>5, <3>3 DEF ManageNested
      <4>2. ManageSet(task, a, "child", items)
        BY <4>1, <1>5 DEF ManageSet, Manage!Hosts
      <4> QED
        BY <3>1, <4>2
    <3> QED
      BY <1>1, <1>5, <3>2, <3>3
  <2>4. task.state # "absent" /\ ManageMade(task, a) /\ ManageLeft(task, a, items)
    BY <1>1, <1>2, <1>5, <2>3 DEF ManageMade, ManageLeft
  <2>5. ASSUME ~run.disturbed
        PROVE ManageKnows("attributes", task, a, r, c, run.touched \/ a # actual)
    BY <1>1, <1>5, <2>1, <2>4, <2>5, ManageRuns DEF ManageKnows, r
  <2>6. ASSUME ~run.disturbed, run.again, ManageOnce(task)
        PROVE /\ ManageDone(task, a) /\ ~c /\ task.state \notin {"link", "hard"}
              /\ \A i \in 1 .. Len(items) : items[i][1] = "child" => ManageWalks(task)
    <3>1. ManageDone(task, actual) /\ ~run.changed
      BY <1>1, <2>6, ManageRuns DEF ManageSettled
    <3>2. actual.path # Missing
      BY <1>1, <1>2, <2>6, <3>1, ManageRuns DEF ManageDone, ManageMade, ManageKnows
    <3>3. \A i \in 1 .. Len(items) : items[i][1] = "child" => ManageWalks(task)
      BY <1>1, <1>2, <1>5, ManageDues DEF ManageWalks
    <3> QED
      BY <1>1, <1>2, <1>5, <3>1, <3>2, <3>3
  <2>7. ~run.disturbed => ManageFine("attributes", task, a, r, c, run.touched \/ a # actual, run.again)
    BY <2>1, <2>5, <2>6 DEF ManageFine, ManageSettled, r
  <2>8. Step("attributes", a, r, c) /\ r \in ManageReads
    BY <1>5, <2>1 DEF r
  <2> QED
    BY <1>1, <1>5, <2>2, <2>7, <2>8, ManageStep DEF Manage!Places
<1>6. ManageNested(actual)
  BY DEF ManageInv
<1>7. CASE Stops("refused")
  BY <1>1, <1>2, <1>7, ManageStops
<1>8. CASE \E items \in {Manage!Own, Manage!Chosen} :
            /\ run.read.state = "directory" => items = Manage!Chosen
            /\ run.read.state = "file" => items = Manage!Own
            /\ \/ /\ actual.path # Missing /\ Step("attributes", actual, kept(items), run.changed)
                  /\ run.read.state = "directory" <=> actual.path.kind = "directory"
               \/ /\ actual.path = Missing /\ run.read.state = "directory"
                  /\ Step("attributes", new, kept(items), TRUE)
  <2> HIDE DEF kept
  <2> QED
    BY <1>4, <1>5, <1>6, <1>8, ManageGiven
<1> QED
  BY <1>3, <1>7, <1>8

LEMMA ManageLinks ==
    ManageInv /\ (Manage!EnsureSymlink \/ Manage!EnsureHardlink) => ManageInv' /\ ManageRespects
<1> SUFFICES ASSUME ManageInv, Manage!EnsureSymlink \/ Manage!EnsureHardlink
             PROVE ManageInv' /\ ManageRespects
  OBVIOUS
<1>1. /\ run.at = "look" /\ run.read \in ManageReads /\ run.read.state \in {"link", "hard"}
      /\ ManageKnown("look", actual.path, run.read, run.task, run.disturbed)
  BY ManageGiven DEF Manage!EnsureSymlink, Manage!EnsureHardlink, Manage!At, Manage!now, ManageInv
<1> DEFINE none == [actual EXCEPT !.path = Missing, !.child = Missing]
           alone == [actual EXCEPT !.path = Missing]
           made == /\ actual.path # Missing /\ actual.path.source
                   /\ actual.path.kind = IF run.read.state = "link" THEN "link" ELSE "file"
<1>2. \/ Answer(FALSE) /\ made /\ run.task.state = run.read.state
      \/ Stops("refused") /\ (run.task.state # "link" \/ ~run.task.force)
      \/ /\ run.task.state = run.read.state /\ (actual.path # Missing => run.task.force) /\ ~made
         /\ \/ Step("create", none, run.read, actual.path # Missing)
            \/ actual.child = Missing /\ Step("create", alone, run.read, actual.path # Missing)
  BY <1>1, ManageIsARun DEF Manage!EnsureSymlink, Manage!EnsureHardlink, Manage!Refuse, Manage!t,
     Manage!now, Manage!There, Manage!path, Manage!Is, ManageKnown
<1>3. /\ none \in Manage!Hosts /\ ManageNested(none) /\ none.path = Missing
      /\ actual.child = Missing => alone \in Manage!Hosts /\ ManageNested(alone) /\ alone.path = Missing
      /\ actual.path = Missing => none = actual /\ alone = actual
  BY ManageGiven DEF Manage!Hosts, ManageNested, ManageInv
<1> HIDE DEF none, alone
<1>4. run.task.state # "" => ManageKnown("create", Missing, run.read, run.task, run.disturbed)
  BY <1>1 DEF ManageKnown
<1>5. "create" \in Manage!Places /\ (actual.path # Missing) \in BOOLEAN
  BY DEF Manage!Places
<1>6. ~run.disturbed => ~run.changed /\ ~run.touched
  BY <1>1, ManageRuns DEF ManageKnows
<1>7. ~run.disturbed /\ run.task.state = run.read.state /\ ~made => ~(run.again /\ ManageOnce(run.task))
  BY <1>1, ManageRuns DEF ManageSettled, ManageDone, ManageMade
<1>8. made /\ run.task.state = run.read.state => ManageDone(run.task, actual)
  BY <1>1 DEF ManageDone, ManageMade, ManageLeft, ManageWalks
<1>9. ASSUME run.task.state = run.read.state, actual.path # Missing => run.task.force, ~made,
             NEW a \in {none, alone}, a = none \/ actual.child = Missing,
             Step("create", a, run.read, actual.path # Missing)
      PROVE ManageInv' /\ ManageRespects
  <2>1. a \in Manage!Hosts /\ ManageNested(a) /\ a.path = Missing /\ (actual.path = Missing => a = actual)
    BY <1>3, <1>9
  <2> DEFINE c == actual.path # Missing
             b == run.touched \/ a # actual
  <2>2. ~run.disturbed => (b => c)
    BY <1>6, <2>1
  <2>3. ~run.disturbed => ManageFine("create", run.task, a, run.read, c, b, run.again)
    <3> HIDE DEF b, c
    <3> QED
      BY <1>7, <1>9, <2>2 DEF ManageFine, ManageKnows, ManageSettled
  <2>4. Step("create", a, run.read, c) /\ c \in BOOLEAN
    BY <1>9
  <2>5. a.path = Missing => actual.path = Missing \/ run.task.force
    BY <1>9
  <2>6. ManageKnown("create", a.path, run.read, run.task, run.disturbed)
    BY <1>1, <1>4, <1>9, <2>1
  <2> HIDE DEF c
  <2> QED
    BY <1>1, <1>5, <2>1, <2>3, <2>4, <2>5, <2>6, ManageStep
<1> HIDE DEF made
<1>10. CASE Answer(FALSE) /\ made /\ run.task.state = run.read.state
  BY <1>1, <1>6, <1>8, <1>10, ManageAnswers
<1>11. CASE Stops("refused") /\ (run.task.state # "link" \/ ~run.task.force)
  BY <1>1, <1>11, ManageStops
<1> QED
  BY <1>2, <1>9, <1>10, <1>11

LEMMA ManageCreate == ManageInv /\ Manage!CreateLink => ManageInv' /\ ManageRespects
<1> SUFFICES ASSUME ManageInv, Manage!CreateLink PROVE ManageInv' /\ ManageRespects
  OBVIOUS
<1> DEFINE kind == IF run.read.state = "hard" THEN "file" ELSE "link"
           node == Manage!New(kind, TRUE)
           a == [actual EXCEPT !.path = node]
<1>1. /\ run.at = "create" /\ run.read \in ManageReads
      /\ ManageKnown("create", actual.path, run.read, run.task, run.disturbed)
  BY ManageGiven DEF Manage!CreateLink, Manage!At, ManageInv
<1>2. \/ Stops("refused") /\ (actual.path # Missing \/ run.read.state = "hard")
      \/ actual.path = Missing /\ Step("attributes", a, run.read, TRUE)
  BY ManageIsARun DEF Manage!CreateLink, Manage!Refuse, Manage!now, Manage!There, Manage!path
<1>3. node \in Manage!Nodes /\ node.kind = kind /\ node.source = TRUE
  BY DEF Manage!New, Manage!Nodes
<1> HIDE DEF node
<1>4. actual.path = Missing => a \in Manage!Hosts /\ ManageNested(a) /\ a.path # Missing /\ a.path = node
  BY <1>3, ManagePut DEF ManageInv, ManageNested
<1> HIDE DEF a
<1>5. ManageKnown("attributes", a.path, run.read, run.task, run.disturbed)
  BY <1>1 DEF ManageKnown
<1>6. run.task.state = "link" /\ (actual.path # Missing \/ run.read.state = "hard") => run.disturbed
  BY <1>1 DEF ManageKnown
<1>7. CASE actual.path = Missing /\ Step("attributes", a, run.read, TRUE)
  <2>1. run.task.state \in {"link", "hard"} /\ run.task.state = run.read.state
    BY <1>1 DEF ManageKnown
  <2>2. ManageMade(run.task, a) /\ ManageLeft(run.task, a, run.read.left)
    BY <1>3, <1>4, <1>7, <2>1 DEF ManageMade, ManageLeft, ManageWalks
  <2>3. ~run.disturbed =>
          ManageFine("attributes", run.task, a, run.read, TRUE, run.touched \/ a # actual, run.again)
    BY <1>1, <2>1, <2>2, ManageRuns DEF ManageFine, ManageKnows, ManageSettled
  <2> QED
    BY <1>1, <1>4, <1>5, <1>7, <2>3, ManageStep DEF Manage!Places
<1>8. CASE Stops("refused") /\ (actual.path # Missing \/ run.read.state = "hard")
  BY <1>1, <1>6, <1>8, ManageStops
<1> QED
  BY <1>2, <1>7, <1>8

LEMMA ManageTouch == ManageInv /\ Manage!EnsureTouch => ManageInv' /\ ManageRespects
<1> SUFFICES ASSUME ManageInv, Manage!EnsureTouch PROVE ManageInv' /\ ManageRespects
  OBVIOUS
<1>1. /\ run.at = "look" /\ run.read \in ManageReads /\ run.read.state = "touch"
      /\ ManageKnown("look", actual.path, run.read, run.task, run.disturbed)
  BY ManageGiven DEF Manage!EnsureTouch, Manage!At, Manage!now, ManageInv
<1> DEFINE node == IF actual.path = Missing THEN Manage!New("file", FALSE)
                   ELSE [actual.path EXCEPT !.time = "epoch"]
           a == [actual EXCEPT !.path = node]
           r == [run.read EXCEPT !.left = Manage!Own]
<1>2. Step("attributes", a, r, TRUE)
  <2>1. actual = [path |-> actual.path, child |-> actual.child, source |-> actual.source]
    BY ManageGiven DEF Manage!Hosts
  <2> QED
    BY <2>1, ManageIsARun DEF Manage!EnsureTouch, Manage!Attributes, Manage!now, Manage!There, Manage!path
<1>3. node \in Manage!Nodes /\ (actual.child # Missing => node.kind = "directory")
  <2>1. CASE actual.path = Missing
    BY <2>1, ManageNew DEF ManageInv, ManageNested
  <2>2. CASE actual.path # Missing
    <3>1. actual.path \in Manage!Nodes
      BY <2>2, ManageGiven DEF Manage!Hosts
    <3> QED
      BY <2>2, <3>1 DEF ManageInv, ManageNested, Manage!Nodes
  <2> QED
    BY <2>1, <2>2
<1> HIDE DEF node
<1>4. a \in Manage!Hosts /\ ManageNested(a) /\ a.path # Missing
  BY <1>3, ManagePut
<1>5. r \in ManageReads /\ r.state = "touch" /\ r.left = Manage!Own
  BY <1>1, ManageItems
<1> HIDE DEF a, r
<1>6. ManageKnown("attributes", a.path, r, run.task, run.disturbed)
  BY <1>1, <1>5 DEF ManageKnown
<1>7. ~run.disturbed => ManageFine("attributes", run.task, a, r, TRUE, run.touched \/ a # actual, run.again)
  <2> SUFFICES ASSUME ~run.disturbed
               PROVE ManageFine("attributes", run.task, a, r, TRUE, run.touched \/ a # actual, run.again)
    OBVIOUS
  <2>1. run.task.state = "touch"
    BY <1>1, ManageRuns DEF ManageKnown, ManageKnows
  <2>2. ManageMade(run.task, a) /\ ManageLeft(run.task, a, r.left)
    BY <1>4, <1>5, <2>1, ManageDues DEF ManageMade, ManageLeft, ManageWalks, ManageSet
  <2> QED
    BY <2>1, <2>2 DEF ManageFine, ManageKnows, ManageSettled, ManageOnce
<1> QED
  BY <1>1, <1>2, <1>4, <1>5, <1>6, <1>7, ManageStep DEF Manage!Places

(* An attribute that is set, or need not be, is no longer due.             *)
LEMMA ManageTail ==
    ASSUME NEW left \in Seq(Manage!Items), left # <<>>, NEW of, NEW attr,
           ManageDue(left, of, attr), Head(left) # <<of, attr>>
    PROVE ManageDue(Tail(left), of, attr)
<1>1. PICK i \in 1 .. Len(left) : left[i] = <<of, attr>>
  BY DEF ManageDue
<1>2. i # 1 /\ Len(Tail(left)) = Len(left) - 1 /\ Tail(left)[i - 1] = left[i]
  BY <1>1
<1>3. i - 1 \in 1 .. Len(Tail(left))
  BY <1>1, <1>2
<1> QED
  BY <1>1, <1>2, <1>3 DEF ManageDue

LEMMA ManageAttributes == ManageInv /\ Manage!SetAttributes => ManageInv' /\ ManageRespects
<1> SUFFICES ASSUME ManageInv, Manage!SetAttributes PROVE ManageInv' /\ ManageRespects
  OBVIOUS
<1> DEFINE task == run.task
           item == Head(run.read.left)
           of == item[1]
           attr == item[2]
           r == [run.read EXCEPT !.left = Tail(run.read.left)]
           node == actual[of]
           set == Manage!Set(node, attr)
           a == [actual EXCEPT ![of] = set]
           asked == IF attr = "owner" THEN task.owner ELSE task.mode
<1>1. /\ run.at = "attributes" /\ run.read \in ManageReads /\ run.read.left # <<>>
      /\ ManageKnown("attributes", actual.path, run.read, task, run.disturbed)
  BY ManageGiven DEF Manage!SetAttributes, Manage!At, Manage!now, ManageInv
<1>2. task.state # "link" /\ item \in Manage!Items /\ run.read.left \in Seq(Manage!Items)
  BY <1>1 DEF ManageKnown, ManageReads
<1>3. of \in {"path", "child"} /\ attr \in {"owner", "mode"} /\ item = <<of, attr>>
  BY <1>2 DEF Manage!Items
<1>4. r \in ManageReads /\ r.state = run.read.state /\ r.left = Tail(run.read.left)
  <2>1. Tail(run.read.left) \in Seq(Manage!Items)
    BY <1>1 DEF ManageReads
  <2> QED
    BY <1>1, <2>1, ManageItems
<1>5. \/ /\ Step("attributes", actual, r, run.changed)
         /\ asked = 0 \/ node = Missing \/ Manage!Settled(node, attr)
      \/ Stops("refused")
      \/ /\ node # Missing /\ asked # 0 /\ ~Manage!Settled(node, attr)
         /\ Step("attributes", a, r, TRUE)
  BY ManageIsARun DEF Manage!SetAttributes, Manage!now, Manage!Reads, Manage!Refuse, Manage!t
<1>6. task.owner \in 0 .. 2 /\ task.mode \in 0 .. 3
  BY ManageGiven DEF Manage!Requests
<1>7. ASSUME node # Missing, asked # 0
      PROVE /\ set \in Manage!Nodes /\ set.kind = node.kind /\ set.source = node.source
            /\ ManageHas(task, set, attr)
            /\ \A other \in {"owner", "mode"} : other # attr => (ManageHas(task, node, other) => ManageHas(task, set, other))
  <2>1. node \in Manage!Nodes
    BY <1>3, <1>7, ManageGiven DEF Manage!Hosts
  <2>2. CASE attr = "owner"
    <3>1. set = [node EXCEPT !.owner = task.owner] /\ task.owner \in 1 .. 2
      BY <1>6, <1>7, <2>2 DEF Manage!Set, Manage!t
    <3> HIDE DEF set, node
    <3>2. /\ set \in Manage!Nodes /\ set.kind = node.kind /\ set.source = node.source
          /\ set.owner = task.owner /\ set.mode = node.mode
      BY <2>1, <3>1 DEF Manage!Nodes
    <3> QED
      BY <2>2, <3>2 DEF ManageHas
  <2>3. CASE attr = "mode"
    <3> DEFINE mode == IF task.mode = 3 THEN 2 ELSE task.mode
    <3>1. mode \in 1 .. 2 /\ (task.mode = mode \/ (task.mode = 3 /\ mode = 2))
      BY <1>6, <1>7, <2>3
    <3>2. set = [node EXCEPT !.mode = mode]
      BY <2>3 DEF Manage!Set, Manage!t
    <3> HIDE DEF mode, set, node
    <3>3. /\ set \in Manage!Nodes /\ set.kind = node.kind /\ set.source = node.source
          /\ set.mode = mode /\ set.owner = node.owner
      BY <2>1, <3>1, <3>2 DEF Manage!Nodes
    <3> QED
      BY <2>3, <3>1, <3>3 DEF ManageHas
  <2> QED
    BY <1>3, <2>2, <2>3
<1> HIDE DEF set
<1>8. ASSUME node # Missing, asked # 0
      PROVE /\ a \in Manage!Hosts /\ ManageNested(a) /\ a.path # Missing /\ actual.path # Missing
            /\ a[of] = set /\ \A other \in {"path", "child"} : other # of => a[other] = actual[other]
            /\ a.path.kind = actual.path.kind /\ a.path.source = actual.path.source
  <2>1. CASE of = "path"
    <3>1. a = [actual EXCEPT !.path = set] /\ node = actual.path
      BY <2>1
    <3>2. actual.child # Missing => set.kind = "directory"
      BY <1>7, <1>8, <3>1 DEF ManageInv, ManageNested
    <3>3. a \in Manage!Hosts /\ ManageNested(a) /\ a.path # Missing /\ a.path = set
      BY <1>7, <1>8, <3>1, <3>2, ManagePut
    <3>4. a.child = actual.child
      BY <3>1, ManageGiven DEF Manage!Hosts
    <3> QED
      BY <1>7, <1>8, <2>1, <3>1, <3>3, <3>4
  <2>2. CASE of = "child"
    <3>1. a = [actual EXCEPT !.child = set] /\ node = actual.child
      BY <2>2
    <3>2. a \in Manage!Hosts /\ a.path = actual.path /\ a.child = set
      BY <1>7, <1>8, <3>1, ManageGiven DEF Manage!Hosts
    <3> QED
      BY <1>8, <2>2, <3>1, <3>2 DEF ManageInv, ManageNested
  <2> QED
    BY <1>3, <2>1, <2>2
<1> HIDE DEF a
<1>9. ASSUME asked = 0 \/ node = Missing \/ Manage!Settled(node, attr)
      PROVE node = Missing \/ ManageHas(task, node, attr)
  BY <1>3, <1>9 DEF Manage!Settled, Manage!t, ManageHas
<1>10. \A path : ManageKnown("attributes", path, r, task, run.disturbed)
  BY <1>1, <1>2, <1>4 DEF ManageKnown
<1>11. "attributes" \in Manage!Places /\ ManageNested(actual)
  BY DEF Manage!Places, ManageInv
<1>12. ASSUME ~run.disturbed
       PROVE /\ ManageKnows("attributes", task, actual, run.read, run.changed, run.touched)
             /\ ManageSettled("attributes", task, actual, run.read, run.changed, run.again)
  BY <1>1, <1>12, ManageRuns
<1>13. \A which, other : ManageDue(run.read.left, which, other) /\ ~(which = of /\ other = attr)
                           => ManageDue(r.left, which, other)
  BY <1>1, <1>2, <1>3, <1>4, ManageTail
<1>14. \A i \in 1 .. Len(r.left) : i + 1 \in 1 .. Len(run.read.left) /\ r.left[i] = run.read.left[i + 1]
  BY <1>1, <1>2, <1>4
<1>15. CASE Stops("refused")
  BY <1>1, <1>2, <1>15, ManageStops
<1>16. CASE /\ Step("attributes", actual, r, run.changed)
            /\ asked = 0 \/ node = Missing \/ Manage!Settled(node, attr)
  <2>1. ASSUME NEW which \in {"path", "child"}, ManageSet(task, actual, which, run.read.left)
        PROVE ManageSet(task, actual, which, r.left)
    BY <1>9, <1>13, <1>16, <2>1 DEF ManageSet
  <2> HIDE DEF node, asked, of, attr, item, r
  <2>2. ~run.disturbed => ManageKnows("attributes", task, actual, r, run.changed, run.touched \/ actual # actual)
    BY <1>12, <2>1 DEF ManageKnows, ManageLeft
  <2>3. ~run.disturbed => ManageSettled("attributes", task, actual, r, run.changed, run.again)
    BY <1>12, <1>14 DEF ManageSettled
  <2> QED
    BY <1>1, <1>4, <1>10, <1>11, <1>16, <2>2, <2>3, ManageGiven, ManageStep DEF ManageFine
<1>17. CASE /\ node # Missing /\ asked # 0 /\ ~Manage!Settled(node, attr)
            /\ Step("attributes", a, r, TRUE)
  <2>1. ASSUME NEW which \in {"path", "child"}, ManageSet(task, actual, which, run.read.left)
        PROVE ManageSet(task, a, which, r.left)
    <3>1. CASE which # of
      BY <1>8, <1>13, <1>17, <2>1, <3>1 DEF ManageSet
    <3>2. CASE which = of
      BY <1>7, <1>8, <1>13, <1>17, <2>1, <3>2 DEF ManageSet
    <3> QED
      BY <3>1, <3>2
  <2>2. ~run.disturbed => ~(run.again /\ ManageOnce(task))
    <3> SUFFICES ASSUME ~run.disturbed, run.again, ManageOnce(task) PROVE FALSE
      OBVIOUS
    <3>1. /\ ManageDone(task, actual) /\ task.state \notin {"absent", "link", "hard"}
          /\ \A i \in 1 .. Len(run.read.left) : run.read.left[i][1] = "child" => ManageWalks(task)
      BY <1>12 DEF ManageSettled, ManageKnows
    <3>2. of = "child" => ManageWalks(task)
      <4>1. 1 \in 1 .. Len(run.read.left) /\ item = run.read.left[1]
        BY <1>1, <1>2
      <4> QED
        BY <3>1, <4>1
    <3>3. ManageSet(task, actual, of, <<>>)
      BY <1>3, <3>1, <3>2 DEF ManageDone, ManageLeft
    <3>4. ManageHas(task, node, attr)
      BY <1>3, <1>17, <3>3 DEF ManageSet, ManageDue
    <3> QED
      BY <1>17, <3>4 DEF ManageHas, ManageOnce, Manage!Settled, Manage!t
  <2>3. ASSUME ~run.disturbed
        PROVE ManageKnows("attributes", task, a, r, TRUE, run.touched \/ a # actual)
    <3>1. ManageMade(task, a) /\ task.state # "absent"
      BY <1>8, <1>12, <1>17, <2>3 DEF ManageKnows, ManageMade
    <3>2. ManageLeft(task, a, r.left)
      BY <1>12, <2>1, <2>3 DEF ManageKnows, ManageLeft
    <3> QED
      BY <3>1, <3>2 DEF ManageKnows
  <2>4. ~run.disturbed => ManageFine("attributes", task, a, r, TRUE, run.touched \/ a # actual, run.again)
    BY <2>2, <2>3 DEF ManageFine, ManageSettled
  <2> HIDE DEF node, asked, of, attr, item, r
  <2> QED
    BY <1>1, <1>4, <1>8, <1>10, <1>11, <1>17, <2>4, ManageStep
<1> QED
  BY <1>5, <1>15, <1>16, <1>17

LEMMA ManageNext == ManageInv /\ [Manage!Next]_vars => ManageInv' /\ ManageRespects
<1> SUFFICES ASSUME ManageInv, [Manage!Next]_vars PROVE ManageInv' /\ ManageRespects
  OBVIOUS
<1>1. CASE Manage!CallError \/ Manage!Killed
  <2>1. run.at # "idle" /\ (Stops("failed") \/ Stops("killed"))
    BY <1>1, ManageIsARun, ManageGiven DEF Manage!CallError, Manage!CallFails, Manage!Killed,
       Manage!Idle, Manage!At
  <2> QED
    BY <2>1, ManageStops
<1>2. CASE Manage!Done
  <2>1. run.at = "attributes" /\ run.read.left = <<>> /\ Answer(run.changed)
    BY <1>2, ManageIsARun DEF Manage!Done, Manage!At, Manage!now
  <2>2. ~run.disturbed => /\ ManageDone(run.task, actual)
                          /\ ~run.changed => ~run.touched
                          /\ run.again /\ ManageOnce(run.task) => ~run.changed
    BY <2>1, ManageRuns DEF ManageKnows, ManageSettled, ManageDone
  <2> QED
    BY <2>1, <2>2, ManageGiven, ManageAnswers
<1> QED
  BY <1>1, <1>2, ManageStart, ManageDetect, ManageAbsent, ManageDirectory, ManageLinks, ManageCreate,
     ManageTouch, ManageAttributes DEF Manage!Next, Manage!Steps

LEMMA ManageSafe == ManageInv => Manage!TypeOK
<1> SUFFICES ASSUME ManageInv PROVE Manage!TypeOK
  OBVIOUS
<1>1. /\ memo \in Manage!Memos /\ ~Manage!Checking
      /\ run.read # Blank => run.read \in ManageReads
      /\ run \in RunStates(ManageTasks, Manage!Places, ManageReads)
  BY ManageIsARun DEF ManageInv, RunTyped, Manage!Memos, Memos, Manage!Forecasts, Forecasts,
     Manage!Checking, Checking, Idle, At
<1>2. [run EXCEPT !.read = Blank] \in Manage!RunStates(ManageTasks, Manage!Places, {})
  BY <1>1 DEF RunStates, Manage!RunStates, Manage!Replies, Replies, Manage!Forecasts, Forecasts
<1> QED
  BY <1>1, <1>2 DEF ManageInv, ManageNested, RunTyped, ManageReads, Manage!TypeOK

-----------------------------------------------------------------------------
(* unarchive.                                                              *)

(* Where a run is says where its archive is: a local one was hashed and,   *)
(* once it is verified, it is the one of that checksum, until another      *)
(* controller uploads under its name.                                      *)
(* What others do not disturb is the archive while it is uploaded and the  *)
(* upload until it is verified.                                            *)
ArchiveFound(place, h, r, task, disturbed) ==
    /\ task.remote => /\ place \notin {"hash", "upload", "uploading", "verify"}
                      /\ place # "dest" => h.archive # Missing
    /\ ~task.remote /\ place # "hash" => r.hash # Missing
    /\ ~task.remote /\ place \in {"verify", "creates", "list", "diff", "extract"} =>
          h.upload[r.hash] # Missing
    /\ ~task.remote /\ ~r.swapped /\ place \in {"creates", "list", "diff", "extract"} =>
          h.upload[r.hash] = r.hash
    /\ place = "extract" => r.todo \subseteq task.select
    /\ place = "attributes" => task.mode
    /\ ~disturbed /\ place \in {"upload", "uploading"} => h.archive = r.hash
    /\ ~disturbed /\ ~task.remote /\ place \in {"dest", "verify"} => h.upload[r.hash] = r.hash

(* A file that is extracted, and one that is being written.                *)
ArchiveFile(h) == [content |-> h.archive, asked |-> FALSE, newer |-> FALSE]
ArchiveOpened == [content |-> Torn, asked |-> FALSE, newer |-> TRUE]
ArchiveMet(task, h, f) ==
    /\ h.dest[f] # Missing
    /\ task.type = "tar" /\ ~(task.newer /\ h.dest[f].newer) => h.dest[f].content = h.archive
ArchiveBefore == {"hash", "upload", "uploading", "dest", "verify", "creates", "list", "diff"}
(* What a run with which nobody interferes knows at a place of a host h:   *)
(* the archive, the upload and what it has extracted are as it left them.  *)
ArchiveKnows(place, task, h, r, touched) ==
    /\ place \in ArchiveBefore => ~touched /\ r.open = Missing
    /\ ~task.remote /\ place # "hash" => h.archive = r.hash
    /\ ~task.remote /\ place \in {"dest", "verify", "creates", "list", "diff", "extract"} =>
          h.upload[r.hash] = r.hash
    /\ place \in {"list", "diff"} => task.creates = Missing \/ h.dest[task.creates] = Missing
    /\ place = "extract" =>
          /\ \A f \in task.select \ r.todo :
                ArchiveMet(task, h, f) /\ (~task.newer => h.dest[f] = ArchiveFile(h))
          /\ r.open # Missing => r.open \in r.todo /\ h.dest[r.open] = ArchiveOpened
    /\ place \in {"attributes", "after"} => \A f \in task.select : ArchiveMet(task, h, f)
    /\ place = "after" /\ ~task.mode /\ ~task.newer =>
          \A f \in task.select : h.dest[f] = ArchiveFile(h)
(* One that finds what the same task has left extracts nothing.            *)
ArchiveOnce(task, h) ==
    ~task.mode /\ ~task.newer /\ task.select = Files /\ (task.type = "zip" => h.zipinfo)
ArchiveDone(task, h) ==
    \/ task.creates # Missing /\ h.dest[task.creates] # Missing
    \/ \A f \in Files : h.dest[f] # Missing /\ (task.type = "tar" => h.dest[f] = ArchiveFile(h))
ArchiveSettled(place, task, h, again) ==
    again /\ ArchiveOnce(task, h) => ArchiveDone(task, h) /\ place \in ArchiveBefore
ArchiveFine(place, task, h, r, touched, again) ==
    ArchiveKnows(place, task, h, r, touched) /\ ArchiveSettled(place, task, h, again)
ArchiveInv ==
    /\ RunTyped(Archive!Hosts, ArchiveTasks, Archive!Places, Archive!Reading)
    /\ run.at # "idle" => ArchiveFound(run.at, actual, run.read, run.task, run.disturbed)
    /\ run.at # "idle" /\ ~run.disturbed =>
          ArchiveFine(run.at, run.task, actual, run.read, run.touched, run.again)
    /\ memo.settled /\ ArchiveOnce(run.task, actual) => ArchiveDone(run.task, actual)
ArchiveRespects ==
    /\ Archive!Recovers /\ Archive!ExtractsWhatWasHashed /\ Archive!KeepsTheRest
    /\ Archive!Idempotent /\ RunMoves /\ Truthful(Archive!Satisfied(run.task, actual))

LEMMA ArchiveSilent ==
    ASSUME ~AnswersOK, RunMoves, Archive!Recovers, Archive!ExtractsWhatWasHashed, Archive!KeepsTheRest
    PROVE ArchiveRespects
  BY DEF ArchiveRespects, Truthful, Archive!Idempotent, Archive!Unchanging,
     Archive!AnswersOK, AnswersOK, Archive!Answers, Answers, Archive!Idle, Idle, Archive!At, At

(* What a run that nobody disturbed knows.                                 *)
LEMMA ArchiveRuns ==
    ArchiveInv /\ run.at # "idle" /\ ~run.disturbed =>
      /\ ArchiveKnows(run.at, run.task, actual, run.read, run.touched)
      /\ ArchiveSettled(run.at, run.task, actual, run.again)
  BY DEF ArchiveInv, ArchiveFine

(* What a step makes of the files, for KeepsTheRest and                    *)
(* ExtractsWhatWasHashed.                                                  *)
ArchiveKeeps(d) ==
    \A f \in Files :
       /\ actual.dest[f] # Missing /\ f # run.read.open
          /\ (f \notin run.task.select \/ (run.task.newer /\ actual.dest[f].newer)) =>
             d[f] # Missing /\ d[f].content = actual.dest[f].content
       /\ run.at = "extract" /\ ~run.task.remote /\ ~run.read.swapped /\ d[f] # actual.dest[f] =>
             d[f].content \in {run.read.hash, Torn}

LEMMA ArchiveGiven ==
    ArchiveInv =>
      /\ actual \in Archive!Hosts /\ run.changed \in BOOLEAN /\ "idle" \notin Archive!Places
      /\ run.at \in Archive!Places \union {"idle"} /\ run.disturbed \in BOOLEAN
      /\ run.at # "idle" => run.read \in Archive!Reading
      /\ run.task \in Archive!Requests /\ ArchiveKeeps(actual.dest)
  BY HostAssumption DEF ArchiveInv, RunTyped, RunStates, Idle, At, Archive!Places,
     Archive!TaskAssumption, ArchiveKeeps

LEMMA ArchiveInit == Archive!Init => ArchiveInv
<1> SUFFICES ASSUME Archive!Init PROVE ArchiveInv
  OBVIOUS
<1> DEFINE R == [archive : {Missing, 1}, upload : {[v \in Archive!Versions |-> Missing]},
                 dir : BOOLEAN, dest : {[f \in Files |-> Missing]}, zipinfo : BOOLEAN]
<1>1. InitRuns(R, ArchiveTasks)
  BY ArchiveIsARun DEF Archive!Init
<1>2. R \subseteq Archive!Hosts
  BY DEF Archive!Hosts, Archive!Versions
<1> HIDE DEF R
<1> QED
  BY <1>1, <1>2, RunInit DEF ArchiveInv, Idle, At

LEMMA ArchiveStep ==
    ASSUME ArchiveInv, run.at # "idle", NEW place \in Archive!Places, NEW a \in Archive!Hosts,
           NEW r \in Archive!Reading, NEW c \in BOOLEAN, Step(place, a, r, c),
           ArchiveFound(place, a, r, run.task, run.disturbed), ArchiveKeeps(a.dest),
           ~run.disturbed => ArchiveFine(place, run.task, a, r, run.touched \/ a # actual, run.again)
    PROVE ArchiveInv' /\ ArchiveRespects
<1>1. /\ RunTyped(Archive!Hosts, ArchiveTasks, Archive!Places, Archive!Reading)' /\ actual' = a
      /\ run'.at = place /\ run'.read = r /\ run'.task = run.task /\ run'.disturbed = run.disturbed
      /\ run'.touched = (run.touched \/ a # actual) /\ run'.again = run.again
      /\ (memo'.settled => memo.settled /\ a = actual) /\ RunMoves /\ place # "idle"
  BY ArchiveGiven, RunStep DEF ArchiveInv, Idle, At
<1>2. ArchiveInv'
  <2>1. ArchiveFound(run'.at, actual', run'.read, run'.task, run'.disturbed)
    BY <1>1
  <2>2. ~run'.disturbed => ArchiveFine(run'.at, run'.task, actual', run'.read, run'.touched, run'.again)
    BY <1>1
  <2>3. memo'.settled /\ ArchiveOnce(run'.task, actual') => ArchiveDone(run'.task, actual')
    BY <1>1 DEF ArchiveInv
  <2> QED
    BY <1>1, <2>1, <2>2, <2>3 DEF ArchiveInv
<1>3. Archive!KeepsTheRest /\ Archive!ExtractsWhatWasHashed
  BY <1>1 DEF ArchiveKeeps, Archive!KeepsTheRest, Archive!ExtractsWhatWasHashed, Archive!Extract,
     Archive!At, Archive!t, Archive!now, Archive!dest
<1>4. Archive!Recovers
  BY <1>1 DEF Archive!Recovers, Archive!Recovering, Archive!Answers
<1> QED
  BY <1>1, <1>2, <1>3, <1>4, RunSilent, ArchiveSilent

(* A step that only goes on.                                               *)
LEMMA ArchiveGoes ==
    ASSUME ArchiveInv, run.at # "idle", NEW place \in Archive!Places, Archive!Goto(place),
           ArchiveFound(place, actual, run.read, run.task, run.disturbed),
           ~run.disturbed => ArchiveFine(place, run.task, actual, run.read, run.touched, run.again)
    PROVE ArchiveInv' /\ ArchiveRespects
<1>1. Step(place, actual, run.read, run.changed)
  BY ArchiveIsARun DEF Archive!Goto
<1>2. ~run.disturbed =>
        ArchiveFine(place, run.task, actual, run.read, run.touched \/ actual # actual, run.again)
  BY DEF ArchiveFine, ArchiveKnows
<1> QED
  BY <1>1, <1>2, ArchiveGiven, ArchiveStep

LEMMA ArchiveStops ==
    ASSUME ArchiveInv, run.at # "idle",
           \/ Archive!Stops("failed") \/ Archive!Stops("killed")
           \/ /\ Archive!Refuse
              /\ run.disturbed \/ ~actual.dir \/ actual.archive = Missing
    PROVE ArchiveInv' /\ ArchiveRespects
<1>1. /\ RunTyped(Archive!Hosts, ArchiveTasks, Archive!Places, Archive!Reading)' /\ run'.at = "idle"
      /\ actual' = actual /\ run'.task = run.task /\ memo' = memo /\ RunMoves /\ run'.reply # "ok"
      /\ run'.reply # "refused" \/ run.disturbed \/ ~actual.dir \/ actual.archive = Missing
  BY ArchiveIsARun, RunStops DEF ArchiveInv, Replies, Archive!Refuse, Idle, At
<1>2. ArchiveInv'
  BY <1>1 DEF ArchiveInv
<1>3. Archive!KeepsTheRest /\ Archive!ExtractsWhatWasHashed
  BY <1>1 DEF Archive!KeepsTheRest, Archive!ExtractsWhatWasHashed, Archive!dest
<1>4. Archive!Recovers
  BY <1>1 DEF Archive!Recovers, Archive!Recovering
<1> QED
  BY <1>1, <1>2, <1>3, <1>4, RunSilent, ArchiveSilent

LEMMA ArchiveAnswers ==
    ASSUME ArchiveInv, run.at # "idle", NEW c \in BOOLEAN, Archive!Answer(c),
           ~run.disturbed => /\ Archive!Satisfied(run.task, actual)
                             /\ ~c => ~run.touched
                             /\ ArchiveOnce(run.task, actual) => ArchiveDone(run.task, actual)
                             /\ run.again /\ ArchiveOnce(run.task, actual) => ~c
    PROVE ArchiveInv' /\ ArchiveRespects
<1>1. /\ RunTyped(Archive!Hosts, ArchiveTasks, Archive!Places, Archive!Reading)' /\ run'.at = "idle"
      /\ actual' = actual /\ run'.reply = "ok" /\ run'.changed = c /\ run'.task = run.task
      /\ (memo'.settled => ~run.disturbed) /\ RunMoves
  BY ArchiveIsARun, RunAnswers DEF ArchiveInv, Idle, At
<1>2. ArchiveInv'
  BY <1>1 DEF ArchiveInv
<1>3. Truthful(Archive!Satisfied(run.task, actual))
  BY <1>1 DEF Truthful
<1>4. Archive!Idempotent
  BY <1>1 DEF Archive!Idempotent, Archive!Unchanging, ArchiveOnce, Archive!t
<1>5. Archive!KeepsTheRest /\ Archive!ExtractsWhatWasHashed
  BY <1>1 DEF Archive!KeepsTheRest, Archive!ExtractsWhatWasHashed, Archive!dest
<1>6. Archive!Recovers
  BY <1>1 DEF Archive!Recovers, Archive!Recovering
<1> QED
  BY <1>1, <1>2, <1>3, <1>4, <1>5, <1>6 DEF ArchiveRespects

LEMMA ArchiveStart == ArchiveInv /\ (UNCHANGED vars \/ Archive!Start) => ArchiveInv' /\ ArchiveRespects
<1> SUFFICES ASSUME ArchiveInv, UNCHANGED vars \/ Archive!Start
             PROVE ArchiveInv' /\ ArchiveRespects
  OBVIOUS
<1>1. CASE UNCHANGED vars
  <2>1. actual' = actual /\ run' = run /\ memo' = memo
    BY <1>1 DEF vars
  <2>2. RunTyped(Archive!Hosts, ArchiveTasks, Archive!Places, Archive!Reading)'
    BY <2>1 DEF ArchiveInv, RunTyped, Idle, At, Checking
  <2>3. ArchiveInv'
    BY <2>1, <2>2 DEF ArchiveInv
  <2>4. Archive!KeepsTheRest /\ Archive!ExtractsWhatWasHashed
    BY <2>1 DEF Archive!KeepsTheRest, Archive!ExtractsWhatWasHashed, Archive!dest
  <2> QED
    BY <2>1, <2>3, <2>4, RunSilent, ArchiveSilent DEF RunMoves, Idle, At,
       Archive!Recovers, Archive!Recovering, Archive!Answers, Archive!Idle, Archive!At
<1>2. CASE Archive!Start
  <2>1. PICK task \in ArchiveTasks : Begin(task, "apply", Archive!First(task), Archive!Nothing)
    BY <1>2, ArchiveIsARun DEF Archive!Start
  <2>2. Archive!Nothing \in Archive!Reading /\ Archive!First(task) \in Archive!Places
    BY DEF Archive!Nothing, Archive!Reading, Archive!Places, Archive!First
  <2>3. /\ RunTyped(Archive!Hosts, ArchiveTasks, Archive!Places, Archive!Reading)' /\ actual' = actual
        /\ run'.at = Archive!First(task) /\ run'.read = Archive!Nothing /\ run'.task = task /\ Idle
        /\ ~run'.disturbed /\ ~run'.touched /\ RunMoves
        /\ run'.again \/ memo'.settled => memo.settled /\ task = run.task
    BY <2>1, <2>2, ArchiveGiven, RunBegin DEF ArchiveInv
  <2>4. ArchiveFound(Archive!First(task), actual, Archive!Nothing, task, run'.disturbed)
    BY <2>3 DEF ArchiveFound, Archive!First, Archive!Nothing
  <2>5. (run'.again \/ memo'.settled) /\ ArchiveOnce(task, actual) => ArchiveDone(task, actual)
    BY <2>3 DEF ArchiveInv
  <2>6. ArchiveFine(Archive!First(task), task, actual, Archive!Nothing, run'.touched, run'.again)
    BY <2>3, <2>5 DEF ArchiveFine, ArchiveKnows, ArchiveSettled, ArchiveBefore, Archive!First, Archive!Nothing
  <2>7. ArchiveInv'
    BY <2>3, <2>4, <2>5, <2>6 DEF ArchiveInv
  <2>8. Archive!KeepsTheRest /\ Archive!ExtractsWhatWasHashed
    BY <2>3 DEF Archive!KeepsTheRest, Archive!ExtractsWhatWasHashed, Archive!dest
  <2> QED
    BY <2>3, <2>7, <2>8, RunSilent, ArchiveSilent DEF Archive!Recovers, Archive!Recovering,
       Archive!Answers, Archive!Idle, Archive!At, Idle, At
<1> QED
  BY <1>1, <1>2

(* The upload, from the archive as it is read a second time.               *)
LEMMA ArchiveUploads ==
    ASSUME ArchiveInv, Archive!Hash \/ Archive!BeginUpload \/ Archive!EndUpload
    PROVE ArchiveInv' /\ ArchiveRespects
<1>1. CASE Archive!Hash
  <2>1. run.at = "hash" /\ run.read \in Archive!Reading /\ ~run.task.remote
    BY <1>1, ArchiveGiven DEF Archive!Hash, Archive!At, ArchiveInv, ArchiveFound
  <2> DEFINE r == [run.read EXCEPT !.hash = actual.archive]
  <2>2. CASE actual.archive # Missing /\ Step("upload", actual, r, run.changed)
    <3>1. r \in Archive!Reading /\ r.hash = actual.archive
      BY <2>1, ArchiveGiven DEF Archive!Reading, Archive!Hosts
    <3>2. ArchiveFound("upload", actual, r, run.task, run.disturbed)
      BY <2>1, <2>2, <3>1 DEF ArchiveFound
    <3>3. r.open = run.read.open
      BY <2>1 DEF Archive!Reading
    <3> HIDE DEF r
    <3>4. ~run.disturbed => ArchiveFine("upload", run.task, actual, r, run.touched \/ actual # actual, run.again)
      BY <2>1, <3>1, <3>3, ArchiveRuns DEF ArchiveFine, ArchiveKnows, ArchiveSettled, ArchiveBefore
    <3> QED
      BY <2>1, <2>2, <3>1, <3>2, <3>4, ArchiveGiven, ArchiveStep DEF Archive!Places
  <2> QED
    BY <1>1, <2>1, <2>2, ArchiveIsARun, ArchiveStops DEF Archive!Hash, Archive!Reads, Archive!now
<1>2. CASE Archive!BeginUpload \/ Archive!EndUpload
  <2>1. PICK place \in {"uploading", "dest"}, content \in Archive!Versions \union {Missing, Torn} :
          /\ run.at \in {"upload", "uploading"} /\ place # run.at
          /\ place = "dest" => content = actual.archive
          /\ actual' = [actual EXCEPT !.upload[run.read.hash] = content]
          /\ run' = [run EXCEPT !.at = place] /\ memo' = memo
    BY <1>2, ArchiveGiven DEF Archive!BeginUpload, Archive!EndUpload, Archive!Upload, Archive!At,
       Archive!now, Archive!Hosts
  <2>2. /\ run.read \in Archive!Reading /\ ~run.task.remote /\ run.read.hash # Missing
        /\ ~run.disturbed => actual.archive = run.read.hash
    BY <2>1, ArchiveGiven DEF ArchiveInv, ArchiveFound
  <2>3. run.read.hash \in Archive!Versions
    BY <2>2 DEF Archive!Reading
  <2>4. /\ actual' \in Archive!Hosts /\ actual'.upload[run.read.hash] = content
        /\ actual'.archive = actual.archive /\ actual'.dest = actual.dest
        /\ actual'.zipinfo = actual.zipinfo
    BY <2>1, <2>3, ArchiveGiven DEF Archive!Hosts
  <2>5. /\ run' \in RunStates(ArchiveTasks, Archive!Places, Archive!Reading)
        /\ run'.at = place /\ run'.read = run.read /\ run'.task = run.task
        /\ run'.disturbed = run.disturbed /\ run'.mode = run.mode
        /\ run'.touched = run.touched /\ run'.again = run.again
    BY <2>1 DEF ArchiveInv, RunTyped, RunStates, Archive!Places
  <2>6. ArchiveFound(place, actual', run.read, run.task, run.disturbed)
    BY <2>1, <2>2, <2>4 DEF ArchiveFound
  <2>7. /\ ArchiveOnce(run.task, actual') <=> ArchiveOnce(run.task, actual)
        /\ ArchiveDone(run.task, actual') <=> ArchiveDone(run.task, actual)
    BY <2>4 DEF ArchiveOnce, ArchiveDone, ArchiveFile
  <2>8. ~run.disturbed => ArchiveFine(place, run.task, actual', run.read, run.touched, run.again)
    BY <2>1, <2>2, <2>4, <2>7, ArchiveRuns DEF ArchiveFine, ArchiveKnows, ArchiveSettled, ArchiveBefore
  <2>9. RunTyped(Archive!Hosts, ArchiveTasks, Archive!Places, Archive!Reading)'
    BY <2>1, <2>2, <2>4, <2>5 DEF ArchiveInv, RunTyped, Idle, At, Checking
  <2>10. ArchiveInv'
    BY <2>1, <2>5, <2>6, <2>7, <2>8, <2>9 DEF ArchiveInv
  <2>12. RunMoves
    BY <2>1, <2>5 DEF RunMoves, Idle, At, RunTyped, RunStates
  <2>11. Archive!KeepsTheRest /\ Archive!ExtractsWhatWasHashed
    BY <2>4 DEF Archive!KeepsTheRest, Archive!ExtractsWhatWasHashed, Archive!dest
  <2> QED
    BY <2>1, <2>5, <2>10, <2>11, <2>12, RunSilent, ArchiveSilent DEF Archive!Recovers,
       Archive!Recovering, Archive!Answers, Archive!Idle, Archive!At
<1> QED
  BY <1>1, <1>2

(* Before anything is extracted.                                           *)
LEMMA ArchiveLooks ==
    ASSUME ArchiveInv, \/ Archive!StatDest \/ Archive!Verify \/ Archive!Creates \/ Archive!ListFiles
    PROVE ArchiveInv' /\ ArchiveRespects
<1> DEFINE found == ArchiveFound(run.at, actual, run.read, run.task, run.disturbed)
           knows == ~run.disturbed =>
                      /\ ArchiveKnows(run.at, run.task, actual, run.read, run.touched)
                      /\ ArchiveSettled(run.at, run.task, actual, run.again)
           fine(place) == ~run.disturbed =>
                            ArchiveFine(place, run.task, actual, run.read, run.touched, run.again)
<1>1. CASE Archive!StatDest
  <2>1. /\ run.at = "dest" /\ found /\ knows
        /\ Archive!src = Missing /\ ~run.disturbed => actual.archive = Missing
    BY <1>1, HostAssumption, ArchiveRuns DEF Archive!StatDest, Archive!At, ArchiveInv, ArchiveFound,
       Archive!src, Archive!t, Archive!now
  <2>2. CASE Archive!Refuse /\ (~actual.dir \/ Archive!src = Missing)
    BY <2>1, <2>2, ArchiveStops
  <2>3. CASE Archive!src # Missing /\ Archive!Goto(IF run.task.remote THEN "creates" ELSE "verify")
    <3> DEFINE next == IF run.task.remote THEN "creates" ELSE "verify"
    <3>1. ArchiveFound(next, actual, run.read, run.task, run.disturbed)
      BY <2>1, <2>3 DEF ArchiveFound, Archive!src, Archive!t, Archive!now
    <3>2. fine(next)
      BY <2>1 DEF ArchiveFine, ArchiveKnows, ArchiveSettled, ArchiveBefore
    <3> QED
      BY <2>1, <2>3, <3>1, <3>2, ArchiveGoes DEF Archive!Places
  <2> QED
    BY <1>1, <2>2, <2>3 DEF Archive!StatDest, Archive!t
<1>2. CASE Archive!Verify
  <2>1. /\ run.at = "verify" /\ found /\ knows /\ Archive!src = actual.upload[run.read.hash]
    BY <1>2, ArchiveRuns DEF Archive!Verify, Archive!At, ArchiveInv, ArchiveFound, Archive!src,
       Archive!t, Archive!now
  <2>2. CASE Archive!Refuse /\ Archive!src # run.read.hash
    <3>1. run.disturbed
      BY <2>1, <2>2 DEF ArchiveFound
    <3> QED
      BY <2>1, <2>2, <3>1, ArchiveStops
  <2>3. CASE Archive!src = run.read.hash /\ Archive!Goto("creates")
    <3>1. ArchiveFound("creates", actual, run.read, run.task, run.disturbed)
      BY <2>1, <2>3 DEF ArchiveFound
    <3>2. fine("creates")
      BY <2>1 DEF ArchiveFine, ArchiveKnows, ArchiveSettled, ArchiveBefore
    <3> QED
      BY <2>1, <2>3, <3>1, <3>2, ArchiveGoes DEF Archive!Places
  <2> QED
    BY <1>2, <2>2, <2>3 DEF Archive!Verify, Archive!now
<1>3. CASE Archive!Creates \/ Archive!ListFiles
  <2>1. run.at \in {"creates", "list"} /\ found /\ knows
    BY <1>3, ArchiveRuns DEF Archive!Creates, Archive!ListFiles, Archive!At, ArchiveInv
  <2> DEFINE there == run.task.creates # Missing /\ actual.dest[run.task.creates] # Missing
  <2>2. ASSUME NEW place \in {"list", "diff"}, ~there \/ run.at = "list"
        PROVE ArchiveFound(place, actual, run.read, run.task, run.disturbed) /\ fine(place)
    <3>1. ArchiveFound(place, actual, run.read, run.task, run.disturbed)
      BY <2>1 DEF ArchiveFound
    <3>2. fine(place)
      BY <2>1, <2>2 DEF ArchiveFine, ArchiveKnows, ArchiveSettled, ArchiveBefore
    <3> QED
      BY <3>1, <3>2
  <2>3. \/ Archive!Answer(FALSE) /\ there
        \/ Archive!Stops("failed")
        \/ \E place \in {"list", "diff"} : Archive!Goto(place) /\ (~there \/ run.at = "list")
    BY <1>3 DEF Archive!Creates, Archive!ListFiles, Archive!At, Archive!t, Archive!dest
  <2>4. CASE Archive!Answer(FALSE) /\ there
    <3>1. Archive!Satisfied(run.task, actual) /\ ArchiveDone(run.task, actual)
      BY <2>4 DEF Archive!Satisfied, ArchiveDone
    <3>2. ~run.disturbed => ~run.touched
      BY <2>1 DEF ArchiveKnows, ArchiveBefore
    <3> QED
      BY <2>1, <2>4, <3>1, <3>2, ArchiveAnswers
  <2> HIDE DEF there
  <2> QED
    BY <2>1, <2>2, <2>3, <2>4, ArchiveGoes, ArchiveStops DEF Archive!Places
<1> QED
  BY <1>1, <1>2, <1>3

(* Whether there is anything to extract.                                   *)
LEMMA ArchiveCompares ==
    ASSUME ArchiveInv, Archive!IsUnarchived \/ Archive!DiffFails PROVE ArchiveInv' /\ ArchiveRespects
<1> DEFINE found == ArchiveFound(run.at, actual, run.read, run.task, run.disturbed)
           r == [run.read EXCEPT !.todo = run.task.select]
<1>1. run.at = "diff" /\ found /\ run.read \in Archive!Reading
  BY ArchiveGiven DEF Archive!IsUnarchived, Archive!DiffFails, Archive!At, ArchiveInv
<1>2. /\ r \in Archive!Reading /\ r.hash = run.read.hash /\ r.todo = run.task.select
      /\ r.open = run.read.open /\ r.swapped = run.read.swapped
  BY <1>1, ArchiveGiven DEF Archive!Reading, Archive!Requests
<1>3. \A disturbed : ArchiveFound("extract", actual, r, run.task, disturbed)
  BY <1>1, <1>2 DEF ArchiveFound
<1>4. CASE Archive!IsUnarchived
  <2> DEFINE same == \/ run.task.type = "tar" /\ Archive!DiffTar
                     \/ run.task.type = "zip" /\ Archive!DiffZip
  <2>1. (Archive!Answer(FALSE) /\ same) \/ (Step("extract", actual, r, run.changed) /\ ~same)
    <3>1. run.task = Archive!t /\ run.read = Archive!now
      BY DEF Archive!now, Archive!t
    <3>2. \/ Archive!Answer(FALSE) /\ same
          \/ Archive!Reads("extract", r) /\ ~same
      BY <1>4, <3>1, Zenon DEF Archive!IsUnarchived
    <3> HIDE DEF r, same
    <3> QED
      BY <3>2, ArchiveIsARun DEF Archive!Reads
  <2>2. ASSUME ~run.disturbed
        PROVE /\ ArchiveKnows("diff", run.task, actual, run.read, run.touched)
              /\ ArchiveSettled("diff", run.task, actual, run.again)
              /\ Archive!src = actual.archive /\ Archive!src # Torn
              /\ ArchiveFile(actual) # Missing
    <3>1. /\ ArchiveKnows("diff", run.task, actual, run.read, run.touched)
          /\ ArchiveSettled("diff", run.task, actual, run.again)
      BY <1>1, <2>2, ArchiveRuns
    <3>2. Archive!src = actual.archive
      BY <1>1, <3>1 DEF ArchiveKnows, Archive!src, Archive!t, Archive!now
    <3>3. actual.archive \in Archive!Versions
      BY <1>1, <3>1, ArchiveGiven DEF ArchiveKnows, ArchiveFound, Archive!Hosts, Archive!Reading
    <3>4. ArchiveFile(actual) \in Archive!FileStates
      BY <3>3 DEF ArchiveFile, Archive!FileStates
    <3> QED
      BY <3>1, <3>2, <3>3, <3>4, HostAssumption
  <2>3. CASE Archive!Answer(FALSE) /\ same
    <3>1. ASSUME ~run.disturbed
          PROVE \A f \in Files : /\ actual.dest[f] # Missing
                                 /\ run.task.type = "tar" => actual.dest[f] = ArchiveFile(actual)
      BY <2>2, <2>3, <3>1 DEF Archive!DiffTar, Archive!DiffZip, Archive!dest, ArchiveFile
    <3>2. ~run.disturbed => ArchiveDone(run.task, actual)
      BY <3>1 DEF ArchiveDone
    <3>3. ~run.disturbed => Archive!Satisfied(run.task, actual)
      <4>1. run.task.select \subseteq Files
        BY ArchiveGiven DEF Archive!Requests
      <4> QED
        BY <3>1, <4>1 DEF Archive!Satisfied, ArchiveFile
    <3>4. ~run.disturbed => ~run.touched
      BY <2>2 DEF ArchiveKnows, ArchiveBefore
    <3> QED
      BY <1>1, <2>3, <3>2, <3>3, <3>4, ArchiveAnswers
  <2>4. CASE Step("extract", actual, r, run.changed) /\ ~same
    <3>1. ~run.disturbed => ~(run.again /\ ArchiveOnce(run.task, actual))
      <4> SUFFICES ASSUME ~run.disturbed, run.again, ArchiveOnce(run.task, actual) PROVE same
        BY <2>4
      <4>1. \A f \in Files : /\ actual.dest[f] # Missing
                             /\ run.task.type = "tar" => actual.dest[f] = ArchiveFile(actual)
        BY <2>2 DEF ArchiveSettled, ArchiveKnows, ArchiveDone
      <4>2. run.task.type \in {"tar", "zip"}
        BY ArchiveGiven DEF Archive!Requests
      <4> QED
        BY <2>2, <4>1, <4>2 DEF Archive!DiffTar, Archive!DiffZip, Archive!dest, ArchiveFile, ArchiveOnce
    <3>2. ~run.disturbed => ArchiveKnows("extract", run.task, actual, r, run.touched \/ actual # actual)
      BY <1>2, <2>2 DEF ArchiveKnows, ArchiveBefore
    <3>3. ~run.disturbed => ArchiveFine("extract", run.task, actual, r, run.touched \/ actual # actual, run.again)
      BY <3>1, <3>2 DEF ArchiveFine, ArchiveSettled
    <3> HIDE DEF r, same
    <3> QED
      BY <1>1, <1>2, <1>3, <2>4, <3>3, ArchiveGiven, ArchiveStep DEF Archive!Places
  <2> HIDE DEF same
  <2> QED
    BY <2>1, <2>3, <2>4
<1>5. CASE Archive!DiffFails
  <2>1. /\ run' = [run EXCEPT !.at = "extract", !.read = r, !.disturbed = TRUE]
        /\ actual' = actual /\ memo' = memo
    <3>1. run = [run EXCEPT !.read = run.read]
      BY DEF ArchiveInv, RunTyped, RunStates
    <3> QED
      BY <1>5, <3>1 DEF Archive!DiffFails, Archive!t
  <2> HIDE DEF r
  <2>2. /\ run' \in RunStates(ArchiveTasks, Archive!Places, Archive!Reading)
        /\ run'.at = "extract" /\ run'.read = r /\ run'.task = run.task /\ run'.mode = run.mode
        /\ run'.disturbed = TRUE /\ run'.touched = run.touched
    BY <1>2, <2>1 DEF ArchiveInv, RunTyped, RunStates, Archive!Places
  <2>3. RunTyped(Archive!Hosts, ArchiveTasks, Archive!Places, Archive!Reading)'
    BY <1>2, <2>1, <2>2 DEF ArchiveInv, RunTyped, Idle, At, Checking
  <2>4. ArchiveInv'
    BY <1>3, <2>1, <2>2, <2>3 DEF ArchiveInv
  <2>5. Archive!KeepsTheRest /\ Archive!ExtractsWhatWasHashed
    BY <2>1 DEF Archive!KeepsTheRest, Archive!ExtractsWhatWasHashed, Archive!dest
  <2>6. RunMoves
    BY <1>1, <2>2 DEF RunMoves, Idle, At
  <2> QED
    BY <2>2, <2>4, <2>5, <2>6, RunSilent, ArchiveSilent DEF Archive!Recovers, Archive!Recovering,
       Archive!Answers
<1> QED
  BY <1>4, <1>5

(* A file at the destination may become another one.                       *)
LEMMA ArchivePut ==
    ASSUME ArchiveInv, NEW f \in Files, NEW d \in Archive!FileStates
    PROVE LET a == [actual EXCEPT !.dest[f] = d] IN
          /\ a \in Archive!Hosts /\ a.archive = actual.archive /\ a.upload = actual.upload
          /\ a.dest[f] = d /\ \A g \in Files \ {f} : a.dest[g] = actual.dest[g]
  BY ArchiveGiven DEF Archive!Hosts

(* What a file is written from is the archive that was hashed, until       *)
(* another one is uploaded in its place.                                   *)
LEMMA ArchivePacked ==
    ASSUME ArchiveInv, run.at = "extract"
    PROVE /\ Archive!Packed \subseteq Archive!Versions
          /\ ~run.task.remote /\ ~run.read.swapped => Archive!Packed = {run.read.hash}
          /\ run.task.remote => Archive!Packed = {actual.archive}
<1>1. run.read \in Archive!Reading /\ ArchiveFound("extract", actual, run.read, run.task, run.disturbed)
  BY ArchiveGiven DEF ArchiveInv
<1>2. CASE run.task.remote
  <2>1. actual.archive \in Archive!Versions
    BY <1>1, <1>2, ArchiveGiven DEF ArchiveFound, Archive!Hosts
  <2> QED
    BY <1>2, <2>1, HostAssumption DEF Archive!Packed, Archive!src, Archive!t
<1>3. CASE ~run.task.remote
  <2>1. /\ run.read.hash \in Archive!Versions
        /\ actual.upload[run.read.hash] # Missing
        /\ ~run.read.swapped => actual.upload[run.read.hash] = run.read.hash
    BY <1>1, <1>3 DEF ArchiveFound, Archive!Reading
  <2>2. actual.upload[run.read.hash] \in Archive!Versions \union {Torn}
    BY <2>1, ArchiveGiven DEF Archive!Hosts
  <2> QED
    BY <1>3, <2>1, <2>2, HostAssumption DEF Archive!Packed, Archive!src, Archive!t, Archive!now
<1> QED
  BY <1>2, <1>3 DEF ArchiveInv

(* One file is opened or filled, or left as it is.                         *)
LEMMA ArchiveExtracts == ArchiveInv /\ Archive!Extract => ArchiveInv' /\ ArchiveRespects
<1> SUFFICES ASSUME ArchiveInv, Archive!Extract PROVE ArchiveInv' /\ ArchiveRespects
  OBVIOUS
<1> DEFINE task == run.task
<1>1. /\ run.at = "extract" /\ run.read \in Archive!Reading
      /\ ArchiveFound("extract", actual, run.read, task, run.disturbed)
      /\ ~run.disturbed => /\ ArchiveKnows("extract", task, actual, run.read, run.touched)
                           /\ ~(run.again /\ ArchiveOnce(task, actual))
  BY ArchiveGiven, ArchiveRuns DEF Archive!Extract, Archive!At, ArchiveInv, ArchiveSettled, ArchiveBefore
<1> DEFINE got(h, f) == ArchiveMet(task, h, f) /\ (~task.newer => h.dest[f] = ArchiveFile(h))
<1>2. ASSUME NEW a \in Archive!Hosts, NEW r \in Archive!Reading, NEW c \in BOOLEAN,
             Step("extract", a, r, c), r.hash = run.read.hash, r.todo \subseteq run.read.todo,
             r.swapped = run.read.swapped,
             a.archive = actual.archive, a.upload = actual.upload, a.zipinfo = actual.zipinfo,
             ArchiveKeeps(a.dest),
             ~run.disturbed => /\ \A f \in task.select \ r.todo :
                                     got(a, f) \/ (f \notin run.read.todo /\ a.dest[f] = actual.dest[f])
                               /\ r.open # Missing => r.open \in r.todo /\ a.dest[r.open] = ArchiveOpened
      PROVE ArchiveInv' /\ ArchiveRespects
  <2>1. ArchiveFound("extract", a, r, task, run.disturbed)
    BY <1>1, <1>2 DEF ArchiveFound
  <2>2. ASSUME ~run.disturbed, NEW f \in task.select \ r.todo PROVE got(a, f)
    <3>1. f \notin run.read.todo => got(actual, f)
      BY <1>1, <2>2 DEF ArchiveKnows
    <3> QED
      BY <1>2, <2>2, <3>1 DEF ArchiveMet, ArchiveFile
  <2>3. ~run.disturbed => ~(run.again /\ ArchiveOnce(task, a))
    BY <1>1, <1>2 DEF ArchiveOnce
  <2>4. ~run.disturbed => ArchiveFine("extract", task, a, r, run.touched \/ a # actual, run.again)
    BY <1>1, <1>2, <2>2, <2>3 DEF ArchiveFine, ArchiveKnows, ArchiveSettled, ArchiveBefore
  <2> QED
    BY <1>1, <1>2, <2>1, <2>4, ArchiveStep DEF Archive!Places
<1> DEFINE new(content) == [content |-> content, asked |-> FALSE, newer |-> content = Torn]
<1>3. \A content \in Archive!Versions \union {Torn} :
         new(content) \in Archive!FileStates /\ new(content).content = content
  BY DEF Archive!FileStates
<1>4. \A f \in Files : \A content :
         Archive!Written(f, content) = [actual EXCEPT !.dest[f] = new(content)]
  BY DEF Archive!Written
<1>5. new(Torn) = ArchiveOpened /\ \A v \in Archive!Versions : new(v) = [content |-> v, asked |-> FALSE, newer |-> FALSE]
  <2>1. \A v \in Archive!Versions : v # Torn
    BY HostAssumption
  <2> QED
    BY <2>1 DEF ArchiveOpened
<1> HIDE DEF new
<1>6. ASSUME NEW f \in Files, NEW content \in Archive!Versions \union {Torn}
      PROVE LET a == Archive!Written(f, content) IN
            /\ a \in Archive!Hosts /\ a.archive = actual.archive /\ a.upload = actual.upload
            /\ a.zipinfo = actual.zipinfo /\ a.dest[f] = new(content)
            /\ a.dest[f].content = content /\ \A g \in Files \ {f} : a.dest[g] = actual.dest[g]
  <2> DEFINE d == new(content)
  <2>1. d \in Archive!FileStates /\ d.content = content
    BY <1>3
  <2>2. Archive!Written(f, content) = [actual EXCEPT !.dest[f] = d]
    BY <1>4
  <2> HIDE DEF d
  <2>3. [actual EXCEPT !.dest[f] = d].zipinfo = actual.zipinfo
    BY ArchiveGiven DEF Archive!Hosts
  <2> QED
    BY <2>1, <2>2, <2>3, ArchivePut DEF d
<1>7. ASSUME NEW f \in run.read.todo, NEW v, run.read.open = Missing, Archive!Open(f, v)
      PROVE ArchiveInv' /\ ArchiveRespects
  <2>1. f \in Files /\ f \in task.select /\ f # Missing /\ task.select \subseteq Files
    BY <1>1, HostAssumption, ArchiveGiven DEF ArchiveFound, Archive!Reading, Archive!Requests
  <2>2. CASE Archive!KeepNewer(f, v)
    <3> DEFINE r == [run.read EXCEPT !.todo = run.read.todo \ {f}]
    <3>1. Step("extract", actual, r, run.changed)
      BY <1>7, <2>2, ArchiveIsARun DEF Archive!Open, Archive!Reads, Archive!now
    <3>2. /\ r \in Archive!Reading /\ r.hash = run.read.hash /\ r.todo = run.read.todo \ {f}
          /\ r.open = Missing /\ r.swapped = run.read.swapped
      BY <1>1, <1>7 DEF Archive!Reading
    <3>3. got(actual, f)
      BY <2>2, ArchiveGiven DEF Archive!KeepNewer, ArchiveMet, Archive!t, Archive!dest, Archive!Requests
    <3> HIDE DEF r, got
    <3> QED
      BY <1>2, <3>1, <3>2, <3>3, ArchiveGiven
  <2>3. CASE ~Archive!KeepNewer(f, v)
    <3> DEFINE r == [run.read EXCEPT !.open = f]
               a == Archive!Written(f, Torn)
    <3>1. Step("extract", a, r, TRUE)
      BY <1>7, <2>3, ArchiveIsARun DEF Archive!Open, Archive!now
    <3>2. /\ r \in Archive!Reading /\ r.hash = run.read.hash /\ r.todo = run.read.todo /\ r.open = f
          /\ r.swapped = run.read.swapped
      BY <1>1, <2>1 DEF Archive!Reading
    <3>3. /\ a \in Archive!Hosts /\ a.archive = actual.archive /\ a.upload = actual.upload
          /\ a.zipinfo = actual.zipinfo /\ a.dest[f] = ArchiveOpened
          /\ a.dest[f].content = Torn /\ \A g \in Files \ {f} : a.dest[g] = actual.dest[g]
      BY <1>5, <1>6, <2>1
    <3>4. actual.dest[f] # Missing => ~(task.newer /\ actual.dest[f].newer)
      BY <2>3 DEF Archive!KeepNewer, Archive!t, Archive!dest
    <3> HIDE DEF r, a
    <3>5. ArchiveKeeps(a.dest)
      BY <2>1, <3>3, <3>4 DEF ArchiveKeeps
    <3>6. \A g \in task.select \ r.todo : g \notin run.read.todo /\ a.dest[g] = actual.dest[g]
      BY <2>1, <3>2, <3>3
    <3>7. r.open \in r.todo /\ a.dest[r.open] = ArchiveOpened
      BY <3>2, <3>3
    <3> HIDE DEF got
    <3> QED
      BY <1>2, <3>1, <3>2, <3>3, <3>5, <3>6, <3>7
  <2> QED
    BY <2>2, <2>3
<1>8. ASSUME NEW v \in Archive!Packed, run.read.open # Missing, Archive!Fill(run.read.open, v)
      PROVE ArchiveInv' /\ ArchiveRespects
  <2> DEFINE f == run.read.open
             r == [run.read EXCEPT !.todo = run.read.todo \ {f}, !.open = Missing]
             a == Archive!Written(f, v)
  <2>1. f \in Files /\ task.select \subseteq Files
    BY <1>1, <1>8, ArchiveGiven DEF Archive!Reading, Archive!Requests
  <2>2. \/ Step("extract", a, r, TRUE)
        \/ Step("extract", actual, r, TRUE) /\ actual.dest[f] # Archive!Written(f, Torn).dest[f]
    BY <1>8, ArchiveIsARun DEF Archive!Fill, Archive!now, Archive!dest
  <2>3. /\ r \in Archive!Reading /\ r.hash = run.read.hash /\ r.todo = run.read.todo \ {f}
        /\ r.open = Missing /\ r.swapped = run.read.swapped
    BY <1>1 DEF Archive!Reading
  <2>4. v \in Archive!Versions /\ (~task.remote /\ ~run.read.swapped => v = run.read.hash)
    BY <1>1, <1>8, ArchivePacked
  <2>5. /\ a \in Archive!Hosts /\ a.archive = actual.archive /\ a.upload = actual.upload
        /\ a.zipinfo = actual.zipinfo
        /\ a.dest[f] = [content |-> v, asked |-> FALSE, newer |-> FALSE]
        /\ a.dest[f].content = v /\ \A g \in Files \ {f} : a.dest[g] = actual.dest[g]
    <3>1. new(v) = [content |-> v, asked |-> FALSE, newer |-> FALSE]
      BY <1>5, <2>4
    <3>2. v \in Archive!Versions \union {Torn}
      BY <2>4
    <3> HIDE DEF f
    <3> QED
      BY <1>6, <2>1, <3>1, <3>2
  <2>6. ~run.disturbed => actual.dest[f] = Archive!Written(f, Torn).dest[f]
    BY <1>1, <1>5, <1>6, <1>8, <2>1 DEF ArchiveKnows
  <2>7. ~run.disturbed => v = actual.archive
    <3>1. ~run.disturbed /\ ~task.remote => Archive!Packed = {actual.archive}
      <4>1. ~run.disturbed /\ ~task.remote =>
              /\ actual.upload[run.read.hash] = run.read.hash /\ actual.archive = run.read.hash
              /\ run.read.hash # Missing
        BY <1>1 DEF ArchiveKnows, ArchiveFound
      <4>2. run.read.hash # Torn
        BY <1>1, HostAssumption DEF Archive!Reading
      <4> QED
        BY <4>1, <4>2 DEF Archive!Packed, Archive!src, Archive!t, Archive!now
    <3> QED
      BY <1>1, <1>8, <3>1, ArchivePacked
  <2>8. ~run.disturbed => got(a, f)
    <3>1. a.dest[f] # Missing
      <4>1. a.dest[f] \in Archive!FileStates
        BY <1>3, <1>6, <2>1, <2>4
      <4> QED
        BY <4>1, HostAssumption
    <3> QED
      BY <2>5, <2>7, <3>1 DEF ArchiveMet, ArchiveFile
  <2> HIDE DEF r, a, got
  <2>9. ArchiveKeeps(a.dest)
    BY <1>1, <2>1, <2>4, <2>5 DEF ArchiveKeeps
  <2>10. CASE Step("extract", a, r, TRUE)
    <3>1. ~run.disturbed => \A g \in task.select \ r.todo :
                              got(a, g) \/ (g \notin run.read.todo /\ a.dest[g] = actual.dest[g])
      BY <2>1, <2>3, <2>5, <2>8
    <3> QED
      BY <1>2, <2>3, <2>5, <2>9, <2>10, <3>1
  <2>11. CASE Step("extract", actual, r, TRUE) /\ actual.dest[f] # Archive!Written(f, Torn).dest[f]
    BY <1>2, <2>3, <2>6, <2>11, ArchiveGiven
  <2> QED
    BY <2>2, <2>10, <2>11
<1> QED
  BY <1>1, <1>7, <1>8, ArchiveStops DEF Archive!Extract, Archive!now

LEMMA ArchiveFinishes ==
    ASSUME ArchiveInv, Archive!Extracted \/ Archive!ApplyAttributes
    PROVE ArchiveInv' /\ ArchiveRespects
<1>1. /\ run.at \in {"extract", "attributes"} /\ run.read \in Archive!Reading
      /\ ArchiveFound(run.at, actual, run.read, run.task, run.disturbed)
      /\ ~run.disturbed => /\ ArchiveKnows(run.at, run.task, actual, run.read, run.touched)
                           /\ ~(run.again /\ ArchiveOnce(run.task, actual))
  BY ArchiveGiven, ArchiveRuns DEF Archive!Extracted, Archive!ApplyAttributes, Archive!At, ArchiveInv,
     ArchiveSettled, ArchiveBefore
<1>2. ASSUME NEW todo \in SUBSET Files, NEW a \in Archive!Hosts,
             Step("attributes", a, [run.read EXCEPT !.todo = todo], run.changed),
             a.archive = actual.archive, a.upload = actual.upload, a.zipinfo = actual.zipinfo,
             ArchiveKeeps(a.dest), run.task.mode,
             ~run.disturbed => \A f \in run.task.select : ArchiveMet(run.task, a, f)
      PROVE ArchiveInv' /\ ArchiveRespects
  <2> DEFINE r == [run.read EXCEPT !.todo = todo]
  <2>1. r \in Archive!Reading /\ r.hash = run.read.hash
    BY <1>1 DEF Archive!Reading
  <2>2. ArchiveFound("attributes", a, r, run.task, run.disturbed)
    BY <1>1, <1>2, <2>1 DEF ArchiveFound
  <2> HIDE DEF r
  <2>3. Step("attributes", a, r, run.changed)
    BY <1>2 DEF r
  <2>4. ~run.disturbed => ArchiveFine("attributes", run.task, a, r, run.touched \/ a # actual, run.again)
    BY <1>1, <1>2, <2>1 DEF ArchiveFine, ArchiveKnows, ArchiveSettled, ArchiveBefore, ArchiveOnce
  <2> QED
    BY <1>1, <1>2, <2>1, <2>2, <2>3, <2>4, ArchiveGiven, ArchiveStep DEF Archive!Places
<1>3. ASSUME Archive!Goto("after"), run.read.todo = {},
             run.at = "extract" => ~run.task.mode
      PROVE ArchiveInv' /\ ArchiveRespects
  <2>1. ArchiveFound("after", actual, run.read, run.task, run.disturbed)
    BY <1>1 DEF ArchiveFound
  <2>2. ~run.disturbed => ArchiveFine("after", run.task, actual, run.read, run.touched, run.again)
    BY <1>1, <1>3 DEF ArchiveFine, ArchiveFound, ArchiveKnows, ArchiveSettled, ArchiveBefore
  <2> QED
    BY <1>1, <1>3, <2>1, <2>2, ArchiveGoes DEF Archive!Places
<1>4. ASSUME NEW todo \in SUBSET Files, Step("attributes", actual, [run.read EXCEPT !.todo = todo], run.changed),
             run.at = "extract" => run.task.mode /\ run.read.todo = {}
      PROVE ArchiveInv' /\ ArchiveRespects
  <2>1. run.task.mode
    BY <1>1, <1>4 DEF ArchiveFound
  <2>2. ~run.disturbed => \A f \in run.task.select : ArchiveMet(run.task, actual, f)
    BY <1>1, <1>4 DEF ArchiveKnows
  <2> QED
    BY <1>2, <1>4, <2>1, <2>2, ArchiveGiven
<1>5. ASSUME NEW todo \in SUBSET Files, NEW f \in Files, actual.dest[f] # Missing, run.at = "attributes",
             Step("attributes", [actual EXCEPT !.dest[f].asked = TRUE],
                  [run.read EXCEPT !.todo = todo], run.changed)
      PROVE ArchiveInv' /\ ArchiveRespects
  <2> DEFINE d == [actual.dest[f] EXCEPT !.asked = TRUE]
             a == [actual EXCEPT !.dest[f] = d]
  <2>1. /\ d \in Archive!FileStates /\ d.content = actual.dest[f].content
        /\ d.newer = actual.dest[f].newer
    BY <1>5, ArchiveGiven DEF Archive!Hosts, Archive!FileStates
  <2>2. Step("attributes", a, [run.read EXCEPT !.todo = todo], run.changed)
    BY <1>5
  <2> HIDE DEF d
  <2>3. /\ a \in Archive!Hosts /\ a.archive = actual.archive /\ a.upload = actual.upload
        /\ a.dest[f] = d /\ \A g \in Files \ {f} : a.dest[g] = actual.dest[g]
    BY <2>1, ArchivePut
  <2>4. a.zipinfo = actual.zipinfo
    BY ArchiveGiven DEF Archive!Hosts
  <2> HIDE DEF a
  <2>5. d # Missing
    BY <2>1, HostAssumption
  <2>6. ArchiveKeeps(a.dest)
    <3>1. \A g \in Files : actual.dest[g] # Missing => a.dest[g].content = actual.dest[g].content
      BY <2>1, <2>3
    <3> QED
      BY <1>5, <2>3, <2>5, <3>1 DEF ArchiveKeeps
  <2>7. ASSUME ~run.disturbed, NEW g \in run.task.select PROVE ArchiveMet(run.task, a, g)
    <3>1. ArchiveMet(run.task, actual, g) /\ g \in Files
      BY <1>1, <1>5, <2>7, ArchiveGiven DEF ArchiveKnows, Archive!Requests
    <3> QED
      BY <2>1, <2>3, <2>5, <3>1 DEF ArchiveMet
  <2>8. run.task.mode
    BY <1>1, <1>5 DEF ArchiveFound
  <2> QED
    BY <1>2, <2>2, <2>3, <2>4, <2>6, <2>7, <2>8
<1>6. CASE Archive!Extracted
  <2>1. Archive!Listed \in SUBSET Files /\ run.read.todo = {} /\ run.at = "extract"
    BY <1>6 DEF Archive!Listed, Archive!Extracted, Archive!At, Archive!now
  <2>2. \/ Archive!Goto("after") /\ ~run.task.mode
        \/ Archive!Stops("failed")
        \/ /\ run.task.mode
           /\ Step("attributes", actual, [run.read EXCEPT !.todo = Archive!Listed], run.changed)
    BY <1>6, ArchiveIsARun DEF Archive!Extracted, Archive!Reads, Archive!now, Archive!t
  <2> QED
    BY <1>1, <1>3, <1>4, <2>1, <2>2, ArchiveStops
<1>7. CASE Archive!ApplyAttributes
  <2>1. \A f \in run.read.todo : f \in Files /\ run.read.todo \ {f} \in SUBSET Files
    BY <1>1 DEF Archive!Reading
  <2>2. \/ Archive!Goto("after") /\ run.read.todo = {} /\ run.at = "attributes"
        \/ run.at = "attributes" /\ \E f \in run.read.todo :
              LET r == [run.read EXCEPT !.todo = run.read.todo \ {f}] IN
              \/ Archive!Stops("failed")
              \/ /\ actual.dest[f] # Missing
                 /\ Step("attributes", [actual EXCEPT !.dest[f].asked = TRUE], r, run.changed)
    BY <1>7, ArchiveIsARun DEF Archive!ApplyAttributes, Archive!At, Archive!now, Archive!dest
  <2> QED
    BY <1>3, <1>5, <2>1, <2>2, ArchiveStops
<1> QED
  BY <1>6, <1>7

(* Another controller uploads: where a run has compared, it is history.    *)
LEMMA ArchiveUploaded ==
    ASSUME ArchiveInv, Archive!OtherUpload PROVE ArchiveInv' /\ ArchiveRespects
<1>1. PICK v \in Archive!Versions, c \in Archive!Versions \union {Torn} :
        /\ actual' = [actual EXCEPT !.upload[v] = c] /\ memo' = Archive!NoMemo
        /\ run' = IF Archive!Idle THEN run
                  ELSE [run EXCEPT !.disturbed = TRUE, !.read.swapped = Archive!Compared]
  BY DEF Archive!OtherUpload
<1>2. /\ actual' \in Archive!Hosts /\ actual'.archive = actual.archive /\ actual'.dest = actual.dest
      /\ \A w \in Archive!Versions : actual'.upload[w] = IF w = v THEN c ELSE actual.upload[w]
  BY <1>1, ArchiveGiven DEF Archive!Hosts
<1>3. memo' \in Memos /\ ~memo'.settled
  BY <1>1 DEF Archive!NoMemo, Memos, Forecasts
<1>4. Archive!KeepsTheRest /\ Archive!ExtractsWhatWasHashed
  BY <1>2 DEF Archive!KeepsTheRest, Archive!ExtractsWhatWasHashed, Archive!dest
<1>5. CASE run.at = "idle"
  <2>1. run' = run
    BY <1>1, <1>5 DEF Archive!Idle, Archive!At
  <2>2. ArchiveInv'
    BY <1>2, <1>3, <1>5, <2>1 DEF ArchiveInv, RunTyped, Idle, At, Checking
  <2> QED
    BY <1>4, <1>5, <2>1, <2>2, RunSilent, ArchiveSilent DEF RunMoves, Idle, At,
       Archive!Recovers, Archive!Recovering, Archive!Answers, Archive!Idle, Archive!At
<1>6. CASE run.at # "idle"
  <2> DEFINE b == Archive!Compared
             r == [run.read EXCEPT !.swapped = b]
  <2>1. b \in BOOLEAN /\ run.read \in Archive!Reading
    BY <1>6, ArchiveGiven DEF Archive!Compared
  <2>2. b <=> run.at \notin {"hash", "upload", "uploading", "dest", "verify"}
    BY DEF Archive!Compared
  <2>3. run' = [run EXCEPT !.disturbed = TRUE, !.read = r]
    BY <1>1, <1>6 DEF Archive!Idle, Archive!At, ArchiveInv, RunTyped, RunStates
  <2> HIDE DEF b
  <2>4. r \in Archive!Reading /\ r.swapped = b /\ r.hash = run.read.hash /\ r.todo = run.read.todo
    BY <2>1 DEF Archive!Reading
  <2> HIDE DEF r
  <2>5. /\ run' \in RunStates(ArchiveTasks, Archive!Places, Archive!Reading)
        /\ run'.at = run.at /\ run'.read = r /\ run'.task = run.task /\ run'.mode = run.mode
        /\ run'.disturbed = TRUE /\ run'.touched = run.touched
    BY <2>3, <2>4 DEF ArchiveInv, RunTyped, RunStates
  <2>6. RunTyped(Archive!Hosts, ArchiveTasks, Archive!Places, Archive!Reading)'
    BY <1>2, <1>3, <1>6, <2>4, <2>5 DEF ArchiveInv, RunTyped, Idle, At, Checking
  <2>7. ArchiveFound(run.at, actual', r, run.task, TRUE)
    <3>1. ArchiveFound(run.at, actual, run.read, run.task, run.disturbed)
      BY <1>6 DEF ArchiveInv
    <3>2. r.hash # Missing => r.hash \in Archive!Versions
      BY <2>4 DEF Archive!Reading
    <3>3. c # Missing
      BY HostAssumption
    <3> QED
      BY <1>2, <2>2, <2>4, <3>1, <3>2, <3>3 DEF ArchiveFound
  <2>8. ArchiveInv'
    BY <1>3, <2>5, <2>6, <2>7 DEF ArchiveInv
  <2> QED
    BY <1>4, <1>6, <2>5, <2>8, RunSilent, ArchiveSilent DEF RunMoves, Idle, At,
       Archive!Recovers, Archive!Recovering, Archive!Answers, Archive!Idle, Archive!At
<1> QED
  BY <1>5, <1>6

LEMMA ArchiveOutside ==
    ASSUME ArchiveInv, Archive!Undisturbed, Archive!Outside, ~Archive!OtherUpload
    PROVE ArchiveInv' /\ ArchiveRespects
<1> DEFINE Fair(a) == /\ a \in Archive!Hosts /\ (a.archive = Missing => actual.archive = Missing)
                      /\ a.upload = actual.upload
<1>1. PICK a : Interferes(a) /\ Fair(a)
  <2> DEFINE Goal == \E a : Interferes(a) /\ Fair(a)
  <2>1. ASSUME NEW v \in Archive!Versions, Interferes([actual EXCEPT !.archive = v]) PROVE Goal
    <3>1. Fair([actual EXCEPT !.archive = v])
      BY ArchiveGiven, HostAssumption DEF Archive!Hosts
    <3> QED
      BY <2>1, <3>1
  <2>2. ASSUME Interferes([actual EXCEPT !.dir = ~@, !.dest = [f \in Files |-> Missing]]) PROVE Goal
    <3> DEFINE b == ~actual.dir
               a == [actual EXCEPT !.dir = b, !.dest = [f \in Files |-> Missing]]
    <3>1. b \in BOOLEAN
      OBVIOUS
    <3>2. Interferes(a)
      BY <2>2
    <3> HIDE DEF b
    <3>3. Fair(a)
      BY <3>1, ArchiveGiven DEF Archive!Hosts
    <3> QED
      BY <3>2, <3>3
  <2>3. ASSUME NEW f \in Files, NEW d \in Archive!FileStates \union {Missing},
               Interferes([actual EXCEPT !.dest[f] = d])
        PROVE Goal
    <3>1. Fair([actual EXCEPT !.dest[f] = d])
      BY ArchiveGiven DEF Archive!Hosts
    <3> QED
      BY <2>3, <3>1
  <2>5. [content |-> Theirs, asked |-> FALSE, newer |-> TRUE] \in Archive!FileStates
    BY DEF Archive!FileStates
  <2> HIDE DEF Goal, Fair
  <2>6. Goal
    BY <2>1, <2>2, <2>3, <2>5, ArchiveIsARun DEF Archive!Outside
  <2> QED
    BY <2>6 DEF Goal
<1>2. /\ RunTyped(Archive!Hosts, ArchiveTasks, Archive!Places, Archive!Reading)' /\ actual' = a
      /\ run'.at = run.at /\ run'.read = run.read /\ run'.task = run.task
      /\ run.at = "idle" \/ (run'.disturbed /\ run'.disturbed # run.disturbed)
      /\ ~memo'.settled /\ RunMoves
  <2>1. run.at = "idle" \/ ~run.disturbed
    BY DEF Archive!Undisturbed, Archive!Idle, Archive!At
  <2>2. a \in Archive!Hosts /\ Interferes(a)
    BY <1>1
  <2> QED
    BY <2>1, <2>2, RunInterferes DEF ArchiveInv
<1>3. ArchiveInv'
  <2>1. CASE run.at # "idle"
    <3>1. /\ run.read.hash # Missing => run.read.hash \in Archive!Versions
          /\ ArchiveFound(run.at, actual, run.read, run.task, run.disturbed)
      BY <2>1, ArchiveGiven DEF Archive!Reading, ArchiveInv
    <3>2. ArchiveFound(run.at, a, run.read, run.task, TRUE)
      BY <1>1, <3>1 DEF ArchiveFound
    <3>3. run'.disturbed = TRUE
      BY <1>2, <2>1 DEF RunTyped, RunStates
    <3> QED
      BY <1>2, <3>2, <3>3 DEF ArchiveInv
  <2> QED
    BY <1>2, <2>1 DEF ArchiveInv
<1>4. Archive!KeepsTheRest
  BY <1>2 DEF Archive!KeepsTheRest, Archive!Idle, Archive!At
<1>5. Archive!ExtractsWhatWasHashed
  BY <1>2, ArchiveExtracts DEF Archive!ExtractsWhatWasHashed, Archive!Extract, Archive!At, ArchiveRespects
<1>6. Archive!Recovers
  BY <1>2 DEF Archive!Recovers, Archive!Recovering, Archive!Answers, Archive!Idle, Archive!At
<1>7. ~AnswersOK
  BY <1>2, RunSilent DEF Idle, At
<1> QED
  BY <1>2, <1>3, <1>4, <1>5, <1>6, <1>7, ArchiveSilent

LEMMA ArchiveNext == ArchiveInv /\ [Archive!Next]_vars => ArchiveInv' /\ ArchiveRespects
<1> SUFFICES ASSUME ArchiveInv, [Archive!Next]_vars PROVE ArchiveInv' /\ ArchiveRespects
  OBVIOUS
<1>1. CASE Archive!CallError \/ Archive!Killed
  BY <1>1, ArchiveGiven, ArchiveStops DEF Archive!CallError, Archive!CallFails, Archive!Killed,
     Archive!Idle, Archive!At
<1>2. CASE Archive!Finish
  <2>1. run.at = "after" /\ Archive!Answer(TRUE)
    BY <1>2 DEF Archive!Finish, Archive!At
  <2>2. ASSUME ~run.disturbed
        PROVE /\ Archive!Satisfied(run.task, actual) /\ ~(run.again /\ ArchiveOnce(run.task, actual))
              /\ ArchiveOnce(run.task, actual) => ArchiveDone(run.task, actual)
    <3>1. /\ ArchiveKnows("after", run.task, actual, run.read, run.touched)
          /\ ArchiveSettled("after", run.task, actual, run.again)
      BY <2>1, <2>2, ArchiveRuns
    <3>2. Archive!Satisfied(run.task, actual)
      BY <3>1 DEF ArchiveKnows, ArchiveMet, Archive!Satisfied
    <3>3. ~(run.again /\ ArchiveOnce(run.task, actual))
      BY <3>1 DEF ArchiveSettled, ArchiveBefore
    <3>4. ArchiveOnce(run.task, actual) => ArchiveDone(run.task, actual)
      BY <3>1 DEF ArchiveKnows, ArchiveOnce, ArchiveDone, ArchiveMet
    <3> QED
      BY <3>2, <3>3, <3>4
  <2> QED
    BY <2>1, <2>2, ArchiveAnswers
<1> QED
  BY <1>1, <1>2, ArchiveStart, ArchiveUploads, ArchiveLooks, ArchiveCompares, ArchiveExtracts,
     ArchiveFinishes, ArchiveUploaded, ArchiveOutside DEF Archive!Next, Archive!Steps

LEMMA ArchiveSafe == ArchiveInv => Archive!TypeOK
  BY DEF ArchiveInv, RunTyped, RunStates, Archive!TypeOK, Archive!Memos, Memos,
     Archive!Forecasts, Forecasts, Archive!RunStates, Archive!Replies, Replies,
     Archive!Checking, Checking

-----------------------------------------------------------------------------
(* user and group.                                                         *)

UserTyped == RunTyped(User!Hosts, UserTasks, User!Places, User!Snapshots)
(* What a step makes of an account that there is.                          *)
UserKeeps(user) ==
    actual.user # Missing /\ user # Missing =>
      /\ run.task.update = "on_create" /\ user.password # actual.user.password => run.read.new
      /\ run.task.append => actual.user.groups \subseteq user.groups

(* An account is as the task asks for in its settings, its password and    *)
(* its lock.                                                               *)
UserShaped(task, user) ==
    /\ user # Missing /\ task.shell \in {0, user.shell}
    /\ IF task.append THEN task.groups \subseteq user.groups ELSE user.groups = task.groups
UserSecret(task, user) == task.update = "always" => task.password \in {0, user.password}
UserLocked(task, user) == task.lock # "" => (user.locked <=> task.lock = "lock")
(* What a run with which nobody interferes knows at a place of a host h:   *)
(* what it has read is still so, and what it has done is done.             *)
UserKnows(place, task, h, r, changed, touched) ==
    /\ place \in {"look", "decide", "useradd", "usermod"} => ~changed /\ ~touched
    /\ place \in {"decide", "useradd", "usermod"} => r.user = h.user /\ r.group = h.group
    /\ place \in {"useradd", "usermod", "password", "lock", "key", "keygen", "chown"} =>
          task.kind = "user" /\ task.state = "present"
    /\ place = "usermod" => h.user # Missing
    /\ place \in {"password", "lock", "key", "keygen", "chown"} => UserShaped(task, h.user)
    /\ place \in {"lock", "key", "keygen", "chown"} => UserSecret(task, h.user)
    /\ place \in {"key", "keygen", "chown"} => UserLocked(task, h.user)
    /\ place = "chown" => changed /\ h.key # "none"
    /\ touched => changed \/ place = "keygen"
    /\ place = "answer" => User!Satisfied(task, h)
(* One that finds what the same task has left goes on without a change.    *)
UserOnce(task) == (task.key => ~task.force) /\ ~task.expires
UserSettled(place, task, h, r, changed, again) ==
    again /\ UserOnce(task) =>
        User!Satisfied(task, h) /\ ~changed /\ ~r.new /\ place \notin {"useradd", "keygen", "chown"}
UserFine(place, task, h, r, changed, touched, again) ==
    UserKnows(place, task, h, r, changed, touched) /\ UserSettled(place, task, h, r, changed, again)
UserInv ==
    /\ UserTyped
    /\ ~Idle /\ ~run.disturbed =>
          UserFine(run.at, run.task, actual, run.read, run.changed, run.touched, run.again)
    /\ memo.settled => User!Satisfied(run.task, actual)
UserRespects ==
    /\ User!OnlyOnCreate /\ User!Appends /\ User!Idempotent
    /\ RunMoves /\ Truthful(User!Satisfied(run.task, actual))

LEMMA UserInit == User!Init => UserInv
<1> SUFFICES ASSUME User!Init PROVE UserInv
  OBVIOUS
<1> DEFINE R == {[user |-> Missing, key |-> "none", group |-> Missing]}
<1>1. InitRuns(R, UserTasks) /\ R \subseteq User!Hosts
  BY UserIsARun DEF User!Init, User!Hosts, User!Keys
<1> HIDE DEF R
<1> QED
  BY <1>1, RunInit DEF UserInv, UserTyped

LEMMA UserMissing == Missing \notin User!Accounts /\ Missing \notin 1 .. 2
<1>1. Missing \notin User!Accounts \union 1 .. 2
  BY HostAssumption
<1> QED
  BY <1>1

LEMMA UserGiven ==
    UserInv =>
      /\ actual \in User!Hosts /\ run.changed \in BOOLEAN /\ "idle" \notin User!Places
      /\ run.at \in User!Places \union {"idle"}
      /\ run.at # "idle" => run.read \in User!Snapshots
      /\ run.task \in User!Requests /\ UserKeeps(actual.user)
  BY HostAssumption DEF UserInv, UserTyped, RunTyped, RunStates, Idle, At, User!Places,
     User!TaskAssumption, UserKeeps

LEMMA UserSilent ==
    ASSUME ~AnswersOK, RunMoves, User!OnlyOnCreate, User!Appends
    PROVE UserRespects
  BY DEF UserRespects, Truthful, User!Idempotent, User!Unchanging,
     User!AnswersOK, AnswersOK, User!Answers, Answers, User!Idle, Idle, User!At, At

(* What the run knows now.                                                 *)
UserKnown ==
    ~run.disturbed => UserFine(run.at, run.task, actual, run.read, run.changed, run.touched, run.again)

LEMMA UserStep ==
    ASSUME UserInv, run.at # "idle", NEW place \in User!Places, NEW a \in User!Hosts,
           NEW r \in User!Snapshots, NEW c \in BOOLEAN, Step(place, a, r, c), UserKeeps(a.user),
           ~run.disturbed => UserFine(place, run.task, a, r, c, run.touched \/ a # actual, run.again)
    PROVE UserInv' /\ UserRespects
<1>1. /\ UserTyped' /\ actual' = a /\ run'.at = place /\ run'.read = r /\ run'.task = run.task
      /\ run'.disturbed = run.disturbed /\ run'.touched = (run.touched \/ a # actual)
      /\ run'.changed = c /\ run'.again = run.again /\ (memo'.settled => memo.settled /\ a = actual)
      /\ RunMoves /\ place # "idle"
  BY UserGiven, RunStep DEF UserInv, UserTyped, Idle, At
<1>2. UserInv'
  <2>1. ~run'.disturbed =>
          UserFine(run'.at, run'.task, actual', run'.read, run'.changed, run'.touched, run'.again)
    BY <1>1
  <2>2. memo'.settled => User!Satisfied(run'.task, actual')
    BY <1>1 DEF UserInv
  <2> QED
    BY <1>1, <2>1, <2>2 DEF UserInv, UserFine, UserKnows, UserSettled
<1>3. User!OnlyOnCreate
  BY <1>1 DEF UserKeeps, User!OnlyOnCreate, User!t, User!now, User!user
<1>4. User!Appends
  BY <1>1 DEF UserKeeps, User!Appends, User!t, User!user
<1> QED
  BY <1>1, <1>2, <1>3, <1>4, RunSilent, UserSilent

(* A step that goes on, looks, or changes what is no account.              *)
LEMMA UserGoes ==
    ASSUME UserInv, run.at # "idle", NEW place \in User!Places, User!Goto(place),
           ~run.disturbed => UserFine(place, run.task, actual, run.read, run.changed, run.touched, run.again)
    PROVE UserInv' /\ UserRespects
<1>1. Step(place, actual, run.read, run.changed)
  BY UserIsARun DEF User!Goto
<1>2. ~run.disturbed => UserFine(place, run.task, actual, run.read, run.changed,
                                 run.touched \/ actual # actual, run.again)
  BY DEF UserFine, UserKnows
<1> QED
  BY <1>1, <1>2, UserGiven, UserStep

LEMMA UserStops ==
    ASSUME UserInv, run.at # "idle",
           User!Refuse \/ \E reply \in {"refused", "failed", "killed"} : User!Stops(reply)
    PROVE UserInv' /\ UserRespects
<1>1. PICK reply \in {"refused", "failed", "killed"} : Stops(reply)
  BY UserIsARun DEF User!Refuse
<1>2. /\ UserTyped' /\ run'.at = "idle" /\ actual' = actual /\ run'.reply = reply
      /\ run'.task = run.task /\ memo' = memo /\ RunMoves
  BY <1>1, RunStops DEF UserInv, UserTyped, Replies, Idle, At
<1>3. UserInv'
  BY <1>2 DEF UserInv, Idle, At
<1>4. User!OnlyOnCreate /\ User!Appends
  BY <1>2 DEF User!OnlyOnCreate, User!Appends, User!user
<1> QED
  BY <1>2, <1>3, <1>4, RunSilent, UserSilent

LEMMA UserAnswers ==
    ASSUME UserInv, run.at # "idle", NEW c \in BOOLEAN, User!Answer(c),
           ~run.disturbed => /\ User!Satisfied(run.task, actual)
                             /\ ~c => ~run.touched
                             /\ run.again /\ UserOnce(run.task) => ~c
    PROVE UserInv' /\ UserRespects
<1>1. /\ UserTyped' /\ run'.at = "idle" /\ actual' = actual /\ run'.reply = "ok"
      /\ run'.changed = c /\ run'.task = run.task /\ (memo'.settled => ~run.disturbed) /\ RunMoves
  BY UserIsARun, RunAnswers DEF UserInv, UserTyped, Idle, At
<1>2. UserInv'
  BY <1>1 DEF UserInv, Idle, At
<1>3. Truthful(User!Satisfied(run.task, actual))
  BY <1>1 DEF Truthful
<1>4. User!Idempotent
  BY <1>1 DEF User!Idempotent, User!Unchanging, UserOnce, User!t
<1>5. User!OnlyOnCreate /\ User!Appends
  BY <1>1 DEF User!OnlyOnCreate, User!Appends, User!user
<1> QED
  BY <1>1, <1>2, <1>3, <1>4, <1>5 DEF UserRespects

LEMMA UserStart == UserInv /\ (UNCHANGED vars \/ User!Start) => UserInv' /\ UserRespects
<1> SUFFICES ASSUME UserInv, UNCHANGED vars \/ User!Start PROVE UserInv' /\ UserRespects
  OBVIOUS
<1>1. CASE UNCHANGED vars
  <2>1. actual' = actual /\ run' = run /\ memo' = memo
    BY <1>1 DEF vars
  <2>2. UserInv'
    BY <2>1 DEF UserInv, UserTyped, RunTyped, Idle, At, Checking, UserFine, UserKnows, UserSettled
  <2>3. User!OnlyOnCreate /\ User!Appends /\ RunMoves /\ (Idle \/ run'.at # "idle")
    BY <2>1 DEF User!OnlyOnCreate, User!Appends, User!user, RunMoves, Idle, At
  <2> QED
    BY <2>2, <2>3, RunSilent, UserSilent
<1>2. CASE User!Start
  <2>1. PICK task \in UserTasks : Begin(task, "apply", "look", User!Nothing)
    BY <1>2, UserIsARun DEF User!Start
  <2>2. User!Nothing \in User!Snapshots /\ "look" \in User!Places
    BY DEF User!Nothing, User!Snapshots, User!Places
  <2>3. /\ UserTyped' /\ actual' = actual /\ Idle /\ run'.at = "look" /\ run'.task = task
        /\ run'.read = User!Nothing /\ ~run'.touched /\ ~run'.changed /\ RunMoves
        /\ run'.again \/ memo'.settled => memo.settled /\ task = run.task
    BY <2>1, <2>2, UserGiven, RunBegin DEF UserInv, UserTyped
  <2>4. UserInv'
    BY <2>3 DEF UserInv, UserFine, UserKnows, UserSettled, User!Nothing
  <2>5. User!OnlyOnCreate /\ User!Appends
    BY <2>3 DEF User!OnlyOnCreate, User!Appends, User!user
  <2> QED
    BY <2>3, <2>4, <2>5, RunSilent, UserSilent
<1> QED
  BY <1>1, <1>2

(* The account, the key or the group may become another one.               *)
LEMMA UserPut ==
    ASSUME UserInv
    PROVE /\ \A user \in User!Accounts \union {Missing} :
               LET a == [actual EXCEPT !.user = user] IN a \in User!Hosts /\ a.user = user
          /\ \A key \in User!Keys :
               LET a == [actual EXCEPT !.key = key] IN a \in User!Hosts /\ a.user = actual.user
          /\ \A group \in 1 .. 2 \union {Missing} :
               LET a == [actual EXCEPT !.group = group] IN a \in User!Hosts /\ a.user = actual.user
  BY UserGiven DEF User!Hosts

LEMMA UserSettings ==
    /\ User!NewAccount \in User!Accounts
    /\ \A user \in User!Accounts, shell \in 1 .. 2, groups \in SUBSET Groups :
          LET new == [user EXCEPT !.shell = shell, !.groups = groups] IN
          new \in User!Accounts /\ new.groups = groups /\ new.password = user.password
    /\ \A user \in User!Accounts, shell \in 1 .. 2, groups \in SUBSET Groups, primary \in BOOLEAN :
          [user EXCEPT !.groups = groups, !.shell = shell, !.primary = primary] \in User!Accounts
    /\ \A user \in User!Accounts, password \in 0 .. 2, locked \in BOOLEAN :
          LET new == [user EXCEPT !.password = password, !.locked = locked] IN
          new \in User!Accounts /\ new.groups = user.groups
    /\ \A user \in User!Accounts, locked \in BOOLEAN :
          LET new == [user EXCEPT !.locked = locked] IN
          new \in User!Accounts /\ new.groups = user.groups /\ new.password = user.password
<1>1. User!NewAccount \in User!Accounts
  BY DEF User!NewAccount, User!Accounts
<1>2. ASSUME NEW user \in User!Accounts, NEW shell \in 1 .. 2, NEW groups \in SUBSET Groups
      PROVE LET new == [user EXCEPT !.shell = shell, !.groups = groups] IN
            new \in User!Accounts /\ new.groups = groups /\ new.password = user.password
  BY DEF User!Accounts
<1>3. ASSUME NEW user \in User!Accounts, NEW shell \in 1 .. 2, NEW groups \in SUBSET Groups,
             NEW primary \in BOOLEAN
      PROVE [user EXCEPT !.groups = groups, !.shell = shell, !.primary = primary] \in User!Accounts
  BY DEF User!Accounts
<1>4. ASSUME NEW user \in User!Accounts, NEW password \in 0 .. 2, NEW locked \in BOOLEAN
      PROVE LET new == [user EXCEPT !.password = password, !.locked = locked] IN
            new \in User!Accounts /\ new.groups = user.groups
  BY DEF User!Accounts
<1>5. ASSUME NEW user \in User!Accounts, NEW locked \in BOOLEAN
      PROVE LET new == [user EXCEPT !.locked = locked] IN
            new \in User!Accounts /\ new.groups = user.groups /\ new.password = user.password
  BY DEF User!Accounts
<1> QED
  BY <1>1, <1>2, <1>3, <1>4, <1>5

LEMMA UserGroup == UserInv /\ User!ManageGroup => UserInv' /\ UserRespects
<1> SUFFICES ASSUME UserInv, User!ManageGroup PROVE UserInv' /\ UserRespects
  OBVIOUS
<1> DEFINE task == run.task
           was == run.read.group
           gid == IF task.gid = 0 THEN 1 ELSE task.gid
           absent == task.state = "absent"
<1>1. run.at = "decide" /\ run.read \in User!Snapshots /\ task.gid \in 0 .. 2 /\ task.kind = "group"
      /\ gid \in 1 .. 2 /\ gid # Missing
  <2>1. run.at = "decide" /\ task.kind = "group"
    BY DEF User!ManageGroup, User!At, User!t
  <2>2. run.read \in User!Snapshots /\ task.gid \in 0 .. 2
    BY <2>1, UserGiven DEF User!Requests
  <2>3. gid \in 1 .. 2
    BY <2>2
  <2> HIDE DEF gid
  <2> QED
    BY <2>1, <2>2, <2>3, UserMissing
<1>2. ~run.disturbed => /\ was = actual.group /\ ~run.changed /\ ~run.touched
                        /\ UserSettled("decide", task, actual, run.read, run.changed, run.again)
  BY <1>1 DEF UserInv, UserFine, UserKnows, Idle, At
<1>3. \/ User!Answer(FALSE) /\ IF absent THEN was = Missing ELSE was # Missing /\ task.gid \in {0, was}
      \/ User!Refuse
      \/ absent /\ was # Missing /\ Step("answer", [actual EXCEPT !.group = Missing], run.read, TRUE)
      \/ /\ ~absent /\ ~(was # Missing /\ task.gid \in {0, was})
         /\ Step("answer", [actual EXCEPT !.group = gid], run.read, TRUE)
  BY UserIsARun DEF User!ManageGroup, User!Changes, User!t, User!now
<1>4. ASSUME NEW group \in 1 .. 2 \union {Missing},
             IF absent THEN was # Missing /\ group = Missing
             ELSE ~(was # Missing /\ task.gid \in {0, was}) /\ group = gid,
             Step("answer", [actual EXCEPT !.group = group], run.read, TRUE)
      PROVE UserInv' /\ UserRespects
  <2> DEFINE a == [actual EXCEPT !.group = group]
  <2>1. a \in User!Hosts /\ a.user = actual.user /\ a.group = group /\ Step("answer", a, run.read, TRUE)
    BY <1>4, UserPut, UserGiven DEF User!Hosts
  <2> HIDE DEF a
  <2>2. User!Satisfied(task, a)
    BY <1>1, <1>4, <2>1 DEF User!Satisfied
  <2>3. ~run.disturbed => ~User!Satisfied(task, actual)
    BY <1>1, <1>2, <1>4 DEF User!Satisfied
  <2>4. ~run.disturbed => UserFine("answer", task, a, run.read, TRUE, run.touched \/ a # actual, run.again)
    BY <1>1, <1>2, <2>2, <2>3 DEF UserFine, UserKnows, UserSettled
  <2> QED
    BY <1>1, <2>1, <2>4, UserGiven, UserStep DEF User!Places
<1>5. ASSUME IF absent THEN was = Missing ELSE was # Missing /\ task.gid \in {0, was}
      PROVE ~run.disturbed => User!Satisfied(task, actual)
  BY <1>1, <1>2, <1>5 DEF User!Satisfied
<1>6. CASE User!Answer(FALSE) /\ IF absent THEN was = Missing ELSE was # Missing /\ task.gid \in {0, was}
  <2>1. ~run.disturbed => User!Satisfied(task, actual)
    BY <1>5, <1>6
  <2> QED
    BY <1>1, <1>2, <1>6, <2>1, UserAnswers
<1>7. CASE User!Refuse
  BY <1>1, <1>7, UserStops
<1>8. CASE absent /\ was # Missing /\ Step("answer", [actual EXCEPT !.group = Missing], run.read, TRUE)
  BY <1>4, <1>8
<1>9. CASE /\ ~absent /\ ~(was # Missing /\ task.gid \in {0, was})
           /\ Step("answer", [actual EXCEPT !.group = gid], run.read, TRUE)
  <2>1. gid \in 1 .. 2 \union {Missing}
    BY <1>1
  <2> QED
    BY <1>4, <1>9, <2>1
<1> QED
  BY <1>3, <1>6, <1>7, <1>8, <1>9

LEMMA UserDecides ==
    ASSUME UserInv, User!Look \/ User!RemoveUser \/ User!DecideUser PROVE UserInv' /\ UserRespects
<1> DEFINE task == run.task
<1>1. run.at \in {"look", "decide"} /\ run.read \in User!Snapshots
  BY UserGiven DEF User!Look, User!RemoveUser, User!DecideUser, User!At
<1>2. ~run.disturbed => /\ UserKnows(run.at, task, actual, run.read, run.changed, run.touched)
                        /\ UserSettled(run.at, task, actual, run.read, run.changed, run.again)
  BY <1>1 DEF UserInv, UserFine, Idle, At
<1>3. CASE User!Look
  <2> DEFINE r == [run.read EXCEPT !.user = actual.user, !.group = actual.group]
  <2>1. Step("decide", actual, r, run.changed) /\ run.at = "look"
    BY <1>3, UserIsARun DEF User!Look, User!Reads, User!now, User!user, User!At
  <2>2. r \in User!Snapshots /\ r.user = actual.user /\ r.group = actual.group /\ r.new = run.read.new
    BY <1>1, UserGiven DEF User!Snapshots, User!Hosts
  <2> HIDE DEF r
  <2>3. ~run.disturbed => UserFine("decide", task, actual, r, run.changed,
                                   run.touched \/ actual # actual, run.again)
    BY <1>2, <2>1, <2>2 DEF UserFine, UserKnows, UserSettled
  <2> QED
    BY <1>1, <2>1, <2>2, <2>3, UserGiven, UserStep DEF User!Places
<1>4. CASE User!RemoveUser
  <2> DEFINE key == IF task.remove THEN "none" ELSE actual.key
             a == [actual EXCEPT !.user = Missing, !.key = key]
  <2>1. /\ run.at = "decide" /\ task.kind = "user" /\ task.state = "absent"
        /\ \/ User!Answer(FALSE) /\ run.read.user = Missing
           \/ User!Refuse
           \/ Step("answer", a, run.read, TRUE) /\ run.read.user # Missing
    <3>1. actual = [actual EXCEPT !.key = actual.key]
      BY UserGiven DEF User!Hosts
    <3> QED
      BY <1>4, UserIsARun, UserGiven DEF User!RemoveUser, User!Changes, User!now, User!t, User!Hosts, User!At
  <2>2. key \in User!Keys
    BY UserGiven DEF User!Hosts, User!Keys
  <2> HIDE DEF key
  <2>3. a \in User!Hosts /\ a.user = Missing
    BY <2>2, UserGiven DEF User!Hosts
  <2> HIDE DEF a
  <2>4. CASE Step("answer", a, run.read, TRUE) /\ run.read.user # Missing
    <3>1. User!Satisfied(task, a)
      BY <2>1, <2>3 DEF User!Satisfied
    <3>2. ~run.disturbed => ~User!Satisfied(task, actual)
      BY <1>2, <2>1, <2>4 DEF User!Satisfied, UserKnows
    <3>3. ~run.disturbed => UserFine("answer", task, a, run.read, TRUE, run.touched \/ a # actual, run.again)
      BY <1>2, <2>1, <3>1, <3>2 DEF UserFine, UserKnows, UserSettled
    <3> QED
      BY <1>1, <2>3, <2>4, <3>3, UserStep DEF User!Places, UserKeeps
  <2>5. CASE User!Answer(FALSE) /\ run.read.user = Missing
    <3>1. ~run.disturbed => User!Satisfied(task, actual) /\ ~run.touched
      BY <1>2, <2>1, <2>5 DEF User!Satisfied, UserKnows
    <3> QED
      BY <1>1, <2>5, <3>1, UserAnswers
  <2> QED
    BY <1>1, <2>1, <2>4, <2>5, UserStops
<1>5. CASE User!DecideUser
  <2>1. /\ run.at = "decide" /\ task.kind = "user" /\ task.state = "present"
        /\ \/ run.read.user = Missing /\ User!Goto("useradd")
           \/ run.read.user # Missing /\ User!Goto("usermod")
    BY <1>5 DEF User!DecideUser, User!At, User!t, User!now
  <2>2. ~run.disturbed /\ run.read.user = Missing =>
          UserFine("useradd", task, actual, run.read, run.changed, run.touched, run.again)
    BY <1>2, <2>1 DEF UserFine, UserKnows, UserSettled, User!Satisfied
  <2>3. ~run.disturbed /\ run.read.user # Missing =>
          UserFine("usermod", task, actual, run.read, run.changed, run.touched, run.again)
    BY <1>2, <2>1 DEF UserFine, UserKnows, UserSettled
  <2> QED
    BY <1>1, <2>1, <2>2, <2>3, UserGoes DEF User!Places
<1> QED
  BY <1>3, <1>4, <1>5

LEMMA UserCreates == UserInv /\ User!CreateUser => UserInv' /\ UserRespects
<1> SUFFICES ASSUME UserInv, User!CreateUser PROVE UserInv' /\ UserRespects
  OBVIOUS
<1> DEFINE task == run.task
           shell == IF task.shell = 0 THEN 1 ELSE task.shell
           user == [User!NewAccount EXCEPT !.shell = shell, !.groups = task.groups]
           r == [run.read EXCEPT !.new = TRUE]
           a == [actual EXCEPT !.user = user]
<1>1. run.at = "useradd" /\ run.read \in User!Snapshots
  BY UserGiven DEF User!CreateUser, User!At
<1>2. User!Refuse \/ (actual.user = Missing /\ Step("password", a, r, TRUE))
  BY UserIsARun DEF User!CreateUser, User!user, User!t, User!now, User!NewAccount
<1>3. shell \in 1 .. 2 /\ task.groups \in SUBSET Groups /\ task.shell \in {0, shell}
  <2>1. task.shell \in 0 .. 2 /\ task.groups \in SUBSET Groups
    BY UserGiven DEF User!Requests
  <2> QED
    BY <2>1
<1> HIDE DEF shell
<1>4. user \in User!Accounts /\ user.shell = shell /\ user.groups = task.groups
  <2>1. User!NewAccount \in User!Accounts
    BY UserSettings
  <2> DEFINE old == User!NewAccount
  <2> HIDE DEF old
  <2>2. old \in User!Accounts /\ user = [old EXCEPT !.shell = shell, !.groups = task.groups]
    BY <2>1 DEF old
  <2> HIDE DEF user
  <2> QED
    BY <1>3, <2>2 DEF User!Accounts
<1>5. r \in User!Snapshots
  BY <1>1 DEF User!Snapshots
<1> HIDE DEF user, r
<1>6. a \in User!Hosts /\ a.user = user
  BY <1>4, UserPut
<1> HIDE DEF a
<1>7. UserShaped(task, a.user)
  <2>1. user # Missing
    BY <1>4, UserMissing
  <2> QED
    BY <1>3, <1>4, <1>6, <2>1 DEF UserShaped
<1>8. ~run.disturbed => UserFine("password", task, a, r, TRUE, run.touched \/ a # actual, run.again)
  <2>1. ~run.disturbed => /\ UserKnows("useradd", task, actual, run.read, run.changed, run.touched)
                          /\ UserSettled("useradd", task, actual, run.read, run.changed, run.again)
    BY <1>1 DEF UserInv, UserFine, Idle, At
  <2> QED
    BY <1>7, <2>1 DEF UserFine, UserKnows, UserSettled
<1> QED
  BY <1>1, <1>2, <1>5, <1>6, <1>8, UserStep, UserStops DEF User!Places, UserKeeps

(* A change of an account that is there.                                   *)
LEMMA UserChanges ==
    ASSUME UserInv, run.at # "idle", actual.user # Missing, NEW place \in User!Places \ {"answer"},
           NEW user \in User!Accounts, User!Changes(place, [actual EXCEPT !.user = user]),
           UserKeeps(user),
           ~run.disturbed =>
             \A h \in User!Hosts : h.user = user /\ h.key = actual.key =>
                \A touched \in BOOLEAN : UserFine(place, run.task, h, run.read, TRUE, touched, run.again)
    PROVE UserInv' /\ UserRespects
<1> DEFINE a == [actual EXCEPT !.user = user]
           b == run.touched \/ a # actual
<1>1. Step(place, a, run.read, TRUE) /\ a \in User!Hosts /\ a.user = user /\ a.key = actual.key
  BY UserPut, UserGiven, UserIsARun DEF User!Changes, User!Hosts
<1>2. b \in BOOLEAN
  OBVIOUS
<1> HIDE DEF a
<1>3. ~run.disturbed => UserFine(place, run.task, a, run.read, TRUE, b, run.again)
  BY <1>1, <1>2
<1> QED
  BY <1>1, <1>3, UserGiven, UserStep

LEMMA UserModifies == UserInv /\ User!ModifyUser => UserInv' /\ UserRespects
<1> SUFFICES ASSUME UserInv, User!ModifyUser PROVE UserInv' /\ UserRespects
  OBVIOUS
<1> DEFINE task == run.task
           was == actual.user
           shell == IF User!ShellDiffers THEN task.shell ELSE was.shell
           groups == IF ~User!GroupsDiffer THEN was.groups
                     ELSE IF task.append THEN was.groups \union task.groups
                     ELSE task.groups
           user == [was EXCEPT !.shell = shell, !.groups = groups]
<1>1. run.at = "usermod"
  BY DEF User!ModifyUser, User!At
<1>2. \/ User!Goto("password") /\ ~(User!GroupsDiffer \/ User!ShellDiffers)
      \/ User!Refuse
      \/ /\ was # Missing /\ User!Changes("password", [actual EXCEPT !.user = user])
         /\ User!GroupsDiffer \/ User!ShellDiffers \/ task.expires
  <2>1. CASE was # Missing
    <3>1. was \in User!Accounts /\ actual \in User!Hosts
      BY <2>1, UserGiven DEF User!Hosts
    <3>2. \/ User!Goto("password") /\ ~(User!GroupsDiffer \/ User!ShellDiffers)
          \/ User!Refuse
          \/ /\ User!GroupsDiffer \/ User!ShellDiffers \/ task.expires
             /\ User!Changes("password", [actual EXCEPT
                !.user.shell = IF User!ShellDiffers THEN task.shell ELSE @,
                !.user.groups = IF ~User!GroupsDiffer THEN @
                                ELSE IF task.append THEN @ \union task.groups
                                ELSE task.groups])
      BY DEF User!ModifyUser, User!t
    <3>3. [actual EXCEPT !.user.shell = IF User!ShellDiffers THEN task.shell ELSE @,
             !.user.groups = IF ~User!GroupsDiffer THEN @
                             ELSE IF task.append THEN @ \union task.groups
                             ELSE task.groups]
          = [actual EXCEPT !.user = user]
      BY <3>1 DEF User!Hosts, User!Accounts
    <3> QED
      BY <2>1, <3>2, <3>3
  <2> QED
    BY <2>1 DEF User!ModifyUser, User!user
<1>3. ~run.disturbed =>
         /\ was = run.read.user /\ was # Missing /\ task.kind = "user" /\ task.state = "present"
         /\ ~run.changed /\ ~run.touched
         /\ UserSettled("usermod", task, actual, run.read, run.changed, run.again)
  BY <1>1 DEF UserInv, UserFine, UserKnows, Idle, At
<1>4. ~run.disturbed /\ ~(User!GroupsDiffer \/ User!ShellDiffers) => UserShaped(task, was)
  BY <1>3 DEF UserShaped, User!GroupsDiffer, User!ShellDiffers, User!t, User!now
<1>5. ~run.disturbed /\ ~(User!GroupsDiffer \/ User!ShellDiffers) =>
         UserFine("password", task, actual, run.read, run.changed, run.touched, run.again)
  BY <1>3, <1>4 DEF UserFine, UserKnows, UserSettled
<1>6. ASSUME was # Missing
      PROVE user \in User!Accounts /\ UserKeeps(user) /\ user.shell = shell /\ user.groups = groups
  <2>1. was \in User!Accounts
    BY <1>6, UserGiven DEF User!Hosts
  <2>2. was.shell \in 1 .. 2 /\ was.groups \in SUBSET Groups
    BY <2>1 DEF User!Accounts
  <2>3. task.shell \in 0 .. 2 /\ task.groups \in SUBSET Groups
    BY UserGiven DEF User!Requests
  <2>4. shell \in 1 .. 2
    BY <2>2, <2>3 DEF User!ShellDiffers, User!t
  <2>5. groups \in SUBSET Groups /\ (task.append => was.groups \subseteq groups)
    BY <2>2, <2>3
  <2> HIDE DEF shell, groups
  <2>6. user \in User!Accounts /\ user.groups = groups /\ user.password = was.password /\ user.shell = shell
    BY <2>1, <2>4, <2>5 DEF User!Accounts
  <2> HIDE DEF user
  <2> QED
    BY <2>5, <2>6 DEF UserKeeps
<1>7. was # Missing /\ ~run.disturbed => UserShaped(task, user)
  <2> SUFFICES ASSUME was # Missing, ~run.disturbed PROVE UserShaped(task, user)
    OBVIOUS
  <2>1. user # Missing /\ was = run.read.user
    BY <1>3, <1>6, HostAssumption
  <2>2. task.shell \in {0, shell}
    BY <2>1 DEF User!ShellDiffers, User!t, User!now
  <2>3. IF task.append THEN task.groups \subseteq groups ELSE groups = task.groups
    BY <2>1 DEF User!GroupsDiffer, User!t, User!now
  <2> QED
    BY <1>6, <2>1, <2>2, <2>3 DEF UserShaped
<1>8. ~run.disturbed /\ (User!GroupsDiffer \/ User!ShellDiffers \/ task.expires) =>
         ~(UserOnce(task) /\ User!Satisfied(task, actual))
  BY <1>3 DEF User!GroupsDiffer, User!ShellDiffers, User!t, User!now, UserOnce, User!Satisfied
<1> HIDE DEF user
<1>9. CASE /\ was # Missing /\ User!Changes("password", [actual EXCEPT !.user = user])
           /\ User!GroupsDiffer \/ User!ShellDiffers \/ task.expires
  <2>1. ASSUME ~run.disturbed, NEW h \in User!Hosts, h.user = user, NEW touched \in BOOLEAN
        PROVE UserFine("password", task, h, run.read, TRUE, touched, run.again)
    BY <1>3, <1>7, <1>8, <1>9, <2>1 DEF UserFine, UserKnows, UserSettled
  <2> QED
    BY <1>1, <1>6, <1>9, <2>1, UserChanges DEF User!Places
<1> QED
  BY <1>1, <1>2, <1>5, <1>9, UserGoes, UserStops DEF User!Places

LEMMA UserSecrets == UserInv /\ User!SetPassword => UserInv' /\ UserRespects
<1> SUFFICES ASSUME UserInv, User!SetPassword PROVE UserInv' /\ UserRespects
  OBVIOUS
<1> DEFINE was == actual.user
           task == run.task
           now == run.read
           user == [was EXCEPT !.password = task.password, !.locked = FALSE]
           skips == \/ task.password = 0
                    \/ ~now.new /\ (task.update = "on_create" \/ (was # Missing /\ was.password = task.password))
<1>1. run.at = "password" /\ task \in User!Requests /\ (was # Missing => was \in User!Accounts)
  BY UserGiven DEF User!SetPassword, User!At, User!Hosts
<1>2. \/ User!Goto("lock") /\ skips
      \/ User!Refuse
      \/ was # Missing /\ User!Changes("lock", [actual EXCEPT !.user = user]) /\ ~skips
  <2>1. [actual EXCEPT !.user.password = task.password, !.user.locked = FALSE]
        = [actual EXCEPT !.user = user]
    BY UserGiven DEF User!Hosts
  <2> QED
    BY <2>1 DEF User!SetPassword, User!user, User!t, User!now
<1>3. was # Missing => /\ user \in User!Accounts /\ user.groups = was.groups /\ user.shell = was.shell
                       /\ user.password = task.password
  BY <1>1 DEF User!Accounts, User!Requests
<1>4. ~run.disturbed => /\ UserKnows("password", task, actual, now, run.changed, run.touched)
                        /\ UserSettled("password", task, actual, now, run.changed, run.again)
  BY <1>1 DEF UserInv, UserFine, Idle, At
<1>5. CASE User!Goto("lock") /\ skips
  <2>1. ~run.disturbed => UserFine("lock", task, actual, now, run.changed, run.touched, run.again)
    <3>1. CASE task.update = "always" /\ now.new /\ task.password # 0
      BY <1>5, <3>1
    <3>2. CASE ~(task.update = "always" /\ now.new /\ task.password # 0)
      <4>1. UserSecret(task, was)
        BY <1>1, <1>5, <3>2 DEF UserSecret, User!Requests
      <4> QED
        BY <1>4, <4>1 DEF UserFine, UserKnows, UserSettled
    <3> QED
      BY <3>1, <3>2
  <2> QED
    BY <1>1, <1>5, <2>1, UserGoes DEF User!Places
<1> HIDE DEF user
<1>6. CASE was # Missing /\ User!Changes("lock", [actual EXCEPT !.user = user]) /\ ~skips
  <2>1. UserKeeps(user)
    BY <1>3, <1>6 DEF UserKeeps
  <2>2. ~run.disturbed => ~(run.again /\ UserOnce(task))
    BY <1>1, <1>4, <1>6 DEF UserSettled, UserKnows, User!Satisfied, User!Requests
  <2>3. ~run.disturbed => UserShaped(task, user) /\ UserSecret(task, user)
    <3>1. user # Missing
      BY <1>3, <1>6, HostAssumption
    <3> QED
      BY <1>3, <1>4, <1>6, <3>1 DEF UserKnows, UserShaped, UserSecret
  <2>4. ASSUME ~run.disturbed, NEW h \in User!Hosts, h.user = user, NEW touched \in BOOLEAN
        PROVE UserFine("lock", task, h, now, TRUE, touched, run.again)
    BY <1>4, <2>2, <2>3, <2>4 DEF UserFine, UserKnows, UserSettled
  <2> QED
    BY <1>1, <1>3, <1>6, <2>1, <2>4, UserChanges DEF User!Places
<1> QED
  BY <1>1, <1>2, <1>5, <1>6, UserStops

LEMMA UserLocks == UserInv /\ User!SetPasswordLock => UserInv' /\ UserRespects
<1> SUFFICES ASSUME UserInv, User!SetPasswordLock PROVE UserInv' /\ UserRespects
  OBVIOUS
<1> DEFINE was == actual.user
           task == run.task
           now == run.read
           lock == task.lock = "lock"
           user == [was EXCEPT !.locked = lock]
           skips == task.lock = "" \/ (~now.new /\ (was # Missing /\ was.locked) = lock)
<1>1. run.at = "lock" /\ task \in User!Requests /\ (was # Missing => was \in User!Accounts)
  BY UserGiven DEF User!SetPasswordLock, User!At, User!Hosts
<1>2. \/ User!Goto("key") /\ skips
      \/ User!Refuse
      \/ was # Missing /\ User!Changes("key", [actual EXCEPT !.user = user]) /\ ~skips
  BY DEF User!SetPasswordLock, User!user, User!t, User!now
<1>3. was # Missing => /\ user \in User!Accounts /\ user.groups = was.groups /\ user.shell = was.shell
                       /\ user.password = was.password /\ user.locked = lock
  <2>1. lock \in BOOLEAN
    OBVIOUS
  <2> HIDE DEF lock
  <2> QED
    BY <1>1, <2>1 DEF User!Accounts
<1>4. ~run.disturbed => /\ UserKnows("lock", task, actual, now, run.changed, run.touched)
                        /\ UserSettled("lock", task, actual, now, run.changed, run.again)
  BY <1>1 DEF UserInv, UserFine, Idle, At
<1>5. CASE User!Goto("key") /\ skips
  <2>1. ~run.disturbed => was # Missing /\ UserLocked(task, was)
    <3> SUFFICES ASSUME ~run.disturbed PROVE was # Missing /\ UserLocked(task, was)
      OBVIOUS
    <3>1. was # Missing
      BY <1>4 DEF UserKnows, UserShaped
    <3> QED
      BY <1>5, <3>1 DEF UserLocked
  <2>2. ~run.disturbed => UserFine("key", task, actual, now, run.changed, run.touched, run.again)
    BY <1>4, <2>1 DEF UserFine, UserKnows, UserSettled
  <2> QED
    BY <1>1, <1>5, <2>2, UserGoes DEF User!Places
<1> HIDE DEF user
<1>6. CASE was # Missing /\ User!Changes("key", [actual EXCEPT !.user = user]) /\ ~skips
  <2>1. UserKeeps(user)
    BY <1>3, <1>6 DEF UserKeeps
  <2>2. ~run.disturbed => ~(run.again /\ UserOnce(task))
    <3> SUFFICES ASSUME ~run.disturbed, run.again, UserOnce(task) PROVE FALSE
      OBVIOUS
    <3>1. User!Satisfied(task, actual) /\ ~now.new /\ task.kind = "user" /\ task.state = "present"
      BY <1>4 DEF UserSettled, UserKnows
    <3>2. task.lock # "" => (was.locked <=> task.lock = "lock")
      BY <3>1 DEF User!Satisfied
    <3> QED
      BY <1>6, <3>1, <3>2
  <2>3. ~run.disturbed => UserShaped(task, user) /\ UserSecret(task, user) /\ UserLocked(task, user)
    <3>1. user # Missing
      BY <1>3, <1>6, HostAssumption
    <3> QED
      BY <1>3, <1>4, <1>6, <3>1 DEF UserKnows, UserShaped, UserSecret, UserLocked
  <2>4. ASSUME ~run.disturbed, NEW h \in User!Hosts, h.user = user, NEW touched \in BOOLEAN
        PROVE UserFine("key", task, h, now, TRUE, touched, run.again)
    BY <1>4, <2>2, <2>3, <2>4 DEF UserFine, UserKnows, UserSettled
  <2> QED
    BY <1>1, <1>3, <1>6, <2>1, <2>4, UserChanges DEF User!Places
<1> QED
  BY <1>1, <1>2, <1>5, <1>6, UserStops

LEMMA UserKey ==
    ASSUME UserInv, User!GenerateSSHKey \/ User!Keygen \/ User!ChownKey PROVE UserInv' /\ UserRespects
<1> DEFINE task == run.task
           now == run.read
<1>1. run.at \in {"key", "keygen", "chown"} /\ now \in User!Snapshots /\ run.changed \in BOOLEAN
      /\ actual \in User!Hosts
  BY UserGiven DEF User!GenerateSSHKey, User!Keygen, User!ChownKey, User!At
<1>2. ~run.disturbed => /\ UserKnows(run.at, task, actual, now, run.changed, run.touched)
                        /\ UserSettled(run.at, task, actual, now, run.changed, run.again)
  BY <1>1 DEF UserInv, UserFine, Idle, At
<1>3. \/ User!Refuse
      \/ run.at = "key" /\ User!Goto("answer") /\ (task.key => actual.key # "none")
      \/ \E place \in {"keygen", "chown", "answer"}, key \in User!Keys, c \in BOOLEAN :
            /\ Step(place, [actual EXCEPT !.key = key], now, c)
            /\ place # "keygen" => key # "none"
            /\ place = "keygen" => run.at = "key" /\ task.key /\ (task.force \/ actual.key = "none")
            /\ place = "chown" => run.at = "keygen" /\ c
            /\ place = "answer" => run.at = "chown" /\ c = run.changed
  BY <1>1, UserIsARun DEF User!GenerateSSHKey, User!Keygen, User!ChownKey, User!Changes, User!Keys,
     User!now, User!t, User!At
<1>4. CASE run.at = "key" /\ User!Goto("answer") /\ (task.key => actual.key # "none")
  <2>1. ~run.disturbed => User!Satisfied(task, actual)
    BY <1>2, <1>4 DEF UserKnows, UserShaped, UserSecret, UserLocked, User!Satisfied
  <2>2. ~run.disturbed => UserFine("answer", task, actual, now, run.changed, run.touched, run.again)
    BY <1>2, <1>4, <2>1 DEF UserFine, UserKnows, UserSettled
  <2> QED
    BY <1>1, <1>4, <2>2, UserGoes DEF User!Places
<1>5. ASSUME NEW place \in {"keygen", "chown", "answer"}, NEW key \in User!Keys, NEW c \in BOOLEAN,
             Step(place, [actual EXCEPT !.key = key], now, c),
             place # "keygen" => key # "none",
             place = "keygen" => run.at = "key" /\ task.key /\ (task.force \/ actual.key = "none"),
             place = "chown" => run.at = "keygen" /\ c,
             place = "answer" => run.at = "chown" /\ c = run.changed
      PROVE UserInv' /\ UserRespects
  <2> DEFINE a == [actual EXCEPT !.key = key]
             b == run.touched \/ a # actual
  <2>1. a \in User!Hosts /\ a.user = actual.user /\ a.key = key /\ Step(place, a, now, c)
    BY <1>1, <1>5, UserPut DEF User!Hosts
  <2> HIDE DEF a
  <2>2. ~run.disturbed => ~(run.again /\ UserOnce(task))
    BY <1>1, <1>2, <1>5 DEF UserSettled, UserOnce, UserKnows, User!Satisfied
  <2>3. ~run.disturbed => UserShaped(task, a.user) /\ UserSecret(task, a.user) /\ UserLocked(task, a.user)
                          /\ task.kind = "user" /\ task.state = "present"
    BY <1>1, <1>2, <2>1 DEF UserKnows
  <2>4. ~run.disturbed /\ place = "answer" => User!Satisfied(task, a)
    BY <1>5, <2>1, <2>3 DEF UserShaped, UserSecret, UserLocked, User!Satisfied
  <2>5. ~run.disturbed /\ place = "answer" => c
    BY <1>5, <1>2, <2>1, UserGiven DEF UserKnows
  <2>6. ~run.disturbed => UserKnows(place, task, a, now, c, b)
    <3>1. place = "keygen" \/ c \/ run.disturbed
      BY <1>5, <2>5
    <3>2. place \in {"keygen", "chown", "answer"} /\ (place = "chown" => c /\ a.key # "none")
      BY <1>5, <2>1
    <3> QED
      BY <2>3, <2>4, <3>1, <3>2 DEF UserKnows
  <2>7. ~run.disturbed => UserFine(place, task, a, now, c, b, run.again)
    BY <2>2, <2>6 DEF UserFine, UserSettled
  <2> QED
    BY <1>1, <2>1, <2>7, UserGiven, UserStep DEF User!Places
<1> QED
  BY <1>1, <1>3, <1>4, <1>5, UserStops

LEMMA UserOutside == UserInv /\ User!Outside => UserInv' /\ UserRespects
<1> SUFFICES ASSUME UserInv, User!Outside PROVE UserInv' /\ UserRespects
  OBVIOUS
<1>1. PICK a \in User!Hosts : Interferes(a)
  <2> DEFINE Goal == \E a \in User!Hosts : Interferes(a)
  <2>1. ASSUME NEW user \in User!Accounts \union {Missing}, Interferes([actual EXCEPT !.user = user])
        PROVE Goal
    BY <2>1, UserPut
  <2>2. ASSUME NEW group \in 1 .. 2 \union {Missing}, Interferes([actual EXCEPT !.group = group])
        PROVE Goal
    BY <2>2, UserPut
  <2>3. ASSUME NEW g \in SUBSET Groups
        PROVE [User!NewAccount EXCEPT !.groups = g, !.shell = 2, !.primary = TRUE] \in User!Accounts
    <3> DEFINE yes == TRUE
               two == 2
    <3>1. yes \in BOOLEAN /\ two \in 1 .. 2
      OBVIOUS
    <3> HIDE DEF yes, two
    <3>2. [User!NewAccount EXCEPT !.groups = g, !.shell = two, !.primary = yes] \in User!Accounts
      BY <3>1, UserSettings DEF User!Accounts
    <3> QED
      BY <3>2 DEF yes, two
  <2>4. ASSUME actual.user # Missing
        PROVE /\ \A p \in 1 .. 2 :
                   /\ [actual.user EXCEPT !.password = p, !.locked = FALSE] \in User!Accounts
                   /\ [actual EXCEPT !.user.password = p, !.user.locked = FALSE]
                      = [actual EXCEPT !.user = [actual.user EXCEPT !.password = p, !.locked = FALSE]]
              /\ [actual.user EXCEPT !.locked = TRUE] \in User!Accounts
    <3>1. actual.user \in User!Accounts /\ actual \in User!Hosts
      BY <2>4, UserGiven DEF User!Hosts
    <3>2. \A p \in 1 .. 2 : p \in 0 .. 2
      OBVIOUS
    <3> QED
      BY <3>1, <3>2, UserSettings DEF User!Hosts
  <2> HIDE DEF Goal
  <2>5. Goal
    BY <2>1, <2>2, <2>3, <2>4, UserIsARun DEF User!Outside, User!user
  <2> QED
    BY <2>5 DEF Goal
<1>2. UserTyped' /\ run'.at = run.at /\ (run.at = "idle" \/ run'.disturbed) /\ ~memo'.settled /\ RunMoves
  BY <1>1, RunInterferes DEF UserInv, UserTyped
<1>3. UserInv' /\ (Idle \/ run'.at # "idle")
  BY <1>2 DEF UserInv, Idle, At
<1>4. User!OnlyOnCreate /\ User!Appends
  BY <1>2 DEF User!OnlyOnCreate, User!Appends, User!Idle, User!At
<1> QED
  BY <1>2, <1>3, <1>4, RunSilent, UserSilent

LEMMA UserNext == UserInv /\ [User!Next]_vars => UserInv' /\ UserRespects
<1> SUFFICES ASSUME UserInv, [User!Next]_vars PROVE UserInv' /\ UserRespects
  OBVIOUS
<1>1. CASE User!CallError \/ User!Killed
  BY <1>1, UserGiven, UserStops DEF User!CallError, User!CallFails, User!Killed, User!Idle, User!At
<1>2. CASE User!Finish
  <2>1. run.at = "answer" /\ User!Answer(run.changed)
    BY <1>2 DEF User!Finish, User!At
  <2>2. ~run.disturbed => /\ UserKnows("answer", run.task, actual, run.read, run.changed, run.touched)
                          /\ UserSettled("answer", run.task, actual, run.read, run.changed, run.again)
    BY <2>1 DEF UserInv, UserFine, Idle, At
  <2>3. ~run.disturbed => /\ User!Satisfied(run.task, actual) /\ (~run.changed => ~run.touched)
                          /\ run.again /\ UserOnce(run.task) => ~run.changed
    BY <2>2 DEF UserKnows, UserSettled
  <2> QED
    BY <2>1, <2>3, UserGiven, UserAnswers
<1> QED
  BY <1>1, <1>2, UserStart, UserGroup, UserDecides, UserCreates, UserModifies, UserSecrets, UserLocks,
     UserKey, UserOutside DEF User!Next, User!Steps

LEMMA UserSafe == UserInv => User!TypeOK
  BY DEF UserInv, UserTyped, RunTyped, RunStates, User!TypeOK, User!Memos, Memos, User!Forecasts, Forecasts,
     User!RunStates, User!Replies, Replies, User!Checking, Checking

-----------------------------------------------------------------------------
(* service and systemd_service.                                            *)

(* Init scripts know neither masked nor static units.                      *)
UnitKept(h) == h.manager = "sysvinit" => ~h.masked /\ h.enabled # "static"
UnitInv ==
    RunTyped(Unit!Hosts, UnitTasks, Unit!Places, Unit!Reading) /\ UnitKept(actual)

LEMMA UnitInit == Unit!Init => UnitInv
<1> SUFFICES ASSUME Unit!Init PROVE UnitInv
  OBVIOUS
<1>1. InitRuns(Unit!InitHosts, UnitTasks) /\ actual \in Unit!InitHosts
  BY UnitIsARun DEF Unit!Init, InitRuns
<1>2. \A h \in Unit!InitHosts : h \in Unit!Hosts /\ UnitKept(h)
  <2> TAKE h \in Unit!InitHosts
  <2>1. Alike \subseteq BOOLEAN
    BY HostAssumption DEF Unit!TaskAssumption
  <2> QED
    BY <2>1 DEF Unit!InitHosts, Unit!Hosts, Unit!ActiveStates, Unit!EnabledStates, UnitKept
<1> QED
  BY <1>1, <1>2, RunInit DEF UnitInv

LEMMA UnitGiven ==
    UnitInv =>
      /\ actual \in Unit!Hosts /\ UnitKept(actual) /\ run.changed \in BOOLEAN
      /\ "idle" \notin Unit!Places /\ run.at \in Unit!Places \union {"idle"}
      /\ run.at # "idle" => run.read \in Unit!Reading
      /\ run.task \in Unit!Requests
  BY HostAssumption DEF UnitInv, RunTyped, RunStates, Idle, At, Unit!Places, Unit!TaskAssumption

LEMMA UnitStep ==
    ASSUME UnitInv, NEW place \in Unit!Places, NEW a \in Unit!Hosts, NEW r \in Unit!Reading,
           NEW c \in BOOLEAN, Step(place, a, r, c), UnitKept(a)
    PROVE UnitInv'
  BY UnitGiven, RunStep DEF UnitInv

(* A step that only goes on, or says so.                                   *)
LEMMA UnitGoes ==
    ASSUME UnitInv, run.at # "idle", NEW place \in Unit!Places, Unit!Goto(place) \/ Unit!Reports(place)
    PROVE UnitInv'
<1>1. Step(place, actual, run.read, run.changed) \/ Step(place, actual, run.read, TRUE)
  BY UnitIsARun DEF Unit!Goto, Unit!Reports
<1> QED
  BY <1>1, UnitGiven, UnitStep

LEMMA UnitEnds ==
    ASSUME UnitInv, \/ \E c \in BOOLEAN : Unit!Answer(c)
                    \/ \E reply \in Replies : Unit!Stops(reply)
                    \/ Unit!Refuse
    PROVE UnitInv'
  BY UnitIsARun, RunStops, RunAnswers DEF UnitInv, Replies, Unit!Refuse

(* What systemctl and the init scripts make of a unit.                     *)
LEMMA UnitPut ==
    ASSUME UnitInv
    PROVE /\ \A active \in Unit!ActiveStates :
               [actual EXCEPT !.active = active] \in Unit!Hosts
                 /\ UnitKept([actual EXCEPT !.active = active])
          /\ \A enabled \in {"enabled", "disabled", actual.enabled} :
               [actual EXCEPT !.enabled = enabled] \in Unit!Hosts
                 /\ UnitKept([actual EXCEPT !.enabled = enabled])
          /\ \A masked \in BOOLEAN : actual.manager = "systemd" =>
               [actual EXCEPT !.masked = masked] \in Unit!Hosts
                 /\ UnitKept([actual EXCEPT !.masked = masked])
<1>1. actual \in Unit!Hosts /\ UnitKept(actual)
  BY UnitGiven
<1>2. ASSUME NEW active \in Unit!ActiveStates
      PROVE [actual EXCEPT !.active = active] \in Unit!Hosts
              /\ UnitKept([actual EXCEPT !.active = active])
  BY <1>1 DEF Unit!Hosts, UnitKept
<1>3. ASSUME NEW enabled \in {"enabled", "disabled", actual.enabled}
      PROVE [actual EXCEPT !.enabled = enabled] \in Unit!Hosts
              /\ UnitKept([actual EXCEPT !.enabled = enabled])
  BY <1>1 DEF Unit!Hosts, Unit!EnabledStates, UnitKept
<1>4. ASSUME NEW masked \in BOOLEAN, actual.manager = "systemd"
      PROVE [actual EXCEPT !.masked = masked] \in Unit!Hosts
              /\ UnitKept([actual EXCEPT !.masked = masked])
  BY <1>1, <1>4 DEF Unit!Hosts, UnitKept
<1> QED
  BY <1>2, <1>3, <1>4

LEMMA UnitChanges ==
    ASSUME UnitInv, run.at # "idle", NEW place \in Unit!Places, NEW a \in Unit!Hosts, UnitKept(a),
           Unit!Changes(place, a)
    PROVE UnitInv'
<1>1. Step(place, a, run.read, TRUE)
  BY UnitIsARun DEF Unit!Changes
<1> QED
  BY <1>1, UnitGiven, UnitStep

LEMMA UnitStart == UnitInv /\ (UNCHANGED vars \/ Unit!Start) => UnitInv'
<1> SUFFICES ASSUME UnitInv, UNCHANGED vars \/ Unit!Start PROVE UnitInv'
  OBVIOUS
<1>1. CASE UNCHANGED vars
  BY <1>1 DEF vars, UnitInv, UnitKept, RunTyped, Idle, At, Checking
<1>2. CASE Unit!Start
  <2>1. PICK task \in UnitTasks : Begin(task, "apply", "daemon", Unit!Nothing)
    BY <1>2, UnitIsARun DEF Unit!Start
  <2>2. Unit!Nothing \in Unit!Reading /\ "daemon" \in Unit!Places
    BY DEF Unit!Nothing, Unit!Reading, Unit!Places, Unit!ActiveStates
  <2> QED
    BY <2>1, <2>2, UnitGiven, RunBegin DEF UnitInv
<1> QED
  BY <1>1, <1>2

LEMMA UnitLooks ==
    ASSUME UnitInv, \/ Unit!DaemonReload \/ Unit!Show \/ Unit!IsUnitMasked \/ Unit!IsEnabled
                    \/ Unit!Decide \/ Unit!Reload
    PROVE UnitInv'
<1>1. run.at # "idle" /\ run.read \in Unit!Reading
  BY UnitGiven DEF Unit!DaemonReload, Unit!Show, Unit!IsUnitMasked, Unit!IsEnabled, Unit!Decide,
     Unit!Reload, Unit!At
<1>2. CASE Unit!Show
  <2> DEFINE active == IF Unit!Systemd /\ actual.exists THEN actual.active ELSE "inactive"
             r == [run.read EXCEPT !.active = active]
  <2>1. Unit!Refuse \/ Step("ismasked", actual, r, run.changed)
    BY <1>2, UnitIsARun DEF Unit!Show, Unit!Reads, Unit!now, Unit!unit
  <2>2. active \in Unit!ActiveStates
    BY UnitGiven DEF Unit!Hosts, Unit!ActiveStates
  <2> HIDE DEF active
  <2>3. r \in Unit!Reading
    BY <1>1, <2>2 DEF Unit!Reading
  <2> HIDE DEF r
  <2> QED
    BY <2>1, <2>3, UnitGiven, UnitStep, UnitEnds DEF Unit!Places
<1>3. CASE \/ Unit!DaemonReload \/ Unit!IsUnitMasked \/ Unit!IsEnabled \/ Unit!Decide \/ Unit!Reload
  <2>1. \/ Unit!Refuse
        \/ \E place \in Unit!Places : Unit!Goto(place) \/ Unit!Reports(place)
    BY <1>3 DEF Unit!DaemonReload, Unit!IsUnitMasked, Unit!IsEnabled, Unit!Decide, Unit!Decides,
       Unit!Reload, Unit!Places
  <2> QED
    BY <1>1, <2>1, UnitGoes, UnitEnds
<1> QED
  BY <1>2, <1>3

LEMMA UnitSettings == ASSUME UnitInv, Unit!Mask \/ Unit!Enable PROVE UnitInv'
<1>1. CASE Unit!Mask
  <2> DEFINE masked == run.task.masked = "yes"
             a == [actual EXCEPT !.masked = masked]
  <2>1. run.at # "idle" /\ (Unit!Refuse \/ (actual.manager = "systemd" /\ Unit!Changes("isenabled", a)))
    BY <1>1 DEF Unit!Mask, Unit!At, Unit!t, Unit!Systemd, Unit!unit
  <2>2. masked \in BOOLEAN
    OBVIOUS
  <2> HIDE DEF masked
  <2>3. actual.manager = "systemd" => a \in Unit!Hosts /\ UnitKept(a)
    BY <2>2, UnitPut
  <2> HIDE DEF a
  <2> QED
    BY <2>1, <2>3, UnitChanges, UnitEnds DEF Unit!Places
<1>2. CASE Unit!Enable
  <2> DEFINE enabled == IF actual.enabled = "static" THEN actual.enabled
                        ELSE IF run.task.enabled = "yes" THEN "enabled" ELSE "disabled"
             a == [actual EXCEPT !.enabled = enabled]
  <2>1. run.at # "idle" /\ (Unit!Refuse \/ Unit!Changes("isactive", a))
    BY <1>2, UnitGiven DEF Unit!Enable, Unit!At, Unit!t, Unit!Hosts
  <2>2. enabled \in {"enabled", "disabled", actual.enabled}
    OBVIOUS
  <2> HIDE DEF enabled
  <2>3. a \in Unit!Hosts /\ UnitKept(a)
    BY <2>2, UnitPut
  <2> HIDE DEF a
  <2> QED
    BY <2>1, <2>3, UnitChanges, UnitEnds DEF Unit!Places
<1> QED
  BY <1>1, <1>2

(* Starting and stopping leave the unit in some state.                     *)
LEMMA UnitActs ==
    ASSUME UnitInv, Unit!RunAct \/ Unit!StopAct \/ Unit!StartAfterSleep PROVE UnitInv'
<1>1. run.at # "idle"
  BY DEF Unit!RunAct, Unit!StopAct, Unit!StartAfterSleep, Unit!At
<1>2. ASSUME NEW active \in Unit!ActiveStates, NEW place \in Unit!Places,
             Unit!Changes(place, [actual EXCEPT !.active = active])
      PROVE UnitInv'
  <2> DEFINE a == [actual EXCEPT !.active = active]
  <2>1. a \in Unit!Hosts /\ UnitKept(a) /\ Unit!Changes(place, a)
    BY <1>2, UnitPut
  <2> HIDE DEF a
  <2> QED
    BY <1>1, <2>1, UnitChanges
<1>3. CASE Unit!FailsAs("failed")
  <2>1. actual' \in Unit!Hosts /\ UnitKept(actual')
    <3>1. "failed" \in Unit!ActiveStates
      BY DEF Unit!ActiveStates
    <3> QED
      BY <1>3, <3>1, UnitPut DEF Unit!FailsAs
  <2>2. Ends("failed", FALSE) /\ memo' \in Memos
    BY <1>3, UnitIsARun DEF Unit!FailsAs, Memos, NoMemo, Forecasts
  <2> QED
    BY <2>1, <2>2, RunEnds DEF UnitInv, Replies
<1>4. ASSUME NEW place \in Unit!Places, Unit!Runs(place) PROVE UnitInv'
  <2> DEFINE active == IF run.task.noblock /\ actual.active # "active" THEN "activating" ELSE "active"
  <2>1. \/ Unit!Refuse \/ Unit!FailsAs("failed")
        \/ Unit!Changes(place, [actual EXCEPT !.active = active])
    BY <1>4, UnitGiven DEF Unit!Runs, Unit!t, Unit!Hosts
  <2>2. active \in Unit!ActiveStates
    BY DEF Unit!ActiveStates
  <2> HIDE DEF active
  <2> QED
    BY <1>2, <1>3, <2>1, <2>2, UnitEnds
<1>5. CASE Unit!StopAct
  <2>1. Unit!Refuse \/ \E place \in Unit!Places : Unit!Changes(place, [actual EXCEPT !.active = Unit!Stopped])
    BY <1>5 DEF Unit!StopAct, Unit!Places
  <2>2. Unit!Stopped \in Unit!ActiveStates
    BY UnitGiven DEF Unit!Stopped, Unit!ActiveStates, Unit!unit
  <2> QED
    BY <1>2, <2>1, <2>2, UnitEnds
<1>6. CASE Unit!RunAct \/ Unit!StartAfterSleep
  <2>1. \E place \in Unit!Places : Unit!Runs(place)
    BY <1>6 DEF Unit!RunAct, Unit!StartAfterSleep, Unit!Places
  <2> QED
    BY <1>4, <2>1
<1> QED
  BY <1>5, <1>6

LEMMA UnitOutside == ASSUME UnitInv, Unit!Outside \/ Unit!JobEnds PROVE UnitInv'
<1>1. PICK a \in Unit!Hosts : UnitKept(a) /\ (Interferes(a) \/ Awaited(a))
  <2> DEFINE Goal == \E a \in Unit!Hosts : UnitKept(a) /\ (Interferes(a) \/ Awaited(a))
  <2>1. ASSUME NEW active \in Unit!ActiveStates,
               LET a == [actual EXCEPT !.active = active] IN Interferes(a) \/ Awaited(a)
        PROVE Goal
    BY <2>1, UnitPut
  <2>2. ASSUME NEW enabled \in {"enabled", "disabled"}, Interferes([actual EXCEPT !.enabled = enabled])
        PROVE Goal
    BY <2>2, UnitPut
  <2>3. ASSUME NEW masked \in BOOLEAN, actual.manager = "systemd",
               Interferes([actual EXCEPT !.masked = masked])
        PROVE Goal
    BY <2>3, UnitPut
  <2> HIDE DEF Goal
  <2>4. ASSUME Unit!JobEnds PROVE Goal
    BY <2>1, <2>4, UnitIsARun DEF Unit!JobEnds, Unit!ActiveStates
  <2>5. ASSUME Unit!Outside PROVE Goal
    <3>1. \A active \in IF Unit!Systemd THEN Unit!ActiveStates ELSE {"inactive", "active"} :
             active \in Unit!ActiveStates
      BY DEF Unit!ActiveStates
    <3> QED
      BY <2>1, <2>2, <2>3, <2>5, <3>1, UnitIsARun DEF Unit!Outside, Unit!Systemd, Unit!unit
  <2>6. Goal
    BY <2>4, <2>5
  <2> QED
    BY <2>6 DEF Goal
<1> QED
  BY <1>1, RunInterferes DEF UnitInv

LEMMA UnitNext == UnitInv /\ [Unit!Next]_vars => UnitInv'
<1> SUFFICES ASSUME UnitInv, [Unit!Next]_vars PROVE UnitInv'
  OBVIOUS
<1>1. CASE Unit!Finish \/ Unit!CallError \/ Unit!Killed
  BY <1>1, UnitGiven, UnitEnds DEF Unit!Finish, Unit!CallError, Unit!CallFails, Unit!Killed, Replies
<1> QED
  BY <1>1, UnitStart, UnitLooks, UnitSettings, UnitActs, UnitOutside DEF Unit!Next, Unit!Steps

LEMMA UnitSafe == UnitInv => Unit!TypeOK
  BY DEF UnitInv, UnitKept, RunTyped, RunStates, Unit!TypeOK, Unit!Memos, Memos, Unit!Forecasts,
     Forecasts, Unit!RunStates, Unit!Replies, Replies, Unit!Checking, Checking

-----------------------------------------------------------------------------
(* git.                                                                    *)

(* What the remote has published, which nobody's own work is.              *)
Published == Git!Mains \union Git!Devs
Repository(d, task) == d # Missing /\ d.shape = (IF task.bare THEN "bare" ELSE "plain")
(* What a run knows of the checkout d where it is, until somebody disturbs *)
(* it: there is a repository, and without force no local work in it, from  *)
(* where it fetches to where it resets, unless git status has failed; and  *)
(* what a reset gives up is in what it moves to; a clone starts where      *)
(* there is none, and fills an empty one.                                  *)
Fetched == {"switch", "branch", "version", "ancestor", "reset"}
GitFound(place, d, remote, r, task, disturbed) ==
    /\ place \in {"resethard", "clean"} => task.force
    /\ place \in Fetched => \A b \in Git!Branches : r.fetched[b] \in Published
    /\ place \in Fetched \ {"switch"} => ~task.bare
    /\ place = "branch" => task.version \in Git!Branches
    /\ place = "version" => task.version \in Git!Branches \union {"sha"}
    /\ ~disturbed =>
         /\ place \notin {"look", "clone"} => d # Missing
         /\ place \in {"url", "mods", "resethard", "clean", "fetch"} \union Fetched => Repository(d, task)
         /\ place = "clone" => ~Repository(d, task)
         /\ place \in {"fetch"} \union Fetched /\ ~task.force /\ ~task.bare =>
              d.dirty = {} \/ "status" \in r.failed
         /\ place \in Fetched => r.fetched = remote
         /\ place \in {"ancestor", "reset"} => d.branch # ""
         /\ place = "reset" /\ ~task.force => Git!IsAncestor(Git!Head(d), r.fetched[d.branch])
         /\ place = "cloning" => \A b \in Git!Branches : d.heads[b] = Git!NoCommit
GitInv ==
    /\ RunTyped(Git!Hosts, GitTasks, Git!Places, Git!Reading)
    /\ \A b \in Git!Branches : actual.remote[b] \in Published
    /\ run.at # "idle" =>
         GitFound(run.at, actual.dest, actual.remote, run.read, run.task, run.disturbed)
GitRespects == Git!Recovers /\ Git!KeepsWork

(* The work that is still there when the checkout has become d.            *)
GitKeeps(d) ==
    ~run.task.force /\ ~run.disturbed /\ actual.dest # Missing /\ d # Missing =>
      /\ actual.dest.dirty \ d.dirty \subseteq (IF "status" \in run.read.failed THEN {"edited"} ELSE {})
      /\ \A b \in Git!Branches : actual.dest.heads[b] = Git!Local => d.heads[b] = Git!Local
(* What a run may refuse.                                                  *)
GitBlocked ==
    /\ actual.dest # Missing
    /\ \/ actual.dest.dirty # {} \/ ~Repository(actual.dest, run.task)
       \/ \E b \in Git!Branches :
             /\ actual.dest.heads[b] # Git!NoCommit
             /\ ~Git!IsAncestor(actual.dest.heads[b], actual.remote[b])

LEMMA GitAncestors ==
    /\ \A c : Git!IsAncestor(Git!NoCommit, c)
    /\ \A c \in Published : ~Git!IsAncestor(Git!Local, c)
    /\ Published \subseteq Git!Commits /\ Git!Local # Git!NoCommit
<1>1. \A c : Git!IsAncestor(Git!NoCommit, c)
  BY DEF Git!IsAncestor
<1>2. ASSUME NEW c \in Published PROVE ~Git!IsAncestor(Git!Local, c)
  <2>1. c \in {2, 3, 5, 6}
    BY DEF Published, Git!Mains, Git!Devs
  <2>2. /\ Git!Parent[1] = 0 /\ Git!Parent[2] = 1 /\ Git!Parent[3] = 1 /\ Git!Parent[5] = 2
        /\ Git!Parent[6] = 1
    BY DEF Git!Parent, Git!First
  <2> QED
    BY <2>1, <2>2 DEF Git!IsAncestor, Git!Local, Git!NoCommit
<1> QED
  BY <1>1, <1>2 DEF Published, Git!Mains, Git!Devs, Git!Commits, Git!Local, Git!NoCommit

LEMMA GitGiven ==
    GitInv =>
      /\ actual \in Git!Hosts /\ run.changed \in BOOLEAN /\ "idle" \notin Git!Places
      /\ run.at \in Git!Places \union {"idle"} /\ run.disturbed \in BOOLEAN
      /\ run.at # "idle" => run.read \in Git!Reading
      /\ run.task \in Git!Requests /\ GitKeeps(actual.dest)
      /\ actual.dest # Missing => actual.dest \in Git!Checkouts
      /\ actual.remote \in Git!Remotes
  BY HostAssumption DEF GitInv, RunTyped, RunStates, Idle, At, Git!Places, Git!TaskAssumption, GitKeeps, Git!Hosts

LEMMA GitInit == Git!Init => GitInv
<1> SUFFICES ASSUME Git!Init PROVE GitInv
  OBVIOUS
<1> DEFINE first == [main |-> 2, dev |-> 3]
           R == [remote : {first}, dest : {Missing}]
<1>1. InitRuns(R, GitTasks) /\ actual \in R
  BY GitIsARun DEF Git!Init, InitRuns
<1>2. first \in Git!Remotes /\ \A b \in Git!Branches : first[b] \in Published
  BY DEF Git!Remotes, Git!Branches, Git!Commits, Published, Git!Mains, Git!Devs
<1> HIDE DEF first
<1>3. R \subseteq Git!Hosts
  BY <1>2 DEF Git!Hosts
<1> QED
  BY <1>1, <1>2, <1>3, RunInit DEF GitInv, Idle, At

LEMMA GitStep ==
    ASSUME GitInv, NEW place \in Git!Places, NEW a \in Git!Hosts, a.remote = actual.remote,
           NEW r \in Git!Reading, NEW c \in BOOLEAN, Step(place, a, r, c),
           GitFound(place, a.dest, actual.remote, r, run.task, run.disturbed), GitKeeps(a.dest)
    PROVE GitInv' /\ GitRespects
<1>1. /\ RunTyped(Git!Hosts, GitTasks, Git!Places, Git!Reading)' /\ actual' = a
      /\ run'.at = place /\ run'.read = r /\ run'.task = run.task /\ run'.disturbed = run.disturbed
      /\ place # "idle"
  BY GitGiven, RunStep DEF GitInv
<1>2. GitInv'
  BY <1>1 DEF GitInv, GitFound, Repository, Fetched
<1>3. Git!KeepsWork
  BY <1>1 DEF GitKeeps, Git!KeepsWork, Git!t, Git!dest, Git!now
<1>4. Git!Recovers
  BY <1>1 DEF Git!Recovers, Git!Answers
<1> QED
  BY <1>2, <1>3, <1>4 DEF GitRespects

(* A step that goes on, and one that makes d of the checkout.              *)
LEMMA GitGoes ==
    ASSUME GitInv, run.at # "idle", NEW place \in Git!Places, Git!Goto(place),
           GitFound(place, actual.dest, actual.remote, run.read, run.task, run.disturbed)
    PROVE GitInv' /\ GitRespects
<1>1. Step(place, actual, run.read, run.changed)
  BY GitIsARun DEF Git!Goto
<1> QED
  BY <1>1, GitGiven, GitStep

LEMMA GitMoves ==
    ASSUME GitInv, run.at # "idle", NEW place \in Git!Places, NEW d \in Git!Checkouts,
           \/ Git!Checkout(place, d) \/ Git!Changes(place, [actual EXCEPT !.dest = d]),
           GitFound(place, d, actual.remote, run.read, run.task, run.disturbed), GitKeeps(d)
    PROVE GitInv' /\ GitRespects
<1> DEFINE a == [actual EXCEPT !.dest = d]
<1>1. Step(place, a, run.read, run.changed) \/ Step(place, a, run.read, TRUE)
  BY GitIsARun DEF Git!Checkout, Git!Changes, Git!now
<1>2. a \in Git!Hosts /\ a.dest = d /\ a.remote = actual.remote
  BY GitGiven DEF Git!Hosts
<1> HIDE DEF a
<1> QED
  BY <1>1, <1>2, GitGiven, GitStep

LEMMA GitEnds ==
    ASSUME GitInv, \/ \E c \in BOOLEAN : Git!Answer(c)
                   \/ \E head : Git!Answered(head)
                   \/ Git!Stops("failed") \/ Git!Stops("killed")
                   \/ Git!Refuse /\ (run.disturbed \/ GitBlocked)
    PROVE GitInv' /\ GitRespects
<1>1. /\ RunTyped(Git!Hosts, GitTasks, Git!Places, Git!Reading)' /\ run'.at = "idle"
      /\ actual' = actual
      /\ run'.reply # "refused" \/ run.disturbed \/ GitBlocked
  <2>1. ASSUME NEW head, Git!Answered(head)
        PROVE /\ RunTyped(Git!Hosts, GitTasks, Git!Places, Git!Reading)' /\ run'.at = "idle"
              /\ actual' = actual /\ run'.reply = "ok"
    <3> DEFINE c == run.changed \/ Git!now.before # head
               settled == ~run.disturbed /\ Git!now.failed = {}
    <3>1. Ends("ok", c) /\ memo' = [forecast |-> "none", settled |-> settled] /\ actual' = actual
      BY <2>1, GitIsARun DEF Git!Answered
    <3>2. c \in BOOLEAN /\ settled \in BOOLEAN
      BY GitGiven
    <3> HIDE DEF c, settled
    <3>3. memo' \in Memos /\ actual' \in Git!Hosts
      BY <3>1, <3>2, GitGiven DEF Memos, Forecasts
    <3> QED
      BY <3>1, <3>2, <3>3, RunEnds DEF GitInv, Replies
  <2> QED
    BY <2>1, GitIsARun, RunStops, RunAnswers DEF GitInv, Replies, Git!Refuse
<1>2. GitInv'
  BY <1>1 DEF GitInv
<1>3. Git!KeepsWork
  BY <1>1 DEF Git!KeepsWork, Git!dest
<1>4. Git!Recovers
  BY <1>1 DEF Git!Recovers, Git!dest, Git!IsRepo, Git!t, GitBlocked, Repository
<1> QED
  BY <1>2, <1>3, <1>4 DEF GitRespects

(* A failure that nobody notices.                                          *)
LEMMA GitFails ==
    ASSUME GitInv, run.at # "idle", NEW command \in Git!Unnoticed, NEW place \in Git!Places,
           Git!Fails(command, place),
           \A r \in Git!Reading :
              r.fetched = run.read.fetched /\ r.failed = run.read.failed \union {command} =>
                 GitFound(place, actual.dest, actual.remote, r, run.task, run.disturbed)
    PROVE GitInv' /\ GitRespects
<1> DEFINE failed == run.read.failed \union {command}
           r == [run.read EXCEPT !.failed = failed]
<1>1. Step(place, actual, r, run.changed)
  BY GitIsARun DEF Git!Fails, Git!Reads, Git!now
<1>2. run.read \in Git!Reading /\ failed \in SUBSET Git!Unnoticed
  BY GitGiven DEF Git!Reading
<1> HIDE DEF failed
<1>3. r \in Git!Reading /\ r.fetched = run.read.fetched /\ r.failed = failed
  BY <1>2 DEF Git!Reading
<1> HIDE DEF r
<1>4. GitFound(place, actual.dest, actual.remote, r, run.task, run.disturbed)
  BY <1>3 DEF failed
<1> QED
  BY <1>1, <1>3, <1>4, GitGiven, GitStep

LEMMA GitStart == GitInv /\ (UNCHANGED vars \/ Git!Start) => GitInv' /\ GitRespects
<1> SUFFICES ASSUME GitInv, UNCHANGED vars \/ Git!Start PROVE GitInv' /\ GitRespects
  OBVIOUS
<1>1. CASE UNCHANGED vars
  BY <1>1 DEF vars, GitInv, GitFound, Repository, RunTyped, Idle, At, Checking, GitRespects,
     Git!KeepsWork, Git!dest, Git!Recovers, Git!Answers, Git!Idle, Git!At
<1>2. CASE Git!Start
  <2>1. PICK task \in GitTasks : Begin(task, "apply", "look", Git!Nothing)
    BY <1>2, GitIsARun DEF Git!Start
  <2>2. Git!Nothing \in Git!Reading /\ "look" \in Git!Places
    BY DEF Git!Nothing, Git!Reading, Git!Places
  <2>3. /\ RunTyped(Git!Hosts, GitTasks, Git!Places, Git!Reading)' /\ actual' = actual
        /\ run'.at = "look" /\ Idle
    BY <2>1, <2>2, GitGiven, RunBegin DEF GitInv
  <2>4. GitInv'
    BY <2>3 DEF GitInv, GitFound, Fetched
  <2>5. Git!Idle
    BY <2>3 DEF Git!Idle, Git!At, Idle, At
  <2> QED
    BY <2>3, <2>4, <2>5 DEF GitRespects, Git!KeepsWork, Git!Recovers, Git!Answers
<1> QED
  BY <1>1, <1>2

(* What git makes of a checkout.                                           *)
LEMMA GitSettings ==
    ASSUME NEW d \in Git!Checkouts
    PROVE /\ Git!Head(d) \in Git!Commits \union {Git!NoCommit}
          /\ [d EXCEPT !.url = "task"] \in Git!Checkouts
          /\ \A dirty \in SUBSET Git!Work : [d EXCEPT !.dirty = dirty] \in Git!Checkouts
          /\ \A submodules \in BOOLEAN : [d EXCEPT !.submodules = submodules] \in Git!Checkouts
          /\ [d EXCEPT !.branch = "", !.commit = Git!First] \in Git!Checkouts
          /\ \A b \in Git!Branches, c \in Git!Commits :
                /\ [d EXCEPT !.branch = b] \in Git!Checkouts
                /\ [d EXCEPT !.heads[b] = c] \in Git!Checkouts
                /\ [d EXCEPT !.branch = b, !.heads[b] = c] \in Git!Checkouts
                /\ \A g \in Git!Branches :
                      [d EXCEPT !.heads[b] = c].heads[g] = IF g = b THEN c ELSE d.heads[g]
<1>1. Git!Head(d) \in Git!Commits \union {Git!NoCommit}
  BY HostAssumption DEF Git!Checkouts, Git!Head
<1>2. [d EXCEPT !.url = "task"] \in Git!Checkouts
  BY DEF Git!Checkouts
<1>3. /\ \A x \in SUBSET Git!Work : [d EXCEPT !.dirty = x] \in Git!Checkouts
      /\ \A x \in BOOLEAN : [d EXCEPT !.submodules = x] \in Git!Checkouts
  BY DEF Git!Checkouts
<1>4. [d EXCEPT !.branch = "", !.commit = Git!First] \in Git!Checkouts
  <2>1. Git!First \in Git!Commits /\ "" \in Git!Branches \union {""}
    BY DEF Git!First, Git!Commits
  <2> QED
    BY <2>1 DEF Git!Checkouts
<1>5. ASSUME NEW b \in Git!Branches, NEW c \in Git!Commits
      PROVE /\ [d EXCEPT !.branch = b] \in Git!Checkouts
            /\ [d EXCEPT !.heads[b] = c] \in Git!Checkouts
            /\ [d EXCEPT !.branch = b, !.heads[b] = c] \in Git!Checkouts
            /\ \A g \in Git!Branches :
                  [d EXCEPT !.heads[b] = c].heads[g] = IF g = b THEN c ELSE d.heads[g]
  BY DEF Git!Checkouts
<1> QED
  BY <1>1, <1>2, <1>3, <1>4, <1>5

LEMMA GitLooks ==
    ASSUME GitInv, Git!Look \/ Git!SetRemoteURL PROVE GitInv' /\ GitRespects
<1> DEFINE d == actual.dest
<1>1. /\ run.at \in {"look", "url"} /\ run.read \in Git!Reading
      /\ GitFound(run.at, d, actual.remote, run.read, run.task, run.disturbed)
      /\ Git!IsRepo <=> Repository(d, run.task)
  BY GitGiven DEF Git!Look, Git!SetRemoteURL, Git!At, GitInv, Git!IsRepo, Git!dest, Git!t, Repository
<1>2. CASE Git!Look
  <2> DEFINE r == [run.read EXCEPT !.before = Git!Head(d)]
  <2>1. \/ Repository(d, run.task) /\ Step("url", actual, r, run.changed)
        \/ Repository(d, run.task) /\ Git!Fails("before", "url")
        \/ ~Repository(d, run.task) /\ Git!Goto("clone")
        \/ Git!Answer(FALSE)
    BY <1>1, <1>2, GitIsARun DEF Git!Look, Git!Reads, Git!now, Git!dest
  <2>2. Repository(d, run.task) => r \in Git!Reading
    BY <1>1, GitGiven, GitSettings DEF Git!Reading, Repository
  <2> HIDE DEF r
  <2>3. Repository(d, run.task) =>
          \A x : GitFound("url", d, actual.remote, x, run.task, run.disturbed)
    BY DEF GitFound, Repository, Fetched
  <2>4. ~Repository(d, run.task) => GitFound("clone", d, actual.remote, run.read, run.task, run.disturbed)
    BY DEF GitFound, Fetched
  <2>5. "before" \in Git!Unnoticed /\ {"url", "clone"} \subseteq Git!Places
    BY DEF Git!Unnoticed, Git!Places
  <2>6. run.at # "idle" /\ run.changed \in BOOLEAN
    BY <1>1, GitGiven
  <2>7. ASSUME Repository(d, run.task), Step("url", actual, r, run.changed)
        PROVE GitInv' /\ GitRespects
    BY <1>1, <2>2, <2>3, <2>5, <2>6, <2>7, GitGiven, GitStep
  <2>8. ASSUME Repository(d, run.task), Git!Fails("before", "url")
        PROVE GitInv' /\ GitRespects
    BY <1>1, <2>3, <2>5, <2>6, <2>8, GitFails
  <2>9. ASSUME ~Repository(d, run.task), Git!Goto("clone")
        PROVE GitInv' /\ GitRespects
    BY <1>1, <2>4, <2>5, <2>6, <2>9, GitGoes
  <2>10. ASSUME Git!Answer(FALSE)
         PROVE GitInv' /\ GitRespects
    BY <2>6, <2>10, GitEnds
  <2> QED
    BY <2>1, <2>7, <2>8, <2>9, <2>10
<1>3. CASE Git!SetRemoteURL
  <2> DEFINE new == [d EXCEPT !.url = "task"]
  <2>1. PICK next \in {"mods", "after"} :
          \/ Git!Goto(next)
          \/ Git!Fails("url", next)
          \/ d # Missing /\ Git!Changes(next, [actual EXCEPT !.dest = new])
    <3>1. [actual EXCEPT !.dest.url = "task"] = [actual EXCEPT !.dest = new]
      BY GitGiven DEF Git!Hosts
    <3> QED
      BY <1>3, <3>1 DEF Git!SetRemoteURL, Git!dest
  <2>2. run.at = "url"
    BY <1>3 DEF Git!SetRemoteURL, Git!At
  <2>3. d # Missing => /\ new \in Git!Checkouts /\ new.shape = d.shape
                       /\ new.dirty = d.dirty /\ new.heads = d.heads
    <3>1. d # Missing => d \in Git!Checkouts
      BY GitGiven
    <3>2. d # Missing => new \in Git!Checkouts
      BY <3>1, GitSettings
    <3>3. d # Missing => new.shape = d.shape /\ new.dirty = d.dirty /\ new.heads = d.heads
      BY <3>1 DEF Git!Checkouts
    <3> QED
      BY <3>2, <3>3
  <2> HIDE DEF new
  <2>4. \A r : GitFound(next, d, actual.remote, r, run.task, run.disturbed)
    BY <1>1, <2>2 DEF GitFound, Fetched
  <2>5. d # Missing =>
          GitFound(next, new, actual.remote, run.read, run.task, run.disturbed) /\ GitKeeps(new)
    BY <1>1, <2>2, <2>3, HostAssumption DEF GitFound, GitKeeps, Repository, Fetched
  <2> QED
    BY <1>1, <2>1, <2>3, <2>4, <2>5, GitGoes, GitFails, GitMoves DEF Git!Places, Git!Unnoticed
<1> QED
  BY <1>2, <1>3

LEMMA GitPrepares ==
    ASSUME GitInv, Git!HasLocalMods \/ Git!ResetHard \/ Git!Clean \/ Git!FetchRepo
    PROVE GitInv' /\ GitRespects
<1> DEFINE d == actual.dest
<1>1. /\ run.at \in {"mods", "resethard", "clean", "fetch"} /\ run.read \in Git!Reading
      /\ GitFound(run.at, d, actual.remote, run.read, run.task, run.disturbed)
      /\ d = Missing => run.disturbed
      /\ d # Missing => d \in Git!Checkouts
  BY GitGiven DEF Git!HasLocalMods, Git!ResetHard, Git!Clean, Git!FetchRepo, Git!At, GitInv, GitFound
<1>2. {"status", "clean"} \subseteq Git!Unnoticed /\ {"clean", "fetch", "resethard", "switch"} \subseteq Git!Places
  BY DEF Git!Unnoticed, Git!Places
<1>3. CASE Git!HasLocalMods
  <2>1. run.at = "mods"
    BY <1>3 DEF Git!HasLocalMods, Git!At
  <2>2. \/ (d = Missing \/ run.task.bare \/ d.dirty = {}) /\ Git!Goto("fetch")
        \/ Git!Fails("status", "fetch")
        \/ run.task.force /\ Git!Goto("resethard")
        \/ Git!Refuse /\ d # Missing /\ d.dirty # {}
    BY <1>3 DEF Git!HasLocalMods, Git!dest, Git!t
  <2>3. ASSUME NEW r, d = Missing \/ run.task.bare \/ d.dirty = {} \/ "status" \in r.failed
        PROVE GitFound("fetch", d, actual.remote, r, run.task, run.disturbed)
    BY <1>1, <2>1, <2>3 DEF GitFound, Fetched
  <2>4. run.task.force => GitFound("resethard", d, actual.remote, run.read, run.task, run.disturbed)
    BY <1>1, <2>1 DEF GitFound, Fetched
  <2> QED
    BY <1>1, <1>2, <2>2, <2>3, <2>4, GitGoes, GitFails, GitEnds DEF GitBlocked
(* Only by force is anything removed here.                                 *)
<1>4. ASSUME NEW lost \in SUBSET Git!Work, NEW place \in {"clean", "fetch"}, d # Missing,
             run.at \in {"resethard", "clean"}, place = "clean" \/ run.at = "clean",
             Git!Changes(place, [actual EXCEPT !.dest.dirty = @ \ lost])
      PROVE GitInv' /\ GitRespects
  <2> DEFINE left == d.dirty \ lost
             new == [d EXCEPT !.dirty = left]
  <2>1. Git!Changes(place, [actual EXCEPT !.dest = new])
    <3>1. [actual EXCEPT !.dest.dirty = @ \ lost] = [actual EXCEPT !.dest = new]
      BY GitGiven DEF Git!Hosts
    <3> QED
      BY <1>4, <3>1
  <2>2. left \in SUBSET Git!Work
    BY <1>1, <1>4 DEF Git!Checkouts
  <2> HIDE DEF left
  <2>3. new \in Git!Checkouts /\ new.shape = d.shape
    BY <1>1, <1>4, <2>2 DEF Git!Checkouts
  <2> HIDE DEF new
  <2>4. GitFound(place, new, actual.remote, run.read, run.task, run.disturbed) /\ GitKeeps(new)
    BY <1>1, <1>4, <2>3, HostAssumption DEF GitFound, GitKeeps, Repository, Fetched
  <2> QED
    BY <1>2, <1>4, <2>1, <2>3, <2>4, GitMoves
<1>5. CASE Git!ResetHard
  <2>1. /\ run.at = "resethard" /\ {"edited"} \in SUBSET Git!Work
        /\ \/ d = Missing /\ Git!Refuse
           \/ d # Missing /\ Git!Changes("clean", [actual EXCEPT !.dest.dirty = @ \ {"edited"}])
    BY <1>5 DEF Git!ResetHard, Git!At, Git!dest, Git!Work
  <2> QED
    BY <1>1, <1>4, <2>1, GitEnds
<1>6. CASE Git!Clean
  <2>1. /\ run.at = "clean" /\ {"untracked"} \in SUBSET Git!Work
        /\ \/ Git!Fails("clean", "fetch")
           \/ d # Missing /\ Git!Changes("fetch", [actual EXCEPT !.dest.dirty = @ \ {"untracked"}])
    BY <1>6 DEF Git!Clean, Git!At, Git!dest, Git!Work
  <2>2. \A r : GitFound("fetch", d, actual.remote, r, run.task, run.disturbed)
    BY <1>1, <2>1 DEF GitFound, Fetched
  <2> QED
    BY <1>2, <1>4, <2>1, <2>2, GitFails
<1>7. CASE Git!FetchRepo
  <2> DEFINE r == [run.read EXCEPT !.fetched = actual.remote]
  <2>1. \/ d = Missing /\ Git!Refuse
        \/ Step("switch", actual, r, run.changed)
    BY <1>7, GitIsARun DEF Git!FetchRepo, Git!Reads, Git!now, Git!dest
  <2>2. run.at = "fetch"
    BY <1>7 DEF Git!FetchRepo, Git!At
  <2>3. r \in Git!Reading /\ r.fetched = actual.remote /\ r.failed = run.read.failed
    BY <1>1, GitGiven DEF Git!Reading, Git!Remotes
  <2> HIDE DEF r
  <2>4. GitFound("switch", d, actual.remote, r, run.task, run.disturbed)
    BY <1>1, <2>2, <2>3 DEF GitFound, GitInv, Fetched
  <2> QED
    BY <1>1, <1>2, <2>1, <2>3, <2>4, GitGiven, GitStep, GitEnds
<1> QED
  BY <1>3, <1>5, <1>6, <1>7

(* Once the version is there, a run knows no more than that a checkout is. *)
LEMMA GitDone ==
    \A place \in {"submodules", "pin", "after", "blind"} : \A d, remote, r, task, disturbed :
       d # Missing \/ disturbed => GitFound(place, d, remote, r, task, disturbed)
<1> TAKE place \in {"submodules", "pin", "after", "blind"}
<1> TAKE d, remote, r, task, disturbed
<1>1. place \notin {"resethard", "clean", "url", "mods", "fetch", "clone", "cloning"} \union Fetched
  BY DEF Fetched
<1> QED
  BY <1>1 DEF GitFound, Fetched

LEMMA GitSwitches == GitInv /\ Git!SwitchVersion => GitInv' /\ GitRespects
<1> SUFFICES ASSUME GitInv, Git!SwitchVersion PROVE GitInv' /\ GitRespects
  OBVIOUS
<1> DEFINE d == actual.dest
<1>1. /\ run.at = "switch" /\ run.read \in Git!Reading
      /\ GitFound("switch", d, actual.remote, run.read, run.task, run.disturbed)
      /\ (d = Missing => run.disturbed)
      /\ run.task.version \in {"HEAD", "sha"} \union Git!Branches
  BY GitGiven DEF Git!SwitchVersion, Git!At, GitInv, GitFound, Git!Requests
<1>2. \/ d = Missing /\ Git!Refuse
      \/ d # Missing /\ Git!Goto("after")
      \/ d # Missing /\ Git!Goto("submodules")
      \/ d # Missing /\ Git!Fails("branch", "submodules")
      \/ d # Missing /\ ~run.task.bare /\ d.branch # "" /\ Git!Goto("ancestor")
      \/ ~run.task.bare /\ run.task.version = "sha" /\ Git!Goto("version")
      \/ ~run.task.bare /\ run.task.version \in Git!Branches /\ Git!Goto("branch")
      \/ ~run.task.bare /\ run.task.version \in Git!Branches /\ Git!Fails("remote", "version")
  BY <1>1 DEF Git!SwitchVersion, Git!dest, Git!t
<1>3. /\ d # Missing /\ ~run.task.bare /\ d.branch # "" =>
           GitFound("ancestor", d, actual.remote, run.read, run.task, run.disturbed)
      /\ ~run.task.bare /\ run.task.version \in Git!Branches =>
           GitFound("branch", d, actual.remote, run.read, run.task, run.disturbed)
  BY <1>1 DEF GitFound, Fetched
<1>4. ASSUME ~run.task.bare, run.task.version \in Git!Branches \union {"sha"}, NEW r,
             r.fetched = run.read.fetched, run.read.failed \subseteq r.failed
      PROVE GitFound("version", d, actual.remote, r, run.task, run.disturbed)
  BY <1>1, <1>4 DEF GitFound, Fetched
<1>5. /\ {"branch", "remote"} \subseteq Git!Unnoticed
      /\ {"after", "submodules", "ancestor", "version", "branch"} \subseteq Git!Places
  BY DEF Git!Unnoticed, Git!Places
<1> QED
  BY <1>1, <1>2, <1>3, <1>4, <1>5, GitDone, GitGoes, GitFails, GitEnds

(* What is checked out is what was there, or what the remote has.          *)
LEMMA GitMade ==
    ASSUME GitInv, run.at \in {"branch", "version"}, actual.dest # Missing,
           NEW b \in Git!Branches
    PROVE /\ Git!Made(b) \in Git!Checkouts /\ Git!Made(b) # Missing /\ GitKeeps(Git!Made(b))
          /\ actual.dest.heads[b] # Git!NoCommit =>
               GitFound("ancestor", Git!Made(b), actual.remote, run.read, run.task, run.disturbed)
<1> DEFINE d == actual.dest
           c == IF d.heads[b] = Git!NoCommit THEN run.read.fetched[b] ELSE d.heads[b]
           made == [d EXCEPT !.branch = b, !.heads[b] = c]
<1>1. /\ d \in Git!Checkouts
      /\ GitFound(run.at, d, actual.remote, run.read, run.task, run.disturbed)
  BY GitGiven DEF GitInv
<1>2. run.read.fetched[b] \in Published /\ run.read.fetched[b] \in Git!Commits
  BY <1>1, GitAncestors DEF GitFound, Fetched
<1>3. c \in Git!Commits
  BY <1>1, <1>2 DEF Git!Checkouts
<1>4. Git!Made(b) = made
  BY <1>1 DEF Git!Made, Git!dest, Git!now, Git!Checkouts
<1>5. d.heads[b] # Git!NoCommit => c = d.heads[b]
  OBVIOUS
<1> HIDE DEF c
<1>6. /\ made \in Git!Checkouts /\ made.dirty = d.dirty /\ made.shape = d.shape /\ made.branch = b
      /\ made.heads[b] = c /\ \A g \in Git!Branches \ {b} : made.heads[g] = d.heads[g]
  BY <1>1, <1>3 DEF Git!Checkouts
<1> HIDE DEF made
<1>7. GitKeeps(made) /\ made # Missing
  BY <1>5, <1>6, GitAncestors, HostAssumption DEF GitKeeps
<1>8. GitFound("ancestor", made, actual.remote, run.read, run.task, run.disturbed)
  BY <1>1, <1>6, <1>7 DEF GitFound, Fetched, Repository, Git!Branches
<1> QED
  BY <1>4, <1>6, <1>7, <1>8

LEMMA GitChecksOut ==
    ASSUME GitInv, Git!CheckoutBranch \/ Git!CheckoutVersion PROVE GitInv' /\ GitRespects
<1> DEFINE d == actual.dest
           v == run.task.version
           pinned == [d EXCEPT !.branch = "", !.commit = Git!First]
<1>1. /\ run.at \in {"branch", "version"} /\ run.at # "idle"
      /\ GitFound(run.at, d, actual.remote, run.read, run.task, run.disturbed)
      /\ (d = Missing => run.disturbed) /\ (d # Missing => d \in Git!Checkouts)
      /\ run.at = "branch" => v \in Git!Branches
      /\ run.at = "version" => v \in Git!Branches \union {"sha"}
  BY GitGiven DEF Git!CheckoutBranch, Git!CheckoutVersion, Git!At, GitInv, GitFound
<1>2. \/ d = Missing /\ Git!Refuse
      \/ d # Missing /\ d.dirty # {} /\ Git!Refuse
      \/ d # Missing /\ v \in Git!Branches /\ Git!Checkout("submodules", Git!Made(v))
      \/ d # Missing /\ v \in Git!Branches /\ d.heads[v] # Git!NoCommit
           /\ Git!Checkout("ancestor", Git!Made(v))
      \/ d # Missing /\ Git!Checkout("submodules", pinned)
  BY <1>1 DEF Git!CheckoutBranch, Git!CheckoutVersion, Git!At, Git!InTheWay, Git!dest, Git!t
<1>3. d # Missing => pinned \in Git!Checkouts /\ GitKeeps(pinned) /\ pinned # Missing
  <2>1. d # Missing => pinned \in Git!Checkouts
    BY <1>1, GitSettings
  <2>2. d # Missing => pinned.dirty = d.dirty /\ pinned.heads = d.heads
    BY <1>1 DEF Git!Checkouts
  <2> HIDE DEF pinned
  <2> QED
    BY <2>1, <2>2, HostAssumption DEF GitKeeps
<1> HIDE DEF pinned
<1>4. {"submodules", "ancestor"} \subseteq Git!Places
  BY DEF Git!Places
<1> QED
  BY <1>1, <1>2, <1>3, <1>4, GitMade, GitDone, GitMoves, GitEnds DEF GitBlocked

LEMMA GitResets ==
    ASSUME GitInv, Git!CheckAncestor \/ Git!ResetToRemoteBranch PROVE GitInv' /\ GitRespects
<1> DEFINE d == actual.dest
<1>1. /\ run.at \in {"ancestor", "reset"} /\ run.read \in Git!Reading
      /\ GitFound(run.at, d, actual.remote, run.read, run.task, run.disturbed)
      /\ (d = Missing => run.disturbed) /\ (d # Missing => d \in Git!Checkouts)
      /\ d # Missing /\ d.branch = "" => run.disturbed
  BY GitGiven DEF Git!CheckAncestor, Git!ResetToRemoteBranch, Git!At, GitInv, GitFound
<1>2. CASE Git!CheckAncestor
  <2>1. run.at = "ancestor"
    BY <1>2 DEF Git!CheckAncestor, Git!At
  <2>2. \/ (d = Missing \/ d.branch = "") /\ Git!Refuse
        \/ /\ d # Missing /\ d.branch # ""
           /\ \/ /\ run.task.force \/ Git!IsAncestor(Git!Head(d), run.read.fetched[d.branch])
                 /\ Git!Goto("reset")
              \/ ~Git!IsAncestor(Git!Head(d), run.read.fetched[d.branch]) /\ Git!Refuse
    BY <1>2 DEF Git!CheckAncestor, Git!dest, Git!t, Git!now
  <2>3. run.task.force \/ Git!IsAncestor(Git!Head(d), run.read.fetched[d.branch]) =>
          GitFound("reset", d, actual.remote, run.read, run.task, run.disturbed)
    BY <1>1, <2>1 DEF GitFound, Fetched
  <2>4. ASSUME d # Missing, d.branch # "", ~Git!IsAncestor(Git!Head(d), run.read.fetched[d.branch]),
               ~run.disturbed
        PROVE GitBlocked
    <3>1. d.branch \in Git!Branches /\ Git!Head(d) = d.heads[d.branch]
      BY <1>1, <2>4 DEF Git!Checkouts, Git!Head
    <3>2. d.heads[d.branch] # Git!NoCommit
      BY <2>4, <3>1, GitAncestors
    <3>3. run.read.fetched = actual.remote
      BY <1>1, <2>1, <2>4 DEF GitFound, Fetched
    <3> QED
      BY <2>4, <3>1, <3>2, <3>3 DEF GitBlocked
  <2> QED
    BY <1>1, <2>2, <2>3, <2>4, GitGoes, GitEnds DEF Git!Places
<1>3. CASE Git!ResetToRemoteBranch
  <2> DEFINE b == d.branch
             c == run.read.fetched[b]
             left == d.dirty \ {"edited"}
             new == [d EXCEPT !.heads[b] = c, !.dirty = left]
  <2>1. run.at = "reset"
    BY <1>3 DEF Git!ResetToRemoteBranch, Git!At
  <2>2. \/ (d = Missing \/ d.branch = "") /\ Git!Refuse
        \/ d # Missing /\ d.branch # "" /\ Git!Checkout("submodules", new)
    BY <1>1, <1>3 DEF Git!Checkouts, Git!ResetToRemoteBranch, Git!dest, Git!now
  <2>3. d # Missing => left \in SUBSET Git!Work
    BY <1>1 DEF Git!Checkouts
  <2>5. d.dirty \ left \subseteq {"edited"} /\ (d.dirty = {} => left = {})
    OBVIOUS
  <2> HIDE DEF left
  <2>4. ASSUME d # Missing, d.branch # "" PROVE new \in Git!Checkouts /\ GitKeeps(new)
    <3>1. b \in Git!Branches
      BY <1>1, <2>4 DEF Git!Checkouts
    <3>2. c \in Published /\ c \in Git!Commits
      BY <1>1, <2>1, <3>1, GitAncestors DEF GitFound, Fetched
    <3>3. /\ new \in Git!Checkouts /\ new.dirty = left
          /\ \A g \in Git!Branches : g # b => new.heads[g] = d.heads[g]
      BY <1>1, <2>3, <2>4, <3>1, <3>2 DEF Git!Checkouts
    <3>4. ASSUME ~run.disturbed, ~run.task.force
          PROVE (d.dirty = {} \/ "status" \in run.read.failed) /\ d.heads[b] # Git!Local
      <4>1. (d.dirty = {} \/ "status" \in run.read.failed) /\ Git!IsAncestor(Git!Head(d), c)
        BY <1>1, <2>1, <3>4 DEF GitFound, Fetched
      <4>2. Git!Head(d) = d.heads[b]
        BY <2>4 DEF Git!Head
      <4> QED
        BY <3>2, <4>1, <4>2, GitAncestors
    <3> HIDE DEF new
    <3> QED
      BY <2>5, <3>3, <3>4 DEF GitKeeps
  <2> HIDE DEF new
  <2> QED
    BY <1>1, <2>2, <2>4, GitDone, GitMoves, GitEnds, HostAssumption DEF Git!Places
<1> QED
  BY <1>2, <1>3

LEMMA GitFinishes ==
    ASSUME GitInv, Git!UpdateSubmodules \/ Git!Pin PROVE GitInv' /\ GitRespects
<1> DEFINE d == actual.dest
<1>1. /\ run.at # "idle" /\ run.read \in Git!Reading
      /\ (d = Missing => run.disturbed) /\ (d # Missing => d \in Git!Checkouts)
  BY GitGiven DEF Git!UpdateSubmodules, Git!Pin, Git!At, GitInv, GitFound
<1>2. ASSUME NEW new \in Git!Checkouts, NEW place \in {"submodules", "after"}, d # Missing,
             Git!Checkout(place, new), new.dirty = d.dirty, new.heads = d.heads
      PROVE GitInv' /\ GitRespects
  <2>1. new # Missing /\ GitKeeps(new)
    BY <1>2, HostAssumption DEF GitKeeps
  <2> QED
    BY <1>1, <1>2, <2>1, GitDone, GitMoves DEF Git!Places
<1>3. CASE Git!UpdateSubmodules
  <2> DEFINE submodules == d.submodules \/ Git!Head(d) # Git!NoCommit
             new == [d EXCEPT !.submodules = submodules]
  <2>1. \/ Git!Goto("after")
        \/ d = Missing /\ Git!Refuse
        \/ d # Missing /\ Git!Checkout("after", new)
    <3>1. d # Missing => new = [d EXCEPT !.submodules = @ \/ Git!Head(d) # Git!NoCommit]
      BY <1>1 DEF Git!Checkouts
    <3> QED
      BY <1>3, <3>1 DEF Git!UpdateSubmodules, Git!dest
  <2>2. submodules \in BOOLEAN
    OBVIOUS
  <2> HIDE DEF submodules
  <2>3. d # Missing => new \in Git!Checkouts /\ new.dirty = d.dirty /\ new.heads = d.heads
    BY <1>1, <2>2 DEF Git!Checkouts
  <2> HIDE DEF new
  <2> QED
    BY <1>1, <1>2, <2>1, <2>3, GitDone, GitGoes, GitEnds DEF Git!Places
<1>4. CASE Git!Pin
  <2> DEFINE new == [d EXCEPT !.branch = "", !.commit = Git!First]
  <2>1. \/ d = Missing /\ Git!Refuse
        \/ d # Missing /\ \E place \in {"submodules", "after"} : Git!Checkout(place, new)
    BY <1>4 DEF Git!Pin, Git!dest
  <2>2. d # Missing => new \in Git!Checkouts
    BY <1>1, GitSettings
  <2>3. d # Missing => new.dirty = d.dirty /\ new.heads = d.heads
    BY <1>1 DEF Git!Checkouts
  <2> HIDE DEF new
  <2> QED
    BY <1>1, <1>2, <2>1, <2>2, <2>3, GitEnds
<1> QED
  BY <1>3, <1>4

LEMMA GitClones ==
    ASSUME GitInv, Git!Clone \/ Git!FinishClone \/ Git!CloneFails PROVE GitInv' /\ GitRespects
<1> DEFINE d == actual.dest
<1>1. /\ run.at \in {"clone", "cloning"} /\ run.read \in Git!Reading
      /\ GitFound(run.at, d, actual.remote, run.read, run.task, run.disturbed)
      /\ (d # Missing => d \in Git!Checkouts)
  BY GitGiven DEF Git!Clone, Git!FinishClone, Git!CloneFails, Git!At, GitInv
<1>2. CASE Git!Clone
  <2>1. run.at = "clone"
    BY <1>2 DEF Git!Clone, Git!At
  <2>2. \/ d # Missing /\ Git!Refuse
        \/ d = Missing /\ \E shape \in {"bare", "separate", "plain"} : Git!Checkout("cloning", Git!Empty(shape))
    BY <1>2 DEF Git!Clone, Git!dest
  <2>3. d # Missing => run.disturbed \/ GitBlocked
    BY <1>1, <2>1 DEF GitFound, GitBlocked
  <2>4. ASSUME NEW shape \in {"bare", "separate", "plain"}
        PROVE /\ Git!Empty(shape) \in Git!Checkouts
              /\ GitFound("cloning", Git!Empty(shape), actual.remote, run.read, run.task, run.disturbed)
    <3>1. Git!Empty(shape) \in Git!Checkouts
      BY DEF Git!Empty, Git!Checkouts, Git!Branches, Git!Version, Git!Work
    <3>2. \A b \in Git!Branches : Git!Empty(shape).heads[b] = Git!NoCommit
      BY DEF Git!Empty
    <3> QED
      BY <3>1, <3>2, HostAssumption DEF GitFound, Fetched
  <2>5. d = Missing => \A x : GitKeeps(x)
    BY DEF GitKeeps
  <2> QED
    BY <1>1, <2>2, <2>3, <2>4, <2>5, GitMoves, GitEnds DEF Git!Places
<1>3. CASE Git!FinishClone
  <2> DEFINE b == Git!Version(IF run.task.version = "sha" THEN "HEAD" ELSE run.task.version)
             c == actual.remote[b]
             submodules == run.task.recursive
             new == [d EXCEPT !.branch = b, !.heads[b] = c, !.submodules = submodules]
  <2>1. run.at = "cloning"
    BY <1>3 DEF Git!FinishClone, Git!At
  <2>2. \/ d = Missing /\ Git!Refuse
        \/ d # Missing /\ \E place \in {"pin", "after", "submodules"} :
                             Git!Changes(place, [actual EXCEPT !.dest = new])
    <3>1. [actual EXCEPT !.dest.branch = b, !.dest.heads[b] = c, !.dest.submodules = submodules]
          = [actual EXCEPT !.dest = new]
      <4>1. actual = [remote |-> actual.remote, dest |-> actual.dest]
        BY GitGiven DEF Git!Hosts
      <4> HIDE DEF b, c, submodules
      <4> QED
        BY <4>1
    <3> QED
      BY <1>3, <3>1 DEF Git!FinishClone, Git!dest, Git!t
  <2>3. b \in Git!Branches /\ submodules \in BOOLEAN
    BY GitGiven DEF Git!Version, Git!Branches, Git!Requests
  <2> HIDE DEF b, submodules
  <2>4. c \in Git!Commits
    BY <2>3, GitGiven DEF Git!Remotes
  <2> HIDE DEF c
  <2>5. ASSUME d # Missing PROVE new \in Git!Checkouts /\ GitKeeps(new) /\ new # Missing
    <3>1. d \in Git!Checkouts
      BY <1>1, <2>5
    <3>2. new \in Git!Checkouts
      BY <2>3, <2>4, <3>1 DEF Git!Checkouts
    <3>3. new.dirty = d.dirty
      BY <3>1 DEF Git!Checkouts
    <3>4. ~run.disturbed => \A g \in Git!Branches : d.heads[g] # Git!Local
      BY <1>1, <2>1, GitAncestors DEF GitFound
    <3> HIDE DEF new
    <3> QED
      BY <3>2, <3>3, <3>4, HostAssumption DEF GitKeeps
  <2> HIDE DEF new
  <2>6. d = Missing => run.disturbed
    BY <1>1, <2>1 DEF GitFound
  <2> QED
    BY <1>1, <2>2, <2>5, <2>6, GitDone, GitMoves, GitEnds DEF Git!Places
<1>4. CASE Git!CloneFails
  <2>1. actual' \in Git!Hosts /\ actual'.dest = Missing /\ actual'.remote = actual.remote
    BY <1>4, GitGiven DEF Git!CloneFails, Git!Hosts
  <2>2. Ends("failed", FALSE) /\ memo' \in Memos
    BY <1>4, GitIsARun DEF Git!CloneFails, Memos, NoMemo, Forecasts
  <2>3. RunTyped(Git!Hosts, GitTasks, Git!Places, Git!Reading)' /\ run'.at = "idle" /\ run'.reply = "failed"
    BY <2>1, <2>2, RunEnds DEF GitInv, Replies
  <2> QED
    BY <2>1, <2>3 DEF GitInv, GitRespects, Git!KeepsWork, Git!Recovers
<1> QED
  BY <1>2, <1>3, <1>4

LEMMA GitOutside == GitInv /\ Git!Outside => GitInv' /\ GitRespects
<1> SUFFICES ASSUME GitInv, Git!Outside PROVE GitInv' /\ GitRespects
  OBVIOUS
<1> DEFINE d == actual.dest
           Fair(a) == a \in Git!Hosts /\ \A b \in Git!Branches : a.remote[b] \in Published
<1>1. PICK a : Interferes(a) /\ Fair(a)
  <2> DEFINE Goal == \E a : Interferes(a) /\ Fair(a)
  <2>1. ASSUME NEW m \in Git!Mains, Interferes([actual EXCEPT !.remote["main"] = m]) PROVE Goal
    <3> DEFINE remote == [actual.remote EXCEPT !["main"] = m]
               a == [actual EXCEPT !.remote = remote]
    <3>1. m \in Published /\ m \in Git!Commits /\ "main" \in Git!Branches
      BY GitAncestors DEF Published, Git!Branches
    <3>2. remote \in Git!Remotes /\ \A b \in Git!Branches : remote[b] \in Published
      BY <3>1, GitGiven DEF Git!Remotes, GitInv
    <3>3. Interferes(a)
      BY <2>1
    <3> HIDE DEF remote
    <3>4. Fair(a)
      BY <3>2, GitGiven DEF Git!Hosts
    <3> QED
      BY <3>3, <3>4
  <2>2. ASSUME NEW new \in Git!Checkouts \union {Missing}, Interferes([actual EXCEPT !.dest = new]) PROVE Goal
    <3>1. Fair([actual EXCEPT !.dest = new])
      BY GitGiven DEF Git!Hosts, GitInv
    <3> QED
      BY <2>2, <3>1
  <2> HIDE DEF Goal, Fair
  <2>3. ASSUME d # Missing
        PROVE /\ \A w \in Git!Work : [d EXCEPT !.dirty = @ \union {w}] \in Git!Checkouts
              /\ [d EXCEPT !.url = "other"] \in Git!Checkouts
              /\ d.branch # "" => [d EXCEPT !.heads[d.branch] = Git!Local] \in Git!Checkouts
    <3>1. d \in Git!Checkouts /\ Git!Local \in Git!Commits
      BY <2>3, GitGiven DEF Git!Local, Git!Commits
    <3>2. d.branch # "" => d.branch \in Git!Branches
      BY <3>1 DEF Git!Checkouts
    <3> QED
      BY <3>1, <3>2 DEF Git!Checkouts
  <2>4. /\ \A w : [actual EXCEPT !.dest.dirty = @ \union {w}]
                    = [actual EXCEPT !.dest = [d EXCEPT !.dirty = @ \union {w}]]
        /\ [actual EXCEPT !.dest.url = "other"] = [actual EXCEPT !.dest = [d EXCEPT !.url = "other"]]
        /\ [actual EXCEPT !.dest.heads[d.branch] = Git!Local]
           = [actual EXCEPT !.dest = [d EXCEPT !.heads[d.branch] = Git!Local]]
    BY GitGiven DEF Git!Hosts
  <2>5. Goal
    BY <2>1, <2>2, <2>3, <2>4, GitIsARun DEF Git!Outside, Git!dest
  <2> QED
    BY <2>5 DEF Goal
<1>2. /\ RunTyped(Git!Hosts, GitTasks, Git!Places, Git!Reading)' /\ actual' = a
      /\ run'.at = run.at /\ run'.read = run.read /\ run'.task = run.task
      /\ run.at = "idle" \/ run'.disturbed
  <2>1. a \in Git!Hosts /\ Interferes(a)
    BY <1>1
  <2> QED
    BY <2>1, RunInterferes DEF GitInv
<1>3. GitInv'
  <2>1. CASE run.at # "idle"
    <3>1. GitFound(run.at, d, actual.remote, run.read, run.task, run.disturbed)
      BY <2>1 DEF GitInv
    <3>2. GitFound(run.at, a.dest, a.remote, run.read, run.task, run'.disturbed)
      BY <1>2, <2>1, <3>1 DEF GitFound, Fetched
    <3> QED
      BY <1>1, <1>2, <3>2 DEF GitInv
  <2> QED
    BY <1>1, <1>2, <2>1 DEF GitInv
<1>4. Git!KeepsWork
  BY <1>2 DEF Git!KeepsWork, Git!Idle, Git!At
<1>5. Git!Recovers
  BY <1>2 DEF Git!Recovers, Git!Answers, Git!Idle, Git!At
<1> QED
  BY <1>3, <1>4, <1>5 DEF GitRespects

LEMMA GitNext == GitInv /\ [Git!Next]_vars => GitInv' /\ GitRespects
<1> SUFFICES ASSUME GitInv, [Git!Next]_vars PROVE GitInv' /\ GitRespects
  OBVIOUS
<1>1. CASE Git!Finish \/ Git!CallError \/ Git!Killed
  <2>1. CASE Git!At("after") /\ Git!Fails("after", "blind")
    <3>1. /\ run.at # "idle" /\ "after" \in Git!Unnoticed /\ "blind" \in Git!Places
          /\ actual.dest # Missing \/ run.disturbed
      BY <2>1 DEF Git!At, Git!Unnoticed, Git!Places, GitInv, GitFound
    <3>2. \A r : GitFound("blind", actual.dest, actual.remote, r, run.task, run.disturbed)
      BY <3>1, GitDone
    <3> QED
      BY <2>1, <3>1, <3>2, GitFails
  <2>2. CASE \/ Git!CallError \/ Git!Killed \/ \E head : Git!Answered(head)
    BY <2>2, GitEnds DEF Git!CallError, Git!CallFails, Git!Killed
  <2> QED
    BY <1>1, <2>1, <2>2 DEF Git!Finish
<1> QED
  BY <1>1, GitStart, GitLooks, GitPrepares, GitSwitches, GitChecksOut, GitResets, GitFinishes,
     GitClones, GitOutside
  DEF Git!Next, Git!Steps

LEMMA GitSafe == GitInv => Git!TypeOK
  BY DEF GitInv, RunTyped, RunStates, Git!TypeOK, Git!Memos, Memos, Git!Forecasts, Forecasts,
     Git!RunStates, Git!Replies, Replies, Git!Checking, Checking

-----------------------------------------------------------------------------
(* apt.                                                                    *)

AptTyped == RunTyped(Apt!Hosts, AptTasks, Apt!Places, Apt!Reading)

LEMMA AptGiven ==
    AptTyped =>
      /\ actual \in Apt!Hosts /\ run.changed \in BOOLEAN /\ "idle" \notin Apt!Places
      /\ run.at \in Apt!Places \union {"idle"} /\ run.disturbed \in BOOLEAN
      /\ run.at # "idle" => run.read \in Apt!Reading
      /\ run.task \in Apt!Requests /\ Needs \in [Packages -> SUBSET Packages]
  BY HostAssumption DEF AptTyped, RunTyped, RunStates, Idle, At, Apt!Places, Apt!TaskAssumption

LEMMA AptInit == Apt!Init => AptTyped
<1> SUFFICES ASSUME Apt!Init PROVE AptTyped
  OBVIOUS
<1> DEFINE R == [pkg : {[p \in Packages |-> "absent"]}, published : {"old"}, lists : {"none"},
                 young : BOOLEAN, auto : {{}}]
<1>1. InitRuns(R, AptTasks)
  BY AptIsARun DEF Apt!Init
<1>2. R \subseteq Apt!Hosts
  BY DEF Apt!Hosts, Apt!PackageStates, Apt!Installed
<1> HIDE DEF R
<1>3. RunTyped(Apt!Hosts, AptTasks, Apt!Places, Apt!Reading)
  BY <1>1, <1>2, RunInit
<1> QED
  BY <1>3 DEF AptTyped

LEMMA AptStep ==
    ASSUME AptTyped, NEW place \in Apt!Places, NEW a \in Apt!Hosts, NEW r \in Apt!Reading,
           NEW c \in BOOLEAN, Step(place, a, r, c)
    PROVE AptTyped'
  BY AptGiven, RunStep DEF AptTyped

LEMMA AptGoes ==
    ASSUME AptTyped, run.at # "idle", NEW place \in Apt!Places, Apt!Goto(place)
    PROVE AptTyped'
<1>1. Step(place, actual, run.read, run.changed)
  BY AptIsARun DEF Apt!Goto
<1> QED
  BY <1>1, AptGiven, AptStep

LEMMA AptEnds ==
    ASSUME AptTyped, \/ \E c \in BOOLEAN : Apt!Answer(c)
                     \/ \E reply \in Replies : Apt!Stops(reply)
                     \/ Apt!Refuse
    PROVE AptTyped'
  BY AptIsARun, RunStops, RunAnswers DEF AptTyped, Replies, Apt!Refuse

LEMMA AptStart == AptTyped /\ (UNCHANGED vars \/ Apt!Start) => AptTyped'
<1> SUFFICES ASSUME AptTyped, UNCHANGED vars \/ Apt!Start PROVE AptTyped'
  OBVIOUS
<1>1. CASE UNCHANGED vars
  BY <1>1 DEF vars, AptTyped, RunTyped, Idle, At, Checking
<1>2. CASE Apt!Start
  <2>1. PICK task \in AptTasks :
          Begin(task, "apply", IF task.update THEN "cache" ELSE "query", Apt!Nothing)
    BY <1>2, AptIsARun DEF Apt!Start
  <2> DEFINE place == IF task.update THEN "cache" ELSE "query"
  <2>2. Apt!Nothing \in Apt!Reading /\ place \in Apt!Places
    BY DEF Apt!Nothing, Apt!Reading, Apt!PackageStates, Apt!Places
  <2> QED
    BY <2>1, <2>2, AptGiven, RunBegin DEF AptTyped
<1> QED
  BY <1>1, <1>2

LEMMA AptLists == ASSUME AptTyped, Apt!CheckCache \/ Apt!UpdateCache PROVE AptTyped'
<1>1. run.at \in {"cache", "update"} /\ run.read \in Apt!Reading
  BY AptGiven DEF Apt!CheckCache, Apt!UpdateCache, Apt!At
<1>2. CASE Apt!CheckCache
  BY <1>1, <1>2, AptGoes DEF Apt!CheckCache, Apt!Places
<1>3. CASE Apt!UpdateCache
  <2> DEFINE yes == TRUE
  <2>1. PICK known \in {actual.published, actual.lists} \ {"none"} :
          Step("query", [actual EXCEPT !.lists = known, !.young = yes], run.read, TRUE)
    BY <1>3, AptIsARun DEF Apt!UpdateCache, Apt!Changes
  <2>2. yes \in BOOLEAN
    OBVIOUS
  <2> HIDE DEF yes
  <2> DEFINE a == [actual EXCEPT !.lists = known, !.young = yes]
  <2>3. a \in Apt!Hosts
    BY <2>1, <2>2, AptGiven DEF Apt!Hosts, Apt!Installed
  <2>4. Step("query", a, run.read, TRUE)
    BY <2>1
  <2> HIDE DEF a
  <2> QED
    BY <1>1, <2>3, <2>4, AptStep DEF Apt!Places
<1> QED
  BY <1>2, <1>3

LEMMA AptQuery == AptTyped /\ Apt!Query => AptTyped'
<1> SUFFICES ASSUME AptTyped, Apt!Query PROVE AptTyped'
  OBVIOUS
<1> DEFINE r == [run.read EXCEPT !.todo = Apt!Asked]
<1>1. run.at = "query" /\ run.read \in Apt!Reading
  BY AptGiven DEF Apt!Query, Apt!At
<1>2. \/ Apt!Answer(run.changed) \/ Apt!Refuse \/ Apt!Goto("plan")
      \/ Step("plan", actual, r, run.changed)
  BY AptIsARun DEF Apt!Query, Apt!Reads, Apt!now
<1>3. Apt!Asked \in SUBSET Packages
  <2>1. run.task.packages \in SUBSET Packages
    BY AptGiven DEF Apt!Requests
  <2> QED
    BY <2>1 DEF Apt!Asked, Apt!t
<1>4. r \in Apt!Reading
  BY <1>1, <1>3 DEF Apt!Reading
<1> HIDE DEF r
<1>5. "plan" \in Apt!Places /\ run.changed \in BOOLEAN /\ actual \in Apt!Hosts
  BY AptGiven DEF Apt!Places
<1>6. ASSUME Apt!Answer(run.changed) \/ Apt!Refuse PROVE AptTyped'
  BY <1>5, <1>6, AptEnds
<1>7. ASSUME Apt!Goto("plan") PROVE AptTyped'
  BY <1>1, <1>5, <1>7, AptGoes
<1>8. ASSUME Step("plan", actual, r, run.changed) PROVE AptTyped'
  BY <1>4, <1>5, <1>8, AptStep
<1> QED
  BY <1>2, <1>6, <1>7, <1>8

(* A package may go to another state.                                      *)
LEMMA AptPut ==
    ASSUME AptTyped, NEW p \in Packages, NEW s \in Apt!PackageStates
    PROVE [actual EXCEPT !.pkg[p] = s] \in Apt!Hosts
  BY AptGiven DEF Apt!Hosts

(* What apt-get makes of the packages.                                     *)
LEMMA AptGoal ==
    ASSUME AptTyped, run.at = "plan", ~(actual.lists = "none" /\ Apt!ToInstall # {})
    PROVE /\ Apt!Goal \in [Packages -> Apt!PackageStates]
          /\ Apt!ToInstall \in SUBSET Packages
<1>1. /\ actual.pkg \in [Packages -> Apt!PackageStates] /\ run.read.todo \in SUBSET Packages
      /\ actual.lists \in Apt!Installed \union {"none"}
      /\ Needs \in [Packages -> SUBSET Packages]
  BY AptGiven DEF Apt!Hosts, Apt!Reading
<1>2. Apt!ToInstall \in SUBSET Packages
  BY <1>1 DEF Apt!ToInstall, Apt!Needed, Apt!now
<1>3. ASSUME NEW p \in Packages
      PROVE (IF p \in Apt!ToInstall THEN actual.lists
             ELSE IF p \in Apt!ToUpgrade THEN "new"
             ELSE IF p \in Apt!ToRemove THEN (IF run.task.purge THEN "absent" ELSE "config")
             ELSE actual.pkg[p]) \in Apt!PackageStates
  BY <1>1 DEF Apt!PackageStates, Apt!Installed
<1> QED
  BY <1>2, <1>3 DEF Apt!Goal, Apt!t, Apt!pkg

LEMMA AptPlan == AptTyped /\ Apt!Plan => AptTyped'
<1> SUFFICES ASSUME AptTyped, Apt!Plan PROVE AptTyped'
  OBVIOUS
<1>1. run.at = "plan" /\ run.read \in Apt!Reading
  BY AptGiven DEF Apt!Plan, Apt!At
<1> DEFINE auto == (actual.auto \ (run.read.todo \union Apt!ToRemove))
                   \union (Apt!ToInstall \ run.read.todo)
           r == [run.read EXCEPT !.goal = Apt!Goal, !.says = Apt!SaysChanged, !.auto = auto]
<1>2. CASE Apt!Refuse
  BY <1>2, AptEnds
<1>3. ASSUME NEW p \in Packages, NEW s \in Apt!PackageStates, Awaited([actual EXCEPT !.pkg[p] = s])
      PROVE AptTyped'
  <2> DEFINE a == [actual EXCEPT !.pkg[p] = s]
  <2>1. a \in Apt!Hosts
    BY <1>3, AptPut
  <2>3. Awaited(a)
    BY <1>3
  <2> HIDE DEF a
  <2>2. RunTyped(Apt!Hosts, AptTasks, Apt!Places, Apt!Reading)'
    BY <2>1, <2>3, RunInterferes DEF AptTyped
  <2> QED
    BY <2>2 DEF AptTyped
<1>4. ASSUME ~(actual.lists = "none" /\ Apt!ToInstall # {}), Step("get", actual, r, run.changed)
      PROVE AptTyped'
  <2>1. Apt!Goal \in [Packages -> Apt!PackageStates] /\ auto \in SUBSET Packages
    BY <1>1, <1>4, AptGoal, AptGiven DEF Apt!Hosts
  <2>2. Apt!SaysChanged \in BOOLEAN
    BY DEF Apt!SaysChanged
  <2> HIDE DEF auto
  <2>3. r \in Apt!Reading
    BY <1>1, <2>1, <2>2 DEF Apt!Reading
  <2> HIDE DEF r
  <2> QED
    BY <1>4, <2>3, AptGiven, AptStep DEF Apt!Places
<1>5. \/ Apt!Refuse
      \/ \E p \in Packages, s \in {"new", "old"} : Awaited([actual EXCEPT !.pkg[p] = s])
      \/ ~(actual.lists = "none" /\ Apt!ToInstall # {}) /\ Step("get", actual, r, run.changed)
  BY AptIsARun DEF Apt!Plan, Apt!Reads, Apt!now
<1>6. {"new", "old"} \subseteq Apt!PackageStates
  BY DEF Apt!PackageStates
<1> HIDE DEF r
<1> QED
  BY <1>2, <1>3, <1>4, <1>5, <1>6

LEMMA AptGet == ASSUME AptTyped, Apt!RunAptGet \/ Apt!Finish PROVE AptTyped'
<1>1. /\ run.at = "get" /\ run.read \in Apt!Reading
  BY AptGiven DEF Apt!RunAptGet, Apt!Finish, Apt!At
<1>2. CASE Apt!RunAptGet
  <2>1. PICK p \in Packages, young \in {TRUE, actual.young} :
          Step("get", [actual EXCEPT !.pkg[p] = IF @ = "half" THEN run.read.goal[p] ELSE "half",
                                     !.young = young], run.read, run.changed)
    BY <1>2, AptIsARun DEF Apt!RunAptGet, Apt!now
  <2> DEFINE s == IF actual.pkg[p] = "half" THEN run.read.goal[p] ELSE "half"
             a == [actual EXCEPT !.pkg[p] = s, !.young = young]
  <2>2. s \in Apt!PackageStates /\ young \in BOOLEAN
    BY <1>1, <2>1, AptGiven DEF Apt!Reading, Apt!PackageStates, Apt!Hosts
  <2>3. Step("get", a, run.read, run.changed)
    <3>1. [actual EXCEPT !.pkg[p] = IF @ = "half" THEN run.read.goal[p] ELSE "half",
                         !.young = young] = a
      BY AptGiven DEF Apt!Hosts
    <3> QED
      BY <2>1, <3>1
  <2> HIDE DEF s
  <2>4. a \in Apt!Hosts
    BY <2>2, AptGiven DEF Apt!Hosts
  <2> HIDE DEF a
  <2> QED
    BY <1>1, <2>3, <2>4, AptGiven, AptStep DEF Apt!Places
<1>3. CASE Apt!Finish
  <2> DEFINE a == [actual EXCEPT !.auto = run.read.auto]
             c == run.changed \/ run.read.says
  <2>1. Step("get", a, run.read, run.changed) \/ Apt!Answer(c)
    BY <1>3, AptIsARun DEF Apt!Finish, Apt!now
  <2>2. a \in Apt!Hosts /\ c \in BOOLEAN
    BY <1>1, AptGiven DEF Apt!Hosts, Apt!Reading
  <2> HIDE DEF a, c
  <2> QED
    BY <1>1, <2>1, <2>2, AptGiven, AptStep, AptEnds DEF Apt!Places
<1> QED
  BY <1>2, <1>3

LEMMA AptOutside == AptTyped /\ Apt!Outside => AptTyped'
<1> SUFFICES ASSUME AptTyped, Apt!Outside PROVE AptTyped'
  OBVIOUS
<1>1. PICK a \in Apt!Hosts : Interferes(a)
  <2> DEFINE Goal == \E a \in Apt!Hosts : Interferes(a)
  <2>1. ASSUME Interferes([actual EXCEPT !.published = "new"]) PROVE Goal
    <3>1. [actual EXCEPT !.published = "new"] \in Apt!Hosts
      BY AptGiven DEF Apt!Hosts, Apt!Installed
    <3> QED
      BY <2>1, <3>1
  <2>2. ASSUME Interferes([actual EXCEPT !.young = FALSE]) PROVE Goal
    <3>1. [actual EXCEPT !.young = FALSE] \in Apt!Hosts
      BY AptGiven DEF Apt!Hosts
    <3> QED
      BY <2>2, <3>1
  <2>5. ASSUME Interferes([actual EXCEPT !.lists = "none", !.young = TRUE]) PROVE Goal
    <3> DEFINE yes == TRUE
               a == [actual EXCEPT !.lists = "none", !.young = yes]
    <3>1. yes \in BOOLEAN
      OBVIOUS
    <3> HIDE DEF yes
    <3>2. a \in Apt!Hosts
      BY <3>1, AptGiven DEF Apt!Hosts
    <3> QED
      BY <2>5, <3>2 DEF yes
  <2>3. ASSUME NEW p \in Packages, NEW s \in {"absent", "config", "old"}, NEW these,
               Interferes([actual EXCEPT !.auto = @ \ {p},
                             !.pkg = [r \in Packages |-> IF r \in these THEN s ELSE @[r]]])
        PROVE Goal
    <3> DEFINE pkg == [r \in Packages |-> IF r \in these THEN s ELSE actual.pkg[r]]
               auto == actual.auto \ {p}
               a == [actual EXCEPT !.auto = auto, !.pkg = pkg]
    <3>1. pkg \in [Packages -> Apt!PackageStates] /\ auto \in SUBSET Packages
      BY AptGiven DEF Apt!Hosts, Apt!PackageStates
    <3>2. Interferes(a)
      <4>1. a = [actual EXCEPT !.auto = @ \ {p},
                   !.pkg = [r \in Packages |-> IF r \in these THEN s ELSE @[r]]]
        BY AptGiven DEF Apt!Hosts
      <4> QED
        BY <2>3, <4>1
    <3> HIDE DEF pkg, auto
    <3>3. a \in Apt!Hosts
      BY <3>1, AptGiven DEF Apt!Hosts
    <3> HIDE DEF a
    <3> QED
      BY <3>2, <3>3
  <2> HIDE DEF Goal
  <2>6. \/ Interferes([actual EXCEPT !.published = "new"])
        \/ Interferes([actual EXCEPT !.young = FALSE])
        \/ Interferes([actual EXCEPT !.lists = "none", !.young = TRUE])
        \/ \E p \in Packages, s \in {"absent", "config", "old"} : \E these :
              Interferes([actual EXCEPT !.auto = @ \ {p},
                            !.pkg = [r \in Packages |-> IF r \in these THEN s ELSE @[r]]])
    <3>1. CASE Interferes([actual EXCEPT !.published = "new"])
      BY <3>1
    <3>2. CASE Interferes([actual EXCEPT !.young = FALSE])
      BY <3>2
    <3>3. CASE Interferes([actual EXCEPT !.lists = "none", !.young = TRUE])
      BY <3>3
    <3>4. ASSUME NEW p \in Packages, NEW s \in {"absent", "config", "old"},
                 LET these == IF s = "old" THEN Apt!Needed({p}) \ Apt!Present
                              ELSE {r \in Packages : p \in Apt!Needed({r})}
                 IN Interferes([actual EXCEPT !.auto = @ \ {p},
                                  !.pkg = [r \in Packages |-> IF r \in these THEN s ELSE @[r]]])
          PROVE \E these : Interferes([actual EXCEPT !.auto = @ \ {p},
                              !.pkg = [r \in Packages |-> IF r \in these THEN s ELSE @[r]]])
      BY <3>4
    <3> QED
      BY <3>1, <3>2, <3>3, <3>4, AptIsARun DEF Apt!Outside
  <2>4. Goal
    BY <2>1, <2>2, <2>3, <2>5, <2>6
  <2> QED
    BY <2>4 DEF Goal
<1>2. RunTyped(Apt!Hosts, AptTasks, Apt!Places, Apt!Reading)'
  BY <1>1, RunInterferes DEF AptTyped
<1> QED
  BY <1>2 DEF AptTyped

LEMMA AptNext == AptTyped /\ [Apt!Next]_vars => AptTyped'
<1> SUFFICES ASSUME AptTyped, [Apt!Next]_vars PROVE AptTyped'
  OBVIOUS
<1>1. ASSUME Apt!CallError \/ Apt!Killed PROVE AptTyped'
  BY <1>1, AptEnds DEF Apt!CallError, Apt!CallFails, Apt!Killed, Replies
<1> QED
  BY <1>1, AptStart, AptLists, AptQuery, AptPlan, AptGet, AptOutside DEF Apt!Next, Apt!Steps

LEMMA AptSafe == AptTyped => Apt!TypeOK
  BY DEF AptTyped, RunTyped, RunStates, Apt!TypeOK, Apt!Memos, Memos, Apt!Forecasts, Forecasts,
     Apt!RunStates, Apt!Replies, Replies, Apt!Checking, Checking

-----------------------------------------------------------------------------
(* cron                                                                    *)

CronTyped == RunTyped(Cron!Hosts, CronTasks, Cron!Places, Cron!Reading)

LEMMA CronGiven ==
    CronTyped =>
      /\ actual \in Cron!Hosts /\ run.changed \in BOOLEAN /\ "idle" \notin Cron!Places
      /\ run.at \in Cron!Places \union {"idle"} /\ run.task \in Cron!Requests
      /\ run.at # "idle" => run.read \in Cron!Reading
      /\ Tables \subseteq Seq(Cron!Lines) \union {Missing} /\ Missing \notin Seq(Cron!Lines)
  BY HostAssumption DEF CronTyped, RunTyped, RunStates, Idle, At, Cron!Places, Cron!TaskAssumption

LEMMA CronInit == Cron!Init => CronTyped
<1> SUFFICES ASSUME Cron!Init PROVE CronTyped
  OBVIOUS
<1>1. InitRuns([Cron!Kinds -> Tables], CronTasks)
  BY CronIsARun DEF Cron!Init
<1>2. [Cron!Kinds -> Tables] \subseteq Cron!Hosts
  BY HostAssumption DEF Cron!Hosts, Cron!TaskAssumption
<1> QED
  BY <1>1, <1>2, RunInit DEF CronTyped

LEMMA CronStep ==
    ASSUME CronTyped, NEW place \in Cron!Places, NEW a \in Cron!Hosts, NEW r \in Cron!Reading,
           NEW c \in BOOLEAN, Step(place, a, r, c)
    PROVE CronTyped'
  BY CronGiven, RunStep DEF CronTyped

LEMMA CronGoes ==
    ASSUME CronTyped, run.at # "idle", NEW place \in Cron!Places,
           Cron!Goto(place) \/ Cron!Reports(place)
    PROVE CronTyped'
<1>1. Step(place, actual, run.read, run.changed) \/ Step(place, actual, run.read, TRUE)
  BY CronIsARun DEF Cron!Goto, Cron!Reports
<1> QED
  BY <1>1, CronGiven, CronStep

LEMMA CronEnds ==
    ASSUME CronTyped, \/ \E c \in BOOLEAN : Cron!Answer(c)
                      \/ \E reply \in Replies : Cron!Stops(reply)
                      \/ Cron!Refuse
    PROVE CronTyped'
  BY CronIsARun, RunStops, RunAnswers DEF CronTyped, Replies, Cron!Refuse

(* A table changes as one.                                                 *)
LEMMA CronPut ==
    ASSUME CronTyped, NEW k \in Cron!Kinds, NEW x \in Seq(Cron!Lines) \union {Missing}
    PROVE [actual EXCEPT ![k] = x] \in Cron!Hosts
  BY CronGiven DEF Cron!Hosts

LEMMA CronStart == CronTyped /\ (UNCHANGED vars \/ Cron!Start) => CronTyped'
<1> SUFFICES ASSUME CronTyped, UNCHANGED vars \/ Cron!Start PROVE CronTyped'
  OBVIOUS
<1>1. CASE UNCHANGED vars
  BY <1>1 DEF vars, CronTyped, RunTyped, Idle, At, Checking
<1>2. CASE Cron!Start
  <2>1. PICK task \in CronTasks : Begin(task, "apply", "arguments", Cron!Nothing)
    BY <1>2, CronIsARun DEF Cron!Start
  <2>2. Cron!Nothing \in Cron!Reading /\ "arguments" \in Cron!Places
    BY DEF Cron!Nothing, Cron!Reading, Cron!Places
  <2> QED
    BY <2>1, <2>2, CronGiven, RunBegin DEF CronTyped
<1> QED
  BY <1>1, <1>2

(* Leaving lines out of a table makes a table,                             *)
LEMMA CronWithout ==
    ASSUME NEW lines \in Seq(Cron!Lines), NEW out
    PROVE Cron!Without(lines, out) \in Seq(Cron!Lines)
<1> DEFINE lists == [i \in DOMAIN lines |-> IF i \in out THEN <<>> ELSE <<lines[i]>>]
<1>1. lists \in Seq(Seq(Cron!Lines))
  <2> DEFINE S == Cron!Lines
             n == Len(lines)
  <2>1. n \in Nat /\ DOMAIN lines = 1 .. n /\ \A i \in 1 .. n : lines[i] \in S
    OBVIOUS
  <2>2. \A i \in 1 .. n : lists[i] \in Seq(S)
    <3> HIDE DEF S, n
    <3> QED
      BY <2>1
  <2> HIDE DEF n
  <2>3. lists \in [1 .. n -> Seq(S)]
    BY <2>1, <2>2
  <2> HIDE DEF lists, S
  <2> QED
    BY <2>1, <2>3, IsASeq DEF S
<1>2. Cron!FlattenSeq(lists) = Lists!FlattenSeq(lists)
  BY DEF Cron!FlattenSeq, Lists!FlattenSeq
<1>3. Cron!Without(lines, out) = Cron!FlattenSeq(lists)
  BY DEF Cron!Without
<1> HIDE DEF lists
<1> QED
  BY <1>1, <1>2, <1>3, FlattenType

(* the first of some places is one of them,                                *)
LEMMA CronFirst ==
    ASSUME NEW n \in Nat, NEW I \in SUBSET (1 .. n)
    PROVE Cron!FirstOf(I) \in I \union {0}
<1>1. CASE I = {}
  BY <1>1 DEF Cron!FirstOf
<1>2. CASE I # {}
  <2>1. \E i \in I : \A j \in I : i <= j
    <3>1. I \subseteq Nat
      OBVIOUS
    <3> QED
      BY <1>2, <3>1, Least
  <2>2. Cron!Min(I) \in I
    BY <2>1 DEF Cron!Min
  <2> QED
    BY <1>2, <2>2 DEF Cron!FirstOf
<1> QED
  BY <1>1, <1>2

(* what a task asks for are lines,                                         *)
LEMMA CronAsked ==
    ASSUME CronTyped
    PROVE /\ Cron!GetCronJob(run.task) \in Cron!Lines /\ Cron!Declaration(run.task) \in Cron!Lines
          /\ Cron!Marker(run.task.name) \in Cron!Lines
<1> DEFINE q == run.task
           off == q.disabled
           user == q.file /\ q.user /\ ~q.special
           job == [special |-> q.special, off |-> off, user |-> user]
<1>1. /\ q.name \in Names /\ q.job \in Jobs /\ q.special \in BOOLEAN /\ off \in BOOLEAN
      /\ user \in BOOLEAN
  BY CronGiven DEF Cron!Requests
<1>2. job \in [special : BOOLEAN, user : BOOLEAN, off : BOOLEAN]
  <2> HIDE DEF user, off
  <2> QED
    BY <1>1
<1>3. Cron!GetCronJob(q) = <<"job", q.job, job>>
  BY DEF Cron!GetCronJob
<1>4. Cron!Declaration(q) = <<"env", q.name, q.job, [tight |-> TRUE]>>
  BY DEF Cron!Declaration
<1> DEFINE tight == [tight |-> TRUE]
<1>8. tight \in [tight : BOOLEAN]
  OBVIOUS
<1> HIDE DEF q, job, tight
<1>5. Cron!GetCronJob(q) \in Cron!Lines
  BY <1>1, <1>2, <1>3 DEF Cron!Lines, Cron!JobLines
<1>6. Cron!Declaration(q) \in Cron!Lines
  <2>1. Cron!Declaration(q) = <<"env", q.name, q.job, tight>>
    BY <1>4 DEF tight
  <2>2. <<"env", q.name, q.job, tight>> \in Cron!EnvLines
    BY <1>1, <1>8 DEF Cron!EnvLines
  <2> QED
    BY <2>1, <2>2 DEF Cron!Lines
<1>7. Cron!Marker(q.name) \in Cron!Lines
  BY <1>1 DEF Cron!Lines
<1> QED
  BY <1>5, <1>6, <1>7 DEF q

(* so what becomes of a table is one.                                      *)
LEMMA CronEdited ==
    ASSUME CronTyped, NEW lines \in Seq(Cron!Lines)
    PROVE Cron!Edited(lines) \in Seq(Cron!Lines)
<1> DEFINE n == run.task.name
           len == Len(lines)
<1>1. /\ Cron!GetCronJob(run.task) \in Cron!Lines /\ Cron!Declaration(run.task) \in Cron!Lines
      /\ Cron!Marker(n) \in Cron!Lines /\ len \in Nat /\ DOMAIN lines = 1 .. len
  BY CronAsked
<1>2. Cron!FindJob(lines, n) # 0 => Cron!FindJob(lines, n) + 1 \in 1 .. len
  <2> DEFINE I == {i \in 1 .. len - 1 : lines[i] = Cron!Marker(n)}
  <2>1. I \in SUBSET (1 .. len)
    BY <1>1
  <2>2. Cron!FirstOf(I) \in I \union {0}
    <3> HIDE DEF I
    <3> QED
      BY <1>1, <2>1, CronFirst
  <2>3. Cron!FindJob(lines, n) \in {0, Cron!FirstOf(I)}
    BY DEF Cron!FindJob
  <2> QED
    BY <1>1, <2>2, <2>3
<1>3. Cron!FindEnv(lines, n) # 0 => Cron!FindEnv(lines, n) \in 1 .. len
  <2> DEFINE I == {i \in DOMAIN lines : Cron!IsEnv(lines[i], n)}
  <2>1. I \in SUBSET (1 .. len)
    BY <1>1
  <2>2. Cron!FirstOf(I) \in I \union {0}
    <3> HIDE DEF I
    <3> QED
      BY <1>1, <2>1, CronFirst
  <2> QED
    BY <1>1, <2>1, <2>2 DEF Cron!FindEnv
<1>4. Cron!FindJob(lines, n) # 0 => Cron!UpdateJob(lines) \in Seq(Cron!Lines)
  BY <1>1, <1>2, ExceptSeq DEF Cron!UpdateJob, Cron!t
<1>5. Cron!FindEnv(lines, n) # 0 => Cron!UpdateEnv(lines) \in Seq(Cron!Lines)
  BY <1>1, <1>3, ExceptSeq DEF Cron!UpdateEnv, Cron!t
<1>6. Cron!RemoveJob(lines) \in Seq(Cron!Lines) /\ Cron!RemoveEnv(lines) \in Seq(Cron!Lines)
  BY CronWithout DEF Cron!RemoveJob, Cron!RemoveEnv
<1>7. Cron!AddEnv(lines) \in Seq(Cron!Lines)
  <2> DEFINE I == {i \in DOMAIN lines :
                     Cron!IsEnv(lines[i], run.task.anchor) /\ lines[i][4].tight}
             k == Cron!FirstOf(I)
             place == IF run.task.place = "top" \/ k = 0 THEN 1
                      ELSE IF run.task.place = "before" THEN k ELSE k + 1
             x == Cron!Declaration(run.task)
  <2>1. I \in SUBSET (1 .. len)
    BY <1>1
  <2>2. k \in I \union {0}
    <3> HIDE DEF I
    <3> QED
      BY <1>1, <2>1, CronFirst
  <2>3. place \in 1 .. len + 1
    <3> HIDE DEF I, k
    <3> QED
      BY <1>1, <2>1, <2>2
  <2>4. Cron!AddEnv(lines) = SubSeq(lines, 1, place - 1) \o <<x>> \o SubSeq(lines, place, len)
    BY DEF Cron!AddEnv, Cron!InsertAt, Cron!t
  <2> HIDE DEF place
  <2>5. \A i \in 1 .. place - 1 : lines[i] \in Cron!Lines
    BY <1>1, <2>3
  <2>6. \A i \in place .. len : lines[i] \in Cron!Lines
    BY <1>1, <2>3
  <2>7. SubSeq(lines, 1, place - 1) \in Seq(Cron!Lines)
    BY <2>3, <2>5, SubSeqProperties
  <2>8. SubSeq(lines, place, len) \in Seq(Cron!Lines)
    BY <1>1, <2>3, <2>6, SubSeqProperties
  <2>9. x \in Cron!Lines
    BY <1>1
  <2> HIDE DEF x
  <2> QED
    BY <2>4, <2>7, <2>8, <2>9
<1>8. lines \o <<Cron!Marker(n), Cron!GetCronJob(run.task)>> \in Seq(Cron!Lines)
  BY <1>1
<1> QED
  BY <1>4, <1>5, <1>6, <1>7, <1>8 DEF Cron!Edited, Cron!t

LEMMA CronReads == ASSUME CronTyped, Cron!Validate \/ Cron!Read \/ Cron!ListFails \/ Cron!Backup
                   PROVE CronTyped'
<1>1. /\ run.at \in {"arguments", "read", "backup"} /\ run.read \in Cron!Reading
      /\ {"read", "backup", "edit"} \subseteq Cron!Places
  BY CronGiven DEF Cron!Validate, Cron!Read, Cron!ListFails, Cron!Backup, Cron!At, Cron!Places
<1>2. CASE Cron!Validate \/ Cron!Backup
  BY <1>1, <1>2, CronGoes, CronEnds DEF Cron!Validate, Cron!Backup
<1>3. CASE Cron!Read
  <2> DEFINE was == Cron!LinesOf(Cron!table)
             lines == IF run.task.file THEN was ELSE Cron!WithoutHeaders(was)
             r == [was |-> was, lines |-> lines]
  <2>1. was \in Seq(Cron!Lines)
    BY CronGiven DEF Cron!LinesOf, Cron!table, Cron!kind, Cron!Hosts, Cron!Kinds
  <2>2. lines \in Seq(Cron!Lines)
    BY <2>1, CronWithout DEF Cron!WithoutHeaders
  <2>3. Step(Cron!AfterRead, actual, r, run.changed)
    BY <1>3, CronIsARun DEF Cron!Read, Cron!Reads, Cron!t
  <2>4. Cron!AfterRead \in Cron!Places
    BY DEF Cron!AfterRead, Cron!Places
  <2> HIDE DEF was, lines
  <2>5. r \in Cron!Reading
    BY <2>1, <2>2 DEF Cron!Reading
  <2> HIDE DEF r
  <2> QED
    BY <2>3, <2>4, <2>5, CronGiven, CronStep
<1>4. CASE Cron!ListFails
  <2> DEFINE place == Cron!AfterRead
             b == TRUE
  <2>1. place \in Cron!Places /\ place # "idle" /\ b \in BOOLEAN
    BY DEF Cron!AfterRead, Cron!Places
  <2>2. /\ run' = [run EXCEPT !.at = place, !.disturbed = b]
        /\ memo' = NoMemo /\ actual' = actual
    BY <1>4, CronIsARun DEF Cron!ListFails
  <2> HIDE DEF place, b
  <2>3. /\ run' \in RunStates(CronTasks, Cron!Places, Cron!Reading) /\ run'.at = place
        /\ run'.read = run.read /\ run'.mode = run.mode
    BY <2>1, <2>2 DEF CronTyped, RunTyped, RunStates
  <2>4. memo' \in Memos
    BY <2>2 DEF NoMemo, Memos, Forecasts
  <2> QED
    BY <1>1, <2>1, <2>2, <2>3, <2>4 DEF CronTyped, RunTyped, Idle, At, Checking
<1> QED
  BY <1>2, <1>3, <1>4

LEMMA CronEdits == CronTyped /\ Cron!Edit => CronTyped'
<1> SUFFICES ASSUME CronTyped, Cron!Edit PROVE CronTyped'
  OBVIOUS
<1>1. /\ run.at = "edit" /\ run.read \in Cron!Reading
      /\ {"remove", "truncate", "install"} \subseteq Cron!Places
  BY CronGiven DEF Cron!Edit, Cron!At, Cron!Places
<1> DEFINE lines == Cron!Edited(run.read.lines)
           r == [run.read EXCEPT !.lines = lines]
           place == IF run.task.file THEN "truncate" ELSE "install"
<1>2. lines \in Seq(Cron!Lines)
  BY <1>1, CronEdited DEF Cron!Reading
<1>3. Cron!Goto("remove") \/ Cron!Answer(FALSE) \/ Step(place, actual, r, run.changed)
  BY CronIsARun DEF Cron!Edit, Cron!Reads, Cron!now, Cron!t
<1> HIDE DEF lines
<1>4. r \in Cron!Reading /\ place \in Cron!Places
  BY <1>1, <1>2 DEF Cron!Reading
<1> HIDE DEF r, place
<1> QED
  BY <1>1, <1>3, <1>4, CronGiven, CronGoes, CronEnds, CronStep

LEMMA CronWrites ==
    ASSUME CronTyped, \/ Cron!RemoveFile \/ Cron!Install \/ Cron!Truncate \/ Cron!Fill
                      \/ Cron!Finish
    PROVE CronTyped'
<1>1. /\ run.at \in {"remove", "install", "truncate", "fill", "after"}
      /\ run.read.lines \in Seq(Cron!Lines) /\ run.read \in Cron!Reading
      /\ {"after", "fill"} \subseteq Cron!Places /\ Cron!kind \in Cron!Kinds
  BY CronGiven DEF Cron!RemoveFile, Cron!Install, Cron!Truncate, Cron!Fill, Cron!Finish, Cron!At,
     Cron!Places, Cron!Reading, Cron!kind, Cron!Kinds
<1>2. ASSUME NEW place \in Cron!Places, NEW x \in Seq(Cron!Lines) \union {Missing},
             Cron!Changes(place, [actual EXCEPT ![Cron!kind] = x])
      PROVE CronTyped'
  <2> DEFINE a == [actual EXCEPT ![Cron!kind] = x]
  <2>1. a \in Cron!Hosts
    BY <1>1, CronPut
  <2>2. Step(place, a, run.read, TRUE)
    BY <1>2, CronIsARun DEF Cron!Changes
  <2> HIDE DEF a
  <2> QED
    BY <1>1, <2>1, <2>2, CronStep
<1>3. CASE Cron!RemoveFile
  BY <1>1, <1>2, <1>3, CronEnds DEF Cron!RemoveFile
<1>4. CASE Cron!Install
  BY <1>1, <1>2, <1>4 DEF Cron!Install, Cron!now
<1>5. CASE Cron!Truncate
  <2>1. <<>> \in Seq(Cron!Lines)
    OBVIOUS
  <2> QED
    BY <1>1, <1>2, <1>5, <2>1 DEF Cron!Truncate
<1>6. CASE Cron!Fill
  BY <1>1, <1>2, <1>6, CronGoes DEF Cron!Fill, Cron!now
<1>7. CASE Cron!Finish
  BY <1>7, CronGiven, CronEnds DEF Cron!Finish
<1> QED
  BY <1>3, <1>4, <1>5, <1>6, <1>7

LEMMA CronNext == CronTyped /\ [Cron!Next]_vars => CronTyped'
<1> SUFFICES ASSUME CronTyped, [Cron!Next]_vars PROVE CronTyped'
  OBVIOUS
<1>1. ASSUME Cron!CallError \/ Cron!Killed PROVE CronTyped'
  BY <1>1, CronEnds DEF Cron!CallError, Cron!CallFails, Cron!Killed, Replies
<1>2. ASSUME Cron!Outside PROVE CronTyped'
  <2>1. PICK x \in Tables, k \in Cron!Kinds : Interferes([actual EXCEPT ![k] = x])
    BY <1>2, CronIsARun DEF Cron!Outside
  <2> DEFINE a == [actual EXCEPT ![k] = x]
  <2>2. a \in Cron!Hosts
    BY CronGiven, CronPut
  <2>3. Interferes(a)
    BY <2>1
  <2> HIDE DEF a
  <2> QED
    BY <2>2, <2>3, RunInterferes DEF CronTyped
<1> QED
  BY <1>1, <1>2, CronStart, CronReads, CronEdits, CronWrites DEF Cron!Next, Cron!Steps

LEMMA CronSafe == CronTyped => Cron!TypeOK
<1> SUFFICES ASSUME CronTyped PROVE Cron!TypeOK
  OBVIOUS
<1>1. /\ actual \in Cron!Hosts /\ memo \in Cron!Memos /\ ~Cron!Checking
      /\ run.read # Blank => run.read \in Cron!Reading
  BY DEF CronTyped, RunTyped, RunStates, Cron!Memos, Memos, Cron!Forecasts, Forecasts,
     Cron!Checking, Checking
<1>2. [run EXCEPT !.read = Blank] \in Cron!RunStates(CronTasks, Cron!Places, {})
  BY DEF CronTyped, RunTyped, RunStates, Cron!RunStates, Cron!Replies, Replies, Cron!Forecasts,
     Forecasts
<1> QED
  BY <1>1, <1>2 DEF Cron!TypeOK

-----------------------------------------------------------------------------
(* The module the agent runs keeps to its invariant, and the others are    *)
(* not concerned.                                                          *)
HostInv ==
    \/ module = "fetch" /\ FetchInv
    \/ module = "file" /\ ManageInv
    \/ module = "unarchive" /\ ArchiveInv
    \/ module = "user" /\ UserInv
    \/ module = "service" /\ UnitInv
    \/ module = "git" /\ GitInv
    \/ module = "cron" /\ CronTyped
    \/ module = "apt" /\ AptTyped

LEMMA HostStarts == Init => HostInv
  BY FetchInit, ManageInit, ArchiveInit, UserInit, UnitInit, GitInit, CronInit, AptInit
     DEF Init, HostInv

LEMMA HostSafe == HostInv => TypeOK
  BY FetchSafe, ManageSafe, ArchiveSafe, UserSafe, UnitSafe, GitSafe, CronSafe, AptSafe
     DEF HostInv, TypeOK

(* A step of the agent is one of the module it runs, or changes nothing.   *)
LEMMA HostSteps ==
    ASSUME HostInv, [Next]_all
    PROVE /\ module' = module
          /\ \/ module = "fetch" /\ FetchInv /\ [Fetch!Next]_vars
             \/ module = "file" /\ ManageInv /\ [Manage!Next]_vars
             \/ module = "unarchive" /\ ArchiveInv /\ [Archive!Next]_vars
             \/ module = "user" /\ UserInv /\ [User!Next]_vars
             \/ module = "service" /\ UnitInv /\ [Unit!Next]_vars
             \/ module = "git" /\ GitInv /\ [Git!Next]_vars
             \/ module = "cron" /\ CronTyped /\ [Cron!Next]_vars
             \/ module = "apt" /\ AptTyped /\ [Apt!Next]_vars
<1>1. CASE UNCHANGED all
  <2>1. module' = module /\ UNCHANGED vars
    BY <1>1 DEF all
  <2> QED
    BY <2>1 DEF HostInv
<1>2. CASE Next
  BY <1>2 DEF Next, HostInv
<1> QED
  BY <1>1, <1>2

LEMMA HostNext ==
    ASSUME HostInv, [Next]_all
    PROVE /\ HostInv'
          /\ module = "fetch" => FetchRespects
          /\ module = "file" => ManageRespects
          /\ module = "unarchive" => ArchiveRespects
          /\ module = "user" => UserRespects
          /\ module = "git" => GitRespects
<1>1. HostInv'
  BY HostSteps, FetchNext, ManageNext, ArchiveNext, UserNext, UnitNext, GitNext, CronNext, AptNext
     DEF HostInv
<1>2. module = "fetch" => FetchRespects
  BY HostSteps, FetchNext
<1>3. module = "file" => ManageRespects
  BY HostSteps, ManageNext
<1>4. module = "unarchive" => ArchiveRespects
  BY HostSteps, ArchiveNext
<1>5. module = "user" => UserRespects
  BY HostSteps, UserNext
<1>6. module = "git" => GitRespects
  BY HostSteps, GitNext
<1> QED
  BY <1>1, <1>2, <1>3, <1>4, <1>5, <1>6

(* Each module keeps to its states, whatever others do to the host and     *)
(* wherever a run fails or is killed.                                      *)
THEOREM HostTypes == Spec => []TypeOK
<1>1. HostInv /\ [Next]_all => HostInv'
  BY HostNext
<1> QED
  BY <1>1, HostStarts, HostSafe, PTL DEF Spec

(* What a run of file, unarchive or git leaves when it fails or is killed  *)
(* is something that the next run gets over.                               *)
THEOREM HostsRecover == Spec => Recovers
<1>1. HostInv /\ [Next]_all => HostInv'
  BY HostNext
<1>2. HostInv /\ [Next]_all =>
        [ /\ module = "file" => Manage!Recovers
          /\ module = "unarchive" => Archive!Recovers
          /\ module = "git" => Git!Recovers ]_all
  BY HostNext DEF ManageRespects, ArchiveRespects, GitRespects
<1> QED
  BY <1>1, <1>2, HostStarts, PTL DEF Spec, Recovers

(* fetch delivers the text whose sum it was told, and unarchive extracts   *)
(* the archive it hashed, whatever others do to the file and the archive,  *)
(* but for another upload of the archive after its check.                  *)
THEOREM HostsUseWhatTheyChecked == Spec => UsesWhatItChecked
<1>1. HostInv /\ [Next]_all => HostInv'
  BY HostNext
<1>2. HostInv /\ [Next]_all =>
        [ /\ module = "fetch" => Fetch!FetchesWhatItSaw
          /\ module = "unarchive" => Archive!ExtractsWhatWasHashed ]_all
  BY HostNext DEF ArchiveRespects, FetchRespects
<1> QED
  BY <1>1, <1>2, HostStarts, PTL DEF Spec, UsesWhatItChecked

(* No step takes away what is not the run's: work in a checkout (but for   *)
(* edits when git status failed), what is at a path without force, files   *)
(* an archive is not to touch, passwords that are set once, groups that    *)
(* are appended to.                                                        *)
THEOREM HostsKeepWhatIsOthers == Spec => KeepsWhatIsOthers
<1>1. HostInv /\ [Next]_all => HostInv'
  BY HostNext
<1>2. HostInv /\ [Next]_all =>
        [ /\ module = "file" => Manage!KeepsWhatIsThere
          /\ module = "unarchive" => Archive!KeepsTheRest
          /\ module = "user" => User!OnlyOnCreate /\ User!Appends
          /\ module = "git" => Git!KeepsWork ]_all
  BY HostNext DEF ManageRespects, ArchiveRespects, UserRespects, GitRespects
<1> QED
  BY <1>1, <1>2, HostStarts, PTL DEF Spec, KeepsWhatIsOthers

-----------------------------------------------------------------------------
(* What a task asks for holds or does not.                                 *)
LEMMA FetchHolds == \A task \in FetchTasks : \A h : Fetch!Satisfied(task, h) \in BOOLEAN
  BY DEF Fetch!Satisfied

LEMMA ManageHolds == \A task \in Manage!Requests : \A h : Manage!Satisfied(task, h) \in BOOLEAN
<1> SUFFICES ASSUME NEW task \in Manage!Requests, NEW h PROVE Manage!Satisfied(task, h) \in BOOLEAN
  OBVIOUS
<1>1. task.state \in {"absent", "directory", "file", "touch", "link", "hard", ""}
  BY DEF Manage!Requests, Manage!States
<1> QED
  BY <1>1 DEF Manage!Satisfied, Manage!Has

LEMMA ArchiveHolds == \A task, h : Archive!Satisfied(task, h) \in BOOLEAN
  BY DEF Archive!Satisfied

LEMMA UserHolds == \A task \in UserTasks : \A h : User!Satisfied(task, h) \in BOOLEAN
<1> SUFFICES ASSUME NEW task \in UserTasks, NEW h PROVE User!Satisfied(task, h) \in BOOLEAN
  OBVIOUS
<1> QED
  BY DEF User!Satisfied

(* The modules whose runs keep the contract for every task.                *)
Steady == {"fetch", "file", "unarchive", "user"}

LEMMA SteadyHolds == HostInv /\ module \in Steady => Holds \in BOOLEAN
<1> SUFFICES ASSUME HostInv, module \in Steady PROVE Holds \in BOOLEAN
  OBVIOUS
<1>1. CASE module = "fetch"
  BY <1>1, FetchHolds, FetchGiven DEF HostInv, Holds
<1>2. CASE module = "file"
  <2>1. run.task \in Manage!Requests
    BY <1>2, ManageGiven DEF HostInv
  <2> QED
    BY <1>2, <2>1, ManageHolds DEF Holds
<1>3. CASE module = "unarchive"
  BY <1>3, ArchiveHolds DEF Holds
<1>4. CASE module = "user"
  <2>1. run.task \in UserTasks
    BY <1>4 DEF HostInv, UserInv, UserTyped, RunTyped, RunStates
  <2> QED
    BY <1>4, <2>1, UserHolds DEF Holds
<1> QED
  BY <1>1, <1>2, <1>3, <1>4 DEF Steady

LEMMA SteadyNext ==
    ASSUME HostInv, [Next]_all, module \in Steady
    PROVE module' \in Steady /\ [Contract!Next]_(Contract!vars)
<1>1. module' = module /\ HostInv'
  BY HostSteps, HostNext
<1>2. Holds \in BOOLEAN /\ Holds' \in BOOLEAN
  <2>1. (HostInv /\ module \in Steady => Holds \in BOOLEAN)'
    BY SteadyHolds, PTL
  <2> QED
    BY <1>1, <2>1, SteadyHolds
<1>3. CASE module = "fetch"
  <2>1. FetchTyped /\ FetchTyped' /\ RunMoves /\ Truthful(Fetch!Satisfied(run.task, actual))
    BY <1>1, <1>3, HostNext DEF HostInv, FetchInv, FetchRespects
  <2>2. Truthful(Holds)
    BY <1>3, <2>1 DEF Holds
  <2> QED
    BY <1>1, <1>2, <1>3, <2>1, <2>2, RunContract DEF FetchTyped, Steady
<1>4. CASE module = "file"
  <2>1. /\ RunTyped(Manage!Hosts, ManageTasks, Manage!Places, ManageReads)
        /\ RunTyped(Manage!Hosts, ManageTasks, Manage!Places, ManageReads)'
        /\ RunMoves /\ Truthful(Manage!Satisfied(run.task, actual))
    BY <1>1, <1>4, HostNext DEF HostInv, ManageInv, ManageRespects
  <2>2. Truthful(Holds)
    BY <1>4, <2>1 DEF Holds
  <2> QED
    BY <1>1, <1>2, <1>4, <2>1, <2>2, RunContract DEF Steady
<1>5. CASE module = "unarchive"
  <2>1. /\ RunTyped(Archive!Hosts, ArchiveTasks, Archive!Places, Archive!Reading)
        /\ RunTyped(Archive!Hosts, ArchiveTasks, Archive!Places, Archive!Reading)'
        /\ RunMoves /\ Truthful(Archive!Satisfied(run.task, actual))
    BY <1>1, <1>5, HostNext DEF HostInv, ArchiveInv, ArchiveRespects
  <2>2. Truthful(Holds)
    BY <1>5, <2>1 DEF Holds
  <2> QED
    BY <1>1, <1>2, <1>5, <2>1, <2>2, RunContract DEF Steady
<1>6. CASE module = "user"
  <2>1. UserTyped /\ UserTyped' /\ RunMoves /\ Truthful(User!Satisfied(run.task, actual))
    BY <1>1, <1>6, HostNext DEF HostInv, UserInv, UserRespects
  <2>2. Truthful(Holds)
    BY <1>6, <2>1 DEF Holds
  <2> QED
    BY <1>1, <1>2, <1>6, <2>1, <2>2, RunContract DEF UserTyped, Steady
<1> QED
  BY <1>1, <1>3, <1>4, <1>5, <1>6 DEF Steady

LEMMA SteadyInit == Init /\ module \in Steady => Contract!Init
<1> SUFFICES ASSUME Init, module \in Steady PROVE Contract!Init
  OBVIOUS
<1>1. \E R, Asks : InitRuns(R, Asks)
  <2>1. CASE module = "fetch"
    BY <2>1, FetchIsARun DEF Init, Fetch!Init
  <2>2. CASE module = "file"
    BY <2>2, ManageIsARun DEF Init, Manage!Init
  <2>3. CASE module = "unarchive"
    BY <2>3, ArchiveIsARun DEF Init, Archive!Init
  <2>4. CASE module = "user"
    BY <2>4, UserIsARun DEF Init, User!Init
  <2> QED
    BY <2>1, <2>2, <2>3, <2>4 DEF Steady
<1>2. run.at = "idle" /\ run.reply = "none" /\ run.touched = FALSE /\ run.disturbed = FALSE
  BY <1>1 DEF InitRuns, Rest
<1>3. Holds \in BOOLEAN /\ module # "git"
  BY HostStarts, SteadyHolds DEF Steady
<1> QED
  BY <1>2, <1>3 DEF Contract!Init, RunPhase, RunAnswer, Idle, At

(* fetch, file, unarchive and user tell their callers the truth: a change  *)
(* they report left what the task asks for, no change means that it was so *)
(* and that nothing was touched, whatever others do between two runs,      *)
(* wherever a run fails, and for every task.                               *)
THEOREM HostsKeepContract == Spec /\ module \in Steady => KeepsContract
<1>1. HostInv /\ [Next]_all => HostInv'
  BY HostNext
<1>2. HostInv /\ [Next]_all /\ module \in Steady => (module \in Steady)' /\ [Contract!Next]_(Contract!vars)
  BY SteadyNext
<1> QED
  BY <1>1, <1>2, HostStarts, SteadyInit, PTL DEF Spec, KeepsContract, Contract!Spec

(* A task of theirs that was applied, and is applied again before others   *)
(* come between, changes nothing and reports no change.                    *)
THEOREM HostsSettle == Spec /\ module \in Steady => Idempotent
<1>1. HostInv /\ [Next]_all => HostInv'
  BY HostNext
<1>2. ASSUME HostInv, [Next]_all, module \in Steady
      PROVE /\ module' \in Steady
            /\ [ /\ module = "fetch" => Fetch!Idempotent
                 /\ module = "file" => Manage!Idempotent
                 /\ module = "unarchive" => Archive!Idempotent
                 /\ module = "user" => User!Idempotent
                 /\ module = "service" => Unit!Idempotent
                 /\ module = "git" => Git!Idempotent
                 /\ module = "cron" => Cron!Idempotent
                 /\ module = "apt" => Apt!Idempotent ]_all
  <2>1. module' = module
    BY <1>2, HostSteps
  <2>2. /\ module = "fetch" => Fetch!Idempotent
        /\ module = "file" => Manage!Idempotent
        /\ module = "unarchive" => Archive!Idempotent
        /\ module = "user" => User!Idempotent
    BY <1>2, HostNext DEF FetchRespects, ManageRespects, ArchiveRespects, UserRespects
  <2> QED
    BY <1>2, <2>1, <2>2 DEF Steady
<1>3. HostInv /\ [Next]_all /\ module \in Steady =>
        /\ (module \in Steady)'
        /\ [ /\ module = "fetch" => Fetch!Idempotent
             /\ module = "file" => Manage!Idempotent
             /\ module = "unarchive" => Archive!Idempotent
             /\ module = "user" => User!Idempotent
             /\ module = "service" => Unit!Idempotent
             /\ module = "git" => Git!Idempotent
             /\ module = "cron" => Cron!Idempotent
             /\ module = "apt" => Apt!Idempotent ]_all
  BY <1>2
<1> QED
  BY <1>1, <1>3, HostStarts, PTL DEF Spec, Idempotent

=============================================================================

----------------------------- MODULE ModuleRuns -----------------------------
(***************************************************************************)
(* What all modules of the agent have in common.  One process serves one   *)
(* request: it decodes the arguments, makes a sequence of calls (to the    *)
(* docker engine, the kernel, the file system) and writes one result.  The *)
(* managed resource is changed by others between any two calls, any call   *)
(* may fail, and the process may be killed between two calls.              *)
(***************************************************************************)
CONSTANT Blank   \* what is known between two runs

VARIABLES
    actual,  \* the managed resource, as it is on the host
    run,     \* the run in progress, or the last one
    memo     \* history: what the last runs of the same task promise

vars == <<actual, run, memo>>

Replies == {"none", "ok", "failed", "refused", "killed"}
Forecasts == {"none", "changed", "same"}
NoMemo == [forecast |-> "none", settled |-> FALSE]

(* The state of a run: where it is, what it read and decided (read), what  *)
(* it reports, and for the properties what it did to the resource, what    *)
(* others did meanwhile, and what the memo said when it started.           *)
RunStates(Tasks, Places, Reads) ==
    [at : Places \union {"idle"}, task : Tasks, mode : {"check", "apply"},
     read : Reads \union {Blank}, changed : BOOLEAN, reply : Replies, touched : BOOLEAN,
     disturbed : BOOLEAN, expect : Forecasts, again : BOOLEAN]

Memos == [forecast : Forecasts, settled : BOOLEAN]

Rest(t, nothing) ==
    [at |-> "idle", task |-> t, mode |-> "apply", read |-> nothing,
     changed |-> FALSE, reply |-> "none", touched |-> FALSE,
     disturbed |-> FALSE, expect |-> "none", again |-> FALSE]

InitRuns(Resources, Tasks) ==
    /\ actual \in Resources
    /\ run \in {Rest(t, Blank) : t \in Tasks}
    /\ memo = NoMemo

At(place) == run.at = place
Idle == At("idle")
Checking == run.mode = "check"

-----------------------------------------------------------------------------
(* Steps of a run.                                                         *)

(* The agent has read a request for task t and goes to its first place.    *)
Begin(t, m, place, nothing) ==
    LET known == IF t = run.task THEN memo ELSE NoMemo IN
    /\ Idle
    /\ run' = [Rest(t, nothing) EXCEPT !.at = place, !.mode = m,
                 !.expect = known.forecast, !.again = known.settled]
    /\ memo' = [known EXCEPT !.forecast = IF m = "apply" THEN "none" ELSE @]
    /\ UNCHANGED actual

(* A step that leaves the resource as a, having read r.                    *)
Step(place, a, r, c) ==
    /\ actual' = a
    /\ run' = [run EXCEPT !.at = place, !.read = r, !.changed = c,
                          !.touched = @ \/ a # actual]
    /\ memo' = IF a = actual THEN memo ELSE NoMemo

Goto(place) == Step(place, actual, run.read, run.changed)
Reads(place, r) == Step(place, actual, r, run.changed)
Changes(place, a) == Step(place, a, run.read, TRUE)
Reports(place) == Step(place, actual, run.read, TRUE)

(* The result is written and the process ends.                             *)
Ends(reply, c) ==
    run' = [run EXCEPT !.at = "idle", !.reply = reply, !.changed = c, !.read = Blank,
                       !.touched = FALSE, !.disturbed = FALSE]

Answer(c) ==
    /\ Ends("ok", c)
    /\ memo' = IF Checking
                 THEN [memo EXCEPT !.forecast =
                         IF run.disturbed THEN "none"
                         ELSE IF c THEN "changed" ELSE "same"]
                 ELSE [forecast |-> "none", settled |-> ~run.disturbed]
    /\ UNCHANGED actual

Stops(reply) ==
    /\ Ends(reply, FALSE)
    /\ UNCHANGED <<actual, memo>>

(* The module itself rejects the arguments or the state it found.          *)
Refuse == Stops("refused")

(* The call that is due at a place fails and the module gives up; or the   *)
(* process is killed or loses its connection before the call.              *)
CallFails(places) == run.at \in places /\ Stops("failed")
Killed == ~Idle /\ Stops("killed")

(* Somebody else changes the resource to a.                                *)
Interferes(a) ==
    /\ a # actual
    /\ actual' = a
    /\ run' = IF Idle THEN run ELSE [run EXCEPT !.disturbed = TRUE]
    /\ memo' = NoMemo

(* A bound: others act once in a run, and as often as they like before it. *)
Undisturbed == Idle \/ ~run.disturbed

(* Something the run waits for goes on by itself.                          *)
Awaited(a) == a # actual /\ actual' = a /\ memo' = NoMemo /\ UNCHANGED run

-----------------------------------------------------------------------------
(* What every module owes its callers, beside ModuleContract.              *)

(* The run as ModuleContract sees it.                                      *)
RunPhase == IF Idle THEN "idle" ELSE run.mode
RunAnswer ==
    IF ~Idle \/ run.reply = "none" THEN "none"
    ELSE IF run.reply # "ok" THEN "failed"
    ELSE IF run.changed THEN "changed" ELSE "same"

Answers == ~Idle /\ run'.at = "idle"
AnswersOK == Answers /\ run'.reply = "ok"

(* A dry run tells the truth: a real run of the task, if nothing happened  *)
(* since a check run of it answered, reports a change exactly when the     *)
(* check run announced one.                                                *)
Foretold ==
    AnswersOK /\ ~Checking /\ ~run.disturbed /\ run.expect # "none" =>
        (run'.changed <=> run.expect = "changed")

(* A task that was just applied and is applied again changes nothing and   *)
(* reports no change.                                                      *)
Unchanging ==
    AnswersOK /\ run.again /\ ~run.disturbed => ~run'.changed /\ ~run.touched

(* A run in which no call fails and with which nobody interferes does not  *)
(* end in a refusal: failed runs leave nothing the next one cannot handle. *)
Recovering == Answers /\ ~run.disturbed => run'.reply # "refused"

=============================================================================

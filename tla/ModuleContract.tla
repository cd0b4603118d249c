--------------------------- MODULE ModuleContract ---------------------------
(***************************************************************************)
(* What a playbook may rely on when one of its tasks runs a module, seen   *)
(* from outside the agent: whether the state the task asks for holds, what *)
(* the run did, and what its answer says of it.  Every detailed module of  *)
(* the agent is checked to implement this specification.                   *)
(***************************************************************************)
VARIABLES
    phase,      \* "idle", "check" (a run in check mode) or "apply"
    holds,      \* the state the task asks for holds on the host
    touched,    \* the current run changed the host
    disturbed,  \* somebody else changed the host during it
    answer      \* "none", "same", "changed" or "failed"

vars == <<phase, holds, touched, disturbed, answer>>

Init ==
    /\ phase = "idle" /\ holds \in BOOLEAN
    /\ touched = FALSE /\ disturbed = FALSE /\ answer = "none"

(* A task starts.  It may ask for something else than the last one.        *)
Start ==
    /\ phase = "idle"
    /\ phase' \in {"check", "apply"} /\ holds' \in BOOLEAN
    /\ touched' = FALSE /\ disturbed' = FALSE /\ answer' = "none"

(* Only a run that is not in check mode changes the host.                  *)
Touch ==
    /\ phase = "apply"
    /\ touched' = TRUE /\ holds' \in BOOLEAN
    /\ UNCHANGED <<phase, disturbed, answer>>

Others ==
    /\ disturbed' = (disturbed \/ phase # "idle") /\ holds' \in BOOLEAN
    /\ UNCHANGED <<phase, touched, answer>>

(* What a real run waits for.                                              *)
Awaited ==
    /\ phase = "apply" /\ holds' \in BOOLEAN
    /\ UNCHANGED <<phase, touched, disturbed, answer>>

(* "changed" of a real run: what was asked for now holds.                  *)
AnswerChanged ==
    /\ phase # "idle"
    /\ phase = "apply" /\ ~disturbed => holds
    /\ phase' = "idle" /\ answer' = "changed"
    /\ touched' = FALSE /\ disturbed' = FALSE
    /\ holds' \in BOOLEAN

(* "same": what was asked for holds, and it did before the run as well.    *)
AnswerSame ==
    /\ phase # "idle"
    /\ ~disturbed => holds /\ ~touched
    /\ phase' = "idle" /\ answer' = "same"
    /\ touched' = FALSE /\ disturbed' = FALSE
    /\ holds' \in BOOLEAN

(* A failure, or an agent that is killed, promises nothing.                *)
AnswerFailed ==
    /\ phase # "idle"
    /\ phase' = "idle" /\ answer' = "failed"
    /\ touched' = FALSE /\ disturbed' = FALSE
    /\ holds' \in BOOLEAN

Next == Start \/ Touch \/ Others \/ Awaited \/ AnswerChanged \/ AnswerSame \/ AnswerFailed

Spec == Init /\ [][Next]_vars

=============================================================================

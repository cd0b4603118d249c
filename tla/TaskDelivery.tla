---------------------------- MODULE TaskDelivery ----------------------------
(***************************************************************************)
(* What a task server and its daemon promise together: a task is executed  *)
(* at least once before it has an outcome, an outcome is recorded at most  *)
(* once and never revised, a task with an outcome is not handed out again, *)
(* and a success is only recorded for a task that was executed to its end. *)
(***************************************************************************)
CONSTANT Tasks

VARIABLES recorded, attempted, finished

vars == <<recorded, attempted, finished>>

Init ==
    /\ recorded = [t \in Tasks |-> "none"]
    /\ attempted = {} /\ finished = {}

Attempt(t) ==
    /\ recorded[t] = "none"
    /\ attempted' = attempted \cup {t}
    /\ UNCHANGED <<recorded, finished>>

Finish(t) ==
    /\ t \in attempted
    /\ finished' = finished \cup {t}
    /\ UNCHANGED <<recorded, attempted>>

Record(t, outcome) ==
    /\ recorded[t] = "none" /\ t \in attempted
    /\ outcome = "succeeded" => t \in finished
    /\ recorded' = [recorded EXCEPT ![t] = outcome]
    /\ UNCHANGED <<attempted, finished>>

Next ==
    \E t \in Tasks :
        \/ Attempt(t) \/ Finish(t)
        \/ \E outcome \in {"succeeded", "failed"} : Record(t, outcome)

Spec == Init /\ [][Next]_vars

=============================================================================

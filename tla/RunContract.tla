----------------------------- MODULE RunContract -----------------------------
(***************************************************************************)
(* What the deployment daemon may rely on when it calls controller.Run     *)
(* with Local = true: the fields of RunResult, the error, and the one      *)
(* effect that outlives the call, the reboot command that was issued.      *)
(***************************************************************************)
VARIABLES
    status,     \* "idle", "running", "done" (nil error) or "error"
    may,        \* RunOptions.AllowReboot
    failed,     \* RunResult.Failed
    initiated,  \* RunResult.RebootInitiated
    issued      \* a reboot command was issued on this machine by this call

vars == <<status, may, failed, initiated, issued>>

Call(allow) ==
    /\ status' = "running" /\ may' = allow
    /\ failed' = FALSE /\ initiated' = FALSE /\ issued' = FALSE

Init ==
    /\ status = "running" /\ may \in BOOLEAN
    /\ failed = FALSE /\ initiated = FALSE /\ issued = FALSE

(* A task or a handler fails.  Handlers run after a reboot was issued.     *)
Fail ==
    /\ status = "running"
    /\ failed' = TRUE
    /\ UNCHANGED <<status, may, initiated, issued>>

(* The reboot is issued once, by a run in which nothing failed before; the *)
(* result says so unless the reboot task itself is then counted as failed. *)
IssueReboot ==
    /\ status = "running" /\ may /\ ~failed /\ ~issued
    /\ issued' = TRUE
    /\ \/ initiated' = TRUE /\ failed' = FALSE
       \/ initiated' = FALSE /\ failed' = TRUE
    /\ UNCHANGED <<status, may>>

Return ==
    /\ status = "running"
    /\ status' = "done"
    /\ UNCHANGED <<may, failed, initiated, issued>>

(* The error of a run that could not be loaded or was cancelled between    *)
(* two tasks: nothing had failed and no reboot was issued.                 *)
ReturnError ==
    /\ status = "running" /\ ~failed /\ ~issued
    /\ status' = "error"
    /\ UNCHANGED <<may, failed, initiated, issued>>

Next == Fail \/ IssueReboot \/ Return \/ ReturnError

Spec == Init /\ [][Next]_vars

=============================================================================

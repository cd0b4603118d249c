--------------------------- MODULE MCDeployDaemon ---------------------------
(***************************************************************************)
(* The projects DeployDaemon is model-checked with: one of two playbooks,  *)
(* the last of which may reboot the machine, and one of a single playbook  *)
(* that does not.                                                          *)
(***************************************************************************)
EXTENDS DeployDaemon, TLC

CONSTANTS long, short

MCProject ==
    long  :> [playbooks |-> 2, reboots |-> TRUE] @@
    short :> [playbooks |-> 1, reboots |-> FALSE]

MCRebooting == long :> [playbooks |-> 2, reboots |-> TRUE]
MCPlain     == long :> [playbooks |-> 2, reboots |-> FALSE]

=============================================================================

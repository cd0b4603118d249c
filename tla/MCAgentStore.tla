---------------------------- MODULE MCAgentStore ----------------------------
(* Two processes that share a cache, one after the other and once together.*)
(* Six files: one for each name and one for each process.                  *)
EXTENDS AgentStore, TLC

CONSTANTS p1, p2

(* A daemon and a controller without --force-agent.                        *)
MCRequests ==
    { [kind |-> "daemon", force |-> FALSE, become |-> FALSE],
      [kind |-> "controller", force |-> FALSE, become |-> TRUE] }
(* With and without it, for the user itself and for one it becomes.        *)
MCForced ==
    MCRequests \union
    { [kind |-> "daemon", force |-> TRUE, become |-> FALSE],
      [kind |-> "controller", force |-> TRUE, become |-> FALSE] }
MCSymmetry == Permutations(Procs)
=============================================================================

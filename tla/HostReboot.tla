----------------------------- MODULE HostReboot -----------------------------
(***************************************************************************)
(* The task reboot.  The controller notes the boot identifier, has the     *)
(* host rebooted, closes its client and then opens one connection after    *)
(* the other until the identifier is another one and the test command      *)
(* succeeds, or the time is over.  The host goes down and comes back when  *)
(* it likes, also without being asked, and its /tmp with the agent may be  *)
(* empty then.  On the controller's own host nothing is waited for.        *)
(***************************************************************************)
EXTENDS Naturals, TLAPS

CONSTANTS
    MaxBoots,   \* bound: how often the host comes up
    Polls       \* bound: how many attempts fit in reboot_timeout

ASSUME Bounds == MaxBoots \in Nat \ {0} /\ Polls \in Nat

VARIABLES
    host,    \* the host: up or not, which boot, and whether the agent is there
    pc,
    local,   \* the controller runs on the host
    conn,    \* the boot in which the open connection was made, or Closed
    prev,    \* what the boot time command printed before
    left,    \* attempts until the deadline
    answer
vars == <<host, pc, local, conn, prev, left, answer>>

Closed == 0
Silence == 0   \* nothing was printed
Boots == 1 .. MaxBoots

TypeOK ==
    /\ host \in [up : BOOLEAN, boot : Boots, agent : BOOLEAN]
    /\ pc \in {"start", "read", "find", "issue", "wait", "connect", "poll", "test", "done"}
    /\ local \in BOOLEAN /\ conn \in Boots \union {Closed}
    /\ prev \in Boots \union {Silence} /\ left \in 0 .. Polls
    /\ answer \in {"none", "changed", "failed"}
    /\ (answer = "none") = (pc # "done")

Alive == host.up /\ conn = host.boot
(* The agent runs a shell command and prints its result.                   *)
Works == Alive /\ host.agent

Init ==
    /\ host = [up |-> TRUE, boot |-> 1, agent |-> TRUE]
    /\ pc = "start" /\ local \in BOOLEAN /\ conn = Closed
    /\ prev = Silence /\ left = Polls /\ answer = "none"

-----------------------------------------------------------------------------
(* executeReboot                                                           *)
Goto(place) == pc' = place /\ UNCHANGED <<host, local, answer>>
Return(a) == pc' = "done" /\ answer' = a /\ UNCHANGED <<local, prev, left>>

(* The runner has a client for the host and the agent is there.            *)
Start ==
    /\ pc = "start"
    /\ conn' = host.boot /\ Goto(IF local THEN "issue" ELSE "read") /\ UNCHANGED <<prev, left>>

(* A command that fails ends the task; one that prints nothing does not.   *)
ReadBootTime ==
    /\ pc = "read"
    /\ \/ Works /\ prev' \in {host.boot, Silence} /\ Goto("find") /\ UNCHANGED <<conn, left>>
       \/ Return("failed") /\ UNCHANGED <<host, conn>>

(* A search that fails goes on with the next path.                         *)
FindRebootCommand ==
    /\ pc = "find"
    /\ \/ Works /\ Goto("issue") /\ UNCHANGED <<conn, prev, left>>
       \/ Return("failed") /\ UNCHANGED <<host, conn>>

(* The result is ignored, the client closed; the host will go down, or not.*)
Issue ==
    /\ pc = "issue" /\ ~local
    /\ conn' = Closed /\ Goto("wait") /\ UNCHANGED <<prev, left>>
(* The agent's reboot module answers for the command; the shutdown may end *)
(* it before.                                                              *)
IssueLocally ==
    /\ pc = "issue" /\ local
    /\ \/ Works /\ Return("changed")
       \/ Return("failed")
    /\ UNCHANGED <<host, conn>>

WaitWithoutDeadline ==   \* mutant
    /\ pc = "wait" /\ left > 0
    /\ Goto("connect") /\ UNCHANGED <<conn, prev, left>>
(* An attempt takes five seconds, or longer.                               *)
Wait ==
    /\ pc = "wait" /\ left > 0
    /\ left' \in 0 .. left - 1 /\ Goto("connect") /\ UNCHANGED <<conn, prev>>
TimedOut == pc = "wait" /\ left = 0 /\ Return("failed") /\ UNCHANGED <<host, conn>>

Reconnect ==
    /\ pc = "connect"
    /\ \/ host.up /\ conn' = host.boot /\ Goto("poll")
       \/ UNCHANGED conn /\ Goto("wait")
    /\ UNCHANGED <<prev, left>>

Again == conn' = Closed /\ Goto("wait") /\ UNCHANGED <<prev, left>>

PollWithoutComparing ==   \* mutant
    /\ pc = "poll"
    /\ \/ Again
       \/ Works /\ Goto("test") /\ UNCHANGED <<conn, prev, left>>
PollOpen ==   \* mutant
    /\ pc = "poll"
    /\ \/ Goto("wait") /\ UNCHANGED <<conn, prev, left>>
       \/ Works /\ prev # host.boot /\ Goto("test") /\ UNCHANGED <<conn, prev, left>>
(* No answer, one that is no result, nothing, or the same as before.       *)
Poll ==
    /\ pc = "poll"
    /\ \/ Again
       \/ Works /\ prev # host.boot /\ Goto("test") /\ UNCHANGED <<conn, prev, left>>

TestCommand ==
    /\ pc = "test"
    /\ \/ Again
       \/ Works /\ conn' = Closed /\ Return("changed") /\ UNCHANGED host

Controller ==
    \/ Start \/ ReadBootTime \/ FindRebootCommand \/ Issue \/ IssueLocally \/ Wait \/ TimedOut
    \/ Reconnect \/ Poll \/ TestCommand

-----------------------------------------------------------------------------
(* The host                                                                *)

(* It goes down because it was asked to, or for reasons of its own.        *)
GoesDown ==
    /\ pc # "start" /\ host.up /\ host.boot < MaxBoots
    /\ host' = [host EXCEPT !.up = FALSE]
    /\ UNCHANGED <<pc, local, conn, prev, left, answer>>
ComesUp ==
    /\ ~host.up
    /\ \E kept \in BOOLEAN :
          host' = [host EXCEPT !.up = TRUE, !.boot = @ + 1, !.agent = @ /\ kept]
    /\ UNCHANGED <<pc, local, conn, prev, left, answer>>

Finished == pc = "done" /\ UNCHANGED vars
Next == Controller \/ GoesDown \/ ComesUp \/ Finished
Spec == Init /\ [][Next]_vars

(* The controller goes on: a session with a host that is down ends when    *)
(* TCP notices, and no call waits for anything else.                       *)
FairSpec == Spec /\ WF_vars(Controller)

-----------------------------------------------------------------------------
(* A remote host of which it is said that it rebooted has, since the       *)
(* identifier was read: the answer comes from a later boot, however long   *)
(* the old one goes on answering.  A boot time command that printed        *)
(* nothing before cannot tell.                                             *)
RebootedForReal ==
    [][ answer' = "changed" /\ answer = "none" /\ ~local /\ prev # Silence => host.boot > prev ]_vars

(* The wait holds one connection at a time and none at its end, and the    *)
(* runner's own client is closed by then.                                  *)
NoConnectionLeft ==
    pc \in {"wait", "connect"} \/ (pc = "done" /\ answer = "changed" /\ ~local) => conn = Closed

(* The task ends, whether or not the host comes back.                      *)
Ends == (pc = "read") ~> (pc = "done")

-----------------------------------------------------------------------------
(* What holds for any number of boots and attempts: the types, that no     *)
(* connection is left behind, and that a host of which it is said that it  *)
(* rebooted has.                                                           *)

(* A host that is down has another boot before it; the boot that was read  *)
(* is not a later one; the test command runs in another boot.              *)
HostComesBack == ~host.up => host.boot < MaxBoots
ReadBefore == prev <= host.boot
TestsAnotherBoot == pc = "test" => conn # prev
IInv == TypeOK /\ NoConnectionLeft /\ HostComesBack /\ ReadBefore /\ TestsAnotherBoot

LEMMA InitIInv == Init => IInv
<1> SUFFICES ASSUME Init PROVE IInv
  OBVIOUS
<1> USE Bounds DEF Init, Boots, Closed, Silence
<1>1. TypeOK
  BY DEF TypeOK
<1>2. NoConnectionLeft
  BY DEF NoConnectionLeft
<1>3. HostComesBack /\ ReadBefore /\ TestsAnotherBoot
  BY DEF HostComesBack, ReadBefore, TestsAnotherBoot
<1> QED
  BY <1>1, <1>2, <1>3 DEF IInv

(* The steps of the controller before it waits.                            *)
LEMMA CommandSteps ==
  ASSUME IInv, Start \/ ReadBootTime \/ FindRebootCommand \/ Issue \/ IssueLocally
  PROVE IInv'
<1> USE Bounds DEF IInv, TypeOK, NoConnectionLeft, HostComesBack, ReadBefore, TestsAnotherBoot,
      Boots, Closed, Silence, Works, Alive, Goto, Return
<1>1. CASE Start
  BY <1>1 DEF Start
<1>2. CASE ReadBootTime
  <2>1. ASSUME pc = "read", Works, prev' \in {host.boot, Silence}, Goto("find"),
               UNCHANGED <<conn, left>>
        PROVE IInv'
    BY <2>1
  <2>2. ASSUME pc = "read", Return("failed"), UNCHANGED <<host, conn>> PROVE IInv'
    BY <2>2
  <2> QED
    BY <1>2, <2>1, <2>2 DEF ReadBootTime
<1>3. CASE FindRebootCommand
  BY <1>3 DEF FindRebootCommand
<1>4. CASE Issue
  BY <1>4 DEF Issue
<1>5. CASE IssueLocally
  BY <1>5 DEF IssueLocally
<1> QED
  BY <1>1, <1>2, <1>3, <1>4, <1>5

(* The steps of the wait.                                                  *)
LEMMA WaitSteps ==
  ASSUME IInv, Wait \/ TimedOut \/ Reconnect \/ Poll \/ TestCommand
  PROVE IInv'
<1> USE Bounds DEF IInv, TypeOK, NoConnectionLeft, HostComesBack, ReadBefore, TestsAnotherBoot,
      Boots, Closed, Silence, Works, Alive, Goto, Return, Again
<1>1. CASE Wait
  BY <1>1 DEF Wait
<1>2. CASE TimedOut
  BY <1>2 DEF TimedOut
<1>3. CASE Reconnect
  BY <1>3 DEF Reconnect
<1>4. CASE Poll
  BY <1>4 DEF Poll
<1>5. CASE TestCommand
  BY <1>5 DEF TestCommand
<1> QED
  BY <1>1, <1>2, <1>3, <1>4, <1>5

(* The steps of the host: it comes back in a later boot.                   *)
LEMMA HostSteps == ASSUME IInv, GoesDown \/ ComesUp PROVE IInv'
<1> USE Bounds DEF IInv, NoConnectionLeft, HostComesBack, ReadBefore, TestsAnotherBoot, TypeOK,
      Boots, Closed, Silence
<1>1. CASE GoesDown
  <2>1. host' = [host EXCEPT !.up = FALSE] /\ host.boot < MaxBoots
    BY <1>1 DEF GoesDown
  <2>2. host' \in [up : BOOLEAN, boot : Boots, agent : BOOLEAN] /\ host'.boot = host.boot
    BY <2>1
  <2> QED
    BY <1>1, <2>1, <2>2 DEF GoesDown
<1>2. CASE ComesUp
  <2>1. PICK kept \in BOOLEAN :
          host' = [host EXCEPT !.up = TRUE, !.boot = @ + 1, !.agent = @ /\ kept]
    BY <1>2 DEF ComesUp
  <2>2. host.boot + 1 \in Boots
    <3>1. host.boot \in 1 .. MaxBoots
      OBVIOUS
    <3>2. ~host.up
      BY <1>2 DEF ComesUp
    <3>3. host.boot < MaxBoots
      BY <3>2
    <3> QED
      BY <3>1, <3>3
  <2>3. host'.up = TRUE /\ host'.boot = host.boot + 1
    BY <2>1
  <2>4. host' \in [up : BOOLEAN, boot : Boots, agent : BOOLEAN]
    BY <2>1, <2>2
  <2>5. UNCHANGED <<pc, local, conn, prev, left, answer>>
    BY <1>2 DEF ComesUp
  <2>6. TypeOK'
    BY <2>4, <2>5
  <2>7. ReadBefore'
    BY <2>3, <2>5
  <2>8. HostComesBack' /\ NoConnectionLeft' /\ TestsAnotherBoot'
    BY <2>3, <2>5
  <2> QED
    BY <2>6, <2>7, <2>8
<1> QED
  BY <1>1, <1>2

LEMMA NextIInv == IInv /\ [Next]_vars => IInv'
<1> SUFFICES ASSUME IInv, [Next]_vars PROVE IInv'
  OBVIOUS
<1>1. CASE Controller
  BY <1>1, CommandSteps, WaitSteps DEF Controller
<1>2. CASE GoesDown \/ ComesUp
  BY <1>2, HostSteps
<1>3. CASE UNCHANGED vars
  BY <1>3 DEF vars, IInv, TypeOK, NoConnectionLeft, HostComesBack, ReadBefore, TestsAnotherBoot
<1> QED
  BY <1>1, <1>2, <1>3 DEF Next, Finished

LEMMA Invariance == Spec => []IInv
  BY InitIInv, NextIInv, PTL DEF Spec

-----------------------------------------------------------------------------
(* Every variable keeps its type: the task is answered exactly when it is  *)
(* over.                                                                   *)
THEOREM RebootTypes == Spec => []TypeOK
<1>1. IInv => TypeOK
  BY DEF IInv
<1> QED
  BY Invariance, <1>1, PTL

(* The wait holds no connection between two attempts and none at its end.  *)
THEOREM RebootLeavesNoConnection == Spec => []NoConnectionLeft
<1>1. IInv => NoConnectionLeft
  BY DEF IInv
<1> QED
  BY Invariance, <1>1, PTL

(* Only the test command of a remote reboot answers "changed", in a boot   *)
(* that is not the one that was read, and not before it.                   *)
THEOREM RebootIsReal == Spec => RebootedForReal
<1>1. ASSUME IInv, Next, answer' = "changed", answer = "none", ~local, prev # Silence
      PROVE host.boot > prev
  <2>1. TestCommand
    BY <1>1 DEF Next, Controller, Start, ReadBootTime, FindRebootCommand, Issue, IssueLocally,
         Wait, TimedOut, Reconnect, Poll, TestCommand, GoesDown, ComesUp, Finished, Goto, Return,
         Again, vars
  <2>2. conn = host.boot /\ pc = "test"
    BY <1>1, <2>1 DEF TestCommand, Again, Goto, Works, Alive
  <2>3. conn # prev /\ prev <= host.boot
    BY <1>1, <2>2 DEF IInv, TestsAnotherBoot, ReadBefore
  <2> QED
    BY <1>1, <2>2, <2>3 DEF IInv, TypeOK, Boots, Silence
<1>2. IInv /\ [Next]_vars =>
        [answer' = "changed" /\ answer = "none" /\ ~local /\ prev # Silence => host.boot > prev]_vars
  BY <1>1
<1> QED
  BY Invariance, <1>2, PTL DEF Spec, RebootedForReal
=============================================================================

------------------------------ MODULE MCPlayRun ------------------------------
(***************************************************************************)
(* The playbooks PlayRun is model-checked with.                            *)
(***************************************************************************)
EXTENDS PlayRun, TLC

CONSTANTS a, b, c, topic, inner, nested

Simple(kind) == [kind |-> kind, looped |-> FALSE, items |-> 0, notify |-> <<>>, file |-> NoFile]
Notifying(kind, targets) == [Simple(kind) EXCEPT !.notify = targets]
Include(f) == [Simple("include") EXCEPT !.file = f]
Looped(t, n) == [t EXCEPT !.looped = TRUE, !.items = n]

(* `inner` ends in a reboot, `nested` includes `inner`.                    *)
MCIncluded ==
    inner  :> <<Notifying("module", <<b>>), Simple("reboot")>> @@
    nested :> <<Simple("primitive"), Include(inner)>>

(* Two handlers that notify each other, and one that shares a topic with   *)
(* the first.                                                              *)
Chain == <<[name |-> a, listen |-> {topic}, task |-> Notifying("module", <<b>>)],
           [name |-> b, listen |-> {}, task |-> Notifying("module", <<a>>)],
           [name |-> c, listen |-> {topic}, task |-> Simple("module")]>>

(* The second handler a replaces the first.                                *)
Replaced == <<[name |-> a, listen |-> {topic}, task |-> Simple("module")],
              [name |-> b, listen |-> {topic}, task |-> Looped(Notifying("module", <<a>>), 2)],
              [name |-> a, listen |-> {topic}, task |-> Include(inner)]>>

Lists == {
    <<Notifying("module", <<a>>), Simple("flush_handlers"), Notifying("primitive", <<b>>)>>,
    <<Notifying("module", <<topic, b>>), Include(nested)>>,
    <<Include(inner), Simple("primitive")>>,
    <<Looped(Notifying("module", <<b, topic>>), 2), Looped(Include(inner), 2)>>,
    <<Notifying("module", <<b>>), Simple("end_host"), Simple("reboot")>>,
    <<Notifying("module", <<a, b>>), Simple("primitive"), Simple("flush_handlers"), Simple("reboot")>>,
    <<Looped(Simple("module"), 0), Simple("end_play"), Simple("module")>>,
    <<Simple("reboot"), Simple("module"), Looped(Simple("reboot"), 1)>> }

LocalPlays ==
    {p \in {[local |-> TRUE, allowReboot |-> r, force |-> f, hosts |-> 1,
             tasks |-> ts, handlers |-> hs] :
               r \in BOOLEAN, f \in BOOLEAN, ts \in Lists, hs \in {Chain, Replaced}} :
        RebootPlaced(p)}

RemotePlays ==
    {[local |-> FALSE, allowReboot |-> FALSE, force |-> f, hosts |-> 2,
      tasks |-> ts, handlers |-> hs] :
        f \in BOOLEAN, ts \in Lists, hs \in {Chain, Replaced}}

AllPlays == LocalPlays \cup RemotePlays

=============================================================================

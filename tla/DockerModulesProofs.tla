------------------------- MODULE DockerModulesProofs -------------------------
(***************************************************************************)
(* The modules that manage a docker engine and a swarm keep to their types *)
(* and to what they promise, for all tasks, options, names and labels.     *)
(***************************************************************************)
EXTENDS DockerEngineProofs

-----------------------------------------------------------------------------
(* docker_node.                                                            *)

NodeHosts == Node!Nodes
NodeReads == Node!Snapshots
NodeForetells(task) == TRUE
NodeSettles(task, checking) == TRUE
NodeHides(task) == FALSE
NodeMore == Node!OutdatedOnceIsRetried

NodeChange(task, n) == Node!Desired(task, n.spec) # n.spec
NodeWill(place, task, n, r, c) ==
    IF place \in {"local", "inspect"} THEN NodeChange(task, n) ELSE c
NodeAlways(place, task, n, r, checking) == place \in {"version", "update"} => ~checking
(* A run sends what it computed from the first inspection.                 *)
NodeKnows(place, task, n, r, c, touched, checking) ==
    /\ checking => ~touched
    /\ place # "report" => ~touched
    /\ place \in {"local", "inspect"} => ~c
    /\ place \in {"version", "update"} =>
          c /\ r.spec = Node!Desired(task, n.spec) /\ NodeChange(task, n)
    /\ place = "report" =>
          c /\ (~checking => Node!Satisfied(task, n) /\ ~NodeChange(task, n))
NodeFine(place, task, h, r, c, touched, checking, expect, again) ==
    /\ NodeKnows(place, task, h, r, c, touched, checking)
    /\ ~checking /\ expect # "none" /\ NodeForetells(task) =>
          (expect = "changed" <=> NodeWill(place, task, h, r, c))
    /\ checking /\ NodeForetells(task) => (NodeWill(place, task, h, r, c) <=> NodeChange(task, h))
    /\ again /\ NodeSettles(task, checking) => ~NodeWill(place, task, h, r, c) /\ ~touched
NodeInv ==
    /\ RunTyped(NodeHosts, NodeTasks, Node!Places, NodeReads)
    /\ run.at # "idle" => NodeAlways(run.at, run.task, actual, run.read, Checking)
    /\ run.at # "idle" /\ ~run.disturbed =>
          NodeFine(run.at, run.task, actual, run.read, run.changed, run.touched, Checking,
                run.expect, run.again)
    /\ memo.forecast # "none" /\ NodeForetells(run.task) =>
          (memo.forecast = "changed" <=> NodeChange(run.task, actual))
    /\ memo.settled /\ NodeSettles(run.task, FALSE) => ~NodeChange(run.task, actual)
NodeRespects ==
    /\ RunMoves /\ Truthful(Node!Satisfied(run.task, actual), NodeHides(run.task))
    /\ Node!Predicts /\ Node!Idempotent /\ NodeMore

LEMMA NodeGiven ==
    NodeInv =>
      /\ actual \in NodeHosts /\ run.changed \in BOOLEAN /\ run.touched \in BOOLEAN
      /\ "idle" \notin Node!Places /\ run.at \in Node!Places \union {"idle"}
      /\ run.task \in NodeTasks /\ run.mode \in {"check", "apply"} /\ run.disturbed \in BOOLEAN
      /\ run.at # "idle" => run.read \in NodeReads /\ run.reply = "none"
  BY DEF NodeInv, RunTyped, RunStates, Idle, At, Node!Places

LEMMA NodeRuns ==
    NodeInv /\ run.at # "idle" /\ ~run.disturbed =>
      NodeFine(run.at, run.task, actual, run.read, run.changed, run.touched, Checking,
            run.expect, run.again)
  BY DEF NodeInv

LEMMA NodeSilent ==
    ASSUME ~AnswersOK, RunMoves, NodeMore PROVE NodeRespects
  BY DEF NodeRespects, Truthful, Node!Predicts, Node!Foretold, Node!Idempotent, Node!Unchanging,
     Node!AnswersOK, AnswersOK, Node!Answers, Answers, Node!Idle, Idle, Node!At, At

LEMMA NodeStep ==
    ASSUME NodeInv, run.at # "idle", NEW place \in Node!Places, NEW a \in NodeHosts,
           NEW r \in NodeReads, NEW c \in BOOLEAN, Step(place, a, r, c), NodeMore,
           Checking => a = actual, NodeAlways(place, run.task, a, r, Checking),
           ~run.disturbed =>
             /\ NodeKnows(place, run.task, a, r, c, run.touched \/ a # actual, Checking)
             /\ NodeForetells(run.task) =>
                  (NodeWill(place, run.task, a, r, c) <=>
                     NodeWill(run.at, run.task, actual, run.read, run.changed))
             /\ NodeSettles(run.task, Checking) /\ (a # actual \/ NodeWill(place, run.task, a, r, c)) =>
                  NodeWill(run.at, run.task, actual, run.read, run.changed)
    PROVE NodeInv' /\ NodeRespects
<1>1. /\ RunTyped(NodeHosts, NodeTasks, Node!Places, NodeReads)' /\ actual' = a
      /\ run'.at = place /\ run'.read = r /\ run'.changed = c /\ run'.task = run.task
      /\ run'.mode = run.mode /\ run'.expect = run.expect /\ run'.again = run.again
      /\ run'.disturbed = run.disturbed /\ run'.touched = (run.touched \/ a # actual)
      /\ memo'.settled => memo.settled /\ a = actual
      /\ memo'.forecast # "none" => memo'.forecast = memo.forecast /\ a = actual
      /\ RunMoves /\ place # "idle"
  <2>1. /\ RunTyped(NodeHosts, NodeTasks, Node!Places, NodeReads) /\ "idle" \notin Node!Places
        /\ ~Idle /\ place # "idle"
    BY NodeGiven DEF NodeInv, Idle, At
  <2> QED
    BY <2>1, RunStep
<1>2. NodeInv'
  <2>1. NodeAlways(run'.at, run'.task, actual', run'.read, Checking')
    BY <1>1 DEF Checking
  <2>2. ASSUME ~run'.disturbed
        PROVE NodeFine(run'.at, run'.task, actual', run'.read, run'.changed, run'.touched, Checking',
                    run'.expect, run'.again)
    <3>1. NodeFine(run.at, run.task, actual, run.read, run.changed, run.touched, Checking,
                run.expect, run.again)
      BY <1>1, <2>2, NodeRuns
    <3>2. NodeFine(place, run.task, a, r, c, run.touched \/ a # actual, Checking,
                run.expect, run.again)
      BY <1>1, <2>2, <3>1 DEF NodeFine
    <3> QED
      BY <1>1, <3>2 DEF Checking
  <2>3. /\ memo'.forecast # "none" /\ NodeForetells(run'.task) =>
             (memo'.forecast = "changed" <=> NodeChange(run'.task, actual'))
        /\ memo'.settled /\ NodeSettles(run'.task, FALSE) => ~NodeChange(run'.task, actual')
    BY <1>1 DEF NodeInv
  <2> QED
    BY <1>1, <2>1, <2>2, <2>3 DEF NodeInv
<1> QED
  BY <1>1, <1>2, RunSilent, NodeSilent

LEMMA NodeGoes ==
    ASSUME NodeInv, run.at # "idle", NEW place \in Node!Places, NEW r \in NodeReads, NEW c \in BOOLEAN,
           Step(place, actual, r, c), NodeMore, NodeAlways(place, run.task, actual, r, Checking),
           ~run.disturbed =>
             /\ NodeKnows(place, run.task, actual, r, c, run.touched, Checking)
             /\ NodeForetells(run.task) =>
                  (NodeWill(place, run.task, actual, r, c) <=>
                     NodeWill(run.at, run.task, actual, run.read, run.changed))
             /\ NodeSettles(run.task, Checking) /\ NodeWill(place, run.task, actual, r, c) =>
                  NodeWill(run.at, run.task, actual, run.read, run.changed)
    PROVE NodeInv' /\ NodeRespects
<1>1. actual \in NodeHosts /\ (run.touched \/ actual # actual) = run.touched
  BY NodeGiven
<1> QED
  BY <1>1, NodeStep

LEMMA NodeStops ==
    ASSUME NodeInv, run.at # "idle", NEW reply \in {"failed", "refused", "killed"}, Stops(reply), NodeMore
    PROVE NodeInv' /\ NodeRespects
<1>1. /\ RunTyped(NodeHosts, NodeTasks, Node!Places, NodeReads)' /\ run'.at = "idle" /\ actual' = actual
      /\ run'.reply = reply /\ run'.task = run.task /\ memo' = memo /\ RunMoves
  BY RunStops DEF NodeInv, Replies, Idle, At
<1>2. NodeInv'
  BY <1>1 DEF NodeInv
<1> QED
  BY <1>1, <1>2, RunSilent, NodeSilent

LEMMA NodeAnswers ==
    ASSUME NodeInv, run.at # "idle", NEW c \in BOOLEAN, Answer(c), NodeMore,
           ~run.disturbed =>
             /\ c <=> NodeWill(run.at, run.task, actual, run.read, run.changed)
             /\ IF c THEN ~Checking => Node!Satisfied(run.task, actual)
                     ELSE Node!Satisfied(run.task, actual) /\ (run.touched => NodeHides(run.task))
             /\ ~Checking /\ NodeSettles(run.task, FALSE) => ~NodeChange(run.task, actual)
    PROVE NodeInv' /\ NodeRespects
<1>1. /\ RunTyped(NodeHosts, NodeTasks, Node!Places, NodeReads)' /\ run'.at = "idle" /\ actual' = actual
      /\ run'.reply = "ok" /\ run'.changed = c /\ run'.task = run.task /\ run'.mode = run.mode
      /\ IF Checking THEN memo'.settled = memo.settled ELSE memo'.settled => ~run.disturbed
      /\ memo'.forecast # "none" =>
            Checking /\ ~run.disturbed /\ (memo'.forecast = "changed" <=> c)
      /\ RunMoves
  BY RunAnswers DEF NodeInv, Idle, At
<1>0. ~run.disturbed =>
        /\ ~Checking /\ run.expect # "none" /\ NodeForetells(run.task) => (run.expect = "changed" <=> c)
        /\ Checking /\ NodeForetells(run.task) => (c <=> NodeChange(run.task, actual))
        /\ run.again /\ NodeSettles(run.task, Checking) => ~c /\ ~run.touched
  BY NodeRuns DEF NodeFine
<1>2. NodeInv'
  <2>1. memo'.forecast # "none" /\ NodeForetells(run'.task) =>
             (memo'.forecast = "changed" <=> NodeChange(run'.task, actual'))
    <3>1. ~run.disturbed /\ Checking /\ NodeForetells(run.task) => (c <=> NodeChange(run.task, actual))
      BY <1>0
    <3> QED
      BY <1>1, <3>1
  <2>2. memo'.settled /\ NodeSettles(run'.task, FALSE) => ~NodeChange(run'.task, actual')
    BY <1>1 DEF NodeInv
  <2> QED
    BY <1>1, <2>1, <2>2 DEF NodeInv
<1>3. Truthful(Node!Satisfied(run.task, actual), NodeHides(run.task))
  BY <1>1 DEF Truthful
<1>5. Node!Predicts
  BY <1>0, <1>1 DEF Node!Predicts, Node!Foretold, Node!Checking, Checking, Node!t, NodeForetells
<1>6. Node!Idempotent
  BY <1>0, <1>1 DEF Node!Idempotent, Node!Unchanging, Node!Checking, Checking, Node!t, NodeSettles
<1> QED
  BY <1>1, <1>2, <1>3, <1>5, <1>6 DEF NodeRespects

LEMMA NodeBegins ==
    ASSUME NodeInv, run.at = "idle", NEW task \in NodeTasks, NEW m \in {"check", "apply"},
           NEW place \in Node!Places, NEW r \in NodeReads, Begin(task, m, place, r), NodeMore,
           NodeAlways(place, task, actual, r, m = "check"),
           NodeKnows(place, task, actual, r, FALSE, FALSE, m = "check"),
           \/ m = "check" /\ ~NodeSettles(task, TRUE) /\ ~NodeForetells(task)
           \/ NodeWill(place, task, actual, r, FALSE) <=> NodeChange(task, actual),
           NodeSettles(task, TRUE) => NodeSettles(task, FALSE)
    PROVE NodeInv' /\ NodeRespects
<1>1. /\ RunTyped(NodeHosts, NodeTasks, Node!Places, NodeReads)' /\ actual' = actual
      /\ run'.at = place /\ run'.read = r /\ run'.task = task /\ run'.mode = m
      /\ run'.disturbed = FALSE /\ run'.touched = FALSE /\ run'.changed = FALSE /\ RunMoves
      /\ run'.again \/ memo'.settled => memo.settled /\ task = run.task
      /\ run'.expect # "none" => run'.expect = memo.forecast /\ task = run.task
      /\ memo'.forecast # "none" => memo'.forecast = memo.forecast /\ task = run.task
      /\ Checking' = (m = "check") /\ run'.at # "idle"
  <2>1. /\ RunTyped(NodeHosts, NodeTasks, Node!Places, NodeReads)' /\ actual' = actual
        /\ run'.at = place /\ run'.read = r /\ run'.task = task /\ run'.mode = m
        /\ ~run'.disturbed /\ ~run'.touched /\ ~run'.changed /\ RunMoves
        /\ run'.again \/ memo'.settled => memo.settled /\ task = run.task
        /\ run'.expect # "none" => run'.expect = memo.forecast /\ task = run.task
        /\ memo'.forecast # "none" => memo'.forecast = memo.forecast /\ task = run.task
    <3>1. RunTyped(NodeHosts, NodeTasks, Node!Places, NodeReads) /\ "idle" \notin Node!Places
      BY NodeGiven DEF NodeInv
    <3> QED
      BY <3>1, RunBegin
  <2>2. /\ run'.disturbed \in BOOLEAN /\ run'.touched \in BOOLEAN /\ run'.changed \in BOOLEAN
    BY <2>1 DEF RunTyped, RunStates
  <2> QED
    BY <2>1, <2>2, NodeGiven DEF Checking
<1>2. NodeInv'
  <2>1. NodeAlways(run'.at, run'.task, actual', run'.read, Checking')
    BY <1>1
  <2>2. /\ memo'.forecast # "none" /\ NodeForetells(run'.task) =>
             (memo'.forecast = "changed" <=> NodeChange(run'.task, actual'))
        /\ memo'.settled /\ NodeSettles(run'.task, FALSE) => ~NodeChange(run'.task, actual')
    BY <1>1 DEF NodeInv
  <2>3. NodeFine(run'.at, run'.task, actual', run'.read, run'.changed, run'.touched, Checking',
              run'.expect, run'.again)
    <3>1. ~Checking' /\ run'.expect # "none" /\ NodeForetells(task) =>
             (run'.expect = "changed" <=> NodeWill(place, task, actual, r, FALSE))
      BY <1>1 DEF NodeInv
    <3>2. run'.again /\ NodeSettles(task, Checking') => ~NodeWill(place, task, actual, r, FALSE)
      BY <1>1 DEF NodeInv
    <3>3. NodeFine(place, task, actual, r, FALSE, FALSE, Checking', run'.expect, run'.again)
      BY <1>1, <3>1, <3>2 DEF NodeFine
    <3> QED
      BY <1>1, <3>3
  <2> QED
    BY <1>1, <2>1, <2>2, <2>3 DEF NodeInv
<1> QED
  BY <1>1, <1>2, RunSilent, NodeSilent DEF Idle, At

LEMMA NodeInterferes ==
    ASSUME NodeInv, NEW a \in NodeHosts, Interferes(a), NodeMore,
           run.at # "idle" => NodeAlways(run.at, run.task, a, run.read, Checking)
    PROVE NodeInv' /\ NodeRespects
<1>1. /\ RunTyped(NodeHosts, NodeTasks, Node!Places, NodeReads)' /\ actual' = a
      /\ run'.at = run.at /\ run'.read = run.read /\ run'.task = run.task
      /\ run'.mode = run.mode /\ (run.at = "idle" \/ run'.disturbed)
      /\ ~memo'.settled /\ memo'.forecast = "none" /\ RunMoves
  BY RunInterferes DEF NodeInv
<1>2. NodeInv'
  BY <1>1 DEF NodeInv, Checking
<1>3. ~AnswersOK
  BY <1>1 DEF AnswersOK, Answers, Idle, At
<1> QED
  BY <1>1, <1>2, <1>3, NodeSilent

LEMMA NodeStutters == ASSUME NodeInv, UNCHANGED vars, NodeMore PROVE NodeInv' /\ NodeRespects
<1>1. run' = run /\ actual' = actual /\ memo' = memo
  BY DEF vars
<1>2. NodeInv'
  BY <1>1 DEF NodeInv, RunTyped, Idle, At, Checking
<1>3. ~AnswersOK /\ RunMoves
  BY <1>1 DEF AnswersOK, Answers, Idle, At, RunMoves
<1> QED
  BY <1>2, <1>3, NodeSilent

(* What others change makes a version outdated that the run has read.      *)
LEMMA NodeOutdated ==
    ASSUME NodeInv, NEW a \in NodeHosts, NEW r \in NodeReads, actual' = a, memo' = NoMemo, NodeMore,
           IF Idle THEN run' = run ELSE run' = [run EXCEPT !.disturbed = TRUE, !.read = r],
           run.at # "idle" => NodeAlways(run.at, run.task, a, r, Checking)
    PROVE NodeInv' /\ NodeRespects
<1>1. /\ RunTyped(NodeHosts, NodeTasks, Node!Places, NodeReads)'
      /\ run'.at = run.at /\ run'.task = run.task /\ run'.mode = run.mode
      /\ run.at # "idle" => run'.read = r /\ run'.disturbed
      /\ RunMoves
  BY Zenon, RunDisturbed DEF NodeInv
<1>2. NodeInv'
  <2>1. memo'.forecast = "none" /\ ~memo'.settled
    BY NothingKnown
  <2> QED
    BY <1>1, <2>1 DEF NodeInv, Checking
<1>3. ~AnswersOK
  BY <1>1 DEF AnswersOK, Answers, Idle, At
<1> QED
  BY <1>1, <1>2, <1>3, NodeSilent

(* What is known of labels: the merged ones are labels, and they stay what *)
(* they are when they are merged again.                                    *)
LEMMA NodeLabelMap ==
    ASSUME NEW f
    PROVE f \in Node!LabelMaps <=>
            /\ f = [l \in DOMAIN f |-> f[l]] /\ DOMAIN f \subseteq NodeLabels
            /\ \A l \in DOMAIN f : f[l] \in Values
  BY DEF Node!LabelMaps

LEMMA NodeMerged ==
    ASSUME NEW task \in Node!Requests, NEW f \in Node!LabelMaps
    PROVE LET m == Node!Merged(task, f) IN
          /\ m \in Node!LabelMaps
          /\ Node!Merged(task, m) = m
          /\ \A l \in DOMAIN task.labels : Node!LabelOf(m, l) = task.labels[l]
          /\ \A l \in task.drop \ DOMAIN task.labels : l \notin DOMAIN m
<1> DEFINE names(g) == DOMAIN g \union {l \in DOMAIN task.labels : Node!Assigned(task, l)}
           dropped == {l \in task.drop : ~Node!Assigned(task, l)}
           value(g, l) == IF l \in DOMAIN task.labels THEN task.labels[l] ELSE g[l]
           m == Node!Merged(task, f)
<1>1. /\ task.labels \in Node!LabelMaps /\ DOMAIN f \subseteq NodeLabels
      /\ \A l \in DOMAIN f : f[l] \in Values
      /\ DOMAIN task.labels \subseteq NodeLabels
      /\ \A l \in DOMAIN task.labels : task.labels[l] \in Values
  BY Zenon, NodeLabelMap DEF Node!Requests
<1>2. \A g : Node!Merged(task, g) = [l \in names(g) \ dropped |-> value(g, l)]
  BY DEF Node!Merged
<1>3. \A l : Node!Assigned(task, l) => l \in DOMAIN task.labels
  BY DEF Node!Assigned
<1>4. m = [l \in names(f) \ dropped |-> value(f, l)]
  BY <1>2
<1> HIDE DEF m
<1>5. /\ DOMAIN m = names(f) \ dropped /\ \A l \in DOMAIN m : m[l] = value(f, l)
      /\ m = [l \in DOMAIN m |-> m[l]]
  BY <1>4
<1>6. m \in Node!LabelMaps
  <2>1. DOMAIN m \subseteq NodeLabels
    BY <1>1, <1>5
  <2>2. \A l \in DOMAIN m : m[l] \in Values
    BY <1>1, <1>3, <1>5
  <2> QED
    BY <1>5, <2>1, <2>2, NodeLabelMap
<1>7. Node!Merged(task, m) = m
  <2>1. names(m) \ dropped = DOMAIN m
    BY <1>5
  <2>2. \A l \in DOMAIN m : value(m, l) = m[l]
    BY <1>5
  <2>3. Node!Merged(task, m) = [l \in DOMAIN m |-> value(m, l)]
    BY <1>2, <2>1
  <2>4. [l \in DOMAIN m |-> value(m, l)] = [l \in DOMAIN m |-> m[l]]
    BY <2>2
  <2> QED
    BY <1>5, <2>3, <2>4
<1>8. \A l \in DOMAIN task.labels : Node!LabelOf(m, l) = task.labels[l]
  BY <1>5 DEF Node!LabelOf, Node!Assigned
<1>9. \A l \in task.drop \ DOMAIN task.labels : l \notin DOMAIN m
  BY <1>3, <1>5
<1> QED
  BY <1>6, <1>7, <1>8, <1>9 DEF m

LEMMA NodeDesired ==
    ASSUME NEW task \in Node!Requests, NEW spec \in Node!Specs
    PROVE LET new == Node!Desired(task, spec) IN
          /\ new \in Node!Specs /\ Node!Desired(task, new) = new
          /\ \A n : n.spec = new => Node!Satisfied(task, n)
<1> DEFINE new == Node!Desired(task, spec)
<1>1. /\ task.labels \in Node!LabelMaps /\ spec.labels \in Node!LabelMaps
      /\ task.role \in {"manager", "worker", ""} /\ spec.role \in {"manager", "worker"}
      /\ task.availability \in {"active", "pause", "drain", ""}
      /\ spec.availability \in {"active", "pause", "drain"}
  BY Zenon DEF Node!Requests, Node!Specs, Node!Roles, Node!Availabilities
<1>2. /\ new = [role |-> new.role, availability |-> new.availability, labels |-> new.labels]
      /\ new.role = IF task.role = "" THEN spec.role ELSE task.role
      /\ new.availability = IF task.availability = "" THEN spec.availability ELSE task.availability
      /\ new.labels = IF task.replace THEN task.labels ELSE Node!Merged(task, spec.labels)
  BY DEF Node!Desired
<1>3. new \in Node!Specs
  BY Zenon, <1>1, <1>2, NodeMerged DEF Node!Specs, Node!Roles, Node!Availabilities
<1>4. Node!Desired(task, new) = new
  <2>1. Node!Desired(task, new) =
          [role |-> IF task.role = "" THEN new.role ELSE task.role,
           availability |-> IF task.availability = "" THEN new.availability ELSE task.availability,
           labels |-> IF task.replace THEN task.labels ELSE Node!Merged(task, new.labels)]
    BY DEF Node!Desired
  <2>2. (IF task.replace THEN task.labels ELSE Node!Merged(task, new.labels)) = new.labels
    BY Zenon, <1>1, <1>2, NodeMerged
  <2>3. /\ (IF task.role = "" THEN new.role ELSE task.role) = new.role
        /\ (IF task.availability = "" THEN new.availability ELSE task.availability) = new.availability
    BY Zenon, <1>2
  <2> QED
    BY Zenon, <1>2, <2>1, <2>2, <2>3
<1>5. ASSUME NEW n, n.spec = new PROVE Node!Satisfied(task, n)
  <2> HIDE DEF new
  <2>1. task.role \in {"", n.spec.role} /\ task.availability \in {"", n.spec.availability}
    BY Zenon, <1>2, <1>5
  <2>2. IF task.replace THEN n.spec.labels = task.labels
        ELSE n.spec.labels = Node!Merged(task, spec.labels)
    BY Zenon, <1>2, <1>5
  <2>3. CASE task.replace
    BY <2>1, <2>2, <2>3 DEF Node!Satisfied
  <2>4. CASE ~task.replace
    <3>1. /\ \A l \in DOMAIN task.labels :
               Node!LabelOf(Node!Merged(task, spec.labels), l) = task.labels[l]
          /\ \A l \in task.drop \ DOMAIN task.labels :
               l \notin DOMAIN Node!Merged(task, spec.labels)
      BY <1>1, NodeMerged
    <3>2. n.spec.labels = Node!Merged(task, spec.labels)
      BY <2>2, <2>4
    <3> QED
      BY <2>1, <2>4, <3>1, <3>2 DEF Node!Satisfied
  <2> QED
    BY <2>3, <2>4
<1> QED
  BY <1>3, <1>4, <1>5

LEMMA NodeInit == Node!Init => NodeInv
<1> SUFFICES ASSUME Node!Init PROVE NodeInv
  OBVIOUS
<1> DEFINE R == [spec : {[Node!NoSpec EXCEPT !.role = m] : m \in Node!Roles},
                 down : {FALSE}, last : BOOLEAN]
<1>1. Node!NoSpec \in Node!Specs
  <2>1. [l \in {} |-> Default] \in Node!LabelMaps
    BY NodeLabelMap
  <2> QED
    BY <2>1 DEF Node!NoSpec, Node!Specs, Node!Roles, Node!Availabilities
<1>2. R \subseteq NodeHosts
  <2>1. \A m \in Node!Roles : [Node!NoSpec EXCEPT !.role = m] \in Node!Specs
    BY <1>1 DEF Node!Specs
  <2> QED
    BY <2>1 DEF NodeHosts, Node!Nodes
<1>3. InitRuns(R, NodeTasks)
  BY NodeIsARun DEF Node!Init
<1> HIDE DEF R
<1> QED
  BY <1>2, <1>3, RunInit DEF NodeInv

LEMMA NodeSteps ==
    ASSUME NodeInv, Node!Steps \/ Node!CallError \/ Node!Killed
    PROVE NodeInv' /\ NodeRespects
<1> DEFINE Goal == NodeInv' /\ NodeRespects
           task == run.task
           r == run.read
           c0 == run.changed
<1>1. /\ actual \in NodeHosts /\ c0 \in BOOLEAN /\ run.touched \in BOOLEAN
      /\ "idle" \notin Node!Places /\ task \in Node!Requests
      /\ run.at # "idle" => r \in NodeReads
      /\ actual.spec \in Node!Specs
  BY NodeGiven, DockerAssumption DEF Node!TaskAssumption, NodeHosts, Node!Nodes
<1>2. run.at # "idle" => NodeAlways(run.at, task, actual, r, Checking)
  BY DEF NodeInv
<1>3. run.at # "idle" /\ ~run.disturbed =>
         NodeKnows(run.at, task, actual, r, c0, run.touched, Checking)
  BY NodeRuns DEF NodeFine
<1>4. NodeMore \/ run'.reply = "refused"
  BY DEF NodeMore, Node!OutdatedOnceIsRetried
<1>5. ASSUME NEW reply \in {"failed", "refused", "killed"}, run.at # "idle", Stops(reply),
             reply # "refused" \/ ~(run.at = "update" /\ ~r.fresh /\ r.attempt = 0)
      PROVE Goal
  <2>1. NodeMore
    BY <1>1, <1>5, RunStops DEF NodeMore, Node!OutdatedOnceIsRetried, Node!At, Node!now, NodeInv, Replies
  <2> QED
    BY <1>5, <2>1, NodeStops
<1>6. ASSUME NEW place \in Node!Places, NEW a, NEW known, NEW c, Step(place, a, known, c)
      PROVE NodeMore \/ run.at = "idle"
  <2>1. run.at # "idle" => run.reply = "none" /\ run'.reply = run.reply
    BY <1>6, NodeGiven DEF Step, NodeInv, RunTyped, RunStates
  <2> QED
    BY <2>1 DEF NodeMore, Node!OutdatedOnceIsRetried, Node!At
<1>7. CASE Node!Local
  <2>1. run.at = "local" /\ (Node!Refuse \/ Step("inspect", actual, r, c0))
    BY <1>7, NodeIsARun DEF Node!Local, Node!At
  <2>2. CASE Step("inspect", actual, r, c0)
    <3>1. /\ NodeAlways("inspect", task, actual, r, Checking)
          /\ NodeWill("inspect", task, actual, r, c0) <=> NodeWill("local", task, actual, r, c0)
          /\ ~run.disturbed => NodeKnows("inspect", task, actual, r, c0, run.touched, Checking)
      BY <1>3, <2>1 DEF NodeAlways, NodeWill, NodeKnows
    <3> QED
      BY <1>1, <1>6, <2>1, <2>2, <3>1, NodeGoes DEF Node!Places
  <2> QED
    BY <1>5, <2>1, <2>2, NodeIsARun
<1>8. CASE Node!Inspect
  <2> DEFINE spec == Node!Desired(task, actual.spec)
             known == [r EXCEPT !.spec = spec]
             place == IF Checking THEN "report" ELSE "version"
  <2>1. /\ run.at = "inspect"
        /\ \/ Answer(FALSE) /\ spec = actual.spec
           \/ Step(place, actual, known, TRUE) /\ spec # actual.spec
    BY <1>8, NodeIsARun DEF Node!Inspect, Node!At, Node!t, Node!now, Node!Checking, Checking
  <2>2. spec \in Node!Specs /\ (spec = actual.spec => Node!Satisfied(task, actual))
    BY <1>1, NodeDesired
  <2>3. ~run.disturbed => ~c0 /\ ~run.touched
    BY <1>3, <2>1 DEF NodeKnows
  <2>4. NodeWill("inspect", task, actual, r, c0) <=> spec # actual.spec
    BY DEF NodeWill, NodeChange
  <2> HIDE DEF spec
  <2>5. CASE Answer(FALSE) /\ spec = actual.spec
    <3>1. NodeMore
      BY <2>1 DEF NodeMore, Node!OutdatedOnceIsRetried, Node!At
    <3>2. ~NodeChange(task, actual)
      BY <2>5 DEF spec, NodeChange
    <3> QED
      BY <2>1, <2>2, <2>3, <2>4, <2>5, <3>1, <3>2, NodeAnswers
  <2>6. CASE Step(place, actual, known, TRUE) /\ spec # actual.spec
    <3>1. known \in NodeReads /\ known.spec = spec
      BY <1>1, <2>1, <2>2 DEF NodeReads, Node!Snapshots
    <3>2. /\ NodeAlways(place, task, actual, known, Checking)
          /\ NodeWill(place, task, actual, known, TRUE)
          /\ ~run.disturbed => NodeKnows(place, task, actual, known, TRUE, run.touched, Checking)
      BY <2>3, <2>6, <3>1 DEF NodeAlways, NodeWill, NodeKnows, NodeChange, spec
    <3> HIDE DEF known, place
    <3>3. place \in Node!Places
      BY DEF place, Node!Places
    <3> QED
      BY <1>1, <1>6, <2>1, <2>4, <2>6, <3>1, <3>2, <3>3, NodeGoes
  <2> QED
    BY <2>1, <2>5, <2>6
<1>9. ASSUME NEW place \in {"version", "update"}, NEW known \in NodeReads,
             run.at \in {"version", "update"}, known.spec = r.spec, Step(place, actual, known, c0)
      PROVE Goal
  <2>1. /\ NodeAlways(place, task, actual, known, Checking)
        /\ NodeWill(place, task, actual, known, c0) <=> NodeWill(run.at, task, actual, r, c0)
        /\ ~run.disturbed => NodeKnows(place, task, actual, known, c0, run.touched, Checking)
    BY <1>2, <1>3, <1>9 DEF NodeAlways, NodeWill, NodeKnows
  <2> QED
    BY <1>1, <1>6, <1>9, <2>1, NodeGoes DEF Node!Places
<1>10. CASE Node!Version
  <2> DEFINE known == [r EXCEPT !.fresh = TRUE]
  <2>1. run.at = "version" /\ Step("update", actual, known, c0)
    BY <1>10, NodeIsARun DEF Node!Version, Node!At, Node!now
  <2>2. known \in NodeReads /\ known.spec = r.spec
    BY <1>1, <2>1 DEF NodeReads, Node!Snapshots
  <2> QED
    BY <1>9, <2>1, <2>2
<1>11. CASE Node!Update
  <2> DEFINE a == [actual EXCEPT !.spec = r.spec]
  <2>1. run.at = "update" /\ Step("report", a, r, TRUE) /\ ~Checking
    BY <1>2, <1>11, NodeIsARun DEF Node!Update, Node!At, Node!now, NodeAlways
  <2>2. a \in NodeHosts /\ a.spec = r.spec
    BY <1>1, <2>1 DEF NodeHosts, NodeReads, Node!Nodes, Node!Snapshots
  <2>3. ~run.disturbed => c0 /\ r.spec = Node!Desired(task, actual.spec)
    BY <1>3, <2>1 DEF NodeKnows
  <2>4. ~run.disturbed => Node!Satisfied(task, a) /\ ~NodeChange(task, a)
    BY <1>1, <2>2, <2>3, NodeDesired DEF NodeChange
  <2> HIDE DEF a
  <2>5. /\ NodeAlways("report", task, a, r, Checking) /\ NodeWill("report", task, a, r, TRUE)
        /\ ~run.disturbed =>
             /\ NodeWill("update", task, actual, r, c0)
             /\ NodeKnows("report", task, a, r, TRUE, run.touched \/ a # actual, Checking)
    BY <2>1, <2>3, <2>4 DEF NodeAlways, NodeWill, NodeKnows
  <2> QED
    BY <1>1, <1>6, <2>1, <2>2, <2>5, NodeStep DEF Node!Places
<1>12. CASE Node!OutOfSequence \/ Node!OtherVersionError
  <2> DEFINE known == [r EXCEPT !.attempt = @ + 1]
  <2>1. /\ run.at = "update"
        /\ \/ Step("version", actual, known, c0) /\ r.attempt < 2
           \/ Node!Refuse /\ r.attempt >= 2
    <3>1. r.attempt \in Nat
      BY <1>1, <1>12 DEF NodeReads, Node!Snapshots, Node!OutOfSequence, Node!OtherVersionError, Node!At
    <3> QED
      BY <1>1, <1>12, <3>1, NodeIsARun
         DEF Node!OutOfSequence, Node!OtherVersionError, Node!Again, Node!At, Node!now
  <2>2. CASE Step("version", actual, known, c0) /\ r.attempt < 2
    <3>1. known \in NodeReads /\ known.spec = r.spec
      BY <1>1, <2>1, <2>2 DEF NodeReads, Node!Snapshots
    <3> QED
      BY <1>9, <2>1, <2>2, <3>1
  <2>3. CASE Node!Refuse /\ r.attempt >= 2
    <3>1. r.attempt # 0
      BY <2>3
    <3> QED
      BY <1>5, <2>1, <2>3, <3>1, NodeIsARun
  <2> QED
    BY <2>1, <2>2, <2>3
<1>13. CASE Node!Refused
  BY <1>5, <1>13, NodeIsARun DEF Node!Refused, Node!At, Node!now
<1>14. CASE Node!Report
  <2>1. run.at = "report" /\ Answer(c0)
    BY <1>14, NodeIsARun DEF Node!Report, Node!At
  <2>2. NodeMore /\ (NodeWill("report", task, actual, r, c0) <=> c0)
    BY <2>1 DEF NodeMore, Node!OutdatedOnceIsRetried, Node!At, NodeWill
  <2> QED
    BY <1>1, <1>3, <2>1, <2>2, NodeAnswers DEF NodeKnows
<1>15. CASE Node!CallError \/ Node!Killed
  <2>1. PICK reply \in {"failed", "killed"} : run.at # "idle" /\ Stops(reply)
    BY <1>15, NodeIsARun DEF Node!CallError, Node!CallFails, Idle, At
  <2> QED
    BY <1>5, <2>1
<1> QED
  BY <1>7, <1>8, <1>10, <1>11, <1>12, <1>13, <1>14, <1>15 DEF Node!Steps

LEMMA NodeNext == NodeInv /\ [Node!Next]_vars => NodeInv' /\ NodeRespects
<1> SUFFICES ASSUME NodeInv, [Node!Next]_vars PROVE NodeInv' /\ NodeRespects
  OBVIOUS
<1>1. actual \in NodeHosts /\ (run.at # "idle" => run.read \in NodeReads /\ run.reply = "none")
  BY NodeGiven
<1>2. CASE Node!Start
  <2>1. PICK task \in NodeTasks, m \in {"check", "apply"} : Begin(task, m, "local", Node!Nothing)
    BY <1>2, NodeIsARun DEF Node!Start
  <2>2. run.at = "idle" /\ NodeMore
    BY <2>1 DEF Begin, Idle, At, NodeMore, Node!OutdatedOnceIsRetried, Node!At
  <2>3. Node!Nothing \in NodeReads
    <3>1. [l \in {} |-> Default] \in Node!LabelMaps
      BY NodeLabelMap
    <3> QED
      BY <3>1 DEF NodeReads, Node!Snapshots, Node!Nothing, Node!NoSpec, Node!Specs, Node!Roles,
         Node!Availabilities
  <2>4. /\ NodeAlways("local", task, actual, Node!Nothing, m = "check")
        /\ NodeKnows("local", task, actual, Node!Nothing, FALSE, FALSE, m = "check")
        /\ NodeWill("local", task, actual, Node!Nothing, FALSE) <=> NodeChange(task, actual)
        /\ NodeSettles(task, FALSE)
    BY DEF NodeKnows, NodeWill, NodeAlways, NodeSettles
  <2> QED
    BY <2>1, <2>2, <2>3, <2>4, NodeBegins DEF Node!Places
<1>3. ASSUME NEW a \in NodeHosts, Node!OutdatedBy(a) PROVE NodeInv' /\ NodeRespects
  <2> DEFINE known == IF Idle THEN Node!Nothing ELSE [run.read EXCEPT !.fresh = FALSE]
  <2>1. known \in NodeReads
    <3>1. [l \in {} |-> Default] \in Node!LabelMaps
      BY NodeLabelMap
    <3>2. Node!Nothing \in NodeReads
      BY <3>1 DEF NodeReads, Node!Snapshots, Node!Nothing, Node!NoSpec, Node!Specs, Node!Roles,
         Node!Availabilities
    <3>3. run.read \in NodeReads => [run.read EXCEPT !.fresh = FALSE] \in NodeReads
      BY DEF NodeReads, Node!Snapshots
    <3> QED
      BY <1>1, <3>2, <3>3 DEF Idle, At
  <2>2. /\ actual' = a /\ memo' = NoMemo
        /\ IF Idle THEN run' = run ELSE run' = [run EXCEPT !.disturbed = TRUE, !.read = known]
    BY <1>3, NodeIsARun DEF Node!OutdatedBy, Node!Idle, Node!At, Idle, At
  <2>3. NodeMore
    <3>1. run.at # "idle" => run'.reply = run.reply
      BY <2>2 DEF Idle, At, NodeInv, RunTyped, RunStates
    <3> QED
      BY <1>1, <3>1 DEF NodeMore, Node!OutdatedOnceIsRetried, Node!At
  <2>4. run.at # "idle" => NodeAlways(run.at, run.task, a, known, Checking)
    BY DEF NodeInv, NodeAlways
  <2> HIDE DEF known
  <2> QED
    BY Zenon, <2>1, <2>2, <2>3, <2>4, NodeOutdated
<1>4. ASSUME NEW a \in NodeHosts, Interferes(a) PROVE NodeInv' /\ NodeRespects
  <2>1. NodeMore
    <3>1. run.at # "idle" => run'.reply = run.reply
      BY <1>4 DEF Interferes, Idle, At, NodeInv, RunTyped, RunStates
    <3> QED
      BY <1>1, <3>1 DEF NodeMore, Node!OutdatedOnceIsRetried, Node!At
  <2>2. run.at # "idle" => NodeAlways(run.at, run.task, a, run.read, Checking)
    BY DEF NodeInv, NodeAlways
  <2> QED
    BY <1>4, <2>1, <2>2, NodeInterferes
<1>5. CASE Node!Outside
  <2> DEFINE spec == actual.spec
  <2>1. /\ spec \in Node!Specs /\ spec.labels \in Node!LabelMaps
        /\ \A s \in Node!Specs : [actual EXCEPT !.spec = s] \in NodeHosts
        /\ \A f \in Node!LabelMaps : [actual EXCEPT !.spec.labels = f] \in NodeHosts
    BY <1>1 DEF NodeHosts, Node!Nodes, Node!Specs
  <2>2. ASSUME NEW m \in Node!Roles, Node!OutdatedBy([actual EXCEPT !.spec.role = m])
        PROVE NodeInv' /\ NodeRespects
    <3>1. [actual EXCEPT !.spec.role = m] \in NodeHosts
      BY <1>1 DEF NodeHosts, Node!Nodes, Node!Specs
    <3> QED
      BY <1>3, <2>2, <3>1
  <2>3. ASSUME NEW l \in NodeLabels, NEW v \in Values \ {Default},
               Node!OutdatedBy([actual EXCEPT !.spec.labels =
                        [k \in DOMAIN @ \union {l} |-> IF k = l THEN v ELSE @[k]]])
        PROVE NodeInv' /\ NodeRespects
    <3> DEFINE f == [k \in DOMAIN spec.labels \union {l} |-> IF k = l THEN v ELSE spec.labels[k]]
    <3>1. f \in Node!LabelMaps
      BY <2>1, NodeLabelMap
    <3>2. [actual EXCEPT !.spec.labels = f] =
            [actual EXCEPT !.spec.labels = [k \in DOMAIN @ \union {l} |-> IF k = l THEN v ELSE @[k]]]
      OBVIOUS
    <3> HIDE DEF f
    <3> QED
      BY <1>3, <2>1, <2>3, <3>1, <3>2
  <2>4. ASSUME NEW l \in NodeLabels,
               Node!OutdatedBy([actual EXCEPT !.spec.labels = [k \in DOMAIN @ \ {l} |-> @[k]]])
        PROVE NodeInv' /\ NodeRespects
    <3> DEFINE f == [k \in DOMAIN spec.labels \ {l} |-> spec.labels[k]]
    <3>1. f \in Node!LabelMaps
      BY <2>1, NodeLabelMap
    <3>2. [actual EXCEPT !.spec.labels = f] =
            [actual EXCEPT !.spec.labels = [k \in DOMAIN @ \ {l} |-> @[k]]]
      OBVIOUS
    <3> HIDE DEF f
    <3> QED
      BY <1>3, <2>1, <2>4, <3>1, <3>2
  <2>5. CASE \/ Node!Interferes([actual EXCEPT !.down = ~@])
             \/ Node!Interferes([actual EXCEPT !.last = ~@])
    <3>1. /\ [actual EXCEPT !.down = ~@] \in NodeHosts
          /\ [actual EXCEPT !.last = ~@] \in NodeHosts
      BY <1>1 DEF NodeHosts, Node!Nodes
    <3> QED
      BY <1>4, <2>5, <3>1, NodeIsARun
  <2> QED
    BY <1>5, <2>2, <2>3, <2>4, <2>5 DEF Node!Outside
<1>6. CASE UNCHANGED vars
  <2>1. NodeMore
    BY <1>1, <1>6 DEF vars, NodeMore, Node!OutdatedOnceIsRetried, Node!At
  <2> QED
    BY <1>6, <2>1, NodeStutters
<1> QED
  BY <1>2, <1>5, <1>6, NodeSteps DEF Node!Next

LEMMA NodeSafe == NodeInv => Node!TypeOK
<1> SUFFICES ASSUME NodeInv PROVE Node!TypeOK
  OBVIOUS
<1>1. Checking => run.at \notin {"version", "update"}
  BY DEF NodeInv, NodeAlways
<1> QED
  BY <1>1 DEF NodeInv, RunTyped, NodeHosts, NodeReads, Node!TypeOK, Node!Memos, Memos,
     Node!RunStates, RunStates, Node!Forecasts, Forecasts, Node!Replies, Replies,
     Node!Checking, Checking

LEMMA NodeHolds == ASSUME NEW task, NEW h PROVE Node!Satisfied(task, h) \in BOOLEAN
  BY DEF Node!Satisfied
-----------------------------------------------------------------------------
(* docker_swarm.                                                           *)

ClusterHosts == Cluster!Clusters
ClusterReads == Cluster!Snapshots
ClusterForetells(task) == task.state # "remove"
ClusterSettles(task, checking) ==
    task.state # "remove" /\ ~(task.state = "present" /\ (task.rotate \/ task.force))
ClusterHides(task) == FALSE
ClusterMore == Cluster!NothingTakenBack /\ Cluster!RemovalNotRefused

ClusterChange(task, h) ==
    CASE task.state = "present" ->
           \/ h.member # "manager" \/ task.force \/ task.rotate
           \/ Cluster!Differences(task, h.options) # {}
      [] task.state = "join" -> h.member = "no"
      [] OTHER -> h.member # "no"
ClusterWill(place, task, h, r, c) ==
    CASE place \in {"info", "inspect", "compare", "probe"} -> ClusterChange(task, h)
      [] place = "answer" -> c
      [] OTHER -> TRUE
(* Where a run can be at all; the version it read stands for the options   *)
(* it read, because others update once in a run.                           *)
ClusterAlways(place, task, h, r, checking) ==
    /\ place \in {"update", "init", "join", "leave", "drop", "verify"} => ~checking
    /\ place \in {"inspect", "compare", "update", "init", "verify"} => task.state = "present"
    /\ place = "compare" => ~task.force
    /\ place = "join" => task.state = "join"
    /\ place = "leave" => task.state = "absent"
    /\ place \in {"probe", "drop"} => task.state = "remove"
    /\ place = "update" /\ r.version = h.version => r.options = h.options
ClusterMeets(task, h, r, checking) ==
    CASE task.state = "present" ->
           h.member = "manager" /\ Cluster!Differences(task, h.options) = {}
      [] task.state = "join" -> h.member # "no"
      [] task.state = "absent" -> h.member = "no"
      [] OTHER -> checking \/ h.node = "gone" \/ r.unknown
ClusterKnows(place, task, h, r, c, touched, checking) ==
    /\ checking => ~touched
    /\ place \notin {"verify", "answer", "failed"} => ~touched
    /\ place \in {"info", "inspect", "compare", "probe"} => ~c
    /\ place = "compare" => h.member = "manager"
    /\ place = "update" =>
          /\ r.options = h.options /\ r.version = h.version
          /\ h.member = "manager" /\ ClusterChange(task, h)
    /\ place = "init" => ClusterChange(task, h)
    /\ place = "verify" =>
          c /\ h.member = "manager" /\ Cluster!Differences(task, h.options) = {}
    /\ place = "join" => h.member = "no"
    /\ place = "leave" => h.member # "no"
    /\ place = "drop" => h.node = "down"
    /\ place = "answer" =>
          /\ IF c THEN ~checking => ClusterMeets(task, h, r, checking)
                  ELSE ClusterMeets(task, h, r, checking) /\ ~touched
          /\ ~checking /\ ClusterSettles(task, FALSE) => ~ClusterChange(task, h)
ClusterFine(place, task, h, r, c, touched, checking, expect, again) ==
    /\ ClusterKnows(place, task, h, r, c, touched, checking)
    /\ ~checking /\ expect # "none" /\ ClusterForetells(task) =>
          (expect = "changed" <=> ClusterWill(place, task, h, r, c))
    /\ checking /\ ClusterForetells(task) => (ClusterWill(place, task, h, r, c) <=> ClusterChange(task, h))
    /\ again /\ ClusterSettles(task, checking) => ~ClusterWill(place, task, h, r, c) /\ ~touched
ClusterInv ==
    /\ RunTyped(ClusterHosts, ClusterTasks, Cluster!Places, ClusterReads)
    /\ run.at # "idle" => ClusterAlways(run.at, run.task, actual, run.read, Checking)
    /\ run.at # "idle" /\ ~run.disturbed =>
          ClusterFine(run.at, run.task, actual, run.read, run.changed, run.touched, Checking,
                run.expect, run.again)
    /\ memo.forecast # "none" /\ ClusterForetells(run.task) =>
          (memo.forecast = "changed" <=> ClusterChange(run.task, actual))
    /\ memo.settled /\ ClusterSettles(run.task, FALSE) => ~ClusterChange(run.task, actual)
ClusterRespects ==
    /\ RunMoves /\ Truthful(Cluster!Satisfied(run.task, actual), ClusterHides(run.task))
    /\ Cluster!Predicts /\ Cluster!Idempotent /\ ClusterMore

LEMMA ClusterGiven ==
    ClusterInv =>
      /\ actual \in ClusterHosts /\ run.changed \in BOOLEAN /\ run.touched \in BOOLEAN
      /\ "idle" \notin Cluster!Places /\ run.at \in Cluster!Places \union {"idle"}
      /\ run.task \in ClusterTasks /\ run.mode \in {"check", "apply"} /\ run.disturbed \in BOOLEAN
      /\ run.at # "idle" => run.read \in ClusterReads /\ run.reply = "none"
  BY DEF ClusterInv, RunTyped, RunStates, Idle, At, Cluster!Places

LEMMA ClusterRuns ==
    ClusterInv /\ run.at # "idle" /\ ~run.disturbed =>
      ClusterFine(run.at, run.task, actual, run.read, run.changed, run.touched, Checking,
            run.expect, run.again)
  BY DEF ClusterInv

LEMMA ClusterSilent ==
    ASSUME ~AnswersOK, RunMoves, ClusterMore PROVE ClusterRespects
  BY DEF ClusterRespects, Truthful, Cluster!Predicts, Cluster!Foretold, Cluster!Idempotent, Cluster!Unchanging,
     Cluster!AnswersOK, AnswersOK, Cluster!Answers, Answers, Cluster!Idle, Idle, Cluster!At, At

LEMMA ClusterStep ==
    ASSUME ClusterInv, run.at # "idle", NEW place \in Cluster!Places, NEW a \in ClusterHosts,
           NEW r \in ClusterReads, NEW c \in BOOLEAN, Step(place, a, r, c), ClusterMore,
           Checking => a = actual, ClusterAlways(place, run.task, a, r, Checking),
           ~run.disturbed =>
             /\ ClusterKnows(place, run.task, a, r, c, run.touched \/ a # actual, Checking)
             /\ ClusterForetells(run.task) =>
                  (ClusterWill(place, run.task, a, r, c) <=>
                     ClusterWill(run.at, run.task, actual, run.read, run.changed))
             /\ ClusterSettles(run.task, Checking) /\ (a # actual \/ ClusterWill(place, run.task, a, r, c)) =>
                  ClusterWill(run.at, run.task, actual, run.read, run.changed)
    PROVE ClusterInv' /\ ClusterRespects
<1>1. /\ RunTyped(ClusterHosts, ClusterTasks, Cluster!Places, ClusterReads)' /\ actual' = a
      /\ run'.at = place /\ run'.read = r /\ run'.changed = c /\ run'.task = run.task
      /\ run'.mode = run.mode /\ run'.expect = run.expect /\ run'.again = run.again
      /\ run'.disturbed = run.disturbed /\ run'.touched = (run.touched \/ a # actual)
      /\ memo'.settled => memo.settled /\ a = actual
      /\ memo'.forecast # "none" => memo'.forecast = memo.forecast /\ a = actual
      /\ RunMoves /\ place # "idle"
  <2>1. /\ RunTyped(ClusterHosts, ClusterTasks, Cluster!Places, ClusterReads) /\ "idle" \notin Cluster!Places
        /\ ~Idle /\ place # "idle"
    BY ClusterGiven DEF ClusterInv, Idle, At
  <2> QED
    BY <2>1, RunStep
<1>2. ClusterInv'
  <2>1. ClusterAlways(run'.at, run'.task, actual', run'.read, Checking')
    BY <1>1 DEF Checking
  <2>2. ASSUME ~run'.disturbed
        PROVE ClusterFine(run'.at, run'.task, actual', run'.read, run'.changed, run'.touched, Checking',
                    run'.expect, run'.again)
    <3>1. ClusterFine(run.at, run.task, actual, run.read, run.changed, run.touched, Checking,
                run.expect, run.again)
      BY <1>1, <2>2, ClusterRuns
    <3>2. ClusterFine(place, run.task, a, r, c, run.touched \/ a # actual, Checking,
                run.expect, run.again)
      BY <1>1, <2>2, <3>1 DEF ClusterFine
    <3> QED
      BY <1>1, <3>2 DEF Checking
  <2>3. /\ memo'.forecast # "none" /\ ClusterForetells(run'.task) =>
             (memo'.forecast = "changed" <=> ClusterChange(run'.task, actual'))
        /\ memo'.settled /\ ClusterSettles(run'.task, FALSE) => ~ClusterChange(run'.task, actual')
    BY <1>1 DEF ClusterInv
  <2> QED
    BY <1>1, <2>1, <2>2, <2>3 DEF ClusterInv
<1> QED
  BY <1>1, <1>2, RunSilent, ClusterSilent

LEMMA ClusterGoes ==
    ASSUME ClusterInv, run.at # "idle", NEW place \in Cluster!Places, NEW r \in ClusterReads, NEW c \in BOOLEAN,
           Step(place, actual, r, c), ClusterMore, ClusterAlways(place, run.task, actual, r, Checking),
           ~run.disturbed =>
             /\ ClusterKnows(place, run.task, actual, r, c, run.touched, Checking)
             /\ ClusterForetells(run.task) =>
                  (ClusterWill(place, run.task, actual, r, c) <=>
                     ClusterWill(run.at, run.task, actual, run.read, run.changed))
             /\ ClusterSettles(run.task, Checking) /\ ClusterWill(place, run.task, actual, r, c) =>
                  ClusterWill(run.at, run.task, actual, run.read, run.changed)
    PROVE ClusterInv' /\ ClusterRespects
<1>1. actual \in ClusterHosts /\ (run.touched \/ actual # actual) = run.touched
  BY ClusterGiven
<1> QED
  BY <1>1, ClusterStep

LEMMA ClusterStops ==
    ASSUME ClusterInv, run.at # "idle", NEW reply \in {"failed", "refused", "killed"}, Stops(reply), ClusterMore
    PROVE ClusterInv' /\ ClusterRespects
<1>1. /\ RunTyped(ClusterHosts, ClusterTasks, Cluster!Places, ClusterReads)' /\ run'.at = "idle" /\ actual' = actual
      /\ run'.reply = reply /\ run'.task = run.task /\ memo' = memo /\ RunMoves
  BY RunStops DEF ClusterInv, Replies, Idle, At
<1>2. ClusterInv'
  BY <1>1 DEF ClusterInv
<1> QED
  BY <1>1, <1>2, RunSilent, ClusterSilent

LEMMA ClusterAnswers ==
    ASSUME ClusterInv, run.at # "idle", NEW c \in BOOLEAN, Answer(c), ClusterMore,
           ~run.disturbed =>
             /\ c <=> ClusterWill(run.at, run.task, actual, run.read, run.changed)
             /\ IF c THEN ~Checking => Cluster!Satisfied(run.task, actual)
                     ELSE Cluster!Satisfied(run.task, actual) /\ (run.touched => ClusterHides(run.task))
             /\ ~Checking /\ ClusterSettles(run.task, FALSE) => ~ClusterChange(run.task, actual)
    PROVE ClusterInv' /\ ClusterRespects
<1>1. /\ RunTyped(ClusterHosts, ClusterTasks, Cluster!Places, ClusterReads)' /\ run'.at = "idle" /\ actual' = actual
      /\ run'.reply = "ok" /\ run'.changed = c /\ run'.task = run.task /\ run'.mode = run.mode
      /\ IF Checking THEN memo'.settled = memo.settled ELSE memo'.settled => ~run.disturbed
      /\ memo'.forecast # "none" =>
            Checking /\ ~run.disturbed /\ (memo'.forecast = "changed" <=> c)
      /\ RunMoves
  BY RunAnswers DEF ClusterInv, Idle, At
<1>0. ~run.disturbed =>
        /\ ~Checking /\ run.expect # "none" /\ ClusterForetells(run.task) => (run.expect = "changed" <=> c)
        /\ Checking /\ ClusterForetells(run.task) => (c <=> ClusterChange(run.task, actual))
        /\ run.again /\ ClusterSettles(run.task, Checking) => ~c /\ ~run.touched
  BY ClusterRuns DEF ClusterFine
<1>2. ClusterInv'
  <2>1. memo'.forecast # "none" /\ ClusterForetells(run'.task) =>
             (memo'.forecast = "changed" <=> ClusterChange(run'.task, actual'))
    <3>1. ~run.disturbed /\ Checking /\ ClusterForetells(run.task) => (c <=> ClusterChange(run.task, actual))
      BY <1>0
    <3> QED
      BY <1>1, <3>1
  <2>2. memo'.settled /\ ClusterSettles(run'.task, FALSE) => ~ClusterChange(run'.task, actual')
    BY <1>1 DEF ClusterInv
  <2> QED
    BY <1>1, <2>1, <2>2 DEF ClusterInv
<1>3. Truthful(Cluster!Satisfied(run.task, actual), ClusterHides(run.task))
  BY <1>1 DEF Truthful
<1>5. Cluster!Predicts
  BY <1>0, <1>1 DEF Cluster!Predicts, Cluster!Foretold, Cluster!Checking, Checking, Cluster!t, ClusterForetells
<1>6. Cluster!Idempotent
  BY <1>0, <1>1 DEF Cluster!Idempotent, Cluster!Unchanging, Cluster!Checking, Checking, Cluster!t, ClusterSettles
<1> QED
  BY <1>1, <1>2, <1>3, <1>5, <1>6 DEF ClusterRespects

LEMMA ClusterBegins ==
    ASSUME ClusterInv, run.at = "idle", NEW task \in ClusterTasks, NEW m \in {"check", "apply"},
           NEW place \in Cluster!Places, NEW r \in ClusterReads, Begin(task, m, place, r), ClusterMore,
           ClusterAlways(place, task, actual, r, m = "check"),
           ClusterKnows(place, task, actual, r, FALSE, FALSE, m = "check"),
           \/ m = "check" /\ ~ClusterSettles(task, TRUE) /\ ~ClusterForetells(task)
           \/ ClusterWill(place, task, actual, r, FALSE) <=> ClusterChange(task, actual),
           ClusterSettles(task, TRUE) => ClusterSettles(task, FALSE)
    PROVE ClusterInv' /\ ClusterRespects
<1>1. /\ RunTyped(ClusterHosts, ClusterTasks, Cluster!Places, ClusterReads)' /\ actual' = actual
      /\ run'.at = place /\ run'.read = r /\ run'.task = task /\ run'.mode = m
      /\ run'.disturbed = FALSE /\ run'.touched = FALSE /\ run'.changed = FALSE /\ RunMoves
      /\ run'.again \/ memo'.settled => memo.settled /\ task = run.task
      /\ run'.expect # "none" => run'.expect = memo.forecast /\ task = run.task
      /\ memo'.forecast # "none" => memo'.forecast = memo.forecast /\ task = run.task
      /\ Checking' = (m = "check") /\ run'.at # "idle"
  <2>1. /\ RunTyped(ClusterHosts, ClusterTasks, Cluster!Places, ClusterReads)' /\ actual' = actual
        /\ run'.at = place /\ run'.read = r /\ run'.task = task /\ run'.mode = m
        /\ ~run'.disturbed /\ ~run'.touched /\ ~run'.changed /\ RunMoves
        /\ run'.again \/ memo'.settled => memo.settled /\ task = run.task
        /\ run'.expect # "none" => run'.expect = memo.forecast /\ task = run.task
        /\ memo'.forecast # "none" => memo'.forecast = memo.forecast /\ task = run.task
    <3>1. RunTyped(ClusterHosts, ClusterTasks, Cluster!Places, ClusterReads) /\ "idle" \notin Cluster!Places
      BY ClusterGiven DEF ClusterInv
    <3> QED
      BY <3>1, RunBegin
  <2>2. /\ run'.disturbed \in BOOLEAN /\ run'.touched \in BOOLEAN /\ run'.changed \in BOOLEAN
    BY <2>1 DEF RunTyped, RunStates
  <2> QED
    BY <2>1, <2>2, ClusterGiven DEF Checking
<1>2. ClusterInv'
  <2>1. ClusterAlways(run'.at, run'.task, actual', run'.read, Checking')
    BY <1>1
  <2>2. /\ memo'.forecast # "none" /\ ClusterForetells(run'.task) =>
             (memo'.forecast = "changed" <=> ClusterChange(run'.task, actual'))
        /\ memo'.settled /\ ClusterSettles(run'.task, FALSE) => ~ClusterChange(run'.task, actual')
    BY <1>1 DEF ClusterInv
  <2>3. ClusterFine(run'.at, run'.task, actual', run'.read, run'.changed, run'.touched, Checking',
              run'.expect, run'.again)
    <3>1. ~Checking' /\ run'.expect # "none" /\ ClusterForetells(task) =>
             (run'.expect = "changed" <=> ClusterWill(place, task, actual, r, FALSE))
      BY <1>1 DEF ClusterInv
    <3>2. run'.again /\ ClusterSettles(task, Checking') => ~ClusterWill(place, task, actual, r, FALSE)
      BY <1>1 DEF ClusterInv
    <3>3. ClusterFine(place, task, actual, r, FALSE, FALSE, Checking', run'.expect, run'.again)
      BY <1>1, <3>1, <3>2 DEF ClusterFine
    <3> QED
      BY <1>1, <3>3
  <2> QED
    BY <1>1, <2>1, <2>2, <2>3 DEF ClusterInv
<1> QED
  BY <1>1, <1>2, RunSilent, ClusterSilent DEF Idle, At

LEMMA ClusterInterferes ==
    ASSUME ClusterInv, NEW a \in ClusterHosts, Interferes(a), ClusterMore,
           run.at # "idle" => ClusterAlways(run.at, run.task, a, run.read, Checking)
    PROVE ClusterInv' /\ ClusterRespects
<1>1. /\ RunTyped(ClusterHosts, ClusterTasks, Cluster!Places, ClusterReads)' /\ actual' = a
      /\ run'.at = run.at /\ run'.read = run.read /\ run'.task = run.task
      /\ run'.mode = run.mode /\ (run.at = "idle" \/ run'.disturbed)
      /\ ~memo'.settled /\ memo'.forecast = "none" /\ RunMoves
  BY RunInterferes DEF ClusterInv
<1>2. ClusterInv'
  BY <1>1 DEF ClusterInv, Checking
<1>3. ~AnswersOK
  BY <1>1 DEF AnswersOK, Answers, Idle, At
<1> QED
  BY <1>1, <1>2, <1>3, ClusterSilent

LEMMA ClusterStutters == ASSUME ClusterInv, UNCHANGED vars, ClusterMore PROVE ClusterInv' /\ ClusterRespects
<1>1. run' = run /\ actual' = actual /\ memo' = memo
  BY DEF vars
<1>2. ClusterInv'
  BY <1>1 DEF ClusterInv, RunTyped, Idle, At, Checking
<1>3. ~AnswersOK /\ RunMoves
  BY <1>1 DEF AnswersOK, Answers, Idle, At, RunMoves
<1> QED
  BY <1>2, <1>3, ClusterSilent

LEMMA ClusterOverlay ==
    ASSUME NEW task \in Cluster!Requests, NEW f \in [Options -> Values]
    PROVE LET g == Cluster!Overlay(f, task.options) IN
          /\ g \in [Options -> Values]
          /\ Cluster!Differences(task, g) = {}
          /\ \A o \in Options \ DOMAIN task.options : g[o] = f[o]
  BY DEF Cluster!Overlay, Cluster!Differences, Cluster!Requests, Cluster!Given

LEMMA ClusterInit == Cluster!Init => ClusterInv
<1> SUFFICES ASSUME Cluster!Init PROVE ClusterInv
  OBVIOUS
<1>1. {Cluster!Alone} \subseteq ClusterHosts
  BY DockerAssumption
     DEF ClusterHosts, Cluster!Clusters, Cluster!Alone, Cluster!Defaults, Cluster!Indexes,
         Cluster!TaskAssumption
<1>2. InitRuns({Cluster!Alone}, ClusterTasks)
  BY ClusterIsARun DEF Cluster!Init
<1> QED
  BY <1>1, <1>2, RunInit DEF ClusterInv

LEMMA ClusterSteps ==
    ASSUME ClusterInv, Cluster!Steps \/ Cluster!CallError \/ Cluster!Killed
    PROVE ClusterInv' /\ ClusterRespects
<1> DEFINE Goal == ClusterInv' /\ ClusterRespects
           task == run.task
           r == run.read
           c0 == run.changed
<1>1. /\ actual \in ClusterHosts /\ c0 \in BOOLEAN /\ run.touched \in BOOLEAN
      /\ "idle" \notin Cluster!Places /\ task \in Cluster!Requests
      /\ run.at # "idle" => r \in ClusterReads
      /\ task.state \in {"present", "join", "absent", "remove"}
      /\ actual.options \in [Options -> Values] /\ actual.version \in 0 .. 2
  BY ClusterGiven, DockerAssumption
     DEF Cluster!TaskAssumption, Cluster!Requests, ClusterHosts, Cluster!Clusters, Cluster!Indexes
<1>2. run.at # "idle" => ClusterAlways(run.at, task, actual, r, Checking)
  BY DEF ClusterInv
<1>3. run.at # "idle" /\ ~run.disturbed =>
         ClusterKnows(run.at, task, actual, r, c0, run.touched, Checking)
  BY ClusterRuns DEF ClusterFine
<1>4. ClusterMore \/ run.at \in {"update", "drop"}
  BY DEF ClusterMore, Cluster!NothingTakenBack, Cluster!RemovalNotRefused, Cluster!At
<1>5. ASSUME NEW reply \in {"failed", "refused", "killed"}, run.at # "idle", Stops(reply),
             reply # "refused" \/ run.at # "drop" \/ run.disturbed
      PROVE Goal
  <2>1. run'.reply = reply /\ run'.at = "idle" /\ run.disturbed \in BOOLEAN
    BY <1>1, <1>5, RunStops, ClusterGiven DEF ClusterInv, Replies
  <2>2. ClusterMore
    BY <1>4, <1>5, <2>1 DEF ClusterMore, Cluster!NothingTakenBack, Cluster!RemovalNotRefused, Cluster!At
  <2> QED
    BY <1>5, <2>2, ClusterStops
<1>6. ASSUME NEW place \in Cluster!Places, NEW a, NEW known, NEW c, Step(place, a, known, c),
             run.at # "update"
      PROVE ClusterMore
  <2>1. run'.at # "idle"
    BY <1>1, <1>6 DEF Step, ClusterInv, RunTyped, RunStates
  <2> QED
    BY <1>4, <1>6, <2>1 DEF ClusterMore, Cluster!NothingTakenBack, Cluster!RemovalNotRefused,
       Cluster!At, Cluster!Answers, Cluster!Idle
(* What only decides where to go.                                          *)
<1>7. ASSUME NEW place \in Cluster!Places, NEW c \in BOOLEAN, Step(place, actual, r, c),
             run.at \in {"info", "inspect", "compare", "probe", "verify"},
             ClusterAlways(place, task, actual, r, Checking),
             ~run.disturbed =>
               /\ ClusterKnows(place, task, actual, r, c, run.touched, Checking)
               /\ \/ task.state = "remove"
                  \/ ClusterWill(place, task, actual, r, c) <=> ClusterWill(run.at, task, actual, r, c0)
      PROVE Goal
  <2>1. ClusterMore
    BY <1>6, <1>7
  <2> QED
    BY <1>1, <1>7, <2>1, ClusterGoes DEF ClusterForetells, ClusterSettles
<1>8. CASE Cluster!Info
  <2>1. /\ run.at = "info"
        /\ \/ task.state = "present" /\ Step("inspect", actual, r, c0)
           \/ task.state = "join" /\ actual.member # "no" /\ Step("answer", actual, r, c0)
           \/ task.state = "join" /\ actual.member = "no" /\ Checking /\ Step("answer", actual, r, TRUE)
           \/ task.state = "join" /\ actual.member = "no" /\ ~Checking /\ Step("join", actual, r, c0)
           \/ task.state = "absent" /\ actual.member = "no" /\ Step("answer", actual, r, c0)
           \/ task.state = "absent" /\ actual.member # "no" /\ Checking /\ Step("answer", actual, r, TRUE)
           \/ task.state = "absent" /\ actual.member # "no" /\ ~Checking /\ Step("leave", actual, r, c0)
           \/ task.state = "remove" /\ Step("probe", actual, r, c0)
           \/ Cluster!Refuse
    BY <1>1, <1>8, ClusterIsARun
       DEF Cluster!Info, Cluster!At, Cluster!t, Cluster!Checking, Checking
  <2>2. ~run.disturbed => ~c0 /\ ~run.touched
    BY <1>3, <2>1 DEF ClusterKnows
  <2>3. ClusterWill("info", task, actual, r, c0) <=> ClusterChange(task, actual)
    BY DEF ClusterWill
  <2>4. CASE task.state = "present" /\ Step("inspect", actual, r, c0)
    BY <1>1, <1>7, <2>1, <2>2, <2>4 DEF ClusterAlways, ClusterKnows, ClusterWill, Cluster!Places
  <2>5. CASE task.state = "remove" /\ Step("probe", actual, r, c0)
    BY <1>1, <1>7, <2>1, <2>2, <2>5 DEF ClusterAlways, ClusterKnows, Cluster!Places
  <2>6. ASSUME NEW c \in BOOLEAN, Step("answer", actual, r, c), task.state \in {"join", "absent"},
               ~c => c = c0 /\ ~ClusterChange(task, actual),
               c => c = c0 \/ (Checking /\ ClusterChange(task, actual))
        PROVE Goal
    <3>1. /\ ClusterAlways("answer", task, actual, r, Checking)
          /\ ClusterWill("answer", task, actual, r, c) <=> c
      BY DEF ClusterAlways, ClusterWill
    <3>2. ~ClusterChange(task, actual) => ClusterMeets(task, actual, r, Checking)
      BY <2>6 DEF ClusterChange, ClusterMeets
    <3>3. ~run.disturbed => ClusterKnows("answer", task, actual, r, c, run.touched, Checking)
      BY <2>2, <2>6, <3>2 DEF ClusterKnows
    <3> QED
      BY <1>7, <2>1, <2>2, <2>3, <2>6, <3>1, <3>3 DEF Cluster!Places
  <2>7. ASSUME NEW place \in {"join", "leave"}, Step(place, actual, r, c0), ~Checking,
               task.state = IF place = "join" THEN "join" ELSE "absent",
               ClusterChange(task, actual)
        PROVE Goal
    <3>1. /\ ClusterAlways(place, task, actual, r, Checking)
          /\ ClusterWill(place, task, actual, r, c0)
          /\ ~run.disturbed => ClusterKnows(place, task, actual, r, c0, run.touched, Checking)
      BY <2>2, <2>7 DEF ClusterAlways, ClusterWill, ClusterKnows, ClusterChange
    <3> QED
      BY <1>1, <1>7, <2>1, <2>3, <2>7, <3>1 DEF Cluster!Places
  <2>8. CASE task.state = "join"
    <3>1. ClusterChange(task, actual) <=> actual.member = "no"
      BY <2>8 DEF ClusterChange
    <3> QED
      BY <1>1, <1>5, <2>1, <2>6, <2>7, <2>8, <3>1, ClusterIsARun
  <2>9. CASE task.state = "absent"
    <3>1. ClusterChange(task, actual) <=> actual.member # "no"
      BY <2>9 DEF ClusterChange
    <3> QED
      BY <1>1, <1>5, <2>1, <2>6, <2>7, <2>9, <3>1, ClusterIsARun
  <2>10. CASE Cluster!Refuse
    BY <1>5, <2>1, <2>10, ClusterIsARun
  <2> QED
    BY <2>1, <2>4, <2>5, <2>8, <2>9, <2>10
<1>9. CASE Cluster!Present
  <2>1. /\ run.at = "inspect" /\ task.state = "present"
        /\ \/ actual.member = "manager" /\ ~task.force /\ Step("compare", actual, r, c0)
           \/ /\ actual.member # "manager" \/ task.force
              /\ \/ Step("answer", actual, r, TRUE) /\ Checking
                 \/ Step("init", actual, r, c0) /\ ~Checking
    BY <1>2, <1>9, ClusterIsARun
       DEF Cluster!Present, Cluster!At, Cluster!t, Cluster!Checking, Checking, ClusterAlways
  <2>2. ~run.disturbed => ~c0 /\ ~run.touched
    BY <1>3, <2>1 DEF ClusterKnows
  <2>3. ClusterWill("inspect", task, actual, r, c0) <=> ClusterChange(task, actual)
    BY DEF ClusterWill
  <2>6. CASE actual.member = "manager" /\ ~task.force /\ Step("compare", actual, r, c0)
    BY <1>1, <1>7, <2>1, <2>2, <2>3, <2>6 DEF ClusterAlways, ClusterWill, ClusterKnows, Cluster!Places
  <2>7. CASE actual.member # "manager" \/ task.force
    <3>1. ClusterChange(task, actual)
      BY <2>1, <2>7 DEF ClusterChange
    <3>2. CASE Step("answer", actual, r, TRUE) /\ Checking
      BY <1>7, <2>1, <2>2, <2>3, <3>1, <3>2 DEF ClusterAlways, ClusterWill, ClusterKnows, Cluster!Places
    <3>3. CASE Step("init", actual, r, c0) /\ ~Checking
      BY <1>1, <1>7, <2>1, <2>2, <2>3, <3>1, <3>3 DEF ClusterAlways, ClusterWill, ClusterKnows,
         Cluster!Places
    <3> QED
      BY <2>1, <2>7, <3>2, <3>3
  <2> QED
    BY <2>1, <2>6, <2>7
<1>23. CASE Cluster!Compare
  <2> DEFINE differs == Cluster!Differences(task, actual.options) # {} \/ task.rotate
             known == [r EXCEPT !.options = actual.options, !.version = actual.version]
  <2>1. /\ run.at = "compare" /\ task.state = "present" /\ ~task.force
        /\ \/ Cluster!Refuse
           \/ /\ actual.member = "manager"
              /\ \/ Step("update", actual, known, differs) /\ differs /\ ~Checking
                 \/ Step("answer", actual, known, differs) /\ (differs => Checking)
    BY <1>2, <1>23, ClusterIsARun
       DEF Cluster!Compare, Cluster!At, Cluster!t, Cluster!now, Cluster!Checking, Checking, ClusterAlways
  <2>2. ~run.disturbed => ~c0 /\ ~run.touched
    BY <1>3, <2>1 DEF ClusterKnows
  <2>3. ClusterWill("compare", task, actual, r, c0) <=> ClusterChange(task, actual)
    BY DEF ClusterWill
  <2>4. known \in ClusterReads /\ known.options = actual.options /\ known.version = actual.version
    BY <1>1, <2>1 DEF ClusterReads, Cluster!Snapshots, Cluster!Indexes
  <2>5. Cluster!Refuse \/ ClusterMore
    <3>1. Cluster!Places = {"info", "inspect", "compare", "update", "init", "verify", "join", "leave", "probe",
                            "drop", "failed", "answer"}
      BY DEF Cluster!Places
    <3> QED
      BY <1>6, <2>1, <3>1
  <2>8. CASE Cluster!Refuse
    BY <1>5, <2>1, <2>8, ClusterIsARun
  <2>6. CASE ~Cluster!Refuse
    <3>1. ClusterChange(task, actual) <=> differs
      BY <2>1, <2>6 DEF ClusterChange
    <3>2. differs \in BOOLEAN /\ (~differs => Cluster!Differences(task, actual.options) = {})
      OBVIOUS
    <3> HIDE DEF differs, known
    <3>3. CASE Step("update", actual, known, differs) /\ differs /\ ~Checking
      <4>1. /\ ClusterAlways("update", task, actual, known, Checking)
            /\ ClusterWill("update", task, actual, known, differs)
            /\ ~run.disturbed =>
                 ClusterKnows("update", task, actual, known, differs, run.touched, Checking)
        BY <2>1, <2>2, <2>4, <2>6, <3>1, <3>3 DEF ClusterAlways, ClusterWill, ClusterKnows
      <4> QED
        BY <1>1, <2>1, <2>3, <2>4, <2>5, <2>6, <3>1, <3>2, <3>3, <4>1, ClusterGoes DEF Cluster!Places
    <3>4. CASE Step("answer", actual, known, differs) /\ (differs => Checking)
      <4>1. /\ ClusterAlways("answer", task, actual, known, Checking)
            /\ ClusterWill("answer", task, actual, known, differs) <=> differs
            /\ ~differs => ClusterMeets(task, actual, known, Checking)
        BY <2>1, <2>6, <3>2 DEF ClusterAlways, ClusterWill, ClusterMeets
      <4>2. ~run.disturbed =>
               ClusterKnows("answer", task, actual, known, differs, run.touched, Checking)
        BY <2>2, <3>1, <3>4, <4>1 DEF ClusterKnows
      <4> QED
        BY <1>1, <2>1, <2>3, <2>4, <2>5, <2>6, <3>1, <3>2, <3>4, <4>1, <4>2, ClusterGoes
           DEF Cluster!Places
    <3> QED
      BY <2>1, <2>6, <3>3, <3>4
  <2> QED
    BY <2>6, <2>8
(* What changes the swarm.                                                 *)
<1>10. ASSUME NEW place \in {"answer", "verify", "failed"}, NEW a \in ClusterHosts,
              Step(place, a, r, TRUE), run.at \in {"update", "init", "join", "leave", "drop"},
              ClusterMore, place = "verify" => task.state = "present",
              ~run.disturbed =>
                /\ place = "answer" =>
                     /\ ClusterMeets(task, a, r, FALSE)
                     /\ ClusterSettles(task, FALSE) => ~ClusterChange(task, a)
                /\ place = "verify" =>
                     a.member = "manager" /\ Cluster!Differences(task, a.options) = {}
       PROVE Goal
  <2>1. ~Checking
    BY <1>2, <1>10 DEF ClusterAlways
  <2>2. /\ ClusterAlways(place, task, a, r, Checking)
        /\ ClusterWill(place, task, a, r, TRUE)
        /\ ClusterWill(run.at, task, actual, r, c0)
    BY <1>10, <2>1 DEF ClusterAlways, ClusterWill
  <2>4. ~run.disturbed =>
           ClusterKnows(place, task, a, r, TRUE, run.touched \/ a # actual, Checking)
    <3>1. ClusterMeets(task, a, r, FALSE) => ClusterMeets(task, a, r, Checking)
      BY DEF ClusterMeets
    <3> QED
      BY <1>10, <2>1, <3>1 DEF ClusterKnows
  <2>3. place \in Cluster!Places
    BY DEF Cluster!Places
  <2> QED
    BY <1>1, <1>10, <2>1, <2>2, <2>3, <2>4, ClusterStep
<1>11. CASE Cluster!Update
  <2> DEFINE options == Cluster!Overlay(r.options, task.options)
             a == Cluster!Updated(options)
  <2>1. /\ run.at = "update" /\ actual.version = r.version /\ actual.member = "manager"
        /\ Step("answer", a, r, TRUE) /\ task.state = "present" /\ r.options = actual.options
    BY <1>2, <1>11, ClusterIsARun
       DEF Cluster!Update, Cluster!At, Cluster!t, Cluster!now, ClusterAlways
  <2>2. /\ options \in [Options -> Values] /\ Cluster!Differences(task, options) = {}
        /\ \A o \in Options \ DOMAIN task.options : options[o] = actual.options[o]
    BY Zenon, <1>1, <2>1, ClusterOverlay
  <2> HIDE DEF options
  <2>3. (actual.version + 1) % 3 \in 0 .. 2
    BY <1>1
  <2>4. a \in ClusterHosts /\ a.options = options /\ a.member = "manager"
    BY <1>1, <2>1, <2>2, <2>3
       DEF Cluster!Updated, ClusterHosts, Cluster!Clusters, Cluster!Indexes
  <2> HIDE DEF a
  <2>5. actual' = a
    BY <2>1 DEF Step
  <2>6. ClusterMore
    BY <2>1, <2>2, <2>4, <2>5 DEF ClusterMore, Cluster!NothingTakenBack, Cluster!RemovalNotRefused,
       Cluster!At, Cluster!t
  <2>7. ~run.disturbed => /\ ClusterMeets(task, a, r, FALSE)
                          /\ ClusterSettles(task, FALSE) => ~ClusterChange(task, a)
    BY <2>1, <2>2, <2>4 DEF ClusterMeets, ClusterSettles, ClusterChange
  <2> QED
    BY <1>10, <2>1, <2>4, <2>6, <2>7
<1>12. CASE Cluster!InitSwarm
  <2> DEFINE options == Cluster!Overlay(Cluster!Defaults, task.options)
             a == [member |-> "manager", options |-> options, version |-> 0, node |-> "gone"]
  <2>1. run.at = "init" /\ task.state = "present" /\ Step("verify", a, r, TRUE)
    BY <1>2, <1>12, ClusterIsARun DEF Cluster!InitSwarm, Cluster!At, Cluster!t, ClusterAlways
  <2>2. Cluster!Defaults \in [Options -> Values]
    BY DockerAssumption DEF Cluster!Defaults, Cluster!TaskAssumption
  <2>3. options \in [Options -> Values] /\ Cluster!Differences(task, options) = {}
    BY <1>1, <2>2, ClusterOverlay
  <2> HIDE DEF options
  <2>4. a \in ClusterHosts /\ a.options = options /\ a.member = "manager"
    BY <2>3 DEF ClusterHosts, Cluster!Clusters, Cluster!Indexes
  <2> HIDE DEF a
  <2>5. ClusterMore
    BY <1>6, <2>1 DEF Cluster!Places
  <2> QED
    BY <1>10, <2>1, <2>3, <2>4, <2>5
<1>13. CASE Cluster!Verify
  <2>1. run.at = "verify" /\ (Step("answer", actual, r, c0) \/ Cluster!Refuse) /\ ~Checking
        /\ task.state = "present"
    BY <1>2, <1>13, ClusterIsARun DEF Cluster!Verify, Cluster!At, ClusterAlways
  <2>2. CASE Step("answer", actual, r, c0)
    <3>1. ~run.disturbed => c0 /\ ClusterMeets(task, actual, r, Checking)
      BY <1>3, <2>1 DEF ClusterKnows, ClusterMeets
    <3>2. ~run.disturbed /\ ClusterSettles(task, FALSE) => ~ClusterChange(task, actual)
      BY <1>3, <2>1 DEF ClusterKnows, ClusterSettles, ClusterChange
    <3>3. /\ ClusterAlways("answer", task, actual, r, Checking)
          /\ ClusterWill("answer", task, actual, r, c0) <=> c0
          /\ ClusterWill("verify", task, actual, r, c0)
      BY DEF ClusterAlways, ClusterWill
    <3>4. ~run.disturbed => ClusterKnows("answer", task, actual, r, c0, run.touched, Checking)
      BY <2>1, <3>1, <3>2 DEF ClusterKnows
    <3> QED
      BY <1>1, <1>7, <2>1, <2>2, <3>1, <3>3, <3>4 DEF Cluster!Places
  <2> QED
    BY <1>5, <2>1, <2>2, ClusterIsARun
<1>14. CASE Cluster!Join \/ Cluster!JoinTimesOut
  <2>1. PICK m \in {"worker", "pending"} :
          /\ run.at = "join" /\ task.state = "join"
          /\ Step(IF m = "worker" THEN "answer" ELSE "failed", [actual EXCEPT !.member = m], r, TRUE)
    BY <1>2, <1>14, ClusterIsARun DEF Cluster!Join, Cluster!JoinTimesOut, Cluster!At, ClusterAlways
  <2> DEFINE a == [actual EXCEPT !.member = m]
             place == IF m = "worker" THEN "answer" ELSE "failed"
  <2>2. a \in ClusterHosts /\ a.member # "no"
    BY <1>1 DEF ClusterHosts, Cluster!Clusters
  <2>3. Step(place, a, r, TRUE)
    BY <2>1
  <2> HIDE DEF a
  <2>4. ClusterMore
    BY <1>6, <2>1, <2>3 DEF Cluster!Places
  <2>5. ClusterMeets(task, a, r, FALSE) /\ ~ClusterChange(task, a)
    BY <2>1, <2>2 DEF ClusterMeets, ClusterChange
  <2> QED
    BY <1>10, <2>1, <2>2, <2>3, <2>4, <2>5
<1>15. CASE Cluster!Leave
  <2>1. run.at = "leave" /\ task.state = "absent" /\ Step("answer", Cluster!Alone, r, TRUE)
    BY <1>2, <1>15, ClusterIsARun DEF Cluster!Leave, Cluster!At, ClusterAlways
  <2>2. Cluster!Alone \in ClusterHosts /\ Cluster!Alone.member = "no"
    BY DockerAssumption
       DEF ClusterHosts, Cluster!Clusters, Cluster!Alone, Cluster!Defaults, Cluster!Indexes,
           Cluster!TaskAssumption
  <2>3. ClusterMore
    BY <1>6, <2>1 DEF Cluster!Places
  <2>4. ClusterMeets(task, Cluster!Alone, r, FALSE) /\ ~ClusterChange(task, Cluster!Alone)
    BY <2>1, <2>2 DEF ClusterMeets, ClusterChange
  <2> QED
    BY <1>10, <2>1, <2>2, <2>3, <2>4
<1>16. CASE Cluster!Probe
  <2> DEFINE known == [r EXCEPT !.attempt = @ + 1]
  <2>1. /\ run.at = "probe" /\ task.state = "remove"
        /\ \/ actual.node = "down" /\ Checking /\ Step("answer", actual, r, TRUE)
           \/ actual.node = "down" /\ ~Checking /\ Step("drop", actual, r, c0)
           \/ r.attempt < 4 /\ Step("probe", actual, known, c0)
           \/ Cluster!Refuse
    <3>1. run.at = "probe" /\ task.state = "remove" /\ r.attempt \in Nat
      BY <1>1, <1>2, <1>16 DEF Cluster!Probe, Cluster!At, ClusterAlways, ClusterReads, Cluster!Snapshots
    <3>2. 5 - 1 = 4
      OBVIOUS
    <3>3. CASE actual.node = "down"
      BY <1>16, <3>1, <3>3, ClusterIsARun DEF Cluster!Probe, Cluster!Checking, Checking
    <3>4. CASE actual.node # "down"
      BY <1>16, <3>1, <3>2, <3>4, ClusterIsARun DEF Cluster!Probe, Cluster!now
    <3> QED
      BY <3>1, <3>3, <3>4
  <2>2. CASE r.attempt < 4 /\ Step("probe", actual, known, c0)
    <3>1. known \in ClusterReads
      BY <1>1, <2>1, <2>2 DEF ClusterReads, Cluster!Snapshots
    <3>2. /\ ClusterMore /\ ClusterAlways("probe", task, actual, known, Checking)
          /\ ~run.disturbed => ClusterKnows("probe", task, actual, known, c0, run.touched, Checking)
      BY <1>3, <1>6, <2>1, <2>2 DEF Cluster!Places, ClusterAlways, ClusterKnows
    <3> QED
      BY <1>1, <2>1, <2>2, <3>1, <3>2, ClusterGoes DEF Cluster!Places, ClusterForetells, ClusterSettles
  <2>3. CASE actual.node = "down" /\ Checking /\ Step("answer", actual, r, TRUE)
    BY <1>3, <1>7, <2>1, <2>3 DEF Cluster!Places, ClusterAlways, ClusterKnows
  <2>4. CASE actual.node = "down" /\ ~Checking /\ Step("drop", actual, r, c0)
    BY <1>1, <1>3, <1>7, <2>1, <2>4 DEF Cluster!Places, ClusterAlways, ClusterKnows
  <2> QED
    BY <1>5, <2>1, <2>2, <2>3, <2>4, ClusterIsARun
<1>17. CASE Cluster!NodeGone
  <2>1. /\ run.at = "probe" /\ task.state = "remove" /\ actual.node = "gone"
        /\ Step("answer", actual, r, c0)
    BY <1>2, <1>17, ClusterIsARun DEF Cluster!NodeGone, Cluster!At, ClusterAlways
  <2>2. ~run.disturbed => ClusterKnows("answer", task, actual, r, c0, run.touched, Checking)
    BY <1>3, <2>1 DEF ClusterKnows, ClusterMeets, ClusterSettles
  <2> QED
    BY <1>1, <1>7, <2>1, <2>2 DEF Cluster!Places, ClusterAlways
<1>18. CASE Cluster!NodeNotInspected
  <2> DEFINE known == [r EXCEPT !.unknown = TRUE]
  <2>1. run.at = "probe" /\ task.state = "remove" /\ Step("answer", actual, known, c0)
    BY <1>2, <1>18, ClusterIsARun DEF Cluster!NodeNotInspected, Cluster!At, Cluster!now, ClusterAlways
  <2>2. known \in ClusterReads /\ known.unknown = TRUE
    BY <1>1, <2>1 DEF ClusterReads, Cluster!Snapshots
  <2>3. /\ ClusterMore /\ ClusterAlways("answer", task, actual, known, Checking)
        /\ ~run.disturbed => ClusterKnows("answer", task, actual, known, c0, run.touched, Checking)
    BY <1>3, <1>6, <2>1, <2>2
       DEF Cluster!Places, ClusterAlways, ClusterKnows, ClusterMeets, ClusterSettles
  <2> QED
    BY <1>1, <2>1, <2>2, <2>3, ClusterGoes DEF Cluster!Places, ClusterForetells, ClusterSettles
<1>19. CASE Cluster!RemoveNode
  <2> DEFINE a == [actual EXCEPT !.node = "gone"]
  <2>1. run.at = "drop" /\ task.state = "remove" /\ Step("answer", a, r, TRUE)
    BY <1>2, <1>19, ClusterIsARun DEF Cluster!RemoveNode, Cluster!At, ClusterAlways
  <2>2. a \in ClusterHosts /\ a.node = "gone"
    BY <1>1 DEF ClusterHosts, Cluster!Clusters
  <2> HIDE DEF a
  <2>3. ClusterMore
    BY <1>6, <2>1 DEF Cluster!Places
  <2>4. ClusterMeets(task, a, r, FALSE) /\ ~ClusterSettles(task, FALSE)
    BY <2>1, <2>2 DEF ClusterMeets, ClusterSettles
  <2> QED
    BY <1>10, <2>1, <2>2, <2>3, <2>4
<1>20. CASE Cluster!EngineRefuses
  <2>1. /\ Stops("refused") /\ run.at \in {"update", "init", "join", "leave", "drop"}
        /\ run.at = "drop" => actual.node # "down"
    BY <1>20, ClusterIsARun DEF Cluster!EngineRefuses, Cluster!At
  <2>2. run.at = "drop" => run.disturbed
    BY <1>3, <2>1 DEF ClusterKnows
  <2> QED
    BY <1>5, <2>1, <2>2
<1>21. CASE Cluster!Finish
  <2>1. \/ run.at = "failed" /\ Stops("failed")
        \/ run.at = "answer" /\ Answer(c0)
    BY <1>21, ClusterIsARun DEF Cluster!Finish, Cluster!At
  <2>2. CASE run.at = "answer" /\ Answer(c0)
    <3>1. ClusterWill("answer", task, actual, r, c0) <=> c0
      BY DEF ClusterWill
    <3>2. ClusterMeets(task, actual, r, Checking) => Cluster!Satisfied(task, actual)
      BY <1>1, <2>2
         DEF ClusterMeets, Cluster!Satisfied, Cluster!Checking, Checking, Cluster!Idle, Cluster!At,
             Cluster!now
    <3>3. ~run.disturbed => /\ IF c0 THEN ~Checking => ClusterMeets(task, actual, r, Checking)
                               ELSE ClusterMeets(task, actual, r, Checking) /\ ~run.touched
                            /\ ~Checking /\ ClusterSettles(task, FALSE) => ~ClusterChange(task, actual)
      BY <1>3, <2>2 DEF ClusterKnows
    <3> QED
      BY <1>1, <1>4, <2>2, <3>1, <3>2, <3>3, ClusterAnswers
  <2> QED
    BY <1>5, <2>1, <2>2
<1>22. CASE Cluster!CallFails({"info", "inspect", "compare", "update", "init", "verify", "join",
                               "leave", "drop"})
             \/ Cluster!Killed
  <2>1. PICK reply \in {"failed", "killed"} : run.at # "idle" /\ Stops(reply)
    BY <1>22, ClusterIsARun DEF Cluster!CallFails, Idle, At
  <2> QED
    BY <1>5, <2>1
<1> QED
  BY <1>8, <1>9, <1>11, <1>12, <1>13, <1>14, <1>15, <1>16, <1>17, <1>18, <1>19, <1>20, <1>21, <1>22,
     <1>23 DEF Cluster!Steps, Cluster!CallError

(* What the managers know of a host stays a state of theirs.               *)
LEMMA ClusterOthers ==
    ASSUME ClusterInv, Cluster!Outside
    PROVE \E a \in ClusterHosts :
             /\ Interferes(a)
             /\ a.version # actual.version \/ a.options = actual.options
<1>1. /\ actual \in ClusterHosts /\ actual.options \in [Options -> Values]
      /\ actual.version \in 0 .. 2
  BY ClusterGiven DEF ClusterHosts, Cluster!Clusters, Cluster!Indexes
<1>2. ASSUME NEW o \in Options, NEW v \in Values,
             Cluster!Interferes(Cluster!Updated([actual.options EXCEPT ![o] = v]))
      PROVE \E a \in ClusterHosts : Interferes(a) /\ a.version # actual.version
  <2> DEFINE f == [actual.options EXCEPT ![o] = v]
             a == Cluster!Updated(f)
  <2>1. f \in [Options -> Values]
    BY <1>1
  <2>2. (actual.version + 1) % 3 \in 0 .. 2 /\ (actual.version + 1) % 3 # actual.version
    BY <1>1
  <2> HIDE DEF f
  <2>3. a \in ClusterHosts /\ a.version # actual.version
    BY <1>1, <2>1, <2>2 DEF Cluster!Updated, ClusterHosts, Cluster!Clusters, Cluster!Indexes
  <2>4. Interferes(a)
    BY <1>2, ClusterIsARun DEF f
  <2> QED
    BY <2>3, <2>4
<1>3. ASSUME NEW m \in {"no", "worker", "manager"}, NEW n \in {"gone", "ready", "down"},
             Interferes([actual EXCEPT !.member = m, !.node = n])
      PROVE \E a \in ClusterHosts : Interferes(a) /\ a.options = actual.options
  <2> DEFINE a == [actual EXCEPT !.member = m, !.node = n]
  <2>1. a \in ClusterHosts /\ a.options = actual.options
    BY <1>1 DEF ClusterHosts, Cluster!Clusters
  <2> QED
    BY <1>3, <2>1
<1>4. ASSUME NEW m \in {"no", "worker"}, Interferes([actual EXCEPT !.member = m])
      PROVE \E a \in ClusterHosts : Interferes(a) /\ a.options = actual.options
  <2> DEFINE a == [actual EXCEPT !.member = m]
  <2>1. a \in ClusterHosts /\ a.options = actual.options
    BY <1>1 DEF ClusterHosts, Cluster!Clusters
  <2> QED
    BY <1>4, <2>1
<1>5. \/ \E o \in Options, v \in Values :
            Cluster!Interferes(Cluster!Updated([actual.options EXCEPT ![o] = v]))
      \/ \E m \in {"worker", "manager"}, n \in {"gone", "ready"} :
            Interferes([actual EXCEPT !.member = m, !.node = n])
      \/ \E m \in {"no", "worker"} : Interferes([actual EXCEPT !.member = m])
  BY ClusterIsARun DEF Cluster!Outside
<1>6. (\E a \in ClusterHosts : Interferes(a) /\ a.version # actual.version)
      \/ (\E a \in ClusterHosts : Interferes(a) /\ a.options = actual.options)
  BY <1>2, <1>3, <1>4, <1>5
<1> QED
  BY <1>6

LEMMA ClusterNext ==
    ClusterInv /\ module = "swarm" /\ [Cluster!Next]_vars => ClusterInv' /\ ClusterRespects
<1> SUFFICES ASSUME ClusterInv, module = "swarm", [Cluster!Next]_vars PROVE ClusterInv' /\ ClusterRespects
  OBVIOUS
<1>1. actual \in ClusterHosts /\ run.touched \in BOOLEAN /\ run.disturbed \in BOOLEAN
  BY ClusterGiven
<1>2. CASE Cluster!Start
  <2>1. PICK task \in ClusterTasks, m \in {"check", "apply"} : Begin(task, m, "info", Cluster!Nothing)
    BY <1>2, ClusterIsARun DEF Cluster!Start
  <2>2. run.at = "idle" /\ ClusterMore
    BY <2>1 DEF Begin, Idle, At, ClusterMore, Cluster!NothingTakenBack, Cluster!RemovalNotRefused,
       Cluster!At
  <2>3. Cluster!Nothing \in ClusterReads
    BY DockerAssumption DEF ClusterReads, Cluster!Snapshots, Cluster!Nothing, Cluster!Defaults,
       Cluster!Indexes, Cluster!TaskAssumption
  <2>4. /\ ClusterAlways("info", task, actual, Cluster!Nothing, m = "check")
        /\ ClusterKnows("info", task, actual, Cluster!Nothing, FALSE, FALSE, m = "check")
        /\ ClusterWill("info", task, actual, Cluster!Nothing, FALSE) <=> ClusterChange(task, actual)
        /\ ClusterSettles(task, TRUE) => ClusterSettles(task, FALSE)
    BY DEF ClusterKnows, ClusterWill, ClusterAlways, ClusterSettles
  <2> QED
    BY <2>1, <2>2, <2>3, <2>4, ClusterBegins DEF Cluster!Places
<1>3. ASSUME NEW a \in ClusterHosts, Interferes(a), run.at = "idle" \/ ~run.disturbed,
             a.version # actual.version \/ a.options = actual.options
      PROVE ClusterInv' /\ ClusterRespects
  <2>1. run.at # "idle" => run'.at # "idle" /\ run'.at = run.at
    BY <1>3 DEF Interferes, Idle, At, ClusterInv, RunTyped, RunStates
  <2>2. ClusterMore
    BY <2>1 DEF ClusterMore, Cluster!NothingTakenBack, Cluster!RemovalNotRefused, Cluster!At,
       Cluster!Answers, Cluster!Idle
  <2>3. run.at # "idle" => ClusterAlways(run.at, run.task, a, run.read, Checking)
    <3>1. run.at = "update" => run.read.options = actual.options /\ run.read.version = actual.version
      BY <1>3, ClusterRuns DEF ClusterFine, ClusterKnows
    <3> QED
      BY <1>3, <3>1 DEF ClusterInv, ClusterAlways
  <2> QED
    BY <1>3, <2>2, <2>3, ClusterInterferes
<1>4. CASE Cluster!NodeGoesDown
  <2> DEFINE a == [actual EXCEPT !.node = "down"]
  <2>1. /\ a \in ClusterHosts /\ a.options = actual.options
        /\ \/ run.at = "probe" /\ Awaited(a)
           \/ (run.at = "idle" \/ ~run.disturbed) /\ Interferes(a)
    BY <1>1, <1>4, ClusterIsARun
       DEF Cluster!NodeGoesDown, Cluster!At, ClusterHosts, Cluster!Clusters, Undisturbed, Idle, At
  <2> HIDE DEF a
  <2>2. CASE run.at = "probe" /\ Awaited(a)
    <3>1. /\ RunTyped(ClusterHosts, ClusterTasks, Cluster!Places, ClusterReads)'
          /\ actual' = a /\ run' = run /\ ~memo'.settled /\ memo'.forecast = "none"
      BY <2>1, <2>2, RunAwaited DEF ClusterInv
    <3>2. run.task.state = "remove"
      BY <2>2 DEF ClusterInv, ClusterAlways
    <3>3. ClusterAlways(run'.at, run'.task, actual', run'.read, Checking')
      BY <2>2, <3>1, <3>2 DEF ClusterAlways
    <3>4. ~run'.disturbed =>
            ClusterFine(run'.at, run'.task, actual', run'.read, run'.changed, run'.touched, Checking',
                        run'.expect, run'.again)
      <4>1. ~run.disturbed =>
              ClusterKnows("probe", run.task, actual, run.read, run.changed, run.touched, Checking)
        BY <2>2, ClusterRuns DEF ClusterFine
      <4>2. ~run.disturbed =>
              ClusterKnows("probe", run.task, a, run.read, run.changed, run.touched, Checking)
        BY <4>1 DEF ClusterKnows
      <4>3. ~ClusterForetells(run.task) /\ ~ClusterSettles(run.task, Checking)
        BY <3>2 DEF ClusterForetells, ClusterSettles
      <4>4. Checking' = Checking
        BY <3>1 DEF Checking
      <4> QED
        BY <2>2, <3>1, <4>2, <4>3, <4>4 DEF ClusterFine
    <3>5. ClusterInv'
      BY <3>1, <3>3, <3>4 DEF ClusterInv
    <3>6. RunMoves /\ ClusterMore /\ ~AnswersOK
      BY <2>2, <3>1, <3>2
      DEF RunMoves, ClusterMore, Cluster!NothingTakenBack, Cluster!RemovalNotRefused, Cluster!At, AnswersOK, Answers, Idle, At
    <3> QED
      BY <3>5, <3>6, ClusterSilent
  <2> QED
    BY <1>3, <2>1, <2>2
<1>5. CASE Cluster!Undisturbed /\ Cluster!Outside
  BY <1>3, <1>5, ClusterOthers, ClusterIsARun DEF Undisturbed, Idle, At
<1>6. CASE UNCHANGED vars
  <2>1. ClusterMore
    BY <1>6 DEF vars, ClusterMore, Cluster!NothingTakenBack, Cluster!RemovalNotRefused, Cluster!At,
       Cluster!Answers, Cluster!Idle
  <2> QED
    BY <1>6, <2>1, ClusterStutters
<1> QED
  BY <1>2, <1>4, <1>5, <1>6, ClusterSteps DEF Cluster!Next

LEMMA ClusterSafe == ClusterInv => Cluster!TypeOK
<1> SUFFICES ASSUME ClusterInv PROVE Cluster!TypeOK
  OBVIOUS
<1>1. Checking => run.at \notin {"update", "init", "join", "leave", "drop"}
  BY DEF ClusterInv, ClusterAlways
<1> QED
  BY <1>1 DEF ClusterInv, RunTyped, ClusterHosts, ClusterReads, Cluster!TypeOK, Cluster!Memos, Memos,
     Cluster!RunStates, RunStates, Cluster!Forecasts, Forecasts, Cluster!Replies, Replies,
     Cluster!Checking, Checking

LEMMA ClusterHolds ==
    ASSUME NEW task \in Cluster!Requests, NEW h, ClusterInv
    PROVE Cluster!Satisfied(task, h) \in BOOLEAN
<1>1. run.at # "idle" => run.read.unknown \in BOOLEAN
  BY ClusterGiven DEF ClusterReads, Cluster!Snapshots
<1>2. task.state \in {"present", "join", "absent", "remove"}
  BY DEF Cluster!Requests
<1> QED
  BY <1>1, <1>2 DEF Cluster!Satisfied, Cluster!Checking, Cluster!Idle, Cluster!At, Cluster!now
-----------------------------------------------------------------------------
(* docker_config and docker_secret.  Among the versions of a config there  *)
(* is a newest one and an oldest one.                                      *)
LEMMA Least ==
    ASSUME NEW S, S \subseteq Nat, S # {}
    PROVE \E x \in S : \A y \in S : x <= y
<1> DEFINE R == OpToRel(<, Nat)
<1>1. IsWellFoundedOn(R, Nat)
  BY Zenon, NatLessThanWellFounded
<1>2. \A x, y \in Nat : y < x => <<y, x>> \in R
  BY DEF OpToRel
<1> HIDE DEF R
<1>3. PICK x \in S : \A y \in S : ~ (<<y, x>> \in R)
  BY <1>1, WFMin
<1>4. ASSUME NEW y \in S PROVE x <= y
  <2>1. ~(y < x)
    BY <1>2, <1>3
  <2>2. x \in Nat /\ y \in Nat
    OBVIOUS
  <2> QED
    BY <2>1, <2>2
<1> QED
  BY <1>4

LEMMA Greatest ==
    ASSUME NEW n \in Nat, NEW S, S \subseteq 0 .. n, S # {}
    PROVE \E x \in S : \A y \in S : x >= y
<1> DEFINE T == {n - x : x \in S}
<1>0. \A x \in S : n - x \in Nat /\ x \in Int
  OBVIOUS
<1>1. T \subseteq Nat /\ T # {}
  BY <1>0
<1>2. PICK z \in T : \A y \in T : z <= y
  <2> HIDE DEF T
  <2> QED
    BY <1>1, Least
<1>3. PICK x \in S : z = n - x
  OBVIOUS
<1>4. ASSUME NEW y \in S PROVE x >= y
  <2>1. n - x <= n - y
    BY <1>2, <1>3
  <2>2. x \in Int /\ y \in Int
    BY <1>0
  <2> QED
    BY <2>1, <2>2
<1> QED
  BY <1>4

LEMMA DataEnds ==
    ASSUME NEW S, S \subseteq Data!ConfigNames, S # {}
    PROVE /\ S \subseteq Int
          /\ Data!Max(S) \in S /\ \A y \in S : Data!Max(S) >= y
          /\ Data!Min(S) \in S /\ \A y \in S : Data!Min(S) <= y
<1>1. MaxVersion \in Nat
  BY DockerAssumption DEF Data!TaskAssumption
<1>2. S \subseteq 0 .. MaxVersion + 1 /\ MaxVersion + 1 \in Nat
  BY <1>1 DEF Data!ConfigNames
<1>3. \E x \in S : \A y \in S : x >= y
  BY <1>2, Greatest
<1>4. \E x \in S : \A y \in S : x <= y
  <2>1. S \subseteq Nat
    BY <1>2
  <2> QED
    BY <2>1, Least
<1>5. Data!Max(S) \in S /\ \A y \in S : Data!Max(S) >= y
  BY <1>3 DEF Data!Max
<1>6. Data!Min(S) \in S /\ \A y \in S : Data!Min(S) <= y
  BY <1>4 DEF Data!Min
<1>7. S \subseteq Int
  BY <1>2
<1> QED
  BY <1>5, <1>6, <1>7

(* The newest is one of those with a number, if there are any.             *)
LEMMA DataNames ==
    ASSUME NEW S, NEW N, S \subseteq Data!ConfigNames, S # {}
    PROVE /\ Data!Newest(S, N) \in S /\ Data!Oldest(S, N) \in S
          /\ S \cap N # {} => Data!Newest(S, N) \in N
          /\ \A y \in S \cap N : Data!Newest(S, N) >= y
<1>1. CASE S \cap N = {}
  <2>1. Data!Newest(S, N) = Data!Max(S) /\ Data!Oldest(S, N) \in {Data!Min(S), Data!Min(S \ N)}
        /\ S \ N = S
    BY <1>1 DEF Data!Newest, Data!Oldest
  <2> QED
    BY <1>1, <2>1, DataEnds
<1>2. CASE S \cap N # {}
  <2>1. S \cap N \subseteq Data!ConfigNames /\ S \ N \subseteq Data!ConfigNames
    OBVIOUS
  <2>2. Data!Newest(S, N) = Data!Max(S \cap N)
    BY <1>2 DEF Data!Newest
  <2>3. Data!Newest(S, N) \in S \cap N /\ \A y \in S \cap N : Data!Newest(S, N) >= y
    BY <1>2, <2>1, <2>2, DataEnds
  <2>4. Data!Oldest(S, N) \in S
    <3>1. CASE S \subseteq N
      BY <3>1, DataEnds DEF Data!Oldest
    <3>2. CASE ~(S \subseteq N)
      <4>1. S \ N # {} /\ Data!Oldest(S, N) = Data!Min(S \ N)
        BY <3>2 DEF Data!Oldest
      <4> QED
        BY <2>1, <4>1, DataEnds
    <3> QED
      BY <3>1, <3>2
  <2> QED
    BY <2>3, <2>4
<1> QED
  BY <1>1, <1>2

(* Only the numbers of those that are looked at matter.                    *)
LEMMA DataAgrees ==
    ASSUME NEW S, NEW N, NEW M, S \cap N = S \cap M
    PROVE Data!Newest(S, N) = Data!Newest(S, M) /\ Data!Oldest(S, N) = Data!Oldest(S, M)
<1>1. S \ N = S \ M /\ (S \subseteq N <=> S \subseteq M)
  OBVIOUS
<1>2. Data!Newest(S, N) = Data!Newest(S, M)
  BY DEF Data!Newest
<1>3. Data!Oldest(S, N) = Data!Oldest(S, M)
  BY <1>1 DEF Data!Oldest
<1> QED
  BY <1>2, <1>3

(* The config that others may have by the name of another one has no       *)
(* number.                                                                 *)
DataHosts ==
    {f \in UNION {[D -> Data!Configs] : D \in SUBSET Data!ConfigNames} :
        Data!Other \in DOMAIN f => ~f[Data!Other].numbered}
DataReads == Data!Snapshots
DataForetells(task) == TRUE
DataSettles(task, checking) == task.state = "absent" \/ ~task.force
DataHides(task) == FALSE
DataMore == Data!Recovers /\ Data!NeverWithout

(* The config that counts.                                                 *)
DataTop(task, h) == Data!Newest(Data!Listed(task, h), Data!Numbered(h))
DataChange(task, h) ==
    LET old == Data!Listed(task, h) IN
    \/ task.state = "absent" /\ old # {}
    \/ task.state = "present" /\ (old = {} \/ task.force \/ Data!Differs(task, h[DataTop(task, h)]))
DataWill(place, task, h, r, c) ==
    CASE place = "list" -> DataChange(task, h)
      [] place = "remove" -> task.state = "present" \/ c \/ r.todo # {}
      [] place = "create" -> TRUE
      [] OTHER -> c
DataAlways(place, task, h, r, checking) ==
    /\ place \in {"remove", "create", "prune"} => ~checking
    /\ place \in {"create", "prune"} => task.state = "present"
    /\ place = "list" => r.then = "answer"
    /\ place = "remove" => r.then = IF task.state = "present" THEN "create" ELSE "answer"
    /\ place = "remove" /\ task.state = "present" => ~task.rolling
    /\ place = "create" /\ ~task.rolling => r.todo = {}
(* The config the task asks for is there, and is the newest.               *)
DataThere(task, h) ==
    Data!Listed(task, h) # {} /\ ~Data!Differs(task, h[DataTop(task, h)])
DataKnows(place, task, h, r, c, touched, checking) ==
    /\ checking => ~touched
    /\ touched => c
    /\ place = "list" => ~c
    /\ place \in {"remove", "create", "prune"} => r.todo = Data!Listed(task, h)
    /\ place \in {"create", "prune"} /\ task.rolling =>
          r.todo \cap r.numbered = r.todo \cap Data!Numbered(h)
    /\ place = "create" /\ task.rolling =>
          r.version = IF r.todo # {} THEN Data!VersionOf(DataTop(task, h), Data!Numbered(h)) ELSE 0
    /\ place = "prune" => DataThere(task, h) /\ (~c => ~DataChange(task, h))
    /\ place = "answer" =>
          /\ task.state = "absent" => (checking /\ c) \/ Data!Listed(task, h) = {}
          /\ task.state = "present" => (checking /\ c) \/ DataThere(task, h)
          /\ ~c => ~DataChange(task, h)
DataFine(place, task, h, r, c, touched, checking, expect, again) ==
    /\ DataKnows(place, task, h, r, c, touched, checking)
    /\ ~checking /\ expect # "none" /\ DataForetells(task) =>
          (expect = "changed" <=> DataWill(place, task, h, r, c))
    /\ checking /\ DataForetells(task) => (DataWill(place, task, h, r, c) <=> DataChange(task, h))
    /\ again /\ DataSettles(task, checking) => ~DataWill(place, task, h, r, c) /\ ~touched
DataInv ==
    /\ RunTyped(DataHosts, DataTasks, Data!Places, DataReads)
    /\ run.at # "idle" => DataAlways(run.at, run.task, actual, run.read, Checking)
    /\ run.at # "idle" /\ ~run.disturbed =>
          DataFine(run.at, run.task, actual, run.read, run.changed, run.touched, Checking,
                run.expect, run.again)
    /\ memo.forecast # "none" /\ DataForetells(run.task) =>
          (memo.forecast = "changed" <=> DataChange(run.task, actual))
    /\ memo.settled /\ DataSettles(run.task, FALSE) => ~DataChange(run.task, actual)
DataRespects ==
    /\ RunMoves /\ Truthful(Data!Satisfied(run.task, actual), DataHides(run.task))
    /\ Data!Predicts /\ Data!Idempotent /\ DataMore

LEMMA DataGiven ==
    DataInv =>
      /\ actual \in DataHosts /\ run.changed \in BOOLEAN /\ run.touched \in BOOLEAN
      /\ "idle" \notin Data!Places /\ run.at \in Data!Places \union {"idle"}
      /\ run.task \in DataTasks /\ run.mode \in {"check", "apply"} /\ run.disturbed \in BOOLEAN
      /\ run.at # "idle" => run.read \in DataReads /\ run.reply = "none"
  BY DEF DataInv, RunTyped, RunStates, Idle, At, Data!Places

LEMMA DataRuns ==
    DataInv /\ run.at # "idle" /\ ~run.disturbed =>
      DataFine(run.at, run.task, actual, run.read, run.changed, run.touched, Checking,
            run.expect, run.again)
  BY DEF DataInv

LEMMA DataSilent ==
    ASSUME ~AnswersOK, RunMoves, DataMore PROVE DataRespects
  BY DEF DataRespects, Truthful, Data!Predicts, Data!Foretold, Data!Idempotent, Data!Unchanging,
     Data!AnswersOK, AnswersOK, Data!Answers, Answers, Data!Idle, Idle, Data!At, At

LEMMA DataStep ==
    ASSUME DataInv, run.at # "idle", NEW place \in Data!Places, NEW a \in DataHosts,
           NEW r \in DataReads, NEW c \in BOOLEAN, Step(place, a, r, c), DataMore,
           Checking => a = actual, DataAlways(place, run.task, a, r, Checking),
           ~run.disturbed =>
             /\ DataKnows(place, run.task, a, r, c, run.touched \/ a # actual, Checking)
             /\ DataForetells(run.task) =>
                  (DataWill(place, run.task, a, r, c) <=>
                     DataWill(run.at, run.task, actual, run.read, run.changed))
             /\ DataSettles(run.task, Checking) /\ (a # actual \/ DataWill(place, run.task, a, r, c)) =>
                  DataWill(run.at, run.task, actual, run.read, run.changed)
    PROVE DataInv' /\ DataRespects
<1>1. /\ RunTyped(DataHosts, DataTasks, Data!Places, DataReads)' /\ actual' = a
      /\ run'.at = place /\ run'.read = r /\ run'.changed = c /\ run'.task = run.task
      /\ run'.mode = run.mode /\ run'.expect = run.expect /\ run'.again = run.again
      /\ run'.disturbed = run.disturbed /\ run'.touched = (run.touched \/ a # actual)
      /\ memo'.settled => memo.settled /\ a = actual
      /\ memo'.forecast # "none" => memo'.forecast = memo.forecast /\ a = actual
      /\ RunMoves /\ place # "idle"
  <2>1. /\ RunTyped(DataHosts, DataTasks, Data!Places, DataReads) /\ "idle" \notin Data!Places
        /\ ~Idle /\ place # "idle"
    BY DataGiven DEF DataInv, Idle, At
  <2> QED
    BY <2>1, RunStep
<1>2. DataInv'
  <2>1. DataAlways(run'.at, run'.task, actual', run'.read, Checking')
    BY <1>1 DEF Checking
  <2>2. ASSUME ~run'.disturbed
        PROVE DataFine(run'.at, run'.task, actual', run'.read, run'.changed, run'.touched, Checking',
                    run'.expect, run'.again)
    <3>1. DataFine(run.at, run.task, actual, run.read, run.changed, run.touched, Checking,
                run.expect, run.again)
      BY <1>1, <2>2, DataRuns
    <3>2. DataFine(place, run.task, a, r, c, run.touched \/ a # actual, Checking,
                run.expect, run.again)
      BY <1>1, <2>2, <3>1 DEF DataFine
    <3> QED
      BY <1>1, <3>2 DEF Checking
  <2>3. /\ memo'.forecast # "none" /\ DataForetells(run'.task) =>
             (memo'.forecast = "changed" <=> DataChange(run'.task, actual'))
        /\ memo'.settled /\ DataSettles(run'.task, FALSE) => ~DataChange(run'.task, actual')
    BY <1>1 DEF DataInv
  <2> QED
    BY <1>1, <2>1, <2>2, <2>3 DEF DataInv
<1> QED
  BY <1>1, <1>2, RunSilent, DataSilent

LEMMA DataGoes ==
    ASSUME DataInv, run.at # "idle", NEW place \in Data!Places, NEW r \in DataReads, NEW c \in BOOLEAN,
           Step(place, actual, r, c), DataMore, DataAlways(place, run.task, actual, r, Checking),
           ~run.disturbed =>
             /\ DataKnows(place, run.task, actual, r, c, run.touched, Checking)
             /\ DataForetells(run.task) =>
                  (DataWill(place, run.task, actual, r, c) <=>
                     DataWill(run.at, run.task, actual, run.read, run.changed))
             /\ DataSettles(run.task, Checking) /\ DataWill(place, run.task, actual, r, c) =>
                  DataWill(run.at, run.task, actual, run.read, run.changed)
    PROVE DataInv' /\ DataRespects
<1>1. actual \in DataHosts /\ (run.touched \/ actual # actual) = run.touched
  BY DataGiven
<1> QED
  BY <1>1, DataStep

LEMMA DataStops ==
    ASSUME DataInv, run.at # "idle", NEW reply \in {"failed", "refused", "killed"}, Stops(reply), DataMore
    PROVE DataInv' /\ DataRespects
<1>1. /\ RunTyped(DataHosts, DataTasks, Data!Places, DataReads)' /\ run'.at = "idle" /\ actual' = actual
      /\ run'.reply = reply /\ run'.task = run.task /\ memo' = memo /\ RunMoves
  BY RunStops DEF DataInv, Replies, Idle, At
<1>2. DataInv'
  BY <1>1 DEF DataInv
<1> QED
  BY <1>1, <1>2, RunSilent, DataSilent

LEMMA DataAnswers ==
    ASSUME DataInv, run.at # "idle", NEW c \in BOOLEAN, Answer(c), DataMore,
           ~run.disturbed =>
             /\ c <=> DataWill(run.at, run.task, actual, run.read, run.changed)
             /\ IF c THEN ~Checking => Data!Satisfied(run.task, actual)
                     ELSE Data!Satisfied(run.task, actual) /\ (run.touched => DataHides(run.task))
             /\ ~Checking /\ DataSettles(run.task, FALSE) => ~DataChange(run.task, actual)
    PROVE DataInv' /\ DataRespects
<1>1. /\ RunTyped(DataHosts, DataTasks, Data!Places, DataReads)' /\ run'.at = "idle" /\ actual' = actual
      /\ run'.reply = "ok" /\ run'.changed = c /\ run'.task = run.task /\ run'.mode = run.mode
      /\ IF Checking THEN memo'.settled = memo.settled ELSE memo'.settled => ~run.disturbed
      /\ memo'.forecast # "none" =>
            Checking /\ ~run.disturbed /\ (memo'.forecast = "changed" <=> c)
      /\ RunMoves
  BY RunAnswers DEF DataInv, Idle, At
<1>0. ~run.disturbed =>
        /\ ~Checking /\ run.expect # "none" /\ DataForetells(run.task) => (run.expect = "changed" <=> c)
        /\ Checking /\ DataForetells(run.task) => (c <=> DataChange(run.task, actual))
        /\ run.again /\ DataSettles(run.task, Checking) => ~c /\ ~run.touched
  BY DataRuns DEF DataFine
<1>2. DataInv'
  <2>1. memo'.forecast # "none" /\ DataForetells(run'.task) =>
             (memo'.forecast = "changed" <=> DataChange(run'.task, actual'))
    <3>1. ~run.disturbed /\ Checking /\ DataForetells(run.task) => (c <=> DataChange(run.task, actual))
      BY <1>0
    <3> QED
      BY <1>1, <3>1
  <2>2. memo'.settled /\ DataSettles(run'.task, FALSE) => ~DataChange(run'.task, actual')
    BY <1>1 DEF DataInv
  <2> QED
    BY <1>1, <2>1, <2>2 DEF DataInv
<1>3. Truthful(Data!Satisfied(run.task, actual), DataHides(run.task))
  BY <1>1 DEF Truthful
<1>5. Data!Predicts
  BY <1>0, <1>1 DEF Data!Predicts, Data!Foretold, Data!Checking, Checking, Data!t, DataForetells
<1>6. Data!Idempotent
  BY <1>0, <1>1 DEF Data!Idempotent, Data!Unchanging, Data!Checking, Checking, Data!t, DataSettles
<1> QED
  BY <1>1, <1>2, <1>3, <1>5, <1>6 DEF DataRespects

LEMMA DataBegins ==
    ASSUME DataInv, run.at = "idle", NEW task \in DataTasks, NEW m \in {"check", "apply"},
           NEW place \in Data!Places, NEW r \in DataReads, Begin(task, m, place, r), DataMore,
           DataAlways(place, task, actual, r, m = "check"),
           DataKnows(place, task, actual, r, FALSE, FALSE, m = "check"),
           \/ m = "check" /\ ~DataSettles(task, TRUE) /\ ~DataForetells(task)
           \/ DataWill(place, task, actual, r, FALSE) <=> DataChange(task, actual),
           DataSettles(task, TRUE) => DataSettles(task, FALSE)
    PROVE DataInv' /\ DataRespects
<1>1. /\ RunTyped(DataHosts, DataTasks, Data!Places, DataReads)' /\ actual' = actual
      /\ run'.at = place /\ run'.read = r /\ run'.task = task /\ run'.mode = m
      /\ run'.disturbed = FALSE /\ run'.touched = FALSE /\ run'.changed = FALSE /\ RunMoves
      /\ run'.again \/ memo'.settled => memo.settled /\ task = run.task
      /\ run'.expect # "none" => run'.expect = memo.forecast /\ task = run.task
      /\ memo'.forecast # "none" => memo'.forecast = memo.forecast /\ task = run.task
      /\ Checking' = (m = "check") /\ run'.at # "idle"
  <2>1. /\ RunTyped(DataHosts, DataTasks, Data!Places, DataReads)' /\ actual' = actual
        /\ run'.at = place /\ run'.read = r /\ run'.task = task /\ run'.mode = m
        /\ ~run'.disturbed /\ ~run'.touched /\ ~run'.changed /\ RunMoves
        /\ run'.again \/ memo'.settled => memo.settled /\ task = run.task
        /\ run'.expect # "none" => run'.expect = memo.forecast /\ task = run.task
        /\ memo'.forecast # "none" => memo'.forecast = memo.forecast /\ task = run.task
    <3>1. RunTyped(DataHosts, DataTasks, Data!Places, DataReads) /\ "idle" \notin Data!Places
      BY DataGiven DEF DataInv
    <3> QED
      BY <3>1, RunBegin
  <2>2. /\ run'.disturbed \in BOOLEAN /\ run'.touched \in BOOLEAN /\ run'.changed \in BOOLEAN
    BY <2>1 DEF RunTyped, RunStates
  <2> QED
    BY <2>1, <2>2, DataGiven DEF Checking
<1>2. DataInv'
  <2>1. DataAlways(run'.at, run'.task, actual', run'.read, Checking')
    BY <1>1
  <2>2. /\ memo'.forecast # "none" /\ DataForetells(run'.task) =>
             (memo'.forecast = "changed" <=> DataChange(run'.task, actual'))
        /\ memo'.settled /\ DataSettles(run'.task, FALSE) => ~DataChange(run'.task, actual')
    BY <1>1 DEF DataInv
  <2>3. DataFine(run'.at, run'.task, actual', run'.read, run'.changed, run'.touched, Checking',
              run'.expect, run'.again)
    <3>1. ~Checking' /\ run'.expect # "none" /\ DataForetells(task) =>
             (run'.expect = "changed" <=> DataWill(place, task, actual, r, FALSE))
      BY <1>1 DEF DataInv
    <3>2. run'.again /\ DataSettles(task, Checking') => ~DataWill(place, task, actual, r, FALSE)
      BY <1>1 DEF DataInv
    <3>3. DataFine(place, task, actual, r, FALSE, FALSE, Checking', run'.expect, run'.again)
      BY <1>1, <3>1, <3>2 DEF DataFine
    <3> QED
      BY <1>1, <3>3
  <2> QED
    BY <1>1, <2>1, <2>2, <2>3 DEF DataInv
<1> QED
  BY <1>1, <1>2, RunSilent, DataSilent DEF Idle, At

LEMMA DataInterferes ==
    ASSUME DataInv, NEW a \in DataHosts, Interferes(a), DataMore,
           run.at # "idle" => DataAlways(run.at, run.task, a, run.read, Checking)
    PROVE DataInv' /\ DataRespects
<1>1. /\ RunTyped(DataHosts, DataTasks, Data!Places, DataReads)' /\ actual' = a
      /\ run'.at = run.at /\ run'.read = run.read /\ run'.task = run.task
      /\ run'.mode = run.mode /\ (run.at = "idle" \/ run'.disturbed)
      /\ ~memo'.settled /\ memo'.forecast = "none" /\ RunMoves
  BY RunInterferes DEF DataInv
<1>2. DataInv'
  BY <1>1 DEF DataInv, Checking
<1>3. ~AnswersOK
  BY <1>1 DEF AnswersOK, Answers, Idle, At
<1> QED
  BY <1>1, <1>2, <1>3, DataSilent

LEMMA DataStutters == ASSUME DataInv, UNCHANGED vars, DataMore PROVE DataInv' /\ DataRespects
<1>1. run' = run /\ actual' = actual /\ memo' = memo
  BY DEF vars
<1>2. DataInv'
  BY <1>1 DEF DataInv, RunTyped, Idle, At, Checking
<1>3. ~AnswersOK /\ RunMoves
  BY <1>1 DEF AnswersOK, Answers, Idle, At, RunMoves
<1> QED
  BY <1>2, <1>3, DataSilent

LEMMA DataStore ==
    ASSUME NEW f
    PROVE f \in DataHosts <=>
            /\ f = [n \in DOMAIN f |-> f[n]] /\ DOMAIN f \subseteq Data!ConfigNames
            /\ \A n \in DOMAIN f : f[n] \in Data!Configs
            /\ Data!Other \in DOMAIN f => ~f[Data!Other].numbered
  BY DEF DataHosts

(* A store without one of its configs, and with one more or a new one.     *)
LEMMA DataWithout ==
    ASSUME actual \in DataHosts, NEW n
    PROVE LET h == Data!Without(n) IN
          /\ h \in DataHosts /\ DOMAIN h = DOMAIN actual \ {n}
          /\ \A m \in DOMAIN h : h[m] = actual[m]
          /\ \A task : Data!Listed(task, h) = Data!Listed(task, actual) \ {n}
          /\ Data!Numbered(h) = Data!Numbered(actual) \ {n}
<1>1. /\ DOMAIN Data!Without(n) = DOMAIN actual \ {n}
      /\ \A m \in DOMAIN Data!Without(n) : Data!Without(n)[m] = actual[m]
      /\ Data!Without(n) = [m \in DOMAIN Data!Without(n) |-> Data!Without(n)[m]]
  BY DEF Data!Without
<1>2. \A task : Data!Listed(task, Data!Without(n)) = Data!Listed(task, actual) \ {n}
  BY <1>1 DEF Data!Listed
<1>3. Data!Without(n) \in DataHosts
  BY <1>1, DataStore
<1>4. Data!Numbered(Data!Without(n)) = Data!Numbered(actual) \ {n}
  BY <1>1 DEF Data!Numbered
<1> QED
  BY <1>1, <1>2, <1>3, <1>4

LEMMA DataWith ==
    ASSUME actual \in DataHosts, NEW n \in Data!ConfigNames, NEW c \in Data!Configs,
           n = Data!Other => ~c.numbered
    PROVE LET h == Data!With(n, c) IN
          /\ h \in DataHosts /\ DOMAIN h = DOMAIN actual \union {n} /\ h[n] = c
          /\ \A task : n \in (IF task.rolling THEN Data!ConfigNames \ {Data!Plain} ELSE {Data!Plain}) =>
                         Data!Listed(task, h) = Data!Listed(task, actual) \union {n}
          /\ n \notin DOMAIN actual =>
               Data!Numbered(h) = Data!Numbered(actual) \union (IF c.numbered THEN {n} ELSE {})
<1>1. /\ DOMAIN Data!With(n, c) = DOMAIN actual \union {n} /\ Data!With(n, c)[n] = c
      /\ \A m \in DOMAIN Data!With(n, c) : Data!With(n, c)[m] = IF m = n THEN c ELSE actual[m]
      /\ Data!With(n, c) = [m \in DOMAIN Data!With(n, c) |-> Data!With(n, c)[m]]
  BY DEF Data!With
<1>2. \A task : n \in (IF task.rolling THEN Data!ConfigNames \ {Data!Plain} ELSE {Data!Plain}) =>
                  Data!Listed(task, Data!With(n, c)) = Data!Listed(task, actual) \union {n}
  BY <1>1 DEF Data!Listed
<1>3. Data!With(n, c) \in DataHosts
  <2>1. \A m \in DOMAIN actual : actual[m] \in Data!Configs
    BY DataStore
  <2>2. /\ DOMAIN Data!With(n, c) \subseteq Data!ConfigNames
        /\ \A m \in DOMAIN Data!With(n, c) : Data!With(n, c)[m] \in Data!Configs
    BY <1>1, <2>1, DataStore
  <2>3. Data!Other \in DOMAIN Data!With(n, c) => ~Data!With(n, c)[Data!Other].numbered
    BY <1>1, DataStore
  <2> QED
    BY <1>1, <2>2, <2>3, DataStore
<1>4. n \notin DOMAIN actual =>
         Data!Numbered(Data!With(n, c)) =
           Data!Numbered(actual) \union (IF c.numbered THEN {n} ELSE {})
  BY <1>1 DEF Data!Numbered
<1> QED
  BY <1>1, <1>2, <1>3, <1>4

LEMMA DataListed ==
    ASSUME NEW task, NEW h \in DataHosts
    PROVE LET old == Data!Listed(task, h) IN
          /\ old \subseteq DOMAIN h /\ old \subseteq Data!ConfigNames
          /\ old # {} => DataTop(task, h) \in old /\ h[DataTop(task, h)] \in Data!Configs
          /\ task.rolling => Data!Plain \notin old
          /\ ~task.rolling => old \subseteq {Data!Plain}
<1> DEFINE old == Data!Listed(task, h)
<1>1. DOMAIN h \subseteq Data!ConfigNames /\ \A n \in DOMAIN h : h[n] \in Data!Configs
  BY DataStore
<1>2. old \subseteq DOMAIN h /\ (task.rolling => Data!Plain \notin old)
      /\ (~task.rolling => old \subseteq {Data!Plain})
  BY DEF Data!Listed
<1> HIDE DEF old
<1>3. old # {} => Data!Newest(old, Data!Numbered(h)) \in old
  BY <1>1, <1>2, DataNames
<1>4. DataTop(task, h) = Data!Newest(old, Data!Numbered(h))
  BY DEF DataTop, old
<1> QED
  BY <1>1, <1>2, <1>3, <1>4 DEF old

(* What the task asks for is there exactly when nothing has to be done.    *)
LEMMA DataMeets ==
    ASSUME NEW task \in Data!Requests, NEW h \in DataHosts
    PROVE /\ task.state = "present" => (Data!Satisfied(task, h) <=> DataThere(task, h))
          /\ task.state = "absent" => (Data!Satisfied(task, h) <=> Data!Listed(task, h) = {})
          /\ ~DataChange(task, h) => Data!Satisfied(task, h)
          /\ task.state = "present" /\ ~DataChange(task, h) => DataThere(task, h)
          /\ task.state \in {"present", "absent"}
<1>1. task.state \in {"present", "absent"}
  BY DEF Data!Requests
<1>2. task.state = "present" => (Data!Satisfied(task, h) <=> DataThere(task, h))
  BY DEF Data!Satisfied, DataThere, DataTop, Data!Differs
<1>3. task.state = "absent" => (Data!Satisfied(task, h) <=> Data!Listed(task, h) = {})
  BY DEF Data!Satisfied
<1>4. task.state = "present" /\ ~DataChange(task, h) => DataThere(task, h)
  BY DEF DataChange, DataThere
<1>5. task.state = "absent" /\ ~DataChange(task, h) => Data!Listed(task, h) = {}
  BY DEF DataChange
<1> QED
  BY <1>1, <1>2, <1>3, <1>4, <1>5

LEMMA DataInit == Data!Init => DataInv
<1> SUFFICES ASSUME Data!Init PROVE DataInv
  OBVIOUS
<1> DEFINE h == [n \in {} |-> Default]
<1>1. {h} \subseteq DataHosts
  BY DataStore
<1>2. InitRuns({h}, DataTasks)
  BY DataIsARun DEF Data!Init
<1> HIDE DEF h
<1> QED
  BY <1>1, <1>2, RunInit DEF DataInv

(* Counting is the same everywhere.  Of more than one version the oldest   *)
(* is not the newest, so that pruning leaves the newest.                   *)
LEMMA DataCounts == \A S : Data!Cardinality(S) = Cardinality(S)
  BY DEF Data!Cardinality, Cardinality

LEMMA DataSeveral ==
    ASSUME NEW S, S \subseteq Data!ConfigNames, NEW k \in Int,
           Data!Cardinality(S) > Data!Max({k, 1})
    PROVE /\ S # {} /\ Data!Min(S) \in S /\ Data!Max(S) \in S \ {Data!Min(S)}
          /\ Data!Max(S \ {Data!Min(S)}) = Data!Max(S)
<1>1. Data!Max({k, 1}) \in Int /\ Data!Max({k, 1}) >= 1
  <2> DEFINE m == IF k >= 1 THEN k ELSE 1
  <2>1. \E x \in {k, 1} : \A y \in {k, 1} : x >= y
    <3>1. m \in {k, 1} /\ \A y \in {k, 1} : m >= y
      OBVIOUS
    <3> QED
      BY <3>1
  <2>2. Data!Max({k, 1}) \in {k, 1} /\ \A y \in {k, 1} : Data!Max({k, 1}) >= y
    BY <2>1 DEF Data!Max
  <2> QED
    BY <2>2
<1>2. Cardinality({}) = 0 /\ \A x : Cardinality({x}) = 1
  BY FS_EmptySet, FS_Singleton
<1>3. Cardinality(S) > Data!Max({k, 1})
  BY DataCounts
<1>4. S # {} /\ \A x : S # {x}
  <2>1. CASE S = {}
    BY <1>1, <1>2, <1>3, <2>1
  <2>2. ASSUME NEW x, S = {x} PROVE FALSE
    <3>1. Cardinality({x}) > Data!Max({k, 1})
      BY <1>3, <2>2
    <3>2. Cardinality({x}) = 1
      BY <1>2
    <3> QED
      BY <1>1, <3>1, <3>2
  <2> QED
    BY <2>1, <2>2
<1> DEFINE n == Data!Min(S)
           x == Data!Max(S)
           rest == S \ {n}
<1>5. S \subseteq Int /\ x \in S /\ n \in S /\ \A y \in S : x >= y /\ n <= y
  BY <1>4, DataEnds
<1> HIDE DEF n, x
<1>6. x # n
  <2>1. ASSUME x = n, NEW y \in S PROVE y = n
    <3>1. x >= y /\ n <= y /\ y \in Int /\ n \in Int
      BY <1>5
    <3> QED
      BY <2>1, <3>1
  <2>2. x = n => S = {n}
    BY <1>5, <2>1
  <2> QED
    BY <1>4, <2>2
<1>7. x \in rest /\ rest \subseteq Data!ConfigNames
  BY <1>5, <1>6
<1>8. Data!Max(rest) = x
  <2> DEFINE z == Data!Max(rest)
  <2>1. z \in rest /\ \A y \in rest : z >= y
    BY <1>7, DataEnds
  <2> HIDE DEF z
  <2>2. z >= x /\ x >= z /\ z \in Int /\ x \in Int
    BY <1>5, <1>7, <2>1
  <2>3. z = x
    BY <2>2
  <2> QED
    BY <2>3 DEF z
<1> QED
  BY <1>4, <1>5, <1>7, <1>8 DEF n, x

LEMMA DataOldest ==
    ASSUME NEW S, NEW N, S \subseteq Data!ConfigNames, NEW k \in Int,
           Data!Cardinality(S) > Data!Max({k, 1})
    PROVE LET n == Data!Oldest(S, N) IN
          /\ S # {} /\ n \in S /\ Data!Newest(S, N) \in S \ {n}
          /\ Data!Newest(S \ {n}, N) = Data!Newest(S, N)
<1> DEFINE n == Data!Oldest(S, N)
           x == Data!Newest(S, N)
<1>1. /\ S # {} /\ Data!Min(S) \in S /\ Data!Max(S) \in S \ {Data!Min(S)}
      /\ Data!Max(S \ {Data!Min(S)}) = Data!Max(S)
  BY DataSeveral
<1>2. n \in S /\ x \in S
  BY <1>1, DataNames
<1>3. CASE S \subseteq N
  <2>1. S \cap N = S /\ n = Data!Min(S) /\ x = Data!Max(S)
    BY <1>1, <1>3 DEF Data!Oldest, Data!Newest
  <2> HIDE DEF n, x
  <2>2. (S \ {n}) \cap N = S \ {n} /\ S \ {n} # {}
    BY <1>1, <1>3, <2>1
  <2>3. Data!Newest(S \ {n}, N) = Data!Max(S \ {n})
    BY <2>2 DEF Data!Newest
  <2> QED
    BY <1>1, <2>1, <2>3 DEF n, x
<1>4. CASE S \cap N = {}
  <2>1. S \ N = S /\ ~(S \subseteq N)
    BY <1>1, <1>4
  <2>2. n = Data!Min(S) /\ x = Data!Max(S)
    BY <1>4, <2>1 DEF Data!Oldest, Data!Newest
  <2> HIDE DEF n, x
  <2>3. Data!Newest(S \ {n}, N) = Data!Max(S \ {n})
    <3>1. (S \ {n}) \cap N = {}
      BY <1>4
    <3> QED
      BY <3>1 DEF Data!Newest
  <2> QED
    BY <1>1, <2>2, <2>3 DEF n, x
<1>5. CASE S \cap N # {} /\ ~(S \subseteq N)
  <2>1. n = Data!Min(S \ N) /\ x = Data!Max(S \cap N)
    BY <1>5 DEF Data!Oldest, Data!Newest
  <2>2. S \ N # {} /\ S \ N \subseteq Data!ConfigNames
    BY <1>5
  <2>3. Data!Min(S \ N) \in S \ N
    BY <2>2, DataEnds
  <2>4. x \in N
    BY <1>1, <1>5, DataNames
  <2>5. (S \ {n}) \cap N = S \cap N
    <3> HIDE DEF n
    <3> QED
      BY <2>1, <2>3
  <2>6. Data!Newest(S \ {n}, N) = x
    <3> HIDE DEF n
    <3> QED
      BY <1>5, <2>1, <2>5 DEF Data!Newest, x
  <2> QED
    BY <1>1, <1>2, <2>1, <2>3, <2>4, <2>6
<1> QED
  BY <1>3, <1>4, <1>5

(* A version after the newest one is the newest.                           *)
LEMMA DataNewer ==
    ASSUME NEW S, NEW N, S \subseteq Data!ConfigNames, NEW v \in Data!ConfigNames,
           \A y \in S \cap N : v >= y
    PROVE Data!Newest(S \union {v}, N \union {v}) = v
<1> DEFINE T == S \union {v}
           M == N \union {v}
           z == Data!Newest(T, M)
<1>1. /\ T \subseteq Data!ConfigNames /\ T # {} /\ v \in T \cap M
      /\ \A y \in T \cap M : y = v \/ y \in S \cap N
  OBVIOUS
<1> HIDE DEF T, M
<1>4. z \in T \cap M /\ \A y \in T \cap M : z >= y
  BY <1>1, DataNames
<1>5. T \subseteq Int
  BY <1>1, DataEnds
<1> HIDE DEF z
<1>2. z >= v /\ v >= z /\ z \in Int /\ v \in Int
  BY <1>1, <1>4, <1>5
<1>3. z = v
  BY <1>2
<1> QED
  BY <1>3 DEF z, T, M

(* The version that createConfig makes comes after those with a number,    *)
(* and only one that nobody has numbered may have its name.                *)
LEMMA DataVersion ==
    ASSUME NEW task \in Data!Requests, NEW h \in DataHosts, NEW version \in 0 .. MaxVersion,
           task.rolling =>
              version = IF Data!Listed(task, h) # {}
                        THEN Data!VersionOf(DataTop(task, h), Data!Numbered(h)) ELSE 0,
           ~task.rolling => Data!Listed(task, h) = {}
    PROVE LET v == IF task.rolling THEN version + 1 ELSE 0
              old == Data!Listed(task, h)
          IN /\ \A y \in old \cap Data!Numbered(h) : v >= y
             /\ v <= MaxVersion /\ v \in DOMAIN h => v \in Data!Numbers /\ ~h[v].numbered
<1> DEFINE old == Data!Listed(task, h)
           N == Data!Numbered(h)
           v == IF task.rolling THEN version + 1 ELSE 0
<1>0. task.rolling \in BOOLEAN /\ MaxVersion \in Nat
  BY DockerAssumption DEF Data!Requests, Data!TaskAssumption
<1>1. DOMAIN h \subseteq Data!ConfigNames /\ old \subseteq Data!ConfigNames
  BY DataListed, DataStore
<1>2. CASE ~task.rolling
  BY <1>0, <1>2 DEF Data!Listed, Data!Plain, Data!ConfigNames
<1>3. CASE task.rolling
  <2>1. v = version + 1 /\ v \in Int /\ v >= 1
    BY <1>0, <1>3
  <2> HIDE DEF v
  <2>2. ASSUME NEW y \in old \cap N PROVE v > y
    <3> DEFINE x == DataTop(task, h)
    <3>1. old \subseteq Int /\ x \in old /\ x \in N /\ x >= y
      BY <1>1, DataNames, DataEnds DEF DataTop
    <3>2. version = x
      BY <1>3, <3>1 DEF Data!VersionOf
    <3> HIDE DEF x, old, N
    <3> QED
      BY <2>1, <3>1, <3>2
  <2>3. \A y \in old \cap N : v >= y
    <3>1. old \subseteq Int
      BY <1>0, <1>1 DEF Data!ConfigNames
    <3> HIDE DEF old, N
    <3> QED
      BY <2>1, <2>2, <3>1
  <2>4. ASSUME v <= MaxVersion, v \in DOMAIN h PROVE v \in Data!Numbers /\ ~h[v].numbered
    <3>1. v \in old
      BY <1>1, <1>3, <2>1, <2>4 DEF Data!Listed, Data!Plain
    <3>2. v \notin N
      BY <2>1, <2>2, <3>1
    <3> QED
      BY <1>0, <2>1, <2>4, <3>2 DEF Data!Numbered, Data!Numbers
  <2> QED
    BY <2>3, <2>4 DEF v
<1> QED
  BY <1>2, <1>3

(* A step that leaves the store alone and goes on leaves no obstacle.      *)
LEMMA DataQuiet ==
    ASSUME DataInv, NEW place \in Data!Places \union {"idle"}, run'.at = place, actual' = actual,
           place = "idle" => run'.reply # "refused"
    PROVE DataMore
  BY DEF DataMore, Data!Recovers, Data!Recovering, Data!Answers, Data!NeverWithout, Data!Idle,
     Data!At, Data!Places

LEMMA DataMoves ==
    ASSUME DataInv, NEW place, NEW a, NEW r, NEW c, Step(place, a, r, c)
    PROVE run'.at = place /\ run'.reply = run.reply
  BY DEF Step, DataInv, RunTyped, RunStates

(* The steps of a run at each place: listing,                              *)
LEMMA DataLists ==
    ASSUME DataInv, Data!ListAbsent \/ Data!ListPresent
    PROVE DataInv' /\ DataRespects
<1> DEFINE task == run.task
           r == run.read
           old == Data!Listed(task, actual)
           numbered == old \cap Data!Numbered(actual)
           current == Data!Newest(old, numbered)
           version == IF old # {} /\ task.rolling THEN Data!VersionOf(current, numbered) ELSE 0
           create == old = {} \/ task.force \/ Data!Differs(task, actual[current])
<1>1. /\ run.at = "list" /\ run.at # "idle" /\ task \in Data!Requests /\ MaxVersion \in Nat
      /\ actual \in DataHosts /\ r \in DataReads /\ run.changed \in BOOLEAN
      /\ run.touched \in BOOLEAN
  BY DataGiven, DockerAssumption
     DEF Data!ListAbsent, Data!ListPresent, Data!At, Data!TaskAssumption
<1>2. /\ r.then = "answer"
      /\ ~run.disturbed => ~run.changed /\ ~run.touched
  <2>1. r.then = "answer"
    BY <1>1 DEF DataInv, DataAlways
  <2> QED
    BY <1>1, <2>1, DataRuns DEF DataFine, DataKnows
<1>9. /\ current = DataTop(task, actual) /\ numbered \subseteq old
      /\ old \cap numbered = old \cap Data!Numbered(actual)
  <2>1. old \cap numbered = old \cap Data!Numbered(actual) /\ numbered \subseteq old
    OBVIOUS
  <2> HIDE DEF old, numbered
  <2> QED
    BY <2>1, DataAgrees DEF DataTop, old
<1>3. /\ old \subseteq Data!ConfigNames /\ (old # {} => current \in old)
      /\ task.state \in {"present", "absent"} /\ create \in BOOLEAN
      /\ task.force \in BOOLEAN /\ task.rolling \in BOOLEAN
  BY <1>1, <1>9, DataListed, DataMeets DEF Data!Requests, Data!Differs
<1>4. version \in 0 .. MaxVersion
  <2>1. ASSUME old # {}, task.rolling, current \in numbered PROVE current \in 0 .. MaxVersion
    <3>1. current \in DOMAIN actual /\ actual[current].numbered
      BY <2>1 DEF Data!Numbered
    <3>2. current # Data!Other
      BY <1>1, <3>1, DataStore
    <3>3. current \in 0 .. MaxVersion + 1
      BY <1>3, <2>1 DEF Data!ConfigNames
    <3> HIDE DEF current
    <3> QED
      BY <1>1, <3>2, <3>3 DEF Data!Other
  <2> QED
    BY <1>1, <1>3, <2>1 DEF Data!VersionOf
<1>5. /\ task.state = "present" => (create <=> DataChange(task, actual))
      /\ task.state = "absent" => (old # {} <=> DataChange(task, actual))
      /\ ~DataChange(task, actual) /\ task.state = "present" => DataThere(task, actual)
  BY <1>1, <1>3, <1>9, DataMeets DEF DataChange
<1>6. ASSUME NEW place \in {"answer", "remove", "create", "prune"}, NEW c \in BOOLEAN,
             NEW k \in DataReads, Step(place, actual, k, c),
             DataAlways(place, task, actual, k, Checking),
             ~run.disturbed =>
                /\ DataKnows(place, task, actual, k, c, run.touched, Checking)
                /\ DataWill(place, task, actual, k, c) <=> DataChange(task, actual)
      PROVE DataInv' /\ DataRespects
  <2>1. DataMore /\ place \in Data!Places
    BY Zenon, <1>1, <1>6, DataQuiet, DataMoves DEF Step, Data!Places
  <2>2. DataWill(run.at, task, actual, run.read, run.changed) <=> DataChange(task, actual)
    BY <1>1 DEF DataWill
  <2> QED
    BY <1>1, <1>6, <2>1, <2>2, DataGoes
<1> HIDE DEF old, numbered, current, version, create
<1>7. CASE Data!ListAbsent
  <2>1. /\ task.state = "absent"
        /\ IF Checking THEN Step("answer", actual, r, old # {})
           ELSE Step("remove", actual, [r EXCEPT !.todo = old], run.changed)
    BY <1>7, DataIsARun DEF Data!ListAbsent, Data!Checking, Checking, Data!t, Data!now, old
  <2>2. CASE Checking
    <3>1. DataAlways("answer", task, actual, r, Checking)
      BY DEF DataAlways
    <3>2. ~run.disturbed => DataKnows("answer", task, actual, r, old # {}, run.touched, Checking)
      BY <1>2, <1>5, <2>1, <2>2 DEF DataKnows, old
    <3>3. DataWill("answer", task, actual, r, old # {}) <=> DataChange(task, actual)
      BY <1>5, <2>1 DEF DataWill
    <3> QED
      BY <1>1, <1>6, <2>1, <2>2, <3>1, <3>2, <3>3
  <2>3. CASE ~Checking
    <3> DEFINE k == [r EXCEPT !.todo = old]
    <3>1. k \in DataReads /\ k.todo = old /\ k.then = "answer"
      BY <1>1, <1>2, <1>3 DEF DataReads, Data!Snapshots
    <3> HIDE DEF k
    <3>2. DataAlways("remove", task, actual, k, Checking)
      BY <2>1, <2>3, <3>1 DEF DataAlways
    <3>3. ~run.disturbed =>
             DataKnows("remove", task, actual, k, run.changed, run.touched, Checking)
      BY <1>2, <2>3, <3>1 DEF DataKnows, old
    <3>4. ~run.disturbed =>
             (DataWill("remove", task, actual, k, run.changed) <=> DataChange(task, actual))
      BY <1>2, <1>5, <2>1, <3>1 DEF DataWill
    <3>5. Step("remove", actual, k, run.changed)
      BY <2>1, <2>3 DEF k
    <3> QED
      BY <1>1, <1>6, <3>1, <3>2, <3>3, <3>4, <3>5
  <2> QED
    BY <2>2, <2>3
<1>8. CASE Data!ListPresent
  <2> DEFINE k == [todo |-> old, numbered |-> numbered, then |-> "create", version |-> version]
             place == IF ~create THEN "prune" ELSE IF task.rolling THEN "create" ELSE "remove"
  <2>1. /\ task.state = "present"
        /\ IF Checking THEN Step("answer", actual, r, create) ELSE Step(place, actual, k, run.changed)
    BY <1>8, DataIsARun
       DEF Data!ListPresent, Data!Checking, Checking, Data!t, Data!now, old,
           numbered, current, version, create
  <2>2. CASE Checking
    <3>1. DataAlways("answer", task, actual, r, Checking)
      BY DEF DataAlways
    <3>2. ~run.disturbed => DataKnows("answer", task, actual, r, create, run.touched, Checking)
      BY <1>2, <1>3, <1>5, <2>1, <2>2 DEF DataKnows
    <3>3. DataWill("answer", task, actual, r, create) <=> DataChange(task, actual)
      BY <1>5, <2>1 DEF DataWill
    <3> QED
      BY <1>1, <1>3, <1>6, <2>1, <2>2, <3>1, <3>2, <3>3
  <2>3. CASE ~Checking
    <3>1. /\ k \in DataReads /\ k.todo = old /\ k.then = "create" /\ k.version = version
          /\ k.numbered = numbered
      BY <1>3, <1>4, <1>9 DEF DataReads, Data!Snapshots
    <3>2. place \in {"prune", "create", "remove"} /\ Step(place, actual, k, run.changed)
      BY <2>1, <2>3
    <3>3. /\ place = "prune" <=> ~create
          /\ place = "create" <=> create /\ task.rolling
          /\ place = "remove" <=> create /\ ~task.rolling
      BY <1>3
    <3> HIDE DEF k, place
    <3>4. DataAlways(place, task, actual, k, Checking)
      BY <2>1, <2>3, <3>1, <3>2, <3>3 DEF DataAlways
    <3>5. ~run.disturbed =>
             DataKnows(place, task, actual, k, run.changed, run.touched, Checking)
      <4>1. place = "create" /\ task.rolling =>
               k.version = IF k.todo # {}
                           THEN Data!VersionOf(DataTop(task, actual), Data!Numbered(actual)) ELSE 0
        <5>1. old # {} => (current \in numbered <=> current \in Data!Numbered(actual))
          BY <1>3 DEF numbered
        <5> QED
          BY <1>9, <3>1, <5>1 DEF version, Data!VersionOf
      <4> QED
        BY <1>2, <1>5, <1>9, <2>1, <2>3, <3>1, <3>2, <3>3, <4>1 DEF DataKnows, old
    <3>6. ~run.disturbed =>
             (DataWill(place, task, actual, k, run.changed) <=> DataChange(task, actual))
      BY <1>2, <1>5, <2>1, <3>2, <3>3 DEF DataWill
    <3> QED
      BY <1>1, <1>6, <3>1, <3>2, <3>4, <3>5, <3>6
  <2> QED
    BY <2>2, <2>3
<1> QED
  BY <1>7, <1>8

(* removing,                                                               *)
LEMMA DataRemoves ==
    ASSUME DataInv, Data!RemoveConfig \/ Data!AllRemoved
    PROVE DataInv' /\ DataRespects
<1> DEFINE task == run.task
           r == run.read
<1>1. /\ run.at = "remove" /\ run.at # "idle" /\ task \in Data!Requests
      /\ actual \in DataHosts /\ r \in DataReads /\ run.changed \in BOOLEAN
      /\ run.touched \in BOOLEAN
  BY DataGiven, DockerAssumption
     DEF Data!RemoveConfig, Data!AllRemoved, Data!At, Data!TaskAssumption
<1>2. /\ ~Checking /\ r.then = (IF task.state = "present" THEN "create" ELSE "answer")
      /\ task.state = "present" => ~task.rolling
  BY <1>1 DEF DataInv, DataAlways
<1>3. ~run.disturbed =>
         r.todo = Data!Listed(task, actual) /\ (run.touched => run.changed)
  BY <1>1, DataRuns DEF DataFine, DataKnows
<1>4. task.state \in {"present", "absent"}
  BY <1>1, DataMeets
<1>5. CASE Data!RemoveConfig
  <2>1. PICK n \in r.todo : /\ n \in DOMAIN actual
                            /\ Step("remove", Data!Without(n), [r EXCEPT !.todo = @ \ {n}], TRUE)
    BY <1>5, DataIsARun DEF Data!RemoveConfig, Data!now
  <2> DEFINE a == Data!Without(n)
             k == [r EXCEPT !.todo = @ \ {n}]
  <2>2. /\ k \in DataReads /\ k.todo = r.todo \ {n} /\ k.then = r.then
        /\ Step("remove", a, k, TRUE)
    BY <1>1, <2>1 DEF DataReads, Data!Snapshots
  <2>3. /\ a \in DataHosts /\ DOMAIN a # DOMAIN actual
        /\ Data!Listed(task, a) = Data!Listed(task, actual) \ {n}
    BY <1>1, <2>1, DataWithout
  <2> HIDE DEF a, k
  <2>4. DataMore
    <3>1. run'.at = "remove"
      BY <2>2, DataMoves
    <3> QED
      BY <1>2, <1>4, <3>1 DEF DataMore, Data!Recovers, Data!Recovering, Data!Answers,
         Data!NeverWithout, Data!t
  <2>5. DataAlways("remove", task, a, k, Checking)
    BY <1>2, <2>2 DEF DataAlways
  <2>6. ~run.disturbed => DataKnows("remove", task, a, k, TRUE, run.touched \/ a # actual, Checking)
    BY <1>2, <1>3, <2>2, <2>3 DEF DataKnows
  <2>7. /\ DataWill("remove", task, a, k, TRUE)
        /\ DataWill(run.at, task, actual, r, run.changed)
    BY <1>1, <2>1 DEF DataWill
  <2> QED
    BY <1>1, <1>2, <2>2, <2>3, <2>4, <2>5, <2>6, <2>7, DataStep DEF Data!Places
<1>6. CASE Data!AllRemoved
  <2> DEFINE place == r.then
  <2>1. r.todo = {} /\ Step(place, actual, r, run.changed) /\ place \in Data!Places
    BY <1>2, <1>6, DataIsARun DEF Data!AllRemoved, Data!now, Data!Places
  <2>2. DataMore
    <3>1. run'.at = place /\ place # "idle"
      BY <1>2, <2>1, DataMoves
    <3> QED
      BY <2>1, <3>1, DataQuiet DEF Step
  <2>3. DataAlways(place, task, actual, r, Checking)
    BY <1>2, <2>1 DEF DataAlways
  <2>4. ~run.disturbed => DataKnows(place, task, actual, r, run.changed, run.touched, Checking)
    BY <1>2, <1>3, <1>4, <2>1 DEF DataKnows, DataChange
  <2>5. DataWill(place, task, actual, r, run.changed) <=>
            DataWill(run.at, task, actual, r, run.changed)
    BY <1>1, <1>2, <1>4, <2>1 DEF DataWill
  <2> HIDE DEF place
  <2> QED
    BY <1>1, <2>1, <2>2, <2>3, <2>4, <2>5, DataGoes
<1> QED
  BY <1>5, <1>6

(* creating,                                                               *)
LEMMA DataCreates ==
    ASSUME DataInv, Data!CreateConfig
    PROVE DataInv' /\ DataRespects
<1> DEFINE task == run.task
           r == run.read
           v == IF task.rolling THEN r.version + 1 ELSE 0
           c == [key |-> task.data, template |-> task.template, labels |-> task.labels,
                 used |-> FALSE, numbered |-> task.rolling]
           a == Data!With(v, c)
           k == [r EXCEPT !.todo = @ \union {v}, !.numbered = @ \union {v}]
           old == Data!Listed(task, actual)
<1>1. /\ run.at = "create" /\ run.at # "idle" /\ task \in Data!Requests
      /\ actual \in DataHosts /\ r \in DataReads /\ run.changed \in BOOLEAN
      /\ run.touched \in BOOLEAN /\ MaxVersion \in Nat
  BY DataGiven, DockerAssumption DEF Data!CreateConfig, Data!At, Data!TaskAssumption
<1>2. ~Checking /\ task.state = "present" /\ (~task.rolling => r.todo = {})
  BY <1>1 DEF DataInv, DataAlways
<1>3. ~run.disturbed =>
         /\ r.todo = old /\ (run.touched => run.changed)
         /\ task.rolling =>
              /\ r.version = IF old # {}
                             THEN Data!VersionOf(DataTop(task, actual), Data!Numbered(actual)) ELSE 0
              /\ old \cap r.numbered = old \cap Data!Numbered(actual)
  BY <1>1, DataRuns DEF DataFine, DataKnows
<1>4. v <= MaxVersion /\ v \notin DOMAIN actual /\ Step("prune", a, k, TRUE)
  BY DataIsARun DEF Data!CreateConfig, Data!Created, Data!Plain, Data!t, Data!now
<1>5. r.version \in 0 .. MaxVersion /\ r.todo \subseteq Data!ConfigNames /\ task.rolling \in BOOLEAN
  BY <1>1 DEF DataReads, Data!Snapshots, Data!Requests
<1>6. v \in IF task.rolling THEN Data!ConfigNames \ {Data!Plain} ELSE {Data!Plain}
  BY <1>1, <1>4, <1>5 DEF Data!ConfigNames, Data!Plain
<1>7. v \in Data!ConfigNames /\ v # Data!Other
  BY <1>1, <1>4, <1>5 DEF Data!ConfigNames, Data!Other
<1>8. c \in Data!Configs
  BY <1>1 DEF Data!Configs, Data!Requests
<1>9. /\ k \in DataReads /\ k.todo = r.todo \union {v} /\ k.then = r.then
      /\ k.version = r.version /\ k.numbered = r.numbered \union {v}
  BY <1>1, <1>5, <1>7 DEF DataReads, Data!Snapshots
<1>10. ~run.disturbed => \A y \in old \cap Data!Numbered(actual) : v >= y
  <2>1. ASSUME ~run.disturbed PROVE \A y \in old \cap Data!Numbered(actual) : v >= y
    <3>1. /\ task.rolling =>
               r.version = IF old # {}
                           THEN Data!VersionOf(DataTop(task, actual), Data!Numbered(actual)) ELSE 0
          /\ ~task.rolling => old = {}
      BY <1>2, <1>3, <2>1
    <3> QED
      BY <1>1, <1>5, <3>1, DataVersion
  <2> QED
    BY <2>1
<1>11. old \subseteq Data!ConfigNames
  BY <1>1, DataListed
<1> HIDE DEF v, k
<1>12. ~Data!Differs(task, c) /\ c.numbered = task.rolling
  BY DEF Data!Differs
<1> HIDE DEF c
<1>13. /\ a \in DataHosts /\ a # actual /\ a[v] = c
       /\ Data!Listed(task, a) = old \union {v}
       /\ Data!Numbered(a) = Data!Numbered(actual) \union (IF task.rolling THEN {v} ELSE {})
  <2>1. /\ a \in DataHosts /\ DOMAIN a = DOMAIN actual \union {v} /\ a[v] = c
        /\ v \in (IF task.rolling THEN Data!ConfigNames \ {Data!Plain} ELSE {Data!Plain}) =>
              Data!Listed(task, a) = old \union {v}
        /\ v \notin DOMAIN actual =>
              Data!Numbered(a) = Data!Numbered(actual) \union (IF c.numbered THEN {v} ELSE {})
    BY <1>1, <1>7, <1>8, DataWith
  <2> QED
    BY <1>4, <1>6, <1>12, <2>1
<1> HIDE DEF a
<1>14. ~run.disturbed => DataThere(task, a)
  <2>1. ~run.disturbed => DataTop(task, a) = v
    <3>1. CASE task.rolling /\ ~run.disturbed
      <4> DEFINE N == Data!Numbered(actual)
      <4>1. Data!Numbered(a) = N \union {v} /\ Data!Listed(task, a) = old \union {v}
        BY <1>13, <3>1
      <4>2. \A y \in old \cap N : v >= y
        BY <1>10, <3>1
      <4>3. DataTop(task, a) = Data!Newest(old \union {v}, N \union {v})
        BY <4>1 DEF DataTop
      <4> HIDE DEF N, old
      <4> QED
        BY <1>7, <1>11, <4>2, <4>3, DataNewer
    <3>2. CASE ~task.rolling /\ ~run.disturbed
      <4>1. Data!Listed(task, a) = {v} /\ {v} \subseteq Data!ConfigNames
        BY <1>2, <1>3, <1>7, <1>13, <3>2
      <4>2. Data!Newest({v}, Data!Numbered(a)) \in {v}
        BY <4>1, DataNames
      <4> QED
        BY <4>1, <4>2 DEF DataTop
    <3> QED
      BY <3>1, <3>2
  <2> QED
    BY <1>12, <1>13, <2>1 DEF DataThere
<1>15. DataMore
  <2>1. run'.at = "prune"
    BY <1>4, DataMoves
  <2>2. actual' = a
    BY <1>4 DEF Step
  <2> QED
    BY <1>13, <2>1, <2>2 DEF DataMore, Data!Recovers, Data!Recovering, Data!Answers,
       Data!NeverWithout, Data!t
<1>16. DataAlways("prune", task, a, k, Checking)
  BY <1>2 DEF DataAlways
<1>17. ~run.disturbed =>
          DataKnows("prune", task, a, k, TRUE, run.touched \/ a # actual, Checking)
  <2>1. ~run.disturbed /\ task.rolling => k.todo \cap k.numbered = k.todo \cap Data!Numbered(a)
    BY <1>3, <1>9, <1>13
  <2> QED
    BY <1>2, <1>3, <1>9, <1>13, <1>14, <2>1 DEF DataKnows
<1>18. DataWill("prune", task, a, k, TRUE) /\ DataWill(run.at, task, actual, r, run.changed)
  BY <1>1 DEF DataWill
<1> QED
  BY <1>1, <1>2, <1>4, <1>9, <1>13, <1>15, <1>16, <1>17, <1>18, DataStep DEF Data!Places

(* and pruning, of which the answer says nothing.                          *)
LEMMA DataPrunes ==
    ASSUME DataInv, Data!PruneOldVersion
    PROVE DataInv' /\ DataRespects
<1> DEFINE task == run.task
           r == run.read
           n == Data!Oldest(r.todo, r.numbered)
           a == Data!Without(n)
           k == [r EXCEPT !.todo = @ \ {n}]
           old == Data!Listed(task, actual)
<1>1. /\ run.at = "prune" /\ run.at # "idle" /\ task \in Data!Requests
      /\ actual \in DataHosts /\ r \in DataReads /\ run.changed \in BOOLEAN
      /\ run.touched \in BOOLEAN
  BY DataGiven, DockerAssumption DEF Data!PruneOldVersion, Data!At, Data!TaskAssumption
<1>2. ~Checking /\ task.state = "present"
  BY <1>1 DEF DataInv, DataAlways
<1>3. ~run.disturbed =>
         /\ r.todo = old /\ (run.touched => run.changed) /\ DataThere(task, actual)
         /\ ~run.changed => ~DataChange(task, actual)
         /\ task.rolling => old \cap r.numbered = old \cap Data!Numbered(actual)
  BY <1>1, DataRuns DEF DataFine, DataKnows
<1>4. /\ task.rolling /\ task.keep \in Int /\ r.todo \subseteq Data!ConfigNames
      /\ Data!Cardinality(r.todo) > Data!Max({task.keep, 1})
  BY <1>1 DEF Data!PruneOldVersion, Data!Excess, Data!t, Data!now, Data!Requests, DataReads,
     Data!Snapshots
<1>5. /\ n \in r.todo /\ Data!Newest(r.todo, r.numbered) \in r.todo \ {n}
      /\ Data!Newest(r.todo \ {n}, r.numbered) = Data!Newest(r.todo, r.numbered)
  BY <1>4, DataOldest
<1>6. /\ n \in DOMAIN actual /\ actual' = a /\ memo' = NoMemo
      /\ run' = [run EXCEPT !.read.todo = @ \ {n}]
  BY DataIsARun DEF Data!PruneOldVersion, Data!now
<1>7. k \in DataReads /\ k.todo = r.todo \ {n} /\ k.numbered = r.numbered
  BY <1>1 DEF DataReads, Data!Snapshots
<1>8. /\ run' = [run EXCEPT !.read = k] /\ run \in RunStates(DataTasks, Data!Places, DataReads)
  BY <1>6 DEF DataInv, RunTyped
<1>9. /\ a \in DataHosts /\ Data!Listed(task, a) = old \ {n}
      /\ \A m \in DOMAIN a : a[m] = actual[m]
      /\ DOMAIN a = DOMAIN actual \ {n} /\ Data!Numbered(a) = Data!Numbered(actual) \ {n}
  BY <1>1, DataWithout
<1> HIDE DEF k, n
<1>10. /\ run' \in RunStates(DataTasks, Data!Places, DataReads) /\ run'.at = "prune"
       /\ run'.read = k /\ run'.task = task /\ run'.mode = run.mode /\ run'.reply = run.reply
       /\ run'.changed = run.changed /\ run'.touched = run.touched
       /\ run'.disturbed = run.disturbed /\ run'.expect = run.expect /\ run'.again = run.again
  BY <1>1, <1>7, <1>8 DEF RunStates
<1> HIDE DEF a
<1>11. RunTyped(DataHosts, DataTasks, Data!Places, DataReads)'
  <2>1. run'.reply = "none"
    BY <1>1, <1>10, DataGiven
  <2> QED
    BY <1>6, <1>7, <1>9, <1>10, <2>1, NothingKnown DEF RunTyped, Idle, At
<1>12. ~run.disturbed => /\ DataThere(task, a) /\ k.todo = Data!Listed(task, a)
                         /\ DataChange(task, a) <=> DataChange(task, actual)
                         /\ k.todo \cap k.numbered = k.todo \cap Data!Numbered(a)
  <2>1. ASSUME ~run.disturbed
        PROVE /\ DataThere(task, a) /\ k.todo = Data!Listed(task, a)
              /\ DataChange(task, a) <=> DataChange(task, actual)
              /\ k.todo \cap k.numbered = k.todo \cap Data!Numbered(a)
    <3> DEFINE x == DataTop(task, actual)
               rest == old \ {n}
    <3>0. /\ r.todo = old /\ old \cap r.numbered = old \cap Data!Numbered(actual)
          /\ rest \cap r.numbered = rest \cap Data!Numbered(a)
      BY <1>3, <1>4, <1>9, <2>1
    <3>9. x = Data!Newest(old, r.numbered) /\ DataTop(task, a) = Data!Newest(rest, r.numbered)
      <4> HIDE DEF rest
      <4>1. DataTop(task, a) = Data!Newest(rest, Data!Numbered(a))
        BY <1>9 DEF DataTop, rest
      <4> HIDE DEF old
      <4>2. x = Data!Newest(old, Data!Numbered(actual))
        BY DEF DataTop, old
      <4> QED
        BY <3>0, <4>1, <4>2, DataAgrees
    <3>1. /\ x \in old \ {n} /\ DataTop(task, a) = x
          /\ Data!Listed(task, a) = old \ {n}
      BY <1>5, <1>9, <3>0, <3>9
    <3>10. k.todo \cap k.numbered = k.todo \cap Data!Numbered(a)
      BY <1>7, <3>0
    <3> HIDE DEF rest
    <3>2. x \in DOMAIN actual
      BY <1>1, <3>1, DataListed
    <3> HIDE DEF x, old
    <3>3. x \in DOMAIN a /\ a[x] = actual[x]
      BY <1>9, <3>1, <3>2
    <3>4. DataTop(task, a) = x /\ Data!Listed(task, a) # {}
      BY <3>1
    <3>5. k.todo = Data!Listed(task, a)
      BY <1>3, <1>7, <2>1, <3>1
    <3>6. DataChange(task, a) <=> task.force \/ Data!Differs(task, actual[x])
      BY <1>2, <3>3, <3>4 DEF DataChange
    <3>7. DataChange(task, actual) <=> task.force \/ Data!Differs(task, actual[x])
      BY <1>2, <3>1 DEF DataChange, x, old
    <3>8. DataThere(task, a)
      <4>1. ~Data!Differs(task, actual[x])
        BY <1>3, <2>1 DEF DataThere, x, old
      <4> QED
        BY <3>3, <3>4, <4>1 DEF DataThere
    <3> QED
      BY <3>5, <3>6, <3>7, <3>8, <3>10
  <2> QED
    BY <2>1
<1>13. DataInv'
  <2>1. ~memo'.settled /\ memo'.forecast = "none"
    BY <1>6, NothingKnown
  <2>2. DataAlways(run'.at, run'.task, actual', run'.read, Checking')
    BY <1>2, <1>10 DEF DataAlways, Checking
  <2>3. ASSUME ~run'.disturbed
        PROVE DataFine(run'.at, run'.task, actual', run'.read, run'.changed, run'.touched, Checking',
                       run'.expect, run'.again)
    <3>1. DataFine("prune", task, actual, r, run.changed, run.touched, Checking,
                   run.expect, run.again)
      BY <1>1, <1>10, <2>3, DataRuns
    <3>2. ~run.disturbed
      BY <1>10, <2>3
    <3>3. DataKnows("prune", task, a, k, run.changed, run.touched, Checking)
      BY <1>2, <1>3, <1>12, <3>2 DEF DataKnows
    <3>4. DataWill("prune", task, a, k, run.changed) = run.changed
          /\ DataWill("prune", task, actual, r, run.changed) = run.changed
      BY DEF DataWill
    <3>5. DataFine("prune", task, a, k, run.changed, run.touched, Checking, run.expect, run.again)
      BY <1>2, <3>1, <3>3, <3>4 DEF DataFine
    <3>6. actual' = a /\ Checking' = Checking
      BY <1>6, <1>10 DEF Checking
    <3> QED
      BY <1>10, <3>5, <3>6
  <2> QED
    BY <1>11, <2>1, <2>2, <2>3 DEF DataInv
<1>14. DataMore
  <2>1. ~run.disturbed => Data!Listed(task, a) # {}
    BY <1>12 DEF DataThere
  <2> QED
    BY <1>6, <1>10, <2>1 DEF DataMore, Data!Recovers, Data!Recovering, Data!Answers,
       Data!NeverWithout, Data!t
<1>15. RunMoves /\ ~AnswersOK
  <2>1. run'.touched \in {run.touched, TRUE} /\ ~Idle
    BY <1>1, <1>10 DEF Idle, At
  <2> QED
    BY <1>2, <1>10, <2>1 DEF RunMoves, AnswersOK, Answers
<1> QED
  BY <1>13, <1>14, <1>15, DataSilent

(* What may stop a run: a config that is used, or one by the name of a     *)
(* version that nobody has numbered.                                       *)
DataBlocked ==
    \E n \in DOMAIN actual : actual[n].used \/ (n \in Data!Numbers /\ ~actual[n].numbered)

LEMMA DataSteps ==
    ASSUME DataInv, Data!Steps \/ Data!CallError \/ Data!Killed
    PROVE DataInv' /\ DataRespects
<1> DEFINE task == run.task
           r == run.read
<1>1. /\ task \in Data!Requests /\ actual \in DataHosts /\ run.changed \in BOOLEAN
      /\ run.touched \in BOOLEAN /\ (run.at # "idle" => r \in DataReads)
      /\ "idle" \notin Data!Places
  BY DataGiven, DockerAssumption DEF Data!TaskAssumption
<1>2. run.at # "idle" /\ ~run.disturbed =>
         DataKnows(run.at, task, actual, r, run.changed, run.touched, Checking)
  BY DataRuns DEF DataFine
<1>3. CASE Data!Pruned
  <2>1. run.at = "prune" /\ Step("answer", actual, r, run.changed)
    BY <1>3, DataIsARun DEF Data!Pruned, Data!At
  <2>2. ~Checking /\ task.state = "present"
    BY <2>1 DEF DataInv, DataAlways
  <2>3. DataMore
    BY Zenon, <2>1, DataMoves, DataQuiet DEF Step, Data!Places
  <2>4. DataAlways("answer", task, actual, r, Checking)
    BY DEF DataAlways
  <2>5. ~run.disturbed => DataKnows("answer", task, actual, r, run.changed, run.touched, Checking)
    BY <1>2, <2>1, <2>2 DEF DataKnows
  <2>6. DataWill("answer", task, actual, r, run.changed) <=>
            DataWill(run.at, task, actual, r, run.changed)
    BY <2>1 DEF DataWill
  <2> QED
    BY <1>1, <2>1, <2>3, <2>4, <2>5, <2>6, DataGoes DEF Data!Places
<1>4. ASSUME NEW reply \in {"failed", "refused", "killed"}, run.at # "idle", Stops(reply),
             reply # "refused" \/ run.disturbed \/ DataBlocked
      PROVE DataInv' /\ DataRespects
  <2>1. run'.at = "idle" /\ run'.reply = reply /\ actual' = actual
    BY <1>4, RunStops DEF DataInv, Replies
  <2>2. DataMore
    BY <1>4, <2>1 DEF DataMore, Data!Recovers, Data!Recovering, Data!NeverWithout, DataBlocked
  <2> QED
    BY <1>4, <2>2, DataStops
<1>5. CASE Data!EngineRefuses
  <2>0. Stops("refused") /\ run.at # "idle" /\ r \in DataReads
    BY <1>1, <1>5, DataIsARun DEF Data!EngineRefuses, Data!At
  <2>1. CASE run.disturbed
    BY <1>4, <2>0, <2>1
  <2>2. ASSUME ~run.disturbed PROVE DataBlocked
    <3>1. /\ DataKnows(run.at, task, actual, r, run.changed, run.touched, Checking)
          /\ Data!Listed(task, actual) \subseteq DOMAIN actual
          /\ DOMAIN actual \subseteq Data!ConfigNames
      BY <1>1, <1>2, <2>0, <2>2, DataListed, DataStore
    <3>2. CASE run.at = "remove" /\ \E n \in r.todo : n \in DOMAIN actual => actual[n].used
      BY <3>1, <3>2 DEF DataKnows, DataBlocked
    <3>3. CASE /\ run.at = "create"
               /\ (IF task.rolling THEN r.version + 1 ELSE 0) <= MaxVersion
               /\ (IF task.rolling THEN r.version + 1 ELSE 0) \in DOMAIN actual
      <4>1. r.version \in 0 .. MaxVersion
        BY <2>0 DEF DataReads, Data!Snapshots
      <4>2. ~task.rolling => Data!Listed(task, actual) = {}
        BY <3>1, <3>3 DEF DataInv, DataAlways, DataKnows
      <4>3. task.rolling =>
              r.version = IF Data!Listed(task, actual) # {}
                          THEN Data!VersionOf(DataTop(task, actual), Data!Numbered(actual)) ELSE 0
        BY <3>1, <3>3 DEF DataKnows
      <4> QED
        BY <1>1, <3>3, <4>1, <4>2, <4>3, DataVersion DEF DataBlocked
    <3>4. CASE /\ run.at = "prune" /\ Data!Excess
               /\ (Data!Oldest(r.todo, r.numbered) \in DOMAIN actual => actual[Data!Oldest(r.todo, r.numbered)].used)
      <4>1. /\ Data!Cardinality(r.todo) > Data!Max({task.keep, 1})
            /\ task.keep \in Int /\ r.todo \subseteq Data!ConfigNames
        BY <1>1, <2>0, <3>4 DEF Data!Excess, Data!t, Data!now, Data!Requests, DataReads,
           Data!Snapshots
      <4>2. Data!Oldest(r.todo, r.numbered) \in r.todo
        BY <4>1, DataOldest
      <4>3. r.todo \subseteq DOMAIN actual
        BY <3>1, <3>4 DEF DataKnows
      <4> QED
        BY <3>4, <4>2, <4>3 DEF DataBlocked
    <3> QED
      BY <1>5, <3>2, <3>3, <3>4 DEF Data!EngineRefuses, Data!Created, Data!Plain, Data!At, Data!t,
         Data!now
  <2> QED
    BY <1>4, <2>0, <2>1, <2>2
<1>6. CASE Data!Finish
  <2>1. run.at = "answer" /\ Answer(run.changed)
    BY <1>6, DataIsARun DEF Data!Finish, Data!At
  <2>2. /\ RunTyped(DataHosts, DataTasks, Data!Places, DataReads)' /\ run'.at = "idle"
        /\ run'.reply = "ok" /\ actual' = actual
    BY <1>1, <2>1, RunAnswers DEF DataInv
  <2>3. DataMore
    BY <2>2, DataQuiet
  <2>4. ~run.disturbed =>
          /\ run.changed <=> DataWill(run.at, task, actual, r, run.changed)
          /\ IF run.changed THEN ~Checking => Data!Satisfied(task, actual)
             ELSE Data!Satisfied(task, actual) /\ (run.touched => DataHides(task))
          /\ ~Checking /\ DataSettles(task, FALSE) => ~DataChange(task, actual)
    <3>1. ASSUME ~run.disturbed
          PROVE /\ ~run.changed \/ ~Checking => Data!Satisfied(task, actual)
                /\ run.touched => run.changed
                /\ ~Checking /\ DataSettles(task, FALSE) => ~DataChange(task, actual)
      <4>1. DataKnows("answer", task, actual, r, run.changed, run.touched, Checking)
        BY <1>2, <2>1, <3>1
      <4>2. task.state \in {"present", "absent"}
        BY <1>1, DataMeets
      <4>3. ~run.changed \/ ~Checking => Data!Satisfied(task, actual)
        BY <1>1, <4>1, <4>2, DataMeets DEF DataKnows
      <4>4. ~Checking /\ DataSettles(task, FALSE) => ~DataChange(task, actual)
        BY <4>1, <4>2 DEF DataKnows, DataSettles, DataChange, DataThere
      <4> QED
        BY <4>1, <4>3, <4>4 DEF DataKnows
    <3> QED
      BY <2>1, <3>1 DEF DataWill
  <2> QED
    BY <1>1, <2>1, <2>3, <2>4, DataAnswers
<1>7. CASE Data!CallError \/ Data!Killed
  <2>1. PICK reply \in {"failed", "killed"} : run.at # "idle" /\ Stops(reply)
    BY <1>1, <1>7, DataIsARun DEF Data!CallError, Data!CallFails, Idle, At
  <2> QED
    BY <1>4, <2>1
<1> QED
  BY <1>3, <1>5, <1>6, <1>7, DataLists, DataRemoves, DataCreates, DataPrunes DEF Data!Steps

LEMMA DataNext == DataInv /\ [Data!Next]_vars => DataInv' /\ DataRespects
<1> SUFFICES ASSUME DataInv, [Data!Next]_vars PROVE DataInv' /\ DataRespects
  OBVIOUS
<1>1. /\ actual \in DataHosts /\ "idle" \notin Data!Places
      /\ DOMAIN actual \subseteq Data!ConfigNames /\ \A n \in DOMAIN actual : actual[n] \in Data!Configs
  BY DataGiven, DataStore
<1>2. CASE Data!Start
  <2>1. PICK task \in DataTasks, m \in {"check", "apply"} : Begin(task, m, "list", Data!Nothing)
    BY <1>2, DataIsARun DEF Data!Start
  <2>2. Data!Nothing \in DataReads /\ Data!Nothing.then = "answer"
    BY DockerAssumption DEF Data!Nothing, DataReads, Data!Snapshots, Data!TaskAssumption
  <2>3. DataMore
    BY <2>1 DEF Begin, Idle, At, DataMore, Data!Recovers, Data!Recovering, Data!Answers,
       Data!NeverWithout, Data!Idle, Data!At
  <2>4. /\ DataAlways("list", task, actual, Data!Nothing, m = "check")
        /\ DataKnows("list", task, actual, Data!Nothing, FALSE, FALSE, m = "check")
        /\ DataWill("list", task, actual, Data!Nothing, FALSE) <=> DataChange(task, actual)
        /\ DataSettles(task, TRUE) => DataSettles(task, FALSE)
    BY <2>2 DEF DataAlways, DataKnows, DataWill, DataSettles
  <2>5. run.at = "idle"
    BY <2>1 DEF Begin, Idle, At
  <2> QED
    BY <2>1, <2>2, <2>3, <2>4, <2>5, DataBegins DEF Data!Places
<1>3. ASSUME NEW a \in DataHosts, Interferes(a) PROVE DataInv' /\ DataRespects
  <2>1. DataMore
    <3>1. run'.at = run.at /\ (run.at = "idle" \/ run'.disturbed)
      BY <1>3, RunInterferes DEF DataInv
    <3> QED
      BY <3>1 DEF DataMore, Data!Recovers, Data!Recovering, Data!Answers, Data!NeverWithout,
         Data!Idle, Data!At
  <2>2. run.at # "idle" => DataAlways(run.at, run.task, a, run.read, Checking)
    BY DEF DataInv, DataAlways
  <2> QED
    BY <1>3, <2>1, <2>2, DataInterferes
<1>4. CASE Data!Outside
  <2>1. ASSUME NEW n \in DOMAIN actual PROVE [actual EXCEPT ![n].used = ~@] \in DataHosts
    <3> DEFINE a == [actual EXCEPT ![n].used = ~@]
    <3>1. \A m \in DOMAIN actual : /\ a[m] \in Data!Configs
                                   /\ a[m].numbered = actual[m].numbered
      BY <1>1 DEF Data!Configs
    <3>2. DOMAIN a = DOMAIN actual /\ a = [m \in DOMAIN a |-> a[m]]
      OBVIOUS
    <3> HIDE DEF a
    <3>3. a \in DataHosts
      BY <1>1, <3>1, <3>2, DataStore
    <3> QED
      BY <3>3 DEF a
  <2>2. ASSUME NEW n PROVE Data!Without(n) \in DataHosts
    BY <1>1, DataWithout
  <2>3. ASSUME NEW n \in {Data!Other, MaxVersion}
        PROVE Data!With(n, [key |-> Data!NoKey, template |-> FALSE, labels |-> {}, used |-> FALSE,
                            numbered |-> FALSE]) \in DataHosts
    <3> DEFINE c == [key |-> Data!NoKey, template |-> FALSE, labels |-> {}, used |-> FALSE,
                     numbered |-> FALSE]
    <3>1. n \in Data!ConfigNames
      BY DockerAssumption DEF Data!ConfigNames, Data!Other, Data!TaskAssumption
    <3>2. c \in Data!Configs /\ ~c.numbered
      BY DEF Data!Configs
    <3> HIDE DEF c
    <3>3. Data!With(n, c) \in DataHosts
      BY <1>1, <3>1, <3>2, DataWith
    <3> QED
      BY <3>3 DEF c
  <2> QED
    BY <1>3, <1>4, <2>1, <2>2, <2>3, DataIsARun DEF Data!Outside
<1>5. CASE UNCHANGED vars
  <2>1. DataMore
    BY <1>5 DEF vars, DataMore, Data!Recovers, Data!Recovering, Data!Answers, Data!NeverWithout,
       Data!Idle, Data!At
  <2> QED
    BY <1>5, <2>1, DataStutters
<1> QED
  BY <1>2, <1>4, <1>5, DataSteps DEF Data!Next

LEMMA DataSafe == DataInv => Data!TypeOK
<1> SUFFICES ASSUME DataInv PROVE Data!TypeOK
  OBVIOUS
<1>1. \A n \in DOMAIN actual : n \in Data!ConfigNames /\ actual[n] \in Data!Configs
  BY DataGiven, DataStore
<1>2. run.at = "create" /\ ~run.task.rolling => run.read.todo = {}
  BY DEF DataInv, DataAlways
<1> QED
  BY <1>1, <1>2 DEF DataInv, RunTyped, DataReads, Data!TypeOK, Data!Memos, Memos, Data!At,
     Data!RunStates, RunStates, Data!Forecasts, Forecasts, Data!Replies, Replies

LEMMA DataHolds == ASSUME NEW task, NEW h PROVE Data!Satisfied(task, h) \in BOOLEAN
  BY DEF Data!Satisfied
-----------------------------------------------------------------------------
(* docker_swarm_service.                                                   *)
ServiceHosts ==
    {h \in Service!Swarms :
        h.service # Missing =>
           (h.service.replicas = -1 <=> h.service.mode \in {"global", "global-job"})}
ServiceReads == Service!Snapshots
ServiceForetells(task) == TRUE
ServiceSettles(task, checking) ==
    /\ ~task.force
    /\ \A f \in Service!GivenBy(task) :
          /\ ~(Kind[f] = "limit" /\ task.fields[f] = Service!Unset)
          /\ ~(Kind[f] = "dict" /\ Service!AllOmitted(task.fields[f]))
ServiceHides(task) == FALSE
ServiceMore == Service!KeepsOmitted /\ Service!OutdatedOnceIsRetried

(* What a run reads when nobody interferes, and what it makes of it.       *)
ServiceSeen(task, h) ==
    [digest |-> IF task.image # 0 /\ task.resolve THEN h.digest ELSE 0, secret |-> h.secret,
     found |-> h.service, env |-> Service!EnvOf(task, h.file), retries |-> 2, fresh |-> TRUE]
ServiceChange(task, h) ==
    IF task.state = "absent" THEN h.service # Missing
    ELSE \/ h.service = Missing \/ task.force
         \/ Service!Differs(task, ServiceSeen(task, h), h.service)

(* What a task asks for, while nobody interferes.                          *)
ServiceMeets(task, h) ==
    IF task.state = "absent" THEN h.service = Missing
    ELSE LET s == h.service IN
         /\ s # Missing
         /\ task.image # 0 => s.image = task.image
         /\ task.image # 0 /\ task.resolve => s.digest = h.digest
         /\ s.mode = task.mode
         /\ task.replicas # -1 /\ task.mode # "global" => s.replicas = task.replicas
         /\ \A f \in Service!GivenBy(task) : Service!Fits(f, task.fields[f], s.fields[f])
         /\ task.health = "test" => s.health = "test"
         /\ task.health = "none" => s.health # "test"
         /\ task.health = "clear" => s.health = "unset"
         /\ Service!EnvGiven(task) /\ ~(task.file /\ h.file = Missing) =>
               s.env = Service!EnvOf(task, h.file)
         /\ task.ports # Omitted => ~Service!ItemsDiffer(task.ports, s.ports)
         /\ task.secret => s.secret = h.secret

ServiceWill(place, task, h, r, c) ==
    CASE place \in {"digest", "inspect", "references", "parse", "decide"} -> ServiceChange(task, h)
      [] place \in {"create", "update", "replace", "remove"} -> TRUE
      [] OTHER -> c
ServiceAlways(place, task, h, r, checking) ==
    /\ place \in {"create", "update", "replace", "remove"} => ~checking
    /\ place \in {"update", "replace", "remove"} => r.found # Missing
    /\ place \in {"create", "update", "replace"} => task.state = "present"
    /\ place = "remove" => task.state = "absent"
    /\ place = "update" => task.mode = r.found.mode
    /\ place \in {"references", "parse", "decide", "update"} /\ r.fresh => r.found = h.service
ServiceKnows(place, task, h, r, c, touched, checking) ==
    LET seen == ServiceSeen(task, h) IN
    /\ checking => ~touched
    /\ place # "create" /\ touched => c
    /\ place \in {"digest", "inspect", "references", "parse", "decide"} => ~c
    /\ place \notin {"digest", "answer"} => r.digest = seen.digest
    /\ place \notin {"digest", "inspect", "create", "answer"} => r.found = seen.found
    /\ place \notin {"digest", "inspect", "references", "answer"} => r.secret = seen.secret
    /\ place \notin {"digest", "inspect", "references", "parse", "answer"} => r.env = seen.env
    /\ place \in {"references", "parse", "decide", "update"} => r.fresh
    /\ place = "create" => h.service = Missing
    /\ place = "answer" =>
          /\ ~checking \/ ~c => ServiceMeets(task, h)
          /\ ~checking /\ ServiceSettles(task, FALSE) => ~ServiceChange(task, h)
ServiceFine(place, task, h, r, c, touched, checking, expect, again) ==
    /\ ServiceKnows(place, task, h, r, c, touched, checking)
    /\ ~checking /\ expect # "none" /\ ServiceForetells(task) =>
          (expect = "changed" <=> ServiceWill(place, task, h, r, c))
    /\ checking /\ ServiceForetells(task) => (ServiceWill(place, task, h, r, c) <=> ServiceChange(task, h))
    /\ again /\ ServiceSettles(task, checking) => ~ServiceWill(place, task, h, r, c) /\ ~touched
ServiceInv ==
    /\ RunTyped(ServiceHosts, ServiceTasks, Service!Places, ServiceReads)
    /\ run.at # "idle" => ServiceAlways(run.at, run.task, actual, run.read, Checking)
    /\ run.at # "idle" /\ ~run.disturbed =>
          ServiceFine(run.at, run.task, actual, run.read, run.changed, run.touched, Checking,
                run.expect, run.again)
    /\ memo.forecast # "none" /\ ServiceForetells(run.task) =>
          (memo.forecast = "changed" <=> ServiceChange(run.task, actual))
    /\ memo.settled /\ ServiceSettles(run.task, FALSE) => ~ServiceChange(run.task, actual)
ServiceRespects ==
    /\ RunMoves /\ Truthful(Service!Satisfied(run.task, actual), ServiceHides(run.task))
    /\ Service!Predicts /\ Service!Idempotent /\ ServiceMore

LEMMA ServiceGiven ==
    ServiceInv =>
      /\ actual \in ServiceHosts /\ run.changed \in BOOLEAN /\ run.touched \in BOOLEAN
      /\ "idle" \notin Service!Places /\ run.at \in Service!Places \union {"idle"}
      /\ run.task \in ServiceTasks /\ run.mode \in {"check", "apply"} /\ run.disturbed \in BOOLEAN
      /\ run.at # "idle" => run.read \in ServiceReads /\ run.reply = "none"
  BY DEF ServiceInv, RunTyped, RunStates, Idle, At, Service!Places

LEMMA ServiceRuns ==
    ServiceInv /\ run.at # "idle" /\ ~run.disturbed =>
      ServiceFine(run.at, run.task, actual, run.read, run.changed, run.touched, Checking,
            run.expect, run.again)
  BY DEF ServiceInv

LEMMA ServiceSilent ==
    ASSUME ~AnswersOK, RunMoves, ServiceMore PROVE ServiceRespects
  BY DEF ServiceRespects, Truthful, Service!Predicts, Service!Foretold, Service!Idempotent, Service!Unchanging,
     Service!AnswersOK, AnswersOK, Service!Answers, Answers, Service!Idle, Idle, Service!At, At

LEMMA ServiceStep ==
    ASSUME ServiceInv, run.at # "idle", NEW place \in Service!Places, NEW a \in ServiceHosts,
           NEW r \in ServiceReads, NEW c \in BOOLEAN, Step(place, a, r, c), ServiceMore,
           Checking => a = actual, ServiceAlways(place, run.task, a, r, Checking),
           ~run.disturbed =>
             /\ ServiceKnows(place, run.task, a, r, c, run.touched \/ a # actual, Checking)
             /\ ServiceForetells(run.task) =>
                  (ServiceWill(place, run.task, a, r, c) <=>
                     ServiceWill(run.at, run.task, actual, run.read, run.changed))
             /\ ServiceSettles(run.task, Checking) /\ (a # actual \/ ServiceWill(place, run.task, a, r, c)) =>
                  ServiceWill(run.at, run.task, actual, run.read, run.changed)
    PROVE ServiceInv' /\ ServiceRespects
<1>1. /\ RunTyped(ServiceHosts, ServiceTasks, Service!Places, ServiceReads)' /\ actual' = a
      /\ run'.at = place /\ run'.read = r /\ run'.changed = c /\ run'.task = run.task
      /\ run'.mode = run.mode /\ run'.expect = run.expect /\ run'.again = run.again
      /\ run'.disturbed = run.disturbed /\ run'.touched = (run.touched \/ a # actual)
      /\ memo'.settled => memo.settled /\ a = actual
      /\ memo'.forecast # "none" => memo'.forecast = memo.forecast /\ a = actual
      /\ RunMoves /\ place # "idle"
  <2>1. /\ RunTyped(ServiceHosts, ServiceTasks, Service!Places, ServiceReads) /\ "idle" \notin Service!Places
        /\ ~Idle /\ place # "idle"
    BY ServiceGiven DEF ServiceInv, Idle, At
  <2> QED
    BY <2>1, RunStep
<1>2. ServiceInv'
  <2>1. ServiceAlways(run'.at, run'.task, actual', run'.read, Checking')
    BY <1>1 DEF Checking
  <2>2. ASSUME ~run'.disturbed
        PROVE ServiceFine(run'.at, run'.task, actual', run'.read, run'.changed, run'.touched, Checking',
                    run'.expect, run'.again)
    <3>1. ServiceFine(run.at, run.task, actual, run.read, run.changed, run.touched, Checking,
                run.expect, run.again)
      BY <1>1, <2>2, ServiceRuns
    <3>2. ServiceFine(place, run.task, a, r, c, run.touched \/ a # actual, Checking,
                run.expect, run.again)
      BY <1>1, <2>2, <3>1 DEF ServiceFine
    <3> QED
      BY <1>1, <3>2 DEF Checking
  <2>3. /\ memo'.forecast # "none" /\ ServiceForetells(run'.task) =>
             (memo'.forecast = "changed" <=> ServiceChange(run'.task, actual'))
        /\ memo'.settled /\ ServiceSettles(run'.task, FALSE) => ~ServiceChange(run'.task, actual')
    BY <1>1 DEF ServiceInv
  <2> QED
    BY <1>1, <2>1, <2>2, <2>3 DEF ServiceInv
<1> QED
  BY <1>1, <1>2, RunSilent, ServiceSilent

LEMMA ServiceGoes ==
    ASSUME ServiceInv, run.at # "idle", NEW place \in Service!Places, NEW r \in ServiceReads, NEW c \in BOOLEAN,
           Step(place, actual, r, c), ServiceMore, ServiceAlways(place, run.task, actual, r, Checking),
           ~run.disturbed =>
             /\ ServiceKnows(place, run.task, actual, r, c, run.touched, Checking)
             /\ ServiceForetells(run.task) =>
                  (ServiceWill(place, run.task, actual, r, c) <=>
                     ServiceWill(run.at, run.task, actual, run.read, run.changed))
             /\ ServiceSettles(run.task, Checking) /\ ServiceWill(place, run.task, actual, r, c) =>
                  ServiceWill(run.at, run.task, actual, run.read, run.changed)
    PROVE ServiceInv' /\ ServiceRespects
<1>1. actual \in ServiceHosts /\ (run.touched \/ actual # actual) = run.touched
  BY ServiceGiven
<1> QED
  BY <1>1, ServiceStep

LEMMA ServiceStops ==
    ASSUME ServiceInv, run.at # "idle", NEW reply \in {"failed", "refused", "killed"}, Stops(reply), ServiceMore
    PROVE ServiceInv' /\ ServiceRespects
<1>1. /\ RunTyped(ServiceHosts, ServiceTasks, Service!Places, ServiceReads)' /\ run'.at = "idle" /\ actual' = actual
      /\ run'.reply = reply /\ run'.task = run.task /\ memo' = memo /\ RunMoves
  BY RunStops DEF ServiceInv, Replies, Idle, At
<1>2. ServiceInv'
  BY <1>1 DEF ServiceInv
<1> QED
  BY <1>1, <1>2, RunSilent, ServiceSilent

LEMMA ServiceAnswers ==
    ASSUME ServiceInv, run.at # "idle", NEW c \in BOOLEAN, Answer(c), ServiceMore,
           ~run.disturbed =>
             /\ c <=> ServiceWill(run.at, run.task, actual, run.read, run.changed)
             /\ IF c THEN ~Checking => Service!Satisfied(run.task, actual)
                     ELSE Service!Satisfied(run.task, actual) /\ (run.touched => ServiceHides(run.task))
             /\ ~Checking /\ ServiceSettles(run.task, FALSE) => ~ServiceChange(run.task, actual)
    PROVE ServiceInv' /\ ServiceRespects
<1>1. /\ RunTyped(ServiceHosts, ServiceTasks, Service!Places, ServiceReads)' /\ run'.at = "idle" /\ actual' = actual
      /\ run'.reply = "ok" /\ run'.changed = c /\ run'.task = run.task /\ run'.mode = run.mode
      /\ IF Checking THEN memo'.settled = memo.settled ELSE memo'.settled => ~run.disturbed
      /\ memo'.forecast # "none" =>
            Checking /\ ~run.disturbed /\ (memo'.forecast = "changed" <=> c)
      /\ RunMoves
  BY RunAnswers DEF ServiceInv, Idle, At
<1>0. ~run.disturbed =>
        /\ ~Checking /\ run.expect # "none" /\ ServiceForetells(run.task) => (run.expect = "changed" <=> c)
        /\ Checking /\ ServiceForetells(run.task) => (c <=> ServiceChange(run.task, actual))
        /\ run.again /\ ServiceSettles(run.task, Checking) => ~c /\ ~run.touched
  BY ServiceRuns DEF ServiceFine
<1>2. ServiceInv'
  <2>1. memo'.forecast # "none" /\ ServiceForetells(run'.task) =>
             (memo'.forecast = "changed" <=> ServiceChange(run'.task, actual'))
    <3>1. ~run.disturbed /\ Checking /\ ServiceForetells(run.task) => (c <=> ServiceChange(run.task, actual))
      BY <1>0
    <3> QED
      BY <1>1, <3>1
  <2>2. memo'.settled /\ ServiceSettles(run'.task, FALSE) => ~ServiceChange(run'.task, actual')
    BY <1>1 DEF ServiceInv
  <2> QED
    BY <1>1, <2>1, <2>2 DEF ServiceInv
<1>3. Truthful(Service!Satisfied(run.task, actual), ServiceHides(run.task))
  BY <1>1 DEF Truthful
<1>5. Service!Predicts
  BY <1>0, <1>1 DEF Service!Predicts, Service!Foretold, Service!Checking, Checking, Service!t, ServiceForetells
<1>6. Service!Idempotent
  BY <1>0, <1>1 DEF Service!Idempotent, Service!Unchanging, Service!Checking, Checking, Service!t, ServiceSettles
<1> QED
  BY <1>1, <1>2, <1>3, <1>5, <1>6 DEF ServiceRespects

LEMMA ServiceBegins ==
    ASSUME ServiceInv, run.at = "idle", NEW task \in ServiceTasks, NEW m \in {"check", "apply"},
           NEW place \in Service!Places, NEW r \in ServiceReads, Begin(task, m, place, r), ServiceMore,
           ServiceAlways(place, task, actual, r, m = "check"),
           ServiceKnows(place, task, actual, r, FALSE, FALSE, m = "check"),
           \/ m = "check" /\ ~ServiceSettles(task, TRUE) /\ ~ServiceForetells(task)
           \/ ServiceWill(place, task, actual, r, FALSE) <=> ServiceChange(task, actual),
           ServiceSettles(task, TRUE) => ServiceSettles(task, FALSE)
    PROVE ServiceInv' /\ ServiceRespects
<1>1. /\ RunTyped(ServiceHosts, ServiceTasks, Service!Places, ServiceReads)' /\ actual' = actual
      /\ run'.at = place /\ run'.read = r /\ run'.task = task /\ run'.mode = m
      /\ run'.disturbed = FALSE /\ run'.touched = FALSE /\ run'.changed = FALSE /\ RunMoves
      /\ run'.again \/ memo'.settled => memo.settled /\ task = run.task
      /\ run'.expect # "none" => run'.expect = memo.forecast /\ task = run.task
      /\ memo'.forecast # "none" => memo'.forecast = memo.forecast /\ task = run.task
      /\ Checking' = (m = "check") /\ run'.at # "idle"
  <2>1. /\ RunTyped(ServiceHosts, ServiceTasks, Service!Places, ServiceReads)' /\ actual' = actual
        /\ run'.at = place /\ run'.read = r /\ run'.task = task /\ run'.mode = m
        /\ ~run'.disturbed /\ ~run'.touched /\ ~run'.changed /\ RunMoves
        /\ run'.again \/ memo'.settled => memo.settled /\ task = run.task
        /\ run'.expect # "none" => run'.expect = memo.forecast /\ task = run.task
        /\ memo'.forecast # "none" => memo'.forecast = memo.forecast /\ task = run.task
    <3>1. RunTyped(ServiceHosts, ServiceTasks, Service!Places, ServiceReads) /\ "idle" \notin Service!Places
      BY ServiceGiven DEF ServiceInv
    <3> QED
      BY <3>1, RunBegin
  <2>2. /\ run'.disturbed \in BOOLEAN /\ run'.touched \in BOOLEAN /\ run'.changed \in BOOLEAN
    BY <2>1 DEF RunTyped, RunStates
  <2> QED
    BY <2>1, <2>2, ServiceGiven DEF Checking
<1>2. ServiceInv'
  <2>1. ServiceAlways(run'.at, run'.task, actual', run'.read, Checking')
    BY <1>1
  <2>2. /\ memo'.forecast # "none" /\ ServiceForetells(run'.task) =>
             (memo'.forecast = "changed" <=> ServiceChange(run'.task, actual'))
        /\ memo'.settled /\ ServiceSettles(run'.task, FALSE) => ~ServiceChange(run'.task, actual')
    BY <1>1 DEF ServiceInv
  <2>3. ServiceFine(run'.at, run'.task, actual', run'.read, run'.changed, run'.touched, Checking',
              run'.expect, run'.again)
    <3>1. ~Checking' /\ run'.expect # "none" /\ ServiceForetells(task) =>
             (run'.expect = "changed" <=> ServiceWill(place, task, actual, r, FALSE))
      BY <1>1 DEF ServiceInv
    <3>2. run'.again /\ ServiceSettles(task, Checking') => ~ServiceWill(place, task, actual, r, FALSE)
      BY <1>1 DEF ServiceInv
    <3>3. ServiceFine(place, task, actual, r, FALSE, FALSE, Checking', run'.expect, run'.again)
      BY <1>1, <3>1, <3>2 DEF ServiceFine
    <3> QED
      BY <1>1, <3>3
  <2> QED
    BY <1>1, <2>1, <2>2, <2>3 DEF ServiceInv
<1> QED
  BY <1>1, <1>2, RunSilent, ServiceSilent DEF Idle, At

LEMMA ServiceInterferes ==
    ASSUME ServiceInv, NEW a \in ServiceHosts, Interferes(a), ServiceMore,
           run.at # "idle" => ServiceAlways(run.at, run.task, a, run.read, Checking)
    PROVE ServiceInv' /\ ServiceRespects
<1>1. /\ RunTyped(ServiceHosts, ServiceTasks, Service!Places, ServiceReads)' /\ actual' = a
      /\ run'.at = run.at /\ run'.read = run.read /\ run'.task = run.task
      /\ run'.mode = run.mode /\ (run.at = "idle" \/ run'.disturbed)
      /\ ~memo'.settled /\ memo'.forecast = "none" /\ RunMoves
  BY RunInterferes DEF ServiceInv
<1>2. ServiceInv'
  BY <1>1 DEF ServiceInv, Checking
<1>3. ~AnswersOK
  BY <1>1 DEF AnswersOK, Answers, Idle, At
<1> QED
  BY <1>1, <1>2, <1>3, ServiceSilent

LEMMA ServiceStutters == ASSUME ServiceInv, UNCHANGED vars, ServiceMore PROVE ServiceInv' /\ ServiceRespects
<1>1. run' = run /\ actual' = actual /\ memo' = memo
  BY DEF vars
<1>2. ServiceInv'
  BY <1>1 DEF ServiceInv, RunTyped, Idle, At, Checking
<1>3. ~AnswersOK /\ RunMoves
  BY <1>1 DEF AnswersOK, Answers, Idle, At, RunMoves
<1> QED
  BY <1>2, <1>3, ServiceSilent

LEMMA ServiceGiven1 ==
    /\ ServiceTasks \subseteq Service!Requests /\ Kind \in [Fields -> Service!Kinds]
    /\ ServicesFound \subseteq Service!Services /\ UNION Groups \subseteq Fields /\ SharedFields \subseteq Fields
    /\ 0 \in Published /\ Missing \notin Service!Services /\ Missing \notin Service!Given
    /\ \A s \in ServicesFound : s.replicas = -1 <=> s.mode \in {"global", "global-job"}
  BY DockerAssumption DEF Service!TaskAssumption

LEMMA ServiceSatisfied ==
    ASSUME NEW task, NEW h, ~run.disturbed
    PROVE Service!Satisfied(task, h) <=> ServiceMeets(task, h)
  BY DEF Service!Satisfied, ServiceMeets

(* Nothing given: no names, no text, no list.                              *)
LEMMA ServiceUnset ==
    /\ DOMAIN Service!Unset = {} /\ Service!Unset \in Service!Envs
    /\ Service!Unset \in Service!FieldValues /\ Service!Unset \in Service!Given
    /\ \A f : f = [k \in DOMAIN f |-> f[k]] /\ DOMAIN f = {} => f = Service!Unset
    /\ \A Q : Service!Unset \in UNION {[D -> Q] : D \in SUBSET Targets}
<1>1. Service!Unset = [k \in {} |-> 0]
  BY DEF Service!Unset
<1>2. DOMAIN Service!Unset = {}
  BY <1>1
<1>3. \A f : f = [k \in DOMAIN f |-> f[k]] /\ DOMAIN f = {} => f = Service!Unset
  BY <1>1
<1>4. \A Q : Service!Unset \in [{} -> Q]
  BY <1>1
<1>5. Service!Unset \in Service!Envs
  <2>1. {} \in SUBSET Variables /\ Service!Unset \in [{} -> Words]
    BY <1>4
  <2> QED
    BY <2>1 DEF Service!Envs
<1>6. \A Q : Service!Unset \in UNION {[D -> Q] : D \in SUBSET Targets}
  <2>1. ASSUME NEW Q PROVE Service!Unset \in UNION {[D -> Q] : D \in SUBSET Targets}
    <3>1. {} \in SUBSET Targets /\ Service!Unset \in [{} -> Q]
      BY <1>4
    <3> QED
      BY <3>1
  <2> QED
    BY <2>1
<1>7. Service!Unset \in Service!FieldValues /\ Service!Unset \in Service!Given
  BY DEF Service!FieldValues, Service!Given
<1> QED
  BY <1>2, <1>3, <1>5, <1>6, <1>7

LEMMA ServiceNothing == Service!Nothing \in ServiceReads
  BY ServiceUnset DEF ServiceReads, Service!Snapshots, Service!Nothing

LEMMA ServiceInit == Service!Init => ServiceInv
<1> SUFFICES ASSUME Service!Init PROVE ServiceInv
  OBVIOUS
<1> DEFINE H == {[service |-> s, digest |-> 1, secret |-> 1, file |-> Missing]
                   : s \in ServicesFound \union {Missing}}
<1>1. H \subseteq ServiceHosts
  BY ServiceGiven1, ServiceUnset DEF ServiceHosts, Service!Swarms, Service!Digests
<1>2. InitRuns(H, ServiceTasks)
  BY ServiceIsARun DEF Service!Init
<1> HIDE DEF H
<1> QED
  BY <1>1, <1>2, RunInit DEF ServiceInv

(* What is written of an option is something that an option may be, and    *)
(* fits what was given; but for the two that never settle it is not found  *)
(* different afterwards.                                                   *)
LEMMA ServiceSent ==
    ASSUME NEW f \in Fields, NEW v \in Service!Given, v # Omitted
    PROVE Service!Sent(f, v) \in Service!FieldValues
<1>1. CASE v \in UNION {Settings[g] : g \in Fields}
  BY <1>1 DEF Service!FieldValues
<1>2. CASE v = Service!Unset
  <2>1. Service!Sent(f, v) = Service!Unset
    <3> DEFINE s == [k \in DOMAIN v |-> IF v[k] = Omitted THEN Chosen ELSE v[k]]
    <3>1. DOMAIN v = {} /\ Service!AllOmitted(v)
      BY <1>2, ServiceUnset DEF Service!AllOmitted
    <3>2. s = Service!Unset
      <4>1. DOMAIN s = {} /\ s = [k \in DOMAIN s |-> s[k]]
        BY <3>1
      <4> HIDE DEF s
      <4> QED
        BY <4>1, ServiceUnset
    <3> HIDE DEF s
    <3>3. Service!Sent(f, v) \in {Service!Unset, v, s}
      BY DEF Service!Sent, s
    <3> QED
      BY <1>2, <3>2, <3>3
  <2> QED
    BY <2>1, ServiceUnset
<1> QED
  BY <1>1, <1>2 DEF Service!Given

LEMMA ServiceFits ==
    ASSUME NEW f \in Fields, NEW v \in Service!Given, v # Omitted
    PROVE /\ Service!Fits(f, v, Service!Sent(f, v))
          /\ ~(Kind[f] = "limit" /\ v = Service!Unset)
               /\ ~(Kind[f] = "dict" /\ Service!AllOmitted(v)) =>
             ~Service!FieldDiffers(f, v, Service!Sent(f, v))
<1> DEFINE w == Service!Sent(f, v)
           s == [k \in DOMAIN v |-> IF v[k] = Omitted THEN Chosen ELSE v[k]]
<1>0. Kind[f] \in Service!Kinds
  BY ServiceGiven1
<1>1. Service!Agree(v, s) /\ DOMAIN s = DOMAIN v
  BY DEF Service!Agree
<1>2. CASE Kind[f] = "dict"
  <2>1. CASE Service!AllOmitted(v)
    <3>1. \A x : Service!Agree(v, x)
      BY <2>1 DEF Service!AllOmitted, Service!Agree
    <3> QED
      BY <1>2, <2>1, <3>1 DEF Service!Fits
  <2>2. CASE ~Service!AllOmitted(v)
    <3>1. w = s
      BY <1>2, <2>2 DEF Service!Sent
    <3>2. DOMAIN s # {}
      BY <2>2 DEF Service!AllOmitted
    <3>3. s # Service!Unset
      BY <3>2, ServiceUnset
    <3> HIDE DEF s, w
    <3>4. Service!Fits(f, v, w) /\ ~Service!FieldDiffers(f, v, w)
      BY <1>1, <1>2, <3>1, <3>3 DEF Service!Fits, Service!FieldDiffers
    <3> QED
      BY <3>4 DEF w
  <2> QED
    BY <2>1, <2>2
<1>3. CASE Kind[f] = "items"
  <2>1. w = s
    BY <1>3 DEF Service!Sent
  <2> HIDE DEF s, w
  <2>2. ~Service!FieldDiffers(f, v, w) /\ Service!Fits(f, v, w)
    BY <1>1, <1>3, <2>1 DEF Service!Fits, Service!FieldDiffers, Service!ItemsDiffer
  <2> QED
    BY <2>2 DEF w
<1>4. CASE Kind[f] \in {"plain", "user", "limit", "set", "map"}
  <2>1. w = v
    BY <1>4 DEF Service!Sent
  <2>2. CASE Kind[f] = "limit"
    <3>1. v # Service!Unset => v = Service!Seen(f, v)
      BY DEF Service!Seen
    <3>2. v # Service!Unset => ~Service!FieldDiffers(f, v, v)
      BY <2>2, <3>1 DEF Service!FieldDiffers
    <3> QED
      BY <2>1, <2>2, <3>2 DEF Service!Fits
  <2>3. CASE Kind[f] # "limit"
    <3>1. Kind[f] = "plain" => v = Service!Seen(f, v)
      BY DEF Service!Seen
    <3>2. Service!SameElements(v, v)
      BY DEF Service!SameElements
    <3>3. Service!MapsEqual(v, v)
      BY DEF Service!MapsEqual
    <3>4. ~Service!FieldDiffers(f, v, v)
      BY <1>4, <2>3, <3>1, <3>2, <3>3 DEF Service!FieldDiffers
    <3> QED
      BY <1>4, <2>1, <2>3, <3>4 DEF Service!Fits
  <2> QED
    BY <2>2, <2>3
<1> QED
  BY <1>0, <1>2, <1>3, <1>4 DEF Service!Kinds

(* One that is not found different fits.                                   *)
LEMMA ServiceFound ==
    ASSUME NEW f \in Fields, NEW v \in Service!Given, v # Omitted, NEW w,
           ~Service!FieldDiffers(f, v, w)
    PROVE Service!Fits(f, v, w)
<1>0. Kind[f] \in Service!Kinds /\ v # Missing
  BY ServiceGiven1
<1>1. CASE Kind[f] = "limit"
  <2>1. v = Service!Seen(f, w)
    BY <1>1 DEF Service!FieldDiffers
  <2>2. v = w
    BY <1>0, <2>1 DEF Service!Seen
  <2> QED
    BY <1>1, <2>2 DEF Service!Fits
<1>2. CASE Kind[f] = "dict"
  BY <1>2 DEF Service!Fits, Service!FieldDiffers
<1>3. CASE Kind[f] \notin {"limit", "dict"}
  BY <1>3 DEF Service!Fits
<1> QED
  BY <1>1, <1>2, <1>3

LEMMA ServiceTask ==
    ASSUME NEW task \in ServiceTasks
    PROVE /\ task.state \in {"present", "absent"} /\ task.image \in 0 .. 2
          /\ task.mode \in Service!Modes /\ task.replicas \in -1 .. 2
          /\ task.health \in {"keep", "clear", "none", "test"}
          /\ task.env \in Service!Envs \union {Omitted}
          /\ \A f \in Fields : task.fields[f] \in Service!Given
          /\ task.ports # Omitted =>
               task.ports \in UNION {[D -> Published \union {Omitted}] : D \in SUBSET Targets}
          /\ {task.resolve, task.file, task.secret, task.force, task.valid} \subseteq BOOLEAN
          /\ Service!GivenBy(task) \subseteq Fields
          /\ \A f \in Service!GivenBy(task) :
                task.fields[f] \in Service!Given /\ task.fields[f] # Omitted
<1>1. task \in Service!Requests
  BY ServiceGiven1
<1>2. /\ task.state \in {"present", "absent"} /\ task.image \in 0 .. 2
      /\ task.mode \in Service!Modes /\ task.replicas \in -1 .. 2
      /\ task.health \in {"keep", "clear", "none", "test"}
      /\ task.env \in Service!Envs \union {Omitted} /\ task.fields \in [Fields -> Service!Given]
  BY <1>1 DEF Service!Requests
<1>3. task.ports # Omitted =>
         task.ports \in UNION {[D -> Published \union {Omitted}] : D \in SUBSET Targets}
  BY <1>1 DEF Service!Requests
<1>4. {task.resolve, task.file, task.secret, task.force, task.valid} \subseteq BOOLEAN
  BY <1>1 DEF Service!Requests
<1>5. /\ Service!GivenBy(task) \subseteq Fields
      /\ \A f \in Service!GivenBy(task) : task.fields[f] # Omitted
  BY DEF Service!GivenBy
<1> QED
  BY <1>2, <1>3, <1>4, <1>5

LEMMA ServiceEnv ==
    ASSUME NEW task \in ServiceTasks, NEW e \in Service!Envs \union {Missing},
           task.file => e # Missing
    PROVE Service!EnvOf(task, e) \in Service!Envs
<1> DEFINE given == IF task.env = Omitted THEN Service!Unset ELSE task.env
           base == IF task.file THEN e ELSE Service!Unset
           D == DOMAIN given \union DOMAIN base
           w == [k \in D |-> IF k \in DOMAIN given THEN given[k] ELSE base[k]]
<1>1. given \in Service!Envs /\ base \in Service!Envs
  BY ServiceTask, ServiceUnset
<1>2. \A x \in Service!Envs : DOMAIN x \subseteq Variables /\ \A k \in DOMAIN x : x[k] \in Words
  BY DEF Service!Envs
<1>3. D \subseteq Variables /\ w \in [D -> Words]
  <2> HIDE DEF given, base
  <2> QED
    BY <1>1, <1>2
<1>4. w \in Service!Envs
  <2> HIDE DEF w, D
  <2> QED
    BY <1>3 DEF Service!Envs
<1> QED
  BY <1>4 DEF Service!EnvOf

(* What is written is a service, with what the task gives.                 *)
LEMMA ServiceFieldsWritten ==
    ASSUME NEW task \in ServiceTasks, NEW g \in [Fields -> Service!FieldValues]
    PROVE LET w == Service!FieldsWritten(task, g) IN
          /\ w \in [Fields -> Service!FieldValues]
          /\ \A f \in Service!GivenBy(task) : w[f] = Service!Sent(f, task.fields[f])
          /\ \A f \in Fields :
                f \notin Service!GivenBy(task)
                /\ Service!GivenBy(task) \cap Service!Together(f) = {} => w[f] = g[f]
<1> DEFINE w == Service!FieldsWritten(task, g)
<1>1. \A f \in Service!GivenBy(task) :
         /\ f \in Fields
         /\ Service!Sent(f, task.fields[f]) \in Service!FieldValues
  BY ServiceTask, ServiceSent
<1>2. w = [f \in Fields |-> IF f \in Service!GivenBy(task) THEN Service!Sent(f, task.fields[f])
                           ELSE IF Service!GivenBy(task) \cap Service!Together(f) # {}
                           THEN Service!Unset ELSE g[f]]
  BY DEF Service!FieldsWritten
<1> HIDE DEF w
<1>3. w \in [Fields -> Service!FieldValues]
  BY <1>1, <1>2, ServiceUnset
<1> QED
  BY <1>1, <1>2, <1>3 DEF w

LEMMA ServicePortsWritten ==
    ASSUME NEW task \in ServiceTasks,
           NEW ports \in UNION {[D -> Published] : D \in SUBSET Targets}
    PROVE LET w == Service!PortsWritten(task, ports) IN
          /\ w \in UNION {[D -> Published] : D \in SUBSET Targets}
          /\ task.ports = Omitted => w = ports
          /\ task.ports # Omitted =>
                ~Service!ItemsDiffer(task.ports, w) /\ ~Service!PortsDiffer(task.ports, w)
<1>1. CASE task.ports = Omitted
  BY <1>1 DEF Service!PortsWritten
<1>2. CASE task.ports # Omitted
  <2> DEFINE given == task.ports
             w == [p \in DOMAIN given |-> Service!PublishedAs(given[p])]
  <2>1. PICK D \in SUBSET Targets : given \in [D -> Published \union {Omitted}]
    BY <1>2, ServiceTask
  <2>2. \A p \in DOMAIN given :
           /\ w[p] \in Published /\ w[p] = Service!PublishedAs(given[p])
           /\ Service!PublishedAs(w[p]) = w[p]
           /\ given[p] = Omitted \/ given[p] = w[p]
    BY <2>1, ServiceGiven1 DEF Service!PublishedAs
  <2>3. DOMAIN w = DOMAIN given /\ DOMAIN given = D /\ w = [p \in D |-> w[p]]
    BY <2>1
  <2>4. Service!PortsWritten(task, ports) = w
    BY <1>2 DEF Service!PortsWritten
  <2> HIDE DEF w, given
  <2>5. w \in UNION {[E -> Published] : E \in SUBSET Targets}
    <3>1. D \in SUBSET Targets /\ w \in [D -> Published]
      BY <2>2, <2>3
    <3>2. [D -> Published] \in {[E -> Published] : E \in SUBSET Targets}
      BY <3>1
    <3> QED
      BY <3>1, <3>2
  <2>6. ~Service!ItemsDiffer(given, w)
    BY <2>2, <2>3 DEF Service!ItemsDiffer, Service!Agree
  <2>7. \A p \in DOMAIN given, q \in DOMAIN given :
           Service!Before(given, p, q) = Service!Before(w, p, q)
    BY <2>2 DEF Service!Before
  <2>8. ~Service!PortsDiffer(given, w)
    BY <2>6, <2>7 DEF Service!PortsDiffer
  <2> QED
    BY <1>2, <2>4, <2>5, <2>6, <2>8 DEF given
<1> QED
  BY <1>1, <1>2

LEMMA ServiceWrites ==
    ASSUME NEW task \in ServiceTasks, NEW r \in ServiceReads, NEW base \in Service!Services
    PROVE LET s == Service!Written(task, r, base) IN
          /\ s \in Service!Services /\ s # Missing
          /\ s.replicas = -1 <=> s.mode \in {"global", "global-job"}
<1> DEFINE s == Service!Written(task, r, base)
<1>1. /\ r.digest \in 0 .. 2 /\ r.secret \in 0 .. 2 /\ r.env \in Service!Envs
      /\ r.found # Missing => r.found.replicas \in -1 .. 2
  BY DEF ServiceReads, Service!Snapshots, Service!Services
<1>2. /\ base.image \in 0 .. 2 /\ base.digest \in 0 .. 2 /\ base.secret \in 0 .. 2
      /\ base.env \in Service!Envs /\ base.health \in {"unset", "none", "test"}
      /\ base.fields \in [Fields -> Service!FieldValues]
      /\ base.ports \in UNION {[D -> Published] : D \in SUBSET Targets}
  BY DEF Service!Services
<1>3. /\ task.image \in 0 .. 2 /\ task.mode \in {"replicated", "global", "replicated-job"}
      /\ task.replicas \in -1 .. 2
      /\ task.health \in {"keep", "clear", "none", "test"}
  BY ServiceTask DEF Service!Modes
<1>4. /\ s.image \in 0 .. 2 /\ s.digest \in 0 .. 2 /\ s.secret \in 0 .. 2
      /\ s.env \in Service!Envs /\ s.mode = task.mode
  BY <1>1, <1>2, <1>3 DEF Service!Written
<1>5. s.health \in {"unset", "none", "test"}
  BY <1>2, <1>3 DEF Service!Written, Service!HealthWritten
<1>6. s.replicas \in -1 .. 2 /\ (s.replicas = -1 <=> task.mode = "global")
  BY <1>1, <1>3 DEF Service!Written, Service!ReplicasWritten, Service!ReplicasOf
<1>7. s.fields \in [Fields -> Service!FieldValues]
  BY <1>2, ServiceFieldsWritten DEF Service!Written
<1>8. s.ports \in UNION {[D -> Published] : D \in SUBSET Targets}
  BY <1>2, ServicePortsWritten DEF Service!Written
<1>9. /\ s = [image |-> s.image, digest |-> s.digest, mode |-> s.mode, replicas |-> s.replicas,
             fields |-> s.fields, health |-> s.health, env |-> s.env, ports |-> s.ports,
             secret |-> s.secret]
  BY DEF Service!Written
<1> HIDE DEF s
<1>10. s \in Service!Services
  BY <1>3, <1>4, <1>5, <1>6, <1>7, <1>8, <1>9 DEF Service!Services, Service!Modes
<1> QED
  BY <1>3, <1>4, <1>6, <1>10, ServiceGiven1 DEF s

(* A service that was written is what the task asks for, and is not found  *)
(* different; nor is one for which there is nothing to do.                 *)
LEMMA ServiceDone ==
    ASSUME NEW task \in ServiceTasks, task.state = "present", NEW r \in ServiceReads,
           NEW base \in Service!Services, NEW h \in ServiceHosts,
           h.service = Service!Written(task, r, base),
           r.digest = ServiceSeen(task, h).digest, r.secret = h.secret,
           r.env = Service!EnvOf(task, h.file)
    PROVE /\ ServiceMeets(task, h)
          /\ ServiceSettles(task, FALSE) => ~ServiceChange(task, h)
<1> DEFINE s == Service!Written(task, r, base)
           q == ServiceSeen(task, h)
<1>1. /\ q.digest = r.digest /\ q.secret = r.secret /\ q.env = r.env /\ q.found = s
      /\ task.image # 0 /\ task.resolve => r.digest = h.digest
      /\ ~(task.image # 0 /\ task.resolve) => r.digest = 0
  BY DEF ServiceSeen
<1>2. /\ task.image \in 0 .. 2 /\ task.mode \in Service!Modes /\ task.replicas \in -1 .. 2
      /\ task.health \in {"keep", "clear", "none", "test"}
  BY ServiceTask
<1>3. s \in Service!Services /\ s # Missing
  BY ServiceWrites
<1>4. /\ base.fields \in [Fields -> Service!FieldValues]
      /\ base.ports \in UNION {[D -> Published] : D \in SUBSET Targets}
  BY DEF Service!Services
<1>5. /\ task.image # 0 => s.image = task.image /\ s.digest = r.digest
      /\ s.mode = task.mode /\ s.replicas = Service!ReplicasWritten(task, r.found)
      /\ s.fields = Service!FieldsWritten(task, base.fields)
      /\ s.health = Service!HealthWritten(task, base.health)
      /\ Service!EnvGiven(task) => s.env = r.env
      /\ s.ports = Service!PortsWritten(task, base.ports)
      /\ task.secret => s.secret = r.secret
  BY DEF Service!Written
<1>6. \A f \in Service!GivenBy(task) :
         /\ f \in Fields /\ task.fields[f] \in Service!Given /\ task.fields[f] # Omitted
         /\ s.fields[f] = Service!Sent(f, task.fields[f])
  BY <1>4, <1>5, ServiceTask, ServiceFieldsWritten
<1>7. task.ports # Omitted =>
         ~Service!ItemsDiffer(task.ports, s.ports) /\ ~Service!PortsDiffer(task.ports, s.ports)
  BY <1>4, <1>5, ServicePortsWritten
<1> HIDE DEF s, q
<1>8. task.replicas # -1 /\ task.mode # "global" => s.replicas = task.replicas
  BY <1>2, <1>5 DEF Service!ReplicasWritten, Service!ReplicasOf
<1>9. Service!ReplicasOf(task, s) = s.replicas
  <2>1. CASE task.mode = "global"
    BY <1>5, <2>1 DEF Service!ReplicasWritten, Service!ReplicasOf
  <2>2. CASE task.mode # "global" /\ task.replicas # -1
    BY <1>8, <2>2 DEF Service!ReplicasOf
  <2>3. CASE task.mode # "global" /\ task.replicas = -1
    BY <1>3, <2>3 DEF Service!ReplicasOf
  <2> QED
    BY <2>1, <2>2, <2>3
<1>10. /\ task.health = "test" => s.health = "test"
       /\ task.health = "none" => s.health = "none"
       /\ task.health = "clear" => s.health = "unset"
       /\ ~Service!HealthDiffers(task, s.health)
  BY <1>2, <1>5 DEF Service!HealthWritten, Service!HealthDiffers
<1>11. \A f \in Service!GivenBy(task) : Service!Fits(f, task.fields[f], s.fields[f])
  BY <1>6, ServiceFits
<1>12. h.service = s
  BY DEF s
<1>13. ServiceMeets(task, h)
  BY <1>1, <1>3, <1>5, <1>7, <1>8, <1>10, <1>11, <1>12 DEF ServiceMeets
<1>14. ServiceSettles(task, FALSE) => ~Service!FieldsDiffer(task, s.fields)
  BY <1>6, ServiceFits DEF ServiceSettles, Service!FieldsDiffer
<1>15. task.image # 0 => ~Service!ImageDiffers(task, q, s)
  BY <1>1, <1>5 DEF Service!ImageDiffers
<1>16. ServiceSettles(task, FALSE) => ~Service!Differs(task, q, s)
  BY <1>1, <1>5, <1>7, <1>9, <1>10, <1>14, <1>15 DEF Service!Differs
<1> QED
  BY <1>3, <1>12, <1>13, <1>16 DEF ServiceChange, ServiceSettles, q

LEMMA ServiceSame ==
    ASSUME NEW task \in ServiceTasks, NEW h \in ServiceHosts, ~ServiceChange(task, h)
    PROVE ServiceMeets(task, h)
<1> DEFINE s == h.service
           q == ServiceSeen(task, h)
<1>1. CASE task.state = "absent"
  BY <1>1 DEF ServiceChange, ServiceMeets
<1>2. CASE task.state # "absent"
  <2>1. s # Missing /\ ~Service!Differs(task, q, s)
    BY <1>2 DEF ServiceChange
  <2>2. /\ q.secret = h.secret /\ q.env = Service!EnvOf(task, h.file) /\ q.found = s
        /\ task.image # 0 /\ task.resolve => q.digest = h.digest
        /\ h.digest \in 1 .. 2
    BY DEF ServiceSeen, ServiceHosts, Service!Swarms, Service!Digests
  <2>3. /\ task.replicas \in -1 .. 2 /\ task.health \in {"keep", "clear", "none", "test"}
    BY ServiceTask
  <2> HIDE DEF s, q
  <2>4. /\ task.image # 0 => ~Service!ImageDiffers(task, q, s)
        /\ task.mode = s.mode /\ Service!ReplicasOf(task, q.found) = s.replicas
        /\ ~Service!FieldsDiffer(task, s.fields) /\ ~Service!HealthDiffers(task, s.health)
        /\ Service!EnvGiven(task) => q.env = s.env
        /\ task.ports # Omitted => ~Service!PortsDiffer(task.ports, s.ports)
        /\ task.secret => q.secret = s.secret
    BY <2>1 DEF Service!Differs
  <2>5. \A f \in Service!GivenBy(task) : Service!Fits(f, task.fields[f], s.fields[f])
    BY <2>4, ServiceTask, ServiceFound DEF Service!FieldsDiffer
  <2>6. task.ports # Omitted => ~Service!ItemsDiffer(task.ports, s.ports)
    BY <2>4 DEF Service!PortsDiffer
  <2>7. task.replicas # -1 /\ task.mode # "global" => s.replicas = task.replicas
    BY <2>4 DEF Service!ReplicasOf
  <2>8. /\ task.image # 0 => s.image = task.image
        /\ task.image # 0 /\ task.resolve => s.digest = h.digest
    BY <2>2, <2>4 DEF Service!ImageDiffers
  <2>9. /\ task.health = "test" => s.health = "test"
        /\ task.health = "none" => s.health # "test"
        /\ task.health = "clear" => s.health = "unset"
    BY <2>4 DEF Service!HealthDiffers
  <2>10. /\ task.secret => s.secret = h.secret
         /\ Service!EnvGiven(task) => s.env = Service!EnvOf(task, h.file)
    BY <2>2, <2>4
  <2> QED
    BY <1>2, <2>1, <2>4, <2>5, <2>6, <2>7, <2>8, <2>9, <2>10 DEF ServiceMeets, s
<1> QED
  BY <1>1, <1>2

LEMMA ServiceQuiet == run.at # "update" => ServiceMore
  BY DEF ServiceMore, Service!KeepsOmitted, Service!OutdatedOnceIsRetried, Service!At

(* What the run reads, at each place: the digest, the service, the secret  *)
(* and the environment,                                                    *)
LEMMA ServiceReading ==
    ASSUME ServiceInv, Service!Digest \/ Service!Inspect \/ Service!References \/ Service!Parse
    PROVE ServiceInv' /\ ServiceRespects
<1> DEFINE task == run.task
           r == run.read
           seen == ServiceSeen(task, actual)
<1>1. /\ run.at \in {"digest", "inspect", "references", "parse"} /\ task \in ServiceTasks
      /\ actual \in ServiceHosts /\ r \in ServiceReads /\ run.changed \in BOOLEAN
      /\ run.touched \in BOOLEAN
  BY ServiceGiven
     DEF Service!Digest, Service!Inspect, Service!References, Service!Parse, Service!At
<1>2. /\ ServiceAlways(run.at, task, actual, r, Checking)
      /\ ~run.disturbed =>
            ServiceKnows(run.at, task, actual, r, run.changed, run.touched, Checking)
  BY <1>1, ServiceRuns DEF ServiceInv, ServiceFine
<1>3. /\ seen.secret = actual.secret /\ seen.found = actual.service
      /\ seen.env = Service!EnvOf(task, actual.file)
      /\ seen.digest = IF task.image # 0 /\ task.resolve THEN actual.digest ELSE 0
  BY DEF ServiceSeen
<1>4. /\ actual.digest \in 1 .. 2 /\ actual.secret \in 0 .. 2
      /\ actual.service \in Service!Services \union {Missing}
      /\ actual.file \in Service!Envs \union {Missing}
  BY <1>1 DEF ServiceHosts, Service!Swarms, Service!Digests
<1>5. ASSUME NEW place \in {"inspect", "references", "parse", "decide"}, NEW k \in ServiceReads,
             Step(place, actual, k, run.changed),
             ServiceAlways(place, task, actual, k, Checking),
             ~run.disturbed =>
                ServiceKnows(place, task, actual, k, run.changed, run.touched, Checking)
      PROVE ServiceInv' /\ ServiceRespects
  <2>1. place \in Service!Places /\ ServiceMore
    BY <1>1, ServiceQuiet DEF Service!Places
  <2>2. ServiceWill(place, task, actual, k, run.changed) <=>
            ServiceWill(run.at, task, actual, r, run.changed)
    BY <1>1 DEF ServiceWill
  <2> QED
    BY <1>1, <1>5, <2>1, <2>2, ServiceGoes
<1>6. ASSUME run.at # "idle", Stops("refused") PROVE ServiceInv' /\ ServiceRespects
  BY <1>1, <1>6, ServiceQuiet, ServiceStops
<1> HIDE DEF seen
<1>7. CASE Service!Digest
  <2> DEFINE k == [r EXCEPT !.digest = IF task.image # 0 /\ task.resolve THEN actual.digest ELSE 0]
  <2>1. run.at = "digest" /\ Step("inspect", actual, k, run.changed)
    BY <1>7, ServiceIsARun DEF Service!Digest, Service!At, Service!t, Service!now
  <2>2. k \in ServiceReads /\ k.digest = seen.digest
    BY <1>1, <1>3, <1>4 DEF ServiceReads, Service!Snapshots
  <2> HIDE DEF k
  <2>3. ServiceAlways("inspect", task, actual, k, Checking)
    BY DEF ServiceAlways
  <2>4. ~run.disturbed => ServiceKnows("inspect", task, actual, k, run.changed, run.touched, Checking)
    BY <1>2, <2>1, <2>2 DEF ServiceKnows, seen
  <2> QED
    BY <1>5, <2>1, <2>2, <2>3, <2>4
<1>8. CASE Service!Inspect
  <2> DEFINE k == [r EXCEPT !.found = actual.service, !.fresh = TRUE]
  <2>1. /\ run.at = "inspect"
        /\ Stops("refused") \/ Step("references", actual, k, run.changed)
    BY <1>8, ServiceIsARun DEF Service!Inspect, Service!At, Service!now
  <2>2. k \in ServiceReads /\ k.found = actual.service /\ k.digest = r.digest /\ k.fresh
    BY <1>1, <1>4 DEF ServiceReads, Service!Snapshots
  <2> HIDE DEF k
  <2>3. ServiceAlways("references", task, actual, k, Checking)
    BY <2>2 DEF ServiceAlways
  <2>4. ~run.disturbed =>
          ServiceKnows("references", task, actual, k, run.changed, run.touched, Checking)
    BY <1>2, <1>3, <2>1, <2>2 DEF ServiceKnows, seen
  <2> QED
    BY <1>5, <1>6, <2>1, <2>2, <2>3, <2>4
<1>9. CASE Service!References
  <2> DEFINE k == [r EXCEPT !.secret = actual.secret]
  <2>1. /\ run.at = "references"
        /\ Stops("refused") \/ Step("parse", actual, k, run.changed)
    BY <1>9, ServiceIsARun DEF Service!References, Service!At, Service!now
  <2>2. /\ k \in ServiceReads /\ k.secret = actual.secret /\ k.digest = r.digest
        /\ k.found = r.found /\ k.fresh = r.fresh
    BY <1>1, <1>4 DEF ServiceReads, Service!Snapshots
  <2> HIDE DEF k
  <2>3. ServiceAlways("parse", task, actual, k, Checking)
    BY <1>2, <2>1, <2>2 DEF ServiceAlways
  <2>4. ~run.disturbed => ServiceKnows("parse", task, actual, k, run.changed, run.touched, Checking)
    BY <1>2, <1>3, <2>1, <2>2 DEF ServiceKnows, seen
  <2> QED
    BY <1>5, <1>6, <2>1, <2>2, <2>3, <2>4
<1>10. CASE Service!Parse
  <2> DEFINE k == [r EXCEPT !.env = Service!EnvOf(task, actual.file)]
  <2>1. /\ run.at = "parse"
        /\ \/ Stops("refused")
           \/ Step("decide", actual, k, run.changed) /\ (task.file => actual.file # Missing)
    BY <1>10, ServiceIsARun DEF Service!Parse, Service!At, Service!now, Service!t
  <2>2. CASE Stops("refused")
    BY <1>6, <2>1, <2>2
  <2>3. CASE Step("decide", actual, k, run.changed) /\ (task.file => actual.file # Missing)
    <3>1. Service!EnvOf(task, actual.file) \in Service!Envs
      BY <1>1, <1>4, <2>3, ServiceEnv
    <3>2. /\ k \in ServiceReads /\ k.env = seen.env /\ k.secret = r.secret /\ k.digest = r.digest
          /\ k.found = r.found /\ k.fresh = r.fresh
      BY <1>1, <1>3, <3>1 DEF ServiceReads, Service!Snapshots
    <3> HIDE DEF k
    <3>3. ServiceAlways("decide", task, actual, k, Checking)
      BY <1>2, <2>1, <3>2 DEF ServiceAlways
    <3>4. ~run.disturbed =>
            ServiceKnows("decide", task, actual, k, run.changed, run.touched, Checking)
      BY <1>2, <2>1, <3>2 DEF ServiceKnows, seen
    <3> QED
      BY <1>5, <2>3, <3>2, <3>3, <3>4
  <2> QED
    BY <2>1, <2>2, <2>3
<1> QED
  BY <1>7, <1>8, <1>9, <1>10

(* and what it decides.                                                    *)
LEMMA ServiceDecides ==
    ASSUME ServiceInv, Service!Decide
    PROVE ServiceInv' /\ ServiceRespects
<1> DEFINE task == run.task
           r == run.read
           seen == ServiceSeen(task, actual)
           differs == Service!Differs(task, r, r.found)
<1>1. /\ run.at = "decide" /\ task \in ServiceTasks
      /\ actual \in ServiceHosts /\ r \in ServiceReads /\ run.changed \in BOOLEAN
      /\ run.touched \in BOOLEAN /\ task.state \in {"present", "absent"}
  BY ServiceGiven, ServiceTask DEF Service!Decide, Service!At
<1>2. /\ ServiceAlways(run.at, task, actual, r, Checking)
      /\ ~run.disturbed =>
            ServiceKnows(run.at, task, actual, r, run.changed, run.touched, Checking)
  BY <1>1, ServiceRuns DEF ServiceInv, ServiceFine
<1>3. ~run.disturbed =>
        /\ r.found = actual.service
        /\ Service!Differs(task, seen, actual.service) <=> differs
  <2>1. ASSUME ~run.disturbed
        PROVE /\ r.found = actual.service
              /\ Service!Differs(task, seen, actual.service) <=> differs
    <3>1. /\ r.found = seen.found /\ r.digest = seen.digest /\ r.secret = seen.secret
          /\ r.env = seen.env /\ seen.found = actual.service
      BY <1>1, <1>2, <2>1 DEF ServiceKnows, ServiceSeen
    <3> HIDE DEF seen
    <3> QED
      BY <3>1 DEF Service!Differs, Service!ImageDiffers
  <2> QED
    BY <2>1
<1>4. ~run.disturbed =>
         (ServiceChange(task, actual) <=>
            IF task.state = "absent" THEN r.found # Missing
            ELSE r.found = Missing \/ task.force \/ differs)
  BY <1>3 DEF ServiceChange
<1>5. ASSUME NEW place \in {"answer", "create", "update", "replace", "remove"}, NEW c \in BOOLEAN,
             Step(place, actual, r, c), ServiceAlways(place, task, actual, r, Checking),
             place = "create" => r.found = Missing,
             ~run.disturbed /\ place # "answer" => ServiceChange(task, actual),
             ~run.disturbed /\ place = "answer" =>
                (c <=> ServiceChange(task, actual)) /\ (Checking \/ ~c)
      PROVE ServiceInv' /\ ServiceRespects
  <2>1. place \in Service!Places /\ ServiceMore /\ run.at # "idle"
    BY <1>1, ServiceQuiet DEF Service!Places
  <2>2. ASSUME ~run.disturbed
        PROVE /\ ServiceKnows(place, task, actual, r, c, run.touched, Checking)
              /\ ServiceWill(place, task, actual, r, c) <=>
                    ServiceWill(run.at, task, actual, r, run.changed)
    <3>1. ~run.touched /\ r.found = actual.service
          /\ r.digest = seen.digest /\ r.secret = seen.secret /\ r.env = seen.env
          /\ r.found = seen.found /\ r.fresh
      BY <1>1, <1>2, <1>3, <2>2 DEF ServiceKnows
    <3>2. place = "answer" /\ ~c => ServiceMeets(task, actual)
      BY <1>1, <1>5, <2>2, ServiceSame
    <3>3. ServiceKnows(place, task, actual, r, c, run.touched, Checking)
      BY <1>5, <2>2, <3>1, <3>2 DEF ServiceKnows
    <3> QED
      BY <1>1, <1>5, <2>2, <3>3 DEF ServiceWill
  <2> QED
    BY <1>1, <1>5, <2>1, <2>2, ServiceGoes
<1>6. \/ Stops("refused")
      \/ /\ Step("answer", actual, r, run.changed)
         /\ IF task.state = "absent" THEN r.found = Missing
            ELSE r.found # Missing /\ ~differs /\ ~task.force
      \/ /\ Step("answer", actual, r, TRUE) /\ Checking
         /\ IF task.state = "absent" THEN r.found # Missing
            ELSE r.found = Missing \/ differs \/ task.force
      \/ /\ Step("create", actual, r, run.changed) /\ ~Checking
         /\ task.state = "present" /\ r.found = Missing
      \/ /\ Step("remove", actual, r, run.changed) /\ ~Checking
         /\ task.state = "absent" /\ r.found # Missing
      \/ /\ Step("replace", actual, r, run.changed) /\ ~Checking
         /\ task.state = "present" /\ r.found # Missing /\ (differs \/ task.force)
      \/ /\ Step("update", actual, r, run.changed) /\ ~Checking /\ task.mode = r.found.mode
         /\ task.state = "present" /\ r.found # Missing /\ (differs \/ task.force)
  <2> DEFINE announced(place) ==
         IF Checking THEN Step("answer", actual, r, TRUE) ELSE Step(place, actual, r, run.changed)
  <2>1. \A place : Service!Announce(place) <=> announced(place)
    BY ServiceIsARun DEF Service!Announce, Service!Checking, Checking
  <2>2. (Service!Refuse <=> Stops("refused"))
        /\ (Service!Goto("answer") <=> Step("answer", actual, r, run.changed))
    BY ServiceIsARun
  <2> HIDE DEF differs
  <2>3. \/ /\ r.found = Missing /\ task.state = "absent" /\ Service!Goto("answer")
        \/ /\ r.found = Missing /\ task.state = "present"
           /\ Service!Announce("create") \/ Service!Refuse
        \/ r.found # Missing /\ task.state = "absent" /\ Service!Announce("remove")
        \/ /\ r.found # Missing /\ task.state = "present" /\ ~differs /\ ~task.force
           /\ Service!Goto("answer")
        \/ /\ r.found # Missing /\ task.state = "present" /\ (differs \/ task.force)
           /\ \/ task.mode = r.found.mode /\ Service!Announce("update")
              \/ Service!Announce("replace")
    BY <1>1 DEF Service!Decide, Service!t, Service!now, differs
  <2>4. CASE Checking
    BY <2>1, <2>2, <2>3, <2>4
  <2>5. CASE ~Checking
    BY <2>1, <2>2, <2>3, <2>5
  <2> QED
    BY <2>4, <2>5
<1> HIDE DEF differs
<1>7. CASE Stops("refused")
  BY <1>1, <1>7, ServiceQuiet, ServiceStops
<1>8. CASE /\ Step("answer", actual, r, run.changed)
           /\ IF task.state = "absent" THEN r.found = Missing
              ELSE r.found # Missing /\ ~differs /\ ~task.force
  <2>1. ~run.disturbed => ~run.changed /\ ~ServiceChange(task, actual)
    BY <1>1, <1>2, <1>4, <1>8 DEF ServiceKnows
  <2> QED
    BY <1>1, <1>5, <1>8, <2>1 DEF ServiceAlways
<1>9. CASE /\ Step("answer", actual, r, TRUE) /\ Checking
           /\ IF task.state = "absent" THEN r.found # Missing
              ELSE r.found = Missing \/ differs \/ task.force
  BY <1>4, <1>5, <1>9 DEF ServiceAlways
<1>10. CASE /\ Step("create", actual, r, run.changed) /\ ~Checking
            /\ task.state = "present" /\ r.found = Missing
  BY <1>1, <1>4, <1>5, <1>10 DEF ServiceAlways
<1>11. CASE /\ Step("remove", actual, r, run.changed) /\ ~Checking
            /\ task.state = "absent" /\ r.found # Missing
  BY <1>1, <1>4, <1>5, <1>11 DEF ServiceAlways
<1>12. CASE /\ Step("replace", actual, r, run.changed) /\ ~Checking
            /\ task.state = "present" /\ r.found # Missing /\ (differs \/ task.force)
  BY <1>1, <1>4, <1>5, <1>12 DEF ServiceAlways
<1>13. CASE /\ Step("update", actual, r, run.changed) /\ ~Checking /\ task.mode = r.found.mode
            /\ task.state = "present" /\ r.found # Missing /\ (differs \/ task.force)
  <2>1. ServiceAlways("update", task, actual, r, Checking)
    BY <1>1, <1>2, <1>13 DEF ServiceAlways
  <2> QED
    BY <1>1, <1>4, <1>5, <1>13, <2>1
<1> QED
  BY <1>6, <1>7, <1>8, <1>9, <1>10, <1>11, <1>12, <1>13

(* What a run writes.                                                      *)
LEMMA ServiceBare == Service!Bare \in Service!Services
<1>1. [f \in Fields |-> Service!Unset] \in [Fields -> Service!FieldValues]
  BY ServiceUnset
<1>2. /\ Service!Unset \in Service!Envs
      /\ Service!Unset \in UNION {[D -> Published] : D \in SUBSET Targets}
  BY ServiceUnset
<1> QED
  BY <1>1, <1>2 DEF Service!Bare, Service!Services, Service!Modes

LEMMA ServiceCreates ==
    ASSUME ServiceInv, Service!Create
    PROVE ServiceInv' /\ ServiceRespects
<1> DEFINE task == run.task
           r == run.read
           w == Service!Written(task, r, Service!Bare)
           a == [actual EXCEPT !.service = w]
<1>1. /\ run.at = "create" /\ task \in ServiceTasks
      /\ actual \in ServiceHosts /\ r \in ServiceReads /\ run.touched \in BOOLEAN
      /\ actual.service = Missing /\ Step("answer", a, r, TRUE)
  BY ServiceGiven, ServiceIsARun
     DEF Service!Create, Service!At, Service!Exists, Service!t, Service!now
<1>2. /\ ServiceAlways(run.at, task, actual, r, Checking)
      /\ ~run.disturbed =>
            ServiceKnows(run.at, task, actual, r, run.changed, run.touched, Checking)
  BY <1>1, ServiceRuns DEF ServiceInv, ServiceFine
<1>3. ~Checking /\ task.state = "present"
  BY <1>1, <1>2 DEF ServiceAlways
<1>4. w \in Service!Services /\ w # Missing
      /\ (w.replicas = -1 <=> w.mode \in {"global", "global-job"})
  BY <1>1, ServiceBare, ServiceWrites
<1> HIDE DEF w
<1>5. /\ a \in ServiceHosts /\ a.service = w /\ a.digest = actual.digest
      /\ a.secret = actual.secret /\ a.file = actual.file
  BY <1>1, <1>4 DEF ServiceHosts, Service!Swarms
<1> HIDE DEF a
<1>6. ASSUME ~run.disturbed
      PROVE /\ ServiceKnows("answer", task, a, r, TRUE, run.touched \/ a # actual, Checking)
            /\ ServiceWill("answer", task, a, r, TRUE)
            /\ ServiceWill(run.at, task, actual, r, run.changed)
  <2>1. /\ r.digest = ServiceSeen(task, a).digest /\ r.secret = a.secret
        /\ r.env = Service!EnvOf(task, a.file)
    BY <1>1, <1>2, <1>5, <1>6 DEF ServiceKnows, ServiceSeen
  <2>2. ServiceMeets(task, a) /\ (ServiceSettles(task, FALSE) => ~ServiceChange(task, a))
    BY <1>1, <1>3, <1>5, <2>1, ServiceBare, ServiceDone DEF w
  <2> QED
    BY <1>1, <1>3, <2>2 DEF ServiceKnows, ServiceWill
<1>7. ServiceAlways("answer", task, a, r, Checking) /\ ServiceMore /\ run.at # "idle"
  BY <1>1, ServiceQuiet DEF ServiceAlways
<1> QED
  BY <1>1, <1>3, <1>5, <1>6, <1>7, ServiceStep DEF Service!Places

(* An update keeps what the task does not give.                            *)
LEMMA ServiceUpdates ==
    ASSUME ServiceInv, Service!Update
    PROVE ServiceInv' /\ ServiceRespects
<1> DEFINE task == run.task
           r == run.read
           old == actual.service
           w == Service!Written(task, r, r.found)
           a == [actual EXCEPT !.service = w]
<1>1. /\ run.at = "update" /\ task \in ServiceTasks
      /\ actual \in ServiceHosts /\ r \in ServiceReads /\ run.touched \in BOOLEAN
      /\ old # Missing /\ r.fresh /\ Step("answer", a, r, TRUE)
  BY ServiceGiven, ServiceIsARun
     DEF Service!Update, Service!At, Service!Exists, Service!t, Service!now
<1>2. /\ ServiceAlways(run.at, task, actual, r, Checking)
      /\ ~run.disturbed =>
            ServiceKnows(run.at, task, actual, r, run.changed, run.touched, Checking)
  BY <1>1, ServiceRuns DEF ServiceInv, ServiceFine
<1>3. /\ ~Checking /\ task.state = "present" /\ r.found = old /\ task.mode = old.mode
  BY <1>1, <1>2 DEF ServiceAlways
<1>4. old \in Service!Services /\ (old.replicas = -1 <=> old.mode \in {"global", "global-job"})
  BY <1>1 DEF ServiceHosts, Service!Swarms
<1>5. w \in Service!Services /\ w # Missing
      /\ (w.replicas = -1 <=> w.mode \in {"global", "global-job"})
  BY <1>1, <1>3, <1>4, ServiceWrites
<1>6. /\ task.replicas = -1 => w.replicas = old.replicas
      /\ task.ports = Omitted => w.ports = old.ports
      /\ ~Service!EnvGiven(task) => w.env = old.env
      /\ \A f \in Fields \ UNION {{g} \union Service!Together(g) : g \in Service!GivenBy(task)} :
            w.fields[f] = old.fields[f]
  <2>1. /\ w.replicas = Service!ReplicasWritten(task, old)
        /\ w.ports = Service!PortsWritten(task, old.ports)
        /\ w.env = IF Service!EnvGiven(task) THEN r.env ELSE old.env
        /\ w.fields = Service!FieldsWritten(task, old.fields)
    BY <1>3 DEF Service!Written
  <2>2. task.replicas = -1 => w.replicas = old.replicas
    <3>1. task.mode \in {"replicated", "global", "replicated-job"}
      BY <1>1, ServiceTask DEF Service!Modes
    <3> QED
      BY <1>1, <1>3, <1>4, <2>1, <3>1 DEF Service!ReplicasWritten, Service!ReplicasOf
  <2>3. task.ports = Omitted => w.ports = old.ports
    BY <2>1 DEF Service!PortsWritten
  <2>4. ASSUME NEW f \in Fields,
               f \notin UNION {{g} \union Service!Together(g) : g \in Service!GivenBy(task)}
        PROVE w.fields[f] = old.fields[f]
    <3>1. \A g \in Service!GivenBy(task) : f \notin {g} \union Service!Together(g)
      BY <2>4
    <3>2. f \notin Service!GivenBy(task)
      BY <3>1
    <3>3. Service!GivenBy(task) \cap Service!Together(f) = {}
      <4>1. SUFFICES ASSUME NEW g \in Service!GivenBy(task), g \in Service!Together(f) PROVE FALSE
        OBVIOUS
      <4>2. f \in Service!Together(g)
        BY <4>1 DEF Service!Together
      <4> QED
        BY <3>1, <4>2
    <3>4. old.fields \in [Fields -> Service!FieldValues]
      BY <1>4 DEF Service!Services
    <3> QED
      BY <1>1, <2>1, <3>2, <3>3, <3>4, ServiceFieldsWritten
  <2> QED
    BY <2>1, <2>2, <2>3, <2>4
<1> HIDE DEF w
<1>7. /\ a \in ServiceHosts /\ a.service = w /\ a.digest = actual.digest
      /\ a.secret = actual.secret /\ a.file = actual.file
  BY <1>1, <1>5 DEF ServiceHosts, Service!Swarms
<1> HIDE DEF a
<1>8. ASSUME ~run.disturbed
      PROVE /\ ServiceKnows("answer", task, a, r, TRUE, run.touched \/ a # actual, Checking)
            /\ ServiceWill("answer", task, a, r, TRUE)
            /\ ServiceWill(run.at, task, actual, r, run.changed)
  <2>1. /\ r.digest = ServiceSeen(task, a).digest /\ r.secret = a.secret
        /\ r.env = Service!EnvOf(task, a.file)
    BY <1>1, <1>2, <1>7, <1>8 DEF ServiceKnows, ServiceSeen
  <2>2. ServiceMeets(task, a) /\ (ServiceSettles(task, FALSE) => ~ServiceChange(task, a))
    BY <1>1, <1>3, <1>4, <1>7, <2>1, ServiceDone DEF w
  <2> QED
    BY <1>1, <1>3, <2>2 DEF ServiceKnows, ServiceWill
<1>9. actual' = a /\ run'.at = "answer"
  BY <1>1 DEF Step, ServiceInv, RunTyped, RunStates
<1>10. ServiceMore
  <2>1. Service!KeepsOmitted
    BY <1>6, <1>7, <1>9 DEF Service!KeepsOmitted, Service!t
  <2>2. Service!OutdatedOnceIsRetried
    BY <1>9 DEF Service!OutdatedOnceIsRetried, Service!Answers
  <2> QED
    BY <2>1, <2>2 DEF ServiceMore
<1>11. ServiceAlways("answer", task, a, r, Checking) /\ run.at # "idle"
  BY <1>1 DEF ServiceAlways
<1> QED
  BY <1>1, <1>3, <1>7, <1>8, <1>10, <1>11, ServiceStep DEF Service!Places

(* A service that is removed,                                              *)
LEMMA ServiceRemoves ==
    ASSUME ServiceInv, Service!Replace \/ Service!Remove
    PROVE ServiceInv' /\ ServiceRespects
<1> DEFINE task == run.task
           r == run.read
           a == [actual EXCEPT !.service = Missing]
<1>1. /\ task \in ServiceTasks /\ actual \in ServiceHosts /\ r \in ServiceReads
      /\ run.touched \in BOOLEAN
      /\ run.at \in {"replace", "remove"} /\ actual.service # Missing
      /\ run.at = "replace" => Step("create", a, r, FALSE)
      /\ run.at = "remove" => Step("answer", a, r, TRUE)
  BY ServiceGiven, ServiceIsARun
     DEF Service!Replace, Service!Remove, Service!At, Service!Exists, Service!t, Service!now
<1>2. /\ ServiceAlways(run.at, task, actual, r, Checking)
      /\ ~run.disturbed =>
            ServiceKnows(run.at, task, actual, r, run.changed, run.touched, Checking)
  BY <1>1, ServiceRuns DEF ServiceInv, ServiceFine
<1>3. ~Checking /\ ServiceMore /\ run.at # "idle"
  BY <1>1, <1>2, ServiceQuiet DEF ServiceAlways
<1>4. /\ a \in ServiceHosts /\ a.service = Missing /\ a.digest = actual.digest
      /\ a.secret = actual.secret /\ a.file = actual.file
  BY <1>1 DEF ServiceHosts, Service!Swarms
<1> HIDE DEF a
<1>5. CASE run.at = "replace"
  <2>1. ServiceAlways("create", task, a, r, Checking)
    BY <1>2, <1>3, <1>5 DEF ServiceAlways
  <2>2. ASSUME ~run.disturbed
        PROVE /\ ServiceKnows("create", task, a, r, FALSE, run.touched \/ a # actual, Checking)
              /\ ServiceWill("create", task, a, r, FALSE)
              /\ ServiceWill(run.at, task, actual, r, run.changed)
    <3>1. /\ r.digest = ServiceSeen(task, a).digest /\ r.secret = ServiceSeen(task, a).secret
          /\ r.env = ServiceSeen(task, a).env
      BY <1>2, <1>4, <1>5, <2>2 DEF ServiceKnows, ServiceSeen
    <3> QED
      BY <1>3, <1>4, <1>5, <3>1 DEF ServiceKnows, ServiceWill
  <2> QED
    BY <1>1, <1>3, <1>4, <1>5, <2>1, <2>2, ServiceStep DEF Service!Places
<1>6. CASE run.at = "remove"
  <2>1. ServiceAlways("answer", task, a, r, Checking)
    BY DEF ServiceAlways
  <2>2. task.state = "absent"
    BY <1>2, <1>6 DEF ServiceAlways
  <2>3. /\ ServiceKnows("answer", task, a, r, TRUE, run.touched \/ a # actual, Checking)
        /\ ServiceWill("answer", task, a, r, TRUE)
        /\ ServiceWill(run.at, task, actual, r, run.changed)
    BY <1>3, <1>4, <1>6, <2>2 DEF ServiceKnows, ServiceWill, ServiceMeets, ServiceChange
  <2> QED
    BY <1>1, <1>3, <1>4, <1>6, <2>1, <2>3, ServiceStep DEF Service!Places
<1> QED
  BY <1>1, <1>5, <1>6

(* a run that is done again, or refused, and the answer.                   *)
LEMMA ServiceEnding ==
    ASSUME ServiceInv,
           Service!OutOfSequence \/ Service!EngineRefuses \/ Service!Finish \/ Service!CallError
           \/ Service!Killed
    PROVE ServiceInv' /\ ServiceRespects
<1> DEFINE task == run.task
           r == run.read
<1>1. ASSUME run.at # "idle", NEW reply \in {"failed", "refused", "killed"}, Stops(reply),
             run.at = "update" /\ reply = "refused" /\ actual.service # Missing => r.retries < 2
      PROVE ServiceInv' /\ ServiceRespects
  <2>1. /\ run'.at = "idle" /\ run'.reply = reply
    BY <1>1 DEF Stops, Ends, ServiceInv, RunTyped, RunStates
  <2>2. ServiceMore
    BY <1>1, <2>1 DEF ServiceMore, Service!KeepsOmitted, Service!OutdatedOnceIsRetried, Service!At,
       Service!Exists, Service!now
  <2> QED
    BY <1>1, <2>2, ServiceStops
<1>2. CASE Service!OutOfSequence
  <2> DEFINE k == [Service!Nothing EXCEPT !.retries = r.retries - 1]
  <2>1. /\ run.at = "update" /\ ~r.fresh
        /\ \/ r.retries > 0 /\ Step("digest", actual, k, run.changed)
           \/ ~(r.retries > 0) /\ Stops("refused")
    BY <1>2, ServiceIsARun DEF Service!OutOfSequence, Service!At, Service!now
  <2>2. r \in ServiceReads /\ r.retries \in 0 .. 2 /\ run.changed \in BOOLEAN
        /\ actual \in ServiceHosts /\ run.touched \in BOOLEAN /\ task \in ServiceTasks
        /\ run.disturbed \in BOOLEAN
    BY <2>1, ServiceGiven DEF ServiceReads, Service!Snapshots
  <2>3. run.disturbed
    BY <2>1, <2>2, ServiceRuns DEF ServiceFine, ServiceKnows
  <2>4. CASE r.retries > 0 /\ Step("digest", actual, k, run.changed)
    <3>1. k \in ServiceReads
      BY <2>2, <2>4, ServiceNothing DEF ServiceReads, Service!Snapshots
    <3> HIDE DEF k
    <3>2. run'.at = "digest"
      BY <2>4 DEF Step, ServiceInv, RunTyped, RunStates
    <3>3. ServiceMore
      BY <3>2 DEF ServiceMore, Service!KeepsOmitted, Service!OutdatedOnceIsRetried, Service!Answers
    <3>4. ServiceAlways("digest", task, actual, k, Checking)
      BY DEF ServiceAlways
    <3> QED
      BY <2>1, <2>2, <2>3, <2>4, <3>1, <3>3, <3>4, ServiceGoes DEF Service!Places
  <2> QED
    BY <1>1, <2>1, <2>2, <2>4
<1>3. CASE Service!EngineRefuses
  <2>1. /\ run.at # "idle" /\ Stops("refused")
        /\ run.at = "update" => actual.service = Missing
    BY <1>3, ServiceIsARun DEF Service!EngineRefuses, Service!At, Service!Exists
  <2> QED
    BY <1>1, <2>1
<1>4. CASE Service!Finish
  <2>1. run.at = "answer" /\ Answer(run.changed) /\ run.changed \in BOOLEAN
        /\ run.touched \in BOOLEAN /\ ServiceMore
    BY <1>4, ServiceIsARun, ServiceGiven, ServiceQuiet DEF Service!Finish, Service!At
  <2>2. ASSUME ~run.disturbed
        PROVE ServiceKnows("answer", task, actual, r, run.changed, run.touched, Checking)
    BY <2>1, <2>2, ServiceRuns DEF ServiceFine
  <2>3. ~run.disturbed =>
          /\ run.changed <=> ServiceWill(run.at, task, actual, r, run.changed)
          /\ IF run.changed THEN ~Checking => Service!Satisfied(task, actual)
             ELSE Service!Satisfied(task, actual) /\ (run.touched => ServiceHides(task))
          /\ ~Checking /\ ServiceSettles(task, FALSE) => ~ServiceChange(task, actual)
    BY <2>1, <2>2, ServiceSatisfied DEF ServiceKnows, ServiceWill
  <2> QED
    BY <2>1, <2>3, ServiceAnswers
<1>5. CASE Service!CallError
  <2>1. run.at # "idle" /\ Stops("failed")
    BY <1>5, ServiceIsARun DEF Service!CallError, Service!CallFails
  <2> QED
    BY <1>1, <2>1
<1>6. CASE Service!Killed
  <2>1. run.at # "idle" /\ Stops("killed")
    BY <1>6, ServiceIsARun DEF Idle, At
  <2> QED
    BY <1>1, <2>1
<1> QED
  BY <1>2, <1>3, <1>4, <1>5, <1>6

(* What others do makes what was inspected outdated, or leaves the service.*)
LEMMA ServiceOutdated ==
    ASSUME ServiceInv, NEW a \in ServiceHosts, Service!OutdatedBy(a)
    PROVE ServiceInv' /\ ServiceRespects
<1>1. actual' = a /\ (memo' = NoMemo \/ (memo' = memo /\ a = actual))
  BY ServiceIsARun DEF Service!OutdatedBy
<1>2. PICK r \in ServiceReads :
         /\ IF Idle THEN run' = run ELSE run' = [run EXCEPT !.disturbed = TRUE, !.read = r]
         /\ run.at # "idle" => r = [run.read EXCEPT !.fresh = FALSE]
  <2> DEFINE k == [run.read EXCEPT !.fresh = FALSE]
  <2>1. CASE Idle
    <3>1. run.at = "idle" /\ run' = run
      BY <2>1 DEF Service!OutdatedBy, Service!Idle, Service!At, Idle, At
    <3> QED
      BY <2>1, <3>1, ServiceNothing
  <2>2. CASE ~Idle
    <3>1. run.at # "idle" /\ k \in ServiceReads
      BY <2>2, ServiceGiven DEF ServiceReads, Service!Snapshots, Idle, At
    <3>2. run' = [run EXCEPT !.disturbed = TRUE, !.read = k]
      BY <2>2 DEF Service!OutdatedBy, Service!Idle, Service!At, Idle, At, ServiceInv, RunTyped,
         RunStates
    <3> QED
      BY Zenon, <2>2, <3>1, <3>2
  <2> QED
    BY Zenon, <2>1, <2>2
<1>4. run.at # "idle" =>
        /\ r.fresh = FALSE /\ r.found = run.read.found
        /\ ServiceAlways(run.at, run.task, actual, run.read, Checking)
  BY <1>2, ServiceGiven DEF ServiceInv, ServiceReads, Service!Snapshots
<1>5. /\ RunTyped(ServiceHosts, ServiceTasks, Service!Places, ServiceReads)'
      /\ run'.at = run.at /\ run'.task = run.task /\ run'.mode = run.mode
      /\ run.at # "idle" => run'.read = r /\ run'.disturbed
      /\ RunMoves
  BY Zenon, <1>1, <1>2, RunDisturbed DEF ServiceInv
<1>6. run.at # "idle" => ServiceAlways(run'.at, run'.task, actual', run'.read, Checking')
  BY <1>4, <1>5 DEF ServiceAlways, Checking
<1>7. /\ memo'.forecast # "none" /\ ServiceForetells(run'.task) =>
             (memo'.forecast = "changed" <=> ServiceChange(run'.task, actual'))
      /\ memo'.settled /\ ServiceSettles(run'.task, FALSE) => ~ServiceChange(run'.task, actual')
  BY <1>1, <1>5, NothingKnown DEF ServiceInv
<1>8. ServiceInv'
  BY <1>5, <1>6, <1>7 DEF ServiceInv
<1>9. ~AnswersOK /\ ServiceMore
  BY <1>5 DEF AnswersOK, Answers, Idle, At, ServiceMore, Service!KeepsOmitted,
     Service!OutdatedOnceIsRetried, Service!Answers, Service!Idle, Service!At
<1> QED
  BY <1>5, <1>8, <1>9, ServiceSilent

LEMMA ServiceOthers ==
    ASSUME ServiceInv, Service!Outside
    PROVE \E a \in ServiceHosts :
             Service!OutdatedBy(a) \/ (Interferes(a) /\ a.service = actual.service)
<1>1. /\ actual \in ServiceHosts /\ actual.service \in Service!Services \union {Missing}
      /\ actual.digest \in 1 .. 2 /\ actual.secret \in 0 .. 2
      /\ actual.file \in Service!Envs \union {Missing}
  BY ServiceGiven DEF ServiceHosts, Service!Swarms, Service!Digests
<1>2. ASSUME NEW s \in Service!Services \union {Missing},
             s # Missing => (s.replicas = -1 <=> s.mode \in {"global", "global-job"}),
             Service!OutdatedBy([actual EXCEPT !.service = s])
      PROVE \E a \in ServiceHosts : Service!OutdatedBy(a)
  <2>1. [actual EXCEPT !.service = s] \in ServiceHosts
    BY <1>1, <1>2 DEF ServiceHosts, Service!Swarms
  <2> QED
    BY <1>2, <2>1
<1>3. ASSUME actual.service # Missing, actual.service.mode = "replicated",
             Service!OutdatedBy([actual EXCEPT !.service.replicas = IF @ = 1 THEN 2 ELSE 1])
      PROVE \E a \in ServiceHosts : Service!OutdatedBy(a)
  <2> DEFINE n == IF actual.service.replicas = 1 THEN 2 ELSE 1
             s == [actual.service EXCEPT !.replicas = n]
  <2>1. actual.service \in Service!Services /\ n \in 1 .. 2
    BY <1>1, <1>3
  <2> HIDE DEF n
  <2>2. s \in Service!Services /\ s.replicas # -1 /\ s.mode = "replicated"
    BY <1>3, <2>1 DEF Service!Services
  <2>3. Service!OutdatedBy([actual EXCEPT !.service = s])
    BY <1>1, <1>3 DEF ServiceHosts, Service!Swarms, n
  <2> HIDE DEF s
  <2> QED
    BY <1>2, <2>2, <2>3
<1>4. ASSUME actual.service # Missing, NEW f \in SharedFields, NEW v \in Settings[f],
             Service!OutdatedBy([actual EXCEPT !.service.fields[f] = Service!Sent(f, v)])
      PROVE \E a \in ServiceHosts : Service!OutdatedBy(a)
  <2> DEFINE g == [actual.service.fields EXCEPT ![f] = Service!Sent(f, v)]
             s == [actual.service EXCEPT !.fields = g]
  <2>1. f \in Fields /\ actual.service \in Service!Services
        /\ actual.service.fields \in [Fields -> Service!FieldValues]
    BY <1>1, <1>4, ServiceGiven1 DEF Service!Services
  <2>2. Service!Sent(f, v) \in Service!FieldValues
    BY <2>1 DEF Service!FieldValues
  <2>3. g \in [Fields -> Service!FieldValues]
    BY <2>1, <2>2
  <2>4. [actual EXCEPT !.service.fields[f] = Service!Sent(f, v)] = [actual EXCEPT !.service = s]
    OBVIOUS
  <2> HIDE DEF g
  <2>5. s \in Service!Services /\ s.replicas = actual.service.replicas
        /\ s.mode = actual.service.mode
    BY <2>1, <2>3 DEF Service!Services
  <2> HIDE DEF s
  <2>6. actual.service.replicas = -1 <=> actual.service.mode \in {"global", "global-job"}
    BY <1>1, <1>4 DEF ServiceHosts
  <2> QED
    BY <1>2, <1>4, <2>4, <2>5, <2>6
<1>5. ASSUME actual.digest + 1 \in Service!Digests, Interferes([actual EXCEPT !.digest = @ + 1])
      PROVE \E a \in ServiceHosts : Interferes(a) /\ a.service = actual.service
  <2> DEFINE a == [actual EXCEPT !.digest = @ + 1]
  <2>1. a \in ServiceHosts /\ a.service = actual.service
    BY <1>1, <1>5 DEF ServiceHosts, Service!Swarms
  <2> QED
    BY <1>5, <2>1
<1>6. ASSUME Interferes([actual EXCEPT !.secret = IF @ = 0 THEN 2 ELSE 0])
      PROVE \E a \in ServiceHosts : Interferes(a) /\ a.service = actual.service
  <2> DEFINE a == [actual EXCEPT !.secret = IF @ = 0 THEN 2 ELSE 0]
  <2>1. a \in ServiceHosts /\ a.service = actual.service
    BY <1>1 DEF ServiceHosts, Service!Swarms
  <2> QED
    BY <1>6, <2>1
<1>7. ASSUME NEW e \in Service!Envs \union {Missing}, Interferes([actual EXCEPT !.file = e])
      PROVE \E a \in ServiceHosts : Interferes(a) /\ a.service = actual.service
  <2> DEFINE a == [actual EXCEPT !.file = e]
  <2>1. a \in ServiceHosts /\ a.service = actual.service
    BY <1>1 DEF ServiceHosts, Service!Swarms
  <2> QED
    BY <1>7, <2>1
<1>8. Service!OutdatedBy(actual) => \E a \in ServiceHosts : Service!OutdatedBy(a)
  BY <1>1
<1>9. \/ /\ actual.service # Missing
         /\ \/ Service!OutdatedBy([actual EXCEPT !.service = Missing])
            \/ Service!OutdatedBy(actual)
            \/ /\ actual.service.mode = "replicated"
               /\ Service!OutdatedBy([actual EXCEPT !.service.replicas = IF @ = 1 THEN 2 ELSE 1])
            \/ \E f \in SharedFields : \E v \in Settings[f] :
                  Service!OutdatedBy([actual EXCEPT !.service.fields[f] = Service!Sent(f, v)])
      \/ /\ actual.digest + 1 \in Service!Digests
         /\ Interferes([actual EXCEPT !.digest = @ + 1])
      \/ Interferes([actual EXCEPT !.secret = IF @ = 0 THEN 2 ELSE 0])
      \/ \E e \in Service!Envs \union {Missing} : Interferes([actual EXCEPT !.file = e])
  BY ServiceIsARun DEF Service!Outside, Service!Exists
<1> QED
  BY <1>2, <1>3, <1>4, <1>5, <1>6, <1>7, <1>8, <1>9

LEMMA ServiceNext == ServiceInv /\ [Service!Next]_vars => ServiceInv' /\ ServiceRespects
<1> SUFFICES ASSUME ServiceInv, [Service!Next]_vars PROVE ServiceInv' /\ ServiceRespects
  OBVIOUS
<1>1. CASE Service!Start
  <2>1. PICK task \in ServiceTasks, m \in {"check", "apply"} :
           Begin(task, m, "digest", Service!Nothing)
    BY <1>1, ServiceIsARun DEF Service!Start
  <2>2. run.at = "idle" /\ ServiceMore
    BY <2>1, ServiceQuiet DEF Begin, Idle, At
  <2>3. Service!Nothing \in ServiceReads
    BY ServiceNothing
  <2>4. /\ ServiceAlways("digest", task, actual, Service!Nothing, m = "check")
        /\ ServiceKnows("digest", task, actual, Service!Nothing, FALSE, FALSE, m = "check")
        /\ ServiceWill("digest", task, actual, Service!Nothing, FALSE) <=> ServiceChange(task, actual)
        /\ ServiceSettles(task, TRUE) => ServiceSettles(task, FALSE)
    BY DEF ServiceKnows, ServiceWill, ServiceAlways, ServiceSettles
  <2> QED
    BY <2>1, <2>2, <2>3, <2>4, ServiceBegins DEF Service!Places
<1>2. CASE Service!Steps
  BY <1>2, ServiceReading, ServiceDecides, ServiceCreates, ServiceUpdates, ServiceRemoves,
     ServiceEnding DEF Service!Steps
<1>3. CASE Service!CallError \/ Service!Killed
  BY <1>3, ServiceEnding
<1>4. CASE Service!Outside
  <2>1. PICK a \in ServiceHosts :
           Service!OutdatedBy(a) \/ (Interferes(a) /\ a.service = actual.service)
    BY <1>4, ServiceOthers
  <2>2. CASE Interferes(a) /\ a.service = actual.service
    <3>1. run.at # "idle" => run'.at = run.at
      BY <2>2 DEF Interferes, Idle, At, ServiceInv, RunTyped, RunStates
    <3>2. ServiceMore
      BY <3>1 DEF ServiceMore, Service!KeepsOmitted, Service!OutdatedOnceIsRetried,
         Service!Answers, Service!Idle, Service!At
    <3>3. run.at # "idle" => ServiceAlways(run.at, run.task, a, run.read, Checking)
      BY <2>2 DEF ServiceInv, ServiceAlways
    <3> QED
      BY <2>2, <3>2, <3>3, ServiceInterferes
  <2> QED
    BY <2>1, <2>2, ServiceOutdated
<1>5. CASE UNCHANGED vars
  <2>1. ServiceMore
    BY <1>5 DEF vars, ServiceMore, Service!KeepsOmitted, Service!OutdatedOnceIsRetried,
       Service!Answers, Service!Idle, Service!At
  <2> QED
    BY <1>5, <2>1, ServiceStutters
<1> QED
  BY <1>1, <1>2, <1>3, <1>4, <1>5 DEF Service!Next

LEMMA ServiceSafe == ServiceInv => Service!TypeOK
<1> SUFFICES ASSUME ServiceInv PROVE Service!TypeOK
  OBVIOUS
<1>1. run.at \in {"create", "update", "replace", "remove"} => ~Checking
  BY DEF ServiceInv, ServiceAlways
<1> QED
  BY <1>1 DEF ServiceInv, RunTyped, ServiceHosts, ServiceReads, Service!TypeOK, Service!Memos, Memos,
     Service!RunStates, RunStates, Service!Forecasts, Forecasts, Service!Replies, Replies,
     Service!Checking, Checking

LEMMA ServiceHolds ==
    ASSUME NEW task \in ServiceTasks, NEW h
    PROVE Service!Satisfied(task, h) \in BOOLEAN
<1>1. task.state \in {"present", "absent"}
  BY ServiceTask
<1> QED
  BY <1>1 DEF Service!Satisfied
-----------------------------------------------------------------------------
(* The modules side by side: the one that the agent runs is as it is alone.*)
DockerInv ==
    \/ module = "container" /\ ContainerInv
    \/ module = "image" /\ ImageInv
    \/ module = "network" /\ NetworkInv
    \/ module = "volume" /\ VolumeInv
    \/ module = "tools" /\ ToolInv /\ run.task \in ToolTasks
    \/ module = "archive" /\ ToolInv /\ run.task \in ArchiveTasks
    \/ module = "swarm" /\ ClusterInv
    \/ module = "config" /\ DataInv
    \/ module = "node" /\ NodeInv
    \/ module = "service" /\ ServiceInv

LEMMA DockerStarts == Init => DockerInv
  BY ContainerInit, ImageInit, NetworkInit, VolumeInit, ToolInit, ArchiveInit, ClusterInit, DataInit, NodeInit, ServiceInit
     DEF Init, DockerInv

LEMMA DockerSteps == [Next]_all => module' = module
  BY DEF Next, all, vars

(* Which module it is tells which of the disjuncts holds.                  *)
LEMMA ContainerAlone ==
    ASSUME DockerInv, [Next]_all, module = "container"
    PROVE DockerInv' /\ ContainerInv /\ ContainerInv' /\ ContainerRespects
<1>1. ContainerInv /\ module' = module
  BY DockerSteps DEF DockerInv
<1>2. [Container!Next]_vars
  BY DEF Next, all
<1> QED
  BY <1>1, <1>2, ContainerNext DEF DockerInv

LEMMA ImageAlone ==
    ASSUME DockerInv, [Next]_all, module = "image"
    PROVE DockerInv' /\ ImageInv /\ ImageInv' /\ ImageRespects
<1>1. ImageInv /\ module' = module
  BY DockerSteps DEF DockerInv
<1>2. [Image!Next]_vars
  BY DEF Next, all
<1> QED
  BY <1>1, <1>2, ImageNext DEF DockerInv

LEMMA NetworkAlone ==
    ASSUME DockerInv, [Next]_all, module = "network"
    PROVE DockerInv' /\ NetworkInv /\ NetworkInv' /\ NetworkRespects
<1>1. NetworkInv /\ module' = module
  BY DockerSteps DEF DockerInv
<1>2. [Network!Next]_vars
  BY DEF Next, all
<1> QED
  BY <1>1, <1>2, NetworkNext DEF DockerInv

LEMMA VolumeAlone ==
    ASSUME DockerInv, [Next]_all, module = "volume"
    PROVE DockerInv' /\ VolumeInv /\ VolumeInv' /\ VolumeRespects
<1>1. VolumeInv /\ module' = module
  BY DockerSteps DEF DockerInv
<1>2. [Volume!Next]_vars
  BY DEF Next, all
<1> QED
  BY <1>1, <1>2, VolumeNext DEF DockerInv

LEMMA ToolAlone ==
    ASSUME DockerInv, [Next]_all, module = "tools"
    PROVE DockerInv' /\ ToolInv /\ run.task \in ToolTasks /\ ToolInv' /\ ToolRespects
<1>1. ToolInv /\ run.task \in ToolTasks /\ module' = module
  BY DockerSteps DEF DockerInv
<1>2. [Tool!Next]_vars
  BY DEF Next, all
<1> QED
  BY <1>1, <1>2, ToolNext DEF DockerInv

LEMMA ArchiveAlone ==
    ASSUME DockerInv, [Next]_all, module = "archive"
    PROVE DockerInv' /\ ToolInv /\ run.task \in ArchiveTasks /\ ToolInv' /\ ToolRespects
<1>1. ToolInv /\ run.task \in ArchiveTasks /\ module' = module
  BY DockerSteps DEF DockerInv
<1>2. [Archive!Next]_vars
  BY DEF Next, all
<1> QED
  BY <1>1, <1>2, ArchiveNext DEF DockerInv

LEMMA ClusterAlone ==
    ASSUME DockerInv, [Next]_all, module = "swarm"
    PROVE DockerInv' /\ ClusterInv /\ ClusterInv' /\ ClusterRespects
<1>1. ClusterInv /\ module' = module
  BY DockerSteps DEF DockerInv
<1>2. [Cluster!Next]_vars
  BY DEF Next, all
<1> QED
  BY <1>1, <1>2, ClusterNext DEF DockerInv

LEMMA DataAlone ==
    ASSUME DockerInv, [Next]_all, module = "config"
    PROVE DockerInv' /\ DataInv /\ DataInv' /\ DataRespects
<1>1. DataInv /\ module' = module
  BY DockerSteps DEF DockerInv
<1>2. [Data!Next]_vars
  BY DEF Next, all
<1> QED
  BY <1>1, <1>2, DataNext DEF DockerInv

LEMMA NodeAlone ==
    ASSUME DockerInv, [Next]_all, module = "node"
    PROVE DockerInv' /\ NodeInv /\ NodeInv' /\ NodeRespects
<1>1. NodeInv /\ module' = module
  BY DockerSteps DEF DockerInv
<1>2. [Node!Next]_vars
  BY DEF Next, all
<1> QED
  BY <1>1, <1>2, NodeNext DEF DockerInv

LEMMA ServiceAlone ==
    ASSUME DockerInv, [Next]_all, module = "service"
    PROVE DockerInv' /\ ServiceInv /\ ServiceInv' /\ ServiceRespects
<1>1. ServiceInv /\ module' = module
  BY DockerSteps DEF DockerInv
<1>2. [Service!Next]_vars
  BY DEF Next, all
<1> QED
  BY <1>1, <1>2, ServiceNext DEF DockerInv

LEMMA DockerModule ==
    DockerInv => module \in {"container", "image", "network", "volume", "tools", "archive", "swarm",
                            "config", "node", "service"}
  BY DEF DockerInv

LEMMA DockerSafe == DockerInv => TypeOK
  BY ContainerSafe, ImageSafe, NetworkSafe, VolumeSafe, ToolSafe, ArchiveSafe, ClusterSafe, DataSafe, NodeSafe, ServiceSafe
     DEF DockerInv, TypeOK

LEMMA DockerNext == DockerInv /\ [Next]_all => DockerInv'
  BY DockerModule, ContainerAlone, ImageAlone, NetworkAlone, VolumeAlone, ToolAlone, ArchiveAlone, ClusterAlone, DataAlone, NodeAlone, ServiceAlone

(* Every module keeps to its states, whatever others do to the engine and  *)
(* the swarm and wherever a run fails or is killed.                        *)
THEOREM DockerTypes == Spec => []TypeOK
  BY DockerStarts, DockerNext, DockerSafe, PTL DEF Spec

(* What a check run announces is what a real run then does, for every task *)
(* whose outcome a check run can know.                                     *)
THEOREM DockersPredict == Spec => Predicts
<1>1. DockerInv /\ [Next]_all =>
        [ /\ module = "container" => Container!Predicts
          /\ module = "image" => Image!Predicts
          /\ module = "network" => Network!Predicts
          /\ module = "volume" => Volume!Predicts
          /\ module = "tools" => Tool!Predicts
          /\ module = "archive" => Archive!Predicts
          /\ module = "swarm" => Cluster!Predicts
          /\ module = "config" => Data!Predicts
          /\ module = "node" => Node!Predicts
          /\ module = "service" => Service!Predicts ]_all
  <2> SUFFICES ASSUME DockerInv, [Next]_all
               PROVE /\ module = "container" => Container!Predicts
                     /\ module = "image" => Image!Predicts
                     /\ module = "network" => Network!Predicts
                     /\ module = "volume" => Volume!Predicts
                     /\ module = "tools" => Tool!Predicts
                     /\ module = "archive" => Archive!Predicts
                     /\ module = "swarm" => Cluster!Predicts
                     /\ module = "config" => Data!Predicts
                     /\ module = "node" => Node!Predicts
                     /\ module = "service" => Service!Predicts
    OBVIOUS
  <2>1. module = "container" => Container!Predicts
    BY ContainerAlone DEF ContainerRespects, ContainerMore
  <2>2. module = "image" => Image!Predicts
    BY ImageAlone DEF ImageRespects
  <2>3. module = "network" => Network!Predicts
    BY NetworkAlone DEF NetworkRespects, NetworkMore
  <2>4. module = "volume" => Volume!Predicts
    BY VolumeAlone DEF VolumeRespects, VolumeMore
  <2>5. module = "tools" => Tool!Predicts
    BY ToolAlone DEF ToolRespects, ToolMore
  <2>6. module = "archive" => Archive!Predicts
    BY ArchiveAlone, ArchiveIsATool DEF ToolRespects
  <2>7. module = "swarm" => Cluster!Predicts
    BY ClusterAlone DEF ClusterRespects, ClusterMore
  <2>8. module = "config" => Data!Predicts
    BY DataAlone DEF DataRespects, DataMore
  <2>9. module = "node" => Node!Predicts
    BY NodeAlone DEF NodeRespects, NodeMore
  <2>10. module = "service" => Service!Predicts
    BY ServiceAlone DEF ServiceRespects, ServiceMore
  <2> QED
    BY <2>1, <2>2, <2>3, <2>4, <2>5, <2>6, <2>7, <2>8, <2>9, <2>10
<1> QED
  BY <1>1, DockerStarts, DockerNext, PTL DEF Spec, Predicts

(* A task that was applied, and is applied again before others come        *)
(* between, touches nothing and reports no change.                         *)
THEOREM DockersSettle == Spec => Idempotent
<1>1. DockerInv /\ [Next]_all =>
        [ /\ module = "container" => Container!Idempotent
          /\ module = "image" => Image!Idempotent
          /\ module = "network" => Network!Idempotent
          /\ module = "volume" => Volume!Idempotent
          /\ module = "tools" => Tool!Idempotent
          /\ module = "archive" => Archive!Idempotent
          /\ module = "swarm" => Cluster!Idempotent
          /\ module = "config" => Data!Idempotent
          /\ module = "node" => Node!Idempotent
          /\ module = "service" => Service!Idempotent ]_all
  <2> SUFFICES ASSUME DockerInv, [Next]_all
               PROVE /\ module = "container" => Container!Idempotent
                     /\ module = "image" => Image!Idempotent
                     /\ module = "network" => Network!Idempotent
                     /\ module = "volume" => Volume!Idempotent
                     /\ module = "tools" => Tool!Idempotent
                     /\ module = "archive" => Archive!Idempotent
                     /\ module = "swarm" => Cluster!Idempotent
                     /\ module = "config" => Data!Idempotent
                     /\ module = "node" => Node!Idempotent
                     /\ module = "service" => Service!Idempotent
    OBVIOUS
  <2>1. module = "container" => Container!Idempotent
    BY ContainerAlone DEF ContainerRespects, ContainerMore
  <2>2. module = "image" => Image!Idempotent
    BY ImageAlone DEF ImageRespects
  <2>3. module = "network" => Network!Idempotent
    BY NetworkAlone DEF NetworkRespects, NetworkMore
  <2>4. module = "volume" => Volume!Idempotent
    BY VolumeAlone DEF VolumeRespects, VolumeMore
  <2>5. module = "tools" => Tool!Idempotent
    BY ToolAlone DEF ToolRespects, ToolMore
  <2>6. module = "archive" => Archive!Idempotent
    BY ArchiveAlone, ArchiveIsATool DEF ToolRespects
  <2>7. module = "swarm" => Cluster!Idempotent
    BY ClusterAlone DEF ClusterRespects, ClusterMore
  <2>8. module = "config" => Data!Idempotent
    BY DataAlone DEF DataRespects, DataMore
  <2>9. module = "node" => Node!Idempotent
    BY NodeAlone DEF NodeRespects, NodeMore
  <2>10. module = "service" => Service!Idempotent
    BY ServiceAlone DEF ServiceRespects, ServiceMore
  <2> QED
    BY <2>1, <2>2, <2>3, <2>4, <2>5, <2>6, <2>7, <2>8, <2>9, <2>10
<1> QED
  BY <1>1, DockerStarts, DockerNext, PTL DEF Spec, Idempotent

(* A container that is half made, a network without its containers, a      *)
(* config of a new version: no run is refused for what a failed one left.  *)
THEOREM DockersRecover == Spec => Recovers
<1>1. DockerInv /\ [Next]_all =>
        [ /\ module = "container" => Container!Recovers
          /\ module = "network" => Network!Recovers
          /\ module = "config" => Data!Recovers ]_all
  <2> SUFFICES ASSUME DockerInv, [Next]_all
               PROVE /\ module = "container" => Container!Recovers
                     /\ module = "network" => Network!Recovers
                     /\ module = "config" => Data!Recovers
    OBVIOUS
  <2>1. module = "container" => Container!Recovers
    BY ContainerAlone DEF ContainerRespects, ContainerMore
  <2>2. module = "network" => Network!Recovers
    BY NetworkAlone DEF NetworkRespects, NetworkMore
  <2>3. module = "config" => Data!Recovers
    BY DataAlone DEF DataRespects, DataMore
  <2> QED
    BY <2>1, <2>2, <2>3
<1> QED
  BY <1>1, DockerStarts, DockerNext, PTL DEF Spec, Recovers

(* What others change between two calls of a run is not taken back, an     *)
(* update that is out of sequence is tried again, and the names that one   *)
(* run gives stand for one image.                                          *)
THEOREM DockersStandInterference == Spec => StandsInterference
<1>1. DockerInv /\ [Next]_all =>
        [ /\ module = "tools" => Tool!OneImage
          /\ module = "swarm" => Cluster!NothingTakenBack /\ Cluster!RemovalNotRefused
          /\ module = "node" => Node!OutdatedOnceIsRetried
          /\ module = "service" => Service!KeepsOmitted /\ Service!OutdatedOnceIsRetried ]_all
  <2> SUFFICES ASSUME DockerInv, [Next]_all
               PROVE /\ module = "tools" => Tool!OneImage
                     /\ module = "swarm" => Cluster!NothingTakenBack /\ Cluster!RemovalNotRefused
                     /\ module = "node" => Node!OutdatedOnceIsRetried
                     /\ module = "service" => Service!KeepsOmitted /\ Service!OutdatedOnceIsRetried
    OBVIOUS
  <2>1. module = "tools" => Tool!OneImage
    BY ToolAlone DEF ToolRespects, ToolMore
  <2>2. module = "swarm" => Cluster!NothingTakenBack /\ Cluster!RemovalNotRefused
    BY ClusterAlone DEF ClusterRespects, ClusterMore
  <2>3. module = "node" => Node!OutdatedOnceIsRetried
    BY NodeAlone DEF NodeRespects, NodeMore
  <2>4. module = "service" => Service!KeepsOmitted /\ Service!OutdatedOnceIsRetried
    BY ServiceAlone DEF ServiceRespects, ServiceMore
  <2> QED
    BY <2>1, <2>2, <2>3, <2>4
<1> QED
  BY <1>1, DockerStarts, DockerNext, PTL DEF Spec, StandsInterference

(* What is replaced is lost with nobody's data: neither the containers of  *)
(* a network, nor what a volume holds, nor the config a swarm uses, and a  *)
(* container starts on its networks.                                       *)
THEOREM DockersLoseNothing == Spec => LosesNothing
<1>1. DockerInv /\ [Next]_all =>
        [ /\ module = "container" => Container!StartedOnItsNetworks
          /\ module = "network" => Network!NothingForgotten
          /\ module = "volume" => Volume!DataKept
          /\ module = "config" => Data!NeverWithout ]_all
  <2> SUFFICES ASSUME DockerInv, [Next]_all
               PROVE /\ module = "container" => Container!StartedOnItsNetworks
                     /\ module = "network" => Network!NothingForgotten
                     /\ module = "volume" => Volume!DataKept
                     /\ module = "config" => Data!NeverWithout
    OBVIOUS
  <2>1. module = "container" => Container!StartedOnItsNetworks
    BY ContainerAlone DEF ContainerRespects, ContainerMore
  <2>2. module = "network" => Network!NothingForgotten
    BY NetworkAlone DEF NetworkRespects, NetworkMore
  <2>3. module = "volume" => Volume!DataKept
    BY VolumeAlone DEF VolumeRespects, VolumeMore
  <2>4. module = "config" => Data!NeverWithout
    BY DataAlone DEF DataRespects, DataMore
  <2> QED
    BY <2>1, <2>2, <2>3, <2>4
<1> QED
  BY <1>1, DockerStarts, DockerNext, PTL DEF Spec, LosesNothing

-----------------------------------------------------------------------------
(* What a task asks for holds or does not.                                 *)
LEMMA DockerHolds == DockerInv => Holds \in BOOLEAN
<1> SUFFICES ASSUME DockerInv PROVE Holds \in BOOLEAN
  OBVIOUS
<1>1. CASE module = "container"
  BY <1>1, ContainerHolds DEF Holds
<1>2. CASE module = "image"
  BY <1>2, ImageHolds DEF Holds
<1>3. CASE module = "network"
  BY <1>3, NetworkHolds DEF Holds
<1>4. CASE module = "volume"
  BY <1>4, VolumeHolds DEF Holds
<1>5. CASE module = "tools"
  <2>1. run.task \in ToolJobs
    BY <1>5 DEF DockerInv, ToolJobs
  <2> QED
    BY <1>5, <2>1, ToolHolds DEF Holds
<1>6. CASE module = "archive"
  <2>1. run.task \in ToolJobs
    BY <1>6 DEF DockerInv, ToolJobs
  <2> QED
    BY <1>6, <2>1, ToolHolds DEF Holds
<1>7. CASE module = "swarm"
  <2>1. ClusterInv /\ run.task \in Cluster!Requests
    BY <1>7, ClusterGiven, DockerAssumption DEF DockerInv, Cluster!TaskAssumption
  <2> QED
    BY <1>7, <2>1, ClusterHolds DEF Holds
<1>8. CASE module = "config"
  BY <1>8, DataHolds DEF Holds
<1>9. CASE module = "node"
  BY <1>9, NodeHolds DEF Holds
<1>10. CASE module = "service"
  <2>1. run.task \in ServiceTasks
    BY <1>10, ServiceGiven DEF DockerInv
  <2> QED
    BY <1>10, <2>1, ServiceHolds DEF Holds
<1> QED
  BY <1>1, <1>2, <1>3, <1>4, <1>5, <1>6, <1>7, <1>8, <1>9, <1>10, DockerModule

(* The contract sees each module as one that moves and answers truthfully; *)
(* a step that leaves the resource leaves what the task asks for of it.    *)
LEMMA DockerContract == DockerInv /\ [Next]_all => [Contract!Next]_(Contract!vars)
<1> SUFFICES ASSUME DockerInv, [Next]_all PROVE [Contract!Next]_(Contract!vars)
  OBVIOUS
<1>1. module' = module /\ DockerInv'
  BY DockerSteps, DockerNext
<1>2. Holds \in BOOLEAN /\ Holds' \in BOOLEAN
  <2>1. (DockerInv => Holds \in BOOLEAN)'
    BY DockerHolds, PTL
  <2> QED
    BY <1>1, <2>1, DockerHolds
<1>3. CASE module = "container"
  <2>1. /\ RunTyped(ContainerHosts, ContainerTasks, Container!Places, ContainerReads)
        /\ RunTyped(ContainerHosts, ContainerTasks, Container!Places, ContainerReads)'
        /\ RunMoves /\ Truthful(Container!Satisfied(run.task, actual), ContainerHides(run.task))
    BY <1>3, ContainerAlone DEF ContainerInv, ContainerRespects
  <2>2. Holds = Container!Satisfied(run.task, actual)
    BY <1>3 DEF Holds
  <2>3. Truthful(Holds, Hides)
    BY <1>3, <2>1, <2>2 DEF Hides, Truthful, ContainerHides
  <2>4. ASSUME ~Idle, Checking, run'.at # "idle", run'.disturbed = run.disturbed,
               run'.task = run.task, run'.mode = run.mode,
               actual' = actual \/ (module = "swarm" /\ run.task.state = "remove")
        PROVE Holds' = Holds
    <3>1. Holds' = Container!Satisfied(run.task, actual)'
      BY <1>1, <1>3 DEF Holds
    <3>2. Container!Satisfied(run.task, actual)' = Container!Satisfied(run.task, actual)
      BY <1>3, <2>4 DEF Container!Satisfied, Container!Checking
    <3> QED
      BY <1>3, <3>1, <3>2 DEF Holds
  <2> QED
    BY <1>1, <1>2, <2>1, <2>3, <2>4, RunContract
<1>4. CASE module = "image"
  <2>1. /\ RunTyped(ImageHosts, ImageTasks, Image!Places, ImageReads)
        /\ RunTyped(ImageHosts, ImageTasks, Image!Places, ImageReads)'
        /\ RunMoves /\ Truthful(Image!Satisfied(run.task, actual), ImageHides(run.task))
    BY <1>4, ImageAlone DEF ImageInv, ImageRespects
  <2>2. Holds = Image!Satisfied(run.task, actual)
    BY <1>4 DEF Holds
  <2>3. Truthful(Holds, Hides)
    BY <1>4, <2>1, <2>2 DEF Hides, Truthful, ImageHides
  <2>4. ASSUME ~Idle, Checking, run'.at # "idle", run'.disturbed = run.disturbed,
               run'.task = run.task, run'.mode = run.mode,
               actual' = actual \/ (module = "swarm" /\ run.task.state = "remove")
        PROVE Holds' = Holds
    <3>1. Holds' = Image!Satisfied(run.task, actual)'
      BY <1>1, <1>4 DEF Holds
    <3>2. Image!Satisfied(run.task, actual)' = Image!Satisfied(run.task, actual)
      BY <1>4, <2>4
    <3> QED
      BY <1>4, <3>1, <3>2 DEF Holds
  <2> QED
    BY <1>1, <1>2, <2>1, <2>3, <2>4, RunContract
<1>5. CASE module = "network"
  <2>1. /\ RunTyped(NetworkHosts, NetworkTasks, Network!Places, NetworkReads)
        /\ RunTyped(NetworkHosts, NetworkTasks, Network!Places, NetworkReads)'
        /\ RunMoves /\ Truthful(Network!Satisfied(run.task, actual), NetworkHides(run.task))
    BY <1>5, NetworkAlone DEF NetworkInv, NetworkRespects
  <2>2. Holds = Network!Satisfied(run.task, actual)
    BY <1>5 DEF Holds
  <2>3. Truthful(Holds, Hides)
    BY <1>5, <2>1, <2>2 DEF Hides, Truthful, NetworkHides
  <2>4. ASSUME ~Idle, Checking, run'.at # "idle", run'.disturbed = run.disturbed,
               run'.task = run.task, run'.mode = run.mode,
               actual' = actual \/ (module = "swarm" /\ run.task.state = "remove")
        PROVE Holds' = Holds
    <3>1. Holds' = Network!Satisfied(run.task, actual)'
      BY <1>1, <1>5 DEF Holds
    <3>2. Network!Satisfied(run.task, actual)' = Network!Satisfied(run.task, actual)
      BY <1>5, <2>4
    <3> QED
      BY <1>5, <3>1, <3>2 DEF Holds
  <2> QED
    BY <1>1, <1>2, <2>1, <2>3, <2>4, RunContract
<1>6. CASE module = "volume"
  <2>1. /\ RunTyped(VolumeHosts, VolumeTasks, Volume!Places, VolumeReads)
        /\ RunTyped(VolumeHosts, VolumeTasks, Volume!Places, VolumeReads)'
        /\ RunMoves /\ Truthful(Volume!Satisfied(run.task, actual), VolumeHides(run.task))
    BY <1>6, VolumeAlone DEF VolumeInv, VolumeRespects
  <2>2. Holds = Volume!Satisfied(run.task, actual)
    BY <1>6 DEF Holds
  <2>3. Truthful(Holds, Hides)
    BY <1>6, <2>1, <2>2 DEF Hides, Truthful, VolumeHides
  <2>4. ASSUME ~Idle, Checking, run'.at # "idle", run'.disturbed = run.disturbed,
               run'.task = run.task, run'.mode = run.mode,
               actual' = actual \/ (module = "swarm" /\ run.task.state = "remove")
        PROVE Holds' = Holds
    <3>1. Holds' = Volume!Satisfied(run.task, actual)'
      BY <1>1, <1>6 DEF Holds
    <3>2. Volume!Satisfied(run.task, actual)' = Volume!Satisfied(run.task, actual)
      BY <1>6, <2>4
    <3> QED
      BY <1>6, <3>1, <3>2 DEF Holds
  <2> QED
    BY <1>1, <1>2, <2>1, <2>3, <2>4, RunContract
<1>7. CASE module = "tools"
  <2>1. /\ RunTyped(ToolHosts, ToolJobs, Tool!Places, ToolReads)
        /\ RunTyped(ToolHosts, ToolJobs, Tool!Places, ToolReads)'
        /\ RunMoves /\ Truthful(Tool!Satisfied(run.task, actual), ToolHides(run.task))
    BY <1>7, ToolAlone DEF ToolInv, ToolRespects
  <2>2. Holds = Tool!Satisfied(run.task, actual)
    BY <1>7 DEF Holds
  <2>3. Truthful(Holds, Hides)
    BY <1>7, <2>1, <2>2 DEF Hides, Truthful, ToolHides
  <2>4. ASSUME ~Idle, Checking, run'.at # "idle", run'.disturbed = run.disturbed,
               run'.task = run.task, run'.mode = run.mode,
               actual' = actual \/ (module = "swarm" /\ run.task.state = "remove")
        PROVE Holds' = Holds
    <3>1. Holds' = Tool!Satisfied(run.task, actual)'
      BY <1>1, <1>7 DEF Holds
    <3>2. Tool!Satisfied(run.task, actual)' = Tool!Satisfied(run.task, actual)
      BY <1>7, <2>4
    <3> QED
      BY <1>7, <3>1, <3>2 DEF Holds
  <2> QED
    BY <1>1, <1>2, <2>1, <2>3, <2>4, RunContract
<1>8. CASE module = "archive"
  <2>1. /\ RunTyped(ToolHosts, ToolJobs, Tool!Places, ToolReads)
        /\ RunTyped(ToolHosts, ToolJobs, Tool!Places, ToolReads)'
        /\ RunMoves /\ Truthful(Tool!Satisfied(run.task, actual), ToolHides(run.task))
    BY <1>8, ArchiveAlone DEF ToolInv, ToolRespects
  <2>2. Holds = Tool!Satisfied(run.task, actual)
    <3>1. run.task \in ToolJobs
      BY <1>8 DEF DockerInv, ToolJobs
    <3> QED
      BY <1>8, <3>1, ToolHolds DEF Holds
  <2>3. Truthful(Holds, Hides)
    BY <1>8, <2>1, <2>2 DEF Hides, Truthful, ToolHides
  <2>4. ASSUME ~Idle, Checking, run'.at # "idle", run'.disturbed = run.disturbed,
               run'.task = run.task, run'.mode = run.mode,
               actual' = actual \/ (module = "swarm" /\ run.task.state = "remove")
        PROVE Holds' = Holds
    <3>1. Holds' = Archive!Satisfied(run.task, actual)'
      BY <1>1, <1>8 DEF Holds
    <3>2. Archive!Satisfied(run.task, actual)' = Archive!Satisfied(run.task, actual)
      BY <1>8, <2>4
    <3> QED
      BY <1>8, <3>1, <3>2 DEF Holds
  <2> QED
    BY <1>1, <1>2, <2>1, <2>3, <2>4, RunContract
<1>9. CASE module = "swarm"
  <2>1. /\ RunTyped(ClusterHosts, ClusterTasks, Cluster!Places, ClusterReads)
        /\ RunTyped(ClusterHosts, ClusterTasks, Cluster!Places, ClusterReads)'
        /\ RunMoves /\ Truthful(Cluster!Satisfied(run.task, actual), ClusterHides(run.task))
    BY <1>9, ClusterAlone DEF ClusterInv, ClusterRespects
  <2>2. Holds = Cluster!Satisfied(run.task, actual)
    BY <1>9 DEF Holds
  <2>3. Truthful(Holds, Hides)
    BY <1>9, <2>1, <2>2 DEF Hides, Truthful, ClusterHides
  <2>4. ASSUME ~Idle, Checking, run'.at # "idle", run'.disturbed = run.disturbed,
               run'.task = run.task, run'.mode = run.mode,
               actual' = actual \/ (module = "swarm" /\ run.task.state = "remove")
        PROVE Holds' = Holds
    <3>1. Checking' /\ (run.task.state = "remove" => Holds /\ Holds')
      BY <1>1, <1>9, <2>4 DEF Checking, Holds, Cluster!Satisfied, Cluster!Checking
    <3>2. run.task.state # "remove" => Holds' = Holds
      <4>1. /\ run'.task.state \in {"present", "join", "absent", "remove"}
            /\ module = "swarm" /\ module' = "swarm" /\ run'.task = run.task
            /\ run.task.state # "remove" =>
                  /\ actual' = actual
                  /\ Cluster!Differences(run.task, actual.options)'
                       = Cluster!Differences(run.task, actual.options)
        <5>1. run.task \in Cluster!Requests
          BY <1>9, ClusterGiven, DockerAssumption DEF DockerInv, Cluster!TaskAssumption
        <5> QED
          BY <1>1, <1>9, <2>4, <5>1 DEF Cluster!Requests
      <4>2. Holds = Cluster!Satisfied(run.task, actual) /\ Holds' = Cluster!Satisfied(run.task, actual)'
        BY <4>1 DEF Holds
      <4>3. run.task.state # "remove" =>
              Cluster!Satisfied(run.task, actual)' = Cluster!Satisfied(run.task, actual)
        BY <4>1 DEF Cluster!Satisfied
      <4> QED
        BY <4>2, <4>3
    <3> QED
      BY <1>2, <3>1, <3>2
  <2> QED
    BY <1>1, <1>2, <2>1, <2>3, <2>4, RunContract
<1>10. CASE module = "config"
  <2>1. /\ RunTyped(DataHosts, DataTasks, Data!Places, DataReads)
        /\ RunTyped(DataHosts, DataTasks, Data!Places, DataReads)'
        /\ RunMoves /\ Truthful(Data!Satisfied(run.task, actual), DataHides(run.task))
    BY <1>10, DataAlone DEF DataInv, DataRespects
  <2>2. Holds = Data!Satisfied(run.task, actual)
    BY <1>10 DEF Holds
  <2>3. Truthful(Holds, Hides)
    BY <1>10, <2>1, <2>2 DEF Hides, Truthful, DataHides
  <2>4. ASSUME ~Idle, Checking, run'.at # "idle", run'.disturbed = run.disturbed,
               run'.task = run.task, run'.mode = run.mode,
               actual' = actual \/ (module = "swarm" /\ run.task.state = "remove")
        PROVE Holds' = Holds
    <3>1. Holds' = Data!Satisfied(run.task, actual)'
      BY <1>1, <1>10 DEF Holds
    <3>2. Data!Satisfied(run.task, actual)' = Data!Satisfied(run.task, actual)
      BY <1>10, <2>4
    <3> QED
      BY <1>10, <3>1, <3>2 DEF Holds
  <2> QED
    BY <1>1, <1>2, <2>1, <2>3, <2>4, RunContract
<1>11. CASE module = "node"
  <2>1. /\ RunTyped(NodeHosts, NodeTasks, Node!Places, NodeReads)
        /\ RunTyped(NodeHosts, NodeTasks, Node!Places, NodeReads)'
        /\ RunMoves /\ Truthful(Node!Satisfied(run.task, actual), NodeHides(run.task))
    BY <1>11, NodeAlone DEF NodeInv, NodeRespects
  <2>2. Holds = Node!Satisfied(run.task, actual)
    BY <1>11 DEF Holds
  <2>3. Truthful(Holds, Hides)
    BY <1>11, <2>1, <2>2 DEF Hides, Truthful, NodeHides
  <2>4. ASSUME ~Idle, Checking, run'.at # "idle", run'.disturbed = run.disturbed,
               run'.task = run.task, run'.mode = run.mode,
               actual' = actual \/ (module = "swarm" /\ run.task.state = "remove")
        PROVE Holds' = Holds
    <3>1. Holds' = Node!Satisfied(run.task, actual)'
      BY <1>1, <1>11 DEF Holds
    <3>2. Node!Satisfied(run.task, actual)' = Node!Satisfied(run.task, actual)
      BY <1>11, <2>4
    <3> QED
      BY <1>11, <3>1, <3>2 DEF Holds
  <2> QED
    BY <1>1, <1>2, <2>1, <2>3, <2>4, RunContract
<1>12. CASE module = "service"
  <2>1. /\ RunTyped(ServiceHosts, ServiceTasks, Service!Places, ServiceReads)
        /\ RunTyped(ServiceHosts, ServiceTasks, Service!Places, ServiceReads)'
        /\ RunMoves /\ Truthful(Service!Satisfied(run.task, actual), ServiceHides(run.task))
    BY <1>12, ServiceAlone DEF ServiceInv, ServiceRespects
  <2>2. Holds = Service!Satisfied(run.task, actual)
    BY <1>12 DEF Holds
  <2>3. Truthful(Holds, Hides)
    BY <1>12, <2>1, <2>2 DEF Hides, Truthful, ServiceHides
  <2>4. ASSUME ~Idle, Checking, run'.at # "idle", run'.disturbed = run.disturbed,
               run'.task = run.task, run'.mode = run.mode,
               actual' = actual \/ (module = "swarm" /\ run.task.state = "remove")
        PROVE Holds' = Holds
    <3>1. Holds' = Service!Satisfied(run.task, actual)'
      BY <1>1, <1>12 DEF Holds
    <3>2. Service!Satisfied(run.task, actual)' = Service!Satisfied(run.task, actual)
      BY <1>12, <2>4 DEF Service!Satisfied
    <3> QED
      BY <1>12, <3>1, <3>2 DEF Holds
  <2> QED
    BY <1>1, <1>2, <2>1, <2>3, <2>4, RunContract
<1> QED
  BY <1>3, <1>4, <1>5, <1>6, <1>7, <1>8, <1>9, <1>10, <1>11, <1>12, DockerModule

LEMMA DockerContractStarts == Init => Contract!Init
<1> SUFFICES ASSUME Init PROVE Contract!Init
  OBVIOUS
<1>1. \E R, Asks : InitRuns(R, Asks)
  BY ContainerIsARun, ImageIsARun, NetworkIsARun, VolumeIsARun, ToolIsARun, ArchiveIsARun, ClusterIsARun, DataIsARun, NodeIsARun, ServiceIsARun
  DEF Init, Container!Init, Image!Init, Network!Init, Volume!Init, Tool!Init, Archive!Init, Cluster!Init, Data!Init, Node!Init, Service!Init
<1>2. run.at = "idle" /\ run.reply = "none" /\ run.touched = FALSE /\ run.disturbed = FALSE
  BY <1>1 DEF InitRuns, Rest
<1>3. Holds \in BOOLEAN
  BY DockerStarts, DockerHolds
<1> QED
  BY <1>2, <1>3 DEF Contract!Init, RunPhase, RunAnswer, Idle, At

(* All of them tell their callers the truth: a change they report left     *)
(* what the task asks for, no change means that it was so and that nothing *)
(* was touched, and a run in check mode touches nothing, whatever others   *)
(* do between two runs, wherever a run fails, and for every task.          *)
THEOREM DockersKeepContract == Spec => KeepsContract
  BY DockerStarts, DockerNext, DockerContract, DockerContractStarts, PTL
  DEF Spec, KeepsContract, Contract!Spec
=============================================================================

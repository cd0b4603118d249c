------------------------- MODULE FileModulesProofs --------------------------
(***************************************************************************)
(* The modules that write files keep to their types, never leave a torn    *)
(* file, back up what they replace and change only what they are about,    *)
(* for all texts and tasks.  The runs of lineinfile, blockinfile, replace  *)
(* and template are runs of FileRuns: what holds of those, and what the    *)
(* operators on lists return from which new texts are made, comes first.   *)
(***************************************************************************)
EXTENDS FileModules, FiniteSets, SequencesExt, SequenceTheorems, WellFoundedInduction, TLAPS

F == INSTANCE FileRuns

(* H: the states of the resource, which have the file and the temporary    *)
(* file among their fields; T: the texts; Asks: the tasks.                 *)
Hosted(H, T) ==
    \A h \in H :
        /\ h.file \in F!Files(T) /\ h.tmp \in T \union {Torn, Missing}
        /\ {"file", "tmp"} \subseteq DOMAIN h
        /\ \A f \in F!Files(T) : [h EXCEPT !.file = f] \in H
        /\ \A x \in T \union {Torn, Missing} : [h EXCEPT !.tmp = x] \in H
Given(H, T, Asks, Places) ==
    /\ Hosted(H, T) /\ {Missing, Torn} \cap T = {} /\ Missing # Torn
    /\ \A task \in Asks : task.asked \in F!Askable
    /\ F!FilePlaces \subseteq Places /\ "idle" \notin Places

-----------------------------------------------------------------------------
(* The invariant of these runs: a run in progress knows what it is about,  *)
(* what is going to be written is a text, a temporary file that is about   *)
(* to be installed has all of it, and between the backup and the rename    *)
(* the file is as it was when it was read and backed up.                   *)
Typed(H, T, Asks, Places) ==
    /\ actual \in H /\ memo \in F!Memos
    /\ run.read # Blank => run.read \in F!FileReads(T)
    /\ [run EXCEPT !.read = Blank] \in F!RunStates(Asks, Places, {})
    /\ ~F!Checking
Busy(T) == ~F!Idle => F!now \in F!FileReads(T)
Decided == {"validate", "backup", "write", "fill", "install"}
Texted(T) == run.at \in Decided => F!now.text \in T
Filled == F!At("install") => actual.tmp \in {Missing, F!now.text}
Seen == run.at \in {"validate", "backup"} /\ ~run.disturbed => (F!now.existed <=> F!Exists)
Saved ==
    run.at \in {"write", "fill", "install"} /\ F!t.backup /\ F!Exists /\ ~run.disturbed
        => F!now.saved = F!TextNow
FileInv(H, T, Asks, Places) ==
    Typed(H, T, Asks, Places) /\ Busy(T) /\ Texted(T) /\ Filled /\ Seen /\ Saved

-----------------------------------------------------------------------------
(* Induction over the natural numbers, for a set of them.                  *)
LEMMA SetInduction ==
  ASSUME NEW T, T \subseteq Nat, 0 \in T, \A n \in T : n + 1 \in T
  PROVE T = Nat
<1> SUFFICES ASSUME Nat \ T # {} PROVE FALSE
  OBVIOUS
<1> DEFINE R == OpToRel(<, Nat)
<1>1. \A x, y \in Nat : x < y => <<x, y>> \in R
  BY DEF OpToRel
<1>2. IsWellFoundedOn(R, Nat)
  BY NatLessThanWellFounded
<1> HIDE DEF R
<1>3. PICK x \in Nat \ T : \A y \in Nat \ T : ~(<<y, x>> \in R)
  BY <1>2, WFMin
<1>4. x # 0 /\ x - 1 \in Nat /\ x - 1 < x
  BY <1>3
<1>5. x - 1 \notin T
  <2>1. x - 1 \in T => (x - 1) + 1 \in T
    OBVIOUS
  <2> QED
    BY <1>3, <1>4, <2>1
<1> QED
  BY <1>1, <1>3, <1>4, <1>5

(* The concatenation of lists of members of S is one.                      *)
LEMMA FlattenType ==
  ASSUME NEW S, NEW s \in Seq(Seq(S))
  PROVE FlattenSeq(s) \in Seq(S)
<1> DEFINE Fn(g, n) == g = [i \in 1 .. n |-> IF i = 1 THEN s[i] ELSE g[i - 1] \o s[i]]
           T == {n \in Nat : n <= Len(s) => \E g : Fn(g, n)}
<1>1. 0 \in T
  <2>1. \E g : Fn(g, 0)
    OBVIOUS
  <2> QED BY <2>1
<1>2. ASSUME NEW n \in T PROVE n + 1 \in T
  <2> HIDE DEF Fn
  <2> SUFFICES ASSUME n + 1 <= Len(s) PROVE \E g : Fn(g, n + 1)
    OBVIOUS
  <2>0. n \in Nat /\ n <= Len(s) /\ Len(s) \in Nat
    OBVIOUS
  <2>1. PICK g : Fn(g, n)
    BY <1>2, <2>0
  <2> USE DEF Fn
  <2> DEFINE h == [i \in 1 .. n + 1 |->
                     IF i = n + 1 THEN (IF i = 1 THEN s[i] ELSE g[i - 1] \o s[i]) ELSE g[i]]
  <2>2. Fn(h, n + 1)
    <3>1. ASSUME NEW i \in 1 .. n + 1 PROVE h[i] = IF i = 1 THEN s[i] ELSE h[i - 1] \o s[i]
      <4>1. CASE i = n + 1
         BY <4>1
      <4>2. CASE i # n + 1
         <5>1. i \in 1 .. n /\ h[i] = g[i]
            BY <4>2
         <5>2. g[i] = IF i = 1 THEN s[i] ELSE g[i - 1] \o s[i]
            BY <5>1, <2>1
         <5>3. i # 1 => h[i-1] = g[i-1]
            BY <5>1
         <5> QED BY <5>1, <5>2, <5>3
      <4> QED BY <4>1, <4>2
    <3> QED BY <3>1
  <2> QED BY <2>2
<1>3. T = Nat
  <2> HIDE DEF T
  <2>1. T \subseteq Nat BY DEF T
  <2> QED BY <1>1, <1>2, <2>1, SetInduction
<1>4. \E g : Fn(g, Len(s))
  <2>1. Len(s) \in Nat
    OBVIOUS
  <2> HIDE DEF Fn
  <2> QED
    BY <1>3, <2>1
<1> DEFINE f == CHOOSE g : Fn(g, Len(s))
<1>5. Fn(f, Len(s))
  <2> HIDE DEF Fn
  <2> QED BY <1>4
<1> HIDE DEF f
<1> DEFINE U == {n \in Nat : n \in 1 .. Len(s) => f[n] \in Seq(S)}
<1>6. ASSUME NEW n \in U PROVE n + 1 \in U
  <2> SUFFICES ASSUME n + 1 \in 1 .. Len(s) PROVE f[n + 1] \in Seq(S)
    OBVIOUS
  <2>1. f[n + 1] = IF n + 1 = 1 THEN s[n + 1] ELSE f[(n + 1) - 1] \o s[n + 1]
    BY <1>5
  <2>2. s[n + 1] \in Seq(S)
    OBVIOUS
  <2>3. n # 0 => f[n] \in Seq(S)
    OBVIOUS
  <2> QED BY <2>1, <2>2, <2>3
<1>7. U = Nat
  <2>1. 0 \in U /\ U \subseteq Nat OBVIOUS
  <2> HIDE DEF U
  <2> QED BY <1>6, <2>1, SetInduction
<1>8. CASE Len(s) = 0
  BY <1>8 DEF FlattenSeq
<1>9. CASE Len(s) # 0
  <2>1. f[Len(s)] \in Seq(S)
    <3>1. Len(s) \in Nat /\ Len(s) \in 1 .. Len(s)
      BY <1>9
    <3> QED
      BY <1>7, <3>1
  <2>2. FlattenSeq(s) = f[Len(s)]
    BY <1>9 DEF FlattenSeq, f
  <2> QED BY <2>1, <2>2
<1> QED BY <1>8, <1>9

(* Three lists, one after the other.                                       *)
LEMMA Joined ==
    ASSUME NEW S, NEW a \in Seq(S), NEW b \in Seq(S), NEW c \in Seq(S)
    PROVE /\ a \o b \o c \in Seq(S)
          /\ Len(a \o b \o c) = Len(a) + Len(b) + Len(c)
          /\ \A i \in 1 .. Len(a) : (a \o b \o c)[i] = a[i]
          /\ \A i \in 1 .. Len(b) : (a \o b \o c)[Len(a) + i] = b[i]
          /\ \A i \in 1 .. Len(c) : (a \o b \o c)[Len(a) + Len(b) + i] = c[i]
<1> DEFINE d == a \o b
<1>1. /\ d \in Seq(S) /\ Len(d) = Len(a) + Len(b)
      /\ \A i \in 1 .. Len(a) : d[i] = a[i]
      /\ \A i \in 1 .. Len(b) : d[Len(a) + i] = b[i]
  OBVIOUS
<1>2. Len(a) \in Nat /\ Len(b) \in Nat /\ Len(c) \in Nat
  OBVIOUS
<1> HIDE DEF d
<1>3. /\ d \o c \in Seq(S) /\ Len(d \o c) = Len(d) + Len(c)
      /\ \A i \in 1 .. Len(d) : (d \o c)[i] = d[i]
      /\ \A i \in 1 .. Len(c) : (d \o c)[Len(d) + i] = c[i]
  <2>1. d \in Seq(S)
    BY <1>1
  <2> QED
    BY <2>1
<1>4. a \o b \o c = d \o c
  BY DEF d
<1> QED
  BY <1>1, <1>2, <1>3, <1>4

LEMMA JoinedEnds ==
    ASSUME NEW S, NEW a \in Seq(S), NEW b \in Seq(S), NEW c \in Seq(S)
    PROVE /\ SubSeq(a \o b \o c, 1, Len(a)) = a
          /\ SubSeq(a \o b \o c, Len(a) + Len(b) + 1, Len(a \o b \o c)) = c
<1> DEFINE d == a \o b \o c
<1>1. /\ d \in Seq(S) /\ Len(d) = Len(a) + Len(b) + Len(c)
      /\ \A i \in 1 .. Len(a) : d[i] = a[i]
      /\ \A i \in 1 .. Len(c) : d[Len(a) + Len(b) + i] = c[i]
  BY Joined
<1>2. Len(a) \in Nat /\ Len(b) \in Nat /\ Len(c) \in Nat
  OBVIOUS
<1> HIDE DEF d
<1>3. SubSeq(d, 1, Len(a)) = a
  BY <1>1, <1>2
<1>4. SubSeq(d, Len(a) + Len(b) + 1, Len(d)) = c
  <2> DEFINE e == SubSeq(d, Len(a) + Len(b) + 1, Len(d))
  <2>1. e \in Seq(S) /\ Len(e) = Len(c)
    BY <1>1, <1>2
  <2>2. \A i \in 1 .. Len(c) : e[i] = c[i]
    <3> TAKE i \in 1 .. Len(c)
    <3>1. e[i] = d[Len(a) + Len(b) + 1 + i - 1]
      BY <1>1, <1>2
    <3> QED
      BY <1>1, <1>2, <3>1
  <2> HIDE DEF e
  <2>3. e = c
    BY <2>1, <2>2
  <2> QED
    BY <2>3 DEF e
<1> QED
  BY <1>3, <1>4 DEF d

(* A set of positions that is not empty has a first and a last one.        *)
LEMMA FirstAndLast ==
    ASSUME NEW n \in Nat, NEW I \in SUBSET (1 .. n), I # {}
    PROVE /\ Min(I) \in I /\ \A i \in I : Min(I) <= i
          /\ Max(I) \in I /\ \A i \in I : i <= Max(I)
<1> DEFINE T == {m \in Nat : \A J \in SUBSET (1 .. m) : J # {} =>
                    /\ \E i \in J : \A j \in J : i <= j
                    /\ \E i \in J : \A j \in J : j <= i}
<1>1. 0 \in T
  <2>1. \A J \in SUBSET (1 .. 0) : J = {}
    OBVIOUS
  <2> QED
    BY <2>1
<1>2. ASSUME NEW m \in T PROVE m + 1 \in T
  <2> SUFFICES ASSUME NEW J \in SUBSET (1 .. m + 1), J # {}
               PROVE /\ \E i \in J : \A j \in J : i <= j
                     /\ \E i \in J : \A j \in J : j <= i
    OBVIOUS
  <2> DEFINE K == J \ {m + 1}
  <2>1. K \in SUBSET (1 .. m) /\ \A j \in J : j = m + 1 \/ j \in K
    OBVIOUS
  <2>2. CASE K = {}
    BY <2>1, <2>2
  <2>3. CASE K # {}
    <3>1. (\E i \in K : \A j \in K : i <= j) /\ (\E i \in K : \A j \in K : j <= i)
      BY <2>1, <2>3
    <3>2. PICK i \in K, k \in K : (\A j \in K : i <= j) /\ (\A j \in K : j <= k)
      BY <3>1
    <3>3. \A j \in J : i <= j
      BY <2>1, <3>2
    <3>4. \A j \in J : j <= (IF m + 1 \in J THEN m + 1 ELSE k)
      BY <2>1, <3>2
    <3> QED
      BY <3>2, <3>3, <3>4
  <2> QED
    BY <2>2, <2>3
<1>3. T = Nat
  <2>1. T \subseteq Nat
    OBVIOUS
  <2> HIDE DEF T
  <2> QED
    BY <1>1, <1>2, <2>1, SetInduction
<1>4. (\E i \in I : \A j \in I : i <= j) /\ (\E i \in I : \A j \in I : j <= i)
  BY <1>3
<1> QED
  BY <1>4 DEF Min, Max

(* Suffixes of the attributes that are looked at one after the other.      *)
LEMMA LeftOver ==
    LET S == {SubSeq(F!Kinds, i, 3) : i \in 1 .. 4} IN
    /\ F!Kinds \in S /\ <<>> \in S
    /\ \A s \in S : s # <<>> => Tail(s) \in S /\ Head(s) \in {"owner", "group", "mode"}
<1> DEFINE K == {"owner", "group", "mode"}
           S == {SubSeq(F!Kinds, i, 3) : i \in 1 .. 4}
<1>1. F!Kinds \in Seq(K) /\ Len(F!Kinds) = 3
  BY DEF F!Kinds
<1>2. SubSeq(F!Kinds, 1, 3) = F!Kinds
  BY <1>1, SubSeqFull
<1>3. SubSeq(F!Kinds, 4, 3) = <<>>
  BY SubSeqEmpty
<1>4. ASSUME NEW i \in 1 .. 3
      PROVE /\ Head(SubSeq(F!Kinds, i, 3)) \in K
            /\ Tail(SubSeq(F!Kinds, i, 3)) = SubSeq(F!Kinds, i + 1, 3)
  <2>1. i \in 1 .. Len(F!Kinds) /\ 3 \in i .. Len(F!Kinds)
    BY <1>1
  <2>2. /\ Head(SubSeq(F!Kinds, i, 3)) = F!Kinds[i]
        /\ Tail(SubSeq(F!Kinds, i, 3)) = SubSeq(F!Kinds, i + 1, 3)
    BY <1>1, <2>1, HeadTailOfSubSeq
  <2> QED
    BY <1>1, <2>1, <2>2
<1>5. ASSUME NEW s \in S, s # <<>>
      PROVE Tail(s) \in S /\ Head(s) \in K
  <2>1. PICK i \in 1 .. 4 : s = SubSeq(F!Kinds, i, 3)
    OBVIOUS
  <2>2. i \in 1 .. 3 /\ i + 1 \in 1 .. 4
    BY <1>3, <1>5, <2>1
  <2> QED
    BY <1>4, <2>1, <2>2
<1> QED
  BY <1>2, <1>3, <1>5

(* The agent waits for its first task.                                     *)
LEMMA FileInit ==
    ASSUME NEW H, NEW T, NEW Asks, NEW Places, NEW R \in SUBSET H, F!InitRuns(R, Asks)
    PROVE FileInv(H, T, Asks, Places) /\ run.at = "idle"
<1>1. PICK task \in Asks : run = F!Rest(task, Blank)
  BY DEF F!InitRuns
<1>2. /\ [run EXCEPT !.read = Blank] \in F!RunStates(Asks, Places, {})
      /\ run.at = "idle" /\ run.read = Blank /\ run.mode = "apply"
  BY <1>1 DEF F!Rest, F!RunStates, F!Replies, F!Forecasts
<1>3. memo \in F!Memos
  BY DEF F!InitRuns, F!NoMemo, F!Memos, F!Forecasts
<1> QED
  BY <1>2, <1>3
     DEF F!InitRuns, FileInv, Typed, Busy, Texted, Decided, Filled, Seen, Saved, F!At, F!Idle,
         F!now, F!Checking

(* A task starts.                                                          *)
LEMMA FileBegin ==
    ASSUME NEW H, NEW T, NEW Asks, NEW Places, Given(H, T, Asks, Places),
           FileInv(H, T, Asks, Places), NEW task \in Asks, F!Begin(task, "apply", "read", F!Unread)
    PROVE FileInv(H, T, Asks, Places)'
<1>1. F!Unread \in F!FileReads(T)
  BY LeftOver DEF F!Unread, F!FileReads
<1>2. run' = [F!Rest(task, F!Unread) EXCEPT !.at = "read", !.mode = "apply",
                !.expect = run'.expect, !.again = run'.again]
      /\ run'.expect \in F!Forecasts /\ run'.again \in BOOLEAN
  BY DEF F!Begin, F!Rest, FileInv, Typed, F!Memos, F!NoMemo, F!Forecasts
<1>3. Typed(H, T, Asks, Places)'
  <2>1. [run' EXCEPT !.read = Blank] \in F!RunStates(Asks, Places, {})
    BY <1>2 DEF F!Rest, F!RunStates, F!Replies, Given, F!FilePlaces
  <2>2. memo' \in F!Memos
    BY DEF F!Begin, FileInv, Typed, F!Memos, F!NoMemo, F!Forecasts
  <2> QED
    BY <1>1, <1>2, <2>1, <2>2 DEF F!Begin, FileInv, Typed, F!Rest, F!Checking
<1> QED
  BY <1>1, <1>2, <1>3 DEF FileInv, Busy, Texted, Decided, Filled, Seen, Saved, F!At, F!Idle, F!now,
    F!Rest

(* A step goes where it goes with what it knows, and changes nothing else  *)
(* of the run.                                                             *)
LEMMA FileStep ==
    ASSUME NEW H, NEW T, NEW Asks, NEW Places, Typed(H, T, Asks, Places),
           NEW place \in Places, NEW a \in H, NEW r \in F!FileReads(T), NEW c \in BOOLEAN,
           F!Step(place, a, r, c)
    PROVE /\ Typed(H, T, Asks, Places)' /\ Busy(T)'
          /\ run'.at = place /\ run'.read = r /\ actual' = a
          /\ run'.task = run.task /\ run'.disturbed = run.disturbed
<1>1. /\ run'.at = place /\ run'.read = r /\ run'.task = run.task
      /\ run'.disturbed = run.disturbed /\ run'.mode = run.mode
  BY DEF F!Step, Typed, F!RunStates
<1>2. [run' EXCEPT !.read = Blank] \in F!RunStates(Asks, Places, {})
  BY DEF F!Step, Typed, F!RunStates
<1>3. memo' \in F!Memos
  BY DEF F!Step, Typed, F!Memos, F!NoMemo, F!Forecasts
<1> QED
  BY <1>1, <1>2, <1>3 DEF F!Step, Typed, Busy, F!Idle, F!At, F!now, F!Checking

(* A run that ends leaves the file as it is.                               *)
LEMMA FileEnds ==
    ASSUME NEW H, NEW T, NEW Asks, NEW Places, FileInv(H, T, Asks, Places),
           \/ \E c \in BOOLEAN : F!Answer(c)
           \/ \E reply \in F!Replies : F!Stops(reply)
    PROVE FileInv(H, T, Asks, Places)'
<1>1. PICK reply \in F!Replies, c \in BOOLEAN : F!Ends(reply, c)
  BY DEF F!Answer, F!Stops, F!Replies
<1>2. run'.at = "idle" /\ run'.read = Blank /\ run'.mode = run.mode /\ run'.task = run.task
  BY <1>1 DEF F!Ends, FileInv, Typed, F!RunStates
<1>3. [run' EXCEPT !.read = Blank] \in F!RunStates(Asks, Places, {})
  BY <1>1 DEF F!Ends, FileInv, Typed, F!RunStates
<1>4. memo' \in {memo, [forecast |-> "none", settled |-> ~run.disturbed]} /\ actual' = actual
  BY DEF F!Answer, F!Stops, FileInv, Typed
<1>5. memo' \in F!Memos
  <2>1. memo \in F!Memos
    BY DEF FileInv, Typed
  <2>2. (~run.disturbed) \in {TRUE, FALSE}
    OBVIOUS
  <2>3. \A b \in {TRUE, FALSE} : [forecast |-> "none", settled |-> b] \in F!Memos
    BY DEF F!Memos, F!Forecasts
  <2> QED
    BY <1>4, <2>1, <2>2, <2>3
<1> QED
  BY <1>2, <1>3, <1>4, <1>5
     DEF FileInv, Typed, Busy, Texted, Decided, Filled, Seen, Saved, F!At, F!Idle, F!now, F!Checking

(* What is decided when the file was read.                                 *)
LEMMA FileRewrite ==
    ASSUME NEW H, NEW T, NEW Asks, NEW Places, Given(H, T, Asks, Places),
           FileInv(H, T, Asks, Places), F!At("read"),
           NEW x \in T, NEW k \in {F!Kinds, <<>>}, F!Rewrite(x, k)
    PROVE FileInv(H, T, Asks, Places)'
<1> DEFINE r == [F!now EXCEPT !.text = x, !.existed = F!Exists, !.left = k]
<1>1. F!now \in F!FileReads(T)
  BY DEF FileInv, Busy, F!At, F!Idle
<1>2. r \in F!FileReads(T) /\ r.text = x /\ r.existed = F!Exists
  BY <1>1, LeftOver DEF F!FileReads, F!Exists
<1> DEFINE place == IF k = <<>> THEN "backup" ELSE "validate"
<1>3. F!Step(place, actual, r, run.changed) /\ run.changed \in BOOLEAN
  BY DEF F!Rewrite, F!Reads, FileInv, Typed, F!RunStates
<1>6. place \in {"backup", "validate"}
  OBVIOUS
<1> HIDE DEF r, place
<1>4. place \in Places
  BY <1>6 DEF Given, F!FilePlaces
<1>5. /\ Typed(H, T, Asks, Places)' /\ Busy(T)'
      /\ run'.at = place /\ run'.read = r /\ actual' = actual
  BY <1>2, <1>3, <1>4, FileStep DEF FileInv, Typed
<1> QED
  BY <1>2, <1>5, <1>6 DEF FileInv, Texted, Decided, Filled, Seen, Saved, F!At, F!now, F!Exists

LEMMA FileKeep ==
    ASSUME NEW H, NEW T, NEW Asks, NEW Places, Given(H, T, Asks, Places),
           FileInv(H, T, Asks, Places), F!At("read"), F!Keep(F!Kinds)
    PROVE FileInv(H, T, Asks, Places)'
<1> DEFINE r == [F!now EXCEPT !.existed = F!Exists, !.left = F!Kinds]
<1>1. F!now \in F!FileReads(T)
  BY DEF FileInv, Busy, F!At, F!Idle
<1>2. r \in F!FileReads(T)
  BY <1>1, LeftOver DEF F!FileReads, F!Exists
<1>3. F!Step("attributes", actual, r, run.changed) /\ run.changed \in BOOLEAN
  BY DEF F!Keep, F!Reads, FileInv, Typed, F!RunStates
<1> HIDE DEF r
<1>4. "attributes" \in Places
  BY DEF Given, F!FilePlaces
<1>5. Typed(H, T, Asks, Places)' /\ Busy(T)' /\ run'.at = "attributes"
  BY <1>2, <1>3, <1>4, FileStep DEF FileInv, Typed
<1> QED
  BY <1>5 DEF FileInv, Texted, Decided, Filled, Seen, Saved, F!At

(* A step to a place where no text is written any more.                    *)
LEMMA FileGoto ==
    ASSUME NEW H, NEW T, NEW Asks, NEW Places, FileInv(H, T, Asks, Places), ~F!Idle,
           NEW place \in Places \ Decided, F!Goto(place)
    PROVE FileInv(H, T, Asks, Places)'
<1>1. F!Step(place, actual, F!now, run.changed) /\ F!now \in F!FileReads(T) /\ run.changed \in BOOLEAN
  BY DEF F!Goto, F!now, FileInv, Busy, Typed, F!RunStates
<1>2. Typed(H, T, Asks, Places)' /\ Busy(T)' /\ run'.at = place
  BY <1>1, FileStep DEF FileInv, Typed
<1> QED
  BY <1>2 DEF FileInv, Texted, Decided, Filled, Seen, Saved, F!At

(* The text that was validated is written, after the old one was backed up *)
(* as it was read, to the temporary file, and from there to the file.      *)
LEMMA FileGuard ==
    ASSUME NEW H, NEW T, NEW Asks, NEW Places, Given(H, T, Asks, Places),
           FileInv(H, T, Asks, Places), F!Guard
    PROVE FileInv(H, T, Asks, Places)'
<1>1. /\ F!now \in F!FileReads(T) /\ F!now.text \in T /\ run.changed \in BOOLEAN /\ actual \in H
      /\ {"backup", "write"} \subseteq Places
  BY DEF F!Guard, F!Validate, F!Backup, FileInv, Busy, Texted, Decided, F!At, F!Idle, Typed,
    F!RunStates, Given, F!FilePlaces
<1>2. CASE F!Validate /\ F!Goto("backup")
  <2>1. F!Step("backup", actual, F!now, run.changed)
    BY <1>2 DEF F!Goto, F!now
  <2>2. /\ Typed(H, T, Asks, Places)' /\ Busy(T)'
        /\ run'.at = "backup" /\ run'.read = F!now /\ actual' = actual
        /\ run'.disturbed = run.disturbed
    BY <1>1, <2>1, FileStep DEF FileInv
  <2> QED
    BY <1>1, <1>2, <2>2
       DEF F!Validate, FileInv, Texted, Decided, Filled, Seen, Saved, F!At, F!now, F!Exists
<1>3. CASE F!Refuse
  BY <1>3, FileEnds DEF F!Refuse, F!Replies
<1>4. CASE F!Backup /\ ~F!Refuse
  <2> DEFINE r == IF F!t.backup /\ F!now.existed THEN [F!now EXCEPT !.saved = F!TextNow] ELSE F!now
  <2>1. F!t.backup /\ F!now.existed => F!Exists
    BY <1>4 DEF F!Backup
  <2>2. F!Exists => F!TextNow \in T
    BY <1>1 DEF Given, Hosted, F!Files, F!Exists, F!TextNow
  <2>3. /\ r \in F!FileReads(T) /\ r.text = F!now.text
        /\ F!t.backup /\ F!now.existed => r.saved = F!TextNow
    BY <1>1, <2>1, <2>2 DEF F!FileReads
  <2>4. F!Step("write", actual, r, run.changed)
    BY <1>4 DEF F!Backup, F!Goto, F!Reads, F!now
  <2> HIDE DEF r
  <2>5. /\ Typed(H, T, Asks, Places)' /\ Busy(T)'
        /\ run'.at = "write" /\ run'.read = r /\ actual' = actual
        /\ run'.disturbed = run.disturbed /\ run'.task = run.task
    BY <1>1, <2>3, <2>4, FileStep DEF FileInv
  <2>6. ~run.disturbed => (F!now.existed <=> F!Exists)
    BY <1>4 DEF F!Backup, FileInv, Seen, F!At
  <2> QED
    BY <1>1, <2>3, <2>5, <2>6
       DEF FileInv, Texted, Decided, Filled, Seen, Saved, F!At, F!now, F!Exists, F!TextNow, F!t
<1> QED
  BY <1>2, <1>3, <1>4 DEF F!Guard, F!Validate

LEMMA FileAtomicWrite ==
    ASSUME NEW H, NEW T, NEW Asks, NEW Places, Given(H, T, Asks, Places),
           FileInv(H, T, Asks, Places), F!AtomicWrite
    PROVE FileInv(H, T, Asks, Places)'
<1>1. /\ F!now \in F!FileReads(T) /\ F!now.text \in T /\ run.changed \in BOOLEAN /\ actual \in H
      /\ {"fill", "install", "attributes"} \subseteq Places
      /\ {"file", "tmp"} \subseteq DOMAIN actual
  BY DEF F!AtomicWrite, F!Write, F!Fill, F!Install, FileInv, Busy, Texted, Decided, F!At, F!Idle,
    Typed, F!RunStates, Given, Hosted, F!FilePlaces
<1>2. CASE F!Write
  <2> DEFINE a == [actual EXCEPT !.tmp = Torn]
  <2>1. a \in H /\ a.file = actual.file
    BY <1>1 DEF Given, Hosted
  <2>2. F!Step("fill", a, F!now, run.changed)
    BY <1>2 DEF F!Write
  <2> HIDE DEF a
  <2>3. /\ Typed(H, T, Asks, Places)' /\ Busy(T)'
        /\ run'.at = "fill" /\ run'.read = F!now /\ actual' = a
        /\ run'.disturbed = run.disturbed /\ run'.task = run.task
    BY <1>1, <2>1, <2>2, FileStep DEF FileInv
  <2> QED
    BY <1>1, <1>2, <2>1, <2>3
       DEF F!Write, FileInv, Texted, Decided, Filled, Seen, Saved, F!At, F!now, F!Exists, F!TextNow,
           F!t
<1>3. CASE F!Fill
  <2> DEFINE a == [actual EXCEPT !.tmp = F!now.text]
  <2>1. a \in H /\ a.file = actual.file /\ a.tmp = F!now.text
    BY <1>1 DEF Given, Hosted
  <2>2. F!Step("install", a, F!now, run.changed)
    BY <1>3 DEF F!Fill
  <2> HIDE DEF a
  <2>3. /\ Typed(H, T, Asks, Places)' /\ Busy(T)'
        /\ run'.at = "install" /\ run'.read = F!now /\ actual' = a
        /\ run'.disturbed = run.disturbed /\ run'.task = run.task
    BY <1>1, <2>1, <2>2, FileStep DEF FileInv
  <2> QED
    BY <1>1, <1>3, <2>1, <2>3
       DEF F!Fill, FileInv, Texted, Decided, Filled, Seen, Saved, F!At, F!now, F!Exists, F!TextNow,
           F!t
<1>4. CASE F!Install /\ ~F!Refuse
  <2> DEFINE f == [text |-> actual.tmp, attrs |-> F!Fresh]
             h == [actual EXCEPT !.file = f]
             a == [actual EXCEPT !.file = f, !.tmp = Missing]
  <2>1. actual.tmp # Missing /\ actual.tmp = F!now.text
    BY <1>4 DEF F!Install, FileInv, Filled
  <2>2. f \in F!Files(T)
    BY <1>1, <2>1 DEF F!Files, F!Fresh, F!Attributes
  <2>3. h \in H
    BY <1>1, <2>2 DEF Given, Hosted
  <2>4. a = [h EXCEPT !.tmp = Missing]
    OBVIOUS
  <2>5. a \in H
    BY <2>3, <2>4 DEF Given, Hosted
  <2>6. F!Step("attributes", a, F!now, TRUE)
    BY <1>4, <2>1 DEF F!Install, F!Changes, F!now
  <2> HIDE DEF a
  <2>7. Typed(H, T, Asks, Places)' /\ Busy(T)' /\ run'.at = "attributes"
    BY <1>1, <2>5, <2>6, FileStep DEF FileInv
  <2> QED
    BY <2>7 DEF FileInv, Texted, Decided, Filled, Seen, Saved, F!At
<1>5. CASE F!Refuse
  BY <1>5, FileEnds DEF F!Refuse, F!Replies
<1> QED
  BY <1>2, <1>3, <1>4, <1>5 DEF F!AtomicWrite

(* Owner, group and mode are set one after the other.                      *)
LEMMA FileAttribute ==
    ASSUME NEW H, NEW T, NEW Asks, NEW Places, Given(H, T, Asks, Places),
           FileInv(H, T, Asks, Places), F!Attribute
    PROVE FileInv(H, T, Asks, Places)'
<1> DEFINE k == Head(F!now.left)
           rest == [F!now EXCEPT !.left = Tail(@)]
           a == [actual EXCEPT !.file.attrs[k] = F!t.asked[k]]
<1>1. /\ F!now \in F!FileReads(T) /\ run.changed \in BOOLEAN /\ actual \in H /\ F!t \in Asks
      /\ "attributes" \in Places /\ "attributes" \notin Decided
  BY DEF F!Attribute, FileInv, Busy, F!At, F!Idle, Typed, F!RunStates, Given, F!FilePlaces, Decided,
    F!t
<1>2. k \in {"owner", "group", "mode"} /\ rest \in F!FileReads(T)
  <2>1. F!now.left \in {SubSeq(F!Kinds, i, 3) : i \in 1 .. 4} /\ F!now.left # <<>>
    BY <1>1 DEF F!Attribute, F!FileReads
  <2>2. k \in {"owner", "group", "mode"} /\ Tail(F!now.left) \in {SubSeq(F!Kinds, i, 3) : i \in 1 .. 4}
    BY <2>1, LeftOver
  <2> QED
    BY <1>1, <2>2 DEF F!FileReads
<1>3. F!Exists /\ F!t.asked[k] # 0 => a \in H
  <2> SUFFICES ASSUME F!Exists, F!t.asked[k] # 0 PROVE a \in H
    OBVIOUS
  <2>1. F!t.asked[k] \in 1 .. 2
    BY <1>1, <1>2 DEF Given, F!Askable
  <2>2. actual.file \in [text : T, attrs : F!Attributes]
    BY <1>1 DEF Given, Hosted, F!Files, F!Exists
  <2> DEFINE f == [actual.file EXCEPT !.attrs[k] = F!t.asked[k]]
  <2>3. f \in F!Files(T)
    BY <1>2, <2>1, <2>2 DEF F!Files, F!Attributes
  <2>4. a = [actual EXCEPT !.file = f]
    BY <1>1 DEF Given, Hosted
  <2> HIDE DEF a, f
  <2> QED
    BY <1>1, <2>3, <2>4 DEF Given, Hosted
<1>4. \/ F!Answer(run.changed) \/ F!Refuse
      \/ F!Step("attributes", actual, rest, run.changed)
      \/ F!Exists /\ F!t.asked[k] # 0 /\ F!Step("attributes", a, rest, TRUE)
  BY DEF F!Attribute, F!Reads
<1> HIDE DEF a, rest, k
<1>5. CASE F!Answer(run.changed) \/ F!Refuse
  BY <1>1, <1>5, FileEnds DEF F!Refuse, F!Replies
<1>6. CASE ~(F!Answer(run.changed) \/ F!Refuse)
  <2>1. PICK b \in H, c \in BOOLEAN : F!Step("attributes", b, rest, c)
    BY <1>1, <1>3, <1>4, <1>6
  <2>2. Typed(H, T, Asks, Places)' /\ Busy(T)' /\ run'.at = "attributes"
    BY <1>1, <1>2, <2>1, FileStep DEF FileInv
  <2> QED
    BY <2>2 DEF FileInv, Texted, Decided, Filled, Seen, Saved, F!At
<1> QED
  BY <1>5, <1>6

LEMMA FileSetAttributes ==
    ASSUME NEW H, NEW T, NEW Asks, NEW Places, Given(H, T, Asks, Places),
           FileInv(H, T, Asks, Places), F!SetAttributes
    PROVE FileInv(H, T, Asks, Places)'
<1>1. run.changed \in BOOLEAN
  BY DEF FileInv, Typed, F!RunStates
<1> QED
  BY <1>1, FileAttribute, FileEnds DEF F!SetAttributes, F!Done

(* The process gives up or is killed: what it left behind, the next run    *)
(* finds.                                                                  *)
LEMMA FileGivesUp ==
    ASSUME NEW H, NEW T, NEW Asks, NEW Places, FileInv(H, T, Asks, Places),
           F!FileCallError \/ F!Killed \/ F!Refuse
    PROVE FileInv(H, T, Asks, Places)'
  BY FileEnds DEF F!FileCallError, F!CallFails, F!Killed, F!Refuse, F!Replies

(* Others change something, between any two steps.                         *)
LEMMA FileInterferes ==
    ASSUME NEW H, NEW T, NEW Asks, NEW Places, FileInv(H, T, Asks, Places),
           NEW a \in H, F!Interferes(a), a.tmp \in {actual.tmp, Missing}
    PROVE FileInv(H, T, Asks, Places)'
<1>1. /\ run'.at = run.at /\ run'.read = run.read /\ run'.mode = run.mode
      /\ ~F!Idle => run'.disturbed = TRUE
  BY DEF F!Interferes, FileInv, Typed, F!RunStates
<1>2. [run' EXCEPT !.read = Blank] \in F!RunStates(Asks, Places, {})
  BY DEF F!Interferes, FileInv, Typed, F!RunStates
<1>3. memo' \in F!Memos /\ actual' = a
  BY DEF F!Interferes, F!Memos, F!NoMemo, F!Forecasts
<1> QED
  BY <1>1, <1>2, <1>3
     DEF FileInv, Typed, Busy, Texted, Decided, Filled, Seen, Saved, F!At, F!Idle, F!now, F!Checking

LEMMA FileOthers ==
    ASSUME NEW H, NEW T, NEW Asks, NEW Places, Given(H, T, Asks, Places),
           FileInv(H, T, Asks, Places), NEW U \in SUBSET T, F!FileOutside(U)
    PROVE FileInv(H, T, Asks, Places)'
<1>1. actual \in H /\ {"file", "tmp"} \subseteq DOMAIN actual
  BY DEF FileInv, Typed, Given, Hosted
<1>2. ASSUME NEW f \in F!Files(T), F!Interferes([actual EXCEPT !.file = f])
      PROVE FileInv(H, T, Asks, Places)'
  <2> DEFINE a == [actual EXCEPT !.file = f]
  <2>1. a \in H /\ a.tmp = actual.tmp
    BY <1>1 DEF Given, Hosted
  <2> HIDE DEF a
  <2> QED
    BY <1>2, <2>1, FileInterferes DEF a
<1>3. CASE \E x \in U : F!Interferes([actual EXCEPT !.file = [text |-> x, attrs |-> F!Fresh]])
  <2>1. \A x \in U : [text |-> x, attrs |-> F!Fresh] \in F!Files(T)
    BY DEF F!Files, F!Fresh, F!Attributes
  <2> QED
    BY <1>2, <1>3, <2>1
<1>4. CASE F!Interferes([actual EXCEPT !.file = Missing])
  BY <1>2, <1>4 DEF F!Files
<1>5. CASE F!Exists /\ \E k \in DOMAIN F!Fresh :
             F!t.asked[k] # 0 /\ F!Interferes([actual EXCEPT !.file.attrs[k] = 3 - @])
  <2>1. PICK k \in DOMAIN F!Fresh : F!Interferes([actual EXCEPT !.file.attrs[k] = 3 - @])
    BY <1>5
  <2> DEFINE f == [actual.file EXCEPT !.attrs[k] = 3 - @]
  <2>2. actual.file \in [text : T, attrs : F!Attributes]
    BY <1>1, <1>5 DEF FileInv, Typed, Given, Hosted, F!Files, F!Exists
  <2>3. f \in F!Files(T)
    BY <2>2 DEF F!Files, F!Fresh, F!Attributes
  <2>4. [actual EXCEPT !.file.attrs[k] = 3 - @] = [actual EXCEPT !.file = f]
    BY <1>1
  <2> HIDE DEF f
  <2> QED
    BY <1>2, <2>1, <2>3, <2>4
<1>6. CASE F!Interferes([actual EXCEPT !.tmp = Missing])
  <2> DEFINE a == [actual EXCEPT !.tmp = Missing]
  <2>1. a \in H /\ a.tmp = Missing
    BY <1>1 DEF Given, Hosted
  <2> HIDE DEF a
  <2> QED
    BY <1>6, <2>1, FileInterferes DEF a
<1> QED
  BY <1>3, <1>4, <1>5, <1>6 DEF F!FileOutside

(* What the invariant is for: no torn file, and a backup that is right.    *)
LEMMA FileIsWhole ==
    ASSUME NEW H, NEW T, NEW Asks, NEW Places, Given(H, T, Asks, Places),
           FileInv(H, T, Asks, Places)
    PROVE F!NeverTorn /\ F!BackedUp
  BY DEF Given, Hosted, F!Files, FileInv, Typed, Saved, F!NeverTorn, F!BackedUp, F!At, F!Exists,
    F!TextNow

(* Between the decision and the rename nothing of what was decided, and    *)
(* nothing of the file, changes, unless others change it.                  *)
LEMMA FileFrame ==
    ASSUME NEW H, NEW T, NEW Asks, NEW Places, NEW U, Given(H, T, Asks, Places),
           FileInv(H, T, Asks, Places),
           \/ F!Guard \/ F!AtomicWrite \/ F!SetAttributes
           \/ F!FileCallError \/ F!Killed \/ F!FileOutside(U),
           run'.at \in Decided, ~run'.disturbed
    PROVE /\ run.at \in Decided /\ ~run.disturbed
          /\ actual'.file = actual.file /\ run'.read.text = F!now.text /\ run'.task = run.task
<1>1. ASSUME NEW reply, NEW c, F!Ends(reply, c) PROVE FALSE
  BY <1>1 DEF F!Ends, FileInv, Typed, F!RunStates, Decided
<1>2. ~F!Refuse /\ ~F!Killed /\ ~F!FileCallError /\ \A c : ~F!Answer(c)
  BY <1>1 DEF F!Refuse, F!Stops, F!Killed, F!FileCallError, F!CallFails, F!Answer
<1>3. ASSUME NEW place, NEW a, NEW r, NEW c, F!Step(place, a, r, c)
      PROVE run'.at = place /\ run'.read = r /\ actual' = a /\ run'.task = run.task
            /\ run'.disturbed = run.disturbed
  BY <1>3 DEF F!Step, FileInv, Typed, F!RunStates
<1>4. "attributes" \notin Decided
  BY DEF Decided
<1>5. CASE F!Guard
  <2>1. PICK place, r : F!Step(place, actual, r, run.changed) /\ r.text = F!now.text
    <3>1. Busy(T) /\ ~F!Idle => F!now \in F!FileReads(T)
      BY DEF Busy
    <3>2. F!now \in F!FileReads(T)
      BY <1>5, <3>1 DEF F!Guard, F!Validate, F!Backup, F!At, F!Idle, FileInv
    <3> QED
      BY <1>2, <1>5, <3>2 DEF F!Guard, F!Validate, F!Backup, F!Goto, F!Reads, F!now, F!FileReads
  <2> QED
    BY <1>3, <1>5, <2>1 DEF F!Guard, F!Validate, F!Backup, F!At, Decided
<1>6. CASE F!AtomicWrite
  <2>1. {"file", "tmp"} \subseteq DOMAIN actual
    BY DEF FileInv, Typed, Given, Hosted
  <2>2. CASE F!Write
    BY <1>3, <2>1, <2>2 DEF F!Write, F!At, Decided
  <2>3. CASE F!Fill
    BY <1>3, <2>1, <2>3 DEF F!Fill, F!At, Decided
  <2>4. CASE F!Install
    BY <1>2, <1>3, <1>4, <2>4 DEF F!Install, F!Changes
  <2> QED
    BY <1>6, <2>2, <2>3, <2>4 DEF F!AtomicWrite
<1>7. CASE F!SetAttributes
  <2>1. PICK a, r, c : F!Step("attributes", a, r, c)
    BY <1>2, <1>7 DEF F!SetAttributes, F!Attribute, F!Done, F!Reads
  <2> QED
    BY <1>3, <1>4, <2>1
<1>8. CASE F!FileOutside(U)
  <2>1. PICK a : F!Interferes(a)
    BY <1>8 DEF F!FileOutside
  <2> QED
    BY <2>1 DEF F!Interferes, F!Idle, F!At, Decided, FileInv, Typed, F!RunStates
<1> QED
  BY <1>2, <1>5, <1>6, <1>7, <1>8

(* All steps of such a module.                                             *)
FileNext(T, Asks, Places) ==
    \/ \E task \in Asks : F!Begin(task, "apply", "read", F!Unread)
    \/ F!At("read") /\ \E x \in T : \E k \in {F!Kinds, <<>>} : F!Rewrite(x, k)
    \/ F!At("read") /\ F!Keep(F!Kinds)
    \/ \E c \in BOOLEAN : F!Answer(c)
    \/ F!Refuse \/ F!FileCallError \/ F!Killed
    \/ ~F!Idle /\ \E place \in Places \ Decided : F!Goto(place)
    \/ F!Guard \/ F!AtomicWrite \/ F!SetAttributes
    \/ \E U \in SUBSET T : F!FileOutside(U)

LEMMA FileSteps ==
    ASSUME NEW H, NEW T, NEW Asks, NEW Places, Given(H, T, Asks, Places),
           FileInv(H, T, Asks, Places), [FileNext(T, Asks, Places)]_(F!vars)
    PROVE FileInv(H, T, Asks, Places)'
<1>1. CASE UNCHANGED F!vars
  BY <1>1 DEF F!vars, FileInv, Typed, Busy, Texted, Filled, Seen, Saved, F!At, F!Idle, F!now, F!t,
    F!Checking, F!Exists, F!TextNow
<1>2. CASE \E task \in Asks : F!Begin(task, "apply", "read", F!Unread)
  BY <1>2, FileBegin
<1>3. CASE F!At("read") /\ \E x \in T : \E k \in {F!Kinds, <<>>} : F!Rewrite(x, k)
  BY <1>3, FileRewrite
<1>4. CASE F!At("read") /\ F!Keep(F!Kinds)
  BY <1>4, FileKeep
<1>5. CASE (\E c \in BOOLEAN : F!Answer(c)) \/ F!Refuse \/ F!FileCallError \/ F!Killed
  BY <1>5, FileEnds, FileGivesUp
<1>6. CASE F!Guard \/ F!AtomicWrite \/ F!SetAttributes
  BY <1>6, FileGuard, FileAtomicWrite, FileSetAttributes
<1>7. CASE \E U \in SUBSET T : F!FileOutside(U)
  BY <1>7, FileOthers
<1>8. CASE ~F!Idle /\ \E place \in Places \ Decided : F!Goto(place)
  BY <1>8, FileGoto
<1> QED
  BY <1>1, <1>2, <1>3, <1>4, <1>5, <1>6, <1>7, <1>8 DEF FileNext

(* A new text is decided on when the file is read, and otherwise kept.     *)
LEMMA FileDecides ==
    ASSUME NEW H, NEW T, NEW Asks, NEW Places, Given(H, T, Asks, Places),
           FileInv(H, T, Asks, Places), [FileNext(T, Asks, Places)]_(F!vars),
           run'.at \in Decided, ~run'.disturbed
    PROVE /\ actual'.file = actual.file /\ run'.task = run.task
          /\ \/ run.at \in Decided /\ ~run.disturbed /\ run'.read.text = F!now.text
             \/ /\ F!At("read")
                /\ \E x \in T : \E k \in {F!Kinds, <<>>} : F!Rewrite(x, k) /\ run'.read.text = x
<1>1. CASE UNCHANGED F!vars
  BY <1>1 DEF F!vars, F!now
<1>2. CASE \E task \in Asks : F!Begin(task, "apply", "read", F!Unread)
  BY <1>2 DEF F!Begin, F!Rest, Decided
<1>3. CASE F!At("read") /\ \E x \in T : \E k \in {F!Kinds, <<>>} : F!Rewrite(x, k)
  <2>1. PICK x \in T, k \in {F!Kinds, <<>>} : F!Rewrite(x, k)
    BY <1>3
  <2>2. F!now \in F!FileReads(T)
    BY <1>3 DEF FileInv, Busy, F!At, F!Idle
  <2>3. run'.read.text = x /\ actual' = actual /\ run'.task = run.task
    BY <2>1, <2>2 DEF F!Rewrite, F!Reads, F!Step, F!FileReads, FileInv, Typed, F!RunStates
  <2> QED
    BY <1>3, <2>1, <2>3
<1>4. CASE F!At("read") /\ F!Keep(F!Kinds)
  BY <1>4 DEF F!Keep, F!Reads, F!Step, FileInv, Typed, F!RunStates, Decided
<1>5. CASE (\E c \in BOOLEAN : F!Answer(c)) \/ F!Refuse
  BY <1>5 DEF F!Answer, F!Refuse, F!Stops, F!Ends, FileInv, Typed, F!RunStates, Decided
<1>6. CASE \/ F!Guard \/ F!AtomicWrite \/ F!SetAttributes \/ F!FileCallError \/ F!Killed
           \/ \E U \in SUBSET T : F!FileOutside(U)
  BY <1>6, FileFrame
<1>7. CASE \E place \in Places \ Decided : F!Goto(place)
  BY <1>7 DEF F!Goto, F!Step, FileInv, Typed, F!RunStates
<1> QED
  BY <1>1, <1>2, <1>3, <1>4, <1>5, <1>6, <1>7 DEF FileNext

-----------------------------------------------------------------------------
(* The steps that the modules have from FileRuns are those of F.           *)
(* The steps of lineinfile,                                                *)
LEMMA LineIsFileRun ==
    /\ \A R, S : Line!InitRuns(R, S) <=> F!InitRuns(R, S)
    /\ \A task, m, place, r : Line!Begin(task, m, place, r) <=> F!Begin(task, m, place, r)
    /\ \A x, k : Line!Rewrite(x, k) <=> F!Rewrite(x, k)
    /\ \A k : Line!Keep(k) <=> F!Keep(k)
    /\ \A c : Line!Answer(c) <=> F!Answer(c)
    /\ Line!Refuse <=> F!Refuse
    /\ Line!Guard <=> F!Guard
    /\ Line!AtomicWrite <=> F!AtomicWrite
    /\ Line!SetAttributes <=> F!SetAttributes
    /\ Line!Attribute <=> F!Attribute
    /\ \A place : Line!Goto(place) <=> F!Goto(place)
    /\ (Line!FileCallError \/ Line!Killed) <=> (F!FileCallError \/ F!Killed)
    /\ \A U : Line!FileOutside(U) <=> F!FileOutside(U)
  BY DEF
    Line!At, F!At, Line!Idle, F!Idle, Line!Checking, F!Checking, Line!NoMemo, F!NoMemo,
    Line!Rest, F!Rest, Line!InitRuns, F!InitRuns, Line!Begin, F!Begin, Line!Step, F!Step,
    Line!Goto, F!Goto, Line!Reads, F!Reads, Line!Changes, F!Changes, Line!Ends, F!Ends,
    Line!Answer, F!Answer, Line!Stops, F!Stops, Line!Refuse, F!Refuse, Line!CallFails,
    F!CallFails, Line!Killed, F!Killed, Line!Interferes, F!Interferes, Line!Undisturbed,
    F!Undisturbed, Line!Kinds, F!Kinds, Line!Fresh, F!Fresh, Line!Unread, F!Unread,
    Line!FilePlaces, F!FilePlaces, Line!t, F!t, Line!now, F!now, Line!Exists, F!Exists,
    Line!TextNow, F!TextNow, Line!Rewrite, F!Rewrite, Line!Keep, F!Keep, Line!Validate,
    F!Validate, Line!Backup, F!Backup, Line!Write, F!Write, Line!Fill, F!Fill, Line!Install,
    F!Install, Line!Attribute, F!Attribute, Line!Done, F!Done, Line!Guard, F!Guard,
    Line!AtomicWrite, F!AtomicWrite, Line!SetAttributes, F!SetAttributes, Line!FileCallError,
    F!FileCallError, Line!FileOutside, F!FileOutside

(* of blockinfile,                                                         *)
LEMMA BlockIsFileRun ==
    /\ \A R, S : Block!InitRuns(R, S) <=> F!InitRuns(R, S)
    /\ \A task, m, place, r : Block!Begin(task, m, place, r) <=> F!Begin(task, m, place, r)
    /\ \A x, k : Block!Rewrite(x, k) <=> F!Rewrite(x, k)
    /\ \A k : Block!Keep(k) <=> F!Keep(k)
    /\ \A c : Block!Answer(c) <=> F!Answer(c)
    /\ Block!Refuse <=> F!Refuse
    /\ Block!Guard <=> F!Guard
    /\ Block!AtomicWrite <=> F!AtomicWrite
    /\ Block!SetAttributes <=> F!SetAttributes
    /\ Block!Attribute <=> F!Attribute
    /\ \A place : Block!Goto(place) <=> F!Goto(place)
    /\ (Block!FileCallError \/ Block!Killed) <=> (F!FileCallError \/ F!Killed)
    /\ \A U : Block!FileOutside(U) <=> F!FileOutside(U)
  BY DEF
    Block!At, F!At, Block!Idle, F!Idle, Block!Checking, F!Checking, Block!NoMemo, F!NoMemo,
    Block!Rest, F!Rest, Block!InitRuns, F!InitRuns, Block!Begin, F!Begin, Block!Step, F!Step,
    Block!Goto, F!Goto, Block!Reads, F!Reads, Block!Changes, F!Changes, Block!Ends, F!Ends,
    Block!Answer, F!Answer, Block!Stops, F!Stops, Block!Refuse, F!Refuse, Block!CallFails,
    F!CallFails, Block!Killed, F!Killed, Block!Interferes, F!Interferes, Block!Undisturbed,
    F!Undisturbed, Block!Kinds, F!Kinds, Block!Fresh, F!Fresh, Block!Unread, F!Unread,
    Block!FilePlaces, F!FilePlaces, Block!t, F!t, Block!now, F!now, Block!Exists, F!Exists,
    Block!TextNow, F!TextNow, Block!Rewrite, F!Rewrite, Block!Keep, F!Keep, Block!Validate,
    F!Validate, Block!Backup, F!Backup, Block!Write, F!Write, Block!Fill, F!Fill, Block!Install,
    F!Install, Block!Attribute, F!Attribute, Block!Done, F!Done, Block!Guard, F!Guard,
    Block!AtomicWrite, F!AtomicWrite, Block!SetAttributes, F!SetAttributes, Block!FileCallError,
    F!FileCallError, Block!FileOutside, F!FileOutside

(* of replace,                                                             *)
LEMMA ReplaceIsFileRun ==
    /\ \A R, S : Replace!InitRuns(R, S) <=> F!InitRuns(R, S)
    /\ \A task, m, place, r : Replace!Begin(task, m, place, r) <=> F!Begin(task, m, place, r)
    /\ \A x, k : Replace!Rewrite(x, k) <=> F!Rewrite(x, k)
    /\ \A k : Replace!Keep(k) <=> F!Keep(k)
    /\ \A c : Replace!Answer(c) <=> F!Answer(c)
    /\ Replace!Refuse <=> F!Refuse
    /\ Replace!Guard <=> F!Guard
    /\ Replace!AtomicWrite <=> F!AtomicWrite
    /\ Replace!SetAttributes <=> F!SetAttributes
    /\ Replace!Attribute <=> F!Attribute
    /\ \A place : Replace!Goto(place) <=> F!Goto(place)
    /\ (Replace!FileCallError \/ Replace!Killed) <=> (F!FileCallError \/ F!Killed)
    /\ \A U : Replace!FileOutside(U) <=> F!FileOutside(U)
  BY DEF
    Replace!At, F!At, Replace!Idle, F!Idle, Replace!Checking, F!Checking, Replace!NoMemo,
    F!NoMemo, Replace!Rest, F!Rest, Replace!InitRuns, F!InitRuns, Replace!Begin, F!Begin,
    Replace!Step, F!Step, Replace!Goto, F!Goto, Replace!Reads, F!Reads, Replace!Changes,
    F!Changes, Replace!Ends, F!Ends, Replace!Answer, F!Answer, Replace!Stops, F!Stops,
    Replace!Refuse, F!Refuse, Replace!CallFails, F!CallFails, Replace!Killed, F!Killed,
    Replace!Interferes, F!Interferes, Replace!Undisturbed, F!Undisturbed, Replace!Kinds, F!Kinds,
    Replace!Fresh, F!Fresh, Replace!Unread, F!Unread, Replace!FilePlaces, F!FilePlaces,
    Replace!t, F!t, Replace!now, F!now, Replace!Exists, F!Exists, Replace!TextNow, F!TextNow,
    Replace!Rewrite, F!Rewrite, Replace!Keep, F!Keep, Replace!Validate, F!Validate,
    Replace!Backup, F!Backup, Replace!Write, F!Write, Replace!Fill, F!Fill, Replace!Install,
    F!Install, Replace!Attribute, F!Attribute, Replace!Done, F!Done, Replace!Guard, F!Guard,
    Replace!AtomicWrite, F!AtomicWrite, Replace!SetAttributes, F!SetAttributes,
    Replace!FileCallError, F!FileCallError, Replace!FileOutside, F!FileOutside

(* and of template.                                                        *)
LEMMA TemplateIsFileRun ==
    /\ \A R, S : Template!InitRuns(R, S) <=> F!InitRuns(R, S)
    /\ \A task, m, place, r : Template!Begin(task, m, place, r) <=> F!Begin(task, m, place, r)
    /\ \A x, k : Template!Rewrite(x, k) <=> F!Rewrite(x, k)
    /\ \A k : Template!Keep(k) <=> F!Keep(k)
    /\ \A c : Template!Answer(c) <=> F!Answer(c)
    /\ Template!Refuse <=> F!Refuse
    /\ Template!Guard <=> F!Guard
    /\ Template!AtomicWrite <=> F!AtomicWrite
    /\ Template!SetAttributes <=> F!SetAttributes
    /\ Template!Attribute <=> F!Attribute
    /\ \A place : Template!Goto(place) <=> F!Goto(place)
    /\ (Template!FileCallError \/ Template!Killed) <=> (F!FileCallError \/ F!Killed)
    /\ \A U : Template!FileOutside(U) <=> F!FileOutside(U)
  BY DEF
    Template!At, F!At, Template!Idle, F!Idle, Template!Checking, F!Checking, Template!NoMemo,
    F!NoMemo, Template!Rest, F!Rest, Template!InitRuns, F!InitRuns, Template!Begin, F!Begin,
    Template!Step, F!Step, Template!Goto, F!Goto, Template!Reads, F!Reads, Template!Changes,
    F!Changes, Template!Ends, F!Ends, Template!Answer, F!Answer, Template!Stops, F!Stops,
    Template!Refuse, F!Refuse, Template!CallFails, F!CallFails, Template!Killed, F!Killed,
    Template!Interferes, F!Interferes, Template!Undisturbed, F!Undisturbed, Template!Kinds,
    F!Kinds, Template!Fresh, F!Fresh, Template!Unread, F!Unread, Template!FilePlaces,
    F!FilePlaces, Template!t, F!t, Template!now, F!now, Template!Exists, F!Exists,
    Template!TextNow, F!TextNow, Template!Rewrite, F!Rewrite, Template!Keep, F!Keep,
    Template!Validate, F!Validate, Template!Backup, F!Backup, Template!Write, F!Write,
    Template!Fill, F!Fill, Template!Install, F!Install, Template!Attribute, F!Attribute,
    Template!Done, F!Done, Template!Guard, F!Guard, Template!AtomicWrite, F!AtomicWrite,
    Template!SetAttributes, F!SetAttributes, Template!FileCallError, F!FileCallError,
    Template!FileOutside, F!FileOutside

-----------------------------------------------------------------------------
(* lineinfile.                                                             *)

(* The new text of a file, until it is installed, is the text of the file  *)
(* with the change that was found necessary.                               *)
LineEdited ==
    run.at \in Decided /\ ~run.disturbed /\ F!Exists /\ run.task.state = "present" =>
        run.read.text = Line!Present(F!TextNow) /\ run.read.text # F!TextNow
LineHosts == F!Hosts(Seq(Lines))
LineInv == FileInv(LineHosts, Seq(Lines), LineTasks, F!FilePlaces) /\ LineEdited

LEMMA LineGiven == Given(LineHosts, Seq(Lines), LineTasks, F!FilePlaces)
<1>1. Hosted(LineHosts, Seq(Lines))
  BY DEF Hosted, LineHosts, F!Hosts
<1>2. \A task \in LineTasks : task.asked \in F!Askable
  BY FileAssumption DEF Line!TaskAssumption, Line!Requests, Line!Askable, F!Askable
<1> QED
  BY <1>1, <1>2, FileAssumption DEF Given, F!FilePlaces

(* The match that is looked for is a position of the text, or there is none. *)
LEMMA LineFound ==
    ASSUME NEW S, NEW lines \in Seq(Lines)
    PROVE LET m == Line!Found(lines, S) IN
          /\ m \in 0 .. Len(lines)
          /\ m # 0 => lines[m] \in S
          /\ m = 0 => \A i \in DOMAIN lines : lines[i] \notin S
          /\ run.task.first => \A i \in 1 .. m - 1 : lines[i] \notin S
<1> DEFINE I == {i \in DOMAIN lines : lines[i] \in S}
<1>1. I \in SUBSET (1 .. Len(lines)) /\ Len(lines) \in Nat
  OBVIOUS
<1>2. Line!Min(I) = Min(I) /\ Line!Max(I) = Max(I)
  BY DEF Line!Min, Min, Line!Max, Max
<1>3. CASE I = {}
  BY <1>3 DEF Line!Found
<1>4. CASE I # {}
  <2>1. /\ Min(I) \in I /\ \A i \in I : Min(I) <= i
        /\ Max(I) \in I
    BY <1>1, <1>4, FirstAndLast
  <2>2. Line!Found(lines, S) = IF run.task.first THEN Min(I) ELSE Max(I)
    BY <1>2, <1>4 DEF Line!Found, Line!t
  <2> HIDE DEF I
  <2>3. Line!Found(lines, S) \in I /\ I \subseteq 1 .. Len(lines)
    BY <1>1, <2>1, <2>2
  <2>4. run.task.first => \A i \in I : Line!Found(lines, S) <= i
    BY <2>1, <2>2
  <2> USE DEF I
  <2> QED
    BY <1>1, <2>3, <2>4
<1> QED
  BY <1>3, <1>4

(* The new text is the old one with one position, or one match, replaced.  *)
LEMMA LinePresent ==
    ASSUME NEW lines \in Seq(Lines), run.task \in LineTasks, run.task.state = "present",
           Line!Present(lines) # lines
    PROVE \E i \in 0 .. Len(lines) : \E j \in {i + 1, i + 2} :
            \E new \in ({run.task.line} \union {<<l>> : l \in Lines}) \cap Seq(Lines) :
              /\ Line!Present(lines) = Line!Splice(lines, i, new, j)
              /\ new # <<>>
              /\ j = i + 2 => /\ i + 1 = Line!Matched(lines) /\ i + 1 <= Len(lines)
                              /\ lines[i + 1] \in run.task.matching
              /\ j = i + 1 => Line!Matched(lines) = 0
<1> DEFINE m == Line!Matched(lines)
<1>1. /\ m \in 0 .. Len(lines)
      /\ m # 0 => lines[m] \in run.task.matching
      /\ Len(lines) \in Nat /\ \A k \in 1 .. Len(lines) : lines[k] \in Lines
  BY LineFound DEF Line!Matched, Line!t
<1>2. /\ run.task.line \in Seq(Lines) /\ run.task.line # <<>>
      /\ Line!Backrefs(run.task) =>
           \A l \in run.task.matching : run.task.becomes[l] \in Lines
  <2>1. /\ run.task.line \in Seq(Lines) /\ run.task.line # <<>>
        /\ Line!Backrefs(run.task) => DOMAIN run.task.becomes = run.task.matching
    BY FileAssumption DEF Line!TaskAssumption, Line!Requests
  <2>2. run.task.becomes \in UNION {[S -> Lines] : S \in SUBSET Lines}
    BY FileAssumption DEF Line!TaskAssumption, Line!Requests
  <2>3. PICK S \in SUBSET Lines : run.task.becomes \in [S -> Lines]
    BY <2>2
  <2> QED
    BY <2>1, <2>3
<1> HIDE DEF m
<1>3. CASE m = 0
  <2> DEFINE i == Line!Found(lines, run.task.anchor)
             k == IF run.task.place = "top" THEN 0 ELSE IF i = 0 THEN Len(lines)
                  ELSE IF run.task.place = "before" THEN i - 1 ELSE i
  <2>1. i \in 0 .. Len(lines)
    BY LineFound
  <2>2. k \in 0 .. Len(lines)
    BY <1>1, <2>1
  <2>3. Line!Present(lines) = Line!Inserted(lines)
    BY <1>3 DEF m, Line!Present, Line!t
  <2> HIDE DEF i
  <2>4. Line!Inserted(lines) \in
          {run.task.line \o lines, lines \o run.task.line, Line!Splice(lines, k, run.task.line, k + 1)}
        /\ (run.task.place = "top" => Line!Inserted(lines) = run.task.line \o lines)
        /\ (run.task.place # "top" /\ i = 0 => Line!Inserted(lines) = lines \o run.task.line)
        /\ (run.task.place # "top" /\ i # 0 =>
              Line!Inserted(lines) = Line!Splice(lines, k, run.task.line, k + 1))
    BY <2>3 DEF i, Line!Inserted, Line!t
  <2>5. Line!Splice(lines, 0, run.task.line, 1) = run.task.line \o lines
        /\ Line!Splice(lines, Len(lines), run.task.line, Len(lines) + 1) = lines \o run.task.line
    <3>1. SubSeq(lines, 1, 0) = <<>> /\ SubSeq(lines, Len(lines) + 1, Len(lines)) = <<>>
          /\ SubSeq(lines, 1, Len(lines)) = lines
      BY <1>1
    <3>2. <<>> \o run.task.line = run.task.line
          /\ (lines \o run.task.line) \o <<>> = lines \o run.task.line
      BY <1>2
    <3>3. Line!Splice(lines, 0, run.task.line, 1) = (<<>> \o run.task.line) \o lines
          /\ Line!Splice(lines, Len(lines), run.task.line, Len(lines) + 1)
               = (lines \o run.task.line) \o <<>>
      BY <3>1 DEF Line!Splice
    <3> QED
      BY <3>2, <3>3
  <2>6. Line!Present(lines) = Line!Splice(lines, k, run.task.line, k + 1)
    <3>1. CASE run.task.place = "top"
      <4>1. k = 0 /\ k + 1 = 1
        BY <3>1
      <4> HIDE DEF k
      <4> QED
        BY <2>3, <2>4, <2>5, <3>1, <4>1
    <3>2. CASE run.task.place # "top" /\ i = 0
      BY <2>3, <2>4, <2>5, <3>2
    <3>3. CASE run.task.place # "top" /\ i # 0
      BY <2>3, <2>4, <2>5, <3>3
    <3> QED
      BY <3>1, <3>2, <3>3
  <2> HIDE DEF k
  <2> QED
    BY <1>2, <1>3, <2>2, <2>6 DEF m
<1>4. CASE m # 0
  <2> DEFINE new == IF Line!Backrefs(run.task) THEN <<run.task.becomes[lines[m]]>> ELSE run.task.line
  <2>1. Line!Present(lines) = Line!Splice(lines, m - 1, new, m + 1)
    BY <1>4 DEF m, Line!Present, Line!t
  <2>2. new \in ({run.task.line} \union {<<l>> : l \in Lines}) \cap Seq(Lines) /\ new # <<>>
    BY <1>1, <1>2, <1>4
  <2> HIDE DEF new
  <2>3. m - 1 \in 0 .. Len(lines) /\ m + 1 = (m - 1) + 2 /\ (m - 1) + 1 = m
    BY <1>1, <1>4
  <2>4. Line!Present(lines) = Line!Splice(lines, m - 1, new, (m - 1) + 2)
    BY <2>1, <2>3
  <2> QED
    BY <1>1, <2>2, <2>3, <2>4 DEF m
<1> QED
  BY <1>3, <1>4

(* What is spliced is a text.                                              *)
LEMMA LineSplice ==
    ASSUME NEW lines \in Seq(Lines), NEW i \in 0 .. Len(lines), NEW j \in {i + 1, i + 2},
           NEW new \in Seq(Lines)
    PROVE Line!Splice(lines, i, new, j) \in Seq(Lines)
  BY DEF Line!Splice

LEMMA LineTyped ==
    ASSUME NEW lines \in Seq(Lines), run.task \in LineTasks
    PROVE /\ run.task.state = "present" => Line!Present(lines) \in Seq(Lines)
          /\ Line!Absent(lines) \in Seq(Lines)
<1>1. ASSUME run.task.state = "present", Line!Present(lines) # lines
      PROVE Line!Present(lines) \in Seq(Lines)
  <2>1. PICK i \in 0 .. Len(lines) : \E j \in {i + 1, i + 2} : \E new \in Seq(Lines) :
          Line!Present(lines) = Line!Splice(lines, i, new, j)
    BY <1>1, LinePresent
  <2>2. PICK j \in {i + 1, i + 2}, new \in Seq(Lines) :
          Line!Present(lines) = Line!Splice(lines, i, new, j)
    BY <2>1
  <2> QED
    BY <2>2, LineSplice
<1>2. [i \in DOMAIN lines |-> IF Line!Unwanted(run.task, lines[i]) THEN <<>> ELSE <<lines[i]>>]
        \in Seq(Seq(Lines))
  <2>1. /\ DOMAIN lines = 1 .. Len(lines) /\ Len(lines) \in Nat
        /\ \A i \in 1 .. Len(lines) : <<lines[i]>> \in Seq(Lines)
    OBVIOUS
  <2>2. \A i \in 1 .. Len(lines) :
          (IF Line!Unwanted(run.task, lines[i]) THEN <<>> ELSE <<lines[i]>>) \in Seq(Lines)
    BY <2>1
  <2> QED
    BY <2>1, <2>2, IsASeq
<1>3. Line!Absent(lines) \in Seq(Lines)
  <2>1. Line!FlattenSeq([i \in DOMAIN lines |->
            IF Line!Unwanted(run.task, lines[i]) THEN <<>> ELSE <<lines[i]>>])
        = FlattenSeq([i \in DOMAIN lines |->
            IF Line!Unwanted(run.task, lines[i]) THEN <<>> ELSE <<lines[i]>>])
    BY DEF Line!FlattenSeq, FlattenSeq
  <2> QED
    BY <1>2, <2>1, FlattenType DEF Line!Absent, Line!t
<1> QED
  BY <1>1, <1>3

LEMMA LineInit == Line!Init => LineInv
<1> SUFFICES ASSUME Line!Init PROVE LineInv
  OBVIOUS
<1> DEFINE R == {Line!Host(Missing)} \union {Line!Host([text |-> x, attrs |-> Line!Fresh]) : x \in LineTexts}
<1>1. F!InitRuns(R, LineTasks)
  BY LineIsFileRun DEF Line!Init
<1>2. R \subseteq LineHosts
  BY FileAssumption DEF Line!Host, LineHosts, F!Hosts, F!Files, F!Attributes, Line!Fresh
<1> HIDE DEF R
<1>3. FileInv(LineHosts, Seq(Lines), LineTasks, F!FilePlaces) /\ run.at = "idle"
  BY <1>1, <1>2, FileInit
<1> QED
  BY <1>3 DEF LineInv, LineEdited, Decided

LEMMA LineSteps ==
    ASSUME LineInv, [Line!Next]_vars
    PROVE [FileNext(Seq(Lines), LineTasks, F!FilePlaces)]_(F!vars)
<1>1. /\ run.task \in LineTasks
      /\ Line!Exists => Line!TextNow \in Seq(Lines)
  BY DEF LineInv, FileInv, Typed, F!RunStates, LineHosts, F!Hosts, F!Files, Line!Exists,
    Line!TextNow
<1>2. CASE Line!Start
  BY <1>2, LineIsFileRun DEF Line!Start, Line!Unread, F!Unread, Line!Kinds, F!Kinds, FileNext
<1>3. CASE Line!ReadPresent
  <2> DEFINE lines == IF Line!Exists THEN Line!TextNow ELSE <<>>
  <2>1. F!At("read") /\ run.task.state = "present"
    BY <1>3 DEF Line!ReadPresent, Line!At, F!At, Line!t
  <2>2. lines \in Seq(Lines)
    BY <1>1
  <2>3. Line!Refuse \/ Line!Keep(Line!Kinds) \/ Line!Rewrite(Line!Present(lines), Line!Kinds)
    BY <1>3 DEF Line!ReadPresent
  <2> HIDE DEF lines
  <2>4. Line!Present(lines) \in Seq(Lines)
    BY <1>1, <2>1, <2>2, LineTyped
  <2> QED
    BY <2>1, <2>3, <2>4, LineIsFileRun DEF FileNext, Line!Kinds, F!Kinds
<1>4. CASE Line!ReadAbsent
  <2>1. F!At("read")
    BY <1>4 DEF Line!ReadAbsent, Line!At, F!At
  <2>2. Line!Answer(FALSE) \/ (Line!Exists /\ Line!Rewrite(Line!Absent(Line!TextNow), <<>>))
    BY <1>4 DEF Line!ReadAbsent
  <2>3. Line!Exists => Line!Absent(Line!TextNow) \in Seq(Lines)
    BY <1>1, LineTyped
  <2> QED
    BY <2>1, <2>2, <2>3, LineIsFileRun DEF FileNext
<1>5. CASE \/ Line!Secure \/ Line!Replace \/ Line!Adjust \/ Line!FileCallError \/ Line!Killed
           \/ Line!FileOutside(LineTexts)
  BY <1>5, LineIsFileRun, FileAssumption DEF FileNext, Line!Secure, Line!Replace, Line!Adjust
<1> QED
  BY <1>2, <1>3, <1>4, <1>5 DEF Line!Next, Line!Steps, vars, F!vars

LEMMA LineNext == LineInv /\ [Line!Next]_vars => LineInv'
<1> SUFFICES ASSUME LineInv, [Line!Next]_vars PROVE LineInv'
  OBVIOUS
<1>1. /\ FileInv(LineHosts, Seq(Lines), LineTasks, F!FilePlaces)
      /\ [FileNext(Seq(Lines), LineTasks, F!FilePlaces)]_(F!vars)
  BY LineSteps DEF LineInv
<1>2. FileInv(LineHosts, Seq(Lines), LineTasks, F!FilePlaces)'
  BY <1>1, LineGiven, FileSteps
<1>3. ASSUME run'.at \in Decided, ~run'.disturbed, F!Exists', run'.task.state = "present"
      PROVE /\ run'.read.text = Line!Present(F!TextNow)
            /\ run'.read.text # F!TextNow
            /\ actual'.file = actual.file /\ run'.task = run.task
  <2>1. /\ actual'.file = actual.file /\ run'.task = run.task
        /\ \/ run.at \in Decided /\ ~run.disturbed /\ run'.read.text = run.read.text
           \/ /\ F!At("read")
              /\ \E x \in Seq(Lines) : \E k \in {F!Kinds, <<>>} :
                   F!Rewrite(x, k) /\ run'.read.text = x
    BY <1>1, <1>3, LineGiven, FileDecides DEF F!now
  <2>2. F!Exists /\ Line!Exists /\ Line!TextNow = F!TextNow
    BY <1>3, <2>1 DEF F!Exists, Line!Exists, F!TextNow, Line!TextNow
  <2>3. CASE run.at \in Decided /\ ~run.disturbed /\ run'.read.text = run.read.text
    BY <1>3, <2>1, <2>2, <2>3 DEF LineInv, LineEdited
  <2>4. CASE F!At("read") /\ run'.at \in Decided
    <3>1. Line!ReadPresent
      <4>1. run.at = "read" /\ run'.at # "read" /\ run'.at # "idle" /\ run' # run
        BY <2>4 DEF F!At, Decided
      <4>2. ~Line!FileCallError /\ ~Line!Killed
        BY <4>1 DEF Line!FileCallError, Line!CallFails, Line!Killed, Line!Stops, Line!Ends, LineInv,
           FileInv, Typed, F!RunStates
      <4>3. ~Line!FileOutside(LineTexts)
        BY <1>3, <4>1 DEF Line!FileOutside, Line!Interferes, Line!Idle, Line!At, LineInv,
           FileInv, Typed, F!RunStates
      <4> QED
        BY <1>3, <2>1, <4>1, <4>2, <4>3
           DEF Line!Next, Line!Steps, Line!Start, Line!Begin, Line!Idle, Line!ReadAbsent,
               Line!Secure, Line!Guard, Line!Validate, Line!Backup, Line!Replace, Line!AtomicWrite,
               Line!Write, Line!Fill, Line!Install, Line!Adjust, Line!SetAttributes, Line!Attribute,
               Line!Done, Line!At, Line!t, vars
    <3>2. Line!Present(Line!TextNow) # Line!TextNow
          /\ Line!Rewrite(Line!Present(Line!TextNow), Line!Kinds)
      <4>1. ~Line!Refuse /\ ~Line!Keep(Line!Kinds)
        BY <2>4 DEF Line!Refuse, Line!Stops, Line!Ends, Line!Keep, Line!Reads, Line!Step, Decided,
           LineInv, FileInv, Typed, F!RunStates
      <4> QED
        BY <2>2, <3>1, <4>1 DEF Line!ReadPresent
    <3>3. run.read \in F!FileReads(Seq(Lines))
      BY <1>1, <2>4 DEF FileInv, Busy, F!At, F!Idle, F!now
    <3>4. run'.read.text = Line!Present(Line!TextNow)
      BY <3>2, <3>3 DEF Line!Rewrite, Line!Reads, Line!Step, Line!now, F!FileReads, LineInv,
        FileInv, Typed, F!RunStates
    <3> QED
      BY <2>1, <2>2, <3>2, <3>4
  <2> QED
    BY <1>3, <2>1, <2>3, <2>4
<1> QED
  BY <1>2, <1>3 DEF LineInv, LineEdited, F!Exists, F!TextNow, Line!Present, Line!Matched,
    Line!Found, Line!Inserted, Line!Backrefs, Line!t

(* What a run of lineinfile does to a file is what it is meant to do.      *)
LEMMA LineSafe ==
    LineInv => /\ Line!TypeOK /\ Line!NeverTorn /\ Line!BackedUp
               /\ Line!ChangesOneLine /\ Line!ReplacesFirst
<1> SUFFICES ASSUME LineInv
             PROVE /\ Line!TypeOK /\ Line!NeverTorn /\ Line!BackedUp
                   /\ Line!ChangesOneLine /\ Line!ReplacesFirst
  OBVIOUS
<1>1. Line!TypeOK
  BY DEF LineInv, FileInv, Typed, LineHosts, Line!TypeOK, Line!Hosts, F!Hosts, Line!Files, F!Files,
         Line!Attributes, F!Attributes, Line!FileReads, F!FileReads, Line!Kinds, F!Kinds, Line!Memos,
         F!Memos, Line!Forecasts, F!Forecasts, Line!RunStates, F!RunStates, Line!Replies, F!Replies,
         Line!FilePlaces, F!FilePlaces, Line!Checking, F!Checking
<1>2. Line!NeverTorn /\ Line!BackedUp
  BY LineGiven, FileIsWhole
     DEF LineInv, Line!NeverTorn, Line!BackedUp, F!NeverTorn, F!BackedUp, Line!At, F!At,
         Line!Exists, F!Exists, Line!TextNow, F!TextNow, Line!now, F!now, Line!t, F!t
<1>3. ASSUME Line!At("install"), ~run.disturbed, Line!Exists, run.task.state = "present"
      PROVE /\ run.task \in LineTasks /\ Line!TextNow \in Seq(Lines)
            /\ run.read.text = Line!Present(Line!TextNow)
            /\ Line!Present(Line!TextNow) # Line!TextNow
  BY <1>3 DEF LineInv, LineEdited, FileInv, Typed, F!RunStates, LineHosts, F!Hosts, F!Files,
         Decided, Line!At, Line!Exists, Line!TextNow, F!Exists, F!TextNow
<1>4. Line!ChangesOneLine
  <2> SUFFICES ASSUME Line!At("install"), ~run.disturbed, Line!Exists, run.task.state = "present"
               PROVE \E i \in 0 .. Len(Line!TextNow) : \E j \in {i + 1, i + 2} :
                  /\ \E new \in {run.task.line} \union {<<l>> : l \in Lines} :
                       run.read.text = Line!Splice(Line!TextNow, i, new, j)
                  /\ j = i + 2 => i + 1 <= Len(Line!TextNow) /\ Line!TextNow[i + 1] \in run.task.matching
    BY DEF Line!ChangesOneLine, Line!t, Line!now
  <2> QED
    BY <1>3, LinePresent
<1>5. Line!ReplacesFirst
  <2> SUFFICES ASSUME Line!At("install"), ~run.disturbed, Line!Exists, run.task.state = "present",
                      run.task.first, NEW i \in DOMAIN Line!TextNow,
                      Line!TextNow[i] \in run.task.matching,
                      \A k \in 1 .. i - 1 : Line!TextNow[k] \notin run.task.matching
               PROVE run.read.text[i] # Line!TextNow[i] \/ Len(run.read.text) > Len(Line!TextNow)
    BY DEF Line!ReplacesFirst, Line!t, Line!now
  <2> DEFINE lines == Line!TextNow
             m == Line!Matched(lines)
  <2>1. /\ lines \in Seq(Lines) /\ run.task \in LineTasks
        /\ run.read.text = Line!Present(lines) /\ Line!Present(lines) # lines
    BY <1>3
  <2> HIDE DEF lines
  <2>2. m = i
    <3>1. /\ m \in 0 .. Len(lines)
          /\ m # 0 => lines[m] \in run.task.matching
          /\ m = 0 => \A k \in DOMAIN lines : lines[k] \notin run.task.matching
          /\ \A k \in 1 .. m - 1 : lines[k] \notin run.task.matching
      BY <2>1, LineFound DEF Line!Matched, Line!t
    <3>2. i \in 1 .. Len(lines) /\ lines[i] \in run.task.matching
          /\ \A k \in 1 .. i - 1 : lines[k] \notin run.task.matching
      BY <2>1 DEF lines
    <3> HIDE DEF m
    <3>3. m # 0
      BY <2>1, <3>1, <3>2
    <3> QED
      BY <3>1, <3>2, <3>3
  <2>3. PICK new \in Seq(Lines) : new # <<>> /\ Line!Present(lines) = Line!Splice(lines, i - 1, new, i + 1)
    <3>1. PICK p \in 0 .. Len(lines) : \E j \in {p + 1, p + 2} : \E new \in Seq(Lines) :
              /\ Line!Present(lines) = Line!Splice(lines, p, new, j) /\ new # <<>>
              /\ j = p + 2 => p + 1 = m
              /\ j = p + 1 => m = 0
      BY <2>1, LinePresent
    <3>2. PICK j \in {p + 1, p + 2}, new \in Seq(Lines) :
              /\ Line!Present(lines) = Line!Splice(lines, p, new, j) /\ new # <<>>
              /\ j = p + 2 => p + 1 = m
              /\ j = p + 1 => m = 0
      BY <3>1
    <3>3. i \in 1 .. Len(lines)
      BY <2>1 DEF lines
    <3> HIDE DEF m
    <3>4. p = i - 1 /\ j = i + 1
      BY <2>2, <3>2, <3>3
    <3> QED
      BY <3>2, <3>4
  <2>4. SUFFICES ASSUME Line!Present(lines)[i] = lines[i], ~(Len(Line!Present(lines)) > Len(lines))
                 PROVE FALSE
    BY <2>1 DEF lines
  <2>5. i \in 1 .. Len(lines) /\ Len(lines) \in Nat /\ Len(new) \in Nat \ {0}
    BY <2>1, <2>3 DEF lines
  <2> DEFINE front == SubSeq(lines, 1, i - 1)
             back == SubSeq(lines, i + 1, Len(lines))
  <2>6. /\ front \in Seq(Lines) /\ Len(front) = i - 1 /\ \A k \in 1 .. i - 1 : front[k] = lines[k]
        /\ back \in Seq(Lines) /\ Len(back) = Len(lines) - i
        /\ \A k \in 1 .. Len(lines) - i : back[k] = lines[k + i]
    BY <2>1, <2>5
  <2>7. Line!Present(lines) = front \o new \o back
    BY <2>3 DEF Line!Splice
  <2> HIDE DEF front, back
  <2> DEFINE all3 == front \o new \o back
  <2>8. /\ all3 \in Seq(Lines) /\ Len(all3) = (i - 1) + Len(new) + (Len(lines) - i)
        /\ \A k \in 1 .. i - 1 : all3[k] = front[k]
        /\ \A k \in 1 .. Len(new) : all3[(i - 1) + k] = new[k]
        /\ \A k \in 1 .. Len(lines) - i : all3[(i - 1) + Len(new) + k] = back[k]
    <3>1. front \in Seq(Lines) /\ new \in Seq(Lines) /\ back \in Seq(Lines)
      BY <2>3, <2>6
    <3>2. /\ all3 \in Seq(Lines) /\ Len(all3) = Len(front) + Len(new) + Len(back)
          /\ \A k \in 1 .. Len(front) : all3[k] = front[k]
          /\ \A k \in 1 .. Len(new) : all3[Len(front) + k] = new[k]
          /\ \A k \in 1 .. Len(back) : all3[Len(front) + Len(new) + k] = back[k]
      BY <3>1, Joined
    <3> HIDE DEF all3
    <3> QED
      BY <2>6, <3>2
  <2> HIDE DEF all3
  <2>9. Len(new) = 1 /\ Len(all3) = Len(lines)
    <3>1. Line!Present(lines) = all3
      BY <2>7 DEF all3
    <3>2. ~(Len(all3) > Len(lines))
      BY <2>4, <3>1
    <3>3. Len(all3) = (i - 1) + Len(new) + (Len(lines) - i)
      BY <2>8
    <3>4. ASSUME NEW x, NEW p \in Nat \ {0}, NEW l \in Nat, NEW k \in 1 .. l,
                 x = (k - 1) + p + (l - k), ~(x > l)
          PROVE p = 1 /\ x = l
      BY <3>4
    <3> QED
      BY <2>5, <3>2, <3>3, <3>4
  <2>10. \A k \in 1 .. Len(lines) : all3[k] = lines[k]
    <3>1. all3[i] = lines[i]
      BY <2>4, <2>7 DEF all3
    <3>2. \A k \in 1 .. i - 1 : all3[k] = lines[k]
      BY <2>6, <2>8
    <3>3. \A k \in i + 1 .. Len(lines) : all3[k] = lines[k]
      <4> TAKE k \in i + 1 .. Len(lines)
      <4>1. k - i \in 1 .. Len(lines) - i /\ (i - 1) + 1 + (k - i) = k /\ (k - i) + i = k
        BY <2>5
      <4>2. all3[(i - 1) + 1 + (k - i)] = back[k - i]
        BY <2>8, <2>9, <4>1
      <4>3. back[k - i] = lines[(k - i) + i]
        BY <2>6, <4>1
      <4> QED
        BY <4>1, <4>2, <4>3
    <3> QED
      BY <2>5, <3>1, <3>2, <3>3
  <2>12. all3 = lines
    BY <2>1, <2>8, <2>9, <2>10
  <2> QED
    BY <2>1, <2>7, <2>12 DEF all3
<1> QED
  BY <1>1, <1>2, <1>4, <1>5

-----------------------------------------------------------------------------
(* replace.                                                                *)

ReplaceEdited ==
    run.at \in Decided /\ ~run.disturbed /\ F!Exists =>
        run.read.text = Replace!NewText(F!TextNow) /\ run.read.text # F!TextNow
WordHosts == F!Hosts(Seq(Words))
ReplaceInv == FileInv(WordHosts, Seq(Words), ReplaceTasks, F!FilePlaces) /\ ReplaceEdited

LEMMA ReplaceGiven == Given(WordHosts, Seq(Words), ReplaceTasks, F!FilePlaces)
<1>1. Hosted(WordHosts, Seq(Words))
  BY DEF Hosted, WordHosts, F!Hosts
<1>2. \A task \in ReplaceTasks : task.asked \in F!Askable
  BY FileAssumption DEF Replace!TaskAssumption, Replace!Requests, Replace!Askable, F!Askable
<1> QED
  BY <1>1, <1>2, FileAssumption DEF Given, F!FilePlaces

(* The section begins behind the first match of after, and ends before the *)
(* first match of before that follows.                                     *)
LEMMA ReplaceFirstIn ==
    ASSUME NEW S, NEW text \in Seq(Words), NEW from \in Nat \ {0}
    PROVE Replace!FirstIn(text, S, from) \in {0} \union (from .. Len(text))
<1> DEFINE I == {i \in DOMAIN text : i >= from /\ text[i] \in S}
<1>1. I \in SUBSET (1 .. Len(text)) /\ Len(text) \in Nat /\ I \subseteq from .. Len(text)
  OBVIOUS
<1>2. Replace!Min(I) = Min(I)
  BY DEF Replace!Min, Min
<1>3. I # {} => Min(I) \in I
  BY <1>1, FirstAndLast
<1> HIDE DEF I
<1>4. Replace!FirstIn(text, S, from) = IF I = {} THEN 0 ELSE Replace!Min(I)
  BY DEF I, Replace!FirstIn
<1> QED
  BY <1>1, <1>2, <1>3, <1>4

LEMMA ReplaceSection ==
    ASSUME NEW text \in Seq(Words), Replace!Section(text).found
    PROVE LET f == IF run.task.after = {} THEN 0 ELSE Replace!FirstIn(text, run.task.after, 1)
              a == IF Replace!Grouped(run.task) THEN f - 1 ELSE f
              b == IF Replace!Grouped(run.task) THEN f + 1
                   ELSE IF run.task.before = {} THEN Len(text) + 1
                   ELSE Replace!FirstIn(text, run.task.before, f + 1)
          IN /\ a \in 0 .. Len(text) /\ b \in a + 1 .. Len(text) + 1
             /\ Replace!Section(text).first = a + 1 /\ Replace!Section(text).last = b - 1
<1> DEFINE f == IF run.task.after = {} THEN 0 ELSE Replace!FirstIn(text, run.task.after, 1)
           e == IF run.task.before = {} THEN Len(text) + 1
                ELSE Replace!FirstIn(text, run.task.before, f + 1)
           a == IF Replace!Grouped(run.task) THEN f - 1 ELSE f
           b == IF Replace!Grouped(run.task) THEN f + 1 ELSE e
<1>1. Replace!Section(text)
        = [found |-> (run.task.after = {} \/ f # 0) /\ e # 0,
           first |-> IF Replace!Grouped(run.task) THEN f ELSE f + 1,
           last |-> IF Replace!Grouped(run.task) THEN f ELSE e - 1]
  BY DEF Replace!Section, Replace!t
<1>2. f \in 0 .. Len(text) /\ Len(text) \in Nat
  BY ReplaceFirstIn
<1>3. (run.task.after = {} \/ f # 0) /\ e # 0
  <2>1. Replace!Section(text).found => (run.task.after = {} \/ f # 0) /\ e # 0
    BY DEF Replace!Section, Replace!t
  <2> QED
    BY <2>1
<1>4. Replace!Grouped(run.task) => f # 0
  BY <1>3 DEF Replace!Grouped, Replace!Joined
<1> HIDE DEF f
<1>5. e \in {0} \union (f + 1 .. Len(text) + 1)
  BY <1>2, ReplaceFirstIn
<1> HIDE DEF e
<1>6. /\ Replace!Section(text).first = IF Replace!Grouped(run.task) THEN f ELSE f + 1
      /\ Replace!Section(text).last = IF Replace!Grouped(run.task) THEN f ELSE e - 1
  BY <1>1
<1>7. a \in 0 .. Len(text) /\ b \in a + 1 .. Len(text) + 1
  BY <1>2, <1>3, <1>4, <1>5
<1>8. Replace!Section(text).first = a + 1 /\ Replace!Section(text).last = b - 1
  BY <1>2, <1>4, <1>5, <1>6
<1> QED
  BY <1>7, <1>8 DEF a, b, e, f

LEMMA ReplacedWords ==
    ASSUME NEW words \in Seq(Words), run.task \in ReplaceTasks
    PROVE Replace!Replaced(words) \in Seq(Words)
<1> DEFINE lists == [i \in DOMAIN words |->
              IF words[i] \in run.task.matching THEN run.task.becomes[words[i]] ELSE <<words[i]>>]
<1>1. run.task.becomes \in [Words -> Seq(Words)]
  BY FileAssumption DEF Replace!TaskAssumption, Replace!Requests
<1>2. lists \in Seq(Seq(Words))
  <2>1. /\ DOMAIN words = 1 .. Len(words) /\ Len(words) \in Nat
        /\ \A i \in 1 .. Len(words) : words[i] \in Words /\ <<words[i]>> \in Seq(Words)
    OBVIOUS
  <2>2. \A i \in 1 .. Len(words) :
          (IF words[i] \in run.task.matching THEN run.task.becomes[words[i]] ELSE <<words[i]>>)
             \in Seq(Words)
    BY <1>1, <2>1
  <2> QED
    BY <2>1, <2>2, IsASeq
<1> HIDE DEF lists
<1>3. Replace!FlattenSeq(lists) = FlattenSeq(lists)
  BY DEF Replace!FlattenSeq, FlattenSeq
<1>4. Replace!Replaced(words) = Replace!FlattenSeq(lists)
  BY DEF lists, Replace!Replaced, Replace!t
<1> QED
  BY <1>2, <1>3, <1>4, FlattenType

LEMMA ReplaceNewText ==
    ASSUME NEW text \in Seq(Words), run.task \in ReplaceTasks
    PROVE /\ Replace!NewText(text) \in Seq(Words)
          /\ Replace!NewText(text) # text =>
               LET f == IF run.task.after = {} THEN 0 ELSE Replace!FirstIn(text, run.task.after, 1)
                   a == IF Replace!Grouped(run.task) THEN f - 1 ELSE f
                   b == IF Replace!Grouped(run.task) THEN f + 1
                        ELSE IF run.task.before = {} THEN Len(text) + 1
                        ELSE Replace!FirstIn(text, run.task.before, f + 1)
                   new == Replace!NewText(text)
               IN /\ SubSeq(new, 1, a) = SubSeq(text, 1, a)
                  /\ Len(new) >= a + Len(text) + 1 - b
                  /\ SubSeq(new, Len(new) - Len(text) + b, Len(new)) = SubSeq(text, b, Len(text))
<1>1. CASE ~Replace!Section(text).found
  BY <1>1 DEF Replace!NewText
<1>2. CASE Replace!Section(text).found
  <2> DEFINE f == IF run.task.after = {} THEN 0 ELSE Replace!FirstIn(text, run.task.after, 1)
             a == IF Replace!Grouped(run.task) THEN f - 1 ELSE f
             b == IF Replace!Grouped(run.task) THEN f + 1
                  ELSE IF run.task.before = {} THEN Len(text) + 1
                  ELSE Replace!FirstIn(text, run.task.before, f + 1)
             front == SubSeq(text, 1, a)
             middle == Replace!Replaced(SubSeq(text, a + 1, b - 1))
             back == SubSeq(text, b, Len(text))
             new == Replace!NewText(text)
  <2>1. /\ a \in 0 .. Len(text) /\ b \in a + 1 .. Len(text) + 1
        /\ Replace!Section(text).first = a + 1 /\ Replace!Section(text).last = b - 1
    BY <1>2, ReplaceSection
  <2> HIDE DEF a, b
  <2>2. Len(text) \in Nat /\ a + 1 - 1 = a /\ b - 1 + 1 = b
    BY <2>1
  <2>3. new = front \o middle \o back
    <3> DEFINE s == Replace!Section(text)
    <3>1. s.first - 1 = a /\ s.last + 1 = b /\ s.first = a + 1 /\ s.last = b - 1 /\ s.found
      BY <1>2, <2>1, <2>2
    <3>2. new = SubSeq(text, 1, s.first - 1) \o Replace!Replaced(SubSeq(text, s.first, s.last))
                  \o SubSeq(text, s.last + 1, Len(text))
      BY <1>2 DEF Replace!NewText
    <3> HIDE DEF s, new
    <3> QED
      BY <3>1, <3>2
  <2>4. /\ front \in Seq(Words) /\ Len(front) = a
        /\ back \in Seq(Words) /\ Len(back) = Len(text) + 1 - b
    BY <2>1, <2>2
  <2>5. SubSeq(text, a + 1, b - 1) \in Seq(Words)
    BY <2>1, <2>2
  <2>6. middle \in Seq(Words)
    BY <2>5, ReplacedWords
  <2> HIDE DEF front, middle, back, new
  <2>7. Len(middle) \in Nat
    BY <2>6
  <2>8. /\ new \in Seq(Words) /\ Len(new) = a + Len(middle) + (Len(text) + 1 - b)
        /\ SubSeq(new, 1, a) = front
        /\ SubSeq(new, a + Len(middle) + 1, Len(new)) = back
    <3>1. /\ new \in Seq(Words) /\ Len(new) = Len(front) + Len(middle) + Len(back)
          /\ SubSeq(new, 1, Len(front)) = front
          /\ SubSeq(new, Len(front) + Len(middle) + 1, Len(new)) = back
      <4>0. front \in Seq(Words) /\ middle \in Seq(Words) /\ back \in Seq(Words)
        BY <2>4, <2>6
      <4> DEFINE d == front \o middle \o back
      <4>1. d \in Seq(Words) /\ Len(d) = Len(front) + Len(middle) + Len(back)
        BY <4>0, Joined
      <4>2. /\ SubSeq(d, 1, Len(front)) = front
            /\ SubSeq(d, Len(front) + Len(middle) + 1, Len(d)) = back
        BY <4>0, JoinedEnds
      <4> HIDE DEF d
      <4>3. new = d
        BY <2>3 DEF d
      <4> QED
        BY <4>1, <4>2, <4>3
    <3> QED
      BY <2>4, <3>1
  <2>9. Len(new) >= a + Len(text) + 1 - b /\ Len(new) - Len(text) + b = a + Len(middle) + 1
    <3>1. Len(new) = a + Len(middle) + (Len(text) + 1 - b)
      BY <2>8
    <3> QED
      BY <2>1, <2>2, <2>7, <3>1
  <2> QED
    BY <2>8, <2>9 DEF a, b, f, front, back, new
<1> QED
  BY <1>1, <1>2

LEMMA ReplaceInit == Replace!Init => ReplaceInv
<1> SUFFICES ASSUME Replace!Init PROVE ReplaceInv
  OBVIOUS
<1> DEFINE R == {Replace!Host(Missing)}
                  \union {Replace!Host([text |-> x, attrs |-> Replace!Fresh]) : x \in ReplaceTexts}
<1>1. F!InitRuns(R, ReplaceTasks)
  BY ReplaceIsFileRun DEF Replace!Init
<1>2. R \subseteq WordHosts
  BY FileAssumption DEF Replace!Host, WordHosts, F!Hosts, F!Files, F!Attributes, Replace!Fresh
<1> HIDE DEF R
<1>3. FileInv(WordHosts, Seq(Words), ReplaceTasks, F!FilePlaces) /\ run.at = "idle"
  BY <1>1, <1>2, FileInit
<1> QED
  BY <1>3 DEF ReplaceInv, ReplaceEdited, Decided

LEMMA ReplaceSteps ==
    ASSUME ReplaceInv, [Replace!Next]_vars
    PROVE [FileNext(Seq(Words), ReplaceTasks, F!FilePlaces)]_(F!vars)
<1>1. /\ run.task \in ReplaceTasks
      /\ Replace!Exists => Replace!TextNow \in Seq(Words)
  BY DEF ReplaceInv, FileInv, Typed, F!RunStates, WordHosts, F!Hosts, F!Files, Replace!Exists,
     Replace!TextNow
<1>2. CASE Replace!Start
  BY <1>2, ReplaceIsFileRun
     DEF Replace!Start, Replace!Unread, F!Unread, Replace!Kinds, F!Kinds, FileNext
<1>3. CASE Replace!Read
  <2>1. F!At("read")
    BY <1>3 DEF Replace!Read, Replace!At, F!At
  <2>2. \/ Replace!Refuse \/ Replace!Stops("failed") \/ Replace!Keep(Replace!Kinds)
        \/ Replace!Exists /\ Replace!Rewrite(Replace!NewText(Replace!TextNow), Replace!Kinds)
    BY <1>3 DEF Replace!Read
  <2>3. Replace!Exists => Replace!NewText(Replace!TextNow) \in Seq(Words)
    BY <1>1, ReplaceNewText
  <2>4. Replace!Stops("failed") => F!FileCallError
    <3>1. "read" \in Replace!FilePlaces \ {"validate"} /\ "read" \in F!FilePlaces \ {"validate"}
      BY DEF Replace!FilePlaces, F!FilePlaces
    <3>2. Replace!Stops("failed") => F!Stops("failed")
      BY DEF Replace!Stops, F!Stops, Replace!Ends, F!Ends
    <3> QED
      BY <2>1, <3>1, <3>2 DEF F!FileCallError, F!CallFails, F!At
  <2> QED
    BY <2>1, <2>2, <2>3, <2>4, ReplaceIsFileRun DEF FileNext, Replace!Kinds, F!Kinds
<1>4. CASE \/ Replace!Secure \/ Replace!Replace \/ Replace!Adjust \/ Replace!FileCallError
           \/ Replace!Killed \/ Replace!FileOutside(ReplaceTexts)
  BY <1>4, ReplaceIsFileRun, FileAssumption
     DEF FileNext, Replace!Secure, Replace!Replace, Replace!Adjust
<1> QED
  BY <1>2, <1>3, <1>4 DEF Replace!Next, Replace!Steps, vars, F!vars

(* The new text depends on the task alone.                                 *)
LEMMA ReplaceSame ==
    ASSUME run'.task = run.task, NEW text
    PROVE Replace!NewText(text)' = Replace!NewText(text)
<1>1. ASSUME NEW words PROVE Replace!Replaced(words)' = Replace!Replaced(words)
  <2>1. [i \in DOMAIN words |->
            IF words[i] \in run'.task.matching THEN run'.task.becomes[words[i]] ELSE <<words[i]>>]
        = [i \in DOMAIN words |->
            IF words[i] \in run.task.matching THEN run.task.becomes[words[i]] ELSE <<words[i]>>]
    OBVIOUS
  <2> QED
    BY <2>1 DEF Replace!Replaced, Replace!t
<1>2. Replace!Section(text)' = Replace!Section(text)
  BY DEF Replace!Section, Replace!FirstIn, Replace!Grouped, Replace!Joined, Replace!t
<1> QED
  BY <1>1, <1>2 DEF Replace!NewText

LEMMA ReplaceNext == ReplaceInv /\ [Replace!Next]_vars => ReplaceInv'
<1> SUFFICES ASSUME ReplaceInv, [Replace!Next]_vars PROVE ReplaceInv'
  OBVIOUS
<1>1. /\ FileInv(WordHosts, Seq(Words), ReplaceTasks, F!FilePlaces)
      /\ [FileNext(Seq(Words), ReplaceTasks, F!FilePlaces)]_(F!vars)
  BY ReplaceSteps DEF ReplaceInv
<1>2. FileInv(WordHosts, Seq(Words), ReplaceTasks, F!FilePlaces)'
  BY <1>1, ReplaceGiven, FileSteps
<1>3. ASSUME run'.at \in Decided, ~run'.disturbed, F!Exists'
      PROVE /\ run'.read.text = Replace!NewText(F!TextNow)
            /\ run'.read.text # F!TextNow
            /\ actual'.file = actual.file /\ run'.task = run.task
  <2>1. /\ actual'.file = actual.file /\ run'.task = run.task
        /\ \/ run.at \in Decided /\ ~run.disturbed /\ run'.read.text = run.read.text
           \/ /\ F!At("read")
              /\ \E x \in Seq(Words) : \E k \in {F!Kinds, <<>>} :
                   F!Rewrite(x, k) /\ run'.read.text = x
    BY <1>1, <1>3, ReplaceGiven, FileDecides DEF F!now
  <2>2. F!Exists /\ Replace!Exists /\ Replace!TextNow = F!TextNow
    BY <1>3, <2>1 DEF F!Exists, Replace!Exists, F!TextNow, Replace!TextNow
  <2>3. CASE run.at \in Decided /\ ~run.disturbed /\ run'.read.text = run.read.text
    BY <1>3, <2>1, <2>2, <2>3 DEF ReplaceInv, ReplaceEdited
  <2>4. CASE F!At("read") /\ run'.at \in Decided
    <3>1. Replace!Read
      <4>1. run.at = "read" /\ run'.at # "read" /\ run'.at # "idle" /\ run' # run
        BY <2>4 DEF F!At, Decided
      <4>2. ~Replace!FileCallError /\ ~Replace!Killed
        BY <4>1 DEF Replace!FileCallError, Replace!CallFails, Replace!Killed, Replace!Stops,
           Replace!Ends, ReplaceInv, FileInv, Typed, F!RunStates
      <4>3. ~Replace!FileOutside(ReplaceTexts)
        BY <1>3, <4>1 DEF Replace!FileOutside, Replace!Interferes, Replace!Idle, Replace!At,
           ReplaceInv, FileInv, Typed, F!RunStates
      <4> QED
        BY <1>3, <2>1, <4>1, <4>2, <4>3
           DEF Replace!Next, Replace!Steps, Replace!Start, Replace!Begin, Replace!Idle,
               Replace!Secure, Replace!Guard, Replace!Validate, Replace!Backup, Replace!Replace,
               Replace!AtomicWrite, Replace!Write, Replace!Fill, Replace!Install, Replace!Adjust,
               Replace!SetAttributes, Replace!Attribute, Replace!Done, Replace!At, vars
    <3>2. Replace!NewText(Replace!TextNow) # Replace!TextNow
          /\ Replace!Rewrite(Replace!NewText(Replace!TextNow), Replace!Kinds)
      <4>1. ~Replace!Refuse /\ ~Replace!Stops("failed") /\ ~Replace!Keep(Replace!Kinds)
        BY <2>4 DEF Replace!Refuse, Replace!Stops, Replace!Ends, Replace!Keep, Replace!Reads,
           Replace!Step, Decided, ReplaceInv, FileInv, Typed, F!RunStates
      <4> QED
        BY <2>2, <3>1, <4>1 DEF Replace!Read
    <3>3. run.read \in F!FileReads(Seq(Words))
      BY <1>1, <2>4 DEF FileInv, Busy, F!At, F!Idle, F!now
    <3>4. run'.read.text = Replace!NewText(Replace!TextNow)
      BY <3>2, <3>3 DEF Replace!Rewrite, Replace!Reads, Replace!Step, Replace!now, F!FileReads,
         ReplaceInv, FileInv, Typed, F!RunStates
    <3> QED
      BY <2>1, <2>2, <3>2, <3>4
  <2> QED
    BY <1>3, <2>1, <2>3, <2>4
<1> QED
  <2>1. ASSUME run'.at \in Decided, ~run'.disturbed, F!Exists'
        PROVE Replace!NewText(F!TextNow)' = Replace!NewText(F!TextNow)
    <3>1. F!TextNow' = F!TextNow /\ run'.task = run.task
      BY <1>3, <2>1 DEF F!TextNow
    <3> QED
      BY <3>1, ReplaceSame DEF Replace!NewText, Replace!Section, Replace!FirstIn, Replace!Replaced,
        Replace!t
  <2> QED
    BY <1>2, <1>3, <2>1 DEF ReplaceInv, ReplaceEdited, F!TextNow

(* What a run of replace does to a file is what it is meant to do.         *)
LEMMA ReplaceSafe ==
    ReplaceInv => /\ Replace!TypeOK /\ Replace!NeverTorn /\ Replace!BackedUp
                  /\ Replace!KeepsOutside
<1> SUFFICES ASSUME ReplaceInv
             PROVE Replace!TypeOK /\ Replace!NeverTorn /\ Replace!BackedUp /\ Replace!KeepsOutside
  OBVIOUS
<1>1. Replace!TypeOK
  BY DEF ReplaceInv, FileInv, Typed, WordHosts, Replace!TypeOK, Replace!Hosts, F!Hosts,
         Replace!Files, F!Files, Replace!Attributes, F!Attributes, Replace!FileReads, F!FileReads,
         Replace!Kinds, F!Kinds, Replace!Memos, F!Memos, Replace!Forecasts, F!Forecasts,
         Replace!RunStates, F!RunStates, Replace!Replies, F!Replies, Replace!FilePlaces, F!FilePlaces,
         Replace!Checking, F!Checking
<1>2. Replace!NeverTorn /\ Replace!BackedUp
  BY ReplaceGiven, FileIsWhole
     DEF ReplaceInv, Replace!NeverTorn, Replace!BackedUp, F!NeverTorn, F!BackedUp, Replace!At, F!At,
         Replace!Exists, F!Exists, Replace!TextNow, F!TextNow, Replace!now, F!now, Replace!t, F!t
<1>3. Replace!KeepsOutside
  <2> SUFFICES ASSUME Replace!At("install"), ~run.disturbed, Replace!Exists
               PROVE Replace!KeepsOutside
    BY DEF Replace!KeepsOutside
  <2>1. /\ run.task \in ReplaceTasks /\ Replace!TextNow \in Seq(Words)
        /\ run.read.text = Replace!NewText(Replace!TextNow)
        /\ Replace!NewText(Replace!TextNow) # Replace!TextNow
    BY DEF ReplaceInv, ReplaceEdited, FileInv, Typed, F!RunStates, WordHosts, F!Hosts, F!Files,
       Decided, Replace!At, Replace!Exists, Replace!TextNow, F!Exists, F!TextNow
  <2> QED
    BY <2>1, ReplaceNewText DEF Replace!KeepsOutside, Replace!t, Replace!now
<1> QED
  BY <1>1, <1>2, <1>3

-----------------------------------------------------------------------------
(* blockinfile.                                                            *)

BlockHosts == F!Hosts(Block!AllTexts)
BlockInv == FileInv(BlockHosts, Block!AllTexts, BlockTasks, F!FilePlaces)

LEMMA BlockGiven == Given(BlockHosts, Block!AllTexts, BlockTasks, F!FilePlaces)
<1>1. Hosted(BlockHosts, Block!AllTexts)
  BY DEF Hosted, BlockHosts, F!Hosts
<1>2. \A task \in BlockTasks : task.asked \in F!Askable
  BY FileAssumption DEF Block!TaskAssumption, Block!Requests, Block!Askable, F!Askable
<1> QED
  BY <1>1, <1>2, FileAssumption DEF Given, F!FilePlaces

(* The first and the last of two positions.                                *)
LEMMA BlockPairs ==
    ASSUME NEW i \in Nat, NEW k \in Nat
    PROVE /\ Block!Max({i, k}) = IF i >= k THEN i ELSE k
          /\ Block!Min({i, k}) = IF i <= k THEN i ELSE k
<1>1. \E x \in {i, k} : \A y \in {i, k} : x >= y
  OBVIOUS
<1>2. \E x \in {i, k} : \A y \in {i, k} : x <= y
  OBVIOUS
<1> QED
  BY <1>1, <1>2 DEF Block!Max, Block!Min

LEMMA BlockPositions ==
    ASSUME NEW S, NEW lines \in Seq(Block!AllLines)
    PROVE Block!LastOf(lines, S) \in 0 .. Len(lines) /\ Block!FirstOf(lines, S) \in 0 .. Len(lines)
<1> DEFINE I == {i \in DOMAIN lines : lines[i] \in S}
<1>1. I \in SUBSET (1 .. Len(lines)) /\ Len(lines) \in Nat
  OBVIOUS
<1>2. Block!Min(I) = Min(I) /\ Block!Max(I) = Max(I)
  BY DEF Block!Min, Min, Block!Max, Max
<1>3. I # {} => Min(I) \in I /\ Max(I) \in I
  BY <1>1, FirstAndLast
<1> HIDE DEF I
<1>4. /\ Block!LastOf(lines, S) = IF I = {} THEN 0 ELSE Block!Max(I)
      /\ Block!FirstOf(lines, S) = IF I = {} THEN 0 ELSE Block!Min(I)
  BY DEF I, Block!LastOf, Block!FirstOf
<1>5. CASE I = {}
  BY <1>1, <1>4, <1>5
<1>6. CASE I # {}
  <2>1. Min(I) \in 1 .. Len(lines) /\ Max(I) \in 1 .. Len(lines)
    BY <1>1, <1>3, <1>6
  <2> QED
    BY <1>1, <1>2, <1>4, <1>6, <2>1
<1> QED
  BY <1>5, <1>6

(* What is left of the text without the block is a part of it, and the     *)
(* block is put within what is left.                                       *)
LEMMA BlockCut ==
    ASSUME NEW text \in Block!AllTexts, run.task \in BlockTasks
    PROVE LET c == Block!Cut(text) IN
          c.lines \in Seq(Block!AllLines) /\ c.at \in 0 .. Len(c.lines) /\ c.closed \in BOOLEAN
<1> DEFINE lines == text.lines
           m == Block!LastOf(lines, {Opening})
           e == Block!LastOf(lines, {Closing})
           from == Block!Markers(lines).from
           to == Block!Markers(lines).to
<1>1. lines \in Seq(Block!AllLines) /\ text.closed \in BOOLEAN /\ Len(lines) \in Nat
  BY DEF Block!AllTexts
<1> HIDE DEF lines
<1>2. m \in 0 .. Len(lines) /\ e \in 0 .. Len(lines)
  BY <1>1, BlockPositions
<1>3. from \in 0 .. Len(lines) /\ to \in from .. Len(lines)
  <2>1. Block!Markers(lines) = IF m = 0 \/ e = 0
          THEN [from |-> Block!Max({m, e}), to |-> Block!Max({m, e})]
          ELSE [from |-> Block!Min({m, e}), to |-> Block!Max({m, e})]
    BY DEF Block!Markers
  <2> HIDE DEF m, e
  <2>2. /\ Block!Max({m, e}) = IF m >= e THEN m ELSE e
        /\ Block!Min({m, e}) = IF m <= e THEN m ELSE e
    BY <1>1, <1>2, BlockPairs
  <2> QED
    BY <1>1, <1>2, <2>1, <2>2
<1> HIDE DEF from, to
<1>4. CASE from # 0
  <2> DEFINE rest == SubSeq(lines, 1, from - 1) \o SubSeq(lines, to + 1, Len(lines))
  <2>1. /\ Block!Cut(text).lines = rest /\ Block!Cut(text).at = from - 1
        /\ Block!Cut(text).closed = (text.closed \/ from - 1 = Len(rest))
    BY <1>4 DEF Block!Cut, from, to, lines
  <2>2. /\ SubSeq(lines, 1, from - 1) \in Seq(Block!AllLines)
        /\ Len(SubSeq(lines, 1, from - 1)) = from - 1
        /\ SubSeq(lines, to + 1, Len(lines)) \in Seq(Block!AllLines)
    BY <1>1, <1>3, <1>4
  <2>3. rest \in Seq(Block!AllLines) /\ from - 1 \in 0 .. Len(rest)
    <3> DEFINE front == SubSeq(lines, 1, from - 1)
               back == SubSeq(lines, to + 1, Len(lines))
    <3>1. front \in Seq(Block!AllLines) /\ back \in Seq(Block!AllLines) /\ Len(front) = from - 1
      BY <2>2
    <3> HIDE DEF front, back
    <3>2. /\ front \o back \in Seq(Block!AllLines) /\ Len(front \o back) = Len(front) + Len(back)
          /\ Len(back) \in Nat
      BY <3>1
    <3>3. rest = front \o back
      BY DEF front, back
    <3> HIDE DEF rest
    <3>4. rest \in Seq(Block!AllLines) /\ Len(rest) = from - 1 + Len(back)
      BY <3>1, <3>2, <3>3
    <3> QED
      BY <1>1, <1>3, <1>4, <3>2, <3>4
  <2> QED
    BY <2>1, <2>3
<1>5. CASE from = 0
  <2> DEFINE at == Block!InsertPosition(lines)
             k == IF run.task.multi THEN Block!FirstOf(lines, run.task.anchor)
                  ELSE Block!LastOf(lines, run.task.anchor)
  <2>1. /\ Block!Cut(text).lines = lines /\ Block!Cut(text).at = at
        /\ Block!Cut(text).closed = (text.closed \/ at = Len(lines))
    BY <1>5 DEF Block!Cut, from, to, lines
  <2>2. k \in 0 .. Len(lines)
    BY <1>1, BlockPositions
  <2>3. at = IF run.task.place = "top" THEN 0
             ELSE IF k = 0 THEN Len(lines)
             ELSE IF run.task.place = "after" THEN k
             ELSE IF run.task.multi THEN Block!Max({k - 2, 0}) ELSE k - 1
    BY DEF Block!InsertPosition, Block!t
  <2> HIDE DEF at, k
  <2>4. Block!Max({k - 2, 0}) \in 0 .. Len(lines)
    <3>1. \E x \in {k - 2, 0} : \A y \in {k - 2, 0} : x >= y
      BY <1>1, <2>2
    <3>2. Block!Max({k - 2, 0}) \in {k - 2, 0} /\ Block!Max({k - 2, 0}) >= 0
      BY <3>1 DEF Block!Max
    <3> QED
      BY <1>1, <2>2, <3>2
  <2>5. at \in 0 .. Len(lines)
    BY <1>1, <2>2, <2>3, <2>4
  <2> QED
    BY <1>1, <2>1, <2>5
<1> QED
  BY <1>4, <1>5

LEMMA BlockNewText ==
    ASSUME NEW text \in Block!AllTexts, run.task \in BlockTasks
    PROVE Block!NewText(text) \in Block!AllTexts
<1> DEFINE c == Block!Cut(text)
           front == SubSeq(c.lines, 1, c.at)
           back == SubSeq(c.lines, c.at + 1, Len(c.lines))
           before == Block!Before(c.lines, c.at)
           after == Block!After(c.lines, c.at)
           lines == front \o before \o Block!BlockLines \o after \o back
<1>1. c.lines \in Seq(Block!AllLines) /\ c.at \in 0 .. Len(c.lines) /\ c.closed \in BOOLEAN
  BY BlockCut
<1>2. Block!NewText(text) = [lines |-> lines, closed |-> (c.closed \/ lines = <<>>)]
  BY DEF Block!NewText
<1> HIDE DEF c
<1>3. front \in Seq(Block!AllLines) /\ back \in Seq(Block!AllLines)
  BY <1>1
<1>4. before \in Seq(Block!AllLines) /\ after \in Seq(Block!AllLines)
  <2>1. <<Empty>> \in Seq(Block!AllLines) /\ <<>> \in Seq(Block!AllLines)
    BY DEF Block!AllLines
  <2> QED
    BY <2>1 DEF Block!Before, Block!After
<1>5. Block!BlockLines \in Seq(Block!AllLines)
  <2>1. run.task.block \in Seq(PlainLines)
    BY FileAssumption DEF Block!TaskAssumption, Block!Requests
  <2>2. run.task.block \in Seq(Block!AllLines)
    BY <2>1, SeqMonotonic DEF Block!AllLines
  <2>3. /\ <<Opening>> \in Seq(Block!AllLines) /\ <<Closing>> \in Seq(Block!AllLines)
        /\ <<>> \in Seq(Block!AllLines)
    BY DEF Block!AllLines
  <2>4. <<Opening>> \o run.task.block \o <<Closing>> \in Seq(Block!AllLines)
    BY <2>2, <2>3, Joined
  <2> QED
    BY <2>3, <2>4 DEF Block!BlockLines, Block!t
<1> HIDE DEF front, back, before, after
<1>6. lines \in Seq(Block!AllLines)
  <2>1. front \o before \o Block!BlockLines \in Seq(Block!AllLines)
    BY <1>3, <1>4, <1>5, Joined
  <2> DEFINE d == front \o before \o Block!BlockLines
  <2> HIDE DEF d
  <2>2. d \in Seq(Block!AllLines)
    BY <2>1 DEF d
  <2>3. d \o after \o back \in Seq(Block!AllLines)
    BY <1>3, <1>4, <2>2, Joined
  <2> QED
    BY <2>3 DEF d
<1> HIDE DEF lines
<1> DEFINE closed == c.closed \/ lines = <<>>
<1>7. closed \in BOOLEAN /\ (lines = <<>> => closed)
  OBVIOUS
<1> HIDE DEF closed
<1>8. [lines |-> lines, closed |-> closed] \in Block!AllTexts
  BY <1>6, <1>7 DEF Block!AllTexts
<1> QED
  BY <1>2, <1>8 DEF closed

LEMMA BlockInit == Block!Init => BlockInv
<1> SUFFICES ASSUME Block!Init PROVE BlockInv
  OBVIOUS
<1> DEFINE R == {Block!Host(Missing)}
                  \union {Block!Host([text |-> x, attrs |-> Block!Fresh]) : x \in BlockTexts}
<1>1. F!InitRuns(R, BlockTasks)
  BY BlockIsFileRun DEF Block!Init
<1>2. R \subseteq BlockHosts
  BY FileAssumption
     DEF Block!TaskAssumption, Block!Host, BlockHosts, F!Hosts, F!Files, F!Attributes, Block!Fresh
<1> HIDE DEF R
<1> QED
  BY <1>1, <1>2, FileInit DEF BlockInv

LEMMA BlockSteps ==
    ASSUME BlockInv, [Block!Next]_vars
    PROVE [FileNext(Block!AllTexts, BlockTasks, F!FilePlaces)]_(F!vars)
<1>1. /\ run.task \in BlockTasks
      /\ Block!Exists => Block!TextNow \in Block!AllTexts
  BY DEF BlockInv, FileInv, Typed, F!RunStates, BlockHosts, F!Hosts, F!Files, Block!Exists,
     Block!TextNow
<1>2. CASE Block!Start
  BY <1>2, BlockIsFileRun DEF Block!Start, Block!Unread, F!Unread, Block!Kinds, F!Kinds, FileNext
<1>3. CASE Block!Read
  <2> DEFINE old == IF Block!Exists THEN Block!TextNow ELSE Block!Nothing
  <2>1. F!At("read")
    BY <1>3 DEF Block!Read, Block!At, F!At
  <2>2. old \in Block!AllTexts
    BY <1>1 DEF Block!Nothing, Block!AllTexts
  <2>3. \/ Block!Answer(FALSE) \/ Block!Refuse \/ Block!Keep(Block!Kinds)
        \/ Block!Rewrite(Block!NewText(old), Block!Kinds)
    BY <1>3 DEF Block!Read
  <2> HIDE DEF old
  <2>4. Block!NewText(old) \in Block!AllTexts
    BY <1>1, <2>2, BlockNewText
  <2> QED
    BY <2>1, <2>3, <2>4, BlockIsFileRun DEF FileNext, Block!Kinds, F!Kinds
<1>4. CASE \/ Block!Secure \/ Block!Replace \/ Block!Adjust \/ Block!FileCallError
           \/ Block!Killed \/ Block!FileOutside(BlockTexts)
  BY <1>4, BlockIsFileRun, FileAssumption
     DEF FileNext, Block!TaskAssumption, Block!Secure, Block!Replace, Block!Adjust
<1> QED
  BY <1>2, <1>3, <1>4 DEF Block!Next, Block!Steps, vars, F!vars

LEMMA BlockNext == BlockInv /\ [Block!Next]_vars => BlockInv'
  BY BlockSteps, BlockGiven, FileSteps DEF BlockInv

LEMMA BlockSafe == BlockInv => Block!TypeOK /\ Block!NeverTorn /\ Block!BackedUp
<1> SUFFICES ASSUME BlockInv PROVE Block!TypeOK /\ Block!NeverTorn /\ Block!BackedUp
  OBVIOUS
<1>1. Block!TypeOK
  BY DEF BlockInv, FileInv, Typed, BlockHosts, Block!TypeOK, Block!Hosts, F!Hosts, Block!Files,
         F!Files, Block!Attributes, F!Attributes, Block!FileReads, F!FileReads, Block!Kinds, F!Kinds,
         Block!Memos, F!Memos, Block!Forecasts, F!Forecasts, Block!RunStates, F!RunStates,
         Block!Replies, F!Replies, Block!FilePlaces, F!FilePlaces, Block!Checking, F!Checking
<1>2. Block!NeverTorn /\ Block!BackedUp
  BY BlockGiven, FileIsWhole
     DEF BlockInv, Block!NeverTorn, Block!BackedUp, F!NeverTorn, F!BackedUp, Block!At, F!At,
         Block!Exists, F!Exists, Block!TextNow, F!TextNow, Block!now, F!now, Block!t, F!t
<1> QED
  BY <1>1, <1>2

-----------------------------------------------------------------------------
(* template.                                                               *)

(* Until the new text is installed, and while attributes are set, a task   *)
(* that is not to follow links is not at one, and a text that is there is  *)
(* one that may be replaced.                                               *)
TemplateEdited ==
    /\ run.at \in Decided \union {"attributes"} /\ ~run.disturbed => run.task.follow \/ ~actual.link
    /\ run.at \in Decided /\ ~run.disturbed /\ F!Exists => run.task.force
TemplatePlaces == F!FilePlaces \union {"report"}
TemplateInv ==
    FileInv(Template!Directories, Contents, TemplateTasks, TemplatePlaces) /\ TemplateEdited

LEMMA TemplateGiven == Given(Template!Directories, Contents, TemplateTasks, TemplatePlaces)
<1>1. Hosted(Template!Directories, Contents)
  BY DEF Hosted, Template!Directories, Template!Files, F!Files, Template!Attributes, F!Attributes
<1>2. \A task \in TemplateTasks : task.asked \in F!Askable
  BY FileAssumption DEF Template!TaskAssumption, Template!Requests, Template!Askable, F!Askable
<1> QED
  BY <1>1, <1>2, FileAssumption DEF Given, F!FilePlaces, TemplatePlaces

LEMMA TemplateInit == Template!Init => TemplateInv
<1> SUFFICES ASSUME Template!Init PROVE TemplateInv
  OBVIOUS
<1> DEFINE R == {[file |-> f, tmp |-> Missing, link |-> l] :
                   f \in {Missing} \union {[text |-> x, attrs |-> Template!Fresh] : x \in Contents},
                   l \in BOOLEAN}
<1>1. F!InitRuns(R, TemplateTasks)
  BY TemplateIsFileRun DEF Template!Init
<1>2. R \subseteq Template!Directories
  BY DEF Template!Directories, Template!Files, Template!Attributes, Template!Fresh
<1> HIDE DEF R
<1>3. FileInv(Template!Directories, Contents, TemplateTasks, TemplatePlaces) /\ run.at = "idle"
  BY <1>1, <1>2, FileInit
<1> QED
  BY <1>3 DEF TemplateInv, TemplateEdited, Decided

LEMMA TemplateSteps ==
    ASSUME TemplateInv, [Template!Next]_vars
    PROVE \/ [FileNext(Contents, TemplateTasks, TemplatePlaces)]_(F!vars)
          \/ Template!Relink
<1>1. /\ run.task \in TemplateTasks /\ run.task.text \in Contents
      /\ run.changed \in BOOLEAN
  BY FileAssumption DEF TemplateInv, FileInv, Typed, F!RunStates, Template!TaskAssumption,
    Template!Requests
<1>2. "report" \in TemplatePlaces \ Decided
  BY DEF TemplatePlaces, Decided
<1>3. CASE Template!Start
  BY <1>3, TemplateIsFileRun
     DEF Template!Start, Template!Unread, F!Unread, Template!Kinds, F!Kinds, FileNext
<1>4. CASE Template!Read
  <2>1. F!At("read") /\ ~F!Idle
    BY <1>4 DEF Template!Read, Template!At, F!At, F!Idle
  <2>2. \/ Template!Refuse \/ Template!Keep(Template!Kinds) \/ Template!Goto("report")
        \/ Template!Rewrite(run.task.text, Template!Kinds)
    BY <1>4 DEF Template!Read, Template!t
  <2> QED
    BY <1>1, <1>2, <2>1, <2>2, TemplateIsFileRun DEF FileNext, Template!Kinds, F!Kinds
<1>5. CASE Template!Adjust \/ Template!Report
  <2>1. ~F!Idle
    BY <1>5 DEF Template!Adjust, Template!Attribute, Template!Report, Template!At, F!At, F!Idle
  <2>2. \/ Template!Attribute \/ Template!Goto("report") \/ Template!Answer(run.changed) \/ Template!Refuse
    BY <1>5 DEF Template!Adjust, Template!Report
  <2> QED
    BY <1>1, <1>2, <2>1, <2>2, TemplateIsFileRun DEF FileNext, F!SetAttributes
<1>6. CASE \/ Template!Secure \/ Template!Replace \/ Template!FileCallError
           \/ Template!Killed \/ Template!FileOutside(Contents)
  BY <1>6, TemplateIsFileRun DEF FileNext, Template!Secure, Template!Replace
<1> QED
  BY <1>3, <1>4, <1>5, <1>6 DEF Template!Next, Template!Steps, vars, F!vars

(* A link that is made, or taken away, by others.                          *)
LEMMA TemplateRelink ==
    ASSUME TemplateInv, Template!Relink
    PROVE FileInv(Template!Directories, Contents, TemplateTasks, TemplatePlaces)'
          /\ (run'.at = "idle" \/ run'.disturbed)
<1> DEFINE a == [actual EXCEPT !.link = ~@]
<1>1. actual \in Template!Directories
  BY DEF TemplateInv, FileInv, Typed
<1>2. a \in Template!Directories /\ a.tmp = actual.tmp
  <2>1. (~actual.link) \in BOOLEAN
    OBVIOUS
  <2> QED
    BY <1>1, <2>1 DEF Template!Directories
<1>3. F!Interferes(a)
  BY DEF Template!Relink, Template!Interferes, F!Interferes, Template!NoMemo, F!NoMemo,
    Template!Idle, F!Idle, Template!At, F!At
<1> HIDE DEF a
<1>4. FileInv(Template!Directories, Contents, TemplateTasks, TemplatePlaces)'
  BY <1>2, <1>3, FileInterferes DEF TemplateInv
<1> QED
  BY <1>3, <1>4 DEF F!Interferes, F!Idle, F!At, TemplateInv, FileInv, Typed, F!RunStates

(* What the steps of the agent do with a link, and where they lead.        *)
LEMMA TemplateFrame ==
    ASSUME TemplateInv, [Template!Next]_vars, ~run'.disturbed,
           run'.at \in Decided \union {"attributes"}
    PROVE /\ actual'.link = actual.link /\ run'.task = run.task /\ ~run.disturbed
          /\ \/ run.at \in Decided \union {"attributes"}
             \/ Template!Read /\ (run.task.follow \/ ~actual.link)
<1>1. /\ {"file", "tmp", "link"} \subseteq DOMAIN actual
  BY DEF TemplateInv, FileInv, Typed, Template!Directories
<1>2. ASSUME NEW reply, NEW c, Template!Ends(reply, c) PROVE FALSE
  BY <1>2 DEF Template!Ends, TemplateInv, FileInv, Typed, F!RunStates, Decided
<1>3. ~Template!Refuse /\ ~Template!Killed /\ ~Template!FileCallError /\ \A c : ~Template!Answer(c)
  BY <1>2 DEF Template!Refuse, Template!Stops, Template!Killed, Template!FileCallError,
     Template!CallFails, Template!Answer
<1>4. ASSUME NEW place, NEW a, NEW r, NEW c, Template!Step(place, a, r, c)
      PROVE run'.at = place /\ actual' = a /\ run'.task = run.task /\ run'.disturbed = run.disturbed
  BY <1>4 DEF Template!Step, TemplateInv, FileInv, Typed, F!RunStates
<1>5. "report" \notin Decided /\ "read" \notin Decided
  BY DEF Decided
<1>6. CASE UNCHANGED vars
  BY <1>6 DEF vars
<1>7. CASE Template!Start
  BY <1>5, <1>7 DEF Template!Start, Template!Begin, Template!Rest
<1>8. CASE Template!Read
  <2>1. \E r : Template!Step(run'.at, actual, r, run.changed)
    BY <1>3, <1>4, <1>5, <1>8 DEF Template!Read, Template!Goto, Template!Keep, Template!Rewrite,
       Template!Reads
  <2>2. run.task.follow \/ ~actual.link
    BY <1>3, <1>8 DEF Template!Read, Template!t
  <2> QED
    BY <1>4, <1>8, <2>1, <2>2
<1>9. CASE Template!Secure
  BY <1>3, <1>4, <1>9 DEF Template!Secure, Template!Guard, Template!Validate, Template!Backup,
     Template!Goto, Template!Reads, Template!At, Decided
<1>10. CASE Template!Replace
  <2>1. CASE Template!Write
    BY <1>1, <1>4, <2>1 DEF Template!Write, Template!At, Decided
  <2>2. CASE Template!Fill
    BY <1>1, <1>4, <2>2 DEF Template!Fill, Template!At, Decided
  <2>3. CASE Template!Install
    <3> DEFINE f == [text |-> actual.tmp, attrs |-> Template!Fresh]
               a == [actual EXCEPT !.file = f, !.tmp = Missing]
    <3>1. Template!Step("attributes", a, run.read, TRUE)
      BY <1>3, <2>3 DEF Template!Install, Template!Changes
    <3>2. a.link = actual.link
      BY <1>1
    <3> HIDE DEF a
    <3> QED
      BY <1>4, <2>3, <3>1, <3>2 DEF Template!Install, Template!At, Decided
  <2> QED
    BY <1>10, <2>1, <2>2, <2>3 DEF Template!Replace, Template!AtomicWrite
<1>11. CASE Template!Adjust
  <2>1. CASE Template!Attribute
    <3>1. \E r, c : Template!Step("attributes", actual, r, c)
            \/ Template!Step("attributes",
                 [actual EXCEPT !.file.attrs[Head(run.read.left)] = run.task.asked[Head(run.read.left)]], r, c)
      BY <1>3, <2>1 DEF Template!Attribute, Template!Reads, Template!now, Template!t
    <3> QED
      BY <1>1, <1>4, <2>1, <3>1 DEF Template!Attribute, Template!At
  <2>2. CASE Template!Goto("report")
    BY <1>4, <1>5, <2>2 DEF Template!Goto
  <2> QED
    BY <1>11, <2>1, <2>2 DEF Template!Adjust
<1>12. CASE Template!Report
  BY <1>3, <1>12 DEF Template!Report
<1>13. CASE Template!FileOutside(Contents) \/ Template!Relink
  <2>1. PICK a : Template!Interferes(a)
    BY <1>13 DEF Template!FileOutside, Template!Relink
  <2> QED
    BY <2>1 DEF Template!Interferes, Template!Idle, Template!At, Decided, TemplateInv, FileInv,
       Typed, F!RunStates
<1> QED
  BY <1>3, <1>6, <1>7, <1>8, <1>9, <1>10, <1>11, <1>12, <1>13 DEF Template!Next, Template!Steps

LEMMA TemplateNext == TemplateInv /\ [Template!Next]_vars => TemplateInv'
<1> SUFFICES ASSUME TemplateInv, [Template!Next]_vars PROVE TemplateInv'
  OBVIOUS
<1> DEFINE Steps == [FileNext(Contents, TemplateTasks, TemplatePlaces)]_(F!vars)
<1>1. Steps \/ Template!Relink
  BY TemplateSteps
<1>2. FileInv(Template!Directories, Contents, TemplateTasks, TemplatePlaces)'
  BY <1>1, TemplateRelink, TemplateGiven, FileSteps DEF TemplateInv
<1>3. ASSUME run'.at \in Decided \union {"attributes"}, ~run'.disturbed
      PROVE run'.task.follow \/ ~actual'.link
  BY <1>3, TemplateFrame DEF TemplateInv, TemplateEdited
<1>4. ASSUME run'.at \in Decided, ~run'.disturbed, F!Exists'
      PROVE run'.task.force
  <2>1. Steps
    BY <1>1, <1>4, TemplateRelink DEF Decided
  <2>2. /\ actual'.file = actual.file /\ run'.task = run.task
        /\ (run.at \in Decided /\ ~run.disturbed) \/ F!At("read")
    BY <1>4, <2>1, TemplateGiven, FileDecides DEF TemplateInv
  <2>3. F!Exists
    BY <1>4, <2>2 DEF F!Exists
  <2>4. CASE run.at \in Decided /\ ~run.disturbed
    BY <2>2, <2>3, <2>4 DEF TemplateInv, TemplateEdited
  <2>5. CASE F!At("read")
    <3>1. Template!Read
      BY <1>4, <2>5, TemplateFrame DEF F!At, Decided
    <3>2. /\ "read" \notin Decided /\ "idle" \notin Decided /\ "attributes" \notin Decided
          /\ "report" \notin Decided
      BY DEF Decided
    <3>3. ASSUME NEW place, NEW r, Template!Reads(place, r) PROVE run'.at = place
      BY <3>3 DEF Template!Reads, Template!Step, TemplateInv, FileInv, Typed, F!RunStates
    <3>4. ~Template!Refuse
      BY <1>4, <3>2 DEF Template!Refuse, Template!Stops, Template!Ends, TemplateInv, FileInv,
         Typed, F!RunStates
    <3>5. ~Template!Keep(Template!Kinds) /\ ~Template!Goto("report")
      BY <1>4, <3>2, <3>3 DEF Template!Keep, Template!Goto, Template!Reads
    <3> QED
      BY <2>2, <2>3, <3>1, <3>4, <3>5 DEF Template!Read, Template!Exists, F!Exists, Template!t
  <2> QED
    BY <2>2, <2>4, <2>5
<1> QED
  BY <1>2, <1>3, <1>4 DEF TemplateInv, TemplateEdited

LEMMA TemplateSafe == TemplateInv => Template!TypeOK /\ Template!NeverTorn /\ Template!BackedUp
<1> SUFFICES ASSUME TemplateInv PROVE Template!TypeOK /\ Template!NeverTorn /\ Template!BackedUp
  OBVIOUS
<1>1. Template!TypeOK
  BY DEF TemplateInv, TemplatePlaces, FileInv, Typed, Template!TypeOK, Template!Directories,
         Template!FileReads, F!FileReads, Template!Kinds, F!Kinds, Template!Memos, F!Memos,
         Template!Forecasts, F!Forecasts, Template!RunStates, F!RunStates, Template!Replies,
         F!Replies, Template!FilePlaces, F!FilePlaces, Template!Checking, F!Checking
<1>2. Template!NeverTorn /\ Template!BackedUp
  BY TemplateGiven, FileIsWhole
     DEF TemplateInv, Template!NeverTorn, Template!BackedUp, F!NeverTorn, F!BackedUp, Template!At,
         F!At, Template!Exists, F!Exists, Template!TextNow, F!TextNow, Template!now, F!now,
         Template!t, F!t
<1> QED
  BY <1>1, <1>2

(* Only the rename and the attributes change the file.                     *)
LEMMA TemplateRespects == TemplateInv /\ [Template!Next]_vars => Template!Respects
<1> SUFFICES ASSUME TemplateInv, [Template!Next]_vars, ~run'.disturbed, ~Template!Idle,
                    Template!Exists, actual'.file # actual.file
             PROVE /\ Template!t.force \/ actual'.file.text = Template!TextNow
                   /\ Template!t.follow \/ ~actual.link
  BY DEF Template!Respects
<1>1. /\ actual \in Template!Directories /\ {"file", "tmp", "link"} \subseteq DOMAIN actual
      /\ "attributes" \notin Decided /\ "install" \in Decided
  BY DEF TemplateInv, FileInv, Typed, Template!Directories, Decided
<1>2. ASSUME NEW place, NEW a, NEW r, NEW c, Template!Step(place, a, r, c)
      PROVE run'.at = place /\ actual' = a /\ run'.disturbed = run.disturbed
  BY <1>2 DEF Template!Step, TemplateInv, FileInv, Typed, F!RunStates
<1>3. /\ ~Template!Refuse /\ ~Template!Killed /\ ~Template!FileCallError
      /\ \A c : ~Template!Answer(c)
  BY DEF Template!Refuse, Template!Stops, Template!Killed, Template!FileCallError,
     Template!CallFails, Template!Answer
<1>4. ASSUME NEW place, NEW r, NEW c, Template!Step(place, actual, r, c) PROVE FALSE
  BY <1>2, <1>4
<1>5. ~Template!Start /\ ~Template!Read /\ ~Template!Secure /\ ~Template!Report
  BY <1>3, <1>4 DEF Template!Start, Template!Begin, Template!Read, Template!Keep, Template!Rewrite,
     Template!Secure, Template!Guard, Template!Validate, Template!Backup, Template!Goto,
     Template!Reads, Template!Report
<1>6. CASE Template!Replace
  <2>1. ~Template!Write /\ ~Template!Fill
    BY <1>1, <1>2 DEF Template!Write, Template!Fill
  <2>2. Template!Install
    BY <1>6, <2>1 DEF Template!Replace, Template!AtomicWrite
  <2>3. run.at = "install" /\ ~run.disturbed
    BY <1>2, <1>3, <2>2 DEF Template!Install, Template!At, Template!Changes
  <2> QED
    BY <1>1, <2>3 DEF TemplateInv, TemplateEdited, Template!Exists, F!Exists, Template!t
<1>7. CASE Template!Adjust
  <2> DEFINE k == Head(run.read.left)
             f == [actual.file EXCEPT !.attrs = [@ EXCEPT ![k] = run.task.asked[k]]]
             a == [actual EXCEPT !.file = f]
  <2>1. PICK r, c : Template!Step("attributes", a, r, c)
    BY <1>3, <1>4, <1>7 DEF Template!Adjust, Template!Attribute, Template!Reads, Template!Goto,
       Template!now, Template!t
  <2>2. run.at = "attributes" /\ ~run.disturbed
    BY <1>2, <1>4, <1>7, <2>1 DEF Template!Adjust, Template!Attribute, Template!At, Template!Goto
  <2>3. actual'.file.text = Template!TextNow
    <3>1. actual.file \in [text : Contents \union {Torn}, attrs : Template!Attributes]
          \/ actual.file \in [text : Contents, attrs : Template!Attributes]
      BY <1>1 DEF Template!Directories, Template!Files, Template!Exists
    <3>2. f.text = actual.file.text
      BY <3>1
    <3> HIDE DEF f
    <3>3. a.file = f
      BY <1>1
    <3> QED
      BY <1>2, <2>1, <3>2, <3>3 DEF Template!TextNow
  <2> QED
    BY <2>2, <2>3 DEF TemplateInv, TemplateEdited, Template!t
<1>8. CASE Template!FileOutside(Contents) \/ Template!Relink
  <2>1. PICK a : Template!Interferes(a)
    BY <1>8 DEF Template!FileOutside, Template!Relink
  <2> QED
    BY <2>1 DEF Template!Interferes, Template!Idle, Template!At, TemplateInv, FileInv, Typed,
       F!RunStates
<1>9. CASE UNCHANGED vars
  BY <1>9 DEF vars
<1> QED
  BY <1>3, <1>5, <1>6, <1>7, <1>8, <1>9 DEF Template!Next, Template!Steps

-----------------------------------------------------------------------------
(* copy.                                                                   *)

CopyReads ==
    [left : Seq(Copy!Names), text : Contents \union {Missing}, saved : Contents \union {Missing}]
CopyTyped ==
    /\ actual \in Copy!Hosts /\ memo \in Copy!Memos /\ ~Copy!Checking
    /\ [run EXCEPT !.read = Blank] \in Copy!RunStates(CopyTasks, Copy!Places, {})
    /\ IF run.at = "idle" THEN run.read = Blank ELSE run.read \in CopyReads
(* A file is copied,                                                       *)
CopyStarted == run.at \notin {"idle", "open", "look"} => run.read.left # <<>>
(* its text is known, and the temporary file has all of it or is gone,     *)
CopyFilled ==
    /\ run.at \in {"fill", "install"} => run.read.text \in Contents
    /\ run.at = "install" => actual.tmp[Head(run.read.left)] \in {Missing, run.read.text}
(* and the file is as it was backed up.                                    *)
CopySaved ==
    run.at \in {"write", "fill", "install"} /\ run.task.backup /\ run.task.from # "directory"
      /\ ~run.disturbed /\ actual.dest[Head(run.read.left)] # Missing
        => run.read.saved = actual.dest[Head(run.read.left)].text
CopyInv == CopyTyped /\ CopyStarted /\ CopyFilled /\ CopySaved /\ Copy!NeverTorn

(* What a step does to one of the files.                                   *)
LEMMA CopyChange ==
    ASSUME actual \in Copy!Hosts, NEW name \in Copy!Names
    PROVE /\ \A x \in Contents \union {Torn, Missing} :
               LET a == [actual EXCEPT !.tmp[name] = x] IN
               a \in Copy!Hosts /\ a.dest = actual.dest /\ a.tmp[name] = x
          /\ \A d \in [text : Contents \union {Torn}, mode : 1 .. 2] \union {Missing} :
               LET a == [actual EXCEPT !.dest[name] = d] IN
               /\ a \in Copy!Hosts /\ a.tmp = actual.tmp
               /\ \A other \in Copy!Names :
                    a.dest[other] = IF other = name THEN d ELSE actual.dest[other]
          /\ \A x \in Contents \union {Missing} :
               LET a == [actual EXCEPT !.source[name] = x] IN
               a \in Copy!Hosts /\ a.dest = actual.dest /\ a.tmp = actual.tmp
  BY DEF Copy!Hosts

LEMMA CopyStep ==
    ASSUME CopyTyped, NEW place \in Copy!Places, NEW a \in Copy!Hosts, NEW r \in CopyReads,
           NEW c \in BOOLEAN, Copy!Step(place, a, r, c)
    PROVE /\ CopyTyped' /\ actual' = a
          /\ run'.at = place /\ run'.read = r /\ run'.task = run.task
          /\ run'.disturbed = run.disturbed
<1>1. /\ run'.at = place /\ run'.read = r /\ run'.task = run.task
      /\ run'.disturbed = run.disturbed /\ run'.mode = run.mode
  BY DEF Copy!Step, CopyTyped, Copy!RunStates
<1>2. [run' EXCEPT !.read = Blank] \in Copy!RunStates(CopyTasks, Copy!Places, {})
  BY DEF Copy!Step, CopyTyped, Copy!RunStates
<1>3. memo' \in Copy!Memos
  BY DEF Copy!Step, CopyTyped, Copy!Memos, Copy!NoMemo, Copy!Forecasts
<1>4. place # "idle"
  BY DEF Copy!Places
<1> QED
  BY <1>1, <1>2, <1>3, <1>4 DEF Copy!Step, CopyTyped, Copy!Checking

(* A run that ends changes no file.                                        *)
LEMMA CopyEnds ==
    ASSUME CopyInv, \/ \E c \in BOOLEAN : Copy!Answer(c)
                    \/ \E reply \in Copy!Replies : Copy!Stops(reply)
    PROVE CopyInv'
<1>1. PICK reply \in Copy!Replies, c \in BOOLEAN :
        /\ run' = [run EXCEPT !.at = "idle", !.reply = reply, !.changed = c, !.read = Blank,
                              !.touched = FALSE, !.disturbed = FALSE]
        /\ actual' = actual /\ memo' \in Copy!Memos
  <2>1. CASE \E c \in BOOLEAN : Copy!Answer(c)
    <3>1. PICK c \in BOOLEAN : Copy!Answer(c)
      BY <2>1
    <3>2. run.disturbed \in BOOLEAN /\ ~Copy!Checking
      BY DEF CopyInv, CopyTyped, Copy!RunStates
    <3>3. memo' \in Copy!Memos
      BY <3>1, <3>2 DEF Copy!Answer, Copy!Memos, Copy!Forecasts
    <3>4. Copy!Ends("ok", c) /\ actual' = actual
      BY <3>1 DEF Copy!Answer
    <3> QED
      BY <3>3, <3>4 DEF Copy!Ends, Copy!Replies
  <2>2. CASE \E reply \in Copy!Replies : Copy!Stops(reply)
    BY <2>2 DEF Copy!Stops, Copy!Ends, CopyInv, CopyTyped
  <2> QED
    BY <2>1, <2>2
<1>2. run'.at = "idle" /\ run'.read = Blank /\ run'.mode = run.mode
  BY <1>1 DEF CopyInv, CopyTyped, Copy!RunStates
<1>3. [run' EXCEPT !.read = Blank] \in Copy!RunStates(CopyTasks, Copy!Places, {})
  BY <1>1 DEF CopyInv, CopyTyped, Copy!RunStates
<1> QED
  BY <1>1, <1>2, <1>3 DEF CopyInv, CopyTyped, CopyStarted, CopyFilled, CopySaved, Copy!NeverTorn,
     Copy!Checking

LEMMA CopyInit == Copy!Init => CopyInv
<1> SUFFICES ASSUME Copy!Init PROVE CopyInv
  OBVIOUS
<1>1. PICK x \in Contents :
        actual = [source |-> [name \in Copy!Names |-> x], dest |-> [name \in Copy!Names |-> Missing],
                  tmp |-> [name \in Copy!Names |-> Missing]]
  BY DEF Copy!Init, Copy!InitRuns
<1>2. actual \in Copy!Hosts /\ Copy!NeverTorn
  BY <1>1 DEF Copy!Hosts, Copy!NeverTorn
<1>3. PICK task \in CopyTasks : run = Copy!Rest(task, Blank)
  BY DEF Copy!Init, Copy!InitRuns
<1>4. /\ [run EXCEPT !.read = Blank] \in Copy!RunStates(CopyTasks, Copy!Places, {})
      /\ run.at = "idle" /\ run.read = Blank /\ run.mode = "apply"
  BY <1>3 DEF Copy!Rest, Copy!RunStates, Copy!Replies, Copy!Forecasts
<1>5. memo \in Copy!Memos
  BY DEF Copy!Init, Copy!InitRuns, Copy!NoMemo, Copy!Memos, Copy!Forecasts
<1> QED
  BY <1>2, <1>4, <1>5 DEF CopyInv, CopyTyped, CopyStarted, CopyFilled, CopySaved, Copy!Checking

LEMMA CopyGiven ==
    /\ Order \in Seq(Copy!Names) /\ Order # <<>> /\ Head(Order) \in Copy!Names
    /\ Missing \notin Contents /\ Torn \notin Contents /\ Missing # Torn
    /\ \A task \in CopyTasks : task.text \in Contents /\ task.mode \in 0 .. 2
<1>1. Order \in Seq(Copy!Names) /\ Order # <<>>
  BY FileAssumption DEF Copy!TaskAssumption
<1>2. Head(Order) \in Copy!Names
  BY <1>1
<1> QED
  BY <1>1, <1>2, FileAssumption DEF Copy!TaskAssumption, Copy!Requests

(* The files that are there to be copied.                                  *)
LEMMA CopyListed == actual \in Copy!Hosts => Copy!Listed \in Seq(Copy!Names)
<1> SUFFICES ASSUME actual \in Copy!Hosts PROVE Copy!Listed \in Seq(Copy!Names)
  OBVIOUS
<1> DEFINE lists == [i \in DOMAIN Order |->
                       IF actual.source[Order[i]] = Missing THEN <<>> ELSE <<Order[i]>>]
<1>1. lists \in Seq(Seq(Copy!Names))
  <2>1. DOMAIN Order = 1 .. Len(Order) /\ Len(Order) \in Nat
    BY CopyGiven
  <2>2. \A i \in 1 .. Len(Order) :
          (IF actual.source[Order[i]] = Missing THEN <<>> ELSE <<Order[i]>>) \in Seq(Copy!Names)
    BY <2>1, CopyGiven
  <2> QED
    BY <2>1, <2>2, IsASeq
<1> HIDE DEF lists
<1>2. Copy!FlattenSeq(lists) = FlattenSeq(lists)
  BY DEF Copy!FlattenSeq, FlattenSeq
<1>3. Copy!Listed = Copy!FlattenSeq(lists)
  BY DEF lists, Copy!Listed
<1> QED
  BY <1>1, <1>2, <1>3, FlattenType

LEMMA CopyStart == CopyInv /\ Copy!Start => CopyInv'
<1> SUFFICES ASSUME CopyInv, Copy!Start PROVE CopyInv'
  OBVIOUS
<1>1. PICK task \in CopyTasks : Copy!Begin(task, "apply", "open", Copy!Nothing)
  BY DEF Copy!Start
<1>2. /\ run' = [Copy!Rest(task, Copy!Nothing) EXCEPT !.at = "open", !.mode = "apply",
                   !.expect = run'.expect, !.again = run'.again]
      /\ run'.expect \in Copy!Forecasts /\ run'.again \in BOOLEAN /\ memo' \in Copy!Memos
  BY <1>1 DEF Copy!Begin, Copy!Rest, CopyInv, CopyTyped, Copy!Memos, Copy!NoMemo, Copy!Forecasts
<1>3. [run' EXCEPT !.read = Blank] \in Copy!RunStates(CopyTasks, Copy!Places, {})
  BY <1>2 DEF Copy!Rest, Copy!RunStates, Copy!Replies, Copy!Places
<1>4. run'.at = "open" /\ run'.read = Copy!Nothing /\ run'.mode = "apply" /\ actual' = actual
  BY <1>1, <1>2 DEF Copy!Rest, Copy!Begin
<1>5. Copy!Nothing \in CopyReads
  BY DEF Copy!Nothing, CopyReads
<1> QED
  BY <1>2, <1>3, <1>4, <1>5 DEF CopyInv, CopyTyped, CopyStarted, CopyFilled, CopySaved,
     Copy!NeverTorn, Copy!Checking

(* A file is chosen, or nothing is left.                                   *)
LEMMA CopyLook == CopyInv /\ (Copy!Open \/ Copy!Look \/ Copy!Done) => CopyInv'
<1> SUFFICES ASSUME CopyInv, Copy!Open \/ Copy!Look \/ Copy!Done PROVE CopyInv'
  OBVIOUS
<1>1. run.read \in CopyReads /\ run.changed \in BOOLEAN /\ actual \in Copy!Hosts
  BY DEF Copy!Open, Copy!Look, Copy!Done, Copy!At, CopyInv, CopyTyped, Copy!RunStates
<1>2. CASE \E r \in CopyReads : Copy!Step("look", actual, r, run.changed)
  BY <1>1, <1>2, CopyStep DEF CopyInv, CopyStarted, CopyFilled, CopySaved, Copy!NeverTorn,
     Copy!Places
<1>3. CASE Copy!Refuse \/ Copy!Answer(run.changed)
  BY <1>1, <1>3, CopyEnds DEF Copy!Refuse, Copy!Replies
<1>4. CASE Copy!Open
  <2>1. ASSUME NEW names \in Seq(Copy!Names) PROVE [run.read EXCEPT !.left = names] \in CopyReads
    BY <1>1 DEF CopyReads
  <2>2. Copy!Listed \in Seq(Copy!Names) /\ <<Head(Order)>> \in Seq(Copy!Names)
    BY <1>1, CopyListed, CopyGiven
  <2> QED
    BY <1>2, <1>3, <1>4, <2>1, <2>2 DEF Copy!Open, Copy!Reads, Copy!now
<1>5. CASE Copy!Look
  <2>1. Copy!Following \in CopyReads
    <3>1. run.read.left # <<>>
      BY <1>1, <1>5 DEF Copy!Look, Copy!now
    <3>2. Tail(run.read.left) \in Seq(Copy!Names)
      BY <1>1, <3>1 DEF CopyReads
    <3> QED
      BY <1>1, <3>2 DEF Copy!Following, Copy!now, CopyReads
  <2>2. CASE Copy!Goto("backup")
    BY <1>1, <1>5, <2>2, CopyStep DEF Copy!Look, Copy!Goto, Copy!now, CopyInv, CopyStarted,
       CopyFilled, CopySaved, Copy!NeverTorn, Copy!Places
  <2> QED
    BY <1>2, <1>3, <1>5, <2>1, <2>2 DEF Copy!Look, Copy!Reads
<1> QED
  BY <1>3, <1>4, <1>5 DEF Copy!Done

(* The old file is backed up, as it is.                                    *)
LEMMA CopyBackup == CopyInv /\ Copy!Backup => CopyInv'
<1> SUFFICES ASSUME CopyInv, Copy!Backup PROVE CopyInv'
  OBVIOUS
<1> DEFINE n == Head(run.read.left)
<1>1. /\ run.at = "backup" /\ run.read \in CopyReads /\ run.read.left # <<>> /\ n \in Copy!Names
      /\ actual \in Copy!Hosts /\ run.changed \in BOOLEAN
  BY DEF Copy!Backup, Copy!At, CopyInv, CopyTyped, CopyStarted, Copy!RunStates, CopyReads
<1>2. CASE run.task.backup /\ run.task.from # "directory" /\ actual.dest[n] # Missing
  <2> DEFINE r == [run.read EXCEPT !.saved = actual.dest[n].text]
  <2>1. Copy!Step("write", actual, r, run.changed)
    BY <1>2 DEF Copy!Backup, Copy!t, Copy!n, Copy!now, Copy!Reads
  <2>2. actual.dest[n].text \in Contents
    BY <1>1, <1>2 DEF Copy!Hosts, CopyInv, Copy!NeverTorn
  <2>3. r \in CopyReads /\ r.left = run.read.left /\ r.saved = actual.dest[n].text
    BY <1>1, <2>2 DEF CopyReads
  <2> HIDE DEF r
  <2> QED
    BY <1>1, <2>1, <2>3, CopyStep DEF CopyInv, CopyStarted, CopyFilled, CopySaved, Copy!NeverTorn,
       Copy!Places
<1>3. CASE ~(run.task.backup /\ run.task.from # "directory" /\ actual.dest[n] # Missing)
  <2>1. Copy!Step("write", actual, run.read, run.changed)
    BY <1>3 DEF Copy!Backup, Copy!t, Copy!n, Copy!now, Copy!Goto
  <2> QED
    BY <1>1, <1>3, <2>1, CopyStep DEF CopyInv, CopyStarted, CopyFilled, CopySaved, Copy!NeverTorn,
       Copy!Places
<1> QED
  BY <1>2, <1>3

(* The temporary file is written,                                          *)
LEMMA CopyWrite == CopyInv /\ (Copy!Write \/ Copy!Fill) => CopyInv'
<1> SUFFICES ASSUME CopyInv, Copy!Write \/ Copy!Fill PROVE CopyInv'
  OBVIOUS
<1> DEFINE n == Head(run.read.left)
<1>1. /\ run.at \in {"write", "fill"} /\ run.read \in CopyReads /\ run.read.left # <<>>
      /\ n \in Copy!Names /\ actual \in Copy!Hosts /\ run.changed \in BOOLEAN
      /\ run.task \in CopyTasks
  BY DEF Copy!Write, Copy!Fill, Copy!At, CopyInv, CopyTyped, CopyStarted, Copy!RunStates, CopyReads
<1>2. ASSUME NEW place \in {"fill", "install"}, NEW x \in Contents \union {Torn, Missing},
             NEW r \in CopyReads, r.left = run.read.left, r.saved = run.read.saved,
             r.text \in Contents, place = "install" => x = r.text,
             Copy!Step(place, [actual EXCEPT !.tmp[n] = x], r, run.changed)
      PROVE CopyInv'
  <2> DEFINE a == [actual EXCEPT !.tmp[n] = x]
  <2>1. a \in Copy!Hosts /\ a.dest = actual.dest /\ a.tmp[n] = x
    BY <1>1, <1>2, CopyChange
  <2>2. Copy!Step(place, a, r, run.changed)
    BY <1>2
  <2> HIDE DEF a
  <2> QED
    BY <1>1, <1>2, <2>1, <2>2, CopyStep DEF CopyInv, CopyStarted, CopyFilled, CopySaved,
       Copy!NeverTorn, Copy!Places
<1>3. CASE Copy!Write
  <2> DEFINE x == Copy!Wanted(run.task, actual, n)
             r == [run.read EXCEPT !.text = x]
  <2>1. CASE x = Missing
    BY <1>3, <2>1, CopyEnds DEF Copy!Write, Copy!Refuse, Copy!Replies, Copy!t, Copy!n, Copy!now
  <2>2. CASE x # Missing
    <3>1. Copy!Step("fill", [actual EXCEPT !.tmp[n] = Torn], r, run.changed)
      BY <1>3, <2>2 DEF Copy!Write, Copy!Opened, Copy!t, Copy!n, Copy!now
    <3>2. x \in Contents
      BY <1>1, <2>2, CopyGiven DEF Copy!Wanted, Copy!Hosts
    <3> HIDE DEF x
    <3>3. r \in CopyReads /\ r.left = run.read.left /\ r.saved = run.read.saved /\ r.text = x
      BY <1>1, <3>2 DEF CopyReads
    <3> HIDE DEF r
    <3> QED
      BY <1>2, <3>1, <3>2, <3>3
  <2> QED
    BY <2>1, <2>2
<1>4. CASE Copy!Fill
  <2>1. Copy!Step("install", [actual EXCEPT !.tmp[n] = run.read.text], run.read, run.changed)
    BY <1>4 DEF Copy!Fill, Copy!n, Copy!now
  <2>2. run.read.text \in Contents
    BY <1>4 DEF Copy!Fill, Copy!At, CopyInv, CopyFilled
  <2> QED
    BY <1>1, <1>2, <2>1, <2>2
<1> QED
  BY <1>3, <1>4

(* renamed, and gets its mode.                                             *)
LEMMA CopyInstall == CopyInv /\ (Copy!Install \/ Copy!Chmod) => CopyInv'
<1> SUFFICES ASSUME CopyInv, Copy!Install \/ Copy!Chmod PROVE CopyInv'
  OBVIOUS
<1> DEFINE n == Head(run.read.left)
<1>1. /\ run.at \in {"install", "chmod"} /\ run.read \in CopyReads /\ run.read.left # <<>>
      /\ n \in Copy!Names /\ actual \in Copy!Hosts /\ run.changed \in BOOLEAN
      /\ run.task \in CopyTasks
  <2>1. run.at \in {"install", "chmod"}
    BY DEF Copy!Install, Copy!Chmod, Copy!At
  <2>2. run.read \in CopyReads /\ run.read.left # <<>>
    BY <2>1 DEF CopyInv, CopyTyped, CopyStarted
  <2> QED
    BY <2>1, <2>2 DEF CopyInv, CopyTyped, Copy!RunStates, CopyReads
<1>2. CASE Copy!Refuse
  BY <1>2, CopyEnds DEF Copy!Refuse, Copy!Replies
<1>3. ASSUME NEW place \in {"chmod", "look"}, NEW a \in Copy!Hosts, NEW r \in CopyReads,
             NEW c \in BOOLEAN, place = "chmod" => r.left # <<>>,
             \A name \in Copy!Names : a.dest[name] # Missing => a.dest[name].text # Torn,
             Copy!Step(place, a, r, c)
      PROVE CopyInv'
  BY <1>3, CopyStep DEF CopyInv, CopyStarted, CopyFilled, CopySaved, Copy!NeverTorn, Copy!Places
<1>4. CASE Copy!Install /\ actual.tmp[n] # Missing
  <2> DEFINE d == [text |-> actual.tmp[n], mode |-> 1]
             b == [actual EXCEPT !.dest[n] = d]
             a == [actual EXCEPT !.dest[n] = d, !.tmp[n] = Missing]
  <2>1. Copy!Step("chmod", a, run.read, TRUE)
    BY <1>4 DEF Copy!Install, Copy!Changes, Copy!n, Copy!now
  <2>2. actual.tmp[n] \in Contents
    BY <1>4 DEF Copy!Install, Copy!At, CopyInv, CopyFilled
  <2>3. d \in [text : Contents \union {Torn}, mode : 1 .. 2] /\ d.text \in Contents
    BY <2>2
  <2> HIDE DEF d
  <2>4. a \in Copy!Hosts
        /\ \A other \in Copy!Names : a.dest[other] = IF other = n THEN d ELSE actual.dest[other]
    BY <1>1, <2>3 DEF Copy!Hosts
  <2> HIDE DEF a
  <2>5. \A name \in Copy!Names : a.dest[name] # Missing => a.dest[name].text # Torn
    BY <2>3, <2>4, CopyGiven DEF CopyInv, Copy!NeverTorn
  <2> QED
    BY <1>1, <1>3, <2>1, <2>4, <2>5
<1>5. CASE Copy!Chmod /\ ~Copy!Refuse
  <2>1. Copy!Following \in CopyReads
    <3>1. run.read.left # <<>>
      BY <1>1
    <3>2. Tail(run.read.left) \in Seq(Copy!Names)
      BY <1>1, <3>1 DEF CopyReads
    <3> QED
      BY <1>1, <3>2 DEF Copy!Following, Copy!now, CopyReads
  <2>2. CASE run.task.mode = 0
    BY <1>1, <1>3, <1>5, <2>1, <2>2 DEF Copy!Chmod, Copy!t, Copy!Reads, CopyInv, Copy!NeverTorn
  <2>3. CASE run.task.mode # 0
    <3> DEFINE d == [actual.dest[n] EXCEPT !.mode = run.task.mode]
               a == [actual EXCEPT !.dest[n] = d]
    <3>1. Copy!Step("look", a, Copy!Following, TRUE) /\ actual.dest[n] # Missing
      BY <1>5, <2>3 DEF Copy!Chmod, Copy!t, Copy!n, Copy!now
    <3>2. run.task.mode \in 1 .. 2
      BY <1>1, <2>3, CopyGiven
    <3>3. d \in [text : Contents \union {Torn}, mode : 1 .. 2] /\ d.text # Torn
      BY <1>1, <3>1, <3>2 DEF Copy!Hosts, CopyInv, Copy!NeverTorn
    <3> HIDE DEF d
    <3>4. a \in Copy!Hosts
          /\ \A other \in Copy!Names : a.dest[other] = IF other = n THEN d ELSE actual.dest[other]
      BY <1>1, <3>3, CopyChange
    <3> HIDE DEF a
    <3>5. \A name \in Copy!Names : a.dest[name] # Missing => a.dest[name].text # Torn
      BY <3>3, <3>4 DEF CopyInv, Copy!NeverTorn
    <3> QED
      BY <1>3, <2>1, <3>1, <3>4, <3>5
  <2> QED
    BY <2>2, <2>3
<1> QED
  BY <1>2, <1>4, <1>5 DEF Copy!Install, Copy!n, Copy!now

(* Others change a file of which no step is under way any more, or are     *)
(* noticed.                                                                *)
LEMMA CopyOutside == CopyInv /\ Copy!Outside => CopyInv'
<1> SUFFICES ASSUME CopyInv, Copy!Outside PROVE CopyInv'
  OBVIOUS
<1>1. PICK name \in Copy!Names :
        \/ \E x \in Contents \union {Missing} :
             Copy!Interferes([actual EXCEPT !.source[name] = x])
        \/ \E d \in [text : Contents, mode : {1}] \union {Missing} :
             Copy!Interferes([actual EXCEPT !.dest[name] = d])
        \/ Copy!Interferes([actual EXCEPT !.tmp[name] = Missing])
  BY CopyGiven DEF Copy!Outside, Copy!t
<1>2. actual \in Copy!Hosts
  BY DEF CopyInv, CopyTyped
<1>3. ASSUME NEW a \in Copy!Hosts, Copy!Interferes(a),
             \A other \in Copy!Names :
               /\ a.dest[other] # Missing => a.dest[other].text # Torn
               /\ a.tmp[other] \in {actual.tmp[other], Missing}
      PROVE CopyInv'
  <2>1. /\ run'.at = run.at /\ run'.read = run.read /\ run'.task = run.task
        /\ run'.mode = run.mode /\ (run.at = "idle" \/ run'.disturbed)
        /\ [run' EXCEPT !.read = Blank] \in Copy!RunStates(CopyTasks, Copy!Places, {})
        /\ memo' \in Copy!Memos /\ actual' = a
    BY <1>3 DEF Copy!Interferes, Copy!NoMemo, Copy!Memos, Copy!Forecasts, Copy!Idle, Copy!At,
       CopyInv, CopyTyped, Copy!RunStates
  <2>2. run.at = "install" => Head(run.read.left) \in Copy!Names
    BY DEF CopyInv, CopyTyped, CopyStarted, CopyReads
  <2> QED
    BY <1>3, <2>1, <2>2 DEF CopyInv, CopyTyped, CopyStarted, CopyFilled, CopySaved, Copy!NeverTorn,
       Copy!Checking
<1>4. CASE \E x \in Contents \union {Missing} : Copy!Interferes([actual EXCEPT !.source[name] = x])
  <2>1. PICK x \in Contents \union {Missing} :
             Copy!Interferes([actual EXCEPT !.source[name] = x])
    BY <1>4
  <2> DEFINE a == [actual EXCEPT !.source[name] = x]
  <2>2. a \in Copy!Hosts /\ a.dest = actual.dest /\ a.tmp = actual.tmp
    BY <1>2, CopyChange
  <2>3. Copy!Interferes(a)
    BY <2>1
  <2> HIDE DEF a
  <2> QED
    BY <1>3, <2>2, <2>3 DEF CopyInv, Copy!NeverTorn
<1>5. CASE \E d \in [text : Contents, mode : {1}] \union {Missing} :
             Copy!Interferes([actual EXCEPT !.dest[name] = d])
  <2>1. PICK d \in [text : Contents, mode : {1}] \union {Missing} :
             Copy!Interferes([actual EXCEPT !.dest[name] = d])
    BY <1>5
  <2> DEFINE a == [actual EXCEPT !.dest[name] = d]
  <2>2. d \in [text : Contents \union {Torn}, mode : 1 .. 2] \union {Missing}
        /\ (d # Missing => d.text # Torn)
    BY CopyGiven
  <2>3. /\ a \in Copy!Hosts /\ a.tmp = actual.tmp
        /\ \A other \in Copy!Names : a.dest[other] = IF other = name THEN d ELSE actual.dest[other]
    BY <1>2, <2>2, CopyChange
  <2>4. Copy!Interferes(a)
    BY <2>1
  <2> HIDE DEF a
  <2> QED
    BY <1>3, <2>2, <2>3, <2>4 DEF CopyInv, Copy!NeverTorn
<1>6. CASE Copy!Interferes([actual EXCEPT !.tmp[name] = Missing])
  <2> DEFINE a == [actual EXCEPT !.tmp[name] = Missing]
  <2>1. a \in Copy!Hosts /\ a.dest = actual.dest
        /\ \A other \in Copy!Names : a.tmp[other] \in {actual.tmp[other], Missing}
    BY <1>2 DEF Copy!Hosts
  <2> QED
    BY <1>3, <1>6, <2>1 DEF CopyInv, Copy!NeverTorn
<1> QED
  BY <1>1, <1>4, <1>5, <1>6

LEMMA CopyNext == CopyInv /\ [Copy!Next]_vars => CopyInv'
<1> SUFFICES ASSUME CopyInv, [Copy!Next]_vars PROVE CopyInv'
  OBVIOUS
<1>1. CASE UNCHANGED vars
  BY <1>1 DEF vars, CopyInv, CopyTyped, CopyStarted, CopyFilled, CopySaved, Copy!NeverTorn,
     Copy!Checking
<1>2. CASE Copy!CallError \/ Copy!Killed
  BY <1>2, CopyEnds DEF Copy!CallError, Copy!CallFails, Copy!Killed, Copy!Replies
<1>3. CASE Copy!Start \/ Copy!Steps \/ Copy!Outside
  BY <1>3, CopyStart, CopyLook, CopyBackup, CopyWrite, CopyInstall, CopyOutside DEF Copy!Steps
<1> QED
  BY <1>1, <1>2, <1>3 DEF Copy!Next

LEMMA CopySafe == CopyInv => Copy!TypeOK /\ Copy!NeverTorn /\ Copy!BackedUp
<1> SUFFICES ASSUME CopyInv PROVE Copy!TypeOK /\ Copy!NeverTorn /\ Copy!BackedUp
  OBVIOUS
<1>1. Copy!TypeOK
  BY DEF CopyInv, CopyTyped, CopyStarted, CopyReads, Copy!TypeOK
<1>2. Copy!BackedUp
  BY DEF CopyInv, CopySaved, Copy!BackedUp, Copy!At, Copy!t, Copy!n, Copy!now
<1> QED
  BY <1>1, <1>2 DEF CopyInv

-----------------------------------------------------------------------------
(* command, shell and script.                                              *)

CommandReads == [ran : BOOLEAN, failed : BOOLEAN]
CommandTyped ==
    /\ actual \in Command!Hosts /\ memo \in Command!Memos /\ ~Command!Checking
    /\ run \in Command!RunStates(CommandTasks, Command!Places, CommandReads)
    /\ run.at # "idle" => run.read \in CommandReads
(* From the upload to the start the script is all there.                   *)
CommandInv ==
    /\ CommandTyped
    /\ run.at \in {"chmod", "stat", "creates", "removes", "start"} /\ run.task.kind = "script"
         /\ ~run.disturbed => actual.script = Whole

LEMMA CommandInit == Command!Init => CommandInv
<1> SUFFICES ASSUME Command!Init PROVE CommandInv
  OBVIOUS
<1>1. actual \in Command!Hosts /\ memo \in Command!Memos
  BY DEF Command!Init, Command!InitRuns, Command!Hosts, Command!NoMemo, Command!Memos,
     Command!Forecasts
<1>2. PICK task \in CommandTasks : run = Command!Rest(task, Blank)
  BY DEF Command!Init, Command!InitRuns
<1>3. /\ run \in Command!RunStates(CommandTasks, Command!Places, CommandReads)
      /\ run.at = "idle" /\ run.mode = "apply"
  BY <1>2 DEF Command!Rest, Command!RunStates, Command!Replies, Command!Forecasts
<1> QED
  BY <1>1, <1>3 DEF CommandInv, CommandTyped, Command!Checking

LEMMA CommandStep ==
    ASSUME CommandTyped, NEW place \in Command!Places, NEW a \in Command!Hosts,
           NEW r \in CommandReads, NEW c \in BOOLEAN, Command!Step(place, a, r, c)
    PROVE CommandTyped' /\ actual' = a /\ run'.at = place /\ run'.task = run.task
          /\ run'.disturbed = run.disturbed
<1>1. /\ run' \in Command!RunStates(CommandTasks, Command!Places, CommandReads)
      /\ run'.at = place /\ run'.read = r /\ run'.task = run.task
      /\ run'.disturbed = run.disturbed /\ run'.mode = run.mode
  BY DEF Command!Step, CommandTyped, Command!RunStates
<1>2. memo' \in Command!Memos
  BY DEF Command!Step, CommandTyped, Command!Memos, Command!NoMemo, Command!Forecasts
<1> QED
  BY <1>1, <1>2 DEF Command!Step, CommandTyped, Command!Checking

LEMMA CommandEnds ==
    ASSUME CommandTyped, NEW reply \in Command!Replies, NEW c \in BOOLEAN,
           Command!Ends(reply, c), actual' \in Command!Hosts, memo' \in Command!Memos
    PROVE CommandInv'
<1>1. /\ run' \in Command!RunStates(CommandTasks, Command!Places, CommandReads)
      /\ run'.at = "idle" /\ run'.mode = run.mode
  BY DEF Command!Ends, CommandTyped, Command!RunStates
<1> QED
  BY <1>1 DEF CommandInv, CommandTyped, Command!Checking

LEMMA CommandNext == CommandInv /\ [Command!Next]_vars => CommandInv'
<1> SUFFICES ASSUME CommandInv, [Command!Next]_vars PROVE CommandInv'
  OBVIOUS
<1>1. /\ actual \in Command!Hosts /\ memo \in Command!Memos /\ CommandTyped
      /\ run.changed \in BOOLEAN /\ (run.at # "idle" => run.read \in CommandReads)
  BY DEF CommandInv, CommandTyped, Command!RunStates
<1>2. ASSUME NEW reply \in Command!Replies, Command!Stops(reply) PROVE CommandInv'
  BY <1>1, <1>2, CommandEnds DEF Command!Stops
<1>3. Command!Refuse \/ Command!CallError \/ Command!Killed => CommandInv'
  BY <1>2 DEF Command!Refuse, Command!CallError, Command!CallFails, Command!Killed, Command!Replies
<1>4. ASSUME NEW c \in BOOLEAN, Command!Answer(c) PROVE CommandInv'
  <2>1. memo' \in Command!Memos
    BY <1>1, <1>4 DEF Command!Answer, Command!Memos, Command!Forecasts
  <2> QED
    BY <1>1, <1>4, <2>1, CommandEnds DEF Command!Answer, Command!Replies
<1>5. ASSUME NEW ran \in BOOLEAN, NEW failed \in BOOLEAN, NEW a \in Command!Hosts,
             Command!Result(ran, failed, a)
      PROVE CommandInv'
  <2>1. CASE Command!Step("cleanup", a, [ran |-> ran, failed |-> failed], ran)
    <3>1. [ran |-> ran, failed |-> failed] \in CommandReads
      BY DEF CommandReads
    <3> QED
      BY <1>1, <2>1, <3>1, CommandStep DEF CommandInv, Command!Places
  <2>2. CASE actual' = a /\ Command!Ends("refused", FALSE) /\ memo' = Command!NoMemo
    BY <1>1, <2>2, CommandEnds
       DEF Command!Replies, Command!NoMemo, Command!Memos, Command!Forecasts
  <2>3. CASE ~failed /\ Command!Step("cleanup", a, [ran |-> ran, failed |-> FALSE], ran)
    <3>1. failed = FALSE
      BY <2>3
    <3> QED
      BY <2>1, <2>3, <3>1
  <2> QED
    BY <1>5, <2>1, <2>2, <2>3 DEF Command!Result
<1>6. ASSUME NEW place \in Command!Places, NEW a \in Command!Hosts, NEW c \in BOOLEAN,
             run.at # "idle", Command!Step(place, a, run.read, c),
             \/ place \in {"write", "cleanup"}
             \/ a.script = Whole
             \/ /\ run.at \in {"chmod", "stat", "creates", "removes", "start"}
                /\ a.script = actual.script
      PROVE CommandInv'
  BY <1>1, <1>6, CommandStep DEF CommandInv
<1>7. CASE UNCHANGED vars
  BY <1>7 DEF vars, CommandInv, CommandTyped, Command!Checking
<1>8. CASE Command!Start
  <2>1. PICK task \in CommandTasks :
          Command!Begin(task, "apply", IF task.kind = "script" THEN "upload" ELSE "creates",
                        Command!Nothing)
    BY <1>8 DEF Command!Start
  <2>2. /\ run' \in Command!RunStates(CommandTasks, Command!Places, CommandReads)
        /\ run'.read \in CommandReads /\ run'.mode = "apply" /\ run'.task = task
        /\ run'.at = IF task.kind = "script" THEN "upload" ELSE "creates"
        /\ memo' \in Command!Memos /\ actual' = actual
    BY <1>1, <2>1 DEF Command!Begin, Command!Rest, Command!RunStates, Command!Replies,
       Command!Places, Command!Nothing, CommandReads, Command!Memos, Command!NoMemo,
       Command!Forecasts
  <2> QED
    BY <1>1, <2>2 DEF CommandInv, CommandTyped, Command!Checking
<1>9. CASE Command!Upload \/ Command!FinishUpload
  <2>1. /\ [actual EXCEPT !.script = Torn] \in Command!Hosts
        /\ [actual EXCEPT !.script = Whole] \in Command!Hosts
        /\ [actual EXCEPT !.script = Whole].script = Whole
    BY <1>1 DEF Command!Hosts
  <2> QED
    BY <1>6, <1>9, <2>1 DEF Command!Upload, Command!FinishUpload, Command!At, Command!now,
       Command!Places
<1>10. CASE Command!Chmod \/ Command!StatScript \/ Command!CheckCreates \/ Command!CheckRemoves
  BY <1>1, <1>3, <1>5, <1>6, <1>10 DEF Command!Chmod, Command!StatScript, Command!CheckCreates,
     Command!CheckRemoves, Command!At, Command!Goto, Command!Places
<1>11. CASE Command!Execute
  <2>1. Command!Effect \in Command!Hosts
    <3> DEFINE made == actual.made \/ run.task.creates
               there == actual.there /\ ~run.task.removes
    <3>1. made \in BOOLEAN /\ there \in BOOLEAN
      BY <1>1 DEF Command!Hosts, CommandTyped, Command!RunStates
    <3>2. Command!Effect = [actual EXCEPT !.made = made, !.there = there]
      BY DEF Command!Effect, Command!t
    <3> HIDE DEF made, there
    <3> QED
      BY <1>1, <3>1, <3>2 DEF Command!Hosts
  <2> QED
    BY <1>1, <1>5, <1>11, <2>1 DEF Command!Execute
<1>12. CASE Command!CleanUp
  <2>1. [actual EXCEPT !.script = Missing] \in Command!Hosts
    BY <1>1 DEF Command!Hosts
  <2> QED
    BY <1>1, <1>3, <1>4, <1>6, <1>12, <2>1 DEF Command!CleanUp, Command!At, Command!now,
       Command!Places
<1>13. CASE Command!Outside
  <2>1. PICK a \in Command!Hosts : Command!Interferes(a)
    BY <1>1, <1>13 DEF Command!Outside, Command!Hosts
  <2>2. /\ run' \in Command!RunStates(CommandTasks, Command!Places, CommandReads)
        /\ run'.at = run.at /\ run'.read = run.read /\ run'.mode = run.mode
        /\ run'.task = run.task /\ (run.at = "idle" \/ run'.disturbed)
        /\ memo' \in Command!Memos /\ actual' = a
    BY <1>1, <2>1 DEF Command!Interferes, Command!Idle, Command!At, Command!NoMemo, Command!Memos,
       Command!Forecasts, CommandTyped, Command!RunStates
  <2> QED
    BY <1>1, <2>2 DEF CommandInv, CommandTyped, Command!Checking
<1> QED
  BY <1>3, <1>7, <1>8, <1>9, <1>10, <1>11, <1>12, <1>13 DEF Command!Next, Command!Steps

LEMMA CommandSafe == CommandInv => Command!TypeOK /\ Command!WholeScripts
  BY DEF CommandInv, CommandTyped, CommandReads, Command!TypeOK, Command!WholeScripts, Command!At,
         Command!t

-----------------------------------------------------------------------------
(* All of them.                                                            *)

(* The inductive invariant: that of the module that the agent runs.        *)
FilesInv ==
    \/ module = "lineinfile" /\ LineInv
    \/ module = "blockinfile" /\ BlockInv
    \/ module = "replace" /\ ReplaceInv
    \/ module = "template" /\ TemplateInv
    \/ module = "copy" /\ CopyInv
    \/ module = "command" /\ CommandInv

LEMMA FilesInit == Init => FilesInv
  BY LineInit, BlockInit, ReplaceInit, TemplateInit, CopyInit, CommandInit DEF Init, FilesInv

LEMMA FilesNext == FilesInv /\ [Next]_all => FilesInv'
<1> SUFFICES ASSUME FilesInv, [Next]_all PROVE FilesInv'
  OBVIOUS
<1>1. module' = module
  BY DEF Next, all
<1>2. CASE module = "lineinfile"
  BY <1>1, <1>2, LineNext DEF FilesInv, Next, all
<1>3. CASE module = "blockinfile"
  BY <1>1, <1>3, BlockNext DEF FilesInv, Next, all
<1>4. CASE module = "replace"
  BY <1>1, <1>4, ReplaceNext DEF FilesInv, Next, all
<1>5. CASE module = "template"
  BY <1>1, <1>5, TemplateNext DEF FilesInv, Next, all
<1>6. CASE module = "copy"
  BY <1>1, <1>6, CopyNext DEF FilesInv, Next, all
<1>7. CASE module = "command"
  BY <1>1, <1>7, CommandNext DEF FilesInv, Next, all
<1> QED
  BY <1>2, <1>3, <1>4, <1>5, <1>6, <1>7 DEF FilesInv

LEMMA FilesSafe == FilesInv => TypeOK /\ WholeFiles /\ SafeEdits
  BY LineSafe, BlockSafe, ReplaceSafe, TemplateSafe, CopySafe, CommandSafe
     DEF FilesInv, TypeOK, WholeFiles, SafeEdits

(* The modules that write files are in no state but those they are meant   *)
(* to be in.                                                               *)
THEOREM FileTypes == Spec => []TypeOK
<1>1. Init => FilesInv
  BY FilesInit
<1>2. FilesInv /\ [Next]_all => FilesInv'
  BY FilesNext
<1>3. FilesInv => TypeOK
  BY FilesSafe
<1> QED
  BY <1>1, <1>2, <1>3, PTL DEF Spec

(* No file is ever seen half written, whatever task is killed, and what is *)
(* replaced was backed up as it was; a script that runs is complete.       *)
THEOREM FilesAreWhole == Spec => []WholeFiles
<1>1. Init => FilesInv
  BY FilesInit
<1>2. FilesInv /\ [Next]_all => FilesInv'
  BY FilesNext
<1>3. FilesInv => WholeFiles
  BY FilesSafe
<1> QED
  BY <1>1, <1>2, <1>3, PTL DEF Spec

(* The lines and words a task is not about are left alone.                 *)
THEOREM EditsAreSafe == Spec => []SafeEdits
<1>1. Init => FilesInv
  BY FilesInit
<1>2. FilesInv /\ [Next]_all => FilesInv'
  BY FilesNext
<1>3. FilesInv => SafeEdits
  BY FilesSafe
<1> QED
  BY <1>1, <1>2, <1>3, PTL DEF Spec

(* A template that is not forced leaves the text of a file alone, and one  *)
(* that does not follow links the file behind a link, in every step.       *)
THEOREM TemplatesRespect == Spec => Respects
<1>1. Init => FilesInv
  BY FilesInit
<1>2. FilesInv /\ [Next]_all => FilesInv'
  BY FilesNext
<1>3. FilesInv /\ [Next]_all => [module = "template" => Template!Respects]_all
  BY TemplateRespects DEF FilesInv, Next, all
<1> QED
  BY <1>1, <1>2, <1>3, PTL DEF Spec, Respects

=============================================================================

---------------------------- MODULE Progress_proofs ----------------------------
(***************************************************************************)
(* Proofs about Progress, for any actions, layers and number of ticks:     *)
(* every start that is printed is answered once, and the heartbeat says    *)
(* nothing once the summary has begun and hardly anything that is not so.  *)
(***************************************************************************)
EXTENDS Progress, FiniteSetTheorems, SequenceTheorems, TLAPS

-----------------------------------------------------------------------------
(* The invariant.                                                          *)

Running == {a \in Actions : st[a] = "running"}

IsSequence(s) == s \in Seq({s[i] : i \in DOMAIN s})

TypeCorrect ==
    /\ pc \in {"edge", "layer", "starting", "ending", "reconciling", "unwinding", "told",
               "broken", "summary"} \cup Over
    /\ st \in [Actions -> {"nothing", "running"} \cup Outcomes]
    /\ inFlight \subseteq Actions /\ vanished \subseteq Actions /\ seen \subseteq Actions
    /\ IsSequence(lines)
    /\ hb \in {"asleep", "awake", "printing", "gone"}

\* While its layer is open an action that runs is in flight; when a panic has
\* closed the layer, it has vanished.
Placed ==
    /\ \A a \in Running : a \in plan /\ LayerOf[a] = layer
    /\ pc \in {"layer", "starting", "ending"} => inFlight = Running /\ vanished = {}
    /\ pc \in {"unwinding", "unwound"} => inFlight = {} /\ vanished \subseteq Running
    /\ pc \in {"edge", "reconciling", "told", "broken", "summary", "returned"} =>
         Running = {} /\ inFlight = {} /\ vanished = {}
    /\ pc = "unwound" => vanished = {}
    /\ pc = "starting" => hand \in Running
    /\ pc = "ending" => hand \in Actions /\ st[hand] \in Outcomes

Unsaid(a)   == pc \in {"starting", "ending"} /\ hand = a
Started(a)  == st[a] \in Outcomes \/ (st[a] = "running" /\ ~(pc = "starting" /\ Unsaid(a)))
Ended(a)    == st[a] \in Outcomes /\ ~(pc = "ending" /\ Unsaid(a))
Lost(a)     == st[a] = "running" /\ a \notin inFlight \cup vanished
Once(S, is) == IF is THEN \E i : S = {i} ELSE S = {}

\* What has been printed about an action is where it stands.
Accounted(a) ==
    /\ Once(At("start", a), Started(a))
    /\ Once(AnswersTo(a), Ended(a) \/ Lost(a))
    /\ Lost(a) => At("vanished", a) # {}

\* The lines that call an action still running when it is not.
Late(a) == {j \in At("still", a) : \E i \in AnswersTo(a) : i < j}

\* Who may yet be called so has not been.
Timely(a) ==
    /\ \A i, j \in Late(a) : i = j
    /\ a \in inFlight \cup seen => Late(a) = {}

InSummary(i) == lines[i].sign \in {"count", "cross"}

\* Once the summary has begun, there is nobody left to print.
Summed ==
    /\ \A i, j \in 1..Len(lines) : i < j /\ InSummary(i) => InSummary(j)
    /\ (\E i \in 1..Len(lines) : InSummary(i)) => pc \in {"summary", "returned"}
    /\ pc \in {"summary", "returned"} => hb = "gone"

Inductive ==
    /\ TypeCorrect /\ Placed /\ Summed
    /\ \A a \in Actions : Accounted(a) /\ Timely(a)

-----------------------------------------------------------------------------
(* Lines.                                                                  *)

\* What one more line changes.
LEMMA SayAdds ==
    ASSUME IsSequence(lines), NEW sign, NEW x, Say(sign, x)
    PROVE  /\ IsSequence(lines')
           /\ Len(lines) \in Nat /\ Len(lines') = Len(lines) + 1
           /\ \A i \in 1..Len(lines) : lines'[i] = lines[i]
           /\ lines'[Len(lines) + 1] = Line(sign, x)
<1> DEFINE S == {lines[i] : i \in DOMAIN lines} \cup {Line(sign, x)}
<1>1. lines \in Seq(S)
    BY SeqMonotonic DEF IsSequence
<1>2. lines' = Append(lines, Line(sign, x)) /\ Line(sign, x) \in S
    BY DEF Say
<1> HIDE DEF S
<1>3. /\ lines' \in Seq(S)
      /\ Len(lines) \in Nat /\ Len(lines') = Len(lines) + 1
      /\ \A i \in 1..Len(lines) : lines'[i] = lines[i]
      /\ lines'[Len(lines) + 1] = Line(sign, x)
    BY <1>1, <1>2
<1>4. IsSequence(lines')
    <2> DEFINE T == {lines'[i] : i \in DOMAIN lines'}
    <2>1. lines' \in [1..Len(lines') -> T] /\ Len(lines') \in Nat
        BY <1>3
    <2> HIDE DEF T
    <2>2. lines' \in Seq(T)
        BY <2>1
    <2> QED
        BY <2>2 DEF IsSequence, T
<1> QED
    BY <1>3, <1>4

LEMMA SayAt ==
    ASSUME IsSequence(lines), NEW sign, NEW x, Say(sign, x), NEW s, NEW a
    PROVE  At(s, a)' = IF s = sign /\ a = x THEN At(s, a) \cup {Len(lines) + 1} ELSE At(s, a)
<1>1. Line(s, a) = Line(sign, x) <=> s = sign /\ a = x
    BY DEF Line
<1> QED
    BY <1>1, SayAdds DEF At

LEMMA SayAnswers ==
    ASSUME IsSequence(lines), NEW sign, NEW x, Say(sign, x), NEW a
    PROVE  AnswersTo(a)' = IF sign \in Answers /\ a = x THEN AnswersTo(a) \cup {Len(lines) + 1}
                                                         ELSE AnswersTo(a)
<1>1. \A s : At(s, a)' = IF s = sign /\ a = x THEN At(s, a) \cup {Len(lines) + 1} ELSE At(s, a)
    BY SayAt
<1> QED
    BY <1>1 DEF AnswersTo

LEMMA AtAreLines ==
    ASSUME NEW s, NEW a
    PROVE  At(s, a) \subseteq 1..Len(lines) /\ AnswersTo(a) \subseteq 1..Len(lines)
BY DEF At, AnswersTo

LEMMA SayLate ==
    ASSUME IsSequence(lines), NEW sign, NEW x, Say(sign, x), NEW a
    PROVE  Late(a)' = IF sign = "still" /\ a = x /\ AnswersTo(a) # {}
                      THEN Late(a) \cup {Len(lines) + 1} ELSE Late(a)
<1>1. At("still", a)' = IF sign = "still" /\ a = x THEN At("still", a) \cup {Len(lines) + 1}
                                                   ELSE At("still", a)
    BY SayAt
<1>2. AnswersTo(a)' = IF sign \in Answers /\ a = x THEN AnswersTo(a) \cup {Len(lines) + 1}
                                                    ELSE AnswersTo(a)
    BY SayAnswers
<1>3. "still" \notin Answers
    BY DEF Answers, Outcomes
<1>4. /\ At("still", a) \subseteq 1..Len(lines) /\ AnswersTo(a) \subseteq 1..Len(lines)
      /\ Len(lines) \in Nat
    BY AtAreLines, SayAdds
<1> QED
    BY <1>1, <1>2, <1>3, <1>4 DEF Late

\* A line changes nothing else that is counted.
LEMMA SayLeaves ==
    ASSUME IsSequence(lines), NEW sign, NEW x, Say(sign, x), NEW a,
           a # x \/ sign \notin Answers \cup {"start", "still"}
    PROVE  /\ UNCHANGED <<At("start", a), AnswersTo(a), Late(a)>>
           /\ At("vanished", a) \subseteq At("vanished", a)'
BY SayAt, SayAnswers, SayLate

\* Nor does silence.
LEMMA SilenceLeaves ==
    ASSUME UNCHANGED lines, NEW a
    PROVE  UNCHANGED <<At("start", a), At("vanished", a), AnswersTo(a), Late(a)>>
BY DEF At, AnswersTo, Late

\* Before the summary, and when a line of it follows.
LEMMA SaySummed ==
    ASSUME IsSequence(lines), Summed, NEW sign, NEW x, Say(sign, x),
           \/ sign \notin {"count", "cross"} /\ pc \notin {"summary", "returned"}
           \/ sign \in {"count", "cross"} /\ pc' = "summary",
           pc' \in {"summary", "returned"} => hb' = "gone"
    PROVE  Summed'
<1>1. /\ Len(lines) \in Nat /\ Len(lines') = Len(lines) + 1
      /\ \A i \in 1..Len(lines) : lines'[i] = lines[i]
      /\ lines'[Len(lines) + 1] = Line(sign, x)
    BY SayAdds
<1>2. lines'[Len(lines) + 1].sign = sign
    BY <1>1 DEF Line
<1>3. \A i \in 1..Len(lines') : i \in 1..Len(lines) \/ i = Len(lines) + 1
    BY <1>1
<1>4. CASE sign \notin {"count", "cross"} /\ pc \notin {"summary", "returned"}
    BY <1>1, <1>2, <1>3, <1>4 DEF Summed, InSummary
<1>5. CASE sign \in {"count", "cross"} /\ pc' = "summary"
    BY <1>1, <1>2, <1>3, <1>5 DEF Summed, InSummary
<1> QED
    BY <1>4, <1>5

LEMMA SilenceSummed ==
    ASSUME Summed, UNCHANGED lines,
           pc \in {"summary", "returned"} => pc' \in {"summary", "returned"},
           pc' \in {"summary", "returned"} => hb' = "gone"
    PROVE  Summed'
BY DEF Summed, InSummary

-----------------------------------------------------------------------------
(* What a step means for one action.                                       *)

LEMMA InFlightRuns ==
    ASSUME Inductive, NEW a \in inFlight
    PROVE  st[a] = "running" /\ AnswersTo(a) = {}
<1>1. st[a] = "running"
    BY DEF Inductive, TypeCorrect, Placed, Running, Over
<1>2. ~Ended(a) /\ ~Lost(a) /\ a \in Actions
    BY <1>1 DEF Inductive, TypeCorrect, Ended, Lost, Outcomes
<1> QED
    BY <1>1, <1>2 DEF Inductive, Accounted, Once

\* Whoever stands as before, of whom nothing is said, is accounted for.
LEMMA Undisturbed ==
    ASSUME Inductive, NEW a \in Actions,
           UNCHANGED <<At("start", a), AnswersTo(a), Late(a)>>,
           At("vanished", a) \subseteq At("vanished", a)',
           Started(a)' <=> Started(a),
           Ended(a)' <=> Ended(a),
           Lost(a)' <=> Lost(a),
           a \in inFlight' \cup seen' => a \in inFlight \cup seen \/ st[a] = "nothing"
    PROVE  Accounted(a)' /\ Timely(a)'
<1>1. Accounted(a) /\ Timely(a)
    BY DEF Inductive
<1>2. Accounted(a)'
    BY <1>1 DEF Accounted, Once
<1>3. st[a] = "nothing" => Late(a) = {}
    BY <1>1 DEF Accounted, Once, Ended, Lost, Late, Outcomes
<1>4. Timely(a)'
    BY <1>1, <1>3 DEF Timely
<1> QED
    BY <1>2, <1>4

\* Of a step that prints nothing.
LEMMA Silent ==
    ASSUME Inductive, UNCHANGED lines,
           \A a \in Actions :
             /\ Started(a)' <=> Started(a)
             /\ Ended(a)' <=> Ended(a)
             /\ Lost(a)' <=> Lost(a)
             /\ a \in inFlight' \cup seen' => a \in inFlight \cup seen \/ st[a] = "nothing"
    PROVE  \A a \in Actions : Accounted(a)' /\ Timely(a)'
<1> TAKE a \in Actions
<1>1. /\ UNCHANGED <<At("start", a), AnswersTo(a), Late(a)>>
      /\ At("vanished", a) \subseteq At("vanished", a)'
    BY SilenceLeaves
<1> QED
    BY <1>1, Undisturbed

\* Of one that does, for those it does not speak of.
LEMMA Unmentioned ==
    ASSUME Inductive, NEW sign, NEW x, Say(sign, x), NEW a \in Actions,
           a # x \/ sign \notin Answers \cup {"start", "still"},
           Started(a)' <=> Started(a),
           Ended(a)' <=> Ended(a),
           Lost(a)' <=> Lost(a),
           a \in inFlight' \cup seen' => a \in inFlight \cup seen
    PROVE  Accounted(a)' /\ Timely(a)'
<1>1. /\ UNCHANGED <<At("start", a), AnswersTo(a), Late(a)>>
      /\ At("vanished", a) \subseteq At("vanished", a)'
    BY SayLeaves DEF Inductive, TypeCorrect
<1> QED
    BY <1>1, Undisturbed

-----------------------------------------------------------------------------
(* The engine's callbacks.                                                 *)

LEMMA InductiveInit == Init => Inductive
<1> SUFFICES ASSUME Init PROVE Inductive
    OBVIOUS
<1> USE DEF Init
<1>1. IsSequence(lines) /\ Len(lines) = 0
    BY DEF IsSequence
<1>2. TypeCorrect
    BY <1>1 DEF TypeCorrect, Over
<1>3. Placed /\ Summed
    BY <1>1 DEF Placed, Summed, Running, Outcomes
<1>4. ASSUME NEW a \in Actions PROVE Accounted(a) /\ Timely(a)
    <2>1. st[a] = "nothing" /\ \A s : At(s, a) = {}
        BY <1>1 DEF At
    <2>2. AnswersTo(a) = {}
        BY <2>1 DEF AnswersTo
    <2> QED
        BY <2>1, <2>2 DEF Accounted, Once, Started, Ended, Lost, Outcomes, Timely, Late
<1> QED
    BY <1>2, <1>3, <1>4 DEF Inductive

LEMMA LayerStartKeeps == Inductive /\ OnLayerStart => Inductive'
<1> SUFFICES ASSUME Inductive, OnLayerStart PROVE Inductive'
    OBVIOUS
<1> USE DEF OnLayerStart, Engine!LayerStart, heartbeat
<1>1. TypeCorrect' /\ Placed'
    BY SayAdds DEF Inductive, TypeCorrect, Placed, Running
<1>2. Summed'
    BY SaySummed DEF Inductive, TypeCorrect
<1>3. ASSUME NEW a \in Actions PROVE Accounted(a)' /\ Timely(a)'
    BY Unmentioned DEF Answers, Outcomes, Started, Ended, Lost, Unsaid
<1> QED
    BY <1>1, <1>2, <1>3 DEF Inductive

LEMMA ActionStartKeeps == ASSUME NEW a \in Actions PROVE Inductive /\ OnActionStart(a) => Inductive'
<1> SUFFICES ASSUME Inductive, OnActionStart(a) PROVE Inductive'
    OBVIOUS
<1> USE DEF OnActionStart, Engine!ActionStart, Engine!Members, heartbeat
<1>1. TypeCorrect'
    BY DEF Inductive, TypeCorrect
<1>2. Running' = Running \cup {a}
    BY DEF Running, Inductive, TypeCorrect
<1>3. Placed'
    BY <1>2 DEF Inductive, Placed
<1>4. Summed'
    BY SilenceSummed DEF Inductive
<1>5. ASSUME NEW b \in Actions
      PROVE  /\ Started(b)' <=> Started(b)
             /\ Ended(b)' <=> Ended(b)
             /\ Lost(b)' <=> Lost(b)
             /\ b \in inFlight' \cup seen' => b \in inFlight \cup seen \/ st[b] = "nothing"
    BY DEF Started, Ended, Lost, Unsaid, Outcomes, Inductive, TypeCorrect
<1>6. \A b \in Actions : Accounted(b)' /\ Timely(b)'
    BY <1>5, Silent
<1> QED
    BY <1>1, <1>3, <1>4, <1>6 DEF Inductive

LEMMA PrintStartKeeps == Inductive /\ PrintStart => Inductive'
<1> SUFFICES ASSUME Inductive, PrintStart PROVE Inductive'
    OBVIOUS
<1> USE DEF PrintStart, engine, heartbeat
<1>0. Say("start", hand) /\ IsSequence(lines)
    BY DEF Inductive, TypeCorrect
<1>1. TypeCorrect' /\ Placed'
    BY <1>0, SayAdds DEF Inductive, TypeCorrect, Placed, Running
<1>2. Summed'
    BY <1>0, SaySummed DEF Inductive
<1>3. ASSUME NEW a \in Actions, a # hand PROVE Accounted(a)' /\ Timely(a)'
    BY <1>0, <1>3, Unmentioned DEF Started, Ended, Lost, Unsaid
<1>4. ASSUME NEW a \in Actions, a = hand PROVE Accounted(a)' /\ Timely(a)'
    <2>1. Accounted(a) /\ Timely(a) /\ st[a] = "running" /\ a \in inFlight
        BY <1>4 DEF Inductive, Placed, Running
    <2>2. At("start", a)' = At("start", a) \cup {Len(lines) + 1}
        BY <1>0, <1>4, SayAt
    <2>3. UNCHANGED <<AnswersTo(a), Late(a)>>
        BY <1>0, <1>4, SayAnswers, SayLate DEF Answers, Outcomes
    <2>4. ~Started(a) /\ Started(a)'
        BY <1>4, <2>1 DEF Started, Unsaid, Outcomes
    <2>5. ~Ended(a) /\ ~Ended(a)' /\ ~Lost(a) /\ ~Lost(a)'
        BY <2>1 DEF Ended, Lost, Outcomes
    <2>6. Once(At("start", a), Started(a))'
        BY <2>1, <2>2, <2>4 DEF Accounted, Once
    <2>7. Once(AnswersTo(a), Ended(a) \/ Lost(a))'
        BY <2>1, <2>3, <2>5 DEF Accounted, Once
    <2> QED
        BY <2>1, <2>3, <2>5, <2>6, <2>7 DEF Accounted, Timely
<1> QED
    BY <1>1, <1>2, <1>3, <1>4 DEF Inductive

LEMMA ActionEndKeeps ==
    ASSUME NEW a \in Actions, NEW outcome \in Outcomes
    PROVE  Inductive /\ OnActionEnd(a, outcome) => Inductive'
<1> SUFFICES ASSUME Inductive, OnActionEnd(a, outcome) PROVE Inductive'
    OBVIOUS
<1> USE DEF OnActionEnd, Engine!ActionEnd, heartbeat
<1>0. outcome \notin {"nothing", "running"} /\ st[a] = "running" /\ st'[a] = outcome
    BY DEF Outcomes, Running, Inductive, TypeCorrect
<1>1. TypeCorrect'
    BY DEF Inductive, TypeCorrect, Forgotten
<1>2. Running' = Running \ {a}
    BY <1>0 DEF Running, Inductive, TypeCorrect
<1>3. Placed'
    BY <1>0, <1>2 DEF Inductive, Placed, Forgotten
<1>4. Summed'
    BY SilenceSummed DEF Inductive
<1>5. ASSUME NEW b \in Actions
      PROVE  /\ Started(b)' <=> Started(b)
             /\ Ended(b)' <=> Ended(b)
             /\ Lost(b)' <=> Lost(b)
             /\ b \in inFlight' \cup seen' => b \in inFlight \cup seen \/ st[b] = "nothing"
    <2>1. CASE b = a
        <3>1. a \in inFlight /\ ~Lost(a) /\ ~Ended(a) /\ Started(a)
            BY <1>0 DEF Started, Ended, Lost, Unsaid, Outcomes, Inductive, Placed, Running
        <3>2. ~Lost(a)' /\ ~Ended(a)' /\ Started(a)'
            BY <1>0 DEF Started, Ended, Lost, Unsaid
        <3> QED
            BY <2>1, <3>1, <3>2
    <2>2. CASE b # a
        <3>1. st'[b] = st[b]
            BY <2>2 DEF Inductive, TypeCorrect
        <3> QED
            BY <2>2, <3>1 DEF Started, Ended, Lost, Unsaid, Forgotten
    <2> QED
        BY <2>1, <2>2
<1>6. \A b \in Actions : Accounted(b)' /\ Timely(b)'
    BY <1>5, Silent
<1> QED
    BY <1>1, <1>3, <1>4, <1>6 DEF Inductive

LEMMA PrintEndKeeps == Inductive /\ PrintEnd => Inductive'
<1> SUFFICES ASSUME Inductive, PrintEnd PROVE Inductive'
    OBVIOUS
<1> USE DEF PrintEnd, engine, heartbeat
<1>0. Say(st[hand], hand) /\ IsSequence(lines) /\ st[hand] \in Outcomes
    BY DEF Inductive, TypeCorrect, Placed
<1>1. TypeCorrect' /\ Placed'
    BY <1>0, SayAdds DEF Inductive, TypeCorrect, Placed, Running
<1>2. Summed'
    BY <1>0, SaySummed DEF Inductive, Outcomes
<1>3. ASSUME NEW a \in Actions, a # hand PROVE Accounted(a)' /\ Timely(a)'
    BY <1>0, <1>3, Unmentioned DEF Started, Ended, Lost, Unsaid
<1>4. ASSUME NEW a \in Actions, a = hand PROVE Accounted(a)' /\ Timely(a)'
    <2>1. Accounted(a) /\ Timely(a) /\ st[a] \in Outcomes
        BY <1>0, <1>4 DEF Inductive
    <2>2. AnswersTo(a)' = AnswersTo(a) \cup {Len(lines) + 1}
        BY <1>0, <1>4, SayAnswers DEF Answers
    <2>3. UNCHANGED <<At("start", a), Late(a)>>
        BY <1>0, <1>4, SayAt, SayLate DEF Outcomes
    <2>4. ~Ended(a) /\ Ended(a)' /\ ~Lost(a) /\ ~Lost(a)'
        BY <1>4, <2>1 DEF Ended, Lost, Unsaid, Outcomes
    <2>5. Started(a) /\ Started(a)'
        BY <2>1 DEF Started
    <2>6. Once(At("start", a), Started(a))'
        BY <2>1, <2>3, <2>5 DEF Accounted, Once
    <2>7. Once(AnswersTo(a), Ended(a) \/ Lost(a))'
        BY <2>1, <2>2, <2>4 DEF Accounted, Once
    <2> QED
        BY <2>1, <2>3, <2>4, <2>6, <2>7 DEF Accounted, Timely
<1> QED
    BY <1>1, <1>2, <1>3, <1>4 DEF Inductive

\* Nothing vanishes from a layer that ends.
LEMMA LayerEndKeeps == Inductive /\ OnLayerEnd => Inductive'
<1> SUFFICES ASSUME Inductive, OnLayerEnd PROVE Inductive'
    OBVIOUS
<1> USE DEF OnLayerEnd, Engine!LayerEnd, heartbeat
<1>1. Running = {} /\ inFlight = {}
    BY DEF Inductive, Placed, Engine!Members, Engine!Outcomes, Running
<1>2. TypeCorrect' /\ Placed'
    BY <1>1 DEF Inductive, TypeCorrect, Placed, Running, Vanished
<1>3. Summed'
    BY SilenceSummed DEF Inductive
<1>4. \A a \in Actions : Accounted(a)' /\ Timely(a)'
    BY <1>1, Silent DEF Started, Ended, Lost, Unsaid, Running
<1> QED
    BY <1>2, <1>3, <1>4 DEF Inductive

LEMMA PanicKeeps == Inductive /\ OnPanic => Inductive'
<1> SUFFICES ASSUME Inductive, OnPanic PROVE Inductive'
    OBVIOUS
<1> USE DEF OnPanic, Engine!LayerUnwound, heartbeat
<1>1. inFlight = Running /\ vanished = {}
    BY DEF Inductive, Placed
<1>2. TypeCorrect' /\ Placed'
    BY <1>1 DEF Inductive, TypeCorrect, Placed, Running, Vanished
<1>3. Summed'
    BY SilenceSummed DEF Inductive
<1>4. \A a \in Actions : Accounted(a)' /\ Timely(a)'
    BY <1>1, Silent DEF Started, Ended, Lost, Unsaid, Vanished
<1> QED
    BY <1>2, <1>3, <1>4 DEF Inductive

LEMMA PrintVanishedKeeps == ASSUME NEW a \in Actions PROVE Inductive /\ PrintVanished(a) => Inductive'
<1> SUFFICES ASSUME Inductive, PrintVanished(a) PROVE Inductive'
    OBVIOUS
<1> USE DEF PrintVanished, engine, heartbeat
<1>0. Say("vanished", a) /\ IsSequence(lines)
    BY DEF Inductive, TypeCorrect
<1>1. pc = "unwinding" /\ st[a] = "running" /\ inFlight = {}
    BY DEF Inductive, TypeCorrect, Placed, Running, Over
<1>2. TypeCorrect' /\ Placed'
    BY <1>0, <1>1, SayAdds DEF Inductive, TypeCorrect, Placed, Running
<1>3. Summed'
    BY <1>0, <1>1, SaySummed DEF Inductive
<1>4. ASSUME NEW b \in Actions, b # a PROVE Accounted(b)' /\ Timely(b)'
    BY <1>0, <1>4, Unmentioned DEF Started, Ended, Lost, Unsaid
<1>5. Accounted(a)' /\ Timely(a)'
    <2>1. Accounted(a) /\ Timely(a)
        BY DEF Inductive
    <2>2. /\ AnswersTo(a)' = AnswersTo(a) \cup {Len(lines) + 1}
          /\ At("vanished", a)' = At("vanished", a) \cup {Len(lines) + 1}
        BY <1>0, SayAnswers, SayAt DEF Answers
    <2>3. UNCHANGED <<At("start", a), Late(a)>>
        BY <1>0, SayAt, SayLate
    <2>4. ~Ended(a) /\ ~Lost(a) /\ Lost(a)' /\ Started(a) /\ Started(a)'
        BY <1>1 DEF Ended, Lost, Started, Unsaid, Outcomes
    <2>5. Once(At("start", a), Started(a))'
        BY <2>1, <2>3, <2>4 DEF Accounted, Once
    <2>6. Once(AnswersTo(a), Ended(a) \/ Lost(a))'
        BY <2>1, <2>2, <2>4 DEF Accounted, Once
    <2> QED
        BY <2>1, <2>2, <2>3, <2>5, <2>6 DEF Accounted, Timely
<1> QED
    BY <1>2, <1>3, <1>4, <1>5 DEF Inductive

\* Between layers, and on the way out.
LEMMA EdgeKeeps ==
    Inductive /\ (LayerOver \/ LayersOver \/ Stop \/ Unwound) => Inductive'
<1> SUFFICES ASSUME Inductive, LayerOver \/ LayersOver \/ Stop \/ Unwound
             PROVE  Inductive'
    OBVIOUS
<1> USE DEF LayerOver, LayersOver, Stop, Unwound, engine, heartbeat,
          Engine!NextLayer, Engine!LayerFailed, Engine!CacheFailed,
          Engine!PassLayer, Engine!Complete, Engine!Halt
<1>1. /\ UNCHANGED <<hand, st, inFlight, vanished, lines, heartbeat>>
      /\ pc \notin {"layer", "starting", "ending", "summary", "returned"}
      /\ pc' \notin {"layer", "starting", "ending", "summary", "returned"}
    BY DEF Over
<1>2. TypeCorrect' /\ Placed'
    BY <1>1 DEF Inductive, TypeCorrect, Placed, Running, Over
<1>3. Summed'
    BY <1>1, SilenceSummed DEF Inductive
<1>4. \A a \in Actions : Accounted(a)' /\ Timely(a)'
    BY <1>1, Silent DEF Started, Ended, Lost, Unsaid
<1> QED
    BY <1>2, <1>3, <1>4 DEF Inductive

-----------------------------------------------------------------------------
(* The summary and the heartbeat.                                          *)

LEMMA SummaryKeeps == Inductive /\ (BeginSummary \/ PrintSummary) => Inductive'
<1> SUFFICES ASSUME Inductive, BeginSummary \/ PrintSummary PROVE Inductive'
    OBVIOUS
<1> USE DEF BeginSummary, PrintSummary, engine, heartbeat
<1>1. /\ UNCHANGED <<hand, layer, st, inFlight, vanished, hb, seen>>
      /\ pc \in {"told", "broken", "summary"} /\ pc' \in {"summary", "returned"}
      /\ hb = "gone"
    BY DEF Inductive, Summed, Joined
<1>2. \A a \in Actions : /\ Started(a)' <=> Started(a)
                         /\ Ended(a)' <=> Ended(a)
                         /\ Lost(a)' <=> Lost(a)
    BY <1>1 DEF Started, Ended, Lost, Unsaid
<1>3. CASE UNCHANGED lines
    <2>1. TypeCorrect' /\ Placed'
        BY <1>1, <1>3 DEF Inductive, TypeCorrect, Placed, Running, Over
    <2>2. Summed'
        BY <1>1, <1>3, SilenceSummed DEF Inductive
    <2>3. \A a \in Actions : Accounted(a)' /\ Timely(a)'
        BY <1>1, <1>2, <1>3, Silent
    <2> QED
        BY <2>1, <2>2, <2>3 DEF Inductive
<1>4. ASSUME NEW sign \in {"count", "cross"}, NEW x, Say(sign, x), pc' = "summary" PROVE Inductive'
    <2>1. TypeCorrect' /\ Placed'
        BY <1>1, <1>4, SayAdds DEF Inductive, TypeCorrect, Placed, Running, Over
    <2>2. Summed'
        BY <1>1, <1>4, SaySummed DEF Inductive, TypeCorrect
    <2>3. \A a \in Actions : Accounted(a)' /\ Timely(a)'
        BY <1>1, <1>2, <1>4, Unmentioned DEF Answers, Outcomes
    <2> QED
        BY <2>1, <2>2, <2>3 DEF Inductive
<1> QED
    BY <1>3, <1>4

LEMMA HeartbeatKeeps == Inductive /\ (HbWake \/ HbLook \/ HbDone \/ HbExit) => Inductive'
<1> SUFFICES ASSUME Inductive, HbWake \/ HbLook \/ HbDone \/ HbExit PROVE Inductive'
    OBVIOUS
<1> USE DEF HbWake, HbLook, HbDone, HbExit, engine, Snapshot
<1>1. /\ UNCHANGED <<pc, hand, layer, st, inFlight, vanished, lines>>
      /\ seen' \subseteq inFlight \cup seen
      /\ hb # "gone"
    OBVIOUS
<1>2. TypeCorrect' /\ Placed'
    BY <1>1 DEF Inductive, TypeCorrect, Placed, Running
<1>3. Summed'
    BY <1>1, SilenceSummed DEF Inductive, Summed
<1>4. \A a \in Actions : Accounted(a)' /\ Timely(a)'
    BY <1>1, Silent DEF Started, Ended, Lost, Unsaid
<1> QED
    BY <1>2, <1>3, <1>4 DEF Inductive

\* It has looked once since it woke, so that it is late once.
LEMMA HeartbeatPrintKeeps == ASSUME NEW a \in Actions PROVE Inductive /\ HbPrint(a) => Inductive'
<1> SUFFICES ASSUME Inductive, HbPrint(a) PROVE Inductive'
    OBVIOUS
<1> USE DEF HbPrint, engine
<1>0. Say("still", a) /\ IsSequence(lines) /\ pc \notin {"summary", "returned"}
    BY DEF Inductive, TypeCorrect, Summed
<1>1. TypeCorrect' /\ Placed'
    BY <1>0, SayAdds DEF Inductive, TypeCorrect, Placed, Running
<1>2. Summed'
    BY <1>0, SaySummed DEF Inductive
<1>3. ASSUME NEW b \in Actions, b # a PROVE Accounted(b)' /\ Timely(b)'
    BY <1>0, <1>3, Unmentioned DEF Started, Ended, Lost, Unsaid
<1>4. Accounted(a)'
    <2>1. Accounted(a)
        BY DEF Inductive
    <2>2. UNCHANGED <<At("start", a), At("vanished", a), AnswersTo(a)>>
        BY <1>0, SayAt, SayAnswers DEF Answers, Outcomes
    <2>3. /\ Started(a)' <=> Started(a)
          /\ Ended(a)' <=> Ended(a)
          /\ Lost(a)' <=> Lost(a)
        BY DEF Started, Ended, Lost, Unsaid
    <2> QED
        BY <2>1, <2>2, <2>3 DEF Accounted, Once
<1>5. Timely(a)'
    <2>1. Late(a) = {}
        BY DEF Inductive, Timely
    <2>2. Late(a)' = IF AnswersTo(a) # {} THEN {Len(lines) + 1} ELSE {}
        BY <1>0, <2>1, SayLate
    <2>3. a \in inFlight' => AnswersTo(a) = {}
        BY InFlightRuns
    <2> QED
        BY <2>2, <2>3 DEF Timely
<1> QED
    BY <1>1, <1>2, <1>3, <1>4, <1>5 DEF Inductive

LEMMA StutterKeeps == Inductive /\ UNCHANGED vars => Inductive'
<1> SUFFICES ASSUME Inductive, UNCHANGED vars PROVE Inductive'
    OBVIOUS
<1> USE DEF vars
<1>1. TypeCorrect' /\ Placed' /\ Summed'
    BY DEF Inductive, TypeCorrect, Placed, Running, Summed, InSummary
<1>2. \A a \in Actions : Accounted(a)' /\ Timely(a)'
    BY Silent DEF Started, Ended, Lost, Unsaid
<1> QED
    BY <1>1, <1>2 DEF Inductive

LEMMA InductiveNext == Inductive /\ [Next]_vars => Inductive'
BY LayerStartKeeps, ActionStartKeeps, PrintStartKeeps, ActionEndKeeps, PrintEndKeeps,
   LayerEndKeeps, PanicKeeps, PrintVanishedKeeps, EdgeKeeps, SummaryKeeps, HeartbeatKeeps,
   HeartbeatPrintKeeps, StutterKeeps
   DEF Next, Callback, Closing, Heartbeat, Done

LEMMA InductiveHolds == Spec => []Inductive
<1>1. Init => Inductive
    BY InductiveInit
<1>2. Inductive /\ [Next]_vars => Inductive'
    BY InductiveNext
<1> QED
    BY <1>1, <1>2, PTL DEF Spec

-----------------------------------------------------------------------------
(* Theorems.                                                               *)

\* Every start that CliProgress prints (progress.rs of repolith-cli) has exactly
\* one answer when no layer is open, its terminal or that it vanished, with
\* any number of actions and layers, panics and cancellations.
THEOREM StartsAreAnswered == Spec => []EveryStartAnswered
<1>1. Inductive => EveryStartAnswered
    <2> SUFFICES ASSUME Inductive,
                        pc \in {"edge", "told", "broken", "summary"} \cup Over,
                        NEW a \in Actions
                 PROVE  /\ Cardinality(AnswersTo(a)) = Cardinality(At("start", a))
                        /\ st[a] = "running" => At("vanished", a) # {}
        BY DEF EveryStartAnswered
    <2>1. st[a] = "running" => a \notin inFlight \cup vanished
        BY DEF Inductive, Placed, Over
    <2>2. Started(a) <=> Ended(a) \/ Lost(a)
        BY <2>1 DEF Started, Ended, Lost, Unsaid, Over
    <2>3. Accounted(a)
        BY DEF Inductive
    <2>4. Cardinality(AnswersTo(a)) = Cardinality(At("start", a))
        BY <2>2, <2>3, FS_EmptySet, FS_Singleton DEF Accounted, Once
    <2> QED
        BY <2>1, <2>3, <2>4 DEF Accounted, Lost
<1> QED
    BY <1>1, InductiveHolds, PTL

\* The heartbeat says nothing between or after the lines of the summary, and
\* calls an action that has ended still running at most once more.
THEOREM HeartbeatsAreTimely == Spec => []HeartbeatIsTimely
<1>1. Inductive => HeartbeatIsTimely
    <2> SUFFICES ASSUME Inductive, NEW a \in Actions PROVE Cardinality(Late(a)) <= 1
        BY DEF HeartbeatIsTimely, Inductive, Summed, InSummary, Late
    <2>1. Late(a) = {} \/ \E i : Late(a) = {i}
        BY DEF Inductive, Timely
    <2>2. Cardinality(Late(a)) = 0 \/ Cardinality(Late(a)) = 1
        BY <2>1, FS_EmptySet, FS_Singleton
    <2> QED
        BY <2>2
<1> QED
    BY <1>1, InductiveHolds, PTL
=============================================================================

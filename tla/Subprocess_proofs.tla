--------------------------- MODULE Subprocess_proofs ---------------------------
(***************************************************************************)
(* Proofs about Subprocess, for every set of processes: after a cancelled  *)
(* command nobody of its group is left, and an output that is returned is  *)
(* whole.                                                                  *)
(***************************************************************************)
EXTENDS Subprocess, TLAPS

\* What makes the two inductive: nobody lives before the command does, it is not
\* killed while it is waited for, and it is dead from the cancellation on.
Inductive ==
    /\ TypeOK
    /\ NoSurvivors
    /\ OutputIsWhole
    /\ pc = "ready" => \A p \in Procs : proc[p] = "unborn"
    /\ pc = "waiting" => proc[Leader] \in {"alive", "exited"}
    /\ pc \in {"grace", "cancelled"} => Dead(Leader)

LEMMA LeaderInGroup == Leader \in Procs /\ Leader \in Group /\ Leader \in Holders
BY ProcessesAssumption DEF Procs, Group

LEMMA InitInductive == Init => Inductive
BY LeaderInGroup DEF Init, Inductive, TypeOK, NoSurvivors, OutputIsWhole, Over, Dead, Alive

\* A process that is not alive stays so, unless it is forked.
LEMMA ExitIsFinal ==
    ASSUME Inductive, NEW p \in Procs, Exit(p)
    PROVE  /\ \A q \in Procs : ~Alive(q) => ~Alive(q)' /\ proc'[q] = proc[q]
           /\ \A q \in Procs : Dead(q) => Dead(q)'
           /\ proc' \in [Procs -> {"unborn", "alive", "terminating", "exited", "killed"}]
           /\ proc'[p] = "exited" /\ \A q \in Procs \ {p} : proc'[q] = proc[q]
BY DEF Inductive, TypeOK, Exit, Alive, Dead

\* Those who are killed are dead, the others are as they were.
LEMMA KilledAreDead ==
    ASSUME Inductive, NEW S \in SUBSET Procs, proc' = Killed(S)
    PROVE  /\ \A q \in S : ~Alive(q)'
           /\ \A q \in Procs : ~Alive(q) => proc'[q] = proc[q]
           /\ \A q \in Procs : Dead(q) => Dead(q)'
           /\ proc' \in [Procs -> {"unborn", "alive", "terminating", "exited", "killed"}]
BY DEF Inductive, TypeOK, Killed, Alive, Dead

LEMMA NextInductive == Inductive /\ [Next]_vars => Inductive'
<1> SUFFICES ASSUME Inductive, [Next]_vars PROVE Inductive'
    OBVIOUS
<1> USE LeaderInGroup
<1>0. Holders \subseteq Procs /\ Group \subseteq Procs /\ Leader \notin Helpers
    BY ProcessesAssumption DEF Group
<1>1. CASE Spawn
    BY <1>1 DEF Spawn, Inductive, TypeOK, NoSurvivors, OutputIsWhole, Over, Dead, Alive
<1>2. CASE WaitDone
    BY <1>0, <1>2 DEF WaitDone, OutputClosed, Inductive, TypeOK, NoSurvivors, OutputIsWhole,
                      Over, Dead, Alive
<1>3. CASE TakeCancel
    <2>1. /\ pc = "waiting" /\ pc' = "grace" /\ token' = token /\ reaped' = reaped
          /\ \A p \in Procs : Dead(p) => proc'[p] = proc[p]
          /\ proc' \in [Procs -> {"unborn", "alive", "terminating", "exited", "killed"}]
        BY <1>3 DEF TakeCancel, Inductive, TypeOK, Dead, Alive
    <2>2. Dead(Leader)'
        BY <1>3 DEF TakeCancel, Inductive, TypeOK, Dead, Alive
    <2>3. TypeOK'
        BY <2>1 DEF Inductive, TypeOK, Over, Dead
    <2> QED
        BY <2>1, <2>2, <2>3 DEF Inductive, NoSurvivors, OutputIsWhole
<1>4. CASE GraceOver
    <2>1. /\ pc = "grace" /\ pc' = "cancelled" /\ token' = token /\ reaped' = reaped
          /\ proc' = Killed(KilledAfter) /\ KilledAfter \in SUBSET Procs
        BY <1>0, <1>4 DEF GraceOver, KilledAfter
    <2>2. \A p \in Group : ~Alive(p)'
        <3>1. CASE GroupAnswers
            BY <2>1, <3>1, KilledAreDead DEF KilledAfter
        <3>2. CASE ~GroupAnswers
            <4>1. \A p \in Group : ~Alive(p)
                BY <3>2 DEF GroupAnswers, Members
            <4> QED
                BY <1>0, <2>1, <4>1, KilledAreDead DEF Alive
        <3> QED
            BY <3>1, <3>2
    <2>3. Dead(Leader)'
        BY <2>1, KilledAreDead DEF Inductive
    <2>4. TypeOK'
        BY <2>1, KilledAreDead DEF Inductive, TypeOK, Over
    <2> QED
        BY <2>1, <2>2, <2>3, <2>4 DEF Inductive, NoSurvivors, OutputIsWhole
<1>5. CASE Drop
    <2>1. /\ pc' = "dropped" /\ token' = token /\ reaped' = reaped
          /\ proc' = Killed(IF pc = "waiting" THEN {Leader} ELSE {})
          /\ (IF pc = "waiting" THEN {Leader} ELSE {}) \in SUBSET Procs
        BY <1>5 DEF Drop
    <2>2. TypeOK'
        BY <2>1, KilledAreDead DEF Inductive, TypeOK, Over
    <2> QED
        BY <2>1, <2>2 DEF Inductive, NoSurvivors, OutputIsWhole
<1>6. ASSUME NEW h \in Helpers, Fork(h) PROVE Inductive'
    <2>1. h \in Procs /\ h # Leader
        BY <1>0 DEF Procs
    <2>2. /\ proc[h] = "unborn" /\ UNCHANGED <<pc, token, reaped>>
          /\ proc' \in [Procs -> {"unborn", "alive", "terminating", "exited", "killed"}]
          /\ \A p \in Procs \ {h} : proc'[p] = proc[p]
        BY <1>6 DEF Fork, Inductive, TypeOK
    <2>3. TypeOK'
        BY <2>2 DEF Inductive, TypeOK, Dead
    <2>4. PICK p \in Procs : /\ Alive(p)
                             /\ h \in Group => p \in Group
                             /\ h \in Holders => p \in Holders
        BY <1>6 DEF Fork
    <2>5. pc # "ready"
        BY <2>4 DEF Inductive, Alive
    <2>6. NoSurvivors'
        BY <1>0, <2>2, <2>4 DEF Inductive, NoSurvivors, Alive
    <2>7. OutputIsWhole'
        BY <1>0, <2>1, <2>2, <2>4 DEF Inductive, OutputIsWhole, Alive
    <2>8. proc'[Leader] = proc[Leader]
        BY <2>1, <2>2
    <2> QED
        BY <2>2, <2>3, <2>5, <2>6, <2>7, <2>8 DEF Inductive, Dead
<1>7. ASSUME NEW p \in Procs, Exit(p) PROVE Inductive'
    <2>1. UNCHANGED <<pc, token, reaped>> /\ Alive(p)
        BY <1>7 DEF Exit
    <2>2. TypeOK'
        BY <1>7, <2>1, ExitIsFinal DEF Inductive, TypeOK
    <2>3. NoSurvivors' /\ OutputIsWhole'
        BY <1>0, <1>7, <2>1, ExitIsFinal DEF Inductive, NoSurvivors, OutputIsWhole, Alive
    <2> QED
        BY <1>7, <2>1, <2>2, <2>3, ExitIsFinal DEF Inductive, Alive, Dead
<1>8. ASSUME NEW p \in Procs, Reap(p) PROVE Inductive'
    BY <1>8 DEF Reap, Inductive, TypeOK, NoSurvivors, OutputIsWhole, Dead, Alive
<1>9. CASE Fire
    BY <1>9 DEF Fire, Inductive, TypeOK, NoSurvivors, OutputIsWhole, Dead, Alive
<1>10. CASE Done \/ UNCHANGED vars
    BY <1>10 DEF Done, vars, Inductive, TypeOK, NoSurvivors, OutputIsWhole, Dead, Alive
<1> QED
    BY <1>1, <1>2, <1>3, <1>4, <1>5, <1>6, <1>7, <1>8, <1>9, <1>10 DEF Next

LEMMA SubprocessInductive == Spec => []Inductive
<1> QED
    BY InitInductive, NextInductive, PTL DEF Spec

\* A command that has returned Cancelled leaves no member of its group alive,
\* however many helpers it forked, whichever ignore SIGTERM (util.rs:59-108).
THEOREM CancelledLeavesNobody == Spec => []NoSurvivors
<1>1. Inductive => NoSurvivors
    BY DEF Inductive
<1> QED
    BY <1>1, SubprocessInductive, PTL

\* An output that is returned is that of a command that ended by itself, and
\* nobody can add to it (util.rs:41-57).
THEOREM ReturnedOutputIsWhole == Spec => []OutputIsWhole
<1>1. Inductive => OutputIsWhole
    BY DEF Inductive
<1> QED
    BY <1>1, SubprocessInductive, PTL
=============================================================================

------------------------------ MODULE Subprocess ------------------------------
(***************************************************************************)
(* run_with_cancel and kill_group (repolith-actions, util.rs): one command *)
(* run in a process group of its own and raced against a token; and what   *)
(* its caller may do to it, for a future that is dropped runs no further.  *)
(*                                                                         *)
(* Whoever lives may fork helpers, in the grace as well.  A helper that    *)
(* calls setsid is out of the group and of every promise, but may still    *)
(* hold the output pipe that wait_with_output reads to its end.  A group   *)
(* answers to its id as long as it has a member, zombies included; that    *)
(* the kernel may give the id of an empty group to another is left out.    *)
(***************************************************************************)
EXTENDS Naturals

CONSTANTS
    Leader,
    Helpers,
    Strays,    \* helpers that leave the group
    Holders,   \* processes with the output pipe open
    Stubborn,  \* processes that ignore SIGTERM
    Caller     \* "execute" polls to the end; "probe" races the future again

Procs == {Leader} \cup Helpers
Group == Procs \ Strays

ASSUME ProcessesAssumption ==
    /\ Leader \notin Helpers
    /\ Strays \subseteq Helpers
    /\ Holders \subseteq Procs /\ Leader \in Holders
    /\ Stubborn \subseteq Procs
ASSUME CallerAssumption == Caller \in {"execute", "probe"}

VARIABLES
    pc,       \* where run_with_cancel is, or how it ended
    token,    \* the token has fired
    proc,     \* each process; "terminating" has SIGTERM and is on its way out
    reaped    \* the dead whose entries are gone

vars == <<pc, token, proc, reaped>>

Over == {"ok", "cancelled", "dropped"}

Alive(p) == proc[p] \in {"alive", "terminating"}
Dead(p)  == proc[p] \in {"exited", "killed"}
Members  == {p \in Group : Alive(p) \/ (Dead(p) /\ p \notin reaped)}

\* Slip: the leader is probed, not its group.
LeaderAnswers == Leader \notin reaped

\* killpg(pg, None) finds somebody.
GroupAnswers == Members # {}

Killed(S) == [p \in Procs |-> IF p \in S /\ Alive(p) THEN "killed" ELSE proc[p]]

-----------------------------------------------------------------------------
Init ==
    /\ pc = "ready"
    /\ token \in BOOLEAN
    /\ proc = [p \in Procs |-> "unborn"]
    /\ reaped = {}

-----------------------------------------------------------------------------
(* run_with_cancel.                                                        *)

\* Spawned before the token is looked at.
Spawn ==
    /\ pc = "ready"
    /\ pc' = "waiting"
    /\ proc' = [proc EXCEPT ![Leader] = "alive"]
    /\ UNCHANGED <<token, reaped>>

\* Slip: the exit of the leader is enough.
OutputClosedByLeader == Dead(Leader)

\* The leader is dead and nobody holds the pipe.
OutputClosed == Dead(Leader) /\ \A p \in Holders : ~Alive(p)

WaitDone ==
    /\ pc = "waiting"
    /\ OutputClosed
    /\ pc' = "ok"
    /\ reaped' = reaped \cup {Leader}
    /\ UNCHANGED <<token, proc>>

\* Slip: only a command that still runs is worth cancelling.
CancelReadyWhileAlive == token /\ Alive(Leader)

CancelReady == token

\* select! drops the losing future before the handler runs: the wait owns the
\* child, and kill_on_drop kills it.  Then the group gets its SIGTERM, all in
\* one poll.
TakeCancel ==
    /\ pc = "waiting"
    /\ CancelReady
    /\ pc' = "grace"
    /\ proc' = [p \in Procs |->
                  CASE p = Leader /\ Alive(p) -> "killed"
                    [] p \in Group \ ({Leader} \cup Stubborn) /\ Alive(p) -> "terminating"
                    [] OTHER -> proc[p]]
    /\ UNCHANGED <<token, reaped>>

\* Who gets SIGKILL when the grace is over.
KilledAfter == IF GroupAnswers THEN Group ELSE {}

GraceOver ==
    /\ pc = "grace"
    /\ pc' = "cancelled"
    /\ proc' = Killed(KilledAfter)
    /\ UNCHANGED <<token, reaped>>

\* The future is dropped where it stands: by an unwinding panic, or by the
\* planner's own race against the token (probe_layer).  kill_on_drop is all
\* that still works.
Drop ==
    /\ pc \in {"waiting", "grace"}
    /\ Caller = "probe" => token
    /\ pc' = "dropped"
    /\ proc' = Killed(IF pc = "waiting" THEN {Leader} ELSE {})
    /\ UNCHANGED <<token, reaped>>

-----------------------------------------------------------------------------
(* The processes, the kernel and the user.                                 *)

\* Group and open pipe are had from the parent, or not at all.
Fork(h) ==
    /\ proc[h] = "unborn"
    /\ \E p \in Procs : /\ Alive(p)
                        /\ h \in Group => p \in Group
                        /\ h \in Holders => p \in Holders
    /\ proc' = [proc EXCEPT ![h] = "alive"]
    /\ UNCHANGED <<pc, token, reaped>>

Exit(p) ==
    /\ Alive(p)
    /\ proc' = [proc EXCEPT ![p] = "exited"]
    /\ UNCHANGED <<pc, token, reaped>>

\* By the wait or tokio's orphan queue, by the parent or by init.
Reap(p) ==
    /\ Dead(p) /\ p \notin reaped
    /\ reaped' = reaped \cup {p}
    /\ UNCHANGED <<pc, token, proc>>

Fire ==
    /\ ~token
    /\ token' = TRUE
    /\ UNCHANGED <<pc, proc, reaped>>

Done == pc \in Over /\ UNCHANGED vars

-----------------------------------------------------------------------------
Next ==
    \/ Spawn \/ WaitDone \/ TakeCancel \/ GraceOver \/ Drop
    \/ \E h \in Helpers : Fork(h)
    \/ \E p \in Procs : Exit(p) \/ Reap(p)
    \/ Fire \/ Done

Spec == Init /\ [][Next]_vars

\* The future is polled, timers go off, and the dead are reaped.  Nothing says
\* that a process ends by itself, not even one that was asked to.
FairSpec ==
    /\ Spec
    /\ WF_vars(Spawn) /\ WF_vars(WaitDone) /\ WF_vars(TakeCancel) /\ WF_vars(GraceOver)
    /\ \A p \in Procs : WF_vars(Reap(p))

-----------------------------------------------------------------------------
(* Properties                                                              *)

\* Every variable has the shape the code gives it; only the dead are reaped.
TypeOK ==
    /\ pc \in {"ready", "waiting", "grace"} \cup Over
    /\ token \in BOOLEAN
    /\ proc \in [Procs -> {"unborn", "alive", "terminating", "exited", "killed"}]
    /\ reaped \subseteq {p \in Procs : Dead(p)}

\* "Reaping grandchildren `kill_on_drop` alone would leave running": when an
\* action's command has returned Cancelled, no member of its group is left,
\* whatever was forked meanwhile and whoever ignores SIGTERM.
NoSurvivors ==
    pc = "cancelled" => \A p \in Group : ~Alive(p)

\* An output that is returned is whole: nobody can write to the pipe any more,
\* a helper that outlives the leader included, and it is the output of a
\* command that this function did not kill.
OutputIsWhole ==
    pc = "ok" => (\A p \in Holders : ~Alive(p)) /\ proc[Leader] = "exited"

\* Ctrl-C gets the function to return though every process hangs, ignores
\* SIGTERM or keeps the pipe open from outside the group.
CancelReturns == token /\ pc = "waiting" ~> pc \in Over

\* util.rs:64-66: "so the SIGKILL escalation is bound to this function's lifetime,
\* even a Ctrl-C [...] can't strand grandchildren".
NobodyStranded ==
    token /\ pc \in Over => \A p \in Group \cap Stubborn : ~Alive(p)
=============================================================================

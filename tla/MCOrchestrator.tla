---------------------------- MODULE MCOrchestrator ----------------------------
(***************************************************************************)
(* A finite instance of Orchestrator for TLC: two layers, the first wider  *)
(* than the pool even without the coordinator that is in it.               *)
(***************************************************************************)
EXTENDS Orchestrator

\* Four actions compete in the first layer, 5 is built from 1.
WideLayers == <<1, 1, 1, 1, 2>>

AnyHash == CHOOSE h \in Hashes : TRUE
OldHash == CHOOSE h \in Hashes : h # AnyHash

PlanOf(s, c) == [stale |-> s, input |-> [a \in Actions |-> AnyHash], cache |-> c]

\* Every stale set a planner can return on the wide graph, over a cache that
\* knows nothing or holds an old success of everything.
WidePlans ==
    {PlanOf(s, c) : s \in {t \in SUBSET Actions : 1 \in t => 5 \in t},
                    c \in {Quiet, [a \in Actions |-> Success(OldHash)]}}
=============================================================================

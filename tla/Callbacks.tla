------------------------------- MODULE Callbacks -------------------------------
(***************************************************************************)
(* What a run promises the sink it is observed by (ProgressSink,           *)
(* repolith-core, progress.rs): a layer opens only when something in it    *)
(* will run; within it an action is said to start once and to end at most  *)
(* once; the layer is said to be over on every way out of it, a panic      *)
(* included, and then nothing is said of its actions any more.  Permits,   *)
(* tokens, modes and the cache are not seen from here.                     *)
(*                                                                         *)
(* Orchestrator implements this, and Progress is the CLI's sink behind it. *)
(***************************************************************************)
EXTENDS Naturals

CONSTANTS Actions, NumLayers, LayerOf

VARIABLES
    plan,   \* the actions that will run
    phase,  \* where the run is as the sink can tell
    layer,  \* the layer that is next, or open
    told    \* the last callback about each action

vars == <<plan, phase, layer, told>>

Outcomes == {"ok", "failed", "cancelled"}

Members == {a \in plan : LayerOf[a] = layer}

-----------------------------------------------------------------------------
Init ==
    /\ plan \subseteq Actions
    /\ phase = "between"
    /\ layer = 1
    /\ told = [a \in Actions |-> "nothing"]

\* The sink does not hear of a layer in which nothing will run.
PassLayer ==
    /\ phase = "between"
    /\ layer <= NumLayers
    /\ Members = {}
    /\ layer' = layer + 1
    /\ UNCHANGED <<plan, phase, told>>

\* on_layer_start.
LayerStart ==
    /\ phase = "between"
    /\ layer <= NumLayers
    /\ Members # {}
    /\ phase' = "open"
    /\ UNCHANGED <<plan, layer, told>>

\* on_action_start.
ActionStart(a) ==
    /\ phase = "open"
    /\ a \in Members
    /\ told[a] = "nothing"
    /\ told' = [told EXCEPT ![a] = "running"]
    /\ UNCHANGED <<plan, phase, layer>>

\* on_action_ok, on_action_failed or on_action_cancelled.
ActionEnd(a, outcome) ==
    /\ phase = "open"
    /\ a \in Members
    /\ told[a] = "running"
    /\ told' = [told EXCEPT ![a] = outcome]
    /\ UNCHANGED <<plan, phase, layer>>

\* on_layer_end when every member has ended.
LayerEnd ==
    /\ phase = "open"
    /\ \A a \in Members : told[a] \in Outcomes
    /\ phase' = "closed"
    /\ UNCHANGED <<plan, layer, told>>

\* on_layer_end while a panic of some member unwinds the run.
LayerUnwound ==
    /\ phase = "open"
    /\ \E a \in Members : told[a] = "running"
    /\ phase' = "unwound"
    /\ UNCHANGED <<plan, layer, told>>

\* The run goes on only from a layer that was all right.
NextLayer ==
    /\ phase = "closed"
    /\ \A a \in Members : told[a] = "ok"
    /\ phase' = "between"
    /\ layer' = layer + 1
    /\ UNCHANGED <<plan, told>>

LayerFailed ==
    /\ phase = "closed"
    /\ \E a \in Members : told[a] # "ok"
    /\ phase' = "over"
    /\ UNCHANGED <<plan, layer, told>>

\* An error that carries no events.
CacheFailed ==
    /\ phase = "closed"
    /\ phase' = "broken"
    /\ UNCHANGED <<plan, layer, told>>

\* Ctrl-C, found between layers.
Halt ==
    /\ phase = "between"
    /\ layer <= NumLayers
    /\ phase' = "over"
    /\ UNCHANGED <<plan, layer, told>>

Complete ==
    /\ phase = "between"
    /\ layer = NumLayers + 1
    /\ phase' = "over"
    /\ UNCHANGED <<plan, layer, told>>

Die ==
    /\ phase \in {"between", "open", "closed"}
    /\ phase' = "dead"
    /\ UNCHANGED <<plan, layer, told>>

Next ==
    \/ PassLayer \/ LayerStart \/ LayerEnd \/ LayerUnwound
    \/ NextLayer \/ LayerFailed \/ CacheFailed \/ Halt \/ Complete \/ Die
    \/ \E a \in Actions : ActionStart(a)
    \/ \E a \in Actions, o \in Outcomes : ActionEnd(a, o)

Spec == Init /\ [][Next]_vars
=============================================================================

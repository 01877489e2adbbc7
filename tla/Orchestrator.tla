----------------------------- MODULE Orchestrator -----------------------------
(***************************************************************************)
(* Orchestrator::execute_plan_observed and execute_layer (repolith-engine, *)
(* orchestrator.rs): walk the layers of a plan, run the stale actions of   *)
(* one layer concurrently under a pool of permits, persist the layer's     *)
(* events in one batch, stop at the first layer that has a failure.        *)
(*                                                                         *)
(* The futures of a layer are polled by one task, which yields between     *)
(* them: taking a permit, the start callback and the call of `execute`     *)
(* happen in one poll (Start), a result and what the drain loop does with  *)
(* it in another (Finish).  Between polls the root token may fire, an      *)
(* action may panic and unwind the loop, the process may die.              *)
(***************************************************************************)
EXTENDS Staleness, FiniteSets

CONSTANTS NumLayers,    \* layers of the plan
          LayerOf,      \* the layer of each action
          Coordinators, \* actions whose is_coordinator() is true
          Jobs,         \* permits of the pool (max_parallelism or the shared one)
          Plans         \* the plans considered, each with the cache it starts from

Plan == [stale : SUBSET Actions, input : [Actions -> Hashes],
         cache : [Actions -> LastBuild]]

ASSUME ActionsFinite == IsFiniteSet(Actions)
ASSUME LayersAssumption == NumLayers \in Nat /\ LayerOf \in [Actions -> 1..NumLayers]
ASSUME CoordinatorsAssumption == Coordinators \subseteq Actions
ASSUME JobsAssumption == Jobs \in Nat \ {0}  \* Builder::max_parallelism floors at 1
ASSUME PlansAssumption == Plans \subseteq Plan

VARIABLES
    stale, input,  \* the plan: keys of `reasons`, and `input_hashes`
    mode,          \* ExecMode
    pc,            \* where execute_plan_observed is, or how it ended
    layer,         \* the layer the loop is at
    st,            \* each action's future in the current layer
    shown,         \* the last callback the sink received about each action
    permits,       \* available permits of the semaphore
    rootCancel,    \* base_ctx.cancel
    layerCancel,   \* the layer's child token, fired by FailFast
    layerEvents,   \* `events` of execute_layer
    allEvents,     \* `all_events`
    before, cache  \* the cache when the run began, and now

planVars  == <<stale, input, mode, before>>
tokenVars == <<rootCancel, layerCancel>>
taskVars  == <<st, shown, permits, layerEvents>>
vars == <<planVars, pc, layer, taskVars, tokenVars, allEvents, cache>>

Modes == {"FailFast", "KeepGoing"}
Quiet == [a \in Actions |-> NoEvent]

\* How the function can end: Ok, LayerFailed, Cache; unwound by a panic; killed.
Returned == {"ok", "layerFailed", "cacheError"}
Ended    == Returned \cup {"panicked", "crashed"}

Members(n)  == {a \in stale : LayerOf[a] = n}
Running     == {a \in Actions : st[a] = "running"}

\* Slip: a future that waits for a permit is thought to hold one.
ChargedTooSoon == {a \in Actions : st[a] \in {"queued", "running"}} \ Coordinators

Charged     == Running \ Coordinators

\* Slip: the layer's token is not a child of the root token.
CancelledInLayer == layerCancel

Cancelled   == rootCancel \/ layerCancel

\* Slip: a layer fails only if nothing in it succeeds.
LayerFailedWholly == \A a \in Members(layer) : layerEvents[a].kind = "failed"

LayerFailed == \E a \in Actions : layerEvents[a] # NoEvent /\ layerEvents[a].kind = "failed"

-----------------------------------------------------------------------------
Init ==
    /\ \E p \in Plans : stale = p.stale /\ input = p.input /\ before = p.cache
    /\ mode \in Modes
    /\ cache = before
    /\ pc = "edge"
    /\ layer = 1
    /\ st = [a \in Actions |-> "idle"]
    /\ shown = [a \in Actions |-> "nothing"]
    /\ permits = Jobs
    /\ rootCancel = FALSE
    /\ layerCancel = FALSE
    /\ layerEvents = Quiet
    /\ allEvents = Quiet

-----------------------------------------------------------------------------
(* The loop over the layers.                                               *)

HaltCancelled ==
    /\ pc = "edge"
    /\ layer <= NumLayers
    /\ rootCancel
    /\ pc' = "layerFailed"
    /\ UNCHANGED <<planVars, layer, taskVars, tokenVars, allEvents, cache>>

SkipLayer ==
    /\ pc = "edge"
    /\ layer <= NumLayers
    /\ ~rootCancel
    /\ Members(layer) = {}
    /\ layer' = layer + 1
    /\ UNCHANGED <<planVars, pc, taskVars, tokenVars, allEvents, cache>>

\* Slip: the token is looked at once, before the loop, and not between layers.
StartLayerRegardless ==
    /\ pc = "edge"
    /\ layer <= NumLayers
    /\ Members(layer) # {}
    /\ pc' = "running"
    /\ st' = [a \in Actions |-> IF a \in Members(layer) THEN "queued" ELSE st[a]]
    /\ layerCancel' = FALSE
    /\ layerEvents' = Quiet
    /\ UNCHANGED <<planVars, layer, shown, permits, rootCancel, allEvents, cache>>

\* A fresh child token per layer; the futures are created, none is polled yet.
StartLayer ==
    /\ pc = "edge"
    /\ layer <= NumLayers
    /\ ~rootCancel
    /\ Members(layer) # {}
    /\ pc' = "running"
    /\ st' = [a \in Actions |-> IF a \in Members(layer) THEN "queued" ELSE st[a]]
    /\ layerCancel' = FALSE
    /\ layerEvents' = Quiet
    /\ UNCHANGED <<planVars, layer, shown, permits, rootCancel, allEvents, cache>>

\* The pending set is empty; LayerGuard is dropped (on_layer_end).
LayerSettled ==
    /\ pc = "running"
    /\ \A a \in Members(layer) : st[a] = "settled"
    /\ pc' = "persist"
    /\ UNCHANGED <<planVars, layer, taskVars, tokenVars, allEvents, cache>>

Persist ==
    /\ pc = "persist"
    /\ cache' = Upsert(cache, layerEvents)
    /\ allEvents' = Upsert(allEvents, layerEvents)
    /\ IF LayerFailed THEN pc' = "layerFailed" /\ layer' = layer
                      ELSE pc' = "edge" /\ layer' = layer + 1
    /\ UNCHANGED <<planVars, taskVars, tokenVars>>

\* record_batch is one transaction: an error leaves nothing of the layer behind,
\* or all of it when it is the acknowledgement of the commit that was lost.
\* Slip: one transaction per event, as the default `record_batch` of the trait.
CommittedPiecewise ==
    {Upsert(cache, [a \in Actions |-> IF a \in S THEN layerEvents[a] ELSE NoEvent]) :
       S \in SUBSET Actions}

Committed == {cache, Upsert(cache, layerEvents)}

PersistFails ==
    /\ pc = "persist"
    /\ pc' = "cacheError"
    /\ cache' \in Committed
    /\ UNCHANGED <<planVars, layer, taskVars, tokenVars, allEvents>>

Complete ==
    /\ pc = "edge"
    /\ layer = NumLayers + 1
    /\ pc' = "ok"
    /\ UNCHANGED <<planVars, layer, taskVars, tokenVars, allEvents, cache>>

-----------------------------------------------------------------------------
(* One action's future.                                                    *)

NeedsPermit(a) == a \notin Coordinators

\* Runs even when the token has fired while the action was queued.
Start(a) ==
    /\ pc = "running"
    /\ st[a] = "queued"
    /\ NeedsPermit(a) => permits > 0
    /\ permits' = IF NeedsPermit(a) THEN permits - 1 ELSE permits
    /\ st' = [st EXCEPT ![a] = "running"]
    /\ shown' = [shown EXCEPT ![a] = "running"]
    /\ UNCHANGED <<planVars, pc, layer, layerEvents, tokenVars, allEvents, cache>>

Outcomes == {"ok", "failed", "cancelled"}

\* Slip: only a failure of its own is recorded as one.
EventForSparingCancelled(a, outcome) ==
    IF outcome = "failed" THEN Failed(input[a]) ELSE Success(input[a])

EventFor(a, outcome) ==
    IF outcome = "ok" THEN Success(input[a]) ELSE Failed(input[a])

\* What the future of `a` drops when it ends.
Released(a) == IF NeedsPermit(a) THEN 1 ELSE 0

\* Slip: the modes are swapped.
CancelsLayerInWrongMode(outcome) == outcome # "ok" /\ mode # "FailFast"

CancelsLayer(outcome) == outcome # "ok" /\ mode = "FailFast"

\* `execute` returned: the permit is dropped with the future, the sink is told,
\* the event is kept, and under FailFast any error cancels the layer.
Finish(a, outcome) ==
    /\ pc = "running"
    /\ st[a] = "running"
    /\ outcome = "cancelled" => Cancelled
    /\ permits' = permits + Released(a)
    /\ st' = [st EXCEPT ![a] = "settled"]
    /\ shown' = [shown EXCEPT ![a] = outcome]
    /\ layerEvents' = [layerEvents EXCEPT ![a] = EventFor(a, outcome)]
    /\ layerCancel' = (layerCancel \/ CancelsLayer(outcome))
    /\ UNCHANGED <<planVars, pc, layer, rootCancel, allEvents, cache>>

\* A panic in `execute` unwinds the loop: the other futures are dropped with
\* their permits, the layer's events are lost, only on_layer_end is called.
Panic(a) ==
    /\ pc = "running"
    /\ st[a] = "running"
    /\ pc' = "panicked"
    /\ permits' = permits + Cardinality(Charged)
    /\ st' = [b \in Actions |-> IF st[b] \in {"queued", "running"} THEN "idle" ELSE st[b]]
    /\ UNCHANGED <<planVars, layer, shown, layerEvents, tokenVars, allEvents, cache>>

-----------------------------------------------------------------------------
(* The environment: Ctrl-C (or a parent stack's token), and death.         *)

Cancel ==
    /\ pc \notin Ended
    /\ ~rootCancel
    /\ rootCancel' = TRUE
    /\ UNCHANGED <<planVars, pc, layer, taskVars, layerCancel, allEvents, cache>>

Crash ==
    /\ pc \notin Ended
    /\ pc' = "crashed"
    /\ UNCHANGED <<planVars, layer, taskVars, tokenVars, allEvents, cache>>

Done == pc \in Ended /\ UNCHANGED vars

-----------------------------------------------------------------------------
\* What the loop itself does when it is polled.
Step ==
    \/ HaltCancelled \/ SkipLayer \/ StartLayer
    \/ LayerSettled \/ Persist \/ PersistFails \/ Complete

Next ==
    \/ Step
    \/ \E a \in Actions : Start(a) \/ Panic(a)
    \/ \E a \in Actions, o \in Outcomes : Finish(a, o)
    \/ Cancel
    \/ Crash
    \/ Done

Spec == Init /\ [][Next]_vars

\* The runtime polls the loop, a free permit goes to some queued future, and an
\* action whose token has fired returns Cancelled (run_with_cancel selects on
\* the token).  Nothing says that an action left alone ever finishes.
FairSpec ==
    /\ Spec
    /\ WF_vars(Step)
    /\ WF_vars(\E a \in Actions : Start(a))
    /\ \A a \in Actions : WF_vars(Finish(a, "cancelled"))

-----------------------------------------------------------------------------
(* Properties                                                              *)

Statuses == {"idle", "queued", "running", "settled"}

\* Every variable has the shape the code gives it; the semaphore never holds
\* more permits than it was created with.
TypeOK ==
    /\ stale \subseteq Actions
    /\ input \in [Actions -> Hashes]
    /\ mode \in Modes
    /\ pc \in {"edge", "running", "persist"} \cup Ended
    /\ layer \in 1..(NumLayers + 1)
    /\ st \in [Actions -> Statuses]
    /\ shown \in [Actions -> {"nothing", "running"} \cup Outcomes]
    /\ permits \in 0..Jobs
    /\ rootCancel \in BOOLEAN
    /\ layerCancel \in BOOLEAN
    /\ layerEvents \in [Actions -> LastBuild]
    /\ allEvents \in [Actions -> LastBuild]
    /\ before \in [Actions -> LastBuild]
    /\ cache \in [Actions -> LastBuild]

\* `--jobs N` is a bound on what is running, and no permit is leaked or made
\* up, whatever finishes, fails, is cancelled or panics: the permits that are
\* free and those held by running actions always add up to N.  Coordinators
\* hold none.
PermitsConserved == permits + Cardinality(Charged) = Jobs

\* "Layer N+1 starts only when layer N settles" (README.md:115), and more: an
\* action is given a future only once every stale action of every earlier
\* layer has succeeded in this run and its success is in the cache.
LayerBarrier ==
    \A a, b \in Actions :
        /\ st[a] # "idle"
        /\ b \in stale
        /\ LayerOf[b] < LayerOf[a]
        => allEvents[b] = Success(input[b]) /\ cache[b] = Success(input[b])

\* "Persist the whole layer's events atomically": at every moment, a crash
\* included, the cache is what it was plus the batches of whole layers; for no
\* layer does it hold the events of some members and not of others.  Only a
\* run that ends in a cache error may leave the reader unsure of one batch.
BatchesAtomic ==
    /\ \/ cache = Upsert(before, allEvents)
       \/ pc = "cacheError" /\ cache = Upsert(Upsert(before, allEvents), layerEvents)
    /\ \A n \in 1..NumLayers :
         \/ \A a \in Members(n) : allEvents[a] # NoEvent
         \/ \A a \in Members(n) : allEvents[a] = NoEvent

\* What the caller is told is what happened: Ok means every stale action ran,
\* succeeded and is recorded with the planned hash, and nothing else was
\* touched; LayerFailed means a failure is in the report or Ctrl-C was pressed.
OutcomeHonest ==
    /\ pc = "ok" => \A a \in Actions :
         cache[a] = IF a \in stale THEN Success(input[a]) ELSE before[a]
    /\ pc = "layerFailed" =>
         rootCancel \/ \E a \in stale : allEvents[a] = Failed(input[a])

\* The sink and the cache tell the same story: once the function has returned
\* or is between layers, every action announced as started has had its one
\* terminal callback, and it is the one its recorded event calls for.
SinkMatchesEvents ==
    pc \in {"edge", "ok", "layerFailed"} =>
        \A a \in Actions :
            /\ shown[a] # "running"
            /\ shown[a] = "nothing" <=> allEvents[a] = NoEvent
            /\ shown[a] = "ok" <=> allEvents[a] = Success(input[a])

\* "Calling those peers failures would turn one fault into a screenful": an
\* action reported as cancelled has a cause outside itself, Ctrl-C or, under
\* FailFast only, another action of its layer reported as failed.
CancelledHasCause ==
    \A a \in Actions :
        shown[a] = "cancelled" =>
            \/ rootCancel
            \/ /\ mode = "FailFast"
               /\ \E b \in Members(LayerOf[a]) : shown[b] = "failed"

\* Ctrl-C ends the run even if every action in flight would hang for ever and
\* others still wait for a permit.
CancelStops == rootCancel ~> pc \in Ended

\* Under FailFast the first failure ends the run even if its peers would hang.
FailFastStops == (mode = "FailFast" /\ pc = "running" /\ LayerFailed) ~> pc \in Ended

-----------------------------------------------------------------------------
(* What the safety properties rest on: an inductive invariant in parts.    *)

\* Where each future is.  A layer's futures exist while it runs; a layer that
\* settled leaves only settled ones; nothing is known of a layer not reached.
Placement ==
    /\ pc \in {"running", "persist"} => layer <= NumLayers
    /\ \A a \in Actions :
         /\ st[a] # "idle" => a \in stale /\ LayerOf[a] <= layer
         /\ st[a] \in {"queued", "running"} =>
              LayerOf[a] = layer /\ pc \in {"running", "crashed"}
         /\ pc = "edge" /\ st[a] # "idle" => LayerOf[a] < layer
         /\ pc \in {"running", "persist"} /\ a \in Members(layer) => st[a] # "idle"

\* What the sink was told follows the future.
Reporting ==
    \A a \in Actions :
        /\ st[a] = "queued" => shown[a] = "nothing"
        /\ st[a] = "running" => shown[a] = "running"
        /\ st[a] = "settled" => shown[a] \in Outcomes
        /\ shown[a] # "nothing" =>
             /\ a \in stale
             /\ LayerOf[a] <= layer
             /\ pc = "edge" => LayerOf[a] < layer

\* The events of the layer in progress are those of its settled members.
LayerBatch ==
    /\ pc \in {"running", "persist"} =>
         \A a \in Actions :
             /\ layerEvents[a] # NoEvent <=> (a \in Members(layer) /\ st[a] = "settled")
             /\ layerEvents[a] \in {NoEvent, Success(input[a]), Failed(input[a])}
    /\ pc = "cacheError" =>
         \A a \in Actions : layerEvents[a] # NoEvent => LayerOf[a] = layer

\* Every layer the loop has passed succeeded and is recorded, no later one is.
Progress ==
    /\ \A a \in Actions :
         /\ a \in stale /\ LayerOf[a] < layer => allEvents[a] = Success(input[a])
         /\ allEvents[a] # NoEvent => a \in stale /\ LayerOf[a] <= layer
    /\ \/ \A a \in Members(layer) : allEvents[a] = NoEvent
       \/ pc = "layerFailed" /\ \A a \in Members(layer) : allEvents[a] # NoEvent

\* FailFast is what fires a layer's token, and a failure what made it.
TokenCause ==
    pc = "running" /\ layerCancel =>
        \/ rootCancel
        \/ mode = "FailFast" /\ \E b \in Members(layer) : shown[b] = "failed"

\* The last callback about an action and its event are of one kind, and between
\* layers no action that was announced is without its event.
Told ==
    \A a \in Actions :
        /\ allEvents[a] # NoEvent =>
             shown[a] \in Outcomes /\ allEvents[a] = EventFor(a, shown[a])
        /\ pc \in {"running", "persist"} /\ layerEvents[a] # NoEvent =>
             shown[a] \in Outcomes /\ layerEvents[a] = EventFor(a, shown[a])
        /\ pc \in {"edge", "ok", "layerFailed"} /\ shown[a] # "nothing" =>
             allEvents[a] # NoEvent
        /\ pc \in {"running", "persist"} /\ shown[a] # "nothing" /\ LayerOf[a] # layer =>
             allEvents[a] # NoEvent

\* Why the function returned what it returned.
Endings ==
    /\ pc = "ok" => layer = NumLayers + 1
    /\ pc = "layerFailed" =>
         rootCancel \/ \E a \in stale : allEvents[a] = Failed(input[a])

Inductive ==
    /\ TypeOK
    /\ PermitsConserved
    /\ Placement
    /\ Reporting
    /\ LayerBatch
    /\ Progress
    /\ BatchesAtomic
    /\ Told
    /\ Endings
    /\ TokenCause
    /\ CancelledHasCause

-----------------------------------------------------------------------------
(* The promise to the caller.                                              *)

Phase == CASE pc = "edge"                    -> "between"
           [] pc \in {"running", "persist"}  -> "within"
           [] pc \in {"panicked", "crashed"} -> "gone"
           [] OTHER                          -> pc

Run == INSTANCE BuildRun WITH status <- Phase, next <- layer, events <- allEvents,
                              cancelled <- rootCancel

\* Seen from outside, a run is a sequence of whole layers in order, stopped by
\* the first failure or by Ctrl-C, and the value returned says which: no
\* interleaving of futures, tokens and permits shows through.
ImplementsBuildRun == Run!Spec

-----------------------------------------------------------------------------
(* The promise to the sink.                                                *)

SinkPhase == CASE pc = "edge"                  -> "between"
               [] pc = "running"               -> "open"
               [] pc = "persist"               -> "closed"
               [] pc \in {"ok", "layerFailed"} -> "over"
               [] pc = "cacheError"            -> "broken"
               [] pc = "panicked"              -> "unwound"
               [] OTHER                        -> "dead"

Sink == INSTANCE Callbacks WITH plan <- stale, phase <- SinkPhase, told <- shown

\* Whatever the interleaving, the sink hears of layers one at a time and in
\* order, of each action at most once that it starts and once how it ended, only
\* while its layer is open; the run goes on from a layer only if all it was told
\* of is "ok", and returns a report only with an end told for every start.
HonoursSink == Sink!Spec
=============================================================================

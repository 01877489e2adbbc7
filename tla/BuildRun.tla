------------------------------- MODULE BuildRun -------------------------------
(***************************************************************************)
(* What one run of a plan promises whoever called it (execute_plan,        *)
(* repolith-engine): layers are taken in order, what a layer's actions did *)
(* is recorded in one piece, the first layer with a failure is the last,   *)
(* no layer begins after Ctrl-C, and the result says which of these it     *)
(* was.  Futures, permits, callbacks and modes are not seen from here.     *)
(***************************************************************************)
EXTENDS Staleness

CONSTANTS NumLayers, LayerOf

VARIABLES
    stale, input,  \* the plan
    status,        \* between layers, within one, or how the run ended
    next,          \* the layer that is next, or in progress
    events,        \* what the run has recorded
    cache,         \* and where
    cancelled      \* Ctrl-C was pressed

vars == <<stale, input, status, next, events, cache, cancelled>>

Members == {a \in stale : LayerOf[a] = next}

\* The layer's batch when exactly the actions in F failed.
Batch(F) ==
    [a \in Actions |-> IF a \notin Members THEN NoEvent
                       ELSE IF a \in F THEN Failed(input[a]) ELSE Success(input[a])]

-----------------------------------------------------------------------------
Init ==
    /\ status = "between"
    /\ next = 1
    /\ events = [a \in Actions |-> NoEvent]
    /\ cancelled = FALSE

\* A layer with nothing stale is passed over; Ctrl-C stops the others here.
Pass ==
    /\ status = "between"
    /\ next <= NumLayers
    /\ Members = {}
    /\ ~cancelled
    /\ next' = next + 1
    /\ UNCHANGED <<stale, input, status, events, cache, cancelled>>

Begin ==
    /\ status = "between"
    /\ next <= NumLayers
    /\ Members # {}
    /\ ~cancelled
    /\ status' = "within"
    /\ UNCHANGED <<stale, input, next, events, cache, cancelled>>

Stop ==
    /\ status = "between"
    /\ next <= NumLayers
    /\ cancelled
    /\ status' = "layerFailed"
    /\ UNCHANGED <<stale, input, next, events, cache, cancelled>>

\* The whole layer at once.
RecordLayer(F) ==
    /\ status = "within"
    /\ events' = Upsert(events, Batch(F))
    /\ cache' = Upsert(cache, Batch(F))
    /\ IF F = {} THEN status' = "between" /\ next' = next + 1
                 ELSE status' = "layerFailed" /\ next' = next
    /\ UNCHANGED <<stale, input, cancelled>>

\* The write failed: nothing of the layer is recorded, or all of it is and the
\* acknowledgement was lost.
FailToRecord(F) ==
    /\ status = "within"
    /\ cache' \in {cache, Upsert(cache, Batch(F))}
    /\ status' = "cacheError"
    /\ UNCHANGED <<stale, input, next, events, cancelled>>

Return ==
    /\ status = "between"
    /\ next = NumLayers + 1
    /\ status' = "ok"
    /\ UNCHANGED <<stale, input, next, events, cache, cancelled>>

\* A panic or the death of the process: nothing of the layer is recorded.
Vanish ==
    /\ status \in {"between", "within"}
    /\ status' = "gone"
    /\ UNCHANGED <<stale, input, next, events, cache, cancelled>>

Cancel ==
    /\ status \in {"between", "within"}
    /\ ~cancelled
    /\ cancelled' = TRUE
    /\ UNCHANGED <<stale, input, status, next, events, cache>>

Next ==
    \/ Pass \/ Begin \/ Stop \/ Return \/ Vanish \/ Cancel
    \/ \E F \in SUBSET Members : RecordLayer(F) \/ FailToRecord(F)

Spec == Init /\ [][Next]_vars
=============================================================================

------------------------------- MODULE Progress -------------------------------
(***************************************************************************)
(* What `repolith sync` prints while it works (repolith-cli, progress.rs   *)
(* and the part of run_sync that uses it): the engine's task calls the     *)
(* sink, CliProgress keeps the actions in flight, and a heartbeat on       *)
(* another thread reads them from time to time.  Each takes two locks, for *)
(* the map and for stdout, one after the other and never together, so a    *)
(* step is what happens under one lock.                                    *)
(*                                                                         *)
(* What the engine decides (who starts, how it ends, when a layer is over) *)
(* is any choice Callbacks leaves it, which Orchestrator implements: each  *)
(* action of the engine's task is one of that contract and what the sink   *)
(* does with it.  Durations and wording are left out; a line is its sign   *)
(* and the action it names.                                                *)
(***************************************************************************)
EXTENDS Naturals, Sequences, FiniteSets

CONSTANTS
    Actions,
    NumLayers,
    LayerOf,
    MaxTicks   \* heartbeats of one run

ASSUME LayersAssumption ==
    /\ IsFiniteSet(Actions)
    /\ NumLayers \in Nat /\ LayerOf \in [Actions -> 1..NumLayers]
    /\ MaxTicks \in Nat

VARIABLES
    pc,       \* where run_sync is
    hand,     \* the action its task is about to print a line about
    plan,     \* the actions that will run
    layer,
    st,       \* how each action stands with the engine
    events,   \* those that ended, in order
    inFlight, \* CliProgress::in_flight
    vanished, \* drained from it, to be reported
    lines,    \* stdout
    hb,       \* the heartbeat's task
    seen,     \* its snapshot, what is left to print of it
    ticks,
    stop      \* the heartbeat's token

vars == <<pc, hand, plan, layer, st, events, inFlight, vanished, lines, hb, seen, ticks, stop>>

Outcomes == {"ok", "failed", "cancelled"}  \* as in Callbacks
None     == "nobody"
Over     == {"returned", "unwound"}

Line(sign, a) == [sign |-> sign, about |-> a]
Signs         == {"layer", "start", "vanished", "still", "count", "cross"} \cup Outcomes
Say(sign, a) == lines' = Append(lines, Line(sign, a))

\* Where the engine is while its task is at `pc`.
Phase == CASE pc = "edge"                            -> "between"
           [] pc \in {"layer", "starting", "ending"} -> "open"
           [] pc = "reconciling"                     -> "closed"
           [] pc \in {"unwinding", "unwound"}        -> "unwound"
           [] pc = "broken"                          -> "broken"
           [] OTHER                                  -> "over"

Engine == INSTANCE Callbacks WITH phase <- Phase, told <- st

engine    == <<plan, layer, st, events>>
heartbeat == <<hb, seen, ticks>>

-----------------------------------------------------------------------------
Init ==
    /\ pc = "edge"
    /\ hand = None
    /\ plan \in SUBSET Actions
    /\ layer = 1
    /\ st = [a \in Actions |-> "nothing"]
    /\ events = <<>>
    /\ inFlight = {}
    /\ vanished = {}
    /\ lines = <<>>
    /\ hb = "asleep"
    /\ seen = {}
    /\ ticks = 0
    /\ stop = FALSE

-----------------------------------------------------------------------------
(* The engine's callbacks.                                                 *)

OnLayerStart ==
    /\ pc = "edge"
    /\ pc' = "layer"
    /\ Engine!LayerStart
    /\ Say("layer", None)
    /\ UNCHANGED <<hand, events, inFlight, vanished, heartbeat, stop>>

\* on_action_start, first the map and then the line.
OnActionStart(a) ==
    /\ pc = "layer"
    /\ pc' = "starting"
    /\ Engine!ActionStart(a)
    /\ inFlight' = inFlight \cup {a}
    /\ hand' = a
    /\ UNCHANGED <<events, vanished, lines, heartbeat, stop>>

PrintStart ==
    /\ pc = "starting"
    /\ Say("start", hand)
    /\ pc' = "layer"
    /\ hand' = None
    /\ UNCHANGED <<engine, inFlight, vanished, heartbeat, stop>>

\* forget.
Forgotten(a) == inFlight \ {a}

\* on_action_ok, on_action_failed, on_action_cancelled.
OnActionEnd(a, outcome) ==
    /\ pc = "layer"
    /\ pc' = "ending"
    /\ Engine!ActionEnd(a, outcome)
    /\ inFlight' = Forgotten(a)
    /\ events' = Append(events, a)
    /\ hand' = a
    /\ UNCHANGED <<vanished, lines, heartbeat, stop>>

PrintEnd ==
    /\ pc = "ending"
    /\ Say(st[hand], hand)
    /\ pc' = "layer"
    /\ hand' = None
    /\ UNCHANGED <<engine, inFlight, vanished, heartbeat, stop>>

\* Slip: the map is dropped, and nobody told.
VanishedUnheard == {}

\* What is drained at the end of a layer.
Vanished == inFlight

\* on_layer_end, from the guard that drops when the layer is done or unwinds.
OnLayerEnd ==
    /\ pc = "layer"
    /\ pc' = "reconciling"
    /\ Engine!LayerEnd
    /\ vanished' = Vanished
    /\ inFlight' = {}
    /\ UNCHANGED <<hand, events, lines, heartbeat, stop>>

OnPanic ==
    /\ pc = "layer"
    /\ pc' = "unwinding"
    /\ Engine!LayerUnwound
    /\ vanished' = Vanished
    /\ inFlight' = {}
    /\ UNCHANGED <<hand, events, lines, heartbeat, stop>>

PrintVanished(a) ==
    /\ a \in vanished
    /\ Say("vanished", a)
    /\ vanished' = vanished \ {a}
    /\ UNCHANGED <<pc, hand, engine, inFlight, heartbeat, stop>>

\* The layer is over: go on, or stop for a failure, Ctrl-C or the cache.
LayerOver ==
    /\ pc = "reconciling" /\ vanished = {}
    /\ pc' \in {"edge", "told", "broken"}
    /\ Engine!NextLayer \/ Engine!LayerFailed \/ Engine!CacheFailed
    /\ UNCHANGED <<hand, events, inFlight, vanished, lines, heartbeat, stop>>

\* Between layers: the last is behind, or Ctrl-C was pressed, or nothing is
\* stale in the next.
LayersOver ==
    /\ pc = "edge"
    /\ pc' \in {"edge", "told"}
    /\ Engine!PassLayer \/ Engine!Complete \/ Engine!Halt
    /\ UNCHANGED <<hand, events, inFlight, vanished, lines, heartbeat, stop>>

-----------------------------------------------------------------------------
(* run_sync after the engine: stop the heartbeat, then print the summary,  *)
(* unless the error carries no events.                                     *)

\* Slip: the handle is awaited, the token forgotten.
StopTokenUnset == stop

StopToken == TRUE

Stop ==
    /\ pc \in {"told", "broken"}
    /\ ~stop
    /\ stop' = StopToken
    /\ UNCHANGED <<pc, hand, engine, inFlight, vanished, lines, heartbeat>>

\* Slip: the token is cancelled, and the handle dropped.
JoinedAtOnce == stop

\* The handle has been awaited.
Joined == stop /\ hb = "gone"

BeginSummary ==
    /\ pc \in {"told", "broken"}
    /\ Joined
    /\ IF pc = "told" /\ events # <<>>
       THEN pc' = "summary" /\ Say("count", None)
       ELSE pc' = "returned" /\ UNCHANGED lines
    /\ UNCHANGED <<hand, engine, inFlight, vanished, heartbeat, stop>>

\* BuildEvent::Failed, which is what a cancelled action is recorded as.
Repeated(a) == st[a] \in {"failed", "cancelled"}

Crosses == {i \in 1..Len(lines) : lines[i].sign = "cross"}
ToRepeat == SelectSeq(events, Repeated)

PrintSummary ==
    /\ pc = "summary"
    /\ IF Cardinality(Crosses) < Len(ToRepeat)
       THEN Say("cross", ToRepeat[Cardinality(Crosses) + 1]) /\ UNCHANGED pc
       ELSE pc' = "returned" /\ UNCHANGED lines
    /\ UNCHANGED <<hand, engine, inFlight, vanished, heartbeat, stop>>

\* Heartbeat::drop: cancelled, but nobody waits.
Unwound ==
    /\ pc = "unwinding" /\ vanished = {}
    /\ pc' = "unwound"
    /\ stop' = TRUE
    /\ UNCHANGED <<hand, engine, inFlight, vanished, lines, heartbeat>>

-----------------------------------------------------------------------------
(* The heartbeat's task: biased, so a token that is set when it looks wins *)
(* over the timer; but it looks only then.                                 *)

HbWake ==
    /\ hb = "asleep" /\ ~stop
    /\ ticks < MaxTicks
    /\ hb' = "awake"
    /\ ticks' = ticks + 1
    /\ UNCHANGED <<pc, hand, engine, inFlight, vanished, lines, seen, stop>>

Snapshot == inFlight

HbLook ==
    /\ hb = "awake"
    /\ seen' = Snapshot
    /\ hb' = "printing"
    /\ UNCHANGED <<pc, hand, engine, inFlight, vanished, lines, ticks, stop>>

HbPrint(a) ==
    /\ hb = "printing"
    /\ a \in seen
    /\ Say("still", a)
    /\ seen' = seen \ {a}
    /\ UNCHANGED <<pc, hand, engine, inFlight, vanished, hb, ticks, stop>>

HbDone ==
    /\ hb = "printing" /\ seen = {}
    /\ hb' = "asleep"
    /\ UNCHANGED <<pc, hand, engine, inFlight, vanished, lines, seen, ticks, stop>>

HbExit ==
    /\ hb = "asleep" /\ stop
    /\ hb' = "gone"
    /\ UNCHANGED <<pc, hand, engine, inFlight, vanished, lines, seen, ticks, stop>>

-----------------------------------------------------------------------------
Callback ==
    \/ OnLayerStart \/ PrintStart \/ PrintEnd
    \/ OnLayerEnd \/ OnPanic \/ LayerOver \/ LayersOver
    \/ \E a \in Actions : OnActionStart(a) \/ PrintVanished(a)
    \/ \E a \in Actions, o \in Outcomes : OnActionEnd(a, o)

Closing == Stop \/ BeginSummary \/ PrintSummary \/ Unwound

Heartbeat == HbWake \/ HbLook \/ HbDone \/ HbExit \/ \E a \in Actions : HbPrint(a)

Done == pc \in Over /\ hb = "gone" /\ UNCHANGED vars

Next == Callback \/ Closing \/ Heartbeat \/ Done

Spec == Init /\ [][Next]_vars

\* Both tasks are polled.  The timer need not go off again.
FairSpec ==
    /\ Spec
    /\ WF_vars(Callback) /\ WF_vars(Closing)
    /\ WF_vars(HbLook \/ HbDone \/ HbExit \/ \E a \in Actions : HbPrint(a))

-----------------------------------------------------------------------------
(* Properties                                                              *)

Answers == Outcomes \cup {"vanished"}
At(sign, a) == {i \in 1..Len(lines) : lines[i] = Line(sign, a)}
AnswersTo(a) == UNION {At(sign, a) : sign \in Answers}

\* Whenever no layer is open, every start that was printed has exactly one
\* answer, its terminal or that it vanished, and every answer has its start.
EveryStartAnswered ==
    pc \in {"edge", "told", "broken", "summary"} \cup Over =>
        \A a \in Actions :
            /\ Cardinality(AnswersTo(a)) = Cardinality(At("start", a))
            /\ st[a] = "running" => At("vanished", a) # {}

\* "Ordered shutdown before the summary": nothing is printed between or after
\* the lines of the summary, though the heartbeat may have woken before.  And
\* the price of its snapshot is bounded: an action that has ended is called
\* still running at most once more, by a heartbeat that looked before it ended.
HeartbeatIsTimely ==
    /\ \A i, j \in 1..Len(lines) :
         i < j /\ lines[i].sign \in {"count", "cross"} => lines[j].sign \in {"count", "cross"}
    /\ \A a \in Actions :
         Cardinality({j \in At("still", a) : \E i \in AnswersTo(a) : i < j}) <= 1

\* Stopping the heartbeat never hangs the sync, and a heartbeat whose sync is
\* gone, even by a panic that waited for nobody, goes as well.
SyncReturns ==
    /\ pc \in {"told", "broken"} ~> pc = "returned"
    /\ pc = "unwound" ~> hb = "gone"
=============================================================================

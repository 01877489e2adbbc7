------------------------------ MODULE Sync_proofs ------------------------------
(***************************************************************************)
(* Proofs about Orchestrator, for every set of actions, layering, pool     *)
(* size and plan, and about Sync, which plans and runs it again and again: *)
(* for every dependency graph, every number of changes and any             *)
(* interruption, what a plan leaves out wrongly has one of two causes, the *)
(* cache says what was built but for two kinds of action, and a sync after *)
(* an undisturbed one has nothing to do.                                   *)
(* Orchestrator's invariant is Inductive, that of Sync SyncInductive; each *)
(* of their parts is shown to survive each action in a step of its own.    *)
(***************************************************************************)
EXTENDS Sync, FiniteSetTheorems, WellFoundedInduction, TLAPS

-----------------------------------------------------------------------------
(* Orchestrator: facts about its operators.                                *)

\* What is running is finite, so it can be counted.
LEMMA ChargedFinite ==
    IsFiniteSet(Charged) /\ Cardinality(Charged) \in Nat
  <1>1. Charged \in SUBSET Actions
    BY DEF Charged, Running
  <1>2. QED
    BY <1>1, ActionsFinite, FS_Subset, FS_CardinalityType

\* An event is not the absence of one.
LEMMA EventsAreEvents ==
    ASSUME NEW h
    PROVE  /\ Success(h) # NoEvent
           /\ Failed(h) # NoEvent
           /\ Success(h).kind = "success"
           /\ Failed(h).kind = "failed"
           /\ Success(h) # Failed(h)
  BY DEF Success, Failed, NoEvent

\* A batch entry is the event of its action, or no event at all.
LEMMA EventTypes ==
    /\ NoEvent \in LastBuild
    /\ \A h \in Hashes : Success(h) \in LastBuild /\ Failed(h) \in LastBuild
  BY DEF LastBuild, BuildEvent, NoEvent, Success, Failed

\* What a cache holds after a batch, and that it still is a cache.
LEMMA UpsertType ==
    ASSUME NEW c \in [Actions -> LastBuild], NEW b \in [Actions -> LastBuild]
    PROVE  /\ Upsert(c, b) \in [Actions -> LastBuild]
           /\ \A a \in Actions :
                Upsert(c, b)[a] = IF b[a] # NoEvent THEN b[a] ELSE c[a]
  BY DEF Upsert

\* Two batches one after the other are one batch, the later event winning.
LEMMA UpsertTwice ==
    ASSUME NEW c \in [Actions -> LastBuild],
           NEW b \in [Actions -> LastBuild], NEW d \in [Actions -> LastBuild]
    PROVE  Upsert(Upsert(c, b), d) = Upsert(c, Upsert(b, d))
  BY DEF Upsert

\* The empty batch is a batch, and changes nothing.
LEMMA QuietType == Quiet \in [Actions -> LastBuild]
  BY EventTypes DEF Quiet

LEMMA UpsertQuiet ==
    ASSUME NEW c \in [Actions -> LastBuild]
    PROVE  Upsert(c, Quiet) = c
  BY DEF Upsert, Quiet

-----------------------------------------------------------------------------
(* The initial state.                                                      *)

LEMMA InitInductive == Init => Inductive
  <1> SUFFICES ASSUME Init PROVE Inductive
    OBVIOUS
  <1> USE LayersAssumption, JobsAssumption
  <1>1. TypeOK
    <2>1. stale \subseteq Actions /\ input \in [Actions -> Hashes]
            /\ before \in [Actions -> LastBuild]
      BY PlansAssumption DEF Init, Plan
    <2>2. layer \in 1..(NumLayers + 1) /\ permits \in 0..Jobs
      BY DEF Init
    <2>3. QED
      BY <2>1, <2>2, QuietType DEF Init, TypeOK, Statuses
  <1>2. PermitsConserved
    <2>1. Charged = {}
      BY DEF Init, Charged, Running
    <2>2. QED
      BY <2>1, FS_EmptySet DEF Init, PermitsConserved
  <1>3. Placement /\ Reporting /\ LayerBatch /\ TokenCause /\ Told /\ Endings
    BY DEF Init, Placement, Reporting, LayerBatch, TokenCause, Told, Endings, Quiet
  <1>4. Progress
    BY <1>1 DEF Init, Progress, Quiet, Members, TypeOK
  <1>5. BatchesAtomic
    BY <1>1, UpsertQuiet DEF Init, BatchesAtomic, Quiet, Members, TypeOK
  <1>6. CancelledHasCause
    BY DEF Init, CancelledHasCause
  <1>7. QED
    BY <1>1, <1>2, <1>3, <1>4, <1>5, <1>6 DEF Inductive

-----------------------------------------------------------------------------
(* The loop over the layers: no future is touched but by StartLayer.       *)

\* Ending a run early, by the token or by death, disturbs nothing.
LEMMA EndingSteps ==
    ASSUME Inductive, HaltCancelled \/ Complete \/ Crash \/ Done
    PROVE  Inductive'
  <1> USE DEF Inductive
  <1>1. /\ UNCHANGED <<planVars, layer, taskVars, tokenVars, allEvents, cache>>
        /\ pc' \in Ended
        /\ pc' = pc \/ (pc' # "cacheError" /\ pc' # "running" /\ pc' # "persist" /\ pc' # "edge")
        /\ pc' # pc => pc' = "crashed" \/ pc = "edge"
        /\ pc' # pc => pc # "layerFailed" /\ pc # "cacheError"
    BY DEF HaltCancelled, Complete, Crash, Done, vars, Ended, Returned
  <1> USE DEF planVars, taskVars, tokenVars
  <1>2. TypeOK'
    BY <1>1 DEF TypeOK
  <1>3. PermitsConserved'
    BY <1>1 DEF PermitsConserved, Charged, Running
  <1>4. Placement'
    BY <1>1 DEF Placement, Members, Ended, Returned
  <1>5. Reporting' /\ CancelledHasCause'
    BY <1>1 DEF Reporting, CancelledHasCause, Members, Ended, Returned
  <1>6. LayerBatch' /\ TokenCause'
    BY <1>1 DEF LayerBatch, TokenCause, Members, Ended, Returned
  <1>7. Progress'
    BY <1>1 DEF Progress, Members
  <1>8. BatchesAtomic'
    BY <1>1 DEF BatchesAtomic, Members
  <1>t. Told'
    BY <1>1 DEF Told, EventFor, Ended, Returned
  <1>e. Endings'
    BY DEF HaltCancelled, Complete, Crash, Done, Endings, vars, Ended, Returned
  <1>9. QED
    BY <1>2, <1>3, <1>4, <1>5, <1>6, <1>7, <1>8, <1>t, <1>e

\* A layer with nothing stale is passed over.
LEMMA SkipLayerStep ==
    ASSUME Inductive, SkipLayer
    PROVE  Inductive'
  <1> USE LayersAssumption DEF Inductive
  <1>1. /\ pc = "edge" /\ layer <= NumLayers /\ Members(layer) = {}
        /\ layer' = layer + 1
        /\ UNCHANGED <<planVars, pc, taskVars, tokenVars, allEvents, cache>>
    BY DEF SkipLayer
  <1> USE <1>1 DEF planVars, taskVars, tokenVars
  <1>0. layer \in Nat /\ \A a \in Actions : LayerOf[a] \in Nat
    BY DEF TypeOK
  <1>2. TypeOK'
    BY DEF TypeOK
  <1>3. PermitsConserved'
    BY DEF PermitsConserved, Charged, Running
  <1>4. Placement'
    BY <1>0 DEF Placement, Members
  <1>5. Reporting' /\ CancelledHasCause'
    BY <1>0 DEF Reporting, CancelledHasCause, Members
  <1>6. LayerBatch' /\ TokenCause'
    BY DEF LayerBatch, TokenCause, Members
  <1>7. Progress'
    <2>1. \A a \in Actions : a \in stale /\ LayerOf[a] < layer' => LayerOf[a] < layer
      BY <1>0 DEF Members
    <2>2. \A a \in Members(layer)' : allEvents[a] = NoEvent
      BY <1>0 DEF Progress, Members, TypeOK
    <2>3. QED
      BY <1>0, <2>1, <2>2 DEF Progress
  <1>8. BatchesAtomic'
    BY DEF BatchesAtomic, Members
  <1>t. Told' /\ Endings'
    BY DEF Told, Endings, EventFor
  <1>9. QED
    BY <1>2, <1>3, <1>4, <1>5, <1>6, <1>7, <1>8, <1>t

\* The futures of a layer come into being queued, over an empty batch.
LEMMA StartLayerStep ==
    ASSUME Inductive, StartLayer
    PROVE  Inductive'
  <1> USE LayersAssumption DEF Inductive
  <1>1. /\ pc = "edge" /\ layer <= NumLayers /\ ~rootCancel
        /\ pc' = "running"
        /\ st' = [a \in Actions |-> IF a \in Members(layer) THEN "queued" ELSE st[a]]
        /\ layerCancel' = FALSE
        /\ layerEvents' = Quiet
        /\ UNCHANGED <<planVars, layer, shown, permits, rootCancel, allEvents, cache>>
    BY DEF StartLayer
  <1> USE <1>1 DEF planVars
  <1>0. layer \in Nat /\ (\A a \in Actions : LayerOf[a] \in Nat) /\ Members(layer) \subseteq Actions
    BY DEF TypeOK, Members
  <1>2. TypeOK'
    BY QuietType DEF TypeOK, Statuses, Ended, Returned
  <1>3. PermitsConserved'
    <2>1. \A a \in Actions : st'[a] = "running" <=> st[a] = "running"
      BY <1>0 DEF Placement, Members
    <2>2. Charged' = Charged
      BY <2>1 DEF Charged, Running
    <2>3. QED
      BY <2>2 DEF PermitsConserved
  <1>4. Placement'
    BY <1>0 DEF Placement, Members
  <1>5. Reporting'
    <2>1. \A a \in Members(layer) : shown[a] = "nothing"
      BY <1>0 DEF Reporting, Members
    <2>2. \A a \in Actions : st[a] \notin {"queued", "running"}
      BY DEF Placement
    <2>3. QED
      BY <1>0, <2>1, <2>2 DEF Reporting
  <1>6. LayerBatch'
    BY <1>0 DEF LayerBatch, Quiet, Placement, Members
  <1>7. TokenCause' /\ CancelledHasCause'
    BY DEF TokenCause, CancelledHasCause, Members
  <1>8. Progress' /\ BatchesAtomic'
    BY DEF Progress, BatchesAtomic, Members
  <1>t. Told' /\ Endings'
    BY DEF Told, Endings, EventFor, Quiet
  <1>9. QED
    BY <1>2, <1>3, <1>4, <1>5, <1>6, <1>7, <1>8, <1>t

\* Draining the layer changes only where the loop is.
LEMMA LayerSettledStep ==
    ASSUME Inductive, LayerSettled
    PROVE  Inductive'
  <1> USE LayersAssumption DEF Inductive
  <1>1. /\ pc = "running" /\ pc' = "persist"
        /\ \A a \in Members(layer) : st[a] = "settled"
        /\ UNCHANGED <<planVars, layer, taskVars, tokenVars, allEvents, cache>>
    BY DEF LayerSettled
  <1> USE <1>1 DEF planVars, taskVars, tokenVars
  <1>2. TypeOK'
    BY DEF TypeOK, Ended, Returned
  <1>3. PermitsConserved'
    BY DEF PermitsConserved, Charged, Running
  <1>4. Placement'
    BY DEF Placement, Members
  <1>5. Reporting' /\ CancelledHasCause'
    BY DEF Reporting, CancelledHasCause, Members
  <1>6. LayerBatch' /\ TokenCause'
    BY DEF LayerBatch, TokenCause, Members
  <1>7. Progress' /\ BatchesAtomic'
    BY DEF Progress, BatchesAtomic, Members
  <1>t. Told' /\ Endings'
    BY DEF Told, Endings, EventFor
  <1>8. QED
    BY <1>2, <1>3, <1>4, <1>5, <1>6, <1>7, <1>t

\* A whole batch is added to the cache and to the report.
LEMMA PersistStep ==
    ASSUME Inductive, Persist
    PROVE  Inductive'
  <1> USE LayersAssumption DEF Inductive
  <1>1. /\ pc = "persist"
        /\ cache' = Upsert(cache, layerEvents)
        /\ allEvents' = Upsert(allEvents, layerEvents)
        /\ IF LayerFailed THEN pc' = "layerFailed" /\ layer' = layer
                          ELSE pc' = "edge" /\ layer' = layer + 1
        /\ UNCHANGED <<planVars, taskVars, tokenVars>>
    BY DEF Persist
  <1> USE <1>1 DEF planVars, taskVars, tokenVars
  <1>0. layer \in Nat /\ (\A a \in Actions : LayerOf[a] \in Nat) /\ Members(layer) \subseteq Actions
    BY DEF TypeOK, Members
  <1>a. \A a \in Actions :
          allEvents'[a] = IF layerEvents[a] # NoEvent THEN layerEvents[a] ELSE allEvents[a]
    BY UpsertType DEF TypeOK
  <1>b. \A a \in Members(layer) : st[a] = "settled" /\ layerEvents[a] # NoEvent
    BY <1>0 DEF Placement, LayerBatch, TypeOK, Statuses
  <1>c. \A a \in Actions : a \notin Members(layer) => layerEvents[a] = NoEvent
    BY DEF LayerBatch
  <1>2. TypeOK'
    <2>1. cache' \in [Actions -> LastBuild] /\ allEvents' \in [Actions -> LastBuild]
      BY UpsertType DEF TypeOK
    <2>2. layer' \in 1..(NumLayers + 1)
      BY DEF TypeOK, Placement
    <2>3. QED
      BY <2>1, <2>2 DEF TypeOK, Ended, Returned
  <1>3. PermitsConserved'
    BY DEF PermitsConserved, Charged, Running
  <1>4. Placement'
    BY <1>0 DEF Placement, Members
  <1>5. Reporting'
    BY <1>0 DEF Reporting, Members
  <1>6. LayerBatch' /\ TokenCause' /\ CancelledHasCause'
    BY DEF LayerBatch, TokenCause, CancelledHasCause, Members
  <1>7. Progress'
    <2>1. ASSUME NEW a \in Actions, a \in stale, LayerOf[a] < layer'
          PROVE  allEvents'[a] = Success(input[a])
      <3>1. CASE LayerOf[a] < layer
        BY <1>a, <1>c, <2>1, <3>1, <1>0 DEF Progress, Members
      <3>2. CASE ~(LayerOf[a] < layer)
        <4>1. ~LayerFailed /\ a \in Members(layer)
          BY <1>0, <2>1, <3>2 DEF Members
        <4>2. layerEvents[a] = Success(input[a])
          BY <1>b, <4>1, EventsAreEvents DEF LayerBatch, LayerFailed
        <4>3. QED
          BY <1>a, <1>b, <4>1, <4>2
      <3>3. QED
        BY <3>1, <3>2
    <2>2. ASSUME NEW a \in Actions, allEvents'[a] # NoEvent
          PROVE  a \in stale /\ LayerOf[a] <= layer'
      BY <1>0, <1>a, <1>c, <2>2 DEF Progress, Members
    <2>3. CASE LayerFailed
      BY <1>a, <1>b, <2>1, <2>2, <2>3, <1>0 DEF Progress, Members
    <2>4. CASE ~LayerFailed
      <3>1. \A a \in Members(layer)' : allEvents'[a] = NoEvent
        BY <1>0, <1>a, <1>c, <2>4 DEF Progress, Members, TypeOK
      <3>2. QED
        BY <2>1, <2>2, <3>1 DEF Progress
    <2>5. QED
      BY <2>3, <2>4
  <1>8. BatchesAtomic'
    <2>1. cache' = Upsert(before, allEvents')
      BY UpsertTwice DEF BatchesAtomic, TypeOK
    <2>2. ASSUME NEW n \in 1..NumLayers
          PROVE  \/ \A a \in Members(n) : allEvents'[a] # NoEvent
                 \/ \A a \in Members(n) : allEvents'[a] = NoEvent
      <3>1. CASE n = layer
        BY <1>0, <1>a, <1>b, <3>1
      <3>2. CASE n # layer
        <4>1. \A a \in Members(n) : a \in Actions /\ allEvents'[a] = allEvents[a]
          BY <1>a, <1>c, <3>2 DEF Members, TypeOK
        <4>2. QED
          BY <4>1 DEF BatchesAtomic
      <3>3. QED
        BY <3>1, <3>2
    <2>3. QED
      BY <2>1, <2>2 DEF BatchesAtomic, Members
  <1>t. Told'
    <2> SUFFICES ASSUME NEW a \in Actions
                 PROVE  /\ allEvents'[a] # NoEvent =>
                             shown[a] \in Outcomes /\ allEvents'[a] = EventFor(a, shown[a])
                        /\ shown[a] # "nothing" => allEvents'[a] # NoEvent
      BY DEF Told, EventFor
    <2>1. shown[a] # "nothing" /\ a \notin Members(layer) => allEvents[a] # NoEvent
      BY DEF Told, Reporting, Members
    <2>2. QED
      BY <1>a, <1>b, <2>1 DEF Told
  <1>e. Endings'
    <2>1. CASE LayerFailed
      <3>1. PICK a \in Actions : layerEvents[a] # NoEvent /\ layerEvents[a].kind = "failed"
        BY <2>1 DEF LayerFailed
      <3>2. layerEvents[a] = Failed(input[a]) /\ a \in stale
        BY <3>1, EventsAreEvents DEF LayerBatch, Members
      <3>3. QED
        BY <1>a, <2>1, <3>1, <3>2 DEF Endings
    <2>2. CASE ~LayerFailed
      BY <2>2 DEF Endings
    <2>3. QED
      BY <2>1, <2>2
  <1>9. QED
    BY <1>2, <1>3, <1>4, <1>5, <1>6, <1>7, <1>8, <1>t, <1>e

\* A failed batch ends the run; at worst the cache holds it and nobody was told.
LEMMA PersistFailsStep ==
    ASSUME Inductive, PersistFails
    PROVE  Inductive'
  <1> USE LayersAssumption DEF Inductive
  <1>1. /\ pc = "persist" /\ pc' = "cacheError"
        /\ cache' \in {cache, Upsert(cache, layerEvents)}
        /\ UNCHANGED <<planVars, layer, taskVars, tokenVars, allEvents>>
    BY DEF PersistFails, Committed
  <1> USE <1>1 DEF planVars, taskVars, tokenVars
  <1>2. TypeOK'
    BY UpsertType DEF TypeOK, Ended, Returned
  <1>3. PermitsConserved'
    BY DEF PermitsConserved, Charged, Running
  <1>4. Placement'
    BY DEF Placement, Members
  <1>5. Reporting' /\ TokenCause' /\ CancelledHasCause'
    BY DEF Reporting, TokenCause, CancelledHasCause, Members
  <1>6. LayerBatch'
    BY DEF LayerBatch, Members
  <1>7. Progress'
    BY DEF Progress, Members
  <1>8. BatchesAtomic'
    BY DEF BatchesAtomic, Members
  <1>t. Told' /\ Endings'
    BY DEF Told, Endings, EventFor
  <1>9. QED
    BY <1>2, <1>3, <1>4, <1>5, <1>6, <1>7, <1>8, <1>t

-----------------------------------------------------------------------------
(* One action's future.                                                    *)

\* Taking a permit and starting to run are one step: the sum is unchanged.
LEMMA StartStep ==
    ASSUME Inductive, NEW a \in Actions, Start(a)
    PROVE  Inductive'
  <1> USE LayersAssumption DEF Inductive
  <1>1. /\ pc = "running" /\ st[a] = "queued"
        /\ NeedsPermit(a) => permits > 0
        /\ permits' = IF NeedsPermit(a) THEN permits - 1 ELSE permits
        /\ st' = [st EXCEPT ![a] = "running"]
        /\ shown' = [shown EXCEPT ![a] = "running"]
        /\ UNCHANGED <<planVars, pc, layer, layerEvents, tokenVars, allEvents, cache>>
    BY DEF Start
  <1> USE <1>1 DEF planVars, tokenVars
  <1>a. a \in Members(layer) /\ shown[a] = "nothing"
    BY DEF Placement, Reporting, Members
  <1>2. PermitsConserved' /\ permits' \in 0..Jobs
    <2>1. Charged' = IF NeedsPermit(a) THEN Charged \cup {a} ELSE Charged
      BY DEF TypeOK, Charged, Running, NeedsPermit
    <2>2. a \notin Charged
      BY DEF Charged, Running
    <2>3. NeedsPermit(a) => Cardinality(Charged \cup {a}) = Cardinality(Charged) + 1
      BY <2>2, ChargedFinite, FS_AddElement
    <2>4. permits \in Nat /\ Jobs \in Nat /\ Cardinality(Charged) \in Nat
      BY ChargedFinite, JobsAssumption DEF TypeOK
    <2>5. permits + Cardinality(Charged) = Jobs
      BY DEF PermitsConserved
    <2>6. QED
      BY <2>1, <2>3, <2>4, <2>5 DEF PermitsConserved
  <1>3. TypeOK'
    BY <1>2 DEF TypeOK, Statuses
  <1>4. Placement'
    BY <1>a DEF Placement, Members, TypeOK
  <1>5. Reporting'
    BY <1>a DEF Reporting, Placement, Members, TypeOK
  <1>6. LayerBatch'
    BY DEF LayerBatch, Members, TypeOK
  <1>7. TokenCause' /\ CancelledHasCause'
    BY <1>a DEF TokenCause, CancelledHasCause, Members, TypeOK
  <1>8. Progress' /\ BatchesAtomic'
    BY DEF Progress, BatchesAtomic, Members
  <1>t. Told' /\ Endings'
    <2>1. allEvents[a] = NoEvent /\ layerEvents[a] = NoEvent
      BY <1>a, EventsAreEvents DEF Told, LayerBatch, TypeOK, Outcomes
    <2>2. QED
      BY <1>a, <2>1 DEF Told, Endings, EventFor, TypeOK, Members
  <1>9. QED
    BY <1>2, <1>3, <1>4, <1>5, <1>6, <1>7, <1>8, <1>t

\* A result gives the permit back, and a cancelled one has a cause.
LEMMA FinishStep ==
    ASSUME Inductive, NEW a \in Actions, NEW o \in Outcomes, Finish(a, o)
    PROVE  Inductive'
  <1> USE LayersAssumption DEF Inductive
  <1>1. /\ pc = "running" /\ st[a] = "running"
        /\ o = "cancelled" => Cancelled
        /\ permits' = permits + (IF NeedsPermit(a) THEN 1 ELSE 0)
        /\ st' = [st EXCEPT ![a] = "settled"]
        /\ shown' = [shown EXCEPT ![a] = o]
        /\ layerEvents' = [layerEvents EXCEPT ![a] = EventFor(a, o)]
        /\ layerCancel' = (layerCancel \/ (o # "ok" /\ mode = "FailFast"))
        /\ UNCHANGED <<planVars, pc, layer, rootCancel, allEvents, cache>>
    BY DEF Finish, Released, CancelsLayer
  <1> USE <1>1 DEF planVars
  <1>a. a \in Members(layer) /\ shown[a] = "running"
    BY DEF Placement, Reporting, Members
  <1>b. EventFor(a, o) \in {Success(input[a]), Failed(input[a])}
    BY DEF EventFor
  <1>c. EventFor(a, o) \in LastBuild /\ EventFor(a, o) # NoEvent
    BY <1>b, EventTypes, EventsAreEvents DEF TypeOK
  <1>2. PermitsConserved' /\ permits' \in 0..Jobs
    <2>1. Charged' = IF NeedsPermit(a) THEN Charged \ {a} ELSE Charged
      BY DEF TypeOK, Charged, Running, NeedsPermit
    <2>2. NeedsPermit(a) => a \in Charged
      BY DEF Charged, Running, NeedsPermit
    <2>3. NeedsPermit(a) => Cardinality(Charged \ {a}) = Cardinality(Charged) - 1
      BY <2>2, ChargedFinite, FS_RemoveElement
    <2>4. NeedsPermit(a) => Cardinality(Charged \ {a}) \in Nat
      BY ChargedFinite, FS_RemoveElement, FS_CardinalityType
    <2>5. permits \in Nat /\ Jobs \in Nat /\ Cardinality(Charged) \in Nat
      BY ChargedFinite, JobsAssumption DEF TypeOK
    <2>6. permits + Cardinality(Charged) = Jobs
      BY DEF PermitsConserved
    <2>7. QED
      BY <2>1, <2>3, <2>4, <2>5, <2>6 DEF PermitsConserved
  <1>3. TypeOK'
    <2>1. layerEvents' \in [Actions -> LastBuild] /\ shown' \in [Actions -> {"nothing", "running"} \cup Outcomes]
      BY <1>c DEF TypeOK
    <2>2. layerCancel' \in BOOLEAN
      OBVIOUS
    <2>3. QED
      BY <1>2, <2>1, <2>2 DEF TypeOK, Statuses
  <1>4. Placement'
    BY <1>a DEF Placement, Members, TypeOK
  <1>5. Reporting'
    BY <1>a DEF Reporting, Placement, Members, TypeOK
  <1>6. LayerBatch'
    BY <1>a, <1>b, <1>c DEF LayerBatch, Members, TypeOK
  <1>7. \A b \in Actions : shown[b] \in Outcomes => shown'[b] = shown[b]
    BY <1>a DEF TypeOK, Outcomes
  <1>8. (o = "cancelled" \/ layerCancel) =>
          rootCancel \/ (mode = "FailFast" /\ \E b \in Members(layer) : shown[b] = "failed")
    BY DEF Cancelled, TokenCause
  <1>9. (\E b \in Members(layer) : shown[b] = "failed") =>
          (\E b \in Members(layer) : shown'[b] = "failed")
    BY <1>7 DEF Members, TypeOK, Outcomes
  <1>10. TokenCause'
    <2>1. CASE o = "failed"
      BY <1>8, <1>9, <1>a, <2>1 DEF TokenCause, Members, TypeOK
    <2>2. CASE o # "failed"
      BY <1>8, <1>9, <2>2 DEF TokenCause, Members, TypeOK, Outcomes
    <2>3. QED
      BY <2>1, <2>2
  <1>11. CancelledHasCause'
    <2> SUFFICES ASSUME NEW b \in Actions, shown'[b] = "cancelled", ~rootCancel
                 PROVE  mode = "FailFast" /\ \E c \in Members(LayerOf[b]) : shown'[c] = "failed"
      BY DEF CancelledHasCause, Members
    <2>1. CASE b = a
      BY <1>8, <1>9, <1>a, <2>1 DEF Members, TypeOK
    <2>2. CASE b # a
      <3>1. shown[b] = "cancelled"
        BY <2>2 DEF TypeOK
      <3>2. mode = "FailFast" /\ \E c \in Members(LayerOf[b]) : shown[c] = "failed"
        BY <3>1 DEF CancelledHasCause
      <3>3. QED
        BY <1>7, <3>2 DEF Members, TypeOK, Outcomes
    <2>3. QED
      BY <2>1, <2>2
  <1>12. Progress' /\ BatchesAtomic'
    BY DEF Progress, BatchesAtomic, Members
  <1>t. Told' /\ Endings'
    <2>1. allEvents[a] = NoEvent
      BY <1>a DEF Told, Outcomes
    <2>2. QED
      BY <1>a, <1>c, <2>1 DEF Told, Endings, EventFor, TypeOK, Members
  <1>13. QED
    BY <1>2, <1>3, <1>4, <1>5, <1>6, <1>10, <1>11, <1>12, <1>t

\* Unwinding drops every future, and with it every permit.
LEMMA PanicStep ==
    ASSUME Inductive, NEW a \in Actions, Panic(a)
    PROVE  Inductive'
  <1> USE LayersAssumption DEF Inductive
  <1>1. /\ pc = "running" /\ pc' = "panicked"
        /\ permits' = permits + Cardinality(Charged)
        /\ st' = [b \in Actions |-> IF st[b] \in {"queued", "running"} THEN "idle" ELSE st[b]]
        /\ UNCHANGED <<planVars, layer, shown, layerEvents, tokenVars, allEvents, cache>>
    BY DEF Panic
  <1> USE <1>1 DEF planVars, tokenVars
  <1>2. PermitsConserved' /\ permits' \in 0..Jobs
    <2>1. Charged' = {}
      BY DEF Charged, Running
    <2>2. permits' = Jobs
      BY DEF PermitsConserved
    <2>3. QED
      BY <2>1, <2>2, FS_EmptySet, JobsAssumption DEF PermitsConserved
  <1>3. TypeOK'
    BY <1>2 DEF TypeOK, Statuses, Ended, Returned
  <1>4. Placement'
    BY DEF Placement, Members, TypeOK
  <1>5. Reporting'
    BY DEF Reporting, Members, TypeOK, Statuses
  <1>6. LayerBatch' /\ TokenCause' /\ CancelledHasCause'
    BY DEF LayerBatch, TokenCause, CancelledHasCause, Members
  <1>7. Progress' /\ BatchesAtomic'
    BY DEF Progress, BatchesAtomic, Members
  <1>t. Told' /\ Endings'
    BY DEF Told, Endings, EventFor
  <1>8. QED
    BY <1>2, <1>3, <1>4, <1>5, <1>6, <1>7, <1>t

\* Ctrl-C sets a flag; it is itself a cause.
LEMMA CancelStep ==
    ASSUME Inductive, Cancel
    PROVE  Inductive'
  <1> USE LayersAssumption DEF Inductive
  <1>1. /\ rootCancel' = TRUE
        /\ UNCHANGED <<planVars, pc, layer, taskVars, layerCancel, allEvents, cache>>
    BY DEF Cancel
  <1> USE <1>1 DEF planVars, taskVars
  <1>2. TypeOK' /\ PermitsConserved'
    BY DEF TypeOK, PermitsConserved, Charged, Running
  <1>3. Placement' /\ Reporting'
    BY DEF Placement, Reporting, Members
  <1>4. LayerBatch' /\ TokenCause' /\ CancelledHasCause'
    BY DEF LayerBatch, TokenCause, CancelledHasCause, Members
  <1>5. Progress' /\ BatchesAtomic'
    BY DEF Progress, BatchesAtomic, Members
  <1>t. Told' /\ Endings'
    BY DEF Told, Endings, EventFor
  <1>6. QED
    BY <1>2, <1>3, <1>4, <1>5, <1>t

-----------------------------------------------------------------------------
(* The theorems.                                                           *)

\* One step of the specification keeps the invariant, whoever takes it.
LEMMA NextInductive == Inductive /\ [Next]_vars => Inductive'
  <1> SUFFICES ASSUME Inductive, [Next]_vars PROVE Inductive'
    OBVIOUS
  <1>1. CASE Step
    BY <1>1, EndingSteps, SkipLayerStep, StartLayerStep, LayerSettledStep,
       PersistStep, PersistFailsStep DEF Step
  <1>2. ASSUME NEW a \in Actions, Start(a) \/ Panic(a)
        PROVE  Inductive'
    BY <1>2, StartStep, PanicStep
  <1>3. ASSUME NEW a \in Actions, NEW o \in Outcomes, Finish(a, o)
        PROVE  Inductive'
    BY <1>3, FinishStep
  <1>4. CASE Cancel \/ Crash \/ Done
    BY <1>4, CancelStep, EndingSteps
  <1>5. CASE UNCHANGED vars
    BY <1>5 DEF vars, planVars, taskVars, tokenVars, Inductive, TypeOK,
       PermitsConserved, Charged, Running, Placement, Reporting, LayerBatch,
       Progress, BatchesAtomic, Told, Endings, EventFor, TokenCause,
       CancelledHasCause, Members
  <1>6. QED
    BY <1>1, <1>2, <1>3, <1>4, <1>5 DEF Next

\* The invariant holds in every run of every plan.
THEOREM Invariance == Spec => []Inductive
  BY InitInductive, NextInductive, PTL DEF Spec

\* Every variable keeps its shape, and a semaphore its bound.
THEOREM TypeCorrect == Spec => []TypeOK
  <1>1. Inductive => TypeOK
    BY DEF Inductive
  <1>2. QED
    BY <1>1, Invariance, PTL

\* No permit is lost or invented: running actions and free permits add up to
\* --jobs, for every pool, layer width and choice of coordinators.
THEOREM PermitsNeverLeak == Spec => []PermitsConserved
  <1>1. Inductive => PermitsConserved
    BY DEF Inductive
  <1>2. QED
    BY <1>1, Invariance, PTL

\* No future of a layer exists before all earlier layers succeeded on record.
THEOREM LayersAreBarriers == Spec => []LayerBarrier
  <1>1. Inductive => LayerBarrier
    <2> SUFFICES ASSUME Inductive, NEW a \in Actions, NEW b \in Actions,
                        st[a] # "idle", b \in stale, LayerOf[b] < LayerOf[a]
                 PROVE  allEvents[b] = Success(input[b]) /\ cache[b] = Success(input[b])
      BY DEF LayerBarrier
    <2> USE LayersAssumption DEF Inductive
    <2>1. LayerOf[b] < layer
      BY DEF Placement, TypeOK
    <2>2. allEvents[b] = Success(input[b]) /\ allEvents[b] # NoEvent
      BY <2>1, EventsAreEvents DEF Progress
    <2>3. Upsert(before, allEvents)[b] = allEvents[b]
      BY <2>2, UpsertType DEF TypeOK
    <2>4. pc = "cacheError" => layerEvents[b] = NoEvent
      BY <2>1 DEF LayerBatch, TypeOK
    <2>5. pc = "cacheError" => Upsert(Upsert(before, allEvents), layerEvents)[b] = allEvents[b]
      BY <2>3, <2>4, UpsertType DEF TypeOK
    <2>6. QED
      BY <2>2, <2>3, <2>5 DEF BatchesAtomic
  <1>2. QED
    BY <1>1, Invariance, PTL

\* At any crash, the cache holds whole layers of events.
THEOREM LayersPersistWhole == Spec => []BatchesAtomic
  <1>1. Inductive => BatchesAtomic
    BY DEF Inductive
  <1>2. QED
    BY <1>1, Invariance, PTL

\* Ok means that the plan is on record, and nothing else is.
LEMMA OkIsRecorded ==
    ASSUME Inductive, pc = "ok", NEW a \in Actions
    PROVE  cache[a] = IF a \in stale THEN Success(input[a]) ELSE before[a]
  <1> USE LayersAssumption DEF Inductive
  <1>1. layer = NumLayers + 1 /\ cache = Upsert(before, allEvents)
    BY DEF Endings, BatchesAtomic
  <1>2. LayerOf[a] < layer
    BY <1>1
  <1>3. a \in stale => allEvents[a] = Success(input[a]) /\ allEvents[a] # NoEvent
    BY <1>2, EventsAreEvents DEF Progress
  <1>4. a \notin stale => allEvents[a] = NoEvent
    BY DEF Progress
  <1>5. QED
    BY <1>1, <1>3, <1>4, UpsertType DEF TypeOK

\* What the caller is told is what is on record.
THEOREM ReturnsAreHonest == Spec => []OutcomeHonest
  <1>1. Inductive => OutcomeHonest
    BY OkIsRecorded DEF Inductive, OutcomeHonest, Endings
  <1>2. QED
    BY <1>1, Invariance, PTL

\* The reader of the progress lines and the reader of the cache agree.
THEOREM SinkAgreesWithEvents == Spec => []SinkMatchesEvents
  <1>1. Inductive => SinkMatchesEvents
    <2> SUFFICES ASSUME Inductive, pc \in {"edge", "ok", "layerFailed"}, NEW a \in Actions
                 PROVE  /\ shown[a] # "running"
                        /\ shown[a] = "nothing" <=> allEvents[a] = NoEvent
                        /\ shown[a] = "ok" <=> allEvents[a] = Success(input[a])
      BY DEF SinkMatchesEvents
    <2>1. /\ shown[a] # "nothing" => allEvents[a] # NoEvent
          /\ allEvents[a] # NoEvent =>
               shown[a] \in Outcomes /\ allEvents[a] = EventFor(a, shown[a])
      BY DEF Inductive, Told
    <2>2. QED
      BY <2>1, EventsAreEvents DEF EventFor, Outcomes
  <1>2. QED
    BY <1>1, Invariance, PTL

\* Nothing is reported as cancelled without a failure or Ctrl-C to explain it.
THEOREM CancellationsAreExplained == Spec => []CancelledHasCause
  <1>1. Inductive => CancelledHasCause
    BY DEF Inductive
  <1>2. QED
    BY <1>1, Invariance, PTL

-----------------------------------------------------------------------------
(* Orchestrator implements BuildRun.  Each step of a future, and what the  *)
(* drain loop does, stutters; the invariant tells what the batch of a      *)
(* settled layer can be.                                                   *)

\* The members of the layer in progress are the same seen from both sides.
LEMMA MembersAgree == Run!Members = Members(layer)
  BY DEF Run!Members, Members

\* Both sides mean the same by an event and by a batch.
LEMMA EventsAgree ==
    /\ Run!NoEvent = NoEvent
    /\ \A h : Run!Success(h) = Success(h) /\ Run!Failed(h) = Failed(h)
    /\ \A c, b : Run!Upsert(c, b) = Upsert(c, b)
  BY DEF Run!NoEvent, NoEvent, Run!Success, Success, Run!Failed, Failed, Run!Upsert, Upsert

\* The members of the layer in progress that failed.
FailedMembers == {a \in Members(layer) : layerEvents[a] = Failed(input[a])}

\* When every member has settled, the layer's events are the batch that the
\* failed ones make.
LEMMA SettledBatch ==
    ASSUME Inductive, pc = "persist"
    PROVE  /\ layerEvents = Run!Batch(FailedMembers)
           /\ FailedMembers \in SUBSET Run!Members
           /\ LayerFailed <=> FailedMembers # {}
  <1>1. \A a \in Actions : layerEvents[a] # NoEvent <=> a \in Members(layer)
    BY DEF Inductive, LayerBatch, Placement, TypeOK, Statuses, Members
  <1>2. \A a \in Actions : layerEvents[a] \in {NoEvent, Success(input[a]), Failed(input[a])}
    BY DEF Inductive, LayerBatch
  <1>3. layerEvents \in [Actions -> LastBuild]
    BY DEF Inductive, TypeOK
  <1>4. Members(layer) \subseteq Actions
    BY DEF Members, Inductive, TypeOK
  <1>5. \A a \in Actions : layerEvents[a] = Run!Batch(FailedMembers)[a]
    BY <1>1, <1>2, <1>4, MembersAgree, EventsAgree DEF Run!Batch, FailedMembers
  <1>6. layerEvents = Run!Batch(FailedMembers)
    BY <1>3, <1>5 DEF Run!Batch
  <1>7. FailedMembers \in SUBSET Run!Members
    BY MembersAgree DEF FailedMembers
  <1>8. LayerFailed <=> FailedMembers # {}
    <2>1. ASSUME NEW a \in Actions, layerEvents[a] # NoEvent, layerEvents[a].kind = "failed"
          PROVE  a \in FailedMembers
      BY <1>1, <1>2, <2>1, EventsAreEvents DEF FailedMembers
    <2>2. ASSUME NEW a \in FailedMembers
          PROVE  layerEvents[a] # NoEvent /\ layerEvents[a].kind = "failed"
      BY EventsAreEvents DEF FailedMembers
    <2>3. QED
      BY <1>4, <2>1, <2>2 DEF LayerFailed, FailedMembers
  <1>9. QED
    BY <1>6, <1>7, <1>8

\* The initial state is one of BuildRun.
LEMMA InitImplements == Init => Run!Init
  BY EventsAgree DEF Init, Run!Init, Phase, Quiet

\* Persisting a settled layer is recording the batch of what failed in it.
LEMMA PersistImplements ==
    ASSUME Inductive, Persist
    PROVE  Run!RecordLayer(FailedMembers)
  <1>1. /\ pc = "persist"
        /\ cache' = Upsert(cache, layerEvents)
        /\ allEvents' = Upsert(allEvents, layerEvents)
        /\ IF LayerFailed THEN pc' = "layerFailed" /\ layer' = layer
                          ELSE pc' = "edge" /\ layer' = layer + 1
        /\ stale' = stale /\ input' = input /\ rootCancel' = rootCancel
    BY DEF Persist, planVars, tokenVars
  <1>2. layerEvents = Run!Batch(FailedMembers) /\ (LayerFailed <=> FailedMembers # {})
    BY <1>1, SettledBatch
  <1>3. Phase = "within"
    BY <1>1 DEF Phase
  <1>4. IF FailedMembers = {} THEN Phase' = "between" /\ layer' = layer + 1
                              ELSE Phase' = "layerFailed" /\ layer' = layer
    BY <1>1, <1>2 DEF Phase
  <1>5. QED
    BY <1>1, <1>2, <1>3, <1>4, EventsAgree DEF Run!RecordLayer

LEMMA PersistFailsImplements ==
    ASSUME Inductive, PersistFails
    PROVE  Run!FailToRecord(FailedMembers)
  <1>1. /\ pc = "persist" /\ pc' = "cacheError"
        /\ cache' \in {cache, Upsert(cache, layerEvents)}
        /\ UNCHANGED <<stale, input, layer, allEvents, rootCancel>>
    BY DEF PersistFails, Committed, planVars, tokenVars
  <1>2. layerEvents = Run!Batch(FailedMembers)
    BY <1>1, SettledBatch
  <1>3. Phase = "within" /\ Phase' = "cacheError"
    BY <1>1 DEF Phase
  <1>4. QED
    BY <1>1, <1>2, <1>3, EventsAgree DEF Run!FailToRecord

\* Every step of the run is a step of BuildRun, or none.
LEMMA StepImplements ==
    ASSUME Inductive, [Next]_vars
    PROVE  [Run!Next]_(Run!vars)
  <1> USE DEF Run!vars
  <1>1. CASE HaltCancelled
    <2>1. Run!Stop
      BY <1>1 DEF HaltCancelled, planVars, tokenVars, Run!Stop, Phase
    <2>2. QED
      BY <2>1 DEF Run!Next
  <1>2. CASE SkipLayer
    <2>1. Run!Pass
      BY <1>2, MembersAgree DEF SkipLayer, planVars, tokenVars, Run!Pass, Phase
    <2>2. QED
      BY <2>1 DEF Run!Next
  <1>3. CASE StartLayer
    <2>1. Run!Begin
      BY <1>3, MembersAgree DEF StartLayer, planVars, Run!Begin, Phase
    <2>2. QED
      BY <2>1 DEF Run!Next
  <1>4. CASE LayerSettled
    BY <1>4 DEF LayerSettled, planVars, tokenVars, Phase
  <1>5. CASE Persist
    BY <1>5, PersistImplements, SettledBatch DEF Run!Next, Persist
  <1>6. CASE PersistFails
    BY <1>6, PersistFailsImplements, SettledBatch DEF Run!Next, PersistFails
  <1>7. CASE Complete
    <2>1. Run!Return
      BY <1>7 DEF Complete, planVars, tokenVars, Run!Return, Phase
    <2>2. QED
      BY <2>1 DEF Run!Next
  <1>8. ASSUME NEW a \in Actions, Start(a)
        PROVE  [Run!Next]_(Run!vars)
    BY <1>8 DEF Start, planVars, tokenVars, Phase
  <1>9. ASSUME NEW a \in Actions, NEW o \in Outcomes, Finish(a, o)
        PROVE  [Run!Next]_(Run!vars)
    BY <1>9 DEF Finish, planVars, Phase
  <1>10. ASSUME NEW a \in Actions, Panic(a)
         PROVE  [Run!Next]_(Run!vars)
    <2>1. Run!Vanish
      BY <1>10 DEF Panic, planVars, tokenVars, Run!Vanish, Phase
    <2>2. QED
      BY <2>1 DEF Run!Next
  <1>11. CASE Cancel
    <2>1. Run!Cancel
      BY <1>11 DEF Cancel, planVars, taskVars, Run!Cancel, Phase, Ended, Returned, Inductive, TypeOK
    <2>2. QED
      BY <2>1 DEF Run!Next
  <1>12. CASE Crash
    <2>1. Run!Vanish
      BY <1>12 DEF Crash, planVars, tokenVars, Run!Vanish, Phase, Ended, Returned, Inductive, TypeOK
    <2>2. QED
      BY <2>1 DEF Run!Next
  <1>13. CASE Done \/ UNCHANGED vars
    BY <1>13 DEF Done, vars, planVars, tokenVars, Phase
  <1>14. QED
    BY <1>1, <1>2, <1>3, <1>4, <1>5, <1>6, <1>7, <1>8, <1>9, <1>10, <1>11, <1>12,
       <1>13 DEF Next, Step

\* Whoever calls execute_plan sees whole layers in order, one cause for the end,
\* and nothing of how the futures were interleaved.
THEOREM Implementation == Spec => ImplementsBuildRun
  <1>1. Init => Run!Init
    BY InitImplements
  <1>2. Inductive /\ [Next]_vars => [Run!Next]_(Run!vars)
    BY StepImplements
  <1>3. Spec => []Inductive
    BY Invariance
  <1>4. QED
    BY <1>1, <1>2, <1>3, PTL DEF Spec, ImplementsBuildRun, Run!Spec

-----------------------------------------------------------------------------
(* Orchestrator implements Callbacks.  What the drain loop knows of its    *)
(* futures is what the sink was told of them (Reporting), and a layer that *)
(* is persisted fails by an event just when an end told is not "ok" (Told).*)

LEMMA SinkAgrees == Sink!Members = Members(layer) /\ Sink!Outcomes = Outcomes
  BY DEF Sink!Members, Members, Sink!Outcomes, Outcomes

\* The events of a settled layer are what the sink was told of its members.
LEMMA SettledTold ==
    ASSUME Inductive, pc = "persist"
    PROVE  LayerFailed <=> \E a \in Members(layer) : shown[a] # "ok"
  <1>1. \A a \in Actions : layerEvents[a] # NoEvent <=> a \in Members(layer)
    BY DEF Inductive, LayerBatch, Placement, TypeOK, Statuses, Members
  <1>2. Members(layer) \subseteq Actions
    BY DEF Members, Inductive, TypeOK
  <1>3. ASSUME NEW a \in Members(layer)
        PROVE  layerEvents[a].kind = "failed" <=> shown[a] # "ok"
    <2>1. shown[a] \in Outcomes /\ layerEvents[a] = EventFor(a, shown[a])
      BY <1>1, <1>2 DEF Inductive, Told
    <2>2. QED
      BY <2>1 DEF EventFor, Outcomes, Success, Failed
  <1>4. QED
    BY <1>1, <1>2, <1>3 DEF LayerFailed

LEMMA InitHonours == Init => Sink!Init
  <1>1. Init => stale \subseteq Actions
    BY PlansAssumption DEF Init, Plan
  <1>2. QED
    BY <1>1 DEF Init, Sink!Init, SinkPhase

\* Every step is a callback, or one the sink does not hear of.
LEMMA StepHonours ==
    ASSUME Inductive, [Next]_vars
    PROVE  [Sink!Next]_(Sink!vars)
  <1> USE DEF Sink!vars
  <1>1. CASE HaltCancelled
    <2>1. Sink!Halt
      BY <1>1 DEF HaltCancelled, planVars, taskVars, Sink!Halt, SinkPhase
    <2>2. QED
      BY <2>1 DEF Sink!Next
  <1>2. CASE SkipLayer
    <2>1. Sink!PassLayer
      BY <1>2, SinkAgrees DEF SkipLayer, planVars, taskVars, Sink!PassLayer, SinkPhase
    <2>2. QED
      BY <2>1 DEF Sink!Next
  <1>3. CASE StartLayer
    <2>1. Sink!LayerStart
      BY <1>3, SinkAgrees DEF StartLayer, planVars, Sink!LayerStart, SinkPhase
    <2>2. QED
      BY <2>1 DEF Sink!Next
  <1>4. CASE LayerSettled
    <2>1. \A a \in Members(layer) : shown[a] \in Outcomes
      BY <1>4 DEF LayerSettled, Inductive, Reporting, Members, TypeOK
    <2>2. Sink!LayerEnd
      BY <1>4, <2>1, SinkAgrees DEF LayerSettled, planVars, taskVars, Sink!LayerEnd, SinkPhase
    <2>3. QED
      BY <2>2 DEF Sink!Next
  <1>5. CASE Persist
    <2>1. /\ pc = "persist" /\ UNCHANGED <<stale, shown>>
          /\ IF LayerFailed THEN pc' = "layerFailed" /\ layer' = layer
                            ELSE pc' = "edge" /\ layer' = layer + 1
      BY <1>5 DEF Persist, planVars, taskVars
    <2>2. IF LayerFailed THEN Sink!LayerFailed ELSE Sink!NextLayer
      BY <2>1, SettledTold, SinkAgrees DEF Sink!LayerFailed, Sink!NextLayer, SinkPhase
    <2>3. QED
      BY <2>2 DEF Sink!Next
  <1>6. CASE PersistFails
    <2>1. Sink!CacheFailed
      BY <1>6 DEF PersistFails, planVars, taskVars, Sink!CacheFailed, SinkPhase
    <2>2. QED
      BY <2>1 DEF Sink!Next
  <1>7. CASE Complete
    <2>1. Sink!Complete
      BY <1>7 DEF Complete, planVars, taskVars, Sink!Complete, SinkPhase
    <2>2. QED
      BY <2>1 DEF Sink!Next
  <1>8. ASSUME NEW a \in Actions, Start(a)
        PROVE  [Sink!Next]_(Sink!vars)
    <2>1. a \in Members(layer) /\ shown[a] = "nothing"
      BY <1>8 DEF Start, Inductive, Placement, Reporting, Members
    <2>2. Sink!ActionStart(a)
      BY <1>8, <2>1, SinkAgrees DEF Start, planVars, Sink!ActionStart, SinkPhase
    <2>3. QED
      BY <2>2 DEF Sink!Next
  <1>9. ASSUME NEW a \in Actions, NEW o \in Outcomes, Finish(a, o)
        PROVE  [Sink!Next]_(Sink!vars)
    <2>1. a \in Members(layer) /\ shown[a] = "running"
      BY <1>9 DEF Finish, Inductive, Placement, Reporting, Members
    <2>2. Sink!ActionEnd(a, o)
      BY <1>9, <2>1, SinkAgrees DEF Finish, planVars, Sink!ActionEnd, SinkPhase
    <2>3. QED
      BY <2>2, SinkAgrees DEF Sink!Next
  <1>10. ASSUME NEW a \in Actions, Panic(a)
         PROVE  [Sink!Next]_(Sink!vars)
    <2>1. a \in Members(layer) /\ shown[a] = "running"
      BY <1>10 DEF Panic, Inductive, Placement, Reporting, Members
    <2>2. Sink!LayerUnwound
      BY <1>10, <2>1, SinkAgrees DEF Panic, planVars, Sink!LayerUnwound, SinkPhase
    <2>3. QED
      BY <2>2 DEF Sink!Next
  <1>11. CASE Crash
    <2>1. Sink!Die
      BY <1>11 DEF Crash, planVars, taskVars, Sink!Die, SinkPhase, Ended, Returned,
         Inductive, TypeOK
    <2>2. QED
      BY <2>1 DEF Sink!Next
  <1>12. CASE Cancel \/ Done \/ UNCHANGED vars
    BY <1>12 DEF Cancel, Done, vars, planVars, taskVars, SinkPhase
  <1>13. QED
    BY <1>1, <1>2, <1>3, <1>4, <1>5, <1>6, <1>7, <1>8, <1>9, <1>10, <1>11, <1>12
       DEF Next, Step

\* Whatever sink watches a run hears the callbacks in the order ProgressSink
\* promises: this is all that Progress assumes of the engine.
THEOREM SinkIsHonoured == Spec => HonoursSink
  <1>1. Init => Sink!Init
    BY InitHonours
  <1>2. Inductive /\ [Next]_vars => [Sink!Next]_(Sink!vars)
    BY StepHonours
  <1>3. Spec => []Inductive
    BY Invariance
  <1>4. QED
    BY <1>1, <1>2, <1>3, PTL DEF Spec, HonoursSink, Sink!Spec

-----------------------------------------------------------------------------
(* Sync: the stale set.                                                    *)

\* Up to date is: not forced, a success on the present input, an artifact, and
\* no stale dependency.
LEMMA WhatIsUpToDate ==
    ASSUME NEW d, NEW now, NEW last \in LastBuild, NEW S,
           NEW there \in BOOLEAN, NEW a, NEW forced
    PROVE  Classify(d, now, last, S, there, a \in forced) = UpToDate <=>
               a \notin forced /\ there /\ last = Success(now) /\ ~MentionsStale(d, S)
  BY DEF Classify, SuccessVerdict, LastBuild, BuildEvent, NoEvent, UpToDate, Because,
         UpstreamMoved, Success

\* A set of numbers has a smallest one.
LEMMA Smallest ==
    ASSUME NEW T \in SUBSET Nat, T # {}
    PROVE  \E i \in T : \A j \in T : i <= j
  <1>1. PICK i \in T : \A j \in T : <<j, i>> \notin OpToRel(<, Nat)
    BY WFMin, NatLessThanWellFounded
  <1>2. \A j \in T : ~(j < i)
    BY <1>1 DEF OpToRel
  <1>3. QED
    BY <1>2

\* Dependencies are actions of earlier layers.
LEMMA DepsAreEarlier ==
    ASSUME NEW a \in Actions, NEW i \in DOMAIN Deps[a]
    PROVE  /\ Deps[a][i] \in Actions
           /\ LayerOf[Deps[a][i]] \in Nat /\ LayerOf[a] \in 1..NumLayers
           /\ LayerOf[Deps[a][i]] < LayerOf[a]
  <1>1. Deps[a] \in Seq(Actions)
    BY DepsAssumption
  <1>2. Deps[a][i] \in Actions
    BY <1>1
  <1>3. QED
    BY <1>2, DepsAssumption, LayersAssumption

\* S is closed and justified up to the n-th layer, when P is what is up to date
\* by itself.
SettledUpTo(n, S, P) ==
    \A a \in Actions : LayerOf[a] <= n => (a \in S <=> a \notin P \/ MentionsStale(Deps[a], S))

\* Layer by layer, there is a set that is its own set of verdicts.
LEMMA Fixpoint ==
    ASSUME NEW P \in SUBSET Actions
    PROVE  \E S \in SUBSET Actions : \A a \in Actions :
               a \in S <=> a \notin P \/ MentionsStale(Deps[a], S)
  <1> DEFINE Bad == {n \in Nat : ~ \E S \in SUBSET Actions : SettledUpTo(n, S, P)}
  <1>1. Bad = {}
    <2> SUFFICES ASSUME Bad # {} PROVE FALSE
      OBVIOUS
    <2>1. PICK n \in Bad : \A m \in Bad : n <= m
      BY Smallest
    <2>2. n # 0
      <3>1. SettledUpTo(0, {}, P)
        BY LayersAssumption DEF SettledUpTo
      <3> QED
        BY <3>1
    <2>3. n - 1 \in Nat /\ n - 1 \notin Bad
      BY <2>1, <2>2
    <2>4. PICK S \in SUBSET Actions : SettledUpTo(n - 1, S, P)
      BY <2>3
    <2> DEFINE Below == {a \in S : LayerOf[a] < n}
               T == Below \cup {a \in Actions : LayerOf[a] = n
                                   /\ (a \notin P \/ MentionsStale(Deps[a], S))}
    <2>5. ASSUME NEW a \in Actions, LayerOf[a] <= n
          PROVE  MentionsStale(Deps[a], T) <=> MentionsStale(Deps[a], S)
      <3>1. \A i \in DOMAIN Deps[a] : Deps[a][i] \in T <=> Deps[a][i] \in S
        BY <2>1, <2>5, DepsAreEarlier
      <3> QED
        BY <3>1 DEF MentionsStale
    <2>6. SettledUpTo(n, T, P)
      <3> SUFFICES ASSUME NEW a \in Actions, LayerOf[a] <= n
                   PROVE  a \in T <=> a \notin P \/ MentionsStale(Deps[a], T)
        BY DEF SettledUpTo
      <3>1. LayerOf[a] \in Nat /\ n \in Nat
        BY LayersAssumption
      <3>2. CASE LayerOf[a] = n
        <4>1. a \in T <=> a \notin P \/ MentionsStale(Deps[a], S)
          BY <3>1, <3>2
        <4> QED
          BY <2>5, <4>1
      <3>3. CASE LayerOf[a] < n
        <4>1. LayerOf[a] <= n - 1
          BY <3>1, <3>3
        <4>2. a \in S <=> a \notin P \/ MentionsStale(Deps[a], S)
          BY <2>4, <4>1 DEF SettledUpTo
        <4> QED
          BY <2>5, <3>1, <3>3, <4>2
      <3> QED
        BY <3>1, <3>2, <3>3
    <2>7. T \in SUBSET Actions
      OBVIOUS
    <2> QED
      BY <2>1, <2>6, <2>7
  <1>2. PICK S \in SUBSET Actions : SettledUpTo(NumLayers, S, P)
    BY <1>1, LayersAssumption
  <1> QED
    BY <1>2, LayersAssumption DEF SettledUpTo

\* An artifact is there or not, and says what it was built from if it is.
LEMMA ArtTypes ==
    ASSUME WorldTypes, NEW a \in Actions
    PROVE  /\ art[a].there \in BOOLEAN
           /\ art[a].there => /\ art[a].of \in Hashes
                              /\ art[a] = Artifact(art[a].of, art[a].from)
           /\ src[a] \in Hashes
  <1>1. src[a] \in Hashes
    BY DEF WorldTypes
  <1>2. CASE art[a] = NoArtifact
    BY <1>1, <1>2 DEF NoArtifact
  <1>3. CASE art[a].of \in Hashes /\ art[a] = Artifact(art[a].of, art[a].from)
    <2>1. \A h, f : Artifact(h, f).there = TRUE
      BY DEF Artifact
    <2>2. art[a].there = TRUE
      BY <1>3, <2>1
    <2> QED
      BY <1>1, <1>3, <2>2
  <1> QED
    BY <1>2, <1>3 DEF WorldTypes

\* What the plan made now would call up to date.
LEMMA StaleNowIs ==
    ASSUME WorldTypes, cache \in [Actions -> LastBuild], NEW forced \in SUBSET Actions
    PROVE  /\ StaleNow(forced) \subseteq Actions
           /\ \A a \in Actions :
                a \notin StaleNow(forced) <=>
                    /\ a \notin forced
                    /\ art[a].there
                    /\ cache[a] = Success(src[a])
                    /\ ~MentionsStale(Deps[a], StaleNow(forced))
  <1> DEFINE P == {a \in Actions : a \notin forced /\ art[a].there /\ cache[a] = Success(src[a])}
             Is(S) == IsStaleSet(S, Deps, src, cache, Present, forced)
  <1>1. \A a \in Actions : Present[a] \in BOOLEAN /\ Present[a] = art[a].there
    BY ArtTypes DEF Present
  <1> P \in SUBSET Actions
    OBVIOUS
  <1>2. ASSUME NEW S \in SUBSET Actions
        PROVE  Is(S) <=> \A a \in Actions :
                             a \in S <=> a \notin P \/ MentionsStale(Deps[a], S)
    <2>1. \A a \in Actions :
            Classify(Deps[a], src[a], cache[a], S, Present[a], a \in forced) = UpToDate
                <=> a \in P /\ ~MentionsStale(Deps[a], S)
      <3> SUFFICES ASSUME NEW a \in Actions
                   PROVE  Classify(Deps[a], src[a], cache[a], S, Present[a], a \in forced)
                              = UpToDate <=> a \in P /\ ~MentionsStale(Deps[a], S)
        OBVIOUS
      <3>1. cache[a] \in LastBuild /\ Present[a] \in BOOLEAN
        BY <1>1
      <3>2. Classify(Deps[a], src[a], cache[a], S, Present[a], a \in forced) = UpToDate
                <=> /\ a \notin forced /\ Present[a] /\ cache[a] = Success(src[a])
                    /\ ~MentionsStale(Deps[a], S)
        BY <3>1, WhatIsUpToDate
      <3> QED
        BY <1>1, <3>2
    <2> QED
      BY <2>1 DEF IsStaleSet
  <1> HIDE DEF P
  <1>3. \E S \in SUBSET Actions : Is(S)
    BY <1>2, Fixpoint
  <1>4. StaleNow(forced) \in SUBSET Actions /\ Is(StaleNow(forced))
    BY <1>3 DEF StaleNow, StaleSet
  <1> QED
    BY <1>2, <1>4 DEF P

-----------------------------------------------------------------------------
(* The initial state, and the start of a run.                              *)

LEMMA InitIsInductive == SyncInit => SyncInductive
  <1> SUFFICES ASSUME SyncInit PROVE SyncInductive
    OBVIOUS
  <1> USE DEF SyncInit
  <1>1. /\ src \in [Actions -> Hashes]
        /\ Quiet \in [Actions -> LastBuild]
        /\ \A a \in Actions : Quiet[a] = NoEvent
    BY StartsAssumption, QuietType DEF Quiet
  <1>2. TypeOK
    <2>1. input \in [Actions -> Hashes] /\ stale \subseteq Actions
      BY <1>1
    <2>2. layer \in 1..(NumLayers + 1) /\ permits \in 0..Jobs
      BY JobsAssumption, LayersAssumption
    <2>3. st \in [Actions -> Statuses] /\ shown \in [Actions -> {"nothing", "running"} \cup Outcomes]
      BY DEF Statuses
    <2> QED
      BY <1>1, <2>1, <2>2, <2>3 DEF TypeOK, Ended
  <1>3. PermitsConserved
    <2>1. Charged = {}
      BY DEF Charged, Running
    <2> QED
      BY <2>1, FS_EmptySet, JobsAssumption DEF PermitsConserved
  <1>4. Placement /\ Reporting /\ LayerBatch /\ Told /\ Endings /\ TokenCause
    BY <1>1 DEF Placement, Reporting, LayerBatch, Told, Endings, TokenCause
  <1>5. Progress /\ CancelledHasCause /\ BatchesAtomic
    BY <1>1, UpsertQuiet DEF Progress, CancelledHasCause, BatchesAtomic, Members
  <1>6. WorldTypes
    <2>1. art = [a \in Actions |-> art[a]]
      OBVIOUS
    <2>2. \A a \in Actions : art[a] = NoArtifact
      OBVIOUS
    <2> QED
      BY <1>1, <2>1, <2>2, ChangesAssumption DEF WorldTypes
  <1>7. \A a \in Actions : cache[a] = NoEvent /\ layerEvents[a] = NoEvent /\ ~art[a].there
    BY <1>1 DEF NoArtifact
  <1>8. NoEvent.kind # "success"
    BY DEF NoEvent
  <1>9. Known
    BY <1>7, <1>8 DEF Known, Had
  <1>10. RecordedWasBuilt /\ AboutToRecord
    BY <1>7 DEF RecordedWasBuilt, AboutToRecord, Unrecorded
  <1>11. PlanSound /\ Debts
    BY <1>7 DEF PlanSound, Debts, MentionsStale, Ended
  <1> QED
    BY <1>2, <1>3, <1>4, <1>5, <1>6, <1>9, <1>10, <1>11 DEF SyncInductive, Inductive

\* A new run owes its whole plan, and leaves out only what the cache has.
LEMMA PlanSyncStep ==
    ASSUME SyncInductive, NEW forced \in Forcings, PlanSync(forced)
    PROVE  SyncInductive'
  <1> USE DEF SyncInductive
  <1>1. cache \in [Actions -> LastBuild] /\ Quiet \in [Actions -> LastBuild]
        /\ \A a \in Actions : Quiet[a] = NoEvent
    BY QuietType DEF Inductive, TypeOK, Quiet
  <1>2. /\ stale' \subseteq Actions
        /\ \A a \in Actions :
             a \notin stale' <=> /\ a \notin forced /\ art[a].there
                                 /\ cache[a] = Success(src[a])
                                 /\ ~MentionsStale(Deps[a], stale')
    <2>1. forced \in SUBSET Actions
      BY ForcingsAssumption
    <2> QED
      BY <1>1, <2>1, StaleNowIs DEF PlanSync
  <1>3. input' = src /\ input' \in [Actions -> Hashes]
    BY DEF PlanSync, WorldTypes
  <1>4. TypeOK'
    <2>1. layer' \in 1..(NumLayers + 1) /\ permits' \in 0..Jobs
      BY JobsAssumption, LayersAssumption DEF PlanSync
    <2>2. /\ st' \in [Actions -> Statuses]
          /\ shown' \in [Actions -> {"nothing", "running"} \cup Outcomes]
      BY DEF PlanSync, Statuses
    <2>3. mode' \in Modes /\ before' \in [Actions -> LastBuild] /\ cache' \in [Actions -> LastBuild]
      BY <1>1 DEF PlanSync, Inductive, TypeOK
    <2>4. /\ pc' \in {"edge", "running", "persist"} \cup Ended
          /\ rootCancel' \in BOOLEAN /\ layerCancel' \in BOOLEAN
          /\ layerEvents' \in [Actions -> LastBuild] /\ allEvents' \in [Actions -> LastBuild]
      BY <1>1 DEF PlanSync
    <2> QED
      BY <1>2, <1>3, <2>1, <2>2, <2>3, <2>4 DEF TypeOK
  <1>5. PermitsConserved'
    <2>1. Charged' = {}
      BY DEF Charged, Running, PlanSync
    <2> QED
      BY <2>1, FS_EmptySet, JobsAssumption DEF PermitsConserved, PlanSync
  <1>6. Placement' /\ Reporting' /\ LayerBatch' /\ Told' /\ Endings' /\ TokenCause'
    BY <1>1 DEF Placement, Reporting, LayerBatch, Told, Endings, TokenCause, PlanSync
  <1>7. Progress'
    <2>1. \A a \in Actions : allEvents'[a] = NoEvent /\ ~(LayerOf[a] < layer')
      BY <1>1, LayersAssumption DEF PlanSync
    <2> QED
      BY <1>2, <2>1 DEF Progress, Members
  <1>8. CancelledHasCause' /\ BatchesAtomic'
    <2>1. \A a \in Actions : allEvents'[a] = NoEvent /\ shown'[a] = "nothing"
      BY <1>1 DEF PlanSync
    <2>2. cache' = Upsert(before', allEvents')
      BY <1>1, UpsertQuiet DEF PlanSync
    <2> QED
      BY <1>2, <2>1, <2>2 DEF CancelledHasCause, BatchesAtomic, Members
  <1>9. WorldTypes'
    BY <1>2 DEF WorldTypes, PlanSync, worldVars
  <1>10. Known'
    <2>1. \A a \in Actions : layerEvents'[a] = NoEvent
      BY <1>1 DEF PlanSync
    <2> QED
      BY <1>3, <2>1 DEF Known, Had, PlanSync, worldVars, NoEvent
  <1>11. RecordedWasBuilt' /\ AboutToRecord'
    <2>1. Unrecorded = {} /\ Unrecorded' = {}
      BY <1>1 DEF PlanSync, Unrecorded, Ended, Returned
    <2> QED
      BY <2>1 DEF RecordedWasBuilt, AboutToRecord, PlanSync, worldVars
  <1>12. PlanSound'
    BY <1>2, <1>3 DEF PlanSound, PlanSync
  <1>13. Debts'
    BY DEF Debts, PlanSync, worldVars, Inputs
  <1> QED
    BY <1>4, <1>5, <1>6, <1>7, <1>8, <1>9, <1>10, <1>11, <1>12, <1>13 DEF Inductive

-----------------------------------------------------------------------------
(* The steps of a run.                                                     *)

\* What a step of Orchestrator that touches no record does not disturb: the
\* world stands, no debt is paid, and events that do not reach the cache are lost.
LEMMA QuietStep ==
    ASSUME SyncInductive, Inductive',
           UNCHANGED <<planVars, worldVars, left, owed, edited, cache>>,
           pc \in Ended => pc' \in Ended /\ (pc' = "ok" => pc = "ok"),
           \A a \in Actions : st'[a] = "settled" \/ st[a] # "settled",
           \A a \in Actions : layerEvents'[a] \in {layerEvents[a], NoEvent},
           lost \subseteq lost', lost' \subseteq Actions,
           Unrecorded' \subseteq Unrecorded, Unrecorded \subseteq Unrecorded' \cup lost'
    PROVE  SyncInductive'
  <1> USE DEF SyncInductive, planVars, worldVars
  <1>1. WorldTypes'
    BY DEF WorldTypes
  <1>2. Known'
    <2> SUFFICES ASSUME NEW a \in Actions, NEW e \in {cache'[a], layerEvents'[a]}
                 PROVE  /\ input'[a] \in Had(a)
                        /\ e.kind = "success" =>
                             /\ e.input \in Had(a)
                             /\ e.input = src[a] /\ src[a] \notin left[a] /\ art[a].there =>
                                  art[a].of = src[a]
      BY DEF Known, Had
    <2>1. e \in {cache[a], layerEvents[a]} \/ e = NoEvent
      OBVIOUS
    <2>2. NoEvent.kind # "success"
      BY DEF NoEvent
    <2> QED
      BY <2>1, <2>2 DEF Known
  <1>3. RecordedWasBuilt'
    BY DEF RecordedWasBuilt
  <1>4. AboutToRecord'
    <2>1. \A a \in Unrecorded' : a \in Actions /\ layerEvents'[a] = layerEvents[a]
      BY DEF Unrecorded
    <2> QED
      BY <2>1 DEF AboutToRecord
  <1>5. PlanSound'
    BY DEF PlanSound, Ended
  <1>6. Debts'
    BY DEF Debts, Inputs, Ended, Inductive, TypeOK
  <1> QED
    BY <1>1, <1>2, <1>3, <1>4, <1>5, <1>6

\* A batch carries over what its events say.
LEMMA BatchStep ==
    ASSUME SyncInductive, Inductive', RecordStep,
           UNCHANGED <<worldVars, left, owed, edited>>
    PROVE  SyncInductive'
  <1> USE DEF SyncInductive, worldVars
  <1>1. /\ UNCHANGED <<stale, input, mode, before, st, layerEvents>>
        /\ cache' \in {cache, Upsert(cache, layerEvents)}
        /\ pc = "persist" /\ pc' \in {"edge", "layerFailed", "cacheError"}
    BY DEF RecordStep, Persist, PersistFails, Committed, planVars, taskVars
  <1>2. /\ Unrecorded = {a \in Actions : layerEvents[a] # NoEvent}
        /\ Unrecorded' = {}
    BY <1>1 DEF Unrecorded
  <1>3. lost' = IF cache' = Upsert(cache, layerEvents)
                THEN lost \ Unrecorded ELSE lost \cup Unrecorded
    BY DEF RecordStep
  <1>4. \A a \in Actions : Upsert(cache, layerEvents)[a] =
            IF a \in Unrecorded THEN layerEvents[a] ELSE cache[a]
    BY <1>2, UpsertType DEF Inductive, TypeOK
  <1>5. WorldTypes'
    BY <1>2, <1>3 DEF WorldTypes
  <1>6. Known'
    <2>1. \A a \in Actions : cache'[a] \in {cache[a], layerEvents[a]}
      BY <1>1, <1>4
    <2> QED
      BY <1>1, <2>1 DEF Known, Had
  <1>7. RecordedWasBuilt'
    <2> SUFFICES ASSUME NEW a \in Actions, a \notin edited, a \notin lost',
                        cache'[a].kind = "success", art[a].there
                 PROVE  art[a].of = cache'[a].input
      BY <1>2 DEF RecordedWasBuilt
    <2>1. CASE cache' = Upsert(cache, layerEvents) /\ a \in Unrecorded
      BY <1>4, <2>1 DEF AboutToRecord
    <2>2. CASE ~(cache' = Upsert(cache, layerEvents) /\ a \in Unrecorded)
      <3>1. a \notin lost /\ a \notin Unrecorded /\ cache'[a] = cache[a]
        BY <1>1, <1>3, <1>4, <2>2
      <3> QED
        BY <3>1 DEF RecordedWasBuilt
    <2> QED
      BY <2>1, <2>2
  <1>8. AboutToRecord'
    BY <1>2 DEF AboutToRecord
  <1>9. PlanSound'
    BY <1>1 DEF PlanSound, Ended, Returned
  <1>10. Debts'
    BY <1>1 DEF Debts, Inputs, Ended, Returned
  <1> QED
    BY <1>5, <1>6, <1>7, <1>8, <1>9, <1>10

\* What an artifact that is put in place changes.
LEMMA BuildStep ==
    ASSUME SyncInductive, NEW a \in Actions, Build(a)
    PROVE  /\ art' = [b \in Actions |-> art'[b]]
           /\ \A b \in Actions \ {a} : art'[b] = art[b]
           /\ art'[a] = Artifact(src[a], Inputs(a))
           /\ art'[a].there /\ art'[a].of = src[a] /\ art'[a].from = Inputs(a)
           /\ edited' \subseteq Actions
           /\ \A b \in Actions \ {a} : b \in edited' <=> b \in edited
           /\ a \in edited' <=> src[a] # input[a]
  <1>1. /\ art = [b \in Actions |-> art[b]]
        /\ art' = [art EXCEPT ![a] = Artifact(src[a], Inputs(a))]
    BY DEF SyncInductive, WorldTypes, Build
  <1>2. /\ art' = [b \in Actions |-> art'[b]]
        /\ \A b \in Actions \ {a} : art'[b] = art[b]
        /\ art'[a] = Artifact(src[a], Inputs(a))
    BY <1>1
  <1>3. art'[a].there /\ art'[a].of = src[a] /\ art'[a].from = Inputs(a)
    BY <1>2 DEF Artifact
  <1>4. edited \subseteq Actions
    BY DEF SyncInductive, WorldTypes
  <1> QED
    BY <1>2, <1>3, <1>4 DEF Build

\* An artifact is built from the dependencies there are.  Whoever was built from
\* the one it replaces comes in a later layer of the same plan, which owes it a run.
LEMMA BuildDebts ==
    ASSUME SyncInductive, NEW a \in Actions, pc = "running", st[a] = "running", Build(a),
           NEW b \in Actions, art'[b].there,
           \A i \in DOMAIN Deps[b] : art'[Deps[b][i]].there,
           art'[b].from # Inputs(b)'
    PROVE  b \in owed \ {a}
  <1> USE DEF SyncInductive
  <1>1. \A i \in DOMAIN Deps[b] : /\ Deps[b][i] \in Actions
                                  /\ LayerOf[Deps[b][i]] < LayerOf[b]
                                  /\ LayerOf[b] \in Nat
    BY DepsAreEarlier
  <1>2. CASE \E i \in DOMAIN Deps[b] : Deps[b][i] = a
    <2>1. LayerOf[a] < LayerOf[b] /\ LayerOf[a] \in Nat /\ LayerOf[b] \in Nat
      BY <1>1, <1>2, LayersAssumption
    <2>2. a \in stale /\ LayerOf[a] = layer
      BY DEF Inductive, Placement
    <2>3. b \in stale
      BY <1>2, <2>2 DEF PlanSound, MentionsStale
    <2>4. st[b] = "idle"
      BY <2>1, <2>2 DEF Inductive, Placement
    <2> QED
      BY <2>1, <2>3, <2>4 DEF Debts, Ended, Returned
  <1>3. CASE \A i \in DOMAIN Deps[b] : Deps[b][i] # a
    <2>1. \A i \in DOMAIN Deps[b] : art'[Deps[b][i]] = art[Deps[b][i]]
      BY <1>1, <1>3, BuildStep
    <2>2. Inputs(b)' = Inputs(b)
      BY <2>1 DEF Inputs
    <2>3. b # a /\ art'[b] = art[b]
      BY <2>2, BuildStep
    <2> QED
      BY <2>1, <2>2, <2>3 DEF Debts
  <1> QED
    BY <1>2, <1>3

\* What the end of an action's future changes of the run.
LEMMA FinishEffect ==
    ASSUME SyncInductive, NEW a \in Actions, NEW o \in Outcomes, Finish(a, o)
    PROVE  /\ pc = "running" /\ pc' = pc /\ st[a] = "running"
           /\ UNCHANGED <<planVars, cache>>
           /\ \A b \in Actions : b # a => st'[b] = st[b] /\ layerEvents'[b] = layerEvents[b]
           /\ st'[a] = "settled" /\ layerEvents'[a] = EventFor(a, o)
           /\ Inductive'
  <1>1. Inductive'
    BY FinishStep DEF SyncInductive
  <1> QED
    BY <1>1 DEF Finish, SyncInductive, Inductive, TypeOK

\* The types, and what is known and recorded, once an action has been built or
\* has changed nothing.
LEMMA FinishRecords ==
    ASSUME SyncInductive, NEW a \in Actions, NEW o \in Outcomes, Finish(a, o),
           UNCHANGED <<src, changes, left, lost>>, owed' \subseteq owed,
           Build(a) \/ (UNCHANGED <<art, edited>> /\ o # "ok")
    PROVE  WorldTypes' /\ Known' /\ RecordedWasBuilt' /\ AboutToRecord'
  <1> USE DEF SyncInductive
  <1>1. /\ UNCHANGED <<input, cache>> /\ pc = "running" /\ pc' = "running"
        /\ \A b \in Actions \ {a} : layerEvents'[b] = layerEvents[b]
        /\ layerEvents'[a] = EventFor(a, o)
    BY FinishEffect DEF planVars
  <1>2. /\ EventFor(a, o) # NoEvent
        /\ EventFor(a, o).kind = "success" => o = "ok" /\ EventFor(a, o).input = input[a]
    BY EventsAreEvents DEF EventFor, Success, Failed
  <1>3. /\ a \in Unrecorded'
        /\ \A b \in Actions \ {a} : b \in Unrecorded' <=> b \in Unrecorded
    BY <1>1, <1>2 DEF Unrecorded
  <1>4. /\ \A b \in Actions \ {a} : art'[b] = art[b]
        /\ \A b \in Actions \ {a} : b \in edited' <=> b \in edited
        /\ art' = [b \in Actions |-> art'[b]] /\ edited' \subseteq Actions
    BY BuildStep DEF WorldTypes
  <1>5. \/ /\ art'[a] = Artifact(src[a], Inputs(a)) /\ art'[a].of = src[a] /\ art'[a].there
           /\ art'[a].from = Inputs(a)
           /\ a \in edited' <=> src[a] # input[a]
        \/ art' = art /\ edited' = edited /\ o # "ok"
    BY BuildStep
  <1>6. WorldTypes'
    <2>1. src[a] \in Hashes
      BY ArtTypes
    <2>2. \A b \in Actions : \/ art'[b] = NoArtifact
                             \/ /\ art'[b].of \in Hashes
                                /\ art'[b] = Artifact(art'[b].of, art'[b].from)
      BY <1>4, <1>5, <2>1 DEF WorldTypes
    <2> QED
      BY <1>4, <2>2 DEF WorldTypes
  <1>7. Known'
    <2> SUFFICES ASSUME NEW b \in Actions, NEW e \in {cache[b], layerEvents'[b]}
                 PROVE  /\ input[b] \in Had(b)
                        /\ e.kind = "success" =>
                             /\ e.input \in Had(b)
                             /\ e.input = src[b] /\ src[b] \notin left[b] /\ art'[b].there =>
                                  art'[b].of = src[b]
      BY <1>1 DEF Known, Had
    <2>1. CASE b # a
      BY <1>1, <1>4, <2>1 DEF Known
    <2>2. CASE b = a /\ e = cache[a]
      BY <1>5, <2>2 DEF Known
    <2>3. CASE b = a /\ e = layerEvents'[a]
      BY <1>1, <1>2, <1>5, <2>3 DEF Known
    <2> QED
      BY <2>1, <2>2, <2>3
  <1>8. RecordedWasBuilt'
    BY <1>1, <1>3, <1>4 DEF RecordedWasBuilt
  <1>9. AboutToRecord'
    <2> SUFFICES ASSUME NEW b \in Actions, b \in Unrecorded', b \notin edited',
                        layerEvents'[b].kind = "success", art'[b].there
                 PROVE  art'[b].of = layerEvents'[b].input
      BY DEF AboutToRecord, Unrecorded
    <2>1. CASE b # a
      BY <1>1, <1>3, <1>4, <2>1 DEF AboutToRecord
    <2>2. CASE b = a
      BY <1>1, <1>2, <1>5, <2>2
    <2> QED
      BY <2>1, <2>2
  <1> QED
    BY <1>6, <1>7, <1>8, <1>9

LEMMA FinishOkStep ==
    ASSUME SyncInductive, NEW a \in Actions, FinishOk(a)
    PROVE  SyncInductive'
  <1> USE DEF SyncInductive, FinishOk
  <1>1. "ok" \in Outcomes
    BY DEF Outcomes
  <1>2. /\ pc = "running" /\ pc' = pc /\ st[a] = "running"
        /\ UNCHANGED <<planVars, cache>>
        /\ \A b \in Actions : b # a => st'[b] = st[b]
        /\ st'[a] = "settled" /\ Inductive'
    BY <1>1, FinishEffect
  <1>3. WorldTypes' /\ Known' /\ RecordedWasBuilt' /\ AboutToRecord'
    BY <1>1, FinishRecords
  <1>4. PlanSound'
    BY <1>2 DEF PlanSound, planVars
  <1>5. Debts'
    <2>1. ASSUME NEW b \in Actions, art'[b].there,
                 \A i \in DOMAIN Deps[b] : art'[Deps[b][i]].there,
                 art'[b].from # Inputs(b)'
          PROVE  b \in owed'
      BY <1>2, <2>1, BuildDebts
    <2>2. ASSUME NEW b \in stale, st'[b] # "settled" PROVE b \in owed'
      BY <1>2, <2>2 DEF Debts, Ended, Returned, Inductive, TypeOK
    <2> QED
      BY <1>2, <2>1, <2>2 DEF Debts, planVars
  <1> QED
    BY <1>2, <1>3, <1>4, <1>5

LEMMA FinishBadStep ==
    ASSUME SyncInductive, NEW a \in Actions, NEW o \in Outcomes \ {"ok"}, FinishBad(a, o)
    PROVE  SyncInductive'
  <1> USE DEF SyncInductive, FinishBad
  <1>1. /\ pc = "running" /\ pc' = pc /\ st[a] = "running"
        /\ UNCHANGED <<planVars, cache>>
        /\ \A b \in Actions : b # a => st'[b] = st[b]
        /\ st'[a] = "settled" /\ Inductive'
    BY FinishEffect
  <1>2. WorldTypes' /\ Known' /\ RecordedWasBuilt' /\ AboutToRecord'
    BY FinishRecords
  <1>3. PlanSound'
    BY <1>1 DEF PlanSound, planVars
  <1>4. Debts'
    <2>1. ASSUME NEW b \in Actions, art'[b].there,
                 \A i \in DOMAIN Deps[b] : art'[Deps[b][i]].there,
                 art'[b].from # Inputs(b)'
          PROVE  b \in owed
      <3>1. CASE Build(a)
        BY <1>1, <2>1, <3>1, BuildDebts
      <3>2. CASE UNCHANGED <<art, edited>>
        BY <2>1, <3>2 DEF Debts, Inputs
      <3> QED
        BY <3>1, <3>2
    <2>2. ASSUME NEW b \in stale, st'[b] # "settled" PROVE b \in owed
      BY <1>1, <2>2 DEF Debts, Ended, Returned, Inductive, TypeOK
    <2> QED
      BY <1>1, <2>1, <2>2 DEF Debts, planVars
  <1> QED
    BY <1>1, <1>2, <1>3, <1>4

\* Every other step of the run keeps the world, and its records say what they did.
LEMMA RunStepStep ==
    ASSUME SyncInductive, RunStep
    PROVE  SyncInductive'
  <1> USE DEF SyncInductive
  <1>1. Inductive' /\ UNCHANGED <<worldVars, left, owed, edited>>
    <2>1. [Next]_vars
      BY DEF RunStep, RecordStep, DeathStep, LoopStep, Next, Step
    <2> QED
      BY <2>1, NextInductive DEF RunStep
  <1>2. lost \subseteq Actions /\ Unrecorded \subseteq Actions
    BY DEF WorldTypes, Unrecorded
  <1>3. CASE RecordStep
    BY <1>1, <1>3, BatchStep
  <1>4. CASE LoopStep /\ (HaltCancelled \/ SkipLayer \/ LayerSettled \/ Complete \/ Cancel)
    <2>1. /\ UNCHANGED <<planVars, cache, st, layerEvents, lost>>
          /\ pc \notin Ended
          /\ pc' = pc \/ pc \in {"running", "edge"}
          /\ pc = "running" => pc' \in {"running", "persist"}
          /\ pc = "edge" => pc' \notin {"running", "persist"}
      BY <1>4 DEF LoopStep, HaltCancelled, SkipLayer, LayerSettled, Complete, Cancel,
         taskVars, planVars, Ended, Returned
    <2>2. Unrecorded' = Unrecorded
      BY <2>1 DEF Unrecorded
    <2> QED
      BY <1>1, <1>2, <2>1, <2>2, QuietStep
  <1>5. CASE LoopStep /\ StartLayer
    <2>1. /\ UNCHANGED <<planVars, cache, lost>> /\ pc = "edge" /\ layerEvents' = Quiet
          /\ st' = [a \in Actions |-> IF a \in Members(layer) THEN "queued" ELSE st[a]]
      BY <1>5 DEF LoopStep, StartLayer
    <2>2. \A a \in Members(layer) : st[a] = "idle"
      BY <2>1, LayersAssumption DEF Members, Inductive, Placement, TypeOK
    <2>3. \A a \in Actions : Quiet[a] = NoEvent
      BY DEF Quiet
    <2>4. Unrecorded = {} /\ Unrecorded' = {}
      BY <2>1, <2>3 DEF Unrecorded
    <2> QED
      BY <1>1, <1>2, <2>1, <2>2, <2>3, <2>4, QuietStep DEF Ended, Returned
  <1>6. CASE LoopStep /\ \E a \in Actions : Start(a)
    <2>1. /\ UNCHANGED <<planVars, cache, layerEvents, pc, lost>> /\ pc = "running"
          /\ \A a \in Actions : st'[a] = "settled" \/ st[a] # "settled"
      BY <1>6 DEF LoopStep, Start, Inductive, TypeOK
    <2>2. Unrecorded' = Unrecorded
      BY <2>1 DEF Unrecorded
    <2> QED
      BY <1>1, <1>2, <2>1, <2>2, QuietStep DEF Ended, Returned
  <1>7. CASE DeathStep
    <2>1. /\ UNCHANGED <<planVars, cache, layerEvents>>
          /\ pc \notin Ended /\ pc' \in {"panicked", "crashed"}
          /\ \A a \in Actions : st'[a] = "settled" \/ st[a] # "settled"
          /\ lost' = lost \cup Unrecorded
      BY <1>7 DEF DeathStep, Crash, Panic, taskVars, Inductive, TypeOK, Ended, Returned
    <2>2. Unrecorded' = {}
      BY <2>1 DEF Unrecorded
    <2> QED
      BY <1>1, <1>2, <2>1, <2>2, QuietStep DEF Ended, Returned
  <1> QED
    BY <1>3, <1>4, <1>5, <1>6, <1>7 DEF RunStep, LoopStep

-----------------------------------------------------------------------------
(* The world.                                                              *)

\* What a source moves away from it has had; content it never had is in no record.
LEMMA EditStep ==
    ASSUME SyncInductive, NEW a \in Actions, EditSource(a)
    PROVE  SyncInductive'
  <1> USE DEF SyncInductive
  <1>1. Inductive' /\ UNCHANGED vars /\ UNCHANGED <<art, owed, edited, lost>>
    <2>1. [Next]_vars /\ UNCHANGED vars
      BY DEF EditSource
    <2> QED
      BY <2>1, NextInductive DEF EditSource
  <1>2. UNCHANGED <<stale, input, before, pc, st, cache, layerEvents>>
    BY <1>1 DEF vars, planVars, taskVars
  <1>3. /\ \A b \in Actions \ {a} : src'[b] = src[b] /\ left'[b] = left[b]
        /\ left'[a] = left[a] \cup {src[a]}
        /\ src'[a] \in Hashes /\ src'[a] # src[a]
        /\ src' \in [Actions -> Hashes] /\ left' \in [Actions -> SUBSET Hashes]
    BY DEF EditSource, WorldTypes
  <1>4. WorldTypes'
    <2>1. changes' \in 0..MaxChanges
      BY ChangesAssumption DEF WorldTypes, EditSource
    <2> QED
      BY <1>1, <1>3, <2>1 DEF WorldTypes
  <1>5. Known'
    <2>1. \A b \in Actions : Had(b) \subseteq Had(b)'
      BY <1>3 DEF Had
    <2> SUFFICES ASSUME NEW b \in Actions, NEW e \in {cache[b], layerEvents[b]},
                        e.kind = "success", e.input = src'[b], src'[b] \notin left'[b],
                        art[b].there
                 PROVE  art[b].of = src'[b]
      BY <1>1, <1>2, <2>1 DEF Known
    <2>2. b # a
      BY <1>3 DEF Known, Had
    <2> QED
      BY <1>3, <2>2 DEF Known
  <1>6. RecordedWasBuilt' /\ AboutToRecord'
    BY <1>1, <1>2 DEF RecordedWasBuilt, AboutToRecord, Unrecorded
  <1>7. PlanSound' /\ Debts'
    BY <1>1, <1>2 DEF PlanSound, Debts, Inputs
  <1> QED
    BY <1>1, <1>4, <1>5, <1>6, <1>7

\* An artifact that is gone says nothing, and nobody was built from it.
LEMMA LossStep ==
    ASSUME SyncInductive, NEW a \in Actions, LoseArtifact(a)
    PROVE  SyncInductive'
  <1> USE DEF SyncInductive
  <1>1. Inductive' /\ UNCHANGED vars /\ UNCHANGED <<src, left, owed, edited, lost>>
    <2>1. [Next]_vars /\ UNCHANGED vars
      BY DEF LoseArtifact
    <2> QED
      BY <2>1, NextInductive DEF LoseArtifact, historyVars
  <1>2. UNCHANGED <<stale, input, before, pc, st, cache, layerEvents>>
    BY <1>1 DEF vars, planVars, taskVars
  <1>3. /\ art' = [b \in Actions |-> art'[b]]
        /\ \A b \in Actions \ {a} : art'[b] = art[b]
        /\ art'[a] = NoArtifact /\ ~art'[a].there
    BY DEF LoseArtifact, WorldTypes, NoArtifact
  <1>4. WorldTypes'
    <2>1. changes' \in 0..MaxChanges
      BY ChangesAssumption DEF WorldTypes, LoseArtifact
    <2> QED
      BY <1>1, <1>3, <2>1 DEF WorldTypes
  <1>5. Known'
    BY <1>1, <1>2, <1>3 DEF Known, Had
  <1>6. RecordedWasBuilt' /\ AboutToRecord'
    BY <1>1, <1>2, <1>3 DEF RecordedWasBuilt, AboutToRecord, Unrecorded
  <1>7. PlanSound'
    BY <1>2 DEF PlanSound
  <1>8. Debts'
    <2> SUFFICES ASSUME NEW b \in Actions, art'[b].there,
                        \A i \in DOMAIN Deps[b] : art'[Deps[b][i]].there,
                        art'[b].from # Inputs(b)'
                 PROVE  b \in owed
      BY <1>1, <1>2 DEF Debts
    <2>1. \A i \in DOMAIN Deps[b] : art'[Deps[b][i]] = art[Deps[b][i]]
      BY <1>3, DepsAreEarlier
    <2>2. art'[b] = art[b] /\ Inputs(b)' = Inputs(b)
      BY <1>3, <2>1 DEF Inputs
    <2> QED
      BY <2>1, <2>2 DEF Debts
  <1> QED
    BY <1>1, <1>4, <1>5, <1>6, <1>7, <1>8

LEMMA SyncNextInductive == SyncInductive /\ [SyncNext]_syncVars => SyncInductive'
  <1> SUFFICES ASSUME SyncInductive, [SyncNext]_syncVars PROVE SyncInductive'
    OBVIOUS
  <1>1. CASE SyncNext
    BY <1>1, PlanSyncStep, FinishOkStep, FinishBadStep, RunStepStep, EditStep, LossStep DEF SyncNext
  <1>2. CASE UNCHANGED syncVars
    <2>1. Inductive'
      BY <1>2, NextInductive DEF syncVars, SyncInductive
    <2> QED
      BY <1>2, <2>1 DEF syncVars, vars, worldVars, historyVars, planVars, taskVars,
         SyncInductive, WorldTypes, Known, Had, RecordedWasBuilt, AboutToRecord, Unrecorded,
         PlanSound, Debts, Inputs
  <1> QED
    BY <1>1, <1>2

-----------------------------------------------------------------------------
(* The theorems.                                                           *)

\* The invariant holds of every history of runs, however they are interrupted.
THEOREM SyncInvariance == SyncSpec => []SyncInductive
  BY InitIsInductive, SyncNextInductive, PTL DEF SyncSpec

\* A success in the cache is of what was built, but for an action whose last
\* build lost its record and one whose source moved between plan and build.
THEOREM RecordsTellTheBuild == SyncSpec => []RecordedWasBuilt
  <1>1. SyncInductive => RecordedWasBuilt
    BY DEF SyncInductive
  <1> QED
    BY <1>1, SyncInvariance, PTL

\* What the next plan leaves out wrongly either had its content come back, over a
\* build that was not recorded or used other content, or is owed a run by a plan
\* that was interrupted: there is no third way to be skipped wrongly.
THEOREM WrongSkipsAreExplained == SyncSpec => []WrongSkipHasCause
  <1>1. SyncInductive => WrongSkipHasCause
    <2> SUFFICES ASSUME SyncInductive, pc \in Ended, NEW a \in Actions, a \notin StaleNow({})
                 PROVE  /\ art[a].of # src[a] => src[a] \in left[a] /\ a \in edited \cup lost
                        /\ art[a].from # Inputs(a) => a \in owed
      BY DEF WrongSkipHasCause
    <2> USE DEF SyncInductive
    <2>1. /\ art[a].there
          /\ cache[a].kind = "success" /\ cache[a].input = src[a]
          /\ ~MentionsStale(Deps[a], StaleNow({}))
      BY StaleNowIs DEF Inductive, TypeOK, Success
    <2>2. \A i \in DOMAIN Deps[a] : art[Deps[a][i]].there
      BY <2>1, StaleNowIs, DepsAreEarlier DEF Inductive, TypeOK, MentionsStale
    <2>3. a \notin Unrecorded
      BY DEF Unrecorded, Ended, Returned
    <2>4. art[a].of # src[a] => src[a] \in left[a]
      BY <2>1 DEF Known
    <2>5. art[a].of # src[a] => a \in edited \cup lost
      BY <2>1, <2>3 DEF RecordedWasBuilt
    <2> QED
      BY <2>1, <2>2, <2>4, <2>5 DEF Debts
  <1> QED
    BY <1>1, SyncInvariance, PTL

\* After a run that returned Ok, as long as nothing changed, nothing is stale.
THEOREM SecondSyncsAreNoOps == SyncSpec => []SecondSyncIsNoOp
  <1>1. SyncInductive => SecondSyncIsNoOp
    <2> SUFFICES ASSUME SyncInductive, pc = "ok", input = src,
                        \A a \in Actions : art[a].there,
                        StaleNow({}) # {}
                 PROVE  FALSE
      BY DEF SecondSyncIsNoOp
    <2> USE DEF SyncInductive
    <2>1. \A a \in Actions : cache[a] = Success(src[a])
      BY OkIsRecorded DEF PlanSound
    <2>2. /\ StaleNow({}) \subseteq Actions
          /\ \A a \in StaleNow({}) : MentionsStale(Deps[a], StaleNow({}))
      BY <2>1, StaleNowIs DEF Inductive, TypeOK
    <2> DEFINE Layers == {LayerOf[a] : a \in StaleNow({})}
    <2>3. PICK n \in Layers : \A m \in Layers : n <= m
      <3>1. Layers \in SUBSET Nat
        BY <2>2, LayersAssumption
      <3>2. Layers # {}
        OBVIOUS
      <3> HIDE DEF Layers
      <3> QED
        BY <3>1, <3>2, Smallest
    <2>4. PICK a \in StaleNow({}) : LayerOf[a] = n /\ a \in Actions
      BY <2>2, <2>3
    <2>5. PICK i \in DOMAIN Deps[a] : Deps[a][i] \in StaleNow({})
      BY <2>2, <2>4 DEF MentionsStale
    <2>6. LayerOf[Deps[a][i]] \in Layers
      BY <2>5
    <2>7. n <= LayerOf[Deps[a][i]]
      BY <2>3, <2>6
    <2> QED
      BY <2>4, <2>5, <2>7, DepsAreEarlier
  <1> QED
    BY <1>1, SyncInvariance, PTL
=============================================================================

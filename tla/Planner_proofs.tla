---------------------------- MODULE Planner_proofs ----------------------------
(***************************************************************************)
(* Proofs about Planner, for every finite set of actions, every dependency *)
(* graph and cache, and any interference of the world with the probes.     *)
(***************************************************************************)
EXTENDS Planner, FiniteSetTheorems, WellFoundedInduction, TLAPS

-----------------------------------------------------------------------------
(* Facts about the verdicts.                                               *)

\* Only a recorded success of the same input, with its artifact present and no
\* stale dependency, is up to date.
LEMMA ClassifyUpToDate ==
    ASSUME NEW d, NEW now, NEW last \in LastBuild, NEW S,
           NEW present_ \in BOOLEAN, NEW f \in BOOLEAN,
           Classify(d, now, last, S, present_, f) = UpToDate
    PROVE  /\ ~f /\ present_ /\ ~MentionsStale(d, S)
           /\ last = Success(now)
  BY DEF Classify, SuccessVerdict, LastBuild, BuildEvent, NoEvent, UpToDate, Because,
         UpstreamMoved, Success

\* Only a recorded success of the same input is `UpstreamMoved`, and only when a
\* dependency is stale.
LEMMA ClassifyUpstreamMoved ==
    ASSUME NEW d, NEW now, NEW last \in LastBuild, NEW S,
           NEW present_ \in BOOLEAN, NEW f \in BOOLEAN,
           Classify(d, now, last, S, present_, f).why = "UpstreamMoved"
    PROVE  /\ Classify(d, now, last, S, present_, f) = UpstreamMoved(FirstStale(d, S))
           /\ MentionsStale(d, S)
           /\ last = Success(now)
  BY DEF Classify, SuccessVerdict, LastBuild, BuildEvent, NoEvent, UpToDate, Because,
         UpstreamMoved, Success

\* A set of ids has a smallest one.
LEMMA HasLeast ==
    ASSUME NEW T \in SUBSET Nat, T # {}
    PROVE  \E i \in T : \A j \in T : i <= j
  <1>1. PICK i \in T : \A j \in T : <<j, i>> \notin OpToRel(<, Nat)
    BY WFMin, NatLessThanWellFounded
  <1>2. \A j \in T : ~(j < i)
    BY <1>1 DEF OpToRel
  <1>3. QED
    BY <1>2

\* The named dependency is a stale one of the list.
LEMMA FirstStaleIsOne ==
    ASSUME NEW d \in Seq(Nat), NEW S, MentionsStale(d, S)
    PROVE  \E i \in DOMAIN d : FirstStale(d, S) = d[i] /\ d[i] \in S
  <1> DEFINE hits == {i \in DOMAIN d : d[i] \in S}
  <1>1. \A i \in hits : i \in Nat
    OBVIOUS
  <1>2. \E i \in hits : \A j \in hits : i <= j
    <2>1. hits \in SUBSET Nat /\ hits # {}
      BY <1>1 DEF MentionsStale
    <2>2. QED
      BY <2>1, HasLeast
  <1>3. QED
    BY <1>2 DEF FirstStale

\* Verdicts are change reasons.
LEMMA ClassifyType ==
    ASSUME NEW d \in Seq(Nat), NEW now, NEW last \in LastBuild, NEW S \in SUBSET Actions,
           NEW present_ \in BOOLEAN, NEW f \in BOOLEAN
    PROVE  Classify(d, now, last, S, present_, f) \in ChangeReason \cup {UpToDate}
  BY FirstStaleIsOne
     DEF Classify, SuccessVerdict, LastBuild, BuildEvent, NoEvent, UpToDate, Because,
         UpstreamMoved, ChangeReason

-----------------------------------------------------------------------------
(* Facts about the graph.                                                  *)

\* Dependency lists are finite, so mentions can be counted.
LEMMA MentionsFinite ==
    ASSUME deps \in [Actions -> Seq(Nat)], NEW a \in Actions, NEW S
    PROVE  /\ IsFiniteSet(DepsIn(a, S))
           /\ Cardinality(DepsIn(a, S)) \in Nat
           /\ IsFiniteSet(DOMAIN deps[a])
           /\ Cardinality(DOMAIN deps[a]) = Len(deps[a])
  <1>1. DOMAIN deps[a] = 1..Len(deps[a]) /\ Len(deps[a]) \in Nat
    OBVIOUS
  <1>2. IsFiniteSet(DOMAIN deps[a]) /\ Cardinality(DOMAIN deps[a]) = Len(deps[a])
    <2> DEFINE n == Len(deps[a])
    <2>1. n \in Nat /\ n \in Int /\ 1 \in Int
      BY <1>1
    <2>2. /\ IsFiniteSet(1..n)
          /\ Cardinality(1..n) = IF 1 > n THEN 0 ELSE n - 1 + 1
      BY <2>1, FS_Interval
    <2>3. Cardinality(1..n) = n
      BY <2>1, <2>2
    <2>4. QED
      BY <1>1, <2>2, <2>3
  <1>3. DepsIn(a, S) \in SUBSET DOMAIN deps[a]
    BY DEF DepsIn
  <1>4. QED
    BY <1>2, <1>3, FS_Subset, FS_CardinalityType

\* No mention counted: no dependency there.
LEMMA NoMentions ==
    ASSUME deps \in [Actions -> Seq(Nat)], NEW a \in Actions, NEW S
    PROVE  Cardinality(DepsIn(a, S)) = 0 <=> DepsOf(a) \cap S = {}
  <1>1. Cardinality(DepsIn(a, S)) = 0 <=> DepsIn(a, S) = {}
    BY MentionsFinite, FS_EmptySet
  <1>2. DepsIn(a, S) = {} <=> DepsOf(a) \cap S = {}
    BY DEF DepsIn, DepsOf
  <1>3. QED
    BY <1>1, <1>2

\* Discharging a layer leaves the mentions of what still remains.
LEMMA DischargeCounts ==
    ASSUME deps \in [Actions -> Seq(Nat)], NEW a \in Actions, NEW R, NEW L \in SUBSET R
    PROVE  Cardinality(DepsIn(a, R \ L))
             = Cardinality(DepsIn(a, R)) - Cardinality(DepsIn(a, L))
  <1>1. DepsIn(a, R \ L) = DepsIn(a, R) \ DepsIn(a, L)
    BY DEF DepsIn
  <1>2. DepsIn(a, R) \cap DepsIn(a, L) = DepsIn(a, L)
    BY DEF DepsIn
  <1>3. IsFiniteSet(DepsIn(a, R))
    BY MentionsFinite
  <1>4. Cardinality(DepsIn(a, R) \ DepsIn(a, L))
          = Cardinality(DepsIn(a, R)) - Cardinality(DepsIn(a, R) \cap DepsIn(a, L))
    BY <1>3, FS_Difference
  <1>5. QED
    BY <1>1, <1>2, <1>4

-----------------------------------------------------------------------------
(* The initial state and the graph steps.                                  *)

LEMMA InitInductive == Init => Inductive
  <1> SUFFICES ASSUME Init PROVE Inductive
    OBVIOUS
  <1>1. TypeOK
    <2>1. /\ deps \in [Actions -> Seq(Nat)] /\ cache \in [Actions -> LastBuild]
          /\ forced \subseteq Actions /\ src \in [Actions -> Hashes]
          /\ present \in [Actions -> BOOLEAN]
      BY ProblemsAssumption DEF Init, Problem
    <2>2. error.why = "none" /\ error.ids = {}
      BY DEF Init, NoError
    <2>3. k \in 0..Len(layers) /\ layers \in Seq(SUBSET Actions) /\ edits \in 0..MaxEdits
      BY MaxEditsAssumption DEF Init
    <2>4. QED
      BY <2>1, <2>2, <2>3
         DEF Init, TypeOK, Remaining, Planned, EmptyMap, HashResult
  <1>2. Stages
    BY DEF Init, Stages, Remaining, Planned, EmptyMap
  <1>3. Counts /\ NoneDeadlocked /\ LayersSound
    BY DEF Init, Counts, NoneDeadlocked, LayersSound, Extracted, Remaining
  <1>4. CycleVerdict
    BY DEF Init, CycleVerdict, NoError
  <1>5. Decided /\ StaleClosed /\ UpstreamMovedHonest /\ UpToDateJustified
    BY DEF Init, Decided, StaleClosed, UpstreamMovedHonest, UpToDateJustified,
       Planned, EmptyMap
  <1>6. QED
    BY <1>1, <1>2, <1>3, <1>4, <1>5 DEF Inductive

\* The problem itself never changes, so neither does what is read off it.
LEMMA GraphFixed ==
    ASSUME UNCHANGED problemVars
    PROVE  /\ \A a : DepsOf(a)' = DepsOf(a)
           /\ \A S : Deadlocked(S)' = Deadlocked(S)
  <1>1. deps' = deps
    BY DEF problemVars
  <1>2. \A a : DepsOf(a)' = DepsOf(a)
    BY <1>1 DEF DepsOf
  <1>3. \A S : Deadlocked(S)' = Deadlocked(S)
    BY <1>1 DEF Deadlocked, DepsOf
  <1>4. QED
    BY <1>2, <1>3

\* A step that leaves the graph, the layers and the verdicts alone.
LEMMA GraphUntouched ==
    ASSUME Inductive, UNCHANGED <<problemVars, inbound, layers, planVars>>
    PROVE  LayersSound' /\ NoneDeadlocked' /\ StaleClosed' /\ UpstreamMovedHonest'
  <1> USE DEF Inductive
  <1>1. /\ deps' = deps /\ cache' = cache /\ inbound' = inbound /\ layers' = layers
        /\ reasons' = reasons /\ inputHashes' = inputHashes
        /\ UNCHANGED problemVars
    BY DEF problemVars, planVars
  <1>2. /\ Extracted' = Extracted /\ Remaining' = Remaining
        /\ Planned' = Planned /\ Stale' = Stale
    BY <1>1 DEF Extracted, Remaining, Planned, Stale
  <1>3. LayersSound'
    BY <1>1, <1>2, GraphFixed DEF LayersSound
  <1>4. NoneDeadlocked'
    BY <1>1, <1>2, GraphFixed DEF NoneDeadlocked
  <1>5. StaleClosed' /\ UpstreamMovedHonest'
    BY <1>1, <1>2, GraphFixed DEF StaleClosed, UpstreamMovedHonest
  <1>6. QED
    BY <1>3, <1>4, <1>5

\* Counting every mention of a closed graph.
LEMMA IndexStep ==
    ASSUME Inductive, Index
    PROVE  Inductive'
  <1> USE DEF Inductive
  <1>1. /\ pc = "index" /\ pc' = "layering"
        /\ \A a \in Actions : \A i \in DOMAIN deps[a] : deps[a][i] \in Actions
        /\ inbound' = [a \in Actions |-> Len(deps[a])]
        /\ UNCHANGED <<problemVars, worldVars, layers, k, probeVars, planVars, error>>
    BY DEF Index, Mentions
  <1> USE <1>1 DEF problemVars, worldVars, probeVars, planVars
  <1>a. Remaining' = Actions /\ layers = <<>> /\ Planned' = {}
    BY DEF Remaining, Stages, Planned
  <1>2. TypeOK'
    <2>1. inbound' \in [Actions -> Nat]
      BY DEF TypeOK
    <2>2. QED
      BY <1>a, <2>1 DEF TypeOK, Planned
  <1>3. Stages'
    BY <1>a DEF Stages
  <1>4. Counts'
    <2>1. \A a \in Actions : DepsIn(a, Actions) = DOMAIN deps[a]
      BY DEF DepsIn
    <2>2. \A a \in Actions : Cardinality(DepsIn(a, Actions)) = Len(deps[a])
      BY <2>1, MentionsFinite DEF TypeOK
    <2>3. \A a \in Actions : DepsOf(a) \subseteq Actions
      BY DEF DepsOf
    <2>4. QED
      BY <1>a, <2>2, <2>3 DEF Counts, DepsOf, DepsIn
  <1>5. LayersSound' /\ NoneDeadlocked'
    BY <1>a DEF LayersSound, NoneDeadlocked, Extracted
  <1>6. CycleVerdict'
    BY DEF CycleVerdict, Stages, NoError
  <1>7. Decided' /\ StaleClosed' /\ UpstreamMovedHonest' /\ UpToDateJustified'
    BY <1>a DEF Decided, StaleClosed, UpstreamMovedHonest, UpToDateJustified
  <1>8. QED
    BY <1>2, <1>3, <1>4, <1>5, <1>6, <1>7

\* One turn of the Kahn loop: what is extracted had everything it needs.
LEMMA ExtractStep ==
    ASSUME Inductive, Extract
    PROVE  Inductive'
  <1> USE DEF Inductive
  <1>1. /\ pc = "layering" /\ Ready # {}
        /\ layers' = Append(layers, Ready)
        /\ inbound' = [a \in Remaining \ Ready |-> Discharge(a, Ready)]
        /\ UNCHANGED <<problemVars, worldVars, pc, k, probeVars, planVars, error>>
    BY DEF Extract
  <1> USE <1>1 DEF problemVars, worldVars, probeVars, planVars
  <1>a. /\ Ready \subseteq Remaining /\ Remaining \subseteq Actions
        /\ Remaining' = Remaining \ Ready
        /\ error.why # "MissingDep"
    BY DEF Ready, Remaining, TypeOK, Stages, NoError
  <1>b. /\ \A a \in Actions : DepsOf(a) \subseteq Actions
        /\ \A a \in Remaining : inbound[a] = Cardinality(DepsIn(a, Remaining))
    BY <1>a DEF Counts
  <1>c. \A a \in Ready : DepsOf(a) \subseteq Extracted
    <2> SUFFICES ASSUME NEW a \in Ready PROVE DepsOf(a) \subseteq Extracted
      OBVIOUS
    <2>1. a \in Remaining /\ a \in Actions /\ inbound[a] = 0
      BY <1>a DEF Ready
    <2>2. DepsOf(a) \cap Remaining = {}
      BY <1>b, <2>1, NoMentions DEF TypeOK
    <2>3. QED
      BY <1>b, <2>1, <2>2 DEF LayersSound
  <1>d. /\ DOMAIN layers' = 1..(Len(layers) + 1) /\ Len(layers) \in Nat
        /\ DOMAIN layers = 1..Len(layers)
        /\ \A i \in DOMAIN layers : layers'[i] = layers[i]
        /\ layers'[Len(layers) + 1] = Ready
        /\ layers' \in Seq(SUBSET Actions)
    BY <1>a DEF TypeOK
  <1>e. Extracted' = Extracted \cup Ready
    <2>1. \A x : x \in Extracted' <=> \E i \in DOMAIN layers' : x \in layers'[i]
      BY DEF Extracted
    <2>2. \A x : x \in Extracted <=> \E i \in DOMAIN layers : x \in layers[i]
      BY DEF Extracted
    <2>3. QED
      BY <1>d, <2>1, <2>2
  <1>f. \A a \in Remaining' : inbound'[a] = Cardinality(DepsIn(a, Remaining'))
    <2> SUFFICES ASSUME NEW a \in Remaining \ Ready
                 PROVE  inbound'[a] = Cardinality(DepsIn(a, Remaining \ Ready))
      BY <1>a
    <2>1. inbound'[a] = Cardinality(DepsIn(a, Remaining)) - Cardinality(DepsIn(a, Ready))
      BY <1>b DEF Discharge
    <2>2. QED
      BY <1>a, <2>1, DischargeCounts DEF TypeOK
  <1>2. TypeOK'
    <2>1. \A a \in Remaining' : inbound'[a] \in Nat
      BY <1>a, <1>f, MentionsFinite DEF TypeOK
    <2>2. inbound' \in [Remaining' -> Nat]
      BY <1>a, <2>1
    <2>3. k \in 0..Len(layers')
      BY <1>d DEF TypeOK, Stages
    <2>4. QED
      BY <1>a, <1>d, <2>2, <2>3 DEF TypeOK, Planned
  <1>3. Stages'
    BY DEF Stages, Planned
  <1>4. Counts'
    BY <1>a, <1>b, <1>f DEF Counts, DepsOf, DepsIn
  <1>5. LayersSound'
    <2>1. \A i \in DOMAIN layers' : \A a \in layers'[i] :
            DepsOf(a) \subseteq UNION {layers'[j] : j \in 1..(i - 1)}
      <3> SUFFICES ASSUME NEW i \in DOMAIN layers', NEW a \in layers'[i], NEW d \in DepsOf(a)
                   PROVE  \E j \in 1..(i - 1) : d \in layers'[j]
        OBVIOUS
      <3>1. CASE i \in DOMAIN layers
        <4>1. \E j \in 1..(i - 1) : d \in layers[j]
          BY <1>d, <3>1 DEF LayersSound
        <4>2. QED
          BY <1>d, <3>1, <4>1
      <3>2. CASE i = Len(layers) + 1
        <4>1. \E j \in DOMAIN layers : d \in layers[j]
          BY <1>c, <1>d, <3>2 DEF Extracted
        <4>2. QED
          BY <1>d, <3>2, <4>1
      <3>3. QED
        BY <1>d, <3>1, <3>2
    <2>2. \A i, j \in DOMAIN layers' : i # j => layers'[i] \cap layers'[j] = {}
      <3>1. \A i \in DOMAIN layers : layers[i] \cap Ready = {}
        <4>1. \A i \in DOMAIN layers : layers[i] \subseteq Extracted
          BY DEF Extracted
        <4>2. QED
          BY <1>a, <4>1 DEF LayersSound
      <3>2. QED
        BY <1>d, <3>1 DEF LayersSound
    <2>3. Extracted' \cup Remaining' = Actions /\ Extracted' \cap Remaining' = {}
      BY <1>a, <1>e DEF LayersSound
    <2>4. QED
      BY <2>1, <2>2, <2>3, GraphFixed DEF LayersSound
  <1>6. NoneDeadlocked'
    <2> SUFFICES ASSUME NEW S \in SUBSET Actions, Deadlocked(S), NEW a \in S, a \in Ready
                 PROVE  FALSE
      BY <1>e, GraphFixed DEF NoneDeadlocked
    <2>1. S \cap Extracted = {}
      BY DEF NoneDeadlocked
    <2>2. QED
      BY <1>c, <2>1 DEF Deadlocked
  <1>7. CycleVerdict'
    BY DEF CycleVerdict, Stages, NoError
  <1>8. Decided' /\ StaleClosed' /\ UpstreamMovedHonest' /\ UpToDateJustified'
    BY DEF Stages, Decided, StaleClosed, UpstreamMovedHonest, UpToDateJustified, Planned
  <1>9. QED
    BY <1>2, <1>3, <1>4, <1>5, <1>6, <1>7, <1>8

\* An empty layer with ids left: those are all that wait for one another.
LEMMA CycleStep ==
    ASSUME Inductive, Cycle
    PROVE  Inductive'
  <1> USE DEF Inductive
  <1>1. /\ pc = "layering" /\ Ready = {} /\ pc' = "error"
        /\ error' = PlanError("Cycle", Remaining)
        /\ UNCHANGED <<problemVars, worldVars, inbound, layers, k, probeVars, planVars>>
    BY DEF Cycle, Fail
  <1> USE <1>1 DEF problemVars, worldVars, probeVars, planVars
  <1>2. TypeOK'
    BY DEF TypeOK, PlanError, Remaining, Planned
  <1>3. Stages'
    BY DEF Stages
  <1>4. Counts'
    BY DEF Counts, Stages, NoError, DepsOf, DepsIn, Remaining
  <1>5. CycleVerdict'
    <2>1. Deadlocked(Remaining)
      <3> SUFFICES ASSUME NEW a \in Remaining PROVE DepsOf(a) \cap Remaining # {}
        BY DEF Deadlocked
      <3>1. inbound[a] # 0 /\ a \in Actions
        BY DEF Ready, TypeOK
      <3>2. QED
        BY <3>1, NoMentions DEF Counts, Stages, NoError, TypeOK
    <2>2. \A S \in SUBSET Actions : Deadlocked(S) => S \subseteq Remaining
      BY DEF NoneDeadlocked, LayersSound
    <2>3. Remaining = UNION {S \in SUBSET Actions : Deadlocked(S)}
      BY <2>1, <2>2 DEF TypeOK
    <2>4. QED
      BY <2>3 DEF CycleVerdict, PlanError, Deadlocked, DepsOf
  <1>6. Decided' /\ UpToDateJustified'
    BY DEF Stages, Decided, UpToDateJustified, Planned
  <1>7. QED
    BY <1>2, <1>3, <1>4, <1>5, <1>6, GraphUntouched

\* Every id extracted: nothing waits for itself.
LEMMA LayeredStep ==
    ASSUME Inductive, Layered
    PROVE  Inductive'
  <1> USE DEF Inductive
  <1>1. /\ pc = "layering" /\ Remaining = {} /\ pc' = "edge"
        /\ UNCHANGED <<problemVars, worldVars, inbound, layers, k, probeVars, planVars, error>>
    BY DEF Layered
  <1> USE <1>1 DEF problemVars, worldVars, probeVars, planVars
  <1>2. TypeOK'
    BY DEF TypeOK, Remaining, Planned
  <1>3. Stages'
    BY DEF Stages, Remaining
  <1>4. Counts'
    BY DEF Counts, DepsOf, DepsIn, Remaining, Stages, NoError
  <1>5. CycleVerdict'
    <2>1. error'.why = "none" /\ error'.why # "Cycle"
      BY DEF Stages, NoError
    <2>2. Extracted = Actions
      BY DEF LayersSound
    <2>3. \A S \in SUBSET Actions : Deadlocked(S) => S = {}
      BY <2>2 DEF NoneDeadlocked
    <2>4. QED
      BY <2>1, <2>3, GraphFixed DEF CycleVerdict
  <1>6. Decided' /\ UpToDateJustified'
    BY DEF Stages, Decided, UpToDateJustified, Planned, DepsOf
  <1>7. QED
    BY <1>2, <1>3, <1>4, <1>5, <1>6, GraphUntouched

\* An unregistered dependency ends the planning before anything is built.
LEMMA MissingDepStep ==
    ASSUME Inductive, MissingDep
    PROVE  Inductive'
  <1> USE DEF Inductive
  <1>1. PICK a \in Actions : error' = PlanError("MissingDep", {a})
    BY DEF MissingDep, Fail
  <1>2. /\ pc = "index" /\ pc' = "error"
        /\ UNCHANGED <<problemVars, worldVars, inbound, layers, k, probeVars, planVars>>
    BY DEF MissingDep, Fail
  <1> USE <1>1, <1>2 DEF problemVars, worldVars, probeVars, planVars
  <1>3. TypeOK'
    BY DEF TypeOK, PlanError, Remaining, Planned
  <1>4. Stages'
    BY DEF Stages
  <1>5. Counts' /\ CycleVerdict'
    BY DEF Counts, CycleVerdict, PlanError
  <1>6. Decided' /\ UpToDateJustified'
    BY DEF Stages, Decided, UpToDateJustified, Planned
  <1>7. QED
    BY <1>3, <1>4, <1>5, <1>6, GraphUntouched

-----------------------------------------------------------------------------
(* The probing steps.                                                      *)

\* Nothing that happens while layers are probed touches their order.
LEMMA OrderStays ==
    ASSUME Inductive, pc \in {"edge", "hashing", "presence"},
           UNCHANGED <<problemVars, inbound, layers>>,
           pc' # "index",
           error' = NoError \/ error'.why \in {"Build", "Cancelled"}
    PROVE  Counts' /\ LayersSound' /\ NoneDeadlocked' /\ CycleVerdict'
  <1> USE DEF Inductive
  <1>1. /\ deps' = deps /\ inbound' = inbound /\ layers' = layers
        /\ UNCHANGED problemVars
    BY DEF problemVars
  <1>2. Extracted' = Extracted /\ Remaining' = Remaining
    BY <1>1 DEF Extracted, Remaining
  <1>3. error = NoError /\ error'.why \notin {"Cycle", "MissingDep"}
    BY DEF Stages, NoError
  <1>4. Counts'
    <2>1. /\ \A a \in Actions : DepsOf(a) \subseteq Actions
          /\ \A a \in Remaining : inbound[a] = Cardinality(DepsIn(a, Remaining))
      BY <1>3 DEF Counts, NoError
    <2>2. QED
      BY <1>1, <2>1 DEF Counts, DepsOf, DepsIn, Remaining
  <1>5. CycleVerdict'
    <2>1. \A S \in SUBSET Actions : Deadlocked(S) => S = {}
      BY DEF CycleVerdict
    <2>2. QED
      BY <1>1, <1>3, <2>1, GraphFixed DEF CycleVerdict
  <1>6. LayersSound' /\ NoneDeadlocked'
    BY <1>1, <1>2, GraphFixed DEF LayersSound, NoneDeadlocked
  <1>7. QED
    BY <1>4, <1>5, <1>6

\* Until the cascade decides a layer, probing touches no verdict either.
LEMMA ProbingStep ==
    ASSUME Inductive, pc \in {"edge", "hashing", "presence"},
           UNCHANGED <<problemVars, inbound, layers, planVars>>,
           pc' \notin {"index", "edge"},
           error' = NoError \/ error'.why \in {"Build", "Cancelled"}
    PROVE  /\ Counts' /\ LayersSound' /\ NoneDeadlocked' /\ CycleVerdict'
           /\ StaleClosed' /\ UpstreamMovedHonest' /\ UpToDateJustified'
           /\ Planned' \subseteq Extracted'
           /\ \A a \in Planned' : DepsOf(a)' \subseteq Planned'
           /\ Planned' = Planned /\ Remaining' = Remaining
  <1> USE DEF Inductive
  <1>1. /\ deps' = deps /\ cache' = cache /\ forced' = forced /\ inbound' = inbound
        /\ layers' = layers /\ reasons' = reasons /\ inputHashes' = inputHashes
        /\ UNCHANGED problemVars
    BY DEF problemVars, planVars
  <1>2. /\ Extracted' = Extracted /\ Remaining' = Remaining
        /\ Planned' = Planned /\ Stale' = Stale
    BY <1>1 DEF Extracted, Remaining, Planned, Stale
  <1>3. Counts' /\ LayersSound' /\ NoneDeadlocked' /\ CycleVerdict'
    BY OrderStays
  <1>4. StaleClosed' /\ UpstreamMovedHonest'
    BY GraphUntouched
  <1>5. UpToDateJustified'
    BY <1>1, <1>2, GraphFixed DEF UpToDateJustified
  <1>6. /\ Planned' \subseteq Extracted'
        /\ \A a \in Planned' : DepsOf(a)' \subseteq Planned'
    BY <1>1, <1>2, GraphFixed DEF Decided
  <1>7. QED
    BY <1>2, <1>3, <1>4, <1>5, <1>6

\* The next layer's probing begins.
LEMMA BeginLayerStep ==
    ASSUME Inductive, BeginLayer
    PROVE  Inductive'
  <1> USE DEF Inductive
  <1>1. /\ pc = "edge" /\ k < Len(layers) /\ k' = k + 1 /\ pc' = "hashing"
        /\ hashNow' = [a \in Actions |-> Pending]
        /\ presentNow' = [a \in Actions |-> "pending"]
        /\ UNCHANGED <<problemVars, worldVars, inbound, layers, planVars, error>>
    BY DEF BeginLayer
  <1> USE <1>1
  <1>2. error' = NoError
    BY DEF Stages
  <1>3. TypeOK'
    BY DEF TypeOK, Remaining, Planned, HashResult, problemVars, worldVars, planVars
  <1>4. Stages'
    BY <1>2 DEF Stages, Remaining, TypeOK
  <1>5. Decided'
    <2>1. k' - 1 = k /\ layers' = layers
      BY DEF TypeOK
    <2>2. QED
      BY <1>2, <2>1, ProbingStep DEF Decided
  <1>6. QED
    BY <1>2, <1>3, <1>4, <1>5, ProbingStep

\* The token is found set at a layer edge.
LEMMA StopAtEdgeStep ==
    ASSUME Inductive, StopAtEdge
    PROVE  Inductive'
  <1> USE DEF Inductive
  <1>1. /\ pc = "edge" /\ pc' = "error" /\ error' = PlanError("Cancelled", {})
        /\ UNCHANGED <<problemVars, worldVars, inbound, layers, k, probeVars, planVars>>
    BY DEF StopAtEdge, Fail
  <1> USE <1>1
  <1>2. error'.why = "Cancelled" /\ error'.ids = {}
    BY DEF PlanError
  <1>3. TypeOK'
    BY <1>2 DEF TypeOK, Remaining, Planned, problemVars, worldVars, planVars, probeVars
  <1>4. Stages'
    BY DEF Stages
  <1>5. Decided'
    BY <1>2, ProbingStep DEF Decided
  <1>6. QED
    BY <1>2, <1>3, <1>4, <1>5, ProbingStep

\* Every layer is decided.
LEMMA ReturnPlanStep ==
    ASSUME Inductive, ReturnPlan
    PROVE  Inductive'
  <1> USE DEF Inductive
  <1>1. /\ pc = "edge" /\ k = Len(layers) /\ pc' = "planned"
        /\ UNCHANGED <<problemVars, worldVars, inbound, layers, k, probeVars, planVars,
                       error>>
    BY DEF ReturnPlan
  <1> USE <1>1
  <1>2. error' = NoError
    BY DEF Stages
  <1>3. TypeOK'
    BY DEF TypeOK, Remaining, Planned, problemVars, worldVars, planVars, probeVars
  <1>4. Stages'
    BY <1>2 DEF Stages, Remaining
  <1>5. Decided'
    BY <1>2, ProbingStep DEF Decided
  <1>6. QED
    BY <1>2, <1>3, <1>4, <1>5, ProbingStep

\* A hash probe answers or is cancelled.
LEMMA HashingStep ==
    ASSUME Inductive, NEW a \in Actions, HashProbe(a) \/ CancelProbe(a)
    PROVE  Inductive'
  <1> USE DEF Inductive
  <1>1. /\ pc = "hashing" /\ pc' = pc /\ k' = k
        /\ UNCHANGED <<problemVars, worldVars, inbound, layers, presentNow, planVars, error>>
    BY DEF HashProbe, CancelProbe
  <1>2. PICK r \in HashResult : hashNow' = [hashNow EXCEPT ![a] = r]
    BY DEF HashProbe, CancelProbe, HashResult, Hashed, TypeOK
  <1> USE <1>1
  <1>3. error' = NoError
    BY DEF Stages
  <1>4. TypeOK'
    BY <1>2 DEF TypeOK, Remaining, Planned, problemVars, worldVars, planVars
  <1>5. Stages'
    BY <1>3 DEF Stages, Remaining
  <1>6. Decided'
    BY <1>3, ProbingStep DEF Decided
  <1>7. QED
    BY <1>3, <1>4, <1>5, <1>6, ProbingStep

\* Every hash probe of the layer has ended.
LEMMA HashesInStep ==
    ASSUME Inductive, HashesIn
    PROVE  Inductive'
  <1> USE DEF Inductive
  <1>1. /\ pc = "hashing" /\ pc' = "presence"
        /\ \A a \in Layer : hashNow[a] # Pending
        /\ UNCHANGED <<problemVars, worldVars, inbound, layers, k, probeVars, planVars,
                       error>>
    BY DEF HashesIn
  <1> USE <1>1
  <1>2. error' = NoError
    BY DEF Stages
  <1>3. TypeOK'
    BY DEF TypeOK, Remaining, Planned, problemVars, worldVars, planVars, probeVars
  <1>4. Stages'
    BY <1>2 DEF Stages, Remaining, Layer, probeVars
  <1>5. Decided'
    BY <1>2, ProbingStep DEF Decided
  <1>6. QED
    BY <1>2, <1>3, <1>4, <1>5, ProbingStep

\* An artifact is looked for.
LEMMA PresenceStep ==
    ASSUME Inductive, NEW a \in Actions, PresenceProbe(a)
    PROVE  Inductive'
  <1> USE DEF Inductive
  <1>1. /\ pc = "presence" /\ pc' = pc /\ k' = k
        /\ presentNow' = [presentNow EXCEPT ![a] = IF present[a] THEN "yes" ELSE "no"]
        /\ UNCHANGED <<problemVars, worldVars, inbound, layers, hashNow, planVars, error>>
    BY DEF PresenceProbe
  <1> USE <1>1
  <1>2. error' = NoError
    BY DEF Stages
  <1>3. TypeOK'
    BY DEF TypeOK, Remaining, Planned, problemVars, worldVars, planVars
  <1>4. Stages'
    BY <1>2 DEF Stages, Remaining, Layer
  <1>5. Decided'
    BY <1>2, ProbingStep DEF Decided
  <1>6. QED
    BY <1>2, <1>3, <1>4, <1>5, ProbingStep

\* The layer in progress is one of the extracted ones.
LEMMA LayerIsExtracted ==
    ASSUME Inductive, pc \in {"hashing", "presence"}
    PROVE  Layer \subseteq Actions /\ k \in DOMAIN layers
  BY DEF Inductive, TypeOK, Stages, Layer

\* A probe's failure ends the planning.
LEMMA FirstErrorStep ==
    ASSUME Inductive, FirstError
    PROVE  Inductive'
  <1> USE DEF Inductive
  <1>1. /\ pc = "presence" /\ pc' = "error"
        /\ UNCHANGED <<problemVars, worldVars, inbound, layers, k, probeVars, planVars>>
    BY DEF FirstError, ProbesIn, Fail
  <1> USE <1>1
  <1>2. error'.why \in {"Build", "Cancelled"} /\ error'.ids \subseteq Actions
    <2> DEFINE a == CHOOSE x \in BadProbes : \A y \in BadProbes : x <= y
    <2>1. error' = PlanError(IF hashNow[a].got = "error" THEN "Build" ELSE "Cancelled", {a})
      BY DEF FirstError, Fail
    <2>2. BadProbes # {} /\ BadProbes \in SUBSET Nat /\ BadProbes \subseteq Actions
      BY LayerIsExtracted, ActionsAreIds DEF FirstError, BadProbes
    <2>3. \E x \in BadProbes : \A y \in BadProbes : x <= y
      BY <2>2, HasLeast
    <2>4. a \in BadProbes
      BY <2>3
    <2>5. QED
      BY <2>1, <2>2, <2>4 DEF PlanError
  <1>3. TypeOK'
    BY <1>2 DEF TypeOK, Remaining, Planned, problemVars, worldVars, planVars, probeVars
  <1>4. Stages'
    BY DEF Stages
  <1>5. Decided'
    BY <1>2, ProbingStep DEF Decided
  <1>6. QED
    BY <1>2, <1>3, <1>4, <1>5, ProbingStep

\* What deciding a layer adds: its members, all of whose dependencies were
\* decided before.
LEMMA CascadeShape ==
    ASSUME Inductive, Cascade
    PROVE  /\ Layer \subseteq Actions /\ k \in DOMAIN layers /\ k \in Nat
           /\ Planned = UNION {layers[i] : i \in 1..(k - 1)}
           /\ Planned \cap Layer = {} /\ Planned \subseteq Actions
           /\ \A a \in Layer : DepsOf(a) \subseteq Planned
           /\ Planned' = Planned \cup Layer
           /\ DOMAIN reasons' = Planned \cup Layer
           /\ \A a \in Planned : reasons'[a] = reasons[a] /\ inputHashes'[a] = inputHashes[a]
           /\ \A a \in Layer : reasons'[a] = Verdict(a) /\ inputHashes'[a] = hashNow[a].hash
           /\ Stale \subseteq Planned /\ Stale' \cap Planned = Stale
           /\ \A a \in Layer : a \in Stale' <=> Verdict(a) # UpToDate
           /\ \A a \in Layer : hashNow[a].got = "hash" /\ hashNow[a].hash \in Hashes
  <1> USE DEF Inductive
  <1>1. /\ pc = "presence" /\ pc' = "edge" /\ BadProbes = {}
        /\ \A a \in Layer : presentNow[a] # "pending"
        /\ reasons' = [a \in Planned \cup Layer |->
                         IF a \in Layer THEN Verdict(a) ELSE reasons[a]]
        /\ inputHashes' = [a \in Planned \cup Layer |->
                         IF a \in Layer THEN hashNow[a].hash ELSE inputHashes[a]]
        /\ UNCHANGED <<problemVars, worldVars, inbound, layers, k, probeVars, error>>
    BY DEF Cascade, ProbesIn
  <1>2. /\ deps' = deps /\ cache' = cache /\ forced' = forced /\ layers' = layers
        /\ k' = k /\ presentNow' = presentNow /\ UNCHANGED problemVars
    BY <1>1 DEF problemVars, probeVars
  <1>3. Layer \subseteq Actions /\ k \in DOMAIN layers /\ k \in Nat
    BY <1>1, LayerIsExtracted DEF TypeOK
  <1>4. Planned = UNION {layers[i] : i \in 1..(k - 1)}
    BY <1>1 DEF Decided
  <1>5. Planned \cap Layer = {} /\ Planned \subseteq Actions
    <2>1. \A i \in 1..(k - 1) : i \in DOMAIN layers /\ i # k
      BY <1>3 DEF TypeOK
    <2>2. \A i \in 1..(k - 1) : layers[i] \cap layers[k] = {}
      BY <1>3, <2>1 DEF LayersSound
    <2>3. \A i \in 1..(k - 1) : layers[i] \subseteq Actions
      BY <2>1 DEF TypeOK
    <2>4. QED
      BY <1>4, <2>2, <2>3 DEF Layer
  <1>6. \A a \in Layer : DepsOf(a) \subseteq Planned
    BY <1>3, <1>4 DEF LayersSound, Layer
  <1>7. /\ Planned' = Planned \cup Layer
        /\ DOMAIN reasons' = Planned \cup Layer
        /\ \A a \in Planned : reasons'[a] = reasons[a] /\ inputHashes'[a] = inputHashes[a]
        /\ \A a \in Layer : reasons'[a] = Verdict(a) /\ inputHashes'[a] = hashNow[a].hash
    BY <1>1, <1>5 DEF Planned
  <1>8. /\ Stale \subseteq Planned
        /\ Stale' \cap Planned = Stale
        /\ \A a \in Layer : a \in Stale' <=> Verdict(a) # UpToDate
    BY <1>7 DEF Stale, TypeOK
  <1>9. \A a \in Layer : hashNow[a].got = "hash" /\ hashNow[a].hash \in Hashes
    <2> SUFFICES ASSUME NEW a \in Layer 
                 PROVE  hashNow[a].got = "hash" /\ hashNow[a].hash \in Hashes
      OBVIOUS
    <2>1. hashNow[a] \in HashResult /\ hashNow[a] # Pending
      BY <1>1, <1>3 DEF TypeOK, Stages
    <2>2. hashNow[a].got \notin {"error", "cancelled"}
      BY <1>1 DEF BadProbes
    <2>3. hashNow[a] \in [got : {"hash"}, hash : Hashes]
      BY <2>1, <2>2 DEF HashResult, ProbeFailed, ProbeCancel
    <2>4. QED
      BY <2>3
  <1> QED
    BY <1>3, <1>4, <1>5, <1>6, <1>7, <1>8, <1>9

\* A layer is decided: its dependencies were all decided before it, so the
\* verdicts add to the stale set and revise nothing.
LEMMA CascadeStep ==
    ASSUME Inductive, Cascade
    PROVE  Inductive'
  <1> USE DEF Inductive
  <1>1. /\ pc = "presence" /\ pc' = "edge" /\ BadProbes = {}
        /\ \A a \in Layer : presentNow[a] # "pending"
        /\ reasons' = [a \in Planned \cup Layer |->
                         IF a \in Layer THEN Verdict(a) ELSE reasons[a]]
        /\ inputHashes' = [a \in Planned \cup Layer |->
                         IF a \in Layer THEN hashNow[a].hash ELSE inputHashes[a]]
        /\ UNCHANGED <<problemVars, worldVars, inbound, layers, k, probeVars, error>>
    BY DEF Cascade, ProbesIn
  <1>2. /\ deps' = deps /\ cache' = cache /\ forced' = forced /\ layers' = layers
        /\ k' = k /\ presentNow' = presentNow /\ UNCHANGED problemVars
    BY <1>1 DEF problemVars, probeVars
  <1>3. error' = NoError
    BY <1>1 DEF Stages
  <1>4. Layer \subseteq Actions /\ k \in DOMAIN layers /\ k \in Nat
    BY CascadeShape
  <1>5. Planned = UNION {layers[i] : i \in 1..(k - 1)}
    BY CascadeShape
  <1>6. Planned \cap Layer = {} /\ Planned \subseteq Actions
    BY CascadeShape
  <1>7. \A a \in Layer : DepsOf(a) \subseteq Planned
    BY CascadeShape
  <1>8. /\ Planned' = Planned \cup Layer
        /\ DOMAIN reasons' = Planned \cup Layer
        /\ \A a \in Planned : reasons'[a] = reasons[a] /\ inputHashes'[a] = inputHashes[a]
        /\ \A a \in Layer : reasons'[a] = Verdict(a) /\ inputHashes'[a] = hashNow[a].hash
    BY CascadeShape
  <1>9. /\ Stale \subseteq Planned
        /\ Stale' \cap Planned = Stale
        /\ \A a \in Layer : a \in Stale' <=> Verdict(a) # UpToDate
    BY CascadeShape
  <1>10. Extracted' = Extracted /\ Remaining' = Remaining
    BY <1>1 DEF Extracted, Remaining
  <1>11. \A a \in Layer : hashNow[a].hash \in Hashes
    BY CascadeShape
  <1>12. \A a \in Layer : /\ deps[a] \in Seq(Nat) /\ cache[a] \in LastBuild
                           /\ (presentNow[a] = "yes") \in BOOLEAN
                           /\ (a \in forced) \in BOOLEAN
    BY <1>4 DEF TypeOK
  <1>13. \A a \in Layer : Verdict(a) = UpToDate =>
           /\ a \notin forced /\ presentNow[a] = "yes"
           /\ DepsOf(a) \cap Stale = {}
           /\ cache[a] = Success(hashNow[a].hash)
    <2> SUFFICES ASSUME NEW a \in Layer, Verdict(a) = UpToDate
                 PROVE  /\ a \notin forced /\ presentNow[a] = "yes"
                        /\ DepsOf(a) \cap Stale = {}
                        /\ cache[a] = Success(hashNow[a].hash)
      OBVIOUS
    <2>1. Classify(deps[a], hashNow[a].hash, cache[a], Stale, presentNow[a] = "yes",
                   a \in forced) = UpToDate
      BY DEF Verdict
    <2>2. /\ ~(a \in forced) /\ presentNow[a] = "yes"
          /\ ~MentionsStale(deps[a], Stale)
          /\ cache[a] = Success(hashNow[a].hash)
      <3> DEFINE seen == presentNow[a] = "yes"
                 must == a \in forced
                 now  == hashNow[a].hash
      <3>1. Classify(deps[a], now, cache[a], Stale, seen, must) = UpToDate
        BY <2>1
      <3>2. cache[a] \in LastBuild /\ seen \in BOOLEAN /\ must \in BOOLEAN
        BY <1>12
      <3> HIDE DEF seen, must, now
      <3>3. ~must /\ seen /\ ~MentionsStale(deps[a], Stale) /\ cache[a] = Success(now)
        BY <3>1, <3>2, ClassifyUpToDate
      <3>4. QED
        BY <3>3 DEF seen, must, now
    <2>3. QED
      BY <2>2 DEF MentionsStale, DepsOf
  <1>14. \A a \in Layer : Verdict(a).why = "UpstreamMoved" =>
           /\ Verdict(a).dep \in DepsOf(a) \cap Stale
           /\ cache[a] = Success(hashNow[a].hash)
    <2> SUFFICES ASSUME NEW a \in Layer, Verdict(a).why = "UpstreamMoved"
                 PROVE  /\ Verdict(a).dep \in DepsOf(a) \cap Stale
                        /\ cache[a] = Success(hashNow[a].hash)
      OBVIOUS
    <2>1. Classify(deps[a], hashNow[a].hash, cache[a], Stale, presentNow[a] = "yes",
                   a \in forced).why = "UpstreamMoved"
      BY DEF Verdict
    <2>2. /\ Verdict(a) = UpstreamMoved(FirstStale(deps[a], Stale))
          /\ MentionsStale(deps[a], Stale)
          /\ cache[a] = Success(hashNow[a].hash)
      <3> DEFINE seen == presentNow[a] = "yes"
                 must == a \in forced
                 now  == hashNow[a].hash
      <3>1. Classify(deps[a], now, cache[a], Stale, seen, must).why = "UpstreamMoved"
        BY <2>1
      <3>2. cache[a] \in LastBuild /\ seen \in BOOLEAN /\ must \in BOOLEAN
        BY <1>12
      <3>3. Verdict(a) = Classify(deps[a], now, cache[a], Stale, seen, must)
        BY DEF Verdict
      <3> HIDE DEF seen, must, now
      <3>4. /\ Classify(deps[a], now, cache[a], Stale, seen, must)
                  = UpstreamMoved(FirstStale(deps[a], Stale))
            /\ MentionsStale(deps[a], Stale)
            /\ cache[a] = Success(now)
        BY <3>1, <3>2, ClassifyUpstreamMoved
      <3>5. QED
        BY <3>3, <3>4 DEF now
    <2>3. \E i \in DOMAIN deps[a] :
            FirstStale(deps[a], Stale) = deps[a][i] /\ deps[a][i] \in Stale
      BY <1>12, <2>2, FirstStaleIsOne
    <2>4. QED
      BY <2>2, <2>3 DEF UpstreamMoved, DepsOf
  <1>15. TypeOK'
    <2>1. \A a \in Layer : Verdict(a) \in ChangeReason \cup {UpToDate}
      <3>1. Stale \in SUBSET Actions
        BY <1>6, <1>9
      <3>2. QED
        BY <1>12, <3>1, ClassifyType DEF Verdict
    <2>2. reasons' \in [Planned' -> ChangeReason \cup {UpToDate}]
      BY <1>1, <1>8, <2>1 DEF TypeOK
    <2>3. inputHashes' \in [Planned' -> Hashes]
      BY <1>1, <1>8, <1>11 DEF TypeOK
    <2>4. Planned' \subseteq Actions
      BY <1>4, <1>6, <1>8
    <2>5. QED
      BY <1>1, <1>10, <2>2, <2>3, <2>4
         DEF TypeOK, problemVars, worldVars, probeVars
  <1>16. Stages'
    BY <1>1, <1>2, <1>3, <1>10 DEF Stages
  <1>17. Decided'
    <2>1. Planned' = UNION {layers[i] : i \in 1..k}
      <3>1. k \in Nat /\ k >= 1
        BY <1>4 DEF TypeOK
      <3>2. 1..k = 1..(k - 1) \cup {k}
        BY <3>1
      <3>3. \A x : (\E i \in 1..k : x \in layers[i])
                    <=> (\E i \in 1..(k - 1) : x \in layers[i]) \/ x \in layers[k]
        BY <3>2
      <3> DEFINE upTo(n) == UNION {layers[i] : i \in 1..n}
      <3>4. \A n : \A x : x \in upTo(n) <=> \E i \in 1..n : x \in layers[i]
        OBVIOUS
      <3>5. Planned = upTo(k - 1) /\ Planned' = Planned \cup layers[k]
        BY <1>5, <1>8 DEF Layer
      <3> HIDE DEF upTo
      <3>6. \A x : x \in upTo(k) <=> x \in Planned'
        BY <3>3, <3>4, <3>5
      <3>7. Planned' = upTo(k)
        BY <3>6
      <3>8. QED
        BY <3>7 DEF upTo
    <2>2. Planned' \subseteq Extracted'
      BY <1>4, <1>8, <1>10 DEF Decided, Extracted, Layer
    <2>3. \A a \in Planned' : DepsOf(a) \subseteq Planned'
      BY <1>7, <1>8 DEF Decided
    <2>4. QED
      BY <1>1, <1>2, <2>1, <2>2, <2>3, GraphFixed DEF Decided
  <1>18. StaleClosed'
    <2> SUFFICES ASSUME NEW a \in Planned', DepsOf(a) \cap Stale' # {}
                 PROVE  a \in Stale'
      BY <1>2, GraphFixed DEF StaleClosed
    <2>1. DepsOf(a) \subseteq Planned
      BY <1>7, <1>8 DEF Decided
    <2>2. DepsOf(a) \cap Stale # {}
      BY <1>9, <2>1
    <2>3. CASE a \in Planned
      BY <1>9, <2>2, <2>3 DEF StaleClosed
    <2>4. CASE a \in Layer
      BY <1>9, <1>13, <2>2, <2>4
    <2>5. QED
      BY <1>8, <2>3, <2>4
  <1>19. UpstreamMovedHonest'
    <2> SUFFICES ASSUME NEW a \in Planned', reasons'[a].why = "UpstreamMoved"
                 PROVE  /\ reasons'[a].dep \in DepsOf(a) \cap Stale'
                        /\ cache[a] = Success(inputHashes'[a])
      BY <1>2, GraphFixed DEF UpstreamMovedHonest, Success
    <2>1. CASE a \in Planned
      BY <1>8, <1>9, <2>1 DEF UpstreamMovedHonest
    <2>2. CASE a \in Layer
      BY <1>8, <1>9, <1>14, <2>2
    <2>3. QED
      BY <1>8, <2>1, <2>2
  <1>20. UpToDateJustified'
    <2> SUFFICES ASSUME NEW a \in Planned' \ Stale'
                 PROVE  /\ cache[a] = Success(inputHashes'[a])
                        /\ DepsOf(a) \subseteq Planned' \ Stale'
                        /\ a \notin forced
                        /\ a \in Layer => presentNow[a] = "yes"
      BY <1>2, GraphFixed DEF UpToDateJustified, Layer, Success
    <2>1. CASE a \in Planned
      BY <1>6, <1>8, <1>9, <2>1 DEF UpToDateJustified
    <2>2. CASE a \in Layer
      BY <1>7, <1>8, <1>9, <1>13, <2>2
    <2>3. QED
      BY <1>8, <2>1, <2>2
  <1>21. Counts' /\ LayersSound' /\ NoneDeadlocked' /\ CycleVerdict'
    BY <1>1, <1>3, OrderStays
  <1>22. QED
    BY <1>15, <1>16, <1>17, <1>18, <1>19, <1>20, <1>21

-----------------------------------------------------------------------------
(* The world, and the theorems.                                            *)

\* Whatever happens to sources, artifacts and the token, nothing that the
\* planner has computed so far is disturbed.
LEMMA WorldStep ==
    ASSUME Inductive,
           UNCHANGED <<problemVars, pc, inbound, layers, k, probeVars, planVars, error>>
    PROVE  /\ Stages' /\ Counts' /\ LayersSound' /\ NoneDeadlocked' /\ CycleVerdict'
           /\ Decided' /\ StaleClosed' /\ UpstreamMovedHonest' /\ UpToDateJustified'
  <1> USE DEF Inductive
  <1>1. /\ deps' = deps /\ cache' = cache /\ forced' = forced /\ inbound' = inbound
        /\ layers' = layers /\ reasons' = reasons /\ inputHashes' = inputHashes
        /\ pc' = pc /\ k' = k /\ hashNow' = hashNow /\ presentNow' = presentNow
        /\ error' = error /\ UNCHANGED problemVars
    BY DEF problemVars, planVars, probeVars
  <1>2. /\ Extracted' = Extracted /\ Remaining' = Remaining
        /\ Planned' = Planned /\ Stale' = Stale /\ Layer' = Layer
    BY <1>1 DEF Extracted, Remaining, Planned, Stale, Layer
  <1>3. Stages'
    BY <1>1, <1>2 DEF Stages
  <1>4. Counts'
    BY <1>1 DEF Counts, DepsOf, DepsIn, Remaining
  <1>5. LayersSound' /\ NoneDeadlocked' /\ StaleClosed' /\ UpstreamMovedHonest'
    BY GraphUntouched
  <1>6. CycleVerdict'
    BY <1>1, GraphFixed DEF CycleVerdict
  <1>7. Decided' /\ UpToDateJustified'
    BY <1>1, <1>2, GraphFixed DEF Decided, UpToDateJustified
  <1>8. QED
    BY <1>3, <1>4, <1>5, <1>6, <1>7

LEMMA EditStep ==
    ASSUME Inductive, NEW a \in Actions, Edit(a)
    PROVE  Inductive'
  <1>1. TypeOK
    BY DEF Inductive
  <1>2. edits' \in 0..MaxEdits
    BY <1>1, MaxEditsAssumption DEF TypeOK, Edit
  <1>3. src' \in [Actions -> Hashes] /\ present' \in [Actions -> BOOLEAN]
    BY <1>1 DEF TypeOK, Edit
  <1>4. TypeOK'
    BY <1>1, <1>2, <1>3
       DEF TypeOK, Edit, Remaining, Planned, problemVars, probeVars, planVars
  <1>5. QED
    BY <1>4, WorldStep DEF Edit, Inductive

LEMMA CancelStep ==
    ASSUME Inductive, Cancel
    PROVE  Inductive'
  <1>1. TypeOK'
    BY DEF Inductive, TypeOK, Cancel, Remaining, Planned, problemVars, probeVars, planVars
  <1>2. QED
    BY <1>1, WorldStep DEF Cancel, Inductive

LEMMA StutterStep ==
    ASSUME Inductive, UNCHANGED vars
    PROVE  Inductive'
  <1>1. TypeOK'
    BY DEF Inductive, TypeOK, vars, Remaining, Planned, problemVars, worldVars, probeVars,
           planVars
  <1>2. QED
    BY <1>1, WorldStep DEF vars, Inductive

\* Every step of the planner or of its world keeps the inductive invariant.
LEMMA NextInductive ==
    ASSUME Inductive, [Next]_vars
    PROVE  Inductive'
  <1>1. CASE Step
    BY <1>1, MissingDepStep, IndexStep, ExtractStep, CycleStep, LayeredStep,
       BeginLayerStep, StopAtEdgeStep, ReturnPlanStep, HashesInStep, FirstErrorStep,
       CascadeStep DEF Step
  <1>2. CASE \E a \in Actions : HashProbe(a) \/ CancelProbe(a) \/ PresenceProbe(a)
    BY <1>2, HashingStep, PresenceStep
  <1>3. CASE \E a \in Actions : Edit(a)
    BY <1>3, EditStep
  <1>4. CASE Cancel
    BY <1>4, CancelStep
  <1>5. CASE Done \/ UNCHANGED vars
    BY <1>5, StutterStep DEF Done
  <1>6. QED
    BY <1>1, <1>2, <1>3, <1>4, <1>5 DEF Next

\* The inductive invariant holds of every planning.
THEOREM Invariance == Spec => []Inductive
  <1>1. Inductive /\ [Next]_vars => Inductive'
    BY NextInductive
  <1>2. QED
    BY InitInductive, <1>1, PTL DEF Spec

\* Every variable keeps the shape the code gives it; in particular no inbound
\* counter of the Kahn loop (a usize) ever goes below zero.
THEOREM TypeCorrect == Spec => []TypeOK
  <1>1. Inductive => TypeOK
    BY DEF Inductive
  <1>2. QED
    BY Invariance, <1>1, PTL

\* The layers of every dependency graph are sound: dependencies come strictly
\* before what needs them and no action is lost or extracted twice.
THEOREM LayersAreSound == Spec => []LayersSound
  <1>1. Inductive => LayersSound
    BY DEF Inductive
  <1>2. QED
    BY Invariance, <1>1, PTL

\* A cycle is reported exactly when there is one, with exactly the ids that can
\* never be scheduled.
THEOREM CyclesAreReported == Spec => []CycleVerdict
  <1>1. Inductive => CycleVerdict
    BY DEF Inductive
  <1>2. QED
    BY Invariance, <1>1, PTL

\* What depends on something stale is stale, in every plan and at every point
\* of its computation, whatever the world did between two probes.
THEOREM StalenessCascades == Spec => []StaleClosed
  <1>1. Inductive => StaleClosed
    BY DEF Inductive
  <1>2. QED
    BY Invariance, <1>1, PTL

\* An `UpstreamMoved` verdict names a stale dependency and hides no other reason.
THEOREM UpstreamMovedIsHonest == Spec => []UpstreamMovedHonest
  <1>1. Inductive => UpstreamMovedHonest
    BY DEF Inductive
  <1>2. QED
    BY Invariance, <1>1, PTL

\* Nothing is left out of a plan unless its last run succeeded on the input the
\* planning saw and nothing it is built from is stale.
THEOREM SkipsAreJustified == Spec => []UpToDateJustified
  <1>1. Inductive => UpToDateJustified
    BY DEF Inductive
  <1>2. QED
    BY Invariance, <1>1, PTL

\* A returned plan has a verdict for every action.
THEOREM PlansAreComplete == Spec => []PlanComplete
  <1>1. Inductive => PlanComplete
    <2> SUFFICES ASSUME Inductive PROVE PlanComplete
      OBVIOUS
    <2>1. pc = "planned" => Extracted = Actions
      BY DEF Inductive, Stages, LayersSound
    <2>2. pc = "planned" => Planned = Extracted
      BY DEF Inductive, Stages, Decided, Extracted, TypeOK
    <2>3. QED
      BY <2>1, <2>2 DEF Inductive, PlanComplete, Decided
  <1>2. QED
    BY Invariance, <1>1, PTL

\* Once the token is set no further layer is probed.
THEOREM NoProbingAfterCancel == Spec => NoProbesAfterCancel
  <1>1. [Next]_vars => (cancelled => k' = k)
    BY DEF Next, Step, vars, MissingDep, Index, Extract, Cycle, Layered, BeginLayer,
       StopAtEdge, ReturnPlan, HashProbe, CancelProbe, HashesIn, PresenceProbe,
       FirstError, Cascade, Edit, Cancel, Done
  <1>2. [Next]_vars => [cancelled => k' = k]_vars
    BY <1>1
  <1>3. QED
    BY <1>2, PTL DEF Spec, NoProbesAfterCancel

-----------------------------------------------------------------------------
(* The plan of a world at rest.                                            *)

\* A recorded success of the same input, with its artifact present and no stale
\* dependency, is up to date, and nothing else is.
LEMMA ClassifyUpToDateIff ==
    ASSUME NEW d, NEW now, NEW last \in LastBuild, NEW S,
           NEW present_ \in BOOLEAN, NEW f \in BOOLEAN
    PROVE  Classify(d, now, last, S, present_, f) = UpToDate <=>
             /\ ~f /\ present_ /\ ~MentionsStale(d, S)
             /\ last = Success(now)
  <1>1. ASSUME ~f, present_, ~MentionsStale(d, S), last = Success(now)
        PROVE  Classify(d, now, last, S, present_, f) = UpToDate
    BY <1>1 DEF Classify, SuccessVerdict, NoEvent, UpToDate, Success
  <1> QED
    BY <1>1, ClassifyUpToDate

LEMMA InitAtRest == Init => AtRest
  BY DEF Init, AtRest, Pending, Planned, EmptyMap

LEMMA CascadeAtRest ==
    ASSUME Inductive, AtRest, Cascade, edits = 0
    PROVE  AtRest'
  <1> USE DEF Inductive
  <1>1. /\ \A a \in Layer : presentNow[a] # "pending"
        /\ UNCHANGED <<deps, cache, forced, src, present, edits, hashNow, presentNow>>
    BY DEF Cascade, ProbesIn, problemVars, worldVars, probeVars
  <1>2. \A a \in Planned' : DepsOf(a) \subseteq Planned /\ a \in Actions
    BY CascadeShape DEF Decided
  <1>3. \A a \in Planned' : DepsOf(a) \cap Stale' = DepsOf(a) \cap Stale
    BY <1>2, CascadeShape
  <1>4. ASSUME NEW a \in Planned
        PROVE  a \notin Stale' <=> /\ a \notin forced /\ present[a]
                                   /\ cache[a] = Success(src[a])
                                   /\ DepsOf(a) \cap Stale = {}
    <2>1. a \notin Stale' <=> a \notin Stale
      BY <1>4, CascadeShape
    <2> QED
      BY <1>4, <2>1 DEF AtRest
  <1>5. ASSUME NEW a \in Layer
        PROVE  a \notin Stale' <=> /\ a \notin forced /\ present[a]
                                   /\ cache[a] = Success(src[a])
                                   /\ DepsOf(a) \cap Stale = {}
    <2> DEFINE seen == presentNow[a] = "yes"
               must == a \in forced
               now  == hashNow[a].hash
    <2>1. a \in Actions /\ now = src[a] /\ (seen <=> present[a])
      BY <1>1, CascadeShape DEF AtRest
    <2>2. cache[a] \in LastBuild /\ seen \in BOOLEAN /\ must \in BOOLEAN
      BY <2>1 DEF TypeOK
    <2>3. a \notin Stale' <=> Verdict(a) = UpToDate
      BY CascadeShape
    <2>4. Verdict(a) = Classify(deps[a], now, cache[a], Stale, seen, must)
      BY DEF Verdict
    <2>5. MentionsStale(deps[a], Stale) <=> DepsOf(a) \cap Stale # {}
      BY DEF MentionsStale, DepsOf
    <2> HIDE DEF seen, must, now
    <2>6. Verdict(a) = UpToDate <=> /\ ~must /\ seen /\ ~MentionsStale(deps[a], Stale)
                                    /\ cache[a] = Success(now)
      BY <2>2, <2>4, ClassifyUpToDateIff
    <2> QED
      BY <2>1, <2>3, <2>5, <2>6 DEF must
  <1>6. \A a : DepsOf(a)' = DepsOf(a)
    BY <1>1 DEF DepsOf
  <1>7. \A a \in Planned' :
          a \notin Stale' <=> /\ a \notin forced /\ present[a]
                              /\ cache[a] = Success(src[a])
                              /\ DepsOf(a) \cap Stale' = {}
    BY <1>3, <1>4, <1>5, CascadeShape
  <1> QED
    BY <1>1, <1>6, <1>7 DEF AtRest, Success

LEMMA NextAtRest ==
    ASSUME Inductive, AtRest, [Next]_vars
    PROVE  AtRest'
  <1> SUFFICES ASSUME edits' = 0
               PROVE  AtRest'
    BY DEF AtRest
  <1>1. \A a \in Actions : ~Edit(a)
    BY DEF Edit, Inductive, TypeOK
  <1>2. edits = 0
    BY <1>1 DEF Next, Step, Done, vars, worldVars, MissingDep, Index, Extract, Cycle, Layered,
         BeginLayer, StopAtEdge, ReturnPlan, HashesIn, FirstError, Cascade, HashProbe,
         CancelProbe, PresenceProbe, Cancel
  <1>3. CASE UNCHANGED <<deps, cache, forced, src, present, edits, hashNow, presentNow,
                         inputHashes, reasons>>
    BY <1>3 DEF AtRest, Planned, Stale, DepsOf, Success
  <1>4. CASE BeginLayer
    <2>1. /\ UNCHANGED <<deps, cache, forced, src, present, edits, inputHashes, reasons>>
          /\ \A a \in Actions : hashNow'[a] = Pending /\ presentNow'[a] = "pending"
      BY <1>4 DEF BeginLayer, problemVars, worldVars, planVars
    <2> QED
      BY <2>1 DEF AtRest, Planned, Stale, DepsOf, Success, Pending
  <1>5. CASE Cascade
    BY <1>2, <1>5, CascadeAtRest
  <1>6. ASSUME NEW a \in Actions, HashProbe(a) \/ CancelProbe(a)
        PROVE  AtRest'
    <2>1. /\ UNCHANGED <<deps, cache, forced, src, present, edits, presentNow,
                         inputHashes, reasons>>
          /\ \E r \in {Hashed(src[a]), ProbeFailed, ProbeCancel} :
               hashNow' = [hashNow EXCEPT ![a] = r]
      BY <1>6 DEF HashProbe, CancelProbe, problemVars, worldVars, planVars
    <2>2. \A b \in Actions : hashNow'[b].got = "hash" => hashNow'[b].hash = src[b]
      BY <1>2, <2>1 DEF AtRest, Hashed, ProbeFailed, ProbeCancel, Inductive, TypeOK
    <2> QED
      BY <2>1, <2>2 DEF AtRest, Planned, Stale, DepsOf, Success
  <1>7. ASSUME NEW a \in Actions, PresenceProbe(a)
        PROVE  AtRest'
    <2>1. /\ UNCHANGED <<deps, cache, forced, src, present, edits, hashNow,
                         inputHashes, reasons>>
          /\ presentNow' = [presentNow EXCEPT ![a] = IF present[a] THEN "yes" ELSE "no"]
      BY <1>7 DEF PresenceProbe, problemVars, worldVars, planVars
    <2>2. \A b \in Actions :
            presentNow'[b] # "pending" => (presentNow'[b] = "yes" <=> present[b])
      BY <1>2, <2>1 DEF AtRest, Inductive, TypeOK
    <2> QED
      BY <2>1, <2>2 DEF AtRest, Planned, Stale, DepsOf, Success
  <1>8. CASE Cancel
    BY <1>3, <1>8 DEF Cancel, problemVars, probeVars, planVars
  <1>9. CASE MissingDep \/ Index \/ Extract \/ Cycle \/ Layered \/ StopAtEdge \/ ReturnPlan
             \/ HashesIn \/ FirstError
    BY <1>3, <1>9 DEF MissingDep, Index, Extract, Cycle, Layered, StopAtEdge, ReturnPlan,
         HashesIn, FirstError, problemVars, worldVars, probeVars, planVars
  <1>10. CASE UNCHANGED vars
    BY <1>3, <1>10 DEF vars, problemVars, worldVars, probeVars, planVars
  <1> QED
    BY <1>1, <1>4, <1>5, <1>6, <1>7, <1>8, <1>9, <1>10 DEF Next, Step, Done

\* Of the layers in which two self-consistent sets would differ, the first has
\* its dependencies in layers where they do not.
LEMMA OneStaleSet ==
    ASSUME Inductive, AtRest, pc = "planned", edits = 0, NEW S \in SUBSET Actions
    PROVE  IsStaleSet(S, deps, src, cache, present, forced) <=> S = Stale
  <1> USE DEF Inductive
  <1>1. Planned = Actions /\ Stale \subseteq Actions
        /\ Actions = UNION {layers[i] : i \in 1..Len(layers)}
        /\ DOMAIN layers = 1..Len(layers)
    <2>1. Planned = UNION {layers[i] : i \in 1..Len(layers)} /\ Remaining = {}
      BY DEF Decided, Stages
    <2>2. DOMAIN layers = 1..Len(layers) /\ Stale \subseteq Planned
      BY DEF TypeOK, Stale
    <2> QED
      BY <2>1, <2>2 DEF LayersSound, Extracted
  <1>2. \A a \in Actions : \A T :
          Classify(deps[a], src[a], cache[a], T, present[a], a \in forced) = UpToDate <=>
             /\ a \notin forced /\ present[a]
             /\ cache[a] = Success(src[a])
             /\ DepsOf(a) \cap T = {}
    <2> SUFFICES ASSUME NEW a \in Actions, NEW T
                 PROVE  Classify(deps[a], src[a], cache[a], T, present[a], a \in forced)
                          = UpToDate <=>
                           /\ a \notin forced /\ present[a]
                           /\ cache[a] = Success(src[a])
                           /\ DepsOf(a) \cap T = {}
      OBVIOUS
    <2> DEFINE must == a \in forced
    <2>1. cache[a] \in LastBuild /\ present[a] \in BOOLEAN /\ must \in BOOLEAN
      BY DEF TypeOK
    <2>2. MentionsStale(deps[a], T) <=> DepsOf(a) \cap T # {}
      BY DEF MentionsStale, DepsOf
    <2> HIDE DEF must
    <2>3. Classify(deps[a], src[a], cache[a], T, present[a], must) = UpToDate <=>
            /\ ~must /\ present[a] /\ ~MentionsStale(deps[a], T)
            /\ cache[a] = Success(src[a])
      BY <2>1, ClassifyUpToDateIff
    <2> QED
      BY <2>2, <2>3 DEF must
  <1>3. \A a \in Actions :
          a \notin Stale <=> /\ a \notin forced /\ present[a]
                             /\ cache[a] = Success(src[a])
                             /\ DepsOf(a) \cap Stale = {}
    BY <1>1 DEF AtRest
  <1>4. ASSUME S = Stale
        PROVE  IsStaleSet(S, deps, src, cache, present, forced)
    BY <1>1, <1>2, <1>3, <1>4 DEF IsStaleSet
  <1>5. ASSUME IsStaleSet(S, deps, src, cache, present, forced), S # Stale
        PROVE  FALSE
    <2> DEFINE Differ == {i \in 1..Len(layers) : \E a \in layers[i] : ~(a \in S <=> a \in Stale)}
    <2>1. \A a \in Actions :
            a \notin S <=> /\ a \notin forced /\ present[a]
                           /\ cache[a] = Success(src[a])
                           /\ DepsOf(a) \cap S = {}
      BY <1>2, <1>5 DEF IsStaleSet
    <2>2. Differ \in SUBSET Nat /\ Differ # {}
      <3>1. PICK a \in Actions : ~(a \in S <=> a \in Stale)
        BY <1>1, <1>5
      <3>2. PICK i \in 1..Len(layers) : a \in layers[i]
        BY <1>1
      <3>3. i \in Differ
        BY <3>1, <3>2
      <3> QED
        BY <3>3
    <2>3. PICK i \in Differ : \A j \in Differ : i <= j
      BY <2>2, HasLeast
    <2>4. PICK a \in layers[i] : ~(a \in S <=> a \in Stale)
      BY <2>3
    <2>5. a \in Actions /\ DepsOf(a) \subseteq UNION {layers[j] : j \in 1..(i - 1)}
      BY <1>1, <2>3, <2>4 DEF LayersSound
    <2>6. \A j \in 1..(i - 1) : j \notin Differ /\ j \in 1..Len(layers)
      BY <2>3 DEF TypeOK
    <2>7. \A d \in DepsOf(a) : d \in S <=> d \in Stale
      BY <2>5, <2>6
    <2> QED
      BY <1>3, <2>1, <2>4, <2>5, <2>7
  <1> QED
    BY <1>4, <1>5

\* With the world at rest, walking the layers in order finds the one stale set
\* that agrees with its own verdicts (plan.rs): no cascade is lost.
THEOREM PlansAreFixpoints == Spec => []PlanIsFixpoint
  <1>1. Inductive /\ AtRest => PlanIsFixpoint
    <2> SUFFICES ASSUME Inductive, AtRest, pc = "planned", edits = 0
                 PROVE  {S \in SUBSET Actions :
                           IsStaleSet(S, deps, src, cache, present, forced)} = {Stale}
      BY DEF PlanIsFixpoint
    <2>1. Stale \in SUBSET Actions
      BY DEF Inductive, TypeOK, Stale
    <2> QED
      BY <2>1, OneStaleSet
  <1>2. Inductive /\ AtRest /\ [Next]_vars => AtRest'
    BY NextAtRest
  <1> QED
    BY Invariance, InitAtRest, <1>1, <1>2, PTL DEF Spec
=============================================================================

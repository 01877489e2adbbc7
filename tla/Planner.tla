------------------------------- MODULE Planner -------------------------------
(***************************************************************************)
(* Plan::compute_with_forced (repolith-core, plan.rs): build the graph,    *)
(* extract Kahn layers, then walk the layers probing every action of one   *)
(* concurrently and deciding what is stale.                                *)
(*                                                                         *)
(* The world does not wait for the planner: between two probes an input    *)
(* may be edited, an artifact may appear or vanish, Ctrl-C may fire.       *)
(* A layer is a set: the order `sort_by` gives it matters only to which of *)
(* several failed probes is reported, which FirstError keeps.              *)
(***************************************************************************)
EXTENDS Staleness, FiniteSets

CONSTANTS Problems,  \* the planning problems considered
          MaxEdits   \* bound on changes of the world during one planning

Problem == [deps : [Actions -> Seq(Nat)], cache : [Actions -> LastBuild],
            forced : SUBSET Actions, src : [Actions -> Hashes],
            present : [Actions -> BOOLEAN]]

ASSUME ProblemsAssumption == Problems \subseteq Problem
ASSUME ActionsFinite == IsFiniteSet(Actions)
ASSUME MaxEditsAssumption == MaxEdits \in Nat

VARIABLES
    deps, cache, forced,   \* the problem: what compute_with_forced is given
    src, present,          \* what a probe would see now
    cancelled, edits,      \* ctx.cancel, changes of the world so far
    pc,                    \* where the function is
    inbound,               \* unextracted id |-> unextracted dependencies
    layers,                \* extracted layers, in order
    k,                     \* layers whose probing has begun
    hashNow, presentNow,   \* LayerProbes of the current layer
    reasons, inputHashes,  \* the Plan being built
    error                  \* PlanError

problemVars == <<deps, cache, forced>>
worldVars   == <<src, present, cancelled, edits>>
probeVars   == <<hashNow, presentNow>>
planVars    == <<reasons, inputHashes>>
vars == <<problemVars, worldVars, pc, inbound, layers, k, probeVars, planVars,
          error>>

-----------------------------------------------------------------------------
(* Values                                                                  *)

Pending     == [got |-> "pending"]
Hashed(h)   == [got |-> "hash", hash |-> h]
ProbeFailed == [got |-> "error"]
ProbeCancel == [got |-> "cancelled"]
HashResult  == [got : {"hash"}, hash : Hashes]
                 \cup {Pending, ProbeFailed, ProbeCancel}

EmptyMap    == [a \in {} |-> NoEvent]
NoError     == [why |-> "none", ids |-> {}]
PlanError(w, ids) == [why |-> w, ids |-> ids]

\* Positions of the dependency list of `a` that name an id of S: a duplicate
\* dependency is counted twice, by `inbound` and by `dependents` alike.
DepsIn(a, S) == {i \in DOMAIN deps[a] : deps[a][i] \in S}

Remaining   == DOMAIN inbound

\* Slip: one dependency to go is taken for none.
ReadyTooSoon == {a \in Remaining : inbound[a] <= 1}

Ready       == {a \in Remaining : inbound[a] = 0}
Extracted   == UNION {layers[i] : i \in DOMAIN layers}
Planned     == DOMAIN inputHashes
Stale       == {a \in DOMAIN reasons : reasons[a] # UpToDate}
Layer       == layers[k]
Finished    == pc \in {"planned", "error"}

-----------------------------------------------------------------------------
Init ==
    /\ \E p \in Problems :
         /\ deps = p.deps
         /\ cache = p.cache
         /\ forced = p.forced
         /\ src = p.src
         /\ present = p.present
    /\ cancelled = FALSE
    /\ edits = 0
    /\ pc = "index"
    /\ inbound = [a \in Actions |-> 0]
    /\ layers = <<>>
    /\ k = 0
    /\ hashNow = [a \in Actions |-> Pending]
    /\ presentNow = [a \in Actions |-> "pending"]
    /\ reasons = EmptyMap
    /\ inputHashes = EmptyMap
    /\ error = NoError

Fail(w, ids) ==
    /\ pc' = "error"
    /\ error' = PlanError(w, ids)

\* Step 1, `for a in actions`: the registration order is the caller's, so any
\* action with an unregistered dependency may be the one reported.
MissingDep ==
    /\ pc = "index"
    /\ \E a \in Actions :
         \E i \in DOMAIN deps[a] : deps[a][i] \notin Actions /\ Fail("MissingDep", {a})
    /\ UNCHANGED <<problemVars, worldVars, inbound, layers, k, probeVars, planVars>>

Mentions(a) == Len(deps[a])

Index ==
    /\ pc = "index"
    /\ \A a \in Actions : \A i \in DOMAIN deps[a] : deps[a][i] \in Actions
    /\ inbound' = [a \in Actions |-> Mentions(a)]
    /\ pc' = "layering"
    /\ UNCHANGED <<problemVars, worldVars, layers, k, probeVars, planVars, error>>

\* Slip: one less per parent, however often the child names it.
DischargeOnce(a, layer) ==
    inbound[a] - Cardinality({deps[a][i] : i \in DOMAIN deps[a]} \cap layer)

\* What a child is left with once a layer is extracted: one less per mention.
Discharge(a, layer) == inbound[a] - Cardinality(DepsIn(a, layer))

\* Step 2: one turn of the Kahn loop.
Extract ==
    /\ pc = "layering"
    /\ Ready # {}
    /\ layers' = Append(layers, Ready)
    /\ inbound' = [a \in Remaining \ Ready |-> Discharge(a, Ready)]
    /\ UNCHANGED <<problemVars, worldVars, pc, k, probeVars, planVars, error>>

Cycle ==
    /\ pc = "layering"
    /\ Ready = {}
    /\ Remaining # {}
    /\ Fail("Cycle", Remaining)
    /\ UNCHANGED <<problemVars, worldVars, inbound, layers, k, probeVars, planVars>>

\* Slip: an empty layer ends the loop, whatever is left.
LayeredWhenStuck ==
    /\ pc = "layering"
    /\ Ready = {}
    /\ pc' = "edge"
    /\ UNCHANGED <<problemVars, worldVars, inbound, layers, k, probeVars, planVars,
                   error>>

Layered ==
    /\ pc = "layering"
    /\ Remaining = {}
    /\ pc' = "edge"
    /\ UNCHANGED <<problemVars, worldVars, inbound, layers, k, probeVars, planVars,
                   error>>

-----------------------------------------------------------------------------
(* Step 3: probe_layer and the cascade.                                    *)

BeginLayer ==
    /\ pc = "edge"
    /\ ~cancelled
    /\ k < Len(layers)
    /\ k' = k + 1
    /\ hashNow' = [a \in Actions |-> Pending]
    /\ presentNow' = [a \in Actions |-> "pending"]
    /\ pc' = "hashing"
    /\ UNCHANGED <<problemVars, worldVars, inbound, layers, planVars, error>>

StopAtEdge ==
    /\ pc = "edge"
    /\ k < Len(layers)
    /\ cancelled
    /\ Fail("Cancelled", {})
    /\ UNCHANGED <<problemVars, worldVars, inbound, layers, k, probeVars, planVars>>

ReturnPlan ==
    /\ pc = "edge"
    /\ k = Len(layers)
    /\ pc' = "planned"
    /\ UNCHANGED <<problemVars, worldVars, inbound, layers, k, probeVars, planVars,
                   error>>

\* `select(probe, cancel)`: a probe that is ready wins over the token.
HashProbe(a) ==
    /\ pc = "hashing"
    /\ a \in Layer
    /\ hashNow[a] = Pending
    /\ \E r \in {Hashed(src[a]), ProbeFailed} : hashNow' = [hashNow EXCEPT ![a] = r]
    /\ UNCHANGED <<problemVars, worldVars, pc, inbound, layers, k, presentNow,
                   planVars, error>>

\* Slip: `input_hash` is awaited without the token.
CancelProbeNever(a) == FALSE

CancelProbe(a) ==
    /\ pc = "hashing"
    /\ cancelled
    /\ a \in Layer
    /\ hashNow[a] = Pending
    /\ hashNow' = [hashNow EXCEPT ![a] = ProbeCancel]
    /\ UNCHANGED <<problemVars, worldVars, pc, inbound, layers, k, presentNow,
                   planVars, error>>

HashesIn ==
    /\ pc = "hashing"
    /\ \A a \in Layer : hashNow[a] # Pending
    /\ pc' = "presence"
    /\ UNCHANGED <<problemVars, worldVars, inbound, layers, k, probeVars, planVars,
                   error>>

\* output_present is not raced against the token.
PresenceProbe(a) ==
    /\ pc = "presence"
    /\ a \in Layer
    /\ presentNow[a] = "pending"
    /\ presentNow' = [presentNow EXCEPT ![a] = IF present[a] THEN "yes" ELSE "no"]
    /\ UNCHANGED <<problemVars, worldVars, pc, inbound, layers, k, hashNow,
                   planVars, error>>

ProbesIn == pc = "presence" /\ \A a \in Layer : presentNow[a] # "pending"

BadProbes == {a \in Layer : hashNow[a].got \in {"error", "cancelled"}}

\* The probes' results are unpacked in layer order, so the smallest id's error
\* is the one reported.  No verdict of this layer is recorded.
FirstError ==
    /\ ProbesIn
    /\ BadProbes # {}
    /\ LET a == CHOOSE x \in BadProbes : \A y \in BadProbes : x <= y
       IN  Fail(IF hashNow[a].got = "error" THEN "Build" ELSE "Cancelled", {a})
    /\ UNCHANGED <<problemVars, worldVars, inbound, layers, k, probeVars, planVars>>

\* Slip: a forced action does not make what is built from it stale.
VerdictSparingForced(a) ==
    Classify(deps[a], hashNow[a].hash, cache[a], Stale \ forced, presentNow[a] = "yes",
             a \in forced)

Verdict(a) ==
    Classify(deps[a], hashNow[a].hash, cache[a], Stale, presentNow[a] = "yes",
             a \in forced)

\* `cache.last_build` for the layer, then the sequential cascade, which awaits
\* nothing.  The loop also consults ids of its own layer; none is a dependency
\* of another (LayersSound), so the verdicts do not depend on the order.
Cascade ==
    /\ ProbesIn
    /\ BadProbes = {}
    /\ reasons' = [a \in Planned \cup Layer |->
                     IF a \in Layer THEN Verdict(a) ELSE reasons[a]]
    /\ inputHashes' = [a \in Planned \cup Layer |->
                     IF a \in Layer THEN hashNow[a].hash ELSE inputHashes[a]]
    /\ pc' = "edge"
    /\ UNCHANGED <<problemVars, worldVars, inbound, layers, k, probeVars, error>>

-----------------------------------------------------------------------------
(* The world.                                                              *)

Edit(a) ==
    /\ ~Finished
    /\ edits < MaxEdits
    /\ edits' = edits + 1
    /\ \/ \E h \in Hashes \ {src[a]} : src' = [src EXCEPT ![a] = h] /\ UNCHANGED present
       \/ present' = [present EXCEPT ![a] = ~present[a]] /\ UNCHANGED src
    /\ UNCHANGED <<problemVars, cancelled, pc, inbound, layers, k, probeVars,
                   planVars, error>>

Cancel ==
    /\ ~Finished
    /\ ~cancelled
    /\ cancelled' = TRUE
    /\ UNCHANGED <<problemVars, src, present, edits, pc, inbound, layers, k,
                   probeVars, planVars, error>>

Done == Finished /\ UNCHANGED vars

-----------------------------------------------------------------------------
\* What the function does when it is polled and nothing it waits for is late.
Step ==
    \/ MissingDep \/ Index \/ Extract \/ Cycle \/ Layered
    \/ BeginLayer \/ StopAtEdge \/ ReturnPlan \/ HashesIn \/ FirstError \/ Cascade

Next ==
    \/ Step
    \/ \E a \in Actions : HashProbe(a) \/ CancelProbe(a) \/ PresenceProbe(a)
    \/ \E a \in Actions : Edit(a)
    \/ Cancel
    \/ Done

Spec == Init /\ [][Next]_vars

\* The executor polls what is ready and `output_present` is cheap by contract;
\* nothing is assumed of `input_hash`, whose git and cargo may hang for ever.
FairSpec ==
    /\ Spec
    /\ WF_vars(Step)
    /\ \A a \in Actions : WF_vars(CancelProbe(a)) /\ WF_vars(PresenceProbe(a))

-----------------------------------------------------------------------------
(* Properties                                                              *)

\* Every variable has the shape the code gives it; in particular an inbound
\* counter is a usize and never underflows when children are discharged.
TypeOK ==
    /\ deps \in [Actions -> Seq(Nat)]
    /\ cache \in [Actions -> LastBuild]
    /\ forced \subseteq Actions
    /\ src \in [Actions -> Hashes]
    /\ present \in [Actions -> BOOLEAN]
    /\ cancelled \in BOOLEAN
    /\ edits \in 0..MaxEdits
    /\ pc \in {"index", "layering", "edge", "hashing", "presence", "planned",
               "error"}
    /\ Remaining \subseteq Actions
    /\ inbound \in [Remaining -> Nat]
    /\ layers \in Seq(SUBSET Actions)
    /\ k \in 0..Len(layers)
    /\ hashNow \in [Actions -> HashResult]
    /\ presentNow \in [Actions -> {"pending", "yes", "no"}]
    /\ Planned \subseteq Actions
    /\ inputHashes \in [Planned -> Hashes]
    /\ reasons \in [Planned -> ChangeReason \cup {UpToDate}]
    /\ error.why \in {"none", "MissingDep", "Cycle", "Build", "Cancelled"}
    /\ error.ids \subseteq Actions

DepsOf(a) == {deps[a][i] : i \in DOMAIN deps[a]}

\* "Layer n holds only actions whose dependencies are all in layers 0..n"
\* (plan.rs, Plan): an extracted action's dependencies are in strictly earlier
\* layers, no action is in two layers, and none is lost.
LayersSound ==
    /\ \A i \in DOMAIN layers : \A a \in layers[i] :
         DepsOf(a) \subseteq UNION {layers[j] : j \in 1..(i - 1)}
    /\ \A i, j \in DOMAIN layers : i # j => layers[i] \cap layers[j] = {}
    /\ Extracted \cup Remaining = Actions
    /\ Extracted \cap Remaining = {}

\* Sets of actions that can never be scheduled: each waits for another of them.
Deadlocked(S) == \A a \in S : DepsOf(a) \cap S # {}

\* PlanError::Cycle is raised exactly when the graph has a cycle, and names
\* every id that can never be ordered; a graph that leaves the Kahn loop
\* otherwise has none.  The reference is independent of the algorithm.
CycleVerdict ==
    /\ error.why = "Cycle" =>
         error.ids = UNION {S \in SUBSET Actions : Deadlocked(S)}
    /\ pc \in {"edge", "hashing", "presence", "planned"} =>
         \A S \in SUBSET Actions : Deadlocked(S) => S = {}

\* The staleness cascade: as soon as an action is decided, it is stale if one
\* of its dependencies is, whatever the cache and the probes said of it.
StaleClosed ==
    \A a \in Planned : DepsOf(a) \cap Stale # {} => a \in Stale

\* With the world at rest the plan's stale set is the one set that agrees with
\* its own verdicts: walking the layers in order loses no cascade.
PlanIsFixpoint ==
    pc = "planned" /\ edits = 0 =>
        {S \in SUBSET Actions : IsStaleSet(S, deps, src, cache, present, forced)}
          = {Stale}

\* An `UpstreamMoved` names a dependency that is stale, and the cache alone
\* would have let the action be skipped.
UpstreamMovedHonest ==
    \A a \in Planned :
        reasons[a].why = "UpstreamMoved" =>
            /\ reasons[a].dep \in DepsOf(a) \cap Stale
            /\ cache[a] = Success(inputHashes[a])

\* An action the plan leaves out is one whose last run succeeded on the very
\* input this planning saw, whose artifact was seen (presentNow still holds what
\* was seen of the layer just decided), and nothing it is built from is stale.
UpToDateJustified ==
    \A a \in Planned \ Stale :
        /\ cache[a] = Success(inputHashes[a])
        /\ DepsOf(a) \subseteq Planned \ Stale
        /\ a \notin forced
        /\ pc = "edge" /\ a \in Layer => presentNow[a] = "yes"

\* A returned plan has a verdict and an input hash for every action, so the
\* `expect("stale id must have been planned with an input_hash")` of the
\* orchestrator cannot fail; at a layer edge exactly the probed layers have.
PlanComplete ==
    /\ pc = "planned" => Planned = Actions
    /\ pc = "edge" => Planned = UNION {layers[i] : i \in 1..k}

\* "A Ctrl-C during plan computation aborts before the next layer fires its
\* ls-remote storm": once cancelled, no further layer is probed.
NoProbesAfterCancel == [][cancelled => k' = k]_vars

\* A cancelled planning ends even if every `input_hash` in flight hangs.
CancelEndsPlanning == cancelled ~> Finished

-----------------------------------------------------------------------------
(* What the safety properties rest on: an inductive invariant in parts.    *)

\* What has been filled in by the time the function is at `pc`.
Stages ==
    /\ pc = "index" => layers = <<>> /\ Remaining = Actions
    /\ pc \in {"index", "layering"} => k = 0 /\ Planned = {}
    /\ pc \in {"edge", "hashing", "presence", "planned"} => Remaining = {}
    /\ pc \in {"hashing", "presence"} => k > 0
    /\ pc = "presence" => \A a \in Layer : hashNow[a] # Pending
    /\ pc = "planned" => k = Len(layers)
    /\ pc = "error" \/ error = NoError

\* Once the graph is known to be closed, an id's counter is the number of its
\* dependencies that are still to be extracted.
Counts ==
    pc # "index" /\ error.why # "MissingDep" =>
        /\ \A a \in Actions : DepsOf(a) \subseteq Actions
        /\ \A a \in Remaining : inbound[a] = Cardinality(DepsIn(a, Remaining))

\* No action that waits for itself, directly or not, is ever extracted.
NoneDeadlocked ==
    \A S \in SUBSET Actions : Deadlocked(S) => S \cap Extracted = {}

\* The layers decided so far are whole and are the first ones.
Decided ==
    /\ Planned \subseteq Extracted
    /\ pc \in {"edge", "planned"} => Planned = UNION {layers[i] : i \in 1..k}
    /\ pc \in {"hashing", "presence"} => Planned = UNION {layers[i] : i \in 1..(k - 1)}
    /\ \A a \in Planned : DepsOf(a) \subseteq Planned

Inductive ==
    /\ TypeOK
    /\ Stages
    /\ Counts
    /\ LayersSound
    /\ NoneDeadlocked
    /\ CycleVerdict
    /\ Decided
    /\ StaleClosed
    /\ UpstreamMovedHonest
    /\ UpToDateJustified

\* With the world at rest the probes saw what is there still, and the verdicts
\* so far agree with the stale set they have made.
AtRest ==
    edits = 0 =>
        /\ \A a \in Actions :
             /\ hashNow[a].got = "hash" => hashNow[a].hash = src[a]
             /\ presentNow[a] # "pending" => (presentNow[a] = "yes" <=> present[a])
        /\ \A a \in Planned :
             a \notin Stale <=> /\ a \notin forced /\ present[a]
                              /\ cache[a] = Success(src[a])
                              /\ DepsOf(a) \cap Stale = {}
=============================================================================

------------------------------ MODULE Federation ------------------------------
(***************************************************************************)
(* RepolithSync (repolith-engine, federation.rs) and what it makes of the  *)
(* orchestrator: an action of a stack that, when executed, plans and runs  *)
(* the stack of another manifest, on the same pool of permits, under a     *)
(* token derived from its own, in the same task.                           *)
(*                                                                         *)
(* A running stack is named by its lineage: the coordinators through which *)
(* it was reached from the root stack, whose lineage is empty.  Each stack *)
(* takes the steps of Orchestrator; what one records in its own cache is   *)
(* left to that module, and so is planning to Planner.                     *)
(***************************************************************************)
EXTENDS Naturals, Sequences, FiniteSets

CONSTANTS
    Root,          \* the manifest `repolith sync` was given
    Actions,       \* the actions of all manifests
    EntriesOf,     \* those of each manifest
    Coordinators,  \* the actions of kind "repolith"
    ChildManifest, \* the manifest each of them resolves to
    ClonedBy,      \* the git-clone that brings its checkout, if one does
    NumLayers,     \* layers of each manifest's plan
    LayerOf,       \* the layer of each action in its stack's plan
    StaleSets,     \* what a planner may find stale in each manifest
    Pools,         \* sizes considered for the one pool of permits
    MaxDepth,      \* MAX_FEDERATION_DEPTH
    Faults         \* which faults happen: "fail", "plan", "open", "persist", "panic"

Leaves == Actions \ Coordinators

ASSUME CoordinatorsAssumption ==
    /\ IsFiniteSet(Actions)
    /\ Coordinators \subseteq Actions
    /\ ChildManifest \in [Coordinators -> DOMAIN EntriesOf]
ASSUME ManifestsAssumption ==
    /\ Root \in DOMAIN EntriesOf
    /\ \A m \in DOMAIN EntriesOf :
         EntriesOf[m] \subseteq Actions /\ StaleSets[m] \subseteq SUBSET EntriesOf[m]
ASSUME LayersAssumption ==
    /\ NumLayers \in [DOMAIN EntriesOf -> Nat]
    /\ LayerOf \in [Actions -> Nat \ {0}]
    /\ \A m \in DOMAIN EntriesOf : \A a \in EntriesOf[m] : LayerOf[a] <= NumLayers[m]
ASSUME BoundsAssumption == Pools \subseteq Nat \ {0} /\ MaxDepth \in Nat \ {0}

-----------------------------------------------------------------------------
(* Lineages, and the guards of resolved_manifest.                          *)

ManifestAt(s) == IF s = <<>> THEN Root ELSE ChildManifest[s[Len(s)]]
Entries(s)    == EntriesOf[ManifestAt(s)]
LayersOf(s)   == NumLayers[ManifestAt(s)]
Up(s)         == SubSeq(s, 1, Len(s) - 1)
Above(s)      == {SubSeq(s, 1, k) : k \in 0..Len(s)}
Chain(s)      == {ManifestAt(t) : t \in Above(s)}
ChainLength(s) == Len(s) + 1

\* Every lineage the manifests allow, one longer than the guards accept.
Stacks ==
    {s \in UNION {[1..k -> Coordinators] : k \in 0..MaxDepth} :
       \A k \in 1..Len(s) : s[k] \in Entries(SubSeq(s, 1, k - 1))}

\* Slip: a manifest is compared with its parent only.
CycleToParent(s, c) == ChildManifest[c] = ManifestAt(s)

\* The manifest is one of the ancestors'.
Cycle(s, c) == ChildManifest[c] \in Chain(s)

\* Slip: off by one.
TooDeepLater(s) == ChainLength(s) > MaxDepth

TooDeep(s) == ChainLength(s) >= MaxDepth

Refused(s, c) == Cycle(s, c) \/ TooDeep(s)

-----------------------------------------------------------------------------
VARIABLES
    mode,        \* ExecMode, the same for the whole tree
    jobs,        \* --jobs
    checkouts,   \* coordinators whose node is checked out
    phase,       \* where each stack is, or how it ended
    stale,       \* each stack's plan
    layer,       \* the layer each stack is at
    st,          \* each stack's futures, and how they ended
    rootCancel,  \* Ctrl-C
    layerCancel, \* each stack's layer token
    permits      \* the pool

constants == <<mode, jobs>>
vars == <<constants, checkouts, phase, stale, layer, st, rootCancel, layerCancel, permits>>

Modes    == {"FailFast", "KeepGoing"}
Outcomes == {"ok", "failed", "cancelled"}
Ended    == {"ok", "failed", "unwound"}
Live(s)  == phase[s] \in {"planning", "edge", "running"}

Members(s)    == {a \in stale[s] : LayerOf[a] = layer[s]}
Running       == {t \in Stacks \X Actions : st[t[1]][t[2]] = "running"}
Charged       == {t \in Running : t[2] \in Leaves}
Child(s, c)   == Append(s, c)

\* Slip: the child's root token is a fresh one.
ListensToAlone(s) == {s}

\* The layers whose tokens a stack's own layer token is derived from.
ListensTo(s) == Above(s)

\* The root token fires them all.
LayerFired(s) == rootCancel \/ \E t \in ListensTo(s) : layerCancel[t]
BaseFired(s)  == IF s = <<>> THEN rootCancel ELSE LayerFired(Up(s))

-----------------------------------------------------------------------------
Init ==
    /\ mode \in Modes
    /\ jobs \in Pools
    /\ checkouts \in {Coordinators, {c \in Coordinators : ClonedBy[c] \notin Actions}}
    /\ phase = [s \in Stacks |-> IF s = <<>> THEN "planning" ELSE "absent"]
    /\ stale = [s \in Stacks |-> {}]
    /\ layer = [s \in Stacks |-> 1]
    /\ st = [s \in Stacks |-> [a \in Actions |-> "idle"]]
    /\ rootCancel = FALSE
    /\ layerCancel = [s \in Stacks |-> FALSE]
    /\ permits = jobs

-----------------------------------------------------------------------------
(* Planning a stack: every coordinator's input_hash applies the guards, but *)
(* lets a node pass that is not checked out yet.                            *)

Plan(s) ==
    /\ phase[s] = "planning"
    /\ \A c \in Entries(s) \cap Coordinators : c \in checkouts => ~Refused(s, c)
    /\ \E S \in StaleSets[ManifestAt(s)] : stale' = [stale EXCEPT ![s] = S]
    /\ phase' = [phase EXCEPT ![s] = "edge"]
    /\ UNCHANGED <<constants, checkouts, layer, st, rootCancel, layerCancel, permits>>

PlanFails(s) ==
    /\ phase[s] = "planning"
    /\ \/ \E c \in Entries(s) \cap Coordinators : c \in checkouts /\ Refused(s, c)
       \/ BaseFired(s)
       \/ "plan" \in Faults
    /\ phase' = [phase EXCEPT ![s] = "failed"]
    /\ UNCHANGED <<constants, checkouts, stale, layer, st, rootCancel, layerCancel, permits>>

-----------------------------------------------------------------------------
(* A stack's loop over its layers, as in Orchestrator.                     *)

HaltCancelled(s) ==
    /\ phase[s] = "edge"
    /\ layer[s] <= LayersOf(s)
    /\ BaseFired(s)
    /\ phase' = [phase EXCEPT ![s] = "failed"]
    /\ UNCHANGED <<constants, checkouts, stale, layer, st, rootCancel, layerCancel, permits>>

NothingToDo(s) == Members(s) = {}

SkipLayer(s) ==
    /\ phase[s] = "edge"
    /\ layer[s] <= LayersOf(s)
    /\ ~BaseFired(s)
    /\ NothingToDo(s)
    /\ layer' = [layer EXCEPT ![s] = @ + 1]
    /\ UNCHANGED <<constants, checkouts, phase, stale, st, rootCancel, layerCancel, permits>>

StartLayer(s) ==
    /\ phase[s] = "edge"
    /\ layer[s] <= LayersOf(s)
    /\ ~BaseFired(s)
    /\ Members(s) # {}
    /\ phase' = [phase EXCEPT ![s] = "running"]
    /\ st' = [st EXCEPT ![s] =
                [a \in Actions |-> IF a \in Members(s) THEN "queued" ELSE @[a]]]
    /\ layerCancel' = [layerCancel EXCEPT ![s] = FALSE]
    /\ UNCHANGED <<constants, checkouts, stale, layer, rootCancel, permits>>

\* Slip: the drain loop gives up on its members at the first failure.
SettledEnough(s) ==
    \/ \A a \in Members(s) : st[s][a] = "ok"
    \/ \E a \in Members(s) : st[s][a] \in {"failed", "cancelled"}

Settled(s) == \A a \in Members(s) : st[s][a] \in Outcomes

LayerOk(s) == \A a \in Members(s) : st[s][a] = "ok"

\* Drain and persist.
EndLayer(s) ==
    /\ phase[s] = "running"
    /\ Settled(s)
    /\ IF LayerOk(s)
       THEN \/ /\ phase' = [phase EXCEPT ![s] = "edge"]
               /\ layer' = [layer EXCEPT ![s] = @ + 1]
            \/ /\ "persist" \in Faults
               /\ phase' = [phase EXCEPT ![s] = "failed"]
               /\ UNCHANGED layer
       ELSE /\ phase' = [phase EXCEPT ![s] = "failed"]
            /\ UNCHANGED layer
    /\ UNCHANGED <<constants, checkouts, stale, st, rootCancel, layerCancel, permits>>

Complete(s) ==
    /\ phase[s] = "edge"
    /\ layer[s] = LayersOf(s) + 1
    /\ phase' = [phase EXCEPT ![s] = "ok"]
    /\ UNCHANGED <<constants, checkouts, stale, layer, st, rootCancel, layerCancel, permits>>

Loop(s) == HaltCancelled(s) \/ SkipLayer(s) \/ StartLayer(s) \/ EndLayer(s) \/ Complete(s)

-----------------------------------------------------------------------------
(* The futures of a layer.                                                 *)

\* Slip: the coordinator takes a permit as well.
NeedsPermitAlways(a) == TRUE

NeedsPermit(a) == a \in Leaves

Start(s, a) ==
    /\ phase[s] = "running"
    /\ st[s][a] = "queued"
    /\ NeedsPermit(a) => permits > 0
    /\ permits' = IF NeedsPermit(a) THEN permits - 1 ELSE permits
    /\ st' = [st EXCEPT ![s][a] = "running"]
    /\ UNCHANGED <<constants, checkouts, phase, stale, layer, rootCancel, layerCancel>>

\* What the drain loop does with a result.
Finish(s, a, outcome) ==
    /\ phase[s] = "running"
    /\ st[s][a] = "running"
    /\ permits' = IF NeedsPermit(a) THEN permits + 1 ELSE permits
    /\ st' = [st EXCEPT ![s][a] = outcome]
    /\ layerCancel' = [layerCancel EXCEPT ![s] = @ \/ (outcome # "ok" /\ mode = "FailFast")]
    /\ UNCHANGED <<constants, phase, stale, layer, rootCancel>>

FinishLeaf(s, a, outcome) ==
    /\ a \in Leaves
    /\ outcome = "cancelled" => LayerFired(s)
    /\ outcome = "failed" => "fail" \in Faults
    /\ Finish(s, a, outcome)
    /\ checkouts' = IF outcome = "ok" THEN checkouts \cup {c \in Coordinators : ClonedBy[c] = a}
                                      ELSE checkouts

-----------------------------------------------------------------------------
(* RepolithSync::execute.                                                  *)

Executing(s, c) == c \in Coordinators /\ phase[s] = "running" /\ st[s][c] = "running"

\* The manifest resolves, parses and wires; the child's orchestrator is built.
Open(s, c) ==
    /\ Executing(s, c)
    /\ phase[Child(s, c)] = "absent"
    /\ c \in checkouts
    /\ ~Refused(s, c)
    /\ phase' = [phase EXCEPT ![Child(s, c)] = "planning"]
    /\ UNCHANGED <<constants, checkouts, stale, layer, st, rootCancel, layerCancel, permits>>

\* A guard, a missing checkout, a bad manifest, wiring, or the child's cache.
Refuse(s, c) ==
    /\ Executing(s, c)
    /\ \/ c \notin checkouts
       \/ Refused(s, c)
       \/ "open" \in Faults /\ phase[Child(s, c)] = "absent"
    /\ Finish(s, c, "failed")
    /\ UNCHANGED checkouts

\* Slip: whatever the child's run returned, the coordinator is done.
ResultTolerant(s, c) == "ok"

\* Any error of the child, cancellation included, comes back as Io.
Result(s, c) == IF phase[Child(s, c)] = "ok" THEN "ok" ELSE "failed"

Close(s, c) ==
    /\ Executing(s, c)
    /\ phase[Child(s, c)] \in {"ok", "failed"}
    /\ Finish(s, c, Result(s, c))
    /\ UNCHANGED checkouts

-----------------------------------------------------------------------------
(* The environment.                                                        *)

\* Slip: the panicking action alone gives its permit back.
ReleasedByOne == 1

ReleasedByUnwinding == Cardinality(Charged)

\* One task runs the whole tree: a panic anywhere unwinds it all.
Panic(s, a) ==
    /\ "panic" \in Faults
    /\ phase[s] = "running"
    /\ a \in Leaves /\ st[s][a] = "running"
    /\ phase' = [t \in Stacks |-> IF Live(t) THEN "unwound" ELSE phase[t]]
    /\ st' = [t \in Stacks |-> [b \in Actions |->
                IF st[t][b] \in {"queued", "running"} THEN "idle" ELSE st[t][b]]]
    /\ permits' = permits + ReleasedByUnwinding
    /\ UNCHANGED <<constants, checkouts, stale, layer, rootCancel, layerCancel>>

Cancel ==
    /\ phase[<<>>] \notin Ended
    /\ ~rootCancel
    /\ rootCancel' = TRUE
    /\ UNCHANGED <<constants, checkouts, phase, stale, layer, st, layerCancel, permits>>

Done == phase[<<>>] \in Ended /\ UNCHANGED vars

-----------------------------------------------------------------------------
StackStep(s) ==
    \/ Plan(s) \/ PlanFails(s) \/ Loop(s)
    \/ \E a \in Entries(s) : Start(s, a) \/ Panic(s, a)
    \/ \E a \in Entries(s), o \in Outcomes : FinishLeaf(s, a, o)
    \/ \E c \in Entries(s) : Open(s, c) \/ Refuse(s, c) \/ Close(s, c)

\* A stack that is not there takes no step.
Next == (\E s \in Stacks : Live(s) /\ StackStep(s)) \/ Cancel \/ Done

Spec == Init /\ [][Next]_vars

\* As in Orchestrator, for every stack: loops and coordinators are polled, a
\* free permit goes to some queued leaf of the tree, and what listens to a
\* token that fired returns.
FairSpec ==
    /\ Spec
    /\ WF_vars(\E s \in Stacks, a \in Leaves : Start(s, a))
    /\ \A s \in Stacks :
         /\ WF_vars(Loop(s))
         /\ WF_vars(BaseFired(s) /\ PlanFails(s))
         /\ \A a \in Leaves : WF_vars(FinishLeaf(s, a, "cancelled"))
         /\ \A c \in Coordinators :
              /\ WF_vars(Start(s, c))
              /\ WF_vars(Open(s, c) \/ Refuse(s, c))
              /\ WF_vars(Close(s, c))

\* In addition, probes and leaves return by themselves.
LeavesReturn ==
    \A s \in Stacks :
        /\ WF_vars(Plan(s) \/ PlanFails(s))
        /\ \A a \in Leaves : WF_vars(\E o \in Outcomes : FinishLeaf(s, a, o))

-----------------------------------------------------------------------------
(* Properties                                                              *)

Under(s) == {t \in Stacks : s \in Above(t)}
SomethingFailed == \E s \in Stacks, a \in Actions : st[s][a] = "failed"

\* "`--jobs N` bounds the whole tree (one global pool, never N per level)"
\* (README.md:340), and the pool survives refusals, cancellations and panics at
\* every level: free permits and running leaves of all stacks add up to N.
TreePool == permits + Cardinality(Charged) = jobs

\* A child stack runs only inside the execution of its coordinator: no failure,
\* token or panic above leaves a stack working below that nobody waits for.
NoOrphanStack ==
    \A s \in Stacks \ {<<>>} :
        Live(s) => /\ phase[Up(s)] = "running"
                   /\ st[Up(s)][s[Len(s)]] = "running"
                   /\ LayerOf[s[Len(s)]] = layer[Up(s)]

\* "Manifest cycles are rejected, federation depth is capped" (README.md:338):
\* no stack is ever opened whose lineage repeats a manifest or is too long.
LineagesSound ==
    \A s \in Stacks :
        phase[s] # "absent" =>
            /\ \A t, u \in Above(s) : ManifestAt(t) = ManifestAt(u) => t = u
            /\ ChainLength(s) <= MaxDepth

\* A coordinator reported as done vouches for everything below it: every stack
\* under it that was opened ended well, with every stale action of it done.
DoneAllTheWayDown ==
    \A s \in Stacks \ {<<>>} :
        st[Up(s)][s[Len(s)]] = "ok" =>
            /\ phase[s] = "ok"
            /\ \A t \in Under(s) :
                 phase[t] # "absent" =>
                     phase[t] = "ok" /\ \A a \in stale[t] : st[t][a] = "ok"

\* "Ctrl-C at any level reaps the whole tree" (federation.rs:19): the run ends
\* even if every leaf in flight, at any depth, would hang for ever.  And under
\* FailFast so it does after a failure anywhere: it fires its own layer's token,
\* its coordinator fails, and so on up, each time reaching everything below.
\* That is true as long as no leaf has to wait for a permit.
TreeStops ==
    /\ rootCancel ~> phase[<<>>] \in Ended
    /\ (mode = "FailFast" /\ jobs >= Cardinality(Leaves) /\ SomethingFailed)
           ~> phase[<<>>] \in Ended

\* With leaves that return the run ends: on one permit no coordinator waits for
\* a child that waits for the coordinator's permit.
TreeEnds == LeavesReturn => <>(phase[<<>>] \in Ended)

-----------------------------------------------------------------------------
(* What the safety properties rest on.                                     *)

Types ==
    /\ jobs \in Nat \ {0} /\ permits \in Nat
    /\ phase \in [Stacks -> {"absent", "planning", "edge", "running"} \cup Ended]
    /\ stale \in [Stacks -> SUBSET Actions]
    /\ \A s \in Stacks : stale[s] \subseteq Entries(s)
    /\ layer \in [Stacks -> Nat \ {0}]
    /\ st \in [Stacks -> [Actions -> {"idle", "queued", "running"} \cup Outcomes]]

\* Where the futures of each stack are: as in Orchestrator, one stack at a time.
Placement ==
    /\ \A s \in Stacks :
         /\ phase[s] \in {"absent", "planning"} => layer[s] = 1
         /\ phase[s] = "running" => layer[s] <= LayersOf(s)
         /\ phase[s] = "ok" => layer[s] = LayersOf(s) + 1
    /\ \A s \in Stacks, a \in Actions :
         /\ st[s][a] # "idle" =>
              /\ a \in stale[s] /\ LayerOf[a] <= layer[s]
              /\ phase[s] \notin {"absent", "planning"}
              /\ phase[s] = "edge" => LayerOf[a] < layer[s]
         /\ st[s][a] \in {"queued", "running"} => phase[s] = "running" /\ LayerOf[a] = layer[s]
         /\ a \in stale[s] /\ LayerOf[a] < layer[s] => st[s][a] = "ok"

\* Whatever was opened was opened by its coordinator, which a panic alone makes
\* forget it.
Opened ==
    /\ phase[<<>>] # "absent"
    /\ \A s \in Stacks \ {<<>>} :
         phase[s] # "absent" =>
            /\ phase[Up(s)] # "absent"
            /\ s[Len(s)] \in checkouts /\ ~Refused(Up(s), s[Len(s)])
            /\ st[Up(s)][s[Len(s)]] \in {"running"} \cup Outcomes \/ phase[Up(s)] = "unwound"

\* A coordinator that is done has closed a child that ended well.
Vouched == \A s \in Stacks \ {<<>>} : st[Up(s)][s[Len(s)]] = "ok" => phase[s] = "ok"

Inductive ==
    /\ Types
    /\ Placement
    /\ Opened
    /\ Vouched
    /\ IsFiniteSet(Charged) /\ TreePool
    /\ NoOrphanStack
    /\ LineagesSound
=============================================================================

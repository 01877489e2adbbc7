--------------------------------- MODULE Sync ---------------------------------
(***************************************************************************)
(* `repolith sync`, run again and again on a world that changes            *)
(* (repolith-cli, main.rs run_sync): plan against the cache, execute the   *)
(* plan, leave the cache for the next run.  It composes the verdicts of    *)
(* Staleness with every step of Orchestrator and adds what they are about: *)
(* the sources, and the artifacts built from them.                         *)
(*                                                                         *)
(* Planning is one step here; Planner shows what its interleavings decide  *)
(* and that the stale set is StaleSet.  A source moves to any content, one *)
(* it had before included (undo, `git stash`, another branch).             *)
(***************************************************************************)
EXTENDS Orchestrator

CONSTANTS Deps,       \* dependency list of each action
          Starts,     \* contents the sources may begin with
          MaxChanges, \* bound on edits of sources and losses of artifacts
          Forcings,   \* what --force may select
          Faults      \* which interruptions happen

ASSUME ChangesAssumption == MaxChanges \in Nat
ASSUME DepsAssumption ==
    /\ Deps \in [Actions -> Seq(Actions)]
    /\ \A a \in Actions : \A i \in DOMAIN Deps[a] : LayerOf[Deps[a][i]] < LayerOf[a]
ASSUME StartsAssumption == Starts \subseteq [Actions -> Hashes]
ASSUME ForcingsAssumption == Forcings \subseteq SUBSET Actions
ASSUME FaultsAssumption ==
    Faults \subseteq {"fail", "cancel", "crash", "cacheError", "panic"}

VARIABLES
    src,     \* the content input_hash would find now
    art,     \* the artifact on this machine, and what it was built from
    changes  \* edits and losses so far

\* Nothing in the code keeps these: they record what happened.
VARIABLES
    left,   \* the contents each source has had and moved away from
    owed,   \* actions a plan called stale and no run has finished since
    edited, \* actions last built from other content than the plan had hashed
    lost    \* actions whose last event never reached the cache

historyVars == <<left, owed, edited, lost>>
worldVars   == <<src, art, changes>>
syncVars    == <<vars, worldVars, historyVars>>

NoArtifact     == [there |-> FALSE]
Artifact(h, f) == [there |-> TRUE, of |-> h, from |-> f]

Present   == [a \in Actions |-> art[a].there]
Inputs(a) == [i \in DOMAIN Deps[a] |-> art[Deps[a][i]]]

\* What a build of `a` would give now, if sources and dependencies decide it.
Fresh(a) == art[a] = Artifact(src[a], Inputs(a))

\* What `repolith status` would list now.
StaleNow(forced) == StaleSet(Deps, src, cache, Present, forced)

\* Events of the layer in progress: they die with the process.
Unrecorded ==
    {a \in Actions : pc \in {"running", "persist"} /\ layerEvents[a] # NoEvent}

-----------------------------------------------------------------------------
\* A machine that has never run a sync: the first step is PlanSync.
SyncInit ==
    /\ src \in Starts
    /\ art = [a \in Actions |-> NoArtifact]
    /\ changes = 0
    /\ left = [a \in Actions |-> {}]
    /\ owed = {}
    /\ edited = {}
    /\ lost = {}
    /\ stale = {}
    /\ input = src
    /\ mode \in Modes
    /\ before = Quiet
    /\ cache = Quiet
    /\ pc = "crashed"
    /\ layer = 1
    /\ st = [a \in Actions |-> "idle"]
    /\ shown = [a \in Actions |-> "nothing"]
    /\ permits = Jobs
    /\ rootCancel = FALSE
    /\ layerCancel = FALSE
    /\ layerEvents = Quiet
    /\ allEvents = Quiet

\* compute_plan_with_forced, then a new run in a new process: only the cache,
\* the sources and the artifacts come from the runs before.
PlanSync(forced) ==
    /\ pc \in Ended
    /\ stale' = StaleNow(forced)
    /\ input' = src
    /\ mode' = mode
    /\ before' = cache
    /\ pc' = "edge"
    /\ layer' = 1
    /\ st' = [a \in Actions |-> "idle"]
    /\ shown' = [a \in Actions |-> "nothing"]
    /\ permits' = Jobs
    /\ rootCancel' = FALSE
    /\ layerCancel' = FALSE
    /\ layerEvents' = Quiet
    /\ allEvents' = Quiet
    /\ owed' = owed \cup stale'
    /\ UNCHANGED <<cache, worldVars, left, edited, lost>>

\* `execute` puts an artifact in place.  It reads the sources as they are, not
\* as the plan hashed them.
Build(a) ==
    /\ art' = [art EXCEPT ![a] = Artifact(src[a], Inputs(a))]
    /\ edited' = IF src[a] = input[a] THEN edited \ {a} ELSE edited \cup {a}

FinishOk(a) ==
    /\ Finish(a, "ok")
    /\ Build(a)
    /\ owed' = owed \ {a}
    /\ UNCHANGED <<src, changes, left, lost>>

\* An action that fails or is cancelled may already have replaced its artifact.
FinishBad(a, outcome) ==
    /\ outcome = "failed" => "fail" \in Faults
    /\ Finish(a, outcome)
    /\ Build(a) \/ UNCHANGED <<art, edited>>
    /\ UNCHANGED <<src, changes, left, owed, lost>>

\* The layer's events reach the cache together, or not at all.
RecordStep ==
    /\ Persist \/ ("cacheError" \in Faults /\ PersistFails)
    /\ lost' = IF cache' = Upsert(cache, layerEvents)
               THEN lost \ Unrecorded ELSE lost \cup Unrecorded

\* A process that dies within a build is one whose build fails, and then dies.
DeathStep ==
    /\ \/ "crash" \in Faults /\ Crash
       \/ "panic" \in Faults /\ \E a \in Actions : Panic(a)
    /\ lost' = lost \cup Unrecorded

LoopStep ==
    /\ \/ HaltCancelled \/ SkipLayer \/ StartLayer \/ LayerSettled \/ Complete
       \/ "cancel" \in Faults /\ Cancel
       \/ \E a \in Actions : Start(a)
    /\ UNCHANGED lost

RunStep ==
    /\ RecordStep \/ DeathStep \/ LoopStep
    /\ UNCHANGED <<worldVars, left, owed, edited>>

EditSource(a) ==
    /\ changes < MaxChanges
    /\ changes' = changes + 1
    /\ \E h \in Hashes \ {src[a]} : src' = [src EXCEPT ![a] = h]
    /\ left' = [left EXCEPT ![a] = @ \cup {src[a]}]
    /\ UNCHANGED <<vars, art, owed, edited, lost>>

LoseArtifact(a) ==
    /\ changes < MaxChanges
    /\ art[a].there
    /\ changes' = changes + 1
    /\ art' = [art EXCEPT ![a] = NoArtifact]
    /\ UNCHANGED <<vars, src, historyVars>>

SyncNext ==
    \/ \E f \in Forcings : PlanSync(f)
    \/ \E a \in Actions : FinishOk(a)
    \/ \E a \in Actions, o \in Outcomes \ {"ok"} : FinishBad(a, o)
    \/ RunStep
    \/ \E a \in Actions : EditSource(a) \/ LoseArtifact(a)

SyncSpec == SyncInit /\ [][SyncNext]_syncVars

-----------------------------------------------------------------------------
(* Properties                                                              *)

\* "Re-runs are [...] never skipped when something did [change]" (README.md:130):
\* whenever no sync is running, every action the next plan would leave out has
\* an artifact built from its present source and its dependencies' artifacts.
UpToDateIsFresh ==
    pc \in Ended => \A a \in Actions \ StaleNow({}) : Fresh(a)

\* The two ways to be skipped wrongly.  The artifact is of other content than
\* the source: then this content is one the source had before, and the build in
\* between either left no record (plan.rs compares with an older one) or used
\* content the plan had not seen.  Or it was built from other artifacts than
\* those there: then a plan called the action stale and was interrupted.
WrongSkipHasCause ==
    pc \in Ended => \A a \in Actions \ StaleNow({}) :
        /\ art[a].of # src[a] => src[a] \in left[a] /\ a \in edited \cup lost
        /\ art[a].from # Inputs(a) => a \in owed

\* A success in the cache says what the artifact that is there was built from,
\* whatever interrupts a run, but for two kinds of action: one whose last build
\* never got its record, and one whose source moved between the plan, whose
\* hash is recorded, and the build.
RecordedWasBuilt ==
    \A a \in Actions \ (edited \cup lost \cup Unrecorded) :
        cache[a].kind = "success" /\ art[a].there => art[a].of = cache[a].input

\* "The second sync is a no-op" (README.md:102): after a run that returned Ok,
\* as long as nothing changed, there is nothing to do.
SecondSyncIsNoOp ==
    pc = "ok" /\ input = src /\ (\A a \in Actions : art[a].there)
        => StaleNow({}) = {}

-----------------------------------------------------------------------------
(* What these rest on, beside Orchestrator's invariant.                    *)

WorldTypes ==
    /\ changes \in 0..MaxChanges
    /\ src \in [Actions -> Hashes]
    /\ art = [a \in Actions |-> art[a]]
    /\ \A a \in Actions :
         \/ art[a] = NoArtifact
         \/ art[a].of \in Hashes /\ art[a] = Artifact(art[a].of, art[a].from)
    /\ left \in [Actions -> SUBSET Hashes]
    /\ owed \subseteq Actions
    /\ edited \subseteq Actions
    /\ lost \subseteq Actions

Had(a) == left[a] \cup {src[a]}

\* What a run knows and records is content the source has had; while its
\* present content is new, a record of it is a record of what is there.
Known ==
    \A a \in Actions :
        /\ input[a] \in Had(a)
        /\ \A e \in {cache[a], layerEvents[a]} : e.kind = "success" =>
             /\ e.input \in Had(a)
             /\ e.input = src[a] /\ src[a] \notin left[a] /\ art[a].there =>
                  art[a].of = src[a]

\* What is about to be recorded was built, unless the source moved under way.
AboutToRecord ==
    \A a \in Unrecorded \ edited :
        layerEvents[a].kind = "success" /\ art[a].there =>
            art[a].of = layerEvents[a].input

\* A plan is closed under the cascade, and what it leaves out is in the cache.
PlanSound ==
    /\ \A a \in Actions : MentionsStale(Deps[a], stale) => a \in stale
    /\ pc \notin Ended \ {"ok"} =>
         \A a \in Actions \ stale : before[a] = Success(input[a])

\* Whose dependencies were rebuilt is owed a run: a run owes its plan until each
\* is done, and rebuilds only what comes before the dependents in the plan.
Debts ==
    /\ \A a \in Actions :
         /\ art[a].there
         /\ \A i \in DOMAIN Deps[a] : art[Deps[a][i]].there
         /\ art[a].from # Inputs(a)
         => a \in owed
    /\ pc \notin Ended => \A a \in stale : st[a] # "settled" => a \in owed

SyncInductive ==
    Inductive /\ WorldTypes /\ Known /\ RecordedWasBuilt /\ AboutToRecord /\ PlanSound /\ Debts
=============================================================================

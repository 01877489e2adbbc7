------------------------------- MODULE Machines -------------------------------
(***************************************************************************)
(* One node, a git-clone and an action built behind it, synced again and   *)
(* again by several machines (or several working copies on one machine)    *)
(* that keep their records in one cache: what git_clone.rs, docker.rs and  *)
(* cargo_install.rs hash, do and check, against remotes that move, a       *)
(* manifest that is edited, artifacts that are lost and runs that die.     *)
(*                                                                         *)
(* Each machine runs the planner and the orchestrator of one action per    *)
(* layer; Planner and Orchestrator have their general form.  git, cargo,   *)
(* docker and the remotes are external: they do what the code relies on.   *)
(* A remote only moves to commits it never had.                            *)
(***************************************************************************)
EXTENDS Caches

CONSTANTS Machines,   \* the machines, or working copies
          Urls,       \* the remotes
          Setups,     \* who is at work, with what, and which changes there may be
          Clock,      \* what each machine's clock reads, and "server" for Neo4j's
          Took        \* the duration of each action

ASSUME OneNode == Actions = {1, 2}

NoUrl         == "none"
ASSUME UrlsAssumption == NoUrl \notin Urls

\* What may come between, of itself or by somebody's hand.
FaultKinds ==
    {"fail", "cancel", "crash", "cacheError", "unreadable", "push", "edit", "lose"}

\* A set-up: the machines that sync, the node's first `git` URL and its second
\* action, the backend, the prefix each machine's cache is wrapped with, the
\* faults there may be, and how many.
ASSUME SetupsAssumption ==
    Setups \subseteq [crew : SUBSET Machines, git : Urls, second : {"docker", "path", "git"},
                     backend : {"sqlite", "neo4j"}, ns : [Machines -> Seq(STRING)],
                     faults : SUBSET FaultKinds, changes : Nat]
ASSUME ClockAssumption ==
    /\ "server" \notin Machines
    /\ Clock \in [Machines \cup {"server"} -> Reading]
    /\ Clock["server"].readable /\ Clock["server"].now > 0
ASSUME TookAssumption == Took \in [Actions -> Nat]

VARIABLES
    setup,                 \* one of Setups
    head,                  \* each remote's HEAD
    want,                  \* the `git` URL in each machine's manifest
    disk,                  \* each machine's checkout
    bin,                   \* what the second action left on each machine
    rows,                  \* the cache: key |-> what the backend stores
    told,                  \* key |-> who wrote it last, and what they were told to
    pc, at,                \* where each machine's sync is, and in which layer
    input, stale,          \* its plan
    got,                   \* FETCH_HEAD
    result,                \* what the action of the layer came to
    owed,                  \* actions a plan called stale and no run has finished since
    calm,                  \* undisturbed clean syncs in a row, -1 in a disturbed one
    changes

local   == <<pc, at, input, stale, got, result, owed>>
places  == <<want, disk, bin>>
store   == <<rows, told>>
vars    == <<setup, head, places, store, local, calm, changes>>

-----------------------------------------------------------------------------
(* Values                                                                  *)

second  == setup.second
backend == setup.backend

Commit(u, v)  == [url |-> u, version |-> v]
NoTree        == [url |-> NoUrl, version |-> 0]

\* A checkout is what `.git` says of itself, and the files.
Absent        == [git |-> FALSE, origin |-> NoUrl, tree |-> NoTree]
Half(u)       == [git |-> TRUE, origin |-> u, tree |-> NoTree]
Whole(u, t)   == [git |-> TRUE, origin |-> u, tree |-> t]

\* The input hashes.
NoHash        == [of |-> "nothing", tree |-> NoTree]
HashOf(w, t)  == [of |-> w, tree |-> t]

Id(a) == <<"node", IF a = 1 THEN "git-clone" ELSE second, a - 1>>
Key(m, a) == Prefixed(setup.ns[m], Id(a))

\* The factory chains the actions of a node.
DepsOf(a) == IF a = 1 THEN <<>> ELSE <<1>>

Tip(u) == Commit(u, head[u])

\* Slip: the remote is not asked where its HEAD is.
CloneInputByUrl(m) == HashOf("head", Commit(want[m], 0))

\* GitClone::input_hash: `git ls-remote <url> HEAD`, with the url.
CloneInput(m) == HashOf("head", Tip(want[m]))

\* Slip: a tree is hashed by its name (issue #73).
ContentInputByName(m) == HashOf("tree", NoTree)

\* A tree that is built: its content, or the marker of a checkout to come.
ContentInput(m) ==
    IF disk[m].git THEN HashOf("tree", disk[m].tree) ELSE HashOf("pre-clone", NoTree)

\* CargoInstall::input_hash has the same of a path, and of git the url alone.
SecondInput(m) ==
    IF second = "git" THEN HashOf("url", Commit(want[m], 0)) ELSE ContentInput(m)

\* A docker node whose checkout has no Dockerfile cannot be hashed.
Unhashable(m, a) == a = 2 /\ second = "docker" /\ disk[m].git /\ disk[m].tree = NoTree

InputOf(m, a) == IF a = 1 THEN CloneInput(m) ELSE SecondInput(m)

\* output_present: the clone is there if `.git` is.
PresentAt(m, a) == IF a = 1 THEN disk[m].git ELSE bin[m] # NoTree

\* last_build, from what the backend stores under the machine's key.
LastRecord(m, a) ==
    IF Key(m, a) \in DOMAIN rows THEN Fetched(backend, rows[Key(m, a)]) ELSE NoRecord
LastBuildOf(m, a) ==
    LET record == LastRecord(m, a) IN IF record.there THEN record.event ELSE NoEvent

VerdictOn(m, a, hash, staleSoFar, last) ==
    Classify(DepsOf(a), hash, last, staleSoFar, PresentAt(m, a), FALSE)

\* What `repolith status` would call up to date on this machine now.
UpToDateNow(m) ==
    LET Is(a, S) == VerdictOn(m, a, InputOf(m, a), S, LastBuildOf(m, a)) = UpToDate
        s1 == IF Is(1, {}) THEN {} ELSE {1}
    IN  ({1} \ s1) \cup {a \in {2} : ~Unhashable(m, 2) /\ Is(2, s1)}

-----------------------------------------------------------------------------
Init ==
    /\ setup \in Setups
    /\ head = [u \in Urls |-> 1]
    /\ want = [m \in Machines |-> setup.git]
    /\ disk = [m \in Machines |-> Absent]
    /\ bin = [m \in Machines |-> NoTree]
    /\ rows = <<>>
    /\ told = <<>>
    /\ pc = [m \in Machines |-> "idle"]
    /\ at = [m \in Machines |-> 1]
    /\ input = [m \in Machines |-> [a \in Actions |-> NoHash]]
    /\ stale = [m \in Machines |-> {}]
    /\ got = [m \in Machines |-> NoTree]
    /\ result = [m \in Machines |-> "none"]
    /\ owed = [m \in Machines |-> {}]
    /\ calm = [m \in Machines |-> 0]
    /\ changes = 0

Idle(m) == pc[m] = "idle"

\* The machine is done: nothing of the run remains but what it left behind.
Home(m) ==
    /\ pc' = [pc EXCEPT ![m] = "idle"]
    /\ at' = [at EXCEPT ![m] = 1]
    /\ input' = [input EXCEPT ![m] = [a \in Actions |-> NoHash]]
    /\ stale' = [stale EXCEPT ![m] = {}]
    /\ got' = [got EXCEPT ![m] = NoTree]
    /\ result' = [result EXCEPT ![m] = "none"]

\* A fault, or a change of the world, in the bound.
Fault(f) == f \in setup.faults /\ changes < setup.changes /\ changes' = changes + 1

Disturbed(ms) ==
    calm' = [m \in Machines |-> IF m \in ms THEN (IF Idle(m) THEN 0 ELSE -1) ELSE calm[m]]
EndsCalm(m, ok) == IF ok /\ calm[m] < 2 THEN calm[m] + 1 ELSE IF ok THEN 2 ELSE 0

-----------------------------------------------------------------------------
(* run_sync: plan, one layer after the other.                              *)

StartSync(m) ==
    /\ m \in setup.crew
    /\ Idle(m)
    /\ pc' = [pc EXCEPT ![m] = "hash"]
    /\ UNCHANGED <<setup, head, places, store, at, input, stale, got, result, owed,
                   calm, changes>>

Hash(m) ==
    /\ pc[m] = "hash"
    /\ ~Unhashable(m, at[m])
    /\ input' = [input EXCEPT ![m][at[m]] = InputOf(m, at[m])]
    /\ pc' = [pc EXCEPT ![m] = "judge"]
    /\ UNCHANGED <<setup, head, places, store, at, stale, got, result, owed, calm,
                   changes>>

\* A probe that fails ends the sync before anything is run.
PlanEnds(m) ==
    /\ pc[m] = "hash"
    /\ Home(m)
    /\ calm' = [calm EXCEPT ![m] = 0]
    /\ UNCHANGED <<setup, head, places, store, owed>>

PlanRefused(m) == PlanEnds(m) /\ Unhashable(m, at[m]) /\ UNCHANGED changes
PlanFails(m)   == PlanEnds(m) /\ Fault("fail")

\* The verdict of the layer; after the last one, the plan is made.
Decide(m, last) ==
    LET a == at[m]
        now == IF VerdictOn(m, a, input[m][a], stale[m], last) = UpToDate
               THEN stale[m] ELSE stale[m] \cup {a}
    IN  /\ stale' = [stale EXCEPT ![m] = now]
        /\ at' = [at EXCEPT ![m] = IF a = 1 THEN 2 ELSE 1]
        /\ pc' = [pc EXCEPT ![m] = IF a = 1 THEN "hash" ELSE "start"]
        /\ owed' = IF a = 2 THEN [owed EXCEPT ![m] = @ \cup now] ELSE owed
        /\ UNCHANGED <<setup, head, places, store, input, got, result>>

Judge(m) ==
    /\ pc[m] = "judge"
    /\ Decide(m, LastBuildOf(m, at[m]))
    /\ UNCHANGED <<calm, changes>>

\* A row that cannot be read, or a cache that does not answer, is `None`.
JudgeUnread(m) ==
    /\ pc[m] = "judge"
    /\ Fault("unreadable")
    /\ Decide(m, NoEvent)
    /\ calm' = [calm EXCEPT ![m] = -1]

-----------------------------------------------------------------------------
(* Execute.  A step of `execute` is what it does between two subprocesses. *)

Runs(m, a) == pc[m] = "start" /\ at[m] = a /\ a \in stale[m]

SkipLayer(m) ==
    /\ pc[m] = "start"
    /\ at[m] \notin stale[m]
    /\ IF at[m] = 1
       THEN /\ at' = [at EXCEPT ![m] = 2]
            /\ UNCHANGED <<pc, input, stale, got, result, calm>>
       ELSE /\ Home(m)
            /\ calm' = [calm EXCEPT ![m] = EndsCalm(m, TRUE)]
    /\ UNCHANGED <<setup, head, places, store, owed, changes>>

Returns(m, r) ==
    /\ result' = [result EXCEPT ![m] = r]
    /\ pc' = [pc EXCEPT ![m] = "record"]
    /\ UNCHANGED <<setup, head, want, store, at, input, stale, owed>>

\* `git fetch origin`: from the remote the checkout was cloned from.
Fetch(m) ==
    /\ Runs(m, 1)
    /\ disk[m].git
    /\ disk[m].origin # NoUrl
    /\ got' = [got EXCEPT ![m] = Tip(disk[m].origin)]
    /\ pc' = [pc EXCEPT ![m] = "fetched"]
    /\ UNCHANGED <<setup, head, places, store, at, input, stale, result, owed, calm,
                   changes>>

\* A `.git` that names no origin yet: git refuses.
FetchRefused(m) ==
    /\ Runs(m, 1)
    /\ disk[m].git
    /\ disk[m].origin = NoUrl
    /\ Returns(m, "failed")
    /\ UNCHANGED <<disk, bin, got, calm, changes>>

\* `git reset --hard FETCH_HEAD`, then `rev-parse`.
Reset(m) ==
    /\ pc[m] = "fetched"
    /\ disk' = [disk EXCEPT ![m] = Whole(@.origin, got[m])]
    /\ got' = [got EXCEPT ![m] = NoTree]
    /\ Returns(m, "ok")
    /\ UNCHANGED <<bin, calm, changes>>

\* `git clone` makes `.git`, then names its origin, then fills it.
StartClone(m) ==
    /\ Runs(m, 1)
    /\ ~disk[m].git
    /\ \E u \in {NoUrl, want[m]} : disk' = [disk EXCEPT ![m] = Half(u)]
    /\ pc' = [pc EXCEPT ![m] = "cloning"]
    /\ UNCHANGED <<setup, head, want, bin, store, at, input, stale, got, result, owed,
                   calm, changes>>

FinishClone(m) ==
    /\ pc[m] = "cloning"
    /\ disk' = [disk EXCEPT ![m] = Whole(want[m], Tip(want[m]))]
    /\ Returns(m, "ok")
    /\ UNCHANGED <<bin, got, calm, changes>>

\* git removes what a clone of its own has begun.
CloneFails(m) ==
    /\ pc[m] = "cloning"
    /\ Fault("fail")
    /\ disk' = [disk EXCEPT ![m] = Absent]
    /\ Returns(m, "failed")
    /\ UNCHANGED <<bin, got, calm>>

\* A build has nothing to do with the checkout but to read it.
Build(m, from) ==
    /\ Runs(m, 2)
    /\ IF from = NoTree
       THEN Returns(m, "failed") /\ UNCHANGED bin
       ELSE Returns(m, "ok") /\ bin' = [bin EXCEPT ![m] = from]
    /\ UNCHANGED <<disk, got, calm, changes>>

\* `cargo install`, from the checkout or from the remote itself.
Install(m) == second # "docker" /\ Build(m, IF second = "git" THEN Tip(want[m]) ELSE disk[m].tree)

DockerBuild(m) == second = "docker" /\ Build(m, disk[m].tree)

\* The subprocess fails and leaves the files alone.
StepFails(m) ==
    /\ \/ Runs(m, 1) /\ disk[m].git
       \/ Runs(m, 2)
       \/ pc[m] = "fetched"
    /\ Fault("fail")
    /\ Returns(m, "failed")
    /\ got' = [got EXCEPT ![m] = NoTree]
    /\ UNCHANGED <<disk, bin, calm>>

\* Ctrl-C: git is killed where it is, with what it has written so far.
Cancelled(m) ==
    /\ pc[m] \in {"fetched", "cloning"} \/ \E a \in Actions : Runs(m, a)
    /\ Fault("cancel")
    /\ Returns(m, "cancelled")
    /\ got' = [got EXCEPT ![m] = NoTree]
    /\ UNCHANGED <<disk, bin, calm>>

\* The process dies.
Crash(m) ==
    /\ ~Idle(m)
    /\ Fault("crash")
    /\ Home(m)
    /\ calm' = [calm EXCEPT ![m] = 0]
    /\ UNCHANGED <<setup, head, places, store, owed>>

-----------------------------------------------------------------------------
(* record_batch, a layer's events being the event of its one action.       *)

EventAt(m) ==
    LET hash == input[m][at[m]] IN IF result[m] = "ok" THEN Success(hash) ELSE Failed(hash)

\* Slip: INSERT OR IGNORE, the row already there wins.
KeepFirst(f, key, value) ==
    [k \in (DOMAIN f) \cup {key} |-> IF k \in DOMAIN f THEN f[k] ELSE value]

\* The row of a key is replaced.
Keep(f, key, value) == [k \in (DOMAIN f) \cup {key} |-> IF k = key THEN value ELSE f[k]]

Written(m) ==
    LET key == Key(m, at[m])
        event == EventAt(m)
    IN  /\ rows' = Keep(rows, key, Stored(backend, event, Took[at[m]], Clock[m],
                                          Clock["server"].now))
        /\ told' = Keep(told, key, [by |-> m, event |-> event, ms |-> Took[at[m]]])

Sharing(m) == {n \in Machines \ {m} : setup.ns[n] = setup.ns[m]}

\* After the batch: the next layer, or the end.
Record(m) ==
    /\ pc[m] = "record"
    /\ Written(m)
    /\ owed' = IF result[m] = "ok" THEN [owed EXCEPT ![m] = @ \ {at[m]}] ELSE owed
    /\ IF result[m] = "ok" /\ at[m] = 1
       THEN /\ at' = [at EXCEPT ![m] = 2]
            /\ pc' = [pc EXCEPT ![m] = "start"]
            /\ result' = [result EXCEPT ![m] = "none"]
            /\ Disturbed(Sharing(m))
            /\ UNCHANGED <<input, stale, got>>
       ELSE /\ Home(m)
            /\ calm' = [n \in Machines |->
                          IF n = m THEN EndsCalm(m, result[m] = "ok")
                          ELSE IF n \in Sharing(m) THEN (IF Idle(n) THEN 0 ELSE -1)
                          ELSE calm[n]]
    /\ UNCHANGED <<setup, head, places, changes>>

\* The write fails, or lands and the answer of a remote backend is lost.
RecordFails(m) ==
    /\ pc[m] = "record"
    /\ Fault("cacheError")
    /\ \/ UNCHANGED store
       \/ backend = "neo4j" /\ Written(m)
    /\ Home(m)
    /\ calm' = [n \in Machines |-> IF n = m \/ Idle(n) THEN 0 ELSE -1]
    /\ UNCHANGED <<setup, head, places, owed>>

-----------------------------------------------------------------------------
(* The world.                                                              *)

Push(u) ==
    /\ Fault("push")
    /\ head' = [head EXCEPT ![u] = @ + 1]
    /\ Disturbed(Machines)
    /\ UNCHANGED <<setup, places, store, local>>

\* Somebody edits the node's `git` URL.
EditUrl(m) ==
    /\ m \in setup.crew /\ Idle(m)
    /\ Fault("edit")
    /\ \E u \in Urls \ {want[m]} : want' = [want EXCEPT ![m] = u]
    /\ Disturbed({m})
    /\ UNCHANGED <<setup, head, disk, bin, store, local>>

LoseArtifact(m) ==
    /\ m \in setup.crew /\ Idle(m)
    /\ Fault("lose")
    /\ \/ disk[m].git /\ disk' = [disk EXCEPT ![m] = Absent] /\ UNCHANGED bin
       \/ bin[m] # NoTree /\ bin' = [bin EXCEPT ![m] = NoTree] /\ UNCHANGED disk
    /\ Disturbed({m})
    /\ UNCHANGED <<setup, head, want, store, local>>

Step(m) ==
    \/ StartSync(m) \/ Hash(m) \/ PlanRefused(m) \/ Judge(m) \/ SkipLayer(m)
    \/ Fetch(m) \/ FetchRefused(m) \/ Reset(m) \/ StartClone(m) \/ FinishClone(m)
    \/ Install(m) \/ DockerBuild(m) \/ Record(m)

Misstep(m) ==
    \/ PlanFails(m) \/ JudgeUnread(m) \/ CloneFails(m) \/ StepFails(m)
    \/ Cancelled(m) \/ Crash(m) \/ RecordFails(m)

Next ==
    \/ \E m \in Machines : Step(m) \/ Misstep(m) \/ EditUrl(m) \/ LoseArtifact(m)
    \/ \E u \in Urls : Push(u)

Spec == Init /\ [][Next]_vars

\* Whoever syncs syncs again, and a sync that has begun is run to its end.
FairSpec == Spec /\ \A m \in Machines : WF_vars(Step(m))

-----------------------------------------------------------------------------
(* Properties.                                                             *)

\* What a sync from an empty cache would leave on this machine now.
Current(m, a) ==
    IF a = 1 THEN disk[m] = Whole(want[m], Tip(want[m]))
    ELSE /\ bin[m] # NoTree
         /\ bin[m] = IF second = "git" THEN Tip(want[m]) ELSE disk[m].tree

\* What can leave a machine behind, and does in this code.
AnothersRow(m, a)  == \E b \in 1..a : Key(m, b) \in DOMAIN told /\ told[Key(m, b)].by # m
HalfClone(m)       == disk[m].git /\ disk[m].tree = NoTree
EditedUrl(m)       == disk[m].origin # want[m]
LostCascade(m)     == 2 \in owed[m] /\ (second = "git" \/ bin[m].url # disk[m].tree.url)

\* An action the planner would skip is current on this machine, unless the
\* record it is skipped for is another machine's, the checkout is half a
\* clone, its remote is no longer the manifest's, or a run did not come to it
\* although a plan had called it stale and it is built from git, or from a
\* checkout of a remote that was given up and taken up again.  About what
\* git_clone.rs, cargo_install.rs and docker.rs hash and look for.
SkipHasCause ==
    \A m \in Machines : Idle(m) =>
        \A a \in UpToDateNow(m) :
            \/ Current(m, a)
            \/ AnothersRow(m, a) \/ HalfClone(m)
            \/ a = 1 /\ EditedUrl(m)
            \/ a = 2 /\ LostCascade(m)

\* After two undisturbed syncs in a row nothing is left to do: the marker of
\* a checkout to come costs one more rebuild and no more (docker.rs:80-87).
ThirdSyncIsNoOp ==
    \A m \in Machines : Idle(m) /\ calm[m] = 2 => UpToDateNow(m) = Actions

\* A record says of a build what the machine that wrote it last was told,
\* with the duration an i64 can hold, dated where the clock allows it: "a
\* broken clock costs a missing date, never a wrong duration and never a 1970
\* date" (sqlite.rs:270-274).  And machines that share a record share a
\* namespace (namespaced.rs:4-7).
RecordsReadBack ==
    \A key \in DOMAIN rows :
        LET by == told[key].by
        IN  /\ Fetched(backend, rows[key]) =
                  BuildRecord(told[key].event, Saturated(told[key].ms),
                              DateDue(backend, told[key].ms, Clock[by], Clock["server"].now))
            /\ \A m \in Machines, a \in Actions : Key(m, a) = key => setup.ns[m] = setup.ns[by]

\* If the world stops moving and everybody keeps syncing, every machine that
\* shares its records with nobody comes to have both artifacts current, and
\* keeps them, unless it meets one of the causes above.
Converges ==
    \A m \in Machines :
        <>[](\/ m \notin setup.crew
             \/ \E n \in setup.crew \ {m} : setup.ns[n] = setup.ns[m]
             \/ Current(m, 1) /\ Current(m, 2)
             \/ HalfClone(m) \/ EditedUrl(m) \/ LostCascade(m))

\* A record written by another machine never lets this one skip work it has
\* not done (README.md:445).  It does where `.git` is there but behind.
NeverSkipsForAnother ==
    \A m \in Machines : Idle(m) =>
        \A a \in UpToDateNow(m) : AnothersRow(m, a) => Current(m, a)
=============================================================================

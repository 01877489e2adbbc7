----------------------------- MODULE SourceClosure -----------------------------
(***************************************************************************)
(* The input hash of a cargo-install from a path (repolith-actions:        *)
(* source_closure.rs, source_hash.rs, cargo_install.rs): the local crates  *)
(* reachable through path dependencies are found by asking cargo about     *)
(* each workspace once, and what they contain is hashed without their      *)
(* paths.  Planning does this again and again while crates are edited.     *)
(*                                                                         *)
(* A digest is the set of what went into it.  A tree's content holds its   *)
(* own Cargo.toml, hence its name and its dependencies, and so no two      *)
(* trees have the same; a workspace's Cargo.toml and Cargo.lock, which may *)
(* be absent, have no such name.  Dev-dependencies are left out as         *)
(* parse_metadata leaves them out; directories are canonical.              *)
(***************************************************************************)
EXTENDS Naturals, FiniteSets

CONSTANTS
    Root,         \* the crate to install
    Dirs,         \* the crates on this machine
    WorkspaceOf,  \* and the workspace each belongs to
    DepChoices,   \* the dependency sets each may declare
    Sources,      \* what else a crate may contain
    Manifests,    \* what a workspace's own files, toml and lock, may contain
    MaxEdits      \* edits in all

Workspaces == {WorkspaceOf[d] : d \in Dirs}

ASSUME CratesAssumption ==
    /\ IsFiniteSet(Dirs) /\ Root \in Dirs
    /\ DOMAIN WorkspaceOf = Dirs
    /\ \A d \in Dirs : DepChoices[d] \subseteq SUBSET Dirs
ASSUME EditsAssumption == MaxEdits \in Nat

VARIABLES
    world,    \* what is on this machine
    edits,
    quiet,    \* no edit since this hash was begun
    token,
    pc,
    queue,    \* directories to visit; the code's vector may repeat them
    visited,
    graph,    \* package directory -> its dependencies, as cargo told
    roots,    \* Closure::workspace_roots
    trees,    \* Closure::dep_trees
    hash,
    last      \* the hash before, and the world it was taken from

walk == <<queue, visited, graph, roots, trees>>
vars == <<world, edits, quiet, token, pc, walk, hash, last>>

NoHash   == [kind |-> "none"]
Hashes   == {"resolved", "unresolved", "pre-clone"}

Worlds ==
    [deps : {f \in [Dirs -> SUBSET Dirs] : \A d \in Dirs : f[d] \in DepChoices[d]},
     src : [Dirs -> Sources],
     present : SUBSET Dirs,
     manifest : [Workspaces -> Manifests],
     sound : SUBSET Workspaces]  \* those cargo can make sense of

PackagesOf(w) == {d \in world.present : WorkspaceOf[d] = w}

-----------------------------------------------------------------------------
(* What is hashed.                                                         *)

\* tree_digest_or_marker.
Tree(wd, d) ==
    IF d \in wd.present THEN <<"tree", d, wd.src[d], wd.deps[d]>> ELSE <<"absent">>

\* file_digest of a workspace root's Cargo.toml and Cargo.lock, each for itself.
Toml(wd, w) == <<"ws-manifest", wd.manifest[w].toml>>
Lock(wd, w) == <<"ws-lock", wd.manifest[w].lock>>

\* Slip: a workspace's own files do not enter.
IngredientsOfTrees(wd, ts, ws) == {Tree(wd, d) : d \in ts}

Ingredients(wd, ts, ws) ==
    {Tree(wd, d) : d \in ts} \cup {Toml(wd, w) : w \in ws} \cup {Lock(wd, w) : w \in ws}

-----------------------------------------------------------------------------
\* Contents are named so that what is there at first has the first name.
Init ==
    /\ world \in {wd \in Worlds : /\ \A d \in Dirs : wd.src[d] = CHOOSE s \in Sources : TRUE
                                  /\ wd.manifest[WorkspaceOf[Root]] = CHOOSE m \in Manifests : TRUE}
    /\ edits = 0
    /\ quiet = TRUE
    /\ token = FALSE
    /\ pc = "idle"
    /\ queue = {} /\ visited = {} /\ roots = {} /\ trees = {}
    /\ graph = <<>>
    /\ hash = NoHash
    /\ last = [hash |-> NoHash, world |-> world, quiet |-> FALSE]

-----------------------------------------------------------------------------
(* input_hash.                                                             *)

Begin ==
    /\ pc = "idle"
    /\ quiet' = TRUE
    /\ visited' = {} /\ roots' = {} /\ trees' = {} /\ graph' = <<>>
    /\ IF Root \in world.present
       THEN pc' = "walk" /\ queue' = {Root} /\ UNCHANGED hash
       ELSE pc' = "hashed" /\ queue' = {} /\ hash' = [kind |-> "pre-clone"]
    /\ UNCHANGED <<world, edits, token, last>>

-----------------------------------------------------------------------------
(* local_closure: one turn of its loop.                                    *)

\* Slip: where one has been is not kept.
MarkedNever(d) == visited

Marked(d) == visited \cup {d}

Take(d) ==
    /\ pc = "walk"
    /\ d \in queue
    /\ d \notin visited
    /\ visited' = Marked(d)

\* Slip: a crate's dependencies are trees, but their own are not looked for.
QueuedNever(ds) == {}

\* The dependencies to visit in turn.
Queued(ds) == ds

\* Those that canonicalize, the root excepted.
Found(ds) == (ds \cap world.present) \ {Root}

Follow(d, ds) ==
    /\ trees' = trees \cup Found(ds)
    /\ queue' = (queue \ {d}) \cup Queued(ds \cap world.present)

VisitKnown(d) ==
    /\ Take(d)
    /\ d \in DOMAIN graph
    /\ Follow(d, graph[d])
    /\ UNCHANGED <<world, edits, quiet, token, pc, graph, roots, hash, last>>

\* The packages whose dependencies an answer about d tells.
Learned(d) == PackagesOf(WorkspaceOf[d])

\* cargo metadata --no-deps answers for the whole workspace.
VisitAsking(d) ==
    /\ Take(d)
    /\ d \notin DOMAIN graph
    /\ d \in world.present /\ WorkspaceOf[d] \in world.sound
    /\ roots' = roots \cup {WorkspaceOf[d]}
    /\ graph' = [e \in DOMAIN graph \cup Learned(d) |->
                    IF e \in DOMAIN graph THEN graph[e] ELSE world.deps[e]]
    /\ Follow(d, world.deps[d])
    /\ UNCHANGED <<world, edits, quiet, token, pc, hash, last>>

\* It fails, or the token fired and was seen first.
VisitInVain(d) ==
    /\ Take(d)
    /\ d \notin DOMAIN graph
    /\ d \notin world.present \/ WorkspaceOf[d] \notin world.sound \/ token
    /\ IF d = Root THEN pc' = "fallback" /\ UNCHANGED queue
                   ELSE queue' = queue \ {d} /\ UNCHANGED pc
    /\ UNCHANGED <<world, edits, quiet, token, graph, roots, trees, hash, last>>

SkipVisited ==
    /\ pc = "walk"
    /\ queue \cap visited # {}
    /\ queue' = queue \ visited
    /\ UNCHANGED <<world, edits, quiet, token, pc, visited, graph, roots, trees, hash, last>>

-----------------------------------------------------------------------------
(* source_closure_digest, and the rest of input_hash.                      *)

Digest ==
    /\ \/ /\ pc = "walk" /\ queue = {}
          /\ hash' = [kind |-> "resolved", root |-> Tree(world, Root),
                      in |-> Ingredients(world, trees, roots)]
       \/ /\ pc = "fallback"
          /\ hash' = [kind |-> "unresolved", root |-> Tree(world, Root), in |-> {}]
    /\ Root \in world.present
    /\ pc' = "hashed"
    /\ UNCHANGED <<world, edits, quiet, token, walk, last>>

\* The crate itself went away while its dependencies were looked for.
DigestFails ==
    /\ pc = "fallback" \/ (pc = "walk" /\ queue = {})
    /\ Root \notin world.present
    /\ pc' = "failed"
    /\ UNCHANGED <<world, edits, quiet, token, walk, hash, last>>

\* `cargo --version` answers, and the planner has its hash.
Return ==
    /\ pc = "hashed"
    /\ pc' = IF token THEN "stopped" ELSE "idle"
    /\ last' = [hash |-> hash, world |-> world, quiet |-> quiet]
    /\ UNCHANGED <<world, edits, quiet, token, walk, hash>>

\* Or the token is seen first.
Cancelled ==
    /\ pc = "hashed"
    /\ token
    /\ pc' = "stopped"
    /\ UNCHANGED <<world, edits, quiet, token, walk, hash, last>>

-----------------------------------------------------------------------------
(* The user.                                                               *)

Changes(wd) ==
    {[wd EXCEPT !.src[d] = s] : d \in Dirs, s \in Sources}
    \cup {[wd EXCEPT !.manifest[w] = m] : w \in Workspaces, m \in Manifests}
    \cup {[wd EXCEPT !.sound = ws] : ws \in SUBSET Workspaces}
    \cup {[wd EXCEPT !.present = ds] : ds \in {wd.present \ {d} : d \in Dirs} \cup {wd.present \cup {d} : d \in Dirs}}
    \cup UNION {{[wd EXCEPT !.deps[d] = ds] : ds \in DepChoices[d]} : d \in Dirs}

Edit ==
    /\ edits < MaxEdits
    /\ pc # "stopped"
    /\ world' \in Changes(world) \ {world}
    /\ edits' = edits + 1
    /\ quiet' = FALSE
    /\ UNCHANGED <<token, pc, walk, hash, last>>

Cancel ==
    /\ ~token
    /\ token' = TRUE
    /\ UNCHANGED <<world, edits, quiet, pc, walk, hash, last>>

Stopped == pc \in {"stopped", "failed"} /\ UNCHANGED vars

-----------------------------------------------------------------------------
Turn == SkipVisited \/ \E d \in Dirs : VisitKnown(d) \/ VisitAsking(d) \/ VisitInVain(d)

Hashing == Turn \/ Digest \/ DigestFails \/ Return \/ Cancelled

Next == Begin \/ Hashing \/ Edit \/ Cancel \/ Stopped

Spec == Init /\ [][Next]_vars

\* The walk is polled, and cargo answers or the token is seen.
FairSpec == Spec /\ WF_vars(Hashing)

-----------------------------------------------------------------------------
(* Properties                                                              *)

Usable(wd, d) == d \in wd.present /\ WorkspaceOf[d] \in wd.sound

\* The reference: what can be reached through crates cargo understands, as the
\* smallest set that is closed.
Reachable(wd) ==
    LET Closed(S) == Root \in S /\ \A d \in S : Usable(wd, d) => wd.deps[d] \cap wd.present \subseteq S
    IN  {d \in Dirs : \A S \in SUBSET Dirs : Closed(S) => d \in S}

WorkspacesIn(wd) == {WorkspaceOf[d] : d \in {e \in Reachable(wd) : Usable(wd, e)}}

\* The crates whose content can change the binary, and what their workspaces'
\* own files contain.  Which workspace contains which of it is not told, nor
\* which lock goes with which manifest: the code does not, and two workspaces
\* that exchange contents hash as before.
Inputs(wd) ==
    [trees |-> {Tree(wd, d) : d \in Reachable(wd)},
     tomls |-> {wd.manifest[w].toml : w \in WorkspacesIn(wd)},
     locks |-> {wd.manifest[w].lock : w \in WorkspacesIn(wd)}]

\* The worklist finds what it should, on every graph, cycles through the root
\* and vanished crates included: at its end it has the trees that are reachable
\* and their workspaces, if nobody edited or cancelled meanwhile.
ClosureExact ==
    pc = "walk" /\ queue = {} /\ quiet /\ ~token =>
        /\ trees = Reachable(world) \ {Root}
        /\ roots = WorkspacesIn(world)

Understood(wd) == \A d \in Reachable(wd) : Usable(wd, d)

\* What #78 was about: two plannings that hash alike, each of a world that kept
\* still and that cargo understood, had alike all that the binary is built from.
\* And a hash of the crate alone is never taken for one of its closure.
UnmovedMeansSame ==
    (pc = "hashed" /\ quiet /\ ~token /\ last.quiet /\ hash = last.hash)
        => /\ Understood(world) /\ Understood(last.world) => Inputs(world) = Inputs(last.world)
           /\ hash.kind = "unresolved" => Tree(world, Root) = Tree(last.world, Root)
           /\ Root \in world.present => (Usable(world, Root) <=> Usable(last.world, Root))

\* Termination "by construction": every walk ends, on cyclic graphs as well.
WalkEnds == pc = "walk" ~> pc \in {"hashed", "failed", "stopped"}
=============================================================================

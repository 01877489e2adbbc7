------------------------- MODULE SourceClosure_proofs -------------------------
(***************************************************************************)
(* Proofs about SourceClosure: on every graph of crates the worklist finds *)
(* exactly what can be reached, and two hashes are alike only if all that  *)
(* a binary is built from is.                                              *)
(***************************************************************************)
EXTENDS SourceClosure, TLAPS

-----------------------------------------------------------------------------
(* What can be reached.                                                    *)

Closed(wd, S) ==
    Root \in S /\ \A d \in S : Usable(wd, d) => wd.deps[d] \cap wd.present \subseteq S

LEMMA ReachableIsLeast ==
    ASSUME NEW wd
    PROVE  Reachable(wd) = {d \in Dirs : \A S \in SUBSET Dirs : Closed(wd, S) => d \in S}
BY DEF Reachable, Closed

\* It is closed itself, and in every closed set.
LEMMA ReachableCloses ==
    ASSUME NEW wd, wd.present \subseteq Dirs
    PROVE  /\ Reachable(wd) \subseteq Dirs
           /\ Root \in Reachable(wd)
           /\ \A d \in Reachable(wd) :
                Usable(wd, d) => wd.deps[d] \cap wd.present \subseteq Reachable(wd)
           /\ \A S \in SUBSET Dirs : Closed(wd, S) => Reachable(wd) \subseteq S
<1>1. Root \in Reachable(wd)
    BY CratesAssumption, ReachableIsLeast DEF Closed
<1>2. ASSUME NEW d \in Reachable(wd), Usable(wd, d), NEW e \in wd.deps[d] \cap wd.present
      PROVE  e \in Reachable(wd)
    <2>1. ASSUME NEW S \in SUBSET Dirs, Closed(wd, S) PROVE e \in S
        <3>1. d \in S
            BY <2>1, ReachableIsLeast
        <3> QED
            BY <1>2, <2>1, <3>1 DEF Closed
    <2> QED
        BY <2>1, ReachableIsLeast
<1> QED
    BY <1>1, <1>2, ReachableIsLeast

-----------------------------------------------------------------------------
(* The invariant.                                                          *)

\* Nothing has come between since this hash was begun.
Still == quiet /\ ~token

TypeCorrect ==
    /\ world \in Worlds
    /\ pc \in {"idle", "walk", "fallback", "hashed", "stopped", "failed"}
    /\ queue \subseteq Dirs /\ visited \subseteq Dirs

\* The trees are what was ever queued, but for the root.
Gathered == pc \in {"walk", "fallback"} => trees = (visited \cup queue) \ {Root}

\* The workspaces asked are those of the visited crates cargo understands, and
\* their packages are known.
Asked ==
    /\ roots = {WorkspaceOf[d] : d \in {e \in visited : Usable(world, e)}}
    /\ DOMAIN graph = {e \in world.present : WorkspaceOf[e] \in roots}
    /\ \A e \in DOMAIN graph : graph[e] = world.deps[e]

\* The worklist is on its way from the root to what can be reached.
Underway ==
    /\ Root \in visited \cup queue
    /\ Root \in world.present
    /\ Root \in visited => Usable(world, Root)
    /\ visited \cup queue \subseteq Reachable(world)
    /\ \A d \in visited :
         Usable(world, d) => world.deps[d] \cap world.present \subseteq visited \cup queue

\* A hash is that of a world.
HashOf(h, wd) ==
    \/ h = [kind |-> "pre-clone"] /\ Root \notin wd.present
    \/ /\ h = [kind |-> "resolved", root |-> Tree(wd, Root),
               in |-> Ingredients(wd, Reachable(wd) \ {Root}, WorkspacesIn(wd))]
       /\ Usable(wd, Root)
    \/ /\ h = [kind |-> "unresolved", root |-> Tree(wd, Root), in |-> {}]
       /\ Root \in wd.present /\ ~Usable(wd, Root)

Inductive ==
    /\ TypeCorrect
    /\ Gathered
    /\ Still /\ pc = "walk" => Asked /\ Underway
    /\ Still /\ pc = "fallback" => Root \in world.present /\ ~Usable(world, Root)
    /\ Still /\ pc = "hashed" => HashOf(hash, world)
    /\ last.quiet /\ pc # "stopped" => HashOf(last.hash, last.world)

-----------------------------------------------------------------------------
(* Worlds.                                                                 *)

LEMMA WorldShape ==
    ASSUME NEW wd \in Worlds
    PROVE  /\ wd.present \subseteq Dirs
           /\ \A d \in Dirs : wd.deps[d] \subseteq Dirs
BY CratesAssumption DEF Worlds

\* An edit leads from a world to a world.
LEMMA ChangesAreWorlds ==
    ASSUME NEW wd \in Worlds, NEW other \in Changes(wd)
    PROVE  other \in Worlds
<1>1. CASE \E d \in Dirs, s \in Sources : other = [wd EXCEPT !.src[d] = s]
    BY <1>1 DEF Worlds
<1>2. CASE \E w \in Workspaces, m \in Manifests : other = [wd EXCEPT !.manifest[w] = m]
    BY <1>2 DEF Worlds
<1>3. CASE \E ws \in SUBSET Workspaces : other = [wd EXCEPT !.sound = ws]
    BY <1>3 DEF Worlds
<1>4. CASE \E d \in Dirs : \/ other = [wd EXCEPT !.present = wd.present \ {d}]
                          \/ other = [wd EXCEPT !.present = wd.present \cup {d}]
    BY <1>4 DEF Worlds
<1>5. CASE \E d \in Dirs : \E ds \in DepChoices[d] : other = [wd EXCEPT !.deps[d] = ds]
    <2> PICK d \in Dirs : \E ds \in DepChoices[d] : other = [wd EXCEPT !.deps[d] = ds]
        BY <1>5
    <2>1. PICK ds \in DepChoices[d] : other = [wd EXCEPT !.deps[d] = ds]
        OBVIOUS
    <2>2. /\ wd.deps \in [Dirs -> SUBSET Dirs]
          /\ \A e \in Dirs : wd.deps[e] \in DepChoices[e]
        BY DEF Worlds
    <2>3. /\ [wd.deps EXCEPT ![d] = ds] \in [Dirs -> SUBSET Dirs]
          /\ \A e \in Dirs : [wd.deps EXCEPT ![d] = ds][e] \in DepChoices[e]
        BY <2>2, CratesAssumption
    <2>4. other = [wd EXCEPT !.deps = [wd.deps EXCEPT ![d] = ds]]
        BY <2>1 DEF Worlds
    <2> QED
        BY <2>3, <2>4 DEF Worlds
<1> QED
    BY <1>1, <1>2, <1>3, <1>4, <1>5 DEF Changes

-----------------------------------------------------------------------------
(* The walk.                                                               *)

\* At its end the worklist has been where it should, and nowhere else.
LEMMA WalkIsExact ==
    ASSUME Inductive, Still, pc = "walk", queue = {}
    PROVE  /\ visited = Reachable(world)
           /\ trees = Reachable(world) \ {Root}
           /\ roots = WorkspacesIn(world)
           /\ Usable(world, Root)
<1> USE DEF Inductive
<1>1. Closed(world, visited)
    BY DEF Closed, Underway
<1>2. visited \subseteq Dirs /\ world.present \subseteq Dirs
    BY WorldShape DEF TypeCorrect
<1>3. visited = Reachable(world)
    BY <1>1, <1>2, ReachableCloses DEF Underway
<1> QED
    BY <1>3 DEF Gathered, Asked, WorkspacesIn, Underway

LEMMA InductiveInit == Init => Inductive
<1> SUFFICES ASSUME Init PROVE Inductive
    OBVIOUS
<1>1. world \in Worlds /\ pc = "idle" /\ queue = {} /\ visited = {} /\ last.quiet = FALSE
    BY DEF Init
<1> QED
    BY <1>1 DEF Inductive, TypeCorrect, Gathered

LEMMA BeginKeeps == Inductive /\ Begin => Inductive'
<1> SUFFICES ASSUME Inductive, Begin PROVE Inductive'
    OBVIOUS
<1> USE DEF Begin
<1>1. world \in Worlds /\ world.present \subseteq Dirs /\ Root \in Dirs
    BY WorldShape, CratesAssumption DEF Inductive, TypeCorrect
<1>2. TypeCorrect' /\ Gathered'
    BY <1>1 DEF TypeCorrect, Gathered
<1>3. last.quiet /\ pc # "stopped" => HashOf(last.hash, last.world)
    BY DEF Inductive
<1>4. CASE Root \in world.present
    <2>1. Asked'
        BY DEF Asked
    <2>2. Underway'
        BY <1>1, <1>4, ReachableCloses DEF Underway
    <2> QED
        BY <1>2, <1>3, <1>4, <2>1, <2>2 DEF Inductive
<1>5. CASE Root \notin world.present
    <2>1. HashOf(hash, world)'
        BY <1>5 DEF HashOf
    <2> QED
        BY <1>2, <1>3, <1>5, <2>1 DEF Inductive
<1> QED
    BY <1>4, <1>5

LEMMA SkipKeeps == Inductive /\ SkipVisited => Inductive'
<1> SUFFICES ASSUME Inductive, SkipVisited PROVE Inductive'
    OBVIOUS
<1> USE DEF SkipVisited
<1>1. visited' \cup queue' = visited \cup queue
    OBVIOUS
<1>2. TypeCorrect' /\ Gathered'
    BY <1>1 DEF Inductive, TypeCorrect, Gathered
<1>3. ASSUME Still PROVE Asked' /\ Underway'
    BY <1>1, <1>3 DEF Inductive, Asked, Underway
<1> QED
    BY <1>2, <1>3 DEF Inductive, Still

\* What every turn does about the trees and the directories still to visit.
LEMMA FollowKeeps ==
    ASSUME Inductive, NEW d, Take(d), NEW ds, Follow(d, ds), UNCHANGED <<world, pc>>
    PROVE  /\ TypeCorrect' /\ Gathered'
           /\ visited' \cup queue' = visited \cup queue \cup (ds \cap world.present)
<1>1. world.present \subseteq Dirs
    BY WorldShape DEF Inductive, TypeCorrect
<1> QED
    BY <1>1 DEF Inductive, TypeCorrect, Gathered, Take, Marked, Follow, Found, Queued

\* Having learned what d depends on, if cargo understands d.
LEMMA UnderwayKeeps ==
    ASSUME Inductive, Still, NEW d, Take(d), Usable(world, d), Follow(d, world.deps[d]),
           UNCHANGED <<world, pc>>
    PROVE  Underway'
<1>1. Underway /\ d \in Reachable(world)
    BY DEF Inductive, Take, Underway
<1>2. visited' = visited \cup {d}
    BY DEF Take, Marked
<1>3. visited' \cup queue' = visited \cup queue \cup (world.deps[d] \cap world.present)
    BY FollowKeeps
<1>4. world.deps[d] \cap world.present \subseteq Reachable(world)
    BY <1>1, ReachableCloses, WorldShape DEF Inductive, TypeCorrect
<1> QED
    BY <1>1, <1>2, <1>3, <1>4 DEF Underway

LEMMA VisitKnownKeeps == ASSUME NEW d \in Dirs PROVE Inductive /\ VisitKnown(d) => Inductive'
<1> SUFFICES ASSUME Inductive, VisitKnown(d) PROVE Inductive'
    OBVIOUS
<1>1. TypeCorrect' /\ Gathered'
    BY FollowKeeps DEF VisitKnown
<1>2. ASSUME Still PROVE Asked' /\ Underway'
    <2>1. Asked
        BY <1>2 DEF Inductive, VisitKnown, Take
    <2>2. graph[d] = world.deps[d] /\ d \in world.present /\ WorkspaceOf[d] \in roots
        BY <2>1 DEF Asked, VisitKnown
    <2>3. Usable(world, d)
        BY <2>1, <2>2 DEF Asked, Usable
    <2>4. visited' = visited \cup {d} /\ UNCHANGED <<world, roots, graph>>
        BY DEF VisitKnown, Take, Marked
    <2>5. Asked'
        BY <2>1, <2>2, <2>4 DEF Asked
    <2> QED
        BY <1>2, <2>2, <2>3, <2>5, UnderwayKeeps DEF VisitKnown
<1> QED
    BY <1>1, <1>2 DEF Inductive, VisitKnown, Take, Still

LEMMA VisitAskingKeeps == ASSUME NEW d \in Dirs PROVE Inductive /\ VisitAsking(d) => Inductive'
<1> SUFFICES ASSUME Inductive, VisitAsking(d) PROVE Inductive'
    OBVIOUS
<1>1. TypeCorrect' /\ Gathered'
    BY FollowKeeps DEF VisitAsking
<1>2. ASSUME Still PROVE Asked' /\ Underway'
    <2>1. Asked
        BY <1>2 DEF Inductive, VisitAsking, Take
    <2>2. Usable(world, d)
        BY DEF VisitAsking, Usable
    <2>3. visited' = visited \cup {d} /\ UNCHANGED world /\ roots' = roots \cup {WorkspaceOf[d]}
        BY DEF VisitAsking, Take, Marked
    <2>4. roots' = {WorkspaceOf[c] : c \in {e \in visited' : Usable(world, e)}}
        BY <2>1, <2>2, <2>3 DEF Asked
    <2>5. DOMAIN graph' = {e \in world.present : WorkspaceOf[e] \in roots'}
        BY <2>1, <2>3 DEF Asked, VisitAsking, Learned, PackagesOf
    <2>6. \A e \in DOMAIN graph' : graph'[e] = world.deps[e]
        BY <2>1 DEF Asked, VisitAsking
    <2>7. Asked'
        BY <2>3, <2>4, <2>5, <2>6 DEF Asked, Usable
    <2> QED
        BY <1>2, <2>2, <2>7, UnderwayKeeps DEF VisitAsking
<1> QED
    BY <1>1, <1>2 DEF Inductive, VisitAsking, Take, Still

\* A crate cargo does not understand leads nowhere; if it is the one to
\* install, there is no closure.
LEMMA VisitInVainKeeps == ASSUME NEW d \in Dirs PROVE Inductive /\ VisitInVain(d) => Inductive'
<1> SUFFICES ASSUME Inductive, VisitInVain(d) PROVE Inductive'
    OBVIOUS
<1> USE DEF VisitInVain, Take, Marked
<1>1. visited' \cup queue' = visited \cup queue /\ visited' = visited \cup {d}
    OBVIOUS
<1>2. TypeCorrect' /\ Gathered'
    BY <1>1 DEF Inductive, TypeCorrect, Gathered
<1>3. ASSUME Still, d = Root PROVE Root \in world.present /\ ~Usable(world, Root)
    BY <1>3 DEF Inductive, Underway, Still, Usable
<1>4. ASSUME Still, d # Root PROVE Asked' /\ Underway'
    <2>1. Asked /\ Underway
        BY <1>4 DEF Inductive
    <2>2. ~Usable(world, d)
        BY <1>4 DEF Still, Usable
    <2>3. {e \in visited' : Usable(world, e)} = {e \in visited : Usable(world, e)}
        BY <1>1, <2>2
    <2>4. Asked'
        BY <2>1, <2>3 DEF Asked, Usable
    <2>5. Underway'
        BY <1>1, <1>4, <2>1, <2>2 DEF Underway, Usable
    <2> QED
        BY <2>4, <2>5
<1>5. CASE d = Root
    BY <1>2, <1>3, <1>5 DEF Inductive, Still, Usable
<1>6. CASE d # Root
    BY <1>2, <1>4, <1>6 DEF Inductive, Still
<1> QED
    BY <1>5, <1>6

LEMMA DigestKeeps == Inductive /\ Digest => Inductive'
<1> SUFFICES ASSUME Inductive, Digest PROVE Inductive'
    OBVIOUS
<1> USE DEF Digest, walk
<1>1. TypeCorrect' /\ Gathered'
    BY DEF Inductive, TypeCorrect, Gathered
<1>2. ASSUME Still, pc = "walk", queue = {} PROVE HashOf(hash', world)
    BY <1>2, WalkIsExact DEF HashOf
<1>3. ASSUME Still, pc = "fallback" PROVE HashOf(hash', world)
    BY <1>3 DEF HashOf, Inductive
<1>4. Still => HashOf(hash', world)
    BY <1>2, <1>3
<1>5. HashOf(hash, world)' <=> HashOf(hash', world)
    OBVIOUS
<1> QED
    BY <1>1, <1>4, <1>5 DEF Inductive, Still

LEMMA ReturnKeeps == Inductive /\ Return => Inductive'
<1> SUFFICES ASSUME Inductive, Return PROVE Inductive'
    OBVIOUS
<1> USE DEF Return, walk
<1>1. TypeCorrect' /\ Gathered'
    BY DEF Inductive, TypeCorrect, Gathered
<1>2. Still => HashOf(hash, world)
    BY DEF Inductive
<1>3. last'.quiet /\ pc' # "stopped" => HashOf(last'.hash, last'.world)
    BY <1>2 DEF Still
<1> QED
    BY <1>1, <1>3 DEF Inductive

LEMMA EditKeeps == Inductive /\ Edit => Inductive'
<1> SUFFICES ASSUME Inductive, Edit PROVE Inductive'
    OBVIOUS
<1>1. world' \in Worlds
    BY ChangesAreWorlds DEF Inductive, TypeCorrect, Edit
<1> QED
    BY <1>1 DEF Inductive, Edit, walk, TypeCorrect, Gathered, Still

LEMMA OthersKeep ==
    Inductive /\ (DigestFails \/ Cancelled \/ Cancel \/ UNCHANGED vars) => Inductive'
<1> SUFFICES ASSUME Inductive PROVE (DigestFails \/ Cancelled \/ Cancel \/ UNCHANGED vars) => Inductive'
    OBVIOUS
<1>1. CASE DigestFails
    BY <1>1 DEF DigestFails, Inductive, walk, TypeCorrect, Gathered, Still, HashOf
<1>2. CASE Cancelled
    BY <1>2 DEF Cancelled, Inductive, walk, TypeCorrect, Gathered, Still, HashOf
<1>3. CASE Cancel
    BY <1>3 DEF Cancel, Inductive, walk, TypeCorrect, Gathered, Still, HashOf
<1>4. CASE UNCHANGED vars
    <2> USE <1>4 DEF vars, walk
    <2>1. UNCHANGED <<TypeCorrect, Gathered, Still>>
        BY DEF TypeCorrect, Gathered, Still
    <2>2. UNCHANGED <<Asked, Underway>>
        BY DEF Asked, Underway, Usable
    <2>3. HashOf(hash, world)' <=> HashOf(hash, world)
        OBVIOUS
    <2> QED
        BY <2>1, <2>2, <2>3 DEF Inductive, Usable
<1> QED
    BY <1>1, <1>2, <1>3, <1>4

LEMMA InductiveNext == Inductive /\ [Next]_vars => Inductive'
BY BeginKeeps, SkipKeeps, VisitKnownKeeps, VisitAskingKeeps, VisitInVainKeeps, DigestKeeps,
   ReturnKeeps, EditKeeps, OthersKeep
   DEF Next, Hashing, Turn, Stopped

\* It holds of every hash taken, edits and cancellations at any point.
LEMMA InductiveHolds == Spec => []Inductive
<1>1. Init => Inductive
    BY InductiveInit
<1>2. Inductive /\ [Next]_vars => Inductive'
    BY InductiveNext
<1> QED
    BY <1>1, <1>2, PTL DEF Spec

-----------------------------------------------------------------------------
(* Theorems.                                                               *)

\* On every graph of crates, cycles, shared workspaces and vanished crates
\* included, the worklist of local_closure (source_closure.rs:149-197) ends with
\* all that can be reached and the workspaces it is of.
THEOREM ClosuresAreExact == Spec => []ClosureExact
<1>1. Inductive => ClosureExact
    BY WalkIsExact DEF ClosureExact, Still
<1> QED
    BY <1>1, InductiveHolds, PTL

TreesOf(wd, ts) == {Tree(wd, d) : d \in ts}
TomlsOf(wd, ws) == {wd.manifest[w].toml : w \in ws}
LocksOf(wd, ws) == {wd.manifest[w].lock : w \in ws}

\* No workspace's own file is taken for a crate's tree, nor for the other file.
LEMMA IngredientsSplit ==
    ASSUME NEW wd, NEW ts, NEW ws, NEW other, NEW us, NEW vs,
           Ingredients(wd, ts, ws) = Ingredients(other, us, vs)
    PROVE  /\ TreesOf(wd, ts) = TreesOf(other, us)
           /\ TomlsOf(wd, ws) = TomlsOf(other, vs)
           /\ LocksOf(wd, ws) = LocksOf(other, vs)
<1>1. ASSUME NEW a, NEW b, NEW d, NEW v, NEW w
      PROVE  Tree(a, d) # Toml(b, w) /\ Tree(a, d) # Lock(b, w) /\ Toml(a, v) # Lock(b, w)
    BY DEF Tree, Toml, Lock
<1>2. TreesOf(wd, ts) = TreesOf(other, us)
    BY <1>1 DEF Ingredients, TreesOf
<1>3. {Toml(wd, w) : w \in ws} = {Toml(other, w) : w \in vs}
    BY <1>1 DEF Ingredients
<1>4. {Lock(wd, w) : w \in ws} = {Lock(other, w) : w \in vs}
    BY <1>1 DEF Ingredients
<1>5. \A a, b, v, w : /\ Toml(a, v) = Toml(b, w) => a.manifest[v].toml = b.manifest[w].toml
                      /\ Lock(a, v) = Lock(b, w) => a.manifest[v].lock = b.manifest[w].lock
    BY DEF Toml, Lock
<1>6. TomlsOf(wd, ws) = TomlsOf(other, vs)
    <2>1. ASSUME NEW w \in ws PROVE \E v \in vs : wd.manifest[w].toml = other.manifest[v].toml
        BY <1>3, <1>5
    <2>2. ASSUME NEW v \in vs PROVE \E w \in ws : wd.manifest[w].toml = other.manifest[v].toml
        BY <1>3, <1>5
    <2> QED
        BY <2>1, <2>2 DEF TomlsOf
<1>7. LocksOf(wd, ws) = LocksOf(other, vs)
    <2>1. ASSUME NEW w \in ws PROVE \E v \in vs : wd.manifest[w].lock = other.manifest[v].lock
        BY <1>4, <1>5
    <2>2. ASSUME NEW v \in vs PROVE \E w \in ws : wd.manifest[w].lock = other.manifest[v].lock
        BY <1>4, <1>5
    <2> QED
        BY <2>1, <2>2 DEF LocksOf
<1> QED
    BY <1>2, <1>6, <1>7

\* The inputs, put together as input_hash puts them.
LEMMA InputsOf ==
    ASSUME NEW wd, Root \in Reachable(wd)
    PROVE  Inputs(wd) = [trees |-> {Tree(wd, Root)} \cup TreesOf(wd, Reachable(wd) \ {Root}),
                         tomls |-> TomlsOf(wd, WorkspacesIn(wd)),
                         locks |-> LocksOf(wd, WorkspacesIn(wd))]
<1>1. {Tree(wd, d) : d \in Reachable(wd)} = {Tree(wd, Root)} \cup TreesOf(wd, Reachable(wd) \ {Root})
    BY DEF TreesOf
<1> QED
    BY <1>1 DEF Inputs, TomlsOf, LocksOf

LEMMA SameHashSameInputs ==
    ASSUME NEW h, NEW wd, NEW other, HashOf(h, wd), HashOf(h, other)
    PROVE  /\ Understood(wd) /\ Understood(other) => Inputs(wd) = Inputs(other)
           /\ h.kind = "unresolved" => Tree(wd, Root) = Tree(other, Root)
           /\ Root \in wd.present => (Usable(wd, Root) <=> Usable(other, Root))
<1>1. Root \in Reachable(wd) /\ Root \in Reachable(other)
    BY CratesAssumption, ReachableIsLeast DEF Closed
<1>2. ASSUME Understood(wd), Understood(other) PROVE Inputs(wd) = Inputs(other)
    <2>1. Usable(wd, Root) /\ Usable(other, Root)
        BY <1>1, <1>2 DEF Understood
    <2>2. /\ h = [kind |-> "resolved", root |-> Tree(wd, Root),
                  in |-> Ingredients(wd, Reachable(wd) \ {Root}, WorkspacesIn(wd))]
          /\ h = [kind |-> "resolved", root |-> Tree(other, Root),
                  in |-> Ingredients(other, Reachable(other) \ {Root}, WorkspacesIn(other))]
        BY <2>1 DEF HashOf, Usable
    <2>3. /\ Tree(wd, Root) = Tree(other, Root)
          /\ Ingredients(wd, Reachable(wd) \ {Root}, WorkspacesIn(wd)) =
                Ingredients(other, Reachable(other) \ {Root}, WorkspacesIn(other))
        BY <2>2
    <2>4. /\ TreesOf(wd, Reachable(wd) \ {Root}) = TreesOf(other, Reachable(other) \ {Root})
          /\ TomlsOf(wd, WorkspacesIn(wd)) = TomlsOf(other, WorkspacesIn(other))
          /\ LocksOf(wd, WorkspacesIn(wd)) = LocksOf(other, WorkspacesIn(other))
        BY <2>3, IngredientsSplit
    <2> QED
        BY <1>1, <2>3, <2>4, InputsOf
<1>3. h.kind = "unresolved" => Tree(wd, Root) = Tree(other, Root)
    BY DEF HashOf
<1>4. Root \in wd.present => (Usable(wd, Root) <=> Usable(other, Root))
    BY DEF HashOf, Usable
<1> QED
    BY <1>2, <1>3, <1>4

\* Two plannings that hash alike had alike all that the binary is built from,
\* whatever was edited between them, and a hash of the crate alone is never
\* taken for one of its closure (cargo_install.rs:111-131, issue #78).
THEOREM UnmovedSourcesAreSame == Spec => []UnmovedMeansSame
<1>1. Inductive => UnmovedMeansSame
    BY SameHashSameInputs DEF UnmovedMeansSame, Inductive, Still
<1> QED
    BY <1>1, InductiveHolds, PTL
=============================================================================

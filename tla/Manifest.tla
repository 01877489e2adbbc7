------------------------------- MODULE Manifest -------------------------------
(***************************************************************************)
(* From repolith.toml to registered actions: what the manifest validator   *)
(* accepts (repolith-core, manifest.rs), what the factory makes of it      *)
(* (repolith-cli, factory.rs) and what the CLI settles before it plans     *)
(* (main.rs).  The loops over nodes and entries are the steps.             *)
(*                                                                         *)
(* A text is the set of things about it that a check looks for; an option  *)
(* is a set of at most one value.  A node's id also has its parts, between *)
(* `::`, since the keys of the cache are made of them.                     *)
(***************************************************************************)
EXTENDS Namespaced

CONSTANTS Manifests,  \* the manifests read
          Prefixes,   \* what NamespacedCache is made with, in parts
          Filters     \* what `--force` is given: options of id parts

Kinds    == {"git-clone", "cargo-install", "docker", "repolith"}
Text     == SUBSET {"empty", "dash", "control", "comma", "at", "charset", "absolute", "parent"}
NodeId   == [parts : Seq(STRING), marks : SUBSET {"empty", "separator", "control", "dots"}]
Url      == [scheme : {"rfc", "scp", "other"},
             marks : SUBSET {"empty", "control", "dash", "unparsable", "noHost",
                             "userDash", "hostDash", "segmentDash"}]
Option(S) == {o \in SUBSET S : \A x, y \in o : x = y}

\* One shape for the four kinds: a field a kind does not have is empty.
Entry    == [kind : Kinds, crate : Option(Text), package : Option(Text),
             profile : Option(Text), features : SUBSET Text, tag : Option(Text),
             dockerfile : Option(Text), context : Option(Text), manifest : Option(Text)]
NodeEntry == [id : NodeId, git : Option(Url), path : Option({"path"}), actions : Seq(Entry)]

\* A version is its numbers, and what follows them.
Version  == [numbers : Seq(Nat), suffix : {"none", "pre", "build"}]
Document == [schema : Version, nodes : Seq(NodeEntry)]

ASSUME ManifestsAssumption == Manifests \subseteq Document
ASSUME PrefixesAssumption  == Prefixes \subseteq Seq(STRING)

VARIABLES
    manifest,
    phase,     \* "parse", "validate", "build", "cache", "force", "ready" or "refused"
    node,      \* the node the loop is at
    entry,     \* and, in the factory, its entry
    seen,      \* ids validated so far
    built,     \* the actions made so far
    why,       \* what was refused
    forced     \* the ids `--force` selects

vars == <<manifest, phase, node, entry, seen, built, why, forced>>

-----------------------------------------------------------------------------
(* validate: one operator per check.                                       *)

\* "0.1" is read as 0.1.0; what a build suffix hides is appended to it.
SchemaOk(v) ==
    \/ v.suffix = "none"  /\ v.numbers = <<0, 1>>
    \/ v.suffix = "build" /\ Len(v.numbers) = 3 /\ v.numbers[1] = 0 /\ v.numbers[2] = 1

\* Slip: only what makes a bad directory name is looked for.
IdSafeButParts(id) == id.marks = {}

IdSafe(id) == id.marks = {} /\ Len(id.parts) = 1

UrlOk(u) ==
    /\ u.marks \cap {"empty", "control", "dash", "hostDash", "segmentDash"} = {}
    /\ \/ u.scheme = "rfc" /\ u.marks \cap {"unparsable", "userDash"} = {}
       \/ u.scheme = "scp" /\ "noHost" \notin u.marks

Lacks(o, bad) == \A t \in o : t \cap bad = {}

CargoOk(e) ==
    /\ Lacks(e.crate, {"dash", "comma"})
    /\ Lacks(e.package, {"dash", "empty", "at"})
    /\ Lacks(e.profile, {"dash", "empty", "charset"})
    /\ Lacks(e.features, {"dash", "comma"})

TagOk(o)       == Lacks(o, {"empty", "dash", "charset"})
ContainedOk(o) == Lacks(o, {"empty", "control", "dash", "absolute", "parent"})

\* Slip: the checkout a docker action builds in is taken for granted.
EntryOkAnyPath(n, e) ==
    \/ e.kind \in {"git-clone", "repolith"}
    \/ e.kind = "cargo-install" /\ CargoOk(e)
    \/ e.kind = "docker" /\ TagOk(e.tag) /\ ContainedOk(e.dockerfile) /\ ContainedOk(e.context)

EntryOk(n, e) ==
    \/ e.kind = "git-clone"
    \/ e.kind = "cargo-install" /\ CargoOk(e)
    \/ /\ e.kind = "docker"
       /\ TagOk(e.tag) /\ ContainedOk(e.dockerfile) /\ ContainedOk(e.context)
       /\ n.path # {}
    \/ e.kind = "repolith" /\ ContainedOk(e.manifest) /\ n.path # {}

Fine == "fine"

\* The first complaint about a node, in the order of the checks.
Complaint(n) ==
    IF ~IdSafe(n.id)                    THEN "InvalidArg"
    ELSE IF n.id \in seen               THEN "DuplicateNodeId"
    ELSE IF n.git = {} /\ n.path = {}   THEN "NodeMissingSource"
    ELSE IF \E u \in n.git : ~UrlOk(u)  THEN "InvalidUrl"
    ELSE IF \E i \in DOMAIN n.actions : ~EntryOk(n, n.actions[i]) THEN "InvalidArg"
    ELSE Fine

-----------------------------------------------------------------------------
(* Ids: node, kind and place in the node, between `::`.                    *)

KeyOf(id, kind, i) == id.parts \o <<kind, i - 1>>

Positions(m) ==
    UNION {{<<n, i>> : i \in DOMAIN m.nodes[n].actions} : n \in DOMAIN m.nodes}

IdAt(m, p) == KeyOf(m.nodes[p[1]].id, m.nodes[p[1]].actions[p[2]].kind, p[2])

\* Containment of texts, as far as whole names and kinds go; the empty filter
\* is in every id.
Contains(id, filter) ==
    \E i \in 0..(Len(id) - 1 - Len(filter)) :
        \A j \in DOMAIN filter : id[i + j] = filter[j]

-----------------------------------------------------------------------------
Init ==
    /\ manifest \in Manifests
    /\ phase = "parse"
    /\ node = 1
    /\ entry = 1
    /\ seen = {}
    /\ built = {}
    /\ why = "none"
    /\ forced = {}

Refuse(reason) ==
    /\ phase' = "refused"
    /\ why' = reason
    /\ UNCHANGED <<manifest, node, entry, seen, built, forced>>

Goes(next) ==
    /\ phase' = next
    /\ node' = 1
    /\ entry' = 1
    /\ UNCHANGED <<manifest, seen, built, why, forced>>

\* load_manifest: the file may be unreadable, or no manifest at all.
Unreadable == phase = "parse" /\ Refuse("Toml")

CheckSchema ==
    /\ phase = "parse"
    /\ IF SchemaOk(manifest.schema) THEN Goes("validate") ELSE Refuse("SchemaMismatch")

AtNode == node \in DOMAIN manifest.nodes
Node   == manifest.nodes[node]

CheckNode ==
    /\ phase = "validate" /\ AtNode
    /\ Complaint(Node) = Fine
    /\ seen' = seen \cup {Node.id}
    /\ node' = node + 1
    /\ UNCHANGED <<manifest, phase, entry, built, why, forced>>

NodeRefused ==
    /\ phase = "validate" /\ AtNode
    /\ Complaint(Node) # Fine
    /\ Refuse(Complaint(Node))

Accepted == phase = "validate" /\ ~AtNode /\ Goes("build")

-----------------------------------------------------------------------------
(* build_actions_from_manifest.                                            *)

\* What an action needs of its node.
Buildable(n, kind) ==
    \/ kind = "git-clone" /\ n.git # {}
    \/ kind = "cargo-install" /\ (n.path # {} \/ n.git # {})
    \/ kind \in {"docker", "repolith"} /\ n.path # {}

\* `path` wins over `git` for cargo, and names the checkout of the others; a
\* clone without one goes to a directory named for its node.
SourceOf(n, kind) ==
    IF n.path # {} THEN "path" ELSE IF kind = "git-clone" THEN "named for the node" ELSE "git"

\* Slip: `prev_id` outlives the node.
DepsAcrossNodes(m, n, i) ==
    LET Latest(c) == \A d \in built :
            d.at[1] < c.at[1] \/ (d.at[1] = c.at[1] /\ d.at[2] <= c.at[2])
    IN  {b.id : b \in {c \in built : Latest(c)}}

\* An action depends on the one before it in its node.
DepsAt(m, n, i) == {IdAt(m, <<n, j>>) : j \in {i - 1} \cap DOMAIN m.nodes[n].actions}

AtEntry == AtNode /\ entry \in DOMAIN Node.actions
Kind    == Node.actions[entry].kind

BuildEntry ==
    /\ phase = "build" /\ AtEntry
    /\ Buildable(Node, Kind)
    /\ built' = built \cup {[at |-> <<node, entry>>, id |-> KeyOf(Node.id, Kind, entry),
                             deps |-> DepsAt(manifest, node, entry), from |-> SourceOf(Node, Kind)]}
    /\ entry' = entry + 1
    /\ UNCHANGED <<manifest, phase, node, seen, why, forced>>

EntryRefused ==
    /\ phase = "build" /\ AtEntry
    /\ ~Buildable(Node, Kind)
    /\ Refuse("factory")

NextNode ==
    /\ phase = "build" /\ AtNode /\ ~AtEntry
    /\ node' = node + 1
    /\ entry' = 1
    /\ UNCHANGED <<manifest, phase, seen, built, why, forced>>

Built == phase = "build" /\ ~AtNode /\ Goes("cache")

\* open_cache.
OpenCache   == phase = "cache" /\ Goes("force")
NoCache     == phase = "cache" /\ Refuse("cache")

\* resolve_forced: no `--force` is no id, a filter is the ids that contain it.
Resolved(filter) == {b.id : b \in {c \in built : \E f \in filter : Contains(c.id, f)}}

ResolveForced ==
    /\ phase = "force"
    /\ \E filter \in Filters :
         IF Resolved(filter) = {} /\ \E f \in filter : f # <<>>
         THEN Refuse("no action matches")
         ELSE /\ forced' = Resolved(filter)
              /\ phase' = "ready"
              /\ UNCHANGED <<manifest, node, entry, seen, built, why>>

Next ==
    \/ Unreadable \/ CheckSchema \/ CheckNode \/ NodeRefused \/ Accepted
    \/ BuildEntry \/ EntryRefused \/ NextNode \/ Built
    \/ OpenCache \/ NoCache \/ ResolveForced

Spec == Init /\ [][Next]_vars

-----------------------------------------------------------------------------
(* Properties.                                                             *)

Validated == phase \in {"build", "cache", "force", "ready"}

\* The nodes before the k-th are what the validator lets through.
SoundUpTo(k) ==
    \A n \in DOMAIN manifest.nodes : n < k =>
        /\ IdSafe(manifest.nodes[n].id)
        /\ manifest.nodes[n].git # {} \/ manifest.nodes[n].path # {}
        /\ \A i \in DOMAIN manifest.nodes[n].actions :
             EntryOk(manifest.nodes[n], manifest.nodes[n].actions[i])
        /\ \A l \in DOMAIN manifest.nodes :
             l < n => manifest.nodes[l].id # manifest.nodes[n].id

Sound == SoundUpTo(Len(manifest.nodes) + 1)

\* Every variable has the shape the code gives it, and an action that is made
\* is the one its place in the manifest says.
TypeOK ==
    /\ manifest \in Document
    /\ phase \in {"parse", "validate", "build", "cache", "force", "ready", "refused"}
    /\ node \in Nat \ {0}
    /\ entry \in Nat \ {0}
    /\ \A b \in built :
         /\ b.at \in Positions(manifest)
         /\ b.id = IdAt(manifest, b.at)
         /\ b.deps = DepsAt(manifest, b.at[1], b.at[2])

\* What the loops have established so far: the inductive invariant.
Inductive ==
    /\ TypeOK
    /\ phase = "parse" => node = 1 /\ seen = {}
    /\ phase = "validate" =>
         /\ seen = {manifest.nodes[n].id : n \in {l \in DOMAIN manifest.nodes : l < node}}
         /\ SoundUpTo(node)
    /\ Validated \/ why = "factory" => Sound
    /\ built # {} => Sound
    /\ \A b \in built : b.at[2] > 1 => \E c \in built : c.at = <<b.at[1], b.at[2] - 1>>
    /\ phase = "build" /\ entry > 1 => \E c \in built : c.at = <<node, entry - 1>>
    /\ phase # "refused" => why = "none"
    /\ why = "factory" => AtEntry /\ ~Buildable(Node, Kind)

\* Of an accepted manifest, two entries never share a key of the cache, and
\* neither do two stacks that keep their records under different prefixes
\* (manifest.rs:629-646, namespaced.rs:4-7).
KeysApart ==
    Validated =>
        \A p, q \in Prefixes : \A x, y \in Positions(manifest) :
            Prefixed(p, IdAt(manifest, x)) = Prefixed(q, IdAt(manifest, y)) => p = q /\ x = y

\* What the factory registers, the planner can order: every dependency is an
\* action of the same node, made before, so there is no unknown one and no
\* cycle (factory.rs:83-92); and no two registered actions have one id.
GraphPlannable ==
    /\ \A b \in built : \A d \in b.deps :
         \E c \in built : c.id = d /\ c.at[1] = b.at[1] /\ c.at[2] < b.at[2]
    /\ \A b, c \in built : b.id = c.id => b.at = c.at

\* The validator guarantees what the factory requires (factory.rs:98-101),
\* except of a clone: of those it accepts one with nothing to clone.
FactoryTotal ==
    why = "factory" => Kind = "git-clone" /\ Node.git = {}
=============================================================================

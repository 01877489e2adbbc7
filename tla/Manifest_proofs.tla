---------------------------- MODULE Manifest_proofs ----------------------------
(***************************************************************************)
(* Proofs about Manifest, for every manifest: what is accepted gives every *)
(* action a key of its own, what is registered can be planned, and the     *)
(* factory refuses no accepted manifest but for a clone without a URL.     *)
(***************************************************************************)
EXTENDS Manifest, SequenceTheorems, TLAPS

\* Of keys under prefixes, as in Machines_proofs.
LEMMA PrefixesApart ==
    ASSUME NEW S, NEW p \in Seq(S), NEW q \in Seq(S), NEW x \in Seq(S), NEW y \in Seq(S),
           Len(x) = Len(y), Prefixed(p, x) = Prefixed(q, y)
    PROVE  p = q /\ x = y
<1>1. p \o x = q \o y
    BY DEF Prefixed
<1>2. Len(p) = Len(q)
    <2>1. Len(p \o x) = Len(p) + Len(x) /\ Len(q \o y) = Len(q) + Len(y)
        OBVIOUS
    <2> QED
        BY <1>1, <2>1
<1>3. \A i \in 1..Len(p) : p[i] = q[i]
    <2>1. \A i \in 1..Len(p) : (p \o x)[i] = p[i] /\ (q \o y)[i] = q[i]
        BY <1>2
    <2> QED
        BY <1>1, <2>1
<1>4. \A i \in 1..Len(x) : x[i] = y[i]
    <2>1. \A i \in 1..Len(x) : (p \o x)[Len(p) + i] = x[i] /\ (q \o y)[Len(p) + i] = y[i]
        BY <1>2
    <2> QED
        BY <1>1, <2>1
<1>5. p = q
    BY <1>2, <1>3
<1>6. x = y
    BY <1>4
<1> QED
    BY <1>5, <1>6

\* A position names a node and an entry of it.
LEMMA PositionParts ==
    ASSUME NEW m, NEW x \in Positions(m)
    PROVE  /\ x = <<x[1], x[2]>>
           /\ x[1] \in DOMAIN m.nodes
           /\ x[2] \in DOMAIN m.nodes[x[1]].actions
BY DEF Positions

LEMMA PositionOf ==
    ASSUME NEW m, NEW n \in DOMAIN m.nodes, NEW i \in DOMAIN m.nodes[n].actions
    PROVE  <<n, i>> \in Positions(m)
BY DEF Positions

\* What a position refers to has its type.
LEMMA PositionTypes ==
    ASSUME NEW m \in Document, NEW x \in Positions(m)
    PROVE  /\ x[1] \in 1..Len(m.nodes)
           /\ m.nodes[x[1]] \in NodeEntry
           /\ m.nodes[x[1]].id \in NodeId
           /\ x[2] \in 1..Len(m.nodes[x[1]].actions)
           /\ m.nodes[x[1]].actions[x[2]] \in Entry
           /\ m.nodes[x[1]].actions[x[2]].kind \in Kinds
<1>1. m.nodes \in Seq(NodeEntry)
    BY DEF Document
<1>2. x[1] \in 1..Len(m.nodes) /\ m.nodes[x[1]] \in NodeEntry
    BY <1>1, PositionParts
<1>3. m.nodes[x[1]].id \in NodeId /\ m.nodes[x[1]].actions \in Seq(Entry)
    BY <1>2 DEF NodeEntry
<1>4. x[2] \in 1..Len(m.nodes[x[1]].actions) /\ m.nodes[x[1]].actions[x[2]] \in Entry
    BY <1>3, PositionParts
<1>5. m.nodes[x[1]].actions[x[2]].kind \in Kinds
    BY <1>4 DEF Entry
<1> QED
    BY <1>2, <1>3, <1>4, <1>5

LEMMA ConcatIsSequence ==
    ASSUME NEW S, NEW s \in Seq(S), NEW t \in Seq(S), Len(s) = 1, Len(t) = 2
    PROVE  /\ s \o t \in Seq(S) /\ Len(s \o t) = 3
           /\ (s \o t)[1] = s[1] /\ (s \o t)[3] = t[2]
<1>1. s \o t \in Seq(S) /\ Len(s \o t) = Len(s) + Len(t)
    BY ConcatProperties
<1>2. \A i \in 1..Len(s) + Len(t) :
          (s \o t)[i] = IF i <= Len(s) THEN s[i] ELSE t[i - Len(s)]
    BY ConcatProperties
<1>3. Len(s) + Len(t) = 3 /\ 1 <= Len(s) /\ ~(3 <= Len(s)) /\ 3 - Len(s) = 2
    OBVIOUS
<1>4. 1 \in 1..Len(s) + Len(t) /\ 3 \in 1..Len(s) + Len(t)
    BY <1>3
<1>5. (s \o t)[1] = s[1]
    BY <1>2, <1>3, <1>4
<1>6. (s \o t)[3] = t[2]
    BY <1>2, <1>3, <1>4
<1> QED
    BY <1>1, <1>3, <1>5, <1>6

LEMMA PairIsSequence ==
    ASSUME NEW S, NEW a \in S, NEW b \in S
    PROVE  /\ <<a, b>> \in Seq(S)
           /\ Len(<<a, b>>) = 2 /\ <<a, b>>[1] = a /\ <<a, b>>[2] = b
OBVIOUS

\* The key of a safe id has three parts, and is the key of no other.
LEMMA SafeKeys ==
    ASSUME NEW a \in NodeId, IdSafe(a), NEW k \in Kinds, NEW i \in Nat
    PROVE  /\ KeyOf(a, k, i) \in Seq(STRING \cup Kinds \cup Int)
           /\ Len(KeyOf(a, k, i)) = 3
           /\ KeyOf(a, k, i)[1] = a.parts[1]
           /\ KeyOf(a, k, i)[3] = i - 1
<1>1. a.parts \in Seq(STRING) /\ Len(a.parts) = 1
    BY DEF NodeId, IdSafe
<1>2. a.parts \in Seq(STRING \cup Kinds \cup Int)
    BY <1>1
<1>3. k \in STRING \cup Kinds \cup Int /\ i - 1 \in STRING \cup Kinds \cup Int
    <2>1. i - 1 \in Int
        OBVIOUS
    <2> QED
        BY <2>1
<1>4. <<k, i - 1>> \in Seq(STRING \cup Kinds \cup Int) /\ Len(<<k, i - 1>>) = 2 /\ <<k, i - 1>>[2] = i - 1
    BY <1>3, PairIsSequence
<1> QED
    BY <1>1, <1>2, <1>4, ConcatIsSequence DEF KeyOf

LEMMA SafeIdsBySinglePart ==
    ASSUME NEW a \in NodeId, NEW b \in NodeId, IdSafe(a), IdSafe(b), a.parts[1] = b.parts[1]
    PROVE  a = b
<1>1. a.parts \in Seq(STRING) /\ b.parts \in Seq(STRING)
    BY DEF NodeId
<1>2. Len(a.parts) = 1 /\ Len(b.parts) = 1 /\ a.marks = b.marks
    BY DEF IdSafe
<1>3. a.parts = b.parts
    BY <1>1, <1>2
<1> QED
    BY <1>2, <1>3 DEF NodeId

\* Sound nodes have keys apart, under any two prefixes.
LEMMA SoundKeysApart ==
    ASSUME manifest \in Document, Sound,
           NEW p \in Seq(STRING), NEW q \in Seq(STRING),
           NEW x \in Positions(manifest), NEW y \in Positions(manifest),
           Prefixed(p, IdAt(manifest, x)) = Prefixed(q, IdAt(manifest, y))
    PROVE  p = q /\ x = y
<1> DEFINE a == manifest.nodes[x[1]].id
           b == manifest.nodes[y[1]].id
           S == STRING \cup Kinds \cup Int
<1>1. /\ a \in NodeId /\ b \in NodeId
      /\ x[1] \in Nat /\ y[1] \in Nat /\ x[2] \in Nat /\ y[2] \in Nat
      /\ x[1] \in DOMAIN manifest.nodes /\ y[1] \in DOMAIN manifest.nodes
      /\ x[1] < Len(manifest.nodes) + 1 /\ y[1] < Len(manifest.nodes) + 1
      /\ manifest.nodes[x[1]].actions[x[2]].kind \in Kinds
      /\ manifest.nodes[y[1]].actions[y[2]].kind \in Kinds
    <2>1. manifest.nodes \in Seq(NodeEntry)
        BY DEF Document
    <2> QED
        BY <2>1, PositionTypes, PositionParts
<1>2. IdSafe(a) /\ IdSafe(b)
    BY <1>1 DEF Sound, SoundUpTo
<1>3. /\ IdAt(manifest, x) \in Seq(S) /\ Len(IdAt(manifest, x)) = 3
      /\ IdAt(manifest, x)[1] = a.parts[1] /\ IdAt(manifest, x)[3] = x[2] - 1
    BY <1>1, <1>2, SafeKeys DEF IdAt
<1>4. /\ IdAt(manifest, y) \in Seq(S) /\ Len(IdAt(manifest, y)) = 3
      /\ IdAt(manifest, y)[1] = b.parts[1] /\ IdAt(manifest, y)[3] = y[2] - 1
    BY <1>1, <1>2, SafeKeys DEF IdAt
<1>5. p \in Seq(S) /\ q \in Seq(S)
    OBVIOUS
<1>6. p = q /\ IdAt(manifest, x) = IdAt(manifest, y)
    BY <1>3, <1>4, <1>5, PrefixesApart
<1>7. x[2] = y[2]
    BY <1>1, <1>3, <1>4, <1>6
<1>8. a = b
    BY <1>1, <1>2, <1>3, <1>4, <1>6, SafeIdsBySinglePart
<1>9. x[1] = y[1]
    BY <1>1, <1>8 DEF Sound, SoundUpTo
<1> QED
    BY <1>6, <1>7, <1>9, PositionParts

LEMMA SoundIdsApart ==
    ASSUME manifest \in Document, Sound,
           NEW x \in Positions(manifest), NEW y \in Positions(manifest),
           IdAt(manifest, x) = IdAt(manifest, y)
    PROVE  x = y
<1>1. <<>> \in Seq(STRING)
    OBVIOUS
<1>2. Prefixed(<<>>, IdAt(manifest, x)) = Prefixed(<<>>, IdAt(manifest, y))
    OBVIOUS
<1> QED
    BY <1>1, <1>2, SoundKeysApart

-----------------------------------------------------------------------------
(* The invariant.                                                          *)

LEMMA InitInductive == Init => Inductive
<1> SUFFICES ASSUME Init PROVE Inductive
    OBVIOUS
<1>1. TypeOK
    BY ManifestsAssumption DEF Init, TypeOK
<1> QED
    BY <1>1 DEF Init, Inductive, Validated

\* A node without a complaint extends what is sound by one.
LEMMA CheckedIsSound ==
    ASSUME Inductive, phase = "validate", AtNode, Complaint(Node) = Fine
    PROVE  SoundUpTo(node + 1)
<1>1. /\ IdSafe(Node.id) /\ Node.id \notin seen
      /\ Node.git # {} \/ Node.path # {}
      /\ \A i \in DOMAIN Node.actions : EntryOk(Node, Node.actions[i])
    BY DEF Complaint, Fine
<1>2. \A l \in DOMAIN manifest.nodes : l < node => manifest.nodes[l].id # Node.id
    BY <1>1 DEF Inductive
<1>3. SoundUpTo(node)
    BY DEF Inductive
<1>4. DOMAIN manifest.nodes \subseteq Nat /\ node \in Nat
    <2>1. manifest.nodes \in Seq(NodeEntry)
        BY DEF Inductive, TypeOK, Document
    <2> QED
        BY <2>1 DEF Inductive, TypeOK
<1> SUFFICES ASSUME NEW n \in DOMAIN manifest.nodes, n < node + 1
             PROVE  /\ IdSafe(manifest.nodes[n].id)
                    /\ manifest.nodes[n].git # {} \/ manifest.nodes[n].path # {}
                    /\ \A i \in DOMAIN manifest.nodes[n].actions :
                         EntryOk(manifest.nodes[n], manifest.nodes[n].actions[i])
                    /\ \A l \in DOMAIN manifest.nodes :
                         l < n => manifest.nodes[l].id # manifest.nodes[n].id
    BY DEF SoundUpTo
<1>5. CASE n < node
    BY <1>3, <1>5 DEF SoundUpTo
<1>6. CASE n = node
    BY <1>1, <1>2, <1>6 DEF Node
<1> QED
    BY <1>4, <1>5, <1>6

\* What an accepted node has, the factory finds, except what a clone needs.
LEMMA SoundIsBuildable ==
    ASSUME Inductive, Sound, AtEntry, ~Buildable(Node, Kind)
    PROVE  Kind = "git-clone" /\ Node.git = {}
<1>1. manifest.nodes \in Seq(NodeEntry) /\ node \in DOMAIN manifest.nodes
    BY DEF Inductive, TypeOK, Document, AtEntry, AtNode
<1>2. node < Len(manifest.nodes) + 1
    BY <1>1
<1>3. Node \in NodeEntry
    BY <1>1 DEF Node
<1>4. entry \in DOMAIN Node.actions /\ Node.actions[entry] \in Entry
    BY <1>3 DEF NodeEntry, AtEntry
<1>5. Kind \in Kinds
    BY <1>4 DEF Kind, Entry
<1>6. Node.git # {} \/ Node.path # {}
    BY <1>1, <1>2 DEF Sound, SoundUpTo, Node
<1>7. EntryOk(Node, Node.actions[entry])
    BY <1>1, <1>2, <1>4 DEF Sound, SoundUpTo, Node
<1>8. Kind \in {"docker", "repolith"} => Node.path # {}
    BY <1>7 DEF EntryOk, Kind
<1> QED
    BY <1>5, <1>6, <1>8 DEF Buildable, Kinds

LEMMA NextInductive == Inductive /\ [Next]_vars => Inductive'
<1> SUFFICES ASSUME Inductive, [Next]_vars PROVE Inductive'
    OBVIOUS
<1> USE DEF Refuse, Goes
<1>0. /\ manifest.nodes \in Seq(NodeEntry) /\ Len(manifest.nodes) \in Nat
      /\ node \in Nat \ {0} /\ entry \in Nat \ {0}
      /\ DOMAIN manifest.nodes = 1..Len(manifest.nodes)
    BY DEF Inductive, TypeOK, Document
<1>1. CASE Unreadable
    BY <1>1 DEF Unreadable, Inductive, TypeOK, Validated, Sound, SoundUpTo,
                AtEntry, AtNode, Node, Kind
<1>2. CASE CheckSchema
    <2>1. CASE Goes("validate")
        <3>1. {l \in DOMAIN manifest.nodes : l < 1} = {}
            BY <1>0
        <3>2. seen' = {manifest.nodes[n].id : n \in {l \in DOMAIN manifest.nodes : l < 1}}
            BY <1>2, <2>1, <3>1 DEF CheckSchema, Inductive
        <3>3. SoundUpTo(1)'
            BY <1>0, <2>1 DEF SoundUpTo
        <3>4. built' # {} => Sound'
            BY <2>1 DEF Inductive, Sound, SoundUpTo
        <3>5. TypeOK'
            BY <2>1 DEF Inductive, TypeOK
        <3> QED
            BY <1>2, <2>1, <3>2, <3>3, <3>4, <3>5 DEF CheckSchema, Inductive, Validated
    <2>2. CASE Refuse("SchemaMismatch")
        BY <1>2, <2>2 DEF CheckSchema, Inductive, TypeOK, Validated, Sound, SoundUpTo,
            AtEntry, AtNode, Node, Kind
    <2> QED
        BY <1>2, <2>1, <2>2 DEF CheckSchema
<1>3. CASE CheckNode
    <2>1. SoundUpTo(node + 1)
        BY <1>3, CheckedIsSound DEF CheckNode
    <2>2. SoundUpTo(node)'
        BY <1>3, <2>1 DEF CheckNode, SoundUpTo
    <2>3. seen' = {manifest.nodes[n].id : n \in {l \in DOMAIN manifest.nodes : l < node'}}
        <3>1. {l \in DOMAIN manifest.nodes : l < node + 1} =
                  {l \in DOMAIN manifest.nodes : l < node} \cup {node}
            BY <1>0, <1>3 DEF CheckNode, AtNode
        <3> QED
            BY <1>3, <3>1 DEF CheckNode, Inductive, Node
    <2>4. TypeOK'
        BY <1>0, <1>3 DEF CheckNode, Inductive, TypeOK
    <2>5. built' # {} => Sound'
        BY <1>3 DEF CheckNode, Inductive, Sound, SoundUpTo
    <2> QED
        BY <1>3, <2>2, <2>3, <2>4, <2>5 DEF CheckNode, Inductive, Validated
<1>4. CASE NodeRefused
    <2>1. Complaint(Node) # "factory"
        BY DEF Complaint, Fine
    <2> QED
        BY <1>4, <2>1 DEF NodeRefused, Inductive, TypeOK, Validated, Sound, SoundUpTo
<1>5. CASE Accepted
    <2>1. Sound
        BY <1>0, <1>5 DEF Accepted, AtNode, Inductive, Sound, SoundUpTo
    <2>2. Sound'
        BY <1>5, <2>1 DEF Accepted, Sound, SoundUpTo
    <2>3. TypeOK'
        BY <1>5 DEF Accepted, Inductive, TypeOK
    <2> QED
        BY <1>5, <2>2, <2>3, ~(1 > 1) DEF Accepted, Inductive, Validated
<1>6. CASE BuildEntry
    <2> DEFINE made == [at |-> <<node, entry>>, id |-> KeyOf(Node.id, Kind, entry),
                        deps |-> DepsAt(manifest, node, entry), from |-> SourceOf(Node, Kind)]
    <2>1. /\ phase = "build" /\ AtNode /\ entry \in DOMAIN Node.actions
          /\ built' = built \cup {made} /\ entry' = entry + 1
          /\ UNCHANGED <<manifest, phase, node, seen, why, forced>>
        BY <1>6 DEF BuildEntry, AtEntry
    <2>2. Sound'
        BY <2>1 DEF Inductive, Validated, Sound, SoundUpTo
    <2>3. made.at \in Positions(manifest)
        BY <2>1, PositionOf DEF AtNode, Node
    <2>4. made.id = IdAt(manifest, made.at)
        BY DEF IdAt, Node, Kind
    <2>5. TypeOK'
        BY <1>0, <2>1, <2>3, <2>4 DEF Inductive, TypeOK
    <2>6. made \in built' /\ built \subseteq built'
        BY <2>1
    <2>7. \A b \in built' : b.at[2] > 1 => \E c \in built' : c.at = <<b.at[1], b.at[2] - 1>>
        <3>1. made.at[2] > 1 => \E c \in built : c.at = <<made.at[1], made.at[2] - 1>>
            BY <2>1 DEF Inductive
        <3>2. \A b \in built : b.at[2] > 1 => \E c \in built : c.at = <<b.at[1], b.at[2] - 1>>
            BY DEF Inductive
        <3> QED
            BY <2>1, <2>6, <3>1, <3>2
    <2>8. \E c \in built' : c.at = <<node', entry' - 1>>
        <3>1. made.at = <<node', entry' - 1>>
            BY <1>0, <2>1
        <3> QED
            BY <2>6, <3>1
    <2> QED
        BY <2>1, <2>2, <2>5, <2>7, <2>8 DEF Inductive, Validated
<1>7. CASE EntryRefused
    <2>1. Sound /\ Sound'
        BY <1>7 DEF EntryRefused, Inductive, Validated, Sound, SoundUpTo
    <2>2. TypeOK'
        BY <1>7 DEF EntryRefused, Inductive, TypeOK
    <2>3. AtEntry' /\ ~Buildable(Node, Kind)'
        BY <1>7 DEF EntryRefused, AtEntry, AtNode, Node, Kind, Buildable
    <2> QED
        BY <1>7, <2>1, <2>2, <2>3 DEF EntryRefused, Inductive, Validated
<1>8. CASE NextNode
    <2>1. Sound'
        BY <1>8 DEF NextNode, Inductive, Validated, Sound, SoundUpTo
    <2>2. TypeOK'
        BY <1>0, <1>8 DEF NextNode, Inductive, TypeOK
    <2> QED
        BY <1>8, <2>1, <2>2, ~(1 > 1) DEF NextNode, Inductive, Validated
<1>9. CASE Built
    <2>1. Sound'
        BY <1>9 DEF Built, Inductive, Validated, Sound, SoundUpTo
    <2>2. TypeOK'
        BY <1>9 DEF Built, Inductive, TypeOK
    <2> QED
        BY <1>9, <2>1, <2>2 DEF Built, Inductive, Validated
<1>10. CASE OpenCache
    <2>1. Sound'
        BY <1>10 DEF OpenCache, Inductive, Validated, Sound, SoundUpTo
    <2>2. TypeOK'
        BY <1>10 DEF OpenCache, Inductive, TypeOK
    <2> QED
        BY <1>10, <2>1, <2>2 DEF OpenCache, Inductive, Validated
<1>11. CASE NoCache
    <2>1. Sound'
        BY <1>11 DEF NoCache, Inductive, Validated, Sound, SoundUpTo
    <2>2. TypeOK'
        BY <1>11 DEF NoCache, Inductive, TypeOK
    <2> QED
        BY <1>11, <2>1, <2>2 DEF NoCache, Inductive, Validated
<1>12. CASE ResolveForced
    <2>1. /\ phase = "force" /\ phase' \in {"ready", "refused"}
          /\ why' # "factory" /\ (phase' # "refused" => why' = why)
          /\ UNCHANGED <<manifest, node, entry, seen, built>>
        BY <1>12 DEF ResolveForced, Inductive
    <2>2. Sound'
        BY <2>1 DEF Inductive, Validated, Sound, SoundUpTo
    <2>3. TypeOK'
        BY <2>1 DEF Inductive, TypeOK
    <2> QED
        BY <2>1, <2>2, <2>3 DEF Inductive, Validated
<1>13. CASE UNCHANGED vars
    <2>1. TypeOK'
        BY <1>13 DEF vars, Inductive, TypeOK
    <2>2. (Validated \/ why = "factory" \/ built # {}) => Sound /\ Sound'
        BY <1>13 DEF vars, Inductive, Sound, SoundUpTo
    <2>3. why = "factory" => AtEntry' /\ ~Buildable(Node, Kind)'
        BY <1>13 DEF vars, Inductive, AtEntry, AtNode, Node, Kind, Buildable
    <2>4. SoundUpTo(node) => SoundUpTo(node)'
        BY <1>13 DEF vars, SoundUpTo
    <2> QED
        BY <1>13, <2>1, <2>2, <2>3, <2>4 DEF vars, Inductive, Validated
<1> QED
    BY <1>1, <1>2, <1>3, <1>4, <1>5, <1>6, <1>7, <1>8, <1>9, <1>10, <1>11, <1>12, <1>13 DEF Next

\* The loops of the validator and of the factory keep what they establish.
THEOREM ManifestInductive == Spec => []Inductive
<1> QED
    BY InitInductive, NextInductive, PTL DEF Spec

\* In every accepted manifest, under every prefix, each action has a key of
\* its own: records of different actions or namespaces never meet.
THEOREM EveryKeyApart == Spec => []KeysApart
<1>1. Inductive => KeysApart
    BY PrefixesAssumption, SoundKeysApart DEF Inductive, TypeOK, KeysApart
<1> QED
    BY <1>1, ManifestInductive, PTL

\* Whatever the manifest, the planner gets a graph it can order.
THEOREM EveryGraphPlannable == Spec => []GraphPlannable
<1>1. Inductive => GraphPlannable
    <2> SUFFICES ASSUME Inductive PROVE GraphPlannable
        OBVIOUS
    <2>1. \A b, c \in built : b.id = c.id => b.at = c.at
        BY SoundIdsApart DEF Inductive, TypeOK
    <2>2. ASSUME NEW b \in built, NEW d \in b.deps
          PROVE  \E c \in built : c.id = d /\ c.at[1] = b.at[1] /\ c.at[2] < b.at[2]
        <3>1. /\ manifest \in Document /\ b.at \in Positions(manifest)
              /\ d \in DepsAt(manifest, b.at[1], b.at[2])
            BY <2>2 DEF Inductive, TypeOK
        <3>2. b.at[2] \in Nat /\ b.at[2] > 0
            BY <3>1, PositionTypes
        <3>3. b.at[2] > 1 /\ d = IdAt(manifest, <<b.at[1], b.at[2] - 1>>)
            <4>1. PICK j \in {b.at[2] - 1} \cap DOMAIN manifest.nodes[b.at[1]].actions :
                      d = IdAt(manifest, <<b.at[1], j>>)
                BY <3>1 DEF DepsAt
            <4>2. manifest.nodes[b.at[1]] \in NodeEntry
                BY <3>1, PositionTypes
            <4>3. DOMAIN manifest.nodes[b.at[1]].actions \subseteq Nat \ {0}
                BY <4>2 DEF NodeEntry
            <4> QED
                BY <3>2, <4>1, <4>3
        <3>4. PICK c \in built : c.at = <<b.at[1], b.at[2] - 1>>
            BY <3>3 DEF Inductive
        <3>5. c.id = d
            BY <3>3, <3>4 DEF Inductive, TypeOK
        <3> QED
            BY <3>2, <3>4, <3>5
    <2> QED
        BY <2>1, <2>2 DEF GraphPlannable
<1> QED
    BY <1>1, ManifestInductive, PTL

\* The factory refuses an accepted manifest for a clone without a URL, and for
\* nothing else.
THEOREM FactoryRefusesOnlyClones == Spec => []FactoryTotal
<1>1. Inductive => FactoryTotal
    BY SoundIsBuildable DEF Inductive, FactoryTotal
<1> QED
    BY <1>1, ManifestInductive, PTL
=============================================================================

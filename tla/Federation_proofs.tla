--------------------------- MODULE Federation_proofs ---------------------------
(***************************************************************************)
(* Proofs about Federation, for every tree of manifests, pool and depth:   *)
(* the pool holds for the tree, a child stack runs inside its coordinator, *)
(* no lineage repeats a manifest or is too long, and a coordinator that is *)
(* done vouches for everything below it.                                   *)
(***************************************************************************)
EXTENDS Federation, SequenceTheorems, FiniteSetTheorems, WellFoundedInduction, TLAPS

-----------------------------------------------------------------------------
(* Lineages.                                                               *)

LEMMA StackFacts ==
    ASSUME NEW s \in Stacks
    PROVE  /\ s \in Seq(Coordinators)
           /\ Len(s) \in Nat /\ Len(s) <= MaxDepth
           /\ \A k \in 1..Len(s) : s[k] \in Entries(SubSeq(s, 1, k - 1))
  <1>1. PICK k \in 0..MaxDepth : s \in [1..k -> Coordinators]
    BY DEF Stacks
  <1>2. s \in Seq(Coordinators) /\ Len(s) = k
    BY <1>1
  <1>3. \A j \in 1..Len(s) : s[j] \in Entries(SubSeq(s, 1, j - 1))
    BY DEF Stacks
  <1> QED
    BY <1>1, <1>2, <1>3, BoundsAssumption

\* What makes a sequence of coordinators a lineage.
LEMMA IsStack ==
    ASSUME NEW s \in Seq(Coordinators), Len(s) <= MaxDepth,
           \A k \in 1..Len(s) : s[k] \in Entries(SubSeq(s, 1, k - 1))
    PROVE  s \in Stacks
  <1>1. s \in [1..Len(s) -> Coordinators] /\ Len(s) \in 0..MaxDepth
    BY BoundsAssumption
  <1> QED
    BY <1>1 DEF Stacks

LEMMA RootIsStack == <<>> \in Stacks /\ Len(<<>>) = 0
  <1>1. <<>> \in Seq(Coordinators) /\ Len(<<>>) = 0
    BY EmptySeq
  <1>2. \A k \in 1..Len(<<>>) : FALSE
    BY <1>1
  <1>3. Len(<<>>) <= MaxDepth
    BY <1>1, BoundsAssumption
  <1> QED
    BY <1>1, <1>2, <1>3, IsStack

\* A prefix of a prefix is a prefix.
LEMMA Prefixes ==
    ASSUME NEW s \in Seq(Coordinators), NEW k \in 0..Len(s), NEW j \in 0..k
    PROVE  /\ SubSeq(s, 1, k) \in Seq(Coordinators)
           /\ Len(SubSeq(s, 1, k)) = k
           /\ \A i \in 1..k : SubSeq(s, 1, k)[i] = s[i]
           /\ SubSeq(SubSeq(s, 1, k), 1, j) = SubSeq(s, 1, j)
  <1>1. \A n \in 0..Len(s) : /\ SubSeq(s, 1, n) \in Seq(Coordinators)
                            /\ Len(SubSeq(s, 1, n)) = n
                            /\ \A i \in 1..n : SubSeq(s, 1, n)[i] = s[i]
    OBVIOUS
  <1>2. j \in 0..Len(s)
    OBVIOUS
  <1>3. SubSeq(SubSeq(s, 1, k), 1, j) = SubSeq(s, 1, j)
    <2>1. CASE j = 0
      BY <2>1, SubSeqEmpty
    <2>2. CASE j # 0
      BY <1>1, <2>2, SubSeqOfSubSeq
    <2> QED
      BY <2>1, <2>2
  <1> QED
    BY <1>1, <1>3

\* A lineage but the root's is its parent's, with the coordinator that opened it.
LEMMA UpFacts ==
    ASSUME NEW s \in Stacks \ {<<>>}
    PROVE  /\ Len(s) \in Nat \ {0}
           /\ Up(s) \in Stacks /\ Len(Up(s)) = Len(s) - 1 /\ Up(s) # s
           /\ s[Len(s)] \in Coordinators /\ s[Len(s)] \in Entries(Up(s))
           /\ Child(Up(s), s[Len(s)]) = s
  <1>1. s \in Seq(Coordinators) /\ Len(s) \in Nat \ {0} /\ Len(s) <= MaxDepth
    BY StackFacts, EmptySeq
  <1>2. Up(s) \in Seq(Coordinators) /\ Len(Up(s)) = Len(s) - 1
        /\ \A i \in 1..(Len(s) - 1) : Up(s)[i] = s[i]
        /\ \A j \in 0..(Len(s) - 1) : SubSeq(Up(s), 1, j) = SubSeq(s, 1, j)
    <2> DEFINE n == Len(s) - 1
    <2>1. n \in 0..Len(s) /\ Up(s) = SubSeq(s, 1, n)
      BY <1>1 DEF Up
    <2> HIDE DEF n
    <2>2. \A j \in 0..n : SubSeq(SubSeq(s, 1, n), 1, j) = SubSeq(s, 1, j)
      BY <1>1, <2>1, Prefixes
    <2>3. /\ SubSeq(s, 1, n) \in Seq(Coordinators) /\ Len(SubSeq(s, 1, n)) = n
          /\ \A i \in 1..n : SubSeq(s, 1, n)[i] = s[i]
      BY <1>1, <2>1, Prefixes
    <2> QED
      BY <2>1, <2>2, <2>3 DEF n
  <1>3. Up(s) \in Stacks
    <2>1. ASSUME NEW k \in 1..Len(Up(s)) PROVE Up(s)[k] \in Entries(SubSeq(Up(s), 1, k - 1))
      <3>1. k \in 1..Len(s) /\ k \in 1..(Len(s) - 1) /\ k - 1 \in 0..(Len(s) - 1)
        BY <1>1, <1>2
      <3>2. s[k] \in Entries(SubSeq(s, 1, k - 1))
        BY <3>1, StackFacts
      <3> QED
        BY <1>2, <3>1, <3>2
    <2> QED
      BY <1>1, <1>2, <2>1, IsStack, BoundsAssumption
  <1>4. s[Len(s)] \in Coordinators /\ s[Len(s)] \in Entries(Up(s))
    BY <1>1, StackFacts DEF Up
  <1>5. Append(Up(s), s[Len(s)]) = s
    BY <1>1, <1>2, <1>4
  <1> QED
    BY <1>1, <1>2, <1>3, <1>4, <1>5 DEF Child

LEMMA ChildFacts ==
    ASSUME NEW s \in Stacks, NEW c \in Coordinators
    PROVE  /\ Child(s, c) \in Seq(Coordinators) /\ Child(s, c) # <<>>
           /\ Len(Child(s, c)) = Len(s) + 1
           /\ Up(Child(s, c)) = s /\ Child(s, c) # s
           /\ Child(s, c)[Len(Child(s, c))] = c
           /\ ManifestAt(Child(s, c)) = ChildManifest[c]
           /\ Above(Child(s, c)) = Above(s) \cup {Child(s, c)}
           /\ c \in Entries(s) /\ Len(s) < MaxDepth => Child(s, c) \in Stacks
  <1> DEFINE t == Append(s, c)
  <1>1. s \in Seq(Coordinators) /\ Len(s) \in Nat
    BY StackFacts
  <1>2. /\ t \in Seq(Coordinators) /\ t # <<>> /\ Len(t) = Len(s) + 1
        /\ \A i \in 1..Len(s) : t[i] = s[i]
        /\ t[Len(t)] = c
    BY <1>1, AppendProperties
  <1> HIDE DEF t
  <1>3. ASSUME NEW k \in 0..Len(s) PROVE SubSeq(t, 1, k) = SubSeq(s, 1, k)
    <2>1. /\ SubSeq(t, 1, k) \in Seq(Coordinators) /\ Len(SubSeq(t, 1, k)) = k
          /\ \A i \in 1..k : SubSeq(t, 1, k)[i] = t[i]
      BY <1>1, <1>2, Prefixes
    <2>2. /\ SubSeq(s, 1, k) \in Seq(Coordinators) /\ Len(SubSeq(s, 1, k)) = k
          /\ \A i \in 1..k : SubSeq(s, 1, k)[i] = s[i]
      BY <1>1, Prefixes
    <2> QED
      BY <1>1, <1>2, <2>1, <2>2
  <1>4. SubSeq(s, 1, Len(s)) = s /\ SubSeq(t, 1, Len(t)) = t
    BY <1>1, <1>2, SubSeqFull
  <1>5. Up(t) = s
    BY <1>1, <1>2, <1>3, <1>4 DEF Up
  <1>6. Above(t) = Above(s) \cup {t}
    <2>1. \A k : k \in 0..Len(t) <=> k \in 0..Len(s) \/ k = Len(t)
      BY <1>1, <1>2
    <2> QED
      BY <1>3, <1>4, <2>1 DEF Above
  <1>7. ASSUME c \in Entries(s), Len(s) < MaxDepth PROVE t \in Stacks
    <2>1. ASSUME NEW k \in 1..Len(t) PROVE t[k] \in Entries(SubSeq(t, 1, k - 1))
      <3>1. CASE k = Len(t)
        <4>1. k - 1 = Len(s) /\ t[k] = c
          BY <1>1, <1>2, <3>1
        <4>2. SubSeq(t, 1, k - 1) = s
          BY <1>1, <1>3, <1>4, <4>1
        <4> QED
          BY <1>7, <4>1, <4>2
      <3>2. CASE k < Len(t)
        <4>1. k \in 1..Len(s) /\ k - 1 \in 0..Len(s)
          BY <1>1, <1>2, <3>2
        <4>2. t[k] = s[k] /\ SubSeq(t, 1, k - 1) = SubSeq(s, 1, k - 1)
          BY <1>2, <1>3, <4>1
        <4> QED
          BY <4>1, <4>2, StackFacts
      <3> QED
        BY <1>1, <1>2, <3>1, <3>2
    <2> QED
      BY <1>1, <1>2, <1>7, <2>1, IsStack, BoundsAssumption
  <1>8. ManifestAt(t) = ChildManifest[c]
    BY <1>2 DEF ManifestAt
  <1>9. t # s
    BY <1>1, <1>2
  <1> QED
    BY <1>2, <1>5, <1>6, <1>7, <1>8, <1>9 DEF Child, t
LEMMA RootFacts == <<>> \in Stacks /\ Len(<<>>) = 0 /\ Above(<<>>) = {<<>>}
  <1>1. <<>> \in Stacks /\ Len(<<>>) = 0
    BY RootIsStack
  <1>2. SubSeq(<<>>, 1, 0) = <<>>
    BY SubSeqEmpty, EmptySeq
  <1>3. \A k : k \in 0..Len(<<>>) <=> k = 0
    BY <1>1
  <1> QED
    BY <1>1, <1>2, <1>3 DEF Above

LEMMA Parents ==
    \A t \in Stacks \ {<<>>} :
        /\ Up(t) \in Stacks /\ Up(t) # t
        /\ t[Len(t)] \in Coordinators /\ t[Len(t)] \in Actions
        /\ t[Len(t)] \in Entries(Up(t))
        /\ Child(Up(t), t[Len(t)]) = t
  BY UpFacts, CoordinatorsAssumption

\* Every stack is of a manifest.
LEMMA ManifestFacts ==
    ASSUME NEW s \in Stacks
    PROVE  /\ ManifestAt(s) \in DOMAIN EntriesOf
           /\ Entries(s) \subseteq Actions
           /\ StaleSets[ManifestAt(s)] \subseteq SUBSET Entries(s)
  <1>1. ManifestAt(s) \in DOMAIN EntriesOf
    <2>1. CASE s = <<>>
      BY <2>1, ManifestsAssumption DEF ManifestAt
    <2>2. CASE s # <<>>
      BY <2>2, UpFacts, CoordinatorsAssumption DEF ManifestAt
    <2> QED
      BY <2>1, <2>2
  <1> QED
    BY <1>1, ManifestsAssumption DEF Entries

-----------------------------------------------------------------------------
(* The invariant.                                                          *)

LEMMA InitInductive == Init => Inductive
  <1> SUFFICES ASSUME Init PROVE Inductive
    OBVIOUS
  <1> USE DEF Init
  <1>1. Types
    BY BoundsAssumption, LayersAssumption DEF Types, Ended, Outcomes
  <1>2. Placement
    BY LayersAssumption DEF Placement
  <1>3. Opened
    BY RootFacts DEF Opened
  <1>4. Vouched
    BY Parents DEF Vouched
  <1>5. IsFiniteSet(Charged) /\ TreePool
    <2>1. Charged = {}
      BY CoordinatorsAssumption DEF Charged, Running, Leaves
    <2> QED
      BY <2>1, FS_EmptySet, BoundsAssumption DEF TreePool
  <1>6. NoOrphanStack
    BY DEF NoOrphanStack, Live
  <1>7. LineagesSound
    <2>1. ChainLength(<<>>) <= MaxDepth
      BY RootFacts, BoundsAssumption DEF ChainLength
    <2> QED
      BY <2>1, RootFacts DEF LineagesSound
  <1> QED
    BY <1>1, <1>2, <1>3, <1>4, <1>5, <1>6, <1>7 DEF Inductive

\* A stack that is not executing, or whose layer is settled, has no child at work.
LEMMA NoLiveChild ==
    ASSUME Types, Placement, NoOrphanStack, NEW s \in Stacks,
           phase[s] # "running" \/ Settled(s)
    PROVE  /\ \A t \in Stacks \ {<<>>} : Up(t) = s => ~Live(t)
           /\ \A a \in Actions : st[s][a] \notin {"queued", "running"}
  <1>1. \A a \in Actions : st[s][a] \notin {"queued", "running"}
    BY DEF Placement, Settled, Members, Outcomes
  <1>2. \A t \in Stacks \ {<<>>} : Up(t) = s => ~Live(t)
    BY <1>1, Parents DEF NoOrphanStack
  <1> QED
    BY <1>1, <1>2

\* The same leaves run.
LEMMA SameCharge ==
    ASSUME Types, TreePool, IsFiniteSet(Charged), Charged' = Charged,
           permits' = permits, jobs' = jobs
    PROVE  TreePool' /\ IsFiniteSet(Charged)'
  BY DEF TreePool

LEMMA ChargedWhere ==
    /\ \A p : p \in Charged <=>
          \E s \in Stacks, a \in Leaves : p = <<s, a>> /\ st[s][a] = "running"
    /\ (\A p : p \in Charged <=>
          \E s \in Stacks, a \in Leaves : p = <<s, a>> /\ st[s][a] = "running")'
  BY DEF Charged, Running, Leaves

\* A stack stops, with nothing of it at work: whatever made it, a plan that
\* fails, a token, its last layer or a layer that went wrong.
LEMMA StopStep ==
    ASSUME Inductive, NEW s \in Stacks, Live(s), NEW e \in {"ok", "failed"},
           phase[s] # "running" \/ Settled(s),
           e = "ok" => layer[s] = LayersOf(s) + 1,
           phase' = [phase EXCEPT ![s] = e],
           UNCHANGED <<constants, checkouts, stale, layer, st, rootCancel, layerCancel, permits>>
    PROVE  Inductive'
  <1> USE DEF Inductive, constants
  <1>1. Types'
    BY DEF Types, Ended
  <1>2. phase'[s] = e /\ \A t \in Stacks \ {s} : phase'[t] = phase[t]
    BY DEF Types
  <1>3. Placement'
    BY <1>2, NoLiveChild DEF Placement
  <1>4. Opened'
    BY <1>2, Parents, RootFacts DEF Opened, Live
  <1>5. Vouched'
    BY <1>2, Parents DEF Vouched, Live
  <1>6. TreePool' /\ IsFiniteSet(Charged)'
    BY SameCharge, ChargedWhere DEF Charged, Running
  <1>7. NoOrphanStack'
    BY <1>2, NoLiveChild, Parents DEF NoOrphanStack, Live
  <1>8. LineagesSound'
    BY <1>2 DEF LineagesSound, Live
  <1> QED
    BY <1>1, <1>3, <1>4, <1>5, <1>6, <1>7, <1>8

LEMMA PlanStep ==
    ASSUME Inductive, NEW s \in Stacks, Plan(s)
    PROVE  Inductive'
  <1> USE DEF Inductive, Plan, constants
  <1>1. PICK S \in StaleSets[ManifestAt(s)] : stale' = [stale EXCEPT ![s] = S]
    OBVIOUS
  <1>2. S \in SUBSET Entries(s) /\ S \in SUBSET Actions
    BY <1>1, ManifestFacts
  <1>3. phase'[s] = "edge" /\ \A t \in Stacks \ {s} : phase'[t] = phase[t]
    BY DEF Types
  <1>4. Types'
    BY <1>1, <1>2 DEF Types
  <1>5. Placement'
    <2>1. stale'[s] = S /\ \A t \in Stacks \ {s} : stale'[t] = stale[t]
      BY <1>1 DEF Types
    <2>2. \A a \in Actions : st[s][a] = "idle" /\ ~(LayerOf[a] < layer[s])
      BY LayersAssumption DEF Placement
    <2> QED
      BY <1>3, <2>1, <2>2 DEF Placement
  <1>6. Opened'
    BY <1>3, Parents, RootFacts DEF Opened
  <1>7. Vouched'
    BY <1>3, Parents DEF Vouched
  <1>8. TreePool' /\ IsFiniteSet(Charged)'
    BY SameCharge DEF Charged, Running
  <1>9. NoOrphanStack'
    BY <1>3, Parents DEF NoOrphanStack, Live
  <1>10. LineagesSound'
    BY <1>3 DEF LineagesSound
  <1> QED
    BY <1>4, <1>5, <1>6, <1>7, <1>8, <1>9, <1>10

\* To the next layer: the one that is left had nothing to do, or is all done.
LEMMA NextLayerStep ==
    ASSUME Inductive, NEW s \in Stacks, phase[s] \in {"edge", "running"},
           layer[s] <= LayersOf(s), Settled(s), LayerOk(s),
           phase' = [phase EXCEPT ![s] = "edge"],
           layer' = [layer EXCEPT ![s] = @ + 1],
           UNCHANGED <<constants, checkouts, stale, st, rootCancel, layerCancel, permits>>
    PROVE  Inductive'
  <1> USE DEF Inductive, constants
  <1>1. phase'[s] = "edge" /\ \A t \in Stacks \ {s} : phase'[t] = phase[t]
    BY DEF Types
  <1>2. /\ layer'[s] = layer[s] + 1 /\ layer[s] + 1 \in Nat \ {0}
        /\ \A t \in Stacks \ {s} : layer'[t] = layer[t]
    BY LayersAssumption DEF Types
  <1>3. Types'
    BY <1>2 DEF Types
  <1>4. Placement'
    <2>1. \A a \in Actions : st[s][a] \notin {"queued", "running"}
      BY NoLiveChild
    <2>2. \A a \in Actions : st[s][a] # "idle" => a \in stale[s] /\ LayerOf[a] < layer[s] + 1
      BY LayersAssumption DEF Placement, Types
    <2>3. \A a \in Actions : a \in stale[s] /\ LayerOf[a] < layer[s] + 1 => st[s][a] = "ok"
      <3> SUFFICES ASSUME NEW a \in Actions, a \in stale[s], LayerOf[a] < layer[s] + 1
                   PROVE  st[s][a] = "ok"
        OBVIOUS
      <3>1. LayerOf[a] \in Int /\ layer[s] \in Int
        BY LayersAssumption DEF Types
      <3>2. CASE LayerOf[a] = layer[s]
        BY <3>2 DEF LayerOk, Members
      <3>3. CASE LayerOf[a] < layer[s]
        BY <3>3 DEF Placement
      <3> QED
        BY <3>1, <3>2, <3>3
    <2>4. /\ \A t \in Stacks \ {s} :
               /\ phase'[t] \in {"absent", "planning"} => layer'[t] = 1
               /\ phase'[t] = "running" => layer'[t] <= LayersOf(t)
               /\ phase'[t] = "ok" => layer'[t] = LayersOf(t) + 1
          /\ phase'[s] = "edge"
      BY <1>1, <1>2 DEF Placement
    <2>5. \A a \in Actions, t \in Stacks \ {s} :
            /\ st[t][a] # "idle" =>
                 /\ a \in stale[t] /\ LayerOf[a] <= layer'[t]
                 /\ phase'[t] \notin {"absent", "planning"}
                 /\ phase'[t] = "edge" => LayerOf[a] < layer'[t]
            /\ st[t][a] \in {"queued", "running"} =>
                 phase'[t] = "running" /\ LayerOf[a] = layer'[t]
            /\ a \in stale[t] /\ LayerOf[a] < layer'[t] => st[t][a] = "ok"
      BY <1>1, <1>2 DEF Placement
    <2>6. \A a \in Actions :
            /\ st[s][a] # "idle" =>
                 /\ a \in stale[s] /\ LayerOf[a] <= layer'[s] /\ LayerOf[a] < layer'[s]
            /\ a \in stale[s] /\ LayerOf[a] < layer'[s] => st[s][a] = "ok"
      BY <1>2, <2>2, <2>3, LayersAssumption
    <2> QED
      BY <2>1, <2>4, <2>5, <2>6 DEF Placement
  <1>5. Opened'
    BY <1>1, Parents, RootFacts DEF Opened
  <1>6. Vouched'
    BY <1>1, Parents DEF Vouched, Placement
  <1>7. TreePool' /\ IsFiniteSet(Charged)'
    BY SameCharge DEF Charged, Running
  <1>8. NoOrphanStack'
    BY <1>1, <1>2, NoLiveChild, Parents DEF NoOrphanStack, Live
  <1>9. LineagesSound'
    BY <1>1 DEF LineagesSound
  <1> QED
    BY <1>3, <1>4, <1>5, <1>6, <1>7, <1>8, <1>9

LEMMA StartLayerStep ==
    ASSUME Inductive, NEW s \in Stacks, StartLayer(s)
    PROVE  Inductive'
  <1> USE DEF Inductive, StartLayer, constants
  <1>1. phase'[s] = "running" /\ \A t \in Stacks \ {s} : phase'[t] = phase[t]
    BY DEF Types
  <1>2. /\ \A t \in Stacks \ {s} : st'[t] = st[t]
        /\ \A a \in Actions : st'[s][a] = IF a \in Members(s) THEN "queued" ELSE st[s][a]
    BY DEF Types
  <1>3. \A a \in Members(s) : a \in Actions /\ st[s][a] = "idle"
    BY LayersAssumption DEF Members, Placement, Types
  <1>4. Types'
    BY <1>1 DEF Types
  <1>5. Placement'
    <2>1. \A a \in Actions : st'[s][a] # "idle" => a \in stale[s] /\ LayerOf[a] <= layer[s]
      BY <1>2, LayersAssumption DEF Placement, Types, Members
    <2>2. \A a \in Actions : st'[s][a] \in {"queued", "running"} => LayerOf[a] = layer[s]
      BY <1>2 DEF Placement, Members
    <2>3. \A a \in Actions : a \in stale[s] /\ LayerOf[a] < layer[s] => st'[s][a] = "ok"
      BY <1>2, LayersAssumption DEF Placement, Types, Members
    <2> QED
      BY <1>1, <1>2, <2>1, <2>2, <2>3 DEF Placement
  <1>6. Opened'
    BY <1>1, <1>2, <1>3, Parents, RootFacts DEF Opened, Outcomes
  <1>7. Vouched'
    BY <1>1, <1>2, <1>3, Parents DEF Vouched, Placement
  <1>8. TreePool' /\ IsFiniteSet(Charged)'
    <2>1. \A t \in Stacks, a \in Actions : st'[t][a] = "running" <=> st[t][a] = "running"
      BY <1>2, <1>3
    <2> QED
      BY <2>1, SameCharge DEF Charged, Running
  <1>9. NoOrphanStack'
    BY <1>1, <1>2, NoLiveChild, Parents DEF NoOrphanStack, Live
  <1>10. LineagesSound'
    BY <1>1 DEF LineagesSound
  <1> QED
    BY <1>4, <1>5, <1>6, <1>7, <1>8, <1>9, <1>10

LEMMA StartStep ==
    ASSUME Inductive, NEW s \in Stacks, NEW a \in Entries(s), Start(s, a)
    PROVE  Inductive'
  <1> USE DEF Inductive, Start, constants
  <1>1. a \in Actions
    BY ManifestFacts
  <1>2. /\ st'[s][a] = "running"
        /\ \A t \in Stacks, b \in Actions : <<t, b>> # <<s, a>> => st'[t][b] = st[t][b]
    BY <1>1 DEF Types
  <1>3. Types'
    BY <1>1 DEF Types, NeedsPermit
  <1>4. Placement'
    BY <1>1, <1>2 DEF Placement
  <1>5. Opened'
    BY <1>1, <1>2, Parents, RootFacts DEF Opened, Outcomes
  <1>6. Vouched'
    BY <1>1, <1>2, Parents DEF Vouched
  <1>7. TreePool' /\ IsFiniteSet(Charged)'
    <2>1. CASE a \in Leaves
      <3>1. <<s, a>> \notin Charged /\ Charged' = Charged \cup {<<s, a>>}
        BY <1>1, <1>2, <2>1, ChargedWhere DEF Leaves
      <3>2. IsFiniteSet(Charged') /\ Cardinality(Charged') = Cardinality(Charged) + 1
        BY <3>1, FS_AddElement
      <3> QED
        BY <2>1, <3>2, FS_CardinalityType DEF TreePool, Types, NeedsPermit
    <2>2. CASE a \notin Leaves
      <3>1. \A p : p \in Charged' <=> p \in Charged
        BY <1>1, <1>2, <2>2, ChargedWhere DEF Leaves
      <3> QED
        BY <2>2, <3>1, SameCharge DEF NeedsPermit
    <2> QED
      BY <2>1, <2>2
  <1>8. NoOrphanStack'
    BY <1>1, <1>2, Parents DEF NoOrphanStack, Live
  <1>9. LineagesSound'
    BY DEF LineagesSound
  <1> QED
    BY <1>3, <1>4, <1>5, <1>6, <1>7, <1>8, <1>9

\* A coordinator of a live stack has room for its child's lineage.
LEMMA ChildIsStack ==
    ASSUME Inductive, NEW s \in Stacks, Live(s), NEW c \in Entries(s), c \in Coordinators
    PROVE  Child(s, c) \in Stacks \ {<<>>}
  <1>1. Len(s) + 1 <= MaxDepth
    BY DEF Inductive, LineagesSound, Live, ChainLength
  <1> QED
    BY <1>1, StackFacts, ChildFacts, BoundsAssumption

\* A future ends: a leaf, or a coordinator with no child at work, which is done
\* only if its child ended well.
LEMMA FinishStep ==
    ASSUME Inductive, NEW s \in Stacks, NEW a \in Entries(s), NEW outcome \in Outcomes,
           Finish(s, a, outcome), checkouts \subseteq checkouts',
           a \in Leaves \/ (~Live(Child(s, a)) /\ (outcome = "ok" => phase[Child(s, a)] = "ok"))
    PROVE  Inductive'
  <1> USE DEF Inductive, Finish, constants
  <1>1. a \in Actions
    BY ManifestFacts
  <1>2. /\ st'[s][a] = outcome /\ outcome \notin {"idle", "queued", "running"}
        /\ \A t \in Stacks, b \in Actions : <<t, b>> # <<s, a>> => st'[t][b] = st[t][b]
    BY <1>1 DEF Types, Outcomes
  <1>3. a \in stale[s] /\ LayerOf[a] = layer[s]
    BY <1>1 DEF Placement
  <1>4. Types'
    BY <1>1 DEF Types, NeedsPermit
  <1>5. Placement'
    <2>1. ~(LayerOf[a] < layer[s])
      BY <1>3, LayersAssumption DEF Types
    <2> QED
      BY <1>1, <1>2, <1>3, <2>1 DEF Placement
  <1>6. Opened'
    BY <1>1, <1>2, Parents, RootFacts DEF Opened
  <1>7. Vouched'
    BY <1>1, <1>2, Parents DEF Vouched, Leaves
  <1>8. TreePool' /\ IsFiniteSet(Charged)'
    <2>1. CASE a \in Leaves
      <3>1. <<s, a>> \in Charged /\ Charged' = Charged \ {<<s, a>>}
        BY <1>1, <1>2, <2>1, ChargedWhere DEF Leaves
      <3>2. IsFiniteSet(Charged') /\ Cardinality(Charged') = Cardinality(Charged) - 1
        BY <3>1, FS_RemoveElement
      <3> QED
        BY <2>1, <3>2, FS_CardinalityType DEF TreePool, Types, NeedsPermit
    <2>2. CASE a \notin Leaves
      <3>1. \A p : p \in Charged' <=> p \in Charged
        BY <1>1, <1>2, <2>2, ChargedWhere DEF Leaves
      <3> QED
        BY <2>2, <3>1, SameCharge DEF NeedsPermit
    <2> QED
      BY <2>1, <2>2
  <1>9. NoOrphanStack'
    BY <1>1, <1>2, Parents DEF NoOrphanStack, Live, Leaves
  <1>10. LineagesSound'
    BY DEF LineagesSound
  <1> QED
    BY <1>4, <1>5, <1>6, <1>7, <1>8, <1>9, <1>10

LEMMA FinishLeafStep ==
    ASSUME Inductive, NEW s \in Stacks, NEW a \in Entries(s), NEW outcome \in Outcomes,
           FinishLeaf(s, a, outcome)
    PROVE  Inductive'
  <1>1. checkouts \subseteq checkouts' /\ a \in Leaves /\ Finish(s, a, outcome)
    BY DEF FinishLeaf
  <1> QED
    BY <1>1, FinishStep

\* What is refused was not opened.
LEMMA RefuseStep ==
    ASSUME Inductive, NEW s \in Stacks, Live(s), NEW c \in Entries(s), Refuse(s, c)
    PROVE  Inductive'
  <1> DEFINE t == Child(s, c)
  <1>1. c \in Coordinators /\ Finish(s, c, "failed") /\ checkouts' = checkouts
    BY DEF Refuse, Executing
  <1>2. t \in Stacks \ {<<>>} /\ Up(t) = s /\ t[Len(t)] = c
    BY <1>1, ChildIsStack, ChildFacts
  <1>3. ~Live(t)
    BY <1>2 DEF Refuse, Live, Inductive, Opened
  <1> QED
    BY <1>1, <1>3, FinishStep DEF Outcomes

LEMMA CloseStep ==
    ASSUME Inductive, NEW s \in Stacks, NEW c \in Entries(s), Close(s, c)
    PROVE  Inductive'
  <1>1. Result(s, c) \in Outcomes /\ Finish(s, c, Result(s, c)) /\ checkouts' = checkouts
    BY DEF Close, Result, Outcomes
  <1>2. ~Live(Child(s, c)) /\ (Result(s, c) = "ok" => phase[Child(s, c)] = "ok")
    BY DEF Close, Live, Result
  <1> QED
    BY <1>1, <1>2, FinishStep

\* The guards of resolved_manifest keep lineages sound.
LEMMA OpenStep ==
    ASSUME Inductive, NEW s \in Stacks, Live(s), NEW c \in Entries(s), Open(s, c)
    PROVE  Inductive'
  <1> DEFINE t == Child(s, c)
  <1> USE DEF Inductive, constants
  <1>1. c \in Coordinators /\ c \in Actions /\ phase[s] = "running" /\ st[s][c] = "running"
        /\ c \in checkouts /\ ~Refused(s, c) /\ phase[t] = "absent"
        /\ phase' = [phase EXCEPT ![t] = "planning"]
        /\ UNCHANGED <<constants, checkouts, stale, layer, st, rootCancel, layerCancel, permits>>
    BY CoordinatorsAssumption DEF Open, Executing
  <1>2. t \in Stacks \ {<<>>} /\ Up(t) = s /\ t[Len(t)] = c
    BY <1>1, ChildIsStack, ChildFacts
  <1>3. Above(t) = Above(s) \cup {t} /\ ManifestAt(t) = ChildManifest[c] /\ Len(t) = Len(s) + 1
    BY <1>1, ChildFacts
  <1> HIDE DEF t
  <1>4. phase'[t] = "planning" /\ \A u \in Stacks \ {t} : phase'[u] = phase[u]
    BY <1>1, <1>2 DEF Types
  <1>5. Types'
    BY <1>1, <1>2 DEF Types
  <1>6. Placement'
    BY <1>1, <1>2, <1>4 DEF Placement
  <1>7. Opened'
    BY <1>1, <1>2, <1>4, Parents DEF Opened
  <1>8. Vouched'
    BY <1>1, <1>2, <1>4 DEF Vouched
  <1>9. TreePool' /\ IsFiniteSet(Charged)'
    BY <1>1, SameCharge DEF Charged, Running
  <1>10. NoOrphanStack'
    <2>1. LayerOf[c] = layer[s]
      BY <1>1 DEF Placement
    <2> QED
      BY <1>1, <1>2, <1>4, <2>1, Parents DEF NoOrphanStack, Live
  <1>11. LineagesSound'
    <2>1. \A u, v \in Above(s) : ManifestAt(u) = ManifestAt(v) => u = v
      BY <1>1 DEF LineagesSound
    <2>2. \A u \in Above(s) : ManifestAt(u) # ManifestAt(t)
      BY <1>1, <1>3 DEF Refused, Cycle, Chain
    <2>3. ChainLength(t) <= MaxDepth
      BY <1>1, <1>3, StackFacts, BoundsAssumption DEF Refused, TooDeep, ChainLength
    <2>4. \A u, v \in Above(t) : ManifestAt(u) = ManifestAt(v) => u = v
      BY <1>3, <2>1, <2>2
    <2> QED
      BY <1>4, <2>3, <2>4 DEF LineagesSound
  <1> QED
    BY <1>5, <1>6, <1>7, <1>8, <1>9, <1>10, <1>11

LEMMA PanicStep ==
    ASSUME Inductive, NEW s \in Stacks, NEW a \in Actions, Panic(s, a)
    PROVE  Inductive'
  <1> USE DEF Inductive, Panic, constants
  <1>1. \A t \in Stacks : phase'[t] = IF Live(t) THEN "unwound" ELSE phase[t]
    OBVIOUS
  <1>2. \A t \in Stacks, b \in Actions :
          st'[t][b] = IF st[t][b] \in {"queued", "running"} THEN "idle" ELSE st[t][b]
    OBVIOUS
  <1>3. Cardinality(Charged) \in Nat
    BY FS_CardinalityType
  <1>4. Types'
    BY <1>3 DEF Types, Live, Ended, Outcomes, ReleasedByUnwinding
  <1>5. Placement'
    BY <1>1, <1>2 DEF Placement, Live
  <1>6. Opened'
    BY <1>1, <1>2, Parents, RootFacts DEF Opened, Live, Placement, Outcomes
  <1>7. Vouched'
    BY <1>1, <1>2, Parents DEF Vouched, Live
  <1>8. TreePool' /\ IsFiniteSet(Charged)'
    <2>1. \A p : p \notin Charged'
      BY <1>2, ChargedWhere DEF Leaves
    <2>2. Charged' = {}
      BY <2>1
    <2> QED
      BY <1>3, <2>2, FS_EmptySet DEF TreePool, Types, ReleasedByUnwinding
  <1>9. NoOrphanStack'
    BY <1>1 DEF NoOrphanStack, Live
  <1>10. LineagesSound'
    BY <1>1 DEF LineagesSound, Live
  <1> QED
    BY <1>4, <1>5, <1>6, <1>7, <1>8, <1>9, <1>10

\* Ctrl-C, and steps that leave the stacks alone.
LEMMA ElsewhereStep ==
    ASSUME Inductive,
           UNCHANGED <<mode, jobs, checkouts, phase, stale, layer, st, layerCancel, permits>>
    PROVE  Inductive'
  <1> USE DEF Inductive
  <1>1. Types' /\ Placement'
    BY DEF Types, Placement
  <1>2. Opened' /\ Vouched'
    BY DEF Opened, Vouched
  <1>3. TreePool' /\ IsFiniteSet(Charged)'
    BY SameCharge DEF Charged, Running
  <1>4. NoOrphanStack' /\ LineagesSound'
    BY DEF NoOrphanStack, LineagesSound, Live
  <1> QED
    BY <1>1, <1>2, <1>3, <1>4

LEMMA StackStepInductive ==
    ASSUME Inductive, NEW s \in Stacks, Live(s), StackStep(s)
    PROVE  Inductive'
  <1>1. CASE Plan(s)
    BY <1>1, PlanStep
  <1>2. CASE PlanFails(s) \/ HaltCancelled(s) \/ Complete(s)
    BY <1>2, StopStep DEF PlanFails, HaltCancelled, Complete
  <1>3. CASE SkipLayer(s)
    <2>1. Settled(s) /\ LayerOk(s)
      BY <1>3 DEF SkipLayer, NothingToDo, Settled, LayerOk
    <2>2. phase' = [phase EXCEPT ![s] = "edge"]
      BY <1>3 DEF SkipLayer, Inductive, Types
    <2> QED
      BY <1>3, <2>1, <2>2, NextLayerStep DEF SkipLayer
  <1>4. CASE StartLayer(s)
    BY <1>4, StartLayerStep
  <1>5. CASE EndLayer(s)
    <2>1. Settled(s) /\ phase[s] = "running" /\ layer[s] <= LayersOf(s)
      BY <1>5 DEF EndLayer, Inductive, Placement
    <2>2. CASE phase' = [phase EXCEPT ![s] = "failed"]
      BY <1>5, <2>1, <2>2, StopStep DEF EndLayer, Inductive, Types
    <2>3. CASE phase' = [phase EXCEPT ![s] = "edge"]
      BY <1>5, <2>1, <2>3, NextLayerStep DEF EndLayer, Inductive, Types
    <2> QED
      BY <1>5, <2>2, <2>3 DEF EndLayer
  <1>6. ASSUME NEW a \in Entries(s), Start(s, a)
        PROVE  Inductive'
    BY <1>6, StartStep
  <1>7. ASSUME NEW a \in Entries(s), Panic(s, a)
        PROVE  Inductive'
    BY <1>7, ManifestFacts, PanicStep
  <1>8. ASSUME NEW a \in Entries(s), NEW o \in Outcomes, FinishLeaf(s, a, o)
        PROVE  Inductive'
    BY <1>8, FinishLeafStep
  <1>9. ASSUME NEW c \in Entries(s), Open(s, c) \/ Refuse(s, c) \/ Close(s, c)
        PROVE  Inductive'
    BY <1>9, OpenStep, RefuseStep, CloseStep
  <1> QED
    BY <1>1, <1>2, <1>3, <1>4, <1>5, <1>6, <1>7, <1>8, <1>9 DEF StackStep, Loop

LEMMA NextInductive == Inductive /\ [Next]_vars => Inductive'
  <1> SUFFICES ASSUME Inductive, [Next]_vars PROVE Inductive'
    OBVIOUS
  <1>1. CASE \E s \in Stacks : Live(s) /\ StackStep(s)
    BY <1>1, StackStepInductive
  <1>2. CASE Cancel
    BY <1>2, ElsewhereStep DEF Cancel, constants
  <1>3. CASE UNCHANGED vars
    BY <1>3, ElsewhereStep DEF vars, constants
  <1> QED
    BY <1>1, <1>2, <1>3 DEF Next, Done

\* For every tree of manifests, plan, pool and fault: the invariant holds.
THEOREM TreeInvariance == Spec => []Inductive
  <1> QED
    BY InitInductive, NextInductive, PTL DEF Spec

-----------------------------------------------------------------------------
(* What it implies.                                                        *)

\* `--jobs N` bounds the whole tree, whatever its depth (federation.rs:207).
THEOREM OnePoolForTheTree == Spec => []TreePool
  <1>1. Inductive => TreePool
    BY DEF Inductive
  <1> QED
    BY <1>1, TreeInvariance, PTL

\* A child stack works only while its coordinator's execute awaits it
\* (federation.rs:217).
THEOREM ChildrenAreAwaited == Spec => []NoOrphanStack
  <1>1. Inductive => NoOrphanStack
    BY DEF Inductive
  <1> QED
    BY <1>1, TreeInvariance, PTL

\* No lineage repeats a manifest or is too long (federation.rs:102-121).
THEOREM NoCycleIsEntered == Spec => []LineagesSound
  <1>1. Inductive => LineagesSound
    BY DEF Inductive
  <1> QED
    BY <1>1, TreeInvariance, PTL

\* Every non-empty set of numbers has a least element.
LEMMA Smallest ==
    ASSUME NEW T \in SUBSET Nat, T # {}
    PROVE  \E i \in T : \A j \in T : i <= j
  <1>1. PICK i \in T : \A j \in T : <<j, i>> \notin OpToRel(<, Nat)
    BY WFMin, NatLessThanWellFounded
  <1>2. \A j \in T : ~(j < i)
    BY <1>1 DEF OpToRel
  <1> QED
    BY <1>2

\* A stack that ended well did all it had to, so what was opened by one of its
\* coordinators ended well.
LEMMA EndedWell ==
    ASSUME Inductive
    PROVE  /\ \A s \in Stacks : phase[s] = "ok" => \A a \in stale[s] : st[s][a] = "ok"
           /\ \A t \in Stacks \ {<<>>} :
                phase[t] # "absent" /\ phase[Up(t)] = "ok" => phase[t] = "ok"
  <1> USE DEF Inductive
  <1>1. ASSUME NEW s \in Stacks, phase[s] = "ok", NEW a \in stale[s]
        PROVE  st[s][a] = "ok"
    <2>1. a \in Actions /\ a \in Entries(s) /\ layer[s] = LayersOf(s) + 1
      BY <1>1 DEF Types, Placement
    <2>2. LayerOf[a] \in Nat /\ LayersOf(s) \in Nat /\ LayerOf[a] <= LayersOf(s)
      BY <2>1, ManifestFacts, LayersAssumption DEF Entries, LayersOf
    <2> QED
      BY <1>1, <2>1, <2>2 DEF Placement
  <1>2. ASSUME NEW t \in Stacks \ {<<>>}, phase[t] # "absent", phase[Up(t)] = "ok"
        PROVE  phase[t] = "ok"
    <2>1. st[Up(t)][t[Len(t)]] # "idle"
      BY <1>2 DEF Opened, Outcomes
    <2>2. st[Up(t)][t[Len(t)]] = "ok"
      BY <1>1, <1>2, <2>1, Parents DEF Placement
    <2> QED
      BY <2>2 DEF Vouched
  <1> QED
    BY <1>1, <1>2

\* Nothing below a stack that ended well ended otherwise: of what did, the
\* shortest lineage would have a parent that ended well.
LEMMA AllTheWayDown ==
    ASSUME Inductive, NEW s \in Stacks \ {<<>>}, phase[s] = "ok",
           NEW t \in Under(s), phase[t] # "absent"
    PROVE  phase[t] = "ok"
  <1> DEFINE Bad == {u \in Under(s) : phase[u] # "absent" /\ phase[u] # "ok"}
             Lengths == {Len(u) : u \in Bad}
  <1> SUFFICES ASSUME Bad # {} PROVE FALSE
    OBVIOUS
  <1>1. Lengths \in SUBSET Nat /\ Lengths # {}
    BY StackFacts DEF Under
  <1>2. PICK n \in Lengths : \A m \in Lengths : n <= m
    BY <1>1, Smallest
  <1>3. PICK u \in Bad : \A v \in Bad : Len(u) <= Len(v)
    BY <1>2
  <1>4. u \in Stacks /\ s \in Above(u) /\ u # s
    BY <1>3 DEF Under
  <1>5. u # <<>>
    BY <1>4, RootFacts
  <1>6. Up(u) \in Stacks /\ Len(Up(u)) = Len(u) - 1 /\ Len(u) \in Nat
        /\ u[Len(u)] \in Coordinators /\ Child(Up(u), u[Len(u)]) = u
    BY <1>4, <1>5, UpFacts
  <1>7. Above(u) = Above(Up(u)) \cup {u}
    BY <1>6, ChildFacts
  <1>8. Up(u) \in Under(s)
    BY <1>4, <1>6, <1>7 DEF Under
  <1>9. phase[Up(u)] # "absent"
    BY <1>3, <1>4, <1>5 DEF Inductive, Opened
  <1>10. phase[Up(u)] = "ok"
    BY <1>3, <1>6, <1>8, <1>9
  <1> QED
    BY <1>3, <1>4, <1>5, <1>10, EndedWell

\* A coordinator that is done vouches for everything below it, at any depth
\* (federation.rs:223-242).
THEOREM CoordinatorsVouch == Spec => []DoneAllTheWayDown
  <1>1. ASSUME Inductive PROVE DoneAllTheWayDown
    <2> SUFFICES ASSUME NEW s \in Stacks \ {<<>>}, st[Up(s)][s[Len(s)]] = "ok"
                 PROVE  /\ phase[s] = "ok"
                        /\ \A t \in Under(s) :
                             phase[t] # "absent" =>
                               phase[t] = "ok" /\ \A a \in stale[t] : st[t][a] = "ok"
      BY DEF DoneAllTheWayDown
    <2>1. phase[s] = "ok"
      BY <1>1 DEF Inductive, Vouched
    <2> QED
      BY <1>1, <2>1, AllTheWayDown, EndedWell DEF Under
  <1> QED
    BY <1>1, TreeInvariance, PTL
=============================================================================

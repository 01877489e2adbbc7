---------------------------- MODULE Machines_proofs ----------------------------
(***************************************************************************)
(* Proofs about Machines: for every number of machines, every set-up and   *)
(* every clock, the cache says of each build what the machine that wrote   *)
(* it was told, and only machines of one namespace share a record; what is *)
(* skipped is current but for four causes; and two undisturbed syncs leave *)
(* nothing to do.                                                          *)
(***************************************************************************)
EXTENDS Machines, TLAPS

-----------------------------------------------------------------------------
(* Prefixes keep keys apart and come off whole.                            *)

\* Two keys are equal only if the prefixes are and the ids are, ids being of
\* one length: that of node, kind and index (namespaced.rs:4-7).
THEOREM PrefixesKeepApart ==
    ASSUME NEW S, NEW p \in Seq(S), NEW q \in Seq(S), NEW x \in Seq(S), NEW y \in Seq(S),
           Len(x) = Len(y), Prefixed(p, x) = Prefixed(q, y)
    PROVE  p = q /\ x = y
<1>1. p \o x = q \o y
    BY DEF Prefixed
<1>2. Len(p) = Len(q)
    <2>1. Len(p \o x) = Len(p) + Len(x) /\ Len(q \o y) = Len(q) + Len(y)
        OBVIOUS
    <2> QED
        BY <1>1, <2>1
<1>3. \A i \in 1..Len(p) : p[i] = q[i]
    <2>1. \A i \in 1..Len(p) : (p \o x)[i] = p[i] /\ (q \o y)[i] = q[i]
        BY <1>2
    <2> QED
        BY <1>1, <2>1
<1>4. \A i \in 1..Len(x) : x[i] = y[i]
    <2>1. \A i \in 1..Len(x) : (p \o x)[Len(p) + i] = x[i] /\ (q \o y)[Len(p) + i] = y[i]
        BY <1>2
    <2> QED
        BY <1>1, <2>1
<1>5. p = q
    BY <1>2, <1>3
<1>6. x = y
    BY <1>4
<1> QED
    BY <1>5, <1>6

\* What goes in under a prefix comes out as it was.
THEOREM StrippedIsInverse ==
    ASSUME NEW S, NEW p \in Seq(S), NEW x \in Seq(S)
    PROVE  Stripped(p, Prefixed(p, x)) = x
<1> DEFINE k == p \o x
<1>1. k \in Seq(S) /\ Len(k) = Len(p) + Len(x)
    OBVIOUS
<1>2. SubSeq(k, 1, Len(p)) = p
    <2>1. Len(SubSeq(k, 1, Len(p))) = Len(p)
        BY <1>1
    <2>2. \A i \in 1..Len(p) : SubSeq(k, 1, Len(p))[i] = p[i]
        BY <1>1
    <2> QED
        BY <1>1, <2>1, <2>2
<1>3. SubSeq(k, Len(p) + 1, Len(k)) = x
    <2>1. Len(SubSeq(k, Len(p) + 1, Len(k))) = Len(x)
        BY <1>1
    <2>2. \A i \in 1..Len(x) : SubSeq(k, Len(p) + 1, Len(k))[i] = x[i]
        BY <1>1
    <2> QED
        BY <1>1, <2>1, <2>2
<1> QED
    BY <1>1, <1>2, <1>3 DEF Stripped, Prefixed

-----------------------------------------------------------------------------
(* What is recorded reads back from both backends, for every duration and  *)
(* every clock.                                                            *)

LEMMA SaturatedFits ==
    ASSUME NEW n \in Nat
    PROVE  Saturated(n) \in Nat /\ Saturated(n) <= MaxInt
BY WidthAssumption DEF Saturated

\* What a start of 0 says: no duration and no clock makes `stamps` use it for
\* a build it can date, nor anything else for one it cannot (sqlite.rs:275-287).
LEMMA StampsSayWhen ==
    ASSUME NEW ms \in Nat, NEW clock \in Reading
    PROVE  LET s == Stamps(ms, clock)
               dated == clock.readable /\ Saturated(clock.now) > Saturated(ms)
           IN  /\ s.ended - s.started = Saturated(ms)
               /\ s.started \in Nat /\ s.ended \in Nat
               /\ dated => s.started > 0 /\ s.ended = Saturated(clock.now)
               /\ ~dated => s.started = 0
<1>1. Saturated(ms) \in Nat
    BY SaturatedFits
<1>2. CASE ~clock.readable
    BY <1>1, <1>2 DEF Stamps
<1>3. CASE clock.readable
    <2>1. clock.now \in Nat
        BY <1>3 DEF Reading
    <2>2. Saturated(clock.now) \in Nat
        BY <2>1, SaturatedFits
    <2> QED
        BY <1>1, <1>3, <2>2 DEF Stamps
<1> QED
    BY <1>2, <1>3

\* Whatever SQLite is given, it gives back the event, the duration an i64 can
\* hold, and the date the clock allows: never a wrong duration (sqlite.rs).
THEOREM SqliteReadsBack ==
    ASSUME NEW kind \in {"success", "failed"}, NEW hash,
           NEW ms \in Nat, NEW clock \in Reading, NEW server
    PROVE  Fetched("sqlite", Stored("sqlite", EventOf(kind, hash), ms, clock, server)) =
               BuildRecord(EventOf(kind, hash), Saturated(ms),
                           DateDue("sqlite", ms, clock, server))
<1> DEFINE s == Stamps(ms, clock)
           row == SqliteRow(EventOf(kind, hash), ms, clock)
<1>1. /\ row.input = hash /\ row.status = kind
      /\ row.started = s.started /\ row.ended = s.ended
    BY DEF SqliteRow, EventOf
<1>2. EventOf(IF row.status = "success" THEN "success" ELSE "failed", row.input) =
          EventOf(kind, hash)
    BY <1>1
<1>3. Saturated(ms) \in Nat
    BY SaturatedFits
<1>4. (IF row.ended > row.started THEN row.ended - row.started ELSE 0) = Saturated(ms)
    BY <1>1, <1>3, StampsSayWhen
<1>5. (IF row.started = 0 THEN NoDate ELSE Date(row.ended)) =
          DateDue("sqlite", ms, clock, server)
    BY <1>1, StampsSayWhen DEF DateDue
<1> QED
    BY <1>2, <1>4, <1>5 DEF Fetched, Stored, SqliteRead

\* And Neo4j, as long as its server's clock is past the epoch (neo4j.rs).
THEOREM Neo4jReadsBack ==
    ASSUME NEW kind \in {"success", "failed"}, NEW hash,
           NEW ms \in Nat, NEW clock, NEW server \in Nat, server > 0
    PROVE  Fetched("neo4j", Stored("neo4j", EventOf(kind, hash), ms, clock, server)) =
               BuildRecord(EventOf(kind, hash), Saturated(ms),
                           DateDue("neo4j", ms, clock, server))
BY DEF Fetched, Stored, Neo4jNode, Neo4jRead, EventOf, DateDue

-----------------------------------------------------------------------------
(* Machines.                                                               *)

\* What ids and prefixes are made of.
Parts == STRING \cup {"node", "git-clone", "docker", "path", "git"} \cup Int

Word(t) == t.by \in Machines /\ t.ms \in Nat
           /\ \E kind \in {"success", "failed"} : \E hash : t.event = EventOf(kind, hash)

\* The record under a key is what the machine that was told has stored there.
Inductive ==
    /\ setup \in Setups
    /\ at \in [Machines -> Actions]
    /\ DOMAIN rows = DOMAIN told
    /\ \A key \in DOMAIN told :
         /\ Word(told[key])
         /\ rows[key] = Stored(backend, told[key].event, told[key].ms,
                               Clock[told[key].by], Clock["server"].now)
         /\ \E a \in Actions : key = Key(told[key].by, a)

LEMMA SetupTypes ==
    ASSUME setup \in Setups
    PROVE  /\ second \in {"docker", "path", "git"}
           /\ backend \in {"sqlite", "neo4j"}
           /\ \A m \in Machines : setup.ns[m] \in Seq(STRING)
BY SetupsAssumption DEF second, backend

\* An id is one of three parts.
LEMMA IdShape ==
    ASSUME setup \in Setups, NEW a \in Actions
    PROVE  Id(a) \in Seq(Parts) /\ Len(Id(a)) = 3
<1>1. a - 1 \in Int
    BY OneNode
<1> DEFINE kind == IF a = 1 THEN "git-clone" ELSE second
<1>2. "node" \in Parts /\ kind \in Parts /\ a - 1 \in Parts
    BY <1>1, SetupTypes DEF Parts
<1>3. Id(a) = <<"node", kind, a - 1>>
    BY DEF Id
<1>4. ASSUME NEW S, NEW x \in S, NEW y \in S, NEW z \in S
      PROVE  <<x, y, z>> \in Seq(S) /\ Len(<<x, y, z>>) = 3
    OBVIOUS
<1> QED
    BY <1>2, <1>3, <1>4

\* Machines that share a key share a namespace (namespaced.rs:4-7).
LEMMA SharedKeyIsSharedNamespace ==
    ASSUME setup \in Setups, NEW m \in Machines, NEW n \in Machines,
           NEW a \in Actions, NEW b \in Actions, Key(m, a) = Key(n, b)
    PROVE  setup.ns[m] = setup.ns[n]
<1>1. setup.ns[m] \in Seq(Parts) /\ setup.ns[n] \in Seq(Parts)
    BY SetupTypes DEF Parts
<1>2. Prefixed(setup.ns[m], Id(a)) = Prefixed(setup.ns[n], Id(b))
    BY DEF Key
<1> QED
    BY <1>1, <1>2, IdShape, PrefixesKeepApart

\* A write leaves the other keys alone, and under its own what it was told.
LEMMA WrittenKeeps ==
    ASSUME Inductive, NEW m \in Machines, Written(m), setup' = setup
    PROVE  /\ DOMAIN rows' = DOMAIN told'
           /\ \A key \in DOMAIN told' :
                /\ Word(told'[key])
                /\ rows'[key] = Stored(backend, told'[key].event, told'[key].ms,
                                       Clock[told'[key].by], Clock["server"].now)
                /\ \E a \in Actions : key = Key(told'[key].by, a)
<1> DEFINE k == Key(m, at[m])
           word == [by |-> m, event |-> EventAt(m), ms |-> Took[at[m]]]
           row == Stored(backend, EventAt(m), Took[at[m]], Clock[m], Clock["server"].now)
<1>1. rows' = Keep(rows, k, row) /\ told' = Keep(told, k, word)
    BY DEF Written
<1>2. at[m] \in Actions /\ Took[at[m]] \in Nat
    BY TookAssumption DEF Inductive
<1>3. Word(word)
    <2>1. \E kind \in {"success", "failed"} : \E hash : EventAt(m) = EventOf(kind, hash)
        BY DEF EventAt, Success, Failed, EventOf
    <2> QED
        BY <1>2, <2>1 DEF Word
<1>4. DOMAIN rows' = DOMAIN told'
    BY <1>1 DEF Keep, Inductive
<1>5. ASSUME NEW key \in DOMAIN told'
      PROVE  /\ Word(told'[key])
             /\ rows'[key] = Stored(backend, told'[key].event, told'[key].ms,
                                    Clock[told'[key].by], Clock["server"].now)
             /\ \E a \in Actions : key = Key(told'[key].by, a)
    <2>1. CASE key = k
        <3>1. rows'[key] = row /\ told'[key] = word
            BY <1>1, <1>4, <2>1 DEF Keep, Inductive
        <3> QED
            BY <1>2, <1>3, <2>1, <3>1
    <2>2. CASE key # k
        <3>1. key \in DOMAIN told /\ rows'[key] = rows[key] /\ told'[key] = told[key]
            BY <1>1, <2>2 DEF Keep, Inductive
        <3> QED
            BY <3>1 DEF Inductive
    <2> QED
        BY <2>1, <2>2
<1> QED
    BY <1>4, <1>5

-----------------------------------------------------------------------------
LEMMA InitInductive == Init => Inductive
<1> SUFFICES ASSUME Init PROVE Inductive
    OBVIOUS
<1>1. at \in [Machines -> Actions]
    BY OneNode DEF Init
<1>2. DOMAIN rows = {} /\ DOMAIN told = {}
    BY DEF Init
<1> QED
    BY <1>1, <1>2 DEF Init, Inductive

\* What each step does to what the invariant is about: a layer is one of two,
\* the set-up stays, and only a batch writes.
Moves ==
    /\ setup' = setup
    /\ at' \in [Machines -> Actions]
    /\ UNCHANGED <<rows, told>> \/ \E m \in Machines : Written(m)

LEMMA HomeMoves ==
    ASSUME Inductive, NEW m \in Machines, Home(m)
    PROVE  at' \in [Machines -> Actions]
BY OneNode DEF Home, Inductive

LEMMA StepMoves ==
    ASSUME Inductive, NEW m \in Machines, Step(m)
    PROVE  Moves
<1>0. at \in [Machines -> Actions] /\ 1 \in Actions /\ 2 \in Actions
    BY OneNode DEF Inductive
<1> USE DEF Moves, store, places, local
<1>1. CASE StartSync(m)
    BY <1>0, <1>1 DEF StartSync
<1>2. CASE Hash(m)
    BY <1>0, <1>2 DEF Hash
<1>3. CASE PlanRefused(m)
    BY <1>3, HomeMoves DEF PlanRefused, PlanEnds
<1>4. CASE Judge(m)
    BY <1>0, <1>4 DEF Judge, Decide
<1>5. CASE SkipLayer(m)
    <2>1. at' \in [Machines -> Actions]
        BY <1>0, <1>5, HomeMoves DEF SkipLayer
    <2> QED
        BY <1>5, <2>1 DEF SkipLayer
<1>6. CASE Fetch(m)
    BY <1>0, <1>6 DEF Fetch
<1>7. CASE FetchRefused(m)
    BY <1>0, <1>7 DEF FetchRefused, Returns
<1>8. CASE Reset(m)
    BY <1>0, <1>8 DEF Reset, Returns
<1>9. CASE StartClone(m)
    BY <1>0, <1>9 DEF StartClone
<1>10. CASE FinishClone(m)
    BY <1>0, <1>10 DEF FinishClone, Returns
<1>11. CASE Install(m) \/ DockerBuild(m)
    BY <1>0, <1>11 DEF Install, DockerBuild, Build, Returns
<1>12. CASE Record(m)
    <2>1. at' \in [Machines -> Actions]
        BY <1>0, <1>12, HomeMoves DEF Record
    <2> QED
        BY <1>12, <2>1 DEF Record
<1> QED
    BY <1>1, <1>2, <1>3, <1>4, <1>5, <1>6, <1>7, <1>8, <1>9, <1>10, <1>11, <1>12 DEF Step

LEMMA MisstepMoves ==
    ASSUME Inductive, NEW m \in Machines, Misstep(m)
    PROVE  Moves
<1>0. at \in [Machines -> Actions] /\ 1 \in Actions /\ 2 \in Actions
    BY OneNode DEF Inductive
<1> USE DEF Moves, store, places, local
<1>1. CASE PlanFails(m)
    BY <1>1, HomeMoves DEF PlanFails, PlanEnds
<1>2. CASE JudgeUnread(m)
    BY <1>0, <1>2 DEF JudgeUnread, Decide
<1>3. CASE CloneFails(m)
    BY <1>0, <1>3 DEF CloneFails, Returns
<1>4. CASE StepFails(m)
    BY <1>0, <1>4 DEF StepFails, Returns
<1>5. CASE Cancelled(m)
    BY <1>0, <1>5 DEF Cancelled, Returns
<1>6. CASE Crash(m)
    BY <1>6, HomeMoves DEF Crash
<1>7. CASE RecordFails(m)
    BY <1>7, HomeMoves DEF RecordFails
<1> QED
    BY <1>1, <1>2, <1>3, <1>4, <1>5, <1>6, <1>7 DEF Misstep

LEMMA WorldMoves ==
    ASSUME Inductive,
           UNCHANGED vars \/ (\E u \in Urls : Push(u))
             \/ \E m \in Machines : EditUrl(m) \/ LoseArtifact(m)
    PROVE  Moves
BY DEF Moves, store, places, local, vars, Push, EditUrl, LoseArtifact, Inductive

LEMMA NextInductive == Inductive /\ [Next]_vars => Inductive'
<1> SUFFICES ASSUME Inductive, [Next]_vars PROVE Inductive'
    OBVIOUS
<1>1. Moves
    BY StepMoves, MisstepMoves, WorldMoves DEF Next
<1>2. backend' = backend /\ (\A m, a : Key(m, a)' = Key(m, a)) /\ setup' \in Setups
    BY <1>1 DEF Moves, backend, Key, Id, second, Inductive
<1>3. CASE UNCHANGED <<rows, told>>
    BY <1>1, <1>2, <1>3 DEF Moves, Inductive
<1>4. ASSUME NEW m \in Machines, Written(m) PROVE Inductive'
    BY <1>1, <1>2, <1>4, WrittenKeeps DEF Moves, Inductive
<1> QED
    BY <1>1, <1>3, <1>4 DEF Moves

LEMMA MachinesInductive == Spec => []Inductive
<1> QED
    BY InitInductive, NextInductive, PTL DEF Spec

\* What was told under a key is what is read from under it.
LEMMA RowReadsBack ==
    ASSUME Inductive, NEW key \in DOMAIN told
    PROVE  LET t == told[key]
           IN  /\ Fetched(backend, rows[key]) =
                    BuildRecord(t.event, Saturated(t.ms),
                                DateDue(backend, t.ms, Clock[t.by], Clock["server"].now))
               /\ \E kind \in {"success", "failed"} : \E hash : t.event = EventOf(kind, hash)
<1> DEFINE t == told[key]
<1>1. Word(t) /\ rows[key] = Stored(backend, t.event, t.ms, Clock[t.by], Clock["server"].now)
    BY DEF Inductive
<1>2. PICK kind \in {"success", "failed"} : \E hash : t.event = EventOf(kind, hash)
    BY <1>1 DEF Word
<1>3. PICK hash : t.event = EventOf(kind, hash)
    BY <1>2
<1>4. /\ t.ms \in Nat /\ Clock[t.by] \in Reading
      /\ Clock["server"].now \in Nat /\ Clock["server"].now > 0
    BY <1>1, ClockAssumption DEF Word, Reading
<1>5. backend \in {"sqlite", "neo4j"}
    BY SetupTypes DEF Inductive
<1>6. CASE backend = "sqlite"
    BY <1>1, <1>3, <1>4, <1>6, SqliteReadsBack
<1>7. CASE backend = "neo4j"
    BY <1>1, <1>3, <1>4, <1>7, Neo4jReadsBack
<1> QED
    BY <1>5, <1>6, <1>7

\* Every record reads back as what the machine that wrote it was told, with a
\* duration an i64 can hold and a date where the clock allows one, whichever
\* backend keeps it; and records are shared within a namespace only
\* (sqlite.rs:221-287, neo4j.rs:117-226, namespaced.rs:4-7).
THEOREM EveryRecordReadsBack == Spec => []RecordsReadBack
<1>1. Inductive => RecordsReadBack
    <2> SUFFICES ASSUME Inductive, NEW key \in DOMAIN rows
                 PROVE  LET by == told[key].by
                        IN  /\ Fetched(backend, rows[key]) =
                                 BuildRecord(told[key].event, Saturated(told[key].ms),
                                     DateDue(backend, told[key].ms, Clock[by],
                                             Clock["server"].now))
                            /\ \A m \in Machines, a \in Actions :
                                 Key(m, a) = key => setup.ns[m] = setup.ns[by]
        BY DEF RecordsReadBack
    <2>1. /\ key \in DOMAIN told /\ told[key].by \in Machines
          /\ \E a \in Actions : key = Key(told[key].by, a)
        BY DEF Inductive, Word
    <2> QED
        BY <2>1, RowReadsBack, SharedKeyIsSharedNamespace DEF Inductive
<1> QED
    BY <1>1, MachinesInductive, PTL

-----------------------------------------------------------------------------
(* What a machine's files and records say of the remotes.                  *)

Words     == {"nothing", "head", "url", "tree", "pre-clone"}
Commits   == [url : Urls \cup {NoUrl}, version : Nat]
Phases    == {"idle", "hash", "judge", "start", "fetched", "cloning", "record"}
Executing == {"start", "fetched", "cloning", "record"}

Checkouts == [git : BOOLEAN, origin : Urls \cup {NoUrl}, tree : Commits]
InputHash == [of : Words, tree : Commits]

Typed ==
    /\ head \in [Urls -> Nat]
    /\ want \in [Machines -> Urls]
    /\ disk \in [Machines -> Checkouts]
    /\ bin \in [Machines -> Commits] /\ got \in [Machines -> Commits]
    /\ pc \in [Machines -> Phases]
    /\ input \in [Machines -> [Actions -> InputHash]]
    /\ stale \in [Machines -> SUBSET Actions] /\ owed \in [Machines -> SUBSET Actions]
    /\ result \in [Machines -> {"none", "ok", "failed", "cancelled"}]
    /\ calm \in [Machines -> Int]

Types == Inductive /\ Typed

\* Nothing, or what some remote has had at its HEAD.
Known(t) == t = NoTree \/ (t \in [url : Urls, version : Nat] /\ t.version <= head[t.url])

\* Of one remote, t is no newer than s.
Upto(t, s) == t.url = s.url => t.version <= s.version

\* No newer than the checkout is, and will be when it is reset.
Behind(m, t) == Upto(t, disk[m].tree) /\ (pc[m] = "fetched" => Upto(t, got[m]))

\* The machine's last success with an action is on record; what it was hashed from.
Own(m, a) ==
    /\ Key(m, a) \in DOMAIN told
    /\ told[Key(m, a)].by = m
    /\ told[Key(m, a)].event.kind = "success"
Basis(m, a) == told[Key(m, a)].event.input.tree

HashedYet(m, a) ==
    \/ pc[m] \in Executing
    \/ (pc[m] = "judge" /\ at[m] >= a)
    \/ (pc[m] = "hash" /\ at[m] > a)

Succeeded(m, a) == pc[m] = "record" /\ at[m] = a /\ result[m] = "ok"

InPhase(m) ==
    /\ Idle(m) => at[m] = 1 /\ input[m] = [a \in Actions |-> NoHash]
    /\ pc[m] \in {"fetched", "cloning"} => at[m] = 1
    /\ pc[m] \in {"fetched", "cloning", "record"} => at[m] \in stale[m]
    /\ pc[m] = "fetched" => disk[m].git /\ got[m].url = disk[m].origin /\ got[m] # NoTree
    /\ pc[m] = "cloning" => disk[m].git /\ disk[m].tree = NoTree
    /\ pc[m] \in Executing /\ 1 \in stale[m] => 2 \in stale[m]
    /\ pc[m] \in Executing /\ 2 \in stale[m] => 2 \in owed[m]

AllKnown(m) ==
    /\ Known(disk[m].tree) /\ Known(bin[m]) /\ Known(got[m])
    /\ \A a \in Actions : Known(input[m][a].tree) /\ (Own(m, a) => Known(Basis(m, a)))
    /\ disk[m].tree # NoTree => disk[m].git /\ disk[m].tree.url = disk[m].origin

\* The first action: the checkout never goes back behind what it was recorded at.
Cloned(m) ==
    /\ Own(m, 1) => Behind(m, Basis(m, 1))
    /\ pc[m] = "fetched" => Upto(input[m][1].tree, got[m])
    /\ Succeeded(m, 1) => Upto(input[m][1].tree, disk[m].tree)

\* The second, where the checkout is hashed.
Rebuilt(m) ==
    second # "git" =>
      /\ Behind(m, bin[m])
      /\ Behind(m, input[m][2].tree)
      /\ input[m][2].tree # NoTree =>
            disk[m].tree # NoTree /\ disk[m].tree.url = input[m][2].tree.url
      /\ Succeeded(m, 2) =>
            /\ Upto(input[m][2].tree, bin[m])
            /\ input[m][2].tree # NoTree => bin[m].url = input[m][2].tree.url
      /\ Own(m, 2) =>
            /\ Behind(m, Basis(m, 2))
            /\ Upto(Basis(m, 2), bin[m])
            /\ Basis(m, 2) # NoTree /\ bin[m] # NoTree =>
                  (bin[m].url = Basis(m, 2).url \/ 2 \in owed[m])

\* And where the URL alone is.
Reinstalled(m) ==
    second = "git" =>
      /\ HashedYet(m, 2) => input[m][2].tree.url = want[m]
      /\ Succeeded(m, 2) =>
            bin[m].url = input[m][2].tree.url /\ (Own(m, 1) => Upto(Basis(m, 1), bin[m]))
      /\ Own(m, 1) /\ Own(m, 2) /\ 2 \notin owed[m] /\ bin[m] # NoTree =>
            bin[m].url = Basis(m, 2).url /\ Upto(Basis(m, 1), bin[m])

Kept(m) == InPhase(m) /\ AllKnown(m) /\ Cloned(m) /\ Rebuilt(m) /\ Reinstalled(m)

\* What the planner needs to call both actions up to date.
Last(m, a) == IF Key(m, a) \in DOMAIN told THEN told[Key(m, a)].event ELSE NoEvent

CloneDone(m) == Last(m, 1) = Success(CloneInput(m)) /\ disk[m].git
BuildDone(m) ==
    ~Unhashable(m, 2) /\ Last(m, 2) = Success(SecondInput(m)) /\ bin[m] # NoTree

JudgedYet(m, a) ==
    pc[m] \in Executing \/ (pc[m] \in {"hash", "judge"} /\ at[m] > a)

\* While nothing disturbs a machine, its first clean sync sees to the checkout,
\* and the next one to what is built from it.
Calm(m) ==
    /\ calm[m] >= 0 /\ HashedYet(m, 1) => input[m][1] = CloneInput(m)
    /\ calm[m] >= 0 /\ JudgedYet(m, 1) /\ 1 \notin stale[m] => CloneDone(m)
    /\ calm[m] >= 0 /\ pc[m] \in Executing /\ at[m] = 2 => CloneDone(m)
    /\ Succeeded(m, 1) => disk[m].git
    /\ Succeeded(m, 2) => bin[m] # NoTree
    /\ calm[m] >= 1 => CloneDone(m) /\ 1 \notin stale[m]
    /\ calm[m] >= 1 /\ HashedYet(m, 2) => input[m][2] = SecondInput(m) /\ ~Unhashable(m, 2)
    /\ calm[m] >= 1 /\ pc[m] \in Executing /\ 2 \notin stale[m] => BuildDone(m)
    /\ calm[m] = 2 /\ Idle(m) => BuildDone(m)

-----------------------------------------------------------------------------
(* What the planner makes of what is on record.                            *)

Event(e) == e = NoEvent \/ \E kind \in {"success", "failed"} : \E hash : e = EventOf(kind, hash)

\* A cache gives a machine what was told under its key.
LEMMA LastIsTold ==
    ASSUME Inductive, NEW m \in Machines, NEW a \in Actions
    PROVE  LastBuildOf(m, a) = Last(m, a) /\ Event(Last(m, a))
<1> DEFINE key == Key(m, a)
<1>1. CASE key \notin DOMAIN told
    <2>1. LastRecord(m, a) = NoRecord
        BY <1>1 DEF LastRecord, Inductive
    <2>2. LastBuildOf(m, a) = NoEvent
        BY <2>1 DEF LastBuildOf, NoRecord
    <2> QED
        BY <1>1, <2>2 DEF Last, Event
<1>2. CASE key \in DOMAIN told
    <2> DEFINE t == told[key]
    <2>1. PICK kind \in {"success", "failed"} : \E hash : t.event = EventOf(kind, hash)
        BY <1>2, RowReadsBack
    <2>2. \E ms, date : Fetched(backend, rows[key]) = BuildRecord(t.event, ms, date)
        BY <1>2, RowReadsBack
    <2>3. LastBuildOf(m, a) = t.event
        BY <1>2, <2>2 DEF LastBuildOf, LastRecord, BuildRecord, Inductive
    <2> QED
        BY <1>2, <2>1, <2>3 DEF Last, Event
<1> QED
    BY <1>1, <1>2

\* An action is skipped for a recorded success with its input, an artifact that
\* is there and a dependency that is skipped, and for nothing less.
LEMMA SkippedFor ==
    ASSUME NEW m \in Machines, NEW a \in Actions, NEW hash, NEW S \in SUBSET Actions,
           NEW last, Event(last)
    PROVE  VerdictOn(m, a, hash, S, last) = UpToDate
             <=> /\ last = Success(hash) /\ PresentAt(m, a)
                 /\ a = 2 => 1 \notin S
<1> DEFINE present == PresentAt(m, a)
           upstream == MentionsStale(DepsOf(a), S)
<1>1. upstream <=> a = 2 /\ 1 \in S
    BY OneNode DEF MentionsStale, DepsOf
<1>2. CASE last = NoEvent
    <2>1. last # Success(hash)
        BY <1>2 DEF NoEvent, Success
    <2>2. VerdictOn(m, a, hash, S, last) = Because("NoCachedBuild")
        BY <1>2 DEF VerdictOn, Classify, NoEvent
    <2> QED
        BY <2>1, <2>2 DEF Because, UpToDate
<1>3. ASSUME NEW was, last = EventOf("failed", was)
      PROVE  VerdictOn(m, a, hash, S, last) # UpToDate /\ last # Success(hash)
    <2>1. last.kind = "failed" /\ last # NoEvent
        BY <1>3 DEF EventOf, NoEvent
    <2>2. VerdictOn(m, a, hash, S, last) = Because("PreviousFailure")
        BY <2>1 DEF VerdictOn, Classify
    <2> QED
        BY <2>1, <2>2 DEF Because, UpToDate, Success
<1>4. ASSUME NEW was, last = EventOf("success", was)
      PROVE  VerdictOn(m, a, hash, S, last) = UpToDate <=> was = hash /\ present /\ ~upstream
    <2>1. last.kind = "success" /\ last # NoEvent /\ last.input = was
        BY <1>4 DEF EventOf, NoEvent
    <2>2. VerdictOn(m, a, hash, S, last) = SuccessVerdict(DepsOf(a), hash, last, S, present)
        BY <2>1 DEF VerdictOn, Classify
    <2> HIDE DEF present, upstream
    <2> QED
        BY <2>1, <2>2 DEF SuccessVerdict, Because, UpToDate, UpstreamMoved, present, upstream
<1>5. ASSUME NEW was, last = EventOf("success", was)
      PROVE  last = Success(hash) <=> was = hash
    BY <1>5 DEF EventOf, Success
<1> QED
    BY <1>1, <1>2, <1>3, <1>4, <1>5 DEF Event
-----------------------------------------------------------------------------
(* What a batch does to what is on record.                                 *)

Before(m, a) ==
    /\ Own(m, a)' <=> Own(m, a)
    /\ Own(m, a) => Basis(m, a)' = Basis(m, a)
    /\ Last(m, a)' = Last(m, a)

LEMMA KeysStay ==
    ASSUME setup' = setup
    PROVE  second' = second /\ \A m, a : Key(m, a)' = Key(m, a)
BY DEF second, Key, Id

LEMMA UnwrittenRows ==
    ASSUME setup' = setup, told' = told
    PROVE  \A m, a : Before(m, a)
BY KeysStay DEF Before, Own, Basis, Last

\* An action of a machine has a key of its own.
LEMMA OwnKeysApart ==
    ASSUME setup \in Setups, NEW m \in Machines, NEW a \in Actions, NEW b \in Actions,
           Key(m, a) = Key(m, b)
    PROVE  a = b
<1>1. setup.ns[m] \in Seq(Parts)
    BY SetupTypes DEF Parts
<1>2. Prefixed(setup.ns[m], Id(a)) = Prefixed(setup.ns[m], Id(b))
    BY DEF Key
<1>3. Id(a) = Id(b)
    BY <1>1, <1>2, IdShape, PrefixesKeepApart
<1>4. Id(a)[3] = a - 1 /\ Id(b)[3] = b - 1
    BY DEF Id
<1>5. a \in Int /\ b \in Int
    BY OneNode
<1> QED
    BY <1>3, <1>4, <1>5

LEMMA WrittenRows ==
    ASSUME Types, NEW m \in Machines, Written(m), setup' = setup,
           NEW a, a = at[m]
    PROVE  /\ Last(m, a)' = EventAt(m)
           /\ Own(m, a)' <=> result[m] = "ok"
           /\ result[m] = "ok" => Basis(m, a)' = input[m][a].tree
           /\ \A b \in Actions \ {a} : Before(m, b)
           /\ \A n \in Machines \ {m}, b \in Actions :
                /\ Own(n, b)' => Own(n, b) /\ Basis(n, b)' = Basis(n, b)
                /\ n \notin Sharing(m) => Before(n, b)
<1> DEFINE k == Key(m, a)
           word == [by |-> m, event |-> EventAt(m), ms |-> Took[a]]
<1>0. setup \in Setups /\ a \in Actions
    BY DEF Types, Inductive
<1>1. told' = Keep(told, k, word)
    BY DEF Written
<1>2. /\ DOMAIN told' = DOMAIN told \cup {k}
      /\ told'[k] = word
      /\ \A key \in DOMAIN told \ {k} : told'[key] = told[key]
    BY <1>1 DEF Keep
<1>3. \A n, b : Key(n, b)' = Key(n, b)
    BY KeysStay
<1>4. ASSUME NEW n \in Machines, NEW b \in Actions, Key(n, b) # k
      PROVE  Before(n, b)
    BY <1>2, <1>3, <1>4 DEF Before, Own, Basis, Last
<1>5. Last(m, a)' = EventAt(m)
    BY <1>2, <1>3 DEF Last
<1>6. Own(m, a)' <=> result[m] = "ok"
    BY <1>2, <1>3 DEF Own, EventAt, Success, Failed
<1>7. result[m] = "ok" => Basis(m, a)' = input[m][a].tree
    BY <1>2, <1>3 DEF Basis, EventAt, Success
<1>8. \A b \in Actions \ {a} : Before(m, b)
    BY <1>0, <1>4, OwnKeysApart
<1>9. ASSUME NEW n \in Machines \ {m}, NEW b \in Actions
      PROVE  /\ Own(n, b)' => Own(n, b) /\ Basis(n, b)' = Basis(n, b)
             /\ n \notin Sharing(m) => Before(n, b)
    <2>1. CASE Key(n, b) = k
        <3>1. ~Own(n, b)'
            BY <1>2, <1>3, <2>1 DEF Own
        <3>2. n \in Sharing(m)
            BY <1>0, <2>1, SharedKeyIsSharedNamespace DEF Sharing
        <3> QED
            BY <3>1, <3>2
    <2>2. CASE Key(n, b) # k
        BY <1>4, <2>2 DEF Before
    <2> QED
        BY <2>1, <2>2
<1> QED
    BY <1>5, <1>6, <1>7, <1>8, <1>9
-----------------------------------------------------------------------------
(* Types of every step.                                                    *)

LEMMA ValueTypes ==
    ASSUME Types
    PROVE  /\ NoTree \in Commits
           /\ \A u \in Urls : Tip(u) \in Commits /\ Tip(u).url = u /\ Tip(u).version = head[u]
           /\ Absent \in Checkouts
           /\ \A u \in Urls \cup {NoUrl} : Half(u) \in Checkouts
           /\ \A u \in Urls \cup {NoUrl}, t \in Commits : Whole(u, t) \in Checkouts
           /\ NoHash \in InputHash
           /\ \A m \in Machines, a \in Actions : InputOf(m, a) \in InputHash
<1> USE DEF Commits, NoTree
<1>1. NoTree \in Commits
    OBVIOUS
<1>2. \A u \in Urls : Tip(u) \in Commits /\ Tip(u).url = u /\ Tip(u).version = head[u]
    BY DEF Tip, Commit, Types, Typed
<1>3. /\ Absent \in Checkouts
      /\ \A u \in Urls \cup {NoUrl} : Half(u) \in Checkouts
      /\ \A u \in Urls \cup {NoUrl}, t \in Commits : Whole(u, t) \in Checkouts
    BY DEF Absent, Half, Whole, Checkouts
<1>4. \A w \in Words, t \in Commits : HashOf(w, t) \in InputHash
    BY DEF HashOf, InputHash, Words
<1>5. NoHash \in InputHash
    <2>1. NoHash = HashOf("nothing", NoTree)
        BY DEF NoHash, HashOf
    <2> HIDE DEF Commits, NoTree
    <2> QED
        BY <1>1, <1>4, <2>1 DEF Words
<1>6. ASSUME NEW m \in Machines, NEW a \in Actions
      PROVE  InputOf(m, a) \in InputHash
    <2>1. want[m] \in Urls /\ disk[m].tree \in Commits
        BY DEF Types, Typed, Checkouts
    <2>2. Commit(want[m], 0) \in Commits
        BY <2>1 DEF Commit
    <2> HIDE DEF Commits, NoTree
    <2> QED
        BY <1>1, <1>2, <1>4, <2>1, <2>2 DEF InputOf, CloneInput, SecondInput, ContentInput, Words
<1> QED
    BY <1>1, <1>2, <1>3, <1>5, <1>6

LEMMA HomeTyped ==
    ASSUME Types, NEW m \in Machines, Home(m)
    PROVE  /\ got' \in [Machines -> Commits] /\ pc' \in [Machines -> Phases]
           /\ input' \in [Machines -> [Actions -> InputHash]]
           /\ stale' \in [Machines -> SUBSET Actions]
           /\ result' \in [Machines -> {"none", "ok", "failed", "cancelled"}]
<1>1. NoTree \in Commits /\ [a \in Actions |-> NoHash] \in [Actions -> InputHash]
    BY ValueTypes
<1> QED
    BY <1>1 DEF Home, Types, Typed, Phases, InputHash

LEMMA CalmTyped ==
    ASSUME Types, NEW m \in Machines, NEW ok \in BOOLEAN
    PROVE  EndsCalm(m, ok) \in Int
BY DEF EndsCalm, Types, Typed

LEMMA DisturbedTyped ==
    ASSUME Types, NEW ms, Disturbed(ms)
    PROVE  calm' \in [Machines -> Int]
BY DEF Disturbed, Types, Typed

LEMMA StepTyped ==
    ASSUME Types, NEW m \in Machines, Step(m)
    PROVE  Typed'
<1>0. /\ Typed /\ 1 \in Actions /\ 2 \in Actions /\ at[m] \in Actions
      /\ NoTree \in Commits
      /\ \A u \in Urls : Tip(u) \in Commits
      /\ \A u \in Urls \cup {NoUrl} : Half(u) \in Checkouts
      /\ \A u \in Urls \cup {NoUrl}, t \in Commits : Whole(u, t) \in Checkouts
      /\ \A a \in Actions : InputOf(m, a) \in InputHash
      /\ want[m] \in Urls /\ disk[m] \in Checkouts
    BY ValueTypes, OneNode DEF Types, Typed, Checkouts, InputHash, Inductive
<1>c. EndsCalm(m, TRUE) \in Int /\ EndsCalm(m, FALSE) \in Int
    BY CalmTyped
<1> USE DEF Typed, store, places, local
<1>1. CASE StartSync(m)
    BY <1>0, <1>1 DEF StartSync, Phases
<1>2. CASE Hash(m)
    BY <1>0, <1>2 DEF Hash, Phases
<1>3. CASE PlanRefused(m)
    BY <1>0, <1>3, HomeTyped DEF PlanRefused, PlanEnds
<1>4. CASE Judge(m)
    BY <1>0, <1>4 DEF Judge, Decide, Phases
<1>5. CASE SkipLayer(m)
    BY <1>0, <1>c, <1>5, HomeTyped DEF SkipLayer
<1>6. CASE Fetch(m)
    <2>1. disk[m].origin \in Urls
        BY <1>0, <1>6 DEF Fetch, Checkouts
    <2> QED
        BY <1>0, <1>6, <2>1 DEF Fetch, Phases
<1>7. CASE FetchRefused(m)
    BY <1>0, <1>7 DEF FetchRefused, Returns, Phases
<1>8. CASE Reset(m)
    <2>1. Whole(disk[m].origin, got[m]) \in Checkouts
        BY <1>0 DEF Checkouts
    <2> QED
        BY <1>0, <1>8, <2>1 DEF Reset, Returns, Phases
<1>9. CASE StartClone(m)
    BY <1>0, <1>9 DEF StartClone, Phases
<1>10. CASE FinishClone(m)
    BY <1>0, <1>10 DEF FinishClone, Returns, Phases
<1>11. ASSUME NEW from \in Commits, Build(m, from) PROVE Typed'
    BY <1>0, <1>11 DEF Build, Returns, Phases
<1>12. CASE Install(m) \/ DockerBuild(m)
    <2>1. Tip(want[m]) \in Commits /\ disk[m].tree \in Commits
        BY <1>0 DEF Checkouts
    <2> QED
        BY <1>11, <1>12, <2>1 DEF Install, DockerBuild
<1>13. CASE Record(m)
    <2>1. CASE result[m] = "ok" /\ at[m] = 1
        <3>1. calm' \in [Machines -> Int]
            BY <1>13, <2>1, DisturbedTyped DEF Record
        <3> QED
            BY <1>0, <1>13, <2>1, <3>1 DEF Record, Phases
    <2>2. CASE ~(result[m] = "ok" /\ at[m] = 1)
        <3>1. EndsCalm(m, result[m] = "ok") \in Int
            BY CalmTyped
        <3>2. calm' \in [Machines -> Int]
            BY <1>0, <1>13, <2>2, <3>1 DEF Record
        <3> QED
            BY <1>0, <1>13, <2>2, <3>2, HomeTyped DEF Record
    <2> QED
        BY <2>1, <2>2
<1> QED
    BY <1>1, <1>2, <1>3, <1>4, <1>5, <1>6, <1>7, <1>8, <1>9, <1>10, <1>12, <1>13 DEF Step

LEMMA MisstepTyped ==
    ASSUME Types, NEW m \in Machines, Misstep(m)
    PROVE  Typed'
<1>0. /\ Typed /\ at[m] \in Actions /\ NoTree \in Commits /\ Absent \in Checkouts
    BY ValueTypes DEF Types, Typed, Checkouts, InputHash, Inductive
<1> USE DEF Typed, store, places, local
<1>1. CASE PlanFails(m)
    BY <1>0, <1>1, HomeTyped DEF PlanFails, PlanEnds
<1>2. CASE JudgeUnread(m)
    BY <1>0, <1>2 DEF JudgeUnread, Decide, Phases
<1>3. CASE CloneFails(m)
    BY <1>0, <1>3 DEF CloneFails, Returns, Phases
<1>4. CASE StepFails(m)
    BY <1>0, <1>4 DEF StepFails, Returns, Phases
<1>5. CASE Cancelled(m)
    BY <1>0, <1>5 DEF Cancelled, Returns, Phases
<1>6. CASE Crash(m)
    BY <1>0, <1>6, HomeTyped DEF Crash
<1>7. CASE RecordFails(m)
    BY <1>0, <1>7, HomeTyped DEF RecordFails
<1> QED
    BY <1>1, <1>2, <1>3, <1>4, <1>5, <1>6, <1>7 DEF Misstep

LEMMA WorldTyped ==
    ASSUME Types,
           UNCHANGED vars \/ (\E u \in Urls : Push(u))
             \/ \E m \in Machines : EditUrl(m) \/ LoseArtifact(m)
    PROVE  Typed'
<1>0. Typed /\ NoTree \in Commits /\ Absent \in Checkouts
    BY ValueTypes DEF Types, Typed, Checkouts, InputHash
<1> USE DEF Typed, store, places, local
<1>1. CASE UNCHANGED vars
    BY <1>0, <1>1 DEF vars
<1>2. ASSUME NEW u \in Urls, Push(u) PROVE Typed'
    <2>1. calm' \in [Machines -> Int]
        BY <1>2, DisturbedTyped DEF Push
    <2> QED
        BY <1>0, <1>2, <2>1 DEF Push
<1>3. ASSUME NEW m \in Machines, EditUrl(m) PROVE Typed'
    <2>1. calm' \in [Machines -> Int]
        BY <1>3, DisturbedTyped DEF EditUrl
    <2> QED
        BY <1>0, <1>3, <2>1 DEF EditUrl
<1>4. ASSUME NEW m \in Machines, LoseArtifact(m) PROVE Typed'
    <2>1. calm' \in [Machines -> Int]
        BY <1>4, DisturbedTyped DEF LoseArtifact
    <2>2. CASE disk' = [disk EXCEPT ![m] = Absent] /\ UNCHANGED bin
        BY <1>0, <1>4, <2>1, <2>2 DEF LoseArtifact
    <2>3. CASE bin' = [bin EXCEPT ![m] = NoTree] /\ UNCHANGED disk
        BY <1>0, <1>4, <2>1, <2>3 DEF LoseArtifact
    <2> QED
        BY <1>4, <2>2, <2>3 DEF LoseArtifact
<1> QED
    BY <1>1, <1>2, <1>3, <1>4

LEMMA NextTypes == Types /\ [Next]_vars => Types'
<1> SUFFICES ASSUME Types, [Next]_vars PROVE Types'
    OBVIOUS
<1>1. Inductive'
    BY NextInductive DEF Types, Typed
<1>2. Typed'
    BY StepTyped, MisstepTyped, WorldTyped DEF Next
<1> QED
    BY <1>1, <1>2 DEF Types, Typed, Checkouts, InputHash
-----------------------------------------------------------------------------
(* What others do to a machine.                                            *)

\* Its files, its plan and where it is.
Same(m) ==
    /\ want'[m] = want[m] /\ disk'[m] = disk[m] /\ bin'[m] = bin[m]
    /\ pc'[m] = pc[m] /\ at'[m] = at[m] /\ input'[m] = input[m] /\ stale'[m] = stale[m]
    /\ got'[m] = got[m] /\ result'[m] = result[m] /\ owed'[m] = owed[m]

Forward == \A u \in Urls : head[u] <= head'[u]

\* Its own records are gone or as they were.
NoneOfItsOwn(m) == \A a \in Actions : Own(m, a)' => Own(m, a) /\ Basis(m, a)' = Basis(m, a)

LEMMA KnownStays ==
    ASSUME Types, Types', Forward, NEW t, Known(t)
    PROVE  Known(t)'
BY DEF Types, Typed, Forward, Known

LEMMA OthersKeep ==
    ASSUME Types, Types', setup' = setup, Forward,
           NEW m \in Machines, Kept(m), Same(m), NoneOfItsOwn(m)
    PROVE  Kept(m)'
<1>0. second' = second /\ 1 \in Actions /\ 2 \in Actions
    BY KeysStay, OneNode
<1> USE DEF Kept
<1>1. InPhase(m)'
    BY DEF Same, InPhase, Idle
<1>2. AllKnown(m)'
    <2>1. \A t : Known(t) => Known(t)'
        BY KnownStays
    <2>2. Known(disk[m].tree)' /\ Known(bin[m])' /\ Known(got[m])'
        BY <2>1 DEF AllKnown, Same, Known
    <2>3. ASSUME NEW a \in Actions
          PROVE  Known(input[m][a].tree)' /\ (Own(m, a) => Known(Basis(m, a)))'
        BY <2>1 DEF AllKnown, Same, Known, NoneOfItsOwn
    <2> QED
        BY <2>2, <2>3 DEF AllKnown, Same
<1>3. Cloned(m)'
    BY <1>0 DEF Cloned, Same, NoneOfItsOwn, Behind, Upto, Succeeded
<1>4. Rebuilt(m)'
    BY <1>0 DEF Rebuilt, Same, NoneOfItsOwn, Behind, Upto, Succeeded
<1>5. Reinstalled(m)'
    BY <1>0 DEF Reinstalled, Same, NoneOfItsOwn, Upto, Succeeded, HashedYet
<1> QED
    BY <1>1, <1>2, <1>3, <1>4, <1>5

\* Undisturbed, or known to be disturbed.
LEMMA OthersStayCalm ==
    ASSUME Types, Types', setup' = setup, NEW m \in Machines, Calm(m), Same(m),
           \/ calm'[m] = calm[m] /\ head' = head /\ \A a \in Actions : Last(m, a)' = Last(m, a)
           \/ calm'[m] = IF Idle(m) THEN 0 ELSE -1
    PROVE  Calm(m)'
<1>0. second' = second /\ 1 \in Actions /\ 2 \in Actions
    BY KeysStay, OneNode
<1>1. CASE calm'[m] = calm[m] /\ head' = head /\ \A a \in Actions : Last(m, a)' = Last(m, a)
    <2>1. CloneInput(m)' = CloneInput(m) /\ SecondInput(m)' = SecondInput(m)
          /\ Unhashable(m, 2)' = Unhashable(m, 2)
        BY <1>0, <1>1 DEF Same, CloneInput, SecondInput, ContentInput, Unhashable, Tip
    <2>2. CloneDone(m)' = CloneDone(m) /\ BuildDone(m)' = BuildDone(m)
        BY <1>0, <1>1, <2>1 DEF Same, CloneDone, BuildDone
    <2> QED
        BY <1>1, <2>1, <2>2 DEF Calm, Same, Idle, HashedYet, JudgedYet, Succeeded
<1>2. CASE calm'[m] = IF Idle(m) THEN 0 ELSE -1
    BY <1>2 DEF Calm, Same, Idle, HashedYet, JudgedYet, Succeeded, Executing
<1> QED
    BY <1>1, <1>2
-----------------------------------------------------------------------------
(* What a machine's own steps keep.                                        *)

\* What the records say of the files alone.
RowsAgree(m) ==
    /\ \A a \in Actions : Own(m, a) => Known(Basis(m, a))
    /\ Own(m, 1) => Upto(Basis(m, 1), disk[m].tree)
    /\ second # "git" /\ Own(m, 2) =>
         /\ Upto(Basis(m, 2), disk[m].tree) /\ Upto(Basis(m, 2), bin[m])
         /\ Basis(m, 2) # NoTree /\ bin[m] # NoTree =>
               (bin[m].url = Basis(m, 2).url \/ 2 \in owed[m])
    /\ second = "git" /\ Own(m, 1) /\ Own(m, 2) /\ 2 \notin owed[m] /\ bin[m] # NoTree =>
         bin[m].url = Basis(m, 2).url /\ Upto(Basis(m, 1), bin[m])

LEMMA HomeKeeps ==
    ASSUME Types, Types', setup' = setup, head' = head, NEW m \in Machines, Kept(m),
           Home(m), disk'[m] = disk[m], bin'[m] = bin[m], want'[m] = want[m], RowsAgree(m)'
    PROVE  Kept(m)'
<1>0. second' = second /\ 1 \in Actions /\ 2 \in Actions
    BY KeysStay, OneNode
<1>1. /\ pc'[m] = "idle" /\ at'[m] = 1 /\ stale'[m] = {} /\ got'[m] = NoTree
      /\ input'[m] = [a \in Actions |-> NoHash]
    BY DEF Home, Types, Typed, Inductive
<1>2. \A a \in Actions : input'[m][a].tree = NoTree
    BY <1>1 DEF NoHash
<1>3. Known(NoTree) /\ (\A t : Known(t)' <=> Known(t))
    BY DEF Known
<1>e. /\ \A s \in Commits : Upto(NoTree, s)
      /\ disk'[m].tree \in Commits /\ got'[m] \in Commits /\ bin'[m] \in Commits
    BY DEF Upto, NoTree, Commits, Types, Typed, Checkouts
<1> USE DEF Kept
<1>4. InPhase(m)'
    BY <1>1 DEF InPhase, Idle, Executing
<1>5. AllKnown(m)'
    BY <1>1, <1>2, <1>3 DEF AllKnown, RowsAgree
<1>6. Cloned(m)'
    BY <1>0, <1>1 DEF Cloned, Behind, RowsAgree, Succeeded
<1>7. Rebuilt(m)'
    BY <1>0, <1>1, <1>2, <1>3, <1>e DEF Rebuilt, Behind, RowsAgree, Succeeded
<1>8. Reinstalled(m)'
    BY <1>0, <1>1 DEF Reinstalled, RowsAgree, Succeeded, HashedYet, Executing
<1> QED
    BY <1>4, <1>5, <1>6, <1>7, <1>8
\* The records are as they were, and so is what they speak of.
LEMMA RowsAgreeStill ==
    ASSUME Types, setup' = setup, told' = told, head' = head, NEW m \in Machines, Kept(m),
           disk'[m] = disk[m], bin'[m] = bin[m], owed[m] \subseteq owed'[m]
    PROVE  RowsAgree(m)'
<1>1. second' = second /\ 1 \in Actions /\ 2 \in Actions /\ \A t : Known(t)' <=> Known(t)
    BY KeysStay, OneNode DEF Known
<1>2. \A a \in Actions : Before(m, a)
    BY UnwrittenRows
<1> QED
    BY <1>1, <1>2 DEF RowsAgree, Before, Kept, AllKnown, Cloned, Rebuilt, Reinstalled, Behind, Upto

\* Everything the invariant speaks of but where the sync is.
Undone(m) ==
    /\ setup' = setup /\ head' = head /\ told' = told
    /\ want' = want /\ disk' = disk /\ bin' = bin

LEMMA PlanningKeeps ==
    ASSUME Types, Types', NEW m \in Machines, Kept(m),
           StartSync(m) \/ Hash(m) \/ Judge(m) \/ JudgeUnread(m)
    PROVE  Kept(m)'
<1>0. /\ 1 \in Actions /\ 2 \in Actions /\ at[m] \in {1, 2}
      /\ NoTree \in Commits
    BY OneNode, ValueTypes DEF Types, Inductive
<1>u. Undone(m) /\ second' = second
    BY KeysStay DEF Undone, StartSync, Hash, Judge, JudgeUnread, Decide, store, places
<1>r. \A a \in Actions : Before(m, a)
    BY <1>u, UnwrittenRows DEF Undone
<1>k. \A t : Known(t)' <=> Known(t)
    BY <1>u DEF Known, Undone
<1> USE DEF Kept
<1>1. CASE StartSync(m)
    <2>1. /\ pc[m] = "idle" /\ pc'[m] = "hash" /\ at' = at /\ input' = input /\ stale' = stale
          /\ got' = got /\ result' = result /\ owed' = owed
        BY <1>1 DEF StartSync, Idle, Types, Typed
    <2>2. InPhase(m)' /\ AllKnown(m)' /\ Cloned(m)' /\ Rebuilt(m)' /\ Reinstalled(m)'
        BY <1>0, <1>u, <1>r, <1>k, <2>1 DEF Undone, Before, InPhase, Idle, Executing, AllKnown,
           Cloned, Rebuilt, Reinstalled, Behind, Upto, Succeeded, HashedYet
    <2> QED
        BY <2>2
<1>2. CASE Hash(m)
    <2>0. /\ pc[m] = "hash" /\ pc'[m] = "judge" /\ at' = at /\ stale' = stale
          /\ got' = got /\ result' = result /\ owed' = owed
          /\ input'[m][at[m]] = InputOf(m, at[m])
          /\ \A a \in Actions \ {at[m]} : input'[m][a] = input[m][a]
        BY <1>0, <1>2 DEF Hash, Types, Typed
    <2>1. InputOf(m, 1).tree = Tip(want[m]) /\ Known(Tip(want[m]))
        BY ValueTypes DEF InputOf, CloneInput, HashOf, Known, Types, Typed, Tip, Commit
    <2>2. second # "git" => InputOf(m, 2).tree = disk[m].tree \/ InputOf(m, 2).tree = NoTree
        BY DEF InputOf, SecondInput, ContentInput, HashOf
    <2>3. second = "git" => InputOf(m, 2).tree = Commit(want[m], 0) /\ Known(Commit(want[m], 0))
        BY DEF InputOf, SecondInput, HashOf, Known, Commit, Types, Typed
    <2>4. InPhase(m)'
        BY <1>u, <2>0 DEF Undone, InPhase, Idle, Executing
    <2>5. AllKnown(m)'
        <3>1. Known(InputOf(m, at[m]).tree)
            BY <1>0, <2>1, <2>2, <2>3 DEF AllKnown, Known
        <3> QED
            BY <1>0, <1>u, <1>r, <1>k, <2>0, <3>1 DEF Undone, Before, AllKnown
    <2>6. Cloned(m)'
        BY <1>0, <1>u, <1>r, <2>0 DEF Undone, Before, Cloned, Behind, Upto, Succeeded
    <2>7. Rebuilt(m)'
        <3>1. \A a \in Actions : InputOf(m, a).tree \in Commits
            BY ValueTypes DEF InputHash
        <3>2. disk[m].tree \in Commits
            BY DEF Types, Typed, Checkouts
        <3> QED
            BY <1>0, <1>u, <1>r, <2>0, <2>2, <3>1, <3>2, UrlsAssumption
            DEF Undone, Before, Rebuilt, Behind, Upto, Succeeded, NoTree, Commits
    <2>8. Reinstalled(m)'
        BY <1>0, <1>u, <1>r, <2>0, <2>3
        DEF Undone, Before, Reinstalled, Upto, Succeeded, HashedYet, Executing, Commit
    <2> QED
        BY <2>4, <2>5, <2>6, <2>7, <2>8
<1>3. ASSUME NEW last, Event(last), Decide(m, last), pc[m] = "judge"
      PROVE  Kept(m)'
    <2>0. /\ pc'[m] = IF at[m] = 1 THEN "hash" ELSE "start"
          /\ at'[m] = IF at[m] = 1 THEN 2 ELSE 1
          /\ input' = input /\ got' = got /\ result' = result
          /\ stale[m] \subseteq stale'[m]
          /\ owed[m] \subseteq owed'[m]
          /\ at[m] = 2 => stale'[m] \subseteq owed'[m]
        BY <1>0, <1>3 DEF Decide, Types, Typed, Inductive
    <2>1. at[m] = 2 /\ 1 \in stale[m] => 2 \in stale'[m]
        <3> SUFFICES ASSUME at[m] = 2, 1 \in stale[m] PROVE 2 \in stale'[m]
            OBVIOUS
        <3>s. stale[m] \in SUBSET Actions
            BY DEF Types, Typed
        <3>1. VerdictOn(m, 2, input[m][2], stale[m], last) # UpToDate
            BY ONLY <1>0, <1>3, <3>s, SkippedFor, m \in Machines, at[m] = 2, 1 \in stale[m]
        <3> QED
            BY <1>0, <1>3, <3>1 DEF Decide, Types, Typed
    <2>2. at[m] = 2 /\ 1 \notin stale[m] => 1 \notin stale'[m]
        BY <1>0, <1>3 DEF Decide, Types, Typed
    <2>3. InPhase(m)'
        BY <1>0, <1>3, <1>u, <2>0, <2>1, <2>2 DEF Undone, InPhase, Idle, Executing
    <2>4. AllKnown(m)'
        BY <1>0, <1>u, <1>r, <1>k, <2>0 DEF Undone, Before, AllKnown
    <2>5. Cloned(m)' /\ Rebuilt(m)'
        BY <1>0, <1>3, <1>u, <1>r, <2>0
        DEF Undone, Before, Cloned, Rebuilt, Behind, Upto, Succeeded
    <2>6. Reinstalled(m)'
        BY <1>0, <1>3, <1>u, <1>r, <2>0
        DEF Undone, Before, Reinstalled, Upto, Succeeded, HashedYet, Executing
    <2> QED
        BY <2>3, <2>4, <2>5, <2>6
<1>4. CASE Judge(m)
    <2>1. Event(LastBuildOf(m, at[m]))
        BY <1>0, LastIsTold DEF Types
    <2> QED
        BY <1>3, <1>4, <2>1 DEF Judge
<1>5. CASE JudgeUnread(m)
    BY <1>3, <1>5 DEF JudgeUnread, Event
<1> QED
    BY <1>1, <1>2, <1>4, <1>5
\* A step that fails, or is interrupted, leaves at most a clone it takes away.
LEMMA FailingKeeps ==
    ASSUME Types, Types', NEW m \in Machines, Kept(m),
           setup' = setup, NEW r, Returns(m, r), r # "ok",
           pc[m] \in Executing, at[m] \in stale[m], bin' = bin, got'[m] \in {got[m], NoTree},
           disk'[m] = disk[m] \/ (disk'[m] = Absent /\ disk[m].tree = NoTree)
    PROVE  Kept(m)'
<1>0. /\ 1 \in Actions /\ 2 \in Actions /\ at[m] \in {1, 2} /\ second' = second
      /\ \A a \in Actions : Before(m, a)
      /\ \A t : Known(t)' <=> Known(t)
      /\ pc'[m] = "record" /\ result'[m] # "ok" /\ at' = at /\ input' = input /\ stale' = stale
      /\ owed' = owed /\ want' = want /\ disk'[m].tree = disk[m].tree
    BY OneNode, KeysStay, UnwrittenRows
    DEF Returns, Known, store, Types, Typed, Inductive, Absent
<1>1. Known(NoTree)
    BY DEF Known
<1> USE DEF Kept
<1>2. InPhase(m)'
    BY <1>0 DEF InPhase, Idle, Executing
<1>3. AllKnown(m)'
    BY <1>0, <1>1 DEF AllKnown, Before
<1>4. Cloned(m)' /\ Rebuilt(m)'
    BY <1>0 DEF Cloned, Rebuilt, Before, Behind, Upto, Succeeded
<1>5. Reinstalled(m)'
    BY <1>0 DEF Reinstalled, Before, Upto, Succeeded, HashedYet, Executing
<1> QED
    BY <1>2, <1>3, <1>4, <1>5

\* A clone or a fetch, from the remote's HEAD on, is newer than all there was.
LEMMA NewerThanAll ==
    ASSUME Types, NEW u \in Urls
    PROVE  /\ Known(Tip(u)) /\ Tip(u) # NoTree /\ Tip(u).url = u
           /\ \A t : Known(t) => Upto(t, Tip(u))
BY UrlsAssumption DEF Types, Typed, Known, Upto, Tip, Commit, NoTree

LEMMA OlderThanNone ==
    ASSUME Types, NEW t, Known(t)
    PROVE  Upto(t, NoTree)
BY UrlsAssumption DEF Types, Typed, Known, Upto, NoTree

LEMMA CloningKeeps ==
    ASSUME Types, Types', NEW m \in Machines, Kept(m),
           Fetch(m) \/ Reset(m) \/ StartClone(m) \/ FinishClone(m)
    PROVE  Kept(m)'
<1>0. /\ 1 \in Actions /\ 2 \in Actions /\ at[m] \in {1, 2} /\ want[m] \in Urls
      /\ disk[m] \in Checkouts /\ got[m] \in Commits /\ NoTree \in Commits
    BY OneNode, ValueTypes DEF Types, Typed, Inductive
<1>u. setup' = setup /\ second' = second /\ head' = head /\ told' = told
    BY KeysStay DEF Fetch, Reset, StartClone, FinishClone, Returns, store
<1>r. \A a \in Actions : Before(m, a)
    BY <1>u, UnwrittenRows
<1>k. \A t : Known(t)' <=> Known(t)
    BY <1>u DEF Known
<1>s. /\ want' = want /\ bin' = bin /\ at' = at /\ input' = input /\ stale' = stale
      /\ owed' = owed
    BY DEF Fetch, Reset, StartClone, FinishClone, Returns, places
<1> USE DEF Kept
<1>1. CASE Fetch(m)
    <2> DEFINE new == Tip(disk[m].origin)
    <2>0. /\ pc[m] = "start" /\ at[m] = 1 /\ 1 \in stale[m] /\ disk[m].git
          /\ disk[m].origin \in Urls /\ disk' = disk
          /\ pc'[m] = "fetched" /\ got'[m] = new /\ result' = result
        BY <1>0, <1>1 DEF Fetch, Runs, Types, Typed, Checkouts, places
    <2>1. /\ Known(new) /\ new # NoTree /\ new.url = disk[m].origin
          /\ \A t : Known(t) => Upto(t, new)
        BY <2>0, NewerThanAll
    <2> HIDE DEF new
    <2>2. InPhase(m)'
        BY <1>s, <2>0, <2>1 DEF InPhase, Idle, Executing
    <2>3. AllKnown(m)'
        BY <1>r, <1>k, <1>s, <2>0, <2>1 DEF AllKnown, Before
    <2>4. Cloned(m)' /\ Rebuilt(m)'
        BY <1>0, <1>u, <1>r, <1>s, <2>0, <2>1
        DEF Cloned, Rebuilt, AllKnown, Before, Behind, Upto, Succeeded
    <2>5. Reinstalled(m)'
        BY <1>0, <1>u, <1>r, <1>s, <2>0
        DEF Reinstalled, Before, Upto, Succeeded, HashedYet, Executing
    <2> QED
        BY <2>2, <2>3, <2>4, <2>5
<1>2. CASE Reset(m)
    <2>0. /\ pc[m] = "fetched" /\ pc'[m] = "record" /\ result'[m] = "ok"
          /\ got'[m] = NoTree
          /\ disk'[m].git /\ disk'[m].origin = disk[m].origin /\ disk'[m].tree = got[m]
        BY <1>0, <1>2 DEF Reset, Returns, Types, Typed, Whole
    <2>1. Known(NoTree)
        BY DEF Known
    <2>2. InPhase(m)'
        BY <1>s, <2>0 DEF InPhase, Idle, Executing
    <2>3. AllKnown(m)'
        BY <1>r, <1>k, <1>s, <2>0, <2>1 DEF AllKnown, InPhase, Before
    <2>4. Cloned(m)'
        BY <1>0, <1>u, <1>r, <1>s, <2>0
        DEF Cloned, InPhase, Before, Behind, Upto, Succeeded
    <2>5. Rebuilt(m)'
        BY <1>0, <1>u, <1>r, <1>s, <2>0
        DEF Rebuilt, InPhase, AllKnown, Before, Behind, Upto, Succeeded
    <2>6. Reinstalled(m)'
        BY <1>0, <1>u, <1>r, <1>s, <2>0
        DEF Reinstalled, InPhase, Before, Upto, Succeeded, HashedYet, Executing
    <2> QED
        BY <2>2, <2>3, <2>4, <2>5, <2>6
<1>3. CASE StartClone(m)
    <2>0. /\ pc[m] = "start" /\ at[m] = 1 /\ 1 \in stale[m] /\ ~disk[m].git
          /\ disk'[m].git /\ disk'[m].tree = NoTree
          /\ pc'[m] = "cloning" /\ got' = got /\ result' = result
        BY <1>0, <1>3 DEF StartClone, Runs, Types, Typed, Half
    <2>1. disk[m].tree = NoTree /\ Known(NoTree)
        BY <2>0 DEF AllKnown, Known
    <2>2. InPhase(m)'
        BY <1>s, <2>0 DEF InPhase, Idle, Executing
    <2>3. AllKnown(m)'
        BY <1>r, <1>k, <1>s, <2>0, <2>1 DEF AllKnown, Before
    <2>4. Cloned(m)' /\ Rebuilt(m)'
        BY <1>0, <1>u, <1>r, <1>s, <2>0, <2>1
        DEF Cloned, Rebuilt, Before, Behind, Upto, Succeeded
    <2>5. Reinstalled(m)'
        BY <1>0, <1>u, <1>r, <1>s, <2>0
        DEF Reinstalled, Before, Upto, Succeeded, HashedYet, Executing
    <2> QED
        BY <2>2, <2>3, <2>4, <2>5
<1>4. CASE FinishClone(m)
    <2> DEFINE new == Tip(want[m])
    <2>0. /\ pc[m] = "cloning" /\ pc'[m] = "record" /\ result'[m] = "ok" /\ got' = got
          /\ disk'[m].git /\ disk'[m].origin = want[m] /\ disk'[m].tree = new
        BY <1>0, <1>4 DEF FinishClone, Returns, Types, Typed, Whole
    <2>1. /\ Known(new) /\ new # NoTree /\ new.url = want[m]
          /\ \A t : Known(t) => Upto(t, new)
        BY <1>0, NewerThanAll
    <2> HIDE DEF new
    <2>2. InPhase(m)'
        BY <1>s, <2>0 DEF InPhase, Idle, Executing
    <2>3. AllKnown(m)'
        BY <1>r, <1>k, <1>s, <2>0, <2>1 DEF AllKnown, Before
    <2>4. Cloned(m)'
        BY <1>0, <1>u, <1>r, <1>s, <2>0, <2>1
        DEF Cloned, InPhase, AllKnown, Before, Behind, Upto, Succeeded
    <2>5. Rebuilt(m)'
        <3>1. second # "git" => input[m][2].tree = NoTree
            BY <2>0 DEF InPhase, Rebuilt
        <3>2. \A t : Known(t) => Behind(m, t)'
            BY <2>0, <2>1 DEF Behind
        <3> QED
            BY <1>0, <1>u, <1>r, <1>s, <2>0, <3>1, <3>2
            DEF Rebuilt, AllKnown, InPhase, Before, Behind, Upto, Succeeded
    <2>6. Reinstalled(m)'
        BY <1>0, <1>u, <1>r, <1>s, <2>0
        DEF Reinstalled, InPhase, Before, Upto, Succeeded, HashedYet, Executing
    <2> QED
        BY <2>2, <2>3, <2>4, <2>5, <2>6
<1> QED
    BY <1>1, <1>2, <1>3, <1>4
LEMMA BuildKeeps ==
    ASSUME Types, Types', NEW m \in Machines, Kept(m), Install(m) \/ DockerBuild(m)
    PROVE  Kept(m)'
<1> DEFINE from == IF second = "git" THEN Tip(want[m]) ELSE disk[m].tree
<1>0. Build(m, from)
    BY DEF Install, DockerBuild
<1>1. /\ 1 \in Actions /\ 2 \in Actions /\ want[m] \in Urls
      /\ second' = second
      /\ \A a \in Actions : Before(m, a)
      /\ \A t : Known(t)' <=> Known(t)
      /\ setup' = setup /\ want' = want /\ disk' = disk /\ got' = got
    BY <1>0, OneNode, KeysStay, UnwrittenRows DEF Build, Returns, store, Known, Types, Typed
<1>2. pc[m] = "start" /\ at[m] = 2 /\ 2 \in stale[m]
    BY <1>0 DEF Build, Runs
<1>3. CASE from = NoTree
    <2>1. Returns(m, "failed") /\ bin' = bin
        BY <1>0, <1>3 DEF Build
    <2> QED
        BY <1>1, <1>2, <2>1, FailingKeeps DEF Executing
<1>4. CASE from # NoTree
    <2>0. /\ pc'[m] = "record" /\ at' = at /\ input' = input /\ stale' = stale
          /\ owed' = owed /\ bin'[m] = from
        BY <1>0, <1>4 DEF Build, Returns, Types, Typed
    <2>1. second = "git" => /\ from = Tip(want[m]) /\ from.url = want[m] /\ Known(from)
                            /\ \A t : Known(t) => Upto(t, from)
        BY <1>1, NewerThanAll
    <2>2. second # "git" => from = disk[m].tree
        OBVIOUS
    <2> HIDE DEF from
    <2> USE DEF Kept
    <2>3. InPhase(m)'
        BY <1>1, <1>2, <2>0 DEF InPhase, Idle, Executing
    <2>4. AllKnown(m)'
        BY <1>1, <2>0, <2>1, <2>2 DEF AllKnown, Before
    <2>5. Cloned(m)'
        BY <1>1, <1>2, <2>0 DEF Cloned, Before, Behind, Upto, Succeeded
    <2>6. Rebuilt(m)'
        <3> SUFFICES ASSUME second # "git" PROVE Rebuilt(m)'
            BY <1>1 DEF Rebuilt
        <3>1. disk[m].tree.version \in Nat
            BY DEF Types, Typed, Checkouts, Commits
        <3>2. 2 \in owed'[m]
            BY <1>2, <2>0 DEF InPhase, Executing
        <3> QED
            BY <1>1, <1>2, <2>0, <2>2, <3>1, <3>2
            DEF Rebuilt, Before, Behind, Upto, Succeeded
    <2>7. Reinstalled(m)'
        <3>1. 2 \in owed'[m]
            BY <1>2, <2>0 DEF InPhase, Executing
        <3>2. second = "git" => input[m][2].tree.url = want[m]
            BY <1>2 DEF Reinstalled, HashedYet, Executing
        <3>3. second = "git" /\ Own(m, 1) => Upto(Basis(m, 1), from)
            BY <1>1, <2>1 DEF AllKnown
        <3> QED
            BY <1>1, <2>0, <2>1, <3>1, <3>2, <3>3
            DEF Reinstalled, Before, Upto, Succeeded
    <2> QED
        BY <2>3, <2>4, <2>5, <2>6, <2>7
<1> QED
    BY <1>3, <1>4

LEMMA SkippingKeeps ==
    ASSUME Types, Types', NEW m \in Machines, Kept(m), SkipLayer(m)
    PROVE  Kept(m)'
<1>1. Undone(m) /\ owed' = owed
    BY DEF SkipLayer, Undone, store, places
<1>2. CASE at[m] = 1
    <2>0. /\ 1 \in Actions /\ 2 \in Actions /\ second' = second
          /\ \A a \in Actions : Before(m, a)
          /\ \A t : Known(t)' <=> Known(t)
          /\ pc[m] = "start" /\ pc' = pc /\ input' = input /\ stale' = stale /\ got' = got
          /\ result' = result /\ at'[m] = 2
        BY <1>1, <1>2, OneNode, KeysStay, UnwrittenRows
        DEF SkipLayer, Known, Undone, Types, Inductive
    <2> USE DEF Kept
    <2>1. InPhase(m)' /\ AllKnown(m)'
        BY <1>1, <2>0 DEF Undone, InPhase, Idle, Executing, AllKnown, Before
    <2>2. Cloned(m)' /\ Rebuilt(m)'
        BY <1>1, <2>0 DEF Undone, Cloned, Rebuilt, Before, Behind, Upto, Succeeded
    <2>3. Reinstalled(m)'
        BY <1>1, <2>0
        DEF Undone, Reinstalled, Before, Upto, Succeeded, HashedYet, Executing
    <2> QED
        BY <2>1, <2>2, <2>3
<1>3. CASE at[m] # 1
    <2>1. Home(m)
        BY <1>3 DEF SkipLayer
    <2>2. RowsAgree(m)'
        BY <1>1, RowsAgreeStill DEF Undone
    <2> QED
        BY <1>1, <2>1, <2>2, HomeKeeps DEF Undone
<1> QED
    BY <1>2, <1>3

LEMMA EndingKeeps ==
    ASSUME Types, Types', NEW m \in Machines, Kept(m),
           PlanRefused(m) \/ PlanFails(m) \/ Crash(m)
    PROVE  Kept(m)'
<1>1. Undone(m) /\ owed' = owed /\ Home(m)
    BY DEF PlanRefused, PlanFails, PlanEnds, Crash, Undone, store, places
<1>2. RowsAgree(m)'
    BY <1>1, RowsAgreeStill DEF Undone
<1> QED
    BY <1>1, <1>2, HomeKeeps DEF Undone

LEMMA FailedStepsKeep ==
    ASSUME Types, Types', NEW m \in Machines, Kept(m),
           FetchRefused(m) \/ CloneFails(m) \/ StepFails(m) \/ Cancelled(m)
    PROVE  Kept(m)'
<1> USE DEF Kept
<1>1. /\ setup' = setup /\ bin' = bin
      /\ \E r \in {"failed", "cancelled"} : Returns(m, r)
    BY DEF FetchRefused, CloneFails, StepFails, Cancelled, Returns
<1>2. pc[m] \in Executing /\ at[m] \in stale[m]
    BY DEF FetchRefused, CloneFails, StepFails, Cancelled, Runs, Executing, InPhase
<1>3. got'[m] \in {got[m], NoTree}
    BY DEF FetchRefused, CloneFails, StepFails, Cancelled, Types, Typed
<1>4. disk'[m] = disk[m] \/ (disk'[m] = Absent /\ disk[m].tree = NoTree)
    BY DEF FetchRefused, CloneFails, StepFails, Cancelled, Types, Typed, InPhase
<1> QED
    BY <1>1, <1>2, <1>3, <1>4, FailingKeeps
\* What a batch writes agrees with the files, whether its answer comes or not.
LEMMA WrittenAgrees ==
    ASSUME Types, setup' = setup, head' = head, NEW m \in Machines, Kept(m),
           pc[m] = "record", Written(m), disk'[m] = disk[m], bin'[m] = bin[m],
           \/ owed'[m] = owed[m]
           \/ result[m] = "ok" /\ owed'[m] = owed[m] \ {at[m]}
    PROVE  RowsAgree(m)'
<1>0. /\ 1 \in Actions /\ 2 \in Actions /\ at[m] \in {1, 2} /\ Actions = {1, 2}
      /\ second' = second
      /\ \A t : Known(t)' <=> Known(t)
    BY OneNode, KeysStay DEF Known, Types, Inductive
<1> USE DEF Kept
<1>1. CASE at[m] = 1
    <2>1. /\ Own(m, 1)' <=> result[m] = "ok"
          /\ result[m] = "ok" => Basis(m, 1)' = input[m][1].tree
          /\ Before(m, 2)
        BY <1>0, <1>1, WrittenRows
    <2>2. 2 \in owed[m] /\ 2 \in owed'[m]
        BY <1>0, <1>1 DEF InPhase, Executing
    <2>3. \A a \in Actions : Own(m, a)' => Known(Basis(m, a))'
        BY <1>0, <2>1 DEF AllKnown, Before
    <2>4. Own(m, 1)' => Upto(Basis(m, 1), disk[m].tree)'
        BY <1>1, <2>1 DEF Cloned, Succeeded, Upto
    <2> QED
        BY <1>0, <2>1, <2>2, <2>3, <2>4
        DEF RowsAgree, Rebuilt, Reinstalled, Before, Behind, Upto
<1>2. CASE at[m] = 2
    <2>1. /\ Own(m, 2)' <=> result[m] = "ok"
          /\ result[m] = "ok" => Basis(m, 2)' = input[m][2].tree
          /\ Before(m, 1)
        BY <1>0, <1>2, WrittenRows
    <2>3. \A a \in Actions : Own(m, a)' => Known(Basis(m, a))'
        BY <1>0, <2>1 DEF AllKnown, Before
    <2>4. Own(m, 1)' => Upto(Basis(m, 1), disk[m].tree)'
        BY <2>1 DEF Cloned, Before, Behind, Upto
    <2>5. second # "git" => RowsAgree(m)'
        BY <1>0, <1>2, <2>1, <2>3, <2>4 DEF RowsAgree, Rebuilt, Succeeded, Behind, Upto
    <2>6. second = "git" => RowsAgree(m)'
        BY <1>0, <1>2, <2>1, <2>3, <2>4
        DEF RowsAgree, Reinstalled, Succeeded, Before, Upto
    <2> QED
        BY <2>5, <2>6
<1> QED
    BY <1>0, <1>1, <1>2

LEMMA RecordingKeeps ==
    ASSUME Types, Types', NEW m \in Machines, Kept(m), Record(m) \/ RecordFails(m)
    PROVE  Kept(m)'
<1>0. /\ setup' = setup /\ head' = head /\ want' = want /\ disk' = disk /\ bin' = bin
      /\ pc[m] = "record"
    BY DEF Record, RecordFails, places
<1>1. CASE Record(m)
    <2>0. /\ owed' = IF result[m] = "ok" THEN [owed EXCEPT ![m] = @ \ {at[m]}] ELSE owed
          /\ Written(m)
        BY <1>1 DEF Record
    <2>1. owed'[m] = IF result[m] = "ok" THEN owed[m] \ {at[m]} ELSE owed[m]
        BY <2>0 DEF Types, Typed
    <2>2. RowsAgree(m)'
        BY <1>0, <2>0, <2>1, WrittenAgrees
    <2>3. CASE ~(result[m] = "ok" /\ at[m] = 1)
        <3>1. Home(m)
            BY <1>1, <2>3 DEF Record
        <3> QED
            BY <1>0, <2>2, <3>1, HomeKeeps
    <2>4. CASE result[m] = "ok" /\ at[m] = 1
        <3>0. /\ 1 \in Actions /\ 2 \in Actions /\ second' = second
              /\ \A t : Known(t)' <=> Known(t)
              /\ pc'[m] = "start" /\ at'[m] = 2 /\ input' = input /\ stale' = stale
              /\ got' = got
            BY <1>0, <1>1, <2>4, OneNode, KeysStay DEF Record, Known, Types, Typed, Inductive
        <3>1. 2 \in owed[m] => 2 \in owed'[m]
            BY <2>1, <2>4
        <3> USE DEF Kept
        <3>2. InPhase(m)'
            BY <1>0, <3>0, <3>1 DEF InPhase, Idle, Executing
        <3>3. AllKnown(m)'
            BY <1>0, <2>2, <3>0 DEF AllKnown, RowsAgree
        <3>4. Cloned(m)' /\ Rebuilt(m)'
            BY <1>0, <2>2, <3>0 DEF Cloned, Rebuilt, RowsAgree, Behind, Upto, Succeeded
        <3>5. Reinstalled(m)'
            BY <1>0, <2>2, <3>0
            DEF Reinstalled, RowsAgree, Upto, Succeeded, HashedYet, Executing
        <3> QED
            BY <3>2, <3>3, <3>4, <3>5
    <2> QED
        BY <2>3, <2>4
<1>2. CASE RecordFails(m)
    <2>1. Home(m) /\ owed' = owed /\ (UNCHANGED store \/ Written(m))
        BY <1>2 DEF RecordFails
    <2>2. CASE UNCHANGED store
        <3>1. RowsAgree(m)'
            BY <1>0, <2>1, <2>2, RowsAgreeStill DEF store
        <3> QED
            BY <1>0, <2>1, <3>1, HomeKeeps
    <2>3. CASE Written(m)
        <3>1. RowsAgree(m)'
            BY <1>0, <2>1, <2>3, WrittenAgrees
        <3> QED
            BY <1>0, <2>1, <3>1, HomeKeeps
    <2> QED
        BY <2>1, <2>2, <2>3
<1> QED
    BY <1>1, <1>2

LEMMA MeddlingKeeps ==
    ASSUME Types, Types', NEW m \in Machines, Kept(m), EditUrl(m) \/ LoseArtifact(m)
    PROVE  Kept(m)'
<1>0. /\ setup' = setup /\ head' = head /\ told' = told /\ pc[m] = "idle"
      /\ pc' = pc /\ at' = at /\ input' = input /\ stale' = stale /\ got' = got
      /\ result' = result /\ owed' = owed
      /\ disk'[m] = disk[m] \/ disk'[m] = Absent
      /\ bin'[m] = bin[m] \/ bin'[m] = NoTree
    BY DEF EditUrl, LoseArtifact, Idle, store, local, Types, Typed
<1>1. /\ 1 \in Actions /\ 2 \in Actions /\ second' = second
      /\ \A a \in Actions : Before(m, a)
      /\ \A t : Known(t)' <=> Known(t)
    BY <1>0, OneNode, KeysStay, UnwrittenRows DEF Known
<1> USE DEF Kept
<1>2. \A a \in Actions : input[m][a].tree = NoTree
    BY <1>0 DEF InPhase, Idle, NoHash
<1>3. InPhase(m)'
    BY <1>0 DEF InPhase, Idle, Executing
<1>4. AllKnown(m)'
    <2>1. Known(NoTree) /\ Absent.tree = NoTree
        BY DEF Known, Absent
    <2> QED
        BY <1>0, <1>1, <2>1 DEF AllKnown, Before
<1>5. /\ \A t : Known(t) => Upto(t, NoTree)
      /\ disk'[m].tree = disk[m].tree \/ disk'[m].tree = NoTree
    BY <1>0, OlderThanNone DEF Absent
<1>6. \A s \in Commits : Upto(NoTree, s)
    BY DEF Upto, NoTree, Commits
<1>7. disk[m].tree \in Commits /\ bin[m] \in Commits /\ NoTree \in Commits
    BY ValueTypes DEF Types, Typed, Checkouts
<1>8. Cloned(m)'
    BY <1>0, <1>1, <1>5 DEF Cloned, AllKnown, Before, Behind, Succeeded
<1>9. Rebuilt(m)'
    BY <1>0, <1>1, <1>2, <1>5, <1>6, <1>7 DEF Rebuilt, AllKnown, Before, Behind, Succeeded
<1>10. Reinstalled(m)'
    BY <1>0, <1>1 DEF Reinstalled, Before, Upto, Succeeded, HashedYet, Executing
<1> QED
    BY <1>3, <1>4, <1>8, <1>9, <1>10
-----------------------------------------------------------------------------
(* The invariant of every machine.                                         *)

\* Either nothing was written, or it was written by m.
Writes(m) == told' = told \/ Written(m)

LEMMA HomeElsewhere ==
    ASSUME NEW m \in Machines, NEW n \in Machines \ {m}, Types, Home(m)
    PROVE  /\ pc'[n] = pc[n] /\ at'[n] = at[n] /\ input'[n] = input[n]
           /\ stale'[n] = stale[n] /\ got'[n] = got[n] /\ result'[n] = result[n]
BY DEF Home, Types, Typed, Inductive

LEMMA StepElsewhere ==
    ASSUME Types, NEW m \in Machines, NEW n \in Machines \ {m}, Step(m)
    PROVE  Same(n) /\ setup' = setup /\ head' = head /\ Writes(m)
<1> USE DEF Same, Writes, store, places, local
<1>0. /\ at \in [Machines -> Actions] /\ Typed
    BY DEF Types, Inductive
<1>1. CASE StartSync(m)
    BY <1>0, <1>1 DEF StartSync, Typed
<1>2. CASE Hash(m)
    BY <1>0, <1>2 DEF Hash, Typed
<1>3. CASE PlanRefused(m)
    BY <1>3, HomeElsewhere DEF PlanRefused, PlanEnds
<1>4. CASE Judge(m)
    BY <1>0, <1>4 DEF Judge, Decide, Typed
<1>5. CASE SkipLayer(m)
    BY <1>0, <1>5, HomeElsewhere DEF SkipLayer, Typed
<1>6. CASE Fetch(m)
    BY <1>0, <1>6 DEF Fetch, Typed
<1>7. CASE FetchRefused(m)
    BY <1>0, <1>7 DEF FetchRefused, Returns, Typed
<1>8. CASE Reset(m)
    BY <1>0, <1>8 DEF Reset, Returns, Typed
<1>9. CASE StartClone(m)
    BY <1>0, <1>9 DEF StartClone, Typed
<1>10. CASE FinishClone(m)
    BY <1>0, <1>10 DEF FinishClone, Returns, Typed
<1>11. CASE Install(m) \/ DockerBuild(m)
    BY <1>0, <1>11 DEF Install, DockerBuild, Build, Returns, Typed
<1>12. CASE Record(m)
    <2>1. owed'[n] = owed[n]
        BY <1>0, <1>12 DEF Record, Typed
    <2> QED
        BY <1>0, <1>12, <2>1, HomeElsewhere DEF Record, Typed
<1> QED
    BY <1>1, <1>2, <1>3, <1>4, <1>5, <1>6, <1>7, <1>8, <1>9, <1>10, <1>11, <1>12 DEF Step

LEMMA MisstepElsewhere ==
    ASSUME Types, NEW m \in Machines, NEW n \in Machines \ {m},
           Misstep(m) \/ EditUrl(m) \/ LoseArtifact(m)
    PROVE  Same(n) /\ setup' = setup /\ head' = head /\ Writes(m)
<1> USE DEF Same, Writes, store, places, local
<1>0. /\ at \in [Machines -> Actions] /\ Typed
    BY DEF Types, Inductive
<1>1. CASE PlanFails(m)
    BY <1>1, HomeElsewhere DEF PlanFails, PlanEnds
<1>2. CASE JudgeUnread(m)
    BY <1>0, <1>2 DEF JudgeUnread, Decide, Typed
<1>3. CASE CloneFails(m)
    BY <1>0, <1>3 DEF CloneFails, Returns, Typed
<1>4. CASE StepFails(m)
    BY <1>0, <1>4 DEF StepFails, Returns, Typed
<1>5. CASE Cancelled(m)
    BY <1>0, <1>5 DEF Cancelled, Returns, Typed
<1>6. CASE Crash(m)
    BY <1>6, HomeElsewhere DEF Crash
<1>7. CASE RecordFails(m)
    BY <1>7, HomeElsewhere DEF RecordFails
<1>8. CASE EditUrl(m)
    BY <1>0, <1>8 DEF EditUrl, Typed
<1>9. CASE LoseArtifact(m)
    BY <1>0, <1>9 DEF LoseArtifact, Typed
<1> QED
    BY <1>1, <1>2, <1>3, <1>4, <1>5, <1>6, <1>7, <1>8, <1>9 DEF Misstep

LEMMA NoneOfTheirs ==
    ASSUME Types, NEW m \in Machines, NEW n \in Machines \ {m}, setup' = setup, Writes(m)
    PROVE  /\ NoneOfItsOwn(n)
           /\ n \notin Sharing(m) => \A a \in Actions : Last(n, a)' = Last(n, a)
<1>1. CASE told' = told
    BY <1>1, UnwrittenRows DEF NoneOfItsOwn, Before
<1>2. CASE Written(m)
    <2>1. \E a : a = at[m]
        OBVIOUS
    <2>2. \A b \in Actions : /\ Own(n, b)' => Own(n, b) /\ Basis(n, b)' = Basis(n, b)
                             /\ n \notin Sharing(m) => Before(n, b)
        BY <1>2, <2>1, WrittenRows
    <2> QED
        BY <2>2 DEF NoneOfItsOwn, Before
<1> QED
    BY <1>1, <1>2 DEF Writes

AllKept == Types /\ \A m \in Machines : Kept(m)

LEMMA InitKept == Init => AllKept
<1> SUFFICES ASSUME Init PROVE AllKept
    OBVIOUS
<1>1. /\ Inductive /\ 1 \in Actions /\ 2 \in Actions
      /\ NoTree \in Commits /\ Absent \in Checkouts /\ NoHash \in InputHash
    BY InitInductive, OneNode
    DEF NoTree, Commits, Absent, Checkouts, NoHash, InputHash, Words
<1>2. setup.git \in Urls
    BY SetupsAssumption DEF Init
<1>3. Types
    BY <1>1, <1>2 DEF Init, Types, Typed, Phases
<1>4. ASSUME NEW m \in Machines PROVE Kept(m)
    <2>1. \A a \in Actions : ~Own(m, a)
        BY DEF Init, Own
    <2>2. /\ disk[m].tree = NoTree /\ bin[m] = NoTree /\ got[m] = NoTree /\ pc[m] = "idle"
          /\ at[m] = 1
          /\ input[m] = [a \in Actions |-> NoHash]
          /\ \A a \in Actions : input[m][a].tree = NoTree
        BY DEF Init, Absent, NoHash
    <2>3. Known(NoTree) /\ Upto(NoTree, NoTree)
        BY DEF Known, Upto, NoTree
    <2>4. InPhase(m) /\ AllKnown(m) /\ Cloned(m)
        BY <1>1, <2>1, <2>2, <2>3 DEF InPhase, Idle, Executing, AllKnown, Cloned, Succeeded
    <2>5. Rebuilt(m) /\ Reinstalled(m)
        BY <1>1, <2>1, <2>2, <2>3
        DEF Rebuilt, Reinstalled, Behind, Succeeded, HashedYet, Executing
    <2> QED
        BY <2>4, <2>5 DEF Kept
<1> QED
    BY <1>3, <1>4 DEF AllKept

LEMMA NextKept == AllKept /\ [Next]_vars => AllKept'
<1> SUFFICES ASSUME AllKept, [Next]_vars PROVE AllKept'
    OBVIOUS
<1>1. Types /\ Types'
    BY NextTypes DEF AllKept
<1>2. SUFFICES ASSUME NEW n \in Machines PROVE Kept(n)'
    BY <1>1 DEF AllKept
<1>3. Kept(n)
    BY DEF AllKept
<1>4. ASSUME NEW m \in Machines, Step(m) \/ Misstep(m) \/ EditUrl(m) \/ LoseArtifact(m)
      PROVE  Kept(n)'
    <2>1. CASE n = m
        BY <1>1, <1>3, <1>4, <2>1, PlanningKeeps, CloningKeeps, BuildKeeps, SkippingKeeps,
           EndingKeeps, FailedStepsKeep, RecordingKeeps, MeddlingKeeps
        DEF Step, Misstep
    <2>2. CASE n # m
        <3>1. Same(n) /\ setup' = setup /\ head' = head /\ Writes(m)
            BY <1>1, <1>4, <2>2, StepElsewhere, MisstepElsewhere
        <3>2. NoneOfItsOwn(n)
            BY <1>1, <2>2, <3>1, NoneOfTheirs
        <3>3. Forward
            BY <1>1, <3>1 DEF Forward, Types, Typed
        <3> QED
            BY <1>1, <1>3, <3>1, <3>2, <3>3, OthersKeep
    <2> QED
        BY <2>1, <2>2
<1>5. ASSUME NEW u \in Urls, Push(u) PROVE Kept(n)'
    <2>1. Same(n) /\ setup' = setup /\ told' = told
        BY <1>5 DEF Push, Same, places, store, local
    <2>2. Forward
        BY <1>1, <1>5 DEF Push, Forward, Types, Typed
    <2>3. NoneOfItsOwn(n)
        BY <2>1, UnwrittenRows DEF NoneOfItsOwn, Before
    <2> QED
        BY <1>1, <1>3, <2>1, <2>2, <2>3, OthersKeep
<1>6. CASE UNCHANGED vars
    <2>1. Same(n) /\ setup' = setup /\ told' = told /\ head' = head
        BY <1>6 DEF vars, Same, places, store, local
    <2>2. Forward
        BY <1>1, <2>1 DEF Forward, Types, Typed
    <2>3. NoneOfItsOwn(n)
        BY <2>1, UnwrittenRows DEF NoneOfItsOwn, Before
    <2> QED
        BY <1>1, <1>3, <2>1, <2>2, <2>3, OthersKeep
<1> QED
    BY <1>4, <1>5, <1>6 DEF Next

LEMMA KeptInvariant == Spec => []AllKept
<1> QED
    BY InitKept, NextKept, PTL DEF Spec
-----------------------------------------------------------------------------
(* What is skipped.                                                        *)

LEMMA UpToDateMeans ==
    ASSUME Types, NEW m \in Machines
    PROVE  /\ UpToDateNow(m) \subseteq {1, 2}
           /\ 1 \in UpToDateNow(m) <=> CloneDone(m)
           /\ 2 \in UpToDateNow(m) <=> CloneDone(m) /\ BuildDone(m)
<1> DEFINE s1 == IF VerdictOn(m, 1, InputOf(m, 1), {}, LastBuildOf(m, 1)) = UpToDate
                 THEN {} ELSE {1}
<1>1. /\ 1 \in Actions /\ 2 \in Actions /\ {} \in SUBSET Actions /\ s1 \in SUBSET Actions
      /\ \A a \in Actions : LastBuildOf(m, a) = Last(m, a) /\ Event(Last(m, a))
    BY OneNode, LastIsTold DEF Types
<1>2. VerdictOn(m, 1, InputOf(m, 1), {}, Last(m, 1)) = UpToDate <=> CloneDone(m)
    BY <1>1, SkippedFor DEF CloneDone, InputOf, PresentAt
<1>3. 1 \notin s1 <=> CloneDone(m)
    BY <1>1, <1>2
<1>4. VerdictOn(m, 2, InputOf(m, 2), s1, Last(m, 2)) = UpToDate
        <=> /\ Last(m, 2) = Success(SecondInput(m)) /\ bin[m] # NoTree
            /\ 1 \notin s1
    <2> HIDE DEF s1
    <2> QED
        BY <1>1, SkippedFor DEF InputOf, PresentAt
<1>5. UpToDateNow(m) =
        ({1} \ s1) \cup {a \in {2} : /\ ~Unhashable(m, 2)
                                     /\ VerdictOn(m, a, InputOf(m, a), s1, LastBuildOf(m, a))
                                          = UpToDate}
    BY DEF UpToDateNow
<1> HIDE DEF s1
<1> QED
    BY <1>1, <1>3, <1>4, <1>5 DEF BuildDone

\* Two trees of one remote, neither newer, are one.
LEMMA NeitherNewer ==
    ASSUME Types, NEW t, NEW s, Known(t), Known(s), t # NoTree, s # NoTree,
           t.url = s.url, Upto(t, s), Upto(s, t)
    PROVE  t = s
<1>1. t \in [url : Urls, version : Nat] /\ s \in [url : Urls, version : Nat]
    BY DEF Known
<1>2. t.version = s.version
    BY <1>1 DEF Upto
<1> QED
    BY <1>1, <1>2

\* Whatever happens in whatever order, an action that is skipped is current or
\* one of four things is the cause: another machine's record, half a clone, a
\* remote that is no longer the manifest's, and a rebuild that was called for
\* and did not come (git_clone.rs:46-127, docker.rs:77-194, cargo_install.rs:101-167).
THEOREM SkipsHaveCauses == Spec => []SkipHasCause
<1>1. AllKept => SkipHasCause
    <2> SUFFICES ASSUME AllKept, NEW m \in Machines, Idle(m), NEW a \in UpToDateNow(m),
                        ~AnothersRow(m, a), ~HalfClone(m),
                        ~(a = 1 /\ EditedUrl(m)), ~(a = 2 /\ LostCascade(m))
                 PROVE  Current(m, a)
        BY DEF SkipHasCause
    <2>0. /\ Types /\ Kept(m) /\ 1 \in Actions /\ 2 \in Actions
          /\ want[m] \in Urls
        BY OneNode DEF AllKept, Types, Typed
    <2>1. a \in {1, 2} /\ CloneDone(m) /\ (a = 2 => BuildDone(m))
        BY <2>0, UpToDateMeans
    <2>2. Own(m, 1) /\ Basis(m, 1) = Tip(want[m])
        <3>1. Key(m, 1) \in DOMAIN told => told[Key(m, 1)].by = m
            BY <2>1 DEF AnothersRow
        <3> QED
            BY <2>1, <3>1 DEF CloneDone, Last, Success, NoEvent, Own, Basis, CloneInput, HashOf
    <2>3. disk[m].git /\ disk[m].tree # NoTree /\ disk[m].tree.url = disk[m].origin
        BY <2>0, <2>1 DEF CloneDone, HalfClone, Kept, AllKnown
    <2>4. CASE a = 1
        <3>1. disk[m].origin = want[m]
            BY <2>4 DEF EditedUrl
        <3>2. Upto(Tip(want[m]), disk[m].tree) /\ Known(disk[m].tree)
            BY <2>0, <2>2 DEF Kept, Cloned, Behind, AllKnown
        <3>3. disk[m].tree = Tip(want[m])
            BY <2>0, <2>3, <3>1, <3>2, NewerThanAll, NeitherNewer
        <3>4. disk[m] = Whole(want[m], Tip(want[m]))
            BY <2>0, <2>3, <3>1, <3>3 DEF Whole, Types, Typed, Checkouts
        <3> QED
            BY <2>4, <3>4 DEF Current
    <2>5. CASE a = 2
        <3>1. bin[m] # NoTree
            BY <2>1, <2>5 DEF BuildDone
        <3>2. Own(m, 2) /\ Basis(m, 2) = SecondInput(m).tree
            <4>1. Key(m, 2) \in DOMAIN told => told[Key(m, 2)].by = m
                BY <2>5 DEF AnothersRow
            <4> QED
                BY <2>1, <2>5, <4>1 DEF BuildDone, Last, Success, NoEvent, Own, Basis
        <3>3. CASE second = "git"
            <4>1. 2 \notin owed[m]
                BY <2>5, <3>3 DEF LostCascade
            <4>2. Basis(m, 2).url = want[m]
                BY <3>2, <3>3 DEF SecondInput, HashOf, Commit
            <4>3. bin[m].url = want[m] /\ Upto(Tip(want[m]), bin[m]) /\ Known(bin[m])
                BY <2>0, <2>2, <3>1, <3>2, <3>3, <4>1, <4>2 DEF Kept, Reinstalled, AllKnown
            <4>4. bin[m] = Tip(want[m])
                BY <2>0, <3>1, <4>3, NewerThanAll, NeitherNewer
            <4> QED
                BY <2>5, <3>1, <3>3, <4>4 DEF Current
        <3>4. CASE second # "git"
            <4>1. Basis(m, 2) = disk[m].tree
                BY <2>3, <3>2, <3>4 DEF SecondInput, ContentInput, HashOf
            <4>2. /\ Upto(bin[m], disk[m].tree) /\ Upto(disk[m].tree, bin[m])
                  /\ Known(bin[m]) /\ Known(disk[m].tree)
                  /\ bin[m].url = disk[m].tree.url \/ 2 \in owed[m]
                BY <2>0, <2>3, <3>1, <3>2, <3>4, <4>1
                DEF Kept, Rebuilt, Behind, AllKnown
            <4>3. bin[m].url = disk[m].tree.url
                BY <2>5, <4>2 DEF LostCascade
            <4>4. bin[m] = disk[m].tree
                BY <2>0, <2>3, <3>1, <4>2, <4>3, NeitherNewer
            <4> QED
                BY <2>5, <3>1, <3>4, <4>4 DEF Current
        <3> QED
            BY <3>3, <3>4
    <2> QED
        BY <2>1, <2>4, <2>5
<1> QED
    BY <1>1, KeptInvariant, PTL
-----------------------------------------------------------------------------
(* Undisturbed syncs.                                                      *)

LEMMA DisturbedEndsCalm ==
    ASSUME Types, NEW m \in Machines, Home(m), calm'[m] <= 0, calm'[m] \in Int
    PROVE  Calm(m)'
<1>1. pc'[m] = "idle"
    BY DEF Home, Types, Typed
<1> QED
    BY <1>1 DEF Calm, HashedYet, JudgedYet, Succeeded, Executing

LEMMA CleanEndsCalm ==
    ASSUME Types, NEW m \in Machines, Home(m), calm'[m] = EndsCalm(m, TRUE),
           calm[m] >= 0 => CloneDone(m)', calm[m] >= 1 => BuildDone(m)'
    PROVE  Calm(m)'
<1>1. pc'[m] = "idle" /\ stale'[m] = {} /\ calm[m] \in Int
    BY DEF Home, Types, Typed
<1>2. /\ calm'[m] >= 1 => calm[m] >= 0
      /\ calm'[m] = 2 => calm[m] >= 1
    BY <1>1 DEF EndsCalm
<1> QED
    BY <1>1, <1>2 DEF Calm, HashedYet, JudgedYet, Succeeded, Executing

LEMMA UndoneInputs ==
    ASSUME Types, NEW m \in Machines, setup' = setup, head' = head, told' = told,
           want'[m] = want[m], disk'[m] = disk[m], bin'[m] = bin[m]
    PROVE  /\ CloneInput(m)' = CloneInput(m) /\ SecondInput(m)' = SecondInput(m)
           /\ Unhashable(m, 2)' = Unhashable(m, 2)
           /\ CloneDone(m)' = CloneDone(m) /\ BuildDone(m)' = BuildDone(m)
<1>1. second' = second /\ \A a : Last(m, a)' = Last(m, a)
    BY KeysStay, UnwrittenRows DEF Before
<1>2. /\ CloneInput(m)' = CloneInput(m) /\ SecondInput(m)' = SecondInput(m)
      /\ Unhashable(m, 2)' = Unhashable(m, 2)
    BY <1>1 DEF CloneInput, SecondInput, ContentInput, Unhashable, Tip
<1> QED
    BY <1>1, <1>2 DEF CloneDone, BuildDone

LEMMA PlanningStaysCalm ==
    ASSUME Types, Types', NEW m \in Machines, Kept(m), Calm(m),
           StartSync(m) \/ Hash(m) \/ Judge(m) \/ JudgeUnread(m)
    PROVE  Calm(m)'
<1>0. /\ 1 \in Actions /\ 2 \in Actions /\ Actions = {1, 2} /\ at[m] \in {1, 2}
      /\ calm[m] \in Int /\ stale[m] \in SUBSET Actions
    BY OneNode DEF Types, Typed, Inductive
<1>u. Undone(m)
    BY DEF Undone, StartSync, Hash, Judge, JudgeUnread, Decide, store, places
<1>i. /\ CloneInput(m)' = CloneInput(m) /\ SecondInput(m)' = SecondInput(m)
      /\ Unhashable(m, 2)' = Unhashable(m, 2)
      /\ CloneDone(m)' = CloneDone(m) /\ BuildDone(m)' = BuildDone(m)
    BY <1>u, UndoneInputs DEF Undone
<1>1. CASE StartSync(m)
    <2>1. /\ pc[m] = "idle" /\ pc'[m] = "hash" /\ at' = at /\ stale' = stale /\ calm' = calm
          /\ at[m] \in {1, 2}
        BY <1>0, <1>1 DEF StartSync, Idle, Types, Typed
    <2>2. at[m] = 1
        BY <2>1 DEF Kept, InPhase, Idle
    <2> QED
        BY <1>i, <2>1, <2>2 DEF Calm, Idle, HashedYet, JudgedYet, Succeeded, Executing
<1>2. CASE Hash(m)
    <2>0. /\ pc[m] = "hash" /\ pc'[m] = "judge" /\ at' = at /\ stale' = stale /\ calm' = calm
          /\ ~Unhashable(m, at[m])
          /\ input'[m][at[m]] = InputOf(m, at[m])
          /\ \A a \in Actions \ {at[m]} : input'[m][a] = input[m][a]
        BY <1>0, <1>2 DEF Hash, Types, Typed
    <2>1. /\ at[m] = 1 => input'[m][1] = CloneInput(m)
          /\ at[m] = 2 => /\ input'[m][2] = SecondInput(m) /\ ~Unhashable(m, 2)
                          /\ input'[m][1] = input[m][1]
        BY <1>0, <2>0 DEF InputOf
    <2> QED
        BY <1>0, <1>i, <2>0, <2>1 DEF Calm, Idle, HashedYet, JudgedYet, Succeeded, Executing
<1>3. ASSUME NEW last, Decide(m, last), pc[m] = "judge",
             Event(last), calm'[m] = -1 \/ (last = Last(m, at[m]) /\ calm' = calm)
      PROVE  Calm(m)'
    <2>0. /\ pc'[m] = IF at[m] = 1 THEN "hash" ELSE "start"
          /\ at'[m] = IF at[m] = 1 THEN 2 ELSE 1
          /\ input' = input
          /\ stale'[m] = IF VerdictOn(m, at[m], input[m][at[m]], stale[m], last) = UpToDate
                         THEN stale[m] ELSE stale[m] \cup {at[m]}
        BY <1>0, <1>3 DEF Decide, Types, Typed, Inductive
    <2>1. CASE calm'[m] = -1
        BY <1>0, <2>0, <2>1 DEF Calm, Idle, Succeeded, Executing
    <2>2. CASE last = Last(m, 1) /\ calm' = calm /\ at[m] = 1
        <3>1. VerdictOn(m, 1, input[m][1], stale[m], last) = UpToDate
                <=> last = Success(input[m][1]) /\ disk[m].git
            BY <1>0, <1>3, SkippedFor DEF PresentAt
        <3>2. calm[m] >= 0 => input[m][1] = CloneInput(m)
            BY <1>3, <2>2 DEF Calm, HashedYet
        <3>3. calm[m] >= 0 => (1 \notin stale'[m] <=> CloneDone(m) /\ 1 \notin stale[m])
            BY <2>0, <2>2, <3>1, <3>2 DEF CloneDone
        <3> QED
            BY <1>0, <1>i, <2>0, <2>2, <3>2, <3>3
            DEF Calm, Idle, HashedYet, JudgedYet, Succeeded, Executing
    <2>3. CASE last = Last(m, 2) /\ calm' = calm /\ at[m] = 2
        <3>1. VerdictOn(m, 2, input[m][2], stale[m], last) = UpToDate
                => last = Success(input[m][2]) /\ bin[m] # NoTree
            BY <1>0, <1>3, SkippedFor DEF PresentAt
        <3>2. /\ calm[m] >= 0 => input[m][1] = CloneInput(m)
              /\ calm[m] >= 1 => input[m][2] = SecondInput(m) /\ ~Unhashable(m, 2)
            BY <1>3, <2>3 DEF Calm, HashedYet
        <3>3. /\ 1 \in stale'[m] <=> 1 \in stale[m]
              /\ calm[m] >= 1 /\ 2 \notin stale'[m] => BuildDone(m)
            BY <2>0, <2>3, <3>1, <3>2 DEF BuildDone
        <3> QED
            BY <1>0, <1>3, <1>i, <2>0, <2>3, <3>2, <3>3
            DEF Calm, Idle, HashedYet, JudgedYet, Succeeded, Executing
    <2> QED
        BY <1>0, <1>3, <2>1, <2>2, <2>3
<1>4. CASE Judge(m)
    <2>1. LastBuildOf(m, at[m]) = Last(m, at[m]) /\ Event(Last(m, at[m]))
        BY <1>0, LastIsTold DEF Types
    <2> QED
        BY <1>3, <1>4, <2>1 DEF Judge
<1>5. CASE JudgeUnread(m)
    <2>1. calm'[m] = -1
        BY <1>5 DEF JudgeUnread, Types, Typed
    <2> QED
        BY <1>3, <1>5, <2>1 DEF JudgeUnread, Event
<1> QED
    BY <1>1, <1>2, <1>4, <1>5
\* An action that runs: the checkout only in a sync that is not calm yet.
LEMMA RunningStaysCalm ==
    ASSUME Types, Types', NEW m \in Machines, Kept(m), Calm(m),
           setup' = setup, head' = head, told' = told, want' = want,
           pc[m] \in Executing, pc'[m] \in Executing, at' = at, at[m] \in stale[m],
           input' = input, stale' = stale, calm' = calm,
           at[m] = 2 => disk' = disk,
           result'[m] = "ok" /\ pc'[m] = "record" =>
             IF at[m] = 1 THEN disk'[m].git ELSE bin'[m] # NoTree
    PROVE  Calm(m)'
<1>0. at[m] \in {1, 2} /\ calm[m] \in Int
    BY OneNode DEF Types, Typed, Inductive
<1>1. second' = second /\ \A a : Last(m, a)' = Last(m, a)
    BY KeysStay, UnwrittenRows DEF Before
<1>2. CloneInput(m)' = CloneInput(m)
    BY DEF CloneInput, Tip
<1>3. CASE at[m] = 1
    <2>1. calm[m] <= 0
        BY <1>0, <1>3 DEF Calm
    <2> QED
        BY <1>0, <1>2, <1>3, <2>1 DEF Calm, Idle, HashedYet, JudgedYet, Succeeded, Executing
<1>4. CASE at[m] = 2
    <2>1. CloneDone(m)' = CloneDone(m)
        BY <1>1, <1>2, <1>4 DEF CloneDone
    <2>2. SecondInput(m)' = SecondInput(m) /\ Unhashable(m, 2)' = Unhashable(m, 2)
        BY <1>1, <1>4 DEF SecondInput, ContentInput, Unhashable
    <2> QED
        BY <1>0, <1>2, <1>4, <2>1, <2>2
        DEF Calm, Idle, HashedYet, JudgedYet, Succeeded, Executing
<1> QED
    BY <1>0, <1>3, <1>4

LEMMA ExecutingStaysCalm ==
    ASSUME Types, Types', NEW m \in Machines, Kept(m), Calm(m),
           \/ Fetch(m) \/ FetchRefused(m) \/ Reset(m) \/ StartClone(m) \/ FinishClone(m)
           \/ Install(m) \/ DockerBuild(m) \/ CloneFails(m) \/ StepFails(m) \/ Cancelled(m)
    PROVE  Calm(m)'
<1> USE DEF Executing, Kept
<1>0. at[m] \in {1, 2} /\ disk \in [Machines -> Checkouts] /\ bin \in [Machines -> Commits]
      /\ pc \in [Machines -> Phases]
      /\ result \in [Machines -> {"none", "ok", "failed", "cancelled"}]
    BY OneNode DEF Types, Typed, Inductive
<1>1. CASE Fetch(m)
    BY <1>0, <1>1, RunningStaysCalm DEF Fetch, Runs, places, store
<1>2. CASE FetchRefused(m)
    BY <1>0, <1>2, RunningStaysCalm DEF FetchRefused, Runs, Returns, places, store
<1>3. CASE Reset(m)
    <2>1. pc[m] = "fetched" /\ at[m] = 1 /\ at[m] \in stale[m] /\ disk'[m].git
        BY <1>0, <1>3 DEF Reset, InPhase, Whole
    <2> QED
        BY <1>0, <1>3, <2>1, RunningStaysCalm DEF Reset, Returns, store
<1>4. CASE StartClone(m)
    BY <1>0, <1>4, RunningStaysCalm DEF StartClone, Runs, store
<1>5. CASE FinishClone(m)
    <2>1. pc[m] = "cloning" /\ at[m] = 1 /\ at[m] \in stale[m] /\ disk'[m].git
        BY <1>0, <1>5 DEF FinishClone, InPhase, Whole
    <2> QED
        BY <1>0, <1>5, <2>1, RunningStaysCalm DEF FinishClone, Returns, store
<1>6. ASSUME NEW from, Build(m, from) PROVE Calm(m)'
    <2>1. /\ pc[m] = "start" /\ at[m] = 2 /\ 2 \in stale[m]
          /\ pc'[m] = "record" /\ (result'[m] = "ok" => bin'[m] # NoTree)
        BY <1>0, <1>6 DEF Build, Runs, Returns
    <2>2. \E r : Returns(m, r)
        BY <1>6 DEF Build
    <2> QED
        BY <1>0, <1>6, <2>1, <2>2, RunningStaysCalm DEF Build, Returns, store
<1>7. CASE CloneFails(m) \/ StepFails(m) \/ Cancelled(m)
    <2>1. /\ pc[m] \in Executing /\ at[m] \in stale[m] /\ calm' = calm
          /\ at[m] = 2 => disk' = disk
        BY <1>0, <1>7 DEF CloneFails, StepFails, Cancelled, Runs, InPhase
    <2>2. \E r \in {"failed", "cancelled"} : Returns(m, r)
        BY <1>7 DEF CloneFails, StepFails, Cancelled
    <2>3. /\ pc'[m] = "record" /\ result'[m] # "ok" /\ setup' = setup /\ head' = head
          /\ told' = told /\ want' = want /\ at' = at /\ input' = input /\ stale' = stale
        BY <1>0, <2>2 DEF Returns, store
    <2> QED
        BY <2>1, <2>3, RunningStaysCalm
<1> QED
    BY <1>1, <1>2, <1>3, <1>4, <1>5, <1>6, <1>7 DEF Install, DockerBuild

LEMMA EndingStaysCalm ==
    ASSUME Types, Types', NEW m \in Machines, Kept(m), Calm(m),
           \/ PlanRefused(m) \/ PlanFails(m) \/ Crash(m) \/ SkipLayer(m)
           \/ Record(m) \/ RecordFails(m)
    PROVE  Calm(m)'
<1>0. /\ at[m] \in {1, 2} /\ 1 \in Actions /\ 2 \in Actions
      /\ calm \in [Machines -> Int] /\ calm' \in [Machines -> Int] /\ calm[m] \in Int
    BY OneNode DEF Types, Typed, Inductive
<1>1. CASE PlanRefused(m) \/ PlanFails(m) \/ Crash(m) \/ RecordFails(m)
    <2>1. Home(m) /\ calm'[m] = 0
        BY <1>0, <1>1 DEF PlanRefused, PlanFails, PlanEnds, Crash, RecordFails
    <2> QED
        BY <2>1, DisturbedEndsCalm
<1>2. CASE SkipLayer(m)
    <2>u. Undone(m)
        BY <1>2 DEF SkipLayer, Undone, places, store
    <2>i. /\ CloneInput(m)' = CloneInput(m) /\ SecondInput(m)' = SecondInput(m)
          /\ Unhashable(m, 2)' = Unhashable(m, 2)
          /\ CloneDone(m)' = CloneDone(m) /\ BuildDone(m)' = BuildDone(m)
        BY <2>u, UndoneInputs DEF Undone
    <2>1. CASE at[m] = 1
        <3>1. /\ pc[m] = "start" /\ pc' = pc /\ at'[m] = 2 /\ input' = input
              /\ stale' = stale /\ calm' = calm /\ 1 \notin stale[m]
            BY <1>0, <1>2, <2>1 DEF SkipLayer, Types, Inductive
        <3>2. calm[m] >= 0 => CloneDone(m)
            BY <3>1 DEF Calm, JudgedYet, Executing
        <3> QED
            BY <1>0, <2>i, <3>1, <3>2
            DEF Calm, Idle, HashedYet, JudgedYet, Succeeded, Executing
    <2>2. CASE at[m] = 2
        <3>1. /\ Home(m) /\ calm'[m] = EndsCalm(m, TRUE)
              /\ pc[m] = "start" /\ 2 \notin stale[m]
            BY <1>0, <1>2, <2>2 DEF SkipLayer
        <3>2. /\ calm[m] >= 0 => CloneDone(m)
              /\ calm[m] >= 1 => BuildDone(m)
            BY <2>2, <3>1 DEF Calm, Executing
        <3> QED
            BY <2>i, <3>1, <3>2, CleanEndsCalm
    <2> QED
        BY <1>0, <2>1, <2>2
<1>3. CASE Record(m)
    <2>0. /\ pc[m] = "record" /\ Written(m)
          /\ setup' = setup /\ head' = head /\ want' = want /\ disk' = disk /\ bin' = bin
          /\ second' = second
        BY <1>3, KeysStay DEF Record, places
    <2>1. /\ CloneInput(m)' = CloneInput(m) /\ SecondInput(m)' = SecondInput(m)
          /\ Unhashable(m, 2)' = Unhashable(m, 2)
        BY <2>0 DEF CloneInput, SecondInput, ContentInput, Unhashable, Tip
    <2>2. calm[m] >= 0 => input[m][1] = CloneInput(m)
        BY <2>0 DEF Calm, HashedYet, Executing
    <2>3. CASE result[m] = "ok" /\ at[m] = 1
        <3>1. Last(m, 1)' = Success(input[m][1])
            BY <2>0, <2>3, WrittenRows DEF EventAt
        <3>2. calm[m] >= 0 => CloneDone(m)'
            BY <2>0, <2>1, <2>2, <2>3, <3>1 DEF CloneDone, Calm, Succeeded
        <3>3. calm[m] <= 0
            BY <1>0, <2>0, <2>3 DEF Kept, InPhase, Calm
        <3>4. /\ pc'[m] = "start" /\ at'[m] = 2 /\ input' = input /\ stale' = stale
              /\ calm'[m] = calm[m]
            BY <1>0, <1>3, <2>3 DEF Record, Disturbed, Sharing, Types, Typed, Inductive
        <3> QED
            BY <1>0, <2>1, <2>2, <3>2, <3>3, <3>4
            DEF Calm, Idle, HashedYet, JudgedYet, Succeeded, Executing
    <2>4. CASE result[m] = "ok" /\ at[m] = 2
        <3>1. Last(m, 2)' = Success(input[m][2]) /\ Before(m, 1)
            BY <1>0, <2>0, <2>4, WrittenRows DEF EventAt
        <3>2. /\ calm[m] >= 0 => CloneDone(m)
              /\ calm[m] >= 1 => input[m][2] = SecondInput(m) /\ ~Unhashable(m, 2)
              /\ bin[m] # NoTree
            BY <2>0, <2>4 DEF Calm, HashedYet, Executing, Succeeded
        <3>3. CloneDone(m)' = CloneDone(m)
            BY <2>0, <2>1, <3>1 DEF CloneDone, Before
        <3>4. calm[m] >= 1 => BuildDone(m)'
            BY <2>0, <2>1, <3>1, <3>2 DEF BuildDone
        <3>5. Home(m) /\ calm'[m] = EndsCalm(m, result[m] = "ok")
            BY <1>3, <2>4 DEF Record
        <3>6. EndsCalm(m, result[m] = "ok") = EndsCalm(m, TRUE)
            BY <2>4 DEF EndsCalm
        <3> QED
            BY <3>2, <3>3, <3>4, <3>5, <3>6, CleanEndsCalm
    <2>5. CASE result[m] # "ok"
        <3>1. Home(m) /\ calm'[m] = EndsCalm(m, FALSE)
            BY <1>3, <2>5 DEF Record
        <3>2. calm'[m] = 0
            BY <3>1 DEF EndsCalm
        <3> QED
            BY <3>1, <3>2, DisturbedEndsCalm
    <2> QED
        BY <1>0, <2>3, <2>4, <2>5
<1> QED
    BY <1>1, <1>2, <1>3
\* A batch disturbs the machines that share the record, and nobody else.
LEMMA CalmElsewhere ==
    ASSUME Types, NEW m \in Machines, NEW n \in Machines \ {m},
           Step(m) \/ Misstep(m) \/ EditUrl(m) \/ LoseArtifact(m)
    PROVE  \/ calm'[n] = IF Idle(n) THEN 0 ELSE -1
           \/ calm'[n] = calm[n] /\ \A a \in Actions : Last(n, a)' = Last(n, a)
<1>0. calm \in [Machines -> Int]
    BY DEF Types, Typed
<1>1. CASE Record(m)
    <2>1. n \in Sharing(m) => calm'[n] = IF Idle(n) THEN 0 ELSE -1
        BY <1>0, <1>1 DEF Record, Disturbed
    <2>2. n \notin Sharing(m) => calm'[n] = calm[n]
        BY <1>0, <1>1 DEF Record, Disturbed
    <2>3. n \notin Sharing(m) => \A a \in Actions : Last(n, a)' = Last(n, a)
        BY <1>1, NoneOfTheirs DEF Record, Writes
    <2> QED
        BY <2>1, <2>2, <2>3
<1>2. CASE RecordFails(m)
    BY <1>0, <1>2 DEF RecordFails
<1>3. CASE ~Record(m) /\ ~RecordFails(m)
    <2>1. calm'[n] = calm[n]
        BY <1>0, <1>3 DEF Step, Misstep, StartSync, Hash, PlanRefused, PlanFails, PlanEnds,
           Judge, JudgeUnread, SkipLayer, Fetch, FetchRefused, Reset, StartClone, FinishClone,
           Install, DockerBuild, Build, CloneFails, StepFails, Cancelled, Crash, EditUrl,
           LoseArtifact, Disturbed
    <2>2. told' = told /\ setup' = setup
        BY <1>3 DEF Step, Misstep, StartSync, Hash, PlanRefused, PlanFails, PlanEnds,
           Judge, JudgeUnread, Decide, SkipLayer, Fetch, FetchRefused, Reset, StartClone,
           FinishClone, Install, DockerBuild, Build, CloneFails, StepFails, Cancelled, Crash,
           EditUrl, LoseArtifact, Returns, store
    <2> QED
        BY <2>1, <2>2, UnwrittenRows DEF Before
<1> QED
    BY <1>1, <1>2, <1>3

AllCalm == AllKept /\ \A m \in Machines : Calm(m)

LEMMA InitCalm == Init => AllCalm
<1> SUFFICES ASSUME Init, NEW m \in Machines PROVE Calm(m)
    BY InitKept DEF AllCalm
<1>1. pc[m] = "idle" /\ calm[m] = 0
    BY DEF Init
<1> QED
    BY <1>1 DEF Calm, HashedYet, JudgedYet, Succeeded, Executing

LEMMA NextCalm == AllCalm /\ [Next]_vars => AllCalm'
<1> SUFFICES ASSUME AllCalm, [Next]_vars PROVE AllCalm'
    OBVIOUS
<1>1. Types /\ Types' /\ AllKept'
    BY NextTypes, NextKept DEF AllCalm, AllKept
<1>2. SUFFICES ASSUME NEW n \in Machines PROVE Calm(n)'
    BY <1>1 DEF AllCalm
<1>3. Kept(n) /\ Calm(n)
    BY DEF AllCalm, AllKept
<1>4. ASSUME NEW m \in Machines, Step(m) \/ Misstep(m) \/ EditUrl(m) \/ LoseArtifact(m)
      PROVE  Calm(n)'
    <2>1. CASE n # m
        <3>1. Same(n) /\ setup' = setup /\ head' = head
            BY <1>1, <1>4, <2>1, StepElsewhere, MisstepElsewhere
        <3>2. \/ calm'[n] = IF Idle(n) THEN 0 ELSE -1
              \/ calm'[n] = calm[n] /\ \A a \in Actions : Last(n, a)' = Last(n, a)
            BY <1>1, <1>4, <2>1, CalmElsewhere
        <3> QED
            BY <1>1, <1>3, <3>1, <3>2, OthersStayCalm
    <2>2. CASE n = m /\ (EditUrl(m) \/ LoseArtifact(m))
        <3>1. pc[n] = "idle" /\ pc' = pc /\ calm'[n] = 0
            BY <2>2 DEF EditUrl, LoseArtifact, Disturbed, Idle, local
        <3> QED
            BY <3>1 DEF Calm, HashedYet, JudgedYet, Succeeded, Executing
    <2>3. CASE n = m /\ (Step(m) \/ Misstep(m))
        BY <1>1, <1>3, <2>3, PlanningStaysCalm, ExecutingStaysCalm, EndingStaysCalm
        DEF Step, Misstep
    <2> QED
        BY <1>4, <2>1, <2>2, <2>3
<1>5. ASSUME NEW u \in Urls, Push(u) PROVE Calm(n)'
    <2>1. Same(n) /\ setup' = setup /\ calm'[n] = IF Idle(n) THEN 0 ELSE -1
        BY <1>5 DEF Push, Same, Disturbed, places, store, local
    <2> QED
        BY <1>1, <1>3, <2>1, OthersStayCalm
<1>6. CASE UNCHANGED vars
    <2>1. Same(n) /\ setup' = setup /\ told' = told /\ head' = head /\ calm'[n] = calm[n]
        BY <1>6 DEF vars, Same, places, store, local
    <2>2. \A a \in Actions : Last(n, a)' = Last(n, a)
        BY <2>1, UnwrittenRows DEF Before
    <2> QED
        BY <1>1, <1>3, <2>1, <2>2, OthersStayCalm
<1> QED
    BY <1>4, <1>5, <1>6 DEF Next

\* After two clean syncs in a row that nothing disturbed nothing is left to do,
\* however many machines share the records: a machine that writes one disturbs
\* those it shares it with (docker.rs:80-87, namespaced.rs:4-7).
THEOREM ThirdSyncsAreNoOps == Spec => []ThirdSyncIsNoOp
<1>1. AllCalm => ThirdSyncIsNoOp
    <2> SUFFICES ASSUME AllCalm, NEW m \in Machines, Idle(m), calm[m] = 2
                 PROVE  UpToDateNow(m) = Actions
        BY DEF ThirdSyncIsNoOp
    <2>1. Types /\ Calm(m)
        BY DEF AllCalm, AllKept
    <2>2. CloneDone(m) /\ BuildDone(m)
        BY <2>1 DEF Calm
    <2> QED
        BY <2>1, <2>2, UpToDateMeans, OneNode
<1> QED
    BY <1>1, InitCalm, NextCalm, PTL DEF Spec
=============================================================================

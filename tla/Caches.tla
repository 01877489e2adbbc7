-------------------------------- MODULE Caches --------------------------------
(***************************************************************************)
(* What the backends keep of a build event and give back of it             *)
(* (repolith-cache: sqlite.rs, neo4j.rs).                                  *)
(*                                                                         *)
(* Both keep one record per id.  SQLite has no column for a duration: it   *)
(* keeps the two ends of the build, and uses a start of 0 for "the clock   *)
(* could not date this".  Neo4j keeps the duration and dates records with  *)
(* the server's clock.  Times are milliseconds; `as i64` saturates.        *)
(* Output hashes and error texts are left out: nothing reads them back     *)
(* but the display.  Neo4j's queries are external.                         *)
(***************************************************************************)
EXTENDS Staleness, Integers, Namespaced

CONSTANT MaxInt   \* i64::MAX

ASSUME WidthAssumption == MaxInt \in Nat \ {0}

-----------------------------------------------------------------------------
(* A clock reading: `now` milliseconds after the epoch, or a clock that    *)
(* stands before it and cannot be read.                                    *)

Unreadable  == [readable |-> FALSE]
Reads(now)  == [readable |-> TRUE, now |-> now]
Reading     == [readable : {FALSE}] \cup [readable : {TRUE}, now : Nat]

NoDate      == [dated |-> FALSE]
Date(t)     == [dated |-> TRUE, at |-> t]

Saturated(n) == IF n <= MaxInt THEN n ELSE MaxInt

\* Slip: the start is put on the clock, as if the build had just begun.
StampsFromStart(ms, clock) ==
    IF ~clock.readable THEN [started |-> 0, ended |-> Saturated(ms)]
    ELSE [started |-> Saturated(clock.now), ended |-> Saturated(clock.now + ms)]

\* stamps: the end is on the clock, so that `ended - started` is the duration;
\* a clock that stands at or before the duration dates nothing.
Stamps(ms, clock) ==
    LET took   == Saturated(ms)
        legacy == [started |-> 0, ended |-> took]
    IN  IF ~clock.readable THEN legacy
        ELSE LET ended == Saturated(clock.now)
             IN  IF ended <= took THEN legacy
                 ELSE [started |-> ended - took, ended |-> ended]

-----------------------------------------------------------------------------
(* A record of a backend: what a row or a node says when it is read.       *)

NoRecord == [there |-> FALSE]
BuildRecord(event, ms, date) ==
    [there |-> TRUE, event |-> event, ms |-> ms, date |-> date]

EventOf(kind, input) == [kind |-> kind, input |-> input]

\* insert_event and fetch of SQLite.
SqliteRow(event, ms, clock) ==
    [input |-> event.input, status |-> event.kind,
     started |-> Stamps(ms, clock).started, ended |-> Stamps(ms, clock).ended]

SqliteRead(row) ==
    BuildRecord(EventOf(IF row.status = "success" THEN "success" ELSE "failed", row.input),
                IF row.ended > row.started THEN row.ended - row.started ELSE 0,
                IF row.started = 0 THEN NoDate ELSE Date(row.ended))

\* upsert_query and fetch of Neo4j.
Neo4jNode(event, ms, server) ==
    [kind |-> event.kind, input |-> event.input, ms |-> Saturated(ms), recorded_at |-> server]

Neo4jRead(node) ==
    BuildRecord(EventOf(IF node.kind = "success" THEN "success" ELSE "failed", node.input),
                node.ms, IF node.recorded_at = 0 THEN NoDate ELSE Date(node.recorded_at))

Stored(backend, event, ms, clock, server) ==
    IF backend = "sqlite" THEN SqliteRow(event, ms, clock) ELSE Neo4jNode(event, ms, server)

Fetched(backend, stored) ==
    IF backend = "sqlite" THEN SqliteRead(stored) ELSE Neo4jRead(stored)

\* The date a record should have: a build the clock places before the epoch
\* has none.
DateDue(backend, ms, clock, server) ==
    IF backend = "neo4j" THEN Date(server)
    ELSE IF clock.readable /\ Saturated(clock.now) > Saturated(ms)
         THEN Date(Saturated(clock.now)) ELSE NoDate
=============================================================================

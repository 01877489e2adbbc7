------------------------------ MODULE MCMachines ------------------------------
(***************************************************************************)
(* Finite instances of Machines for TLC.                                   *)
(***************************************************************************)
EXTENDS Machines

MCClock  == [m1 |-> Reads(5), m2 |-> Unreadable, server |-> Reads(4)]
MCTook   == <<2, 9>>

\* The machines share their records, or one has a prefix of its own, which
\* happens to be the name of the node.
Shared == [m1 |-> <<>>, m2 |-> <<>>]
Apart  == [m1 |-> <<>>, m2 |-> <<"node">>]

Setup(who, what, where, naming, faults, bound) ==
    [crew |-> who, git |-> "u1", second |-> what, backend |-> where, ns |-> naming,
     faults |-> faults, changes |-> bound]

Kinds == {"docker", "path", "git"}
Alone == {Setup({"m1"}, what, where, Shared, FaultKinds, 3) :
            what \in Kinds, where \in {"sqlite", "neo4j"}}
Pairs == {Setup({"m1", "m2"}, what, "neo4j", Shared, FaultKinds, 1) : what \in Kinds}
           \cup {Setup({"m1", "m2"}, "docker", "sqlite", Apart, FaultKinds, 1)}
Two   == {Setup({"m1", "m2"}, "path", "neo4j", Shared, {"push"}, 1)}

\* The manifest's remote is exchanged for another and back, and both times the
\* run that should rebuild dies.
Back  == {Setup({"m1"}, "path", "sqlite", Shared, {"edit", "lose", "crash"}, 6)}
AloneOrPairs == Alone \cup Pairs \cup Back
=============================================================================

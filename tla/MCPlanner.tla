------------------------------ MODULE MCPlanner ------------------------------
(***************************************************************************)
(* Finite instances of Planner for TLC.                                    *)
(***************************************************************************)
EXTENDS Planner

\* All dependency lists of length at most two, duplicates, self-dependencies
\* and the unregistered id 9 included.
DepLists(ids) == {<<>>} \cup {<<d>> : d \in ids} \cup {<<d, e>> : d, e \in ids}

Unbuilt == [a \in Actions |-> NoEvent]
AnyHash == CHOOSE h \in Hashes : TRUE

GraphProblem(g) ==
    [deps |-> g, cache |-> Unbuilt, forced |-> {},
     src |-> [a \in Actions |-> AnyHash], present |-> [a \in Actions |-> TRUE]]

\* Every graph on the registered ids, plus those with an unregistered one.
GraphProblems ==
    {GraphProblem(g) : g \in [Actions -> DepLists(Actions)]}
      \cup {GraphProblem(g) : g \in [Actions -> {<<>>, <<9>>, <<1, 9>>}]}

\* A fork (2 and 3 are built from 1) and a chain whose last action also names
\* the first: in both, a cascade crosses a layer.
Fork  == <<<<>>, <<1>>, <<1>>>>
Chain == <<<<>>, <<1>>, <<2, 1>>>>

ProbeProblems ==
    {[deps |-> g, cache |-> c, forced |-> f,
      src |-> [a \in Actions |-> AnyHash], present |-> [a \in Actions |-> TRUE]] :
        g \in {Fork, Chain},
        c \in [Actions -> LastBuild \ {Failed(h) : h \in Hashes \ {AnyHash}}],
        f \in {{}, {1}, {2}}}

AllProblems == GraphProblems \cup ProbeProblems
=============================================================================

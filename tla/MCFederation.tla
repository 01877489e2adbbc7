----------------------------- MODULE MCFederation -----------------------------
(***************************************************************************)
(* A finite instance of Federation for TLC: three levels, a cycle and a    *)
(* level too many.  top has a leaf beside a coordinator and a leaf after   *)
(* them, mid a leaf beside a coordinator, low a leaf.  mid also names top  *)
(* again, and low names deep; x clones both those nodes, that of deep      *)
(* while low may be running.  top and mid have two layers, low has one.    *)
(***************************************************************************)
EXTENDS Federation, TLC

TreeEntries == "top" :> {"a", "toMid", "b"} @@ "mid" :> {"x", "toLow", "toTop"}
               @@ "low" :> {"y", "toDeep"} @@ "deep" :> {"z"}
TreeChild   == "toMid" :> "mid" @@ "toLow" :> "low" @@ "toTop" :> "top" @@ "toDeep" :> "deep"
TreeClones  == "toMid" :> "none" @@ "toLow" :> "none" @@ "toTop" :> "x" @@ "toDeep" :> "x"
TreeLayers  == [e \in {"a", "toMid", "b", "x", "toLow", "toTop", "y", "toDeep", "z"} |->
                  IF e \in {"b", "toTop"} THEN 2 ELSE 1]
TreeDepths  == "top" :> 2 @@ "mid" :> 2 @@ "low" :> 1 @@ "deep" :> 1

\* The root stack has everything to do, the others anything.
TreeStale == [m \in DOMAIN EntriesOf |->
                IF m = Root THEN {EntriesOf[m]} ELSE SUBSET EntriesOf[m]]
=============================================================================

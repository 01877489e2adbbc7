-------------------------------- MODULE MCSync --------------------------------
(***************************************************************************)
(* Finite instances of Sync for TLC: 1 and 2 share a layer, 3 is built     *)
(* from 1, and the first layer fits the pool.                              *)
(***************************************************************************)
EXTENDS Sync, TLC

MCDeps    == <<<<>>, <<>>, <<1>>>>
MCLayerOf == <<1, 1, 2>>
NoPlans   == {}
\* No two sources are ever compared: wherever each begins may have one name.
OneName   == {[a \in Actions |-> h] : h \in Hashes}
Contents  == Permutations(Hashes)
=============================================================================

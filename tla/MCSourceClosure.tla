--------------------------- MODULE MCSourceClosure ---------------------------
(***************************************************************************)
(* A finite instance of SourceClosure for TLC: app and lib in a workspace, *)
(* ext in one of its own; dependencies in both directions and cycles.      *)
(***************************************************************************)
EXTENDS SourceClosure, TLC

TwoWorkspaces == "app" :> "main" @@ "lib" :> "main" @@ "ext" :> "other"
\* app and lib may need each other; ext leads back to lib.
Graphs ==
    "app" :> {{"lib"}, {"lib", "ext"}} @@ "lib" :> {{}, {"app"}} @@ "ext" :> {{"lib"}}
\* Contents of a Cargo.toml and a Cargo.lock.
TwoManifests == {[toml |-> 1, lock |-> 2], [toml |-> 2, lock |-> 1]}
=============================================================================

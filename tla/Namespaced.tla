------------------------------ MODULE Namespaced ------------------------------
(***************************************************************************)
(* NamespacedCache (repolith-cache, namespaced.rs): a cache that prefixes  *)
(* every id on its way in and strips the prefix on its way out.            *)
(*                                                                         *)
(* A key is the sequence of its parts, which `::` separates: those of the  *)
(* prefix, then node, kind and index.                                      *)
(***************************************************************************)
EXTENDS Integers, Sequences

Prefixed(prefix, id) == prefix \o id

\* A key without the prefix is left as it is.
Stripped(prefix, key) ==
    IF Len(prefix) <= Len(key) /\ SubSeq(key, 1, Len(prefix)) = prefix
    THEN SubSeq(key, Len(prefix) + 1, Len(key)) ELSE key
=============================================================================

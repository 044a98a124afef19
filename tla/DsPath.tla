------------------------------- MODULE DsPath -------------------------------
(***************************************************************************)
(* Parsed paths (lib/datasync/path.c): a path is the sequence of its keys, *)
(* the root is <<>>.                                                       *)
(***************************************************************************)
EXTENDS Naturals, Sequences

\* wc_datasync_path_starts_with(): path is prefix or lies below it.
starts_with(path, prefix) ==
    /\ Len(path) >= Len(prefix)
    /\ \A u \in 1..Len(prefix) : path[u] = prefix[u]

\* The loops over shorter and shorter, or longer and longer, paths.
StrictlyBelow(path, prefix) == starts_with(path, prefix) /\ Len(prefix) < Len(path)
=============================================================================

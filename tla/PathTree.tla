------------------------------ MODULE PathTree ------------------------------
(***************************************************************************)
(* A tree of paths, as the trees of subscriptions and of listen items are: *)
(* Avl with the order of PathOrder.                                        *)
(***************************************************************************)
EXTENDS Avl, PathOrder

\* The keys of the tree are paths, compared by wc_datasync_path_cmp().
ASSUME PathTreeAssumption ==
    /\ Key \subseteq PathSet
    /\ \A a, b \in Key : cmp(a, b) = path_cmp(a, b)

\* The elements of the tree: the keys whose search from its root ends at them.
Members == {k \in Key : \E d \in {Descent(heap, root, k)} : d # <<>> /\ d[Len(d)] = k}

\* A tree compared by wc_datasync_path_cmp() implements the ordered set of its
\* paths, in the order that webcom-parser.h documents for the keys: through all
\* rotations avl_insert() and avl_remove() change what can be found by their key and
\* nothing else, and avl_it_next() returns the elements not before the key that
\* avl_it_start_at() was asked for, each once and in that order.
Set == INSTANCE OrderedSet WITH elems <- Members, Before <- PathBefore
ImplementsOrderedSet == Set!Spec

\* The elements at and below a path follow it at once, whether it is an element
\* or not, so that the loops that start there and stop at the first path that
\* does not start with it (on_registry_dispatch_on_event, wc_datasync_watch)
\* meet all of them.
SubtreesAreRuns == \A p \in Key, q, r \in Elems : RunOf(p, q, r)
=============================================================================

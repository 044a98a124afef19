----------------------------- MODULE DataCache ------------------------------
(***************************************************************************)
(* The cache of the database (lib/datasync/cache): a tree of nodes, each   *)
(* with a lazily computed hash that stands for its content.  Writing must  *)
(* drop the hashes of the nodes above, since the event registry calls the  *)
(* application only when a hash has changed.                               *)
(*                                                                         *)
(* Hashes are taken to be injective: the hash of a leaf is its value, the  *)
(* hash of an object the function from its keys to their hashes.  Leaves   *)
(* stand for numbers and strings (the hashes of booleans are constants),   *)
(* and JSON arrays for objects whose keys are the indices.                 *)
(***************************************************************************)
EXTENDS DsPath, FiniteSetsExt

CONSTANTS
    Key,
    Path,           \* bound: the paths that may be used, with their prefixes
    MaxDepth,       \* WC_DS_MAX_DEPTH and the nesting that json-c accepts
    Leaf,
    Null, Object,
    Json,           \* JSON values: functions from relative paths to Leaf, Null, Object
    NotCached       \* hash_cached = 0

Prefixes(p) == {SubSeq(p, 1, n) : n \in 0..Len(p)}
Parent(p) == SubSeq(p, 1, Len(p) - 1)

GoodPaths ==
    /\ MaxDepth \in Nat
    /\ <<>> \in Path
    /\ \A p \in Path : p \in Seq(Key) /\ Len(p) <= MaxDepth /\ Prefixes(p) \subseteq Path

GoodLeaves == Null \notin Leaf /\ Object \notin Leaf /\ Null # Object

\* A JSON value: only objects have members, and finitely many.
IsJson(j) ==
    /\ IsFiniteSet(DOMAIN j)
    /\ <<>> \in DOMAIN j
    /\ \A r \in DOMAIN j :
        /\ r \in Seq(Key)
        /\ j[r] \in Leaf \cup {Null, Object}
        /\ r # <<>> => Parent(r) \in DOMAIN j /\ j[Parent(r)] = Object

ASSUME PathAssumption == GoodPaths
ASSUME LeafAssumption == GoodLeaves
ASSUME JsonAssumption == \A j \in Json : IsJson(j)

VARIABLE cache      \* function from the paths of the nodes to nodes

Node(v) == [val |-> v, hash |-> NotCached]     \* a new node

Init == cache = [p \in {<<>>} |-> Node(Null)]

-----------------------------------------------------------------------------
(* Mutants: plausible bugs of the definitions below.                       *)

\* The hashes above the written path are kept.
mkpath_keep_hash(c, p) ==
    [q \in DOMAIN c \cup Prefixes(p) |->
        IF q \in Prefixes(p) /\ (q \notin DOMAIN c \/ c[q].val # Object)
        THEN Node(Object) ELSE c[q]]

\* The node is overwritten without its old children being removed.
internal_remove_node_only(c, p) == [q \in DOMAIN c \ {p} |-> c[q]]

-----------------------------------------------------------------------------
(* Helpers, as functions of a cache c                                      *)

\* data_cache_mkpath_w(): p and all above it become objects without hash.
mkpath_w(c, p) ==
    [q \in DOMAIN c \cup Prefixes(p) |->
        IF q \notin Prefixes(p) THEN c[q]
        ELSE Node(Object)]

internal_remove(c, p) == [q \in {q \in DOMAIN c : ~starts_with(q, p)} |-> c[q]]

\* data_cache_set_r(): the nodes of j below p; a null member is removed.
set_r(c, p, j) ==
    LET new == {p \o r : r \in {r \in DOMAIN j : j[r] # Null}}
    IN  [q \in DOMAIN c \cup new |->
            IF q \in new THEN Node(j[SubSeq(q, Len(p) + 1, Len(q))]) ELSE c[q]]

\* data_cache_set_ex(): the root is replaced as a whole.
set_ex(c, p, j) ==
    IF p = <<>>
    THEN IF j[<<>>] = Null THEN [q \in {<<>>} |-> Node(Null)]
         ELSE set_r([q \in {} |-> Node(Null)], p, j)
    ELSE set_r(internal_remove(mkpath_w(c, Parent(p)), p), p, j)

Members(j) == {r \in DOMAIN j : Len(r) = 1}
Member(j, r) ==
    [s \in {SubSeq(u, 2, Len(u)) : u \in {u \in DOMAIN j : starts_with(u, r)}} |-> j[r \o s]]

\* treenode_hash(): the hash of each node, from the hashes of its children that
\* are not null, unless it is known.
Children(c, p) == {k \in Key : Append(p, k) \in DOMAIN c /\ c[Append(p, k)].val # Null}
HashOf(c) ==
    LET h[p \in DOMAIN c] ==
            IF c[p].hash # NotCached THEN c[p].hash
            ELSE IF c[p].val = Object THEN [k \in Children(c, p) |-> h[Append(p, k)]]
            ELSE c[p].val
    IN  h

-----------------------------------------------------------------------------
(* Operations                                                              *)

Fits(p, j) == \A r \in DOMAIN j : p \o r \in Path

data_cache_set(p, j) ==
    /\ Fits(p, j)
    /\ cache' = set_ex(cache, p, j)

\* data_cache_merge(): the members of an object are written one after the other;
\* other values are ignored.
data_cache_merge(p, j) ==
    /\ Fits(p, j)
    /\ j[<<>>] = Object
    /\ cache' = FoldSet(LAMBDA r, c : set_ex(c, p \o r, Member(j, r)), cache, Members(j))

\* data_cache_set_leaf(): the only operation that stores nulls below the root.
data_cache_set_leaf(p, v) ==
    cache' = IF p = <<>> THEN [q \in {<<>>} |-> Node(v)]
             ELSE LET c == internal_remove(mkpath_w(cache, Parent(p)), p)
                  IN  [q \in DOMAIN c \cup {p} |-> IF q = p THEN Node(v) ELSE c[q]]

data_cache_mkpath(p) == cache' = mkpath_w(cache, p)

\* treenode_hash_get(): computes and stores the missing hashes at and below p,
\* without looking below a node whose hash is known.
treenode_hash_get(p) ==
    LET known(q) == cache[q].hash # NotCached
        visited == {q \in DOMAIN cache :
                        /\ starts_with(q, p)
                        /\ \A r \in DOMAIN cache : ~(/\ starts_with(r, p) /\ known(r)
                                                     /\ StrictlyBelow(q, r))}
        h == HashOf(cache)
    IN  /\ p \in DOMAIN cache
        /\ cache[p].hash = NotCached
        /\ cache' = [q \in DOMAIN cache |->
                        IF q \in visited /\ cache[q].val # Null
                        THEN [cache[q] EXCEPT !.hash = h[q]] ELSE cache[q]]

-----------------------------------------------------------------------------
Next ==
    \E p \in Path :
        \/ \E j \in Json : data_cache_set(p, j) \/ data_cache_merge(p, j)
        \/ \E v \in Leaf \cup {Null} : data_cache_set_leaf(p, v)
        \/ data_cache_mkpath(p)
        \/ treenode_hash_get(p)

Spec == Init /\ [][Next]_cache

-----------------------------------------------------------------------------
(* Properties                                                              *)

\* The nodes form a tree: every node but the root has an object above it, so
\* that no value of the document is out of reach of data_cache_get_r().
TypeOK ==
    /\ DOMAIN cache \subseteq Path
    /\ <<>> \in DOMAIN cache
    /\ \A p \in DOMAIN cache :
        /\ cache[p].val \in Leaf \cup {Null, Object}
        /\ p # <<>> => Parent(p) \in DOMAIN cache /\ cache[Parent(p)].val = Object

\* A stored hash is never stale: it is the one that a new copy of the node,
\* computed from scratch, would have.
HashFresh ==
    LET copy == [p \in DOMAIN cache |-> Node(cache[p].val)]
        h == HashOf(copy)
    IN  \A p \in DOMAIN cache : cache[p].hash # NotCached => cache[p].hash = h[p]

\* The cache implements the abstract document, whatever objects, nulls and
\* hashes it keeps besides the leaves.
Leaves == {p \in DOMAIN cache : cache[p].val \in Leaf}
Doc == INSTANCE Document WITH doc <- [p \in Leaves |-> cache[p].val]
ImplementsDocument == Doc!Spec
=============================================================================

------------------------------ MODULE Document ------------------------------
(***************************************************************************)
(* What the local cache of the database promises: a document is a set of   *)
(* leaves, each at a path, none above another; writing a JSON value at a   *)
(* path replaces what was at, below or (as a leaf) above that path, and    *)
(* nothing else.  Objects without a leaf do not exist at this level.       *)
(***************************************************************************)
EXTENDS DsPath

CONSTANTS
    Path,           \* the paths of the database
    Leaf,           \* the values of leaves
    Null, Object,   \* the JSON null, and what makes a node a JSON object
    Json            \* JSON values: functions from relative paths to the above

VARIABLE doc        \* function from the paths of the leaves to their values

Related(p, q) == starts_with(p, q) \/ starts_with(q, p)

LeavesOf(j) == {r \in DOMAIN j : j[r] \in Leaf}

\* The document with j written at p.
Written(d, p, j) ==
    LET kept == {q \in DOMAIN d : ~Related(q, p)}
        new == {p \o r : r \in LeavesOf(j)}
    IN  [q \in kept \cup new |-> IF q \in new THEN j[SubSeq(q, Len(p) + 1, Len(q))] ELSE d[q]]

\* The members of an object.
Members(j) == {r \in DOMAIN j : Len(r) = 1}

Init == doc = [q \in {} |-> Null]

Put(p, j) == doc' = Written(doc, p, j)

\* Each member of j is written below p.
Merge(p, j) ==
    LET kept == {q \in DOMAIN doc : \A r \in Members(j) : ~Related(q, p \o r)}
        new == {p \o r : r \in LeavesOf(j)}
    IN  doc' = [q \in kept \cup new |->
                    IF q \in new THEN j[SubSeq(q, Len(p) + 1, Len(q))] ELSE doc[q]]

\* Room is made for children of p.
Clear(p) ==
    LET kept == {q \in DOMAIN doc : ~starts_with(p, q)}
    IN  doc' = [q \in kept |-> doc[q]]

Next == \E p \in Path : \/ \E j \in Json : Put(p, j) \/ (j[<<>>] = Object /\ Merge(p, j))
                        \/ \E v \in Leaf \cup {Null} : Put(p, [r \in {<<>>} |-> v])
                        \/ Clear(p)

Spec == Init /\ [][Next]_doc
=============================================================================

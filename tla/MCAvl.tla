------------------------------- MODULE MCAvl --------------------------------
(* Model-checking instance of PathTree.                                    *)
EXTENDS PathTree

Num(n, len) == [num |-> n, len |-> len, text |-> 0]
Name(rank) == [num |-> NotInt, len |-> 1, text |-> rank]

\* -6, 1, 01 and two names; the integers are as far apart as an int can tell.
Keys == {Num(-6, 2), Num(1, 1), Num(1, 2), Name(1), Name(2)}

\* Texts with slashes missing, in excess and at the end, and two texts that are
\* deeper than MaxDepth and become one path.
Texts ==
    LET one == Num(1, 1)
        a == Name(1)
    IN  {<<>>, <<Slash, Num(-6, 2)>>, <<one, Slash>>, <<Num(1, 2)>>,
         <<Slash, Slash, one, Slash, Slash, a>>, <<a, Slash, Slash>>,
         <<a, Slash, one, Slash, a>>, <<a, Slash, one, Slash, Name(2)>>}
Paths == {path_parse(t) : t \in Texts}

\* wc_datasync_path_cmp() of these paths, computed once.
Cmp == [p \in Paths |-> [q \in Paths |-> path_cmp(p, q)]]
path_order(a, b) == Cmp[a][b]
=============================================================================

-------------------------------- MODULE Avl ---------------------------------
(***************************************************************************)
(* The AVL trees (lib/collection/avl.c) that hold the children of the      *)
(* nodes of the cache, the subscriptions and the listen items.  Nodes      *)
(* never move in memory, so a pointer to a node is the key of the node,    *)
(* and the heap is a function from the keys of the allocated nodes.  The   *)
(* loops and recursions of the code follow a descent through the tree.  An *)
(* iterator keeps a stack of nodes whose element is still to come.  The    *)
(* loops of the SDK never go on with an iterator after they changed the    *)
(* tree; callbacks of the application that do are left out.                *)
(***************************************************************************)
EXTENDS Integers, Sequences, FiniteSets

CONSTANTS
    Key,                \* keys
    Nil,                \* NULL
    Lowest, Highest,    \* stand for keys before and after all others
    cmp(_, _)           \* avl->key_cmp

\* key_cmp orders the keys, and tells apart any two of them.
ASSUME KeyAssumption ==
    /\ {Nil, Lowest, Highest} \cap Key = {} /\ Lowest # Highest /\ Lowest # Nil
    /\ \A a, b \in Key : /\ cmp(a, b) \in Int
                         /\ cmp(a, b) = 0 <=> a = b
                         /\ cmp(a, b) < 0 <=> cmp(b, a) > 0
    /\ \A a, b, c \in Key : cmp(a, b) < 0 /\ cmp(b, c) < 0 => cmp(a, c) < 0

VARIABLES
    heap,       \* the nodes
    root,       \* avl->root
    count,      \* avl->count
    it,         \* the iterator
    got,        \* what avl_it_next() returned last
    asked,      \* history: the key the iteration was started at, Lowest for the
                \* start of the tree, Nil if there is no iteration
    given       \* history: what the iteration has returned

tree == <<heap, root, count>>
vars == <<heap, root, count, it, got, asked, given>>

\* struct avl_node, as avl_insert_rec() sets it up.
NewNode == [l |-> Nil, r |-> Nil, height |-> 1]

\* An iterator: its stack (_s up to _sp), _c, _rt and __rt.
Fresh == [stack |-> <<>>, c |-> Nil, rt |-> Nil, rt2 |-> Nil]

Init ==
    /\ heap = <<>> /\ root = Nil /\ count = 0
    /\ it = Fresh /\ got = Nil /\ asked = Nil /\ given = {}

-----------------------------------------------------------------------------
\* The heaps after malloc() and free() of a node.
Alloc(h, k) == [n \in DOMAIN h \cup {k} |-> IF n = k THEN NewNode ELSE h[n]]
Free(h, k) == [n \in DOMAIN h \ {k} |-> h[n]]

\* The height of the subtree n.
Height(h, n) == IF n = Nil THEN 0 ELSE h[n].height
Higher(a, b) == IF a > b THEN a ELSE b

avl_update_height(h, n) ==
    [h EXCEPT ![n].height = 1 + Higher(Height(h, h[n].l), Height(h, h[n].r))]
avl_delta(h, n) == Height(h, h[n].l) - Height(h, h[n].r)

-----------------------------------------------------------------------------
(* Mutants: plausible bugs of the definitions below.                       *)

\* The node that comes up keeps its height.
RotlStaleHeight(h, n) ==
    LET r == h[n].r
    IN  [heap |-> avl_update_height([h EXCEPT ![n].r = h[r].l, ![r].l = n], n), root |-> r]

\* The search for the start of an iteration misses the key itself.
VisitStrict(i, n, k) ==
    [stack |-> IF cmp(k, n) < 0 THEN Append(i.stack, n) ELSE i.stack,
     c |-> n, rt |-> i.rt2, rt2 |-> IF cmp(k, n) > 0 THEN n ELSE i.rt2]

\* The last right turn is recorded before it is saved.
AfterSwapped(top, stack, i) ==
    LET turn == IF heap[top].r = Nil THEN i.rt2 ELSE top
    IN  [stack |-> stack, c |-> top, rt |-> turn, rt2 |-> turn]

-----------------------------------------------------------------------------
(* Balancing: the heap afterwards, and the new root of the subtree         *)

avl_rotl(h, n) ==
    LET r == h[n].r
        turned == [h EXCEPT ![n].r = h[r].l, ![r].l = n]
    IN  [heap |-> avl_update_height(avl_update_height(turned, n), r), root |-> r]

avl_rotr(h, n) ==
    LET l == h[n].l
        turned == [h EXCEPT ![n].l = h[l].r, ![l].r = n]
    IN  [heap |-> avl_update_height(avl_update_height(turned, n), l), root |-> l]

avl_balance(h, n) ==
    LET r == avl_rotr(h, h[n].r)
        l == avl_rotl(h, h[n].l)
    IN  IF avl_delta(h, n) < -1
        THEN avl_rotl(IF avl_delta(h, h[n].r) > 0 THEN [r.heap EXCEPT ![n].r = r.root] ELSE h, n)
        ELSE IF avl_delta(h, n) > 1
        THEN avl_rotr(IF avl_delta(h, h[n].l) < 0 THEN [l.heap EXCEPT ![n].l = l.root] ELSE h, n)
        ELSE [heap |-> avl_update_height(h, n), root |-> n]

-----------------------------------------------------------------------------
(* Search, insertion and removal                                           *)

\* Where the search for k turns at n: left, right, or nowhere if it is found.
Turn(k, n) == IF k = Lowest THEN -1 ELSE IF k = Highest THEN 1 ELSE cmp(k, n)

Below(h, n, k) ==
    IF Turn(k, n) < 0 THEN h[n].l ELSE IF Turn(k, n) > 0 THEN h[n].r ELSE Nil

\* The nodes that a search for k below n meets.  No descent meets more nodes than
\* there are.
Descent(h, n, k) ==
    LET step == [w \in Seq(Key) |->
                    LET m == IF w = <<>> THEN n ELSE Below(h, w[Len(w)], k)
                    IN  IF m = Nil THEN w ELSE Append(w, m)]
        walk[i \in 0..Cardinality(DOMAIN h)] == IF i = 0 THEN <<>> ELSE step[walk[i - 1]]
    IN  walk[Cardinality(DOMAIN h)]

\* The way back up: every node of the descent gets what became of the subtree
\* that was searched, and is balanced.
Hang(h, n, k, child) ==
    IF Turn(k, n) < 0 THEN [h EXCEPT ![n].l = child] ELSE [h EXCEPT ![n].r = child]

Ascent(nodes, k, below) ==
    LET up[i \in 0..Len(nodes)] ==
            IF i = 0 THEN below
            ELSE LET n == nodes[Len(nodes) - i + 1]
                     b == up[i - 1]
                 IN  avl_balance(Hang(b.heap, n, k, b.root), n)
    IN  up[Len(nodes)]

\* The node with key k, or NULL.
avl_get(h, n, k) ==
    LET d == Descent(h, n, k)
    IN  IF d # <<>> /\ cmp(k, d[Len(d)]) = 0 THEN d[Len(d)] ELSE Nil

avl_insert_rec(h, n, k) == Ascent(Descent(h, n, k), k, [heap |-> Alloc(h, k), root |-> k])

\* r is hung below the last node of n.
avl_movr(h, n, r) == Ascent(Descent(h, n, Highest), Highest, [heap |-> h, root |-> r])

avl_remove_rec(h, n, k) ==
    LET d == Descent(h, n, k)
        moved == avl_movr(h, h[k].l, h[k].r)
    IN  Ascent(SubSeq(d, 1, Len(d) - 1), k, [heap |-> Free(moved.heap, k), root |-> moved.root])

Forget == it' = Fresh /\ got' = Nil /\ asked' = Nil /\ given' = {}

\* Nothing happens if the key is there.
avl_insert(k) ==
    LET t == avl_insert_rec(heap, root, k)
    IN  /\ avl_get(heap, root, k) = Nil
        /\ heap' = t.heap /\ root' = t.root
        /\ count' = count + 1
        /\ Forget

\* Nothing happens if the key is not there.
avl_remove(k) ==
    LET t == avl_remove_rec(heap, root, k)
    IN  /\ avl_get(heap, root, k) # Nil
        /\ heap' = t.heap /\ root' = t.root
        /\ count' = count - 1
        /\ Forget

avl_remove_all == heap' = <<>> /\ root' = Nil /\ count' = 0 /\ Forget

-----------------------------------------------------------------------------
(* Iterators                                                               *)

\* Pushes n and its left descendants.
Push(stack, n) == stack \o Descent(heap, n, Lowest)

avl_it_start ==
    /\ it' = [Fresh EXCEPT !.stack = Push(<<>>, root)]
    /\ got' = Nil /\ asked' = Lowest /\ given' = {}
    /\ UNCHANGED tree

\* The search for k pushes the nodes where it turns left, and the one it finds.
Visit(i, n, k) ==
    [stack |-> IF cmp(k, n) <= 0 THEN Append(i.stack, n) ELSE i.stack,
     c |-> n, rt |-> i.rt2, rt2 |-> IF cmp(k, n) > 0 THEN n ELSE i.rt2]

Seek(k) ==
    LET d == Descent(heap, root, k)
        seek[i \in 0..Len(d)] == IF i = 0 THEN Fresh ELSE Visit(seek[i - 1], d[i], k)
    IN  seek[Len(d)]

avl_it_start_at(k) ==
    /\ it' = Seek(k)
    /\ got' = Nil /\ asked' = k /\ given' = {}
    /\ UNCHANGED tree

\* The iterator i once its stack became this one and top was taken from it.
After(top, stack, i) ==
    [stack |-> stack, c |-> top, rt |-> i.rt2,
     rt2 |-> IF heap[top].r = Nil THEN i.rt2 ELSE top]

avl_it_next ==
    LET last == Len(it.stack)
        top == it.stack[last]
    IN  /\ \/ last = 0 /\ got' = Nil /\ UNCHANGED it
           \/ /\ last > 0
              /\ got' = top
              /\ it' = After(top, Push(SubSeq(it.stack, 1, last - 1), heap[top].r), it)
        /\ given' = given \cup ({got'} \ {Nil})
        /\ UNCHANGED <<tree, asked>>

avl_it_peek_prev ==
    LET d == Descent(heap, heap[it.c].l, Highest)
    IN  IF it.c = Nil THEN Nil ELSE IF d # <<>> THEN d[Len(d)] ELSE it.rt

-----------------------------------------------------------------------------
Next ==
    \/ \E k \in Key : avl_insert(k) \/ avl_remove(k)
    \/ avl_remove_all
    \/ avl_it_start
    \/ \E k \in Key : avl_it_start_at(k)
    \/ avl_it_next

Spec == Init /\ [][Next]_vars

-----------------------------------------------------------------------------
(* Properties                                                              *)

\* The elements, in memory.
Elems == DOMAIN heap

\* Types, and the count is that of the elements, whatever was inserted twice or
\* removed without being there.
TypeOK ==
    /\ Elems \subseteq Key
    /\ count = Cardinality(Elems)
    /\ it.stack \in Seq(Key)
    /\ {it.c, it.rt, it.rt2, got} \subseteq Key \cup {Nil}
    /\ asked \in Key \cup {Lowest, Nil} /\ given \subseteq Key

\* After any sequence of rotations every node is where a search looks for it, none
\* is lost and none is found that was freed, and every stored height, on which the
\* next rotation relies, is that of the subtree.  The stack of an iterator never
\* holds more nodes than the tree is high (avl.h: "size is the max avl depth").
HeightsAndOrder ==
    /\ TypeOK
    /\ \A k \in Key : avl_get(heap, root, k) = IF k \in Elems THEN k ELSE Nil
    /\ \A n \in Elems :
           heap[n].height = 1 + Higher(Height(heap, heap[n].l), Height(heap, heap[n].r))
    /\ Len(it.stack) <= Height(heap, root)

\* During an iteration from any start, avl_it_peek_prev() returns the element
\* before the current one (test-avl.c: "The previous key is correct").
PrevIsRight ==
    LET before == {k \in Elems : cmp(k, got) < 0}
    IN  got # Nil =>
            \/ before = {} /\ avl_it_peek_prev = Nil
            \/ /\ avl_it_peek_prev \in before
               /\ \A k \in before : cmp(k, avl_it_peek_prev) <= 0
=============================================================================

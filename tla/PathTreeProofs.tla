---------------------------- MODULE PathTreeProofs --------------------------
(***************************************************************************)
(* Proofs about PathOrder and the AVL trees, for every set of keys and of  *)
(* paths: the order of wc_datasync_key_cmp() is the documented one, the    *)
(* subtree of a path is a run of the order of wc_datasync_path_cmp(), and  *)
(* a tree in this order implements the ordered set of its paths.           *)
(*                                                                         *)
(* A tree in the heap is described by the set of the nodes at and below    *)
(* each of its nodes.  The rotations, the way back up of the recursive     *)
(* functions and the descents are shown to keep this description; the      *)
(* stack of an iterator is described by what lies between its nodes.       *)
(***************************************************************************)
EXTENDS PathTree, FiniteSetTheorems, SequenceTheorems, WellFoundedInduction, TLAPS

\* A set of numbers that is not empty has a smallest one.
LEMMA Smallest ==
  ASSUME NEW S, S \subseteq Nat, S # {}
  PROVE  \E u \in S : \A w \in S : u <= w
<1>1. PICK u \in S : \A w \in S : ~ (<<w, u>> \in OpToRel(<, Nat))
  BY WFMin, NatLessThanWellFounded
<1>2. \A w \in S : ~ (w < u)
  BY <1>1 DEF OpToRel
<1>. QED
  BY <1>2

\* The numbers can be counted up to.
LEMMA CountUp ==
  ASSUME NEW S, 0 \in S, \A n \in Nat : n \in S => n + 1 \in S
  PROVE  Nat \subseteq S
<1>. SUFFICES ASSUME Nat \ S # {} PROVE FALSE
  OBVIOUS
<1>1. PICK u \in Nat \ S : \A w \in Nat \ S : u <= w
  <2>1. Nat \ S \subseteq Nat
    OBVIOUS
  <2>. QED
    BY <2>1, Smallest
<1>2. u - 1 \in Nat /\ u - 1 \in S
  BY <1>1
<1>3. (u - 1) + 1 \in S
  BY <1>2
<1>. QED
  BY <1>1, <1>3

-----------------------------------------------------------------------------
(* Arithmetic                                                              *)

\* Numbers that an int can hold are converted to themselves.
LEMMA ToIntExact ==
  ASSUME NEW x \in Int, -IntHalf < x, x < IntHalf
  PROVE  ToInt(x) = x
<1>1. IntHalf \in Nat \ {0}
  BY PathOrderAssumption
<1>. DEFINE y == x + IntHalf
            m == 2 * IntHalf
<1>2. y \in Nat /\ m \in Nat \ {0} /\ y < m
  BY <1>1
<1>3. y % m = y
  <2>. HIDE DEF y, m
  <2>. QED
    BY <1>2
<1>4. ToInt(x) = (y % m) - IntHalf
  BY DEF ToInt
<1>5. ToInt(x) = y - IntHalf
  BY <1>3, <1>4
<1>. QED
  BY <1>1, <1>5

-----------------------------------------------------------------------------
(* Keys                                                                    *)

\* Numbers that are up to 2^32 too big or too small for an int lose or gain 2^32.
LEMMA ToIntWraps ==
  ASSUME NEW x \in Int
  PROVE  /\ IntHalf <= x /\ x < 3 * IntHalf => ToInt(x) = x - 2 * IntHalf
         /\ -3 * IntHalf <= x /\ x < -IntHalf => ToInt(x) = x + 2 * IntHalf
         /\ -IntHalf <= x /\ x < IntHalf => ToInt(x) = x
<1>. DEFINE y == x + IntHalf
            m == 2 * IntHalf
<1>1. IntHalf \in Nat \ {0}
  BY PathOrderAssumption
<1>2. y \in Int /\ m \in Nat \ {0}
  BY <1>1
<1>3. ToInt(x) = (y % m) - IntHalf
  BY DEF ToInt
<1>4. /\ 0 <= y /\ y < m => y % m = y
      /\ m <= y /\ y < 2 * m => y % m = y - m
      /\ -m <= y /\ y < 0 => y % m = y + m
  <2>. HIDE DEF y, m
  <2>. QED
    BY <1>2
<1>5. CASE -IntHalf <= x /\ x < IntHalf
  <2>1. 0 <= y /\ y < m
    BY <1>1, <1>5
  <2>2. ToInt(x) = y - IntHalf
    BY <1>3, <1>4, <2>1
  <2>. QED
    BY <1>1, <1>5, <2>2
<1>6. CASE IntHalf <= x /\ x < 3 * IntHalf
  <2>1. m <= y /\ y < 2 * m
    BY <1>1, <1>6
  <2>2. ToInt(x) = y - m - IntHalf
    BY <1>3, <1>4, <2>1
  <2>. QED
    BY <1>1, <1>6, <2>2
<1>7. CASE -3 * IntHalf <= x /\ x < -IntHalf
  <2>1. -m <= y /\ y < 0
    BY <1>1, <1>7
  <2>2. y % m = y + m
    <3>. HIDE DEF y, m
    <3>. QED
      BY <1>4, <2>1
  <2>. QED
    BY <1>1, <1>3, <1>7, <2>2
<1>. QED
  BY <1>1, <1>5, <1>6, <1>7

\* What wc_datasync_key_cmp() reads of any key.
AnyKey == [num : Int \cup {NotInt}, len : Nat, text : Int]

\* wc_datasync_key_cmp() of any two keys: it makes the documented order of keys
\* that are not both integers, or are the same integer; of those it calls equal
\* the names that are, and the integers that are as long as each other (0x1 and
\* 001).  Different integers are in their order if their difference fits an int;
\* if it is up to 2^31 too big, they are in the opposite order, but 2^32 makes
\* them equal.
THEOREM KeyOrder ==
  ASSUME NEW a \in AnyKey, NEW b \in AnyKey
  PROVE  /\ a.num = b.num \/ a.num = NotInt \/ b.num = NotInt =>
             /\ key_cmp(a, b) < 0 <=> KeyBefore(a, b)
             /\ key_cmp(a, b) = 0 <=>
                    /\ a.num = b.num
                    /\ IF a.num = NotInt THEN a.text = b.text ELSE a.len = b.len
         /\ a.num # b.num /\ a.num # NotInt /\ b.num # NotInt =>
             LET d == a.num - b.num
             IN  /\ d \in -IntHalf..IntHalf - 1 =>
                        key_cmp(a, b) # 0 /\ (key_cmp(a, b) < 0 <=> KeyBefore(a, b))
                 /\ d \in IntHalf..2 * IntHalf - 1 =>
                        key_cmp(a, b) < 0 /\ KeyBefore(b, a)
                 /\ d \in -2 * IntHalf + 1..-IntHalf - 1 =>
                        key_cmp(a, b) > 0 /\ KeyBefore(a, b)
                 /\ d \in {-2 * IntHalf, 2 * IntHalf} => key_cmp(a, b) = 0
<1>1. /\ NotInt \notin Int /\ IntHalf \in Nat \ {0}
      /\ a.num \in Int \cup {NotInt} /\ a.len \in Nat /\ a.text \in Int
      /\ b.num \in Int \cup {NotInt} /\ b.len \in Nat /\ b.text \in Int
  BY PathOrderAssumption DEF AnyKey
<1>2. ASSUME a.num = b.num \/ a.num = NotInt \/ b.num = NotInt
      PROVE  /\ key_cmp(a, b) < 0 <=> KeyBefore(a, b)
             /\ key_cmp(a, b) = 0 <=>
                    /\ a.num = b.num
                    /\ IF a.num = NotInt THEN a.text = b.text ELSE a.len = b.len
  BY <1>1, <1>2 DEF key_cmp, KeyBefore
<1>3. ASSUME a.num # b.num, a.num # NotInt, b.num # NotInt
      PROVE  LET d == a.num - b.num
             IN  /\ d \in -IntHalf..IntHalf - 1 =>
                        key_cmp(a, b) # 0 /\ (key_cmp(a, b) < 0 <=> KeyBefore(a, b))
                 /\ d \in IntHalf..2 * IntHalf - 1 =>
                        key_cmp(a, b) < 0 /\ KeyBefore(b, a)
                 /\ d \in -2 * IntHalf + 1..-IntHalf - 1 =>
                        key_cmp(a, b) > 0 /\ KeyBefore(a, b)
                 /\ d \in {-2 * IntHalf, 2 * IntHalf} => key_cmp(a, b) = 0
  <2>. DEFINE d == a.num - b.num
  <2>1. /\ d \in Int /\ key_cmp(a, b) = ToInt(d)
        /\ KeyBefore(a, b) <=> a.num < b.num
        /\ KeyBefore(b, a) <=> b.num < a.num
    BY <1>1, <1>3 DEF key_cmp, KeyBefore
  <2>2. /\ IntHalf <= d /\ d < 3 * IntHalf => ToInt(d) = d - 2 * IntHalf
        /\ -3 * IntHalf <= d /\ d < -IntHalf => ToInt(d) = d + 2 * IntHalf
        /\ -IntHalf <= d /\ d < IntHalf => ToInt(d) = d
    BY <2>1, ToIntWraps
  <2>. QED
    BY <1>1, <1>3, <2>1, <2>2
<1>. QED
  BY <1>2, <1>3

\* The keys in use are in the documented order, and no two of them are equal.
LEMMA KeysInUse ==
  ASSUME NEW a \in KeySet, NEW b \in KeySet
  PROVE  /\ key_cmp(a, b) \in Int
         /\ key_cmp(a, b) < 0 <=> KeyBefore(a, b)
         /\ key_cmp(a, b) = 0 <=> a = b
         /\ key_cmp(a, b) < 0 <=> key_cmp(b, a) > 0
<1>1. /\ NotInt \notin Int /\ IntHalf \in Nat \ {0}
      /\ a.num \in Int \cup {NotInt} /\ a.len \in Nat /\ a.text \in Int
      /\ b.num \in Int \cup {NotInt} /\ b.len \in Nat /\ b.text \in Int
      /\ a # b => KeyBefore(a, b) \/ KeyBefore(b, a)
  BY PathOrderAssumption
<1>2. CASE a.num # NotInt /\ b.num # NotInt
  <2>1. /\ a.num - b.num < IntHalf /\ b.num - a.num < IntHalf
        /\ a.num \in Int /\ b.num \in Int
    BY <1>1, <1>2, PathOrderAssumption
  <2>2. ToInt(a.num - b.num) = a.num - b.num /\ ToInt(b.num - a.num) = b.num - a.num
    BY <1>1, <2>1, ToIntExact
  <2>3. /\ key_cmp(a, b) = (IF a.num = b.num THEN a.len - b.len ELSE a.num - b.num)
        /\ key_cmp(b, a) = (IF a.num = b.num THEN b.len - a.len ELSE b.num - a.num)
    BY <1>2, <2>2 DEF key_cmp
  <2>4. /\ KeyBefore(a, b) <=> a.num < b.num \/ (a.num = b.num /\ a.len < b.len)
        /\ KeyBefore(b, a) <=> b.num < a.num \/ (a.num = b.num /\ b.len < a.len)
    BY <1>2 DEF KeyBefore
  <2>. QED
    BY <1>1, <2>1, <2>3, <2>4
<1>3. CASE a.num # NotInt /\ b.num = NotInt
  BY <1>1, <1>3 DEF key_cmp, KeyBefore
<1>4. CASE a.num = NotInt /\ b.num # NotInt
  BY <1>1, <1>4 DEF key_cmp, KeyBefore
<1>5. CASE a.num = NotInt /\ b.num = NotInt
  BY <1>1, <1>5 DEF key_cmp, KeyBefore
<1>. QED
  BY <1>2, <1>3, <1>4, <1>5

-----------------------------------------------------------------------------
(* Paths                                                                   *)

\* Paths of which neither goes on where the other one ends in another key.
LEMMA SameKeys ==
  ASSUME NEW p \in Seq(KeySet), NEW q \in Seq(KeySet),
         \A u \in DOMAIN p \cap DOMAIN q : p[u] = q[u]
  PROVE  path_cmp(p, q) = Len(p) - Len(q)
<1>1. \A u \in DOMAIN p \cap DOMAIN q : key_cmp(p[u], q[u]) = 0
  BY KeysInUse
<1>. QED
  BY <1>1 DEF path_cmp

\* Paths that differ first at u are in the order of their keys there.
LEMMA FirstDiffers ==
  ASSUME NEW p \in Seq(KeySet), NEW q \in Seq(KeySet), NEW u \in DOMAIN p \cap DOMAIN q,
         p[u] # q[u], \A w \in DOMAIN p \cap DOMAIN q : w < u => p[w] = q[w]
  PROVE  path_cmp(p, q) = key_cmp(p[u], q[u])
<1>. DEFINE differ == {w \in DOMAIN p \cap DOMAIN q : key_cmp(p[w], q[w]) # 0}
            first == CHOOSE w \in differ : \A v \in differ : w <= v
<1>1. \A w \in DOMAIN p \cap DOMAIN q : w \in Nat /\ p[w] \in KeySet /\ q[w] \in KeySet
  OBVIOUS
<1>2. u \in differ /\ \A w \in differ : u <= w
  BY <1>1, KeysInUse
<1>3. first \in differ /\ \A v \in differ : first <= v
  BY <1>2
<1>4. first = u
  BY <1>1, <1>2, <1>3
<1>5. path_cmp(p, q) = key_cmp(p[first], q[first])
  BY <1>2 DEF path_cmp
<1>. QED
  BY <1>4, <1>5

\* wc_datasync_path_cmp() is negative exactly for the paths that come first in
\* the order that the documented order of the keys makes, and zero for equal ones.
THEOREM PathsInOrder ==
  ASSUME NEW p \in PathSet, NEW q \in PathSet
  PROVE  /\ path_cmp(p, q) < 0 <=> PathBefore(p, q)
         /\ path_cmp(p, q) = 0 <=> p = q
<1>1. p \in Seq(KeySet) /\ q \in Seq(KeySet)
  BY PathOrderAssumption
<1>. DEFINE differ == {u \in DOMAIN p \cap DOMAIN q : p[u] # q[u]}
<1>2. CASE differ = {}
  <2>1. path_cmp(p, q) = Len(p) - Len(q)
    BY <1>1, <1>2, SameKeys
  <2>2. \A u \in DOMAIN p \cap DOMAIN q : p[u] = q[u] /\ ~KeyBefore(p[u], q[u])
    <3>. SUFFICES ASSUME NEW u \in DOMAIN p \cap DOMAIN q
         PROVE  p[u] = q[u] /\ ~KeyBefore(p[u], q[u])
      OBVIOUS
    <3>1. p[u] = q[u] /\ p[u] \in KeySet
      BY <1>1, <1>2
    <3>. QED
      BY <3>1, KeysInUse
  <2>3. Len(p) <= Len(q) <=> starts_with(q, p)
    BY <1>1, <2>2 DEF starts_with
  <2>4. Len(p) = Len(q) <=> p = q
    BY <1>1, <2>2
  <2>. QED
    BY <1>1, <2>1, <2>2, <2>3, <2>4 DEF PathBefore
<1>3. CASE differ # {}
  <2>1. differ \subseteq Nat
    BY <1>1
  <2>2. PICK u \in differ : \A w \in differ : u <= w
    BY <1>3, <2>1, Smallest
  <2>3. /\ u \in DOMAIN p \cap DOMAIN q /\ u \in Nat /\ p[u] # q[u]
        /\ p[u] \in KeySet /\ q[u] \in KeySet
        /\ \A w \in DOMAIN p \cap DOMAIN q : w < u => p[w] = q[w]
    BY <1>1, <2>1, <2>2
  <2>4. path_cmp(p, q) = key_cmp(p[u], q[u])
    BY <1>1, <2>3, FirstDiffers
  <2>5. /\ key_cmp(p[u], q[u]) < 0 <=> KeyBefore(p[u], q[u])
        /\ key_cmp(p[u], q[u]) # 0
    BY <2>3, KeysInUse
  <2>6. p # q /\ ~starts_with(q, p)
    BY <1>1, <2>3 DEF starts_with
  <2>7. ASSUME KeyBefore(p[u], q[u])
        PROVE  PathBefore(p, q)
    <3>1. \A w \in 1..u - 1 : p[w] = q[w]
      BY <1>1, <2>3
    <3>. QED
      BY <2>3, <2>7, <3>1 DEF PathBefore
  <2>8. ASSUME PathBefore(p, q)
        PROVE  KeyBefore(p[u], q[u])
    <3>1. PICK v \in DOMAIN p \cap DOMAIN q :
            KeyBefore(p[v], q[v]) /\ \A w \in 1..v - 1 : p[w] = q[w]
      BY <2>6, <2>8 DEF PathBefore
    <3>2. v \in Nat /\ p[v] \in KeySet /\ q[v] \in KeySet
      BY <1>1
    <3>3. p[v] # q[v]
      BY <3>1, <3>2, KeysInUse
    <3>4. u <= v
      BY <2>2, <3>3
    <3>5. ~(u < v)
      BY <1>1, <2>3, <3>1, <3>2
    <3>6. u = v
      BY <2>3, <3>2, <3>4, <3>5
    <3>. QED
      BY <3>1, <3>6
  <2>. QED
    BY <2>4, <2>5, <2>6, <2>7, <2>8
<1>. QED
  BY <1>2, <1>3

\* The paths at and below a path follow it at once (wc_datasync_path_cmp()).
THEOREM SubtreeRuns ==
  ASSUME NEW p \in PathSet, NEW q \in PathSet, NEW r \in PathSet
  PROVE  RunOf(p, q, r)
<1>. SUFFICES ASSUME starts_with(q, p)
     PROVE  /\ path_cmp(p, q) <= 0
            /\ path_cmp(p, r) <= 0 /\ path_cmp(r, q) <= 0 => starts_with(r, p)
  BY DEF RunOf
<1>1. p \in Seq(KeySet) /\ q \in Seq(KeySet)
  BY PathOrderAssumption
<1>2. Len(p) <= Len(q) /\ \A u \in 1..Len(p) : u \in DOMAIN q /\ q[u] = p[u]
  BY <1>1 DEF starts_with
<1>3. path_cmp(p, q) <= 0
  <2>1. path_cmp(p, q) = Len(p) - Len(q)
    BY <1>1, <1>2, SameKeys
  <2>. QED
    BY <1>1, <1>2, <2>1
<1>4. ASSUME path_cmp(p, r) <= 0, path_cmp(r, q) <= 0
      PROVE  starts_with(r, p)
  <2>1. r \in Seq(KeySet)
    BY PathOrderAssumption
  <2>. DEFINE differ == {u \in DOMAIN p \cap DOMAIN r : p[u] # r[u]}
  <2>2. CASE differ = {}
    <3>1. path_cmp(p, r) = Len(p) - Len(r)
      BY <1>1, <2>1, <2>2, SameKeys
    <3>2. Len(p) <= Len(r)
      BY <1>1, <1>4, <2>1, <3>1
    <3>. QED
      BY <1>1, <2>1, <2>2, <3>2 DEF starts_with
  <2>3. CASE differ # {}
    <3>1. differ \subseteq Nat
      BY <1>1
    <3>2. PICK u \in differ : \A w \in differ : u <= w
      BY <2>3, <3>1, Smallest
    <3>3. /\ u \in DOMAIN p \cap DOMAIN r /\ u \in Nat /\ p[u] # r[u]
          /\ p[u] \in KeySet /\ r[u] \in KeySet
          /\ \A w \in DOMAIN p \cap DOMAIN r : w < u => p[w] = r[w]
      BY <1>1, <2>1, <3>1, <3>2
    <3>4. path_cmp(p, r) = key_cmp(p[u], r[u])
      BY <1>1, <2>1, <3>3, FirstDiffers
    <3>5. /\ u \in DOMAIN r \cap DOMAIN q /\ r[u] # q[u] /\ q[u] = p[u]
          /\ \A w \in DOMAIN r \cap DOMAIN q : w < u => r[w] = q[w]
      BY <1>1, <1>2, <2>1, <3>3
    <3>6. path_cmp(r, q) = key_cmp(r[u], p[u])
      BY <1>1, <2>1, <3>5, FirstDiffers
    <3>7. /\ key_cmp(p[u], r[u]) \in Int /\ key_cmp(r[u], p[u]) \in Int
          /\ key_cmp(p[u], r[u]) # 0 /\ key_cmp(r[u], p[u]) # 0
          /\ key_cmp(p[u], r[u]) < 0 <=> key_cmp(r[u], p[u]) > 0
      BY <3>3, KeysInUse
    <3>. QED
      BY <1>4, <3>4, <3>6, <3>7
  <2>. QED
    BY <2>2, <2>3
<1>. QED
  BY <1>3, <1>4

-----------------------------------------------------------------------------
(* Trees in the heap                                                       *)

\* What a node of the heap can be.
Node == [l : Key \cup {Nil}, r : Key \cup {Nil}, height : Nat]
Heap(h) == DOMAIN h \subseteq Key /\ h \in [DOMAIN h -> Node]

Lower(A, n) == {k \in A : cmp(k, n) < 0}
Upper(A, n) == {k \in A : cmp(k, n) > 0}

\* The stored height of n is right if those of its children are.
RightHeight(h, n) ==
    h[n].height = 1 + Higher(Height(h, h[n].l), Height(h, h[n].r))

\* s maps the nodes of A to what is at and below them.
Span(s, n) == IF n = Nil THEN {} ELSE s[n]

Spanned(h, A, s, n) ==
    /\ h[n].l \in A \cup {Nil} /\ h[n].r \in A \cup {Nil}
    /\ RightHeight(h, n)
    /\ s[n] = Span(s, h[n].l) \cup {n} \cup Span(s, h[n].r)
    /\ \A k \in Span(s, h[n].l) : cmp(k, n) < 0
    /\ \A k \in Span(s, h[n].r) : cmp(k, n) > 0
    /\ \A k \in s[n] : s[k] \subseteq s[n]

Spans(h, A, s) == s \in [A -> SUBSET A] /\ \A n \in A : Spanned(h, A, s, n)

\* The nodes at and below n are those of A, in order and with their heights.
IsTree(h, n, A) ==
    /\ Heap(h) /\ A \subseteq DOMAIN h /\ n \in A \cup {Nil}
    /\ \E s : Spans(h, A, s) /\ Span(s, n) = A

\* NULL and the two ends of the order are no keys.
LEMMA NilIsNoKey == Nil \notin Key /\ Lowest \notin Key /\ Highest \notin Key /\ Lowest # Highest
  BY KeyAssumption

\* Two keys are compared by an int, 0 only if they are the same.
LEMMA Order ==
  ASSUME NEW a \in Key, NEW b \in Key
  PROVE  /\ cmp(a, b) \in Int
         /\ cmp(a, b) = 0 <=> a = b
         /\ cmp(a, b) < 0 <=> cmp(b, a) > 0
         /\ cmp(a, b) > 0 <=> cmp(b, a) < 0
<1>1. cmp(a, b) \in Int /\ (cmp(a, b) = 0 <=> a = b) /\ (cmp(a, b) < 0 <=> cmp(b, a) > 0)
  BY KeyAssumption
<1>2. cmp(b, a) \in Int /\ (cmp(b, a) < 0 <=> cmp(a, b) > 0)
  BY KeyAssumption
<1>. QED
  BY <1>1, <1>2

\* The order of key_cmp is transitive.
LEMMA OrderTransitive ==
  ASSUME NEW a \in Key, NEW b \in Key, NEW c \in Key, cmp(a, b) < 0, cmp(b, c) < 0
  PROVE  cmp(a, c) < 0
  BY KeyAssumption

\* NULL is the empty tree.
LEMMA NoTree ==
  ASSUME NEW h, Heap(h)
  PROVE  IsTree(h, Nil, {})
<1>. DEFINE s == [k \in {} |-> {}]
<1>1. Spans(h, {}, s)
  BY DEF Spans
<1>2. Span(s, Nil) = {}
  BY DEF Span
<1>. QED
  BY <1>1, <1>2 DEF IsTree

\* The nodes of a tree are keys of the heap, its root is one of them, and the
\* stored heights, which avl_delta() reads, are right.
LEMMA TreeKeys ==
  ASSUME NEW h, NEW n, NEW A, IsTree(h, n, A)
  PROVE  /\ Heap(h) /\ A \subseteq DOMAIN h /\ A \subseteq Key
         /\ n = Nil => A = {}
         /\ n # Nil => n \in A /\ n \in Key /\ n \in DOMAIN h
         /\ n \in A \cup {Nil}
         /\ \A m \in A : RightHeight(h, m)
  BY NilIsNoKey DEF IsTree, Heap, Spans, Span, Spanned

\* What is below a node of a tree is a tree.
LEMMA SubTree ==
  ASSUME NEW h, NEW A, NEW s, Heap(h), A \subseteq DOMAIN h, Spans(h, A, s),
         NEW c \in A \cup {Nil}
  PROVE  IsTree(h, c, Span(s, c))
<1>1. CASE c = Nil
  BY <1>1, NoTree DEF Span
<1>2. CASE c # Nil
  <2>. DEFINE B == s[c]
              t == [k \in B |-> s[k]]
  <2>1. c \in A /\ Span(s, c) = B
    BY <1>2 DEF Span
  <2>2. s \in [A -> SUBSET A] /\ B \subseteq A /\ \A n \in A : Spanned(h, A, s, n)
    BY <2>1 DEF Spans
  <2>3. \A k \in B : s[k] \subseteq B
    BY <2>1, <2>2 DEF Spanned
  <2>4. c \in B
    BY <2>1, <2>2 DEF Spanned
  <2>5. t \in [B -> SUBSET B]
    BY <2>3
  <2>6. ASSUME NEW n \in B
        PROVE  Spanned(h, B, t, n)
    <3>1. Spanned(h, A, s, n) /\ n \in s[n] /\ s[n] \subseteq B /\ t[n] = s[n]
      BY <2>2, <2>3 DEF Spanned
    <3>2. ASSUME NEW m \in {h[n].l, h[n].r}, m # Nil
          PROVE  m \in B /\ s[m] = t[m]
      <4>1. m \in A
        BY <3>1, <3>2 DEF Spanned
      <4>2. m \in s[m]
        BY <4>1, <2>2 DEF Spanned
      <4>3. m \in s[n]
        BY <3>1, <3>2, <4>2 DEF Spanned, Span
      <4>. QED
        BY <4>3, <3>1
    <3>3. \A m \in {h[n].l, h[n].r} : m \in B \cup {Nil} /\ Span(s, m) = Span(t, m)
      BY <3>2 DEF Span
    <3>4. \A k \in t[n] : t[k] \subseteq t[n]
      BY <3>1 DEF Spanned
    <3>. HIDE DEF B, t
    <3>. QED
      BY <3>1, <3>3, <3>4 DEF Spanned
  <2>7. Spans(h, B, t)
    BY <2>5, <2>6 DEF Spans
  <2>8. Span(t, c) = B
    BY <1>2, <2>4 DEF Span
  <2>. HIDE DEF B, t
  <2>. QED
    BY <2>1, <2>2, <2>4, <2>7, <2>8 DEF IsTree
<1>. QED
  BY <1>1, <1>2

\* The two subtrees of the root of a tree hold what is before and after it.
LEMMA NodeParts ==
  ASSUME NEW h, NEW n, NEW A, IsTree(h, n, A), n # Nil
  PROVE  /\ IsTree(h, h[n].l, Lower(A, n))
         /\ IsTree(h, h[n].r, Upper(A, n))
         /\ A = Lower(A, n) \cup {n} \cup Upper(A, n)
<1>1. PICK s : Spans(h, A, s) /\ Span(s, n) = A
  BY DEF IsTree
<1>2. n \in A /\ s[n] = A /\ A \subseteq Key /\ Heap(h) /\ A \subseteq DOMAIN h
  BY <1>1, TreeKeys DEF Span
<1>3. Spanned(h, A, s, n)
  BY <1>1, <1>2 DEF Spans
<1>. DEFINE l == Span(s, h[n].l)
            r == Span(s, h[n].r)
<1>4. IsTree(h, h[n].l, l) /\ IsTree(h, h[n].r, r)
  BY <1>1, <1>2, <1>3, SubTree DEF Spanned
<1>5. A = l \cup {n} \cup r /\ (\A k \in l : cmp(k, n) < 0) /\ \A k \in r : cmp(k, n) > 0
  BY <1>2, <1>3 DEF Spanned
<1>6. \A k \in A : cmp(k, n) \in Int /\ (cmp(k, n) = 0 <=> k = n)
  BY <1>2, Order
<1>. HIDE DEF l, r
<1>7. l = Lower(A, n) /\ r = Upper(A, n)
  BY <1>5, <1>6 DEF Lower, Upper
<1>. QED
  BY <1>4, <1>5, <1>7

\* Conversely, a node between two trees, with the height of
\* avl_update_height(), is the root of a tree.
LEMMA NodeTree ==
  ASSUME NEW h, NEW n, NEW L, NEW R, IsTree(h, h[n].l, L), IsTree(h, h[n].r, R),
         n \in DOMAIN h, RightHeight(h, n),
         \A k \in L : cmp(k, n) < 0, \A k \in R : cmp(k, n) > 0
  PROVE  IsTree(h, n, L \cup {n} \cup R)
<1>1. PICK s : Spans(h, L, s) /\ Span(s, h[n].l) = L
  BY DEF IsTree
<1>2. PICK t : Spans(h, R, t) /\ Span(t, h[n].r) = R
  BY DEF IsTree
<1>. DEFINE l == h[n].l
            r == h[n].r
            A == L \cup {n} \cup R
            v == [k \in A |-> IF k = n THEN A ELSE IF k \in L THEN s[k] ELSE t[k]]
<1>3. /\ Heap(h) /\ n \in Key /\ n # Nil /\ A \subseteq DOMAIN h
      /\ L \subseteq Key /\ R \subseteq Key
      /\ l \in L \cup {Nil} /\ r \in R \cup {Nil}
  BY NilIsNoKey, TreeKeys DEF Heap
<1>4. n \notin L /\ n \notin R /\ \A k \in L : k \notin R
  BY <1>3, Order
<1>5. /\ s \in [L -> SUBSET L] /\ (\A k \in L : Spanned(h, L, s, k))
      /\ t \in [R -> SUBSET R] /\ (\A k \in R : Spanned(h, R, t, k))
  BY <1>1, <1>2 DEF Spans
<1>6. /\ v[n] = A
      /\ \A k \in L : v[k] = s[k] /\ s[k] \subseteq L
      /\ \A k \in R : v[k] = t[k] /\ t[k] \subseteq R
  BY <1>4, <1>5
<1>7. v \in [A -> SUBSET A]
  BY <1>5
<1>. HIDE DEF v
<1>8. Spanned(h, A, v, n)
  <2>1. Span(v, l) = L /\ Span(v, r) = R
    BY <1>1, <1>2, <1>3, <1>6 DEF Span
  <2>2. \A k \in A : v[k] \subseteq A
    BY <1>6
  <2>. QED
    BY <1>3, <1>6, <2>1, <2>2 DEF Spanned
<1>9. ASSUME NEW k \in L
      PROVE  Spanned(h, A, v, k)
  <2>1. Spanned(h, L, s, k) /\ v[k] = s[k] /\ s[k] \subseteq L
    BY <1>5, <1>6
  <2>2. \A m \in {h[k].l, h[k].r} : m \in L \cup {Nil} /\ Span(v, m) = Span(s, m)
    BY <2>1, <1>6 DEF Spanned, Span
  <2>3. \A m \in v[k] : v[m] \subseteq v[k]
    BY <2>1, <1>6 DEF Spanned
  <2>. QED
    BY <2>1, <2>2, <2>3 DEF Spanned
<1>10. ASSUME NEW k \in R
      PROVE  Spanned(h, A, v, k)
  <2>1. Spanned(h, R, t, k) /\ v[k] = t[k] /\ t[k] \subseteq R
    BY <1>5, <1>6
  <2>2. \A m \in {h[k].l, h[k].r} : m \in R \cup {Nil} /\ Span(v, m) = Span(t, m)
    BY <2>1, <1>6 DEF Spanned, Span
  <2>3. \A m \in v[k] : v[m] \subseteq v[k]
    BY <2>1, <1>6 DEF Spanned
  <2>. QED
    BY <2>1, <2>2, <2>3 DEF Spanned
<1>11. Spans(h, A, v)
  BY <1>7, <1>8, <1>9, <1>10 DEF Spans
<1>12. Span(v, n) = A /\ n \in A
  BY <1>3, <1>6 DEF Span
<1>. HIDE DEF A
<1>13. IsTree(h, n, A)
  BY <1>3, <1>11, <1>12 DEF IsTree
<1>. QED
  BY <1>13 DEF A

\* A tree is still one when only nodes of other trees were written to.
LEMMA Frame ==
  ASSUME NEW h, NEW n, NEW A, NEW g, IsTree(h, n, A), Heap(g), A \subseteq DOMAIN g,
         \A k \in A : g[k] = h[k]
  PROVE  IsTree(g, n, A) /\ Height(g, n) = Height(h, n)
<1>1. PICK s : Spans(h, A, s) /\ Span(s, n) = A
  BY DEF IsTree
<1>2. A \subseteq Key /\ Nil \notin A
  BY TreeKeys, NilIsNoKey
<1>3. ASSUME NEW k \in A
      PROVE  Spanned(g, A, s, k)
  <2>1. Spanned(h, A, s, k) /\ g[k] = h[k]
    BY <1>1 DEF Spans
  <2>2. \A m \in {h[k].l, h[k].r} : m \in A \cup {Nil} /\ Height(g, m) = Height(h, m)
    BY <2>1 DEF Spanned, Height
  <2>3. RightHeight(g, k)
    BY <2>1, <2>2 DEF Spanned, RightHeight
  <2>. QED
    BY <2>1, <2>3 DEF Spanned
<1>4. Spans(g, A, s)
  BY <1>1, <1>3 DEF Spans
<1>. QED
  BY <1>1, <1>4 DEF IsTree, Height

-----------------------------------------------------------------------------
(* Balancing                                                               *)

\* The children of n are the roots of L and of R, to its left and its right.
Parts(h, n, L, R) ==
    /\ n \in DOMAIN h
    /\ IsTree(h, h[n].l, L) /\ \A k \in L : cmp(k, n) < 0
    /\ IsTree(h, h[n].r, R) /\ \A k \in R : cmp(k, n) > 0

\* The tree b has the nodes of A, and is all that changed in the heap h.
Rebuilt(h, b, A) ==
    /\ IsTree(b.heap, b.root, A)
    /\ DOMAIN b.heap = DOMAIN h
    /\ \A m \in DOMAIN h \ A : b.heap[m] = h[m]

\* The subtrees of a node have no node in common, nor this one.
LEMMA PartsApart ==
  ASSUME NEW h, NEW n, NEW L, NEW R, Parts(h, n, L, R)
  PROVE  /\ Heap(h) /\ n \in Key /\ n # Nil /\ n \in DOMAIN h
         /\ L \subseteq DOMAIN h /\ R \subseteq DOMAIN h
         /\ L \subseteq Key /\ R \subseteq Key
         /\ n \notin L /\ n \notin R /\ L \cap R = {}
         /\ h[n].l \in L \cup {Nil} /\ h[n].r \in R \cup {Nil}
<1>1. /\ Heap(h) /\ L \subseteq DOMAIN h /\ R \subseteq DOMAIN h
      /\ h[n].l \in L \cup {Nil} /\ h[n].r \in R \cup {Nil}
  BY TreeKeys DEF Parts
<1>2. n \in Key /\ L \subseteq Key /\ R \subseteq Key
  BY <1>1 DEF Heap, Parts
<1>3. cmp(n, n) = 0 /\ \A k \in L \cap R : cmp(k, n) < 0 /\ cmp(k, n) > 0 /\ cmp(k, n) \in Int
  BY <1>2, Order DEF Parts
<1>. QED
  BY <1>1, <1>2, <1>3, NilIsNoKey DEF Parts

\* A stored height is a number.
LEMMA HeightType ==
  ASSUME NEW h, Heap(h), NEW n \in DOMAIN h \cup {Nil}
  PROVE  Height(h, n) \in Nat
<1>1. n # Nil => h[n] \in Node
  BY DEF Heap
<1>. QED
  BY <1>1 DEF Height, Node

\* avl_update_height() at a node whose children are right.
LEMMA UpdateTree ==
  ASSUME NEW h, NEW n, NEW L, NEW R, Parts(h, n, L, R), NEW g, g = avl_update_height(h, n)
  PROVE  /\ IsTree(g, n, L \cup {n} \cup R)
         /\ DOMAIN g = DOMAIN h
         /\ \A m \in DOMAIN h \ {n} : g[m] = h[m]
<1>. DEFINE x == 1 + Higher(Height(h, h[n].l), Height(h, h[n].r))
<1>1. Heap(h) /\ n \in DOMAIN h /\ h[n] \in Node
  BY PartsApart DEF Heap
<1>2. Height(h, h[n].l) \in Nat /\ Height(h, h[n].r) \in Nat
  BY <1>1, HeightType, PartsApart
<1>3. x \in Nat
  BY <1>2 DEF Higher
<1>. DEFINE d == [h[n] EXCEPT !.height = x]
<1>4. d \in Node /\ d.l = h[n].l /\ d.r = h[n].r /\ d.height = x
  <2>. HIDE DEF x
  <2>. QED
    BY <1>1, <1>3 DEF Node
<1>5. g = [h EXCEPT ![n] = d]
  BY DEF avl_update_height
<1>. HIDE DEF x, d
<1>6. /\ DOMAIN g = DOMAIN h /\ g[n] = d /\ (\A m \in DOMAIN h \ {n} : g[m] = h[m])
      /\ g \in [DOMAIN h -> Node]
  BY <1>1, <1>4, <1>5 DEF Heap
<1>7. Heap(g)
  BY <1>1, <1>6 DEF Heap
<1>8. /\ L \subseteq DOMAIN g /\ (\A k \in L : g[k] = h[k])
      /\ R \subseteq DOMAIN g /\ (\A k \in R : g[k] = h[k])
  BY <1>6, PartsApart
<1>9. /\ IsTree(g, h[n].l, L) /\ Height(g, h[n].l) = Height(h, h[n].l)
      /\ IsTree(g, h[n].r, R) /\ Height(g, h[n].r) = Height(h, h[n].r)
  BY <1>7, <1>8, Frame DEF Parts
<1>10. RightHeight(g, n)
  BY <1>4, <1>6, <1>9 DEF RightHeight, x
<1>11. IsTree(g, n, L \cup {n} \cup R)
  BY <1>1, <1>4, <1>6, <1>9, <1>10, NodeTree DEF Parts
<1>. QED
  BY <1>6, <1>11

\* Two pointers of the heap are set, as a rotation does.
LinkLeft(h, n, m, x, y) == [h EXCEPT ![n].r = x, ![m].l = y]
LinkRight(h, n, m, x, y) == [h EXCEPT ![n].l = x, ![m].r = y]

\* g is the heap h with the two pointers set, and all else as it was.
LinkLeftDone(h, n, m, x, y, g) ==
  /\ Heap(g)
  /\ DOMAIN g = DOMAIN h
  /\ g[n].l = h[n].l
  /\ g[n].r = x
  /\ g[m].l = y
  /\ g[m].r = h[m].r
  /\ \A k \in DOMAIN h \ {n, m} : g[k] = h[k]

LinkRightDone(h, n, m, x, y, g) ==
  /\ Heap(g)
  /\ DOMAIN g = DOMAIN h
  /\ g[n].r = h[n].r
  /\ g[n].l = x
  /\ g[m].r = y
  /\ g[m].l = h[m].l
  /\ \A k \in DOMAIN h \ {n, m} : g[k] = h[k]

\* The two assignments of avl_rotl() change these two fields and no other.
LEMMA RelinkedLeft ==
  ASSUME NEW h, Heap(h), NEW n \in DOMAIN h, NEW m \in DOMAIN h, n # m,
         NEW x \in Key \cup {Nil}, NEW y \in Key \cup {Nil}
  PROVE  LinkLeftDone(h, n, m, x, y, LinkLeft(h, n, m, x, y))
<1>. DEFINE g == LinkLeft(h, n, m, x, y)
            d == [h[n] EXCEPT !.r = x]
            e == [h[m] EXCEPT !.l = y]
<1>1. h[n] \in Node /\ h[m] \in Node /\ h \in [DOMAIN h -> Node]
  BY DEF Heap
<1>2. /\ d \in Node /\ d.l = h[n].l /\ d.r = x
      /\ e \in Node /\ e.l = y /\ e.r = h[m].r
  BY <1>1 DEF Node
<1>3. g = [h EXCEPT ![n] = d, ![m] = e]
  BY <1>1 DEF LinkLeft
<1>. HIDE DEF d, e
<1>4. DOMAIN g = DOMAIN h /\ g[n] = d /\ g[m] = e /\ \A k \in DOMAIN h \ {n, m} : g[k] = h[k]
  BY <1>1, <1>3
<1>5. g \in [DOMAIN h -> Node]
  BY <1>1, <1>2, <1>3
<1>6. Heap(g)
  BY <1>4, <1>5 DEF Heap
<1>. QED
  BY <1>2, <1>4, <1>6 DEF LinkLeftDone

\* So do those of avl_rotr().
LEMMA RelinkedRight ==
  ASSUME NEW h, Heap(h), NEW n \in DOMAIN h, NEW m \in DOMAIN h, n # m,
         NEW x \in Key \cup {Nil}, NEW y \in Key \cup {Nil}
  PROVE  LinkRightDone(h, n, m, x, y, LinkRight(h, n, m, x, y))
<1>. DEFINE g == LinkRight(h, n, m, x, y)
            d == [h[n] EXCEPT !.l = x]
            e == [h[m] EXCEPT !.r = y]
<1>1. h[n] \in Node /\ h[m] \in Node /\ h \in [DOMAIN h -> Node]
  BY DEF Heap
<1>2. /\ d \in Node /\ d.r = h[n].r /\ d.l = x
      /\ e \in Node /\ e.r = y /\ e.l = h[m].l
  BY <1>1 DEF Node
<1>3. g = [h EXCEPT ![n] = d, ![m] = e]
  BY <1>1 DEF LinkRight
<1>. HIDE DEF d, e
<1>4. DOMAIN g = DOMAIN h /\ g[n] = d /\ g[m] = e /\ \A k \in DOMAIN h \ {n, m} : g[k] = h[k]
  BY <1>1, <1>3
<1>5. g \in [DOMAIN h -> Node]
  BY <1>1, <1>2, <1>3
<1>6. Heap(g)
  BY <1>4, <1>5 DEF Heap
<1>. QED
  BY <1>2, <1>4, <1>6 DEF LinkRightDone

\* avl_rotl() keeps the nodes and their order.
LEMMA RotlTree ==
  ASSUME NEW h, NEW n, NEW L, NEW R, Parts(h, n, L, R), h[n].r # Nil
  PROVE  Rebuilt(h, avl_rotl(h, n), L \cup {n} \cup R)
<1>. DEFINE r == h[n].r
            x == h[r].l
            t == [h EXCEPT ![n].r = x, ![r].l = n]
            g == avl_update_height(t, n)
            f == avl_update_height(g, r)
            M == Lower(R, r)
            H == Upper(R, r)
<1>1. /\ Heap(h) /\ n \in Key /\ n \in DOMAIN h /\ L \subseteq Key /\ R \subseteq Key
      /\ n \notin L /\ n \notin R /\ L \cap R = {} /\ L \subseteq DOMAIN h /\ R \subseteq DOMAIN h
      /\ r \in R
  BY PartsApart
<1>2. IsTree(h, x, M) /\ IsTree(h, h[r].r, H) /\ R = M \cup {r} \cup H
  BY NodeParts DEF Parts
<1>3. M \subseteq R /\ H \subseteq R /\ r \notin M /\ r \notin H /\ x \in Key \cup {Nil}
  <2>1. cmp(r, r) = 0
    BY <1>1, Order
  <2>2. x \in M \cup {Nil}
    BY <1>2, TreeKeys
  <2>. QED
    BY <1>1, <2>1, <2>2 DEF Lower, Upper
<1>4. /\ Heap(t) /\ DOMAIN t = DOMAIN h
      /\ t[n].l = h[n].l /\ t[n].r = x /\ t[r].l = n /\ t[r].r = h[r].r
      /\ \A k \in DOMAIN h \ {n, r} : t[k] = h[k]
  <2>1. n # r /\ r \in DOMAIN h
    BY <1>1
  <2>2. t = LinkLeft(h, n, r, x, n)
    BY DEF LinkLeft
  <2>3. /\ Heap(h) /\ n \in DOMAIN h /\ r \in DOMAIN h /\ n # r
        /\ x \in Key \cup {Nil} /\ n \in Key \cup {Nil}
    BY <1>1, <1>3, <2>1
  <2>. HIDE DEF t, x, r, M, H
  <2>4. LinkLeftDone(h, n, r, x, n, t)
    BY <2>2, <2>3, RelinkedLeft
  <2>. QED
    BY <2>4 DEF LinkLeftDone
<1>. HIDE DEF t, r, x, M, H
<1>5. IsTree(t, h[n].l, L) /\ IsTree(t, x, M) /\ IsTree(t, h[r].r, H)
  <2>1. IsTree(h, h[n].l, L) /\ L \subseteq DOMAIN t /\ \A k \in L : t[k] = h[k]
    BY <1>1, <1>4 DEF Parts
  <2>2. /\ M \subseteq DOMAIN t /\ (\A k \in M : t[k] = h[k])
        /\ H \subseteq DOMAIN t /\ \A k \in H : t[k] = h[k]
    BY <1>1, <1>3, <1>4
  <2>. QED
    BY <1>2, <1>4, <2>1, <2>2, Frame
<1>6. Parts(t, n, L, M)
  BY <1>1, <1>3, <1>4, <1>5 DEF Parts
<1>7. /\ IsTree(g, n, L \cup {n} \cup M) /\ DOMAIN g = DOMAIN h
      /\ \A k \in DOMAIN h \ {n} : g[k] = t[k]
  <2>1. g = avl_update_height(t, n)
    OBVIOUS
  <2>. HIDE DEF g
  <2>. QED
    BY <1>4, <1>6, <2>1, UpdateTree
<1>. HIDE DEF g
<1>8. Parts(g, r, L \cup {n} \cup M, H)
  <2>1. g[r].l = n /\ g[r].r = h[r].r /\ r \in DOMAIN g
    BY <1>1, <1>4, <1>7
  <2>2. Heap(g)
    BY <1>7, TreeKeys
  <2>3. IsTree(g, h[r].r, H)
    <3>1. H \subseteq DOMAIN g /\ \A k \in H : g[k] = t[k]
      BY <1>1, <1>3, <1>7
    <3>. QED
      BY <2>2, <1>5, <3>1, Frame
  <2>4. \A k \in H : cmp(k, r) > 0
    BY DEF H, Upper
  <2>5. cmp(n, r) < 0
    BY <1>1, Order DEF Parts
  <2>6. \A k \in L : cmp(k, r) < 0
    <3>1. \A k \in L : k \in Key /\ cmp(k, n) < 0
      BY <1>1 DEF Parts
    <3>. QED
      BY <1>1, <2>5, <3>1, OrderTransitive
  <2>7. \A k \in M : cmp(k, r) < 0
    BY DEF M, Lower
  <2>. QED
    BY <1>7, <2>1, <2>3, <2>4, <2>5, <2>6, <2>7 DEF Parts
<1>9. /\ IsTree(f, r, (L \cup {n} \cup M) \cup {r} \cup H) /\ DOMAIN f = DOMAIN h
      /\ \A k \in DOMAIN h \ {r} : f[k] = g[k]
  <2>1. f = avl_update_height(g, r)
    OBVIOUS
  <2>. HIDE DEF f
  <2>. QED
    BY <1>7, <1>8, <2>1, UpdateTree
<1>. HIDE DEF f
<1>10. (L \cup {n} \cup M) \cup {r} \cup H = L \cup {n} \cup R
  BY <1>2
<1>11. \A m \in DOMAIN h \ (L \cup {n} \cup R) : f[m] = h[m]
  BY <1>1, <1>4, <1>7, <1>9
<1>12. avl_rotl(h, n) = [heap |-> f, root |-> r]
  BY DEF avl_rotl, f, g, t, r, x
<1>. QED
  BY <1>9, <1>10, <1>11, <1>12 DEF Rebuilt

\* avl_rotr() keeps the nodes and their order.
LEMMA RotrTree ==
  ASSUME NEW h, NEW n, NEW L, NEW R, Parts(h, n, L, R), h[n].l # Nil
  PROVE  Rebuilt(h, avl_rotr(h, n), L \cup {n} \cup R)
<1>. DEFINE l == h[n].l
            x == h[l].r
            t == [h EXCEPT ![n].l = x, ![l].r = n]
            g == avl_update_height(t, n)
            f == avl_update_height(g, l)
            M == Upper(L, l)
            H == Lower(L, l)
<1>1. /\ Heap(h) /\ n \in Key /\ n \in DOMAIN h /\ L \subseteq Key /\ R \subseteq Key
      /\ n \notin L /\ n \notin R /\ L \cap R = {} /\ L \subseteq DOMAIN h /\ R \subseteq DOMAIN h
      /\ l \in L
  BY PartsApart
<1>2. IsTree(h, x, M) /\ IsTree(h, h[l].l, H) /\ L = H \cup {l} \cup M
  BY NodeParts DEF Parts
<1>3. M \subseteq L /\ H \subseteq L /\ l \notin M /\ l \notin H /\ x \in Key \cup {Nil}
  <2>1. cmp(l, l) = 0
    BY <1>1, Order
  <2>2. x \in M \cup {Nil}
    BY <1>2, TreeKeys
  <2>. QED
    BY <1>1, <2>1, <2>2 DEF Lower, Upper
<1>4. /\ Heap(t) /\ DOMAIN t = DOMAIN h
      /\ t[n].r = h[n].r /\ t[n].l = x /\ t[l].r = n /\ t[l].l = h[l].l
      /\ \A k \in DOMAIN h \ {n, l} : t[k] = h[k]
  <2>1. n # l /\ l \in DOMAIN h
    BY <1>1
  <2>2. t = LinkRight(h, n, l, x, n)
    BY DEF LinkRight
  <2>3. /\ Heap(h) /\ n \in DOMAIN h /\ l \in DOMAIN h /\ n # l
        /\ x \in Key \cup {Nil} /\ n \in Key \cup {Nil}
    BY <1>1, <1>3, <2>1
  <2>. HIDE DEF t, x, l, M, H
  <2>4. LinkRightDone(h, n, l, x, n, t)
    BY <2>2, <2>3, RelinkedRight
  <2>. QED
    BY <2>4 DEF LinkRightDone
<1>. HIDE DEF t, l, x, M, H
<1>5. IsTree(t, h[n].r, R) /\ IsTree(t, x, M) /\ IsTree(t, h[l].l, H)
  <2>1. IsTree(h, h[n].r, R) /\ R \subseteq DOMAIN t /\ \A k \in R : t[k] = h[k]
    BY <1>1, <1>4 DEF Parts
  <2>2. /\ M \subseteq DOMAIN t /\ (\A k \in M : t[k] = h[k])
        /\ H \subseteq DOMAIN t /\ \A k \in H : t[k] = h[k]
    BY <1>1, <1>3, <1>4
  <2>. QED
    BY <1>2, <1>4, <2>1, <2>2, Frame
<1>6. Parts(t, n, M, R)
  BY <1>1, <1>3, <1>4, <1>5 DEF Parts
<1>7. /\ IsTree(g, n, M \cup {n} \cup R) /\ DOMAIN g = DOMAIN h
      /\ \A k \in DOMAIN h \ {n} : g[k] = t[k]
  <2>1. g = avl_update_height(t, n)
    OBVIOUS
  <2>. HIDE DEF g
  <2>. QED
    BY <1>4, <1>6, <2>1, UpdateTree
<1>. HIDE DEF g
<1>8. Parts(g, l, H, M \cup {n} \cup R)
  <2>1. g[l].r = n /\ g[l].l = h[l].l /\ l \in DOMAIN g
    BY <1>1, <1>4, <1>7
  <2>2. Heap(g)
    BY <1>7, TreeKeys
  <2>3. IsTree(g, h[l].l, H)
    <3>1. H \subseteq DOMAIN g /\ \A k \in H : g[k] = t[k]
      BY <1>1, <1>3, <1>7
    <3>. QED
      BY <2>2, <1>5, <3>1, Frame
  <2>4. \A k \in H : cmp(k, l) < 0
    BY DEF H, Lower
  <2>5. cmp(l, n) < 0 /\ cmp(n, l) > 0
    BY <1>1, Order DEF Parts
  <2>6. \A k \in R : cmp(k, l) > 0
    <3>. SUFFICES ASSUME NEW k \in R PROVE cmp(k, l) > 0
      OBVIOUS
    <3>1. k \in Key /\ cmp(n, k) < 0 /\ l \in Key
      BY <1>1, Order DEF Parts
    <3>2. cmp(l, k) < 0
      BY <1>1, <2>5, <3>1, OrderTransitive
    <3>. QED
      BY <3>1, <3>2, Order
  <2>7. \A k \in M : cmp(k, l) > 0
    BY DEF M, Upper
  <2>. QED
    BY <1>7, <2>1, <2>3, <2>4, <2>5, <2>6, <2>7 DEF Parts
<1>9. /\ IsTree(f, l, H \cup {l} \cup (M \cup {n} \cup R)) /\ DOMAIN f = DOMAIN h
      /\ \A k \in DOMAIN h \ {l} : f[k] = g[k]
  <2>1. f = avl_update_height(g, l)
    OBVIOUS
  <2>. HIDE DEF f
  <2>. QED
    BY <1>7, <1>8, <2>1, UpdateTree
<1>. HIDE DEF f
<1>10. H \cup {l} \cup (M \cup {n} \cup R) = L \cup {n} \cup R
  BY <1>2
<1>11. \A m \in DOMAIN h \ (L \cup {n} \cup R) : f[m] = h[m]
  BY <1>1, <1>4, <1>7, <1>9
<1>12. avl_rotr(h, n) = [heap |-> f, root |-> l]
  BY DEF avl_rotr, f, g, t, l, x
<1>. QED
  BY <1>9, <1>10, <1>11, <1>12 DEF Rebuilt

\* A pointer of a node is set to a tree elsewhere in the heap.
HangLeft(h, n, c) == [h EXCEPT ![n].l = c]
HangRight(h, n, c) == [h EXCEPT ![n].r = c]

\* Assigning the left child of a node changes this field and no other.
LEMMA HungLeft ==
  ASSUME NEW h, Heap(h), NEW n \in DOMAIN h, NEW c \in Key \cup {Nil}, NEW g,
         g = HangLeft(h, n, c)
  PROVE  /\ Heap(g) /\ DOMAIN g = DOMAIN h /\ g[n].l = c /\ g[n].r = h[n].r
         /\ \A k \in DOMAIN h \ {n} : g[k] = h[k]
<1>. DEFINE d == [h[n] EXCEPT !.l = c]
<1>1. h[n] \in Node /\ h \in [DOMAIN h -> Node]
  BY DEF Heap
<1>2. d \in Node /\ d.l = c /\ d.r = h[n].r
  BY <1>1 DEF Node
<1>3. g = [h EXCEPT ![n] = d]
  BY <1>1 DEF HangLeft
<1>. HIDE DEF d
<1>4. DOMAIN g = DOMAIN h /\ g[n] = d /\ \A k \in DOMAIN h \ {n} : g[k] = h[k]
  BY <1>1, <1>3
<1>5. g \in [DOMAIN h -> Node]
  BY <1>1, <1>2, <1>3
<1>. QED
  BY <1>2, <1>4, <1>5 DEF Heap

\* Assigning the right child of a node changes this field and no other.
LEMMA HungRight ==
  ASSUME NEW h, Heap(h), NEW n \in DOMAIN h, NEW c \in Key \cup {Nil}, NEW g,
         g = HangRight(h, n, c)
  PROVE  /\ Heap(g) /\ DOMAIN g = DOMAIN h /\ g[n].r = c /\ g[n].l = h[n].l
         /\ \A k \in DOMAIN h \ {n} : g[k] = h[k]
<1>. DEFINE d == [h[n] EXCEPT !.r = c]
<1>1. h[n] \in Node /\ h \in [DOMAIN h -> Node]
  BY DEF Heap
<1>2. d \in Node /\ d.r = c /\ d.l = h[n].l
  BY <1>1 DEF Node
<1>3. g = [h EXCEPT ![n] = d]
  BY <1>1 DEF HangRight
<1>. HIDE DEF d
<1>4. DOMAIN g = DOMAIN h /\ g[n] = d /\ \A k \in DOMAIN h \ {n} : g[k] = h[k]
  BY <1>1, <1>3
<1>5. g \in [DOMAIN h -> Node]
  BY <1>1, <1>2, <1>3
<1>. QED
  BY <1>2, <1>4, <1>5 DEF Heap

\* The right, or the left, subtree of a node was rebuilt and is hung back.
LEMMA RightRebuilt ==
  ASSUME NEW h, NEW n, NEW L, NEW R, Parts(h, n, L, R), NEW b, Rebuilt(h, b, R),
         NEW g, g = HangRight(b.heap, n, b.root)
  PROVE  /\ Parts(g, n, L, R) /\ DOMAIN g = DOMAIN h /\ g[n].r = b.root
         /\ \A m \in DOMAIN h \ (L \cup {n} \cup R) : g[m] = h[m]
<1>1. /\ Heap(h) /\ n \in DOMAIN h /\ n \notin L /\ n \notin R /\ L \cap R = {}
      /\ L \subseteq DOMAIN h /\ R \subseteq DOMAIN h
  BY PartsApart
<1>2. /\ IsTree(b.heap, b.root, R) /\ DOMAIN b.heap = DOMAIN h
      /\ \A m \in DOMAIN h \ R : b.heap[m] = h[m]
  BY DEF Rebuilt
<1>3. Heap(b.heap) /\ b.root \in Key \cup {Nil}
  BY <1>2, TreeKeys
<1>4. /\ Heap(g) /\ DOMAIN g = DOMAIN h /\ g[n].r = b.root /\ g[n].l = b.heap[n].l
      /\ \A k \in DOMAIN h \ {n} : g[k] = b.heap[k]
  BY <1>1, <1>2, <1>3, HungRight
<1>5. g[n].l = h[n].l
  BY <1>1, <1>2, <1>4
<1>6. IsTree(h, h[n].l, L) /\ L \subseteq DOMAIN g /\ \A k \in L : g[k] = h[k]
  BY <1>1, <1>2, <1>4 DEF Parts
<1>7. IsTree(g, h[n].l, L)
  BY <1>4, <1>6, Frame
<1>8. R \subseteq DOMAIN g /\ \A k \in R : g[k] = b.heap[k]
  BY <1>1, <1>4
<1>9. IsTree(g, b.root, R)
  BY <1>2, <1>4, <1>8, Frame
<1>10. Parts(g, n, L, R)
  BY <1>1, <1>4, <1>5, <1>7, <1>9 DEF Parts
<1>. QED
  BY <1>1, <1>2, <1>4, <1>10

\* The left subtree of a node was rebuilt and is hung back.
LEMMA LeftRebuilt ==
  ASSUME NEW h, NEW n, NEW L, NEW R, Parts(h, n, L, R), NEW b, Rebuilt(h, b, L),
         NEW g, g = HangLeft(b.heap, n, b.root)
  PROVE  /\ Parts(g, n, L, R) /\ DOMAIN g = DOMAIN h /\ g[n].l = b.root
         /\ \A m \in DOMAIN h \ (L \cup {n} \cup R) : g[m] = h[m]
<1>1. /\ Heap(h) /\ n \in DOMAIN h /\ n \notin L /\ n \notin R /\ L \cap R = {}
      /\ L \subseteq DOMAIN h /\ R \subseteq DOMAIN h
  BY PartsApart
<1>2. /\ IsTree(b.heap, b.root, L) /\ DOMAIN b.heap = DOMAIN h
      /\ \A m \in DOMAIN h \ L : b.heap[m] = h[m]
  BY DEF Rebuilt
<1>3. Heap(b.heap) /\ b.root \in Key \cup {Nil}
  BY <1>2, TreeKeys
<1>4. /\ Heap(g) /\ DOMAIN g = DOMAIN h /\ g[n].l = b.root /\ g[n].r = b.heap[n].r
      /\ \A k \in DOMAIN h \ {n} : g[k] = b.heap[k]
  BY <1>1, <1>2, <1>3, HungLeft
<1>5. g[n].r = h[n].r
  BY <1>1, <1>2, <1>4
<1>6. IsTree(h, h[n].r, R) /\ R \subseteq DOMAIN g /\ \A k \in R : g[k] = h[k]
  BY <1>1, <1>2, <1>4 DEF Parts
<1>7. IsTree(g, h[n].r, R)
  BY <1>4, <1>6, Frame
<1>8. L \subseteq DOMAIN g /\ \A k \in L : g[k] = b.heap[k]
  BY <1>1, <1>4
<1>9. IsTree(g, b.root, L)
  BY <1>2, <1>4, <1>8, Frame
<1>10. Parts(g, n, L, R)
  BY <1>1, <1>4, <1>5, <1>7, <1>9 DEF Parts
<1>. QED
  BY <1>1, <1>2, <1>4, <1>10

\* A subtree that is higher than another one is not empty.
LEMMA HigherIsThere ==
  ASSUME NEW h, NEW n, NEW L, NEW R, Parts(h, n, L, R)
  PROVE  /\ avl_delta(h, n) < 0 => h[n].r # Nil
         /\ avl_delta(h, n) > 0 => h[n].l # Nil
<1>1. Height(h, h[n].l) \in Nat /\ Height(h, h[n].r) \in Nat
  BY PartsApart, HeightType
<1>. QED
  BY <1>1 DEF avl_delta, Height

\* What was rebuilt after other changes inside the same tree.
LEMMA SamePlace ==
  ASSUME NEW h, NEW g, NEW b, NEW A, Rebuilt(g, b, A), DOMAIN g = DOMAIN h,
         \A m \in DOMAIN h \ A : g[m] = h[m]
  PROVE  Rebuilt(h, b, A)
  BY DEF Rebuilt

\* The root of a tree, seen as a node between its two subtrees.
LEMMA NodeAsParts ==
  ASSUME NEW h, NEW n, NEW A, IsTree(h, n, A), n # Nil
  PROVE  Parts(h, n, Lower(A, n), Upper(A, n)) /\ A = Lower(A, n) \cup {n} \cup Upper(A, n)
<1>1. /\ IsTree(h, h[n].l, Lower(A, n)) /\ IsTree(h, h[n].r, Upper(A, n))
      /\ A = Lower(A, n) \cup {n} \cup Upper(A, n) /\ n \in DOMAIN h
  BY NodeParts, TreeKeys
<1>2. (\A k \in Lower(A, n) : cmp(k, n) < 0) /\ \A k \in Upper(A, n) : cmp(k, n) > 0
  BY DEF Lower, Upper
<1>. QED
  BY <1>1, <1>2 DEF Parts

\* avl_balance() keeps the nodes and their order, and makes the heights right.
LEMMA BalancedTree ==
  ASSUME NEW h, NEW n, NEW L, NEW R, Parts(h, n, L, R)
  PROVE  Rebuilt(h, avl_balance(h, n), L \cup {n} \cup R)
<1>. DEFINE A == L \cup {n} \cup R
<1>1. CASE avl_delta(h, n) < -1
  <2>. DEFINE r == h[n].r
              b == avl_rotr(h, r)
              g == HangRight(b.heap, n, b.root)
  <2>1. avl_delta(h, n) \in Int /\ avl_delta(h, n) < 0
    <3>1. Height(h, h[n].l) \in Nat /\ Height(h, h[n].r) \in Nat
      BY PartsApart, HeightType
    <3>. QED
      BY <1>1, <3>1 DEF avl_delta
  <2>2. r # Nil /\ IsTree(h, r, R) /\ r \in R
    <3>1. r # Nil
      BY <2>1, HigherIsThere
    <3>2. IsTree(h, r, R)
      BY DEF Parts
    <3>. QED
      BY <3>1, <3>2, TreeKeys
  <2>3. CASE avl_delta(h, r) > 0
    <3>1. Parts(h, r, Lower(R, r), Upper(R, r)) /\ R = Lower(R, r) \cup {r} \cup Upper(R, r)
      BY <2>2, NodeAsParts
    <3>2. h[r].l # Nil
      BY <2>3, <3>1, HigherIsThere
    <3>3. Rebuilt(h, b, R)
      <4>. HIDE DEF r
      <4>1. Rebuilt(h, b, Lower(R, r) \cup {r} \cup Upper(R, r))
        BY <3>1, <3>2, RotrTree
      <4>. QED
        BY <3>1, <4>1
    <3>4. b.root # Nil
      BY <2>2, <3>3, TreeKeys DEF Rebuilt
    <3>5. avl_balance(h, n) = avl_rotl(g, n)
      BY <1>1, <2>3 DEF avl_balance, HangRight
    <3>6. g = HangRight(b.heap, n, b.root)
      OBVIOUS
    <3>. HIDE DEF g, b
    <3>7. /\ Parts(g, n, L, R) /\ DOMAIN g = DOMAIN h /\ g[n].r = b.root
          /\ \A m \in DOMAIN h \ A : g[m] = h[m]
      BY <3>3, <3>6, RightRebuilt
    <3>8. Rebuilt(g, avl_rotl(g, n), A)
      BY <3>4, <3>7, RotlTree
    <3>. HIDE DEF A
    <3>9. Rebuilt(h, avl_rotl(g, n), A)
      BY <3>7, <3>8, SamePlace
    <3>. QED
      BY <3>5, <3>9 DEF A
  <2>4. CASE ~(avl_delta(h, r) > 0)
    <3>1. avl_balance(h, n) = avl_rotl(h, n)
      BY <1>1, <2>4 DEF avl_balance
    <3>. QED
      BY <2>2, <3>1, RotlTree
  <2>. QED
    BY <2>3, <2>4
<1>2. CASE ~(avl_delta(h, n) < -1) /\ avl_delta(h, n) > 1
  <2>. DEFINE l == h[n].l
              b == avl_rotl(h, l)
              g == HangLeft(b.heap, n, b.root)
  <2>1. avl_delta(h, n) \in Int /\ avl_delta(h, n) > 0
    <3>1. Height(h, h[n].l) \in Nat /\ Height(h, h[n].r) \in Nat
      BY PartsApart, HeightType
    <3>. QED
      BY <1>2, <3>1 DEF avl_delta
  <2>2. l # Nil /\ IsTree(h, l, L) /\ l \in L
    <3>1. l # Nil
      BY <2>1, HigherIsThere
    <3>2. IsTree(h, l, L)
      BY DEF Parts
    <3>. QED
      BY <3>1, <3>2, TreeKeys
  <2>3. CASE avl_delta(h, l) < 0
    <3>1. Parts(h, l, Lower(L, l), Upper(L, l)) /\ L = Lower(L, l) \cup {l} \cup Upper(L, l)
      BY <2>2, NodeAsParts
    <3>2. h[l].r # Nil
      BY <2>3, <3>1, HigherIsThere
    <3>3. Rebuilt(h, b, L)
      <4>. HIDE DEF l
      <4>1. Rebuilt(h, b, Lower(L, l) \cup {l} \cup Upper(L, l))
        BY <3>1, <3>2, RotlTree
      <4>. QED
        BY <3>1, <4>1
    <3>4. b.root # Nil
      BY <2>2, <3>3, TreeKeys DEF Rebuilt
    <3>5. avl_balance(h, n) = avl_rotr(g, n)
      BY <1>2, <2>3 DEF avl_balance, HangLeft
    <3>6. g = HangLeft(b.heap, n, b.root)
      OBVIOUS
    <3>. HIDE DEF g, b
    <3>7. /\ Parts(g, n, L, R) /\ DOMAIN g = DOMAIN h /\ g[n].l = b.root
          /\ \A m \in DOMAIN h \ A : g[m] = h[m]
      BY <3>3, <3>6, LeftRebuilt
    <3>8. Rebuilt(g, avl_rotr(g, n), A)
      BY <3>4, <3>7, RotrTree
    <3>. HIDE DEF A
    <3>9. Rebuilt(h, avl_rotr(g, n), A)
      BY <3>7, <3>8, SamePlace
    <3>. QED
      BY <3>5, <3>9 DEF A
  <2>4. CASE ~(avl_delta(h, l) < 0)
    <3>1. avl_balance(h, n) = avl_rotr(h, n)
      BY <1>2, <2>4 DEF avl_balance
    <3>. QED
      BY <2>2, <3>1, RotrTree
  <2>. QED
    BY <2>3, <2>4
<1>3. CASE ~(avl_delta(h, n) < -1) /\ ~(avl_delta(h, n) > 1)
  <2>. DEFINE g == avl_update_height(h, n)
  <2>1. avl_balance(h, n) = [heap |-> g, root |-> n]
    BY <1>3 DEF avl_balance
  <2>2. g = avl_update_height(h, n)
    OBVIOUS
  <2>. HIDE DEF g
  <2>3. IsTree(g, n, A) /\ DOMAIN g = DOMAIN h /\ \A m \in DOMAIN h \ {n} : g[m] = h[m]
    BY <2>2, UpdateTree
  <2>. QED
    BY <2>1, <2>3 DEF Rebuilt
<1>. QED
  BY <1>1, <1>2, <1>3

-----------------------------------------------------------------------------
(* Descents                                                                *)

Sought == Key \cup {Lowest, Highest}

\* e is on the side of m where the search for k goes on.
Aside(e, m, k) == \/ Turn(k, m) < 0 /\ cmp(e, m) < 0
                  \/ Turn(k, m) > 0 /\ cmp(e, m) > 0

\* The elements of A that are at and below the i-th node of the descent d.
Reach(A, d, k, i) == {e \in A : \A j \in 1..i - 1 : Aside(e, d[j], k)}

\* Where the descent goes on after the nodes of w.
Onward(h, n, k, w) == IF w = <<>> THEN n ELSE Below(h, w[Len(w)], k)
OneStep(h, n, k) ==
    [w \in Seq(Key) |-> IF Onward(h, n, k, w) = Nil THEN w ELSE Append(w, Onward(h, n, k, w))]
Further(h, n, k, w) == OneStep(h, n, k)[w]

\* w is a part of the descent from n, the root of the tree A.
Follows(h, n, A, k, w) ==
    /\ w \in Seq(A)
    /\ w # <<>> => w[1] = n
    /\ \A i \in 1..Len(w) : IsTree(h, w[i], Reach(A, w, k, i))
    /\ \A i \in 1..Len(w) - 1 : w[i + 1] = Below(h, w[i], k)
    /\ IsTree(h, Onward(h, n, k, w), Reach(A, w, k, Len(w) + 1))

\* key_cmp returns an int for the keys that searches look for.
LEMMA TurnIsInt ==
  ASSUME NEW k \in Sought, NEW m \in Key
  PROVE  Turn(k, m) \in Int
  BY Order DEF Turn, Sought

\* The search for k goes on in the tree of the elements on its side.
LEMMA BelowTree ==
  ASSUME NEW h, NEW m, NEW B, IsTree(h, m, B), m # Nil, NEW k \in Sought
  PROVE  IsTree(h, Below(h, m, k), {e \in B : Aside(e, m, k)})
<1>1. /\ IsTree(h, h[m].l, Lower(B, m)) /\ IsTree(h, h[m].r, Upper(B, m))
      /\ Heap(h) /\ m \in Key /\ B \subseteq Key
  BY NodeParts, TreeKeys
<1>2. Turn(k, m) \in Int
  BY <1>1, TurnIsInt
<1>. DEFINE t == Turn(k, m)
            S == {e \in B : Aside(e, m, k)}
<1>3. CASE t < 0
  <2>1. S = Lower(B, m)
    BY <1>2, <1>3 DEF Aside, Lower
  <2>2. Below(h, m, k) = h[m].l
    BY <1>3 DEF Below
  <2>. QED
    BY <1>1, <2>1, <2>2
<1>4. CASE t > 0
  <2>1. S = Upper(B, m)
    BY <1>2, <1>4 DEF Aside, Upper
  <2>2. Below(h, m, k) = h[m].r
    BY <1>2, <1>4 DEF Below
  <2>. QED
    BY <1>1, <2>1, <2>2
<1>5. CASE t = 0
  <2>1. S = {}
    BY <1>2, <1>5 DEF Aside
  <2>2. Below(h, m, k) = Nil
    BY <1>5 DEF Below
  <2>. QED
    BY <1>1, <2>1, <2>2, NoTree
<1>. QED
  BY <1>2, <1>3, <1>4, <1>5

\* One more comparison of a search leaves the elements on its side.
LEMMA ReachNext ==
  ASSUME NEW A, NEW d, NEW k, NEW i \in Nat, i > 0
  PROVE  Reach(A, d, k, i + 1) = {e \in Reach(A, d, k, i) : Aside(e, d[i], k)}
<1>1. 1..(i + 1) - 1 = (1..i - 1) \cup {i}
  OBVIOUS
<1>. QED
  BY <1>1 DEF Reach

\* A search begins with all the elements.
LEMMA ReachFirst ==
  ASSUME NEW A, NEW d, NEW k
  PROVE  Reach(A, d, k, 1) = A
<1>1. 1..1 - 1 = {}
  OBVIOUS
<1>. QED
  BY <1>1 DEF Reach

\* The beginning of a descent decides what its first nodes reach.
LEMMA ReachPrefix ==
  ASSUME NEW A, NEW d, NEW e, NEW k, NEW i \in Nat, \A j \in 1..i - 1 : d[j] = e[j]
  PROVE  Reach(A, d, k, i) = Reach(A, e, k, i)
  BY DEF Reach

\* Every node that a search meets leaves fewer elements.
LEMMA ReachShrinks ==
  ASSUME NEW A, NEW d, NEW k, NEW i \in Nat, i > 0, NEW c \in Nat,
         IsFiniteSet(Reach(A, d, k, i)), Cardinality(Reach(A, d, k, i)) <= c + 1,
         d[i] \in Reach(A, d, k, i), d[i] \in Key
  PROVE  /\ IsFiniteSet(Reach(A, d, k, i + 1))
         /\ Cardinality(Reach(A, d, k, i + 1)) <= c
<1>. DEFINE S == Reach(A, d, k, i)
            T == Reach(A, d, k, i + 1)
            U == S \ {d[i]}
<1>1. ~Aside(d[i], d[i], k)
  BY Order DEF Aside
<1>2. T \subseteq U
  BY <1>1, ReachNext
<1>. HIDE DEF S, T
<1>3. IsFiniteSet(U) /\ Cardinality(U) = Cardinality(S) - 1 /\ Cardinality(S) \in Nat
  BY FS_RemoveElement, FS_CardinalityType DEF S
<1>. HIDE DEF U
<1>4. IsFiniteSet(T) /\ Cardinality(T) <= Cardinality(U) /\ Cardinality(T) \in Nat
  BY <1>2, <1>3, FS_Subset, FS_CardinalityType
<1>5. Cardinality(T) <= c
  BY <1>3, <1>4 DEF S
<1>. QED
  BY <1>4, <1>5 DEF T

\* One more node of a descent.
LEMMA FollowsOn ==
  ASSUME NEW h, NEW n, NEW A, NEW k \in Sought, NEW w, Follows(h, n, A, k, w),
         Onward(h, n, k, w) # Nil
  PROVE  /\ Follows(h, n, A, k, Append(w, Onward(h, n, k, w)))
         /\ Onward(h, n, k, w) \in Reach(A, w, k, Len(w) + 1)
         /\ Onward(h, n, k, w) \in Key
         /\ Reach(A, Append(w, Onward(h, n, k, w)), k, Len(w) + 1) = Reach(A, w, k, Len(w) + 1)
<1>. DEFINE m == Onward(h, n, k, w)
            v == Append(w, m)
            W == Len(w)
            B == Reach(A, w, k, W + 1)
<1>1. w \in Seq(A) /\ W \in Nat /\ IsTree(h, m, B)
  BY DEF Follows
<1>2. m \in B /\ m \in Key /\ m \in A
  <2>1. m \in B /\ m \in Key
    BY <1>1, TreeKeys
  <2>. QED
    BY <2>1 DEF Reach
<1>. HIDE DEF m
<1>3. v \in Seq(A) /\ Len(v) = W + 1 /\ v[W + 1] = m /\ (\A i \in 1..W : v[i] = w[i]) /\ v # <<>>
  BY <1>1, <1>2
<1>. HIDE DEF v, W
<1>4. \A i \in 1..W + 1 : Reach(A, v, k, i) = Reach(A, w, k, i)
  <2>. SUFFICES ASSUME NEW i \in 1..W + 1 PROVE Reach(A, v, k, i) = Reach(A, w, k, i)
    OBVIOUS
  <2>1. i \in Nat /\ \A j \in 1..i - 1 : v[j] = w[j]
    BY <1>1, <1>3
  <2>. QED
    BY <2>1, ReachPrefix
<1>5. Reach(A, v, k, W + 1) = B
  BY <1>1, <1>4
<1>. HIDE DEF B
<1>6. v[1] = n
  <2>1. CASE w = <<>>
    BY <2>1, <1>3 DEF m, Onward, W
  <2>2. CASE w # <<>>
    <3>1. W > 0
      BY <1>1, <2>2 DEF W
    <3>. QED
      BY <1>1, <1>3, <2>2, <3>1 DEF Follows
  <2>. QED
    BY <2>1, <2>2
<1>7. \A i \in 1..Len(v) : IsTree(h, v[i], Reach(A, v, k, i))
  <2>. SUFFICES ASSUME NEW i \in 1..W + 1 PROVE IsTree(h, v[i], Reach(A, v, k, i))
    BY <1>3
  <2>1. CASE i = W + 1
    BY <2>1, <1>1, <1>3, <1>5
  <2>2. CASE i # W + 1
    <3>1. i \in 1..W
      BY <1>1, <2>2
    <3>2. IsTree(h, w[i], Reach(A, w, k, i))
      BY <3>1 DEF Follows, W
    <3>. QED
      BY <3>1, <3>2, <1>3, <1>4
  <2>. QED
    BY <2>1, <2>2
<1>8. \A i \in 1..Len(v) - 1 : v[i + 1] = Below(h, v[i], k)
  <2>. SUFFICES ASSUME NEW i \in 1..W PROVE v[i + 1] = Below(h, v[i], k)
    BY <1>1, <1>3
  <2>1. CASE i = W
    <3>1. w # <<>>
      BY <2>1, <1>1 DEF W
    <3>. QED
      BY <2>1, <3>1, <1>3 DEF m, Onward, W
  <2>2. CASE i # W
    <3>1. i \in 1..W - 1 /\ i + 1 \in 1..W
      BY <1>1, <2>2
    <3>2. w[i + 1] = Below(h, w[i], k)
      BY <3>1 DEF Follows, W
    <3>. QED
      BY <3>1, <3>2, <1>3
  <2>. QED
    BY <2>1, <2>2
<1>9. Onward(h, n, k, v) = Below(h, m, k)
  BY <1>3 DEF Onward
<1>10. Reach(A, v, k, Len(v) + 1) = {e \in B : Aside(e, m, k)}
  BY <1>1, <1>3, <1>5, ReachNext
<1>11. IsTree(h, Onward(h, n, k, v), Reach(A, v, k, Len(v) + 1))
  <2>1. m # Nil
    BY DEF m
  <2>. QED
    BY <1>1, <1>9, <1>10, <2>1, BelowTree
<1>12. Follows(h, n, A, k, v)
  BY <1>3, <1>6, <1>7, <1>8, <1>11 DEF Follows
<1>. QED
  BY <1>2, <1>5, <1>12 DEF m, v, B, W

\* The recursion of Descent is well defined.
IsWalk(f, h, n, k, N) ==
    f = [i \in 0..N |-> IF i = 0 THEN <<>> ELSE Further(h, n, k, f[i - 1])]

\* The loop of a descent is well defined.
LEMMA WalkExists ==
  ASSUME NEW h, NEW n, NEW k, NEW N \in Nat
  PROVE  \E f : IsWalk(f, h, n, k, N)
<1>. DEFINE Has(j) == \E f : IsWalk(f, h, n, k, j)
            S == {j \in Nat : Has(j)}
<1>1. Has(0)
  <2>. DEFINE f == [i \in 0..0 |-> <<>>]
  <2>1. f = [i \in 0..0 |-> IF i = 0 THEN <<>> ELSE Further(h, n, k, f[i - 1])]
    OBVIOUS
  <2>. HIDE DEF f
  <2>. QED
    BY <2>1 DEF IsWalk
<1>2. ASSUME NEW j \in Nat, Has(j)
      PROVE  Has(j + 1)
  <2>1. PICK f : IsWalk(f, h, n, k, j)
    BY <1>2
  <2>. DEFINE x == Further(h, n, k, f[j])
              g == [i \in 0..j + 1 |-> IF i = j + 1 THEN x ELSE f[i]]
  <2>2. f[0] = <<>> /\ \A i \in 1..j : f[i] = Further(h, n, k, f[i - 1])
    <3>1. \A i \in 0..j : f[i] = IF i = 0 THEN <<>> ELSE Further(h, n, k, f[i - 1])
      BY <2>1 DEF IsWalk
    <3>. QED
      BY <3>1
  <2>. HIDE DEF x
  <2>3. g[j + 1] = x /\ \A i \in 0..j : g[i] = f[i]
    OBVIOUS
  <2>4. g = [i \in 0..j + 1 |-> IF i = 0 THEN <<>> ELSE Further(h, n, k, g[i - 1])]
    <3>. DEFINE e == [i \in 0..j + 1 |-> IF i = 0 THEN <<>> ELSE Further(h, n, k, g[i - 1])]
    <3>1. ASSUME NEW i \in 0..j + 1
          PROVE  g[i] = IF i = 0 THEN <<>> ELSE Further(h, n, k, g[i - 1])
      <4>1. CASE i = 0
        BY <4>1, <2>2, <2>3
      <4>2. CASE i = j + 1
        <5>1. g[i - 1] = f[j]
          BY <4>2, <2>3
        <5>. QED
          BY <4>2, <5>1, <2>3 DEF x
      <4>3. CASE i # 0 /\ i # j + 1
        <5>1. i \in 1..j /\ i - 1 \in 0..j
          BY <4>3
        <5>. HIDE DEF g
        <5>. QED
          BY <4>3, <5>1, <2>2, <2>3
      <4>. QED
        BY <4>1, <4>2, <4>3
    <3>. QED
      BY <3>1
  <2>. HIDE DEF g
  <2>. QED
    BY <2>4 DEF IsWalk
<1>. HIDE DEF Has
<1>3. 0 \in S /\ \A j \in Nat : j \in S => j + 1 \in S
  BY <1>1, <1>2
<1>4. Nat \subseteq S
  <2>. HIDE DEF S
  <2>. QED
    BY <1>3, CountUp
<1>. QED
  BY <1>4 DEF Has

\* A descent makes the steps of this loop.
LEMMA DescentWalks ==
  ASSUME NEW h, NEW n, NEW k, IsFiniteSet(DOMAIN h)
  PROVE  \E f : /\ f[0] = <<>>
                /\ \A i \in 1..Cardinality(DOMAIN h) : f[i] = Further(h, n, k, f[i - 1])
                /\ Descent(h, n, k) = f[Cardinality(DOMAIN h)]
<1>. DEFINE N == Cardinality(DOMAIN h)
            f == CHOOSE f : IsWalk(f, h, n, k, N)
<1>1. N \in Nat
  BY FS_CardinalityType
<1>2. Descent(h, n, k) = f[N]
  BY DEF Descent, IsWalk, Further, OneStep, Onward
<1>. HIDE DEF N
<1>3. IsWalk(f, h, n, k, N)
  BY <1>1, WalkExists
<1>. HIDE DEF f
<1>4. \A i \in 0..N : f[i] = IF i = 0 THEN <<>> ELSE Further(h, n, k, f[i - 1])
  BY <1>3 DEF IsWalk
<1>5. f[0] = <<>> /\ \A i \in 1..N : f[i] = Further(h, n, k, f[i - 1])
  BY <1>1, <1>4
<1>. QED
  BY <1>2, <1>5 DEF N

\* A descent through a tree ends where there is nothing below.
LEMMA DescentEnds ==
  ASSUME NEW h, NEW n, NEW A, IsTree(h, n, A), IsFiniteSet(DOMAIN h), NEW k \in Sought
  PROVE  /\ Follows(h, n, A, k, Descent(h, n, k))
         /\ Onward(h, n, k, Descent(h, n, k)) = Nil
<1>. DEFINE N == Cardinality(DOMAIN h)
            Good(w, i) ==
                /\ Follows(h, n, A, k, w)
                /\ \/ Onward(h, n, k, w) = Nil
                   \/ /\ Len(w) = i /\ IsFiniteSet(Reach(A, w, k, i + 1))
                      /\ Cardinality(Reach(A, w, k, i + 1)) <= N - i
<1>1. PICK f : /\ f[0] = <<>>
               /\ \A i \in 1..N : f[i] = Further(h, n, k, f[i - 1])
               /\ Descent(h, n, k) = f[N]
  BY DescentWalks
<1>2. N \in Nat
  BY FS_CardinalityType
<1>3. Good(<<>>, 0)
  <2>1. Reach(A, <<>>, k, 1) = A
    BY ReachFirst
  <2>2. A \subseteq DOMAIN h
    BY TreeKeys
  <2>3. IsFiniteSet(A) /\ Cardinality(A) <= N
    BY <2>2, FS_Subset
  <2>4. Onward(h, n, k, <<>>) = n
    BY DEF Onward
  <2>5. Follows(h, n, A, k, <<>>)
    BY <2>1, <2>4 DEF Follows
  <2>. QED
    BY <1>2, <2>1, <2>3, <2>5
<1>4. ASSUME NEW i \in 1..N, NEW w, Good(w, i - 1)
      PROVE  Good(Further(h, n, k, w), i)
  <2>. DEFINE m == Onward(h, n, k, w)
              v == Append(w, m)
  <2>0. w \in Seq(Key)
    BY <1>4, TreeKeys DEF Follows
  <2>1. CASE m = Nil
    BY <2>0, <2>1, <1>4 DEF Further, OneStep
  <2>2. CASE m # Nil
    <3>1. /\ Follows(h, n, A, k, v) /\ m \in Reach(A, w, k, Len(w) + 1) /\ m \in Key
          /\ Reach(A, v, k, Len(w) + 1) = Reach(A, w, k, Len(w) + 1)
      BY <1>4, <2>2, FollowsOn
    <3>2. /\ Len(w) = i - 1 /\ IsFiniteSet(Reach(A, w, k, i))
          /\ Cardinality(Reach(A, w, k, i)) <= N - (i - 1) /\ w \in Seq(A)
      BY <1>4, <2>2 DEF Follows
    <3>3. Len(w) + 1 = i /\ N - (i - 1) = (N - i) + 1 /\ N - i \in Nat /\ i \in Nat /\ i > 0
      BY <1>2, <3>2
    <3>4. v[i] = m /\ Len(v) = i
      BY <3>2, <3>3
    <3>5. Further(h, n, k, w) = v
      BY <2>0, <2>2 DEF Further, OneStep
    <3>. HIDE DEF v, m, N
    <3>6. /\ IsFiniteSet(Reach(A, v, k, i)) /\ Cardinality(Reach(A, v, k, i)) <= (N - i) + 1
          /\ v[i] \in Reach(A, v, k, i) /\ v[i] \in Key
      BY <3>1, <3>2, <3>3, <3>4
    <3>7. IsFiniteSet(Reach(A, v, k, i + 1)) /\ Cardinality(Reach(A, v, k, i + 1)) <= N - i
      BY <3>3, <3>6, ReachShrinks
    <3>. QED
      BY <3>1, <3>4, <3>5, <3>7
  <2>. QED
    BY <2>1, <2>2
<1>. HIDE DEF Good
<1>. DEFINE S == {i \in Nat : i <= N => Good(f[i], i)}
<1>5. 0 \in S
  BY <1>1, <1>3
<1>6. ASSUME NEW i \in Nat, i \in S
      PROVE  i + 1 \in S
  <2>. SUFFICES ASSUME i + 1 <= N PROVE Good(f[i + 1], i + 1)
    OBVIOUS
  <2>1. i + 1 \in 1..N /\ (i + 1) - 1 = i
    BY <1>2
  <2>2. Good(f[i], i)
    BY <1>2, <1>6
  <2>3. f[i + 1] = Further(h, n, k, f[i])
    BY <1>1, <2>1
  <2>. QED
    BY <1>4, <2>1, <2>2, <2>3
<1>7. Nat \subseteq S
  BY <1>5, <1>6, CountUp
<1>8. Good(f[N], N)
  BY <1>2, <1>7
<1>. DEFINE d == f[N]
            B == Reach(A, d, k, N + 1)
<1>9. CASE Onward(h, n, k, d) # Nil
  <2>1. /\ IsFiniteSet(B) /\ Cardinality(B) <= 0 /\ IsTree(h, Onward(h, n, k, d), B)
    BY <1>2, <1>8, <1>9 DEF Good, Follows
  <2>2. B = {}
    BY <2>1, FS_CardinalityType, FS_EmptySet
  <2>. QED
    BY <1>9, <2>1, <2>2, TreeKeys
<1>. QED
  BY <1>1, <1>8, <1>9 DEF Good

\* The search for a key compares it by key_cmp, and stops at it only.
LEMMA TurnAtKey ==
  ASSUME NEW k \in Key, NEW m \in Key
  PROVE  /\ Turn(k, m) = cmp(k, m) /\ Turn(k, m) \in Int
         /\ Turn(k, m) = 0 <=> k = m
         /\ k # m => Aside(k, m, k)
<1>1. Turn(k, m) = cmp(k, m)
  BY NilIsNoKey DEF Turn
<1>. QED
  BY <1>1, Order DEF Aside

\* A search never comes back to elements that it left.
LEMMA ReachInside ==
  ASSUME NEW A, NEW d, NEW k, NEW i \in Nat, NEW j \in Nat, i <= j
  PROVE  Reach(A, d, k, j) \subseteq Reach(A, d, k, i) /\ Reach(A, d, k, i) \subseteq A
<1>1. \A u \in 1..i - 1 : u \in 1..j - 1
  OBVIOUS
<1>. QED
  BY <1>1 DEF Reach

\* A search ends at its key, if it is there, and does not meet it otherwise.
LEMMA SearchFinds ==
  ASSUME NEW h, NEW n, NEW A, IsTree(h, n, A), IsFiniteSet(DOMAIN h), NEW k \in Key,
         NEW d, d = Descent(h, n, k)
  PROVE  /\ k \notin A => \A j \in 1..Len(d) : d[j] # k
         /\ k \in A => /\ d # <<>> /\ d[Len(d)] = k
                       /\ \A j \in 1..Len(d) - 1 : d[j] # k
<1>1. Follows(h, n, A, k, d) /\ Onward(h, n, k, d) = Nil
  BY DescentEnds DEF Sought
<1>. DEFINE D == Len(d)
<1>2. d \in Seq(A) /\ D \in Nat /\ A \subseteq Key /\ Nil \notin Key
  BY <1>1, TreeKeys, NilIsNoKey DEF Follows
<1>3. \A j \in 1..D : d[j] \in A /\ d[j] \in Key
  BY <1>2
<1>4. Reach(A, d, k, D + 1) = {}
  BY <1>1, TreeKeys DEF Follows
<1>5. ASSUME NEW j \in 1..D - 1 PROVE d[j] # k
  <2>1. d[j + 1] = Below(h, d[j], k) /\ j + 1 \in 1..D
    BY <1>1, <1>2 DEF Follows
  <2>2. d[j + 1] # Nil
    BY <1>2, <1>3, <2>1
  <2>3. d[j] = k => Below(h, d[j], k) = Nil
    BY TurnAtKey DEF Below
  <2>. QED
    BY <2>1, <2>2, <2>3
<1>6. ASSUME k \in A PROVE \E j \in 1..D : d[j] = k
  <2>. SUFFICES ASSUME \A j \in 1..D : d[j] # k PROVE FALSE
    OBVIOUS
  <2>1. \A j \in 1..D : Aside(k, d[j], k)
    BY <1>3, TurnAtKey
  <2>2. k \in Reach(A, d, k, D + 1)
    BY <1>2, <1>6, <2>1 DEF Reach
  <2>. QED
    BY <1>4, <2>2
<1>7. ASSUME k \in A PROVE d # <<>> /\ d[D] = k
  <2>1. PICK j \in 1..D : d[j] = k
    BY <1>6, <1>7
  <2>2. j = D
    BY <1>2, <1>5, <2>1
  <2>. QED
    BY <1>2, <2>1, <2>2
<1>8. k \notin A => \A j \in 1..D : d[j] # k
  BY <1>3
<1>. QED
  BY <1>5, <1>7, <1>8

\* avl_get() finds the keys of the tree and no other.
LEMMA GetFinds ==
  ASSUME NEW h, NEW n, NEW A, IsTree(h, n, A), IsFiniteSet(DOMAIN h), NEW k \in Key
  PROVE  avl_get(h, n, k) = IF k \in A THEN k ELSE Nil
<1>. DEFINE d == Descent(h, n, k)
<1>1. d = Descent(h, n, k)
  OBVIOUS
<1>2. Follows(h, n, A, k, d)
  BY DescentEnds DEF Sought
<1>3. d \in Seq(A) /\ A \subseteq Key
  BY <1>2, TreeKeys DEF Follows
<1>4. avl_get(h, n, k) = IF d # <<>> /\ cmp(k, d[Len(d)]) = 0 THEN d[Len(d)] ELSE Nil
  BY DEF avl_get
<1>. HIDE DEF d
<1>5. CASE k \in A
  <2>1. d # <<>> /\ d[Len(d)] = k
    BY <1>1, <1>5, SearchFinds
  <2>. QED
    BY <1>4, <1>5, <2>1, Order
<1>6. CASE k \notin A
  <2>1. \A j \in 1..Len(d) : d[j] # k
    BY <1>1, <1>6, SearchFinds
  <2>2. d # <<>> => Len(d) \in 1..Len(d) /\ d[Len(d)] \in Key
    BY <1>3
  <2>. QED
    BY <1>4, <1>6, <2>1, <2>2, Order
<1>. QED
  BY <1>5, <1>6

-----------------------------------------------------------------------------
(* The way back up                                                         *)

\* A node of the way back up.
Lift(n, k, b) == avl_balance(Hang(b.heap, n, k, b.root), n)

\* One return of avl_insert_rec(), avl_remove_rec() or avl_movr(): the subtree b
\* is hung below m, and m is balanced.
LEMMA LiftTree ==
  ASSUME NEW h, NEW m, NEW B, IsTree(h, m, B), m # Nil, NEW k \in Sought, Turn(k, m) # 0,
         NEW C, C = {e \in B : Aside(e, m, k)},
         NEW b, NEW X, IsTree(b.heap, b.root, X), \A x \in X : Aside(x, m, k),
         \A e \in B \ C : e \in DOMAIN b.heap /\ b.heap[e] = h[e]
  PROVE  Rebuilt(b.heap, Lift(m, k, b), (B \ C) \cup X)
<1>. DEFINE f == b.heap
            g == Hang(f, m, k, b.root)
            L == Lower(B, m)
            R == Upper(B, m)
<1>1. /\ m \in B /\ B \subseteq Key /\ m \in Key /\ B = L \cup {m} \cup R
      /\ IsTree(h, h[m].l, L) /\ IsTree(h, h[m].r, R)
      /\ Heap(f) /\ X \subseteq DOMAIN f /\ X \subseteq Key /\ b.root \in Key \cup {Nil}
  BY TreeKeys, NodeParts
<1>2. cmp(m, m) = 0 /\ Turn(k, m) \in Int /\ \A e \in Key : cmp(e, m) \in Int
  BY <1>1, Order, TurnIsInt
<1>3. ~Aside(m, m, k) /\ m \notin X /\ m \in B \ C
  BY <1>1, <1>2 DEF Aside
<1>4. m \in DOMAIN f /\ f[m] = h[m]
  BY <1>3
<1>. HIDE DEF f
<1>5. CASE Turn(k, m) < 0
  <2>1. C = L /\ B \ C = {m} \cup R /\ \A x \in X : cmp(x, m) < 0
    <3>1. \A e : Aside(e, m, k) <=> cmp(e, m) < 0
      BY <1>2, <1>5 DEF Aside
    <3>2. C = L
      BY <3>1 DEF Lower
    <3>3. \A e \in R : cmp(e, m) > 0 /\ e \notin L /\ e # m
      BY <1>1, <1>2 DEF Lower, Upper
    <3>. QED
      BY <1>1, <1>3, <3>1, <3>2, <3>3
  <2>2. g = HangLeft(f, m, b.root)
    BY <1>5 DEF Hang, HangLeft
  <2>. HIDE DEF g
  <2>3. /\ Heap(g) /\ DOMAIN g = DOMAIN f /\ g[m].l = b.root /\ g[m].r = f[m].r
        /\ \A e \in DOMAIN f \ {m} : g[e] = f[e]
    BY <1>1, <1>4, <2>2, HungLeft
  <2>4. IsTree(g, b.root, X)
    <3>1. IsTree(f, b.root, X) /\ X \subseteq DOMAIN g /\ \A e \in X : g[e] = f[e]
      BY <1>1, <1>3, <2>3 DEF f
    <3>. QED
      BY <2>3, <3>1, Frame
  <2>5. IsTree(g, h[m].r, R)
    <3>1. \A e \in R : e \in B \ C /\ e # m
      BY <1>1, <1>2, <2>1 DEF Upper
    <3>2. R \subseteq DOMAIN g /\ \A e \in R : g[e] = h[e]
      BY <2>3, <3>1 DEF f
    <3>. QED
      BY <1>1, <2>3, <3>2, Frame
  <2>6. Parts(g, m, X, R)
    <3>1. m \in DOMAIN g /\ g[m].l = b.root /\ g[m].r = h[m].r
      BY <1>4, <2>3
    <3>2. \A e \in R : cmp(e, m) > 0
      BY DEF Upper
    <3>. QED
      BY <2>1, <2>4, <2>5, <3>1, <3>2 DEF Parts
  <2>7. Rebuilt(g, avl_balance(g, m), X \cup {m} \cup R)
    BY <2>6, BalancedTree
  <2>8. X \cup {m} \cup R = (B \ C) \cup X /\ Lift(m, k, b) = avl_balance(g, m)
    BY <2>1 DEF Lift, g, f
  <2>9. Rebuilt(g, Lift(m, k, b), (B \ C) \cup X)
    BY <2>7, <2>8
  <2>10. \A e \in DOMAIN f \ ((B \ C) \cup X) : g[e] = f[e]
    BY <1>3, <2>3
  <2>11. Rebuilt(f, Lift(m, k, b), (B \ C) \cup X)
    BY <2>3, <2>9, <2>10, SamePlace
  <2>. QED
    BY <2>11 DEF f
<1>6. CASE Turn(k, m) > 0
  <2>1. C = R /\ B \ C = L \cup {m} /\ \A x \in X : cmp(x, m) > 0
    <3>1. \A e : Aside(e, m, k) <=> cmp(e, m) > 0
      BY <1>2, <1>6 DEF Aside
    <3>2. C = R
      BY <3>1 DEF Upper
    <3>3. \A e \in L : cmp(e, m) < 0 /\ e \notin R /\ e # m
      BY <1>1, <1>2 DEF Lower, Upper
    <3>. QED
      BY <1>1, <1>3, <3>1, <3>2, <3>3
  <2>2. g = HangRight(f, m, b.root)
    BY <1>2, <1>6 DEF Hang, HangRight
  <2>. HIDE DEF g
  <2>3. /\ Heap(g) /\ DOMAIN g = DOMAIN f /\ g[m].r = b.root /\ g[m].l = f[m].l
        /\ \A e \in DOMAIN f \ {m} : g[e] = f[e]
    BY <1>1, <1>4, <2>2, HungRight
  <2>4. IsTree(g, b.root, X)
    <3>1. IsTree(f, b.root, X) /\ X \subseteq DOMAIN g /\ \A e \in X : g[e] = f[e]
      BY <1>1, <1>3, <2>3 DEF f
    <3>. QED
      BY <2>3, <3>1, Frame
  <2>5. IsTree(g, h[m].l, L)
    <3>1. \A e \in L : e \in B \ C /\ e # m
      BY <1>1, <1>2, <2>1 DEF Lower
    <3>2. L \subseteq DOMAIN g /\ \A e \in L : g[e] = h[e]
      BY <2>3, <3>1 DEF f
    <3>. QED
      BY <1>1, <2>3, <3>2, Frame
  <2>6. Parts(g, m, L, X)
    <3>1. m \in DOMAIN g /\ g[m].r = b.root /\ g[m].l = h[m].l
      BY <1>4, <2>3
    <3>2. \A e \in L : cmp(e, m) < 0
      BY DEF Lower
    <3>. QED
      BY <2>1, <2>4, <2>5, <3>1, <3>2 DEF Parts
  <2>7. Rebuilt(g, avl_balance(g, m), L \cup {m} \cup X)
    BY <2>6, BalancedTree
  <2>8. L \cup {m} \cup X = (B \ C) \cup X /\ Lift(m, k, b) = avl_balance(g, m)
    BY <2>1 DEF Lift, g, f
  <2>9. Rebuilt(g, Lift(m, k, b), (B \ C) \cup X)
    BY <2>7, <2>8
  <2>10. \A e \in DOMAIN f \ ((B \ C) \cup X) : g[e] = f[e]
    BY <1>3, <2>3
  <2>11. Rebuilt(f, Lift(m, k, b), (B \ C) \cup X)
    BY <2>3, <2>9, <2>10, SamePlace
  <2>. QED
    BY <2>11 DEF f
<1>. QED
  BY <1>2, <1>5, <1>6

\* The recursion of Ascent is well defined.
IsClimb(f, d, k, b, N) ==
    f = [i \in 0..N |-> IF i = 0 THEN b ELSE Lift(d[Len(d) - i + 1], k, f[i - 1])]

\* The returns of the recursive functions are well defined.
LEMMA ClimbExists ==
  ASSUME NEW d, NEW k, NEW b, NEW N \in Nat
  PROVE  \E f : IsClimb(f, d, k, b, N)
<1>. DEFINE Has(j) == \E f : IsClimb(f, d, k, b, j)
            S == {j \in Nat : Has(j)}
<1>1. Has(0)
  <2>. DEFINE f == [i \in 0..0 |-> b]
  <2>1. f = [i \in 0..0 |-> IF i = 0 THEN b ELSE Lift(d[Len(d) - i + 1], k, f[i - 1])]
    OBVIOUS
  <2>. HIDE DEF f
  <2>. QED
    BY <2>1 DEF IsClimb
<1>2. ASSUME NEW j \in Nat, Has(j)
      PROVE  Has(j + 1)
  <2>1. PICK f : IsClimb(f, d, k, b, j)
    BY <1>2
  <2>. DEFINE G(i, v) == Lift(d[Len(d) - i + 1], k, v)
              x == G(j + 1, f[j])
              g == [i \in 0..j + 1 |-> IF i = j + 1 THEN x ELSE f[i]]
  <2>2. f[0] = b /\ \A i \in 1..j : f[i] = G(i, f[i - 1])
    <3>1. \A i \in 0..j : f[i] = IF i = 0 THEN b ELSE G(i, f[i - 1])
      BY <2>1 DEF IsClimb
    <3>. HIDE DEF G
    <3>. QED
      BY <3>1
  <2>. HIDE DEF x
  <2>3. g[j + 1] = x /\ \A i \in 0..j : g[i] = f[i]
    OBVIOUS
  <2>4. g = [i \in 0..j + 1 |-> IF i = 0 THEN b ELSE G(i, g[i - 1])]
    <3>. HIDE DEF G
    <3>1. ASSUME NEW i \in 0..j + 1
          PROVE  g[i] = IF i = 0 THEN b ELSE G(i, g[i - 1])
      <4>1. CASE i = 0
        BY <4>1, <2>2, <2>3
      <4>2. CASE i = j + 1
        <5>1. g[i - 1] = f[j]
          BY <4>2, <2>3
        <5>. QED
          BY <4>2, <5>1, <2>3 DEF x
      <4>3. CASE i # 0 /\ i # j + 1
        <5>1. i \in 1..j /\ i - 1 \in 0..j
          BY <4>3
        <5>. HIDE DEF g
        <5>. QED
          BY <4>3, <5>1, <2>2, <2>3
      <4>. QED
        BY <4>1, <4>2, <4>3
    <3>. QED
      BY <3>1
  <2>. HIDE DEF g
  <2>. QED
    BY <2>4 DEF IsClimb
<1>. HIDE DEF Has
<1>3. 0 \in S /\ \A j \in Nat : j \in S => j + 1 \in S
  BY <1>1, <1>2
<1>4. Nat \subseteq S
  <2>. HIDE DEF S
  <2>. QED
    BY <1>3, CountUp
<1>. QED
  BY <1>4 DEF Has

\* An ascent makes these returns, from the last node of the descent to the first.
LEMMA AscentClimbs ==
  ASSUME NEW d, NEW k, NEW b, Len(d) \in Nat
  PROVE  \E f : /\ f[0] = b
                /\ \A i \in 1..Len(d) : f[i] = Lift(d[Len(d) - i + 1], k, f[i - 1])
                /\ Ascent(d, k, b) = f[Len(d)]
<1>. DEFINE N == Len(d)
            f == CHOOSE f : IsClimb(f, d, k, b, N)
<1>1. Ascent(d, k, b) = f[N]
  BY DEF Ascent, IsClimb, Lift
<1>2. IsClimb(f, d, k, b, N)
  <2>. HIDE DEF N
  <2>. QED
    BY ClimbExists DEF N
<1>. HIDE DEF f
<1>3. \A i \in 0..N : f[i] = IF i = 0 THEN b ELSE Lift(d[N - i + 1], k, f[i - 1])
  BY <1>2 DEF IsClimb
<1>. HIDE DEF N
<1>4. f[0] = b /\ \A i \in 1..N : f[i] = Lift(d[N - i + 1], k, f[i - 1])
  BY <1>3 DEF N
<1>. QED
  BY <1>1, <1>4 DEF N

\* The tree b replaces what the nodes of d reach below the last of them.
Grafted(h, A, d, k, b, Y) ==
    /\ d \in Seq(A) /\ A \subseteq Key
    /\ \A i \in 1..Len(d) : IsTree(h, d[i], Reach(A, d, k, i)) /\ Turn(k, d[i]) # 0
    /\ IsTree(b.heap, b.root, Y)
    /\ \A y \in Y, i \in 1..Len(d) : Aside(y, d[i], k)
    /\ \A e \in A \ Reach(A, d, k, Len(d) + 1) : e \in DOMAIN b.heap /\ b.heap[e] = h[e]

\* If the subtree at the end of a descent was replaced by one whose elements fit
\* there, the ascent gives a tree of these and of all the elements beside it.
LEMMA AscentRebuilds ==
  ASSUME NEW h, NEW A, NEW d, NEW k \in Sought, NEW b, NEW Y, Grafted(h, A, d, k, b, Y)
  PROVE  Rebuilt(b.heap, Ascent(d, k, b), (A \ Reach(A, d, k, Len(d) + 1)) \cup Y)
<1>. DEFINE N == Len(d)
            Z == Reach(A, d, k, N + 1)
            W(j) == (Reach(A, d, k, j) \ Z) \cup Y
<1>1. N \in Nat /\ d \in Seq(A) /\ A \subseteq Key
  BY DEF Grafted
<1>2. PICK f : /\ f[0] = b
               /\ \A i \in 1..N : f[i] = Lift(d[N - i + 1], k, f[i - 1])
               /\ Ascent(d, k, b) = f[N]
  BY <1>1, AscentClimbs
<1>. HIDE DEF N
<1>3. Rebuilt(b.heap, b, W(N + 1))
  <2>1. W(N + 1) = Y
    OBVIOUS
  <2>. QED
    BY <2>1 DEF Rebuilt, Grafted
<1>4. ASSUME NEW j \in 1..N, NEW u, Rebuilt(b.heap, u, W(j + 1))
      PROVE  Rebuilt(b.heap, Lift(d[j], k, u), W(j))
  <2>. DEFINE m == d[j]
              B == Reach(A, d, k, j)
              C == Reach(A, d, k, j + 1)
              X == W(j + 1)
  <2>1. IsTree(h, m, B) /\ Turn(k, m) # 0 /\ m \in Key /\ m # Nil
    BY <1>1, NilIsNoKey DEF Grafted, N
  <2>2. C = {e \in B : Aside(e, m, k)}
    BY <1>1, ReachNext
  <2>3. Z \subseteq C /\ C \subseteq B /\ B \subseteq A
    <3>1. j \in Nat /\ j + 1 \in Nat /\ N + 1 \in Nat /\ j <= j + 1 /\ j + 1 <= N + 1
      BY <1>1
    <3>. QED
      BY <3>1, ReachInside
  <2>4. \A y \in Y : Aside(y, m, k)
    BY DEF Grafted, N
  <2>5. \A x \in X : Aside(x, m, k)
    BY <2>2, <2>4
  <2>6. /\ IsTree(u.heap, u.root, X) /\ DOMAIN u.heap = DOMAIN b.heap
        /\ \A e \in DOMAIN b.heap \ X : u.heap[e] = b.heap[e]
    BY <1>4 DEF Rebuilt
  <2>7. \A e \in A \ Z : e \in DOMAIN b.heap /\ b.heap[e] = h[e]
    BY DEF Grafted, N
  <2>8. \A e \in B \ C : e \in DOMAIN u.heap /\ u.heap[e] = h[e]
    <3>1. \A e \in B \ C : e \in A \ Z /\ e \notin X
      BY <2>2, <2>3, <2>4
    <3>. QED
      BY <2>6, <2>7, <3>1
  <2>9. (B \ C) \cup X = W(j)
    BY <2>3
  <2>10. X \subseteq W(j)
    BY <2>3
  <2>. HIDE DEF m, B, C, X, Z, W
  <2>11. Rebuilt(u.heap, Lift(m, k, u), (B \ C) \cup X)
    BY <2>1, <2>2, <2>5, <2>6, <2>8, LiftTree
  <2>12. Rebuilt(u.heap, Lift(m, k, u), W(j))
    BY <2>9, <2>11
  <2>13. \A e \in DOMAIN b.heap \ W(j) : u.heap[e] = b.heap[e]
    BY <2>6, <2>10
  <2>14. Rebuilt(b.heap, Lift(m, k, u), W(j))
    BY <2>6, <2>12, <2>13, SamePlace
  <2>. QED
    BY <2>14 DEF m
<1>. HIDE DEF W, Z
<1>. DEFINE Good(i) == Rebuilt(b.heap, f[i], W(N - i + 1))
            S == {i \in Nat : i <= N => Good(i)}
<1>5. Good(0)
  BY <1>1, <1>2, <1>3
<1>6. ASSUME NEW i \in Nat, i + 1 <= N, Good(i)
      PROVE  Good(i + 1)
  <2>. DEFINE j == N - i
  <2>1. j \in 1..N /\ N - i + 1 = j + 1 /\ N - (i + 1) + 1 = j /\ i + 1 \in 1..N
        /\ (i + 1) - 1 = i
    BY <1>1, <1>6
  <2>2. f[i + 1] = Lift(d[j], k, f[i])
    BY <1>2, <2>1
  <2>3. Rebuilt(b.heap, f[i], W(j + 1))
    BY <1>6, <2>1
  <2>4. Rebuilt(b.heap, f[i + 1], W(j))
    BY <1>4, <2>1, <2>2, <2>3
  <2>. QED
    BY <2>1, <2>4
<1>. HIDE DEF Good
<1>7. 0 \in S /\ \A i \in Nat : i \in S => i + 1 \in S
  BY <1>1, <1>5, <1>6
<1>8. Nat \subseteq S
  <2>. HIDE DEF S
  <2>. QED
    BY <1>7, CountUp
<1>9. Good(N)
  BY <1>1, <1>8
<1>10. N - N + 1 = 1 /\ Reach(A, d, k, 1) = A
  BY <1>1, ReachFirst
<1>11. Rebuilt(b.heap, f[N], W(1)) /\ W(1) = (A \ Z) \cup Y
  BY <1>9, <1>10 DEF Good, W
<1>. QED
  BY <1>2, <1>11 DEF N, Z

-----------------------------------------------------------------------------
(* Insertion and removal                                                   *)

\* A descent from the root of a tree reaches all of it and nothing below its end.
LEMMA DescentParts ==
  ASSUME NEW h, NEW n, NEW A, IsTree(h, n, A), IsFiniteSet(DOMAIN h), NEW k \in Sought,
         NEW d, d = Descent(h, n, k)
  PROVE  /\ d \in Seq(A) /\ A \subseteq Key /\ Len(d) \in Nat
         /\ \A i \in 1..Len(d) : IsTree(h, d[i], Reach(A, d, k, i))
         /\ \A i \in 1..Len(d) : d[i] \in A /\ d[i] \in Key /\ d[i] # Nil
         /\ \A i \in 1..Len(d) - 1 : d[i + 1] = Below(h, d[i], k)
         /\ d # <<>> => Below(h, d[Len(d)], k) = Nil /\ d[1] = n
         /\ d = <<>> => n = Nil
         /\ Reach(A, d, k, Len(d) + 1) = {}
<1>1. Follows(h, n, A, k, d) /\ Onward(h, n, k, d) = Nil
  BY DescentEnds
<1>2. d \in Seq(A) /\ A \subseteq Key /\ Len(d) \in Nat /\ Nil \notin Key
  BY <1>1, TreeKeys, NilIsNoKey DEF Follows
<1>3. \A i \in 1..Len(d) : d[i] \in A /\ d[i] \in Key /\ d[i] # Nil
  BY <1>2
<1>4. Reach(A, d, k, Len(d) + 1) = {}
  BY <1>1, TreeKeys DEF Follows
<1>5. /\ d # <<>> => Below(h, d[Len(d)], k) = Nil
      /\ d = <<>> => n = Nil
  BY <1>1 DEF Onward
<1>. QED
  BY <1>1, <1>2, <1>3, <1>4, <1>5 DEF Follows

\* malloc() of a node leaves the trees as they are, and the node is a tree.
LEMMA AllocTree ==
  ASSUME NEW h, Heap(h), NEW k \in Key, k \notin DOMAIN h, NEW g, g = Alloc(h, k)
  PROVE  /\ IsTree(g, k, {k}) /\ DOMAIN g = DOMAIN h \cup {k}
         /\ \A e \in DOMAIN h : g[e] = h[e]
<1>1. /\ DOMAIN g = DOMAIN h \cup {k} /\ g[k] = NewNode
      /\ \A e \in DOMAIN h : g[e] = h[e]
  BY DEF Alloc
<1>2. NewNode \in Node /\ NewNode.l = Nil /\ NewNode.r = Nil /\ NewNode.height = 1
  BY DEF NewNode, Node
<1>3. \A e \in DOMAIN g : g[e] \in Node
  BY <1>1, <1>2 DEF Heap
<1>4. g = [e \in DOMAIN g |-> g[e]]
  BY DEF Alloc
<1>5. Heap(g)
  BY <1>1, <1>3, <1>4 DEF Heap
<1>6. IsTree(g, Nil, {})
  BY <1>5, NoTree
<1>7. RightHeight(g, k)
  BY <1>1, <1>2 DEF RightHeight, Height, Higher
<1>8. IsTree(g, k, {} \cup {k} \cup {})
  BY <1>1, <1>2, <1>6, <1>7, NodeTree
<1>9. {} \cup {k} \cup {} = {k}
  OBVIOUS
<1>. QED
  BY <1>1, <1>8, <1>9

\* avl_insert_rec() adds a node.
LEMMA InsertTree ==
  ASSUME NEW h, NEW n, IsTree(h, n, DOMAIN h), IsFiniteSet(DOMAIN h),
         NEW k \in Key, k \notin DOMAIN h, NEW t, t = avl_insert_rec(h, n, k)
  PROVE  DOMAIN t.heap = DOMAIN h \cup {k} /\ IsTree(t.heap, t.root, DOMAIN h \cup {k})
<1>. DEFINE A == DOMAIN h
            d == Descent(h, n, k)
            g == Alloc(h, k)
            b == [heap |-> g, root |-> k]
<1>0. k \in Sought /\ d = Descent(h, n, k) /\ g = Alloc(h, k) /\ b.heap = g /\ b.root = k
  BY DEF Sought
<1>1. t = Ascent(d, k, b)
  BY DEF avl_insert_rec
<1>. HIDE DEF d, g, b
<1>2. /\ d \in Seq(A) /\ A \subseteq Key
      /\ \A i \in 1..Len(d) : IsTree(h, d[i], Reach(A, d, k, i))
      /\ \A i \in 1..Len(d) : d[i] \in A /\ d[i] \in Key
      /\ Reach(A, d, k, Len(d) + 1) = {}
  BY <1>0, DescentParts
<1>3. \A i \in 1..Len(d) : Turn(k, d[i]) # 0 /\ Aside(k, d[i], k)
  BY <1>2, TurnAtKey
<1>4. /\ IsTree(g, k, {k}) /\ DOMAIN g = A \cup {k}
      /\ \A e \in A : g[e] = h[e]
  BY <1>0, AllocTree, TreeKeys
<1>5. Grafted(h, A, d, k, b, {k})
  BY <1>0, <1>2, <1>3, <1>4 DEF Grafted
<1>6. Rebuilt(b.heap, t, (A \ Reach(A, d, k, Len(d) + 1)) \cup {k})
  <2>1. k \in Sought
    BY <1>0
  <2>2. Rebuilt(b.heap, Ascent(d, k, b), (A \ Reach(A, d, k, Len(d) + 1)) \cup {k})
    BY <1>5, <2>1, AscentRebuilds
  <2>. QED
    BY <1>1, <2>2
<1>7. (A \ Reach(A, d, k, Len(d) + 1)) \cup {k} = A \cup {k}
  BY <1>2
<1>. QED
  BY <1>0, <1>4, <1>6, <1>7 DEF Rebuilt

\* avl_movr() joins the tree R to the right of the tree L.
LEMMA MoveTree ==
  ASSUME NEW h, NEW n, NEW L, IsTree(h, n, L), NEW r, NEW R, IsTree(h, r, R),
         IsFiniteSet(DOMAIN h), \A x \in L, y \in R : cmp(y, x) > 0
  PROVE  Rebuilt(h, avl_movr(h, n, r), L \cup R)
<1>. DEFINE k == Highest
            d == Descent(h, n, k)
            b == [heap |-> h, root |-> r]
<1>0. k \in Sought /\ d = Descent(h, n, k) /\ b.heap = h /\ b.root = r
  BY DEF Sought
<1>1. avl_movr(h, n, r) = Ascent(d, k, b)
  BY DEF avl_movr
<1>2. \A m : Turn(k, m) = 1
  BY NilIsNoKey DEF Turn
<1>. HIDE DEF d, b, k
<1>3. /\ d \in Seq(L) /\ L \subseteq Key /\ L \subseteq DOMAIN h
      /\ \A i \in 1..Len(d) : IsTree(h, d[i], Reach(L, d, k, i))
      /\ \A i \in 1..Len(d) : d[i] \in L
      /\ Reach(L, d, k, Len(d) + 1) = {}
  BY <1>0, DescentParts, TreeKeys
<1>4. \A y \in R, i \in 1..Len(d) : Aside(y, d[i], k)
  BY <1>2, <1>3 DEF Aside
<1>5. Grafted(h, L, d, k, b, R)
  BY <1>0, <1>2, <1>3, <1>4 DEF Grafted
<1>6. Rebuilt(h, avl_movr(h, n, r), (L \ Reach(L, d, k, Len(d) + 1)) \cup R)
  <2>1. k \in Sought
    BY <1>0
  <2>2. Rebuilt(b.heap, Ascent(d, k, b), (L \ Reach(L, d, k, Len(d) + 1)) \cup R)
    BY <1>5, <2>1, AscentRebuilds
  <2>. QED
    BY <1>0, <1>1, <2>2
<1>7. (L \ Reach(L, d, k, Len(d) + 1)) \cup R = L \cup R
  BY <1>3
<1>. QED
  BY <1>6, <1>7

\* avl_remove_rec() takes one node away.
LEMMA RemoveTree ==
  ASSUME NEW h, NEW n, IsTree(h, n, DOMAIN h), IsFiniteSet(DOMAIN h),
         NEW k \in DOMAIN h, NEW t, t = avl_remove_rec(h, n, k)
  PROVE  DOMAIN t.heap = DOMAIN h \ {k} /\ IsTree(t.heap, t.root, DOMAIN h \ {k})
<1>. DEFINE A == DOMAIN h
            d == Descent(h, n, k)
            c == SubSeq(d, 1, Len(d) - 1)
            D == Len(d)
            u == avl_movr(h, h[k].l, h[k].r)
            g == Free(u.heap, k)
            b == [heap |-> g, root |-> u.root]
            Z == Reach(A, d, k, D)
            L == Lower(Z, k)
            R == Upper(Z, k)
<1>1. k \in Key /\ k \in Sought /\ Nil \notin Key
  BY TreeKeys, NilIsNoKey DEF Sought
<1>2. t = Ascent(c, k, b) /\ b.heap = g /\ b.root = u.root
  BY DEF avl_remove_rec
<1>3. /\ d \in Seq(A) /\ A \subseteq Key /\ D \in Nat
      /\ \A i \in 1..D : IsTree(h, d[i], Reach(A, d, k, i))
  BY <1>1, DescentParts
<1>4. d # <<>> /\ d[D] = k /\ \A j \in 1..D - 1 : d[j] # k
  BY <1>1, SearchFinds
<1>. HIDE DEF d, D, u, g, b, c
<1>5. D >= 1
  BY <1>3, <1>4 DEF D
<1>6. c \in Seq(A) /\ Len(c) = D - 1 /\ \A i \in 1..D - 1 : c[i] = d[i]
  <2>1. c = SubSeq(d, 1, D - 1) /\ D - 1 \in 0..Len(d)
    BY <1>3, <1>5 DEF c, D
  <2>2. /\ c \in Seq(A)
        /\ Len(c) = IF 1 <= D - 1 THEN (D - 1) - 1 + 1 ELSE 0
        /\ \A i \in 1..(D - 1) - 1 + 1 : c[i] = d[1 + i - 1]
    BY <1>3, <1>5, <2>1, SubSeqProperties
  <2>. QED
    BY <1>3, <1>5, <2>2
<1>7. \A i \in 1..D : Reach(A, c, k, i) = Reach(A, d, k, i)
  <2>. SUFFICES ASSUME NEW i \in 1..D PROVE Reach(A, c, k, i) = Reach(A, d, k, i)
    OBVIOUS
  <2>1. i \in Nat /\ \A j \in 1..i - 1 : c[j] = d[j]
    BY <1>3, <1>6
  <2>. QED
    BY <2>1, ReachPrefix
<1>8. IsTree(h, k, Z) /\ k \in Z /\ Z \subseteq A
  <2>1. IsTree(h, k, Z)
    BY <1>3, <1>4, <1>5
  <2>. QED
    BY <1>1, <2>1, TreeKeys DEF Reach
<1>9. IsTree(h, h[k].l, L) /\ IsTree(h, h[k].r, R) /\ Z = L \cup {k} \cup R
  BY <1>1, <1>8, NodeParts
<1>10. k \notin L /\ k \notin R
  BY <1>1, Order DEF Lower, Upper
<1>11. Rebuilt(h, u, L \cup R)
  <2>1. ASSUME NEW x \in L, NEW y \in R PROVE cmp(y, x) > 0
    <3>1. x \in Key /\ y \in Key /\ cmp(x, k) < 0 /\ cmp(k, y) < 0
      BY <1>1, <1>3, <1>8, Order DEF Lower, Upper
    <3>2. cmp(x, y) < 0
      BY <1>1, <3>1, OrderTransitive
    <3>. QED
      BY <3>1, <3>2, Order
  <2>. HIDE DEF L, R
  <2>2. \A x \in L, y \in R : cmp(y, x) > 0
    BY <2>1
  <2>. QED
    BY <1>9, <2>2, MoveTree DEF u
<1>. HIDE DEF L, R, Z
<1>12. /\ IsTree(u.heap, u.root, L \cup R) /\ DOMAIN u.heap = A
       /\ \A e \in A \ (L \cup R) : u.heap[e] = h[e]
  BY <1>11 DEF Rebuilt
<1>13. /\ DOMAIN g = A \ {k} /\ (\A e \in A \ {k} : g[e] = u.heap[e])
       /\ g = [e \in DOMAIN g |-> g[e]]
  BY <1>12 DEF Free, g
<1>14. Heap(g)
  <2>1. Heap(u.heap)
    BY <1>12, TreeKeys
  <2>2. \A e \in DOMAIN g : g[e] \in Node
    BY <1>12, <1>13, <2>1 DEF Heap
  <2>. QED
    BY <1>3, <1>13, <2>2 DEF Heap
<1>15. IsTree(g, u.root, L \cup R)
  <2>1. L \cup R \subseteq DOMAIN g /\ \A e \in L \cup R : g[e] = u.heap[e]
    BY <1>8, <1>9, <1>10, <1>13
  <2>. QED
    BY <1>12, <1>14, <2>1, Frame
<1>16. Reach(A, c, k, Len(c) + 1) = Z
  <2>1. Len(c) + 1 = D /\ D \in 1..D
    BY <1>3, <1>5, <1>6
  <2>. QED
    BY <1>7, <2>1 DEF Z
<1>17. \A i \in 1..Len(c) : IsTree(h, c[i], Reach(A, c, k, i)) /\ Turn(k, c[i]) # 0
  <2>. SUFFICES ASSUME NEW i \in 1..D - 1
       PROVE  IsTree(h, c[i], Reach(A, c, k, i)) /\ Turn(k, c[i]) # 0
    BY <1>6
  <2>1. i \in 1..D /\ c[i] = d[i] /\ d[i] # k /\ c[i] \in Key
    BY <1>3, <1>4, <1>6
  <2>. QED
    BY <1>1, <1>3, <1>7, <2>1, TurnAtKey
<1>18. \A y \in L \cup R, i \in 1..Len(c) : Aside(y, c[i], k)
  <2>1. \A y \in Z, i \in 1..Len(c) : Aside(y, c[i], k)
    <3>1. (Len(c) + 1) - 1 = Len(c)
      BY <1>3, <1>6
    <3>. QED
      BY <1>16, <3>1 DEF Reach
  <2>. QED
    BY <1>9, <2>1
<1>19. \A e \in A \ Z : e \in DOMAIN g /\ g[e] = h[e]
  BY <1>8, <1>9, <1>12, <1>13
<1>20. Grafted(h, A, c, k, b, L \cup R)
  BY <1>2, <1>3, <1>6, <1>15, <1>16, <1>17, <1>18, <1>19 DEF Grafted
<1>21. Rebuilt(g, t, (A \ Z) \cup (L \cup R))
  <2>1. Rebuilt(b.heap, Ascent(c, k, b), (A \ Reach(A, c, k, Len(c) + 1)) \cup (L \cup R))
    BY <1>1, <1>20, AscentRebuilds
  <2>. QED
    BY <1>2, <1>16, <2>1
<1>22. (A \ Z) \cup (L \cup R) = A \ {k}
  BY <1>8, <1>9, <1>10
<1>. QED
  BY <1>13, <1>21, <1>22 DEF Rebuilt

-----------------------------------------------------------------------------
(* The stack of an iterator                                                *)

Top(st) == st[Len(st)]

\* The elements before the top of the stack that come after p.
Gap(h, st, p) ==
    {e \in DOMAIN h : (st # <<>> => cmp(e, Top(st)) < 0) /\ (p # Nil => cmp(e, p) > 0)}

\* The elements from the top of the stack on, and those after p.
FromTop(h, st) == {e \in DOMAIN h : st # <<>> /\ cmp(e, Top(st)) >= 0}
Past(h, p) == {e \in DOMAIN h : p # Nil => cmp(e, p) > 0}

\* The elements between the i-th node of the stack and the one under it.
Ahead(h, st, i) ==
    {e \in DOMAIN h : cmp(e, st[i]) > 0 /\ (i > 1 => cmp(e, st[i - 1]) < 0)}

\* What is to the left of the node x comes just before it.
Adjacent(h, x, X) ==
    \A e \in DOMAIN h : /\ e \in X => cmp(e, x) < 0
                        /\ cmp(e, x) < 0 => e \in X \/ \A y \in X : cmp(e, y) < 0
LeftKnown(h, x) == \E X : IsTree(h, h[x].l, X) /\ Adjacent(h, x, X)

\* The nodes of the stack descend, and what lies between them is to their right.
Base(h, st) ==
    /\ st \in Seq(DOMAIN h)
    /\ \A i \in 1..Len(st) - 1 : cmp(st[i + 1], st[i]) < 0
    /\ \A i \in 1..Len(st) : IsTree(h, h[st[i]].r, Ahead(h, st, i)) /\ LeftKnown(h, st[i])

Low(h, st, p) == p \in DOMAIN h \cup {Nil} /\ (p # Nil /\ st # <<>> => cmp(p, Top(st)) < 0)

\* p is the element before x.
IsPred(h, x, p) ==
    \/ p = Nil /\ \A e \in DOMAIN h : ~(cmp(e, x) < 0)
    \/ /\ p \in DOMAIN h /\ cmp(p, x) < 0
       /\ \A e \in DOMAIN h : cmp(e, x) < 0 => cmp(e, p) <= 0

\* All the nodes of the stack have something to their left.
Deep(h, st) == \A i \in 1..Len(st) : h[st[i]].l # Nil

\* Nothing is missing between p and the top of the stack.
Full(h, st, p) == /\ Base(h, st) /\ Low(h, st, p) /\ Gap(h, st, p) = {}
                  /\ \A i \in 1..Len(st) - 1 : h[st[i]].l # Nil

\* Only the top of the stack may have nothing to its left; p is before it then.
Stacked(h, st, p) ==
    /\ Base(h, st)
    /\ \A i \in 1..Len(st) - 1 : h[st[i]].l # Nil
    /\ st # <<>> => h[Top(st)].l # Nil \/ IsPred(h, Top(st), p)

\* All but the last of a sequence.
LEMMA ButLast ==
  ASSUME NEW S, NEW s \in Seq(S), s # <<>>, NEW c, c = SubSeq(s, 1, Len(s) - 1)
  PROVE  /\ c \in Seq(S) /\ Len(s) \in Nat /\ Len(s) >= 1 /\ Len(c) = Len(s) - 1
         /\ \A i \in 1..Len(s) - 1 : c[i] = s[i]
         /\ s[Len(s)] \in S
<1>. DEFINE D == Len(s)
<1>1. D \in Nat /\ D >= 1 /\ (\A i \in 1..D : s[i] \in S) /\ c = SubSeq(s, 1, D - 1)
  OBVIOUS
<1>. HIDE DEF D
<1>. DEFINE E == D - 1
<1>2. E \in Int /\ 1 \in Int /\ \A i \in 1..E : s[i] \in S
  BY <1>1
<1>3. /\ c \in Seq(S)
      /\ Len(c) = IF 1 <= E THEN E - 1 + 1 ELSE 0
      /\ \A i \in 1..E - 1 + 1 : c[i] = s[1 + i - 1]
  <2>1. c = SubSeq(s, 1, E)
    BY <1>1
  <2>. HIDE DEF E
  <2>. QED
    BY <1>2, <2>1, SubSeqProperties
<1>4. s[D] \in S
  BY <1>1
<1>5. Len(c) = D - 1
  BY <1>1, <1>3
<1>6. ASSUME NEW i \in 1..D - 1 PROVE c[i] = s[i]
  <2>1. i \in 1..E - 1 + 1 /\ 1 + i - 1 = i
    BY <1>1
  <2>. HIDE DEF E
  <2>. QED
    BY <1>3, <2>1
<1>. QED
  BY <1>1, <1>3, <1>4, <1>5, <1>6 DEF D

\* The root n of what is in the gap: it goes on the stack, or becomes the last
\* node where the way turned right.
LEMMA StackNode ==
  ASSUME NEW h, Heap(h), NEW st, NEW p, Base(h, st), Low(h, st, p), NEW n, n # Nil,
         IsTree(h, n, Gap(h, st, p)), NEW v, v = Append(st, n)
  PROVE  /\ Base(h, v) /\ Low(h, v, p) /\ IsTree(h, h[n].l, Gap(h, v, p))
         /\ Low(h, st, n) /\ IsTree(h, h[n].r, Gap(h, st, n))
<1>. DEFINE D == DOMAIN h
            B == Gap(h, st, p)
            N == Len(st)
            L == Lower(B, n)
            R == Upper(B, n)
<1>1. D \subseteq Key /\ st \in Seq(D) /\ N \in Nat /\ p \in D \cup {Nil} /\ Nil \notin Key
  BY NilIsNoKey DEF Heap, Base, Low
<1>2. n \in D /\ n \in Key /\ n \in B
  BY <1>1, TreeKeys
<1>3. /\ st # <<>> => Top(st) \in D /\ Top(st) \in Key /\ cmp(n, Top(st)) < 0 /\ N >= 1
      /\ p # Nil => p \in Key /\ cmp(n, p) > 0 /\ cmp(p, n) < 0
  <2>1. p # Nil => p \in Key /\ cmp(n, p) > 0
    BY <1>1, <1>2 DEF Gap
  <2>2. st # <<>> => Top(st) \in D /\ cmp(n, Top(st)) < 0 /\ N >= 1
    BY <1>1, <1>2 DEF Gap, Top
  <2>. QED
    BY <1>1, <1>2, <2>1, <2>2, Order
<1>4. IsTree(h, h[n].l, L) /\ IsTree(h, h[n].r, R)
  BY NodeParts
<1>5. /\ v \in Seq(D) /\ Len(v) = N + 1 /\ v[N + 1] = n /\ (\A i \in 1..N : v[i] = st[i])
      /\ v # <<>> /\ Top(v) = n
  BY <1>1, <1>2 DEF Top
<1>6. L = Gap(h, v, p)
  <2>1. ASSUME NEW e \in D, cmp(e, n) < 0, st # <<>> PROVE cmp(e, Top(st)) < 0
    BY <1>1, <1>2, <1>3, <2>1, OrderTransitive
  <2>. HIDE DEF D
  <2>2. ASSUME NEW e PROVE e \in L <=> e \in Gap(h, v, p)
    BY <1>5, <2>1 DEF Lower, Gap, D
  <2>. QED
    BY <2>2
<1>7. R = Gap(h, st, n)
  <2>1. ASSUME NEW e \in D, cmp(e, n) > 0, p # Nil PROVE cmp(e, p) > 0
    <3>1. e \in Key /\ cmp(n, e) < 0
      BY <1>1, <1>2, <2>1, Order
    <3>2. cmp(p, e) < 0
      BY <1>2, <1>3, <2>1, <3>1, OrderTransitive
    <3>. QED
      BY <1>3, <2>1, <3>1, <3>2, Order
  <2>2. n # Nil
    BY <1>1, <1>2
  <2>. HIDE DEF D
  <2>3. ASSUME NEW e PROVE e \in R <=> e \in Gap(h, st, n)
    BY <2>1, <2>2 DEF Upper, Gap, D
  <2>. QED
    BY <2>3
<1>8. R = Ahead(h, v, N + 1)
  <2>1. CASE st = <<>>
    <3>1. N = 0
      BY <2>1
    <3>. QED
      BY <1>5, <1>7, <2>1, <3>1, <1>2, <1>1 DEF Ahead, Gap
  <2>2. CASE st # <<>>
    <3>1. N + 1 > 1 /\ (N + 1) - 1 = N /\ v[N] = Top(st)
      BY <1>1, <1>3, <1>5, <2>2 DEF Top
    <3>. HIDE DEF N
    <3>. QED
      BY <1>5, <1>7, <2>2, <3>1, <1>2, <1>1 DEF Ahead, Gap
  <2>. QED
    BY <2>1, <2>2
<1>9. \A i \in 1..N : Ahead(h, v, i) = Ahead(h, st, i)
  <2>. SUFFICES ASSUME NEW i \in 1..N PROVE Ahead(h, v, i) = Ahead(h, st, i)
    OBVIOUS
  <2>1. v[i] = st[i] /\ (i > 1 => v[i - 1] = st[i - 1])
    BY <1>1, <1>5
  <2>. QED
    BY <2>1 DEF Ahead
<1>10. LeftKnown(h, n)
  <2>1. ASSUME NEW e \in D, cmp(e, n) < 0, e \notin L, NEW y \in L
        PROVE  cmp(e, y) < 0
    <3>1. /\ e \in Key /\ y \in D /\ y \in Key
          /\ p # Nil => cmp(y, p) > 0
      BY <1>1, <1>6, <2>1 DEF Gap
    <3>2. p # Nil /\ ~(cmp(e, p) > 0)
      BY <1>5, <1>6, <2>1 DEF Gap
    <3>3. p \in Key /\ cmp(p, y) < 0
      BY <1>3, <3>1, <3>2, Order
    <3>4. e = p \/ cmp(e, p) < 0
      BY <3>1, <3>2, <3>3, Order
    <3>. QED
      BY <3>1, <3>3, <3>4, OrderTransitive
  <2>2. \A e \in L : cmp(e, n) < 0
    BY DEF Lower
  <2>. HIDE DEF L
  <2>3. Adjacent(h, n, L)
    BY <2>1, <2>2 DEF Adjacent
  <2>. QED
    BY <1>4, <2>3 DEF LeftKnown
<1>. HIDE DEF N, L, R, B
<1>11. \A i \in 1..Len(v) - 1 : cmp(v[i + 1], v[i]) < 0
  <2>. SUFFICES ASSUME NEW i \in 1..N PROVE cmp(v[i + 1], v[i]) < 0
    BY <1>1, <1>5
  <2>1. CASE i = N
    <3>1. st # <<>>
      BY <1>1, <2>1 DEF N
    <3>. QED
      BY <1>3, <1>5, <2>1, <3>1 DEF Top, N
  <2>2. CASE i # N
    <3>1. i \in 1..N - 1 /\ i + 1 \in 1..N
      BY <1>1, <2>2
    <3>2. cmp(st[i + 1], st[i]) < 0
      BY <3>1 DEF Base, N
    <3>. QED
      BY <1>5, <3>1, <3>2
  <2>. QED
    BY <2>1, <2>2
<1>12. \A i \in 1..Len(v) : IsTree(h, h[v[i]].r, Ahead(h, v, i)) /\ LeftKnown(h, v[i])
  <2>. SUFFICES ASSUME NEW i \in 1..N + 1
       PROVE  IsTree(h, h[v[i]].r, Ahead(h, v, i)) /\ LeftKnown(h, v[i])
    BY <1>5
  <2>1. CASE i = N + 1
    BY <1>4, <1>5, <1>8, <1>10, <2>1
  <2>2. CASE i # N + 1
    <3>1. i \in 1..N
      BY <1>1, <2>2
    <3>2. IsTree(h, h[st[i]].r, Ahead(h, st, i)) /\ LeftKnown(h, st[i])
      BY <3>1 DEF Base, N
    <3>. QED
      BY <1>5, <1>9, <3>1, <3>2
  <2>. QED
    BY <2>1, <2>2
<1>13. Base(h, v)
  BY <1>5, <1>11, <1>12 DEF Base
<1>14. Low(h, v, p) /\ Low(h, st, n)
  BY <1>1, <1>2, <1>3, <1>5 DEF Low
<1>. QED
  BY <1>4, <1>6, <1>7, <1>13, <1>14

\* A stack that nothing is missing from: what comes after p is what comes from its
\* top on, and p is the element before the top.
LEMMA NoGap ==
  ASSUME NEW h, Heap(h), NEW st, NEW p, Base(h, st), Low(h, st, p), Gap(h, st, p) = {}
  PROVE  /\ FromTop(h, st) = Past(h, p)
         /\ st # <<>> => IsPred(h, Top(st), p)
<1>1. /\ DOMAIN h \subseteq Key /\ st \in Seq(DOMAIN h) /\ p \in DOMAIN h \cup {Nil} /\ Nil \notin Key
      /\ st # <<>> => Top(st) \in Key
  <2>1. DOMAIN h \subseteq Key /\ st \in Seq(DOMAIN h) /\ p \in DOMAIN h \cup {Nil} /\ Nil \notin Key
    BY NilIsNoKey DEF Heap, Base, Low
  <2>. QED
    BY <2>1 DEF Top
<1>2. \A e \in DOMAIN h : (st # <<>> /\ ~(cmp(e, Top(st)) < 0)) \/ (p # Nil /\ ~(cmp(e, p) > 0))
  BY DEF Gap
<1>3. ASSUME NEW e \in DOMAIN h
      PROVE  st # <<>> /\ cmp(e, Top(st)) >= 0 <=> (p # Nil => cmp(e, p) > 0)
  <2>1. /\ e \in Key /\ (st # <<>> => cmp(e, Top(st)) \in Int)
        /\ p # Nil => p \in Key /\ cmp(e, p) \in Int
    BY <1>1, Order
  <2>2. ASSUME st # <<>>, cmp(e, Top(st)) >= 0, p # Nil PROVE cmp(e, p) > 0
    <3>1. cmp(p, Top(st)) < 0 /\ p \in Key /\ Top(st) \in Key
      BY <1>1, <2>1, <2>2 DEF Low
    <3>2. e = Top(st) \/ cmp(Top(st), e) < 0
      BY <2>1, <2>2, <3>1, Order
    <3>3. cmp(p, e) < 0
      BY <2>1, <3>1, <3>2, OrderTransitive
    <3>. QED
      BY <2>1, <3>1, <3>3, Order
  <2>3. ASSUME p # Nil => cmp(e, p) > 0 PROVE st # <<>> /\ cmp(e, Top(st)) >= 0
    BY <1>2, <2>1, <2>3
  <2>. QED
    BY <2>2, <2>3
<1>4. ASSUME st # <<>> PROVE IsPred(h, Top(st), p)
  <2>1. CASE p = Nil
    BY <1>2, <2>1 DEF IsPred
  <2>2. CASE p # Nil
    <3>1. p \in DOMAIN h /\ p \in Key /\ cmp(p, Top(st)) < 0
      BY <1>1, <1>4, <2>2 DEF Low
    <3>2. \A e \in DOMAIN h : cmp(e, Top(st)) < 0 => ~(cmp(e, p) > 0) /\ cmp(e, p) \in Int
      BY <1>1, <1>2, <3>1, Order
    <3>3. \A e \in DOMAIN h : cmp(e, Top(st)) < 0 => cmp(e, p) <= 0
      BY <3>2
    <3>. QED
      BY <3>1, <3>3 DEF IsPred
  <2>. QED
    BY <2>1, <2>2
<1>5. FromTop(h, st) = Past(h, p)
  BY <1>3 DEF FromTop, Past
<1>. QED
  BY <1>4, <1>5

\* The beginnings of a sequence.
LEMMA Beginning ==
  ASSUME NEW S, NEW v \in Seq(S), NEW m \in 0..Len(v), NEW c, c = SubSeq(v, 1, m)
  PROVE  c \in Seq(S) /\ Len(c) = m /\ \A i \in 1..m : c[i] = v[i]
<1>1. m \in Int /\ 1 \in Int /\ \A i \in 1..m : v[i] \in S
  OBVIOUS
<1>2. /\ c \in Seq(S)
      /\ Len(c) = IF 1 <= m THEN m - 1 + 1 ELSE 0
      /\ \A i \in 1..m - 1 + 1 : c[i] = v[1 + i - 1]
  BY <1>1, SubSeqProperties
<1>3. ASSUME NEW i \in 1..m PROVE c[i] = v[i]
  <2>1. i \in 1..m - 1 + 1 /\ 1 + i - 1 = i
    OBVIOUS
  <2>. QED
    BY <1>2, <2>1
<1>4. Len(c) = m
  BY <1>2
<1>. QED
  BY <1>2, <1>3, <1>4

\* One more element of a sequence.
LEMMA BeginningGrows ==
  ASSUME NEW S, NEW v \in Seq(S), NEW m \in 0..Len(v) - 1
  PROVE  SubSeq(v, 1, m + 1) = Append(SubSeq(v, 1, m), v[m + 1])
<1>. DEFINE c == SubSeq(v, 1, m)
            e == SubSeq(v, 1, m + 1)
            x == v[m + 1]
            a == Append(c, x)
<1>1. m \in 0..Len(v) /\ m + 1 \in 0..Len(v) /\ x \in S /\ m \in Nat
  OBVIOUS
<1>2. c \in Seq(S) /\ Len(c) = m /\ \A i \in 1..m : c[i] = v[i]
  BY <1>1, Beginning
<1>3. e \in Seq(S) /\ Len(e) = m + 1 /\ \A i \in 1..m + 1 : e[i] = v[i]
  BY <1>1, Beginning
<1>. HIDE DEF c, e
<1>4. a \in Seq(S) /\ Len(a) = m + 1 /\ a[m + 1] = x /\ \A i \in 1..m : a[i] = c[i]
  BY <1>1, <1>2
<1>. HIDE DEF a
<1>5. \A i \in 1..m + 1 : e[i] = a[i]
  <2>. SUFFICES ASSUME NEW i \in 1..m + 1 PROVE e[i] = a[i]
    OBVIOUS
  <2>1. i = m + 1 \/ i \in 1..m
    BY <1>1
  <2>. QED
    BY <1>2, <1>3, <1>4, <2>1
<1>6. e = a
  BY <1>3, <1>4, <1>5, SeqEqual
<1>. QED
  BY <1>6 DEF a, c, e

\* A stack with room for the tree n, which comes after p.
Room(h, st, p, n) ==
    /\ Heap(h) /\ IsFiniteSet(DOMAIN h)
    /\ Base(h, st) /\ Low(h, st, p) /\ Deep(h, st) /\ IsTree(h, n, Gap(h, st, p))

Pushed(h, st, n) == st \o Descent(h, n, Lowest)

\* Pushing a node and its left descendants leaves no gap.
LEMMA PushTree ==
  ASSUME NEW h, NEW st, NEW p, NEW n, Room(h, st, p, n),
         NEW v, v = Pushed(h, st, n)
  PROVE  Full(h, v, p) /\ (n = Nil => v = st)
<1>. USE DEF Room, Pushed
<1>. DEFINE k == Lowest
            d == Descent(h, n, k)
            A == Gap(h, st, p)
            D == DOMAIN h
            N == Len(d)
            a == Len(st)
            X(i) == IF i < N THEN d[i + 1] ELSE Nil
            Pre(i) == SubSeq(v, 1, a + i)
            Good(i) == Base(h, Pre(i)) /\ Low(h, Pre(i), p) /\ IsTree(h, X(i), Gap(h, Pre(i), p))
<1>0. \A m : Below(h, m, k) = h[m].l
  BY DEF Below, Turn
<1>1. k \in Sought /\ d = Descent(h, n, k) /\ A \subseteq D
  BY DEF Sought, Gap
<1>. HIDE DEF k, d
<1>2. /\ d \in Seq(A) /\ N \in Nat
      /\ \A i \in 1..N : d[i] \in A /\ d[i] # Nil
      /\ \A i \in 1..N - 1 : d[i + 1] = h[d[i]].l
      /\ d # <<>> => h[d[N]].l = Nil /\ d[1] = n
      /\ d = <<>> => n = Nil
  BY <1>0, <1>1, DescentParts
<1>3. st \in Seq(D) /\ a \in Nat
  BY DEF Base
<1>4. d \in Seq(D)
  BY <1>1, <1>2
<1>5. v = st \o d
  BY DEF d, k
<1>. HIDE DEF D, A
<1>6. v \in Seq(D) /\ Len(v) = a + N
  BY <1>3, <1>4, <1>5
<1>7. (\A i \in 1..a : v[i] = st[i]) /\ \A i \in 1..N : v[a + i] = d[i]
  BY <1>3, <1>4, <1>5
<1>. HIDE DEF N, a
<1>8. Pre(0) = st
  <2>1. a + 0 = a /\ a \in 0..Len(v)
    BY <1>2, <1>3, <1>6
  <2>2. SubSeq(v, 1, a) \in Seq(D) /\ Len(SubSeq(v, 1, a)) = a /\ \A i \in 1..a : SubSeq(v, 1, a)[i] = v[i]
    BY <1>6, <2>1, Beginning
  <2>3. SubSeq(v, 1, a) = st
    BY <1>3, <1>7, <2>2, SeqEqual DEF a
  <2>. QED
    BY <2>1, <2>3
<1>9. Good(0)
  <2>1. X(0) = n
    <3>1. CASE d = <<>>
      BY <1>2, <3>1 DEF N
    <3>2. CASE d # <<>>
      <4>1. N > 0
        BY <1>2, <3>2 DEF N
      <4>. QED
        BY <1>2, <3>2, <4>1
    <3>. QED
      BY <3>1, <3>2
  <2>. HIDE DEF Pre, X
  <2>. QED
    BY <1>8, <2>1
<1>10. ASSUME NEW i \in Nat, i + 1 <= N, Good(i)
       PROVE  Good(i + 1)
  <2>1. X(i) = d[i + 1] /\ i + 1 \in 1..N /\ d[i + 1] # Nil
    BY <1>2, <1>10
  <2>2. Pre(i + 1) = Append(Pre(i), d[i + 1])
    <3>1. a + i \in 0..Len(v) - 1 /\ a + (i + 1) = (a + i) + 1
      BY <1>2, <1>3, <1>6, <1>10
    <3>2. SubSeq(v, 1, (a + i) + 1) = Append(SubSeq(v, 1, a + i), v[(a + i) + 1])
      BY <1>6, <3>1, BeginningGrows
    <3>3. v[(a + i) + 1] = d[i + 1]
      BY <1>7, <2>1, <3>1
    <3>. QED
      BY <3>1, <3>2, <3>3
  <2>3. X(i + 1) = h[d[i + 1]].l
    <3>1. CASE i + 1 < N
      <4>1. i + 1 \in 1..N - 1 /\ X(i + 1) = d[(i + 1) + 1]
        BY <1>2, <2>1, <3>1
      <4>. QED
        BY <1>2, <4>1
    <3>2. CASE ~(i + 1 < N)
      <4>1. i + 1 = N /\ X(i + 1) = Nil /\ d # <<>>
        BY <1>2, <2>1, <3>2 DEF N
      <4>. QED
        BY <1>2, <4>1
    <3>. QED
      BY <3>1, <3>2
  <2>. DEFINE q == Pre(i)
              w == Pre(i + 1)
              m == d[i + 1]
  <2>4. Base(h, q) /\ Low(h, q, p) /\ IsTree(h, m, Gap(h, q, p)) /\ m # Nil /\ w = Append(q, m)
    BY <1>10, <2>1, <2>2
  <2>5. Base(h, w) /\ Low(h, w, p) /\ IsTree(h, h[m].l, Gap(h, w, p))
    <3>. HIDE DEF q, w, m
    <3>. QED
      BY <2>4, StackNode
  <2>. QED
    BY <2>3, <2>5
<1>11. Good(N)
  <2>. DEFINE S == {i \in Nat : i <= N => Good(i)}
  <2>. HIDE DEF Good
  <2>1. 0 \in S /\ \A i \in Nat : i \in S => i + 1 \in S
    BY <1>2, <1>9, <1>10
  <2>2. Nat \subseteq S
    <3>. HIDE DEF S
    <3>. QED
      BY <2>1, CountUp
  <2>. QED
    BY <1>2, <2>2
<1>12. Pre(N) = v
  BY <1>6, SubSeqFull
<1>13. X(N) = Nil
  BY <1>2
<1>14. Base(h, v) /\ Low(h, v, p) /\ IsTree(h, Nil, Gap(h, v, p))
  <2>. HIDE DEF Pre, X
  <2>. QED
    BY <1>11, <1>12, <1>13
<1>15. Gap(h, v, p) = {}
  BY <1>14, TreeKeys
<1>16. ASSUME NEW i \in 1..Len(v) - 1 PROVE h[v[i]].l # Nil
  <2>1. CASE i <= a
    <3>1. i \in 1..a
      BY <1>3, <2>1
    <3>. QED
      BY <1>7, <3>1 DEF a, Deep
  <2>2. CASE i > a
    <3>. DEFINE j == i - a
    <3>1. j \in 1..N - 1 /\ j \in 1..N /\ j + 1 \in 1..N /\ a + j = i
      BY <1>2, <1>3, <1>6, <2>2
    <3>. HIDE DEF j
    <3>2. v[i] = d[j]
      BY <1>7, <3>1
    <3>. QED
      BY <1>2, <3>1, <3>2
  <2>. QED
    BY <1>3, <2>1, <2>2
<1>17. ASSUME n = Nil PROVE v = st
  <2>1. d = <<>>
    <3>1. d # <<>> => 1 \in 1..N
      BY <1>2 DEF N
    <3>. QED
      BY <1>2, <1>17, <3>1
  <2>. QED
    BY <1>3, <1>5, <2>1
<1>. QED
  BY <1>14, <1>15, <1>16, <1>17 DEF Full

\* The recursion of Seek is well defined.
IsSeek(f, d, k, N) == f = [i \in 0..N |-> IF i = 0 THEN Fresh ELSE Visit(f[i - 1], d[i], k)]

\* The loop of avl_it_start_at() is well defined.
LEMMA SeekExists ==
  ASSUME NEW d, NEW k, NEW N \in Nat
  PROVE  \E f : IsSeek(f, d, k, N)
<1>. DEFINE Has(j) == \E f : IsSeek(f, d, k, j)
            S == {j \in Nat : Has(j)}
<1>1. Has(0)
  <2>. DEFINE f == [i \in 0..0 |-> Fresh]
  <2>1. f = [i \in 0..0 |-> IF i = 0 THEN Fresh ELSE Visit(f[i - 1], d[i], k)]
    OBVIOUS
  <2>. HIDE DEF f
  <2>. QED
    BY <2>1 DEF IsSeek
<1>2. ASSUME NEW j \in Nat, Has(j)
      PROVE  Has(j + 1)
  <2>1. PICK f : IsSeek(f, d, k, j)
    BY <1>2
  <2>. DEFINE G(i, v) == Visit(v, d[i], k)
              x == G(j + 1, f[j])
              g == [i \in 0..j + 1 |-> IF i = j + 1 THEN x ELSE f[i]]
  <2>2. f[0] = Fresh /\ \A i \in 1..j : f[i] = G(i, f[i - 1])
    <3>1. \A i \in 0..j : f[i] = IF i = 0 THEN Fresh ELSE G(i, f[i - 1])
      BY <2>1 DEF IsSeek
    <3>. HIDE DEF G
    <3>. QED
      BY <3>1
  <2>. HIDE DEF x
  <2>3. g[j + 1] = x /\ \A i \in 0..j : g[i] = f[i]
    OBVIOUS
  <2>4. g = [i \in 0..j + 1 |-> IF i = 0 THEN Fresh ELSE G(i, g[i - 1])]
    <3>. HIDE DEF G
    <3>1. ASSUME NEW i \in 0..j + 1
          PROVE  g[i] = IF i = 0 THEN Fresh ELSE G(i, g[i - 1])
      <4>1. CASE i = 0
        BY <4>1, <2>2, <2>3
      <4>2. CASE i = j + 1
        <5>1. g[i - 1] = f[j]
          BY <4>2, <2>3
        <5>. QED
          BY <4>2, <5>1, <2>3 DEF x
      <4>3. CASE i # 0 /\ i # j + 1
        <5>1. i \in 1..j /\ i - 1 \in 0..j
          BY <4>3
        <5>. HIDE DEF g
        <5>. QED
          BY <4>3, <5>1, <2>2, <2>3
      <4>. QED
        BY <4>1, <4>2, <4>3
    <3>. QED
      BY <3>1
  <2>. HIDE DEF g
  <2>. QED
    BY <2>4 DEF IsSeek
<1>. HIDE DEF Has
<1>3. 0 \in S /\ \A j \in Nat : j \in S => j + 1 \in S
  BY <1>1, <1>2
<1>4. Nat \subseteq S
  <2>. HIDE DEF S
  <2>. QED
    BY <1>3, CountUp
<1>. QED
  BY <1>4 DEF Has

\* A search visits the nodes of its descent one by one.
LEMMA SeekSteps ==
  ASSUME NEW k, NEW d, d = Descent(heap, root, k), Len(d) \in Nat
  PROVE  \E f : /\ f[0] = Fresh
                /\ \A i \in 1..Len(d) : f[i] = Visit(f[i - 1], d[i], k)
                /\ Seek(k) = f[Len(d)]
<1>. DEFINE N == Len(d)
            f == CHOOSE f : IsSeek(f, d, k, N)
<1>1. Seek(k) = f[N]
  BY DEF Seek, IsSeek
<1>2. IsSeek(f, d, k, N)
  <2>. HIDE DEF N
  <2>. QED
    BY SeekExists DEF N
<1>. HIDE DEF f
<1>3. \A i \in 0..N : f[i] = IF i = 0 THEN Fresh ELSE Visit(f[i - 1], d[i], k)
  BY <1>2 DEF IsSeek
<1>. HIDE DEF N
<1>4. f[0] = Fresh /\ \A i \in 1..N : f[i] = Visit(f[i - 1], d[i], k)
  BY <1>3 DEF N
<1>. QED
  BY <1>1, <1>4 DEF N

\* An iterator on the way of a search for k, where m is the next node.
OnTheWay(h, s, k, m) ==
    /\ IsTree(h, m, Gap(h, s.stack, s.rt2))
    /\ s.stack # <<>> => cmp(k, Top(s.stack)) < 0
    /\ s.rt2 # Nil => cmp(s.rt2, k) < 0

Sound(h, s) ==
    /\ Base(h, s.stack) /\ Low(h, s.stack, s.rt2)
    /\ \A i \in 1..Len(s.stack) - 1 : h[s.stack[i]].l # Nil
    /\ s.c \in DOMAIN h \cup {Nil} /\ s.rt \in DOMAIN h \cup {Nil}

\* The search for k found it.
Found(h, s, k) == /\ s.stack # <<>> /\ Top(s.stack) = k
                  /\ h[k].l = Nil => Gap(h, s.stack, s.rt2) = {}

\* One step of the search.
LEMMA VisitNode ==
  ASSUME NEW h, Heap(h), NEW s, NEW k \in Key, NEW m, m # Nil, Sound(h, s), Deep(h, s.stack),
         OnTheWay(h, s, k, m), NEW t, t = Visit(s, m, k)
  PROVE  /\ Sound(h, t)
         /\ k # m => OnTheWay(h, t, k, Below(h, m, k))
         /\ k = m => Found(h, t, k)
         /\ Below(h, m, k) # Nil => Deep(h, t.stack)
<1>. DEFINE st == s.stack
            p == s.rt2
            v == Append(st, m)
            N == Len(st)
<1>1. /\ Base(h, st) /\ Low(h, st, p) /\ IsTree(h, m, Gap(h, st, p)) /\ st \in Seq(DOMAIN h)
      /\ DOMAIN h \subseteq Key /\ Nil \notin Key
  BY NilIsNoKey DEF Sound, OnTheWay, Base, Heap
<1>2. m \in Key /\ m \in DOMAIN h /\ p \in DOMAIN h \cup {Nil}
  BY <1>1, TreeKeys DEF Low
<1>3. /\ Base(h, v) /\ Low(h, v, p) /\ IsTree(h, h[m].l, Gap(h, v, p))
      /\ Low(h, st, m) /\ IsTree(h, h[m].r, Gap(h, st, m))
  <2>. HIDE DEF st, p
  <2>. QED
    BY <1>1, StackNode
<1>4. /\ v # <<>> /\ Top(v) = m /\ v \in Seq(DOMAIN h) /\ Len(v) = N + 1 /\ N \in Nat
      /\ v[N + 1] = m /\ \A i \in 1..N : v[i] = st[i]
  <2>. HIDE DEF st
  <2>. QED
    BY <1>1, <1>2 DEF Top
<1>5. \A i \in 1..N : h[st[i]].l # Nil
  BY DEF Deep
<1>6. Turn(k, m) = cmp(k, m) /\ cmp(k, m) \in Int /\ (cmp(k, m) = 0 <=> k = m)
  BY <1>2, TurnAtKey, Order
<1>7. t.c = m /\ t.rt = p /\ t.c \in DOMAIN h \cup {Nil} /\ t.rt \in DOMAIN h \cup {Nil}
  BY <1>2 DEF Visit
<1>8. CASE cmp(k, m) <= 0
  <2>1. t.stack = v /\ t.rt2 = p
    BY <1>6, <1>8 DEF Visit
  <2>. HIDE DEF v, st, p, N
  <2>2. \A i \in 1..Len(v) - 1 : h[v[i]].l # Nil
    <3>1. Len(v) - 1 = N
      BY <1>4
    <3>. QED
      BY <1>4, <1>5, <3>1
  <2>3. Sound(h, t)
    BY <1>3, <1>7, <2>1, <2>2 DEF Sound
  <2>4. ASSUME k # m
        PROVE  OnTheWay(h, t, k, Below(h, m, k)) /\ Below(h, m, k) = h[m].l
    <3>1. cmp(k, m) < 0
      BY <1>6, <1>8, <2>4
    <3>2. Below(h, m, k) = h[m].l
      BY <1>6, <3>1 DEF Below
    <3>3. p # Nil => cmp(p, k) < 0
      BY DEF OnTheWay, p
    <3>. QED
      BY <1>3, <1>4, <2>1, <3>1, <3>2, <3>3 DEF OnTheWay
  <2>5. ASSUME k = m
        PROVE  Found(h, t, k) /\ Below(h, m, k) = Nil
    <3>1. Below(h, m, k) = Nil
      BY <1>6, <2>5 DEF Below
    <3>2. h[m].l = Nil => Gap(h, v, p) = {}
      BY <1>3, TreeKeys
    <3>. QED
      BY <1>4, <2>1, <2>5, <3>1, <3>2 DEF Found
  <2>6. ASSUME Below(h, m, k) # Nil
        PROVE  Deep(h, t.stack)
    <3>1. h[m].l # Nil
      BY <2>4, <2>5, <2>6
    <3>2. ASSUME NEW i \in 1..Len(v) PROVE h[v[i]].l # Nil
      <4>1. i = N + 1 \/ i \in 1..N
        BY <1>4
      <4>. QED
        BY <1>4, <1>5, <3>1, <4>1
    <3>. QED
      BY <2>1, <3>2 DEF Deep
  <2>. QED
    BY <2>3, <2>4, <2>5, <2>6
<1>9. CASE cmp(k, m) > 0
  <2>1. t.stack = st /\ t.rt2 = m
    BY <1>6, <1>9 DEF Visit
  <2>. HIDE DEF v
  <2>2. k # m /\ cmp(m, k) < 0 /\ Below(h, m, k) = h[m].r
    BY <1>2, <1>6, <1>9, Order DEF Below
  <2>3. Sound(h, t) /\ Deep(h, t.stack)
    <3>1. \A i \in 1..N - 1 : h[st[i]].l # Nil
      BY DEF Sound
    <3>. HIDE DEF st, p
    <3>. QED
      BY <1>1, <1>3, <1>5, <1>7, <2>1, <3>1 DEF Sound, Deep
  <2>4. OnTheWay(h, t, k, Below(h, m, k))
    <3>1. st # <<>> => cmp(k, Top(st)) < 0
      BY DEF OnTheWay
    <3>. HIDE DEF st, p
    <3>. QED
      BY <1>3, <2>1, <2>2, <3>1 DEF OnTheWay
  <2>. QED
    BY <2>2, <2>3, <2>4
<1>. QED
  BY <1>6, <1>8, <1>9

\* A search for k leaves an iterator that starts at the first element that is not
\* before k.
LEMMA SeekTree ==
  ASSUME IsTree(heap, root, DOMAIN heap), IsFiniteSet(DOMAIN heap), NEW k \in Key,
         NEW s, s = Seek(k)
  PROVE  /\ Stacked(heap, s.stack, s.rt2)
         /\ {s.c, s.rt, s.rt2} \subseteq DOMAIN heap \cup {Nil}
         /\ FromTop(heap, s.stack) = {e \in DOMAIN heap : ~(cmp(e, k) < 0)}
<1>. DEFINE d == Descent(heap, root, k)
            N == Len(d)
            X(i) == IF i < N THEN d[i + 1] ELSE Nil
            Good(t, i) ==
                /\ Sound(heap, t)
                /\ i < N => Deep(heap, t.stack) /\ OnTheWay(heap, t, k, X(i))
                /\ OnTheWay(heap, t, k, X(i)) \/ Found(heap, t, k)
<1>1. k \in Sought /\ d = Descent(heap, root, k)
  BY DEF Sought
<1>. HIDE DEF d
<1>2. /\ N \in Nat /\ Heap(heap)
      /\ \A i \in 1..N : d[i] \in Key /\ d[i] # Nil
      /\ \A i \in 1..N - 1 : d[i + 1] = Below(heap, d[i], k)
      /\ d # <<>> => Below(heap, d[N], k) = Nil /\ d[1] = root
      /\ d = <<>> => root = Nil
      /\ d \in Seq(DOMAIN heap)
  BY <1>1, DescentParts, TreeKeys
<1>3. PICK f : /\ f[0] = Fresh
               /\ \A i \in 1..N : f[i] = Visit(f[i - 1], d[i], k)
               /\ s = f[N]
  BY <1>1, <1>2, SeekSteps
<1>4. Good(Fresh, 0)
  <2>1. Fresh.stack = <<>> /\ Fresh.rt2 = Nil /\ Fresh.rt = Nil /\ Fresh.c = Nil
    BY DEF Fresh
  <2>2. Gap(heap, <<>>, Nil) = DOMAIN heap
    BY DEF Gap
  <2>3. X(0) = root
    <3>1. CASE d = <<>>
      BY <1>2, <3>1
    <3>2. CASE d # <<>>
      <4>1. N > 0
        BY <1>2, <3>2
      <4>. QED
        BY <1>2, <3>2, <4>1
    <3>. QED
      BY <3>1, <3>2
  <2>4. Base(heap, <<>>) /\ Low(heap, <<>>, Nil)
    BY DEF Base, Low
  <2>5. Sound(heap, Fresh) /\ Deep(heap, Fresh.stack)
    BY <2>1, <2>4 DEF Sound, Deep
  <2>6. OnTheWay(heap, Fresh, k, X(0))
    BY <2>1, <2>2, <2>3 DEF OnTheWay
  <2>. QED
    BY <2>5, <2>6
<1>. HIDE DEF N
<1>5. ASSUME NEW i \in Nat, i + 1 <= N, NEW t, Good(t, i)
      PROVE  Good(Visit(t, d[i + 1], k), i + 1)
  <2>. DEFINE m == d[i + 1]
              u == Visit(t, m, k)
  <2>1. i < N /\ X(i) = m /\ i + 1 \in 1..N /\ m # Nil
    BY <1>2, <1>5
  <2>2. X(i + 1) = Below(heap, m, k)
    <3>1. CASE i + 1 < N
      <4>1. i + 1 \in 1..N - 1 /\ X(i + 1) = d[(i + 1) + 1]
        BY <1>2, <2>1, <3>1
      <4>. QED
        BY <1>2, <4>1
    <3>2. CASE ~(i + 1 < N)
      <4>1. i + 1 = N /\ X(i + 1) = Nil /\ d # <<>>
        BY <1>2, <2>1, <3>2 DEF N
      <4>. QED
        BY <1>2, <4>1
    <3>. QED
      BY <3>1, <3>2
  <2>3. i + 1 < N => Below(heap, m, k) # Nil
    <3>. SUFFICES ASSUME i + 1 < N PROVE Below(heap, m, k) # Nil
      OBVIOUS
    <3>1. (i + 1) + 1 \in 1..N /\ X(i + 1) = d[(i + 1) + 1]
      BY <1>2, <1>5
    <3>. QED
      BY <1>2, <2>2, <3>1
  <2>4. u = Visit(t, m, k) /\ Sound(heap, t) /\ Deep(heap, t.stack) /\ OnTheWay(heap, t, k, m)
    BY <1>5, <2>1
  <2>. HIDE DEF m, u, X
  <2>5. /\ Sound(heap, u)
        /\ k # m => OnTheWay(heap, u, k, Below(heap, m, k))
        /\ k = m => Found(heap, u, k)
        /\ Below(heap, m, k) # Nil => Deep(heap, u.stack)
    BY <1>2, <2>1, <2>4, VisitNode
  <2>6. k = m => Below(heap, m, k) = Nil
    <3>1. k = m => Turn(k, m) = 0
      BY TurnAtKey
    <3>. QED
      BY <3>1 DEF Below
  <2>. QED
    BY <2>2, <2>3, <2>5, <2>6 DEF u, m
<1>6. Good(s, N)
  <2>. DEFINE S == {i \in Nat : i <= N => Good(f[i], i)}
  <2>. HIDE DEF Good
  <2>1. 0 \in S
    BY <1>3, <1>4
  <2>2. ASSUME NEW i \in Nat, i \in S PROVE i + 1 \in S
    <3>. SUFFICES ASSUME i + 1 <= N PROVE Good(f[i + 1], i + 1)
      OBVIOUS
    <3>1. i + 1 \in 1..N /\ (i + 1) - 1 = i /\ i <= N
      BY <1>2
    <3>2. Good(f[i], i) /\ f[i + 1] = Visit(f[i], d[i + 1], k)
      BY <1>3, <2>2, <3>1
    <3>. QED
      BY <1>5, <3>2
  <2>3. \A i \in Nat : i \in S => i + 1 \in S
    BY <2>2
  <2>4. Nat \subseteq S
    <3>. HIDE DEF S
    <3>. QED
      BY <2>1, <2>3, CountUp
  <2>. QED
    BY <1>2, <1>3, <2>4
<1>. DEFINE st == s.stack
            p == s.rt2
<1>7. /\ Base(heap, st) /\ Low(heap, st, p) /\ X(N) = Nil
      /\ \A i \in 1..Len(st) - 1 : heap[st[i]].l # Nil
      /\ s.c \in DOMAIN heap \cup {Nil} /\ s.rt \in DOMAIN heap \cup {Nil}
      /\ OnTheWay(heap, s, k, Nil) \/ Found(heap, s, k)
  BY <1>2, <1>6 DEF Sound
<1>8. /\ p \in DOMAIN heap \cup {Nil} /\ DOMAIN heap \subseteq Key /\ Nil \notin Key
      /\ st # <<>> => Top(st) \in Key
  <2>1. /\ p \in DOMAIN heap \cup {Nil} /\ DOMAIN heap \subseteq Key /\ Nil \notin Key
        /\ st \in Seq(DOMAIN heap)
    BY <1>2, <1>7, NilIsNoKey DEF Low, Heap, Base
  <2>. HIDE DEF st
  <2>. QED
    BY <2>1 DEF Top
<1>. DEFINE from == FromTop(heap, st)
            at == {e \in DOMAIN heap : ~(cmp(e, k) < 0)}
<1>9. CASE OnTheWay(heap, s, k, Nil)
  <2>1. Gap(heap, st, p) = {}
    BY <1>9, TreeKeys DEF OnTheWay
  <2>2. /\ st # <<>> => cmp(k, Top(st)) < 0
        /\ p # Nil => cmp(p, k) < 0
    BY <1>9 DEF OnTheWay
  <2>. HIDE DEF st, p
  <2>3. st # <<>> => IsPred(heap, Top(st), p)
    BY <1>2, <1>7, <2>1, NoGap
  <2>4. ASSUME NEW e \in DOMAIN heap
        PROVE  (st # <<>> /\ cmp(e, Top(st)) >= 0) <=> ~(cmp(e, k) < 0)
    <3>1. e \in Key /\ cmp(e, k) \in Int
      BY <1>8, Order
    <3>2. ASSUME st # <<>>, cmp(e, Top(st)) >= 0, cmp(e, k) < 0 PROVE FALSE
      <4>1. cmp(e, Top(st)) < 0 /\ cmp(e, Top(st)) \in Int
        BY <1>8, <2>2, <3>1, <3>2, Order, OrderTransitive
      <4>. QED
        BY <3>2, <4>1
    <3>3. ASSUME ~(cmp(e, k) < 0) PROVE st # <<>> /\ cmp(e, Top(st)) >= 0
      <4>1. ASSUME p # Nil PROVE cmp(e, p) > 0
        <5>1. p \in Key /\ cmp(p, k) < 0
          BY <1>8, <2>2, <4>1
        <5>2. e = k \/ cmp(k, e) < 0
          BY <3>1, <3>3, Order
        <5>3. cmp(p, e) < 0
          BY <3>1, <5>1, <5>2, OrderTransitive
        <5>. QED
          BY <3>1, <5>1, <5>3, Order
      <4>2. st # <<>> /\ ~(cmp(e, Top(st)) < 0)
        BY <2>1, <4>1 DEF Gap
      <4>. QED
        BY <1>8, <3>1, <4>2, Order
    <3>. QED
      BY <3>2, <3>3
  <2>5. from = at
    BY <2>4 DEF FromTop
  <2>6. Stacked(heap, st, p)
    BY <1>7, <2>3 DEF Stacked
  <2>. QED
    BY <1>7, <1>8, <2>5, <2>6 DEF st, p
<1>10. CASE Found(heap, s, k)
  <2>1. st # <<>> /\ Top(st) = k /\ (heap[k].l = Nil => Gap(heap, st, p) = {})
    BY <1>10 DEF Found
  <2>. HIDE DEF st, p
  <2>2. heap[k].l # Nil \/ IsPred(heap, k, p)
    BY <1>2, <1>7, <2>1, NoGap
  <2>3. \A e \in DOMAIN heap : cmp(e, k) \in Int
    BY <1>8, Order
  <2>4. from = at
    BY <2>1, <2>3 DEF FromTop
  <2>5. Stacked(heap, st, p)
    BY <1>7, <2>1, <2>2 DEF Stacked
  <2>. QED
    BY <1>7, <1>8, <2>4, <2>5 DEF st, p
<1>. QED
  BY <1>7, <1>9, <1>10

\* The last node of what is to the left of x is the element before x.
LEMMA LeftmostPred ==
  ASSUME NEW h, IsFiniteSet(DOMAIN h), Heap(h), NEW x \in DOMAIN h, LeftKnown(h, x),
         h[x].l # Nil, NEW d, d = Descent(h, h[x].l, Highest)
  PROVE  d # <<>> /\ d[Len(d)] \in DOMAIN h /\ IsPred(h, x, d[Len(d)])
<1>1. PICK X : IsTree(h, h[x].l, X) /\ Adjacent(h, x, X)
  BY DEF LeftKnown
<1>. DEFINE k == Highest
            N == Len(d)
            q == d[N]
<1>2. k \in Sought /\ \A m : Turn(k, m) = 1
  BY NilIsNoKey DEF Sought, Turn
<1>3. /\ d \in Seq(X) /\ X \subseteq Key /\ N \in Nat /\ d # <<>> /\ X \subseteq DOMAIN h
      /\ \A i \in 1..N : IsTree(h, d[i], Reach(X, d, k, i)) /\ d[i] \in X /\ d[i] # Nil
      /\ Reach(X, d, k, N + 1) = {}
  BY <1>1, <1>2, DescentParts, TreeKeys
<1>4. N \in 1..N /\ q \in X /\ q \in Key /\ q \in DOMAIN h
  BY <1>3
<1>5. \A e, m : Aside(e, m, k) <=> cmp(e, m) > 0
  BY <1>2 DEF Aside
<1>. HIDE DEF k
<1>6. ASSUME NEW e \in X PROVE cmp(e, q) <= 0
  <2>1. PICK j \in 1..N : ~(cmp(e, d[j]) > 0)
    <3>1. ~(\A j \in 1..(N + 1) - 1 : Aside(e, d[j], k))
      BY <1>3 DEF Reach
    <3>2. (N + 1) - 1 = N
      BY <1>3
    <3>. QED
      BY <1>5, <3>1, <3>2
  <2>2. e \in Key /\ d[j] \in Key /\ cmp(e, d[j]) \in Int /\ cmp(e, q) \in Int
    BY <1>3, <1>4, Order
  <2>3. e = d[j] \/ cmp(e, d[j]) < 0
    BY <2>1, <2>2, Order
  <2>4. CASE j = N
    BY <2>1, <2>2, <2>4
  <2>5. CASE j # N
    <3>1. q \in Reach(X, d, k, N)
      BY <1>3, <1>4, TreeKeys
    <3>2. j \in 1..N - 1
      BY <1>3, <2>5
    <3>3. cmp(q, d[j]) > 0
      BY <1>5, <3>1, <3>2 DEF Reach
    <3>4. cmp(d[j], q) < 0
      BY <1>4, <2>2, <3>3, Order
    <3>5. cmp(e, q) < 0
      BY <1>4, <2>2, <2>3, <3>4, OrderTransitive
    <3>. QED
      BY <2>2, <3>5
  <2>. QED
    BY <2>4, <2>5
<1>7. cmp(q, x) < 0
  BY <1>1, <1>4 DEF Adjacent
<1>8. ASSUME NEW e \in DOMAIN h, cmp(e, x) < 0 PROVE cmp(e, q) <= 0
  <2>1. e \in X \/ cmp(e, q) < 0
    BY <1>1, <1>4, <1>8 DEF Adjacent
  <2>2. cmp(e, q) \in Int
    BY <1>4, Order DEF Heap
  <2>. QED
    BY <1>6, <2>1, <2>2
<1>. QED
  BY <1>3, <1>4, <1>7, <1>8 DEF IsPred

ButTop(st) == SubSeq(st, 1, Len(st) - 1)

\* avl_it_next(): the next stack, and what is still to come.
LEMMA PopTop ==
  ASSUME NEW h, Heap(h), IsFiniteSet(DOMAIN h), NEW st, NEW p, Stacked(h, st, p), st # <<>>,
         NEW x, x = Top(st), NEW c, c = ButTop(st),
         NEW v, v = Pushed(h, c, h[x].r)
  PROVE  /\ x \in DOMAIN h
         /\ Stacked(h, v, IF h[x].r = Nil THEN p ELSE x)
         /\ FromTop(h, v) = {e \in DOMAIN h : cmp(e, x) > 0}
<1>. DEFINE D == DOMAIN h
            N == Len(st)
            r == h[x].r
<1>1. st \in Seq(D) /\ Base(h, st) /\ D \subseteq Key /\ Nil \notin Key
  BY NilIsNoKey DEF Stacked, Base, Heap
<1>2. /\ c \in Seq(D) /\ N \in Nat /\ N >= 1 /\ Len(c) = N - 1
      /\ (\A i \in 1..N - 1 : c[i] = st[i]) /\ st[N] = x /\ x \in D
  <2>1. x = st[N]
    BY DEF Top
  <2>2. /\ c \in Seq(D) /\ Len(st) \in Nat /\ Len(st) >= 1 /\ Len(c) = Len(st) - 1
        /\ \A i \in 1..Len(st) - 1 : c[i] = st[i]
        /\ st[Len(st)] \in D
    <3>1. st \in Seq(D) /\ c = SubSeq(st, 1, Len(st) - 1)
      BY <1>1 DEF ButTop
    <3>. HIDE DEF D
    <3>. QED
      BY <3>1, ButLast
  <2>. QED
    BY <2>1, <2>2
<1>3. x \in Key /\ x # Nil
  BY <1>1, <1>2
<1>4. /\ c # <<>> => /\ N - 1 \in 1..N - 1 /\ (N - 1) + 1 = N /\ N > 1
                     /\ Top(c) = st[N - 1]
      /\ c = <<>> => N = 1
  <2>1. Len(c) \in Nat /\ (c # <<>> => Len(c) >= 1) /\ (c = <<>> => Len(c) = 0)
    <3>1. c \in Seq(D)
      BY <1>2
    <3>. QED
      BY <3>1
  <2>. QED
    BY <1>2, <2>1 DEF Top
<1>. HIDE DEF N
<1>5. /\ \A i \in 1..N - 1 : cmp(st[i + 1], st[i]) < 0 /\ h[st[i]].l # Nil
      /\ \A i \in 1..N : IsTree(h, h[st[i]].r, Ahead(h, st, i)) /\ LeftKnown(h, st[i])
  BY DEF Stacked, Base, N
<1>6. Base(h, c)
  <2>1. ASSUME NEW i \in 1..Len(c) - 1 PROVE cmp(c[i + 1], c[i]) < 0
    <3>1. i \in 1..N - 1 /\ i + 1 \in 1..N - 1
      BY <1>2
    <3>. QED
      BY <1>2, <1>5, <3>1
  <2>2. ASSUME NEW i \in 1..Len(c)
        PROVE  IsTree(h, h[c[i]].r, Ahead(h, c, i)) /\ LeftKnown(h, c[i])
    <3>1. i \in 1..N - 1 /\ i \in 1..N /\ c[i] = st[i] /\ (i > 1 => c[i - 1] = st[i - 1])
      BY <1>2
    <3>2. Ahead(h, c, i) = Ahead(h, st, i)
      BY <3>1 DEF Ahead
    <3>. QED
      BY <1>5, <3>1, <3>2
  <2>. QED
    BY <1>2, <2>1, <2>2 DEF Base
<1>7. Low(h, c, x)
  <2>1. c # <<>> => cmp(x, Top(c)) < 0
    BY <1>2, <1>4, <1>5
  <2>. QED
    BY <1>2, <2>1 DEF Low
<1>8. Deep(h, c)
  BY <1>2, <1>5 DEF Deep
<1>9. Gap(h, c, x) = Ahead(h, st, N)
  <2>1. N > 1 <=> c # <<>>
    BY <1>2, <1>4
  <2>2. N > 1 => st[N - 1] = Top(c)
    BY <1>4, <2>1
  <2>. QED
    BY <1>2, <1>3, <2>1, <2>2 DEF Gap, Ahead
<1>10. IsTree(h, r, Gap(h, c, x))
  <2>1. N \in 1..N
    BY <1>2
  <2>. QED
    BY <1>2, <1>5, <1>9, <2>1
<1>11. /\ Base(h, v) /\ Low(h, v, x) /\ Gap(h, v, x) = {}
       /\ \A i \in 1..Len(v) - 1 : h[v[i]].l # Nil
       /\ r = Nil => v = c
  <2>1. /\ v = Pushed(h, c, r) /\ IsTree(h, r, Gap(h, c, x)) /\ Base(h, c)
        /\ Low(h, c, x) /\ Deep(h, c)
    BY <1>6, <1>7, <1>8, <1>10
  <2>. HIDE DEF r
  <2>. QED
    <3>1. Full(h, v, x) /\ (r = Nil => v = c)
      <4>1. Room(h, c, x, r)
        BY <2>1 DEF Room
      <4>2. v = Pushed(h, c, r)
        BY <2>1
      <4>. QED
        BY <4>1, <4>2, PushTree
    <3>. QED
      BY <3>1 DEF Full
<1>12. FromTop(h, v) = Past(h, x) /\ (v # <<>> => IsPred(h, Top(v), x))
  BY <1>11, NoGap
<1>13. Past(h, x) = {e \in D : cmp(e, x) > 0}
  BY <1>3 DEF Past
<1>14. CASE r # Nil
  <2>1. Stacked(h, v, x)
    BY <1>11, <1>12 DEF Stacked
  <2>. QED
    BY <1>2, <1>12, <1>13, <1>14, <2>1
<1>15. CASE r = Nil
  <2>1. c # <<>> => h[Top(c)].l # Nil
    BY <1>4, <1>5
  <2>2. Stacked(h, v, p)
    BY <1>11, <1>15, <2>1 DEF Stacked
  <2>. QED
    BY <1>2, <1>12, <1>13, <1>15, <2>2
<1>. QED
  BY <1>14, <1>15

-----------------------------------------------------------------------------
(* The invariant                                                           *)

TreeInv == /\ IsTree(heap, root, DOMAIN heap) /\ IsFiniteSet(DOMAIN heap)
           /\ count = Cardinality(DOMAIN heap)

IterInv == /\ Stacked(heap, it.stack, it.rt2)
           /\ {it.c, it.rt, it.rt2, got} \subseteq Key \cup {Nil}

Inv == TreeInv /\ IterInv /\ PrevIsRight

\* What the iterator has still to return, by its stack.
Rest == {k \in Elems : it.stack # <<>> /\ cmp(k, it.stack[Len(it.stack)]) >= 0}

\* What it has still to return, by what it was asked for: the elements not before
\* the key it was started at, except those it has returned.
Asked == {e \in Elems : asked # Nil /\ (asked = Lowest \/ ~(cmp(e, asked) < 0)) /\ e \notin given}

AskedInv == /\ asked \in Key \cup {Lowest, Nil} /\ given \subseteq Key
            /\ Rest = Asked

\* avl_it_init() gives an iterator with nothing to return.
LEMMA FreshIterator ==
  ASSUME NEW h, NEW p
  PROVE  Stacked(h, <<>>, p) /\ Base(h, <<>>)
  BY DEF Stacked, Base

\* The empty tree has the invariant.
LEMMA InitInv == Init => Inv
<1>. SUFFICES ASSUME Init PROVE Inv
  OBVIOUS
<1>1. heap = <<>> /\ root = Nil /\ count = 0 /\ it = Fresh /\ got = Nil
  BY DEF Init
<1>2. DOMAIN heap = {}
  BY <1>1
<1>3. Heap(heap)
  BY <1>1, <1>2 DEF Heap
<1>4. TreeInv
  BY <1>1, <1>2, <1>3, NoTree, FS_EmptySet DEF TreeInv
<1>5. it.stack = <<>> /\ it.c = Nil /\ it.rt = Nil /\ it.rt2 = Nil
  BY <1>1 DEF Fresh
<1>6. IterInv
  BY <1>1, <1>5, FreshIterator DEF IterInv
<1>7. PrevIsRight
  BY <1>1 DEF PrevIsRight
<1>. QED
  BY <1>4, <1>6, <1>7 DEF Inv

\* A change of the tree ends the iteration.
LEMMA ForgetInv ==
  ASSUME Forget, TreeInv'
  PROVE  Inv' /\ Rest' = {} /\ got' = Nil
<1>1. it' = Fresh /\ got' = Nil
  BY DEF Forget
<1>2. it'.stack = <<>> /\ it'.c = Nil /\ it'.rt = Nil /\ it'.rt2 = Nil
  BY <1>1 DEF Fresh
<1>3. IterInv'
  BY <1>1, <1>2, FreshIterator DEF IterInv
<1>4. PrevIsRight'
  BY <1>1 DEF PrevIsRight
<1>5. Rest' = {}
  BY <1>2 DEF Rest
<1>. QED
  BY <1>1, <1>3, <1>4, <1>5 DEF Inv

\* avl_insert() adds its key and nothing else.
LEMMA InsertInv ==
  ASSUME Inv, NEW k \in Key, avl_insert(k)
  PROVE  Inv' /\ Elems' = Elems \cup {k} /\ Rest' = {} /\ got' = Nil
<1>. DEFINE t == avl_insert_rec(heap, root, k)
<1>1. IsTree(heap, root, DOMAIN heap) /\ IsFiniteSet(DOMAIN heap) /\ count = Cardinality(DOMAIN heap)
  BY DEF Inv, TreeInv
<1>2. /\ avl_get(heap, root, k) = Nil /\ heap' = t.heap /\ root' = t.root /\ count' = count + 1
      /\ Forget
  BY DEF avl_insert
<1>3. k \notin DOMAIN heap
  BY <1>1, <1>2, GetFinds, NilIsNoKey
<1>4. DOMAIN t.heap = DOMAIN heap \cup {k} /\ IsTree(t.heap, t.root, DOMAIN heap \cup {k})
  BY <1>1, <1>3, InsertTree
<1>. HIDE DEF t
<1>5. /\ IsFiniteSet(DOMAIN heap \cup {k})
      /\ Cardinality(DOMAIN heap \cup {k}) = Cardinality(DOMAIN heap) + 1
  BY <1>1, <1>3, FS_AddElement
<1>6. TreeInv'
  BY <1>1, <1>2, <1>4, <1>5 DEF TreeInv
<1>. QED
  BY <1>2, <1>4, <1>6, ForgetInv DEF Elems

\* avl_remove() removes its key and nothing else.
LEMMA RemoveInv ==
  ASSUME Inv, NEW k \in Key, avl_remove(k)
  PROVE  Inv' /\ Elems' = Elems \ {k} /\ Rest' = {} /\ got' = Nil
<1>. DEFINE t == avl_remove_rec(heap, root, k)
<1>1. IsTree(heap, root, DOMAIN heap) /\ IsFiniteSet(DOMAIN heap) /\ count = Cardinality(DOMAIN heap)
  BY DEF Inv, TreeInv
<1>2. /\ avl_get(heap, root, k) # Nil /\ heap' = t.heap /\ root' = t.root /\ count' = count - 1
      /\ Forget
  BY DEF avl_remove
<1>3. k \in DOMAIN heap
  BY <1>1, <1>2, GetFinds
<1>4. DOMAIN t.heap = DOMAIN heap \ {k} /\ IsTree(t.heap, t.root, DOMAIN heap \ {k})
  BY <1>1, <1>3, RemoveTree
<1>. HIDE DEF t
<1>5. /\ IsFiniteSet(DOMAIN heap \ {k})
      /\ Cardinality(DOMAIN heap \ {k}) = Cardinality(DOMAIN heap) - 1
  BY <1>1, <1>3, FS_RemoveElement
<1>6. TreeInv'
  BY <1>1, <1>2, <1>4, <1>5 DEF TreeInv
<1>. QED
  BY <1>2, <1>4, <1>6, ForgetInv DEF Elems

\* avl_remove_all() leaves nothing.
LEMMA RemoveAllInv ==
  ASSUME Inv, avl_remove_all
  PROVE  Inv' /\ Elems' = {} /\ Rest' = {} /\ got' = Nil
<1>1. heap' = <<>> /\ root' = Nil /\ count' = 0 /\ Forget
  BY DEF avl_remove_all
<1>2. DOMAIN heap' = {}
  BY <1>1
<1>3. Heap(heap')
  BY <1>1, <1>2 DEF Heap
<1>4. TreeInv'
  BY <1>1, <1>2, <1>3, NoTree, FS_EmptySet DEF TreeInv
<1>. QED
  BY <1>1, <1>2, <1>4, ForgetInv DEF Elems

\* avl_it_start() has every element to return.
LEMMA StartInv ==
  ASSUME Inv, avl_it_start
  PROVE  Inv' /\ Elems' = Elems /\ Rest' = Elems /\ got' = Nil
<1>. DEFINE v == Push(<<>>, root)
<1>1. /\ IsTree(heap, root, DOMAIN heap) /\ IsFiniteSet(DOMAIN heap) /\ count = Cardinality(DOMAIN heap)
      /\ Heap(heap)
  BY TreeKeys DEF Inv, TreeInv
<1>2. /\ it'.stack = v /\ it'.c = Nil /\ it'.rt = Nil /\ it'.rt2 = Nil
      /\ got' = Nil /\ heap' = heap /\ root' = root /\ count' = count
  BY DEF avl_it_start, Fresh, tree
<1>3. v = Pushed(heap, <<>>, root)
  BY DEF Push, Pushed
<1>. HIDE DEF v
<1>4. Base(heap, <<>>) /\ Low(heap, <<>>, Nil) /\ Gap(heap, <<>>, Nil) = DOMAIN heap
  BY FreshIterator DEF Low, Gap
<1>5. Deep(heap, <<>>)
  BY DEF Deep
<1>6. /\ Base(heap, v) /\ Low(heap, v, Nil) /\ Gap(heap, v, Nil) = {}
      /\ \A i \in 1..Len(v) - 1 : heap[v[i]].l # Nil
  <2>1. IsTree(heap, root, Gap(heap, <<>>, Nil))
    BY <1>1, <1>4
  <2>2. Full(heap, v, Nil)
    <3>1. Room(heap, <<>>, Nil, root)
      BY <1>1, <1>4, <1>5, <2>1 DEF Room
    <3>. QED
      BY <1>3, <3>1, PushTree
  <2>. QED
    BY <2>2 DEF Full
<1>7. FromTop(heap, v) = DOMAIN heap /\ (v # <<>> => IsPred(heap, Top(v), Nil))
  <2>1. FromTop(heap, v) = Past(heap, Nil) /\ (v # <<>> => IsPred(heap, Top(v), Nil))
    BY <1>1, <1>6, NoGap
  <2>. QED
    BY <2>1 DEF Past
<1>8. Stacked(heap, v, Nil)
  BY <1>6, <1>7 DEF Stacked
<1>9. TreeInv'
  BY <1>1, <1>2 DEF TreeInv
<1>10. IterInv'
  BY <1>2, <1>8 DEF IterInv
<1>11. PrevIsRight'
  BY <1>2 DEF PrevIsRight
<1>12. Rest' = Elems
  BY <1>2, <1>7 DEF Rest, Elems, Top, FromTop
<1>. QED
  BY <1>2, <1>9, <1>10, <1>11, <1>12 DEF Inv, Elems

\* avl_it_start_at() has the elements from its key on to return.
LEMMA StartAtInv ==
  ASSUME Inv, NEW k \in Key, avl_it_start_at(k)
  PROVE  Inv' /\ Elems' = Elems /\ Rest' = {e \in Elems : ~(cmp(e, k) < 0)} /\ got' = Nil
<1>1. /\ IsTree(heap, root, DOMAIN heap) /\ IsFiniteSet(DOMAIN heap) /\ count = Cardinality(DOMAIN heap)
      /\ DOMAIN heap \subseteq Key
  BY TreeKeys DEF Inv, TreeInv
<1>2. it' = Seek(k) /\ got' = Nil /\ heap' = heap /\ root' = root /\ count' = count
  BY DEF avl_it_start_at, tree
<1>. DEFINE s == Seek(k)
<1>3. /\ Stacked(heap, s.stack, s.rt2)
      /\ {s.c, s.rt, s.rt2} \subseteq DOMAIN heap \cup {Nil}
      /\ FromTop(heap, s.stack) = {e \in DOMAIN heap : ~(cmp(e, k) < 0)}
  BY <1>1, SeekTree
<1>. HIDE DEF s
<1>4. it' = s
  BY <1>2 DEF s
<1>5. TreeInv'
  BY <1>1, <1>2 DEF TreeInv
<1>6. IterInv'
  BY <1>1, <1>2, <1>3, <1>4 DEF IterInv
<1>7. PrevIsRight'
  BY <1>2 DEF PrevIsRight
<1>8. Rest' = {e \in Elems : ~(cmp(e, k) < 0)}
  BY <1>2, <1>3, <1>4 DEF Rest, Elems, Top, FromTop
<1>. QED
  BY <1>2, <1>5, <1>6, <1>7, <1>8 DEF Inv, Elems

-----------------------------------------------------------------------------
(* The depth of the stack                                                  *)

\* The stored height of a node is positive and above those of its children.
LEMMA HeightsFall ==
  ASSUME NEW h, NEW n, NEW A, IsTree(h, n, A), NEW m \in A
  PROVE  /\ h[m].height \in Nat /\ h[m].height >= 1
         /\ Height(h, h[m].l) \in Nat /\ Height(h, h[m].l) < h[m].height
         /\ Height(h, h[m].r) \in Nat /\ Height(h, h[m].r) < h[m].height
<1>1. PICK s : Spans(h, A, s)
  BY DEF IsTree
<1>2. Heap(h) /\ A \subseteq DOMAIN h /\ RightHeight(h, m)
  BY TreeKeys
<1>3. h[m].l \in DOMAIN h \cup {Nil} /\ h[m].r \in DOMAIN h \cup {Nil}
  BY <1>1, <1>2 DEF Spans, Spanned
<1>4. Height(h, h[m].l) \in Nat /\ Height(h, h[m].r) \in Nat
  BY <1>2, <1>3, HeightType
<1>. DEFINE a == Height(h, h[m].l)
            b == Height(h, h[m].r)
<1>5. a \in Nat /\ b \in Nat /\ h[m].height = 1 + Higher(a, b)
  BY <1>2, <1>4 DEF RightHeight
<1>. HIDE DEF a, b
<1>6. h[m].height \in Nat /\ h[m].height >= 1 /\ a < h[m].height /\ b < h[m].height
  BY <1>5 DEF Higher
<1>. QED
  BY <1>4, <1>6 DEF a, b

\* The i-th node of a stack is that much lower than b.
Fits(h, st, b) == \A i \in 1..Len(st) : h[st[i]].height + i <= b + 1

\* The nodes of a descent are lower and lower.
LEMMA DescentFits ==
  ASSUME NEW h, NEW n, NEW A, IsTree(h, n, A), IsFiniteSet(DOMAIN h), NEW k \in Sought,
         NEW d, d = Descent(h, n, k)
  PROVE  Fits(h, d, Height(h, n))
<1>. DEFINE N == Len(d)
            H == Height(h, n)
            S == {j \in Nat : j + 1 <= N => h[d[j + 1]].height + (j + 1) <= H + 1}
<1>1. /\ N \in Nat /\ \A i \in 1..N : d[i] \in A /\ d[i] \in Key /\ d[i] # Nil
      /\ \A i \in 1..N - 1 : d[i + 1] = Below(h, d[i], k)
      /\ d # <<>> => d[1] = n
  BY DescentParts
<1>2. H \in Nat
  BY HeightType, TreeKeys
<1>3. 0 \in S
  <2>. SUFFICES ASSUME 1 <= N PROVE h[d[1]].height + 1 <= H + 1
    OBVIOUS
  <2>1. d[1] = n /\ d[1] \in A /\ d[1] # Nil
    BY <1>1
  <2>2. H = h[d[1]].height
    BY <2>1 DEF Height
  <2>. QED
    BY <1>2, <2>2
<1>. HIDE DEF N, H
<1>4. ASSUME NEW j \in Nat, j \in S PROVE j + 1 \in S
  <2>. SUFFICES ASSUME (j + 1) + 1 <= N PROVE h[d[(j + 1) + 1]].height + ((j + 1) + 1) <= H + 1
    OBVIOUS
  <2>. DEFINE m == d[j + 1]
              e == d[(j + 1) + 1]
  <2>1. j + 1 \in 1..N - 1 /\ j + 1 \in 1..N /\ (j + 1) + 1 \in 1..N /\ h[m].height + (j + 1) <= H + 1
    BY <1>1, <1>4
  <2>2. m \in A /\ e \in A /\ e # Nil /\ e = Below(h, m, k)
    BY <1>1, <2>1
  <2>. HIDE DEF m, e
  <2>3. /\ h[m].height \in Nat /\ h[e].height \in Nat
        /\ Height(h, h[m].l) < h[m].height /\ Height(h, h[m].r) < h[m].height
    BY <2>2, HeightsFall
  <2>4. e = h[m].l \/ e = h[m].r
    BY <2>2 DEF Below
  <2>5. h[e].height < h[m].height
    BY <2>2, <2>3, <2>4 DEF Height
  <2>6. h[e].height + ((j + 1) + 1) <= H + 1
    BY <1>2, <2>1, <2>3, <2>5
  <2>. QED
    BY <2>6 DEF e
<1>5. Nat \subseteq S
  <2>1. \A j \in Nat : j \in S => j + 1 \in S
    BY <1>4
  <2>. HIDE DEF S
  <2>. QED
    BY <1>3, <2>1, CountUp
<1>6. ASSUME NEW i \in 1..N PROVE h[d[i]].height + i <= H + 1
  <2>1. i - 1 \in Nat /\ (i - 1) + 1 = i /\ (i - 1) + 1 <= N
    BY <1>1
  <2>2. i - 1 \in S
    BY <1>5, <2>1
  <2>. QED
    BY <2>1, <2>2
<1>. QED
  BY <1>6 DEF Fits, N, H

\* Pushing a node, if there is room for it, and its left descendants.
LEMMA PushFits ==
  ASSUME NEW h, NEW n, NEW A, IsTree(h, n, A), IsFiniteSet(DOMAIN h),
         NEW st \in Seq(DOMAIN h), NEW b \in Nat, Fits(h, st, b), Height(h, n) + Len(st) <= b,
         NEW v, v = Pushed(h, st, n)
  PROVE  Fits(h, v, b)
<1>. DEFINE d == Descent(h, n, Lowest)
            N == Len(d)
            a == Len(st)
            H == Height(h, n)
            D == DOMAIN h
<1>1. Lowest \in Sought
  BY DEF Sought
<1>2. d \in Seq(A) /\ N \in Nat /\ \A i \in 1..N : d[i] \in A
  BY <1>1, DescentParts
<1>3. \A i \in 1..N : h[d[i]].height + i <= H + 1
  BY <1>1, DescentFits DEF Fits
<1>4. H \in Nat /\ a \in Nat /\ A \subseteq D /\ H + a <= b
  BY HeightType, TreeKeys
<1>5. v = st \o d
  BY DEF Pushed
<1>. HIDE DEF d, H
<1>6. d \in Seq(D)
  BY <1>2, <1>4
<1>. HIDE DEF D
<1>7. /\ Len(v) = a + N /\ (\A i \in 1..a : v[i] = st[i])
      /\ \A i \in 1..N : v[a + i] = d[i]
  BY <1>4, <1>5, <1>6 DEF D
<1>8. \A i \in 1..N : h[d[i]].height \in Nat
  BY <1>2, HeightsFall
<1>9. \A i \in 1..a : h[st[i]].height + i <= b + 1
  BY DEF Fits
<1>. HIDE DEF N, a
<1>10. ASSUME NEW i \in 1..Len(v) PROVE h[v[i]].height + i <= b + 1
  <2>1. CASE i <= a
    <3>1. i \in 1..a
      BY <1>2, <1>4, <1>7, <2>1
    <3>. QED
      BY <1>7, <1>9, <3>1
  <2>2. CASE i > a
    <3>. DEFINE j == i - a
    <3>1. j \in 1..N /\ a + j = i
      BY <1>2, <1>4, <1>7, <2>2
    <3>2. v[i] = d[j]
      BY <1>7, <3>1
    <3>3. h[d[j]].height \in Nat /\ h[d[j]].height + j <= H + 1
      BY <1>3, <1>8, <3>1
    <3>. QED
      BY <1>4, <3>1, <3>2, <3>3
  <2>. QED
    BY <1>2, <1>4, <1>7, <2>1, <2>2
<1>. QED
  BY <1>10 DEF Fits

\* The nodes that a search pushes.
LEMMA SeekFits ==
  ASSUME IsTree(heap, root, DOMAIN heap), IsFiniteSet(DOMAIN heap), NEW k \in Key
  PROVE  Fits(heap, Seek(k).stack, Height(heap, root))
<1>. DEFINE d == Descent(heap, root, k)
            N == Len(d)
            H == Height(heap, root)
            D == DOMAIN heap
            Good(t, i) == t.stack \in Seq(D) /\ Len(t.stack) <= i /\ Fits(heap, t.stack, H)
<1>1. k \in Sought /\ d = Descent(heap, root, k)
  BY DEF Sought
<1>2. N \in Nat /\ \A i \in 1..N : d[i] \in D /\ heap[d[i]].height \in Nat
  BY <1>1, DescentParts, HeightsFall
<1>3. \A i \in 1..N : heap[d[i]].height + i <= H + 1
  BY <1>1, DescentFits DEF Fits
<1>4. H \in Nat
  BY HeightType, TreeKeys
<1>5. PICK f : /\ f[0] = Fresh
               /\ \A i \in 1..N : f[i] = Visit(f[i - 1], d[i], k)
               /\ Seek(k) = f[N]
  BY <1>2, SeekSteps
<1>. HIDE DEF d, N, H
<1>6. Good(f[0], 0)
  BY <1>5 DEF Fresh, Fits
<1>. HIDE DEF D
<1>7. ASSUME NEW i \in Nat, i + 1 <= N, Good(f[i], i) PROVE Good(f[i + 1], i + 1)
  <2>. DEFINE t == f[i]
              m == d[i + 1]
              st == t.stack
              a == Len(st)
              u == Visit(t, m, k)
  <2>1. f[i + 1] = u /\ m \in D /\ heap[m].height \in Nat /\ heap[m].height + (i + 1) <= H + 1
    <3>1. i + 1 \in 1..N /\ (i + 1) - 1 = i
      BY <1>2, <1>7
    <3>. QED
      BY <1>2, <1>3, <1>5, <3>1
  <2>2. st \in Seq(D) /\ a \in Nat /\ a <= i /\ \A j \in 1..a : heap[st[j]].height + j <= H + 1
    BY <1>7 DEF Fits
  <2>3. u.stack = Append(st, m) \/ u.stack = st
    BY DEF Visit
  <2>. HIDE DEF m, st, a, u
  <2>4. CASE u.stack = st
    BY <1>7, <2>1, <2>2, <2>4 DEF Fits, a
  <2>5. CASE u.stack = Append(st, m)
    <3>. DEFINE v == Append(st, m)
    <3>1. v \in Seq(D) /\ Len(v) = a + 1 /\ v[a + 1] = m /\ \A j \in 1..a : v[j] = st[j]
      BY <2>1, <2>2 DEF a
    <3>. HIDE DEF v
    <3>2. ASSUME NEW j \in 1..Len(v) PROVE heap[v[j]].height + j <= H + 1
      <4>1. CASE j \in 1..a
        BY <2>2, <3>1, <4>1
      <4>2. CASE j = a + 1
        <5>1. v[j] = m
          BY <3>1, <4>2
        <5>2. heap[m].height + j <= H + 1
          BY <1>4, <2>1, <2>2, <4>2
        <5>. QED
          BY <5>1, <5>2
      <4>. QED
        BY <2>2, <3>1, <4>1, <4>2
    <3>3. Fits(heap, v, H)
      BY <3>2 DEF Fits
    <3>4. Len(v) <= i + 1
      BY <2>2, <3>1
    <3>5. u.stack = v
      BY <2>5 DEF v
    <3>. QED
      BY <2>1, <3>1, <3>3, <3>4, <3>5
  <2>. QED
    BY <2>3, <2>4, <2>5
<1>. DEFINE S == {i \in Nat : i <= N => Good(f[i], i)}
<1>. HIDE DEF Good
<1>8. 0 \in S
  BY <1>6
<1>9. ASSUME NEW i \in Nat, i \in S PROVE i + 1 \in S
  BY <1>2, <1>7, <1>9
<1>10. Nat \subseteq S
  <2>1. \A i \in Nat : i \in S => i + 1 \in S
    BY <1>9
  <2>. HIDE DEF S
  <2>. QED
    BY <1>8, <2>1, CountUp
<1>11. Good(f[N], N)
  BY <1>2, <1>10
<1>. QED
  BY <1>5, <1>11 DEF Good, H

StackInv == Fits(heap, it.stack, Height(heap, root))

\* Every step keeps the nodes of the stack that low.
LEMMA StackFits ==
  ASSUME Inv, StackInv, [Next]_vars
  PROVE  StackInv'
<1>. DEFINE b == Height(heap, root)
<1>1. IsTree(heap, root, DOMAIN heap) /\ IsFiniteSet(DOMAIN heap) /\ Heap(heap) /\ root \in DOMAIN heap \cup {Nil}
  BY TreeKeys DEF Inv, TreeInv
<1>2. b \in Nat
  BY <1>1, HeightType
<1>3. CASE UNCHANGED vars
  BY <1>3 DEF vars, StackInv
<1>4. CASE Forget
  BY <1>4 DEF Forget, Fresh, StackInv, Fits
<1>5. CASE avl_it_start
  <2>1. it'.stack = Pushed(heap, <<>>, root) /\ heap' = heap /\ root' = root
    BY <1>5 DEF avl_it_start, Fresh, tree, Push, Pushed
  <2>2. <<>> \in Seq(DOMAIN heap) /\ Fits(heap, <<>>, b) /\ Height(heap, root) + Len(<<>>) <= b
    BY <1>2 DEF Fits
  <2>3. Fits(heap, Pushed(heap, <<>>, root), b)
    <3>. HIDE DEF b
    <3>. QED
      BY <1>1, <1>2, <2>2, PushFits
  <2>. QED
    BY <2>1, <2>3 DEF StackInv
<1>6. ASSUME NEW k \in Key, avl_it_start_at(k) PROVE StackInv'
  <2>1. it' = Seek(k) /\ heap' = heap /\ root' = root
    BY <1>6 DEF avl_it_start_at, tree
  <2>2. Fits(heap, Seek(k).stack, b)
    BY <1>1, SeekFits
  <2>. QED
    BY <2>1, <2>2 DEF StackInv
<1>7. CASE avl_it_next
  <2>. DEFINE st == it.stack
              N == Len(st)
              x == st[N]
              c == SubSeq(st, 1, N - 1)
              r == heap[x].r
              v == Pushed(heap, c, r)
  <2>1. heap' = heap /\ root' = root
    BY <1>7 DEF avl_it_next, tree
  <2>2. st \in Seq(DOMAIN heap) /\ N \in Nat /\ \A i \in 1..N : heap[st[i]].height + i <= b + 1
    BY DEF Inv, IterInv, Stacked, Base, StackInv, Fits
  <2>3. CASE N = 0
    <3>1. it' = it
      BY <1>7, <2>2, <2>3 DEF avl_it_next
    <3>. QED
      BY <2>1, <3>1 DEF StackInv
  <2>4. CASE N > 0
    <3>1. it'.stack = v
      <4>1. it' = After(x, v, it)
        <5>1. v = Push(SubSeq(it.stack, 1, Len(it.stack) - 1), heap[it.stack[Len(it.stack)]].r)
          BY DEF Push, Pushed
        <5>. HIDE DEF v
        <5>. QED
          BY <1>7, <2>2, <2>4, <5>1 DEF avl_it_next
      <4>. HIDE DEF x, v
      <4>. QED
        BY <4>1 DEF After
    <3>2. /\ c \in Seq(DOMAIN heap) /\ Len(c) = N - 1 /\ x \in DOMAIN heap
          /\ \A i \in 1..N - 1 : c[i] = st[i]
      <4>1. st # <<>>
        BY <2>4
      <4>. HIDE DEF st
      <4>. QED
        BY <2>2, <4>1, ButLast
    <3>3. PICK X : IsTree(heap, r, X)
      <4>1. N \in 1..N
        BY <2>2, <2>4
      <4>. QED
        BY <4>1 DEF Inv, IterInv, Stacked, Base
    <3>4. Height(heap, r) \in Nat /\ Height(heap, r) < heap[x].height /\ heap[x].height \in Nat
      <4>. HIDE DEF x
      <4>. QED
        BY <1>1, <3>2, HeightsFall
    <3>5. heap[x].height + N <= b + 1
      <4>1. N \in 1..N
        BY <2>2, <2>4
      <4>. QED
        BY <2>2, <4>1
    <3>. HIDE DEF x, c, r, N, b
    <3>6. Height(heap, r) + Len(c) <= b
      BY <1>2, <2>2, <2>4, <3>2, <3>4, <3>5
    <3>7. Fits(heap, c, b)
      <4>1. ASSUME NEW i \in 1..Len(c) PROVE heap[c[i]].height + i <= b + 1
        <5>1. i \in 1..N - 1 /\ i \in 1..N
          BY <2>2, <3>2
        <5>. QED
          BY <2>2, <3>2, <5>1
      <4>. QED
        BY <4>1 DEF Fits
    <3>8. Fits(heap, v, b)
      BY <1>1, <1>2, <3>2, <3>3, <3>6, <3>7, PushFits
    <3>. QED
      BY <2>1, <3>1, <3>8 DEF StackInv, b
  <2>. QED
    BY <2>2, <2>3, <2>4
<1>. QED
  BY <1>3, <1>4, <1>5, <1>6, <1>7 DEF Next, avl_insert, avl_remove, avl_remove_all

\* There are never more of them than the tree is high.
LEMMA StackDepth ==
  ASSUME Inv, StackInv
  PROVE  Len(it.stack) <= Height(heap, root)
<1>. DEFINE b == Height(heap, root)
            st == it.stack
            N == Len(st)
<1>1. IsTree(heap, root, DOMAIN heap) /\ Heap(heap) /\ root \in DOMAIN heap \cup {Nil}
  BY TreeKeys DEF Inv, TreeInv
<1>2. b \in Nat
  BY <1>1, HeightType
<1>3. st \in Seq(DOMAIN heap) /\ N \in Nat /\ \A i \in 1..N : heap[st[i]].height + i <= b + 1
  BY DEF Inv, IterInv, Stacked, Base, StackInv, Fits
<1>4. CASE N = 0
  BY <1>2, <1>4
<1>5. CASE N > 0
  <2>1. N \in 1..N /\ st[N] \in DOMAIN heap
    BY <1>3, <1>5
  <2>2. heap[st[N]].height \in Nat /\ heap[st[N]].height >= 1
    BY <1>1, <2>1, HeightsFall
  <2>3. heap[st[N]].height + N <= b + 1
    BY <1>3, <2>1
  <2>. HIDE DEF N, b
  <2>4. N <= b
    BY <1>2, <1>3, <2>2, <2>3
  <2>. QED
    BY <2>4 DEF N, b
<1>. QED
  BY <1>3, <1>4, <1>5

\* The iterator has come to x: avl_it_peek_prev() knows what is before it.
LEMMA PrevKnown ==
  ASSUME NEW h, IsFiniteSet(DOMAIN h), Heap(h), NEW x \in DOMAIN h, LeftKnown(h, x),
         NEW p, h[x].l # Nil \/ IsPred(h, x, p),
         NEW d, d = Descent(h, h[x].l, Highest)
  PROVE  IsPred(h, x, IF d # <<>> THEN d[Len(d)] ELSE p)
<1>1. CASE h[x].l # Nil
  <2>1. d # <<>> /\ IsPred(h, x, d[Len(d)])
    BY <1>1, LeftmostPred
  <2>. QED
    BY <2>1
<1>2. CASE h[x].l = Nil
  <2>1. PICK X : IsTree(h, h[x].l, X)
    BY DEF LeftKnown
  <2>2. IsTree(h, Nil, X) /\ X = {} /\ Highest \in Sought
    BY <1>2, <2>1, TreeKeys DEF Sought
  <2>3. d \in Seq({})
    BY <1>2, <2>2, DescentParts
  <2>4. d = <<>>
    BY <2>3
  <2>. QED
    BY <1>2, <2>4
<1>. QED
  BY <1>1, <1>2

\* avl_it_next() returns the first of the elements that are left to return, and
\* the element before it is found by avl_it_peek_prev().
LEMMA NextInv ==
  ASSUME Inv, avl_it_next
  PROVE  /\ Inv' /\ Elems' = Elems
         /\ \/ Rest = {} /\ got' = Nil
            \/ got' \in Rest /\ \A e \in Rest : ~(cmp(e, got') < 0)
         /\ Rest' = Rest \ {got'}
<1>. DEFINE st == it.stack
            x == Top(st)
            c == ButTop(st)
            r == heap[x].r
            v == Pushed(heap, c, r)
            p == IF r = Nil THEN it.rt2 ELSE x
<1>1. /\ IsTree(heap, root, DOMAIN heap) /\ IsFiniteSet(DOMAIN heap) /\ count = Cardinality(DOMAIN heap)
      /\ Heap(heap) /\ DOMAIN heap \subseteq Key /\ Nil \notin Key
  BY TreeKeys, NilIsNoKey DEF Inv, TreeInv
<1>2. Stacked(heap, st, it.rt2) /\ {it.c, it.rt, it.rt2, got} \subseteq Key \cup {Nil}
  BY DEF Inv, IterInv
<1>3. heap' = heap /\ root' = root /\ count' = count
  BY DEF avl_it_next, tree
<1>4. TreeInv' /\ Elems' = Elems
  BY <1>1, <1>3 DEF TreeInv, Elems
<1>5. st \in Seq(DOMAIN heap) /\ Len(st) \in Nat
  BY <1>2 DEF Stacked, Base
<1>6. CASE Len(st) = 0
  <2>1. got' = Nil /\ it' = it /\ st = <<>>
    BY <1>5, <1>6 DEF avl_it_next
  <2>2. IterInv'
    BY <1>2, <1>3, <2>1 DEF IterInv
  <2>3. PrevIsRight'
    BY <2>1 DEF PrevIsRight
  <2>4. Rest = {} /\ Rest' = {}
    BY <2>1, <1>3 DEF Rest
  <2>. QED
    BY <1>4, <2>1, <2>2, <2>3, <2>4 DEF Inv
<1>7. CASE Len(st) > 0
  <2>1. st # <<>>
    BY <1>7
  <2>2. got' = x /\ it' = [stack |-> v, c |-> x, rt |-> it.rt2, rt2 |-> p]
    <3>1. x = it.stack[Len(it.stack)] /\ v = Push(SubSeq(it.stack, 1, Len(it.stack) - 1), heap[x].r)
      BY DEF Push, Top, ButTop, Pushed
    <3>2. got' = x /\ it' = After(x, v, it)
      <4>. HIDE DEF x, v
      <4>. QED
        BY <1>5, <1>7, <3>1 DEF avl_it_next
    <3>3. After(x, v, it) = [stack |-> v, c |-> x, rt |-> it.rt2, rt2 |-> p]
      <4>. HIDE DEF x, v
      <4>. QED
        BY DEF After
    <3>. HIDE DEF x, v, p
    <3>. QED
      BY <3>2, <3>3
  <2>3. x = Top(st) /\ c = ButTop(st) /\ v = Pushed(heap, c, heap[x].r)
    OBVIOUS
  <2>4. it'.stack = v /\ it'.c = x /\ it'.rt = it.rt2 /\ it'.rt2 = p
    BY <2>2
  <2>5. p = IF heap[x].r = Nil THEN it.rt2 ELSE x
    OBVIOUS
  <2>. HIDE DEF st, x, c, r, v, p
  <2>6. /\ x \in DOMAIN heap
        /\ Stacked(heap, v, p)
        /\ FromTop(heap, v) = {e \in DOMAIN heap : cmp(e, x) > 0}
    BY <1>1, <1>2, <2>1, <2>3, <2>5, PopTop
  <2>7. x \in Key /\ p \in Key \cup {Nil}
    BY <1>1, <1>2, <2>5, <2>6
  <2>8. IterInv'
    BY <1>2, <1>3, <2>2, <2>4, <2>6, <2>7 DEF IterInv
  <2>9. Rest = {e \in DOMAIN heap : cmp(e, x) >= 0}
    BY <2>1, <2>3 DEF Rest, Elems, Top, st
  <2>10. Rest' = {e \in DOMAIN heap : cmp(e, x) > 0}
    BY <1>3, <2>4, <2>6 DEF Rest, Elems, FromTop, Top
  <2>11. \A e \in DOMAIN heap : cmp(e, x) \in Int /\ (cmp(e, x) = 0 <=> e = x)
    BY <1>1, <2>7, Order
  <2>12. Rest' = Rest \ {x} /\ x \in Rest /\ \A e \in Rest : ~(cmp(e, x) < 0)
    BY <2>6, <2>9, <2>10, <2>11
  <2>13. PrevIsRight'
    <3>. DEFINE d == Descent(heap, heap[x].l, Highest)
                q == IF d # <<>> THEN d[Len(d)] ELSE it.rt2
                before == {e \in DOMAIN heap : cmp(e, x) < 0}
    <3>1. LeftKnown(heap, x) /\ (heap[x].l # Nil \/ IsPred(heap, x, it.rt2))
      <4>1. Len(st) \in 1..Len(st) /\ x = st[Len(st)]
        BY <1>5, <1>7, <2>3 DEF Top
      <4>. QED
        BY <1>2, <2>1, <2>3, <4>1 DEF Stacked, Base
    <3>2. avl_it_peek_prev' = q
      <4>1. x # Nil
        BY <1>1, <2>7
      <4>. QED
        BY <1>3, <2>4, <4>1 DEF avl_it_peek_prev
    <3>3. IsPred(heap, x, q)
      BY <1>1, <2>6, <3>1, PrevKnown
    <3>. HIDE DEF q
    <3>4. \/ before = {} /\ q = Nil
          \/ q \in before /\ \A e \in before : cmp(e, q) <= 0
      BY <3>3 DEF IsPred
    <3>. QED
      BY <1>3, <2>2, <3>2, <3>4 DEF PrevIsRight, Elems
  <2>. QED
    BY <1>4, <2>2, <2>8, <2>12, <2>13 DEF Inv
<1>. QED
  BY <1>5, <1>6, <1>7

\* Every operation keeps the invariant.
LEMMA StepInv == Inv /\ [Next]_vars => Inv'
<1>. SUFFICES ASSUME Inv, [Next]_vars PROVE Inv'
  OBVIOUS
<1>1. CASE UNCHANGED vars
  <2>1. TreeInv' /\ IterInv'
    BY <1>1 DEF vars, Inv, TreeInv, IterInv
  <2>2. PrevIsRight'
    BY <1>1 DEF vars, Inv, PrevIsRight, Elems, avl_it_peek_prev
  <2>. QED
    BY <2>1, <2>2 DEF Inv
<1>2. CASE Next
  BY <1>2, InsertInv, RemoveInv, RemoveAllInv, StartInv, StartAtInv, NextInv DEF Next
<1>. QED
  BY <1>1, <1>2

\* Every operation leaves the iterator what is still owed of what was asked for.
LEMMA StepAsked ==
  ASSUME Inv, AskedInv, [Next]_vars
  PROVE  AskedInv'
<1>1. Elems \subseteq Key /\ Rest \subseteq Elems /\ Nil \notin Key /\ Lowest \notin Key /\ Lowest # Nil
  BY TreeKeys, KeyAssumption DEF Inv, TreeInv, Elems, Rest
<1>2. CASE UNCHANGED vars
  BY <1>2 DEF vars, AskedInv, Asked, Rest, Elems
<1>3. ASSUME Forget, Rest' = {} PROVE AskedInv'
  BY <1>3 DEF Forget, AskedInv, Asked
<1>4. ASSUME NEW k \in Key, avl_insert(k) PROVE AskedInv'
  BY <1>3, <1>4, InsertInv DEF avl_insert
<1>5. ASSUME NEW k \in Key, avl_remove(k) PROVE AskedInv'
  BY <1>3, <1>5, RemoveInv DEF avl_remove
<1>6. CASE avl_remove_all
  BY <1>3, <1>6, RemoveAllInv DEF avl_remove_all
<1>7. CASE avl_it_start
  <2>1. Rest' = Elems' /\ asked' = Lowest /\ given' = {}
    BY <1>7, StartInv DEF avl_it_start
  <2>. QED
    BY <1>1, <2>1 DEF AskedInv, Asked
<1>8. ASSUME NEW k \in Key, avl_it_start_at(k) PROVE AskedInv'
  <2>1. Rest' = {e \in Elems' : ~(cmp(e, k) < 0)} /\ asked' = k /\ given' = {}
    BY <1>8, StartAtInv DEF avl_it_start_at
  <2>. QED
    BY <1>1, <2>1 DEF AskedInv, Asked
<1>9. CASE avl_it_next
  <2>1. /\ Elems' = Elems /\ Rest' = Rest \ {got'} /\ got' \in Rest \cup {Nil}
        /\ asked' = asked /\ given' = given \cup ({got'} \ {Nil})
    BY <1>9, NextInv DEF avl_it_next
  <2>2. asked' \in Key \cup {Lowest, Nil} /\ given' \subseteq Key
    BY <1>1, <2>1 DEF AskedInv
  <2>3. Rest' = Asked'
    BY <1>1, <2>1 DEF AskedInv, Asked
  <2>. QED
    BY <2>2, <2>3 DEF AskedInv
<1>. QED
  BY <1>2, <1>4, <1>5, <1>6, <1>7, <1>8, <1>9 DEF Next

\* The invariant holds, whatever sequence of operations ran.
THEOREM Invariant == Spec => [](Inv /\ AskedInv /\ StackInv)
<1>1. Init => Inv /\ StackInv
  BY InitInv DEF Init, Fresh, StackInv, Fits
<1>2. Init => AskedInv
  <2>. SUFFICES ASSUME Init PROVE AskedInv
    OBVIOUS
  <2>1. it.stack = <<>> /\ asked = Nil /\ given = {}
    BY DEF Init, Fresh
  <2>. QED
    BY <2>1 DEF AskedInv, Asked, Rest
<1>3. Inv /\ AskedInv /\ StackInv /\ [Next]_vars => Inv' /\ AskedInv' /\ StackInv'
  BY StepInv, StepAsked, StackFits
<1>. QED
  BY <1>1, <1>2, <1>3, PTL DEF Spec

\* Whatever was inserted and removed, avl_get() finds the elements and nothing
\* else, every stored height is right, count is that of the elements, and the stack
\* of an iterator never holds more nodes than the tree is high (the size of _s in
\* struct avl_it is "the max avl depth").
THEOREM TreesAreRight == Spec => []HeightsAndOrder
<1>1. Inv /\ AskedInv /\ StackInv => HeightsAndOrder
  <2>. SUFFICES ASSUME Inv, AskedInv, StackInv PROVE HeightsAndOrder
    OBVIOUS
  <2>1. /\ IsTree(heap, root, DOMAIN heap) /\ IsFiniteSet(DOMAIN heap) /\ count = Cardinality(DOMAIN heap)
        /\ Stacked(heap, it.stack, it.rt2) /\ {it.c, it.rt, it.rt2, got} \subseteq Key \cup {Nil}
    BY DEF Inv, TreeInv, IterInv
  <2>2. DOMAIN heap \subseteq Key /\ \A n \in DOMAIN heap : RightHeight(heap, n)
    BY <2>1, TreeKeys
  <2>3. it.stack \in Seq(DOMAIN heap)
    BY <2>1 DEF Stacked, Base
  <2>4. it.stack \in Seq(Key)
    BY <2>2, <2>3
  <2>5. TypeOK
    BY <2>1, <2>2, <2>4 DEF TypeOK, Elems, AskedInv
  <2>6. \A k \in Key : avl_get(heap, root, k) = IF k \in DOMAIN heap THEN k ELSE Nil
    BY <2>1, GetFinds
  <2>7. Len(it.stack) <= Height(heap, root)
    BY StackDepth
  <2>. QED
    BY <2>2, <2>5, <2>6, <2>7 DEF HeightsAndOrder, Elems, RightHeight
<1>. QED
  BY <1>1, Invariant, PTL

\* During an iteration from any start, avl_it_peek_prev() returns the element
\* before the one that avl_it_next() returned last.
THEOREM PrevIsAlwaysRight == Spec => []PrevIsRight
<1>1. Inv => PrevIsRight
  BY DEF Inv
<1>. QED
  BY <1>1, Invariant, PTL

\* The loops over what is at and below a path, which start at the path and stop at
\* the first one that does not start with it, meet all of it.
THEOREM SubtreesAreAlwaysRuns == Spec => []SubtreesAreRuns
<1>1. Inv => SubtreesAreRuns
  <2>. SUFFICES ASSUME Inv, NEW p \in Key, NEW q \in Elems, NEW r \in Elems
       PROVE  RunOf(p, q, r)
    BY DEF SubtreesAreRuns
  <2>1. p \in PathSet /\ q \in PathSet /\ r \in PathSet
    BY PathTreeAssumption, TreeKeys DEF Inv, TreeInv, Elems
  <2>. QED
    BY <2>1, SubtreeRuns
<1>. QED
  BY <1>1, Invariant, PTL

\* PathBefore is the order of the tree.
LEMMA OrderOfPaths ==
  ASSUME NEW a \in Key, NEW b \in Key
  PROVE  PathBefore(a, b) <=> cmp(a, b) < 0
  BY PathTreeAssumption, PathsInOrder

\* What can be found by its key is what is in memory.
LEMMA MembersAreElems == Inv => Members = Elems
<1>. SUFFICES ASSUME Inv PROVE Members = Elems
  OBVIOUS
<1>1. IsTree(heap, root, DOMAIN heap) /\ IsFiniteSet(DOMAIN heap) /\ DOMAIN heap \subseteq Key
  BY TreeKeys DEF Inv, TreeInv
<1>2. ASSUME NEW k \in Key
      PROVE  k \in Members <=> k \in DOMAIN heap
  <2>. DEFINE d == Descent(heap, root, k)
  <2>1. k \in DOMAIN heap => d # <<>> /\ d[Len(d)] = k
    BY <1>1, SearchFinds
  <2>2. k \notin DOMAIN heap => \A j \in 1..Len(d) : d[j] # k
    BY <1>1, SearchFinds
  <2>3. d \in Seq(DOMAIN heap)
    BY <1>1, DescentEnds DEF Follows, Sought
  <2>4. k \in Members <=> d # <<>> /\ d[Len(d)] = k
    BY DEF Members
  <2>. HIDE DEF d
  <2>5. d # <<>> => Len(d) \in 1..Len(d)
    BY <2>3
  <2>. QED
    BY <2>1, <2>2, <2>4, <2>5
<1>3. Members \subseteq Key
  BY DEF Members
<1>. QED
  BY <1>1, <1>2, <1>3 DEF Elems

\* What the iterator still owes, in the terms of the ordered set.
LEMMA OwedIsRest ==
  ASSUME Inv, AskedInv
  PROVE  Set!Owed = Rest
<1>1. Members = Elems /\ Elems \subseteq Key /\ Rest = Asked /\ asked \in Key \cup {Lowest, Nil}
  BY MembersAreElems, TreeKeys DEF Inv, TreeInv, Elems, AskedInv
<1>2. \A e \in Elems : asked \in Key => (PathBefore(e, asked) <=> cmp(e, asked) < 0)
  BY <1>1, OrderOfPaths
<1>. QED
  BY <1>1, <1>2 DEF Set!Owed, Asked

\* A tree of paths implements the ordered set of its paths, in the order that is
\* documented for the keys: avl_insert(), avl_remove() and avl_remove_all() change
\* what can be found in the tree by their keys and nothing else, and avl_it_next()
\* returns what is not before the key that avl_it_start_at() was asked for.
THEOREM Refinement == Spec => ImplementsOrderedSet
<1>1. Init => Set!Init
  <2>. SUFFICES ASSUME Init PROVE Set!Init
    OBVIOUS
  <2>1. Elems = {} /\ asked = Nil /\ given = {} /\ got = Nil
    BY DEF Init, Elems
  <2>2. Members = {}
    BY <2>1, InitInv, MembersAreElems
  <2>. QED
    BY <2>1, <2>2 DEF Set!Init
<1>0. Inv' => Members' = Elems'
  <2>1. (Inv => Members = Elems)'
    BY MembersAreElems, PTL
  <2>. QED
    BY <2>1
<1>2. Inv /\ AskedInv /\ Inv' /\ [Next]_vars => [Set!Next]_<<Members, asked, given, got>>
  <2>. SUFFICES ASSUME Inv, AskedInv, Inv', [Next]_vars
       PROVE  [Set!Next]_<<Members, asked, given, got>>
    OBVIOUS
  <2>0. Members = Elems /\ Members' = Elems' /\ Elems \subseteq Key
    <3>1. Members = Elems
      BY MembersAreElems
    <3>2. Members' = Elems'
      BY <1>0
    <3>3. Elems \subseteq Key
      BY TreeKeys DEF Inv, TreeInv, Elems
    <3>. QED
      BY <3>1, <3>2, <3>3
  <2>1. CASE UNCHANGED vars
    <3>1. Elems' = Elems /\ UNCHANGED <<asked, given, got>>
      BY <2>1 DEF vars, Elems
    <3>. QED
      BY <2>0, <3>1
  <2>2. ASSUME NEW k \in Key, avl_insert(k) PROVE Set!Next
    <3>1. Members' = Members \cup {k} /\ Forget
      BY <2>0, <2>2, InsertInv DEF avl_insert
    <3>. QED
      BY <3>1 DEF Set!Next, Set!Change, Forget
  <2>3. ASSUME NEW k \in Key, avl_remove(k) PROVE Set!Next
    <3>1. Members' = Members \ {k} /\ Forget
      BY <2>0, <2>3, RemoveInv DEF avl_remove
    <3>. QED
      BY <3>1 DEF Set!Next, Set!Change, Forget
  <2>4. CASE avl_remove_all
    <3>1. Members' = {} /\ Forget
      BY <2>0, <2>4, RemoveAllInv DEF avl_remove_all
    <3>. QED
      BY <3>1 DEF Set!Next, Set!Change, Forget
  <2>5. CASE avl_it_start
    <3>1. Members' = Members /\ asked' = Lowest /\ given' = {} /\ got' = Nil
      BY <2>0, <2>5, StartInv DEF avl_it_start
    <3>. QED
      BY <3>1 DEF Set!Next, Set!Start
  <2>6. ASSUME NEW k \in Key, avl_it_start_at(k) PROVE Set!Next
    <3>1. Members' = Members /\ asked' = k /\ given' = {} /\ got' = Nil
      BY <2>0, <2>6, StartAtInv DEF avl_it_start_at
    <3>. QED
      BY <3>1 DEF Set!Next, Set!Start
  <2>7. CASE avl_it_next
    <3>1. /\ Elems' = Elems /\ asked' = asked /\ given' = given \cup ({got'} \ {Nil})
          /\ \/ Rest = {} /\ got' = Nil
             \/ got' \in Rest /\ \A e \in Rest : ~(cmp(e, got') < 0)
      BY <2>7, NextInv DEF avl_it_next
    <3>2. Rest \subseteq Key /\ Set!Owed = Rest
      BY <2>0, OwedIsRest DEF Rest
    <3>3. \/ Rest = {} /\ got' = Nil
          \/ got' \in Rest /\ \A e \in Rest : ~PathBefore(e, got')
      BY <3>1, <3>2, OrderOfPaths
    <3>4. Set!Advance
      BY <2>0, <3>1, <3>2, <3>3 DEF Set!Advance
    <3>. QED
      BY <3>4 DEF Set!Next
  <2>. QED
    BY <2>1, <2>2, <2>3, <2>4, <2>5, <2>6, <2>7 DEF Next
<1>3. Inv /\ [Next]_vars => Inv'
  BY StepInv
<1>. QED
  BY <1>1, <1>2, <1>3, Invariant, PTL DEF Spec, ImplementsOrderedSet, Set!Spec
=============================================================================

---------------------------- MODULE CacheProofs -----------------------------
(***************************************************************************)
(* Proofs about DataCache, for any keys, paths and JSON values.            *)
(***************************************************************************)
EXTENDS DataCache, FiniteSetTheorems, SequenceTheorems, WellFoundedInduction, TLAPS

-----------------------------------------------------------------------------
(* Paths                                                                   *)

\* Paths are sequences of keys, and the prefixes of a path are paths.
LEMMA PathFacts ==
  /\ MaxDepth \in Nat
  /\ <<>> \in Path
  /\ \A p \in Path : /\ p \in Seq(Key) /\ Len(p) \in Nat /\ Len(p) <= MaxDepth
                     /\ Prefixes(p) \subseteq Path
BY PathAssumption DEF GoodPaths

\* starts_with() orders the paths.
LEMMA PrefixOrder ==
  ASSUME NEW p \in Seq(Key), NEW q \in Seq(Key), NEW r \in Seq(Key)
  PROVE  /\ starts_with(p, p) /\ starts_with(p, <<>>)
         /\ starts_with(p, q) /\ starts_with(q, r) => starts_with(p, r)
         /\ starts_with(p, q) /\ starts_with(q, p) => p = q
         /\ starts_with(r, p) /\ starts_with(r, q) /\ Len(p) <= Len(q) => starts_with(q, p)
BY DEF starts_with

\* Two prefixes of a path are comparable.
LEMMA PrefixesCompare ==
  ASSUME NEW p \in Seq(Key), NEW q \in Seq(Key), NEW r \in Seq(Key),
         starts_with(r, p), starts_with(r, q)
  PROVE  starts_with(p, q) \/ starts_with(q, p)
<1>1. Len(p) \in Nat /\ Len(q) \in Nat /\ (Len(p) <= Len(q) \/ Len(q) <= Len(p))
  OBVIOUS
<1>. QED
  BY <1>1, PrefixOrder

\* A part of a path.
LEMMA PartOf ==
  ASSUME NEW p \in Seq(Key), NEW m \in Nat \ {0}, NEW n \in Nat, n <= Len(p), m <= n + 1
  PROVE  /\ SubSeq(p, m, n) \in Seq(Key) /\ Len(SubSeq(p, m, n)) = n + 1 - m
         /\ \A i \in 1..(n + 1 - m) : SubSeq(p, m, n)[i] = p[m + i - 1]
<1>1. \A i \in m..n : p[i] \in Key
  OBVIOUS
<1>2. m \in Int /\ n \in Int
  OBVIOUS
<1>3. /\ SubSeq(p, m, n) \in Seq(Key)
      /\ Len(SubSeq(p, m, n)) = IF m <= n THEN n - m + 1 ELSE 0
      /\ \A i \in 1..(n - m + 1) : SubSeq(p, m, n)[i] = p[m + i - 1]
  BY <1>1, <1>2, SubSeqProperties
<1>. QED
  BY <1>3

\* The prefixes of a path, in the two ways the code goes through them.
LEMMA PrefixesOf ==
  ASSUME NEW p \in Seq(Key), NEW q \in Seq(Key)
  PROVE  q \in Prefixes(p) <=> starts_with(p, q)
<1>1. ASSUME q \in Prefixes(p) PROVE starts_with(p, q)
  <2>1. PICK n \in 0..Len(p) : q = SubSeq(p, 1, n)
    BY <1>1 DEF Prefixes
  <2>. QED
    BY <2>1, SubSeqProperties DEF starts_with
<1>2. ASSUME starts_with(p, q) PROVE q \in Prefixes(p)
  <2>1. Len(q) \in 0..Len(p)
    BY <1>2 DEF starts_with
  <2>2. q = SubSeq(p, 1, Len(q))
    BY <1>2, <2>1, SubSeqProperties DEF starts_with
  <2>. QED
    BY <2>1, <2>2 DEF Prefixes
<1>. QED
  BY <1>1, <1>2

\* The path of the parent is the longest one above.
LEMMA ParentOf ==
  ASSUME NEW p \in Seq(Key), p # <<>>
  PROVE  /\ Parent(p) \in Seq(Key) /\ Len(Parent(p)) = Len(p) - 1
         /\ starts_with(p, Parent(p)) /\ ~starts_with(Parent(p), p)
         /\ p = Append(Parent(p), p[Len(p)]) /\ p[Len(p)] \in Key
         /\ \A q \in Seq(Key) : starts_with(p, q) => q = p \/ starts_with(Parent(p), q)
<1>1. Len(p) \in Nat /\ Len(p) # 0
  OBVIOUS
<1>2. /\ Parent(p) \in Seq(Key) /\ Len(Parent(p)) = Len(p) - 1
      /\ \A i \in 1..(Len(p) - 1) : Parent(p)[i] = p[i]
  <2>. DEFINE n == Len(p) - 1
  <2>1. 1 \in Nat \ {0} /\ n \in Nat /\ n <= Len(p) /\ 1 <= n + 1 /\ n = Len(p) - 1
    BY <1>1
  <2>. HIDE DEF n
  <2>2. /\ SubSeq(p, 1, n) \in Seq(Key) /\ Len(SubSeq(p, 1, n)) = n + 1 - 1
        /\ \A i \in 1..(n + 1 - 1) : SubSeq(p, 1, n)[i] = p[1 + i - 1]
    BY <2>1, PartOf
  <2>3. Parent(p) = SubSeq(p, 1, n)
    BY DEF Parent, n
  <2>. QED
    BY <2>1, <2>2, <2>3
<1>3. starts_with(p, Parent(p)) /\ ~starts_with(Parent(p), p)
  BY <1>1, <1>2 DEF starts_with
<1>4. p = Append(Parent(p), p[Len(p)]) /\ p[Len(p)] \in Key
  BY <1>1, <1>2
<1>5. ASSUME NEW q \in Seq(Key), starts_with(p, q), q # p
      PROVE  starts_with(Parent(p), q)
  <2>1. Len(q) <= Len(p) - 1
    BY <1>5, <1>1 DEF starts_with
  <2>. QED
    BY <2>1, <1>5, <1>2 DEF starts_with
<1>. QED
  BY <1>2, <1>3, <1>4, <1>5

\* The path of a child.
LEMMA ChildOf ==
  ASSUME NEW p \in Seq(Key), NEW k \in Key
  PROVE  /\ Append(p, k) \in Seq(Key) /\ Len(Append(p, k)) = Len(p) + 1
         /\ Append(p, k) # <<>> /\ Parent(Append(p, k)) = p
         /\ starts_with(Append(p, k), p) /\ ~starts_with(p, Append(p, k))
<1>1. /\ Append(p, k) \in Seq(Key) /\ Len(Append(p, k)) = Len(p) + 1
      /\ \A i \in 1..Len(p) : Append(p, k)[i] = p[i]
  OBVIOUS
<1>2. Parent(Append(p, k)) = p
  <2>. DEFINE q == Append(p, k)
  <2>1. q \in Seq(Key) /\ q # <<>>
    BY AppendProperties
  <2>2. Parent(q) \in Seq(Key) /\ Len(Parent(q)) = Len(q) - 1 /\ starts_with(q, Parent(q))
    BY <2>1, ParentOf
  <2>. QED
    BY <2>2, <1>1 DEF starts_with
<1>3. Append(p, k) # <<>>
  BY AppendProperties
<1>. QED
  BY <1>1, <1>2, <1>3 DEF starts_with

\* A path below another one is that one followed by the rest.
Rest(q, p) == SubSeq(q, Len(p) + 1, Len(q))

\* What the rest is.
LEMMA RestOf ==
  ASSUME NEW p \in Seq(Key), NEW q \in Seq(Key), starts_with(q, p)
  PROVE  /\ Rest(q, p) \in Seq(Key) /\ q = p \o Rest(q, p)
         /\ Len(Rest(q, p)) = Len(q) - Len(p)
         /\ \A i \in 1..(Len(q) - Len(p)) : Rest(q, p)[i] = q[Len(p) + i]
<1>1. Len(p) \in Nat /\ Len(q) \in Nat /\ Len(p) <= Len(q)
  BY DEF starts_with
<1>2. /\ Rest(q, p) \in Seq(Key) /\ Len(Rest(q, p)) = Len(q) - Len(p)
      /\ \A i \in 1..(Len(q) - Len(p)) : Rest(q, p)[i] = q[Len(p) + i]
  <2>1. Len(p) + 1 \in Nat \ {0} /\ Len(p) + 1 <= Len(q) + 1 /\ Len(q) <= Len(q)
    BY <1>1
  <2>2. /\ Rest(q, p) \in Seq(Key) /\ Len(Rest(q, p)) = Len(q) + 1 - (Len(p) + 1)
        /\ \A i \in 1..(Len(q) + 1 - (Len(p) + 1)) : Rest(q, p)[i] = q[(Len(p) + 1) + i - 1]
    BY <2>1, <1>1, PartOf DEF Rest
  <2>. QED
    BY <2>2, <1>1
<1>3. q = p \o Rest(q, p)
  <2>. DEFINE t == p \o Rest(q, p)
  <2>1. /\ t \in Seq(Key) /\ Len(t) = Len(q)
        /\ \A i \in 1..Len(q) :
                t[i] = IF i <= Len(p) THEN p[i] ELSE Rest(q, p)[i - Len(p)]
    BY <1>1, <1>2, ConcatProperties
  <2>. HIDE DEF t
  <2>2. ASSUME NEW i \in 1..Len(q) PROVE t[i] = q[i]
    <3>1. CASE i <= Len(p)
      BY <3>1, <2>1 DEF starts_with
    <3>2. CASE i > Len(p)
      <4>1. i - Len(p) \in 1..(Len(q) - Len(p)) /\ Len(p) + (i - Len(p)) = i
        BY <3>2, <1>1
      <4>. QED
        BY <4>1, <3>2, <2>1, <1>2
    <3>. QED
      BY <3>1, <3>2, <1>1
  <2>3. t = q
    BY <2>1, <2>2, SeqEqual
  <2>. QED
    BY <2>3 DEF t
<1>. QED
  BY <1>2, <1>3

\* The rests keep the order.
LEMMA RestOrder ==
  ASSUME NEW p \in Seq(Key), NEW u \in Seq(Key), NEW q \in Seq(Key),
         starts_with(q, u), starts_with(u, p), u # q
  PROVE  /\ Rest(u, p) \in Seq(Key) /\ Rest(q, p) \in Seq(Key)
         /\ starts_with(Rest(q, p), Rest(u, p)) /\ Rest(u, p) # Rest(q, p)
<1>1. starts_with(q, p)
  BY PrefixOrder
<1>2. /\ Rest(u, p) \in Seq(Key) /\ u = p \o Rest(u, p) /\ Len(Rest(u, p)) = Len(u) - Len(p)
      /\ \A i \in 1..(Len(u) - Len(p)) : Rest(u, p)[i] = u[Len(p) + i]
  BY RestOf
<1>3. /\ Rest(q, p) \in Seq(Key) /\ q = p \o Rest(q, p) /\ Len(Rest(q, p)) = Len(q) - Len(p)
      /\ \A i \in 1..(Len(q) - Len(p)) : Rest(q, p)[i] = q[Len(p) + i]
  BY <1>1, RestOf
<1>4. Rest(u, p) # Rest(q, p)
  BY <1>2, <1>3, Zenon
<1>. DEFINE R == Rest(u, p)
            Q == Rest(q, p)
<1>5. /\ R \in Seq(Key) /\ Len(R) = Len(u) - Len(p) /\ Len(Q) = Len(q) - Len(p)
      /\ \A i \in 1..(Len(u) - Len(p)) : R[i] = u[Len(p) + i]
      /\ \A i \in 1..(Len(q) - Len(p)) : Q[i] = q[Len(p) + i]
  BY <1>2, <1>3, Zenon
<1>. HIDE DEF R, Q
<1>6. Len(p) \in Nat /\ Len(u) \in Nat /\ Len(q) \in Nat /\ Len(p) <= Len(u) /\ Len(u) <= Len(q)
  BY DEF starts_with
<1>7. \A i \in 1..Len(u) : q[i] = u[i]
  BY DEF starts_with
<1>8. ASSUME NEW i \in 1..Len(R) PROVE Q[i] = R[i]
  <2>1. Len(p) + i \in 1..Len(u) /\ i \in 1..(Len(q) - Len(p)) /\ i \in 1..(Len(u) - Len(p))
    BY <1>5, <1>6
  <2>2. Q[i] = q[Len(p) + i] /\ R[i] = u[Len(p) + i]
    BY <2>1, <1>5, Zenon
  <2>. QED
    BY <2>1, <2>2, <1>7
<1>9. starts_with(Q, R)
  BY <1>5, <1>6, <1>8 DEF starts_with
<1>. QED
  BY <1>2, <1>3, <1>4, <1>9 DEF R, Q

\* Paths put together.
LEMMA Joined ==
  ASSUME NEW p \in Seq(Key), NEW r \in Seq(Key)
  PROVE  /\ p \o r \in Seq(Key) /\ starts_with(p \o r, p)
         /\ Rest(p \o r, p) = r /\ Len(p \o r) = Len(p) + Len(r)
         /\ \A s \in Seq(Key) : starts_with(p \o r, p \o s) <=> starts_with(r, s)
<1>1. /\ p \o r \in Seq(Key) /\ Len(p \o r) = Len(p) + Len(r)
      /\ \A i \in 1..Len(p) : (p \o r)[i] = p[i]
      /\ \A i \in 1..Len(r) : (p \o r)[Len(p) + i] = r[i]
  BY ConcatProperties
<1>2. starts_with(p \o r, p)
  BY <1>1 DEF starts_with
<1>3. Rest(p \o r, p) = r
  <2>. DEFINE q == p \o r
  <2>1. /\ q \in Seq(Key) /\ starts_with(q, p) /\ Len(q) = Len(p) + Len(r)
        /\ \A i \in 1..Len(r) : q[Len(p) + i] = r[i]
    BY <1>1, <1>2
  <2>. HIDE DEF q
  <2>2. /\ Rest(q, p) \in Seq(Key) /\ Len(Rest(q, p)) = Len(q) - Len(p)
        /\ \A i \in 1..(Len(q) - Len(p)) : Rest(q, p)[i] = q[Len(p) + i]
    BY <2>1, RestOf
  <2>3. Len(Rest(q, p)) = Len(r) /\ \A i \in 1..Len(Rest(q, p)) : Rest(q, p)[i] = r[i]
    BY <2>1, <2>2
  <2>4. Rest(q, p) = r
    BY <2>2, <2>3, SeqEqual
  <2>. QED
    BY <2>4 DEF q
<1>4. ASSUME NEW s \in Seq(Key)
      PROVE  starts_with(p \o r, p \o s) <=> starts_with(r, s)
  <2>1. /\ p \o s \in Seq(Key) /\ Len(p \o s) = Len(p) + Len(s)
        /\ \A i \in 1..Len(p) : (p \o s)[i] = p[i]
        /\ \A i \in 1..Len(s) : (p \o s)[Len(p) + i] = s[i]
    BY ConcatProperties
  <2>2. ASSUME starts_with(r, s) PROVE starts_with(p \o r, p \o s)
    <3>1. ASSUME NEW i \in 1..Len(p \o s) PROVE (p \o r)[i] = (p \o s)[i]
      <4>1. CASE i <= Len(p)
        BY <4>1, <1>1, <2>1
      <4>2. CASE i > Len(p)
        <5>1. i - Len(p) \in 1..Len(s) /\ i - Len(p) \in 1..Len(r)
              /\ i = Len(p) + (i - Len(p))
          BY <4>2, <2>1, <2>2 DEF starts_with
        <5>2. r[i - Len(p)] = s[i - Len(p)]
          BY <5>1, <2>2 DEF starts_with
        <5>. QED
          BY <5>1, <5>2, <2>1, <1>1
      <4>3. Len(p) \in Nat /\ i \in Nat
        BY <2>1
      <4>4. i <= Len(p) \/ i > Len(p)
        BY <4>3
      <4>. QED
        BY <4>1, <4>2, <4>4, Zenon
    <3>. QED
      BY <3>1, <2>2, <2>1, <1>1 DEF starts_with
  <2>3. ASSUME starts_with(p \o r, p \o s) PROVE starts_with(r, s)
    <3>1. Len(s) <= Len(r)
      BY <2>3, <1>1, <2>1 DEF starts_with
    <3>2. ASSUME NEW i \in 1..Len(s) PROVE r[i] = s[i]
      <4>1. Len(p) + i \in 1..Len(p \o s)
        BY <2>1
      <4>. QED
        BY <4>1, <3>1, <2>3, <2>1, <1>1 DEF starts_with
    <3>. QED
      BY <3>1, <3>2 DEF starts_with
  <2>. QED
    BY <2>2, <2>3
<1>. QED
  BY <1>1, <1>2, <1>3, <1>4

-----------------------------------------------------------------------------
(* Induction                                                               *)

\* A set that holds 0 and the successor of each of its numbers holds them all.
LEMMA CountUp ==
  ASSUME NEW S, 0 \in S, \A n \in Nat : n \in S => n + 1 \in S
  PROVE  Nat \subseteq S
<1>. SUFFICES ASSUME Nat \ S # {} PROVE FALSE
  OBVIOUS
<1>. DEFINE B == Nat \ S
<1>1. PICK u \in B : \A w \in B : ~ (<<w, u>> \in OpToRel(<, Nat))
  <2>1. B \subseteq Nat /\ B # {}
    OBVIOUS
  <2>. HIDE DEF B
  <2>. QED
    BY <2>1, WFMin, NatLessThanWellFounded
<1>2. \A w \in B : ~ (w < u)
  BY <1>1 DEF OpToRel
<1>3. u # 0 /\ u - 1 \in Nat /\ u - 1 \notin B
  BY <1>2
<1>4. (u - 1) + 1 \in S /\ (u - 1) + 1 = u
  BY <1>3
<1>. QED
  BY <1>4

\* What holds of a node when it holds of its children holds of all nodes, since
\* the depth is bounded.
LEMMA TreeInduction ==
  ASSUME NEW D, D \subseteq Path, NEW G,
         \A p \in D : (\A k \in Key : Append(p, k) \in D => Append(p, k) \in G) => p \in G
  PROVE  D \subseteq G
<1>. DEFINE S == {n \in Nat : \A p \in D : Len(p) + n > MaxDepth => p \in G}
<1>1. \A p \in D : p \in Seq(Key) /\ Len(p) \in Nat /\ Len(p) <= MaxDepth
  BY PathFacts
<1>2. 0 \in S
  BY <1>1, PathFacts
<1>3. ASSUME NEW n \in Nat, n \in S PROVE n + 1 \in S
  <2>1. ASSUME NEW p \in D, Len(p) + (n + 1) > MaxDepth PROVE p \in G
    <3>1. ASSUME NEW k \in Key, Append(p, k) \in D PROVE Append(p, k) \in G
      <4>1. Len(Append(p, k)) = Len(p) + 1
        BY <1>1, ChildOf
      <4>2. Len(Append(p, k)) + n > MaxDepth
        BY <4>1, <2>1, <1>1, PathFacts
      <4>. QED
        BY <4>2, <3>1, <1>3
    <3>. QED
      BY <3>1
  <2>. QED
    BY <2>1
<1>. HIDE DEF S
<1>4. Nat \subseteq S
  BY <1>2, <1>3, CountUp
<1>5. MaxDepth + 1 \in S
  BY <1>4, PathFacts
<1>6. \A p \in D : Len(p) + (MaxDepth + 1) > MaxDepth
  BY <1>1, PathFacts
<1>. QED
  BY <1>5, <1>6 DEF S

-----------------------------------------------------------------------------
(* Hashes                                                                  *)

\* The step of the recursion of treenode_hash(), f giving the hashes of the
\* children.
HashStep(c, p, f) ==
    IF c[p].hash # NotCached THEN c[p].hash
    ELSE IF c[p].val = Object THEN [k \in Children(c, p) |-> f[Append(p, k)]]
    ELSE c[p].val

\* The recursion is well founded, and HashOf() is its result.
LEMMA HashEquation ==
  ASSUME NEW c, DOMAIN c \subseteq Path
  PROVE  \A p \in DOMAIN c : HashOf(c)[p] = HashStep(c, p, HashOf(c))
<1>. DEFINE D(n) == {p \in DOMAIN c : Len(p) + n > MaxDepth}
            IsHash(f, E) == f = [p \in E |-> HashStep(c, p, f)]
            S == {n \in Nat : \E f : IsHash(f, D(n))}
<1>1. \A p \in DOMAIN c : p \in Seq(Key) /\ Len(p) \in Nat /\ Len(p) <= MaxDepth
  BY PathFacts
<1>2. 0 \in S
  <2>1. D(0) = {}
    BY <1>1, PathFacts
  <2>2. IsHash([p \in D(0) |-> NotCached], D(0))
    BY <2>1
  <2>. QED
    BY <2>2
<1>3. ASSUME NEW n \in Nat, n \in S PROVE n + 1 \in S
  <2>1. PICK f : IsHash(f, D(n))
    BY <1>3
  <2>. DEFINE g == [p \in D(n + 1) |-> HashStep(c, p, f)]
  <2>2. D(n) \subseteq D(n + 1)
    BY <1>1, PathFacts
  <2>3. \A p \in D(n) : f[p] = HashStep(c, p, f)
    BY <2>1
  <2>4. \A p \in D(n) : g[p] = f[p]
    BY <2>2, <2>3
  <2>5. ASSUME NEW p \in D(n + 1) PROVE HashStep(c, p, g) = HashStep(c, p, f)
    <3>1. ASSUME NEW k \in Children(c, p) PROVE g[Append(p, k)] = f[Append(p, k)]
      <4>1. Append(p, k) \in DOMAIN c /\ k \in Key
        BY DEF Children
      <4>2. Len(Append(p, k)) = Len(p) + 1
        BY <4>1, <1>1, ChildOf
      <4>3. Append(p, k) \in D(n)
        BY <4>1, <4>2, <1>1, PathFacts
      <4>. QED
        BY <4>3, <2>4
    <3>. HIDE DEF g
    <3>2. [k \in Children(c, p) |-> g[Append(p, k)]] = [k \in Children(c, p) |-> f[Append(p, k)]]
      BY <3>1
    <3>. QED
      BY <3>2 DEF HashStep
  <2>6. IsHash(g, D(n + 1))
    <3>1. g = [p \in D(n + 1) |-> HashStep(c, p, f)]
      OBVIOUS
    <3>. HIDE DEF g, D
    <3>2. [p \in D(n + 1) |-> HashStep(c, p, f)] = [p \in D(n + 1) |-> HashStep(c, p, g)]
      BY <2>5
    <3>. QED
      BY <3>1, <3>2
  <2>. HIDE DEF g, D, IsHash
  <2>7. n + 1 \in Nat /\ \E h : IsHash(h, D(n + 1))
    BY <2>6
  <2>. QED
    BY <2>7
<1>4. \E f : IsHash(f, DOMAIN c)
  <2>1. MaxDepth + 1 \in S
    <3>. HIDE DEF S
    <3>1. Nat \subseteq S
      BY <1>2, <1>3, CountUp
    <3>. QED
      BY <3>1, PathFacts
  <2>2. D(MaxDepth + 1) = DOMAIN c
    <3>1. \A p \in DOMAIN c : Len(p) + (MaxDepth + 1) > MaxDepth
      BY <1>1, PathFacts
    <3>. QED
      BY <3>1
  <2>. QED
    BY <2>1, <2>2
<1>5. HashOf(c) = CHOOSE f : IsHash(f, DOMAIN c)
  BY DEF HashOf, HashStep
<1>6. IsHash(HashOf(c), DOMAIN c)
  BY <1>4, <1>5
<1>. QED
  BY <1>6

\* Two caches agree at p and below.
SameBelow(c, d, p) ==
    \A q \in Path : starts_with(q, p) =>
        /\ q \in DOMAIN c <=> q \in DOMAIN d
        /\ q \in DOMAIN c => c[q] = d[q]

\* The hash of a node depends on nothing but the node and what is below it.
LEMMA HashLocal ==
  ASSUME NEW c, NEW d, DOMAIN c \subseteq Path, DOMAIN d \subseteq Path,
         NEW p \in DOMAIN c, SameBelow(c, d, p)
  PROVE  HashOf(c)[p] = HashOf(d)[p]
<1>. DEFINE D == {q \in DOMAIN c : starts_with(q, p)}
            G == {q \in D : HashOf(c)[q] = HashOf(d)[q]}
<1>1. ASSUME NEW q \in D, \A k \in Key : Append(q, k) \in D => Append(q, k) \in G
      PROVE  q \in G
  <2>1. /\ q \in DOMAIN c /\ q \in DOMAIN d /\ c[q] = d[q]
        /\ q \in Seq(Key) /\ p \in Seq(Key) /\ starts_with(q, p)
    BY PathFacts DEF SameBelow
  <2>2. ASSUME NEW k \in Key
        PROVE  /\ Append(q, k) \in DOMAIN c <=> Append(q, k) \in DOMAIN d
               /\ Append(q, k) \in DOMAIN c => /\ c[Append(q, k)] = d[Append(q, k)]
                                               /\ Append(q, k) \in D
    <3>1. starts_with(Append(q, k), p)
      BY <2>1, ChildOf, PrefixOrder
    <3>. QED
      BY <3>1 DEF SameBelow
  <2>3. Children(c, q) = Children(d, q)
    BY <2>2 DEF Children
  <2>4. \A k \in Children(c, q) : HashOf(c)[Append(q, k)] = HashOf(d)[Append(q, k)]
    BY <2>2, <1>1 DEF Children
  <2>5. [k \in Children(c, q) |-> HashOf(c)[Append(q, k)]]
            = [k \in Children(d, q) |-> HashOf(d)[Append(q, k)]]
    BY <2>3, <2>4
  <2>6. HashStep(c, q, HashOf(c)) = HashStep(d, q, HashOf(d))
    BY <2>5, <2>1 DEF HashStep
  <2>. QED
    BY <2>6, <2>1, HashEquation
<1>2. D \subseteq Path
  OBVIOUS
<1>3. p \in D
  BY PathFacts, PrefixOrder
<1>. HIDE DEF D, G
<1>4. D \subseteq G
  BY <1>1, <1>2, TreeInduction
<1>. QED
  BY <1>3, <1>4 DEF G

\* A copy of the cache without any hash, and the promise of HashFresh.
Copy(c) == [p \in DOMAIN c |-> Node(c[p].val)]
Fresh(c) == \A p \in DOMAIN c : c[p].hash # NotCached => c[p].hash = HashOf(Copy(c))[p]

\* With no stale hash, the hash of each node is the one computed from scratch.
LEMMA FreshIsFromScratch ==
  ASSUME NEW c, DOMAIN c \subseteq Path, Fresh(c)
  PROVE  \A p \in DOMAIN c : HashOf(c)[p] = HashOf(Copy(c))[p]
<1>. DEFINE D == DOMAIN c
            G == {q \in D : HashOf(c)[q] = HashOf(Copy(c))[q]}
            d == Copy(c)
<1>0. DOMAIN d = D /\ \A q \in D : d[q].val = c[q].val /\ d[q].hash = NotCached
  BY DEF Copy, Node
<1>. HIDE DEF d
<1>1. ASSUME NEW q \in D, \A k \in Key : Append(q, k) \in D => Append(q, k) \in G
      PROVE  q \in G
  <2>1. Children(c, q) = Children(d, q)
    BY <1>0 DEF Children
  <2>2. \A k \in Children(c, q) : HashOf(c)[Append(q, k)] = HashOf(d)[Append(q, k)]
    BY <1>1 DEF Children, d
  <2>3. [k \in Children(c, q) |-> HashOf(c)[Append(q, k)]]
            = [k \in Children(d, q) |-> HashOf(d)[Append(q, k)]]
    BY <2>1, <2>2
  <2>4. HashOf(c)[q] = HashStep(c, q, HashOf(c)) /\ HashOf(d)[q] = HashStep(d, q, HashOf(d))
    BY <1>0, HashEquation
  <2>5. CASE c[q].hash # NotCached
    BY <2>5, <2>4 DEF Fresh, HashStep, d
  <2>6. CASE c[q].hash = NotCached
    <3>1. HashStep(c, q, HashOf(c)) = HashStep(d, q, HashOf(d))
      BY <2>6, <2>3, <1>0 DEF HashStep
    <3>. QED
      BY <3>1, <2>4 DEF d
  <2>. QED
    BY <2>5, <2>6
<1>. HIDE DEF D, G
<1>2. D \subseteq G
  BY <1>1, TreeInduction DEF D
<1>. QED
  BY <1>2 DEF D, G

\* A write changes the nodes at the paths of T only, which holds with a path
\* all those above it, and leaves no hash there.
Touch(c, d, T) ==
    /\ \A q \in Path \ T : /\ q \in DOMAIN c <=> q \in DOMAIN d
                           /\ q \in DOMAIN c => c[q] = d[q]
    /\ \A q \in T \cap DOMAIN d : d[q].hash = NotCached
    /\ \A q \in T, r \in Path : starts_with(q, r) => r \in T

\* What is not above a written path is the same as before, all the way down.
LEMMA UntouchedBelow ==
  ASSUME NEW c, NEW d, NEW T, Touch(c, d, T), NEW p \in Path \ T
  PROVE  SameBelow(c, d, p)
BY DEF Touch, SameBelow

\* Such a write leaves no stale hash.
LEMMA FreshAfterWrite ==
  ASSUME NEW c, NEW d, NEW T, DOMAIN c \subseteq Path, DOMAIN d \subseteq Path,
         Touch(c, d, T), Fresh(c)
  PROVE  Fresh(d)
<1>. SUFFICES ASSUME NEW p \in DOMAIN d, d[p].hash # NotCached
              PROVE  d[p].hash = HashOf(Copy(d))[p]
  BY DEF Fresh
<1>1. p \in Path \ T
  BY DEF Touch
<1>2. SameBelow(c, d, p)
  BY <1>1, UntouchedBelow
<1>3. p \in DOMAIN c /\ c[p] = d[p]
  BY <1>1 DEF Touch
<1>4. DOMAIN Copy(c) = DOMAIN c /\ DOMAIN Copy(d) = DOMAIN d
  BY DEF Copy
<1>5. SameBelow(Copy(c), Copy(d), p)
  BY <1>2, <1>4 DEF SameBelow, Copy
<1>6. HashOf(Copy(c))[p] = HashOf(Copy(d))[p]
  BY <1>3, <1>4, <1>5, HashLocal
<1>. QED
  BY <1>3, <1>6 DEF Fresh

-----------------------------------------------------------------------------
(* Writes                                                                  *)

\* The shape of a cache, as TypeOK states it.
Tree(c) ==
    /\ c = [p \in DOMAIN c |-> c[p]]
    /\ DOMAIN c \subseteq Path
    /\ <<>> \in DOMAIN c
    /\ \A p \in DOMAIN c :
        /\ c[p] = [val |-> c[p].val, hash |-> c[p].hash]
        /\ c[p].val \in Leaf \cup {Null, Object}
        /\ p # <<>> => Parent(p) \in DOMAIN c /\ c[Parent(p)].val = Object

\* Every write has this form: what was in the region B below p is replaced by
\* new nodes with the values N, and p and the paths above it that are not in B
\* become objects.
Put(c, p, B, N) ==
    [q \in (DOMAIN c \ B) \cup (Prefixes(p) \ B) \cup DOMAIN N |->
        IF q \in B THEN Node(N[q])
        ELSE IF q \in Prefixes(p) THEN Node(Object) ELSE c[q]]

\* The region is made of whole subtrees that hang below p, and the new nodes in
\* it are trees.
Region(p, B, N) ==
    /\ p \in Path /\ B \subseteq Path /\ DOMAIN N \subseteq B
    /\ \A q \in B, r \in Path : starts_with(r, q) => r \in B
    /\ \A q \in B, r \in Path : starts_with(q, r) => r \in B \/ r \in Prefixes(p)
    /\ <<>> \in B => <<>> \in DOMAIN N
    /\ \A q \in DOMAIN N :
        /\ N[q] \in Leaf \cup {Null, Object}
        /\ q # <<>> => IF Parent(q) \in B
                       THEN Parent(q) \in DOMAIN N /\ N[Parent(q)] = Object
                       ELSE Parent(q) \in Prefixes(p)

\* A node is in the new cache if it is new, made on the way, or was there.
LEMMA PutNodes ==
  ASSUME NEW c, NEW p, NEW B, NEW N, Region(p, B, N)
  PROVE  /\ \A q : q \in DOMAIN Put(c, p, B, N) <=>
                        \/ q \in DOMAIN N
                        \/ q \notin B /\ (q \in Prefixes(p) \/ q \in DOMAIN c)
         /\ \A q \in DOMAIN N : Put(c, p, B, N)[q] = Node(N[q])
         /\ \A q \in Prefixes(p) \ B : Put(c, p, B, N)[q] = Node(Object)
         /\ \A q \in DOMAIN c \ B : q \notin Prefixes(p) => Put(c, p, B, N)[q] = c[q]
BY DEF Put, Region

\* A write leaves a tree.
LEMMA PutTree ==
  ASSUME NEW c, Tree(c), NEW p, NEW B, NEW N, Region(p, B, N)
  PROVE  Tree(Put(c, p, B, N))
<1>. DEFINE d == Put(c, p, B, N)
<1>1. /\ \A q : q \in DOMAIN d <=>
                    \/ q \in DOMAIN N
                    \/ q \notin B /\ (q \in Prefixes(p) \/ q \in DOMAIN c)
      /\ \A q \in DOMAIN N : d[q] = Node(N[q])
      /\ \A q \in Prefixes(p) \ B : d[q] = Node(Object)
      /\ \A q \in DOMAIN c \ B : q \notin Prefixes(p) => d[q] = c[q]
  BY PutNodes
<1>2. d = [q \in DOMAIN d |-> d[q]]
  BY DEF Put
<1>. HIDE DEF d
<1>3. DOMAIN d \subseteq Path
  BY <1>1, PathFacts DEF Region, Tree
<1>4. <<>> \in DOMAIN d
  BY <1>1 DEF Region, Tree
<1>5. ASSUME NEW q \in DOMAIN d
      PROVE  /\ d[q] = [val |-> d[q].val, hash |-> d[q].hash]
             /\ d[q].val \in Leaf \cup {Null, Object}
             /\ q # <<>> => Parent(q) \in DOMAIN d /\ d[Parent(q)].val = Object
  <2>0. q \in Path /\ q \in Seq(Key) /\ p \in Path /\ p \in Seq(Key)
    BY <1>3, PathFacts DEF Region
  <2>1. CASE q \in DOMAIN N
    <3>1. d[q] = Node(N[q]) /\ N[q] \in Leaf \cup {Null, Object}
      BY <2>1, <1>1 DEF Region
    <3>2. ASSUME q # <<>> PROVE Parent(q) \in DOMAIN d /\ d[Parent(q)].val = Object
      <4>1. CASE Parent(q) \in B
        BY <4>1, <3>2, <2>1, <1>1 DEF Region, Node
      <4>2. CASE Parent(q) \notin B
        BY <4>2, <3>2, <2>1, <1>1 DEF Region, Node
      <4>. QED
        BY <4>1, <4>2
    <3>. QED
      BY <3>1, <3>2 DEF Node
  <2>2. CASE q \notin B /\ q \in Prefixes(p)
    <3>1. d[q] = Node(Object)
      BY <2>2, <1>1
    <3>2. ASSUME q # <<>> PROVE Parent(q) \in DOMAIN d /\ d[Parent(q)].val = Object
      <4>1. starts_with(p, q) /\ starts_with(q, Parent(q)) /\ Parent(q) \in Seq(Key)
        BY <3>2, <2>2, <2>0, PrefixesOf, ParentOf
      <4>2. Parent(q) \in Prefixes(p) /\ Parent(q) \in Path
        BY <4>1, <2>0, PrefixOrder, PrefixesOf, PathFacts
      <4>3. Parent(q) \notin B
        BY <4>1, <2>0, <2>2 DEF Region
      <4>. QED
        BY <4>2, <4>3, <1>1 DEF Node
    <3>. QED
      BY <3>1, <3>2 DEF Node
  <2>3. CASE q \notin B /\ q \notin Prefixes(p) /\ q \in DOMAIN c
    <3>1. d[q] = c[q]
      BY <2>3, <1>1
    <3>2. ASSUME q # <<>> PROVE Parent(q) \in DOMAIN d /\ d[Parent(q)].val = Object
      <4>1. starts_with(q, Parent(q)) /\ Parent(q) \in DOMAIN c /\ c[Parent(q)].val = Object
        BY <3>2, <2>3, <2>0, ParentOf DEF Tree
      <4>2. Parent(q) \notin B
        BY <4>1, <2>0, <2>3 DEF Region
      <4>. QED
        BY <4>1, <4>2, <1>1 DEF Node
    <3>. QED
      BY <3>1, <3>2, <2>3 DEF Tree
  <2>. QED
    BY <2>1, <2>2, <2>3, <1>1
<1>6. Tree(d)
  BY <1>2, <1>3, <1>4, <1>5 DEF Tree
<1>. QED
  BY <1>6 DEF d

\* A write drops the hashes of what it changes and of everything above.
LEMMA PutTouch ==
  ASSUME NEW c, Tree(c), NEW p, NEW B, NEW N, Region(p, B, N)
  PROVE  Touch(c, Put(c, p, B, N), B \cup Prefixes(p))
<1>. DEFINE d == Put(c, p, B, N)
            T == B \cup Prefixes(p)
<1>1. /\ \A q : q \in DOMAIN d <=>
                    \/ q \in DOMAIN N
                    \/ q \notin B /\ (q \in Prefixes(p) \/ q \in DOMAIN c)
      /\ \A q \in DOMAIN N : d[q] = Node(N[q])
      /\ \A q \in Prefixes(p) \ B : d[q] = Node(Object)
      /\ \A q \in DOMAIN c \ B : q \notin Prefixes(p) => d[q] = c[q]
  BY PutNodes
<1>. HIDE DEF d
<1>2. \A q \in Path \ T : /\ q \in DOMAIN c <=> q \in DOMAIN d
                          /\ q \in DOMAIN c => c[q] = d[q]
  BY <1>1 DEF Region
<1>3. ASSUME NEW q \in T, q \in DOMAIN d PROVE d[q].hash = NotCached
  <2>1. q \in DOMAIN N \/ q \in Prefixes(p) \ B
    BY <1>3, <1>1
  <2>2. CASE q \in DOMAIN N
    <3>1. d[q] = Node(N[q])
      BY <2>2, <1>1
    <3>. QED
      BY <3>1 DEF Node
  <2>3. CASE q \in Prefixes(p) \ B
    BY <2>3, <1>1 DEF Node
  <2>. QED
    BY <2>1, <2>2, <2>3
<1>4. ASSUME NEW q \in T, NEW r \in Path, starts_with(q, r) PROVE r \in T
  <2>1. CASE q \in B
    BY <2>1, <1>4 DEF Region
  <2>2. CASE q \in Prefixes(p)
    <3>1. p \in Seq(Key) /\ q \in Seq(Key) /\ r \in Seq(Key)
      BY <2>2, PathFacts DEF Region
    <3>. QED
      BY <3>1, <2>2, <1>4, PrefixOrder, PrefixesOf
  <2>. QED
    BY <2>1, <2>2
<1>5. Touch(c, d, T)
  BY <1>2, <1>3, <1>4 DEF Touch
<1>. QED
  BY <1>5 DEF d

\* Above a value of a JSON document there are objects only.
LEMMA JsonAbove ==
  ASSUME NEW j, IsJson(j), NEW r \in DOMAIN j, NEW s \in Seq(Key), starts_with(r, s), s # r
  PROVE  s \in DOMAIN j /\ j[s] = Object
<1>. DEFINE S == {n \in Nat : \A u \in DOMAIN j : starts_with(u, s) /\ Len(u) = Len(s) + n /\ u # s
                                => s \in DOMAIN j /\ j[s] = Object}
<1>1. \A u \in DOMAIN j : u \in Seq(Key) /\ Len(u) \in Nat
  BY DEF IsJson
<1>2. 0 \in S
  <2>1. ASSUME NEW u \in DOMAIN j, starts_with(u, s), Len(u) = Len(s) + 0 PROVE u = s
    BY <2>1, <1>1 DEF starts_with
  <2>. QED
    BY <2>1
<1>3. ASSUME NEW n \in Nat, n \in S PROVE n + 1 \in S
  <2>1. ASSUME NEW u \in DOMAIN j, starts_with(u, s), Len(u) = Len(s) + (n + 1), u # s
        PROVE  s \in DOMAIN j /\ j[s] = Object
    <3>1. u \in Seq(Key) /\ u # <<>> /\ Len(s) \in Nat
      BY <2>1, <1>1
    <3>2. /\ Parent(u) \in DOMAIN j /\ j[Parent(u)] = Object
          /\ Len(Parent(u)) = Len(u) - 1 /\ starts_with(Parent(u), s)
      BY <2>1, <3>1, ParentOf DEF IsJson
    <3>3. Len(Parent(u)) = Len(s) + n
      BY <3>1, <3>2, <2>1
    <3>4. CASE Parent(u) = s
      BY <3>4, <3>2
    <3>5. CASE Parent(u) # s
      BY <3>5, <3>2, <3>3, <1>3
    <3>. QED
      BY <3>4, <3>5
  <2>. QED
    BY <2>1
<1>4. Nat \subseteq S
  <2>. HIDE DEF S
  <2>. QED
    BY <1>2, <1>3, CountUp
<1>5. Len(r) - Len(s) \in Nat /\ Len(r) = Len(s) + (Len(r) - Len(s))
  BY <1>1 DEF starts_with
<1>. QED
  BY <1>4, <1>5

\* The nodes of a JSON value written at p.
Below(p) == {q \in Path : starts_with(q, p)}
JsonNodes(p, j) ==
    [q \in {p \o r : r \in {r \in DOMAIN j : j[r] # Null \/ p \o r = <<>>}} |-> j[Rest(q, p)]]

\* Which they are, seen from the paths.
LEMMA JsonNodesAt ==
  ASSUME NEW p \in Path, NEW j, IsJson(j), Fits(p, j)
  PROVE  /\ \A q : q \in DOMAIN JsonNodes(p, j) <=>
                /\ q \in Below(p) /\ Rest(q, p) \in DOMAIN j
                /\ j[Rest(q, p)] # Null \/ q = <<>>
         /\ \A q \in DOMAIN JsonNodes(p, j) : JsonNodes(p, j)[q] = j[Rest(q, p)]
<1>. DEFINE D == {p \o r : r \in {r \in DOMAIN j : j[r] # Null \/ p \o r = <<>>}}
<1>0. p \in Seq(Key) /\ \A r \in DOMAIN j : r \in Seq(Key) /\ p \o r \in Path
  BY PathFacts DEF IsJson, Fits
<1>1. ASSUME NEW q \in D
      PROVE  /\ q \in Below(p) /\ Rest(q, p) \in DOMAIN j
             /\ j[Rest(q, p)] # Null \/ q = <<>>
  <2>1. PICK r \in DOMAIN j : q = p \o r /\ (j[r] # Null \/ p \o r = <<>>)
    OBVIOUS
  <2>. QED
    BY <2>1, <1>0, Joined DEF Below
<1>2. ASSUME NEW q, q \in Below(p), Rest(q, p) \in DOMAIN j, j[Rest(q, p)] # Null \/ q = <<>>
      PROVE  q \in D
  <2>1. q = p \o Rest(q, p)
    BY <1>2, <1>0, PathFacts, RestOf DEF Below
  <2>. QED
    BY <1>2, <2>1
<1>3. DOMAIN JsonNodes(p, j) = D /\ \A q \in D : JsonNodes(p, j)[q] = j[Rest(q, p)]
  BY DEF JsonNodes
<1>. QED
  BY <1>1, <1>2, <1>3, Zenon

\* They make a tree that fits below p.
LEMMA JsonRegion ==
  ASSUME NEW p \in Path, NEW j, IsJson(j), Fits(p, j)
  PROVE  Region(p, Below(p), JsonNodes(p, j))
<1>. DEFINE B == Below(p)
            N == JsonNodes(p, j)
<1>0. p \in Seq(Key)
  BY PathFacts
<1>1. /\ \A q : q \in DOMAIN N <=> /\ q \in B /\ Rest(q, p) \in DOMAIN j
                                   /\ j[Rest(q, p)] # Null \/ q = <<>>
      /\ \A q \in DOMAIN N : N[q] = j[Rest(q, p)]
  BY JsonNodesAt
<1>. HIDE DEF N
<1>2. p \in Path /\ B \subseteq Path /\ DOMAIN N \subseteq B
  BY <1>1 DEF Below
<1>3. \A q \in B, r \in Path : starts_with(r, q) => r \in B
  BY <1>0, PathFacts, PrefixOrder DEF Below
<1>4. ASSUME NEW q \in B, NEW r \in Path, starts_with(q, r) PROVE r \in B \/ r \in Prefixes(p)
  <2>1. q \in Seq(Key) /\ r \in Seq(Key) /\ starts_with(q, p) /\ Len(r) \in Nat /\ Len(p) \in Nat
    BY PathFacts DEF Below
  <2>2. starts_with(r, p) \/ starts_with(p, r)
    BY <2>1, <1>0, <1>4, PrefixesCompare
  <2>. QED
    BY <2>1, <2>2, <1>0, PrefixesOf DEF Below
<1>5. ASSUME <<>> \in B PROVE <<>> \in DOMAIN N
  <2>1. starts_with(<<>>, p) /\ <<>> \in Seq(Key)
    BY <1>5, PathFacts DEF Below
  <2>2. Len(Rest(<<>>, p)) = 0 /\ Rest(<<>>, p) \in Seq(Key)
    BY <2>1, <1>0, RestOf DEF starts_with
  <2>3. Rest(<<>>, p) = <<>>
    BY <2>2
  <2>. QED
    BY <2>3, <1>5, <1>1 DEF IsJson
<1>6. ASSUME NEW q \in DOMAIN N
      PROVE  /\ N[q] \in Leaf \cup {Null, Object}
             /\ q # <<>> => IF Parent(q) \in B
                            THEN Parent(q) \in DOMAIN N /\ N[Parent(q)] = Object
                            ELSE Parent(q) \in Prefixes(p)
  <2>1. /\ q \in Path /\ q \in Seq(Key) /\ starts_with(q, p)
        /\ Rest(q, p) \in DOMAIN j /\ N[q] = j[Rest(q, p)]
    BY <1>1, PathFacts DEF Below
  <2>2. N[q] \in Leaf \cup {Null, Object}
    BY <2>1 DEF IsJson
  <2>3. ASSUME q # <<>>, Parent(q) \in B
        PROVE  Parent(q) \in DOMAIN N /\ N[Parent(q)] = Object
    <3>. DEFINE u == Parent(q)
    <3>1. u \in Seq(Key) /\ Len(u) = Len(q) - 1 /\ starts_with(q, u) /\ starts_with(u, p)
      BY <2>3, <2>1, ParentOf DEF Below
    <3>2. u # q
      BY <3>1, <2>1
    <3>3. /\ Rest(u, p) \in Seq(Key) /\ Rest(q, p) \in Seq(Key)
          /\ starts_with(Rest(q, p), Rest(u, p)) /\ Rest(q, p) # Rest(u, p)
      BY <3>1, <3>2, <2>1, <1>0, RestOrder
    <3>4. Rest(u, p) \in DOMAIN j /\ j[Rest(u, p)] = Object
      BY <3>3, <2>1, JsonAbove
    <3>5. Object # Null
      BY LeafAssumption DEF GoodLeaves
    <3>. QED
      BY <3>4, <3>5, <2>3, <1>1
  <2>4. ASSUME q # <<>>, Parent(q) \notin B
        PROVE  Parent(q) \in Prefixes(p)
    <3>1. Parent(q) \in Seq(Key) /\ starts_with(q, Parent(q))
      BY <2>4, <2>1, ParentOf
    <3>2. Parent(q) \in Path
      BY <3>1, <2>1, PrefixesOf, PathFacts
    <3>. QED
      BY <3>1, <3>2, <2>4, <1>1, <1>4
  <2>. QED
    BY <2>2, <2>3, <2>4
<1>7. Region(p, B, N)
  BY <1>2, <1>3, <1>4, <1>5, <1>6 DEF Region
<1>. QED
  BY <1>7 DEF N

\* data_cache_mkpath_w() down to the parent and internal_remove() leave room for
\* p, with objects above.
LEMMA RoomMade ==
  ASSUME NEW c, Tree(c), NEW p \in Path, p # <<>>
  PROVE  LET d == internal_remove(mkpath_w(c, Parent(p)), p)
         IN  /\ \A q : q \in DOMAIN d <=> q \in DOMAIN c \cup Prefixes(p) /\ q \notin Below(p)
             /\ \A q \in DOMAIN d : d[q] = IF q \in Prefixes(p) THEN Node(Object) ELSE c[q]
<1>. DEFINE u == Parent(p)
            c1 == mkpath_w(c, u)
            d == internal_remove(c1, p)
<1>0. p \in Seq(Key) /\ DOMAIN c \subseteq Path /\ \A q \in Path : q \in Seq(Key)
  BY PathFacts DEF Tree
<1>1. /\ u \in Seq(Key) /\ starts_with(p, u) /\ ~starts_with(u, p)
      /\ \A q \in Seq(Key) : starts_with(p, q) => q = p \/ starts_with(u, q)
  BY <1>0, ParentOf
<1>2. Prefixes(p) \subseteq Path /\ Prefixes(u) \subseteq Path
  <2>1. u \in Path
    BY <1>0, <1>1, PrefixesOf, PathFacts
  <2>. QED
    BY <2>1, PathFacts
<1>. HIDE DEF u
<1>3. ASSUME NEW q \in Path
      PROVE  q \in Prefixes(u) <=> q \in Prefixes(p) /\ ~starts_with(q, p)
  <2>1. starts_with(u, q) => starts_with(p, q) /\ ~starts_with(q, p)
    BY <1>0, <1>1, PrefixOrder
  <2>2. starts_with(p, q) /\ ~starts_with(q, p) => starts_with(u, q)
    BY <1>0, <1>1, PrefixOrder
  <2>. QED
    BY <2>1, <2>2, <1>0, <1>1, PrefixesOf
<1>4. /\ DOMAIN c1 = DOMAIN c \cup Prefixes(u)
      /\ \A q \in DOMAIN c1 : c1[q] = IF q \notin Prefixes(u) THEN c[q] ELSE Node(Object)
  BY DEF mkpath_w
<1>. HIDE DEF c1
<1>5. /\ DOMAIN d = {q \in DOMAIN c1 : ~starts_with(q, p)}
      /\ \A q \in DOMAIN d : d[q] = c1[q]
  BY DEF internal_remove
<1>. HIDE DEF d
<1>6. \A q : q \in DOMAIN d <=> q \in DOMAIN c \cup Prefixes(p) /\ q \notin Below(p)
  BY <1>0, <1>2, <1>3, <1>4, <1>5 DEF Below
<1>7. \A q \in DOMAIN d : d[q] = IF q \in Prefixes(p) THEN Node(Object) ELSE c[q]
  BY <1>0, <1>2, <1>3, <1>4, <1>5
<1>. QED
  BY <1>6, <1>7 DEF d, c1, u

\* data_cache_set_ex() is such a write.
LEMMA SetExIsPut ==
  ASSUME NEW c, Tree(c), NEW p \in Path, NEW j, IsJson(j), Fits(p, j)
  PROVE  set_ex(c, p, j) = Put(c, p, Below(p), JsonNodes(p, j))
<1>. DEFINE B == Below(p)
            N == JsonNodes(p, j)
            d == Put(c, p, B, N)
            new == {p \o r : r \in {r \in DOMAIN j : j[r] # Null}}
<1>0. p \in Seq(Key) /\ DOMAIN c \subseteq Path /\ \A q \in Path : q \in Seq(Key)
  BY PathFacts DEF Tree
<1>1. /\ \A q : q \in DOMAIN N <=> /\ q \in B /\ Rest(q, p) \in DOMAIN j
                                   /\ j[Rest(q, p)] # Null \/ q = <<>>
      /\ \A q \in DOMAIN N : N[q] = j[Rest(q, p)]
  BY JsonNodesAt
<1>2. /\ DOMAIN d = (DOMAIN c \ B) \cup (Prefixes(p) \ B) \cup DOMAIN N
      /\ d = [q \in DOMAIN d |-> d[q]]
      /\ \A q \in DOMAIN d : d[q] = IF q \in B THEN Node(N[q])
                                    ELSE IF q \in Prefixes(p) THEN Node(Object) ELSE c[q]
  BY DEF Put
<1>3. \A q \in new : q \in B /\ Rest(q, p) \in DOMAIN j /\ j[Rest(q, p)] # Null
  <2>. SUFFICES ASSUME NEW r \in DOMAIN j, j[r] # Null
                PROVE  p \o r \in B /\ Rest(p \o r, p) \in DOMAIN j /\ j[Rest(p \o r, p)] # Null
    OBVIOUS
  <2>1. r \in Seq(Key) /\ p \o r \in Path
    BY DEF IsJson, Fits
  <2>. QED
    BY <2>1, <1>0, Joined DEF Below
<1>4. \A q \in B : Rest(q, p) \in DOMAIN j /\ j[Rest(q, p)] # Null => q \in new
  BY <1>0, RestOf DEF Below
<1>. HIDE DEF N, d, new
<1>5. CASE p = <<>>
  <2>1. B = Path
    BY <1>5, <1>0, PrefixOrder DEF Below
  <2>2. Prefixes(p) \subseteq B
    BY <2>1, PathFacts
  <2>3. DOMAIN d = DOMAIN N /\ DOMAIN N \subseteq B
    BY <2>1, <2>2, <1>0, <1>1, <1>2
  <2>4. \A q \in DOMAIN d : d[q] = Node(j[Rest(q, p)])
    BY <2>3, <1>1, <1>2
  <2>5. CASE j[<<>>] = Null
    <3>1. \A r \in DOMAIN j : r = <<>>
      <4>. SUFFICES ASSUME NEW r \in DOMAIN j, r # <<>> PROVE FALSE
        OBVIOUS
      <4>1. r \in Seq(Key) /\ <<>> \in Seq(Key) /\ starts_with(r, <<>>)
        BY <1>0, PrefixOrder, PathFacts DEF IsJson
      <4>2. j[<<>>] = Object
        BY <4>1, JsonAbove
      <4>. QED
        BY <4>2, <2>5, LeafAssumption DEF GoodLeaves
    <3>2. <<>> \in B /\ Rest(<<>>, p) = <<>>
      <4>1. <<>> \in Seq(Key) /\ starts_with(<<>>, p) /\ p \o <<>> = <<>>
        BY <1>5, <1>0, PrefixOrder
      <4>. QED
        BY <4>1, <1>0, <2>1, Joined, PathFacts
    <3>3. DOMAIN d = {<<>>}
      <4>1. <<>> \in DOMAIN d
        BY <3>2, <2>3, <1>1 DEF IsJson
      <4>2. ASSUME NEW q \in DOMAIN d PROVE q = <<>>
        <5>1. Rest(q, p) = <<>> /\ q \in B
          BY <2>3, <1>1, <3>1
        <5>2. q = p \o <<>>
          BY <5>1, <1>0, RestOf DEF Below
        <5>. QED
          BY <5>2, <1>5
      <4>. QED
        BY <4>1, <4>2
    <3>4. d[<<>>] = Node(Null)
      BY <3>2, <3>3, <2>4, <2>5
    <3>5. set_ex(c, p, j) = [q \in {<<>>} |-> Node(Null)]
      BY <1>5, <2>5 DEF set_ex
    <3>6. d = [q \in {<<>>} |-> Node(Null)]
      BY <3>3, <3>4, <1>2
    <3>. QED
      BY <3>5, <3>6 DEF d, N
  <2>6. CASE j[<<>>] # Null
    <3>1. set_ex(c, p, j) = [q \in {} \cup new |->
                IF q \in new THEN Node(j[Rest(q, p)]) ELSE [r \in {} |-> Node(Null)][q]]
      BY <1>5, <2>6 DEF set_ex, set_r, Rest, new
    <3>2. DOMAIN d = new
      <4>1. ASSUME NEW q \in DOMAIN d PROVE q \in new
        <5>1. q \in B /\ Rest(q, p) \in DOMAIN j /\ (j[Rest(q, p)] # Null \/ q = <<>>)
          BY <2>3, <1>1
        <5>2. ASSUME q = <<>> PROVE Rest(q, p) = <<>>
          <6>1. <<>> \in Seq(Key) /\ p \o <<>> = <<>>
            BY <1>5
          <6>. QED
            BY <6>1, <5>2, <1>0, Joined
        <5>. QED
          BY <5>1, <5>2, <2>6, <1>4
      <4>. QED
        BY <4>1, <2>3, <1>1, <1>3
    <3>3. d = [q \in new |-> Node(j[Rest(q, p)])]
      BY <3>2, <2>4, <1>2
    <3>4. set_ex(c, p, j) = [q \in new |-> Node(j[Rest(q, p)])]
      BY <3>1
    <3>. QED
      BY <3>3, <3>4 DEF d, N
  <2>. QED
    BY <2>5, <2>6
<1>6. CASE p # <<>>
  <2>. DEFINE c2 == internal_remove(mkpath_w(c, Parent(p)), p)
              e == set_r(c2, p, j)
  <2>1. /\ \A q : q \in DOMAIN c2 <=> /\ q \in DOMAIN c \cup Prefixes(p)
                                      /\ q \notin B
        /\ \A q \in DOMAIN c2 : c2[q] = IF q \in Prefixes(p) THEN Node(Object) ELSE c[q]
    BY <1>6, RoomMade
  <2>. HIDE DEF c2
  <2>5. /\ DOMAIN e = DOMAIN c2 \cup new /\ e = [q \in DOMAIN e |-> e[q]]
        /\ \A q \in DOMAIN e : e[q] = IF q \in new THEN Node(j[Rest(q, p)]) ELSE c2[q]
    BY DEF set_r, Rest, new
  <2>. HIDE DEF e
  <2>6. DOMAIN N = new
    <3>1. <<>> \notin B
      <4>1. ~starts_with(<<>>, p)
        BY <1>6, <1>0 DEF starts_with
      <4>. QED
        BY <4>1 DEF Below
    <3>2. \A q : q \in DOMAIN N <=> q \in new
      BY <3>1, <1>1, <1>3, <1>4
    <3>. QED
      BY <3>2
  <2>7. ASSUME NEW q PROVE q \in DOMAIN d <=> q \in DOMAIN e
    BY <2>1, <2>5, <2>6, <1>2
  <2>8. ASSUME NEW q \in DOMAIN d PROVE d[q] = e[q]
    <3>1. CASE q \in new
      BY <3>1, <2>5, <2>6, <2>7, <1>1, <1>2
    <3>2. CASE q \notin new
      <4>1. q \in DOMAIN c2 /\ q \notin B
        BY <3>2, <2>1, <2>5, <2>7
      <4>. QED
        BY <4>1, <3>2, <2>1, <2>5, <2>7, <1>2
    <3>. QED
      BY <3>1, <3>2
  <2>9. d = e
    <3>1. DOMAIN d = DOMAIN e
      BY <2>7
    <3>. QED
      BY <3>1, <2>8, <2>5, <1>2
  <2>. QED
    BY <2>9, <1>6 DEF set_ex, d, N, e, c2
<1>. QED
  BY <1>5, <1>6

LeafNode(p, v) == [q \in {p} |-> v]

\* data_cache_set_leaf() is one.
LEMMA SetLeafIsPut ==
  ASSUME Tree(cache), NEW p \in Path, NEW v \in Leaf \cup {Null}, data_cache_set_leaf(p, v)
  PROVE  /\ cache' = Put(cache, p, Below(p), LeafNode(p, v))
         /\ Region(p, Below(p), LeafNode(p, v))
<1>. DEFINE B == Below(p)
            N == LeafNode(p, v)
            d == Put(cache, p, B, N)
<1>0. p \in Seq(Key) /\ DOMAIN cache \subseteq Path /\ \A q \in Path : q \in Seq(Key)
  BY PathFacts DEF Tree
<1>1. DOMAIN N = {p} /\ N[p] = v /\ p \in B
  BY <1>0, PrefixOrder DEF LeafNode, Below
<1>2. /\ DOMAIN d = (DOMAIN cache \ B) \cup (Prefixes(p) \ B) \cup DOMAIN N
      /\ d = [q \in DOMAIN d |-> d[q]]
      /\ \A q \in DOMAIN d : d[q] = IF q \in B THEN Node(N[q])
                                    ELSE IF q \in Prefixes(p) THEN Node(Object) ELSE cache[q]
  BY DEF Put
<1>. HIDE DEF N, d
<1>3. cache' = d
  <2>1. CASE p = <<>>
    <3>1. B = Path /\ Prefixes(p) \subseteq Path
      BY <2>1, <1>0, PrefixOrder, PathFacts DEF Below
    <3>2. DOMAIN d = {<<>>} /\ d[<<>>] = Node(v)
      BY <3>1, <2>1, <1>0, <1>1, <1>2
    <3>3. d = [q \in {<<>>} |-> Node(v)]
      BY <3>2, <1>2
    <3>. QED
      BY <3>3, <2>1 DEF data_cache_set_leaf
  <2>2. CASE p # <<>>
    <3>. DEFINE c == internal_remove(mkpath_w(cache, Parent(p)), p)
                e == [q \in DOMAIN c \cup {p} |-> IF q = p THEN Node(v) ELSE c[q]]
    <3>1. /\ \A q : q \in DOMAIN c <=> q \in DOMAIN cache \cup Prefixes(p) /\ q \notin B
          /\ \A q \in DOMAIN c : c[q] = IF q \in Prefixes(p) THEN Node(Object) ELSE cache[q]
      BY <2>2, RoomMade
    <3>2. cache' = e
      BY <2>2 DEF data_cache_set_leaf
    <3>. HIDE DEF c
    <3>3. DOMAIN d = DOMAIN e
      BY <3>1, <1>1, <1>2
    <3>4. ASSUME NEW q \in DOMAIN d PROVE d[q] = e[q]
      BY <3>1, <3>3, <1>1, <1>2
    <3>5. d = e
      BY <3>3, <3>4, <1>2
    <3>. QED
      BY <3>2, <3>5
  <2>. QED
    BY <2>1, <2>2
<1>4. Region(p, B, N)
  <2>1. p \in Path /\ B \subseteq Path /\ DOMAIN N \subseteq B
    BY <1>1 DEF Below
  <2>2. \A q \in B, r \in Path : starts_with(r, q) => r \in B
    BY <1>0, PrefixOrder DEF Below
  <2>3. ASSUME NEW q \in B, NEW r \in Path, starts_with(q, r) PROVE r \in B \/ r \in Prefixes(p)
    <3>1. q \in Seq(Key) /\ r \in Seq(Key) /\ starts_with(q, p) /\ Len(r) \in Nat /\ Len(p) \in Nat
      BY PathFacts DEF Below
    <3>2. starts_with(r, p) \/ starts_with(p, r)
      BY <3>1, <1>0, <2>3, PrefixOrder
    <3>. QED
      BY <3>1, <3>2, <1>0, PrefixesOf DEF Below
  <2>4. <<>> \in B => <<>> \in DOMAIN N
    BY <1>0, <1>1 DEF Below, starts_with
  <2>5. p # <<>> => Parent(p) \notin B /\ Parent(p) \in Prefixes(p)
    BY <1>0, ParentOf, PrefixesOf DEF Below
  <2>. QED
    BY <2>1, <2>2, <2>3, <2>4, <2>5, <1>1 DEF Region
<1>. QED
  BY <1>3, <1>4 DEF N, d

NoNode == [q \in {} |-> Null]

\* data_cache_mkpath() is one that replaces nothing.
LEMMA MkpathIsPut ==
  ASSUME NEW c, NEW p \in Path
  PROVE  mkpath_w(c, p) = Put(c, p, {}, NoNode) /\ Region(p, {}, NoNode)
<1>1. DOMAIN NoNode = {}
  BY DEF NoNode
<1>2. (DOMAIN c \ {}) \cup (Prefixes(p) \ {}) \cup DOMAIN NoNode = DOMAIN c \cup Prefixes(p)
  BY <1>1
<1>3. mkpath_w(c, p) = Put(c, p, {}, NoNode)
  BY <1>2 DEF mkpath_w, Put
<1>. QED
  BY <1>1, <1>3 DEF Region

-----------------------------------------------------------------------------
(* Merging                                                                 *)

\* The path of a member lies one step below p.
LEMMA MemberPath ==
  ASSUME NEW p \in Seq(Key), NEW m \in Seq(Key), Len(m) = 1
  PROVE  /\ p \o m \in Seq(Key) /\ p \o m # <<>> /\ starts_with(p \o m, p)
         /\ ~starts_with(p, p \o m)
         /\ \A q \in Seq(Key) : starts_with(p \o m, q) <=> q = p \o m \/ starts_with(p, q)
<1>. DEFINE u == p \o m
<1>1. u \in Seq(Key) /\ starts_with(u, p) /\ Len(u) = Len(p) + 1
  BY Joined
<1>. HIDE DEF u
<1>2. u # <<>> /\ ~starts_with(p, u)
  BY <1>1 DEF starts_with
<1>3. /\ Parent(u) \in Seq(Key) /\ Len(Parent(u)) = Len(p) /\ starts_with(u, Parent(u))
      /\ \A q \in Seq(Key) : starts_with(u, q) => q = u \/ starts_with(Parent(u), q)
  BY <1>1, <1>2, ParentOf
<1>4. Parent(u) = p
  BY <1>1, <1>3 DEF starts_with
<1>5. \A q \in Seq(Key) : starts_with(p, q) => starts_with(u, q)
  BY <1>1, PrefixOrder
<1>. QED
  BY <1>1, <1>2, <1>3, <1>4, <1>5, PrefixOrder DEF u

\* A member of a JSON value is a JSON value.
LEMMA MemberIsJson ==
  ASSUME NEW p \in Path, NEW j, IsJson(j), Fits(p, j), NEW m \in Members(j)
  PROVE  /\ IsJson(Member(j, m)) /\ Fits(p \o m, Member(j, m))
         /\ \A r \in Seq(Key) : r \in DOMAIN Member(j, m) <=> m \o r \in DOMAIN j
         /\ \A r \in DOMAIN Member(j, m) : Member(j, m)[r] = j[m \o r]
<1>. DEFINE U == {u \in DOMAIN j : starts_with(u, m)}
            D == {SubSeq(u, 2, Len(u)) : u \in U}
            k == Member(j, m)
<1>0. /\ p \in Seq(Key) /\ m \in Seq(Key) /\ m \in DOMAIN j /\ Len(m) = 1
      /\ \A u \in DOMAIN j : u \in Seq(Key)
  BY PathFacts DEF Members, IsJson
<1>1. DOMAIN k = D /\ \A r \in D : k[r] = j[m \o r]
  BY DEF Member
<1>2. \A u \in U : /\ SubSeq(u, 2, Len(u)) = Rest(u, m) /\ Rest(u, m) \in Seq(Key)
                   /\ u = m \o Rest(u, m)
  <2>1. \A u \in U : Rest(u, m) \in Seq(Key) /\ u = m \o Rest(u, m)
    BY <1>0, RestOf
  <2>2. \A u \in U : SubSeq(u, 2, Len(u)) = Rest(u, m)
    BY <1>0 DEF Rest
  <2>. QED
    BY <2>1, <2>2
<1>3. \A r \in D : r \in Seq(Key) /\ m \o r \in DOMAIN j
  BY <1>2
<1>4. ASSUME NEW r \in Seq(Key), m \o r \in DOMAIN j PROVE r \in D
  <2>1. m \o r \in U /\ Rest(m \o r, m) = r
    BY <1>4, <1>0, Joined
  <2>. QED
    BY <2>1, <1>2
<1>5. IsFiniteSet(D)
  <2>. DEFINE f == [u \in U |-> SubSeq(u, 2, Len(u))]
  <2>1. IsFiniteSet(U)
    BY FS_Subset DEF IsJson
  <2>2. f \in Surjection(U, D)
    BY DEF Surjection
  <2>. QED
    BY <2>1, <2>2, FS_Surjection
<1>. HIDE DEF D, k
<1>6. <<>> \in D
  <2>1. <<>> \in Seq(Key) /\ m \o <<>> = m
    BY <1>0, ConcatEmptySeq
  <2>. QED
    BY <2>1, <1>0, <1>4
<1>7. ASSUME NEW r \in D, r # <<>> PROVE Parent(r) \in D /\ k[Parent(r)] = Object
  <2>1. r \in Seq(Key) /\ m \o r \in DOMAIN j
    BY <1>3
  <2>2. Parent(r) \in Seq(Key) /\ starts_with(r, Parent(r)) /\ r # Parent(r)
    BY <2>1, <1>7, ParentOf, PrefixOrder
  <2>3. starts_with(m \o r, m \o Parent(r)) /\ m \o Parent(r) \in Seq(Key)
    BY <2>1, <2>2, <1>0, Joined
  <2>4. m \o Parent(r) # m \o r
    BY <2>1, <2>2, <1>0, Joined
  <2>5. m \o Parent(r) \in DOMAIN j /\ j[m \o Parent(r)] = Object
    BY <2>1, <2>3, <2>4, JsonAbove
  <2>. QED
    BY <2>2, <2>5, <1>4, <1>1
<1>8. IsJson(k)
  <2>1. \A r \in D : k[r] \in Leaf \cup {Null, Object}
    BY <1>1, <1>3 DEF IsJson
  <2>. QED
    BY <2>1, <1>1, <1>3, <1>5, <1>6, <1>7 DEF IsJson
<1>9. Fits(p \o m, k)
  <2>. SUFFICES ASSUME NEW r \in D PROVE (p \o m) \o r \in Path
    BY <1>1 DEF Fits
  <2>1. (p \o m) \o r = p \o (m \o r)
    BY <1>0, <1>3, ConcatAssociative
  <2>. QED
    BY <2>1, <1>3 DEF Fits
<1>. QED
  BY <1>1, <1>3, <1>4, <1>8, <1>9 DEF k

\* What is written when the members of s have been merged.
MergeRegion(p, s) == {q \in Path : \E m \in s : starts_with(q, p \o m)}
MergeNodes(p, j, s) ==
    [q \in {q \in MergeRegion(p, s) : Rest(q, p) \in DOMAIN j /\ j[Rest(q, p)] # Null} |->
        j[Rest(q, p)]]

\* It makes trees that fit below p.
LEMMA MergeIsRegion ==
  ASSUME NEW p \in Path, NEW j, IsJson(j), NEW s, s \subseteq Members(j)
  PROVE  Region(p, MergeRegion(p, s), MergeNodes(p, j, s))
<1>. DEFINE B == MergeRegion(p, s)
            N == MergeNodes(p, j, s)
<1>0. /\ p \in Seq(Key) /\ \A q \in Path : q \in Seq(Key)
      /\ \A m \in s : m \in Seq(Key) /\ Len(m) = 1
  BY PathFacts DEF Members, IsJson
<1>1. /\ \A q : q \in DOMAIN N <=> /\ q \in B /\ Rest(q, p) \in DOMAIN j
                                   /\ j[Rest(q, p)] # Null
      /\ \A q \in DOMAIN N : N[q] = j[Rest(q, p)]
  BY DEF MergeNodes
<1>. HIDE DEF N
<1>2. p \in Path /\ B \subseteq Path /\ DOMAIN N \subseteq B
  BY <1>1 DEF MergeRegion
<1>3. ASSUME NEW q \in B, NEW r \in Path, starts_with(r, q) PROVE r \in B
  <2>1. PICK m \in s : starts_with(q, p \o m)
    BY DEF MergeRegion
  <2>2. p \o m \in Seq(Key) /\ q \in Seq(Key)
    BY <1>0, MemberPath DEF MergeRegion
  <2>. QED
    BY <2>1, <2>2, <1>0, <1>3, PrefixOrder DEF MergeRegion
<1>4. ASSUME NEW q \in B, NEW r \in Path, starts_with(q, r) PROVE r \in B \/ r \in Prefixes(p)
  <2>1. PICK m \in s : starts_with(q, p \o m)
    BY DEF MergeRegion
  <2>2. /\ p \o m \in Seq(Key) /\ q \in Seq(Key) /\ r \in Seq(Key)
        /\ Len(r) \in Nat /\ Len(p \o m) \in Nat
    BY <1>0, MemberPath DEF MergeRegion
  <2>3. starts_with(r, p \o m) \/ starts_with(p \o m, r)
    BY <2>1, <2>2, <1>4, PrefixesCompare
  <2>4. starts_with(r, p \o m) \/ starts_with(p, r)
    BY <2>2, <2>3, <1>0, MemberPath, PrefixOrder
  <2>. QED
    BY <2>2, <2>4, <1>0, PrefixesOf DEF MergeRegion
<1>5. \A q \in B : starts_with(q, p) /\ q # p
  <2>. SUFFICES ASSUME NEW q \in B PROVE starts_with(q, p) /\ q # p
    OBVIOUS
  <2>1. PICK m \in s : starts_with(q, p \o m)
    BY DEF MergeRegion
  <2>2. q \in Seq(Key) /\ p \o m \in Seq(Key) /\ starts_with(p \o m, p) /\ ~starts_with(p, p \o m)
    BY <1>0, MemberPath DEF MergeRegion
  <2>. QED
    BY <2>1, <2>2, <1>0, PrefixOrder
<1>6. <<>> \notin B
  BY <1>0, <1>5 DEF starts_with
<1>7. ASSUME NEW q \in DOMAIN N
      PROVE  /\ N[q] \in Leaf \cup {Null, Object}
             /\ q # <<>> => IF Parent(q) \in B
                            THEN Parent(q) \in DOMAIN N /\ N[Parent(q)] = Object
                            ELSE Parent(q) \in Prefixes(p)
  <2>1. /\ q \in B /\ q \in Path /\ q \in Seq(Key) /\ starts_with(q, p)
        /\ Rest(q, p) \in DOMAIN j /\ N[q] = j[Rest(q, p)]
    BY <1>0, <1>1, <1>2, <1>5
  <2>2. N[q] \in Leaf \cup {Null, Object}
    BY <2>1 DEF IsJson
  <2>3. ASSUME q # <<>>, Parent(q) \in B
        PROVE  Parent(q) \in DOMAIN N /\ N[Parent(q)] = Object
    <3>. DEFINE u == Parent(q)
    <3>1. u \in Seq(Key) /\ Len(u) = Len(q) - 1 /\ starts_with(q, u) /\ starts_with(u, p)
      BY <2>3, <2>1, <1>5, ParentOf
    <3>2. u # q
      BY <3>1, <2>1
    <3>3. /\ Rest(u, p) \in Seq(Key) /\ Rest(q, p) \in Seq(Key)
          /\ starts_with(Rest(q, p), Rest(u, p)) /\ Rest(q, p) # Rest(u, p)
      BY <3>1, <3>2, <2>1, <1>0, RestOrder
    <3>5. Rest(u, p) \in DOMAIN j /\ j[Rest(u, p)] = Object
      BY <3>3, <2>1, JsonAbove
    <3>6. Object # Null
      BY LeafAssumption DEF GoodLeaves
    <3>. QED
      BY <3>5, <3>6, <2>3, <1>1
  <2>4. ASSUME q # <<>>, Parent(q) \notin B
        PROVE  Parent(q) \in Prefixes(p)
    <3>1. Parent(q) \in Seq(Key) /\ starts_with(q, Parent(q))
      BY <2>4, <2>1, ParentOf
    <3>2. Parent(q) \in Path
      BY <3>1, <2>1, PrefixesOf, PathFacts
    <3>. QED
      BY <3>1, <3>2, <2>4, <2>1, <1>4
  <2>. QED
    BY <2>2, <2>3, <2>4
<1>8. Region(p, B, N)
  BY <1>2, <1>3, <1>4, <1>6, <1>7 DEF Region
<1>. QED
  BY <1>8 DEF N

\* The cache when the members of s have been merged.
Merged(c, p, j, s) ==
    IF s = {} THEN c ELSE Put(c, p, MergeRegion(p, s), MergeNodes(p, j, s))

\* data_cache_merge() leaves a tree after each member.
LEMMA MergedTree ==
  ASSUME NEW c, Tree(c), NEW p \in Path, NEW j, IsJson(j), NEW s, s \subseteq Members(j)
  PROVE  Tree(Merged(c, p, j, s))
BY MergeIsRegion, PutTree DEF Merged

\* Writing one member more.
LEMMA MergeStep ==
  ASSUME NEW c, Tree(c), NEW p \in Path, NEW j, IsJson(j), Fits(p, j),
         NEW s, s \subseteq Members(j), NEW m \in Members(j)
  PROVE  set_ex(Merged(c, p, j, s), p \o m, Member(j, m)) = Merged(c, p, j, s \cup {m})
<1>. DEFINE d == Merged(c, p, j, s)
            k == Member(j, m)
            u == p \o m
            t == s \cup {m}
            B == MergeRegion(p, t)
            N == MergeNodes(p, j, t)
            K == JsonNodes(u, k)
            e == Put(d, u, Below(u), K)
            f == Put(c, p, B, N)
<1>0. /\ p \in Seq(Key) /\ m \in Seq(Key) /\ Len(m) = 1 /\ m \in DOMAIN j
      /\ \A q \in Path : q \in Seq(Key)
  BY PathFacts DEF Members, IsJson
<1>1. /\ u \in Path /\ u \in Seq(Key) /\ u # <<>>
      /\ \A q \in Seq(Key) : starts_with(u, q) <=> q = u \/ starts_with(p, q)
      /\ ~starts_with(p, u) /\ starts_with(u, p)
  BY <1>0, MemberPath DEF Fits
<1>2. /\ IsJson(k) /\ Fits(u, k)
      /\ \A r \in Seq(Key) : r \in DOMAIN k <=> m \o r \in DOMAIN j
      /\ \A r \in DOMAIN k : k[r] = j[m \o r]
  BY MemberIsJson
<1>. HIDE DEF k
<1>3. Tree(d)
  BY MergedTree
<1>4. set_ex(d, u, k) = e /\ Region(u, Below(u), K)
  BY <1>1, <1>2, <1>3, SetExIsPut, JsonRegion
<1>5. Region(p, B, N)
  BY MergeIsRegion
<1>6. \A q \in Below(u) : Rest(q, p) = m \o Rest(q, u) /\ Rest(q, u) \in Seq(Key)
  <2>. SUFFICES ASSUME NEW q \in Below(u)
                PROVE  Rest(q, p) = m \o Rest(q, u) /\ Rest(q, u) \in Seq(Key)
    OBVIOUS
  <2>1. Rest(q, u) \in Seq(Key) /\ q = u \o Rest(q, u)
    BY <1>0, <1>1, RestOf DEF Below
  <2>. DEFINE R == Rest(q, u)
              M == m \o R
  <2>2. R \in Seq(Key) /\ q = (p \o m) \o R
    BY <2>1
  <2>. HIDE DEF R
  <2>3. (p \o m) \o R = p \o M /\ M \in Seq(Key)
    BY <2>2, <1>0, ConcatAssociative, ConcatProperties
  <2>. HIDE DEF M
  <2>4. Rest(p \o M, p) = M
    BY <2>3, <1>0, Joined
  <2>5. Rest(q, p) = M
    BY <2>2, <2>3, <2>4, Zenon
  <2>. QED
    BY <2>1, <2>5 DEF M, R
<1>7. /\ \A q : q \in DOMAIN K <=> /\ q \in Below(u) /\ Rest(q, p) \in DOMAIN j
                                   /\ j[Rest(q, p)] # Null
      /\ \A q \in DOMAIN K : K[q] = j[Rest(q, p)]
  <2>1. /\ \A q : q \in DOMAIN K <=> /\ q \in Below(u) /\ Rest(q, u) \in DOMAIN k
                                     /\ k[Rest(q, u)] # Null \/ q = <<>>
        /\ \A q \in DOMAIN K : K[q] = k[Rest(q, u)]
    BY <1>1, <1>2, JsonNodesAt
  <2>2. <<>> \notin Below(u)
    BY <1>0, <1>1 DEF Below, starts_with
  <2>. QED
    BY <2>1, <2>2, <1>2, <1>6
<1>. HIDE DEF K
<1>8. /\ \A q : q \in DOMAIN N <=> /\ q \in B /\ Rest(q, p) \in DOMAIN j
                                   /\ j[Rest(q, p)] # Null
      /\ \A q \in DOMAIN N : N[q] = j[Rest(q, p)]
  BY DEF MergeNodes
<1>. HIDE DEF N
<1>9. \A q : q \in B <=> q \in MergeRegion(p, s) \/ q \in Below(u)
  BY DEF MergeRegion, Below
<1>10. /\ \A q \in Prefixes(u) : q \in Below(u) \/ q \in Prefixes(p)
       /\ \A q \in Prefixes(p) : q \in Prefixes(u) /\ q \notin B
  <2>1. p \in Path /\ Prefixes(u) \subseteq Path /\ Prefixes(p) \subseteq Path
    BY <1>1, PathFacts
  <2>2. ASSUME NEW q \in Prefixes(u) PROVE q \in Below(u) \/ q \in Prefixes(p)
    BY <2>1, <1>0, <1>1, PrefixesOf, PrefixOrder DEF Below
  <2>3. ASSUME NEW q \in Prefixes(p) PROVE q \in Prefixes(u)
    BY <2>1, <1>0, <1>1, PrefixesOf
  <2>4. ASSUME NEW q \in Prefixes(p), q \in B PROVE FALSE
    <3>1. PICK n \in t : starts_with(q, p \o n)
      BY <2>4 DEF MergeRegion
    <3>2. n \in Seq(Key) /\ Len(n) = 1
      BY DEF Members, IsJson
    <3>3. p \o n \in Seq(Key) /\ ~starts_with(p, p \o n)
      BY <3>2, <1>0, MemberPath
    <3>4. starts_with(p, q) /\ q \in Seq(Key)
      BY <2>1, <1>0, PrefixesOf
    <3>. QED
      BY <3>1, <3>3, <3>4, <1>0, PrefixOrder
  <2>. QED
    BY <2>2, <2>3, <2>4
<1>11. /\ \A q : q \in DOMAIN e <=>
                    \/ q \in DOMAIN K
                    \/ q \notin Below(u) /\ (q \in Prefixes(u) \/ q \in DOMAIN d)
       /\ \A q \in DOMAIN K : e[q] = Node(K[q])
       /\ \A q \in Prefixes(u) \ Below(u) : e[q] = Node(Object)
       /\ \A q \in DOMAIN d \ Below(u) : q \notin Prefixes(u) => e[q] = d[q]
       /\ e = [q \in DOMAIN e |-> e[q]]
  <2>1. e = [q \in DOMAIN e |-> e[q]]
    BY DEF Put
  <2>. HIDE DEF e
  <2>. QED
    BY <2>1, <1>4, PutNodes DEF e
<1>12. /\ \A q : q \in DOMAIN f <=>
                    \/ q \in DOMAIN N
                    \/ q \notin B /\ (q \in Prefixes(p) \/ q \in DOMAIN c)
       /\ \A q \in DOMAIN N : f[q] = Node(N[q])
       /\ \A q \in Prefixes(p) \ B : f[q] = Node(Object)
       /\ \A q \in DOMAIN c \ B : q \notin Prefixes(p) => f[q] = c[q]
       /\ f = [q \in DOMAIN f |-> f[q]]
  <2>1. f = [q \in DOMAIN f |-> f[q]]
    BY DEF Put
  <2>. HIDE DEF f
  <2>. QED
    BY <2>1, <1>5, PutNodes DEF f
<1>13. \A q : /\ q \in DOMAIN d /\ q \notin Prefixes(p) <=>
                    \/ /\ q \in MergeRegion(p, s) /\ Rest(q, p) \in DOMAIN j
                       /\ j[Rest(q, p)] # Null
                    \/ q \notin MergeRegion(p, s) /\ q \in DOMAIN c /\ q \notin Prefixes(p)
              /\ q \in DOMAIN d /\ q \notin Prefixes(p) =>
                    d[q] = IF q \in MergeRegion(p, s) THEN Node(j[Rest(q, p)]) ELSE c[q]
  <2>1. CASE s = {}
    <3>1. d = c /\ MergeRegion(p, s) = {}
      BY <2>1 DEF Merged, MergeRegion
    <3>. QED
      BY <3>1
  <2>2. CASE s # {}
    <3>. DEFINE C == MergeRegion(p, s)
                M == MergeNodes(p, j, s)
    <3>1. d = Put(c, p, C, M) /\ Region(p, C, M)
      BY <2>2, MergeIsRegion DEF Merged
    <3>2. /\ \A q : q \in DOMAIN M <=> /\ q \in C /\ Rest(q, p) \in DOMAIN j
                                       /\ j[Rest(q, p)] # Null
          /\ \A q \in DOMAIN M : M[q] = j[Rest(q, p)]
      BY DEF MergeNodes
    <3>3. \A q \in C : q \notin Prefixes(p)
      BY <1>9, <1>10
    <3>. HIDE DEF d, C, M
    <3>4. /\ \A q : q \in DOMAIN d <=>
                    \/ q \in DOMAIN M
                    \/ q \notin C /\ (q \in Prefixes(p) \/ q \in DOMAIN c)
          /\ \A q \in DOMAIN M : d[q] = Node(M[q])
          /\ \A q \in Prefixes(p) \ C : d[q] = Node(Object)
          /\ \A q \in DOMAIN c \ C : q \notin Prefixes(p) => d[q] = c[q]
      BY <3>1, PutNodes
    <3>5. \A q : /\ q \in DOMAIN d /\ q \notin Prefixes(p) <=>
                    \/ /\ q \in C /\ Rest(q, p) \in DOMAIN j
                       /\ j[Rest(q, p)] # Null
                    \/ q \notin C /\ q \in DOMAIN c /\ q \notin Prefixes(p)
                 /\ q \in DOMAIN d /\ q \notin Prefixes(p) =>
                    d[q] = IF q \in C THEN Node(j[Rest(q, p)]) ELSE c[q]
      BY <3>2, <3>3, <3>4
    <3>. QED
      BY <3>5 DEF C
  <2>. QED
    BY <2>1, <2>2
<1>. HIDE DEF d, e, f, B, t, u
<1>14. ASSUME NEW q PROVE q \in DOMAIN e <=> q \in DOMAIN f
  BY <1>7, <1>8, <1>9, <1>10, <1>11, <1>12, <1>13
<1>15. ASSUME NEW q \in DOMAIN e PROVE e[q] = f[q]
  <2>1. CASE q \in Below(u)
    BY <2>1, <1>7, <1>8, <1>9, <1>11, <1>12
  <2>2. CASE q \notin Below(u) /\ q \in Prefixes(p)
    BY <2>2, <1>10, <1>11, <1>12
  <2>3. CASE q \notin Below(u) /\ q \notin Prefixes(p)
    <3>1. q \notin Prefixes(u) /\ q \in DOMAIN d
      BY <2>3, <1>7, <1>10, <1>11
    <3>2. e[q] = d[q]
      BY <3>1, <2>3, <1>11
    <3>3. CASE q \in MergeRegion(p, s)
      BY <3>1, <3>2, <3>3, <2>3, <1>8, <1>9, <1>12, <1>13
    <3>4. CASE q \notin MergeRegion(p, s)
      BY <3>1, <3>2, <3>4, <2>3, <1>8, <1>9, <1>12, <1>13
    <3>. QED
      BY <3>3, <3>4
  <2>. QED
    BY <2>1, <2>2, <2>3
<1>16. e = f
  <2>1. DOMAIN e = DOMAIN f
    BY <1>14
  <2>. QED
    BY <2>1, <1>11, <1>12, <1>15
<1>17. t # {}
  BY DEF t
<1>18. Merged(c, p, j, t) = f
  BY <1>17 DEF Merged, f, B, N
<1>. QED
  BY <1>4, <1>16, <1>18 DEF d, u, k, t

\* data_cache_merge() writes all members, in whatever order the fold takes them.
LEMMA MergeIsMerged ==
  ASSUME Tree(cache), NEW p \in Path, NEW j \in Json, data_cache_merge(p, j)
  PROVE  cache' = Merged(cache, p, j, Members(j))
<1>. DEFINE M == Members(j)
            Pick(s) == CHOOSE m \in s : TRUE
            Step(s, f) == IF s = {} THEN cache
                          ELSE set_ex(f[s \ {Pick(s)}], p \o Pick(s), Member(j, Pick(s)))
            Up(n) == {s \in SUBSET M : Cardinality(s) <= n}
            IsFold(f, E) == f = [s \in E |-> Step(s, f)]
            S == {n \in Nat : \E f : IsFold(f, Up(n))}
<1>0. IsJson(j) /\ Fits(p, j)
  BY JsonAssumption DEF data_cache_merge
<1>1. IsFiniteSet(M) /\ Cardinality(M) \in Nat
  BY <1>0, FS_Subset, FS_CardinalityType DEF Members, IsJson
<1>2. \A s \in SUBSET M : IsFiniteSet(s) /\ Cardinality(s) \in Nat /\ Cardinality(s) <= Cardinality(M)
  BY <1>1, FS_Subset, FS_CardinalityType
<1>3. ASSUME NEW s \in SUBSET M, s # {}
      PROVE  /\ Pick(s) \in s /\ s \ {Pick(s)} \in SUBSET M
             /\ Cardinality(s \ {Pick(s)}) = Cardinality(s) - 1
  <2>1. Pick(s) \in s
    BY <1>3
  <2>. HIDE DEF Pick
  <2>. QED
    BY <2>1, <1>2, FS_RemoveElement
<1>. HIDE DEF M, Pick
<1>4. 0 \in S
  <2>1. \A s \in Up(0) : s = {}
    BY <1>2, FS_EmptySet
  <2>2. IsFold([s \in Up(0) |-> cache], Up(0))
    BY <2>1
  <2>. QED
    BY <2>2
<1>5. ASSUME NEW n \in Nat, n \in S PROVE n + 1 \in S
  <2>1. PICK f : IsFold(f, Up(n))
    BY <1>5
  <2>. DEFINE g == [s \in Up(n + 1) |-> Step(s, f)]
  <2>2. Up(n) \subseteq Up(n + 1)
    BY <1>2
  <2>3. \A s \in Up(n) : g[s] = f[s]
    BY <2>1, <2>2
  <2>4. ASSUME NEW s \in Up(n + 1) PROVE Step(s, g) = Step(s, f)
    <3>1. CASE s = {}
      BY <3>1
    <3>2. CASE s # {}
      <4>1. s \ {Pick(s)} \in Up(n)
        BY <3>2, <1>2, <1>3
      <4>. HIDE DEF g, Up
      <4>. QED
        BY <4>1, <3>2, <2>3
    <3>. QED
      BY <3>1, <3>2
  <2>5. IsFold(g, Up(n + 1))
    <3>1. g = [s \in Up(n + 1) |-> Step(s, f)]
      OBVIOUS
    <3>. HIDE DEF g, Up, Step
    <3>2. [s \in Up(n + 1) |-> Step(s, f)] = [s \in Up(n + 1) |-> Step(s, g)]
      BY <2>4
    <3>. QED
      BY <3>1, <3>2
  <2>. HIDE DEF g, Up, IsFold
  <2>6. n + 1 \in Nat /\ \E h : IsFold(h, Up(n + 1))
    BY <2>5
  <2>. QED
    BY <2>6
<1>6. PICK fold : IsFold(fold, SUBSET M) /\ cache' = fold[M]
  <2>1. Cardinality(M) \in S
    <3>. HIDE DEF S
    <3>1. Nat \subseteq S
      BY <1>4, <1>5, CountUp
    <3>. QED
      BY <3>1, <1>1
  <2>2. Up(Cardinality(M)) = SUBSET M
    BY <1>2
  <2>3. \E f : IsFold(f, SUBSET M)
    BY <2>1, <2>2
  <2>4. cache' = (CHOOSE f : IsFold(f, SUBSET M))[M]
    BY DEF data_cache_merge, FoldSet, MapThenFoldSet, M, Pick
  <2>. QED
    BY <2>3, <2>4
<1>. DEFINE G == {n \in Nat : \A s \in SUBSET M : Cardinality(s) = n
                                => fold[s] = Merged(cache, p, j, s)}
<1>7. \A s \in SUBSET M : fold[s] = Step(s, fold)
  BY <1>6
<1>8. 0 \in G
  <2>1. \A s \in SUBSET M : Cardinality(s) = 0 => s = {}
    BY <1>2, FS_EmptySet
  <2>. QED
    BY <2>1, <1>7 DEF Merged
<1>9. ASSUME NEW n \in Nat, n \in G PROVE n + 1 \in G
  <2>1. ASSUME NEW s \in SUBSET M, Cardinality(s) = n + 1
        PROVE  fold[s] = Merged(cache, p, j, s)
    <3>1. s # {}
      BY <2>1, FS_EmptySet
    <3>. DEFINE r == s \ {Pick(s)}
    <3>2. r \in SUBSET M /\ Cardinality(r) = n /\ Pick(s) \in M /\ s = r \cup {Pick(s)}
      BY <3>1, <2>1, <1>3
    <3>3. fold[s] = set_ex(fold[r], p \o Pick(s), Member(j, Pick(s)))
      BY <3>1, <1>7
    <3>. HIDE DEF r
    <3>4. fold[r] = Merged(cache, p, j, r)
      BY <3>2, <1>9
    <3>5. set_ex(Merged(cache, p, j, r), p \o Pick(s), Member(j, Pick(s)))
            = Merged(cache, p, j, r \cup {Pick(s)})
      BY <3>2, <1>0, MergeStep DEF M
    <3>. QED
      BY <3>2, <3>3, <3>4, <3>5
  <2>. QED
    BY <2>1
<1>. HIDE DEF G
<1>10. Nat \subseteq G
  BY <1>8, <1>9, CountUp
<1>11. Cardinality(M) \in G /\ M \in SUBSET M
  BY <1>1, <1>10
<1>12. fold[M] = Merged(cache, p, j, M)
  BY <1>11 DEF G
<1>. QED
  BY <1>6, <1>12 DEF M

-----------------------------------------------------------------------------
(* The invariant                                                           *)

CacheInv == Tree(cache) /\ Fresh(cache)

\* A new cache.
LEMMA CacheStart == Init => CacheInv
<1>. SUFFICES ASSUME Init PROVE CacheInv
  OBVIOUS
<1>1. DOMAIN cache = {<<>>} /\ cache[<<>>] = Node(Null) /\ cache = [p \in DOMAIN cache |-> cache[p]]
  BY DEF Init
<1>2. Tree(cache)
  BY <1>1, PathFacts DEF Tree, Node
<1>. QED
  BY <1>1, <1>2 DEF CacheInv, Fresh, Node

\* Every write keeps the tree and drops all hashes that it makes stale.
LEMMA PutKeeps ==
  ASSUME CacheInv, NEW p, NEW B, NEW N, Region(p, B, N), cache' = Put(cache, p, B, N)
  PROVE  CacheInv'
<1>1. Tree(cache')
  BY PutTree DEF CacheInv
<1>2. Touch(cache, cache', B \cup Prefixes(p))
  BY PutTouch DEF CacheInv
<1>3. Fresh(cache')
  BY <1>1, <1>2, FreshAfterWrite DEF CacheInv, Tree
<1>4. Tree(cache)' /\ Fresh(cache)'
  BY <1>1, <1>3 DEF Tree, Fresh
<1>. QED
  BY <1>4 DEF CacheInv

\* treenode_hash_get() keeps them too.
LEMMA HashGetKeeps ==
  ASSUME CacheInv, NEW p \in Path, treenode_hash_get(p)
  PROVE  CacheInv' /\ DOMAIN cache' = DOMAIN cache
         /\ \A q \in DOMAIN cache : cache'[q].val = cache[q].val
<1>1. /\ DOMAIN cache' = DOMAIN cache /\ cache' = [q \in DOMAIN cache' |-> cache'[q]]
      /\ \A q \in DOMAIN cache : \/ cache'[q] = cache[q]
                                 \/ cache'[q] = [cache[q] EXCEPT !.hash = HashOf(cache)[q]]
  BY DEF treenode_hash_get
<1>2. \A q \in DOMAIN cache : cache[q] = [val |-> cache[q].val, hash |-> cache[q].hash]
  BY DEF CacheInv, Tree
<1>3. ASSUME NEW q \in DOMAIN cache
      PROVE  /\ cache'[q].val = cache[q].val
             /\ cache'[q] = [val |-> cache'[q].val, hash |-> cache'[q].hash]
             /\ cache'[q].hash = cache[q].hash \/ cache'[q].hash = HashOf(cache)[q]
  BY <1>1, <1>2
<1>4. Tree(cache')
  BY <1>1, <1>3 DEF CacheInv, Tree
<1>5. Copy(cache') = Copy(cache)
  BY <1>1, <1>3 DEF Copy
<1>6. \A q \in DOMAIN cache : HashOf(cache)[q] = HashOf(Copy(cache))[q]
  BY FreshIsFromScratch DEF CacheInv, Tree
<1>7. Fresh(cache')
  BY <1>1, <1>3, <1>5, <1>6 DEF CacheInv, Fresh
<1>8. Tree(cache)' /\ Fresh(cache)'
  BY <1>4, <1>7 DEF Tree, Fresh
<1>. QED
  BY <1>1, <1>3, <1>8 DEF CacheInv

\* Every operation keeps the invariant.
LEMMA CacheStep == CacheInv /\ [Next]_cache => CacheInv'
<1>. SUFFICES ASSUME CacheInv, [Next]_cache PROVE CacheInv'
  OBVIOUS
<1>0. Tree(cache)
  BY DEF CacheInv
<1>1. CASE UNCHANGED cache
  BY <1>1 DEF CacheInv, Tree, Fresh
<1>2. ASSUME NEW p \in Path, NEW j \in Json, data_cache_set(p, j) PROVE CacheInv'
  <2>1. IsJson(j) /\ Fits(p, j) /\ cache' = set_ex(cache, p, j)
    BY <1>2, JsonAssumption DEF data_cache_set
  <2>. QED
    BY <2>1, <1>0, SetExIsPut, JsonRegion, PutKeeps
<1>3. ASSUME NEW p \in Path, NEW j \in Json, data_cache_merge(p, j) PROVE CacheInv'
  <2>1. cache' = Merged(cache, p, j, Members(j)) /\ IsJson(j)
    BY <1>0, <1>3, MergeIsMerged, JsonAssumption
  <2>2. CASE Members(j) = {}
    <3>1. UNCHANGED cache
      BY <2>1, <2>2 DEF Merged
    <3>. QED
      BY <3>1 DEF CacheInv, Tree, Fresh
  <2>3. CASE Members(j) # {}
    BY <2>1, <2>3, MergeIsRegion, PutKeeps DEF Merged
  <2>. QED
    BY <2>2, <2>3
<1>4. ASSUME NEW p \in Path, NEW v \in Leaf \cup {Null}, data_cache_set_leaf(p, v) PROVE CacheInv'
  BY <1>0, <1>4, SetLeafIsPut, PutKeeps
<1>5. ASSUME NEW p \in Path, data_cache_mkpath(p) PROVE CacheInv'
  BY <1>5, MkpathIsPut, PutKeeps DEF data_cache_mkpath
<1>6. ASSUME NEW p \in Path, treenode_hash_get(p) PROVE CacheInv'
  BY <1>6, HashGetKeeps
<1>. QED
  BY <1>1, <1>2, <1>3, <1>4, <1>5, <1>6 DEF Next

\* It holds in all behaviours.
LEMMA CacheInvariant == Spec => []CacheInv
BY CacheStart, CacheStep, PTL DEF Spec

\* The nodes always form a tree: nothing is left below a leaf or out of reach
\* when a path is made, a node overwritten or a document merged.
THEOREM CacheIsTree == Spec => []TypeOK
<1>1. CacheInv => TypeOK
  BY DEF CacheInv, Tree, TypeOK
<1>. QED
  BY <1>1, CacheInvariant, PTL

\* A stored hash is never stale: whatever is written, at whatever depth, the
\* hashes of all nodes above are dropped, so that the event registry sees the
\* change.
THEOREM HashesAreFresh == Spec => []HashFresh
<1>1. CacheInv => HashFresh
  BY DEF CacheInv, Fresh, HashFresh, Copy
<1>. QED
  BY <1>1, CacheInvariant, PTL

-----------------------------------------------------------------------------
(* The document                                                            *)

\* The mapping: the leaves of the cache and their values.
LeafValues == [p \in Leaves |-> cache[p].val]

\* The leaves after a write: the new ones, and the old ones that are neither in
\* its region nor on the way to it.
LEMMA PutLeaves ==
  ASSUME Tree(cache), NEW p, NEW B, NEW N, Region(p, B, N), cache' = Put(cache, p, B, N)
  PROVE  /\ \A q : q \in Leaves' <=> \/ q \in DOMAIN N /\ N[q] \in Leaf
                                     \/ q \in Leaves /\ q \notin B /\ q \notin Prefixes(p)
         /\ \A q \in Leaves' : cache'[q].val = IF q \in B THEN N[q] ELSE cache[q].val
<1>1. /\ \A q : q \in DOMAIN cache' <=>
                    \/ q \in DOMAIN N
                    \/ q \notin B /\ (q \in Prefixes(p) \/ q \in DOMAIN cache)
      /\ \A q \in DOMAIN N : cache'[q] = Node(N[q])
      /\ \A q \in Prefixes(p) \ B : cache'[q] = Node(Object)
      /\ \A q \in DOMAIN cache \ B : q \notin Prefixes(p) => cache'[q] = cache[q]
  BY PutNodes
<1>2. Object \notin Leaf /\ DOMAIN N \subseteq B
  BY LeafAssumption DEF GoodLeaves, Region
<1>3. \A q : q \in Leaves' <=> q \in DOMAIN cache' /\ cache'[q].val \in Leaf
  BY DEF Leaves
<1>4. \A q : q \in Leaves <=> q \in DOMAIN cache /\ cache[q].val \in Leaf
  BY DEF Leaves
<1>5. \A v : Node(v).val = v
  BY DEF Node
<1>6. ASSUME NEW q PROVE q \in Leaves' <=> \/ q \in DOMAIN N /\ N[q] \in Leaf
                                           \/ q \in Leaves /\ q \notin B /\ q \notin Prefixes(p)
  <2>1. CASE q \in DOMAIN N
    BY <2>1, <1>1, <1>2, <1>3, <1>5
  <2>2. CASE q \notin DOMAIN N /\ q \notin B /\ q \in Prefixes(p)
    BY <2>2, <1>1, <1>2, <1>3, <1>5
  <2>3. CASE q \notin DOMAIN N /\ ~(q \notin B /\ q \in Prefixes(p))
    BY <2>3, <1>1, <1>2, <1>3, <1>4
  <2>. QED
    BY <2>1, <2>2, <2>3
<1>7. ASSUME NEW q \in Leaves' PROVE cache'[q].val = IF q \in B THEN N[q] ELSE cache[q].val
  BY <1>1, <1>2, <1>3, <1>5, <1>6, <1>4
<1>. QED
  BY <1>6, <1>7

\* Writing j at p, seen from the paths.
LEMMA WrittenAt ==
  ASSUME NEW d, DOMAIN d \subseteq Path, NEW p \in Path, NEW j, IsJson(j), Fits(p, j)
  PROVE  LET w == Doc!Written(d, p, j)
         IN  /\ w = [q \in DOMAIN w |-> w[q]]
             /\ \A q : q \in DOMAIN w <=>
                    \/ q \in Below(p) /\ Rest(q, p) \in DOMAIN j /\ j[Rest(q, p)] \in Leaf
                    \/ q \in DOMAIN d /\ q \notin Below(p) /\ q \notin Prefixes(p)
             /\ \A q \in DOMAIN w : w[q] = IF q \in Below(p) THEN j[Rest(q, p)] ELSE d[q]
<1>. DEFINE w == Doc!Written(d, p, j)
            kept == {q \in DOMAIN d : ~Doc!Related(q, p)}
            new == {p \o r : r \in Doc!LeavesOf(j)}
<1>0. p \in Seq(Key) /\ \A r \in DOMAIN j : r \in Seq(Key) /\ p \o r \in Path
  BY PathFacts DEF IsJson, Fits
<1>1. \A q : q \in kept <=> q \in DOMAIN d /\ q \notin Below(p) /\ q \notin Prefixes(p)
  <2>1. \A q \in DOMAIN d : Doc!Related(q, p) <=> starts_with(q, p) \/ starts_with(p, q)
    BY DEF Doc!Related, Doc!starts_with, starts_with
  <2>2. \A q \in DOMAIN d : q \in Path /\ q \in Seq(Key) /\ (q \in Prefixes(p) <=> starts_with(p, q))
    BY <1>0, PathFacts, PrefixesOf
  <2>. QED
    BY <2>1, <2>2 DEF Below
<1>2. \A q : q \in new <=> q \in Below(p) /\ Rest(q, p) \in DOMAIN j /\ j[Rest(q, p)] \in Leaf
  <2>1. ASSUME NEW r \in DOMAIN j, j[r] \in Leaf
        PROVE  p \o r \in Below(p) /\ Rest(p \o r, p) = r
    BY <1>0, Joined DEF Below
  <2>2. ASSUME NEW q \in Below(p), Rest(q, p) \in DOMAIN j, j[Rest(q, p)] \in Leaf
        PROVE  q \in new
    <3>1. q = p \o Rest(q, p)
      BY <1>0, PathFacts, RestOf DEF Below
    <3>. QED
      BY <3>1, <2>2 DEF Doc!LeavesOf
  <2>3. ASSUME NEW q \in new
        PROVE  q \in Below(p) /\ Rest(q, p) \in DOMAIN j /\ j[Rest(q, p)] \in Leaf
    <3>1. PICK r \in DOMAIN j : q = p \o r /\ j[r] \in Leaf
      BY DEF Doc!LeavesOf
    <3>. QED
      BY <3>1, <2>1
  <2>. QED
    BY <2>2, <2>3
<1>3. w = [q \in kept \cup new |-> IF q \in new THEN j[Rest(q, p)] ELSE d[q]]
  BY DEF Doc!Written, Rest
<1>. HIDE DEF kept, new, w
<1>4. DOMAIN w = kept \cup new /\ w = [q \in DOMAIN w |-> w[q]]
      /\ \A q \in DOMAIN w : w[q] = IF q \in new THEN j[Rest(q, p)] ELSE d[q]
  BY <1>3
<1>5. \A q : q \in DOMAIN w <=>
                    \/ q \in Below(p) /\ Rest(q, p) \in DOMAIN j /\ j[Rest(q, p)] \in Leaf
                    \/ q \in DOMAIN d /\ q \notin Below(p) /\ q \notin Prefixes(p)
  BY <1>1, <1>2, <1>4
<1>6. \A q \in DOMAIN w : w[q] = IF q \in Below(p) THEN j[Rest(q, p)] ELSE d[q]
  BY <1>1, <1>2, <1>4
<1>. QED
  BY <1>4, <1>5, <1>6 DEF w

\* A write of the leaves of j is Document's Put.
LEMMA PutIsWritten ==
  ASSUME Tree(cache), NEW p \in Path, NEW j, IsJson(j), Fits(p, j),
         NEW N, Region(p, Below(p), N), cache' = Put(cache, p, Below(p), N),
         \A q : q \in DOMAIN N /\ N[q] \in Leaf <=>
                    q \in Below(p) /\ Rest(q, p) \in DOMAIN j /\ j[Rest(q, p)] \in Leaf,
         \A q \in DOMAIN N : N[q] = j[Rest(q, p)]
  PROVE  Doc!Put(p, j)
<1>. DEFINE w == Doc!Written(LeafValues, p, j)
            B == Below(p)
<1>1. /\ DOMAIN LeafValues = Leaves /\ Leaves \subseteq Path
      /\ \A q \in Leaves : LeafValues[q] = cache[q].val
  BY DEF LeafValues, Leaves, Tree
<1>2. /\ w = [q \in DOMAIN w |-> w[q]]
      /\ \A q : q \in DOMAIN w <=>
                    \/ q \in B /\ Rest(q, p) \in DOMAIN j /\ j[Rest(q, p)] \in Leaf
                    \/ q \in Leaves /\ q \notin B /\ q \notin Prefixes(p)
      /\ \A q \in DOMAIN w : w[q] = IF q \in B THEN j[Rest(q, p)] ELSE LeafValues[q]
  BY <1>1, WrittenAt
<1>3. /\ \A q : q \in Leaves' <=> \/ q \in DOMAIN N /\ N[q] \in Leaf
                                  \/ q \in Leaves /\ q \notin B /\ q \notin Prefixes(p)
      /\ \A q \in Leaves' : cache'[q].val = IF q \in B THEN N[q] ELSE cache[q].val
  BY PutLeaves
<1>. HIDE DEF w, B
<1>4. \A q : q \in Leaves' <=> q \in DOMAIN w
  BY <1>2, <1>3 DEF B
<1>5. \A q \in Leaves' : cache'[q].val = w[q]
  BY <1>1, <1>2, <1>3, <1>4 DEF B
<1>6. [q \in Leaves' |-> cache'[q].val] = w
  <2>1. Leaves' = DOMAIN w
    BY <1>4
  <2>. QED
    BY <2>1, <1>2, <1>5
<1>. QED
  BY <1>6 DEF Doc!Put, w, LeafValues

\* data_cache_set() is Document's Put.
LEMMA SetIsPut ==
  ASSUME Tree(cache), NEW p \in Path, NEW j \in Json, data_cache_set(p, j)
  PROVE  Doc!Put(p, j)
<1>. DEFINE N == JsonNodes(p, j)
            B == Below(p)
<1>0. IsJson(j) /\ Fits(p, j) /\ cache' = Put(cache, p, B, N) /\ Region(p, B, N)
  BY JsonAssumption, SetExIsPut, JsonRegion DEF data_cache_set
<1>1. /\ \A q : q \in DOMAIN N <=> /\ q \in B /\ Rest(q, p) \in DOMAIN j
                                   /\ j[Rest(q, p)] # Null \/ q = <<>>
      /\ \A q \in DOMAIN N : N[q] = j[Rest(q, p)]
  BY <1>0, JsonNodesAt
<1>2. Null \notin Leaf
  BY LeafAssumption DEF GoodLeaves
<1>. HIDE DEF N, B
<1>3. \A q : q \in DOMAIN N /\ N[q] \in Leaf <=>
                q \in B /\ Rest(q, p) \in DOMAIN j /\ j[Rest(q, p)] \in Leaf
  BY <1>1, <1>2
<1>. QED
  BY <1>0, <1>1, <1>3, PutIsWritten DEF B

\* data_cache_set_leaf() is Document's Put of a leaf, or of null.
LEMMA SetLeafIsDocPut ==
  ASSUME Tree(cache), NEW p \in Path, NEW v \in Leaf \cup {Null}, data_cache_set_leaf(p, v)
  PROVE  Doc!Put(p, [r \in {<<>>} |-> v])
<1>. DEFINE N == LeafNode(p, v)
            B == Below(p)
            j == [r \in {<<>>} |-> v]
<1>0. cache' = Put(cache, p, B, N) /\ Region(p, B, N) /\ p \in Seq(Key)
  BY SetLeafIsPut, PathFacts
<1>1. DOMAIN j = {<<>>} /\ j[<<>>] = v /\ IsFiniteSet({<<>>})
  BY FS_Singleton
<1>. HIDE DEF j
<1>2. IsJson(j)
  BY <1>1 DEF IsJson
<1>3. <<>> \in Seq(Key) /\ p \o <<>> = p
  BY <1>0, ConcatEmptySeq
<1>4. Fits(p, j)
  BY <1>1, <1>3 DEF Fits
<1>5. Rest(p, p) = <<>> /\ p \in B
  <2>1. Rest(p \o <<>>, p) = <<>>
    BY <1>0, <1>3, Joined
  <2>. QED
    BY <2>1, <1>0, <1>3, PrefixOrder DEF Below
<1>6. \A q \in B : Rest(q, p) = <<>> => q = p
  <2>. SUFFICES ASSUME NEW q \in B, Rest(q, p) = <<>> PROVE q = p
    OBVIOUS
  <2>1. q = p \o Rest(q, p)
    BY <1>0, PathFacts, RestOf DEF Below
  <2>. QED
    BY <2>1, <1>3
<1>7. DOMAIN N = {p} /\ N[p] = v
  BY DEF LeafNode
<1>. HIDE DEF N, B
<1>8. \A q : q \in DOMAIN N /\ N[q] \in Leaf <=>
                q \in B /\ Rest(q, p) \in DOMAIN j /\ j[Rest(q, p)] \in Leaf
  BY <1>1, <1>5, <1>6, <1>7
<1>9. \A q \in DOMAIN N : N[q] = j[Rest(q, p)]
  BY <1>1, <1>5, <1>7
<1>10. Doc!Put(p, j)
  BY <1>0, <1>2, <1>4, <1>8, <1>9, PutIsWritten DEF B
<1>. QED
  BY <1>10 DEF j

\* data_cache_mkpath() is Document's Clear.
LEMMA MkpathIsClear ==
  ASSUME Tree(cache), NEW p \in Path, data_cache_mkpath(p)
  PROVE  Doc!Clear(p)
<1>. DEFINE kept == {q \in Leaves : ~Doc!starts_with(p, q)}
<1>1. Region(p, {}, NoNode) /\ cache' = Put(cache, p, {}, NoNode) /\ DOMAIN NoNode = {}
  BY MkpathIsPut DEF data_cache_mkpath, NoNode
<1>2. /\ \A q : q \in Leaves' <=> \/ q \in DOMAIN NoNode /\ NoNode[q] \in Leaf
                                  \/ q \in Leaves /\ q \notin {} /\ q \notin Prefixes(p)
      /\ \A q \in Leaves' : cache'[q].val = IF q \in {} THEN NoNode[q] ELSE cache[q].val
  BY <1>1, PutLeaves
<1>3. \A q \in Leaves : q \in Prefixes(p) <=> Doc!starts_with(p, q)
  <2>1. \A q \in Leaves : q \in Seq(Key)
    BY PathFacts DEF Leaves, Tree
  <2>2. p \in Seq(Key)
    BY PathFacts
  <2>3. \A q : Doc!starts_with(p, q) <=> starts_with(p, q)
    BY DEF Doc!starts_with, starts_with
  <2>. QED
    BY <2>1, <2>2, <2>3, PrefixesOf
<1>4. Leaves' = kept
  BY <1>1, <1>2, <1>3
<1>5. \A q \in Leaves' : cache'[q].val = cache[q].val
  BY <1>2
<1>6. [q \in Leaves' |-> cache'[q].val] = [q \in kept |-> LeafValues[q]]
  BY <1>4, <1>5 DEF LeafValues
<1>. QED
  BY <1>6 DEF Doc!Clear, LeafValues

\* data_cache_merge() is Document's Merge.
LEMMA MergeIsMerge ==
  ASSUME Tree(cache), NEW p \in Path, NEW j \in Json, data_cache_merge(p, j)
  PROVE  j[<<>>] = Object /\ Doc!Merge(p, j)
<1>. DEFINE M == Members(j)
            kept == {q \in Leaves : \A r \in Doc!Members(j) : ~Doc!Related(q, p \o r)}
            new == {p \o r : r \in Doc!LeavesOf(j)}
            B == MergeRegion(p, M)
            N == MergeNodes(p, j, M)
<1>0. /\ IsJson(j) /\ Fits(p, j) /\ j[<<>>] = Object /\ Object \notin Leaf /\ Null \notin Leaf
      /\ p \in Seq(Key) /\ \A q \in Path : q \in Seq(Key)
      /\ \A r \in DOMAIN j : r \in Seq(Key) /\ p \o r \in Path
      /\ Leaves \subseteq Path
  BY JsonAssumption, LeafAssumption, PathFacts
     DEF data_cache_merge, GoodLeaves, IsJson, Fits, Leaves, Tree
<1>1. cache' = Merged(cache, p, j, M)
  BY MergeIsMerged
<1>2. \A r \in M : r \in DOMAIN j /\ r \in Seq(Key) /\ Len(r) = 1
  BY <1>0 DEF Members
<1>3. ASSUME NEW q \in Leaves
      PROVE  q \in kept <=> M = {} \/ (q \notin B /\ q \notin Prefixes(p))
  <2>1. q \in Path /\ q \in Seq(Key)
    BY <1>0
  <2>2. ASSUME NEW r \in M
        PROVE  Doc!Related(q, p \o r) <=> starts_with(q, p \o r) \/ q \in Prefixes(p)
    <3>1. /\ p \o r \in Seq(Key)
          /\ starts_with(p \o r, q) <=> q = p \o r \/ starts_with(p, q)
      BY <2>1, <1>0, <1>2, MemberPath
    <3>2. starts_with(p, q) <=> q \in Prefixes(p)
      BY <2>1, <1>0, PrefixesOf
    <3>3. Doc!Related(q, p \o r) <=> starts_with(q, p \o r) \/ starts_with(p \o r, q)
      BY DEF Doc!Related, Doc!starts_with, starts_with
    <3>4. starts_with(q, q)
      BY <2>1, PrefixOrder
    <3>. QED
      BY <3>1, <3>2, <3>3, <3>4
  <2>3. Doc!Members(j) = M
    BY DEF Doc!Members, Members
  <2>4. q \in B <=> \E r \in M : starts_with(q, p \o r)
    BY <2>1 DEF MergeRegion
  <2>. HIDE DEF M, B
  <2>. QED
    BY <2>2, <2>3, <2>4
<1>4. \A q : q \in new <=> q \in B /\ Rest(q, p) \in DOMAIN j /\ j[Rest(q, p)] \in Leaf
  <2>1. ASSUME NEW r \in DOMAIN j, j[r] \in Leaf
        PROVE  p \o r \in B /\ Rest(p \o r, p) = r
    <3>1. r \in Seq(Key) /\ r # <<>>
      BY <2>1, <1>0
    <3>. DEFINE m == SubSeq(r, 1, 1)
    <3>2. Len(r) \in Nat /\ Len(r) >= 1
      BY <3>1
    <3>3. m \in Seq(Key) /\ Len(m) = 1 /\ starts_with(r, m)
      <4>1. /\ m \in Seq(Key) /\ Len(m) = 1 + 1 - 1
            /\ \A i \in 1..(1 + 1 - 1) : m[i] = r[1 + i - 1]
        BY <3>1, <3>2, PartOf
      <4>. HIDE DEF m
      <4>. QED
        BY <4>1, <3>2 DEF starts_with
    <3>. HIDE DEF m
    <3>4. m \in DOMAIN j
      BY <3>1, <3>3, <1>0, <2>1, JsonAbove
    <3>5. m \in M
      BY <3>3, <3>4 DEF Members
    <3>6. starts_with(p \o r, p \o m) /\ Rest(p \o r, p) = r
      BY <3>1, <3>3, <1>0, Joined
    <3>. QED
      BY <3>5, <3>6, <1>0 DEF MergeRegion
  <2>2. ASSUME NEW q \in B, Rest(q, p) \in DOMAIN j, j[Rest(q, p)] \in Leaf
        PROVE  q \in new
    <3>1. PICK m \in M : starts_with(q, p \o m) /\ q \in Seq(Key)
      BY <1>0 DEF MergeRegion
    <3>2. p \o m \in Seq(Key) /\ starts_with(p \o m, p)
      BY <1>0, <1>2, MemberPath
    <3>3. starts_with(q, p)
      BY <3>1, <3>2, <1>0, PrefixOrder
    <3>4. q = p \o Rest(q, p)
      BY <3>1, <3>3, <1>0, RestOf
    <3>. QED
      BY <3>4, <2>2 DEF Doc!LeavesOf
  <2>3. ASSUME NEW q \in new
        PROVE  q \in B /\ Rest(q, p) \in DOMAIN j /\ j[Rest(q, p)] \in Leaf
    <3>1. PICK r \in DOMAIN j : q = p \o r /\ j[r] \in Leaf
      BY DEF Doc!LeavesOf
    <3>. QED
      BY <3>1, <2>1
  <2>. QED
    BY <2>2, <2>3
<1>5. /\ \A q : q \in Leaves' <=>
            \/ q \in B /\ Rest(q, p) \in DOMAIN j /\ j[Rest(q, p)] \in Leaf
            \/ q \in Leaves /\ (M = {} \/ (q \notin B /\ q \notin Prefixes(p)))
      /\ \A q \in Leaves' : cache'[q].val = IF q \in B THEN j[Rest(q, p)] ELSE cache[q].val
  <2>1. CASE M = {}
    <3>1. B = {}
      BY <2>1 DEF MergeRegion
    <3>2. cache' = cache
      BY <2>1, <1>1 DEF Merged
    <3>3. Leaves' = Leaves
      BY <3>2 DEF Leaves
    <3>. QED
      BY <3>1, <3>2, <3>3, <2>1
  <2>2. CASE M # {}
    <3>1. cache' = Put(cache, p, B, N) /\ Region(p, B, N)
      <4>1. M \subseteq Members(j)
        OBVIOUS
      <4>. QED
        BY <4>1, <2>2, <1>0, <1>1, MergeIsRegion DEF Merged
    <3>2. /\ \A q : q \in DOMAIN N <=> /\ q \in B /\ Rest(q, p) \in DOMAIN j
                                       /\ j[Rest(q, p)] # Null
          /\ \A q \in DOMAIN N : N[q] = j[Rest(q, p)]
      BY DEF MergeNodes
    <3>. HIDE DEF M, B, N
    <3>3. /\ \A q : q \in Leaves' <=> \/ q \in DOMAIN N /\ N[q] \in Leaf
                                      \/ q \in Leaves /\ q \notin B /\ q \notin Prefixes(p)
          /\ \A q \in Leaves' : cache'[q].val = IF q \in B THEN N[q] ELSE cache[q].val
      BY <3>1, PutLeaves
    <3>. QED
      BY <3>2, <3>3, <2>2, <1>0
  <2>. QED
    BY <2>1, <2>2
<1>. HIDE DEF M, B, N, kept, new
<1>6. \A q : q \in Leaves' <=> q \in kept \/ q \in new
  <2>1. \A q \in kept : q \in Leaves
    BY DEF kept
  <2>. QED
    BY <2>1, <1>3, <1>4, <1>5
<1>7. \A q \in Leaves' : cache'[q].val = IF q \in new THEN j[Rest(q, p)] ELSE LeafValues[q]
  <2>1. \A q \in Leaves : LeafValues[q] = cache[q].val
    BY DEF LeafValues
  <2>2. \A q \in Leaves' : q \in B <=> q \in new \/ (M = {} /\ q \in B)
    BY <1>4, <1>5
  <2>3. M = {} => B = {}
    BY DEF M, B, MergeRegion
  <2>. QED
    BY <2>1, <2>2, <2>3, <1>4, <1>5
<1>8. [q \in Leaves' |-> cache'[q].val]
        = [q \in kept \cup new |-> IF q \in new THEN j[Rest(q, p)] ELSE LeafValues[q]]
  <2>1. Leaves' = kept \cup new
    BY <1>6
  <2>. QED
    BY <2>1, <1>7
<1>9. Doc!Merge(p, j)
  BY <1>8 DEF Doc!Merge, Rest, LeafValues, kept, new
<1>. QED
  BY <1>0, <1>9

\* The cache implements the abstract document: a write at a path replaces what
\* is there and the leaves above it, and nothing else, at any depth and in any
\* mix of sets, merges and path creations; computing hashes changes nothing.
THEOREM DocumentImplemented == Spec => ImplementsDocument
<1>1. Init => Doc!Init
  <2>. SUFFICES ASSUME Init PROVE Doc!Init
    OBVIOUS
  <2>1. DOMAIN cache = {<<>>} /\ cache[<<>>].val = Null
    BY DEF Init, Node
  <2>2. Leaves = {}
    BY <2>1, LeafAssumption DEF Leaves, GoodLeaves
  <2>. QED
    BY <2>2 DEF Doc!Init
<1>2. CacheInv /\ [Next]_cache => [Doc!Next]_LeafValues
  <2>. SUFFICES ASSUME CacheInv, [Next]_cache PROVE [Doc!Next]_LeafValues
    OBVIOUS
  <2>0. Tree(cache)
    BY DEF CacheInv
  <2>1. CASE UNCHANGED cache
    BY <2>1 DEF LeafValues, Leaves
  <2>2. ASSUME NEW p \in Path, NEW j \in Json, data_cache_set(p, j) PROVE Doc!Next
    BY <2>0, <2>2, SetIsPut DEF Doc!Next
  <2>3. ASSUME NEW p \in Path, NEW j \in Json, data_cache_merge(p, j) PROVE Doc!Next
    BY <2>0, <2>3, MergeIsMerge DEF Doc!Next
  <2>4. ASSUME NEW p \in Path, NEW v \in Leaf \cup {Null}, data_cache_set_leaf(p, v)
        PROVE  Doc!Next
    BY <2>0, <2>4, SetLeafIsDocPut DEF Doc!Next
  <2>5. ASSUME NEW p \in Path, data_cache_mkpath(p) PROVE Doc!Next
    BY <2>0, <2>5, MkpathIsClear DEF Doc!Next
  <2>6. ASSUME NEW p \in Path, treenode_hash_get(p) PROVE UNCHANGED LeafValues
    <3>1. DOMAIN cache' = DOMAIN cache /\ \A q \in DOMAIN cache : cache'[q].val = cache[q].val
      BY <2>6, HashGetKeeps
    <3>2. Leaves' = Leaves
      BY <3>1 DEF Leaves
    <3>. QED
      BY <3>1, <3>2 DEF LeafValues, Leaves
  <2>. QED
    BY <2>1, <2>2, <2>3, <2>4, <2>5, <2>6 DEF Next
<1>3. CacheInv /\ [Next]_cache => [Doc!Next]_[p \in Leaves |-> cache[p].val]
  BY <1>2 DEF LeafValues
<1>. QED
  BY <1>1, <1>3, CacheInvariant, PTL DEF Spec, ImplementsDocument, Doc!Spec

-----------------------------------------------------------------------------
(* For the event registry                                                  *)

\* A push of the server leaves a tree, and leaves alone what is neither above,
\* at nor below its path.
LEMMA WriteIsLocal ==
  ASSUME Tree(cache), NEW p \in Path, NEW j \in Json,
         data_cache_set(p, j) \/ data_cache_merge(p, j)
  PROVE  /\ Tree(cache')
         /\ \A s \in Path : ~starts_with(s, p) /\ ~starts_with(p, s)
                => SameBelow(cache, cache', s)
<1>0. IsJson(j) /\ p \in Seq(Key) /\ \A q \in Path : q \in Seq(Key)
  BY JsonAssumption, PathFacts
<1>1. ASSUME NEW B, NEW N, Region(p, B, N), B \subseteq Below(p), cache' = Put(cache, p, B, N)
      PROVE  /\ Tree(cache')
             /\ \A s \in Path : ~starts_with(s, p) /\ ~starts_with(p, s)
                    => SameBelow(cache, cache', s)
  <2>1. Tree(cache') /\ Touch(cache, cache', B \cup Prefixes(p))
    BY <1>1, PutTree, PutTouch
  <2>2. ASSUME NEW s \in Path, ~starts_with(s, p), ~starts_with(p, s)
        PROVE  s \in Path \ (B \cup Prefixes(p))
    BY <2>2, <1>0, <1>1, PrefixesOf DEF Below
  <2>. QED
    BY <2>1, <2>2, UntouchedBelow
<1>2. CASE data_cache_set(p, j)
  <2>1. cache' = Put(cache, p, Below(p), JsonNodes(p, j))
    BY <1>0, <1>2, SetExIsPut DEF data_cache_set
  <2>2. Region(p, Below(p), JsonNodes(p, j))
    BY <1>0, <1>2, JsonRegion DEF data_cache_set
  <2>. QED
    BY <2>1, <2>2, <1>1
<1>3. CASE data_cache_merge(p, j)
  <2>1. cache' = Merged(cache, p, j, Members(j))
    BY <1>3, MergeIsMerged
  <2>2. CASE Members(j) = {}
    <3>1. cache' = cache
      BY <2>1, <2>2 DEF Merged
    <3>. QED
      BY <3>1 DEF SameBelow
  <2>3. CASE Members(j) # {}
    <3>. DEFINE B == MergeRegion(p, Members(j))
                N == MergeNodes(p, j, Members(j))
    <3>1. Region(p, B, N) /\ cache' = Put(cache, p, B, N)
      BY <2>1, <2>3, <1>0, MergeIsRegion DEF Merged
    <3>2. ASSUME NEW q \in B PROVE q \in Below(p)
      <4>1. PICK m \in Members(j) : starts_with(q, p \o m) /\ q \in Path
        BY DEF MergeRegion
      <4>2. m \in Seq(Key) /\ Len(m) = 1
        BY <1>0 DEF Members, IsJson
      <4>3. p \o m \in Seq(Key) /\ starts_with(p \o m, p)
        BY <4>2, <1>0, MemberPath
      <4>. QED
        BY <4>1, <4>3, <1>0, PrefixOrder DEF Below
    <3>. HIDE DEF B, N
    <3>. QED
      BY <3>1, <3>2, <1>1
  <2>. QED
    BY <2>2, <2>3
<1>. QED
  BY <1>2, <1>3
=============================================================================

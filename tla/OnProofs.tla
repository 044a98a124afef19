------------------------------ MODULE OnProofs ------------------------------
(***************************************************************************)
(* Proofs about OnRegistry, for any callbacks, paths and pushes.           *)
(***************************************************************************)
EXTENDS OnRegistry, FiniteSetTheorems, TLAPS

Facts == INSTANCE CacheProofs

-----------------------------------------------------------------------------
(* The cache                                                               *)

\* The operators of the two instances of DataCache are the same.
LEMMA SameHash == ASSUME NEW c PROVE Cache!HashOf(c) = Facts!HashOf(c)
BY DEF Cache!HashOf, Facts!HashOf, Cache!Children, Facts!Children

\* What DataCache assumes is assumed here.
LEMMA Assumed == Facts!GoodPaths /\ Facts!GoodLeaves /\ \A j \in Json : Facts!IsJson(j)
BY CacheAssumption DEF Cache!GoodPaths, Facts!GoodPaths, Cache!GoodLeaves, Facts!GoodLeaves,
       Cache!IsJson, Facts!IsJson, Cache!Prefixes, Facts!Prefixes, Cache!Parent, Facts!Parent,
       Cache!IsFiniteSet, Facts!IsFiniteSet

\* Nodes and trees.
LEMMA SameTree == (Facts!Tree(cache) => Cache!TypeOK) /\ (Cache!Init => Facts!Init)
BY DEF Cache!TypeOK, Facts!Tree, Cache!Parent, Facts!Parent,
       Cache!Init, Facts!Init, Cache!Node, Facts!Node

\* Writes.
LEMMA SameWrite ==
  ASSUME NEW p \in Path, NEW j \in Json
  PROVE  /\ Cache!data_cache_set(p, j) => Facts!data_cache_set(p, j)
         /\ Cache!data_cache_merge(p, j) => Facts!data_cache_merge(p, j)
BY DEF Cache!data_cache_set, Facts!data_cache_set, Cache!data_cache_merge, Facts!data_cache_merge,
       Cache!FoldSet, Facts!FoldSet, Cache!MapThenFoldSet, Facts!MapThenFoldSet,
       Cache!set_ex, Facts!set_ex, Cache!set_r, Facts!set_r,
       Cache!internal_remove, Facts!internal_remove, Cache!mkpath_w, Facts!mkpath_w,
       Cache!Parent, Facts!Parent, Cache!Prefixes, Facts!Prefixes, Cache!Node, Facts!Node,
       Cache!Fits, Facts!Fits, Cache!Members, Facts!Members, Cache!Member, Facts!Member,
       Cache!starts_with, Facts!starts_with

\* A push leaves a tree, and what the subscriptions that it does not trigger see
\* of the cache is the same as before.
LEMMA PushIsLocal ==
  ASSUME Facts!Tree(cache), NEW p \in Path, NEW j \in Json,
         Cache!data_cache_set(p, j) \/ Cache!data_cache_merge(p, j)
  PROVE  /\ Facts!Tree(cache')
         /\ \A s \in SubPath \ Triggered(p) :
                Cur(cache', s) = Cur(cache, s) /\ CurKids(cache', s) = CurKids(cache, s)
<1>1. Facts!data_cache_set(p, j) \/ Facts!data_cache_merge(p, j)
  BY SameWrite
<1>2. /\ Facts!Tree(cache')
      /\ \A s \in Path : ~Facts!starts_with(s, p) /\ ~Facts!starts_with(p, s)
                => Facts!SameBelow(cache, cache', s)
  BY <1>1, Assumed, Facts!WriteIsLocal
<1>3. ASSUME NEW s \in SubPath \ Triggered(p)
      PROVE  Cur(cache', s) = Cur(cache, s) /\ CurKids(cache', s) = CurKids(cache, s)
  <2>1. s \in Path /\ ~Facts!starts_with(s, p) /\ ~Facts!starts_with(p, s)
    BY SubAssumption DEF Triggered, starts_with, Facts!starts_with
  <2>2. Facts!SameBelow(cache, cache', s)
    BY <2>1, <1>2
  <2>3. /\ s \in DOMAIN cache <=> s \in DOMAIN cache'
        /\ s \in DOMAIN cache => cache[s] = cache'[s]
    <3>1. s \in Seq(Key)
      BY <2>1, Assumed, Facts!PathFacts
    <3>2. Facts!starts_with(s, s)
      BY <3>1, Assumed, Facts!PrefixOrder
    <3>. QED
      BY <3>2, <2>1, <2>2 DEF Facts!SameBelow
  <2>4. s \in DOMAIN cache => Cache!HashOf(cache)[s] = Cache!HashOf(cache')[s]
    <3>1. DOMAIN cache \subseteq Path /\ DOMAIN cache' \subseteq Path
      BY <1>2 DEF Facts!Tree
    <3>2. s \in DOMAIN cache => Facts!HashOf(cache)[s] = Facts!HashOf(cache')[s]
      BY <3>1, <2>2, Assumed, Facts!HashLocal
    <3>. QED
      BY <3>2, SameHash
  <2>. QED
    BY <2>3, <2>4 DEF Cur, CurKids, IsObject
<1>. QED
  BY <1>2, <1>3

-----------------------------------------------------------------------------
(* The invariant                                                           *)

Zeros == [k \in Key |-> 0]
Entry == [path : SubPath, type : Types]

\* Types, and a freed subscription has no hashes.
Shape ==
    /\ Facts!Tree(cache)
    /\ up \in BOOLEAN
    /\ reg \in [Handle -> Entry \cup {NoHandle}]
    /\ ref \in [SubPath -> Nat]
    /\ hash = [p \in SubPath |-> hash[p]] /\ kids = [p \in SubPath |-> kids[p]]
    /\ seen = [h \in Handle |-> seen[h]] /\ told = [h \in Handle |-> told[h]]
    /\ \A p \in SubPath : At(p) = {} => hash[p] = Null /\ kids[p] = NoKids

\* What a value callback was told is what its subscription remembers, and what
\* the cache c holds.
ValueKnown(c, h1, s1, h) ==
    s1[h] = Never \/ (s1[h] = h1[reg[h].path] /\ s1[h] = Cur(c, reg[h].path))

\* A child that an added callback knows of is one its subscription remembers, and
\* one that the cache c holds.
ChildrenKnown(c, k1, t1, h) ==
    \A k \in Key :
        /\ t1[h][k] \in {0, 1}
        /\ t1[h][k] = 1 => /\ k \in DOMAIN k1[reg[h].path]
                           /\ k \in DOMAIN CurKids(c, reg[h].path)

\* This for all callbacks; a handle that is not registered starts afresh.
Told(c, h1, k1, s1, t1) ==
    \A h \in Handle :
        /\ reg[h] = NoHandle => s1[h] = Never /\ t1[h] = Zeros
        /\ reg[h] # NoHandle /\ reg[h].type = "value" => ValueKnown(c, h1, s1, h)
        /\ reg[h] # NoHandle /\ reg[h].type = "added" => ChildrenKnown(c, k1, t1, h)

OnInv == Shape /\ Told(cache, hash, kids, seen, told)

\* The handles of a path after callbacks are removed.
LEMMA Removed ==
  ASSUME Shape, NEW H \in SUBSET Handle,
         reg' = [h \in Handle |-> IF h \in H THEN NoHandle ELSE reg[h]]
  PROVE  /\ reg' \in [Handle -> Entry \cup {NoHandle}]
         /\ \A p : At(p)' = At(p) \ H
<1>1. reg' \in [Handle -> Entry \cup {NoHandle}]
  BY DEF Shape
<1>2. ASSUME NEW p PROVE At(p)' = At(p) \ H
  BY DEF At
<1>. QED
  BY <1>1, <1>2

\* on_registry_remove() keeps the rest of the invariant.
LEMMA RemoveKeeps ==
  ASSUME Shape, NEW H \in SUBSET Handle, NEW h1, NEW k1, NEW s1, NEW t1,
         Remove(H, h1, k1, s1, t1), Told(cache', h1, k1, s1, t1),
         Facts!Tree(cache'), up' \in BOOLEAN, ref' \in [SubPath -> Nat]
  PROVE  OnInv'
<1>1. /\ reg' = [h \in Handle |-> IF h \in H THEN NoHandle ELSE reg[h]]
      /\ hash' = [p \in SubPath |-> IF Left(p, H) THEN h1[p] ELSE Null]
      /\ kids' = [p \in SubPath |-> IF Left(p, H) THEN k1[p] ELSE NoKids]
      /\ seen' = [h \in Handle |-> IF h \in H THEN Never ELSE s1[h]]
      /\ told' = [h \in Handle |-> IF h \in H THEN Zeros ELSE t1[h]]
  BY DEF Remove, Zeros
<1>2. reg' \in [Handle -> Entry \cup {NoHandle}] /\ \A p : At(p)' = At(p) \ H
  BY <1>1, Removed
<1>3. \A p \in SubPath : At(p)' = {} => hash'[p] = Null /\ kids'[p] = NoKids
  BY <1>1, <1>2 DEF Left
<1>4. /\ hash' = [p \in SubPath |-> hash'[p]] /\ kids' = [p \in SubPath |-> kids'[p]]
      /\ seen' = [h \in Handle |-> seen'[h]] /\ told' = [h \in Handle |-> told'[h]]
  BY <1>1
<1>5. Shape'
  <2>1. Facts!Tree(cache)'
    BY DEF Facts!Tree
  <2>. QED
    BY <2>1, <1>2, <1>3, <1>4 DEF Shape
<1>6. ASSUME NEW h \in Handle
      PROVE  /\ reg'[h] = NoHandle => seen'[h] = Never /\ told'[h] = Zeros
             /\ reg'[h] # NoHandle /\ reg'[h].type = "value" => ValueKnown(cache, hash, seen, h)'
             /\ reg'[h] # NoHandle /\ reg'[h].type = "added" => ChildrenKnown(cache, kids, told, h)'
  <2>1. CASE h \in H
    BY <2>1, <1>1
  <2>2. CASE h \notin H
    <3>1. reg'[h] = reg[h] /\ seen'[h] = s1[h] /\ told'[h] = t1[h]
      BY <2>2, <1>1
    <3>2. reg[h] = NoHandle => seen'[h] = Never /\ told'[h] = Zeros
      BY <3>1 DEF Told
    <3>3. ASSUME reg[h] # NoHandle
          PROVE  hash'[reg[h].path] = h1[reg[h].path] /\ kids'[reg[h].path] = k1[reg[h].path]
      <4>1. reg[h].path \in SubPath
        BY <3>3 DEF Shape, Entry
      <4>2. Left(reg[h].path, H)
        BY <3>3, <2>2 DEF Left, At
      <4>. QED
        BY <4>1, <4>2, <1>1
    <3>4. ASSUME reg[h] # NoHandle, reg[h].type = "value"
          PROVE  ValueKnown(cache, hash, seen, h)'
      <4>1. ValueKnown(cache', h1, s1, h)
        BY <3>4 DEF Told
      <4>. QED
        BY <4>1, <3>1, <3>3, <3>4 DEF ValueKnown, Cur
    <3>5. ASSUME reg[h] # NoHandle, reg[h].type = "added"
          PROVE  ChildrenKnown(cache, kids, told, h)'
      <4>1. ChildrenKnown(cache', k1, t1, h)
        BY <3>5 DEF Told
      <4>. QED
        BY <4>1, <3>1, <3>3, <3>5 DEF ChildrenKnown, CurKids, IsObject
    <3>. QED
      BY <3>1, <3>2, <3>4, <3>5
  <2>. QED
    BY <2>1, <2>2
<1>7. Told(cache, hash, kids, seen, told)'
  BY <1>6 DEF Told, Zeros
<1>. QED
  BY <1>5, <1>7 DEF OnInv

\* Nothing is registered at first.
LEMMA OnStart == Init => OnInv
<1>. SUFFICES ASSUME Init PROVE OnInv
  OBVIOUS
<1>1. Facts!Tree(cache)
  BY SameTree, Assumed, Facts!CacheStart DEF Init, Facts!CacheInv
<1>2. Shape
  BY <1>1 DEF Init, Shape
<1>3. Told(cache, hash, kids, seen, told)
  BY DEF Init, Told, Zeros
<1>. QED
  BY <1>2, <1>3 DEF OnInv

\* A registration keeps the invariant: the first call tells what the cache holds.
LEMMA OnKeeps ==
  ASSUME OnInv, NEW h \in Handle, NEW t \in Types, NEW p \in SubPath, on(h, t, p)
  PROVE  OnInv' /\ At(p)' = At(p) \cup {h} /\ h \notin At(p)
         /\ \A q \in SubPath \ {p} : At(q)' = At(q)
<1>0. /\ reg[h] = NoHandle /\ reg' = [reg EXCEPT ![h] = [path |-> p, type |-> t]]
      /\ ref' = [ref EXCEPT ![p] = @ + 1] /\ cache' = cache /\ up' = up
      /\ reg \in [Handle -> Entry \cup {NoHandle}]
  BY DEF on, OnInv, Shape
<1>1. [path |-> p, type |-> t] \in Entry /\ [path |-> p, type |-> t] # NoHandle
  BY HandleAssumption DEF Entry
<1>2. /\ reg' \in [Handle -> Entry \cup {NoHandle}]
      /\ reg'[h] = [path |-> p, type |-> t] /\ reg'[h] # NoHandle
      /\ \A g \in Handle \ {h} : reg'[g] = reg[g]
  BY <1>0, <1>1
<1>3. At(p)' = At(p) \cup {h} /\ h \notin At(p) /\ \A q \in SubPath \ {p} : At(q)' = At(q)
  BY <1>0, <1>2 DEF At
<1>4. /\ hash' = [q \in SubPath |-> hash'[q]] /\ kids' = [q \in SubPath |-> kids'[q]]
      /\ seen' = [g \in Handle |-> seen'[g]] /\ told' = [g \in Handle |-> told'[g]]
      /\ \A q \in SubPath \ {p} : hash'[q] = hash[q] /\ kids'[q] = kids[q]
      /\ \A g \in Handle \ {h} : seen'[g] = seen[g] /\ told'[g] = told[g]
      /\ hash'[p] \in {hash[p], Cur(cache, p)} /\ kids'[p] \in {kids[p], CurKids(cache, p)}
  BY DEF on, OnInv, Shape
<1>5. /\ seen'[h] = Never \/ (seen'[h] = Cur(cache, p) /\ hash'[p] = Cur(cache, p))
      /\ told'[h] = Zeros \/ /\ kids'[p] = CurKids(cache, p)
                             /\ told'[h] = [k \in Key |-> IF k \in DOMAIN CurKids(cache, p)
                                                          THEN 1 ELSE 0]
  <2>1. seen[h] = Never /\ told[h] = Zeros
    BY <1>0 DEF OnInv, Told
  <2>2. CASE FirstValue(t, p)
    BY <2>1, <2>2 DEF on, OnInv, Shape
  <2>3. CASE ~FirstValue(t, p)
    BY <2>1, <2>3 DEF on, OnInv, Shape
  <2>. QED
    BY <2>2, <2>3
<1>6. Shape'
  <2>1. ref' \in [SubPath -> Nat]
    BY <1>0 DEF OnInv, Shape
  <2>2. Facts!Tree(cache)' /\ up' \in BOOLEAN
    BY <1>0 DEF OnInv, Shape, Facts!Tree
  <2>3. \A q \in SubPath : At(q)' = {} => hash'[q] = Null /\ kids'[q] = NoKids
    <3>1. \A q \in SubPath : At(q) = {} => hash[q] = Null /\ kids[q] = NoKids
      BY DEF OnInv, Shape
    <3>. QED
      BY <3>1, <1>3, <1>4
  <2>. QED
    BY <2>1, <2>2, <2>3, <1>2, <1>4 DEF Shape
<1>7. ASSUME NEW g \in Handle
      PROVE  /\ reg'[g] = NoHandle => seen'[g] = Never /\ told'[g] = Zeros
             /\ reg'[g] # NoHandle /\ reg'[g].type = "value" => ValueKnown(cache, hash, seen, g)'
             /\ reg'[g] # NoHandle /\ reg'[g].type = "added" => ChildrenKnown(cache, kids, told, g)'
  <2>1. CASE g = h
    <3>1. reg'[g].path = p
      BY <2>1, <1>2
    <3>2. ValueKnown(cache, hash, seen, g)'
      BY <3>1, <2>1, <1>0, <1>5 DEF ValueKnown, Cur
    <3>3. ChildrenKnown(cache, kids, told, g)'
      <4>1. CASE told'[h] = Zeros
        BY <4>1, <2>1 DEF ChildrenKnown, Zeros
      <4>2. CASE /\ kids'[p] = CurKids(cache, p)
                 /\ told'[h] = [k \in Key |-> IF k \in DOMAIN CurKids(cache, p) THEN 1 ELSE 0]
        <5>1. CurKids(cache, p)' = CurKids(cache, p)
          BY <1>0 DEF CurKids, IsObject
        <5>. QED
          BY <5>1, <4>2, <3>1, <2>1 DEF ChildrenKnown
      <4>. QED
        BY <4>1, <4>2, <1>5
    <3>. QED
      BY <3>2, <3>3, <2>1, <1>2
  <2>2. CASE g # h
    <3>1. reg'[g] = reg[g] /\ seen'[g] = seen[g] /\ told'[g] = told[g]
      BY <2>2, <1>2, <1>4
    <3>2. reg[g] = NoHandle => seen'[g] = Never /\ told'[g] = Zeros
      BY <3>1 DEF OnInv, Told
    <3>3. ASSUME reg[g] # NoHandle, reg[g].type = "value"
          PROVE  ValueKnown(cache, hash, seen, g)'
      <4>1. ValueKnown(cache, hash, seen, g)
        BY <3>3 DEF OnInv, Told
      <4>2. reg[g].path \in SubPath
        BY <3>3 DEF OnInv, Shape, Entry
      <4>3. hash'[reg[g].path] \in {hash[reg[g].path], Cur(cache, reg[g].path)}
        BY <4>2, <1>4
      <4>4. Cur(cache, reg[g].path)' = Cur(cache, reg[g].path)
        BY <3>1, <1>0 DEF Cur
      <4>. QED
        BY <4>1, <4>3, <4>4, <3>1 DEF ValueKnown
    <3>4. ASSUME reg[g] # NoHandle, reg[g].type = "added"
          PROVE  ChildrenKnown(cache, kids, told, g)'
      <4>1. ChildrenKnown(cache, kids, told, g)
        BY <3>4 DEF OnInv, Told
      <4>2. reg[g].path \in SubPath
        BY <3>4 DEF OnInv, Shape, Entry
      <4>3. kids'[reg[g].path] \in {kids[reg[g].path], CurKids(cache, reg[g].path)}
        BY <4>2, <1>4
      <4>4. CurKids(cache, reg[g].path)' = CurKids(cache, reg[g].path)
        BY <3>1, <1>0 DEF CurKids, IsObject
      <4>. QED
        BY <4>1, <4>3, <4>4, <3>1 DEF ChildrenKnown
    <3>. QED
      BY <3>1, <3>2, <3>3, <3>4
  <2>. QED
    BY <2>1, <2>2
<1>8. Told(cache, hash, kids, seen, told)'
  BY <1>7 DEF Told, Zeros
<1>. QED
  BY <1>3, <1>6, <1>8 DEF OnInv

-----------------------------------------------------------------------------
(* References                                                              *)

\* The sum of m over a set of handles.
SumOf(m, M) == MapThenSumSet(LAMBDA h : m[h], M)

\* How many references deleted_cb_gc() drops: at least one per callback that is
\* removed, and exactly one if none is on the list twice.
LEMMA Dropping ==
  ASSUME NEW M, IsFiniteSet(M), NEW m, \A h \in M : m[h] \in Nat
  PROVE  LET sum == SumOf(m, M)
             gone == {h \in M : m[h] > 0}
         IN  /\ sum \in Nat /\ sum >= Cardinality(gone)
             /\ (\A h \in M : m[h] <= 1) => sum = Cardinality(gone)
<1>. DEFINE Pick(s) == CHOOSE x \in s : TRUE
            Step(s, f) == IF s = {} THEN 0 ELSE m[Pick(s)] + f[s \ {Pick(s)}]
            Up(n) == {s \in SUBSET M : Cardinality(s) <= n}
            IsFold(f, E) == f = [s \in E |-> Step(s, f)]
            S == {n \in Nat : \E f : IsFold(f, Up(n))}
<1>2. \A s \in SUBSET M : IsFiniteSet(s) /\ Cardinality(s) \in Nat /\ Cardinality(s) <= Cardinality(M)
  BY FS_Subset, FS_CardinalityType
<1>3. ASSUME NEW s \in SUBSET M, s # {}
      PROVE  /\ Pick(s) \in s /\ s \ {Pick(s)} \in SUBSET M
             /\ Cardinality(s \ {Pick(s)}) = Cardinality(s) - 1
  <2>1. Pick(s) \in s
    BY <1>3
  <2>. HIDE DEF Pick
  <2>. QED
    BY <2>1, <1>2, FS_RemoveElement
<1>. HIDE DEF Pick
<1>4. 0 \in S
  <2>1. \A s \in Up(0) : s = {}
    BY <1>2, FS_EmptySet
  <2>2. IsFold([s \in Up(0) |-> 0], Up(0))
    BY <2>1
  <2>. QED
    BY <2>2
<1>5. ASSUME NEW n \in Nat, n \in S PROVE n + 1 \in S
  <2>1. PICK f : IsFold(f, Up(n))
    BY <1>5
  <2>. DEFINE g == [s \in Up(n + 1) |-> Step(s, f)]
  <2>2. Up(n) \subseteq Up(n + 1)
    BY <1>2
  <2>3. \A s \in Up(n) : g[s] = f[s]
    BY <2>1, <2>2
  <2>4. ASSUME NEW s \in Up(n + 1) PROVE Step(s, g) = Step(s, f)
    <3>1. CASE s = {}
      BY <3>1
    <3>2. CASE s # {}
      <4>1. s \ {Pick(s)} \in Up(n)
        BY <3>2, <1>2, <1>3
      <4>. HIDE DEF g, Up
      <4>. QED
        BY <4>1, <3>2, <2>3
    <3>. QED
      BY <3>1, <3>2
  <2>5. IsFold(g, Up(n + 1))
    <3>1. g = [s \in Up(n + 1) |-> Step(s, f)]
      OBVIOUS
    <3>. HIDE DEF g, Up, Step
    <3>2. [s \in Up(n + 1) |-> Step(s, f)] = [s \in Up(n + 1) |-> Step(s, g)]
      BY <2>4
    <3>. QED
      BY <3>1, <3>2
  <2>. HIDE DEF g, Up, IsFold
  <2>6. n + 1 \in Nat /\ \E h : IsFold(h, Up(n + 1))
    BY <2>5
  <2>. QED
    BY <2>6
<1>6. PICK fold : IsFold(fold, SUBSET M) /\ SumOf(m, M) = fold[M]
  <2>1. Cardinality(M) \in S
    <3>. HIDE DEF S
    <3>1. Nat \subseteq S
      BY <1>4, <1>5, Facts!CountUp, Assumed
    <3>. QED
      BY <3>1, <1>2
  <2>2. Up(Cardinality(M)) = SUBSET M
    BY <1>2
  <2>3. \E f : IsFold(f, SUBSET M)
    BY <2>1, <2>2
  <2>4. SumOf(m, M) = (CHOOSE f : IsFold(f, SUBSET M))[M]
    BY DEF SumOf, MapThenSumSet, MapThenFoldSet, Pick
  <2>. QED
    BY <2>3, <2>4
<1>. DEFINE Gone(s) == {h \in s : m[h] > 0}
            Right(s) == /\ fold[s] \in Nat /\ fold[s] >= Cardinality(Gone(s))
                        /\ (\A h \in M : m[h] <= 1) => fold[s] = Cardinality(Gone(s))
            G == {n \in Nat : \A s \in SUBSET M : Cardinality(s) = n => Right(s)}
<1>7. \A s \in SUBSET M : fold[s] = Step(s, fold)
  BY <1>6
<1>8. 0 \in G
  <2>1. \A s \in SUBSET M : Cardinality(s) = 0 => s = {}
    BY <1>2, FS_EmptySet
  <2>2. Cardinality(Gone({})) = 0
    BY FS_EmptySet
  <2>3. fold[{}] = 0
    BY <1>7
  <2>. HIDE DEF Gone
  <2>4. Right({})
    BY <2>2, <2>3
  <2>. HIDE DEF Right
  <2>. QED
    BY <2>1, <2>4
<1>9. ASSUME NEW n \in Nat, n \in G PROVE n + 1 \in G
  <2>1. ASSUME NEW s \in SUBSET M, Cardinality(s) = n + 1 PROVE Right(s)
    <3>1. s # {}
      BY <2>1, FS_EmptySet
    <3>. DEFINE x == Pick(s)
                r == s \ {x}
    <3>2. r \in SUBSET M /\ Cardinality(r) = n /\ x \in M /\ x \in s /\ s = r \cup {x} /\ x \notin r
      BY <3>1, <2>1, <1>3
    <3>3. fold[s] = m[x] + fold[r]
      BY <3>1, <1>7
    <3>. HIDE DEF r, x
    <3>4. Right(r)
      BY <3>2, <1>9
    <3>5. IsFiniteSet(Gone(r)) /\ Cardinality(Gone(r)) \in Nat /\ x \notin Gone(r)
      BY <3>2, <1>2, FS_CardinalityType, FS_Subset
    <3>6. Gone(s) = IF m[x] > 0 THEN Gone(r) \cup {x} ELSE Gone(r)
      BY <3>2
    <3>7. m[x] \in Nat
      BY <3>2
    <3>. HIDE DEF Gone
    <3>8. CASE m[x] > 0
      <4>1. Cardinality(Gone(s)) = Cardinality(Gone(r)) + 1
        BY <3>8, <3>5, <3>6, FS_AddElement
      <4>. QED
        BY <4>1, <3>2, <3>3, <3>4, <3>5, <3>7, <3>8
    <3>9. CASE m[x] = 0
      BY <3>9, <3>2, <3>3, <3>4, <3>5, <3>6
    <3>. QED
      BY <3>7, <3>8, <3>9
  <2>. QED
    BY <2>1
<1>. HIDE DEF G
<1>10. Nat \subseteq G
  BY <1>8, <1>9, Facts!CountUp, Assumed
<1>11. Cardinality(M) \in G /\ M \in SUBSET M
  BY <1>2, <1>10
<1>12. Right(M)
  BY <1>11 DEF G
<1>. QED
  BY <1>6, <1>12

\* The listen item of a path has at most one reference per callback.
RefsBounded == \A p \in SubPath : ref[p] <= Cardinality(At(p))

\* Dropping as many references as callbacks are removed, or more, keeps the bound;
\* dropping exactly as many keeps the count right.
LEMMA RefsFollow ==
  ASSUME Shape, NEW H \in SUBSET Handle, NEW n \in [SubPath -> Nat],
         reg' = [h \in Handle |-> IF h \in H THEN NoHandle ELSE reg[h]],
         ref' = Dropped(n)
  PROVE  /\ ref' \in [SubPath -> Nat]
         /\ RefsBounded /\ (\A p \in SubPath : n[p] >= Cardinality(At(p) \cap H)) => RefsBounded'
         /\ RefsMatchCallbacks /\ (\A p \in SubPath : n[p] = Cardinality(At(p) \cap H))
                => RefsMatchCallbacks'
<1>1. \A p : IsFiniteSet(At(p)) /\ IsFiniteSet(At(p) \cap H)
  BY HandleAssumption, FS_Subset DEF At
<1>2. \A p : /\ Cardinality(At(p)) \in Nat /\ Cardinality(At(p) \cap H) \in Nat
             /\ Cardinality(At(p) \ H) = Cardinality(At(p)) - Cardinality(At(p) \cap H)
             /\ Cardinality(At(p) \ H) \in Nat
  <2>1. \A p : /\ IsFiniteSet(At(p) \ H)
               /\ Cardinality(At(p) \ H) = Cardinality(At(p)) - Cardinality(At(p) \cap H)
    BY <1>1, FS_Difference
  <2>. QED
    BY <2>1, <1>1, FS_CardinalityType
<1>3. \A p : At(p)' = At(p) \ H
  BY Removed
<1>4. ref \in [SubPath -> Nat]
  BY DEF Shape
<1>5. ref' \in [SubPath -> Nat] /\ \A p \in SubPath : ref'[p] = IF n[p] >= ref[p] THEN 0 ELSE ref[p] - n[p]
  BY <1>4 DEF Dropped
<1>6. \A p \in SubPath : Cardinality(At(p))' = Cardinality(At(p)) - Cardinality(At(p) \cap H)
  BY <1>2, <1>3
<1>7. ASSUME RefsBounded, \A p \in SubPath : n[p] >= Cardinality(At(p) \cap H) PROVE RefsBounded'
  <2>1. ASSUME NEW p \in SubPath PROVE ref'[p] <= Cardinality(At(p)) - Cardinality(At(p) \cap H)
    <3>. DEFINE a == Cardinality(At(p))
                b == Cardinality(At(p) \cap H)
    <3>1. /\ ref[p] \in Nat /\ n[p] \in Nat /\ ref[p] <= a /\ n[p] >= b
          /\ a \in Nat /\ b \in Nat /\ a - b \in Nat
      BY <1>2, <1>4, <1>7 DEF RefsBounded
    <3>2. ref'[p] = IF n[p] >= ref[p] THEN 0 ELSE ref[p] - n[p]
      BY <1>5
    <3>. HIDE DEF a, b
    <3>3. ref'[p] <= a - b
      BY <3>1, <3>2
    <3>. QED
      BY <3>3 DEF a, b
  <2>. QED
    BY <2>1, <1>6 DEF RefsBounded
<1>8. ASSUME RefsMatchCallbacks, \A p \in SubPath : n[p] = Cardinality(At(p) \cap H)
      PROVE  RefsMatchCallbacks'
  <2>1. ASSUME NEW p \in SubPath PROVE ref'[p] = Cardinality(At(p)) - Cardinality(At(p) \cap H)
    <3>. DEFINE a == Cardinality(At(p))
                b == Cardinality(At(p) \cap H)
    <3>1. /\ ref[p] = a /\ n[p] = b
          /\ a \in Nat /\ b \in Nat /\ a - b \in Nat
      BY <1>2, <1>8 DEF RefsMatchCallbacks
    <3>2. ref'[p] = IF n[p] >= ref[p] THEN 0 ELSE ref[p] - n[p]
      BY <1>5
    <3>. HIDE DEF a, b
    <3>3. ref'[p] = a - b
      BY <3>1, <3>2
    <3>. QED
      BY <3>3 DEF a, b
  <2>. QED
    BY <2>1, <1>6 DEF RefsMatchCallbacks
<1>. QED
  BY <1>5, <1>7, <1>8

\* What a step does to the reference counts: with callbacks of children that may
\* cancel themselves only the bound is sure.
RefsKept ==
    /\ RefsBounded => RefsBounded'
    /\ Cancels \subseteq {"value"} /\ RefsMatchCallbacks => RefsMatchCallbacks'

-----------------------------------------------------------------------------
(* The steps                                                               *)

\* A registration counts its reference.
LEMMA OnCounts ==
  ASSUME OnInv, NEW h \in Handle, NEW t \in Types, NEW p \in SubPath, on(h, t, p)
  PROVE  RefsKept
<1>1. /\ At(p)' = At(p) \cup {h} /\ h \notin At(p)
      /\ \A q \in SubPath \ {p} : At(q)' = At(q)
  BY OnKeeps
<1>2. ref' = [ref EXCEPT ![p] = @ + 1] /\ ref \in [SubPath -> Nat]
  BY DEF on, OnInv, Shape
<1>3. \A q : IsFiniteSet(At(q))
  BY HandleAssumption, FS_Subset DEF At
<1>4. Cardinality(At(p))' = Cardinality(At(p)) + 1 /\ Cardinality(At(p)) \in Nat
  BY <1>1, <1>3, FS_AddElement, FS_CardinalityType
<1>5. \A q \in SubPath \ {p} : Cardinality(At(q))' = Cardinality(At(q)) /\ ref'[q] = ref[q]
  BY <1>1, <1>2
<1>6. ref'[p] = ref[p] + 1 /\ ref[p] \in Nat
  BY <1>2
<1>7. RefsBounded => RefsBounded'
  <2>. SUFFICES ASSUME RefsBounded, NEW q \in SubPath PROVE ref'[q] <= Cardinality(At(q))'
    BY DEF RefsBounded
  <2>1. ref[q] <= Cardinality(At(q))
    BY DEF RefsBounded
  <2>. QED
    BY <2>1, <1>4, <1>5, <1>6
<1>8. RefsMatchCallbacks => RefsMatchCallbacks'
  <2>. SUFFICES ASSUME RefsMatchCallbacks, NEW q \in SubPath PROVE ref'[q] = Cardinality(At(q))'
    BY DEF RefsMatchCallbacks
  <2>1. ref[q] = Cardinality(At(q))
    BY DEF RefsMatchCallbacks
  <2>. QED
    BY <2>1, <1>4, <1>5, <1>6
<1>. QED
  BY <1>7, <1>8 DEF RefsKept

\* wc_datasync_off_w() forgets what the removed callbacks were told, and drops one
\* reference for each.
LEMMA OffKeeps ==
  ASSUME OnInv, NEW p \in SubPath, NEW H \in SUBSET At(p), wc_datasync_off_w(p, H)
  PROVE  OnInv' /\ RefsKept
<1>. DEFINE n == [q \in SubPath |-> IF q = p THEN Cardinality(H) ELSE 0]
<1>1. /\ Shape /\ H \in SUBSET Handle /\ Told(cache, hash, kids, seen, told)
      /\ Remove(H, hash, kids, seen, told) /\ ref' = Dropped(n)
      /\ cache' = cache /\ up' = up
  BY DEF OnInv, At, wc_datasync_off_w
<1>2. IsFiniteSet(H) /\ Cardinality(H) \in Nat
  BY <1>1, HandleAssumption, FS_Subset, FS_CardinalityType
<1>3. n \in [SubPath -> Nat]
  BY <1>2
<1>4. \A q \in SubPath : n[q] = Cardinality(At(q) \cap H)
  <2>1. At(p) \cap H = H
    OBVIOUS
  <2>2. \A q \in SubPath \ {p} : At(q) \cap H = {}
    BY DEF At
  <2>3. Cardinality({}) = 0
    BY FS_EmptySet
  <2>. QED
    BY <2>1, <2>2, <2>3
<1>. HIDE DEF n
<1>5. reg' = [h \in Handle |-> IF h \in H THEN NoHandle ELSE reg[h]]
  BY <1>1 DEF Remove
<1>6. \A q \in SubPath : n[q] >= Cardinality(At(q) \cap H)
  BY <1>3, <1>4
<1>7. ref' \in [SubPath -> Nat] /\ RefsKept
  BY <1>1, <1>3, <1>4, <1>5, <1>6, RefsFollow DEF RefsKept
<1>8. Told(cache', hash, kids, seen, told) /\ Facts!Tree(cache') /\ up' \in BOOLEAN
  BY <1>1 DEF Shape
<1>. QED
  BY <1>1, <1>7, <1>8, RemoveKeeps

\* trig() for one callback: with the subscriptions that a push triggers, and the
\* new cache c, what is remembered afterwards is what has been told.
LEMMA TrigTells ==
  ASSUME OnInv, NEW p \in Path, NEW c,
         \A s \in SubPath \ Triggered(p) : Cur(c, s) = Cur(cache, s) /\ CurKids(c, s) = CurKids(cache, s)
  PROVE  LET S == Triggered(p)
             kidsDone == {s \in S : HasKidsCb(s)}
             valueDone == {s \in S : ValueChanged(c, s)}
             k1 == [s \in SubPath |-> IF s \in kidsDone THEN NewKids(c, s) ELSE kids[s]]
             h1 == [s \in SubPath |-> IF s \in valueDone THEN Cur(c, s) ELSE hash[s]]
             s1 == [h \in Handle |->
                     IF \E s \in valueDone : h \in OfType(s, {"value"})
                     THEN Cur(c, reg[h].path) ELSE seen[h]]
             t1 == [h \in Handle |->
                     IF \E s \in kidsDone : h \in OfType(s, {"added"})
                     THEN LET e == Events(c, reg[h].path)
                          IN  [k \in Key |-> IF k \in e.added THEN told[h][k] + 1
                                             ELSE IF k \in e.removed /\ told[h][k] > 0
                                                  THEN told[h][k] - 1 ELSE told[h][k]]
                     ELSE told[h]]
         IN  Told(c, h1, k1, s1, t1)
<1>. DEFINE S == Triggered(p)
            kidsDone == {s \in S : HasKidsCb(s)}
            valueDone == {s \in S : ValueChanged(c, s)}
            k1 == [s \in SubPath |-> IF s \in kidsDone THEN NewKids(c, s) ELSE kids[s]]
            h1 == [s \in SubPath |-> IF s \in valueDone THEN Cur(c, s) ELSE hash[s]]
            s1 == [h \in Handle |->
                    IF \E s \in valueDone : h \in OfType(s, {"value"})
                    THEN Cur(c, reg[h].path) ELSE seen[h]]
            New(h) == [k \in Key |-> IF k \in Events(c, reg[h].path).added THEN told[h][k] + 1
                                     ELSE IF k \in Events(c, reg[h].path).removed /\ told[h][k] > 0
                                          THEN told[h][k] - 1 ELSE told[h][k]]
            t1 == [h \in Handle |->
                    IF \E s \in kidsDone : h \in OfType(s, {"added"}) THEN New(h) ELSE told[h]]
<1>1. ASSUME NEW h \in Handle, reg[h] = NoHandle PROVE s1[h] = Never /\ t1[h] = Zeros
  <2>1. \A s, T : h \notin OfType(s, T)
    BY <1>1 DEF OfType, At
  <2>2. seen[h] = Never /\ told[h] = Zeros
    BY <1>1 DEF OnInv, Told
  <2>. QED
    BY <2>1, <2>2
<1>2. ASSUME NEW h \in Handle, reg[h] # NoHandle, NEW t \in Types, reg[h].type = t
      PROVE  /\ reg[h].path \in SubPath
             /\ \A s : h \in OfType(s, {t}) <=> s = reg[h].path
             /\ t = "added" => h \in OfType(reg[h].path, ChildTypes)
  BY <1>2 DEF OnInv, Shape, Entry, OfType, At, ChildTypes, Types
<1>3. ASSUME NEW h \in Handle, reg[h] # NoHandle, reg[h].type = "value"
      PROVE  ValueKnown(c, h1, s1, h)
  <2>. DEFINE s == reg[h].path
  <2>1. s \in SubPath /\ \A q : h \in OfType(q, {"value"}) <=> q = s
    BY <1>2, <1>3 DEF Types
  <2>2. seen[h] = Never \/ (seen[h] = hash[s] /\ seen[h] = Cur(cache, s))
    BY <1>3 DEF OnInv, Told, ValueKnown
  <2>3. s1[h] = (IF s \in valueDone THEN Cur(c, s) ELSE seen[h])
    BY <2>1
  <2>4. h1[s] = (IF s \in valueDone THEN Cur(c, s) ELSE hash[s])
    BY <2>1
  <2>5. s \notin valueDone => Cur(c, s) = Cur(cache, s) \/ Cur(c, s) = hash[s]
    BY <2>1 DEF ValueChanged
  <2>. HIDE DEF s, s1, h1, valueDone
  <2>6. s1[h] = Never \/ (s1[h] = h1[s] /\ s1[h] = Cur(c, s))
    BY <2>2, <2>3, <2>4, <2>5
  <2>. QED
    BY <2>6 DEF ValueKnown, s
<1>4. ASSUME NEW h \in Handle, reg[h] # NoHandle, reg[h].type = "added"
      PROVE  ChildrenKnown(c, k1, t1, h)
  <2>. DEFINE s == reg[h].path
  <2>1. /\ s \in SubPath /\ (\A q : h \in OfType(q, {"added"}) <=> q = s) /\ HasKidsCb(s)
    BY <1>2, <1>4 DEF Types, HasKidsCb
  <2>2. \A k \in Key : /\ told[h][k] \in {0, 1}
                       /\ told[h][k] = 1 => k \in DOMAIN kids[s] /\ k \in DOMAIN CurKids(cache, s)
    BY <1>4 DEF OnInv, Told, ChildrenKnown
  <2>3. CASE s \in S
    <3>1. s \in kidsDone
      BY <2>1, <2>3
    <3>2. k1[s] = CurKids(c, s) /\ t1[h] = New(h)
      BY <3>1, <2>1 DEF NewKids
    <3>3. /\ Events(c, reg[h].path).added = DOMAIN CurKids(c, s) \ DOMAIN kids[s]
          /\ Events(c, reg[h].path).removed = DOMAIN kids[s] \ DOMAIN CurKids(c, s)
      BY DEF Events
    <3>4. \A k \in Key : New(h)[k] =
              IF k \in DOMAIN CurKids(c, s) \ DOMAIN kids[s] THEN told[h][k] + 1
              ELSE IF k \in DOMAIN kids[s] \ DOMAIN CurKids(c, s) /\ told[h][k] > 0
                   THEN told[h][k] - 1 ELSE told[h][k]
      BY <3>3
    <3>. HIDE DEF New, s, k1, t1, S, kidsDone
    <3>5. \A k \in Key : /\ New(h)[k] \in {0, 1}
                         /\ New(h)[k] = 1 => k \in DOMAIN CurKids(c, s)
      BY <3>4, <2>2
    <3>. QED
      BY <3>2, <3>5 DEF ChildrenKnown, s
  <2>4. CASE s \notin S
    <3>1. k1[s] = kids[s] /\ t1[h] = told[h]
      BY <2>1, <2>4
    <3>2. CurKids(c, s) = CurKids(cache, s)
      BY <2>1, <2>4
    <3>. HIDE DEF New, s, k1, t1, S, kidsDone
    <3>. QED
      BY <3>1, <3>2, <2>2 DEF ChildrenKnown, s
  <2>. QED
    BY <2>3, <2>4
<1>5. Told(c, h1, k1, s1, t1)
  <2>. HIDE DEF h1, k1, s1, t1
  <2>. QED
    BY <1>1, <1>3, <1>4 DEF Told
<1>. QED
  BY <1>5

\* The references that go with the handles on the list of deleted_cb_gc().  A
\* value callback is called at most once per push, so it is there at most once.
LEMMA MarksCount ==
  ASSUME Shape, NEW c, NEW S, NEW m \in Marks(c, S), NEW q \in SubPath
  PROVE  LET sum == SumOf(m, At(q))
             gone == At(q) \cap {h \in Handle : m[h] > 0}
         IN  /\ sum \in Nat /\ sum >= Cardinality(gone)
             /\ Cancels \subseteq {"value"} => sum = Cardinality(gone)
<1>. DEFINE gone == At(q) \cap {h \in Handle : m[h] > 0}
<1>1. IsFiniteSet(At(q)) /\ At(q) \subseteq Handle
  BY HandleAssumption, FS_Subset DEF At
<1>2. \A h \in Handle : m[h] \in Nat
  <2>1. Cardinality(Key) \in Nat
    BY HandleAssumption, FS_CardinalityType
  <2>. QED
    BY <2>1 DEF Marks
<1>3. \A h \in At(q) : m[h] \in Nat
  BY <1>1, <1>2
<1>4. gone = {h \in At(q) : m[h] > 0}
  BY <1>1
<1>5. ASSUME Cancels \subseteq {"value"}, NEW h \in At(q) PROVE m[h] <= 1
  <2>1. \/ m[h] = 0
        \/ reg[h] # NoHandle /\ reg[h].type \in Cancels /\ m[h] <= Calls(c, S, h)
    BY <1>1 DEF Marks
  <2>2. CASE m[h] = 0
    BY <2>2
  <2>3. CASE reg[h] # NoHandle /\ reg[h].type \in Cancels /\ m[h] <= Calls(c, S, h)
    <3>1. reg[h].type = "value"
      BY <2>3, <1>5
    <3>2. Calls(c, S, h) \in {0, 1}
      BY <3>1 DEF Calls
    <3>. QED
      BY <3>2, <2>3, <1>3
  <2>. QED
    BY <2>1, <2>2, <2>3
<1>. HIDE DEF gone
<1>6. /\ SumOf(m, At(q)) \in Nat
      /\ SumOf(m, At(q)) >= Cardinality({h \in At(q) : m[h] > 0})
      /\ (\A h \in At(q) : m[h] <= 1)
            => SumOf(m, At(q)) = Cardinality({h \in At(q) : m[h] > 0})
  BY <1>1, <1>3, Dropping
<1>. QED
  BY <1>4, <1>5, <1>6 DEF gone

\* on_registry_dispatch_on_event_ex() and deleted_cb_gc() after a push.
LEMMA PushKeeps ==
  ASSUME OnInv, NEW p \in Path, NEW j \in Json, UpdatePut(p, j) \/ UpdateMerge(p, j)
  PROVE  OnInv' /\ RefsKept
<1>1. /\ Cache!data_cache_set(p, j) \/ Cache!data_cache_merge(p, j)
      /\ Dispatch(cache', p) /\ up' = up /\ Shape
  BY DEF UpdatePut, UpdateMerge, OnInv
<1>2. /\ Facts!Tree(cache')
      /\ \A s \in SubPath \ Triggered(p) :
             Cur(cache', s) = Cur(cache, s) /\ CurKids(cache', s) = CurKids(cache, s)
  BY <1>1, PushIsLocal DEF Shape
<1>3. \E h1, k1, s1, t1 :
         /\ Told(cache', h1, k1, s1, t1)
         /\ \E m \in Marks(cache', Triggered(p)) :
                /\ Remove({h \in Handle : m[h] > 0}, h1, k1, s1, t1)
                /\ ref' = Dropped([q \in SubPath |-> SumOf(m, At(q))])
  BY <1>1, <1>2, TrigTells DEF Dispatch, SumOf
<1>4. PICK h1, k1, s1, t1 :
         /\ Told(cache', h1, k1, s1, t1)
         /\ \E m \in Marks(cache', Triggered(p)) :
                /\ Remove({h \in Handle : m[h] > 0}, h1, k1, s1, t1)
                /\ ref' = Dropped([q \in SubPath |-> SumOf(m, At(q))])
  BY <1>3
<1>5. PICK m \in Marks(cache', Triggered(p)) :
        /\ Told(cache', h1, k1, s1, t1)
        /\ Remove({h \in Handle : m[h] > 0}, h1, k1, s1, t1)
        /\ ref' = Dropped([q \in SubPath |-> SumOf(m, At(q))])
  BY <1>4
<1>. DEFINE H == {h \in Handle : m[h] > 0}
            n == [q \in SubPath |-> SumOf(m, At(q))]
<1>6. ASSUME NEW q \in SubPath
      PROVE  /\ n[q] \in Nat /\ n[q] >= Cardinality(At(q) \cap H)
             /\ Cancels \subseteq {"value"} => n[q] = Cardinality(At(q) \cap H)
  BY <1>1, MarksCount
<1>7. ref' = Dropped(n) /\ H \in SUBSET Handle /\ Remove(H, h1, k1, s1, t1)
  BY <1>5
<1>8. n = [q \in SubPath |-> n[q]]
  OBVIOUS
<1>. HIDE DEF H, n
<1>9. n \in [SubPath -> Nat]
  BY <1>6, <1>8
<1>10. reg' = [h \in Handle |-> IF h \in H THEN NoHandle ELSE reg[h]]
  BY <1>7 DEF Remove
<1>11. ref' \in [SubPath -> Nat] /\ RefsKept
  BY <1>1, <1>6, <1>7, <1>9, <1>10, RefsFollow DEF RefsKept
<1>12. up' \in BOOLEAN
  BY <1>1 DEF Shape
<1>. QED
  BY <1>1, <1>2, <1>5, <1>7, <1>11, <1>12, RemoveKeeps

\* Every step keeps the invariant.
LEMMA OnStep == OnInv /\ [Next]_vars => OnInv' /\ RefsKept
<1>. SUFFICES ASSUME OnInv, [Next]_vars PROVE OnInv' /\ RefsKept
  OBVIOUS
<1>1. ASSUME NEW h \in Handle, NEW t \in Types, NEW p \in SubPath, on(h, t, p)
      PROVE  OnInv' /\ RefsKept
  BY <1>1, OnKeeps, OnCounts
<1>2. ASSUME NEW p \in SubPath, Off(p) PROVE OnInv' /\ RefsKept
  <2>1. PICK H \in SUBSET At(p) : wc_datasync_off_w(p, H)
    BY <1>2 DEF Off, OfType
  <2>. QED
    BY <2>1, OffKeeps
<1>3. ASSUME NEW p \in Path, NEW j \in Json, UpdatePut(p, j) \/ UpdateMerge(p, j)
      PROVE  OnInv' /\ RefsKept
  BY <1>3, PushKeeps
<1>4. ASSUME UNCHANGED <<cache, reg, hash, kids, ref, seen, told>>, up' \in BOOLEAN
      PROVE  OnInv' /\ RefsKept
  <2>1. \A p : At(p)' = At(p)
    BY <1>4 DEF At
  <2>2. RefsKept
    BY <2>1, <1>4 DEF RefsKept, RefsBounded, RefsMatchCallbacks
  <2>3. Shape'
    <3>1. Facts!Tree(cache)'
      BY <1>4 DEF OnInv, Shape, Facts!Tree
    <3>. QED
      BY <3>1, <2>1, <1>4 DEF OnInv, Shape
  <2>4. Told(cache, hash, kids, seen, told)'
    BY <1>4 DEF OnInv, Told, ValueKnown, ChildrenKnown, Cur, CurKids, IsObject, Zeros
  <2>. QED
    BY <2>2, <2>3, <2>4 DEF OnInv
<1>5. CASE UpDown
  BY <1>4, <1>5 DEF UpDown
<1>6. CASE UNCHANGED vars
  BY <1>4, <1>6 DEF vars, OnInv, Shape
<1>. QED
  BY <1>1, <1>2, <1>3, <1>5, <1>6 DEF Next

\* No reference at first.
LEMMA RefsStart == Init => RefsBounded /\ RefsMatchCallbacks
<1>. SUFFICES ASSUME Init, NEW p \in SubPath PROVE ref[p] = 0 /\ Cardinality(At(p)) = 0
  BY DEF RefsBounded, RefsMatchCallbacks
<1>1. At(p) = {}
  BY DEF Init, At
<1>. QED
  BY <1>1, FS_EmptySet DEF Init

\* The invariant holds in all behaviours.
LEMMA OnInvariant == Spec => [](OnInv /\ RefsBounded)
<1>1. Init => OnInv /\ RefsBounded
  BY OnStart, RefsStart
<1>2. OnInv /\ RefsBounded /\ [Next]_vars => (OnInv /\ RefsBounded)'
  BY OnStep DEF RefsKept
<1>. QED
  BY <1>1, <1>2, PTL DEF Spec

-----------------------------------------------------------------------------
(* Theorems                                                                *)

\* Registrations and the cache keep their shape; the references of a listen item
\* never exceed the callbacks, and on_registry_remove() leaves no hash behind
\* when the last callback of a path goes.
THEOREM RegistryIsTyped == Spec => []TypeOK
<1>1. OnInv /\ RefsBounded => TypeOK
  <2>. SUFFICES ASSUME OnInv, RefsBounded PROVE TypeOK
    OBVIOUS
  <2>1. Cache!TypeOK
    BY SameTree DEF OnInv, Shape
  <2>2. \A h \in Handle : reg[h] = NoHandle \/ reg[h] \in [path : SubPath, type : Types]
    BY DEF OnInv, Shape, Entry
  <2>3. ASSUME NEW p \in SubPath PROVE ref[p] \in 0..Cardinality(Handle)
    <3>1. Cardinality(At(p)) <= Cardinality(Handle) /\ Cardinality(At(p)) \in Nat
      BY HandleAssumption, FS_Subset, FS_CardinalityType DEF At
    <3>2. ref[p] \in Nat /\ ref[p] <= Cardinality(At(p)) /\ Cardinality(Handle) \in Nat
      BY HandleAssumption, FS_CardinalityType DEF OnInv, Shape, RefsBounded
    <3>. QED
      BY <3>1, <3>2
  <2>4. ref \in [SubPath -> 0..Cardinality(Handle)]
    BY <2>3 DEF OnInv, Shape
  <2>. QED
    BY <2>1, <2>2, <2>4 DEF TypeOK, OnInv, Shape
<1>. QED
  BY <1>1, OnInvariant, PTL

\* A value callback that was ever called knows what the cache holds, whatever is
\* pushed at, above or below its path: trig() compares with a hash that is the one
\* its callbacks were told, and a push that does not trigger a subscription leaves
\* the hash of its node as it was.
THEOREM CallbacksAreCurrent == Spec => []SeenIsCurrent
<1>1. OnInv => SeenIsCurrent
  <2>. SUFFICES ASSUME OnInv, NEW p \in SubPath, NEW h \in OfType(p, {"value"})
                PROVE  seen[h] \in {Never, Cur(cache, p)}
    BY DEF SeenIsCurrent
  <2>1. h \in Handle /\ reg[h] # NoHandle /\ reg[h].path = p /\ reg[h].type = "value"
    BY DEF OfType, At
  <2>2. ValueKnown(cache, hash, seen, h)
    BY <2>1 DEF OnInv, Told
  <2>. QED
    BY <2>1, <2>2 DEF ValueKnown
<1>. QED
  BY <1>1, OnInvariant, PTL

\* No child is announced twice to an added callback, and one that was announced,
\* without a removal since, exists: also when several pushes, registrations and
\* removals at the same path share the list of known children.
THEOREM AnnouncedChildrenExist == Spec => []KnownChildExists
<1>1. OnInv => KnownChildExists
  <2>. SUFFICES ASSUME OnInv, NEW p \in SubPath, NEW h \in OfType(p, {"added"}), NEW k \in Key
                PROVE  /\ told[h][k] \in {0, 1}
                       /\ told[h][k] = 1 => k \in DOMAIN CurKids(cache, p)
    BY DEF KnownChildExists
  <2>1. h \in Handle /\ reg[h] # NoHandle /\ reg[h].path = p /\ reg[h].type = "added"
    BY DEF OfType, At
  <2>2. ChildrenKnown(cache, kids, told, h)
    BY <2>1 DEF OnInv, Told
  <2>. QED
    BY <2>1, <2>2 DEF ChildrenKnown
<1>. QED
  BY <1>1, OnInvariant, PTL

\* As long as only value callbacks cancel themselves, the listen item of a path has
\* exactly one reference per callback, so that wc_datasync_unwatch_ex() neither
\* unlistens under a live callback nor leaves a listen behind.  A callback of
\* child events may be called, and may return 0, several times in a push.
THEOREM RefsAreExact ==
  ASSUME Cancels \subseteq {"value"}
  PROVE  Spec => []RefsMatchCallbacks
<1>1. Init => OnInv /\ RefsMatchCallbacks
  BY OnStart, RefsStart
<1>2. OnInv /\ RefsMatchCallbacks /\ [Next]_vars => (OnInv /\ RefsMatchCallbacks)'
  BY OnStep DEF RefsKept
<1>. QED
  BY <1>1, <1>2, PTL DEF Spec
=============================================================================

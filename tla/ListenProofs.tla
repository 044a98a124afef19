---------------------------- MODULE ListenProofs ----------------------------
(***************************************************************************)
(* Proofs about ListenRegistry, for every finite set of paths.             *)
(***************************************************************************)
EXTENDS ListenRegistry, FiniteSetTheorems, TLAPS

-----------------------------------------------------------------------------
(* Paths                                                                   *)

\* A path below one below a third is below the third.
LEMMA BelowTransitive ==
    ASSUME NEW p \in Path, NEW q \in Path, NEW r \in Path,
           StrictlyBelow(p, q), StrictlyBelow(q, r)
    PROVE  StrictlyBelow(p, r)
<1>1. /\ p \in Seq(Key) /\ q \in Seq(Key) /\ r \in Seq(Key)
  BY PathAssumption
<1>2. Len(p) \in Nat /\ Len(q) \in Nat /\ Len(r) \in Nat
  BY <1>1
<1>3. \A u \in 1..Len(r) : u \in 1..Len(q) /\ p[u] = q[u] /\ q[u] = r[u]
  BY <1>2 DEF StrictlyBelow, starts_with
<1> QED
  BY <1>2, <1>3 DEF StrictlyBelow, starts_with

\* The order in which a loop over the registry visits a set of paths is some
\* sequence of exactly these paths.
LEMMA SetToSeqOfPaths ==
    ASSUME NEW S, S \subseteq Path
    PROVE  /\ SetToSeq(S) \in Seq(S)
           /\ \A p \in S : \E i \in DOMAIN SetToSeq(S) : SetToSeq(S)[i] = p
<1> DEFINE n == Cardinality(S)
           s == SetToSeq(S)
<1>1. IsFiniteSet(S)
  BY FS_Subset, PathAssumption
<1>2. n \in Nat /\ ExistsBijection(1..n, S)
  BY <1>1, FS_CardinalityType
<1>3. \E f \in [1..n -> S] : IsInjective(f)
  BY <1>2 DEF ExistsBijection, Bijection, Injection
<1>4. s \in [1..n -> S] /\ IsInjective(s)
  BY <1>3 DEF SetToSeq
<1>5. s \in Injection(1..n, S)
  BY <1>4 DEF Injection
<1>6. IsFiniteSet(1..n) /\ Cardinality(1..n) = n
  BY <1>2, FS_Interval
<1>7. s \in Surjection(1..n, S)
  BY <1>1, <1>5, <1>6, FS_Injection
<1>8. \A p \in S : \E i \in 1..n : s[i] = p
  BY <1>7 DEF Surjection
<1>9. s \in Seq(S) /\ DOMAIN s = 1..n
  BY <1>2, <1>4
<1> QED
  BY <1>8, <1>9

\* Among the paths of S above p there is a topmost one.
LEMMA TopmostExists ==
    ASSUME NEW S, S \subseteq Path, NEW p \in Path, NEW s0 \in S, StrictlyBelow(p, s0)
    PROVE  \E t \in S : StrictlyBelow(p, t) /\ \A u \in S : ~StrictlyBelow(t, u)
<1> DEFINE Above == {t \in S : StrictlyBelow(p, t)}
           Lens == {Len(t) : t \in Above}
<1>1. \A t \in S : t \in Seq(Key) /\ Len(t) \in Nat
  BY PathAssumption
<1>2. Lens \subseteq Nat /\ Lens # {}
  BY <1>1
<1>3. \E n \in Lens : \A m \in Lens : ~(<<m, n>> \in OpToRel(<, Nat))
  BY <1>2, WFMin, NatLessThanWellFounded
<1>4. PICK n \in Lens : \A m \in Lens : ~(m < n)
  BY <1>2, <1>3 DEF OpToRel
<1>5. PICK t \in Above : Len(t) = n
  BY <1>4
<1>6. ASSUME NEW u \in S, StrictlyBelow(t, u) PROVE FALSE
  <2>1. u \in Above
    BY <1>6, BelowTransitive
  <2>2. Len(u) < Len(t)
    BY <1>6 DEF StrictlyBelow
  <2> QED
    BY <1>4, <1>5, <2>1, <2>2
<1> QED
  BY <1>5, <1>6

-----------------------------------------------------------------------------
(* Messages                                                                *)

\* The listen requests sent for a set of items are well-formed, and each item of
\* the set has one that points to it.
LEMMA ListensOfPaths ==
    ASSUME NEW S, S \subseteq Path, addr \in [Path -> Addr \cup {NoAddr}]
    PROVE  /\ Listens(S) \in Seq(Request)
           /\ \A p \in S : \E i \in 1..Len(Listens(S)) : Listens(S)[i] = ListenTo(p, addr[p])
           /\ \A i \in 1..Len(Listens(S)) :
                 \E p \in S : Listens(S)[i] = ListenTo(p, addr[p])
<1> DEFINE s == SetToSeq(S)
<1>1. s \in Seq(S) /\ \A p \in S : \E i \in DOMAIN s : s[i] = p
  BY SetToSeqOfPaths
<1>2. Listens(S) = [i \in 1..Len(s) |-> ListenTo(s[i], addr[s[i]])]
  BY <1>1 DEF Listens
<1> HIDE DEF s
<1>3. \A i \in 1..Len(s) : s[i] \in S /\ ListenTo(s[i], addr[s[i]]) \in Request
  BY <1>1 DEF ListenTo, Request
<1>4. Listens(S) \in Seq(Request) /\ Len(Listens(S)) = Len(s)
  BY <1>1, <1>2, <1>3
<1>5. DOMAIN s = 1..Len(s)
  BY <1>1
<1>6. \A p \in S : \E i \in 1..Len(s) : Listens(S)[i] = ListenTo(p, addr[p])
  BY <1>1, <1>2, <1>5
<1>7. \A i \in 1..Len(s) : Listens(S)[i] = ListenTo(s[i], addr[s[i]])
  BY <1>2
<1> QED
  BY <1>3, <1>4, <1>6, <1>7

\* The unlisten requests sent for a set of paths are well-formed and nothing else.
LEMMA UnlistensOfPaths ==
    ASSUME NEW S, S \subseteq Path
    PROVE  /\ Unlistens(S) \in Seq(Request)
           /\ \A i \in 1..Len(Unlistens(S)) : \E p \in S : Unlistens(S)[i] = Unlisten(p)
<1> DEFINE s == SetToSeq(S)
<1>1. s \in Seq(S)
  BY SetToSeqOfPaths
<1>2. Unlistens(S) = [i \in 1..Len(s) |-> Unlisten(s[i])]
  BY <1>1 DEF Unlistens
<1> HIDE DEF s
<1>3. \A i \in 1..Len(s) : s[i] \in S /\ Unlisten(s[i]) \in Request
  BY <1>1 DEF Unlisten, Request
<1>4. Unlistens(S) \in Seq(Request) /\ Len(Unlistens(S)) = Len(s)
  BY <1>1, <1>2, <1>3
<1> QED
  BY <1>2, <1>3, <1>4

\* What a handler sends is a well-formed sequence of requests: one first, then
\* those of the loop.
LEMMA ConsSeq ==
    ASSUME NEW m \in Request, NEW s \in Seq(Request)
    PROVE  /\ <<m>> \o s \in Seq(Request)
           /\ Len(<<m>> \o s) = Len(s) + 1
           /\ (<<m>> \o s)[1] = m
           /\ \A i \in 2..Len(<<m>> \o s) :
                 i - 1 \in 1..Len(s) /\ (<<m>> \o s)[i] = s[i - 1]
           /\ \A i \in 1..Len(s) : (<<m>> \o s)[i + 1] = s[i]
OBVIOUS

\* What is sent comes after what is under way, or is lost.
LEMMA ConcatSeq ==
    ASSUME NEW w \in Seq(Request), NEW s \in Seq(Request)
    PROVE  /\ w \o s \in Seq(Request)
           /\ Len(w \o s) = Len(w) + Len(s)
           /\ \A i \in 1..Len(w) : (w \o s)[i] = w[i]
           /\ \A i \in 1..Len(s) : (w \o s)[Len(w) + i] = s[i]
           /\ \A i \in Len(w) + 1 .. Len(w \o s) :
                 i - Len(w) \in 1..Len(s) /\ (w \o s)[i] = s[i - Len(w)]
OBVIOUS

\* Sending more requests keeps every listen request pointing to some item memory.
LEMMA AddressKept ==
    ASSUME NEW w \in Seq(Request), NEW s \in Seq(Request),
           \A i \in 1..Len(w) : w[i].kind = "listen" => w[i].addr # NoAddr,
           \A i \in 1..Len(s) : s[i].kind = "listen" => s[i].addr # NoAddr
    PROVE  \A i \in 1..Len(w \o s) :
              (w \o s)[i].kind = "listen" => (w \o s)[i].addr # NoAddr
<1> DEFINE ws == w \o s
<1>1. /\ Len(w) \in Nat /\ Len(s) \in Nat
      /\ \A i \in 1..Len(w) : ws[i] = w[i]
      /\ \A i \in Len(w) + 1 .. Len(ws) : i - Len(w) \in 1..Len(s) /\ ws[i] = s[i - Len(w)]
  BY ConcatSeq
<1> HIDE DEF ws
<1>2. ASSUME NEW i \in 1..Len(ws), ws[i].kind = "listen" PROVE ws[i].addr # NoAddr
  <2>1. CASE i \in 1..Len(w)
    BY <1>1, <1>2, <2>1
  <2>2. CASE i \in Len(w) + 1 .. Len(ws)
    BY <1>1, <1>2, <2>2
  <2> QED
    BY <1>1, <2>1, <2>2
<1> QED
  BY <1>2 DEF ws

\* Delivering the oldest answer moves the other requests up by one place.
LEMMA TailSeq ==
    ASSUME NEW w \in Seq(Request), w # <<>>
    PROVE  /\ Head(w) = w[1] /\ w[1] \in Request
           /\ Tail(w) \in Seq(Request)
           /\ Len(w) \in Nat \ {0}
           /\ Len(Tail(w)) = Len(w) - 1
           /\ \A i \in 1..Len(Tail(w)) : Tail(w)[i] = w[i + 1]
           /\ \A i \in 2..Len(w) : Tail(w)[i - 1] = w[i]
OBVIOUS

-----------------------------------------------------------------------------
(* The inductive invariant                                                 *)

IsListenTo(m, p) == m.kind = "listen" /\ m.path = p
IsUnlistenOf(m, p) == m.kind = "unlisten" /\ m.path = p

\* Listen requests carry the address of an item, so that no answer is applied
\* to a path without item.
ListensHaveAddress == \A i \in DOMAIN wire : wire[i].kind = "listen" => wire[i].addr # NoAddr

\* Nothing survives a connection, neither under way nor at the server.
NothingLeftWhenDown ==
    state \in {"DISCONNECTED", "CONNECTING"} => wire = <<>> /\ srv = {}

\* What the server hears last of a path that is not watched is an unlisten
\* request, if it hears of it at all.
LastWord(w, s, p) ==
    \/ p \notin s /\ \A i \in 1..Len(w) : ~IsListenTo(w[i], p)
    \/ \E j \in 1..Len(w) : /\ IsUnlistenOf(w[j], p)
                            /\ \A i \in 1..Len(w) : j < i => ~IsListenTo(w[i], p)

UnlistenIsLast ==
    state = "CONNECTED" =>
        \A p \in Path : status[p] = "ABSENT" => LastWord(wire, srv, p)

ListenInv ==
    /\ TypeOK
    /\ ResubscribedWhenUp
    /\ SuspendedWhenDown
    /\ PendingIsOutstanding
    /\ MaskedHasMasker
    /\ ListensHaveAddress
    /\ NothingLeftWhenDown
    /\ UnlistenIsLast

\* Requests that do not listen to p leave the last word on p with the unlisten.
LEMMA LastWordKept ==
    ASSUME NEW w \in Seq(Request), NEW s \in Seq(Request), NEW S, NEW p \in Path,
           LastWord(w, S, p), \A i \in 1..Len(s) : ~IsListenTo(s[i], p)
    PROVE  LastWord(w \o s, S, p)
<1>1. \A i \in 1..Len(w \o s) : Len(w) < i => ~IsListenTo((w \o s)[i], p)
  BY ConcatSeq
<1>2. Len(w) \in Nat /\ Len(s) \in Nat
  OBVIOUS
<1>3. CASE p \notin S /\ \A i \in 1..Len(w) : ~IsListenTo(w[i], p)
  <2>1. \A i \in 1..Len(w \o s) : ~IsListenTo((w \o s)[i], p)
    BY <1>1, <1>2, <1>3, ConcatSeq
  <2> QED
    BY <1>3, <2>1 DEF LastWord
<1>4. CASE \E j \in 1..Len(w) : /\ IsUnlistenOf(w[j], p)
                                /\ \A i \in 1..Len(w) : j < i => ~IsListenTo(w[i], p)
  <2>1. PICK j \in 1..Len(w) : /\ IsUnlistenOf(w[j], p)
                               /\ \A i \in 1..Len(w) : j < i => ~IsListenTo(w[i], p)
    BY <1>4
  <2>2. j \in 1..Len(w \o s) /\ IsUnlistenOf((w \o s)[j], p)
    BY <1>2, <2>1, ConcatSeq
  <2>3. \A i \in 1..Len(w \o s) : j < i => ~IsListenTo((w \o s)[i], p)
    BY <1>1, <1>2, <2>1, ConcatSeq
  <2> QED
    BY <2>2, <2>3 DEF LastWord
<1> QED
  BY <1>3, <1>4 DEF LastWord

\* An unlisten of p that no listen to p follows has the last word on p.
LEMMA LastWordSaid ==
    ASSUME NEW w \in Seq(Request), NEW s \in Seq(Request), NEW S, NEW p \in Path,
           Len(s) >= 1, s[1] = Unlisten(p),
           \A i \in 2..Len(s) : ~IsListenTo(s[i], p)
    PROVE  LastWord(w \o s, S, p)
<1> DEFINE j == Len(w) + 1
<1>1. Len(w) \in Nat /\ Len(s) \in Nat
  OBVIOUS
<1>2. j \in 1..Len(w \o s) /\ (w \o s)[j] = s[1]
  BY <1>1, ConcatSeq
<1>3. IsUnlistenOf((w \o s)[j], p)
  BY <1>2 DEF Unlisten, IsUnlistenOf
<1>4. \A i \in 1..Len(w \o s) : j < i => ~IsListenTo((w \o s)[i], p)
  BY <1>1, ConcatSeq
<1> QED
  BY <1>2, <1>3, <1>4 DEF LastWord

\* Delivering the oldest answer leaves the last word on p the last one.
LEMMA LastWordAnswered ==
    ASSUME NEW w \in Seq(Request), w # <<>>, NEW S, NEW T, NEW p \in Path,
           LastWord(w, S, p),
           p \in T => p \in S \/ IsListenTo(w[1], p),
           IsUnlistenOf(w[1], p) => p \notin T
    PROVE  LastWord(Tail(w), T, p)
<1> DEFINE t == Tail(w)
<1>1. /\ Len(w) \in Nat \ {0} /\ Len(t) = Len(w) - 1
      /\ \A i \in 1..Len(t) : t[i] = w[i + 1]
      /\ \A i \in 2..Len(w) : t[i - 1] = w[i]
  BY TailSeq
<1> HIDE DEF t
<1>2. CASE p \notin S /\ \A i \in 1..Len(w) : ~IsListenTo(w[i], p)
  <2>1. p \notin T
    BY <1>1, <1>2
  <2>2. \A i \in 1..Len(t) : ~IsListenTo(t[i], p)
    BY <1>1, <1>2
  <2> QED
    BY <2>1, <2>2 DEF LastWord, t
<1>3. ASSUME NEW j \in 1..Len(w), IsUnlistenOf(w[j], p),
             \A i \in 1..Len(w) : j < i => ~IsListenTo(w[i], p)
      PROVE  LastWord(t, T, p)
  <2>1. CASE j = 1
    <3>1. p \notin T
      BY <1>3, <2>1
    <3>2. \A i \in 1..Len(t) : ~IsListenTo(t[i], p)
      BY <1>1, <1>3, <2>1
    <3> QED
      BY <3>1, <3>2 DEF LastWord
  <2>2. CASE j # 1
    <3>1. j - 1 \in 1..Len(t) /\ IsUnlistenOf(t[j - 1], p)
      BY <1>1, <1>3, <2>2
    <3>2. \A i \in 1..Len(t) : j - 1 < i => ~IsListenTo(t[i], p)
      BY <1>1, <1>3, <2>2
    <3> QED
      BY <3>1, <3>2 DEF LastWord
  <2> QED
    BY <2>1, <2>2
<1> QED
  BY <1>2, <1>3 DEF LastWord, t

-----------------------------------------------------------------------------
(* One lemma per action                                                    *)

\* malloc() returns an address.
LEMMA AllocatedType == Allocated \subseteq Addr
<1>1. Dangling \subseteq Addr /\ Fresh \subseteq Addr
  BY DEF Dangling, Fresh
<1>2. Fresh # {} => (CHOOSE a \in Fresh : TRUE) \in Fresh
  OBVIOUS
<1> QED
  BY <1>1, <1>2 DEF Allocated

\* A new item gets an address.
LEMMA AddItemType ==
    ASSUME TypeOK, NEW p \in Path, AddItem(p)
    PROVE  /\ addr' \in [Path -> Addr \cup {NoAddr}]
           /\ addr'[p] \in Addr
           /\ \A q \in Path : q # p => addr'[q] = addr[q]
BY AllocatedType DEF TypeOK, AddItem

\* An item to be listened to is PENDING or REQUIRED.
LEMMA RequestedType == Requested \in {"PENDING", "REQUIRED"}
BY DEF Requested

\* wc_datasync_watch() with a request preserves the invariant.
LEMMA WatchAndRequestInv ==
    ASSUME ListenInv, NEW p \in Path, WatchAndRequest(p)
    PROVE  ListenInv'
<1> DEFINE S == {q \in ToMask(p) : status[q] = "ACTIVE"}
           un == Unlistens(S)
           m == ListenTo(p, addr'[p])
           msgs == <<m>> \o un
<1> USE DEF ListenInv
<1>1. /\ addr' \in [Path -> Addr \cup {NoAddr}]
      /\ addr'[p] \in Addr
      /\ \A q \in Path : q # p => addr'[q] = addr[q]
  BY AddItemType, AddrAssumption DEF WatchAndRequest, TypeOK
<1>2. /\ status' \in [Path -> Statuses]
      /\ status'[p] = Requested
      /\ \A q \in Path : q # p => status'[q] = IF q \in ToMask(p) THEN "MASKED" ELSE status[q]
  BY RequestedType DEF WatchAndRequest, TypeOK, Statuses
<1>3. /\ ref' \in [Path -> 0..MaxRef]
      /\ ref'[p] # 0
      /\ \A q \in Path : q # p => ref'[q] = ref[q]
  BY BoundsAssumption DEF WatchAndRequest, TypeOK
<1>4. state' = state /\ srv' = srv /\ drops' = drops
  BY DEF WatchAndRequest
<1>5. /\ un \in Seq(Request)
      /\ \A i \in 1..Len(un) : un[i].kind = "unlisten"
  <2>1. S \subseteq Path
    BY DEF ToMask
  <2> HIDE DEF S
  <2>2. /\ un \in Seq(Request)
        /\ \A i \in 1..Len(un) : \E q \in S : un[i] = Unlisten(q)
    BY <2>1, UnlistensOfPaths
  <2>3. \A q \in S : Unlisten(q).kind = "unlisten"
    BY DEF Unlisten
  <2> HIDE DEF un
  <2> QED
    BY <2>2, <2>3
<1>6. m \in Request /\ m.kind = "listen" /\ m.addr = addr'[p] /\ m.path = p
  BY <1>1 DEF ListenTo, Request
<1>7. wire' = IF state = "CONNECTED" THEN wire \o msgs ELSE wire
  BY DEF WatchAndRequest, Send
<1>8. wire \in Seq(Request)
  BY DEF TypeOK
<1> HIDE DEF un, m
<1>9. /\ msgs \in Seq(Request) /\ Len(msgs) >= 1 /\ msgs[1] = m
      /\ \A i \in 1..Len(msgs) : msgs[i] = m \/ msgs[i].kind = "unlisten"
  BY <1>5, <1>6, ConsSeq
<1> HIDE DEF msgs
<1>10. wire' \in Seq(Request)
  BY <1>7, <1>8, <1>9, ConcatSeq
<1>11. \A q \in ToMask(p) : q \in Path /\ q # p /\ status[q] \in Masking
  BY DEF ToMask, StrictlyBelow
<1>12. TypeOK'
  <2>1. \A q \in Path : /\ status'[q] = "ABSENT" <=> ref'[q] = 0
                        /\ status'[q] = "ABSENT" <=> addr'[q] = NoAddr
    <3> TAKE q \in Path
    <3>1. CASE q = p
      BY <1>1, <1>2, <1>3, <3>1, RequestedType, AddrAssumption
    <3>2. CASE q # p
      BY <1>1, <1>2, <1>3, <1>11, <3>2 DEF TypeOK, Masking
    <3> QED
      BY <3>1, <3>2
  <2> QED
    BY <1>1, <1>2, <1>3, <1>4, <1>10, <2>1 DEF TypeOK
<1>13. ResubscribedWhenUp'
  BY <1>2, <1>4 DEF ResubscribedWhenUp, Requested
<1>14. SuspendedWhenDown'
  BY <1>2, <1>4 DEF SuspendedWhenDown, Requested
<1>15. PendingIsOutstanding'
  <2> SUFFICES ASSUME NEW q \in Path, status'[q] = "PENDING"
               PROVE  \E i \in 1..Len(wire') :
                         wire'[i].kind = "listen" /\ wire'[i].addr = addr'[q]
    BY <1>10 DEF PendingIsOutstanding
  <2>1. CASE q = p
    <3>1. state = "CONNECTED"
      BY <1>2, <2>1 DEF Requested
    <3> QED
      BY <1>6, <1>7, <1>8, <1>9, <2>1, <3>1, ConcatSeq
  <2>2. CASE q # p
    <3>1. PICK i \in 1..Len(wire) : wire[i].kind = "listen" /\ wire[i].addr = addr[q]
      BY <1>2, <1>8, <2>2 DEF PendingIsOutstanding
    <3>2. i \in 1..Len(wire') /\ wire'[i] = wire[i]
      BY <1>7, <1>8, <1>9, ConcatSeq
    <3> QED
      BY <1>1, <2>2, <3>1, <3>2
  <2> QED
    BY <2>1, <2>2
<1>16. MaskedHasMasker'
  <2> SUFFICES ASSUME NEW q \in Path, status'[q] = "MASKED"
               PROVE  \E r \in Path : StrictlyBelow(q, r) /\ status'[r] \in Masking \cup {"FAILED"}
    BY DEF MaskedHasMasker
  <2>1. status'[p] \in Masking
    BY <1>2, RequestedType DEF Masking
  <2>2. q # p
    BY <2>1 DEF Masking
  <2>3. CASE q \in ToMask(p)
    BY <2>1, <2>3 DEF ToMask
  <2>4. CASE q \notin ToMask(p)
    <3>1. PICK r \in Path : StrictlyBelow(q, r) /\ status[r] \in Masking \cup {"FAILED"}
      BY <1>2, <2>2, <2>4 DEF MaskedHasMasker
    <3>2. CASE r \in ToMask(p)
      BY <2>1, <3>1, <3>2, BelowTransitive DEF ToMask
    <3>3. CASE r \notin ToMask(p)
      BY <1>2, <2>1, <3>1, <3>3
    <3> QED
      BY <3>2, <3>3
  <2> QED
    BY <2>3, <2>4
<1>17. ListensHaveAddress'
  <2>1. \A i \in 1..Len(wire) : wire[i].kind = "listen" => wire[i].addr # NoAddr
    BY <1>8 DEF ListensHaveAddress
  <2>2. \A i \in 1..Len(msgs) : msgs[i].kind = "listen" => msgs[i].addr # NoAddr
    BY <1>1, <1>6, <1>9, AddrAssumption
  <2>4. \A i \in 1..Len(wire') : wire'[i].kind = "listen" => wire'[i].addr # NoAddr
    BY <1>7, <1>8, <1>9, <2>1, <2>2, AddressKept
  <2> QED
    BY <1>10, <2>4 DEF ListensHaveAddress
<1>18. NothingLeftWhenDown'
  BY <1>4, <1>7 DEF NothingLeftWhenDown
<1>19. UnlistenIsLast'
  <2> SUFFICES ASSUME NEW q \in Path, state = "CONNECTED", status'[q] = "ABSENT"
               PROVE  LastWord(wire', srv', q)
    BY <1>4 DEF UnlistenIsLast
  <2>1. q # p /\ status[q] = "ABSENT"
    BY <1>2, RequestedType
  <2>2. LastWord(wire, srv, q)
    BY <2>1 DEF UnlistenIsLast
  <2>3. \A i \in 1..Len(msgs) : ~IsListenTo(msgs[i], q)
    BY <1>6, <1>9, <2>1 DEF IsListenTo
  <2> QED
    BY <1>4, <1>7, <1>8, <1>9, <2>2, <2>3, LastWordKept
<1> QED
  BY <1>12, <1>13, <1>14, <1>15, <1>16, <1>17, <1>18, <1>19

\* wc_datasync_watch() without a request preserves the invariant.
LEMMA WatchOnlyInv ==
    ASSUME ListenInv, NEW p \in Path, WatchOnly(p)
    PROVE  ListenInv'
<1> USE DEF ListenInv
<1>1. /\ addr' \in [Path -> Addr \cup {NoAddr}]
      /\ addr'[p] \in Addr
      /\ \A q \in Path : q # p => addr'[q] = addr[q]
  BY AddItemType, AddrAssumption DEF WatchOnly, TypeOK
<1>2. /\ status' \in [Path -> Statuses]
      /\ \A q \in Path : q # p => status'[q] = status[q]
      /\ status'[p] \in {"PENDING", "ACTIVE", "MASKED"}
  BY DEF WatchOnly, TypeOK, Statuses
<1>3. \/ status[p] = "ABSENT" /\ status'[p] = "MASKED" /\ is_masked(p)
      \/ status'[p] = status[p] /\ addr' = addr /\ status[p] # "ABSENT"
  BY DEF WatchOnly, AddItem, TypeOK
<1>4. /\ ref' \in [Path -> 0..MaxRef]
      /\ ref'[p] # 0
      /\ \A q \in Path : q # p => ref'[q] = ref[q]
  BY BoundsAssumption DEF WatchOnly, TypeOK
<1>5. UNCHANGED <<state, wire, srv, drops>>
  BY DEF WatchOnly
<1>6. TypeOK'
  <2>1. \A q \in Path : /\ status'[q] = "ABSENT" <=> ref'[q] = 0
                        /\ status'[q] = "ABSENT" <=> addr'[q] = NoAddr
    BY <1>1, <1>2, <1>4, AddrAssumption DEF TypeOK
  <2> QED
    BY <1>1, <1>2, <1>4, <1>5, <2>1 DEF TypeOK
<1>7. ResubscribedWhenUp'
  BY <1>2, <1>5 DEF ResubscribedWhenUp
<1>8. SuspendedWhenDown'
  BY <1>2, <1>3, <1>5 DEF SuspendedWhenDown
<1>9. PendingIsOutstanding'
  BY <1>1, <1>2, <1>3, <1>5 DEF PendingIsOutstanding
<1>10. MaskedHasMasker'
  <2> SUFFICES ASSUME NEW q \in Path, status'[q] = "MASKED"
               PROVE  \E r \in Path : StrictlyBelow(q, r) /\ status'[r] \in Masking \cup {"FAILED"}
    BY DEF MaskedHasMasker
  <2>1. PICK r \in Path : StrictlyBelow(q, r) /\ status[r] \in Masking \cup {"FAILED"}
    BY <1>2, <1>3 DEF MaskedHasMasker, is_masked
  <2>2. status'[r] = status[r]
    BY <1>2, <1>3, <2>1 DEF Masking
  <2> QED
    BY <2>1, <2>2
<1>11. ListensHaveAddress' /\ NothingLeftWhenDown'
  BY <1>5 DEF ListensHaveAddress, NothingLeftWhenDown
<1>12. UnlistenIsLast'
  BY <1>2, <1>5 DEF UnlistenIsLast
<1> QED
  BY <1>6, <1>7, <1>8, <1>9, <1>10, <1>11, <1>12

\* The item goes away: what it masked is requested.
LEMMA UnwatchGoneInv ==
    ASSUME ListenInv, NEW p \in Path, NEW n, wc_datasync_unwatch_ex(p, n), Gone(p, n)
    PROVE  ListenInv'
<1> DEFINE T == Tops(p)
           ls == Listens(T)
           msgs == <<Unlisten(p)>> \o ls
<1> USE DEF ListenInv
<1>1. /\ addr' \in [Path -> Addr \cup {NoAddr}]
      /\ addr'[p] = NoAddr
      /\ \A q \in Path : q # p => addr'[q] = addr[q]
  BY DEF wc_datasync_unwatch_ex, TypeOK
<1>2. /\ status' \in [Path -> Statuses]
      /\ status'[p] = "ABSENT"
      /\ \A q \in Path : q # p => status'[q] = IF q \in T THEN Requested ELSE status[q]
  BY RequestedType DEF wc_datasync_unwatch_ex, TypeOK, Statuses
<1>3. /\ ref' \in [Path -> 0..MaxRef]
      /\ ref'[p] = 0
      /\ \A q \in Path : q # p => ref'[q] = ref[q]
  BY BoundsAssumption DEF wc_datasync_unwatch_ex, TypeOK
<1>4. state' = state /\ srv' = srv /\ drops' = drops
  BY DEF wc_datasync_unwatch_ex
<1>5. wire' = IF state = "CONNECTED" THEN wire \o msgs ELSE wire
  BY DEF wc_datasync_unwatch_ex, Send
<1>6. wire \in Seq(Request) /\ addr \in [Path -> Addr \cup {NoAddr}]
  BY DEF TypeOK
<1>7. \A q \in T : q \in Path /\ q # p /\ StrictlyBelow(q, p) /\ status[q] = "MASKED"
  BY DEF Tops, StrictlyBelow
<1> HIDE DEF T
<1>8. /\ ls \in Seq(Request)
      /\ \A q \in T : \E i \in 1..Len(ls) : ls[i] = ListenTo(q, addr[q])
      /\ \A i \in 1..Len(ls) : \E q \in T : ls[i] = ListenTo(q, addr[q])
  BY <1>6, <1>7, ListensOfPaths
<1>9. Unlisten(p) \in Request /\ Unlisten(p).kind = "unlisten"
  BY DEF Unlisten, Request
<1> HIDE DEF ls
<1>10. /\ msgs \in Seq(Request) /\ Len(msgs) >= 1 /\ msgs[1] = Unlisten(p)
       /\ \A q \in T : \E i \in 1..Len(msgs) : msgs[i] = ListenTo(q, addr[q])
       /\ \A i \in 2..Len(msgs) : \E q \in T : msgs[i] = ListenTo(q, addr[q])
  <2>1. /\ msgs \in Seq(Request) /\ Len(msgs) = Len(ls) + 1 /\ msgs[1] = Unlisten(p)
        /\ \A i \in 2..Len(msgs) : i - 1 \in 1..Len(ls) /\ msgs[i] = ls[i - 1]
        /\ \A i \in 1..Len(ls) : msgs[i + 1] = ls[i]
    BY <1>8, <1>9, ConsSeq
  <2> HIDE DEF msgs
  <2>2. Len(ls) \in Nat
    BY <1>8
  <2>3. ASSUME NEW q \in T PROVE \E i \in 1..Len(msgs) : msgs[i] = ListenTo(q, addr[q])
    <3>1. PICK i \in 1..Len(ls) : ls[i] = ListenTo(q, addr[q])
      BY <1>8
    <3>2. i + 1 \in 1..Len(msgs) /\ msgs[i + 1] = ListenTo(q, addr[q])
      BY <2>1, <2>2, <3>1
    <3> QED
      BY <3>2
  <2>4. ASSUME NEW i \in 2..Len(msgs) PROVE \E q \in T : msgs[i] = ListenTo(q, addr[q])
    <3>1. PICK q \in T : ls[i - 1] = ListenTo(q, addr[q])
      BY <1>8, <2>1
    <3> QED
      BY <2>1, <3>1
  <2> QED
    BY <2>1, <2>2, <2>3, <2>4
<1> HIDE DEF msgs
<1>11. wire' \in Seq(Request)
  BY <1>5, <1>6, <1>10, ConcatSeq
<1>12. TypeOK'
  <2>1. \A q \in Path : /\ status'[q] = "ABSENT" <=> ref'[q] = 0
                        /\ status'[q] = "ABSENT" <=> addr'[q] = NoAddr
    <3> TAKE q \in Path
    <3>1. CASE q = p
      BY <1>1, <1>2, <1>3, <3>1
    <3>2. CASE q # p
      BY <1>1, <1>2, <1>3, <1>7, <3>2, RequestedType DEF TypeOK
    <3> QED
      BY <3>1, <3>2
  <2> QED
    BY <1>1, <1>2, <1>3, <1>4, <1>11, <2>1 DEF TypeOK
<1>13. ResubscribedWhenUp'
  BY <1>2, <1>4 DEF ResubscribedWhenUp, Requested
<1>14. SuspendedWhenDown'
  BY <1>2, <1>4 DEF SuspendedWhenDown, Requested
<1>15. PendingIsOutstanding'
  <2> SUFFICES ASSUME NEW q \in Path, status'[q] = "PENDING"
               PROVE  \E i \in 1..Len(wire') :
                         wire'[i].kind = "listen" /\ wire'[i].addr = addr'[q]
    BY <1>11 DEF PendingIsOutstanding
  <2>1. q # p /\ addr'[q] = addr[q]
    BY <1>1, <1>2
  <2>2. CASE q \in T
    <3>1. state = "CONNECTED"
      BY <1>2, <2>1, <2>2 DEF Requested
    <3>2. PICK i \in 1..Len(msgs) : msgs[i] = ListenTo(q, addr[q])
      BY <1>10, <2>2
    <3>3. Len(wire) + i \in 1..Len(wire') /\ wire'[Len(wire) + i] = msgs[i]
      BY <1>5, <1>6, <1>10, <3>1, ConcatSeq
    <3> QED
      BY <2>1, <3>2, <3>3 DEF ListenTo
  <2>3. CASE q \notin T
    <3>1. PICK i \in 1..Len(wire) : wire[i].kind = "listen" /\ wire[i].addr = addr[q]
      BY <1>2, <1>6, <2>1, <2>3 DEF PendingIsOutstanding
    <3>2. i \in 1..Len(wire') /\ wire'[i] = wire[i]
      BY <1>5, <1>6, <1>10, ConcatSeq
    <3> QED
      BY <2>1, <3>1, <3>2
  <2> QED
    BY <2>2, <2>3
<1>16. MaskedHasMasker'
  <2> SUFFICES ASSUME NEW q \in Path, status'[q] = "MASKED"
               PROVE  \E r \in Path : StrictlyBelow(q, r) /\ status'[r] \in Masking \cup {"FAILED"}
    BY DEF MaskedHasMasker
  <2>1. q # p /\ q \notin T /\ status[q] = "MASKED"
    BY <1>2, RequestedType
  <2>2. PICK r \in Path : StrictlyBelow(q, r) /\ status[r] \in Masking \cup {"FAILED"}
    BY <2>1 DEF MaskedHasMasker
  <2>3. CASE r # p
    BY <1>2, <1>7, <2>2, <2>3 DEF Masking
  <2>4. CASE r = p
    <3> DEFINE masked == {s \in Path : StrictlyBelow(s, p) /\ status[s] = "MASKED"}
    <3>1. q \in masked
      BY <2>1, <2>2, <2>4
    <3>2. T = {s \in masked : \A t \in masked : ~StrictlyBelow(s, t)}
      BY DEF T, Tops
    <3>3. PICK s \in masked : StrictlyBelow(q, s)
      BY <2>1, <3>1, <3>2
    <3>4. masked \subseteq Path
      OBVIOUS
    <3> HIDE DEF masked
    <3>5. PICK t \in masked : StrictlyBelow(q, t) /\ \A u \in masked : ~StrictlyBelow(t, u)
      BY <3>3, <3>4, TopmostExists
    <3>6. t \in T
      BY <3>2, <3>5
    <3>7. status'[t] \in Masking
      BY <1>2, <1>7, <3>6, RequestedType DEF Masking
    <3> QED
      BY <1>7, <3>5, <3>6, <3>7
  <2> QED
    BY <2>3, <2>4
<1>17. ListensHaveAddress'
  <2>1. \A i \in 1..Len(wire) : wire[i].kind = "listen" => wire[i].addr # NoAddr
    BY <1>6 DEF ListensHaveAddress
  <2>2. \A q \in T : ListenTo(q, addr[q]).addr # NoAddr
    BY <1>7 DEF TypeOK, ListenTo
  <2>3. Len(wire) \in Nat /\ Len(msgs) \in Nat
    BY <1>6, <1>10
  <2>4. \A i \in 1..Len(msgs) : msgs[i].kind = "listen" => msgs[i].addr # NoAddr
    BY <1>9, <1>10, <2>2, <2>3
  <2>5. \A i \in 1..Len(wire') : wire'[i].kind = "listen" => wire'[i].addr # NoAddr
    BY <1>5, <1>6, <1>10, <2>1, <2>4, AddressKept
  <2> QED
    BY <1>11, <2>5 DEF ListensHaveAddress
<1>18. NothingLeftWhenDown'
  BY <1>4, <1>5 DEF NothingLeftWhenDown
<1>19. UnlistenIsLast'
  <2> SUFFICES ASSUME NEW q \in Path, state = "CONNECTED", status'[q] = "ABSENT"
               PROVE  LastWord(wire', srv', q)
    BY <1>4 DEF UnlistenIsLast
  <2>1. \A i \in 2..Len(msgs) : ~IsListenTo(msgs[i], q)
    <3>1. q \notin T
      BY <1>2, <1>7, RequestedType
    <3>2. \A t \in T : ~IsListenTo(ListenTo(t, addr[t]), q)
      BY <3>1 DEF ListenTo, IsListenTo
    <3> QED
      BY <1>10, <3>2
  <2>2. CASE q = p
    BY <1>4, <1>5, <1>6, <1>10, <2>1, <2>2, LastWordSaid
  <2>3. CASE q # p
    <3>1. status[q] = "ABSENT"
      BY <1>2, <2>3, RequestedType
    <3>2. LastWord(wire, srv, q)
      BY <3>1 DEF UnlistenIsLast
    <3>3. \A i \in 1..Len(msgs) : ~IsListenTo(msgs[i], q)
      BY <1>9, <1>10, <2>1 DEF IsListenTo
    <3> QED
      BY <1>4, <1>5, <1>6, <1>10, <3>2, <3>3, LastWordKept
  <2> QED
    BY <2>2, <2>3
<1> QED
  BY <1>12, <1>13, <1>14, <1>15, <1>16, <1>17, <1>18, <1>19

\* The item stays.
LEMMA UnwatchKeepsInv ==
    ASSUME ListenInv, NEW p \in Path, NEW n, wc_datasync_unwatch_ex(p, n), ~Gone(p, n)
    PROVE  ListenInv'
<1> USE DEF ListenInv
<1>1. UNCHANGED <<state, status, addr, wire, srv, drops>>
  BY DEF wc_datasync_unwatch_ex
<1>2. ref' = [ref EXCEPT ![p] = @ - n] /\ n \in 1..ref[p] /\ ref[p] # n
  BY DEF wc_datasync_unwatch_ex, Gone
<1>3. ref' \in [Path -> 0..MaxRef] /\ \A q \in Path : ref'[q] = 0 <=> ref[q] = 0
  BY <1>2, BoundsAssumption DEF TypeOK
<1>4. TypeOK'
  BY <1>1, <1>3 DEF TypeOK
<1> QED
  BY <1>1, <1>4 DEF ResubscribedWhenUp, SuspendedWhenDown, PendingIsOutstanding,
        MaskedHasMasker, ListensHaveAddress, NothingLeftWhenDown, UnlistenIsLast

\* Attempts and close requests preserve the invariant.
LEMMA CnxInv ==
    ASSUME ListenInv, Attempt \/ CloseRequest
    PROVE  ListenInv'
<1> USE DEF ListenInv
<1>1. UNCHANGED <<status, ref, addr, wire, srv, drops>>
  BY DEF Attempt, CloseRequest
<1>2. \/ state = "DISCONNECTED" /\ state' = "CONNECTING"
      \/ state' = "DISCONNECTING"
  BY DEF Attempt, CloseRequest, Lifecycle!Attempt, Lifecycle!CloseRequest
<1>3. TypeOK'
  BY <1>1, <1>2 DEF TypeOK, Lifecycle!CnxStates
<1>4. ResubscribedWhenUp' /\ SuspendedWhenDown' /\ NothingLeftWhenDown' /\ UnlistenIsLast'
  BY <1>1, <1>2 DEF ResubscribedWhenUp, SuspendedWhenDown, NothingLeftWhenDown, UnlistenIsLast
<1> QED
  BY <1>1, <1>3, <1>4 DEF PendingIsOutstanding, MaskedHasMasker, ListensHaveAddress

\* wc_listen_resume_all() on the handshake preserves the invariant.
LEMMA HandshakeInv ==
    ASSUME ListenInv, Handshake
    PROVE  ListenInv'
<1> DEFINE R == Resumed
           ls == Listens(R)
<1> USE DEF ListenInv
<1>1. state = "CONNECTING" /\ state' = "CONNECTED" /\ UNCHANGED <<ref, addr, srv, drops>>
  BY DEF Handshake, Lifecycle!Handshake
<1>2. /\ status' \in [Path -> Statuses]
      /\ \A q \in Path : status'[q] = IF q \in R THEN "PENDING" ELSE status[q]
  BY DEF Handshake, TypeOK, Statuses
<1>3. wire' = ls
  <2>1. wire = <<>> /\ R \subseteq Path /\ addr \in [Path -> Addr \cup {NoAddr}]
    BY <1>1 DEF NothingLeftWhenDown, Resumed, TypeOK
  <2>2. ls \in Seq(Request)
    BY <2>1, ListensOfPaths
  <2> QED
    BY <2>1, <2>2 DEF Handshake
<1>4. \A q \in Path : q \in R <=> status[q] \in {"REQUIRED", "PENDING"}
  BY DEF Resumed
<1>5. R \subseteq Path /\ addr \in [Path -> Addr \cup {NoAddr}]
  BY DEF Resumed, TypeOK
<1> HIDE DEF R
<1>6. /\ ls \in Seq(Request)
      /\ \A q \in R : \E i \in 1..Len(ls) : ls[i] = ListenTo(q, addr[q])
      /\ \A i \in 1..Len(ls) : \E q \in R : ls[i] = ListenTo(q, addr[q])
  BY <1>5, ListensOfPaths
<1> HIDE DEF ls
<1>7. TypeOK'
  BY <1>1, <1>2, <1>3, <1>4, <1>6 DEF TypeOK, Lifecycle!CnxStates
<1>8. ResubscribedWhenUp' /\ SuspendedWhenDown' /\ NothingLeftWhenDown'
  BY <1>1, <1>2, <1>4 DEF ResubscribedWhenUp, SuspendedWhenDown, NothingLeftWhenDown
<1>9. PendingIsOutstanding'
  <2> SUFFICES ASSUME NEW q \in Path, status'[q] = "PENDING"
               PROVE  \E i \in 1..Len(ls) : ls[i].kind = "listen" /\ ls[i].addr = addr[q]
    BY <1>1, <1>3, <1>6 DEF PendingIsOutstanding
  <2>1. q \in R
    BY <1>2, <1>4
  <2> QED
    <3>1. PICK i \in 1..Len(ls) : ls[i] = ListenTo(q, addr[q])
      BY <1>6, <2>1
    <3>2. ls[i].kind = "listen" /\ ls[i].addr = addr[q]
      BY <3>1 DEF ListenTo
    <3> QED
      BY <3>2
<1>10. MaskedHasMasker'
  BY <1>2, <1>4 DEF MaskedHasMasker, Masking
<1>11. ListensHaveAddress'
  <2>1. \A q \in R : ListenTo(q, addr[q]).addr # NoAddr
    BY <1>4, <1>5 DEF TypeOK, ListenTo
  <2> QED
    BY <1>3, <1>6, <2>1 DEF ListensHaveAddress
<1>12. UnlistenIsLast'
  <2> SUFFICES ASSUME NEW q \in Path, status'[q] = "ABSENT"
               PROVE  LastWord(ls, srv, q)
    BY <1>1, <1>3 DEF UnlistenIsLast
  <2>1. q \notin R
    BY <1>2
  <2>2. \A r \in R : ~IsListenTo(ListenTo(r, addr[r]), q)
    BY <2>1 DEF ListenTo, IsListenTo
  <2>3. \A i \in 1..Len(ls) : ~IsListenTo(ls[i], q)
    BY <1>6, <2>2
  <2>4. q \notin srv
    BY <1>1 DEF NothingLeftWhenDown
  <2> QED
    BY <2>3, <2>4 DEF LastWord
<1> QED
  BY <1>7, <1>8, <1>9, <1>10, <1>11, <1>12

\* wc_listen_suspend_all() on the loss of the connection preserves it.
LEMMA DropInv ==
    ASSUME ListenInv, Drop
    PROVE  ListenInv'
<1> USE DEF ListenInv
<1>1. /\ state' = "DISCONNECTED" /\ wire' = <<>> /\ srv' = {}
      /\ drops' \in 0..MaxDrops
      /\ UNCHANGED <<ref, addr>>
  BY BoundsAssumption DEF Drop, Lifecycle!Drop, TypeOK
<1>2. /\ status' \in [Path -> Statuses]
      /\ \A q \in Path : status'[q] = IF status[q] \in {"ACTIVE", "PENDING"}
                                      THEN "REQUIRED" ELSE status[q]
  BY DEF Drop, Suspended, TypeOK, Statuses
<1>3. TypeOK'
  BY <1>1, <1>2 DEF TypeOK, Lifecycle!CnxStates
<1>4. ResubscribedWhenUp' /\ SuspendedWhenDown' /\ NothingLeftWhenDown' /\ UnlistenIsLast'
  BY <1>1, <1>2 DEF ResubscribedWhenUp, SuspendedWhenDown, NothingLeftWhenDown, UnlistenIsLast
<1>5. PendingIsOutstanding' /\ ListensHaveAddress'
  BY <1>1, <1>2 DEF PendingIsOutstanding, ListensHaveAddress
<1>6. MaskedHasMasker'
  BY <1>2 DEF MaskedHasMasker, Masking
<1> QED
  BY <1>3, <1>4, <1>5, <1>6

\* An answer, applied through its pointer, preserves the invariant.
LEMMA AnswerInv ==
    ASSUME ListenInv, Answer
    PROVE  ListenInv'
<1> DEFINE m == Head(wire)
<1> USE DEF ListenInv
<1>1. /\ state = "CONNECTED" /\ wire # <<>> /\ wire' = Tail(wire)
      /\ UNCHANGED <<state, ref, addr, drops>>
  BY DEF Answer
<1>2. wire \in Seq(Request)
  BY DEF TypeOK
<1>3. /\ m = wire[1] /\ m \in Request
      /\ wire' \in Seq(Request)
      /\ Len(wire) \in Nat \ {0}
      /\ Len(wire') = Len(wire) - 1
      /\ \A i \in 1..Len(wire') : wire'[i] = wire[i + 1]
      /\ \A i \in 2..Len(wire) : wire'[i - 1] = wire[i]
  BY <1>1, <1>2, TailSeq
<1>4. m.path \in Path
  BY <1>3 DEF Request
<1>5. /\ \/ m.kind = "listen" /\ srv' = srv \cup {m.path}
         \/ m.kind = "listen" /\ srv' = srv
         \/ m.kind = "unlisten" /\ srv' = srv \ {m.path}
      /\ status' \in [Path -> Statuses]
      /\ \A q \in Path : \/ status'[q] = status[q] /\ (m.kind = "unlisten" \/ addr[q] # m.addr)
                         \/ /\ m.kind = "listen" /\ addr[q] = m.addr
                            /\ status'[q] \in {"ACTIVE", "FAILED"}
  BY DEF Answer, on_listen_result, TypeOK, Statuses
<1>6. m.kind = "listen" => m.addr # NoAddr
  BY <1>2, <1>3 DEF ListensHaveAddress
<1> HIDE DEF m
<1>7. \A q \in Path : status'[q] = "ABSENT" <=> status[q] = "ABSENT"
  BY <1>5, <1>6 DEF TypeOK
<1>8. TypeOK'
  BY <1>1, <1>3, <1>4, <1>5, <1>7 DEF TypeOK
<1>9. ResubscribedWhenUp' /\ SuspendedWhenDown' /\ NothingLeftWhenDown'
  BY <1>1, <1>5 DEF ResubscribedWhenUp, SuspendedWhenDown, NothingLeftWhenDown
<1>10. PendingIsOutstanding'
  <2> SUFFICES ASSUME NEW q \in Path, status'[q] = "PENDING"
               PROVE  \E i \in 1..Len(wire') :
                         wire'[i].kind = "listen" /\ wire'[i].addr = addr'[q]
    <3>1. DOMAIN wire' = 1..Len(wire')
      BY <1>3
    <3> QED
      BY <3>1 DEF PendingIsOutstanding
  <2>1. status[q] = "PENDING" /\ (m.kind = "unlisten" \/ addr[q] # m.addr)
    BY <1>5
  <2>2. PICK i \in 1..Len(wire) : wire[i].kind = "listen" /\ wire[i].addr = addr[q]
    BY <1>2, <2>1 DEF PendingIsOutstanding
  <2>3. i # 1
    BY <1>3, <2>1, <2>2
  <2>4. i - 1 \in 1..Len(wire') /\ wire'[i - 1] = wire[i]
    BY <1>3, <2>3
  <2> QED
    BY <1>1, <2>2, <2>4
<1>11. MaskedHasMasker'
  BY <1>5 DEF MaskedHasMasker, Masking
<1>12. ListensHaveAddress'
  <2>1. DOMAIN wire' = 1..Len(wire') /\ DOMAIN wire = 1..Len(wire)
    BY <1>2, <1>3
  <2>2. \A i \in 1..Len(wire') : i + 1 \in DOMAIN wire /\ wire'[i] = wire[i + 1]
    BY <1>3, <2>1
  <2> QED
    BY <2>1, <2>2 DEF ListensHaveAddress
<1>13. UnlistenIsLast'
  <2> SUFFICES ASSUME NEW q \in Path, status'[q] = "ABSENT"
               PROVE  LastWord(wire', srv', q)
    BY <1>1 DEF UnlistenIsLast
  <2>1. LastWord(wire, srv, q)
    BY <1>1, <1>7 DEF UnlistenIsLast
  <2>2. /\ q \in srv' => q \in srv \/ IsListenTo(wire[1], q)
        /\ IsUnlistenOf(wire[1], q) => q \notin srv'
    BY <1>3, <1>5 DEF IsListenTo, IsUnlistenOf
  <2> QED
    BY <1>1, <1>2, <2>1, <2>2, LastWordAnswered
<1> QED
  BY <1>8, <1>9, <1>10, <1>11, <1>12, <1>13

-----------------------------------------------------------------------------
(* The theorems                                                            *)

\* The empty registry satisfies the invariant.
LEMMA InitInv == Init => ListenInv
<1> SUFFICES ASSUME Init PROVE ListenInv
  OBVIOUS
<1>1. state = "DISCONNECTED" /\ wire = <<>> /\ srv = {} /\ drops = 0
  BY DEF Init, Lifecycle!Init
<1>2. TypeOK
  BY <1>1, BoundsAssumption DEF Init, TypeOK, Statuses, Lifecycle!CnxStates
<1>3. \A p \in Path : status[p] = "ABSENT"
  BY DEF Init
<1> QED
  BY <1>1, <1>2, <1>3 DEF ListenInv, ResubscribedWhenUp, SuspendedWhenDown,
        PendingIsOutstanding, MaskedHasMasker, ListensHaveAddress, NothingLeftWhenDown,
        UnlistenIsLast

\* Every step preserves the invariant.
LEMMA NextInv == ListenInv /\ [Next]_vars => ListenInv'
<1> SUFFICES ASSUME ListenInv, [Next]_vars PROVE ListenInv'
  OBVIOUS
<1>1. ASSUME NEW p \in Path, WatchAndRequest(p) \/ WatchOnly(p) PROVE ListenInv'
  BY <1>1, WatchAndRequestInv, WatchOnlyInv
<1>2. ASSUME NEW p \in Path, NEW n \in 1..MaxRef, wc_datasync_unwatch_ex(p, n)
      PROVE  ListenInv'
  BY <1>2, UnwatchGoneInv, UnwatchKeepsInv
<1>3. CASE Attempt \/ CloseRequest
  BY <1>3, CnxInv
<1>4. CASE Handshake
  BY <1>4, HandshakeInv
<1>5. CASE Drop
  BY <1>5, DropInv
<1>6. CASE Answer
  BY <1>6, AnswerInv
<1>7. CASE UNCHANGED vars
  BY <1>7 DEF vars, ListenInv, TypeOK, ResubscribedWhenUp, SuspendedWhenDown,
        PendingIsOutstanding, MaskedHasMasker, ListensHaveAddress, NothingLeftWhenDown,
        UnlistenIsLast
<1> QED
  BY <1>1, <1>2, <1>3, <1>4, <1>5, <1>6, <1>7 DEF Next

\* The inductive invariant holds in every reachable state, for every finite set
\* of paths, any server and any loss of connections.
THEOREM RegistryInv == Spec => []ListenInv
BY InitInv, NextInv, PTL DEF Spec

\* Items exist exactly while they are referenced and have an address.
THEOREM TypeCorrect == Spec => []TypeOK
<1>1. ListenInv => TypeOK
  BY DEF ListenInv
<1> QED
  BY <1>1, RegistryInv, PTL

\* After a reconnection nothing is left unrequested.
THEOREM Resubscription == Spec => []ResubscribedWhenUp
<1>1. ListenInv => ResubscribedWhenUp
  BY DEF ListenInv
<1> QED
  BY <1>1, RegistryInv, PTL

\* A lost connection leaves nothing believed to be listened to.
THEOREM Suspension == Spec => []SuspendedWhenDown
<1>1. ListenInv => SuspendedWhenDown
  BY DEF ListenInv
<1> QED
  BY <1>1, RegistryInv, PTL

\* No item waits for an answer that will not come to it.
THEOREM NoLostWait == Spec => []PendingIsOutstanding
<1>1. ListenInv => PendingIsOutstanding
  BY DEF ListenInv
<1> QED
  BY <1>1, RegistryInv, PTL

\* A masked item is masked by an item that was requested.
THEOREM MaskersKnown == Spec => []MaskedHasMasker
<1>1. ListenInv => MaskedHasMasker
  BY DEF ListenInv
<1> QED
  BY <1>1, RegistryInv, PTL

\* The server stops listening to what is not watched any more.
THEOREM Unlistening == Spec => []UnwatchedIsUnlistened
<1>1. ListenInv => UnwatchedIsUnlistened
  <2> SUFFICES ASSUME ListenInv, state = "CONNECTED", wire = <<>>, NEW p \in srv
               PROVE  status[p] # "ABSENT"
    BY DEF UnwatchedIsUnlistened
  <2>1. p \in Path /\ Len(wire) = 0
    BY DEF ListenInv, TypeOK
  <2>2. ~LastWord(wire, srv, p)
    BY <2>1 DEF LastWord
  <2> QED
    BY <2>1, <2>2 DEF ListenInv, UnlistenIsLast
<1> QED
  BY <1>1, RegistryInv, PTL
=============================================================================

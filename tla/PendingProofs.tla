--------------------------- MODULE PendingProofs ----------------------------
(***************************************************************************)
(* Proofs about PendingRequests, for any number of slots and requests, any *)
(* arguments, and any messages of the server.                              *)
(***************************************************************************)
EXTENDS PendingRequests, SequenceTheorems, WellFoundedInduction, TLAPS

-----------------------------------------------------------------------------
(* Numbers                                                                 *)

\* A set of numbers that is not empty has a smallest one.
LEMMA Smallest ==
  ASSUME NEW S, S \subseteq Nat, S # {}
  PROVE  Min(S) \in S /\ \A w \in S : Min(S) <= w
<1>1. PICK u \in S : \A w \in S : ~ (<<w, u>> \in OpToRel(<, Nat))
  BY WFMin, NatLessThanWellFounded
<1>2. \A w \in S : ~ (w < u)
  BY <1>1 DEF OpToRel
<1>3. \A w \in S : u <= w
  BY <1>2
<1>. QED
  BY <1>3 DEF Min

\* One that lies below a bound has a greatest one.
LEMMA Greatest ==
  ASSUME NEW S, NEW n \in Nat, S \subseteq 0..n, S # {}
  PROVE  Max(S) \in S /\ \A w \in S : Max(S) >= w
<1>. DEFINE R == {n - w : w \in S}
<1>1. R \subseteq Nat /\ R # {}
  <2>1. R \subseteq Nat
    OBVIOUS
  <2>2. R # {}
    <3>1. PICK w \in S : TRUE
      OBVIOUS
    <3>. QED
      BY <3>1
  <2>. QED
    BY <2>1, <2>2
<1>2. PICK u \in S : \A w \in S : n - u <= n - w
  <2>1. Min(R) \in R /\ \A w \in R : Min(R) <= w
    BY <1>1, Smallest
  <2>. QED
    BY <2>1
<1>3. \A w \in S : u >= w
  BY <1>2
<1>. QED
  BY <1>3 DEF Max

-----------------------------------------------------------------------------
(* Lists of the table                                                      *)

\* What becomes of the elements when one is taken out and the rest moves up.
LEMMA OneTakenOut ==
  ASSUME NEW n \in Nat, NEW k \in 1..(n + 1), NEW f, NEW g,
         DOMAIN f = 1..(n + 1), DOMAIN g = 1..n,
         \A i \in 1..n : g[i] = f[IF i < k THEN i ELSE i + 1],
         IsInjective(f)
  PROVE  IsInjective(g) /\ \A e : e \in ToSet(g) <=> e \in ToSet(f) /\ e # f[k]
<1>1. IsInjective(g)
  BY DEF IsInjective
<1>2. ToSet(g) \subseteq ToSet(f) \ {f[k]}
  BY DEF IsInjective, ToSet
<1>3. ASSUME NEW m \in 1..(n + 1), m # k
      PROVE  f[m] \in ToSet(g)
  <2>1. CASE m < k
    BY <1>3, <2>1 DEF ToSet
  <2>2. CASE m > k
    <3>1. m - 1 \in DOMAIN g /\ g[m - 1] = f[m]
      BY <1>3, <2>2
    <3>. QED
      BY <3>1 DEF ToSet
  <2>. QED
    BY <1>3, <2>1, <2>2
<1>. QED
  BY <1>1, <1>2, <1>3 DEF ToSet

\* What becomes of them when one comes in front.
LEMMA OneInFront ==
  ASSUME NEW n \in Nat, NEW f, NEW g, NEW e,
         DOMAIN f = 1..n, DOMAIN g = 1..(n + 1),
         \A i \in 1..(n + 1) : g[i] = IF i = 1 THEN e ELSE f[i - 1],
         IsInjective(f), e \notin ToSet(f)
  PROVE  IsInjective(g) /\ ToSet(g) = ToSet(f) \cup {e}
<1>1. \A i \in 1..n : f[i] # e
  BY DEF ToSet
<1>2. IsInjective(g)
  <2>. SUFFICES ASSUME NEW i \in 1..(n + 1), NEW m \in 1..(n + 1), g[i] = g[m]
       PROVE  i = m
    BY DEF IsInjective
  <2>1. CASE i = 1 \/ m = 1
    BY <1>1, <2>1
  <2>2. CASE i # 1 /\ m # 1
    <3>1. i - 1 \in 1..n /\ m - 1 \in 1..n /\ f[i - 1] = f[m - 1]
      BY <2>2
    <3>2. i - 1 = m - 1
      BY <3>1 DEF IsInjective
    <3>. QED
      BY <3>2
  <2>. QED
    BY <2>1, <2>2
<1>3. ToSet(g) \subseteq ToSet(f) \cup {e}
  BY DEF ToSet
<1>4. e \in ToSet(g)
  <2>1. 1 \in DOMAIN g /\ g[1] = e
    OBVIOUS
  <2>. QED
    BY <2>1 DEF ToSet
<1>5. ASSUME NEW m \in 1..n
      PROVE  f[m] \in ToSet(g)
  <2>1. m + 1 \in DOMAIN g /\ g[m + 1] = f[m]
    OBVIOUS
  <2>. QED
    BY <2>1 DEF ToSet
<1>6. ToSet(f) \subseteq ToSet(g)
  BY <1>5 DEF ToSet
<1>. QED
  BY <1>2, <1>3, <1>4, <1>6

\* wc_req_store_pending(): a new number comes to the numbers of a list.
LEMMA StoredList ==
  ASSUME NEW list \in Seq(Nat), IsInjective(list), NEW id \in Nat, id \notin ToSet(list)
  PROVE  /\ Stored(list, id) \in Seq(Nat)
         /\ IsInjective(Stored(list, id))
         /\ ToSet(Stored(list, id)) = ToSet(list) \cup {id}
<1>. DEFINE a == <<id>>
            n == Len(list)
            new == a \o list
<1>1. a \in Seq(Nat) /\ Len(a) = 1 /\ a[1] = id /\ n \in Nat /\ DOMAIN list = 1..n
  OBVIOUS
<1>. HIDE DEF a
<1>2. /\ new \in Seq(Nat)
      /\ Len(new) = Len(a) + Len(list)
      /\ \A i \in 1..Len(a) + Len(list) :
            new[i] = IF i <= Len(a) THEN a[i] ELSE list[i - Len(a)]
  BY <1>1, ConcatProperties
<1>3. DOMAIN new = 1..Len(new)
  BY <1>2
<1>. HIDE DEF new, n
<1>4. DOMAIN new = 1..(n + 1)
  BY <1>1, <1>2, <1>3 DEF n
<1>5. ASSUME NEW i \in 1..(n + 1)
      PROVE  new[i] = IF i = 1 THEN id ELSE list[i - 1]
  <2>1. i \in 1..Len(a) + Len(list) /\ i \in Nat /\ (i <= Len(a) <=> i = 1)
    BY <1>1 DEF n
  <2>. QED
    BY <1>1, <1>2, <2>1
<1>6. IsInjective(new) /\ ToSet(new) = ToSet(list) \cup {id}
  BY <1>1, <1>4, <1>5, OneInFront
<1>. QED
  BY <1>2, <1>6 DEF new, a, Stored

\* wc_datasync_req_get_pending(): an unlinked entry leaves its list, and no other
\* one does.
LEMMA UnlinkedList ==
  ASSUME NEW list \in Seq(Nat), IsInjective(list), NEW k \in 1..Len(list)
  PROVE  /\ Unlinked(list, k) \in Seq(Nat)
         /\ IsInjective(Unlinked(list, k))
         /\ \A e : e \in ToSet(Unlinked(list, k)) <=> e \in ToSet(list) /\ e # list[k]
<1>. DEFINE n == Len(list)
            a == SubSeq(list, 1, k - 1)
            b == SubSeq(list, k + 1, Len(list))
            new == a \o b
<1>1. n \in Nat /\ k \in 1..n /\ DOMAIN list = 1..n
  OBVIOUS
<1>2. /\ a \in Seq(Nat) /\ Len(a) = k - 1
      /\ \A i \in 1..(k - 1) : a[i] = list[i]
  OBVIOUS
<1>3. /\ b \in Seq(Nat) /\ Len(b) = n - k
      /\ \A i \in 1..(n - k) : b[i] = list[i + k]
  OBVIOUS
<1>4. Unlinked(list, k) = new
  BY DEF Unlinked, RemoveAt
<1>. HIDE DEF a, b, n
<1>5. /\ new \in Seq(Nat)
      /\ Len(new) = Len(a) + Len(b)
      /\ \A i \in 1..Len(a) + Len(b) : new[i] = IF i <= Len(a) THEN a[i] ELSE b[i - Len(a)]
  BY <1>2, <1>3, ConcatProperties
<1>6. DOMAIN new = 1..Len(new)
  BY <1>5
<1>. HIDE DEF new
<1>7. Len(a) + Len(b) = n - 1
  BY <1>1, <1>2, <1>3
<1>8. DOMAIN new = 1..(n - 1)
  BY <1>5, <1>6, <1>7
<1>9. ASSUME NEW i \in 1..(n - 1)
      PROVE  new[i] = IF i < k THEN list[i] ELSE list[i + 1]
  <2>1. CASE i < k
    <3>1. i \in 1..(k - 1) /\ i <= Len(a)
      BY <1>1, <1>2, <2>1
    <3>2. new[i] = a[i]
      BY <1>5, <1>7, <3>1
    <3>. QED
      BY <1>2, <2>1, <3>1, <3>2
  <2>2. CASE i >= k
    <3>1. i - Len(a) \in 1..(n - k) /\ ~(i <= Len(a)) /\ (i - Len(a)) + k = i + 1
      BY <1>1, <1>2, <2>2
    <3>2. new[i] = b[i - Len(a)]
      BY <1>5, <1>7, <3>1
    <3>3. b[i - Len(a)] = list[(i - Len(a)) + k]
      BY <1>3, <3>1
    <3>4. ~(i < k)
      BY <1>1, <2>2
    <3>. QED
      BY <3>1, <3>2, <3>3, <3>4
  <2>3. i < k \/ i >= k
    BY <1>1
  <2>. QED
    BY <2>1, <2>2, <2>3
<1>10. IsInjective(new) /\ \A e : e \in ToSet(new) <=> e \in ToSet(list) /\ e # list[k]
  <2>1. n - 1 \in Nat /\ n = (n - 1) + 1
    BY <1>1
  <2>2. \A i \in 1..(n - 1) : new[i] = list[IF i < k THEN i ELSE i + 1]
    BY <1>1, <1>9
  <2>. DEFINE m == n - 1
  <2>3. m \in Nat /\ k \in 1..(m + 1) /\ DOMAIN list = 1..(m + 1) /\ DOMAIN new = 1..m
    BY <1>1, <1>8, <2>1
  <2>4. \A i \in 1..m : new[i] = list[IF i < k THEN i ELSE i + 1]
    BY <2>2
  <2>. HIDE DEF m
  <2>. QED
    BY <2>3, <2>4, OneTakenOut
<1>. QED
  BY <1>4, <1>5, <1>10

-----------------------------------------------------------------------------
(* Parsing                                                                 *)

\* What a message holds once its fields have been read: nothing but these
\* fields; and a field that is readable, like all before it, has its value.
LEMMA ReadFields ==
  ASSUME NEW type, NEW fields, Len(fields) \in Nat
  PROVE  /\ Read(type, fields).type = type
         /\ Read(type, fields).ok => \A i \in 1..Len(fields) : Readable(fields[i])
         /\ \A name \in DOMAIN Read(type, fields).u : \E i \in 1..Len(fields) : name = fields[i].name
         /\ \A i \in 1..Len(fields) :
                /\ \A h \in 1..i : Readable(fields[h])
                /\ \A h \in 1..Len(fields) : fields[h].name = fields[i].name => h = i
                => Read(type, fields).u[fields[i].name] = fields[i].j.object[fields[i].key]
<1>. DEFINE len == Len(fields)
            S == {m \in 0..len : \A i \in 1..m : Readable(fields[i])}
            n == Max(S)
            Value(i) == fields[i].j.object[fields[i].key]
            u == [name \in {fields[i].name : i \in 1..n} |->
                    Value(CHOOSE i \in 1..n : fields[i].name = name)]
            all == n = len
<1>1. n \in S /\ \A m \in S : n >= m
  <2>1. 0 \in S
    OBVIOUS
  <2>2. len \in Nat /\ S \subseteq 0..len /\ S # {}
    BY <2>1
  <2>. HIDE DEF S, len
  <2>. QED
    BY <2>2, Greatest
<1>2. Read(type, fields) = [ok |-> all, type |-> type, u |-> u]
  BY DEF Read, Message
<1>. HIDE DEF n, u, all
<1>3. n \in 0..len /\ \A i \in 1..n : Readable(fields[i])
  BY <1>1
<1>4. Read(type, fields).ok => \A i \in 1..len : Readable(fields[i])
  <2>1. Read(type, fields).ok = all
    BY <1>2
  <2>2. all => \A i \in 1..len : Readable(fields[i])
    BY <1>3 DEF all
  <2>. HIDE DEF len
  <2>. QED
    BY <2>1, <2>2, Zenon
<1>5. \A name \in DOMAIN u : \E i \in 1..len : name = fields[i].name
  BY <1>3 DEF u
<1>6. ASSUME NEW i \in 1..len, \A h \in 1..i : Readable(fields[h]),
             \A h \in 1..len : fields[h].name = fields[i].name => h = i
      PROVE  u[fields[i].name] = Value(i)
  <2>1. i \in S
    BY <1>6
  <2>2. i \in 1..n /\ \A h \in 1..n : h \in 1..len
    BY <1>1, <1>3, <2>1
  <2>3. (CHOOSE h \in 1..n : fields[h].name = fields[i].name) = i
    BY <1>6, <2>2
  <2>4. fields[i].name \in {fields[h].name : h \in 1..n}
    BY <2>2
  <2>. QED
    BY <2>3, <2>4 DEF u
<1>. QED
  BY <1>2, <1>4, <1>5, <1>6

\* The fields of an action after its number, and their release.
LEMMA ActionFieldNames ==
  ASSUME NEW type \in ActionType, NEW j
  PROVE  LET fields == <<Field("r", j, "r", "int")>> \o ActionFields(type, j)
         IN  /\ Len(fields) \in Nat \ {0}
             /\ fields[1] = Field("r", j, "r", "int")
             /\ \A i \in 2..Len(fields) : fields[i].name \in msg_free(<<"DATA", "ACTION", type>>)
<1>. DEFINE b == Member(j, "b")
            hash == Field("hash", b, "h", "string")
            path == Field("path", b, "p", "string")
            data == Field("data", b, "d", "any")
            pathj == Field("path", j, "p", "string")
            dataj == Field("data", j, "d", "any")
            cred == Field("cred", j, "cred", "string")
            r == Field("r", j, "r", "int")
            free == msg_free(<<"DATA", "ACTION", type>>)
            S == {hash, path, data, pathj, dataj, cred, r}
            T == {f \in S : f.name \in free}
            rest == ActionFields(type, j)
<1>1. /\ hash.name = "hash" /\ path.name = "path" /\ data.name = "data"
      /\ pathj.name = "path" /\ dataj.name = "data" /\ cred.name = "cred"
  BY DEF Field
<1>2. /\ type = "PUT" => free = {"path", "hash", "data"}
      /\ type \in {"MERGE", "ON_DISCONNECT_PUT", "ON_DISCONNECT_MERGE"} => free = {"path", "data"}
      /\ type \in {"LISTEN", "UNLISTEN", "ON_DISCONNECT_CANCEL"} => free = {"path"}
      /\ type = "AUTHENTICATE" => free = {"cred"}
  BY DEF msg_free, ActionType
<1>3. \/ /\ type = "PUT"
         /\ rest = (IF Readable(hash) THEN <<hash>> ELSE <<>>) \o <<path, data>>
      \/ /\ type \in {"MERGE", "ON_DISCONNECT_PUT", "ON_DISCONNECT_MERGE"}
         /\ rest = <<pathj, dataj>>
      \/ /\ type \in {"LISTEN", "UNLISTEN", "ON_DISCONNECT_CANCEL"}
         /\ rest = <<pathj>>
      \/ type = "AUTHENTICATE" /\ rest = <<cred>>
      \/ type = "UNAUTHENTICATE" /\ rest = <<>>
  BY DEF ActionFields, ActionType
<1>. HIDE DEF hash, path, data, pathj, dataj, cred, r, free, rest
<1>4. rest \in Seq(T)
  <2>1. CASE type = "PUT"
    <3>1. hash \in T /\ path \in T /\ data \in T
      BY <1>1, <1>2, <2>1
    <3>2. rest = (IF Readable(hash) THEN <<hash>> ELSE <<>>) \o <<path, data>>
      BY <1>3, <2>1
    <3>. HIDE DEF T
    <3>. QED
      BY <3>1, <3>2
  <2>2. CASE type \in {"MERGE", "ON_DISCONNECT_PUT", "ON_DISCONNECT_MERGE"}
    <3>1. pathj \in T /\ dataj \in T
      BY <1>1, <1>2, <2>2
    <3>2. rest = <<pathj, dataj>>
      BY <1>3, <2>2
    <3>. HIDE DEF T
    <3>. QED
      BY <3>1, <3>2
  <2>3. CASE type \in {"LISTEN", "UNLISTEN", "ON_DISCONNECT_CANCEL"}
    <3>1. pathj \in T
      BY <1>1, <1>2, <2>3
    <3>2. rest = <<pathj>>
      BY <1>3, <2>3
    <3>. HIDE DEF T
    <3>. QED
      BY <3>1, <3>2
  <2>4. CASE type = "AUTHENTICATE"
    <3>1. cred \in T
      BY <1>1, <1>2, <2>4
    <3>2. rest = <<cred>>
      BY <1>3, <2>4
    <3>. HIDE DEF T
    <3>. QED
      BY <3>1, <3>2
  <2>5. CASE type = "UNAUTHENTICATE"
    BY <1>3, <2>5
  <2>. QED
    BY <2>1, <2>2, <2>3, <2>4, <2>5 DEF ActionType
<1>. DEFINE fields == <<r>> \o rest
<1>5. <<r>> \in Seq(S) /\ Len(<<r>>) = 1 /\ <<r>>[1] = r /\ rest \in Seq(S) /\ T \subseteq S
  BY <1>4
<1>6. /\ fields \in Seq(S)
      /\ Len(fields) = 1 + Len(rest)
      /\ \A i \in 1..1 + Len(rest) : fields[i] = IF i <= 1 THEN <<r>>[i] ELSE rest[i - 1]
  BY <1>5, ConcatProperties
<1>7. Len(rest) \in Nat /\ \A i \in 1..Len(rest) : rest[i] \in T
  BY <1>4
<1>. HIDE DEF fields
<1>8. Len(fields) \in Nat \ {0} /\ fields[1] = r
  BY <1>5, <1>6, <1>7
<1>9. \A i \in 2..Len(fields) : fields[i].name \in free
  <2>. SUFFICES ASSUME NEW i \in 2..Len(fields)
       PROVE  fields[i].name \in free
    OBVIOUS
  <2>1. i - 1 \in 1..Len(rest) /\ i \in 1..1 + Len(rest) /\ ~(i <= 1)
    BY <1>6, <1>7
  <2>2. fields[i] = rest[i - 1]
    BY <1>6, <2>1
  <2>. QED
    BY <1>7, <2>1, <2>2
<1>. QED
  BY <1>8, <1>9 DEF fields, r, rest, free

\* wc_datasync_msg_free() frees every text among the fields of a message of its
\* type, whatever JSON it was read from.
LEMMA AllFreed ==
  ASSUME NEW j
  PROVE  LET msg == parse_msg_json(j)
         IN  msg.ok => DOMAIN msg.u \ {"r", "ts"} \subseteq msg_free(msg.type)
<1>. DEFINE Clean(msg) == msg.ok => DOMAIN msg.u \ {"r", "ts"} \subseteq msg_free(msg.type)
<1>1. ASSUME NEW type, NEW fields, Len(fields) \in Nat,
             \A i \in 1..Len(fields) : fields[i].name \in {"r", "ts"} \cup msg_free(type)
      PROVE  Clean(Read(type, fields))
  <2>1. DOMAIN Read(type, fields).u \subseteq {"r", "ts"} \cup msg_free(type)
    BY <1>1, ReadFields
  <2>2. Read(type, fields).type = type
    BY <1>1, ReadFields
  <2>. QED
    BY <2>1, <2>2
<1>2. ASSUME NEW type
      PROVE  Clean(Refused(type))
  BY DEF Refused, Message
<1>. HIDE DEF Clean
<1>3. ASSUME NEW m
      PROVE  Clean(parse_ctrl_msg(m))
  <2>. DEFINE d == Member(m, "d")
              hs == <<Field("ts", d, "ts", "int"), Field("server", d, "h", "string"),
                      Field("version", d, "v", "string")>>
              sd == <<Field("shutdown_reason", m, "d", "string")>>
  <2>1. Clean(Read(<<"CTRL", "HANDSHAKE">>, hs))
    <3>1. msg_free(<<"CTRL", "HANDSHAKE">>) = {"server", "version"}
      BY DEF msg_free
    <3>2. Len(hs) = 3 /\ hs[1].name = "ts" /\ hs[2].name = "server" /\ hs[3].name = "version"
      BY DEF Field
    <3>. HIDE DEF hs
    <3>. QED
      BY <1>1, <3>1, <3>2
  <2>2. Clean(Read(<<"CTRL", "CONNECTION_SHUTDOWN">>, sd))
    <3>1. msg_free(<<"CTRL", "CONNECTION_SHUTDOWN">>) = {"shutdown_reason"}
      BY DEF msg_free
    <3>2. Len(sd) = 1 /\ sd[1].name = "shutdown_reason"
      BY DEF Field
    <3>. HIDE DEF sd
    <3>. QED
      BY <1>1, <3>1, <3>2
  <2>3. Clean(Refused(<<"CTRL">>))
    BY <1>2
  <2>. QED
    BY <2>1, <2>2, <2>3 DEF parse_ctrl_msg
<1>4. ASSUME NEW m
      PROVE  Clean(parse_response(m))
  <2>. DEFINE b == Member(m, "b")
              fields == <<Field("r", m, "r", "int"), Field("status", b, "s", "string"),
                          Field("data", b, "d", "any")>>
  <2>1. msg_free(<<"DATA", "RESPONSE">>) = {"status", "data"}
    BY DEF msg_free
  <2>2. /\ Len(fields) = 3
        /\ fields[1].name = "r" /\ fields[2].name = "status" /\ fields[3].name = "data"
    BY DEF Field
  <2>3. parse_response(m) = Read(<<"DATA", "RESPONSE">>, fields)
    BY DEF parse_response
  <2>. HIDE DEF fields
  <2>. QED
    BY <1>1, <2>1, <2>2, <2>3
<1>5. ASSUME NEW m
      PROVE  Clean(parse_push(m))
  <2>. DEFINE b == Member(m, "b")
              path == Field("path", b, "p", "string")
              revoked == <<Field("status", b, "s", "string"), Field("reason", b, "d", "string")>>
              one == <<path>>
              update == <<path, Field("data", b, "d", "any")>>
  <2>1. /\ msg_free(<<"DATA", "PUSH", "AUTH_REVOKED">>) = {"reason", "status"}
        /\ msg_free(<<"DATA", "PUSH", "LISTEN_REVOKED">>) = {"path"}
        /\ msg_free(<<"DATA", "PUSH", "UPDATE_PUT">>) = {"path", "data"}
        /\ msg_free(<<"DATA", "PUSH", "UPDATE_MERGE">>) = {"path", "data"}
    BY DEF msg_free
  <2>2. /\ Len(revoked) = 2 /\ revoked[1].name = "status" /\ revoked[2].name = "reason"
        /\ Len(one) = 1 /\ one[1].name = "path"
        /\ Len(update) = 2 /\ update[1].name = "path" /\ update[2].name = "data"
    BY DEF Field
  <2>3. parse_push(m) \in {Read(<<"DATA", "PUSH", "AUTH_REVOKED">>, revoked),
                           Read(<<"DATA", "PUSH", "LISTEN_REVOKED">>, one),
                           Read(<<"DATA", "PUSH", "UPDATE_PUT">>, update),
                           Read(<<"DATA", "PUSH", "UPDATE_MERGE">>, update),
                           Refused(<<"DATA", "PUSH">>)}
    BY DEF parse_push
  <2>. HIDE DEF revoked, one, update
  <2>4. Clean(Read(<<"DATA", "PUSH", "AUTH_REVOKED">>, revoked))
    BY <1>1, <2>1, <2>2
  <2>5. Clean(Read(<<"DATA", "PUSH", "LISTEN_REVOKED">>, one))
    BY <1>1, <2>1, <2>2
  <2>6. Clean(Read(<<"DATA", "PUSH", "UPDATE_PUT">>, update))
    BY <1>1, <2>1, <2>2
  <2>7. Clean(Read(<<"DATA", "PUSH", "UPDATE_MERGE">>, update))
    BY <1>1, <2>1, <2>2
  <2>. QED
    BY <1>2, <2>3, <2>4, <2>5, <2>6, <2>7
<1>6. ASSUME NEW m
      PROVE  Clean(parse_action(m))
  <2>. DEFINE r == <<Field("r", m, "r", "int")>>
              codes == {c \in DOMAIN ActionOf : IsStr(m, "a", c)}
              type == ActionOf[CHOOSE c \in codes : TRUE]
              fields == r \o ActionFields(type, m)
              failed == [Read(<<"DATA", "ACTION">>, r) EXCEPT !.ok = FALSE]
  <2>1. CASE parse_action(m) = failed
    BY <2>1 DEF Clean, Read, Message
  <2>2. CASE parse_action(m) = Read(<<"DATA", "ACTION", type>>, fields) /\ codes # {}
    <3>1. type \in ActionType
      BY <2>2 DEF ActionOf, ActionType
    <3>. HIDE DEF type
    <3>2. /\ Len(fields) \in Nat \ {0} /\ fields[1] = Field("r", m, "r", "int")
          /\ \A i \in 2..Len(fields) : fields[i].name \in msg_free(<<"DATA", "ACTION", type>>)
      BY <3>1, ActionFieldNames
    <3>3. fields[1].name = "r"
      BY <3>2 DEF Field
    <3>. HIDE DEF fields
    <3>4. \A i \in 1..Len(fields) : fields[i].name \in {"r", "ts"} \cup msg_free(<<"DATA", "ACTION", type>>)
      BY <3>2, <3>3
    <3>. QED
      BY <1>1, <2>2, <3>2, <3>4
  <2>. QED
    BY <2>1, <2>2 DEF parse_action
<1>7. ASSUME NEW m
      PROVE  Clean(parse_data_msg(m))
  BY <1>2, <1>4, <1>5, <1>6 DEF parse_data_msg
<1>8. Clean(parse_msg_json(j))
  BY <1>2, <1>3, <1>7 DEF parse_msg_json
<1>. QED
  BY <1>8 DEF Clean

\* The parser finds in the JSON of an action its type and its number.
LEMMA ActionParsed ==
  ASSUME NEW type \in ActionType, NEW n, NEW req
  PROVE  LET msg == parse_msg_json(msg_to_json(type, n, req))
         IN  msg.type = <<"DATA", "ACTION", type>> /\ msg.u.r = Long(n)
<1>. DEFINE d == Obj([r |-> Long(n), a |-> Str(ActionCode[type]), b |-> ActionBody(type, req)])
            j == Obj([t |-> Str("d"), d |-> d])
            f == Field("r", d, "r", "int")
            fields == <<f>> \o ActionFields(type, d)
            msg == Read(<<"DATA", "ACTION", type>>, fields)
<1>1. msg_to_json(type, n, req) = j
  BY DEF msg_to_json
<1>2. /\ Has(d, "a") /\ Has(d, "r") /\ Has(d, "b")
      /\ d.object["r"] = Long(n) /\ d.object["a"] = Str(ActionCode[type])
  BY DEF Has, Is, Obj
<1>. HIDE DEF d
<1>3. ~IsStr(j, "t", "c") /\ IsStr(j, "t", "d") /\ Member(j, "d") = d
  BY DEF IsStr, Has, Is, Obj, Str, Member
<1>. HIDE DEF j
<1>4. parse_msg_json(j) = parse_action(d)
  BY <1>2, <1>3 DEF parse_msg_json, parse_data_msg
<1>5. Readable(f)
  BY <1>2 DEF Readable, Field, Long, Is
<1>6. ActionCode[type] \in DOMAIN ActionOf /\ ActionOf[ActionCode[type]] = type
  BY DEF ActionType, ActionCode, ActionOf
<1>7. {c \in DOMAIN ActionOf : IsStr(d, "a", c)} = {ActionCode[type]}
  BY <1>2, <1>6 DEF IsStr, Is, Str
<1>8. parse_action(d) = msg
  BY <1>5, <1>6, <1>7 DEF parse_action
<1>9. /\ Len(fields) \in Nat \ {0} /\ fields[1] = f
      /\ \A i \in 2..Len(fields) : fields[i].name \in msg_free(<<"DATA", "ACTION", type>>)
  BY ActionFieldNames
<1>10. "r" \notin msg_free(<<"DATA", "ACTION", type>>)
  BY DEF msg_free, ActionType
<1>11. f.name = "r" /\ f.j = d /\ f.key = "r"
  BY DEF Field
<1>. HIDE DEF f, fields
<1>12. \A h \in 1..Len(fields) : fields[h].name = "r" => h = 1
  BY <1>9, <1>10
<1>13. \A h \in 1..1 : Readable(fields[h])
  BY <1>5, <1>9
<1>14. 1 \in 1..Len(fields)
  BY <1>9
<1>15. msg.u["r"] = d.object["r"]
  BY <1>9, <1>11, <1>12, <1>13, <1>14, ReadFields
<1>16. msg.type = <<"DATA", "ACTION", type>>
  BY <1>9, ReadFields
<1>. QED
  BY <1>1, <1>2, <1>4, <1>8, <1>15, <1>16

\* An answer to a request has its number, as far as the parser is concerned.
LEMMA AnswerParsed ==
  ASSUME NEW id, NEW answer \in Answers(id)
  PROVE  parse_msg_json(answer).u.r = Long(id)
<1>1. PICK b : answer = Obj([t |-> Str("d"), d |-> Obj([r |-> Long(id), b |-> b])])
  BY DEF Answers
<1>. DEFINE d == Obj([r |-> Long(id), b |-> b])
            f == Field("r", d, "r", "int")
            c == Member(d, "b")
            fields == <<f, Field("status", c, "s", "string"), Field("data", c, "d", "any")>>
            msg == Read(<<"DATA", "RESPONSE">>, fields)
<1>2. ~Has(d, "a") /\ Has(d, "r") /\ d.object["r"] = Long(id)
  BY DEF Has, Is, Obj
<1>. HIDE DEF d
<1>3. ~IsStr(answer, "t", "c") /\ IsStr(answer, "t", "d") /\ Member(answer, "d") = d
  BY <1>1 DEF IsStr, Has, Is, Obj, Str, Member, d
<1>4. parse_msg_json(answer) = parse_response(d)
  BY <1>2, <1>3 DEF parse_msg_json, parse_data_msg
<1>5. parse_response(d) = msg
  BY DEF parse_response
<1>6. /\ Len(fields) = 3 /\ fields[1] = f
      /\ f.name = "r" /\ f.j = d /\ f.key = "r" /\ f.type = "int"
      /\ fields[2].name = "status" /\ fields[3].name = "data"
  BY DEF Field
<1>. HIDE DEF f, fields
<1>7. Readable(f)
  BY <1>2, <1>6 DEF Readable, Long, Is
<1>8. \A h \in 1..1 : Readable(fields[h])
  BY <1>6, <1>7
<1>9. \A h \in 1..Len(fields) : fields[h].name = "r" => h = 1
  BY <1>6
<1>10. msg.u["r"] = d.object["r"]
  BY <1>6, <1>8, <1>9, ReadFields
<1>. QED
  BY <1>2, <1>4, <1>5, <1>10

-----------------------------------------------------------------------------
(* The table                                                               *)

\* The lists of the table: entries without repetition, each in the list of its
\* number.
Lists ==
    /\ table \in [0..Slots - 1 -> Seq(Nat)]
    /\ \A s \in 0..Slots - 1 :
        /\ IsInjective(table[s])
        /\ \A e \in ToSet(table[s]) : pending_req_hash(e) = s

\* pending_req_hash() yields a slot of the table.
LEMMA HashInRange ==
  ASSUME NEW id \in Nat
  PROVE  pending_req_hash(id) \in 0..Slots - 1
BY SlotsAssumption DEF pending_req_hash

\* The entries, one by one.
LEMMA EntryOf ==
  ASSUME Lists
  PROVE  \A e : e \in Entries <=> \E s \in 0..Slots - 1 : e \in ToSet(table[s])
BY DEF Lists, Entries

\* A new entry is one more, and disturbs no other.
LEMMA StoreStep ==
  ASSUME Lists, NEW id \in Nat, id \notin Entries,
         table' = [table EXCEPT ![pending_req_hash(id)] = Stored(@, id)]
  PROVE  Lists' /\ \A e : e \in Entries' <=> e \in Entries \/ e = id
<1>. DEFINE s == pending_req_hash(id)
<1>1. s \in 0..Slots - 1
  BY HashInRange
<1>2. table[s] \in Seq(Nat) /\ IsInjective(table[s]) /\ id \notin ToSet(table[s])
  BY <1>1, EntryOf DEF Lists
<1>3. /\ Stored(table[s], id) \in Seq(Nat)
      /\ IsInjective(Stored(table[s], id))
      /\ ToSet(Stored(table[s], id)) = ToSet(table[s]) \cup {id}
  BY <1>2, StoredList
<1>4. \A q \in 0..Slots - 1 : table'[q] = IF q = s THEN Stored(table[s], id) ELSE table[q]
  BY <1>1 DEF Lists
<1>5. Lists'
  <2>1. table' \in [0..Slots - 1 -> Seq(Nat)]
    BY <1>1, <1>3 DEF Lists
  <2>2. ASSUME NEW q \in 0..Slots - 1
        PROVE  IsInjective(table'[q]) /\ \A e \in ToSet(table'[q]) : pending_req_hash(e) = q
    <3>1. CASE q = s
      BY <1>3, <1>4, <3>1 DEF Lists
    <3>2. CASE q # s
      BY <1>4, <3>2 DEF Lists
    <3>. QED
      BY <3>1, <3>2
  <2>. QED
    BY <2>1, <2>2 DEF Lists
<1>6. \A e : e \in Entries' <=> \E q \in 0..Slots - 1 : e \in ToSet(table'[q])
  BY <1>5 DEF Lists, Entries
<1>7. \A q \in 0..Slots - 1 : \A e :
        e \in ToSet(table'[q]) <=> e \in ToSet(table[q]) \/ (q = s /\ e = id)
  BY <1>3, <1>4
<1>. QED
  BY <1>1, <1>5, <1>6, <1>7, EntryOf

\* An entry that is unlinked is gone, and all others stay.
LEMMA UnlinkStep ==
  ASSUME Lists, NEW id \in Nat,
         NEW k \in DOMAIN table[pending_req_hash(id)],
         table[pending_req_hash(id)][k] = id,
         table' = [table EXCEPT ![pending_req_hash(id)] = Unlinked(@, k)]
  PROVE  Lists' /\ \A e : e \in Entries' <=> e \in Entries /\ e # id
<1>. DEFINE s == pending_req_hash(id)
<1>1. s \in 0..Slots - 1
  BY HashInRange
<1>2. table[s] \in Seq(Nat) /\ IsInjective(table[s]) /\ k \in 1..Len(table[s])
  BY <1>1 DEF Lists
<1>3. /\ Unlinked(table[s], k) \in Seq(Nat)
      /\ IsInjective(Unlinked(table[s], k))
      /\ \A e : e \in ToSet(Unlinked(table[s], k)) <=> e \in ToSet(table[s]) /\ e # id
  BY <1>2, UnlinkedList
<1>4. \A q \in 0..Slots - 1 : table'[q] = IF q = s THEN Unlinked(table[s], k) ELSE table[q]
  BY <1>1 DEF Lists
<1>5. Lists'
  <2>1. table' \in [0..Slots - 1 -> Seq(Nat)]
    BY <1>1, <1>3 DEF Lists
  <2>2. ASSUME NEW q \in 0..Slots - 1
        PROVE  IsInjective(table'[q]) /\ \A e \in ToSet(table'[q]) : pending_req_hash(e) = q
    <3>1. CASE q = s
      BY <1>3, <1>4, <3>1 DEF Lists
    <3>2. CASE q # s
      BY <1>4, <3>2 DEF Lists
    <3>. QED
      BY <3>1, <3>2
  <2>. QED
    BY <2>1, <2>2 DEF Lists
<1>6. \A e : e \in Entries' <=> \E q \in 0..Slots - 1 : e \in ToSet(table'[q])
  BY <1>5 DEF Lists, Entries
<1>7. \A q \in 0..Slots - 1 : \A e :
        e \in ToSet(table'[q]) <=> e \in ToSet(table[q]) /\ ~(q = s /\ e = id)
  BY <1>3, <1>4
<1>8. \A q \in 0..Slots - 1 : id \in ToSet(table[q]) => q = s
  BY DEF Lists
<1>. QED
  BY <1>1, <1>5, <1>6, <1>7, <1>8, EntryOf

-----------------------------------------------------------------------------
(* The inductive invariant                                                 *)

\* No number is on the wire twice, and what waits for an answer is not lost; so
\* an answer settles one request, and takes out the entry of no other.
TableInv ==
    /\ Lists
    /\ up \in BOOLEAN /\ alive \in BOOLEAN
    /\ last \in 0..MaxReq
    /\ Waiting \cup answered \cup lost \cup unstored \subseteq 1..last
    /\ alive => Entries = (Waiting \cup lost) \ unstored
    /\ \A i, j \in wire : Number(i) = Number(j) => i = j
    /\ Waiting \cap lost = {}

\* The state of the generator of push ids.
PushInv ==
    /\ pids \in [last_time : 0..MaxTime, high : 0..HighMod - 1, low : 0..LowMod - 1]
    /\ time \in 1..MaxTime

\* The number is found in the JSON of a request.
LEMMA NumberOfRequest ==
  ASSUME NEW type, NEW id, NEW req
  PROVE  Number(msg_to_json(type, id, req)) = id
BY DEF Number, msg_to_json, Obj, Long

\* A request is stored before it is sent.
LEMMA SubmitKeeps ==
  ASSUME TableInv, NEW type, NEW req, Submit(type, req)
  PROVE  TableInv'
<1>. DEFINE id == last + 1
            j == msg_to_json(type, id, req)
<1>1. /\ alive /\ last < MaxReq /\ last' = id
      /\ \/ table' = [table EXCEPT ![pending_req_hash(id)] = Stored(@, id)] /\ UNCHANGED unstored
         \/ unstored' = unstored \cup {id} /\ UNCHANGED table
      /\ \/ wire' = wire \cup {j} /\ UNCHANGED lost
         \/ lost' = lost \cup {id} /\ UNCHANGED wire
      /\ UNCHANGED <<up, alive, answered>>
  BY DEF Submit, next_reqnum, send_msg, cnx
<1>2. last \in Nat /\ id \in Nat /\ MaxReq \in Nat /\ id \in 1..last'
  BY <1>1, SlotsAssumption DEF TableInv
<1>3. \A e \in 1..last : e \in 1..last' /\ e # id
  BY <1>1, <1>2
<1>4. /\ id \notin Waiting /\ id \notin lost /\ id \notin unstored
      /\ Entries = (Waiting \cup lost) \ unstored
  BY <1>1, <1>3 DEF TableInv
<1>5. /\ Lists'
      /\ \/ (\A e : e \in Entries' <=> e \in Entries \/ e = id) /\ unstored' = unstored
         \/ (\A e : e \in Entries' <=> e \in Entries) /\ unstored' = unstored \cup {id}
  <2>1. CASE table' = [table EXCEPT ![pending_req_hash(id)] = Stored(@, id)] /\ UNCHANGED unstored
    <3>1. id \notin Entries
      BY <1>4
    <3>. QED
      BY <1>2, <2>1, <3>1, StoreStep DEF TableInv
  <2>2. CASE unstored' = unstored \cup {id} /\ UNCHANGED table
    BY <2>2 DEF TableInv, Lists, Entries
  <2>. QED
    BY <1>1, <2>1, <2>2
<1>6. Number(j) = id
  BY NumberOfRequest
<1>. HIDE DEF j, id
<1>7. \/ (\A e : e \in Waiting' <=> e \in Waiting \/ e = id) /\ lost' = lost
      \/ (\A e : e \in Waiting' <=> e \in Waiting) /\ lost' = lost \cup {id}
  BY <1>1, <1>6 DEF Waiting
<1>8. \A i, k \in wire' : Number(i) = Number(k) => i = k
  BY <1>1, <1>4, <1>6 DEF TableInv, Waiting
<1>9. alive' => Entries' = (Waiting' \cup lost') \ unstored'
  BY <1>4, <1>5, <1>7
<1>10. Waiting' \cup answered' \cup lost' \cup unstored' \subseteq 1..last'
  BY <1>1, <1>2, <1>3, <1>5, <1>7 DEF TableInv
<1>11. Waiting' \cap lost' = {}
  BY <1>4, <1>7 DEF TableInv
<1>12. last' \in 0..MaxReq
  BY <1>1, <1>2 DEF id
<1>. QED
  BY <1>1, <1>5, <1>8, <1>9, <1>10, <1>11, <1>12 DEF TableInv

\* An answer takes out the entry of its request and settles it; one that the
\* parser refuses leaves the entry where it is.
LEMMA RespondKeeps ==
  ASSUME TableInv, NEW id \in Id, Respond(id)
  PROVE  TableInv'
<1>1. PICK j \in wire, answer \in Answers(id) : Number(j) = id /\ Receive(j, answer)
  BY DEF Respond
<1>. DEFINE msg == Parsed[answer]
            s == pending_req_hash(id)
            found == {i \in DOMAIN table[s] : table[s][i] = id}
<1>2. msg = parse_msg_json(answer) /\ msg.u.r.int = id
  <2>1. msg = parse_msg_json(answer)
    BY DEF Parsed
  <2>2. parse_msg_json(answer).u.r = Long(id)
    BY AnswerParsed
  <2>. QED
    BY <2>1, <2>2 DEF Long
<1>. HIDE DEF msg
<1>3. /\ up /\ alive /\ wire' = wire \ {j}
      /\ \/ Dispatch(msg) /\ UNCHANGED lost
         \/ lost' = lost \cup {id} /\ UNCHANGED <<table, answered>>
      /\ UNCHANGED <<up, alive, last, unstored>>
  BY <1>1 DEF Receive, cnx, msg
<1>4. \/ /\ table' = [table EXCEPT ![s] = Unlinked(@, Min(found))]
         /\ found # {} /\ answered' = answered \cup {id} /\ UNCHANGED lost
      \/ found = {} /\ UNCHANGED <<table, answered, lost>>
      \/ lost' = lost \cup {id} /\ UNCHANGED <<table, answered>>
  BY <1>2, <1>3 DEF Dispatch
<1>5. id \in Nat /\ s \in 0..Slots - 1 /\ id \in Waiting /\ id \notin lost /\ id \in 1..last
  <2>1. id \in Nat
    BY DEF Id
  <2>. QED
    BY <1>1, <2>1, HashInRange DEF TableInv, Waiting
<1>6. \A e : e \in Waiting' <=> e \in Waiting /\ e # id
  BY <1>1, <1>3 DEF TableInv, Waiting
<1>7. found # {} <=> id \in Entries
  <2>1. found # {} <=> id \in ToSet(table[s])
    BY DEF ToSet
  <2>2. \A q \in 0..Slots - 1 : id \in ToSet(table[q]) => q = s
    BY DEF TableInv, Lists
  <2>. QED
    BY <1>5, <2>1, <2>2, EntryOf DEF TableInv
<1>8. /\ Lists'
      /\ \/ (\A e : e \in Entries' <=> e \in Entries /\ e # id) /\ lost' = lost
         \/ Entries' = Entries /\ id \notin Entries /\ lost' = lost
         \/ Entries' = Entries /\ lost' = lost \cup {id}
  <2>1. CASE /\ table' = [table EXCEPT ![s] = Unlinked(@, Min(found))]
             /\ found # {} /\ UNCHANGED lost
    <3>1. found \subseteq Nat
      BY <1>5 DEF TableInv, Lists
    <3>2. Min(found) \in found
      BY <2>1, <3>1, Smallest
    <3>3. Min(found) \in DOMAIN table[s] /\ table[s][Min(found)] = id
      BY <3>2
    <3>. HIDE DEF found
    <3>. QED
      BY <1>5, <2>1, <3>3, UnlinkStep DEF TableInv
  <2>2. CASE found = {} /\ UNCHANGED <<table, lost>>
    BY <1>7, <2>2 DEF TableInv, Lists, Entries
  <2>3. CASE lost' = lost \cup {id} /\ UNCHANGED table
    BY <2>3 DEF TableInv, Lists, Entries
  <2>. QED
    BY <1>4, <2>1, <2>2, <2>3
<1>9. Entries' = (Waiting' \cup lost') \ unstored'
  BY <1>3, <1>5, <1>6, <1>8 DEF TableInv
<1>10. Waiting' \cup answered' \cup lost' \cup unstored' \subseteq 1..last'
  BY <1>3, <1>4, <1>5, <1>6 DEF TableInv
<1>11. Waiting' \cap lost' = {}
  BY <1>4, <1>6 DEF TableInv
<1>12. \A i, k \in wire' : Number(i) = Number(k) => i = k
  BY <1>3 DEF TableInv
<1>. QED
  BY <1>3, <1>8, <1>9, <1>10, <1>11, <1>12 DEF TableInv

\* Steps that leave the table and the wire alone.
LEMMA QuietKeeps ==
  ASSUME TableInv, UNCHANGED <<book, fate>>, up' \in BOOLEAN, alive' = alive
  PROVE  TableInv'
BY DEF TableInv, Lists, Entries, Waiting, book, fate

\* A lost connection makes the requests on the wire lost ones; with the context
\* the entries go too.
LEMMA LossKeeps ==
  ASSUME TableInv, Drop \/ Destroy
  PROVE  TableInv'
<1>1. /\ lost' = lost \cup Waiting /\ wire' = {}
      /\ UNCHANGED <<last, answered, unstored>>
      /\ up' \in BOOLEAN /\ alive' \in BOOLEAN
  BY DEF Drop, Destroy, Waiting, TableInv, book
<1>2. Waiting' = {}
  BY <1>1 DEF Waiting
<1>3. Lists' /\ (alive' => alive /\ Entries' = Entries)
  <2>1. CASE Drop
    BY <2>1 DEF Drop, TableInv, Lists, Entries, book
  <2>2. CASE Destroy
    <3>1. \A s \in 0..Slots - 1 : table'[s] = <<>>
      BY <2>2 DEF Destroy, TableInv, Lists
    <3>2. table' \in [0..Slots - 1 -> Seq(Nat)]
      BY <2>2 DEF Destroy, TableInv, Lists
    <3>3. IsInjective(<<>>) /\ ToSet(<<>>) = {}
      BY DEF IsInjective, ToSet
    <3>. QED
      BY <2>2, <3>1, <3>2, <3>3 DEF Destroy, Lists
  <2>. QED
    BY <2>1, <2>2
<1>4. alive' => Entries' = (Waiting' \cup lost') \ unstored'
  BY <1>1, <1>2, <1>3 DEF TableInv
<1>. QED
  BY <1>1, <1>2, <1>3, <1>4 DEF TableInv

\* The table and the wire agree after every step.
LEMMA TableStep ==
  ASSUME TableInv, [Next]_vars
  PROVE  TableInv'
<1>1. ASSUME NEW type, NEW req, Request(type, req)
      PROVE  TableInv'
  BY <1>1, SubmitKeeps DEF Request
<1>2. ASSUME NEW req, Push(req)
      PROVE  TableInv'
  BY <1>2, SubmitKeeps DEF Push
<1>3. ASSUME NEW id \in Id, Respond(id)
      PROVE  TableInv'
  BY <1>3, RespondKeeps
<1>4. ASSUME NEW msg, Hear(msg) \/ Up(msg)
      PROVE  TableInv'
  <2>1. UNCHANGED <<book, fate>> /\ up' \in BOOLEAN /\ alive' = alive
    BY <1>4 DEF Hear, Up, cnx, TableInv
  <2>. QED
    BY <2>1, QuietKeeps
<1>5. CASE Drop \/ Destroy
  BY <1>5, LossKeeps
<1>6. CASE Tick \/ UNCHANGED vars
  <2>1. UNCHANGED <<book, fate>> /\ up' \in BOOLEAN /\ alive' = alive
    BY <1>6 DEF Tick, vars, cnx, TableInv
  <2>. QED
    BY <2>1, QuietKeeps
<1>. QED
  BY <1>1, <1>2, <1>3, <1>4, <1>5, <1>6 DEF Next

\* A new context has an empty table.
LEMMA TableStart == Init => TableInv
<1>. SUFFICES ASSUME Init
     PROVE  TableInv
  OBVIOUS
<1>1. table \in [0..Slots - 1 -> Seq(Nat)] /\ \A s \in 0..Slots - 1 : table[s] = <<>>
  BY DEF Init
<1>2. IsInjective(<<>>) /\ ToSet(<<>>) = {}
  BY DEF IsInjective, ToSet
<1>3. Lists
  BY <1>1, <1>2 DEF Lists
<1>4. Waiting = {} /\ lost = {} /\ answered = {} /\ unstored = {} /\ wire = {}
  BY DEF Init, Waiting
<1>5. Entries = {}
  BY <1>1, <1>2, <1>3, EntryOf
<1>6. last \in 0..MaxReq /\ up \in BOOLEAN /\ alive \in BOOLEAN
  BY SlotsAssumption DEF Init
<1>. QED
  BY <1>3, <1>4, <1>5, <1>6 DEF TableInv

\* Whatever time the clock shows, the generator stays within its ranges.
LEMMA PushStep ==
  ASSUME PushInv, [Next]_vars
  PROVE  PushInv'
<1>. USE SlotsAssumption
<1>1. ASSUME NEW req, Push(req)
      PROVE  PushInv'
  <2>1. pids' \in Advanced(pids, time) /\ time' = time
    BY <1>1 DEF Push, Submit
  <2>2. CASE pids.last_time # time
    BY <2>1, <2>2 DEF Advanced, Rand, PushInv
  <2>3. CASE pids.last_time = time
    <3>1. pids' = Increment(pids)
      BY <2>1, <2>3 DEF Advanced
    <3>2. HighMod \in Nat \ {0} /\ LowMod \in Nat \ {0}
      BY PushIdAssumption
    <3>3. /\ (pids.low + 1) % LowMod \in 0..LowMod - 1
          /\ (pids.high + 1) % HighMod \in 0..HighMod - 1
      BY <3>2 DEF PushInv
    <3>. QED
      BY <2>1, <3>1, <3>3 DEF Increment, PushInv
  <2>. QED
    BY <2>2, <2>3
<1>2. ASSUME NEW msg, Hear(msg) \/ Up(msg)
      PROVE  PushInv'
  BY <1>2 DEF Hear, Up, PushInv
<1>3. ASSUME NEW id \in Id, Respond(id)
      PROVE  PushInv'
  BY <1>3 DEF Respond, Receive, PushInv
<1>4. ASSUME NEW type, NEW req, Request(type, req)
      PROVE  PushInv'
  BY <1>4 DEF Request, Submit, PushInv
<1>5. CASE Drop \/ Destroy \/ Tick \/ UNCHANGED vars
  BY <1>5 DEF Drop, Destroy, Tick, vars, PushInv
<1>. QED
  BY <1>1, <1>2, <1>3, <1>4, <1>5 DEF Next

\* A new context has never made a push id.
LEMMA PushStart == Init => PushInv
BY SlotsAssumption, PushIdAssumption DEF Init, PushInv, NoPush

\* The two invariants hold always.
LEMMA Invariants == Spec => [](TableInv /\ PushInv)
<1>1. Init => TableInv /\ PushInv
  BY TableStart, PushStart
<1>2. TableInv /\ PushInv /\ [Next]_vars => (TableInv /\ PushInv)'
  BY TableStep, PushStep
<1>. QED
  BY <1>1, <1>2, PTL DEF Spec

-----------------------------------------------------------------------------
(* The theorems                                                            *)

\* The table of pending requests holds exactly the requests that wait for an
\* answer and those that will get none, each in the list of its hash and once
\* (wc_req_store_pending(), wc_datasync_req_get_pending()).
THEOREM TableIsRight == Spec => []TableMatchesWire
<1>1. TableInv /\ PushInv => TableMatchesWire
  <2>. SUFFICES ASSUME TableInv, PushInv
       PROVE  TableMatchesWire
    OBVIOUS
  <2>1. ASSUME NEW s \in DOMAIN table
        PROVE  /\ IsInjective(table[s])
               /\ \A i \in DOMAIN table[s] : pending_req_hash(table[s][i]) = s
    BY DEF TableInv, Lists, ToSet
  <2>2. pids.last_time \in 0..MaxTime /\ <<pids.high, pids.low>> \in Rand /\ time \in 1..MaxTime
    BY DEF PushInv, Rand
  <2>. QED
    BY <2>1, <2>2 DEF TableMatchesWire, TypeOK, TableInv
<1>. QED
  BY <1>1, Invariants, PTL

\* The encoder and the parser agree on the codes of all actions.
THEOREM CodesAlwaysAgree == Spec => []CodesAgree
<1>1. CodesAgree
  BY ActionParsed DEF CodesAgree
<1>. QED
  BY <1>1, PTL

\* Whatever the server sends, all that the parser allocated for a message that it
\* accepted is freed by wc_datasync_msg_free().
THEOREM NothingLeaks == Spec => []FreedIsAllocated
<1>1. Init => FreedIsAllocated
  BY DEF Init, FreedIsAllocated
<1>2. FreedIsAllocated /\ [Next]_vars => FreedIsAllocated'
  <2>. SUFFICES ASSUME FreedIsAllocated, [Next]_vars
       PROVE  FreedIsAllocated'
    OBVIOUS
  <2>1. ASSUME NEW j, parse_msg_json(j).ok, Free(parse_msg_json(j))
        PROVE  FreedIsAllocated'
    BY <2>1, AllFreed DEF Free, FreedIsAllocated
  <2>2. ASSUME NEW msg \in Heard, Hear(msg) \/ Up(msg)
        PROVE  FreedIsAllocated'
    <3>1. PICK j : msg = parse_msg_json(j)
      BY DEF Heard
    <3>2. CASE msg.ok /\ Free(msg)
      BY <2>1, <3>1, <3>2
    <3>3. CASE UNCHANGED leaked
      BY <3>3 DEF FreedIsAllocated
    <3>. QED
      BY <2>2, <3>2, <3>3 DEF Hear, Up
  <2>3. ASSUME NEW id \in Id, Respond(id)
        PROVE  FreedIsAllocated'
    <3>1. PICK j \in wire, answer \in Answers(id) : Receive(j, answer)
      BY <2>3 DEF Respond
    <3>2. Parsed[answer] = parse_msg_json(answer)
      BY DEF Parsed
    <3>3. CASE Parsed[answer].ok /\ Free(Parsed[answer])
      BY <2>1, <3>2, <3>3
    <3>4. CASE UNCHANGED leaked
      BY <3>4 DEF FreedIsAllocated
    <3>. QED
      BY <3>1, <3>3, <3>4 DEF Receive
  <2>4. CASE UNCHANGED leaked
    BY <2>4 DEF FreedIsAllocated
  <2>. QED
    BY <2>2, <2>3, <2>4 DEF Next, Request, Push, Submit, Drop, Tick, Destroy, vars
<1>. QED
  BY <1>1, <1>2, PTL DEF Spec

\* The table implements the book of requests: numbers are new, and a callback is
\* called at most once, for a request that waits
\* (wc_datasync_req_response_dispatch()).
THEOREM BookImplemented == Spec => ImplementsBook
<1>1. Init => Book!Init
  <2>. SUFFICES ASSUME Init
       PROVE  Book!Init
    OBVIOUS
  <2>1. TableInv /\ alive
    BY TableStart DEF Init
  <2>2. Entries = {}
    BY <2>1 DEF Init, TableInv, Waiting
  <2>. QED
    BY <2>2 DEF Init, Book!Init
<1>2. TableInv /\ [Next]_vars => [Book!Next]_<<last, Entries, answered>>
  <2>. SUFFICES ASSUME TableInv, [Next]_vars
       PROVE  Book!Next \/ UNCHANGED <<last, Entries, answered>>
    OBVIOUS
  <2>1. ASSUME NEW type, NEW req, Submit(type, req)
        PROVE  Book!Issue
    <3>. DEFINE id == last + 1
    <3>1. /\ alive /\ last < MaxReq /\ last' = id /\ answered' = answered
          /\ \/ table' = [table EXCEPT ![pending_req_hash(id)] = Stored(@, id)]
             \/ UNCHANGED table
      BY <2>1 DEF Submit, next_reqnum
    <3>2. id \in Nat /\ id \notin Entries
      BY <3>1 DEF TableInv
    <3>3. Entries' \in {Entries \cup {id}, Entries}
      <4>1. CASE table' = [table EXCEPT ![pending_req_hash(id)] = Stored(@, id)]
        <5>1. \A e : e \in Entries' <=> e \in Entries \/ e = id
          BY <3>2, <4>1, StoreStep DEF TableInv
        <5>2. Entries' = Entries \cup {id}
          BY <5>1
        <5>. QED
          BY <5>2
      <4>2. CASE UNCHANGED table
        BY <4>2 DEF Entries
      <4>. QED
        BY <3>1, <4>1, <4>2
    <3>. QED
      BY <3>1, <3>3 DEF Book!Issue
  <2>2. ASSUME NEW id \in Id, Respond(id)
        PROVE  Book!Report \/ UNCHANGED <<last, Entries, answered>>
    <3>1. PICK j \in wire, answer \in Answers(id) : Number(j) = id /\ Receive(j, answer)
      BY <2>2 DEF Respond
    <3>. DEFINE msg == Parsed[answer]
                s == pending_req_hash(id)
                found == {i \in DOMAIN table[s] : table[s][i] = id}
    <3>2. msg.u.r.int = id
      <4>1. msg = parse_msg_json(answer)
        BY DEF Parsed
      <4>2. parse_msg_json(answer).u.r = Long(id)
        BY AnswerParsed
      <4>. QED
        BY <4>1, <4>2 DEF Long
    <3>. HIDE DEF msg
    <3>3. last' = last /\ (Dispatch(msg) \/ UNCHANGED <<table, answered>>)
      BY <3>1 DEF Receive, msg
    <3>4. CASE Dispatch(msg)
      <4>1. \/ /\ table' = [table EXCEPT ![s] = Unlinked(@, Min(found))]
               /\ found # {} /\ answered' = answered \cup {id}
            \/ UNCHANGED <<table, answered>>
        BY <3>2, <3>4 DEF Dispatch
      <4>2. CASE /\ table' = [table EXCEPT ![s] = Unlinked(@, Min(found))]
                 /\ found # {} /\ answered' = answered \cup {id}
        <5>1. id \in Nat /\ s \in 0..Slots - 1
          BY HashInRange DEF Id
        <5>2. found \subseteq Nat
          BY <5>1 DEF TableInv, Lists
        <5>3. Min(found) \in found
          BY <4>2, <5>2, Smallest
        <5>4. Min(found) \in DOMAIN table[s] /\ table[s][Min(found)] = id
          BY <5>3
        <5>. HIDE DEF found
        <5>5. \A e : e \in Entries' <=> e \in Entries /\ e # id
          BY <4>2, <5>1, <5>4, UnlinkStep DEF TableInv
        <5>6. id \in Entries
          BY <5>1, <5>4, EntryOf DEF TableInv, ToSet
        <5>7. Entries' = Entries \ {id}
          BY <5>5
        <5>. QED
          BY <3>3, <4>2, <5>6, <5>7 DEF Book!Report
      <4>3. CASE UNCHANGED <<table, answered>>
        BY <3>3, <4>3 DEF Entries
      <4>. QED
        BY <4>1, <4>2, <4>3
    <3>5. CASE UNCHANGED <<table, answered>>
      BY <3>3, <3>5 DEF Entries
    <3>. QED
      BY <3>3, <3>4, <3>5
  <2>3. CASE Destroy
    <3>1. \A s \in DOMAIN table' : table'[s] = <<>>
      BY <2>3 DEF Destroy
    <3>2. Entries' = {}
      BY <3>1 DEF Entries, ToSet
    <3>. QED
      BY <2>3, <3>2 DEF Destroy, Book!Forget, Book!Next
  <2>4. CASE UNCHANGED <<book, answered>>
    BY <2>4 DEF book, Entries
  <2>5. ASSUME NEW msg, Hear(msg) \/ Up(msg)
        PROVE  UNCHANGED <<book, answered>>
    BY <2>5 DEF Hear, Up, fate
  <2>6. ASSUME Drop \/ Tick \/ UNCHANGED vars
        PROVE  UNCHANGED <<book, answered>>
    BY <2>6 DEF Drop, Tick, vars, fate
  <2>. QED
    BY <2>1, <2>2, <2>3, <2>4, <2>5, <2>6 DEF Next, Request, Push, Book!Next
<1>. QED
  BY <1>1, <1>2, Invariants, PTL DEF Spec, ImplementsBook, Book!Spec

-----------------------------------------------------------------------------
(* Push ids                                                                *)

\* The numbers can be counted up to.
LEMMA CountUp ==
  ASSUME NEW S, 0 \in S, \A n \in Nat : n \in S => n + 1 \in S
  PROVE  Nat \subseteq S
<1>. SUFFICES ASSUME Nat \ S # {} PROVE FALSE
  OBVIOUS
<1>. DEFINE B == Nat \ S
<1>1. Min(B) \in B /\ \A w \in B : Min(B) <= w
  <2>1. B \subseteq Nat /\ B # {}
    OBVIOUS
  <2>. QED
    BY <2>1, Smallest
<1>2. Min(B) - 1 \in Nat /\ Min(B) - 1 \notin B
  BY <1>1
<1>3. (Min(B) - 1) + 1 \in S
  BY <1>2
<1>. QED
  BY <1>1, <1>3

\* The recursion of the powers is well founded.
LEMMA Powers ==
  /\ Power[0] = 1
  /\ \A k \in Nat : Power[k] \in Nat /\ Power[k] > 0 /\ Power[k + 1] = Base * Power[k]
<1>. DEFINE Sat(g, n) == g[0] = 1 /\ \A k \in 1..n : g[k] = Base * g[k - 1]
            IsPower(f) == f = [k \in Nat |-> IF k = 0 THEN 1 ELSE Base * f[k - 1]]
<1>1. Base \in Nat /\ Base > 0
  BY PushIdAssumption
<1>2. \A n \in Nat : \E g : Sat(g, n)
  <2>. DEFINE S == {n \in Nat : \E g : Sat(g, n)}
  <2>1. 0 \in S
    <3>1. Sat([k \in {0} |-> 1], 0)
      OBVIOUS
    <3>. QED
      BY <3>1
  <2>2. ASSUME NEW n \in Nat, n \in S PROVE n + 1 \in S
    <3>1. PICK g : Sat(g, n)
      BY <2>2
    <3>. DEFINE h == [k \in 0..n + 1 |-> IF k = n + 1 THEN Base * g[n] ELSE g[k]]
    <3>2. h[n + 1] = Base * g[n] /\ \A k \in 0..n : h[k] = g[k]
      OBVIOUS
    <3>. HIDE DEF h
    <3>3. h[0] = 1
      BY <3>1, <3>2
    <3>4. \A k \in 1..n : h[k] = Base * h[k - 1]
      BY <3>1, <3>2
    <3>5. h[n + 1] = Base * h[(n + 1) - 1]
      BY <3>2
    <3>6. Sat(h, n + 1)
      BY <3>3, <3>4, <3>5
    <3>. HIDE DEF Sat
    <3>. QED
      BY <3>6
  <2>. HIDE DEF S
  <2>3. Nat \subseteq S
    BY <2>1, <2>2, CountUp
  <2>. QED
    BY <2>3 DEF S
<1>3. ASSUME NEW g, NEW h, NEW n \in Nat, Sat(g, n), Sat(h, n) PROVE g[n] = h[n]
  <2>. DEFINE S == {m \in Nat : m <= n => g[m] = h[m]}
  <2>1. 0 \in S
    BY <1>3
  <2>2. ASSUME NEW m \in Nat, m \in S PROVE m + 1 \in S
    BY <2>2, <1>3
  <2>. HIDE DEF S
  <2>3. Nat \subseteq S
    BY <2>1, <2>2, CountUp
  <2>. QED
    BY <2>3 DEF S
<1>4. \E f : IsPower(f)
  <2>. DEFINE G(n) == CHOOSE g : Sat(g, n)
              f == [k \in Nat |-> G(k)[k]]
  <2>1. \A n \in Nat : Sat(G(n), n)
    BY <1>2
  <2>. HIDE DEF G
  <2>2. ASSUME NEW k \in Nat PROVE f[k] = IF k = 0 THEN 1 ELSE Base * f[k - 1]
    <3>1. CASE k = 0
      BY <3>1, <2>1
    <3>2. CASE k # 0
      <4>1. k - 1 \in Nat /\ Sat(G(k), k) /\ Sat(G(k - 1), k - 1)
        BY <3>2, <2>1
      <4>2. Sat(G(k), k - 1)
        BY <4>1
      <4>. HIDE DEF Sat
      <4>3. G(k)[k - 1] = G(k - 1)[k - 1]
        BY <4>1, <4>2, <1>3
      <4>4. G(k)[k] = Base * G(k)[k - 1]
        BY <4>1, <3>2 DEF Sat
      <4>. QED
        BY <4>1, <4>3, <4>4, <3>2
    <3>. QED
      BY <3>1, <3>2
  <2>3. IsPower(f)
    <3>1. f = [k \in Nat |-> f[k]]
      OBVIOUS
    <3>. HIDE DEF f
    <3>. QED
      BY <3>1, <2>2
  <2>. HIDE DEF f, IsPower
  <2>. QED
    BY <2>3
<1>5. IsPower(Power)
  <2>1. Power = CHOOSE f : IsPower(f)
    BY DEF Power
  <2>. HIDE DEF IsPower
  <2>. QED
    BY <2>1, <1>4
<1>6. \A k \in Nat : Power[k] = IF k = 0 THEN 1 ELSE Base * Power[k - 1]
  <2>. DEFINE P == Power
  <2>1. IsPower(P)
    BY <1>5
  <2>. HIDE DEF P
  <2>2. \A k \in Nat : P[k] = IF k = 0 THEN 1 ELSE Base * P[k - 1]
    BY <2>1
  <2>. QED
    BY <2>2 DEF P
<1>. DEFINE S == {k \in Nat : Power[k] \in Nat /\ Power[k] > 0}
<1>7. 0 \in S /\ Power[0] = 1
  BY <1>6
<1>8. ASSUME NEW k \in Nat PROVE Power[k + 1] = Base * Power[k]
  <2>1. k + 1 \in Nat /\ k + 1 # 0 /\ (k + 1) - 1 = k
    OBVIOUS
  <2>. QED
    BY <2>1, <1>6
<1>9. ASSUME NEW k \in Nat, k \in S PROVE k + 1 \in S
  <2>. DEFINE q == Power[k]
  <2>1. q \in Nat /\ q > 0 /\ Power[k + 1] = Base * q
    BY <1>8, <1>9
  <2>. HIDE DEF q
  <2>2. Base * q \in Nat /\ Base * q > 0
    BY <1>1, <2>1
  <2>. QED
    BY <2>1, <2>2
<1>. HIDE DEF S
<1>10. Nat \subseteq S
  BY <1>7, <1>9, CountUp
<1>. QED
  BY <1>7, <1>8, <1>10 DEF S

\* Quotients by Base.
LEMMA Quotients ==
  ASSUME NEW b \in Nat, b > 0, NEW d \in Nat, d > 0, NEW x \in Nat
  PROVE  /\ x \div d \in Nat /\ x \div 1 = x /\ (x < d => x \div d = 0)
         /\ x \div (b * d) = (x \div d) \div b
OBVIOUS

\* The order of digits is the order of numbers: the first digit that differs
\* belongs to quotients that differ, and whose quotients by Base do not.
LEMMA DigitsInOrder ==
  ASSUME NEW w \in Nat, NEW x \in Nat, NEW y \in Nat, x < y, y < Power[w]
  PROVE  \E i \in 1..w :
            /\ b64ish_encode(x, w)[i] < b64ish_encode(y, w)[i]
            /\ \A h \in 1..i - 1 : b64ish_encode(x, w)[h] = b64ish_encode(y, w)[h]
<1>. DEFINE P(i) == Power[w - i]
            X(i) == x \div P(i)
            Y(i) == y \div P(i)
            D == {i \in 0..w : X(i) # Y(i)}
<1>1. Base \in Nat /\ Base > 0
  BY PushIdAssumption
<1>2. \A i \in 0..w : w - i \in Nat /\ P(i) \in Nat /\ P(i) > 0
  BY Powers
<1>3. P(w) = 1 /\ P(0) = Power[w]
  <2>1. w - w = 0 /\ w - 0 = w
    OBVIOUS
  <2>. QED
    BY <2>1, Powers
<1>4. \A i \in 1..w : P(i - 1) = Base * P(i)
  <2>. SUFFICES ASSUME NEW i \in 1..w PROVE P(i - 1) = Base * P(i)
    OBVIOUS
  <2>1. w - i \in Nat /\ w - (i - 1) = (w - i) + 1
    OBVIOUS
  <2>. QED
    BY <2>1, Powers
<1>. HIDE DEF P
<1>5. \A i \in 0..w : X(i) \in Nat /\ Y(i) \in Nat /\ X(i) <= Y(i)
  BY <1>2
<1>6. X(w) = x /\ Y(w) = y /\ X(0) = 0 /\ Y(0) = 0
  <2>1. X(w) = x /\ Y(w) = y
    BY <1>3
  <2>2. X(0) = 0 /\ Y(0) = 0
    <3>1. P(0) \in Nat /\ P(0) > 0 /\ x < P(0) /\ y < P(0)
      BY <1>2, <1>3
    <3>. QED
      BY <3>1
  <2>. QED
    BY <2>1, <2>2
<1>7. \A i \in 1..w : X(i - 1) = X(i) \div Base /\ Y(i - 1) = Y(i) \div Base
  <2>. SUFFICES ASSUME NEW i \in 1..w
                PROVE  X(i - 1) = X(i) \div Base /\ Y(i - 1) = Y(i) \div Base
    OBVIOUS
  <2>1. P(i) \in Nat /\ P(i) > 0 /\ P(i - 1) = Base * P(i)
    BY <1>2, <1>4
  <2>. QED
    BY <2>1, <1>1, Quotients
<1>. HIDE DEF X, Y
<1>8. w \in D /\ 0 \notin D /\ D \subseteq Nat
  BY <1>6
<1>. DEFINE i == Min(D)
<1>9. i \in D /\ \A h \in D : i <= h
  BY <1>8, Smallest
<1>. HIDE DEF i
<1>10. i \in 1..w /\ \A h \in 0..i - 1 : X(h) = Y(h)
  BY <1>8, <1>9
<1>11. X(i) < Y(i) /\ X(i) \div Base = Y(i) \div Base
  <2>1. X(i) # Y(i)
    BY <1>9
  <2>2. X(i - 1) = Y(i - 1)
    BY <1>10
  <2>. QED
    BY <2>1, <2>2, <1>5, <1>7, <1>10
<1>12. X(i) % Base < Y(i) % Base
  BY <1>1, <1>5, <1>10, <1>11
<1>13. \A h \in 1..w : b64ish_encode(x, w)[h] = X(h) % Base /\ b64ish_encode(y, w)[h] = Y(h) % Base
  BY DEF b64ish_encode, X, Y, P
<1>14. \A h \in 1..i - 1 : h \in 1..w /\ X(h) = Y(h)
  BY <1>10
<1>. QED
  BY <1>10, <1>12, <1>13, <1>14

\* The next key after the same time: the random number is one more, unless it wraps.
LEMMA IncrementIsNext ==
  ASSUME NEW s \in [last_time : Nat, high : 0..HighMod - 1, low : 0..LowMod - 1],
         Increment(s) # [s EXCEPT !.high = 0, !.low = 0]
  PROVE  LET t == Increment(s)
         IN  /\ t.last_time = s.last_time /\ t.high \in 0..HighMod - 1 /\ t.low \in 0..LowMod - 1
             /\ t.high * LowMod + t.low = s.high * LowMod + s.low + 1
<1>. DEFINE t == Increment(s)
            low == (s.low + 1) % LowMod
<1>1. /\ HighMod \in Nat /\ HighMod > 0 /\ LowMod \in Nat /\ LowMod > 0
      /\ s.high \in 0..HighMod - 1 /\ s.low \in 0..LowMod - 1
  BY PushIdAssumption
<1>2. /\ t.last_time = s.last_time /\ t.low = low
      /\ t.high = IF low = 0 THEN (s.high + 1) % HighMod ELSE s.high
      /\ low = 0 /\ (s.high + 1) % HighMod = 0 => t = [s EXCEPT !.high = 0, !.low = 0]
  BY DEF Increment
<1>3. low = IF s.low + 1 = LowMod THEN 0 ELSE s.low + 1
  BY <1>1
<1>4. (s.high + 1) % HighMod = IF s.high + 1 = HighMod THEN 0 ELSE s.high + 1
  BY <1>1
<1>. HIDE DEF t, low
<1>5. CASE s.low + 1 # LowMod
  BY <1>1, <1>2, <1>3, <1>5 DEF t
<1>6. CASE s.low + 1 = LowMod
  <2>1. s.high + 1 # HighMod
    BY <1>2, <1>3, <1>4, <1>6 DEF t
  <2>2. t.high = s.high + 1 /\ t.low = 0 /\ s.low = LowMod - 1
    BY <2>1, <1>1, <1>2, <1>3, <1>4, <1>6
  <2>3. (s.high + 1) * LowMod + 0 = s.high * LowMod + (LowMod - 1) + 1
    BY <1>1
  <2>. QED
    BY <2>1, <2>2, <2>3, <1>1, <1>2 DEF t
<1>. QED
  BY <1>5, <1>6 DEF t

\* The random number fits its digits.
LEMMA RandFits ==
  ASSUME NEW high \in 0..HighMod - 1, NEW low \in 0..LowMod - 1
  PROVE  high * LowMod + low \in Nat /\ high * LowMod + low < Power[RandDigits]
<1>1. HighMod \in Nat /\ LowMod \in Nat /\ LowMod > 0 /\ Power[RandDigits] = HighMod * LowMod
  BY PushIdAssumption
<1>2. (high + 1) * LowMod <= HighMod * LowMod
  BY <1>1
<1>3. (high + 1) * LowMod = high * LowMod + LowMod /\ high * LowMod \in Nat /\ HighMod * LowMod \in Nat
  BY <1>1
<1>. QED
  BY <1>1, <1>2, <1>3

\* Keys of the same lengths, first compared by the time and then by the number.
LEMMA PartsInOrder ==
  ASSUME NEW m \in Nat, NEW n \in Nat, NEW a, NEW b, NEW c, NEW d,
         a \in [1..m -> Nat], b \in [1..n -> Nat], c \in [1..m -> Nat], d \in [1..n -> Nat],
         \/ Precedes(a, c)
         \/ a = c /\ Precedes(b, d)
  PROVE  Precedes(a \o b, c \o d)
<1>1. /\ a \in Seq(Nat) /\ b \in Seq(Nat) /\ c \in Seq(Nat) /\ d \in Seq(Nat)
      /\ Len(a) = m /\ Len(b) = n /\ Len(c) = m /\ Len(d) = n
  <2>1. ASSUME NEW k \in Nat, NEW e \in [1..k -> Nat] PROVE e \in Seq(Nat) /\ Len(e) = k
    <3>1. e \in Seq(Nat)
      BY SeqDef
    <3>. QED
      BY <3>1, LenProperties
  <2>. QED
    BY <2>1
<1>2. /\ DOMAIN (a \o b) = 1..m + n
      /\ \A i \in 1..m : (a \o b)[i] = a[i] /\ (c \o d)[i] = c[i]
      /\ \A i \in 1..n : (a \o b)[m + i] = b[i] /\ (c \o d)[m + i] = d[i]
  <2>1. ASSUME NEW e \in Seq(Nat), NEW f \in Seq(Nat), Len(e) = m, Len(f) = n
        PROVE  /\ DOMAIN (e \o f) = 1..m + n
               /\ \A i \in 1..m : (e \o f)[i] = e[i]
               /\ \A i \in 1..n : (e \o f)[m + i] = f[i]
    <3>. DEFINE g == e \o f
    <3>1. /\ g \in Seq(Nat) /\ Len(g) = m + n
          /\ \A i \in 1..m + n : g[i] = IF i <= m THEN e[i] ELSE f[i - m]
      BY <2>1, ConcatProperties
    <3>. HIDE DEF g
    <3>2. DOMAIN g = 1..m + n
      BY <3>1, LenProperties
    <3>3. ASSUME NEW i \in 1..n PROVE g[m + i] = f[i]
      <4>1. m + i \in 1..m + n /\ ~(m + i <= m) /\ (m + i) - m = i
        OBVIOUS
      <4>. QED
        BY <4>1, <3>1
    <3>4. \A i \in 1..m : g[i] = e[i]
      BY <3>1
    <3>. QED
      BY <3>2, <3>3, <3>4 DEF g
  <2>. QED
    BY <1>1, <2>1
<1>. DEFINE u == a \o b
            v == c \o d
<1>3. /\ DOMAIN u = 1..m + n
      /\ \A i \in 1..m : u[i] = a[i] /\ v[i] = c[i]
      /\ \A i \in 1..n : u[m + i] = b[i] /\ v[m + i] = d[i]
  BY <1>2
<1>. HIDE DEF u, v
<1>4. CASE Precedes(a, c)
  <2>1. PICK i \in 1..m : a[i] < c[i] /\ \A h \in 1..i - 1 : a[h] = c[h]
    BY <1>4 DEF Precedes
  <2>2. i \in DOMAIN u /\ u[i] < v[i] /\ \A h \in 1..i - 1 : u[h] = v[h]
    BY <2>1, <1>3
  <2>. QED
    BY <2>2 DEF Precedes, u, v
<1>5. CASE a = c /\ Precedes(b, d)
  <2>1. PICK i \in 1..n : b[i] < d[i] /\ \A h \in 1..i - 1 : b[h] = d[h]
    BY <1>5 DEF Precedes
  <2>2. m + i \in DOMAIN u /\ u[m + i] < v[m + i]
    <3>1. u[m + i] = b[i] /\ v[m + i] = d[i]
      BY <1>3
    <3>2. m + i \in 1..m + n
      OBVIOUS
    <3>3. m + i \in DOMAIN u
      BY <3>2, <1>3
    <3>. QED
      BY <3>1, <3>3, <2>1
  <2>3. ASSUME NEW h \in 1..(m + i) - 1 PROVE u[h] = v[h]
    <3>1. CASE h \in 1..m
      BY <3>1, <1>3, <1>5
    <3>2. CASE h \notin 1..m
      <4>1. h - m \in 1..i - 1 /\ h - m \in 1..n /\ h = m + (h - m)
        BY <3>2
      <4>2. u[m + (h - m)] = b[h - m] /\ v[m + (h - m)] = d[h - m]
        BY <4>1, <1>3
      <4>. QED
        BY <4>1, <4>2, <2>1
    <3>. QED
      BY <3>1, <3>2
  <2>. QED
    BY <2>2, <2>3 DEF Precedes, u, v
<1>. QED
  BY <1>4, <1>5

\* The digits are numbers.
LEMMA DigitTypes ==
  ASSUME NEW w \in Nat, NEW x \in Nat
  PROVE  b64ish_encode(x, w) \in [1..w -> Nat]
<1>1. Base \in Nat /\ Base > 0
  BY PushIdAssumption
<1>2. ASSUME NEW i \in 1..w PROVE (x \div Power[w - i]) % Base \in Nat
  <2>. DEFINE q == Power[w - i]
  <2>1. q \in Nat /\ q > 0
    <3>1. w - i \in Nat
      OBVIOUS
    <3>. QED
      BY <3>1, Powers
  <2>. HIDE DEF q
  <2>2. (x \div q) % Base \in Nat
    BY <2>1, <1>1
  <2>. QED
    BY <2>2 DEF q
<1>. QED
  BY <1>2 DEF b64ish_encode

\* Each key that wc_datasync_push_id() makes follows the one before it, for any
\* number of pushes in a millisecond and any width of the random number, as long
\* as the time fits into its digits: the carry between the two parts of lastrand
\* is right, and the digits compare as the numbers do.
THEOREM PushIdsAscend ==
  ASSUME MaxTime < Power[TimeDigits]
  PROVE  Spec => PushAscends
<1>1. ASSUME PushInv, [Next]_vars, pids' # pids,
             pids'.last_time >= pids.last_time,
             pids'.last_time = pids.last_time => pids' # [pids EXCEPT !.high = 0, !.low = 0]
      PROVE  Precedes(push_id(pids), push_id(pids'))
  <2>. DEFINE p == pids
              q == pids'
              T(s) == b64ish_encode(s.last_time % Power[TimeDigits], TimeDigits)
              R(s) == b64ish_encode(s.high * LowMod + s.low, RandDigits)
              Pids == [last_time : 0..MaxTime, high : 0..HighMod - 1, low : 0..LowMod - 1]
  <2>1. q \in Advanced(p, time)
    BY <1>1 DEF Next, Push, Request, Respond, Receive, Hear, Up, Drop, Tick, Destroy, vars
  <2>2. p \in Pids /\ q \in Pids
    BY <1>1, PushStep DEF PushInv
  <2>3. /\ TimeDigits \in Nat /\ RandDigits \in Nat /\ MaxTime \in Nat
        /\ Power[TimeDigits] \in Nat /\ Power[TimeDigits] > 0
    BY PushIdAssumption, SlotsAssumption, Powers
  <2>4. ASSUME NEW s \in Pids
        PROVE  /\ s.last_time \in Nat /\ s.last_time < Power[TimeDigits]
               /\ s.last_time % Power[TimeDigits] = s.last_time
               /\ T(s) \in [1..TimeDigits -> Nat] /\ R(s) \in [1..RandDigits -> Nat]
    <3>1. s.last_time \in Nat /\ s.last_time < Power[TimeDigits]
      BY <2>3
    <3>2. s.last_time % Power[TimeDigits] = s.last_time
      BY <3>1, <2>3
    <3>3. s.high * LowMod + s.low \in Nat
      BY RandFits
    <3>. QED
      BY <3>1, <3>2, <3>3, <2>3, DigitTypes
  <2>5. push_id(p) = T(p) \o R(p) /\ push_id(q) = T(q) \o R(q)
    BY DEF push_id
  <2>6. CASE p.last_time # time
    <3>1. q.last_time = time /\ q.last_time # p.last_time
      BY <2>1, <2>6 DEF Advanced
    <3>2. p.last_time < q.last_time
      BY <3>1, <2>2, <2>4, <1>1
    <3>3. Precedes(T(p), T(q))
      <4>1. PICK i \in 1..TimeDigits : /\ T(p)[i] < T(q)[i]
                                       /\ \A h \in 1..i - 1 : T(p)[h] = T(q)[h]
        <5>. DEFINE x == p.last_time
                    y == q.last_time
        <5>1. /\ x \in Nat /\ y \in Nat /\ x < y /\ y < Power[TimeDigits]
              /\ p.last_time % Power[TimeDigits] = x /\ q.last_time % Power[TimeDigits] = y
          BY <3>2, <2>2, <2>4
        <5>2. T(p) = b64ish_encode(x, TimeDigits) /\ T(q) = b64ish_encode(y, TimeDigits)
          BY <5>1
        <5>. HIDE DEF x, y
        <5>3. \E i \in 1..TimeDigits :
                /\ b64ish_encode(x, TimeDigits)[i] < b64ish_encode(y, TimeDigits)[i]
                /\ \A h \in 1..i - 1 : b64ish_encode(x, TimeDigits)[h] = b64ish_encode(y, TimeDigits)[h]
          BY <5>1, <2>3, DigitsInOrder
        <5>. HIDE DEF T
        <5>. QED
          BY <5>2, <5>3
      <4>2. DOMAIN T(p) = 1..TimeDigits
        BY DEF b64ish_encode
      <4>. HIDE DEF T
      <4>. QED
        BY <4>1, <4>2 DEF Precedes
    <3>. HIDE DEF T, R
    <3>. QED
      BY <3>3, <2>2, <2>3, <2>4, <2>5, PartsInOrder
  <2>7. CASE p.last_time = time
    <3>1. q = Increment(p)
      BY <2>1, <2>7 DEF Advanced
    <3>2. p \in [last_time : Nat, high : 0..HighMod - 1, low : 0..LowMod - 1]
      BY <2>2
    <3>3. q.last_time = p.last_time
      BY <3>1, <3>2 DEF Increment
    <3>4. Increment(p) # [p EXCEPT !.high = 0, !.low = 0]
      BY <3>1, <3>3, <1>1
    <3>5. q.high * LowMod + q.low = p.high * LowMod + p.low + 1
      BY <3>1, <3>2, <3>4, IncrementIsNext
    <3>6. /\ p.high * LowMod + p.low \in Nat /\ q.high * LowMod + q.low \in Nat
          /\ q.high * LowMod + q.low < Power[RandDigits]
      BY <2>2, RandFits
    <3>7. Precedes(R(p), R(q))
      <4>1. PICK i \in 1..RandDigits : /\ R(p)[i] < R(q)[i]
                                       /\ \A h \in 1..i - 1 : R(p)[h] = R(q)[h]
        <5>1. p.high * LowMod + p.low < q.high * LowMod + q.low
          BY <3>5, <3>6
        <5>. QED
          BY <5>1, <3>6, <2>3, DigitsInOrder
      <4>2. DOMAIN R(p) = 1..RandDigits
        BY DEF b64ish_encode
      <4>. HIDE DEF R
      <4>. QED
        BY <4>1, <4>2 DEF Precedes
    <3>8. T(p) = T(q)
      BY <3>3
    <3>. HIDE DEF T, R
    <3>. QED
      BY <3>7, <3>8, <2>2, <2>3, <2>4, <2>5, PartsInOrder
  <2>. QED
    BY <2>6, <2>7
<1>2. PushInv /\ [Next]_vars =>
        [(/\ pids' # pids
          /\ pids'.last_time >= pids.last_time
          /\ pids'.last_time = pids.last_time => pids' # [pids EXCEPT !.high = 0, !.low = 0])
         => Precedes(push_id(pids), push_id(pids'))]_vars
  BY <1>1
<1>. QED
  BY <1>2, Invariants, PTL DEF Spec, PushAscends
=============================================================================

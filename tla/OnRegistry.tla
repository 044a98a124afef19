----------------------------- MODULE OnRegistry -----------------------------
(***************************************************************************)
(* The event registry (lib/datasync/on): callbacks registered by path and  *)
(* event type, called when a server push changes what the cache holds.  A  *)
(* subscription per path remembers the hash of the value, and the hashes   *)
(* of the children, that its callbacks were last told about.               *)
(*                                                                         *)
(* The cache is DataCache's; its hashes are computed when needed, which    *)
(* DataCache!HashFresh shows to be the same.  Of the listen registry only  *)
(* the reference counts matter here (see ListenRegistry); the server       *)
(* refuses nothing.  A callback may return 0 to cancel itself; callbacks   *)
(* that call the subscription API themselves are left out.                 *)
(***************************************************************************)
EXTENDS DsPath, FiniteSetsExt

CONSTANTS
    Key, Path, MaxDepth, Leaf, Null, Object, Json, NotCached,   \* see DataCache
    SubPath,        \* the paths that callbacks are registered for
    Handle,         \* on_handle_t
    NoHandle,       \* not registered
    Never,          \* what a value callback was told before its first call
    Cancels         \* event types whose callbacks may return 0

Types == {"added", "removed", "changed", "value"}
ChildTypes == Types \ {"value"}

ASSUME SubAssumption == SubPath \subseteq Path /\ Cancels \subseteq Types
ASSUME HandleAssumption ==
    /\ IsFiniteSet(Handle) /\ IsFiniteSet(Key)
    /\ NoHandle \notin [path : SubPath, type : Types]

VARIABLES
    cache,      \* ctx->datasync.cache
    up,         \* ctx->datasync.state # WC_CNX_STATE_DISCONNECTED
    reg,        \* path and type each handle is registered for
    hash,       \* sub->hash of each subscription
    kids,       \* sub->children_hashes of each subscription
    ref,        \* references of the listen item of each path
    seen,       \* what the value callback of each handle was last told
    told        \* how often each key was announced to an added callback, less
                \* how often its removal was announced meanwhile

vars == <<cache, up, reg, hash, kids, ref, seen, told>>

Cache == INSTANCE DataCache

ASSUME CacheAssumption ==
    Cache!GoodPaths /\ Cache!GoodLeaves /\ \A j \in Json : Cache!IsJson(j)

\* The hash of the node at p, Null (all zeroes) if it is absent or null.
Cur(c, p) == IF p \in DOMAIN c /\ c[p].val # Null THEN Cache!HashOf(c)[p] ELSE Null

NoKids == [k \in {} |-> Null]
IsObject(c, p) == p \in DOMAIN c /\ c[p].val = Object
CurKids(c, p) == IF IsObject(c, p) THEN Cache!HashOf(c)[p] ELSE NoKids

At(p) == {h \in Handle : reg[h] # NoHandle /\ reg[h].path = p}
OfType(p, T) == {h \in At(p) : reg[h].type \in T}

Init ==
    /\ Cache!Init
    /\ up = FALSE
    /\ reg = [h \in Handle |-> NoHandle]
    /\ hash = [p \in SubPath |-> Null]
    /\ kids = [p \in SubPath |-> NoKids]
    /\ ref = [p \in SubPath |-> 0]
    /\ seen = [h \in Handle |-> Never]
    /\ told = [h \in Handle |-> [k \in Key |-> 0]]

-----------------------------------------------------------------------------
(* Mutants: plausible bugs of the definitions below.                       *)

\* Only the subscriptions at and above the path are triggered.
TriggeredUpwards(p) == {s \in SubPath : starts_with(p, s)}

\* Removed callbacks keep their references to the listen item.
DroppedNone(n) == ref

\* The list of known children is not refreshed after an event.
NewKidsStale(c, s) == kids[s]

\* A subscription outlives its callbacks.
LeftAlways(p, H) == TRUE

-----------------------------------------------------------------------------
(* Registration                                                            *)

\* wc_is_listening()
Listening(p) == \E q \in SubPath : StrictlyBelow(p, q) /\ ref[q] > 0

\* on_registry_add(): the new callback is called at once with what the cache
\* holds, if it is known or the server will not tell.
CalledAtOnce(p) == p \in DOMAIN cache \/ Listening(p) \/ ~up
FirstValue(type, p) == CalledAtOnce(p) /\ type = "value"
FirstKids(type, p) == CalledAtOnce(p) /\ type = "added" /\ IsObject(cache, p)

\* wc_datasync_on_value(), ..._on_child_added() etc.: on_registry_add(), then
\* wc_datasync_watch().  What the first calls return is ignored.
on(h, type, p) ==
    /\ reg[h] = NoHandle
    /\ reg' = [reg EXCEPT ![h] = [path |-> p, type |-> type]]
    /\ ref' = [ref EXCEPT ![p] = @ + 1]
    /\ IF FirstValue(type, p)
       THEN /\ hash' = [hash EXCEPT ![p] = Cur(cache, p)]
            /\ seen' = [seen EXCEPT ![h] = Cur(cache, p)]
       ELSE UNCHANGED <<hash, seen>>
    /\ IF FirstKids(type, p)
       THEN /\ kids' = [kids EXCEPT ![p] = CurKids(cache, p)]
            /\ told' = [told EXCEPT ![h] = [k \in Key |->
                            IF k \in DOMAIN CurKids(cache, p) THEN 1 ELSE 0]]
       ELSE UNCHANGED <<kids, told>>
    /\ UNCHANGED <<cache, up>>

\* Does a callback at p outlive those of H?
Left(p, H) == At(p) \ H # {}

\* wc_datasync_unwatch_ex() with n[p] references for each p.
Dropped(n) == [p \in SubPath |-> IF n[p] >= ref[p] THEN 0 ELSE ref[p] - n[p]]

\* on_registry_remove() of the handles in H; a subscription without callbacks is
\* freed with its hashes h1 and k1.
Remove(H, h1, k1, s1, t1) ==
    /\ reg' = [h \in Handle |-> IF h \in H THEN NoHandle ELSE reg[h]]
    /\ hash' = [p \in SubPath |-> IF Left(p, H) THEN h1[p] ELSE Null]
    /\ kids' = [p \in SubPath |-> IF Left(p, H) THEN k1[p] ELSE NoKids]
    /\ seen' = [h \in Handle |-> IF h \in H THEN Never ELSE s1[h]]
    /\ told' = [h \in Handle |-> IF h \in H THEN [k \in Key |-> 0] ELSE t1[h]]

\* wc_datasync_off_w() for a handle, a path, or a path and a type.
wc_datasync_off_w(p, H) ==
    /\ H # {}
    /\ Remove(H, hash, kids, seen, told)
    /\ ref' = Dropped([q \in SubPath |-> IF q = p THEN Cardinality(H) ELSE 0])
    /\ UNCHANGED <<cache, up>>

Off(p) ==
    \/ \E h \in At(p) : wc_datasync_off_w(p, {h})
    \/ wc_datasync_off_w(p, At(p))
    \/ \E t \in Types : wc_datasync_off_w(p, OfType(p, {t}))

-----------------------------------------------------------------------------
(* Pushes of the server                                                    *)

\* on_registry_dispatch_on_event_ex(): the subscriptions above the path, at it
\* and below it.
Triggered(p) == {s \in SubPath : starts_with(p, s) \/ starts_with(s, p)}

\* trig() with the new cache c: which keys of s are announced to the callbacks
\* of each type, and is the value?
HasKidsCb(s) == OfType(s, ChildTypes) # {}
Events(c, s) ==
    LET old == kids[s]
        new == CurKids(c, s)
    IN  [added   |-> DOMAIN new \ DOMAIN old,
         removed |-> DOMAIN old \ DOMAIN new,
         changed |-> {k \in DOMAIN old \cap DOMAIN new : old[k] # new[k]}]
NewKids(c, s) == CurKids(c, s)
ValueChanged(c, s) == OfType(s, {"value"}) # {} /\ Cur(c, s) # hash[s]

\* How often the callback of h is called.
Calls(c, S, h) ==
    LET s == reg[h].path IN
    IF reg[h] = NoHandle \/ s \notin S THEN 0
    ELSE IF reg[h].type = "value" THEN (IF ValueChanged(c, s) THEN 1 ELSE 0)
    ELSE Cardinality(Events(c, s)[reg[h].type])

\* deleted_cb_gc(): each time a callback returned 0, the handle is put on the
\* list; for each entry a reference to the listen item is dropped and the handle
\* removed.  An entry whose handle is gone already is read from freed memory;
\* modelled is the case that it is still intact.
Marks(c, S) ==
    {m \in [Handle -> 0..Cardinality(Key)] :
        \A h \in Handle : \/ m[h] = 0
                          \/ reg[h] # NoHandle /\ reg[h].type \in Cancels /\ m[h] <= Calls(c, S, h)}

\* The cache has become c, which differs from the old one at p.
Dispatch(c, p) ==
    LET S == Triggered(p)
        kidsDone == {s \in S : HasKidsCb(s)}
        valueDone == {s \in S : ValueChanged(c, s)}
        k1 == [s \in SubPath |-> IF s \in kidsDone THEN NewKids(c, s) ELSE kids[s]]
        h1 == [s \in SubPath |-> IF s \in valueDone THEN Cur(c, s) ELSE hash[s]]
        s1 == [h \in Handle |->
                IF \E s \in valueDone : h \in OfType(s, {"value"})
                THEN Cur(c, reg[h].path) ELSE seen[h]]
        t1 == [h \in Handle |->
                IF \E s \in kidsDone : h \in OfType(s, {"added"})
                THEN LET e == Events(c, reg[h].path)
                     IN  [k \in Key |-> IF k \in e.added THEN told[h][k] + 1
                                        ELSE IF k \in e.removed /\ told[h][k] > 0
                                             THEN told[h][k] - 1 ELSE told[h][k]]
                ELSE told[h]]
    IN  \E m \in Marks(c, S) :
            /\ Remove({h \in Handle : m[h] > 0}, h1, k1, s1, t1)
            /\ ref' = Dropped([q \in SubPath |->
                                MapThenSumSet(LAMBDA h : m[h], At(q))])

\* The server pushes what it listens to, at or below a watched path.
Pushed(p) == up /\ \E q \in SubPath : ref[q] > 0 /\ starts_with(p, q)

\* process_message(): WC_PUSH_DATA_UPDATE_PUT and WC_PUSH_DATA_UPDATE_MERGE
UpdatePut(p, j) ==
    /\ Pushed(p)
    /\ Cache!data_cache_set(p, j)
    /\ Dispatch(cache', p)
    /\ UNCHANGED up

UpdateMerge(p, j) ==
    /\ Pushed(p)
    /\ Cache!data_cache_merge(p, j)
    /\ Dispatch(cache', p)
    /\ UNCHANGED up

\* The connection comes and goes; cache and subscriptions stay.
UpDown ==
    /\ up' = ~up
    /\ UNCHANGED <<cache, reg, hash, kids, ref, seen, told>>

-----------------------------------------------------------------------------
Next ==
    \/ \E h \in Handle, t \in Types, p \in SubPath : on(h, t, p)
    \/ \E p \in SubPath : Off(p)
    \/ \E p \in Path, j \in Json : UpdatePut(p, j) \/ UpdateMerge(p, j)
    \/ UpDown

Spec == Init /\ [][Next]_vars

-----------------------------------------------------------------------------
(* Properties                                                              *)

\* Types; a freed subscription leaves no hashes behind for the next one.
TypeOK ==
    /\ Cache!TypeOK
    /\ up \in BOOLEAN
    /\ \A h \in Handle : reg[h] = NoHandle \/ reg[h] \in [path : SubPath, type : Types]
    /\ ref \in [SubPath -> 0..Cardinality(Handle)]
    /\ \A p \in SubPath : At(p) = {} => hash[p] = Null /\ kids[p] = NoKids

\* Whatever pushes arrive, above, at or below its path: a value callback that
\* was ever called has been told the value that the cache now holds.
SeenIsCurrent ==
    \A p \in SubPath : \A h \in OfType(p, {"value"}) : seen[h] \in {Never, Cur(cache, p)}

\* No child is announced twice, and every child that was announced and whose
\* removal was not is still there.
KnownChildExists ==
    \A p \in SubPath : \A h \in OfType(p, {"added"}), k \in Key :
        /\ told[h][k] \in {0, 1}
        /\ told[h][k] = 1 => k \in DOMAIN CurKids(cache, p)

\* The listen item of a path has one reference per callback: it is neither
\* unwatched under a live callback nor kept without any.
RefsMatchCallbacks == \A p \in SubPath : ref[p] = Cardinality(At(p))

(* Stated by the documentation, contradicted by the code.                  *)

\* webcom-on.h: a value callback is called each time a change occurs at its path.
ValueChangeHeard ==
    [][\A p \in SubPath : \A h \in OfType(p, {"value"}) :
            reg'[h] = reg[h] /\ Cur(cache', p) # Cur(cache, p)
                => seen'[h] = Cur(cache', p)]_vars
=============================================================================

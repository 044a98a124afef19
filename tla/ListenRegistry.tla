--------------------------- MODULE ListenRegistry ---------------------------
(***************************************************************************)
(* The listen registry (lib/datasync/listen/listen_registry.c) together    *)
(* with the connection, the requests under way and the server.             *)
(*                                                                         *)
(* The registry keeps one item per watched path and asks the server to     *)
(* listen to the topmost ones only: an item below a listening one is       *)
(* MASKED.  Listen requests are answered asynchronously, and the answer is *)
(* applied through a pointer to the item (on_listen_result's user).        *)
(*                                                                         *)
(* The connection is its life cycle (CnxLifecycle, which Connection        *)
(* implements).  The server handles the requests of a connection in order  *)
(* and answers each; since only the answers are visible to the client, a   *)
(* request is handled when its answer is delivered.  Answers find their    *)
(* request by number, see PendingRequests.                                 *)
(***************************************************************************)
EXTENDS DsPath, SequencesExt

CONSTANTS
    Key,            \* the keys of paths
    Path,           \* the paths the application watches
    Addr, NoAddr,   \* addresses of items; no address
    Refusable,      \* paths the server may refuse to listen to
    MemoryReuse,    \* may a new item get memory that an unanswered request points to?
    MaxRef,         \* bound: registrations per path
    MaxWire,        \* bound: requests under way when the application acts
    MaxDrops        \* bound: lost connections

ASSUME PathAssumption == IsFiniteSet(Path) /\ Path \subseteq Seq(Key)
ASSUME AddrAssumption == NoAddr \notin Addr
ASSUME RefusableAssumption == Refusable \subseteq Path /\ MemoryReuse \in BOOLEAN
ASSUME BoundsAssumption == MaxRef \in Nat /\ MaxWire \in Nat /\ MaxDrops \in Nat

VARIABLES
    state,      \* ctx->datasync.state
    status,     \* status of the item of each path, "ABSENT" if it has none
    ref,        \* item->ref
    addr,       \* address of the item
    wire,       \* requests sent and not yet answered, oldest first
    srv,        \* paths the server listens to for this connection
    drops       \* number of connections lost so far

vars == <<state, status, ref, addr, wire, srv, drops>>

Lifecycle == INSTANCE CnxLifecycle

Statuses == {"ABSENT", "REQUIRED", "PENDING", "ACTIVE", "FAILED", "MASKED"}
Masking == {"ACTIVE", "REQUIRED", "PENDING"}    \* the statuses is_masked() looks for

Request == [kind : {"listen", "unlisten"}, path : Path, addr : Addr \cup {NoAddr}]

Init ==
    /\ Lifecycle!Init
    /\ status = [p \in Path |-> "ABSENT"]
    /\ ref = [p \in Path |-> 0]
    /\ addr = [p \in Path |-> NoAddr]
    /\ wire = <<>>
    /\ srv = {}
    /\ drops = 0

-----------------------------------------------------------------------------
(* Mutants: plausible bugs of the definitions below.                       *)

\* Resuming handles only the requests that were under way.
ResumedPendingOnly == {p \in Path : status[p] = "PENDING"}

\* Suspending forgets the requests that were under way.
SuspendedActiveOnly == {p \in Path : status[p] = "ACTIVE"}

\* A request is taken for sent even if there is no connection.
RequestedAnyway == "PENDING"

\* Items below a removed one stay masked.
TopsNone(p) == {}

\* The server is never told to stop listening.
SendListensOnly(msgs) ==
    wire' = IF state = "CONNECTED"
            THEN wire \o SelectSeq(msgs, LAMBDA m : m.kind = "listen") ELSE wire

\* The item is kept when its last reference goes.
NeverGone(p, n) == FALSE

-----------------------------------------------------------------------------
(* Helpers                                                                 *)

is_masked(p) == \E q \in Path : StrictlyBelow(p, q) /\ status[q] \in Masking

ListenTo(p, a) == [kind |-> "listen", path |-> p, addr |-> a]
Unlisten(p) == [kind |-> "unlisten", path |-> p, addr |-> NoAddr]
Listens(S) == LET s == SetToSeq(S) IN [i \in DOMAIN s |-> ListenTo(s[i], addr[s[i]])]
Unlistens(S) == LET s == SetToSeq(S) IN [i \in DOMAIN s |-> Unlisten(s[i])]

\* The requests reach the wire only if wc_datasync_send_msg() is connected.
Send(msgs) == wire' = IF state = "CONNECTED" THEN wire \o msgs ELSE wire

\* The status of an item that is to be listened to.
Requested == IF state = "CONNECTED" THEN "PENDING" ELSE "REQUIRED"

\* wc_listen_suspend_all() and wc_listen_resume_all()
Suspended == {p \in Path : status[p] \in {"ACTIVE", "PENDING"}}
Resumed == {p \in Path : status[p] \in {"REQUIRED", "PENDING"}}

\* mask_listen_request(): what a listen request for p makes redundant.
ToMask(p) == {q \in Path : StrictlyBelow(q, p) /\ status[q] \in Masking}

\* unmask_listen_request(): the topmost masked items below p.  The registry is
\* sorted, so the loop meets an item before the ones below it.
Tops(p) ==
    LET masked == {q \in Path : StrictlyBelow(q, p) /\ status[q] = "MASKED"}
    IN  {q \in masked : \A r \in masked : ~StrictlyBelow(q, r)}

-----------------------------------------------------------------------------
(* Calls of the subscription API                                           *)

\* malloc(): memory of a freed item that an unanswered request still points
\* to, or memory nothing points to (one such address is as good as another).
Dangling == {a \in Addr : /\ \A q \in Path : addr[q] # a
                          /\ \E i \in DOMAIN wire : wire[i].addr = a}
Fresh == {a \in Addr : /\ \A q \in Path : addr[q] # a
                       /\ \A i \in DOMAIN wire : wire[i].addr # a}
Allocated == (IF MemoryReuse THEN Dangling ELSE {})
             \cup (IF Fresh = {} THEN {} ELSE {CHOOSE a \in Fresh : TRUE})

\* listen_registry_add_ex() of a path that has no item.
AddItem(p) ==
    /\ status[p] = "ABSENT"
    /\ \E a \in Allocated : addr' = [addr EXCEPT ![p] = a]

\* wc_datasync_watch() that needs a request: a new unmasked item, or one whose
\* request failed.  Redundant requests below it are then masked; the server is
\* told so only about the active ones.
WatchAndRequest(p) ==
    /\ ref[p] < MaxRef /\ Len(wire) < MaxWire
    /\ \/ AddItem(p) /\ ~is_masked(p)
       \/ status[p] \in {"REQUIRED", "FAILED"} /\ UNCHANGED addr
    /\ ref' = [ref EXCEPT ![p] = @ + 1]
    /\ status' = [q \in Path |-> IF q = p THEN Requested
                                 ELSE IF q \in ToMask(p) THEN "MASKED" ELSE status[q]]
    /\ Send(<<ListenTo(p, addr'[p])>>
                \o Unlistens({q \in ToMask(p) : status[q] = "ACTIVE"}))
    /\ UNCHANGED <<state, srv, drops>>

\* wc_datasync_watch() that needs none.
WatchOnly(p) ==
    /\ ref[p] < MaxRef
    /\ \/ /\ AddItem(p) /\ is_masked(p)
          /\ status' = [status EXCEPT ![p] = "MASKED"]
       \/ /\ status[p] \in {"PENDING", "ACTIVE", "MASKED"}
          /\ UNCHANGED <<addr, status>>
    /\ ref' = [ref EXCEPT ![p] = @ + 1]
    /\ UNCHANGED <<state, wire, srv, drops>>

\* listen_registry_unref(): does the item lose its last references?
Gone(p, n) == ref[p] = n

\* wc_datasync_unwatch_ex(): drops n registrations; without any left, the item
\* is freed, the server told, and what the item masked is requested.
wc_datasync_unwatch_ex(p, n) ==
    /\ status[p] # "ABSENT"
    /\ n \in 1..ref[p]
    /\ \/ /\ Gone(p, n)
          /\ Len(wire) < MaxWire
          /\ ref' = [ref EXCEPT ![p] = 0]
          /\ addr' = [addr EXCEPT ![p] = NoAddr]
          /\ status' = [q \in Path |-> IF q = p THEN "ABSENT"
                                       ELSE IF q \in Tops(p) THEN Requested ELSE status[q]]
          /\ Send(<<Unlisten(p)>> \o Listens(Tops(p)))
       \/ /\ ~Gone(p, n)
          /\ ref' = [ref EXCEPT ![p] = @ - n]
          /\ UNCHANGED <<status, addr, wire>>
    /\ UNCHANGED <<state, srv, drops>>

-----------------------------------------------------------------------------
(* The connection                                                          *)

Attempt ==
    /\ Lifecycle!Attempt
    /\ UNCHANGED <<status, ref, addr, wire, srv, drops>>

CloseRequest ==
    /\ drops < MaxDrops         \* it leads to a Drop
    /\ Lifecycle!CloseRequest
    /\ UNCHANGED <<status, ref, addr, wire, srv, drops>>

\* The handshake resumes every listen request.
Handshake ==
    /\ Lifecycle!Handshake
    /\ status' = [p \in Path |-> IF p \in Resumed THEN "PENDING" ELSE status[p]]
    /\ wire' = wire \o Listens(Resumed)
    /\ UNCHANGED <<ref, addr, srv, drops>>

\* The connection is lost, with it what was under way and the server's state.
Drop ==
    /\ drops < MaxDrops
    /\ drops' = drops + 1
    /\ Lifecycle!Drop
    /\ status' = [p \in Path |-> IF p \in Suspended THEN "REQUIRED" ELSE status[p]]
    /\ wire' = <<>>
    /\ srv' = {}
    /\ UNCHANGED <<ref, addr>>

\* on_listen_result(): the answer is applied through the pointer given with the
\* request, whatever the item it points to has become; if its memory is not in
\* use by an item, no item changes.
on_listen_result(a, ok) ==
    status' = [p \in Path |-> IF addr[p] # a THEN status[p]
                              ELSE IF ok THEN "ACTIVE" ELSE "FAILED"]

\* The answer to the oldest request; a closing connection ignores answers.
Answer ==
    /\ state = "CONNECTED"
    /\ wire # <<>>
    /\ wire' = Tail(wire)
    /\ LET m == Head(wire) IN
        \/ /\ m.kind = "listen"
           /\ srv' = srv \cup {m.path}
           /\ on_listen_result(m.addr, TRUE)
        \/ /\ m.kind = "listen"
           /\ m.path \in Refusable
           /\ on_listen_result(m.addr, FALSE)
           /\ UNCHANGED srv
        \/ /\ m.kind = "unlisten"
           /\ srv' = srv \ {m.path}
           /\ UNCHANGED status
    /\ UNCHANGED <<state, ref, addr, drops>>

-----------------------------------------------------------------------------
Next ==
    \/ \E p \in Path : WatchAndRequest(p) \/ WatchOnly(p)
    \/ \E p \in Path, n \in 1..MaxRef : wc_datasync_unwatch_ex(p, n)
    \/ Attempt
    \/ CloseRequest
    \/ Handshake
    \/ Drop
    \/ Answer

Spec == Init /\ [][Next]_vars

(***************************************************************************)
(* Fairness: the server answers, attempts are made and handshakes arrive   *)
(* while the connection lasts (Connection!EventuallyConnected); a request  *)
(* to close ends the connection (Connection!CloseCompletes).               *)
(***************************************************************************)
FairSpec ==
    /\ Spec
    /\ WF_vars(Attempt)
    /\ WF_vars(Handshake)
    /\ WF_vars(Answer)
    /\ WF_vars(state = "DISCONNECTING" /\ Drop)

-----------------------------------------------------------------------------
(* Properties                                                              *)

\* Types; an item exists exactly while it is referenced and has an address.
TypeOK ==
    /\ state \in Lifecycle!CnxStates
    /\ status \in [Path -> Statuses]
    /\ ref \in [Path -> 0..MaxRef]
    /\ addr \in [Path -> Addr \cup {NoAddr}]
    /\ wire \in Seq(Request)
    /\ srv \subseteq Path
    /\ drops \in 0..MaxDrops
    /\ \A p \in Path : /\ status[p] = "ABSENT" <=> ref[p] = 0
                       /\ status[p] = "ABSENT" <=> addr[p] = NoAddr

\* Once connected, nothing waits to be requested: whatever was watched while
\* disconnected, connecting or closing has been asked for again.
ResubscribedWhenUp == state = "CONNECTED" => \A p \in Path : status[p] # "REQUIRED"

\* Without a connection nothing is believed to be listened to or under way.
SuspendedWhenDown ==
    state \in {"DISCONNECTED", "CONNECTING"}
        => \A p \in Path : status[p] \notin {"ACTIVE", "PENDING"}

\* An item that waits for an answer has a request under way that will be
\* applied to it, even if its memory was used before or it was masked and
\* unmasked meanwhile: no item waits for ever.
PendingIsOutstanding ==
    \A p \in Path : status[p] = "PENDING" =>
        \E i \in DOMAIN wire : wire[i].kind = "listen" /\ wire[i].addr = addr[p]

\* A masked item has an item above it that is listened to, or was refused:
\* masking never loses track of who covers whom.
MaskedHasMasker ==
    \A p \in Path : status[p] = "MASKED" =>
        \E q \in Path : StrictlyBelow(p, q) /\ status[q] \in Masking \cup {"FAILED"}

\* Once all requests are answered, the server listens to no path that is not
\* watched any more, whatever was masked or unanswered when it was unwatched.
UnwatchedIsUnlistened ==
    state = "CONNECTED" /\ wire = <<>> => \A p \in srv : status[p] # "ABSENT"

\* Every watch settles: the server accepts or refuses it, or another item
\* takes over, unless it is given up.
WatchSettles ==
    \A p \in Path : status[p] \in {"REQUIRED", "PENDING"}
        ~> status[p] \in {"ABSENT", "ACTIVE", "FAILED", "MASKED"}

(* Stated by the documentation, contradicted by the code.                  *)

\* webcom-on.h: a callback is called each time a change occurs at its path; so
\* once all requests are answered, the server listens to every watched path
\* that it did not refuse, or to one above it.
WatchedIsServed ==
    state = "CONNECTED" /\ wire = <<>> =>
        \A p \in Path : status[p] \notin {"ABSENT", "FAILED"} =>
            \E q \in srv : starts_with(p, q)
=============================================================================

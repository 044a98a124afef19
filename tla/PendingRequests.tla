-------------------------- MODULE PendingRequests ---------------------------
(***************************************************************************)
(* The requests of the application (lib/datasync/request.c) and the        *)
(* answers of the server: a request gets a number, an entry in a hash      *)
(* table of linked lists, and is sent as JSON; a response is parsed and    *)
(* reported to the callback of its entry, which may send further requests, *)
(* into the very list its own entry was taken from.  The answers arrive in *)
(* any order, or never if the connection is lost.                          *)
(***************************************************************************)
EXTENDS Messages, PushId, SequencesExt

CONSTANTS
    Slots,          \* size of the table, 1 << PENDING_ACTION_HASH_FACTOR
    Requested,      \* the types of action that the application requests
    Args,           \* the arguments it gives: path (a text), data and cred
    Incoming,       \* JSON of messages of the server
    Slash,          \* the character '/'
    MaxReq,         \* bound: number of requests
    MaxTime         \* bound: time of the server, in milliseconds

ASSUME SlotsAssumption ==
    /\ Slots \in Nat \ {0} /\ MaxReq \in Nat /\ MaxTime \in Nat \ {0}
    /\ Requested \subseteq ActionType

VARIABLES
    up,         \* ctx->datasync.state = WC_CNX_STATE_CONNECTED
    alive,      \* the context has not been destroyed
    last,       \* ctx->datasync.last_req
    table,      \* ctx->datasync.pending_req_table, each list from its head
    wire,       \* the JSON of the requests sent and not yet answered
    answered,   \* numbers of the requests whose entry was taken for an answer
    lost,       \* numbers of the requests that were not sent, were sent on a
                \* connection that is gone, or whose answer the parser refused
    unstored,   \* numbers of the requests that malloc() had no entry for
    leaked,     \* fields of accepted messages that were left allocated
    pids,       \* ctx->datasync.pids
    time        \* wc_datasync_server_now()

cnx == <<up, alive>>
book == <<last, table, unstored>>
fate == <<wire, answered, lost>>
vars == <<cnx, book, fate, leaked, pids, time>>

Id == 1..MaxReq

Init ==
    /\ up = FALSE
    /\ alive = TRUE
    /\ last = 0
    /\ table = [s \in 0..Slots - 1 |-> <<>>]
    /\ wire = {}
    /\ answered = {}
    /\ lost = {}
    /\ unstored = {}
    /\ leaked = {}
    /\ pids = NoPush
    /\ time = 1

-----------------------------------------------------------------------------
(* Mutants: plausible bugs of the definitions below.                       *)

\* The list is cut at the entry that is taken out.
UnlinkedCut(list, i) == SubSeq(list, 1, i - 1)

\* The entry is left in its list.
UnlinkedKept(list, i) == list

\* New entries replace the list.
StoredAlone(list, id) == <<id>>

-----------------------------------------------------------------------------
pending_req_hash(id) == id % Slots

\* wc_datasync_next_reqnum(): numbers start at 1.
next_reqnum == last + 1

\* wc_req_store_pending(): a new entry becomes the head of its list.
Stored(list, id) == <<id>> \o list

\* wc_datasync_req_get_pending(): the i-th entry is unlinked.
Unlinked(list, i) == RemoveAt(list, i)

\* wc_datasync_send_msg(): nothing is sent unless the connection is up, and
\* lws_write() may fail.
send_msg(type, r, req) ==
    \/ up /\ wire' = wire \cup {msg_to_json(type, r, req)} /\ UNCHANGED lost
    \/ lost' = lost \cup {r} /\ UNCHANGED wire

\* DEFINE_REQ_FUNC: the entry is stored before the request is sent, and stays
\* there if it is not (the caller gets -1).  Without memory there is no entry,
\* but the request is sent all the same.
Submit(type, req) ==
    LET id == next_reqnum
        s == pending_req_hash(id)
    IN  /\ alive
        /\ last < MaxReq
        /\ last' = id
        /\ \/ table' = [table EXCEPT ![s] = Stored(@, id)] /\ UNCHANGED unstored
           \/ unstored' = unstored \cup {id} /\ UNCHANGED table
        /\ send_msg(type, id, req)
        /\ UNCHANGED <<cnx, answered, leaked, time>>

Request(type, req) == Submit(type, req) /\ UNCHANGED pids

\* wc_datasync_push(): a put below the path, under a new key.
Push(req) ==
    \E s \in Advanced(pids, time) :
        /\ pids' = s
        /\ Submit("PUT", [req EXCEPT !.path = @ \o <<Slash, push_id(s)>>])

Number(j) == j.object.d.object.r.int

\* The answers to a request: a status, and data that the parser insists on.
Answers(id) ==
    {Obj([t |-> Str("d"), d |-> Obj([r |-> Long(id), b |-> b])]) :
        b \in {Obj([s |-> Str("ok"), d |-> JNull]), Obj([s |-> Str("ok")])}}

\* What the parser makes of each of them, and of the other messages.
Parsed == [answer \in UNION {Answers(id) : id \in Id} |-> parse_msg_json(answer)]
Heard == {parse_msg_json(j) : j \in Incoming}

\* wc_datasync_msg_free(), once an accepted message has been processed: the texts
\* among its fields that are not freed are leaked.
Free(msg) == leaked' = leaked \cup ((DOMAIN msg.u \ {"r", "ts"}) \ msg_free(msg.type))

\* _wc_datasync_process_message(), for a response;
\* wc_datasync_req_response_dispatch(): the first entry with the number of the
\* response is unlinked and its callback called; without such an entry the
\* response is ignored.
Dispatch(response) ==
    LET id == response.u.r.int
        s == pending_req_hash(id)
        found == {i \in DOMAIN table[s] : table[s][i] = id}
    IN  \/ /\ found # {}
           /\ table' = [table EXCEPT ![s] = Unlinked(@, Min(found))]
           /\ answered' = answered \cup {id}
        \/ /\ found = {}
           /\ UNCHANGED <<table, answered>>

\* _wc_datasync_process_data(): a message that the parser refuses is dropped.
Receive(j, answer) ==
    LET msg == Parsed[answer]
    IN  /\ up /\ alive
        /\ j \in wire
        /\ wire' = wire \ {j}
        /\ \/ /\ msg.ok /\ msg.type = <<"DATA", "RESPONSE">>
              /\ Dispatch(msg)
              /\ Free(msg)
              /\ UNCHANGED lost
           \/ /\ ~msg.ok
              /\ lost' = lost \cup {Number(j)}
              /\ UNCHANGED <<table, answered, leaked>>
        /\ UNCHANGED <<cnx, last, unstored, pids, time>>

Respond(id) ==
    \E j \in wire, answer \in Answers(id) : Number(j) = id /\ Receive(j, answer)

\* Any other message but a handshake: pushes go to the cache and the event
\* registry, the rest to the application.
Hear(msg) ==
    /\ up /\ alive
    /\ \/ msg.ok /\ msg.type[Len(msg.type)] \notin {"RESPONSE", "HANDSHAKE"} /\ Free(msg)
       \/ ~msg.ok /\ UNCHANGED leaked
    /\ UNCHANGED <<cnx, book, fate, pids, time>>

\* The connection comes and goes; the table stays.  The handshake sets the
\* clock by that of the server, forward or back.
Up(msg) ==
    /\ ~up /\ alive
    /\ msg.ok /\ msg.type = <<"CTRL", "HANDSHAKE">>
    /\ up' = TRUE
    /\ time' \in 1..MaxTime
    /\ Free(msg)
    /\ UNCHANGED <<alive, book, fate, pids>>

Drop ==
    /\ up /\ alive
    /\ up' = FALSE
    /\ lost' = lost \cup {Number(j) : j \in wire}
    /\ wire' = {}
    /\ UNCHANGED <<alive, book, answered, leaked, pids, time>>

Tick ==
    /\ alive /\ time < MaxTime
    /\ time' = time + 1
    /\ UNCHANGED <<cnx, book, fate, leaked, pids>>

\* wc_datasync_context_cleanup(): the entries are freed, their callbacks never
\* called.
Destroy ==
    /\ alive
    /\ alive' = FALSE /\ up' = FALSE
    /\ table' = [s \in DOMAIN table |-> <<>>]
    /\ lost' = lost \cup {Number(j) : j \in wire}
    /\ wire' = {}
    /\ UNCHANGED <<last, answered, unstored, leaked, pids, time>>

Next ==
    \/ \E type \in Requested, req \in Args : Request(type, req)
    \/ \E req \in Args : Push(req)
    \/ \E id \in Id : Respond(id)
    \/ \E msg \in Heard : Hear(msg) \/ Up(msg)
    \/ Drop \/ Tick \/ Destroy

Spec == Init /\ [][Next]_vars

\* The server answers what it gets while the connection lasts.
FairSpec == Spec /\ \A id \in Id : WF_vars(Respond(id))

-----------------------------------------------------------------------------
(* Properties                                                              *)

Entries == UNION {ToSet(table[s]) : s \in DOMAIN table}
Waiting == {Number(j) : j \in wire}

\* Types; an entry is in the list of its hash, and only once.
TypeOK ==
    /\ up \in BOOLEAN /\ alive \in BOOLEAN
    /\ last \in 0..MaxReq
    /\ Waiting \cup answered \cup lost \cup unstored \subseteq 1..last
    /\ \A s \in DOMAIN table :
        /\ IsInjective(table[s])
        /\ \A i \in DOMAIN table[s] : pending_req_hash(table[s][i]) = s
    /\ pids.last_time \in 0..MaxTime /\ <<pids.high, pids.low>> \in Rand
    /\ time \in 1..MaxTime

\* The entries are the requests that wait for an answer and the ones that will
\* never get one, as far as memory was available for them: no entry of a
\* waiting request is lost when others come and go in its list, and none stays
\* behind once its request was answered.
TableMatchesWire == TypeOK /\ (alive => Entries = (Waiting \cup lost) \ unstored)

\* The table implements the book of requests.
Book == INSTANCE RequestBook WITH waiting <- Entries
ImplementsBook == Book!Spec

\* Every request that is sent is answered through its entry, unless its
\* connection is lost or its answer is not a response to the parser.
AnswersArrive == \A id \in Id : id \in Waiting \ unstored ~> id \in answered \cup lost

\* Each push id comes after the one before it (webcom-req.h on push: "unique,
\* time-ordered"; test-misc.c: "In case of time collision, the push ID are
\* generated in ascending order"), unless the clock was set back or all the
\* random numbers of a millisecond are used up.
PushAscends ==
    [][ (/\ pids' # pids
         /\ pids'.last_time >= pids.last_time
         /\ pids'.last_time = pids.last_time => pids' # [pids EXCEPT !.high = 0, !.low = 0])
        => Precedes(push_id(pids), push_id(pids')) ]_vars

\* The parser of the SDK finds in the JSON of the next request, whatever it is,
\* its type and its number: the two tables of codes agree.
CodesAgree ==
    \A type \in ActionType, req \in Args :
        LET msg == parse_msg_json(msg_to_json(type, next_reqnum, req))
        IN  msg.type = <<"DATA", "ACTION", type>> /\ msg.u.r = Long(next_reqnum)

\* However many messages of whatever kind are processed, nothing that the parser
\* allocated for an accepted one is left behind.
FreedIsAllocated == leaked = {}
=============================================================================

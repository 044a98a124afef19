----------------------------- MODULE Connection -----------------------------
(***************************************************************************)
(* The datasync connection (lib/datasync/datasync.c): the callback that    *)
(* libwebsockets (lws) calls, the reconnection and keepalive timers that   *)
(* the event loop runs for the SDK, and the incremental message parser.    *)
(* Everything runs in the event loop's thread: an action is one call into  *)
(* the SDK, and actions interleave in any order the socket, the timers and *)
(* the application produce.  Messages are abstracted to the two facts that *)
(* matter here: the handshake is the first message of a connection, and a  *)
(* message longer than WC_RX_BUF_LEN reaches the parser in pieces.         *)
(***************************************************************************)
EXTENDS Integers

CONSTANT LongMessages   \* may the server send messages longer than WC_RX_BUF_LEN?

ASSUME LongMessagesAssumption == LongMessages \in BOOLEAN

VARIABLES
    state,      \* ctx->datasync.state
    sock,       \* lws: no websocket, one being set up, or an open one
    hs,         \* has the handshake of the current websocket been delivered?
    parser,     \* ctx->datasync.parser: "none" (NULL), "synced" (holds a prefix of
                \* the message being received), "stale" (holds a prefix from a dead
                \* connection), "nested" (stale, then swallowed a whole object)
    recon,      \* delay of the armed reconnection timer, or NotArmed
    ka,         \* is the keepalive timer armed?
    backoff,    \* ctx->datasync.ws_next_reconnect_timer
    writeReq,   \* lws: a writable callback is requested for the websocket
    wrote       \* state of the websocket at the last lws_write(), or "nothing"

vars == <<state, sock, hs, parser, recon, ka, backoff, writeReq, wrote>>

NotArmed == -1
BackoffCap == 256       \* 1 << 8
Backoffs == {0, 1, 2, 4, 8, 16, 32, 64, 128, 256}
CnxStates == {"DISCONNECTED", "CONNECTING", "CONNECTED", "DISCONNECTING"}

Init ==
    /\ state = "DISCONNECTED"
    /\ sock = "none"
    /\ hs = FALSE
    /\ parser = "none"
    /\ recon = NotArmed
    /\ ka = FALSE
    /\ backoff = 0              \* the context is calloc()ed
    /\ writeReq = FALSE
    /\ wrote = "nothing"

-----------------------------------------------------------------------------
(* Mutants: plausible bugs of the definitions below.                       *)

\* The failed attempt leaves the state as it is.
ConnectionErrorKeepsState(again) ==
    /\ sock = "opening"
    /\ sock' = "none"
    /\ writeReq' = FALSE
    /\ IF again THEN recon' = backoff ELSE UNCHANGED recon
    /\ UNCHANGED <<state, hs, parser, ka, backoff, wrote>>

\* The keepalive timer survives the connection.
DropKeepsKeepalive(again) ==
    /\ state' = "DISCONNECTED"
    /\ sock' = "none"
    /\ hs' = FALSE
    /\ parser' = parser
    /\ writeReq' = FALSE
    /\ IF again THEN recon' = backoff ELSE UNCHANGED recon
    /\ UNCHANGED <<ka, backoff, wrote>>

\* Messages are written in any state.
SendMsgUnguarded ==
    /\ wrote' = sock
    /\ UNCHANGED <<state, sock, hs, parser, recon, ka, backoff, writeReq>>

\* The backoff is doubled past its cap.
ScheduleReconnectUncapped ==
    /\ recon' = backoff
    /\ backoff' = IF backoff <= BackoffCap THEN 2 * backoff ELSE backoff

\* Closing forgets to ask lws for a writable callback.
CloseCnxSilent ==
    /\ state \in {"CONNECTED", "CONNECTING"}
    /\ state' = "DISCONNECTING"
    /\ UNCHANGED <<sock, hs, parser, recon, ka, backoff, writeReq, wrote>>

\* A connection is declared up as soon as the websocket is.
EstablishedConnects ==
    /\ sock = "opening"
    /\ sock' = "open"
    /\ state' = "CONNECTED"
    /\ UNCHANGED <<hs, parser, recon, ka, backoff, writeReq, wrote>>

\* A stale parser never reports an error.
GarbledForEver == {"stale"}

-----------------------------------------------------------------------------
(* Helpers                                                                 *)

\* Arms the reconnection timer and doubles the next delay, up to the cap.  A timer
\* that is armed already is taken to be re-armed: what ev_timer_init() makes of an
\* active timer (libev.c:135) depends on the heap of libev.
_wc_datasync_schedule_reconnect ==
    /\ recon' = backoff
    /\ backoff' = IF backoff < BackoffCap THEN 2 * backoff ELSE backoff

\* The application's answer decides whether a new attempt is scheduled.
Reschedule(again) ==
    \/ again /\ _wc_datasync_schedule_reconnect
    \/ ~again /\ UNCHANGED <<recon, backoff>>

\* LWS_CALLBACK_CLOSED: the parser is left alone, so what it holds of an
\* unfinished message is stale from now on.
Drop(again) ==
    /\ state' = "DISCONNECTED"
    /\ sock' = "none"
    /\ hs' = FALSE
    /\ parser' = IF parser = "synced" THEN "stale" ELSE parser
    /\ ka' = FALSE
    /\ writeReq' = FALSE
    /\ Reschedule(again)
    /\ UNCHANGED wrote

\* Fed with the start of a new message, a stale parser either fails or takes
\* it for a value of the object it is in; after a value it must fail.
Garbled == {"none"} \cup (IF parser = "stale" THEN {"nested"} ELSE {})

-----------------------------------------------------------------------------
(* Calls of the application                                                *)

\* wc_datasync_connect(): the attempt itself is made by the timer.
wc_datasync_connect ==
    /\ _wc_datasync_schedule_reconnect
    /\ UNCHANGED <<state, sock, hs, parser, ka, writeReq, wrote>>

\* wc_datasync_close_cnx(): only a warning in the two other states.
wc_datasync_close_cnx ==
    /\ state \in {"CONNECTED", "CONNECTING"}
    /\ state' = "DISCONNECTING"
    /\ writeReq' = TRUE
    /\ UNCHANGED <<sock, hs, parser, recon, ka, backoff, wrote>>

\* wc_datasync_send_msg(): returns -1 unless connected.
wc_datasync_send_msg ==
    /\ state = "CONNECTED"
    /\ wrote' = sock
    /\ UNCHANGED <<state, sock, hs, parser, recon, ka, backoff, writeReq>>

-----------------------------------------------------------------------------
(* Timers                                                                  *)

\* The one-shot reconnection timer fires: _wc_datasync_connect() starts an
\* attempt when disconnected, and only warns otherwise.
ReconnectTimer ==
    /\ recon # NotArmed
    /\ recon' = NotArmed
    /\ \/ /\ state = "DISCONNECTED"
          /\ state' = "CONNECTING"
          /\ sock' = "opening"
       \/ /\ state # "DISCONNECTED"
          /\ UNCHANGED <<state, sock>>
    /\ UNCHANGED <<hs, parser, ka, backoff, writeReq, wrote>>

\* The keepalive timer fires: wc_datasync_keepalive() writes unconditionally.
KeepaliveTimer ==
    /\ ka
    /\ wrote' = sock
    /\ UNCHANGED <<state, sock, hs, parser, recon, ka, backoff, writeReq>>

-----------------------------------------------------------------------------
(* lws callbacks                                                           *)

\* LWS_CALLBACK_CLIENT_ESTABLISHED
Established ==
    /\ sock = "opening"
    /\ sock' = "open"
    /\ UNCHANGED <<state, hs, parser, recon, ka, backoff, writeReq, wrote>>

\* LWS_CALLBACK_CLIENT_CONNECTION_ERROR
ConnectionError(again) ==
    /\ sock = "opening"
    /\ state' = "DISCONNECTED"
    /\ sock' = "none"
    /\ writeReq' = FALSE
    /\ Reschedule(again)
    /\ UNCHANGED <<hs, parser, ka, wrote>>

\* LWS_CALLBACK_CLOSED after the peer or the network closed the websocket.
Closed(again) == sock = "open" /\ Drop(again)

\* LWS_CALLBACK_CLIENT_WRITEABLE while disconnecting: the callback returns -1,
\* lws closes the websocket and calls back with LWS_CALLBACK_CLOSED at once.
Writeable(again) ==
    /\ sock = "open"
    /\ writeReq
    /\ state = "DISCONNECTING"
    /\ Drop(again)

\* LWS_CALLBACK_CLIENT_RECEIVE of the handshake, which fits in one piece.
\* With no parser left over, it is processed: the connection is up, the listen
\* requests are sent again, the keepalive timer starts, the backoff is reset.
ReceiveHandshake ==
    /\ sock = "open"
    /\ ~hs
    /\ state # "DISCONNECTING"
    /\ hs' = TRUE
    /\ \/ /\ parser = "none"
          /\ state' = "CONNECTED"
          /\ ka' = TRUE
          /\ backoff' = 1
          /\ wrote' \in {wrote, sock}       \* wc_listen_resume_all()
          /\ UNCHANGED parser
       \/ /\ parser # "none"
          /\ parser' \in Garbled
          /\ UNCHANGED <<state, ka, backoff, wrote>>
    /\ UNCHANGED <<sock, recon, writeReq>>

\* LWS_CALLBACK_CLIENT_RECEIVE of the first piece of a long message.  The
\* server has nothing to say to a client that has not sent it anything.
ReceiveFirstPiece ==
    /\ LongMessages
    /\ state = "CONNECTED"
    /\ parser = "none"
    /\ parser' = "synced"
    /\ UNCHANGED <<state, sock, hs, recon, ka, backoff, writeReq, wrote>>

\* ... and of the last one: the message is complete, the parser is freed.
ReceiveLastPiece ==
    /\ state = "CONNECTED"
    /\ parser = "synced"
    /\ parser' = "none"
    /\ UNCHANGED <<state, sock, hs, recon, ka, backoff, writeReq, wrote>>

-----------------------------------------------------------------------------
Next ==
    \/ wc_datasync_connect
    \/ wc_datasync_close_cnx
    \/ wc_datasync_send_msg
    \/ ReconnectTimer
    \/ KeepaliveTimer
    \/ Established
    \/ \E again \in BOOLEAN : ConnectionError(again) \/ Closed(again) \/ Writeable(again)
    \/ ReceiveHandshake
    \/ ReceiveFirstPiece
    \/ ReceiveLastPiece

Spec == Init /\ [][Next]_vars

(***************************************************************************)
(* Fairness.  The event loop runs armed timers and ready sockets; lws ends *)
(* every attempt (its connection timeout) and delivers a requested         *)
(* writable callback; the server closes a connection that stays silent for *)
(* a minute (webcom-datasync.h).  That attempts succeed and handshakes     *)
(* arrive again and again is the assumption of a working network.          *)
(***************************************************************************)
OpeningEnds == Established \/ \E again \in BOOLEAN : ConnectionError(again)
SilentClose == hs /\ state = "CONNECTING" /\ \E again \in BOOLEAN : Closed(again)

EventLoopFairness ==
    /\ WF_vars(ReconnectTimer)
    /\ WF_vars(OpeningEnds)
    /\ WF_vars(\E again \in BOOLEAN : Writeable(again))
    /\ WF_vars(SilentClose)

NetworkFairness == SF_vars(Established) /\ SF_vars(ReceiveHandshake)

FairSpec == Spec /\ EventLoopFairness /\ NetworkFairness

-----------------------------------------------------------------------------
(* Properties                                                              *)

\* Types.  The delay never leaves the powers of two up to 256 seconds (or the
\* initial 0), which bounds 1000 * ws_next_reconnect_timer in the unsigned
\* arithmetic of _wc_datasync_schedule_reconnect().
TypeOK ==
    /\ state \in CnxStates
    /\ sock \in {"none", "opening", "open"}
    /\ hs \in BOOLEAN
    /\ parser \in {"none", "synced", "stale", "nested"}
    /\ recon \in Backoffs \cup {NotArmed}
    /\ ka \in BOOLEAN
    /\ backoff \in Backoffs
    /\ writeReq \in BOOLEAN
    /\ wrote \in {"nothing", "none", "opening", "open"}

\* The state field never lies about the websocket: it is DISCONNECTED exactly
\* when there is none, so that _wc_datasync_connect(), which only looks at the
\* field, never starts a second websocket next to a live one; and it is
\* CONNECTED only on an open websocket whose handshake was received.
SocketMatchesState ==
    /\ state = "DISCONNECTED" <=> sock = "none"
    /\ state = "CONNECTED" => sock = "open" /\ hs

\* Every lws_write(), also the one of the keepalive timer that checks nothing,
\* is made on an open websocket, never on one that is gone or not yet set up.
WritesHitOpenSocket == wrote \in {"nothing", "open"}

\* A usable connection is always kept alive, and the keepalive timer never
\* outlives the websocket whose handshake armed it.
KeepaliveTracksSocket ==
    /\ state = "CONNECTED" => ka
    /\ ka => sock = "open" /\ hs

\* The keepalive timer is armed only while it is stopped: libev's
\* ev_timer_init(), which SET_TIMER calls, must not be given an active timer.
KeepaliveArmedOnce ==
    [][state # "CONNECTED" /\ state' = "CONNECTED" => ~ka /\ ka']_vars

\* What the rest of the SDK may rely on.
Lifecycle == INSTANCE CnxLifecycle
ImplementsLifecycle == Lifecycle!Spec

\* A close request is not lost, even one made before the websocket was open:
\* the connection ends up disconnected.
CloseCompletes == state = "DISCONNECTING" ~> state = "DISCONNECTED"

\* A scheduled attempt ends up connected, whatever stale input a dead
\* connection has left in the parser and however many attempts it takes, unless
\* the application closes the connection or declines to reconnect.
EventuallyConnected ==
    recon # NotArmed ~> \/ state \in {"CONNECTED", "DISCONNECTING"}
                        \/ state = "DISCONNECTED" /\ recon = NotArmed

(* Stated by the documentation, contradicted by the code.                  *)

\* webcom-base.h on WC_EVENT_ON_SERVER_HANDSHAKE: the event indicates that the
\* server has sent its handshake; so a delivered handshake makes the
\* connection usable unless it is being closed.
HandshakeHeard ==
    sock = "open" /\ hs /\ state # "DISCONNECTING" => state = "CONNECTED"
=============================================================================

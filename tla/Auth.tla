-------------------------------- MODULE Auth --------------------------------
(***************************************************************************)
(* The authentication service (lib/auth/auth.c) with the event loop it     *)
(* runs on (lib/libev.c): a transfer of libcurl, driven by the socket and  *)
(* the timer that libcurl asks the SDK to watch for it, and the reply of   *)
(* the server, parsed as it comes.  libcurl is external: when it is called *)
(* for a transfer it opens, changes and closes sockets, hands over pieces  *)
(* of the body, ends the transfer, for which it has a timeout, and asks at *)
(* last for its timer.  The answer to a timeout of 0 is to call it again,  *)
(* from within the first call (libcurl refuses that from version 7.84 on,  *)
(* which is not modelled).                                                 *)
(*                                                                         *)
(* A call that breaks the contract of a library (memory used after it was  *)
(* freed, a watcher initialised while active) has no defined outcome: it   *)
(* is recorded in broken, and ends the behaviour.                          *)
(***************************************************************************)
EXTENDS Naturals, Sequences

CONSTANTS
    Socket,         \* file descriptors of libcurl
    NoSocket,       \* no file descriptor is watched
    Content,        \* what a body may say: sets of the facts below
    MaxPieces,      \* bound: pieces of a body
    MaxSteps        \* bound: steps of libcurl before its timeout

\* What _wc_auth_parse_json() looks for in a body.
Fact == {"success_false", "token", "user"}

ASSUME AuthAssumption ==
    /\ NoSocket \notin Socket
    /\ Content \subseteq SUBSET Fact
    /\ MaxPieces \in Nat \ {0} /\ MaxSteps \in Nat

VARIABLES
    handle,     \* ctx->auth.auth_curl_handle: "null"; "live" while its transfer
                \* runs; then "ended", or "freed" if it was cleaned up
    multi,      \* ctx->auth.auth_curl_multi_handle is not NULL
    url,        \* ctx->auth.auth_url is not NULL
    parser,     \* ctx->auth.auth_parser: "null", "fed", or "freed"
    heard,      \* the callbacks on_auth_success and on_auth_error, in order
    call,       \* who has called libcurl: "none", "service" (wc_auth_service()),
                \* or "nested" (curl_timer_cb(), from within another call)
    body,       \* the body of the reply
    sent,       \* pieces of it that libcurl has handed over
    steps,      \* steps of libcurl since the transfer started
    known,      \* sockets that libcurl has asked to watch (curl_multi_assign)
    watch,      \* lid->fd_watcher[WC_POLL_AUTH]: its descriptor, while active
    timer,      \* lid->timer_events[WC_TIMER_AUTH] is active
    broken      \* the contracts that were broken

sdk == <<handle, multi, url, parser, heard>>
curl == <<body, sent, steps, known>>
loop == <<watch, timer>>
vars == <<sdk, call, curl, loop, broken>>

\* A body: is it JSON, what it says, the pieces its text comes in, and whether
\* more text (a newline) comes in a piece of its own after it.
Body == [json : BOOLEAN, content : Content, pieces : 0..MaxPieces, tail : BOOLEAN]
NoBody == [json |-> TRUE, content |-> {}, pieces |-> 0, tail |-> FALSE]
Total(b) == b.pieces + IF b.tail /\ b.pieces > 0 THEN 1 ELSE 0

Init ==
    /\ handle = "null" /\ multi = FALSE /\ url = FALSE /\ parser = "null"
    /\ heard = <<>> /\ call = "none"
    /\ body = NoBody /\ sent = 0 /\ steps = 0 /\ known = {}
    /\ watch = NoSocket /\ timer = FALSE
    /\ broken = {}

-----------------------------------------------------------------------------
(* Mutants: plausible bugs of the definitions below.                       *)

\* The token is looked for first.
ParseTokenFirst(content) == IF "token" \in content THEN "on_auth_success" ELSE "on_auth_error"

\* Removals are not passed on.
DelTimerIgnored == UNCHANGED timer

\* A socket that is closed stays watched.
DelFdIgnored == UNCHANGED watch

\* A timeout of libcurl is not passed on.
SetTimerIgnored == UNCHANGED <<timer, broken>>

-----------------------------------------------------------------------------
(* lib/libev.c                                                             *)

\* WC_EVENT_ADD_FD: ev_io_init() is for a watcher that is not active.
AddFd(s) ==
    /\ watch' = s
    /\ broken' = IF watch = NoSocket THEN broken ELSE broken \cup {"watcher"}

\* WC_EVENT_MODIFY_FD stops the watcher first.
ModifyFd(s) == watch' = s /\ UNCHANGED broken

\* WC_EVENT_DEL_FD, whatever the descriptor is.
DelFd == watch' = NoSocket

\* WC_EVENT_SET_TIMER: ev_timer_init() is for a timer that is not active.
SetTimer ==
    /\ timer' = TRUE
    /\ broken' = IF timer THEN broken \cup {"timer"} ELSE broken

\* WC_EVENT_DEL_TIMER
DelTimer == timer' = FALSE

-----------------------------------------------------------------------------
(* lib/auth/auth.c                                                         *)

\* _wc_auth_parse_json(): the callback that the event loop calls for what the
\* body says, and with what.
parse_json(content) ==
    IF "success_false" \in content THEN "on_auth_error"
    ELSE IF "token" \in content THEN "on_auth_success"
    ELSE "on_auth_error"

\* _wc_auth_parse_body(): what the parser makes of one more piece.
parse_body ==
    IF parser = "freed" THEN "undefined"
    ELSE IF ~body.json THEN "error"
    ELSE IF sent + 1 = body.pieces THEN "success"
    ELSE "continue"

\* curl_write_cb(), for one more piece of the body.  A complete body frees the
\* parser and leaves the pointer; the text of a syntax error is the library's
\* own, and is freed nevertheless.
curl_write_cb ==
    /\ sent < Total(body)
    /\ sent' = sent + 1
    /\ \/ /\ parse_body = "undefined"
          /\ broken' = broken \cup {"parser"}
          /\ UNCHANGED <<parser, heard>>
       \/ /\ parse_body = "error"
          /\ heard' = Append(heard, "on_auth_error")
          /\ broken' = broken \cup {"error"}
          /\ parser' = "fed"
       \/ /\ parse_body = "success"
          /\ heard' = Append(heard, parse_json(body.content))
          /\ parser' = "freed"
          /\ UNCHANGED broken
       \/ /\ parse_body = "continue"
          /\ parser' = "fed"
          /\ UNCHANGED <<heard, broken>>

\* curl_sock_cb(): ADD the first time, MODIFY from then on.
curl_sock_cb(s) ==
    /\ known' = known \cup {s}
    /\ IF s \in known THEN ModifyFd(s) ELSE AddFd(s)

curl_sock_remove(s) == known' = known \ {s} /\ DelFd

\* curl_timer_cb(): a timeout of 0 ("now") calls libcurl at once and touches no
\* timer; the others return to the loop with a timer set, or with none.
curl_timer_cb(timeout) ==
    \/ timeout = "now" /\ call' = "nested" /\ UNCHANGED <<timer, broken>>
    \/ timeout = "later" /\ call' = "none" /\ SetTimer
    \/ timeout = "never" /\ call' = "none" /\ DelTimer /\ UNCHANGED broken

\* wc_auth_service(), once the transfer is not running any more.
Cleanup ==
    /\ handle' = "freed"
    /\ broken' = IF handle = "freed" THEN broken \cup {"handle"} ELSE broken

\* wc_auth_with_password(): another call is refused, also after the transfer
\* has ended, as the handle is never reset.  The parser is that of an earlier
\* reply; the URL is made with the multi handle, and only then.  Given the
\* handle, libcurl asks to be called now.
wc_auth_with_password ==
    /\ broken = {} /\ call = "none"
    /\ handle = "null"
    /\ parser' = "null"
    /\ multi' = TRUE
    /\ \/ /\ ~multi                              \* no memory for the URL
          /\ UNCHANGED <<handle, url, heard, call, curl, loop, broken>>
       \/ /\ handle' = "live"
          /\ url' = (url \/ ~multi)
          /\ body' \in IF url' THEN Body ELSE {NoBody}
          /\ curl_timer_cb("now")
          /\ UNCHANGED <<heard, sent, steps, known, watch>>

\* wc_dispatch_fd_event(), wc_dispatch_timer_event(): wc_auth_service() calls
\* libcurl; the timer is one-shot.
Idle == broken = {} /\ call = "none"
FdEvent ==
    /\ Idle /\ watch # NoSocket
    /\ call' = "service"
    /\ UNCHANGED <<sdk, curl, loop, broken>>
TimerEvent ==
    /\ Idle /\ timer
    /\ call' = "service" /\ timer' = FALSE
    /\ UNCHANGED <<sdk, curl, watch, broken>>

-----------------------------------------------------------------------------
(* What libcurl does when it has been called.                              *)

\* Without a URL the transfer fails at once.
Called == broken = {} /\ call # "none"
Busy == Called /\ handle = "live" /\ url /\ steps < MaxSteps /\ steps' = steps + 1

Data ==
    /\ Busy
    /\ curl_write_cb
    /\ UNCHANGED <<handle, multi, url, call, body, known, loop>>

Sockets ==
    /\ Busy
    /\ \E s \in Socket : \/ curl_sock_cb(s)
                         \/ s \in known /\ curl_sock_remove(s) /\ UNCHANGED broken
    /\ UNCHANGED <<sdk, call, body, sent, timer>>

\* It returns, the transfer running, with a timeout ahead: the one it asked for
\* before the event, or another one.
Return ==
    /\ Busy
    /\ \/ \E timeout \in {"now", "later"} : curl_timer_cb(timeout)
       \/ call = "service" /\ timer /\ call' = "none" /\ UNCHANGED <<timer, broken>>
    /\ UNCHANGED <<sdk, body, sent, known, watch>>

\* The transfer ends (the body is complete, or there is no hope for it), or has
\* ended before; its sockets and its timer go.  Only wc_auth_service() looks at
\* the number of running transfers, and it was counted before a nested call.
Finish ==
    /\ Called
    /\ steps' = MaxSteps
    /\ IF known = {} THEN UNCHANGED watch ELSE DelFd
    /\ known' = {}
    /\ call' = "none" /\ DelTimer
    /\ \/ call = "service" /\ Cleanup
       \/ /\ call = "nested"
          /\ handle' = IF handle = "live" THEN "ended" ELSE handle
          /\ UNCHANGED broken
    /\ UNCHANGED <<multi, url, parser, heard, body, sent>>

Libcurl == Data \/ Sockets \/ Return \/ Finish

Next == wc_auth_with_password \/ FdEvent \/ TimerEvent \/ Libcurl

Spec == Init /\ [][Next]_vars

\* The loop calls for timers that expire, and libcurl does not block.
FairSpec == Spec /\ WF_vars(TimerEvent) /\ WF_vars(Libcurl)

-----------------------------------------------------------------------------
(* Properties                                                              *)

\* Types.
TypeOK ==
    /\ handle \in {"null", "live", "ended", "freed"} /\ call \in {"none", "service", "nested"}
    /\ parser \in {"null", "fed", "freed"}
    /\ multi \in BOOLEAN /\ url \in BOOLEAN /\ timer \in BOOLEAN
    /\ heard \in Seq({"on_auth_success", "on_auth_error"})
    /\ body \in Body \cup {NoBody} /\ sent \in 0..Total(body) /\ steps \in 0..MaxSteps
    /\ known \subseteq Socket /\ watch \in Socket \cup {NoSocket}
    /\ broken \subseteq {"watcher", "timer", "parser", "error", "handle"}

\* However the body is cut into pieces, the application hears of it once, not
\* before it is complete, never of a success that the server did not grant, and
\* it has heard of a complete body when the transfer is over.
ReplyIsTrue ==
    /\ Len(heard) <= 1
    /\ "on_auth_success" \in {heard[i] : i \in DOMAIN heard} =>
            /\ body.json /\ sent >= body.pieces
            /\ "token" \in body.content /\ "success_false" \notin body.content
    /\ (handle \in {"ended", "freed"} /\ broken = {} /\ 0 < body.pieces /\ body.pieces <= sent) => heard # <<>>

\* The curl handle is cleaned up once: when a transfer has ended, neither its
\* timer nor its socket calls wc_auth_service() again.
CleanedOnce == "handle" \notin broken

\* What the loop watches is what libcurl asked for, and nothing once the
\* transfer is over; whenever libcurl has returned and the transfer runs, its
\* timeout can fire, although curl_timer_cb() sets no timer for a timeout of 0.
LoopMatchesCurl ==
    /\ TypeOK
    /\ broken = {} => /\ known = (IF watch = NoSocket THEN {} ELSE {watch})
                      /\ call = "none" => (timer <=> handle = "live")
                      /\ timer => handle = "live"

\* Every transfer comes to its end, unless the loop or the parser was broken
\* on the way.  It is cleaned up if wc_auth_service() sees the end; one that ends
\* in the nested call of curl_timer_cb() stays allocated.
TransferEnds == handle = "live" ~> handle \in {"ended", "freed"} \/ broken # {}
=============================================================================

----------------------------- MODULE AuthProofs ------------------------------
(***************************************************************************)
(* Proofs about Auth, for every number of sockets, pieces of a reply and   *)
(* steps of libcurl.                                                       *)
(***************************************************************************)
EXTENDS Auth, TLAPS

\* Sockets belong to a transfer that runs, and so does a call of libcurl as long as
\* nothing is broken.
Owned ==
    /\ known # {} => handle = "live"
    /\ broken = {} /\ call # "none" => handle = "live"

\* Before a transfer starts nothing has been received or heard; as long as
\* nothing is broken, a callback was called if and only if the last piece of
\* the JSON has come, and the parser is gone from then on.
HeardLast ==
    /\ handle = "null" => sent = 0 /\ heard = <<>>
    /\ broken = {} /\ handle # "null" =>
            \/ parser = "freed" /\ Len(heard) = 1 /\ body.json /\ sent >= body.pieces
               /\ body.pieces > 0
            \/ parser # "freed" /\ heard = <<>> /\ (sent < body.pieces \/ body.pieces = 0)

IInv == LoopMatchesCurl /\ CleanedOnce /\ ReplyIsTrue /\ Owned /\ HeardLast

USE AuthAssumption

-----------------------------------------------------------------------------
(* Data                                                                    *)

\* What is used of a body.
LEMMA BodyFacts ==
  ASSUME NEW b \in Body \cup {NoBody}
  PROVE  /\ b.pieces \in Nat /\ b.json \in BOOLEAN
         /\ Total(b) \in Nat /\ b.pieces <= Total(b)
         /\ b.pieces = 0 => Total(b) = 0
<1>1. b.pieces \in Nat /\ b.json \in BOOLEAN /\ b.tail \in BOOLEAN
  <2>1. CASE b \in Body
    <3>1. b.pieces \in 0..MaxPieces /\ b.json \in BOOLEAN /\ b.tail \in BOOLEAN
      BY <2>1, Zenon DEF Body
    <3>. QED
      BY <3>1
  <2>2. CASE b = NoBody
    <3>1. b.pieces = 0
      BY <2>2 DEF NoBody
    <3>2. b.json = TRUE /\ b.tail = FALSE
      BY <2>2, Zenon DEF NoBody
    <3>3. b.json \in BOOLEAN /\ b.tail \in BOOLEAN
      BY <3>2, Zenon
    <3>. QED
      BY <3>1, <3>3
  <2>. QED
    BY <2>1, <2>2
<1>2. CASE b.tail /\ b.pieces > 0
  <2>1. Total(b) = b.pieces + 1
    BY <1>2 DEF Total
  <2>. QED
    BY <1>1, <1>2, <2>1
<1>3. CASE ~(b.tail /\ b.pieces > 0)
  <2>1. Total(b) = b.pieces
    BY <1>1, <1>3 DEF Total
  <2>. QED
    BY <1>1, <2>1
<1>. QED
  BY <1>2, <1>3

\* The callback for what a body says is a success only if it grants one.
LEMMA ParseIsTrue ==
  ASSUME NEW content
  PROVE  /\ parse_json(content) \in {"on_auth_success", "on_auth_error"}
         /\ parse_json(content) = "on_auth_success" =>
                "token" \in content /\ "success_false" \notin content
  BY DEF parse_json

\* Sequences of one element.
LEMMA One ==
  ASSUME NEW S, NEW e \in S
  PROVE  /\ Append(<<>>, e) \in Seq(S) /\ Len(Append(<<>>, e)) = 1
         /\ {Append(<<>>, e)[i] : i \in DOMAIN Append(<<>>, e)} = {e}
         /\ Append(<<>>, e) # <<>>
  OBVIOUS

-----------------------------------------------------------------------------
(* The invariant                                                           *)

\* The initial state.
LEMMA InitInv == Init => IInv
<1>. SUFFICES ASSUME Init PROVE IInv
  OBVIOUS
<1>1. body \in Body \cup {NoBody} /\ body.pieces = 0
  BY DEF Init, NoBody
<1>2. TypeOK
  <2>1. Total(body) = 0
    BY <1>1, BodyFacts
  <2>2. /\ sent \in 0..Total(body) /\ steps \in 0..MaxSteps
        /\ known \subseteq Socket /\ watch \in Socket \cup {NoSocket} /\ broken \subseteq {"watcher"}
    BY <2>1 DEF Init
  <2>3. heard \in Seq({"on_auth_success", "on_auth_error"})
    BY DEF Init
  <2>4. multi \in BOOLEAN /\ url \in BOOLEAN /\ timer \in BOOLEAN
    BY DEF Init
  <2>. QED
    BY <1>1, <2>2, <2>3, <2>4 DEF Init, TypeOK
<1>. QED
  BY <1>1, <1>2 DEF Init, IInv, LoopMatchesCurl, CleanedOnce, ReplyIsTrue, Owned, HeardLast

\* An event reaches libcurl only while a transfer runs.
LEMMA EventKeepsInv ==
  ASSUME IInv, FdEvent \/ TimerEvent
  PROVE  IInv'
<1>1. /\ broken = {} /\ UNCHANGED <<handle, multi, url, parser, heard, body, sent, steps, known, watch, broken>>
      /\ call' = "service" /\ timer' \in {timer, FALSE}
  BY DEF FdEvent, TimerEvent, Idle, sdk, curl, loop
<1>2. handle = "live"
  <2>1. CASE FdEvent
    <3>1. known # {}
      BY <1>1, <2>1 DEF IInv, LoopMatchesCurl, FdEvent
    <3>. QED
      BY <3>1 DEF IInv, Owned
  <2>2. CASE TimerEvent
    BY <1>1, <2>2 DEF TimerEvent, IInv, LoopMatchesCurl
  <2>. QED
    BY <2>1, <2>2
<1>3. TypeOK'
  BY <1>1 DEF IInv, LoopMatchesCurl, TypeOK, Total
<1>. QED
  BY <1>1, <1>2, <1>3 DEF IInv, LoopMatchesCurl, CleanedOnce, ReplyIsTrue, Owned, HeardLast

\* libcurl works for a transfer only while nothing is broken.
LEMMA BusyIsLive ==
  ASSUME IInv, Busy
  PROVE  broken = {} /\ handle = "live" /\ steps' \in 0..MaxSteps
  BY DEF Busy, Called, IInv, LoopMatchesCurl, TypeOK

\* libcurl returns, or is called again.
LEMMA ReturnKeepsInv ==
  ASSUME IInv, Return
  PROVE  IInv'
<1>1. /\ UNCHANGED <<handle, multi, url, parser, heard, body, sent, known, watch>>
      /\ broken = {} /\ handle = "live" /\ steps' \in 0..MaxSteps
  BY BusyIsLive DEF Return, sdk
<1>2. /\ call' \in {"none", "nested"} /\ timer' \in BOOLEAN /\ broken' \subseteq {"timer"}
      /\ call' = "none" => timer' = TRUE
  <2>1. timer \in BOOLEAN /\ broken = {}
    BY <1>1 DEF IInv, LoopMatchesCurl, TypeOK
  <2>2. CASE curl_timer_cb("now")
    BY <2>1, <2>2 DEF curl_timer_cb
  <2>3. CASE curl_timer_cb("later")
    BY <2>1, <2>3 DEF curl_timer_cb, SetTimer
  <2>4. CASE call = "service" /\ timer /\ call' = "none" /\ UNCHANGED <<timer, broken>>
    BY <2>1, <2>4
  <2>. QED
    BY <2>2, <2>3, <2>4 DEF Return
<1>3. TypeOK'
  BY <1>1, <1>2 DEF IInv, LoopMatchesCurl, TypeOK, Total
<1>. QED
  BY <1>1, <1>2, <1>3 DEF IInv, LoopMatchesCurl, CleanedOnce, ReplyIsTrue, Owned, HeardLast

\* libcurl hands over a piece of the body.
LEMMA DataKeepsInv ==
  ASSUME IInv, Data
  PROVE  IInv'
<1>1. /\ UNCHANGED <<handle, multi, url, call, body, known, watch, timer>>
      /\ broken = {} /\ handle = "live" /\ steps' \in 0..MaxSteps
  BY BusyIsLive DEF Data, loop
<1>2. /\ body.pieces \in Nat /\ body.json \in BOOLEAN /\ Total(body) \in Nat
      /\ body.pieces <= Total(body) /\ (body.pieces = 0 => Total(body) = 0)
  BY BodyFacts DEF IInv, LoopMatchesCurl, TypeOK
<1>3. sent \in Nat /\ sent' = sent + 1 /\ sent' \in 0..Total(body)
  BY <1>2 DEF Data, curl_write_cb, IInv, LoopMatchesCurl, TypeOK
<1>4. /\ Owned'
      /\ broken' = {} => /\ known' = (IF watch' = NoSocket THEN {} ELSE {watch'})
                         /\ call' = "none" => (timer' <=> handle' = "live")
                         /\ timer' => handle' = "live"
  BY <1>1 DEF IInv, Owned, LoopMatchesCurl
<1>. DEFINE T == /\ parser' \in {"null", "fed", "freed"}
                 /\ heard' \in Seq({"on_auth_success", "on_auth_error"})
                 /\ broken' \subseteq {"parser", "error"}
<1>5. T => LoopMatchesCurl' /\ CleanedOnce'
  <2>1. T => TypeOK'
    BY <1>1, <1>3 DEF IInv, LoopMatchesCurl, TypeOK, Total
  <2>. QED
    BY <1>1, <1>4, <2>1 DEF LoopMatchesCurl, CleanedOnce
<1>6. CASE parser = "freed"
  <2>1. broken' = {"parser"} /\ UNCHANGED <<parser, heard>>
    BY <1>1, <1>2, <1>6 DEF Data, curl_write_cb, parse_body
  <2>2. T
    BY <2>1 DEF IInv, LoopMatchesCurl, TypeOK
  <2>3. ReplyIsTrue' /\ HeardLast'
    BY <1>1, <1>2, <1>3, <2>1 DEF IInv, ReplyIsTrue, HeardLast
  <2>. QED
    BY <1>4, <1>5, <2>2, <2>3 DEF IInv
<1>7. ASSUME parser # "freed" PROVE heard = <<>> /\ sent < body.pieces
  BY <1>1, <1>2, <1>3, <1>7 DEF IInv, HeardLast
<1>8. CASE parser # "freed" /\ ~body.json
  <2>1. heard' = Append(<<>>, "on_auth_error") /\ broken' = {"error"} /\ parser' = "fed"
    BY <1>1, <1>2, <1>7, <1>8 DEF Data, curl_write_cb, parse_body
  <2>2. T /\ Len(heard') = 1 /\ {heard'[i] : i \in DOMAIN heard'} = {"on_auth_error"}
    <3>1. "on_auth_error" \in {"on_auth_success", "on_auth_error"}
      OBVIOUS
    <3>. QED
      BY <2>1, <3>1, One
  <2>3. ReplyIsTrue' /\ HeardLast'
    BY <1>1, <2>1, <2>2 DEF ReplyIsTrue, HeardLast
  <2>. QED
    BY <1>4, <1>5, <2>2, <2>3 DEF IInv
<1>9. CASE parser # "freed" /\ body.json /\ sent + 1 = body.pieces
  <2>. DEFINE e == parse_json(body.content)
  <2>1. heard' = Append(<<>>, e) /\ broken' = {} /\ parser' = "freed"
    BY <1>1, <1>2, <1>7, <1>9 DEF Data, curl_write_cb, parse_body
  <2>2. T /\ Len(heard') = 1 /\ {heard'[i] : i \in DOMAIN heard'} = {e} /\ heard' # <<>>
    <3>1. e \in {"on_auth_success", "on_auth_error"}
      BY ParseIsTrue
    <3>. HIDE DEF e
    <3>. QED
      BY <2>1, <3>1, One
  <2>3. e = "on_auth_success" => "token" \in body.content /\ "success_false" \notin body.content
    BY ParseIsTrue
  <2>. HIDE DEF e
  <2>4. ReplyIsTrue' /\ HeardLast'
    BY <1>1, <1>2, <1>3, <1>9, <2>1, <2>2, <2>3 DEF ReplyIsTrue, HeardLast
  <2>. QED
    BY <1>4, <1>5, <2>2, <2>4 DEF IInv
<1>10. CASE parser # "freed" /\ body.json /\ sent + 1 # body.pieces
  <2>1. parser' = "fed" /\ UNCHANGED <<heard, broken>>
    BY <1>1, <1>2, <1>10 DEF Data, curl_write_cb, parse_body
  <2>2. T
    BY <1>1, <2>1 DEF IInv, LoopMatchesCurl, TypeOK
  <2>3. ReplyIsTrue' /\ HeardLast'
    BY <1>1, <1>2, <1>3, <1>7, <1>10, <2>1 DEF ReplyIsTrue, HeardLast
  <2>. QED
    BY <1>4, <1>5, <2>2, <2>3 DEF IInv
<1>. QED
  BY <1>2, <1>6, <1>8, <1>9, <1>10

\* libcurl opens, changes or closes a socket.
LEMMA SocketsKeepsInv ==
  ASSUME IInv, Sockets
  PROVE  IInv'
<1>1. /\ UNCHANGED <<handle, multi, url, parser, heard, call, body, sent, timer>>
      /\ broken = {} /\ handle = "live" /\ steps' \in 0..MaxSteps
  BY BusyIsLive DEF Sockets, sdk
<1>2. PICK s \in Socket : \/ curl_sock_cb(s)
                          \/ s \in known /\ curl_sock_remove(s) /\ UNCHANGED broken
  BY DEF Sockets
<1>3. /\ known' \subseteq Socket /\ watch' \in Socket \cup {NoSocket}
      /\ broken' \subseteq {"watcher"}
      /\ broken' = {} => known' = (IF watch' = NoSocket THEN {} ELSE {watch'})
  <2>1. /\ known \subseteq Socket /\ watch \in Socket \cup {NoSocket} /\ s # NoSocket
        /\ known = (IF watch = NoSocket THEN {} ELSE {watch}) /\ broken = {}
    BY <1>1 DEF IInv, LoopMatchesCurl, TypeOK
  <2>2. CASE curl_sock_cb(s) /\ s \in known
    BY <2>1, <2>2 DEF curl_sock_cb, ModifyFd
  <2>3. CASE curl_sock_cb(s) /\ s \notin known
    BY <2>1, <2>3 DEF curl_sock_cb, AddFd
  <2>4. CASE s \in known /\ curl_sock_remove(s) /\ UNCHANGED broken
    BY <2>1, <2>4 DEF curl_sock_remove, DelFd
  <2>. QED
    BY <1>2, <2>2, <2>3, <2>4
<1>4. TypeOK'
  BY <1>1, <1>3 DEF IInv, LoopMatchesCurl, TypeOK, Total
<1>. QED
  BY <1>1, <1>3, <1>4 DEF IInv, LoopMatchesCurl, CleanedOnce, ReplyIsTrue, Owned, HeardLast

\* The transfer ends.
LEMMA FinishKeepsInv ==
  ASSUME IInv, Finish
  PROVE  IInv'
<1>0. broken = {} /\ handle = "live"
  BY DEF Finish, Called, IInv, Owned
<1>1. /\ UNCHANGED <<multi, url, parser, heard, body, sent>>
      /\ handle' \in {"ended", "freed"} /\ broken' = {} /\ timer' = FALSE /\ call' = "none"
      /\ known' = {} /\ steps' \in 0..MaxSteps
  BY <1>0 DEF Finish, Cleanup, DelTimer
<1>2. watch' = NoSocket
  BY <1>0 DEF Finish, DelFd, IInv, LoopMatchesCurl
<1>3. TypeOK'
  BY <1>1, <1>2 DEF IInv, LoopMatchesCurl, TypeOK, Total
<1>4. ReplyIsTrue' /\ HeardLast'
  <2>1. body.pieces \in Nat /\ sent \in Nat
    BY BodyFacts DEF IInv, LoopMatchesCurl, TypeOK
  <2>. QED
    BY <1>0, <1>1, <2>1 DEF IInv, ReplyIsTrue, HeardLast
<1>. QED
  BY <1>1, <1>2, <1>3, <1>4 DEF IInv, LoopMatchesCurl, CleanedOnce, Owned

\* A call of the application.
LEMMA PasswordKeepsInv ==
  ASSUME IInv, wc_auth_with_password
  PROVE  IInv'
<1>1. broken = {} /\ handle = "null" /\ call = "none" /\ timer = FALSE /\ sent = 0 /\ heard = <<>> /\ known = {}
  BY DEF wc_auth_with_password, IInv, LoopMatchesCurl, TypeOK, HeardLast, Owned
<1>2. CASE UNCHANGED <<handle, url, heard, call, curl, loop, broken>>
  <2>1. UNCHANGED <<handle, url, heard, call, body, sent, steps, known, watch, timer, broken>>
    BY <1>2 DEF curl, loop
  <2>2. parser' = "null" /\ multi' = TRUE
    BY DEF wc_auth_with_password
  <2>3. TypeOK'
    BY <2>1, <2>2 DEF IInv, LoopMatchesCurl, TypeOK, Total
  <2>. QED
    BY <1>1, <2>1, <2>2, <2>3
    DEF IInv, LoopMatchesCurl, CleanedOnce, ReplyIsTrue, Owned, HeardLast
<1>3. CASE ~ UNCHANGED <<handle, url, heard, call, curl, loop, broken>>
  <2>1. /\ parser' = "null" /\ multi' = TRUE /\ handle' = "live" /\ url' \in BOOLEAN
        /\ body' \in Body \cup {NoBody} /\ call' = "nested" /\ timer' = FALSE /\ broken' = {}
        /\ UNCHANGED <<heard, sent, steps, known, watch>>
    BY <1>1, <1>3 DEF wc_auth_with_password, curl_timer_cb, IInv, LoopMatchesCurl, TypeOK
  <2>2. body'.pieces \in Nat /\ Total(body') \in Nat
    BY <2>1, BodyFacts
  <2>3. TypeOK'
    <3>1. sent' \in 0..Total(body')
      BY <1>1, <2>1, <2>2
    <3>2. (sent \in 0..Total(body))'
      BY <3>1 DEF Total
    <3>. QED
      BY <2>1, <3>2 DEF IInv, LoopMatchesCurl, TypeOK
  <2>. QED
    BY <1>1, <2>1, <2>2, <2>3
    DEF IInv, LoopMatchesCurl, CleanedOnce, ReplyIsTrue, Owned, HeardLast
<1>. QED
  BY <1>2, <1>3

\* Every step.
LEMMA NextInv == IInv /\ [Next]_vars => IInv'
<1>. SUFFICES ASSUME IInv, [Next]_vars PROVE IInv'
  OBVIOUS
<1>1. CASE wc_auth_with_password
  BY <1>1, PasswordKeepsInv
<1>2. CASE FdEvent \/ TimerEvent
  BY <1>2, EventKeepsInv
<1>4. CASE Libcurl
  BY <1>4, DataKeepsInv, SocketsKeepsInv, ReturnKeepsInv, FinishKeepsInv DEF Libcurl
<1>3. CASE UNCHANGED vars
  <2>1. /\ UNCHANGED <<handle, multi, url, parser, heard, call, body, sent, steps>>
        /\ UNCHANGED <<known, watch, timer, broken>>
    BY <1>3 DEF vars, sdk, curl, loop
  <2>2. TypeOK'
    BY <2>1 DEF IInv, LoopMatchesCurl, TypeOK, Total
  <2>. QED
    BY <2>1, <2>2 DEF IInv, LoopMatchesCurl, CleanedOnce, ReplyIsTrue, Owned, HeardLast
<1>. QED
  BY <1>1, <1>2, <1>3, <1>4 DEF Next

LEMMA Invariance == Spec => []IInv
  BY InitInv, NextInv, PTL DEF Spec

-----------------------------------------------------------------------------
(* Theorems                                                                *)

\* However the body of a reply is cut, the application hears of it once and
\* never of a success that was not granted (curl_write_cb()).
THEOREM RepliesAreTrue == Spec => []ReplyIsTrue
<1>1. IInv => ReplyIsTrue
  BY DEF IInv
<1>. QED
  BY <1>1, Invariance, PTL

\* The curl handle is never cleaned up twice (wc_auth_service()).
THEOREM HandleCleanedOnce == Spec => []CleanedOnce
<1>1. IInv => CleanedOnce
  BY DEF IInv
<1>. QED
  BY <1>1, Invariance, PTL

\* The event loop watches what libcurl asked for, and has its timeout set whenever
\* a running transfer is left alone, however often libcurl asks to be called at
\* once (curl_sock_cb(), curl_timer_cb(), libev.c).
THEOREM LoopIsRight == Spec => []LoopMatchesCurl
<1>1. IInv => LoopMatchesCurl
  BY DEF IInv
<1>. QED
  BY <1>1, Invariance, PTL
=============================================================================

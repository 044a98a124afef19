-------------------------- MODULE ConnectionProofs --------------------------
(***************************************************************************)
(* Proofs about Connection, for every sequence of socket events, timers    *)
(* and application calls, with or without long messages.                   *)
(***************************************************************************)
EXTENDS Connection, TLAPS

\* The handshake of a websocket is delivered on that websocket only, once it
\* is open; needed because hs must be FALSE when the next one opens.
HandshakeNeedsSocket == hs => sock = "open"

\* The parser holds part of a live message only on a usable connection.
SyncedOnlyWhenUp == parser = "synced" => hs /\ state \in {"CONNECTED", "DISCONNECTING"}

\* The inductive invariant.
CnxInv ==
    /\ TypeOK
    /\ SocketMatchesState
    /\ WritesHitOpenSocket
    /\ KeepaliveTracksSocket
    /\ HandshakeNeedsSocket
    /\ SyncedOnlyWhenUp

-----------------------------------------------------------------------------
(* Scheduling an attempt keeps the delays within the powers of two.        *)

\* Scheduling keeps the delay and the armed timer in range: doubling stops at the
\* cap (_wc_datasync_schedule_reconnect()).
LEMMA ScheduleType ==
    ASSUME TypeOK, _wc_datasync_schedule_reconnect
    PROVE  recon' \in Backoffs \cup {NotArmed} /\ backoff' \in Backoffs
BY DEF TypeOK, _wc_datasync_schedule_reconnect, Backoffs, BackoffCap, NotArmed

\* ... and so does the choice of the application after an error or a close.
LEMMA RescheduleType ==
    ASSUME TypeOK, NEW again \in BOOLEAN, Reschedule(again)
    PROVE  recon' \in Backoffs \cup {NotArmed} /\ backoff' \in Backoffs
BY ScheduleType DEF TypeOK, Reschedule

-----------------------------------------------------------------------------
(* The invariant holds initially and is preserved by every action.         *)

\* The calloc()ed context satisfies the inductive invariant.
LEMMA InitInv == Init => CnxInv
BY DEF Init, CnxInv, TypeOK, SocketMatchesState, WritesHitOpenSocket,
       KeepaliveTracksSocket, HandshakeNeedsSocket, SyncedOnlyWhenUp,
       CnxStates, Backoffs, NotArmed

\* Every callback, timer and call of the application preserves it.
LEMMA NextInv == CnxInv /\ [Next]_vars => CnxInv'
<1> SUFFICES ASSUME CnxInv, [Next]_vars PROVE CnxInv'
  OBVIOUS
<1> USE DEF CnxInv, SocketMatchesState, WritesHitOpenSocket,
            KeepaliveTracksSocket, HandshakeNeedsSocket, SyncedOnlyWhenUp
<1>1. CASE wc_datasync_connect
  BY <1>1, ScheduleType DEF wc_datasync_connect, TypeOK
<1>2. CASE wc_datasync_close_cnx
  BY <1>2 DEF wc_datasync_close_cnx, TypeOK, CnxStates
<1>3. CASE wc_datasync_send_msg
  BY <1>3 DEF wc_datasync_send_msg, TypeOK
<1>4. CASE ReconnectTimer
  BY <1>4 DEF ReconnectTimer, TypeOK, CnxStates, NotArmed
<1>5. CASE KeepaliveTimer
  BY <1>5 DEF KeepaliveTimer, TypeOK
<1>6. CASE Established
  BY <1>6 DEF Established, TypeOK
<1>7. ASSUME NEW again \in BOOLEAN, ConnectionError(again)
      PROVE  CnxInv'
  BY <1>7, RescheduleType DEF ConnectionError, TypeOK, CnxStates
<1>8. ASSUME NEW again \in BOOLEAN, Drop(again)
      PROVE  CnxInv'
  BY <1>8, RescheduleType DEF Drop, TypeOK, CnxStates
<1>9. CASE ReceiveHandshake
  <2>1. sock = "open" /\ sock' = sock /\ hs' /\ state # "DISCONNECTING"
    BY <1>9 DEF ReceiveHandshake
  <2>2. CASE parser = "none"
    <3>1. TypeOK'
      BY <1>9, <2>2 DEF ReceiveHandshake, TypeOK, CnxStates, Backoffs
    <3>2. state' = "CONNECTED" /\ ka' /\ parser' = "none" /\ wrote' \in {wrote, sock}
      BY <1>9, <2>2 DEF ReceiveHandshake
    <3> QED
      BY <2>1, <3>1, <3>2
  <2>3. CASE parser # "none"
    <3>1. /\ UNCHANGED <<state, ka, backoff, wrote, recon, writeReq>>
          /\ parser' \in {"none", "nested"}
      BY <1>9, <2>3 DEF ReceiveHandshake, Garbled
    <3>2. TypeOK'
      BY <2>1, <3>1, <1>9 DEF TypeOK, ReceiveHandshake
    <3> QED
      BY <2>1, <3>1, <3>2
  <2> QED
    BY <2>2, <2>3
<1>10. CASE ReceiveFirstPiece
  BY <1>10 DEF ReceiveFirstPiece, TypeOK
<1>11. CASE ReceiveLastPiece
  BY <1>11 DEF ReceiveLastPiece, TypeOK
<1>12. CASE UNCHANGED vars
  BY <1>12 DEF vars, TypeOK
<1> QED
  BY <1>1, <1>2, <1>3, <1>4, <1>5, <1>6, <1>7, <1>8, <1>9, <1>10, <1>11, <1>12
     DEF Next, Closed, Writeable

\* Types, and the bound on the reconnection delay.
THEOREM TypeCorrect == Spec => []TypeOK
BY InitInv, NextInv, PTL DEF Spec, CnxInv

\* The state field and the websocket agree in every reachable state, so that
\* a reconnection attempt never leaks a live websocket.
THEOREM StateIsHonest == Spec => []SocketMatchesState
BY InitInv, NextInv, PTL DEF Spec, CnxInv

\* No write on a dead or half-open websocket.
THEOREM WritesAreSafe == Spec => []WritesHitOpenSocket
BY InitInv, NextInv, PTL DEF Spec, CnxInv

\* Connected implies kept alive; the keepalive timer dies with its websocket.
THEOREM KeepaliveIsRight == Spec => []KeepaliveTracksSocket
BY InitInv, NextInv, PTL DEF Spec, CnxInv

-----------------------------------------------------------------------------
(* Action properties and refinement, from the same invariant.              *)

\* Which action can make a connection usable: only the handshake, and then
\* the keepalive timer was stopped.
LEMMA OnlyHandshakeConnects ==
    ASSUME CnxInv, [Next]_vars, state # "CONNECTED", state' = "CONNECTED"
    PROVE  state = "CONNECTING" /\ ~ka /\ ka'
<1>1. CASE ReceiveHandshake
  <2>1. sock = "open" /\ ~hs /\ state # "DISCONNECTING"
    BY <1>1 DEF ReceiveHandshake
  <2>2. state = "CONNECTING"
    BY <2>1 DEF CnxInv, TypeOK, CnxStates, SocketMatchesState
  <2>3. ~ka
    BY <2>1 DEF CnxInv, KeepaliveTracksSocket
  <2>4. ka'
    BY <1>1, <2>2 DEF ReceiveHandshake
  <2> QED
    BY <2>2, <2>3, <2>4
<1>2. CASE ~ReceiveHandshake
  BY <1>2 DEF Next, vars, wc_datasync_connect, wc_datasync_close_cnx, wc_datasync_send_msg,
       ReconnectTimer, KeepaliveTimer, Established, ConnectionError, Closed, Writeable,
       Drop, ReceiveFirstPiece, ReceiveLastPiece
<1> QED
  BY <1>1, <1>2

\* SET_TIMER never meets an active keepalive timer, whatever the order of
\* closes, failed attempts and handshakes.
THEOREM KeepaliveArming == Spec => KeepaliveArmedOnce
<1>1. CnxInv /\ [Next]_vars
        => [state # "CONNECTED" /\ state' = "CONNECTED" => ~ka /\ ka']_vars
  BY OnlyHandshakeConnects
<1> QED
  BY <1>1, InitInv, NextInv, PTL DEF Spec, KeepaliveArmedOnce

\* Every step of the connection is a step of the life cycle, or leaves the
\* state field alone.
LEMMA LifecycleStep == CnxInv /\ [Next]_vars => [Lifecycle!Next]_state
<1> SUFFICES ASSUME CnxInv, [Next]_vars, state' # state PROVE Lifecycle!Next
  OBVIOUS
<1> USE DEF CnxInv, SocketMatchesState, TypeOK, CnxStates
<1>1. CASE ReconnectTimer
  BY <1>1 DEF ReconnectTimer, Lifecycle!Next, Lifecycle!Attempt
<1>2. CASE wc_datasync_close_cnx
  BY <1>2 DEF wc_datasync_close_cnx, Lifecycle!Next, Lifecycle!CloseRequest
<1>3. CASE \E again \in BOOLEAN :
              ConnectionError(again) \/ Closed(again) \/ Writeable(again)
  BY <1>3 DEF ConnectionError, Closed, Writeable, Drop, Lifecycle!Next, Lifecycle!Drop
<1>4. CASE ReceiveHandshake
  <2>1. state # "CONNECTED" /\ state' = "CONNECTED"
    BY <1>4 DEF ReceiveHandshake
  <2> QED
    BY <2>1, OnlyHandshakeConnects DEF Lifecycle!Next, Lifecycle!Handshake
<1> QED
  BY <1>1, <1>2, <1>3, <1>4
     DEF Next, vars, wc_datasync_connect, wc_datasync_send_msg, KeepaliveTimer,
         Established, ReceiveFirstPiece, ReceiveLastPiece

\* The connection implements the life cycle the other components rely on.
THEOREM LifecycleImplemented == Spec => ImplementsLifecycle
<1>1. Init => Lifecycle!Init
  BY DEF Init, Lifecycle!Init
<1> QED
  BY <1>1, LifecycleStep, InitInv, NextInv, PTL
     DEF Spec, ImplementsLifecycle, Lifecycle!Spec

-----------------------------------------------------------------------------
(* Without messages longer than the receive buffer the parser is never     *)
(* left half-way, and then no handshake is lost.                           *)

ShortInv == CnxInv /\ parser = "none" /\ HandshakeHeard

\* Without long messages no parser outlives the callback that made it.
LEMMA ShortNext ==
    ASSUME ~LongMessages, ShortInv, [Next]_vars
    PROVE  ShortInv'
<1>1. CnxInv'
  BY NextInv DEF ShortInv
<1>2. parser' = "none"
  BY DEF ShortInv, Next, vars, wc_datasync_connect, wc_datasync_close_cnx,
       wc_datasync_send_msg, ReconnectTimer, KeepaliveTimer, Established,
       ConnectionError, Closed, Writeable, Drop, ReceiveHandshake,
       ReceiveFirstPiece, ReceiveLastPiece
<1>3. HandshakeHeard'
  <2>1. CASE ReceiveHandshake
    BY <2>1 DEF ReceiveHandshake, ShortInv, HandshakeHeard
  <2>2. CASE ~ReceiveHandshake
    BY <2>2 DEF HandshakeHeard, ShortInv, CnxInv, HandshakeNeedsSocket, Next, vars,
       wc_datasync_connect, wc_datasync_close_cnx, wc_datasync_send_msg, ReconnectTimer,
       KeepaliveTimer, Established, ConnectionError, Closed, Writeable, Drop,
       ReceiveFirstPiece, ReceiveLastPiece
  <2> QED
    BY <2>1, <2>2
<1> QED
  BY <1>1, <1>2, <1>3 DEF ShortInv

\* The lost handshake that the model checker finds needs a message in pieces.
THEOREM HandshakeHeardIfShort == ~LongMessages /\ Spec => []HandshakeHeard
<1>1. Init => ShortInv
  BY InitInv DEF Init, ShortInv, HandshakeHeard
<1>2. ~LongMessages /\ ShortInv /\ [Next]_vars => ShortInv'
  BY ShortNext
<1>3. ShortInv => HandshakeHeard
  BY DEF ShortInv
<1>4. CASE LongMessages
  BY <1>4
<1>5. CASE ~LongMessages
  <2>1. ShortInv /\ [Next]_vars => ShortInv'
    BY <1>2, <1>5
  <2> QED
    BY <1>1, <1>3, <2>1, PTL DEF Spec
<1> QED
  BY <1>4, <1>5
=============================================================================

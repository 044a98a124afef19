---------------------------- MODULE CnxLifecycle ----------------------------
(***************************************************************************)
(* What the datasync connection promises to the rest of the SDK: the life  *)
(* cycle of wc_cnx_state_t, without sockets, timers or messages.           *)
(* Requests may be sent only in "CONNECTED"; that state is entered only by *)
(* the handshake of a connection being set up, a connection asked to close *)
(* never comes back to life, and a new attempt starts only from scratch.   *)
(***************************************************************************)
VARIABLE state       \* ctx->datasync.state

CnxStates == {"DISCONNECTED", "CONNECTING", "CONNECTED", "DISCONNECTING"}

Init == state = "DISCONNECTED"

\* A connection attempt starts.
Attempt == state = "DISCONNECTED" /\ state' = "CONNECTING"

\* The server's handshake makes the connection usable.
Handshake == state = "CONNECTING" /\ state' = "CONNECTED"

\* The application asks for the connection to be closed.
CloseRequest ==
    /\ state \in {"CONNECTING", "CONNECTED"}
    /\ state' = "DISCONNECTING"

\* The attempt fails, or the connection is closed by either side.
Drop == state # "DISCONNECTED" /\ state' = "DISCONNECTED"

Next == Attempt \/ Handshake \/ CloseRequest \/ Drop

Spec == Init /\ [][Next]_state
=============================================================================

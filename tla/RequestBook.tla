---------------------------- MODULE RequestBook -----------------------------
(***************************************************************************)
(* What the table of pending requests promises: requests get new numbers,  *)
(* and the result of a request is reported to its callback at most once,   *)
(* and only while the request waits for it.                                *)
(***************************************************************************)
EXTENDS Naturals

CONSTANT MaxReq         \* bound: number of requests

VARIABLES
    last,       \* the last number given to a request
    waiting,    \* the requests that wait for their answer
    answered    \* the requests whose callback was called

Init == last = 0 /\ waiting = {} /\ answered = {}

Issue ==
    /\ last < MaxReq
    /\ last' = last + 1
    /\ waiting' \in {waiting \cup {last + 1}, waiting}    \* no memory: no callback
    /\ UNCHANGED answered

Report ==
    \E id \in waiting :
        /\ waiting' = waiting \ {id}
        /\ answered' = answered \cup {id}
        /\ UNCHANGED last

\* The context is destroyed, the callbacks are forgotten.
Forget == waiting' = {} /\ UNCHANGED <<last, answered>>

Next == Issue \/ Report \/ Forget

Spec == Init /\ [][Next]_<<last, waiting, answered>>
=============================================================================

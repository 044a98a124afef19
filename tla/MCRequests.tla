----------------------------- MODULE MCRequests -----------------------------
(* Model-checking instance of PendingRequests: puts, listens and pushes,   *)
(* and samples of the messages of the server.                              *)
EXTENDS PendingRequests, TLC

OneArg == {[path |-> <<"k">>, data |-> Long(1), cred |-> "c"]}

\* The objects with these members or all but one of them.
AllButOne(f) == {Obj(f)} \cup {Obj([k \in DOMAIN f \ {key} |-> f[k]]) : key \in DOMAIN f}

Bodies ==
    {JNull} \cup AllButOne([p |-> Str(<<"k">>), d |-> Long(1), h |-> Str("h"), cred |-> Str("c")])
            \cup AllButOne([s |-> Str("ok"), d |-> Str("why")])

DataMsgs ==
    LET codes == DOMAIN ActionOf \cup {"ac", "c", "d"}
        top == {[p |-> Str(<<"k">>), d |-> Long(1), cred |-> Str("c")], [p |-> Str(<<"k">>)], [r |-> Long(1)]}
    IN  {Obj([r |-> Long(1), b |-> b]) : b \in Bodies}
        \cup {Obj([a |-> Str(c), b |-> b]) : c \in codes, b \in Bodies}
        \cup {Obj(t @@ [r |-> Long(1), a |-> Str(c), b |-> b]) : c \in codes, b \in Bodies, t \in top}

CtrlMsgs ==
    {Obj([t |-> Str("h"), d |-> d]) :
        d \in AllButOne([ts |-> Long(1), h |-> Str("h"), v |-> Str("5")])}
    \cup AllButOne([t |-> Str("s"), d |-> Str("why")])

Samples ==
    {Obj([t |-> Str("d"), d |-> d]) : d \in DataMsgs}
    \cup {Obj([t |-> Str("c"), d |-> d]) : d \in CtrlMsgs}
=============================================================================

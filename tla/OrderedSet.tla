----------------------------- MODULE OrderedSet -----------------------------
(***************************************************************************)
(* What the AVL trees promise: a set of keys, and iterations that return   *)
(* its elements, all of them or those from a given key on, in order.       *)
(***************************************************************************)
CONSTANTS
    Key, Nil,
    Lowest,         \* stands for a key before all others
    Before(_, _)    \* the order of the keys

VARIABLES
    elems,      \* the elements
    asked,      \* the key from which on the iteration is to return them, or Nil
    given,      \* those it has returned
    got         \* what it returned last

Init == elems = {} /\ asked = Nil /\ given = {} /\ got = Nil

\* A key is added or removed, or all of them; this ends the iteration.
Change ==
    /\ asked' = Nil /\ given' = {} /\ got' = Nil
    /\ LET old == elems
       IN  elems' \in {old \cup {k} : k \in Key} \cup {old \ {k} : k \in Key} \cup {{}}

Start ==
    /\ asked' \in Key \cup {Lowest} /\ given' = {} /\ got' = Nil
    /\ UNCHANGED elems

\* The elements that the iteration has still to return.
Owed ==
    {e \in elems : asked # Nil /\ (asked = Lowest \/ ~Before(e, asked)) /\ e \notin given}

Advance ==
    /\ given' = given \cup ({got'} \ {Nil})
    /\ LET owed == Owed
       IN  \/ owed = {} /\ got' = Nil
           \/ got' \in owed /\ \A e \in owed : ~Before(e, got')
    /\ UNCHANGED <<asked, elems>>

Next == Change \/ Start \/ Advance

Spec == Init /\ [][Next]_<<elems, asked, given, got>>
=============================================================================

------------------------------- MODULE PushId -------------------------------
(***************************************************************************)
(* The keys that wc_datasync_push() makes (lib/datasync/datasync_utils.c): *)
(* the digits of the time of the server, then those of a random number     *)
(* that is incremented as long as the time stays the same.  The state s is *)
(* struct pushid_state: last_time, and lastrand as its high and low part.  *)
(***************************************************************************)
EXTENDS Naturals, Sequences

CONSTANTS
    Base,           \* number of characters, 64 in the code
    TimeDigits,     \* characters of the time, 8 in the code
    RandDigits,     \* characters of the random number, 12 in the code
    HighMod,        \* the high part of the number is below it, 2^8 in the code
    LowMod          \* the low part of the number is below it, 2^64 in the code

\* Base to the power of k.
Power[k \in Nat] == IF k = 0 THEN 1 ELSE Base * Power[k - 1]

ASSUME PushIdAssumption ==
    /\ {Base, TimeDigits, RandDigits, HighMod, LowMod} \subseteq Nat \ {0}
    /\ Power[RandDigits] = HighMod * LowMod

Rand == (0..HighMod - 1) \X (0..LowMod - 1)

\* calloc() of the context
NoPush == [last_time |-> 0, high |-> 0, low |-> 0]

-----------------------------------------------------------------------------
(* Mutants: plausible bugs of the definitions below.                       *)

\* The carry is lost.
IncrementNoCarry(s) == [s EXCEPT !.low = (@ + 1) % LowMod]

-----------------------------------------------------------------------------
\* wc_b64ish_encode(): digits, the most significant first.  The characters are
\* in ASCII order, so a digit stands for its character.
b64ish_encode(n, width) == [i \in 1..width |-> (n \div Power[width - i]) % Base]

\* One more, with a carry from the low to the high part, and none out of it.
Increment(s) ==
    LET low == (s.low + 1) % LowMod
    IN  [s EXCEPT !.low = low, !.high = IF low = 0 THEN (@ + 1) % HighMod ELSE @]

\* The states that wc_datasync_push_id() may leave behind at this time.
Advanced(s, time) ==
    IF s.last_time # time
    THEN {[last_time |-> time, high |-> r[1], low |-> r[2]] : r \in Rand}
    ELSE {Increment(s)}

\* The key it writes.
push_id(s) ==
    b64ish_encode(s.last_time % Power[TimeDigits], TimeDigits)
    \o b64ish_encode(s.high * LowMod + s.low, RandDigits)

\* The order of wc_datasync_key_cmp(), strcmp(): a key that starts with '-' and
\* a letter is not read as an integer.
Precedes(a, b) ==
    \E i \in DOMAIN a : a[i] < b[i] /\ \A h \in 1..i - 1 : a[h] = b[h]
=============================================================================

----------------------------- MODULE PathOrder ------------------------------
(***************************************************************************)
(* Keys and the order of keys and paths (lib/datasync/path.c).  A key is   *)
(* known by what wc_datasync_key_cmp() reads of it: num, the integer that  *)
(* sscanf("%i") makes of the whole of it (NotInt if it makes none), its    *)
(* length, and its rank among all keys in the order of strcmp().  The text *)
(* of a path is a sequence of keys and slashes.                            *)
(***************************************************************************)
EXTENDS DsPath, Integers

CONSTANTS
    NotInt,         \* sscanf() does not read an integer up to the end
    IntHalf,        \* int ranges over -IntHalf .. IntHalf - 1 (2^31 in the code)
    Slash,          \* the character '/'
    MaxDepth,       \* WC_DS_MAX_DEPTH
    KeySet,         \* the keys in use
    PathSet         \* the paths in use

\* The order of the keys as webcom-parser.h documents it: integers first, in
\* their natural order, then the others in lexicographical order.
KeyBefore(a, b) ==
    \/ a.num # NotInt /\ b.num = NotInt
    \/ /\ a.num # NotInt /\ b.num # NotInt
       /\ a.num < b.num \/ (a.num = b.num /\ a.len < b.len)
    \/ a.num = NotInt /\ b.num = NotInt /\ a.text < b.text

\* What is taken for granted of the keys in use: their integers are not further
\* apart than an int can tell, and of two keys one comes first (0x1 and 001 are
\* not both in use).
ASSUME PathOrderAssumption ==
    /\ NotInt \notin Int
    /\ IntHalf \in Nat \ {0}
    /\ MaxDepth \in Nat \ {0}
    /\ \A k \in KeySet : k.num \in Int \cup {NotInt} /\ k.len \in Nat /\ k.text \in Int
    /\ \A a, b \in KeySet :
        /\ a.num # NotInt /\ b.num # NotInt => a.num - b.num < IntHalf
        /\ a # b => KeyBefore(a, b) \/ KeyBefore(b, a)
    /\ PathSet \subseteq Seq(KeySet)

-----------------------------------------------------------------------------
\* What is left of x once it is converted to int.
ToInt(x) == ((x + IntHalf) % (2 * IntHalf)) - IntHalf

\* wc_datasync_key_cmp(): the lengths tell apart keys like 1 and 01; the
\* difference of two int64_t is returned as an int.
key_cmp(a, b) ==
    IF a.num # NotInt /\ b.num # NotInt
    THEN IF a.num = b.num THEN a.len - b.len ELSE ToInt(a.num - b.num)
    ELSE IF a.num # NotInt THEN -1
    ELSE IF b.num # NotInt THEN 1
    ELSE a.text - b.text

\* A mutant of path_cmp: the shorter path comes first, whatever its keys.
PathCmpByLength(a, b) ==
    LET differ == {u \in DOMAIN a \cap DOMAIN b : key_cmp(a[u], b[u]) # 0}
    IN  IF Len(a) # Len(b) \/ differ = {} THEN Len(a) - Len(b)
        ELSE LET u == CHOOSE u \in differ : \A w \in differ : u <= w
             IN  key_cmp(a[u], b[u])

\* wc_datasync_path_cmp(): by the first keys that differ, else by the lengths.
path_cmp(a, b) ==
    LET differ == {u \in DOMAIN a \cap DOMAIN b : key_cmp(a[u], b[u]) # 0}
    IN  IF differ = {} THEN Len(a) - Len(b)
        ELSE LET u == CHOOSE u \in differ : \A w \in differ : u <= w
             IN  key_cmp(a[u], b[u])

\* wc_datasync_path_parse(): the keys between the slashes; what is deeper than
\* MaxDepth is dropped without a word.
path_parse(text) ==
    LET parts == SelectSeq(text, LAMBDA t : t # Slash)
    IN  SubSeq(parts, 1, IF Len(parts) < MaxDepth THEN Len(parts) ELSE MaxDepth)

-----------------------------------------------------------------------------
\* The order of the paths that follows from it: a path comes before what is below
\* it, and other paths are in the order of the first keys that differ.
PathBefore(a, b) ==
    \/ a # b /\ starts_with(b, a)
    \/ \E u \in DOMAIN a \cap DOMAIN b :
        KeyBefore(a[u], b[u]) /\ \A w \in 1..u - 1 : a[w] = b[w]

\* The path q at or below p does not come before p, and what comes between them
\* is below p too.
RunOf(p, q, r) ==
    starts_with(q, p) =>
        /\ path_cmp(p, q) <= 0
        /\ path_cmp(p, r) <= 0 /\ path_cmp(r, q) <= 0 => starts_with(r, p)
=============================================================================

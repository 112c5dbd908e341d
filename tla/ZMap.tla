-------------------------------- MODULE ZMap --------------------------------
(***************************************************************************)
(* ZMap: the hash map of the original binaries, which the extensions read  *)
(* through get_at, begin, get_next and for_each.  Only the binary changes  *)
(* it (external).  A new pair becomes the head of its bucket; a removed    *)
(* one is taken out of its bucket's list and freed; a table that grows     *)
(* gets every pair filed anew.                                             *)
(*                                                                         *)
(* get_next links the last pair of a bucket to the head of the next used   *)
(* bucket, in the map itself, and the link stays there.  The binary does   *)
(* not know of it: where it removes a pair that such a link leads to, or   *)
(* grows a table that has one, the map is broken, and nothing is said of   *)
(* what follows.                                                           *)
(***************************************************************************)
EXTENDS Integers

CONSTANTS
    Keys,       \* of the pairs
    Hash,       \* get_hash
    Sizes,      \* the values of table_size_
    LastRank,   \* bound of a rank
    Orders,     \* the ranks by which a grown table may list its pairs
    Values,
    Default,    \* what the caller of get_at put into its parameter
    Null        \* a null pointer

\* Ranks put the keys, integers of 32 bits, in an order.
Ranks == {o \in [Keys -> 0 .. LastRank] : \A k, l \in Keys : o[k] = o[l] => k = l}

ASSUME TableAssumption ==
    /\ Hash \in [Keys -> Nat]
    /\ Sizes \subseteq Nat \ {0}
    /\ LastRank \in Nat /\ Orders \subseteq Ranks
ASSUME ValuesAssumption == Default \notin Values /\ Null \notin Keys \cup Values

VARIABLES
    tableSize, \* table_size_
    table,     \* ap_table_: bucket -> its first pair; a pair is named by its key
    next,      \* key -> next_ of its pair
    value,     \* key -> value_ of its pair
    here,      \* the keys whose pair is in the map
    pos,       \* of for_each: the next pair, Null when none is under way
    seen,      \* the keys the last for_each has handed to its function; dropped by an insertion
    twice,     \* whether it has handed one over a second time
    moved,     \* whether the table has grown under it
    answer,    \* of the last get_at: its key, and the value or Null
    linked,    \* history: whether get_next has linked two buckets
    late,      \* history: the keys inserted after that, or while a for_each was under way
    nullRead,  \* whether a null pointer was read
    broken     \* whether a pointer leads to a freed pair, or the pairs were misfiled

zmapVars == <<tableSize, table, next, value, here, pos, seen, twice, moved, answer, linked,
              late, nullRead, broken>>

Buckets == 0 .. tableSize - 1
Bucket == [k \in Keys |-> Hash[k] % tableSize]

NoAnswer == [key |-> Null, value |-> Null]

ZMapInit ==
    /\ tableSize \in Sizes
    /\ table = [b \in Buckets |-> Null]
    /\ next = [k \in Keys |-> Null]
    /\ value = [k \in Keys |-> Default]
    /\ here = {}
    /\ pos = Null
    /\ seen = {}
    /\ answer = NoAnswer
    /\ late = {}
    /\ twice = FALSE /\ moved = FALSE /\ linked = FALSE /\ nullRead = FALSE /\ broken = FALSE

-----------------------------------------------------------------------------
(* Lists of pairs *)

\* What holds a pair's successor with the pair.
Closed(S) == \A p \in S : next[p] # Null => next[p] \in S

\* The pairs next_ leads to from p on, which is the first of them.
Chain(p) == {q \in Keys : \A S \in SUBSET Keys : p \in S /\ Closed(S) => q \in S}

Ends(p) == \E q \in Chain(p) : next[q] = Null

-----------------------------------------------------------------------------
(* The binary, which also acts when the function of a for_each makes it *)

Insert(k, v) ==
    /\ ~nullRead /\ ~broken
    /\ k \notin here
    /\ table' = [table EXCEPT ![Bucket[k]] = k]
    /\ next' = [next EXCEPT ![k] = table[Bucket[k]]]
    /\ value' = [value EXCEPT ![k] = v]
    /\ here' = here \cup {k}
    /\ late' = IF linked \/ pos # Null THEN late \cup {k} ELSE late
    /\ seen' = IF pos = Null THEN {} ELSE seen
    /\ answer' = NoAnswer
    /\ UNCHANGED <<tableSize, pos, twice, moved, linked, nullRead, broken>>

\* The pairs before k in the list of its bucket: the binary looks for k there only.
Before(k) == {p \in Chain(table[Bucket[k]]) : next[p] = k}

\* What else leads to k is left with a freed pair: a for_each, another bucket's pair or head.
RemoveKey(k) ==
    /\ ~nullRead /\ ~broken
    /\ k \in here
    /\ table' = [table EXCEPT ![Bucket[k]] = IF @ = k THEN next[k] ELSE @]
    /\ next' = [p \in Keys |-> IF p = k THEN Null
                               ELSE IF p \in Before(k) THEN next[k] ELSE next[p]]
    /\ value' = [value EXCEPT ![k] = Default]
    /\ here' = here \ {k}
    /\ late' = late \ {k}
    /\ seen' = seen \ {k}
    /\ answer' = NoAnswer
    /\ broken' = \/ pos = k
                 \/ \E p \in Keys \ {k} : next[p] = k /\ p \notin Before(k)
                 \/ \E b \in Buckets \ {Bucket[k]} : table[b] = k
    /\ UNCHANGED <<tableSize, pos, twice, moved, linked, nullRead>>

\* A list that leads into another bucket is no list of the bucket's pairs.
Crossing ==
    \/ \E p \in Keys : next[p] # Null /\ Bucket[p] # Bucket[next[p]]
    \/ \E b \in Buckets : table[b] # Null /\ Bucket[table[b]] # b

Lowest(order, S) ==
    IF S = {} THEN Null ELSE CHOOSE p \in S : \A q \in S : order[p] <= order[q]

\* The pairs behind p in a table of n buckets.
FiledAfter(order, p, n) ==
    {q \in here : Hash[q] % n = Hash[p] % n /\ order[p] < order[q]}

\* Each bucket's list is walked, and its pairs are filed in n buckets.
Grow(n, order) ==
    /\ ~nullRead /\ ~broken
    /\ n > tableSize
    /\ tableSize' = n
    /\ table' = [b \in 0 .. n - 1 |-> Lowest(order, {p \in here : Hash[p] % n = b})]
    /\ next' = [p \in Keys |-> IF p \in here THEN Lowest(order, FiledAfter(order, p, n)) ELSE Null]
    /\ moved' = (moved \/ pos # Null)
    /\ answer' = NoAnswer
    /\ broken' = Crossing
    /\ UNCHANGED <<value, here, pos, seen, twice, linked, late, nullRead>>

-----------------------------------------------------------------------------
(* The extensions *)

\* The pair the loop of get_at ends with; it never ends in a ring without the key.
Found(k) == IF k \in Chain(table[Bucket[k]]) THEN k ELSE Null
Searched(k) == table[Bucket[k]] = Null \/ Found(k) = k \/ Ends(table[Bucket[k]])

\* Mutant of GetAt: an empty table is not expected, and neither is the key of another pair.
GetAtFirst(k) ==
    /\ ~nullRead /\ ~broken
    /\ answer' = [key |-> k,
                  value |-> IF table[Bucket[k]] = Null THEN Default
                            ELSE value[table[Bucket[k]]]]
    /\ UNCHANGED <<tableSize, table, next, value, here, pos, seen, twice, moved, linked, late,
                   nullRead, broken>>

\* An empty bucket answers with the parameter, one without the key with a null pointer.
GetAt(k) ==
    /\ ~nullRead /\ ~broken
    /\ Searched(k)
    /\ answer' = [key |-> k,
                  value |-> IF table[Bucket[k]] = Null THEN Default
                            ELSE IF Found(k) = Null THEN Null ELSE value[Found(k)]]
    /\ UNCHANGED <<tableSize, table, next, value, here, pos, seen, twice, moved, linked, late,
                   nullRead, broken>>

UsedFrom(b) == {c \in Buckets : c >= b /\ table[c] # Null}

\* The head of the first used bucket from b on.
HeadFrom(b) ==
    IF UsedFrom(b) = {} THEN Null
    ELSE table[CHOOSE c \in UsedFrom(b) : \A d \in UsedFrom(b) : c <= d]

\* for_each starts: what begin returns goes to get_next unseen.
Begin ==
    /\ ~nullRead /\ ~broken
    /\ pos = Null
    /\ pos' = HeadFrom(0)
    /\ nullRead' = (HeadFrom(0) = Null)
    /\ seen' = {}
    /\ twice' = FALSE /\ moved' = FALSE
    /\ answer' = NoAnswer
    /\ UNCHANGED <<tableSize, table, next, value, here, linked, late, broken>>

\* Mutant of SearchStart: the bucket itself is searched again.
SearchSelf(k) == Bucket[k]

\* Where the search for the next bucket starts.
SearchStart(k) == Bucket[k] + 1

\* Mutant of GetNext: the pair that was found is the current one, and its successor is lost.
GetNextSkips ==
    LET following == HeadFrom(SearchStart(pos))
    IN  /\ ~nullRead /\ ~broken
        /\ pos # Null
        /\ next' = [next EXCEPT ![pos] = following]
        /\ pos' = following
        /\ linked' = (linked \/ following # Null)
        /\ seen' = seen \cup {pos}
        /\ twice' = (twice \/ pos \in seen)
        /\ answer' = NoAnswer
        /\ UNCHANGED <<tableSize, table, value, here, moved, late, nullRead, broken>>

\* A round of for_each: get_next, and the function.
GetNext ==
    LET following == HeadFrom(SearchStart(pos))
    IN  /\ ~nullRead /\ ~broken
        /\ pos # Null
        /\ IF next[pos] = Null
           THEN /\ next' = [next EXCEPT ![pos] = following]
                /\ pos' = following
                /\ linked' = (linked \/ following # Null)
           ELSE pos' = next[pos] /\ UNCHANGED <<next, linked>>
        /\ seen' = seen \cup {pos}
        /\ twice' = (twice \/ pos \in seen)
        /\ answer' = NoAnswer
        /\ UNCHANGED <<tableSize, table, value, here, moved, late, nullRead, broken>>

ZMapNext ==
    \/ \E k \in Keys, v \in Values : Insert(k, v)
    \/ \E k \in Keys : RemoveKey(k)
    \/ \E n \in Sizes, order \in Orders : Grow(n, order)
    \/ \E k \in Keys : GetAt(k)
    \/ Begin
    \/ GetNext

ZMapSpec == ZMapInit /\ [][ZMapNext]_zmapVars

-----------------------------------------------------------------------------
(* Properties *)

\* get_at gives the value of the key, never that of another pair its chain runs through: the
\* links that get_next left behind lead it into other buckets.
LookupTruthful ==
    answer.key # Null =>
        IF answer.key \in here THEN answer.value = value[answer.key]
                               ELSE answer.value \in {Null, Default}

\* for_each hands no pair to its function twice, and ends with every pair handed over but,
\* perhaps, those that came while it ran or after an earlier round had linked the buckets,
\* unless the table grew under it; it faults on an empty map only.
EnumerationComplete ==
    /\ nullRead => here = {}
    /\ ~moved => ~twice /\ (pos = Null /\ seen # {} => here \ late \subseteq seen)

\* get_at and for_each come to an end: no link that get_next makes closes a ring.
ChainsEnd == \A b \in Buckets : table[b] # Null => Ends(table[b])

\* The map the extensions see is the one the binary filled, although reading it changes it and
\* the binary inserts, removes and grows in between; it breaks only once a for_each has linked
\* buckets, or stands at the pair that is removed.
ZMapTruthful ==
    /\ ~broken => LookupTruthful /\ EnumerationComplete /\ ChainsEnd
    /\ broken => linked \/ pos \notin here \cup {Null}
=============================================================================

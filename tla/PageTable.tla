----------------------------- MODULE PageTable -----------------------------
(***************************************************************************)
(* The fixed-capacity Robin-Hood hash map with backshift deletion that the *)
(* buffer manager uses as its page table (RHBSU64Map<BufTagged> in         *)
(* src/src/buffer_mgr/rh_backshift_u64_map.hpp).                           *)
(*                                                                         *)
(* A slot is a record [ctrl, key, val]: ctrl is the probe-distance byte    *)
(* (0 = empty, d = the entry sits d-1 slots after its home slot), key the  *)
(* stored key (NoKey plays EMPTY_KEY = ~0) and val the stored value.       *)
(* The table operations are pure operators on a table value so that the    *)
(* buffer manager can compose them inside its own actions; the actions of  *)
(* this module apply them to the variable `table`.                         *)
(*                                                                         *)
(* The hash, splitmix64(k) & (capacity - 1), is not computed: Home is the  *)
(* function key -> home slot, given in the MC module by the values that    *)
(* splitmix64 really produces for the keys used.                           *)
(***************************************************************************)
EXTENDS Integers, Sequences, FiniteSets

CONSTANTS
    Keys,       \* keys that may be stored (PIDs)
    Values,     \* values that may be stored (BufTagged descriptors)
    Capacity,   \* n, a power of two
    Home,       \* [Keys -> 0..Capacity-1], index(hash(k))
    NoKey,      \* EMPTY_KEY sentinel
    NoVal       \* value of a slot that holds no entry

ASSUME /\ Capacity \in Nat \ {0}
       /\ Home \in [Keys -> 0..Capacity-1]
       /\ NoKey \notin Keys
       /\ Capacity < 255

VARIABLE table   \* [Slots -> Slot], the entries[] and ctrl[] arrays

Slots == 0..(Capacity - 1)

\* ctrl is a uint8_t; the probe loops give up when dist reaches 255.
MaxDist == 255

Slot == [ctrl : 0..(MaxDist - 1), key : Keys \cup {NoKey}, val : Values \cup {NoVal}]

EmptySlot == [ctrl |-> 0, key |-> NoKey, val |-> NoVal]

\* (i + 1) & mask
NextSlot(i) == (i + 1) % Capacity

\* Result of Find when the key is absent (find returns nullptr).
NotFound == -1

(***************************************************************************)
(* find(k): probe from the home slot; an empty slot, or a slot whose       *)
(* occupant is closer to its home than we are to ours, ends the search.    *)
(***************************************************************************)
\* Mutant: the early exit also taken when the occupant is exactly as far
\* from its home as we are (c <= dist instead of c < dist).
RECURSIVE FindFromEarlyExit(_, _, _, _)
FindFromEarlyExit(t, k, i, dist) ==
    IF t[i].ctrl = 0 THEN NotFound
    ELSE IF t[i].ctrl <= dist THEN NotFound
    ELSE IF t[i].key = k THEN i
    ELSE IF dist + 1 = MaxDist THEN NotFound
    ELSE FindFromEarlyExit(t, k, NextSlot(i), dist + 1)

RECURSIVE FindFrom(_, _, _, _)
FindFrom(t, k, i, dist) ==
    IF t[i].ctrl = 0 THEN NotFound
    ELSE IF t[i].ctrl < dist THEN NotFound
    ELSE IF t[i].key = k THEN i
    ELSE IF dist + 1 = MaxDist THEN NotFound
    ELSE FindFrom(t, k, NextSlot(i), dist + 1)

Find(t, k) == FindFrom(t, k, Home[k], 1)

(***************************************************************************)
(* insert(k, v): place into the first empty slot; replace the value if the *)
(* key is met; swap the carried entry with a "richer" occupant (ctrl <     *)
(* dist) and carry the displaced one on.  Result: the new table, whether a *)
(* new key was inserted, and whether ensure(false) fired on dist = 255.    *)
(***************************************************************************)
\* Mutant: the key and value are swapped but the distance is not, so the
\* displaced entry is carried on with the newcomer's distance.
RECURSIVE InsertFromKeepDist(_, _, _, _, _)
InsertFromKeepDist(t, k, v, i, dist) ==
    IF t[i].ctrl = 0
    THEN [table |-> [t EXCEPT ![i] = [ctrl |-> dist, key |-> k, val |-> v]],
          inserted |-> TRUE, overflow |-> FALSE]
    ELSE IF t[i].key = k
    THEN [table |-> [t EXCEPT ![i].val = v], inserted |-> FALSE, overflow |-> FALSE]
    ELSE LET swap == t[i].ctrl < dist
             t2   == IF swap THEN [t EXCEPT ![i].key = k, ![i].val = v] ELSE t
             k2   == IF swap THEN t[i].key ELSE k
             v2   == IF swap THEN t[i].val ELSE v
         IN IF dist + 1 = MaxDist
            THEN [table |-> t2, inserted |-> FALSE, overflow |-> TRUE]
            ELSE InsertFromKeepDist(t2, k2, v2, NextSlot(i), dist + 1)

RECURSIVE InsertFrom(_, _, _, _, _)
InsertFrom(t, k, v, i, dist) ==
    IF t[i].ctrl = 0
    THEN [table |-> [t EXCEPT ![i] = [ctrl |-> dist, key |-> k, val |-> v]],
          inserted |-> TRUE, overflow |-> FALSE]
    ELSE IF t[i].key = k
    THEN [table |-> [t EXCEPT ![i].val = v], inserted |-> FALSE, overflow |-> FALSE]
    ELSE LET swap == t[i].ctrl < dist
             t2   == IF swap THEN [t EXCEPT ![i] = [ctrl |-> dist, key |-> k, val |-> v]]
                             ELSE t
             k2   == IF swap THEN t[i].key ELSE k
             v2   == IF swap THEN t[i].val ELSE v
             d2   == IF swap THEN t[i].ctrl ELSE dist
         IN IF d2 + 1 = MaxDist
            THEN [table |-> t2, inserted |-> FALSE, overflow |-> TRUE]
            ELSE InsertFrom(t2, k2, v2, NextSlot(i), d2 + 1)

(* In a full table without k no slot is ever empty and no stored key is   *)
(* k, so the loop carries an entry around until ++dist reaches 255: with   *)
(* Capacity < 255 that is exactly "full and absent", decided up front so   *)
(* that the probe is not unrolled 254 times.                               *)
Full(t) == \A i \in Slots : t[i].ctrl # 0

Insert(t, k, v) ==
    IF Full(t) /\ \A i \in Slots : t[i].key # k
    THEN [table |-> t, inserted |-> FALSE, overflow |-> TRUE]
    ELSE InsertFrom(t, k, v, Home[k], 1)

(***************************************************************************)
(* backshift_delete(hole): pull the following entries one slot back while  *)
(* they are displaced (ctrl > 1), then empty the last slot moved from.     *)
(***************************************************************************)
RECURSIVE Backshift(_, _)
Backshift(t, j) ==
    LET k == NextSlot(j) IN
    IF t[k].ctrl <= 1
    THEN [t EXCEPT ![j] = EmptySlot]
    ELSE Backshift([t EXCEPT ![j] = [t[k] EXCEPT !.ctrl = t[k].ctrl - 1]], k)

\* Mutant: off by one, the backshift starts at the slot after the match.
EraseNext(t, k) ==
    LET s == Find(t, k) IN
    IF s = NotFound THEN [table |-> t, deleted |-> FALSE]
    ELSE [table |-> Backshift(t, NextSlot(s)), deleted |-> TRUE]

\* erase(k): the same probe as find, then backshift; result [table, deleted].
Erase(t, k) ==
    LET s == Find(t, k) IN
    IF s = NotFound THEN [table |-> t, deleted |-> FALSE]
    ELSE [table |-> Backshift(t, s), deleted |-> TRUE]

\* Value stored for k, or NoVal: what the table means as a map.
Lookup(t, k) == IF Find(t, k) = NotFound THEN NoVal ELSE t[Find(t, k)].val

\* sz: the number of occupied slots (insert increments it, erase decrements).
Size(t) == Cardinality({i \in Slots : t[i].ctrl # 0})

(***************************************************************************)
(* clock_sweep_next visits the slots sweep_, sweep_+1, ... (one full       *)
(* rotation), skipping empty ones, and stops at the first slot the         *)
(* callback accepts, leaving the hand just after it; after a rotation with *)
(* no acceptance the hand is back where it started.  SweepOrder(h) is the  *)
(* occupied slots in visiting order; the caller folds its callback over it *)
(* and sets the hand with SweepHandAfter.                                  *)
(***************************************************************************)
SweepOrder(t, h) ==
    LET idx(n) == (h + n) % Capacity
        occ == {n \in 0..(Capacity - 1) : t[idx(n)].ctrl # 0}
        RECURSIVE Build(_)
        Build(n) == IF n = Capacity THEN <<>>
                    ELSE IF n \in occ THEN <<idx(n)>> \o Build(n + 1)
                    ELSE Build(n + 1)
    IN Build(0)

SweepHandAfter(slot) == NextSlot(slot)

-----------------------------------------------------------------------------
(***************************************************************************)
(* The table on its own: the constructor, then insert and erase of any key *)
(* in any order.  An insert whose probe overflows ends the process.        *)
(***************************************************************************)
VARIABLES
    crashed,    \* an ensure() failed and the process stopped
    call        \* the last operation invoked on the table

vars == <<table, crashed, call>>

Init ==
    /\ table = [i \in Slots |-> EmptySlot]
    /\ crashed = FALSE
    /\ call = [kind |-> "none"]

DoInsert(k, v) ==
    LET r == Insert(table, k, v) IN
    /\ ~crashed
    /\ call' = [kind |-> "insert", key |-> k, val |-> v]
    /\ IF r.overflow THEN crashed' = TRUE /\ UNCHANGED table
                     ELSE table' = r.table /\ UNCHANGED crashed

DoErase(k) ==
    /\ ~crashed
    /\ table' = Erase(table, k).table
    /\ call' = [kind |-> "erase", key |-> k]
    /\ UNCHANGED crashed

\* ensure() throws and the exception ends the process: nothing happens after.
Aborted == crashed /\ UNCHANGED vars

Next ==
    \/ \E k \in Keys, v \in Values : DoInsert(k, v)
    \/ \E k \in Keys : DoErase(k)
    \/ Aborted

Spec == Init /\ [][Next]_vars

-----------------------------------------------------------------------------
TypeOK ==
    /\ table \in [Slots -> Slot]
    /\ crashed \in BOOLEAN

\* Distance of slot i from slot h going forward around the table.
Dist(h, i) == (i - h + Capacity) % Capacity

(***************************************************************************)
(* Robin-Hood layout (what find's early exit relies on): every occupied   *)
(* slot records its true displacement + 1, no key is stored twice, and     *)
(* along the table an entry is displaced at most one more than the entry   *)
(* before it, so that no probe chain has a hole or an out-of-order entry.  *)
(***************************************************************************)
RobinHoodLayout ==
    /\ \A i \in Slots : table[i].ctrl # 0 =>
           /\ table[i].key \in Keys
           /\ table[i].ctrl = Dist(Home[table[i].key], i) + 1
    /\ \A i, j \in Slots : i # j /\ table[i].ctrl # 0 /\ table[j].ctrl # 0
           => table[i].key # table[j].key
    /\ \A i \in Slots : table[NextSlot(i)].ctrl <= table[i].ctrl + 1

(***************************************************************************)
(* find() reaches every stored entry: for each occupied slot, find of its  *)
(* key returns that very slot.  This is what the early exit (c < dist) and *)
(* the stop rule of backshift_delete (ctrl <= 1) must preserve together.   *)
(***************************************************************************)
EveryEntryFindable ==
    \A i \in Slots : table[i].ctrl # 0 => Find(table, table[i].key) = i

(***************************************************************************)
(* The table implements a map: every insert, erase and overflow is a step  *)
(* of KeyValueMap under the mapping "k maps to what find(k) returns".       *)
(***************************************************************************)
Map == INSTANCE KeyValueMap WITH
           map <- [k \in Keys |-> Lookup(table, k)],
           halted <- crashed,
           call <- call

MapRefinement == Map!Spec
=============================================================================

----------------------------- MODULE ChainedHT -----------------------------
(***************************************************************************)
(* The fixed-capacity chained hash table of src/src/utils/hashtable.hpp    *)
(* (ChainedHT<Value>), the probe table the shuffle workers fill.           *)
(*                                                                         *)
(* The heap is modelled at the level of its pointers: n bucket heads, n    *)
(* nodes with a next pointer, a key and a value, and the head of the free  *)
(* list.  A pointer is a node index or Nil (nullptr).  A link, the         *)
(* Node** the algorithms walk with, is <<"b", i>> for &buckets[i] or       *)
(* <<"n", j>> for &nodes[j].next.  The operations are pure operators on a *)
(* table value h = [bk, nd, free, sz]; the actions apply them.             *)
(*                                                                         *)
(* As in PageTable, the hash is not computed: Home gives index(hash(k))    *)
(* for the modelled keys.                                                  *)
(***************************************************************************)
EXTENDS Integers, Sequences, SequencesExt, FiniteSets

CONSTANTS
    Keys,       \* keys that may be inserted
    Values,     \* values that may be inserted
    Capacity,   \* n: buckets and nodes, a power of two
    Home,       \* [Keys -> 0..Capacity-1], index(hash(k))
    BatchSize,  \* BATCH_SIZE (2048 in the code)
    Nil,        \* nullptr
    NoKey,      \* content of a node never written (the zeroed mapping)
    NoVal

ASSUME /\ Capacity \in Nat \ {0}
       /\ Home \in [Keys -> 0..Capacity-1]
       /\ BatchSize \in Nat \ {0}

Nodes == 0..(Capacity - 1)
Ptr   == Nodes \cup {Nil}
Link  == ({"b"} \X Nodes) \cup ({"n"} \X Nodes)

Node == [next : Ptr, k : Keys \cup {NoKey}, v : Values \cup {NoVal}]

(***************************************************************************)
(* The constructor: buckets from a zeroed mapping (all nullptr); the free  *)
(* list threads nodes 0 -> 1 -> ... -> n-1 -> nullptr.                     *)
(***************************************************************************)
Empty ==
    [bk   |-> [i \in Nodes |-> Nil],
     nd   |-> [j \in Nodes |-> [next |-> IF j + 1 < Capacity THEN j + 1 ELSE Nil,
                                k |-> NoKey, v |-> NoVal]],
     free |-> 0,
     sz   |-> 0]

\* *link and *link = p
Deref(h, l) == IF l[1] = "b" THEN h.bk[l[2]] ELSE h.nd[l[2]].next
SetLink(h, l, p) ==
    IF l[1] = "b" THEN [h EXCEPT !.bk[l[2]] = p]
    ELSE [h EXCEPT !.nd[l[2]].next = p]

\* alloc_node(): ensure(free_list) then pop its head.  "ok" is FALSE when
\* the ensure fires, which ends the process.
AllocNode(h) ==
    IF h.free = Nil THEN [ok |-> FALSE, h |-> h, node |-> Nil]
    ELSE [ok |-> TRUE, node |-> h.free,
          h |-> [h EXCEPT !.free = h.nd[h.free].next]]

\* new (node) Node{next, k, v}; *link = node
Place(a, l, next, k, v) ==
    SetLink([a.h EXCEPT !.nd[a.node] = [next |-> next, k |-> k, v |-> v]],
            l, a.node)

Failed(h) == [ok |-> FALSE, h |-> h]

(***************************************************************************)
(* insert(k, v): walk the chain; update the value of a node with key k,   *)
(* or append a new node at the tail and count it.                          *)
(***************************************************************************)
RECURSIVE InsertFrom(_, _, _, _)
InsertFrom(h, l, k, v) ==
    LET p == Deref(h, l) IN
    IF p = Nil
    THEN LET a == AllocNode(h) IN
         IF ~a.ok THEN Failed(h)
         ELSE [ok |-> TRUE, h |-> [Place(a, l, Nil, k, v) EXCEPT !.sz = @ + 1]]
    ELSE IF h.nd[p].k = k THEN [ok |-> TRUE, h |-> [h EXCEPT !.nd[p].v = v]]
    ELSE InsertFrom(h, <<"n", p>>, k, v)

Insert(h, k, v) == InsertFrom(h, <<"b", Home[k]>>, k, v)

(***************************************************************************)
(* seed_build_: for each pending (k, v) in order, look at the head of its  *)
(* bucket: an empty bucket gets a new node (counted in new_count), a head  *)
(* with key k gets the value, and anything else becomes a walker that      *)
(* starts at &head->next.  Walkers keep the order of the batch.            *)
(***************************************************************************)
\* Mutant: the head is not compared with k, so a key already at the head
\* of its bucket is walked past and appended a second time.
SeedOneNoHeadCheck(s, w) ==
    LET h == s.h
        hd == h.bk[Home[w.k]]
    IN
    IF ~s.ok THEN s
    ELSE IF hd = Nil
    THEN LET a == AllocNode(h) IN
         IF ~a.ok THEN [s EXCEPT !.ok = FALSE]
         ELSE [s EXCEPT !.h = Place(a, <<"b", Home[w.k]>>, hd, w.k, w.v),
                        !.new = @ + 1]
    ELSE [s EXCEPT !.ws = Append(@, [cur |-> <<"n", hd>>, k |-> w.k, v |-> w.v])]

SeedOne(s, w) ==
    LET h == s.h
        hd == h.bk[Home[w.k]]
    IN
    IF ~s.ok THEN s
    ELSE IF hd = Nil
    THEN LET a == AllocNode(h) IN
         IF ~a.ok THEN [s EXCEPT !.ok = FALSE]
         ELSE [s EXCEPT !.h = Place(a, <<"b", Home[w.k]>>, hd, w.k, w.v),
                        !.new = @ + 1]
    ELSE IF h.nd[hd].k = w.k THEN [s EXCEPT !.h.nd[hd].v = w.v]
    ELSE [s EXCEPT !.ws = Append(@, [cur |-> <<"n", hd>>, k |-> w.k, v |-> w.v])]

SeedBuild(h, work) ==
    FoldLeft(SeedOne, [ok |-> TRUE, h |-> h, new |-> 0, ws |-> <<>>], work)

\* Mutant: a walker that reaches its key leaves the value as it was.
WalkOneNoUpdate(s, w) ==
    LET p == Deref(s.h, w.cur) IN
    IF ~s.ok THEN s
    ELSE IF p # Nil
    THEN IF s.h.nd[p].k # w.k
         THEN [s EXCEPT !.ws = Append(@, [w EXCEPT !.cur = <<"n", p>>])]
         ELSE s
    ELSE LET a == AllocNode(s.h) IN
         IF ~a.ok THEN [s EXCEPT !.ok = FALSE]
         ELSE [s EXCEPT !.h = Place(a, w.cur, Nil, w.k, w.v), !.new = @ + 1]

(***************************************************************************)
(* One round of walk_compact_: each walker, in order, reads *cur afresh.  *)
(* A node with another key moves the walker one hop (it survives, kept at  *)
(* the front); a node with its key takes the value; nullptr is the tail,  *)
(* where a new node is appended and counted.                               *)
(***************************************************************************)
WalkOne(s, w) ==
    LET p == Deref(s.h, w.cur) IN
    IF ~s.ok THEN s
    ELSE IF p # Nil
    THEN IF s.h.nd[p].k # w.k
         THEN [s EXCEPT !.ws = Append(@, [w EXCEPT !.cur = <<"n", p>>])]
         ELSE [s EXCEPT !.h.nd[p].v = w.v]
    ELSE LET a == AllocNode(s.h) IN
         IF ~a.ok THEN [s EXCEPT !.ok = FALSE]
         ELSE [s EXCEPT !.h = Place(a, w.cur, Nil, w.k, w.v), !.new = @ + 1]

\* while (wn): run a round over the survivors of the previous one.
RECURSIVE WalkCompact(_)
WalkCompact(s) ==
    IF ~s.ok \/ s.ws = <<>> THEN s
    ELSE WalkCompact(FoldLeft(WalkOne, [s EXCEPT !.ws = <<>>], s.ws))

(***************************************************************************)
(* process_batch_full / process_batch_var: seed, walk, then one size      *)
(* update for all the nodes the batch created.                             *)
(***************************************************************************)
ProcessBatch(h, work) ==
    LET s == WalkCompact(SeedBuild(h, work)) IN
    [ok |-> s.ok, h |-> [s.h EXCEPT !.sz = h.sz + s.new]]

(***************************************************************************)
(* find(k) and erase(k): walk the chain of k's bucket.  erase unlinks the  *)
(* node and pushes it on the free list; the node keeps its key and value.  *)
(***************************************************************************)
RECURSIVE FindFrom(_, _, _)
FindFrom(h, p, k) ==
    IF p = Nil THEN NoVal
    ELSE IF h.nd[p].k = k THEN h.nd[p].v
    ELSE FindFrom(h, h.nd[p].next, k)

Find(h, k) == FindFrom(h, h.bk[Home[k]], k)

\* Mutant: the unlinked node is not returned to the free list.
RECURSIVE EraseAtLeak(_, _, _)
EraseAtLeak(h, l, k) ==
    LET p == Deref(h, l) IN
    IF p = Nil THEN h
    ELSE IF h.nd[p].k = k
    THEN [SetLink(h, l, h.nd[p].next) EXCEPT !.sz = @ - 1]
    ELSE EraseAtLeak(h, <<"n", p>>, k)

RECURSIVE EraseAt(_, _, _)
EraseAt(h, l, k) ==
    LET p == Deref(h, l) IN
    IF p = Nil THEN h
    ELSE IF h.nd[p].k = k
    THEN [SetLink(h, l, h.nd[p].next) EXCEPT !.nd[p].next = h.free,
                                             !.free = p, !.sz = @ - 1]
    ELSE EraseAt(h, <<"n", p>>, k)

Erase(h, k) == EraseAt(h, <<"b", Home[k]>>, k)

-----------------------------------------------------------------------------
(***************************************************************************)
(* A client that calls the table's operations in any order with any keys. *)
(* `work` is work_[0 .. batch_len_): the pairs insert_batch has recorded   *)
(* but not yet applied.  `crashed` records an ensure() that fired.         *)
(***************************************************************************)
VARIABLES ht, work, crashed, call

vars == <<ht, work, crashed, call>>

Init == /\ ht = Empty
        /\ work = <<>>
        /\ crashed = FALSE
        /\ call = [kind |-> "none"]

\* Apply the result r of an operation: its table, or the abort.
Commit(r) == IF r.ok THEN ht' = r.h /\ crashed' = FALSE
             ELSE crashed' = TRUE /\ UNCHANGED ht

DoInsert(k, v) ==
    /\ ~crashed
    /\ Commit(Insert(ht, k, v))
    /\ call' = [kind |-> "insert", key |-> k, val |-> v]
    /\ UNCHANGED work

\* Mutant: the batch is processed one pair too late (batch_len_ > BATCH_SIZE),
\* writing past the end of work_.
DoInsertBatchLate(k, v) ==
    /\ ~crashed
    /\ LET w == Append(work, [k |-> k, v |-> v]) IN
       IF Len(w) > BatchSize
       THEN Commit(ProcessBatch(ht, w)) /\ work' = <<>>
       ELSE work' = w /\ UNCHANGED <<ht, crashed>>
    /\ call' = [kind |-> "batch", key |-> k, val |-> v]

\* insert_batch: record the pair; a full batch is processed and emptied.
DoInsertBatch(k, v) ==
    /\ ~crashed
    /\ LET w == Append(work, [k |-> k, v |-> v]) IN
       IF Len(w) = BatchSize
       THEN Commit(ProcessBatch(ht, w)) /\ work' = <<>>
       ELSE work' = w /\ UNCHANGED <<ht, crashed>>
    /\ call' = [kind |-> "batch", key |-> k, val |-> v]

\* flush_batch: process the tail of the batch, if there is one.
DoFlush ==
    /\ ~crashed
    /\ work # <<>>
    /\ Commit(ProcessBatch(ht, work))
    /\ work' = <<>>
    /\ call' = [kind |-> "flush"]

DoErase(k) ==
    /\ ~crashed
    /\ ht' = Erase(ht, k)
    /\ call' = [kind |-> "erase", key |-> k]
    /\ UNCHANGED <<work, crashed>>

\* A failed ensure() ends the process.
Terminated == crashed /\ UNCHANGED vars

Next ==
    \/ \E k \in Keys, v \in Values : DoInsert(k, v) \/ DoInsertBatch(k, v)
    \/ \E k \in Keys : DoErase(k)
    \/ DoFlush
    \/ Terminated

Spec == Init /\ [][Next]_vars

-----------------------------------------------------------------------------
TypeOK ==
    /\ ht \in [bk : [Nodes -> Ptr], nd : [Nodes -> Node], free : Ptr,
               sz : 0..Capacity]
    /\ work \in Seq([k : Keys, v : Values]) /\ Len(work) < BatchSize
    /\ crashed \in BOOLEAN

\* The nodes met following next pointers from p, at most `fuel` of them,
\* and the pointer reached after `fuel` hops (Nil iff the list ends).
RECURSIVE ListFrom(_, _, _)
ListFrom(h, p, fuel) ==
    IF p = Nil \/ fuel = 0 THEN <<>> ELSE <<p>> \o ListFrom(h, h.nd[p].next, fuel - 1)

RECURSIVE Hop(_, _, _)
Hop(h, p, n) == IF p = Nil \/ n = 0 THEN p ELSE Hop(h, h.nd[p].next, n - 1)

Chain(h, i) == ListFrom(h, h.bk[i], Capacity)

\* What find() returns for each key, and that map with the recorded batch
\* applied in order: what the user has asked the table to hold.
Contents(h) == [k \in Keys |-> Find(h, k)]
Put(m, x) == [m EXCEPT ![x.k] = x.v]
Visible(h, w) == FoldLeft(Put, Contents(h), w)
Held(m) == {k \in Keys : m[k] # NoVal}

(***************************************************************************)
(* The heap is a partition: every node is on exactly one list, the free    *)
(* list or the chain of one bucket; no list is cyclic; a chained node sits *)
(* in the bucket of its key, no key is chained twice, and sz counts the    *)
(* chained nodes.  This is what insert, the seed and walk phases of        *)
(* insert_batch, and erase (unlink, push on the free list) must preserve,  *)
(* whatever order they are called in.                                      *)
(***************************************************************************)
HeapWellFormed ==
    LET lists == <<ListFrom(ht, ht.free, Capacity)>> \o [i \in 1..Capacity |-> Chain(ht, i - 1)]
        all == FoldLeft(LAMBDA acc, l : acc \o l, <<>>, lists)
    IN
    /\ Hop(ht, ht.free, Capacity) = Nil
    /\ \A i \in Nodes : Hop(ht, ht.bk[i], Capacity) = Nil
    /\ Len(all) = Capacity /\ ToSet(all) = Nodes
    /\ \A i \in Nodes : LET c == Chain(ht, i) IN
          /\ \A x \in 1..Len(c) : ht.nd[c[x]].k \in Keys /\ Home[ht.nd[c[x]].k] = i
          /\ \A x, y \in 1..Len(c) : x # y => ht.nd[c[x]].k # ht.nd[c[y]].k
    /\ ht.sz = Capacity - Len(ListFrom(ht, ht.free, Capacity))

(***************************************************************************)
(* Every operation has the effect of the sequential map operation: insert *)
(* sets k's value, erase removes k (from the table; a pair still waiting   *)
(* in the batch is applied at the next flush), and insert_batch and        *)
(* flush_batch leave the table plus the waiting batch equal to the         *)
(* sequential application of every recorded pair, in order, so that the   *)
(* seed/walk rounds of a batch with repeated or colliding keys end as the  *)
(* one-by-one inserts would.                                               *)
(***************************************************************************)
MapSemantics ==
    [][~crashed' =>
       CASE call'.kind = "insert" ->
                Contents(ht') = Put(Contents(ht), [k |-> call'.key, v |-> call'.val])
         [] call'.kind = "erase" ->
                Contents(ht') = [Contents(ht) EXCEPT ![call'.key] = NoVal]
         [] call'.kind = "batch" ->
                Visible(ht', work') = Put(Visible(ht, work), [k |-> call'.key, v |-> call'.val])
         [] call'.kind = "flush" ->
                work' = <<>> /\ Contents(ht') = Visible(ht, work)
         [] OTHER -> TRUE]_vars

(***************************************************************************)
(* alloc_node's ensure(free_list) fires only when the table really has to *)
(* hold more than n distinct keys: no node is leaked by erase or by a     *)
(* batch, so the capacity the shuffle sizes for is the capacity it gets.   *)
(***************************************************************************)
AbortOnlyWhenFull ==
    [][~crashed /\ crashed' =>
       LET m == CASE call'.kind = "insert" ->
                       Put(Contents(ht), [k |-> call'.key, v |-> call'.val])
                  [] call'.kind = "batch" ->
                       Put(Visible(ht, work), [k |-> call'.key, v |-> call'.val])
                  [] OTHER -> Visible(ht, work)
       IN Cardinality(Held(m)) > Capacity]_vars
=============================================================================

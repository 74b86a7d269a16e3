------------------------------- MODULE BTree -------------------------------
(***************************************************************************)
(* The B-tree of src/src/buffer_mgr/btree.hpp and btree.cpp over the pages *)
(* of BTreeNode.                                                           *)
(*                                                                         *)
(* pages maps each allocated PID to its node, root is roots[slotId] of the *)
(* metadata page (PID 0, Meta) and allocCount is the buffer manager's PID  *)
(* counter.  A fix never suspends: it returns Restart, and the operation   *)
(* unfixes everything and starts again from the root after handleRestart. *)
(* An attempt between two restarts is therefore one atomic step.  The      *)
(* driver's fibers interleave only at those restarts.  In the YCSB driver  *)
(* only the loader changes the tree, and lookups and updates never         *)
(* restart after a change.  Any fix may miss and restart, so a fiber may   *)
(* yield between any two attempts and the fibers' attempts interleave.     *)
(*                                                                         *)
(* A restart of a fix changes nothing and is a stutter.  A failed          *)
(* AllocGuard (an empty free list) is a choice of the step: its restart    *)
(* keeps what trySplit already did.  insert loops until its key is in a    *)
(* leaf: op[f] is fiber f's insert in progress, ens[f] the                 *)
(* ensureSpace(toSplit, key, payloadLen) it is in, if any.                 *)
(***************************************************************************)
EXTENDS BTreeNode, TLC

CONSTANTS
    Keys,            \* the keys the workload uses (non-empty byte sequences)
    Values,          \* payload contents
    NoVal,           \* a lookup that finds nothing
    MaxPid,          \* bound on allocCount
    InsertExisting,  \* whether insert is called with keys already present
    EraseKeys,       \* the keys the workload removes
    Fibers           \* the fibers that call the tree

Meta == 0
None == [kind |-> "none"]
Idle == [kind |-> "idle"]

VARIABLES pages, root, allocCount, op, ens, call

vars == <<pages, root, allocCount, op, ens, call>>

\* BTree(): the metadata page is PID 0 and the root leaf is allocated next.
Init ==
    /\ pages = 1 :> NewNode(TRUE)
    /\ root = 1
    /\ allocCount = 2
    /\ op = [f \in Fibers |-> Idle]
    /\ ens = [f \in Fibers |-> None]
    /\ call = None

(***************************************************************************)
(* The descent from the root: lookupInner while the node is inner and not  *)
(* stop (ensureSpace's toSplit).  fuel bounds it by the number of pages.   *)
(* The child is bound to a value before the recursion, so that TLC         *)
(* computes it once also where the descent is taken in the next state.     *)
(***************************************************************************)
RECURSIVE Descend(_, _, _, _, _)
Descend(pg, p, key, stop, fuel) ==
    IF fuel = 0 \/ pg[p].leaf \/ p = stop THEN <<p>>
    ELSE <<p>> \o CHOOSE s \in {Descend(pg, c, key, stop, fuel - 1) :
                                 c \in {LookupInner(pg[p], key)}} : TRUE

Path(key, stop) == Descend(pages, root, key, stop, MaxPid)
\* The last two PIDs of a path: the parent is Meta at the root.
ParentOf(path) == IF Len(path) = 1 THEN Meta ELSE path[Len(path) - 1]

\* findLeafSUpper: the same descent with lookupInnerUpper.
RECURSIVE UpperFrom(_, _, _)
UpperFrom(p, key, fuel) ==
    IF fuel = 0 \/ pages[p].leaf THEN p
    ELSE CHOOSE l \in {UpperFrom(c, key, fuel - 1) :
                       c \in {LookupInnerUpper(pages[p], key)}} : TRUE

UpperLeaf(key) == UpperFrom(root, key, MaxPid)

\* findLeafS(key)
LeafOf(key) == Last(Path(key, Meta))

\* lookup(key): the payload of the slot lowerBound finds in leaf n, or
\* NoVal.  (The leaf and the search result are bound as one-element sets
\* so that TLC evaluates each once when the refinement mapping is taken
\* in the next state.)
LeafLookup(n, key) ==
    CHOOSE v \in {IF r.found THEN GetChild(n, r.pos) ELSE NoVal : r \in {LowerBound(n, key)}} : TRUE

LookupVal(key) == CHOOSE v \in {LeafLookup(n, key) : n \in {pages[LeafOf(key)]}} : TRUE

(***************************************************************************)
(* trySplit(node, parent, key, payloadLen) on the page map pg, with the    *)
(* outcome of the AllocGuard of a new root (a1) and of the right node      *)
(* (a2).  The result says whether it restarted, split, or needs           *)
(* ensureSpace(parent, sep, sizeof(PID)) first, with the pages, root and   *)
(* PID counter it leaves.                                                  *)
(***************************************************************************)
\* Mutant: the PID counter is not advanced past the right node.
TrySplitNoBump(pg, rt, ac, node, parent, a1, a2) ==
    LET grow == parent = Meta
        pg1  == IF grow THEN (ac :> [NewNode(FALSE) EXCEPT !.upper = node]) @@ pg ELSE pg
        rt1  == IF grow THEN ac ELSE rt
        ac1  == IF grow THEN ac + 1 ELSE ac
        par  == IF grow THEN ac ELSE parent
        info == FindSeparator(pg[node])
        sp   == SplitNode(pg[node], node, pg1[par], info.slot, GetSep(pg[node], info), ac1)
    IN IF grow /\ ~a1 THEN [st |-> "restart", pg |-> pg, rt |-> rt, ac |-> ac]
       ELSE IF ~HasSpaceFor(pg1[par], info.len, PidLen)
       THEN [st |-> "ensure", pg |-> pg1, rt |-> rt1, ac |-> ac1,
             target |-> par, key |-> GetSep(pg[node], info)]
       ELSE IF ~a2 THEN [st |-> "restart", pg |-> pg1, rt |-> rt1, ac |-> ac1]
       ELSE [st |-> "split", rt |-> rt1, ac |-> ac1,
             pg |-> (ac1 :> sp.right) @@ [pg1 EXCEPT ![node] = sp.node,
                                                     ![par] = sp.parent]]

TrySplit(pg, rt, ac, node, parent, a1, a2) ==
    LET grow == parent = Meta
        pg1  == IF grow THEN (ac :> [NewNode(FALSE) EXCEPT !.upper = node]) @@ pg ELSE pg
        rt1  == IF grow THEN ac ELSE rt
        ac1  == IF grow THEN ac + 1 ELSE ac
        par  == IF grow THEN ac ELSE parent
        info == FindSeparator(pg[node])
        sep  == GetSep(pg[node], info)
        sp   == SplitNode(pg[node], node, pg1[par], info.slot, sep, ac1)
    IN IF grow /\ ~a1 THEN [st |-> "restart", pg |-> pg, rt |-> rt, ac |-> ac]
       ELSE IF ~HasSpaceFor(pg1[par], info.len, PidLen)
       THEN [st |-> "ensure", pg |-> pg1, rt |-> rt1, ac |-> ac1,
             target |-> par, key |-> sep]
       ELSE IF ~a2 THEN [st |-> "restart", pg |-> pg1, rt |-> rt1, ac |-> ac1]
       ELSE [st |-> "split", rt |-> rt1, ac |-> ac1 + 1,
             pg |-> (ac1 :> sp.right) @@ [pg1 EXCEPT ![node] = sp.node,
                                                     ![par] = sp.parent]]

\* The step's effect of a trySplit: a restart stays where it is, a split
\* returns to insert's loop, a full parent enters ensureSpace.
ApplySplit(f, r) ==
    /\ pages' = r.pg
    /\ root' = r.rt
    /\ allocCount' = r.ac
    /\ allocCount' <= MaxPid
    /\ ens' = [ens EXCEPT ![f] =
                CASE r.st = "ensure"  -> [kind |-> "ensure", target |-> r.target,
                                          key |-> r.key, plen |-> PidLen]
                  [] r.st = "split"   -> None
                  [] r.st = "restart" -> @]
    /\ UNCHANGED <<op, call>>

(***************************************************************************)
(* A fiber calls insert(key, payload): with a key not yet in the tree and  *)
(* not being inserted by another fiber, as the loaders do.                 *)
(***************************************************************************)
CallInsert(f, k, v) ==
    /\ op[f] = Idle
    /\ InsertExisting \/ LookupVal(k) = NoVal
    /\ \A g \in Fibers : op[g] # Idle => op[g].key # k
    /\ op' = [op EXCEPT ![f] = [kind |-> "insert", key |-> k, val |-> v]]
    /\ UNCHANGED <<pages, root, allocCount, ens, call>>

\* insert, the leaf has room: insertInPage and return.
InsertInLeaf(f) ==
    LET leaf == LeafOf(op[f].key)
    IN /\ op[f].kind = "insert"
       /\ ens[f] = None
       /\ HasSpaceFor(pages[leaf], Len(op[f].key), PayloadLen)
       /\ pages' = [pages EXCEPT ![leaf] = InsertInPage(@, op[f].key, op[f].val)]
       /\ op' = [op EXCEPT ![f] = Idle]
       /\ call' = [kind |-> "insert", key |-> op[f].key, val |-> op[f].val]
       /\ UNCHANGED <<root, allocCount, ens>>

\* insert, the leaf is full: trySplit(leaf, parent), then the loop again.
InsertSplit(f, a1, a2) ==
    LET path == Path(op[f].key, Meta)
    IN /\ op[f].kind = "insert"
       /\ ens[f] = None
       /\ ~HasSpaceFor(pages[Last(path)], Len(op[f].key), PayloadLen)
       /\ ApplySplit(f, TrySplit(pages, root, allocCount, Last(path),
                              ParentOf(path), a1, a2))

\* ensureSpace: the descent stops at toSplit, or at a leaf when toSplit is
\* no longer on the key's path.  Nothing to do unless toSplit is reached
\* and still lacks room; then trySplit.  Another fiber may have split
\* toSplit, or moved its key range, while this one was restarting.
EnsureReturn(f) ==
    LET e    == ens[f]
        node == Last(Path(e.key, e.target))
    IN /\ e # None
       /\ node # e.target \/ HasSpaceFor(pages[node], Len(e.key), e.plen)
       /\ ens' = [ens EXCEPT ![f] = None]
       /\ UNCHANGED <<pages, root, allocCount, op, call>>

EnsureSplit(f, a1, a2) ==
    LET e    == ens[f]
        path == Path(e.key, e.target)
    IN /\ e # None
       /\ Last(path) = e.target
       /\ ~HasSpaceFor(pages[Last(path)], Len(e.key), e.plen)
       /\ ApplySplit(f, TrySplit(pages, root, allocCount, Last(path),
                              ParentOf(path), a1, a2))

(***************************************************************************)
(* remove(key): pos is the lowerBound of the last inner node on the path.  *)
(* A leaf that would be underfull after the removal, with a right sibling  *)
(* under the same parent, removes the slot and then merges the sibling in  *)
(* when that sibling is at most 1 - underFullSize full.                    *)
(***************************************************************************)
\* Mutant: the underfull branch merges before it removes the slot.
EraseMergeBeforeRemove(f, k) ==
    LET path   == Path(k, Meta)
        leaf   == Last(path)
        parent == ParentOf(path)
        n      == pages[leaf]
        r      == LowerBound(n, k)
        pos    == LowerBound(pages[parent], k).pos
        under  == /\ FreeSpaceAfterCompaction(n) + KeyLen(n, r.pos) + PayLen(n) >= underFullSize
                  /\ parent # Meta
                  /\ Count(pages[parent]) >= 2
                  /\ pos + 1 < Count(pages[parent])
        right  == GetChild(pages[parent], pos + 1)
        m      == MergeNodes(n, leaf, pos, pages[parent], pages[right])
    IN /\ op[f] = Idle
       /\ pages' = IF ~r.found THEN pages
                   ELSE IF under /\ FreeSpaceAfterCompaction(pages[right])
                                      >= PageSize - underFullSize
                   THEN [pages EXCEPT ![leaf] = m.node, ![parent] = m.parent]
                   ELSE [pages EXCEPT ![leaf] = RemoveSlot(n, r.pos)]
       /\ call' = [kind |-> "erase", key |-> k]
       /\ UNCHANGED <<root, allocCount, op, ens>>

Erase(f, k) ==
    LET path   == Path(k, Meta)
        leaf   == Last(path)
        parent == ParentOf(path)
        n      == pages[leaf]
        r      == LowerBound(n, k)
        pos    == LowerBound(pages[parent], k).pos
        size   == KeyLen(n, r.pos) + PayLen(n)
        under  == /\ FreeSpaceAfterCompaction(n) + size >= underFullSize
                  /\ parent # Meta
                  /\ Count(pages[parent]) >= 2
                  /\ pos + 1 < Count(pages[parent])
        n1     == RemoveSlot(n, r.pos)
        right  == GetChild(pages[parent], pos + 1)
        m      == MergeNodes(n1, leaf, pos, pages[parent], pages[right])
    IN /\ op[f] = Idle
       /\ pages' = IF ~r.found THEN pages
                   ELSE IF under /\ FreeSpaceAfterCompaction(pages[right])
                                      >= PageSize - underFullSize
                   THEN [pages EXCEPT ![leaf] = m.node, ![parent] = m.parent]
                   ELSE [pages EXCEPT ![leaf] = n1]
       /\ call' = [kind |-> "erase", key |-> k]
       /\ UNCHANGED <<root, allocCount, op, ens>>

\* updateInPlace(key, fn): the YCSB update overwrites the payload it finds.
Update(f, k, v) ==
    LET leaf == LeafOf(k)
        r    == LowerBound(pages[leaf], k)
    IN /\ op[f] = Idle
       /\ r.found
       /\ pages' = [pages EXCEPT ![leaf].slot[r.pos + 1].pay = v]
       /\ call' = [kind |-> "insert", key |-> k, val |-> v]
       /\ UNCHANGED <<root, allocCount, op, ens>>

Next ==
    \E f \in Fibers :
        \/ \E k \in Keys, v \in Values : CallInsert(f, k, v) \/ Update(f, k, v)
        \/ InsertInLeaf(f)
        \/ \E a1, a2 \in BOOLEAN : InsertSplit(f, a1, a2) \/ EnsureSplit(f, a1, a2)
        \/ EnsureReturn(f)
        \/ \E k \in EraseKeys : Erase(f, k)

Spec == Init /\ [][Next]_vars

(***************************************************************************)
(* scanAsc(key, fn) and the adapter's scanDesc(key, fn) with a callback    *)
(* that accepts every record, as the keys they visit.  scanAsc goes on at  *)
(* findLeafSUpper(upper fence) while the leaf has a right neighbour;       *)
(* scanDesc at findLeafS(lower fence) while it has a lower fence, and the  *)
(* adapter drops the first slot unless lowerBound matched exactly or ran   *)
(* off the end of the leaf.                                                *)
(***************************************************************************)
RECURSIVE AscF(_, _, _)
AscF(leaf, pos, fuel) ==
    LET n == pages[leaf]
    IN [i \in 1..(Count(n) - pos) |-> FullKey(n, pos + i - 1)]
       \o (IF n.upper = NoNeighbour \/ fuel = 0 THEN <<>>
           ELSE AscF(UpperLeaf(n.uf), 0, fuel - 1))

ScanAsc(k) == LET l == LeafOf(k) IN AscF(l, LowerBound(pages[l], k).pos, MaxPid)

RECURSIVE DescF(_, _, _)
DescF(leaf, pos, fuel) ==
    LET n == pages[leaf]
    IN [i \in 1..(pos + 1) |-> FullKey(n, pos + 1 - i)]
       \o (IF n.lf = <<>> \/ fuel = 0 THEN <<>>
           ELSE DescF(LeafOf(n.lf), Count(pages[LeafOf(n.lf)]) - 1, fuel - 1))

ScanDesc(k) ==
    LET l     == LeafOf(k)
        r     == LowerBound(pages[l], k)
        atEnd == r.pos = Count(pages[l])
        s     == DescF(l, IF atEnd THEN r.pos - 1 ELSE r.pos, MaxPid)
    IN IF r.found \/ atEnd \/ s = <<>> THEN s ELSE Tail(s)

-----------------------------------------------------------------------------
(* Reference definitions for the properties.                               *)

\* Byte-wise lexicographic order, shorter first on a common prefix.
KeyLess(a, b) ==
    \/ \E i \in 1..MinLen(a, b) : a[i] < b[i] /\ SubSeq(a, 1, i - 1) = SubSeq(b, 1, i - 1)
    \/ Len(a) < Len(b) /\ a = SubSeq(b, 1, Len(a))

Bytes == UNION {Range(k) : k \in Keys}

\* The nodes reachable from the root with the key range (lo, hi] the
\* separators above give them (<<>>: unbounded) and their depth.
RECURSIVE Reach(_, _, _, _, _)
Reach(p, lo, hi, d, fuel) ==
    LET n    == pages[p]
        c    == Count(n)
        from(i) == IF i = 0 THEN lo ELSE FullKey(n, i - 1)
        to(i)   == IF i = c THEN hi ELSE FullKey(n, i)
    IN {[pid |-> p, lo |-> lo, hi |-> hi, d |-> d]}
       \cup (IF n.leaf \/ fuel = 0 THEN {}
             ELSE UNION {Reach(ChildAt(n, i), from(i), to(i), d + 1, fuel - 1) : i \in 0..c})

Reachable == Reach(root, <<>>, <<>>, 0, MaxPid)

Present == {k \in Keys : LookupVal(k) # NoVal}

IsAscending(s) == \A i \in 1..Len(s) - 1 : KeyLess(s[i], s[i + 1])

Live(n) == Len(n.lf) + Len(n.uf)
           + FoldLeft(LAMBDA acc, e : acc + Len(e.key) + PayLen(n), 0, n.slot)

-----------------------------------------------------------------------------
TypeOK ==
    /\ DOMAIN pages = 1..allocCount - 1
    /\ allocCount \in 2..MaxPid
    /\ root \in DOMAIN pages
    /\ \A p \in DOMAIN pages :
         /\ pages[p].leaf \in BOOLEAN
         /\ pages[p].slot \in Seq([key : Seq(Bytes), pay : Values \cup DOMAIN pages])
         /\ pages[p].upper \in DOMAIN pages \cup {NoNeighbour}
         /\ pages[p].hint \in [0..HintCount-1 -> Nat]
    /\ op \in [Fibers -> {Idle} \cup [kind : {"insert"}, key : Keys, val : Values]]
    /\ ens \in [Fibers -> {None} \cup [kind : {"ensure"}, target : DOMAIN pages,
                                     key : Seq(Bytes), plen : {PidLen}]]

\* After any sequence of inserts (with their splits, new roots, restarts
\* after a failed AllocGuard and ensureSpace detours) and removes (with leaf
\* merges), the pages reachable from the root form a tree with all leaves
\* at one depth, in which every node's fences are the separators above it
\* and its keys are strictly ascending and lie within its fences.
TreeShape ==
    /\ Cardinality({r.pid : r \in Reachable}) = Cardinality(Reachable)
    /\ \A r1, r2 \in Reachable :
         pages[r1.pid].leaf /\ pages[r2.pid].leaf => r1.d = r2.d
    /\ \A r \in Reachable :
         LET n == pages[r.pid]
         IN /\ n.lf = r.lo /\ n.uf = r.hi
            /\ IsAscending([i \in 1..Count(n) |-> FullKey(n, i - 1)])
            /\ \A i \in 0..Count(n) - 1 :
                 /\ r.lo = <<>> \/ KeyLess(r.lo, FullKey(n, i))
                 /\ r.hi = <<>> \/ ~KeyLess(r.hi, FullKey(n, i))

\* The slot array and the heap of every reachable page never overlap (the
\* asserts of insertInPage, storeKeyValue, copyKeyValueRange and
\* insertFence), and spaceUsed counts exactly the live fence, key and
\* payload bytes, which compactify and the merge decision rely on.
SpaceLayout ==
    \A r \in Reachable :
        LET n == pages[r.pid]
        IN /\ HeaderSize + SlotSize * Count(n) <= n.dataOffset
           /\ n.spaceUsed = Live(n)
           /\ n.dataOffset + n.spaceUsed <= PageSize

\* scanAsc from any key visits exactly the keys lookup finds at or above
\* it, in ascending order, each once, crossing leaves through the
\* nextLeafNode test and findLeafSUpper of the upper fence; scanDesc with
\* the adapter's first-slot rule visits those at or below it, descending.
ScanOrder ==
    \A present \in {Present}, k \in Keys :
        \A a \in {ScanAsc(k)}, d \in {ScanDesc(k)} :
           /\ IsAscending(a)
           /\ Range(a) = {x \in present : ~KeyLess(x, k)}
           /\ IsAscending(Reverse(d))
           /\ Range(d) = {x \in present : ~KeyLess(k, x)}

\* Where searchHint reads the hints (count > 2 * hintCount), every hint
\* is the head of the slot makeHint would take, after the partial rewrite
\* of updateHint and the full one of removeSlot, compactify and splits.
HintsCurrent ==
    \A r \in Reachable :
        LET n == pages[r.pid]
        IN Count(n) > HintCount * 2 => \A i \in 0..HintCount-1 : n.hint[i] = HintAt(n, i)

\* The node fiber f's next attempt hands to trySplit, or Meta: the full
\* leaf of its insert, or the toSplit its ensureSpace reaches still full.
SplitTarget(f) ==
    IF ens[f] # None
    THEN LET node == Last(Path(ens[f].key, ens[f].target))
         IN IF node = ens[f].target
               /\ ~HasSpaceFor(pages[node], Len(ens[f].key), ens[f].plen)
            THEN node ELSE Meta
    ELSE IF op[f] # Idle
            /\ ~HasSpaceFor(pages[LeafOf(op[f].key)], Len(op[f].key), PayloadLen)
         THEN LeafOf(op[f].key) ELSE Meta

\* splitNode asserts sepSlot > 0 (and findSeparator count > 1): whenever
\* an insert must split a node, findSeparator picks a slot other than 0.
\* Only key + payload <= maxKVSize is asked of insert's arguments.
SepSlotPositive ==
    \A f \in Fibers :
        SplitTarget(f) # Meta => FindSeparator(pages[SplitTarget(f)]).slot > 0

\* lowerBound (prefix check, hint window, binary search) in every reachable
\* node returns the first slot whose key is not below the searched key and
\* reports an exact match exactly when that slot holds the key.
LowerBoundCorrect ==
    \A r \in Reachable, k \in Keys :
        LET n   == pages[r.pid]
            b   == LowerBound(n, k)
            ref == {i \in 0..Count(n) - 1 : ~KeyLess(FullKey(n, i), k)}
        IN /\ b.pos = IF ref = {} THEN Count(n) ELSE Min(ref)
           /\ b.found = (b.pos < Count(n) /\ FullKey(n, b.pos) = k)

\* The tree implements the key-value map: the map is what lookup finds,
\* every completed insert, update or remove is the abstract step of the
\* same call, and splits, restarts and merges change no lookup.
Map == INSTANCE KeyValueMap WITH
           map <- [k \in Keys |-> LookupVal(k)],
           halted <- FALSE,
           call <- call
MapRefinement == Map!Spec
====

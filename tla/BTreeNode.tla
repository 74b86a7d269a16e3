----------------------------- MODULE BTreeNode -----------------------------
(***************************************************************************)
(* The slotted B-tree page of src/src/buffer_mgr/btree_node.hpp            *)
(* (BTreeNode) as a record and its algorithms as operators on it.          *)
(*                                                                         *)
(* A node is                                                               *)
(*   [leaf, upper, lf, uf, prefixLen, slot, hint, spaceUsed, dataOffset]   *)
(* where upper is the union upperInnerNode / nextLeafNode, lf and uf the   *)
(* lower and upper fence keys (<<>> is a fence of length 0: none),         *)
(* prefixLen the length of the prefix shared by the fences, and slot the   *)
(* sequence of the first `count` slots: each a key suffix (the key with    *)
(* the first prefixLen bytes cut) and a payload.  A slot's head is         *)
(* computed from its suffix, as storeKeyValue and copyKeyValueRange always *)
(* set it.  A leaf's payload is a value of PayloadLen bytes, an inner      *)
(* node's a child PID of PidLen bytes.  The heap is kept at the level of   *)
(* dataOffset and spaceUsed: where the bytes are and how many are live.    *)
(* Keys are sequences of byte values.                                      *)
(***************************************************************************)
EXTENDS Integers, Sequences, SequencesExt, FiniteSets, FiniteSetsExt

CONSTANTS
    PageSize,     \* pageSize
    HeaderSize,   \* sizeof(BTreeNodeHeader), where slot[0] begins
    SlotSize,     \* sizeof(Slot)
    PidLen,       \* sizeof(PID), the payload of an inner slot
    PayloadLen,   \* sizeof(Record), the payload of a leaf slot
    HintCount,    \* hintCount
    SepWindow,    \* the 16 of findSeparator's window
    NoNeighbour   \* noNeighbour (~0ull)

ASSUME /\ \A c \in {PageSize, HeaderSize, SlotSize, PidLen, PayloadLen} : c \in Nat
       /\ HintCount \in Nat \ {0}
       /\ SepWindow \in Nat \ {0}

underFullSize == (PageSize \div 2) + (PageSize \div 4)
maxKVSize     == (PageSize - HeaderSize - (2 * SlotSize)) \div 4

\* head(key, keyLen): the first four bytes read big-endian, zero padded.
KeyHead(k) == LET b(i) == IF i <= Len(k) THEN k[i] ELSE 0
           IN ((b(1) * 256 + b(2)) * 256 + b(3)) * 256 + b(4)

\* memcmp(a, b, n) as a sign.
MemCmp(a, b, n) ==
    IF \A i \in 1..n : a[i] = b[i] THEN 0
    ELSE CHOOSE c \in {IF a[j] < b[j] THEN -1 ELSE 1 :
                       j \in {Min({i \in 1..n : a[i] # b[i]})}} : TRUE

MinLen(a, b) == IF Len(a) < Len(b) THEN Len(a) ELSE Len(b)
Drop(k, n) == SubSeq(k, n + 1, Len(k))

\* The constructor BTreeNode(isLeaf).  hint is left uninitialised by the
\* code; it is only read once makeHint or updateHint has written it.
NewNode(isLeaf) ==
    [leaf |-> isLeaf, upper |-> NoNeighbour, lf |-> <<>>, uf |-> <<>>,
     prefixLen |-> 0, slot |-> <<>>, hint |-> [i \in 0..HintCount-1 |-> 0],
     spaceUsed |-> 0, dataOffset |-> PageSize]

Count(n)  == Len(n.slot)
PayLen(n) == IF n.leaf THEN PayloadLen ELSE PidLen
Prefix(n) == SubSeq(n.lf, 1, n.prefixLen)
\* The full key of slot i (0-based): getPrefix() then getKey(i).
FullKey(n, i) == Prefix(n) \o n.slot[i + 1].key
SlotHead(n, i) == KeyHead(n.slot[i + 1].key)
GetChild(n, i) == n.slot[i + 1].pay

FreeSpace(n) == n.dataOffset - (HeaderSize + SlotSize * Count(n))
FreeSpaceAfterCompaction(n) ==
    PageSize - (HeaderSize + SlotSize * Count(n)) - n.spaceUsed
SpaceNeeded(n, keyLen, payloadLen) ==
    SlotSize + (keyLen - n.prefixLen) + payloadLen
HasSpaceFor(n, keyLen, payloadLen) ==
    SpaceNeeded(n, keyLen, payloadLen) <= FreeSpaceAfterCompaction(n)

\* makeHint: hint[i] = slot[dist * (i + 1)].head.  With count = 0 that
\* reads slot[0] past the end; no lookup reads a hint then (searchHint
\* needs count > 2 * hintCount), and the model stores 0.
HintAt(n, i) ==
    LET j == (Count(n) \div (HintCount + 1)) * (i + 1)
    IN IF j < Count(n) THEN SlotHead(n, j) ELSE 0
MakeHint(n) == [n EXCEPT !.hint = [i \in 0..HintCount-1 |-> HintAt(n, i)]]

\* updateHint(slotId): rewrite the hints from `begin` on.
UpdateHint(n, slotId) ==
    LET dist  == Count(n) \div (HintCount + 1)
        begin == IF /\ Count(n) > HintCount * 2 + 1
                    /\ (Count(n) - 1) \div (HintCount + 1) = dist
                    /\ slotId \div dist > 1
                 THEN slotId \div dist - 1 ELSE 0
    IN [n EXCEPT !.hint = [i \in 0..HintCount-1 |->
                             IF i >= begin THEN HintAt(n, i) ELSE @[i]]]

\* Mutant: the upper end of the window is the hint that differs, not the
\* slot after it.
SearchHintUpperEarly(n, kh) ==
    IF Count(n) > HintCount * 2
    THEN LET dist == Count(n) \div (HintCount + 1)
             ge   == {p \in 0..HintCount-1 : n.hint[p] >= kh}
             pos  == IF ge = {} THEN HintCount ELSE Min(ge)
             ne   == {p \in pos..HintCount-1 : n.hint[p] # kh}
             pos2 == IF ne = {} THEN HintCount ELSE Min(ne)
         IN <<pos * dist, IF pos2 < HintCount THEN pos2 * dist ELSE Count(n)>>
    ELSE <<0, Count(n)>>

\* searchHint(keyHead, lower, upper) with lower = 0 and upper = count.
SearchHint(n, kh) ==
    IF Count(n) > HintCount * 2
    THEN LET dist == Count(n) \div (HintCount + 1)
             ge   == {p \in 0..HintCount-1 : n.hint[p] >= kh}
             pos  == IF ge = {} THEN HintCount ELSE Min(ge)
             ne   == {p \in pos..HintCount-1 : n.hint[p] # kh}
             pos2 == IF ne = {} THEN HintCount ELSE Min(ne)
         IN <<pos * dist, IF pos2 < HintCount THEN (pos2 + 1) * dist ELSE Count(n)>>
    ELSE <<0, Count(n)>>

\* One probe of the binary search: the sign of key - slot[mid], by head,
\* then memcmp over the shorter length, then length.
Probe(n, key, mid) ==
    LET s == n.slot[mid + 1].key
    IN IF KeyHead(key) < KeyHead(s) THEN -1
       ELSE IF KeyHead(key) > KeyHead(s) THEN 1
       ELSE LET c == MemCmp(key, s, MinLen(key, s))
            IN IF c # 0 THEN c
               ELSE IF Len(key) < Len(s) THEN -1
               ELSE IF Len(key) > Len(s) THEN 1 ELSE 0

\* The while loop of the binary search on the key's suffix over slots
\* [lower, upper): it stops at an equal slot in lowerBound and moves right
\* of it in upperBound.  The probe's sign is bound to a value before the
\* recursion, so that TLC computes it once in every context.
RECURSIVE BinSearch(_, _, _, _, _)
BinSearch(n, key, exact, lower, upper) ==
    IF lower >= upper THEN [pos |-> lower, found |-> FALSE]
    ELSE LET mid == ((upper - lower) \div 2) + lower
         IN CHOOSE r \in {IF c < 0 THEN BinSearch(n, key, exact, lower, mid)
                          ELSE IF c > 0 \/ ~exact
                               THEN BinSearch(n, key, exact, mid + 1, upper)
                          ELSE [pos |-> mid, found |-> TRUE] :
                          c \in {Probe(n, key, mid)}} : TRUE

\* lowerBound(skey, foundExactOut) (exact) and upperBound(skey): the prefix
\* check, then the hint, then the binary search.  Returns [pos, found].
Bound(n, skey, exact) ==
    LET cmp == MemCmp(skey, Prefix(n), IF Len(skey) < n.prefixLen
                                       THEN Len(skey) ELSE n.prefixLen)
        key == Drop(skey, n.prefixLen)
    IN IF cmp < 0 THEN [pos |-> 0, found |-> FALSE]
       ELSE IF cmp > 0 THEN [pos |-> Count(n), found |-> FALSE]
       ELSE IF Len(skey) < n.prefixLen THEN [pos |-> 0, found |-> FALSE]
       ELSE CHOOSE r \in {BinSearch(n, k, exact, rng[1], rng[2]) :
                          k \in {key}, rng \in {SearchHint(n, KeyHead(key))}} : TRUE

LowerBound(n, skey) == Bound(n, skey, TRUE)
UpperBound(n, skey) == Bound(n, skey, FALSE).pos

\* lookupInner / lookupInnerUpper: the child to descend into.
ChildAt(n, pos) == IF pos = Count(n) THEN n.upper ELSE GetChild(n, pos)
LookupInner(n, key)      == ChildAt(n, LowerBound(n, key).pos)
LookupInnerUpper(n, key) == ChildAt(n, UpperBound(n, key))

\* storeKeyValue(slotId, key, payload), together with the memmove of
\* insertInPage that opens slot slotId: the suffix after prefixLen bytes
\* is written below dataOffset.
StoreKeyValue(n, slotId, skey, pay) ==
    LET suf   == Drop(skey, n.prefixLen)
        space == Len(suf) + PayLen(n)
    IN [n EXCEPT !.slot       = InsertAt(@, slotId + 1, [key |-> suf, pay |-> pay]),
                 !.dataOffset = @ - space,
                 !.spaceUsed  = @ + space]

\* setFences(lower, upper) on a fresh node: insertFence twice, then the
\* length of the fences' common prefix.
CommonLen(a, b) ==
    LET d == {i \in 1..MinLen(a, b) : a[i] # b[i]}
    IN IF d = {} THEN MinLen(a, b) ELSE Min(d) - 1
\* Mutant: the fences' bytes are not counted in spaceUsed.
SetFencesNoSpace(n, lower, upper) ==
    [n EXCEPT !.lf = lower, !.uf = upper,
              !.dataOffset = @ - Len(lower) - Len(upper),
              !.prefixLen  = CommonLen(lower, upper)]

SetFences(n, lower, upper) ==
    [n EXCEPT !.lf = lower, !.uf = upper,
              !.dataOffset = @ - Len(lower) - Len(upper),
              !.spaceUsed  = @ + Len(lower) + Len(upper),
              !.prefixLen  = CommonLen(lower, upper)]

\* copyKeyValueRange(dst, dstSlot, srcSlot, srcCount) appends srcCount
\* slots of src from srcSlot to dst (dstSlot is always dst's count).  Both
\* branches store the full key less dst's prefixLen bytes: the first cuts
\* diff more bytes off the stored suffix, the second (copyKeyValue)
\* rebuilds the full key and calls dst.storeKeyValue.
CopyKeyValueRange(src, dst, srcSlot, srcCount) ==
    LET new   == [j \in 1..srcCount |->
                    [key |-> Drop(FullKey(src, srcSlot + j - 1), dst.prefixLen),
                     pay |-> src.slot[srcSlot + j].pay]]
        space == FoldLeft(LAMBDA acc, e : acc + Len(e.key) + PayLen(src), 0, new)
    IN [dst EXCEPT !.slot = @ \o new, !.dataOffset = @ - space,
                   !.spaceUsed = @ + space]

\* compactify(): rebuild the node in a fresh page with the same fences
\* and upperInnerNode, copy it back (copyNode), then makeHint.
Compactify(n) ==
    LET tmp == CopyKeyValueRange(n, SetFences(NewNode(n.leaf), n.lf, n.uf),
                                 0, Count(n))
    IN MakeHint([tmp EXCEPT !.upper = n.upper])

\* Mutant: insertInPage never compactifies.
InsertInPageNoCompact(n, key, pay) ==
    LET slotId == LowerBound(n, key).pos
    IN UpdateHint(StoreKeyValue(n, slotId, key, pay), slotId)

\* Mutant: the hints are updated before the new slot is stored.
InsertInPageHintFirst(n, key, pay) ==
    LET m == IF SpaceNeeded(n, Len(key), PayLen(n)) > FreeSpace(n)
             THEN Compactify(n) ELSE n
        slotId == LowerBound(m, key).pos
    IN StoreKeyValue(UpdateHint(m, slotId), slotId, key, pay)

\* insertInPage(key, payload)
InsertInPage(n, key, pay) ==
    LET m == IF SpaceNeeded(n, Len(key), PayLen(n)) > FreeSpace(n)
             THEN Compactify(n) ELSE n
        slotId == LowerBound(m, key).pos
    IN UpdateHint(StoreKeyValue(m, slotId, key, pay), slotId)

\* removeSlot(slotId)
RemoveSlot(n, slotId) ==
    MakeHint([n EXCEPT !.spaceUsed = @ - Len(n.slot[slotId + 1].key) - PayLen(n),
                       !.slot = RemoveAt(@, slotId + 1)])

\* commonPrefix(slotA, slotB) of the stored suffixes.
CommonPrefix(n, a, b) == CommonLen(n.slot[a + 1].key, n.slot[b + 1].key)
KeyLen(n, i) == Len(n.slot[i + 1].key)

\* Mutant: the separator is truncated without checking that the next key
\* is longer than the truncated length.
FindSeparatorNoNextCheck(n) ==
    IF ~n.leaf
    THEN [len |-> n.prefixLen + KeyLen(n, Count(n) \div 2),
          slot |-> Count(n) \div 2, trunc |-> FALSE]
    ELSE LET cnt   == Count(n)
             lower == (cnt \div 2) - (cnt \div SepWindow)
             upper == cnt \div 2
             bp    == CommonPrefix(n, lower, 0)
             diff  == {b \in lower+1..upper-1 : CommonPrefix(n, b, 0) # bp}
             best  == IF cnt <= SepWindow THEN (cnt - 1) \div 2
                      ELSE IF bp = CommonPrefix(n, upper - 1, 0) THEN lower
                      ELSE IF diff = {} THEN upper ELSE Min(diff)
             common == CommonPrefix(n, best, best + 1)
         IN IF /\ best + 1 < cnt
               /\ KeyLen(n, best) > common
            THEN [len |-> n.prefixLen + common + 1, slot |-> best, trunc |-> TRUE]
            ELSE [len |-> n.prefixLen + KeyLen(n, best), slot |-> best, trunc |-> FALSE]

\* findSeparator(splitOrdered) for splitOrdered = FALSE, the only value
\* BTree() gives it.  Inner nodes split in the middle; a leaf of more than
\* SepWindow slots takes the first slot of the window whose common prefix
\* with slot 0 differs from that of its lower end, a smaller leaf its
\* middle slot.  The separator is truncated to one byte past the common
\* prefix of the split slot and the next one when both are long enough.
FindSeparator(n) ==
    IF ~n.leaf
    THEN [len |-> n.prefixLen + KeyLen(n, Count(n) \div 2),
          slot |-> Count(n) \div 2, trunc |-> FALSE]
    ELSE LET cnt   == Count(n)
             lower == (cnt \div 2) - (cnt \div SepWindow)
             upper == cnt \div 2
             bp    == CommonPrefix(n, lower, 0)
             diff  == {b \in lower+1..upper-1 : CommonPrefix(n, b, 0) # bp}
             best  == IF cnt <= SepWindow THEN (cnt - 1) \div 2
                      ELSE IF bp = CommonPrefix(n, upper - 1, 0) THEN lower
                      ELSE IF diff = {} THEN upper ELSE Min(diff)
             common == CommonPrefix(n, best, best + 1)
         IN IF /\ best + 1 < cnt
               /\ KeyLen(n, best) > common
               /\ KeyLen(n, best + 1) > common + 1
            THEN [len |-> n.prefixLen + common + 1, slot |-> best, trunc |-> TRUE]
            ELSE [len |-> n.prefixLen + KeyLen(n, best), slot |-> best, trunc |-> FALSE]

\* getSep(sepKeyOut, info): the prefix, then info.len - prefixLen bytes of
\* slot info.slot, or of the next slot when the separator is truncated.
GetSep(n, info) ==
    Prefix(n) \o SubSeq(n.slot[info.slot + (IF info.trunc THEN 1 ELSE 0) + 1].key,
                        1, info.len - n.prefixLen)

\* Mutants of splitNode: the left leaf keeps its old nextLeafNode
\* (KeepNext); the parent's pointer to this node is not moved to the right
\* node (NoRepoint).
SplitNodeKeepNext(n, leftPID, parent, sepSlot, sep, newPid) ==
    LET left0  == SetFences(NewNode(n.leaf), n.lf, sep)
        right0 == SetFences(NewNode(n.leaf), sep, n.uf)
        old    == LowerBound(parent, sep).pos
        moved  == IF old = Count(parent) THEN [parent EXCEPT !.upper = newPid]
                  ELSE [parent EXCEPT !.slot[old + 1].pay = newPid]
        nLeft  == IF n.leaf THEN sepSlot + 1 ELSE sepSlot
        left1  == CopyKeyValueRange(n, left0, 0, nLeft)
        right1 == IF n.leaf
                  THEN CopyKeyValueRange(n, right0, nLeft, Count(n) - nLeft)
                  ELSE CopyKeyValueRange(n, right0, nLeft + 1, Count(n) - nLeft - 1)
        left   == [left1 EXCEPT !.upper = IF n.leaf THEN n.upper ELSE GetChild(n, nLeft)]
        right  == [right1 EXCEPT !.upper = n.upper]
    IN [node   |-> MakeHint(left),
        right  |-> MakeHint(right),
        parent |-> InsertInPage(moved, sep, leftPID)]

SplitNodeNoRepoint(n, leftPID, parent, sepSlot, sep, newPid) ==
    LET left0  == SetFences(NewNode(n.leaf), n.lf, sep)
        right0 == SetFences(NewNode(n.leaf), sep, n.uf)
        nLeft  == IF n.leaf THEN sepSlot + 1 ELSE sepSlot
        left1  == CopyKeyValueRange(n, left0, 0, nLeft)
        right1 == IF n.leaf
                  THEN CopyKeyValueRange(n, right0, nLeft, Count(n) - nLeft)
                  ELSE CopyKeyValueRange(n, right0, nLeft + 1, Count(n) - nLeft - 1)
        left   == [left1 EXCEPT !.upper = IF n.leaf THEN newPid ELSE GetChild(n, nLeft)]
        right  == [right1 EXCEPT !.upper = n.upper]
    IN [node   |-> MakeHint(left),
        right  |-> MakeHint(right),
        parent |-> InsertInPage(parent, sep, leftPID)]

\* splitNode(leftPID, parent, sepSlot, sep) once AllocGuard has given the
\* right node the PID newPid.  The parent's pointer to this node is moved
\* to the right node and sep is inserted pointing at the left one; a leaf
\* keeps slots 0..sepSlot on the left, an inner node moves slot sepSlot up
\* into the parent and keeps its child as the left upperInnerNode.
\* Returns the new contents of this node (the left half), the right node
\* and the parent.
SplitNode(n, leftPID, parent, sepSlot, sep, newPid) ==
    LET left0  == SetFences(NewNode(n.leaf), n.lf, sep)
        right0 == SetFences(NewNode(n.leaf), sep, n.uf)
        old    == LowerBound(parent, sep).pos
        moved  == IF old = Count(parent) THEN [parent EXCEPT !.upper = newPid]
                  ELSE [parent EXCEPT !.slot[old + 1].pay = newPid]
        nLeft  == IF n.leaf THEN sepSlot + 1 ELSE sepSlot
        left1  == CopyKeyValueRange(n, left0, 0, nLeft)
        right1 == IF n.leaf
                  THEN CopyKeyValueRange(n, right0, nLeft, Count(n) - nLeft)
                  ELSE CopyKeyValueRange(n, right0, nLeft + 1, Count(n) - nLeft - 1)
        left   == [left1 EXCEPT !.upper = IF n.leaf THEN newPid ELSE GetChild(n, nLeft)]
        right  == [right1 EXCEPT !.upper = n.upper]
    IN [node   |-> MakeHint(left),
        right  |-> MakeHint(right),
        parent |-> InsertInPage(moved, sep, leftPID)]

\* Mutants of mergeNodes: the parent's slot slotId is not removed
\* (NoRemove); the merged leaf keeps its own upper fence (KeepFence).
MergeNodesNoRemove(n, pid, slotId, parent, right) ==
    LET tmp0 == SetFences(NewNode(n.leaf), n.lf, right.uf)
        bound == n.spaceUsed + right.spaceUsed
                 + (HeaderSize + SlotSize * (Count(n) + Count(right)))
                 + (n.prefixLen - tmp0.prefixLen) * Count(n)
                 + (right.prefixLen - tmp0.prefixLen) * Count(right)
        tmp  == CopyKeyValueRange(right, CopyKeyValueRange(n, tmp0, 0, Count(n)),
                                  0, Count(right))
    IN IF ~n.leaf THEN [ok |-> TRUE, node |-> n, parent |-> parent]
       ELSE IF bound > PageSize THEN [ok |-> FALSE, node |-> n, parent |-> parent]
       ELSE [ok |-> TRUE,
             node |-> [MakeHint(tmp) EXCEPT !.upper = right.upper],
             parent |-> [parent EXCEPT !.slot[slotId + 2].pay = pid]]

MergeNodesKeepFence(n, pid, slotId, parent, right) ==
    LET tmp0 == SetFences(NewNode(n.leaf), n.lf, n.uf)
        bound == n.spaceUsed + right.spaceUsed
                 + (HeaderSize + SlotSize * (Count(n) + Count(right)))
                 + (n.prefixLen - tmp0.prefixLen) * Count(n)
                 + (right.prefixLen - tmp0.prefixLen) * Count(right)
        tmp  == CopyKeyValueRange(right, CopyKeyValueRange(n, tmp0, 0, Count(n)),
                                  0, Count(right))
    IN IF ~n.leaf THEN [ok |-> TRUE, node |-> n, parent |-> parent]
       ELSE IF bound > PageSize THEN [ok |-> FALSE, node |-> n, parent |-> parent]
       ELSE [ok |-> TRUE,
             node |-> [MakeHint(tmp) EXCEPT !.upper = right.upper],
             parent |-> RemoveSlot([parent EXCEPT !.slot[slotId + 2].pay = pid], slotId)]

\* mergeNodes(pid, slotId, parent, right): an inner node reports success
\* and changes nothing; a leaf merges when the upper bound of the merged
\* size fits a page, repoints the parent's slot slotId + 1 at itself and
\* removes slot slotId.  The right page is left behind.
MergeNodes(n, pid, slotId, parent, right) ==
    LET tmp0 == SetFences(NewNode(n.leaf), n.lf, right.uf)
        leftGrow  == (n.prefixLen - tmp0.prefixLen) * Count(n)
        rightGrow == (right.prefixLen - tmp0.prefixLen) * Count(right)
        bound == n.spaceUsed + right.spaceUsed
                 + (HeaderSize + SlotSize * (Count(n) + Count(right)))
                 + leftGrow + rightGrow
        tmp  == CopyKeyValueRange(right, CopyKeyValueRange(n, tmp0, 0, Count(n)),
                                  0, Count(right))
    IN IF ~n.leaf THEN [ok |-> TRUE, node |-> n, parent |-> parent]
       ELSE IF bound > PageSize THEN [ok |-> FALSE, node |-> n, parent |-> parent]
       ELSE [ok |-> TRUE,
             node |-> [MakeHint(tmp) EXCEPT !.upper = right.upper],
             parent |-> RemoveSlot([parent EXCEPT !.slot[slotId + 2].pay = pid], slotId)]
====

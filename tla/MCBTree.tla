------------------------------- MODULE MCBTree ------------------------------
(***************************************************************************)
(* BTree on pages scaled down so that a few short keys fill them: a slot   *)
(* of 1 byte, a PID and a record of 1 byte each, no header bytes.  The     *)
(* page size keeps the code's requirement key + payload <= maxKVSize.      *)
(* Keys are mostly two bytes, so that separators are truncated to one byte *)
(* and fences share prefixes.                                              *)
(***************************************************************************)
EXTENDS BTree

\* The fibers run the same code: any permutation of them is a symmetry.
FiberSymmetry == Permutations(Fibers)

\* Keys of MCBTreeDuplicate.cfg and MCBTreeSepSlot.cfg.
MCKeys == {<<a, b>> : a \in 1..3, b \in 1..2}

\* Keys of MCBTree.cfg (the growth workload of MCBTreeWorkloads): seven,
\* so that a second split fills the root and ensureSpace splits an inner
\* node.
MCKeysWide == {<<a, b>> : a \in 1..2, b \in 1..3} \cup {<<3>>}

\* Keys of MCBTreeChurn.cfg (the churn workload): five make three leaves
\* under one root, so that an erase can leave a leaf underfull next to a
\* right sibling.
MCKeysChurn == {<<1, 1>>, <<1, 2>>, <<2, 1>>, <<2, 2>>, <<3>>}

\* Erased keys of MCBTreeChurn.cfg: those of the two leftmost leaves.
MCEraseChurn == {<<1, 1>>, <<1, 2>>, <<2, 1>>}

ASSUME \A k \in Keys : Len(k) > 0 /\ Len(k) + PayloadLen <= maxKVSize
=============================================================================

------------------------- MODULE MCBTreeWorkloads --------------------------
(***************************************************************************)
(* The two workloads of the B-tree on the pages of MCBTree (a slot and a   *)
(* record of 1 byte each, a PID of 3 bytes, no header, pages of 14 bytes). *)
(* The initial state chooses the workload; the other instance keeps its   *)
(* initial state, so a behaviour is one of exactly one of them.            *)
(*                                                                         *)
(*   growth: two fibers insert seven keys, so that a second split fills   *)
(*   the root and ensureSpace splits an inner node;                        *)
(*   churn: one fiber inserts five keys (three leaves under one root) and *)
(*   removes the three of the two leftmost leaves, so that an erase can   *)
(*   leave a leaf underfull next to a right sibling.                       *)
(***************************************************************************)
EXTENDS Naturals, Sequences, TLC

CONSTANTS NoNeighbour, NoVal, v1, f1, f2, f3

VARIABLES workload,
          gPages, gRoot, gAlloc, gOp, gEns, gCall,
          cPages, cRoot, cAlloc, cOp, cEns, cCall

\* The keys of the growth workload: seven, mostly of two bytes, so that
\* separators are truncated to one byte and fences share prefixes.
GrowthKeys == {<<a, b>> : a \in 1..2, b \in 1..3} \cup {<<3>>}

\* The keys of the churn workload, and those it erases: the two leftmost
\* leaves' keys.
ChurnKeys == {<<1, 1>>, <<1, 2>>, <<2, 1>>, <<2, 2>>, <<3>>}
ChurnErase == {<<1, 1>>, <<1, 2>>, <<2, 1>>}

GR == INSTANCE BTree WITH
          PageSize <- 14, HeaderSize <- 0, SlotSize <- 1, PidLen <- 3,
          PayloadLen <- 1, HintCount <- 1, SepWindow <- 16, Values <- {v1},
          Keys <- GrowthKeys,
          MaxPid <- 12, InsertExisting <- FALSE, EraseKeys <- {},
          Fibers <- {f1, f2},
          pages <- gPages, root <- gRoot, allocCount <- gAlloc,
          op <- gOp, ens <- gEns, call <- gCall

CH == INSTANCE BTree WITH
          PageSize <- 14, HeaderSize <- 0, SlotSize <- 1, PidLen <- 3,
          PayloadLen <- 1, HintCount <- 1, SepWindow <- 16, Values <- {v1},
          Keys <- ChurnKeys,
          MaxPid <- 6, InsertExisting <- FALSE,
          EraseKeys <- ChurnErase,
          Fibers <- {f3},
          pages <- cPages, root <- cRoot, allocCount <- cAlloc,
          op <- cOp, ens <- cEns, call <- cCall

gVars == <<gPages, gRoot, gAlloc, gOp, gEns, gCall>>
cVars == <<cPages, cRoot, cAlloc, cOp, cEns, cCall>>
vars == <<workload, gVars, cVars>>

Init == /\ workload \in {"growth", "churn"}
        /\ GR!Init
        /\ CH!Init

Next == \/ workload = "growth" /\ GR!Next /\ UNCHANGED <<workload, cVars>>
        \/ workload = "churn" /\ CH!Next /\ UNCHANGED <<workload, gVars>>

Spec == Init /\ [][Next]_vars

\* The growth fibers run the same code: swapping them is a symmetry.
FiberSymmetry == Permutations({f1, f2})

\* The pages, root, counters and fiber states of both workloads are well
\* formed.
TypeOK == GR!TypeOK /\ CH!TypeOK

\* After any inserts with their splits, new roots, failed AllocGuards and
\* ensureSpace detours, and any erases with their merges, the reachable
\* pages form a tree with all leaves at one depth, fences equal to the
\* separators above and keys ascending within them.
TreeShape == GR!TreeShape /\ CH!TreeShape

\* Slot array and heap never overlap and spaceUsed counts exactly the live
\* bytes, through compactify, splits and merges.
SpaceLayout == GR!SpaceLayout /\ CH!SpaceLayout

\* scanAsc and the adapter's scanDesc visit exactly the present keys on
\* their side of the start key, in order, across leaf boundaries.
ScanOrder == GR!ScanOrder /\ CH!ScanOrder

\* The hints searchHint reads are those makeHint would compute.
HintsCurrent == GR!HintsCurrent /\ CH!HintsCurrent

\* lowerBound agrees with a linear search in every reachable node.
LowerBoundCorrect == GR!LowerBoundCorrect /\ CH!LowerBoundCorrect

\* Both workloads implement KeyValueMap: each completed insert or remove is
\* the abstract step of the same call, and splits, restarts and merges
\* change no lookup.
MapRefinement == GR!MapRefinement /\ CH!MapRefinement
=============================================================================

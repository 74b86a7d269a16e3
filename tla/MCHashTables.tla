--------------------------- MODULE MCHashTables ----------------------------
(***************************************************************************)
(* The two hash maps of the repository, each checked against KeyValueMap: *)
(* the Robin-Hood page table of the buffer manager (PageTable) and the     *)
(* chained table of the shuffle (ChainedHT).  The initial state chooses    *)
(* which one runs; the other keeps its initial state, so that a behaviour *)
(* is a behaviour of exactly one of the two specifications and the state  *)
(* space is their sum.                                                     *)
(*                                                                         *)
(* PageTable at capacity 4 with the home slots splitmix64(k) & 3 really   *)
(* has for k = 0..4 (3, 1, 2, 1, 2): keys 1 and 3 and keys 2 and 4        *)
(* collide, so inserts displace and swap, erases backshift across the     *)
(* wrap-around, and a fifth key probes a full table until the distance    *)
(* byte overflows.                                                         *)
(*                                                                         *)
(* ChainedHT with two buckets and nodes and batches of three; keys 4, 5   *)
(* and 8 all fall in bucket 0 (splitmix64(k) & 1), so a chain of two      *)
(* forms, walkers survive a round, a key repeated within a batch is       *)
(* walked twice, and the third key reaches alloc_node's ensure, by        *)
(* inserts and halfway through a batch.                                    *)
(*                                                                         *)
(* The initial state may instead choose one of the containers (SpscRing,  *)
(* StackRing, Stack), checked against BoundedBuffer: four slots and       *)
(* counters of three bits, so that they wrap around (as the 64-bit ones  *)
(* would) while holding up to four items, and a full ring is seen.       *)
(***************************************************************************)
EXTENDS Naturals, TLC

CONSTANTS v1, v2, k4, k5, k8, PTNoKey, PTNoVal, CHNil, CHNoKey, CHNoVal, CTNone

VARIABLES which, table, ptCrashed, ptCall, ht, work, chCrashed, chCall,
          head, tail, buf, spscOut, read, write, array, ringOut, idx, stack, stackOut

PT == INSTANCE PageTable WITH
          Keys <- 0..4, Home <- [k \in 0..4 |-> <<3, 1, 2, 1, 2>>[k + 1]],
          Capacity <- 4, Values <- {v1, v2}, NoKey <- PTNoKey, NoVal <- PTNoVal,
          crashed <- ptCrashed, call <- ptCall

CH == INSTANCE ChainedHT WITH
          Keys <- {k4, k5, k8}, Home <- (k4 :> 0) @@ (k5 :> 0) @@ (k8 :> 0),
          Values <- {v1, v2}, Capacity <- 2, BatchSize <- 3,
          Nil <- CHNil, NoKey <- CHNoKey, NoVal <- CHNoVal,
          crashed <- chCrashed, call <- chCall

CT == INSTANCE Containers WITH Cap <- 4, Width <- 3, Vals <- {v1, v2}, None <- CTNone

ptVars == <<table, ptCrashed, ptCall>>
chVars == <<ht, work, chCrashed, chCall>>
ctVars == <<head, tail, buf, spscOut, read, write, array, ringOut, idx, stack, stackOut>>
vars == <<which, ptVars, chVars, ctVars>>

Init == /\ which \in {"page_table", "chained_ht", "spsc", "ring", "stack"}
        /\ PT!Init
        /\ CH!Init
        /\ CT!Init

Next == \/ which = "page_table" /\ PT!Next /\ UNCHANGED <<which, chVars, ctVars>>
        \/ which = "chained_ht" /\ CH!Next /\ UNCHANGED <<which, ptVars, ctVars>>
        \/ which = "spsc" /\ CT!SpscNext /\ UNCHANGED <<which, ptVars, chVars>>
        \/ which = "ring" /\ CT!RingNext /\ UNCHANGED <<which, ptVars, chVars>>
        \/ which = "stack" /\ CT!StackNext /\ UNCHANGED <<which, ptVars, chVars>>

Spec == Init /\ [][Next]_vars

\* The types of both tables, with a batch that is never left full; the
\* containers' counters and slots, the stack's idx never past capacity.
TypeOK == PT!TypeOK /\ CH!TypeOK /\ CT!TypeOK

(***************************************************************************)
(* PageTable (rh_backshift_u64_map.hpp): every occupied slot records its  *)
(* true displacement + 1, no key is stored twice and displacement grows  *)
(* by at most one from slot to slot, which find's early exit relies on.   *)
(***************************************************************************)
RobinHoodLayout == PT!RobinHoodLayout

(* PageTable: insert, erase and the overflow abort are steps of the       *)
(* abstract map under "k maps to what find(k) returns".                   *)
MapRefinement == PT!MapRefinement

(***************************************************************************)
(* ChainedHT (hashtable.hpp): the nodes form the free list and the bucket *)
(* chains, each node on exactly one, chains acyclic and keyed by bucket,  *)
(* no key chained twice, sz counting the chained nodes.                   *)
(***************************************************************************)
HeapWellFormed == CH!HeapWellFormed

(* ChainedHT: insert, erase, insert_batch and flush_batch each have the   *)
(* effect of the sequential map operations, batches last-write-wins.     *)
MapSemantics == CH!MapSemantics

(* ChainedHT: alloc_node's ensure fires only when more than n distinct    *)
(* keys must be held; erase and batches leak no node.                      *)
AbortOnlyWhenFull == CH!AbortOnlyWhenFull
(* SpscRing, StackRing and Stack: every sequence of pushes and pops,      *)
(* through the wrap-around of the free-running counters, is one of a      *)
(* bounded FIFO (the rings) or LIFO (the stack), so a push never          *)
(* overwrites a held item and a pop returns the right one.                 *)
ContainerRefinement == CT!ContainerRefinement
=============================================================================

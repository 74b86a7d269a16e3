---------------------------- MODULE Containers -----------------------------
(***************************************************************************)
(* The fixed-capacity containers of the repository, each over an array of *)
(* Cap slots:                                                              *)
(*                                                                         *)
(*   SpscRing (buffer_mgr/spsc_ring.hpp), the reactor's ready queue:       *)
(*   free-running size_t counters head_ and tail_, slots indexed by        *)
(*   counter & (Cap - 1); push and pop return false when full or empty,   *)
(*   and every caller ensures they succeed.                                *)
(*   StackRing (utils/ring.hpp): the same ring with uint64_t counters      *)
(*   read and write, whose push and pop ensure themselves.                 *)
(*   Stack (utils/stack.hpp), the shuffle's unused_buffers and the libaio  *)
(*   free_cbs: an array and idx.                                           *)
(*                                                                         *)
(* A failed push or pop ends the process through ensure, so it is not a   *)
(* step here.  The counters are Width bits wide and wrap modulo 2^Width,   *)
(* as the 64-bit counters wrap modulo 2^64.  Each container is shown to   *)
(* implement BoundedBuffer, the rings as FIFOs, the stack as a LIFO.      *)
(***************************************************************************)
EXTENDS Naturals, Sequences, Bitwise

CONSTANTS Cap, Width, Vals, None

ASSUME Cap \in {2^k : k \in 0..Width} /\ Width >= 1

Slots == 0..(Cap - 1)
Mod == 2^Width
Counters == 0..(Mod - 1)
Mask(x) == x & (Cap - 1)
Inc(x) == (x + 1) % Mod

VARIABLES
    head, tail, buf, spscOut,       \* SpscRing: head_, tail_, buf_, pop's out
    read, write, array, ringOut,    \* StackRing
    idx, stack, stackOut            \* Stack: idx and array

spscVars == <<head, tail, buf, spscOut>>
ringVars == <<read, write, array, ringOut>>
stackVars == <<idx, stack, stackOut>>
vars == <<spscVars, ringVars, stackVars>>

Cell == Vals \cup {None}

TypeOK == /\ head \in Counters /\ tail \in Counters /\ buf \in [Slots -> Cell]
          /\ read \in Counters /\ write \in Counters /\ array \in [Slots -> Cell]
          /\ idx \in 0..Cap /\ stack \in [Slots -> Cell]
          /\ {spscOut, ringOut, stackOut} \subseteq Cell

\* The arrays are uninitialised; None stands for a slot never written.
Init == /\ head = 0 /\ tail = 0 /\ buf = [s \in Slots |-> None] /\ spscOut = None
        /\ read = 0 /\ write = 0 /\ array = [s \in Slots |-> None] /\ ringOut = None
        /\ idx = 0 /\ stack = [s \in Slots |-> None] /\ stackOut = None

(***************************************************************************)
(* SpscRing                                                                *)
(***************************************************************************)

\* Mutant: size() as the difference of the masked indices.
SpscSizeMasked == (Mask(tail) - Mask(head)) % Mod

\* size(): tail_ - head_ in size_t arithmetic.
SpscSize == (tail - head) % Mod

SpscEmpty == head = tail
SpscFull == SpscSize = Cap

SpscPush(v) == /\ ~SpscFull
               /\ buf' = [buf EXCEPT ![Mask(tail)] = v]
               /\ tail' = Inc(tail)
               /\ UNCHANGED <<head, spscOut, ringVars, stackVars>>

SpscPop == /\ ~SpscEmpty
           /\ spscOut' = buf[Mask(head)]
           /\ head' = Inc(head)
           /\ UNCHANGED <<tail, buf, ringVars, stackVars>>

(***************************************************************************)
(* StackRing                                                               *)
(***************************************************************************)

RingSize == (write - read) % Mod

RingPush(v) == /\ RingSize # Cap
               /\ array' = [array EXCEPT ![Mask(write)] = v]
               /\ write' = Inc(write)
               /\ UNCHANGED <<read, ringOut, spscVars, stackVars>>

RingPop == /\ read # write
           /\ ringOut' = array[Mask(read)]
           /\ read' = Inc(read)
           /\ UNCHANGED <<write, array, spscVars, stackVars>>

(***************************************************************************)
(* Stack                                                                   *)
(***************************************************************************)

\* Mutant: push without its ensure(!full()).
StackPushUnchecked(v) == /\ stack' = [stack EXCEPT ![idx] = v]
                         /\ idx' = idx + 1
                         /\ UNCHANGED <<stackOut, spscVars, ringVars>>

StackPush(v) == /\ idx # Cap
                /\ stack' = [stack EXCEPT ![idx] = v]
                /\ idx' = idx + 1
                /\ UNCHANGED <<stackOut, spscVars, ringVars>>

StackPop == /\ idx # 0
            /\ stackOut' = stack[idx - 1]
            /\ idx' = idx - 1
            /\ UNCHANGED <<stack, spscVars, ringVars>>

SpscNext == SpscPop \/ \E v \in Vals : SpscPush(v)
RingNext == RingPop \/ \E v \in Vals : RingPush(v)
StackNext == StackPop \/ \E v \in Vals : StackPush(v)

Next == SpscNext \/ RingNext \/ StackNext

Spec == Init /\ [][Next]_vars

(***************************************************************************)
(* Refinement: the items a container holds, oldest first.                  *)
(***************************************************************************)

SpscItems == [i \in 1..SpscSize |-> buf[Mask((head + i - 1) % Mod)]]
RingItems == [i \in 1..RingSize |-> array[Mask((read + i - 1) % Mod)]]
StackItems == [i \in 1..idx |-> stack[i - 1]]

SQ == INSTANCE BoundedBuffer WITH Lifo <- FALSE, items <- SpscItems, out <- spscOut
RQ == INSTANCE BoundedBuffer WITH Lifo <- FALSE, items <- RingItems, out <- ringOut
ST == INSTANCE BoundedBuffer WITH Lifo <- TRUE, items <- StackItems, out <- stackOut

\* Every sequence of pushes and pops, through the counters' wrap-around,
\* is one of a bounded FIFO (the two rings) or LIFO (the stack): no push
\* overwrites a held item, and every pop returns the right one.
ContainerRefinement == SQ!Spec /\ RQ!Spec /\ ST!Spec
====

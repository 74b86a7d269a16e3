--------------------------- MODULE BoundedBuffer ----------------------------
(***************************************************************************)
(* What the repository's fixed-capacity containers promise: a sequence of *)
(* at most Cap items, to which push appends and from which pop removes    *)
(* the oldest item (a FIFO ring) or the newest one (a stack).  `out` is    *)
(* the item the last pop returned.                                         *)
(***************************************************************************)
EXTENDS Naturals, Sequences, SequencesExt

CONSTANTS Cap, Vals, Lifo, None

VARIABLES items, out

Init == items = <<>> /\ out = None

Push(v) == /\ Len(items) < Cap
           /\ items' = Append(items, v)
           /\ UNCHANGED out

Pop == /\ items # <<>>
       /\ out' = IF Lifo THEN Last(items) ELSE Head(items)
       /\ items' = IF Lifo THEN Front(items) ELSE Tail(items)

Next == Pop \/ \E v \in Vals : Push(v)

Spec == Init /\ [][Next]_<<items, out>>
====

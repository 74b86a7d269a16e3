---------------------------- MODULE KeyValueMap ----------------------------
(***************************************************************************)
(* What the page table promises its user: a finite map from keys to        *)
(* values in which insert(k, v) makes k map to v, erase(k) makes k map to  *)
(* nothing, and nothing else changes.  `call` is the last operation the    *)
(* user invoked, so that a step is tied to the call that made it.          *)
(* `halted` records that the process has stopped: only an insert of a key  *)
(* that is not in the map may fail, and after it the map is frozen.        *)
(***************************************************************************)
CONSTANTS Keys, Values, NoVal

VARIABLES map, halted, call

vars == <<map, halted, call>>

Init == /\ map = [k \in Keys |-> NoVal]
        /\ halted = FALSE
        /\ call = [kind |-> "none"]

\* Each step is given the map before it (m) and after it (m2).
Put(m, m2, k, v) ==
    /\ ~halted
    /\ call' = [kind |-> "insert", key |-> k, val |-> v]
    /\ m2 = [m EXCEPT ![k] = v]
    /\ UNCHANGED halted

Remove(m, m2, k) ==
    /\ ~halted
    /\ call' = [kind |-> "erase", key |-> k]
    /\ m2 = [m EXCEPT ![k] = NoVal]
    /\ UNCHANGED halted

Halt(m, m2, k, v) ==
    /\ ~halted
    /\ halted' = TRUE
    /\ call' = [kind |-> "insert", key |-> k, val |-> v]
    /\ m[k] = NoVal
    /\ m2 = m

\* The map is taken once before and once after the step (a refinement
\* mapping substituted for it is then evaluated once per state); a step
\* that changes nothing is written out, as [Next]_vars allows it anyway.
Next ==
    \E m \in {map}, m2 \in {map'} :
        \/ m2 = m /\ UNCHANGED <<halted, call>>
        \/ \E k \in Keys, v \in Values : Put(m, m2, k, v) \/ Halt(m, m2, k, v)
        \/ \E k \in Keys : Remove(m, m2, k)

Spec == Init /\ [][Next]_vars
=============================================================================

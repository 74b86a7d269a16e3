--------------------------- MODULE MCPageTable ----------------------------
(***************************************************************************)
(* PageTable at capacity 4, enough keys to fill it and one more, and the   *)
(* home slots splitmix64(k) & 3 really has for k = 0..4: 3, 1, 2, 1, 2.    *)
(* Keys 1 and 3 collide and 2 and 4 collide, so inserts displace and swap, *)
(* erases backshift across the wrap-around, and a fifth key probes a full  *)
(* table until the distance byte overflows.                                 *)
(***************************************************************************)
EXTENDS PageTable

MCKeys == 0..4
MCHome == [k \in MCKeys |-> <<3, 1, 2, 1, 2>>[k + 1]]
=============================================================================

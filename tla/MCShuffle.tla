---------------------------- MODULE MCShuffle ----------------------------
(***************************************************************************)
(* Shuffle between two nodes over one connection per direction, with      *)
(* buffers of two tuples and morsels of two tuples.  Three buffers per    *)
(* worker is (P-1)*(1+2*C), the least the code's sizing allows for.       *)
(*                                                                         *)
(*   MCShuffle.cfg       node 0 sends a full and a partial buffer, node 1  *)
(*                       a full one: safety of the buffer, ring and       *)
(*                       stream protocol, and every worker returns from   *)
(*                       run under the fairness of LiveSpec;              *)
(*   MCShuffleLive.cfg   the liveness part of MCShuffle.cfg alone;        *)
(*   MCShuffleTwoConns.cfg  two connections per pair, NoAbort and         *)
(*                       DeliveredOnExit only (718k states, by hand);     *)
(*   MCBudgetHang.cfg    use_budget with node 1 sending nothing to node 0; *)
(*   MCPhantom.cfg       use_hashtable: what probe_table receives.        *)
(***************************************************************************)
EXTENDS Shuffle

\* Keys loaded by each node; key % 2 is the partition.
MCInput == [n \in 0..1 |-> IF n = 0 THEN <<1, 1, 0, 1, 1, 1>> ELSE <<0, 1, 0>>]

\* Two connections, buffers of one tuple: node 0 sends two buffers, node 1 one.
MCInputSmall == [n \in 0..1 |-> IF n = 0 THEN <<1, 1>> ELSE <<0>>]

\* Node 0 fills three buffers for node 1; node 1 has nothing for node 0.
MCInputSkew == [n \in 0..1 |-> IF n = 0 THEN <<1, 1, 1, 1, 1, 1>> ELSE <<1>>]
=============================================================================

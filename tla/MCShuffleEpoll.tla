-------------------------- MODULE MCShuffleEpoll --------------------------
(***************************************************************************)
(* The epoll shuffle between two nodes over one connection per direction,  *)
(* with buffers of two tuples, morsels of two tuples and sockets that     *)
(* hold one slot, so that every buffer needs EPOLLOUT to be sent whole.   *)
(*                                                                         *)
(*   MCShuffleEpoll.cfg     node 0 sends two full buffers, node 1 a       *)
(*                          partial one;                                   *)
(*   MCShuffleEpollDrop.cfg node 0 fills a buffer and then a partial one. *)
(***************************************************************************)
EXTENDS ShuffleEpoll

\* Keys loaded by each node; key % 2 is the partition.
MCInput == [n \in 0..1 |-> IF n = 0 THEN <<1, 1, 1, 1, 0>> ELSE <<0, 1>>]

\* Node 0's last tuple for node 1 is left in a partial buffer while the
\* full one before it is still being sent.
MCInputDrop == [n \in 0..1 |-> IF n = 0 THEN <<1, 1, 1>> ELSE <<0>>]
=============================================================================

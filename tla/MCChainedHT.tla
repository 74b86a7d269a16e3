---------------------------- MODULE MCChainedHT ----------------------------
(***************************************************************************)
(* ChainedHT with the real buckets splitmix64(k) & mask of the keys used. *)
(*                                                                         *)
(* MCChainedHT.cfg: two buckets and nodes, keys 4, 5 and 8, which all     *)
(* fall in bucket 0 (MCHomeDeepFull).  A chain of two forms, so walkers    *)
(* of a batch of three survive a round and a key repeated within a batch  *)
(* is walked twice; the third key does not fit, so alloc_node's ensure is *)
(* reached, by inserts and halfway through a batch.                        *)
(***************************************************************************)
EXTENDS ChainedHT

CONSTANTS k1, k4, k5, k8

MCKeysDeep == {k4, k5, k8}
MCHomeDeep == (k4 :> 2) @@ (k5 :> 2) @@ (k8 :> 2)

MCHomeDeepFull == (k4 :> 0) @@ (k5 :> 0) @@ (k8 :> 0)

MCKeysFull == {k1, k4, k5}
MCHomeFull == (k1 :> 1) @@ (k4 :> 0) @@ (k5 :> 0)
=============================================================================

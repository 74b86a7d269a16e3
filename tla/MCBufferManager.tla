-------------------------- MODULE MCBufferManager --------------------------
(***************************************************************************)
(* BufferManager with three frames (the metadata page and two more) and    *)
(* four pages, so that the pages of the workload never all fit and the     *)
(* evictor must run.  Capacity 4 is next_pow2(3 * 1.5); the home slots are *)
(* splitmix64(pid) & 3 for pids 0..3.  FreeTargetPct 10 makes the evictor  *)
(* run when the free list is empty, as 0 <= 3 * 0.1 < 1.                   *)
(*                                                                         *)
(* The configurations differ in the worker fibers (cfg.concurrency, which  *)
(* is also total_io_fibers):                                               *)
(*   MCBufferManager.cfg      two workers, safety;                         *)
(*   MCBufferManagerLive.cfg  one worker, progress under fairness;         *)
(*   MCMetaEvict.cfg          two workers, the metadata-page check;        *)
(*   MCSubmitHang.cfg         four workers, where check_submit may defer.  *)
(***************************************************************************)
EXTENDS BufferManager

MCHome == [p \in 0..3 |-> <<3, 1, 2, 1>>[p + 1]]
=============================================================================

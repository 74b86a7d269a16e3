------------------------- MODULE MCShuffleWorkers --------------------------
(***************************************************************************)
(* The two workers of shufflev2.cpp, each between two nodes over one      *)
(* connection per direction, with buffers and morsels of two tuples and   *)
(* three buffers per worker, (P-1)*(1+2*C), the least the sizing allows.  *)
(* The initial state chooses the worker (cfg.use_epoll) or a set-up that *)
(* precedes either; the other models keep their initial states, so a    *)
(* behaviour is one of exactly one of the four specifications.          *)
(*                                                                         *)
(*   io_uring Worker (Shuffle): node 0 sends a full and a partial buffer, *)
(*   node 1 a full one; a stream holds one message before a send waits.   *)
(*   EpollWorker (ShuffleEpoll): node 0 sends two full buffers, the last  *)
(*   of them completed only in the drain loop, and node 1 a partial one;  *)
(*   a socket holds one tuple, so sends return EAGAIN and resume on       *)
(*   EPOLLOUT in the middle of a buffer.                                   *)
(*   Set-up (ShuffleSetup), in two sizes, connect_to giving up after two  *)
(*   attempts: three nodes of one worker with one connection per pair,    *)
(*   where node 2 accepts the links of nodes 0 and 1 interleaved and a    *)
(*   process that ends takes a third one with it; and two nodes of two    *)
(*   workers with two connections per pair, where the pthread barrier     *)
(*   holds three threads and a node ends while its other worker is       *)
(*   between connect and sending its id.                                  *)
(*   Key extraction (TupleIterator) on the zero-copy receive path: keys  *)
(*   of 8 bytes in tuples of 16 (do_benchmark<16>), at half scale, over  *)
(*   a stream of three tuples cut into chunks of 1..9 bytes, so that a    *)
(*   chunk ends inside a key, inside a gap, exactly at either boundary,  *)
(*   or spans a whole tuple.                                              *)
(***************************************************************************)
EXTENDS Naturals, TLC

CONSTANTS NoBuf

VARIABLES worker, iNode, iStream, eNode, eStream,
          sMain, sWrk, sListening, sBacklog, sIdSent, sTbSent, sPb, sAborted,
          tMain, tWrk, tListening, tBacklog, tIdSent, tTbSent, tPb, tAborted,
          streamPos, nextKeyPos, partial, keys, fed

IU == INSTANCE Shuffle WITH
          P <- 2, C <- 1, MaxTuples <- 2, MorselSize <- 2, NumBuffers <- 3,
          StreamCap <- 1, UseBudget <- FALSE, UseHashtable <- FALSE,
          Input <- [n \in 0..1 |-> IF n = 0 THEN <<1, 1, 0, 1, 1, 1>> ELSE <<0, 1, 0>>],
          node <- iNode, stream <- iStream

EP == INSTANCE ShuffleEpoll WITH
          P <- 2, C <- 1, MaxTuples <- 2, MorselSize <- 2, NumBuffers <- 3,
          SockCap <- 1, UseBudget <- FALSE, UseHashtable <- FALSE,
          Input <- [n \in 0..1 |-> IF n = 0 THEN <<1, 1, 1, 1, 0>> ELSE <<0, 1>>],
          node <- eNode, stream <- eStream

SS == INSTANCE ShuffleSetup WITH
          P <- 3, W <- 1, C <- 1, Retries <- 2,
          main <- sMain, wrk <- sWrk, listening <- sListening, backlog <- sBacklog,
          idSent <- sIdSent, tbSent <- sTbSent, pb <- sPb, aborted <- sAborted

ST == INSTANCE ShuffleSetup WITH
          P <- 2, W <- 2, C <- 2, Retries <- 2,
          main <- tMain, wrk <- tWrk, listening <- tListening, backlog <- tBacklog,
          idSent <- tIdSent, tbSent <- tTbSent, pb <- tPb, aborted <- tAborted

TI == INSTANCE TupleIterator WITH
          KeySize <- 4, TupleSize <- 8, KeyOffset <- 0, StreamLen <- 24, MaxChunk <- 9

iVars == <<iNode, iStream>>
eVars == <<eNode, eStream>>
sVars == <<sMain, sWrk, sListening, sBacklog, sIdSent, sTbSent, sPb, sAborted>>
tVars == <<tMain, tWrk, tListening, tBacklog, tIdSent, tTbSent, tPb, tAborted>>
kVars == <<streamPos, nextKeyPos, partial, keys, fed>>
vars == <<worker, iVars, eVars, sVars, tVars, kVars>>

Init == /\ worker \in {"io_uring", "epoll", "setup", "setup2", "keys"}
        /\ IU!Init
        /\ EP!Init
        /\ SS!Init
        /\ ST!Init
        /\ TI!Init

IUStep(A) == worker = "io_uring" /\ A /\ UNCHANGED <<worker, eVars, sVars, tVars, kVars>>
EPStep(A) == worker = "epoll" /\ A /\ UNCHANGED <<worker, iVars, sVars, tVars, kVars>>
SSStep(A) == worker = "setup" /\ A /\ UNCHANGED <<worker, iVars, eVars, tVars, kVars>>
STStep(A) == worker = "setup2" /\ A /\ UNCHANGED <<worker, iVars, eVars, sVars, kVars>>
TIStep(A) == worker = "keys" /\ A /\ UNCHANGED <<worker, iVars, eVars, sVars, tVars>>

Next == IUStep(IU!Next) \/ EPStep(EP!Next) \/ SSStep(SS!Next) \/ STStep(ST!Next)
        \/ TIStep(TI!Next)

\* The fairness of each model, for the worker the run has chosen.
Fairness ==
    /\ \A n \in 0..1 : /\ WF_vars(IUStep(IU!Worker(n)))
                      /\ WF_vars(IUStep(IU!Kernel(n)))
                      /\ WF_vars(EPStep(EP!Worker(n)))
    /\ \A n \in 0..2 : /\ WF_vars(SSStep(SS!Main(n)))
                      /\ WF_vars(SSStep(SS!Worker(n, 0)))
    /\ \A n \in 0..1 : /\ WF_vars(STStep(ST!Main(n)))
                      /\ \A w \in 0..1 : WF_vars(STStep(ST!Worker(n, w)))

LiveSpec == Init /\ [][Next]_vars /\ Fairness

\* The worker state of both models is well formed.
TypeOK == IU!TypeOK /\ EP!TypeOK /\ SS!TypeOK /\ ST!TypeOK /\ TI!TypeOK

(***************************************************************************)
(* No buffer is lost or held twice by either worker: completions and      *)
(* readiness events in any order, partial sends and lazily taken receive  *)
(* buffers all keep every Buffer in exactly one place.                    *)
(***************************************************************************)
BufferConservation == IU!BufferConservation /\ EP!BufferConservation

(* io_uring: the worker never fills, recycles or re-sends a buffer that a *)
(* prepared or submitted request still names.                             *)
InFlightBufferOwned == IU!InFlightBufferOwned

(* epoll: the receiver's buffer boundaries stay those of the sender,      *)
(* however send and recv split the bytes.                                  *)
FramingAligned == EP!FramingAligned

(* No ensure() or check_iou() ends either worker.                          *)
NoAbort == IU!NoAbort /\ EP!NoAbort

(***************************************************************************)
(* Whichever worker runs, a node that returns from run has received,      *)
(* exactly once, every tuple the other node scanned for it.               *)
(***************************************************************************)
DeliveredOnExit == IU!DeliveredOnExit /\ EP!DeliveredOnExit

(***************************************************************************)
(* Set-up: no worker of any node starts its shuffle before every worker   *)
(* of every node has made and accepted all its connections (the two      *)
(* pthread barrier waits around TCPBarrier::wait).                        *)
(***************************************************************************)
GlobalStart == SS!GlobalStart /\ ST!GlobalStart

(* Set-up: every worker of every node eventually runs, unless a process   *)
(* ended on a refused connect_to or a failed ensure.                      *)
SetupEnds == <>(\/ worker \notin {"setup", "setup2"}
                \/ worker = "setup" /\ (SS!Done \/ sAborted # {})
                \/ worker = "setup2" /\ (ST!Done \/ tAborted # {}))

(***************************************************************************)
(* Key extraction: TupleIterator::process has called on_key with exactly  *)
(* the whole keys of the bytes received so far, once each, in order and  *)
(* from their own bytes, and buffers the rest of a key a chunk cut, for  *)
(* every way the receives cut the stream.                                 *)
(***************************************************************************)
KeysExtracted == TI!KeysExtracted

(* Every node of the chosen worker eventually returns from run.           *)
AllExit == <>(\/ worker = "io_uring" /\ IU!Finished
              \/ worker = "epoll" /\ EP!Finished
              \/ worker \in {"setup", "setup2", "keys"})
=============================================================================

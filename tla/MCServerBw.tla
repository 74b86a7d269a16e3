----------------------------- MODULE MCServerBw -----------------------------
(***************************************************************************)
(* The bandwidth servers with their clients, each with two server threads *)
(* and two connections, chosen in the initial state from Servers; the     *)
(* other model keeps its initial state, so a behaviour is one of exactly  *)
(* one of them.                                                            *)
(*                                                                         *)
(*   server_bw / client_bw (ServerBw): worker 0 hands one connection to   *)
(*   itself and one to worker 1 and both leave run under stop_after_last; *)
(*   rings of two buffers (nr_bufs must be a power of two), one BufRing   *)
(*   per worker (the default num_brs), and up to three sends per          *)
(*   connection, two of which a socket holds: a bundle can take the whole *)
(*   ring, and a multishot recv that has emptied it meets a third send    *)
(*   and ends with -ENOBUFS.                                               *)
(*   epoll_server / epoll_client (EpollBw): one client Worker with two    *)
(*   connections, handed to the two server workers; sockets of two units, *)
(*   so that sends meet a full socket and the client waits for EPOLLOUT;  *)
(*   MAX_CONNS 2, as many as the client opens.                            *)
(*   server / client (PingPong): the TCP ping-pong, single shot and       *)
(*   zero-copy, and the one-way stream; sockets of two messages and up to *)
(*   three ops before the client's duration ends.                         *)
(*   zc_recv (ZcRecv): one connection, whose peer sends three units and    *)
(*   closes, with cfg.size 0 (no limit) or 2, so that a recv is used up    *)
(*   and armed again, and EOF comes both to a recv that has data and to    *)
(*   one that has none; the first accepted fd is 5 (stdio, the ring and    *)
(*   the listening socket come first).                                     *)
(***************************************************************************)
EXTENDS Naturals, TLC

CONSTANTS
    Servers,        \* the programs a run chooses from
    Modes,          \* server_bw's receive configurations
    c1, c2, NoClient, NoRing

VARIABLES server,
          mode, spawned, wired, wk, cq, kern, phase, sent, bSock, exited,
          bOwner, srv, br, bytes, bCrash,
          sw, nextWorker, nrConns, openConns, exits, eCrash, backlog, conn,
          eOwner, armed, eSock, eof, cw, canSend, nospace, edge, stop, destroyed,
          pMode, pc, sq, io, pCq, rx, closed, rst, ops, totalRecv, done,
          zSize, zPc, zAccepted, zSq, zArmed, zCq, zLast, zBytes, zDone, zCrash,
          zSock, zSent, zFin

Mode(regBufs, mshot, bundle) == [regBufs |-> regBufs, mshot |-> mshot, bundle |-> bundle]

\* The receive configurations whose buffer accounting holds: single-shot
\* into client->buf, with buffer select and with buffer select as a
\* bundle; and multishot bundles, whose -ENOBUFS completion makes
\* add_bundle_from_cqe rewrite every slot with bids in ring order and
\* advance the tail by a multiple of 2^16 (for cfg.size 1024).
ServedModes == {Mode(FALSE, FALSE, FALSE), Mode(TRUE, FALSE, FALSE), Mode(TRUE, FALSE, TRUE),
                Mode(TRUE, TRUE, TRUE)}

\* mshot_recv (with reg_bufs, as main requires), not as a bundle.
MultiShotModes == {Mode(TRUE, TRUE, FALSE)}

\* The ping-pong configurations: [pingpong, zc]; client.cpp refuses
\* reg_bufs without pingpong.
PingPongModes == {[pingpong |-> TRUE, zc |-> FALSE], [pingpong |-> TRUE, zc |-> TRUE],
                  [pingpong |-> FALSE, zc |-> FALSE]}

BW == INSTANCE ServerBw WITH
          T <- 2, Clients <- {c1, c2}, NrBufs <- 2, NumBrs <- 1, BufSize <- 1024,
          Data <- 3, SockCap <- 2, StopAfterLast <- TRUE,
          sock <- bSock, owner <- bOwner, crash <- bCrash

EP == INSTANCE EpollBw WITH
          T <- 2, CW <- 1, K <- 2, SockCap <- 2, MaxConns <- 2, StopAfterLast <- TRUE,
          crash <- eCrash, owner <- eOwner, sock <- eSock

PP == INSTANCE PingPong WITH
          Modes <- PingPongModes, SockCap <- 2, MaxOps <- 3, mode <- pMode, cq <- pCq

bVars == <<mode, spawned, wired, wk, cq, kern, phase, sent, bSock, exited, bOwner,
           srv, br, bytes, bCrash>>
eVars == <<sw, nextWorker, nrConns, openConns, exits, eCrash, backlog, conn, eOwner,
           armed, eSock, eof, cw, canSend, nospace, edge, stop, destroyed>>
ZR == INSTANCE ZcRecv WITH
          NrConns <- 1, Sizes <- {0, 2}, FirstFd <- 5, Slots <- 32, Data <- 3, SockCap <- 2,
          size <- zSize, pc <- zPc, accepted <- zAccepted, sq <- zSq, armed <- zArmed,
          cq <- zCq, last <- zLast, bytesRecv <- zBytes, done <- zDone, crash <- zCrash,
          sock <- zSock, sent <- zSent, fin <- zFin

pVars == <<pMode, pc, sq, io, pCq, rx, closed, rst, ops, totalRecv, done>>
zVars == <<zSize, zPc, zAccepted, zSq, zArmed, zCq, zLast, zBytes, zDone, zCrash,
           zSock, zSent, zFin>>
vars == <<server, bVars, eVars, pVars, zVars>>

Init == /\ server \in Servers
        /\ BW!Init
        /\ EP!Init
        /\ PP!Init
        /\ ZR!Init
        \* The programs not chosen rest in one initial state.
        /\ server # "server_bw" => mode = CHOOSE m \in Modes : TRUE
        /\ server # "pingpong" => pMode = CHOOSE m \in PingPongModes : TRUE
        /\ server # "zc_recv" => zSize = 0

BWStep(A) == server = "server_bw" /\ A /\ UNCHANGED <<server, eVars, pVars, zVars>>
EPStep(A) == server = "epoll" /\ A /\ UNCHANGED <<server, bVars, pVars, zVars>>
PPStep(A) == server = "pingpong" /\ A /\ UNCHANGED <<server, bVars, eVars, zVars>>
ZRStep(A) == server = "zc_recv" /\ A /\ UNCHANGED <<server, bVars, eVars, pVars>>

Next == BWStep(BW!Next) \/ EPStep(EP!Next) \/ PPStep(PP!Next) \/ ZRStep(ZR!Next)

\* The fairness of each model (see ServerBw!LiveSpec, EpollBw!LiveSpec),
\* for the program the run has chosen.
Fairness ==
    /\ WF_vars(BWStep(BW!Spawn)) /\ WF_vars(BWStep(BW!Wire))
    /\ WF_vars(BWStep(BW!ClientExit))
    /\ \A w \in BW!Workers : /\ WF_vars(BWStep(BW!WorkerInit(w)))
                             /\ WF_vars(BWStep(BW!Reap(w)))
                             /\ WF_vars(BWStep(BW!KMsg(w)))
    /\ \A w \in BW!Workers, c \in {c1, c2} : WF_vars(BWStep(BW!KRecv(w, c)))
    /\ \A c \in {c1, c2} : WF_vars(BWStep(BW!KAccept(c))) /\ WF_vars(BWStep(BW!Connect(c)))
    /\ \A w \in EP!Workers : /\ WF_vars(EPStep(EP!SWait(w))) /\ WF_vars(EPStep(EP!SHandle(w)))
                             /\ WF_vars(EPStep(EP!SHandleDone(w))) /\ WF_vars(EPStep(EP!Check(w)))
    /\ WF_vars(EPStep(EP!Accept)) /\ WF_vars(EPStep(EP!AcceptDone))
    /\ WF_vars(EPStep(EP!RequestStop)) /\ WF_vars(EPStep(EP!ClientDestroy))
    /\ \A j \in EP!Conns : WF_vars(EPStep(EP!Connect(j)))
    /\ \A c \in EP!CWorkers : /\ WF_vars(EPStep(EP!ClientTop(c)))
                              /\ WF_vars(EPStep(EP!ClientSend(c)))
                              /\ WF_vars(EPStep(EP!ClientPassEnd(c)))
                              /\ WF_vars(EPStep(EP!ClientWait(c)))
    /\ WF_vars(PPStep(PP!ClientTop)) /\ WF_vars(PPStep(PP!ClientReap))
    /\ WF_vars(PPStep(PP!ClientReapEnd)) /\ WF_vars(PPStep(PP!ServerSetup))
    /\ WF_vars(PPStep(PP!ServerTop)) /\ WF_vars(PPStep(PP!ServerReap))
    /\ WF_vars(PPStep(PP!ServerReapEnd))
    /\ \A s \in PP!Sides : WF_vars(PPStep(PP!Wait(s))) /\ WF_vars(PPStep(PP!Kernel(s)))
    /\ WF_vars(ZRStep(ZR!Accept)) /\ WF_vars(ZRStep(ZR!Submit)) /\ WF_vars(ZRStep(ZR!Reap))
    /\ \A c \in ZR!Conns : /\ WF_vars(ZRStep(ZR!PeerSend(c))) /\ WF_vars(ZRStep(ZR!PeerClose(c)))
                           /\ WF_vars(ZRStep(ZR!KEof(c)))
                           /\ WF_vars(ZRStep(\E n \in 1..2 : ZR!KData(c, n)))

LiveSpec == Init /\ [][Next]_vars /\ Fairness

\* The state of both models is well formed.
TypeOK == server \in Servers /\ BW!TypeOK /\ EP!TypeOK /\ PP!TypeOK /\ ZR!TypeOK

\* server_bw: no ring buffer is lost or handed out twice (ServerBw).
BufferConservation == BW!BufferConservation

\* No ensure() or check_iou() ends either bandwidth server or zc_recv
\* (nor does bytes_since_last.at), and the ping-pong client never returns
\* on an error completion.
NoAbort == BW!NoAbort /\ EP!NoAbort /\ PP!NoAbort /\ ZR!NoAbort

\* Under stop_after_last neither bandwidth server leaves while a
\* connection the client opened is still unserved; the ping-pong server
\* leaves only after the client has closed; zc_recv leaves its loop only
\* after its peer has closed and every byte sent has been counted, though
\* a res-0 completion both ends a used-up recv and reports EOF.
ServedOnExit == BW!ServedOnExit /\ EP!ServedOnExit /\ PP!ServedOnExit /\ ZR!ServedOnExit

\* epoll_client: a connection with can_send clear always has an EPOLLOUT
\* event queued or coming (EpollBw).
NoLostWakeup == EP!NoLostWakeup

\* epoll_server: exit(0) is called by one thread only (EpollBw).
ExitOnce == EP!ExitOnce

\* ping-pong: while a send of buf is pending, no message waits for the
\* recv that shares buf (PingPong).
BufExclusive == PP!BufExclusive

\* The chosen server eventually leaves (and, for epoll and ping-pong, the
\* client too).
AllExit == <>(\/ server = "server_bw" /\ BW!Finished
              \/ server = "epoll" /\ EP!Done
              \/ server = "pingpong" /\ PP!Done
              \/ server = "zc_recv" /\ ZR!Done)
=============================================================================

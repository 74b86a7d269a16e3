------------------------------ MODULE PingPong ------------------------------
(***************************************************************************)
(* src/src/server.cpp and src/src/client.cpp over TCP: one connection,    *)
(* each end a single thread looping on its own io_uring.                  *)
(*                                                                         *)
(* The client connects, sets TCP_NODELAY, and queues the linked chain     *)
(* setsockopt(143) -> send(2) -> recv(1) (no recv unless pingpong).  Its  *)
(* loop tests the stopper, submits and waits for one completion, and for  *)
(* each CQE: an error returns 1; the ud_action completion (the recv,      *)
(* or the send when not pingpong) counts an op and queues the next send   *)
(* and, if pingpong, the next recv, both into the one buf.                *)
(*                                                                         *)
(* The server accepts, sets TCP_NODELAY through the ring (waiting for the *)
(* CQE without marking it seen), queues the first recv, and loops: for    *)
(* each CQE an error returns 0; a recv completion (done if it read 0)     *)
(* queues the pong send, if pingpong, and the next recv, both on buf;     *)
(* every CQE counts in total_recv; after the batch, done leaves.          *)
(*                                                                         *)
(* A message of ping_size bytes is one unit; MSG_WAITALL makes each recv  *)
(* and send move exactly one.  A process that ends closes its socket:     *)
(* a FIN, or a RST when unread data is left; its ring's requests die      *)
(* with it.  A send to a peer that has closed is accepted and answered    *)
(* by a RST, which later requests on the connection return as an error.   *)
(***************************************************************************)
EXTENDS Naturals, Sequences, SequencesExt

CONSTANTS
    Modes,      \* configurations: [pingpong, zc] (zc: reg_bufs, send_zc_fixed)
    SockCap,    \* messages a socket's receive buffer holds
    MaxOps      \* bound on the client's ops: the stopper ends the loop by then

Sides == {"client", "server"}
Peer(s) == IF s = "client" THEN "server" ELSE "client"

\* The requests: setsockopt (user data 143), send (2), recv (1), and the
\* zero-copy send's notification (2).
Op(kind, ud, link) == [op |-> kind, ud |-> ud, link |-> link]
NoDelay == Op("nodelay", 143, TRUE)
Recv    == Op("recv", 1, FALSE)
Send    == Op("send", 2, FALSE)
Notif   == Op("notif", 2, FALSE)

VARIABLES
    mode,       \* the configuration both processes run
    pc,         \* [Sides -> control point]
    sq,         \* [Sides -> requests prepared, not yet submitted]
    io,         \* [Sides -> requests in the kernel, in submission order]
    cq,         \* [Sides -> completions not yet consumed: [ud, res]]
    rx,         \* [Sides -> messages in that end's socket receive buffer]
    closed,     \* [Sides -> the process has ended and its socket is closed]
    rst,        \* [Sides -> a RST has reached that end]
    ops,        \* the client's ops
    totalRecv,  \* the server's total_recv
    done        \* the server's done

vars == <<mode, pc, sq, io, cq, rx, closed, rst, ops, totalRecv, done>>

\* The client's chain, queued after connect_to and set_nodelay: each
\* request carries IOSQE_IO_LINK.
ClientChain(m) ==
    <<NoDelay, [Send EXCEPT !.link = TRUE]>>
    \o (IF m.pingpong THEN <<[Recv EXCEPT !.link = TRUE]>> ELSE <<>>)

\* The client is connected and at its loop; the server is about to accept.
Init ==
    /\ mode \in Modes
    /\ pc = [s \in Sides |-> IF s = "client" THEN "top" ELSE "setup"]
    /\ sq = [s \in Sides |-> IF s = "client" THEN ClientChain(mode) ELSE <<>>]
    /\ io = [s \in Sides |-> <<>>]
    /\ cq = [s \in Sides |-> <<>>]
    /\ rx = [s \in Sides |-> 0]
    /\ closed = [s \in Sides |-> FALSE]
    /\ rst = [s \in Sides |-> FALSE]
    /\ ops = 0 /\ totalRecv = 0 /\ done = FALSE

\* The end of process s: its socket closes with a RST to the peer if data
\* is left unread, with a FIN otherwise; io_uring_queue_exit (or exit)
\* drops its requests.
Close(s, to) ==
    /\ pc' = [pc EXCEPT ![s] = to]
    /\ closed' = [closed EXCEPT ![s] = TRUE]
    /\ rst' = IF rx[s] > 0 THEN [rst EXCEPT ![Peer(s)] = TRUE] ELSE rst
    /\ io' = [io EXCEPT ![s] = <<>>]

\* io_uring_submit_and_wait, first half: the prepared requests enter the
\* kernel.
Submit(s) == /\ io' = [io EXCEPT ![s] = @ \o sq[s]]
             /\ sq' = [sq EXCEPT ![s] = <<>>]
             /\ pc' = [pc EXCEPT ![s] = "wait"]

\* ... and the wait for one completion.
Wait(s) == /\ pc[s] = "wait" /\ cq[s] # <<>>
           /\ pc' = [pc EXCEPT ![s] = "reap"]
           /\ UNCHANGED <<mode, sq, io, cq, rx, closed, rst, ops, totalRecv, done>>

\* ---- client.cpp ---------------------------------------------------------

\* while (stopper.can_run()): the duration may end at any test; MaxOps
\* bounds the ops before it does.
ClientTop ==
    /\ pc["client"] = "top"
    /\ \/ Close("client", "exited") /\ UNCHANGED <<sq, cq>>
       \/ ops < MaxOps /\ Submit("client") /\ UNCHANGED <<cq, closed, rst>>
    /\ UNCHANGED <<mode, rx, ops, totalRecv, done>>

\* The send completion counts the op whatever the mode.
UdActionSend == 2

\* The completion that counts an op and sends again.
UdAction == IF mode.pingpong THEN 1 ELSE 2

\* The client's requests after an op: the next send and, if pingpong,
\* the next recv.
Rearm == <<Send>> \o (IF mode.pingpong THEN <<Recv>> ELSE <<>>)

\* One CQE of io_uring_for_each_cqe.
ClientReap ==
    /\ pc["client"] = "reap" /\ cq["client"] # <<>>
    /\ LET c == Head(cq["client"]) IN
       \/ c.res < 0 /\ Close("client", "aborted")
          /\ UNCHANGED <<sq, cq, ops>>
       \/ c.res >= 0 /\ c.ud = UdAction
          /\ ops' = ops + 1
          /\ sq' = [sq EXCEPT !["client"] = @ \o Rearm]
          /\ cq' = [cq EXCEPT !["client"] = Tail(@)]
          /\ UNCHANGED <<pc, io, closed, rst>>
       \/ c.res >= 0 /\ c.ud # UdAction
          /\ cq' = [cq EXCEPT !["client"] = Tail(@)]
          /\ UNCHANGED <<pc, sq, io, closed, rst, ops>>
    /\ UNCHANGED <<mode, rx, totalRecv, done>>

\* The batch is over: io_uring_cq_advance and back to the loop test.
ClientReapEnd ==
    /\ pc["client"] = "reap" /\ cq["client"] = <<>>
    /\ pc' = [pc EXCEPT !["client"] = "top"]
    /\ UNCHANGED <<mode, sq, io, cq, rx, closed, rst, ops, totalRecv, done>>

\* ---- server.cpp ---------------------------------------------------------

\* accept, then setsockopt(TCP_NODELAY) through the ring: its CQE is
\* waited for and never marked seen, so the loop's first batch finds it.
\* Then the first recv is prepared.
ServerSetup ==
    /\ pc["server"] = "setup"
    /\ pc' = [pc EXCEPT !["server"] = "top"]
    /\ cq' = [cq EXCEPT !["server"] = <<[ud |-> 143, res |-> 0]>>]
    /\ sq' = [sq EXCEPT !["server"] = <<Recv>>]
    /\ UNCHANGED <<mode, io, rx, closed, rst, ops, totalRecv, done>>

ServerTop ==
    /\ pc["server"] = "top"
    /\ Submit("server")
    /\ UNCHANGED <<mode, cq, rx, closed, rst, ops, totalRecv, done>>

\* The server's requests after a recv completion: the pong, if pingpong,
\* and the next recv.
Pong == (IF mode.pingpong THEN <<Send>> ELSE <<>>) \o <<Recv>>

ServerReap ==
    /\ pc["server"] = "reap" /\ cq["server"] # <<>>
    /\ LET c == Head(cq["server"]) IN
       \/ c.res < 0 /\ Close("server", "exited")
          /\ UNCHANGED <<sq, cq, totalRecv, done>>
       \/ c.res >= 0 /\ c.ud = 1
          /\ done' = (done \/ c.res = 0)
          /\ sq' = [sq EXCEPT !["server"] = @ \o Pong]
          /\ cq' = [cq EXCEPT !["server"] = Tail(@)]
          /\ totalRecv' = totalRecv + 1
          /\ UNCHANGED <<pc, io, closed, rst>>
       \/ c.res >= 0 /\ c.ud # 1
          /\ cq' = [cq EXCEPT !["server"] = Tail(@)]
          /\ totalRecv' = totalRecv + 1
          /\ UNCHANGED <<pc, sq, io, closed, rst, done>>
    /\ UNCHANGED <<mode, rx, ops>>

\* After the batch: done breaks the loop and the server leaves.
ServerReapEnd ==
    /\ pc["server"] = "reap" /\ cq["server"] = <<>>
    /\ \/ done /\ Close("server", "exited") /\ UNCHANGED sq
       \/ ~done /\ pc' = [pc EXCEPT !["server"] = "top"]
          /\ UNCHANGED <<io, closed, rst, sq>>
    /\ UNCHANGED <<mode, cq, rx, ops, totalRecv, done>>

\* ---- the kernel -----------------------------------------------------------

\* Request i of s may run: the one before it is not linked to it, and it
\* is the oldest of its kind (a socket serves sends, and recvs, in order).
Eligible(s, i) ==
    /\ i > 1 => ~io[s][i-1].link
    /\ \A j \in 1..i-1 : io[s][j].op # io[s][i].op

Complete(s, i, res) ==
    /\ io' = [io EXCEPT ![s] = RemoveAt(@, i)
                              \o (IF io[s][i].op = "send" /\ mode.zc THEN <<Notif>> ELSE <<>>)]
    /\ cq' = [cq EXCEPT ![s] = Append(@, [ud |-> io[s][i].ud, res |-> res])]

\* A recv takes a message, else fails after a RST, else reads 0 after the
\* peer's FIN; with none of these it waits.
KRecv(s, i) ==
    /\ io[s][i].op = "recv"
    /\ \/ rx[s] > 0 /\ rx' = [rx EXCEPT ![s] = @ - 1] /\ Complete(s, i, 1)
       \/ rx[s] = 0 /\ rst[s] /\ Complete(s, i, -1) /\ UNCHANGED rx
       \/ rx[s] = 0 /\ ~rst[s] /\ closed[Peer(s)] /\ Complete(s, i, 0) /\ UNCHANGED rx
    /\ UNCHANGED rst

\* A send fails after a RST; to a closed peer it is accepted and draws a
\* RST; otherwise it waits for room in the peer's receive buffer.
KSend(s, i) ==
    /\ io[s][i].op = "send"
    /\ \/ rst[s] /\ Complete(s, i, -1) /\ UNCHANGED <<rx, rst>>
       \/ ~rst[s] /\ closed[Peer(s)] /\ Complete(s, i, 1)
          /\ rst' = [rst EXCEPT ![s] = TRUE] /\ UNCHANGED rx
       \/ ~rst[s] /\ ~closed[Peer(s)] /\ rx[Peer(s)] < SockCap
          /\ rx' = [rx EXCEPT ![Peer(s)] = @ + 1] /\ Complete(s, i, 1)
          /\ UNCHANGED rst

\* setsockopt, and the zero-copy notification once the buffer is released.
KOther(s, i) ==
    /\ io[s][i].op \in {"nodelay", "notif"}
    /\ Complete(s, i, 0)
    /\ UNCHANGED <<rx, rst>>

Kernel(s) ==
    /\ ~closed[s]
    /\ \E i \in DOMAIN io[s] :
          Eligible(s, i) /\ (KRecv(s, i) \/ KSend(s, i) \/ KOther(s, i))
    /\ UNCHANGED <<mode, pc, sq, closed, ops, totalRecv, done>>

Done == pc["client"] \in {"exited", "aborted"} /\ pc["server"] = "exited"

Terminated == Done /\ UNCHANGED vars

Next ==
    \/ ClientTop \/ ClientReap \/ ClientReapEnd
    \/ ServerSetup \/ ServerTop \/ ServerReap \/ ServerReapEnd
    \/ \E s \in Sides : Wait(s) \/ Kernel(s)
    \/ Terminated

Spec == Init /\ [][Next]_vars

\* Every loop step and request runs once it can; the duration elapses.
LiveSpec ==
    /\ Spec
    /\ WF_vars(ClientTop) /\ WF_vars(ClientReap) /\ WF_vars(ClientReapEnd)
    /\ WF_vars(ServerSetup) /\ WF_vars(ServerTop) /\ WF_vars(ServerReap)
    /\ WF_vars(ServerReapEnd)
    /\ \A s \in Sides : WF_vars(Wait(s)) /\ WF_vars(Kernel(s))

\* ---- properties -----------------------------------------------------------

\* s has a send that has not yet taken its message from buf.
SendPending(s) == \E r \in ToSet(sq[s]) \cup ToSet(io[s]) : r.op = "send"

TypeOK ==
    /\ mode \in Modes
    /\ pc \in [Sides -> {"setup", "top", "wait", "reap", "exited", "aborted"}]
    /\ \A s \in Sides : \A r \in ToSet(sq[s]) \cup ToSet(io[s]) :
          r \in {NoDelay, Recv, Send, Notif, [Send EXCEPT !.link = TRUE],
                 [Recv EXCEPT !.link = TRUE]}
    /\ \A s \in Sides : \A c \in ToSet(cq[s]) : c.ud \in {1, 2, 143} /\ c.res \in -1..1
    /\ rx \in [Sides -> 0..SockCap]
    /\ closed \in [Sides -> BOOLEAN] /\ rst \in [Sides -> BOOLEAN]
    /\ ops \in 0..MaxOps /\ totalRecv \in Nat /\ done \in BOOLEAN

\* Both ends send from buf and receive into the same buf with the send and
\* the next recv in flight together (server.cpp's pong and new recv,
\* client.cpp's ping and recv).  Only the ping-pong exchange keeps the
\* recv from overwriting buf before the send has taken it: while a live
\* process has a send prepared or in the kernel, no message is waiting
\* for its recv.
BufExclusive ==
    \A s \in Sides : ~closed[s] /\ SendPending(s) => rx[s] = 0

\* The client never returns 1 on an error completion: the server never
\* closes the connection while the client still uses it.
NoAbort == pc["client"] # "aborted"

\* The server leaves only after the client has closed its end.
ServedOnExit == pc["server"] = "exited" => closed["client"]
=============================================================================

------------------------------ MODULE EpollBw -------------------------------
(***************************************************************************)
(* src/src/epoll_server.cpp receiving from src/src/epoll_client.cpp.       *)
(*                                                                         *)
(* The server's T Workers each wait in epoll_wait on their own epoll fd.  *)
(* Worker 0 (main's thread) also has the listening socket: it accepts     *)
(* until EAGAIN and hands each connection, round robin, to a worker's     *)
(* epoll with EPOLLIN | EPOLLONESHOT.  handle_client does one recv and    *)
(* re-arms the fd, or on end of stream closes it and decrements the       *)
(* atomic open_conns; under stop_after_last it then reads open_conns      *)
(* again and calls exit(0) when it is 0.                                   *)
(*                                                                         *)
(* The client's CW Workers each connect K connections in their            *)
(* constructor, registered with EPOLLOUT | EPOLLET, and loop: a pass      *)
(* sends on every connection whose can_send is set (clearing it on        *)
(* EAGAIN), and only a pass that met a blocked connection waits in        *)
(* epoll_wait, whose EPOLLOUT events set can_send again.  After the       *)
(* duration main requests stop and destroys the Workers in order: each    *)
(* destructor joins its thread and closes its connections.                *)
(*                                                                         *)
(* Bytes are abstracted to units: a socket holds up to SockCap units, a   *)
(* send adds and a recv takes at least one.  The kernel's EPOLLOUT edge   *)
(* is modelled as TCP raises it: a send that meets a full socket sets     *)
(* SOCK_NOSPACE (nospace), and the next read that frees space wakes the   *)
(* epoll entry (edge).  Registration finds the socket writable and        *)
(* queues one edge as well.                                                *)
(***************************************************************************)
EXTENDS Integers, Sequences, FiniteSets

CONSTANTS
    T,              \* server cfg.num_threads
    CW,             \* client cfg.num_threads
    K,              \* client cfg.conn_per_thread
    SockCap,        \* units a connection's socket buffers hold
    MaxConns,       \* server MAX_CONNS
    StopAfterLast   \* server cfg.stop_after_last

Workers  == 0..T-1
CWorkers == 0..CW-1
\* Connection j is the (j % K)-th of client Worker j \div K; they are
\* connected in this order.
Conns    == 0..CW*K-1
ConnsOf(cw) == {j \in Conns : j \div K = cw}
Listen   == -1

VARIABLES
    sw,         \* [Workers -> server Worker: pc and the events of its epoll_wait]
    nextWorker, \* main's next_worker, captured by on_accept
    nrConns,    \* main's nr_conns
    openConns,  \* the atomic open_conns
    exits,      \* calls of exit(0) made so far
    crash,      \* "none" or the ensure that ended the server
    backlog,    \* Seq(Conns): the listening socket's accept queue
    conn,       \* [Conns -> "none" | "backlog" | "open" | "closed"], server side
    owner,      \* [Conns -> the Worker whose epoll has the fd, or -1]
    armed,      \* [Conns -> whether the fd's EPOLLONESHOT entry is armed]
    sock,       \* [Conns -> units the server has not read]
    eof,        \* [Conns -> the client has closed its end]
    cw,         \* [CWorkers -> client Worker: pc, pass index, blocked]
    canSend,    \* [Conns -> conn->can_send]
    nospace,    \* [Conns -> SOCK_NOSPACE: a send met a full socket]
    edge,       \* [Conns -> an EPOLLOUT event is queued on the client's epoll]
    stop,       \* the client's main has requested stop
    destroyed   \* client Workers destroyed so far (joined, sockets closed)

vars == <<sw, nextWorker, nrConns, openConns, exits, crash, backlog, conn, owner,
          armed, sock, eof, cw, canSend, nospace, edge, stop, destroyed>>

\* Server main up to w->run(): the listening socket, the T Workers (those
\* but worker 0 started, waiting on empty epolls) and on_accept.
Init ==
    /\ sw = [w \in Workers |-> [pc |-> "wait", evs |-> {}]]
    /\ nextWorker = 0 /\ nrConns = 0 /\ openConns = 0 /\ exits = 0
    /\ crash = "none"
    /\ backlog = <<>>
    /\ conn = [j \in Conns |-> "none"] /\ owner = [j \in Conns |-> -1]
    /\ armed = [j \in Conns |-> FALSE] /\ sock = [j \in Conns |-> 0]
    /\ eof = [j \in Conns |-> FALSE]
    /\ cw = [c \in CWorkers |-> [pc |-> "unborn", i |-> 0, blocked |-> FALSE]]
    /\ canSend = [j \in Conns |-> TRUE] /\ nospace = [j \in Conns |-> FALSE]
    /\ edge = [j \in Conns |-> FALSE]
    /\ stop = FALSE /\ destroyed = 0

\* The server runs: no ensure has fired and no thread has called exit.
\* (Once exit(0) unwinds the process the model stops the server's other
\* threads at their next epoll_wait or event, except a thread already
\* past its decrement, which still reads open_conns.)
Up == crash = "none" /\ exits = 0

-----------------------------------------------------------------------------
(* Server.                                                                 *)

\* The fds epoll_wait reports to worker w: armed connections with data or
\* end of stream, and for worker 0 the listening socket (level-triggered)
\* while connections are queued.
Ready(w) ==
    {j \in Conns : owner[j] = w /\ armed[j] /\ conn[j] = "open" /\ (sock[j] > 0 \/ eof[j])}
    \cup (IF w = 0 /\ backlog # <<>> THEN {Listen} ELSE {})

\* epoll_wait returns every ready fd (fewer than MAX_EVENTS); EPOLLONESHOT
\* disarms the connections it reports.
SWait(w) ==
    /\ Up /\ sw[w].pc = "wait" /\ Ready(w) # {}
    /\ sw' = [sw EXCEPT ![w] = [pc |-> "handle", evs |-> Ready(w)]]
    /\ armed' = [j \in Conns |-> armed[j] /\ j \notin Ready(w)]
    /\ UNCHANGED <<nextWorker, nrConns, openConns, exits, crash, backlog, conn, owner,
                   sock, eof, cw, canSend, nospace, edge, stop, destroyed>>

NextWorker(n) == IF n + 1 = T THEN 0 ELSE n + 1

\* The on_accept lambda: ensure(nr_conns < MAX_CONNS), count the
\* connection, add_client on workers[next_worker] and advance next_worker.
OnAccept(j) ==
    IF nrConns >= MaxConns
    THEN /\ crash' = "max_conns"
         /\ UNCHANGED <<nextWorker, nrConns, openConns, conn, owner, armed>>
    ELSE /\ nrConns' = nrConns + 1
         /\ openConns' = openConns + 1
         /\ conn' = [conn EXCEPT ![j] = "open"]
         /\ owner' = [owner EXCEPT ![j] = nextWorker]
         /\ armed' = [armed EXCEPT ![j] = TRUE]
         /\ nextWorker' = NextWorker(nextWorker)
         /\ UNCHANGED crash

\* One accept of the loop on the listening socket's event.
Accept ==
    /\ Up /\ sw[0].pc = "accept" /\ backlog # <<>>
    /\ OnAccept(Head(backlog))
    /\ backlog' = Tail(backlog)
    /\ UNCHANGED <<sw, exits, sock, eof, cw, canSend, nospace, edge, stop, destroyed>>

\* accept returns EAGAIN: the loop ends.
AcceptDone ==
    /\ Up /\ sw[0].pc = "accept" /\ backlog = <<>>
    /\ sw' = [sw EXCEPT ![0].pc = "handle"]
    /\ UNCHANGED <<nextWorker, nrConns, openConns, exits, crash, backlog, conn, owner,
                   armed, sock, eof, cw, canSend, nospace, edge, stop, destroyed>>

\* A recv that returns data.  Reading frees space in the socket: if a send
\* has met it full, TCP's write-space wakeup queues EPOLLOUT on the
\* client's epoll.
Recv(j) ==
    /\ \E n \in 1..sock[j] : sock' = [sock EXCEPT ![j] = @ - n]
    /\ nospace' = [nospace EXCEPT ![j] = FALSE]
    /\ edge' = [edge EXCEPT ![j] = @ \/ nospace[j]]

\* handle_client(fd): recv; with data, add it up and re-arm the fd
\* (EPOLL_CTL_MOD); at end of stream close it, decrement open_conns and go
\* on to the stop_after_last test.
HandleClient(w, j) ==
    \/ /\ sock[j] > 0
       /\ Recv(j)
       /\ armed' = [armed EXCEPT ![j] = TRUE]
       /\ sw' = [sw EXCEPT ![w].evs = @ \ {j}]
       /\ UNCHANGED <<conn, openConns>>
    \/ /\ sock[j] = 0 /\ eof[j]
       /\ conn' = [conn EXCEPT ![j] = "closed"]
       /\ openConns' = openConns - 1
       /\ sw' = [sw EXCEPT ![w] = [pc |-> "check", evs |-> @.evs \ {j}]]
       /\ UNCHANGED <<armed, sock, nospace, edge>>

\* The loop over the events of one epoll_wait, in any order.
SHandle(w) ==
    /\ Up /\ sw[w].pc = "handle"
    /\ \E e \in sw[w].evs :
         IF e = Listen
         THEN /\ sw' = [sw EXCEPT ![w] = [pc |-> "accept", evs |-> @.evs \ {e}]]
              /\ UNCHANGED <<armed, sock, conn, openConns, nospace, edge>>
         ELSE HandleClient(w, e)
    /\ UNCHANGED <<nextWorker, nrConns, exits, crash, backlog, owner, eof,
                   cw, canSend, stop, destroyed>>

SHandleDone(w) ==
    /\ Up /\ sw[w].pc = "handle" /\ sw[w].evs = {}
    /\ sw' = [sw EXCEPT ![w].pc = "wait"]
    /\ UNCHANGED <<nextWorker, nrConns, openConns, exits, crash, backlog, conn, owner,
                   armed, sock, eof, cw, canSend, nospace, edge, stop, destroyed>>

\* if (cfg.stop_after_last) if (open_conns == 0) exit(0): a second load of
\* the atomic, separate from the decrement.  exit(0) ends the calling
\* thread's run; the other threads run on while exit unwinds the process.
StopTest(w) ==
    IF StopAfterLast /\ openConns = 0
    THEN /\ exits' = exits + 1
         /\ sw' = [sw EXCEPT ![w].pc = "exit"]
    ELSE /\ sw' = [sw EXCEPT ![w].pc = "handle"]
         /\ UNCHANGED exits

Check(w) ==
    /\ crash = "none" /\ sw[w].pc = "check"
    /\ StopTest(w)
    /\ UNCHANGED <<nextWorker, nrConns, openConns, crash, backlog, conn, owner,
                   armed, sock, eof, cw, canSend, nospace, edge, stop, destroyed>>

-----------------------------------------------------------------------------
(* Client.                                                                 *)

\* Worker(id)'s constructor: connect_to the next connection (it waits in
\* the server's accept queue), then EPOLL_CTL_ADD with EPOLLOUT | EPOLLET,
\* which finds the socket writable and queues an event.  After its last
\* connection main starts the Worker's thread.
Connect(j) ==
    /\ conn[j] = "none" /\ \A i \in 0..j-1 : conn[i] # "none"
    /\ crash = "none"
    /\ conn' = [conn EXCEPT ![j] = "backlog"]
    /\ backlog' = Append(backlog, j)
    /\ edge' = [edge EXCEPT ![j] = TRUE]
    /\ cw' = IF j % K = K - 1 THEN [cw EXCEPT ![j \div K].pc = "top"] ELSE cw
    /\ UNCHANGED <<sw, nextWorker, nrConns, openConns, exits, crash, owner, armed,
                   sock, eof, canSend, nospace, stop, destroyed>>

\* The duration elapses and main calls request_stop on every Worker.  The
\* connections were accepted by then (the server accepts within
\* microseconds; the duration is seconds).
RequestStop ==
    /\ ~stop /\ \A j \in Conns : conn[j] \in {"open", "closed"}
    /\ stop' = TRUE
    /\ UNCHANGED <<sw, nextWorker, nrConns, openConns, exits, crash, backlog, conn,
                   owner, armed, sock, eof, cw, canSend, nospace, edge, destroyed>>

CUnchanged == UNCHANGED <<sw, nextWorker, nrConns, openConns, exits, crash, backlog,
                          conn, owner, armed, eof, stop, destroyed>>

\* The top of run's loop: leave on a stop request, else start a pass.
ClientTop(c) ==
    /\ cw[c].pc = "top"
    /\ cw' = [cw EXCEPT ![c] = IF stop THEN [@ EXCEPT !.pc = "exit"]
                                ELSE [pc |-> "pass", i |-> 0, blocked |-> FALSE]]
    /\ CUnchanged /\ UNCHANGED <<sock, canSend, nospace, edge>>

ClientSend(c) ==
    /\ cw[c].pc = "pass" /\ cw[c].i < K
    /\ LET j == c * K + cw[c].i IN
       \/ /\ ~canSend[j]
          /\ cw' = [cw EXCEPT ![c].blocked = TRUE, ![c].i = @ + 1]
          /\ UNCHANGED <<sock, canSend, nospace>>
       \/ /\ canSend[j] /\ sock[j] < SockCap
          /\ \E n \in 1..(SockCap - sock[j]) : sock' = [sock EXCEPT ![j] = @ + n]
          /\ cw' = [cw EXCEPT ![c].i = @ + 1]
          /\ UNCHANGED <<canSend, nospace>>
       \/ /\ canSend[j] /\ sock[j] = SockCap
          /\ canSend' = [canSend EXCEPT ![j] = FALSE]
          /\ nospace' = [nospace EXCEPT ![j] = TRUE]
          /\ cw' = [cw EXCEPT ![c].i = @ + 1]
          /\ UNCHANGED sock
    /\ CUnchanged /\ UNCHANGED edge

\* After the pass: only a blocked pass waits for EPOLLOUT.
ClientPassEnd(c) ==
    /\ cw[c].pc = "pass" /\ cw[c].i = K
    /\ cw' = [cw EXCEPT ![c].pc = IF cw[c].blocked THEN "wait" ELSE "top"]
    /\ CUnchanged /\ UNCHANGED <<sock, canSend, nospace, edge>>

\* epoll_wait returns the queued EPOLLOUT events; each sets can_send.
ClientWait(c) ==
    /\ cw[c].pc = "wait" /\ \E j \in ConnsOf(c) : edge[j]
    /\ canSend' = [j \in Conns |-> canSend[j] \/ (j \in ConnsOf(c) /\ edge[j])]
    /\ edge' = [j \in Conns |-> edge[j] /\ j \notin ConnsOf(c)]
    /\ cw' = [cw EXCEPT ![c].pc = "top"]
    /\ CUnchanged /\ UNCHANGED <<sock, nospace>>

\* main returns; the workers vector destroys Worker 0, 1, ...: each
\* destructor joins the thread, then closes its connections.
ClientDestroy ==
    /\ stop /\ destroyed < CW /\ cw[destroyed].pc = "exit"
    /\ eof' = [j \in Conns |-> eof[j] \/ j \in ConnsOf(destroyed)]
    /\ destroyed' = destroyed + 1
    /\ UNCHANGED <<sw, nextWorker, nrConns, openConns, exits, crash, backlog, conn,
                   owner, armed, sock, cw, canSend, nospace, edge, stop>>

-----------------------------------------------------------------------------
\* The server has exited (or aborted) after the client closed everything.
Done == (exits > 0 \/ crash # "none") /\ destroyed = CW

Terminated == Done /\ UNCHANGED vars

Next ==
    \/ \E w \in Workers : SWait(w) \/ SHandle(w) \/ SHandleDone(w) \/ Check(w)
    \/ Accept \/ AcceptDone
    \/ \E j \in Conns : Connect(j)
    \/ RequestStop \/ ClientDestroy
    \/ \E c \in CWorkers : ClientTop(c) \/ ClientSend(c) \/ ClientPassEnd(c) \/ ClientWait(c)
    \/ Terminated

Spec == Init /\ [][Next]_vars

\* Every thread of both programs is scheduled; the duration ends.
LiveSpec ==
    /\ Spec
    /\ \A w \in Workers : WF_vars(SWait(w)) /\ WF_vars(SHandle(w))
                          /\ WF_vars(SHandleDone(w)) /\ WF_vars(Check(w))
    /\ WF_vars(Accept) /\ WF_vars(AcceptDone) /\ WF_vars(RequestStop)
    /\ WF_vars(ClientDestroy)
    /\ \A j \in Conns : WF_vars(Connect(j))
    /\ \A c \in CWorkers : WF_vars(ClientTop(c)) /\ WF_vars(ClientSend(c))
                           /\ WF_vars(ClientPassEnd(c)) /\ WF_vars(ClientWait(c))

-----------------------------------------------------------------------------
TypeOK ==
    /\ sw \in [Workers -> [pc : {"wait", "handle", "accept", "check", "exit"},
                           evs : SUBSET (Conns \cup {Listen})]]
    /\ nextWorker \in Workers /\ nrConns \in 0..MaxConns
    /\ openConns \in 0..CW*K /\ exits \in 0..T
    /\ crash \in {"none", "max_conns"}
    /\ backlog \in Seq(Conns)
    /\ conn \in [Conns -> {"none", "backlog", "open", "closed"}]
    /\ owner \in [Conns -> Workers \cup {-1}]
    /\ armed \in [Conns -> BOOLEAN] /\ sock \in [Conns -> 0..SockCap]
    /\ eof \in [Conns -> BOOLEAN]
    /\ cw \in [CWorkers -> [pc : {"unborn", "top", "pass", "wait", "exit"},
                            i : 0..K, blocked : BOOLEAN]]
    /\ canSend \in [Conns -> BOOLEAN] /\ nospace \in [Conns -> BOOLEAN]
    /\ edge \in [Conns -> BOOLEAN] /\ stop \in BOOLEAN /\ destroyed \in 0..CW

\* No ensure (nr_conns < MAX_CONNS) ends the server.
NoAbort == crash = "none"

(***************************************************************************)
(* The client never waits in epoll_wait for a wakeup that cannot come:    *)
(* every connection whose can_send is clear has an EPOLLOUT event queued, *)
(* or met a full socket that the server has yet to read, whose read will  *)
(* queue one.  Edge triggering reports a transition only once, so an      *)
(* event consumed or raised at the wrong time would leave the pass        *)
(* blocked for good.                                                       *)
(***************************************************************************)
NoLostWakeup ==
    \A j \in Conns : ~canSend[j] => edge[j] \/ (nospace[j] /\ sock[j] > 0)

(***************************************************************************)
(* stop_after_last: when a thread calls exit(0), every connection the     *)
(* client opened has been accepted, read to its end and closed; a         *)
(* decrement and test of open_conns in either order across two workers    *)
(* must not let the count reach 0 early.                                   *)
(***************************************************************************)
ServedOnExit == exits > 0 => \A j \in Conns : conn[j] = "closed"

(***************************************************************************)
(* exit(0) is called once: it is not thread-safe (glibc: MT-Unsafe         *)
(* race:exit), and a second call runs the atexit handlers and static      *)
(* destructors, StatsPrinter's among them, concurrently with the first.   *)
(***************************************************************************)
ExitOnce == exits <= 1

\* Both programs finish: the client's Workers are destroyed and the server
\* exits after the last connection.
AllExit == <>Done
====

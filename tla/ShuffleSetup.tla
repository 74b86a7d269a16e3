---------------------------- MODULE ShuffleSetup ----------------------------
(***************************************************************************)
(* The start of a shuffle in src/src/shuffle/shufflev2.cpp: do_benchmark   *)
(* on every node, the TCPBarrier between the nodes' main threads, and the  *)
(* connection set-up of Worker::init (the EpollWorker's init makes the     *)
(* same connections).  A node's main thread listens on cfg.port - 1,       *)
(* connects to every higher node and accepts one connection from every     *)
(* lower one; it then starts cfg.num_workers worker threads and meets them *)
(* at a pthread barrier of num_workers + 1 threads, twice, with           *)
(* TCPBarrier::wait between the two waits.  Worker wid of a node listens  *)
(* on cfg.port + wid, connects nr_conns times to worker wid of every      *)
(* higher node, sending its node id on each connection, and accepts       *)
(* nr_conns connections from every lower node, telling them apart by the  *)
(* id it reads.  After the second barrier wait the worker runs the        *)
(* shuffle, which Shuffle and ShuffleEpoll model from that point on.      *)
(*                                                                         *)
(* connect_to makes `retries` attempts 100 ms apart and throws when none  *)
(* found the port listening; a thrown exception or a failed ensure() ends *)
(* the whole process (Abort).  The peers of a process that ended see its  *)
(* connections closed: a recv returns 0 and a send may fail.              *)
(***************************************************************************)
EXTENDS Integers, Sequences, FiniteSets

CONSTANTS
    P,          \* cfg.ips.size(), the nodes
    W,          \* cfg.num_workers, worker threads per node
    C,          \* cfg.nr_conns, connections per pair of workers
    Retries     \* the retries argument of connect_to (100 in the code)

ASSUME P >= 2 /\ W >= 1 /\ C >= 1 /\ Retries >= 1

Nodes == 0..(P - 1)
Wids  == 0..(W - 1)
Conns == 0..(C - 1)
\* The listening ports: cfg.port - 1 for the TCPBarrier, cfg.port + wid
\* for worker wid.
BarrierPort == -1
Ports == {BarrierPort} \cup Wids

\* A connection waiting in a listen backlog: the connecting node and, for
\* a worker connection, the wid and the index of the connection.
Link(from, w, c) == [from |-> from, w |-> w, c |-> c]
Links == {Link(f, BarrierPort, -1) : f \in Nodes} \cup
         {Link(f, w, c) : f \in Nodes, w \in Wids, c \in Conns}
NoLink == Link(-1, -1, -1)

\* Mutant: the barrier initialised with num_workers, leaving out main.
BarrierCountNoMain == W

\* The pthread barrier, initialised with num_workers + 1.
BarrierCount == W + 1

VARIABLES
    main,       \* per node: do_benchmark's thread
    wrk,        \* per node and wid: the worker thread
    listening,  \* the <<node, port>> that have called listen()
    backlog,    \* per <<node, port>>: connections not yet accepted
    idSent,     \* worker links on which the connector sent its id
    tbSent,     \* <<from, to>>: the int TCPBarrier::wait sent
    pb,         \* per node: the pthread barrier (arrived, generation)
    aborted     \* the nodes whose process has ended

vars == <<main, wrk, listening, backlog, idSent, tbSent, pb, aborted>>

MainPcs == {"off", "connect", "accept", "spawn", "pb1", "wait1",
            "send", "recv", "pb2", "wait2", "join"}
WorkerPcs == {"new", "listen", "connect", "sendid", "accept", "recvid",
              "pb1", "wait1", "pb2", "wait2", "run"}

TypeOK ==
    /\ main \in [Nodes -> [pc : MainPcs, i : 0..P, tries : 1..Retries,
                           conns : Seq(Nodes), k : 1..P]]
    /\ wrk \in [Nodes \X Wids -> [pc : WorkerPcs, i : 0..P, c : Conns,
                                  tries : 1..Retries, cur : Links \cup {NoLink},
                                  cidx : [Nodes -> 0..C]]]
    /\ listening \subseteq Nodes \X Ports
    /\ backlog \in [Nodes \X Ports -> Seq(Links)]
    /\ idSent \subseteq Links \X Nodes
    /\ tbSent \subseteq Nodes \X Nodes
    /\ pb \in [Nodes -> [arrived : 0..W, gen : 0..2]]
    /\ aborted \subseteq Nodes

Init ==
    /\ main = [n \in Nodes |-> [pc |-> "off", i |-> n + 1, tries |-> Retries,
                                conns |-> <<>>, k |-> 1]]
    /\ wrk = [t \in Nodes \X Wids |-> [pc |-> "new", i |-> t[1] + 1, c |-> 0,
                                       tries |-> Retries, cur |-> NoLink,
                                       cidx |-> [m \in Nodes |-> 0]]]
    /\ listening = {}
    /\ backlog = [q \in Nodes \X Ports |-> <<>>]
    /\ idSent = {}
    /\ tbSent = {}
    /\ pb = [n \in Nodes |-> [arrived |-> 0, gen |-> 0]]
    /\ aborted = {}

Alive(n) == n \notin aborted

(***************************************************************************)
(* The process of node n ends (an uncaught throw_sys of connect_to or a    *)
(* failed ensure): its listening sockets go away with it.                  *)
(***************************************************************************)
Abort(n) ==
    /\ aborted' = aborted \cup {n}
    /\ listening' = {q \in listening : q[1] # n}
    /\ UNCHANGED <<main, wrk, backlog, idSent, tbSent, pb>>

(***************************************************************************)
(* One attempt of connect_to(ip of node i, port): it is refused unless     *)
(* node i listens on the port.  A refused attempt sleeps and tries again, *)
(* and after the last one connect_to throws (the caller's Abort).         *)
(***************************************************************************)
Refused(i, port) == <<i, port>> \notin listening

Queue(i, port, lnk) == backlog' = [backlog EXCEPT ![<<i, port>>] = Append(@, lnk)]

-----------------------------------------------------------------------------
(***************************************************************************)
(* do_benchmark's thread.                                                  *)
(***************************************************************************)

\* The process starts; TCPBarrier's constructor listens on cfg.port - 1.
Start(n) ==
    /\ main[n].pc = "off"
    /\ listening' = listening \cup {<<n, BarrierPort>>}
    /\ main' = [main EXCEPT ![n].pc = IF n + 1 < P THEN "connect"
                                      ELSE IF n > 0 THEN "accept" ELSE "spawn"]
    /\ UNCHANGED <<wrk, backlog, idSent, tbSent, pb, aborted>>

\* The first loop of TCPBarrier(): connect_to every higher node.
MainConnect(n) ==
    LET m == main[n]
        next == IF m.i + 1 < P THEN "connect" ELSE IF n > 0 THEN "accept" ELSE "spawn"
    IN /\ m.pc = "connect"
       /\ \/ /\ ~Refused(m.i, BarrierPort)
             /\ Queue(m.i, BarrierPort, Link(n, BarrierPort, -1))
             /\ main' = [main EXCEPT ![n] = [m EXCEPT !.pc = next, !.i = @ + 1,
                                     !.tries = Retries, !.conns = Append(@, m.i)]]
             /\ UNCHANGED <<listening, aborted>>
          \/ /\ Refused(m.i, BarrierPort) /\ m.tries > 1
             /\ main' = [main EXCEPT ![n].tries = @ - 1]
             /\ UNCHANGED <<listening, backlog, aborted>>
          \/ /\ Refused(m.i, BarrierPort) /\ m.tries = 1
             /\ Abort(n)
       /\ UNCHANGED <<wrk, idSent, tbSent, pb>>

\* The second loop: accept my_id connections, in the order they arrive.
MainAccept(n) ==
    /\ main[n].pc = "accept"
    /\ backlog[<<n, BarrierPort>>] # <<>>
    /\ LET from == Head(backlog[<<n, BarrierPort>>]).from
           conns == Append(main[n].conns, from)
       IN main' = [main EXCEPT ![n].conns = conns,
                               ![n].pc = IF Len(conns) = P - 1 THEN "spawn" ELSE "accept"]
    /\ backlog' = [backlog EXCEPT ![<<n, BarrierPort>>] = Tail(@)]
    /\ UNCHANGED <<wrk, listening, idSent, tbSent, pb, aborted>>

\* pthread_barrier_init and tp.parallel_n: the workers start their init.
Spawn(n) ==
    /\ main[n].pc = "spawn"
    /\ main' = [main EXCEPT ![n].pc = "pb1"]
    /\ wrk' = [t \in DOMAIN wrk |-> IF t[1] = n THEN [wrk[t] EXCEPT !.pc = "listen"]
                                   ELSE wrk[t]]
    /\ UNCHANGED <<listening, backlog, idSent, tbSent, pb, aborted>>

(***************************************************************************)
(* pthread_barrier_wait: the last of BarrierCount threads to arrive opens  *)
(* the next generation; a waiting thread leaves once its generation is    *)
(* open.  Arrive(n) is the barrier after one more arrival.                 *)
(***************************************************************************)
Arrive(n) ==
    IF pb[n].arrived + 1 = BarrierCount
    THEN [arrived |-> 0, gen |-> pb[n].gen + 1]
    ELSE [pb[n] EXCEPT !.arrived = @ + 1]

\* Mutant: TCPBarrier::wait receives before it sends.
MainBarrierRecvFirst(n) ==
    \/ /\ main[n].pc \in {"pb1", "pb2"}
       /\ pb' = [pb EXCEPT ![n] = Arrive(n)]
       /\ main' = [main EXCEPT ![n].pc = IF @ = "pb1" THEN "wait1" ELSE "wait2"]
    \/ /\ main[n].pc = "wait1" /\ pb[n].gen >= 1
       /\ main' = [main EXCEPT ![n].pc = "recv", ![n].k = 1]
       /\ UNCHANGED pb
    \/ /\ main[n].pc = "wait2" /\ pb[n].gen >= 2
       /\ main' = [main EXCEPT ![n].pc = "join"]
       /\ UNCHANGED pb

MainBarrier(n) ==
    \/ /\ main[n].pc \in {"pb1", "pb2"}
       /\ pb' = [pb EXCEPT ![n] = Arrive(n)]
       /\ main' = [main EXCEPT ![n].pc = IF @ = "pb1" THEN "wait1" ELSE "wait2"]
    \/ /\ main[n].pc = "wait1" /\ pb[n].gen >= 1
       /\ main' = [main EXCEPT ![n].pc = "send", ![n].k = 1]
       /\ UNCHANGED pb
    \/ /\ main[n].pc = "wait2" /\ pb[n].gen >= 2
       /\ main' = [main EXCEPT ![n].pc = "join"]
       /\ UNCHANGED pb

(***************************************************************************)
(* TCPBarrier::wait: send an int on every connection, then recv an int    *)
(* from every connection, in the order of conns.  A send to a process     *)
(* that has ended may fail and a recv from one whose int never came       *)
(* returns 0; either fails the ensure.                                    *)
(***************************************************************************)
MainSend(n) ==
    LET m == main[n]
        to == m.conns[m.k]
    IN /\ m.pc = "send"
       /\ \/ /\ tbSent' = tbSent \cup {<<n, to>>}
             /\ main' = [main EXCEPT ![n].pc = IF m.k = P - 1 THEN "recv" ELSE "send",
                                     ![n].k = IF m.k = P - 1 THEN 1 ELSE @ + 1]
             /\ UNCHANGED <<listening, aborted>>
          \/ /\ ~Alive(to)
             /\ Abort(n)
       /\ UNCHANGED <<wrk, backlog, idSent, pb>>

MainRecv(n) ==
    LET m == main[n]
        from == m.conns[m.k]
    IN /\ m.pc = "recv"
       /\ \/ /\ <<from, n>> \in tbSent
             /\ main' = [main EXCEPT ![n].pc = IF m.k = P - 1 THEN "pb2" ELSE "recv",
                                     ![n].k = IF m.k = P - 1 THEN 1 ELSE @ + 1]
             /\ UNCHANGED <<listening, aborted>>
          \/ /\ <<from, n>> \notin tbSent /\ ~Alive(from)
             /\ Abort(n)
       /\ UNCHANGED <<wrk, backlog, idSent, tbSent, pb>>

Main(n) ==
    /\ Alive(n)
    /\ \/ Start(n) \/ MainConnect(n) \/ MainAccept(n) \/ Spawn(n)
       \/ MainSend(n) \/ MainRecv(n)
       \/ MainBarrier(n) /\ UNCHANGED <<wrk, listening, backlog, idSent, tbSent, aborted>>

-----------------------------------------------------------------------------
(***************************************************************************)
(* Worker wid of node n: Worker::init (the part that makes connections)    *)
(* and the two pthread_barrier_waits of the thread body.                   *)
(***************************************************************************)

\* Where init goes after its connect loop: the accept loop, or the barrier
\* for node 0, which accepts nothing.
AfterConnect(n) == IF n > 0 THEN "accept" ELSE "pb1"

\* listen_on(my_ip, cfg.port + wid, 1024).
WListen(n, w) ==
    /\ wrk[<<n, w>>].pc = "listen"
    /\ listening' = listening \cup {<<n, w>>}
    /\ wrk' = [wrk EXCEPT ![<<n, w>>].pc = IF n + 1 < P THEN "connect" ELSE AfterConnect(n)]
    /\ UNCHANGED <<main, backlog, idSent, tbSent, pb, aborted>>

\* connect_to(ips[i], cfg.port + wid, retries) for connection c.
WConnect(n, w) ==
    LET th == wrk[<<n, w>>]
    IN /\ th.pc = "connect"
       /\ \/ /\ ~Refused(th.i, w)
             /\ Queue(th.i, w, Link(n, w, th.c))
             /\ wrk' = [wrk EXCEPT ![<<n, w>>].pc = "sendid", ![<<n, w>>].tries = Retries]
             /\ UNCHANGED <<listening, aborted>>
          \/ /\ Refused(th.i, w) /\ th.tries > 1
             /\ wrk' = [wrk EXCEPT ![<<n, w>>].tries = @ - 1]
             /\ UNCHANGED <<listening, backlog, aborted>>
          \/ /\ Refused(th.i, w) /\ th.tries = 1
             /\ Abort(n)
       /\ UNCHANGED <<main, idSent, tbSent, pb>>

\* ensure(send(fd, &cfg.my_id, 4, MSG_WAITALL) == 4), then the next
\* connection of the two loops.
WSendId(n, w) ==
    LET th == wrk[<<n, w>>]
        lastConn == th.c + 1 = C
    IN /\ th.pc = "sendid"
       /\ \/ /\ idSent' = idSent \cup {<<Link(n, w, th.c), th.i>>}
             /\ wrk' = [wrk EXCEPT ![<<n, w>>] =
                          [th EXCEPT !.c = IF lastConn THEN 0 ELSE @ + 1,
                                     !.i = IF lastConn THEN @ + 1 ELSE @,
                                     !.pc = IF lastConn /\ th.i + 1 = P
                                            THEN AfterConnect(n) ELSE "connect"]]
             /\ UNCHANGED <<listening, aborted>>
          \/ /\ ~Alive(th.i)
             /\ Abort(n)
       /\ UNCHANGED <<main, backlog, tbSent, pb>>

\* accept(server_fd): the oldest connection of the backlog.
WAccept(n, w) ==
    /\ wrk[<<n, w>>].pc = "accept"
    /\ backlog[<<n, w>>] # <<>>
    /\ wrk' = [wrk EXCEPT ![<<n, w>>].cur = Head(backlog[<<n, w>>]),
                          ![<<n, w>>].pc = "recvid"]
    /\ backlog' = [backlog EXCEPT ![<<n, w>>] = Tail(@)]
    /\ UNCHANGED <<main, listening, idSent, tbSent, pb, aborted>>

(***************************************************************************)
(* ensure(recv(fd, &remote_id, 4, MSG_WAITALL) == 4): the connection is    *)
(* filed as conns[conn_idx[remote_id]++] of target remote_id.  The checks *)
(* remote_id < P, remote_id != my_id and c_idx < nr_conns cannot fail     *)
(* here: only the modelled nodes connect, each nr_conns times.            *)
(***************************************************************************)
WRecvId(n, w) ==
    LET th == wrk[<<n, w>>]
        r == th.cur.from
        accepted == Cardinality({q \in Nodes \X Conns : q[2] < th.cidx[q[1]]}) + 1
    IN /\ th.pc = "recvid"
       /\ \/ /\ <<th.cur, n>> \in idSent
             /\ wrk' = [wrk EXCEPT ![<<n, w>>] =
                          [th EXCEPT !.cidx[r] = @ + 1, !.cur = NoLink,
                                     !.pc = IF accepted = n * C THEN "pb1" ELSE "accept"]]
             /\ UNCHANGED <<listening, aborted>>
          \/ /\ <<th.cur, n>> \notin idSent /\ ~Alive(r)
             /\ Abort(n)
       /\ UNCHANGED <<main, backlog, idSent, tbSent, pb>>

\* The two pthread_barrier_waits before worker->run.
WBarrier(n, w) ==
    LET pc == wrk[<<n, w>>].pc
    IN /\ \/ /\ pc \in {"pb1", "pb2"}
             /\ pb' = [pb EXCEPT ![n] = Arrive(n)]
             /\ wrk' = [wrk EXCEPT ![<<n, w>>].pc = IF pc = "pb1" THEN "wait1" ELSE "wait2"]
          \/ /\ pc = "wait1" /\ pb[n].gen >= 1
             /\ wrk' = [wrk EXCEPT ![<<n, w>>].pc = "pb2"]
             /\ UNCHANGED pb
          \/ /\ pc = "wait2" /\ pb[n].gen >= 2
             /\ wrk' = [wrk EXCEPT ![<<n, w>>].pc = "run"]
             /\ UNCHANGED pb
       /\ UNCHANGED <<main, listening, backlog, idSent, tbSent, aborted>>

Worker(n, w) ==
    /\ Alive(n)
    /\ \/ WListen(n, w) \/ WConnect(n, w) \/ WSendId(n, w) \/ WAccept(n, w)
       \/ WRecvId(n, w) \/ WBarrier(n, w)

-----------------------------------------------------------------------------
\* Every worker runs the shuffle and every main thread waits in tp.join.
Done == /\ \A n \in Nodes : main[n].pc = "join"
        /\ \A t \in Nodes \X Wids : wrk[t].pc = "run"

\* The set-up is over: done, or a process has ended and its peers stay
\* blocked in accept, recv or the barrier.
Terminated == (Done \/ aborted # {}) /\ UNCHANGED vars

Next == \/ \E n \in Nodes : Main(n) \/ \E w \in Wids : Worker(n, w)
        \/ Terminated

\* Every thread is scheduled: the kernel runs every runnable thread.
Fairness == \A n \in Nodes : WF_vars(Main(n)) /\ \A w \in Wids : WF_vars(Worker(n, w))

Spec == Init /\ [][Next]_vars /\ Fairness

\* A worker has finished the connection part of init.
Inited(t) == wrk[t].pc \in {"pb1", "wait1", "pb2", "wait2", "run"}

(***************************************************************************)
(* The start is global: once any worker of any node runs the shuffle,     *)
(* every worker of every node has made and accepted all its connections.  *)
(* This is what the pthread barrier of num_workers + 1 threads and the    *)
(* TCPBarrier between the main threads are there for, and what the       *)
(* shuffle models assume of their initial state.                          *)
(***************************************************************************)
GlobalStart ==
    (\E t \in Nodes \X Wids : wrk[t].pc = "run") => \A t \in Nodes \X Wids : Inited(t)

(***************************************************************************)
(* The set-up never hangs while every process is alive: it ends with every *)
(* worker running, unless some process ended on a refused connect_to or a *)
(* failed ensure.                                                          *)
(***************************************************************************)
SetupEnds == <>(Done \/ aborted # {})
=============================================================================

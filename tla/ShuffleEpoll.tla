--------------------------- MODULE ShuffleEpoll ---------------------------
(***************************************************************************)
(* The epoll shuffle of src/src/shuffle/shufflev2.cpp (EpollWorker, chosen *)
(* by cfg.use_epoll).  The scan and the partitioning are those of the      *)
(* io_uring Worker; the I/O is non-blocking send and recv on the sockets,  *)
(* driven by a level-triggered epoll set.  send_progress pushes a buffer   *)
(* as far as the socket takes it and arms EPOLLOUT on EAGAIN;             *)
(* recv_progress reads everything there is into a receive buffer that is  *)
(* consumed when it holds Buffer::SIZE bytes.                              *)
(*                                                                         *)
(* A connection is a reliable FIFO stream of slots per direction: the      *)
(* sender's socket buffer, the wire and the receiver's socket buffer      *)
(* together hold at most SockCap slots (one slot is one tuple of a        *)
(* buffer; the code moves bytes, but a buffer is only consumed whole, so  *)
(* where a byte count splits a tuple changes nothing).  Only the workers  *)
(* move data: send appends to a stream, recv takes from it, shutdown      *)
(* appends the FIN.  One worker per node, as in Shuffle.                  *)
(*                                                                         *)
(* process_events is one step: epoll_wait reports the ready connections   *)
(* and the worker handles them before the peer moves again.  The peer's   *)
(* steps only append to or take from the streams, so the readiness a      *)
(* handler acts on is the readiness epoll reported or more of it.         *)
(*                                                                         *)
(* Modelled configuration: send_zc off (so no EPOLLERR), use_budget and   *)
(* use_hashtable constants, no peer closes a socket while this run lasts. *)
(***************************************************************************)
EXTENDS Integers, Sequences, SequencesExt, FiniteSets, Bags

CONSTANTS
    P,              \* cfg.partitions = number of nodes
    C,              \* cfg.nr_conns, connections per pair of nodes
    MaxTuples,      \* OutputBuffer::max, tuples per 1 MiB buffer
    MorselSize,     \* MorselIterator::tuples_per_morsel
    NumBuffers,     \* EpollWorker::num_buffers
    Input,          \* [Nodes -> Seq(key)], the keys each node loaded
    UseBudget,      \* cfg.use_budget
    UseHashtable,   \* cfg.use_hashtable
    SockCap,        \* slots a connection holds before send returns EAGAIN
    NoBuf           \* nullptr

Nodes == 0..(P - 1)
Conns == 0..(C - 1)
Bufs  == 0..(NumBuffers - 1)

\* A tuple is named by the node that loaded it and its index there; the
\* zeroed memory of a buffer never written holds tuples of key 0.
ZeroTuple == <<-1, 0>>
Tuples == UNION {{<<m, i>> : i \in 1..Len(Input[m])} : m \in Nodes}
KeyOf(t) == IF t = ZeroTuple THEN 0 ELSE Input[t[1]][t[2]]
PartOf(t) == KeyOf(t) % P

ASSUME /\ P >= 2 /\ C >= 1 /\ MaxTuples >= 1 /\ MorselSize >= 1 /\ SockCap >= 1
       /\ NumBuffers >= (P - 1) * (1 + 2 * C)
       /\ Input \in [Nodes -> Seq(Nat)]
       /\ UseBudget \in BOOLEAN /\ UseHashtable \in BOOLEAN

\* A slot on a stream carries a tuple and, as a ghost, whether the sender
\* wrote it into the buffer (slots past the buffer's idx are sent too).
Slot(tp, meant) == [fin |-> FALSE, tp |-> tp, meant |-> meant]
Fin == [fin |-> TRUE, tp |-> ZeroTuple, meant |-> FALSE]
HasFin(q) == \E i \in DOMAIN q : q[i].fin
DataLen(q) == Len(SelectSeq(q, LAMBDA x : ~x.fin))

VARIABLES
    node,       \* [Nodes -> the worker's state, see NodeInit]
    stream      \* [Nodes -> [Nodes -> [Conns -> Seq(slot)]]], from -> to

vars == <<node, stream>>

Peers(n) == Nodes \ {n}

\* The (peer, conn) pairs in the order of the final loops.
NumConns == (P - 1) * C
ConnOrder(n) ==
    [k \in 1..NumConns |->
        LET i == (k - 1) \div C IN <<IF i < n THEN i ELSE i + 1, (k - 1) % C>>]

(***************************************************************************)
(* EpollWorker::init: every buffer pushed on unused_buffers, every        *)
(* connection registered with EPOLLIN | EPOLLERR | EPOLLHUP | EPOLLRDHUP   *)
(* (out_armed false); Target::budget starts at 2.  No receive buffer is    *)
(* taken before the first recv_progress.                                   *)
(***************************************************************************)
NodeInit(n) ==
    [pc |-> "next", pos |-> 0, hi |-> 0, off |-> 0, part |-> n, cid |-> 0, k |-> 1,
     fill |-> [t \in Nodes |-> NoBuf],
     conn |-> [t \in Nodes |-> [c \in Conns |->
                [send |-> NoBuf, soff |-> 0, recv |-> NoBuf, roff |-> 0,
                 done |-> FALSE, wrShut |-> FALSE, peerRd |-> FALSE,
                 outArmed |-> FALSE]]],
     budget |-> [t \in Nodes |-> 2],
     unused |-> [i \in 1..NumBuffers |-> i - 1],
     buf |-> [b \in Bufs |-> [idx |-> 0, data |-> [j \in 1..MaxTuples |-> ZeroTuple]]],
     ins |-> EmptyBag,
     got |-> EmptyBag,
     err |-> "none"]

Init == /\ node = [n \in Nodes |-> NodeInit(n)]
        /\ stream = [m \in Nodes |-> [t \in Nodes |-> [c \in Conns |-> <<>>]]]

(***************************************************************************)
(* The worker of node n acts on a world w: its state w.s, the streams     *)
(* towards it w.in[t][c] and from it w.out[t][c].                          *)
(***************************************************************************)
World(n) == [s   |-> node[n],
             in  |-> [t \in Nodes |-> stream[t][n]],
             out |-> stream[n]]

Fail(w, why) == [w EXCEPT !.s.err = why]

\* Stack::pop, ensure(!empty()); Stack::push.
Top(w) == IF w.s.unused = <<>> THEN NoBuf ELSE Last(w.s.unused)
Pop(w) == IF w.s.unused = <<>> THEN Fail(w, "pop") ELSE [w EXCEPT !.s.unused = Front(@)]
Push(w, b) == [w EXCEPT !.s.unused = Append(@, b)]

\* set_mask through want_write / want_read: only out_armed differs.
SetOut(w, t, c, on) == [w EXCEPT !.s.conn[t][c].outArmed = on]

(***************************************************************************)
(* send_progress: send the rest of the Buffer::SIZE bytes of send_buffer  *)
(* while the socket takes them; EAGAIN arms EPOLLOUT and returns; EPIPE   *)
(* (the write side is shut down) marks the connection done and keeps the  *)
(* buffer.  Fully queued: want_read, the buffer back on the stack.        *)
(***************************************************************************)
\* Mutants of send_progress: the socket is taken to accept the whole
\* rest (IgnoreRoom); a short send is taken as the end of the buffer
\* (NoLoop); EAGAIN does not arm EPOLLOUT (NoArm); the sent buffer is not
\* pushed back (NoPush).
SendProgressIgnoreRoom(w, t, c) ==
    LET cn   == w.s.conn[t][c]
        bf   == w.s.buf[cn.send]
        k    == MaxTuples - cn.soff
        sent == [i \in 1..k |-> Slot(bf.data[cn.soff + i], cn.soff + i <= bf.idx)]
        w1   == [w EXCEPT !.out[t][c] = @ \o sent, !.s.conn[t][c].soff = @ + k]
    IN CASE cn.send = NoBuf -> Fail(w, "send_buffer")
         [] HasFin(w.out[t][c]) -> [w EXCEPT !.s.conn[t][c].done = TRUE]
         [] OTHER -> [SetOut(Push(w1, cn.send), t, c, FALSE) EXCEPT
                        !.s.conn[t][c].soff = 0, !.s.conn[t][c].send = NoBuf]

SendProgressNoLoop(w, t, c) ==
    LET cn   == w.s.conn[t][c]
        bf   == w.s.buf[cn.send]
        room == SockCap - DataLen(w.out[t][c])
        k    == IF room < MaxTuples - cn.soff THEN room ELSE MaxTuples - cn.soff
        sent == [i \in 1..k |-> Slot(bf.data[cn.soff + i], cn.soff + i <= bf.idx)]
        w1   == [w EXCEPT !.out[t][c] = @ \o sent, !.s.conn[t][c].soff = @ + k]
    IN CASE cn.send = NoBuf -> Fail(w, "send_buffer")
         [] HasFin(w.out[t][c]) -> [w EXCEPT !.s.conn[t][c].done = TRUE]
         [] k = 0 -> SetOut(w1, t, c, TRUE)
         [] OTHER -> [SetOut(Push(w1, cn.send), t, c, FALSE) EXCEPT
                        !.s.conn[t][c].soff = 0, !.s.conn[t][c].send = NoBuf]

SendProgressNoArm(w, t, c) ==
    LET cn   == w.s.conn[t][c]
        bf   == w.s.buf[cn.send]
        room == SockCap - DataLen(w.out[t][c])
        k    == IF room < MaxTuples - cn.soff THEN room ELSE MaxTuples - cn.soff
        sent == [i \in 1..k |-> Slot(bf.data[cn.soff + i], cn.soff + i <= bf.idx)]
        w1   == [w EXCEPT !.out[t][c] = @ \o sent, !.s.conn[t][c].soff = @ + k]
    IN CASE cn.send = NoBuf -> Fail(w, "send_buffer")
         [] HasFin(w.out[t][c]) -> [w EXCEPT !.s.conn[t][c].done = TRUE]
         [] cn.soff + k < MaxTuples -> w1
         [] OTHER -> [SetOut(Push(w1, cn.send), t, c, FALSE) EXCEPT
                        !.s.conn[t][c].soff = 0, !.s.conn[t][c].send = NoBuf]

SendProgressNoPush(w, t, c) ==
    LET cn   == w.s.conn[t][c]
        bf   == w.s.buf[cn.send]
        room == SockCap - DataLen(w.out[t][c])
        k    == IF room < MaxTuples - cn.soff THEN room ELSE MaxTuples - cn.soff
        sent == [i \in 1..k |-> Slot(bf.data[cn.soff + i], cn.soff + i <= bf.idx)]
        w1   == [w EXCEPT !.out[t][c] = @ \o sent, !.s.conn[t][c].soff = @ + k]
    IN CASE cn.send = NoBuf -> Fail(w, "send_buffer")
         [] HasFin(w.out[t][c]) -> [w EXCEPT !.s.conn[t][c].done = TRUE]
         [] cn.soff + k < MaxTuples -> SetOut(w1, t, c, TRUE)
         [] OTHER -> [SetOut(w1, t, c, FALSE) EXCEPT
                        !.s.conn[t][c].soff = 0, !.s.conn[t][c].send = NoBuf]

SendProgress(w, t, c) ==
    LET cn   == w.s.conn[t][c]
        bf   == w.s.buf[cn.send]
        room == SockCap - DataLen(w.out[t][c])
        k    == IF room < MaxTuples - cn.soff THEN room ELSE MaxTuples - cn.soff
        sent == [i \in 1..k |-> Slot(bf.data[cn.soff + i], cn.soff + i <= bf.idx)]
        w1   == [w EXCEPT !.out[t][c] = @ \o sent, !.s.conn[t][c].soff = @ + k]
    IN CASE cn.send = NoBuf -> Fail(w, "send_buffer")
         [] HasFin(w.out[t][c]) -> [w EXCEPT !.s.conn[t][c].done = TRUE]
         [] cn.soff + k < MaxTuples -> SetOut(w1, t, c, TRUE)
         [] OTHER -> [SetOut(Push(w1, cn.send), t, c, FALSE) EXCEPT
                        !.s.conn[t][c].soff = 0, !.s.conn[t][c].send = NoBuf]

(***************************************************************************)
(* recv_progress: take a receive buffer if there is none, then recv until *)
(* EAGAIN or the FIN.  Every slot goes to recv_off; a buffer that reaches  *)
(* Buffer::SIZE is inserted into probe_table (use_hashtable), pushed back, *)
(* earns the target one budget (use_budget), and a new one is popped.    *)
(* recv returning 0 marks the peer's FIN, done if we shut down already.   *)
(***************************************************************************)
\* One slot x received on connection (t, c).
Store(w, t, c, x) ==
    LET b  == w.s.conn[t][c].recv
        r  == w.s.conn[t][c].roff + 1
        w1 == [w EXCEPT !.s.buf[b].data[r] = x.tp,
                        !.s.conn[t][c].roff = r,
                        !.s.got = IF x.meant THEN @ (+) SetToBag({x.tp}) ELSE @]
        w2 == [Push(w1, b) EXCEPT
                 !.s.ins = IF UseHashtable THEN @ (+) ToBag(w1.s.buf[b].data) ELSE @,
                 !.s.conn[t][c].recv = NoBuf,
                 !.s.conn[t][c].roff = 0,
                 !.s.budget[t] = IF UseBudget THEN @ + 1 ELSE @]
    IN IF r < MaxTuples THEN w1
       ELSE [Pop(w2) EXCEPT !.s.conn[t][c].recv = Top(w2)]

RECURSIVE RecvLoop(_, _, _)
RecvLoop(w, t, c) ==
    LET q == w.in[t][c]
    IN CASE q = <<>> -> w
         [] Head(q).fin -> [w EXCEPT !.s.conn[t][c].peerRd = TRUE,
                                     !.s.conn[t][c].done = @ \/ w.s.conn[t][c].wrShut]
         [] w.s.err # "none" -> w
         [] OTHER -> RecvLoop([Store(w, t, c, Head(q)) EXCEPT !.in[t][c] = Tail(@)], t, c)

\* Mutant: a receive buffer is taken on every call (no nullptr check).
RecvProgressAlwaysPop(w, t, c) ==
    RecvLoop([Pop(w) EXCEPT !.s.conn[t][c].recv = Top(w), !.s.conn[t][c].roff = 0], t, c)

RecvProgress(w, t, c) ==
    LET w0 == IF w.s.conn[t][c].recv # NoBuf THEN w
              ELSE [Pop(w) EXCEPT !.s.conn[t][c].recv = Top(w), !.s.conn[t][c].roff = 0]
    IN RecvLoop(w0, t, c)

(***************************************************************************)
(* process_events: epoll_wait, then for every ready connection: EPOLLIN   *)
(* and not done: recv_progress; EPOLLOUT with a send_buffer and not done: *)
(* send_progress; EPOLLRDHUP: the peer's FIN, done if we shut down;       *)
(* EPOLLHUP (FIN received and our write side shut down): done.  Level-    *)
(* triggered: EPOLLIN while the stream holds data or the FIN, EPOLLOUT    *)
(* while it is armed and the stream has room.                              *)
(***************************************************************************)
OnEvents(w, tc) ==
    LET t  == tc[1]
        c  == tc[2]
        in    == w.in[t][c] # <<>>
        out   == w.s.conn[t][c].outArmed /\ DataLen(w.out[t][c]) < SockCap
        rdhup == HasFin(w.in[t][c])
        hup   == rdhup /\ w.s.conn[t][c].wrShut
        w1 == IF in /\ ~w.s.conn[t][c].done THEN RecvProgress(w, t, c) ELSE w
        w2 == IF out /\ w1.s.conn[t][c].send # NoBuf /\ ~w1.s.conn[t][c].done
              THEN SendProgress(w1, t, c) ELSE w1
        w3 == IF rdhup THEN [w2 EXCEPT !.s.conn[t][c].peerRd = TRUE,
                                       !.s.conn[t][c].done = @ \/ w2.s.conn[t][c].wrShut]
              ELSE w2
    IN IF hup THEN [w3 EXCEPT !.s.conn[t][c].done = TRUE] ELSE w3

ProcessEvents(n, w) == FoldLeft(OnEvents, w, ConnOrder(n))

\* The worker of node n moves to world w (bound once, so that ENABLED for
\* fairness does not re-evaluate it).
Sets(n, w) ==
    \E v \in {w} :
        /\ node' = [node EXCEPT ![n] = v.s]
        /\ stream' = [m \in Nodes |-> [t \in Nodes |->
                        CASE m = n /\ t # n -> v.out[t]
                          [] t = n /\ m # n -> v.in[m]
                          [] OTHER -> stream[m][t]]]
Live(n) == node[n].err = "none"

(***************************************************************************)
(* EpollWorker::run.  The scan is that of Worker::run; a full fill buffer *)
(* waits for a connection without send_buffer and not done, and (with    *)
(* use_budget) for budget, calling process_events in between; then it is *)
(* swapped in, send_progress and process_events.                          *)
(***************************************************************************)

\* morsel_it.next(): fetch_add of the offset; an empty morsel ends the scan.
NextMorsel(n) ==
    LET s == node[n]
        len == Len(Input[n])
    IN /\ Live(n) /\ s.pc = "next"
       /\ Sets(n, [World(n) EXCEPT
                     !.s = IF s.off >= len
                           THEN [s EXCEPT !.pc = "flush", !.off = @ + MorselSize]
                           ELSE [s EXCEPT !.pc = "scan", !.pos = s.off + 1,
                                          !.hi = IF s.off + MorselSize < len
                                                 THEN s.off + MorselSize ELSE len,
                                          !.off = @ + MorselSize]])

\* The end of a morsel: process_events.
MorselDone(n) ==
    LET s == node[n]
    IN /\ Live(n) /\ s.pc = "scan" /\ s.pos > s.hi
       /\ Sets(n, [ProcessEvents(n, World(n)) EXCEPT !.s.pc = "next"])

\* One tuple: insert_batch it locally, or copy it into the target's fill
\* buffer (popped and cleared if there is none); a full buffer stops the
\* scan until it is handed to a connection.
ScanTuple(n) ==
    LET w  == World(n)
        tp == <<n, w.s.pos>>
        t  == PartOf(tp)
        w1 == IF w.s.fill[t] = NoBuf
              THEN [Pop(w) EXCEPT !.s.fill[t] = Top(w), !.s.buf[Top(w)].idx = 0]
              ELSE w
        b  == w1.s.fill[t]
        w2 == [w1 EXCEPT !.s.buf[b].data[w1.s.buf[b].idx + 1] = tp,
                         !.s.buf[b].idx = @ + 1]
    IN /\ Live(n) /\ w.s.pc = "scan" /\ w.s.pos <= w.s.hi
       /\ Sets(n, CASE t = n ->
                         [w EXCEPT !.s.ins = IF UseHashtable THEN @ (+) SetToBag({tp})
                                             ELSE @,
                                   !.s.pos = @ + 1]
                    [] w1.s.err # "none" -> w1
                    [] w2.s.buf[b].idx = MaxTuples ->
                         [w2 EXCEPT !.s.pc = "findconn", !.s.part = t]
                    [] OTHER -> [w2 EXCEPT !.s.pos = @ + 1])

\* The loop that looks for a connection with no send_buffer, not done.
FindConn(n) ==
    LET s == node[n]
        free == {c \in Conns : s.conn[s.part][c].send = NoBuf /\ ~s.conn[s.part][c].done}
    IN /\ Live(n) /\ s.pc = "findconn"
       /\ Sets(n, IF free # {}
                  THEN [World(n) EXCEPT !.s.cid = Min(free), !.s.pc = "budget"]
                  ELSE ProcessEvents(n, World(n)))

\* With use_budget, process_events while the target's budget is 0; then
\* ensure(!send_buffer), swap, send_progress, process_events, budget--.
SendFull(n) ==
    LET w == World(n)
        t == w.s.part
        c == w.s.cid
        w1 == [w EXCEPT !.s.conn[t][c].send = w.s.fill[t], !.s.fill[t] = NoBuf]
        w2 == ProcessEvents(n, SendProgress(w1, t, c))
    IN /\ Live(n) /\ w.s.pc = "budget"
       /\ Sets(n, CASE UseBudget /\ w.s.budget[t] = 0 -> ProcessEvents(n, w)
                    [] w.s.conn[t][c].send # NoBuf -> Fail(w, "send_buffer")
                    [] OTHER -> [w2 EXCEPT !.s.budget[t] = IF UseBudget THEN @ - 1 ELSE @,
                                           !.s.pos = @ + 1, !.s.pc = "scan"])

(***************************************************************************)
(* After the scan.  Flush: every target's partial fill buffer goes to the *)
(* first connection without send_buffer and not done, with one           *)
(* send_progress; if there is none, the loop moves on.                     *)
(***************************************************************************)
FlushTarget(w, t) ==
    LET free == {c \in Conns : w.s.conn[t][c].send = NoBuf /\ ~w.s.conn[t][c].done}
        c == Min(free)
    IN IF w.s.fill[t] = NoBuf \/ free = {} THEN w
       ELSE SendProgress([w EXCEPT !.s.conn[t][c].send = w.s.fill[t],
                                   !.s.fill[t] = NoBuf], t, c)

Flush(n) ==
    /\ Live(n) /\ node[n].pc = "flush"
    /\ Sets(n, [FoldLeft(FlushTarget, World(n), SetToSortSeq(Peers(n), <))
                  EXCEPT !.s.pc = "drain", !.s.k = 1])

(***************************************************************************)
(* Then, connection by connection: send_progress and process_events while *)
(* a send_buffer is left and not done; shutdown(SHUT_WR) once, want_read, *)
(* done if the peer's FIN was seen; process_events until done.             *)
(***************************************************************************)
\* Mutant: shutdown(SHUT_WR) before the rest of the send_buffer is queued.
DrainConnEarlyShutdown(n) ==
    LET w  == World(n)
        t  == ConnOrder(n)[w.s.k][1]
        c  == ConnOrder(n)[w.s.k][2]
        cn == w.s.conn[t][c]
        sh == [SetOut(w, t, c, FALSE) EXCEPT !.out[t][c] = Append(@, Fin),
                                             !.s.conn[t][c].wrShut = TRUE,
                                             !.s.conn[t][c].done = @ \/ cn.peerRd]
    IN /\ Live(n) /\ w.s.pc = "drain"
       /\ Sets(n, CASE ~cn.wrShut -> [sh EXCEPT !.s.pc = "drain"]
                    [] cn.send # NoBuf /\ ~cn.done ->
                         ProcessEvents(n, SendProgress(w, t, c))
                    [] OTHER -> [w EXCEPT !.s.pc = "fin"])

DrainConn(n) ==
    LET w  == World(n)
        t  == ConnOrder(n)[w.s.k][1]
        c  == ConnOrder(n)[w.s.k][2]
        cn == w.s.conn[t][c]
        sh == [SetOut(w, t, c, FALSE) EXCEPT !.out[t][c] = Append(@, Fin),
                                             !.s.conn[t][c].wrShut = TRUE,
                                             !.s.conn[t][c].done = @ \/ cn.peerRd]
    IN /\ Live(n) /\ w.s.pc = "drain"
       /\ Sets(n, CASE cn.send # NoBuf /\ ~cn.done ->
                         ProcessEvents(n, SendProgress(w, t, c))
                    [] ~cn.wrShut -> [sh EXCEPT !.s.pc = "fin"]
                    [] OTHER -> [w EXCEPT !.s.pc = "fin"])

AwaitFin(n) ==
    LET w == World(n)
        tc == ConnOrder(n)[w.s.k]
    IN /\ Live(n) /\ w.s.pc = "fin"
       /\ Sets(n, CASE ~w.s.conn[tc[1]][tc[2]].done -> ProcessEvents(n, w)
                    [] w.s.k < NumConns -> [w EXCEPT !.s.k = @ + 1, !.s.pc = "drain"]
                    [] OTHER -> [w EXCEPT !.s.pc = "wait"])

(***************************************************************************)
(* Wait for the remote side: leave once every connection is done with no  *)
(* send_buffer; otherwise process_events, and leave when no byte moved    *)
(* for a second (an iteration that moved nothing may be the last one).    *)
(* Then flush_batch (the pending pairs are already counted in ins).       *)
(***************************************************************************)
AllDone(n, s) == \A t \in Peers(n), c \in Conns :
                  s.conn[t][c].done /\ s.conn[t][c].send = NoBuf

WaitRemote(n) ==
    LET w  == World(n)
        w1 == ProcessEvents(n, w)
        idle == w1.in = w.in /\ w1.out = w.out
    IN /\ Live(n) /\ w.s.pc = "wait"
       /\ IF AllDone(n, w.s)
          THEN Sets(n, [w EXCEPT !.s.pc = "exit"])
          ELSE \E v \in IF idle THEN {w1, [w1 EXCEPT !.s.pc = "exit"]} ELSE {w1} :
                 Sets(n, v)

Worker(n) == NextMorsel(n) \/ ScanTuple(n) \/ MorselDone(n) \/ FindConn(n)
             \/ SendFull(n) \/ Flush(n) \/ DrainConn(n) \/ AwaitFin(n)
             \/ WaitRemote(n)

\* Every worker has returned from run, or an ensure() ended a process.
Finished == \A n \in Nodes : node[n].pc = "exit"
Terminated == /\ Finished \/ \E n \in Nodes : ~Live(n)
              /\ UNCHANGED vars

Next == \/ \E n \in Nodes : Worker(n)
        \/ Terminated

Spec == Init /\ [][Next]_vars

\* Each worker runs on its own thread and keeps running while it can.
LiveSpec == Spec /\ \A n \in Nodes : WF_vars(Worker(n))

(***************************************************************************)
(* Properties.                                                             *)
(***************************************************************************)
Conn == [send : Bufs \cup {NoBuf}, soff : 0..MaxTuples, recv : Bufs \cup {NoBuf},
         roff : 0..MaxTuples, done : BOOLEAN, wrShut : BOOLEAN, peerRd : BOOLEAN,
         outArmed : BOOLEAN]

TypeOK ==
    /\ \A n \in Nodes :
         /\ node[n].pc \in {"next", "scan", "findconn", "budget", "flush", "drain",
                            "fin", "wait", "exit"}
         /\ node[n].fill \in [Nodes -> Bufs \cup {NoBuf}]
         /\ node[n].conn \in [Nodes -> [Conns -> Conn]]
         /\ node[n].unused \in Seq(Bufs)
         /\ node[n].k \in 1..NumConns
         /\ \A b \in Bufs : node[n].buf[b].idx \in 0..MaxTuples
    /\ \A m, t \in Nodes, c \in Conns :
         /\ DataLen(stream[m][t][c]) <= SockCap
         /\ \A i \in DOMAIN stream[m][t][c] :
              stream[m][t][c][i] \in [fin : {FALSE}, tp : Tuples \cup {ZeroTuple},
                                      meant : BOOLEAN] \cup {Fin}

\* The places that hold buffer b: the stack, a fill buffer, the send or
\* receive buffer of a connection.
Holders(s, b) ==
    Len(SelectSeq(s.unused, LAMBDA x : x = b))
    + Cardinality({t \in Nodes : s.fill[t] = b})
    + Cardinality({tc \in Nodes \X Conns : s.conn[tc[1]][tc[2]].send = b})
    + Cardinality({tc \in Nodes \X Conns : s.conn[tc[1]][tc[2]].recv = b})

\* No buffer is lost or held twice: a partly sent buffer stays the
\* connection's until its last byte is queued, a receive buffer is
\* recycled and re-taken in one step, and a fill buffer is swapped in
\* only where there is no send_buffer.
BufferConservation ==
    \A n \in Nodes : Live(n) => \A b \in Bufs : Holders(node[n], b) = 1

\* Buffers travel whole: on every connection, the slots the receiver holds
\* in its receive buffer plus those still in the stream make up, modulo
\* Buffer::SIZE, exactly the part of the current buffer the sender has
\* queued.  So every receive buffer that reaches Buffer::SIZE is exactly one
\* sender buffer, though send and recv each move any number of bytes.
FramingAligned ==
    \A m, t \in Nodes, c \in Conns :
        m # t /\ Live(m) /\ Live(t) =>
            (node[t].conn[m][c].roff + DataLen(stream[m][t][c])) % MaxTuples
                = node[m].conn[t][c].soff

\* No worker ends in an ensure(): the stack never runs empty and a send
\* always has its buffer.
NoAbort == \A n \in Nodes : Live(n)

\* The tuples of partition n that other nodes scanned.
Incoming(n) == SetToBag({tp \in Tuples : PartOf(tp) = n /\ tp[1] # n})

\* When a worker returns from run it has received, exactly once, every
\* tuple the other nodes scanned for it: the flush hands every partial
\* buffer to a connection and the drain sends it before the FIN.
DeliveredOnExit ==
    \A n \in Nodes : node[n].pc = "exit" => node[n].got = Incoming(n)

\* Every worker eventually returns from run.
AllExit == <>Finished

=============================================================================

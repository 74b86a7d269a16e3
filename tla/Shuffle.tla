------------------------------ MODULE Shuffle ------------------------------
(***************************************************************************)
(* The io_uring shuffle of src/src/shuffle/shufflev2.cpp (Worker::run and  *)
(* the helpers it calls).  Every node scans its tuples morsel by morsel    *)
(* and sends each tuple to the node of partition key % partitions.  A      *)
(* node has one output buffer per target, filled tuple by tuple and sent   *)
(* whole over one of nr_conns TCP connections; every connection has a     *)
(* receive posted, re-armed after each message.  When the scan is done a   *)
(* node sends its partial buffers, shuts every connection down for        *)
(* writing and waits until every peer has shut down towards it.           *)
(*                                                                         *)
(* One worker per node (cfg.num_workers workers of the same wid form       *)
(* independent shuffles that share only the morsel iterator).  A node's    *)
(* worker thread owns the record node[n]; the kernel runs concurrently:    *)
(* it executes submitted requests in any order, reads and writes the      *)
(* buffers they name, and posts completions.  A TCP connection is a       *)
(* reliable FIFO stream per direction holding at most StreamCap messages. *)
(*                                                                         *)
(* Modelled configuration: recv_zc, send_zc and the epoll worker off (see  *)
(* the README); use_budget and use_hashtable are constants.                *)
(***************************************************************************)
EXTENDS Integers, Sequences, SequencesExt, FiniteSets, Bags

CONSTANTS
    P,              \* cfg.partitions = number of nodes
    C,              \* cfg.nr_conns, connections per pair of nodes
    MaxTuples,      \* OutputBuffer::max, tuples per 1 MiB buffer
    MorselSize,     \* MorselIterator::tuples_per_morsel
    NumBuffers,     \* Worker::num_buffers
    Input,          \* [Nodes -> Seq(key)], the keys each node loaded
    UseBudget,      \* cfg.use_budget
    UseHashtable,   \* cfg.use_hashtable
    StreamCap,      \* messages a TCP stream holds before a send waits
    NoBuf           \* nullptr

Nodes == 0..(P - 1)
Conns == 0..(C - 1)
Bufs  == 0..(NumBuffers - 1)

\* A tuple is named by the node that loaded it and its index there; the
\* zeroed memory of a buffer never written holds tuples of key 0.
ZeroTuple == <<-1, 0>>
Tuples == UNION {{<<m, i>> : i \in 1..Len(Input[m])} : m \in Nodes}
KeyOf(t) == IF t = ZeroTuple THEN 0 ELSE Input[t[1]][t[2]]
PartOf(t) == KeyOf(t) % P

ASSUME /\ P >= 2 /\ C >= 1 /\ MaxTuples >= 1 /\ MorselSize >= 1 /\ StreamCap >= 1
       /\ NumBuffers >= (P - 1) * (1 + 2 * C)
       /\ Input \in [Nodes -> Seq(Nat)]
       /\ UseBudget \in BOOLEAN /\ UseHashtable \in BOOLEAN

\* Submission-queue entries and completions (UserData tag, target, conn).
Sqe(tag, t, c, b) == [tag |-> tag, t |-> t, c |-> c, b |-> b]
Cqe(tag, t, c, res) == [tag |-> tag, t |-> t, c |-> c, res |-> res]
\* A send or a receive of a whole buffer returns Buffer::SIZE, counted
\* here in tuples.
Full == MaxTuples
EPIPE == -32

\* What travels on a stream: a buffer's max tuples, or the FIN of shutdown.
Fin == [fin |-> TRUE, data |-> <<>>, len |-> 0]

VARIABLES
    node,       \* [Nodes -> the worker's state, see NodeInit]
    stream      \* [Nodes -> [Nodes -> [Conns -> Seq(message)]]], from -> to

vars == <<node, stream>>

Peers(n) == Nodes \ {n}

(***************************************************************************)
(* Worker::init then the barriers: buffers pushed 0 .. num_buffers-1 on   *)
(* unused_buffers; prep_recv for every peer i and connection in order     *)
(* pops the buffers from the top; one io_uring_submit hands them all to   *)
(* the kernel.  make_unique<Buffer[]> value-initialises: zero tuples.     *)
(***************************************************************************)
\* The (peer, conn) pairs in the order of the loops: peers ascending, then
\* connections ascending.
NumRecvs == (P - 1) * C
RecvOrder(n) ==
    [k \in 1..NumRecvs |->
        LET i == (k - 1) \div C IN <<IF i < n THEN i ELSE i + 1, (k - 1) % C>>]
RecvBuf(n, i, c) ==
    NumBuffers - (CHOOSE k \in 1..NumRecvs : RecvOrder(n)[k] = <<i, c>>)

NodeInit(n) ==
    [pc |-> "next", pos |-> 0, hi |-> 0, off |-> 0, part |-> n, cid |-> 0,
     fill |-> [t \in Nodes |-> NoBuf],
     conn |-> [t \in Nodes |-> [c \in Conns |->
                [send |-> NoBuf, done |-> FALSE,
                 recv |-> IF t = n THEN NoBuf ELSE RecvBuf(n, t, c)]]],
     shut |-> [t \in Nodes |-> [c \in Conns |-> FALSE]],
     budget |-> [t \in Nodes |-> 2],
     unused |-> [k \in 1..(NumBuffers - NumRecvs) |-> k - 1],
     buf |-> [b \in Bufs |-> [idx |-> 0, data |-> [j \in 1..MaxTuples |-> ZeroTuple],
                             meant |-> 0]],
     sq |-> <<>>,
     kern |-> {Sqe("recv", t, c, RecvBuf(n, t, c)) : t \in Peers(n), c \in Conns},
     cq |-> <<>>,
     out |-> NumRecvs,
     ins |-> EmptyBag,
     got |-> EmptyBag,
     err |-> "none"]

Init == /\ node = [n \in Nodes |-> NodeInit(n)]
        /\ stream = [m \in Nodes |-> [t \in Nodes |-> [c \in Conns |-> <<>>]]]
(***************************************************************************)
(* The fields of node[n]: pc is where Worker::run is; off is the morsel   *)
(* iterator's offset, pos..hi the morsel being scanned; part/cid the      *)
(* target and connection of a full buffer being sent; fill, conn, budget  *)
(* are part_to_target; shut is conns_shutdown; unused is the Stack       *)
(* unused_buffers (its top is the last element); buf the buffers; sq the  *)
(* prepared SQEs not yet submitted, kern the submitted requests, cq the   *)
(* posted completions; out is outstanding; ins the tuples inserted into   *)
(* probe_table.  Ghost: a buffer's meant and got record how many of the  *)
(* tuples a receive brought were put there by the sender's get_slot.      *)
(***************************************************************************)

Fail(s, why) == [s EXCEPT !.err = why]

\* Stack::pop, ensure(!empty()).
Pop(s) == IF s.unused = <<>> THEN Fail(s, "pop") ELSE [s EXCEPT !.unused = Front(@)]
Top(s) == IF s.unused = <<>> THEN NoBuf ELSE Last(s.unused)
Push(s, b) == [s EXCEPT !.unused = Append(@, b)]

\* io_uring_submit: the prepared entries go to the kernel.
Submit(s) == [s EXCEPT !.sq = <<>>, !.kern = @ \cup ToSet(s.sq)]

\* Worker::prep_recv (non-zc): ensure(!buffer); pop a buffer; ++outstanding.
PrepRecv(s, t, c) ==
    IF s.conn[t][c].recv # NoBuf THEN Fail(s, "recv_buffer")
    ELSE LET b == Top(s) IN
         [Pop(s) EXCEPT !.conn[t][c].recv = b,
                        !.sq = Append(@, Sqe("recv", t, c, b)),
                        !.out = @ + 1]

\* Worker::prep_send: send the whole Buffer::SIZE of send_buffer.
PrepSend(s, t, c) ==
    [s EXCEPT !.sq = Append(@, Sqe("send", t, c, s.conn[t][c].send)),
              !.out = @ + 1]

PrepShutdownUncounted(s, t, c) ==
    [s EXCEPT !.sq = Append(@, Sqe("shut", t, c, NoBuf))]

\* Worker::prep_shutdown: shutdown(SHUT_WR) tagged IGNR_TAG.
PrepShutdown(s, t, c) ==
    [s EXCEPT !.sq = Append(@, Sqe("shut", t, c, NoBuf)), !.out = @ + 1]

\* The tuples a buffer holds, and those its sender wrote (ghost).
Meant(bf) == ToBag(SubSeq(bf.data, 1, bf.meant))

(***************************************************************************)
(* One completion of drain_cqe's io_uring_for_each_cqe.  A send returns   *)
(* its buffer to the stack.  A recv hands the whole buffer (all max       *)
(* tuples, whatever res is) to probe_table, recycles the buffer, and      *)
(* re-arms the receive unless res == 0 (the peer's FIN); it reports       *)
(* whether it prepared an SQE (do_submit).                                *)
(***************************************************************************)
OnSendLeak(s, e) == [s EXCEPT !.conn[e.t][e.c].send = NoBuf]

OnSend(s, e) ==
    LET b == s.conn[e.t][e.c].send
    IN IF b = NoBuf THEN Fail(s, "send_buffer")
       ELSE [Push(s, b) EXCEPT !.conn[e.t][e.c].send = NoBuf]

OnRecvNoRearm(s, e) ==
    LET b == s.conn[e.t][e.c].recv
        s1 == [Push(s, b) EXCEPT !.conn[e.t][e.c].recv = NoBuf,
                                 !.got = @ (+) Meant(s.buf[b])]
    IN IF e.res = 0 THEN [s |-> [s1 EXCEPT !.conn[e.t][e.c].done = TRUE], sub |-> FALSE]
       ELSE [s |-> s1, sub |-> FALSE]

OnRecv(s, e) ==
    LET b == s.conn[e.t][e.c].recv
        s1 == [Push(s, b) EXCEPT
                 !.conn[e.t][e.c].recv = NoBuf,
                 !.ins = IF UseHashtable THEN @ (+) ToBag(s.buf[b].data) ELSE @,
                 !.got = @ (+) Meant(s.buf[b])]
    IN CASE b = NoBuf -> [s |-> Fail(s, "recv_buffer"), sub |-> FALSE]
         [] e.res = 0 -> [s |-> [s1 EXCEPT !.conn[e.t][e.c].done = TRUE], sub |-> FALSE]
         [] OTHER -> [s |-> PrepRecv([s1 EXCEPT !.budget[e.t] =
                                         IF UseBudget THEN @ + 1 ELSE @], e.t, e.c),
                      sub |-> TRUE]

\* A failed request ends the process in check_iou (the ENOBUFS case and
\* the zero-copy cases are not reachable here).  Otherwise the switch on
\* the tag; the accumulator carries the state and do_submit.
HandleCqe(a, e) ==
    CASE e.res < 0 -> [a EXCEPT !.s = Fail(a.s, "check_iou")]
      [] e.tag = "send" -> [a EXCEPT !.s = OnSend(a.s, e)]
      [] e.tag = "recv" -> LET r == OnRecv(a.s, e) IN [s |-> r.s, sub |-> a.sub \/ r.sub]
      [] OTHER -> a

\* The fold step, with the accumulator bound to its value once.  (TLC does
\* not cache operator arguments when it computes ENABLED for fairness, and
\* would otherwise re-evaluate the whole fold at every use of a.)
OnCqe(a0, e) == CHOOSE x \in {HandleCqe(a, e) : a \in {a0}} : TRUE

\* Worker::drain_cqe: all posted completions, outstanding -= i, submit.
DrainCqe(s) ==
    LET a == FoldLeft(OnCqe, [s |-> s, sub |-> FALSE], s.cq)
        r == [a.s EXCEPT !.cq = <<>>, !.out = @ - Len(s.cq)]
    IN IF a.sub THEN Submit(r) ELSE r

\* drain_cqe of the state s, evaluated once (as OnCqe).
Drain(s0) == CHOOSE x \in {DrainCqe(s) : s \in {s0}} : TRUE

\* The worker of node n moves to state s.  (Binding s once keeps TLC from
\* re-evaluating it when it computes ENABLED for fairness.)
Sets(n, s) == \E v \in {s} : node' = [node EXCEPT ![n] = v] /\ UNCHANGED stream
Live(n) == node[n].err = "none"

(***************************************************************************)
(* Worker::run.  Each action is the code between two reads of the         *)
(* completion queue; the kernel may act between any two of them.         *)
(***************************************************************************)

\* morsel_it.next(): fetch_add of the offset; an empty morsel ends the scan.
NextMorsel(n) ==
    LET s == node[n]
        len == Len(Input[n])
    IN /\ Live(n) /\ s.pc = "next"
       /\ Sets(n, IF s.off >= len
                  THEN [s EXCEPT !.pc = "final", !.off = @ + MorselSize]
                  ELSE [s EXCEPT !.pc = "scan", !.pos = s.off + 1,
                                 !.hi = IF s.off + MorselSize < len
                                        THEN s.off + MorselSize ELSE len,
                                 !.off = @ + MorselSize])

\* The end of a morsel: io_uring_get_events and drain_cqe.
MorselDone(n) ==
    LET s == node[n]
    IN /\ Live(n) /\ s.pc = "scan" /\ s.pos > s.hi
       /\ Sets(n, [Drain(s) EXCEPT !.pc = "next"])

\* One tuple of the morsel: insert it locally, or copy it into the target's
\* fill buffer (popped and cleared if there is none); a full buffer stops
\* the scan until it is handed to a connection.
ScanTuple(n) ==
    LET s == node[n]
        tp == <<n, s.pos>>
        t == PartOf(tp)
        s1 == IF s.fill[t] = NoBuf
              THEN [Pop(s) EXCEPT !.fill[t] = Top(s), !.buf[Top(s)].idx = 0]
              ELSE s
        b == s1.fill[t]
        s2 == [s1 EXCEPT !.buf[b].data[s1.buf[b].idx + 1] = tp,
                         !.buf[b].idx = @ + 1]
    IN /\ Live(n) /\ s.pc = "scan" /\ s.pos <= s.hi
       /\ Sets(n, CASE t = n ->
                         [s EXCEPT !.ins = IF UseHashtable THEN @ (+) SetToBag({tp})
                                           ELSE @,
                                   !.pos = @ + 1]
                    [] s1.err # "none" -> s1
                    [] s2.buf[b].idx = MaxTuples -> [s2 EXCEPT !.pc = "findconn", !.part = t]
                    [] OTHER -> [s2 EXCEPT !.pos = @ + 1])

\* The loop that looks for a connection without a send_buffer, draining
\* completions between tries.
FindConn(n) ==
    LET s == node[n]
        free == {c \in Conns : s.conn[s.part][c].send = NoBuf}
    IN /\ Live(n) /\ s.pc = "findconn"
       /\ Sets(n, IF free # {} THEN [s EXCEPT !.cid = Min(free), !.pc = "budget"]
                  ELSE Drain(s))

\* With use_budget, wait while the target's budget is 0.  Then swap the
\* full buffer into the connection, prep_send, budget--, submit and drain.
SendFull(n) ==
    LET s == node[n]
        t == s.part
        c == s.cid
        s1 == PrepSend([s EXCEPT !.conn[t][c].send = s.fill[t], !.fill[t] = NoBuf,
                                 !.budget[t] = IF UseBudget THEN @ - 1 ELSE @], t, c)
    IN /\ Live(n) /\ s.pc = "budget"
       /\ Sets(n, CASE UseBudget /\ s.budget[t] = 0 -> Drain(s)
                    [] s.conn[t][c].send # NoBuf -> Fail(s, "send_buffer")
                    [] OTHER -> [Drain(Submit(s1)) EXCEPT !.pos = @ + 1, !.pc = "scan"])

FinalConnNoSendCheck(a, tc) ==
    LET t == tc[1]
        c == tc[2]
        s == a.s
        s1 == IF s.fill[t] # NoBuf
              THEN PrepSend([s EXCEPT !.conn[t][c].send = s.fill[t],
                                      !.fill[t] = NoBuf], t, c)
              ELSE s
        busy == s1.conn[t][c].send # NoBuf
        s2 == IF ~busy /\ ~s1.shut[t][c]
              THEN [PrepShutdown(s1, t, c) EXCEPT !.shut[t][c] = TRUE]
              ELSE s1
    IN [s |-> s2, done |-> a.done /\ ~busy /\ s2.conn[t][c].done]

FinalConnEarlyShutdown(a, tc) ==
    LET t == tc[1]
        c == tc[2]
        s == a.s
        s1 == IF s.fill[t] # NoBuf /\ s.conn[t][c].send = NoBuf
              THEN PrepSend([s EXCEPT !.conn[t][c].send = s.fill[t],
                                      !.fill[t] = NoBuf], t, c)
              ELSE s
        busy == s1.conn[t][c].send # NoBuf
        s2 == IF ~s1.shut[t][c]
              THEN [PrepShutdown(s1, t, c) EXCEPT !.shut[t][c] = TRUE]
              ELSE s1
    IN [s |-> s2, done |-> a.done /\ ~busy /\ s2.conn[t][c].done]

FinalConnNoFlush(a, tc) ==
    LET t == tc[1]
        c == tc[2]
        s == a.s
        busy == s.conn[t][c].send # NoBuf
        s2 == IF ~busy /\ ~s.shut[t][c]
              THEN [PrepShutdown(s, t, c) EXCEPT !.shut[t][c] = TRUE]
              ELSE s
    IN [s |-> s2, done |-> a.done /\ ~busy /\ s2.conn[t][c].done]

FinalConnLastOnly(a, tc) ==
    LET t == tc[1]
        c == tc[2]
        s == a.s
        s1 == IF s.fill[t] # NoBuf /\ s.conn[t][c].send = NoBuf
              THEN PrepSend([s EXCEPT !.conn[t][c].send = s.fill[t],
                                      !.fill[t] = NoBuf], t, c)
              ELSE s
        busy == s1.conn[t][c].send # NoBuf
        s2 == IF ~busy /\ ~s1.shut[t][c]
              THEN [PrepShutdown(s1, t, c) EXCEPT !.shut[t][c] = TRUE]
              ELSE s1
    IN [s |-> s2, done |-> ~busy /\ s2.conn[t][c].done]

\* One connection of a finalize pass: hand over the partial fill buffer if
\* the connection is free; wait while a send is in flight, else shut it
\* down once; wait until the peer's FIN has been received.
FinalConn(a, tc) ==
    LET t == tc[1]
        c == tc[2]
        s == a.s
        s1 == IF s.fill[t] # NoBuf /\ s.conn[t][c].send = NoBuf
              THEN PrepSend([s EXCEPT !.conn[t][c].send = s.fill[t],
                                      !.fill[t] = NoBuf], t, c)
              ELSE s
        busy == s1.conn[t][c].send # NoBuf
        s2 == IF ~busy /\ ~s1.shut[t][c]
              THEN [PrepShutdown(s1, t, c) EXCEPT !.shut[t][c] = TRUE]
              ELSE s1
    IN [s |-> s2, done |-> a.done /\ ~busy /\ s2.conn[t][c].done]

\* One pass of the finalize loop over the peers and their connections.
RECURSIVE FinalLoop(_, _, _)
FinalLoop(n, a, k) ==
    IF k > NumRecvs THEN a ELSE FinalLoop(n, FinalConn(a, RecvOrder(n)[k]), k + 1)

\* The finalize loop: a pass; if not done, submit_and_get_events and drain.
\* When done: ensure(shut) of every connection, flush_batch.
FinalPass(n) ==
    LET s == node[n]
    IN /\ Live(n) /\ s.pc = "final"
       /\ \E a \in {FinalLoop(n, [s |-> s, done |-> TRUE], 1)} :
          Sets(n, CASE ~a.done -> Drain(Submit(a.s))
                    [] \E t \in Peers(n), c \in Conns : ~a.s.shut[t][c] ->
                          Fail(a.s, "shut")
                    [] OTHER -> [a.s EXCEPT !.pc = "out"])

\* while (outstanding > 0) submit_and_get_events, drain; then exit.
Outstanding(n) ==
    LET s == node[n]
    IN /\ Live(n) /\ s.pc = "out"
       /\ Sets(n, IF s.out > 0 THEN Drain(Submit(s)) ELSE [s EXCEPT !.pc = "exit"])

Worker(n) == NextMorsel(n) \/ ScanTuple(n) \/ MorselDone(n) \/ FindConn(n)
             \/ SendFull(n) \/ FinalPass(n) \/ Outstanding(n)

(***************************************************************************)
(* The kernel.  It executes a submitted request of node n when it can:    *)
(* a send when the stream has room (it copies all of the buffer), a recv  *)
(* when the stream has a message (MSG_WAITALL: a whole buffer, or res 0   *)
(* at the peer's FIN, which stays), a shutdown by appending FIN.  Each    *)
(* posts one completion.  A send on a socket already shut down for       *)
(* writing fails with -EPIPE.  Messages carry, as a ghost, the sender's   *)
(* idx.                                                                    *)
(***************************************************************************)
KSend(n, e) ==
    LET s == node[n]
        q == stream[n][e.t][e.c]
    IN /\ e.tag = "send"
       /\ IF \E i \in DOMAIN q : q[i].fin
          THEN /\ node' = [node EXCEPT ![n].kern = @ \ {e},
                                       ![n].cq = Append(@, Cqe("send", e.t, e.c, EPIPE))]
               /\ UNCHANGED stream
          ELSE /\ Len(q) < StreamCap
               /\ stream' = [stream EXCEPT ![n][e.t][e.c] =
                               Append(@, [fin |-> FALSE, data |-> s.buf[e.b].data,
                                          len |-> s.buf[e.b].idx])]
               /\ node' = [node EXCEPT ![n].kern = @ \ {e},
                                       ![n].cq = Append(@, Cqe("send", e.t, e.c, Full))]

KRecv(n, e) ==
    LET s == node[n]
        q == stream[e.t][n][e.c]
    IN /\ e.tag = "recv"
       /\ q # <<>>
       /\ IF Head(q).fin
          THEN /\ node' = [node EXCEPT ![n].kern = @ \ {e},
                                       ![n].buf[e.b].meant = 0,
                                       ![n].cq = Append(@, Cqe("recv", e.t, e.c, 0))]
               /\ UNCHANGED stream
          ELSE /\ node' = [node EXCEPT ![n].kern = @ \ {e},
                                       ![n].buf[e.b].data = Head(q).data,
                                       ![n].buf[e.b].meant = Head(q).len,
                                       ![n].cq = Append(@, Cqe("recv", e.t, e.c, Full))]
               /\ stream' = [stream EXCEPT ![e.t][n][e.c] = Tail(@)]

KShut(n, e) ==
    /\ e.tag = "shut"
    /\ stream' = [stream EXCEPT ![n][e.t][e.c] = Append(@, Fin)]
    /\ node' = [node EXCEPT ![n].kern = @ \ {e},
                            ![n].cq = Append(@, Cqe("shut", e.t, e.c, 0))]

Kernel(n) == \E e \in node[n].kern : KSend(n, e) \/ KRecv(n, e) \/ KShut(n, e)

\* Every worker has returned from run, or an ensure() ended a process.
Finished == \A n \in Nodes : node[n].pc = "exit"
Terminated == /\ Finished \/ \E n \in Nodes : ~Live(n)
              /\ UNCHANGED vars

Next == \/ \E n \in Nodes : Worker(n) \/ Kernel(n)
        \/ Terminated

Spec == Init /\ [][Next]_vars

\* The workers run on their own threads and keep running while they can;
\* the kernel completes every request it can execute.
Fairness == \A n \in Nodes : WF_vars(Worker(n)) /\ WF_vars(Kernel(n))

LiveSpec == Spec /\ Fairness

(***************************************************************************)
(* Properties.                                                             *)
(***************************************************************************)
Msg == [fin : {FALSE}, data : [1..MaxTuples -> Tuples \cup {ZeroTuple}], len : 0..MaxTuples]

TypeOK ==
    /\ \A n \in Nodes :
         /\ node[n].pc \in {"next", "scan", "findconn", "budget", "final", "out", "exit"}
         /\ node[n].fill \in [Nodes -> Bufs \cup {NoBuf}]
         /\ node[n].unused \in Seq(Bufs)
         /\ \A b \in Bufs : node[n].buf[b].idx \in 0..MaxTuples
         /\ node[n].out \in Nat
         /\ node[n].kern \subseteq [tag : {"send", "recv", "shut"}, t : Nodes,
                                    c : Conns, b : Bufs \cup {NoBuf}]
    /\ \A m, t \in Nodes, c \in Conns : \A i \in DOMAIN stream[m][t][c] :
         stream[m][t][c][i] \in Msg \cup {Fin}

\* The places that hold buffer b: the stack, a fill buffer, the send or
\* receive buffer of a connection.
Holders(s, b) ==
    Len(SelectSeq(s.unused, LAMBDA x : x = b))
    + Cardinality({t \in Nodes : s.fill[t] = b})
    + Cardinality({tc \in Nodes \X Conns : s.conn[tc[1]][tc[2]].send = b})
    + Cardinality({tc \in Nodes \X Conns : s.conn[tc[1]][tc[2]].recv = b})

\* No buffer is lost or held twice: every Buffer of a worker is, at every
\* moment, in exactly one place.  A send completion, a receive completion
\* (data or FIN), a re-armed receive and a fill buffer popped must all
\* keep this, in whatever order the completions arrive.
BufferConservation ==
    \A n \in Nodes : Live(n) => \A b \in Bufs : Holders(node[n], b) = 1

\* A buffer named by a request the kernel may still execute (prepared or
\* submitted) belongs to that request's connection: the worker never fills,
\* recycles or re-sends memory that io_uring is reading or writing.
InFlightBufferOwned ==
    \A n \in Nodes : \A e \in ToSet(node[n].sq) \cup node[n].kern :
        /\ e.tag = "send" => node[n].conn[e.t][e.c].send = e.b
        /\ e.tag = "recv" => node[n].conn[e.t][e.c].recv = e.b

\* No worker ends in an ensure() or check_iou(): the stack never runs
\* empty, a completion always finds its connection's buffer, every
\* connection is shut down at the end, and no request fails (a send after
\* the connection was shut down for writing would fail with EPIPE).
NoAbort == \A n \in Nodes : Live(n)

\* The tuples of partition n that other nodes scanned.
Incoming(n) == SetToBag({tp \in Tuples : PartOf(tp) = n /\ tp[1] # n})

\* When a worker returns from run, it has received, exactly once, every
\* tuple the other nodes scanned for it (counting the tuples their
\* senders wrote into the buffers), and no request of its ring is still
\* pending, prepared or unreaped.
DeliveredOnExit ==
    \A n \in Nodes : node[n].pc = "exit" =>
        /\ node[n].got = Incoming(n)
        /\ node[n].sq = <<>> /\ node[n].kern = {} /\ node[n].cq = <<>>

\* Every worker eventually returns from run.
AllExit == <>Finished

\* With use_hashtable, probe_table receives each tuple of partition n at
\* most once and nothing else: what drain_cqe inserts from a receive
\* buffer are tuples some node scanned for n.
NoPhantomInsert ==
    \A n \in Nodes :
        node[n].ins \sqsubseteq SetToBag({tp \in Tuples : PartOf(tp) = n})

=============

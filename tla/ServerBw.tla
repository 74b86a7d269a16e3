------------------------------ MODULE ServerBw -------------------------------
(***************************************************************************)
(* The bandwidth server of src/src/server_bw.cpp with its provided-buffer *)
(* rings (src/src/utils/iou_bufring.hpp), fed by the connections of       *)
(* src/src/client_bw.cpp.                                                  *)
(*                                                                         *)
(* main starts num_threads Workers, each a thread that runs init and then *)
(* run, and only then sets worker 0's get_workers.  Worker 0 listens with  *)
(* a multishot accept; each NEW_CLIENT completion hands the socket with   *)
(* io_uring_prep_msg_ring to the next worker, round robin, itself         *)
(* included.  The MSG_CLIENT completion creates the Client, moves one of  *)
(* the worker's BufRings into it (reg_bufs) and arms a recv, single-shot  *)
(* or multishot, with buffer select and optionally as a bundle.  Each     *)
(* receive completion gives its buffers back to the ring; res == 0        *)
(* deletes the client.  With stop_after_last a worker leaves run when it  *)
(* has no connection and no message in flight; worker 0 first wakes the  *)
(* others.                                                                 *)
(*                                                                         *)
(* One iteration of run (the CQE loop, cq_advance, the stop check and the *)
(* io_uring_submit_and_wait at the top of the next iteration) is one      *)
(* step.  The kernel is the environment: it accepts, posts msg_ring       *)
(* completions and receives, consuming ring entries at the ring's head.  *)
(* One unit of data is one client send of cfg.size bytes, which is also   *)
(* the server's buffer size.                                               *)
(*                                                                         *)
(* Modelled configuration: setup_mode DEFAULT, tcp, no reg_fds, napi,     *)
(* pin_queues or perfevent (they change no state this model tells apart). *)
(***************************************************************************)
EXTENDS Integers, Sequences, SequencesExt, FiniteSets, Bags

CONSTANTS
    T,              \* cfg.num_threads, server workers
    Clients,        \* the connections client_bw opens
    NrBufs,         \* nr_bufs of every BufRing (cfg.max_clients * 32)
    NumBrs,         \* cfg.num_brs, BufRings each worker creates in init
    BufSize,        \* cfg.size in bytes, a power of two
    Data,           \* sends a connection makes at most before the client exits
    SockCap,        \* sends the connection holds before the client's send blocks
    Modes,          \* the recv configurations: [regBufs, mshot, bundle]
    StopAfterLast,  \* cfg.stop_after_last
    NoClient,       \* the user_data of the server's own requests
    NoRing          \* a Client without a BufRing (reg_bufs off)

Workers == 0..(T - 1)
Bids == 0..(NrBufs - 1)

\* The -errno values the code meets, and the width of the ring's indices
\* (struct io_uring_buf_ring's tail and the kernel's head are __u16).
ENOBUFS == -105
EBADFD == -77
U16 == 65536

ASSUME /\ T >= 1 /\ NrBufs \in {2, 4, 8} /\ NumBrs >= 1
       /\ BufSize \in {2^i : i \in 1..20} /\ Data >= 0 /\ SockCap >= 1
       \* main: ensure(cfg.reg_bufs) when mshot_recv or recv_bundle
       /\ \A m \in Modes : (m.mshot \/ m.bundle) => m.regBufs

VARIABLES
    mode,       \* the configuration of this run, one of Modes
    spawned,    \* main: Workers constructed so far (their threads started)
    wired,      \* main: worker 0's get_workers has been assigned
    wk,         \* [Workers -> the Worker's state, see Init]
    cq,         \* [Workers -> Seq(CQE)], each ring's completion queue
    kern,       \* [Workers -> set of requests], submitted and still armed
    phase,      \* [Clients -> "idle" | "backlog" | "accepted"], in the kernel
    sent,       \* [Clients -> sends client_bw has completed]
    sock,       \* [Clients -> units queued on the server's socket]
    exited,     \* client_bw has exited, closing every connection
    owner,      \* [Clients -> the Worker that got the MSG_CLIENT, or -1]
    srv,        \* [Clients -> "none" | "live" | "deleted"], the Client object
    br,         \* [Clients -> the Client's BufRing, or NoRing]
    bytes,      \* [Clients -> client->bytes]
    crash       \* "none", or the ensure/check that ended the server

vars == <<mode, spawned, wired, wk, cq, kern, phase, sent, sock, exited, owner,
          srv, br, bytes, crash>>

(***************************************************************************)
(* BufRing.  slot is the shared array of io_uring_buf entries (their bid),  *)
(* tail the user's tail and head the kernel's; both wrap at 2^16 and the  *)
(* ring holds (tail - head) mod 2^16 entries.                              *)
(***************************************************************************)

\* The constructor: bid i in slot i, then advance(nr_bufs).
FreshRing == [slot |-> [j \in Bids |-> j], head |-> 0, tail |-> NrBufs]

Count(r) == (r.tail - r.head) % U16

\* add_from_cqe: bid = cqe->flags >> IORING_CQE_BUFFER_SHIFT (0 when the
\* CQE carries no buffer), buf_ring_add at offset 0, advance(1).
AddFromCqe(r, bid) ==
    [r EXCEPT !.slot[r.tail % NrBufs] = bid, !.tail = (@ + 1) % U16]

AddBundleFromCqeShort(r, bid, n) ==
    [r EXCEPT !.slot = [j \in Bids |-> IF (j - r.tail) % NrBufs < n - 1
                                       THEN (bid + j - r.tail) % NrBufs
                                       ELSE @[j]],
              !.tail = (@ + n - 1) % U16]

\* add_bundle_from_cqe: n buffers bid, bid+1, ... (mod nr_bufs) at offsets
\* 0..n-1, then advance(n).  Slot j is written when some offset k < n has
\* tail + k = j (mod nr_bufs), with bid + k; the last such write stays.
AddBundleFromCqe(r, bid, n) ==
    [r EXCEPT !.slot = [j \in Bids |-> IF (j - r.tail) % NrBufs < n
                                       THEN (bid + j - r.tail) % NrBufs
                                       ELSE @[j]],
              !.tail = (@ + n) % U16]

\* The buffers add_bundle_from_cqe(cqe, cqe->res) adds: n_bytes is uint32_t,
\* so a negative res is 2^32 + res bytes; the loop counts ceil(n / size).
BundleBids(res) ==
    IF res >= 0 THEN (res + BufSize - 1) \div BufSize
    ELSE (2^30 \div BufSize) * 4 - ((-res) \div BufSize)

(***************************************************************************)
(* Requests and completions.                                               *)
(***************************************************************************)
Req(op, to, tag, c, ok) == [op |-> op, to |-> to, tag |-> tag, c |-> c, ok |-> ok]
Cqe(tag, c, res, more, bid, bids) ==
    [tag |-> tag, c |-> c, res |-> res, more |-> more, bid |-> bid, bids |-> bids]

\* init: io_uring_prep_multishot_accept, user_data NEW_CLIENT.
AcceptReq == Req("accept", 0, "new", NoClient, TRUE)

\* prep_recv: recv (multishot or MSG_WAITALL) of the client, set_bg.
PrepRecv(c) == Req("recv", 0, "recv", c, TRUE)

\* target->ring.ring_fd is a ring only once the target's init has run.
RingUp(t) == wk[t].pc \in {"run", "exit"}

(***************************************************************************)
(* main.                                                                   *)
(***************************************************************************)
Init ==
    /\ mode \in Modes
    /\ spawned = 0
    /\ wired = FALSE
    /\ wk = [w \in Workers |-> [pc |-> "unborn", next |-> 0, inflight |-> 0,
                                nrConns |-> 0, doListen |-> w = 0, brs |-> 0]]
    /\ cq = [w \in Workers |-> <<>>]
    /\ kern = [w \in Workers |-> {}]
    /\ phase = [c \in Clients |-> "idle"]
    /\ sent = [c \in Clients |-> 0]
    /\ sock = [c \in Clients |-> 0]
    /\ exited = FALSE
    /\ owner = [c \in Clients |-> -1]
    /\ srv = [c \in Clients |-> "none"]
    /\ br = [c \in Clients |-> NoRing]
    /\ bytes = [c \in Clients |-> 0]
    /\ crash = "none"

\* The loop of main: make_unique<Worker>(core_id, i == 0) starts the thread.
Spawn ==
    /\ crash = "none" /\ spawned < T
    /\ wk' = [wk EXCEPT ![spawned].pc = "init"]
    /\ spawned' = spawned + 1
    /\ UNCHANGED <<mode, wired, cq, kern, phase, sent, sock, exited, owner, srv,
                   br, bytes, crash>>

\* w->get_workers = ..., after every worker has been started.
Wire ==
    /\ crash = "none" /\ spawned = T /\ ~wired
    /\ wired' = TRUE
    /\ UNCHANGED <<mode, spawned, wk, cq, kern, phase, sent, sock, exited, owner,
                   srv, br, bytes, crash>>

(***************************************************************************)
(* Worker::init, and the first io_uring_submit_and_wait of run: the ring, *)
(* num_brs BufRings of nr_bufs buffers (reg_bufs), and for worker 0 the   *)
(* listening socket and its multishot accept.                              *)
(***************************************************************************)
WorkerInit(w) ==
    /\ crash = "none" /\ wk[w].pc = "init"
    /\ wk' = [wk EXCEPT ![w].pc = "run",
                        ![w].brs = IF mode.regBufs THEN NumBrs ELSE 0]
    /\ kern' = [kern EXCEPT ![w] = IF wk[w].doListen THEN {AcceptReq} ELSE {}]
    /\ UNCHANGED <<mode, spawned, wired, cq, phase, sent, sock, exited, owner, srv,
                   br, bytes, crash>>

(***************************************************************************)
(* Worker::run, the switch on a completion's user_data.  The accumulator  *)
(* holds the worker (k), the clients' objects, the SQEs prepared (sq) and *)
(* whether an ensure or check_iou has ended the process.                  *)
(***************************************************************************)

NextWorkerPastEnd(n) == IF n + 1 > T THEN 0 ELSE n + 1

\* if (++next_worker == workers.size()) next_worker = 0;
NextWorker(n) == IF n + 1 = T THEN 0 ELSE n + 1

OnNewClientNoRotate(a, e) ==
    LET t == a.k.next
    IN CASE ~wired -> [a EXCEPT !.crash = "get_workers"]
         [] t \notin Workers -> [a EXCEPT !.crash = "out_of_range"]
         [] OTHER -> [a EXCEPT !.sq = Append(@, Req("msg", t, "client", e.c, RingUp(t))),
                               !.k.inflight = @ + 1]

\* NEW_CLIENT: ensure(get_workers); workers.at(next_worker); msg_ring the
\* fd to the target's ring_fd with MSG_CLIENT, user_data MSG_SENT.
OnNewClient(a, e) ==
    LET t == a.k.next
    IN CASE ~wired -> [a EXCEPT !.crash = "get_workers"]
         [] t \notin Workers -> [a EXCEPT !.crash = "out_of_range"]
         [] OTHER -> [a EXCEPT !.sq = Append(@, Req("msg", t, "client", e.c, RingUp(t))),
                               !.k.inflight = @ + 1,
                               !.k.next = NextWorker(@)]

OnMsgClientUncounted(w, a, e) ==
    IF mode.regBufs /\ a.k.brs = 0 THEN [a EXCEPT !.crash = "brs"]
    ELSE [a EXCEPT !.br[e.c] = IF mode.regBufs THEN FreshRing ELSE NoRing,
                   !.k.brs = IF mode.regBufs THEN @ - 1 ELSE @,
                   !.owner[e.c] = w,
                   !.srv[e.c] = "live",
                   !.sq = Append(@, PrepRecv(e.c))]

\* MSG_CLIENT: new Client; with reg_bufs ensure(brs.size() > 0) and move
\* brs.back() into it; ++nr_conns; prep_recv.
OnMsgClient(w, a, e) ==
    IF mode.regBufs /\ a.k.brs = 0 THEN [a EXCEPT !.crash = "brs"]
    ELSE [a EXCEPT !.br[e.c] = IF mode.regBufs THEN FreshRing ELSE NoRing,
                   !.k.brs = IF mode.regBufs THEN @ - 1 ELSE @,
                   !.owner[e.c] = w,
                   !.srv[e.c] = "live",
                   !.k.nrConns = @ + 1,
                   !.sq = Append(@, PrepRecv(e.c))]

\* A receive completion.  res == 0: --nr_conns, delete client (and its
\* BufRing).  Otherwise, whatever res is (-ENOBUFS included), give the
\* buffers back to the ring, count res, and re-arm unless a multishot recv
\* is still armed (IORING_CQE_F_MORE).
OnClientCqe(a, e) ==
    IF e.res = 0
    THEN [a EXCEPT !.k.nrConns = @ - 1, !.srv[e.c] = "deleted", !.br[e.c] = NoRing]
    ELSE [a EXCEPT !.br[e.c] = CASE ~mode.regBufs -> @
                                 [] ~mode.bundle -> AddFromCqe(@, e.bid)
                                 [] OTHER -> AddBundleFromCqe(@, e.bid, BundleBids(e.res)),
                   !.bytes[e.c] = @ + e.res,
                   !.sq = IF mode.mshot /\ e.more THEN @ ELSE Append(@, PrepRecv(e.c))]

HandleCqeSentKept(w, a, e) ==
    CASE a.crash # "none" -> a
      [] e.res < 0 /\ e.res # ENOBUFS -> [a EXCEPT !.crash = "check_iou"]
      [] e.tag = "new" -> OnNewClient(a, e)
      [] e.tag = "client" -> OnMsgClient(w, a, e)
      [] e.tag \in {"wake", "sent"} -> a
      [] OTHER -> OnClientCqe(a, e)

\* One completion: a negative res other than -ENOBUFS ends the process in
\* check_iou; then the switch.
HandleCqe(w, a, e) ==
    CASE a.crash # "none" -> a
      [] e.res < 0 /\ e.res # ENOBUFS -> [a EXCEPT !.crash = "check_iou"]
      [] e.tag = "new" -> OnNewClient(a, e)
      [] e.tag = "wake" -> a
      [] e.tag = "sent" -> [a EXCEPT !.k.inflight = @ - 1]
      [] e.tag = "client" -> OnMsgClient(w, a, e)
      [] OTHER -> OnClientCqe(a, e)

\* The fold step, with the accumulator bound to its value once (TLC does not
\* cache operator arguments when it computes ENABLED for fairness).
OnCqe(w, a0, e) == CHOOSE x \in {HandleCqe(w, a, e) : a \in {a0}} : TRUE

\* stop_after_last: worker 0 (do_listen), with nothing in flight, msg_rings
\* MSG_WAKE to workers 1.. and stops listening; a worker with no
\* connection and no message in flight leaves run.
Wakeups(a) ==
    [a EXCEPT !.sq = @ \o [i \in 1..(T - 1) |-> Req("msg", i, "wake", NoClient, RingUp(i))],
              !.k.inflight = @ + (T - 1),
              !.k.doListen = FALSE]

StopCheck(a) ==
    IF a.crash # "none" \/ ~StopAfterLast \/ a.k.nrConns # 0 THEN a
    ELSE LET b == CASE ~(a.k.doListen /\ a.k.inflight = 0) -> a
                    [] ~wired -> [a EXCEPT !.crash = "get_workers"]
                    [] OTHER -> Wakeups(a)
         IN IF b.crash = "none" /\ b.k.inflight = 0 THEN [b EXCEPT !.k.pc = "exit"] ELSE b

\* io_uring_for_each_cqe over everything posted, cq_advance, the stop check.
Iteration(w) ==
    LET a0 == [k |-> wk[w], owner |-> owner, srv |-> srv, br |-> br, bytes |-> bytes,
               sq |-> <<>>, crash |-> "none"]
    IN StopCheck(FoldLeft(LAMBDA a, e : OnCqe(w, a, e), a0, cq[w]))

\* A worker woken by a completion runs one iteration; unless it leaves
\* run, the SQEs it prepared are submitted at the top of the next one.
Reap(w) ==
    /\ crash = "none" /\ wk[w].pc = "run" /\ cq[w] # <<>>
    /\ \E a \in {Iteration(w)} :
         /\ wk' = [wk EXCEPT ![w] = a.k]
         /\ cq' = [cq EXCEPT ![w] = <<>>]
         /\ kern' = [kern EXCEPT ![w] = IF a.k.pc = "exit" THEN @ ELSE @ \cup ToSet(a.sq)]
         /\ owner' = a.owner /\ srv' = a.srv /\ br' = a.br /\ bytes' = a.bytes
         /\ crash' = a.crash
    /\ UNCHANGED <<mode, spawned, wired, phase, sent, sock, exited>>

(***************************************************************************)
(* The kernel.                                                             *)
(***************************************************************************)
Others == <<mode, spawned, wired, wk, sent, exited, owner, srv, bytes, crash>>

\* The multishot accept of worker 0 takes a connection off the backlog and
\* posts NEW_CLIENT with its fd and IORING_CQE_F_MORE.  It stays armed
\* whether or not the worker still reaps its ring.
KAccept(c) ==
    /\ crash = "none" /\ phase[c] = "backlog" /\ AcceptReq \in kern[0]
    /\ cq' = [cq EXCEPT ![0] = Append(@, Cqe("new", c, 0, TRUE, 0, <<>>))]
    /\ phase' = [phase EXCEPT ![c] = "accepted"]
    /\ UNCHANGED <<Others, kern, sock, br>>

\* msg_ring: to an fd that is no ring, MSG_SENT with -EBADFD; otherwise
\* the message's CQE on the target ring, then MSG_SENT on the sender's.
KMsg(w) ==
    /\ crash = "none"
    /\ \E r \in kern[w] :
         /\ r.op = "msg"
         /\ kern' = [kern EXCEPT ![w] = @ \ {r}]
         /\ cq' = IF ~r.ok
                  THEN [cq EXCEPT ![w] = Append(@, Cqe("sent", NoClient, EBADFD, FALSE, 0, <<>>))]
                  ELSE LET q == [cq EXCEPT ![r.to] = Append(@, Cqe(r.tag, r.c, 0, FALSE, 0, <<>>))]
                       IN [q EXCEPT ![w] = Append(@, Cqe("sent", NoClient, 0, FALSE, 0, <<>>))]
    /\ UNCHANGED <<Others, phase, sock, br>>

\* The recv of client c completes with e; a multishot recv stays armed.
Complete(w, r, e, keep) ==
    /\ cq' = [cq EXCEPT ![w] = Append(@, e)]
    /\ kern' = [kern EXCEPT ![w] = IF keep THEN @ ELSE @ \ {r}]

(***************************************************************************)
(* A recv of client c on worker w's ring.  At EOF with nothing queued:    *)
(* res 0.  Without reg_bufs: one send's worth into client->buf.  With     *)
(* buffer select: -ENOBUFS (and no buffer) when the ring is empty, else   *)
(* the entry at head, or for a bundle the next k entries, k at most what  *)
(* is queued.  Only the CQE of a multishot recv that goes on has F_MORE.  *)
(***************************************************************************)
KRecv(w, c) ==
    /\ crash = "none"
    /\ \E r \in kern[w] :
         /\ r.op = "recv" /\ r.c = c
         /\ \/ /\ sock[c] = 0 /\ exited
               /\ Complete(w, r, Cqe("recv", c, 0, FALSE, 0, <<>>), FALSE)
               /\ UNCHANGED <<sock, br>>
            \/ /\ sock[c] > 0 /\ ~mode.regBufs
               /\ Complete(w, r, Cqe("recv", c, BufSize, FALSE, 0, <<>>), FALSE)
               /\ sock' = [sock EXCEPT ![c] = @ - 1]
               /\ UNCHANGED br
            \/ /\ sock[c] > 0 /\ mode.regBufs /\ Count(br[c]) = 0
               /\ Complete(w, r, Cqe("recv", c, ENOBUFS, FALSE, 0, <<>>), FALSE)
               /\ UNCHANGED <<sock, br>>
            \/ /\ sock[c] > 0 /\ mode.regBufs /\ Count(br[c]) > 0
               /\ \E k \in 1..(IF mode.bundle THEN Min({sock[c], Count(br[c])}) ELSE 1) :
                    LET r0 == br[c]
                        ids == [i \in 1..k |-> r0.slot[(r0.head + i - 1) % NrBufs]]
                    IN /\ Complete(w, r, Cqe("recv", c, k * BufSize, mode.mshot, ids[1], ids),
                                   mode.mshot)
                       /\ br' = [br EXCEPT ![c].head = (@ + k) % U16]
                       /\ sock' = [sock EXCEPT ![c] = @ - k]
    /\ UNCHANGED <<Others, phase>>

(***************************************************************************)
(* client_bw: every Worker's init connects its connections (the server    *)
(* has started: the client is launched after it), run keeps one send of   *)
(* cfg.size bytes per connection in flight (MSG_WAITALL, so              *)
(* ensure(res == size) holds), and after duration main stops the workers  *)
(* and the process exits, closing every socket.                           *)
(***************************************************************************)
ServerUp == wired /\ \A w \in Workers : RingUp(w)

Connect(c) ==
    /\ crash = "none" /\ phase[c] = "idle" /\ ServerUp
    /\ phase' = [phase EXCEPT ![c] = "backlog"]
    /\ UNCHANGED <<Others, cq, kern, sock, br>>

Send(c) ==
    /\ crash = "none" /\ phase[c] # "idle" /\ ~exited
    /\ sent[c] < Data /\ sock[c] < SockCap
    /\ sent' = [sent EXCEPT ![c] = @ + 1]
    /\ sock' = [sock EXCEPT ![c] = @ + 1]
    /\ UNCHANGED <<mode, spawned, wired, wk, cq, kern, phase, exited, owner, srv,
                   br, bytes, crash>>

\* The client exits once the server has taken every connection it opened.
ClientExit ==
    /\ crash = "none" /\ ~exited /\ \A c \in Clients : phase[c] = "accepted"
    /\ exited' = TRUE
    /\ UNCHANGED <<mode, spawned, wired, wk, cq, kern, phase, sent, sock, owner,
                   srv, br, bytes, crash>>

\* Every worker has left run and the client has exited, or the server died.
Finished == \A w \in Workers : wk[w].pc = "exit"
Terminated == /\ crash # "none" \/ (Finished /\ exited)
              /\ UNCHANGED vars

Next == \/ Spawn \/ Wire
        \/ \E w \in Workers : WorkerInit(w) \/ Reap(w) \/ KMsg(w)
        \/ \E w \in Workers, c \in Clients : KRecv(w, c)
        \/ \E c \in Clients : KAccept(c) \/ Connect(c) \/ Send(c)
        \/ ClientExit
        \/ Terminated

Spec == Init /\ [][Next]_vars

(***************************************************************************)
(* Every thread runs while it can (the workers block only in              *)
(* submit_and_wait, which returns once a completion is posted), the       *)
(* kernel completes what it can complete, and client_bw's duration ends.  *)
(* Sends are not fair: the client may send any number up to Data.         *)
(***************************************************************************)
LiveSpec ==
    /\ Spec
    /\ WF_vars(Spawn) /\ WF_vars(Wire) /\ WF_vars(ClientExit)
    /\ \A w \in Workers : WF_vars(WorkerInit(w)) /\ WF_vars(Reap(w)) /\ WF_vars(KMsg(w))
    /\ \A w \in Workers, c \in Clients : WF_vars(KRecv(w, c))
    /\ \A c \in Clients : WF_vars(KAccept(c)) /\ WF_vars(Connect(c))

(***************************************************************************)
(* Properties.                                                             *)
(***************************************************************************)
Ring == [slot : [Bids -> Bids], head : 0..(U16 - 1), tail : 0..(U16 - 1)]

TypeOK ==
    /\ mode \in Modes /\ spawned \in 0..T /\ wired \in BOOLEAN
    /\ \A w \in Workers :
         /\ wk[w].pc \in {"unborn", "init", "run", "exit"}
         /\ wk[w].next \in Workers
         /\ wk[w].inflight \in Nat /\ wk[w].nrConns \in Nat
         /\ wk[w].brs \in 0..NumBrs
    /\ \A c \in Clients :
         /\ phase[c] \in {"idle", "backlog", "accepted"}
         /\ sent[c] \in 0..Data /\ sock[c] \in 0..SockCap
         /\ owner[c] \in Workers \cup {-1}
         /\ srv[c] \in {"none", "live", "deleted"}
         /\ br[c] \in Ring \cup {NoRing}

\* The buffers of client c that completions still queued on its worker's
\* ring hold (the ids the kernel took, not what the CQE says).
Held(c) ==
    LET q == cq[owner[c]]
    IN ToBag(FlattenSeq([i \in DOMAIN q |-> IF q[i].tag = "recv" /\ q[i].c = c
                                            THEN q[i].bids ELSE <<>>]))

\* The entries between head and tail.
InRing(r) == ToBag([i \in 1..Count(r) |-> r.slot[(r.head + i - 1) % NrBufs]])

(***************************************************************************)
(* Every buffer of a live client's BufRing is in exactly one place: an    *)
(* entry between the kernel's head and the user's tail, or a completion   *)
(* not yet reaped; and the ring never holds more than nr_bufs entries.    *)
(* This is what add_from_cqe and add_bundle_from_cqe, giving back the     *)
(* buffers the CQE names (its bid, and the ones after it), must keep.     *)
(***************************************************************************)
BufferConservation ==
    \A c \in Clients :
        srv[c] = "live" /\ mode.regBufs =>
            /\ Count(br[c]) <= NrBufs
            /\ InRing(br[c]) (+) Held(c) = SetToBag(Bids)

\* No ensure() or check_iou() ends the server: get_workers is set before
\* the first client is handed off, every target ring exists, a worker has
\* a BufRing for every client it gets, and no request fails.
NoAbort == crash = "none"

(***************************************************************************)
(* With stop_after_last, a worker leaves run only when no connection is   *)
(* left to serve: when every worker has left run, every connection        *)
(* client_bw opened has been handed to a worker, read to its EOF and its  *)
(* Client deleted.  Worker 0 counts only its own connections and the      *)
(* others only theirs, and a hand-off is in flight between two rings.     *)
(***************************************************************************)
ServedOnExit == Finished => \A c \in Clients : srv[c] = "deleted"

\* With stop_after_last, every worker eventually leaves run.
AllExit == <>Finished
=============================================================================

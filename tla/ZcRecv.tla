------------------------------- MODULE ZcRecv -------------------------------
(***************************************************************************)
(* src/src/zc_recv.cpp: one thread on one io_uring receiving NrConns TCP  *)
(* connections with zero-copy multishot receives (IORING_OP_RECV_ZC),     *)
(* and the peers that send to it.                                          *)
(*                                                                         *)
(* main accepts NrConns connections and prepares one multishot recv of    *)
(* cfg.size bytes on each, with the socket fd as user data.  Its loop      *)
(* submits and waits for one completion, then handles every CQE in the    *)
(* CQ: a CQE with IORING_CQE_F_MORE carries data, which process_recvzc    *)
(* hands back on the refill ring and which counts in bytes_since_last of  *)
(* the fd; the last CQE of a recv has res 0 and no F_MORE.  That last CQE *)
(* means the connection closed if no byte came since the recv was armed;  *)
(* otherwise the recv's length was used up and the recv is armed again.   *)
(*                                                                         *)
(* The kernel ends a recv of length len > 0 once len bytes have come      *)
(* (posting the last CQE in the same issue as the data that used it up),  *)
(* ends any recv at EOF, and treats len 0 as no limit.  Bytes are units.  *)
(* A peer sends units while its socket has room and then closes.  The     *)
(* refill ring is not state here: process_recvzc returns each buffer in   *)
(* the step that receives it.                                              *)
(***************************************************************************)
EXTENDS Naturals, Sequences, SequencesExt

CONSTANTS
    NrConns,    \* cfg.nr_conns
    Sizes,      \* the values of cfg.size a run chooses from (0: no limit)
    FirstFd,    \* the fd accept returns for the first connection
    Slots,      \* the length of bytes_since_last (32)
    Data,       \* units each peer sends before it closes
    SockCap     \* units a socket's receive buffer holds

ASSUME NrConns >= 1 /\ FirstFd >= 1 /\ Data >= 1 /\ SockCap >= 1

Conns == 0..(NrConns - 1)
\* The fd of the i-th accepted connection: accept returns the lowest free fd.
Fd(i) == FirstFd + i

\* A completion: the user data (the fd), res, and IORING_CQE_F_MORE.
Cqe(ud, res, more) == [ud |-> ud, res |-> res, more |-> more]

VARIABLES
    size,       \* cfg.size
    pc,         \* "accept", "submit", "wait", "exit"
    accepted,   \* connections accepted so far (the loop's i)
    sq,         \* connections with a recv prepared, not yet submitted
    armed,      \* [Conns -> the armed recv's bytes left, or -1 if none]
    cq,         \* completions posted, in order
    last,       \* bytes_since_last, per connection
    bytesRecv,  \* main's bytes_recv
    done,       \* main's done
    crash,      \* an ensure, check_iou or bytes_since_last.at has failed
    sock,       \* [Conns -> units in the socket's receive buffer]
    sent,       \* [Conns -> units the peer has sent]
    fin         \* [Conns -> the peer has closed]

vars == <<size, pc, accepted, sq, armed, cq, last, bytesRecv, done, crash, sock, sent, fin>>

TypeOK ==
    /\ size \in Sizes
    /\ pc \in {"accept", "submit", "wait", "exit"}
    /\ accepted \in 0..NrConns
    /\ sq \subseteq Conns
    /\ armed \in [Conns -> -1..Data]
    /\ cq \in Seq([ud : Nat, res : 0..SockCap, more : BOOLEAN])
    /\ last \in [Conns -> 0..Data]
    /\ bytesRecv \in 0..(NrConns * Data)
    /\ done \in BOOLEAN /\ crash \in BOOLEAN
    /\ sock \in [Conns -> 0..SockCap]
    /\ sent \in [Conns -> 0..Data]
    /\ fin \in [Conns -> BOOLEAN]

Init ==
    /\ size \in Sizes
    /\ pc = "accept" /\ accepted = 0
    /\ sq = {} /\ armed = [c \in Conns |-> -1] /\ cq = <<>>
    /\ last = [c \in Conns |-> 0] /\ bytesRecv = 0
    /\ done = FALSE /\ crash = FALSE
    /\ sock = [c \in Conns |-> 0] /\ sent = [c \in Conns |-> 0]
    /\ fin = [c \in Conns |-> FALSE]

Alive == ~crash

(***************************************************************************)
(* main                                                                    *)
(***************************************************************************)

\* One turn of the accept loop: accept, and add_recvzc prepares the recv.
Accept ==
    /\ Alive /\ pc = "accept"
    /\ sq' = sq \cup {accepted}
    /\ accepted' = accepted + 1
    /\ pc' = IF accepted + 1 = NrConns THEN "submit" ELSE "accept"
    /\ UNCHANGED <<size, armed, cq, last, bytesRecv, done, crash, sock, sent, fin>>

\* The loop top: io_uring_submit_and_wait hands every prepared recv, of
\* cfg.size bytes, to the kernel.
Submit ==
    /\ Alive /\ pc = "submit"
    /\ armed' = [c \in Conns |-> IF c \in sq THEN size ELSE armed[c]]
    /\ sq' = {}
    /\ pc' = "wait"
    /\ UNCHANGED <<size, accepted, cq, last, bytesRecv, done, crash, sock, sent, fin>>

\* The handling of one CQE by the body of io_uring_for_each_cqe, on the
\* locals [last, bytes, done, crash, sq].  check_iou(res) cannot fail, as
\* no error completion is modelled; the second check_iou and the branch
\* for a data CQE without F_MORE follow the ensure that a CQE without
\* F_MORE has res 0, so they are never taken.
OnCqe(st, e) ==
    LET c == e.ud - FirstFd IN
    CASE st.crash -> st
      [] e.ud <= 0 \/ e.ud >= Slots \/ (~e.more /\ e.res # 0) -> [st EXCEPT !.crash = TRUE]
      [] e.res = 0 /\ st.last[c] = 0 -> [st EXCEPT !.done = TRUE]
      [] e.res = 0 /\ size > 0 /\ st.last[c] > size -> [st EXCEPT !.crash = TRUE]
      [] e.res = 0 -> [st EXCEPT !.last[c] = 0, !.sq = @ \cup {c}]
      [] OTHER -> [st EXCEPT !.last[c] = @ + e.res, !.bytes = @ + e.res]

\* submit_and_wait returns once a CQE is there; the loop handles the CQs
\* it finds, advances the CQ past them, and leaves if done is set.
Reap ==
    /\ Alive /\ pc = "wait" /\ cq # <<>>
    /\ LET st == FoldLeft(OnCqe, [last |-> last, bytes |-> bytesRecv, done |-> done,
                                  crash |-> FALSE, sq |-> sq], cq)
       IN /\ last' = st.last /\ bytesRecv' = st.bytes /\ done' = st.done
          /\ crash' = st.crash /\ sq' = st.sq
          /\ pc' = IF st.done THEN "exit" ELSE "submit"
    /\ cq' = <<>>
    /\ UNCHANGED <<size, accepted, armed, sock, sent, fin>>

(***************************************************************************)
(* The kernel and the peers                                                *)
(***************************************************************************)

\* The armed recv of c takes n units from the socket, at most the bytes it
\* has left: one data CQE with F_MORE and, if that used the length up,
\* the last CQE of the recv.
KData(c, n) ==
    /\ armed[c] # -1 /\ n <= sock[c]
    /\ size > 0 => n <= armed[c]
    /\ LET ends == size > 0 /\ n = armed[c]
       IN /\ cq' = cq \o <<Cqe(Fd(c), n, TRUE)>> \o (IF ends THEN <<Cqe(Fd(c), 0, FALSE)>> ELSE <<>>)
          /\ armed' = [armed EXCEPT ![c] = IF ends THEN -1 ELSE IF size > 0 THEN @ - n ELSE @]
    /\ sock' = [sock EXCEPT ![c] = @ - n]
    /\ UNCHANGED <<size, pc, accepted, sq, last, bytesRecv, done, crash, sent, fin>>

\* At EOF the armed recv ends with res 0.
KEof(c) ==
    /\ armed[c] # -1 /\ sock[c] = 0 /\ fin[c]
    /\ cq' = Append(cq, Cqe(Fd(c), 0, FALSE))
    /\ armed' = [armed EXCEPT ![c] = -1]
    /\ UNCHANGED <<size, pc, accepted, sq, last, bytesRecv, done, crash, sock, sent, fin>>

Kernel == \E c \in Conns : KEof(c) \/ \E n \in 1..SockCap : KData(c, n)

\* A peer sends one unit while its socket has room, or closes.
PeerSend(c) ==
    /\ ~fin[c] /\ sent[c] < Data /\ sock[c] < SockCap
    /\ sock' = [sock EXCEPT ![c] = @ + 1]
    /\ sent' = [sent EXCEPT ![c] = @ + 1]
    /\ UNCHANGED <<size, pc, accepted, sq, armed, cq, last, bytesRecv, done, crash, fin>>

PeerClose(c) ==
    /\ ~fin[c] /\ sent[c] = Data
    /\ fin' = [fin EXCEPT ![c] = TRUE]
    /\ UNCHANGED <<size, pc, accepted, sq, armed, cq, last, bytesRecv, done, crash, sock, sent>>

Peer == \E c \in Conns : PeerSend(c) \/ PeerClose(c)

\* The process has left the loop, or ended on a failed check.
Done == pc = "exit" \/ crash

Terminated == Done /\ UNCHANGED vars

Next == Accept \/ Submit \/ Reap \/ Kernel \/ Peer \/ Terminated

Fairness == /\ WF_vars(Accept) /\ WF_vars(Submit) /\ WF_vars(Reap)
            /\ \A c \in Conns : /\ WF_vars(PeerSend(c)) /\ WF_vars(PeerClose(c))
                                /\ WF_vars(KEof(c))
                                /\ WF_vars(\E n \in 1..SockCap : KData(c, n))

LiveSpec == Init /\ [][Next]_vars /\ Fairness

\* No ensure or bytes_since_last.at ends the receiver.
NoAbort == ~crash

\* main leaves its loop only after every peer has closed and every unit
\* the peers sent has been counted in bytes_recv.
ServedOnExit ==
    pc = "exit" => /\ \A c \in Conns : fin[c] /\ sock[c] = 0
                   /\ bytesRecv = NrConns * Data
====

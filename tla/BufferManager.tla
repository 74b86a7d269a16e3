--------------------------- MODULE BufferManager ---------------------------
(***************************************************************************)
(* The fiber-scheduled buffer manager of src/src/buffer_mgr: BufferManager *)
(* (bm.cpp, bm.hpp) over the Robin-Hood page table, driven by the          *)
(* cooperative UringReactor (kuring.hpp) and by the B-tree client's access *)
(* pattern (btree.hpp, btree.cpp, guards.hpp) in the YCSB driver           *)
(* (buffer_mgr.cpp).                                                        *)
(*                                                                         *)
(* Fibers run one at a time: a fiber runs from its resumption to its next  *)
(* yield or park, and nothing else of the process happens meanwhile.  A    *)
(* fiber's run is split into several steps here, all taken while          *)
(* rx.current is that fiber, so no other fiber can interleave; only the    *)
(* kernel (I/O completions) runs concurrently.                             *)
(***************************************************************************)
EXTENDS Integers, Sequences, SequencesExt, FiniteSets

CONSTANTS
    Workers,        \* the cfg.concurrency worker fibers of the run phase
    Loader,         \* the loader fiber of the load phase
    Evictor,        \* the eviction SleepingFiber
    NoFiber,
    NumFrames,      \* page_count = virt_size / pageSize
    MaxPid,         \* bound on allocCount (pages the workload creates)
    EvictBatch,     \* cfg.evict_batch
    FreeTargetPct,  \* cfg.free_target, in percent
    TotalIoFibers,  \* r->total_io_fibers = cfg.concurrency
    SubmitAlways,   \* cfg.submit_always
    Capacity,       \* next_pow2(page_count * page_table_factor)
    Home,           \* splitmix64(pid) & (Capacity - 1)
    Vals,           \* record contents an update may write
    Zero,           \* content of a freshly allocated (memset) page
    NoKey, NoVal

Fibers == Workers \cup {Loader, Evictor}
Bids   == 0..(NumFrames - 1)
Pids   == 0..(MaxPid - 1)

ASSUME /\ NumFrames >= 2 /\ MaxPid >= 2 /\ EvictBatch >= 1
       /\ TotalIoFibers = Cardinality(Workers) /\ SubmitAlways \in BOOLEAN
       /\ Zero \notin Vals

(* A page-table value is a BufTagged: the frame id and five flag bits.     *)
Desc == [bid : Bids, inUse : BOOLEAN, dirty : BOOLEAN, evict : BOOLEAN,
         ioLock : BOOLEAN, mark : BOOLEAN]

Tag(b) == [bid |-> b, inUse |-> FALSE, dirty |-> FALSE, evict |-> FALSE,
           ioLock |-> FALSE, mark |-> FALSE]

VARIABLES
    pt,         \* page_table entries
    hand,       \* page_table->sweep_
    bm,         \* [frames, freeList, allocCount, physUsed, toEvict, toWrite, running]
    rx,         \* the reactor: ready ring, fiber states, SQ, kernel, CQ, counters
    mem,        \* [Bids -> content] the pages array
    disk,       \* [Pids -> content] the SSD
    latest,     \* ghost: [Pids -> content] last content a fiber gave the page
    pc,         \* [Fibers -> label] where each fiber resumes
    op,         \* [Fibers -> the transaction a worker is attempting]
    loaded,     \* the loader has finished (the `loaded` flag of ycsb())
    failed      \* "none", or the ensure()/assert that ended the process

PT == INSTANCE PageTable WITH
        Keys <- Pids, Values <- Desc, table <- pt, crashed <- FALSE,
        call <- [kind |-> "none"]

vars == <<pt, hand, bm, rx, mem, disk, latest, pc, op, loaded, failed>>

NoOp == [kind |-> "none", p |-> 0, v |-> Zero, b |-> 0, fp |-> 0]

\* freeList.size() <= page_count * cfg.free_target
BelowTarget(fl) == Len(fl) * 100 <= NumFrames * FreeTargetPct

-----------------------------------------------------------------------------
(***************************************************************************)
(* Reactor primitives (BaseReactor, UringReactor).                          *)
(***************************************************************************)

\* wake(f): only a Parked fiber becomes Ready and is pushed on the ring.
Wake(r, f) ==
    IF r.state[f] = "Parked"
    THEN [r EXCEPT !.state[f] = "Ready", !.ready = Append(@, f)]
    ELSE r

\* The running fiber hops back to the reactor, Ready and pushed (yield) or
\* Parked (park).
Yield(r, f) == [r EXCEPT !.state[f] = "Ready", !.ready = Append(@, f),
                         !.current = NoFiber]
Park(r, f)  == [r EXCEPT !.state[f] = "Parked", !.current = NoFiber]

\* io_uring_submit: every prepared SQE goes to the kernel.
Submit(r) == [r EXCEPT !.inflight = @ \cup ToSet(r.sq), !.sq = <<>>]

(***************************************************************************)
(* check_submit: the adaptive submission heuristic.  With f the fibers     *)
(* seen since the first unsubmitted SQE and q the unsubmitted SQEs, it     *)
(* submits when f reaches total_io_fibers, and otherwise with probability  *)
(* exp(f - q) / exp(total_io_fibers / 4): certainly when f - q reaches     *)
(* total_io_fibers / 4, and otherwise maybe.  The set of possible results. *)
(***************************************************************************)
\* Mutant: the certain-submit threshold compared with > instead of >=.
CheckSubmitStrict(r) ==
    LET f == r.fibersSince + 1
        sub == [Submit(r) EXCEPT !.toSubmit = 0, !.fibersSince = 0]
    IN IF r.toSubmit = 0 THEN {r}
       ELSE IF SubmitAlways THEN {[Submit(r) EXCEPT !.toSubmit = 0]}
       ELSE IF f = TotalIoFibers \/ f - r.toSubmit > TotalIoFibers \div 4
            THEN {sub}
            ELSE {sub, [r EXCEPT !.fibersSince = f]}

CheckSubmit(r) ==
    LET f == r.fibersSince + 1
        sub == [Submit(r) EXCEPT !.toSubmit = 0, !.fibersSince = 0]
    IN IF r.toSubmit = 0 THEN {r}
       ELSE IF SubmitAlways THEN {[Submit(r) EXCEPT !.toSubmit = 0]}
       ELSE IF f = TotalIoFibers \/ f - r.toSubmit >= TotalIoFibers \div 4
            THEN {sub}
            ELSE {sub, [r EXCEPT !.fibersSince = f]}

(***************************************************************************)
(* io(op, prep) up to its park: one SQE is prepared, outstanding_io and    *)
(* to_submit grow, check_submit runs.  The possible reactor states.        *)
(***************************************************************************)
\* Mutant: the request is not counted in outstanding_io.
IoReadUncounted(r, f, b, p) ==
    LET r1 == [r EXCEPT !.sq = Append(@, [kind |-> "read", bid |-> b, pid |-> p,
                                          op |-> f, val |-> Zero]),
                        !.cqeLeft[f] = 1, !.toSubmit = @ + 1]
    IN {Park(r2, f) : r2 \in CheckSubmit(r1)}

IoRead(r, f, b, p) ==
    LET r1 == [r EXCEPT !.sq = Append(@, [kind |-> "read", bid |-> b, pid |-> p,
                                          op |-> f, val |-> Zero]),
                        !.cqeLeft[f] = 1,
                        !.outstanding = @ + 1, !.toSubmit = @ + 1]
    IN {Park(r2, f) : r2 \in CheckSubmit(r1)}

(***************************************************************************)
(* drain_cqe: reap every completion in ring order; an Op whose last CQE    *)
(* arrives wakes its fiber.                                                *)
(***************************************************************************)
\* Mutant: the fiber is woken only when cqe_left was already 0 before the
\* decrement (op->cqe_left-- == 0).
RECURSIVE ReapLate(_, _)
ReapLate(r, cqes) ==
    IF cqes = <<>> THEN r
    ELSE LET f  == Head(cqes).op
             r1 == [r EXCEPT !.cqeLeft[f] = @ - 1]
         IN ReapLate(IF r.cqeLeft[f] = 0 THEN Wake(r1, f) ELSE r1, Tail(cqes))

RECURSIVE Reap(_, _)
Reap(r, cqes) ==
    IF cqes = <<>> THEN r
    ELSE LET f  == Head(cqes).op
             r1 == [r EXCEPT !.cqeLeft[f] = @ - 1]
         IN Reap(IF r1.cqeLeft[f] = 0 THEN Wake(r1, f) ELSE r1, Tail(cqes))

DrainCqe(r) ==
    IF r.outstanding = 0 THEN r
    ELSE [Reap(r, r.cq) EXCEPT !.cq = <<>>, !.outstanding = @ - Len(r.cq)]

-----------------------------------------------------------------------------
(***************************************************************************)
(* BufferManager primitives on the page table.  A result record carries    *)
(* the new table and what the call did: "ok", a restart with the           *)
(* restart_ctx it leaves ("fault" for PageFaultException, "wait" for       *)
(* RestartException, "alloc" for AllocException), or "abort" with the      *)
(* failing check.                                                          *)
(***************************************************************************)
Res(st, t, ctx, x, why) == [st |-> st, t |-> t, ctx |-> ctx, x |-> x, why |-> why]

\* fixS / fixX: a miss is a page fault, an I/O-locked page a wait, and a
\* page already in use fails ensure(!in_use).  fixX also marks it dirty.
Fix(t, p, excl) ==
    LET s == PT!Find(t, p) IN
    IF s = PT!NotFound THEN Res("restart", t, "fault", p, "")
    ELSE IF t[s].val.ioLock THEN Res("restart", t, "wait", t[s].val.bid, "")
    ELSE IF t[s].val.inUse THEN Res("abort", t, "", 0, "fix_in_use")
    ELSE Res("ok", [t EXCEPT ![s].val.inUse = TRUE, ![s].val.mark = TRUE,
                             ![s].val.dirty = @ \/ excl], "", t[s].val.bid, "")

\* unfixS / unfixX: the entry must be present (the assert is compiled out
\* and a miss dereferences null) and in use; unfixX sets dirty and checks
\* that the page is not I/O-locked.
Unfix(t, p, excl) ==
    LET s == PT!Find(t, p) IN
    IF s = PT!NotFound THEN Res("abort", t, "", 0, "unfix_null")
    ELSE IF ~t[s].val.inUse THEN Res("abort", t, "", 0, "unfix_not_in_use")
    ELSE IF excl /\ t[s].val.ioLock THEN Res("abort", t, "", 0, "unfixX_io_lock")
    ELSE Res("ok", [t EXCEPT ![s].val.inUse = FALSE, ![s].val.mark = TRUE,
                             ![s].val.dirty = @ \/ excl], "", 0, "")

-----------------------------------------------------------------------------
(***************************************************************************)
(* evict(), first half: clock_sweep_next with the second-chance callback.  *)
(* The callback checks the frame's back-pointer, skips pages in use, being *)
(* read or already being evicted, clears a set mark, refuses the metadata *)
(* page, and otherwise sets evicting and queues the frame for writing      *)
(* (dirty, which it clears) or for dropping; the sweep stops when the      *)
(* batch is full.  The fold state: [t, toEvict, toWrite, done, at, why].   *)
(***************************************************************************)
SweepVisit(st, slot, frames) ==
    LET d   == st.t[slot].val
        pid == st.t[slot].key
        b   == d.bid
    IN
    IF st.done \/ st.why # "" THEN st
    ELSE IF frames[b].pid # pid THEN [st EXCEPT !.why = "evict_backptr"]
    ELSE IF d.inUse \/ d.ioLock \/ d.evict THEN st
    ELSE IF d.mark THEN [st EXCEPT !.t[slot].val.mark = FALSE]
    ELSE IF pid = 0 THEN [st EXCEPT !.why = "evict_meta"]
    ELSE LET st1 == [st EXCEPT !.t[slot].val.evict = TRUE,
                               !.t[slot].val.dirty = FALSE,
                               !.toWrite = IF d.dirty THEN Append(@, b) ELSE @,
                               !.toEvict = IF d.dirty THEN @ ELSE Append(@, b)]
         IN [st1 EXCEPT !.done = Len(st1.toEvict) + Len(st1.toWrite) = EvictBatch,
                        !.at = slot]

Sweep(t, h, frames) ==
    LET st0 == [t |-> t, toEvict |-> <<>>, toWrite |-> <<>>, done |-> FALSE,
                at |-> h, why |-> ""]
        Visit(st, slot) == SweepVisit(st, slot, frames)
        st == FoldLeft(Visit, st0, PT!SweepOrder(t, h))
    IN [st EXCEPT !.at = IF st.done THEN PT!SweepHandAfter(st.at) ELSE h]

(***************************************************************************)
(* evict(), second half: evictNow(bid) for each queued frame.  It finds    *)
(* the frame's page, checks and clears evicting, keeps the page if it was  *)
(* fixed or dirtied meanwhile, and otherwise erases it from the page table *)
(* and returns the frame to the free list.  State: [t, fl, n, why].        *)
(***************************************************************************)
\* Mutant: only a page fixed meanwhile is kept; a page dirtied meanwhile
\* is dropped anyway.
StillReferencedInUseOnly(d) == d.inUse

\* evictNow keeps a page that was fixed, or fixed exclusively, meanwhile.
StillReferenced(d) == d.inUse \/ d.dirty

\* Mutant: the frame is forgotten instead of returned to the free list.
ReleaseLost(fl, b) == fl

\* freeList.push_back(bid)
Release(fl, b) == Append(fl, b)

EvictNow(st, b, frames) ==
    LET pid == frames[b].pid
        s   == PT!Find(st.t, pid)
        d   == st.t[s].val
    IN
    IF st.why # "" THEN st
    ELSE IF s = PT!NotFound THEN [st EXCEPT !.why = "evict_null"]
    ELSE IF ~d.evict THEN [st EXCEPT !.why = "evict_not_evicting"]
    ELSE IF StillReferenced(d) THEN [st EXCEPT !.t[s].val.evict = FALSE]
    ELSE IF d.ioLock THEN [st EXCEPT !.why = "evict_io_lock"]
    ELSE [st EXCEPT !.t = PT!Erase([st.t EXCEPT ![s].val.evict = FALSE], pid).table,
                    !.fl = Release(@, b), !.n = @ + 1]

EvictAll(t, fl, bids, frames) ==
    LET Drop(st, b) == EvictNow(st, b, frames)
    IN FoldLeft(Drop, [t |-> t, fl |-> fl, n |-> 0, why |-> ""], bids)

(***************************************************************************)
(* ensureFreePages: below the free target, SleepingFiber::wakeup, which    *)
(* does nothing while the evictor counts as running and otherwise sets     *)
(* running and wakes it.                                                   *)
(***************************************************************************)
\* Mutant: wakeup() returns early when the evictor is not running (the
\* test of `running` inverted).
EnsureFreePagesInverted(b, r) ==
    IF BelowTarget(b.freeList) /\ b.running
    THEN [b |-> [b EXCEPT !.running = TRUE], r |-> Wake(r, Evictor)]
    ELSE [b |-> b, r |-> r]

EnsureFreePages(b, r) ==
    IF BelowTarget(b.freeList) /\ ~b.running
    THEN [b |-> [b EXCEPT !.running = TRUE], r |-> Wake(r, Evictor)]
    ELSE [b |-> b, r |-> r]

(***************************************************************************)
(* The descent of findLeafS / BTree::insert on the tree whose root is p:   *)
(* GuardS on the metadata page, then GuardS on p.  If p cannot be fixed,   *)
(* leaving the scope unfixes the metadata page before handleRestart.  On   *)
(* success both pages are fixed and x is p's frame.                        *)
(***************************************************************************)
\* Mutant: the restart path leaves the metadata page fixed (its guard is
\* not destroyed before handleRestart).
DescendKeepMeta(t, p) ==
    LET m == Fix(t, 0, FALSE)
        n == Fix(m.t, p, FALSE)
    IN IF m.st # "ok" THEN m ELSE n

Descend(t, p) ==
    LET m == Fix(t, 0, FALSE)
        n == Fix(m.t, p, FALSE)
        u == Unfix(n.t, 0, FALSE)
    IN IF m.st # "ok" THEN m
       ELSE IF n.st = "restart" /\ u.st = "ok" THEN [n EXCEPT !.t = u.t]
       ELSE IF n.st = "restart" THEN u
       ELSE n

\* Apply a list of unfix calls [p, excl] in order, stopping at a failure.
RECURSIVE Unfixes(_, _)
Unfixes(t, us) ==
    IF us = <<>> THEN Res("ok", t, "", 0, "")
    ELSE LET u == Unfix(t, Head(us)[1], Head(us)[2])
         IN IF u.st # "ok" THEN u ELSE Unfixes(u.t, Tail(us))

-----------------------------------------------------------------------------
Init ==
    LET t0 == [i \in PT!Slots |-> PT!EmptySlot]
        t1 == PT!Insert(t0, 0, [Tag(0) EXCEPT !.dirty = TRUE, !.mark = TRUE]).table
        t2 == PT!Insert(t1, 1, [Tag(1) EXCEPT !.dirty = TRUE, !.mark = TRUE]).table
    IN
    /\ pt = t2
    /\ hand = 0
    /\ bm = [frames     |-> [b \in Bids |-> [pid |-> IF b = 1 THEN 1 ELSE 0,
                                             waiting |-> <<>>]],
             freeList   |-> [i \in 1..(NumFrames - 2) |-> NumFrames - i],
             allocCount |-> 2,
             physUsed   |-> 2,
             toEvict    |-> <<>>,
             toWrite    |-> <<>>,
             running    |-> FALSE]
    /\ rx = [ready       |-> <<Evictor, Loader>>,
             state       |-> [f \in Fibers |-> IF f \in Workers THEN "New" ELSE "Ready"],
             toRun       |-> 0,
             current     |-> NoFiber,
             sq          |-> <<>>,
             inflight    |-> {},
             cq          |-> <<>>,
             cqeLeft     |-> [f \in Fibers |-> 0],
             outstanding |-> 0,
             toSubmit    |-> 0,
             fibersSince |-> 0]
    /\ mem = [b \in Bids |-> Zero]
    /\ disk = [p \in Pids |-> NoVal]
    /\ latest = [p \in Pids |-> Zero]
    /\ pc = [f \in Fibers |-> IF f = Evictor THEN "init" ELSE "start"]
    /\ op = [f \in Fibers |-> NoOp]
    /\ loaded = FALSE
    /\ failed = "none"

-----------------------------------------------------------------------------
(***************************************************************************)
(* Scheduler: UringReactor::run.  A round resumes the n fibers that were  *)
(* ready when it began, in ring order, then drains the CQ.  Between the    *)
(* load phase and the run phase (run(loaded) returns, the workers are      *)
(* spawned, run(stopper) starts) there is only a drain.                    *)
(***************************************************************************)
Dispatch ==
    /\ failed = "none"
    /\ rx.current = NoFiber
    /\ rx.toRun > 0
    /\ rx' = [rx EXCEPT !.ready = Tail(@), !.toRun = @ - 1,
                        !.current = Head(rx.ready),
                        !.state[Head(rx.ready)] = "Running"]
    /\ UNCHANGED <<pt, hand, bm, mem, disk, latest, pc, op, loaded, failed>>

SpawnWorkers(r) ==
    IF loaded /\ \A w \in Workers : r.state[w] = "New"
    THEN [r EXCEPT !.ready = @ \o SetToSeq(Workers),
                   !.state = [f \in Fibers |-> IF f \in Workers THEN "Ready" ELSE @[f]]]
    ELSE r

Drain ==
    /\ failed = "none"
    /\ rx.current = NoFiber
    /\ rx.toRun = 0
    /\ LET r == SpawnWorkers(DrainCqe(rx))
       IN rx' = [r EXCEPT !.toRun = Len(r.ready)]
    /\ UNCHANGED <<pt, hand, bm, mem, disk, latest, pc, op, loaded, failed>>

(***************************************************************************)
(* The kernel completes a submitted request and posts its CQE.  A read     *)
(* fills the frame from the SSD.  A write stores the frame's content at    *)
(* some moment between submission and completion: the frame may have been  *)
(* fixed and changed meanwhile (fixX does not look at the evicting bit).   *)
(***************************************************************************)
Complete(e) ==
    /\ failed = "none"
    /\ rx' = [rx EXCEPT !.inflight = @ \ {e}, !.cq = Append(@, e)]
    /\ IF e.kind = "read"
       THEN mem' = [mem EXCEPT ![e.bid] = disk[e.pid]] /\ UNCHANGED disk
       ELSE \E v \in {e.val, mem[e.bid]} :
                disk' = [disk EXCEPT ![e.pid] = v] /\ UNCHANGED mem
    /\ UNCHANGED <<pt, hand, bm, latest, pc, op, loaded, failed>>

-----------------------------------------------------------------------------
(***************************************************************************)
(* handleRestart, dispatching on restart_ctx.                              *)
(*  - alloc: yield.                                                        *)
(*  - fault (handleFault up to its park): ensureFreePages; with no free    *)
(*    frame yield; otherwise take the last free frame, insert the page     *)
(*    I/O-locked and marked, reset the frame with the faulting Op as its   *)
(*    waiting list, and issue the read (io parks).                         *)
(*  - wait (handleWait): queue this fiber's Op right after the head of the *)
(*    frame's waiting list, check the page is still I/O-locked, and park.  *)
(* b0 and r0 are the buffer manager and reactor as the caller left them.   *)
(***************************************************************************)
\* Mutant: the waiter is pushed in front of the Op that issued the read.
EnqueueWaiterFront(w, f) == <<f>> \o w

\* op.next = head->next; head->next = &op: keep the io-initiated Op first.
EnqueueWaiter(w, f) == <<Head(w), f>> \o Tail(w)

Abort(why) ==
    /\ failed' = why
    /\ UNCHANGED <<pt, hand, bm, rx, mem, disk, latest, pc, op, loaded>>

HandleRestart(f, t, ctx, x, b0, r0) ==
    \/ /\ ctx = "alloc"
       /\ rx' = Yield(r0, f)
       /\ pt' = t /\ bm' = b0
       /\ UNCHANGED <<hand, mem, disk, latest, pc, op, loaded, failed>>
    \/ /\ ctx = "fault"
       /\ LET ef  == EnsureFreePages(b0, r0)
              fl  == ef.b.freeList
              b   == Last(fl)
              ins == PT!Insert(t, x, [Tag(b) EXCEPT !.ioLock = TRUE, !.mark = TRUE])
          IN IF fl = <<>>
             THEN /\ rx' = Yield(ef.r, f)
                  /\ pt' = t /\ bm' = ef.b
                  /\ UNCHANGED <<hand, mem, disk, latest, pc, op, loaded, failed>>
             ELSE IF ins.overflow THEN Abort("pt_overflow")
             ELSE IF ~ins.inserted THEN Abort("fault_insert")
             ELSE /\ pt' = ins.table
                  /\ bm' = [ef.b EXCEPT !.freeList = Front(fl), !.physUsed = @ + 1,
                                        !.frames[b] = [pid |-> x, waiting |-> <<f>>]]
                  /\ rx' \in IoRead(ef.r, f, b, x)
                  /\ pc' = [pc EXCEPT ![f] = "faulted"]
                  /\ op' = [op EXCEPT ![f].b = b, ![f].fp = x]
                  /\ UNCHANGED <<hand, mem, disk, latest, loaded, failed>>
    \/ /\ ctx = "wait"
       /\ LET w == b0.frames[x].waiting
              s == PT!Find(t, b0.frames[x].pid)
          IN IF w = <<>> THEN Abort("wait_no_waiting")
             ELSE IF s = PT!NotFound THEN Abort("wait_null")
             ELSE IF ~t[s].val.ioLock THEN Abort("wait_not_io_lock")
             ELSE /\ bm' = [b0 EXCEPT !.frames[x].waiting = EnqueueWaiter(w, f)]
                  /\ rx' = Park(r0, f)
                  /\ pt' = t
                  /\ UNCHANGED <<hand, mem, disk, latest, pc, op, loaded, failed>>

-----------------------------------------------------------------------------
(***************************************************************************)
(* The client fibers.  The loader (ycsb.loadTable) inserts: into a leaf   *)
(* with space ("write") or, when the root leaf is full, by growing a new   *)
(* root ("grow"); it never yields between inserts and finishes once the    *)
(* workload's pages exist.  A worker (the loop in ycsb()) runs lookup1 or  *)
(* update1 ("lookup", "write") and then calls check_submit and yields.     *)
(***************************************************************************)
Running(f) == failed = "none" /\ rx.current = f

(* The operations a fiber's next transaction may be.  loadTable inserts   *)
(* ycsb_tuple_count records in key order, so a leaf fills up after a       *)
(* bounded number of inserts: here a leaf takes one insert and the next    *)
(* one splits it.  A worker's ycsb.tx() is a lookup1 or an update1.        *)
Ops(f) ==
    IF f = Loader
    THEN IF op[f].kind = "write" THEN {"grow"} ELSE {"write", "grow"}
    ELSE {"lookup", "write"}

Start(f) ==
    /\ Running(f)
    /\ pc[f] = "start"
    /\ f \in Workers \cup {Loader}
    /\ IF f = Loader /\ bm.allocCount = MaxPid
       THEN /\ loaded' = TRUE
            /\ rx' = [rx EXCEPT !.state[f] = "Finished", !.current = NoFiber]
            /\ pc' = [pc EXCEPT ![f] = "done"]
            /\ UNCHANGED op
       ELSE /\ \E k \in Ops(f),
                 p \in 1..(bm.allocCount - 1), v \in Vals :
                 op' = [op EXCEPT ![f] = [NoOp EXCEPT !.kind = k, !.p = p, !.v = v]]
            /\ pc' = [pc EXCEPT ![f] = "attempt"]
            /\ UNCHANGED <<rx, loaded>>
    /\ UNCHANGED <<pt, hand, bm, mem, disk, latest, failed>>

\* End of a transaction: a worker calls check_submit and yields; the loader
\* goes straight on to its next insert.
TxEnd(f, t) ==
    /\ pt' = t
    /\ pc' = [pc EXCEPT ![f] = "start"]
    /\ IF f = Loader THEN UNCHANGED rx
       ELSE \E r \in CheckSubmit(rx) : rx' = Yield(r, f)

(***************************************************************************)
(* One pass of the restart loop of findLeafS / updateInPlace /             *)
(* BTree::insert.  "lookup" unfixes the metadata page then the leaf;       *)
(* "write" upgrades the leaf to exclusive, writes it and unfixX's it.      *)
(* "grow" upgrades both guards and calls trySplit, whose AllocGuard either *)
(* fails (RESTART: unfixX leaf then metadata, handleRestart) or allocates  *)
(* the new root, links it (parent = std::move(newRoot) unfixX's the        *)
(* metadata page) and releases leaf and new root.                         *)
(***************************************************************************)
Attempt(f) ==
    /\ Running(f)
    /\ pc[f] = "attempt"
    /\ \E d \in {Descend(pt, op[f].p)} :
       LET o == op[f]
           lk == Unfixes(d.t, <<<<0, FALSE>>, <<o.p, FALSE>>>>)
           wr == Unfixes(d.t, <<<<0, FALSE>>, <<o.p, TRUE>>>>)
           ef == EnsureFreePages(bm, rx)
           fl == ef.b.freeList
           q  == bm.allocCount
           nb == Last(fl)
           ins == PT!Insert(d.t, q, [Tag(nb) EXCEPT !.dirty = TRUE, !.inUse = TRUE,
                                                    !.mark = TRUE])
           gf == Unfixes(d.t, <<<<o.p, TRUE>>, <<0, TRUE>>>>)
           gs == Unfixes(ins.table, <<<<0, TRUE>>, <<o.p, TRUE>>, <<q, TRUE>>>>)
       IN
       \/ d.st = "abort" /\ Abort(d.why)
       \/ d.st = "restart" /\ HandleRestart(f, d.t, d.ctx, d.x, bm, rx)
       \/ /\ d.st = "ok" /\ o.kind = "lookup"
          /\ IF lk.st # "ok" THEN Abort(lk.why)
             ELSE TxEnd(f, lk.t) /\ UNCHANGED <<hand, bm, mem, disk, latest, op, loaded, failed>>
       \/ /\ d.st = "ok" /\ o.kind = "write"
          /\ IF wr.st # "ok" THEN Abort(wr.why)
             ELSE /\ TxEnd(f, wr.t)
                  /\ mem' = [mem EXCEPT ![d.x] = o.v]
                  /\ latest' = [latest EXCEPT ![o.p] = o.v]
                  /\ UNCHANGED <<hand, bm, disk, op, loaded, failed>>
       \/ /\ d.st = "ok" /\ o.kind = "grow" /\ fl = <<>>
          /\ IF gf.st # "ok" THEN Abort(gf.why)
             ELSE HandleRestart(f, gf.t, "alloc", 0, ef.b, ef.r)
       \/ /\ d.st = "ok" /\ o.kind = "grow" /\ fl # <<>>
          /\ IF ins.overflow THEN Abort("pt_overflow")
             ELSE IF ~ins.inserted THEN Abort("alloc_insert")
             ELSE IF gs.st # "ok" THEN Abort(gs.why)
             ELSE /\ TxEnd(f, gs.t)
                  /\ bm' = [ef.b EXCEPT !.freeList = Front(fl), !.physUsed = @ + 1,
                                        !.allocCount = @ + 1,
                                        !.frames[nb] = [pid |-> q, waiting |-> <<>>]]
                  /\ mem' = [mem EXCEPT ![nb] = Zero]
                  /\ latest' = [latest EXCEPT ![q] = Zero]
                  /\ UNCHANGED <<hand, disk, op, loaded, failed>>

(***************************************************************************)
(* handleFault after its read completed: the faulting Op must still head   *)
(* the frame's waiting list; every Op queued behind it is woken in list    *)
(* order; the page's I/O lock is cleared; the restart loop goes on.        *)
(***************************************************************************)
\* Mutant: the waiting list is dropped without waking anyone.
WakeWaitersNone(r, w) == r

\* Skip self, then wake every Op queued behind it in list order.
WakeWaiters(r, w) == FoldLeft(Wake, r, Tail(w))

PostFault(f) ==
    /\ Running(f)
    /\ pc[f] = "faulted"
    /\ LET b == op[f].b
           w == bm.frames[b].waiting
           s == PT!Find(pt, op[f].fp)
       IN IF w = <<>> \/ Head(w) # f THEN Abort("fault_waiting")
          ELSE IF s = PT!NotFound THEN Abort("fault_null")
          ELSE /\ rx' = WakeWaiters(rx, w)
               /\ bm' = [bm EXCEPT !.frames[b].waiting = <<>>]
               /\ pt' = [pt EXCEPT ![s].val.ioLock = FALSE]
               /\ pc' = [pc EXCEPT ![f] = "attempt"]
               /\ UNCHANGED <<hand, mem, disk, latest, op, loaded, failed>>

-----------------------------------------------------------------------------
(***************************************************************************)
(* The eviction fiber (SleepingFiber running the loop_fn of init()).      *)
(***************************************************************************)

\* register_self, on the fiber's first resumption.
EvInit ==
    /\ Running(Evictor)
    /\ pc[Evictor] = "init"
    /\ bm' = [bm EXCEPT !.running = TRUE]
    /\ pc' = [pc EXCEPT ![Evictor] = "loop"]
    /\ UNCHANGED <<pt, hand, rx, mem, disk, latest, op, loaded, failed>>

(***************************************************************************)
(* One iteration of `while (!stop) if (loop_fn()) park();`.  Below the     *)
(* free target it runs evict(): the sweep, then either io_batch of the     *)
(* dirty victims (which submits every prepared SQE, resets the submission  *)
(* counters and parks until all writes completed) or, with nothing to      *)
(* write, evictNow of the clean victims, after which the loop goes on      *)
(* without suspending.  Above the target it parks as a SleepingFiber.      *)
(***************************************************************************)
EvLoop ==
    /\ Running(Evictor)
    /\ pc[Evictor] = "loop"
    /\ \E sw \in {Sweep(pt, hand, bm.frames)} :
       LET n  == Len(sw.toWrite)
           writes == [i \in 1..n |->
                        [kind |-> "write", bid |-> sw.toWrite[i],
                         pid |-> bm.frames[sw.toWrite[i]].pid, op |-> Evictor,
                         val |-> mem[sw.toWrite[i]]]]
           r1 == [rx EXCEPT !.sq = @ \o writes, !.cqeLeft[Evictor] = n,
                            !.outstanding = @ + n]
       IN \E ev \in {EvictAll(sw.t, bm.freeList, sw.toEvict, bm.frames)} :
       \/ /\ BelowTarget(bm.freeList)
          /\ IF sw.why # "" THEN Abort(sw.why)
             ELSE IF n > 0
             THEN /\ pt' = sw.t /\ hand' = sw.at
                  /\ bm' = [bm EXCEPT !.toEvict = sw.toEvict, !.toWrite = sw.toWrite]
                  /\ rx' = Park([Submit(r1) EXCEPT !.toSubmit = 0, !.fibersSince = 0],
                                Evictor)
                  /\ pc' = [pc EXCEPT ![Evictor] = "wrote"]
                  /\ UNCHANGED <<mem, disk, latest, op, loaded, failed>>
             ELSE IF ev.why # "" THEN Abort(ev.why)
             ELSE /\ pt' = ev.t /\ hand' = sw.at
                  /\ bm' = [bm EXCEPT !.freeList = ev.fl, !.physUsed = @ - ev.n,
                                      !.toEvict = sw.toEvict, !.toWrite = <<>>]
                  /\ UNCHANGED <<rx, mem, disk, latest, pc, op, loaded, failed>>
       \/ /\ ~BelowTarget(bm.freeList)
          /\ IF ~bm.running THEN Abort("evictor_not_running")
             ELSE /\ bm' = [bm EXCEPT !.running = FALSE]
                  /\ rx' = Park(rx, Evictor)
                  /\ UNCHANGED <<pt, hand, mem, disk, latest, pc, op, loaded, failed>>

\* evict() after io_batch returned: evictNow over toEvict, then toWrite.
EvWrote ==
    /\ Running(Evictor)
    /\ pc[Evictor] = "wrote"
    /\ \E ev \in {EvictAll(pt, bm.freeList, bm.toEvict \o bm.toWrite, bm.frames)} :
          IF ev.why # "" THEN Abort(ev.why)
          ELSE /\ pt' = ev.t
               /\ bm' = [bm EXCEPT !.freeList = ev.fl, !.physUsed = @ - ev.n]
               /\ pc' = [pc EXCEPT ![Evictor] = "loop"]
               /\ UNCHANGED <<hand, rx, mem, disk, latest, op, loaded, failed>>

\* A failed ensure() throws out of the fiber and ends the process.
Terminated ==
    /\ failed # "none"
    /\ UNCHANGED vars

-----------------------------------------------------------------------------
Step(f) ==
    IF f = Evictor THEN EvInit \/ EvLoop \/ EvWrote
    ELSE Start(f) \/ Attempt(f) \/ PostFault(f)

CompleteOf(f) == \E e \in rx.inflight : e.op = f /\ Complete(e)

Next ==
    \/ Dispatch
    \/ Drain
    \/ \E f \in Fibers : CompleteOf(f)
    \/ \E f \in Fibers : Step(f)
    \/ Terminated

(***************************************************************************)
(* Fairness: the reactor loop never stops resuming ready fibers and        *)
(* draining, a resumed fiber runs on until it suspends, and the SSD        *)
(* completes every submitted request.                                      *)
(***************************************************************************)
Fairness ==
    /\ WF_vars(Dispatch)
    /\ WF_vars(Drain)
    /\ \A f \in Fibers : WF_vars(Step(f)) /\ WF_vars(CompleteOf(f))

Spec == Init /\ [][Next]_vars /\ Fairness

-----------------------------------------------------------------------------
Labels == {"start", "attempt", "faulted", "done", "init", "loop", "wrote"}
Sqe == [kind : {"read", "write"}, bid : Bids, pid : Pids, op : Fibers,
        val : Vals \cup {Zero, NoVal}]

TypeOK ==
    /\ pt \in [PT!Slots -> [ctrl : 0..Capacity, key : Pids \cup {NoKey},
                             val : Desc \cup {NoVal}]]
    /\ hand \in PT!Slots
    /\ bm.frames \in [Bids -> [pid : Pids, waiting : Seq(Fibers)]]
    /\ bm.freeList \in Seq(Bids)
    /\ bm.allocCount \in 2..MaxPid
    /\ bm.running \in BOOLEAN
    /\ rx.state \in [Fibers -> {"New", "Ready", "Running", "Parked", "Finished"}]
    /\ rx.current \in Fibers \cup {NoFiber}
    /\ rx.outstanding \in Nat /\ rx.toSubmit \in Nat /\ rx.fibersSince \in Nat
    /\ rx.inflight \subseteq Sqe /\ rx.sq \in Seq(Sqe) /\ rx.cq \in Seq(Sqe)
    /\ mem \in [Bids -> Vals \cup {Zero, NoVal}]
    /\ disk \in [Pids -> Vals \cup {Zero, NoVal}]
    /\ pc \in [Fibers -> Labels]
    /\ failed \in STRING

Resident == {i \in PT!Slots : pt[i].ctrl # 0}

(***************************************************************************)
(* Frame accounting (fault, alloc and evictNow together): every resident   *)
(* page's frame points back at it, no two pages share a frame, a frame on  *)
(* the free list holds no page and is listed once, and physUsedCount plus  *)
(* the free list account for every frame.                                  *)
(***************************************************************************)
FrameAccounting ==
    /\ \A i \in Resident : bm.frames[pt[i].val.bid].pid = pt[i].key
    /\ \A i, j \in Resident : i # j => pt[i].val.bid # pt[j].val.bid
    /\ \A i \in Resident : pt[i].val.bid \notin ToSet(bm.freeList)
    /\ IsInjective(bm.freeList)
    /\ bm.physUsed = Cardinality(Resident)
    /\ bm.physUsed + Len(bm.freeList) = NumFrames

(***************************************************************************)
(* No update is lost across eviction and re-read: a resident page that is  *)
(* not being read holds the last content a fiber gave it, and a page that  *)
(* is not resident has that content on the SSD.  This is what the dirty    *)
(* re-check of evictNow after the write-back (bm.cpp) must guarantee while *)
(* workers keep fixing pages the evictor has already chosen.               *)
(***************************************************************************)
NoLostUpdate ==
    \A p \in 1..(bm.allocCount - 1) :
        LET s == PT!Find(pt, p) IN
        IF s = PT!NotFound THEN disk[p] = latest[p]
        ELSE ~pt[s].val.ioLock => mem[pt[s].val.bid] = latest[p]

(***************************************************************************)
(* An I/O-locked page is owned by a read in progress: its frame's waiting  *)
(* list is headed by the fiber that issued the read, still waiting to run  *)
(* the rest of handleFault for this frame.                                 *)
(***************************************************************************)
IoLockOwner ==
    \A i \in Resident : pt[i].val.ioLock =>
        LET w == bm.frames[pt[i].val.bid].waiting IN
        /\ w # <<>>
        /\ pc[Head(w)] = "faulted"
        /\ op[Head(w)].b = pt[i].val.bid

\* A request of fiber f is prepared, submitted or completed but not reaped.
Pending(f) ==
    \E e \in ToSet(rx.sq) \cup rx.inflight \cup ToSet(rx.cq) : e.op = f

(***************************************************************************)
(* No lost wakeup: every parked fiber has someone to wake it.  A fiber     *)
(* parked in io() has its request pending; one parked in handleWait is     *)
(* queued behind the fiber whose read will wake it; the evictor parked in  *)
(* io_batch has its writes pending, and parked as a SleepingFiber it has   *)
(* cleared `running`, so that the next ensureFreePages wakes it.           *)
(***************************************************************************)
NoLostWakeup ==
    \A f \in Fibers : rx.state[f] = "Parked" =>
        \/ pc[f] \in {"faulted", "wrote"} /\ rx.cqeLeft[f] > 0 /\ Pending(f)
        \/ f # Evictor /\ pc[f] = "attempt"
           /\ \E b \in Bids : LET w == bm.frames[b].waiting IN
                  w # <<>> /\ f \in ToSet(Tail(w)) /\ pc[Head(w)] = "faulted"
        \/ f = Evictor /\ pc[f] = "loop" /\ ~bm.running

(***************************************************************************)
(* Fixes never collide: no fixS/fixX finds the page already in use, and no *)
(* unfix finds it missing or not in use.  All fibers share one thread, so *)
(* this holds only if no fiber suspends (restart, I/O, yield) while one of *)
(* its guards still holds a fix: findLeafS and insert must destroy their   *)
(* guards before handleRestart and before the transaction's yield.         *)
(***************************************************************************)
GuardDiscipline ==
    failed \notin {"fix_in_use", "unfix_null", "unfix_not_in_use"}

(***************************************************************************)
(* A prepared read is never stranded: while an SQE waits in the submission *)
(* queue, some fiber can still run (and reach check_submit or io_batch) or *)
(* some completion is on its way that will wake one.  Stranded, the        *)
(* reactor loop spins on drain_cqe with nothing outstanding to reap and    *)
(* every parked fiber waits for a read the kernel never saw.               *)
(***************************************************************************)
Stranded ==
    /\ rx.sq # <<>>
    /\ rx.inflight = {} /\ rx.cq = <<>>
    /\ \A f \in Fibers : \/ rx.state[f] \in {"Parked", "Finished"}
                         \/ f \in Workers /\ ~loaded

NoStrandedRead == failed = "none" => ~Stranded

(***************************************************************************)
(* Progress: a fiber that parks waiting for I/O (a client on its read or  *)
(* on another fiber's read, the evictor in io_batch on its writes)         *)
(* eventually runs again, unless the process has aborted.  This needs      *)
(* every prepared request to be submitted by someone (check_submit at a    *)
(* worker's yield or I/O, or io_batch) and every CQE to wake its Op's      *)
(* fiber in drain_cqe.  The evictor parked as a SleepingFiber is left out: *)
(* it sleeps for good once no one needs free frames.                       *)
(***************************************************************************)
WaitsForIo(f) ==
    /\ rx.state[f] = "Parked"
    /\ f = Evictor => pc[f] = "wrote"

ParkedFibersResume ==
    \A f \in Fibers :
        WaitsForIo(f) ~> (rx.state[f] = "Running" \/ failed # "none")

(***************************************************************************)
(* The load phase ends: the loader's inserts, which yield and retry while  *)
(* no frame is free (AllocException) and fault pages back in, eventually   *)
(* all succeed, so that run(loaded) returns and the workers are spawned.   *)
(* This needs ensureFreePages to wake the sleeping evictor and the evictor *)
(* to free a frame whenever every frame is taken.                          *)
(***************************************************************************)
LoadCompletes == <>(loaded \/ failed # "none")

(***************************************************************************)
(* The metadata page is never chosen by the sweep: ensure(pid != 0) in the *)
(* eviction callback never fires.  The spec lists the fatal breaches as    *)
(* unfix misses, back-pointer mismatches and probe overflow only.         *)
(***************************************************************************)
MetaNeverEvicted == failed # "evict_meta"

=============================================================================

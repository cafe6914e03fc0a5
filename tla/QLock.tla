------------------------------- MODULE QLock --------------------------------
(***************************************************************************)
(* The queueing lock of sys/src/9/port/qlock.c: qlock, canqlock, qunlock.  *)
(*                                                                         *)
(* Every routine works on the QLock under the spin lock q->use, so its     *)
(* body is one step taken while use is held; taking the spin lock, calling *)
(* sched() and calling ready() are steps of their own, because other       *)
(* processes run in between.  The list head..tail is a sequence.           *)
(***************************************************************************)
EXTENDS Integers, Sequences, Functions

CONSTANTS Procs,    \* the processes that use the lock
          nil       \* the null pointer

ASSUME NilAssumption == nil \notin Procs

VARIABLES
  use,      \* q->use: the process inside the spin lock, or nil
  locked,   \* q->locked
  queue,    \* q->head .. q->tail, linked by qnext
  state,    \* p->state
  pc,       \* where each process is
  wake      \* the local p of qunlock: whom to ready

vars == <<use, locked, queue, state, pc, wake>>

(***************************************************************************)
(* Control points: "idle" outside; "qlock", "canqlock", "qunlock" inside   *)
(* the spin lock; "sched" queued and about to call sched(); "off" context  *)
(* saved (p->mach == nil); "held" returned with the lock; "ready" about to *)
(* call ready(wake).                                                       *)
(***************************************************************************)
InUse == {"qlock", "canqlock", "qunlock"}
PCs == InUse \cup {"idle", "sched", "off", "held", "ready"}
States == {"Running", "Queueing", "Ready"}

(***************************************************************************)
(* Types, and who is where: the spin lock belongs to the process that is   *)
(* inside it, and qunlock knows whom to ready exactly when it has to.      *)
(***************************************************************************)
TypeOK ==
  /\ use \in Procs \cup {nil}
  /\ locked \in BOOLEAN
  /\ queue \in Seq(Procs)
  /\ state \in [Procs -> States]
  /\ pc \in [Procs -> PCs]
  /\ wake \in [Procs -> Procs \cup {nil}]
  /\ \A p \in Procs : use = p <=> pc[p] \in InUse
  /\ \A p \in Procs : wake[p] = nil <=> pc[p] # "ready"

Init ==
  /\ use = nil
  /\ locked = FALSE
  /\ queue = <<>>
  /\ state = [p \in Procs |-> "Running"]
  /\ pc = [p \in Procs |-> "idle"]
  /\ wake = [p \in Procs |-> nil]

-----------------------------------------------------------------------------
\* lock(&q->use): the spin lock is free and p, at `from`, takes it.
lockuse(p, from, to) ==
  /\ pc[p] = from
  /\ use = nil
  /\ use' = p
  /\ pc' = [pc EXCEPT ![p] = to]
  /\ UNCHANGED <<locked, queue, state, wake>>

\* unlock(&q->use), leaving p at `to`.
unlockuse(p, to) ==
  /\ use' = nil
  /\ pc' = [pc EXCEPT ![p] = to]

qlock(p) == lockuse(p, "idle", "qlock")

\* The lock is free.
qlockTake(p) ==
  /\ pc[p] = "qlock"
  /\ ~locked
  /\ locked' = TRUE
  /\ unlockuse(p, "held")
  /\ UNCHANGED <<queue, state, wake>>

\* Mutant: a caller that must wait is put at the head.
qlockQueue_front(p) ==
  /\ pc[p] = "qlock"
  /\ locked
  /\ queue' = <<p>> \o queue
  /\ state' = [state EXCEPT ![p] = "Queueing"]
  /\ unlockuse(p, "sched")
  /\ UNCHANGED <<locked, wake>>

\* The lock is taken: join the queue and go to sched().
qlockQueue(p) ==
  /\ pc[p] = "qlock"
  /\ locked
  /\ queue' = Append(queue, p)
  /\ state' = [state EXCEPT ![p] = "Queueing"]
  /\ unlockuse(p, "sched")
  /\ UNCHANGED <<locked, wake>>

\* Mutant: up->state is set on the way into sched(), not under q->use.
sched_late(p) ==
  /\ pc[p] = "sched"
  /\ pc' = [pc EXCEPT ![p] = "off"]
  /\ state' = [state EXCEPT ![p] = "Queueing"]
  /\ UNCHANGED <<use, locked, queue, wake>>

\* sched() saves the context; schedinit clears p->mach, so p may be resumed.
sched(p) ==
  /\ pc[p] = "sched"
  /\ pc' = [pc EXCEPT ![p] = "off"]
  /\ UNCHANGED <<use, locked, queue, state, wake>>

\* runproc picks p, ready and off its old processor: qlock returns.
runproc(p) ==
  /\ pc[p] = "off"
  /\ state[p] = "Ready"
  /\ state' = [state EXCEPT ![p] = "Running"]
  /\ pc' = [pc EXCEPT ![p] = "held"]
  /\ UNCHANGED <<use, locked, queue, wake>>

\* canqlock gets the spin lock; had canlock failed it would return 0 at once,
\* with nothing changed.
canqlock(p) == lockuse(p, "idle", "canqlock")

canqlockTake(p) ==
  /\ pc[p] = "canqlock"
  /\ ~locked
  /\ locked' = TRUE
  /\ unlockuse(p, "held")
  /\ UNCHANGED <<queue, state, wake>>

\* Mutant: the early return forgets unlock(&q->use).
canqlockFail_nounlock(p) ==
  /\ pc[p] = "canqlock"
  /\ locked
  /\ pc' = [pc EXCEPT ![p] = "idle"]
  /\ UNCHANGED <<use, locked, queue, state, wake>>

canqlockFail(p) ==
  /\ pc[p] = "canqlock"
  /\ locked
  /\ unlockuse(p, "idle")
  /\ UNCHANGED <<locked, queue, state, wake>>

qunlock(p) == lockuse(p, "held", "qunlock")

\* Mutants: the lock is freed as well as passed; the head stays in the queue.
qunlockPass_frees(p) ==
  /\ pc[p] = "qunlock"
  /\ queue # <<>>
  /\ wake' = [wake EXCEPT ![p] = Head(queue)]
  /\ queue' = Tail(queue)
  /\ locked' = FALSE
  /\ unlockuse(p, "ready")
  /\ UNCHANGED state

qunlockPass_keepshead(p) ==
  /\ pc[p] = "qunlock"
  /\ queue # <<>>
  /\ wake' = [wake EXCEPT ![p] = Head(queue)]
  /\ unlockuse(p, "ready")
  /\ UNCHANGED <<locked, queue, state>>

\* Somebody waits: the lock stays locked and belongs to the head of the queue.
qunlockPass(p) ==
  /\ pc[p] = "qunlock"
  /\ queue # <<>>
  /\ wake' = [wake EXCEPT ![p] = Head(queue)]
  /\ queue' = Tail(queue)
  /\ unlockuse(p, "ready")
  /\ UNCHANGED <<locked, state>>

\* Nobody waits: the lock is free.
qunlockFree(p) ==
  /\ pc[p] = "qunlock"
  /\ queue = <<>>
  /\ locked' = FALSE
  /\ unlockuse(p, "idle")
  /\ UNCHANGED <<queue, state, wake>>

\* ready(p), after the spin lock was dropped.
ready(p) ==
  /\ pc[p] = "ready"
  /\ state' = [state EXCEPT ![wake[p]] = "Ready"]
  /\ wake' = [wake EXCEPT ![p] = nil]
  /\ pc' = [pc EXCEPT ![p] = "idle"]
  /\ UNCHANGED <<use, locked, queue>>

-----------------------------------------------------------------------------
\* What p does inside the kernel once it has called; p cannot choose to stop.
Step(p) ==
  \/ qlockTake(p) \/ qlockQueue(p) \/ sched(p) \/ runproc(p)
  \/ canqlockTake(p) \/ canqlockFail(p)
  \/ qunlockPass(p) \/ qunlockFree(p) \/ ready(p)

Next == \E p \in Procs : qlock(p) \/ canqlock(p) \/ qunlock(p) \/ Step(p)

(***************************************************************************)
(* A process inside the kernel keeps running, and every holder releases.   *)
(* The spin lock is contended, so a spinning tas gets it only if it wins   *)
(* infinitely often: strong fairness.  Nobody is obliged to call.          *)
(***************************************************************************)
Fairness ==
  \A p \in Procs : WF_vars(Step(p)) /\ SF_vars(qunlock(p))

Spec == Init /\ [][Next]_vars
FairSpec == Spec /\ Fairness

-----------------------------------------------------------------------------
\* p is blocked in qlock, before or after the lock has been passed to it.
Blocked(p) == pc[p] \in {"sched", "off"}

\* p owns the lock: it holds it, or qunlock took it off the queue for p.
Owner(p) ==
  \/ pc[p] \in {"held", "qunlock"}
  \/ Blocked(p) /\ p \notin Range(queue)

(***************************************************************************)
(* On return from qlock "the process has acquired the lock, and can assume *)
(* exclusive access": never two processes between qlock and qunlock.       *)
(***************************************************************************)
MutualExclusion ==
  \A p, q \in Procs : pc[p] \in {"held", "qunlock"} /\ pc[q] \in {"held", "qunlock"} => p = q

(***************************************************************************)
(* The queue is never left behind a free lock: whoever waits, there is an  *)
(* owner whose qunlock will serve the queue.  (qunlock passes the lock     *)
(* with locked still set; nothing else would wake the waiters.)            *)
(***************************************************************************)
WaitersHaveOwner ==
  queue # <<>> => locked /\ \E p \in Procs : Owner(p)

(***************************************************************************)
(* A blocked process is never forgotten nor readied twice: it is in the    *)
(* queue, or exactly one qunlock is about to ready it, or it is ready.     *)
(***************************************************************************)
BlockedOnce ==
  \A p \in Procs :
    LET readiers == {q \in Procs : pc[q] = "ready" /\ wake[q] = p}
    IN  /\ Blocked(p) =>
             \/ p \in Range(queue) /\ readiers = {} /\ state[p] = "Queueing"
             \/ p \notin Range(queue) /\ state[p] = "Queueing" /\ \E q \in Procs : readiers = {q}
             \/ p \notin Range(queue) /\ state[p] = "Ready" /\ readiers = {}
        /\ ~Blocked(p) => readiers = {} /\ state[p] = "Running"

(***************************************************************************)
(* Nobody barges in: while processes wait, a new owner is the first of the *)
(* queue, also when canqlock tries its luck.                               *)
(***************************************************************************)
NoBarging ==
  [][\A p \in Procs :
       ~Owner(p) /\ Owner(p)' => queue = <<>> \/ p = Head(queue)]_vars

(***************************************************************************)
(* qlock implements the abstract first-come first-served lock.             *)
(***************************************************************************)
holder == IF locked THEN CHOOSE p \in Procs : Owner(p) ELSE nil
Fifo == INSTANCE FifoLock WITH holder <- holder, waiters <- queue
ImplementsFifoLock == Fifo!Spec

(***************************************************************************)
(* If every holder calls qunlock, every process blocked in qlock gets the  *)
(* lock.                                                                   *)
(***************************************************************************)
QlockReturns == \A p \in Procs : Blocked(p) ~> pc[p] = "held"

=============================================================================

------------------------------- MODULE RWlock -------------------------------
(***************************************************************************)
(* The reader/writer lock of sys/src/9/port/qlock.c: rlock, canrlock,      *)
(* runlock, wlock, wunlock.                                                *)
(*                                                                         *)
(* As in QLock, a routine's body is one step under the spin lock q->use,   *)
(* and sched() and ready() are steps of their own.  The loop of wunlock    *)
(* that wakens readers is one step per reader, since a reader runs as soon *)
(* as it is ready, while the loop goes on.                                 *)
(***************************************************************************)
EXTENDS Integers, Sequences, FiniteSets, Functions

CONSTANTS Procs,    \* the processes that use the lock
          nil       \* the null pointer

ASSUME RWAssumption == IsFiniteSet(Procs) /\ nil \notin Procs

VARIABLES
  use,      \* q->use: the process inside the spin lock, or nil
  readers,  \* q->readers
  writer,   \* q->writer
  queue,    \* q->head .. q->tail, linked by qnext
  state,    \* p->state
  pc,       \* where each process is
  mode,     \* the lock a process asked for last: "R" or "W"
  wake      \* the local p of runlock and wunlock: whom to ready

vars == <<use, readers, writer, queue, state, pc, mode, wake>>

(***************************************************************************)
(* Control points: "idle" outside; InUse inside the spin lock, "wakeR"     *)
(* being the loop of wunlock; "sched" queued and about to call sched();    *)
(* "off" context saved (p->mach == nil); "held" returned with the lock;    *)
(* "ready" about to call ready(wake).                                      *)
(***************************************************************************)
InUse == {"rlock", "canrlock", "runlock", "wlock", "wunlock", "wakeR"}
PCs == InUse \cup {"idle", "sched", "off", "held", "ready"}
States == {"Running", "QueueingR", "QueueingW", "Ready"}

(***************************************************************************)
(* Types, and who is where: the spin lock belongs to the process that is   *)
(* inside it, and somebody is to be readied exactly when ready is next.    *)
(***************************************************************************)
TypeOK ==
  /\ use \in Procs \cup {nil}
  /\ readers \in Int
  /\ writer \in BOOLEAN
  /\ queue \in Seq(Procs)
  /\ state \in [Procs -> States]
  /\ pc \in [Procs -> PCs]
  /\ mode \in [Procs -> {"R", "W"}]
  /\ wake \in [Procs -> Procs \cup {nil}]
  /\ \A p \in Procs : use = p <=> pc[p] \in InUse
  /\ \A p \in Procs : wake[p] = nil <=> pc[p] # "ready"

Init ==
  /\ use = nil
  /\ readers = 0
  /\ writer = FALSE
  /\ queue = <<>>
  /\ state = [p \in Procs |-> "Running"]
  /\ pc = [p \in Procs |-> "idle"]
  /\ mode = [p \in Procs |-> "R"]
  /\ wake = [p \in Procs |-> nil]

-----------------------------------------------------------------------------
\* lock(&q->use): the spin lock is free and p takes it.
lockuse(p, from, to) ==
  /\ pc[p] = from
  /\ use = nil
  /\ use' = p
  /\ pc' = [pc EXCEPT ![p] = to]
  /\ UNCHANGED <<readers, writer, queue, state, wake>>

\* unlock(&q->use), leaving p at `to`.
unlockuse(p, to) ==
  /\ use' = nil
  /\ pc' = [pc EXCEPT ![p] = to]

\* Link up to the tail, to wait in state s.
enqueue(p, s) ==
  /\ queue' = Append(queue, p)
  /\ state' = [state EXCEPT ![p] = s]
  /\ unlockuse(p, "sched")
  /\ UNCHANGED <<readers, writer, mode, wake>>

\* Unlink the head and ready it once the spin lock is dropped.
dequeue(p) ==
  /\ wake' = [wake EXCEPT ![p] = Head(queue)]
  /\ queue' = Tail(queue)
  /\ unlockuse(p, "ready")
  /\ UNCHANGED <<state, mode>>

-----------------------------------------------------------------------------
rlock(p) ==
  /\ lockuse(p, "idle", "rlock")
  /\ mode' = [mode EXCEPT ![p] = "R"]

\* Mutant: a reader takes the lock past waiting processes.
rlockTake_barges(p) ==
  /\ pc[p] = "rlock"
  /\ ~writer
  /\ readers' = readers + 1
  /\ unlockuse(p, "held")
  /\ UNCHANGED <<writer, queue, state, mode, wake>>

\* No writer, and nobody waits: go for it.
rlockTake(p) ==
  /\ pc[p] = "rlock"
  /\ ~writer
  /\ queue = <<>>
  /\ readers' = readers + 1
  /\ unlockuse(p, "held")
  /\ UNCHANGED <<writer, queue, state, mode, wake>>

rlockQueue(p) ==
  /\ pc[p] = "rlock"
  /\ writer \/ queue # <<>>
  /\ enqueue(p, "QueueingR")

canrlock(p) ==
  /\ lockuse(p, "idle", "canrlock")
  /\ mode' = [mode EXCEPT ![p] = "R"]

canrlockTake(p) ==
  /\ pc[p] = "canrlock"
  /\ ~writer
  /\ queue = <<>>
  /\ readers' = readers + 1
  /\ unlockuse(p, "held")
  /\ UNCHANGED <<writer, queue, state, mode, wake>>

canrlockFail(p) ==
  /\ pc[p] = "canrlock"
  /\ writer \/ queue # <<>>
  /\ unlockuse(p, "idle")
  /\ UNCHANGED <<readers, writer, queue, state, mode, wake>>

runlock(p) ==
  /\ mode[p] = "R"
  /\ lockuse(p, "held", "runlock")
  /\ UNCHANGED mode

\* Other readers remain, or nobody waits.
runlockLeave(p) ==
  /\ pc[p] = "runlock"
  /\ readers' = readers - 1
  /\ readers' > 0 \/ queue = <<>>
  /\ unlockuse(p, "idle")
  /\ UNCHANGED <<writer, queue, state, mode, wake>>

\* The last reader out starts the waiting writer; NoPanic is about the
\* panic("runlock") that the third conjunct leaves out.
runlockStart(p) ==
  /\ pc[p] = "runlock"
  /\ readers' = readers - 1
  /\ ~(readers' > 0) /\ queue # <<>> /\ state[Head(queue)] = "QueueingW"
  /\ writer' = TRUE
  /\ dequeue(p)

-----------------------------------------------------------------------------
wlock(p) ==
  /\ lockuse(p, "idle", "wlock")
  /\ mode' = [mode EXCEPT ![p] = "W"]

\* Mutant: only the writer flag is looked at.
wlockTake_readers(p) ==
  /\ pc[p] = "wlock"
  /\ ~writer
  /\ writer' = TRUE
  /\ unlockuse(p, "held")
  /\ UNCHANGED <<readers, queue, state, mode, wake>>

\* Nobody has the lock and, says the code, "noone waiting, go for it".
wlockTake(p) ==
  /\ pc[p] = "wlock"
  /\ readers = 0 /\ ~writer
  /\ writer' = TRUE
  /\ unlockuse(p, "held")
  /\ UNCHANGED <<readers, queue, state, mode, wake>>

wlockQueue(p) ==
  /\ pc[p] = "wlock"
  /\ ~(readers = 0 /\ ~writer)
  /\ enqueue(p, "QueueingW")

wunlock(p) ==
  /\ mode[p] = "W"
  /\ lockuse(p, "held", "wunlock")
  /\ UNCHANGED mode

wunlockFree(p) ==
  /\ pc[p] = "wunlock"
  /\ queue = <<>>
  /\ writer' = FALSE
  /\ unlockuse(p, "idle")
  /\ UNCHANGED <<readers, queue, state, mode, wake>>

\* The next in line is a writer: writer stays set and is passed on.
wunlockPass(p) ==
  /\ pc[p] = "wunlock"
  /\ queue # <<>> /\ state[Head(queue)] = "QueueingW"
  /\ dequeue(p)
  /\ UNCHANGED <<readers, writer>>

\* The next in line is a reader: one turn of the loop that wakens readers.
wunlockReader(p) ==
  /\ pc[p] \in {"wunlock", "wakeR"}
  /\ queue # <<>> /\ state[Head(queue)] = "QueueingR"
  /\ queue' = Tail(queue)
  /\ readers' = readers + 1
  /\ state' = [state EXCEPT ![Head(queue)] = "Ready"]
  /\ pc' = [pc EXCEPT ![p] = "wakeR"]
  /\ UNCHANGED <<use, writer, mode, wake>>

\* Mutant: only the first reader is wakened.
wunlockDone_one(p) ==
  /\ pc[p] = "wakeR"
  /\ writer' = FALSE
  /\ unlockuse(p, "idle")
  /\ UNCHANGED <<readers, queue, state, mode, wake>>

\* The end of the loop.
wunlockDone(p) ==
  /\ pc[p] = "wakeR"
  /\ ~(queue # <<>> /\ state[Head(queue)] = "QueueingR")
  /\ writer' = FALSE
  /\ unlockuse(p, "idle")
  /\ UNCHANGED <<readers, queue, state, mode, wake>>

-----------------------------------------------------------------------------
\* sched() saves the context; schedinit clears p->mach, so p may be resumed.
sched(p) ==
  /\ pc[p] = "sched"
  /\ pc' = [pc EXCEPT ![p] = "off"]
  /\ UNCHANGED <<use, readers, writer, queue, state, mode, wake>>

\* runproc picks p, ready and off its old processor: rlock or wlock returns.
runproc(p) ==
  /\ pc[p] = "off"
  /\ state[p] = "Ready"
  /\ state' = [state EXCEPT ![p] = "Running"]
  /\ pc' = [pc EXCEPT ![p] = "held"]
  /\ UNCHANGED <<use, readers, writer, queue, mode, wake>>

\* ready(p), after the spin lock was dropped.
ready(p) ==
  /\ pc[p] = "ready"
  /\ state' = [state EXCEPT ![wake[p]] = "Ready"]
  /\ wake' = [wake EXCEPT ![p] = nil]
  /\ pc' = [pc EXCEPT ![p] = "idle"]
  /\ UNCHANGED <<use, readers, writer, queue, mode>>

-----------------------------------------------------------------------------
\* A call of p.
Call(p) == rlock(p) \/ canrlock(p) \/ wlock(p)
Unlock(p) == runlock(p) \/ wunlock(p)

\* What p does inside the kernel once it has called; p cannot choose to stop.
Step(p) ==
  \/ rlockTake(p) \/ rlockQueue(p) \/ canrlockTake(p) \/ canrlockFail(p)
  \/ runlockLeave(p) \/ runlockStart(p)
  \/ wlockTake(p) \/ wlockQueue(p)
  \/ wunlockFree(p) \/ wunlockPass(p) \/ wunlockReader(p) \/ wunlockDone(p)
  \/ sched(p) \/ runproc(p) \/ ready(p)

Next == \E p \in Procs : Call(p) \/ Unlock(p) \/ Step(p)

\* As for QLock: processes inside the kernel keep running, every holder
\* releases, and a spin lock free infinitely often is taken in the end.
Fairness == \A p \in Procs : WF_vars(Step(p)) /\ SF_vars(Unlock(p))

Spec == Init /\ [][Next]_vars
FairSpec == Spec /\ Fairness

-----------------------------------------------------------------------------
Blocked(p) == pc[p] \in {"sched", "off"}

\* p has the lock: it returned with it and has not given it back, or it was
\* taken off the queue to have it.
Granted(p) ==
  \/ pc[p] \in {"held", "runlock", "wunlock"}
  \/ Blocked(p) /\ p \notin Range(queue)

Readers == {p \in Procs : Granted(p) /\ mode[p] = "R"}
Writers == {p \in Procs : Granted(p) /\ mode[p] = "W"}

(***************************************************************************)
(* "Concurrent readers, but each writer has exclusive access": a process   *)
(* that has the lock for writing is alone with it; and q->readers counts   *)
(* the readers, the ones that wunlock has just wakened included.           *)
(***************************************************************************)
WriterExclusion ==
  /\ \A w \in Writers : Readers = {} /\ Writers = {w}
  /\ readers = Cardinality(Readers)

(***************************************************************************)
(* panic("runlock") and panic("wunlock") are unreachable: the last reader  *)
(* finds a writer at the head of the queue, never another reader, and      *)
(* wunlock finds a queueing process.                                       *)
(***************************************************************************)
NoPanic ==
  /\ TypeOK
  /\ queue # <<>> =>
       /\ \A p \in Procs : pc[p] = "runlock" /\ readers <= 1 => state[Head(queue)] = "QueueingW"
       /\ state[Head(queue)] \in {"QueueingR", "QueueingW"}

(***************************************************************************)
(* Nobody overtakes: while processes wait, the lock is granted to the      *)
(* first of them only.  rlock and canrlock never slip past a waiting       *)
(* writer ("punts if there are any writers waiting").                      *)
(***************************************************************************)
NoOvertaking ==
  [][\A p \in Procs :
       ~Granted(p) /\ Granted(p)' => queue = <<>> \/ p = Head(queue)]_vars

(***************************************************************************)
(* If holders release, whoever waits is served: readers do not starve      *)
(* writers, nor writers readers.                                           *)
(***************************************************************************)
WaiterServed == \A p \in Procs : Blocked(p) ~> pc[p] = "held"

=============================================================================

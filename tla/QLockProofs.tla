---------------------------- MODULE QLockProofs -----------------------------
(***************************************************************************)
(* Proofs that the queueing lock of qlock.c is a lock, for any number of   *)
(* processes.                                                              *)
(***************************************************************************)
EXTENDS QLock, ListProofs

\* The queue holds only blocked processes that nobody has readied yet.
QueueOK ==
  /\ Distinct(queue)
  /\ \A p \in Range(queue) : Blocked(p) /\ state[p] = "Queueing"

\* locked says that there is an owner; there is one at most; and nobody
\* waits for a free lock.
OwnerOK ==
  /\ \A p, q \in Procs : Owner(p) /\ Owner(q) => p = q
  /\ locked <=> \E p \in Procs : Owner(p)
  /\ ~locked => queue = <<>>

\* A process taken off the queue is readied once, by the qunlock that took it.
WakeOK ==
  /\ \A q \in Procs : pc[q] = "ready" =>
       /\ Blocked(wake[q])
       /\ state[wake[q]] = "Queueing"
       /\ wake[q] \notin Range(queue)
  /\ \A q, r \in Procs :
       pc[q] = "ready" /\ pc[r] = "ready" /\ wake[q] = wake[r] => q = r
  /\ \A p \in Procs : Blocked(p) <=> state[p] # "Running"
  /\ \A p \in Procs :
       Blocked(p) /\ p \notin Range(queue) /\ state[p] = "Queueing" =>
         \E q \in Procs : pc[q] = "ready" /\ wake[q] = p

IndInv == TypeOK /\ QueueOK /\ OwnerOK /\ WakeOK

-----------------------------------------------------------------------------
\* A QLock that is all zeros, and processes outside it, satisfy the invariant.
LEMMA InitInv == Init => IndInv
<1> SUFFICES ASSUME Init PROVE IndInv
  OBVIOUS
<1> USE NilAssumption, EmptyRange DEF Init
<1>1. TypeOK
  <2>1. queue \in Seq(Procs)
    OBVIOUS
  <2>2. use \in Procs \cup {nil} /\ locked \in BOOLEAN /\ wake \in [Procs -> Procs \cup {nil}]
    OBVIOUS
  <2>3. state \in [Procs -> States] /\ pc \in [Procs -> PCs]
    BY DEF States, PCs
  <2>4. \A p \in Procs : (use = p <=> pc[p] \in InUse) /\ (wake[p] = nil <=> pc[p] # "ready")
    BY DEF InUse
  <2> QED BY <2>1, <2>2, <2>3, <2>4 DEF TypeOK
<1>2. QueueOK
  BY DEF QueueOK
<1>3. OwnerOK
  BY DEF OwnerOK, Owner, Blocked
<1>4. WakeOK
  BY DEF WakeOK, Blocked
<1> QED BY <1>1, <1>2, <1>3, <1>4 DEF IndInv

\* Every step keeps the types; only qunlock needs to know that the queue is
\* a list without repetitions.
LEMMA NextType == IndInv /\ [Next]_vars => TypeOK'
<1> SUFFICES ASSUME TypeOK, Distinct(queue), [Next]_vars PROVE TypeOK'
  BY DEF IndInv, QueueOK
<1> USE NilAssumption DEF TypeOK, PCs, InUse, States
<1>1. ASSUME NEW p \in Procs, qlock(p) PROVE TypeOK'
  BY <1>1 DEF qlock, lockuse
<1>2. ASSUME NEW p \in Procs, canqlock(p) PROVE TypeOK'
  BY <1>2 DEF canqlock, lockuse
<1>3. ASSUME NEW p \in Procs, qunlock(p) PROVE TypeOK'
  BY <1>3 DEF qunlock, lockuse
<1>4. ASSUME NEW p \in Procs, qlockTake(p) PROVE TypeOK'
  BY <1>4 DEF qlockTake, unlockuse
<1>5. ASSUME NEW p \in Procs, canqlockTake(p) PROVE TypeOK'
  BY <1>5 DEF canqlockTake, unlockuse
<1>6. ASSUME NEW p \in Procs, qlockQueue(p) PROVE TypeOK'
  BY <1>6, AppendRange DEF qlockQueue, unlockuse
<1>7. ASSUME NEW p \in Procs, sched(p) PROVE TypeOK'
  BY <1>7 DEF sched
<1>8. ASSUME NEW p \in Procs, runproc(p) PROVE TypeOK'
  BY <1>8 DEF runproc
<1>9. ASSUME NEW p \in Procs, canqlockFail(p) PROVE TypeOK'
  BY <1>9 DEF canqlockFail, unlockuse
<1>10. ASSUME NEW p \in Procs, qunlockPass(p) PROVE TypeOK'
  BY <1>10, TailRange DEF qunlockPass, unlockuse
<1>11. ASSUME NEW p \in Procs, qunlockFree(p) PROVE TypeOK'
  BY <1>11 DEF qunlockFree, unlockuse
<1>12. ASSUME NEW p \in Procs, ready(p) PROVE TypeOK'
  BY <1>12 DEF ready
<1>13. CASE UNCHANGED vars
  BY <1>13 DEF vars
<1> QED BY <1>1, <1>2, <1>3, <1>4, <1>5, <1>6, <1>7, <1>8, <1>9, <1>10, <1>11, <1>12, <1>13 DEF Next, Step

\* Every step of qlock, canqlock, qunlock and the scheduler keeps the invariant:
\* one case per action, the queue, the owner and the wakeups in turn.
LEMMA NextInv == IndInv /\ [Next]_vars => IndInv'
<1> SUFFICES ASSUME IndInv, [Next]_vars PROVE QueueOK' /\ OwnerOK' /\ WakeOK'
  BY NextType DEF IndInv
<1> USE NilAssumption DEF IndInv, TypeOK, PCs, InUse, States, QueueOK, OwnerOK, WakeOK, Owner, Blocked
<1>1. ASSUME NEW p \in Procs, qlock(p) PROVE QueueOK' /\ OwnerOK' /\ WakeOK'
  <2>1. QueueOK'
    BY <1>1 DEF qlock, lockuse
  <2>2. OwnerOK'
    BY <1>1 DEF qlock, lockuse
  <2>3. WakeOK'
    BY <1>1 DEF qlock, lockuse
  <2> QED BY <2>1, <2>2, <2>3
<1>2. ASSUME NEW p \in Procs, canqlock(p) PROVE QueueOK' /\ OwnerOK' /\ WakeOK'
  <2>1. QueueOK'
    BY <1>2 DEF canqlock, lockuse
  <2>2. OwnerOK'
    BY <1>2 DEF canqlock, lockuse
  <2>3. WakeOK'
    BY <1>2 DEF canqlock, lockuse
  <2> QED BY <2>1, <2>2, <2>3
<1>3. ASSUME NEW p \in Procs, qunlock(p) PROVE QueueOK' /\ OwnerOK' /\ WakeOK'
  <2>1. QueueOK'
    BY <1>3 DEF qunlock, lockuse
  <2>2. OwnerOK'
    BY <1>3 DEF qunlock, lockuse
  <2>3. WakeOK'
    BY <1>3 DEF qunlock, lockuse
  <2> QED BY <2>1, <2>2, <2>3
<1>4. ASSUME NEW p \in Procs, qlockTake(p) PROVE QueueOK' /\ OwnerOK' /\ WakeOK'
  <2>1. QueueOK'
    BY <1>4, EmptyRange DEF qlockTake, unlockuse
  <2>2. OwnerOK'
    BY <1>4, EmptyRange DEF qlockTake, unlockuse
  <2>3. WakeOK'
    BY <1>4, EmptyRange DEF qlockTake, unlockuse
  <2> QED BY <2>1, <2>2, <2>3
<1>5. ASSUME NEW p \in Procs, canqlockTake(p) PROVE QueueOK' /\ OwnerOK' /\ WakeOK'
  <2>1. QueueOK'
    BY <1>5, EmptyRange DEF canqlockTake, unlockuse
  <2>2. OwnerOK'
    BY <1>5, EmptyRange DEF canqlockTake, unlockuse
  <2>3. WakeOK'
    BY <1>5, EmptyRange DEF canqlockTake, unlockuse
  <2> QED BY <2>1, <2>2, <2>3
<1>6. ASSUME NEW p \in Procs, qlockQueue(p) PROVE QueueOK' /\ OwnerOK' /\ WakeOK'
  <2>1. QueueOK'
    BY <1>6, AppendRange DEF qlockQueue, unlockuse
  <2>2. OwnerOK'
    BY <1>6, AppendRange DEF qlockQueue, unlockuse
  <2>3. WakeOK'
    BY <1>6, AppendRange DEF qlockQueue, unlockuse
  <2> QED BY <2>1, <2>2, <2>3
<1>7. ASSUME NEW p \in Procs, sched(p) PROVE QueueOK' /\ OwnerOK' /\ WakeOK'
  <2>1. QueueOK'
    BY <1>7 DEF sched
  <2>2. OwnerOK'
    BY <1>7 DEF sched
  <2>3. WakeOK'
    BY <1>7 DEF sched
  <2> QED BY <2>1, <2>2, <2>3
<1>8. ASSUME NEW p \in Procs, runproc(p) PROVE QueueOK' /\ OwnerOK' /\ WakeOK'
  <2>1. QueueOK'
    BY <1>8 DEF runproc
  <2>2. OwnerOK'
    BY <1>8 DEF runproc
  <2>3. WakeOK'
    BY <1>8 DEF runproc
  <2> QED BY <2>1, <2>2, <2>3
<1>9. ASSUME NEW p \in Procs, canqlockFail(p) PROVE QueueOK' /\ OwnerOK' /\ WakeOK'
  <2>1. QueueOK'
    BY <1>9 DEF canqlockFail, unlockuse
  <2>2. OwnerOK'
    BY <1>9 DEF canqlockFail, unlockuse
  <2>3. WakeOK'
    BY <1>9 DEF canqlockFail, unlockuse
  <2> QED BY <2>1, <2>2, <2>3
<1>10. ASSUME NEW p \in Procs, qunlockPass(p) PROVE QueueOK' /\ OwnerOK' /\ WakeOK'
  <2>1. QueueOK'
    BY <1>10, TailRange DEF qunlockPass, unlockuse
  <2>2. OwnerOK'
    BY <1>10, TailRange DEF qunlockPass, unlockuse
  <2>3. WakeOK'
    BY <1>10, TailRange DEF qunlockPass, unlockuse
  <2> QED BY <2>1, <2>2, <2>3
<1>11. ASSUME NEW p \in Procs, qunlockFree(p) PROVE QueueOK' /\ OwnerOK' /\ WakeOK'
  <2>1. QueueOK'
    BY <1>11, EmptyRange DEF qunlockFree, unlockuse
  <2>2. OwnerOK'
    BY <1>11, EmptyRange DEF qunlockFree, unlockuse
  <2>3. WakeOK'
    BY <1>11, EmptyRange DEF qunlockFree, unlockuse
  <2> QED BY <2>1, <2>2, <2>3
<1>12. ASSUME NEW p \in Procs, ready(p) PROVE QueueOK' /\ OwnerOK' /\ WakeOK'
  <2>1. QueueOK'
    BY <1>12 DEF ready
  <2>2. OwnerOK'
    BY <1>12 DEF ready
  <2>3. WakeOK'
    BY <1>12 DEF ready
  <2> QED BY <2>1, <2>2, <2>3
<1>13. CASE UNCHANGED vars
  BY <1>13 DEF vars
<1> QED BY <1>1, <1>2, <1>3, <1>4, <1>5, <1>6, <1>7, <1>8, <1>9, <1>10, <1>11, <1>12, <1>13 DEF Next, Step

\* The inductive invariant holds in every reachable state.
THEOREM Invariance == Spec => []IndInv
BY InitInv, NextInv, PTL DEF Spec

-----------------------------------------------------------------------------
\* Types, the owner of q->use, and who has somebody to ready.
THEOREM TypeCorrect == Spec => []TypeOK
<1>1. IndInv => TypeOK
  BY DEF IndInv
<1> QED BY <1>1, Invariance, PTL

\* qlock excludes: two processes are never between qlock and qunlock.
THEOREM Exclusion == Spec => []MutualExclusion
<1>1. IndInv => MutualExclusion
  BY DEF IndInv, OwnerOK, Owner, MutualExclusion
<1> QED BY <1>1, Invariance, PTL

\* A queue always has an owner in front of it, whose qunlock will serve it.
THEOREM Served == Spec => []WaitersHaveOwner
<1>1. IndInv => WaitersHaveOwner
  BY DEF IndInv, OwnerOK, WaitersHaveOwner
<1> QED BY <1>1, Invariance, PTL

\* A process blocked in qlock is readied exactly once, after it was taken off
\* the queue.
THEOREM ReadiedOnce == Spec => []BlockedOnce
<1>1. IndInv => BlockedOnce
  <2> SUFFICES ASSUME IndInv, NEW p \in Procs
      PROVE  LET readiers == {q \in Procs : pc[q] = "ready" /\ wake[q] = p}
             IN  /\ Blocked(p) =>
                      \/ p \in Range(queue) /\ readiers = {} /\ state[p] = "Queueing"
                      \/ p \notin Range(queue) /\ state[p] = "Queueing" /\ \E q \in Procs : readiers = {q}
                      \/ p \notin Range(queue) /\ state[p] = "Ready" /\ readiers = {}
                 /\ ~Blocked(p) => readiers = {} /\ state[p] = "Running"
    BY DEF BlockedOnce
  <2> DEFINE readiers == {q \in Procs : pc[q] = "ready" /\ wake[q] = p}
  <2> USE DEF IndInv, TypeOK, QueueOK, WakeOK
  <2>1. CASE p \in Range(queue)
    BY <2>1
  <2>2. CASE p \notin Range(queue) /\ Blocked(p) /\ state[p] = "Queueing"
    <3>1. PICK q \in Procs : pc[q] = "ready" /\ wake[q] = p
      BY <2>2
    <3>2. readiers = {q}
      BY <3>1
    <3> QED BY <2>2, <3>2
  <2>3. CASE p \notin Range(queue) /\ Blocked(p) /\ state[p] # "Queueing"
    BY <2>3 DEF States
  <2>4. CASE ~Blocked(p)
    BY <2>4
  <2> QED BY <2>1, <2>2, <2>3, <2>4
<1> QED BY <1>1, Invariance, PTL

\* Nobody becomes owner past a waiting process but the first in the queue.
THEOREM FirstComeFirstServed == Spec => NoBarging
<1>1. IndInv /\ [Next]_vars =>
        [\A p \in Procs : ~Owner(p) /\ Owner(p)' => queue = <<>> \/ p = Head(queue)]_vars
  <2> SUFFICES ASSUME IndInv, [Next]_vars, NEW r \in Procs, ~Owner(r), Owner(r)', queue # <<>>
      PROVE  r = Head(queue)
    OBVIOUS
  <2> USE DEF IndInv, TypeOK, QueueOK, OwnerOK, Owner, Blocked
  <2>1. ASSUME NEW p \in Procs, qlock(p) \/ canqlock(p) \/ qunlock(p) PROVE r = Head(queue)
    BY <2>1 DEF qlock, canqlock, qunlock, lockuse
  <2>2. ASSUME NEW p \in Procs, qlockTake(p) \/ canqlockTake(p) PROVE r = Head(queue)
    BY <2>2 DEF qlockTake, canqlockTake
  <2>3. ASSUME NEW p \in Procs, qlockQueue(p) PROVE r = Head(queue)
    BY <2>3, AppendRange DEF qlockQueue, unlockuse
  <2>4. ASSUME NEW p \in Procs, sched(p) \/ runproc(p) \/ ready(p) PROVE r = Head(queue)
    BY <2>4 DEF sched, runproc, ready
  <2>5. ASSUME NEW p \in Procs, canqlockFail(p) \/ qunlockFree(p) PROVE r = Head(queue)
    BY <2>5 DEF canqlockFail, qunlockFree, unlockuse
  <2>6. ASSUME NEW p \in Procs, qunlockPass(p) PROVE r = Head(queue)
    BY <2>6, TailRange DEF qunlockPass, unlockuse
  <2>7. CASE UNCHANGED vars
    BY <2>7 DEF vars
  <2> QED BY <2>1, <2>2, <2>3, <2>4, <2>5, <2>6, <2>7 DEF Next, Step
<1> QED BY <1>1, Invariance, PTL DEF Spec, NoBarging

-----------------------------------------------------------------------------
(* Refinement: qlock.c implements the first-come first-served lock.        *)

\* The abstract holder is the one owner, or nil when there is none.
LEMMA HolderIs ==
  ASSUME IndInv
  PROVE  /\ \A p \in Procs : Owner(p) => locked /\ holder = p
         /\ ~locked => holder = nil /\ \A p \in Procs : ~Owner(p)
         /\ locked => holder \in Procs /\ Owner(holder)
<1>1. locked <=> \E p \in Procs : Owner(p)
  BY DEF IndInv, OwnerOK
<1>2. locked => holder \in Procs /\ Owner(holder)
  BY <1>1 DEF holder
<1>3. \A p \in Procs : Owner(p) => holder = p
  BY <1>1, <1>2 DEF IndInv, OwnerOK
<1> QED BY <1>1, <1>2, <1>3 DEF holder

\* The same facts about the state after a step.
LEMMA HolderWillBe ==
  ASSUME IndInv'
  PROVE  /\ \A p \in Procs : Owner(p)' => locked' /\ holder' = p
         /\ ~locked' => holder' = nil /\ \A p \in Procs : ~Owner(p)'
<1>1. locked' <=> \E p \in Procs : Owner(p)'
  BY DEF IndInv, OwnerOK
<1>2. locked' => holder' \in Procs /\ (\E p \in Procs : p = holder' /\ Owner(p)')
  BY <1>1 DEF holder
<1>3. \A p \in Procs : Owner(p)' => holder' = p
  BY <1>1, <1>2 DEF IndInv, OwnerOK
<1> QED BY <1>1, <1>2, <1>3 DEF holder

\* Two states with the same owners and the same locked have the same holder.
LEMMA HolderSame ==
  ASSUME IndInv, IndInv', locked' = locked, \A p \in Procs : Owner(p)' <=> Owner(p)
  PROVE  holder' = holder
<1>1. CASE locked
  <2>1. PICK p \in Procs : Owner(p)
    BY <1>1, HolderIs
  <2> QED BY <2>1, HolderIs, HolderWillBe
<1>2. CASE ~locked
  BY <1>2 DEF holder
<1>3. locked \in BOOLEAN
  BY DEF IndInv, TypeOK
<1> QED BY <1>1, <1>2, <1>3

\* qlock, canqlock and qunlock implement FifoLock: taking a free lock is
\* Acquire, joining the queue is Wait, qunlock is Pass or Release, and
\* everything else (spin lock, scheduler, ready) is invisible.
THEOREM Refinement == Spec => ImplementsFifoLock
<1>1. Init => Fifo!Init
  BY DEF Init, Fifo!Init, holder
<1>2. IndInv /\ IndInv' /\ [Next]_vars => [Fifo!Next]_(Fifo!vars)
  <2> SUFFICES ASSUME IndInv, IndInv', [Next]_vars PROVE Fifo!Next \/ (holder' = holder /\ queue' = queue)
    BY DEF Fifo!vars
  <2> DEFINE Same == \A q \in Procs : Owner(q)' <=> Owner(q)
  <2> USE NilAssumption
  <2>1. ASSUME NEW p \in Procs, qlock(p) \/ canqlock(p) \/ qunlock(p) PROVE holder' = holder /\ queue' = queue
    <3>1. locked' = locked /\ queue' = queue
      BY <2>1 DEF qlock, canqlock, qunlock, lockuse
    <3>2. Same
      BY <2>1 DEF qlock, canqlock, qunlock, lockuse, IndInv, TypeOK, Owner, Blocked
    <3> QED BY <3>1, <3>2, HolderSame
  <2>2. ASSUME NEW p \in Procs, sched(p) \/ runproc(p) \/ ready(p) \/ canqlockFail(p) PROVE holder' = holder /\ queue' = queue
    <3>1. locked' = locked /\ queue' = queue
      BY <2>2 DEF sched, runproc, ready, canqlockFail
    <3>2. Same
      BY <2>2 DEF sched, runproc, ready, canqlockFail, unlockuse, IndInv, TypeOK, QueueOK, Owner, Blocked
    <3> QED BY <3>1, <3>2, HolderSame
  <2>3. ASSUME NEW p \in Procs, qlockTake(p) \/ canqlockTake(p) PROVE Fifo!Acquire(p)
    <3>1. ~locked /\ locked' /\ queue' = queue /\ Owner(p)'
      BY <2>3 DEF qlockTake, canqlockTake, unlockuse, IndInv, TypeOK, Owner
    <3>2. holder = nil /\ queue = <<>> /\ holder' = p
      BY <3>1, HolderIs, HolderWillBe DEF IndInv, OwnerOK
    <3> QED BY <3>1, <3>2 DEF Fifo!Acquire
  <2>4. ASSUME NEW p \in Procs, qlockQueue(p) PROVE Fifo!Wait(p)
    <3>1. locked /\ locked' = locked /\ queue' = Append(queue, p)
      BY <2>4 DEF qlockQueue
    <3>2. Same
      BY <2>4, AppendRange DEF qlockQueue, unlockuse, IndInv, TypeOK, QueueOK, Owner, Blocked
    <3>3. holder # nil /\ holder' = holder
      BY <3>1, <3>2, HolderIs, HolderSame
    <3> QED BY <3>1, <3>3 DEF Fifo!Wait
  <2>5. ASSUME NEW p \in Procs, qunlockPass(p) PROVE Fifo!Pass
    <3>1. queue # <<>> /\ queue' = Tail(queue) /\ locked' = locked
      BY <2>5 DEF qunlockPass
    <3>2. PICK h \in Procs : h = Head(queue) /\ Owner(h)'
      BY <2>5, TailRange DEF qunlockPass, unlockuse, IndInv, TypeOK, QueueOK, Owner, Blocked
    <3>3. holder' = Head(queue)
      BY <3>2, HolderWillBe
    <3>4. locked
      BY <3>1 DEF IndInv, OwnerOK
    <3>5. holder # nil
      BY <3>4, HolderIs
    <3> QED BY <3>1, <3>3, <3>5 DEF Fifo!Pass
  <2>6. ASSUME NEW p \in Procs, qunlockFree(p) PROVE Fifo!Release
    <3>1. queue = <<>> /\ queue' = queue /\ ~locked' /\ Owner(p)
      BY <2>6 DEF qunlockFree, Owner
    <3>2. holder = p /\ holder' = nil
      BY <3>1, HolderIs, HolderWillBe
    <3> QED BY <3>1, <3>2 DEF Fifo!Release
  <2>7. CASE UNCHANGED vars
    BY <2>7, HolderSame DEF vars, Owner, Blocked
  <2> QED BY <2>1, <2>2, <2>3, <2>4, <2>5, <2>6, <2>7 DEF Next, Step, Fifo!Next
<1> QED BY <1>1, <1>2, Invariance, PTL DEF Spec, ImplementsFifoLock, Fifo!Spec

=============================================================================

---------------------------- MODULE RWlockProofs ----------------------------
(***************************************************************************)
(* Proofs that the reader/writer lock of qlock.c excludes, counts its      *)
(* readers, never panics and is first come, first served, for any number   *)
(* of processes.                                                           *)
(***************************************************************************)
EXTENDS RWlock, ListProofs, FiniteSetTheorems

\* p has the lock for writing.
GrantedW(p) == Granted(p) /\ mode[p] = "W"

\* What a process asked for agrees with where it is.
ModeOK ==
  \A p \in Procs :
    /\ pc[p] \in {"rlock", "canrlock", "runlock"} => mode[p] = "R"
    /\ pc[p] \in {"wlock", "wunlock", "wakeR"} => mode[p] = "W"

\* The queue holds only blocked processes, each waiting for what it asked
\* for, that nobody has readied yet.
QueueOK ==
  /\ Distinct(queue)
  /\ \A p \in Range(queue) :
       /\ Blocked(p)
       /\ mode[p] = "R" => state[p] = "QueueingR"
       /\ mode[p] = "W" => state[p] = "QueueingW"

\* A process taken off the queue to be readied by ready(wake) is blocked
\* until that call, and nobody else readies it.
WakeOK ==
  /\ \A q \in Procs : pc[q] = "ready" =>
       /\ Blocked(wake[q])
       /\ state[wake[q]] \in {"QueueingR", "QueueingW"}
       /\ wake[q] \notin Range(queue)
  /\ \A q, r \in Procs :
       pc[q] = "ready" /\ pc[r] = "ready" /\ wake[q] = wake[r] => q = r

\* A writer is alone; writer says that there is one, or that a wunlock is
\* handing the lock over to readers.
OwnerOK ==
  /\ \A p, q \in Procs : GrantedW(p) /\ Granted(q) => p = q
  /\ \A p \in Procs : GrantedW(p) => writer
  /\ \A p \in Procs : pc[p] = "wakeR" =>
       writer /\ readers > 0 /\ \A q \in Procs : ~GrantedW(q)
  /\ writer => \E p \in Procs : GrantedW(p) \/ pc[p] = "wakeR"

\* q->readers counts the readers.
CountOK == readers = Cardinality(Readers)

\* Without a writer there is a queue only behind readers, and then a writer
\* is its head.
WaitOK ==
  ~writer /\ queue # <<>> => readers > 0 /\ state[Head(queue)] = "QueueingW"

IndInv == TypeOK /\ ModeOK /\ QueueOK /\ WakeOK /\ OwnerOK /\ CountOK /\ WaitOK

-----------------------------------------------------------------------------
\* An RWlock that is all zeros, and processes outside it, satisfy the invariant.
LEMMA InitInv == Init => IndInv
<1> SUFFICES ASSUME Init PROVE IndInv
  OBVIOUS
<1> USE RWAssumption, EmptyRange DEF Init
<1>1. TypeOK
  <2>1. queue \in Seq(Procs) /\ readers \in Int
    OBVIOUS
  <2>2. use \in Procs \cup {nil} /\ writer \in BOOLEAN /\ wake \in [Procs -> Procs \cup {nil}]
    OBVIOUS
  <2>3. state \in [Procs -> States] /\ pc \in [Procs -> PCs] /\ mode \in [Procs -> {"R", "W"}]
    BY DEF States, PCs
  <2>4. \A p \in Procs : (use = p <=> pc[p] \in InUse) /\ (wake[p] = nil <=> pc[p] # "ready")
    BY DEF InUse
  <2> QED BY <2>1, <2>2, <2>3, <2>4 DEF TypeOK
<1>2. ModeOK /\ QueueOK /\ WakeOK /\ WaitOK
  BY DEF ModeOK, QueueOK, WakeOK, WaitOK
<1>3. OwnerOK
  BY DEF OwnerOK, GrantedW, Granted, Blocked
<1>4. CountOK
  <2>1. Readers = {}
    BY DEF Readers, Granted, Blocked
  <2> QED BY <2>1, FS_EmptySet DEF CountOK
<1> QED BY <1>1, <1>2, <1>3, <1>4 DEF IndInv

\* Every step keeps the types; unlinking needs a list without repetitions.
LEMMA NextType == IndInv /\ [Next]_vars => TypeOK'
<1> SUFFICES ASSUME TypeOK, Distinct(queue), [Next]_vars PROVE TypeOK'
  BY DEF IndInv, QueueOK
<1> USE RWAssumption DEF TypeOK, PCs, InUse, States
<1>1. ASSUME NEW p \in Procs, rlock(p) \/ canrlock(p) \/ wlock(p) PROVE TypeOK'
  BY <1>1 DEF rlock, canrlock, wlock, lockuse
<1>2. ASSUME NEW p \in Procs, runlock(p) \/ wunlock(p) PROVE TypeOK'
  BY <1>2 DEF runlock, wunlock, lockuse
<1>3. ASSUME NEW p \in Procs, rlockTake(p) \/ canrlockTake(p) PROVE TypeOK'
  BY <1>3, EmptyRange DEF rlockTake, canrlockTake, unlockuse
<1>4. ASSUME NEW p \in Procs, rlockQueue(p) PROVE TypeOK'
  BY <1>4, AppendRange DEF rlockQueue, enqueue, unlockuse
<1>5. ASSUME NEW p \in Procs, wlockQueue(p) PROVE TypeOK'
  BY <1>5, AppendRange DEF wlockQueue, enqueue, unlockuse
<1>6. ASSUME NEW p \in Procs, canrlockFail(p) PROVE TypeOK'
  BY <1>6 DEF canrlockFail, unlockuse
<1>7. ASSUME NEW p \in Procs, runlockLeave(p) PROVE TypeOK'
  BY <1>7 DEF runlockLeave, unlockuse
<1>8. ASSUME NEW p \in Procs, runlockStart(p) PROVE TypeOK'
  BY <1>8, TailRange DEF runlockStart, dequeue, unlockuse
<1>9. ASSUME NEW p \in Procs, wlockTake(p) PROVE TypeOK'
  BY <1>9 DEF wlockTake, unlockuse
<1>10. ASSUME NEW p \in Procs, wunlockFree(p) PROVE TypeOK'
  BY <1>10, EmptyRange DEF wunlockFree, unlockuse
<1>11. ASSUME NEW p \in Procs, wunlockPass(p) PROVE TypeOK'
  BY <1>11, TailRange DEF wunlockPass, dequeue, unlockuse
<1>12. ASSUME NEW p \in Procs, wunlockReader(p) PROVE TypeOK'
  BY <1>12, TailRange DEF wunlockReader
<1>13. ASSUME NEW p \in Procs, wunlockDone(p) PROVE TypeOK'
  BY <1>13 DEF wunlockDone, unlockuse
<1>14. ASSUME NEW p \in Procs, sched(p) PROVE TypeOK'
  BY <1>14 DEF sched
<1>15. ASSUME NEW p \in Procs, runproc(p) PROVE TypeOK'
  BY <1>15 DEF runproc
<1>16. ASSUME NEW p \in Procs, ready(p) PROVE TypeOK'
  BY <1>16 DEF ready
<1>17. CASE UNCHANGED vars
  BY <1>17 DEF vars
<1> QED BY <1>1, <1>2, <1>3, <1>4, <1>5, <1>6, <1>7, <1>8, <1>9, <1>10, <1>11, <1>12, <1>13, <1>14, <1>15, <1>16, <1>17 DEF Next, Call, Unlock, Step

\* Every step keeps the queue one of blocked processes, each to be readied
\* once, by the process that took it off the queue.
LEMMA NextQueue == IndInv /\ [Next]_vars => ModeOK' /\ QueueOK' /\ WakeOK'
<1> SUFFICES ASSUME TypeOK, ModeOK, QueueOK, WakeOK, [Next]_vars PROVE ModeOK' /\ QueueOK' /\ WakeOK'
  BY DEF IndInv
<1> USE RWAssumption DEF TypeOK, PCs, InUse, States, ModeOK, QueueOK, WakeOK, Blocked
<1>1. ASSUME NEW p \in Procs, rlock(p) \/ canrlock(p) \/ wlock(p) PROVE ModeOK' /\ QueueOK' /\ WakeOK'
  <2>1. ModeOK'
    BY <1>1 DEF rlock, canrlock, wlock, lockuse
  <2>2. QueueOK'
    <3>1. p \notin Range(queue) /\ queue' = queue /\ state' = state
      BY <1>1 DEF rlock, canrlock, wlock, lockuse
    <3>2. \A q \in Procs \ {p} : pc'[q] = pc[q] /\ mode'[q] = mode[q]
      BY <1>1 DEF rlock, canrlock, wlock, lockuse
    <3> QED BY <3>1, <3>2, RangeType
  <2>3. WakeOK'
    BY <1>1 DEF rlock, canrlock, wlock, lockuse
  <2> QED BY <2>1, <2>2, <2>3
<1>2. ASSUME NEW p \in Procs, runlock(p) \/ wunlock(p) PROVE ModeOK' /\ QueueOK' /\ WakeOK'
  <2>1. ModeOK'
    BY <1>2 DEF runlock, wunlock, lockuse
  <2>2. QueueOK'
    <3>1. p \notin Range(queue) /\ queue' = queue /\ state' = state
      BY <1>2 DEF runlock, wunlock, lockuse
    <3>2. \A q \in Procs \ {p} : pc'[q] = pc[q] /\ mode'[q] = mode[q]
      BY <1>2 DEF runlock, wunlock, lockuse
    <3> QED BY <3>1, <3>2, RangeType
  <2>3. WakeOK'
    BY <1>2 DEF runlock, wunlock, lockuse
  <2> QED BY <2>1, <2>2, <2>3
<1>3. ASSUME NEW p \in Procs, rlockTake(p) \/ canrlockTake(p) PROVE ModeOK' /\ QueueOK' /\ WakeOK'
  <2>1. ModeOK'
    BY <1>3, EmptyRange DEF rlockTake, canrlockTake, unlockuse
  <2>2. QueueOK'
    BY <1>3, EmptyRange DEF rlockTake, canrlockTake, unlockuse
  <2>3. WakeOK'
    BY <1>3, EmptyRange DEF rlockTake, canrlockTake, unlockuse
  <2> QED BY <2>1, <2>2, <2>3
<1>4. ASSUME NEW p \in Procs, rlockQueue(p) PROVE ModeOK' /\ QueueOK' /\ WakeOK'
  <2>1. ModeOK'
    BY <1>4, AppendRange DEF rlockQueue, enqueue, unlockuse
  <2>2. QueueOK'
    BY <1>4, AppendRange DEF rlockQueue, enqueue, unlockuse
  <2>3. WakeOK'
    BY <1>4, AppendRange DEF rlockQueue, enqueue, unlockuse
  <2> QED BY <2>1, <2>2, <2>3
<1>5. ASSUME NEW p \in Procs, wlockQueue(p) PROVE ModeOK' /\ QueueOK' /\ WakeOK'
  <2>1. ModeOK'
    BY <1>5, AppendRange DEF wlockQueue, enqueue, unlockuse
  <2>2. QueueOK'
    BY <1>5, AppendRange DEF wlockQueue, enqueue, unlockuse
  <2>3. WakeOK'
    BY <1>5, AppendRange DEF wlockQueue, enqueue, unlockuse
  <2> QED BY <2>1, <2>2, <2>3
<1>6. ASSUME NEW p \in Procs, canrlockFail(p) PROVE ModeOK' /\ QueueOK' /\ WakeOK'
  <2>1. ModeOK'
    BY <1>6 DEF canrlockFail, unlockuse
  <2>2. QueueOK'
    BY <1>6 DEF canrlockFail, unlockuse
  <2>3. WakeOK'
    BY <1>6 DEF canrlockFail, unlockuse
  <2> QED BY <2>1, <2>2, <2>3
<1>7. ASSUME NEW p \in Procs, runlockLeave(p) PROVE ModeOK' /\ QueueOK' /\ WakeOK'
  <2>1. ModeOK'
    BY <1>7 DEF runlockLeave, unlockuse
  <2>2. QueueOK'
    BY <1>7 DEF runlockLeave, unlockuse
  <2>3. WakeOK'
    BY <1>7 DEF runlockLeave, unlockuse
  <2> QED BY <2>1, <2>2, <2>3
<1>8. ASSUME NEW p \in Procs, runlockStart(p) PROVE ModeOK' /\ QueueOK' /\ WakeOK'
  <2>1. ModeOK'
    BY <1>8, TailRange DEF runlockStart, dequeue, unlockuse
  <2>2. QueueOK'
    BY <1>8, TailRange DEF runlockStart, dequeue, unlockuse
  <2>3. WakeOK'
    BY <1>8, TailRange DEF runlockStart, dequeue, unlockuse
  <2> QED BY <2>1, <2>2, <2>3
<1>9. ASSUME NEW p \in Procs, wlockTake(p) PROVE ModeOK' /\ QueueOK' /\ WakeOK'
  <2>1. ModeOK'
    BY <1>9 DEF wlockTake, unlockuse
  <2>2. QueueOK'
    BY <1>9 DEF wlockTake, unlockuse
  <2>3. WakeOK'
    BY <1>9 DEF wlockTake, unlockuse
  <2> QED BY <2>1, <2>2, <2>3
<1>10. ASSUME NEW p \in Procs, wunlockFree(p) PROVE ModeOK' /\ QueueOK' /\ WakeOK'
  <2>1. ModeOK'
    BY <1>10, EmptyRange DEF wunlockFree, unlockuse
  <2>2. QueueOK'
    BY <1>10, EmptyRange DEF wunlockFree, unlockuse
  <2>3. WakeOK'
    BY <1>10, EmptyRange DEF wunlockFree, unlockuse
  <2> QED BY <2>1, <2>2, <2>3
<1>11. ASSUME NEW p \in Procs, wunlockPass(p) PROVE ModeOK' /\ QueueOK' /\ WakeOK'
  <2>1. ModeOK'
    BY <1>11, TailRange DEF wunlockPass, dequeue, unlockuse
  <2>2. QueueOK'
    BY <1>11, TailRange DEF wunlockPass, dequeue, unlockuse
  <2>3. WakeOK'
    BY <1>11, TailRange DEF wunlockPass, dequeue, unlockuse
  <2> QED BY <2>1, <2>2, <2>3
<1>12. ASSUME NEW p \in Procs, wunlockReader(p) PROVE ModeOK' /\ QueueOK' /\ WakeOK'
  <2>1. ModeOK'
    BY <1>12, TailRange DEF wunlockReader
  <2>2. QueueOK'
    BY <1>12, TailRange DEF wunlockReader
  <2>3. WakeOK'
    BY <1>12, TailRange DEF wunlockReader
  <2> QED BY <2>1, <2>2, <2>3
<1>13. ASSUME NEW p \in Procs, wunlockDone(p) PROVE ModeOK' /\ QueueOK' /\ WakeOK'
  <2>1. ModeOK'
    BY <1>13 DEF wunlockDone, unlockuse
  <2>2. QueueOK'
    BY <1>13 DEF wunlockDone, unlockuse
  <2>3. WakeOK'
    BY <1>13 DEF wunlockDone, unlockuse
  <2> QED BY <2>1, <2>2, <2>3
<1>14. ASSUME NEW p \in Procs, sched(p) PROVE ModeOK' /\ QueueOK' /\ WakeOK'
  <2>1. ModeOK'
    BY <1>14 DEF sched
  <2>2. QueueOK'
    BY <1>14 DEF sched
  <2>3. WakeOK'
    BY <1>14 DEF sched
  <2> QED BY <2>1, <2>2, <2>3
<1>15. ASSUME NEW p \in Procs, runproc(p) PROVE ModeOK' /\ QueueOK' /\ WakeOK'
  <2>1. ModeOK'
    BY <1>15 DEF runproc
  <2>2. QueueOK'
    BY <1>15 DEF runproc
  <2>3. WakeOK'
    BY <1>15 DEF runproc
  <2> QED BY <2>1, <2>2, <2>3
<1>16. ASSUME NEW p \in Procs, ready(p) PROVE ModeOK' /\ QueueOK' /\ WakeOK'
  <2>1. ModeOK'
    BY <1>16 DEF ready
  <2>2. QueueOK'
    BY <1>16 DEF ready
  <2>3. WakeOK'
    BY <1>16 DEF ready
  <2> QED BY <2>1, <2>2, <2>3
<1>17. CASE UNCHANGED vars
  BY <1>17 DEF vars
<1> QED BY <1>1, <1>2, <1>3, <1>4, <1>5, <1>6, <1>7, <1>8, <1>9, <1>10, <1>11, <1>12, <1>13, <1>14, <1>15, <1>16, <1>17 DEF Next, Call, Unlock, Step

\* The readers are finitely many, and none exactly when there are zero.
LEMMA ReadersFinite ==
  /\ IsFiniteSet(Readers)
  /\ Cardinality(Readers) \in Nat
  /\ Cardinality(Readers) = 0 <=> Readers = {}
<1>1. Readers \subseteq Procs
  BY DEF Readers
<1>2. IsFiniteSet(Readers)
  BY <1>1, RWAssumption, FS_Subset
<1> QED BY <1>2, FS_CardinalityType, FS_EmptySet

\* Every step keeps a writer alone, the readers counted and a writer at the
\* head of a queue behind readers: who has the lock afterwards, then the
\* count of the readers, then the owners and the queue.
LEMMA NextOwner == IndInv /\ [Next]_vars => OwnerOK' /\ CountOK' /\ WaitOK'
<1> SUFFICES ASSUME TypeOK, ModeOK, QueueOK, WakeOK, OwnerOK, CountOK, WaitOK, [Next]_vars
    PROVE  OwnerOK' /\ CountOK' /\ WaitOK'
  BY DEF IndInv
<1> USE RWAssumption
<1>1. ASSUME NEW p \in Procs, rlock(p) \/ canrlock(p) \/ wlock(p) PROVE OwnerOK' /\ CountOK' /\ WaitOK'
  <2>1. \A q \in Procs : (Granted(q)' <=> Granted(q)) /\ (Granted(q) => mode'[q] = mode[q])
    BY <1>1 DEF rlock, canrlock, wlock, lockuse, TypeOK, PCs, InUse, States, QueueOK, Blocked, Granted
  <2>2. readers' = readers /\ Readers' = Readers
    BY <1>1, <2>1 DEF rlock, canrlock, wlock, lockuse, Readers
  <2>3. OwnerOK'
    BY <1>1, <2>1, <2>2 DEF rlock, canrlock, wlock, lockuse, TypeOK, InUse, OwnerOK, GrantedW
  <2>4. WaitOK'
    BY <1>1 DEF rlock, canrlock, wlock, lockuse, TypeOK, WaitOK
  <2> QED BY <2>2, <2>3, <2>4 DEF CountOK
<1>2. ASSUME NEW p \in Procs, runlock(p) \/ wunlock(p) PROVE OwnerOK' /\ CountOK' /\ WaitOK'
  <2>1. \A q \in Procs : (Granted(q)' <=> Granted(q)) /\ (Granted(q) => mode'[q] = mode[q])
    BY <1>2 DEF runlock, wunlock, lockuse, TypeOK, PCs, InUse, States, QueueOK, Blocked, Granted
  <2>2. readers' = readers /\ Readers' = Readers
    BY <1>2, <2>1 DEF runlock, wunlock, lockuse, Readers
  <2>3. OwnerOK'
    BY <1>2, <2>1, <2>2 DEF runlock, wunlock, lockuse, TypeOK, InUse, OwnerOK, GrantedW
  <2>4. WaitOK'
    BY <1>2 DEF runlock, wunlock, lockuse, TypeOK, WaitOK
  <2> QED BY <2>2, <2>3, <2>4 DEF CountOK
<1>3. ASSUME NEW p \in Procs, rlockTake(p) \/ canrlockTake(p) PROVE OwnerOK' /\ CountOK' /\ WaitOK'
  <2>1. /\ \A q \in Procs : Granted(q)' <=> Granted(q) \/ q = p
        /\ ~Granted(p) /\ mode[p] = "R" /\ mode' = mode
    BY <1>3, EmptyRange DEF rlockTake, canrlockTake, unlockuse, TypeOK, PCs, InUse, States, QueueOK, Blocked, Granted, ModeOK
  <2>2. p \notin Readers /\ Readers' = Readers \cup {p} /\ readers' = readers + 1
    BY <1>3, <2>1 DEF rlockTake, canrlockTake, unlockuse, Readers
  <2>3. CountOK'
    BY <2>2, ReadersFinite, FS_AddElement DEF CountOK
  <2>4. OwnerOK'
    BY <1>3, <2>1, <2>2 DEF rlockTake, canrlockTake, unlockuse, TypeOK, InUse, OwnerOK, GrantedW
  <2>5. WaitOK'
    BY <1>3 DEF rlockTake, canrlockTake, unlockuse, WaitOK
  <2> QED BY <2>3, <2>4, <2>5
<1>4. ASSUME NEW p \in Procs, rlockQueue(p) PROVE OwnerOK' /\ CountOK' /\ WaitOK'
  <2>1. \A q \in Procs : (Granted(q)' <=> Granted(q)) /\ (Granted(q) => mode'[q] = mode[q])
    BY <1>4, AppendRange DEF rlockQueue, enqueue, unlockuse, TypeOK, PCs, InUse, States, QueueOK, Blocked, Granted
  <2>2. readers' = readers /\ Readers' = Readers
    BY <1>4, <2>1 DEF rlockQueue, enqueue, unlockuse, Readers
  <2>3. OwnerOK'
    BY <1>4, <2>1, <2>2 DEF rlockQueue, enqueue, unlockuse, TypeOK, InUse, OwnerOK, GrantedW
  <2>4. WaitOK'
    <3>1. CASE queue = <<>>
      <4>1. Head(queue') = p
        BY <1>4, <3>1 DEF rlockQueue, enqueue, unlockuse
      <4> QED BY <1>4, <3>1, <4>1, ReadersFinite DEF rlockQueue, enqueue, unlockuse, TypeOK, WaitOK, CountOK
    <3>2. CASE queue # <<>>
      <4>1. Head(queue') = Head(queue) /\ Head(queue) \in Range(queue) /\ Head(queue) # p
        BY <1>4, <3>2, TailRange DEF rlockQueue, enqueue, unlockuse, TypeOK, QueueOK, Blocked
      <4> QED BY <1>4, <3>2, <4>1 DEF rlockQueue, enqueue, unlockuse, TypeOK, WaitOK
    <3> QED BY <3>1, <3>2
  <2> QED BY <2>2, <2>3, <2>4 DEF CountOK
<1>5. ASSUME NEW p \in Procs, wlockQueue(p) PROVE OwnerOK' /\ CountOK' /\ WaitOK'
  <2>1. \A q \in Procs : (Granted(q)' <=> Granted(q)) /\ (Granted(q) => mode'[q] = mode[q])
    BY <1>5, AppendRange DEF wlockQueue, enqueue, unlockuse, TypeOK, PCs, InUse, States, QueueOK, Blocked, Granted
  <2>2. readers' = readers /\ Readers' = Readers
    BY <1>5, <2>1 DEF wlockQueue, enqueue, unlockuse, Readers
  <2>3. OwnerOK'
    BY <1>5, <2>1, <2>2 DEF wlockQueue, enqueue, unlockuse, TypeOK, InUse, OwnerOK, GrantedW
  <2>4. WaitOK'
    <3>1. CASE queue = <<>>
      <4>1. Head(queue') = p
        BY <1>5, <3>1 DEF wlockQueue, enqueue, unlockuse
      <4> QED BY <1>5, <3>1, <4>1, ReadersFinite DEF wlockQueue, enqueue, unlockuse, TypeOK, WaitOK, CountOK
    <3>2. CASE queue # <<>>
      <4>1. Head(queue') = Head(queue) /\ Head(queue) \in Range(queue) /\ Head(queue) # p
        BY <1>5, <3>2, TailRange DEF wlockQueue, enqueue, unlockuse, TypeOK, QueueOK, Blocked
      <4> QED BY <1>5, <3>2, <4>1 DEF wlockQueue, enqueue, unlockuse, TypeOK, WaitOK
    <3> QED BY <3>1, <3>2
  <2> QED BY <2>2, <2>3, <2>4 DEF CountOK
<1>6. ASSUME NEW p \in Procs, canrlockFail(p) PROVE OwnerOK' /\ CountOK' /\ WaitOK'
  <2>1. \A q \in Procs : (Granted(q)' <=> Granted(q)) /\ (Granted(q) => mode'[q] = mode[q])
    BY <1>6 DEF canrlockFail, unlockuse, TypeOK, PCs, InUse, States, QueueOK, Blocked, Granted
  <2>2. readers' = readers /\ Readers' = Readers
    BY <1>6, <2>1 DEF canrlockFail, unlockuse, Readers
  <2>3. OwnerOK'
    BY <1>6, <2>1, <2>2 DEF canrlockFail, unlockuse, TypeOK, InUse, OwnerOK, GrantedW
  <2>4. WaitOK'
    BY <1>6 DEF canrlockFail, unlockuse, TypeOK, WaitOK
  <2> QED BY <2>2, <2>3, <2>4 DEF CountOK
<1>7. ASSUME NEW p \in Procs, runlockLeave(p) PROVE OwnerOK' /\ CountOK' /\ WaitOK'
  <2>1. /\ \A q \in Procs : Granted(q)' <=> Granted(q) /\ q # p
        /\ Granted(p) /\ mode[p] = "R" /\ mode' = mode
    BY <1>7 DEF runlockLeave, unlockuse, TypeOK, PCs, InUse, States, QueueOK, Blocked, Granted, ModeOK
  <2>2. p \in Readers /\ Readers' = Readers \ {p} /\ readers' = readers - 1
    BY <1>7, <2>1 DEF runlockLeave, unlockuse, Readers
  <2>3. CountOK'
    BY <2>2, ReadersFinite, FS_RemoveElement DEF CountOK
  <2>4. OwnerOK'
    BY <1>7, <2>1, <2>2 DEF runlockLeave, unlockuse, TypeOK, InUse, OwnerOK, GrantedW
  <2>5. WaitOK'
    BY <1>7, ReadersFinite DEF runlockLeave, unlockuse, TypeOK, WaitOK
  <2> QED BY <2>3, <2>4, <2>5
<1>8. ASSUME NEW p \in Procs, runlockStart(p) PROVE OwnerOK' /\ CountOK' /\ WaitOK'
  <2>1. /\ \A q \in Procs : Granted(q)' <=> (Granted(q) /\ q # p) \/ q = Head(queue)
        /\ Granted(p) /\ mode[p] = "R" /\ mode' = mode
    BY <1>8, TailRange DEF runlockStart, dequeue, unlockuse, TypeOK, PCs, InUse, States, QueueOK, Blocked, Granted, ModeOK
  <2>2. Head(queue) \in Procs /\ mode[Head(queue)] = "W"
    BY <1>8, TailRange DEF runlockStart, dequeue, unlockuse, TypeOK, QueueOK
  <2>3. p \in Readers /\ Readers' = Readers \ {p} /\ readers' = readers - 1
    BY <1>8, <2>1, <2>2 DEF runlockStart, dequeue, unlockuse, Readers
  <2>4. CountOK'
    BY <2>3, ReadersFinite, FS_RemoveElement DEF CountOK
  <2>5. Cardinality(Readers) = 1 /\ Readers' = {}
    <3>1. readers' <= 0
      BY <1>8 DEF runlockStart, dequeue, unlockuse, TypeOK
    <3>2. IsFiniteSet(Readers \ {p}) /\ Cardinality(Readers \ {p}) = Cardinality(Readers) - 1
      BY <2>3, ReadersFinite, FS_RemoveElement
    <3>3. Cardinality(Readers \ {p}) \in Nat
      BY <3>2, FS_CardinalityType
    <3>4. Cardinality(Readers \ {p}) = 0
      BY <3>1, <3>2, <3>3, <2>3, ReadersFinite DEF CountOK
    <3> QED BY <2>3, <3>2, <3>4, ReadersFinite, FS_EmptySet
  <2>6. \A q \in Procs : Granted(q)' <=> q = Head(queue)
    BY <2>1, <2>2, <2>5 DEF Readers, TypeOK, OwnerOK, GrantedW
  <2>7. OwnerOK'
    BY <1>8, <2>1, <2>2, <2>6 DEF runlockStart, dequeue, unlockuse, TypeOK, InUse, OwnerOK, GrantedW
  <2>8. WaitOK'
    BY <1>8 DEF runlockStart, dequeue, unlockuse, WaitOK
  <2> QED BY <2>4, <2>7, <2>8
<1>9. ASSUME NEW p \in Procs, wlockTake(p) PROVE OwnerOK' /\ CountOK' /\ WaitOK'
  <2>1. /\ \A q \in Procs : Granted(q)' <=> Granted(q) \/ q = p
        /\ ~Granted(p) /\ mode[p] = "W" /\ mode' = mode
    BY <1>9 DEF wlockTake, unlockuse, TypeOK, PCs, InUse, States, QueueOK, Blocked, Granted, ModeOK
  <2>2. readers' = readers /\ Readers' = Readers /\ Readers = {}
    BY <1>9, <2>1, ReadersFinite DEF wlockTake, unlockuse, Readers, CountOK
  <2>3. \A q \in Procs : ~Granted(q)
    BY <1>9, <2>2 DEF wlockTake, unlockuse, TypeOK, Readers, OwnerOK, GrantedW
  <2>4. OwnerOK'
    BY <1>9, <2>1, <2>3 DEF wlockTake, unlockuse, TypeOK, InUse, OwnerOK, GrantedW
  <2>5. WaitOK'
    BY <1>9 DEF wlockTake, unlockuse, WaitOK
  <2> QED BY <2>2, <2>4, <2>5 DEF CountOK
<1>10. ASSUME NEW p \in Procs, wunlockFree(p) PROVE OwnerOK' /\ CountOK' /\ WaitOK'
  <2>1. /\ \A q \in Procs : Granted(q)' <=> Granted(q) /\ q # p
        /\ Granted(p) /\ mode[p] = "W" /\ mode' = mode
    BY <1>10 DEF wunlockFree, unlockuse, TypeOK, PCs, InUse, States, QueueOK, Blocked, Granted, ModeOK
  <2>2. readers' = readers /\ Readers' = Readers
    BY <1>10, <2>1 DEF wunlockFree, unlockuse, Readers
  <2>3. OwnerOK'
    BY <1>10, <2>1 DEF wunlockFree, unlockuse, TypeOK, InUse, OwnerOK, GrantedW
  <2>4. WaitOK'
    BY <1>10 DEF wunlockFree, unlockuse, WaitOK
  <2> QED BY <2>2, <2>3, <2>4 DEF CountOK
<1>11. ASSUME NEW p \in Procs, wunlockPass(p) PROVE OwnerOK' /\ CountOK' /\ WaitOK'
  <2>1. /\ \A q \in Procs : Granted(q)' <=> (Granted(q) /\ q # p) \/ q = Head(queue)
        /\ Granted(p) /\ mode[p] = "W" /\ mode' = mode
    BY <1>11, TailRange DEF wunlockPass, dequeue, unlockuse, TypeOK, PCs, InUse, States, QueueOK, Blocked, Granted, ModeOK
  <2>2. Head(queue) \in Procs /\ mode[Head(queue)] = "W"
    BY <1>11, TailRange DEF wunlockPass, dequeue, unlockuse, TypeOK, QueueOK
  <2>3. readers' = readers /\ Readers' = Readers
    BY <1>11, <2>1, <2>2 DEF wunlockPass, dequeue, unlockuse, Readers
  <2>4. OwnerOK'
    BY <1>11, <2>1, <2>2 DEF wunlockPass, dequeue, unlockuse, TypeOK, InUse, OwnerOK, GrantedW
  <2>5. WaitOK'
    BY <1>11, <2>1 DEF wunlockPass, dequeue, unlockuse, OwnerOK, GrantedW, WaitOK
  <2> QED BY <2>3, <2>4, <2>5 DEF CountOK
<1>12. ASSUME NEW p \in Procs, wunlockReader(p) PROVE OwnerOK' /\ CountOK' /\ WaitOK'
  <2>1. /\ \A q \in Procs : Granted(q)' <=> (Granted(q) /\ q # p) \/ q = Head(queue)
        /\ ~Granted(Head(queue)) /\ mode' = mode
    BY <1>12, TailRange DEF wunlockReader, TypeOK, PCs, InUse, States, QueueOK, Blocked, Granted
  <2>2. Head(queue) \in Procs /\ mode[Head(queue)] = "R" /\ mode[p] = "W"
    BY <1>12, TailRange DEF wunlockReader, TypeOK, ModeOK, QueueOK
  <2>3. Head(queue) \notin Readers /\ Readers' = Readers \cup {Head(queue)} /\ readers' = readers + 1
    BY <1>12, <2>1, <2>2 DEF wunlockReader, Readers
  <2>4. CountOK'
    BY <2>3, ReadersFinite, FS_AddElement DEF CountOK
  <2>5. writer /\ \A q \in Procs \ {p} : ~GrantedW(q)
    <3>1. CASE pc[p] = "wunlock"
      BY <3>1, <2>2 DEF Granted, OwnerOK, GrantedW
    <3>2. CASE pc[p] = "wakeR"
      BY <3>2 DEF OwnerOK
    <3> QED BY <1>12, <3>1, <3>2 DEF wunlockReader
  <2>6. readers' > 0
    BY <2>3, ReadersFinite DEF CountOK
  <2>7. ~Granted(p)' /\ \A q \in Procs : ~GrantedW(q)'
    BY <1>12, <2>1, <2>2, <2>5 DEF GrantedW, wunlockReader, TypeOK, Granted, Blocked
  <2>8. OwnerOK'
    BY <1>12, <2>5, <2>6, <2>7 DEF wunlockReader, TypeOK, InUse, OwnerOK
  <2>9. WaitOK'
    BY <1>12, <2>5 DEF wunlockReader, WaitOK
  <2> QED BY <2>4, <2>8, <2>9
<1>13. ASSUME NEW p \in Procs, wunlockDone(p) PROVE OwnerOK' /\ CountOK' /\ WaitOK'
  <2>1. \A q \in Procs : (Granted(q)' <=> Granted(q)) /\ (Granted(q) => mode'[q] = mode[q])
    BY <1>13 DEF wunlockDone, unlockuse, TypeOK, PCs, InUse, States, QueueOK, Blocked, Granted
  <2>2. readers' = readers /\ Readers' = Readers
    BY <1>13, <2>1 DEF wunlockDone, unlockuse, Readers
  <2>3. OwnerOK'
    BY <1>13, <2>1, <2>2 DEF wunlockDone, unlockuse, TypeOK, InUse, OwnerOK, GrantedW
  <2>4. WaitOK'
    <3>1. readers > 0
      BY <1>13 DEF wunlockDone, OwnerOK
    <3>2. queue # <<>> => Head(queue) \in Procs /\ state[Head(queue)] \in {"QueueingR", "QueueingW"}
      BY TailRange DEF TypeOK, QueueOK
    <3> QED BY <1>13, <3>1, <3>2 DEF wunlockDone, WaitOK
  <2> QED BY <2>2, <2>3, <2>4 DEF CountOK
<1>14. ASSUME NEW p \in Procs, sched(p) PROVE OwnerOK' /\ CountOK' /\ WaitOK'
  <2>1. \A q \in Procs : (Granted(q)' <=> Granted(q)) /\ (Granted(q) => mode'[q] = mode[q])
    BY <1>14 DEF sched, TypeOK, PCs, InUse, States, QueueOK, Blocked, Granted
  <2>2. readers' = readers /\ Readers' = Readers
    BY <1>14, <2>1 DEF sched, Readers
  <2>3. OwnerOK'
    BY <1>14, <2>1, <2>2 DEF sched, TypeOK, InUse, OwnerOK, GrantedW
  <2>4. WaitOK'
    BY <1>14 DEF sched, TypeOK, WaitOK
  <2> QED BY <2>2, <2>3, <2>4 DEF CountOK
<1>15. ASSUME NEW p \in Procs, runproc(p) PROVE OwnerOK' /\ CountOK' /\ WaitOK'
  <2>1. \A q \in Procs : (Granted(q)' <=> Granted(q)) /\ (Granted(q) => mode'[q] = mode[q])
    BY <1>15 DEF runproc, TypeOK, PCs, InUse, States, QueueOK, Blocked, Granted
  <2>2. readers' = readers /\ Readers' = Readers
    BY <1>15, <2>1 DEF runproc, Readers
  <2>3. OwnerOK'
    BY <1>15, <2>1, <2>2 DEF runproc, TypeOK, InUse, OwnerOK, GrantedW
  <2>4. WaitOK'
    BY <1>15 DEF runproc, TypeOK, WaitOK
  <2> QED BY <2>2, <2>3, <2>4 DEF CountOK
<1>16. ASSUME NEW p \in Procs, ready(p) PROVE OwnerOK' /\ CountOK' /\ WaitOK'
  <2>1. \A q \in Procs : (Granted(q)' <=> Granted(q)) /\ (Granted(q) => mode'[q] = mode[q])
    BY <1>16 DEF ready, TypeOK, PCs, InUse, States, QueueOK, Blocked, Granted
  <2>2. readers' = readers /\ Readers' = Readers
    BY <1>16, <2>1 DEF ready, Readers
  <2>3. OwnerOK'
    BY <1>16, <2>1, <2>2 DEF ready, TypeOK, InUse, OwnerOK, GrantedW
  <2>4. WaitOK'
    <3>1. queue # <<>> => Head(queue) \in Procs /\ Head(queue) # wake[p]
      BY <1>16, TailRange DEF ready, TypeOK, QueueOK, WakeOK
    <3> QED BY <1>16, <3>1 DEF ready, TypeOK, WaitOK
  <2> QED BY <2>2, <2>3, <2>4 DEF CountOK
<1>17. CASE UNCHANGED vars
  <2>1. Readers' = Readers /\ \A q \in Procs : Granted(q)' <=> Granted(q)
    BY <1>17 DEF vars, Readers, Granted, Blocked
  <2> QED BY <1>17, <2>1 DEF vars, OwnerOK, GrantedW, CountOK, WaitOK
<1> QED BY <1>1, <1>2, <1>3, <1>4, <1>5, <1>6, <1>7, <1>8, <1>9, <1>10, <1>11, <1>12, <1>13, <1>14, <1>15, <1>16, <1>17 DEF Next, Call, Unlock, Step

\* Every step keeps the inductive invariant.
LEMMA NextInv == IndInv /\ [Next]_vars => IndInv'
BY NextType, NextQueue, NextOwner DEF IndInv

\* The inductive invariant holds in every reachable state.
THEOREM Invariance == Spec => []IndInv
BY InitInv, NextInv, PTL DEF Spec

-----------------------------------------------------------------------------
\* Concurrent readers, but each writer has exclusive access: wlock never
\* returns beside a reader or another writer, and q->readers is the number
\* of readers, however many processes contend.
THEOREM Exclusion == Spec => []WriterExclusion
<1>1. IndInv => WriterExclusion
  BY DEF IndInv, OwnerOK, CountOK, GrantedW, WriterExclusion, Readers, Writers
<1> QED BY <1>1, Invariance, PTL

\* The panics of runlock and wunlock are unreachable: a process leaving as
\* the last reader finds a writer at the head of the queue.
THEOREM PanicFree == Spec => []NoPanic
<1>1. IndInv => NoPanic
  <2> SUFFICES ASSUME IndInv, queue # <<>>
      PROVE  /\ \A p \in Procs : pc[p] = "runlock" /\ readers <= 1 => state[Head(queue)] = "QueueingW"
             /\ state[Head(queue)] \in {"QueueingR", "QueueingW"}
    BY DEF IndInv, NoPanic
  <2>1. Head(queue) \in Procs /\ state[Head(queue)] \in {"QueueingR", "QueueingW"}
    BY TailRange DEF IndInv, TypeOK, QueueOK
  <2>2. ASSUME NEW p \in Procs, pc[p] = "runlock" PROVE ~writer
    <3>1. Granted(p) /\ mode[p] = "R" /\ \A q \in Procs : pc[q] # "wakeR"
      BY <2>2 DEF IndInv, TypeOK, InUse, ModeOK, Granted
    <3> QED BY <3>1 DEF IndInv, OwnerOK, GrantedW
  <2> QED BY <2>1, <2>2 DEF IndInv, WaitOK
<1> QED BY <1>1, Invariance, PTL

\* Nobody is granted the lock past a waiting process but the first in the
\* queue, reader or writer.
THEOREM FirstComeFirstServed == Spec => NoOvertaking
<1>1. IndInv /\ [Next]_vars =>
        [\A p \in Procs : ~Granted(p) /\ Granted(p)' => queue = <<>> \/ p = Head(queue)]_vars
  <2> SUFFICES ASSUME IndInv, [Next]_vars, NEW r \in Procs, ~Granted(r), Granted(r)', queue # <<>>
      PROVE  r = Head(queue)
    OBVIOUS
  <2> USE RWAssumption DEF IndInv, TypeOK, InUse, QueueOK, Granted, Blocked
  <2>1. ASSUME NEW p \in Procs, Call(p) \/ Unlock(p) PROVE r = Head(queue)
    BY <2>1 DEF Call, Unlock, rlock, canrlock, wlock, runlock, wunlock, lockuse
  <2>2. ASSUME NEW p \in Procs, rlockTake(p) \/ canrlockTake(p) PROVE r = Head(queue)
    BY <2>2 DEF rlockTake, canrlockTake
  <2>3. ASSUME NEW p \in Procs, wlockTake(p) PROVE r = Head(queue)
    BY <2>3 DEF wlockTake, WaitOK
  <2>4. ASSUME NEW p \in Procs, rlockQueue(p) \/ wlockQueue(p) PROVE r = Head(queue)
    <3>1. queue' = Append(queue, p)
      BY <2>4 DEF rlockQueue, wlockQueue, enqueue
    <3>2. Range(queue') = Range(queue) \cup {p}
      BY <3>1, AppendRange
    <3>3. pc[p] \in {"rlock", "wlock"} /\ pc' = [pc EXCEPT ![p] = "sched"]
      BY <2>4 DEF rlockQueue, wlockQueue, enqueue, unlockuse
    <3> QED BY <3>2, <3>3
  <2>5. ASSUME NEW p \in Procs, canrlockFail(p) \/ runlockLeave(p) \/ wunlockFree(p) \/ wunlockDone(p)
        PROVE r = Head(queue)
    BY <2>5 DEF canrlockFail, runlockLeave, wunlockFree, wunlockDone, unlockuse
  <2>6. ASSUME NEW p \in Procs, runlockStart(p) \/ wunlockPass(p) PROVE r = Head(queue)
    <3>1. Range(queue') = Range(queue) \ {Head(queue)}
      BY <2>6, TailRange DEF runlockStart, wunlockPass, dequeue
    <3>2. pc' = [pc EXCEPT ![p] = "ready"]
      BY <2>6 DEF runlockStart, wunlockPass, dequeue, unlockuse
    <3> QED BY <3>1, <3>2
  <2>7. ASSUME NEW p \in Procs, wunlockReader(p) PROVE r = Head(queue)
    BY <2>7, TailRange DEF wunlockReader
  <2>8. ASSUME NEW p \in Procs, sched(p) \/ runproc(p) \/ ready(p) PROVE r = Head(queue)
    BY <2>8 DEF sched, runproc, ready
  <2>9. CASE UNCHANGED vars
    BY <2>9 DEF vars
  <2> QED BY <2>1, <2>2, <2>3, <2>4, <2>5, <2>6, <2>7, <2>8, <2>9 DEF Next, Step
<1> QED BY <1>1, Invariance, PTL DEF Spec, NoOvertaking

=============================================================================

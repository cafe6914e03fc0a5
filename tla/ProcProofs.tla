----------------------------- MODULE ProcProofs -----------------------------
(***************************************************************************)
(* Proofs about three services to processes whose modules have no names in *)
(* common: exit and wait (module Wait), for any number of children,        *)
(* readers of the wait file and processes that use the Proc structure one  *)
(* after another, and any limit on the records kept; semaphores (module    *)
(* Sema), for any number of processes and semaphores of a segment; and     *)
(* alarms (module Alarm), for any number of processes, all round the       *)
(* clock.                                                                  *)
(***************************************************************************)
EXTENDS Wait, Sema, Alarm, ListProofs, FiniteSetTheorems

-----------------------------------------------------------------------------
(* Exit and wait *)

\* pids only grow, and p has one until pexit gives it up.
PidOK ==
  /\ pid <= lastpid
  /\ pid = 0 <=> ppc \in {"freeing", "free"}
  /\ \A c \in Children : parent[c] <= lastpid

\* Only who took a record has one, and only pexit frees a list of them.
HandsOK ==
  /\ ppc # "took" => wq["p"] = nil
  /\ \A r \in Readers : rpc[r] # "took" => wq[r] = nil
  /\ ppc # "freeing" => tofree = <<>>

\* nwait counts the records; nchild counts the living children, but that
\* children which exited while p was broken are still in it.
CountOK ==
  /\ nwait = Len(waitq)
  /\ pid # 0 => Cardinality(Living) <= nchild
  /\ pid # 0 /\ ppc \notin {"broken", "exiting"} => nchild = Cardinality(Living)

\* From pwait's test to its sleep there is a record or a living child.
SleepOK ==
  /\ ppc = "sleep" => waitq # <<>> \/ Living # {}
  /\ WaitsForChild

IndInv == TypeOK /\ PidOK /\ HandsOK /\ CountOK /\ SleepOK /\ Accounted

-----------------------------------------------------------------------------
\* The children are finitely many, and none lives exactly when there are zero.
LEMMA LivingFinite ==
  /\ IsFiniteSet(Living)
  /\ Cardinality(Living) \in Nat
  /\ Cardinality(Living) = 0 <=> Living = {}
<1>1. Living \subseteq Children
  BY DEF Living
<1>2. IsFiniteSet(Living)
  BY <1>1, WaitAssumption, FS_Subset
<1> QED BY <1>2, FS_CardinalityType, FS_EmptySet

\* A living child of p is one of those that nchild counts.
LEMMA ChildLives ==
  ASSUME TypeOK, CountOK, NEW c \in Children, parent[c] = pid, pid # 0
  PROVE  /\ Cardinality(Living \ {c}) = Cardinality(Living) - 1
         /\ nchild - 1 \in Nat
<1>1. c \in Living
  BY DEF Living
<1>2. Cardinality(Living \ {c}) = Cardinality(Living) - 1
  BY <1>1, LivingFinite, FS_RemoveElement
<1>3. Cardinality(Living) # 0
  BY <1>1, LivingFinite
<1> QED BY <1>2, <1>3, LivingFinite DEF TypeOK, CountOK

\* A fresh Proc structure with its first process.
LEMMA InitInv == Init => IndInv
<1> SUFFICES ASSUME Init PROVE IndInv
  OBVIOUS
<1> USE WaitAssumption DEF Init
<1>1. TypeOK
  BY DEF TypeOK, PPCs, RPCs
<1>2. PidOK /\ HandsOK /\ SleepOK /\ Accounted
  BY DEF PidOK, HandsOK, SleepOK, WaitsForChild, Accounted
<1>3. Living = {} /\ nchild = 0 /\ nwait = 0 /\ waitq = <<>>
  BY DEF Living
<1>4. CountOK
  BY <1>3, LivingFinite DEF CountOK
<1> QED BY <1>1, <1>2, <1>4 DEF IndInv

\* Every step keeps the pids.
LEMMA NextPid ==
  ASSUME TypeOK, PidOK, [Next]_vars
  PROVE  PidOK'
<1> USE WaitAssumption DEF TypeOK, PidOK, PPCs
<1>1. CASE pwaitBusy
  BY <1>1 DEF pwaitBusy, proc, reader
<1>2. CASE pwaitEinuse
  BY <1>2 DEF pwaitEinuse, proc, reader
<1>3. CASE pwait
  BY <1>3 DEF pwait, proc, reader
<1>4. CASE pwaitNochild
  BY <1>4 DEF pwaitNochild, proc, reader
<1>5. CASE pwaitSome
  BY <1>5 DEF pwaitSome, proc, reader
<1>6. CASE pwaitSleep
  BY <1>6 DEF pwaitSleep, haswaitq, proc, reader
<1>7. CASE pwaitEintr
  BY <1>7 DEF pwaitEintr, proc, reader
<1>8. CASE pwaitTake
  BY <1>8 DEF pwaitTake, takerecord, reader
<1>9. CASE pwaitReturn
  BY <1>9 DEF pwaitReturn, reader
<1>10. CASE addbroken
  BY <1>10 DEF addbroken, proc, reader
<1>11. CASE unbreak
  BY <1>11 DEF unbreak, proc, reader
<1>12. CASE pexit
  BY <1>12 DEF pexit
<1>13. CASE pexitFree
  BY <1>13 DEF pexitFree, reader
<1>14. CASE schedinit
  BY <1>14 DEF schedinit, proc, reader
<1>15. CASE newproc
  BY <1>15 DEF newproc, reader
<1>16. ASSUME NEW c \in Children, sysrfork(c) PROVE PidOK'
  BY <1>16 DEF sysrfork, reader
<1>17. ASSUME NEW c \in Children, pexitRecord(c) PROVE PidOK'
  BY <1>17 DEF pexitRecord, wakeup
<1>18. ASSUME NEW c \in Children, pexitFull(c) PROVE PidOK'
  BY <1>18 DEF pexitFull, reader
<1>19. ASSUME NEW c \in Children, pexitOrphan(c) PROVE PidOK'
  BY <1>19 DEF pexitOrphan, reader
<1>20. ASSUME NEW r \in Readers, procread(r) PROVE PidOK'
  BY <1>20 DEF procread, proc
<1>21. ASSUME NEW r \in Readers, procreadBusy(r) PROVE PidOK'
  BY <1>21 DEF procreadBusy, procreadDone, proc
<1>22. ASSUME NEW r \in Readers, procreadLock(r) PROVE PidOK'
  BY <1>22 DEF procreadLock, proc
<1>23. ASSUME NEW r \in Readers, procreadEmpty(r) PROVE PidOK'
  BY <1>23 DEF procreadEmpty, proc
<1>24. ASSUME NEW r \in Readers, procreadTake(r) PROVE PidOK'
  BY <1>24 DEF procreadTake, takerecord
<1>25. ASSUME NEW r \in Readers, procreadSleep(r) PROVE PidOK'
  BY <1>25 DEF procreadSleep, haswaitq, proc
<1>26. ASSUME NEW r \in Readers, procreadAgain(r) PROVE PidOK'
  BY <1>26 DEF procreadAgain, proc
<1>27. ASSUME NEW r \in Readers, procreadError(r) PROVE PidOK'
  BY <1>27 DEF procreadError, procreadDone, proc
<1>28. ASSUME NEW r \in Readers, procreadReturn(r) PROVE PidOK'
  BY <1>28 DEF procreadReturn, procreadDone
<1>29. CASE UNCHANGED vars
  BY <1>29 DEF vars
<1> QED
  BY <1>1, <1>2, <1>3, <1>4, <1>5, <1>6, <1>7, <1>8, <1>9, <1>10, <1>11, <1>12, <1>13, <1>14,
     <1>15, <1>16, <1>17, <1>18, <1>19, <1>20, <1>21, <1>22, <1>23, <1>24, <1>25, <1>26, <1>27,
     <1>28, <1>29 DEF Next

\* Every step keeps the records in hand.
LEMMA NextHands ==
  ASSUME TypeOK, HandsOK, [Next]_vars
  PROVE  HandsOK'
<1> USE WaitAssumption DEF TypeOK, HandsOK, PPCs, RPCs
<1>1. CASE pwaitBusy
  BY <1>1 DEF pwaitBusy, proc, reader
<1>2. CASE pwaitEinuse
  BY <1>2 DEF pwaitEinuse, proc, reader
<1>3. CASE pwait
  BY <1>3 DEF pwait, proc, reader
<1>4. CASE pwaitNochild
  BY <1>4 DEF pwaitNochild, proc, reader
<1>5. CASE pwaitSome
  BY <1>5 DEF pwaitSome, proc, reader
<1>6. CASE pwaitSleep
  BY <1>6 DEF pwaitSleep, haswaitq, proc, reader
<1>7. CASE pwaitEintr
  BY <1>7 DEF pwaitEintr, proc, reader
<1>8. CASE pwaitTake
  BY <1>8 DEF pwaitTake, takerecord, reader
<1>9. CASE pwaitReturn
  BY <1>9 DEF pwaitReturn, reader
<1>10. CASE addbroken
  BY <1>10 DEF addbroken, proc, reader
<1>11. CASE unbreak
  BY <1>11 DEF unbreak, proc, reader
<1>12. CASE pexit
  BY <1>12 DEF pexit
<1>13. CASE pexitFree
  BY <1>13 DEF pexitFree, reader
<1>14. CASE schedinit
  BY <1>14 DEF schedinit, proc, reader
<1>15. CASE newproc
  BY <1>15 DEF newproc, reader
<1>16. ASSUME NEW c \in Children, sysrfork(c) PROVE HandsOK'
  BY <1>16 DEF sysrfork, reader
<1>17. ASSUME NEW c \in Children, pexitRecord(c) PROVE HandsOK'
  BY <1>17 DEF pexitRecord, wakeup
<1>18. ASSUME NEW c \in Children, pexitFull(c) PROVE HandsOK'
  BY <1>18 DEF pexitFull, reader
<1>19. ASSUME NEW c \in Children, pexitOrphan(c) PROVE HandsOK'
  BY <1>19 DEF pexitOrphan, reader
<1>20. ASSUME NEW r \in Readers, procread(r) PROVE HandsOK'
  BY <1>20 DEF procread, proc
<1>21. ASSUME NEW r \in Readers, procreadBusy(r) PROVE HandsOK'
  BY <1>21 DEF procreadBusy, procreadDone, proc
<1>22. ASSUME NEW r \in Readers, procreadLock(r) PROVE HandsOK'
  BY <1>22 DEF procreadLock, proc
<1>23. ASSUME NEW r \in Readers, procreadEmpty(r) PROVE HandsOK'
  BY <1>23 DEF procreadEmpty, proc
<1>24. ASSUME NEW r \in Readers, procreadTake(r) PROVE HandsOK'
  BY <1>24 DEF procreadTake, takerecord
<1>25. ASSUME NEW r \in Readers, procreadSleep(r) PROVE HandsOK'
  BY <1>25 DEF procreadSleep, haswaitq, proc
<1>26. ASSUME NEW r \in Readers, procreadAgain(r) PROVE HandsOK'
  BY <1>26 DEF procreadAgain, proc
<1>27. ASSUME NEW r \in Readers, procreadError(r) PROVE HandsOK'
  BY <1>27 DEF procreadError, procreadDone, proc
<1>28. ASSUME NEW r \in Readers, procreadReturn(r) PROVE HandsOK'
  BY <1>28 DEF procreadReturn, procreadDone
<1>29. CASE UNCHANGED vars
  BY <1>29 DEF vars
<1> QED
  BY <1>1, <1>2, <1>3, <1>4, <1>5, <1>6, <1>7, <1>8, <1>9, <1>10, <1>11, <1>12, <1>13, <1>14,
     <1>15, <1>16, <1>17, <1>18, <1>19, <1>20, <1>21, <1>22, <1>23, <1>24, <1>25, <1>26, <1>27,
     <1>28, <1>29 DEF Next

\* Every step keeps the types; nwait and nchild do not go below zero.
LEMMA NextType ==
  ASSUME TypeOK, PidOK, CountOK, [Next]_vars
  PROVE  TypeOK'
<1> USE WaitAssumption DEF TypeOK, PidOK, CountOK, PPCs, RPCs
<1>1. CASE pwaitBusy
  BY <1>1 DEF pwaitBusy, proc, reader
<1>2. CASE pwaitEinuse
  BY <1>2 DEF pwaitEinuse, proc, reader
<1>3. CASE pwait
  BY <1>3 DEF pwait, proc, reader
<1>4. CASE pwaitNochild
  BY <1>4 DEF pwaitNochild, proc, reader
<1>5. CASE pwaitSome
  BY <1>5 DEF pwaitSome, proc, reader
<1>6. CASE pwaitSleep
  BY <1>6 DEF pwaitSleep, haswaitq, proc, reader
<1>7. CASE pwaitEintr
  BY <1>7 DEF pwaitEintr, proc, reader
<1>8. CASE pwaitTake
  BY <1>8, TailSet, SMTT(30) DEF pwaitTake, takerecord, reader
<1>9. CASE pwaitReturn
  BY <1>9 DEF pwaitReturn, reader
<1>10. CASE addbroken
  BY <1>10 DEF addbroken, proc, reader
<1>11. CASE unbreak
  BY <1>11 DEF unbreak, proc, reader
<1>12. CASE pexit
  BY <1>12 DEF pexit
<1>13. CASE pexitFree
  BY <1>13, TailSet DEF pexitFree, reader
<1>14. CASE schedinit
  BY <1>14 DEF schedinit, proc, reader
<1>15. CASE newproc
  BY <1>15 DEF newproc, reader
<1>16. ASSUME NEW c \in Children, sysrfork(c) PROVE TypeOK'
  BY <1>16 DEF sysrfork, reader
<1>17. ASSUME NEW c \in Children, pexitRecord(c) PROVE TypeOK'
  <2>1. nchild - 1 \in Nat
    BY <1>17, ChildLives DEF pexitRecord
  <2>2. waitq' \in Seq(Children)
    BY <1>17, ConsSet DEF pexitRecord
  <2> QED BY <1>17, <2>1, <2>2 DEF pexitRecord, wakeup
<1>18. ASSUME NEW c \in Children, pexitFull(c) PROVE TypeOK'
  <2>1. nchild - 1 \in Nat
    BY <1>18, ChildLives DEF pexitFull
  <2> QED BY <1>18, <2>1 DEF pexitFull, reader
<1>19. ASSUME NEW c \in Children, pexitOrphan(c) PROVE TypeOK'
  BY <1>19 DEF pexitOrphan, reader
<1>20. ASSUME NEW r \in Readers, procread(r) PROVE TypeOK'
  BY <1>20 DEF procread, proc
<1>21. ASSUME NEW r \in Readers, procreadBusy(r) PROVE TypeOK'
  BY <1>21 DEF procreadBusy, procreadDone, proc
<1>22. ASSUME NEW r \in Readers, procreadLock(r) PROVE TypeOK'
  BY <1>22 DEF procreadLock, proc
<1>23. ASSUME NEW r \in Readers, procreadEmpty(r) PROVE TypeOK'
  BY <1>23 DEF procreadEmpty, proc
<1>24. ASSUME NEW r \in Readers, procreadTake(r) PROVE TypeOK'
  BY SMTT(30), <1>24, TailSet DEF procreadTake, takerecord
<1>25. ASSUME NEW r \in Readers, procreadSleep(r) PROVE TypeOK'
  BY <1>25 DEF procreadSleep, haswaitq, proc
<1>26. ASSUME NEW r \in Readers, procreadAgain(r) PROVE TypeOK'
  BY <1>26 DEF procreadAgain, proc
<1>27. ASSUME NEW r \in Readers, procreadError(r) PROVE TypeOK'
  BY <1>27 DEF procreadError, procreadDone, proc
<1>28. ASSUME NEW r \in Readers, procreadReturn(r) PROVE TypeOK'
  BY <1>28 DEF procreadReturn, procreadDone
<1>29. CASE UNCHANGED vars
  BY <1>29 DEF vars
<1> QED
  BY <1>1, <1>2, <1>3, <1>4, <1>5, <1>6, <1>7, <1>8, <1>9, <1>10, <1>11, <1>12, <1>13, <1>14,
     <1>15, <1>16, <1>17, <1>18, <1>19, <1>20, <1>21, <1>22, <1>23, <1>24, <1>25, <1>26, <1>27,
     <1>28, <1>29 DEF Next

\* Every step keeps the counts.
LEMMA NextCount ==
  ASSUME TypeOK, PidOK, CountOK, [Next]_vars
  PROVE  CountOK'
<1> USE WaitAssumption DEF TypeOK, PidOK, CountOK, PPCs
<1>1. CASE pwaitBusy
  <2>1. Living' = Living
    BY <1>1 DEF pwaitBusy, proc, reader, Living
  <2> QED BY <1>1, <2>1 DEF pwaitBusy, proc, reader
<1>2. CASE pwaitEinuse
  <2>1. Living' = Living
    BY <1>2 DEF pwaitEinuse, proc, reader, Living
  <2> QED BY <1>2, <2>1 DEF pwaitEinuse, proc, reader
<1>3. CASE pwait
  <2>1. Living' = Living
    BY <1>3 DEF pwait, proc, reader, Living
  <2> QED BY <1>3, <2>1 DEF pwait, proc, reader
<1>4. CASE pwaitNochild
  <2>1. Living' = Living
    BY <1>4 DEF pwaitNochild, proc, reader, Living
  <2> QED BY <1>4, <2>1 DEF pwaitNochild, proc, reader
<1>5. CASE pwaitSome
  <2>1. Living' = Living
    BY <1>5 DEF pwaitSome, proc, reader, Living
  <2> QED BY <1>5, <2>1 DEF pwaitSome, proc, reader
<1>6. CASE pwaitSleep
  <2>1. Living' = Living
    BY <1>6 DEF pwaitSleep, haswaitq, proc, reader, Living
  <2> QED BY <1>6, <2>1 DEF pwaitSleep, haswaitq, proc, reader
<1>7. CASE pwaitEintr
  <2>1. Living' = Living
    BY <1>7 DEF pwaitEintr, proc, reader, Living
  <2> QED BY <1>7, <2>1 DEF pwaitEintr, proc, reader
<1>8. CASE pwaitTake
  <2>1. Living' = Living
    BY <1>8 DEF pwaitTake, takerecord, reader, Living
  <2> QED BY <1>8, <2>1, TailSet DEF pwaitTake, takerecord, reader
<1>9. CASE pwaitReturn
  <2>1. Living' = Living
    BY <1>9 DEF pwaitReturn, reader, Living
  <2> QED BY <1>9, <2>1 DEF pwaitReturn, reader
<1>10. CASE addbroken
  <2>1. Living' = Living
    BY <1>10 DEF addbroken, proc, reader, Living
  <2> QED BY <1>10, <2>1 DEF addbroken, proc, reader
<1>11. CASE unbreak
  <2>1. Living' = Living
    BY <1>11 DEF unbreak, proc, reader, Living
  <2> QED BY <1>11, <2>1 DEF unbreak, proc, reader
<1>12. CASE pexit
  BY <1>12 DEF pexit
<1>13. CASE pexitFree
  <2>1. Living' = Living
    BY <1>13 DEF pexitFree, reader, Living
  <2> QED BY <1>13, <2>1, TailSet DEF pexitFree, reader
<1>14. CASE schedinit
  <2>1. Living' = Living
    BY <1>14 DEF schedinit, proc, reader, Living
  <2> QED BY <1>14, <2>1 DEF schedinit, proc, reader
<1>15. CASE newproc
  <2>1. Living' = {}
    BY <1>15 DEF newproc, Living
  <2>2. Cardinality(Living)' = 0
    BY <2>1, FS_EmptySet
  <2> QED BY <1>15, <2>2 DEF newproc
<1>16. ASSUME NEW c \in Children, sysrfork(c) PROVE CountOK'
  <2>1. c \notin Living /\ Living' = Living \cup {c}
    BY <1>16 DEF sysrfork, Living
  <2>2. Cardinality(Living)' = Cardinality(Living) + 1
    BY <2>1, LivingFinite, FS_AddElement
  <2> QED BY <1>16, <2>2, LivingFinite DEF sysrfork
<1>17. ASSUME NEW c \in Children, pexitRecord(c) PROVE CountOK'
  <2>1. Living' = Living \ {c} /\ pid' = pid
    BY <1>17 DEF pexitRecord, wakeup, Living
  <2>2. Cardinality(Living)' = Cardinality(Living) - 1
    BY <1>17, <2>1, ChildLives DEF pexitRecord
  <2>3. nwait' = Len(waitq')
    BY <1>17, ConsSet DEF pexitRecord, wakeup
  <2> QED BY <1>17, <2>1, <2>2, <2>3, LivingFinite DEF pexitRecord, wakeup
<1>18. ASSUME NEW c \in Children, pexitFull(c) PROVE CountOK'
  <2>1. Living' = Living \ {c} /\ pid' = pid
    BY <1>18 DEF pexitFull, reader, Living
  <2>2. Cardinality(Living)' = Cardinality(Living) - 1
    BY <1>18, <2>1, ChildLives DEF pexitFull
  <2>3. nwait' = Len(waitq')
    BY <1>18 DEF pexitFull, reader
  <2> QED BY <1>18, <2>1, <2>2, <2>3, LivingFinite DEF pexitFull, reader
<1>19. ASSUME NEW c \in Children, pexitOrphan(c) PROVE CountOK'
  <2>1. CASE pid # parent[c] /\ pid # 0
    <3>1. Living' = Living
      BY <1>19, <2>1 DEF pexitOrphan, Living
    <3> QED BY <1>19, <3>1 DEF pexitOrphan
  <2>2. CASE pid = parent[c]
    <3>1. Living' = Living \ {c} /\ ppc = "broken"
      BY <1>19, <2>2 DEF pexitOrphan, Living
    <3>2. Cardinality(Living)' = Cardinality(Living) - 1
      BY <1>19, <2>2, <3>1, ChildLives DEF pexitOrphan
    <3> QED BY <1>19, <3>1, <3>2, LivingFinite DEF pexitOrphan
  <2>3. CASE pid = 0
    BY <1>19, <2>3 DEF pexitOrphan
  <2> QED BY <2>1, <2>2, <2>3
<1>20. ASSUME NEW r \in Readers, procread(r) PROVE CountOK'
  <2>1. Living' = Living
    BY <1>20 DEF procread, proc, Living
  <2> QED BY <1>20, <2>1 DEF procread, proc
<1>21. ASSUME NEW r \in Readers, procreadBusy(r) PROVE CountOK'
  <2>1. Living' = Living
    BY <1>21 DEF procreadBusy, procreadDone, proc, Living
  <2> QED BY <1>21, <2>1 DEF procreadBusy, procreadDone, proc
<1>22. ASSUME NEW r \in Readers, procreadLock(r) PROVE CountOK'
  <2>1. Living' = Living
    BY <1>22 DEF procreadLock, proc, Living
  <2> QED BY <1>22, <2>1 DEF procreadLock, proc
<1>23. ASSUME NEW r \in Readers, procreadEmpty(r) PROVE CountOK'
  <2>1. Living' = Living
    BY <1>23 DEF procreadEmpty, proc, Living
  <2> QED BY <1>23, <2>1 DEF procreadEmpty, proc
<1>24. ASSUME NEW r \in Readers, procreadTake(r) PROVE CountOK'
  <2>1. Living' = Living
    BY <1>24 DEF procreadTake, takerecord, Living
  <2> QED BY <1>24, <2>1, TailSet DEF procreadTake, takerecord
<1>25. ASSUME NEW r \in Readers, procreadSleep(r) PROVE CountOK'
  <2>1. Living' = Living
    BY <1>25 DEF procreadSleep, haswaitq, proc, Living
  <2> QED BY <1>25, <2>1 DEF procreadSleep, haswaitq, proc
<1>26. ASSUME NEW r \in Readers, procreadAgain(r) PROVE CountOK'
  <2>1. Living' = Living
    BY <1>26 DEF procreadAgain, proc, Living
  <2> QED BY <1>26, <2>1 DEF procreadAgain, proc
<1>27. ASSUME NEW r \in Readers, procreadError(r) PROVE CountOK'
  <2>1. Living' = Living
    BY <1>27 DEF procreadError, procreadDone, proc, Living
  <2> QED BY <1>27, <2>1 DEF procreadError, procreadDone, proc
<1>28. ASSUME NEW r \in Readers, procreadReturn(r) PROVE CountOK'
  <2>1. Living' = Living
    BY <1>28 DEF procreadReturn, procreadDone, Living
  <2> QED BY <1>28, <2>1 DEF procreadReturn, procreadDone
<1>29. CASE UNCHANGED vars
  <2>1. Living' = Living
    BY <1>29 DEF vars, Living
  <2> QED BY <1>29, <2>1 DEF vars
<1> QED
  BY <1>1, <1>2, <1>3, <1>4, <1>5, <1>6, <1>7, <1>8, <1>9, <1>10, <1>11, <1>12, <1>13, <1>14,
     <1>15, <1>16, <1>17, <1>18, <1>19, <1>20, <1>21, <1>22, <1>23, <1>24, <1>25, <1>26, <1>27,
     <1>28, <1>29 DEF Next

\* Every step keeps the sleeping pwait justified.
LEMMA NextSleep ==
  ASSUME TypeOK, PidOK, CountOK, SleepOK, [Next]_vars
  PROVE  SleepOK'
<1> USE WaitAssumption DEF TypeOK, PidOK, CountOK, SleepOK, WaitsForChild, PPCs
<1>1. CASE pwaitBusy
  <2>1. Living' = Living
    BY <1>1 DEF pwaitBusy, proc, reader, Living
  <2> QED BY <1>1, <2>1 DEF pwaitBusy, proc, reader
<1>2. CASE pwaitEinuse
  <2>1. Living' = Living
    BY <1>2 DEF pwaitEinuse, proc, reader, Living
  <2> QED BY <1>2, <2>1 DEF pwaitEinuse, proc, reader
<1>3. CASE pwait
  <2>1. Living' = Living
    BY <1>3 DEF pwait, proc, reader, Living
  <2> QED BY <1>3, <2>1 DEF pwait, proc, reader
<1>4. CASE pwaitNochild
  <2>1. Living' = Living
    BY <1>4 DEF pwaitNochild, proc, reader, Living
  <2> QED BY <1>4, <2>1 DEF pwaitNochild, proc, reader
<1>5. CASE pwaitSome
  <2>1. Living' = Living
    BY <1>5 DEF pwaitSome, proc, Living
  <2>2. waitq # <<>> \/ Living # {}
    BY <1>5, LivingFinite DEF pwaitSome
  <2> QED BY <1>5, <2>1, <2>2 DEF pwaitSome, proc
<1>6. CASE pwaitSleep
  <2>1. Living' = Living
    BY <1>6 DEF pwaitSleep, haswaitq, proc, reader, Living
  <2> QED BY <1>6, <2>1 DEF pwaitSleep, haswaitq, proc, reader
<1>7. CASE pwaitEintr
  <2>1. Living' = Living
    BY <1>7 DEF pwaitEintr, proc, reader, Living
  <2> QED BY <1>7, <2>1 DEF pwaitEintr, proc, reader
<1>8. CASE pwaitTake
  <2>1. Living' = Living
    BY <1>8 DEF pwaitTake, takerecord, reader, Living
  <2> QED BY <1>8, <2>1, TailSet DEF pwaitTake, takerecord, reader
<1>9. CASE pwaitReturn
  <2>1. Living' = Living
    BY <1>9 DEF pwaitReturn, reader, Living
  <2> QED BY <1>9, <2>1 DEF pwaitReturn, reader
<1>10. CASE addbroken
  <2>1. Living' = Living
    BY <1>10 DEF addbroken, proc, reader, Living
  <2> QED BY <1>10, <2>1 DEF addbroken, proc, reader
<1>11. CASE unbreak
  <2>1. Living' = Living
    BY <1>11 DEF unbreak, proc, reader, Living
  <2> QED BY <1>11, <2>1 DEF unbreak, proc, reader
<1>12. CASE pexit
  BY <1>12 DEF pexit
<1>13. CASE pexitFree
  <2>1. Living' = Living
    BY <1>13 DEF pexitFree, reader, Living
  <2> QED BY <1>13, <2>1, TailSet DEF pexitFree, reader
<1>14. CASE schedinit
  <2>1. Living' = Living
    BY <1>14 DEF schedinit, proc, reader, Living
  <2> QED BY <1>14, <2>1 DEF schedinit, proc, reader
<1>15. CASE newproc
  BY <1>15 DEF newproc
<1>16. ASSUME NEW c \in Children, sysrfork(c) PROVE SleepOK'
  BY <1>16 DEF sysrfork
<1>17. ASSUME NEW c \in Children, pexitRecord(c) PROVE SleepOK'
  <2>1. waitq' # <<>>
    BY <1>17, ConsSet DEF pexitRecord
  <2> QED BY <1>17, <2>1 DEF pexitRecord, wakeup
<1>18. ASSUME NEW c \in Children, pexitFull(c) PROVE SleepOK'
  <2>1. waitq # <<>>
    BY <1>18 DEF pexitFull
  <2> QED BY <1>18, <2>1 DEF pexitFull
<1>19. ASSUME NEW c \in Children, pexitOrphan(c) PROVE SleepOK'
  <2>1. ppc \in {"broken", "freeing", "free"} \/ Living' = Living
    BY <1>19 DEF pexitOrphan, Living
  <2> QED BY <1>19, <2>1 DEF pexitOrphan
<1>20. ASSUME NEW r \in Readers, procread(r) PROVE SleepOK'
  <2>1. Living' = Living
    BY <1>20 DEF procread, proc, Living
  <2> QED BY <1>20, <2>1 DEF procread, proc
<1>21. ASSUME NEW r \in Readers, procreadBusy(r) PROVE SleepOK'
  <2>1. Living' = Living
    BY <1>21 DEF procreadBusy, procreadDone, proc, Living
  <2> QED BY <1>21, <2>1 DEF procreadBusy, procreadDone, proc
<1>22. ASSUME NEW r \in Readers, procreadLock(r) PROVE SleepOK'
  <2>1. Living' = Living
    BY <1>22 DEF procreadLock, proc, Living
  <2> QED BY <1>22, <2>1 DEF procreadLock, proc
<1>23. ASSUME NEW r \in Readers, procreadEmpty(r) PROVE SleepOK'
  <2>1. Living' = Living
    BY <1>23 DEF procreadEmpty, proc, Living
  <2> QED BY <1>23, <2>1 DEF procreadEmpty, proc
<1>24. ASSUME NEW r \in Readers, procreadTake(r) PROVE SleepOK'
  <2>1. Living' = Living
    BY <1>24 DEF procreadTake, takerecord, Living
  <2> QED BY <1>24, <2>1, TailSet DEF procreadTake, takerecord
<1>25. ASSUME NEW r \in Readers, procreadSleep(r) PROVE SleepOK'
  <2>1. Living' = Living
    BY <1>25 DEF procreadSleep, haswaitq, proc, Living
  <2> QED BY <1>25, <2>1 DEF procreadSleep, haswaitq, proc
<1>26. ASSUME NEW r \in Readers, procreadAgain(r) PROVE SleepOK'
  <2>1. Living' = Living
    BY <1>26 DEF procreadAgain, proc, Living
  <2> QED BY <1>26, <2>1 DEF procreadAgain, proc
<1>27. ASSUME NEW r \in Readers, procreadError(r) PROVE SleepOK'
  <2>1. Living' = Living
    BY <1>27 DEF procreadError, procreadDone, proc, Living
  <2> QED BY <1>27, <2>1 DEF procreadError, procreadDone, proc
<1>28. ASSUME NEW r \in Readers, procreadReturn(r) PROVE SleepOK'
  <2>1. Living' = Living
    BY <1>28 DEF procreadReturn, procreadDone, Living
  <2> QED BY <1>28, <2>1 DEF procreadReturn, procreadDone
<1>29. CASE UNCHANGED vars
  <2>1. Living' = Living
    BY <1>29 DEF vars, Living
  <2> QED BY <1>29, <2>1 DEF vars
<1> QED
  BY <1>1, <1>2, <1>3, <1>4, <1>5, <1>6, <1>7, <1>8, <1>9, <1>10, <1>11, <1>12, <1>13, <1>14,
     <1>15, <1>16, <1>17, <1>18, <1>19, <1>20, <1>21, <1>22, <1>23, <1>24, <1>25, <1>26, <1>27,
     <1>28, <1>29 DEF Next

\* No step leaks a record.
LEMMA NextAccounted ==
  ASSUME TypeOK, PidOK, HandsOK, Accounted, [Next]_vars
  PROVE  Accounted'
<1> USE WaitAssumption DEF TypeOK, PidOK, HandsOK, Accounted
<1>1. CASE pwaitBusy
  BY <1>1 DEF pwaitBusy, proc, reader
<1>2. CASE pwaitEinuse
  BY <1>2 DEF pwaitEinuse, proc, reader
<1>3. CASE pwait
  BY <1>3 DEF pwait, proc, reader
<1>4. CASE pwaitNochild
  BY <1>4 DEF pwaitNochild, proc, reader
<1>5. CASE pwaitSome
  BY <1>5 DEF pwaitSome, proc, reader
<1>6. CASE pwaitSleep
  BY <1>6 DEF pwaitSleep, haswaitq, proc, reader
<1>7. CASE pwaitEintr
  BY <1>7 DEF pwaitEintr, proc, reader
<1>8. CASE pwaitTake
  BY <1>8, TailSet DEF pwaitTake, takerecord, reader
<1>9. CASE pwaitReturn
  BY <1>9 DEF pwaitReturn, reader
<1>10. CASE addbroken
  BY <1>10 DEF addbroken, proc, reader
<1>11. CASE unbreak
  BY <1>11 DEF unbreak, proc, reader
<1>12. CASE pexit
  <2>1. tofree = <<>> /\ ToSet(tofree) = {}
    BY <1>12 DEF pexit, ToSet
  <2>2. alloc' = alloc /\ tofree' = waitq /\ wq' = wq
    BY <1>12 DEF pexit
  <2> QED BY <2>1, <2>2
<1>13. CASE pexitFree
  BY <1>13, TailSet DEF pexitFree, reader
<1>14. CASE schedinit
  BY <1>14 DEF schedinit, proc, reader
<1>15. CASE newproc
  BY <1>15 DEF newproc, reader
<1>16. ASSUME NEW c \in Children, sysrfork(c) PROVE Accounted'
  BY <1>16 DEF sysrfork, reader
<1>17. ASSUME NEW c \in Children, pexitRecord(c) PROVE Accounted'
  BY <1>17, ConsSet DEF pexitRecord, wakeup
<1>18. ASSUME NEW c \in Children, pexitFull(c) PROVE Accounted'
  BY <1>18 DEF pexitFull, reader
<1>19. ASSUME NEW c \in Children, pexitOrphan(c) PROVE Accounted'
  BY <1>19 DEF pexitOrphan, reader
<1>20. ASSUME NEW r \in Readers, procread(r) PROVE Accounted'
  BY <1>20 DEF procread, proc
<1>21. ASSUME NEW r \in Readers, procreadBusy(r) PROVE Accounted'
  BY <1>21 DEF procreadBusy, procreadDone, proc
<1>22. ASSUME NEW r \in Readers, procreadLock(r) PROVE Accounted'
  BY <1>22 DEF procreadLock, proc
<1>23. ASSUME NEW r \in Readers, procreadEmpty(r) PROVE Accounted'
  BY <1>23 DEF procreadEmpty, proc
<1>24. ASSUME NEW r \in Readers, procreadTake(r) PROVE Accounted'
  <2>1. /\ wq[r] = nil /\ wq' = [wq EXCEPT ![r] = Head(waitq)]
        /\ alloc' = alloc /\ pid' = pid /\ tofree' = tofree
    BY <1>24 DEF procreadTake, takerecord
  <2>2. Head(waitq) \in Children /\ ToSet(waitq) \subseteq ToSet(waitq') \cup {Head(waitq)}
    BY <1>24, TailSet DEF procreadTake, takerecord
  <2>3. ASSUME NEW c \in alloc, NEW x \in Readers \cup {"p"}, wq[x] = c PROVE wq'[x] = c
    BY <2>1, <2>3
  <2>4. wq'[r] = Head(waitq)
    BY <2>1
  <2> QED BY <2>1, <2>2, <2>3, <2>4
<1>25. ASSUME NEW r \in Readers, procreadSleep(r) PROVE Accounted'
  BY <1>25 DEF procreadSleep, haswaitq, proc
<1>26. ASSUME NEW r \in Readers, procreadAgain(r) PROVE Accounted'
  BY <1>26 DEF procreadAgain, proc
<1>27. ASSUME NEW r \in Readers, procreadError(r) PROVE Accounted'
  BY <1>27 DEF procreadError, procreadDone, proc
<1>28. ASSUME NEW r \in Readers, procreadReturn(r) PROVE Accounted'
  BY <1>28 DEF procreadReturn, procreadDone
<1>29. CASE UNCHANGED vars
  BY <1>29 DEF vars
<1> QED
  BY <1>1, <1>2, <1>3, <1>4, <1>5, <1>6, <1>7, <1>8, <1>9, <1>10, <1>11, <1>12, <1>13, <1>14,
     <1>15, <1>16, <1>17, <1>18, <1>19, <1>20, <1>21, <1>22, <1>23, <1>24, <1>25, <1>26, <1>27,
     <1>28, <1>29 DEF Next

-----------------------------------------------------------------------------
\* Every step keeps the inductive invariant.
LEMMA NextInv == IndInv /\ [Next]_vars => IndInv'
BY NextType, NextPid, NextHands, NextCount, NextSleep, NextAccounted DEF IndInv

\* The inductive invariant holds in every reachable state.
THEOREM Invariance == Spec => []IndInv
BY InitInv, NextInv, PTL DEF Spec

-----------------------------------------------------------------------------
\* nchild and nwait count the living children and the records, until p is
\* broken or exits.
THEOREM CountsRight == Spec => []Counted
<1>1. IndInv => Counted
  BY DEF IndInv, CountOK, Counted
<1> QED BY <1>1, Invariance, PTL

\* pwait sleeps only while a child lives, and finds a record when it wakes.
THEOREM WaitJustified == Spec => []WaitsForChild
<1>1. IndInv => WaitsForChild
  BY DEF IndInv, SleepOK
<1> QED BY <1>1, Invariance, PTL

\* Every allocated record can still be read or is about to be freed.
THEOREM NoRecordLeaked == Spec => []Accounted
<1>1. IndInv => Accounted
  BY DEF IndInv
<1> QED BY <1>1, Invariance, PTL

-----------------------------------------------------------------------------
(* Semaphores.  The argument is one of accounts: a positive semaphore with *)
(* a sleeper has at least as many tries and wakeups still to come as its   *)
(* value says.                                                             *)

\* Credits of at most Most each.
Most == MaxDelta + 2

\* How much the processes have between them, by c.
Count(c) == Cardinality({t \in Procs \X (1..Most) : t[2] <= c[t[1]]})

\* What a process at l will still do for a sleeper at position i of the list,
\* with w its waiting, m its n and c its cur: try for the semaphore itself, or
\* wake somebody.
Credit(l, w, m, c, i) ==
  CASE l \in {"wait", "sleep", "asleep", "woke", "dequeue", "pass"} -> IF w THEN 0 ELSE 1
    [] l = "last" -> IF w THEN 1 ELSE 2
    [] l = "lock" \/ (l = "scan" /\ c <= i) -> m
    [] l = "wake" /\ c < i -> m - 1
    [] OTHER -> 0

Share(p, a, i) == IF addr[p] = a THEN Credit(pc[p], waiting[p], n[p], cur[p], i) ELSE 0
Shares(a, i) == [p \in Procs |-> Share(p, a, i)]

\* The parts of the invariant.
SemaTypes ==
  /\ value \in [Addrs -> 0..MaxValue]
  /\ sema \in Procs \cup {none}
  /\ list \in Seq(Procs)
  /\ waiting \in [Procs -> BOOLEAN]
  /\ asleep \in [Procs -> BOOLEAN]
  /\ notepending \in [Procs -> BOOLEAN]
  /\ pc \in [Procs -> PCs]
  /\ addr \in [Procs -> Addrs \cup {none}]
  /\ kind \in [Procs -> {"block", "poll", "timed"}]
  /\ n \in [Procs -> 0..MaxDelta + 1]
  /\ cur \in [Procs -> Nat]

SemaLinks == Distinct(list) /\ \A p \in Procs : pc[p] \in InList <=> p \in ToSet(list)

SemaLocks ==
  /\ \A p \in Procs : sema = p <=> pc[p] \in InLock
  /\ \A p \in Procs : pc[p] \in InLock => cur[p] >= 1
  /\ \A p \in Procs : pc[p] = "wake" => cur[p] <= Len(list) /\ n[p] > 0
  /\ \A p \in Procs : pc[p] # "idle" => addr[p] \in Addrs

Sleeper(p, a) == addr[p] = a /\ pc[p] \in {"sleep", "asleep"} /\ waiting[p]

Covered ==
  \A a \in Addrs, i \in 1..Len(list) : Sleeper(list[i], a) => value[a] <= Count(Shares(a, i))

SemaInv == SemaTypes /\ SemaLinks /\ SemaLocks /\ Covered

LEMMA SemaNats ==
  /\ none \notin Procs /\ none \notin Addrs
  /\ Kinds \subseteq {"block", "poll", "timed"}
  /\ MaxValue \in Nat /\ MaxDelta \in Nat
BY SemaAssumption

\* A member of the list has a place in it.
LEMMA Placed ==
  ASSUME NEW x, SemaTypes, x \in ToSet(list)
  PROVE  \E i \in 1..Len(list) : list[i] = x
<1>1. list \in Seq(Procs) BY DEF SemaTypes
<1>2. DOMAIN list = 1..Len(list) BY <1>1
<1> QED BY <1>2 DEF ToSet

-----------------------------------------------------------------------------
(* Counting *)

LEMMA Tokens ==
  ASSUME NEW c
  PROVE  LET T == {t \in Procs \X (1..Most) : t[2] <= c[t[1]]} IN
         IsFiniteSet(T) /\ Count(c) = Cardinality(T) /\ Count(c) \in Nat
<1> DEFINE T == {t \in Procs \X (1..Most) : t[2] <= c[t[1]]}
<1>1. IsFiniteSet(1..Most) BY FS_Interval, SemaAssumption DEF Most
<1>2. IsFiniteSet(Procs \X (1..Most)) BY <1>1, FS_Product, SemaAssumption
<1>3. IsFiniteSet(T) BY <1>2, FS_Subset
<1> QED BY <1>3, FS_CardinalityType DEF Count

\* More for everybody is more.
LEMMA CountMore ==
  ASSUME NEW c \in [Procs -> 0..Most], NEW d \in [Procs -> 0..Most],
         \A p \in Procs : c[p] <= d[p]
  PROVE  Count(c) <= Count(d)
<1> DEFINE T(e) == {t \in Procs \X (1..Most) : t[2] <= e[t[1]]}
<1>1. T(c) \subseteq T(d)
  <2> SUFFICES ASSUME NEW t \in T(c) PROVE t \in T(d) OBVIOUS
  <2>1. t[1] \in Procs /\ t[2] \in 1..Most /\ t[2] <= c[t[1]] /\ t \in Procs \X (1..Most) OBVIOUS
  <2>2. c[t[1]] <= d[t[1]] /\ c[t[1]] \in Int /\ d[t[1]] \in Int /\ Most \in Int
    BY <2>1, SemaAssumption DEF Most
  <2> QED BY <2>1, <2>2
<1>2. IsFiniteSet(T(d)) /\ Count(c) = Cardinality(T(c)) /\ Count(d) = Cardinality(T(d)) BY Tokens
<1> QED BY <1>1, <1>2, FS_Subset

\* One less for one of them is one less.
LEMMA CountLess ==
  ASSUME NEW c \in [Procs -> 0..Most], NEW d \in [Procs -> 0..Most], NEW q \in Procs,
         \A p \in Procs \ {q} : c[p] <= d[p], c[q] <= d[q] + 1
  PROVE  Count(c) <= Count(d) + 1
<1> DEFINE T(e) == {t \in Procs \X (1..Most) : t[2] <= e[t[1]]}
           u == <<q, c[q]>>
<1>1. T(c) \subseteq T(d) \cup {u}
  <2> SUFFICES ASSUME NEW t \in T(c), t # u PROVE t \in T(d) OBVIOUS
  <2>1. PICK x \in Procs, k \in 1..Most : t = <<x, k>> /\ k <= c[x] OBVIOUS
  <2>2. c[x] \in Int /\ d[x] \in Int /\ Most \in Int BY SemaAssumption DEF Most
  <2>3. k <= d[x] BY <2>1, <2>2
  <2> QED BY <2>1, <2>3
<1>2. IsFiniteSet(T(d)) /\ Count(c) = Cardinality(T(c)) /\ Count(d) = Cardinality(T(d))
      /\ Count(d) \in Nat /\ Count(c) \in Nat
  BY Tokens
<1> HIDE DEF u, T
<1>3. IsFiniteSet(T(d) \cup {u}) /\ Cardinality(T(d) \cup {u}) <= Cardinality(T(d)) + 1
  <2>1. IsFiniteSet(T(d)) /\ Cardinality(T(d)) \in Nat BY <1>2
  <2>2. /\ IsFiniteSet(T(d) \cup {u})
        /\ Cardinality(T(d) \cup {u}) = IF u \in T(d) THEN Cardinality(T(d)) ELSE Cardinality(T(d)) + 1
    BY <2>1, FS_AddElement
  <2>3. CASE u \in T(d) BY <2>1, <2>2, <2>3
  <2>4. CASE u \notin T(d) BY <2>1, <2>2, <2>4
  <2> QED BY <2>3, <2>4
<1>4. Cardinality(T(c)) <= Cardinality(T(d) \cup {u}) BY <1>1, <1>3, FS_Subset
<1>5. Cardinality(T(d) \cup {u}) \in Nat BY <1>3, FS_CardinalityType
<1> QED BY <1>2, <1>3, <1>4, <1>5

\* One less for one of them and one more for another is as much.
LEMMA CountSwap ==
  ASSUME NEW c \in [Procs -> 0..Most], NEW d \in [Procs -> 0..Most],
         NEW q \in Procs, NEW x \in Procs, q # x,
         \A p \in Procs \ {q, x} : c[p] <= d[p], c[q] <= d[q] + 1, c[x] + 1 <= d[x]
  PROVE  Count(c) <= Count(d)
<1>1. PICK e : e = [d EXCEPT ![x] = c[x]] OBVIOUS
<1>2. e \in [Procs -> 0..Most] BY <1>1
<1>3. \A p \in Procs \ {q} : c[p] <= e[p]
  <2>1. \A p \in Procs : c[p] \in Int /\ d[p] \in Int BY SemaAssumption DEF Most
  <2> QED BY <1>1, <2>1
<1>4. c[q] <= e[q] + 1 BY <1>1
<1>5. Count(c) <= Count(e) + 1 BY <1>2, <1>3, <1>4, CountLess
<1> DEFINE T(f) == {t \in Procs \X (1..Most) : t[2] <= f[t[1]]}
           u == <<x, c[x] + 1>>
<1>6. c[x] \in Int /\ d[x] \in Int /\ c[x] >= 0 /\ d[x] <= Most /\ Most \in Int
  BY SemaAssumption DEF Most
<1>7. u \in T(d) /\ u \notin T(e) BY <1>1, <1>6
<1>8. T(e) \subseteq T(d)
  <2> SUFFICES ASSUME NEW t \in T(e) PROVE t \in T(d) OBVIOUS
  <2>1. PICK y \in Procs, k \in 1..Most : t = <<y, k>> /\ k <= e[y] OBVIOUS
  <2>2. e[y] \in Int /\ d[y] \in Int /\ e[y] <= d[y] BY <1>1, <1>6, SemaAssumption DEF Most
  <2>3. k <= d[y] BY <1>6, <2>1, <2>2
  <2> QED BY <2>1, <2>3
<1>9. /\ IsFiniteSet(T(d)) /\ IsFiniteSet(T(e))
      /\ Count(e) = Cardinality(T(e)) /\ Count(d) = Cardinality(T(d))
      /\ Count(d) \in Nat /\ Count(e) \in Nat /\ Count(c) \in Nat
  BY Tokens
<1> HIDE DEF u
<1>10. T(e) \cup {u} \subseteq T(d) BY <1>7, <1>8
<1>11. IsFiniteSet(T(e) \cup {u}) /\ Cardinality(T(e) \cup {u}) = Cardinality(T(e)) + 1
  BY <1>7, <1>9, FS_AddElement
<1>12. Cardinality(T(e) \cup {u}) <= Cardinality(T(d)) BY <1>9, <1>10, FS_Subset
<1> HIDE DEF T
<1> QED BY <1>5, <1>9, <1>11, <1>12

\* What one of them gets is added.
LEMMA CountAdd ==
  ASSUME NEW c \in [Procs -> 0..Most], NEW d \in [Procs -> 0..Most], NEW q \in Procs,
         NEW delta \in 0..Most, \A p \in Procs \ {q} : c[p] <= d[p], c[q] = 0, d[q] = delta
  PROVE  Count(c) + delta <= Count(d)
<1> DEFINE T(f) == {t \in Procs \X (1..Most) : t[2] <= f[t[1]]}
           U == {q} \X (1..delta)
<1>0. Most \in Nat BY SemaAssumption DEF Most
<1>1. U \subseteq T(d) /\ U \cap T(c) = {} BY <1>0
<1>2. T(c) \subseteq T(d)
  <2> SUFFICES ASSUME NEW t \in T(c) PROVE t \in T(d) OBVIOUS
  <2>1. PICK y \in Procs, k \in 1..Most : t = <<y, k>> /\ k <= c[y] OBVIOUS
  <2>2. c[y] \in Int /\ d[y] \in Int BY <1>0
  <2>3. k <= d[y] BY <1>0, <2>1, <2>2
  <2> QED BY <2>1, <2>3
<1>3. IsFiniteSet(U) /\ Cardinality(U) = delta
  <2>1. IsFiniteSet(1..delta) /\ Cardinality(1..delta) = delta BY <1>0, FS_Interval
  <2>2. IsFiniteSet({q}) /\ Cardinality({q}) = 1 BY FS_Singleton
  <2>3. IsFiniteSet(U) /\ Cardinality(U) = Cardinality({q}) * Cardinality(1..delta)
    BY <2>1, <2>2, FS_Product
  <2> HIDE DEF U
  <2> QED BY <1>0, <2>1, <2>2, <2>3
<1>4. /\ IsFiniteSet(T(c)) /\ IsFiniteSet(T(d))
      /\ Count(c) = Cardinality(T(c)) /\ Count(d) = Cardinality(T(d))
      /\ Count(c) \in Nat /\ Count(d) \in Nat
  BY Tokens
<1>5. T(c) \cap U = {} /\ T(c) \cup U \subseteq T(d) BY <1>1, <1>2
<1> HIDE DEF T, U
<1>6. Cardinality(T(c) \cup U) = Cardinality(T(c)) + Cardinality(U) - Cardinality(T(c) \cap U)
  BY <1>3, <1>4, FS_Union
<1>7. Cardinality(T(c) \cap U) = 0 BY <1>5, FS_EmptySet
<1>8. Cardinality(T(c) \cup U) <= Cardinality(T(d)) BY <1>4, <1>5, FS_Subset
<1> QED BY <1>0, <1>3, <1>4, <1>6, <1>7, <1>8

-----------------------------------------------------------------------------
(* Types, links and locks, action by action *)

LEMMA syssemacquireTypes ==
  ASSUME SemaTypes, SemaLinks, SemaLocks, NEW p \in Procs, NEW a \in Addrs, NEW k \in Kinds,
         syssemacquire(p, a, k)
  PROVE  SemaTypes' /\ SemaLinks' /\ SemaLocks'
<1> USE SemaNats
<1>1. SemaTypes' BY DEF syssemacquire, Goto, call, scan, SemaTypes, SemaLocks, PCs, InList, InLock
<1>2. SemaLinks' BY DEF syssemacquire, Goto, call, scan, SemaTypes, SemaLinks, SemaLocks, InList
<1>3. SemaLocks' BY DEF syssemacquire, Goto, call, scan, SemaTypes, SemaLocks, InLock
<1> QED BY <1>1, <1>2, <1>3

LEMMA semacquireTryTypes ==
  ASSUME SemaTypes, SemaLinks, SemaLocks, NEW p \in Procs, semacquireTry(p)
  PROVE  SemaTypes' /\ SemaLinks' /\ SemaLocks'
<1> USE SemaNats
<1>1. SemaTypes'
  BY DEF semacquireTry, Return, Goto, canacquire, cannotacquire, call, scan, SemaTypes,
     SemaLocks, PCs, InList, InLock
<1>2. SemaLinks'
  BY DEF semacquireTry, Return, Goto, canacquire, cannotacquire, call, scan, SemaTypes,
     SemaLinks, SemaLocks, InList
<1>3. SemaLocks'
  BY DEF semacquireTry, Return, Goto, canacquire, cannotacquire, call, scan, SemaTypes,
     SemaLocks, InLock
<1> QED BY <1>1, <1>2, <1>3

LEMMA semacquireBlockTypes ==
  ASSUME SemaTypes, SemaLinks, SemaLocks, NEW p \in Procs, semacquireBlock(p)
  PROVE  SemaTypes' /\ SemaLinks' /\ SemaLocks'
<1> USE SemaNats
<1>1. SemaTypes'
  BY DEF semacquireBlock, Goto, cannotacquire, call, scan, SemaTypes, SemaLocks, PCs, InList,
     InLock
<1>2. SemaLinks'
  BY DEF semacquireBlock, Goto, cannotacquire, call, scan, SemaTypes, SemaLinks, SemaLocks,
     InList
<1>3. SemaLocks'
  BY DEF semacquireBlock, Goto, cannotacquire, call, scan, SemaTypes, SemaLocks, InLock
<1> QED BY <1>1, <1>2, <1>3

LEMMA semqueueTypes ==
  ASSUME SemaTypes, SemaLinks, SemaLocks, NEW p \in Procs, semqueue(p)
  PROVE  SemaTypes' /\ SemaLinks' /\ SemaLocks'
<1> USE SemaNats
<1>0. list' \in Seq(Procs) /\ ToSet(list') = ToSet(list) \cup {p} /\ Distinct(list')
  <2>1. p \notin ToSet(list) BY DEF semqueue, SemaTypes, SemaLinks, InList
  <2> QED BY <2>1, AppendSet DEF semqueue, SemaTypes, SemaLinks
<1>2. SemaLinks' BY <1>0 DEF semqueue, Goto, SemaTypes, SemaLinks, InList
<1>1. SemaTypes' BY DEF semqueue, Goto, call, scan, SemaTypes, SemaLocks, PCs, InList, InLock
<1>3. SemaLocks' BY DEF semqueue, Goto, call, scan, SemaTypes, SemaLocks, InLock
<1> QED BY <1>1, <1>2, <1>3

LEMMA semacquireWaitTypes ==
  ASSUME SemaTypes, SemaLinks, SemaLocks, NEW p \in Procs, semacquireWait(p)
  PROVE  SemaTypes' /\ SemaLinks' /\ SemaLocks'
<1> USE SemaNats
<1>1. SemaTypes' BY DEF semacquireWait, Goto, call, scan, SemaTypes, SemaLocks, PCs, InList, InLock
<1>2. SemaLinks' BY DEF semacquireWait, Goto, call, scan, SemaTypes, SemaLinks, SemaLocks, InList
<1>3. SemaLocks' BY DEF semacquireWait, Goto, call, scan, SemaTypes, SemaLocks, InLock
<1> QED BY <1>1, <1>2, <1>3

LEMMA semacquireLastTypes ==
  ASSUME SemaTypes, SemaLinks, SemaLocks, NEW p \in Procs, semacquireLast(p)
  PROVE  SemaTypes' /\ SemaLinks' /\ SemaLocks'
<1> USE SemaNats
<1>0. value' \in [Addrs -> 0..MaxValue]
  <2>1. CASE canacquire(p) BY <2>1 DEF canacquire, SemaTypes, SemaLocks, semacquireLast
  <2>2. CASE cannotacquire(p) BY <2>2 DEF cannotacquire, SemaTypes
  <2> QED BY <2>1, <2>2 DEF semacquireLast
<1>1. SemaTypes' BY <1>0 DEF semacquireLast, Goto, call, scan, SemaTypes, PCs, InList
<1>2. SemaLinks'
  BY DEF semacquireLast, Goto, canacquire, cannotacquire, call, scan, SemaTypes, SemaLinks,
     SemaLocks, InList
<1>3. SemaLocks'
  BY DEF semacquireLast, Goto, canacquire, cannotacquire, call, scan, SemaTypes, SemaLocks,
     InLock
<1> QED BY <1>1, <1>2, <1>3

LEMMA sleepTypes ==
  ASSUME SemaTypes, SemaLinks, SemaLocks, NEW p \in Procs, sleep(p)
  PROVE  SemaTypes' /\ SemaLinks' /\ SemaLocks'
<1> USE SemaNats
<1>1. SemaTypes' BY DEF sleep, Goto, call, scan, SemaTypes, SemaLocks, PCs, InList, InLock
<1>2. SemaLinks' BY DEF sleep, Goto, call, scan, SemaTypes, SemaLinks, SemaLocks, InList
<1>3. SemaLocks' BY ZenonT(60) DEF sleep, Goto, call, scan, SemaTypes, SemaLocks, InLock
<1> QED BY <1>1, <1>2, <1>3

LEMMA awakeTypes ==
  ASSUME SemaTypes, SemaLinks, SemaLocks, NEW p \in Procs, awake(p)
  PROVE  SemaTypes' /\ SemaLinks' /\ SemaLocks'
<1> USE SemaNats
<1>1. SemaTypes' BY DEF awake, Goto, call, scan, SemaTypes, SemaLocks, PCs, InList, InLock
<1>2. SemaLinks' BY DEF awake, Goto, call, scan, SemaTypes, SemaLinks, SemaLocks, InList
<1>3. SemaLocks' BY DEF awake, Goto, call, scan, SemaTypes, SemaLocks, InLock
<1> QED BY <1>1, <1>2, <1>3

LEMMA semacquireLoopTypes ==
  ASSUME SemaTypes, SemaLinks, SemaLocks, NEW p \in Procs, semacquireLoop(p)
  PROVE  SemaTypes' /\ SemaLinks' /\ SemaLocks'
<1> USE SemaNats
<1>1. SemaTypes' BY DEF semacquireLoop, Goto, call, scan, SemaTypes, SemaLocks, PCs, InList, InLock
<1>2. SemaLinks' BY DEF semacquireLoop, Goto, call, scan, SemaTypes, SemaLinks, SemaLocks, InList
<1>3. SemaLocks' BY DEF semacquireLoop, Goto, call, scan, SemaTypes, SemaLocks, InLock
<1> QED BY <1>1, <1>2, <1>3

LEMMA tsemacquireTimeoutTypes ==
  ASSUME SemaTypes, SemaLinks, SemaLocks, NEW p \in Procs, tsemacquireTimeout(p)
  PROVE  SemaTypes' /\ SemaLinks' /\ SemaLocks'
<1> USE SemaNats
<1>1. SemaTypes'
  BY DEF tsemacquireTimeout, Goto, call, scan, SemaTypes, SemaLocks, PCs, InList, InLock
<1>2. SemaLinks'
  BY DEF tsemacquireTimeout, Goto, call, scan, SemaTypes, SemaLinks, SemaLocks, InList
<1>3. SemaLocks' BY DEF tsemacquireTimeout, Goto, call, scan, SemaTypes, SemaLocks, InLock
<1> QED BY <1>1, <1>2, <1>3

LEMMA semacquireEintrTypes ==
  ASSUME SemaTypes, SemaLinks, SemaLocks, NEW p \in Procs, semacquireEintr(p)
  PROVE  SemaTypes' /\ SemaLinks' /\ SemaLocks'
<1> USE SemaNats
<1>1. SemaTypes' BY DEF semacquireEintr, Goto, call, scan, SemaTypes, SemaLocks, PCs, InList, InLock
<1>2. SemaLinks' BY DEF semacquireEintr, Goto, call, scan, SemaTypes, SemaLinks, SemaLocks, InList
<1>3. SemaLocks' BY DEF semacquireEintr, Goto, call, scan, SemaTypes, SemaLocks, InLock
<1> QED BY <1>1, <1>2, <1>3

LEMMA semdequeueTypes ==
  ASSUME SemaTypes, SemaLinks, SemaLocks, NEW p \in Procs, semdequeue(p)
  PROVE  SemaTypes' /\ SemaLinks' /\ SemaLocks'
<1> USE SemaNats
<1>0. list' \in Seq(Procs) /\ ToSet(list') = ToSet(list) \ {p} /\ Distinct(list')
  BY RemoveFirstSet DEF semdequeue, SemaTypes, SemaLinks
<1>1. SemaTypes' BY <1>0 DEF semdequeue, Goto, call, scan, SemaTypes, PCs
<1>2. SemaLinks' BY <1>0 DEF semdequeue, Goto, SemaTypes, SemaLinks, InList
<1>3. SemaLocks' BY DEF semdequeue, Goto, call, scan, SemaTypes, SemaLocks, InLock
<1> QED BY <1>1, <1>2, <1>3

LEMMA semacquirePassTypes ==
  ASSUME SemaTypes, SemaLinks, SemaLocks, NEW p \in Procs, semacquirePass(p)
  PROVE  SemaTypes' /\ SemaLinks' /\ SemaLocks'
<1> USE SemaNats
<1>0. n' \in [Procs -> 0..MaxDelta + 1]
  <2>1. 1 \in 0..MaxDelta + 1 OBVIOUS
  <2>2. CASE n' = [n EXCEPT ![p] = 1] BY <2>1, <2>2 DEF SemaTypes
  <2> QED BY <2>2 DEF semacquirePass, SemaTypes
<1>4. pc' \in [Procs -> PCs]
  <2>1. pc' = [pc EXCEPT ![p] = "lock"] \/ pc' = [pc EXCEPT ![p] = "idle"]
    BY DEF semacquirePass, Return, Goto
  <2> QED BY <2>1 DEF SemaTypes, PCs
<1>5. /\ waiting' \in [Procs -> BOOLEAN] /\ addr' \in [Procs -> Addrs \cup {none}]
      /\ kind' \in [Procs -> {"block", "poll", "timed"}]
  BY DEF semacquirePass, Return, call, SemaTypes
<1>1. SemaTypes' BY <1>0, <1>4, <1>5 DEF semacquirePass, SemaTypes
<1>2. SemaLinks'
  BY DEF semacquirePass, Return, Goto, call, scan, SemaTypes, SemaLinks, SemaLocks, InList
<1>3. SemaLocks' BY ZenonT(60) DEF semacquirePass, Return, Goto, call, scan, SemaTypes, SemaLocks, InLock
<1> QED BY <1>1, <1>2, <1>3

LEMMA semreleaseTypes ==
  ASSUME SemaTypes, SemaLinks, SemaLocks, NEW p \in Procs, NEW a \in Addrs, NEW delta \in 0..MaxDelta,
         semrelease(p, a, delta)
  PROVE  SemaTypes' /\ SemaLinks' /\ SemaLocks'
<1> USE SemaNats
<1>1. SemaTypes' BY DEF semrelease, Goto, call, scan, SemaTypes, SemaLocks, PCs, InList, InLock
<1>2. SemaLinks' BY DEF semrelease, Goto, call, scan, SemaTypes, SemaLinks, SemaLocks, InList
<1>3. SemaLocks' BY DEF semrelease, Goto, call, scan, SemaTypes, SemaLocks, InLock
<1> QED BY <1>1, <1>2, <1>3

LEMMA semwakeupTypes ==
  ASSUME SemaTypes, SemaLinks, SemaLocks, NEW p \in Procs, semwakeup(p)
  PROVE  SemaTypes' /\ SemaLinks' /\ SemaLocks'
<1> USE SemaNats
<1>1. SemaTypes' BY DEF semwakeup, Goto, call, scan, SemaTypes, SemaLocks, PCs, InList, InLock
<1>2. SemaLinks' BY DEF semwakeup, Goto, call, scan, SemaTypes, SemaLinks, SemaLocks, InList
<1>3. SemaLocks' BY DEF semwakeup, Goto, call, scan, SemaTypes, SemaLocks, InLock
<1> QED BY <1>1, <1>2, <1>3

LEMMA semwakeupClearTypes ==
  ASSUME SemaTypes, SemaLinks, SemaLocks, NEW p \in Procs, semwakeupClear(p)
  PROVE  SemaTypes' /\ SemaLinks' /\ SemaLocks'
<1> USE SemaNats
<1>1. SemaTypes'
  BY DEF semwakeupClear, Goto, More, call, scan, SemaTypes, SemaLocks, PCs, InList, InLock
<1>2. SemaLinks'
  BY DEF semwakeupClear, Goto, More, call, scan, SemaTypes, SemaLinks, SemaLocks, InList
<1>3. SemaLocks' BY DEF semwakeupClear, Goto, More, call, scan, SemaTypes, SemaLocks, InLock
<1> QED BY <1>1, <1>2, <1>3

LEMMA semwakeupSkipTypes ==
  ASSUME SemaTypes, SemaLinks, SemaLocks, NEW p \in Procs, semwakeupSkip(p)
  PROVE  SemaTypes' /\ SemaLinks' /\ SemaLocks'
<1> USE SemaNats
<1>0. cur' \in [Procs -> Nat] BY DEF semwakeupSkip, SemaTypes
<1>1. SemaTypes' BY <1>0 DEF semwakeupSkip, call, SemaTypes
<1>2. SemaLinks' BY DEF semwakeupSkip, More, call, scan, SemaTypes, SemaLinks, SemaLocks, InList
<1>3. SemaLocks' BY DEF semwakeupSkip, More, call, scan, SemaTypes, SemaLocks, InLock
<1> QED BY <1>1, <1>2, <1>3

LEMMA semwakeupWakeTypes ==
  ASSUME SemaTypes, SemaLinks, SemaLocks, NEW p \in Procs, semwakeupWake(p)
  PROVE  SemaTypes' /\ SemaLinks' /\ SemaLocks'
<1> USE SemaNats
<1>0. cur' \in [Procs -> Nat] BY DEF semwakeupWake, SemaTypes
<1>4. n' \in [Procs -> 0..MaxDelta + 1]
  <2>1. n[p] \in 0..MaxDelta + 1 /\ n[p] > 0 BY DEF semwakeupWake, SemaTypes, SemaLocks
  <2>2. n[p] - 1 \in 0..MaxDelta + 1 BY <2>1
  <2> QED BY <2>2 DEF semwakeupWake, SemaTypes
<1>5. pc' \in [Procs -> PCs] BY DEF semwakeupWake, Goto, SemaTypes, PCs, InLock
<1>6. asleep' \in [Procs -> BOOLEAN] BY DEF semwakeupWake, SemaTypes
<1>1. SemaTypes' BY <1>0, <1>4, <1>5, <1>6 DEF semwakeupWake, call, SemaTypes
<1>2. SemaLinks' BY DEF semwakeupWake, Goto, call, scan, SemaTypes, SemaLinks, SemaLocks, InList
<1>3. SemaLocks' BY SMTT(30) DEF semwakeupWake, Goto, call, scan, SemaTypes, SemaLocks, InLock
<1> QED BY <1>1, <1>2, <1>3

LEMMA semwakeupDoneTypes ==
  ASSUME SemaTypes, SemaLinks, SemaLocks, NEW p \in Procs, semwakeupDone(p)
  PROVE  SemaTypes' /\ SemaLinks' /\ SemaLocks'
<1> USE SemaNats
<1>1. SemaTypes'
  BY DEF semwakeupDone, Return, Goto, More, call, scan, SemaTypes, SemaLocks, PCs, InList,
     InLock
<1>2. SemaLinks'
  BY DEF semwakeupDone, Return, Goto, More, call, scan, SemaTypes, SemaLinks, SemaLocks, InList
<1>3. SemaLocks' BY DEF semwakeupDone, Return, Goto, More, call, scan, SemaTypes, SemaLocks, InLock
<1> QED BY <1>1, <1>2, <1>3

LEMMA postnoteTypes ==
  ASSUME SemaTypes, SemaLinks, SemaLocks, NEW p \in Procs, postnote(p)
  PROVE  SemaTypes' /\ SemaLinks' /\ SemaLocks'
<1> USE SemaNats
<1>1. SemaTypes' BY DEF postnote, call, scan, SemaTypes, SemaLocks, PCs, InList, InLock
<1>2. SemaLinks' BY DEF postnote, call, scan, SemaTypes, SemaLinks, SemaLocks, InList
<1>3. SemaLocks' BY DEF postnote, call, scan, SemaTypes, SemaLocks, InLock
<1> QED BY <1>1, <1>2, <1>3

LEMMA twakeupTypes ==
  ASSUME SemaTypes, SemaLinks, SemaLocks, NEW p \in Procs, twakeup(p)
  PROVE  SemaTypes' /\ SemaLinks' /\ SemaLocks'
<1> USE SemaNats
<1>1. SemaTypes' BY DEF twakeup, call, scan, SemaTypes, SemaLocks, PCs, InList, InLock
<1>2. SemaLinks' BY DEF twakeup, call, scan, SemaTypes, SemaLinks, SemaLocks, InList
<1>3. SemaLocks' BY DEF twakeup, call, scan, SemaTypes, SemaLocks, InLock
<1> QED BY <1>1, <1>2, <1>3

-----------------------------------------------------------------------------
(* Every sleeper stays covered *)

\* What Credit is at each control point.
LEMMA CreditTable ==
  ASSUME NEW w \in BOOLEAN, NEW m \in 0..MaxDelta + 1, NEW c \in Nat, NEW i \in Nat
  PROVE  /\ \A l \in {"wait", "sleep", "asleep", "woke", "dequeue", "pass"} :
              Credit(l, w, m, c, i) = IF w THEN 0 ELSE 1
         /\ Credit("last", w, m, c, i) = IF w THEN 1 ELSE 2
         /\ Credit("lock", w, m, c, i) = m
         /\ Credit("scan", w, m, c, i) = IF c <= i THEN m ELSE 0
         /\ Credit("wake", w, m, c, i) = IF c < i THEN m - 1 ELSE 0
         /\ \A l \in {"idle", "try", "queue"} : Credit(l, w, m, c, i) = 0
BY DEF Credit

LEMMA CreditType ==
  ASSUME NEW l \in PCs, NEW w \in BOOLEAN, NEW m \in 0..MaxDelta + 1, l = "wake" => m > 0,
         NEW c \in Nat, NEW i \in Nat
  PROVE  Credit(l, w, m, c, i) \in 0..Most
<1>1. MaxDelta \in Nat /\ Most = MaxDelta + 2 BY SemaNats DEF Most
<1>2. CASE l \in {"wait", "sleep", "asleep", "woke", "dequeue", "pass"}
  BY <1>1, <1>2, CreditTable
<1>3. CASE l = "last" BY <1>1, <1>3, CreditTable
<1>4. CASE l = "lock" BY <1>1, <1>4, CreditTable
<1>5. CASE l = "scan" BY <1>1, <1>5, CreditTable
<1>6. CASE l = "wake" BY <1>1, <1>6, CreditTable
<1>7. CASE l \in {"idle", "try", "queue"} BY <1>1, <1>7, CreditTable
<1> QED BY <1>2, <1>3, <1>4, <1>5, <1>6, <1>7 DEF PCs, InList, InLock

LEMMA ShareType ==
  ASSUME SemaTypes, SemaLocks, NEW a \in Addrs, NEW i \in Nat
  PROVE  Shares(a, i) \in [Procs -> 0..Most]
<1> SUFFICES ASSUME NEW p \in Procs PROVE Share(p, a, i) \in 0..Most BY DEF Shares
<1>1. /\ pc[p] \in PCs /\ waiting[p] \in BOOLEAN /\ n[p] \in 0..MaxDelta + 1 /\ cur[p] \in Nat
      /\ pc[p] = "wake" => n[p] > 0
  BY DEF SemaTypes, SemaLocks
<1>2. 0 \in 0..Most BY SemaNats DEF Most
<1> QED BY <1>1, <1>2, CreditType DEF Share

LEMMA ShareTypeNext ==
  ASSUME SemaTypes', SemaLocks', NEW a \in Addrs, NEW i \in Nat
  PROVE  Shares(a, i)' \in [Procs -> 0..Most]
<1> SUFFICES ASSUME NEW p \in Procs PROVE Share(p, a, i)' \in 0..Most BY DEF Shares
<1>1. /\ pc'[p] \in PCs /\ waiting'[p] \in BOOLEAN /\ n'[p] \in 0..MaxDelta + 1 /\ cur'[p] \in Nat
      /\ pc'[p] = "wake" => n'[p] > 0
  BY DEF SemaTypes, SemaLocks
<1>2. 0 \in 0..Most BY SemaNats DEF Most
<1> QED BY <1>1, <1>2, CreditType DEF Share

\* A step keeps the sleepers covered when no value grows and each sleeper was
\* one already, with no more to count on than it has now.
LEMMA StillCovered ==
  ASSUME SemaTypes, SemaTypes', SemaLocks, SemaLocks', Covered,
         \A a \in Addrs : value'[a] <= value[a],
         \A a \in Addrs, j \in 1..Len(list') : Sleeper(list[j], a)' =>
           \/ value'[a] = 0
           \/ \E i \in 1..Len(list) :
                Sleeper(list[i], a) /\ \A q \in Procs : Share(q, a, i) <= Share(q, a, j)'
  PROVE  Covered'
<1> SUFFICES ASSUME NEW a \in Addrs, NEW j \in 1..Len(list'), Sleeper(list[j], a)'
             PROVE  value'[a] <= Count(Shares(a, j)')
  BY DEF Covered
<1>0. value'[a] \in Int /\ value[a] \in Int /\ value'[a] <= value[a] /\ j \in Nat
  BY SemaNats DEF SemaTypes
<1>1. PICK d : d = Shares(a, j)' OBVIOUS
<1>2. d \in [Procs -> 0..Most] /\ Count(d) \in Nat BY <1>0, <1>1, ShareTypeNext, Tokens
<1>3. CASE value'[a] = 0 BY <1>1, <1>2, <1>3
<1>4. CASE \E i \in 1..Len(list) :
             Sleeper(list[i], a) /\ \A q \in Procs : Share(q, a, i) <= Share(q, a, j)'
  <2>1. PICK i \in 1..Len(list) :
          Sleeper(list[i], a) /\ \A q \in Procs : Share(q, a, i) <= Share(q, a, j)'
    BY <1>4
  <2>2. PICK c : c = Shares(a, i) OBVIOUS
  <2>3. i \in Nat BY DEF SemaTypes
  <2>4. c \in [Procs -> 0..Most] /\ Count(c) \in Nat BY <2>2, <2>3, ShareType, Tokens
  <2>5. \A q \in Procs : c[q] <= d[q] BY <1>1, <2>1, <2>2 DEF Shares
  <2>6. Count(c) <= Count(d) BY <1>2, <2>4, <2>5, CountMore
  <2>7. value[a] <= Count(c) BY <2>1, <2>2 DEF Covered
  <2> QED BY <1>0, <1>1, <1>2, <2>4, <2>6, <2>7
<1> QED BY <1>3, <1>4

\* What the others have does not change when their locals do not.
Aside(p) ==
  \A q \in Procs \ {p} :
    /\ pc'[q] = pc[q] /\ waiting'[q] = waiting[q] /\ addr'[q] = addr[q]
    /\ n'[q] = n[q] /\ cur'[q] = cur[q]

LEMMA SameShare ==
  ASSUME NEW p \in Procs, Aside(p), NEW q \in Procs \ {p}, NEW a, NEW i
  PROVE  Share(q, a, i)' = Share(q, a, i) /\ (Sleeper(q, a)' <=> Sleeper(q, a))
BY DEF Aside, Share, Sleeper

\* The step of one process that leaves the list alone.
LEMMA OneStepCovered ==
  ASSUME SemaTypes, SemaTypes', SemaLocks, SemaLocks', Covered, list' = list,
         NEW p \in Procs, Aside(p), \A a \in Addrs : value'[a] <= value[a],
         \A a \in Addrs : Sleeper(p, a)' => value'[a] = 0 \/ Sleeper(p, a),
         \A a \in Addrs, i \in 1..Len(list) :
           Sleeper(list[i], a) => value'[a] = 0 \/ Share(p, a, i) <= Share(p, a, i)'
  PROVE  Covered'
<1> SUFFICES ASSUME NEW a \in Addrs, NEW j \in 1..Len(list'), Sleeper(list[j], a)', value'[a] # 0
             PROVE  \E i \in 1..Len(list) :
                      Sleeper(list[i], a) /\ \A q \in Procs : Share(q, a, i) <= Share(q, a, j)'
  BY StillCovered
<1>1. j \in 1..Len(list) /\ list'[j] = list[j] /\ list[j] \in Procs /\ j \in Nat BY DEF SemaTypes
<1>2. Sleeper(list[j], a)
  <2>1. CASE list[j] = p BY <1>1, <2>1 DEF Sleeper
  <2>2. CASE list[j] # p BY <1>1, <2>2 DEF Sleeper, Aside
  <2> QED BY <2>1, <2>2
<1>3. ASSUME NEW q \in Procs PROVE Share(q, a, j) <= Share(q, a, j)'
  <2>1. Share(q, a, j) \in Int
    <3>1. Shares(a, j)[q] \in 0..Most /\ Most \in Int BY <1>1, ShareType, SemaNats DEF Most
    <3> QED BY <3>1 DEF Shares
  <2>2. CASE q = p BY <1>1, <1>2, <2>2
  <2>3. CASE q # p BY <2>1, <2>3, SameShare
  <2> QED BY <2>2, <2>3
<1> QED BY <1>1, <1>2, <1>3

LEMMA syssemacquireCovered ==
  ASSUME SemaInv, NEW p \in Procs, NEW b \in Addrs, NEW k \in Kinds,
         syssemacquire(p, b, k)
  PROVE  Covered'
<1>1. SemaTypes /\ SemaLinks /\ SemaLocks /\ Covered BY DEF SemaInv
<1>2. SemaTypes' /\ SemaLocks' BY <1>1, syssemacquireTypes
<1>3. Aside(p) /\ list' = list BY <1>1 DEF syssemacquire, Goto, call, scan, SemaTypes, Aside
<1>4. \A a \in Addrs : value'[a] <= value[a]
  BY <1>1, SemaNats DEF syssemacquire, Goto, call, scan, SemaTypes
<1>5. \A a \in Addrs : Sleeper(p, a)' => Sleeper(p, a)
  BY <1>1 DEF syssemacquire, Goto, call, scan, SemaTypes, Sleeper
<1>6. ASSUME NEW a \in Addrs, NEW i \in 1..Len(list), Sleeper(list[i], a)
      PROVE  Share(p, a, i) <= Share(p, a, i)'
  <2>1. /\ waiting[p] \in BOOLEAN /\ n[p] \in 0..MaxDelta + 1 /\ cur[p] \in Nat /\ i \in Nat
        /\ waiting'[p] \in BOOLEAN /\ n'[p] \in 0..MaxDelta + 1 /\ cur'[p] \in Nat /\ MaxDelta \in Nat
    BY <1>1, <1>2, SemaNats DEF SemaTypes
  <2>2. pc[p] = "idle" /\ pc'[p] = "try"
    BY <1>1, <1>6, <2>1 DEF syssemacquire, Goto, call, scan, SemaTypes, Sleeper
  <2>3. /\ Share(p, a, i) = IF addr[p] = a THEN Credit("idle", waiting[p], n[p], cur[p], i) ELSE 0
        /\ Share(p, a, i)' = IF addr'[p] = a THEN Credit("try", waiting'[p], n'[p], cur'[p], i) ELSE 0
    BY <2>2 DEF Share
  <2> QED BY <2>1, <2>2, <2>3 DEF Credit
<1> QED BY <1>1, <1>2, <1>3, <1>4, <1>5, <1>6, OneStepCovered

LEMMA semacquireTryCovered ==
  ASSUME SemaInv, NEW p \in Procs, semacquireTry(p)
  PROVE  Covered'
<1>1. SemaTypes /\ SemaLinks /\ SemaLocks /\ Covered BY DEF SemaInv
<1>2. SemaTypes' /\ SemaLocks' BY <1>1, semacquireTryTypes
<1>3. Aside(p) /\ list' = list
  BY <1>1 DEF semacquireTry, Return, Goto, canacquire, cannotacquire, call, scan, SemaTypes,
     Aside
<1>4. \A a \in Addrs : value'[a] <= value[a]
  <2>1. CASE canacquire(p) BY <1>1, <2>1, SemaNats DEF canacquire, SemaTypes
  <2>2. CASE cannotacquire(p) BY <1>1, <2>2, SemaNats DEF cannotacquire, SemaTypes
  <2> QED BY <2>1, <2>2 DEF semacquireTry
<1>5. \A a \in Addrs : Sleeper(p, a)' => Sleeper(p, a)
  BY <1>1 DEF semacquireTry, Return, Goto, canacquire, cannotacquire, call, scan, SemaTypes,
     Sleeper
<1>6. ASSUME NEW a \in Addrs, NEW i \in 1..Len(list), Sleeper(list[i], a)
      PROVE  Share(p, a, i) <= Share(p, a, i)'
  <2>1. /\ waiting[p] \in BOOLEAN /\ n[p] \in 0..MaxDelta + 1 /\ cur[p] \in Nat /\ i \in Nat
        /\ waiting'[p] \in BOOLEAN /\ n'[p] \in 0..MaxDelta + 1 /\ cur'[p] \in Nat /\ MaxDelta \in Nat
    BY <1>1, <1>2, SemaNats DEF SemaTypes
  <2>2. pc[p] = "try" /\ pc'[p] = "idle"
    BY <1>1, <1>6, <2>1 DEF semacquireTry, Return, Goto, canacquire, cannotacquire, call, scan, SemaTypes, Sleeper
  <2>3. /\ Share(p, a, i) = IF addr[p] = a THEN Credit("try", waiting[p], n[p], cur[p], i) ELSE 0
        /\ Share(p, a, i)' = IF addr'[p] = a THEN Credit("idle", waiting'[p], n'[p], cur'[p], i) ELSE 0
    BY <2>2 DEF Share
  <2> QED BY <2>1, <2>2, <2>3 DEF Credit
<1> QED BY <1>1, <1>2, <1>3, <1>4, <1>5, <1>6, OneStepCovered

LEMMA semacquireBlockCovered ==
  ASSUME SemaInv, NEW p \in Procs, semacquireBlock(p)
  PROVE  Covered'
<1>1. SemaTypes /\ SemaLinks /\ SemaLocks /\ Covered BY DEF SemaInv
<1>2. SemaTypes' /\ SemaLocks' BY <1>1, semacquireBlockTypes
<1>3. Aside(p) /\ list' = list
  BY <1>1 DEF semacquireBlock, Goto, cannotacquire, call, scan, SemaTypes, Aside
<1>4. \A a \in Addrs : value'[a] <= value[a]
  BY <1>1, SemaNats DEF semacquireBlock, Goto, cannotacquire, call, scan, SemaTypes
<1>5. \A a \in Addrs : Sleeper(p, a)' => Sleeper(p, a)
  BY <1>1 DEF semacquireBlock, Goto, cannotacquire, call, scan, SemaTypes, Sleeper
<1>6. ASSUME NEW a \in Addrs, NEW i \in 1..Len(list), Sleeper(list[i], a)
      PROVE  Share(p, a, i) <= Share(p, a, i)'
  <2>1. /\ waiting[p] \in BOOLEAN /\ n[p] \in 0..MaxDelta + 1 /\ cur[p] \in Nat /\ i \in Nat
        /\ waiting'[p] \in BOOLEAN /\ n'[p] \in 0..MaxDelta + 1 /\ cur'[p] \in Nat /\ MaxDelta \in Nat
    BY <1>1, <1>2, SemaNats DEF SemaTypes
  <2>2. pc[p] = "try" /\ pc'[p] = "queue"
    BY <1>1, <1>6, <2>1 DEF semacquireBlock, Goto, cannotacquire, call, scan, SemaTypes, Sleeper
  <2>3. /\ Share(p, a, i) = IF addr[p] = a THEN Credit("try", waiting[p], n[p], cur[p], i) ELSE 0
        /\ Share(p, a, i)' = IF addr'[p] = a THEN Credit("queue", waiting'[p], n'[p], cur'[p], i) ELSE 0
    BY <2>2 DEF Share
  <2> QED BY <2>1, <2>2, <2>3 DEF Credit
<1> QED BY <1>1, <1>2, <1>3, <1>4, <1>5, <1>6, OneStepCovered

LEMMA semacquireWaitCovered ==
  ASSUME SemaInv, NEW p \in Procs, semacquireWait(p)
  PROVE  Covered'
<1>1. SemaTypes /\ SemaLinks /\ SemaLocks /\ Covered BY DEF SemaInv
<1>2. SemaTypes' /\ SemaLocks' BY <1>1, semacquireWaitTypes
<1>3. Aside(p) /\ list' = list BY <1>1 DEF semacquireWait, Goto, call, scan, SemaTypes, Aside
<1>4. \A a \in Addrs : value'[a] <= value[a]
  BY <1>1, SemaNats DEF semacquireWait, Goto, call, scan, SemaTypes
<1>5. \A a \in Addrs : Sleeper(p, a)' => Sleeper(p, a)
  BY <1>1 DEF semacquireWait, Goto, call, scan, SemaTypes, Sleeper
<1>6. ASSUME NEW a \in Addrs, NEW i \in 1..Len(list), Sleeper(list[i], a)
      PROVE  Share(p, a, i) <= Share(p, a, i)'
  <2>1. /\ waiting[p] \in BOOLEAN /\ n[p] \in 0..MaxDelta + 1 /\ cur[p] \in Nat /\ i \in Nat
        /\ waiting'[p] \in BOOLEAN /\ n'[p] \in 0..MaxDelta + 1 /\ cur'[p] \in Nat /\ MaxDelta \in Nat
    BY <1>1, <1>2, SemaNats DEF SemaTypes
  <2>2. pc[p] = "wait" /\ pc'[p] = "last" /\ addr'[p] = addr[p] /\ waiting'[p] = TRUE
    BY <1>1, <1>6, <2>1 DEF semacquireWait, Goto, call, scan, SemaTypes, Sleeper
  <2>3. /\ Share(p, a, i) = IF addr[p] = a THEN Credit("wait", waiting[p], n[p], cur[p], i) ELSE 0
        /\ Share(p, a, i)' = IF addr'[p] = a THEN Credit("last", waiting'[p], n'[p], cur'[p], i) ELSE 0
    BY <2>2 DEF Share
  <2> QED BY <2>1, <2>2, <2>3 DEF Credit
<1> QED BY <1>1, <1>2, <1>3, <1>4, <1>5, <1>6, OneStepCovered

LEMMA sleepCovered ==
  ASSUME SemaInv, NEW p \in Procs, sleep(p)
  PROVE  Covered'
<1>1. SemaTypes /\ SemaLinks /\ SemaLocks /\ Covered BY DEF SemaInv
<1>2. SemaTypes' /\ SemaLocks' BY <1>1, sleepTypes
<1>3. Aside(p) /\ list' = list BY <1>1 DEF sleep, Goto, call, scan, SemaTypes, Aside
<1>4. \A a \in Addrs : value'[a] <= value[a]
  BY <1>1, SemaNats DEF sleep, Goto, call, scan, SemaTypes
<1>5. \A a \in Addrs : Sleeper(p, a)' => Sleeper(p, a)
  BY <1>1 DEF sleep, Goto, call, scan, SemaTypes, Sleeper
<1>6. ASSUME NEW a \in Addrs, NEW i \in 1..Len(list), Sleeper(list[i], a)
      PROVE  Share(p, a, i) <= Share(p, a, i)'
  <2>1. /\ waiting[p] \in BOOLEAN /\ n[p] \in 0..MaxDelta + 1 /\ cur[p] \in Nat /\ i \in Nat
        /\ waiting'[p] \in BOOLEAN /\ n'[p] \in 0..MaxDelta + 1 /\ cur'[p] \in Nat /\ MaxDelta \in Nat
    BY <1>1, <1>2, SemaNats DEF SemaTypes
  <2>2. \/ pc[p] = "sleep" /\ pc'[p] = "asleep" /\ addr'[p] = addr[p] /\ waiting'[p] = waiting[p]
        \/ pc[p] = "sleep" /\ pc'[p] = "woke" /\ addr'[p] = addr[p] /\ waiting'[p] = waiting[p]
    BY <1>1, <2>1 DEF sleep, Goto, call, scan, SemaTypes
  <2>3. CASE pc[p] = "sleep" /\ pc'[p] = "asleep" /\ addr'[p] = addr[p] /\ waiting'[p] = waiting[p]
    <3>1. /\ Share(p, a, i) = IF addr[p] = a THEN Credit("sleep", waiting[p], n[p], cur[p], i) ELSE 0
          /\ Share(p, a, i)' = IF addr'[p] = a THEN Credit("asleep", waiting'[p], n'[p], cur'[p], i) ELSE 0
      BY <2>3 DEF Share
    <3> QED BY <2>1, <2>3, <3>1 DEF Credit
  <2>4. CASE pc[p] = "sleep" /\ pc'[p] = "woke" /\ addr'[p] = addr[p] /\ waiting'[p] = waiting[p]
    <3>1. /\ Share(p, a, i) = IF addr[p] = a THEN Credit("sleep", waiting[p], n[p], cur[p], i) ELSE 0
          /\ Share(p, a, i)' = IF addr'[p] = a THEN Credit("woke", waiting'[p], n'[p], cur'[p], i) ELSE 0
      BY <2>4 DEF Share
    <3> QED BY <2>1, <2>4, <3>1 DEF Credit
  <2> QED BY <2>2, <2>3, <2>4
<1> QED BY <1>1, <1>2, <1>3, <1>4, <1>5, <1>6, OneStepCovered

LEMMA awakeCovered ==
  ASSUME SemaInv, NEW p \in Procs, awake(p)
  PROVE  Covered'
<1>1. SemaTypes /\ SemaLinks /\ SemaLocks /\ Covered BY DEF SemaInv
<1>2. SemaTypes' /\ SemaLocks' BY <1>1, awakeTypes
<1>3. Aside(p) /\ list' = list BY <1>1 DEF awake, Goto, call, scan, SemaTypes, Aside
<1>4. \A a \in Addrs : value'[a] <= value[a]
  BY <1>1, SemaNats DEF awake, Goto, call, scan, SemaTypes
<1>5. \A a \in Addrs : Sleeper(p, a)' => Sleeper(p, a)
  BY <1>1 DEF awake, Goto, call, scan, SemaTypes, Sleeper
<1>6. ASSUME NEW a \in Addrs, NEW i \in 1..Len(list), Sleeper(list[i], a)
      PROVE  Share(p, a, i) <= Share(p, a, i)'
  <2>1. /\ waiting[p] \in BOOLEAN /\ n[p] \in 0..MaxDelta + 1 /\ cur[p] \in Nat /\ i \in Nat
        /\ waiting'[p] \in BOOLEAN /\ n'[p] \in 0..MaxDelta + 1 /\ cur'[p] \in Nat /\ MaxDelta \in Nat
    BY <1>1, <1>2, SemaNats DEF SemaTypes
  <2>2. pc[p] = "asleep" /\ pc'[p] = "woke" /\ addr'[p] = addr[p] /\ waiting'[p] = waiting[p]
    BY <1>1, <1>6, <2>1 DEF awake, Goto, call, scan, SemaTypes, Sleeper
  <2>3. /\ Share(p, a, i) = IF addr[p] = a THEN Credit("asleep", waiting[p], n[p], cur[p], i) ELSE 0
        /\ Share(p, a, i)' = IF addr'[p] = a THEN Credit("woke", waiting'[p], n'[p], cur'[p], i) ELSE 0
    BY <2>2 DEF Share
  <2> QED BY <2>1, <2>2, <2>3 DEF Credit
<1> QED BY <1>1, <1>2, <1>3, <1>4, <1>5, <1>6, OneStepCovered

LEMMA semacquireLoopCovered ==
  ASSUME SemaInv, NEW p \in Procs, semacquireLoop(p)
  PROVE  Covered'
<1>1. SemaTypes /\ SemaLinks /\ SemaLocks /\ Covered BY DEF SemaInv
<1>2. SemaTypes' /\ SemaLocks' BY <1>1, semacquireLoopTypes
<1>3. Aside(p) /\ list' = list BY <1>1 DEF semacquireLoop, Goto, call, scan, SemaTypes, Aside
<1>4. \A a \in Addrs : value'[a] <= value[a]
  BY <1>1, SemaNats DEF semacquireLoop, Goto, call, scan, SemaTypes
<1>5. \A a \in Addrs : Sleeper(p, a)' => Sleeper(p, a)
  BY <1>1 DEF semacquireLoop, Goto, call, scan, SemaTypes, Sleeper
<1>6. ASSUME NEW a \in Addrs, NEW i \in 1..Len(list), Sleeper(list[i], a)
      PROVE  Share(p, a, i) <= Share(p, a, i)'
  <2>1. /\ waiting[p] \in BOOLEAN /\ n[p] \in 0..MaxDelta + 1 /\ cur[p] \in Nat /\ i \in Nat
        /\ waiting'[p] \in BOOLEAN /\ n'[p] \in 0..MaxDelta + 1 /\ cur'[p] \in Nat /\ MaxDelta \in Nat
    BY <1>1, <1>2, SemaNats DEF SemaTypes
  <2>2. pc[p] = "woke" /\ pc'[p] = "wait" /\ addr'[p] = addr[p] /\ waiting'[p] = waiting[p]
    BY <1>1, <1>6, <2>1 DEF semacquireLoop, Goto, call, scan, SemaTypes, Sleeper
  <2>3. /\ Share(p, a, i) = IF addr[p] = a THEN Credit("woke", waiting[p], n[p], cur[p], i) ELSE 0
        /\ Share(p, a, i)' = IF addr'[p] = a THEN Credit("wait", waiting'[p], n'[p], cur'[p], i) ELSE 0
    BY <2>2 DEF Share
  <2> QED BY <2>1, <2>2, <2>3 DEF Credit
<1> QED BY <1>1, <1>2, <1>3, <1>4, <1>5, <1>6, OneStepCovered

LEMMA tsemacquireTimeoutCovered ==
  ASSUME SemaInv, NEW p \in Procs, tsemacquireTimeout(p)
  PROVE  Covered'
<1>1. SemaTypes /\ SemaLinks /\ SemaLocks /\ Covered BY DEF SemaInv
<1>2. SemaTypes' /\ SemaLocks' BY <1>1, tsemacquireTimeoutTypes
<1>3. Aside(p) /\ list' = list BY <1>1 DEF tsemacquireTimeout, Goto, call, scan, SemaTypes, Aside
<1>4. \A a \in Addrs : value'[a] <= value[a]
  BY <1>1, SemaNats DEF tsemacquireTimeout, Goto, call, scan, SemaTypes
<1>5. \A a \in Addrs : Sleeper(p, a)' => Sleeper(p, a)
  BY <1>1 DEF tsemacquireTimeout, Goto, call, scan, SemaTypes, Sleeper
<1>6. ASSUME NEW a \in Addrs, NEW i \in 1..Len(list), Sleeper(list[i], a)
      PROVE  Share(p, a, i) <= Share(p, a, i)'
  <2>1. /\ waiting[p] \in BOOLEAN /\ n[p] \in 0..MaxDelta + 1 /\ cur[p] \in Nat /\ i \in Nat
        /\ waiting'[p] \in BOOLEAN /\ n'[p] \in 0..MaxDelta + 1 /\ cur'[p] \in Nat /\ MaxDelta \in Nat
    BY <1>1, <1>2, SemaNats DEF SemaTypes
  <2>2. pc[p] = "woke" /\ pc'[p] = "dequeue" /\ addr'[p] = addr[p] /\ waiting'[p] = waiting[p]
    BY <1>1, <1>6, <2>1 DEF tsemacquireTimeout, Goto, call, scan, SemaTypes, Sleeper
  <2>3. /\ Share(p, a, i) = IF addr[p] = a THEN Credit("woke", waiting[p], n[p], cur[p], i) ELSE 0
        /\ Share(p, a, i)' = IF addr'[p] = a THEN Credit("dequeue", waiting'[p], n'[p], cur'[p], i) ELSE 0
    BY <2>2 DEF Share
  <2> QED BY <2>1, <2>2, <2>3 DEF Credit
<1> QED BY <1>1, <1>2, <1>3, <1>4, <1>5, <1>6, OneStepCovered

LEMMA semacquireEintrCovered ==
  ASSUME SemaInv, NEW p \in Procs, semacquireEintr(p)
  PROVE  Covered'
<1>1. SemaTypes /\ SemaLinks /\ SemaLocks /\ Covered BY DEF SemaInv
<1>2. SemaTypes' /\ SemaLocks' BY <1>1, semacquireEintrTypes
<1>3. Aside(p) /\ list' = list BY <1>1 DEF semacquireEintr, Goto, call, scan, SemaTypes, Aside
<1>4. \A a \in Addrs : value'[a] <= value[a]
  BY <1>1, SemaNats DEF semacquireEintr, Goto, call, scan, SemaTypes
<1>5. \A a \in Addrs : Sleeper(p, a)' => Sleeper(p, a)
  BY <1>1 DEF semacquireEintr, Goto, call, scan, SemaTypes, Sleeper
<1>6. ASSUME NEW a \in Addrs, NEW i \in 1..Len(list), Sleeper(list[i], a)
      PROVE  Share(p, a, i) <= Share(p, a, i)'
  <2>1. /\ waiting[p] \in BOOLEAN /\ n[p] \in 0..MaxDelta + 1 /\ cur[p] \in Nat /\ i \in Nat
        /\ waiting'[p] \in BOOLEAN /\ n'[p] \in 0..MaxDelta + 1 /\ cur'[p] \in Nat /\ MaxDelta \in Nat
    BY <1>1, <1>2, SemaNats DEF SemaTypes
  <2>2. pc[p] = "woke" /\ pc'[p] = "dequeue" /\ addr'[p] = addr[p] /\ waiting'[p] = waiting[p]
    BY <1>1, <1>6, <2>1 DEF semacquireEintr, Goto, call, scan, SemaTypes, Sleeper
  <2>3. /\ Share(p, a, i) = IF addr[p] = a THEN Credit("woke", waiting[p], n[p], cur[p], i) ELSE 0
        /\ Share(p, a, i)' = IF addr'[p] = a THEN Credit("dequeue", waiting'[p], n'[p], cur'[p], i) ELSE 0
    BY <2>2 DEF Share
  <2> QED BY <2>1, <2>2, <2>3 DEF Credit
<1> QED BY <1>1, <1>2, <1>3, <1>4, <1>5, <1>6, OneStepCovered

LEMMA semacquirePassCovered ==
  ASSUME SemaInv, NEW p \in Procs, semacquirePass(p)
  PROVE  Covered'
<1>1. SemaTypes /\ SemaLinks /\ SemaLocks /\ Covered BY DEF SemaInv
<1>2. SemaTypes' /\ SemaLocks' BY <1>1, semacquirePassTypes
<1>3. Aside(p) /\ list' = list
  BY <1>1 DEF semacquirePass, Return, Goto, call, scan, SemaTypes, Aside
<1>4. \A a \in Addrs : value'[a] <= value[a]
  BY <1>1, SemaNats DEF semacquirePass, Return, Goto, call, scan, SemaTypes
<1>5. \A a \in Addrs : Sleeper(p, a)' => Sleeper(p, a)
  BY <1>1 DEF semacquirePass, Return, Goto, call, scan, SemaTypes, Sleeper
<1>6. ASSUME NEW a \in Addrs, NEW i \in 1..Len(list), Sleeper(list[i], a)
      PROVE  Share(p, a, i) <= Share(p, a, i)'
  <2>1. /\ waiting[p] \in BOOLEAN /\ n[p] \in 0..MaxDelta + 1 /\ cur[p] \in Nat /\ i \in Nat
        /\ waiting'[p] \in BOOLEAN /\ n'[p] \in 0..MaxDelta + 1 /\ cur'[p] \in Nat /\ MaxDelta \in Nat
    BY <1>1, <1>2, SemaNats DEF SemaTypes
  <2>2. \/ pc[p] = "pass" /\ pc'[p] = "lock" /\ addr'[p] = addr[p] /\ n'[p] = 1
        \/ pc[p] = "pass" /\ pc'[p] = "idle" /\ waiting[p]
    BY <1>1, <2>1 DEF semacquirePass, Return, Goto, call, scan, SemaTypes
  <2>3. CASE pc[p] = "pass" /\ pc'[p] = "lock" /\ addr'[p] = addr[p] /\ n'[p] = 1
    <3>1. /\ Share(p, a, i) = IF addr[p] = a THEN Credit("pass", waiting[p], n[p], cur[p], i) ELSE 0
          /\ Share(p, a, i)' = IF addr'[p] = a THEN Credit("lock", waiting'[p], n'[p], cur'[p], i) ELSE 0
      BY <2>3 DEF Share
    <3> QED BY <2>1, <2>3, <3>1 DEF Credit
  <2>4. CASE pc[p] = "pass" /\ pc'[p] = "idle" /\ waiting[p]
    <3>1. /\ Share(p, a, i) = IF addr[p] = a THEN Credit("pass", waiting[p], n[p], cur[p], i) ELSE 0
          /\ Share(p, a, i)' = IF addr'[p] = a THEN Credit("idle", waiting'[p], n'[p], cur'[p], i) ELSE 0
      BY <2>4 DEF Share
    <3> QED BY <2>1, <2>4, <3>1 DEF Credit
  <2> QED BY <2>2, <2>3, <2>4
<1> QED BY <1>1, <1>2, <1>3, <1>4, <1>5, <1>6, OneStepCovered

LEMMA semwakeupCovered ==
  ASSUME SemaInv, NEW p \in Procs, semwakeup(p)
  PROVE  Covered'
<1>1. SemaTypes /\ SemaLinks /\ SemaLocks /\ Covered BY DEF SemaInv
<1>2. SemaTypes' /\ SemaLocks' BY <1>1, semwakeupTypes
<1>3. Aside(p) /\ list' = list BY <1>1 DEF semwakeup, Goto, call, scan, SemaTypes, Aside
<1>4. \A a \in Addrs : value'[a] <= value[a]
  BY <1>1, SemaNats DEF semwakeup, Goto, call, scan, SemaTypes
<1>5. \A a \in Addrs : Sleeper(p, a)' => Sleeper(p, a)
  BY <1>1 DEF semwakeup, Goto, call, scan, SemaTypes, Sleeper
<1>6. ASSUME NEW a \in Addrs, NEW i \in 1..Len(list), Sleeper(list[i], a)
      PROVE  Share(p, a, i) <= Share(p, a, i)'
  <2>1. /\ waiting[p] \in BOOLEAN /\ n[p] \in 0..MaxDelta + 1 /\ cur[p] \in Nat /\ i \in Nat
        /\ waiting'[p] \in BOOLEAN /\ n'[p] \in 0..MaxDelta + 1 /\ cur'[p] \in Nat /\ MaxDelta \in Nat
    BY <1>1, <1>2, SemaNats DEF SemaTypes
  <2>2. pc[p] = "lock" /\ pc'[p] = "scan" /\ addr'[p] = addr[p] /\ n'[p] = n[p] /\ cur'[p] = 1
    BY <1>1, <1>6, <2>1 DEF semwakeup, Goto, call, scan, SemaTypes, Sleeper
  <2>3. /\ Share(p, a, i) = IF addr[p] = a THEN Credit("lock", waiting[p], n[p], cur[p], i) ELSE 0
        /\ Share(p, a, i)' = IF addr'[p] = a THEN Credit("scan", waiting'[p], n'[p], cur'[p], i) ELSE 0
    BY <2>2 DEF Share
  <2> QED BY <2>1, <2>2, <2>3 DEF Credit
<1> QED BY <1>1, <1>2, <1>3, <1>4, <1>5, <1>6, OneStepCovered

LEMMA semwakeupSkipCovered ==
  ASSUME SemaInv, NEW p \in Procs, semwakeupSkip(p)
  PROVE  Covered'
<1>1. SemaTypes /\ SemaLinks /\ SemaLocks /\ Covered BY DEF SemaInv
<1>2. SemaTypes' /\ SemaLocks' BY <1>1, semwakeupSkipTypes
<1>3. Aside(p) /\ list' = list BY <1>1 DEF semwakeupSkip, More, call, scan, SemaTypes, Aside
<1>4. \A a \in Addrs : value'[a] <= value[a]
  BY <1>1, SemaNats DEF semwakeupSkip, More, call, scan, SemaTypes
<1>5. \A a \in Addrs : Sleeper(p, a)' => Sleeper(p, a)
  BY <1>1 DEF semwakeupSkip, More, call, scan, SemaTypes, Sleeper
<1>6. ASSUME NEW a \in Addrs, NEW i \in 1..Len(list), Sleeper(list[i], a)
      PROVE  Share(p, a, i) <= Share(p, a, i)'
  <2>1. /\ waiting[p] \in BOOLEAN /\ n[p] \in 0..MaxDelta + 1 /\ cur[p] \in Nat /\ i \in Nat
        /\ waiting'[p] \in BOOLEAN /\ n'[p] \in 0..MaxDelta + 1 /\ cur'[p] \in Nat /\ MaxDelta \in Nat
    BY <1>1, <1>2, SemaNats DEF SemaTypes
  <2>2. pc[p] = "scan" /\ pc'[p] = "scan" /\ addr'[p] = addr[p] /\ n'[p] = n[p] /\ cur'[p] = cur[p] + 1 /\ (addr[p] = a => cur[p] # i)
    BY <1>1, <1>6, <2>1 DEF semwakeupSkip, More, call, scan, SemaTypes, Sleeper
  <2>3. /\ Share(p, a, i) = IF addr[p] = a THEN Credit("scan", waiting[p], n[p], cur[p], i) ELSE 0
        /\ Share(p, a, i)' = IF addr'[p] = a THEN Credit("scan", waiting'[p], n'[p], cur'[p], i) ELSE 0
    BY <2>2 DEF Share
  <2> QED BY <2>1, <2>2, <2>3 DEF Credit
<1> QED BY <1>1, <1>2, <1>3, <1>4, <1>5, <1>6, OneStepCovered

LEMMA semwakeupWakeCovered ==
  ASSUME SemaInv, NEW p \in Procs, semwakeupWake(p)
  PROVE  Covered'
<1>1. SemaTypes /\ SemaLinks /\ SemaLocks /\ Covered BY DEF SemaInv
<1>2. SemaTypes' /\ SemaLocks' BY <1>1, semwakeupWakeTypes
<1>3. Aside(p) /\ list' = list BY <1>1 DEF semwakeupWake, Goto, call, scan, SemaTypes, Aside
<1>4. \A a \in Addrs : value'[a] <= value[a]
  BY <1>1, SemaNats DEF semwakeupWake, Goto, call, scan, SemaTypes
<1>5. \A a \in Addrs : Sleeper(p, a)' => Sleeper(p, a)
  BY <1>1 DEF semwakeupWake, Goto, call, scan, SemaTypes, Sleeper
<1>6. ASSUME NEW a \in Addrs, NEW i \in 1..Len(list), Sleeper(list[i], a)
      PROVE  Share(p, a, i) <= Share(p, a, i)'
  <2>1. /\ waiting[p] \in BOOLEAN /\ n[p] \in 0..MaxDelta + 1 /\ cur[p] \in Nat /\ i \in Nat
        /\ waiting'[p] \in BOOLEAN /\ n'[p] \in 0..MaxDelta + 1 /\ cur'[p] \in Nat /\ MaxDelta \in Nat
    BY <1>1, <1>2, SemaNats DEF SemaTypes
  <2>2. pc[p] = "wake" /\ pc'[p] = "scan" /\ addr'[p] = addr[p] /\ n'[p] = n[p] - 1 /\ cur'[p] = cur[p] + 1
    BY <1>1, <1>6, <2>1 DEF semwakeupWake, Goto, call, scan, SemaTypes, Sleeper
  <2>3. /\ Share(p, a, i) = IF addr[p] = a THEN Credit("wake", waiting[p], n[p], cur[p], i) ELSE 0
        /\ Share(p, a, i)' = IF addr'[p] = a THEN Credit("scan", waiting'[p], n'[p], cur'[p], i) ELSE 0
    BY <2>2 DEF Share
  <2> QED BY <2>1, <2>2, <2>3 DEF Credit
<1> QED BY <1>1, <1>2, <1>3, <1>4, <1>5, <1>6, OneStepCovered

LEMMA semwakeupDoneCovered ==
  ASSUME SemaInv, NEW p \in Procs, semwakeupDone(p)
  PROVE  Covered'
<1>1. SemaTypes /\ SemaLinks /\ SemaLocks /\ Covered BY DEF SemaInv
<1>2. SemaTypes' /\ SemaLocks' BY <1>1, semwakeupDoneTypes
<1>3. Aside(p) /\ list' = list
  BY <1>1 DEF semwakeupDone, Return, Goto, More, call, scan, SemaTypes, Aside
<1>4. \A a \in Addrs : value'[a] <= value[a]
  BY <1>1, SemaNats DEF semwakeupDone, Return, Goto, More, call, scan, SemaTypes
<1>5. \A a \in Addrs : Sleeper(p, a)' => Sleeper(p, a)
  BY <1>1 DEF semwakeupDone, Return, Goto, More, call, scan, SemaTypes, Sleeper
<1>6. ASSUME NEW a \in Addrs, NEW i \in 1..Len(list), Sleeper(list[i], a)
      PROVE  Share(p, a, i) <= Share(p, a, i)'
  <2>1. /\ waiting[p] \in BOOLEAN /\ n[p] \in 0..MaxDelta + 1 /\ cur[p] \in Nat /\ i \in Nat
        /\ waiting'[p] \in BOOLEAN /\ n'[p] \in 0..MaxDelta + 1 /\ cur'[p] \in Nat /\ MaxDelta \in Nat
    BY <1>1, <1>2, SemaNats DEF SemaTypes
  <2>2. pc[p] = "scan" /\ pc'[p] = "idle" /\ (cur[p] <= i => n[p] = 0)
    BY <1>1, <1>6, <2>1 DEF semwakeupDone, Return, Goto, More, call, scan, SemaTypes, Sleeper
  <2>3. /\ Share(p, a, i) = IF addr[p] = a THEN Credit("scan", waiting[p], n[p], cur[p], i) ELSE 0
        /\ Share(p, a, i)' = IF addr'[p] = a THEN Credit("idle", waiting'[p], n'[p], cur'[p], i) ELSE 0
    BY <2>2 DEF Share
  <2> QED BY <2>1, <2>2, <2>3 DEF Credit
<1> QED BY <1>1, <1>2, <1>3, <1>4, <1>5, <1>6, OneStepCovered

LEMMA postnoteCovered ==
  ASSUME SemaInv, NEW p \in Procs, postnote(p)
  PROVE  Covered'
<1>1. SemaTypes /\ SemaLinks /\ SemaLocks /\ Covered BY DEF SemaInv
<1>2. SemaTypes' /\ SemaLocks' BY <1>1, postnoteTypes
<1>3. Aside(p) /\ list' = list BY <1>1 DEF postnote, call, scan, SemaTypes, Aside
<1>4. \A a \in Addrs : value'[a] <= value[a] BY <1>1, SemaNats DEF postnote, call, scan, SemaTypes
<1>5. \A a \in Addrs : Sleeper(p, a)' => Sleeper(p, a)
  BY <1>1 DEF postnote, call, scan, SemaTypes, Sleeper
<1>6. ASSUME NEW a \in Addrs, NEW i \in 1..Len(list), Sleeper(list[i], a)
      PROVE  Share(p, a, i) <= Share(p, a, i)'
  <2>1. Share(p, a, i)' = Share(p, a, i) BY DEF postnote, call, scan, Share
  <2>2. Share(p, a, i) \in Int
    <3>1. Shares(a, i)[p] \in 0..Most /\ Most \in Int
      BY SMTT(30), <1>1, ShareType, SemaNats DEF Most, SemaTypes
    <3> QED BY <3>1 DEF Shares
  <2> QED BY <2>1, <2>2
<1> QED BY <1>1, <1>2, <1>3, <1>4, <1>5, <1>6, OneStepCovered

LEMMA twakeupCovered ==
  ASSUME SemaInv, NEW p \in Procs, twakeup(p)
  PROVE  Covered'
<1>1. SemaTypes /\ SemaLinks /\ SemaLocks /\ Covered BY DEF SemaInv
<1>2. SemaTypes' /\ SemaLocks' BY <1>1, twakeupTypes
<1>3. Aside(p) /\ list' = list BY <1>1 DEF twakeup, call, scan, SemaTypes, Aside
<1>4. \A a \in Addrs : value'[a] <= value[a] BY <1>1, SemaNats DEF twakeup, call, scan, SemaTypes
<1>5. \A a \in Addrs : Sleeper(p, a)' => Sleeper(p, a)
  BY <1>1 DEF twakeup, call, scan, SemaTypes, Sleeper
<1>6. ASSUME NEW a \in Addrs, NEW i \in 1..Len(list), Sleeper(list[i], a)
      PROVE  Share(p, a, i) <= Share(p, a, i)'
  <2>1. Share(p, a, i)' = Share(p, a, i) BY DEF twakeup, call, scan, Share
  <2>2. Share(p, a, i) \in Int
    <3>1. Shares(a, i)[p] \in 0..Most /\ Most \in Int
      BY SMTT(30), <1>1, ShareType, SemaNats DEF Most, SemaTypes
    <3> QED BY <3>1 DEF Shares
  <2> QED BY <2>1, <2>2
<1> QED BY <1>1, <1>2, <1>3, <1>4, <1>5, <1>6, OneStepCovered

\* The new member of the list does not sleep, and the others keep their place.
LEMMA semqueueCovered ==
  ASSUME SemaInv, NEW p \in Procs, semqueue(p)
  PROVE  Covered'
<1>1. SemaTypes /\ SemaLinks /\ SemaLocks /\ Covered BY DEF SemaInv
<1>2. SemaTypes' /\ SemaLocks' BY <1>1, semqueueTypes
<1>3. Aside(p) BY <1>1 DEF semqueue, Goto, call, scan, SemaTypes, Aside
<1>4. \A a \in Addrs : value'[a] <= value[a] BY <1>1, SemaNats DEF semqueue, SemaTypes
<1>5. pc[p] = "queue" /\ pc'[p] = "wait" BY <1>1 DEF semqueue, Goto, SemaTypes
<1> SUFFICES ASSUME NEW a \in Addrs, NEW j \in 1..Len(list'), Sleeper(list[j], a)'
             PROVE  \E i \in 1..Len(list) :
                      Sleeper(list[i], a) /\ \A q \in Procs : Share(q, a, i) <= Share(q, a, j)'
  BY <1>1, <1>2, <1>4, StillCovered
<1>6. list'[j] # p BY <1>5 DEF Sleeper
<1>7. j \in 1..Len(list) /\ list'[j] = list[j] /\ list[j] \in Procs /\ j \in Nat
  BY <1>1, <1>6 DEF semqueue, SemaTypes
<1>8. Sleeper(list[j], a) BY <1>3, <1>6, <1>7 DEF Sleeper, Aside
<1>9. ASSUME NEW q \in Procs PROVE Share(q, a, j) <= Share(q, a, j)'
  <2>0. Shares(a, j) \in [Procs -> 0..Most] BY <1>1, <1>7, ShareType
  <2>1. Shares(a, j)' \in [Procs -> 0..Most] BY <1>2, <1>7, ShareTypeNext
  <2>2. Share(q, a, j) \in 0..Most /\ Share(q, a, j)' \in 0..Most BY <2>0, <2>1 DEF Shares
  <2>3. CASE q = p
    <3>1. Share(p, a, j) = 0 BY <1>5 DEF Share, Credit
    <3> QED BY <2>2, <2>3, <3>1
  <2>4. CASE q # p BY <1>3, <2>2, <2>4, SameShare
  <2> QED BY <2>3, <2>4
<1> QED BY <1>7, <1>8, <1>9

\* Nobody scans the list, so what the others will do does not depend on the
\* places of its members.
LEMMA semdequeueCovered ==
  ASSUME SemaInv, NEW p \in Procs, semdequeue(p)
  PROVE  Covered'
<1>1. SemaTypes /\ SemaLinks /\ SemaLocks /\ Covered BY DEF SemaInv
<1>2. SemaTypes' /\ SemaLinks' /\ SemaLocks' BY <1>1, semdequeueTypes
<1>3. Aside(p) BY <1>1 DEF semdequeue, Goto, call, scan, SemaTypes, Aside
<1>4. \A a \in Addrs : value'[a] <= value[a] BY <1>1, SemaNats DEF semdequeue, SemaTypes
<1>5. /\ pc[p] = "dequeue" /\ pc'[p] = "pass" /\ waiting'[p] = waiting[p] /\ addr'[p] = addr[p]
      /\ \A q \in Procs : pc[q] # "scan" /\ pc[q] # "wake"
  BY <1>1, SemaNats DEF semdequeue, Goto, call, SemaTypes, SemaLocks, InLock
<1> SUFFICES ASSUME NEW a \in Addrs, NEW j \in 1..Len(list'), Sleeper(list[j], a)'
             PROVE  \E i \in 1..Len(list) :
                      Sleeper(list[i], a) /\ \A q \in Procs : Share(q, a, i) <= Share(q, a, j)'
  BY <1>1, <1>2, <1>4, StillCovered
<1>6. list'[j] \in Procs /\ j \in Nat BY <1>2 DEF SemaTypes
<1>7. PICK x : x = list'[j] OBVIOUS
<1>8. x \in Procs /\ x # p /\ addr[x] = a /\ pc[x] \in {"sleep", "asleep"} /\ waiting[x]
  BY <1>3, <1>5, <1>6, <1>7 DEF Sleeper, Aside
<1>9. PICK i \in 1..Len(list) : list[i] = x
  <2>1. x \in ToSet(list) BY <1>1, <1>8 DEF SemaLinks, InList
  <2> QED BY <1>1, <2>1, Placed
<1>10. i \in Nat BY <1>1 DEF SemaTypes
<1>11. ASSUME NEW q \in Procs PROVE Share(q, a, i) <= Share(q, a, j)'
  <2>0. Shares(a, i) \in [Procs -> 0..Most] BY <1>1, <1>10, ShareType
  <2>1. Shares(a, j)' \in [Procs -> 0..Most] BY <1>2, <1>6, ShareTypeNext
  <2>2. Share(q, a, i) \in 0..Most /\ Share(q, a, j)' \in 0..Most BY <2>0, <2>1 DEF Shares
  <2>3. Share(q, a, i) = Share(q, a, j)'
    <3>1. CASE q = p BY <1>5, <3>1 DEF Share, Credit
    <3>2. CASE q # p
      <4>1. pc'[q] = pc[q] /\ waiting'[q] = waiting[q] /\ addr'[q] = addr[q] /\ n'[q] = n[q]
        BY <1>3, <3>2 DEF Aside
      <4>2. Credit(pc[q], waiting[q], n[q], cur[q], i) = Credit(pc[q], waiting[q], n[q], cur'[q], j)
        BY <1>5 DEF Credit
      <4> QED BY <4>1, <4>2 DEF Share
    <3> QED BY <3>1, <3>2
  <2> QED BY <2>2, <2>3
<1> QED BY <1>8, <1>9, <1>11 DEF Sleeper

\* The last try takes one from the value and from what p will do; or it finds
\* nothing there, and one who sleeps on an empty semaphore is covered.
LEMMA semacquireLastCovered ==
  ASSUME SemaInv, NEW p \in Procs, semacquireLast(p)
  PROVE  Covered'
<1>1. SemaTypes /\ SemaLinks /\ SemaLocks /\ Covered BY DEF SemaInv
<1>2. SemaTypes' /\ SemaLocks' BY <1>1, semacquireLastTypes
<1>3. Aside(p) /\ list' = list BY <1>1 DEF semacquireLast, Goto, call, scan, SemaTypes, Aside
<1>4. pc[p] = "last" /\ waiting'[p] = waiting[p] /\ addr'[p] = addr[p] /\ addr[p] \in Addrs
  BY <1>1 DEF semacquireLast, call, SemaLocks
<1>5. CASE canacquire(p) /\ Goto(p, "dequeue")
  <2>1. pc'[p] = "dequeue" BY <1>1, <1>5 DEF Goto, SemaTypes
  <2> SUFFICES ASSUME NEW a \in Addrs, NEW i \in 1..Len(list), Sleeper(list[i], a)'
               PROVE  value'[a] <= Count(Shares(a, i)')
    BY <1>3 DEF Covered
  <2>2. list[i] \in Procs /\ list'[i] = list[i] /\ i \in Nat BY <1>1, <1>3 DEF SemaTypes
  <2>3. list[i] # p BY <2>1, <2>2 DEF Sleeper
  <2>4. Sleeper(list[i], a) BY <1>3, <2>2, <2>3 DEF Sleeper, Aside
  <2>5. PICK c, d : c = Shares(a, i) /\ d = Shares(a, i)' OBVIOUS
  <2>6. /\ c \in [Procs -> 0..Most] /\ d \in [Procs -> 0..Most]
        /\ Count(c) \in Nat /\ Count(d) \in Nat
    BY <1>1, <1>2, <2>2, <2>5, ShareType, ShareTypeNext, Tokens
  <2>7. value[a] <= Count(c) BY <1>1, <2>4, <2>5 DEF Covered
  <2>8. \A q \in Procs \ {p} : c[q] = d[q] /\ c[q] \in Int
    BY <1>3, <2>5, <2>6, SameShare, SemaNats DEF Shares, Most
  <2>9. c[p] = Share(p, a, i) /\ d[p] = Share(p, a, i)' BY <2>5 DEF Shares
  <2>10. CASE addr[p] = a
    <3>1. c[p] = d[p] + 1 /\ d[p] \in Int BY <1>4, <2>1, <2>9, <2>10 DEF Share, Credit
    <3>2. Count(c) <= Count(d) + 1 BY <2>6, <2>8, <3>1, CountLess
    <3>3. value'[a] = value[a] - 1 /\ value[a] \in Int
      BY <1>1, <1>5, <2>10, SemaNats DEF canacquire, SemaTypes
    <3> QED BY <2>5, <2>6, <2>7, <3>2, <3>3
  <2>11. CASE addr[p] # a
    <3>1. c[p] = 0 /\ d[p] = 0 BY <1>4, <2>9, <2>11 DEF Share
    <3>2. \A q \in Procs : c[q] <= d[q] BY <2>8, <3>1
    <3>3. Count(c) <= Count(d) BY <2>6, <3>2, CountMore
    <3>4. value'[a] = value[a] /\ value[a] \in Int
      BY <1>1, <1>5, <2>11, SemaNats DEF canacquire, SemaTypes
    <3> QED BY <2>5, <2>6, <2>7, <3>3, <3>4
  <2> QED BY <2>10, <2>11
<1>6. CASE cannotacquire(p) /\ Goto(p, "sleep")
  <2>1. value' = value /\ value[addr[p]] = 0
    BY <1>1, <1>4, <1>6, SemaNats DEF cannotacquire, SemaTypes
  <2>2. \A a \in Addrs : value'[a] <= value[a] BY <1>1, <2>1, SemaNats DEF SemaTypes
  <2>3. \A a \in Addrs : Sleeper(p, a)' => value'[a] = 0 BY <1>4, <2>1 DEF Sleeper
  <2>4. \A a \in Addrs, i \in 1..Len(list) : value'[a] = 0 \/ Share(p, a, i) <= Share(p, a, i)'
    BY <1>4, <2>1 DEF Share
  <2> QED BY <1>1, <1>2, <1>3, <2>2, <2>3, <2>4, OneStepCovered
<1> QED BY <1>5, <1>6 DEF semacquireLast

\* semrelease adds to the value what its semwakeup will do.
LEMMA semreleaseCovered ==
  ASSUME SemaInv, NEW p \in Procs, NEW b \in Addrs, NEW delta \in 0..MaxDelta, semrelease(p, b, delta)
  PROVE  Covered'
<1>1. SemaTypes /\ SemaLinks /\ SemaLocks /\ Covered BY DEF SemaInv
<1>2. SemaTypes' /\ SemaLocks' BY <1>1, semreleaseTypes
<1>3. Aside(p) /\ list' = list BY <1>1 DEF semrelease, Goto, SemaTypes, Aside
<1>4. pc[p] = "idle" /\ pc'[p] = "lock" /\ addr'[p] = b /\ n'[p] = delta
  BY <1>1 DEF semrelease, Goto, SemaTypes
<1> SUFFICES ASSUME NEW a \in Addrs, NEW i \in 1..Len(list), Sleeper(list[i], a)'
             PROVE  value'[a] <= Count(Shares(a, i)')
  BY <1>3 DEF Covered
<1>5. list[i] \in Procs /\ list'[i] = list[i] /\ i \in Nat BY <1>1, <1>3 DEF SemaTypes
<1>6. list[i] # p BY <1>4, <1>5 DEF Sleeper
<1>7. Sleeper(list[i], a) BY <1>3, <1>5, <1>6 DEF Sleeper, Aside
<1>8. PICK c, d : c = Shares(a, i) /\ d = Shares(a, i)' OBVIOUS
<1>9. /\ c \in [Procs -> 0..Most] /\ d \in [Procs -> 0..Most]
      /\ Count(c) \in Nat /\ Count(d) \in Nat
  BY <1>1, <1>2, <1>5, <1>8, ShareType, ShareTypeNext, Tokens
<1>10. value[a] <= Count(c) BY <1>1, <1>7, <1>8 DEF Covered
<1>11. \A q \in Procs \ {p} : c[q] = d[q] /\ c[q] \in Int
  BY <1>3, <1>8, <1>9, SameShare, SemaNats DEF Shares, Most
<1>12. c[p] = 0 /\ d[p] = IF a = b THEN delta ELSE 0
  BY <1>4, <1>8 DEF Shares, Share, Credit
<1>13. delta \in 0..Most BY SemaNats DEF Most
<1>14. CASE a = b
  <2>1. Count(c) + delta <= Count(d) BY <1>9, <1>11, <1>12, <1>13, <1>14, CountAdd
  <2>2. value'[a] = value[a] + delta /\ value[a] \in Int
    BY <1>1, <1>14, SemaNats DEF semrelease, SemaTypes
  <2> QED BY <1>8, <1>9, <1>10, <2>1, <2>2
<1>15. CASE a # b
  <2>1. \A q \in Procs : c[q] <= d[q] BY <1>11, <1>12, <1>15
  <2>2. Count(c) <= Count(d) BY <1>9, <2>1, CountMore
  <2>3. value'[a] = value[a] /\ value[a] \in Int
    BY <1>1, <1>15, SemaNats DEF semrelease, SemaTypes
  <2> QED BY <1>8, <1>9, <1>10, <2>2, <2>3
<1> QED BY <1>14, <1>15

\* semwakeup gives one of its wakeups to x, who will try for the semaphore.
LEMMA semwakeupClearCovered ==
  ASSUME SemaInv, NEW p \in Procs, semwakeupClear(p)
  PROVE  Covered'
<1>1. SemaTypes /\ SemaLinks /\ SemaLocks /\ Covered BY DEF SemaInv
<1>2. SemaTypes' /\ SemaLocks' BY <1>1, semwakeupClearTypes
<1>3. PICK k : k = cur[p] OBVIOUS
<1>4. k \in 1..Len(list) BY <1>1, <1>3 DEF semwakeupClear, More, SemaTypes, SemaLocks, InLock
<1>5. PICK x : x = list[k] OBVIOUS
<1>6. x \in Procs /\ pc[x] \in InList
  <2>1. x \in ToSet(list) /\ x \in Procs BY <1>1, <1>4, <1>5 DEF ToSet, SemaTypes
  <2> QED BY <1>1, <2>1 DEF SemaLinks
<1>7. /\ list' = list /\ value' = value /\ addr' = addr /\ n' = n /\ cur' = cur
      /\ waiting' = [waiting EXCEPT ![x] = FALSE] /\ pc' = [pc EXCEPT ![p] = "wake"]
      /\ pc[p] = "scan" /\ waiting[x] /\ addr[x] = addr[p]
  BY <1>3, <1>5 DEF semwakeupClear, Goto, call, scan
<1>8. x # p BY <1>6, <1>7 DEF InList
<1>9. /\ pc'[p] = "wake" /\ pc'[x] = pc[x] /\ waiting'[x] = FALSE /\ waiting'[p] = waiting[p]
      /\ \A q \in Procs \ {p, x} : pc'[q] = pc[q] /\ waiting'[q] = waiting[q]
  BY <1>1, <1>6, <1>7, <1>8 DEF SemaTypes
<1> SUFFICES ASSUME NEW a \in Addrs, NEW i \in 1..Len(list), Sleeper(list[i], a)'
             PROVE  value[a] <= Count(Shares(a, i)')
  BY <1>7 DEF Covered
<1>10. list[i] \in Procs /\ list'[i] = list[i] /\ i \in Nat BY <1>1, <1>7 DEF SemaTypes
<1>11. list[i] # x /\ list[i] # p BY <1>9, <1>10 DEF Sleeper
<1>12. Sleeper(list[i], a) BY <1>7, <1>9, <1>10, <1>11 DEF Sleeper
<1>13. i # k BY <1>5, <1>11
<1>14. PICK c, d : c = Shares(a, i) /\ d = Shares(a, i)' OBVIOUS
<1>15. /\ c \in [Procs -> 0..Most] /\ d \in [Procs -> 0..Most]
       /\ Count(c) \in Nat /\ Count(d) \in Nat
  BY <1>1, <1>2, <1>10, <1>14, ShareType, ShareTypeNext, Tokens
<1>16. value[a] <= Count(c) /\ value[a] \in Int
  BY <1>1, <1>12, <1>14, SemaNats DEF Covered, SemaTypes
<1>17. \A q \in Procs \ {p, x} : c[q] = d[q] /\ c[q] \in Int
  <2>1. \A q \in Procs : c[q] \in Int BY <1>15, SemaNats DEF Most
  <2>2. ASSUME NEW q \in Procs \ {p, x} PROVE Share(q, a, i)' = Share(q, a, i)
    <3>1. /\ pc'[q] = pc[q] /\ waiting'[q] = waiting[q] /\ addr'[q] = addr[q]
          /\ n'[q] = n[q] /\ cur'[q] = cur[q]
      BY <1>7, <1>9
    <3> QED BY <3>1 DEF Share
  <2> QED BY <1>14, <2>1, <2>2 DEF Shares
<1>18. c[p] = Share(p, a, i) /\ d[p] = Share(p, a, i)' /\ c[x] = Share(x, a, i) /\ d[x] = Share(x, a, i)'
  BY <1>6, <1>14 DEF Shares
<1>19. Count(c) <= Count(d)
  <2>1. CASE addr[p] = a
    <3>0. n[p] \in Int /\ k \in Int BY <1>1, <1>4, SemaNats DEF SemaTypes
    <3>1. c[x] + 1 <= d[x]
      <4>1. c[x] = Credit(pc[x], TRUE, n[x], cur[x], i) /\ d[x] = Credit(pc[x], FALSE, n[x], cur[x], i)
        BY <1>7, <1>9, <1>18, <2>1 DEF Share
      <4> QED BY <1>6, <4>1 DEF InList, Credit
    <3>2. c[p] = (IF k <= i THEN n[p] ELSE 0) /\ d[p] = (IF k < i THEN n[p] - 1 ELSE 0)
      BY <1>3, <1>7, <1>9, <1>18, <2>1 DEF Share, Credit
    <3>3. c[p] <= d[p] + 1 BY <1>10, <1>13, <3>0, <3>2
    <3>4. \A q \in Procs \ {p, x} : c[q] <= d[q] BY <1>17
    <3> QED BY <1>6, <1>8, <1>15, <3>1, <3>3, <3>4, CountSwap
  <2>2. CASE addr[p] # a
    <3>1. c[p] = 0 /\ d[p] = 0 /\ c[x] = 0 /\ d[x] = 0 BY <1>7, <1>18, <2>2 DEF Share
    <3>2. \A q \in Procs : c[q] <= d[q] BY <1>17, <3>1
    <3> QED BY <1>15, <3>2, CountMore
  <2> QED BY <2>1, <2>2
<1> QED BY <1>14, <1>15, <1>16, <1>19

-----------------------------------------------------------------------------
(* The theorems *)

LEMMA SemaInvInit == SemaInit => SemaInv
<1> SUFFICES ASSUME SemaInit PROVE SemaInv OBVIOUS
<1>1. SemaTypes BY SemaNats DEF SemaInit, SemaTypes, PCs
<1>2. Distinct(list) /\ ToSet(list) = {} /\ Len(list) = 0 BY DEF SemaInit, Distinct, ToSet
<1>3. SemaLinks BY <1>2 DEF SemaInit, SemaLinks, InList
<1>4. SemaLocks BY SemaNats DEF SemaInit, SemaLocks, InLock
<1>5. Covered BY <1>2 DEF Covered
<1> QED BY <1>1, <1>3, <1>4, <1>5 DEF SemaInv

LEMMA SemaInvStep == SemaInv /\ [SemaNext]_semavars => SemaInv'
<1> SUFFICES ASSUME SemaInv, [SemaNext]_semavars PROVE SemaInv' OBVIOUS
<1>0. SemaTypes /\ SemaLinks /\ SemaLocks BY DEF SemaInv
<1>1. CASE UNCHANGED semavars
  <2>1. SemaTypes' /\ SemaLinks' /\ SemaLocks'
    BY <1>0, <1>1 DEF semavars, SemaTypes, SemaLinks, SemaLocks
  <2>2. Covered' BY <1>1 DEF SemaInv, semavars, Covered, Sleeper, Shares, Share
  <2> QED BY <2>1, <2>2 DEF SemaInv
<1>2. ASSUME NEW p \in Procs, Call(p) PROVE SemaInv'
  <2>1. ASSUME NEW a \in Addrs, NEW k \in Kinds, syssemacquire(p, a, k) PROVE SemaInv'
    BY <1>0, <2>1, syssemacquireTypes, syssemacquireCovered DEF SemaInv
  <2>2. ASSUME NEW a \in Addrs, NEW delta \in 0..MaxDelta, semrelease(p, a, delta) PROVE SemaInv'
    BY <1>0, <2>2, semreleaseTypes, semreleaseCovered DEF SemaInv
  <2>3. CASE postnote(p) BY <1>0, <2>3, postnoteTypes, postnoteCovered DEF SemaInv
  <2> QED BY <1>2, <2>1, <2>2, <2>3 DEF Call
<1>3. ASSUME NEW p \in Procs, Spin(p) PROVE SemaInv'
  <2>1. CASE semqueue(p) BY <1>0, <2>1, semqueueTypes, semqueueCovered DEF SemaInv
  <2>2. CASE semdequeue(p) BY <1>0, <2>2, semdequeueTypes, semdequeueCovered DEF SemaInv
  <2>3. CASE semwakeup(p) BY <1>0, <2>3, semwakeupTypes, semwakeupCovered DEF SemaInv
  <2> QED BY <1>3, <2>1, <2>2, <2>3 DEF Spin
<1>4. ASSUME NEW p \in Procs, Step(p) PROVE SemaInv'
  <2>1. CASE semacquireTry(p) BY <1>0, <2>1, semacquireTryTypes, semacquireTryCovered DEF SemaInv
  <2>2. CASE semacquireBlock(p)
    BY <1>0, <2>2, semacquireBlockTypes, semacquireBlockCovered DEF SemaInv
  <2>3. CASE semacquireWait(p) BY <1>0, <2>3, semacquireWaitTypes, semacquireWaitCovered DEF SemaInv
  <2>4. CASE semacquireLast(p) BY <1>0, <2>4, semacquireLastTypes, semacquireLastCovered DEF SemaInv
  <2>5. CASE sleep(p) BY <1>0, <2>5, sleepTypes, sleepCovered DEF SemaInv
  <2>6. CASE awake(p) BY <1>0, <2>6, awakeTypes, awakeCovered DEF SemaInv
  <2>7. CASE semacquireLoop(p) BY <1>0, <2>7, semacquireLoopTypes, semacquireLoopCovered DEF SemaInv
  <2>8. CASE tsemacquireTimeout(p)
    BY <1>0, <2>8, tsemacquireTimeoutTypes, tsemacquireTimeoutCovered DEF SemaInv
  <2>9. CASE semacquireEintr(p)
    BY <1>0, <2>9, semacquireEintrTypes, semacquireEintrCovered DEF SemaInv
  <2>10. CASE semacquirePass(p)
    BY <1>0, <2>10, semacquirePassTypes, semacquirePassCovered DEF SemaInv
  <2>11. CASE semwakeupClear(p)
    BY <1>0, <2>11, semwakeupClearTypes, semwakeupClearCovered DEF SemaInv
  <2>12. CASE semwakeupSkip(p) BY <1>0, <2>12, semwakeupSkipTypes, semwakeupSkipCovered DEF SemaInv
  <2>13. CASE semwakeupWake(p) BY <1>0, <2>13, semwakeupWakeTypes, semwakeupWakeCovered DEF SemaInv
  <2>14. CASE semwakeupDone(p) BY <1>0, <2>14, semwakeupDoneTypes, semwakeupDoneCovered DEF SemaInv
  <2> QED
    BY <1>4, <2>1, <2>2, <2>3, <2>4, <2>5, <2>6, <2>7, <2>8, <2>9, <2>10, <2>11, <2>12, <2>13,
       <2>14 DEF Step
<1>5. ASSUME NEW p \in Procs, twakeup(p) PROVE SemaInv'
  BY <1>0, <1>5, twakeupTypes, twakeupCovered DEF SemaInv
<1> QED BY <1>1, <1>2, <1>3, <1>4, <1>5 DEF SemaNext

LEMMA SemaInductive == SemaSpec => []SemaInv
BY SemaInvInit, SemaInvStep, PTL DEF SemaSpec

\* Somebody counted on is somebody busy.
LEMMA CoveredIsBusy == SemaInv => NoLostWakeup
<1> SUFFICES ASSUME SemaInv, NEW a \in Addrs, value[a] > 0, NEW p \in Procs, Sleeps(p, a)
             PROVE  \E q \in Procs : Busy(q, a)
  BY DEF NoLostWakeup
<1>1. SemaTypes /\ SemaLinks /\ SemaLocks /\ Covered BY DEF SemaInv
<1>2. PICK i \in 1..Len(list) : list[i] = p
  <2>1. p \in ToSet(list) BY <1>1 DEF Sleeps, SemaLinks, InList
  <2> QED BY <1>1, <2>1, Placed
<1>3. i \in Nat BY <1>1 DEF SemaTypes
<1>4. PICK c : c = Shares(a, i) OBVIOUS
<1>5. c \in [Procs -> 0..Most] /\ Count(c) \in Nat BY <1>1, <1>3, <1>4, ShareType, Tokens
<1>6. value[a] <= Count(c) /\ value[a] \in Int
  BY <1>1, <1>2, <1>4, SemaNats DEF Covered, Sleeps, Sleeper, SemaTypes
<1>7. PICK q \in Procs : c[q] > 0
  <2> DEFINE T == {t \in Procs \X (1..Most) : t[2] <= c[t[1]]}
  <2>0. Count(c) # 0 BY <1>5, <1>6
  <2>1. Cardinality(T) # 0 BY <2>0 DEF Count
  <2>2. T # {} BY <2>1, FS_EmptySet
  <2>3. PICK t \in T : TRUE BY <2>2
  <2>4. PICK x \in Procs, k \in 1..Most : t = <<x, k>> /\ k <= c[x] OBVIOUS
  <2>5. c[x] \in Int /\ Most \in Int BY <1>5, SemaNats DEF Most
  <2> QED BY <2>4, <2>5
<1>8. addr[q] = a /\ Credit(pc[q], waiting[q], n[q], cur[q], i) > 0
  BY <1>4, <1>7 DEF Shares, Share
<1>9. pc[q] \in PCs /\ n[q] \in Int /\ waiting[q] \in BOOLEAN BY <1>1, SemaNats DEF SemaTypes
<1>10. \/ pc[q] \in InList /\ (~waiting[q] \/ pc[q] = "last")
       \/ pc[q] = "pass" /\ ~waiting[q]
       \/ pc[q] \in {"lock", "scan", "wake"} /\ n[q] > 0
  BY <1>8, <1>9 DEF Credit, InList
<1>11. Busy(q, a) BY <1>8, <1>9, <1>10 DEF Busy, Sleeps
<1> QED BY <1>11

LEMMA LinkedIsAlive == SemaInv => SemaAlive
<1> SUFFICES ASSUME SemaInv PROVE SemaAlive OBVIOUS
<1>1. SemaTypes /\ SemaLinks /\ SemaLocks BY DEF SemaInv
<1>2. SemaTypeOK
  <2>1. IsInjective(list) BY <1>1, InjectiveIsDistinct DEF SemaTypes, SemaLinks
  <2> QED BY <1>1, <2>1 DEF SemaTypeOK, SemaTypes, SemaLinks, SemaLocks
<1>3. ASSUME NEW p \in Procs, pc[p] = "wake"
      PROVE  cur[p] <= Len(list) /\ pc[list[cur[p]]] \in InList
  <2>1. cur[p] \in 1..Len(list) BY <1>1, <1>3 DEF SemaTypes, SemaLocks, InLock
  <2>2. list[cur[p]] \in ToSet(list) /\ list[cur[p]] \in Procs BY <1>1, <2>1 DEF ToSet, SemaTypes
  <2>3. cur[p] <= Len(list) BY <1>1, <2>1 DEF SemaTypes
  <2> QED BY <1>1, <2>2, <2>3 DEF SemaLinks
<1> QED BY <1>2, <1>3 DEF SemaAlive

(***************************************************************************)
(* semacquire, tsemacquire, semrelease: no wakeup is lost in the races of  *)
(* the comment above semqueue, for any number of processes, semaphores and *)
(* amounts released.                                                       *)
(***************************************************************************)
THEOREM NoLostWakeupHolds == SemaSpec => []NoLostWakeup
BY SemaInductive, CoveredIsBusy, PTL

(***************************************************************************)
(* semwakeup touches only a Sema whose owner is still in semacquire.       *)
(***************************************************************************)
THEOREM SemaAliveHolds == SemaSpec => []SemaAlive
BY SemaInductive, LinkedIsAlive, PTL

-----------------------------------------------------------------------------
(* Alarms: times on the circle *)

\* Half of the circle: times less than this apart can be compared.
Half == Wrap \div 2

\* t comes k ticks after the earliest time that may still stand, when the
\* clock shows x.
At(t, x, k) == x - MaxLag + k \in {t, t + Wrap, t - Wrap}

\* t is one of the times that may stand when the clock shows x: it is late by
\* at most MaxLag, or less than half the circle after that.
Near(t, x) == \E k \in 0..(Half - 1) : At(t, x, k)

\* The alarms that are set are in the order of the comparison along the list.
Rising(s, a) ==
  \A i, j \in 1..Len(s) : i < j /\ a[s[i]] # 0 /\ a[s[j]] # 0 => reached(a[s[j]], a[s[i]])

\* The parts of the invariant.
AlarmList ==
  /\ Distinct(alarms)
  /\ ~fooled => Rising(alarms, alarm)
  /\ \A p \in AlarmProcs : alarm[p] # 0 => p \in ToSet(alarms)

AlarmHead ==
  /\ rp # null => alarms # <<>> /\ rp = Head(alarms)
  /\ kpc = "pop" => alarm[rp] = 0

AlarmNear ==
  /\ \A p \in AlarmProcs : when[p] # null => when[p] \in Ticks /\ Near(when[p], ticks)
  /\ ~fooled => \A p \in AlarmProcs : alarm[p] # 0 => Near(alarm[p], ticks)
  /\ kpc \notin {"asleep", "now"} => Near(now, ticks)

AlarmInv == AlarmTypeOK /\ AlarmList /\ AlarmHead /\ AlarmNear

LEMMA AlarmNats ==
  /\ null \notin AlarmProcs /\ null # "kproc"
  /\ Half \in Nat /\ Half > 1 /\ Wrap = 2 * Half /\ Wrap \in Nat \ {0}
  /\ MaxLag \in 0..(Half - 1) /\ Ticks = 0..(2 * Half - 1) /\ 0 \in Ticks
  /\ FirstTick \in Ticks /\ LastTick \in Nat
  /\ \A d \in Delays : d \in Nat /\ d + 1 + MaxLag < Half
<1>1. Wrap \in Nat /\ Wrap > 2 /\ Wrap % 2 = 0 /\ null \notin AlarmProcs /\ null # "kproc" BY AlarmAssumption
<1>2. Wrap \div 2 \in Nat /\ Wrap = 2 * (Wrap \div 2) BY <1>1
<1>3. PICK h \in Nat : h = Wrap \div 2 BY <1>2
<1>4. h > 1 /\ Wrap = 2 * h BY <1>1, <1>2, <1>3
<1>5. Half = h BY <1>3 DEF Half
<1>6. MaxLag \in 0..(h - 1) /\ (\A d \in Delays : d \in Nat /\ d + 1 + MaxLag < h) /\ FirstTick \in Ticks /\ LastTick \in Nat
  BY <1>1, <1>3, AlarmAssumption
<1> QED BY <1>1, <1>4, <1>5, <1>6 DEF Ticks

LEMMA SmallRest ==
  ASSUME NEW w \in Nat \ {0}, NEW x \in Int
  PROVE  /\ 0 <= x /\ x < w => x % w = x
         /\ -w <= x /\ x < 0 => x % w = x + w
         /\ w <= x /\ x < w + w => x % w = x - w
<1>1. PICK q \in Int, r \in 0..(w - 1), y \in Int : q = x \div w /\ r = x % w /\ y = w * q /\ x = y + r
  <2>1. x \div w \in Int /\ x % w \in 0..(w - 1) /\ w * (x \div w) \in Int OBVIOUS
  <2>2. x = (w * (x \div w)) + (x % w) OBVIOUS
  <2> QED BY <2>1, <2>2
<1>2. q >= 1 => y >= w
  <2>1. q >= 1 => w * q >= w OBVIOUS
  <2> QED BY <1>1, <2>1
<1>3. q <= -1 => y <= -w
  <2>1. q <= -1 => w * q <= -w OBVIOUS
  <2> QED BY <1>1, <2>1
<1>4. q <= -2 => y <= -w - w
  <2>1. CASE q <= -2
    <3>1. q + 2 <= 0 /\ w * (q + 2) <= 0 BY <2>1
    <3>2. w * (q + 2) = (w * q) + w + w OBVIOUS
    <3> QED BY <1>1, <3>1, <3>2
  <2> QED BY <2>1
<1>5. q = 0 => y = 0 BY <1>1
<1>6. q = -1 => y = -w BY <1>1
<1>7. r \in Int /\ 0 <= r /\ r < w /\ x = y + r BY <1>1
<1>8. ASSUME 0 <= x, x < w PROVE r = x
  <2>1. y < w /\ y > -w BY <1>7, <1>8
  <2>2. q = 0 BY <1>2, <1>3, <2>1
  <2> QED BY <1>5, <1>7, <2>2
<1>9. ASSUME -w <= x, x < 0 PROVE r = x + w
  <2>1. y < 0 /\ y > -w - w BY <1>7, <1>9
  <2>2. q < 0 BY <1>2, <1>5, <2>1
  <2>3. q > -2 BY <1>4, <2>1
  <2>4. q = -1 BY <2>2, <2>3
  <2> QED BY <1>6, <1>7, <2>4
<1>10. q >= 2 => y >= w + w
  <2>1. CASE q >= 2
    <3>1. q - 2 >= 0 /\ w * (q - 2) >= 0 BY <2>1
    <3>2. w * (q - 2) = (w * q) - w - w OBVIOUS
    <3> QED BY <1>1, <3>1, <3>2
  <2> QED BY <2>1
<1>11. q = 1 => y = w BY <1>1
<1>12. ASSUME w <= x, x < w + w PROVE r = x - w
  <2>1. y > 0 /\ y < w + w BY <1>7, <1>12
  <2>2. q > 0 BY <1>3, <1>5, <2>1
  <2>3. q < 2 BY <1>10, <2>1
  <2>4. q = 1 BY <2>2, <2>3
  <2> QED BY <1>7, <1>11, <2>4
<1> QED BY <1>1, <1>8, <1>9, <1>12

LEMMA OnceRound ==
  ASSUME NEW x \in Int, 0 <= x, x < Wrap + Wrap
  PROVE  x % Wrap = IF x < Wrap THEN x ELSE x - Wrap
<1>1. Wrap \in Nat \ {0} BY AlarmNats
<1>2. CASE x < Wrap BY <1>1, <1>2, SmallRest
<1>3. CASE ~(x < Wrap)
  <2>1. Wrap <= x BY <1>1, <1>3
  <2>2. x % Wrap = x - Wrap BY <1>1, <2>1, SmallRest
  <2> QED BY <1>3, <2>2
<1> QED BY <1>2, <1>3

\* The comparison of the code, without the remainder.
LEMMA ReachedIs ==
  ASSUME NEW a \in Ticks, NEW b \in Ticks
  PROVE  reached(a, b) <=> (a - b >= 0 /\ a - b < Half) \/ (a - b < 0 /\ a - b + Wrap < Half)
<1>1. PICK h \in Nat : h = Half /\ Wrap = 2 * h /\ Wrap \in Nat \ {0} BY AlarmNats
<1>2. a \in 0..(2 * h - 1) /\ b \in 0..(2 * h - 1) BY <1>1, AlarmNats
<1>3. a - b \in Int /\ a - b < Wrap /\ -Wrap <= a - b BY <1>1, <1>2
<1>4. (a - b) % Wrap = IF a - b >= 0 THEN a - b ELSE a - b + Wrap BY <1>1, <1>3, SmallRest
<1>5. reached(a, b) <=> (a - b) % Wrap < h BY <1>1 DEF reached, Half
<1> QED BY <1>1, <1>2, <1>4, <1>5

\* It is the order of times on the circle.
LEMMA ReachedNotBefore ==
  ASSUME NEW a \in Ticks, NEW b \in Ticks
  PROVE  NotBefore(a, b) <=> reached(a, b)
<1>1. PICK h \in Nat : h = Half /\ Wrap = 2 * h /\ Wrap \in Nat \ {0} BY AlarmNats
<1>2. a \in 0..(2 * h - 1) /\ b \in 0..(2 * h - 1) BY <1>1, AlarmNats
<1>3. NotBefore(a, b) <=> \E k \in 0..(h - 1) : (b + k) % Wrap = a BY <1>1 DEF NotBefore, Half
<1>4. ASSUME NEW k \in 0..(h - 1) PROVE (b + k) % Wrap = IF b + k < Wrap THEN b + k ELSE b + k - Wrap
  <2>1. PICK z \in Int : z = b + k /\ 0 <= z /\ z < Wrap + Wrap BY <1>1, <1>2
  <2>2. z % Wrap = IF z < Wrap THEN z ELSE z - Wrap BY <2>1, OnceRound
  <2>3. (b + k) % Wrap = z % Wrap BY <2>1
  <2>4. z < Wrap <=> b + k < Wrap BY <2>1
  <2>5. z - Wrap = b + k - Wrap BY <1>1, <1>2, <2>1
  <2> QED BY <2>1, <2>2, <2>3, <2>4, <2>5, Zenon
<1>5. ASSUME NotBefore(a, b) PROVE reached(a, b)
  <2>1. PICK k \in 0..(h - 1) : (b + k) % Wrap = a BY <1>3, <1>5
  <2>2. a = IF b + k < Wrap THEN b + k ELSE b + k - Wrap BY <1>4, <2>1
  <2> QED BY <1>1, <1>2, <2>2, ReachedIs
<1>6. ASSUME reached(a, b) PROVE NotBefore(a, b)
  <2>0. (a - b >= 0 /\ a - b < h) \/ (a - b < 0 /\ a - b + 2 * h < h) BY <1>1, <1>6, ReachedIs
  <2>1. PICK k \in 0..(h - 1) : k = IF a - b >= 0 THEN a - b ELSE a - b + Wrap
    <3>1. CASE a - b >= 0
      <4>1. a - b \in 0..(h - 1) BY <1>2, <2>0, <3>1
      <4> QED BY <3>1, <4>1
    <3>2. CASE ~(a - b >= 0)
      <4>1. a - b + Wrap \in 0..(h - 1) BY <1>1, <1>2, <2>0, <3>2
      <4> QED BY <3>2, <4>1
    <3> QED BY <3>1, <3>2
  <2>2. a = IF b + k < Wrap THEN b + k ELSE b + k - Wrap BY <1>1, <1>2, <2>1
  <2> QED BY <1>3, <1>4, <2>2
<1> QED BY <1>5, <1>6

\* Times that may stand together are compared as their distances.
LEMMA NearOrder ==
  ASSUME NEW x \in Ticks, NEW a \in Ticks, NEW b \in Ticks,
         NEW j \in 0..(Half - 1), NEW k \in 0..(Half - 1), At(a, x, j), At(b, x, k)
  PROVE  reached(a, b) <=> j >= k
<1>1. PICK h \in Nat : h = Half /\ Wrap = 2 * h BY AlarmNats
<1>2. PICK l \in 0..(h - 1) : l = MaxLag BY <1>1, AlarmNats
<1>3. x \in 0..(2 * h - 1) /\ a \in 0..(2 * h - 1) /\ b \in 0..(2 * h - 1) /\ j \in 0..(h - 1) /\ k \in 0..(h - 1)
  BY <1>1, AlarmNats
<1>4. x - l + j = a \/ x - l + j = a + 2 * h \/ x - l + j = a - 2 * h BY <1>1, <1>2 DEF At
<1>5. x - l + k = b \/ x - l + k = b + 2 * h \/ x - l + k = b - 2 * h BY <1>1, <1>2 DEF At
<1>6. reached(a, b) <=> (a - b >= 0 /\ a - b < h) \/ (a - b < 0 /\ a - b + 2 * h < h) BY <1>1, ReachedIs
<1> QED BY <1>3, <1>4, <1>5, <1>6

LEMMA NearTotal ==
  ASSUME NEW x \in Ticks, NEW a \in Ticks, NEW b \in Ticks, Near(a, x), Near(b, x), ~reached(a, b)
  PROVE  reached(b, a)
<1>1. PICK j \in 0..(Half - 1) : At(a, x, j) BY DEF Near
<1>2. PICK k \in 0..(Half - 1) : At(b, x, k) BY DEF Near
<1>3. ~(j >= k) BY <1>1, <1>2, NearOrder
<1>4. k >= j BY <1>3, AlarmNats
<1> QED BY <1>1, <1>2, <1>4, NearOrder

LEMMA NearTrans ==
  ASSUME NEW x \in Ticks, NEW a \in Ticks, NEW b \in Ticks, NEW c \in Ticks, Near(a, x), Near(b, x), Near(c, x)
  PROVE  /\ reached(a, b) /\ reached(b, c) => reached(a, c)
         /\ ~reached(a, b) /\ reached(c, b) => ~reached(a, c)
<1>1. PICK i \in 0..(Half - 1) : At(a, x, i) BY DEF Near
<1>2. PICK j \in 0..(Half - 1) : At(b, x, j) BY DEF Near
<1>3. PICK k \in 0..(Half - 1) : At(c, x, k) BY DEF Near
<1>4. (reached(a, b) <=> i >= j) /\ (reached(b, c) <=> j >= k) /\ (reached(a, c) <=> i >= k) /\ (reached(c, b) <=> k >= j)
  BY <1>1, <1>2, <1>3, NearOrder
<1>5. i \in Int /\ j \in Int /\ k \in Int BY AlarmNats
<1> QED BY <1>4, <1>5

\* A time of now.
LEMMA NearNow == ASSUME NEW x \in Ticks PROVE Near(x, x)
<1>1. MaxLag \in 0..(Half - 1) /\ x \in Int BY AlarmNats
<1>2. x - MaxLag + MaxLag = x BY <1>1
<1> QED BY <1>1, <1>2 DEF Near, At

\* The next tick leaves the time t behind only if it was late by MaxLag.
LEMMA NearTick ==
  ASSUME NEW t \in Ticks, ticks \in Ticks, Near(t, ticks), Late(t) # MaxLag, ticks' = (ticks + 1) % Wrap
  PROVE  ticks' \in Ticks /\ Near(t, ticks)'
<1>1. PICK h \in Nat : h = Half /\ Wrap = 2 * h /\ Wrap \in Nat \ {0} /\ h > 1 BY AlarmNats
<1>2. PICK l \in 0..(h - 1) : l = MaxLag BY <1>1, AlarmNats
<1>3. PICK x \in 0..(2 * h - 1) : x = ticks BY <1>1, AlarmNats
<1>4. t \in 0..(2 * h - 1) BY <1>1, AlarmNats
<1>5. PICK y \in 0..(2 * h - 1) : y = ticks' /\ (x + 1 < 2 * h => y = x + 1) /\ (x + 1 = 2 * h => y = 0)
  <2>1. PICK z \in Int : z = x + 1 /\ ticks' = z % Wrap /\ 0 <= z /\ z < Wrap + Wrap BY <1>1, <1>3
  <2>2. z % Wrap = IF z < Wrap THEN z ELSE z - Wrap BY <2>1, OnceRound
  <2> QED BY <1>1, <1>3, <2>1, <2>2
<1>6. PICK k \in 0..(h - 1) : x - l + k = t \/ x - l + k = t + 2 * h \/ x - l + k = t - 2 * h
  BY <1>1, <1>2, <1>3 DEF Near, At
<1>7. k # 0
  <2> SUFFICES ASSUME k = 0 PROVE FALSE OBVIOUS
  <2>1. x - t = l \/ x - t = l - 2 * h BY <1>2, <1>3, <1>4, <1>6
  <2>2. x - t \in Int /\ -Wrap <= x - t /\ x - t < Wrap BY <1>1, <1>3, <1>4
  <2>3. (x - t) % Wrap = IF x - t >= 0 THEN x - t ELSE x - t + Wrap BY <1>1, <2>2, SmallRest
  <2>4. (x - t) % Wrap = l BY <1>1, <1>2, <2>1, <2>3
  <2> QED BY <1>2, <1>3, <2>4 DEF Late
<1>8. k - 1 \in 0..(h - 1) BY <1>7
<1>9. y - l + (k - 1) = t \/ y - l + (k - 1) = t + 2 * h \/ y - l + (k - 1) = t - 2 * h
  BY <1>1, <1>2, <1>3, <1>4, <1>5, <1>6, <1>7
<1>10. At(t, y, k - 1) BY <1>1, <1>2, <1>9 DEF At
<1>11. Near(t, y) BY <1>1, <1>8, <1>10 DEF Near
<1>12. y \in Ticks BY <1>1, AlarmNats
<1> QED BY <1>5, <1>11, <1>12 DEF Near, At

\* The time asked for.
LEMMA DeadlineNear ==
  ASSUME ticks \in Ticks, NEW d \in Delays
  PROVE  deadline(d) \in Ticks \ {0} /\ Near(deadline(d), ticks)
<1>1. PICK h \in Nat : h = Half /\ Wrap = 2 * h /\ Wrap \in Nat \ {0} /\ h > 1 BY AlarmNats
<1>2. PICK l \in 0..(h - 1) : l = MaxLag BY <1>1, AlarmNats
<1>3. PICK x \in 0..(2 * h - 1) : x = ticks BY <1>1, AlarmNats
<1>4. d \in Nat /\ d + 1 + l < h BY <1>1, <1>2, AlarmNats
<1>5. PICK t \in 0..(2 * h - 1) : t = (x + d) % Wrap /\ t = IF x + d < 2 * h THEN x + d ELSE x + d - 2 * h
  <2>1. PICK z \in Int : z = x + d /\ 0 <= z /\ z < Wrap + Wrap BY <1>1, <1>2, <1>3, <1>4
  <2>2. z % Wrap = IF z < Wrap THEN z ELSE z - Wrap BY <2>1, OnceRound
  <2> QED BY <1>1, <1>2, <1>3, <1>4, <2>1, <2>2
<1>6. deadline(d) = IF t = 0 THEN 1 ELSE t BY <1>3, <1>5 DEF deadline
<1>7. deadline(d) \in Ticks \ {0} BY <1>1, <1>5, <1>6, AlarmNats
<1>8. CASE t = 0
  <2>1. l + d + 1 \in 0..(h - 1) BY <1>2, <1>4
  <2>2. x - l + (l + d + 1) = 1 \/ x - l + (l + d + 1) = 1 + 2 * h BY <1>2, <1>3, <1>4, <1>5, <1>8
  <2>3. At(1, x, l + d + 1) BY <1>1, <1>2, <2>2 DEF At
  <2> QED BY <1>1, <1>3, <1>6, <1>7, <1>8, <2>1, <2>3 DEF Near
<1>9. CASE t # 0
  <2>1. l + d \in 0..(h - 1) BY <1>2, <1>4
  <2>2. x - l + (l + d) = t \/ x - l + (l + d) = t + 2 * h BY <1>2, <1>3, <1>4, <1>5
  <2>3. At(t, x, l + d) BY <1>1, <1>2, <2>2 DEF At
  <2> QED BY <1>1, <1>3, <1>6, <1>7, <1>9, <2>1, <2>3 DEF Near
<1> QED BY <1>8, <1>9

-----------------------------------------------------------------------------
(* Alarms: the list *)

LEMMA RisingRemove ==
  ASSUME NEW s \in Seq(AlarmProcs), NEW a, NEW x, Distinct(s), Rising(s, a)
  PROVE  Rising(RemoveFirst(s, x), a)
<1>1. CASE x \in ToSet(s)
  <2>1. PICK t : t = RemoveFirst(s, x) OBVIOUS
  <2>2. PICK i \in 1..Len(s) :
          /\ Len(t) = Len(s) - 1
          /\ \A k \in 1..(Len(s) - 1) : t[k] = IF k < i THEN s[k] ELSE s[k + 1]
    BY <1>1, <2>1, RemoveFirstPlaces
  <2> SUFFICES ASSUME NEW j \in 1..Len(t), NEW k \in 1..Len(t), j < k, a[t[j]] # 0, a[t[k]] # 0
               PROVE  reached(a[t[k]], a[t[j]])
    BY <2>1 DEF Rising
  <2>3. j \in 1..(Len(s) - 1) /\ k \in 1..(Len(s) - 1) /\ Len(s) \in Nat BY <2>2
  <2>4. ASSUME NEW l \in 1..(Len(s) - 1)
        PROVE  \E g \in 1..Len(s) : t[l] = s[g] /\ g = IF l < i THEN l ELSE l + 1
    <3>1. CASE l < i
      <4>1. t[l] = s[l] BY <2>2, <3>1
      <4>2. l \in 1..Len(s) BY <2>3
      <4> QED BY <3>1, <4>1, <4>2
    <3>2. CASE ~(l < i)
      <4>1. t[l] = s[l + 1] BY <2>2, <3>2
      <4>2. l + 1 \in 1..Len(s) BY <2>3
      <4> QED BY <3>2, <4>1, <4>2
    <3> QED BY <3>1, <3>2
  <2>5. PICK g \in 1..Len(s) : t[j] = s[g] /\ g = IF j < i THEN j ELSE j + 1 BY <2>3, <2>4
  <2>6. PICK h \in 1..Len(s) : t[k] = s[h] /\ h = IF k < i THEN k ELSE k + 1 BY <2>3, <2>4
  <2>7. g < h BY <2>3, <2>5, <2>6
  <2> QED BY <2>5, <2>6, <2>7 DEF Rising
<1>2. CASE x \notin ToSet(s)
  <2>1. RemoveFirst(s, x) = s BY <1>2 DEF RemoveFirst, ToSet
  <2> QED BY <2>1
<1> QED BY <1>1, <1>2

\* An alarm of time v linked in after those that it comes after, and before
\* one that is set and not earlier.
LEMMA RisingInsert ==
  ASSUME NEW s \in Seq(AlarmProcs), NEW a \in [AlarmProcs -> Ticks], NEW x \in AlarmProcs, x \notin ToSet(s),
         NEW v, NEW i \in 1..(Len(s) + 1), Rising(s, a),
         \A j \in 1..Len(s) : j < i /\ a[s[j]] # 0 => reached(v, a[s[j]]),
         i <= Len(s) => a[s[i]] # 0 /\ reached(a[s[i]], v),
         \A j \in 1..Len(s) : i <= Len(s) /\ a[s[j]] # 0 /\ reached(a[s[j]], a[s[i]]) => reached(a[s[j]], v)
  PROVE  Rising(InsertAt(s, i, x), [a EXCEPT ![x] = v])
<1>1. PICK t : t = InsertAt(s, i, x) OBVIOUS
<1>2. PICK f : f = [a EXCEPT ![x] = v] OBVIOUS
<1>3. /\ Len(t) = Len(s) + 1 /\ Len(s) \in Nat
      /\ \A k \in 1..(Len(s) + 1) : t[k] = IF k < i THEN s[k] ELSE IF k = i THEN x ELSE s[k - 1]
  <2>1. /\ Len(InsertAt(s, i, x)) = Len(s) + 1
        /\ \A k \in 1..(Len(s) + 1) :
             InsertAt(s, i, x)[k] = IF k < i THEN s[k] ELSE IF k = i THEN x ELSE s[k - 1]
    BY InsertAtSet
  <2> QED BY <1>1, <2>1
<1>4. \A k \in 1..Len(s) : f[s[k]] = a[s[k]] BY <1>2 DEF ToSet
<1>5. f[x] = v BY <1>2
<1> SUFFICES ASSUME NEW j \in 1..Len(t), NEW k \in 1..Len(t), j < k, f[t[j]] # 0, f[t[k]] # 0
             PROVE  reached(f[t[k]], f[t[j]])
  BY <1>1, <1>2 DEF Rising
<1>6. j \in 1..(Len(s) + 1) /\ k \in 1..(Len(s) + 1) BY <1>3
<1>7. CASE k < i
  <2>1. t[j] = s[j] /\ t[k] = s[k] /\ j \in 1..Len(s) /\ k \in 1..Len(s) BY <1>3, <1>6, <1>7
  <2> QED BY <1>4, <2>1 DEF Rising
<1>8. CASE k = i
  <2>1. t[k] = x /\ j < i /\ t[j] = s[j] /\ j \in 1..Len(s) BY <1>3, <1>6, <1>8
  <2> QED BY <1>4, <1>5, <2>1
<1>9. CASE k > i
  <2>1. t[k] = s[k - 1] /\ k - 1 \in 1..Len(s) /\ k - 1 >= i BY <1>3, <1>6, <1>9
  <2>2. CASE j < i
    <3>1. t[j] = s[j] /\ j \in 1..Len(s) /\ j < k - 1 BY <1>3, <1>6, <1>9, <2>2
    <3> QED BY <1>4, <2>1, <3>1 DEF Rising
  <2>3. CASE j = i
    <3>1. t[j] = x /\ i \in 1..Len(s) /\ i <= Len(s) BY <1>3, <1>6, <2>1, <2>3
    <3>2. CASE k - 1 = i BY <1>4, <1>5, <2>1, <3>1, <3>2
    <3>3. CASE k - 1 # i
      <4>1. i < k - 1 BY <2>1, <3>3
      <4>2. a[s[k - 1]] # 0 BY <1>4, <2>1
      <4>3. reached(a[s[k - 1]], a[s[i]]) BY <2>1, <3>1, <4>1, <4>2 DEF Rising
      <4>4. reached(a[s[k - 1]], v) BY <2>1, <3>1, <4>2, <4>3
      <4> QED BY <1>4, <1>5, <2>1, <3>1, <4>4
    <3> QED BY <3>2, <3>3
  <2>4. CASE j > i
    <3>1. t[j] = s[j - 1]
      <4>1. ~(j < i) /\ j # i BY <1>6, <2>4
      <4> QED BY <1>3, <1>6, <4>1
    <3>2. j - 1 \in 1..Len(s) /\ j - 1 < k - 1 BY <1>3, <1>6, <2>4
    <3> QED BY <1>4, <2>1, <3>1, <3>2 DEF Rising
  <2> QED BY <1>6, <2>2, <2>3, <2>4
<1> QED BY <1>6, <1>7, <1>8, <1>9

\* Clearing an alarm leaves the others in order.
LEMMA RisingClear ==
  ASSUME NEW s \in Seq(AlarmProcs), NEW a \in [AlarmProcs -> Ticks], NEW x \in AlarmProcs, Rising(s, a)
  PROVE  Rising(s, [a EXCEPT ![x] = 0])
<1>1. PICK f : f = [a EXCEPT ![x] = 0] OBVIOUS
<1>2. \A p \in AlarmProcs : f[p] # 0 => f[p] = a[p] BY <1>1
<1>3. \A i \in 1..Len(s) : s[i] \in AlarmProcs OBVIOUS
<1>4. Rising(s, f) BY <1>2, <1>3 DEF Rising
<1> QED BY <1>1, <1>4

LEMMA RisingTail ==
  ASSUME NEW s \in Seq(AlarmProcs), s # <<>>, NEW a, Rising(s, a)
  PROVE  Rising(Tail(s), a)
<1>1. Len(Tail(s)) = Len(s) - 1 /\ Len(s) \in Nat /\ \A i \in 1..(Len(s) - 1) : Tail(s)[i] = s[i + 1]
  OBVIOUS
<1> SUFFICES ASSUME NEW i \in 1..(Len(s) - 1), NEW j \in 1..(Len(s) - 1), i < j,
                    a[Tail(s)[i]] # 0, a[Tail(s)[j]] # 0
             PROVE  reached(a[Tail(s)[j]], a[Tail(s)[i]])
  BY <1>1 DEF Rising
<1>2. i + 1 \in 1..Len(s) /\ j + 1 \in 1..Len(s) /\ i + 1 < j + 1 BY <1>1
<1> QED BY <1>1, <1>2 DEF Rising

-----------------------------------------------------------------------------
(* Alarms: the steps *)

LEMMA AlarmInvInit == AlarmInit => AlarmInv
<1> SUFFICES ASSUME AlarmInit PROVE AlarmInv
  OBVIOUS
<1>1. AlarmTypeOK
  <2>1. null # "kproc" /\ 0 \in Ticks /\ FirstTick \in Ticks BY AlarmNats
  <2>2. alarm \in [AlarmProcs -> Ticks] /\ alarms \in Seq(AlarmProcs)
        /\ when \in [AlarmProcs -> Ticks \cup {null}]
    BY <2>1 DEF AlarmInit
  <2>3. kpc \in KPCs /\ ~(lk = "kproc") /\ kpc \notin {"head", "post", "clear", "pop"}
    BY <2>1 DEF AlarmInit, KPCs
  <2> QED BY <2>1, <2>2, <2>3 DEF AlarmInit, AlarmTypeOK
<1>2. AlarmList
  <2>1. Distinct(<<>>) /\ Rising(<<>>, alarm) BY EmptyRange DEF Rising
  <2> QED BY <2>1 DEF AlarmInit, AlarmList
<1>3. AlarmHead BY DEF AlarmInit, AlarmHead
<1>4. AlarmNear BY DEF AlarmInit, AlarmNear
<1> QED BY <1>1, <1>2, <1>3, <1>4 DEF AlarmInv

\* The window moves on with the clock, past no time that stands.
LEMMA tickInv ==
  ASSUME AlarmInv, tick
  PROVE  AlarmInv'
<1>1. UNCHANGED <<alarm, alarms, when, lk, debug, kpc, now, rp, fooled>> /\ inclock' = TRUE
      /\ ticks' = (ticks + 1) % Wrap
  BY DEF tick
<1>2. ticks \in Ticks /\ now \in Ticks /\ alarm \in [AlarmProcs -> Ticks] /\ MaxLag \in Nat
  BY AlarmNats DEF AlarmInv, AlarmTypeOK
<1>3. ticks' \in Ticks
  <2>1. Near(ticks, ticks) BY <1>2, NearNow
  <2>2. PICK z : z = (ticks + 1) % Wrap OBVIOUS
  <2>3. z \in 0..(Wrap - 1) BY <1>2, <2>2, AlarmNats
  <2> QED BY <1>1, <2>2, <2>3 DEF Ticks
<1>4. ASSUME NEW p \in AlarmProcs, when'[p] # null PROVE when'[p] \in Ticks /\ Near(when[p], ticks)'
  <2>1. PICK t \in Ticks : t = when[p] /\ Near(t, ticks) /\ Late(t) # MaxLag
    BY <1>1, <1>4 DEF AlarmInv, AlarmNear, tick
  <2>2. Near(t, ticks)' BY <1>1, <1>2, <2>1, NearTick
  <2> QED BY <1>1, <2>1, <2>2 DEF Near, At
<1>5. ASSUME NEW p \in AlarmProcs, ~fooled', alarm'[p] # 0 PROVE Near(alarm[p], ticks)'
  <2>1. PICK t \in Ticks : t = alarm[p] /\ Near(t, ticks) /\ Late(t) # MaxLag
    BY <1>1, <1>2, <1>5 DEF AlarmInv, AlarmNear, tick
  <2>2. Near(t, ticks)' BY <1>1, <1>2, <2>1, NearTick
  <2> QED BY <1>1, <2>1, <2>2 DEF Near, At
<1>6. ASSUME kpc' \notin {"asleep", "now"} PROVE Near(now, ticks)'
  <2>1. Near(now, ticks) /\ Late(now) < MaxLag BY <1>1, <1>6 DEF AlarmInv, AlarmNear, tick
  <2>2. Late(now) # MaxLag BY <1>2, <2>1
  <2>3. PICK t \in Ticks : t = now /\ Near(t, ticks) /\ Late(t) # MaxLag BY <1>2, <2>1, <2>2
  <2>4. Near(t, ticks)' BY <1>1, <1>2, <2>3, NearTick
  <2> QED BY <1>1, <2>3, <2>4 DEF Near, At
<1>7. AlarmNear' BY <1>4, <1>5, <1>6 DEF AlarmNear
<1>8. AlarmTypeOK' BY <1>1, <1>3 DEF AlarmInv, AlarmTypeOK
<1>9. AlarmList' /\ AlarmHead' BY <1>1 DEF AlarmInv, AlarmList, AlarmHead, Rising, reached
<1> QED BY <1>7, <1>8, <1>9 DEF AlarmInv

\* A step that leaves the times alone, and fooled unless it becomes true.
LEMMA TimesKept ==
  ASSUME AlarmInv, UNCHANGED <<ticks, alarm, alarms, when>>, fooled' \in BOOLEAN, ~fooled' => ~fooled,
         kpc' \notin {"asleep", "now"} => Near(now, ticks)'
  PROVE  AlarmList' /\ AlarmNear'
BY DEF AlarmInv, AlarmList, AlarmNear, Near, At, Rising, reached

\* checkalarms and the debug locks.
LEMMA checkalarmsInv ==
  ASSUME AlarmInv, (\E machno \in {0, 1} : checkalarms(machno)) \/ \E p \in AlarmProcs : qlockdebug(p)
  PROVE  AlarmInv'
<1>1. UNCHANGED <<ticks, alarm, alarms, when, lk, now, rp>> BY DEF checkalarms, qlockdebug
<1>2. inclock' \in BOOLEAN /\ debug' \subseteq AlarmProcs
  BY DEF AlarmInv, AlarmTypeOK, checkalarms, qlockdebug
<1>3. kpc' = kpc \/ (kpc = "asleep" /\ kpc' = "now") BY DEF checkalarms, qlockdebug
<1>4. fooled' \in BOOLEAN /\ (~fooled' => ~fooled)
  BY DEF AlarmInv, AlarmTypeOK, checkalarms, qlockdebug
<1>5. AlarmTypeOK' BY <1>1, <1>2, <1>3, <1>4 DEF AlarmInv, AlarmTypeOK, KPCs
<1>6. AlarmHead' BY <1>1, <1>3 DEF AlarmInv, AlarmHead
<1>7. kpc' \notin {"asleep", "now"} => Near(now, ticks)' BY <1>1, <1>3 DEF AlarmInv, AlarmNear, Near, At
<1> QED BY <1>1, <1>4, <1>5, <1>6, <1>7, TimesKept DEF AlarmInv

LEMMA procalarmInv ==
  ASSUME AlarmInv, NEW p \in AlarmProcs, NEW d \in Delays, procalarm(p, d)
  PROVE  AlarmInv'
<1>1. PICK t : t = deadline(d) OBVIOUS
<1>2. t \in Ticks /\ Near(t, ticks) BY <1>1, DeadlineNear DEF AlarmInv, AlarmTypeOK
<1>3. when' = [when EXCEPT ![p] = t] /\ UNCHANGED <<ticks, inclock, alarm, alarms, lk, debug, kpc, now, rp, fooled>>
  BY <1>1 DEF procalarm
<1>4. when \in [AlarmProcs -> Ticks \cup {null}] BY DEF AlarmInv, AlarmTypeOK
<1>5. AlarmTypeOK' BY <1>2, <1>3 DEF AlarmInv, AlarmTypeOK
<1>6. AlarmList' /\ AlarmHead' BY <1>3 DEF AlarmInv, AlarmList, AlarmHead, Rising, reached
<1>7. ASSUME NEW q \in AlarmProcs, when'[q] # null PROVE when'[q] \in Ticks /\ Near(when[q], ticks)'
  <2>1. PICK u : u = when'[q] OBVIOUS
  <2>2. u \in Ticks /\ Near(u, ticks)
    <3>1. CASE q = p BY <1>2, <1>3, <1>4, <2>1, <3>1
    <3>2. CASE q # p BY <1>3, <1>4, <1>7, <2>1, <3>2 DEF AlarmInv, AlarmNear
    <3> QED BY <3>1, <3>2
  <2> QED BY <1>3, <2>1, <2>2 DEF Near, At
<1>8. AlarmNear' BY <1>3, <1>7 DEF AlarmInv, AlarmNear, Near, At
<1> QED BY <1>5, <1>6, <1>8 DEF AlarmInv

\* The list with p in its place.
LEMMA procalarmSetInv ==
  ASSUME AlarmInv, NEW p \in AlarmProcs, procalarmSet(p)
  PROVE  AlarmInv'
<1>1. PICK v : v = when[p] OBVIOUS
<1>2. PICK x : x = ticks OBVIOUS
<1>3. v \in Ticks /\ Near(v, x) /\ x \in Ticks
  BY <1>1, <1>2 DEF AlarmInv, AlarmNear, AlarmTypeOK, procalarmSet
<1>4. PICK s : s = unlink(p) OBVIOUS
<1>5. PICK a : a = alarm OBVIOUS
<1>6. /\ alarms \in Seq(AlarmProcs) /\ a \in [AlarmProcs -> Ticks] /\ Distinct(alarms)
      /\ ~fooled => Rising(alarms, a) /\ \A q \in AlarmProcs : a[q] # 0 => Near(a[q], x)
  BY <1>2, <1>5 DEF AlarmInv, AlarmTypeOK, AlarmList, AlarmNear
<1>7. s \in Seq(AlarmProcs) /\ ToSet(s) = ToSet(alarms) \ {p} /\ Distinct(s) /\ (~fooled => Rising(s, a))
  BY <1>4, <1>6, RemoveFirstSet, RisingRemove DEF unlink
<1>8. Len(s) \in Nat /\ DOMAIN s = 1..Len(s) /\ \A j \in 1..Len(s) : s[j] \in AlarmProcs BY <1>7
<1>9. PICK L : L = later(p, s) OBVIOUS
<1>10. L = {i \in 1..Len(s) : reached(a[s[i]], v)} BY <1>1, <1>5, <1>8, <1>9 DEF later
<1>11. PICK k \in 1..(Len(s) + 1) :
         /\ k = place(p, s)
         /\ \A j \in 1..Len(s) : j < k => j \notin L
         /\ k <= Len(s) => k \in L
  <2>1. CASE L = {}
    <3>1. place(p, s) = Len(s) + 1 BY <1>9, <2>1 DEF place
    <3> QED BY <1>8, <2>1, <3>1
  <2>2. CASE L # {}
    <3>1. L \in SUBSET Nat BY <1>8, <1>10
    <3>2. PICK m : m = Min(L) OBVIOUS
    <3>3. m \in L /\ \A j \in L : m <= j BY <2>2, <3>1, <3>2, LeastIsMin
    <3>4. place(p, s) = m BY <1>9, <2>2, <3>2 DEF place
    <3>5. m \in 1..Len(s) BY <1>10, <3>3
    <3> QED BY <1>8, <1>10, <3>3, <3>4, <3>5
  <2> QED BY <2>1, <2>2
<1>12. p \notin ToSet(s) BY <1>7
<1>13. /\ alarm' = [a EXCEPT ![p] = v] /\ alarms' = InsertAt(s, k, p) /\ when' = [when EXCEPT ![p] = null]
       /\ UNCHANGED <<ticks, inclock, lk, debug, kpc, now, rp>> /\ lk = null
  BY <1>1, <1>4, <1>5, <1>11 DEF procalarmSet
<1>14. fooled' \in BOOLEAN /\ (~fooled' => ~fooled /\ (k <= Len(s) => a[s[k]] # 0))
  <2>1. fooled' = (fooled \/ \E i \in L : i = k /\ a[s[i]] = 0)
    BY <1>4, <1>5, <1>9, <1>11 DEF procalarmSet
  <2> QED BY <1>11, <2>1 DEF AlarmInv, AlarmTypeOK
<1>15. ASSUME ~fooled' PROVE Rising(alarms', alarm')
  <2>1. Rising(s, a) /\ (k <= Len(s) => a[s[k]] # 0) /\ \A q \in AlarmProcs : a[q] # 0 => Near(a[q], x)
    BY <1>6, <1>7, <1>14, <1>15
  <2>2. ASSUME NEW j \in 1..Len(s), a[s[j]] # 0 PROVE a[s[j]] \in Ticks /\ Near(a[s[j]], x)
    BY <1>6, <1>8, <2>1, <2>2
  <2>3. ASSUME NEW j \in 1..Len(s), j < k, a[s[j]] # 0 PROVE reached(v, a[s[j]])
    <3>1. ~reached(a[s[j]], v) BY <1>10, <1>11, <2>3
    <3> QED BY <1>3, <2>2, <2>3, <3>1, NearTotal
  <2>4. k <= Len(s) => k \in 1..Len(s) /\ a[s[k]] # 0 /\ reached(a[s[k]], v) BY <1>8, <1>10, <1>11, <2>1
  <2>5. ASSUME NEW j \in 1..Len(s), k <= Len(s), a[s[j]] # 0, reached(a[s[j]], a[s[k]])
        PROVE  reached(a[s[j]], v)
    <3>1. PICK y \in Ticks : y = a[s[j]] /\ Near(y, x) BY <2>2, <2>5
    <3>2. PICK z \in Ticks : z = a[s[k]] /\ Near(z, x) BY <2>2, <2>4, <2>5
    <3>3. reached(y, z) /\ reached(z, v) BY <2>4, <2>5, <3>1, <3>2
    <3>4. reached(y, v) BY <1>3, <3>1, <3>2, <3>3, NearTrans
    <3> QED BY <3>1, <3>4
  <2>6. Rising(InsertAt(s, k, p), [a EXCEPT ![p] = v])
    BY <1>6, <1>7, <1>12, <2>1, <2>3, <2>4, <2>5, RisingInsert
  <2> QED BY <1>13, <2>6
<1>16. alarms' \in Seq(AlarmProcs) /\ ToSet(alarms') = ToSet(s) \cup {p} /\ Distinct(alarms')
  <2>1. /\ InsertAt(s, k, p) \in Seq(AlarmProcs) /\ ToSet(InsertAt(s, k, p)) = ToSet(s) \cup {p}
        /\ Distinct(s) /\ p \notin ToSet(s) => Distinct(InsertAt(s, k, p))
    BY <1>7, InsertAtSet
  <2> QED BY <1>7, <1>12, <1>13, <2>1
<1>17. AlarmTypeOK'
  <2>1. alarm' \in [AlarmProcs -> Ticks] BY <1>3, <1>6, <1>13
  <2>2. when' \in [AlarmProcs -> Ticks \cup {null}] BY <1>13 DEF AlarmInv, AlarmTypeOK
  <2> QED BY <1>13, <1>14, <1>16, <2>1, <2>2 DEF AlarmInv, AlarmTypeOK
<1>18. ASSUME NEW q \in AlarmProcs, alarm'[q] # 0 PROVE q \in ToSet(alarms')
  <2>1. CASE q = p BY <1>16, <2>1
  <2>2. CASE q # p
    <3>1. alarm[q] # 0 BY <1>5, <1>6, <1>13, <1>18, <2>2
    <3>2. q \in ToSet(alarms) BY <3>1 DEF AlarmInv, AlarmList
    <3> QED BY <1>7, <1>16, <2>2, <3>2
  <2> QED BY <2>1, <2>2
<1>19. AlarmHead'
  <2>1. lk # "kproc" BY <1>13, AlarmNats
  <2>2. kpc \notin {"post", "clear", "pop"} BY <2>1 DEF AlarmInv, AlarmTypeOK
  <2> QED BY <1>13, <2>2 DEF AlarmInv, AlarmTypeOK, AlarmHead
<1>20. AlarmNear'
  <2>1. ASSUME NEW q \in AlarmProcs, when'[q] # null PROVE when'[q] \in Ticks /\ Near(when[q], ticks)'
    <3>1. when \in [AlarmProcs -> Ticks \cup {null}] BY DEF AlarmInv, AlarmTypeOK
    <3>2. q # p /\ when'[q] = when[q] BY <1>13, <2>1, <3>1
    <3> QED BY <1>13, <2>1, <3>2 DEF AlarmInv, AlarmNear, Near, At
  <2>2. ASSUME NEW q \in AlarmProcs, ~fooled', alarm'[q] # 0 PROVE Near(alarm[q], ticks)'
    <3>1. PICK u : u = alarm'[q] OBVIOUS
    <3>2. Near(u, x)
      <4>1. CASE q = p BY <1>3, <1>6, <1>13, <3>1, <4>1
      <4>2. CASE q # p BY <1>6, <1>13, <1>14, <2>2, <3>1, <4>2
      <4> QED BY <4>1, <4>2
    <3> QED BY <1>2, <1>13, <3>1, <3>2 DEF Near, At
  <2> QED BY <1>13, <2>1, <2>2 DEF AlarmInv, AlarmNear, Near, At
<1> QED BY <1>15, <1>16, <1>17, <1>18, <1>19, <1>20 DEF AlarmInv, AlarmList

\* An alarm is cleared, by its process or by alarmkproc.
LEMMA ClearInv ==
  ASSUME AlarmInv, NEW p \in AlarmProcs, procalarmClear(p) \/ (kprocClear /\ p = rp)
  PROVE  AlarmInv'
<1>1. alarm' = [alarm EXCEPT ![p] = 0] /\ UNCHANGED <<ticks, inclock, alarms, when, lk, debug, now, rp, fooled>>
  BY DEF procalarmClear, kprocClear
<1>2. kpc' = kpc \/ (kpc = "clear" /\ kpc' = "pop" /\ p = rp) BY DEF procalarmClear, kprocClear
<1>3. 0 \in Ticks /\ alarm \in [AlarmProcs -> Ticks] BY AlarmNats DEF AlarmInv, AlarmTypeOK
<1>4. \A q \in AlarmProcs : alarm'[q] = IF q = p THEN 0 ELSE alarm[q] BY <1>1, <1>3
<1>5. AlarmTypeOK' BY <1>1, <1>2, <1>3 DEF AlarmInv, AlarmTypeOK, KPCs
<1>6. AlarmList'
  <2>1. PICK a : a = alarm OBVIOUS
  <2>2. ~fooled => Rising(alarms, [a EXCEPT ![p] = 0])
    BY <1>3, <2>1, RisingClear DEF AlarmInv, AlarmTypeOK, AlarmList
  <2>3. ~fooled' => Rising(alarms', alarm') BY <1>1, <2>1, <2>2
  <2>4. \A q \in AlarmProcs : alarm'[q] # 0 => q \in ToSet(alarms) BY <1>4 DEF AlarmInv, AlarmList
  <2> QED BY <1>1, <2>3, <2>4 DEF AlarmInv, AlarmList
<1>7. AlarmHead'
  <2>1. kpc' = "pop" => rp \in AlarmProcs BY <1>2 DEF AlarmInv, AlarmTypeOK
  <2>2. kpc' = "pop" => alarm'[rp] = 0 BY <1>2, <1>4, <2>1 DEF AlarmInv, AlarmHead
  <2> QED BY <1>1, <2>2 DEF AlarmInv, AlarmHead
<1>8. AlarmNear' BY <1>1, <1>2, <1>4 DEF AlarmInv, AlarmNear, Near, At
<1> QED BY <1>5, <1>6, <1>7, <1>8 DEF AlarmInv

\* The head of the list goes, which is cleared.  An empty list is in order, and
\* then no alarm is set.
LEMMA kprocPopInv ==
  ASSUME AlarmInv, kprocPop
  PROVE  AlarmInv'
<1>1. kpc = "pop" /\ alarms # <<>> /\ rp = Head(alarms) /\ alarm[rp] = 0
  BY DEF AlarmInv, AlarmTypeOK, AlarmHead, kprocPop
<1>2. /\ alarms' = Tail(alarms) /\ rp' = null /\ kpc' = "head" /\ fooled' = (fooled /\ Tail(alarms) # <<>>)
      /\ UNCHANGED <<ticks, inclock, alarm, when, lk, debug, now>>
  BY DEF kprocPop
<1>3. PICK s : s = Tail(alarms) OBVIOUS
<1>4. PICK a : a = alarm OBVIOUS
<1>5. alarms \in Seq(AlarmProcs) /\ Distinct(alarms) /\ (~fooled => Rising(alarms, a))
  BY <1>4 DEF AlarmInv, AlarmTypeOK, AlarmList
<1>6. s \in Seq(AlarmProcs) /\ Distinct(s) /\ ToSet(s) = ToSet(alarms) \ {Head(alarms)}
  <2>1. Tail(alarms) \in Seq(AlarmProcs) /\ Range(Tail(alarms)) = Range(alarms) \ {Head(alarms)}
        /\ Distinct(Tail(alarms))
    BY <1>1, <1>5, TailRange
  <2>2. ToSet(alarms) = Range(alarms) /\ ToSet(Tail(alarms)) = Range(Tail(alarms)) BY DEF ToSet, Range
  <2> QED BY <1>3, <2>1, <2>2
<1>7. fooled' \in BOOLEAN /\ (~fooled' => ~fooled \/ s = <<>>)
  BY <1>2, <1>3 DEF AlarmInv, AlarmTypeOK
<1>8. ~fooled' => Rising(s, a)
  <2>1. CASE s = <<>> BY <2>1 DEF Rising
  <2>2. CASE ~fooled BY <1>1, <1>3, <1>5, <2>2, RisingTail
  <2> QED BY <1>7, <2>1, <2>2
<1>9. \A q \in AlarmProcs : alarm[q] # 0 => q \in ToSet(s)
  BY <1>1, <1>6 DEF AlarmInv, AlarmList
<1>10. AlarmTypeOK' BY <1>1, <1>2, <1>3, <1>6, <1>7, AlarmNats DEF AlarmInv, AlarmTypeOK, KPCs
<1>11. AlarmList'
  <2>1. ~fooled' => Rising(alarms', alarm') BY <1>2, <1>3, <1>4, <1>8
  <2> QED BY <1>2, <1>3, <1>6, <1>9, <2>1 DEF AlarmList
<1>12. AlarmHead' BY <1>2 DEF AlarmHead
<1>13. ASSUME ~fooled', NEW q \in AlarmProcs, alarm[q] # 0 PROVE Near(alarm[q], ticks)
  <2>1. s # <<>>
    <3>1. q \in ToSet(s) BY <1>9, <1>13
    <3> QED BY <3>1, EmptyRange DEF ToSet
  <2> QED BY <1>7, <1>13, <2>1 DEF AlarmInv, AlarmNear
<1>14. Near(now, ticks) BY <1>1 DEF AlarmInv, AlarmNear
<1>15. AlarmNear' BY <1>2, <1>13, <1>14 DEF AlarmInv, AlarmNear, Near, At
<1> QED BY <1>10, <1>11, <1>12, <1>15 DEF AlarmInv

\* The steps of alarmkproc that change no alarm.
LEMMA kprocInv ==
  ASSUME AlarmInv, kprocNow \/ kprocLock \/ kprocPost \/ kprocPostnote \/ kprocSkip \/ kprocSleep
  PROVE  AlarmInv'
<1>1. UNCHANGED <<ticks, inclock, alarm, alarms, when, debug>>
  BY DEF kprocNow, kprocLock, kprocPost, kprocPostnote, kprocSkip, kprocSleep
<1>2. fooled' \in BOOLEAN /\ (~fooled' => ~fooled)
  BY DEF AlarmInv, AlarmTypeOK, kprocNow, kprocLock, kprocPost, kprocPostnote, kprocSkip, kprocSleep
<1>3. kpc' \notin {"asleep", "now"} => Near(now, ticks)'
  <2>1. CASE kprocNow
    <3>1. Near(ticks, ticks) BY NearNow DEF AlarmInv, AlarmTypeOK
    <3> QED BY <1>1, <2>1, <3>1 DEF kprocNow, Near, At
  <2>2. CASE kprocLock \/ kprocPost \/ kprocPostnote \/ kprocSkip
    <3>1. kpc \notin {"asleep", "now"} /\ now' = now BY <2>2 DEF kprocLock, kprocPost, kprocPostnote, kprocSkip
    <3> QED BY <1>1, <3>1 DEF AlarmInv, AlarmNear, Near, At
  <2>3. CASE kprocSleep BY <2>3 DEF kprocSleep
  <2> QED BY <2>1, <2>2, <2>3
<1>4. AlarmList' /\ AlarmNear' BY <1>1, <1>2, <1>3, TimesKept
<1>5. CASE kprocNow
  BY <1>2, <1>4, <1>5 DEF AlarmInv, AlarmTypeOK, AlarmHead, kprocNow, KPCs
<1>6. CASE kprocLock
  BY <1>2, <1>4, <1>6 DEF AlarmInv, AlarmTypeOK, AlarmHead, kprocLock, KPCs
<1>7. CASE kprocPost \/ kprocSkip
  <2>1. alarms # <<>> /\ rp' = Head(alarms) BY <1>7 DEF kprocPost, kprocSkip, Due
  <2>2. Head(alarms) \in AlarmProcs BY <2>1 DEF AlarmInv, AlarmTypeOK
  <2>3. kpc = "head" /\ kpc' \in {"post", "pop"} /\ lk' = lk /\ now' = now
        /\ (kpc' = "pop" => alarm[Head(alarms)] = 0)
    BY <1>7 DEF kprocPost, kprocSkip
  <2>4. AlarmTypeOK' BY <1>1, <1>2, <2>1, <2>2, <2>3, AlarmNats DEF AlarmInv, AlarmTypeOK, KPCs
  <2>5. AlarmHead' BY <1>1, <2>1, <2>3 DEF AlarmHead
  <2> QED BY <1>4, <2>4, <2>5 DEF AlarmInv
<1>8. CASE kprocPostnote
  BY <1>2, <1>4, <1>8 DEF AlarmInv, AlarmTypeOK, AlarmHead, kprocPostnote, KPCs
<1>9. CASE kprocSleep
  <2>1. null # "kproc" BY AlarmNats
  <2>2. kpc = "head" /\ kpc' = "asleep" /\ lk' = null /\ UNCHANGED <<now, rp>> BY <1>9 DEF kprocSleep
  <2>3. AlarmTypeOK' BY <1>1, <1>2, <2>1, <2>2 DEF AlarmInv, AlarmTypeOK, KPCs
  <2>4. AlarmHead' BY <1>1, <2>2 DEF AlarmInv, AlarmHead
  <2> QED BY <1>4, <2>3, <2>4 DEF AlarmInv
<1> QED BY <1>5, <1>6, <1>7, <1>8, <1>9

LEMMA AlarmInvStep == AlarmInv /\ [AlarmNext]_alarmvars => AlarmInv'
<1> SUFFICES ASSUME AlarmInv, [AlarmNext]_alarmvars PROVE AlarmInv'
  OBVIOUS
<1>1. CASE tick BY <1>1, tickInv
<1>2. CASE (\E machno \in {0, 1} : checkalarms(machno)) \/ \E p \in AlarmProcs : qlockdebug(p)
  BY <1>2, checkalarmsInv
<1>3. CASE \E p \in AlarmProcs : \E d \in Delays : procalarm(p, d) BY <1>3, procalarmInv
<1>4. CASE \E p \in AlarmProcs : procalarmSet(p) BY <1>4, procalarmSetInv
<1>5. CASE \E p \in AlarmProcs : procalarmClear(p) BY <1>5, ClearInv
<1>6. CASE kprocClear
  <2>1. rp \in AlarmProcs BY <1>6 DEF kprocClear, AlarmInv, AlarmTypeOK
  <2> QED BY <1>6, <2>1, ClearInv
<1>7. CASE kprocPop BY <1>7, kprocPopInv
<1>8. CASE kprocNow \/ kprocLock \/ kprocPost \/ kprocPostnote \/ kprocSkip \/ kprocSleep BY <1>8, kprocInv
<1>9. CASE UNCHANGED alarmvars
  BY <1>9 DEF alarmvars, AlarmInv, AlarmTypeOK, AlarmList, AlarmHead, AlarmNear, Near, At, Rising, reached
<1> QED BY <1>1, <1>2, <1>3, <1>4, <1>5, <1>6, <1>7, <1>8, <1>9 DEF AlarmNext, kproc

LEMMA AlarmInductive == AlarmSpec => []AlarmInv
BY AlarmInvInit, AlarmInvStep, PTL DEF AlarmSpec

(***************************************************************************)
(* procalarm, checkalarms, alarmkproc: all round the clock, every process  *)
(* with an alarm is in the list, once, and the alarms that are set stand   *)
(* there in the order of their times, whenever alarms are set again or     *)
(* cleared, until a cleared alarm is taken for one still to come; once the *)
(* list was empty they do so again.                                        *)
(***************************************************************************)
THEOREM AlarmsOrdered == AlarmSpec => []Ordered
<1>1. AlarmInv => Ordered
  <2> SUFFICES ASSUME AlarmInv PROVE Ordered
    OBVIOUS
  <2>1. alarms \in Seq(AlarmProcs) /\ DOMAIN alarms = 1..Len(alarms) /\ alarm \in [AlarmProcs -> Ticks]
    BY DEF AlarmInv, AlarmTypeOK
  <2>2. AlarmTypeOK BY DEF AlarmInv
  <2>3. IsInjective(alarms) BY <2>1, InjectiveIsDistinct DEF AlarmInv, AlarmList
  <2>4. ASSUME ~fooled, NEW i \in DOMAIN alarms, NEW j \in DOMAIN alarms, i < j,
               alarm[alarms[i]] # 0, alarm[alarms[j]] # 0
        PROVE  NotBefore(alarm[alarms[j]], alarm[alarms[i]])
    <3>1. reached(alarm[alarms[j]], alarm[alarms[i]]) BY <2>1, <2>4 DEF AlarmInv, AlarmList, Rising
    <3>2. alarm[alarms[i]] \in Ticks /\ alarm[alarms[j]] \in Ticks BY <2>1, <2>4
    <3> QED BY <3>1, <3>2, ReachedNotBefore
  <2> QED BY <2>2, <2>3, <2>4 DEF Ordered, AlarmInv, AlarmList
<1> QED BY <1>1, AlarmInductive, PTL

(***************************************************************************)
(* alarmkproc: when it goes back to sleep it has posted every alarm that   *)
(* was due at its now, unless the debug lock of the first is held          *)
(* elsewhere or it took a cleared alarm for one still to come.             *)
(***************************************************************************)
THEOREM DuePosted == AlarmSpec => AllDuePosted
<1>1. AlarmInv /\ [AlarmNext]_alarmvars =>
        [kpc # "asleep" /\ kpc' = "asleep" =>
           \/ fooled'
           \/ alarms # <<>> /\ Head(alarms) \in debug
           \/ \A i \in DOMAIN alarms :
                alarm[alarms[i]] # 0 => ~NotBefore(now, alarm[alarms[i]])]_alarmvars
  <2> SUFFICES ASSUME AlarmInv, [AlarmNext]_alarmvars, kpc # "asleep", kpc' = "asleep", ~fooled',
                      ~(alarms # <<>> /\ Head(alarms) \in debug),
                      NEW i \in DOMAIN alarms, alarm[alarms[i]] # 0
               PROVE  ~NotBefore(now, alarm[alarms[i]])
    OBVIOUS
  <2>1. kprocSleep
    BY DEF AlarmNext, kproc, alarmvars, tick, checkalarms, procalarmSet, procalarmClear, qlockdebug, procalarm,
           kprocNow, kprocLock, kprocPost, kprocPostnote, kprocClear, kprocSkip, kprocPop
  <2>2. /\ alarms \in Seq(AlarmProcs) /\ DOMAIN alarms = 1..Len(alarms) /\ i \in 1..Len(alarms)
        /\ alarm \in [AlarmProcs -> Ticks] /\ now \in Ticks /\ ticks \in Ticks
    BY DEF AlarmInv, AlarmTypeOK
  <2>3. alarms # <<>> /\ Head(alarms) = alarms[1] /\ alarms[1] \in AlarmProcs /\ alarms[i] \in AlarmProcs
        /\ 1 \in 1..Len(alarms)
    BY <2>2
  <2>4. ~reached(now, alarm[alarms[1]]) BY <2>1, <2>3 DEF kprocSleep, Due
  <2>5. ~fooled /\ ~foolish(now) BY <2>1 DEF kprocSleep, AlarmInv, AlarmTypeOK
  <2>6. alarm[alarms[1]] # 0 BY <2>3, <2>4, <2>5 DEF foolish
  <2>7. PICK a \in Ticks : a = alarm[alarms[1]] /\ Near(a, ticks) BY <2>2, <2>3, <2>5, <2>6 DEF AlarmInv, AlarmNear
  <2>8. PICK b \in Ticks : b = alarm[alarms[i]] /\ Near(b, ticks) BY <2>2, <2>3, <2>5 DEF AlarmInv, AlarmNear
  <2>9. Near(now, ticks) BY <2>1 DEF kprocSleep, AlarmInv, AlarmNear
  <2>10. ~reached(now, b)
    <3>1. CASE i = 1 BY <2>4, <2>8, <3>1
    <3>2. CASE i # 1
      <4>1. 1 < i BY <2>2, <3>2
      <4>2. reached(b, a) BY <2>2, <2>3, <2>5, <2>6, <2>7, <2>8, <4>1 DEF AlarmInv, AlarmList, Rising
      <4>3. ~reached(now, a) BY <2>4, <2>7
      <4> QED BY <2>2, <2>7, <2>8, <2>9, <4>2, <4>3, NearTrans
    <3> QED BY <3>1, <3>2
  <2> QED BY <2>2, <2>8, <2>10, ReachedNotBefore
<1> QED BY <1>1, AlarmInductive, PTL DEF AlarmSpec, AllDuePosted

=============================================================================

---------------------------- MODULE SleepProofs -----------------------------
(***************************************************************************)
(* Proofs that sleep, tsleep, wakeup, twakeup and postnote keep r->p and   *)
(* p->r linked, ready a sleeper once and lose no wakeup, for any number of *)
(* processes, Rendez structures, processors, wakers and noters.            *)
(*                                                                         *)
(* The theorems assume Serialised, that at most one process uses a Rendez  *)
(* at a time, as sleep(9) asks of the callers: a second sleeper overwrites *)
(* r->p and the links are lost.                                            *)
(***************************************************************************)
EXTENDS Sleep, FiniteSetTheorems, TLAPS

\* p has decided to sleep and has not been run again.
Away(p) == pc[p] \in {"commit", "goto", "off"}

\* The code each kind of agent runs.
PcOK ==
  /\ \A p \in Procs : pc[p] \in {"idle", "lockr", "lockp", "test", "commit", "goto", "off", "awake", "tdel"}
  /\ \A w \in Wakers : pc[w] \in {"idle", "wakeup", "found", "both", "ready"}
  /\ \A m \in Machs : pc[m] \in {"idle", "fired", "read", "wakeup", "found", "both", "ready"}
  /\ \A n \in Noters : pc[n] \in {"idle", "post", "try", "ready"}

\* The locals: set where they are used, and what was read under a lock is
\* still so while the lock is held.
LocalsOK ==
  /\ \A p \in Procs : pc[p] = "idle" <=> arg[p] = nil
  /\ \A a \in Agents :
       /\ pc[a] \in {"wakeup", "found", "both"} => arg[a] # nil
       /\ pc[a] \in {"both", "ready", "post", "try", "fired", "read"} => vic[a] # nil
       /\ pc[a] \in {"found", "both"} => vic[a] = rp[arg[a]]
       /\ pc[a] = "try" => arg[a] = pr[vic[a]]

\* A Rendez is used by one process at a time.
AloneOK == \A p, q \in Procs : pc[p] # "idle" /\ pc[q] # "idle" /\ arg[p] = arg[q] => p = q

\* r->p and p->r point at each other, but between sleep's r->p = up and its
\* decision.
LinkOK ==
  /\ \A p \in Procs : pr[p] # nil =>
       Away(p) /\ state[p] = "Wakeme" /\ arg[p] = pr[p] /\ rp[pr[p]] = p
  /\ \A r \in Rendezes : rp[r] # nil =>
       arg[rp[r]] = r /\ (pc[rp[r]] = "test" \/ pr[rp[r]] = r)
  /\ \A p \in Procs : pc[p] = "test" => rp[arg[p]] = p

\* A process is in the run queue only while it is away, once, and after the
\* one agent that unlinked it has called ready.
ReadyOK ==
  /\ \A p \in Procs : ~Away(p) => state[p] = "Running" /\ runq[p] = 0
  /\ \A p \in Procs : Away(p) =>
       \/ state[p] = "Wakeme" /\ runq[p] = 0
       \/ state[p] = "Ready" /\ runq[p] = 1
  /\ \A a \in Agents : pc[a] = "ready" =>
       Away(vic[a]) /\ state[vic[a]] = "Wakeme" /\ pr[vic[a]] = nil
  /\ \A a, b \in Agents : pc[a] = "ready" /\ pc[b] = "ready" /\ vic[a] = vic[b] => a = b

IndInv == TypeOK /\ PcOK /\ LocalsOK /\ AloneOK /\ LinkOK /\ ReadyOK /\ NoLostWakeup

-----------------------------------------------------------------------------
(* TypeOK in two parts: the types, and who holds the spin locks. *)

Types ==
  /\ lk \in [Rendezes \cup Procs -> Agents \cup {nil}]
  /\ rp \in [Rendezes -> Procs \cup {nil}]
  /\ pr \in [Procs -> Rendezes \cup {nil}]
  /\ state \in [Procs -> {"Running", "Wakeme", "Ready"}]
  /\ runq \in [Procs -> Nat]
  /\ mach \in [Procs -> Machs \cup {nil}]
  /\ notepending \in [Procs -> BOOLEAN]
  /\ cond \in [Rendezes -> BOOLEAN]
  /\ trend \in [Procs -> Rendezes \cup {nil}]
  /\ tt \in [Procs -> Machs \cup {nil}]
  /\ timed \in [Procs -> BOOLEAN]
  /\ pc \in [Agents -> PCs]
  /\ arg \in [Agents -> Rendezes \cup {nil}]
  /\ vic \in [Agents -> Procs \cup {nil}]

LocksOK ==
  /\ \A a \in Agents : \A r \in Rendezes : lk[r] = a <=> HoldsR(a, r)
  /\ \A a \in Agents : \A p \in Procs : lk[p] = a <=> HoldsP(a, p)

\* TypeOK is the types and the locks.
LEMMA TypeParts == TypeOK <=> Types /\ LocksOK
BY DEF TypeOK, Types, LocksOK

\* Every step keeps the types.
LEMMA NextTypes ==
  ASSUME Types, PcOK, LocalsOK, ReadyOK, [Next]_vars
  PROVE  Types'
<1> USE SleepAssumption DEF Types, PcOK, LocalsOK, ReadyOK, Away, PCs, Agents
<1>1. ASSUME NEW p \in Procs, NEW r \in Rendezes, sleep(p, r) PROVE Types'
  BY <1>1 DEF sleep, Runs, MayUse, Goto, links, timer
<1>2. ASSUME NEW p \in Procs, NEW r \in Rendezes, tsleep(p, r) PROVE Types'
  BY <1>2 DEF tsleep, Runs, MayUse, Goto, links
<1>3. ASSUME NEW p \in Procs, sleepLockr(p) PROVE Types'
  BY <1>3 DEF sleepLockr, Goto, links, timer
<1>4. ASSUME NEW p \in Procs, sleepLockp(p) PROVE Types'
  BY <1>4 DEF sleepLockp, Goto, timer
<1>5. ASSUME NEW p \in Procs, sleepNot(p) PROVE Types'
  BY <1>5 DEF sleepNot, unlockboth, Goto, timer
<1>6. ASSUME NEW p \in Procs, sleepCommit(p) PROVE Types'
  BY <1>6 DEF sleepCommit, f, Goto, timer
<1>7. ASSUME NEW p \in Procs, sleepUnlock(p) PROVE Types'
  BY <1>7 DEF sleepUnlock, unlockboth, Goto, links, timer
<1>8. ASSUME NEW p \in Procs, schedinit(p) PROVE Types'
  BY <1>8 DEF schedinit, Goto, timer
<1>9. ASSUME NEW p \in Procs, NEW m \in Machs, runproc(p, m) PROVE Types'
  BY <1>9 DEF runproc, Goto, timer
<1>10. ASSUME NEW p \in Procs, sleepEintr(p) PROVE Types'
  <2>1. CASE timed[p] /\ pc' = [pc EXCEPT ![p] = "tdel"] /\ UNCHANGED <<arg, vic>>
    BY <1>10, <2>1 DEF sleepEintr, links, timer
  <2>2. CASE ~timed[p] /\ Done(p)
    BY <1>10, <2>2 DEF sleepEintr, links, timer, Done
  <2> QED BY <1>10, <2>1, <2>2 DEF sleepEintr, links, timer, return, Goto
<1>11. ASSUME NEW p \in Procs, sleepReturn(p) PROVE Types'
  <2>1. CASE timed[p] /\ pc' = [pc EXCEPT ![p] = "tdel"] /\ UNCHANGED <<arg, vic>>
    BY <1>11, <2>1 DEF sleepReturn, links, timer
  <2>2. CASE ~timed[p] /\ Done(p)
    BY <1>11, <2>2 DEF sleepReturn, links, timer, Done
  <2> QED BY <1>11, <2>1, <2>2 DEF sleepReturn, links, timer, return, Goto
<1>12. ASSUME NEW p \in Procs, tsleepReturn(p) PROVE Types'
  BY <1>12 DEF tsleepReturn, Done, links
<1>13. ASSUME NEW w \in Wakers, NEW r \in Rendezes, event(w, r) PROVE Types'
  BY <1>13 DEF event, Goto, links, timer
<1>14. ASSUME NEW a \in Wakers \cup Machs, wakeup(a) PROVE Types'
  BY <1>14 DEF wakeup, Goto, links, timer
<1>15. ASSUME NEW a \in Wakers \cup Machs, wakeupNone(a) PROVE Types'
  BY <1>15 DEF wakeupNone, Done, links, timer
<1>16. ASSUME NEW a \in Wakers \cup Machs, wakeupLockp(a) PROVE Types'
  BY <1>16 DEF wakeupLockp, Goto, links, timer
<1>17. ASSUME NEW a \in Wakers \cup Machs, wakeupTake(a) PROVE Types'
  BY <1>17 DEF wakeupTake, unlockboth, Goto, timer
<1>18. ASSUME NEW a \in Wakers \cup Machs \cup Noters, ready(a) PROVE Types'
  BY <1>18 DEF ready, Done, timer
<1>19. ASSUME NEW n \in Noters, NEW p \in Procs, postnote(n, p) PROVE Types'
  BY <1>19 DEF postnote, Goto, links, timer
<1>20. ASSUME NEW n \in Noters, postnoteLockp(n) PROVE Types'
  BY <1>20 DEF postnoteLockp, Goto, links, timer
<1>21. ASSUME NEW n \in Noters, postnoteNone(n) PROVE Types'
  BY <1>21 DEF postnoteNone, Done, links, timer
<1>22. ASSUME NEW n \in Noters, postnoteRetry(n) PROVE Types'
  BY <1>22 DEF postnoteRetry, Goto, links, timer
<1>23. ASSUME NEW n \in Noters, postnoteTake(n) PROVE Types'
  BY <1>23 DEF postnoteTake, Goto, timer
<1>24. ASSUME NEW m \in Machs, NEW p \in Procs, timerintr(m, p) PROVE Types'
  BY <1>24 DEF timerintr, Goto, links
<1>25. ASSUME NEW m \in Machs, twakeup(m) PROVE Types'
  BY <1>25 DEF twakeup, Goto, links, timer
<1>26. ASSUME NEW m \in Machs, twakeupClear(m) PROVE Types'
  BY SMTT(30), <1>26 DEF twakeupClear, Done, Goto, links
<1>27. CASE UNCHANGED vars
  BY <1>27 DEF vars
<1> QED BY <1>1, <1>2, <1>3, <1>4, <1>5, <1>6, <1>7, <1>8, <1>9, <1>10, <1>11, <1>12, <1>13, <1>14, <1>15, <1>16, <1>17, <1>18, <1>19, <1>20, <1>21, <1>22, <1>23, <1>24, <1>25, <1>26, <1>27 DEF Next, Call, Expire, Spin, Step

\* Every agent stays in its code.
LEMMA NextPc ==
  ASSUME Types, PcOK, [Next]_vars
  PROVE  PcOK'
<1> USE SleepAssumption DEF Types, PcOK, Agents
<1>1. ASSUME NEW p \in Procs, NEW r \in Rendezes, sleep(p, r) PROVE PcOK'
  BY <1>1 DEF sleep, Runs, MayUse, Goto, links, timer
<1>2. ASSUME NEW p \in Procs, NEW r \in Rendezes, tsleep(p, r) PROVE PcOK'
  BY <1>2 DEF tsleep, Runs, MayUse, Goto, links
<1>3. ASSUME NEW p \in Procs, sleepLockr(p) PROVE PcOK'
  BY <1>3 DEF sleepLockr, Goto, links, timer
<1>4. ASSUME NEW p \in Procs, sleepLockp(p) PROVE PcOK'
  BY <1>4 DEF sleepLockp, Goto, timer
<1>5. ASSUME NEW p \in Procs, sleepNot(p) PROVE PcOK'
  BY <1>5 DEF sleepNot, unlockboth, Goto, timer
<1>6. ASSUME NEW p \in Procs, sleepCommit(p) PROVE PcOK'
  BY <1>6 DEF sleepCommit, f, Goto, timer
<1>7. ASSUME NEW p \in Procs, sleepUnlock(p) PROVE PcOK'
  BY <1>7 DEF sleepUnlock, unlockboth, Goto, links, timer
<1>8. ASSUME NEW p \in Procs, schedinit(p) PROVE PcOK'
  BY <1>8 DEF schedinit, Goto, timer
<1>9. ASSUME NEW p \in Procs, NEW m \in Machs, runproc(p, m) PROVE PcOK'
  BY <1>9 DEF runproc, Goto, timer
<1>10. ASSUME NEW p \in Procs, sleepEintr(p) PROVE PcOK'
  BY <1>10 DEF sleepEintr, return, Goto, Done, links, timer
<1>11. ASSUME NEW p \in Procs, sleepReturn(p) PROVE PcOK'
  BY <1>11 DEF sleepReturn, return, Goto, Done, links, timer
<1>12. ASSUME NEW p \in Procs, tsleepReturn(p) PROVE PcOK'
  BY <1>12 DEF tsleepReturn, Done, links
<1>13. ASSUME NEW w \in Wakers, NEW r \in Rendezes, event(w, r) PROVE PcOK'
  BY <1>13 DEF event, Goto, links, timer
<1>14. ASSUME NEW a \in Wakers \cup Machs, wakeup(a) PROVE PcOK'
  BY <1>14 DEF wakeup, Goto, links, timer
<1>15. ASSUME NEW a \in Wakers \cup Machs, wakeupNone(a) PROVE PcOK'
  BY <1>15 DEF wakeupNone, Done, links, timer
<1>16. ASSUME NEW a \in Wakers \cup Machs, wakeupLockp(a) PROVE PcOK'
  BY <1>16 DEF wakeupLockp, Goto, links, timer
<1>17. ASSUME NEW a \in Wakers \cup Machs, wakeupTake(a) PROVE PcOK'
  BY <1>17 DEF wakeupTake, unlockboth, Goto, timer
<1>18. ASSUME NEW a \in Wakers \cup Machs \cup Noters, ready(a) PROVE PcOK'
  BY <1>18 DEF ready, Done, timer
<1>19. ASSUME NEW n \in Noters, NEW p \in Procs, postnote(n, p) PROVE PcOK'
  BY <1>19 DEF postnote, Goto, links, timer
<1>20. ASSUME NEW n \in Noters, postnoteLockp(n) PROVE PcOK'
  BY <1>20 DEF postnoteLockp, Goto, links, timer
<1>21. ASSUME NEW n \in Noters, postnoteNone(n) PROVE PcOK'
  BY <1>21 DEF postnoteNone, Done, links, timer
<1>22. ASSUME NEW n \in Noters, postnoteRetry(n) PROVE PcOK'
  BY <1>22 DEF postnoteRetry, Goto, links, timer
<1>23. ASSUME NEW n \in Noters, postnoteTake(n) PROVE PcOK'
  BY <1>23 DEF postnoteTake, Goto, timer
<1>24. ASSUME NEW m \in Machs, NEW p \in Procs, timerintr(m, p) PROVE PcOK'
  BY <1>24 DEF timerintr, Goto, links
<1>25. ASSUME NEW m \in Machs, twakeup(m) PROVE PcOK'
  BY <1>25 DEF twakeup, Goto, links, timer
<1>26. ASSUME NEW m \in Machs, twakeupClear(m) PROVE PcOK'
  BY <1>26 DEF twakeupClear, Done, Goto, links
<1>27. CASE UNCHANGED vars
  BY <1>27 DEF vars
<1> QED BY <1>1, <1>2, <1>3, <1>4, <1>5, <1>6, <1>7, <1>8, <1>9, <1>10, <1>11, <1>12, <1>13, <1>14, <1>15, <1>16, <1>17, <1>18, <1>19, <1>20, <1>21, <1>22, <1>23, <1>24, <1>25, <1>26, <1>27 DEF Next, Call, Expire, Spin, Step

\* Every spin lock stays with the agent between its lock and its unlock.
LEMMA NextLocks ==
  ASSUME Types, LocksOK, PcOK, LocalsOK, LinkOK, [Next]_vars
  PROVE  LocksOK'
<1> USE SleepAssumption DEF Types, LocksOK, PcOK, LocalsOK, LinkOK, HoldsR, HoldsP, Agents
<1>1. ASSUME NEW p \in Procs, NEW r \in Rendezes, sleep(p, r) PROVE LocksOK'
  BY <1>1 DEF sleep, Runs, MayUse, Goto, links, timer
<1>2. ASSUME NEW p \in Procs, NEW r \in Rendezes, tsleep(p, r) PROVE LocksOK'
  BY <1>2 DEF tsleep, Runs, MayUse, Goto, links
<1>3. ASSUME NEW p \in Procs, sleepLockr(p) PROVE LocksOK'
  BY <1>3 DEF sleepLockr, Goto, links, timer
<1>4. ASSUME NEW p \in Procs, sleepLockp(p) PROVE LocksOK'
  BY <1>4 DEF sleepLockp, Goto, timer
<1>5. ASSUME NEW p \in Procs, sleepNot(p) PROVE LocksOK'
  BY <1>5 DEF sleepNot, unlockboth, Goto, timer
<1>6. ASSUME NEW p \in Procs, sleepCommit(p) PROVE LocksOK'
  BY <1>6 DEF sleepCommit, f, Goto, timer
<1>7. ASSUME NEW p \in Procs, sleepUnlock(p) PROVE LocksOK'
  BY <1>7 DEF sleepUnlock, unlockboth, Goto, links, timer
<1>8. ASSUME NEW p \in Procs, schedinit(p) PROVE LocksOK'
  BY <1>8 DEF schedinit, Goto, timer
<1>9. ASSUME NEW p \in Procs, NEW m \in Machs, runproc(p, m) PROVE LocksOK'
  BY <1>9 DEF runproc, Goto, timer
<1>10. ASSUME NEW p \in Procs, sleepEintr(p) PROVE LocksOK'
  BY <1>10 DEF sleepEintr, return, Goto, Done, links, timer
<1>11. ASSUME NEW p \in Procs, sleepReturn(p) PROVE LocksOK'
  BY <1>11 DEF sleepReturn, return, Goto, Done, links, timer
<1>12. ASSUME NEW p \in Procs, tsleepReturn(p) PROVE LocksOK'
  BY <1>12 DEF tsleepReturn, Done, links
<1>13. ASSUME NEW w \in Wakers, NEW r \in Rendezes, event(w, r) PROVE LocksOK'
  BY <1>13 DEF event, Goto, links, timer
<1>14. ASSUME NEW a \in Wakers \cup Machs, wakeup(a) PROVE LocksOK'
  BY <1>14 DEF wakeup, Goto, links, timer
<1>15. ASSUME NEW a \in Wakers \cup Machs, wakeupNone(a) PROVE LocksOK'
  BY <1>15 DEF wakeupNone, Done, links, timer
<1>16. ASSUME NEW a \in Wakers \cup Machs, wakeupLockp(a) PROVE LocksOK'
  BY <1>16 DEF wakeupLockp, Goto, links, timer
<1>17. ASSUME NEW a \in Wakers \cup Machs, wakeupTake(a) PROVE LocksOK'
  BY <1>17 DEF wakeupTake, unlockboth, Goto, timer
<1>18. ASSUME NEW a \in Wakers \cup Machs \cup Noters, ready(a) PROVE LocksOK'
  BY <1>18 DEF ready, Done, timer
<1>19. ASSUME NEW n \in Noters, NEW p \in Procs, postnote(n, p) PROVE LocksOK'
  BY <1>19 DEF postnote, Goto, links, timer
<1>20. ASSUME NEW n \in Noters, postnoteLockp(n) PROVE LocksOK'
  BY <1>20 DEF postnoteLockp, Goto, links, timer
<1>21. ASSUME NEW n \in Noters, postnoteNone(n) PROVE LocksOK'
  BY <1>21 DEF postnoteNone, Done, links, timer
<1>22. ASSUME NEW n \in Noters, postnoteRetry(n) PROVE LocksOK'
  BY <1>22 DEF postnoteRetry, Goto, links, timer
<1>23. ASSUME NEW n \in Noters, postnoteTake(n) PROVE LocksOK'
  BY <1>23 DEF postnoteTake, Goto, timer
<1>24. ASSUME NEW m \in Machs, NEW p \in Procs, timerintr(m, p) PROVE LocksOK'
  BY <1>24 DEF timerintr, Goto, links
<1>25. ASSUME NEW m \in Machs, twakeup(m) PROVE LocksOK'
  BY <1>25 DEF twakeup, Goto, links, timer
<1>26. ASSUME NEW m \in Machs, twakeupClear(m) PROVE LocksOK'
  BY <1>26 DEF twakeupClear, Done, Goto, links
<1>27. CASE UNCHANGED vars
  BY <1>27 DEF vars
<1> QED BY <1>1, <1>2, <1>3, <1>4, <1>5, <1>6, <1>7, <1>8, <1>9, <1>10, <1>11, <1>12, <1>13, <1>14, <1>15, <1>16, <1>17, <1>18, <1>19, <1>20, <1>21, <1>22, <1>23, <1>24, <1>25, <1>26, <1>27 DEF Next, Call, Expire, Spin, Step

\* The locals stay set where they are used, and true while the locks are held.
LEMMA NextLocals ==
  ASSUME Types, LocksOK, PcOK, LocalsOK, LinkOK, [Next]_vars
  PROVE  LocalsOK'
<1> USE SleepAssumption DEF Types, LocksOK, PcOK, LocalsOK, LinkOK, HoldsR, HoldsP, Agents
<1>1. ASSUME NEW p \in Procs, NEW r \in Rendezes, sleep(p, r) PROVE LocalsOK'
  BY <1>1 DEF sleep, Runs, MayUse, Goto, links, timer
<1>2. ASSUME NEW p \in Procs, NEW r \in Rendezes, tsleep(p, r) PROVE LocalsOK'
  BY <1>2 DEF tsleep, Runs, MayUse, Goto, links
<1>3. ASSUME NEW p \in Procs, sleepLockr(p) PROVE LocalsOK'
  BY <1>3 DEF sleepLockr, Goto, links, timer
<1>4. ASSUME NEW p \in Procs, sleepLockp(p) PROVE LocalsOK'
  BY <1>4 DEF sleepLockp, Goto, timer
<1>5. ASSUME NEW p \in Procs, sleepNot(p) PROVE LocalsOK'
  BY <1>5 DEF sleepNot, unlockboth, Goto, timer
<1>6. ASSUME NEW p \in Procs, sleepCommit(p) PROVE LocalsOK'
  BY <1>6 DEF sleepCommit, f, Goto, timer
<1>7. ASSUME NEW p \in Procs, sleepUnlock(p) PROVE LocalsOK'
  BY <1>7 DEF sleepUnlock, unlockboth, Goto, links, timer
<1>8. ASSUME NEW p \in Procs, schedinit(p) PROVE LocalsOK'
  BY <1>8 DEF schedinit, Goto, timer
<1>9. ASSUME NEW p \in Procs, NEW m \in Machs, runproc(p, m) PROVE LocalsOK'
  BY <1>9 DEF runproc, Goto, timer
<1>10. ASSUME NEW p \in Procs, sleepEintr(p) PROVE LocalsOK'
  <2>1. CASE timed[p] /\ pc' = [pc EXCEPT ![p] = "tdel"] /\ UNCHANGED <<arg, vic>>
    BY <1>10, <2>1 DEF sleepEintr, links, timer
  <2>2. CASE ~timed[p] /\ Done(p)
    BY <1>10, <2>2 DEF sleepEintr, links, timer, Done
  <2> QED BY <1>10, <2>1, <2>2 DEF sleepEintr, links, timer, return, Goto
<1>11. ASSUME NEW p \in Procs, sleepReturn(p) PROVE LocalsOK'
  <2>1. CASE timed[p] /\ pc' = [pc EXCEPT ![p] = "tdel"] /\ UNCHANGED <<arg, vic>>
    BY <1>11, <2>1 DEF sleepReturn, links, timer
  <2>2. CASE ~timed[p] /\ Done(p)
    BY <1>11, <2>2 DEF sleepReturn, links, timer, Done
  <2> QED BY <1>11, <2>1, <2>2 DEF sleepReturn, links, timer, return, Goto
<1>12. ASSUME NEW p \in Procs, tsleepReturn(p) PROVE LocalsOK'
  BY <1>12 DEF tsleepReturn, Done, links
<1>13. ASSUME NEW w \in Wakers, NEW r \in Rendezes, event(w, r) PROVE LocalsOK'
  BY <1>13 DEF event, Goto, links, timer
<1>14. ASSUME NEW a \in Wakers \cup Machs, wakeup(a) PROVE LocalsOK'
  BY <1>14 DEF wakeup, Goto, links, timer
<1>15. ASSUME NEW a \in Wakers \cup Machs, wakeupNone(a) PROVE LocalsOK'
  BY <1>15 DEF wakeupNone, Done, links, timer
<1>16. ASSUME NEW a \in Wakers \cup Machs, wakeupLockp(a) PROVE LocalsOK'
  BY <1>16 DEF wakeupLockp, Goto, links, timer
<1>17. ASSUME NEW a \in Wakers \cup Machs, wakeupTake(a) PROVE LocalsOK'
  <2>1. \A b \in Agents \ {a} : pc[b] \in {"found", "both"} => arg[b] # arg[a]
    BY <1>17 DEF wakeupTake
  <2>2. \A b \in Agents \ {a} : pc[b] = "try" => vic[b] # vic[a]
    BY SMTT(30), <1>17 DEF wakeupTake
  <2> QED BY <1>17, <2>1, <2>2 DEF wakeupTake, Goto
<1>18. ASSUME NEW a \in Wakers \cup Machs \cup Noters, ready(a) PROVE LocalsOK'
  BY <1>18 DEF ready, Done, timer
<1>19. ASSUME NEW n \in Noters, NEW p \in Procs, postnote(n, p) PROVE LocalsOK'
  BY <1>19 DEF postnote, Goto, links, timer
<1>20. ASSUME NEW n \in Noters, postnoteLockp(n) PROVE LocalsOK'
  BY <1>20 DEF postnoteLockp, Goto, links, timer
<1>21. ASSUME NEW n \in Noters, postnoteNone(n) PROVE LocalsOK'
  BY <1>21 DEF postnoteNone, Done, links, timer
<1>22. ASSUME NEW n \in Noters, postnoteRetry(n) PROVE LocalsOK'
  BY <1>22 DEF postnoteRetry, Goto, links, timer
<1>23. ASSUME NEW n \in Noters, postnoteTake(n) PROVE LocalsOK'
  <2>1. \A b \in Agents \ {n} : pc[b] \in {"found", "both"} => arg[b] # arg[n]
    BY <1>23 DEF postnoteTake
  <2>2. \A b \in Agents \ {n} : pc[b] = "try" => vic[b] # vic[n]
    <3>1. vic[n] \in Procs /\ n \in Agents /\ HoldsP(n, vic[n])
      BY <1>23 DEF postnoteTake
    <3>2. lk[vic[n]] = n
      BY <3>1
    <3>3. ASSUME NEW b \in Agents, pc[b] = "try", vic[b] = vic[n] PROVE b = n
      <4>1. HoldsP(b, vic[n])
        BY <3>3
      <4> QED BY <3>1, <3>2, <4>1
    <3> QED BY <3>3
  <2> QED BY <1>23, <2>1, <2>2 DEF postnoteTake, Goto
<1>24. ASSUME NEW m \in Machs, NEW p \in Procs, timerintr(m, p) PROVE LocalsOK'
  BY <1>24 DEF timerintr, Goto, links
<1>25. ASSUME NEW m \in Machs, twakeup(m) PROVE LocalsOK'
  BY <1>25 DEF twakeup, Goto, links, timer
<1>26. ASSUME NEW m \in Machs, twakeupClear(m) PROVE LocalsOK'
  <2>1. CASE arg[m] = nil /\ Done(m)
    BY <1>26, <2>1 DEF twakeupClear, Done, links
  <2>2. CASE arg[m] # nil /\ Goto(m, "wakeup") /\ UNCHANGED <<arg, vic>>
    BY <1>26, <2>2 DEF twakeupClear, Goto, links
  <2> QED BY <1>26, <2>1, <2>2 DEF twakeupClear
<1>27. CASE UNCHANGED vars
  BY <1>27 DEF vars
<1> QED BY <1>1, <1>2, <1>3, <1>4, <1>5, <1>6, <1>7, <1>8, <1>9, <1>10, <1>11, <1>12, <1>13, <1>14, <1>15, <1>16, <1>17, <1>18, <1>19, <1>20, <1>21, <1>22, <1>23, <1>24, <1>25, <1>26, <1>27 DEF Next, Call, Expire, Spin, Step

\* If the callers serialise their sleeps, a Rendez has one user.
LEMMA NextAlone ==
  ASSUME Serialised, Types, PcOK, LocalsOK, AloneOK, [Next]_vars
  PROVE  AloneOK'
<1> USE SleepAssumption DEF Types, PcOK, LocalsOK, AloneOK, Agents
<1>1. ASSUME NEW p \in Procs, NEW r \in Rendezes, sleep(p, r) PROVE AloneOK'
  BY <1>1 DEF sleep, Runs, MayUse, Goto, links, timer
<1>2. ASSUME NEW p \in Procs, NEW r \in Rendezes, tsleep(p, r) PROVE AloneOK'
  BY <1>2 DEF tsleep, Runs, MayUse, Goto, links
<1>3. ASSUME NEW p \in Procs, sleepLockr(p) PROVE AloneOK'
  BY <1>3 DEF sleepLockr, Goto, links, timer
<1>4. ASSUME NEW p \in Procs, sleepLockp(p) PROVE AloneOK'
  BY <1>4 DEF sleepLockp, Goto, timer
<1>5. ASSUME NEW p \in Procs, sleepNot(p) PROVE AloneOK'
  BY <1>5 DEF sleepNot, unlockboth, Goto, timer
<1>6. ASSUME NEW p \in Procs, sleepCommit(p) PROVE AloneOK'
  BY <1>6 DEF sleepCommit, f, Goto, timer
<1>7. ASSUME NEW p \in Procs, sleepUnlock(p) PROVE AloneOK'
  BY <1>7 DEF sleepUnlock, unlockboth, Goto, links, timer
<1>8. ASSUME NEW p \in Procs, schedinit(p) PROVE AloneOK'
  BY <1>8 DEF schedinit, Goto, timer
<1>9. ASSUME NEW p \in Procs, NEW m \in Machs, runproc(p, m) PROVE AloneOK'
  BY <1>9 DEF runproc, Goto, timer
<1>10. ASSUME NEW p \in Procs, sleepEintr(p) PROVE AloneOK'
  BY <1>10 DEF sleepEintr, return, Goto, Done, links, timer
<1>11. ASSUME NEW p \in Procs, sleepReturn(p) PROVE AloneOK'
  BY <1>11 DEF sleepReturn, return, Goto, Done, links, timer
<1>12. ASSUME NEW p \in Procs, tsleepReturn(p) PROVE AloneOK'
  BY <1>12 DEF tsleepReturn, Done, links
<1>13. ASSUME NEW w \in Wakers, NEW r \in Rendezes, event(w, r) PROVE AloneOK'
  BY <1>13 DEF event, Goto, links, timer
<1>14. ASSUME NEW a \in Wakers \cup Machs, wakeup(a) PROVE AloneOK'
  BY <1>14 DEF wakeup, Goto, links, timer
<1>15. ASSUME NEW a \in Wakers \cup Machs, wakeupNone(a) PROVE AloneOK'
  BY <1>15 DEF wakeupNone, Done, links, timer
<1>16. ASSUME NEW a \in Wakers \cup Machs, wakeupLockp(a) PROVE AloneOK'
  BY <1>16 DEF wakeupLockp, Goto, links, timer
<1>17. ASSUME NEW a \in Wakers \cup Machs, wakeupTake(a) PROVE AloneOK'
  BY <1>17 DEF wakeupTake, unlockboth, Goto, timer
<1>18. ASSUME NEW a \in Wakers \cup Machs \cup Noters, ready(a) PROVE AloneOK'
  BY <1>18 DEF ready, Done, timer
<1>19. ASSUME NEW n \in Noters, NEW p \in Procs, postnote(n, p) PROVE AloneOK'
  BY <1>19 DEF postnote, Goto, links, timer
<1>20. ASSUME NEW n \in Noters, postnoteLockp(n) PROVE AloneOK'
  BY <1>20 DEF postnoteLockp, Goto, links, timer
<1>21. ASSUME NEW n \in Noters, postnoteNone(n) PROVE AloneOK'
  BY <1>21 DEF postnoteNone, Done, links, timer
<1>22. ASSUME NEW n \in Noters, postnoteRetry(n) PROVE AloneOK'
  BY <1>22 DEF postnoteRetry, Goto, links, timer
<1>23. ASSUME NEW n \in Noters, postnoteTake(n) PROVE AloneOK'
  BY <1>23 DEF postnoteTake, Goto, timer
<1>24. ASSUME NEW m \in Machs, NEW p \in Procs, timerintr(m, p) PROVE AloneOK'
  BY <1>24 DEF timerintr, Goto, links
<1>25. ASSUME NEW m \in Machs, twakeup(m) PROVE AloneOK'
  BY <1>25 DEF twakeup, Goto, links, timer
<1>26. ASSUME NEW m \in Machs, twakeupClear(m) PROVE AloneOK'
  BY <1>26 DEF twakeupClear, Done, Goto, links
<1>27. CASE UNCHANGED vars
  BY <1>27 DEF vars
<1> QED BY <1>1, <1>2, <1>3, <1>4, <1>5, <1>6, <1>7, <1>8, <1>9, <1>10, <1>11, <1>12, <1>13, <1>14, <1>15, <1>16, <1>17, <1>18, <1>19, <1>20, <1>21, <1>22, <1>23, <1>24, <1>25, <1>26, <1>27 DEF Next, Call, Expire, Spin, Step

\* Every step keeps r->p and p->r linked.
LEMMA NextLink ==
  ASSUME Types, LocksOK, PcOK, LocalsOK, AloneOK, LinkOK, ReadyOK, [Next]_vars
  PROVE  LinkOK'
<1> USE SleepAssumption DEF Types, LocksOK, PcOK, LocalsOK, AloneOK, LinkOK, ReadyOK, Away, HoldsR, HoldsP, Agents
<1>1. ASSUME NEW p \in Procs, NEW r \in Rendezes, sleep(p, r) PROVE LinkOK'
  BY <1>1 DEF sleep, Runs, MayUse, Goto, links, timer
<1>2. ASSUME NEW p \in Procs, NEW r \in Rendezes, tsleep(p, r) PROVE LinkOK'
  BY <1>2 DEF tsleep, Runs, MayUse, Goto, links
<1>3. ASSUME NEW p \in Procs, sleepLockr(p) PROVE LinkOK'
  BY <1>3 DEF sleepLockr, Goto, links, timer
<1>4. ASSUME NEW p \in Procs, sleepLockp(p) PROVE LinkOK'
  BY <1>4 DEF sleepLockp, Goto, timer
<1>5. ASSUME NEW p \in Procs, sleepNot(p) PROVE LinkOK'
  BY <1>5 DEF sleepNot, unlockboth, Goto, timer
<1>6. ASSUME NEW p \in Procs, sleepCommit(p) PROVE LinkOK'
  BY <1>6 DEF sleepCommit, f, Goto, timer
<1>7. ASSUME NEW p \in Procs, sleepUnlock(p) PROVE LinkOK'
  BY <1>7 DEF sleepUnlock, unlockboth, Goto, links, timer
<1>8. ASSUME NEW p \in Procs, schedinit(p) PROVE LinkOK'
  BY <1>8 DEF schedinit, Goto, timer
<1>9. ASSUME NEW p \in Procs, NEW m \in Machs, runproc(p, m) PROVE LinkOK'
  BY SMTT(30), <1>9 DEF runproc, Goto, timer
<1>10. ASSUME NEW p \in Procs, sleepEintr(p) PROVE LinkOK'
  <2>1. CASE timed[p] /\ pc' = [pc EXCEPT ![p] = "tdel"] /\ UNCHANGED <<arg, vic>>
    BY <1>10, <2>1 DEF sleepEintr, links, timer
  <2>2. CASE ~timed[p] /\ Done(p)
    BY <1>10, <2>2 DEF sleepEintr, links, timer, Done
  <2> QED BY <1>10, <2>1, <2>2 DEF sleepEintr, links, timer, return, Goto
<1>11. ASSUME NEW p \in Procs, sleepReturn(p) PROVE LinkOK'
  <2>1. CASE timed[p] /\ pc' = [pc EXCEPT ![p] = "tdel"] /\ UNCHANGED <<arg, vic>>
    BY <1>11, <2>1 DEF sleepReturn, links, timer
  <2>2. CASE ~timed[p] /\ Done(p)
    BY <1>11, <2>2 DEF sleepReturn, links, timer, Done
  <2> QED BY <1>11, <2>1, <2>2 DEF sleepReturn, links, timer, return, Goto
<1>12. ASSUME NEW p \in Procs, tsleepReturn(p) PROVE LinkOK'
  <2>1. pr[p] = nil
    BY <1>12 DEF tsleepReturn
  <2>2. \A r \in Rendezes : rp[r] # p
    BY <1>12, <2>1 DEF tsleepReturn
  <2> QED BY <1>12, <2>1, <2>2 DEF tsleepReturn, Done, links
<1>13. ASSUME NEW w \in Wakers, NEW r \in Rendezes, event(w, r) PROVE LinkOK'
  BY <1>13 DEF event, Goto, links, timer
<1>14. ASSUME NEW a \in Wakers \cup Machs, wakeup(a) PROVE LinkOK'
  BY <1>14 DEF wakeup, Goto, links, timer
<1>15. ASSUME NEW a \in Wakers \cup Machs, wakeupNone(a) PROVE LinkOK'
  BY <1>15 DEF wakeupNone, Done, links, timer
<1>16. ASSUME NEW a \in Wakers \cup Machs, wakeupLockp(a) PROVE LinkOK'
  BY <1>16 DEF wakeupLockp, Goto, links, timer
<1>17. ASSUME NEW a \in Wakers \cup Machs, wakeupTake(a) PROVE LinkOK'
  BY <1>17 DEF wakeupTake, unlockboth, Goto, timer
<1>18. ASSUME NEW a \in Wakers \cup Machs \cup Noters, ready(a) PROVE LinkOK'
  BY <1>18 DEF ready, Done, timer
<1>19. ASSUME NEW n \in Noters, NEW p \in Procs, postnote(n, p) PROVE LinkOK'
  BY <1>19 DEF postnote, Goto, links, timer
<1>20. ASSUME NEW n \in Noters, postnoteLockp(n) PROVE LinkOK'
  BY <1>20 DEF postnoteLockp, Goto, links, timer
<1>21. ASSUME NEW n \in Noters, postnoteNone(n) PROVE LinkOK'
  BY <1>21 DEF postnoteNone, Done, links, timer
<1>22. ASSUME NEW n \in Noters, postnoteRetry(n) PROVE LinkOK'
  BY <1>22 DEF postnoteRetry, Goto, links, timer
<1>23. ASSUME NEW n \in Noters, postnoteTake(n) PROVE LinkOK'
  BY <1>23 DEF postnoteTake, Goto, timer
<1>24. ASSUME NEW m \in Machs, NEW p \in Procs, timerintr(m, p) PROVE LinkOK'
  BY <1>24 DEF timerintr, Goto, links
<1>25. ASSUME NEW m \in Machs, twakeup(m) PROVE LinkOK'
  BY <1>25 DEF twakeup, Goto, links, timer
<1>26. ASSUME NEW m \in Machs, twakeupClear(m) PROVE LinkOK'
  <2>1. CASE arg[m] = nil /\ Done(m)
    BY <1>26, <2>1 DEF twakeupClear, Done, links
  <2>2. CASE arg[m] # nil /\ Goto(m, "wakeup") /\ UNCHANGED <<arg, vic>>
    BY <1>26, <2>2 DEF twakeupClear, Goto, links
  <2> QED BY <1>26, <2>1, <2>2 DEF twakeupClear
<1>27. CASE UNCHANGED vars
  BY <1>27 DEF vars
<1> QED BY <1>1, <1>2, <1>3, <1>4, <1>5, <1>6, <1>7, <1>8, <1>9, <1>10, <1>11, <1>12, <1>13, <1>14, <1>15, <1>16, <1>17, <1>18, <1>19, <1>20, <1>21, <1>22, <1>23, <1>24, <1>25, <1>26, <1>27 DEF Next, Call, Expire, Spin, Step

\* Every step keeps a process readied once.
LEMMA NextReady ==
  ASSUME Types, LocksOK, PcOK, LocalsOK, LinkOK, ReadyOK, [Next]_vars
  PROVE  ReadyOK'
<1> USE SleepAssumption DEF Types, LocksOK, PcOK, LocalsOK, LinkOK, ReadyOK, Away, HoldsR, HoldsP, Agents
<1>1. ASSUME NEW p \in Procs, NEW r \in Rendezes, sleep(p, r) PROVE ReadyOK'
  BY <1>1 DEF sleep, Runs, MayUse, Goto, links, timer
<1>2. ASSUME NEW p \in Procs, NEW r \in Rendezes, tsleep(p, r) PROVE ReadyOK'
  BY <1>2 DEF tsleep, Runs, MayUse, Goto, links
<1>3. ASSUME NEW p \in Procs, sleepLockr(p) PROVE ReadyOK'
  BY <1>3 DEF sleepLockr, Goto, links, timer
<1>4. ASSUME NEW p \in Procs, sleepLockp(p) PROVE ReadyOK'
  BY <1>4 DEF sleepLockp, Goto, timer
<1>5. ASSUME NEW p \in Procs, sleepNot(p) PROVE ReadyOK'
  BY <1>5 DEF sleepNot, unlockboth, Goto, timer
<1>6. ASSUME NEW p \in Procs, sleepCommit(p) PROVE ReadyOK'
  BY <1>6 DEF sleepCommit, f, Goto, timer
<1>7. ASSUME NEW p \in Procs, sleepUnlock(p) PROVE ReadyOK'
  BY <1>7 DEF sleepUnlock, unlockboth, Goto, links, timer
<1>8. ASSUME NEW p \in Procs, schedinit(p) PROVE ReadyOK'
  BY <1>8 DEF schedinit, Goto, timer
<1>9. ASSUME NEW p \in Procs, NEW m \in Machs, runproc(p, m) PROVE ReadyOK'
  BY <1>9 DEF runproc, Goto, timer
<1>10. ASSUME NEW p \in Procs, sleepEintr(p) PROVE ReadyOK'
  <2>1. CASE timed[p] /\ pc' = [pc EXCEPT ![p] = "tdel"] /\ UNCHANGED <<arg, vic>>
    BY <1>10, <2>1 DEF sleepEintr, links, timer
  <2>2. CASE ~timed[p] /\ Done(p)
    BY <1>10, <2>2 DEF sleepEintr, links, timer, Done
  <2> QED BY <1>10, <2>1, <2>2 DEF sleepEintr, links, timer, return, Goto
<1>11. ASSUME NEW p \in Procs, sleepReturn(p) PROVE ReadyOK'
  <2>1. CASE timed[p] /\ pc' = [pc EXCEPT ![p] = "tdel"] /\ UNCHANGED <<arg, vic>>
    BY <1>11, <2>1 DEF sleepReturn, links, timer
  <2>2. CASE ~timed[p] /\ Done(p)
    BY <1>11, <2>2 DEF sleepReturn, links, timer, Done
  <2> QED BY <1>11, <2>1, <2>2 DEF sleepReturn, links, timer, return, Goto
<1>12. ASSUME NEW p \in Procs, tsleepReturn(p) PROVE ReadyOK'
  BY <1>12 DEF tsleepReturn, Done, links
<1>13. ASSUME NEW w \in Wakers, NEW r \in Rendezes, event(w, r) PROVE ReadyOK'
  BY <1>13 DEF event, Goto, links, timer
<1>14. ASSUME NEW a \in Wakers \cup Machs, wakeup(a) PROVE ReadyOK'
  BY <1>14 DEF wakeup, Goto, links, timer
<1>15. ASSUME NEW a \in Wakers \cup Machs, wakeupNone(a) PROVE ReadyOK'
  BY <1>15 DEF wakeupNone, Done, links, timer
<1>16. ASSUME NEW a \in Wakers \cup Machs, wakeupLockp(a) PROVE ReadyOK'
  BY <1>16 DEF wakeupLockp, Goto, links, timer
<1>17. ASSUME NEW a \in Wakers \cup Machs, wakeupTake(a) PROVE ReadyOK'
  BY <1>17 DEF wakeupTake, unlockboth, Goto, timer
<1>18. ASSUME NEW a \in Wakers \cup Machs \cup Noters, ready(a) PROVE ReadyOK'
  BY <1>18 DEF ready, Done, timer
<1>19. ASSUME NEW n \in Noters, NEW p \in Procs, postnote(n, p) PROVE ReadyOK'
  BY <1>19 DEF postnote, Goto, links, timer
<1>20. ASSUME NEW n \in Noters, postnoteLockp(n) PROVE ReadyOK'
  BY <1>20 DEF postnoteLockp, Goto, links, timer
<1>21. ASSUME NEW n \in Noters, postnoteNone(n) PROVE ReadyOK'
  BY <1>21 DEF postnoteNone, Done, links, timer
<1>22. ASSUME NEW n \in Noters, postnoteRetry(n) PROVE ReadyOK'
  BY <1>22 DEF postnoteRetry, Goto, links, timer
<1>23. ASSUME NEW n \in Noters, postnoteTake(n) PROVE ReadyOK'
  BY <1>23 DEF postnoteTake, Goto, timer
<1>24. ASSUME NEW m \in Machs, NEW p \in Procs, timerintr(m, p) PROVE ReadyOK'
  BY <1>24 DEF timerintr, Goto, links
<1>25. ASSUME NEW m \in Machs, twakeup(m) PROVE ReadyOK'
  BY <1>25 DEF twakeup, Goto, links, timer
<1>26. ASSUME NEW m \in Machs, twakeupClear(m) PROVE ReadyOK'
  <2>1. CASE arg[m] = nil /\ Done(m)
    BY <1>26, <2>1 DEF twakeupClear, Done, links
  <2>2. CASE arg[m] # nil /\ Goto(m, "wakeup") /\ UNCHANGED <<arg, vic>>
    BY <1>26, <2>2 DEF twakeupClear, Goto, links
  <2> QED BY <1>26, <2>1, <2>2 DEF twakeupClear
<1>27. CASE UNCHANGED vars
  BY <1>27 DEF vars
<1> QED BY SMTT(30), <1>1, <1>2, <1>3, <1>4, <1>5, <1>6, <1>7, <1>8, <1>9, <1>10, <1>11, <1>12, <1>13, <1>14, <1>15, <1>16, <1>17, <1>18, <1>19, <1>20, <1>21, <1>22, <1>23, <1>24, <1>25, <1>26, <1>27 DEF Next, Call, Expire, Spin, Step

\* No step loses a wakeup.
LEMMA NextWakeup ==
  ASSUME Types, LocksOK, PcOK, LocalsOK, LinkOK, NoLostWakeup, [Next]_vars
  PROVE  NoLostWakeup'
<1> USE SleepAssumption DEF Types, PcOK, LocalsOK, LinkOK, NoLostWakeup, Asleep, Agents
<1>1. ASSUME NEW p \in Procs, NEW r \in Rendezes, sleep(p, r) PROVE NoLostWakeup'
  BY <1>1 DEF sleep, Runs, MayUse, Goto, links, timer
<1>2. ASSUME NEW p \in Procs, NEW r \in Rendezes, tsleep(p, r) PROVE NoLostWakeup'
  BY <1>2 DEF tsleep, Runs, MayUse, Goto, links
<1>3. ASSUME NEW p \in Procs, sleepLockr(p) PROVE NoLostWakeup'
  BY <1>3 DEF sleepLockr, Goto, links, timer
<1>4. ASSUME NEW p \in Procs, sleepLockp(p) PROVE NoLostWakeup'
  BY <1>4 DEF sleepLockp, Goto, timer
<1>5. ASSUME NEW p \in Procs, sleepNot(p) PROVE NoLostWakeup'
  BY <1>5 DEF sleepNot, unlockboth, Goto, timer
<1>6. ASSUME NEW p \in Procs, sleepCommit(p) PROVE NoLostWakeup'
  BY <1>6 DEF sleepCommit, f, Goto, timer
<1>7. ASSUME NEW p \in Procs, sleepUnlock(p) PROVE NoLostWakeup'
  BY <1>7 DEF sleepUnlock, unlockboth, Goto, links, timer
<1>8. ASSUME NEW p \in Procs, schedinit(p) PROVE NoLostWakeup'
  BY <1>8 DEF schedinit, Goto, timer
<1>9. ASSUME NEW p \in Procs, NEW m \in Machs, runproc(p, m) PROVE NoLostWakeup'
  BY <1>9 DEF runproc, Goto, timer
<1>10. ASSUME NEW p \in Procs, sleepEintr(p) PROVE NoLostWakeup'
  <2>1. CASE timed[p] /\ pc' = [pc EXCEPT ![p] = "tdel"] /\ UNCHANGED <<arg, vic>>
    BY <1>10, <2>1 DEF sleepEintr, links, timer
  <2>2. CASE ~timed[p] /\ Done(p)
    BY <1>10, <2>2 DEF sleepEintr, links, timer, Done
  <2> QED BY <1>10, <2>1, <2>2 DEF sleepEintr, links, timer, return, Goto
<1>11. ASSUME NEW p \in Procs, sleepReturn(p) PROVE NoLostWakeup'
  <2>1. CASE timed[p] /\ pc' = [pc EXCEPT ![p] = "tdel"] /\ UNCHANGED <<arg, vic>>
    BY <1>11, <2>1 DEF sleepReturn, links, timer
  <2>2. CASE ~timed[p] /\ Done(p)
    BY <1>11, <2>2 DEF sleepReturn, links, timer, Done
  <2> QED BY <1>11, <2>1, <2>2 DEF sleepReturn, links, timer, return, Goto
<1>12. ASSUME NEW p \in Procs, tsleepReturn(p) PROVE NoLostWakeup'
  BY <1>12 DEF tsleepReturn, Done, links
<1>13. ASSUME NEW w \in Wakers, NEW r \in Rendezes, event(w, r) PROVE NoLostWakeup'
  BY <1>13 DEF event, Goto, links, timer
<1>14. ASSUME NEW a \in Wakers \cup Machs, wakeup(a) PROVE NoLostWakeup'
  BY <1>14 DEF wakeup, Goto, links, timer
<1>15. ASSUME NEW a \in Wakers \cup Machs, wakeupNone(a) PROVE NoLostWakeup'
  BY <1>15 DEF wakeupNone, Done, links, timer
<1>16. ASSUME NEW a \in Wakers \cup Machs, wakeupLockp(a) PROVE NoLostWakeup'
  BY <1>16 DEF wakeupLockp, Goto, links, timer
<1>17. ASSUME NEW a \in Wakers \cup Machs, wakeupTake(a) PROVE NoLostWakeup'
  BY SMTT(30), <1>17 DEF wakeupTake, unlockboth, Goto, timer
<1>18. ASSUME NEW a \in Wakers \cup Machs \cup Noters, ready(a) PROVE NoLostWakeup'
  BY <1>18 DEF ready, Done, timer
<1>19. ASSUME NEW n \in Noters, NEW p \in Procs, postnote(n, p) PROVE NoLostWakeup'
  BY <1>19 DEF postnote, Goto, links, timer
<1>20. ASSUME NEW n \in Noters, postnoteLockp(n) PROVE NoLostWakeup'
  BY <1>20 DEF postnoteLockp, Goto, links, timer
<1>21. ASSUME NEW n \in Noters, postnoteNone(n) PROVE NoLostWakeup'
  BY <1>21 DEF postnoteNone, Done, links, timer
<1>22. ASSUME NEW n \in Noters, postnoteRetry(n) PROVE NoLostWakeup'
  BY <1>22 DEF postnoteRetry, Goto, links, timer
<1>23. ASSUME NEW n \in Noters, postnoteTake(n) PROVE NoLostWakeup'
  <2> SUFFICES ASSUME NEW q \in Procs, Asleep(q)'
      PROVE  /\ cond'[pr'[q]] => \E b \in Agents : arg'[b] = pr'[q] /\ pc'[b] \in {"wakeup", "found", "both"}
             /\ notepending'[q] => \E b \in Noters : vic'[b] = q /\ pc'[b] \in {"post", "try"}
    OBVIOUS
  <2>1. q # vic[n] /\ pr'[q] = pr[q] /\ Asleep(q)
    BY <1>23 DEF postnoteTake
  <2> QED BY <1>23, <2>1 DEF postnoteTake, Goto
<1>24. ASSUME NEW m \in Machs, NEW p \in Procs, timerintr(m, p) PROVE NoLostWakeup'
  BY <1>24 DEF timerintr, Goto, links
<1>25. ASSUME NEW m \in Machs, twakeup(m) PROVE NoLostWakeup'
  BY <1>25 DEF twakeup, Goto, links, timer
<1>26. ASSUME NEW m \in Machs, twakeupClear(m) PROVE NoLostWakeup'
  <2>1. CASE arg[m] = nil /\ Done(m)
    BY <1>26, <2>1 DEF twakeupClear, Done, links
  <2>2. CASE arg[m] # nil /\ Goto(m, "wakeup") /\ UNCHANGED <<arg, vic>>
    BY <1>26, <2>2 DEF twakeupClear, Goto, links
  <2> QED BY <1>26, <2>1, <2>2 DEF twakeupClear
<1>27. CASE UNCHANGED vars
  BY <1>27 DEF vars
<1> QED BY <1>1, <1>2, <1>3, <1>4, <1>5, <1>6, <1>7, <1>8, <1>9, <1>10, <1>11, <1>12, <1>13, <1>14, <1>15, <1>16, <1>17, <1>18, <1>19, <1>20, <1>21, <1>22, <1>23, <1>24, <1>25, <1>26, <1>27 DEF Next, Call, Expire, Spin, Step

-----------------------------------------------------------------------------
\* The kernel starts with nobody asleep, no lock held and no timer set.
LEMMA InitInv == Init => IndInv
<1> SUFFICES ASSUME Init PROVE IndInv
  OBVIOUS
<1> USE SleepAssumption DEF Init, Agents
<1>1. Types
  BY DEF Types, PCs
<1>2. LocksOK
  BY DEF LocksOK, HoldsR, HoldsP
<1>3. PcOK /\ LocalsOK /\ AloneOK
  BY DEF PcOK, LocalsOK, AloneOK
<1>4. LinkOK /\ ReadyOK /\ NoLostWakeup
  BY DEF LinkOK, ReadyOK, NoLostWakeup, Away, Asleep
<1> QED BY <1>1, <1>2, <1>3, <1>4, TypeParts DEF IndInv

\* Every step keeps the inductive invariant.
LEMMA NextInv == ASSUME Serialised PROVE IndInv /\ [Next]_vars => IndInv'
<1> SUFFICES ASSUME IndInv, [Next]_vars PROVE IndInv'
  OBVIOUS
<1>1. Types /\ LocksOK
  BY TypeParts DEF IndInv
<1>2. Types' /\ LocksOK'
  BY <1>1, NextTypes, NextLocks DEF IndInv
<1>3. TypeOK'
  BY <1>2 DEF TypeOK, Types, LocksOK
<1>4. PcOK' /\ LocalsOK' /\ AloneOK'
  BY <1>1, NextPc, NextLocals, NextAlone DEF IndInv
<1>5. LinkOK' /\ ReadyOK' /\ NoLostWakeup'
  BY <1>1, NextLink, NextReady, NextWakeup DEF IndInv
<1> QED BY <1>3, <1>4, <1>5 DEF IndInv

\* The inductive invariant holds in every reachable state.
THEOREM Invariance == ASSUME Serialised PROVE Spec => []IndInv
BY InitInv, NextInv, PTL DEF Spec

-----------------------------------------------------------------------------
\* r->p and p->r stay synchronised, and the panics of wakeup and postnote are
\* unreachable, whatever the wakers, timers and notes do.
THEOREM Synchronised == ASSUME Serialised PROVE Spec => []Linked
<1>1. IndInv => Linked
  <2> SUFFICES ASSUME IndInv PROVE Linked
    OBVIOUS
  <2> USE SleepAssumption DEF IndInv
  <2>1. Types /\ LocksOK
    BY TypeParts
  <2> USE DEF Types, Agents
  <2>2. ASSUME NEW p \in Procs, NEW r \in Rendezes
        PROVE  /\ pr[p] = r => rp[r] = p /\ state[p] = "Wakeme"
               /\ rp[r] = p /\ lk[r] = nil => pr[p] = r
    <3>1. pr[p] = r => rp[r] = p /\ state[p] = "Wakeme"
      BY <2>1 DEF LinkOK
    <3>2. ASSUME rp[r] = p, lk[r] = nil PROVE pr[p] = r
      <4>1. pc[p] # "test" \/ arg[p] # r
        BY <2>1, <3>2 DEF LocksOK, HoldsR
      <4> QED BY <2>1, <3>2, <4>1 DEF LinkOK
    <3> QED BY <3>1, <3>2
  <2>3. ASSUME NEW a \in Agents, pc[a] = "both" PROVE state[vic[a]] = "Wakeme" /\ pr[vic[a]] = arg[a]
    <3>1. arg[a] \in Rendezes /\ vic[a] \in Procs /\ vic[a] = rp[arg[a]] /\ lk[arg[a]] = a
      BY <2>1, <2>3 DEF LocalsOK, LocksOK, HoldsR
    <3>2. a \notin Procs
      BY <2>3 DEF PcOK
    <3>3. pc[vic[a]] # "test" \/ arg[vic[a]] # arg[a]
      BY <2>1, <3>1, <3>2 DEF LocksOK, HoldsR
    <3> QED BY <2>1, <3>1, <3>3 DEF LinkOK
  <2>4. ASSUME NEW a \in Agents, pc[a] = "try", arg[a] # nil
        PROVE  state[vic[a]] = "Wakeme" /\ rp[arg[a]] = vic[a]
    BY <2>1, <2>4 DEF LocalsOK, LinkOK
  <2> QED BY <2>2, <2>3, <2>4 DEF Linked
<1> QED BY <1>1, Invariance, PTL

\* A sleeper is readied once: wakeup, twakeup and postnote never both put it
\* in the run queue.
THEOREM ReadiedOnce == ASSUME Serialised PROVE Spec => []ReadyOnce
<1>1. IndInv => ReadyOnce
  <2> SUFFICES ASSUME IndInv, NEW p \in Procs
      PROVE  LET readiers == {a \in Agents : pc[a] = "ready" /\ vic[a] = p}
             IN  /\ runq[p] + Cardinality(readiers) <= 1
                 /\ readiers # {} => state[p] = "Wakeme" /\ ~Asleep(p)
                 /\ runq[p] = 1 <=> state[p] = "Ready"
    BY DEF ReadyOnce
  <2> DEFINE readiers == {a \in Agents : pc[a] = "ready" /\ vic[a] = p}
  <2>1. runq[p] \in {0, 1} /\ (runq[p] = 1 <=> state[p] = "Ready")
    BY DEF IndInv, ReadyOK, Away
  <2>2. CASE readiers = {}
    <3>1. Cardinality(readiers) = 0
      BY <2>2, FS_EmptySet
    <3> QED BY <2>1, <2>2, <3>1
  <2>3. CASE readiers # {}
    <3>1. PICK a \in Agents : pc[a] = "ready" /\ vic[a] = p
      BY <2>3
    <3>2. readiers = {a}
      BY <3>1 DEF IndInv, ReadyOK
    <3>3. Cardinality(readiers) = 1
      BY <3>2, FS_Singleton
    <3>4. state[p] = "Wakeme" /\ ~Asleep(p)
      BY <3>1 DEF IndInv, ReadyOK, Asleep
    <3>5. runq[p] = 0
      BY <2>1, <3>4
    <3>6. runq[p] + Cardinality(readiers) <= 1
      <4> HIDE DEF readiers
      <4> QED BY <3>3, <3>5
    <3> QED BY <2>1, <3>4, <3>6
  <2> QED BY <2>2, <2>3
<1> QED BY <1>1, Invariance, PTL

\* No wakeup is lost: a process that sleeps although its event has happened
\* or a note is pending has a waker or a postnote on its way to it.
THEOREM WakeupNotLost == ASSUME Serialised PROVE Spec => []NoLostWakeup
<1>1. IndInv => NoLostWakeup
  BY DEF IndInv
<1> QED BY <1>1, Invariance, PTL

=============================================================================

-------------------------------- MODULE Sema --------------------------------
(***************************************************************************)
(* User-level semaphores, sys/src/9/port/sysproc.c: semacquire,            *)
(* tsemacquire and semrelease on the wait list of one segment, which all   *)
(* the semaphores in that segment share.                                   *)
(*                                                                         *)
(* The list is touched only under lock(&s->sema), the values *addr only by *)
(* compare-and-swap outside it, and Sema.waiting by its owner at any time. *)
(* sleep and wakeup are the atomic operations that module Sleep shows them *)
(* to be; the window that remains is between clearing waiting and calling  *)
(* wakeup.                                                                 *)
(***************************************************************************)
EXTENDS Integers, Sequences, FiniteSets, SequencesExt

CONSTANTS
  Procs,     \* the processes that share the segment
  Addrs,     \* the semaphores in it
  Kinds,     \* the calls made: "block", "poll" (block == 0), "timed" (tsemacquire)
  MaxValue,  \* bound on a semaphore's value
  MaxDelta,  \* bound on what one semrelease adds
  none       \* the null pointer

ASSUME SemaAssumption ==
  /\ none \notin Procs \cup Addrs /\ IsFiniteSet(Procs)
  /\ Kinds \subseteq {"block", "poll", "timed"}
  /\ MaxValue \in Nat /\ MaxDelta \in Nat

VARIABLES
  value,        \* *addr, in user memory
  sema,         \* s->sema.Lock: the holder, or none
  list,         \* s->sema: the processes whose Sema is linked, in order
  waiting,      \* phore.waiting
  asleep,       \* p sleeps on &phore
  notepending,  \* p->notepending
  pc,           \* where each process is
  addr,         \* the argument addr of each process
  kind,         \* the kind of call each process is in
  n,            \* the local n of semwakeup
  cur           \* the local p of semwakeup, as a position in the list

semavars == <<value, sema, list, waiting, asleep, notepending, pc, addr, kind, n, cur>>
call == <<addr, kind>>
scan == <<n, cur>>

(***************************************************************************)
(* Control points.  semacquire: "try" the first canacquire; "queue" before *)
(* semqueue; "wait" the top of the loop; "last" the canacquire after       *)
(* waiting is set; "sleep" and "asleep"; "woke" back from sleep; "dequeue" *)
(* before semdequeue; "pass" after it.  semwakeup: "lock" before its lock; *)
(* "scan" at a list entry; "wake" about to call wakeup.                    *)
(***************************************************************************)
InList == {"wait", "last", "sleep", "asleep", "woke", "dequeue"}
InLock == {"scan", "wake"}
PCs == InList \cup InLock \cup {"idle", "try", "queue", "pass", "lock"}

(***************************************************************************)
(* Types; the lock is held by the process in the loop of semwakeup; and a  *)
(* Sema is linked exactly while its owner is between semqueue and          *)
(* semdequeue.                                                             *)
(***************************************************************************)
SemaTypeOK ==
  /\ value \in [Addrs -> 0..MaxValue]
  /\ sema \in Procs \cup {none}
  /\ list \in Seq(Procs) /\ IsInjective(list)
  /\ waiting \in [Procs -> BOOLEAN]
  /\ asleep \in [Procs -> BOOLEAN]
  /\ notepending \in [Procs -> BOOLEAN]
  /\ pc \in [Procs -> PCs]
  /\ addr \in [Procs -> Addrs \cup {none}]
  /\ kind \in [Procs -> {"block", "poll", "timed"}]
  /\ n \in [Procs -> 0..MaxDelta + 1]
  /\ cur \in [Procs -> Nat]
  /\ \A p \in Procs : sema = p <=> pc[p] \in InLock
  /\ \A p \in Procs : pc[p] \in InList => p \in ToSet(list)

SemaInit ==
  /\ value \in [Addrs -> 0..MaxValue]
  /\ sema = none
  /\ list = <<>>
  /\ waiting = [p \in Procs |-> FALSE]
  /\ asleep = [p \in Procs |-> FALSE]
  /\ notepending = [p \in Procs |-> FALSE]
  /\ pc = [p \in Procs |-> "idle"]
  /\ addr = [p \in Procs |-> none]
  /\ kind = [p \in Procs |-> "block"]
  /\ n = [p \in Procs |-> 0]
  /\ cur = [p \in Procs |-> 0]

Goto(p, l) == pc' = [pc EXCEPT ![p] = l]

\* The system call returns; its locals are gone.
Return(p) ==
  /\ Goto(p, "idle")
  /\ addr' = [addr EXCEPT ![p] = none]
  /\ kind' = [kind EXCEPT ![p] = "block"]
  /\ waiting' = [waiting EXCEPT ![p] = FALSE]

-----------------------------------------------------------------------------
(* semacquire and tsemacquire *)

syssemacquire(p, a, k) ==
  /\ pc[p] = "idle"
  /\ addr' = [addr EXCEPT ![p] = a]
  /\ kind' = [kind EXCEPT ![p] = k]
  /\ Goto(p, "try")
  /\ UNCHANGED <<value, sema, list, waiting, asleep, notepending, scan>>

\* canacquire(addr) returns 1: the compare-and-swap took one.
canacquire(p) ==
  /\ value[addr[p]] > 0
  /\ value' = [value EXCEPT ![addr[p]] = @ - 1]

cannotacquire(p) == ~(value[addr[p]] > 0) /\ UNCHANGED value

\* The semaphore is there at once, or the caller does not want to wait.
semacquireTry(p) ==
  /\ pc[p] = "try"
  /\ canacquire(p) \/ (cannotacquire(p) /\ kind[p] = "poll")
  /\ Return(p)
  /\ UNCHANGED <<sema, list, asleep, notepending, scan>>

semacquireBlock(p) ==
  /\ pc[p] = "try"
  /\ cannotacquire(p) /\ kind[p] # "poll"
  /\ Goto(p, "queue")
  /\ UNCHANGED <<sema, list, waiting, asleep, notepending, call, scan>>

\* semqueue: memset(p, 0), lock, link at the end, unlock.
semqueue(p) ==
  /\ pc[p] = "queue"
  /\ sema = none
  /\ waiting' = [waiting EXCEPT ![p] = FALSE]
  /\ list' = Append(list, p)
  /\ Goto(p, "wait")
  /\ UNCHANGED <<value, sema, asleep, notepending, call, scan>>

\* phore.waiting = 1
semacquireWait(p) ==
  /\ pc[p] = "wait"
  /\ waiting' = [waiting EXCEPT ![p] = TRUE]
  /\ Goto(p, "last")
  /\ UNCHANGED <<value, sema, list, asleep, notepending, call, scan>>

\* One last check of the semaphore before sleep.
semacquireLast(p) ==
  /\ pc[p] = "last"
  /\ \/ canacquire(p) /\ Goto(p, "dequeue")
     \/ cannotacquire(p) /\ Goto(p, "sleep")
  /\ UNCHANGED <<sema, list, waiting, asleep, notepending, call, scan>>

\* sleep(&phore, semawoke, &phore): sleep only while waiting is set and no
\* note is pending.
sleep(p) ==
  /\ pc[p] = "sleep"
  /\ \/ waiting[p] /\ ~notepending[p] /\ Goto(p, "asleep") /\ asleep' = [asleep EXCEPT ![p] = TRUE]
     \/ (~waiting[p] \/ notepending[p]) /\ Goto(p, "woke") /\ UNCHANGED asleep
  /\ UNCHANGED <<value, sema, list, waiting, notepending, call, scan>>

\* Somebody has woken p.
awake(p) ==
  /\ pc[p] = "asleep"
  /\ ~asleep[p]
  /\ Goto(p, "woke")
  /\ UNCHANGED <<value, sema, list, waiting, asleep, notepending, call, scan>>

\* sleep returns: go around the loop ...
semacquireLoop(p) ==
  /\ pc[p] = "woke"
  /\ ~notepending[p]
  /\ Goto(p, "wait")
  /\ UNCHANGED <<value, sema, list, waiting, asleep, notepending, call, scan>>

\* ... or tsemacquire's time is up ...
tsemacquireTimeout(p) ==
  /\ pc[p] = "woke"
  /\ ~notepending[p] /\ kind[p] = "timed"
  /\ Goto(p, "dequeue")
  /\ UNCHANGED <<value, sema, list, waiting, asleep, notepending, call, scan>>

\* ... or sleep raised Eintr.
semacquireEintr(p) ==
  /\ pc[p] = "woke"
  /\ notepending[p]
  /\ notepending' = [notepending EXCEPT ![p] = FALSE]
  /\ Goto(p, "dequeue")
  /\ UNCHANGED <<value, sema, list, waiting, asleep, call, scan>>

\* Mutant: the list is changed without its lock.
semdequeue_nolock(p) ==
  /\ pc[p] = "dequeue"
  /\ list' = RemoveFirst(list, p)
  /\ Goto(p, "pass")
  /\ UNCHANGED <<value, sema, waiting, asleep, notepending, call, scan>>

semdequeue(p) ==
  /\ pc[p] = "dequeue"
  /\ sema = none
  /\ list' = RemoveFirst(list, p)
  /\ Goto(p, "pass")
  /\ UNCHANGED <<value, sema, waiting, asleep, notepending, call, scan>>

\* Mutant: a wakeup that is not used is not passed on.
semacquirePass_never(p) ==
  /\ pc[p] = "pass"
  /\ Return(p)
  /\ UNCHANGED <<value, sema, list, asleep, notepending, scan>>

\* if(!phore.waiting) semwakeup(s, addr, 1): a wakeup arrived and was not used.
semacquirePass(p) ==
  /\ pc[p] = "pass"
  /\ \/ ~waiting[p] /\ Goto(p, "lock") /\ n' = [n EXCEPT ![p] = 1] /\ UNCHANGED <<waiting, call>>
     \/ waiting[p] /\ Return(p) /\ UNCHANGED n
  /\ UNCHANGED <<value, sema, list, asleep, notepending, cur>>

-----------------------------------------------------------------------------
(* semrelease *)

\* The compare-and-swap of semrelease, and on to semwakeup.
semrelease(p, a, delta) ==
  /\ pc[p] = "idle"
  /\ value[a] + delta <= MaxValue
  /\ value' = [value EXCEPT ![a] = @ + delta]
  /\ addr' = [addr EXCEPT ![p] = a]
  /\ n' = [n EXCEPT ![p] = delta]
  /\ Goto(p, "lock")
  /\ UNCHANGED <<sema, list, waiting, asleep, notepending, kind, cur>>

semwakeup(p) ==
  /\ pc[p] = "lock"
  /\ sema = none
  /\ sema' = p
  /\ cur' = [cur EXCEPT ![p] = 1]
  /\ Goto(p, "scan")
  /\ UNCHANGED <<value, list, waiting, asleep, notepending, call, n>>

\* The loop condition holds.
More(p) == cur[p] <= Len(list) /\ n[p] > 0

\* This entry waits for addr: p->waiting = 0, and on to wakeup(p).
semwakeupClear(p) ==
  /\ pc[p] = "scan"
  /\ More(p)
  /\ addr[list[cur[p]]] = addr[p] /\ waiting[list[cur[p]]]
  /\ waiting' = [waiting EXCEPT ![list[cur[p]]] = FALSE]
  /\ Goto(p, "wake")
  /\ UNCHANGED <<value, sema, list, asleep, notepending, call, scan>>

\* This entry is for another semaphore, or its process does not wait.
semwakeupSkip(p) ==
  /\ pc[p] = "scan"
  /\ More(p)
  /\ ~(addr[list[cur[p]]] = addr[p] /\ waiting[list[cur[p]]])
  /\ cur' = [cur EXCEPT ![p] = @ + 1]
  /\ UNCHANGED <<value, sema, list, waiting, asleep, notepending, pc, call, n>>

\* wakeup(p); n--
semwakeupWake(p) ==
  /\ pc[p] = "wake"
  /\ asleep' = [asleep EXCEPT ![list[cur[p]]] = FALSE]
  /\ n' = [n EXCEPT ![p] = @ - 1]
  /\ cur' = [cur EXCEPT ![p] = @ + 1]
  /\ Goto(p, "scan")
  /\ UNCHANGED <<value, sema, list, waiting, notepending, call>>

semwakeupDone(p) ==
  /\ pc[p] = "scan"
  /\ ~More(p)
  /\ sema' = none
  /\ n' = [n EXCEPT ![p] = 0]
  /\ cur' = [cur EXCEPT ![p] = 0]
  /\ Return(p)
  /\ UNCHANGED <<value, list, asleep, notepending>>

-----------------------------------------------------------------------------
\* postnote(p) and the timer of tsleep end a sleep.  A note that comes before
\* p is in the list is looked at only there: it may as well come then.
postnote(p) ==
  /\ ~notepending[p]
  /\ pc[p] \in InList
  /\ notepending' = [notepending EXCEPT ![p] = TRUE]
  /\ asleep' = [asleep EXCEPT ![p] = FALSE]
  /\ UNCHANGED <<value, sema, list, waiting, pc, call, scan>>

twakeup(p) ==
  /\ kind[p] = "timed"
  /\ asleep[p]
  /\ asleep' = [asleep EXCEPT ![p] = FALSE]
  /\ UNCHANGED <<value, sema, list, waiting, notepending, pc, call, scan>>

-----------------------------------------------------------------------------
Call(p) ==
  \/ \E a \in Addrs, k \in Kinds : syssemacquire(p, a, k)
  \/ \E a \in Addrs, delta \in 0..MaxDelta : semrelease(p, a, delta)
  \/ postnote(p)

\* Steps that wait for the lock of the list, and the others.
Spin(p) == semqueue(p) \/ semdequeue(p) \/ semwakeup(p)
Step(p) ==
  \/ semacquireTry(p) \/ semacquireBlock(p) \/ semacquireWait(p) \/ semacquireLast(p)
  \/ sleep(p) \/ awake(p) \/ semacquireLoop(p) \/ tsemacquireTimeout(p)
  \/ semacquireEintr(p) \/ semacquirePass(p)
  \/ semwakeupClear(p) \/ semwakeupSkip(p) \/ semwakeupWake(p) \/ semwakeupDone(p)

SemaNext == \E p \in Procs : Call(p) \/ Spin(p) \/ Step(p) \/ twakeup(p)

SemaSpec == SemaInit /\ [][SemaNext]_semavars

-----------------------------------------------------------------------------
\* p sleeps on semaphore a and no wakeup is on its way to p.
Sleeps(p, a) == addr[p] = a /\ pc[p] = "asleep" /\ asleep[p] /\ waiting[p]

\* p will try for semaphore a again, or wake somebody who will.
Busy(p, a) ==
  /\ addr[p] = a
  /\ \/ pc[p] \in InList /\ ~Sleeps(p, a) /\ (pc[p] = "sleep" /\ waiting[p] => notepending[p])
     \/ pc[p] = "pass" /\ ~waiting[p]
     \/ pc[p] \in {"lock", "scan", "wake"} /\ n[p] > 0

(***************************************************************************)
(* The three races of the comment above semqueue lose no wakeup: if a      *)
(* process sleeps although its semaphore is positive, somebody is on the   *)
(* way to take the semaphore or to wake a sleeper.                         *)
(***************************************************************************)
NoLostWakeup ==
  \A a \in Addrs :
    value[a] > 0 /\ (\E p \in Procs : Sleeps(p, a)) => \E p \in Procs : Busy(p, a)

(***************************************************************************)
(* The Sema lives on the stack of semacquire: semwakeup clears waiting and *)
(* calls wakeup only on one whose owner is still in semacquire.            *)
(***************************************************************************)
SemaAlive ==
  /\ SemaTypeOK
  /\ \A p \in Procs : pc[p] = "wake" => cur[p] <= Len(list) /\ pc[list[cur[p]]] \in InList

=============================================================================

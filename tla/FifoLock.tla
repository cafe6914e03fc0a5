------------------------------ MODULE FifoLock ------------------------------
(***************************************************************************)
(* What qlock(9) promises, with none of the machinery of qlock.c: a lock   *)
(* has at most one holder, callers that cannot have it at once wait in     *)
(* arrival order, and a release passes the lock straight to the first      *)
(* waiter.                                                                 *)
(***************************************************************************)
EXTENDS Sequences

CONSTANTS Procs,    \* the processes that use the lock
          nil       \* the null pointer

VARIABLES holder,   \* the process that owns the lock, or nil
          waiters   \* the processes waiting for it, first come first

vars == <<holder, waiters>>

Init ==
  /\ holder = nil
  /\ waiters = <<>>

\* The lock is free: p takes it.
Acquire(p) ==
  /\ holder = nil
  /\ waiters = <<>>
  /\ holder' = p
  /\ UNCHANGED waiters

\* The lock is held: p joins the end of the line.
Wait(p) ==
  /\ holder # nil
  /\ waiters' = Append(waiters, p)
  /\ UNCHANGED holder

\* The holder gives the lock to the first process in line ...
Pass ==
  /\ holder # nil
  /\ waiters # <<>>
  /\ holder' = Head(waiters)
  /\ waiters' = Tail(waiters)

\* ... or frees it when nobody waits.
Release ==
  /\ holder # nil
  /\ waiters = <<>>
  /\ holder' = nil
  /\ UNCHANGED waiters

Next ==
  \/ \E p \in Procs : Acquire(p) \/ Wait(p)
  \/ Pass
  \/ Release

Spec == Init /\ [][Next]_vars

=============================================================================

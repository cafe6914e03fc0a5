------------------------------- MODULE Sleep --------------------------------
(***************************************************************************)
(* sleep, tsleep, wakeup, twakeup and postnote of sys/src/9/port/proc.c,   *)
(* at the grain of the spin locks they take: lock(r) of the Rendez, then   *)
(* lock(&p->rlock) of the process, except in postnote, which takes them in *)
(* the opposite order and backs off.                                       *)
(*                                                                         *)
(* Agents: processes that sleep; the processors they run on, when a clock  *)
(* interrupt runs timerintr and twakeup there; and, on processors of their *)
(* own, wakers (device interrupts or other processes) that make an event   *)
(* happen and call wakeup, and noters that call postnote.  Unlocking both  *)
(* locks is one step: an unlock can only let others go on.                 *)
(***************************************************************************)
EXTENDS Integers, FiniteSets

CONSTANTS
  Procs,       \* the processes that sleep
  Rendezes,    \* the Rendez structures
  Wakers,      \* callers of wakeup
  Noters,      \* callers of postnote
  Machs,       \* the processors that run the processes
  Serialised,  \* users of a Rendez serialise their sleeps, as sleep(9) asks
  Timeouts,    \* processes call tsleep too
  nil          \* the null pointer

Agents == Procs \cup Wakers \cup Noters \cup Machs

ASSUME SleepAssumption ==
  /\ Procs \cap Rendezes = {} /\ Procs \cap Wakers = {} /\ Procs \cap Noters = {}
  /\ Procs \cap Machs = {} /\ Wakers \cap Noters = {} /\ Wakers \cap Machs = {}
  /\ Noters \cap Machs = {}
  /\ nil \notin Agents \cup Rendezes
  /\ Serialised \in BOOLEAN /\ Timeouts \in BOOLEAN

VARIABLES
  lk,           \* who holds each r->Lock and each p->rlock, or nil
  rp,           \* r->p
  pr,           \* p->r
  state,        \* p->state
  runq,         \* how often each process is in the run queue
  mach,         \* p->mach: the processor p runs on, nil once its context is saved
  notepending,  \* p->notepending
  cond,         \* the event that sleepers of r wait for has happened
  trend,        \* p->trend, the Rendez the timer will wake
  tt,           \* p->tt: the processor on whose list the timer of p is, or nil
  timed,        \* p is in tsleep
  pc,           \* where each agent is
  arg,          \* the argument or local r of each agent
  vic           \* the local p of wakeup, twakeup and postnote

vars == <<lk, rp, pr, state, runq, mach, notepending, cond, trend, tt, timed, pc, arg, vic>>
links == <<rp, pr, state, runq, mach>>
timer == <<trend, tt, timed>>

(***************************************************************************)
(* Control points.  sleep: "lockr", "lockp" before the two locks, "test"   *)
(* with both, "commit" with both after the decision to sleep, "goto" about *)
(* to leave the processor, "off" off it with its context saved, "awake"    *)
(* after the scheduler, "tdel" back in tsleep.  wakeup: "wakeup" before    *)
(* lock(r), "found" with it, "both" with p->rlock too, "ready" after.      *)
(* postnote: "post" before lock(&p->rlock), "try" with it.  twakeup:       *)
(* "fired" called, "read" p->trend read.                                   *)
(***************************************************************************)
PCs == {"idle", "lockr", "lockp", "test", "commit", "goto", "off", "awake", "tdel",
        "wakeup", "found", "both", "ready", "post", "try", "fired", "read"}

Init ==
  /\ lk = [x \in Rendezes \cup Procs |-> nil]
  /\ rp = [r \in Rendezes |-> nil]
  /\ pr = [p \in Procs |-> nil]
  /\ state = [p \in Procs |-> "Running"]
  /\ runq = [p \in Procs |-> 0]
  /\ mach \in [Procs -> Machs] /\ \A p, q \in Procs : mach[p] = mach[q] => p = q
  /\ notepending = [p \in Procs |-> FALSE]
  /\ cond = [r \in Rendezes |-> FALSE]
  /\ trend = [p \in Procs |-> nil]
  /\ tt = [p \in Procs |-> nil]
  /\ timed = [p \in Procs |-> FALSE]
  /\ pc = [a \in Agents |-> "idle"]
  /\ arg = [a \in Agents |-> nil]
  /\ vic = [a \in Agents |-> nil]

\* a goes on at l, or is done and its locals are gone.
Goto(a, l) == pc' = [pc EXCEPT ![a] = l]
Done(a) ==
  /\ pc' = [pc EXCEPT ![a] = "idle"]
  /\ arg' = [arg EXCEPT ![a] = nil]
  /\ vic' = [vic EXCEPT ![a] = nil]

-----------------------------------------------------------------------------
(* sleep and tsleep *)

\* p has a processor that is not busy with a clock interrupt.
Runs(p) == mach[p] # nil /\ pc[mach[p]] = "idle"

\* p runs with interrupts off, between splhi() and the scheduler.
Splhi(p) == pc[p] \in {"lockr", "lockp", "test", "commit", "goto"}

\* sleep(9): "Access to a Rendez must therefore be serialised".
MayUse(p, r) == Serialised => \A q \in Procs \ {p} : pc[q] # "idle" => arg[q] # r

sleep(p, r) ==
  /\ Runs(p) /\ pc[p] = "idle"
  /\ MayUse(p, r)
  /\ arg' = [arg EXCEPT ![p] = r]
  /\ Goto(p, "lockr")
  /\ UNCHANGED <<lk, links, notepending, cond, timer, vic>>

\* tsleep arms the timer, then sleeps with tfn for a condition.
tsleep(p, r) ==
  /\ Runs(p) /\ pc[p] = "idle"
  /\ MayUse(p, r)
  /\ arg' = [arg EXCEPT ![p] = r]
  /\ trend' = [trend EXCEPT ![p] = r]
  /\ tt' = [tt EXCEPT ![p] = mach[p]]
  /\ timed' = [timed EXCEPT ![p] = TRUE]
  /\ Goto(p, "lockr")
  /\ UNCHANGED <<lk, links, notepending, cond, vic>>

sleepLockr(p) ==
  /\ Runs(p) /\ pc[p] = "lockr"
  /\ lk[arg[p]] = nil
  /\ lk' = [lk EXCEPT ![arg[p]] = p]
  /\ Goto(p, "lockp")
  /\ UNCHANGED <<links, notepending, cond, timer, arg, vic>>

\* lock(&up->rlock); r->p = up.  A second sleeper is reported and goes on.
sleepLockp(p) ==
  /\ Runs(p) /\ pc[p] = "lockp"
  /\ lk[p] = nil
  /\ lk' = [lk EXCEPT ![p] = p]
  /\ rp' = [rp EXCEPT ![arg[p]] = p]
  /\ Goto(p, "test")
  /\ UNCHANGED <<pr, state, runq, mach, notepending, cond, timer, arg, vic>>

\* (*f)(arg): the caller's condition or, in tsleep, tfn.
f(p) == cond[arg[p]] \/ (timed[p] /\ trend[p] = nil)

\* unlock(&up->rlock); unlock(r)
unlockboth(p, r) == lk' = [lk EXCEPT ![p] = nil, ![r] = nil]

\* The condition happened or a note is pending: never mind.
sleepNot(p) ==
  /\ Runs(p) /\ pc[p] = "test"
  /\ f(p) \/ notepending[p]
  /\ rp' = [rp EXCEPT ![arg[p]] = nil]
  /\ unlockboth(p, arg[p])
  /\ Goto(p, "awake")
  /\ UNCHANGED <<pr, state, runq, mach, notepending, cond, timer, arg, vic>>

\* Mutant: f is not looked at under the locks.
sleepCommit_nocond(p) ==
  /\ Runs(p) /\ pc[p] = "test"
  /\ ~notepending[p]
  /\ state' = [state EXCEPT ![p] = "Wakeme"]
  /\ pr' = [pr EXCEPT ![p] = arg[p]]
  /\ Goto(p, "commit")
  /\ UNCHANGED <<lk, rp, runq, mach, notepending, cond, timer, arg, vic>>

\* Committed to change state and call the scheduler.
sleepCommit(p) ==
  /\ Runs(p) /\ pc[p] = "test"
  /\ ~f(p) /\ ~notepending[p]
  /\ state' = [state EXCEPT ![p] = "Wakeme"]
  /\ pr' = [pr EXCEPT ![p] = arg[p]]
  /\ Goto(p, "commit")
  /\ UNCHANGED <<lk, rp, runq, mach, notepending, cond, timer, arg, vic>>

sleepUnlock(p) ==
  /\ Runs(p) /\ pc[p] = "commit"
  /\ unlockboth(p, arg[p])
  /\ Goto(p, "goto")
  /\ UNCHANGED <<links, notepending, cond, timer, arg, vic>>

\* gotolabel(&m->sched): schedinit clears up->mach.
schedinit(p) ==
  /\ Runs(p) /\ pc[p] = "goto"
  /\ mach' = [mach EXCEPT ![p] = nil]
  /\ Goto(p, "off")
  /\ UNCHANGED <<lk, rp, pr, state, runq, notepending, cond, timer, arg, vic>>

\* runproc, on a processor without a process, takes p off the run queue once
\* p->mach is clear, and sched runs it there.
runproc(p, m) ==
  /\ pc[p] = "off"
  /\ runq[p] > 0
  /\ pc[m] = "idle" /\ \A q \in Procs : mach[q] # m
  /\ mach' = [mach EXCEPT ![p] = m]
  /\ runq' = [runq EXCEPT ![p] = @ - 1]
  /\ state' = [state EXCEPT ![p] = "Running"]
  /\ Goto(p, "awake")
  /\ UNCHANGED <<lk, rp, pr, notepending, cond, timer, arg, vic>>

\* Back in the caller, or in tsleep.
return(p) ==
  \/ timed[p] /\ Goto(p, "tdel") /\ UNCHANGED <<arg, vic>>
  \/ ~timed[p] /\ Done(p)

\* A note is pending: error(Eintr).
sleepEintr(p) ==
  /\ Runs(p) /\ pc[p] = "awake"
  /\ notepending[p]
  /\ notepending' = [notepending EXCEPT ![p] = FALSE]
  /\ return(p)
  /\ UNCHANGED <<lk, links, cond, timer>>

\* sleep returns; the caller uses the event up, if it is there.
sleepReturn(p) ==
  /\ Runs(p) /\ pc[p] = "awake"
  /\ ~notepending[p]
  /\ cond' = [cond EXCEPT ![arg[p]] = FALSE]
  /\ return(p)
  /\ UNCHANGED <<lk, links, notepending, timer>>

\* The end of tsleep: the timer, if still set, is deleted; trend stays as it is.
tsleepReturn(p) ==
  /\ Runs(p) /\ pc[p] = "tdel"
  /\ tt' = [tt EXCEPT ![p] = nil]
  /\ timed' = [timed EXCEPT ![p] = FALSE]
  /\ Done(p)
  /\ UNCHANGED <<lk, links, notepending, cond, trend>>

-----------------------------------------------------------------------------
(* wakeup *)

\* The event happens, and the waker will call wakeup(r).
event(w, r) ==
  /\ pc[w] = "idle"
  /\ cond' = [cond EXCEPT ![r] = TRUE]
  /\ arg' = [arg EXCEPT ![w] = r]
  /\ Goto(w, "wakeup")
  /\ UNCHANGED <<lk, links, notepending, timer, vic>>

\* lock(r); p = r->p
wakeup(a) ==
  /\ pc[a] = "wakeup"
  /\ lk[arg[a]] = nil
  /\ lk' = [lk EXCEPT ![arg[a]] = a]
  /\ vic' = [vic EXCEPT ![a] = rp[arg[a]]]
  /\ Goto(a, "found")
  /\ UNCHANGED <<links, notepending, cond, timer, arg>>

wakeupNone(a) ==
  /\ pc[a] = "found"
  /\ vic[a] = nil
  /\ lk' = [lk EXCEPT ![arg[a]] = nil]
  /\ Done(a)
  /\ UNCHANGED <<links, notepending, cond, timer>>

wakeupLockp(a) ==
  /\ pc[a] = "found"
  /\ vic[a] # nil
  /\ lk[vic[a]] = nil
  /\ lk' = [lk EXCEPT ![vic[a]] = a]
  /\ Goto(a, "both")
  /\ UNCHANGED <<links, notepending, cond, timer, arg, vic>>

\* Mutant: p->r is left pointing at r.
wakeupTake_keepsr(a) ==
  /\ pc[a] = "both"
  /\ state[vic[a]] = "Wakeme" /\ pr[vic[a]] = arg[a]
  /\ rp' = [rp EXCEPT ![arg[a]] = nil]
  /\ unlockboth(vic[a], arg[a])
  /\ Goto(a, "ready")
  /\ UNCHANGED <<pr, state, runq, mach, notepending, cond, timer, arg, vic>>

\* Unlink p and r; Linked is about the panic("wakeup: state") that the
\* second conjunct leaves out.
wakeupTake(a) ==
  /\ pc[a] = "both"
  /\ state[vic[a]] = "Wakeme" /\ pr[vic[a]] = arg[a]
  /\ rp' = [rp EXCEPT ![arg[a]] = nil]
  /\ pr' = [pr EXCEPT ![vic[a]] = nil]
  /\ unlockboth(vic[a], arg[a])
  /\ Goto(a, "ready")
  /\ UNCHANGED <<state, runq, mach, notepending, cond, timer, arg, vic>>

\* ready(p), with no lock held.
ready(a) ==
  /\ pc[a] = "ready"
  /\ state' = [state EXCEPT ![vic[a]] = "Ready"]
  /\ runq' = [runq EXCEPT ![vic[a]] = @ + 1]
  /\ Done(a)
  /\ UNCHANGED <<lk, rp, pr, mach, notepending, cond, timer>>

-----------------------------------------------------------------------------
(* postnote *)

postnote(n, p) ==
  /\ pc[n] = "idle"
  /\ notepending' = [notepending EXCEPT ![p] = TRUE]
  /\ vic' = [vic EXCEPT ![n] = p]
  /\ Goto(n, "post")
  /\ UNCHANGED <<lk, links, cond, timer, arg>>

\* lock(&p->rlock); r = p->r
postnoteLockp(n) ==
  /\ pc[n] = "post"
  /\ lk[vic[n]] = nil
  /\ lk' = [lk EXCEPT ![vic[n]] = n]
  /\ arg' = [arg EXCEPT ![n] = pr[vic[n]]]
  /\ Goto(n, "try")
  /\ UNCHANGED <<links, notepending, cond, timer, vic>>

\* Not waiting for a wakeup.
postnoteNone(n) ==
  /\ pc[n] = "try"
  /\ arg[n] = nil
  /\ lk' = [lk EXCEPT ![vic[n]] = nil]
  /\ Done(n)
  /\ UNCHANGED <<links, notepending, cond, timer>>

\* Mutant: postnote keeps p->rlock while it waits for r.
postnoteRetry_holds(n) ==
  /\ pc[n] = "try"
  /\ arg[n] # nil
  /\ lk[arg[n]] # nil
  /\ UNCHANGED vars

\* canlock(r) fails: give up p->rlock, and try again.
postnoteRetry(n) ==
  /\ pc[n] = "try"
  /\ arg[n] # nil
  /\ lk[arg[n]] # nil
  /\ lk' = [lk EXCEPT ![vic[n]] = nil]
  /\ Goto(n, "post")
  /\ UNCHANGED <<links, notepending, cond, timer, arg, vic>>

\* Mutants: r->lock is not taken; p is unlinked but never readied.
postnoteTake_nolock(n) ==
  /\ pc[n] = "try"
  /\ arg[n] # nil
  /\ rp' = [rp EXCEPT ![arg[n]] = nil]
  /\ pr' = [pr EXCEPT ![vic[n]] = nil]
  /\ lk' = [lk EXCEPT ![vic[n]] = nil]
  /\ Goto(n, "ready")
  /\ UNCHANGED <<state, runq, mach, notepending, cond, timer, arg, vic>>

postnoteTake_noready(n) ==
  /\ pc[n] = "try"
  /\ arg[n] # nil
  /\ lk[arg[n]] = nil
  /\ rp' = [rp EXCEPT ![arg[n]] = nil]
  /\ pr' = [pr EXCEPT ![vic[n]] = nil]
  /\ lk' = [lk EXCEPT ![vic[n]] = nil]
  /\ Done(n)
  /\ UNCHANGED <<state, runq, mach, notepending, cond, timer>>

\* canlock(r) succeeds: unlink p and r, unlock both, ready p.  Linked is
\* about the panic("postnote: state") that the fourth conjunct leaves out.
postnoteTake(n) ==
  /\ pc[n] = "try"
  /\ arg[n] # nil
  /\ lk[arg[n]] = nil
  /\ state[vic[n]] = "Wakeme" /\ rp[arg[n]] = vic[n]
  /\ rp' = [rp EXCEPT ![arg[n]] = nil]
  /\ pr' = [pr EXCEPT ![vic[n]] = nil]
  /\ lk' = [lk EXCEPT ![vic[n]] = nil]
  /\ Goto(n, "ready")
  /\ UNCHANGED <<state, runq, mach, notepending, cond, timer, arg, vic>>

-----------------------------------------------------------------------------
(* timerintr and twakeup *)

\* timerintr takes an expired timer off its processor's list (t->tt = nil),
\* drops the lock of the list and calls t->tf.
timerintr(m, p) ==
  /\ pc[m] = "idle" /\ \A q \in Procs : mach[q] = m => ~Splhi(q)
  /\ tt[p] = m
  /\ tt' = [tt EXCEPT ![p] = nil]
  /\ vic' = [vic EXCEPT ![m] = p]
  /\ Goto(m, "fired")
  /\ UNCHANGED <<lk, links, notepending, cond, trend, timed, arg>>

\* trend = p->trend
twakeup(m) ==
  /\ pc[m] = "fired"
  /\ arg' = [arg EXCEPT ![m] = trend[vic[m]]]
  /\ Goto(m, "read")
  /\ UNCHANGED <<lk, links, notepending, cond, timer, vic>>

\* p->trend = 0; if(trend) wakeup(trend)
twakeupClear(m) ==
  /\ pc[m] = "read"
  /\ trend' = [trend EXCEPT ![vic[m]] = nil]
  /\ IF arg[m] = nil THEN Done(m) ELSE Goto(m, "wakeup") /\ UNCHANGED <<arg, vic>>
  /\ UNCHANGED <<lk, links, notepending, cond, tt, timed>>

-----------------------------------------------------------------------------
\* Steps that wait for a spin lock.
Spin(a) ==
  \/ a \in Procs /\ (sleepLockr(a) \/ sleepLockp(a))
  \/ a \in Wakers \cup Machs /\ (wakeup(a) \/ wakeupLockp(a))
  \/ a \in Noters /\ postnoteLockp(a)

\* The other steps of an agent inside the kernel.
Step(a) ==
  \/ /\ a \in Procs
     /\ \/ sleepNot(a) \/ sleepCommit(a) \/ sleepUnlock(a) \/ schedinit(a)
        \/ (\E m \in Machs : runproc(a, m)) \/ sleepEintr(a) \/ sleepReturn(a) \/ tsleepReturn(a)
  \/ a \in Wakers \cup Machs /\ (wakeupNone(a) \/ wakeupTake(a))
  \/ a \in Wakers \cup Machs \cup Noters /\ ready(a)
  \/ a \in Noters /\ (postnoteNone(a) \/ postnoteRetry(a) \/ postnoteTake(a))
  \/ a \in Machs /\ (twakeup(a) \/ twakeupClear(a))

\* Calls, events and notes come when they like.
Call ==
  \/ \E p \in Procs, r \in Rendezes : sleep(p, r)
  \/ \E p \in Procs, r \in Rendezes : Timeouts /\ tsleep(p, r)
  \/ \E w \in Wakers, r \in Rendezes : event(w, r)
  \/ \E n \in Noters, p \in Procs : postnote(n, p)

\* A timer expires at any time when its processor accepts interrupts.
Expire == \E m \in Machs, p \in Procs : timerintr(m, p)

Next == Call \/ Expire \/ \E a \in Agents : Spin(a) \/ Step(a)

(***************************************************************************)
(* Code inside the kernel keeps running with interrupts off; a processor   *)
(* spinning on a lock that is free again and again gets it.  No event, no  *)
(* note and no timer has to come.                                          *)
(***************************************************************************)
Fairness == \A a \in Agents : WF_vars(Step(a)) /\ SF_vars(Spin(a))

Spec == Init /\ [][Next]_vars
FairSpec == Spec /\ Fairness

-----------------------------------------------------------------------------
\* Agents that hold lock(r), or the rlock of a process, at their pc.
HoldsR(a, r) ==
  arg[a] = r /\ pc[a] \in {"lockp", "test", "commit", "found", "both"}
HoldsP(a, p) ==
  \/ a = p /\ pc[a] \in {"test", "commit"}
  \/ a \notin Procs /\ vic[a] = p /\ pc[a] \in {"both", "try"}

(***************************************************************************)
(* Types, and every spin lock is held by the agent whose code is between   *)
(* its lock and its unlock, and by nobody else.                            *)
(***************************************************************************)
TypeOK ==
  /\ lk \in [Rendezes \cup Procs -> Agents \cup {nil}]
  /\ rp \in [Rendezes -> Procs \cup {nil}]
  /\ pr \in [Procs -> Rendezes \cup {nil}]
  /\ state \in [Procs -> {"Running", "Wakeme", "Ready"}]
  /\ runq \in [Procs -> Nat]
  /\ mach \in [Procs -> Machs \cup {nil}]
  /\ notepending \in [Procs -> BOOLEAN]
  /\ cond \in [Rendezes -> BOOLEAN]
  /\ trend \in [Procs -> Rendezes \cup {nil}]
  /\ tt \in [Procs -> Machs \cup {nil}]
  /\ timed \in [Procs -> BOOLEAN]
  /\ pc \in [Agents -> PCs]
  /\ arg \in [Agents -> Rendezes \cup {nil}]
  /\ vic \in [Agents -> Procs \cup {nil}]
  /\ \A a \in Agents : \A r \in Rendezes : lk[r] = a <=> HoldsR(a, r)
  /\ \A a \in Agents : \A p \in Procs : lk[p] = a <=> HoldsP(a, p)

\* p is asleep and nobody has started to wake it.
Asleep(p) == pr[p] # nil

(***************************************************************************)
(* "We lock both the process and the rendezvous to keep r->p and p->r      *)
(* synchronized": with r unlocked, r->p is the process whose p->r is r, and *)
(* panic("wakeup: state") and panic("postnote: state") are unreachable.    *)
(***************************************************************************)
Linked ==
  /\ TypeOK
  /\ \A p \in Procs, r \in Rendezes :
       /\ pr[p] = r => rp[r] = p /\ state[p] = "Wakeme"
       /\ rp[r] = p /\ lk[r] = nil => pr[p] = r
  /\ \A a \in Agents :
       /\ pc[a] = "both" => state[vic[a]] = "Wakeme" /\ pr[vic[a]] = arg[a]
       /\ pc[a] = "try" /\ arg[a] # nil /\ lk[arg[a]] = nil =>
            state[vic[a]] = "Wakeme" /\ rp[arg[a]] = vic[a]

(***************************************************************************)
(* However wakeups, timeouts and notes race, a sleeping process is readied *)
(* once: it is never in the run queue twice.                               *)
(***************************************************************************)
ReadyOnce ==
  \A p \in Procs :
    LET readiers == {a \in Agents : pc[a] = "ready" /\ vic[a] = p}
    IN  /\ runq[p] + Cardinality(readiers) <= 1
        /\ readiers # {} => state[p] = "Wakeme" /\ ~Asleep(p)
        /\ runq[p] = 1 <=> state[p] = "Ready"

(***************************************************************************)
(* No lost wakeup: if a process sleeps although its event has happened or  *)
(* a note is pending, a waker or a postnote is still on its way to it.     *)
(***************************************************************************)
NoLostWakeup ==
  \A p \in Procs :
    /\ Asleep(p) /\ cond[pr[p]] =>
         \E a \in Agents : arg[a] = pr[p] /\ pc[a] \in {"wakeup", "found", "both"}
    /\ Asleep(p) /\ notepending[p] =>
         \E n \in Noters : vic[n] = p /\ pc[n] \in {"post", "try"}

(***************************************************************************)
(* A process in sleep returns once its event happens or a note is posted,  *)
(* whatever the wakers, noters and timers do meanwhile.                    *)
(***************************************************************************)
SleeperWoken ==
  \A p \in Procs :
    Asleep(p) /\ (cond[arg[p]] \/ notepending[p]) ~> pc[p] = "awake"

(***************************************************************************)
(* postnote does not deadlock with wakeup, which takes the two locks in    *)
(* the other order: it returns, or others keep waking its target (whose    *)
(* repeated sleeps and wakeups can make canlock fail each time it tries).  *)
(***************************************************************************)
PostnoteNotStuck ==
  \A n \in Noters, p \in Procs :
    pc[n] = "post" /\ vic[n] = p ~> pc[n] = "idle" \/ pc[p] = "awake"

(***************************************************************************)
(* sleep(9): "if two processes collide, the system will panic (double      *)
(* sleep)", so that never two processes sleep on one Rendez.               *)
(***************************************************************************)
\* The code does not keep this: README.md, Findings.
DoubleSleepPanics ==
  \A p, q \in Procs : Asleep(p) /\ pr[p] = pr[q] => p = q

(***************************************************************************)
(* sleep(9): in tsleep, if "nothing else wakes it within ms milliseconds,  *)
(* the system will wake it".                                               *)
(***************************************************************************)
\* The code does not keep this: README.md, Findings.
TsleepReturns == \A p \in Procs : timed[p] ~> ~timed[p]

(***************************************************************************)
(* A Rendez may be on its user's stack (semacquire): nobody touches it     *)
(* once the tsleep that armed the timer has returned.                      *)
(***************************************************************************)
\* The code does not keep this: README.md, Findings.
RendezInUse ==
  \A m \in Machs : pc[m] = "wakeup" => timed[vic[m]] /\ arg[vic[m]] = arg[m]

=============================================================================

------------------------------- MODULE Alarm --------------------------------
(***************************************************************************)
(* The alarm clock, sys/src/9/port/alarm.c: procalarm, alarmkproc and      *)
(* checkalarms.                                                            *)
(*                                                                         *)
(* Ticks are unsigned and wrap around: Ticks = 0..Wrap-1, where the code   *)
(* has Wrap = 2^32, and times are compared by the sign of their            *)
(* difference.  The list of alarms is guarded by the QLock alarms; but     *)
(* alarm(0) and exiting clear up->alarm without it, and checkalarms looks  *)
(* at the head without it.  A cleared alarm stays in the list, and its     *)
(* time, 0, is compared like any other: in the upper half of the range it  *)
(* looks like a time still to come.                                        *)
(***************************************************************************)
EXTENDS Integers, Sequences, FiniteSets, SequencesExt

CONSTANTS AlarmProcs, \* the processes that set alarms
          Wrap,    \* ticks count modulo this even number
          Delays,  \* the delays processes ask for, in ticks
          MaxLag,  \* bound: how many ticks late alarmkproc may be
          FirstTick,\* bound: the system was idle until then
          LastTick,\* bound: the clock stops there; Wrap for never
          MaxDebug,\* bound: how many debug locks are held at a time
          null     \* the null pointer

Ticks == 0..(Wrap - 1)

ASSUME AlarmAssumption ==
  /\ null \notin AlarmProcs \cup {"kproc"}
  /\ Wrap \in Nat /\ Wrap > 2 /\ Wrap % 2 = 0
  /\ MaxLag \in 0..(Wrap \div 2 - 1)
  /\ Delays \subseteq Nat /\ \A d \in Delays : d + 1 + MaxLag < Wrap \div 2
  /\ FirstTick \in Ticks /\ LastTick \in 0..Wrap
  /\ MaxDebug \in Nat

VARIABLES
  ticks,    \* MACHP(0)->ticks
  inclock,  \* Mach 0 is in hzclock, before checkalarms
  alarm,    \* p->alarm, 0 for none
  alarms,   \* alarms.head, linked by palarm
  when,     \* the local when of a process in procalarm, null outside
  lk,       \* "kproc" while alarmkproc holds the QLock alarms, else null
  debug,    \* the processes whose p->debug is held by somebody else
  kpc,      \* where alarmkproc is
  now,      \* its local now
  rp,       \* its local rp
  fooled    \* history: a cleared alarm was taken for one still to come,
            \* and the list has not been empty since

alarmvars == <<ticks, inclock, alarm, alarms, when, lk, debug, kpc, now, rp, fooled>>

(***************************************************************************)
(* Control points of alarmkproc: "now" the top of the loop; "qlock" now is *)
(* read; "head" at the while; "post" past the test of rp->alarm and with   *)
(* rp->debug; "clear" the note is posted; "pop" about to unlink rp;        *)
(* "asleep" in sleep(&alarmr, return0, 0).                                 *)
(***************************************************************************)
KPCs == {"now", "qlock", "head", "post", "clear", "pop", "asleep"}

(***************************************************************************)
(* Types, and the QLock belongs to alarmkproc in its inner loop.           *)
(***************************************************************************)
AlarmTypeOK ==
  /\ ticks \in Ticks /\ now \in Ticks /\ inclock \in BOOLEAN /\ fooled \in BOOLEAN
  /\ alarm \in [AlarmProcs -> Ticks]
  /\ alarms \in Seq(AlarmProcs)
  /\ when \in [AlarmProcs -> Ticks \cup {null}]
  /\ lk \in {null, "kproc"}
  /\ debug \subseteq AlarmProcs
  /\ kpc \in KPCs
  /\ rp \in AlarmProcs \cup {null}
  /\ lk = "kproc" <=> kpc \in {"head", "post", "clear", "pop"}
  /\ rp # null <=> kpc \in {"post", "clear", "pop"}

AlarmInit ==
  /\ ticks = FirstTick /\ now = FirstTick /\ inclock = FALSE
  /\ alarm = [p \in AlarmProcs |-> 0]
  /\ alarms = <<>>
  /\ when = [p \in AlarmProcs |-> null]
  /\ lk = null
  /\ debug = {}
  /\ kpc = "now"
  /\ rp = null
  /\ fooled = FALSE

\* Mutant: a comparison that does not know of wrapping.
reached_plain(a, b) == a >= b

\* (long)(a - b) >= 0
reached(a, b) == (a - b) % Wrap < Wrap \div 2

-----------------------------------------------------------------------------
(* The clock *)

\* t is in the past by less than half the range, or now.
Late(t) == (ticks - t) % Wrap

\* hzclock, up to its call of checkalarms.  alarmkproc is a kernel process
\* of high priority: it runs in the tick in which it is woken, and like the
\* holders of p->debug and of the QLock it is done within MaxLag ticks.  So no
\* alarm stands for longer, unless alarmkproc was fooled: then time goes on.
tick ==
  /\ ~inclock
  /\ ticks # LastTick
  /\ kpc = "asleep" \/ (kpc # "now" /\ Late(now) < MaxLag)
  /\ \A p \in AlarmProcs :
       /\ when[p] # null => Late(when[p]) # MaxLag
       /\ ~fooled /\ alarm[p] # 0 => Late(alarm[p]) # MaxLag
  /\ ticks' = (ticks + 1) % Wrap
  /\ inclock' = TRUE
  /\ UNCHANGED <<alarm, alarms, when, lk, debug, kpc, now, rp, fooled>>

\* history: the first of the list is a cleared alarm, and not reached at t.
foolish(t) == alarms # <<>> /\ alarm[Head(alarms)] = 0 /\ ~reached(t, 0)

\* Every processor calls it at its clock tick, machno 0 after the tick above:
\* wakeup(&alarmr) if the first of the list is due.  Nothing is remembered
\* if alarmkproc does not sleep.
checkalarms(machno) ==
  /\ machno = 0 => inclock
  /\ inclock' = (inclock /\ machno # 0)
  /\ kpc' = IF alarms # <<>> /\ reached(ticks, alarm[Head(alarms)]) /\ kpc = "asleep"
            THEN "now" ELSE kpc
  /\ fooled' = (fooled \/ foolish(ticks))
  /\ UNCHANGED <<ticks, alarm, alarms, when, lk, debug, now, rp>>

-----------------------------------------------------------------------------
(* procalarm *)

\* ms2tk(time) + ticks, but not 0, which means no alarm.
deadline(d) == LET t == (ticks + d) % Wrap IN IF t = 0 THEN 1 ELSE t

\* when is computed before qlock(&alarms).
procalarm(p, d) ==
  /\ when[p] = null
  /\ when' = [when EXCEPT ![p] = deadline(d)]
  /\ UNCHANGED <<ticks, inclock, alarm, alarms, lk, debug, kpc, now, rp, fooled>>

\* p goes before the first alarm that is not earlier, set or cleared.
later(p, l) == {i \in DOMAIN l : reached(alarm[l[i]], when[p])}

\* Where p goes in the list l.
place(p, l) == IF later(p, l) = {} THEN Len(l) + 1 ELSE Min(later(p, l))

\* The list without p.
unlink(p) == RemoveFirst(alarms, p)

procalarmSet(p) ==
  /\ when[p] # null
  /\ lk = null
  /\ alarms' = InsertAt(unlink(p), place(p, unlink(p)), p)
  /\ alarm' = [alarm EXCEPT ![p] = when[p]]
  /\ when' = [when EXCEPT ![p] = null]
  /\ fooled' = (fooled \/ \E i \in later(p, unlink(p)) : i = place(p, unlink(p)) /\ alarm[unlink(p)[i]] = 0)
  /\ UNCHANGED <<ticks, inclock, lk, debug, kpc, now, rp>>

\* procalarm(0), or pexit: p stays in the list.
procalarmClear(p) ==
  /\ when[p] = null /\ alarm[p] # 0
  /\ alarm' = [alarm EXCEPT ![p] = 0]
  /\ UNCHANGED <<ticks, inclock, alarms, when, lk, debug, kpc, now, rp, fooled>>

\* Somebody takes or gives back p->debug.
qlockdebug(p) ==
  /\ ~(rp = p /\ kpc \in {"post", "clear"})
  /\ p \in debug \/ Cardinality(debug) < MaxDebug
  /\ debug' = IF p \in debug THEN debug \ {p} ELSE debug \cup {p}
  /\ UNCHANGED <<ticks, inclock, alarm, alarms, when, lk, kpc, now, rp, fooled>>

-----------------------------------------------------------------------------
(* alarmkproc *)

kprocNow ==
  /\ kpc = "now"
  /\ now' = ticks
  /\ kpc' = "qlock"
  /\ UNCHANGED <<ticks, inclock, alarm, alarms, when, lk, debug, rp, fooled>>

kprocLock ==
  /\ kpc = "qlock"
  /\ lk = null
  /\ lk' = "kproc"
  /\ kpc' = "head"
  /\ UNCHANGED <<ticks, inclock, alarm, alarms, when, debug, now, rp, fooled>>

\* The head is due.
Due == alarms # <<>> /\ reached(now, alarm[Head(alarms)])

\* It is an alarm, and canqlock(&rp->debug) succeeds.
kprocPost ==
  /\ kpc = "head"
  /\ Due /\ alarm[Head(alarms)] # 0
  /\ Head(alarms) \notin debug
  /\ rp' = Head(alarms)
  /\ kpc' = "post"
  /\ UNCHANGED <<ticks, inclock, alarm, alarms, when, lk, debug, now, fooled>>

\* postnote(rp, 0, "alarm", NUser)
kprocPostnote ==
  /\ kpc = "post"
  /\ kpc' = "clear"
  /\ UNCHANGED <<ticks, inclock, alarm, alarms, when, lk, debug, now, rp, fooled>>

\* qunlock(&rp->debug); rp->alarm = 0
kprocClear ==
  /\ kpc = "clear"
  /\ alarm' = [alarm EXCEPT ![rp] = 0]
  /\ kpc' = "pop"
  /\ UNCHANGED <<ticks, inclock, alarms, when, lk, debug, now, rp, fooled>>

\* It was cleared.
kprocSkip ==
  /\ kpc = "head"
  /\ Due /\ alarm[Head(alarms)] = 0
  /\ rp' = Head(alarms)
  /\ kpc' = "pop"
  /\ UNCHANGED <<ticks, inclock, alarm, alarms, when, lk, debug, now, fooled>>

\* Mutant: one alarm per round.
kprocPop_one ==
  /\ kpc = "pop"
  /\ alarms' = Tail(alarms)
  /\ rp' = null
  /\ lk' = null
  /\ kpc' = "asleep"
  /\ fooled' = (fooled /\ Tail(alarms) # <<>>)
  /\ UNCHANGED <<ticks, inclock, alarm, when, debug, now>>

\* alarms.head = rp->palarm
kprocPop ==
  /\ kpc = "pop"
  /\ alarms' = Tail(alarms)
  /\ rp' = null
  /\ kpc' = "head"
  /\ fooled' = (fooled /\ Tail(alarms) # <<>>)
  /\ UNCHANGED <<ticks, inclock, alarm, when, lk, debug, now>>

\* Nothing due, or the head's debug lock is taken: wait for the next tick.
kprocSleep ==
  /\ kpc = "head"
  /\ Due => alarm[Head(alarms)] # 0 /\ Head(alarms) \in debug
  /\ lk' = null
  /\ kpc' = "asleep"
  /\ fooled' = (fooled \/ foolish(now))
  /\ UNCHANGED <<ticks, inclock, alarm, alarms, when, debug, now, rp>>

-----------------------------------------------------------------------------
kproc == kprocNow \/ kprocLock \/ kprocPost \/ kprocPostnote \/ kprocClear \/ kprocSkip
         \/ kprocPop \/ kprocSleep

AlarmNext ==
  \/ tick \/ kproc
  \/ \E machno \in {0, 1} : checkalarms(machno)
  \/ \E p \in AlarmProcs : procalarmSet(p) \/ procalarmClear(p) \/ qlockdebug(p) \/ \E d \in Delays : procalarm(p, d)

AlarmSpec == AlarmInit /\ [][AlarmNext]_alarmvars

-----------------------------------------------------------------------------
(***************************************************************************)
(* Properties.                                                             *)
(***************************************************************************)
\* The order of times on the circle of ticks: a is b, or comes after b by
\* less than half the range.
NotBefore(a, b) == \E k \in 0..(Wrap \div 2 - 1) : (b + k) % Wrap = a

\* Every process with an alarm is in the list, none twice, and the alarms
\* that are set stand there in the order of their times, although the clock
\* wraps, clearing an alarm leaves its process in the list, and setting it
\* again moves it.  The order is lost only after a cleared alarm was taken for
\* one still to come, and is there again once the list was empty.
Ordered ==
  /\ AlarmTypeOK
  /\ IsInjective(alarms)
  /\ \A p \in AlarmProcs : alarm[p] # 0 => p \in ToSet(alarms)
  /\ ~fooled => \A i, j \in DOMAIN alarms :
       i < j /\ alarm[alarms[i]] # 0 /\ alarm[alarms[j]] # 0
         => NotBefore(alarm[alarms[j]], alarm[alarms[i]])

\* sleep(2): the note is sent after the time asked for.  When alarmkproc
\* goes back to sleep it has posted every alarm that was due at its now: only
\* a debug lock held elsewhere makes it leave some for the next tick, and only
\* a cleared alarm taken for one still to come makes it overlook some.
AllDuePosted ==
  [][kpc # "asleep" /\ kpc' = "asleep" =>
       \/ fooled'
       \/ alarms # <<>> /\ Head(alarms) \in debug
       \/ \A i \in DOMAIN alarms :
            alarm[alarms[i]] # 0 => ~NotBefore(now, alarm[alarms[i]])]_alarmvars

\* sleep(2): "A zero argument clears the alarm."  No alarm note is posted
\* to a process that has cleared its alarm.
\* The code does not keep this: README.md, Findings.
ClearedIsSilent == [][kpc = "post" /\ kpc' = "clear" => alarm[rp] # 0]_alarmvars
=============================================================================

------------------------------- MODULE Timers -------------------------------
(***************************************************************************)
(* The timer lists of the processors, sys/src/9/port/portclock.c: tadd,    *)
(* tdel, timeradd, timerdel, timerintr, timersinit and addclock0link.      *)
(*                                                                         *)
(* Every processor m has a list timers[m] sorted by time, under ilock(tt). *)
(* A Timer is locked, before any list, by those who add and delete it; but *)
(* timerintr takes a timer off its list, runs its function and puts a      *)
(* periodic timer back with the list's lock alone, which it gives up while *)
(* the function runs.  Each section under ilock(tt) is one step, except    *)
(* that timerintr keeps the lock from a tadd to the next test of the head. *)
(* ilock disables interrupts: a processor in these functions is not        *)
(* interrupted.                                                            *)
(***************************************************************************)
EXTENDS Integers, Sequences, SequencesExt

CONSTANTS Machs,    \* the processors
          Mach0,    \* the first of them
          Relative, \* the Trelative timers: those of tsleep and of edf.c
          Links,    \* the Timers that addclock0link allocates
          Delays,   \* the delays of relative timers, in fastticks
          Periods,  \* the periods of periodic timers
          Hz,       \* the period of the HZ clock
          MaxTime,  \* bound: fastticks stop there
          none      \* the null pointer

\* The HZ clock of a processor is a timer named like the processor.
Periodic == Machs \cup Links
Timer == Periodic \cup Relative

ASSUME TimersAssumption ==
  /\ Mach0 \in Machs
  /\ Periodic \cap Relative = {} /\ Machs \cap Links = {} /\ none \notin Timer \cup Nat
  /\ Delays \subseteq Nat /\ Periods \subseteq Nat \ {0}
  /\ Hz \in Periods /\ MaxTime \in Nat

VARIABLES
  fastticks, \* the clock, the same on all processors
  list,      \* timers[m].head, linked by tnext
  tt,        \* t->tt: the processor whose list t is on, or none
  twhen,     \* t->twhen
  tns,       \* t->tns, in fastticks
  ilock,     \* which processor has ilock(t)
  compare,   \* when the clock of m interrupts it next, none for never
  pc,        \* where processor m is
  arg,       \* the timer it adds or deletes
  ltt,       \* its local tt in timeradd and timerdel
  cur,       \* the local t of its timerintr
  now,       \* the local now of its timerintr
  stray,     \* history: whose clock addclock0link left wrong, until it is set again
  apart      \* history: the periods with a timer linked while the one to
             \* combine it with was off the list

timersvars == <<fastticks, list, tt, twhen, tns, ilock, compare, pc, arg, ltt, cur, now,
                stray, apart>>

(***************************************************************************)
(* Control points of a processor: "run" none of these functions, with      *)
(* interrupts; "del" timeradd before its first ilock(tt), "add" before its *)
(* second; "tdel" timerdel before ilock(tt); "enter" timerintr before its  *)
(* first ilock(tt), "loop" with the lock at the while, "tf" in the         *)
(* function of timer cur.                                                  *)
(***************************************************************************)
PCs == {"run", "del", "add", "tdel", "enter", "loop", "tf"}

(***************************************************************************)
(* Types and representation.  A timer is locked by the processor that adds *)
(* or deletes it.  t->tt says which list t is on, once, whoever moves it:  *)
(* timerintr asserts it, and timeradd's choice of a list relies on it.  The *)
(* assertion in tadd, nt->tt == nil, holds at each call: no timer is added *)
(* between tdel and tadd, or while its function runs and timerintr is about *)
(* to put it back.                                                         *)
(***************************************************************************)
TimersTypeOK ==
  /\ fastticks \in 0..MaxTime
  /\ list \in [Machs -> Seq(Timer)]
  /\ tt \in [Timer -> Machs \cup {none}]
  /\ twhen \in [Timer -> Nat] /\ tns \in [Timer -> Nat]
  /\ ilock \in [Timer -> Machs \cup {none}]
  /\ compare \in [Machs -> Nat \cup {none}]
  /\ pc \in [Machs -> PCs]
  /\ arg \in [Machs -> Timer \cup {none}] /\ cur \in [Machs -> Timer \cup {none}]
  /\ ltt \in [Machs -> Machs \cup {none}] /\ now \in [Machs -> 0..MaxTime]
  /\ stray \subseteq Machs /\ apart \subseteq Periods
  /\ \A m \in Machs, t \in Timer :
       ilock[t] = m <=> pc[m] \in {"del", "add", "tdel"} /\ arg[m] = t
  /\ \A m \in Machs : pc[m] = "tf" => cur[m] # none
  /\ \A m \in Machs, t \in Timer : t \in ToSet(list[m]) <=> tt[t] = m
  /\ \A m \in Machs : IsInjective(list[m])
  /\ \A m \in Machs :
       /\ pc[m] = "add" => tt[arg[m]] = none
       /\ pc[m] = "tf" /\ cur[m] \in Periodic => tt[cur[m]] = none

\* timersinit has run on every processor.
TimersInit ==
  /\ fastticks = 0
  /\ list = [m \in Machs |-> <<m>>]
  /\ tt = [t \in Timer |-> IF t \in Machs THEN t ELSE none]
  /\ twhen = [t \in Timer |-> IF t \in Machs THEN Hz ELSE 0]
  /\ tns = [t \in Timer |-> IF t \in Machs THEN Hz ELSE 0]
  /\ ilock = [t \in Timer |-> none]
  /\ compare = [m \in Machs |-> Hz]
  /\ pc = [m \in Machs |-> "run"]
  /\ arg = [m \in Machs |-> none] /\ cur = [m \in Machs |-> none]
  /\ ltt = [m \in Machs |-> none] /\ now = [m \in Machs |-> 0]
  /\ stray = {} /\ apart = {}

-----------------------------------------------------------------------------
(* Lists *)

\* ilock(&timers[m]) does not spin: only timerintr keeps it over a step.
canilock(m) == pc[m] # "loop"

\* The time a new periodic timer starts from: that of another of its
\* period, or now.
phase(m, ns) ==
  LET same == {i \in DOMAIN list[m] : list[m][i] \in Periodic /\ tns[list[m][i]] = ns}
  IN  IF same = {} THEN fastticks ELSE twhen[list[m][Min(same)]]

\* nt->twhen in tadd.
when(m, t, ns) ==
  IF t \in Relative THEN fastticks + ns
  ELSE (IF twhen[t] = 0 THEN phase(m, ns) ELSE twhen[t]) + ns

\* Where tadd puts a timer of time w: before the first that is later.
place(m, w) ==
  LET later == {i \in DOMAIN list[m] : twhen[list[m][i]] > w}
  IN  IF later = {} THEN Len(list[m]) + 1 ELSE Min(later)

tadd(m, t, ns) ==
  LET w == when(m, t, ns)
  IN  /\ twhen' = [twhen EXCEPT ![t] = w]
      /\ list' = [list EXCEPT ![m] = InsertAt(@, place(m, w), t)]
      /\ tt' = [tt EXCEPT ![t] = m]

\* tadd tells its caller to set the clock if t comes first.
first(m, t, ns) == place(m, when(m, t, ns)) = 1

\* tdel reads t->tt again: timerintr may have taken t off meanwhile.
tdel(t) ==
  /\ tt' = [tt EXCEPT ![t] = none]
  /\ list' = IF tt[t] = none THEN list ELSE [list EXCEPT ![tt[t]] = RemoveFirst(@, t)]

-----------------------------------------------------------------------------
(* timeradd and timerdel, by a process or by the function of a timer *)

callable(m) == pc[m] \in {"run", "tf"}

\* Return to the caller.
return(m) == IF cur[m] = none THEN "run" ELSE "tf"

\* The locals are gone.
forget(m) == arg' = [arg EXCEPT ![m] = none] /\ ltt' = [ltt EXCEPT ![m] = none]

\* A relative timer is added or modified: ilock(nt), and tt = nt->tt.
timeradd(m, t, ns) ==
  /\ callable(m)
  /\ ilock[t] = none
  /\ ilock' = [ilock EXCEPT ![t] = m]
  /\ tns' = [tns EXCEPT ![t] = ns]
  /\ ltt' = [ltt EXCEPT ![m] = tt[t]]
  /\ arg' = [arg EXCEPT ![m] = t]
  /\ pc' = [pc EXCEPT ![m] = IF tt[t] = none THEN "add" ELSE "del"]
  /\ UNCHANGED <<fastticks, list, tt, twhen, compare, cur, now, stray, apart>>

\* It was on a list.
timeraddDel(m) ==
  /\ pc[m] = "del"
  /\ canilock(ltt[m])
  /\ tdel(arg[m])
  /\ pc' = [pc EXCEPT ![m] = "add"]
  /\ UNCHANGED <<fastticks, twhen, tns, ilock, compare, arg, ltt, cur, now, stray, apart>>

\* Mutant: the clock is not set.
timeraddAdd_unset(m) ==
  LET t == arg[m]
  IN  /\ pc[m] = "add"
      /\ tadd(m, t, tns[t])
      /\ ilock' = [ilock EXCEPT ![t] = none]
      /\ pc' = [pc EXCEPT ![m] = return(m)]
      /\ forget(m)
      /\ UNCHANGED <<fastticks, tns, compare, cur, now, stray, apart>>

\* Onto the list of this processor, and timerset if it is the first there.
timeraddAdd(m) ==
  LET t == arg[m]
  IN  /\ pc[m] = "add"
      /\ tadd(m, t, tns[t])
      /\ compare' = IF first(m, t, tns[t])
                    THEN [compare EXCEPT ![m] = when(m, t, tns[t])] ELSE compare
      /\ stray' = IF first(m, t, tns[t]) THEN stray \ {m} ELSE stray
      /\ ilock' = [ilock EXCEPT ![t] = none]
      /\ pc' = [pc EXCEPT ![m] = return(m)]
      /\ forget(m)
      /\ UNCHANGED <<fastticks, tns, cur, now, apart>>

\* ilock(dt), and tt = dt->tt; a timer on no list is left alone.
timerdel(m, t) ==
  /\ callable(m)
  /\ ilock[t] = none
  /\ tt[t] # none
  /\ ilock' = [ilock EXCEPT ![t] = m]
  /\ ltt' = [ltt EXCEPT ![m] = tt[t]]
  /\ arg' = [arg EXCEPT ![m] = t]
  /\ pc' = [pc EXCEPT ![m] = "tdel"]
  /\ UNCHANGED <<fastticks, list, tt, twhen, tns, compare, cur, now, stray, apart>>

\* timerset if the first of this processor's timers went and another is left.
timerdelDel(m) ==
  LET t == arg[m]
      l == list[ltt[m]]
      head == tt[t] # none /\ l[1] = t /\ Len(l) > 1
  IN  /\ pc[m] = "tdel"
      /\ canilock(ltt[m])
      /\ tdel(t)
      /\ compare' = IF head /\ ltt[m] = m
                    THEN [compare EXCEPT ![m] = twhen[l[2]]] ELSE compare
      /\ stray' = IF head /\ ltt[m] = m THEN stray \ {m} ELSE stray
      /\ ilock' = [ilock EXCEPT ![t] = none]
      /\ pc' = [pc EXCEPT ![m] = return(m)]
      /\ forget(m)
      /\ UNCHANGED <<fastticks, twhen, tns, cur, now, apart>>

\* history: timerset sets the clock of m, which is not that of the list.
strayed(m) == IF m = Mach0 THEN {} ELSE {m, Mach0}

\* history: the only timer of this period is out, with its function running.
parted(ns) ==
  IF /\ cur[Mach0] \in Periodic /\ tns[cur[Mach0]] = ns
     /\ \A t \in ToSet(list[Mach0]) \cap Periodic : tns[t] # ns
  THEN {ns} ELSE {}

\* Mutant: a new timer is not brought in phase.
addclock0link_now(m, t, ns) ==
  /\ pc[m] = "run" /\ canilock(Mach0)
  /\ twhen[t] = 0
  /\ tns' = [tns EXCEPT ![t] = ns]
  /\ twhen' = [twhen EXCEPT ![t] = fastticks + ns]
  /\ list' = [list EXCEPT ![Mach0] = InsertAt(@, place(Mach0, fastticks + ns), t)]
  /\ tt' = [tt EXCEPT ![t] = Mach0]
  /\ IF place(Mach0, fastticks + ns) = 1
     THEN compare' = [compare EXCEPT ![m] = fastticks + ns] /\ stray' = stray \cup strayed(m)
     ELSE UNCHANGED <<compare, stray>>
  /\ apart' = apart \cup parted(ns)
  /\ UNCHANGED <<fastticks, ilock, pc, arg, ltt, cur, now>>

\* A new periodic timer on the list of the first processor, by a process on
\* any processor m: drivers do it when they are initialised and when they are
\* used first.  If it comes first there, the clock that is set is m's.
addclock0link(m, t, ns) ==
  /\ pc[m] = "run" /\ canilock(Mach0)
  /\ twhen[t] = 0
  /\ tns' = [tns EXCEPT ![t] = ns]
  /\ tadd(Mach0, t, ns)
  /\ IF first(Mach0, t, ns)
     THEN /\ compare' = [compare EXCEPT ![m] = when(Mach0, t, ns)]
          /\ stray' = stray \cup strayed(m)
     ELSE UNCHANGED <<compare, stray>>
  /\ apart' = apart \cup parted(ns)
  /\ UNCHANGED <<fastticks, ilock, pc, arg, ltt, cur, now>>

-----------------------------------------------------------------------------
(* The clock and timerintr *)

tick ==
  /\ fastticks < MaxTime
  /\ fastticks' = fastticks + 1
  /\ UNCHANGED <<list, tt, twhen, tns, ilock, compare, pc, arg, ltt, cur, now, stray, apart>>

\* The interrupt of processor m comes, not before the time it is set for.
timerintr(m) ==
  /\ pc[m] = "run"
  /\ compare[m] # none /\ compare[m] <= fastticks
  /\ compare' = [compare EXCEPT ![m] = none]
  /\ now' = [now EXCEPT ![m] = fastticks]
  /\ pc' = [pc EXCEPT ![m] = "enter"]
  /\ UNCHANGED <<fastticks, list, tt, twhen, tns, ilock, arg, ltt, cur, stray, apart>>

timerintrLock(m) ==
  /\ pc[m] = "enter"
  /\ pc' = [pc EXCEPT ![m] = "loop"]
  /\ UNCHANGED <<fastticks, list, tt, twhen, tns, ilock, compare, arg, ltt, cur, now, stray, apart>>

\* The first timer's time has come: off the list, and run its function.
timerintrFire(m) ==
  /\ pc[m] = "loop"
  /\ list[m] # <<>> /\ twhen[Head(list[m])] <= now[m]
  /\ cur' = [cur EXCEPT ![m] = Head(list[m])]
  /\ tt' = [tt EXCEPT ![Head(list[m])] = none]
  /\ list' = [list EXCEPT ![m] = Tail(@)]
  /\ pc' = [pc EXCEPT ![m] = "tf"]
  /\ UNCHANGED <<fastticks, twhen, tns, ilock, compare, arg, ltt, now, stray, apart>>

\* The function has returned; a periodic timer goes back.
timerintrNext(m) ==
  /\ pc[m] = "tf"
  /\ IF cur[m] \in Periodic THEN tadd(m, cur[m], tns[cur[m]])
                            ELSE UNCHANGED <<list, tt, twhen>>
  /\ cur' = [cur EXCEPT ![m] = none]
  /\ pc' = [pc EXCEPT ![m] = "loop"]
  /\ UNCHANGED <<fastticks, tns, ilock, compare, arg, ltt, now, stray, apart>>

\* The rest is later, or there is none.
timerintrReturn(m) ==
  /\ pc[m] = "loop"
  /\ list[m] # <<>> => twhen[Head(list[m])] > now[m]
  /\ compare' = IF list[m] = <<>> THEN compare
                ELSE [compare EXCEPT ![m] = twhen[Head(list[m])]]
  /\ stray' = IF list[m] = <<>> THEN stray ELSE stray \ {m}
  /\ now' = [now EXCEPT ![m] = 0]
  /\ pc' = [pc EXCEPT ![m] = "run"]
  /\ UNCHANGED <<fastticks, list, tt, twhen, tns, ilock, arg, ltt, cur, apart>>

-----------------------------------------------------------------------------
TimersNext ==
  \/ tick
  \/ \E m \in Machs :
       \/ timeraddDel(m) \/ timeraddAdd(m) \/ timerdelDel(m)
       \/ timerintr(m) \/ timerintrLock(m) \/ timerintrFire(m)
       \/ timerintrNext(m) \/ timerintrReturn(m)
       \/ \E t \in Relative : timerdel(m, t) \/ \E ns \in Delays : timeradd(m, t, ns)
       \/ \E t \in Links, ns \in Periods : addclock0link(m, t, ns)

TimersSpec == TimersInit /\ [][TimersNext]_timersvars

-----------------------------------------------------------------------------
(***************************************************************************)
(* Properties.                                                             *)
(***************************************************************************)
\* No timer is forgotten: outside timerintr every processor with timers has
\* its clock set, and set to interrupt it no later than any timer of its list
\* wants, also when timers are deleted or moved by another processor; and the
\* list is in the order of times, as timerintr relies on when it stops at the
\* first that is later.  addclock0link on another processor than the first sets
\* the wrong clock: the two processors concerned are excepted until they set
\* their clocks for their own lists again, which they do at the next interrupt.
InterruptSet ==
  /\ TimersTypeOK
  /\ \A m \in Machs :
       /\ \A i, j \in DOMAIN list[m] : i < j => twhen[list[m][i]] <= twhen[list[m][j]]
       /\ pc[m] \notin {"enter", "loop"} /\ cur[m] = none =>
            \A t \in ToSet(list[m]) :
              compare[m] # none /\ (m \notin stray => compare[m] <= twhen[t])

\* "look for another timer at same frequency for combining": timers of one
\* period on one list go off together, and stay together when they are served
\* late, and whichever processor links them in; except for a period of which
\* one was linked while the only other was in the hands of timerintr.
Combined ==
  \A m \in Machs : \A t, u \in ToSet(list[m]) \cap Periodic :
    tns[t] = tns[u] /\ tns[t] \notin apart => (twhen[t] - twhen[u]) % tns[t] = 0
=============================================================================

----------------------------- MODULE Rendezvous -----------------------------
(***************************************************************************)
(* The rendezvous system call, sysrendezvous in sys/src/9/port/sysproc.c,  *)
(* and how postnote in proc.c pulls a process out of one.                  *)
(*                                                                         *)
(* One Rgrp and one bucket of its hash table, in which all the tags meet.  *)
(* The lock of the Rgrp is held over a step only by a process that spins   *)
(* until its partner has left its processor.  A process passes its own     *)
(* name as value.                                                          *)
(***************************************************************************)
EXTENDS Integers, Sequences, SequencesExt

CONSTANTS Procs,   \* processes of one tag space
          Posters, \* those who post notes to them
          Tags,    \* tags of rendezvous
          nil      \* the null pointer

Nobody == "~0"   \* the value of an interrupted rendezvous

ASSUME RendezvousAssumption == nil \notin Procs /\ Nobody \notin Procs

VARIABLES
  rendhash,    \* the bucket: processes that wait, the last to come at its end
  rendtag,     \* p->rendtag
  rendval,     \* p->rendval
  state,       \* p->state
  mach,        \* whether p->mach != 0: p is on a processor
  runq,        \* the processes that were readied
  notepending, \* p->notepending
  rgrp,        \* who spins with the lock of the Rgrp
  pc,          \* where p is
  npc,         \* where poster n is
  target,      \* the process it posts to
  mate         \* whom p has met, until p returns (not in the code)

vars == <<rendhash, rendtag, rendval, state, mach, runq, notepending, rgrp, pc,
          npc, target, mate>>

(***************************************************************************)
(* Control points of a process: "user"; "call" in sysrendezvous, before    *)
(* lock(up->rgrp); "spin" waiting for its partner's mach to be 0; "sched"  *)
(* in the list, before sched(); "off" in sched(); "ret" after it.  Of a    *)
(* poster: "idle"; "look" with the note posted, before it looks at         *)
(* p->state; "lock" before lock(p->rgrp).                                  *)
(***************************************************************************)
PCs == {"user", "call", "spin", "sched", "off", "ret"}
NPCs == {"idle", "look", "lock"}

(***************************************************************************)
(* Types and representation.  The lock is held by the one that spins.  The *)
(* list holds just those that wait and are not met, so that nobody is met  *)
(* twice or after it was interrupted; the one that is met but still on its *)
(* processor is out of the list already.  A process is readied once, by    *)
(* its partner or by a note.                                               *)
(***************************************************************************)
TypeOK ==
  /\ rendhash \in Seq(Procs) /\ runq \in Seq(Procs)
  /\ rendtag \in [Procs -> Tags \cup {nil}]
  /\ rendval \in [Procs -> Procs \cup {Nobody}]
  /\ state \in [Procs -> {"Running", "Rendezvous", "Ready"}]
  /\ mach \in [Procs -> BOOLEAN] /\ notepending \in [Procs -> BOOLEAN]
  /\ rgrp \in Procs \cup {nil}
  /\ pc \in [Procs -> PCs] /\ npc \in [Posters -> NPCs]
  /\ target \in [Posters -> Procs \cup {nil}]
  /\ mate \in [Procs -> Procs \cup {nil}]
  /\ \A p \in Procs : rgrp = p <=> pc[p] = "spin"
  /\ IsInjective(rendhash) /\ IsInjective(runq)
  /\ \A p \in Procs :
       p \in ToSet(rendhash) <=> state[p] = "Rendezvous" /\ mate[p] = nil
  /\ \A p \in ToSet(runq) : state[p] = "Ready" /\ pc[p] \in {"sched", "off"}

Init ==
  /\ rendhash = <<>> /\ runq = <<>>
  /\ rendtag = [p \in Procs |-> nil]
  /\ rendval = [p \in Procs |-> Nobody]
  /\ state = [p \in Procs |-> "Running"]
  /\ mach = [p \in Procs |-> TRUE] /\ notepending = [p \in Procs |-> FALSE]
  /\ rgrp = nil
  /\ pc = [p \in Procs |-> "user"] /\ npc = [n \in Posters |-> "idle"]
  /\ target = [n \in Posters |-> nil]
  /\ mate = [p \in Procs |-> nil]

-----------------------------------------------------------------------------
\* ready(p)
ready(p) ==
  /\ state' = [state EXCEPT ![p] = "Ready"]
  /\ runq' = Append(runq, p)

\* Where in the list the first to wait with tag t is; 0 if nobody does.
waiting(t) == SelectInSeq(rendhash, LAMBDA q : rendtag[q] = t)

\* sysrendezvous with tag t.  rendtag[p] is the argument until p waits.
sysrendezvous(p, t) ==
  /\ pc[p] = "user"
  /\ rendtag' = [rendtag EXCEPT ![p] = t]
  /\ rendval' = [rendval EXCEPT ![p] = Nobody]
  /\ pc' = [pc EXCEPT ![p] = "call"]
  /\ UNCHANGED <<rendhash, state, mach, runq, notepending, rgrp, npc, target, mate>>

\* A partner q waits: out of the list with it, and exchange values.
\* rendval[p] stands for the local val here.
sysrendezvousMeet(p) ==
  LET i == waiting(rendtag[p])
      q == rendhash[i]
  IN  /\ pc[p] = "call"
      /\ rgrp = nil
      /\ i # 0
      /\ rendhash' = RemoveAt(rendhash, i)
      /\ rendval' = [rendval EXCEPT ![q] = p, ![p] = rendval[q]]
      /\ mate' = [mate EXCEPT ![q] = p, ![p] = q]
      /\ rgrp' = p
      /\ pc' = [pc EXCEPT ![p] = "spin"]
      /\ UNCHANGED <<rendtag, state, mach, runq, notepending, npc, target>>

\* Mutant: the partner is not readied.
sysrendezvousReady_not(p) ==
  /\ pc[p] = "spin"
  /\ ~mach[mate[p]]
  /\ rgrp' = nil
  /\ pc' = [pc EXCEPT ![p] = "ret"]
  /\ UNCHANGED <<rendhash, rendtag, rendval, state, runq, mach, notepending, npc, target, mate>>

\* while(p->mach != 0); ready(p); unlock; return val.
sysrendezvousReady(p) ==
  /\ pc[p] = "spin"
  /\ ~mach[mate[p]]
  /\ ready(mate[p])
  /\ rgrp' = nil
  /\ pc' = [pc EXCEPT ![p] = "ret"]
  /\ UNCHANGED <<rendhash, rendtag, rendval, mach, notepending, npc, target, mate>>

\* Nobody is there: into the list, and to sleep.
sysrendezvousWait(p) ==
  /\ pc[p] = "call"
  /\ rgrp = nil
  /\ waiting(rendtag[p]) = 0
  /\ rendval' = [rendval EXCEPT ![p] = p]
  /\ rendhash' = Append(rendhash, p)
  /\ state' = [state EXCEPT ![p] = "Rendezvous"]
  /\ pc' = [pc EXCEPT ![p] = "sched"]
  /\ UNCHANGED <<rendtag, mach, runq, notepending, rgrp, npc, target, mate>>

\* sched() and schedinit: up->mach = nil.
sched(p) ==
  /\ pc[p] = "sched"
  /\ mach' = [mach EXCEPT ![p] = FALSE]
  /\ pc' = [pc EXCEPT ![p] = "off"]
  /\ UNCHANGED <<rendhash, rendtag, rendval, state, runq, notepending, rgrp, npc, target, mate>>

\* A processor takes p off the run queue, which it cannot before p has left
\* its last one.
runproc(p) ==
  /\ p \in ToSet(runq)
  /\ ~mach[p]
  /\ runq' = RemoveFirst(runq, p)
  /\ mach' = [mach EXCEPT ![p] = TRUE]
  /\ state' = [state EXCEPT ![p] = "Running"]
  /\ pc' = [pc EXCEPT ![p] = "ret"]
  /\ UNCHANGED <<rendhash, rendtag, rendval, notepending, rgrp, npc, target, mate>>

\* return up->rendval, and notify() on the way to user mode.  The tag and the
\* value are not used any more: the model forgets them.
sysrendezvousReturn(p) ==
  /\ pc[p] = "ret"
  /\ pc' = [pc EXCEPT ![p] = "user"]
  /\ notepending' = [notepending EXCEPT ![p] = FALSE]
  /\ mate' = [mate EXCEPT ![p] = nil]
  /\ rendtag' = [rendtag EXCEPT ![p] = nil]
  /\ rendval' = [rendval EXCEPT ![p] = Nobody]
  /\ UNCHANGED <<rendhash, state, mach, runq, rgrp, npc, target>>

\* p is notified in user mode.
notify(p) ==
  /\ pc[p] = "user" /\ notepending[p]
  /\ notepending' = [notepending EXCEPT ![p] = FALSE]
  /\ UNCHANGED <<rendhash, rendtag, rendval, state, mach, runq, rgrp, pc, npc, target, mate>>

-----------------------------------------------------------------------------
(* postnote, to a process that does not sleep on a Rendez *)

postnote(n, p) ==
  /\ npc[n] = "idle"
  /\ notepending' = [notepending EXCEPT ![p] = TRUE]
  /\ target' = [target EXCEPT ![n] = p]
  /\ npc' = [npc EXCEPT ![n] = "look"]
  /\ UNCHANGED <<rendhash, rendtag, rendval, state, mach, runq, rgrp, pc, mate>>

posted(n) ==
  /\ npc' = [npc EXCEPT ![n] = "idle"]
  /\ target' = [target EXCEPT ![n] = nil]

\* if(p->state != Rendezvous) return; without a lock.
postnoteNone(n) ==
  /\ npc[n] = "look"
  /\ state[target[n]] # "Rendezvous"
  /\ posted(n)
  /\ UNCHANGED <<rendhash, rendtag, rendval, state, mach, runq, notepending, rgrp, pc, mate>>

postnoteLook(n) ==
  /\ npc[n] = "look"
  /\ state[target[n]] = "Rendezvous"
  /\ npc' = [npc EXCEPT ![n] = "lock"]
  /\ UNCHANGED <<rendhash, rendtag, rendval, state, mach, runq, notepending, rgrp, pc, target,
                 mate>>

\* Mutant: the state is not tested again under the lock.
postnotePull_unchecked(n) ==
  LET p == target[n]
  IN  /\ npc[n] = "lock"
      /\ rgrp = nil
      /\ rendval' = [rendval EXCEPT ![p] = Nobody]
      /\ rendhash' = RemoveFirst(rendhash, p)
      /\ ready(p)
      /\ posted(n)
      /\ UNCHANGED <<rendtag, mach, notepending, rgrp, pc, mate>>

\* Still in a rendezvous: take it out.
postnotePull(n) ==
  LET p == target[n]
  IN  /\ npc[n] = "lock"
      /\ rgrp = nil
      /\ state[p] = "Rendezvous"
      /\ rendval' = [rendval EXCEPT ![p] = Nobody]
      /\ rendhash' = RemoveFirst(rendhash, p)
      /\ ready(p)
      /\ posted(n)
      /\ UNCHANGED <<rendtag, mach, notepending, rgrp, pc, mate>>

\* It was met meanwhile.
postnoteLate(n) ==
  /\ npc[n] = "lock"
  /\ rgrp = nil
  /\ state[target[n]] # "Rendezvous"
  /\ posted(n)
  /\ UNCHANGED <<rendhash, rendtag, rendval, state, mach, runq, notepending, rgrp, pc, mate>>

-----------------------------------------------------------------------------
\* What p does once it is in the system call.
Proceed(p) ==
  \/ sysrendezvousMeet(p) \/ sysrendezvousReady(p) \/ sysrendezvousWait(p)
  \/ sched(p) \/ runproc(p) \/ sysrendezvousReturn(p)

Next ==
  \/ \E p \in Procs :
       \/ Proceed(p) \/ notify(p)
       \/ \E t \in Tags : sysrendezvous(p, t)
       \/ \E n \in Posters : postnote(n, p)
  \/ \E n \in Posters : postnoteNone(n) \/ postnoteLook(n) \/ postnotePull(n) \/ postnoteLate(n)

Spec == Init /\ [][Next]_vars

\* Processes on a processor run, and those that were readied get one.
Fairness == \A p \in Procs : WF_vars(Proceed(p))

FairSpec == Spec /\ Fairness

-----------------------------------------------------------------------------
(***************************************************************************)
(* Properties.                                                             *)
(***************************************************************************)
\* rendezvous(2): the values are exchanged.  When one of the two has met
\* the other, the other gets its value, whatever notes are posted to it
\* before it runs; and no two processes wait for one another with one tag.
Exchanged ==
  /\ TypeOK
  /\ \A p \in Procs : mate[p] # nil => rendval[p] = mate[p]
  /\ \A p, q \in ToSet(rendhash) : rendtag[p] = rendtag[q] => p = q

\* rendezvous(2): both processes are awakened when the rendezvous succeeds.
BothReturn == \A p \in Procs : mate[p] # nil ~> mate[p] = nil

\* notify(2): a note interrupts a system call.  A process does not stay in a
\* rendezvous with a note pending that nobody is still delivering.
\* The code does not keep this: README.md, Findings.
NoteNotSleptThrough ==
  \A p \in Procs :
    p \in ToSet(rendhash) /\ pc[p] = "off" /\ notepending[p] =>
      \E n \in Posters : target[n] = p
=============================================================================

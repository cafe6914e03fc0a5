-------------------------------- MODULE Wait --------------------------------
(***************************************************************************)
(* Exit and wait: the end of pexit, pwait and newproc in                   *)
(* sys/src/9/port/proc.c, sysrfork's count of children, and the read of a  *)
(* /proc/n/wait file in devproc.c.                                         *)
(*                                                                         *)
(* One Proc structure p lives through several processes, one after the     *)
(* other; its children, and readers of its wait file, outlive it.  Every   *)
(* section under lock(&p->exl) is one step.  Those who test p->waitq or    *)
(* p->pid without that lock do so in steps of their own.                   *)
(***************************************************************************)
EXTENDS Integers, FiniteSets, Sequences, SequencesExt

CONSTANTS Children,   \* child processes; each leaves at most one record
          Readers,    \* processes that read the wait file
          MaxWait,    \* records kept for a parent: 2000 in the code
          MaxPid,     \* bound: processes that use the structure
          nil         \* the null pointer

ASSUME WaitAssumption ==
  /\ MaxWait \in Nat \ {0} /\ MaxPid \in Nat \ {0}
  /\ nil \notin Children \cup Readers \cup {"p"} /\ Children \cap Readers = {}
  /\ "p" \notin Readers /\ IsFiniteSet(Children)

VARIABLES
  pid,      \* p->pid, 0 from the end of pexit on
  lastpid,  \* pids handed out so far
  nchild,   \* p->nchild
  nwait,    \* p->nwait
  waitq,    \* p->waitq, newest first; a record is named by its child
  qwaitr,   \* who holds p->qwaitr: "p", a reader, or nil
  ppc,      \* where p is
  tofree,   \* the local f of pexit: records still to be freed
  parent,   \* parentpid of each living child, 0 if it does not live
  alloc,    \* the records whose memory is allocated
  rpc,      \* where each reader is
  rpid,     \* the pid in the qid of the file it reads
  lpid,     \* its local pid
  wq        \* the local wq of each reader, and of p in pwait

vars == <<pid, lastpid, nchild, nwait, waitq, qwaitr, ppc, tofree, parent,
          alloc, rpc, rpid, lpid, wq>>
proc == <<pid, lastpid, nchild, nwait, tofree, parent, alloc>>
reader == <<rpc, rpid, lpid>>

(***************************************************************************)
(* Control points of p: "run" in user mode; "einuse" in an await that      *)
(* fails; "pwait" with qwaitr; "sleep", "asleep", "woke" in                *)
(* sleep(&up->waitr, haswaitq, up); "took" a record taken off the list;    *)
(* "broken" in addbroken; "exiting" out of it; "freeing" after the last    *)
(* lock(&up->exl) of pexit; "free" on the free list.  Of a reader: "idle"; *)
(* "check" past the test of p->pid; "exl" with qwaitr; "sleep", "asleep",  *)
(* "woke" in its sleep; "again" past the second test of p->pid; "took".    *)
(***************************************************************************)
PPCs == {"run", "einuse", "pwait", "sleep", "asleep", "woke", "took", "broken",
         "exiting", "freeing", "free"}
RPCs == {"idle", "check", "exl", "sleep", "asleep", "woke", "again", "took"}

(***************************************************************************)
(* Types, and qwaitr is held by whoever is between canqlock and qunlock.   *)
(***************************************************************************)
TypeOK ==
  /\ pid \in 0..MaxPid /\ lastpid \in 1..MaxPid
  /\ nchild \in Nat /\ nwait \in Nat
  /\ waitq \in Seq(Children) /\ tofree \in Seq(Children)
  /\ qwaitr \in Readers \cup {"p", nil}
  /\ ppc \in PPCs /\ rpc \in [Readers -> RPCs]
  /\ parent \in [Children -> 0..MaxPid]
  /\ alloc \subseteq Children
  /\ rpid \in [Readers -> 0..MaxPid] /\ lpid \in [Readers -> 0..MaxPid]
  /\ wq \in [Readers \cup {"p"} -> Children \cup {nil}]
  /\ qwaitr = "p" <=> ppc \in {"pwait", "sleep", "asleep", "woke"}
  /\ \A r \in Readers :
       qwaitr = r <=> rpc[r] \in {"exl", "sleep", "asleep", "woke", "again"}

Init ==
  /\ pid = 1 /\ lastpid = 1
  /\ nchild = 0 /\ nwait = 0
  /\ waitq = <<>> /\ tofree = <<>>
  /\ qwaitr = nil
  /\ ppc = "run" /\ rpc = [r \in Readers |-> "idle"]
  /\ parent = [c \in Children |-> 0]
  /\ alloc = {}
  /\ rpid = [r \in Readers |-> 0] /\ lpid = [r \in Readers |-> 0]
  /\ wq = [x \in Readers \cup {"p"} |-> nil]

-----------------------------------------------------------------------------
\* wakeup(&p->waitr): whoever is asleep there, p itself or a reader.
wakeup ==
  /\ ppc' = IF ppc = "asleep" THEN "woke" ELSE ppc
  /\ rpc' = [r \in Readers |-> IF rpc[r] = "asleep" THEN "woke" ELSE rpc[r]]

haswaitq == waitq # <<>>

\* Take the newest record off p->waitq, under exl, and give qwaitr back.
\* An empty list would be a nil pointer: see WaitsForChild.
takerecord(x) ==
  /\ waitq # <<>>
  /\ wq' = [wq EXCEPT ![x] = Head(waitq)]
  /\ waitq' = Tail(waitq)
  /\ nwait' = nwait - 1
  /\ qwaitr' = nil

-----------------------------------------------------------------------------
(* The parent *)

\* sysrfork without RFNOWAIT.
sysrfork(c) ==
  /\ ppc = "run"
  /\ parent[c] = 0 /\ c \notin alloc
  /\ parent' = [parent EXCEPT ![c] = pid]
  /\ nchild' = nchild + 1
  /\ UNCHANGED <<pid, lastpid, nwait, waitq, qwaitr, ppc, tofree, alloc, reader, wq>>

\* canqlock(&up->qwaitr) fails: error(Einuse).
pwaitBusy ==
  /\ ppc = "run"
  /\ qwaitr # nil
  /\ ppc' = "einuse"
  /\ UNCHANGED <<proc, waitq, qwaitr, reader, wq>>

pwaitEinuse ==
  /\ ppc = "einuse"
  /\ ppc' = "run"
  /\ UNCHANGED <<proc, waitq, qwaitr, reader, wq>>

pwait ==
  /\ ppc = "run"
  /\ qwaitr = nil
  /\ qwaitr' = "p"
  /\ ppc' = "pwait"
  /\ UNCHANGED <<proc, waitq, reader, wq>>

\* error(Enochild), or on to sleep.
pwaitNochild ==
  /\ ppc = "pwait"
  /\ nchild = 0 /\ waitq = <<>>
  /\ qwaitr' = nil
  /\ ppc' = "run"
  /\ UNCHANGED <<proc, waitq, reader, wq>>

\* Mutant: the test for children is left out.
pwaitSome_always ==
  /\ ppc = "pwait"
  /\ ppc' = "sleep"
  /\ UNCHANGED <<proc, waitq, qwaitr, reader, wq>>

pwaitSome ==
  /\ ppc = "pwait"
  /\ ~(nchild = 0 /\ waitq = <<>>)
  /\ ppc' = "sleep"
  /\ UNCHANGED <<proc, waitq, qwaitr, reader, wq>>

pwaitSleep ==
  /\ ppc = "sleep"
  /\ ppc' = IF haswaitq THEN "woke" ELSE "asleep"
  /\ UNCHANGED <<proc, waitq, qwaitr, reader, wq>>

\* A note: error(Eintr), qunlock.
pwaitEintr ==
  /\ ppc \in {"asleep", "woke"}
  /\ qwaitr' = nil
  /\ ppc' = "run"
  /\ UNCHANGED <<proc, waitq, reader, wq>>

pwaitTake ==
  /\ ppc = "woke"
  /\ takerecord("p")
  /\ ppc' = "took"
  /\ UNCHANGED <<pid, lastpid, nchild, tofree, parent, alloc, reader>>

pwaitReturn ==
  /\ ppc = "took"
  /\ alloc' = alloc \ {wq["p"]}
  /\ wq' = [wq EXCEPT !["p"] = nil]
  /\ ppc' = "run"
  /\ UNCHANGED <<pid, lastpid, nchild, nwait, waitq, qwaitr, tofree, parent, reader>>

\* pexit of p: it may stay broken for a debugger first ...
addbroken ==
  /\ ppc = "run"
  /\ ppc' = "broken"
  /\ UNCHANGED <<proc, waitq, qwaitr, reader, wq>>

\* ... until somebody lets it go ...
unbreak ==
  /\ ppc = "broken"
  /\ ppc' = "exiting"
  /\ UNCHANGED <<proc, waitq, qwaitr, reader, wq>>

\* ... then, under exl, it gives up its pid and wakes a reader.  Children that
\* exit later leave no record.
pexit ==
  /\ ppc \in {"run", "exiting"}
  /\ pid' = 0
  /\ tofree' = waitq
  /\ ppc' = "freeing"
  /\ rpc' = [r \in Readers |-> IF rpc[r] = "asleep" THEN "woke" ELSE rpc[r]]
  /\ UNCHANGED <<lastpid, nchild, nwait, waitq, qwaitr, parent, alloc, rpid, lpid, wq>>

\* Free the records, without exl; p->waitq keeps pointing at them.
pexitFree ==
  /\ ppc = "freeing"
  /\ tofree # <<>>
  /\ alloc' = alloc \ {Head(tofree)}
  /\ tofree' = Tail(tofree)
  /\ UNCHANGED <<pid, lastpid, nchild, nwait, waitq, qwaitr, ppc, parent, reader, wq>>

\* sched(), and schedinit puts the structure on the free list.
schedinit ==
  /\ ppc = "freeing"
  /\ tofree = <<>>
  /\ ppc' = "free"
  /\ UNCHANGED <<proc, waitq, qwaitr, reader, wq>>

\* Mutant: p->nchild is left over from the last process.
newproc_nchild ==
  /\ ppc = "free"
  /\ lastpid < MaxPid
  /\ pid' = lastpid + 1 /\ lastpid' = lastpid + 1
  /\ nwait' = 0 /\ waitq' = <<>>
  /\ ppc' = "run"
  /\ UNCHANGED <<nchild, qwaitr, tofree, parent, alloc, reader, wq>>

\* The next process gets the structure; p->qwaitr is left as it is.
newproc ==
  /\ ppc = "free"
  /\ lastpid < MaxPid
  /\ pid' = lastpid + 1 /\ lastpid' = lastpid + 1
  /\ nchild' = 0 /\ nwait' = 0 /\ waitq' = <<>>
  /\ ppc' = "run"
  /\ UNCHANGED <<qwaitr, tofree, parent, alloc, reader, wq>>

-----------------------------------------------------------------------------
(* A child exits. *)

\* The parent is still there, and has room for a record.
pexitRecord(c) ==
  /\ parent[c] # 0
  /\ pid = parent[c] /\ ppc # "broken"
  /\ nwait < MaxWait
  /\ parent' = [parent EXCEPT ![c] = 0]
  /\ nchild' = nchild - 1
  /\ alloc' = alloc \cup {c}
  /\ waitq' = <<c>> \o waitq
  /\ nwait' = nwait + 1
  /\ wakeup
  /\ UNCHANGED <<pid, lastpid, qwaitr, tofree, rpid, lpid, wq>>

\* Mutant: the record that is not left is not freed.
pexitFull_leaks(c) ==
  /\ parent[c] # 0
  /\ pid = parent[c] /\ ppc # "broken"
  /\ nwait >= MaxWait
  /\ parent' = [parent EXCEPT ![c] = 0]
  /\ nchild' = nchild - 1
  /\ alloc' = alloc \cup {c}
  /\ UNCHANGED <<pid, lastpid, nwait, waitq, qwaitr, ppc, tofree, reader, wq>>

\* The parent has too many records: no record, and nobody is woken.
pexitFull(c) ==
  /\ parent[c] # 0
  /\ pid = parent[c] /\ ppc # "broken"
  /\ nwait >= MaxWait
  /\ parent' = [parent EXCEPT ![c] = 0]
  /\ nchild' = nchild - 1
  /\ UNCHANGED <<pid, lastpid, nwait, waitq, qwaitr, ppc, tofree, alloc, reader, wq>>

\* The parent is gone or broken.
pexitOrphan(c) ==
  /\ parent[c] # 0
  /\ pid # parent[c] \/ ppc = "broken"
  /\ parent' = [parent EXCEPT ![c] = 0]
  /\ UNCHANGED <<pid, lastpid, nchild, nwait, waitq, qwaitr, ppc, tofree, alloc, reader, wq>>

-----------------------------------------------------------------------------
(* procread of the wait file *)

\* The file of the process p is now: p->pid == PID(c->qid).
procread(r) ==
  /\ rpc[r] = "idle"
  /\ pid # 0
  /\ rpid' = [rpid EXCEPT ![r] = pid]
  /\ rpc' = [rpc EXCEPT ![r] = "check"]
  /\ UNCHANGED <<proc, waitq, qwaitr, ppc, lpid, wq>>

procreadDone(r) ==
  /\ rpc' = [rpc EXCEPT ![r] = "idle"]
  /\ rpid' = [rpid EXCEPT ![r] = 0]
  /\ lpid' = [lpid EXCEPT ![r] = 0]

procreadBusy(r) ==
  /\ rpc[r] = "check"
  /\ qwaitr # nil
  /\ procreadDone(r)
  /\ UNCHANGED <<proc, waitq, qwaitr, ppc, wq>>

procreadLock(r) ==
  /\ rpc[r] = "check"
  /\ qwaitr = nil
  /\ qwaitr' = r
  /\ rpc' = [rpc EXCEPT ![r] = "exl"]
  /\ UNCHANGED <<proc, waitq, ppc, rpid, lpid, wq>>

\* Under exl: at first pid = p->pid; and the test of p->waitq.
procreadEmpty(r) ==
  /\ rpc[r] \in {"exl", "again"}
  /\ lpid' = [lpid EXCEPT ![r] = IF rpc[r] = "exl" THEN pid ELSE @]
  /\ waitq = <<>>
  /\ rpc' = [rpc EXCEPT ![r] = "sleep"]
  /\ UNCHANGED <<proc, waitq, qwaitr, ppc, rpid, wq>>

procreadTake(r) ==
  /\ rpc[r] \in {"exl", "again"}
  /\ takerecord(r)
  /\ rpc' = [rpc EXCEPT ![r] = "took"]
  /\ UNCHANGED <<pid, lastpid, nchild, ppc, tofree, parent, alloc, rpid, lpid>>

procreadSleep(r) ==
  /\ rpc[r] = "sleep"
  /\ rpc' = [rpc EXCEPT ![r] = IF haswaitq THEN "woke" ELSE "asleep"]
  /\ UNCHANGED <<proc, waitq, qwaitr, ppc, rpid, lpid, wq>>

\* Awake, and p is still the same process: around the loop.
procreadAgain(r) ==
  /\ rpc[r] = "woke"
  /\ pid = lpid[r]
  /\ rpc' = [rpc EXCEPT ![r] = "again"]
  /\ UNCHANGED <<proc, waitq, qwaitr, ppc, rpid, lpid, wq>>

\* error(Eprocdied), or error(Eintr) from sleep.
procreadError(r) ==
  /\ \/ rpc[r] = "woke" /\ pid # lpid[r]
     \/ rpc[r] \in {"asleep", "woke"}
  /\ qwaitr' = nil
  /\ procreadDone(r)
  /\ UNCHANGED <<proc, waitq, ppc, wq>>

procreadReturn(r) ==
  /\ rpc[r] = "took"
  /\ alloc' = alloc \ {wq[r]}
  /\ wq' = [wq EXCEPT ![r] = nil]
  /\ procreadDone(r)
  /\ UNCHANGED <<pid, lastpid, nchild, nwait, waitq, qwaitr, ppc, tofree, parent>>

-----------------------------------------------------------------------------
Next ==
  \/ pwaitBusy \/ pwaitEinuse \/ pwait \/ pwaitNochild \/ pwaitSome \/ pwaitSleep \/ pwaitEintr
  \/ pwaitTake \/ pwaitReturn \/ addbroken \/ unbreak \/ pexit \/ pexitFree \/ schedinit \/ newproc
  \/ \E c \in Children : sysrfork(c) \/ pexitRecord(c) \/ pexitFull(c) \/ pexitOrphan(c)
  \/ \E r \in Readers :
       \/ procread(r) \/ procreadBusy(r) \/ procreadLock(r) \/ procreadEmpty(r)
       \/ procreadTake(r) \/ procreadSleep(r) \/ procreadAgain(r) \/ procreadError(r)
       \/ procreadReturn(r)

Spec == Init /\ [][Next]_vars

-----------------------------------------------------------------------------
(***************************************************************************)
(* Properties.                                                             *)
(***************************************************************************)
Living == {c \in Children : parent[c] = pid}

\* nchild and nwait are what pwait's decision to sleep relies on: as long as
\* p is neither broken nor exiting they count its living children and the
\* records in its waitq, whatever exits, waits and reads have gone on.
Counted ==
  /\ TypeOK
  /\ pid # 0 /\ ppc \notin {"broken", "exiting"} =>
       nchild = Cardinality(Living) /\ nwait = Len(waitq)

\* pwait sleeps only with no record to read and a child that will wake it,
\* also when children exited without leaving a record; and it takes the first
\* record without looking whether there is one: after the sleep there is,
\* because only the holder of qwaitr takes records.
WaitsForChild ==
  /\ ppc = "asleep" => waitq = <<>> /\ Living # {}
  /\ ppc = "woke" => waitq # <<>>

\* Nobody uses or frees a record that is freed already: neither the one who
\* took it nor pexit.
\* The code does not keep this: README.md, Findings.
RecordAlive ==
  /\ \A x \in Readers \cup {"p"} : wq[x] # nil => wq[x] \in alloc
  /\ ppc = "freeing" => \A i \in DOMAIN tofree : tofree[i] \in alloc

\* No record is leaked: each is in the list of a process that can still
\* wait for it, about to be freed by pexit, or in the hands of a waiter.
Accounted ==
  \A c \in alloc :
    \/ pid # 0 /\ c \in ToSet(waitq)
    \/ c \in ToSet(tofree)
    \/ \E x \in Readers \cup {"p"} : wq[x] = c

\* proc(3): a process draws an error from await while its wait file is
\* being read.  A wait that fails with Einuse because of a reader asleep on
\* p->waitr is the wait of the process whose file that reader opened, not
\* of a later process in the same structure.
\* The code does not keep this: README.md, Findings.
EinuseJustified ==
  [][ppc = "run" /\ ppc' = "einuse" =>
       \A r \in Readers : rpc[r] = "asleep" => rpid[r] = pid]_vars
=============================================================================

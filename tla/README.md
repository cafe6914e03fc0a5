# Plan 9: a TLA+ verification project

The repository is 9legacy, a Plan 9 distribution: a kernel, its file servers,
libraries and commands. This project verifies the parts of it that everything
else stands on and that tests hardly reach:

* the portable kernel's process synchronisation in `sys/src/9/port`: locks that
  block, sleep and wakeup, notes, timers, alarms, semaphores, rendezvous, exit
  and wait;
* its heaviest users: the mount driver, the multiplexer that turns file
  operations into 9P messages, and the stream queues of every device and
  protocol;
* one protocol over an unreliable network, the reliable datagrams of
  `sys/src/9/ip/rudp.c`;
* one program that must survive a crash, the block cache of the fossil file
  server in `sys/src/cmd/fossil`.

Contents: [inventory](#inventory), [modules](#modules),
[runs](#runs-and-bounds), [fairness](#fairness), [proofs](#proofs),
[findings](#findings), [limits](#limits), [plan](#plan).

## Inventory

Sources without a directory are in `sys/src/9/port/`.

| Component | Source | State | Operations |
|---|---|---|---|
| Queueing locks | `qlock.c` | `QLock`: spin lock `use`, `locked`, list of `Proc`s; `RWlock`: the same with `readers`, `writer` | `qlock canqlock qunlock`; `rlock canrlock runlock wlock wunlock` |
| Sleep and wakeup | `proc.c` | `Rendez.p`, `Proc.r`, `Proc.state`, `Proc.trend`, two spin locks | `sleep tsleep wakeup twakeup postnote` |
| Timers | `portclock.c` | a sorted list of `Timer`s per processor, `Timer.tt`, the clock's compare register | `timeradd timerdel timerintr addclock0link` |
| Alarms | `alarm.c` | list `alarms`, `Proc.alarm`, the kernel process `alarmkproc` | `procalarm checkalarms alarmkproc` |
| Semaphores | `sysproc.c` | a word in user memory, a list of `Sema`s per segment, each on its process's stack | `semacquire tsemacquire semrelease` |
| Rendezvous | `sysproc.c`, `proc.c` | hash table of waiting processes per `Rgrp` | `sysrendezvous`, the second half of `postnote` |
| Exit and wait | `proc.c`, `sysproc.c`, `devproc.c` | `pid nchild nwait waitq qwaitr` of a `Proc`, which is reused | `sysrfork pexit pwait newproc`, read of `/proc/n/wait` |
| Mount driver | `devmnt.c` | `Mnt`: queue of `Mntrpc`, reader in progress `rip`; tags | `mountrpc mountio mntrpcread mountmux mntgate` and flushes |
| Stream queues | `qio.c` | list of blocks, `len`, `dlen`, `limit`, flags `Qflow Qstarve Qclosed`, two `QLock`s, two `Rendez`es | `qget qdiscard qconsume qpass qproduce qread qbread qwrite qbwrite qiwrite qclose qhangup qreopen qflush qsetlimit qnoblock` |
| Reliable datagrams | `../ip/rudp.c` | a `Reliable` for each remote: sequence numbers, generations, unacknowledged messages | `rudpkick rudpiput relackproc relrexmit relhangup rudpclose` |
| Fossil | `../../cmd/fossil/{cache,source,fs,disk}.c` | cache of `Block`s with dependencies, labels and epochs; the disk | `cacheAllocBlock blockCopy blockWrite blockRemoveLink sourceBlock sourceGrowDepth sourceShrinkDepth bumpEpoch fsSnapshot fsEpochLow fsOpen`, flush and unlink threads |
| Spin locks | `taslock.c` | lock word, `Proc.nlocks` | not modelled; taken as atomic |
| Scheduler policy, EDF | `proc.c`, `edf.c` | run queues by priority | reduced to "a ready process is run" |
| Process files | `devproc.c` | `procctl`, `pdbg` | only the wait file |
| Name spaces, memory, drivers, other protocols, user libraries | | | not modelled, see [limits](#limits) |

How they interact. A process blocks by setting `up->state` and calling
`sched()`; it is put back by `ready(p)`. Between the two lies the hard part of
each mechanism: the one who calls `ready` may find the process before it has
reached `sched()`. Blocking locks queue processes under a spin lock.
`sleep`/`wakeup` tie a process to a `Rendez` under two spin locks; notes
(`postnote`) and timeouts (`twakeup`, from a clock interrupt on whatever
processor holds the timer) break the tie from outside. Alarms are notes posted
by a kernel process. Semaphores, `pwait` and the mount driver sleep on
`Rendez`es of their own; rendezvous bypasses `sleep` and sets the state itself.
Stream queues join interrupt routines to processes: both sides take a spin lock,
set a flag, unlock, and only then wake or kick the other. Rudp runs on them, with
a kernel process for its timers and with packets that come late, twice or never.
Fossil is a user program: its threads share a cache under one lock per block,
and what they share with the next boot is the disk, one block at a time.

What is hard in all of them: interleavings of several processors at points the
code does not protect (a state read before a lock and used after it, an action
taken after an unlock), a process interrupted half way by a note, objects whose
memory is reused (`Proc`, `Mntrpc`, stack frames) while somebody still refers
to them, a wakeup that must be passed on, counters and times at their limits,
messages of a connection that is over, and a machine that stops between two
writes. `PROJECT.json` lists the main ones at their lines with the properties
that would catch them.

What makes each component correct:

* QLock, RWlock: exclusion, first come first served, nobody left in the queue
  of a free lock, each waiter readied once, every waiter served.
* Sleep: a condition made true before `wakeup` is not slept through; nor is a
  note; `r->p` and `p->r` agree; a process is readied once; no panic.
* Timers: `t->tt` tells the truth, lists are sorted, assertions hold, and each
  processor's clock is set early enough for its first timer.
* Alarms: list in order on a clock that wraps; all due alarms posted.
* Semaphores: a positive semaphore does not leave all its waiters asleep; no
  `Sema` is touched after its frame is gone.
* Rendezvous: both sides succeed or neither; each readied once.
* Exit and wait: counts are exact; a waiting parent has something to wait for;
  records are neither lost nor leaked nor taken twice.
* Mount driver: a reply reaches its own request and no other; tags are not
  reused too soon; someone always reads; every call returns.
* Stream queues: bytes come out as they went in, each once; the counts are
  exact; nobody waits for what has already happened.
* Rudp: messages are passed on in order and once; what was acknowledged has
  arrived; a writer that waits will be woken.
* Fossil: at every moment the disk holds a file system, one that has what was
  flushed; a block that can be reached is not given out again; a snapshot keeps
  its contents; the flush thread finds no circular wait.

## Modules

One TLA+ variable stands for one field of the C structures or one local
variable that lives across an unlock; its comment names the field. `pc`
variables record where a process is, and each module lists its control points.
One action is one critical section or one statement others can observe;
its name is the function's, with a suffix for the branch taken
(`qunlockPass`: the branch of `qunlock` that finds a waiter). A spin lock that
is held only within one action is not a variable. Operators named
`something_else` with "Mutant" in their comment are wrong variants of the
definition below them, used to see that a property can fail.

* **FifoLock** is the abstract specification: a holder and a queue.
  **QLock** models `qlock`, `canqlock`, `qunlock` with the spin lock `use`
  explicit, `sched`, `ready` and `runproc` as separate steps.
  `ImplementsFifoLock` maps the owner to the holder.
* **RWlock** models the reader/writer lock; the loop of `wunlock` that readies
  readers is one step per reader, since those run at once. The two panics of the
  code are a property (`NoPanic`).
* **Sleep** goes down to `lock(r)` and `lock(&p->rlock)`. Processes sleep and
  migrate between processors; wakers set a condition and call `wakeup`; noters
  call `postnote` with its opposite lock order; clock interrupts on a processor
  run `twakeup` for a timer that was added there. `Serialised` says whether
  callers obey the rule of sleep(9) to be alone on a `Rendez`.
* **Sema** models semaphores on the list of one segment. The values are changed
  by compare-and-swap outside the list's lock; `sleep`/`wakeup` are atomic, as
  Sleep justifies.
* **Timers** models the timer lists of all processors. `ilock` keeps interrupts
  out of its processor. `timerset` is the variable `compare`. Each section under
  a list's lock is one step; `timerintr` keeps the lock from putting a periodic
  timer back to the next test.
* **Alarm** models `alarm.c` with ticks modulo `Wrap` and comparison by the
  sign of the difference. `alarm(0)` and exit write `p->alarm` without the lock.
* **Rendezvous** models one bucket of the table, so that tags collide. `mate`
  is the only variable that is not in the code: it remembers whom a process met
  until it returns.
* **Wait** follows one `Proc` through the processes that use it in turn,
  with children and readers that outlive them. `alloc` says which wait records
  are allocated memory.
* **Mnt** models the multiplexer. A header and its tag are one model value. The
  server (external) keeps the order flush(5) prescribes and is otherwise free.
  `doread` and the parsing in `mntrpcread` are one step that takes a whole
  message; partial reads are left out.
* **ByteStream** is the abstract specification of a queue: bytes go in at one
  end and come out at the other, and only in message mode may the rest of what
  is taken be dropped. **Qio** models `qio.c`: what runs under `ilock(q)` is one
  step, the wakeups and kicks that follow the unlock (`pend`) are steps of their
  own. A *use* is the way a driver opens a queue and the operations it calls; the
  eight of `MCQio` are taken from pipes, udp, tcp (two), uart (two), ethernet and
  the kernel's print queue. `ImplementsByteStream` maps the stream to the bytes
  in the queue and in the hands of a reader that copies them. `DriverUses` says
  what the uses have in common; it is an assumption of Qio's theorem and not of
  the module, and `MCQio` asserts that its eight uses satisfy it.
* **Rudp** models two hosts with a `Reliable` for each other. What runs with
  `ucb` locked is one step; `net` keeps every packet ever sent, so that any may
  be received again, late or never. `passed` and `arrived` are history: what the
  reader got since the last hangup, and what it ever got. The connection begins
  with nothing sent or shortly before the numbers go round.
* **Fossil** models the block cache and the operations on a file that is one
  data block or a pointer block with two data blocks. Each step is what one
  thread does to a locked block. `c` is the newest version of all blocks with
  what is dirty and the dependencies (`b->prior`); `disk` is what a crash leaves.
  A write of a block is one step: a block that is being written is not changed,
  and what depends on it waits. `old` is history: what each snapshot holds and
  what was flushed last. `Allowed` opens four paths on which the code does not
  keep its own order ([findings](#findings)); the run has none of them.
* **MC*** modules define the symmetry sets and values of the instances.
* **QLockProofs**, **RWlockProofs**, **SleepProofs** and **MntProofs** hold the
  theorems about the module they are named after, **IpcProofs** those about
  Rendezvous and Qio, **ProcProofs** those about Wait, Sema and Alarm,
  **TimedProofs** those about Timers and Rudp, **ListProofs** the lemmas on linked
  lists they share.

## Runs and bounds

| Run | Instance | Shows |
|---|---|---|
| `qlock` | 4 processes, fair | exclusion, readied once, implements FifoLock, every `qlock` returns |
| `rwlock` | 4 processes, fair | writer alone and exact reader count, no panic, no overtaking, every waiter served |
| `sleep` | 2 processes in turn on one Rendez, with and without timeout, a waker, a noter, 2 processors, fair | links consistent and no panic, readied once, no lost wakeup or note, the sleeper returns, `postnote` leaves its loop |
| `sema` | 3 processes, 2 semaphores of one segment, all kinds of acquire | no lost wakeup, no dead `Sema` touched |
| `timers` | 2 processors, 2 relative timers, 1 periodic timer of period 2 or 3 next to the HZ clocks, 3 ticks | lists, assertions and order, interrupt set (`InterruptSet`), one phase per period |
| `alarm` | 3 processes, from two ticks before the wrap of the clock to three after, clears after it | list complete and in order, all due posted |
| `rendezvous` | 3 processes, 2 tags, 1 poster, fair | list exact, readied once, values exchanged, no two wait for each other (`Exchanged`), both return |
| `wait` | 3 children, 2 records, 2 readers, 2 processes in one `Proc` | lock ownership across reuse, counts, something to wait for and a record after the sleep, no leak |
| `mnt` | 2 processes, 3 headers, two notes per call to one of them, hangup, fair | tags, replies, results, the reading handed on, replies not slept through, every call returns |
| `qio` | 1 reader, 2 writers, device, 8 uses, limit 6, blocks of up to 3 bytes | exact counts, nobody waits for what has happened, implements ByteStream |
| `rudp` | 2 hosts with 2 and 1 messages, 2 generations, sequence numbers modulo 4 | the window, order, acknowledged means arrived, blocked writer woken |
| `fossil` | 6 blocks, 3 labels per label block, 3 epochs, 1 crash, 5 changes | the disk is a file system at every moment, no reuse, snapshots kept |

Each run takes between a second and about two minutes. Every module has one type
invariant `TypeOK` (`SemaTypeOK`, `AlarmTypeOK` and `TimersTypeOK` in Sema, Alarm and
Timers, which share a module of proofs with another that has names of its own);
besides types it says who holds each lock at each control point and, in Timers, Rendezvous and Mnt, that the lists and the fields that
describe them agree. Except in QLock, it is the first conjunct of the first
invariant of the run.

Why the bounds are enough to be interesting. Three processes are the least with
an owner, a waiter being served and a newcomer; four give queues that mix
readers and writers. A waker, a noter and the timers race for one sleeper, and
two processes in turn on the Rendez let a late one of them meet the next
sleeper. Two processors suffice for every race between a timer list's owner and
a stranger. `MaxWait` is 2 instead of 2000, so that the limit is reached;
`MaxPid` lets a `Proc` be reused. `Wrap = 16` in Alarm has room for delays,
lateness (`MaxLag`) and both halves of the range; `Delays` stay below half the
range as `AlarmAssumption` demands, as the code's 2^31 ticks do. `FirstTick`
starts an idle system near the wrap. `ClearTicks` are ticks at which no time of
the upper half is in use any more, because otherwise the properties fail
([findings](#findings)). `MaxFlush` bounds the notes per call: with 2, a request
whose flush is itself interrupted is flushed again. `MaxValue` and `MaxDelta`
bound the semaphores, `MaxTime` the clock of Timers.

In Qio a block counts its header (one byte), so that a limit of 6 is exceeded by
two blocks and half of it is crossed by one; `Maxatomic = 2` lets a write of 3 be
cut in two and another writer come between. `Wrap = 3` values in turn tell a lost,
doubled or swapped byte from its neighbours. In Rudp `Maxunacked = 1` and two
messages block the writer; `Rudpmaxxmit = 1` lets a hangup by timeout happen;
`Old = {2}` sends the second message across the wrap; `MaxGen = 2` gives each host
one restart or hangup after the first connection. In Fossil three labels per
label block put the six blocks' labels into two label blocks, written at
different times; six blocks make allocation come round and reuse freed ones;
`MaxEpoch = 3` gives a snapshot, its removal, and a block of each age; `MaxWork`
bounds the changes, snapshots and crashes together.

Symmetry is used for interchangeable processes, headers and timers, and never
in the fair runs.

Deadlock is checked in every run except `wait`, where the structure is not
given out again after `MaxPid` processes and everything may end, and `fossil`,
where the bounds end everything and a full disk may keep `fsOpen` from opening.

## Fairness

* A process inside the kernel keeps taking its steps (weak fairness), and gets a
  spin lock that is free again and again (strong fairness): `taslock.c` spins
  without bound on locks held for bounded times.
* A process that was readied is run: the priorities of `proc.c` decay with use,
  so that no ready process waits forever (the starvation guard of
  `reprioritize` and `rebalance`).
* A holder of a lock gives it back (`qunlock`, `runlock`, `wunlock`): an
  obligation of callers, without which no lock serves anybody.
* Timers are not obliged to expire: `SleeperWoken` is about events and notes.
* The 9P server answers its oldest request (`mnt`). A hung-up channel makes
  reads and writes fail at once.
* Qio, Rudp and Fossil are checked for safety only; "waits for what has happened"
  is stated there as an invariant on who will be woken by what.
* Nobody is obliged to make a call, post a note, set an alarm or exit.

## Proofs

The two locks, sleep and wakeup, rendezvous, stream queues, exit and wait,
semaphores, alarms, the mount driver, timers and reliable datagrams are proved about; every result holds for all
values of the constants that satisfy the module's assumption.

| Module | Theorem | States | Assumes |
|---|---|---|---|
| QLockProofs | `TypeCorrect`, `Exclusion`, `Served`, `ReadiedOnce` | `TypeOK`, `MutualExclusion`, `WaitersHaveOwner`, `BlockedOnce` | the null pointer is not a process |
| | `FirstComeFirstServed` | the action property `NoBarging` | |
| | `Refinement` | QLock implements FifoLock | |
| RWlockProofs | `Exclusion` | `WriterExclusion`: a writer is alone, `q->readers` is the number of readers | the same, and finitely many processes |
| | `PanicFree` | `NoPanic` | |
| | `FirstComeFirstServed` | the action property `NoOvertaking` | |
| SleepProofs | `Synchronised`, `ReadiedOnce`, `WakeupNotLost` | `Linked`, `ReadyOnce`, `NoLostWakeup` | the kinds of agents are disjoint; `Serialised` |
| IpcProofs | `ValuesExchanged` | Rendezvous' `Exchanged` | null pointer and "no value" are not processes |
| | `QueueWakeups` | Qio's `NoLostWakeup` | limits of at least 2; `DriverUses` |
| ProcProofs | `CountsRight`, `WaitJustified`, `NoRecordLeaked` | Wait's `Counted`, `WaitsForChild`, `Accounted` | finitely many children |
| | `NoLostWakeupHolds`, `SemaAliveHolds` | Sema's `NoLostWakeup`, `SemaAlive` | finitely many processes |
| | `AlarmsOrdered`, `DuePosted` | Alarm's `Ordered` and the action property `AllDuePosted` | `FirstHalf` |
| MntProofs | `ReadingPassedOn` | `BatonHeld` | the null pointer is neither process nor header |
| | `ReplySeen` | `ReplyNotSleptThrough` | |
| | `TagsNotReused` | `TagQuiet` | |
| | `RepliesExpected` | `Expected` | |
| | `AnswersHonoured` | `Honoured` | |
| TimedProofs | `InterruptSetHolds`, `CombinedHolds` | Timers' `InterruptSet`, `Combined` | the kinds of timers are disjoint, periods are not 0 |
| | `WindowHolds`, `InOrderHolds`, `AckedArrivedHolds`, `BlockedKickerHolds` | Rudp's `Window`, `InOrder`, `AckedArrived`, `BlockedKicker` | a host sends less than one round of sequence numbers |

`WaitersHaveOwner` and `NoBarging` are proved and, since FifoLock implies them,
not checked by a run. `Serialised`, an assumption of the theorems of SleepProofs
and not of the module, is the rule of sleep(9) that a process is alone on a
`Rendez`; without it they are false (`DoubleSleepPanics` under
[findings](#findings)). `FirstHalf`, likewise an assumption of two theorems only,
says that no time in the second half of the clock's range is asked for.
`DriverUses`, an assumption of `QueueWakeups` only, is what the drivers of `MCQio`
keep to: writers are held up only by what writers put in, nobody takes from a
queue behind its readers' backs, the limit is not lowered while there are writers,
and who takes without sleeping (`qget`, `qconsume`) is kicked. Uses that break it can lose a
wakeup ([findings](#findings)). Of the limit it is a simplification: the size that
`devuart.c` lets a control message set may be lower than the one before, and there
the theorem says nothing.
`ListProofs` has what they share: lemmas on what linking
at the head or the tail and unlinking a member do to the members of a list and
to its freedom from repetitions.

The shape is the same everywhere. No property is inductive as it stands; each
module defines an `IndInv` of named parts (first checked by TLC on the run's
instance, for Alarm on one in the first half), shows `InitInv` and, action by action, `NextInv`, and gets the
theorems from `Invariance` (for Sema `SemaInv` and `SemaInductive`, for Timers
`TimersInv` and `TimersInductive`, for Alarm `AlarmInv` and `AlarmInductive`, for
Qio `QueueInv`, `QueueInit` and `QueueStep`).
Where `TypeOK` says more than types it is taken apart
(`TypeParts`) so that each part can be kept on its own. What the strengthenings
say, and why they are needed:

* **QLock.** Exclusion depends on who was taken off the queue and has not run yet.
  `QueueOK`: the queue has no repetitions and holds blocked processes that nobody
  has readied. `OwnerOK`: there is at most one owner, `locked` says whether there
  is one, a free lock has no queue; a process that `qunlock` took off the queue is
  owner from that moment on. `WakeOK`: whoever is about to call `ready` has a
  blocked process of its own to ready. For the refinement, `HolderIs` shows that
  the abstract holder is the one owner.
* **RWlock.** The same three, with what each process asked for (`ModeOK`), and:
  `writer` stays set while `wunlock` hands the lock to a row of readers, during
  which nobody has it for writing; `CountOK`, `readers` is the cardinality of the
  set of readers, those in the hands of `wunlock` included; `WaitOK`, without a
  writer there is a queue only behind readers and then a writer is its head. The
  last is what makes the panic of `runlock` unreachable; it is kept because a reader
  queues only behind a writer or a queue, and `wunlock` goes on readying readers up
  to the next writer.
* **Sleep.** `LocalsOK`: what was read under a lock is still so while the lock is
  held; `postnote`, which takes the locks in the opposite order, finds `p->r`
  unchanged when `canlock` succeeds. `LinkOK`: `p->r` is set only for a process
  that has decided to sleep, and then `r->p` points back; `r->p` without `p->r`
  exists only between the two in `sleep`. `ReadyOK`: a process is in the run
  queue only while it is away, and the one agent about to call `ready` has
  unlinked it before, under the locks, so that nobody else finds it.
* **Rendezvous.** `MetOK`: two that have met and are not both readied are one that
  spins with the lock of the `Rgrp` and one that is still in state `Rendezvous`,
  and they are each other's mate; hence a `postnote` that gets that lock and
  still finds the state `Rendezvous` has a process that nobody has met. `ValueOK` ties `rendval` to the list and to the
  mate, `TagOK` says that no two wait with one tag.
* **Wait.** `nchild` is not always the number of living children: those that exit
  while the parent is `Broken` stay in it. `CountOK` therefore has an inequality
  that always holds and an equality outside that state. `PidOK` (pids only grow)
  keeps a reader that outlives a process from taking the next one for it.
* **Mnt.** Two invariants, one on top of the other. `ReaderInv` is about who reads:
  a header belongs to one call (`ChainOK`); one that is not done is queued, but
  before `enqueue` (`QueuedOK`); the reader's own request is not done (`DoneOK`);
  and `Baton`, which is stronger than `BatonHeld`: the process on its way to
  `m->rip` is one that cannot be diverted on the way, not even by a completed
  request. `MessageInv` is about messages: each is in one place (`PlaceOK`); every
  flush of a call names the request it began with (`OldtagOK`); a tag under way is
  that of a queued request, and of a call that is over nothing is under way
  (`UnderOK`); the messages of a call and the answers to them keep their order
  (`OrderOK`), so that the answer to the last flush means that nothing else will
  come; and the answer to the first request is under way or in its reply exactly
  if the server gave it (`AnswerOK`). The last two rest on flush(5), which the
  server keeps. After a hangup only calls that can still return without an error
  are spoken of (`Good`): the others leave messages behind. The steps are sorted by
  what they do to messages (`QuietStep`, `AllocStep`, `SendStep`, `ServeStep`,
  `ReadStep`, `MuxStep`, `DropStep`, `QrmStep`, `FreeStep`, `HangupStep`).
* **Sema.** That somebody is on the way is not inductive: the somebody may fail to
  get the semaphore, or time out, and then there must be another. `Covered` keeps
  accounts instead. Each process has some credit with a sleeper at place `i` of the
  list (`Credit`): 1 if it was woken and will try for the semaphore or pass the
  wakeup on, 1 for a last try that it is about to make, and for a
  `semwakeup` that has not come past `i` as many as it has yet to give. The value of a semaphore
  with a sleeper is never more than the credits together (`Count`); `semrelease`
  pays for what it adds with the wakeups it begins, and a wakeup goes from the
  account of the waker to that of the process it wakes. `SemaLinks` and `SemaLocks` tie the list, its
  lock and the place of the scanner in it to the control points.
* **Alarm.** In the first half of the range (`FirstHalf`), 248 days after boot at
  100 ticks a second, comparison by the sign of the difference is that of numbers
  (`EarlyOrder`), and a cleared alarm, whose time is 0, compares as reached.
  `Rising` says that the alarms that are set go up along the list, with cleared
  ones anywhere between them: the insertion passes over those, and `alarmkproc`
  drops one that has come to the head. `AlarmHead`: what `alarmkproc` unlinks is
  still the head, and cleared, because insertions wait for the lock. Alarms may be
  cleared at any tick. After that half the theorems are false
  ([findings](#findings)): a time of 0 no longer compares as reached.
* **Timers.** `TimerHome`: a periodic timer stays with one processor, on its list or
  in the hands of its `timerintr`, and two processors never have it both;
  `TimerPhase` speaks of the timers a processor has in this sense, since the one
  whose function runs is on no list and must come back in phase. `TimerPoints`
  and `TimerLocks`: a relative timer is moved only by the processor that has its
  `ilock`, and the list it was on when the lock was taken is the only one it can
  still be on. `TimerLists`: `t->tt` names the list, which is in the order of
  times; `TimerSet`: the clock is set for its head. Two numbers are a whole number
  of periods apart if some multiple of the period is between them (`Multiple`,
  `SamePhase`).
* **Rudp.** A sequence number says which message it stands for only together with
  where the count began: `Nth` and `Num` count from the start `s`, which is 0 or,
  for a connection that was there when the run began, some number; the invariant
  says that one `s` fits everything (`IndInv == \E s \in Starts : Inv(s)`), and a
  step keeps the same `s`. `Sender`: what is unacknowledged has the numbers that
  follow those acknowledged, and what is acknowledged has arrived; `Receiver`: what
  was passed on is messages 1, 2, ... of one generation, and `rcvseq` is the number
  of the last; `PacketOK`: every packet that was ever sent, however old, has the
  number of its message, and acknowledges no more than has arrived. The numbers of
  one generation are then different, because a host sends fewer messages than
  there are numbers (`MaxMsg` below `Mod - 1`); without that an old copy could be
  taken for a new message, also by the code.
* **Qio.** The lengths of a list of blocks are added up as the size of a set of
  pairs (`Total`), so that what concatenating and cutting lists does to the sums
  (`TotalConcat`, `SumConcat`, `CutAlloc`) is proved without induction.
  `ReaderCalls` and `WriterCalls`: whoever is past the `QLock` of its end holds it,
  so that at each end one process at most is between its test and its sleep, and one
  reader has blocks in its hands. `ReaderInv`: a reader on its way to sleep has set
  `Qstarve` or will find something; one that sleeps has set it and there is
  nothing, or it is being woken. `WriterInv`: once `Qflow` is clear, a writer on its
  way to sleep finds room in an open queue (`Room`); one that sleeps is being woken,
  or `Qflow` is set and there are blocks whose removal will restart it. Room counts
  what a reader has removed and may put back: without it the invariant would not
  survive `qputback`, which raises `len` again. `DeviceInv`: the device is active, will be kicked, or has asked for data with
  the queue empty. `BlockSizes`: a block is charged for more than its bytes, and
  nothing empty is in a queue of `qconsume`.

Only model-checked:

* all liveness properties, since fairness is out of the prover's reach;
* Alarm across the wrap of the clock: there both properties are true of the code only
  when alarms are cleared while the ticks are in the lower half of their range (see
  [findings](#findings)), which is the run's bound and no assumption that the code
  justifies;
* Qio's `ImplementsByteStream`, and Fossil: they speak of the concatenation of a
  list of lists, or of what can be reached on a disk. These are recursive
  functions, and what they compute is beyond the prover (induction over data).

## Findings

No run is kept for the places where the code does not do what its documentation
says; the definitions or constants below reproduce them.

Alarms: give `ClearTicks` all `Ticks` (2 processes, the clock goes round), and
`AllDuePosted` fails. A cleared alarm stays in the list with time 0. Once the
ticks are in the upper half of their range (248 days at 100 Hz) time 0 compares
as not yet reached (`alarm.c:23`): a cleared entry at the head stops
`alarmkproc`, and one in the middle misleads the insertion, so that due alarms
are posted late or not until the clock wraps.

Other divergences in the kernel's synchronisation are stated as definitions next
to the properties. Each is a window of a few instructions on a multiprocessor,
and TLC finds a counterexample within seconds in the instance given:

| Definition | Instance | In short |
|---|---|---|
| `Sleep!DoubleSleepPanics` | 2 processes, 1 Rendez, 1 waker, `Serialised = FALSE`, no timeouts | a double sleep prints and goes on, and the first sleeper is lost; sleep(9) says "the system will panic" |
| `Sleep!TsleepReturns` | 1 process, 2 Rendezes, 1 waker, 2 processors, timeouts, fair | a late `twakeup` on the processor a process has left clears `trend` of its next `tsleep`, which then never times out; `timerdel` does not wait for a running timer function |
| `Sleep!RendezInUse` | the same with 1 Rendez | a late `twakeup` uses a `Rendez` whose call has returned; `tsemacquire` keeps it on the stack |
| `Rendezvous!NoteNotSleptThrough` | 2 processes, 1 tag, 1 poster | `sysrendezvous` does not look at `notepending`: a note just before the process is in the list does not interrupt it |
| `Alarm!ClearedIsSilent` | 1 process, `ClearTicks = Ticks` | `alarm(0)` between the test and the `postnote` of `alarmkproc` is followed by the note |
| `Wait!EinuseJustified` | 1 child, 1 reader | a reader of a dead process's wait file that still sleeps makes the await of the next process in that `Proc` fail |
| `Wait!RecordAlive` | 2 children, 1 reader | `pexit` frees the records without `exl`; a reader past its test of the pid takes a freed one |
| `Mnt!BatonHeld` without `~hungup` | 3 processes, hangup, 1 note | the process chosen to read is interrupted, its flush fails on the dead channel, and it leaves without calling `mntgate`: the others sleep on with nobody reading |

Stream queues. The uses of `MCQio` keep to what drivers do; these combinations of
operations, which `qio.c` permits, break `NoLostWakeup` when they are added to a
use:

* `qconsume` on a queue that holds only zero-length blocks frees them and returns
  -1 without restarting a writer held up by flow control;
* `qiwrite` and `qwrite` on one queue can leave the writer asleep with `Qflow`
  clear;
* `qflush` on a queue with a reader: a producer clears `Qstarve` and wakes `rr`
  before the reader sleeps, `qflush` empties the queue and leaves the flags alone
  (`qio.c:1515-1532`), and the reader's test in `sleep` finds nothing: it sleeps
  with `Qstarve` clear, and the next producer does not wake it (the comment at
  1530 says "wake up readers/writers"; only `wr` is woken);
* `qsetlimit` that lowers the limit between the clearing of `Qflow` and the
  writer's sleep loses the wakeup.

By reading only: `qclose` while `qread` copies puts the rest back into a closed
queue (`qputback`); a limit of 1 has the half 0, below which no length falls.

Rudp, by reading only: `relsendack` (`rudp.c:988`) tests `acksent < rcvseq`, so
after the numbers went round `acksent` never follows and every tick sends an
acknowledgement; `rudpkick`'s error path gives the `Reliable` back before it
unlocks it (446-447) and leaves `blocked` set; a delayed copy of message 1 of a
generation that is over, carrying no acknowledgement, is passed on again after
the receiver's own hangup; the generation itself may go round to 0.

Fossil. Each member of `Allowed` breaks `Durable`, and `"shrink"` and `"low"` the
other two invariants as well:

| `Allowed` | In short |
|---|---|
| `"shrink"` | `sourceShrinkDepth` (`source.c:720`) does not look at the epoch: it clears a pointer in a pointer block that a snapshot shares, which the comment at `cache.c:1405` says "is treated as copy-on-write"; and removing the link drops the dependency on a block not yet written |
| `"open"` | `fsOpen` copies the root; if the epoch ends before the copy is written, `blockRemoveLink` drops the super block's dependency on it, and the super block on the disk points at a root that is not there; `fs.c:472-474` says it "will be the address of the most recent root that has gone to disk" |
| `"low"` | `fsEpochLow` may give up all epochs before the current one (only `low > ehi` is refused, and `fsSnapshotCleanup` starts from `fs->ehi`): a block closed when its parent's copy is written is reused while the grandparent on the disk still leads to it, against rule (2) of the comment at `cache.c:1419` |
| `"fill"` | `blockCopy` does not copy `b->prior`; a flush that begins between the root's copy and the write of the super block lets the latter point at a copy whose children are not written |

One more is part of the model: when a file gains a level, the pointer block that
was written in its rolled-back form counts as written, so a data block that was
flushed before and is dirty again may be missing after a crash. `Durable` allows
it there. By reading only: two error paths of `cacheAllocBlock` return with
`fl->lk` held (`cache.c:812`, `828`).

Hazards that no property covers, besides those above: a qlock or sleep called
with a spin lock held goes on as if it had blocked (`proc.c:145`); `mountmux`
wakes a request that its owner may have freed (`devmnt.c:966`); `mntflushalloc`
may fail and leave the interrupted request in the queue (`devmnt.c:785`);
`semrelease` may overflow (`sysproc.c:1083`); `addbroken` publishes a process
before its state is `Broken` (`proc.c:1084`).

## Limits

* Spin locks are atomic. `sched()` returns at once if spin locks are held
  (`nlocks`); the modules assume that no caller blocks with one held.
* Memory is sequentially consistent; the code relies on `coherence()` and locked
  instructions for it. Exhaustion of memory, headers or processes is left out,
  except the limit on wait records.
* Scheduling priorities, EDF, accounting, tracing and lock statistics are
  left out.
* Mount driver: version negotiation, authentication, the meaning of each message,
  split reads of one message, closing of the mount point.
* Wait: a process reading its own wait file; the contents of a record.
* Timers: `addclock0link` runs on the first processor, as its callers do at
  initialisation. On another processor it would set the wrong clock.
* Qio: the surgery on blocks (`padblock`, `pullupblock`, `trimblock`), `qcopy`,
  which changes no queue, and bypassed queues (`qbypass`).
* Rudp: checksums and headers, `rudpadvise` (ICMP), the drops made for testing,
  several remotes of one conversation, a run longer than one round of the
  sequence numbers.
* Fossil: directories and metadata (`file.c`), the archiver, venti, `BsCopied`'s
  use by them, read errors, locks that cannot be had except the super block's
  during `bumpEpoch`, eviction of clean blocks (a clean block is its copy on the
  disk), exhaustion of the list of dependencies, truncation (`sourceShrinkSize`).
  The old root stands for a snapshot's entries.
* Not modelled: name spaces, paging and swap, drivers, the other protocols of the
  network stack, the other file servers, libraries and commands. They are
  machine-dependent, sequential, or third-party code.

## Plan

1. Done: FifoLock, QLock, RWlock, Sleep, Rendezvous, Wait, Sema, Alarm, Mnt,
   Timers, Rudp and Qio with their runs and proofs; ByteStream and Fossil with
   their runs.
2. Modules that would follow: `procctl` stop/start/waitstop of `devproc.c`
   with `addbroken`/`unbreak`; spin locks with `nlocks` and `delaysched`;
   libthread's channels over Rendezvous; the flush bookkeeping of lib9p; the
   archiver of fossil.
3. Abstract specifications worth stating: a reader/writer lock in the manner of
   FifoLock; an atomic sleep/wakeup that Sleep implements and Sema, Wait, Qio and
   Mnt use; a one-to-one RPC that Mnt implements.
4. Proofs that would follow: Alarm across the wrap, once the code keeps a cleared
   alarm out of the comparisons; that Qio implements ByteStream, and Fossil's
   invariants, with a prover that does induction over lists and trees.

--------------------------------- MODULE Qio --------------------------------
(***************************************************************************)
(* Stream queues, sys/src/9/port/qio.c: the queue between a device, at     *)
(* interrupt level, and processes, or between the two ends of a pipe.      *)
(*                                                                         *)
(* What runs under ilock(q) is one step.  A wakeup or a kick comes after   *)
(* the unlock and is a step of its own, and so is sleep, which is the      *)
(* atomic test-and-sleep of module Sleep.  A use is a record of how a      *)
(* driver opens a queue (mode: Qmsg, Qcoalesce or neither; kick: it has a  *)
(* kick routine; noblock; inilim), of the operations it calls on it (ops), *)
(* the sizes of what is written (sizes), the limits it sets later (limits) *)
(* and whether it closes and reopens it only when the end that reads it,   *)
(* or both ends, are not in use (excl).                                    *)
(***************************************************************************)
EXTENDS Integers, Sequences, FiniteSets, SequencesExt

CONSTANTS
  Readers,    \* processes that read the queue
  Writers,    \* processes that write it
  Uses,       \* the ways queues are used
  MaxSize,    \* bound on the bytes of one read or write
  Maxatomic,  \* the bytes of one block of a qwrite
  MaxBlocks,  \* bound on the number of blocks in the queue
  Wrap,       \* byte values, given out in turn
  null        \* the null pointer

ASSUME QioAssumption ==
  /\ Readers \cap Writers = {}
  /\ (Readers \cup Writers) \cap {null, "in", "out", "ctl"} = {}
  /\ MaxSize \in Nat /\ MaxBlocks \in Nat /\ Maxatomic \in Nat \ {0}
  /\ Wrap \in Nat \ {0}
  /\ \A u \in Uses : /\ u.mode \in {"stream", "msg", "coalesce"}
                     /\ u.kick \in BOOLEAN /\ u.noblock \in BOOLEAN /\ u.excl \in BOOLEAN
                     /\ {u.inilim} \cup u.limits \subseteq Nat \ {0, 1}
                     /\ u.sizes \subseteq 0..MaxSize

VARIABLES
  use,      \* how this queue is used; never changes
  blocks,   \* q->bfirst: blocks [d: their bytes, a: BALLOC]
  len,      \* q->len
  dlen,     \* q->dlen
  limit,    \* q->limit
  noblock,  \* q->noblock
  closed, starve, flow,  \* Qclosed, Qstarve, Qflow of q->state
  rlock, wlock,          \* holders of the QLocks
  qpc,      \* where each process is
  op,       \* the call a reader is in
  n,        \* the count of a read, the bytes a qwrite has still to queue
  hand,     \* blocks a reader removed from the queue and copies to user space
  pend,     \* wakeups and kicks an agent does next
  active,   \* the device is taking blocks off the queue
  next,     \* the value of the byte written last
  out       \* the bytes that went to a reader's buffer or the device last

qiovars == <<use, blocks, len, dlen, limit, noblock, closed, starve, flow, rlock,
             wlock, qpc, op, n, hand, pend, active, next, out>>
buffer == <<blocks, len, dlen>>
flags  == <<closed, starve, flow>>
config == <<use, limit, noblock>>
locks  == <<rlock, wlock>>
calls  == <<op, n>>
ghost  == <<next, out>>

QioProcs == Readers \cup Writers

\* Interrupt level: the device that fills the queue, the one that empties it,
\* and open, close and control messages.
Devs == {"in", "out", "ctl"}
Agents == QioProcs \cup Devs

\* allocb(i): BALLOC counts the header space as well.
Block(d) == [d |-> d, a |-> Len(d) + 1]

\* The sum of a sequence of numbers: so many pairs of a place and a number up
\* to the one that is there.
Total(s) == Cardinality(UNION {{i} \X (1..s[i]) : i \in DOMAIN s})
blocklen(bl) == Total([i \in DOMAIN bl |-> Len(bl[i].d)])
blockalloclen(bl) == Total([i \in DOMAIN bl |-> bl[i].a])
Bytes(bl) == FlattenSeq([i \in DOMAIN bl |-> bl[i].d])
First(d, k) == SubSeq(d, 1, k)
Rest(d, k) == SubSeq(d, k + 1, Len(d))
least(i, j) == IF i < j THEN i ELSE j

uses(f) == f \in use.ops
Goto(p, l) == qpc' = [qpc EXCEPT ![p] = l]
Idle == \A p \in QioProcs : qpc[p] = "idle"

QioInit ==
  /\ use \in Uses
  /\ blocks = <<>> /\ len = 0 /\ dlen = 0
  /\ limit = use.inilim
  /\ noblock = use.noblock
  /\ closed = FALSE /\ starve = TRUE /\ flow = FALSE
  /\ rlock = null /\ wlock = null
  /\ qpc = [p \in QioProcs |-> "idle"]
  /\ op = [r \in Readers |-> "qread"]
  /\ n = [p \in QioProcs |-> 0]
  /\ hand = [r \in Readers |-> <<>>]
  /\ pend = [a \in Agents |-> <<>>]
  /\ active = FALSE
  /\ next = 0 /\ out = <<>>

-----------------------------------------------------------------------------
(* The queue, with ilock(q) held *)

\* qaddlist, and the same by hand in qbwrite, qpass, qproduce and qiwrite.
qaddlist(bl) ==
  /\ Len(blocks) < MaxBlocks
  /\ blocks' = blocks \o bl
  /\ len' = len + blockalloclen(bl)
  /\ dlen' = dlen + blocklen(bl)

\* The queue holds bl now; len and dlen follow as qremove and qputback do.
SetTo(bl) ==
  /\ blocks' = bl
  /\ len' = len - blockalloclen(blocks) + blockalloclen(bl)
  /\ dlen' = dlen - blocklen(blocks) + blocklen(bl)

\* k new bytes.
Fresh(k) == [i \in 1..k |-> (next + i) % Wrap]
Wrote(k) == next' = (next + k) % Wrap /\ out' = <<>>

notempty == closed \/ blocks # <<>>
qnotfull == len < limit \/ closed

\* If the writer is flow controlled, restart it: a then does what w says.
Restart(a, bound, w) ==
  LET dowakeup == flow /\ len' < bound
  IN  /\ flow' = (flow /\ ~dowakeup)
      /\ pend' = [pend EXCEPT ![a] = IF dowakeup THEN w ELSE <<>>]

qwakeup_iunlock(a) == Restart(a, limit \div 2, IF use.kick THEN <<"kick", "wr">> ELSE <<"wr">>)

\* If the reader starves, wake it: a then does what w says.
Feed(a, w) ==
  /\ starve' = FALSE
  /\ pend' = [pend EXCEPT ![a] = IF starve THEN w ELSE <<>>]

-----------------------------------------------------------------------------
(* wakeup and kick, with the queue unlocked *)

Sleeper(r) == {p \in IF r = "rr" THEN Readers ELSE Writers : qpc[p] = "asleep"}

wakeup(a) ==
  /\ pend[a] # <<>> /\ Head(pend[a]) # "kick"
  /\ qpc' = [p \in QioProcs |-> IF p \notin Sleeper(Head(pend[a])) THEN qpc[p]
                                ELSE IF p \in Readers THEN "wait" ELSE "flow"]
  /\ pend' = [pend EXCEPT ![a] = Tail(@)]
  /\ UNCHANGED <<config, buffer, flags, locks, calls, hand, active, ghost>>

\* The driver's kick routine gets the device going, unless it is going.
kick(a) ==
  /\ pend[a] # <<>> /\ Head(pend[a]) = "kick"
  /\ active' = TRUE
  /\ pend' = [pend EXCEPT ![a] = Tail(@)]
  /\ UNCHANGED <<config, buffer, flags, locks, qpc, calls, hand, ghost>>

\* The call is over, and so are its variables.
qunlockr(r) ==
  /\ rlock' = null /\ Goto(r, "idle")
  /\ op' = [op EXCEPT ![r] = "qread"] /\ n' = [n EXCEPT ![r] = 0]

qunlockw(w) ==
  /\ wlock' = null /\ Goto(w, "idle")
  /\ n' = [n EXCEPT ![w] = 0]

\* A note interrupts a sleeping process: error(Eintr) unlocks the QLock.
qintr(p) ==
  /\ qpc[p] \in {"sleep", "asleep"}
  /\ IF p \in Readers THEN qunlockr(p) /\ UNCHANGED wlock
                      ELSE qunlockw(p) /\ UNCHANGED <<rlock, op>>
  /\ UNCHANGED <<config, buffer, flags, hand, pend, active, ghost>>

-----------------------------------------------------------------------------
(* qread and qbread *)

read(r, f, k) ==
  /\ qpc[r] = "idle" /\ uses(f)
  /\ op' = [op EXCEPT ![r] = f] /\ n' = [n EXCEPT ![r] = k]
  /\ Goto(r, "lock")
  /\ UNCHANGED <<config, buffer, flags, locks, hand, pend, active, ghost>>

qlockr(r) ==
  /\ qpc[r] = "lock" /\ rlock = null
  /\ rlock' = r /\ Goto(r, "wait")
  /\ UNCHANGED <<config, buffer, flags, wlock, calls, hand, pend, active, ghost>>

\* The queue is closed: 0 bytes, or an error after three of them.
qwaitEof(r) ==
  /\ qpc[r] = "wait" /\ blocks = <<>> /\ closed
  /\ qunlockr(r)
  /\ UNCHANGED <<config, buffer, flags, wlock, hand, pend, active, ghost>>

qwait(r) ==
  /\ qpc[r] = "wait" /\ blocks = <<>> /\ ~closed
  /\ starve' = TRUE
  /\ Goto(r, "sleep")
  /\ UNCHANGED <<config, buffer, closed, flow, locks, calls, hand, pend, active, ghost>>

qwaitSleep(r) ==
  /\ qpc[r] = "sleep"
  /\ Goto(r, IF notempty THEN "wait" ELSE "asleep")
  /\ UNCHANGED <<config, buffer, flags, locks, calls, hand, pend, active, ghost>>

\* "When coalescing, 0 length blocks just go away."
qreadEmpty(r) ==
  /\ qpc[r] = "wait" /\ op[r] = "qread" /\ blocks # <<>>
  /\ use.mode = "coalesce" /\ Head(blocks).d = <<>>
  /\ SetTo(Tail(blocks))
  /\ UNCHANGED <<config, flags, locks, qpc, calls, hand, pend, active, ghost>>

\* How many blocks a read of k bytes removes: one, or when coalescing the
\* first and as many following ones as fit in the read completely.
qreadBlocks(k) ==
  IF use.mode # "coalesce" THEN 1
  ELSE CHOOSE i \in DOMAIN blocks :
         /\ \A j \in 2..i : blocklen(SubSeq(blocks, 1, j)) <= k
         /\ i = Len(blocks) \/ blocklen(SubSeq(blocks, 1, i + 1)) > k

qread(r) ==
  /\ qpc[r] = "wait" /\ op[r] = "qread" /\ blocks # <<>>
  /\ ~(use.mode = "coalesce" /\ Head(blocks).d = <<>>)
  /\ LET i == qreadBlocks(n[r])
     IN  /\ hand' = [hand EXCEPT ![r] = SubSeq(blocks, 1, i)]
         /\ SetTo(SubSeq(blocks, i + 1, Len(blocks)))
         /\ out' = First(Bytes(hand'[r]), least(n[r], blocklen(hand'[r])))
  /\ Goto(r, "copy")
  /\ UNCHANGED <<config, flags, locks, calls, pend, active, next>>

\* bl2mem: what n bytes do not exhaust; it is one block, with its old BALLOC.
bl2mem(bl, k) ==
  IF blocklen(bl) <= k THEN <<>>
  ELSE <<[d |-> Rest(bl[1].d, k), a |-> bl[1].a]>>

\* Mutant: what is left goes back to the end of the queue.
qreadDoneAtEnd(r) ==
  /\ qpc[r] = "copy"
  /\ SetTo(blocks \o (IF use.mode = "msg" THEN <<>> ELSE bl2mem(hand[r], n[r])))
  /\ hand' = [hand EXCEPT ![r] = <<>>]
  /\ qwakeup_iunlock(r)
  /\ Goto(r, "wake")
  /\ UNCHANGED <<config, closed, starve, locks, calls, active, ghost>>

\* Copied out with the queue unlocked; what is left goes back to the front.
qreadDone(r) ==
  /\ qpc[r] = "copy"
  /\ SetTo((IF use.mode = "msg" THEN <<>> ELSE bl2mem(hand[r], n[r])) \o blocks)
  /\ hand' = [hand EXCEPT ![r] = <<>>]
  /\ qwakeup_iunlock(r)
  /\ Goto(r, "wake")
  /\ UNCHANGED <<config, closed, starve, locks, calls, active, ghost>>

\* The block itself; the rest of one that is too big is a new block.
qbread(r) ==
  /\ qpc[r] = "wait" /\ op[r] = "qbread" /\ blocks # <<>>
  /\ LET b == Head(blocks)
         big == Len(b.d) > n[r]
     IN  /\ SetTo(IF big /\ use.mode # "msg"
                  THEN <<Block(Rest(b.d, n[r]))>> \o Tail(blocks) ELSE Tail(blocks))
         /\ out' = First(b.d, least(n[r], Len(b.d)))
  /\ qwakeup_iunlock(r)
  /\ Goto(r, "wake")
  /\ UNCHANGED <<config, closed, starve, locks, calls, hand, active, next>>

readReturn(r) ==
  /\ qpc[r] = "wake" /\ pend[r] = <<>>
  /\ qunlockr(r)
  /\ UNCHANGED <<config, buffer, flags, wlock, hand, pend, active, ghost>>

-----------------------------------------------------------------------------
(* qwrite and qbwrite *)

qwrite(w, k) ==
  /\ qpc[w] = "idle" /\ uses("qwrite")
  /\ n' = [n EXCEPT ![w] = k]
  /\ Goto(w, "lock")
  /\ UNCHANGED <<config, buffer, flags, locks, op, hand, pend, active, ghost>>

qlockw(w) ==
  /\ qpc[w] = "lock" /\ wlock = null
  /\ wlock' = w /\ Goto(w, "put")
  /\ UNCHANGED <<config, buffer, flags, rlock, calls, hand, pend, active, ghost>>

\* "Give up if the queue is closed."
qbwriteClosed(w) ==
  /\ qpc[w] = "put" /\ closed
  /\ qunlockw(w)
  /\ UNCHANGED <<config, buffer, flags, rlock, op, hand, pend, active, ghost>>

\* qbwrite returns to qwrite, which may have more to write.
qbwriteReturn(w, left) ==
  IF left = 0 \/ use.mode = "msg" THEN qunlockw(w)
  ELSE wlock' = null /\ n' = [n EXCEPT ![w] = left] /\ Goto(w, "lock")

size(w) == least(n[w], Maxatomic)

\* "If nonblocking, don't queue over the limit."
qbwriteDrop(w) ==
  /\ qpc[w] = "put" /\ ~closed /\ len >= limit /\ noblock
  /\ qbwriteReturn(w, n[w] - size(w))
  /\ UNCHANGED <<config, buffer, flags, rlock, op, hand, pend, active, ghost>>

qbwrite(w) ==
  /\ qpc[w] = "put" /\ ~closed /\ ~(len >= limit /\ noblock)
  /\ qaddlist(<<Block(Fresh(size(w)))>>)
  /\ Wrote(size(w))
  /\ n' = [n EXCEPT ![w] = @ - size(w)]
  /\ starve' = FALSE
  /\ pend' = [pend EXCEPT ![w] =
       (IF use.kick /\ (starve \/ uses("Qkick")) THEN <<"kick">> ELSE <<>>)
         \o (IF starve THEN <<"rr">> ELSE <<>>)]
  /\ Goto(w, "wake")
  /\ UNCHANGED <<config, closed, flow, locks, op, hand, active>>

\* "Wait for queue to get below the limit": the test is made unlocked.
qbwriteFlow(w) ==
  /\ qpc[w] = "flow" \/ (qpc[w] = "wake" /\ pend[w] = <<>>)
  /\ IF noblock \/ qnotfull THEN qbwriteReturn(w, n[w])
     ELSE Goto(w, "setflow") /\ UNCHANGED <<wlock, n>>
  /\ UNCHANGED <<config, buffer, flags, rlock, op, hand, pend, active, ghost>>

qbwriteSetflow(w) ==
  /\ qpc[w] = "setflow"
  /\ flow' = TRUE
  /\ Goto(w, "sleep")
  /\ UNCHANGED <<config, buffer, closed, starve, locks, calls, hand, pend, active, ghost>>

\* Mutant: the condition is not tested again under the lock of sleep.
qbwriteSleepUntested(w) ==
  /\ qpc[w] = "sleep"
  /\ Goto(w, "asleep")
  /\ UNCHANGED <<config, buffer, flags, locks, calls, hand, pend, active, ghost>>

qbwriteSleep(w) ==
  /\ qpc[w] = "sleep"
  /\ Goto(w, IF qnotfull THEN "flow" ELSE "asleep")
  /\ UNCHANGED <<config, buffer, flags, locks, calls, hand, pend, active, ghost>>

-----------------------------------------------------------------------------
(* Interrupt level; an agent runs when it has done its wakeups.  An        *)
(* operation that finds no room or no memory, or a queue it frees its      *)
(* blocks for, and changes nothing, is a stuttering step.                  *)

Free(a, f) == uses(f) /\ pend[a] = <<>>

\* Ask for flow control.
Full(bound) == flow' = (flow \/ len' >= bound)

\* A closed queue takes input as well.
qproduce(k) ==
  /\ Free("in", "qproduce") /\ len < limit
  /\ qaddlist(<<Block(Fresh(k))>>) /\ Wrote(k)
  /\ Feed("in", <<"rr">>) /\ Full(limit)
  /\ UNCHANGED <<config, closed, locks, qpc, calls, hand, active>>

qproduceFull ==
  /\ Free("in", "qproduce") /\ len >= limit
  /\ flow' = TRUE
  /\ UNCHANGED <<config, buffer, closed, starve, locks, qpc, calls, hand, pend, active, ghost>>

\* k bytes as a list of one block, or of two when j > 0.
List(k, j) ==
  IF j = 0 THEN <<Block(Fresh(k))>>
  ELSE <<Block(First(Fresh(k), j)), Block(Rest(Fresh(k), j))>>

\* qpass and qpassnolim, which differ in the limit.
qpass(f, k, j) ==
  /\ Free("in", f) /\ ~closed
  /\ f = "qpass" => len < limit
  /\ qaddlist(List(k, j)) /\ Wrote(k)
  /\ Feed("in", <<"rr">>) /\ Full(limit \div 2)
  /\ UNCHANGED <<config, closed, locks, qpc, calls, hand, active>>

\* A kernel print; its limit of 16*1024 bytes is above MaxBlocks.
qiwrite(k) ==
  /\ Free("in", "qiwrite")
  /\ qaddlist(<<Block(Fresh(k))>>) /\ Wrote(k)
  /\ Feed("in", IF use.kick THEN <<"kick", "rr">> ELSE <<"rr">>)
  /\ UNCHANGED <<config, closed, flow, locks, qpc, calls, hand, active>>

\* The device finds the queue empty and stops.  qconsume has freed the empty
\* blocks before it, and does not come to restarting the writer.
qstarve(f) ==
  /\ active /\ Free("out", f)
  /\ IF f = "qconsume" THEN blocklen(blocks) = 0 ELSE blocks = <<>>
  /\ SetTo(<<>>)
  /\ starve' = TRUE /\ active' = FALSE
  /\ UNCHANGED <<config, closed, flow, locks, qpc, calls, hand, pend, ghost>>

qget ==
  /\ active /\ Free("out", "qget") /\ blocks # <<>>
  /\ SetTo(Tail(blocks))
  /\ out' = Head(blocks).d
  /\ Restart("out", limit \div 2, <<"wr">>)
  /\ UNCHANGED <<config, closed, starve, locks, qpc, calls, hand, active, next>>

\* Up to k bytes of the first block that is not empty.
qconsume(k) ==
  /\ active /\ Free("out", "qconsume") /\ blocklen(blocks) > 0
  /\ LET i == SelectInSeq(blocks, LAMBDA b : b.d # <<>>)
         b == blocks[i]
         tail == SubSeq(blocks, i + 1, Len(blocks))
     IN  /\ SetTo(IF use.mode = "msg" \/ Len(b.d) <= k THEN tail
                  ELSE <<[b EXCEPT !.d = Rest(@, k)]>> \o tail)
         /\ out' = First(b.d, least(k, Len(b.d)))
  /\ Restart("out", limit \div 2, <<"wr">>)
  /\ UNCHANGED <<config, closed, starve, locks, qpc, calls, hand, active, next>>

\* The next k bytes are thrown away; a block's BALLOC stays until it is gone.
qdiscard(k) ==
  /\ Free("out", "qdiscard") /\ blocks # <<>>
  /\ LET upto(i) == blocklen(SubSeq(blocks, 1, i))
         kept == {i \in DOMAIN blocks : upto(i - 1) >= k \/ upto(i) > k}
         i == Min(kept)
         cut == IF upto(i - 1) < k THEN Rest(blocks[i].d, k - upto(i - 1)) ELSE blocks[i].d
     IN  /\ SetTo(IF kept = {} THEN <<>>
                  ELSE <<[blocks[i] EXCEPT !.d = cut]>> \o SubSeq(blocks, i + 1, Len(blocks)))
         /\ out' = First(Bytes(blocks), least(k, blocklen(blocks)))
  /\ Restart("out", limit, <<"wr">>)
  /\ UNCHANGED <<config, closed, starve, locks, qpc, calls, hand, active, next>>

-----------------------------------------------------------------------------
(* Open, close and control messages *)

\* All blocks are released.
Empty == SetTo(<<>>) /\ out' = Bytes(blocks)

Reading == \E r \in Readers : qpc[r] # "idle"

\* Most drivers close a queue when the end that reads it is closed.
qclose ==
  /\ Free("ctl", "qclose") /\ (use.excl => ~Reading)
  /\ Empty
  /\ closed' = TRUE /\ flow' = FALSE /\ starve' = FALSE
  /\ noblock' = FALSE
  /\ pend' = [pend EXCEPT !["ctl"] = <<"rr", "wr">>]
  /\ UNCHANGED <<use, limit, locks, qpc, calls, hand, active, next>>

qhangup ==
  /\ Free("ctl", "qhangup")
  /\ closed' = TRUE
  /\ pend' = [pend EXCEPT !["ctl"] = <<"rr", "wr">>]
  /\ UNCHANGED <<config, buffer, starve, flow, locks, qpc, calls, hand, active, ghost>>

\* Most drivers reopen it when nobody has it open and the next open goes on.
qreopen ==
  /\ Free("ctl", "qreopen") /\ (use.excl => Idle)
  /\ closed' = FALSE /\ starve' = TRUE
  /\ limit' = use.inilim
  /\ UNCHANGED <<use, noblock, buffer, flow, locks, qpc, calls, hand, pend, active, ghost>>

qflush ==
  /\ Free("ctl", "qflush")
  /\ Empty
  /\ pend' = [pend EXCEPT !["ctl"] = <<"wr">>]
  /\ UNCHANGED <<config, flags, locks, qpc, calls, hand, active, next>>

qsetlimit(l) ==
  /\ Free("ctl", "qsetlimit")
  /\ limit' = l
  /\ UNCHANGED <<use, noblock, buffer, flags, locks, qpc, calls, hand, pend, active, ghost>>

qnoblock(onoff) ==
  /\ Free("ctl", "qnoblock")
  /\ noblock' = onoff
  /\ UNCHANGED <<use, limit, buffer, flags, locks, qpc, calls, hand, pend, active, ghost>>

-----------------------------------------------------------------------------
ReaderStep(r) ==
  \/ qlockr(r) \/ qwaitEof(r) \/ qwait(r) \/ qwaitSleep(r)
  \/ qreadEmpty(r) \/ qread(r) \/ qreadDone(r) \/ qbread(r) \/ readReturn(r)

WriterStep(w) ==
  \/ qlockw(w) \/ qbwriteClosed(w) \/ qbwriteDrop(w) \/ qbwrite(w)
  \/ qbwriteFlow(w) \/ qbwriteSetflow(w) \/ qbwriteSleep(w)

In ==
  \/ qproduceFull
  \/ \E k \in use.sizes : \/ qproduce(k) \/ qiwrite(k)
                          \/ \E f \in {"qpass", "qpassnolim"}, j \in 0..k : qpass(f, k, j)

Out ==
  \/ \E f \in {"qget", "qconsume"} : qstarve(f)
  \/ qget
  \/ \E k \in 1..MaxSize : qconsume(k) \/ qdiscard(k)

Ctl ==
  \/ qclose \/ qhangup \/ qreopen \/ qflush
  \/ \E l \in use.limits : qsetlimit(l)
  \/ \E onoff \in BOOLEAN : qnoblock(onoff)

QioNext ==
  \/ \E a \in Agents : wakeup(a) \/ kick(a)
  \/ \E p \in QioProcs : qintr(p)
  \/ \E r \in Readers : ReaderStep(r) \/ \E k \in 1..MaxSize : \E f \in {"qread", "qbread"} : read(r, f, k)
  \/ \E w \in Writers : WriterStep(w) \/ \E k \in use.sizes : qwrite(w, k)
  \/ In \/ Out \/ Ctl

QioSpec == QioInit /\ [][QioNext]_qiovars

-----------------------------------------------------------------------------
(* Properties *)

QioTypeOK ==
  /\ use \in Uses
  /\ \A i \in DOMAIN blocks : blocks[i].d \in Seq(0..(Wrap - 1)) /\ blocks[i].a \in Nat
  /\ limit \in {use.inilim} \cup use.limits
  /\ {noblock, closed, starve, flow, active} \subseteq BOOLEAN
  /\ rlock \in Readers \cup {null} /\ wlock \in Writers \cup {null}
  /\ qpc \in [QioProcs -> {"idle", "lock", "wait", "copy", "put", "wake", "flow",
                       "setflow", "sleep", "asleep"}]
  /\ op \in [Readers -> {"qread", "qbread"}] /\ n \in [QioProcs -> 0..MaxSize]
  /\ \A a \in Agents : Range(pend[a]) \subseteq {"kick", "rr", "wr"}

\* q->len and q->dlen are what the blocks in the queue add up to.
Accounted ==
  /\ QioTypeOK
  /\ len = blockalloclen(blocks) /\ dlen = blocklen(blocks)
  /\ rlock = null => \A r \in Readers : hand[r] = <<>>

Pending(x) == \E a \in Agents : x \in Range(pend[a])

ReaderFed ==
  \A r \in Readers : qpc[r] = "asleep" => (starve /\ ~notempty) \/ Pending("rr")

WriterRestarted ==
  \A w \in Writers : qpc[w] = "asleep" =>
    \/ Pending("wr")
    \/ ~closed /\ flow /\ (blocks # <<>> \/ \E r \in Readers : qpc[r] = "copy")

DeviceKicked ==
  (uses("qget") \/ uses("qconsume")) /\ blocks # <<>> /\ ~active /\ ~closed => Pending("kick")

\* Nobody takes from the queue behind the backs of its readers.
ReadersAlone == use.ops \cap {"qget", "qconsume", "qdiscard", "qflush"} = {}

\* Writers are held up only by what writers put in, the limit is not lowered
\* under them, and what holds them up is taken out by readers only or by the
\* device only, as blocks that are not empty if qconsume takes them.
WritersAlone ==
  /\ use.excl /\ use.mode # "coalesce"
  /\ use.ops \cap {"qproduce", "qpass", "qpassnolim", "qiwrite"} = {}
  /\ \A l, m \in use.limits : l = m /\ use.inilim <= l
  /\ use.ops \cap {"qread", "qbread"} # {} => ReadersAlone
  /\ "qconsume" \in use.ops => 0 \notin use.sizes /\ "qdiscard" \notin use.ops

\* Nobody else reads what the device takes out; it is put in by those who
\* kick, and not by a kernel print while the queue is closed.
DeviceAlone ==
  /\ use.kick
  /\ use.ops \cap {"qread", "qbread", "qproduce", "qpass", "qpassnolim"} = {}
  /\ "qiwrite" \in use.ops => use.ops \cap {"qclose", "qreopen"} = {}

\* Nobody misses what it waits for, although Qstarve and Qflow are set and
\* tested in one critical section, the condition of sleep is tested in
\* another and the wakeup comes after it.  A reader sleeps only while it has
\* asked for data and there is none, unless the driver also empties the queue
\* in another way; a writer sleeps only while it has asked to be restarted
\* and there is still a block whose removal will do that, unless the driver
\* does not keep to WritersAlone; a device that is kicked by all who put in
\* stands still only while there is nothing for it.
NoLostWakeup ==
  /\ Accounted
  /\ ReadersAlone => ReaderFed
  /\ WritersAlone => WriterRestarted
  /\ DeviceAlone => DeviceKicked

\* What readers and the device take out of the queue is what writers put in,
\* in the same order and each byte once, also while a reader copies with the
\* queue unlocked and puts back what is left.  A queue that is closed or
\* flushed loses all but what a reader will put back.
Left ==
  IF use.mode = "msg" \/ rlock = null THEN <<>> ELSE Bytes(bl2mem(hand[rlock], n[rlock]))
Stream == INSTANCE ByteStream
  WITH stream <- Left \o Bytes(blocks), held <- Len(Left), msg <- use.mode = "msg"
ImplementsByteStream == Stream!Spec

=============================================================================

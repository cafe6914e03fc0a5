-------------------------------- MODULE Mnt ---------------------------------
(***************************************************************************)
(* The mount driver's RPC multiplexer, sys/src/9/port/devmnt.c: mountio    *)
(* and what it calls.  Many processes share one channel to a 9P server.    *)
(* Each queues its request on m->queue and writes it; one process at a     *)
(* time, m->rip, reads replies for everybody, hands each to the request    *)
(* with its tag, and passes the reading on when its own reply has come.    *)
(* A note interrupts a call at the write, the sleep or the read; the       *)
(* process then sends a Tflush and waits for that instead.                 *)
(*                                                                         *)
(* A Mntrpc keeps its tag as long as it exists, so one model value stands  *)
(* for both.  Each lock(m) section is one step, except mntgate's, during   *)
(* which others may look at m->rip without the lock.  sleep and wakeup     *)
(* are those of module Sleep, taken as atomic here.                        *)
(***************************************************************************)
EXTENDS Integers, Sequences, SequencesExt

CONSTANTS Procs,      \* the processes that use the mount point
          Rpcs,       \* Mntrpc headers, each with its tag
          Noted,      \* the processes that get notes
          MaxFlush,   \* bound: notes that interrupt one call
          Hangups,    \* whether the channel may be hung up
          nil         \* the null pointer

ASSUME NilAssumption == nil \notin Procs \cup Rpcs
ASSUME NotedAssumption == Noted \subseteq Procs /\ MaxFlush \in Nat
ASSUME HangupAssumption == Hangups \in BOOLEAN

VARIABLES
  rip,      \* m->rip: reader in progress, or nil
  mlock,    \* the process inside mntgate's lock(m) section, or nil
  queue,    \* m->queue, newest first
  done,     \* r->done
  reply,    \* r->reply: the message last put there
  oldtag,   \* r->request.oldtag of a Tflush, nil for any other request
  chain,    \* p's request and the flushes it sent after it (fr->flushed)
  pc,       \* where each process is
  err,      \* the error mountio is handling, "" for none
  muxq,     \* the local q of mountmux: whom to wake up
  note,     \* p->notepending
  srv,      \* messages the server has received and not answered, in order
  wire,     \* replies on the channel, not yet read
  hungup,   \* the channel is hung up
  answered  \* history: requests the server answered (not flushes)

vars == <<rip, mlock, queue, done, reply, oldtag, chain, pc, err, muxq, note,
          srv, wire, hungup, answered>>
local == <<rip, mlock, queue, done, reply, oldtag, chain, err, muxq, note,
           srv, wire, hungup, answered>>

NoReply == [tag |-> nil, type |-> "Tmax"]
Replies == [tag : Rpcs \cup {nil}, type : {"R", "Rflush", "Tmax"}]
Requests == [tag : Rpcs, oldtag : Rpcs \cup {nil}]

(***************************************************************************)
(* Control points, in the order of mountio: "enqueue" before the first     *)
(* lock(m); "write"; "gate" the top of the for loop; "sleep", "asleep" and *)
(* "woke" in sleep(&r->r, rpcattn, r); "read", "mux" and "muxwake" in the  *)
(* reader's loop; "mntgate" and "scan" in mntgate; "flush" about to call   *)
(* mntflushalloc; "flushfree" in mntflushfree; "ret" back in mountrpc.     *)
(***************************************************************************)
PCs == {"idle", "enqueue", "write", "gate", "sleep", "asleep", "woke", "read",
        "mux", "muxwake", "mntgate", "scan", "flush", "flushfree", "ret"}
Errors == {"", "Eintr", "Ehungup"}

InUse == UNION {ToSet(chain[p]) : p \in Procs}
cur(p) == Last(chain[p])

(***************************************************************************)
(* Types and representation.  The reader in progress is the one process in *)
(* the reading part of mountio (also across the error path that ends in    *)
(* mntgate).  m->queue holds, once each, unanswered requests of calls in   *)
(* progress only: no freed header stays linked in it.                      *)
(***************************************************************************)
TypeOK ==
  /\ rip \in Procs \cup {nil} /\ mlock \in Procs \cup {nil}
  /\ queue \in Seq(Rpcs)
  /\ done \in [Rpcs -> BOOLEAN]
  /\ reply \in [Rpcs -> Replies]
  /\ oldtag \in [Rpcs -> Rpcs \cup {nil}]
  /\ chain \in [Procs -> Seq(Rpcs)]
  /\ pc \in [Procs -> PCs]
  /\ err \in [Procs -> Errors]
  /\ muxq \in [Procs -> Rpcs \cup {nil}]
  /\ note \in [Procs -> BOOLEAN]
  /\ srv \in Seq(Requests) /\ wire \in Seq(Replies)
  /\ hungup \in BOOLEAN
  /\ answered \subseteq Rpcs
  /\ \A p \in Procs : rip = p <=> pc[p] \in {"read", "mux", "muxwake", "mntgate"}
  /\ \A p \in Procs : mlock = p <=> pc[p] = "scan"
  /\ IsInjective(queue)
  /\ \A r \in ToSet(queue) : r \in InUse /\ ~done[r]

Init ==
  /\ rip = nil /\ mlock = nil
  /\ queue = <<>>
  /\ done = [r \in Rpcs |-> FALSE]
  /\ reply = [r \in Rpcs |-> NoReply]
  /\ oldtag = [r \in Rpcs |-> nil]
  /\ chain = [p \in Procs |-> <<>>]
  /\ pc = [p \in Procs |-> "idle"]
  /\ err = [p \in Procs |-> ""]
  /\ muxq = [p \in Procs |-> nil]
  /\ note = [p \in Procs |-> FALSE]
  /\ srv = <<>> /\ wire = <<>>
  /\ hungup = FALSE
  /\ answered = {}

Goto(p, to) == pc' = [pc EXCEPT ![p] = to]

\* Mutant: l is not advanced, so that *l = r->list drops newer requests
\* too.
unlink_newer(r) ==
  queue' = IF r \in ToSet(queue)
           THEN SubSeq(queue, 1 + CHOOSE i \in DOMAIN queue : queue[i] = r, Len(queue))
           ELSE queue

\* *l = r->list: r leaves m->queue.
unlink(r) == queue' = RemoveFirst(queue, r)

-----------------------------------------------------------------------------
(***************************************************************************)
(* Headers.                                                                *)
(***************************************************************************)
\* mntralloc: any header not in use, its fields reset.
mntralloc(p, r, old) ==
  /\ r \notin InUse
  /\ chain' = [chain EXCEPT ![p] = Append(@, r)]
  /\ done' = [done EXCEPT ![r] = FALSE]
  /\ oldtag' = [oldtag EXCEPT ![r] = old]

\* mntfree of p's last header.  What a free header holds is never read:
\* reply is put back to NoReply to keep the states few.
mntfree(p) ==
  /\ chain' = [chain EXCEPT ![p] = Front(@)]
  /\ reply' = [reply EXCEPT ![cur(p)] = NoReply]
  /\ oldtag' = [oldtag EXCEPT ![cur(p)] = nil]
  /\ answered' = answered \ {cur(p)}

\* A caller (mntrdwr, mntwalk, ...) takes a header and calls mountrpc.
mountrpc(p) ==
  /\ pc[p] = "idle"
  /\ \E r \in Rpcs : mntralloc(p, r, nil)
  /\ Goto(p, "enqueue")
  /\ UNCHANGED <<rip, mlock, queue, reply, err, muxq, note, srv, wire, hungup,
                 answered>>

\* The tag a flush of r names: that of the original request.
flushtag(r) == IF oldtag[r] # nil THEN oldtag[r] ELSE r

mntflushalloc(p) ==
  /\ pc[p] = "flush"
  /\ \E fr \in Rpcs : mntralloc(p, fr, flushtag(cur(p)))
  /\ err' = [err EXCEPT ![p] = ""]
  /\ Goto(p, "enqueue")
  /\ UNCHANGED <<rip, mlock, queue, reply, muxq, note, srv, wire, hungup,
                 answered>>

-----------------------------------------------------------------------------
(***************************************************************************)
(* mountio: queue the request, write it, then wait for the reading.        *)
(***************************************************************************)
enqueue(p) ==
  /\ pc[p] = "enqueue" /\ mlock = nil
  /\ queue' = <<cur(p)>> \o queue
  /\ Goto(p, "write")
  /\ UNCHANGED <<rip, mlock, done, reply, oldtag, chain, err, muxq, note, srv,
                 wire, hungup, answered>>

\* The message reaches the server.
transmit(p) ==
  srv' = Append(srv, [tag |-> cur(p), oldtag |-> oldtag[cur(p)]])

write(p) ==
  /\ pc[p] = "write" /\ ~hungup
  /\ transmit(p)
  /\ Goto(p, "gate")
  /\ UNCHANGED <<rip, mlock, queue, done, reply, oldtag, chain, err, muxq, note,
                 wire, hungup, answered>>

\* if(m->rip == up) mntgate(m), in the waserror body; then to `to`.
giveup(p, to) == Goto(p, IF rip = p THEN "mntgate" ELSE to)

\* error(Eintr), from a write, a sleep or a read that finds a note: the
\* waserror body passes the reading on if p had it, then flushes.
eintr(p) ==
  /\ note[p]
  /\ note' = [note EXCEPT ![p] = FALSE]
  /\ err' = [err EXCEPT ![p] = "Eintr"]
  /\ giveup(p, "flush")

\* The write is interrupted; the message may have gone out all the same.
writeEintr(p) ==
  /\ pc[p] = "write" /\ ~hungup
  /\ eintr(p)
  /\ transmit(p) \/ UNCHANGED srv
  /\ UNCHANGED <<rip, mlock, queue, done, reply, oldtag, chain, muxq, wire,
                 hungup, answered>>

\* Any other error: pass the reading on, free the chain, give the error up.
fails(p) ==
  /\ err' = [err EXCEPT ![p] = "Ehungup"]
  /\ giveup(p, "flushfree")
  /\ UNCHANGED <<rip, mlock, queue, done, reply, oldtag, chain, muxq, note, srv,
                 wire, hungup, answered>>

writeFails(p) ==
  /\ pc[p] = "write" /\ hungup
  /\ fails(p)

gateTake(p) ==
  /\ pc[p] = "gate" /\ mlock = nil
  /\ rip = nil
  /\ rip' = p
  /\ Goto(p, IF done[cur(p)] THEN "mntgate" ELSE "read")
  /\ UNCHANGED <<mlock, queue, done, reply, oldtag, chain, err, muxq, note, srv,
                 wire, hungup, answered>>

gateSleep(p) ==
  /\ pc[p] = "gate" /\ mlock = nil
  /\ rip # nil
  /\ Goto(p, "sleep")
  /\ UNCHANGED local

\* Mutant: a completed request does not keep its owner from sleeping.
rpcattn_rip(r) == rip = nil

\* The condition p sleeps on; read without lock(m).
rpcattn(r) == done[r] \/ rip = nil

sleep(p) ==
  /\ pc[p] = "sleep"
  /\ Goto(p, IF rpcattn(cur(p)) \/ note[p] THEN "woke" ELSE "asleep")
  /\ UNCHANGED local

wokeEintr(p) ==
  /\ pc[p] = "woke"
  /\ eintr(p)
  /\ UNCHANGED <<rip, mlock, queue, done, reply, oldtag, chain, muxq, srv, wire,
                 hungup, answered>>

\* Mutants: any answer ends the wait, Rflush or not; none does.
woke_any(p) ==
  /\ pc[p] = "woke" /\ ~note[p]
  /\ Goto(p, IF \E r \in ToSet(chain[p]) : done[r] THEN "flushfree" ELSE "gate")
  /\ UNCHANGED local

woke_not(p) ==
  /\ pc[p] = "woke" /\ ~note[p]
  /\ Goto(p, "gate")
  /\ UNCHANGED local

woke(p) ==
  /\ pc[p] = "woke" /\ ~note[p]
  /\ Goto(p, IF done[cur(p)] THEN "flushfree" ELSE "gate")
  /\ UNCHANGED local

-----------------------------------------------------------------------------
(***************************************************************************)
(* The reader: mntrpcread, mountmux, mntgate.                              *)
(***************************************************************************)
\* mntrpcread leaves the message in the reader's own r->reply.
mntrpcread(p) ==
  /\ pc[p] = "read" /\ wire # <<>>
  /\ reply' = [reply EXCEPT ![cur(p)] = Head(wire)]
  /\ wire' = Tail(wire)
  /\ Goto(p, "mux")
  /\ UNCHANGED <<rip, mlock, queue, done, oldtag, chain, err, muxq, note, srv,
                 hungup, answered>>

readEintr(p) ==
  /\ pc[p] = "read"
  /\ eintr(p)
  /\ UNCHANGED <<rip, mlock, queue, done, reply, oldtag, chain, muxq, srv, wire,
                 hungup, answered>>

readFails(p) ==
  /\ pc[p] = "read" /\ hungup /\ wire = <<>>
  /\ fails(p)

\* The top of while(r->done == 0), after mountmux has returned.
readMore(p, isdone) == Goto(p, IF isdone THEN "mntgate" ELSE "read")

\* Mutant: the reply is not handed over.
handover_not(r, q) == UNCHANGED reply

\* q->reply = r->reply (and the data blocks with it).
handover(r, q) == reply' = [reply EXCEPT ![q] = reply[r]]

\* The reply's request is in the queue: take it out and complete it.  The
\* wakeup of another request's owner comes after unlock(m).
mountmux(p) ==
  LET r == cur(p)
      q == reply[r].tag
  IN  /\ pc[p] = "mux" /\ mlock = nil
      /\ q \in ToSet(queue)
      /\ unlink(q)
      /\ handover(r, q)
      /\ done' = [done EXCEPT ![q] = TRUE]
      /\ IF q # r THEN /\ muxq' = [muxq EXCEPT ![p] = q]
                       /\ Goto(p, "muxwake")
                  ELSE readMore(p, TRUE) /\ UNCHANGED muxq
      /\ UNCHANGED <<rip, mlock, oldtag, chain, err, note, srv, wire, hungup,
                     answered>>

\* "unexpected reply tag": the message is dropped.
mountmuxUnexpected(p) ==
  /\ pc[p] = "mux" /\ mlock = nil
  /\ reply[cur(p)].tag \notin ToSet(queue)
  /\ readMore(p, done[cur(p)])
  /\ UNCHANGED local

\* Those whom wakeup(&r->r) readies: the one process asleep there, if any.
Sleeper(r) == {s \in Procs : pc[s] = "asleep" /\ cur(s) = r}

\* wakeup(&q->r), after which the owner of q may have freed it already.
muxWakeup(p) ==
  /\ pc[p] = "muxwake"
  /\ pc' = [s \in Procs |->
              IF s = p THEN IF done[cur(p)] THEN "mntgate" ELSE "read"
              ELSE IF s \in Sleeper(muxq[p]) THEN "woke" ELSE pc[s]]
  /\ muxq' = [muxq EXCEPT ![p] = nil]
  /\ UNCHANGED <<rip, mlock, queue, done, reply, oldtag, chain, err, note, srv,
                 wire, hungup, answered>>

mntgate(p) ==
  /\ pc[p] = "mntgate" /\ mlock = nil
  /\ mlock' = p
  /\ rip' = nil
  /\ Goto(p, "scan")
  /\ UNCHANGED <<queue, done, reply, oldtag, chain, err, muxq, note, srv, wire,
                 hungup, answered>>

\* Mutant: the loop stops at the first unanswered request, asleep or not.
Wakeable_any(i) == ~done[queue[i]]

\* The requests mntgate's loop could wake up: unanswered, somebody asleep.
Wakeable(i) == ~done[queue[i]] /\ Sleeper(queue[i]) # {}

\* The loop and unlock(m): wake the first.  Nobody can fall asleep while
\* m->rip is 0, so it does not matter when in the loop each wakeup happens.
mntgateScan(p) ==
  /\ pc[p] = "scan"
  /\ mlock' = nil
  /\ LET first == {i \in DOMAIN queue :
                     Wakeable(i) /\ \A j \in 1..(i - 1) : ~Wakeable(j)}
         woken == UNION {Sleeper(queue[i]) : i \in first}
     IN  pc' = [s \in Procs |->
                  IF s = p THEN IF err[p] = "Eintr" THEN "flush" ELSE "flushfree"
                  ELSE IF s \in woken THEN "woke" ELSE pc[s]]
  /\ UNCHANGED <<rip, queue, done, reply, oldtag, chain, err, muxq, note, srv,
                 wire, hungup, answered>>

-----------------------------------------------------------------------------
(***************************************************************************)
(* The end of mountio: mntflushfree walks from the last flush back to the  *)
(* request, one header per step.                                           *)
(***************************************************************************)
\* An unanswered header gets reply Rflush and leaves the queue (mntqrm).
mntqrm(p) ==
  /\ pc[p] = "flushfree" /\ mlock = nil
  /\ ~done[cur(p)]
  /\ reply' = [reply EXCEPT ![cur(p)].type = "Rflush"]
  /\ done' = [done EXCEPT ![cur(p)] = TRUE]
  /\ unlink(cur(p))
  /\ UNCHANGED <<rip, mlock, oldtag, chain, pc, err, muxq, note, srv, wire,
                 hungup, answered>>

mntflushfree(p) ==
  /\ pc[p] = "flushfree"
  /\ done[cur(p)]
  /\ IF Len(chain[p]) > 1
     THEN mntfree(p) /\ UNCHANGED pc
     ELSE Goto(p, "ret") /\ UNCHANGED <<chain, reply, oldtag, answered>>
  /\ UNCHANGED <<rip, mlock, queue, done, err, muxq, note, srv, wire, hungup>>

\* mountrpc looks at the reply's type, and its caller frees the header.  A
\* note still pending is taken on the way out of the system call.
mountrpcReturn(p) ==
  /\ pc[p] = "ret"
  /\ mntfree(p)
  /\ Goto(p, "idle")
  /\ note' = [note EXCEPT ![p] = FALSE]
  /\ err' = [err EXCEPT ![p] = ""]
  /\ UNCHANGED <<rip, mlock, queue, done, muxq, srv, wire, hungup>>

-----------------------------------------------------------------------------
(***************************************************************************)
(* The outside: notes, the server (as flush(5) requires), the channel.     *)
(***************************************************************************)
postnote(p) ==
  /\ p \in Noted /\ pc[p] # "idle" /\ ~note[p]
  /\ Len(chain[p]) + (IF err[p] = "Eintr" THEN 1 ELSE 0) <= MaxFlush
  /\ note' = [note EXCEPT ![p] = TRUE]
  /\ IF pc[p] = "asleep" THEN Goto(p, "woke") ELSE UNCHANGED pc
  /\ UNCHANGED <<rip, mlock, queue, done, reply, oldtag, chain, err, muxq, srv,
                 wire, hungup, answered>>

\* The server answers any request it has; an answered Tflush aborts the
\* request it names and stands for the answer to earlier flushes of it.
serve(i) ==
  /\ i \in DOMAIN srv
  /\ LET m == srv[i]
         superseded(j) == /\ m.oldtag # nil
                          /\ \/ srv[j].tag = m.oldtag
                             \/ j < i /\ srv[j].oldtag = m.oldtag
         kept == {j \in DOMAIN srv : j # i /\ ~superseded(j)}
     IN  /\ \E f \in [1..Cardinality(kept) -> kept] :
              /\ \A j, k \in DOMAIN f : j < k => f[j] < f[k]
              /\ srv' = [k \in DOMAIN f |-> srv[f[k]]]
         /\ wire' = Append(wire, [tag  |-> m.tag,
                                  type |-> IF m.oldtag = nil THEN "R"
                                                             ELSE "Rflush"])
         /\ answered' = IF m.oldtag = nil THEN answered \cup {m.tag} ELSE answered
  /\ UNCHANGED <<rip, mlock, queue, done, reply, oldtag, chain, pc, err, muxq,
                 note, hungup>>

\* The channel goes away with what the server had not answered.
hangup ==
  /\ Hangups /\ ~hungup
  /\ hungup' = TRUE
  /\ srv' = <<>>
  /\ UNCHANGED <<rip, mlock, queue, done, reply, oldtag, chain, pc, err, muxq,
                 note, wire, answered>>

-----------------------------------------------------------------------------
step(p) ==
  \/ mntflushalloc(p) \/ enqueue(p)
  \/ write(p) \/ writeEintr(p) \/ writeFails(p)
  \/ gateTake(p) \/ gateSleep(p) \/ sleep(p) \/ wokeEintr(p) \/ woke(p)
  \/ mntrpcread(p) \/ readFails(p)
  \/ mountmux(p) \/ mountmuxUnexpected(p) \/ muxWakeup(p)
  \/ mntgate(p) \/ mntgateScan(p)
  \/ mntqrm(p) \/ mntflushfree(p) \/ mountrpcReturn(p)

Next ==
  \/ \E p \in Procs : mountrpc(p) \/ step(p) \/ readEintr(p) \/ postnote(p)
  \/ \E i \in DOMAIN srv : serve(i)
  \/ hangup

Spec == Init /\ [][Next]_vars

(***************************************************************************)
(* A process keeps running (lock(m) is held for bounded times, and the     *)
(* process that wants it gets it), and the server answers the oldest       *)
(* request.  Nobody has to make a call, post a note or hang up.            *)
(***************************************************************************)
Fairness ==
  /\ \A p \in Procs : SF_vars(step(p))
  /\ WF_vars(serve(1))

FairSpec == Spec /\ Fairness

-----------------------------------------------------------------------------
(***************************************************************************)
(* Properties.                                                             *)
(***************************************************************************)
\* flush(5): a tag is not reused before the server is done with it.  While
\* the channel works, the tag of a free header is in no message that is still
\* under way, neither as its tag nor as the oldtag of a Tflush.
TagQuiet ==
  /\ TypeOK
  /\ ~hungup => \A r \in Rpcs \ InUse :
       /\ \A i \in DOMAIN srv : r \notin {srv[i].tag, srv[i].oldtag}
       /\ \A i \in DOMAIN wire : wire[i].tag # r

\* While the channel works, every reply the reader takes off it finds its
\* request in m->queue: mountmux never prints "unexpected reply tag", also
\* when flushes, late replies and reused headers mix.
Expected ==
  ~hungup => \A p \in Procs : pc[p] = "mux" => reply[cur(p)].tag \in ToSet(queue)

\* flush(5): a call whose request the server answered returns that answer,
\* even if it was interrupted meanwhile, and one that returns Eintr was not
\* answered: what mountrpc finds in r->reply is what the server did.
Honoured ==
  \A p \in Procs : pc[p] = "ret" /\ err[p] = "" =>
    /\ reply[cur(p)].type = "R" => reply[cur(p)].tag = cur(p)
    /\ reply[cur(p)].type = "R" <=> cur(p) \in answered

\* p is on its way to look at m->rip again.
Comes(p) ==
  \/ pc[p] \in {"gate", "sleep", "scan", "flush", "enqueue", "write"}
  \/ pc[p] = "woke" /\ (note[p] \/ ~done[cur(p)])

\* While the channel works, the reading is never dropped: when nobody reads
\* and some process sleeps waiting for its reply, another is on its way to
\* take the reading over, also if it is interrupted then.
BatonHeld ==
  ~hungup /\ rip = nil /\ (\E s \in Procs : pc[s] = "asleep" /\ ~done[cur(s)])
    => \E p \in Procs : Comes(p)

\* A process asleep on a completed request is about to be woken by the
\* reader that completed it, although mountmux does so after unlock(m).
ReplyNotSleptThrough ==
  \A s \in Procs : pc[s] = "asleep" /\ done[cur(s)] =>
    \E p \in Procs : pc[p] = "muxwake" /\ muxq[p] = cur(s)

\* The channel is hung up, and p sleeps for a reply that nobody will read.
Abandoned(p) ==
  /\ hungup /\ rip = nil /\ pc[p] = "asleep"
  /\ \A q \in Procs : pc[q] \notin {"gate", "sleep", "woke", "scan"}

\* Every call on a working channel returns, with an answer or an error.  After
\* a hangup too, unless nobody is left to read: the process mntgate chose to read
\* on may be interrupted, cannot send its flush and leaves without mntgate.
CallReturns == \A p \in Procs : pc[p] # "idle" ~> pc[p] = "idle" \/ Abandoned(p)
=============================================================================

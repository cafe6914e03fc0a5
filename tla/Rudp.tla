-------------------------------- MODULE Rudp --------------------------------
(***************************************************************************)
(* Reliable datagrams between two hosts, sys/src/9/ip/rudp.c.  Each host   *)
(* keeps one Reliable for the other.  What runs with ucb locked is one     *)
(* step.  The network loses, duplicates, delays and reorders packets: a    *)
(* packet stays in net and may be received any number of times, or never.  *)
(* Sequence numbers go round at Mod and skip 0; a run is shorter than one  *)
(* round, as no packet survives 2^32 others.                               *)
(***************************************************************************)
EXTENDS Integers, Sequences

CONSTANTS
  Ends,         \* the two hosts
  Mod,          \* sequence numbers are below Mod (2^32 in the code)
  Maxunacked,   \* a writer blocks above this many unacknowledged messages
  Wakeat,       \* and is woken below this many (Maxunacked/8)
  Rudpmaxxmit,  \* retransmissions before a hangup
  MaxMsg,       \* bound on the messages of each host, a function on Ends
  MaxGen,       \* bound on the generations of each host
  Old,          \* sequence numbers that a long-lived connection has reached
  nil           \* the null pointer

Hangupgen == -1
Seqs == 0..(Mod - 1)

\* What a packet and a Reliable hold.
Packets ==
  [to : Ends, seq : Seqs, sgen : {Hangupgen} \cup 1..MaxGen, ack : Seqs, agen : 0..MaxGen, msg : Nat]
Reliables ==
  [unacked : Seq(Packets), xmits : 0..(Rudpmaxxmit + 1), sndseq : Seqs, sndgen : 1..MaxGen,
   rcvseq : Seqs, rcvgen : 0..MaxGen, acksent : Seqs, ackrcvd : Seqs, blocked : BOOLEAN, sent : Nat]

ASSUME RudpAssumption ==
  /\ Mod \in Nat /\ Mod > 2 /\ Maxunacked \in Nat
  /\ Rudpmaxxmit \in Nat \ {0} /\ Wakeat \in 1..Maxunacked /\ MaxGen \in Nat \ {0}
  /\ MaxMsg \in [Ends -> 0..(Mod - 2)] /\ Old \subseteq 1..(Mod - 1)
  /\ \E a, b \in Ends : a # b /\ Ends = {a, b}
  /\ nil \notin Reliables \cup Packets

VARIABLES
  conv,    \* "open"; "hungup" with rq and wq hung up; "closing" between the two
           \* sections of rudpclose; "closed"
  hand,    \* the packet that rudpiput looked up c for before it was closed, or nil
  rel,     \* ucb->r: a host's Reliable for the other, or nil
  gen,     \* generation: the next one to be used
  kick,    \* where the writer in rudpkick is
  net,     \* packets sent, [to, seq, sgen, ack, agen, msg]
  nmsg,    \* messages a host has written so far
  taken,   \* history: messages that reliput took since the last hangup
  arrived, \* history: of each generation of the other host, those that qpass put
           \* into the reader's queue
  dropped  \* history: and those that came with that queue hung up or closed

vars == <<conv, hand, rel, gen, kick, net, nmsg, taken, arrived, dropped>>

Peer(e) == CHOOSE f \in Ends : f # e

NEXTSEQ(a) == IF (a + 1) % Mod = 0 THEN 1 ELSE a + 1
\* Mutant: as if 0 were a sequence number.
SEQDIFFWith0(a, b) == (a - b) % Mod

\* How far a is from b, in messages.
SEQDIFF(a, b) == IF a >= b THEN a - b ELSE (Mod - 1) - (b - a)

\* a is one of the messages after start, up to end.
INSEQ(a, start, end) == IF start <= end THEN a > start /\ a <= end ELSE a > start \/ a <= end
UNACKED(r) == SEQDIFF(r.sndseq, r.ackrcvd)

\* A Reliable; sent counts the messages of its generation, as in msg.
Reliable(g, s) ==
  [unacked |-> <<>>, xmits |-> 0, sndseq |-> s, sndgen |-> g, rcvseq |-> s,
   rcvgen |-> IF s = 0 THEN 0 ELSE 1, acksent |-> s, ackrcvd |-> s,
   blocked |-> FALSE, sent |-> 0]

\* Nothing was sent yet, or a connection that is about to go round.
Init ==
  /\ conv = [e \in Ends |-> "open"] /\ hand = [e \in Ends |-> nil]
  /\ \/ rel = [e \in Ends |-> nil] /\ gen = [e \in Ends |-> 1]
     \/ \E s \in Old : rel = [e \in Ends |-> Reliable(1, s)] /\ gen = [e \in Ends |-> 2]
  /\ kick = [e \in Ends |-> "idle"]
  /\ net = {}
  /\ nmsg = [e \in Ends |-> 0]
  /\ taken = [e \in Ends |-> <<>>]
  /\ arrived = [e \in Ends |-> [g \in 1..MaxGen |-> {}]]
  /\ dropped = [e \in Ends |-> [g \in 1..MaxGen |-> {}]]

-----------------------------------------------------------------------------
(* Helpers.  A Work record holds what a step has done so far: the Reliable, *)
(* the next generation, the packets sent, whether there was a hangup and    *)
(* whether r->vous was woken.  A step binds it with \E w \in {...}, which TLC *)
(* evaluates once, where LET would be evaluated at each use.                *)

relstate(e) ==
  [r |-> IF rel[e] = nil THEN Reliable(gen[e], 0) ELSE rel[e],
   gen |-> IF rel[e] = nil THEN gen[e] + 1 ELSE gen[e],
   out |-> {}, hangup |-> FALSE, wake |-> FALSE]

\* A packet of the Reliable r of host e.
Packet(e, r, seq, sgen, msg) ==
  [to |-> Peer(e), seq |-> seq, sgen |-> sgen, ack |-> r.rcvseq, agen |-> r.rcvgen, msg |-> msg]

relsendack(e, w, sgen) ==
  [w EXCEPT !.out = @ \cup {Packet(e, w.r, 0, sgen, 0)},
            !.r.acksent = IF @ < w.r.rcvseq THEN w.r.rcvseq ELSE @]

\* Mutant: the writer is not woken.
relhangupSilent(w) ==
  [w EXCEPT !.r = [Reliable(w.gen, 0) EXCEPT !.blocked = w.r.blocked],
            !.gen = @ + 1, !.hangup = TRUE]

relhangup(w) ==
  [w EXCEPT !.r = [Reliable(w.gen, 0) EXCEPT !.blocked = w.r.blocked],
            !.gen = @ + 1, !.hangup = TRUE, !.wake = TRUE]

relrexmit(w) ==
  IF w.r.xmits > Rudpmaxxmit THEN relhangup(w)
  ELSE [w EXCEPT !.r.xmits = @ + 1, !.out = @ \cup {Head(w.r.unacked)}]

\* The conversation is in use.
Open(e) == conv[e] \in {"open", "hungup"}

\* The step is over, and r is the Reliable now.  What a closed conversation sends
\* is lost: its port is 0.
Done(e, w, r) ==
  /\ w.gen <= MaxGen + 1
  /\ rel' = [rel EXCEPT ![e] = r]
  /\ gen' = [gen EXCEPT ![e] = w.gen]
  /\ net' = net \cup (IF conv[e] = "closed" THEN {} ELSE w.out)

\* The writer's r was woken, or it was forgotten: then it returns.
Kicker(e, w, r) ==
  kick' = [kick EXCEPT ![e] = IF r = nil THEN "idle"
                              ELSE IF w.wake /\ @ = "asleep" THEN "awake" ELSE @]

\* The reader's view: a hangup starts a new connection.
Reader(e, w) == taken' = [taken EXCEPT ![e] = IF w.hangup THEN <<>> ELSE @]

-----------------------------------------------------------------------------
(* The writer *)

\* A write queues the message and sends it; it carries an acknowledgement.
rudpkick(e) ==
  /\ conv[e] = "open" /\ kick[e] = "idle" /\ nmsg[e] < MaxMsg[e]
  /\ LET w == relstate(e)
         seq == NEXTSEQ(w.r.sndseq)
         p == Packet(e, w.r, seq, w.r.sndgen, w.r.sent + 1)
         r == [w.r EXCEPT !.sndseq = seq, !.sent = @ + 1, !.acksent = w.r.rcvseq,
                          !.unacked = Append(@, p),
                          !.xmits = IF w.r.unacked = <<>> THEN 1 ELSE @]
     IN  Done(e, [w EXCEPT !.out = {p}], r)
  /\ kick' = [kick EXCEPT ![e] = "flow"]
  /\ nmsg' = [nmsg EXCEPT ![e] = @ + 1]
  /\ UNCHANGED <<conv, hand, taken, arrived, dropped>>

\* "Flow control of sorts", with r->lock and without ucb.
rudpkickFlow(e) ==
  /\ kick[e] = "flow"
  /\ LET full == UNACKED(rel[e]) > Maxunacked
     IN  /\ kick' = [kick EXCEPT ![e] = IF full THEN "sleep" ELSE "idle"]
         /\ rel' = [rel EXCEPT ![e].blocked = @ \/ full]
  /\ UNCHANGED <<conv, hand, gen, net, nmsg, taken, arrived, dropped>>

flow(r) == UNACKED(r) <= Maxunacked

rudpkickSleep(e) ==
  /\ kick[e] = "sleep"
  /\ kick' = [kick EXCEPT ![e] = IF flow(rel[e]) THEN "awake" ELSE "asleep"]
  /\ UNCHANGED <<conv, hand, rel, gen, net, nmsg, taken, arrived, dropped>>

rudpkickAwake(e) ==
  /\ kick[e] = "awake"
  /\ kick' = [kick EXCEPT ![e] = "idle"]
  /\ rel' = [rel EXCEPT ![e].blocked = FALSE]
  /\ UNCHANGED <<conv, hand, gen, net, nmsg, taken, arrived, dropped>>

\* A note interrupts sleep; r->blocked stays set.
postnote(e) ==
  /\ kick[e] \in {"sleep", "asleep"}
  /\ kick' = [kick EXCEPT ![e] = "idle"]
  /\ UNCHANGED <<conv, hand, rel, gen, net, nmsg, taken, arrived, dropped>>

-----------------------------------------------------------------------------
(* Input *)

\* Dequeue what ack acknowledges.
Acked(r, ack) ==
  IF INSEQ(ack, r.ackrcvd, r.sndseq)
  THEN [r EXCEPT !.ackrcvd = ack, !.unacked = SubSeq(@, SEQDIFF(ack, r.ackrcvd) + 1, Len(@))]
  ELSE r

\* The acknowledgement in p; the next message was lost if this one was.
Acknowledge(w, p) ==
  IF p.ack = 0 \/ p.agen # w.r.sndgen THEN w
  ELSE LET r == Acked(w.r, p.ack)
           real == r.ackrcvd # w.r.ackrcvd /\ r.unacked # <<>>
           wake == w.wake \/ (UNACKED(r) < Wakeat /\ r.blocked)
       IN  IF real /\ r.xmits > 1
           THEN relrexmit([w EXCEPT !.r = [r EXCEPT !.xmits = 1], !.wake = wake])
           ELSE [w EXCEPT !.r = r, !.wake = wake]

\* "If acking an incorrect generation, ignore", and a hangup of another
\* generation, and a message in the middle of one.
Ignored(r, p) ==
  \/ p.ack # 0 /\ p.agen # r.sndgen
  \/ p.sgen = Hangupgen /\ p.agen # r.sndgen
  \/ p.sgen # Hangupgen /\ p.sgen # r.rcvgen /\ p.seq \notin {0, 1}

\* Mutant: the new generation goes on where the old one was.
NewRemoteGoesOn(w, p) == [w EXCEPT !.r.rcvgen = p.sgen]

\* A new generation of the other side hangs up the old one.
NewRemote(w, p) ==
  IF w.r.rcvgen = p.sgen THEN w
  ELSE LET h == IF w.r.rcvgen # 0 THEN relhangup(w) ELSE w
       IN  [h EXCEPT !.r.rcvgen = p.sgen]

\* p comes in for the conversation of e.  rudpiput keeps qlock(rudp) from
\* iphtlook to qlock(ucb), so that one packet at a time is in hand there.
Comes(e, p) ==
  /\ p.to = e
  /\ IF hand[e] = nil THEN Open(e) ELSE p = hand[e]
  /\ hand' = [hand EXCEPT ![e] = nil]

\* Only the first packet changes anything: it makes the Reliable.
rudpiputIgnored(e, p) ==
  /\ Comes(e, p) /\ (rel[e] = nil \/ p = hand[e]) /\ Ignored(relstate(e).r, p)
  /\ Done(e, relstate(e), relstate(e).r)
  /\ UNCHANGED <<conv, kick, nmsg, taken, arrived, dropped>>

rudpiputHangup(e, p) ==
  /\ Comes(e, p) /\ p.sgen = Hangupgen /\ ~Ignored(relstate(e).r, p)
  /\ LET w == relhangup(relstate(e))
     IN  Done(e, w, nil) /\ Kicker(e, w, nil) /\ Reader(e, w)
  /\ UNCHANGED <<conv, nmsg, arrived, dropped>>

\* Mutant: any message but the last one again.
PassesAny(w, p, full) == p.seq # 0 /\ ~full /\ p.seq # w.r.rcvseq

\* The message is the next one; full is qfull(c->rq).
Passes(w, p, full) == p.seq # 0 /\ ~full /\ p.seq = NEXTSEQ(w.r.rcvseq)

\* "Refuse out of order delivery": the sender is told what is here already.
Sequence(e, w, p, full) ==
  IF p.seq = 0 \/ full THEN w
  ELSE IF Passes(w, p, full) THEN [w EXCEPT !.r.rcvseq = p.seq]
  ELSE relsendack(e, w, w.r.sndgen)

\* qpass puts the message of p into the reader's queue, or drops it.
qpass(e, p) ==
  IF conv[e] = "open"
  THEN arrived' = [arrived EXCEPT ![e][p.sgen] = @ \cup {p.msg}] /\ UNCHANGED dropped
  ELSE dropped' = [dropped EXCEPT ![e][p.sgen] = @ \cup {p.msg}] /\ UNCHANGED arrived

rudpiput(e, p, full) ==
  /\ Comes(e, p) /\ p.sgen # Hangupgen /\ (full => p.seq # 0)
  /\ ~Ignored(relstate(e).r, p)
  /\ \E w \in {Acknowledge(NewRemote(relstate(e), p), p)} : \E v \in {Sequence(e, w, p, full)} :
         /\ Done(e, v, v.r) /\ Kicker(e, v, v.r)
         /\ IF Passes(w, p, full)
            THEN /\ taken' = [taken EXCEPT ![e] = Append(IF v.hangup THEN <<>> ELSE @, <<p.sgen, p.msg>>)]
                 /\ qpass(e, p)
            ELSE Reader(e, v) /\ UNCHANGED <<arrived, dropped>>
  /\ UNCHANGED <<conv, nmsg>>

\* External: a gateway, or the other host while it has no conversation open,
\* returns a packet of e, and icmp has rudpadvise hang up rq and wq.
rudpadvise(e) ==
  /\ conv[e] = "open" /\ \E p \in net : p.to = Peer(e)
  /\ conv' = [conv EXCEPT ![e] = "hungup"]
  /\ UNCHANGED <<hand, rel, gen, kick, net, nmsg, taken, arrived, dropped>>

-----------------------------------------------------------------------------
(* The acknowledging process, hangups and restarts *)

\* One round for one Reliable; the timer of the first message may be due.
relackproc(e, due) ==
  /\ rel[e] # nil
  /\ due => rel[e].unacked # <<>>
  /\ \E w \in {IF due THEN relrexmit(relstate(e)) ELSE relstate(e)} :
     \E v \in {IF w.r.acksent # w.r.rcvseq THEN relsendack(e, w, w.r.sndgen) ELSE w} :
         Done(e, v, v.r) /\ Kicker(e, v, v.r) /\ Reader(e, v)
  /\ UNCHANGED <<conv, hand, nmsg, arrived, dropped>>

\* The control message hangup: the other side is told.
relforget(e) ==
  /\ Open(e) /\ rel[e] # nil
  /\ LET s == relsendack(e, relstate(e), Hangupgen)
         w == relhangup(s)
     IN  Done(e, w, nil) /\ Kicker(e, w, nil) /\ Reader(e, w)
  /\ UNCHANGED <<conv, hand, nmsg, arrived, dropped>>

\* The last user has gone: iphtrem, and delayed acknowledgements are forced
\* out.  rudpiput may have found c before, and wait for ucb with packet p.
rudpclose(e, p) ==
  /\ Open(e) /\ kick[e] = "idle"
  /\ p # nil => p.to = e
  /\ conv' = [conv EXCEPT ![e] = "closing"]
  /\ hand' = [hand EXCEPT ![e] = p]
  /\ IF rel[e] = nil \/ rel[e].acksent = rel[e].rcvseq THEN UNCHANGED <<rel, gen, net>>
     ELSE LET w == relsendack(e, relstate(e), rel[e].sndgen) IN Done(e, w, w.r)
  /\ UNCHANGED <<kick, nmsg, taken, arrived, dropped>>

\* After qclose(c->rq) and with ucb again: the Reliable is forgotten.
rudpcloseForget(e) ==
  /\ conv[e] = "closing"
  /\ conv' = [conv EXCEPT ![e] = "closed"]
  /\ IF rel[e] = nil THEN UNCHANGED <<rel, gen, net, taken>>
     ELSE LET w == relhangup(relstate(e)) IN Done(e, w, nil) /\ Reader(e, w)
  /\ UNCHANGED <<hand, kick, nmsg, arrived, dropped>>

\* A new user; Fsprotoclone takes qlock(rudp).  What a late packet left behind
\* in ucb->r stays there.
rudpannounce(e) ==
  /\ conv[e] = "closed" /\ hand[e] = nil
  /\ conv' = [conv EXCEPT ![e] = "open"]
  /\ UNCHANGED <<hand, rel, gen, kick, net, nmsg, taken, arrived, dropped>>

\* The host goes down and comes up with a generation of its own.
reboot(e) ==
  /\ (rel[e] # nil /\ gen[e] <= MaxGen) \/ hand[e] # nil
  /\ rel' = [rel EXCEPT ![e] = nil]
  /\ kick' = [kick EXCEPT ![e] = "idle"]
  /\ taken' = [taken EXCEPT ![e] = <<>>]
  /\ conv' = [conv EXCEPT ![e] = IF Open(e) THEN "open" ELSE "closed"]
  /\ hand' = [hand EXCEPT ![e] = nil]
  /\ UNCHANGED <<gen, net, nmsg, arrived, dropped>>

Next == \E e \in Ends :
  \/ rudpkick(e) \/ rudpkickFlow(e) \/ rudpkickSleep(e) \/ rudpkickAwake(e) \/ postnote(e)
  \/ \E p \in net : \/ rudpiputIgnored(e, p) \/ rudpiputHangup(e, p)
                    \/ \E full \in BOOLEAN : rudpiput(e, p, full)
  \/ \E due \in BOOLEAN : relackproc(e, due)
  \/ rudpadvise(e) \/ relforget(e) \/ rudpannounce(e) \/ reboot(e)
  \/ rudpcloseForget(e) \/ \E p \in net \cup {nil} : rudpclose(e, p)

Spec == Init /\ [][Next]_vars

-----------------------------------------------------------------------------
(* Properties *)

TypeOK ==
  /\ conv \in [Ends -> {"open", "hungup", "closing", "closed"}]
  /\ hand \in [Ends -> Packets \cup {nil}]
  /\ rel \in [Ends -> Reliables \cup {nil}]
  /\ gen \in [Ends -> 1..(MaxGen + 1)]
  /\ kick \in [Ends -> {"idle", "flow", "sleep", "asleep", "awake"}]
  /\ net \subseteq Packets
  /\ nmsg \in [Ends -> Nat]
  /\ taken \in [Ends -> Seq((1..MaxGen) \X Nat)]
  /\ arrived \in [Ends -> [1..MaxGen -> SUBSET Nat]]
  /\ dropped \in [Ends -> [1..MaxGen -> SUBSET Nat]]

\* The list of unacknowledged messages holds the numbers from the last one
\* acknowledged to the last one sent, of this generation and in this order,
\* also when they go round: acknowledgements, however late or repeated, have
\* dequeued the messages that they are about, and UNACKED counts the list.
Window ==
  /\ TypeOK
  /\ \A e \in Ends : rel[e] # nil =>
       LET r == rel[e] IN
         /\ UNACKED(r) = Len(r.unacked)
         /\ \A i \in DOMAIN r.unacked :
              /\ r.unacked[i].sgen = r.sndgen
              /\ r.unacked[i].seq = NEXTSEQ(IF i = 1 THEN r.ackrcvd ELSE r.unacked[i - 1].seq)
         /\ r.unacked # <<>> => r.unacked[Len(r.unacked)].seq = r.sndseq

\* Between two hangups reliput takes the messages of one generation of the
\* other host, from the first one, in order, none twice and none left out,
\* whatever the network does and however often the other host restarts: the
\* reader gets them so, except those that come with its queue hung up.
InOrder == \A e \in Ends : \A i \in DOMAIN taken[e] : taken[e][i] = <<taken[e][1][1], i>>

\* A message that its sender takes for acknowledged, and will never send
\* again, was put into the reader's queue at the other end, unless that queue
\* was hung up by rudpadvise or closed when it came: reliput acknowledges before
\* qpass drops it.
AckedArrived ==
  \A e \in Ends : rel[e] # nil =>
    LET f == Peer(e)
        g == rel[e].sndgen
    IN  1..(rel[e].sent - Len(rel[e].unacked)) \subseteq arrived[f][g] \cup dropped[f][g]

\* A writer sleeps in rudpkick only while an acknowledgement or the timer will
\* wake it: reliput knows that it is there, and there are messages to be
\* acknowledged or given up, enough of them for reliput to wait for more.
BlockedKicker ==
  \A e \in Ends : kick[e] = "asleep" =>
    rel[e] # nil /\ rel[e].blocked /\ UNACKED(rel[e]) >= Wakeat /\ rel[e].unacked # <<>>

=============================================================================

------------------------------ MODULE MntProofs -----------------------------
(***************************************************************************)
(* Proofs about the mount driver's multiplexer: the reading is never       *)
(* dropped, no reply is slept through, tags are not reused too early,      *)
(* every reply finds its request, and a call returns what the server did,  *)
(* for any number of processes, headers and flushes, and hangups.          *)
(***************************************************************************)
EXTENDS Mnt, ListProofs, FiniteSetTheorems

\* The headers of p's call.
Own(p) == ToSet(chain[p])

-----------------------------------------------------------------------------
(* The first invariant: headers, the queue and who reads. *)

\* A header belongs to one call, once.
ChainOK ==
  /\ \A p \in Procs : (pc[p] = "idle" <=> chain[p] = <<>>) /\ Distinct(chain[p])
  /\ \A p, q \in Procs : p # q => \A x \in Own(p) : x \notin Own(q)

\* A header that is not done is queued, but between its allocation and
\* enqueue.
QueuedOK ==
  \A p \in Procs :
    /\ \A x \in Own(p) : done[x] \/ x \in ToSet(queue) \/ (pc[p] = "enqueue" /\ x = cur(p))
    /\ pc[p] = "enqueue" => ~done[cur(p)] /\ cur(p) \notin ToSet(queue)

\* The reader's own request is not done, and mountio returns with one header,
\* done.
DoneOK ==
  \A p \in Procs :
    /\ pc[p] \in {"read", "mux", "muxwake"} => ~done[cur(p)]
    /\ pc[p] = "ret" => done[cur(p)] /\ Len(chain[p]) = 1

\* p looks at m->rip again before it goes away or sleeps.
WillLook(p) ==
  \/ pc[p] \in {"gate", "scan", "flush", "enqueue", "write"}
  \/ pc[p] \in {"sleep", "woke"} /\ (note[p] \/ ~done[cur(p)])

\* What BatonHeld says, with the processes that are certain to come.
Baton ==
  ~hungup /\ rip = nil /\ (\E s \in Procs : pc[s] = "asleep" /\ ~done[cur(s)])
    => \E p \in Procs : WillLook(p)

ReaderInv == TypeOK /\ ChainOK /\ QueuedOK /\ DoneOK /\ Baton /\ ReplyNotSleptThrough

-----------------------------------------------------------------------------
(* The second: messages under way.  After a hangup it speaks only of calls *)
(* that can still return without an error.                                 *)

Good(p) == ~hungup \/ (err[p] = "" /\ pc[p] \notin {"enqueue", "write"})

\* The tags of the messages in a list, and in the hands of the reader.
Tags(s) == {s[i].tag : i \in 1..Len(s)}
Mux == {reply[cur(p)].tag : p \in {q \in Procs : pc[q] = "mux"}}
Under == Tags(srv) \cup Tags(wire) \cup Mux

\* No two messages of a list have one tag.
Unique(s) == \A i, j \in 1..Len(s) : s[i].tag = s[j].tag => i = j

\* No message with tag y comes before one with tag x.
Before(s, x, y) ==
  \A i, j \in 1..Len(s) : s[i].tag = x /\ s[j].tag = y => i < j

\* x was sent before y in p's call.
Earlier(p, x, y) ==
  \E a, b \in 1..Len(chain[p]) : a < b /\ chain[p][a] = x /\ chain[p][b] = y

\* A message is in one place.
PlaceOK ==
  /\ hungup => srv = <<>>
  /\ Unique(srv) /\ Unique(wire)
  /\ \A x \in Tags(srv) : x \notin Tags(wire)
  /\ \A x \in Mux : x \notin Tags(srv) \cup Tags(wire)

\* A flush names the request the call began with.
OldtagOK ==
  /\ \A i \in 1..Len(srv) : srv[i].oldtag = oldtag[srv[i].tag]
  /\ \A p \in Procs : chain[p] # <<>> =>
       /\ oldtag[chain[p][1]] = nil
       /\ \A x \in Own(p) : x # chain[p][1] => oldtag[x] = chain[p][1]

\* Errors: Ehungup means a hangup, and a reader gives up without one only
\* when it is done.
ErrOK ==
  \A p \in Procs :
    /\ err[p] = "Ehungup" => hungup
    /\ pc[p] \in {"mntgate", "scan"} /\ err[p] = "" => done[cur(p)]

\* A tag under way is that of a header in use whose request is queued and has
\* been written; and of a call that is over nothing is under way.
UnderOK ==
  /\ ~hungup => Under \subseteq InUse
  /\ \A p \in Procs : Good(p) =>
       /\ \A x \in Own(p) : x \in Under => x \in ToSet(queue)
       /\ pc[p] \in {"enqueue", "write"} => cur(p) \notin Under /\ ~done[cur(p)]
       /\ pc[p] \in {"flushfree", "ret"} => \A x \in Own(p) : x \notin Under

\* The messages of a call, and the answers, keep their order.
OrderOK ==
  \A p \in Procs : Good(p) => \A x, y \in Rpcs : Earlier(p, x, y) =>
    /\ Before(srv, x, y) /\ Before(wire, x, y)
    /\ x \in Under => ~done[y]
    /\ x \in Tags(srv) => y \notin Tags(wire) \cup Mux
    /\ x \in Tags(wire) => y \notin Mux

\* The answer to the request a call began with is under way or in its reply.
AnswerOK ==
  /\ answered \subseteq InUse
  /\ \A p \in Procs : Good(p) /\ chain[p] # <<>> =>
       LET x == chain[p][1]
       IN  /\ \A i \in 1..Len(wire) : wire[i].tag = x => wire[i].type = "R"
           /\ \A q \in Procs : pc[q] = "mux" /\ reply[cur(q)].tag = x => reply[cur(q)].type = "R"
           /\ x \in Tags(wire) \cup Mux => x \in answered
           /\ done[x] /\ reply[x].type = "R" => reply[x].tag = x /\ x \in answered
           /\ x \in answered => x \in Tags(wire) \cup Mux \/ (done[x] /\ reply[x].type = "R")

MessageInv == PlaceOK /\ OldtagOK /\ UnderOK /\ OrderOK /\ AnswerOK

IndInv == ReaderInv /\ ErrOK /\ MessageInv

-----------------------------------------------------------------------------
(* TypeOK in parts: the types, the reader and the lock, the queue. *)

Types ==
  /\ rip \in Procs \cup {nil} /\ mlock \in Procs \cup {nil}
  /\ queue \in Seq(Rpcs)
  /\ done \in [Rpcs -> BOOLEAN]
  /\ reply \in [Rpcs -> Replies]
  /\ oldtag \in [Rpcs -> Rpcs \cup {nil}]
  /\ chain \in [Procs -> Seq(Rpcs)]
  /\ pc \in [Procs -> PCs]
  /\ err \in [Procs -> Errors]
  /\ muxq \in [Procs -> Rpcs \cup {nil}]
  /\ note \in [Procs -> BOOLEAN]
  /\ srv \in Seq(Requests) /\ wire \in Seq(Replies)
  /\ hungup \in BOOLEAN
  /\ answered \subseteq Rpcs

TurnOK ==
  \A p \in Procs :
    /\ rip = p <=> pc[p] \in {"read", "mux", "muxwake", "mntgate"}
    /\ mlock = p <=> pc[p] = "scan"

ListOK ==
  /\ Distinct(queue)
  /\ \A r \in ToSet(queue) : r \in InUse /\ ~done[r]

\* TypeOK is the types, the turn to read and the queue.
LEMMA TypeParts == TypeOK <=> Types /\ TurnOK /\ ListOK
<1>1. Types => (IsInjective(queue) <=> Distinct(queue))
  BY InjectiveIsDistinct DEF Types
<1> QED BY <1>1 DEF TypeOK, Types, TurnOK, ListOK

\* The same of the state after a step.
LEMMA TypePartsNext == Types' /\ TurnOK' /\ ListOK' => TypeOK'
<1>1. Types' => (IsInjective(queue)' <=> Distinct(queue)')
  BY InjectiveIsDistinct DEF Types, IsInjective, Distinct
<1> QED BY <1>1 DEF TypeOK, Types, TurnOK, ListOK

-----------------------------------------------------------------------------
(* What the actions do to headers. *)

\* Headers in use or in the queue are headers.
LEMMA OwnType ==
  ASSUME Types
  PROVE  ToSet(queue) \subseteq Rpcs /\ \A p \in Procs : Own(p) \subseteq Rpcs
<1>1. \A s \in Seq(Rpcs) : ToSet(s) \subseteq Rpcs
  BY RangeType DEF ToSet, Range
<1> QED BY <1>1 DEF Types, Own

\* A process in a call has a current header, which nobody else has.
LEMMA CurOwn ==
  ASSUME Types, ChainOK, NEW p \in Procs, pc[p] # "idle"
  PROVE  /\ chain[p] \in Seq(Rpcs) /\ chain[p] # <<>> /\ Distinct(chain[p])
         /\ cur(p) \in Own(p) /\ cur(p) \in Rpcs /\ cur(p) \in InUse
         /\ \A q \in Procs : q # p /\ pc[q] # "idle" => cur(p) \notin Own(q)
<1>1. chain[p] \in Seq(Rpcs) /\ chain[p] # <<>> /\ Distinct(chain[p])
  BY DEF Types, ChainOK
<1>2. cur(p) \in Own(p) /\ cur(p) \in Rpcs
  BY <1>1, FrontSet DEF cur, Own
<1>3. cur(p) \in InUse
  BY <1>2 DEF InUse, Own
<1>4. \A q \in Procs : q # p => cur(p) \notin Own(q)
  BY <1>2 DEF ChainOK
<1> QED BY <1>1, <1>2, <1>3, <1>4

\* A header in use is in somebody's call.
LEMMA InUseOwn == \A r : r \in InUse <=> \E p \in Procs : r \in Own(p)
BY DEF InUse, Own

\* Headers are used by the calls whose chains they are in.
LEMMA ChainSame ==
  ASSUME chain' = chain
  PROVE  /\ InUse' = InUse
         /\ \A s \in Procs : cur(s)' = cur(s) /\ Own(s)' = Own(s)
BY DEF InUse, cur, Own

\* mntralloc gives p a header that nobody had.
LEMMA AllocEffect ==
  ASSUME Types, ChainOK, NEW p \in Procs, NEW r \in Rpcs, NEW old,
         mntralloc(p, r, old)
  PROVE  /\ chain' \in [Procs -> Seq(Rpcs)]
         /\ chain'[p] # <<>> /\ Distinct(chain'[p])
         /\ cur(p)' = r /\ Own(p)' = Own(p) \cup {r}
         /\ \A s \in Procs : r \notin Own(s)
         /\ \A s \in Procs : s # p =>
              chain'[s] = chain[s] /\ cur(s)' = cur(s) /\ Own(s)' = Own(s)
         /\ InUse' = InUse \cup {r}
         /\ \A s, t \in Procs : s # t => \A x \in Own(s)' : x \notin Own(t)'
<1>1. chain'[p] = Append(chain[p], r) /\ chain[p] \in Seq(Rpcs) /\ r \notin InUse
  BY DEF mntralloc, Types
<1>2. \A s \in Procs : s # p => chain'[s] = chain[s]
  BY DEF mntralloc, Types
<1>3. \A s \in Procs : r \notin Own(s)
  BY <1>1, InUseOwn
<1>4. /\ Append(chain[p], r) \in Seq(Rpcs) /\ Append(chain[p], r) # <<>>
      /\ Last(Append(chain[p], r)) = r
      /\ ToSet(Append(chain[p], r)) = ToSet(chain[p]) \cup {r}
      /\ Distinct(Append(chain[p], r))
  BY <1>1, <1>3, AppendSet DEF ChainOK, Own
<1>5. chain' \in [Procs -> Seq(Rpcs)]
  BY <1>4 DEF mntralloc, Types
<1>6. cur(p)' = r /\ Own(p)' = Own(p) \cup {r}
  BY <1>1, <1>4 DEF cur, Own
<1>7. \A s \in Procs : s # p => cur(s)' = cur(s) /\ Own(s)' = Own(s)
  BY <1>2 DEF cur, Own
<1>8. InUse' = UNION {Own(s)' : s \in Procs}
  BY DEF InUse, Own
<1>9. InUse' = InUse \cup {r}
  BY <1>6, <1>7, <1>8, InUseOwn
<1>10. \A s, t \in Procs : s # t => \A x \in Own(s) : x \notin Own(t)
  BY DEF ChainOK
<1>11. \A s, t \in Procs : s # t => \A x \in Own(s)' : x \notin Own(t)'
  BY <1>3, <1>6, <1>7, <1>10
<1> QED BY <1>1, <1>2, <1>3, <1>4, <1>5, <1>6, <1>7, <1>9, <1>11

\* mntfree takes p's last header, and only that, out of use.
LEMMA FreeEffect ==
  ASSUME Types, ChainOK, NEW p \in Procs, pc[p] # "idle", mntfree(p)
  PROVE  /\ chain' \in [Procs -> Seq(Rpcs)]
         /\ chain'[p] = Front(chain[p]) /\ Distinct(chain'[p])
         /\ Len(chain'[p]) = Len(chain[p]) - 1
         /\ Own(p)' = Own(p) \ {cur(p)}
         /\ \A s \in Procs : s # p =>
              chain'[s] = chain[s] /\ cur(s)' = cur(s) /\ Own(s)' = Own(s)
         /\ InUse' = InUse \ {cur(p)}
         /\ \A s, t \in Procs : s # t => \A x \in Own(s)' : x \notin Own(t)'
<1>1. chain'[p] = Front(chain[p]) /\ \A s \in Procs : s # p => chain'[s] = chain[s]
  BY DEF mntfree, Types
<1>2. chain[p] \in Seq(Rpcs) /\ chain[p] # <<>> /\ Distinct(chain[p])
  BY CurOwn
<1>3. /\ Front(chain[p]) \in Seq(Rpcs) /\ Len(Front(chain[p])) = Len(chain[p]) - 1
      /\ ToSet(Front(chain[p])) = ToSet(chain[p]) \ {cur(p)}
      /\ Distinct(Front(chain[p]))
  BY <1>2, FrontSet DEF cur
<1>4. chain' \in [Procs -> Seq(Rpcs)]
  BY <1>3 DEF mntfree, Types
<1>5. Own(p)' = Own(p) \ {cur(p)}
  BY <1>1, <1>3 DEF Own
<1>6. \A s \in Procs : s # p => cur(s)' = cur(s) /\ Own(s)' = Own(s)
  BY <1>1 DEF cur, Own
<1>7. InUse' = UNION {Own(s)' : s \in Procs}
  BY DEF InUse, Own
<1>8. \A s \in Procs : s # p => cur(p) \notin Own(s)
  BY CurOwn DEF ChainOK
<1>9. InUse' = InUse \ {cur(p)}
  BY <1>5, <1>6, <1>7, <1>8, InUseOwn
<1>10. \A s, t \in Procs : s # t => \A x \in Own(s) : x \notin Own(t)
  BY DEF ChainOK
<1>11. \A s, t \in Procs : s # t => \A x \in Own(s)' : x \notin Own(t)'
  BY <1>5, <1>6, <1>10
<1> QED BY <1>1, <1>3, <1>4, <1>5, <1>6, <1>9, <1>11

\* mntgate's loop readies sleepers and moves nobody else.
LEMMA ScanEffect ==
  ASSUME Types, NEW p \in Procs, mntgateScan(p)
  PROVE  /\ pc' \in [Procs -> PCs]
         /\ pc'[p] = IF err[p] = "Eintr" THEN "flush" ELSE "flushfree"
         /\ \A s \in Procs : s # p =>
              pc'[s] = pc[s] \/ (pc[s] = "asleep" /\ pc'[s] = "woke")
<1> DEFINE first == {i \in DOMAIN queue : Wakeable(i) /\ \A j \in 1..(i - 1) : ~Wakeable(j)}
           woken == UNION {Sleeper(queue[i]) : i \in first}
<1>1. \A s \in woken : pc[s] = "asleep"
  BY DEF Sleeper
<1>2. pc' = [s \in Procs |->
               IF s = p THEN IF err[p] = "Eintr" THEN "flush" ELSE "flushfree"
               ELSE IF s \in woken THEN "woke" ELSE pc[s]]
  BY DEF mntgateScan
<1> HIDE DEF woken
<1> QED BY <1>1, <1>2 DEF Types, PCs

\* What the server keeps of its requests when it answers one: those that
\* are not superseded, in their order.
LEMMA ServeEffect ==
  ASSUME Types, NEW i \in DOMAIN srv, serve(i)
  PROVE  /\ srv \in Seq(Requests) /\ i \in 1..Len(srv)
         /\ srv[i] \in Requests /\ srv[i].tag \in Rpcs
         /\ srv' \in Seq(Requests)
         /\ \E f \in [1..Len(srv') -> 1..Len(srv)] :
              /\ \A k \in 1..Len(srv') :
                   /\ srv'[k] = srv[f[k]] /\ f[k] # i
                   /\ srv[i].oldtag # nil =>
                        /\ srv[f[k]].tag # srv[i].oldtag
                        /\ f[k] < i => srv[f[k]].oldtag # srv[i].oldtag
              /\ \A j, k \in 1..Len(srv') : j < k => f[j] < f[k]
<1> DEFINE m == srv[i]
           superseded(j) == /\ m.oldtag # nil
                            /\ \/ srv[j].tag = m.oldtag
                               \/ j < i /\ srv[j].oldtag = m.oldtag
           kept == {j \in DOMAIN srv : j # i /\ ~superseded(j)}
           n == Cardinality(kept)
<1>1. PICK f \in [1..n -> kept] :
        /\ \A j, k \in DOMAIN f : j < k => f[j] < f[k]
        /\ srv' = [k \in DOMAIN f |-> srv[f[k]]]
  BY DEF serve
<1>2. Len(srv) \in Nat /\ DOMAIN srv = 1..Len(srv) /\ srv \in Seq(Requests)
  BY DEF Types
<1>3. kept \subseteq 1..Len(srv)
  BY <1>2
<1>4. n \in Nat
  <2> HIDE DEF kept
  <2>1. IsFiniteSet(1..Len(srv))
    BY <1>2, FS_Interval
  <2>2. IsFiniteSet(kept)
    BY <1>3, <2>1, FS_Subset
  <2> QED BY <2>2, FS_CardinalityType
<1>5. \A j \in kept :
        /\ j # i /\ srv[j] \in Requests
        /\ m.oldtag # nil => srv[j].tag # m.oldtag /\ (j < i => srv[j].oldtag # m.oldtag)
  BY <1>2
<1>6. srv[i] \in Requests
  BY <1>2
<1> HIDE DEF kept, n
<1>7. DOMAIN f = 1..n /\ \A k \in 1..n : f[k] \in kept
  BY <1>1
<1>8. srv' = [k \in 1..n |-> srv[f[k]]] /\ \A k \in 1..n : srv[f[k]] \in Requests
  BY <1>1, <1>5, <1>7
<1>9. srv' \in Seq(Requests) /\ Len(srv') = n
  BY <1>4, <1>8
<1>10. f \in [1..Len(srv') -> 1..Len(srv)]
  BY <1>1, <1>3, <1>9
<1>11. \A k \in 1..Len(srv') :
         /\ srv'[k] = srv[f[k]] /\ f[k] # i
         /\ m.oldtag # nil => srv[f[k]].tag # m.oldtag /\ (f[k] < i => srv[f[k]].oldtag # m.oldtag)
  BY <1>5, <1>7, <1>8, <1>9
<1>12. \A j, k \in 1..Len(srv') : j < k => f[j] < f[k]
  BY <1>1, <1>7, <1>9
<1>13. srv[i].tag \in Rpcs
  BY <1>6 DEF Requests
<1> QED BY <1>2, <1>6, <1>9, <1>10, <1>11, <1>12, <1>13

-----------------------------------------------------------------------------
(* Each part of the first invariant is kept by each action. *)

\* Every step keeps the types.
LEMMA NextTypes ==
  ASSUME Types, ListOK, ChainOK, [Next]_vars
  PROVE  Types'
<1> USE DEF Types, PCs, Errors
<1>1. ASSUME NEW p \in Procs, mountrpc(p) PROVE Types'
  <2>1. PICK r \in Rpcs : mntralloc(p, r, nil)
    BY <1>1 DEF mountrpc
  <2>2. chain' \in [Procs -> Seq(Rpcs)]
    BY <2>1, AllocEffect
  <2> QED BY <1>1, <2>1, <2>2 DEF mountrpc, mntralloc, Goto
<1>2. ASSUME NEW p \in Procs, mntflushalloc(p) PROVE Types'
  <2>1. PICK r \in Rpcs : mntralloc(p, r, flushtag(cur(p)))
    BY <1>2 DEF mntflushalloc
  <2>2. chain' \in [Procs -> Seq(Rpcs)]
    BY <2>1, AllocEffect
  <2>3. flushtag(cur(p)) \in Rpcs \cup {nil}
    BY <1>2, CurOwn DEF mntflushalloc, flushtag
  <2> QED BY <1>2, <2>1, <2>2, <2>3 DEF mntflushalloc, mntralloc, Goto
<1>3. ASSUME NEW p \in Procs, enqueue(p) PROVE Types'
  <2>1. pc[p] # "idle"
    BY <1>3 DEF enqueue
  <2>2. <<cur(p)>> \o queue \in Seq(Rpcs)
    BY <2>1, CurOwn, ConsSet
  <2> QED BY <1>3, <2>2 DEF enqueue, Goto
<1>4. ASSUME NEW p \in Procs, write(p) PROVE Types'
  <2>1. [tag |-> cur(p), oldtag |-> oldtag[cur(p)]] \in Requests
    BY <1>4, CurOwn DEF write, Requests
  <2>2. srv \in Seq(Requests)
    OBVIOUS
  <2>3. Append(srv, [tag |-> cur(p), oldtag |-> oldtag[cur(p)]]) \in Seq(Requests)
    BY <2>1, <2>2, AppendSet
  <2>4. srv' \in Seq(Requests)
    BY <1>4, <2>2, <2>3 DEF write, transmit
  <2> QED BY <1>4, <2>4 DEF write, Goto
<1>5. ASSUME NEW p \in Procs, writeEintr(p) PROVE Types'
  <2>1. [tag |-> cur(p), oldtag |-> oldtag[cur(p)]] \in Requests
    BY <1>5, CurOwn DEF writeEintr, Requests
  <2>2. srv \in Seq(Requests)
    OBVIOUS
  <2>3. Append(srv, [tag |-> cur(p), oldtag |-> oldtag[cur(p)]]) \in Seq(Requests)
    BY <2>1, <2>2, AppendSet
  <2>4. srv' \in Seq(Requests)
    BY <1>5, <2>2, <2>3 DEF writeEintr, transmit
  <2> QED BY <1>5, <2>4 DEF writeEintr, eintr, giveup, Goto
<1>6. ASSUME NEW p \in Procs, writeFails(p) PROVE Types'
  BY <1>6 DEF writeFails, fails, giveup, Goto
<1>7. ASSUME NEW p \in Procs, gateTake(p) PROVE Types'
  BY <1>7, CurOwn DEF gateTake, Goto
<1>8. ASSUME NEW p \in Procs, gateSleep(p) PROVE Types'
  BY <1>8 DEF gateSleep, local, Goto
<1>9. ASSUME NEW p \in Procs, sleep(p) PROVE Types'
  BY <1>9, CurOwn DEF sleep, rpcattn, local, Goto
<1>10. ASSUME NEW p \in Procs, wokeEintr(p) PROVE Types'
  BY <1>10 DEF wokeEintr, eintr, giveup, Goto
<1>11. ASSUME NEW p \in Procs, woke(p) PROVE Types'
  BY <1>11, CurOwn DEF woke, local, Goto
<1>12. ASSUME NEW p \in Procs, mntrpcread(p) PROVE Types'
  <2>1. Head(wire) \in Replies /\ Tail(wire) \in Seq(Replies)
    BY <1>12, TailSet DEF mntrpcread
  <2> QED BY <1>12, <2>1 DEF mntrpcread, Goto
<1>13. ASSUME NEW p \in Procs, readEintr(p) PROVE Types'
  BY <1>13 DEF readEintr, eintr, giveup, Goto
<1>14. ASSUME NEW p \in Procs, readFails(p) PROVE Types'
  BY <1>14 DEF readFails, fails, giveup, Goto
<1>15. ASSUME NEW p \in Procs, mountmux(p) PROVE Types'
  <2>1. queue' \in Seq(Rpcs)
    BY <1>15, RemoveFirstSet DEF mountmux, unlink, ListOK
  <2>2. reply' \in [Rpcs -> Replies]
    BY <1>15, CurOwn DEF mountmux, handover
  <2>3. ToSet(queue) \subseteq Rpcs
    <3>1. queue \in Seq(Rpcs)
      OBVIOUS
    <3> QED BY ZenonT(60), <3>1, RangeType DEF ToSet, Range
  <2>4. reply[cur(p)].tag \in Rpcs
    BY <1>15, <2>3 DEF mountmux
  <2> QED BY <1>15, <2>1, <2>2, <2>4 DEF mountmux, readMore, Goto
<1>16. ASSUME NEW p \in Procs, mountmuxUnexpected(p) PROVE Types'
  BY <1>16, CurOwn DEF mountmuxUnexpected, readMore, local, Goto
<1>17. ASSUME NEW p \in Procs, muxWakeup(p) PROVE Types'
  BY <1>17, CurOwn DEF muxWakeup, Sleeper
<1>18. ASSUME NEW p \in Procs, mntgate(p) PROVE Types'
  BY <1>18 DEF mntgate, Goto
<1>19. ASSUME NEW p \in Procs, mntgateScan(p) PROVE Types'
  BY <1>19, ScanEffect DEF mntgateScan
<1>20. ASSUME NEW p \in Procs, mntqrm(p) PROVE Types'
  <2>1. queue' \in Seq(Rpcs)
    BY <1>20, RemoveFirstSet DEF mntqrm, unlink, ListOK
  <2>2. cur(p) \in Rpcs /\ [reply[cur(p)] EXCEPT !.type = "Rflush"] \in Replies
    <3>1. cur(p) \in Rpcs /\ reply[cur(p)] \in Replies
      BY <1>20, CurOwn DEF mntqrm
    <3> QED BY <3>1 DEF Replies
  <2>3. reply' \in [Rpcs -> Replies]
    BY <1>20, <2>2 DEF mntqrm
  <2> QED BY <1>20, <2>1, <2>3 DEF mntqrm
<1>21. ASSUME NEW p \in Procs, mntflushfree(p) PROVE Types'
  <2>1. CASE Len(chain[p]) > 1
    <3>1. mntfree(p) /\ pc[p] # "idle"
      BY <1>21, <2>1 DEF mntflushfree
    <3>2. chain' \in [Procs -> Seq(Rpcs)]
      BY <3>1, FreeEffect
    <3>3. reply' \in [Rpcs -> Replies]
      BY <3>1 DEF mntfree, NoReply, Replies
    <3> QED BY <1>21, <2>1, <3>2, <3>3 DEF mntflushfree, mntfree
  <2>2. CASE ~(Len(chain[p]) > 1)
    BY <1>21, <2>2 DEF mntflushfree, Goto
  <2> QED BY <2>1, <2>2
<1>22. ASSUME NEW p \in Procs, mountrpcReturn(p) PROVE Types'
  <2>1. mntfree(p) /\ pc[p] # "idle"
    BY <1>22 DEF mountrpcReturn
  <2>2. chain' \in [Procs -> Seq(Rpcs)]
    BY <2>1, FreeEffect
  <2>3. reply' \in [Rpcs -> Replies]
    BY <2>1 DEF mntfree, NoReply, Replies
  <2> QED BY <1>22, <2>2, <2>3 DEF mountrpcReturn, mntfree, Goto
<1>23. ASSUME NEW p \in Procs, postnote(p) PROVE Types'
  BY <1>23 DEF postnote, Goto
<1>24. ASSUME NEW i \in DOMAIN srv, serve(i) PROVE Types'
  <2>1. srv' \in Seq(Requests) /\ srv[i].tag \in Rpcs
    BY <1>24, ServeEffect
  <2>2. [tag |-> srv[i].tag, type |-> IF srv[i].oldtag = nil THEN "R" ELSE "Rflush"] \in Replies
    BY <2>1 DEF Replies
  <2>3. wire' \in Seq(Replies)
    BY <1>24, <2>2, AppendSet DEF serve
  <2> QED BY <1>24, <2>1, <2>3 DEF serve
<1>25. CASE hangup
  <2>1. srv' \in Seq(Requests)
    BY <1>25, EmptySeq DEF hangup
  <2>2. hungup' \in BOOLEAN
    BY <1>25 DEF hangup
  <2> QED BY <1>25, <2>1, <2>2 DEF hangup
<1>26. CASE UNCHANGED vars
  BY <1>26 DEF vars
<1> QED
  BY <1>1, <1>2, <1>3, <1>4, <1>5, <1>6, <1>7, <1>8, <1>9, <1>10, <1>11, <1>12, <1>13, <1>14, <1>15, <1>16, <1>17, <1>18, <1>19, <1>20, <1>21, <1>22, <1>23, <1>24, <1>25, <1>26
  DEF Next, step

\* One process reads at a time, and one is in mntgate's locked section.
LEMMA NextTurn ==
  ASSUME Types, TurnOK, [Next]_vars
  PROVE  TurnOK'
<1> USE NilAssumption DEF Types, TurnOK, PCs
<1>1. ASSUME NEW p \in Procs, mountrpc(p) PROVE TurnOK'
  BY <1>1 DEF mountrpc, mntralloc, Goto
<1>2. ASSUME NEW p \in Procs, mntflushalloc(p) PROVE TurnOK'
  BY <1>2 DEF mntflushalloc, mntralloc, Goto
<1>3. ASSUME NEW p \in Procs, enqueue(p) PROVE TurnOK'
  BY <1>3 DEF enqueue, Goto
<1>4. ASSUME NEW p \in Procs, write(p) PROVE TurnOK'
  BY <1>4 DEF write, transmit, Goto
<1>5. ASSUME NEW p \in Procs, writeEintr(p) PROVE TurnOK'
  BY <1>5 DEF writeEintr, transmit, eintr, giveup, Goto
<1>6. ASSUME NEW p \in Procs, writeFails(p) PROVE TurnOK'
  BY <1>6 DEF writeFails, fails, giveup, Goto
<1>7. ASSUME NEW p \in Procs, gateTake(p) PROVE TurnOK'
  BY <1>7 DEF gateTake, Goto
<1>8. ASSUME NEW p \in Procs, gateSleep(p) PROVE TurnOK'
  BY <1>8 DEF gateSleep, local, Goto
<1>9. ASSUME NEW p \in Procs, sleep(p) PROVE TurnOK'
  BY <1>9 DEF sleep, rpcattn, local, Goto
<1>10. ASSUME NEW p \in Procs, wokeEintr(p) PROVE TurnOK'
  BY <1>10 DEF wokeEintr, eintr, giveup, Goto
<1>11. ASSUME NEW p \in Procs, woke(p) PROVE TurnOK'
  BY <1>11 DEF woke, local, Goto
<1>12. ASSUME NEW p \in Procs, mntrpcread(p) PROVE TurnOK'
  BY <1>12 DEF mntrpcread, Goto
<1>13. ASSUME NEW p \in Procs, readEintr(p) PROVE TurnOK'
  BY <1>13 DEF readEintr, eintr, giveup, Goto
<1>14. ASSUME NEW p \in Procs, readFails(p) PROVE TurnOK'
  BY <1>14 DEF readFails, fails, giveup, Goto
<1>15. ASSUME NEW p \in Procs, mountmux(p) PROVE TurnOK'
  BY <1>15 DEF mountmux, unlink, handover, readMore, Goto
<1>16. ASSUME NEW p \in Procs, mountmuxUnexpected(p) PROVE TurnOK'
  BY <1>16 DEF mountmuxUnexpected, readMore, local, Goto
<1>17. ASSUME NEW p \in Procs, muxWakeup(p) PROVE TurnOK'
  BY <1>17 DEF muxWakeup, Sleeper
<1>18. ASSUME NEW p \in Procs, mntgate(p) PROVE TurnOK'
  BY <1>18 DEF mntgate, Goto
<1>19. ASSUME NEW p \in Procs, mntgateScan(p) PROVE TurnOK'
  <2>1. mlock = p /\ mlock' = nil /\ rip' = rip /\ pc[p] = "scan"
    BY <1>19 DEF mntgateScan
  <2>2. pc'[p] \in {"flush", "flushfree"}
    BY <1>19, ScanEffect
  <2> QED BY <1>19, <2>1, <2>2, ScanEffect
<1>20. ASSUME NEW p \in Procs, mntqrm(p) PROVE TurnOK'
  BY <1>20 DEF mntqrm, unlink
<1>21. ASSUME NEW p \in Procs, mntflushfree(p) PROVE TurnOK'
  BY <1>21 DEF mntflushfree, mntfree, Goto
<1>22. ASSUME NEW p \in Procs, mountrpcReturn(p) PROVE TurnOK'
  BY <1>22 DEF mountrpcReturn, mntfree, Goto
<1>23. ASSUME NEW p \in Procs, postnote(p) PROVE TurnOK'
  BY <1>23 DEF postnote, Goto
<1>24. ASSUME NEW i \in DOMAIN srv, serve(i) PROVE TurnOK'
  BY <1>24 DEF serve
<1>25. CASE hangup
  BY <1>25 DEF hangup
<1>26. CASE UNCHANGED vars
  BY <1>26 DEF vars
<1> QED
  BY <1>1, <1>2, <1>3, <1>4, <1>5, <1>6, <1>7, <1>8, <1>9, <1>10, <1>11, <1>12, <1>13, <1>14, <1>15, <1>16, <1>17, <1>18, <1>19, <1>20, <1>21, <1>22, <1>23, <1>24, <1>25, <1>26
  DEF Next, step

\* Headers stay with their calls.
LEMMA NextChain ==
  ASSUME Types, ChainOK, DoneOK, [Next]_vars
  PROVE  ChainOK'
<1> USE DEF Types, ChainOK, PCs
<1>1. ASSUME NEW p \in Procs, mountrpc(p) PROVE ChainOK'
  <2>1. PICK r \in Rpcs : mntralloc(p, r, nil)
    BY <1>1 DEF mountrpc
  <2>2. pc[p] = "idle" /\ pc' = [pc EXCEPT ![p] = "enqueue"]
    BY <1>1 DEF mountrpc, Goto
  <2>3. /\ chain'[p] # <<>> /\ Distinct(chain'[p])
        /\ cur(p)' = r /\ Own(p)' = Own(p) \cup {r}
        /\ \A s \in Procs : r \notin Own(s)
        /\ \A s \in Procs : s # p =>
             chain'[s] = chain[s] /\ cur(s)' = cur(s) /\ Own(s)' = Own(s)
        /\ InUse' = InUse \cup {r}
    BY <2>1, AllocEffect
  <2>4. \A s \in Procs : (pc'[s] = "idle" <=> chain'[s] = <<>>) /\ Distinct(chain'[s])
    BY <2>2, <2>3
  <2>5. \A s, t \in Procs : s # t => \A x \in Own(s)' : x \notin Own(t)'
    BY <2>1, AllocEffect
  <2> QED BY <2>4, <2>5
<1>2. ASSUME NEW p \in Procs, mntflushalloc(p) PROVE ChainOK'
  <2>1. PICK r \in Rpcs : mntralloc(p, r, flushtag(cur(p)))
    BY <1>2 DEF mntflushalloc
  <2>2. pc[p] = "flush" /\ pc' = [pc EXCEPT ![p] = "enqueue"]
    BY <1>2 DEF mntflushalloc, Goto
  <2>3. /\ chain'[p] # <<>> /\ Distinct(chain'[p])
        /\ cur(p)' = r /\ Own(p)' = Own(p) \cup {r}
        /\ \A s \in Procs : r \notin Own(s)
        /\ \A s \in Procs : s # p =>
             chain'[s] = chain[s] /\ cur(s)' = cur(s) /\ Own(s)' = Own(s)
        /\ InUse' = InUse \cup {r}
    BY <2>1, AllocEffect
  <2>4. \A s \in Procs : (pc'[s] = "idle" <=> chain'[s] = <<>>) /\ Distinct(chain'[s])
    BY <2>2, <2>3
  <2>5. \A s, t \in Procs : s # t => \A x \in Own(s)' : x \notin Own(t)'
    BY <2>1, AllocEffect
  <2> QED BY <2>4, <2>5
<1>3. ASSUME NEW p \in Procs, enqueue(p) PROVE ChainOK'
  BY <1>3, ChainSame DEF enqueue, Goto
<1>4. ASSUME NEW p \in Procs, write(p) PROVE ChainOK'
  BY <1>4, ChainSame DEF write, transmit, Goto
<1>5. ASSUME NEW p \in Procs, writeEintr(p) PROVE ChainOK'
  BY <1>5, ChainSame DEF writeEintr, transmit, eintr, giveup, Goto
<1>6. ASSUME NEW p \in Procs, writeFails(p) PROVE ChainOK'
  BY <1>6, ChainSame DEF writeFails, fails, giveup, Goto
<1>7. ASSUME NEW p \in Procs, gateTake(p) PROVE ChainOK'
  BY <1>7, ChainSame DEF gateTake, Goto
<1>8. ASSUME NEW p \in Procs, gateSleep(p) PROVE ChainOK'
  BY <1>8, ChainSame DEF gateSleep, local, Goto
<1>9. ASSUME NEW p \in Procs, sleep(p) PROVE ChainOK'
  BY <1>9, ChainSame DEF sleep, rpcattn, local, Goto
<1>10. ASSUME NEW p \in Procs, wokeEintr(p) PROVE ChainOK'
  BY <1>10, ChainSame DEF wokeEintr, eintr, giveup, Goto
<1>11. ASSUME NEW p \in Procs, woke(p) PROVE ChainOK'
  BY <1>11, ChainSame DEF woke, local, Goto
<1>12. ASSUME NEW p \in Procs, mntrpcread(p) PROVE ChainOK'
  BY <1>12, ChainSame DEF mntrpcread, Goto
<1>13. ASSUME NEW p \in Procs, readEintr(p) PROVE ChainOK'
  BY <1>13, ChainSame DEF readEintr, eintr, giveup, Goto
<1>14. ASSUME NEW p \in Procs, readFails(p) PROVE ChainOK'
  BY <1>14, ChainSame DEF readFails, fails, giveup, Goto
<1>15. ASSUME NEW p \in Procs, mountmux(p) PROVE ChainOK'
  BY <1>15, ChainSame DEF mountmux, unlink, handover, readMore, Goto
<1>16. ASSUME NEW p \in Procs, mountmuxUnexpected(p) PROVE ChainOK'
  BY <1>16, ChainSame DEF mountmuxUnexpected, readMore, local, Goto
<1>17. ASSUME NEW p \in Procs, muxWakeup(p) PROVE ChainOK'
  BY <1>17, ChainSame DEF muxWakeup, Sleeper
<1>18. ASSUME NEW p \in Procs, mntgate(p) PROVE ChainOK'
  BY <1>18, ChainSame DEF mntgate, Goto
<1>19. ASSUME NEW p \in Procs, mntgateScan(p) PROVE ChainOK'
  <2>1. pc[p] = "scan" /\ pc'[p] # "idle" /\ chain' = chain
    BY <1>19, ScanEffect DEF mntgateScan
  <2>2. \A s \in Procs : pc'[s] = "idle" <=> pc[s] = "idle"
    BY <1>19, <2>1, ScanEffect
  <2> QED BY <2>1, <2>2, ChainSame
<1>20. ASSUME NEW p \in Procs, mntqrm(p) PROVE ChainOK'
  BY <1>20, ChainSame DEF mntqrm, unlink
<1>21. ASSUME NEW p \in Procs, mntflushfree(p) PROVE ChainOK'
  <2>1. CASE Len(chain[p]) > 1
    <3>1. mntfree(p) /\ pc[p] = "flushfree" /\ done[cur(p)] /\ pc' = pc
      BY <1>21, <2>1 DEF mntflushfree
    <3>2. /\ Own(p)' = Own(p) \ {cur(p)} /\ Distinct(chain'[p])
          /\ chain'[p] \in Seq(Rpcs) /\ Len(chain'[p]) = Len(chain[p]) - 1
          /\ chain[p] \in Seq(Rpcs) /\ chain[p] # <<>>
          /\ \A s \in Procs : s # p =>
               chain'[s] = chain[s] /\ cur(s)' = cur(s) /\ Own(s)' = Own(s)
          /\ InUse' = InUse \ {cur(p)}
      BY <3>1, FreeEffect, CurOwn
    <3>3. chain'[p] # <<>>
      <4>1. Len(chain'[p]) > 0
        BY <2>1, <3>2
      <4> QED BY <4>1, EmptySeq
    <3>4. \A s \in Procs : (pc'[s] = "idle" <=> chain'[s] = <<>>) /\ Distinct(chain'[s])
      BY <3>1, <3>2, <3>3
    <3>5. \A s, t \in Procs : s # t => \A x \in Own(s)' : x \notin Own(t)'
      BY <3>1, FreeEffect
    <3> QED BY <3>4, <3>5
  <2>2. CASE ~(Len(chain[p]) > 1)
    BY <1>21, <2>2, ChainSame DEF mntflushfree, Goto
  <2> QED BY <2>1, <2>2
<1>22. ASSUME NEW p \in Procs, mountrpcReturn(p) PROVE ChainOK'
  <2>1. mntfree(p) /\ pc[p] = "ret" /\ pc' = [pc EXCEPT ![p] = "idle"] /\ Len(chain[p]) = 1 /\ done[cur(p)]
    BY <1>22 DEF mountrpcReturn, Goto, DoneOK
  <2>2. /\ Own(p)' = Own(p) \ {cur(p)} /\ Distinct(chain'[p])
        /\ chain[p] \in Seq(Rpcs) /\ chain[p] # <<>>
        /\ chain'[p] \in Seq(Rpcs) /\ Len(chain'[p]) = Len(chain[p]) - 1
        /\ \A s \in Procs : s # p =>
             chain'[s] = chain[s] /\ cur(s)' = cur(s) /\ Own(s)' = Own(s)
        /\ InUse' = InUse \ {cur(p)}
    BY <2>1, FreeEffect, CurOwn
  <2>3. \A s \in Procs : (pc'[s] = "idle" <=> chain'[s] = <<>>) /\ Distinct(chain'[s])
    BY <2>1, <2>2
  <2>4. \A s, t \in Procs : s # t => \A x \in Own(s)' : x \notin Own(t)'
    BY <2>1, FreeEffect
  <2> QED BY <2>3, <2>4
<1>23. ASSUME NEW p \in Procs, postnote(p) PROVE ChainOK'
  BY <1>23, ChainSame DEF postnote, Goto
<1>24. ASSUME NEW i \in DOMAIN srv, serve(i) PROVE ChainOK'
  BY <1>24, ChainSame DEF serve
<1>25. CASE hangup
  BY <1>25, ChainSame DEF hangup
<1>26. CASE UNCHANGED vars
  BY <1>26, ChainSame DEF vars
<1> QED
  BY <1>1, <1>2, <1>3, <1>4, <1>5, <1>6, <1>7, <1>8, <1>9, <1>10, <1>11, <1>12, <1>13, <1>14, <1>15, <1>16, <1>17, <1>18, <1>19, <1>20, <1>21, <1>22, <1>23, <1>24, <1>25, <1>26
  DEF Next, step

\* Only unanswered requests of calls in progress are in m->queue.
LEMMA NextList ==
  ASSUME Types, ChainOK, QueuedOK, DoneOK, ListOK, [Next]_vars
  PROVE  ListOK'
<1> USE DEF Types, ListOK
<1>1. ASSUME NEW p \in Procs, mountrpc(p) PROVE ListOK'
  <2>1. PICK r \in Rpcs : mntralloc(p, r, nil)
    BY <1>1 DEF mountrpc
  <2>2. queue' = queue
    BY <1>1 DEF mountrpc, Goto
  <2>3. /\ chain'[p] # <<>> /\ Distinct(chain'[p])
        /\ cur(p)' = r /\ Own(p)' = Own(p) \cup {r}
        /\ \A s \in Procs : r \notin Own(s)
        /\ \A s \in Procs : s # p =>
             chain'[s] = chain[s] /\ cur(s)' = cur(s) /\ Own(s)' = Own(s)
        /\ InUse' = InUse \cup {r}
    BY <2>1, AllocEffect
  <2>4. done' = [done EXCEPT ![r] = FALSE]
    BY <2>1 DEF mntralloc
  <2> QED BY <2>2, <2>3, <2>4
<1>2. ASSUME NEW p \in Procs, mntflushalloc(p) PROVE ListOK'
  <2>1. PICK r \in Rpcs : mntralloc(p, r, flushtag(cur(p)))
    BY <1>2 DEF mntflushalloc
  <2>2. queue' = queue
    BY <1>2 DEF mntflushalloc, Goto
  <2>3. /\ chain'[p] # <<>> /\ Distinct(chain'[p])
        /\ cur(p)' = r /\ Own(p)' = Own(p) \cup {r}
        /\ \A s \in Procs : r \notin Own(s)
        /\ \A s \in Procs : s # p =>
             chain'[s] = chain[s] /\ cur(s)' = cur(s) /\ Own(s)' = Own(s)
        /\ InUse' = InUse \cup {r}
    BY <2>1, AllocEffect
  <2>4. done' = [done EXCEPT ![r] = FALSE]
    BY <2>1 DEF mntralloc
  <2> QED BY <2>2, <2>3, <2>4
<1>3. ASSUME NEW p \in Procs, enqueue(p) PROVE ListOK'
  <2>1. pc[p] # "idle" /\ queue' = <<cur(p)>> \o queue /\ done' = done /\ chain' = chain
    BY <1>3 DEF enqueue
  <2>2. cur(p) \in Rpcs /\ cur(p) \in InUse
    BY <2>1, CurOwn
  <2>3. ~done[cur(p)] /\ cur(p) \notin ToSet(queue)
    BY <1>3 DEF enqueue, QueuedOK
  <2>4. ToSet(queue') = ToSet(queue) \cup {cur(p)} /\ Distinct(queue')
    BY <2>1, <2>2, <2>3, ConsSet, ConsDistinct
  <2> QED BY <2>1, <2>2, <2>3, <2>4, ChainSame
<1>4. ASSUME NEW p \in Procs, write(p) PROVE ListOK'
  BY <1>4, ChainSame DEF write, transmit, Goto
<1>5. ASSUME NEW p \in Procs, writeEintr(p) PROVE ListOK'
  BY <1>5, ChainSame DEF writeEintr, transmit, eintr, giveup, Goto
<1>6. ASSUME NEW p \in Procs, writeFails(p) PROVE ListOK'
  BY <1>6, ChainSame DEF writeFails, fails, giveup, Goto
<1>7. ASSUME NEW p \in Procs, gateTake(p) PROVE ListOK'
  BY <1>7, ChainSame DEF gateTake, Goto
<1>8. ASSUME NEW p \in Procs, gateSleep(p) PROVE ListOK'
  BY <1>8, ChainSame DEF gateSleep, local, Goto
<1>9. ASSUME NEW p \in Procs, sleep(p) PROVE ListOK'
  BY <1>9, ChainSame DEF sleep, rpcattn, local, Goto
<1>10. ASSUME NEW p \in Procs, wokeEintr(p) PROVE ListOK'
  BY <1>10, ChainSame DEF wokeEintr, eintr, giveup, Goto
<1>11. ASSUME NEW p \in Procs, woke(p) PROVE ListOK'
  BY <1>11, ChainSame DEF woke, local, Goto
<1>12. ASSUME NEW p \in Procs, mntrpcread(p) PROVE ListOK'
  BY <1>12, ChainSame DEF mntrpcread, Goto
<1>13. ASSUME NEW p \in Procs, readEintr(p) PROVE ListOK'
  BY <1>13, ChainSame DEF readEintr, eintr, giveup, Goto
<1>14. ASSUME NEW p \in Procs, readFails(p) PROVE ListOK'
  BY <1>14, ChainSame DEF readFails, fails, giveup, Goto
<1>15. ASSUME NEW p \in Procs, mountmux(p) PROVE ListOK'
  <2>1. ToSet(queue') = ToSet(queue) \ {reply[cur(p)].tag} /\ Distinct(queue')
    BY <1>15, RemoveFirstSet DEF mountmux, unlink
  <2> QED BY <1>15, <2>1, ChainSame DEF mountmux
<1>16. ASSUME NEW p \in Procs, mountmuxUnexpected(p) PROVE ListOK'
  BY <1>16, ChainSame DEF mountmuxUnexpected, readMore, local, Goto
<1>17. ASSUME NEW p \in Procs, muxWakeup(p) PROVE ListOK'
  BY <1>17, ChainSame DEF muxWakeup, Sleeper
<1>18. ASSUME NEW p \in Procs, mntgate(p) PROVE ListOK'
  BY <1>18, ChainSame DEF mntgate, Goto
<1>19. ASSUME NEW p \in Procs, mntgateScan(p) PROVE ListOK'
  BY <1>19, ChainSame DEF mntgateScan, Wakeable, Sleeper
<1>20. ASSUME NEW p \in Procs, mntqrm(p) PROVE ListOK'
  <2>1. ToSet(queue') = ToSet(queue) \ {cur(p)} /\ Distinct(queue')
    BY <1>20, RemoveFirstSet DEF mntqrm, unlink
  <2> QED BY <1>20, <2>1, ChainSame DEF mntqrm
<1>21. ASSUME NEW p \in Procs, mntflushfree(p) PROVE ListOK'
  <2>1. CASE Len(chain[p]) > 1
    <3>1. mntfree(p) /\ pc[p] = "flushfree" /\ done[cur(p)] /\ pc' = pc /\ queue' = queue /\ done' = done
      BY <1>21, <2>1 DEF mntflushfree
    <3>2. /\ Own(p)' = Own(p) \ {cur(p)} /\ Distinct(chain'[p])
          /\ chain'[p] \in Seq(Rpcs) /\ Len(chain'[p]) = Len(chain[p]) - 1
          /\ chain[p] \in Seq(Rpcs) /\ chain[p] # <<>>
          /\ \A s \in Procs : s # p =>
               chain'[s] = chain[s] /\ cur(s)' = cur(s) /\ Own(s)' = Own(s)
          /\ InUse' = InUse \ {cur(p)}
      BY <3>1, FreeEffect, CurOwn
    <3> QED BY <2>1, <3>1, <3>2
  <2>2. CASE ~(Len(chain[p]) > 1)
    BY <1>21, <2>2, ChainSame DEF mntflushfree, Goto
  <2> QED BY <2>1, <2>2
<1>22. ASSUME NEW p \in Procs, mountrpcReturn(p) PROVE ListOK'
  <2>1. mntfree(p) /\ pc[p] = "ret" /\ pc' = [pc EXCEPT ![p] = "idle"] /\ queue' = queue /\ done' = done /\ done[cur(p)]
    BY <1>22 DEF mountrpcReturn, Goto, DoneOK
  <2>2. /\ Own(p)' = Own(p) \ {cur(p)} /\ Distinct(chain'[p])
        /\ chain[p] \in Seq(Rpcs) /\ chain[p] # <<>>
        /\ chain'[p] \in Seq(Rpcs) /\ Len(chain'[p]) = Len(chain[p]) - 1
        /\ \A s \in Procs : s # p =>
             chain'[s] = chain[s] /\ cur(s)' = cur(s) /\ Own(s)' = Own(s)
        /\ InUse' = InUse \ {cur(p)}
    BY <2>1, FreeEffect, CurOwn
  <2> QED BY <2>1, <2>2
<1>23. ASSUME NEW p \in Procs, postnote(p) PROVE ListOK'
  BY <1>23, ChainSame DEF postnote, Goto
<1>24. ASSUME NEW i \in DOMAIN srv, serve(i) PROVE ListOK'
  BY <1>24, ChainSame DEF serve
<1>25. CASE hangup
  BY <1>25, ChainSame DEF hangup
<1>26. CASE UNCHANGED vars
  BY <1>26, ChainSame DEF vars
<1> QED
  BY <1>1, <1>2, <1>3, <1>4, <1>5, <1>6, <1>7, <1>8, <1>9, <1>10, <1>11, <1>12, <1>13, <1>14, <1>15, <1>16, <1>17, <1>18, <1>19, <1>20, <1>21, <1>22, <1>23, <1>24, <1>25, <1>26
  DEF Next, step

\* Unanswered requests stay queued.
LEMMA NextQueued ==
  ASSUME Types, ListOK, ChainOK, QueuedOK, [Next]_vars
  PROVE  QueuedOK'
<1> USE DEF Types, QueuedOK
<1>1. ASSUME NEW p \in Procs, mountrpc(p) PROVE QueuedOK'
  <2>1. PICK r \in Rpcs : mntralloc(p, r, nil)
    BY <1>1 DEF mountrpc
  <2>2. queue' = queue /\ pc' = [pc EXCEPT ![p] = "enqueue"] /\ pc[p] # "enqueue"
    BY <1>1 DEF mountrpc, Goto
  <2>3. /\ chain'[p] # <<>> /\ Distinct(chain'[p])
        /\ cur(p)' = r /\ Own(p)' = Own(p) \cup {r}
        /\ \A s \in Procs : r \notin Own(s)
        /\ \A s \in Procs : s # p =>
             chain'[s] = chain[s] /\ cur(s)' = cur(s) /\ Own(s)' = Own(s)
        /\ InUse' = InUse \cup {r}
    BY <2>1, AllocEffect
  <2>4. done' = [done EXCEPT ![r] = FALSE]
    BY <2>1 DEF mntralloc
  <2>5. r \notin ToSet(queue)
    BY <2>3, InUseOwn DEF ListOK
  <2> QED BY <2>2, <2>3, <2>4, <2>5
<1>2. ASSUME NEW p \in Procs, mntflushalloc(p) PROVE QueuedOK'
  <2>1. PICK r \in Rpcs : mntralloc(p, r, flushtag(cur(p)))
    BY <1>2 DEF mntflushalloc
  <2>2. queue' = queue /\ pc' = [pc EXCEPT ![p] = "enqueue"] /\ pc[p] # "enqueue"
    BY <1>2 DEF mntflushalloc, Goto
  <2>3. /\ chain'[p] # <<>> /\ Distinct(chain'[p])
        /\ cur(p)' = r /\ Own(p)' = Own(p) \cup {r}
        /\ \A s \in Procs : r \notin Own(s)
        /\ \A s \in Procs : s # p =>
             chain'[s] = chain[s] /\ cur(s)' = cur(s) /\ Own(s)' = Own(s)
        /\ InUse' = InUse \cup {r}
    BY <2>1, AllocEffect
  <2>4. done' = [done EXCEPT ![r] = FALSE]
    BY <2>1 DEF mntralloc
  <2>5. r \notin ToSet(queue)
    BY <2>3, InUseOwn DEF ListOK
  <2> QED BY <2>2, <2>3, <2>4, <2>5
<1>3. ASSUME NEW p \in Procs, enqueue(p) PROVE QueuedOK'
  <2>1. /\ pc[p] = "enqueue" /\ pc' = [pc EXCEPT ![p] = "write"]
        /\ queue' = <<cur(p)>> \o queue /\ done' = done /\ chain' = chain
    BY <1>3 DEF enqueue, Goto
  <2>2. cur(p) \in Rpcs /\ \A q \in Procs : q # p /\ pc[q] # "idle" => cur(p) \notin Own(q)
    BY <2>1, CurOwn
  <2>3. ToSet(queue') = ToSet(queue) \cup {cur(p)}
    BY <2>1, <2>2, ConsSet
  <2>4. \A q \in Procs : q # p /\ pc[q] = "enqueue" => cur(q) \in Own(q)
    BY CurOwn
  <2> QED BY <2>1, <2>2, <2>3, <2>4, ChainSame
<1>4. ASSUME NEW p \in Procs, write(p) PROVE QueuedOK'
  BY <1>4, ChainSame DEF write, transmit, Goto
<1>5. ASSUME NEW p \in Procs, writeEintr(p) PROVE QueuedOK'
  BY <1>5, ChainSame DEF writeEintr, transmit, eintr, giveup, Goto
<1>6. ASSUME NEW p \in Procs, writeFails(p) PROVE QueuedOK'
  BY <1>6, ChainSame DEF writeFails, fails, giveup, Goto
<1>7. ASSUME NEW p \in Procs, gateTake(p) PROVE QueuedOK'
  BY <1>7, ChainSame DEF gateTake, Goto
<1>8. ASSUME NEW p \in Procs, gateSleep(p) PROVE QueuedOK'
  BY <1>8, ChainSame DEF gateSleep, local, Goto
<1>9. ASSUME NEW p \in Procs, sleep(p) PROVE QueuedOK'
  BY <1>9, ChainSame DEF sleep, rpcattn, local, Goto
<1>10. ASSUME NEW p \in Procs, wokeEintr(p) PROVE QueuedOK'
  BY <1>10, ChainSame DEF wokeEintr, eintr, giveup, Goto
<1>11. ASSUME NEW p \in Procs, woke(p) PROVE QueuedOK'
  BY <1>11, ChainSame DEF woke, local, Goto
<1>12. ASSUME NEW p \in Procs, mntrpcread(p) PROVE QueuedOK'
  BY <1>12, ChainSame DEF mntrpcread, Goto
<1>13. ASSUME NEW p \in Procs, readEintr(p) PROVE QueuedOK'
  BY <1>13, ChainSame DEF readEintr, eintr, giveup, Goto
<1>14. ASSUME NEW p \in Procs, readFails(p) PROVE QueuedOK'
  BY <1>14, ChainSame DEF readFails, fails, giveup, Goto
<1>15. ASSUME NEW p \in Procs, mountmux(p) PROVE QueuedOK'
  <2>1. ToSet(queue') = ToSet(queue) \ {reply[cur(p)].tag}
    BY <1>15, RemoveFirstSet DEF mountmux, unlink, ListOK
  <2>2. done' = [done EXCEPT ![reply[cur(p)].tag] = TRUE] /\ chain' = chain /\ pc[p] # "enqueue"
    BY <1>15 DEF mountmux
  <2>3. \A s \in Procs : pc'[s] = "enqueue" <=> pc[s] = "enqueue"
    BY <1>15 DEF mountmux, readMore, Goto
  <2>4. \A s \in Procs : pc[s] = "enqueue" => cur(s) # reply[cur(p)].tag
    BY <1>15, CurOwn DEF mountmux
  <2>5. reply[cur(p)].tag \in Rpcs /\ \A s \in Procs : Own(s) \subseteq Rpcs /\ (pc[s] = "enqueue" => cur(s) \in Rpcs)
    BY <1>15, OwnType, CurOwn DEF mountmux
  <2> QED BY <2>1, <2>2, <2>3, <2>4, <2>5, ChainSame
<1>16. ASSUME NEW p \in Procs, mountmuxUnexpected(p) PROVE QueuedOK'
  BY <1>16, ChainSame DEF mountmuxUnexpected, readMore, local, Goto
<1>17. ASSUME NEW p \in Procs, muxWakeup(p) PROVE QueuedOK'
  BY <1>17, ChainSame DEF muxWakeup, Sleeper
<1>18. ASSUME NEW p \in Procs, mntgate(p) PROVE QueuedOK'
  BY <1>18, ChainSame DEF mntgate, Goto
<1>19. ASSUME NEW p \in Procs, mntgateScan(p) PROVE QueuedOK'
  <2>1. pc[p] = "scan" /\ pc'[p] # "enqueue" /\ chain' = chain /\ queue' = queue /\ done' = done
    BY <1>19, ScanEffect DEF mntgateScan
  <2>2. \A s \in Procs : pc'[s] = "enqueue" <=> pc[s] = "enqueue"
    BY <1>19, <2>1, ScanEffect
  <2> QED BY <2>1, <2>2, ChainSame
<1>20. ASSUME NEW p \in Procs, mntqrm(p) PROVE QueuedOK'
  <2>1. ToSet(queue') = ToSet(queue) \ {cur(p)}
    BY <1>20, RemoveFirstSet DEF mntqrm, unlink, ListOK
  <2>2. done' = [done EXCEPT ![cur(p)] = TRUE] /\ chain' = chain /\ pc[p] # "enqueue"
    BY <1>20 DEF mntqrm
  <2>3. \A s \in Procs : pc'[s] = "enqueue" <=> pc[s] = "enqueue"
    BY <1>20 DEF mntqrm, readMore, Goto
  <2>4. \A s \in Procs : pc[s] = "enqueue" => cur(s) # cur(p)
    BY <1>20, CurOwn DEF mntqrm
  <2>5. cur(p) \in Rpcs /\ \A s \in Procs : Own(s) \subseteq Rpcs /\ (pc[s] = "enqueue" => cur(s) \in Rpcs)
    BY <1>20, OwnType, CurOwn DEF mntqrm
  <2> QED BY <2>1, <2>2, <2>3, <2>4, <2>5, ChainSame
<1>21. ASSUME NEW p \in Procs, mntflushfree(p) PROVE QueuedOK'
  <2>1. CASE Len(chain[p]) > 1
    <3>1. mntfree(p) /\ pc[p] = "flushfree" /\ done[cur(p)] /\ pc' = pc /\ queue' = queue /\ done' = done
      BY <1>21, <2>1 DEF mntflushfree
    <3>2. /\ Own(p)' = Own(p) \ {cur(p)} /\ Distinct(chain'[p])
          /\ chain'[p] \in Seq(Rpcs) /\ Len(chain'[p]) = Len(chain[p]) - 1
          /\ chain[p] \in Seq(Rpcs) /\ chain[p] # <<>>
          /\ \A s \in Procs : s # p =>
               chain'[s] = chain[s] /\ cur(s)' = cur(s) /\ Own(s)' = Own(s)
          /\ InUse' = InUse \ {cur(p)}
      BY <3>1, FreeEffect, CurOwn
    <3> QED BY SMTT(30), <2>1, <3>1, <3>2
  <2>2. CASE ~(Len(chain[p]) > 1)
    BY <1>21, <2>2, ChainSame DEF mntflushfree, Goto
  <2> QED BY <2>1, <2>2
<1>22. ASSUME NEW p \in Procs, mountrpcReturn(p) PROVE QueuedOK'
  <2>1. mntfree(p) /\ pc[p] = "ret" /\ pc' = [pc EXCEPT ![p] = "idle"] /\ queue' = queue /\ done' = done
    BY <1>22 DEF mountrpcReturn, Goto
  <2>2. /\ Own(p)' = Own(p) \ {cur(p)} /\ Distinct(chain'[p])
        /\ chain[p] \in Seq(Rpcs) /\ chain[p] # <<>>
        /\ chain'[p] \in Seq(Rpcs) /\ Len(chain'[p]) = Len(chain[p]) - 1
        /\ \A s \in Procs : s # p =>
             chain'[s] = chain[s] /\ cur(s)' = cur(s) /\ Own(s)' = Own(s)
        /\ InUse' = InUse \ {cur(p)}
    BY <2>1, FreeEffect, CurOwn
  <2>3. \A s \in Procs : pc'[s] = "enqueue" => pc[s] = "enqueue" /\ s # p
    BY <2>1
  <2> QED BY <2>1, <2>2, <2>3
<1>23. ASSUME NEW p \in Procs, postnote(p) PROVE QueuedOK'
  BY <1>23, ChainSame DEF postnote, Goto
<1>24. ASSUME NEW i \in DOMAIN srv, serve(i) PROVE QueuedOK'
  BY <1>24, ChainSame DEF serve
<1>25. CASE hangup
  BY <1>25, ChainSame DEF hangup
<1>26. CASE UNCHANGED vars
  BY <1>26, ChainSame DEF vars
<1> QED
  BY <1>1, <1>2, <1>3, <1>4, <1>5, <1>6, <1>7, <1>8, <1>9, <1>10, <1>11, <1>12, <1>13, <1>14, <1>15, <1>16, <1>17, <1>18, <1>19, <1>20, <1>21, <1>22, <1>23, <1>24, <1>25, <1>26
  DEF Next, step

\* The reader reads until its own request is done.
LEMMA NextDone ==
  ASSUME Types, TurnOK, ChainOK, DoneOK, [Next]_vars
  PROVE  DoneOK'
<1> USE DEF Types, DoneOK
<1>1. ASSUME NEW p \in Procs, mountrpc(p) PROVE DoneOK'
  <2>1. PICK r \in Rpcs : mntralloc(p, r, nil)
    BY <1>1 DEF mountrpc
  <2>2. pc[p] \in {"idle", "flush"} /\ pc' = [pc EXCEPT ![p] = "enqueue"]
    BY <1>1 DEF mountrpc, Goto
  <2>3. /\ chain'[p] # <<>> /\ Distinct(chain'[p])
        /\ cur(p)' = r /\ Own(p)' = Own(p) \cup {r}
        /\ \A s \in Procs : r \notin Own(s)
        /\ \A s \in Procs : s # p =>
             chain'[s] = chain[s] /\ cur(s)' = cur(s) /\ Own(s)' = Own(s)
        /\ InUse' = InUse \cup {r}
    BY <2>1, AllocEffect
  <2>4. done' = [done EXCEPT ![r] = FALSE]
    BY <2>1 DEF mntralloc
  <2>5. \A s \in Procs : pc[s] # "idle" => cur(s) # r /\ cur(s) \in Rpcs
    BY <2>3, CurOwn
  <2> QED BY <2>2, <2>3, <2>4, <2>5
<1>2. ASSUME NEW p \in Procs, mntflushalloc(p) PROVE DoneOK'
  <2>1. PICK r \in Rpcs : mntralloc(p, r, flushtag(cur(p)))
    BY <1>2 DEF mntflushalloc
  <2>2. pc[p] \in {"idle", "flush"} /\ pc' = [pc EXCEPT ![p] = "enqueue"]
    BY <1>2 DEF mntflushalloc, Goto
  <2>3. /\ chain'[p] # <<>> /\ Distinct(chain'[p])
        /\ cur(p)' = r /\ Own(p)' = Own(p) \cup {r}
        /\ \A s \in Procs : r \notin Own(s)
        /\ \A s \in Procs : s # p =>
             chain'[s] = chain[s] /\ cur(s)' = cur(s) /\ Own(s)' = Own(s)
        /\ InUse' = InUse \cup {r}
    BY <2>1, AllocEffect
  <2>4. done' = [done EXCEPT ![r] = FALSE]
    BY <2>1 DEF mntralloc
  <2>5. \A s \in Procs : pc[s] # "idle" => cur(s) # r /\ cur(s) \in Rpcs
    BY <2>3, CurOwn
  <2> QED BY <2>2, <2>3, <2>4, <2>5
<1>3. ASSUME NEW p \in Procs, enqueue(p) PROVE DoneOK'
  BY <1>3, ChainSame DEF enqueue, Goto
<1>4. ASSUME NEW p \in Procs, write(p) PROVE DoneOK'
  BY <1>4, ChainSame DEF write, transmit, Goto
<1>5. ASSUME NEW p \in Procs, writeEintr(p) PROVE DoneOK'
  BY <1>5, ChainSame DEF writeEintr, transmit, eintr, giveup, Goto
<1>6. ASSUME NEW p \in Procs, writeFails(p) PROVE DoneOK'
  BY <1>6, ChainSame DEF writeFails, fails, giveup, Goto
<1>7. ASSUME NEW p \in Procs, gateTake(p) PROVE DoneOK'
  BY <1>7, ChainSame DEF gateTake, Goto
<1>8. ASSUME NEW p \in Procs, gateSleep(p) PROVE DoneOK'
  BY <1>8, ChainSame DEF gateSleep, local, Goto
<1>9. ASSUME NEW p \in Procs, sleep(p) PROVE DoneOK'
  BY <1>9, ChainSame DEF sleep, rpcattn, local, Goto
<1>10. ASSUME NEW p \in Procs, wokeEintr(p) PROVE DoneOK'
  BY <1>10, ChainSame DEF wokeEintr, eintr, giveup, Goto
<1>11. ASSUME NEW p \in Procs, woke(p) PROVE DoneOK'
  BY <1>11, ChainSame DEF woke, local, Goto
<1>12. ASSUME NEW p \in Procs, mntrpcread(p) PROVE DoneOK'
  BY <1>12, ChainSame DEF mntrpcread, Goto
<1>13. ASSUME NEW p \in Procs, readEintr(p) PROVE DoneOK'
  BY <1>13, ChainSame DEF readEintr, eintr, giveup, Goto
<1>14. ASSUME NEW p \in Procs, readFails(p) PROVE DoneOK'
  BY <1>14, ChainSame DEF readFails, fails, giveup, Goto
<1>15. ASSUME NEW p \in Procs, mountmux(p) PROVE DoneOK'
  <2>1. rip = p /\ \A s \in Procs : s # p => pc[s] \notin {"read", "mux", "muxwake"}
    BY <1>15 DEF mountmux, TurnOK
  <2>2. \A s \in Procs : pc[s] # "idle" => cur(s) \in Rpcs
    BY CurOwn
  <2>3. chain' = chain /\ done' = [done EXCEPT ![reply[cur(p)].tag] = TRUE]
    BY <1>15 DEF mountmux
  <2>4. \A s \in Procs : s # p => pc'[s] = pc[s]
    BY <1>15 DEF mountmux, readMore, Goto
  <2>5. (reply[cur(p)].tag # cur(p) /\ pc'[p] = "muxwake") \/ pc'[p] = "mntgate"
    BY <1>15 DEF mountmux, readMore, Goto
  <2>6. pc[p] = "mux" /\ reply[cur(p)].tag \in Rpcs
    BY <1>15, OwnType DEF mountmux
  <2> QED BY <2>1, <2>2, <2>3, <2>4, <2>5, <2>6, ChainSame
<1>16. ASSUME NEW p \in Procs, mountmuxUnexpected(p) PROVE DoneOK'
  BY <1>16, ChainSame DEF mountmuxUnexpected, readMore, local, Goto
<1>17. ASSUME NEW p \in Procs, muxWakeup(p) PROVE DoneOK'
  BY <1>17, ChainSame DEF muxWakeup, Sleeper
<1>18. ASSUME NEW p \in Procs, mntgate(p) PROVE DoneOK'
  BY <1>18, ChainSame DEF mntgate, Goto
<1>19. ASSUME NEW p \in Procs, mntgateScan(p) PROVE DoneOK'
  <2>1. pc'[p] \in {"flush", "flushfree"} /\ chain' = chain /\ done' = done
    BY <1>19, ScanEffect DEF mntgateScan
  <2> QED BY <1>19, <2>1, ChainSame, ScanEffect
<1>20. ASSUME NEW p \in Procs, mntqrm(p) PROVE DoneOK'
  <2>1. chain' = chain /\ done' = [done EXCEPT ![cur(p)] = TRUE] /\ pc' = pc /\ pc[p] = "flushfree"
    BY <1>20 DEF mntqrm
  <2>2. \A s \in Procs : pc[s] # "idle" => cur(s) \in Rpcs /\ (s # p => cur(s) # cur(p))
    BY <2>1, CurOwn
  <2> QED BY <2>1, <2>2, ChainSame
<1>21. ASSUME NEW p \in Procs, mntflushfree(p) PROVE DoneOK'
  <2>1. CASE Len(chain[p]) > 1
    <3>1. mntfree(p) /\ pc[p] = "flushfree" /\ done[cur(p)] /\ pc' = pc /\ done' = done
      BY <1>21, <2>1 DEF mntflushfree
    <3>2. /\ Own(p)' = Own(p) \ {cur(p)} /\ Distinct(chain'[p])
          /\ chain'[p] \in Seq(Rpcs) /\ Len(chain'[p]) = Len(chain[p]) - 1
          /\ chain[p] \in Seq(Rpcs) /\ chain[p] # <<>>
          /\ \A s \in Procs : s # p =>
               chain'[s] = chain[s] /\ cur(s)' = cur(s) /\ Own(s)' = Own(s)
          /\ InUse' = InUse \ {cur(p)}
      BY <3>1, FreeEffect, CurOwn
    <3> QED BY <2>1, <3>1, <3>2
  <2>2. CASE ~(Len(chain[p]) > 1)
    <3>1. /\ pc[p] = "flushfree" /\ done[cur(p)] /\ done' = done /\ chain' = chain
          /\ pc' = [pc EXCEPT ![p] = "ret"]
      BY <1>21, <2>2 DEF mntflushfree, Goto
    <3>2. chain[p] \in Seq(Rpcs) /\ chain[p] # <<>>
      BY <3>1, CurOwn
    <3>3. Len(chain[p]) \in Nat \ {0}
      BY <3>2, EmptySeq
    <3>4. \A n \in Nat \ {0} : ~(n > 1) => n = 1
      OBVIOUS
    <3>5. Len(chain[p]) = 1
      BY <2>2, <3>3, <3>4
    <3> QED BY <3>1, <3>5, ChainSame
  <2> QED BY <2>1, <2>2
<1>22. ASSUME NEW p \in Procs, mountrpcReturn(p) PROVE DoneOK'
  <2>1. mntfree(p) /\ pc[p] = "ret" /\ pc' = [pc EXCEPT ![p] = "idle"] /\ done' = done
    BY <1>22 DEF mountrpcReturn, Goto
  <2>2. /\ Own(p)' = Own(p) \ {cur(p)} /\ Distinct(chain'[p])
        /\ chain[p] \in Seq(Rpcs) /\ chain[p] # <<>>
        /\ chain'[p] \in Seq(Rpcs) /\ Len(chain'[p]) = Len(chain[p]) - 1
        /\ \A s \in Procs : s # p =>
             chain'[s] = chain[s] /\ cur(s)' = cur(s) /\ Own(s)' = Own(s)
        /\ InUse' = InUse \ {cur(p)}
    BY <2>1, FreeEffect, CurOwn
  <2> QED BY <2>1, <2>2
<1>23. ASSUME NEW p \in Procs, postnote(p) PROVE DoneOK'
  BY <1>23, ChainSame DEF postnote, Goto
<1>24. ASSUME NEW i \in DOMAIN srv, serve(i) PROVE DoneOK'
  BY <1>24, ChainSame DEF serve
<1>25. CASE hangup
  BY <1>25, ChainSame DEF hangup
<1>26. CASE UNCHANGED vars
  BY <1>26, ChainSame DEF vars
<1> QED
  BY <1>1, <1>2, <1>3, <1>4, <1>5, <1>6, <1>7, <1>8, <1>9, <1>10, <1>11, <1>12, <1>13, <1>14, <1>15, <1>16, <1>17, <1>18, <1>19, <1>20, <1>21, <1>22, <1>23, <1>24, <1>25, <1>26
  DEF Next, step

\* Whoever sleeps on a completed request is about to be woken.
LEMMA NextSlept ==
  ASSUME Types, TurnOK, ChainOK, ReplyNotSleptThrough, [Next]_vars
  PROVE  ReplyNotSleptThrough'
<1> USE DEF Types, ReplyNotSleptThrough
<1>1. ASSUME NEW p \in Procs, mountrpc(p) PROVE ReplyNotSleptThrough'
  <2>1. PICK r \in Rpcs : mntralloc(p, r, nil)
    BY <1>1 DEF mountrpc
  <2>2. pc[p] \in {"idle", "flush"} /\ pc' = [pc EXCEPT ![p] = "enqueue"]
    BY <1>1 DEF mountrpc, Goto
  <2>3. /\ chain'[p] # <<>> /\ Distinct(chain'[p])
        /\ cur(p)' = r /\ Own(p)' = Own(p) \cup {r}
        /\ \A s \in Procs : r \notin Own(s)
        /\ \A s \in Procs : s # p =>
             chain'[s] = chain[s] /\ cur(s)' = cur(s) /\ Own(s)' = Own(s)
        /\ InUse' = InUse \cup {r}
    BY <2>1, AllocEffect
  <2>4. done' = [done EXCEPT ![r] = FALSE]
    BY <2>1 DEF mntralloc
  <2>5. \A s \in Procs : pc[s] # "idle" => cur(s) # r /\ cur(s) \in Rpcs
    BY <2>3, CurOwn
  <2>6. muxq' = muxq
    BY <1>1 DEF mountrpc
  <2> QED BY <2>2, <2>3, <2>4, <2>5, <2>6
<1>2. ASSUME NEW p \in Procs, mntflushalloc(p) PROVE ReplyNotSleptThrough'
  <2>1. PICK r \in Rpcs : mntralloc(p, r, flushtag(cur(p)))
    BY <1>2 DEF mntflushalloc
  <2>2. pc[p] \in {"idle", "flush"} /\ pc' = [pc EXCEPT ![p] = "enqueue"]
    BY <1>2 DEF mntflushalloc, Goto
  <2>3. /\ chain'[p] # <<>> /\ Distinct(chain'[p])
        /\ cur(p)' = r /\ Own(p)' = Own(p) \cup {r}
        /\ \A s \in Procs : r \notin Own(s)
        /\ \A s \in Procs : s # p =>
             chain'[s] = chain[s] /\ cur(s)' = cur(s) /\ Own(s)' = Own(s)
        /\ InUse' = InUse \cup {r}
    BY <2>1, AllocEffect
  <2>4. done' = [done EXCEPT ![r] = FALSE]
    BY <2>1 DEF mntralloc
  <2>5. \A s \in Procs : pc[s] # "idle" => cur(s) # r /\ cur(s) \in Rpcs
    BY <2>3, CurOwn
  <2>6. muxq' = muxq
    BY <1>2 DEF mntflushalloc
  <2> QED BY <2>2, <2>3, <2>4, <2>5, <2>6
<1>3. ASSUME NEW p \in Procs, enqueue(p) PROVE ReplyNotSleptThrough'
  BY <1>3, ChainSame DEF enqueue, Goto
<1>4. ASSUME NEW p \in Procs, write(p) PROVE ReplyNotSleptThrough'
  BY <1>4, ChainSame DEF write, transmit, Goto
<1>5. ASSUME NEW p \in Procs, writeEintr(p) PROVE ReplyNotSleptThrough'
  BY <1>5, ChainSame DEF writeEintr, transmit, eintr, giveup, Goto
<1>6. ASSUME NEW p \in Procs, writeFails(p) PROVE ReplyNotSleptThrough'
  BY <1>6, ChainSame DEF writeFails, fails, giveup, Goto
<1>7. ASSUME NEW p \in Procs, gateTake(p) PROVE ReplyNotSleptThrough'
  BY <1>7, ChainSame DEF gateTake, Goto
<1>8. ASSUME NEW p \in Procs, gateSleep(p) PROVE ReplyNotSleptThrough'
  BY <1>8, ChainSame DEF gateSleep, local, Goto
<1>9. ASSUME NEW p \in Procs, sleep(p) PROVE ReplyNotSleptThrough'
  BY <1>9, ChainSame DEF sleep, rpcattn, local, Goto
<1>10. ASSUME NEW p \in Procs, wokeEintr(p) PROVE ReplyNotSleptThrough'
  BY <1>10, ChainSame DEF wokeEintr, eintr, giveup, Goto
<1>11. ASSUME NEW p \in Procs, woke(p) PROVE ReplyNotSleptThrough'
  BY <1>11, ChainSame DEF woke, local, Goto
<1>12. ASSUME NEW p \in Procs, mntrpcread(p) PROVE ReplyNotSleptThrough'
  BY <1>12, ChainSame DEF mntrpcread, Goto
<1>13. ASSUME NEW p \in Procs, readEintr(p) PROVE ReplyNotSleptThrough'
  BY <1>13, ChainSame DEF readEintr, eintr, giveup, Goto
<1>14. ASSUME NEW p \in Procs, readFails(p) PROVE ReplyNotSleptThrough'
  BY <1>14, ChainSame DEF readFails, fails, giveup, Goto
<1>15. ASSUME NEW p \in Procs, mountmux(p) PROVE ReplyNotSleptThrough'
  <2> DEFINE q == reply[cur(p)].tag
  <2>1. chain' = chain /\ done' = [done EXCEPT ![q] = TRUE]
    BY <1>15 DEF mountmux
  <2>2. rip = p /\ \A s \in Procs : pc[s] = "muxwake" => s = p
    BY <1>15 DEF mountmux, TurnOK
  <2>3. \A s \in Procs : s # p => pc'[s] = pc[s]
    BY <1>15 DEF mountmux, readMore, Goto
  <2>4. pc[p] = "mux" /\ pc'[p] \in {"muxwake", "mntgate"}
    BY <1>15 DEF mountmux, readMore, Goto
  <2>5. q # cur(p) => pc'[p] = "muxwake" /\ muxq'[p] = q
    BY <1>15 DEF mountmux, Goto
  <2>6. \A s \in Procs : pc[s] = "asleep" => cur(s) # cur(p) /\ cur(s) \in Rpcs
    BY <2>4, CurOwn
  <2>7. SUFFICES ASSUME NEW s \in Procs, pc'[s] = "asleep", done'[cur(s)']
                 PROVE  \E t \in Procs : pc'[t] = "muxwake" /\ muxq'[t] = cur(s)'
    OBVIOUS
  <2>8. s # p /\ pc[s] = "asleep" /\ cur(s)' = cur(s)
    BY <2>1, <2>3, <2>4, <2>7, ChainSame
  <2>9. ~done[cur(s)]
    BY <2>2, <2>4, <2>8
  <2>10. cur(s) = q
    BY <2>1, <2>6, <2>7, <2>8, <2>9
  <2> QED BY <2>5, <2>6, <2>8, <2>10
<1>16. ASSUME NEW p \in Procs, mountmuxUnexpected(p) PROVE ReplyNotSleptThrough'
  BY <1>16, ChainSame DEF mountmuxUnexpected, readMore, local, Goto
<1>17. ASSUME NEW p \in Procs, muxWakeup(p) PROVE ReplyNotSleptThrough'
  <2>1. chain' = chain /\ done' = done /\ pc[p] = "muxwake"
    BY <1>17 DEF muxWakeup
  <2>2. \A s \in Procs : pc[s] = "muxwake" => s = p
    BY <2>1 DEF TurnOK
  <2>3. \A s \in Procs : pc'[s] = "asleep" => pc[s] = "asleep" /\ cur(s) # muxq[p]
    BY <1>17 DEF muxWakeup, Sleeper
  <2> QED BY <2>1, <2>2, <2>3, ChainSame
<1>18. ASSUME NEW p \in Procs, mntgate(p) PROVE ReplyNotSleptThrough'
  BY <1>18, ChainSame DEF mntgate, Goto
<1>19. ASSUME NEW p \in Procs, mntgateScan(p) PROVE ReplyNotSleptThrough'
  <2>1. pc[p] = "scan" /\ pc'[p] \in {"flush", "flushfree"} /\ chain' = chain /\ done' = done /\ muxq' = muxq
    BY <1>19, ScanEffect DEF mntgateScan
  <2>2. \A s \in Procs : pc'[s] = "asleep" => pc[s] = "asleep"
    BY <1>19, <2>1, ScanEffect
  <2>3. \A s \in Procs : pc[s] = "muxwake" => pc'[s] = "muxwake"
    BY <1>19, <2>1, ScanEffect
  <2> QED BY <2>1, <2>2, <2>3, ChainSame
<1>20. ASSUME NEW p \in Procs, mntqrm(p) PROVE ReplyNotSleptThrough'
  <2>1. chain' = chain /\ done' = [done EXCEPT ![cur(p)] = TRUE] /\ pc' = pc /\ pc[p] = "flushfree" /\ muxq' = muxq
    BY <1>20 DEF mntqrm
  <2>2. \A s \in Procs : pc[s] # "idle" => cur(s) \in Rpcs /\ (s # p => cur(s) # cur(p))
    BY <2>1, CurOwn
  <2> QED BY ZenonT(60), <2>1, <2>2, ChainSame
<1>21. ASSUME NEW p \in Procs, mntflushfree(p) PROVE ReplyNotSleptThrough'
  <2>1. CASE Len(chain[p]) > 1
    <3>1. mntfree(p) /\ pc[p] = "flushfree" /\ done[cur(p)] /\ pc' = pc /\ done' = done /\ muxq' = muxq
      BY <1>21, <2>1 DEF mntflushfree
    <3>2. /\ Own(p)' = Own(p) \ {cur(p)} /\ Distinct(chain'[p])
          /\ chain'[p] \in Seq(Rpcs) /\ Len(chain'[p]) = Len(chain[p]) - 1
          /\ chain[p] \in Seq(Rpcs) /\ chain[p] # <<>>
          /\ \A s \in Procs : s # p =>
               chain'[s] = chain[s] /\ cur(s)' = cur(s) /\ Own(s)' = Own(s)
          /\ InUse' = InUse \ {cur(p)}
      BY <3>1, FreeEffect, CurOwn
    <3> QED BY SMTT(30), <2>1, <3>1, <3>2
  <2>2. CASE ~(Len(chain[p]) > 1)
    <3>1. /\ pc[p] = "flushfree" /\ done' = done /\ chain' = chain /\ muxq' = muxq
          /\ pc' = [pc EXCEPT ![p] = "ret"]
      BY <1>21, <2>2 DEF mntflushfree, Goto
    <3> QED BY <3>1, ChainSame
  <2> QED BY <2>1, <2>2
<1>22. ASSUME NEW p \in Procs, mountrpcReturn(p) PROVE ReplyNotSleptThrough'
  <2>1. mntfree(p) /\ pc[p] = "ret" /\ pc' = [pc EXCEPT ![p] = "idle"] /\ done' = done /\ muxq' = muxq
    BY <1>22 DEF mountrpcReturn, Goto
  <2>2. /\ Own(p)' = Own(p) \ {cur(p)} /\ Distinct(chain'[p])
        /\ chain[p] \in Seq(Rpcs) /\ chain[p] # <<>>
        /\ chain'[p] \in Seq(Rpcs) /\ Len(chain'[p]) = Len(chain[p]) - 1
        /\ \A s \in Procs : s # p =>
             chain'[s] = chain[s] /\ cur(s)' = cur(s) /\ Own(s)' = Own(s)
        /\ InUse' = InUse \ {cur(p)}
    BY <2>1, FreeEffect, CurOwn
  <2> QED BY <2>1, <2>2
<1>23. ASSUME NEW p \in Procs, postnote(p) PROVE ReplyNotSleptThrough'
  <2>1. chain' = chain /\ done' = done /\ muxq' = muxq
    BY <1>23 DEF postnote
  <2>2. \A s \in Procs : pc'[s] = "asleep" => pc[s] = "asleep"
    BY <1>23 DEF postnote, Goto
  <2>3. \A s \in Procs : pc[s] = "muxwake" => pc'[s] = "muxwake"
    BY <1>23 DEF postnote, Goto
  <2> QED BY <2>1, <2>2, <2>3, ChainSame
<1>24. ASSUME NEW i \in DOMAIN srv, serve(i) PROVE ReplyNotSleptThrough'
  BY <1>24, ChainSame DEF serve
<1>25. CASE hangup
  BY <1>25, ChainSame DEF hangup
<1>26. CASE UNCHANGED vars
  BY <1>26, ChainSame DEF vars
<1> QED
  BY <1>1, <1>2, <1>3, <1>4, <1>5, <1>6, <1>7, <1>8, <1>9, <1>10, <1>11, <1>12, <1>13, <1>14, <1>15, <1>16, <1>17, <1>18, <1>19, <1>20, <1>21, <1>22, <1>23, <1>24, <1>25, <1>26
  DEF Next, step

\* Somebody always comes to read for those who sleep.
LEMMA NextBaton ==
  ASSUME Types, TurnOK, ListOK, ChainOK, QueuedOK, Baton, [Next]_vars
  PROVE  Baton'
<1> USE DEF Types, Baton
<1>1. ASSUME NEW p \in Procs, mountrpc(p) PROVE Baton'
  <2>1. PICK r \in Rpcs : mntralloc(p, r, nil)
    BY <1>1 DEF mountrpc
  <2>2. pc[p] \in {"idle", "flush"} /\ pc' = [pc EXCEPT ![p] = "enqueue"]
    BY <1>1 DEF mountrpc, Goto
  <2>3. /\ chain'[p] # <<>> /\ Distinct(chain'[p])
        /\ cur(p)' = r /\ Own(p)' = Own(p) \cup {r}
        /\ \A s \in Procs : r \notin Own(s)
        /\ \A s \in Procs : s # p =>
             chain'[s] = chain[s] /\ cur(s)' = cur(s) /\ Own(s)' = Own(s)
        /\ InUse' = InUse \cup {r}
    BY <2>1, AllocEffect
  <2> QED BY <2>2 DEF WillLook
<1>2. ASSUME NEW p \in Procs, mntflushalloc(p) PROVE Baton'
  <2>1. PICK r \in Rpcs : mntralloc(p, r, flushtag(cur(p)))
    BY <1>2 DEF mntflushalloc
  <2>2. pc[p] \in {"idle", "flush"} /\ pc' = [pc EXCEPT ![p] = "enqueue"]
    BY <1>2 DEF mntflushalloc, Goto
  <2>3. /\ chain'[p] # <<>> /\ Distinct(chain'[p])
        /\ cur(p)' = r /\ Own(p)' = Own(p) \cup {r}
        /\ \A s \in Procs : r \notin Own(s)
        /\ \A s \in Procs : s # p =>
             chain'[s] = chain[s] /\ cur(s)' = cur(s) /\ Own(s)' = Own(s)
        /\ InUse' = InUse \cup {r}
    BY <2>1, AllocEffect
  <2> QED BY <2>2 DEF WillLook
<1>3. ASSUME NEW p \in Procs, enqueue(p) PROVE Baton'
  BY <1>3 DEF enqueue, Goto, WillLook
<1>4. ASSUME NEW p \in Procs, write(p) PROVE Baton'
  BY <1>4 DEF write, Goto, WillLook
<1>5. ASSUME NEW p \in Procs, writeEintr(p) PROVE Baton'
  <2>1. rip' = rip /\ rip # p
    BY <1>5 DEF writeEintr, TurnOK
  <2> QED BY <1>5, <2>1 DEF writeEintr, eintr, giveup, Goto, WillLook
<1>6. ASSUME NEW p \in Procs, writeFails(p) PROVE Baton'
  BY <1>6 DEF writeFails, fails
<1>7. ASSUME NEW p \in Procs, gateTake(p) PROVE Baton'
  BY <1>7, NilAssumption DEF gateTake
<1>8. ASSUME NEW p \in Procs, gateSleep(p) PROVE Baton'
  BY <1>8 DEF gateSleep, local
<1>9. ASSUME NEW p \in Procs, sleep(p) PROVE Baton'
  <2> SUFFICES ASSUME ~hungup', rip' = nil, NEW s \in Procs, pc'[s] = "asleep", ~done'[cur(s)']
               PROVE  \E t \in Procs : WillLook(t)'
    BY DEF Baton
  <2>1. /\ rip' = rip /\ hungup' = hungup /\ done' = done /\ note' = note /\ chain' = chain
        /\ pc[p] = "sleep" /\ pc' = [pc EXCEPT ![p] = "woke"]
    BY <1>9 DEF sleep, rpcattn, local, Goto
  <2>2. pc[s] = "asleep" /\ ~done[cur(s)]
    BY <2>1, ChainSame
  <2>3. PICK t \in Procs : WillLook(t)
    BY <2>1, <2>2 DEF Baton
  <2>4. WillLook(t)'
    BY <2>1, <2>3, ChainSame DEF WillLook
  <2> QED BY <2>4
<1>10. ASSUME NEW p \in Procs, wokeEintr(p) PROVE Baton'
  <2>1. rip' = rip /\ rip # p
    BY <1>10 DEF wokeEintr, TurnOK
  <2> QED BY <1>10, <2>1 DEF wokeEintr, eintr, giveup, Goto, WillLook
<1>11. ASSUME NEW p \in Procs, woke(p) PROVE Baton'
  <2> SUFFICES ASSUME ~hungup', rip' = nil, NEW s \in Procs, pc'[s] = "asleep", ~done'[cur(s)']
               PROVE  \E t \in Procs : WillLook(t)'
    BY DEF Baton
  <2>1. /\ rip' = rip /\ hungup' = hungup /\ done' = done /\ note' = note /\ chain' = chain
        /\ pc[p] = "woke" /\ ~note[p]
        /\ pc' = [pc EXCEPT ![p] = IF done[cur(p)] THEN "flushfree" ELSE "gate"]
    BY <1>11 DEF woke, local, Goto
  <2>2. pc[s] = "asleep" /\ ~done[cur(s)]
    BY <2>1, ChainSame
  <2>3. PICK t \in Procs : WillLook(t)
    BY <2>1, <2>2 DEF Baton
  <2>4. WillLook(t)'
    BY <2>1, <2>3, ChainSame DEF WillLook
  <2> QED BY <2>4
<1>12. ASSUME NEW p \in Procs, mntrpcread(p) PROVE Baton'
  BY <1>12, NilAssumption DEF mntrpcread, TurnOK
<1>13. ASSUME NEW p \in Procs, readEintr(p) PROVE Baton'
  BY <1>13, NilAssumption DEF readEintr, TurnOK
<1>14. ASSUME NEW p \in Procs, readFails(p) PROVE Baton'
  BY <1>14 DEF readFails, fails
<1>15. ASSUME NEW p \in Procs, mountmux(p) PROVE Baton'
  BY <1>15, NilAssumption DEF mountmux, TurnOK
<1>16. ASSUME NEW p \in Procs, mountmuxUnexpected(p) PROVE Baton'
  BY <1>16, NilAssumption DEF mountmuxUnexpected, local, TurnOK
<1>17. ASSUME NEW p \in Procs, muxWakeup(p) PROVE Baton'
  BY <1>17, NilAssumption DEF muxWakeup, TurnOK
<1>18. ASSUME NEW p \in Procs, mntgate(p) PROVE Baton'
  BY <1>18 DEF mntgate, Goto, WillLook
<1>19. ASSUME NEW p \in Procs, mntgateScan(p) PROVE Baton'
  <2> SUFFICES ASSUME ~hungup', rip' = nil, NEW s \in Procs, pc'[s] = "asleep", ~done'[cur(s)']
               PROVE  \E t \in Procs : WillLook(t)'
    BY DEF Baton
  <2> DEFINE W == {i \in 1..Len(queue) : Wakeable(i)}
             first == {i \in DOMAIN queue : Wakeable(i) /\ \A j \in 1..(i - 1) : ~Wakeable(j)}
             woken == UNION {Sleeper(queue[i]) : i \in first}
  <2>1. /\ rip' = rip /\ hungup' = hungup /\ done' = done /\ note' = note /\ chain' = chain
        /\ pc[p] = "scan"
        /\ \A t \in Procs : t # p /\ t \in woken => pc'[t] = "woke"
    BY <1>19 DEF mntgateScan
  <2>2. pc[s] = "asleep" /\ ~done[cur(s)]
    BY <1>19, <2>1, ChainSame, ScanEffect
  <2>3. PICK k \in 1..Len(queue) : queue[k] = cur(s)
    <3>1. cur(s) \in ToSet(queue)
      BY <2>2, CurOwn DEF QueuedOK
    <3> QED BY <3>1 DEF ToSet
  <2>4. k \in W
    BY <2>2, <2>3 DEF Wakeable, Sleeper
  <2>5. PICK i \in W : \A j \in W : i <= j
    <3>1. W \in SUBSET Nat
      OBVIOUS
    <3> HIDE DEF W
    <3> QED BY <2>4, <3>1, LeastIndex
  <2>6. i \in first
    <3>1. Len(queue) \in Nat /\ DOMAIN queue = 1..Len(queue)
      OBVIOUS
    <3>2. \A j \in 1..(i - 1) : j \in 1..Len(queue) /\ ~(i <= j)
      BY <2>5, <3>1
    <3> QED BY <2>5, <3>1, <3>2
  <2>7. PICK t \in Procs : pc[t] = "asleep" /\ cur(t) = queue[i] /\ ~done[queue[i]] /\ t \in woken
    <3>1. ~done[queue[i]] /\ Sleeper(queue[i]) # {}
      BY <2>5 DEF Wakeable
    <3>2. PICK t \in Sleeper(queue[i]) : TRUE
      BY <3>1
    <3>3. t \in woken
      BY <2>6, <3>2
    <3> HIDE DEF woken
    <3> QED BY <3>1, <3>2, <3>3 DEF Sleeper
  <2>8. pc'[t] = "woke" /\ ~done'[cur(t)']
    BY <2>1, <2>7, ChainSame
  <2>9. WillLook(t)'
    BY <2>8 DEF WillLook
  <2> QED BY <2>9
<1>20. ASSUME NEW p \in Procs, mntqrm(p) PROVE Baton'
  <2> SUFFICES ASSUME ~hungup', rip' = nil, NEW s \in Procs, pc'[s] = "asleep", ~done'[cur(s)']
               PROVE  \E t \in Procs : WillLook(t)'
    BY DEF Baton
  <2>1. /\ rip' = rip /\ hungup' = hungup /\ note' = note /\ chain' = chain /\ pc' = pc
        /\ done' = [done EXCEPT ![cur(p)] = TRUE] /\ pc[p] = "flushfree"
    BY <1>20 DEF mntqrm
  <2>2. \A q \in Procs : pc[q] # "idle" => cur(q) \in Rpcs /\ (q # p => cur(q) # cur(p))
    BY <2>1, CurOwn
  <2>3. pc[s] = "asleep" /\ ~done[cur(s)]
    BY <2>1, <2>2, ChainSame
  <2>4. PICK t \in Procs : WillLook(t)
    BY <2>1, <2>3 DEF Baton
  <2>5. WillLook(t)'
    BY <2>1, <2>2, <2>4, ChainSame DEF WillLook
  <2> QED BY <2>5
<1>21. ASSUME NEW p \in Procs, mntflushfree(p) PROVE Baton'
  <2> SUFFICES ASSUME ~hungup', rip' = nil, NEW s \in Procs, pc'[s] = "asleep", ~done'[cur(s)']
               PROVE  \E t \in Procs : WillLook(t)'
    BY DEF Baton
  <2>1. /\ rip' = rip /\ hungup' = hungup /\ note' = note /\ done' = done
        /\ pc[p] = "flushfree" /\ (pc' = pc \/ pc' = [pc EXCEPT ![p] = "ret"])
    BY <1>21 DEF mntflushfree, Goto
  <2>2. \A q \in Procs : q # p => cur(q)' = cur(q)
    BY <1>21, <2>1, FreeEffect, ChainSame DEF mntflushfree
  <2>3. s # p /\ pc[s] = "asleep" /\ ~done[cur(s)]
    BY <2>1, <2>2
  <2>4. PICK t \in Procs : WillLook(t)
    BY <2>1, <2>3 DEF Baton
  <2>5. t # p /\ WillLook(t)'
    BY <2>1, <2>2, <2>4 DEF WillLook
  <2> QED BY <2>5
<1>22. ASSUME NEW p \in Procs, mountrpcReturn(p) PROVE Baton'
  <2> SUFFICES ASSUME ~hungup', rip' = nil, NEW s \in Procs, pc'[s] = "asleep", ~done'[cur(s)']
               PROVE  \E t \in Procs : WillLook(t)'
    BY DEF Baton
  <2>1. /\ rip' = rip /\ hungup' = hungup /\ done' = done /\ note' = [note EXCEPT ![p] = FALSE]
        /\ pc[p] = "ret" /\ pc' = [pc EXCEPT ![p] = "idle"] /\ mntfree(p)
    BY <1>22 DEF mountrpcReturn, Goto
  <2>2. \A q \in Procs : q # p => cur(q)' = cur(q)
    BY <2>1, FreeEffect
  <2>3. s # p /\ pc[s] = "asleep" /\ ~done[cur(s)]
    BY <2>1, <2>2
  <2>4. PICK t \in Procs : WillLook(t)
    BY <2>1, <2>3 DEF Baton
  <2>5. t # p /\ WillLook(t)'
    BY <2>1, <2>2, <2>4 DEF WillLook
  <2> QED BY <2>5
<1>23. ASSUME NEW p \in Procs, postnote(p) PROVE Baton'
  <2> SUFFICES ASSUME ~hungup', rip' = nil, NEW s \in Procs, pc'[s] = "asleep", ~done'[cur(s)']
               PROVE  \E t \in Procs : WillLook(t)'
    BY DEF Baton
  <2>1. /\ rip' = rip /\ hungup' = hungup /\ done' = done /\ chain' = chain
        /\ note' = [note EXCEPT ![p] = TRUE]
        /\ (pc' = pc \/ (pc[p] = "asleep" /\ pc' = [pc EXCEPT ![p] = "woke"]))
    BY <1>23 DEF postnote, Goto
  <2>2. pc[s] = "asleep" /\ ~done[cur(s)]
    BY <2>1, ChainSame
  <2>3. PICK t \in Procs : WillLook(t)
    BY <2>1, <2>2 DEF Baton
  <2>4. WillLook(t)'
    BY <2>1, <2>3, ChainSame DEF WillLook
  <2> QED BY <2>4
<1>24. ASSUME NEW i \in DOMAIN srv, serve(i) PROVE Baton'
  BY <1>24, ChainSame DEF serve, WillLook
<1>25. CASE hangup
  BY <1>25 DEF hangup
<1>26. CASE UNCHANGED vars
  BY <1>26, ChainSame DEF vars, WillLook
<1> QED
  BY <1>1, <1>2, <1>3, <1>4, <1>5, <1>6, <1>7, <1>8, <1>9, <1>10, <1>11, <1>12, <1>13, <1>14, <1>15, <1>16, <1>17, <1>18, <1>19, <1>20, <1>21, <1>22, <1>23, <1>24, <1>25, <1>26
  DEF Next, step

-----------------------------------------------------------------------------
(* Initially, and the first invariant. *)

\* A mount point that nobody uses.
LEMMA InitReader == Init => ReaderInv
<1> SUFFICES ASSUME Init PROVE ReaderInv
  OBVIOUS
<1>1. Types
  <2>1. NoReply \in Replies
    BY DEF NoReply, Replies
  <2>2. srv \in Seq(Requests) /\ wire \in Seq(Replies) /\ queue \in Seq(Rpcs)
    BY EmptySeq DEF Init
  <2>3. chain \in [Procs -> Seq(Rpcs)]
    BY EmptySeq DEF Init
  <2> QED BY <2>1, <2>2, <2>3 DEF Init, Types, PCs, Errors
<1>2. TurnOK
  BY NilAssumption DEF Init, TurnOK
<1>3. ListOK
  BY EmptyRange DEF Init, ListOK, ToSet, Range
<1>4. \A p \in Procs : chain[p] = <<>> /\ pc[p] = "idle" /\ Own(p) = {} /\ Distinct(chain[p])
  BY EmptyRange DEF Init, Own, ToSet, Range
<1>5. ChainOK /\ QueuedOK /\ DoneOK /\ Baton /\ ReplyNotSleptThrough
  BY <1>4 DEF ChainOK, QueuedOK, DoneOK, Baton, ReplyNotSleptThrough
<1> QED BY <1>1, <1>2, <1>3, <1>5, TypeParts DEF ReaderInv

\* Every step keeps the first invariant.
LEMMA NextReader == ReaderInv /\ [Next]_vars => ReaderInv'
<1> SUFFICES ASSUME ReaderInv, [Next]_vars PROVE ReaderInv'
  OBVIOUS
<1>1. Types /\ TurnOK /\ ListOK /\ ChainOK /\ QueuedOK /\ DoneOK /\ Baton /\ ReplyNotSleptThrough
  BY TypeParts DEF ReaderInv
<1>2. Types' /\ TurnOK' /\ ListOK'
  BY <1>1, NextTypes, NextTurn, NextList
<1>3. ChainOK' /\ QueuedOK' /\ DoneOK'
  BY <1>1, NextChain, NextQueued, NextDone
<1>4. Baton' /\ ReplyNotSleptThrough'
  BY <1>1, NextBaton, NextSlept
<1> QED BY <1>2, <1>3, <1>4, TypePartsNext DEF ReaderInv

-----------------------------------------------------------------------------
(* Lists of messages. *)

\* A message put at the end.
LEMMA TagsAppend ==
  ASSUME NEW S, NEW s \in Seq(S), NEW m \in S
  PROVE  /\ Tags(Append(s, m)) = Tags(s) \cup {m.tag}
         /\ Unique(s) /\ m.tag \notin Tags(s) => Unique(Append(s, m))
         /\ \A x, y : Before(s, x, y) /\ x # y /\ (m.tag # x \/ y \notin Tags(s))
                        => Before(Append(s, m), x, y)
<1> DEFINE t == Append(s, m)
<1>1. Len(t) = Len(s) + 1 /\ Len(s) \in Nat /\ t[Len(s) + 1] = m
  OBVIOUS
<1>2. \A i \in 1..Len(s) : t[i] = s[i]
  OBVIOUS
<1> HIDE DEF t
<1>3. \A i \in 1..Len(t) : (i \in 1..Len(s) /\ t[i] = s[i]) \/ (i = Len(s) + 1 /\ t[i] = m)
  BY <1>1, <1>2
<1>4. 1..Len(s) \subseteq 1..Len(t) /\ Len(s) + 1 \in 1..Len(t)
  BY <1>1
<1>5. Tags(t) = Tags(s) \cup {m.tag}
  BY <1>1, <1>2, <1>3, <1>4 DEF Tags
<1>6. Unique(s) /\ m.tag \notin Tags(s) => Unique(t)
  BY <1>3 DEF Tags, Unique
<1>7. ASSUME NEW x, NEW y, Before(s, x, y), x # y, m.tag # x \/ y \notin Tags(s),
             NEW i \in 1..Len(t), NEW j \in 1..Len(t), t[i].tag = x, t[j].tag = y
      PROVE  i < j
  <2>1. CASE i = Len(s) + 1
    <3>1. m.tag = x /\ y \notin Tags(s)
      BY <2>1, <1>1, <1>7
    <3>2. j # Len(s) + 1
      BY <3>1, <1>1, <1>7
    <3>3. j \in 1..Len(s) /\ s[j].tag = y
      BY <3>2, <1>3, <1>7
    <3> QED BY <3>1, <3>3 DEF Tags
  <2>2. CASE i # Len(s) + 1 /\ j = Len(s) + 1
    BY <2>2, <1>1
  <2>3. CASE i # Len(s) + 1 /\ j # Len(s) + 1
    BY <2>3, <1>3, <1>7 DEF Before
  <2> QED BY <2>1, <2>2, <2>3
<1>8. \A x, y : Before(s, x, y) /\ x # y /\ (m.tag # x \/ y \notin Tags(s)) => Before(t, x, y)
  BY <1>7 DEF Before
<1> QED BY <1>5, <1>6, <1>8 DEF t

\* A message taken from the front.
LEMMA TagsTail ==
  ASSUME NEW S, NEW s \in Seq(S), s # <<>>, Unique(s)
  PROVE  /\ Head(s) \in S /\ Head(s).tag \in Tags(s) /\ Head(s).tag \notin Tags(Tail(s))
         /\ Tags(Tail(s)) \subseteq Tags(s)
         /\ Tags(s) \subseteq Tags(Tail(s)) \cup {Head(s).tag}
         /\ Unique(Tail(s))
         /\ \A i \in 1..Len(Tail(s)) : \E j \in 1..Len(s) : Tail(s)[i] = s[j]
         /\ \E j \in 1..Len(s) : Head(s) = s[j]
         /\ \A x, y : Before(s, x, y) => Before(Tail(s), x, y)
         /\ \A x : Before(s, x, Head(s).tag) => x \notin Tags(s)
<1> DEFINE t == Tail(s)
<1>1. Len(s) \in Nat /\ 1 <= Len(s) /\ Len(t) = Len(s) - 1 /\ Head(s) = s[1] /\ Head(s) \in S
  OBVIOUS
<1>2. \A i \in 1..(Len(s) - 1) : t[i] = s[i + 1]
  OBVIOUS
<1> HIDE DEF t
<1>3. \A i \in 1..Len(t) : i + 1 \in 1..Len(s) /\ i + 1 # 1 /\ t[i] = s[i + 1]
  BY <1>1, <1>2
<1>4. 1 \in 1..Len(s)
  BY <1>1
<1>5. Head(s).tag \in Tags(s) /\ Head(s).tag \notin Tags(t) /\ Tags(t) \subseteq Tags(s)
  BY SMTT(30), <1>1, <1>3, <1>4 DEF Tags, Unique
<1>6. ASSUME NEW x \in Tags(s), x # Head(s).tag PROVE x \in Tags(t)
  <2>1. PICK j \in 1..Len(s) : x = s[j].tag
    BY DEF Tags
  <2>2. j # 1
    BY <1>1, <1>6, <2>1
  <2>3. j - 1 \in 1..Len(t) /\ t[j - 1] = s[j]
    BY <1>1, <1>2, <2>2
  <2> QED BY <2>1, <2>3 DEF Tags
<1>7. Unique(t)
  <2> SUFFICES ASSUME NEW i \in 1..Len(t), NEW j \in 1..Len(t), t[i].tag = t[j].tag PROVE i = j
    BY DEF Unique
  <2>1. i + 1 = j + 1
    BY <1>3 DEF Unique
  <2> QED BY <2>1
<1>8. ASSUME NEW x, NEW y, Before(s, x, y) PROVE Before(t, x, y)
  <2> SUFFICES ASSUME NEW i \in 1..Len(t), NEW j \in 1..Len(t), t[i].tag = x, t[j].tag = y PROVE i < j
    BY DEF Before
  <2>1. i + 1 < j + 1
    BY <1>3, <1>8 DEF Before
  <2> QED BY <2>1
<1>9. ASSUME NEW x, Before(s, x, Head(s).tag) PROVE x \notin Tags(s)
  <2> SUFFICES ASSUME NEW j \in 1..Len(s), x = s[j].tag PROVE FALSE
    BY DEF Tags
  <2>1. j < 1
    BY <1>1, <1>4, <1>9 DEF Before
  <2> QED BY <2>1
<1> QED BY <1>1, <1>3, <1>4, <1>5, <1>6, <1>7, <1>8, <1>9 DEF t

\* What the server keeps when it answers a message: neither the message nor,
\* if it is a flush, what it flushes.
LEMMA TagsServe ==
  ASSUME Types, Unique(srv), NEW i \in DOMAIN srv, serve(i)
  PROVE  /\ srv \in Seq(Requests) /\ i \in 1..Len(srv)
         /\ srv[i].tag \in Tags(srv) /\ srv[i].tag \in Rpcs
         /\ Tags(srv') \subseteq Tags(srv) /\ srv[i].tag \notin Tags(srv')
         /\ Unique(srv')
         /\ \A x, y : Before(srv, x, y) => Before(srv', x, y)
         /\ \A k \in 1..Len(srv') : \E j \in 1..Len(srv) : srv'[k] = srv[j]
         /\ srv[i].oldtag # nil =>
              /\ srv[i].oldtag \notin Tags(srv')
              /\ \A k \in 1..Len(srv') : Before(srv, srv'[k].tag, srv[i].tag) =>
                   srv'[k].oldtag # srv[i].oldtag
<1>1. /\ srv \in Seq(Requests) /\ i \in 1..Len(srv) /\ srv[i].tag \in Rpcs
      /\ srv' \in Seq(Requests)
  BY ServeEffect
<1>2. PICK f \in [1..Len(srv') -> 1..Len(srv)] :
        /\ \A k \in 1..Len(srv') :
             /\ srv'[k] = srv[f[k]] /\ f[k] # i
             /\ srv[i].oldtag # nil =>
                  /\ srv[f[k]].tag # srv[i].oldtag
                  /\ f[k] < i => srv[f[k]].oldtag # srv[i].oldtag
        /\ \A j, k \in 1..Len(srv') : j < k => f[j] < f[k]
  BY ServeEffect
<1>3. \A k \in 1..Len(srv') : f[k] \in 1..Len(srv) /\ srv'[k] = srv[f[k]] /\ f[k] # i
  BY <1>2
<1>4. srv[i].tag \in Tags(srv) /\ Tags(srv') \subseteq Tags(srv) /\ srv[i].tag \notin Tags(srv')
  <2>1. srv[i].tag \in Tags(srv)
    BY <1>1 DEF Tags
  <2>2. Tags(srv') \subseteq Tags(srv)
    BY <1>3 DEF Tags
  <2>3. \A k \in 1..Len(srv') : srv'[k].tag # srv[i].tag
    BY <1>1, <1>3 DEF Unique
  <2> QED BY <2>1, <2>2, <2>3 DEF Tags
<1>5. \A j, k \in 1..Len(srv') : (f[j] = f[k] => j = k) /\ (f[j] < f[k] => j < k)
  <2> SUFFICES ASSUME NEW j \in 1..Len(srv'), NEW k \in 1..Len(srv')
               PROVE  (f[j] = f[k] => j = k) /\ (f[j] < f[k] => j < k)
    OBVIOUS
  <2>1. f[j] \in Int /\ f[k] \in Int /\ j \in Int /\ k \in Int
    BY <1>3
  <2>2. (j < k => f[j] < f[k]) /\ (k < j => f[k] < f[j])
    BY <1>2
  <2> QED BY <2>1, <2>2
<1>6. Unique(srv')
  BY <1>3, <1>5 DEF Unique
<1>7. \A x, y : Before(srv, x, y) => Before(srv', x, y)
  BY <1>3, <1>5 DEF Before
<1>8. ASSUME srv[i].oldtag # nil PROVE srv[i].oldtag \notin Tags(srv')
  BY <1>2, <1>8 DEF Tags
<1>9. ASSUME srv[i].oldtag # nil, NEW k \in 1..Len(srv'), Before(srv, srv'[k].tag, srv[i].tag)
      PROVE  srv'[k].oldtag # srv[i].oldtag
  <2>1. f[k] < i
    BY <1>1, <1>3, <1>9 DEF Before
  <2> QED BY <2>1, <1>2, <1>9
<1> QED BY <1>1, <1>3, <1>4, <1>6, <1>7, <1>8, <1>9

-----------------------------------------------------------------------------
(* The order of the headers of a call. *)

\* The first header, the current one and those between.
LEMMA EarlierFacts ==
  ASSUME Types, ChainOK, NEW p \in Procs
  PROVE  /\ \A x, y : Earlier(p, x, y) =>
              x \in Own(p) /\ y \in Own(p) /\ x # y /\ y # chain[p][1] /\ x # cur(p)
         /\ \A x \in Own(p) : x # cur(p) => Earlier(p, x, cur(p))
         /\ chain[p] # <<>> => chain[p][1] \in Own(p) /\ chain[p][1] \in Rpcs
         /\ Len(chain[p]) = 1 => cur(p) = chain[p][1]
<1> DEFINE c == chain[p]
           n == Len(c)
<1>1. c \in Seq(Rpcs) /\ n \in Nat /\ DOMAIN c = 1..n /\ Distinct(c)
  BY DEF Types, ChainOK
<1>2. Own(p) = {c[i] : i \in 1..n} /\ cur(p) = c[n]
  BY <1>1 DEF Own, ToSet, cur, Last
<1>3. \A i \in 1..n : c[i] \in Rpcs
  BY <1>1
<1>4. c # <<>> => 1 \in 1..n
  BY <1>1
<1>5. \A x, y : Earlier(p, x, y) <=> \E a, b \in 1..n : a < b /\ c[a] = x /\ c[b] = y
  BY DEF Earlier
<1> HIDE DEF c, n
<1>6. ASSUME NEW x, NEW y, Earlier(p, x, y)
      PROVE  x \in Own(p) /\ y \in Own(p) /\ x # y /\ y # c[1] /\ x # cur(p)
  <2>1. PICK a \in 1..n, b \in 1..n : a < b /\ c[a] = x /\ c[b] = y
    BY <1>5, <1>6
  <2>2. 1 \in 1..n /\ n \in 1..n /\ a # b /\ b # 1 /\ a # n
    BY <1>1, <2>1
  <2>3. n = Len(c)
    BY DEF n
  <2> QED BY <1>1, <1>2, <2>1, <2>2, <2>3 DEF Distinct
<1>7. ASSUME NEW x \in Own(p), x # cur(p) PROVE Earlier(p, x, cur(p))
  <2>1. PICK a \in 1..n : x = c[a]
    BY <1>2
  <2>2. a < n /\ n \in 1..n
    BY <1>1, <1>2, <1>7, <2>1
  <2> QED BY <1>2, <1>5, <2>1, <2>2
<1> QED BY <1>2, <1>3, <1>4, <1>6, <1>7 DEF c, n

\* mntralloc puts the new header after the others of the call.
LEMMA AllocOrder ==
  ASSUME Types, ChainOK, NEW p \in Procs, NEW r \in Rpcs, NEW old, mntralloc(p, r, old)
  PROVE  /\ \A x, y : Earlier(p, x, y)' => Earlier(p, x, y) \/ (x \in Own(p) /\ y = r)
         /\ \A s \in Procs : s # p => \A x, y : Earlier(s, x, y)' => Earlier(s, x, y)
         /\ chain[p] # <<>> => chain'[p][1] = chain[p][1]
         /\ chain[p] = <<>> => chain'[p][1] = r /\ Own(p) = {}
<1> DEFINE c == chain[p]
           n == Len(c)
           d == chain'[p]
<1>1. d = Append(c, r) /\ c \in Seq(Rpcs)
  BY DEF mntralloc, Types
<1>2. n \in Nat /\ DOMAIN c = 1..n /\ Len(d) = n + 1 /\ d[n + 1] = r /\ \A i \in 1..n : d[i] = c[i]
  BY <1>1
<1>3. Own(p) = {c[i] : i \in 1..n} /\ (c # <<>> => 1 \in 1..n) /\ (c = <<>> => n = 0)
  BY <1>1, <1>2 DEF Own, ToSet
<1>4. \A x, y : Earlier(p, x, y) <=> \E a, b \in 1..n : a < b /\ c[a] = x /\ c[b] = y
  BY DEF Earlier
<1>5. \A x, y : Earlier(p, x, y)' <=> \E a, b \in 1..Len(d) : a < b /\ d[a] = x /\ d[b] = y
  BY DEF Earlier
<1>6. \A s \in Procs : s # p => \A x, y : Earlier(s, x, y)' => Earlier(s, x, y)
  BY DEF mntralloc, Types, Earlier
<1> HIDE DEF c, n, d
<1>7. ASSUME NEW x, NEW y, Earlier(p, x, y)' PROVE Earlier(p, x, y) \/ (x \in Own(p) /\ y = r)
  <2>1. PICK a \in 1..Len(d), b \in 1..Len(d) : a < b /\ d[a] = x /\ d[b] = y
    BY <1>5, <1>7
  <2>2. a \in 1..n /\ d[a] = c[a] /\ (b = n + 1 \/ b \in 1..n)
    BY <1>2, <2>1
  <2> QED BY <1>2, <1>3, <1>4, <2>1, <2>2
<1> QED BY <1>2, <1>3, <1>6, <1>7 DEF c, d

\* mntfree leaves the others in their order.
LEMMA FreeOrder ==
  ASSUME Types, ChainOK, NEW p \in Procs, pc[p] # "idle", mntfree(p)
  PROVE  /\ \A s \in Procs : \A x, y : Earlier(s, x, y)' => Earlier(s, x, y)
         /\ chain'[p] # <<>> => chain'[p][1] = chain[p][1] /\ cur(p) # chain[p][1]
<1> DEFINE c == chain[p]
           n == Len(c)
           d == chain'[p]
<1>1. c \in Seq(Rpcs) /\ c # <<>> /\ Distinct(c)
  BY CurOwn
<1>2. d = Front(c) /\ d \in Seq(Rpcs) /\ Len(d) = n - 1 /\ \A i \in 1..(n - 1) : d[i] = c[i]
  <2>1. d = Front(c)
    BY FreeEffect
  <2> QED BY <1>1, <2>1, FrontSet
<1>3. n \in Nat /\ 1 <= n
  BY <1>1
<1>4. d # <<>> => 1 \in 1..(n - 1)
  BY <1>2, <1>3
<1>5. cur(p) = c[n]
  BY <1>1, FrontSet DEF cur
<1>6. \A x, y : Earlier(p, x, y) <=> \E a, b \in 1..n : a < b /\ c[a] = x /\ c[b] = y
  BY DEF Earlier
<1>7. \A x, y : Earlier(p, x, y)' <=> \E a, b \in 1..Len(d) : a < b /\ d[a] = x /\ d[b] = y
  BY DEF Earlier
<1>8. \A s \in Procs : s # p => \A x, y : Earlier(s, x, y)' => Earlier(s, x, y)
  BY DEF mntfree, Types, Earlier
<1> HIDE DEF c, n, d
<1>9. \A i \in 1..Len(d) : i \in 1..n /\ i # n /\ d[i] = c[i]
  BY <1>2, <1>3
<1>10. \A x, y : Earlier(p, x, y)' => Earlier(p, x, y)
  BY <1>6, <1>7, <1>9
<1>11. d # <<>> => d[1] = c[1] /\ c[n] # c[1]
  <2>1. n = Len(c)
    BY DEF n
  <2>2. d # <<>> => 1 \in 1..n /\ n \in 1..n /\ n # 1
    BY <1>3, <1>4
  <2> QED BY <1>1, <1>2, <1>4, <2>1, <2>2 DEF Distinct
<1> QED BY <1>5, <1>8, <1>10, <1>11 DEF c, d

-----------------------------------------------------------------------------
(* The second invariant, by what a step does to messages and headers. *)

\* The order is a matter of the chains.
LEMMA OrderSame ==
  ASSUME chain' = chain
  PROVE  \A s \in Procs : \A x, y : Earlier(s, x, y)' <=> Earlier(s, x, y)
BY DEF Earlier

\* The message in the hands of the one reader.
LEMMA MuxIs ==
  ASSUME TurnOK
  PROVE  /\ \A p \in Procs : pc[p] = "mux" => Mux = {reply[cur(p)].tag}
         /\ (\A p \in Procs : pc[p] # "mux") => Mux = {}
BY DEF TurnOK, Mux

\* The same of the state after a step.
LEMMA MuxWillBe ==
  ASSUME TurnOK'
  PROVE  /\ \A p \in Procs : pc'[p] = "mux" => Mux' = {reply'[cur(p)'].tag}
         /\ (\A p \in Procs : pc'[p] # "mux") => Mux' = {}
BY DEF TurnOK, Mux

\* The reader holds what it held.
LEMMA MuxSame ==
  ASSUME \A s \in Procs : pc'[s] = "mux" <=> pc[s] = "mux",
         \A s \in Procs : pc[s] = "mux" => reply'[cur(s)'] = reply[cur(s)]
  PROVE  Mux' = Mux
BY DEF Mux

\* When the last message of a call is answered, nothing of it is under way.
LEMMA LastDone ==
  ASSUME Types, ListOK, ChainOK, UnderOK, OrderOK,
         NEW p \in Procs, Good(p), pc[p] # "idle", done[cur(p)]
  PROVE  \A x \in Own(p) : x \notin Under
<1>1. cur(p) \notin Under
  BY CurOwn DEF ListOK, UnderOK
<1>2. ASSUME NEW x \in Own(p), x # cur(p) PROVE x \notin Under
  <2>1. Earlier(p, x, cur(p)) /\ x \in Rpcs /\ cur(p) \in Rpcs
    BY <1>2, EarlierFacts, OwnType, CurOwn
  <2> QED BY <2>1 DEF OrderOK
<1> QED BY <1>1, <1>2

\* A step that touches no message and no header, but that it may queue one.
LEMMA QuietStep ==
  ASSUME Types, ListOK, ChainOK, MessageInv,
         UNCHANGED <<done, reply, oldtag, chain, srv, wire, hungup, answered>>,
         ToSet(queue) \subseteq ToSet(queue'),
         \A s \in Procs : pc'[s] = "mux" <=> pc[s] = "mux",
         \A s \in Procs : Good(s)' => Good(s),
         \A s \in Procs : pc'[s] \in {"enqueue", "write"} => pc[s] \in {"enqueue", "write"},
         \A s \in Procs : pc'[s] \in {"flushfree", "ret"} /\ Good(s)' =>
           pc[s] \in {"flushfree", "ret"} \/ (pc[s] # "idle" /\ done[cur(s)])
  PROVE  MessageInv'
<1>1. InUse' = InUse /\ \A s \in Procs : cur(s)' = cur(s) /\ Own(s)' = Own(s)
  BY ChainSame
<1>2. Mux' = Mux
  BY <1>1, MuxSame
<1>3. Under' = Under /\ Tags(srv') = Tags(srv) /\ Tags(wire') = Tags(wire)
  BY <1>2 DEF Under
<1>4. PlaceOK'
  BY <1>2, <1>3 DEF MessageInv, PlaceOK
<1>5. OldtagOK'
  BY <1>1 DEF MessageInv, OldtagOK
<1>6. UnderOK'
  <2>1. ~hungup' => Under' \subseteq InUse'
    BY <1>1, <1>3 DEF MessageInv, UnderOK
  <2> SUFFICES ASSUME NEW s \in Procs, Good(s)'
               PROVE  /\ \A x \in Own(s)' : x \in Under' => x \in ToSet(queue')
                      /\ pc'[s] \in {"enqueue", "write"} => cur(s)' \notin Under' /\ ~done'[cur(s)']
                      /\ pc'[s] \in {"flushfree", "ret"} => \A x \in Own(s)' : x \notin Under'
    BY <2>1 DEF UnderOK
  <2>2. Good(s)
    OBVIOUS
  <2>3. \A x \in Own(s)' : x \in Under' => x \in ToSet(queue')
    BY <1>1, <1>3, <2>2 DEF MessageInv, UnderOK
  <2>4. pc'[s] \in {"enqueue", "write"} => cur(s)' \notin Under' /\ ~done'[cur(s)']
    BY <1>1, <1>3, <2>2 DEF MessageInv, UnderOK
  <2>5. ASSUME pc'[s] \in {"flushfree", "ret"} PROVE \A x \in Own(s) : x \notin Under
    BY <2>2, <2>5, LastDone DEF MessageInv, UnderOK
  <2> QED BY <1>1, <1>3, <2>3, <2>4, <2>5
<1>7. OrderOK'
  BY <1>2, <1>3, OrderSame DEF MessageInv, OrderOK
<1>8. AnswerOK'
  BY <1>1, <1>2, <1>3 DEF MessageInv, AnswerOK
<1> QED BY <1>4, <1>5, <1>6, <1>7, <1>8 DEF MessageInv


\* A header is taken: for a new request, or for a flush of p's first one.
LEMMA AllocStep ==
  ASSUME Types, TurnOK, ListOK, ChainOK, MessageInv,
         NEW p \in Procs, NEW r \in Rpcs, NEW old, mntralloc(p, r, old),
         old = IF chain[p] = <<>> THEN nil ELSE chain[p][1],
         UNCHANGED <<queue, reply, srv, wire, hungup, answered>>,
         pc[p] \in {"idle", "flush"}, pc' = [pc EXCEPT ![p] = "enqueue"],
         \A s \in Procs : s # p => err'[s] = err[s]
  PROVE  MessageInv'
<1>1. /\ cur(p)' = r /\ Own(p)' = Own(p) \cup {r}
      /\ \A s \in Procs : r \notin Own(s)
      /\ \A s \in Procs : s # p => chain'[s] = chain[s] /\ cur(s)' = cur(s) /\ Own(s)' = Own(s)
      /\ InUse' = InUse \cup {r} /\ r \notin InUse
  BY AllocEffect, InUseOwn
<1>2. done' = [done EXCEPT ![r] = FALSE] /\ oldtag' = [oldtag EXCEPT ![r] = old]
  BY DEF mntralloc
<1>3. /\ \A x, y : Earlier(p, x, y)' => Earlier(p, x, y) \/ (x \in Own(p) /\ y = r)
      /\ \A s \in Procs : s # p => \A x, y : Earlier(s, x, y)' => Earlier(s, x, y)
      /\ chain[p] # <<>> => chain'[p][1] = chain[p][1]
      /\ chain[p] = <<>> => chain'[p][1] = r /\ Own(p) = {}
  BY AllocOrder
<1>4. \A s \in Procs : (pc'[s] = "mux" <=> pc[s] = "mux") /\ (pc'[s] = "mux" => s # p)
  BY DEF Types
<1>5. Mux' = Mux
  BY <1>1, <1>4, MuxSame
<1>6. Under' = Under /\ Tags(srv') = Tags(srv) /\ Tags(wire') = Tags(wire)
  BY <1>5 DEF Under
<1>7. ~hungup => r \notin Under
  BY <1>1 DEF MessageInv, UnderOK
<1>8. /\ \A s \in Procs : s # p => pc'[s] = pc[s] /\ (Good(s)' => Good(s))
      /\ pc'[p] = "enqueue" /\ (Good(p)' => ~hungup) /\ (~hungup => Good(p))
  BY DEF Types, Good
<1>9. \A s \in Procs : Own(s) \subseteq Rpcs
  BY OwnType
<1>10. PlaceOK'
  BY <1>5, <1>6 DEF MessageInv, PlaceOK
<1>11. OldtagOK'
  <2>1. ASSUME NEW i \in 1..Len(srv) PROVE srv[i].oldtag = oldtag'[srv[i].tag]
    <3>1. srv \in Seq(Requests) /\ srv # <<>>
      BY DEF Types
    <3>2. srv[i].tag \in Tags(srv) /\ ~hungup
      BY <3>1 DEF Tags, MessageInv, PlaceOK
    <3>3. srv[i].tag # r
      BY <1>7, <3>2 DEF Under
    <3> QED BY <1>2, <3>3 DEF Types, MessageInv, OldtagOK
  <2>2. ASSUME NEW s \in Procs, chain'[s] # <<>>
        PROVE  /\ oldtag'[chain'[s][1]] = nil
               /\ \A x \in Own(s)' : x # chain'[s][1] => oldtag'[x] = chain'[s][1]
    <3>1. chain[s] # <<>> =>
            /\ oldtag[chain[s][1]] = nil
            /\ \A x \in Own(s) : x # chain[s][1] => oldtag[x] = chain[s][1]
      BY DEF MessageInv, OldtagOK
    <3>2. chain[s] # <<>> => chain[s][1] \in Own(s)
      BY EarlierFacts
    <3>3. \A x \in Rpcs : oldtag'[x] = IF x = r THEN old ELSE oldtag[x]
      BY <1>2 DEF Types
    <3>4. CASE s # p
      BY <1>1, <1>9, <2>2, <3>1, <3>2, <3>3, <3>4
    <3>5. CASE s = p /\ chain[p] # <<>>
      BY <1>1, <1>3, <1>9, <3>1, <3>2, <3>3, <3>5
    <3>6. CASE s = p /\ chain[p] = <<>>
      BY <1>1, <1>3, <3>3, <3>6
    <3> QED BY <3>4, <3>5, <3>6
  <2> QED BY <2>1, <2>2 DEF OldtagOK
<1>12. UnderOK'
  BY <1>1, <1>2, <1>6, <1>7, <1>8, <1>9, CurOwn DEF MessageInv, UnderOK, Types
<1>13. OrderOK'
  <2> SUFFICES ASSUME NEW s \in Procs, Good(s)', NEW x \in Rpcs, NEW y \in Rpcs, Earlier(s, x, y)'
               PROVE  /\ Before(srv', x, y) /\ Before(wire', x, y)
                      /\ x \in Under' => ~done'[y]
                      /\ x \in Tags(srv') => y \notin Tags(wire') \cup Mux'
                      /\ x \in Tags(wire') => y \notin Mux'
    BY DEF OrderOK
  <2>1. CASE Earlier(s, x, y)
    <3>1. Good(s) /\ y # r
      BY <1>1, <1>8, <2>1, EarlierFacts
    <3>2. /\ Before(srv, x, y) /\ Before(wire, x, y)
          /\ x \in Under => ~done[y]
          /\ x \in Tags(srv) => y \notin Tags(wire) \cup Mux
          /\ x \in Tags(wire) => y \notin Mux
      BY <2>1, <3>1 DEF MessageInv, OrderOK
    <3>3. done'[y] = done[y]
      BY <1>2, <3>1 DEF Types
    <3> QED BY <1>5, <1>6, <3>2, <3>3
  <2>2. CASE s = p /\ y = r
    <3>1. r \notin Under /\ r \notin Tags(srv) /\ r \notin Tags(wire) /\ r \notin Mux /\ ~done'[r]
      BY <1>2, <1>7, <1>8, <2>2 DEF Under, Types
    <3>2. Before(srv, x, r) /\ Before(wire, x, r)
      BY <3>1 DEF Before, Tags
    <3> QED BY <1>5, <1>6, <2>2, <3>1, <3>2
  <2> QED BY <1>3, <2>1, <2>2
<1>14. AnswerOK'
  <2>1. answered' \subseteq InUse'
    BY <1>1 DEF MessageInv, AnswerOK
  <2> SUFFICES ASSUME NEW s \in Procs, Good(s)', chain'[s] # <<>>, NEW x, x = chain'[s][1]
               PROVE  /\ \A k \in 1..Len(wire') : wire'[k].tag = x => wire'[k].type = "R"
                      /\ \A u \in Procs : pc'[u] = "mux" /\ reply'[cur(u)'].tag = x => reply'[cur(u)'].type = "R"
                      /\ x \in Tags(wire') \cup Mux' => x \in answered'
                      /\ done'[x] /\ reply'[x].type = "R" => reply'[x].tag = x /\ x \in answered'
                      /\ x \in answered' => x \in Tags(wire') \cup Mux' \/ (done'[x] /\ reply'[x].type = "R")
    BY <2>1 DEF AnswerOK
  <2>2. r \notin answered
    BY <1>1 DEF MessageInv, AnswerOK
  <2>3. CASE chain[s] # <<>>
    <3>1. x = chain[s][1] /\ x \in Rpcs /\ x # r /\ Good(s)
      BY <1>1, <1>3, <1>8, <2>3, EarlierFacts
    <3>2. /\ \A k \in 1..Len(wire) : wire[k].tag = x => wire[k].type = "R"
          /\ \A u \in Procs : pc[u] = "mux" /\ reply[cur(u)].tag = x => reply[cur(u)].type = "R"
          /\ x \in Tags(wire) \cup Mux => x \in answered
          /\ done[x] /\ reply[x].type = "R" => reply[x].tag = x /\ x \in answered
          /\ x \in answered => x \in Tags(wire) \cup Mux \/ (done[x] /\ reply[x].type = "R")
      BY <2>3, <3>1 DEF MessageInv, AnswerOK
    <3>3. done'[x] = done[x]
      BY <1>2, <3>1 DEF Types
    <3>4. \A q \in Procs : pc'[q] = "mux" => pc[q] = "mux" /\ reply'[cur(q)'] = reply[cur(q)]
      BY <1>1, <1>4
    <3> QED BY <1>5, <1>6, <3>2, <3>3, <3>4
  <2>4. CASE chain[s] = <<>>
    <3>1. s = p /\ x = r /\ ~done'[r] /\ r \notin Tags(wire) /\ r \notin Mux
      BY <1>1, <1>2, <1>3, <1>7, <1>8, <2>4 DEF Under, Types
    <3>2. \A i \in 1..Len(wire) : wire[i].tag # r
      BY <3>1 DEF Tags
    <3>3. \A q \in Procs : pc[q] = "mux" => reply[cur(q)].tag # r
      BY <3>1 DEF Mux
    <3> QED BY <1>1, <1>4, <1>5, <1>6, <2>2, <3>1, <3>2, <3>3
  <2> QED BY <2>3, <2>4
<1> QED BY <1>10, <1>11, <1>12, <1>13, <1>14 DEF MessageInv

\* A message reaches the server.
LEMMA SendStep ==
  ASSUME Types, TurnOK, ListOK, ChainOK, QueuedOK, MessageInv,
         NEW p \in Procs, pc[p] = "write", ~hungup, transmit(p),
         UNCHANGED <<queue, done, reply, oldtag, chain, wire, hungup, answered>>,
         pc'[p] \in {"gate", "flush"}, \A s \in Procs : s # p => pc'[s] = pc[s]
  PROVE  MessageInv'
<1> DEFINE m == [tag |-> cur(p), oldtag |-> oldtag[cur(p)]]
<1>1. /\ cur(p) \in Own(p) /\ cur(p) \in Rpcs /\ cur(p) \in InUse
      /\ \A q \in Procs : q # p /\ pc[q] # "idle" => cur(p) \notin Own(q)
      /\ \A q \in Procs : q # p => cur(p) \notin Own(q)
  BY CurOwn DEF ChainOK
<1>2. srv' = Append(srv, m) /\ srv \in Seq(Requests) /\ m \in Requests /\ m.tag = cur(p)
  BY <1>1 DEF transmit, Types, Requests
<1>3. InUse' = InUse /\ \A s \in Procs : cur(s)' = cur(s) /\ Own(s)' = Own(s)
  BY ChainSame
<1>4. Mux' = Mux
  BY <1>3, MuxSame
<1>5. \A s \in Procs : Good(s)
  BY DEF Good
<1>6. cur(p) \notin Under /\ ~done[cur(p)] /\ cur(p) \in ToSet(queue)
  BY <1>1, <1>5 DEF MessageInv, UnderOK, QueuedOK
<1>7. cur(p) \notin Tags(srv) /\ cur(p) \notin Tags(wire) /\ cur(p) \notin Mux
  BY <1>6 DEF Under
<1>8. /\ Tags(srv') = Tags(srv) \cup {cur(p)} /\ Tags(wire') = Tags(wire)
      /\ Unique(srv) => Unique(srv')
      /\ \A x, y : Before(srv, x, y) /\ x # y /\ cur(p) # x => Before(srv', x, y)
  <2> HIDE DEF m
  <2> QED BY <1>2, <1>7, TagsAppend
<1>9. Under' = Under \cup {cur(p)}
  BY <1>4, <1>8 DEF Under
<1>10. PlaceOK'
  BY <1>4, <1>7, <1>8 DEF MessageInv, PlaceOK
<1>11. OldtagOK'
  <2>1. ASSUME NEW i \in 1..Len(srv') PROVE srv'[i].oldtag = oldtag[srv'[i].tag]
    <3>1. Len(srv) \in Nat /\ Len(srv') = Len(srv) + 1
      BY <1>2
    <3>2. CASE i = Len(srv) + 1
      BY <1>2, <3>1, <3>2
    <3>3. CASE i \in 1..Len(srv)
      <4>1. srv'[i] = srv[i]
        BY <1>2, <3>3
      <4> QED BY <3>3, <4>1 DEF MessageInv, OldtagOK
    <3> QED BY <3>1, <3>2, <3>3
  <2> QED BY <1>3, <2>1 DEF MessageInv, OldtagOK
<1>12. UnderOK'
  <2>1. ~hungup' => Under' \subseteq InUse'
    BY <1>1, <1>3, <1>9 DEF MessageInv, UnderOK
  <2> SUFFICES ASSUME NEW s \in Procs
               PROVE  /\ \A x \in Own(s)' : x \in Under' => x \in ToSet(queue')
                      /\ pc'[s] \in {"enqueue", "write"} => cur(s)' \notin Under' /\ ~done'[cur(s)']
                      /\ pc'[s] \in {"flushfree", "ret"} => \A x \in Own(s)' : x \notin Under'
    BY <2>1 DEF UnderOK
  <2>2. \A x \in Own(s) : x \in Under => x \in ToSet(queue)
    BY <1>5 DEF MessageInv, UnderOK
  <2>3. s # p => /\ pc'[s] = pc[s]
                 /\ pc[s] \in {"enqueue", "write"} => cur(s) \notin Under /\ ~done[cur(s)] /\ cur(s) # cur(p)
                 /\ pc[s] \in {"flushfree", "ret"} => \A x \in Own(s) : x \notin Under
    BY <1>1, <1>5, CurOwn DEF MessageInv, UnderOK
  <2> QED BY <1>1, <1>3, <1>6, <1>9, <2>2, <2>3
<1>13. OrderOK'
  <2> SUFFICES ASSUME NEW s \in Procs, Good(s)', NEW x \in Rpcs, NEW y \in Rpcs, Earlier(s, x, y)'
               PROVE  /\ Before(srv', x, y) /\ Before(wire', x, y)
                      /\ x \in Under' => ~done'[y]
                      /\ x \in Tags(srv') => y \notin Tags(wire') \cup Mux'
                      /\ x \in Tags(wire') => y \notin Mux'
    BY DEF OrderOK
  <2>1. Earlier(s, x, y) /\ x \in Own(s) /\ x # y /\ x # cur(p)
    BY <1>1, OrderSame, EarlierFacts
  <2>2. /\ Before(srv, x, y) /\ Before(wire, x, y)
        /\ x \in Under => ~done[y]
        /\ x \in Tags(srv) => y \notin Tags(wire) \cup Mux
        /\ x \in Tags(wire) => y \notin Mux
    BY <1>5, <2>1 DEF MessageInv, OrderOK
  <2> QED BY <1>4, <1>8, <1>9, <2>1, <2>2
<1>14. AnswerOK'
  BY <1>3, <1>4, <1>5, <1>8 DEF MessageInv, AnswerOK
<1> QED BY <1>10, <1>11, <1>12, <1>13, <1>14 DEF MessageInv

\* The channel goes away with the server's messages.
LEMMA HangupStep ==
  ASSUME Types, ListOK, ChainOK, MessageInv, hangup
  PROVE  MessageInv'
<1>1. /\ ~hungup /\ hungup' /\ srv' = <<>>
      /\ UNCHANGED <<queue, done, reply, oldtag, chain, pc, err, wire, answered>>
  BY DEF hangup
<1>2. InUse' = InUse /\ \A s \in Procs : cur(s)' = cur(s) /\ Own(s)' = Own(s)
  BY <1>1, ChainSame
<1>3. Mux' = Mux /\ Tags(wire') = Tags(wire)
  BY <1>1, <1>2, MuxSame
<1>4. Tags(srv') = {} /\ Unique(srv') /\ Len(srv') = 0 /\ \A x, y : Before(srv', x, y)
  BY <1>1 DEF Tags, Unique, Before
<1>5. Under' \subseteq Under
  BY <1>3, <1>4 DEF Under
<1>6. \A s \in Procs : Good(s) /\ (Good(s)' => pc[s] \notin {"enqueue", "write"})
  BY <1>1 DEF Good
<1>7. PlaceOK'
  BY <1>1, <1>3, <1>4 DEF MessageInv, PlaceOK
<1>8. OldtagOK'
  BY <1>1, <1>2, <1>4 DEF MessageInv, OldtagOK
<1>9. UnderOK'
  BY <1>1, <1>2, <1>5, <1>6 DEF MessageInv, UnderOK
<1>10. OrderOK'
  BY <1>1, <1>3, <1>4, <1>5, <1>6, OrderSame DEF MessageInv, OrderOK
<1>11. AnswerOK'
  BY <1>1, <1>2, <1>3, <1>6 DEF MessageInv, AnswerOK
<1> QED BY <1>7, <1>8, <1>9, <1>10, <1>11 DEF MessageInv

\* The reader takes a reply off the channel.
LEMMA ReadStep ==
  ASSUME Types, TurnOK, TurnOK', ListOK, ChainOK, DoneOK, MessageInv,
         NEW p \in Procs, mntrpcread(p)
  PROVE  MessageInv'
<1> DEFINE h == Head(wire).tag
<1>1. /\ pc[p] = "read" /\ wire # <<>> /\ wire' = Tail(wire)
      /\ reply' = [reply EXCEPT ![cur(p)] = Head(wire)]
      /\ pc' = [pc EXCEPT ![p] = "mux"]
      /\ UNCHANGED <<queue, done, oldtag, chain, err, srv, hungup, answered>>
  BY DEF mntrpcread, Goto
<1>2. InUse' = InUse /\ \A s \in Procs : cur(s)' = cur(s) /\ Own(s)' = Own(s)
  BY <1>1, ChainSame
<1>3. cur(p) \in Rpcs /\ ~done[cur(p)]
  BY <1>1, CurOwn DEF DoneOK
<1>4. \A s \in Procs : pc[s] # "mux" /\ (s # p => pc'[s] = pc[s] /\ pc'[s] # "mux")
  BY <1>1 DEF TurnOK, Types
<1>5. pc'[p] = "mux" /\ reply'[cur(p)'] = Head(wire)
  BY <1>1, <1>2, <1>3 DEF Types
<1>6. Mux = {} /\ Mux' = {h}
  <2>1. Mux' = {reply'[cur(p)'].tag}
    BY <1>5, MuxWillBe
  <2> QED BY <1>4, <1>5, <2>1, MuxIs
<1>7. /\ Head(wire) \in Replies /\ h \in Tags(wire) /\ h \notin Tags(wire')
      /\ Tags(wire') \subseteq Tags(wire)
      /\ Tags(wire) \subseteq Tags(wire') \cup {h}
      /\ Unique(wire')
      /\ \A i \in 1..Len(wire') : \E j \in 1..Len(wire) : wire'[i] = wire[j]
      /\ \E j \in 1..Len(wire) : Head(wire) = wire[j]
      /\ \A x, y : Before(wire, x, y) => Before(wire', x, y)
      /\ \A x : Before(wire, x, h) => x \notin Tags(wire)
  BY <1>1, TagsTail DEF Types, MessageInv, PlaceOK
<1> HIDE DEF h
<1>8. Tags(srv') = Tags(srv) /\ Under' = Under
  BY <1>1, <1>6, <1>7 DEF Under
<1>9. \A s \in Procs : Good(s)' => Good(s)
  BY <1>1, <1>4 DEF Good
<1>10. PlaceOK'
  BY <1>1, <1>6, <1>7, <1>8 DEF MessageInv, PlaceOK
<1>11. OldtagOK'
  BY <1>1, <1>2 DEF MessageInv, OldtagOK
<1>12. UnderOK'
  BY <1>1, <1>2, <1>4, <1>5, <1>8, <1>9 DEF MessageInv, UnderOK
<1>13. OrderOK'
  <2> SUFFICES ASSUME NEW s \in Procs, Good(s)', NEW x \in Rpcs, NEW y \in Rpcs, Earlier(s, x, y)'
               PROVE  /\ Before(srv', x, y) /\ Before(wire', x, y)
                      /\ x \in Under' => ~done'[y]
                      /\ x \in Tags(srv') => y \notin Tags(wire') \cup Mux'
                      /\ x \in Tags(wire') => y \notin Mux'
    BY DEF OrderOK
  <2>1. Earlier(s, x, y) /\ Good(s)
    BY <1>1, <1>9, OrderSame
  <2>2. /\ Before(srv, x, y) /\ Before(wire, x, y)
        /\ x \in Under => ~done[y]
        /\ x \in Tags(srv) => y \notin Tags(wire) \cup Mux
        /\ x \in Tags(wire) => y \notin Mux
    BY <2>1 DEF MessageInv, OrderOK
  <2>3. x \in Tags(wire') => y # h
    BY <1>7, <2>2
  <2> QED BY <1>1, <1>6, <1>7, <1>8, <2>2, <2>3
<1>14. AnswerOK'
  <2>1. answered' \subseteq InUse'
    BY <1>1, <1>2 DEF MessageInv, AnswerOK
  <2> SUFFICES ASSUME NEW s \in Procs, Good(s)', chain'[s] # <<>>, NEW x, x = chain'[s][1]
               PROVE  /\ \A k \in 1..Len(wire') : wire'[k].tag = x => wire'[k].type = "R"
                      /\ \A u \in Procs : pc'[u] = "mux" /\ reply'[cur(u)'].tag = x => reply'[cur(u)'].type = "R"
                      /\ x \in Tags(wire') \cup Mux' => x \in answered'
                      /\ done'[x] /\ reply'[x].type = "R" => reply'[x].tag = x /\ x \in answered'
                      /\ x \in answered' => x \in Tags(wire') \cup Mux' \/ (done'[x] /\ reply'[x].type = "R")
    BY <2>1 DEF AnswerOK
  <2>2. x = chain[s][1] /\ x \in Rpcs /\ chain[s] # <<>> /\ Good(s)
    BY <1>1, <1>9, EarlierFacts
  <2>3. /\ \A k \in 1..Len(wire) : wire[k].tag = x => wire[k].type = "R"
        /\ \A u \in Procs : pc[u] = "mux" /\ reply[cur(u)].tag = x => reply[cur(u)].type = "R"
        /\ x \in Tags(wire) \cup Mux => x \in answered
        /\ done[x] /\ reply[x].type = "R" => reply[x].tag = x /\ x \in answered
        /\ x \in answered => x \in Tags(wire) \cup Mux \/ (done[x] /\ reply[x].type = "R")
    BY <2>2 DEF MessageInv, AnswerOK
  <2>4. ASSUME NEW i \in 1..Len(wire'), wire'[i].tag = x PROVE wire'[i].type = "R"
    <3>1. PICK j \in 1..Len(wire) : wire'[i] = wire[j]
      BY <1>7
    <3> QED BY <2>3, <2>4, <3>1
  <2>5. Head(wire).tag = x => Head(wire).type = "R"
    <3>1. PICK j \in 1..Len(wire) : Head(wire) = wire[j]
      BY <1>7
    <3>2. wire[j].tag = x => wire[j].type = "R"
      BY <2>3
    <3> QED BY <3>1, <3>2
  <2>6. \A q \in Procs : pc'[q] = "mux" /\ reply'[cur(q)'].tag = x => reply'[cur(q)'].type = "R"
    BY <1>4, <1>5, <2>5
  <2>7. done[x] => reply'[x] = reply[x]
    BY <1>1, <1>3, <2>2 DEF Types
  <2> QED BY <1>1, <1>6, <1>7, <2>3, <2>4, <2>6, <2>7
<1> QED BY <1>10, <1>11, <1>12, <1>13, <1>14 DEF MessageInv

\* The reader completes the request its message answers.
LEMMA MuxStep ==
  ASSUME Types, TurnOK, TurnOK', ListOK, ChainOK, MessageInv,
         NEW p \in Procs, mountmux(p)
  PROVE  MessageInv'
<1> DEFINE q == reply[cur(p)].tag
<1>1. /\ pc[p] = "mux" /\ q \in ToSet(queue)
      /\ reply' = [reply EXCEPT ![q] = reply[cur(p)]]
      /\ done' = [done EXCEPT ![q] = TRUE]
      /\ pc'[p] \in {"muxwake", "mntgate"}
      /\ \A s \in Procs : s # p => pc'[s] = pc[s]
      /\ UNCHANGED <<oldtag, chain, err, srv, wire, hungup, answered>>
  BY DEF mountmux, handover, readMore, Goto, Types
<1>2. ToSet(queue') = ToSet(queue) \ {q}
  BY RemoveFirstSet DEF mountmux, unlink, ListOK, Types
<1>3. InUse' = InUse /\ \A s \in Procs : cur(s)' = cur(s) /\ Own(s)' = Own(s)
  BY <1>1, ChainSame
<1>4. q \in Rpcs
  BY <1>1, OwnType
<1>5. \A s \in Procs : (s # p => pc[s] # "mux") /\ pc'[s] # "mux"
  BY <1>1 DEF TurnOK
<1>6. Mux = {q} /\ Mux' = {}
  BY <1>1, <1>5, MuxIs, MuxWillBe
<1> HIDE DEF q
<1>7. q \notin Tags(srv) /\ q \notin Tags(wire) /\ q \in Under
  BY <1>6 DEF MessageInv, PlaceOK, Under
<1>8. Tags(srv') = Tags(srv) /\ Tags(wire') = Tags(wire) /\ Under' = Under \ {q}
  BY <1>1, <1>6, <1>7 DEF Under
<1>9. \A s \in Procs : Good(s)' => Good(s)
  BY <1>1 DEF Good
<1>10. PlaceOK'
  BY <1>1, <1>6, <1>8 DEF MessageInv, PlaceOK
<1>11. OldtagOK'
  BY <1>1, <1>3 DEF MessageInv, OldtagOK
<1>12. UnderOK'
  <2>1. ~hungup' => Under' \subseteq InUse'
    BY <1>1, <1>3, <1>8 DEF MessageInv, UnderOK
  <2> SUFFICES ASSUME NEW s \in Procs, Good(s)'
               PROVE  /\ \A x \in Own(s)' : x \in Under' => x \in ToSet(queue')
                      /\ pc'[s] \in {"enqueue", "write"} => cur(s)' \notin Under' /\ ~done'[cur(s)']
                      /\ pc'[s] \in {"flushfree", "ret"} => \A x \in Own(s)' : x \notin Under'
    BY <2>1 DEF UnderOK
  <2>2. /\ \A x \in Own(s) : x \in Under => x \in ToSet(queue)
        /\ pc[s] \in {"enqueue", "write"} => cur(s) \notin Under /\ ~done[cur(s)]
        /\ pc[s] \in {"flushfree", "ret"} => \A x \in Own(s) : x \notin Under
    BY <1>9 DEF MessageInv, UnderOK
  <2>3. pc'[s] \in {"enqueue", "write", "flushfree", "ret"} => pc'[s] = pc[s]
    BY <1>1
  <2>4. pc'[s] \in {"enqueue", "write"} => cur(s) # q /\ cur(s) \in Rpcs
    BY <1>7, <2>2, <2>3, CurOwn
  <2> QED BY <1>1, <1>2, <1>3, <1>8, <2>2, <2>3, <2>4 DEF Types
<1>13. OrderOK'
  <2> SUFFICES ASSUME NEW s \in Procs, Good(s)', NEW x \in Rpcs, NEW y \in Rpcs, Earlier(s, x, y)'
               PROVE  /\ Before(srv', x, y) /\ Before(wire', x, y)
                      /\ x \in Under' => ~done'[y]
                      /\ x \in Tags(srv') => y \notin Tags(wire') \cup Mux'
                      /\ x \in Tags(wire') => y \notin Mux'
    BY DEF OrderOK
  <2>1. Earlier(s, x, y) /\ Good(s)
    BY <1>1, <1>9, OrderSame
  <2>2. /\ Before(srv, x, y) /\ Before(wire, x, y)
        /\ x \in Under => ~done[y]
        /\ x \in Tags(srv) => y \notin Tags(wire) \cup Mux
        /\ x \in Tags(wire) => y \notin Mux
    BY <2>1 DEF MessageInv, OrderOK
  <2>3. x \in Under' => x \in Under /\ y # q
    BY <1>6, <1>8, <2>2 DEF Under
  <2>4. y # q => done'[y] = done[y]
    BY <1>1 DEF Types
  <2> QED BY <1>1, <1>6, <1>8, <2>2, <2>3, <2>4
<1>14. AnswerOK'
  <2>1. answered' \subseteq InUse'
    BY <1>1, <1>3 DEF MessageInv, AnswerOK
  <2> SUFFICES ASSUME NEW s \in Procs, Good(s)', chain'[s] # <<>>, NEW x, x = chain'[s][1]
               PROVE  /\ \A k \in 1..Len(wire') : wire'[k].tag = x => wire'[k].type = "R"
                      /\ \A u \in Procs : pc'[u] = "mux" /\ reply'[cur(u)'].tag = x => reply'[cur(u)'].type = "R"
                      /\ x \in Tags(wire') \cup Mux' => x \in answered'
                      /\ done'[x] /\ reply'[x].type = "R" => reply'[x].tag = x /\ x \in answered'
                      /\ x \in answered' => x \in Tags(wire') \cup Mux' \/ (done'[x] /\ reply'[x].type = "R")
    BY <2>1 DEF AnswerOK
  <2>2. x = chain[s][1] /\ x \in Rpcs /\ chain[s] # <<>> /\ Good(s)
    BY <1>1, <1>9, EarlierFacts
  <2>3. /\ \A k \in 1..Len(wire) : wire[k].tag = x => wire[k].type = "R"
        /\ \A u \in Procs : pc[u] = "mux" /\ reply[cur(u)].tag = x => reply[cur(u)].type = "R"
        /\ x \in Tags(wire) \cup Mux => x \in answered
        /\ done[x] /\ reply[x].type = "R" => reply[x].tag = x /\ x \in answered
        /\ x \in answered => x \in Tags(wire) \cup Mux \/ (done[x] /\ reply[x].type = "R")
    BY <2>2 DEF MessageInv, AnswerOK
  <2>4. CASE x = q
    <3>1. reply'[x] = reply[cur(p)] /\ done'[x] /\ reply[cur(p)].tag = x
      BY <1>1, <1>4, <2>4 DEF Types, q
    <3>2. reply[cur(p)].type = "R" /\ x \in answered
      BY <1>1, <1>6, <2>3, <2>4, <3>1
    <3> QED BY <1>1, <1>5, <1>6, <1>8, <2>3, <3>1, <3>2
  <2>5. CASE x # q
    <3>1. reply'[x] = reply[x] /\ done'[x] = done[x]
      BY <1>1, <2>2, <2>5 DEF Types
    <3> QED BY <1>1, <1>5, <1>6, <1>8, <2>3, <2>5, <3>1
  <2> QED BY <2>4, <2>5
<1> QED BY <1>10, <1>11, <1>12, <1>13, <1>14 DEF MessageInv

\* A message whose request is not queued is dropped: it was nobody's who
\* still waits for an answer.
LEMMA DropStep ==
  ASSUME Types, TurnOK, TurnOK', ListOK, ChainOK, MessageInv,
         NEW p \in Procs, mountmuxUnexpected(p)
  PROVE  MessageInv'
<1> DEFINE q == reply[cur(p)].tag
<1>1. /\ pc[p] = "mux" /\ q \notin ToSet(queue)
      /\ pc'[p] \in {"read", "mntgate"}
      /\ \A s \in Procs : s # p => pc'[s] = pc[s]
      /\ UNCHANGED <<queue, done, reply, oldtag, chain, err, srv, wire, hungup, answered>>
  BY DEF mountmuxUnexpected, readMore, Goto, local, Types
<1>2. InUse' = InUse /\ \A s \in Procs : cur(s)' = cur(s) /\ Own(s)' = Own(s)
  BY <1>1, ChainSame
<1>3. \A s \in Procs : (s # p => pc[s] # "mux") /\ pc'[s] # "mux"
  BY <1>1 DEF TurnOK
<1>4. Mux = {q} /\ Mux' = {}
  BY <1>1, <1>3, MuxIs, MuxWillBe
<1> HIDE DEF q
<1>5. Tags(srv') = Tags(srv) /\ Tags(wire') = Tags(wire) /\ Under' \subseteq Under /\ q \in Under
  BY <1>1, <1>4 DEF Under
<1>6. \A s \in Procs : Good(s)' => Good(s)
  BY <1>1 DEF Good
<1>7. PlaceOK'
  BY <1>1, <1>4, <1>5 DEF MessageInv, PlaceOK
<1>8. OldtagOK'
  BY <1>1, <1>2 DEF MessageInv, OldtagOK
<1>9. UnderOK'
  BY <1>1, <1>2, <1>5, <1>6 DEF MessageInv, UnderOK
<1>10. OrderOK'
  BY <1>1, <1>4, <1>5, <1>6, OrderSame DEF MessageInv, OrderOK
<1>11. AnswerOK'
  <2>1. answered' \subseteq InUse'
    BY <1>1, <1>2 DEF MessageInv, AnswerOK
  <2> SUFFICES ASSUME NEW s \in Procs, Good(s)', chain'[s] # <<>>, NEW x, x = chain'[s][1]
               PROVE  /\ \A k \in 1..Len(wire') : wire'[k].tag = x => wire'[k].type = "R"
                      /\ \A u \in Procs : pc'[u] = "mux" /\ reply'[cur(u)'].tag = x => reply'[cur(u)'].type = "R"
                      /\ x \in Tags(wire') \cup Mux' => x \in answered'
                      /\ done'[x] /\ reply'[x].type = "R" => reply'[x].tag = x /\ x \in answered'
                      /\ x \in answered' => x \in Tags(wire') \cup Mux' \/ (done'[x] /\ reply'[x].type = "R")
    BY <2>1 DEF AnswerOK
  <2>2. x = chain[s][1] /\ x \in Own(s) /\ chain[s] # <<>> /\ Good(s)
    BY <1>1, <1>6, EarlierFacts
  <2>3. /\ \A k \in 1..Len(wire) : wire[k].tag = x => wire[k].type = "R"
        /\ \A u \in Procs : pc[u] = "mux" /\ reply[cur(u)].tag = x => reply[cur(u)].type = "R"
        /\ x \in Tags(wire) \cup Mux => x \in answered
        /\ done[x] /\ reply[x].type = "R" => reply[x].tag = x /\ x \in answered
        /\ x \in answered => x \in Tags(wire) \cup Mux \/ (done[x] /\ reply[x].type = "R")
    BY <2>2 DEF MessageInv, AnswerOK
  <2>4. x # q
    BY <1>1, <1>5, <2>2 DEF MessageInv, UnderOK
  <2> QED BY <1>1, <1>3, <1>4, <1>5, <2>3, <2>4
<1> QED BY <1>7, <1>8, <1>9, <1>10, <1>11 DEF MessageInv

\* A header of a call that is over is completed without an answer.
LEMMA QrmStep ==
  ASSUME Types, TurnOK, ListOK, ChainOK, MessageInv, NEW p \in Procs, mntqrm(p)
  PROVE  MessageInv'
<1> DEFINE c == cur(p)
<1>1. /\ pc[p] = "flushfree" /\ ~done[c] /\ pc' = pc
      /\ reply' = [reply EXCEPT ![c].type = "Rflush"]
      /\ done' = [done EXCEPT ![c] = TRUE]
      /\ UNCHANGED <<oldtag, chain, err, srv, wire, hungup, answered>>
  BY DEF mntqrm
<1>2. ToSet(queue') = ToSet(queue) \ {c}
  BY RemoveFirstSet DEF mntqrm, unlink, ListOK, Types
<1>3. InUse' = InUse /\ \A s \in Procs : cur(s)' = cur(s) /\ Own(s)' = Own(s)
  BY <1>1, ChainSame
<1>4. c \in Rpcs /\ c \in Own(p) /\ \A s \in Procs : s # p => c \notin Own(s)
  BY <1>1, CurOwn DEF ChainOK
<1>5. \A s \in Procs : s # p /\ pc[s] # "idle" => cur(s) # c /\ cur(s) \in Rpcs
  BY <1>4, CurOwn
<1> HIDE DEF c
<1>6. \A x \in Rpcs : x # c => reply'[x] = reply[x] /\ done'[x] = done[x]
  BY <1>1 DEF Types
<1>7. done'[c] /\ reply'[c].type = "Rflush"
  <2>1. reply[c] \in Replies
    BY <1>4 DEF Types
  <2>2. reply'[c] = [reply[c] EXCEPT !.type = "Rflush"]
    BY <1>1, <1>4 DEF Types
  <2>3. done'[c]
    BY <1>1, <1>4 DEF Types
  <2> QED BY <2>1, <2>2, <2>3 DEF Replies
<1>8. Mux' = Mux
  <2>1. \A s \in Procs : pc[s] = "mux" => reply'[cur(s)'] = reply[cur(s)]
    BY <1>1, <1>3, <1>5, <1>6
  <2> QED BY <1>1, <2>1, MuxSame
<1>9. Tags(srv') = Tags(srv) /\ Tags(wire') = Tags(wire) /\ Under' = Under
  BY <1>1, <1>8 DEF Under
<1>10. \A s \in Procs : Good(s)' => Good(s)
  BY <1>1 DEF Good
<1>11. Good(p) => \A x \in Own(p) : x \notin Under
  BY <1>1 DEF MessageInv, UnderOK
<1>12. PlaceOK'
  BY <1>1, <1>8, <1>9 DEF MessageInv, PlaceOK
<1>13. OldtagOK'
  BY <1>1, <1>3 DEF MessageInv, OldtagOK
<1>14. UnderOK'
  <2>1. ~hungup' => Under' \subseteq InUse'
    BY <1>1, <1>3, <1>9 DEF MessageInv, UnderOK
  <2> SUFFICES ASSUME NEW s \in Procs, Good(s)'
               PROVE  /\ \A x \in Own(s)' : x \in Under' => x \in ToSet(queue')
                      /\ pc'[s] \in {"enqueue", "write"} => cur(s)' \notin Under' /\ ~done'[cur(s)']
                      /\ pc'[s] \in {"flushfree", "ret"} => \A x \in Own(s)' : x \notin Under'
    BY <2>1 DEF UnderOK
  <2>2. /\ \A x \in Own(s) : x \in Under => x \in ToSet(queue)
        /\ pc[s] \in {"enqueue", "write"} => cur(s) \notin Under /\ ~done[cur(s)]
        /\ pc[s] \in {"flushfree", "ret"} => \A x \in Own(s) : x \notin Under
    BY <1>10 DEF MessageInv, UnderOK
  <2>3. \A x \in Own(s) : x \in Under => x # c
    BY <1>4, <1>10, <1>11
  <2>4. pc[s] \in {"enqueue", "write"} => s # p
    BY <1>1
  <2> QED BY <1>1, <1>2, <1>3, <1>5, <1>6, <1>9, <2>2, <2>3, <2>4
<1>15. OrderOK'
  <2> SUFFICES ASSUME NEW s \in Procs, Good(s)', NEW x \in Rpcs, NEW y \in Rpcs, Earlier(s, x, y)'
               PROVE  /\ Before(srv', x, y) /\ Before(wire', x, y)
                      /\ x \in Under' => ~done'[y]
                      /\ x \in Tags(srv') => y \notin Tags(wire') \cup Mux'
                      /\ x \in Tags(wire') => y \notin Mux'
    BY DEF OrderOK
  <2>1. Earlier(s, x, y) /\ Good(s) /\ x \in Own(s) /\ y \in Own(s)
    BY <1>1, <1>10, OrderSame, EarlierFacts
  <2>2. /\ Before(srv, x, y) /\ Before(wire, x, y)
        /\ x \in Under => ~done[y]
        /\ x \in Tags(srv) => y \notin Tags(wire) \cup Mux
        /\ x \in Tags(wire) => y \notin Mux
    BY <2>1 DEF MessageInv, OrderOK
  <2>3. x \in Under => y # c
    BY <1>4, <1>11, <2>1
  <2> QED BY <1>1, <1>6, <1>8, <1>9, <2>2, <2>3
<1>16. AnswerOK'
  <2>1. answered' \subseteq InUse'
    BY <1>1, <1>3 DEF MessageInv, AnswerOK
  <2> SUFFICES ASSUME NEW s \in Procs, Good(s)', chain'[s] # <<>>, NEW x, x = chain'[s][1]
               PROVE  /\ \A k \in 1..Len(wire') : wire'[k].tag = x => wire'[k].type = "R"
                      /\ \A u \in Procs : pc'[u] = "mux" /\ reply'[cur(u)'].tag = x => reply'[cur(u)'].type = "R"
                      /\ x \in Tags(wire') \cup Mux' => x \in answered'
                      /\ done'[x] /\ reply'[x].type = "R" => reply'[x].tag = x /\ x \in answered'
                      /\ x \in answered' => x \in Tags(wire') \cup Mux' \/ (done'[x] /\ reply'[x].type = "R")
    BY <2>1 DEF AnswerOK
  <2>2. x = chain[s][1] /\ x \in Own(s) /\ x \in Rpcs /\ chain[s] # <<>> /\ Good(s)
    BY <1>1, <1>10, EarlierFacts
  <2>3. /\ \A k \in 1..Len(wire) : wire[k].tag = x => wire[k].type = "R"
        /\ \A u \in Procs : pc[u] = "mux" /\ reply[cur(u)].tag = x => reply[cur(u)].type = "R"
        /\ x \in Tags(wire) \cup Mux => x \in answered
        /\ done[x] /\ reply[x].type = "R" => reply[x].tag = x /\ x \in answered
        /\ x \in answered => x \in Tags(wire) \cup Mux \/ (done[x] /\ reply[x].type = "R")
    BY <2>2 DEF MessageInv, AnswerOK
  <2>4. \A q \in Procs : pc'[q] = "mux" => pc[q] = "mux" /\ reply'[cur(q)'] = reply[cur(q)]
    BY <1>1, <1>3, <1>5, <1>6
  <2>5. CASE x = c
    <3>1. s = p /\ x \notin Under /\ x \notin answered
      BY <1>1, <1>4, <1>11, <2>2, <2>3, <2>5 DEF Under
    <3> QED BY <1>1, <1>7, <1>8, <1>9, <2>3, <2>4, <2>5, <3>1
  <2>6. CASE x # c
    <3>1. reply'[x] = reply[x] /\ done'[x] = done[x]
      BY <1>6, <2>2, <2>6
    <3>2. \A q \in Procs : pc'[q] = "mux" /\ reply'[cur(q)'].tag = x => reply'[cur(q)'].type = "R"
      BY <2>3, <2>4
    <3>3. /\ \A i \in 1..Len(wire') : wire'[i].tag = x => wire'[i].type = "R"
          /\ x \in Tags(wire') \cup Mux' => x \in answered'
      BY <1>1, <1>8, <1>9, <2>3
    <3>4. /\ done'[x] /\ reply'[x].type = "R" => reply'[x].tag = x /\ x \in answered'
          /\ x \in answered' => x \in Tags(wire') \cup Mux' \/ (done'[x] /\ reply'[x].type = "R")
      BY <1>1, <1>8, <1>9, <2>3, <3>1
    <3> QED BY <3>2, <3>3, <3>4
  <2> QED BY <2>5, <2>6
<1> QED BY <1>12, <1>13, <1>14, <1>15, <1>16 DEF MessageInv

\* A header of a call that is over is freed.
LEMMA FreeStep ==
  ASSUME Types, TurnOK, ListOK, ChainOK, MessageInv,
         NEW p \in Procs, pc[p] \in {"flushfree", "ret"}, mntfree(p),
         UNCHANGED <<queue, done, srv, wire, hungup>>,
         \A s \in Procs : s # p => pc'[s] = pc[s] /\ err'[s] = err[s],
         \/ pc'[p] = pc[p] /\ err'[p] = err[p]
         \/ pc'[p] = "idle" /\ chain'[p] = <<>>
  PROVE  MessageInv'
<1> DEFINE c == cur(p)
<1>1. /\ reply' = [reply EXCEPT ![c] = NoReply] /\ oldtag' = [oldtag EXCEPT ![c] = nil]
      /\ answered' = answered \ {c}
  BY DEF mntfree
<1>2. c \in Rpcs /\ c \in Own(p) /\ \A s \in Procs : s # p => c \notin Own(s)
  BY CurOwn DEF ChainOK
<1>3. \A s \in Procs : s # p /\ pc[s] # "idle" => cur(s) # c /\ cur(s) \in Rpcs
  BY <1>2, CurOwn
<1>4. /\ Own(p)' = Own(p) \ {c} /\ InUse' = InUse \ {c}
      /\ \A s \in Procs : s # p => chain'[s] = chain[s] /\ cur(s)' = cur(s) /\ Own(s)' = Own(s)
  BY FreeEffect
<1>5. /\ \A s \in Procs : \A x, y : Earlier(s, x, y)' => Earlier(s, x, y)
      /\ chain'[p] # <<>> => chain'[p][1] = chain[p][1] /\ c # chain[p][1]
  BY FreeOrder
<1>6. chain[p] # <<>> /\ (chain'[p] = <<>> => Own(p)' = {})
  BY CurOwn DEF Own, ToSet
<1> HIDE DEF c
<1>7. \A x \in Rpcs : x # c => reply'[x] = reply[x] /\ oldtag'[x] = oldtag[x]
  BY <1>1 DEF Types
<1>8. \A s \in Procs : (pc'[s] = "mux" <=> pc[s] = "mux") /\ (pc[s] = "mux" => s # p)
  OBVIOUS
<1>9. \A s \in Procs : pc[s] = "mux" => reply'[cur(s)'] = reply[cur(s)]
  BY <1>3, <1>4, <1>7, <1>8
<1>10. Mux' = Mux
  BY <1>8, <1>9, MuxSame
<1>11. Tags(srv') = Tags(srv) /\ Tags(wire') = Tags(wire) /\ Under' = Under
  BY <1>10 DEF Under
<1>12. \A s \in Procs : Good(s)' /\ chain'[s] # <<>> => Good(s)
  BY DEF Good
<1>13. /\ Good(p) => \A x \in Own(p) : x \notin Under
       /\ ~hungup => c \notin Under
  BY <1>2 DEF MessageInv, UnderOK, Good
<1>14. PlaceOK'
  BY <1>10, <1>11 DEF MessageInv, PlaceOK
<1>15. OldtagOK'
  <2>1. ASSUME NEW i \in 1..Len(srv) PROVE srv[i].oldtag = oldtag'[srv[i].tag]
    <3>1. srv \in Seq(Requests) /\ srv # <<>> /\ srv[i] \in Requests
      BY DEF Types
    <3>2. srv[i].tag \in Tags(srv) /\ ~hungup
      BY <3>1 DEF Tags, MessageInv, PlaceOK
    <3>3. srv[i].tag # c /\ srv[i].tag \in Rpcs
      BY <1>13, <3>1, <3>2 DEF Under, Requests
    <3> QED BY <1>7, <3>3 DEF MessageInv, OldtagOK
  <2>2. ASSUME NEW s \in Procs, chain'[s] # <<>>
        PROVE  /\ oldtag'[chain'[s][1]] = nil
               /\ \A x \in Own(s)' : x # chain'[s][1] => oldtag'[x] = chain'[s][1]
    <3>1. chain[s] # <<>> /\ chain'[s][1] = chain[s][1]
      BY <1>4, <1>5, <1>6, <2>2
    <3>2. /\ oldtag[chain[s][1]] = nil
          /\ \A x \in Own(s) : x # chain[s][1] => oldtag[x] = chain[s][1]
      BY <3>1 DEF MessageInv, OldtagOK
    <3>3. chain[s][1] \in Own(s) /\ chain[s][1] # c /\ \A x \in Own(s)' : x \in Own(s) /\ x # c
      BY <1>2, <1>4, <1>5, <2>2, <3>1, EarlierFacts
    <3> QED BY <1>7, <3>1, <3>2, <3>3, OwnType
  <2> QED BY <2>1, <2>2 DEF OldtagOK
<1>16. UnderOK'
  <2>1. ~hungup' => Under' \subseteq InUse'
    BY <1>4, <1>11, <1>13 DEF MessageInv, UnderOK
  <2> SUFFICES ASSUME NEW s \in Procs, Good(s)'
               PROVE  /\ \A x \in Own(s)' : x \in Under' => x \in ToSet(queue')
                      /\ pc'[s] \in {"enqueue", "write"} => cur(s)' \notin Under' /\ ~done'[cur(s)']
                      /\ pc'[s] \in {"flushfree", "ret"} => \A x \in Own(s)' : x \notin Under'
    BY <2>1 DEF UnderOK
  <2>2. CASE s # p
    <3>1. Good(s) /\ pc'[s] = pc[s]
      BY <2>2 DEF Good
    <3> QED BY <1>4, <1>11, <2>2, <3>1 DEF MessageInv, UnderOK
  <2>3. CASE s = p
    <3>1. \A x \in Own(p)' : x \notin Under
      BY <1>4, <1>6, <1>12, <1>13, <2>3
    <3> QED BY <1>11, <2>3, <3>1
  <2> QED BY <2>2, <2>3
<1>17. OrderOK'
  <2> SUFFICES ASSUME NEW s \in Procs, Good(s)', NEW x \in Rpcs, NEW y \in Rpcs, Earlier(s, x, y)'
               PROVE  /\ Before(srv', x, y) /\ Before(wire', x, y)
                      /\ x \in Under' => ~done'[y]
                      /\ x \in Tags(srv') => y \notin Tags(wire') \cup Mux'
                      /\ x \in Tags(wire') => y \notin Mux'
    BY DEF OrderOK
  <2>1. chain'[s] # <<>> /\ Earlier(s, x, y)
    BY <1>5 DEF Earlier
  <2>2. /\ Before(srv, x, y) /\ Before(wire, x, y)
        /\ x \in Under => ~done[y]
        /\ x \in Tags(srv) => y \notin Tags(wire) \cup Mux
        /\ x \in Tags(wire) => y \notin Mux
    BY <1>12, <2>1 DEF MessageInv, OrderOK
  <2> QED BY <1>10, <1>11, <2>2
<1>18. AnswerOK'
  <2>1. answered' \subseteq InUse'
    BY <1>1, <1>4 DEF MessageInv, AnswerOK
  <2> SUFFICES ASSUME NEW s \in Procs, Good(s)', chain'[s] # <<>>, NEW x, x = chain'[s][1]
               PROVE  /\ \A k \in 1..Len(wire') : wire'[k].tag = x => wire'[k].type = "R"
                      /\ \A u \in Procs : pc'[u] = "mux" /\ reply'[cur(u)'].tag = x => reply'[cur(u)'].type = "R"
                      /\ x \in Tags(wire') \cup Mux' => x \in answered'
                      /\ done'[x] /\ reply'[x].type = "R" => reply'[x].tag = x /\ x \in answered'
                      /\ x \in answered' => x \in Tags(wire') \cup Mux' \/ (done'[x] /\ reply'[x].type = "R")
    BY <2>1 DEF AnswerOK
  <2>2. x = chain[s][1] /\ x # c /\ x \in Rpcs /\ chain[s] # <<>> /\ Good(s)
    BY <1>2, <1>4, <1>5, <1>6, <1>12, EarlierFacts
  <2>3. /\ \A k \in 1..Len(wire) : wire[k].tag = x => wire[k].type = "R"
        /\ \A u \in Procs : pc[u] = "mux" /\ reply[cur(u)].tag = x => reply[cur(u)].type = "R"
        /\ x \in Tags(wire) \cup Mux => x \in answered
        /\ done[x] /\ reply[x].type = "R" => reply[x].tag = x /\ x \in answered
        /\ x \in answered => x \in Tags(wire) \cup Mux \/ (done[x] /\ reply[x].type = "R")
    BY <2>2 DEF MessageInv, AnswerOK
  <2> QED BY <1>1, <1>7, <1>8, <1>9, <1>10, <1>11, <2>2, <2>3
<1> QED BY <1>14, <1>15, <1>16, <1>17, <1>18 DEF MessageInv

\* The server answers a message, and drops those a flush supersedes.
LEMMA ServeStep ==
  ASSUME Types, TurnOK, ListOK, ChainOK, MessageInv, NEW i \in DOMAIN srv, serve(i)
  PROVE  MessageInv'
<1> DEFINE t == srv[i].tag
           m == [tag |-> t, type |-> IF srv[i].oldtag = nil THEN "R" ELSE "Rflush"]
<1>1. /\ wire' = Append(wire, m)
      /\ answered' = IF srv[i].oldtag = nil THEN answered \cup {t} ELSE answered
      /\ UNCHANGED <<queue, done, reply, oldtag, chain, pc, err, hungup>>
  BY DEF serve
<1>2. Unique(srv)
  BY DEF MessageInv, PlaceOK
<1>3. /\ srv \in Seq(Requests) /\ i \in 1..Len(srv)
      /\ t \in Tags(srv) /\ t \in Rpcs
      /\ Tags(srv') \subseteq Tags(srv) /\ t \notin Tags(srv')
      /\ Unique(srv')
      /\ \A x, y : Before(srv, x, y) => Before(srv', x, y)
      /\ \A k \in 1..Len(srv') : \E j \in 1..Len(srv) : srv'[k] = srv[j]
      /\ srv[i].oldtag # nil =>
           /\ srv[i].oldtag \notin Tags(srv')
           /\ \A k \in 1..Len(srv') : Before(srv, srv'[k].tag, t) => srv'[k].oldtag # srv[i].oldtag
  BY <1>2, TagsServe
<1>4. ~hungup /\ \A s \in Procs : Good(s)
  <2>1. srv # <<>>
    BY <1>3
  <2> QED BY <2>1 DEF MessageInv, PlaceOK, Good
<1>5. srv[i].oldtag = oldtag[t]
  BY <1>3 DEF MessageInv, OldtagOK
<1>6. InUse' = InUse /\ \A s \in Procs : cur(s)' = cur(s) /\ Own(s)' = Own(s)
  BY <1>1, ChainSame
<1>7. Mux' = Mux
  BY <1>1, <1>6, MuxSame
<1>8. t \in Under /\ t \notin Tags(wire) /\ t \notin Mux
  BY <1>3 DEF MessageInv, PlaceOK, Under
<1>9. /\ Tags(wire') = Tags(wire) \cup {t} /\ Unique(wire')
      /\ \A x, y : Before(wire, x, y) /\ x # y /\ (t # x \/ y \notin Tags(wire)) => Before(wire', x, y)
  <2>1. wire \in Seq(Replies) /\ m \in Replies /\ m.tag = t
    BY <1>3 DEF Types, Replies
  <2>2. Unique(wire)
    BY DEF MessageInv, PlaceOK
  <2> HIDE DEF m, t
  <2> QED BY <1>1, <1>8, <2>1, <2>2, TagsAppend
<1>10. \A k \in 1..Len(wire') : wire'[k] = m \/ \E j \in 1..Len(wire) : wire'[k] = wire[j]
  <2>1. wire \in Seq(Replies) /\ Len(wire) \in Nat
    BY DEF Types
  <2> HIDE DEF m
  <2> SUFFICES ASSUME NEW k \in 1..Len(wire')
               PROVE  wire'[k] = m \/ \E j \in 1..Len(wire) : wire'[k] = wire[j]
    OBVIOUS
  <2>2. CASE k \in 1..Len(wire)
    <3>1. wire'[k] = wire[k]
      BY <1>1, <2>1, <2>2
    <3> QED BY <2>2, <3>1
  <2>3. CASE k = Len(wire) + 1
    BY <1>1, <2>1, <2>3
  <2>4. Len(wire') = Len(wire) + 1
    BY <1>1, <2>1
  <2> QED BY <2>1, <2>2, <2>3, <2>4
<1>11. Under' \subseteq Under
  BY <1>3, <1>7, <1>8, <1>9 DEF Under
<1> HIDE DEF t, m
<1>12. PlaceOK'
  BY <1>1, <1>3, <1>4, <1>7, <1>8, <1>9 DEF MessageInv, PlaceOK
<1>13. OldtagOK'
  <2>1. ASSUME NEW k \in 1..Len(srv') PROVE srv'[k].oldtag = oldtag[srv'[k].tag]
    <3>1. PICK j \in 1..Len(srv) : srv'[k] = srv[j]
      BY <1>3
    <3> QED BY <3>1 DEF MessageInv, OldtagOK
  <2> QED BY <1>1, <1>6, <2>1 DEF MessageInv, OldtagOK
<1>14. UnderOK'
  BY <1>1, <1>4, <1>6, <1>11 DEF MessageInv, UnderOK
<1>15. OrderOK'
  <2> SUFFICES ASSUME NEW s \in Procs, Good(s)', NEW x \in Rpcs, NEW y \in Rpcs, Earlier(s, x, y)'
               PROVE  /\ Before(srv', x, y) /\ Before(wire', x, y)
                      /\ x \in Under' => ~done'[y]
                      /\ x \in Tags(srv') => y \notin Tags(wire') \cup Mux'
                      /\ x \in Tags(wire') => y \notin Mux'
    BY DEF OrderOK
  <2>1. /\ Earlier(s, x, y) /\ x \in Own(s) /\ y \in Own(s)
        /\ x # y /\ y # chain[s][1] /\ chain[s] # <<>>
    <3>1. Earlier(s, x, y)
      BY <1>1, OrderSame
    <3>2. chain[s] # <<>>
      BY <3>1 DEF Earlier
    <3> QED BY <3>1, <3>2, EarlierFacts
  <2>2. /\ Before(srv, x, y) /\ Before(wire, x, y)
        /\ x \in Under => ~done[y]
        /\ x \in Tags(srv) => y \notin Tags(wire) \cup Mux
        /\ x \in Tags(wire) => y \notin Mux
    BY <1>4, <2>1 DEF MessageInv, OrderOK
  <2>3. ASSUME x \in Tags(srv'), y = t PROVE FALSE
    <3>1. /\ oldtag[y] = chain[s][1] /\ chain[s][1] # nil
          /\ x # chain[s][1] => oldtag[x] = chain[s][1]
      BY <2>1, EarlierFacts, NilAssumption DEF MessageInv, OldtagOK
    <3>2. PICK k \in 1..Len(srv') : x = srv'[k].tag
      BY <2>3 DEF Tags
    <3>3. srv[i].oldtag # nil /\ srv[i].oldtag = chain[s][1]
      BY <1>5, <2>3, <3>1
    <3>4. x # chain[s][1]
      BY <1>3, <2>3, <3>3
    <3>5. srv'[k].oldtag # srv[i].oldtag
      BY <1>3, <2>2, <2>3, <3>2, <3>3
    <3>6. srv'[k].oldtag = oldtag[x]
      BY <1>1, <1>13, <3>2 DEF OldtagOK
    <3> QED BY <3>1, <3>3, <3>4, <3>5, <3>6
  <2>4. Before(wire', x, y)
    BY <1>3, <1>9, <2>1, <2>2
  <2> QED BY <1>1, <1>3, <1>7, <1>9, <1>11, <2>2, <2>3, <2>4
<1>16. AnswerOK'
  <2>1. answered' \subseteq InUse'
    BY <1>1, <1>4, <1>6, <1>8 DEF MessageInv, AnswerOK, UnderOK
  <2> SUFFICES ASSUME NEW s \in Procs, Good(s)', chain'[s] # <<>>, NEW x, x = chain'[s][1]
               PROVE  /\ \A k \in 1..Len(wire') : wire'[k].tag = x => wire'[k].type = "R"
                      /\ \A u \in Procs : pc'[u] = "mux" /\ reply'[cur(u)'].tag = x => reply'[cur(u)'].type = "R"
                      /\ x \in Tags(wire') \cup Mux' => x \in answered'
                      /\ done'[x] /\ reply'[x].type = "R" => reply'[x].tag = x /\ x \in answered'
                      /\ x \in answered' => x \in Tags(wire') \cup Mux' \/ (done'[x] /\ reply'[x].type = "R")
    BY <2>1 DEF AnswerOK
  <2>2. x = chain[s][1] /\ x \in Rpcs /\ chain[s] # <<>>
    BY <1>1, EarlierFacts
  <2>3. /\ \A k \in 1..Len(wire) : wire[k].tag = x => wire[k].type = "R"
        /\ \A u \in Procs : pc[u] = "mux" /\ reply[cur(u)].tag = x => reply[cur(u)].type = "R"
        /\ x \in Tags(wire) \cup Mux => x \in answered
        /\ done[x] /\ reply[x].type = "R" => reply[x].tag = x /\ x \in answered
        /\ x \in answered => x \in Tags(wire) \cup Mux \/ (done[x] /\ reply[x].type = "R")
    BY <1>4, <2>2 DEF MessageInv, AnswerOK
  <2>4. oldtag[x] = nil
    BY <2>2 DEF MessageInv, OldtagOK
  <2>5. m.tag = x => m.type = "R" /\ x = t /\ srv[i].oldtag = nil
    BY <1>5, <2>4 DEF m
  <2>6. ASSUME NEW k \in 1..Len(wire'), wire'[k].tag = x PROVE wire'[k].type = "R"
    <3>1. CASE wire'[k] = m
      BY <2>5, <2>6, <3>1
    <3>2. CASE \E j \in 1..Len(wire) : wire'[k] = wire[j]
      BY <2>3, <2>6, <3>2
    <3> QED BY <1>10, <3>1, <3>2
  <2>7. x \in answered' <=> x \in answered \/ x = t
    BY <1>1, <1>5, <2>4
  <2> QED BY <1>1, <1>6, <1>7, <1>9, <2>3, <2>6, <2>7
<1> QED BY <1>12, <1>13, <1>14, <1>15, <1>16 DEF MessageInv

\* An error without a hangup is Eintr, and a reader without one is done.
LEMMA NextErr ==
  ASSUME Types, TurnOK, ChainOK, DoneOK, ErrOK, [Next]_vars
  PROVE  ErrOK'
<1> USE DEF Types, ErrOK, DoneOK
<1>1. ASSUME NEW p \in Procs, mountrpc(p) PROVE ErrOK'
  <2>1. PICK r \in Rpcs : mntralloc(p, r, nil)
    BY <1>1 DEF mountrpc
  <2>2. /\ \A s \in Procs : pc'[s] = IF s = p THEN "enqueue" ELSE pc[s]
        /\ UNCHANGED <<err, hungup>>
    BY <1>1 DEF mountrpc, Goto
  <2>3. \A s \in Procs : s # p => cur(s)' = cur(s) /\ r \notin Own(s)
    BY <2>1, AllocEffect
  <2>4. \A x \in Rpcs : x # r => done'[x] = done[x]
    BY <2>1 DEF mntralloc
  <2>5. \A s \in Procs : pc[s] \in {"mntgate", "scan"} => cur(s) \in Rpcs /\ cur(s) \in Own(s)
    BY CurOwn
  <2>6. \A s \in Procs : s # p /\ pc[s] \in {"mntgate", "scan"} => done'[cur(s)'] = done[cur(s)]
    <3> SUFFICES ASSUME NEW s \in Procs, s # p, pc[s] \in {"mntgate", "scan"}
                 PROVE  done'[cur(s)'] = done[cur(s)]
      OBVIOUS
    <3>1. cur(s)' = cur(s) /\ cur(s) \in Rpcs /\ cur(s) # r
      BY <2>3, <2>5
    <3> QED BY <2>4, <3>1
  <2> QED BY <2>2, <2>6
<1>2. ASSUME NEW p \in Procs, mntflushalloc(p) PROVE ErrOK'
  <2>1. PICK r \in Rpcs : mntralloc(p, r, flushtag(cur(p)))
    BY <1>2 DEF mntflushalloc
  <2>2. /\ \A s \in Procs : pc'[s] = IF s = p THEN "enqueue" ELSE pc[s]
        /\ err'[p] = "" /\ hungup' = hungup
        /\ \A s \in Procs : s # p => err'[s] = err[s]
    BY <1>2 DEF mntflushalloc, Goto
  <2>3. \A s \in Procs : s # p => cur(s)' = cur(s) /\ r \notin Own(s)
    BY <2>1, AllocEffect
  <2>4. \A x \in Rpcs : x # r => done'[x] = done[x]
    BY <2>1 DEF mntralloc
  <2>5. \A s \in Procs : pc[s] \in {"mntgate", "scan"} => cur(s) \in Rpcs /\ cur(s) \in Own(s)
    BY CurOwn
  <2>6. \A s \in Procs : s # p /\ pc[s] \in {"mntgate", "scan"} => done'[cur(s)'] = done[cur(s)]
    <3> SUFFICES ASSUME NEW s \in Procs, s # p, pc[s] \in {"mntgate", "scan"}
                 PROVE  done'[cur(s)'] = done[cur(s)]
      OBVIOUS
    <3>1. cur(s)' = cur(s) /\ cur(s) \in Rpcs /\ cur(s) # r
      BY <2>3, <2>5
    <3> QED BY <2>4, <3>1
  <2> QED BY <2>2, <2>6
<1>3. ASSUME NEW p \in Procs, enqueue(p) PROVE ErrOK'
  BY <1>3, ChainSame DEF enqueue, Goto
<1>4. ASSUME NEW p \in Procs, write(p) PROVE ErrOK'
  BY <1>4, ChainSame DEF write, transmit, Goto
<1>5. ASSUME NEW p \in Procs, writeEintr(p) PROVE ErrOK'
  BY <1>5, ChainSame DEF writeEintr, transmit, eintr, giveup, Goto
<1>6. ASSUME NEW p \in Procs, writeFails(p) PROVE ErrOK'
  BY <1>6, ChainSame DEF writeFails, fails, giveup, Goto
<1>7. ASSUME NEW p \in Procs, gateTake(p) PROVE ErrOK'
  BY <1>7, ChainSame DEF gateTake, Goto
<1>8. ASSUME NEW p \in Procs, gateSleep(p) PROVE ErrOK'
  BY <1>8, ChainSame DEF gateSleep, local, Goto
<1>9. ASSUME NEW p \in Procs, sleep(p) PROVE ErrOK'
  BY <1>9, ChainSame DEF sleep, rpcattn, local, Goto
<1>10. ASSUME NEW p \in Procs, wokeEintr(p) PROVE ErrOK'
  BY <1>10, ChainSame DEF wokeEintr, eintr, giveup, Goto
<1>11. ASSUME NEW p \in Procs, woke(p) PROVE ErrOK'
  BY <1>11, ChainSame DEF woke, local, Goto
<1>12. ASSUME NEW p \in Procs, mntrpcread(p) PROVE ErrOK'
  BY <1>12, ChainSame DEF mntrpcread, Goto
<1>13. ASSUME NEW p \in Procs, readEintr(p) PROVE ErrOK'
  BY <1>13, ChainSame DEF readEintr, eintr, giveup, Goto
<1>14. ASSUME NEW p \in Procs, readFails(p) PROVE ErrOK'
  BY <1>14, ChainSame DEF readFails, fails, giveup, Goto
<1>15. ASSUME NEW p \in Procs, mountmux(p) PROVE ErrOK'
  <2>1. \A s \in Procs : cur(s)' = cur(s)
    BY <1>15, ChainSame DEF mountmux
  <2>2. \A x \in Rpcs : done[x] => done'[x]
    BY <1>15 DEF mountmux
  <2>3. pc'[p] = "mntgate" => done'[cur(p)]
    BY <1>15, CurOwn DEF mountmux, readMore, Goto
  <2>4. pc'[p] # "scan" /\ \A s \in Procs : s # p => pc'[s] = pc[s]
    BY <1>15 DEF mountmux, readMore, Goto
  <2>5. UNCHANGED <<err, hungup>>
    BY <1>15 DEF mountmux
  <2>6. \A s \in Procs : pc[s] \in {"mntgate", "scan"} => cur(s) \in Rpcs /\ cur(s) \in Own(s)
    BY CurOwn
  <2> QED BY ZenonT(60), <2>1, <2>2, <2>3, <2>4, <2>5, <2>6
<1>16. ASSUME NEW p \in Procs, mountmuxUnexpected(p) PROVE ErrOK'
  BY <1>16, ChainSame DEF mountmuxUnexpected, readMore, local, Goto
<1>17. ASSUME NEW p \in Procs, muxWakeup(p) PROVE ErrOK'
  BY <1>17, ChainSame DEF muxWakeup, Sleeper
<1>18. ASSUME NEW p \in Procs, mntgate(p) PROVE ErrOK'
  BY <1>18, ChainSame DEF mntgate, Goto
<1>19. ASSUME NEW p \in Procs, mntgateScan(p) PROVE ErrOK'
  <2>1. pc'[p] \notin {"mntgate", "scan"} /\ \A s \in Procs : pc'[s] \in {"mntgate", "scan"} => pc'[s] = pc[s]
    BY <1>19, ScanEffect
  <2>2. UNCHANGED <<done, chain, err, hungup>>
    BY <1>19 DEF mntgateScan
  <2> QED BY <2>1, <2>2, ChainSame
<1>20. ASSUME NEW p \in Procs, mntqrm(p) PROVE ErrOK'
  <2>1. \A s \in Procs : cur(s)' = cur(s)
    BY <1>20, ChainSame DEF mntqrm
  <2>2. \A x \in Rpcs : done[x] => done'[x]
    BY <1>20 DEF mntqrm
  <2>3. \A s \in Procs : pc[s] \in {"mntgate", "scan"} => cur(s) \in Rpcs /\ cur(s) \in Own(s)
    BY CurOwn
  <2>4. UNCHANGED <<pc, err, hungup>>
    BY <1>20 DEF mntqrm
  <2> QED BY <2>1, <2>2, <2>3, <2>4
<1>21. ASSUME NEW p \in Procs, mntflushfree(p) PROVE ErrOK'
  <2>1. CASE Len(chain[p]) > 1
    <3>1. mntfree(p) /\ pc[p] = "flushfree" /\ UNCHANGED <<pc, done, err, hungup>>
      BY <1>21, <2>1 DEF mntflushfree
    <3>2. \A s \in Procs : s # p => cur(s)' = cur(s)
      BY <3>1, FreeEffect
    <3> QED BY <3>1, <3>2
  <2>2. CASE ~(Len(chain[p]) > 1)
    BY <1>21, <2>2, ChainSame DEF mntflushfree, Goto
  <2> QED BY <2>1, <2>2
<1>22. ASSUME NEW p \in Procs, mountrpcReturn(p) PROVE ErrOK'
  <2>1. /\ mntfree(p) /\ pc[p] = "ret" /\ UNCHANGED <<done, hungup>>
        /\ \A s \in Procs : pc'[s] = IF s = p THEN "idle" ELSE pc[s]
        /\ \A s \in Procs : err'[s] = IF s = p THEN "" ELSE err[s]
    BY <1>22 DEF mountrpcReturn, Goto
  <2>2. \A s \in Procs : s # p => cur(s)' = cur(s)
    BY <2>1, FreeEffect
  <2> QED BY ZenonT(60), <2>1, <2>2
<1>23. ASSUME NEW p \in Procs, postnote(p) PROVE ErrOK'
  BY <1>23, ChainSame DEF postnote, Goto
<1>24. ASSUME NEW i \in DOMAIN srv, serve(i) PROVE ErrOK'
  BY <1>24, ChainSame DEF serve
<1>25. CASE hangup
  BY <1>25, ChainSame DEF hangup
<1>26. CASE UNCHANGED vars
  BY <1>26, ChainSame DEF vars
<1> QED
  BY <1>1, <1>2, <1>3, <1>4, <1>5, <1>6, <1>7, <1>8, <1>9, <1>10, <1>11, <1>12, <1>13, <1>14, <1>15, <1>16, <1>17, <1>18, <1>19, <1>20, <1>21, <1>22, <1>23, <1>24, <1>25, <1>26
  DEF Next, step

\* Every step keeps the second invariant.
LEMMA NextMessage ==
  ASSUME Types, TurnOK, TurnOK', ListOK, ChainOK, QueuedOK, DoneOK, ErrOK, MessageInv, [Next]_vars
  PROVE  MessageInv'
<1>1. ASSUME NEW p \in Procs, mountrpc(p) PROVE MessageInv'
  <2>1. PICK r \in Rpcs : mntralloc(p, r, nil)
    BY <1>1 DEF mountrpc
  <2>2. /\ pc[p] = "idle" /\ pc' = [pc EXCEPT ![p] = "enqueue"]
        /\ UNCHANGED <<queue, reply, srv, wire, hungup, answered, err>>
    BY <1>1 DEF mountrpc, Goto
  <2>3. chain[p] = <<>>
    BY <2>2 DEF ChainOK
  <2> QED BY <2>1, <2>2, <2>3, AllocStep
<1>2. ASSUME NEW p \in Procs, mntflushalloc(p) PROVE MessageInv'
  <2>1. PICK r \in Rpcs : mntralloc(p, r, flushtag(cur(p)))
    BY <1>2 DEF mntflushalloc
  <2>2. /\ pc[p] = "flush" /\ pc' = [pc EXCEPT ![p] = "enqueue"]
        /\ UNCHANGED <<queue, reply, srv, wire, hungup, answered>>
        /\ \A s \in Procs : s # p => err'[s] = err[s]
    BY <1>2 DEF mntflushalloc, Goto, Types
  <2>3. chain[p] # <<>> /\ cur(p) \in Own(p)
    BY <2>2, CurOwn
  <2>4. chain[p][1] \in Rpcs
    BY <2>3, EarlierFacts
  <2>5. flushtag(cur(p)) = chain[p][1]
    BY <2>3, <2>4, NilAssumption DEF flushtag, MessageInv, OldtagOK
  <2> QED BY <2>1, <2>2, <2>3, <2>5, AllocStep
<1>3. ASSUME NEW p \in Procs, enqueue(p) PROVE MessageInv'
  <2>1. /\ UNCHANGED <<done, reply, oldtag, chain, srv, wire, hungup, answered, err>>
        /\ pc[p] = "enqueue" /\ pc' = [pc EXCEPT ![p] = "write"]
        /\ queue' = <<cur(p)>> \o queue
    BY <1>3 DEF enqueue, Goto
  <2>2. ToSet(queue) \subseteq ToSet(queue')
    BY <2>1, CurOwn, ConsSet DEF Types
  <2>3. \A s \in Procs : pc'[s] = IF s = p THEN "write" ELSE pc[s]
    BY <2>1 DEF Types
  <2>4. \A s \in Procs : Good(s)' => Good(s)
    BY <2>1, <2>3 DEF Good
  <2> QED BY <2>1, <2>2, <2>3, <2>4, QuietStep
<1>4. ASSUME NEW p \in Procs, write(p) PROVE MessageInv'
  <2>1. /\ pc[p] = "write" /\ ~hungup /\ transmit(p) /\ pc'[p] = "gate"
        /\ \A s \in Procs : s # p => pc'[s] = pc[s]
        /\ UNCHANGED <<queue, done, reply, oldtag, chain, wire, hungup, answered>>
    BY <1>4 DEF write, Goto, Types
  <2> QED BY <2>1, SendStep
<1>5. ASSUME NEW p \in Procs, writeEintr(p) PROVE MessageInv'
  <2>1. /\ pc[p] = "write" /\ ~hungup /\ pc'[p] = "flush"
        /\ \A s \in Procs : s # p => pc'[s] = pc[s]
        /\ UNCHANGED <<queue, done, reply, oldtag, chain, wire, hungup, answered>>
    BY <1>5 DEF writeEintr, eintr, giveup, Goto, Types, TurnOK
  <2>2. CASE transmit(p)
    BY <2>1, <2>2, SendStep
  <2>3. CASE UNCHANGED srv
    <3>1. \A s \in Procs : Good(s)' => Good(s)
      BY <2>1 DEF Good
    <3> QED BY <2>1, <2>3, <3>1, QuietStep
  <2> QED BY <1>5, <2>2, <2>3 DEF writeEintr
<1>6. ASSUME NEW p \in Procs, writeFails(p) PROVE MessageInv'
  <2>1. /\ UNCHANGED <<done, reply, oldtag, chain, srv, wire, hungup, answered>>
        /\ queue' = queue
    BY <1>6 DEF writeFails, fails, giveup
  <2>2. \A s \in Procs : pc'[s] = "mux" <=> pc[s] = "mux"
    BY <1>6 DEF writeFails, fails, giveup, Goto, Types
  <2>3. \A s \in Procs : Good(s)' => Good(s)
    BY <1>6 DEF writeFails, fails, giveup, Goto, Types, Good
  <2>4. \A s \in Procs : pc'[s] \in {"enqueue", "write"} => pc[s] \in {"enqueue", "write"}
    BY <1>6 DEF writeFails, fails, giveup, Goto, Types
  <2>5. \A s \in Procs : pc'[s] \in {"flushfree", "ret"} /\ Good(s)' =>
          pc[s] \in {"flushfree", "ret"} \/ (pc[s] # "idle" /\ done[cur(s)])
    BY <1>6 DEF writeFails, fails, giveup, Goto, Types, Good, ErrOK
  <2> QED BY <2>1, <2>2, <2>3, <2>4, <2>5, QuietStep
<1>7. ASSUME NEW p \in Procs, gateTake(p) PROVE MessageInv'
  <2>1. /\ UNCHANGED <<done, reply, oldtag, chain, srv, wire, hungup, answered>>
        /\ queue' = queue
    BY <1>7 DEF gateTake
  <2>2. \A s \in Procs : pc'[s] = "mux" <=> pc[s] = "mux"
    BY <1>7 DEF gateTake, Goto, Types
  <2>3. \A s \in Procs : Good(s)' => Good(s)
    BY <1>7 DEF gateTake, Goto, Types, Good
  <2>4. \A s \in Procs : pc'[s] \in {"enqueue", "write"} => pc[s] \in {"enqueue", "write"}
    BY <1>7 DEF gateTake, Goto, Types
  <2>5. \A s \in Procs : pc'[s] \in {"flushfree", "ret"} /\ Good(s)' =>
          pc[s] \in {"flushfree", "ret"} \/ (pc[s] # "idle" /\ done[cur(s)])
    BY <1>7 DEF gateTake, Goto, Types, Good, ErrOK
  <2> QED BY <2>1, <2>2, <2>3, <2>4, <2>5, QuietStep
<1>8. ASSUME NEW p \in Procs, gateSleep(p) PROVE MessageInv'
  <2>1. /\ UNCHANGED <<done, reply, oldtag, chain, srv, wire, hungup, answered>>
        /\ queue' = queue
    BY <1>8 DEF gateSleep, local
  <2>2. \A s \in Procs : pc'[s] = "mux" <=> pc[s] = "mux"
    BY <1>8 DEF gateSleep, Goto, Types
  <2>3. \A s \in Procs : Good(s)' => Good(s)
    BY <1>8 DEF gateSleep, Goto, Types, Good, local
  <2>4. \A s \in Procs : pc'[s] \in {"enqueue", "write"} => pc[s] \in {"enqueue", "write"}
    BY <1>8 DEF gateSleep, Goto, Types
  <2>5. \A s \in Procs : pc'[s] \in {"flushfree", "ret"} /\ Good(s)' =>
          pc[s] \in {"flushfree", "ret"} \/ (pc[s] # "idle" /\ done[cur(s)])
    BY <1>8 DEF gateSleep, Goto, Types, Good, ErrOK
  <2> QED BY <2>1, <2>2, <2>3, <2>4, <2>5, QuietStep
<1>9. ASSUME NEW p \in Procs, sleep(p) PROVE MessageInv'
  <2>1. /\ UNCHANGED <<done, reply, oldtag, chain, srv, wire, hungup, answered>>
        /\ queue' = queue
    BY <1>9 DEF sleep, rpcattn, local
  <2>2. \A s \in Procs : pc'[s] = "mux" <=> pc[s] = "mux"
    BY <1>9 DEF sleep, rpcattn, Goto, Types
  <2>3. \A s \in Procs : Good(s)' => Good(s)
    BY <1>9 DEF sleep, rpcattn, Goto, Types, Good, local
  <2>4. \A s \in Procs : pc'[s] \in {"enqueue", "write"} => pc[s] \in {"enqueue", "write"}
    BY <1>9 DEF sleep, rpcattn, Goto, Types
  <2>5. \A s \in Procs : pc'[s] \in {"flushfree", "ret"} /\ Good(s)' =>
          pc[s] \in {"flushfree", "ret"} \/ (pc[s] # "idle" /\ done[cur(s)])
    BY <1>9 DEF sleep, rpcattn, Goto, Types, Good, ErrOK
  <2> QED BY <2>1, <2>2, <2>3, <2>4, <2>5, QuietStep
<1>10. ASSUME NEW p \in Procs, wokeEintr(p) PROVE MessageInv'
  <2>1. /\ UNCHANGED <<done, reply, oldtag, chain, srv, wire, hungup, answered>>
        /\ queue' = queue
    BY <1>10 DEF wokeEintr, eintr, giveup
  <2>2. \A s \in Procs : pc'[s] = "mux" <=> pc[s] = "mux"
    BY <1>10 DEF wokeEintr, eintr, giveup, Goto, Types
  <2>3. \A s \in Procs : Good(s)' => Good(s)
    BY <1>10 DEF wokeEintr, eintr, giveup, Goto, Types, Good
  <2>4. \A s \in Procs : pc'[s] \in {"enqueue", "write"} => pc[s] \in {"enqueue", "write"}
    BY <1>10 DEF wokeEintr, eintr, giveup, Goto, Types
  <2>5. \A s \in Procs : pc'[s] \in {"flushfree", "ret"} /\ Good(s)' =>
          pc[s] \in {"flushfree", "ret"} \/ (pc[s] # "idle" /\ done[cur(s)])
    BY <1>10 DEF wokeEintr, eintr, giveup, Goto, Types, Good, ErrOK
  <2> QED BY <2>1, <2>2, <2>3, <2>4, <2>5, QuietStep
<1>11. ASSUME NEW p \in Procs, woke(p) PROVE MessageInv'
  <2>1. /\ UNCHANGED <<done, reply, oldtag, chain, srv, wire, hungup, answered>>
        /\ queue' = queue
    BY <1>11 DEF woke, local
  <2>2. \A s \in Procs : pc'[s] = "mux" <=> pc[s] = "mux"
    BY <1>11 DEF woke, Goto, Types
  <2>3. \A s \in Procs : Good(s)' => Good(s)
    BY <1>11 DEF woke, Goto, Types, Good, local
  <2>4. \A s \in Procs : pc'[s] \in {"enqueue", "write"} => pc[s] \in {"enqueue", "write"}
    BY <1>11 DEF woke, Goto, Types
  <2>5. \A s \in Procs : pc'[s] \in {"flushfree", "ret"} /\ Good(s)' =>
          pc[s] \in {"flushfree", "ret"} \/ (pc[s] # "idle" /\ done[cur(s)])
    BY <1>11 DEF woke, Goto, Types, Good, ErrOK
  <2> QED BY <2>1, <2>2, <2>3, <2>4, <2>5, QuietStep
<1>12. ASSUME NEW p \in Procs, mntrpcread(p) PROVE MessageInv'
  BY <1>12, ReadStep
<1>13. ASSUME NEW p \in Procs, readEintr(p) PROVE MessageInv'
  <2>1. /\ UNCHANGED <<done, reply, oldtag, chain, srv, wire, hungup, answered>>
        /\ queue' = queue
    BY <1>13 DEF readEintr, eintr, giveup
  <2>2. \A s \in Procs : pc'[s] = "mux" <=> pc[s] = "mux"
    BY <1>13 DEF readEintr, eintr, giveup, Goto, Types
  <2>3. \A s \in Procs : Good(s)' => Good(s)
    BY <1>13 DEF readEintr, eintr, giveup, Goto, Types, Good
  <2>4. \A s \in Procs : pc'[s] \in {"enqueue", "write"} => pc[s] \in {"enqueue", "write"}
    BY <1>13 DEF readEintr, eintr, giveup, Goto, Types
  <2>5. \A s \in Procs : pc'[s] \in {"flushfree", "ret"} /\ Good(s)' =>
          pc[s] \in {"flushfree", "ret"} \/ (pc[s] # "idle" /\ done[cur(s)])
    BY <1>13 DEF readEintr, eintr, giveup, Goto, Types, Good, ErrOK
  <2> QED BY <2>1, <2>2, <2>3, <2>4, <2>5, QuietStep
<1>14. ASSUME NEW p \in Procs, readFails(p) PROVE MessageInv'
  <2>1. /\ UNCHANGED <<done, reply, oldtag, chain, srv, wire, hungup, answered>>
        /\ queue' = queue
    BY <1>14 DEF readFails, fails, giveup
  <2>2. \A s \in Procs : pc'[s] = "mux" <=> pc[s] = "mux"
    BY <1>14 DEF readFails, fails, giveup, Goto, Types
  <2>3. \A s \in Procs : Good(s)' => Good(s)
    BY <1>14 DEF readFails, fails, giveup, Goto, Types, Good
  <2>4. \A s \in Procs : pc'[s] \in {"enqueue", "write"} => pc[s] \in {"enqueue", "write"}
    BY <1>14 DEF readFails, fails, giveup, Goto, Types
  <2>5. \A s \in Procs : pc'[s] \in {"flushfree", "ret"} /\ Good(s)' =>
          pc[s] \in {"flushfree", "ret"} \/ (pc[s] # "idle" /\ done[cur(s)])
    BY <1>14 DEF readFails, fails, giveup, Goto, Types, Good, ErrOK
  <2> QED BY <2>1, <2>2, <2>3, <2>4, <2>5, QuietStep
<1>15. ASSUME NEW p \in Procs, mountmux(p) PROVE MessageInv'
  BY <1>15, MuxStep
<1>16. ASSUME NEW p \in Procs, mountmuxUnexpected(p) PROVE MessageInv'
  BY <1>16, DropStep
<1>17. ASSUME NEW p \in Procs, muxWakeup(p) PROVE MessageInv'
  <2>1. /\ UNCHANGED <<done, reply, oldtag, chain, srv, wire, hungup, answered>>
        /\ queue' = queue
    BY <1>17 DEF muxWakeup, Sleeper
  <2>2. \A s \in Procs : pc'[s] = "mux" <=> pc[s] = "mux"
    BY <1>17 DEF muxWakeup, Sleeper, Goto, Types
  <2>3. \A s \in Procs : Good(s)' => Good(s)
    BY <1>17 DEF muxWakeup, Sleeper, Goto, Types, Good
  <2>4. \A s \in Procs : pc'[s] \in {"enqueue", "write"} => pc[s] \in {"enqueue", "write"}
    BY <1>17 DEF muxWakeup, Sleeper, Goto, Types
  <2>5. \A s \in Procs : pc'[s] \in {"flushfree", "ret"} /\ Good(s)' =>
          pc[s] \in {"flushfree", "ret"} \/ (pc[s] # "idle" /\ done[cur(s)])
    BY <1>17 DEF muxWakeup, Sleeper, Goto, Types, Good, ErrOK
  <2> QED BY <2>1, <2>2, <2>3, <2>4, <2>5, QuietStep
<1>18. ASSUME NEW p \in Procs, mntgate(p) PROVE MessageInv'
  <2>1. /\ UNCHANGED <<done, reply, oldtag, chain, srv, wire, hungup, answered>>
        /\ queue' = queue
    BY <1>18 DEF mntgate
  <2>2. \A s \in Procs : pc'[s] = "mux" <=> pc[s] = "mux"
    BY <1>18 DEF mntgate, Goto, Types
  <2>3. \A s \in Procs : Good(s)' => Good(s)
    BY <1>18 DEF mntgate, Goto, Types, Good
  <2>4. \A s \in Procs : pc'[s] \in {"enqueue", "write"} => pc[s] \in {"enqueue", "write"}
    BY <1>18 DEF mntgate, Goto, Types
  <2>5. \A s \in Procs : pc'[s] \in {"flushfree", "ret"} /\ Good(s)' =>
          pc[s] \in {"flushfree", "ret"} \/ (pc[s] # "idle" /\ done[cur(s)])
    BY <1>18 DEF mntgate, Goto, Types, Good, ErrOK
  <2> QED BY <2>1, <2>2, <2>3, <2>4, <2>5, QuietStep
<1>19. ASSUME NEW p \in Procs, mntgateScan(p) PROVE MessageInv'
  <2>1. /\ UNCHANGED <<done, reply, oldtag, chain, srv, wire, hungup, answered, err, queue>>
        /\ pc[p] = "scan"
    BY <1>19 DEF mntgateScan
  <2>2. /\ pc'[p] = IF err[p] = "Eintr" THEN "flush" ELSE "flushfree"
        /\ \A s \in Procs : s # p => pc'[s] = pc[s] \/ (pc[s] = "asleep" /\ pc'[s] = "woke")
    BY <1>19, ScanEffect
  <2>3. \A s \in Procs : Good(s)' => Good(s)
    BY <2>1, <2>2 DEF Good
  <2>4. pc'[p] = "flushfree" /\ Good(p)' => done[cur(p)]
    BY <2>1, <2>2 DEF Good, ErrOK, Types, Errors
  <2> QED BY <2>1, <2>2, <2>3, <2>4, QuietStep
<1>20. ASSUME NEW p \in Procs, mntqrm(p) PROVE MessageInv'
  BY <1>20, QrmStep
<1>21. ASSUME NEW p \in Procs, mntflushfree(p) PROVE MessageInv'
  <2>1. CASE Len(chain[p]) > 1
    <3>1. /\ pc[p] = "flushfree" /\ mntfree(p)
          /\ UNCHANGED <<queue, done, srv, wire, hungup, pc, err>>
      BY <1>21, <2>1 DEF mntflushfree
    <3> QED BY <3>1, FreeStep
  <2>2. CASE ~(Len(chain[p]) > 1)
    <3>1. /\ UNCHANGED <<done, reply, oldtag, chain, srv, wire, hungup, answered, err, queue>>
          /\ pc[p] = "flushfree" /\ pc'[p] = "ret" /\ \A s \in Procs : s # p => pc'[s] = pc[s]
      BY <1>21, <2>2 DEF mntflushfree, Goto, Types
    <3>2. \A s \in Procs : Good(s)' => Good(s)
      BY <3>1 DEF Good
    <3> QED BY <3>1, <3>2, QuietStep
  <2> QED BY <2>1, <2>2
<1>22. ASSUME NEW p \in Procs, mountrpcReturn(p) PROVE MessageInv'
  <2>1. /\ pc[p] = "ret" /\ mntfree(p) /\ pc'[p] = "idle"
        /\ UNCHANGED <<queue, done, srv, wire, hungup>>
        /\ \A s \in Procs : s # p => pc'[s] = pc[s] /\ err'[s] = err[s]
    BY <1>22 DEF mountrpcReturn, Goto, Types
  <2>2. Len(chain[p]) = 1
    BY <2>1 DEF DoneOK
  <2>3. chain'[p] \in Seq(Rpcs) /\ Len(chain'[p]) = Len(chain[p]) - 1
    BY <2>1, FreeEffect
  <2>4. chain'[p] = <<>>
    BY <2>2, <2>3
  <2> QED BY <2>1, <2>4, FreeStep
<1>23. ASSUME NEW p \in Procs, postnote(p) PROVE MessageInv'
  <2>1. /\ UNCHANGED <<done, reply, oldtag, chain, srv, wire, hungup, answered>>
        /\ queue' = queue
    BY <1>23 DEF postnote
  <2>2. \A s \in Procs : pc'[s] = "mux" <=> pc[s] = "mux"
    BY <1>23 DEF postnote, Goto, Types
  <2>3. \A s \in Procs : Good(s)' => Good(s)
    BY <1>23 DEF postnote, Goto, Types, Good
  <2>4. \A s \in Procs : pc'[s] \in {"enqueue", "write"} => pc[s] \in {"enqueue", "write"}
    BY <1>23 DEF postnote, Goto, Types
  <2>5. \A s \in Procs : pc'[s] \in {"flushfree", "ret"} /\ Good(s)' =>
          pc[s] \in {"flushfree", "ret"} \/ (pc[s] # "idle" /\ done[cur(s)])
    BY <1>23 DEF postnote, Goto, Types, Good, ErrOK
  <2> QED BY <2>1, <2>2, <2>3, <2>4, <2>5, QuietStep
<1>24. ASSUME NEW i \in DOMAIN srv, serve(i) PROVE MessageInv'
  BY <1>24, ServeStep
<1>25. CASE hangup
  BY <1>25, HangupStep
<1>26. CASE UNCHANGED vars
  <2>1. /\ UNCHANGED <<done, reply, oldtag, chain, srv, wire, hungup, answered>>
        /\ queue' = queue
    BY <1>26 DEF vars
  <2>2. \A s \in Procs : pc'[s] = "mux" <=> pc[s] = "mux"
    BY <1>26 DEF vars, Types
  <2>3. \A s \in Procs : Good(s)' => Good(s)
    BY <1>26 DEF vars, Types, Good
  <2>4. \A s \in Procs : pc'[s] \in {"enqueue", "write"} => pc[s] \in {"enqueue", "write"}
    BY <1>26 DEF vars, Types
  <2>5. \A s \in Procs : pc'[s] \in {"flushfree", "ret"} /\ Good(s)' =>
          pc[s] \in {"flushfree", "ret"} \/ (pc[s] # "idle" /\ done[cur(s)])
    BY <1>26 DEF vars, Types, Good, ErrOK
  <2> QED BY <2>1, <2>2, <2>3, <2>4, <2>5, QuietStep
<1> QED
  BY <1>1, <1>2, <1>3, <1>4, <1>5, <1>6, <1>7, <1>8, <1>9, <1>10, <1>11, <1>12, <1>13, <1>14, <1>15, <1>16, <1>17, <1>18, <1>19, <1>20, <1>21, <1>22, <1>23, <1>24, <1>25, <1>26
  DEF Next, step

-----------------------------------------------------------------------------
(* The results. *)

\* The initial state satisfies the invariant.
LEMMA InitInv == Init => IndInv
<1> SUFFICES ASSUME Init PROVE IndInv
  OBVIOUS
<1>1. ReaderInv
  BY InitReader
<1>2. ErrOK
  BY DEF Init, ErrOK
<1>3. \A p \in Procs : chain[p] = <<>> /\ pc[p] = "idle"
  BY DEF Init
<1>4. Len(srv) = 0 /\ Len(wire) = 0 /\ \A p \in Procs : Len(chain[p]) = 0
  BY <1>3 DEF Init
<1>5. Tags(srv) = {} /\ Tags(wire) = {} /\ Mux = {} /\ Under = {}
  <2>1. Tags(srv) = {} /\ Tags(wire) = {}
    BY <1>4 DEF Tags
  <2>2. Mux = {}
    BY <1>3 DEF Mux
  <2> QED BY <2>1, <2>2 DEF Under
<1>6. PlaceOK
  <2>1. Unique(srv) /\ Unique(wire)
    BY <1>4 DEF Unique
  <2> QED BY <1>5, <2>1 DEF Init, PlaceOK
<1>7. OldtagOK
  BY <1>3, <1>4 DEF OldtagOK
<1>8. UnderOK
  BY <1>3, <1>5 DEF UnderOK
<1>9. OrderOK
  BY <1>4 DEF OrderOK, Earlier
<1>10. AnswerOK
  BY <1>3 DEF Init, AnswerOK
<1> QED BY <1>1, <1>2, <1>6, <1>7, <1>8, <1>9, <1>10 DEF IndInv, MessageInv

\* Every step keeps it.
LEMMA NextInv == IndInv /\ [Next]_vars => IndInv'
<1> SUFFICES ASSUME IndInv, [Next]_vars PROVE IndInv'
  OBVIOUS
<1>1. ReaderInv' /\ ReaderInv
  BY NextReader DEF IndInv
<1>2. Types /\ TurnOK /\ ListOK /\ ChainOK /\ QueuedOK /\ DoneOK /\ ErrOK /\ MessageInv
  BY <1>1, TypeParts DEF IndInv, ReaderInv
<1>3. TurnOK'
  BY <1>1 DEF ReaderInv, TypeOK, TurnOK
<1>4. ErrOK'
  BY <1>2, NextErr
<1>5. MessageInv'
  BY <1>2, <1>3, NextMessage
<1> QED BY <1>1, <1>4, <1>5 DEF IndInv

\* The invariant holds in every reachable state, whatever the numbers of
\* processes, headers and notes.
THEOREM Invariance == Spec => []IndInv
BY InitInv, NextInv, PTL DEF Spec

\* mntgate never drops the reading: while the channel works and nobody reads,
\* a process that waits for a reply does not sleep alone, another is on its
\* way to look at m->rip.
THEOREM ReadingPassedOn == Spec => []BatonHeld
<1>1. IndInv => BatonHeld
  BY DEF IndInv, ReaderInv, Baton, BatonHeld, WillLook, Comes
<1> QED BY <1>1, Invariance, PTL

\* mountmux's wakeup after unlock(m) reaches every process asleep on a
\* request it completed.
THEOREM ReplySeen == Spec => []ReplyNotSleptThrough
<1>1. IndInv => ReplyNotSleptThrough
  BY DEF IndInv, ReaderInv
<1> QED BY <1>1, Invariance, PTL

\* A tag goes back to mntralloc only when the server is done with it: the tag
\* of a free header is in no message under way, nor named by a flush.
THEOREM TagsNotReused == Spec => []TagQuiet
<1>1. IndInv => TagQuiet
  <2> SUFFICES ASSUME IndInv, ~hungup, NEW r \in Rpcs, r \notin InUse
               PROVE  /\ \A i \in DOMAIN srv : r \notin {srv[i].tag, srv[i].oldtag}
                      /\ \A i \in DOMAIN wire : wire[i].tag # r
    BY DEF TagQuiet, IndInv, ReaderInv
  <2>1. Types /\ ChainOK /\ Under \subseteq InUse /\ OldtagOK
    BY TypeParts DEF IndInv, ReaderInv, MessageInv, UnderOK
  <2>2. DOMAIN srv = 1..Len(srv) /\ DOMAIN wire = 1..Len(wire)
    BY <2>1 DEF Types
  <2>3. \A i \in DOMAIN wire : wire[i].tag # r
    BY <2>1, <2>2 DEF Under, Tags
  <2>4. ASSUME NEW i \in DOMAIN srv PROVE srv[i].tag # r /\ srv[i].oldtag # r
    <3>1. srv[i].tag \in InUse /\ srv[i].oldtag = oldtag[srv[i].tag]
      BY <2>1, <2>2 DEF Under, Tags, OldtagOK
    <3>2. PICK p \in Procs : srv[i].tag \in Own(p)
      BY <3>1, InUseOwn
    <3>3. chain[p] # <<>>
      BY <3>2 DEF Own, ToSet
    <3>4. chain[p][1] \in InUse
      BY <2>1, <3>3, EarlierFacts, InUseOwn
    <3>5. oldtag[srv[i].tag] \in {nil, chain[p][1]}
      BY <2>1, <3>2, <3>3 DEF OldtagOK
    <3> QED BY <3>1, <3>4, <3>5, NilAssumption
  <2> QED BY <2>3, <2>4
<1> QED BY <1>1, Invariance, PTL

\* While the channel works mountmux finds the request of every reply in
\* m->queue.
THEOREM RepliesExpected == Spec => []Expected
<1>1. IndInv => Expected
  <2> SUFFICES ASSUME IndInv, ~hungup, NEW p \in Procs, pc[p] = "mux"
               PROVE  reply[cur(p)].tag \in ToSet(queue)
    BY DEF Expected
  <2>1. reply[cur(p)].tag \in Under
    BY DEF Under, Mux
  <2>2. PICK s \in Procs : reply[cur(p)].tag \in Own(s)
    BY <2>1, InUseOwn DEF IndInv, MessageInv, UnderOK
  <2> QED BY <2>1, <2>2 DEF IndInv, MessageInv, UnderOK, Good
<1> QED BY <1>1, Invariance, PTL

\* What mountrpc finds in r->reply is what the server did, however often the
\* call was interrupted: the answer if there was one, Rflush if there was none.
THEOREM AnswersHonoured == Spec => []Honoured
<1>1. IndInv => Honoured
  <2> SUFFICES ASSUME IndInv, NEW p \in Procs, pc[p] = "ret", err[p] = ""
               PROVE  /\ reply[cur(p)].type = "R" => reply[cur(p)].tag = cur(p)
                      /\ reply[cur(p)].type = "R" <=> cur(p) \in answered
    BY DEF Honoured
  <2>1. Types /\ ChainOK /\ DoneOK /\ Good(p) /\ UnderOK /\ AnswerOK
    BY TypeParts DEF IndInv, ReaderInv, MessageInv, Good
  <2>2. done[cur(p)] /\ chain[p] # <<>> /\ cur(p) = chain[p][1] /\ cur(p) \in Own(p)
    BY <2>1, CurOwn, EarlierFacts DEF DoneOK
  <2>3. cur(p) \notin Tags(wire) /\ cur(p) \notin Mux
    BY <2>1, <2>2 DEF UnderOK, Under
  <2> QED BY <2>1, <2>2, <2>3 DEF AnswerOK
<1> QED BY <1>1, Invariance, PTL

=============================================================================

---------------------------- MODULE TimedProofs ----------------------------
(***************************************************************************)
(* Proofs about the two parts that the clock drives: the timer lists,      *)
(* Timers, and reliable datagrams, Rudp.  They have no names in common.    *)
(*                                                                         *)
(* Timers, for any processors, timers, delays and periods.  A periodic     *)
(* timer stays with one processor, its Home, on the list or in the hands   *)
(* of timerintr (Has); the periodic timers that a processor has agree on   *)
(* the phase, unless their period is in apart, a processor always has its  *)
(* HZ clock, and a relative timer moves only under its ilock.              *)
(*                                                                         *)
(* Rudp, for any two hosts, any modulus, window and bounds.  A connection  *)
(* either starts afresh or had reached number s on both sides when the run *)
(* began; s does not change, and everything that the hosts and the network *)
(* hold is stated with the count of messages that the numbers stand for.   *)
(***************************************************************************)
EXTENDS Timers, Rudp, ListProofs

-----------------------------------------------------------------------------
(* Timers: the invariant *)

\* The times of the list are in order.
Sorted(s, w) == \A i, j \in 1..Len(s) : i < j => w[s[i]] <= w[s[j]]

Moving == {"del", "add", "tdel"}

\* The processor a periodic timer belongs to, and the timers that are on m's
\* list or in the hands of its timerintr.
Home(t) == IF t \in Machs THEN t ELSE Mach0
Has(m, t) == tt[t] = m \/ cur[m] = t

\* The parts of the invariant.
TimerTypes ==
  /\ fastticks \in 0..MaxTime
  /\ list \in [Machs -> Seq(Timer)]
  /\ tt \in [Timer -> Machs \cup {none}]
  /\ twhen \in [Timer -> Nat] /\ tns \in [Timer -> Nat]
  /\ ilock \in [Timer -> Machs \cup {none}]
  /\ compare \in [Machs -> Nat \cup {none}]
  /\ pc \in [Machs -> PCs]
  /\ arg \in [Machs -> Timer \cup {none}] /\ cur \in [Machs -> Timer \cup {none}]
  /\ ltt \in [Machs -> Machs \cup {none}] /\ now \in [Machs -> 0..MaxTime]
  /\ stray \subseteq Machs /\ apart \subseteq Periods

TimerLists ==
  \A m \in Machs :
    /\ Distinct(list[m]) /\ Sorted(list[m], twhen)
    /\ \A t \in Timer : t \in ToSet(list[m]) <=> tt[t] = m

TimerLocks ==
  \A m \in Machs, t \in Timer : ilock[t] = m <=> pc[m] \in Moving /\ arg[m] = t

PointsAt(m) ==
  /\ pc[m] \in {"run", "enter", "loop"} => cur[m] = none
  /\ pc[m] = "tf" => cur[m] # none
  /\ pc[m] \in Moving => arg[m] \in Relative
  /\ pc[m] \in {"del", "tdel"} => ltt[m] \in Machs /\ tt[arg[m]] \in {ltt[m], none}
  /\ pc[m] = "add" => tt[arg[m]] = none
  /\ cur[m] \in Periodic => tt[cur[m]] = none
TimerPoints == \A m \in Machs : PointsAt(m)

TimerHome ==
  \A m \in Machs, t \in Periodic :
    Has(m, t) => m = Home(t) /\ twhen[t] > 0 /\ tns[t] \in Periods

\* a and b are a multiple of n apart.
Apart(a, b, n) == (a - b) % n = 0

TimerPhase ==
  \A m \in Machs : \A t, u \in Periodic :
    Has(m, t) /\ Has(m, u) /\ tns[t] = tns[u] /\ tns[t] \notin apart =>
      Apart(twhen[t], twhen[u], tns[t])

\* The HZ clock of a processor is never deleted.
TimerOwn == \A m \in Machs : Has(m, m)

SetAt(m) ==
  pc[m] \notin {"enter", "loop"} /\ cur[m] = none =>
    \A t \in Timer : tt[t] = m => compare[m] # none /\ (m \notin stray => compare[m] <= twhen[t])
TimerSet == \A m \in Machs : SetAt(m)

TimersInv ==
  /\ TimerTypes /\ TimerLists /\ TimerLocks /\ TimerPoints
  /\ TimerHome /\ TimerPhase /\ TimerOwn /\ TimerSet

LEMMA TimerFacts ==
  /\ Mach0 \in Machs /\ Machs \subseteq Timer /\ Links \subseteq Timer /\ Relative \subseteq Timer
  /\ Timer = Periodic \cup Relative /\ Periodic = Machs \cup Links
  /\ Periodic \cap Relative = {} /\ Machs \cap Links = {} /\ none \notin Timer /\ none \notin Nat
  /\ none \notin Machs /\ none \notin Relative /\ none \notin Periodic
  /\ Delays \subseteq Nat /\ Periods \subseteq Nat \ {0} /\ Hz \in Periods /\ MaxTime \in Nat
BY TimersAssumption DEF Timer, Periodic

-----------------------------------------------------------------------------
(* Times that are whole periods apart *)

\* The multiples of n are what leaves no remainder.
LEMMA Multiple ==
  ASSUME NEW a \in Int, NEW n \in Nat \ {0}
  PROVE  a % n = 0 <=> \E k \in Int : a = n * k
<1>1. a \div n \in Int /\ a % n \in 0..(n - 1)
  OBVIOUS
<1>4. a = (n * (a \div n)) + (a % n)
  OBVIOUS
<1>2. ASSUME NEW k \in Int, a = n * k PROVE a % n = 0
  <2>1. PICK q \in Int, r \in 0..(n - 1) : q = a \div n /\ r = a % n /\ n * k = (n * q) + r BY <1>1, <1>2, <1>4
  <2>2. r = n * (k - q) BY <2>1
  <2>3. CASE k - q >= 1
    <3>1. n * (k - q) >= n BY <2>3
    <3> QED BY <2>1, <2>2, <3>1
  <2>4. CASE k - q <= -1
    <3>1. n * (k - q) <= -n BY <2>4
    <3> QED BY <2>1, <2>2, <3>1
  <2>5. CASE k - q = 0 BY <2>1, <2>2, <2>5
  <2> QED BY <2>3, <2>4, <2>5
<1>3. ASSUME a % n = 0 PROVE \E k \in Int : a = n * k
  <2>1. a = n * (a \div n) BY <1>1, <1>3, <1>4
  <2> QED BY <1>1, <2>1
<1> QED BY <1>2, <1>3

\* Being a multiple apart is an equivalence, and one period does not matter.
LEMMA SamePhase ==
  ASSUME NEW a \in Int, NEW b \in Int, NEW c \in Int, NEW n \in Nat \ {0}
  PROVE  /\ Apart(a, a, n)
         /\ Apart(a, b, n) => Apart(b, a, n) /\ Apart(a + n, b, n) /\ Apart(b, a + n, n)
         /\ Apart(a, b, n) /\ Apart(b, c, n) => Apart(a, c, n)
<1>0. \A x, y \in Int : Apart(x, y, n) <=> \E k \in Int : x - y = n * k
  <2> SUFFICES ASSUME NEW x \in Int, NEW y \in Int PROVE Apart(x, y, n) <=> \E k \in Int : x - y = n * k
    OBVIOUS
  <2>1. x - y \in Int OBVIOUS
  <2> QED BY <2>1, Multiple DEF Apart
<1>1. Apart(a, a, n)
  <2>1. a - a = n * 0 OBVIOUS
  <2> QED BY <1>0, <2>1
<1>2. ASSUME Apart(a, b, n) PROVE Apart(b, a, n) /\ Apart(a + n, b, n) /\ Apart(b, a + n, n)
  <2>1. PICK k \in Int : a - b = n * k BY <1>0, <1>2
  <2>2. b - a = n * (-k) /\ (a + n) - b = n * (k + 1) /\ b - (a + n) = n * (-k - 1) BY <2>1
  <2>3. -k \in Int /\ k + 1 \in Int /\ -k - 1 \in Int /\ a + n \in Int OBVIOUS
  <2> QED BY <1>0, <2>2, <2>3
<1>3. ASSUME Apart(a, b, n), Apart(b, c, n) PROVE Apart(a, c, n)
  <2>1. PICK k \in Int : a - b = n * k BY <1>0, <1>3
  <2>2. PICK l \in Int : b - c = n * l BY <1>0, <1>3
  <2>3. a - c = n * (k + l) /\ k + l \in Int BY <2>1, <2>2
  <2> QED BY <1>0, <2>3
<1> QED BY <1>1, <1>2, <1>3

LEMMA SelfPhase ==
  ASSUME NEW a \in Nat, NEW n \in Nat \ {0}
  PROVE  Apart(a, a, n)
<1>1. a \in Int OBVIOUS
<1> QED BY <1>1, SamePhase

-----------------------------------------------------------------------------
(* Lists in order *)

\* A timer of time v linked in between the earlier and the later ones.
LEMMA SortedInsert ==
  ASSUME NEW s \in Seq(Timer), NEW w \in [Timer -> Nat], NEW x \in Timer, x \notin ToSet(s), NEW v \in Nat,
         NEW i \in 1..(Len(s) + 1), Sorted(s, w),
         \A j \in 1..Len(s) : (j < i => w[s[j]] <= v) /\ (j >= i => v <= w[s[j]])
  PROVE  Sorted(InsertAt(s, i, x), [w EXCEPT ![x] = v])
<1>1. PICK t : t = InsertAt(s, i, x) OBVIOUS
<1>2. PICK f : f = [w EXCEPT ![x] = v] OBVIOUS
<1>3. /\ Len(t) = Len(s) + 1 /\ Len(s) \in Nat
      /\ \A k \in 1..(Len(s) + 1) : t[k] = IF k < i THEN s[k] ELSE IF k = i THEN x ELSE s[k - 1]
  <2>1. /\ Len(InsertAt(s, i, x)) = Len(s) + 1
        /\ \A k \in 1..(Len(s) + 1) :
             InsertAt(s, i, x)[k] = IF k < i THEN s[k] ELSE IF k = i THEN x ELSE s[k - 1]
    BY InsertAtSet
  <2> QED BY <1>1, <2>1
<1>4. \A k \in 1..Len(s) : f[s[k]] = w[s[k]] /\ w[s[k]] \in Nat BY <1>2 DEF ToSet
<1>5. f[x] = v BY <1>2
<1> SUFFICES ASSUME NEW j \in 1..Len(t), NEW k \in 1..Len(t), j < k PROVE f[t[j]] <= f[t[k]]
  BY <1>1, <1>2 DEF Sorted
<1>6. j \in 1..(Len(s) + 1) /\ k \in 1..(Len(s) + 1) BY <1>3
<1>7. CASE k < i BY SMTT(30), <1>3, <1>4, <1>6, <1>7 DEF Sorted
<1>8. CASE k = i
  <2>1. t[k] = x /\ j < i /\ t[j] = s[j] /\ j \in 1..Len(s) BY <1>3, <1>6, <1>8
  <2> QED BY <1>4, <1>5, <2>1
<1>9. CASE k > i
  <2>1. t[k] = s[k - 1] /\ k - 1 \in 1..Len(s) /\ k - 1 >= i BY <1>3, <1>6, <1>9
  <2>2. CASE j < i
    <3>1. t[j] = s[j] /\ j \in 1..Len(s) /\ j < k - 1 BY <1>3, <1>6, <1>9, <2>2
    <3> QED BY <1>4, <2>1, <3>1 DEF Sorted
  <2>3. CASE j = i BY <1>3, <1>4, <1>5, <1>6, <2>1, <2>3
  <2>4. CASE j > i
    <3>1. t[j] = s[j - 1] /\ j - 1 \in 1..Len(s) /\ j - 1 < k - 1 BY <1>3, <1>6, <2>4
    <3> QED BY <1>4, <2>1, <3>1 DEF Sorted
  <2> QED BY <1>6, <2>2, <2>3, <2>4
<1> QED BY <1>6, <1>7, <1>8, <1>9

LEMMA SortedRemove ==
  ASSUME NEW s \in Seq(Timer), NEW w \in [Timer -> Nat], NEW x, Distinct(s), Sorted(s, w)
  PROVE  Sorted(RemoveFirst(s, x), w)
<1>1. CASE x \in ToSet(s)
  <2>1. PICK t : t = RemoveFirst(s, x) OBVIOUS
  <2>2. PICK i \in 1..Len(s) :
          /\ Len(t) = Len(s) - 1
          /\ \A k \in 1..(Len(s) - 1) : t[k] = IF k < i THEN s[k] ELSE s[k + 1]
    BY <1>1, <2>1, RemoveFirstPlaces
  <2> SUFFICES ASSUME NEW j \in 1..Len(t), NEW k \in 1..Len(t), j < k PROVE w[t[j]] <= w[t[k]]
    BY <2>1 DEF Sorted
  <2>3. j \in 1..(Len(s) - 1) /\ k \in 1..(Len(s) - 1) /\ Len(s) \in Nat BY <2>2
  <2>7. ASSUME NEW l \in 1..(Len(s) - 1)
        PROVE  \E g \in 1..Len(s) : t[l] = s[g] /\ g = IF l < i THEN l ELSE l + 1
    <3>1. CASE l < i BY <2>2, <2>3, <3>1
    <3>2. CASE ~(l < i) BY <2>2, <2>3, <3>2
    <3> QED BY <3>1, <3>2
  <2>4. PICK g \in 1..Len(s) : t[j] = s[g] /\ g = IF j < i THEN j ELSE j + 1 BY <2>3, <2>7
  <2>5. PICK h \in 1..Len(s) : t[k] = s[h] /\ h = IF k < i THEN k ELSE k + 1 BY <2>3, <2>7
  <2>6. g < h BY SMTT(30), <2>3, <2>4, <2>5
  <2> QED BY <2>4, <2>5, <2>6 DEF Sorted
<1>2. CASE x \notin ToSet(s)
  <2>1. RemoveFirst(s, x) = s BY <1>2 DEF RemoveFirst, ToSet
  <2> QED BY <2>1
<1> QED BY <1>1, <1>2

LEMMA SortedTail ==
  ASSUME NEW s \in Seq(Timer), NEW w \in [Timer -> Nat], s # <<>>, Distinct(s), Sorted(s, w)
  PROVE  /\ Head(s) \in Timer /\ Tail(s) \in Seq(Timer)
         /\ ToSet(Tail(s)) = ToSet(s) \ {Head(s)} /\ Head(s) \in ToSet(s)
         /\ Distinct(Tail(s)) /\ Sorted(Tail(s), w)
         /\ \A t \in ToSet(s) : w[Head(s)] <= w[t]
<1>1. ToSet(s) = Range(s) BY DEF ToSet, Range
<1>2. /\ Head(s) \in Timer /\ Head(s) \in Range(s) /\ Tail(s) \in Seq(Timer)
      /\ Range(Tail(s)) = Range(s) \ {Head(s)} /\ Distinct(Tail(s))
  BY TailRange
<1>3. ToSet(Tail(s)) = Range(Tail(s)) BY DEF ToSet, Range
<1>4. Len(Tail(s)) = Len(s) - 1 /\ Len(s) \in Nat \ {0} /\ Head(s) = s[1]
      /\ \A i \in 1..(Len(s) - 1) : Tail(s)[i] = s[i + 1]
  OBVIOUS
<1>5. Sorted(Tail(s), w)
  <2> SUFFICES ASSUME NEW j \in 1..(Len(s) - 1), NEW k \in 1..(Len(s) - 1), j < k
               PROVE  w[Tail(s)[j]] <= w[Tail(s)[k]]
    BY <1>4 DEF Sorted
  <2>1. j + 1 \in 1..Len(s) /\ k + 1 \in 1..Len(s) /\ j + 1 < k + 1 BY <1>4
  <2> QED BY <1>4, <2>1 DEF Sorted
<1>6. ASSUME NEW t \in ToSet(s) PROVE w[Head(s)] <= w[t]
  <2>1. PICK i \in 1..Len(s) : t = s[i] BY DEF ToSet
  <2>2. w[s[1]] \in Nat /\ 1 \in 1..Len(s) BY <1>2, <1>4
  <2>3. CASE i = 1 BY <1>4, <2>1, <2>2, <2>3
  <2>4. CASE i # 1
    <3>1. 1 < i BY <1>4, <2>4
    <3> QED BY <1>4, <2>1, <2>2, <3>1 DEF Sorted
  <2> QED BY <2>3, <2>4
<1> QED BY <1>1, <1>2, <1>3, <1>5, <1>6

\* The place tadd finds is between the earlier and the later timers.
LEMMA PlaceFits ==
  ASSUME TimerTypes, TimerLists, NEW m \in Machs, NEW v \in Nat
  PROVE  /\ place(m, v) \in 1..(Len(list[m]) + 1)
         /\ \A j \in 1..Len(list[m]) :
              /\ j < place(m, v) => twhen[list[m][j]] <= v
              /\ j >= place(m, v) => v <= twhen[list[m][j]]
<1>1. PICK s : s = list[m] OBVIOUS
<1>2. s \in Seq(Timer) /\ Len(s) \in Nat /\ DOMAIN s = 1..Len(s) /\ Sorted(s, twhen)
  BY <1>1 DEF TimerTypes, TimerLists
<1>3. \A j \in 1..Len(s) : twhen[s[j]] \in Nat BY <1>2 DEF TimerTypes
<1> DEFINE later == {i \in DOMAIN s : twhen[s[i]] > v}
<1>4. place(m, v) = IF later = {} THEN Len(s) + 1 ELSE Min(later) BY <1>1 DEF place
<1>5. CASE later = {} BY <1>1, <1>2, <1>3, <1>4, <1>5
<1>6. CASE later # {}
  <2>1. later \in SUBSET Nat BY <1>2
  <2>2. PICK k : k = Min(later) OBVIOUS
  <2>3. k \in later /\ \A j \in later : k <= j BY <1>6, <2>1, <2>2, LeastIsMin
  <2>4. k \in 1..Len(s) /\ twhen[s[k]] > v BY <1>2, <2>3
  <2>5. ASSUME NEW j \in 1..Len(s), j < k PROVE twhen[s[j]] <= v
    BY <1>2, <1>3, <2>3, <2>4, <2>5
  <2>6. ASSUME NEW j \in 1..Len(s), j >= k PROVE v <= twhen[s[j]]
    <3>1. CASE j = k BY <1>3, <2>4, <3>1
    <3>2. CASE j # k
      <4>1. k < j BY <2>4, <2>6, <3>2
      <4>2. twhen[s[k]] <= twhen[s[j]] BY <1>2, <2>4, <4>1 DEF Sorted
      <4> QED BY <1>3, <2>4, <4>2
    <3> QED BY <3>1, <3>2
  <2> HIDE DEF later
  <2> QED BY <1>1, <1>2, <1>4, <1>6, <2>2, <2>4, <2>5, <2>6
<1> QED BY <1>5, <1>6

-----------------------------------------------------------------------------
(* tadd and tdel *)

LEMMA PhaseFound ==
  ASSUME TimerTypes, TimerLists, NEW m \in Machs, NEW ns \in Nat
  PROVE  \/ /\ phase(m, ns) = fastticks
            /\ \A u \in Periodic : tt[u] = m => tns[u] # ns
         \/ \E u \in Periodic : tt[u] = m /\ tns[u] = ns /\ phase(m, ns) = twhen[u]
<1>1. PICK s : s = list[m] OBVIOUS
<1>2. s \in Seq(Timer) /\ Len(s) \in Nat /\ DOMAIN s = 1..Len(s) BY <1>1 DEF TimerTypes
<1> DEFINE same == {i \in DOMAIN s : s[i] \in Periodic /\ tns[s[i]] = ns}
<1>3. phase(m, ns) = IF same = {} THEN fastticks ELSE twhen[s[Min(same)]] BY <1>1 DEF phase
<1>4. \A u \in Timer : tt[u] = m <=> \E i \in 1..Len(s) : s[i] = u
  BY <1>1, <1>2 DEF TimerLists, ToSet
<1>5. CASE same = {}
  <2>1. \A u \in Periodic : tt[u] = m => tns[u] # ns BY <1>2, <1>4, <1>5, TimerFacts
  <2> QED BY <1>3, <1>5, <2>1
<1>6. CASE same # {}
  <2>1. same \in SUBSET Nat BY <1>2
  <2>2. PICK k : k = Min(same) OBVIOUS
  <2>3. k \in same BY <1>6, <2>1, <2>2, LeastIsMin
  <2>4. k \in 1..Len(s) /\ s[k] \in Periodic /\ tns[s[k]] = ns BY <1>2, <2>3
  <2>5. tt[s[k]] = m BY <1>2, <1>4, <2>4
  <2> HIDE DEF same
  <2> QED BY <1>3, <1>6, <2>2, <2>4, <2>5
<1> QED BY <1>5, <1>6

\* The time tadd gives a timer.
LEMMA WhenGiven ==
  ASSUME TimerTypes, TimerLists, NEW m \in Machs, NEW t \in Timer, NEW ns \in Nat
  PROVE  /\ when(m, t, ns) \in Nat
         /\ t \in Periodic /\ twhen[t] # 0 => when(m, t, ns) = twhen[t] + ns
         /\ t \in Periodic /\ twhen[t] = 0 => when(m, t, ns) = phase(m, ns) + ns /\ phase(m, ns) \in Nat
<1>1. phase(m, ns) \in Nat
  <2>1. fastticks \in Nat /\ \A u \in Timer : twhen[u] \in Nat BY TimerFacts DEF TimerTypes
  <2> QED BY <2>1, PhaseFound, TimerFacts
<1>2. fastticks \in Nat /\ twhen[t] \in Nat BY TimerFacts DEF TimerTypes
<1>3. CASE t \in Relative
  <2>1. when(m, t, ns) = fastticks + ns /\ t \notin Periodic BY <1>3, TimerFacts DEF when
  <2> QED BY <1>2, <2>1
<1>4. CASE t \notin Relative
  <2>1. when(m, t, ns) = (IF twhen[t] = 0 THEN phase(m, ns) ELSE twhen[t]) + ns BY <1>4 DEF when
  <2> QED BY <1>1, <1>2, <2>1
<1> QED BY <1>3, <1>4

LEMMA TaddLists ==
  ASSUME TimerTypes, TimerLists, NEW m \in Machs, NEW t \in Timer, NEW ns \in Nat,
         tt[t] = none, tadd(m, t, ns)
  PROVE  /\ list' \in [Machs -> Seq(Timer)] /\ tt' \in [Timer -> Machs \cup {none}]
         /\ twhen' \in [Timer -> Nat] /\ TimerLists'
         /\ tt' = [tt EXCEPT ![t] = m] /\ twhen' = [twhen EXCEPT ![t] = when(m, t, ns)]
         /\ first(m, t, ns) => \A u \in Timer : tt[u] = m => when(m, t, ns) <= twhen[u]
         /\ ~first(m, t, ns) => \E u \in Timer : tt[u] = m /\ twhen[u] <= when(m, t, ns)
<1>1. PICK v : v = when(m, t, ns) OBVIOUS
<1>2. v \in Nat BY <1>1, WhenGiven
<1>3. PICK k : k = place(m, v) OBVIOUS
<1>4. PICK s : s = list[m] OBVIOUS
<1>5. /\ s \in Seq(Timer) /\ Len(s) \in Nat /\ DOMAIN s = 1..Len(s) /\ Distinct(s) /\ Sorted(s, twhen)
      /\ \A u \in Timer : u \in ToSet(s) <=> tt[u] = m
  BY <1>4 DEF TimerTypes, TimerLists
<1>6. /\ k \in 1..(Len(s) + 1)
      /\ \A j \in 1..Len(s) : (j < k => twhen[s[j]] <= v) /\ (j >= k => v <= twhen[s[j]])
  BY <1>2, <1>3, <1>4, PlaceFits
<1>7. t \notin ToSet(s) BY <1>5, TimerFacts
<1>8. PICK l : l = InsertAt(s, k, t) OBVIOUS
<1>9. l \in Seq(Timer) /\ ToSet(l) = ToSet(s) \cup {t} /\ Distinct(l)
  <2>1. /\ InsertAt(s, k, t) \in Seq(Timer) /\ ToSet(InsertAt(s, k, t)) = ToSet(s) \cup {t}
        /\ Distinct(s) /\ t \notin ToSet(s) => Distinct(InsertAt(s, k, t))
    BY <1>5, <1>6, InsertAtSet
  <2> QED BY <1>5, <1>7, <1>8, <2>1
<1>10. list' = [list EXCEPT ![m] = l] /\ tt' = [tt EXCEPT ![t] = m] /\ twhen' = [twhen EXCEPT ![t] = v]
  BY <1>1, <1>3, <1>4, <1>8 DEF tadd
<1>11. Sorted(l, twhen')
  <2>1. twhen \in [Timer -> Nat] BY DEF TimerTypes
  <2>2. Sorted(InsertAt(s, k, t), [twhen EXCEPT ![t] = v])
    BY <1>2, <1>5, <1>6, <1>7, <2>1, SortedInsert
  <2> QED BY <1>8, <1>10, <2>2
<1>12. list' \in [Machs -> Seq(Timer)] /\ tt' \in [Timer -> Machs \cup {none}] /\ twhen' \in [Timer -> Nat]
  BY <1>2, <1>9, <1>10 DEF TimerTypes
<1>13. ASSUME NEW x \in Machs
       PROVE  /\ Distinct(list'[x]) /\ Sorted(list'[x], twhen')
              /\ \A u \in Timer : u \in ToSet(list'[x]) <=> tt'[u] = x
  <2>1. CASE x = m
    <3>1. list'[x] = l BY <1>10, <2>1 DEF TimerTypes
    <3>2. \A u \in Timer : u \in ToSet(l) <=> tt'[u] = m BY <1>5, <1>9, <1>10 DEF TimerTypes
    <3> QED BY <1>9, <1>11, <2>1, <3>1, <3>2
  <2>2. CASE x # m
    <3>1. list'[x] = list[x] /\ list[x] \in Seq(Timer) BY <1>10, <2>2 DEF TimerTypes
    <3>2. /\ Distinct(list[x]) /\ Sorted(list[x], twhen)
          /\ \A u \in Timer : u \in ToSet(list[x]) <=> tt[u] = x
      BY DEF TimerLists
    <3>3. \A u \in Timer : u \in ToSet(list[x]) <=> tt'[u] = x
      BY <1>10, <2>2, <3>2, TimerFacts DEF TimerTypes
    <3>4. \A i \in 1..Len(list[x]) : list[x][i] \in Timer /\ list[x][i] \in ToSet(list[x])
      BY <3>1 DEF ToSet
    <3>5. \A i \in 1..Len(list[x]) : list[x][i] # t BY <3>2, <3>4, TimerFacts
    <3>6. \A i \in 1..Len(list[x]) : twhen'[list[x][i]] = twhen[list[x][i]]
      BY <1>10, <3>4, <3>5 DEF TimerTypes
    <3>7. Sorted(list[x], twhen') BY <3>2, <3>6 DEF Sorted
    <3> QED BY <3>1, <3>2, <3>3, <3>7
  <2> QED BY <2>1, <2>2
<1>14. TimerLists' BY <1>13 DEF TimerLists
<1>15. first(m, t, ns) <=> k = 1 BY <1>1, <1>3 DEF first
<1>16. ASSUME k = 1, NEW u \in Timer, tt[u] = m PROVE v <= twhen[u]
  <2>1. PICK j \in 1..Len(s) : s[j] = u BY <1>5, <1>16 DEF ToSet
  <2> QED BY <1>5, <1>6, <1>16, <2>1
<1>17. ASSUME k # 1 PROVE \E u \in Timer : tt[u] = m /\ twhen[u] <= v
  <2>1. 1 \in 1..Len(s) /\ 1 < k BY <1>5, <1>6, <1>17
  <2>2. s[1] \in Timer /\ s[1] \in ToSet(s) BY <1>5, <2>1 DEF ToSet
  <2> QED BY <1>5, <1>6, <2>1, <2>2
<1> QED BY <1>1, <1>10, <1>12, <1>14, <1>15, <1>16, <1>17

LEMMA TdelLists ==
  ASSUME TimerTypes, TimerLists, NEW t \in Timer, tdel(t), twhen' = twhen
  PROVE  /\ list' \in [Machs -> Seq(Timer)] /\ tt' \in [Timer -> Machs \cup {none}]
         /\ tt' = [tt EXCEPT ![t] = none] /\ TimerLists'
<1>1. tt' = [tt EXCEPT ![t] = none] /\ tt' \in [Timer -> Machs \cup {none}] BY DEF tdel, TimerTypes
<1>2. ASSUME NEW x \in Machs
      PROVE  /\ list'[x] \in Seq(Timer) /\ Distinct(list'[x]) /\ Sorted(list'[x], twhen')
             /\ \A u \in Timer : u \in ToSet(list'[x]) <=> tt'[u] = x
  <2>1. /\ list[x] \in Seq(Timer) /\ Distinct(list[x]) /\ Sorted(list[x], twhen)
        /\ \A u \in Timer : u \in ToSet(list[x]) <=> tt[u] = x
    BY DEF TimerTypes, TimerLists
  <2>2. CASE tt[t] = x
    <3>1. list'[x] = RemoveFirst(list[x], t) BY <2>2, TimerFacts DEF tdel, TimerTypes
    <3>2. /\ RemoveFirst(list[x], t) \in Seq(Timer) /\ Distinct(RemoveFirst(list[x], t))
          /\ ToSet(RemoveFirst(list[x], t)) = ToSet(list[x]) \ {t}
      BY <2>1, RemoveFirstSet
    <3>3. Sorted(RemoveFirst(list[x], t), twhen) BY <2>1, SortedRemove DEF TimerTypes
    <3>4. \A u \in Timer : u \in ToSet(list[x]) \ {t} <=> tt'[u] = x
      BY <1>1, <2>1, <2>2, TimerFacts DEF TimerTypes
    <3> QED BY <3>1, <3>2, <3>3, <3>4
  <2>3. CASE tt[t] # x
    <3>1. list'[x] = list[x] BY <2>3 DEF tdel, TimerTypes
    <3>2. \A u \in Timer : u \in ToSet(list[x]) <=> tt'[u] = x
      BY <1>1, <2>1, <2>3, TimerFacts DEF TimerTypes
    <3> QED BY <2>1, <3>1, <3>2
  <2> QED BY <2>2, <2>3
<1>3. list' \in [Machs -> Seq(Timer)]
  <2>1. DOMAIN list' = Machs /\ list' = [x \in Machs |-> list'[x]] BY DEF tdel, TimerTypes
  <2> QED BY <1>2, <2>1
<1> QED BY <1>1, <1>2, <1>3 DEF TimerLists

-----------------------------------------------------------------------------
(* What a step leaves alone *)

\* The other processors do not notice.
Others(m) ==
  \A x \in Machs \ {m} :
    /\ pc'[x] = pc[x] /\ arg'[x] = arg[x] /\ ltt'[x] = ltt[x] /\ cur'[x] = cur[x]
    /\ compare'[x] = compare[x] /\ (x \in stray' <=> x \in stray)

LEMMA ListsKept ==
  ASSUME TimerLists, list' = list, tt' = tt, twhen' = twhen
  PROVE  TimerLists'
BY DEF TimerLists

LEMMA LocksKept ==
  ASSUME TimerLocks, ilock' = ilock, arg' = arg,
         \A x \in Machs : pc'[x] \in Moving <=> pc[x] \in Moving
  PROVE  TimerLocks'
BY DEF TimerLocks

LEMMA PointsKept ==
  ASSUME TimerPoints, NEW x \in Machs, pc'[x] = pc[x], arg'[x] = arg[x], ltt'[x] = ltt[x], cur'[x] = cur[x],
         pc[x] \in Moving => tt'[arg[x]] \in {tt[arg[x]], none},
         cur[x] \in Periodic => tt'[cur[x]] \in {tt[cur[x]], none}
  PROVE  PointsAt(x)'
BY DEF TimerPoints, PointsAt, Moving

LEMMA PhaseKept ==
  ASSUME TimerHome, TimerPhase, apart \subseteq apart',
         \A x \in Machs, t \in Periodic : Has(x, t)' => Has(x, t) /\ twhen'[t] = twhen[t] /\ tns'[t] = tns[t]
  PROVE  TimerHome' /\ TimerPhase'
<1>1. TimerHome' BY DEF TimerHome
<1>2. TimerPhase' BY DEF TimerPhase
<1> QED BY <1>1, <1>2

LEMMA SetKept ==
  ASSUME TimerSet, NEW x \in Machs, compare'[x] = compare[x], x \in stray => x \in stray',
         pc'[x] \notin {"enter", "loop"} /\ cur'[x] = none => pc[x] \notin {"enter", "loop"} /\ cur[x] = none,
         \A t \in Timer : tt'[t] = x => tt[t] = x /\ twhen'[t] = twhen[t]
  PROVE  SetAt(x)'
BY DEF TimerSet, SetAt


-----------------------------------------------------------------------------
(* The clock and the interrupt *)

LEMMA tickInv ==
  ASSUME TimersInv, tick
  PROVE  TimersInv'
<1>1. TimerTypes' BY TimerFacts DEF TimersInv, TimerTypes, tick
<1>2. TimerLists' BY ListsKept DEF TimersInv, tick
<1>3. TimerLocks' BY LocksKept DEF TimersInv, tick
<1>4. TimerPoints' BY DEF TimersInv, tick, TimerPoints, PointsAt
<1>5. TimerHome' /\ TimerPhase' BY PhaseKept DEF TimersInv, tick, Has
<1>6. TimerSet' BY DEF TimersInv, tick, TimerSet, SetAt
<1>7. TimerOwn' BY DEF TimersInv, tick, TimerOwn, Has
<1> QED BY <1>1, <1>2, <1>3, <1>4, <1>5, <1>6, <1>7 DEF TimersInv

\* The steps of timerintr that move no timer.
LEMMA timerintrInv ==
  ASSUME TimersInv, NEW m \in Machs, timerintr(m) \/ timerintrLock(m) \/ timerintrReturn(m)
  PROVE  TimersInv'
<1>1. /\ UNCHANGED <<fastticks, list, tt, twhen, tns, ilock, arg, ltt, cur, apart>>
      /\ pc[m] \in {"run", "enter", "loop"} /\ pc'[m] \in {"run", "enter", "loop"} /\ cur[m] = none
      /\ Others(m)
  BY DEF TimersInv, TimerTypes, TimerPoints, PointsAt, timerintr, timerintrLock, timerintrReturn, Others
<1>2. TimerTypes'
  <2>1. CASE timerintr(m) BY <2>1 DEF TimersInv, TimerTypes, timerintr, PCs
  <2>2. CASE timerintrLock(m) BY <2>2 DEF TimersInv, TimerTypes, timerintrLock, PCs
  <2>3. CASE timerintrReturn(m)
    <3>1. list[m] # <<>> => twhen[Head(list[m])] \in Nat BY DEF TimersInv, TimerTypes
    <3> QED BY SMTT(30), <2>3, <3>1, TimerFacts DEF TimersInv, TimerTypes, timerintrReturn, PCs
  <2> QED BY <2>1, <2>2, <2>3
<1>3. TimerLists' BY <1>1, ListsKept DEF TimersInv
<1>4. TimerLocks'
  <2>1. \A x \in Machs : pc'[x] \in Moving <=> pc[x] \in Moving BY <1>1 DEF Others, Moving
  <2> QED BY <1>1, <2>1, LocksKept DEF TimersInv
<1>5. ASSUME NEW x \in Machs PROVE PointsAt(x)'
  <2>1. CASE x = m BY <1>1, <2>1, TimerFacts DEF PointsAt, Moving
  <2>2. CASE x # m BY <1>1, <2>2, PointsKept DEF TimersInv, Others
  <2> QED BY <2>1, <2>2
<1>6. TimerHome' /\ TimerPhase' BY <1>1, PhaseKept DEF TimersInv, Has
<1>7. ASSUME NEW x \in Machs PROVE SetAt(x)'
  <2>1. CASE x = m
    <3>1. CASE timerintr(m) \/ timerintrLock(m)
      <4>1. pc'[m] \in {"enter", "loop"} BY <3>1 DEF timerintr, timerintrLock, TimersInv, TimerTypes
      <4> QED BY <2>1, <4>1 DEF SetAt
    <3>2. CASE timerintrReturn(m)
      <4>1. list[m] \in Seq(Timer) /\ Distinct(list[m]) /\ Sorted(list[m], twhen) /\ twhen \in [Timer -> Nat]
            /\ \A t \in Timer : t \in ToSet(list[m]) <=> tt[t] = m
        BY DEF TimersInv, TimerTypes, TimerLists
      <4>2. CASE list[m] = <<>>
        <5>1. ToSet(list[m]) = {} BY <4>2 DEF ToSet
        <5> QED BY <1>1, <2>1, <4>1, <5>1 DEF SetAt
      <4>3. CASE list[m] # <<>>
        <5>1. Head(list[m]) \in Timer /\ \A t \in ToSet(list[m]) : twhen[Head(list[m])] <= twhen[t]
          BY <4>1, <4>3, SortedTail
        <5>2. compare'[m] = twhen[Head(list[m])] BY <3>2, <4>3 DEF timerintrReturn, TimersInv, TimerTypes
        <5>3. compare'[m] \in Nat BY <4>1, <5>1, <5>2
        <5> QED BY <1>1, <2>1, <4>1, <5>1, <5>2, <5>3, TimerFacts DEF SetAt
      <4> QED BY <4>2, <4>3
    <3> QED BY <3>1, <3>2
  <2>2. CASE x # m BY <1>1, <2>2, SetKept DEF TimersInv, Others
  <2> QED BY <2>1, <2>2
<1>8. TimerOwn' BY <1>1 DEF TimersInv, TimerOwn, Has
<1> QED BY <1>2, <1>3, <1>4, <1>5, <1>6, <1>7, <1>8 DEF TimersInv, TimerPoints, TimerSet

LEMMA timerintrFireInv ==
  ASSUME TimersInv, NEW m \in Machs, timerintrFire(m)
  PROVE  TimersInv'
<1>1. /\ list[m] \in Seq(Timer) /\ list[m] # <<>> /\ Distinct(list[m]) /\ Sorted(list[m], twhen)
      /\ twhen \in [Timer -> Nat] /\ \A t \in Timer : t \in ToSet(list[m]) <=> tt[t] = m
  BY DEF TimersInv, TimerTypes, TimerLists, timerintrFire
<1>2. PICK h : h = Head(list[m]) OBVIOUS
<1>3. /\ h \in Timer /\ Tail(list[m]) \in Seq(Timer) /\ ToSet(Tail(list[m])) = ToSet(list[m]) \ {h}
      /\ h \in ToSet(list[m]) /\ Distinct(Tail(list[m])) /\ Sorted(Tail(list[m]), twhen)
  BY <1>1, <1>2, SortedTail
<1>4. tt[h] = m BY <1>1, <1>3
<1>5. /\ tt' = [tt EXCEPT ![h] = none] /\ cur' = [cur EXCEPT ![m] = h]
      /\ list' = [list EXCEPT ![m] = Tail(list[m])]
      /\ pc[m] = "loop" /\ pc' = [pc EXCEPT ![m] = "tf"]
      /\ UNCHANGED <<fastticks, twhen, tns, ilock, compare, arg, ltt, now, stray, apart>>
  BY <1>2 DEF timerintrFire
<1>6. Others(m) /\ cur'[m] = h /\ pc'[m] = "tf" /\ tt'[h] = none /\ \A t \in Timer \ {h} : tt'[t] = tt[t]
  BY <1>3, <1>5 DEF Others, TimersInv, TimerTypes
<1>7. TimerTypes' BY <1>3, <1>5 DEF TimersInv, TimerTypes, PCs
<1>8. ASSUME NEW x \in Machs
      PROVE  /\ Distinct(list'[x]) /\ Sorted(list'[x], twhen')
             /\ \A t \in Timer : t \in ToSet(list'[x]) <=> tt'[t] = x
  <2>1. CASE x = m
    <3>1. list'[x] = Tail(list[m]) BY <1>5, <2>1 DEF TimersInv, TimerTypes
    <3>2. \A t \in Timer : t \in ToSet(list[m]) \ {h} <=> tt'[t] = m BY <1>1, <1>4, <1>6, TimerFacts
    <3> QED BY <1>3, <1>5, <2>1, <3>1, <3>2
  <2>2. CASE x # m
    <3>1. list'[x] = list[x] BY <1>5, <2>2 DEF TimersInv, TimerTypes
    <3>2. \A t \in Timer : tt[t] = x <=> tt'[t] = x BY <1>4, <1>6, <2>2, TimerFacts
    <3>3. Distinct(list[x]) /\ Sorted(list[x], twhen) /\ \A t \in Timer : t \in ToSet(list[x]) <=> tt[t] = x
      BY DEF TimersInv, TimerLists
    <3> QED BY <1>5, <3>1, <3>2, <3>3
  <2> QED BY <2>1, <2>2
<1>9. TimerLists' BY <1>8 DEF TimerLists
<1>10. TimerLocks'
  <2>1. \A x \in Machs : pc'[x] \in Moving <=> pc[x] \in Moving BY <1>5, <1>6 DEF Others, Moving
  <2> QED BY <1>5, <2>1, LocksKept DEF TimersInv
<1>11. \A t \in Timer : tt'[t] \in {tt[t], none} BY <1>6
<1>12. ASSUME NEW x \in Machs PROVE PointsAt(x)'
  <2>1. CASE x = m BY <1>3, <1>6, <2>1, TimerFacts DEF PointsAt, Moving
  <2>2. CASE x # m
    <3>1. arg[x] \in Timer => tt'[arg[x]] \in {tt[arg[x]], none} BY <1>11
    <3>2. pc[x] \in Moving => arg[x] \in Timer BY TimerFacts DEF TimersInv, TimerPoints, PointsAt
    <3>3. cur[x] \in Periodic => tt'[cur[x]] \in {tt[cur[x]], none} BY <1>11, TimerFacts
    <3> QED BY <1>6, <2>2, <3>1, <3>2, <3>3, PointsKept DEF TimersInv, Others
  <2> QED BY <2>1, <2>2
<1>13. TimerHome' /\ TimerPhase'
  <2>1. ASSUME NEW x \in Machs, NEW t \in Periodic, Has(x, t)' PROVE Has(x, t)
    <3>1. t \in Timer BY TimerFacts
    <3>2. CASE x = m
      <4>1. CASE t = h BY <1>4, <3>2, <4>1 DEF Has
      <4>2. CASE t # h BY <1>6, <2>1, <3>1, <3>2, <4>2 DEF Has
      <4> QED BY <4>1, <4>2
    <3>3. CASE x # m
      <4>1. cur'[x] = cur[x] BY <1>6, <3>3 DEF Others
      <4> QED BY <1>11, <2>1, <3>1, <4>1, TimerFacts DEF Has
    <3> QED BY <3>2, <3>3
  <2> QED BY <1>5, <2>1, PhaseKept DEF TimersInv
<1>14. ASSUME NEW x \in Machs PROVE SetAt(x)'
  <2>1. CASE x = m BY <1>3, <1>6, <2>1, TimerFacts DEF SetAt
  <2>2. CASE x # m
    <3>1. \A t \in Timer : tt'[t] = x => tt[t] = x /\ twhen'[t] = twhen[t] BY <1>5, <1>11, TimerFacts
    <3> QED BY <1>6, <2>2, <3>1, SetKept DEF TimersInv, Others
  <2> QED BY <2>1, <2>2
<1>15. ASSUME NEW x \in Machs PROVE Has(x, x)'
  <2>1. Has(x, x) /\ x \in Timer BY TimerFacts DEF TimersInv, TimerOwn
  <2>2. CASE x = h
    <3>1. x = m BY <1>4, <2>1, <2>2, TimerFacts DEF Has, TimersInv, TimerPoints, PointsAt
    <3> QED BY <1>6, <2>2, <3>1 DEF Has
  <2>3. CASE x # h
    <3>1. cur[x] = x => x # m BY <1>5, TimerFacts DEF TimersInv, TimerPoints, PointsAt
    <3> QED BY <1>6, <2>1, <2>3, <3>1 DEF Has, Others
  <2> QED BY <2>2, <2>3
<1> QED BY <1>7, <1>9, <1>10, <1>12, <1>13, <1>14, <1>15 DEF TimersInv, TimerPoints, TimerOwn, TimerSet

-----------------------------------------------------------------------------
(* timeradd and timerdel *)

\* A timer is locked, and the processor whose list it is on is remembered.
LEMMA timeraddInv ==
  ASSUME TimersInv, NEW m \in Machs, NEW t \in Relative,
         timerdel(m, t) \/ \E ns \in Delays : timeradd(m, t, ns)
  PROVE  TimersInv'
<1>1. /\ callable(m) /\ ilock[t] = none /\ ilock' = [ilock EXCEPT ![t] = m]
      /\ ltt' = [ltt EXCEPT ![m] = tt[t]] /\ arg' = [arg EXCEPT ![m] = t]
      /\ UNCHANGED <<fastticks, list, tt, twhen, compare, cur, now, stray, apart>>
  BY DEF timeradd, timerdel
<1>2. PICK p \in Moving : pc' = [pc EXCEPT ![m] = p] /\ (p = "add" <=> tt[t] = none)
  <2>1. CASE timerdel(m, t)
    <3>1. "tdel" \in Moving BY DEF Moving
    <3> QED BY <2>1, <3>1 DEF timerdel
  <2>2. CASE \E ns \in Delays : timeradd(m, t, ns)
    <3>1. "del" \in Moving /\ "add" \in Moving BY DEF Moving
    <3> QED BY <2>2, <3>1 DEF timeradd
  <2> QED BY <2>1, <2>2
<1>3. tns' \in [Timer -> Nat] /\ \A u \in Periodic : tns'[u] = tns[u]
  <2>1. tns \in [Timer -> Nat] BY DEF TimersInv, TimerTypes
  <2>2. CASE timerdel(m, t) BY <2>1, <2>2 DEF timerdel
  <2>3. CASE \E ns \in Delays : timeradd(m, t, ns)
    <3>1. PICK ns \in Delays : tns' = [tns EXCEPT ![t] = ns] BY <2>3 DEF timeradd
    <3>2. ns \in Nat /\ \A u \in Periodic : u # t /\ u \in Timer BY TimerFacts
    <3> QED BY <2>1, <3>1, <3>2
  <2> QED BY <2>2, <2>3
<1>4. t \in Timer /\ pc[m] \in {"run", "tf"} /\ pc[m] \notin Moving BY <1>1, TimerFacts DEF callable, Moving
<1>5. Others(m) /\ pc'[m] = p /\ arg'[m] = t /\ ltt'[m] = tt[t] /\ cur'[m] = cur[m] /\ tt[t] \in Machs \cup {none}
  BY <1>1, <1>2, <1>4 DEF Others, TimersInv, TimerTypes
<1>6. TimerTypes'
  <2>1. Moving \subseteq PCs BY DEF Moving, PCs
  <2>2. pc' \in [Machs -> PCs] BY <1>2, <2>1 DEF TimersInv, TimerTypes
  <2> QED BY <1>1, <1>3, <1>4, <2>2 DEF TimersInv, TimerTypes
<1>7. TimerLists' BY <1>1, ListsKept DEF TimersInv
<1>8. ASSUME NEW x \in Machs, NEW u \in Timer
      PROVE  ilock'[u] = x <=> pc'[x] \in Moving /\ arg'[x] = u
  <2>1. ilock[u] = x <=> pc[x] \in Moving /\ arg[x] = u BY DEF TimersInv, TimerLocks
  <2>2. ilock'[u] = IF u = t THEN m ELSE ilock[u] BY <1>1, <1>4 DEF TimersInv, TimerTypes
  <2>3. CASE x = m
    <3>1. ilock[u] # m BY <1>4, <2>1, <2>3
    <3> QED BY <1>2, <1>5, <2>2, <2>3, <3>1
  <2>4. CASE x # m
    <3>1. pc'[x] = pc[x] /\ arg'[x] = arg[x] BY <1>5, <2>4 DEF Others
    <3> QED BY <1>1, <2>1, <2>2, <2>4, <3>1, TimerFacts
  <2> QED BY <2>3, <2>4
<1>9. ASSUME NEW x \in Machs PROVE PointsAt(x)'
  <2>1. CASE x = m
    <3>1. p \in {"del", "add", "tdel"} BY DEF Moving
    <3>2. p # "add" => tt[t] \in Machs BY <1>2, <1>5
    <3>3. cur[m] \in Periodic => tt[cur[m]] = none BY DEF TimersInv, TimerPoints, PointsAt
    <3> QED BY <1>1, <1>2, <1>5, <2>1, <3>1, <3>2, <3>3 DEF PointsAt
  <2>2. CASE x # m BY <1>1, <1>5, <2>2, PointsKept DEF TimersInv, Others
  <2> QED BY <2>1, <2>2
<1>10. TimerHome' /\ TimerPhase' BY <1>1, <1>3, PhaseKept DEF TimersInv, Has
<1>11. ASSUME NEW x \in Machs PROVE SetAt(x)'
  <2>1. pc'[x] \notin {"enter", "loop"} => pc[x] \notin {"enter", "loop"} BY <1>4, <1>5 DEF Others
  <2> QED BY <1>1, <2>1, SetKept DEF TimersInv
<1>12. TimerOwn' BY <1>1 DEF TimersInv, TimerOwn, Has
<1> QED BY <1>6, <1>7, <1>8, <1>9, <1>10, <1>11, <1>12 DEF TimersInv, TimerLocks, TimerPoints, TimerSet

\* Whoever moves a timer has it locked: no other processor is at it.
LEMMA OwnTimer ==
  ASSUME TimersInv, NEW m \in Machs, pc[m] \in Moving
  PROVE  /\ arg[m] \in Relative /\ arg[m] \in Timer /\ ilock[arg[m]] = m
         /\ \A x \in Machs \ {m} : pc[x] \in Moving => arg[x] # arg[m]
<1>1. arg[m] \in Relative /\ arg[m] \in Timer BY TimerFacts DEF TimersInv, TimerPoints, PointsAt
<1> QED BY <1>1 DEF TimersInv, TimerLocks

LEMMA timeraddDelInv ==
  ASSUME TimersInv, NEW m \in Machs, timeraddDel(m)
  PROVE  TimersInv'
<1>1. /\ pc[m] = "del" /\ tdel(arg[m]) /\ pc' = [pc EXCEPT ![m] = "add"]
      /\ UNCHANGED <<fastticks, twhen, tns, ilock, compare, arg, ltt, cur, now, stray, apart>>
  BY DEF timeraddDel
<1>2. PICK t : t = arg[m] OBVIOUS
<1>3. t \in Relative /\ t \in Timer BY <1>1, <1>2, OwnTimer DEF Moving
<1>4. /\ list' \in [Machs -> Seq(Timer)] /\ tt' \in [Timer -> Machs \cup {none}]
      /\ tt' = [tt EXCEPT ![t] = none] /\ TimerLists'
  BY <1>1, <1>2, <1>3, TdelLists DEF TimersInv
<1>5. tt'[t] = none /\ \A u \in Timer : tt'[u] \in {tt[u], none} BY <1>3, <1>4 DEF TimersInv, TimerTypes
<1>6. Others(m) /\ pc'[m] = "add" BY <1>1 DEF Others, TimersInv, TimerTypes
<1>7. TimerTypes' BY <1>1, <1>4 DEF TimersInv, TimerTypes, PCs
<1>8. TimerLocks'
  <2>1. \A x \in Machs : pc'[x] \in Moving <=> pc[x] \in Moving BY <1>1, <1>6 DEF Others, Moving
  <2> QED BY <1>1, <2>1, LocksKept DEF TimersInv
<1>9. ASSUME NEW x \in Machs PROVE PointsAt(x)'
  <2>0. cur[x] \in Periodic => tt'[cur[x]] \in {tt[cur[x]], none} BY <1>5, TimerFacts
  <2>1. CASE x = m
    <3>1. cur[m] \in Periodic => tt[cur[m]] = none BY DEF TimersInv, TimerPoints, PointsAt
    <3> QED BY <1>1, <1>2, <1>3, <1>5, <1>6, <2>0, <2>1, <3>1 DEF PointsAt, Moving
  <2>2. CASE x # m
    <3>1. pc[x] \in Moving => tt'[arg[x]] \in {tt[arg[x]], none} BY <1>5, OwnTimer
    <3> QED BY <1>6, <2>0, <2>2, <3>1, PointsKept DEF TimersInv, Others
  <2> QED BY <2>1, <2>2
<1>10. TimerHome' /\ TimerPhase'
  <2>1. ASSUME NEW x \in Machs, NEW u \in Periodic, Has(x, u)' PROVE Has(x, u)
    <3>1. u \in Timer BY TimerFacts
    <3> QED BY <1>1, <1>5, <2>1, <3>1, TimerFacts DEF Has
  <2> QED BY <1>1, <2>1, PhaseKept DEF TimersInv
<1>11. ASSUME NEW x \in Machs PROVE SetAt(x)'
  <2>1. pc'[x] \notin {"enter", "loop"} => pc[x] \notin {"enter", "loop"} BY <1>1, <1>6 DEF Others
  <2>2. \A u \in Timer : tt'[u] = x => tt[u] = x /\ twhen'[u] = twhen[u] BY <1>1, <1>5, TimerFacts
  <2> QED BY <1>1, <2>1, <2>2, SetKept DEF TimersInv
<1>12. TimerOwn'
  <2>1. \A x \in Machs : x \in Timer /\ tt'[x] = tt[x] /\ cur'[x] = cur[x]
    BY <1>1, <1>3, <1>4, TimerFacts DEF TimersInv, TimerTypes
  <2> QED BY <2>1 DEF TimersInv, TimerOwn, Has
<1> QED BY <1>4, <1>7, <1>8, <1>9, <1>10, <1>11, <1>12 DEF TimersInv, TimerPoints, TimerSet

\* The timer is unlocked and m returns.
LEMMA Unlocked ==
  ASSUME TimersInv, NEW m \in Machs, pc[m] \in Moving,
         ilock' = [ilock EXCEPT ![arg[m]] = none], pc' = [pc EXCEPT ![m] = return(m)], forget(m)
  PROVE  /\ TimerLocks' /\ pc' \in [Machs -> PCs]
         /\ ilock' \in [Timer -> Machs \cup {none}] /\ arg' \in [Machs -> Timer \cup {none}]
         /\ ltt' \in [Machs -> Machs \cup {none}]
         /\ pc'[m] \in {"run", "tf"} /\ (pc'[m] = "run" <=> cur[m] = none)
         /\ \A x \in Machs \ {m} : pc'[x] = pc[x] /\ arg'[x] = arg[x] /\ ltt'[x] = ltt[x]
<1>1. PICK t : t = arg[m] OBVIOUS
<1>2. t \in Timer /\ ilock[t] = m BY <1>1, OwnTimer
<1>3. return(m) \in {"run", "tf"} /\ (return(m) = "run" <=> cur[m] = none) BY DEF return
<1>4. pc'[m] = return(m) BY DEF TimersInv, TimerTypes
<1>5. \A x \in Machs \ {m} : pc'[x] = pc[x] /\ arg'[x] = arg[x] /\ ltt'[x] = ltt[x]
  BY DEF forget, TimersInv, TimerTypes
<1>6. ASSUME NEW x \in Machs, NEW u \in Timer
      PROVE  ilock'[u] = x <=> pc'[x] \in Moving /\ arg'[x] = u
  <2>1. ilock[u] = x <=> pc[x] \in Moving /\ arg[x] = u BY DEF TimersInv, TimerLocks
  <2>2. ilock'[u] = IF u = t THEN none ELSE ilock[u] BY <1>1, <1>2 DEF TimersInv, TimerTypes
  <2>3. CASE x = m
    <3>1. pc'[m] \notin Moving BY <1>3, <1>4 DEF Moving
    <3> QED BY <1>1, <2>1, <2>2, <2>3, <3>1, TimerFacts
  <2>4. CASE x # m
    <3>1. pc'[x] = pc[x] /\ arg'[x] = arg[x] BY <1>5, <2>4
    <3> QED BY <1>2, <2>1, <2>2, <2>4, <3>1, TimerFacts
  <2> QED BY <2>3, <2>4
<1>7. pc' \in [Machs -> PCs] /\ ilock' \in [Timer -> Machs \cup {none}]
      /\ arg' \in [Machs -> Timer \cup {none}] /\ ltt' \in [Machs -> Machs \cup {none}]
  <2>1. return(m) \in PCs BY <1>3 DEF PCs
  <2> QED BY <1>2, <2>1 DEF TimersInv, TimerTypes, forget
<1> QED BY <1>3, <1>4, <1>5, <1>6, <1>7 DEF TimerLocks

\* A timer came onto the list of m, and the clock of m is set if it is first.
LEMMA SetAdded ==
  ASSUME TimersInv, NEW m \in Machs, NEW t \in Timer, NEW v \in Nat, NEW f \in BOOLEAN,
         pc[m] \notin {"enter", "loop"}, cur' = cur,
         \A x \in Machs \ {m} : pc'[x] \notin {"enter", "loop"} => pc[x] \notin {"enter", "loop"},
         compare' = IF f THEN [compare EXCEPT ![m] = v] ELSE compare,
         stray \ {m} \subseteq stray', ~f => stray \subseteq stray',
         f => \A u \in Timer : tt[u] = m => v <= twhen[u],
         ~f => \E u \in Timer : tt[u] = m /\ twhen[u] <= v,
         tt'[t] = m, twhen'[t] = v,
         \A u \in Timer \ {t} : tt'[u] = tt[u] /\ twhen'[u] = twhen[u]
  PROVE  TimerSet'
<1>1. SetAt(m)'
  <2> SUFFICES ASSUME cur[m] = none, NEW u \in Timer, tt'[u] = m
               PROVE  compare'[m] # none /\ (m \notin stray' => compare'[m] <= twhen'[u])
    BY DEF SetAt
  <2>1. \A w \in Timer : tt[w] = m => compare[m] # none /\ (m \notin stray => compare[m] <= twhen[w])
    BY DEF TimersInv, TimerSet, SetAt
  <2>2. CASE f
    <3>1. compare'[m] = v BY <2>2 DEF TimersInv, TimerTypes
    <3>2. v # none BY TimerFacts
    <3>3. CASE u = t BY <3>1, <3>2, <3>3
    <3>4. CASE u # t BY <2>2, <3>1, <3>2, <3>4
    <3> QED BY <3>3, <3>4
  <2>3. CASE ~f
    <3>1. compare'[m] = compare[m] /\ compare[m] \in Nat \cup {none} BY <2>3 DEF TimersInv, TimerTypes
    <3>2. CASE u = t
      <4>1. PICK w \in Timer : tt[w] = m /\ twhen[w] <= v BY <2>3
      <4>2. compare[m] # none /\ (m \notin stray => compare[m] <= twhen[w]) /\ twhen[w] \in Nat
        BY <2>1, <4>1 DEF TimersInv, TimerTypes
      <4>3. m \notin stray' => m \notin stray BY <2>3
      <4> QED BY <3>1, <3>2, <4>1, <4>2, <4>3
    <3>3. CASE u # t BY <2>1, <2>3, <3>1, <3>3
    <3> QED BY <3>2, <3>3
  <2> QED BY <2>2, <2>3
<1>2. ASSUME NEW x \in Machs \ {m} PROVE SetAt(x)'
  <2>1. compare'[x] = compare[x] BY DEF TimersInv, TimerTypes
  <2>2. \A u \in Timer : tt'[u] = x => tt[u] = x /\ twhen'[u] = twhen[u] OBVIOUS
  <2> QED BY <2>1, <2>2, SetKept DEF TimersInv
<1> QED BY <1>1, <1>2 DEF TimerSet

LEMMA timeraddAddInv ==
  ASSUME TimersInv, NEW m \in Machs, timeraddAdd(m)
  PROVE  TimersInv'
<1>1. PICK t : t = arg[m] OBVIOUS
<1>2. PICK v : v = when(m, t, tns[t]) OBVIOUS
<1>3. /\ pc[m] = "add" /\ tadd(m, t, tns[t])
      /\ compare' = IF first(m, t, tns[t]) THEN [compare EXCEPT ![m] = v] ELSE compare
      /\ stray' = IF first(m, t, tns[t]) THEN stray \ {m} ELSE stray
      /\ UNCHANGED <<fastticks, tns, cur, now, apart>>
  BY <1>1, <1>2 DEF timeraddAdd
<1>4. pc[m] \in Moving BY <1>3 DEF Moving
<1>5. /\ TimerLocks' /\ pc' \in [Machs -> PCs]
      /\ ilock' \in [Timer -> Machs \cup {none}] /\ arg' \in [Machs -> Timer \cup {none}]
      /\ ltt' \in [Machs -> Machs \cup {none}]
      /\ pc'[m] \in {"run", "tf"} /\ (pc'[m] = "run" <=> cur[m] = none)
      /\ \A x \in Machs \ {m} : pc'[x] = pc[x] /\ arg'[x] = arg[x] /\ ltt'[x] = ltt[x]
  <2>1. /\ ilock' = [ilock EXCEPT ![arg[m]] = none] /\ pc' = [pc EXCEPT ![m] = return(m)] /\ forget(m)
    BY DEF timeraddAdd
  <2> QED BY <1>4, <2>1, Unlocked
<1>6. t \in Relative /\ t \in Timer /\ \A x \in Machs \ {m} : pc[x] \in Moving => arg[x] # t
  BY <1>1, <1>4, OwnTimer
<1>7. tns[t] \in Nat /\ tt[t] = none /\ fastticks \in Nat
  BY <1>1, <1>3, <1>6 DEF TimersInv, TimerTypes, TimerPoints, PointsAt
<1>8. v \in Nat BY <1>2, <1>6, <1>7, WhenGiven DEF TimersInv
<1>9. /\ list' \in [Machs -> Seq(Timer)] /\ tt' \in [Timer -> Machs \cup {none}]
      /\ twhen' \in [Timer -> Nat] /\ TimerLists'
      /\ tt' = [tt EXCEPT ![t] = m] /\ twhen' = [twhen EXCEPT ![t] = v]
      /\ first(m, t, tns[t]) => \A u \in Timer : tt[u] = m => v <= twhen[u]
      /\ ~first(m, t, tns[t]) => \E u \in Timer : tt[u] = m /\ twhen[u] <= v
  BY <1>2, <1>3, <1>6, <1>7, TaddLists DEF TimersInv
<1>10. /\ tt'[t] = m /\ twhen'[t] = v
       /\ \A u \in Timer \ {t} : tt'[u] = tt[u] /\ twhen'[u] = twhen[u]
  BY <1>6, <1>9 DEF TimersInv, TimerTypes
<1>11. TimerTypes' BY <1>3, <1>5, <1>8, <1>9 DEF TimersInv, TimerTypes
<1>12. \A x \in Machs : cur[x] \in Periodic => cur[x] \in Timer \ {t} BY <1>6, TimerFacts
<1>13. ASSUME NEW x \in Machs PROVE PointsAt(x)'
  <2>1. CASE x = m
    <3>1. cur[m] \in Periodic => tt[cur[m]] = none BY DEF TimersInv, TimerPoints, PointsAt
    <3>2. cur[m] \in Periodic => tt'[cur[m]] = none BY <1>10, <1>12, <3>1
    <3> QED BY <1>3, <1>5, <2>1, <3>2 DEF PointsAt, Moving
  <2>2. CASE x # m
    <3>1. pc[x] \in Moving => tt'[arg[x]] \in {tt[arg[x]], none} BY <1>6, <1>10, <2>2, OwnTimer
    <3>2. cur[x] \in Periodic => tt'[cur[x]] \in {tt[cur[x]], none} BY <1>10, <1>12
    <3> QED BY <1>3, <1>5, <2>2, <3>1, <3>2, PointsKept DEF TimersInv
  <2> QED BY <2>1, <2>2
<1>14. TimerHome' /\ TimerPhase'
  <2>1. \A u \in Periodic : u \in Timer \ {t} BY <1>6, TimerFacts
  <2>2. \A x \in Machs, u \in Periodic : Has(x, u)' => Has(x, u) /\ twhen'[u] = twhen[u] /\ tns'[u] = tns[u]
    BY <1>3, <1>10, <2>1 DEF Has
  <2>3. apart \subseteq apart' BY <1>3
  <2> QED BY <2>2, <2>3, PhaseKept DEF TimersInv
<1>15. TimerSet'
  <2>1. pc[m] \notin {"enter", "loop"}
        /\ \A x \in Machs \ {m} : pc'[x] \notin {"enter", "loop"} => pc[x] \notin {"enter", "loop"}
    BY <1>3, <1>5
  <2>2. PICK f \in BOOLEAN : f <=> first(m, t, tns[t]) OBVIOUS
  <2>3. cur' = cur /\ compare' = IF f THEN [compare EXCEPT ![m] = v] ELSE compare
    BY <1>3, <2>2
  <2>4. stray \ {m} \subseteq stray' /\ (~f => stray \subseteq stray')
    <3>1. stray' = IF f THEN stray \ {m} ELSE stray BY <1>3, <2>2
    <3> QED BY <3>1
  <2>5. /\ f => \A u \in Timer : tt[u] = m => v <= twhen[u]
        /\ ~f => \E u \in Timer : tt[u] = m /\ twhen[u] <= v
    BY <1>9, <2>2
  <2> QED BY <1>6, <1>8, <1>10, <2>1, <2>3, <2>4, <2>5, SetAdded
<1>16. TimerOwn'
  <2>1. \A x \in Machs : x \in Timer \ {t} BY <1>6, TimerFacts
  <2> QED BY <1>3, <1>10, <2>1 DEF TimersInv, TimerOwn, Has
<1> QED BY <1>5, <1>9, <1>11, <1>13, <1>14, <1>15, <1>16 DEF TimersInv, TimerPoints

LEMMA timerdelDelInv ==
  ASSUME TimersInv, NEW m \in Machs, timerdelDel(m)
  PROVE  TimersInv'
<1>1. PICK t : t = arg[m] OBVIOUS
<1>2. PICK l : l = list[ltt[m]] OBVIOUS
<1>3. PICK head \in BOOLEAN : head <=> tt[t] # none /\ l[1] = t /\ Len(l) > 1 OBVIOUS
<1>4. /\ pc[m] = "tdel" /\ tdel(t)
      /\ compare' = IF head /\ ltt[m] = m THEN [compare EXCEPT ![m] = twhen[l[2]]] ELSE compare
      /\ stray' = IF head /\ ltt[m] = m THEN stray \ {m} ELSE stray
      /\ UNCHANGED <<fastticks, twhen, tns, cur, now, apart>>
  BY <1>1, <1>2, <1>3 DEF timerdelDel
<1>5. pc[m] \in Moving BY <1>4 DEF Moving
<1>6. /\ TimerLocks' /\ pc' \in [Machs -> PCs]
      /\ ilock' \in [Timer -> Machs \cup {none}] /\ arg' \in [Machs -> Timer \cup {none}]
      /\ ltt' \in [Machs -> Machs \cup {none}]
      /\ pc'[m] \in {"run", "tf"} /\ (pc'[m] = "run" <=> cur[m] = none)
      /\ \A x \in Machs \ {m} : pc'[x] = pc[x] /\ arg'[x] = arg[x] /\ ltt'[x] = ltt[x]
  <2>1. /\ ilock' = [ilock EXCEPT ![arg[m]] = none] /\ pc' = [pc EXCEPT ![m] = return(m)] /\ forget(m)
    BY DEF timerdelDel
  <2> QED BY <1>5, <2>1, Unlocked
<1>7. t \in Relative /\ t \in Timer BY <1>1, <1>5, OwnTimer
<1>8. /\ list' \in [Machs -> Seq(Timer)] /\ tt' \in [Timer -> Machs \cup {none}]
      /\ tt' = [tt EXCEPT ![t] = none] /\ TimerLists'
  BY <1>4, <1>7, TdelLists DEF TimersInv
<1>9. tt'[t] = none /\ \A u \in Timer : tt'[u] \in {tt[u], none} BY <1>7, <1>8 DEF TimersInv, TimerTypes
<1>10. ltt[m] \in Machs BY <1>4 DEF TimersInv, TimerPoints, PointsAt
<1>11. l \in Seq(Timer) /\ Sorted(l, twhen) /\ twhen \in [Timer -> Nat]
       /\ \A u \in Timer : u \in ToSet(l) <=> tt[u] = ltt[m]
  BY <1>2, <1>10 DEF TimersInv, TimerTypes, TimerLists
<1>12. head => twhen[l[2]] \in Nat
  <2>1. head => 2 \in 1..Len(l) BY <1>3, <1>11
  <2> QED BY <1>11, <2>1
<1>13. TimerTypes'
  <2>1. compare' \in [Machs -> Nat \cup {none}] BY <1>4, <1>12 DEF TimersInv, TimerTypes
  <2> QED BY <1>4, <1>6, <1>8, <2>1 DEF TimersInv, TimerTypes
<1>14. ASSUME NEW x \in Machs PROVE PointsAt(x)'
  <2>0. cur[x] \in Periodic => tt'[cur[x]] \in {tt[cur[x]], none} BY <1>9, TimerFacts
  <2>1. CASE x = m
    <3>1. cur[m] \in Periodic => tt[cur[m]] = none BY DEF TimersInv, TimerPoints, PointsAt
    <3> QED BY <1>4, <1>6, <2>0, <2>1, <3>1 DEF PointsAt, Moving
  <2>2. CASE x # m
    <3>1. pc[x] \in Moving => tt'[arg[x]] \in {tt[arg[x]], none} BY <1>9, OwnTimer
    <3> QED BY <1>4, <1>6, <2>0, <2>2, <3>1, PointsKept DEF TimersInv
  <2> QED BY <2>1, <2>2
<1>15. TimerHome' /\ TimerPhase'
  <2>1. ASSUME NEW x \in Machs, NEW u \in Periodic, Has(x, u)' PROVE Has(x, u)
    <3>1. u \in Timer BY TimerFacts
    <3> QED BY <1>4, <1>9, <2>1, <3>1, TimerFacts DEF Has
  <2> QED BY <1>4, <2>1, PhaseKept DEF TimersInv
<1>16. ASSUME NEW x \in Machs PROVE SetAt(x)'
  <2>1. \A u \in Timer : tt'[u] = x => tt[u] = x /\ twhen'[u] = twhen[u] /\ u # t BY <1>4, <1>9, TimerFacts
  <2>2. pc'[x] \notin {"enter", "loop"} => pc[x] \notin {"enter", "loop"} BY <1>4, <1>6
  <2>3. CASE x = m /\ head /\ ltt[m] = m
    <3>1. compare'[x] = twhen[l[2]] BY <1>4, <2>3 DEF TimersInv, TimerTypes
    <3>2. ASSUME NEW u \in Timer, tt'[u] = x PROVE twhen[l[2]] <= twhen[u]
      <4>1. u \in ToSet(l) /\ u # t BY <1>11, <2>1, <2>3, <3>2
      <4>2. PICK i \in 1..Len(l) : u = l[i] BY <4>1 DEF ToSet
      <4>3. i # 1 /\ 2 \in 1..Len(l) BY <1>3, <1>11, <2>3, <4>1, <4>2
      <4>4. CASE i = 2 BY <1>11, <4>2, <4>3, <4>4
      <4>5. CASE i # 2
        <5>1. 2 < i BY <4>2, <4>3, <4>5
        <5> QED BY <1>11, <4>2, <4>3, <5>1 DEF Sorted
      <4> QED BY <4>4, <4>5
    <3> QED BY <1>4, <1>12, <2>3, <3>1, <3>2, TimerFacts DEF SetAt
  <2>4. CASE ~(x = m /\ head /\ ltt[m] = m)
    <3>1. compare'[x] = compare[x] /\ (x \in stray => x \in stray') BY <1>4, <2>4 DEF TimersInv, TimerTypes
    <3> QED BY <1>4, <2>1, <2>2, <3>1, SetKept DEF TimersInv
  <2> QED BY <2>3, <2>4
<1>17. TimerOwn'
  <2>1. \A x \in Machs : x \in Timer /\ tt'[x] = tt[x] /\ cur'[x] = cur[x]
    BY <1>4, <1>7, <1>8, TimerFacts DEF TimersInv, TimerTypes
  <2> QED BY <2>1 DEF TimersInv, TimerOwn, Has
<1> QED BY <1>6, <1>8, <1>13, <1>14, <1>15, <1>16, <1>17 DEF TimersInv, TimerPoints, TimerSet

-----------------------------------------------------------------------------
(* Periodic timers *)

\* A new one gets the phase of those of its period, if one is on the list; and
\* processor p sets its own clock.
LEMMA addclock0linkInv ==
  ASSUME TimersInv, NEW p \in Machs, NEW t \in Links, NEW ns \in Periods, addclock0link(p, t, ns)
  PROVE  TimersInv'
<1>1. PICK m : m = Mach0 OBVIOUS
<1>2. PICK v : v = when(m, t, ns) OBVIOUS
<1>3. /\ pc[p] = "run" /\ pc[m] # "loop" /\ twhen[t] = 0 /\ tadd(m, t, ns)
      /\ tns' = [tns EXCEPT ![t] = ns]
      /\ compare' = IF first(m, t, ns) THEN [compare EXCEPT ![p] = v] ELSE compare
      /\ stray' = IF first(m, t, ns) THEN stray \cup strayed(p) ELSE stray
      /\ apart' = apart \cup parted(ns)
      /\ UNCHANGED <<fastticks, ilock, pc, arg, ltt, cur, now>>
  BY <1>1, <1>2 DEF addclock0link, canilock
<1>4. /\ m \in Machs /\ t \in Timer /\ t \in Periodic /\ t \notin Relative /\ ns \in Nat \ {0} /\ Home(t) = m
      /\ Periodic \subseteq Timer
  BY <1>1, TimerFacts DEF Home
<1>5. \A x \in Machs : ~Has(x, t)
  <2>1. ~(twhen[t] > 0) BY <1>3
  <2> QED BY <1>4, <2>1 DEF TimersInv, TimerHome
<1>6. tt[t] = none /\ \A x \in Machs : cur[x] # t
  BY <1>4, <1>5 DEF Has, TimersInv, TimerTypes
<1>7. v = phase(m, ns) + ns /\ phase(m, ns) \in Nat /\ v \in Nat
  BY <1>2, <1>3, <1>4, WhenGiven DEF TimersInv
<1>8. /\ list' \in [Machs -> Seq(Timer)] /\ tt' \in [Timer -> Machs \cup {none}]
      /\ twhen' \in [Timer -> Nat] /\ TimerLists'
      /\ tt' = [tt EXCEPT ![t] = m] /\ twhen' = [twhen EXCEPT ![t] = v]
      /\ first(m, t, ns) => \A u \in Timer : tt[u] = m => v <= twhen[u]
      /\ ~first(m, t, ns) => \E u \in Timer : tt[u] = m /\ twhen[u] <= v
  BY <1>2, <1>3, <1>4, <1>6, TaddLists DEF TimersInv
<1>9. /\ tt'[t] = m /\ twhen'[t] = v /\ tns'[t] = ns
      /\ \A u \in Timer \ {t} : tt'[u] = tt[u] /\ twhen'[u] = twhen[u] /\ tns'[u] = tns[u]
  BY <1>3, <1>4, <1>8 DEF TimersInv, TimerTypes
<1>10. TimerTypes'
  <2>1. strayed(p) \subseteq Machs /\ parted(ns) \subseteq Periods BY TimerFacts DEF strayed, parted
  <2> QED BY <1>3, <1>4, <1>7, <1>8, <2>1 DEF TimersInv, TimerTypes
<1>11. TimerLocks' BY <1>3, LocksKept DEF TimersInv
<1>12. ASSUME NEW x \in Machs PROVE PointsAt(x)'
  <2>1. pc[x] \in Moving => arg[x] \in Timer \ {t} BY <1>4, OwnTimer
  <2>2. cur[x] \in Periodic => cur[x] \in Timer \ {t} BY <1>4, <1>6
  <2> QED BY <1>3, <1>9, <2>1, <2>2, PointsKept DEF TimersInv
<1>13. ASSUME NEW x \in Machs, NEW u \in Periodic, Has(x, u)'
       PROVE  \/ u = t /\ x = m
              \/ u # t /\ Has(x, u) /\ twhen'[u] = twhen[u] /\ tns'[u] = tns[u]
  BY <1>3, <1>4, <1>6, <1>9, <1>13 DEF Has
<1>14. ASSUME NEW x \in Machs, NEW u \in Periodic, Has(x, u)'
       PROVE  x = Home(u) /\ twhen'[u] > 0 /\ tns'[u] \in Periods
  <2>1. CASE u = t
    <3>1. v > 0 BY <1>4, <1>7
    <3> QED BY <1>4, <1>9, <1>13, <1>14, <2>1, <3>1
  <2>2. CASE u # t BY <1>13, <1>14, <2>2 DEF TimersInv, TimerHome
  <2> QED BY <2>1, <2>2
<1>15. ASSUME NEW u \in Periodic, u # t, Has(m, u), tns[u] = ns, ns \notin apart'
       PROVE  Apart(v, twhen[u], ns) /\ Apart(twhen[u], v, ns)
  <2>1. twhen[u] \in Int /\ phase(m, ns) \in Int BY <1>4, <1>7 DEF TimersInv, TimerTypes
  <2>2. \E w \in Periodic : tt[w] = m /\ tns[w] = ns
    <3>1. CASE tt[u] = m BY <1>15, <3>1
    <3>2. CASE tt[u] # m
      <4>1. cur[m] = u /\ parted(ns) # {ns} BY <1>3, <1>15, <3>2 DEF Has
      <4>2. PICK w \in ToSet(list[m]) \cap Periodic : tns[w] = ns BY <1>1, <1>15, <4>1 DEF parted
      <4> QED BY <1>4, <4>2 DEF TimersInv, TimerLists
    <3> QED BY <3>1, <3>2
  <2>3. PICK w \in Periodic : tt[w] = m /\ tns[w] = ns /\ phase(m, ns) = twhen[w]
    BY <1>4, <2>2, PhaseFound DEF TimersInv
  <2>4. Apart(twhen[w], twhen[u], ns)
    BY <1>3, <1>4, <1>15, <2>3 DEF TimersInv, TimerPhase, Has
  <2>5. Apart(phase(m, ns) + ns, twhen[u], ns) /\ Apart(twhen[u], phase(m, ns) + ns, ns)
    BY <1>4, <2>1, <2>3, <2>4, SamePhase
  <2> QED BY <1>7, <2>5
<1>16. ASSUME NEW x \in Machs, NEW u \in Periodic, NEW w \in Periodic, Has(x, u)', Has(x, w)',
              tns'[u] = tns'[w], tns'[u] \notin apart'
       PROVE  Apart(twhen'[u], twhen'[w], tns'[u])
  <2>1. CASE u = t /\ w = t
    <3>1. Apart(v, v, ns) BY <1>4, <1>7, SelfPhase
    <3> QED BY <1>9, <2>1, <3>1
  <2>2. CASE u = t /\ w # t BY <1>9, <1>13, <1>15, <1>16, <2>2
  <2>3. CASE u # t /\ w = t BY <1>9, <1>13, <1>15, <1>16, <2>3
  <2>4. CASE u # t /\ w # t BY <1>3, <1>13, <1>16, <2>4 DEF TimersInv, TimerPhase
  <2> QED BY <2>1, <2>2, <2>3, <2>4
<1>17. TimerHome' /\ TimerPhase' BY <1>14, <1>16 DEF TimerHome, TimerPhase
<1>18. TimerOwn'
  <2>1. \A x \in Machs : x \in Timer \ {t} BY <1>4, TimerFacts
  <2> QED BY <1>3, <1>9, <2>1 DEF TimersInv, TimerOwn, Has
<1>19. CASE p = m
  <2>1. pc[m] \notin {"enter", "loop"}
        /\ \A x \in Machs \ {m} : pc'[x] \notin {"enter", "loop"} => pc[x] \notin {"enter", "loop"}
    BY <1>3, <1>19
  <2>2. PICK f \in BOOLEAN : f <=> first(m, t, ns) OBVIOUS
  <2>3. cur' = cur /\ compare' = IF f THEN [compare EXCEPT ![m] = v] ELSE compare
    BY <1>3, <1>19, <2>2
  <2>4. stray \ {m} \subseteq stray' /\ (~f => stray \subseteq stray')
    <3>1. stray' = IF f THEN stray \cup strayed(p) ELSE stray BY <1>3, <2>2
    <3> QED BY <3>1
  <2>6. /\ f => \A u \in Timer : tt[u] = m => v <= twhen[u]
        /\ ~f => \E u \in Timer : tt[u] = m /\ twhen[u] <= v
    BY <1>8, <2>2
  <2>7. tt'[t] = m /\ twhen'[t] = v /\ \A u \in Timer \ {t} : tt'[u] = tt[u] /\ twhen'[u] = twhen[u]
    BY <1>9
  <2>5. TimerSet' BY <1>4, <1>7, <2>1, <2>3, <2>4, <2>6, <2>7, SetAdded
  <2> QED BY <1>8, <1>10, <1>11, <1>12, <1>17, <1>18, <2>5 DEF TimersInv, TimerPoints
<1>20. CASE p # m
  <2>1. ASSUME NEW x \in Machs PROVE SetAt(x)'
    <3>1. CASE x = m
      <4> SUFFICES ASSUME pc[m] \notin {"enter", "loop"}, cur[m] = none, NEW u \in Timer, tt'[u] = m
                   PROVE  compare'[m] # none /\ (m \notin stray' => compare'[m] <= twhen'[u])
        BY <1>3, <3>1 DEF SetAt
      <4>1. \A w \in Timer : tt[w] = m => compare[m] # none /\ (m \notin stray => compare[m] <= twhen[w])
        BY <1>4 DEF TimersInv, TimerSet, SetAt
      <4>2. tt[m] = m /\ m \in Timer BY <1>4, TimerFacts DEF TimersInv, TimerOwn, Has
      <4>3. compare'[m] = compare[m] /\ compare[m] # none /\ compare[m] \in Nat
        BY <1>3, <1>4, <1>20, <4>1, <4>2 DEF TimersInv, TimerTypes
      <4>4. CASE first(m, t, ns) BY <1>1, <1>3, <1>20, <4>3, <4>4 DEF strayed
      <4>5. CASE ~first(m, t, ns)
        <5>1. stray' = stray BY <1>3, <4>5
        <5>2. CASE u = t
          <6>1. PICK w \in Timer : tt[w] = m /\ twhen[w] <= v BY <1>8, <4>5
          <6>2. twhen[w] \in Nat BY DEF TimersInv, TimerTypes
          <6> QED BY <1>7, <1>9, <4>1, <4>3, <5>1, <5>2, <6>1, <6>2
        <5>3. CASE u # t BY <1>9, <4>1, <4>3, <5>1, <5>3
        <5> QED BY <5>2, <5>3
      <4> QED BY <4>4, <4>5
    <3>2. CASE x # m
      <4>1. \A u \in Timer : tt'[u] = x => tt[u] = x /\ twhen'[u] = twhen[u] BY <1>9, <3>2
      <4>2. CASE x = p /\ first(m, t, ns)
        <5>1. compare'[x] = v /\ x \in stray'
          BY <1>1, <1>3, <1>20, <4>2 DEF strayed, TimersInv, TimerTypes
        <5> QED BY <1>7, <5>1, TimerFacts DEF SetAt
      <4>3. CASE ~(x = p /\ first(m, t, ns))
        <5>1. compare'[x] = compare[x] /\ (x \in stray => x \in stray')
          BY <1>3, <4>3 DEF TimersInv, TimerTypes
        <5> QED BY <1>3, <4>1, <5>1, SetKept DEF TimersInv
      <4> QED BY <4>2, <4>3
    <3> QED BY <3>1, <3>2
  <2> QED BY <1>8, <1>10, <1>11, <1>12, <1>17, <1>18, <2>1 DEF TimersInv, TimerPoints, TimerSet
<1> QED BY <1>19, <1>20

\* The function of a timer has returned: a periodic one goes back, one period later.
LEMMA timerintrNextInv ==
  ASSUME TimersInv, NEW m \in Machs, timerintrNext(m)
  PROVE  TimersInv'
<1>1. PICK t : t = cur[m] OBVIOUS
<1>2. /\ pc[m] = "tf" /\ cur' = [cur EXCEPT ![m] = none] /\ pc' = [pc EXCEPT ![m] = "loop"]
      /\ UNCHANGED <<fastticks, tns, ilock, compare, arg, ltt, now, stray, apart>>
  BY DEF timerintrNext
<1>3. Others(m) /\ cur'[m] = none /\ pc'[m] = "loop" BY <1>2 DEF Others, TimersInv, TimerTypes
<1>4. TimerLocks'
  <2>1. \A x \in Machs : pc'[x] \in Moving <=> pc[x] \in Moving BY <1>2, <1>3 DEF Others, Moving
  <2> QED BY <1>2, <2>1, LocksKept DEF TimersInv
<1>5. SetAt(m)' BY <1>3 DEF SetAt
<1>6. PointsAt(m)' BY <1>3, TimerFacts DEF PointsAt, Moving
<1>7. CASE t \notin Periodic
  <2>1. UNCHANGED <<list, tt, twhen>> BY <1>1, <1>7 DEF timerintrNext
  <2>2. TimerTypes' BY <1>2, <2>1 DEF TimersInv, TimerTypes, PCs
  <2>3. TimerLists' BY <2>1, ListsKept DEF TimersInv
  <2>4. ASSUME NEW x \in Machs PROVE PointsAt(x)'
    <3>1. CASE x # m BY <1>3, <2>1, <3>1, PointsKept DEF TimersInv, Others
    <3> QED BY <1>6, <3>1
  <2>5. TimerHome' /\ TimerPhase'
    <3>1. \A x \in Machs, u \in Periodic : Has(x, u)' => Has(x, u)
      BY <1>3, <2>1, TimerFacts DEF Has, Others
    <3> QED BY <1>2, <2>1, <3>1, PhaseKept DEF TimersInv
  <2>6. ASSUME NEW x \in Machs PROVE SetAt(x)'
    <3>1. CASE x # m BY <1>3, <2>1, <3>1, SetKept DEF TimersInv, Others
    <3> QED BY <1>5, <3>1
  <2>7. ASSUME NEW x \in Machs PROVE Has(x, x)'
    <3>1. Has(x, x) /\ x \in Periodic BY TimerFacts DEF TimersInv, TimerOwn
    <3> QED BY <1>1, <1>3, <1>7, <2>1, <3>1 DEF Has, Others
  <2> QED BY <1>4, <2>2, <2>3, <2>4, <2>5, <2>6, <2>7 DEF TimersInv, TimerPoints, TimerOwn, TimerSet
<1>8. CASE t \in Periodic
  <2>1. PICK ns : ns = tns[t] OBVIOUS
  <2>2. tadd(m, t, ns) BY <1>1, <1>8, <2>1 DEF timerintrNext
  <2>3. Has(m, t) /\ t \in Timer /\ Periodic \subseteq Timer BY <1>1, <1>8, TimerFacts DEF Has
  <2>4. m = Home(t) /\ twhen[t] > 0 /\ ns \in Periods BY <1>8, <2>1, <2>3 DEF TimersInv, TimerHome
  <2>5. ns \in Nat \ {0} /\ tt[t] = none /\ twhen[t] \in Nat
    BY <1>1, <1>8, <2>3, <2>4, TimerFacts DEF TimersInv, TimerTypes, TimerPoints, PointsAt
  <2>6. PICK v : v = twhen[t] + ns OBVIOUS
  <2>7. when(m, t, ns) = v /\ v \in Nat /\ v > 0 BY <1>8, <2>3, <2>4, <2>5, <2>6, WhenGiven DEF TimersInv
  <2>8. /\ list' \in [Machs -> Seq(Timer)] /\ tt' \in [Timer -> Machs \cup {none}]
        /\ twhen' \in [Timer -> Nat] /\ TimerLists'
        /\ tt' = [tt EXCEPT ![t] = m] /\ twhen' = [twhen EXCEPT ![t] = when(m, t, ns)]
    BY <2>2, <2>3, <2>5, TaddLists DEF TimersInv
  <2>9. /\ tt'[t] = m /\ twhen'[t] = v
        /\ \A u \in Timer \ {t} : tt'[u] = tt[u] /\ twhen'[u] = twhen[u]
    BY <2>3, <2>7, <2>8 DEF TimersInv, TimerTypes
  <2>10. \A x \in Machs \ {m} : cur[x] # t
    BY <1>8, <2>4 DEF Has, TimersInv, TimerHome
  <2>11. TimerTypes' BY <1>2, <2>8 DEF TimersInv, TimerTypes, PCs
  <2>12. ASSUME NEW x \in Machs PROVE PointsAt(x)'
    <3>1. CASE x # m
      <4>1. pc[x] \in Moving => arg[x] \in Timer \ {t} BY <1>8, OwnTimer, TimerFacts
      <4>2. cur[x] \in Periodic => cur[x] \in Timer \ {t} BY <2>3, <2>10, <3>1
      <4> QED BY <1>3, <2>9, <3>1, <4>1, <4>2, PointsKept DEF TimersInv, Others
    <3> QED BY <1>6, <3>1
  <2>13. ASSUME NEW x \in Machs, NEW u \in Periodic, Has(x, u)'
         PROVE  Has(x, u) /\ (u # t => twhen'[u] = twhen[u])
    <3>1. CASE u = t
      <4>1. x = m
        <5>1. CASE x # m
          <6>1. cur'[x] = cur[x] BY <1>3, <5>1 DEF Others
          <6> QED BY <2>9, <2>10, <2>13, <3>1, <5>1, <6>1 DEF Has
        <5> QED BY <5>1
      <4> QED BY <2>3, <3>1, <4>1
    <3>2. CASE u # t
      <4>1. tt'[u] = tt[u] /\ twhen'[u] = twhen[u] BY <2>3, <2>9, <3>2
      <4>2. cur'[x] = u => cur[x] = u BY <1>3, TimerFacts DEF Others
      <4> QED BY <2>13, <4>1, <4>2 DEF Has
    <3> QED BY <3>1, <3>2
  <2>14. ASSUME NEW x \in Machs, NEW u \in Periodic, Has(x, u)'
         PROVE  x = Home(u) /\ twhen'[u] > 0 /\ tns'[u] \in Periods
    <3>1. x = Home(u) /\ twhen[u] > 0 /\ tns[u] \in Periods BY <2>13, <2>14 DEF TimersInv, TimerHome
    <3> QED BY <1>2, <2>7, <2>9, <2>13, <2>14, <3>1
  <2>15. ASSUME NEW x \in Machs, NEW u \in Periodic, NEW w \in Periodic, Has(x, u)', Has(x, w)',
                tns'[u] = tns'[w], tns'[u] \notin apart'
         PROVE  Apart(twhen'[u], twhen'[w], tns'[u])
    <3>1. Has(x, u) /\ Has(x, w) /\ tns'[u] = tns[u] /\ tns[u] = tns[w] /\ tns[u] \notin apart
      BY <1>2, <2>13, <2>15
    <3>2. Apart(twhen[u], twhen[w], tns[u]) BY <3>1 DEF TimersInv, TimerPhase
    <3>3. twhen[u] \in Int /\ twhen[w] \in Int BY <2>3 DEF TimersInv, TimerTypes
    <3>4. CASE u = t /\ w = t
      <4>1. Apart(v, v, ns) BY <2>5, <2>7, SelfPhase
      <4> QED BY <2>1, <2>9, <3>1, <3>4, <4>1
    <3>5. CASE u = t /\ w # t
      <4>1. Apart(twhen[u] + ns, twhen[w], ns) BY <2>1, <2>5, <3>2, <3>3, <3>5, SamePhase
      <4> QED BY <2>1, <2>6, <2>9, <2>13, <2>15, <3>1, <3>5, <4>1
    <3>6. CASE u # t /\ w = t
      <4>1. tns[u] = ns BY <2>1, <3>1, <3>6
      <4>2. Apart(twhen[w], twhen[u], ns) BY <2>5, <3>2, <3>3, <4>1, SamePhase
      <4>3. Apart(twhen[u], twhen[w] + ns, ns) BY <2>5, <3>3, <4>2, SamePhase
      <4> QED BY <2>6, <2>9, <2>13, <2>15, <3>1, <3>6, <4>1, <4>3
    <3>7. CASE u # t /\ w # t BY <2>13, <2>15, <3>1, <3>2, <3>7
    <3> QED BY <3>4, <3>5, <3>6, <3>7
  <2>16. TimerHome' /\ TimerPhase' BY <2>14, <2>15 DEF TimerHome, TimerPhase
  <2>17. ASSUME NEW x \in Machs PROVE SetAt(x)'
    <3>1. CASE x # m
      <4>1. \A u \in Timer : tt'[u] = x => tt[u] = x /\ twhen'[u] = twhen[u] BY <2>9, <3>1
      <4> QED BY <1>2, <1>3, <3>1, <4>1, SetKept DEF TimersInv, Others
    <3> QED BY <1>5, <3>1
  <2>18. ASSUME NEW x \in Machs PROVE Has(x, x)'
    <3>1. Has(x, x) /\ x \in Timer BY TimerFacts DEF TimersInv, TimerOwn
    <3>2. CASE x = t
      <4>1. x = m BY <2>4, <3>2 DEF Home
      <4> QED BY <2>9, <3>2, <4>1 DEF Has
    <3>3. CASE x # t BY <1>1, <1>3, <2>9, <3>1, <3>3 DEF Has, Others
    <3> QED BY <3>2, <3>3
  <2> QED BY <1>4, <2>8, <2>11, <2>12, <2>16, <2>17, <2>18 DEF TimersInv, TimerPoints, TimerOwn, TimerSet
<1> QED BY <1>7, <1>8

-----------------------------------------------------------------------------
(* The theorems *)

LEMMA TimersInvInit == TimersInit => TimersInv
<1> SUFFICES ASSUME TimersInit PROVE TimersInv
  OBVIOUS
<1>1. Hz \in Nat \ {0} /\ Machs \subseteq Timer /\ none \notin Machs /\ none \notin Timer
  BY TimerFacts
<1>2. TimerTypes
  <2>1. \A m \in Machs : <<m>> \in Seq(Timer) BY <1>1
  <2>2. list \in [Machs -> Seq(Timer)] BY <2>1 DEF TimersInit
  <2>3. fastticks \in 0..MaxTime /\ now \in [Machs -> 0..MaxTime] BY TimerFacts DEF TimersInit
  <2> QED BY <1>1, <2>2, <2>3 DEF TimersInit, TimerTypes, PCs
<1>3. ASSUME NEW m \in Machs
      PROVE  /\ Distinct(list[m]) /\ Sorted(list[m], twhen)
             /\ \A t \in Timer : t \in ToSet(list[m]) <=> tt[t] = m
  <2>1. list[m] = <<m>> /\ Len(<<m>>) = 1 BY DEF TimersInit
  <2>2. ToSet(<<m>>) = {m} BY DEF ToSet
  <2>3. \A t \in Timer : tt[t] = m <=> t = m BY <1>1 DEF TimersInit
  <2>4. Distinct(<<m>>) /\ Sorted(<<m>>, twhen) BY DEF Distinct, Sorted
  <2> QED BY <2>1, <2>2, <2>3, <2>4
<1>4. TimerLocks BY <1>1 DEF TimersInit, TimerLocks, Moving
<1>5. TimerPoints BY TimerFacts DEF TimersInit, TimerPoints, PointsAt, Moving
<1>6. ASSUME NEW m \in Machs, NEW t \in Periodic, Has(m, t)
      PROVE  t = m /\ twhen[t] = Hz /\ tns[t] = Hz
  BY <1>6, TimerFacts DEF TimersInit, Has
<1>7. TimerHome BY <1>1, <1>6, TimerFacts DEF TimerHome, Home
<1>8. TimerPhase
  <2>1. Apart(Hz, Hz, Hz) BY <1>1, SelfPhase
  <2> QED BY <1>6, <2>1 DEF TimerPhase
<1>9. TimerSet
  <2>1. \A m \in Machs : compare[m] = Hz BY DEF TimersInit
  <2>2. \A m \in Machs, t \in Timer : tt[t] = m => twhen[t] = Hz BY <1>1 DEF TimersInit
  <2>3. Hz # none BY <1>1, TimerFacts
  <2> QED BY <1>1, <2>1, <2>2, <2>3 DEF TimerSet, SetAt
<1>10. TimerOwn BY <1>1 DEF TimersInit, TimerOwn, Has
<1> QED BY <1>2, <1>3, <1>4, <1>5, <1>7, <1>8, <1>9, <1>10 DEF TimersInv, TimerLists

LEMMA TimersInvStep == TimersInv /\ [TimersNext]_timersvars => TimersInv'
<1> SUFFICES ASSUME TimersInv, [TimersNext]_timersvars PROVE TimersInv'
  OBVIOUS
<1>1. CASE tick BY <1>1, tickInv
<1>2. CASE \E m \in Machs : timeraddDel(m) \/ timeraddAdd(m) \/ timerdelDel(m)
  BY <1>2, timeraddDelInv, timeraddAddInv, timerdelDelInv
<1>3. CASE \E m \in Machs : timerintr(m) \/ timerintrLock(m) \/ timerintrReturn(m)
  BY <1>3, timerintrInv
<1>4. CASE \E m \in Machs : timerintrFire(m) \/ timerintrNext(m)
  BY <1>4, timerintrFireInv, timerintrNextInv
<1>5. CASE \E m \in Machs : \E t \in Relative : timerdel(m, t) \/ \E ns \in Delays : timeradd(m, t, ns)
  BY <1>5, timeraddInv
<1>6. CASE \E m \in Machs : \E t \in Links, ns \in Periods : addclock0link(m, t, ns)
  BY <1>6, addclock0linkInv
<1>7. CASE UNCHANGED timersvars
  BY <1>7 DEF timersvars, TimersInv, TimerTypes, TimerLists, TimerLocks, TimerPoints, PointsAt, TimerHome,
              TimerPhase, TimerOwn, TimerSet, SetAt, Has
<1> QED BY <1>1, <1>2, <1>3, <1>4, <1>5, <1>6, <1>7 DEF TimersNext

LEMMA TimersInductive == TimersSpec => []TimersInv
<1>1. TimersInit => TimersInv BY TimersInvInit
<1>2. TimersInv /\ [TimersNext]_timersvars => TimersInv' BY TimersInvStep
<1> QED BY <1>1, <1>2, PTL DEF TimersSpec

\* No timer is forgotten, for every number of processors and timers: the clock
\* of a processor outside timerintr is set, and set no later than any timer of
\* its list wants unless addclock0link on another processor than the first has
\* set the wrong clock meanwhile; and the list is in the order of times.
THEOREM InterruptSetHolds == TimersSpec => []InterruptSet
<1>1. TimersInv => InterruptSet
  <2> SUFFICES ASSUME TimersInv PROVE InterruptSet
    OBVIOUS
  <2>1. ASSUME NEW m \in Machs
        PROVE  /\ IsInjective(list[m]) /\ DOMAIN list[m] = 1..Len(list[m])
               /\ \A t \in ToSet(list[m]) : t \in Timer /\ tt[t] = m
               /\ \A t \in Timer : t \in ToSet(list[m]) <=> tt[t] = m
               /\ Sorted(list[m], twhen)
    <3>1. list[m] \in Seq(Timer) /\ Distinct(list[m]) /\ Sorted(list[m], twhen)
          /\ \A t \in Timer : t \in ToSet(list[m]) <=> tt[t] = m
      BY DEF TimersInv, TimerTypes, TimerLists
    <3>2. ToSet(list[m]) \subseteq Timer BY <3>1 DEF ToSet
    <3>3. IsInjective(list[m]) BY <3>1, InjectiveIsDistinct
    <3> QED BY <3>1, <3>2, <3>3
  <2>2. TimersTypeOK
    <3>1. \A m \in Machs, t \in Timer :
            ilock[t] = m <=> pc[m] \in {"del", "add", "tdel"} /\ arg[m] = t
      BY DEF TimersInv, TimerLocks, Moving
    <3>2. \A m \in Machs :
            /\ pc[m] = "tf" => cur[m] # none
            /\ pc[m] = "add" => tt[arg[m]] = none
            /\ pc[m] = "tf" /\ cur[m] \in Periodic => tt[cur[m]] = none
      BY DEF TimersInv, TimerPoints, PointsAt
    <3> QED BY <2>1, <3>1, <3>2 DEF TimersInv, TimerTypes, TimersTypeOK
  <2>3. ASSUME NEW m \in Machs
        PROVE  \A i, j \in DOMAIN list[m] : i < j => twhen[list[m][i]] <= twhen[list[m][j]]
    BY <2>1 DEF Sorted
  <2>4. ASSUME NEW m \in Machs, pc[m] \notin {"enter", "loop"}, cur[m] = none
        PROVE  \A t \in ToSet(list[m]) : compare[m] # none /\ (m \notin stray => compare[m] <= twhen[t])
    BY <2>1, <2>4 DEF TimersInv, TimerSet, SetAt
  <2> QED BY <2>2, <2>3, <2>4 DEF InterruptSet
<1> QED BY <1>1, TimersInductive, PTL

\* Timers of one period on one list go off together: their times are a multiple
\* of the period apart, however late they are served and on whichever processor
\* they are linked in, unless one of that period was linked while the only other
\* was in the hands of timerintr.
THEOREM CombinedHolds == TimersSpec => []Combined
<1>1. TimersInv => Combined
  <2> SUFFICES ASSUME TimersInv, NEW m \in Machs, NEW t \in ToSet(list[m]) \cap Periodic,
                      NEW u \in ToSet(list[m]) \cap Periodic,
                      tns[t] = tns[u], tns[t] \notin apart
               PROVE  (twhen[t] - twhen[u]) % tns[t] = 0
    BY DEF Combined
  <2>1. Has(m, t) /\ Has(m, u) BY TimerFacts DEF TimersInv, TimerLists, Has
  <2> QED BY <2>1 DEF TimersInv, TimerPhase, Apart
<1> QED BY <1>1, TimersInductive, PTL

-----------------------------------------------------------------------------
(* Rudp: the invariant *)

\* The k-th sequence number after s: they go round at Mod and skip 0.
Nth(s, k) == IF s + k < Mod THEN s + k ELSE s + k - (Mod - 1)

\* The number of the k-th message of generation g.
Num(s, g, k) == Nth(IF g = 1 THEN s ELSE 0, k)

\* The messages of generation g of the other host that came to e, whether the
\* reader's queue took them or not; and that the first k of them have.
Acc(e, g) == arrived[e][g] \cup dropped[e][g]
Came(e, g, k) == 1..k \subseteq Acc(e, g)

Convs == {"open", "hungup", "closing", "closed"}
Shut == {"closing", "closed"}

\* The sending side of the Reliable r of host e: what it waits for is on its
\* list, was sent, and has the numbers after those that have come.
Sender(s, e, r) ==
  LET acked == r.sent - Len(r.unacked) IN
    /\ r.sent <= nmsg[e] /\ 0 <= acked
    /\ r.sndseq = Num(s, r.sndgen, r.sent)
    /\ r.ackrcvd = Num(s, r.sndgen, acked)
    /\ Came(Peer(e), r.sndgen, acked)
    /\ \A i \in 1..Len(r.unacked) :
         /\ r.unacked[i] \in net
         /\ r.unacked[i].sgen = r.sndgen
         /\ r.unacked[i].seq = Num(s, r.sndgen, acked + i)

\* The receiving side, when q is what reliput took.
Receiver(s, e, r, q) ==
  /\ r.rcvgen = 0 => r.rcvseq = 0 /\ q = <<>>
  /\ r.rcvgen # 0 =>
       /\ r.rcvseq = Num(s, r.rcvgen, Len(q))
       /\ Came(e, r.rcvgen, Len(q))
       /\ \A i \in 1..Len(q) : q[i] = <<r.rcvgen, i>>
  /\ s # 0 /\ r.sndgen = 1 => r.rcvgen = 1

\* A packet has the number of its message, and acknowledges what has come to
\* its sender.  One of a connection that had begun before the run also says
\* so: a host that has restarted ignores it.
PacketOK(s, p) ==
  /\ p.seq # 0 => /\ p.sgen # Hangupgen /\ p.msg \in 1..nmsg[Peer(p.to)]
                  /\ p.seq = Num(s, p.sgen, p.msg)
  /\ p.ack # 0 => /\ p.agen # 0
                  /\ \E k \in Nat : Came(Peer(p.to), p.agen, k) /\ p.ack = Num(s, p.agen, k)
  /\ s # 0 /\ p.sgen = 1 => p.ack # 0 /\ p.agen = 1

\* The writer of e, when r is the Reliable and awake says whether it was woken.
Writer(e, r, awake) ==
  /\ kick[e] \in {"sleep", "asleep"} => r.blocked
  /\ kick[e] = "asleep" /\ ~awake => Len(r.unacked) >= Wakeat

\* One host, and the bounds of what it has sent and received.
Host(s, e) ==
  /\ s # 0 => gen[e] >= 2
  /\ nmsg[e] <= MaxMsg[e]
  /\ \A g \in 1..MaxGen : Acc(e, g) \subseteq 1..nmsg[Peer(e)]
  /\ conv[e] \in Shut => kick[e] = "idle"
  /\ rel[e] = nil => kick[e] = "idle" /\ taken[e] = <<>>
  /\ rel[e] # nil => /\ rel[e].sndgen < gen[e]
                     /\ Sender(s, e, rel[e]) /\ Receiver(s, e, rel[e], taken[e])
                     /\ Writer(e, rel[e], FALSE)

Inv(s) == TypeOK /\ (\A e \in Ends : Host(s, e)) /\ \A p \in net : PacketOK(s, p)

Starts == Old \cup {0}
IndInv == \E s \in Starts : Inv(s)

Works == [r : Reliables, gen : 1..(MaxGen + 1), out : SUBSET Packets, hangup : BOOLEAN, wake : BOOLEAN]

\* What a step of host e has done so far is what the invariant asks for.
WorkOK(s, e, w) ==
  /\ w \in Works
  /\ s # 0 => w.gen >= 2
  /\ w.r.sndgen < w.gen
  /\ Sender(s, e, w.r)
  /\ Receiver(s, e, w.r, IF w.hangup THEN <<>> ELSE taken[e])
  /\ Writer(e, w.r, w.wake)
  /\ \A p \in w.out : PacketOK(s, p)

-----------------------------------------------------------------------------
(* Hosts, numbers and lists *)

\* There are two hosts, each the other's peer.
LEMMA Peers ==
  ASSUME NEW e \in Ends
  PROVE  /\ Peer(e) \in Ends /\ Peer(e) # e /\ Peer(Peer(e)) = e
         /\ \A x \in Ends : x = e \/ x = Peer(e)
<1>1. PICK a, b \in Ends : a # b /\ Ends = {a, b} BY RudpAssumption
<1>2. ASSUME NEW x \in Ends PROVE Peer(x) \in Ends /\ Peer(x) # x
  BY <1>1 DEF Peer
<1> QED BY <1>1, <1>2

\* The numbers of up to Mod - 2 messages are numbers, and none is 0.
LEMMA NumType ==
  ASSUME NEW s \in Starts, NEW g \in Int, NEW k \in 0..(Mod - 2)
  PROVE  /\ s \in Seqs /\ Num(s, g, k) \in Seqs
         /\ k > 0 \/ (s # 0 /\ g = 1) => Num(s, g, k) # 0
         /\ k = 0 => Num(s, g, k) = IF g = 1 THEN s ELSE 0
  BY RudpAssumption DEF Starts, Seqs, Num, Nth

\* NEXTSEQ counts on.
LEMMA NumNext ==
  ASSUME NEW s \in Starts, NEW g \in Int, NEW k \in 0..(Mod - 2)
  PROVE  NEXTSEQ(Num(s, g, k)) = Num(s, g, k + 1)
<1>1. \A x \in 0..(Mod - 1) : (x + 1) % Mod = 0 <=> x + 1 = Mod BY RudpAssumption
<1>2. Num(s, g, k) \in 0..(Mod - 1) BY NumType DEF Seqs
<1>3. NEXTSEQ(Num(s, g, k)) = IF Num(s, g, k) + 1 = Mod THEN 1 ELSE Num(s, g, k) + 1
  BY <1>1, <1>2 DEF NEXTSEQ
<1> QED BY <1>3, RudpAssumption DEF Starts, Num, Nth

\* Two messages of a generation have different numbers.
LEMMA NumInjective ==
  ASSUME NEW s \in Starts, NEW g \in Int, NEW j \in 1..(Mod - 1), NEW k \in 1..(Mod - 1),
         Num(s, g, j) = Num(s, g, k)
  PROVE  j = k
  BY RudpAssumption DEF Starts, Num, Nth

\* SEQDIFF counts the messages between two numbers.
LEMMA NumDiff ==
  ASSUME NEW s \in Starts, NEW g \in Int, NEW n \in 0..(Mod - 2), NEW k \in 0..n
  PROVE  SEQDIFF(Num(s, g, n), Num(s, g, k)) = n - k
  BY RudpAssumption DEF Starts, Num, Nth, SEQDIFF

\* INSEQ finds the messages after the a-th and up to the n-th.
LEMMA NumIn ==
  ASSUME NEW s \in Starts, NEW g \in Int, NEW n \in 0..(Mod - 2), NEW a \in 0..n,
         NEW k \in 0..(Mod - 2)
  PROVE  INSEQ(Num(s, g, k), Num(s, g, a), Num(s, g, n)) <=> a < k /\ k <= n
  BY RudpAssumption DEF Starts, Num, Nth, INSEQ

\* What is left of a list when d elements have gone.
LEMMA Rest ==
  ASSUME NEW S, NEW q \in Seq(S), NEW d \in 0..Len(q)
  PROVE  /\ SubSeq(q, d + 1, Len(q)) \in Seq(S)
         /\ Len(SubSeq(q, d + 1, Len(q))) = Len(q) - d
         /\ \A i \in 1..(Len(q) - d) : SubSeq(q, d + 1, Len(q))[i] = q[d + i]
  OBVIOUS

-----------------------------------------------------------------------------
(* What the helpers do to a Work record *)

\* Every count of messages is within one round.
LEMMA Counts ==
  ASSUME NEW s \in Starts, Inv(s), NEW e \in Ends
  PROVE  /\ nmsg[e] \in 0..(Mod - 2) /\ nmsg[Peer(e)] \in 0..(Mod - 2) /\ Mod - 2 \in Nat
         /\ \A g \in 1..MaxGen : Acc(e, g) \subseteq 1..nmsg[Peer(e)]
<1>1. Peer(e) \in Ends BY Peers
<1>2. \A x \in Ends : nmsg[x] \in 0..(Mod - 2)
  BY RudpAssumption DEF Inv, Host, TypeOK
<1>3. \A g \in 1..MaxGen : Acc(e, g) \subseteq 1..nmsg[Peer(e)]
  BY DEF Inv, Host
<1> QED BY <1>1, <1>2, <1>3, RudpAssumption

LEMMA CameCount ==
  ASSUME NEW s \in Starts, Inv(s), NEW e \in Ends, NEW g \in 1..MaxGen, NEW k \in Nat, Came(e, g, k)
  PROVE  k \in 0..nmsg[Peer(e)] /\ k \in 0..(Mod - 2)
<1>1. nmsg[Peer(e)] \in 0..(Mod - 2) /\ Mod - 2 \in Nat /\ Acc(e, g) \subseteq 1..nmsg[Peer(e)]
  BY Counts
<1>2. k # 0 => k \in 1..k OBVIOUS
<1>3. k # 0 => k \in 1..nmsg[Peer(e)] BY <1>1, <1>2 DEF Came
<1> QED BY <1>1, <1>3

\* None is the first none of them.
LEMMA CameNone ==
  ASSUME NEW e, NEW g
  PROVE  Came(e, g, 0)
  BY DEF Came

\* A new Reliable is a Reliable, with nothing sent or received.
LEMMA NewReliable ==
  ASSUME NEW g \in 1..MaxGen
  PROVE  /\ Reliable(g, 0) \in Reliables
         /\ Reliable(g, 0).unacked = <<>> /\ Reliable(g, 0).sent = 0
         /\ Reliable(g, 0).sndseq = 0 /\ Reliable(g, 0).ackrcvd = 0 /\ Reliable(g, 0).sndgen = g
         /\ Reliable(g, 0).rcvseq = 0 /\ Reliable(g, 0).rcvgen = 0
  BY RudpAssumption DEF Reliable, Reliables, Seqs

\* Nothing is claimed of a Reliable that was just made: its generation is new.
LEMMA FreshOK ==
  ASSUME NEW s \in Starts, Inv(s), NEW e \in Ends, NEW g \in 1..MaxGen, NEW r \in Reliables,
         r.unacked = <<>>, r.sent = 0, r.sndseq = 0, r.ackrcvd = 0, r.sndgen = g,
         r.rcvseq = 0, r.rcvgen = 0, s # 0 => g >= 2
  PROVE  Sender(s, e, r) /\ Receiver(s, e, r, <<>>)
<1>1. Peer(e) \in Ends /\ 0 <= nmsg[e] /\ Came(Peer(e), g, 0) /\ 0 \in 0..(Mod - 2)
  BY Peers, Counts, CameNone
<1>2. Num(s, g, 0) = 0 BY <1>1, NumType, RudpAssumption
<1>3. Len(r.unacked) = 0 BY EmptySeq
<1>4. Sender(s, e, r) BY <1>1, <1>2, <1>3 DEF Sender
<1>5. Receiver(s, e, r, <<>>) BY DEF Receiver
<1> QED BY <1>4, <1>5

\* relstate finds the Reliable or makes one.
LEMMA relstateOK ==
  ASSUME NEW s \in Starts, Inv(s), NEW e \in Ends, relstate(e).gen <= MaxGen + 1
  PROVE  WorkOK(s, e, relstate(e))
<1> DEFINE w == relstate(e)
<1>1. /\ w.out = {} /\ w.hangup = FALSE /\ w.wake = FALSE
      /\ w.r = IF rel[e] = nil THEN Reliable(gen[e], 0) ELSE rel[e]
      /\ w.gen = IF rel[e] = nil THEN gen[e] + 1 ELSE gen[e]
      /\ w.gen <= MaxGen + 1 /\ (IF w.hangup THEN <<>> ELSE taken[e]) = taken[e]
      /\ w.r \in Reliables /\ w.gen \in 1..(MaxGen + 1) => w \in Works
  BY DEF relstate, Works
<1> SUFFICES WorkOK(s, e, w) OBVIOUS
<1> HIDE DEF w
<1>2. /\ gen[e] \in 1..(MaxGen + 1) /\ rel[e] \in Reliables \cup {nil} /\ Host(s, e)
      /\ MaxGen \in Nat
  BY RudpAssumption DEF Inv, TypeOK
<1>3. CASE rel[e] = nil
  <2>1. gen[e] \in 1..MaxGen BY <1>1, <1>2, <1>3
  <2>2. w.r \in Reliables /\ w.gen = gen[e] + 1 /\ w.r.sndgen = gen[e] BY <1>1, <1>3, <2>1, NewReliable
  <2>3. w \in Works BY <1>1, <1>2, <2>1, <2>2
  <2>4. s # 0 => gen[e] >= 2 BY <1>2 DEF Host
  <2>5. Sender(s, e, w.r) /\ Receiver(s, e, w.r, <<>>)
    BY <1>1, <1>3, <2>1, <2>2, <2>4, NewReliable, FreshOK
  <2>6. taken[e] = <<>> /\ kick[e] = "idle" BY <1>2, <1>3 DEF Host
  <2>7. Writer(e, w.r, w.wake) BY <2>6 DEF Writer
  <2> QED BY <1>1, <1>2, <2>1, <2>2, <2>3, <2>4, <2>5, <2>6, <2>7 DEF WorkOK
<1>4. CASE rel[e] # nil
  <2>1. w.r = rel[e] /\ w.gen = gen[e] /\ w.r \in Reliables BY <1>1, <1>2, <1>4
  <2>2. w \in Works BY <1>1, <1>2, <2>1
  <2> QED BY <1>1, <1>2, <1>4, <2>1, <2>2 DEF WorkOK, Host
<1> QED BY <1>3, <1>4

\* relhangup starts a new generation.
LEMMA relhangupOK ==
  ASSUME NEW s \in Starts, Inv(s), NEW e \in Ends, NEW w, WorkOK(s, e, w),
         relhangup(w).gen <= MaxGen + 1
  PROVE  /\ WorkOK(s, e, relhangup(w))
         /\ relhangup(w).gen = w.gen + 1 /\ relhangup(w).hangup = TRUE /\ relhangup(w).wake = TRUE
         /\ relhangup(w).r.rcvgen = 0 /\ relhangup(w).r.rcvseq = 0 /\ relhangup(w).r.acksent = 0
         /\ relhangup(w).r.sndgen = w.gen
<1> DEFINE v == relhangup(w)
           o == Reliable(w.gen, 0)
           r == [o EXCEPT !.blocked = w.r.blocked]
<1>1. w \in Works /\ w.r \in Reliables /\ w.gen \in Nat /\ w.out \in SUBSET Packets /\ w.r.blocked \in BOOLEAN
  BY RudpAssumption DEF WorkOK, Works, Reliables
<1>2. v.r = r /\ v.gen = w.gen + 1 /\ v.hangup = TRUE /\ v.wake = TRUE /\ v.out = w.out
  BY <1>1 DEF relhangup, Works
<1>3. w.gen \in 1..MaxGen BY <1>1, <1>2, RudpAssumption DEF WorkOK, Works
<1>0. o \in Reliables /\ o.acksent = 0 BY <1>3, NewReliable DEF Reliable
<1>4. /\ r \in Reliables /\ r.unacked = <<>> /\ r.sent = 0 /\ r.sndseq = 0 /\ r.ackrcvd = 0
      /\ r.sndgen = w.gen /\ r.rcvseq = 0 /\ r.rcvgen = 0 /\ r.blocked = w.r.blocked /\ r.acksent = 0
  <2> HIDE DEF o
  <2>1. /\ o.unacked = <<>> /\ o.sent = 0 /\ o.sndseq = 0 /\ o.ackrcvd = 0
        /\ o.sndgen = w.gen /\ o.rcvseq = 0 /\ o.rcvgen = 0
    BY <1>3, NewReliable DEF o
  <2> QED BY <1>1, <1>0, <2>1 DEF Reliables
<1>5. v \in Works
  <2>1. v = [w EXCEPT !.r = r, !.gen = @ + 1, !.hangup = TRUE, !.wake = TRUE] BY DEF relhangup
  <2> HIDE DEF r, v
  <2>2. w.gen + 1 \in 1..(MaxGen + 1) BY <1>3, RudpAssumption
  <2> QED BY <1>1, <1>4, <2>1, <2>2 DEF Works
<1>6. Sender(s, e, r) /\ Receiver(s, e, r, <<>>) BY <1>3, <1>4, FreshOK DEF WorkOK
<1>7. Writer(e, v.r, v.wake) BY <1>2, <1>4 DEF WorkOK, Writer
<1> QED BY <1>1, <1>2, <1>3, <1>4, <1>5, <1>6, <1>7 DEF WorkOK

\* What a packet of a host says of the other side's messages is true of them.
LEMMA AckTrue ==
  ASSUME NEW s \in Starts, Inv(s), NEW e \in Ends, NEW w, WorkOK(s, e, w), w.r.rcvseq # 0
  PROVE  /\ w.r.rcvgen \in 1..MaxGen
         /\ \E k \in Nat : Came(e, w.r.rcvgen, k) /\ w.r.rcvseq = Num(s, w.r.rcvgen, k)
<1> DEFINE q == IF w.hangup THEN <<>> ELSE taken[e]
<1>1. w.r \in Reliables /\ Receiver(s, e, w.r, q) BY DEF WorkOK, Works
<1>2. w.r.rcvgen # 0 BY <1>1 DEF Receiver
<1>3. w.r.rcvgen \in 1..MaxGen BY <1>1, <1>2, RudpAssumption DEF Reliables
<1>4. q \in Seq((1..MaxGen) \X Nat) BY DEF Inv, TypeOK
<1>5. Len(q) \in Nat BY <1>4, LenProperties
<1>6. w.r.rcvseq = Num(s, w.r.rcvgen, Len(q)) /\ Came(e, w.r.rcvgen, Len(q))
  BY <1>1, <1>2 DEF Receiver
<1> HIDE DEF q
<1> QED BY <1>3, <1>5, <1>6

\* A packet of e, and of a message if seq is not 0, may be sent.
LEMMA PacketTrue ==
  ASSUME NEW s \in Starts, Inv(s), NEW e \in Ends, NEW w, WorkOK(s, e, w),
         NEW seq \in Seqs, NEW g \in {w.r.sndgen, Hangupgen}, NEW m \in Nat
  PROVE  LET p == Packet(e, w.r, seq, g, m) IN
           /\ p \in Packets
           /\ p.ack # 0 => /\ p.agen # 0
                           /\ \E k \in Nat : Came(Peer(p.to), p.agen, k) /\ p.ack = Num(s, p.agen, k)
           /\ s # 0 /\ p.sgen = 1 => p.ack # 0 /\ p.agen = 1
           /\ p.to = Peer(e) /\ Peer(p.to) = e /\ p.seq = seq /\ p.sgen = g /\ p.msg = m
<1> DEFINE p == Packet(e, w.r, seq, g, m)
<1>1. w \in Works /\ w.r \in Reliables BY DEF WorkOK, Works
<1>2. Peer(e) \in Ends /\ Peer(Peer(e)) = e BY Peers
<1>3. /\ w.r.rcvseq \in Seqs /\ w.r.rcvgen \in 0..MaxGen /\ w.r.sndgen \in 1..MaxGen
  BY <1>1 DEF Reliables
<1>4. p \in Packets BY <1>2, <1>3 DEF Packet, Packets
<1>5. /\ p.to = Peer(e) /\ p.seq = seq /\ p.sgen = g /\ p.msg = m
      /\ p.ack = w.r.rcvseq /\ p.agen = w.r.rcvgen
  BY DEF Packet
<1> HIDE DEF p
<1>6. p.ack # 0 => /\ p.agen # 0
                   /\ \E k \in Nat : Came(Peer(p.to), p.agen, k) /\ p.ack = Num(s, p.agen, k)
  BY <1>2, <1>5, AckTrue
<1>7. ASSUME s # 0, p.sgen = 1 PROVE p.ack # 0 /\ p.agen = 1
  <2> DEFINE q == IF w.hangup THEN <<>> ELSE taken[e]
  <2>1. w.r.sndgen = 1 BY <1>5, <1>7 DEF Hangupgen
  <2>2. w.r.rcvgen = 1 /\ w.r.rcvseq = Num(s, 1, Len(q)) /\ Came(e, 1, Len(q))
    BY <1>7, <2>1 DEF WorkOK, Receiver
  <2>3. q \in Seq((1..MaxGen) \X Nat) BY DEF Inv, TypeOK
  <2>4. Len(q) \in Nat BY <2>3, LenProperties
  <2> HIDE DEF q
  <2>5. 1 \in 1..MaxGen BY RudpAssumption
  <2>6. Len(q) \in 0..(Mod - 2) BY <2>2, <2>4, <2>5, CameCount
  <2>7. Num(s, 1, Len(q)) # 0 BY <1>7, <2>6, NumType
  <2> QED BY <1>5, <2>2, <2>7
<1>8. p = Packet(e, w.r, seq, g, m) BY DEF p
<1> QED BY <1>2, <1>4, <1>5, <1>6, <1>7, <1>8

\* relsendack sends an acknowledgement.
LEMMA relsendackOK ==
  ASSUME NEW s \in Starts, Inv(s), NEW e \in Ends, NEW w, WorkOK(s, e, w),
         NEW g \in {w.r.sndgen, Hangupgen}
  PROVE  /\ WorkOK(s, e, relsendack(e, w, g))
         /\ relsendack(e, w, g).gen = w.gen /\ relsendack(e, w, g).hangup = w.hangup
         /\ relsendack(e, w, g).r.rcvgen = w.r.rcvgen
<1> DEFINE p == Packet(e, w.r, 0, g, 0)
           v == relsendack(e, w, g)
           a == IF w.r.acksent < w.r.rcvseq THEN w.r.rcvseq ELSE w.r.acksent
<1>1. w \in Works /\ w.r \in Reliables BY DEF WorkOK, Works
<1>2. 0 \in Seqs /\ 0 \in Nat /\ w.r.acksent \in Seqs /\ w.r.rcvseq \in Seqs
  BY SMTT(30), <1>1, RudpAssumption DEF Seqs, Reliables
<1>3. p \in Packets /\ PacketOK(s, p) BY <1>2, PacketTrue DEF PacketOK
<1>4. a \in Seqs BY <1>2
<1>5. v = [w EXCEPT !.out = @ \cup {p}, !.r.acksent = a] BY <1>1 DEF relsendack, Works, Reliables
<1> SUFFICES WorkOK(s, e, v) /\ v.gen = w.gen /\ v.hangup = w.hangup /\ v.r.rcvgen = w.r.rcvgen
  OBVIOUS
<1> HIDE DEF p, v, a
<1>6. /\ v.r = [w.r EXCEPT !.acksent = a] /\ v.gen = w.gen /\ v.out = w.out \cup {p}
      /\ v.hangup = w.hangup /\ v.wake = w.wake
  BY <1>1, <1>5 DEF Works
<1>7. /\ v.r \in Reliables /\ v.r.unacked = w.r.unacked /\ v.r.sndseq = w.r.sndseq
      /\ v.r.sndgen = w.r.sndgen /\ v.r.rcvseq = w.r.rcvseq /\ v.r.rcvgen = w.r.rcvgen
      /\ v.r.ackrcvd = w.r.ackrcvd /\ v.r.blocked = w.r.blocked /\ v.r.sent = w.r.sent
  BY <1>1, <1>4, <1>6 DEF Reliables
<1>8. v \in Works BY <1>1, <1>3, <1>5, <1>6, <1>7 DEF Works
<1>9. Sender(s, e, v.r) BY <1>7 DEF WorkOK, Sender
<1>10. Receiver(s, e, v.r, IF v.hangup THEN <<>> ELSE taken[e]) BY <1>6, <1>7 DEF WorkOK, Receiver
<1>11. Writer(e, v.r, v.wake) BY <1>6, <1>7 DEF WorkOK, Writer
<1> QED BY <1>3, <1>6, <1>7, <1>8, <1>9, <1>10, <1>11 DEF WorkOK

\* relrexmit sends the first message again, which was sent before, or hangs up.
LEMMA relrexmitOK ==
  ASSUME NEW s \in Starts, Inv(s), NEW e \in Ends, NEW w, WorkOK(s, e, w),
         w.r.unacked # <<>>, relrexmit(w).gen <= MaxGen + 1
  PROVE  /\ WorkOK(s, e, relrexmit(w))
         /\ w.r.xmits <= Rudpmaxxmit =>
              /\ relrexmit(w).gen = w.gen /\ relrexmit(w).hangup = w.hangup
              /\ relrexmit(w).r.rcvgen = w.r.rcvgen /\ relrexmit(w).r.rcvseq = w.r.rcvseq
<1>1. w \in Works /\ w.r \in Reliables /\ w.r.xmits \in 0..(Rudpmaxxmit + 1) /\ Rudpmaxxmit \in Nat
  BY RudpAssumption DEF WorkOK, Works, Reliables
<1>2. CASE w.r.xmits > Rudpmaxxmit
  <2>1. relrexmit(w) = relhangup(w) BY <1>2 DEF relrexmit
  <2>2. WorkOK(s, e, relhangup(w)) BY <2>1, relhangupOK
  <2> QED BY <1>1, <1>2, <2>1, <2>2
<1>3. CASE ~(w.r.xmits > Rudpmaxxmit)
  <2> DEFINE v == relrexmit(w)
             p == Head(w.r.unacked)
  <2>1. v = [w EXCEPT !.r.xmits = @ + 1, !.out = @ \cup {p}] BY <1>3 DEF relrexmit
  <2>2. w.r.unacked \in Seq(Packets) BY <1>1 DEF Reliables
  <2>3. Len(w.r.unacked) \in Nat /\ Len(w.r.unacked) > 0 /\ p = w.r.unacked[1] BY <2>2
  <2>4. p \in net BY <2>3 DEF WorkOK, Sender
  <2>5. p \in Packets /\ PacketOK(s, p) BY <2>4 DEF Inv, TypeOK
  <2> SUFFICES /\ WorkOK(s, e, v) /\ v.gen = w.gen /\ v.hangup = w.hangup
               /\ v.r.rcvgen = w.r.rcvgen /\ v.r.rcvseq = w.r.rcvseq
    OBVIOUS
  <2> HIDE DEF v, p
  <2>6. /\ v.r = [w.r EXCEPT !.xmits = @ + 1] /\ v.gen = w.gen /\ v.out = w.out \cup {p}
        /\ v.hangup = w.hangup /\ v.wake = w.wake
    BY <1>1, <2>1 DEF Works
  <2>7. /\ v.r \in Reliables /\ v.r.unacked = w.r.unacked /\ v.r.sndseq = w.r.sndseq
        /\ v.r.sndgen = w.r.sndgen /\ v.r.rcvseq = w.r.rcvseq /\ v.r.rcvgen = w.r.rcvgen
        /\ v.r.ackrcvd = w.r.ackrcvd /\ v.r.blocked = w.r.blocked /\ v.r.sent = w.r.sent
    BY SMTT(30), <1>1, <1>3, <2>6 DEF Reliables
  <2>8. v \in Works BY <1>1, <2>1, <2>5, <2>6, <2>7 DEF Works
  <2>9. Sender(s, e, v.r) BY <2>7 DEF WorkOK, Sender
  <2>10. Receiver(s, e, v.r, IF v.hangup THEN <<>> ELSE taken[e]) BY <2>6, <2>7 DEF WorkOK, Receiver
  <2>11. Writer(e, v.r, v.wake) BY <2>6, <2>7 DEF WorkOK, Writer
  <2> QED BY <2>5, <2>6, <2>7, <2>8, <2>9, <2>10, <2>11 DEF WorkOK
<1> QED BY <1>2, <1>3

\* UNACKED counts the list.
LEMMA UnackedCount ==
  ASSUME NEW s \in Starts, Inv(s), NEW e \in Ends, NEW r \in Reliables, Sender(s, e, r)
  PROVE  /\ UNACKED(r) = Len(r.unacked) /\ Len(r.unacked) \in Nat
         /\ r.sent \in 0..(Mod - 2) /\ r.sent - Len(r.unacked) \in 0..r.sent
<1>1. r.unacked \in Seq(Packets) /\ r.sent \in Nat /\ r.sndgen \in 1..MaxGen BY DEF Reliables
<1>2. Len(r.unacked) \in Nat BY <1>1, LenProperties
<1>3. nmsg[e] \in 0..(Mod - 2) /\ Mod - 2 \in Nat BY Counts
<1>4. r.sent \in 0..(Mod - 2) /\ r.sent - Len(r.unacked) \in 0..r.sent
  BY <1>1, <1>2, <1>3 DEF Sender
<1>5. SEQDIFF(Num(s, r.sndgen, r.sent), Num(s, r.sndgen, r.sent - Len(r.unacked)))
        = r.sent - (r.sent - Len(r.unacked))
  BY <1>1, <1>4, NumDiff
<1>6. UNACKED(r) = r.sent - (r.sent - Len(r.unacked)) BY <1>5 DEF UNACKED, Sender
<1> QED BY <1>1, <1>2, <1>4, <1>6

\* Acked dequeues messages that have come, however old the acknowledgement.
LEMMA AckedOK ==
  ASSUME NEW s \in Starts, Inv(s), NEW e \in Ends, NEW r \in Reliables, Sender(s, e, r),
         NEW ack \in Seqs,
         \E k \in Nat : Came(Peer(e), r.sndgen, k) /\ ack = Num(s, r.sndgen, k)
  PROVE  /\ Acked(r, ack) \in Reliables /\ Sender(s, e, Acked(r, ack))
         /\ Acked(r, ack).sndgen = r.sndgen /\ Acked(r, ack).rcvgen = r.rcvgen
         /\ Acked(r, ack).rcvseq = r.rcvseq /\ Acked(r, ack).blocked = r.blocked
<1>1. r.unacked \in Seq(Packets) /\ r.sndgen \in 1..MaxGen /\ Peer(e) \in Ends
  BY Peers DEF Reliables
<1> DEFINE g == r.sndgen
           n == r.sent
           len == Len(r.unacked)
           a == r.sent - Len(r.unacked)
<1>2. len \in Nat /\ n \in 0..(Mod - 2) /\ a \in 0..n /\ g \in Int BY <1>1, UnackedCount
<1>3. PICK k \in Nat : Came(Peer(e), g, k) /\ ack = Num(s, g, k) OBVIOUS
<1>4. k \in 0..(Mod - 2) BY <1>1, <1>3, CameCount
<1>5. r.ackrcvd = Num(s, g, a) /\ r.sndseq = Num(s, g, n) BY DEF Sender
<1>6. INSEQ(ack, r.ackrcvd, r.sndseq) <=> a < k /\ k <= n BY <1>2, <1>3, <1>4, <1>5, NumIn
<1>7. CASE ~(a < k /\ k <= n)
  <2>1. Acked(r, ack) = r BY <1>6, <1>7 DEF Acked
  <2> QED BY <2>1
<1>8. CASE a < k /\ k <= n
  <2> DEFINE d == k - a
             q == SubSeq(r.unacked, d + 1, Len(r.unacked))
             v == Acked(r, ack)
  <2>1. SEQDIFF(ack, r.ackrcvd) = d BY <1>2, <1>3, <1>4, <1>5, <1>8, NumDiff
  <2>2. v = [r EXCEPT !.ackrcvd = ack, !.unacked = q] BY <1>6, <1>8, <2>1 DEF Acked
  <2>3. d \in 0..len /\ a = n - len /\ d = k - a BY <1>2, <1>8
  <2>4. /\ q \in Seq(Packets) /\ Len(q) = len - d
        /\ \A i \in 1..(len - d) : q[i] = r.unacked[d + i]
    BY <1>1, <2>3, Rest
  <2> SUFFICES /\ v \in Reliables /\ Sender(s, e, v)
               /\ v.sndgen = r.sndgen /\ v.rcvgen = r.rcvgen /\ v.rcvseq = r.rcvseq /\ v.blocked = r.blocked
    OBVIOUS
  <2> HIDE DEF q, v, d
  <2>5. /\ v \in Reliables /\ v.unacked = q /\ v.ackrcvd = ack /\ v.sent = n
        /\ v.sndgen = g /\ v.sndseq = r.sndseq
        /\ v.rcvgen = r.rcvgen /\ v.rcvseq = r.rcvseq /\ v.blocked = r.blocked
    BY <2>2, <2>4 DEF Reliables
  <2>6. v.sent - Len(v.unacked) = k
    <3>1. /\ n \in Nat /\ k \in Nat /\ len \in Nat /\ a = n - len /\ d = k - a
          /\ v.sent = n /\ Len(v.unacked) = len - d
      BY <1>2, <1>4, <2>3, <2>4, <2>5
    <3> HIDE DEF n, len, a
    <3> QED BY <3>1
  <2>7. Came(Peer(e), g, k) /\ 0 <= k BY <1>3
  <2>8. ASSUME NEW i \in 1..Len(q)
        PROVE  q[i] \in net /\ q[i].sgen = g /\ q[i].seq = Num(s, g, k + i)
    <3>1. d + i \in 1..len /\ i \in 1..(len - d) /\ a + (d + i) = k + i 
      <4>1. /\ n \in Nat /\ k \in Nat /\ len \in Nat /\ a = n - len /\ d = k - a
            /\ d \in 0..len /\ Len(q) = len - d
        BY <1>2, <1>4, <2>3, <2>4
      <4> HIDE DEF n, len, a
      <4> QED BY <4>1
    <3>2. q[i] = r.unacked[d + i] BY <2>4, <3>1
    <3>3. /\ r.unacked[d + i] \in net /\ r.unacked[d + i].sgen = g
          /\ r.unacked[d + i].seq = Num(s, g, a + (d + i))
      BY <3>1 DEF Sender
    <3> QED BY <3>1, <3>2, <3>3
  <2>9. r.sent <= nmsg[e] BY DEF Sender
  <2>10. r.sndseq = Num(s, v.sndgen, v.sent) /\ v.sent <= nmsg[e] BY <1>5, <2>5, <2>9
  <2> HIDE DEF g, n, len, a
  <2>11. Sender(s, e, v) BY <1>3, <2>5, <2>6, <2>7, <2>8, <2>10 DEF Sender
  <2> QED BY <2>5, <2>11 DEF g
<1> QED BY <1>7, <1>8

\* The sending side of a Work record changes as an acknowledgement asks.
LEMMA UpdateOK ==
  ASSUME NEW s \in Starts, Inv(s), NEW e \in Ends, NEW w, WorkOK(s, e, w),
         NEW r \in Reliables, Sender(s, e, r), r.sndgen = w.r.sndgen, r.rcvgen = w.r.rcvgen,
         r.rcvseq = w.r.rcvseq, r.blocked = w.r.blocked,
         NEW wake \in BOOLEAN, w.wake => wake, UNACKED(r) < Wakeat /\ r.blocked => wake
  PROVE  WorkOK(s, e, [w EXCEPT !.r = r, !.wake = wake])
<1> DEFINE v == [w EXCEPT !.r = r, !.wake = wake]
<1>1. w \in Works BY DEF WorkOK
<1>2. /\ v \in Works /\ v.r = r /\ v.gen = w.gen /\ v.out = w.out
      /\ v.hangup = w.hangup /\ v.wake = wake
  BY <1>1 DEF Works
<1> HIDE DEF v
<1>3. Receiver(s, e, v.r, IF v.hangup THEN <<>> ELSE taken[e]) BY <1>2 DEF WorkOK, Receiver
<1>4. Writer(e, v.r, v.wake)
  <2>1. UNACKED(r) = Len(r.unacked) /\ Len(r.unacked) \in Nat BY UnackedCount
  <2>2. Wakeat \in Nat BY RudpAssumption
  <2>3. kick[e] \in {"sleep", "asleep"} => r.blocked BY DEF WorkOK, Writer
  <2> QED BY <1>2, <2>1, <2>2, <2>3 DEF Writer
<1>5. WorkOK(s, e, v) BY <1>2, <1>3, <1>4 DEF WorkOK
<1> QED BY <1>5 DEF v

\* The acknowledgement in a packet leaves the receiving side alone, and wakes
\* the writer when it must.
LEMMA AcknowledgeOK ==
  ASSUME NEW s \in Starts, Inv(s), NEW e \in Ends, NEW w, WorkOK(s, e, w),
         NEW p \in net, p.to = e
  PROVE  /\ WorkOK(s, e, Acknowledge(w, p))
         /\ Acknowledge(w, p).gen = w.gen /\ Acknowledge(w, p).hangup = w.hangup
         /\ Acknowledge(w, p).r.rcvgen = w.r.rcvgen /\ Acknowledge(w, p).r.rcvseq = w.r.rcvseq
<1>1. w \in Works /\ w.r \in Reliables /\ w.gen \in 1..(MaxGen + 1) /\ Sender(s, e, w.r)
  BY DEF WorkOK, Works
<1>2. p \in Packets /\ PacketOK(s, p) BY DEF Inv, TypeOK
<1>3. CASE p.ack = 0 \/ p.agen # w.r.sndgen
  BY <1>3 DEF Acknowledge
<1>4. CASE ~(p.ack = 0 \/ p.agen # w.r.sndgen)
  <2> DEFINE r == Acked(w.r, p.ack)
             real == r.ackrcvd # w.r.ackrcvd /\ r.unacked # <<>>
             wake == w.wake \/ (UNACKED(r) < Wakeat /\ r.blocked)
             t == [r EXCEPT !.xmits = 1]
             u == [w EXCEPT !.r = t, !.wake = wake]
  <2>1. /\ p.ack \in Seqs
        /\ \E k \in Nat : Came(Peer(e), w.r.sndgen, k) /\ p.ack = Num(s, w.r.sndgen, k)
    BY <1>2, <1>4 DEF PacketOK, Packets
  <2>2. /\ r \in Reliables /\ Sender(s, e, r)
        /\ r.sndgen = w.r.sndgen /\ r.rcvgen = w.r.rcvgen /\ r.rcvseq = w.r.rcvseq
        /\ r.blocked = w.r.blocked
    BY <1>1, <2>1, AckedOK
  <2>3. Acknowledge(w, p) = IF real /\ r.xmits > 1 THEN relrexmit(u)
                            ELSE [w EXCEPT !.r = r, !.wake = wake]
    BY <1>4 DEF Acknowledge
  <2> HIDE DEF r
  <2>5. wake \in BOOLEAN /\ (w.wake => wake) BY <1>1 DEF Works
  <2>6. CASE ~(real /\ r.xmits > 1)
    <3> DEFINE v == [w EXCEPT !.r = r, !.wake = wake]
    <3>1. Acknowledge(w, p) = v BY <2>3, <2>6
    <3>2. UNACKED(r) < Wakeat /\ r.blocked => wake OBVIOUS
    <3> HIDE DEF wake
    <3>3. WorkOK(s, e, v) BY <2>2, <2>5, <3>2, UpdateOK
    <3>4. v.gen = w.gen /\ v.hangup = w.hangup /\ v.r = r BY <1>1 DEF Works
    <3> HIDE DEF v
    <3> QED BY <2>2, <3>1, <3>3, <3>4
  <2>7. CASE real /\ r.xmits > 1
    <3>1. Acknowledge(w, p) = relrexmit(u) BY <2>3, <2>7
    <3>2. 1 \in 0..(Rudpmaxxmit + 1) /\ 1 <= Rudpmaxxmit BY RudpAssumption
    <3>3. /\ t \in Reliables /\ t.xmits = 1 /\ t.unacked = r.unacked /\ t.sndseq = r.sndseq
          /\ t.sndgen = r.sndgen /\ t.rcvseq = r.rcvseq /\ t.rcvgen = r.rcvgen
          /\ t.ackrcvd = r.ackrcvd /\ t.blocked = r.blocked /\ t.sent = r.sent
      BY <2>2, <3>2 DEF Reliables
    <3>4. UNACKED(t) < Wakeat /\ t.blocked => wake BY <3>3 DEF UNACKED
    <3> HIDE DEF t
    <3>5. Sender(s, e, t) BY <2>2, <3>3 DEF Sender
    <3>6. t.sndgen = w.r.sndgen /\ t.rcvgen = w.r.rcvgen /\ t.rcvseq = w.r.rcvseq /\ t.blocked = w.r.blocked
      BY <2>2, <3>3
    <3> HIDE DEF wake
    <3>7. WorkOK(s, e, u) BY <2>5, <3>3, <3>4, <3>5, <3>6, UpdateOK
    <3>8. u.gen = w.gen /\ u.hangup = w.hangup /\ u.r = t BY <1>1 DEF Works
    <3>9. u.r.unacked # <<>> /\ u.r.xmits <= Rudpmaxxmit BY <2>7, <3>2, <3>3, <3>8
    <3> HIDE DEF u
    <3>10. relrexmit(u).gen = w.gen
      <4>1. ~(u.r.xmits > Rudpmaxxmit) BY <3>2, <3>3, <3>8, RudpAssumption
      <4>2. u \in Works BY <3>7 DEF WorkOK
      <4> QED BY <3>8, <4>1, <4>2 DEF relrexmit, Works
    <3>11. relrexmit(u).gen <= MaxGen + 1 BY <1>1, <3>10, RudpAssumption
    <3> QED BY <3>1, <3>6, <3>7, <3>8, <3>9, <3>11, relrexmitOK
  <2> QED BY <2>6, <2>7
<1> QED BY <1>3, <1>4

\* A new generation of the other side starts from its first message: a packet
\* of a connection that had begun before the run is not one of these.
LEMMA NewRemoteOK ==
  ASSUME NEW s \in Starts, Inv(s), NEW e \in Ends, NEW w, WorkOK(s, e, w),
         NEW p \in net, p.sgen # Hangupgen, ~Ignored(w.r, p), NewRemote(w, p).gen <= MaxGen + 1
  PROVE  /\ WorkOK(s, e, NewRemote(w, p)) /\ NewRemote(w, p).r.rcvgen = p.sgen
<1>1. w \in Works /\ w.r \in Reliables BY DEF WorkOK, Works
<1>2. p \in Packets /\ PacketOK(s, p) /\ p.sgen \in 1..MaxGen BY DEF Inv, TypeOK, Packets
<1>3. CASE w.r.rcvgen = p.sgen BY <1>3 DEF NewRemote
<1>4. CASE w.r.rcvgen # p.sgen
  <2> DEFINE h == IF w.r.rcvgen # 0 THEN relhangup(w) ELSE w
             v == NewRemote(w, p)
  <2>1. v = [h EXCEPT !.r.rcvgen = p.sgen] BY <1>4 DEF NewRemote
  <2>2. h.gen = v.gen
    <3>1. CASE w.r.rcvgen = 0 BY <1>1, <2>1, <3>1 DEF Works
    <3>2. CASE w.r.rcvgen # 0
      <4>1. PICK r : relhangup(w) = [w EXCEPT !.r = r, !.gen = @ + 1, !.hangup = TRUE, !.wake = TRUE]
        BY DEF relhangup
      <4>2. v = [relhangup(w) EXCEPT !.r.rcvgen = p.sgen] BY <2>1, <3>2
      <4> HIDE DEF v
      <4> QED BY <1>1, <3>2, <4>1, <4>2 DEF Works
    <3> QED BY <3>1, <3>2
  <2>3. relhangup(w).gen <= MaxGen + 1 \/ w.r.rcvgen = 0 BY <2>2
  <2>4. WorkOK(s, e, h) /\ h.r.rcvgen = 0
    <3>1. CASE w.r.rcvgen = 0 BY <3>1
    <3>2. CASE w.r.rcvgen # 0 BY <2>3, <3>2, relhangupOK
    <3> QED BY <3>1, <3>2
  <2>5. s # 0 => p.sgen # 1
    <3> SUFFICES ASSUME s # 0, p.sgen = 1 PROVE FALSE OBVIOUS
    <3>1. p.ack # 0 /\ p.agen = 1 BY <1>2 DEF PacketOK
    <3>2. w.r.sndgen = 1 BY <3>1 DEF Ignored
    <3>3. w.r.rcvgen = 1 BY <3>2 DEF WorkOK, Receiver
    <3> QED BY <1>4, <3>3
  <2> SUFFICES WorkOK(s, e, v) /\ v.r.rcvgen = p.sgen OBVIOUS
  <2> HIDE DEF h, v
  <2>6. h \in Works /\ h.r \in Reliables BY <2>4 DEF WorkOK, Works
  <2>7. /\ v.r = [h.r EXCEPT !.rcvgen = p.sgen] /\ v.gen = h.gen /\ v.out = h.out
        /\ v.hangup = h.hangup /\ v.wake = h.wake
    BY <2>1, <2>6 DEF Works
  <2>8. /\ v.r \in Reliables /\ v.r.unacked = h.r.unacked /\ v.r.sndseq = h.r.sndseq
        /\ v.r.sndgen = h.r.sndgen /\ v.r.rcvseq = h.r.rcvseq /\ v.r.rcvgen = p.sgen
        /\ v.r.ackrcvd = h.r.ackrcvd /\ v.r.blocked = h.r.blocked /\ v.r.sent = h.r.sent
    <3>1. p.sgen \in 0..MaxGen BY <1>2, RudpAssumption
    <3> QED BY <2>6, <2>7, <3>1 DEF Reliables
  <2>9. v \in Works BY <2>1, <2>6, <2>7, <2>8 DEF Works
  <2>10. Sender(s, e, v.r) BY <2>4, <2>8 DEF WorkOK, Sender
  <2>11. Writer(e, v.r, v.wake) BY <2>4, <2>7, <2>8 DEF WorkOK, Writer
  <2>12. Receiver(s, e, v.r, IF v.hangup THEN <<>> ELSE taken[e])
    <3> DEFINE q == IF v.hangup THEN <<>> ELSE taken[e]
    <3>1. h.r.rcvseq = 0 /\ q = <<>> /\ (s # 0 => h.r.sndgen # 1)
      BY <2>4, <2>7 DEF WorkOK, Receiver
    <3>2. Num(s, p.sgen, 0) = 0 BY <1>2, <2>5, NumType, RudpAssumption
    <3>3. Came(e, p.sgen, 0) /\ Len(<<>>) = 0 BY CameNone
    <3> HIDE DEF q
    <3>4. Receiver(s, e, v.r, <<>>) BY <1>2, <2>8, <3>1, <3>2, <3>3 DEF Receiver
    <3> QED BY <3>1, <3>4 DEF q
  <2> QED BY <2>4, <2>7, <2>8, <2>9, <2>10, <2>11, <2>12 DEF WorkOK
<1> QED BY <1>3, <1>4

\* A packet that is not taken changes nothing, or is answered.
LEMMA SequenceOK ==
  ASSUME NEW s \in Starts, Inv(s), NEW e \in Ends, NEW w, WorkOK(s, e, w),
         NEW p, NEW full, ~Passes(w, p, full)
  PROVE  WorkOK(s, e, Sequence(e, w, p, full))
  BY relsendackOK DEF Sequence

-----------------------------------------------------------------------------
(* Steps *)

\* A step of host e: what has been sent and what has come stays so, and the
\* other host is left alone.
Grows(e) ==
  /\ net \subseteq net'
  /\ \A x \in Ends : nmsg[x] <= nmsg'[x] /\ \A g \in 1..MaxGen : Acc(x, g) \subseteq Acc(x, g)'
  /\ \A x \in Ends \ {e} :
       /\ rel'[x] = rel[x] /\ gen'[x] = gen[x] /\ kick'[x] = kick[x] /\ taken'[x] = taken[x]
       /\ conv'[x] = conv[x]

LEMMA CameGrows ==
  ASSUME NEW e \in Ends, Grows(e), NEW x \in Ends, NEW g \in 1..MaxGen, NEW k, Came(x, g, k)
  PROVE  Came(x, g, k)'
<1>1. Acc(x, g) \subseteq Acc(x, g)' BY DEF Grows
<1> QED BY <1>1 DEF Came

LEMMA PacketGrows ==
  ASSUME NEW s \in Starts, Inv(s), TypeOK', NEW e \in Ends, Grows(e), NEW p \in Packets, PacketOK(s, p)
  PROVE  PacketOK(s, p)'
<1>1. Peer(p.to) \in Ends BY Peers DEF Packets
<1>2. /\ nmsg[Peer(p.to)] \in Nat /\ nmsg'[Peer(p.to)] \in Nat /\ nmsg[Peer(p.to)] <= nmsg'[Peer(p.to)]
  BY <1>1 DEF Grows, TypeOK, Inv
<1>3. ASSUME p.ack # 0
      PROVE  p.agen # 0 /\ \E k \in Nat : Came(Peer(p.to), p.agen, k)' /\ p.ack = Num(s, p.agen, k)
  <2>1. p.agen \in 1..MaxGen BY <1>3, RudpAssumption DEF PacketOK, Packets
  <2>2. PICK k \in Nat : Came(Peer(p.to), p.agen, k) /\ p.ack = Num(s, p.agen, k)
    BY <1>3 DEF PacketOK
  <2>3. Came(Peer(p.to), p.agen, k)' BY <1>1, <2>1, <2>2, CameGrows
  <2> QED BY <2>1, <2>2, <2>3
<1>4. p.seq # 0 => p.msg \in 1..nmsg'[Peer(p.to)] BY <1>2 DEF PacketOK
<1> QED BY <1>3, <1>4 DEF PacketOK

LEMMA SenderGrows ==
  ASSUME NEW s \in Starts, Inv(s), TypeOK', NEW e \in Ends, Grows(e),
         NEW x \in Ends, NEW r \in Reliables, Sender(s, x, r)
  PROVE  Sender(s, x, r)'
<1>1. Peer(x) \in Ends /\ r.sndgen \in 1..MaxGen /\ r.sent \in Nat
  BY Peers DEF Reliables
<1>2. nmsg[x] \in Nat /\ nmsg'[x] \in Nat /\ nmsg[x] <= nmsg'[x] /\ net \subseteq net'
  BY <1>1 DEF Grows, TypeOK, Inv
<1>3. r.sent <= nmsg'[x] BY <1>1, <1>2 DEF Sender
<1>4. PICK a : a = r.sent - Len(r.unacked) OBVIOUS
<1>5. Came(Peer(x), r.sndgen, a) BY <1>4 DEF Sender
<1>6. Came(Peer(x), r.sndgen, a)' BY <1>1, <1>5, CameGrows
<1>7. \A i \in 1..Len(r.unacked) : r.unacked[i] \in net' BY <1>2 DEF Sender
<1> QED BY <1>3, <1>4, <1>6, <1>7 DEF Sender

LEMMA ReceiverGrows ==
  ASSUME NEW s \in Starts, NEW e \in Ends, Grows(e),
         NEW x \in Ends, NEW r \in Reliables, NEW q, Receiver(s, x, r, q)
  PROVE  Receiver(s, x, r, q)'
<1>1. CASE r.rcvgen = 0 BY <1>1 DEF Receiver
<1>2. CASE r.rcvgen # 0
  <2>1. r.rcvgen \in 1..MaxGen BY <1>2, RudpAssumption DEF Reliables
  <2>2. PICK n : n = Len(q) OBVIOUS
  <2>3. Came(x, r.rcvgen, n) BY <1>2, <2>2 DEF Receiver
  <2>4. Came(x, r.rcvgen, n)' BY <2>1, <2>3, CameGrows
  <2> QED BY <1>2, <2>2, <2>4 DEF Receiver
<1> QED BY <1>1, <1>2

\* The invariant holds after a step of e if it holds of e and of what it sent.
LEMMA StepOK ==
  ASSUME NEW s \in Starts, Inv(s), TypeOK', NEW e \in Ends, Grows(e), Host(s, e)',
         \A x \in Ends : nmsg'[x] <= MaxMsg[x] /\ \A g \in 1..MaxGen : Acc(x, g)' \subseteq 1..nmsg'[Peer(x)],
         \A p \in net' : p \in net \/ PacketOK(s, p)'
  PROVE  Inv(s)'
<1>1. ASSUME NEW p \in net' PROVE PacketOK(s, p)'
  <2>1. CASE p \in net
    <3>1. p \in Packets /\ PacketOK(s, p) BY <2>1 DEF Inv, TypeOK
    <3> QED BY <3>1, PacketGrows
  <2> QED BY <2>1
<1>2. ASSUME NEW x \in Ends PROVE Host(s, x)'
  <2>1. CASE x = e BY <2>1
  <2>2. CASE x # e
    <3>1. /\ rel'[x] = rel[x] /\ gen'[x] = gen[x] /\ kick'[x] = kick[x] /\ taken'[x] = taken[x]
          /\ conv'[x] = conv[x]
      BY <2>2 DEF Grows
    <3>2. Host(s, x) /\ rel[x] \in Reliables \cup {nil} /\ taken[x] \in Seq((1..MaxGen) \X Nat)
      BY DEF Inv, TypeOK
    <3>3. PICK r, q : r = rel[x] /\ q = taken[x] OBVIOUS
    <3>4. ASSUME r # nil PROVE Sender(s, x, r)' /\ Receiver(s, x, r, q)'
      <4>1. r \in Reliables /\ q \in Seq((1..MaxGen) \X Nat) BY <3>2, <3>3, <3>4
      <4>2. Sender(s, x, r) /\ Receiver(s, x, r, q) BY <3>2, <3>3, <3>4 DEF Host
      <4> QED BY <4>1, <4>2, SenderGrows, ReceiverGrows
    <3>5. rel'[x] = r /\ taken'[x] = q BY <3>1, <3>3
    <3>6. (rel[x] # nil => Sender(s, x, rel[x]) /\ Receiver(s, x, rel[x], taken[x]))'
      BY <3>4, <3>5 DEF Sender, Receiver, Came, Acc
    <3> QED BY <3>1, <3>2, <3>6 DEF Host, Writer
  <2> QED BY <2>1, <2>2
<1> QED BY <1>1, <1>2 DEF Inv

LEMMA SameCounts ==
  ASSUME NEW s \in Starts, Inv(s), UNCHANGED <<nmsg, arrived, dropped>>
  PROVE  \A x \in Ends :
           /\ nmsg[x] <= nmsg'[x] /\ nmsg'[x] <= MaxMsg[x]
           /\ \A g \in 1..MaxGen : Acc(x, g)' = Acc(x, g) /\ Acc(x, g)' \subseteq 1..nmsg'[Peer(x)]
<1>1. \A x \in Ends : nmsg[x] \in Nat BY DEF Inv, TypeOK
<1>2. \A x \in Ends : nmsg[x] <= MaxMsg[x] /\ \A g \in 1..MaxGen : Acc(x, g) \subseteq 1..nmsg[Peer(x)]
  BY DEF Inv, Host
<1> QED BY <1>1, <1>2 DEF Acc

\* The conversation of e may go on to another state; its writer has gone before
\* it is closed.
ConvStep(e) ==
  /\ conv' \in [Ends -> Convs] /\ hand' \in [Ends -> Packets \cup {nil}]
  /\ \A x \in Ends \ {e} : conv'[x] = conv[x]
  /\ conv'[e] \in Shut => kick[e] = "idle"

LEMMA ConvKept ==
  ASSUME NEW s \in Starts, Inv(s), NEW e \in Ends, conv' = conv,
         hand' = hand \/ hand' = [hand EXCEPT ![e] = nil]
  PROVE  ConvStep(e)
<1>1. conv \in [Ends -> Convs] /\ hand \in [Ends -> Packets \cup {nil}] BY DEF Inv, TypeOK, Convs
<1>2. conv[e] \in Shut => kick[e] = "idle" BY DEF Inv, Host
<1> QED BY <1>1, <1>2 DEF ConvStep

\* A step that ends with a Reliable.
LEMMA DoneOK ==
  ASSUME NEW s \in Starts, Inv(s), NEW e \in Ends, NEW v, WorkOK(s, e, v),
         Done(e, v, v.r), Kicker(e, v, v.r), Reader(e, v), ConvStep(e),
         UNCHANGED <<nmsg, arrived, dropped>>
  PROVE  Inv(s)'
<1> DEFINE q == IF v.hangup THEN <<>> ELSE taken[e]
           k == IF v.wake /\ kick[e] = "asleep" THEN "awake" ELSE kick[e]
<1>1. /\ v \in Works /\ v.r \in Reliables /\ v.r # nil /\ v.gen \in 1..(MaxGen + 1) /\ v.out \subseteq Packets
  BY RudpAssumption DEF WorkOK, Works
<1>2. TypeOK BY DEF Inv
<1>3. /\ rel' = [rel EXCEPT ![e] = v.r] /\ gen' = [gen EXCEPT ![e] = v.gen]
      /\ net \subseteq net' /\ net' \subseteq net \cup v.out
      /\ kick' = [kick EXCEPT ![e] = k] /\ taken' = [taken EXCEPT ![e] = q]
  BY <1>1 DEF Done, Kicker, Reader
<1>4. q \in Seq((1..MaxGen) \X Nat) /\ k \in {"idle", "flow", "sleep", "asleep", "awake"}
  BY <1>2 DEF TypeOK
<1>5. TypeOK' BY <1>1, <1>2, <1>3, <1>4 DEF TypeOK, ConvStep, Convs
<1>6. /\ rel'[e] = v.r /\ gen'[e] = v.gen /\ kick'[e] = k /\ taken'[e] = q
  BY <1>2, <1>3 DEF TypeOK
<1>7. Grows(e) BY <1>2, <1>3, SameCounts DEF Grows, TypeOK, ConvStep
<1>8. Sender(s, e, v.r)' /\ Receiver(s, e, v.r, q)
  BY <1>1, <1>5, <1>7, SenderGrows DEF WorkOK
<1>9. PICK z : z = q OBVIOUS
<1>10. Receiver(s, e, v.r, z)' BY <1>1, <1>7, <1>8, <1>9, ReceiverGrows
<1>11. (Sender(s, e, rel[e]) /\ Receiver(s, e, rel[e], taken[e]))'
  BY <1>6, <1>8, <1>9, <1>10 DEF Sender, Receiver, Came, Acc
<1>12. Writer(e, rel[e], FALSE)'
  <2>1. /\ kick[e] \in {"sleep", "asleep"} => v.r.blocked
        /\ kick[e] = "asleep" /\ ~v.wake => Len(v.r.unacked) >= Wakeat
    BY DEF WorkOK, Writer
  <2> QED BY <1>6, <2>1 DEF Writer
<1>13. \A x \in Ends : nmsg'[x] <= MaxMsg[x] /\ \A g \in 1..MaxGen : Acc(x, g)' \subseteq 1..nmsg'[Peer(x)]
  BY SameCounts
<1>14. (s # 0 => gen'[e] >= 2) /\ v.r.sndgen < gen'[e] /\ (conv'[e] \in Shut => kick'[e] = "idle")
  BY <1>6 DEF WorkOK, ConvStep
<1>15. Host(s, e)' BY <1>1, <1>6, <1>11, <1>12, <1>13, <1>14 DEF Host
<1>16. ASSUME NEW p \in net' PROVE p \in net \/ PacketOK(s, p)'
  BY <1>1, <1>3, <1>5, <1>7, PacketGrows DEF WorkOK
<1> QED BY <1>5, <1>7, <1>13, <1>15, <1>16, StepOK

\* A step that forgets the Reliable.
LEMMA ForgetOK ==
  ASSUME NEW s \in Starts, Inv(s), NEW e \in Ends, NEW v \in Works, s # 0 => v.gen >= 2,
         \A p \in v.out : PacketOK(s, p), Done(e, v, nil),
         kick' = [kick EXCEPT ![e] = "idle"], taken' = [taken EXCEPT ![e] = <<>>],
         ConvStep(e), UNCHANGED <<nmsg, arrived, dropped>>
  PROVE  Inv(s)'
<1>1. v.gen \in 1..(MaxGen + 1) /\ v.out \subseteq Packets BY DEF Works
<1>2. TypeOK BY DEF Inv
<1>3. /\ rel' = [rel EXCEPT ![e] = nil] /\ gen' = [gen EXCEPT ![e] = v.gen]
      /\ net \subseteq net' /\ net' \subseteq net \cup v.out
  BY DEF Done
<1>4. TypeOK' BY <1>1, <1>2, <1>3 DEF TypeOK, ConvStep, Convs
<1>5. rel'[e] = nil /\ gen'[e] = v.gen /\ kick'[e] = "idle" /\ taken'[e] = <<>>
  BY <1>2, <1>3 DEF TypeOK
<1>6. Grows(e) BY <1>2, <1>3, SameCounts DEF Grows, TypeOK, ConvStep
<1>7. \A x \in Ends : nmsg'[x] <= MaxMsg[x] /\ \A g \in 1..MaxGen : Acc(x, g)' \subseteq 1..nmsg'[Peer(x)]
  BY SameCounts
<1>8. Host(s, e)' BY <1>5, <1>7 DEF Host
<1>9. ASSUME NEW p \in net' PROVE p \in net \/ PacketOK(s, p)'
  BY <1>1, <1>3, <1>4, <1>6, PacketGrows
<1> QED BY <1>4, <1>6, <1>7, <1>8, <1>9, StepOK

\* A step that only moves the conversation.
LEMMA StillOK ==
  ASSUME NEW s \in Starts, Inv(s), NEW e \in Ends, ConvStep(e),
         UNCHANGED <<rel, gen, kick, net, nmsg, taken, arrived, dropped>>
  PROVE  Inv(s)'
<1>1. TypeOK /\ Host(s, e) BY DEF Inv
<1>2. TypeOK' BY <1>1 DEF TypeOK, ConvStep, Convs
<1>3. Grows(e) BY SameCounts DEF Grows, ConvStep
<1>4. \A x \in Ends : nmsg'[x] <= MaxMsg[x] /\ \A g \in 1..MaxGen : Acc(x, g)' \subseteq 1..nmsg'[Peer(x)]
  BY SameCounts
<1>5. (rel[e] # nil => Sender(s, e, rel[e]) /\ Receiver(s, e, rel[e], taken[e]) /\ Writer(e, rel[e], FALSE))'
  BY <1>1 DEF Host, Sender, Receiver, Writer, Came, Acc
<1>6. Host(s, e)' BY <1>1, <1>4, <1>5 DEF Host, ConvStep
<1> QED BY <1>2, <1>3, <1>4, <1>6, StepOK

\* A step that moves the writer, and perhaps sets or clears r->blocked.
LEMMA WriterOK ==
  ASSUME NEW s \in Starts, Inv(s), NEW e \in Ends, rel[e] # nil,
         NEW b \in BOOLEAN, rel' = [rel EXCEPT ![e].blocked = b],
         NEW k \in {"idle", "flow", "sleep", "asleep", "awake"}, kick' = [kick EXCEPT ![e] = k],
         k \in {"sleep", "asleep"} => b, k = "asleep" => Len(rel[e].unacked) >= Wakeat,
         kick[e] # "idle", UNCHANGED <<conv, hand, gen, net, nmsg, taken, arrived, dropped>>
  PROVE  Inv(s)'
<1>1. TypeOK /\ rel[e] \in Reliables /\ taken[e] \in Seq((1..MaxGen) \X Nat) BY DEF Inv, TypeOK
<1>2. PICK t : t = [rel[e] EXCEPT !.blocked = b] OBVIOUS
<1>3. /\ t \in Reliables /\ t.unacked = rel[e].unacked /\ t.sndseq = rel[e].sndseq
      /\ t.sndgen = rel[e].sndgen /\ t.rcvseq = rel[e].rcvseq /\ t.rcvgen = rel[e].rcvgen
      /\ t.ackrcvd = rel[e].ackrcvd /\ t.blocked = b /\ t.sent = rel[e].sent
  BY <1>1, <1>2 DEF Reliables
<1>4. rel' = [rel EXCEPT ![e] = t] BY <1>1, <1>2 DEF TypeOK
<1>5. TypeOK'
  <2>1. rel' \in [Ends -> Reliables \cup {nil}] BY <1>1, <1>3, <1>4 DEF TypeOK
  <2>2. kick' \in [Ends -> {"idle", "flow", "sleep", "asleep", "awake"}] BY <1>1 DEF TypeOK
  <2> QED BY <1>1, <2>1, <2>2 DEF TypeOK
<1>6. rel'[e] = t /\ kick'[e] = k BY <1>1, <1>4 DEF TypeOK
<1>7. Grows(e) BY <1>1, <1>4, SameCounts DEF Grows, TypeOK
<1>8. Host(s, e) /\ conv[e] \notin Shut BY DEF Inv, Host
<1>9. Sender(s, e, t) BY <1>3, <1>8 DEF Host, Sender
<1>10. PICK q : q = taken[e] OBVIOUS
<1>11. Receiver(s, e, t, q) BY <1>3, <1>8, <1>10 DEF Host, Receiver
<1>12. Sender(s, e, t)' /\ Receiver(s, e, t, q)'
  BY <1>1, <1>3, <1>5, <1>7, <1>9, <1>10, <1>11, SenderGrows, ReceiverGrows
<1>13. (Sender(s, e, rel[e]) /\ Receiver(s, e, rel[e], taken[e]))'
  BY ZenonT(60), <1>6, <1>10, <1>12 DEF Sender, Receiver, Came, Acc
<1>14. Writer(e, rel[e], FALSE)' BY <1>3, <1>6 DEF Writer
<1>15. \A x \in Ends : nmsg'[x] <= MaxMsg[x] /\ \A g \in 1..MaxGen : Acc(x, g)' \subseteq 1..nmsg'[Peer(x)]
  BY SameCounts
<1>16. rel'[e] # nil BY <1>3, <1>6, RudpAssumption
<1>17. Host(s, e)' BY <1>3, <1>6, <1>8, <1>13, <1>14, <1>15, <1>16 DEF Host
<1> QED BY <1>5, <1>7, <1>15, <1>17, StepOK

-----------------------------------------------------------------------------
(* One step per action *)

LEMMA InitOK == Init => IndInv
<1> SUFFICES ASSUME Init PROVE IndInv OBVIOUS
<1>1. \A e \in Ends : Peer(e) \in Ends BY Peers
<1>2. /\ conv = [e \in Ends |-> "open"] /\ hand = [e \in Ends |-> nil]
      /\ kick = [e \in Ends |-> "idle"] /\ net = {} /\ nmsg = [e \in Ends |-> 0]
      /\ taken = [e \in Ends |-> <<>>]
      /\ arrived = [e \in Ends |-> [g \in 1..MaxGen |-> {}]]
      /\ dropped = [e \in Ends |-> [g \in 1..MaxGen |-> {}]]
  BY DEF Init
<1>3. <<>> \in Seq((1..MaxGen) \X Nat) /\ <<>> \in Seq(Packets) /\ Len(<<>>) = 0 BY EmptySeq
<1>4. CASE rel = [e \in Ends |-> nil] /\ gen = [e \in Ends |-> 1]
  <2>1. TypeOK BY <1>2, <1>3, <1>4, RudpAssumption DEF TypeOK
  <2>2. \A e \in Ends : Host(0, e) BY <1>1, <1>2, <1>4, RudpAssumption DEF Host, Acc
  <2>3. 0 \in Starts BY DEF Starts
  <2> QED BY <1>2, <2>1, <2>2, <2>3 DEF IndInv, Inv
<1>5. CASE \E s \in Old : rel = [e \in Ends |-> Reliable(1, s)] /\ gen = [e \in Ends |-> 2]
  <2>1. PICK s \in Old : rel = [e \in Ends |-> Reliable(1, s)] /\ gen = [e \in Ends |-> 2] BY <1>5
  <2>2. s \in Starts /\ s # 0 /\ s \in Seqs /\ 0 \in 0..(Mod - 2) BY RudpAssumption DEF Starts, Seqs
  <2>3. PICK r : r = Reliable(1, s) OBVIOUS
  <2>4. r \in Reliables BY <1>3, <2>2, <2>3, RudpAssumption DEF Reliable, Reliables
  <2>5. /\ r.unacked = <<>> /\ r.sent = 0 /\ r.sndseq = s /\ r.ackrcvd = s /\ r.sndgen = 1
        /\ r.rcvseq = s /\ r.rcvgen = 1
    BY <2>2, <2>3 DEF Reliable
  <2>6. TypeOK BY <1>2, <1>3, <2>1, <2>3, <2>4, RudpAssumption DEF TypeOK
  <2>7. Num(s, 1, 0) = s /\ 1 \in 1..MaxGen BY <2>2, RudpAssumption DEF Num, Nth, Seqs
  <2>8. ASSUME NEW e \in Ends PROVE Host(s, e)
    <3>1. rel[e] = r /\ kick[e] = "idle" /\ taken[e] = <<>> BY <1>2, <2>1, <2>3
    <3>2. Sender(s, e, r) BY <1>1, <1>2, <1>3, <2>5, <2>7, CameNone DEF Sender
    <3>3. Receiver(s, e, r, <<>>) BY <1>2, <1>3, <2>5, <2>7, CameNone DEF Receiver
    <3>4. Writer(e, r, FALSE) BY <3>1 DEF Writer
    <3>5. r # nil BY <2>4, RudpAssumption
    <3>6. /\ nmsg[e] <= MaxMsg[e] /\ \A g \in 1..MaxGen : Acc(e, g) \subseteq 1..nmsg[Peer(e)]
          /\ (conv[e] \in Shut => kick[e] = "idle")
      BY <1>1, <1>2, RudpAssumption DEF Acc
    <3>7. gen[e] = 2 BY <2>1
    <3>8. Sender(s, e, rel[e]) BY <3>1, <3>2
    <3>9. Receiver(s, e, rel[e], taken[e]) BY <3>1, <3>3
    <3>10. Writer(e, rel[e], FALSE) /\ rel[e] # nil BY <3>1, <3>4, <3>5
    <3>11. rel[e].sndgen < gen[e] BY <2>5, <3>1, <3>7
    <3>12. gen[e] >= 2 BY <3>7
    <3> QED BY <3>6, <3>8, <3>9, <3>10, <3>11, <3>12, Zenon DEF Host
  <2> QED BY <1>2, <2>2, <2>6, <2>8 DEF IndInv, Inv
<1> QED BY <1>4, <1>5 DEF Init

\* Neither an acknowledgement nor a message starts a generation.
LEMMA GenKept ==
  ASSUME NEW w, NEW p, NEW e, NEW full,
         {"r", "gen", "out", "wake"} \subseteq DOMAIN w, {"xmits", "acksent"} \subseteq DOMAIN w.r
  PROVE  Sequence(e, Acknowledge(w, p), p, full).gen = w.gen
<1> DEFINE a == Acknowledge(w, p)
           r == Acked(w.r, p.ack)
           wake == w.wake \/ (UNACKED(r) < Wakeat /\ r.blocked)
           u == [w EXCEPT !.r = [r EXCEPT !.xmits = 1], !.wake = wake]
           v == [w EXCEPT !.r = r, !.wake = wake]
<1>1. a = w \/ a = v \/ a = relrexmit(u) BY DEF Acknowledge
<1>2. DOMAIN r = DOMAIN w.r BY DEF Acked
<1> HIDE DEF r, wake
<1>3. /\ DOMAIN v = DOMAIN w /\ v.gen = w.gen /\ v.r = r
      /\ DOMAIN u = DOMAIN w /\ u.gen = w.gen /\ u.r = [r EXCEPT !.xmits = 1]
  OBVIOUS
<1>4. u.r.xmits = 1 /\ DOMAIN u.r = DOMAIN w.r BY <1>2, <1>3
<1> HIDE DEF u, v
<1>5. relrexmit(u) = [u EXCEPT !.r.xmits = @ + 1, !.out = @ \cup {Head(u.r.unacked)}]
  BY <1>4, RudpAssumption DEF relrexmit
<1>6. relrexmit(u).gen = w.gen /\ DOMAIN relrexmit(u) = DOMAIN w BY <1>3, <1>5
<1>7. a.gen = w.gen /\ DOMAIN a = DOMAIN w BY <1>1, <1>3, <1>6
<1> HIDE DEF a
<1>8. relsendack(e, a, a.r.sndgen).gen = a.gen BY <1>7 DEF relsendack
<1>9. [a EXCEPT !.r.rcvseq = p.seq].gen = a.gen BY <1>7
<1> QED BY <1>7, <1>8, <1>9 DEF Sequence, a

\* Only a hangup starts one.
LEMMA NewRemoteGen ==
  ASSUME NEW e, NEW p, NEW full, NEW n \in Nat, gen[e] \in Nat,
         rel[e] = nil \/ rel[e] \in Reliables,
         Sequence(e, Acknowledge(NewRemote(relstate(e), p), p), p, full).gen <= n
  PROVE  relstate(e).gen <= n /\ NewRemote(relstate(e), p).gen <= n
<1> DEFINE w == relstate(e)
           h == relhangup(w)
           v == NewRemote(w, p)
           F == {"r", "gen", "out", "wake"}
           R == {"xmits", "acksent"}
<1>1. F \subseteq DOMAIN w /\ w.gen \in Nat BY DEF relstate
<1>2. R \subseteq DOMAIN w.r
  <2>1. R \subseteq DOMAIN Reliable(gen[e], 0) BY DEF Reliable
  <2>2. rel[e] \in Reliables => R \subseteq DOMAIN rel[e] BY DEF Reliables
  <2> QED BY <2>1, <2>2 DEF relstate
<1> HIDE DEF w
<1>3. F \subseteq DOMAIN h /\ h.gen = w.gen + 1 BY <1>1 DEF relhangup
<1>4. R \subseteq DOMAIN h.r
  <2>1. R \subseteq DOMAIN Reliable(w.gen, 0) BY DEF Reliable
  <2>2. h.r = [Reliable(w.gen, 0) EXCEPT !.blocked = w.r.blocked] BY <1>1 DEF relhangup
  <2> QED BY <2>1, <2>2
<1> HIDE DEF h
<1>5. v = w \/ v = [w EXCEPT !.r.rcvgen = p.sgen] \/ v = [h EXCEPT !.r.rcvgen = p.sgen]
  BY DEF NewRemote, h
<1> HIDE DEF v
<1>6. F \subseteq DOMAIN v /\ R \subseteq DOMAIN v.r /\ (v.gen = w.gen \/ v.gen = w.gen + 1)
  BY <1>1, <1>2, <1>3, <1>4, <1>5
<1>7. Sequence(e, Acknowledge(v, p), p, full).gen = v.gen BY <1>6, GenKept
<1>8. v.gen <= n BY <1>7 DEF v, w
<1>9. w.gen <= n BY <1>1, <1>6, <1>8
<1> QED BY <1>8, <1>9 DEF v, w

LEMMA rudpkickOK ==
  ASSUME NEW s \in Starts, Inv(s), NEW e \in Ends, rudpkick(e)
  PROVE  Inv(s)'
<1>1. PICK w, seq, p, r :
        /\ w = relstate(e) /\ seq = NEXTSEQ(w.r.sndseq)
        /\ p = Packet(e, w.r, seq, w.r.sndgen, w.r.sent + 1)
        /\ r = [w.r EXCEPT !.sndseq = seq, !.sent = @ + 1, !.acksent = w.r.rcvseq,
                           !.unacked = Append(@, p),
                           !.xmits = IF w.r.unacked = <<>> THEN 1 ELSE @]
        /\ Done(e, [w EXCEPT !.out = {p}], r)
  BY DEF rudpkick
<1>2. /\ nmsg[e] < MaxMsg[e] /\ kick' = [kick EXCEPT ![e] = "flow"]
      /\ nmsg' = [nmsg EXCEPT ![e] = @ + 1] /\ UNCHANGED <<conv, hand, taken, arrived, dropped>>
      /\ conv[e] = "open"
  BY DEF rudpkick
<1>3. w.hangup = FALSE /\ [w EXCEPT !.out = {p}].out = {p} /\ [w EXCEPT !.out = {p}].gen = w.gen
  BY <1>1 DEF relstate
<1>4. /\ w.gen <= MaxGen + 1 /\ rel' = [rel EXCEPT ![e] = r] /\ gen' = [gen EXCEPT ![e] = w.gen]
      /\ net' = net \cup {p}
  BY <1>1, <1>2, <1>3 DEF Done
<1>5. WorkOK(s, e, w) BY <1>1, <1>4, relstateOK
<1>6. w \in Works /\ w.r \in Reliables /\ w.gen \in 1..(MaxGen + 1) /\ Sender(s, e, w.r)
  BY <1>5 DEF WorkOK, Works
<1> DEFINE g == w.r.sndgen
           n == w.r.sent
           u == w.r.unacked
<1>7. /\ g \in 1..MaxGen /\ n \in Nat /\ u \in Seq(Packets) /\ w.r.rcvseq \in Seqs
      /\ w.r.xmits \in 0..(Rudpmaxxmit + 1)
  BY <1>6 DEF Reliables
<1>8. /\ Len(u) \in Nat /\ n \in 0..(Mod - 2) /\ n - Len(u) \in 0..n /\ nmsg[e] \in 0..(Mod - 2)
      /\ n <= nmsg[e]
  BY <1>6, UnackedCount, Counts DEF Sender
<1>9. MaxMsg[e] \in 0..(Mod - 2) /\ Mod \in Nat BY RudpAssumption
<1>10. n + 1 \in 0..(Mod - 2) /\ n + 1 \in Nat /\ n + 1 <= nmsg[e] + 1 BY SMTT(30), <1>2, <1>7, <1>8, <1>9
<1>11. seq = Num(s, g, n + 1) /\ seq \in Seqs /\ seq # 0
  <2>1. w.r.sndseq = Num(s, g, n) BY <1>6 DEF Sender
  <2> QED BY SMTT(30), <1>1, <1>7, <1>8, <1>10, <2>1, NumNext, NumType
<1>12. /\ p \in Packets /\ p.to = Peer(e) /\ Peer(p.to) = e /\ p.seq = seq /\ p.sgen = g /\ p.msg = n + 1
       /\ p.ack # 0 => /\ p.agen # 0
                       /\ \E k \in Nat : Came(Peer(p.to), p.agen, k) /\ p.ack = Num(s, p.agen, k)
       /\ s # 0 /\ p.sgen = 1 => p.ack # 0 /\ p.agen = 1
  <2>1. PICK m : m = w.r.sent + 1 OBVIOUS
  <2>2. m \in Nat /\ g \in {w.r.sndgen, Hangupgen} BY <1>10, <2>1
  <2>3. p = Packet(e, w.r, seq, g, m) BY <1>1, <2>1
  <2> HIDE DEF g
  <2>4. /\ p \in Packets
        /\ p.ack # 0 => /\ p.agen # 0
                        /\ \E k \in Nat : Came(Peer(p.to), p.agen, k) /\ p.ack = Num(s, p.agen, k)
        /\ s # 0 /\ p.sgen = 1 => p.ack # 0 /\ p.agen = 1
        /\ p.to = Peer(e) /\ Peer(p.to) = e /\ p.seq = seq /\ p.sgen = g /\ p.msg = m
    BY <1>5, <1>11, <2>2, <2>3, PacketTrue
  <2> QED BY <2>1, <2>4
<1>13. /\ Append(u, p) \in Seq(Packets) /\ Len(Append(u, p)) = Len(u) + 1
       /\ \A i \in 1..Len(u) : Append(u, p)[i] = u[i]
       /\ Append(u, p)[Len(u) + 1] = p
  BY <1>7, <1>8, <1>12
<1>14. /\ r \in Reliables /\ r.unacked = Append(u, p) /\ r.sent = n + 1 /\ r.sndseq = seq
       /\ r.sndgen = g /\ r.ackrcvd = w.r.ackrcvd /\ r.rcvseq = w.r.rcvseq /\ r.rcvgen = w.r.rcvgen
  <2>1. (IF w.r.unacked = <<>> THEN 1 ELSE w.r.xmits) \in 0..(Rudpmaxxmit + 1)
    BY <1>7, RudpAssumption
  <2> QED BY <1>1, <1>6, <1>7, <1>10, <1>11, <1>13, <2>1 DEF Reliables
<1>15. TypeOK BY DEF Inv
<1>16. TypeOK'
  <2>1. rel' \in [Ends -> Reliables \cup {nil}] BY <1>4, <1>14, <1>15 DEF TypeOK
  <2>2. gen' \in [Ends -> 1..(MaxGen + 1)] /\ net' \subseteq Packets
    BY <1>4, <1>6, <1>12, <1>15 DEF TypeOK
  <2>3. nmsg' \in [Ends -> Nat] /\ kick' \in [Ends -> {"idle", "flow", "sleep", "asleep", "awake"}]
    BY <1>2, <1>15 DEF TypeOK
  <2> QED BY <1>2, <1>15, <2>1, <2>2, <2>3 DEF TypeOK
<1>17. /\ rel'[e] = r /\ gen'[e] = w.gen /\ kick'[e] = "flow" /\ nmsg'[e] = nmsg[e] + 1
       /\ \A x \in Ends : x # e => nmsg'[x] = nmsg[x]
  BY <1>2, <1>4, <1>15 DEF TypeOK
<1>18. \A x \in Ends : nmsg[x] \in Nat /\ \A h \in 1..MaxGen : Acc(x, h)' = Acc(x, h)
  BY <1>2, <1>15 DEF TypeOK, Acc
<1>19. Grows(e) BY <1>2, <1>4, <1>15, <1>17, <1>18 DEF Grows, TypeOK
<1>20. \A x \in Ends : nmsg'[x] <= MaxMsg[x] /\ \A h \in 1..MaxGen : Acc(x, h)' \subseteq 1..nmsg'[Peer(x)]
  <2> SUFFICES ASSUME NEW x \in Ends
               PROVE  nmsg'[x] <= MaxMsg[x] /\ \A h \in 1..MaxGen : Acc(x, h)' \subseteq 1..nmsg'[Peer(x)]
    OBVIOUS
  <2>1. Host(s, x) /\ Peer(x) \in Ends BY Peers DEF Inv
  <2>2. nmsg'[x] <= MaxMsg[x] BY <1>2, <1>8, <1>9, <1>17, <2>1 DEF Host
  <2>3. /\ nmsg[Peer(x)] <= nmsg'[Peer(x)] /\ nmsg'[Peer(x)] \in Nat /\ nmsg[Peer(x)] \in Nat
    BY <1>16, <1>18, <1>19, <2>1 DEF Grows, TypeOK
  <2>4. 1..nmsg[Peer(x)] \subseteq 1..nmsg'[Peer(x)] BY <2>3
  <2>5. \A h \in 1..MaxGen : Acc(x, h)' = Acc(x, h) /\ Acc(x, h) \subseteq 1..nmsg[Peer(x)]
    BY <1>18, <2>1 DEF Host
  <2> QED BY <2>2, <2>4, <2>5
<1>21. PacketOK(s, p)'
  <2>1. n + 1 \in 1..nmsg'[e] BY <1>8, <1>10, <1>17
  <2>2. p.sgen # Hangupgen BY <1>7, <1>12 DEF Hangupgen
  <2> QED BY <1>2, <1>11, <1>12, <2>1, <2>2 DEF PacketOK, Came, Acc
<1>22. Sender(s, e, r)'
  <2> DEFINE a == n - Len(u)
  <2>1. r.sent - Len(r.unacked) = a
    <3>1. n \in Nat /\ Len(u) \in Nat /\ r.sent = n + 1 /\ Len(r.unacked) = Len(u) + 1
      BY <1>7, <1>8, <1>13, <1>14
    <3> HIDE DEF n, u
    <3> QED BY <3>1
  <2>2. /\ Came(Peer(e), g, a) /\ w.r.ackrcvd = Num(s, g, a)
        /\ \A i \in 1..Len(u) : u[i] \in net /\ u[i].sgen = g /\ u[i].seq = Num(s, g, a + i)
    BY <1>6 DEF Sender
  <2>3. ASSUME NEW i \in 1..Len(r.unacked)
        PROVE  r.unacked[i] \in net' /\ r.unacked[i].sgen = g /\ r.unacked[i].seq = Num(s, g, a + i)
    <3>1. CASE i \in 1..Len(u) BY <1>4, <1>13, <1>14, <2>2, <3>1
    <3>2. CASE i = Len(u) + 1
      <4>1. a + i = n + 1 BY SMTT(30), <1>8, <3>2
      <4>2. r.unacked[i] = p BY <1>13, <1>14, <3>2
      <4> QED BY <1>4, <1>11, <1>12, <4>1, <4>2
    <3> QED BY <1>8, <1>13, <1>14, <3>1, <3>2
  <2>4. 0 <= a BY <1>8
  <2>5. r.sent <= nmsg'[e] BY <1>10, <1>14, <1>17
  <2> HIDE DEF a, n, u
  <2>6. r.sndseq = Num(s, r.sndgen, r.sent) BY <1>11, <1>14
  <2>7. Came(Peer(e), g, a)' BY <1>2, <2>2 DEF Came, Acc
  <2> QED BY <1>14, <2>1, <2>2, <2>3, <2>4, <2>5, <2>6, <2>7 DEF Sender
<1>23. Receiver(s, e, r, taken[e])
  BY <1>3, <1>5, <1>14 DEF WorkOK, Receiver
<1>24. (Sender(s, e, rel[e]) /\ Receiver(s, e, rel[e], taken[e]) /\ Writer(e, rel[e], FALSE))'
  BY <1>2, <1>17, <1>22, <1>23 DEF Sender, Receiver, Writer, Came, Acc
<1>25. r # nil /\ r.sndgen < gen'[e] /\ (s # 0 => gen'[e] >= 2)
  BY <1>5, <1>14, <1>17, RudpAssumption DEF WorkOK
<1>26. Host(s, e)' BY <1>2, <1>17, <1>20, <1>24, <1>25 DEF Host, Shut
<1> QED BY <1>4, <1>16, <1>19, <1>20, <1>21, <1>26, StepOK

\* Flow control: the writer sleeps when there are more than Maxunacked messages.
LEMMA rudpkickFlowOK ==
  ASSUME NEW s \in Starts, Inv(s), NEW e \in Ends,
         rudpkickFlow(e) \/ rudpkickSleep(e) \/ rudpkickAwake(e) \/ postnote(e)
  PROVE  Inv(s)'
<1>1. TypeOK /\ Host(s, e) BY DEF Inv
<1>2. rel[e] # nil /\ kick[e] # "idle"
  BY <1>1 DEF Host, rudpkickFlow, rudpkickSleep, rudpkickAwake, postnote
<1>3. rel[e] \in Reliables /\ rel[e].blocked \in BOOLEAN BY <1>1, <1>2 DEF TypeOK, Reliables
<1>4. /\ UNACKED(rel[e]) = Len(rel[e].unacked) /\ Len(rel[e].unacked) \in Nat
      /\ Wakeat \in 1..Maxunacked /\ Maxunacked \in Nat
  BY <1>1, <1>2, <1>3, UnackedCount, RudpAssumption DEF Host
<1>5. rel = [rel EXCEPT ![e].blocked = rel[e].blocked] BY <1>1, <1>3 DEF TypeOK, Reliables
<1>6. CASE rudpkickFlow(e)
  <2>1. PICK full \in BOOLEAN :
          /\ kick' = [kick EXCEPT ![e] = IF full THEN "sleep" ELSE "idle"]
          /\ rel' = [rel EXCEPT ![e].blocked = @ \/ full]
    BY <1>6 DEF rudpkickFlow
  <2>2. PICK b : b = (rel[e].blocked \/ full) OBVIOUS
  <2>3. PICK k : k = IF full THEN "sleep" ELSE "idle" OBVIOUS
  <2>4. /\ b \in BOOLEAN /\ (k \in {"sleep", "asleep"} => b) /\ k # "asleep"
        /\ k \in {"idle", "flow", "sleep", "asleep", "awake"}
    BY <1>3, <2>2, <2>3
  <2>5. rel' = [rel EXCEPT ![e].blocked = b] /\ kick' = [kick EXCEPT ![e] = k]
    BY <1>1, <2>1, <2>2, <2>3 DEF TypeOK
  <2>6. UNCHANGED <<conv, hand, gen, net, nmsg, taken, arrived, dropped>> BY <1>6 DEF rudpkickFlow
  <2> QED BY <1>2, <2>4, <2>5, <2>6, WriterOK
<1>7. CASE rudpkickSleep(e)
  <2>1. PICK k : k = IF flow(rel[e]) THEN "awake" ELSE "asleep" OBVIOUS
  <2>2. PICK b : b = rel[e].blocked OBVIOUS
  <2>3. b BY <1>1, <1>2, <1>7, <2>2 DEF Host, Writer, rudpkickSleep
  <2>4. k = "asleep" => Len(rel[e].unacked) >= Wakeat BY <1>4, <2>1 DEF flow
  <2>5. k \in {"idle", "flow", "sleep", "asleep", "awake"} BY <2>1
  <2>6. /\ rel' = [rel EXCEPT ![e].blocked = b] /\ kick' = [kick EXCEPT ![e] = k]
        /\ UNCHANGED <<conv, hand, gen, net, nmsg, taken, arrived, dropped>>
    BY <1>5, <1>7, <2>1, <2>2 DEF rudpkickSleep
  <2> QED BY <1>2, <1>3, <2>2, <2>3, <2>4, <2>5, <2>6, WriterOK
<1>8. CASE rudpkickAwake(e)
  <2>1. /\ rel' = [rel EXCEPT ![e].blocked = FALSE] /\ kick' = [kick EXCEPT ![e] = "idle"]
        /\ UNCHANGED <<conv, hand, gen, net, nmsg, taken, arrived, dropped>>
    BY <1>8 DEF rudpkickAwake
  <2> QED BY <1>2, <2>1, WriterOK
<1>9. CASE postnote(e)
  <2>1. PICK b : b = rel[e].blocked OBVIOUS
  <2>2. /\ rel' = [rel EXCEPT ![e].blocked = b] /\ kick' = [kick EXCEPT ![e] = "idle"]
        /\ UNCHANGED <<conv, hand, gen, net, nmsg, taken, arrived, dropped>>
    BY <1>5, <1>9, <2>1 DEF postnote
  <2> QED BY <1>2, <1>3, <2>1, <2>2, WriterOK
<1> QED BY <1>6, <1>7, <1>8, <1>9

LEMMA rudpiputIgnoredOK ==
  ASSUME NEW s \in Starts, Inv(s), NEW e \in Ends, NEW p \in net, rudpiputIgnored(e, p)
  PROVE  Inv(s)'
<1>1. PICK w : w = relstate(e) OBVIOUS
<1>2. w.hangup = FALSE /\ w.wake = FALSE BY <1>1 DEF relstate
<1>3. /\ Done(e, w, w.r) /\ UNCHANGED <<conv, kick, nmsg, taken, arrived, dropped>>
      /\ hand' = [hand EXCEPT ![e] = nil]
  BY <1>1 DEF rudpiputIgnored, Comes
<1>4. WorkOK(s, e, w) BY <1>1, <1>3, relstateOK DEF Done
<1>5. TypeOK /\ w.r # nil BY <1>4, RudpAssumption DEF Inv, WorkOK, Works
<1>6. kick = [kick EXCEPT ![e] = kick[e]] /\ taken = [taken EXCEPT ![e] = taken[e]] BY <1>5 DEF TypeOK
<1>7. Kicker(e, w, w.r) /\ Reader(e, w) BY <1>2, <1>3, <1>5, <1>6 DEF Kicker, Reader
<1>8. ConvStep(e) BY <1>3, ConvKept
<1> QED BY <1>3, <1>4, <1>7, <1>8, DoneOK

\* What is left when the Reliable is forgotten, after w.
LEMMA HangupOK ==
  ASSUME NEW s \in Starts, Inv(s), NEW e \in Ends, NEW w, WorkOK(s, e, w),
         Done(e, relhangup(w), nil), kick' = [kick EXCEPT ![e] = "idle"],
         Reader(e, relhangup(w)), ConvStep(e), UNCHANGED <<nmsg, arrived, dropped>>
  PROVE  Inv(s)'
<1>1. PICK v : v = relhangup(w) OBVIOUS
<1>2. v.gen <= MaxGen + 1 /\ Done(e, v, nil) /\ Reader(e, v) BY <1>1 DEF Done
<1>3. WorkOK(s, e, v) /\ v.hangup = TRUE BY <1>1, <1>2, relhangupOK
<1>4. taken' = [taken EXCEPT ![e] = <<>>] BY <1>2, <1>3 DEF Reader
<1>5. v \in Works /\ (s # 0 => v.gen >= 2) /\ \A p \in v.out : PacketOK(s, p) BY <1>3 DEF WorkOK
<1> QED BY <1>2, <1>4, <1>5, ForgetOK

LEMMA rudpiputHangupOK ==
  ASSUME NEW s \in Starts, Inv(s), NEW e \in Ends, NEW p \in net, rudpiputHangup(e, p)
  PROVE  Inv(s)'
<1>1. PICK w : w = relstate(e) OBVIOUS
<1>2. /\ Done(e, relhangup(w), nil) /\ Kicker(e, relhangup(w), nil) /\ Reader(e, relhangup(w))
      /\ UNCHANGED <<conv, nmsg, arrived, dropped>> /\ hand' = [hand EXCEPT ![e] = nil]
  BY <1>1 DEF rudpiputHangup, Comes
<1>3. TypeOK /\ gen[e] \in Nat /\ MaxGen \in Nat BY RudpAssumption DEF Inv, TypeOK
<1>4. relhangup(w).gen = w.gen + 1 /\ w.gen \in Nat BY <1>1, <1>3 DEF relhangup, relstate
<1>5. w.gen <= MaxGen + 1 BY <1>2, <1>3, <1>4 DEF Done
<1>6. WorkOK(s, e, w) BY <1>1, <1>5, relstateOK
<1>7. kick' = [kick EXCEPT ![e] = "idle"] BY <1>2 DEF Kicker
<1>8. ConvStep(e) BY <1>2, ConvKept
<1> QED BY <1>2, <1>6, <1>7, <1>8, HangupOK

\* A set of messages gets one more.
LEMMA OneMore ==
  ASSUME NEW f \in [Ends -> [1..MaxGen -> SUBSET Nat]], NEW e \in Ends, NEW g \in 1..MaxGen, NEW m \in Nat,
         NEW h, h = [f EXCEPT ![e][g] = @ \cup {m}]
  PROVE  /\ h \in [Ends -> [1..MaxGen -> SUBSET Nat]] /\ h[e][g] = f[e][g] \cup {m}
         /\ \A x \in Ends : \A i \in 1..MaxGen : x # e \/ i # g => h[x][i] = f[x][i]
<1>1. PICK k : k = [f[e] EXCEPT ![g] = f[e][g] \cup {m}] OBVIOUS
<1>2. k \in [1..MaxGen -> SUBSET Nat] /\ k[g] = f[e][g] \cup {m} /\ \A i \in 1..MaxGen : i # g => k[i] = f[e][i]
  BY <1>1
<1>3. h = [f EXCEPT ![e] = k] BY <1>1
<1>4. h[e] = k /\ \A x \in Ends : x # e => h[x] = f[x] BY <1>3
<1>5. h \in [Ends -> [1..MaxGen -> SUBSET Nat]] BY <1>2, <1>3
<1> QED BY <1>2, <1>4, <1>5

\* A message that is taken is the one after the last one.
LEMMA PassesOK ==
  ASSUME NEW s \in Starts, Inv(s), NEW e \in Ends, NEW p \in net, p.to = e, p.sgen # Hangupgen,
         NEW w, WorkOK(s, e, w), w.r.rcvgen = p.sgen, NEW full, Passes(w, p, full),
         NEW v, v = [w EXCEPT !.r.rcvseq = p.seq], Done(e, v, v.r), Kicker(e, v, v.r),
         taken' = [taken EXCEPT ![e] = Append(IF v.hangup THEN <<>> ELSE @, <<p.sgen, p.msg>>)],
         qpass(e, p), ConvStep(e), UNCHANGED nmsg
  PROVE  Inv(s)'
<1> DEFINE q == IF w.hangup THEN <<>> ELSE taken[e]
           g == p.sgen
           n == Len(q)
           z == Append(q, <<g, n + 1>>)
           k == IF v.wake /\ kick[e] = "asleep" THEN "awake" ELSE kick[e]
<1>1. w \in Works /\ w.r \in Reliables BY DEF WorkOK, Works
<1>2. p \in Packets /\ PacketOK(s, p) /\ g \in 1..MaxGen /\ p.seq \in Seqs /\ p.msg \in Nat
  BY DEF Inv, TypeOK, Packets
<1>3. TypeOK BY DEF Inv
<1>4. q \in Seq((1..MaxGen) \X Nat) BY <1>3 DEF TypeOK
<1>5. n \in Nat BY <1>4, LenProperties
<1>6. Peer(e) \in Ends BY Peers
<1>7. /\ Acc(e, g) \subseteq 1..nmsg[Peer(e)] /\ nmsg[Peer(e)] \in 0..(Mod - 2) /\ Mod - 2 \in Nat
  BY <1>2, <1>6, Counts
<1>8. /\ g # 0 /\ w.r.rcvseq = Num(s, g, n) /\ Came(e, g, n)
      /\ \A i \in 1..n : q[i] = <<g, i>>
  BY <1>1, <1>2, RudpAssumption DEF WorkOK, Receiver
<1>9. p.seq # 0 /\ p.seq = NEXTSEQ(w.r.rcvseq) BY DEF Passes
<1>10. p.msg \in 1..nmsg[Peer(e)] /\ p.seq = Num(s, g, p.msg) BY <1>2, <1>9 DEF PacketOK
<1> HIDE DEF q, g, n
<1>11. n \in 0..(Mod - 2) /\ g \in Int /\ g \in 1..MaxGen
  <2>1. g \in 1..MaxGen BY <1>2 DEF g
  <2> QED BY <1>5, <1>8, <2>1, CameCount
<1>12. p.seq = Num(s, g, n + 1) BY <1>8, <1>9, <1>11, NumNext
<1>13. p.msg = n + 1
  <2>0. Mod \in Nat BY RudpAssumption
  <2>1. p.msg \in 1..(Mod - 1) /\ n + 1 \in 1..(Mod - 1) BY <1>7, <1>10, <1>11, <2>0
  <2> QED BY <1>10, <1>11, <1>12, <2>1, NumInjective
<1>14. n + 1 <= nmsg[Peer(e)] /\ n + 1 \in Nat BY <1>7, <1>10, <1>11, <1>13
<1>15. /\ v.r = [w.r EXCEPT !.rcvseq = p.seq] /\ v.gen = w.gen /\ v.out = w.out
       /\ v.hangup = w.hangup /\ v.wake = w.wake
  BY <1>1 DEF Works
<1>16. /\ v.r \in Reliables /\ v.r.unacked = w.r.unacked /\ v.r.sndseq = w.r.sndseq
       /\ v.r.sndgen = w.r.sndgen /\ v.r.rcvseq = p.seq /\ v.r.rcvgen = g
       /\ v.r.ackrcvd = w.r.ackrcvd /\ v.r.blocked = w.r.blocked /\ v.r.sent = w.r.sent
  BY <1>1, <1>2, <1>15 DEF Reliables, g
<1>17. /\ v.r # nil /\ v.gen \in 1..(MaxGen + 1) /\ v.out \subseteq Packets
  BY <1>1, <1>15, <1>16, RudpAssumption DEF Works
<1>18. /\ rel' = [rel EXCEPT ![e] = v.r] /\ gen' = [gen EXCEPT ![e] = v.gen]
       /\ net \subseteq net' /\ net' \subseteq net \cup v.out /\ kick' = [kick EXCEPT ![e] = k]
       /\ taken' = [taken EXCEPT ![e] = z]
  BY <1>13, <1>15, <1>17 DEF Done, Kicker, q, g
<1>19. z \in Seq((1..MaxGen) \X Nat) /\ Len(z) = n + 1 /\ \A i \in 1..(n + 1) : z[i] = <<g, i>>
  <2>1. <<g, n + 1>> \in (1..MaxGen) \X Nat BY <1>2, <1>14 DEF g
  <2>2. /\ z \in Seq((1..MaxGen) \X Nat) /\ Len(z) = n + 1 /\ z[n + 1] = <<g, n + 1>>
        /\ \A i \in 1..n : z[i] = q[i]
    BY <1>4, <2>1, AppendProperties DEF n
  <2> HIDE DEF z
  <2>3. ASSUME NEW i \in 1..(n + 1) PROVE z[i] = <<g, i>>
    <3>1. CASE i = n + 1 BY <2>2, <3>1
    <3>2. CASE i # n + 1
      <4>1. i \in 1..n BY <1>5, <3>2
      <4> QED BY <1>8, <2>2, <4>1
    <3> QED BY <3>1, <3>2
  <2> QED BY <2>2, <2>3
<1>20. k \in {"idle", "flow", "sleep", "asleep", "awake"} BY <1>3 DEF TypeOK
<1> HIDE DEF z, k
<1>21. /\ arrived' \in [Ends -> [1..MaxGen -> SUBSET Nat]] /\ dropped' \in [Ends -> [1..MaxGen -> SUBSET Nat]]
       /\ Acc(e, g)' = Acc(e, g) \cup {n + 1}
       /\ \A x \in Ends : \A h \in 1..MaxGen : x # e \/ h # g => Acc(x, h)' = Acc(x, h)
  <2>1. /\ arrived \in [Ends -> [1..MaxGen -> SUBSET Nat]] /\ dropped \in [Ends -> [1..MaxGen -> SUBSET Nat]]
    BY <1>3 DEF TypeOK
  <2>2. CASE conv[e] = "open"
    <3>1. arrived' = [arrived EXCEPT ![e][g] = @ \cup {n + 1}] /\ dropped' = dropped
      BY <1>13, <2>2 DEF qpass, g
    <3>2. PICK h : h = arrived' OBVIOUS
    <3>3. /\ h \in [Ends -> [1..MaxGen -> SUBSET Nat]] /\ h[e][g] = arrived[e][g] \cup {n + 1}
          /\ \A x \in Ends : \A i \in 1..MaxGen : x # e \/ i # g => h[x][i] = arrived[x][i]
      <4>1. PICK m \in Nat : m = n + 1 BY <1>14
      <4>2. PICK f : f = arrived OBVIOUS
      <4>3. h = [f EXCEPT ![e][g] = @ \cup {m}] /\ f \in [Ends -> [1..MaxGen -> SUBSET Nat]]
        BY <2>1, <3>1, <3>2, <4>1, <4>2
      <4>4. /\ h \in [Ends -> [1..MaxGen -> SUBSET Nat]] /\ h[e][g] = f[e][g] \cup {m}
            /\ \A x \in Ends : \A i \in 1..MaxGen : x # e \/ i # g => h[x][i] = f[x][i]
        BY <1>11, <4>3, OneMore
      <4> QED BY <4>1, <4>2, <4>4
    <3> QED BY <2>1, <3>1, <3>2, <3>3 DEF Acc
  <2>3. CASE conv[e] # "open"
    <3>1. dropped' = [dropped EXCEPT ![e][g] = @ \cup {n + 1}] /\ arrived' = arrived
      BY <1>13, <2>3 DEF qpass, g
    <3>2. PICK h : h = dropped' OBVIOUS
    <3>3. /\ h \in [Ends -> [1..MaxGen -> SUBSET Nat]] /\ h[e][g] = dropped[e][g] \cup {n + 1}
          /\ \A x \in Ends : \A i \in 1..MaxGen : x # e \/ i # g => h[x][i] = dropped[x][i]
      <4>1. PICK m \in Nat : m = n + 1 BY <1>14
      <4>2. PICK f : f = dropped OBVIOUS
      <4>3. h = [f EXCEPT ![e][g] = @ \cup {m}] /\ f \in [Ends -> [1..MaxGen -> SUBSET Nat]]
        BY <2>1, <3>1, <3>2, <4>1, <4>2
      <4>4. /\ h \in [Ends -> [1..MaxGen -> SUBSET Nat]] /\ h[e][g] = f[e][g] \cup {m}
            /\ \A x \in Ends : \A i \in 1..MaxGen : x # e \/ i # g => h[x][i] = f[x][i]
        BY <1>11, <4>3, OneMore
      <4> QED BY <4>1, <4>2, <4>4
    <3> QED BY <2>1, <3>1, <3>2, <3>3 DEF Acc
  <2> QED BY <2>2, <2>3
<1>22. 1..(n + 1) \subseteq Acc(e, g)'
  <2>1. 1..n \subseteq Acc(e, g) BY <1>8 DEF Came
  <2>2. 1..(n + 1) = 1..n \cup {n + 1} BY <1>5
  <2> QED BY <1>21, <2>1, <2>2
<1>25. TypeOK'
  <2>1. rel' \in [Ends -> Reliables \cup {nil}] BY <1>3, <1>16, <1>18 DEF TypeOK
  <2>2. gen' \in [Ends -> 1..(MaxGen + 1)] BY <1>3, <1>17, <1>18 DEF TypeOK
  <2>3. kick' \in [Ends -> {"idle", "flow", "sleep", "asleep", "awake"}] BY <1>3, <1>18, <1>20 DEF TypeOK
  <2>4. taken' \in [Ends -> Seq((1..MaxGen) \X Nat)] BY ZenonT(60), <1>3, <1>18, <1>19 DEF TypeOK
  <2>5. net' \subseteq Packets BY <1>3, <1>17, <1>18 DEF TypeOK
  <2>6. nmsg' \in [Ends -> Nat] BY <1>3 DEF TypeOK
  <2> QED BY <1>21, <2>1, <2>2, <2>3, <2>4, <2>5, <2>6 DEF TypeOK, ConvStep, Convs
<1>26. /\ rel'[e] = v.r /\ gen'[e] = v.gen /\ kick'[e] = k /\ taken'[e] = z
  BY <1>3, <1>18 DEF TypeOK
<1>27. \A x \in Ends : \A h \in 1..MaxGen : Acc(x, h) \subseteq Acc(x, h)'
  <2> SUFFICES ASSUME NEW x \in Ends, NEW h \in 1..MaxGen PROVE Acc(x, h) \subseteq Acc(x, h)'
    OBVIOUS
  <2>1. CASE x = e /\ h = g BY <1>21, <2>1
  <2>2. CASE x # e \/ h # g BY <1>21, <2>2
  <2> QED BY <2>1, <2>2
<1>28. \A x \in Ends : nmsg[x] <= nmsg'[x] BY <1>3 DEF TypeOK
<1>29. Grows(e) BY <1>3, <1>18, <1>27, <1>28 DEF Grows, TypeOK, ConvStep
<1>30. Sender(s, e, v.r) BY <1>16 DEF WorkOK, Sender
<1>31. Sender(s, e, v.r)' BY <1>16, <1>25, <1>29, <1>30, SenderGrows
<1>32. (Sender(s, e, rel[e]))' BY <1>26, <1>31 DEF Sender, Came, Acc
<1>33. (Receiver(s, e, rel[e], taken[e]))'
  <2>1. s # 0 /\ v.r.sndgen = 1 => v.r.rcvgen = 1 BY <1>16 DEF WorkOK, Receiver, g
  <2>2. v.r.rcvgen # 0 /\ v.r.rcvseq = Num(s, v.r.rcvgen, Len(z)) BY <1>8, <1>12, <1>16, <1>19
  <2>3. 1..Len(z) \subseteq arrived'[e][v.r.rcvgen] \cup dropped'[e][v.r.rcvgen]
    BY <1>16, <1>19, <1>22 DEF Acc
  <2>4. \A i \in 1..Len(z) : z[i] = <<v.r.rcvgen, i>> BY <1>16, <1>19
  <2> QED BY <1>26, <2>1, <2>2, <2>3, <2>4 DEF Receiver, Came, Acc
<1>34. Writer(e, rel[e], FALSE)'
  <2>1. /\ kick[e] \in {"sleep", "asleep"} => v.r.blocked
        /\ kick[e] = "asleep" /\ ~v.wake => Len(v.r.unacked) >= Wakeat
    BY <1>15, <1>16 DEF WorkOK, Writer
  <2> QED BY <1>26, <2>1 DEF Writer, k
<1>35. \A x \in Ends : nmsg'[x] <= MaxMsg[x] /\ \A h \in 1..MaxGen : Acc(x, h)' \subseteq 1..nmsg'[Peer(x)]
  <2> SUFFICES ASSUME NEW x \in Ends, NEW h \in 1..MaxGen
               PROVE  nmsg'[x] <= MaxMsg[x] /\ Acc(x, h)' \subseteq 1..nmsg'[Peer(x)]
    BY RudpAssumption
  <2>1. nmsg[x] <= MaxMsg[x] /\ Acc(x, h) \subseteq 1..nmsg[Peer(x)] BY DEF Inv, Host
  <2>2. n + 1 \in 1..nmsg[Peer(e)] BY <1>5, <1>7, <1>14
  <2>3. CASE x = e /\ h = g BY <1>21, <2>1, <2>2, <2>3
  <2>4. CASE x # e \/ h # g BY <1>21, <2>1, <2>4
  <2> QED BY <2>3, <2>4
<1>36. (s # 0 => gen'[e] >= 2) /\ v.r.sndgen < gen'[e] /\ (conv'[e] \in Shut => kick'[e] = "idle")
  BY <1>15, <1>16, <1>26 DEF WorkOK, ConvStep, k
<1>37. Host(s, e)' BY <1>17, <1>26, <1>32, <1>33, <1>34, <1>35, <1>36 DEF Host
<1>38. ASSUME NEW o \in net' PROVE o \in net \/ PacketOK(s, o)'
  BY <1>15, <1>17, <1>18, <1>25, <1>29, PacketGrows DEF WorkOK
<1> QED BY <1>25, <1>29, <1>35, <1>37, <1>38, StepOK

LEMMA rudpiputOK ==
  ASSUME NEW s \in Starts, Inv(s), NEW e \in Ends, NEW p \in net, NEW full \in BOOLEAN,
         rudpiput(e, p, full)
  PROVE  Inv(s)'
<1>1. PICK u : u = relstate(e) OBVIOUS
<1>2. PICK n : n = NewRemote(u, p) OBVIOUS
<1>3. PICK w \in {Acknowledge(n, p)}, v \in {Sequence(e, Acknowledge(n, p), p, full)} :
        /\ Done(e, v, v.r) /\ Kicker(e, v, v.r)
        /\ IF Passes(w, p, full)
           THEN /\ taken' = [taken EXCEPT ![e] = Append(IF v.hangup THEN <<>> ELSE @, <<p.sgen, p.msg>>)]
                /\ qpass(e, p)
           ELSE Reader(e, v) /\ UNCHANGED <<arrived, dropped>>
  BY <1>1, <1>2 DEF rudpiput
<1>4. /\ p.to = e /\ p.sgen # Hangupgen /\ ~Ignored(u.r, p) /\ UNCHANGED <<conv, nmsg>>
      /\ hand' = [hand EXCEPT ![e] = nil]
  BY <1>1 DEF rudpiput, Comes
<1>12. ConvStep(e) BY <1>4, ConvKept
<1>5. w = Acknowledge(n, p) /\ v = Sequence(e, w, p, full) /\ v.gen <= MaxGen + 1
  BY <1>3 DEF Done
<1>6. u.gen <= MaxGen + 1 /\ n.gen <= MaxGen + 1
  <2>1. gen[e] \in Nat /\ (rel[e] = nil \/ rel[e] \in Reliables) /\ MaxGen + 1 \in Nat
    BY RudpAssumption DEF Inv, TypeOK
  <2> QED BY <1>1, <1>2, <1>5, <2>1, NewRemoteGen
<1>7. WorkOK(s, e, u) BY <1>1, <1>6, relstateOK
<1>8. WorkOK(s, e, n) /\ n.r.rcvgen = p.sgen BY <1>2, <1>4, <1>6, <1>7, NewRemoteOK
<1>9. WorkOK(s, e, w) /\ w.r.rcvgen = p.sgen BY <1>4, <1>5, <1>8, AcknowledgeOK
<1>10. CASE ~Passes(w, p, full)
  <2>1. WorkOK(s, e, v) BY <1>5, <1>9, <1>10, SequenceOK
  <2> QED BY <1>3, <1>4, <1>10, <1>12, <2>1, DoneOK
<1>11. CASE Passes(w, p, full)
  <2>1. v = [w EXCEPT !.r.rcvseq = p.seq] BY <1>5, <1>11 DEF Sequence, Passes
  <2> QED BY <1>3, <1>4, <1>9, <1>11, <1>12, <2>1, PassesOK
<1> QED BY <1>10, <1>11

LEMMA relackprocOK ==
  ASSUME NEW s \in Starts, Inv(s), NEW e \in Ends, NEW due \in BOOLEAN, relackproc(e, due)
  PROVE  Inv(s)'
<1>1. PICK u : u = relstate(e) OBVIOUS
<1>2. PICK w : w = IF due THEN relrexmit(u) ELSE u OBVIOUS
<1>3. PICK v : v = IF w.r.acksent # w.r.rcvseq THEN relsendack(e, w, w.r.sndgen) ELSE w OBVIOUS
<1>4. /\ rel[e] # nil /\ (due => rel[e].unacked # <<>>) /\ Done(e, v, v.r) /\ Kicker(e, v, v.r)
      /\ Reader(e, v) /\ UNCHANGED <<conv, hand, nmsg, arrived, dropped>>
  BY <1>1, <1>2, <1>3 DEF relackproc
<1>5. u.r = rel[e] /\ u.gen = gen[e] /\ gen[e] <= MaxGen + 1 /\ gen[e] \in Nat /\ MaxGen \in Nat
  BY <1>1, <1>4, RudpAssumption DEF relstate, Inv, TypeOK
<1>6. WorkOK(s, e, u) BY <1>1, <1>5, relstateOK
<1>7. w.gen <= MaxGen + 1
  <2>1. {"r", "gen", "out"} \subseteq DOMAIN u BY <1>1 DEF relstate
  <2>2. {"r", "gen", "out"} \subseteq DOMAIN relrexmit(u) BY <2>1 DEF relrexmit, relhangup
  <2>3. {"r", "gen", "out"} \subseteq DOMAIN w BY <1>2, <2>1, <2>2
  <2>4. v.gen = w.gen BY <1>3, <2>3 DEF relsendack
  <2> QED BY <1>4, <2>4 DEF Done
<1>8. WorkOK(s, e, w)
  <2>1. CASE ~due BY <1>2, <1>6, <2>1
  <2>2. CASE due
    <3>1. w = relrexmit(u) /\ u.r.unacked # <<>> BY <1>2, <1>4, <1>5, <2>2
    <3> QED BY <1>6, <1>7, <3>1, relrexmitOK
  <2> QED BY <2>1, <2>2
<1>9. WorkOK(s, e, v) BY <1>3, <1>8, relsendackOK
<1>10. ConvStep(e) BY <1>4, ConvKept
<1> QED BY <1>4, <1>9, <1>10, DoneOK

LEMMA relforgetOK ==
  ASSUME NEW s \in Starts, Inv(s), NEW e \in Ends, relforget(e)
  PROVE  Inv(s)'
<1>1. PICK u : u = relstate(e) OBVIOUS
<1>2. PICK w : w = relsendack(e, u, Hangupgen) OBVIOUS
<1>3. /\ rel[e] # nil /\ Done(e, relhangup(w), nil) /\ Kicker(e, relhangup(w), nil)
      /\ Reader(e, relhangup(w)) /\ UNCHANGED <<conv, hand, nmsg, arrived, dropped>>
  BY <1>1, <1>2 DEF relforget
<1>4. TypeOK /\ u.gen <= MaxGen + 1 BY <1>1, <1>3, RudpAssumption DEF relstate, Inv, TypeOK
<1>5. WorkOK(s, e, u) BY <1>1, <1>4, relstateOK
<1>6. WorkOK(s, e, w) BY <1>2, <1>5, relsendackOK
<1>7. kick' = [kick EXCEPT ![e] = "idle"] BY <1>3 DEF Kicker
<1>8. ConvStep(e) BY <1>3, ConvKept
<1> QED BY <1>3, <1>6, <1>7, <1>8, HangupOK

\* The first section of rudpclose sends what it has to acknowledge.
LEMMA rudpcloseOK ==
  ASSUME NEW s \in Starts, Inv(s), NEW e \in Ends, NEW p \in net \cup {nil}, rudpclose(e, p)
  PROVE  Inv(s)'
<1>1. TypeOK BY DEF Inv
<1>2. /\ kick[e] = "idle" /\ conv' = [conv EXCEPT ![e] = "closing"] /\ hand' = [hand EXCEPT ![e] = p]
      /\ UNCHANGED <<kick, nmsg, taken, arrived, dropped>>
  BY DEF rudpclose
<1>3. ConvStep(e) BY <1>1, <1>2 DEF TypeOK, ConvStep, Convs
<1>4. CASE rel[e] = nil \/ rel[e].acksent = rel[e].rcvseq
  <2>1. UNCHANGED <<rel, gen, net>> BY <1>4 DEF rudpclose
  <2> QED BY <1>2, <1>3, <2>1, StillOK
<1>5. CASE ~(rel[e] = nil \/ rel[e].acksent = rel[e].rcvseq)
  <2>1. PICK u : u = relstate(e) OBVIOUS
  <2>2. PICK w : w = relsendack(e, u, rel[e].sndgen) OBVIOUS
  <2>3. Done(e, w, w.r) BY <1>5, <2>1, <2>2 DEF rudpclose
  <2>4. u.gen <= MaxGen + 1 /\ u.r = rel[e] /\ u.hangup = FALSE
    BY <1>1, <1>5, <2>1, RudpAssumption DEF relstate, TypeOK
  <2>5. WorkOK(s, e, u) BY <2>1, <2>4, relstateOK
  <2>6. WorkOK(s, e, w) /\ w.hangup = FALSE BY <2>2, <2>4, <2>5, relsendackOK
  <2>7. w.r # nil BY <2>6, RudpAssumption DEF WorkOK, Works
  <2>8. kick = [kick EXCEPT ![e] = kick[e]] /\ taken = [taken EXCEPT ![e] = taken[e]] BY <1>1 DEF TypeOK
  <2>9. Kicker(e, w, w.r) /\ Reader(e, w) BY <1>2, <2>6, <2>7, <2>8 DEF Kicker, Reader
  <2> QED BY <1>2, <1>3, <2>3, <2>6, <2>9, DoneOK
<1> QED BY <1>4, <1>5

\* The second forgets the Reliable, if a late packet has not made it nil.
LEMMA rudpcloseForgetOK ==
  ASSUME NEW s \in Starts, Inv(s), NEW e \in Ends, rudpcloseForget(e)
  PROVE  Inv(s)'
<1>1. TypeOK /\ Host(s, e) BY DEF Inv
<1>2. /\ conv[e] = "closing" /\ conv' = [conv EXCEPT ![e] = "closed"]
      /\ UNCHANGED <<hand, kick, nmsg, arrived, dropped>>
  BY DEF rudpcloseForget
<1>3. kick[e] = "idle" BY <1>1, <1>2 DEF Host, Shut
<1>4. ConvStep(e) BY <1>1, <1>2, <1>3 DEF TypeOK, ConvStep, Convs
<1>5. CASE rel[e] = nil
  <2>1. UNCHANGED <<rel, gen, net, taken>> BY <1>5 DEF rudpcloseForget
  <2> QED BY <1>2, <1>4, <2>1, StillOK
<1>6. CASE rel[e] # nil
  <2>1. PICK u : u = relstate(e) OBVIOUS
  <2>2. Done(e, relhangup(u), nil) /\ Reader(e, relhangup(u)) BY <1>6, <2>1 DEF rudpcloseForget
  <2>3. u.gen <= MaxGen + 1 BY <1>1, <1>6, <2>1, RudpAssumption DEF relstate, TypeOK
  <2>4. WorkOK(s, e, u) BY <2>1, <2>3, relstateOK
  <2>5. kick' = [kick EXCEPT ![e] = "idle"] BY <1>1, <1>2, <1>3 DEF TypeOK
  <2> QED BY <1>2, <1>4, <2>2, <2>4, <2>5, HangupOK
<1> QED BY <1>5, <1>6

LEMMA rebootOK ==
  ASSUME NEW s \in Starts, Inv(s), NEW e \in Ends, rudpadvise(e) \/ rudpannounce(e) \/ reboot(e)
  PROVE  Inv(s)'
<1>1. TypeOK /\ Host(s, e) BY DEF Inv
<1>2. CASE rudpadvise(e) \/ rudpannounce(e)
  <2>1. /\ UNCHANGED <<hand, rel, gen, kick, net, nmsg, taken, arrived, dropped>>
        /\ conv' = [conv EXCEPT ![e] = "hungup"] \/ conv' = [conv EXCEPT ![e] = "open"]
    BY <1>2 DEF rudpadvise, rudpannounce
  <2>2. ConvStep(e) BY <1>1, <2>1 DEF TypeOK, ConvStep, Convs, Shut
  <2> QED BY <2>1, <2>2, StillOK
<1>3. CASE reboot(e)
  <2>1. /\ rel' = [rel EXCEPT ![e] = nil] /\ kick' = [kick EXCEPT ![e] = "idle"]
        /\ taken' = [taken EXCEPT ![e] = <<>>] /\ UNCHANGED <<gen, net, nmsg, arrived, dropped>>
        /\ hand' = [hand EXCEPT ![e] = nil]
        /\ conv' = [conv EXCEPT ![e] = IF conv[e] \in {"open", "hungup"} THEN "open" ELSE "closed"]
    BY <1>3 DEF reboot, Open
  <2>2. \A x \in Ends : nmsg'[x] <= MaxMsg[x] /\ \A g \in 1..MaxGen : Acc(x, g)' \subseteq 1..nmsg'[Peer(x)]
    BY <2>1, SameCounts
  <2>3. TypeOK' BY <1>1, <2>1 DEF TypeOK
  <2>4. Grows(e) BY <1>1, <2>1, SameCounts DEF Grows, TypeOK
  <2>5. rel'[e] = nil /\ kick'[e] = "idle" /\ taken'[e] = <<>> BY <1>1, <2>1 DEF TypeOK
  <2>6. Host(s, e)' BY <1>1, <2>1, <2>2, <2>5 DEF Host
  <2> QED BY <2>1, <2>2, <2>3, <2>4, <2>6, StepOK
<1> QED BY <1>2, <1>3

LEMMA StutterOK ==
  ASSUME NEW s \in Starts, Inv(s), UNCHANGED vars
  PROVE  Inv(s)'
<1>1. PICK e \in Ends : TRUE BY RudpAssumption
<1>2. UNCHANGED <<conv, hand, rel, gen, kick, net, nmsg, taken, arrived, dropped>> BY DEF vars
<1>3. ConvStep(e) BY <1>2, ConvKept
<1> QED BY <1>2, <1>3, StillOK

LEMMA NextOK == IndInv /\ [Next]_vars => IndInv'
<1> SUFFICES ASSUME IndInv, [Next]_vars PROVE IndInv' OBVIOUS
<1>1. PICK s \in Starts : Inv(s) BY DEF IndInv
<1> SUFFICES Inv(s)' BY DEF IndInv
<1>2. CASE UNCHANGED vars BY <1>1, <1>2, StutterOK
<1>3. CASE Next
  <2>1. PICK e \in Ends :
          \/ rudpkick(e) \/ rudpkickFlow(e) \/ rudpkickSleep(e) \/ rudpkickAwake(e) \/ postnote(e)
          \/ \E p \in net : \/ rudpiputIgnored(e, p) \/ rudpiputHangup(e, p)
                            \/ \E full \in BOOLEAN : rudpiput(e, p, full)
          \/ \E due \in BOOLEAN : relackproc(e, due)
          \/ rudpadvise(e) \/ relforget(e) \/ rudpannounce(e) \/ reboot(e)
          \/ rudpcloseForget(e) \/ \E p \in net \cup {nil} : rudpclose(e, p)
    BY <1>3 DEF Next
  <2>2. CASE rudpkick(e) BY <1>1, <2>2, rudpkickOK
  <2>3. CASE rudpkickFlow(e) \/ rudpkickSleep(e) \/ rudpkickAwake(e) \/ postnote(e)
    BY <1>1, <2>3, rudpkickFlowOK
  <2>4. ASSUME NEW p \in net, rudpiputIgnored(e, p) PROVE Inv(s)' BY <1>1, <2>4, rudpiputIgnoredOK
  <2>5. ASSUME NEW p \in net, rudpiputHangup(e, p) PROVE Inv(s)' BY <1>1, <2>5, rudpiputHangupOK
  <2>6. ASSUME NEW p \in net, NEW full \in BOOLEAN, rudpiput(e, p, full) PROVE Inv(s)'
    BY <1>1, <2>6, rudpiputOK
  <2>7. ASSUME NEW due \in BOOLEAN, relackproc(e, due) PROVE Inv(s)' BY <1>1, <2>7, relackprocOK
  <2>8. CASE relforget(e) BY <1>1, <2>8, relforgetOK
  <2>9. ASSUME NEW p \in net \cup {nil}, rudpclose(e, p) PROVE Inv(s)' BY <1>1, <2>9, rudpcloseOK
  <2>10. CASE rudpadvise(e) \/ rudpannounce(e) \/ reboot(e) BY <1>1, <2>10, rebootOK
  <2>11. CASE rudpcloseForget(e) BY <1>1, <2>11, rudpcloseForgetOK
  <2> QED BY <2>1, <2>2, <2>3, <2>4, <2>5, <2>6, <2>7, <2>8, <2>9, <2>10, <2>11
<1> QED BY <1>2, <1>3

LEMMA Inductive == Spec => []IndInv
  BY InitOK, NextOK, PTL DEF Spec

-----------------------------------------------------------------------------
(* Theorems *)

LEMMA SenderWindow ==
  ASSUME NEW s \in Starts, Inv(s), NEW e \in Ends, rel[e] # nil
  PROVE  LET r == rel[e] IN
           /\ UNACKED(r) = Len(r.unacked)
           /\ \A i \in DOMAIN r.unacked :
                /\ r.unacked[i].sgen = r.sndgen
                /\ r.unacked[i].seq = NEXTSEQ(IF i = 1 THEN r.ackrcvd ELSE r.unacked[i - 1].seq)
           /\ r.unacked # <<>> => r.unacked[Len(r.unacked)].seq = r.sndseq
<1>1. PICK r : r = rel[e] OBVIOUS
<1>2. r \in Reliables /\ Sender(s, e, r) BY <1>1 DEF Inv, TypeOK, Host
<1> DEFINE u == r.unacked
           a == r.sent - Len(r.unacked)
           g == r.sndgen
<1>3. u \in Seq(Packets) /\ g \in Int /\ r.sent \in Nat BY <1>2, RudpAssumption DEF Reliables
<1>4. /\ UNACKED(r) = Len(u) /\ Len(u) \in Nat /\ r.sent \in 0..(Mod - 2) /\ a \in 0..r.sent
  BY <1>2, UnackedCount
<1>5. /\ r.ackrcvd = Num(s, g, a) /\ r.sndseq = Num(s, g, r.sent)
      /\ \A i \in 1..Len(u) : u[i].sgen = g /\ u[i].seq = Num(s, g, a + i)
  BY <1>2 DEF Sender
<1>6. DOMAIN u = 1..Len(u) /\ (u # <<>> => Len(u) \in 1..Len(u)) BY <1>3, <1>4
<1>7. r.sent = a + Len(u) BY <1>3, <1>4
<1> HIDE DEF u, a, g
<1>8. ASSUME NEW i \in DOMAIN u
      PROVE  u[i].sgen = g /\ u[i].seq = NEXTSEQ(IF i = 1 THEN r.ackrcvd ELSE u[i - 1].seq)
  <2>1. i \in 1..Len(u) /\ a + (i - 1) \in 0..(Mod - 2) /\ (a + (i - 1)) + 1 = a + i
    BY <1>4, <1>6, <1>7, RudpAssumption
  <2>2. (IF i = 1 THEN r.ackrcvd ELSE u[i - 1].seq) = Num(s, g, a + (i - 1))
    <3>1. CASE i = 1 BY <1>4, <1>5, <3>1
    <3>2. CASE i # 1
      <4>1. i - 1 \in 1..Len(u) BY <1>4, <2>1, <3>2
      <4> QED BY <1>5, <3>2, <4>1
    <3> QED BY <3>1, <3>2
  <2>3. NEXTSEQ(Num(s, g, a + (i - 1))) = Num(s, g, a + i) BY <1>3, <2>1, NumNext
  <2> QED BY <1>5, <2>1, <2>2, <2>3
<1>9. u # <<>> => u[Len(u)].seq = r.sndseq BY <1>5, <1>6, <1>7
<1> QED BY <1>1, <1>4, <1>8, <1>9 DEF u, g

\* The list of unacknowledged messages of a host (UNACKED, relackd, relrexmit)
\* is the window between the last number acknowledged and the last one sent,
\* also when the numbers go round, whatever the network repeats or reorders.
THEOREM WindowHolds == Spec => []Window
<1>1. IndInv => Window BY SenderWindow DEF IndInv, Inv, Window
<1> QED BY <1>1, Inductive, PTL

\* Between two hangups reliput takes the messages of one generation of the other
\* host, from the first one, in order and without gaps.
THEOREM InOrderHolds == Spec => []InOrder
<1>1. IndInv => InOrder
  <2> SUFFICES ASSUME NEW s \in Starts, Inv(s), NEW e \in Ends, NEW i \in DOMAIN taken[e]
               PROVE  taken[e][i] = <<taken[e][1][1], i>>
    BY DEF IndInv, InOrder
  <2> DEFINE q == taken[e]
  <2>1. q \in Seq((1..MaxGen) \X Nat) BY DEF Inv, TypeOK
  <2>2. Len(q) \in Nat /\ i \in 1..Len(q) /\ 1 \in 1..Len(q) /\ q # <<>> BY SMTT(30), <2>1
  <2>3. rel[e] # nil /\ Receiver(s, e, rel[e], q) BY <2>2 DEF Inv, Host
  <2>4. \A j \in 1..Len(q) : q[j] = <<rel[e].rcvgen, j>> BY <2>2, <2>3 DEF Receiver
  <2> HIDE DEF q
  <2>5. q[1] = <<rel[e].rcvgen, 1>> /\ q[i] = <<rel[e].rcvgen, i>> BY <2>2, <2>4
  <2>6. q[i] = <<q[1][1], i>> BY <2>5
  <2> QED BY <2>6 DEF q
<1> QED BY <1>1, Inductive, PTL

\* A message that its sender takes for acknowledged (relackd) was put into the
\* reader's queue at the other end, under the generation that it was sent in,
\* or came with that queue hung up or closed.
THEOREM AckedArrivedHolds == Spec => []AckedArrived
<1>1. IndInv => AckedArrived BY DEF IndInv, Inv, Host, Sender, AckedArrived, Came, Acc
<1> QED BY <1>1, Inductive, PTL

\* A writer asleep in rudpkick has set r->blocked, and enough messages wait for
\* an acknowledgement that reliput or a hangup will wake it.
THEOREM BlockedKickerHolds == Spec => []BlockedKicker
<1>1. IndInv => BlockedKicker
  <2> SUFFICES ASSUME NEW s \in Starts, Inv(s), NEW e \in Ends, kick[e] = "asleep"
               PROVE  /\ rel[e] # nil /\ rel[e].blocked /\ UNACKED(rel[e]) >= Wakeat
                      /\ rel[e].unacked # <<>>
    BY DEF IndInv, BlockedKicker
  <2>1. rel[e] # nil /\ rel[e] \in Reliables BY DEF Inv, Host, TypeOK
  <2>2. Sender(s, e, rel[e]) /\ rel[e].blocked /\ Len(rel[e].unacked) >= Wakeat
    BY <2>1 DEF Inv, Host, Writer
  <2>3. UNACKED(rel[e]) = Len(rel[e].unacked) BY <2>1, <2>2, UnackedCount
  <2>4. rel[e].unacked # <<>>
    <3>1. Len(<<>>) = 0 /\ Wakeat >= 1 /\ Wakeat \in Nat BY RudpAssumption, EmptySeq
    <3> QED BY <2>2, <3>1
  <2> QED BY <2>1, <2>2, <2>3, <2>4
<1> QED BY <1>1, Inductive, PTL

=============================================================================

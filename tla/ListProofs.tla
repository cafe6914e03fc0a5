----------------------------- MODULE ListProofs -----------------------------
(***************************************************************************)
(* Lemmas about the linked lists that the kernel keeps (the queue of a     *)
(* QLock or an RWlock, a chain of rendezvous, a mount point's requests):   *)
(* what linking up at the head or the tail and unlinking a member do.      *)
(***************************************************************************)
EXTENDS Integers, Sequences, SequencesExt, SequenceTheorems,
        WellFoundedInduction, TLAPS

\* No process is linked into the list twice.
Distinct(s) == \A i, j \in 1..Len(s) : s[i] = s[j] => i = j

\* The members of a list of elements of S are elements of S.
LEMMA RangeType == ASSUME NEW S, NEW s \in Seq(S) PROVE Range(s) \subseteq S
BY DEF Range

\* Linking x at the tail adds x to the list and nothing else.
LEMMA AppendRange ==
  ASSUME NEW S, NEW s \in Seq(S), NEW x \in S
  PROVE  /\ Append(s, x) \in Seq(S)
         /\ Range(Append(s, x)) = Range(s) \cup {x}
         /\ Distinct(s) /\ x \notin Range(s) => Distinct(Append(s, x))
<1> DEFINE t == Append(s, x)
<1>1. t \in Seq(S) /\ Len(t) = Len(s) + 1 /\ DOMAIN t = 1..(Len(s) + 1) /\ DOMAIN s = 1..Len(s)
  OBVIOUS
<1>2. \A i \in 1..Len(s) : t[i] = s[i]
  OBVIOUS
<1>3. t[Len(s) + 1] = x /\ Len(s) \in Nat
  OBVIOUS
<1>4. Range(t) = Range(s) \cup {x}
  BY <1>1, <1>2, <1>3 DEF Range
<1>5. Distinct(s) /\ x \notin Range(s) => Distinct(t)
  BY <1>1, <1>2, <1>3 DEF Range, Distinct
<1> QED BY <1>1, <1>4, <1>5

\* Unlinking the head takes it, and only it, off a list without repetitions.
LEMMA TailRange ==
  ASSUME NEW S, NEW s \in Seq(S), s # <<>>, Distinct(s)
  PROVE  /\ Head(s) \in S
         /\ Head(s) \in Range(s)
         /\ Tail(s) \in Seq(S)
         /\ Range(Tail(s)) = Range(s) \ {Head(s)}
         /\ Distinct(Tail(s))
<1> DEFINE t == Tail(s)
<1>1. t \in Seq(S) /\ Len(t) = Len(s) - 1 /\ DOMAIN t = 1..(Len(s) - 1) /\ DOMAIN s = 1..Len(s)
  OBVIOUS
<1>2. \A i \in 1..(Len(s) - 1) : t[i] = s[i + 1]
  OBVIOUS
<1>3. Len(s) \in Nat \ {0} /\ Head(s) = s[1] /\ s[1] \in S
  OBVIOUS
<1>4. Distinct(t)
  BY <1>1, <1>2, <1>3 DEF Distinct
<1>5. ASSUME NEW x \in Range(t) PROVE x \in Range(s) \ {s[1]}
  <2>1. PICK i \in 1..(Len(s) - 1) : x = t[i]
    BY <1>1 DEF Range
  <2>2. x = s[i + 1] /\ i + 1 \in 1..Len(s) /\ i + 1 # 1
    BY <2>1, <1>2, <1>3
  <2>3. s[i + 1] # s[1]
    BY <2>2, <1>3 DEF Distinct
  <2> QED BY <2>2, <2>3, <1>1 DEF Range
<1>6. ASSUME NEW x \in Range(s) \ {s[1]} PROVE x \in Range(t)
  <2>1. PICK i \in 1..Len(s) : x = s[i] /\ i # 1
    BY <1>1 DEF Range
  <2>2. i - 1 \in 1..(Len(s) - 1) /\ x = t[i - 1]
    BY <2>1, <1>2, <1>3
  <2> QED BY <2>2, <1>1 DEF Range
<1>7. Range(t) = Range(s) \ {s[1]}
  BY <1>5, <1>6
<1>8. s[1] \in Range(s)
  BY <1>1, <1>3 DEF Range
<1> QED BY <1>1, <1>3, <1>4, <1>7, <1>8

\* An empty list has no members.
LEMMA EmptyRange == Range(<<>>) = {} /\ Distinct(<<>>)
BY DEF Range, Distinct

\* Taking out the member at i leaves the others, each in the list once.
LEMMA RemoveAtRange ==
  ASSUME NEW S, NEW s \in Seq(S), NEW i \in 1..Len(s), Distinct(s)
  PROVE  LET t == RemoveAt(s, i)
         IN  /\ t \in Seq(S)
             /\ Len(t) = Len(s) - 1
             /\ \A k \in 1..(Len(s) - 1) : t[k] = IF k < i THEN s[k] ELSE s[k + 1]
             /\ Range(t) = Range(s) \ {s[i]}
             /\ Distinct(t)
<1> DEFINE u == SubSeq(s, 1, i - 1)
           v == SubSeq(s, i + 1, Len(s))
           t == u \o v
<1>1. Len(s) \in Nat /\ DOMAIN s = 1..Len(s) /\ i \in Int /\ 1 <= i /\ i <= Len(s)
  OBVIOUS
<1>2. u \in Seq(S) /\ Len(u) = i - 1 /\ \A k \in 1..(i - 1) : u[k] = s[k]
  BY <1>1
<1>3. v \in Seq(S) /\ Len(v) = Len(s) - i /\ \A k \in 1..(Len(s) - i) : v[k] = s[k + i]
  <2>1. \A k \in (i + 1)..Len(s) : s[k] \in S
    BY <1>1
  <2>2. v \in Seq(S)
    BY <2>1, <1>1, SubSeqProperties
  <2>3. Len(v) = Len(s) - i
    OBVIOUS
  <2>4. ASSUME NEW k \in 1..(Len(s) - i) PROVE v[k] = s[k + i]
    BY <1>1
  <2> QED BY <2>2, <2>3, <2>4
<1>4. t \in Seq(S) /\ Len(t) = Len(s) - 1 /\ DOMAIN t = 1..(Len(s) - 1)
  <2>1. t \in Seq(S) /\ Len(t) = Len(u) + Len(v)
    BY <1>2, <1>3, ConcatProperties
  <2>2. Len(t) = Len(s) - 1
    <3> HIDE DEF t, u, v
    <3> QED BY <2>1, <1>1, <1>2, <1>3
  <2> QED BY <2>1, <2>2, LenProperties
<1>5. \A k \in 1..(Len(s) - 1) : t[k] = IF k < i THEN s[k] ELSE s[k + 1]
  <2> HIDE DEF u, v
  <2>1. \A k \in 1..(Len(u) + Len(v)) : t[k] = IF k <= Len(u) THEN u[k] ELSE v[k - Len(u)]
    BY <1>2, <1>3, ConcatProperties
  <2> SUFFICES ASSUME NEW k \in 1..(Len(s) - 1) PROVE t[k] = IF k < i THEN s[k] ELSE s[k + 1]
    OBVIOUS
  <2>2. CASE k < i
    BY <2>1, <2>2, <1>1, <1>2, <1>3
  <2>3. CASE ~(k < i)
    <3>1. k - (i - 1) \in 1..(Len(s) - i) /\ (k - (i - 1)) + i = k + 1
      BY <2>3, <1>1
    <3>2. t[k] = v[k - (i - 1)]
      BY <2>1, <2>3, <1>1, <1>2, <1>3
    <3> QED BY <3>1, <3>2, <2>3, <1>3
  <2> QED BY <2>2, <2>3
<1> HIDE DEF t
<1>6. Distinct(t)
  BY <1>1, <1>4, <1>5 DEF Distinct
<1>7. ASSUME NEW x \in Range(t) PROVE x \in Range(s) \ {s[i]}
  <2>1. PICK k \in 1..(Len(s) - 1) : x = t[k]
    BY <1>4 DEF Range
  <2>2. PICK j \in 1..Len(s) : x = s[j] /\ j # i
    BY <2>1, <1>1, <1>5
  <2> QED BY <2>2, <1>1 DEF Range, Distinct
<1>8. ASSUME NEW x \in Range(s) \ {s[i]} PROVE x \in Range(t)
  <2>1. PICK j \in 1..Len(s) : x = s[j] /\ j # i
    BY <1>1 DEF Range
  <2>2. CASE j < i
    <3>1. j \in 1..(Len(s) - 1) /\ t[j] = x
      BY <2>1, <2>2, <1>1, <1>5
    <3> QED BY <3>1, <1>4 DEF Range
  <2>3. CASE j > i
    <3>1. j - 1 \in 1..(Len(s) - 1) /\ t[j - 1] = x
      BY <2>1, <2>3, <1>1, <1>5
    <3> QED BY <3>1, <1>4 DEF Range
  <2> QED BY <2>1, <2>2, <2>3, <1>1
<1>9. Range(t) = Range(s) \ {s[i]}
  BY <1>7, <1>8
<1> QED BY <1>4, <1>5, <1>6, <1>9 DEF t, RemoveAt

\* The least of one number is that number.
LEMMA MinSingleton == ASSUME NEW i \in Int PROVE Min({i}) = i
BY DEF Min

\* Unlinking x, the way a loop over the list finds it, leaves the others.
LEMMA RemoveFirstRange ==
  ASSUME NEW S, NEW s \in Seq(S), NEW x \in Range(s), Distinct(s)
  PROVE  /\ RemoveFirst(s, x) \in Seq(S)
         /\ Range(RemoveFirst(s, x)) = Range(s) \ {x}
         /\ Distinct(RemoveFirst(s, x))
<1>1. PICK i \in 1..Len(s) : s[i] = x
  BY DEF Range
<1> DEFINE I == {j \in 1..Len(s) : s[j] = x}
<1>2. I = {i} /\ I # {}
  BY <1>1 DEF Distinct
<1>3. RemoveFirst(s, x) = RemoveAt(s, Min(I))
  BY <1>1, <1>2 DEF RemoveFirst, SelectInSeq
<1>4. Min(I) = i
  BY <1>2, MinSingleton
<1>5. RemoveFirst(s, x) = RemoveAt(s, i)
  BY <1>3, <1>4
<1> QED BY <1>1, <1>5, RemoveAtRange

\* A list without repetitions is an injective sequence.
LEMMA InjectiveIsDistinct ==
  ASSUME NEW S, NEW s \in Seq(S)
  PROVE  (IsInjective(s) <=> Distinct(s)) /\ ToSet(s) = Range(s)
BY DEF IsInjective, Distinct, ToSet, Range

\* Linking x at the head adds x and nothing else.
LEMMA ConsSet ==
  ASSUME NEW S, NEW s \in Seq(S), NEW x \in S
  PROVE  /\ <<x>> \o s \in Seq(S) /\ <<x>> \o s # <<>>
         /\ Len(<<x>> \o s) = Len(s) + 1
         /\ ToSet(<<x>> \o s) = ToSet(s) \cup {x}
<1> DEFINE t == <<x>> \o s
<1>1. t \in Seq(S) /\ Len(t) = Len(s) + 1 /\ Len(s) \in Nat
  OBVIOUS
<1>2. t[1] = x /\ \A i \in 1..Len(s) : t[i + 1] = s[i]
  OBVIOUS
<1>3. DOMAIN t = 1..(Len(s) + 1) /\ DOMAIN s = 1..Len(s)
  BY <1>1
<1>4. t # <<>>
  BY <1>1
<1> HIDE DEF t
<1>5. \A y : y \in ToSet(s) \cup {x} => y \in ToSet(t)
  BY <1>1, <1>2, <1>3 DEF ToSet
<1>6. ASSUME NEW y \in ToSet(t) PROVE y \in ToSet(s) \cup {x}
  <2>1. PICK j \in 1..(Len(s) + 1) : y = t[j]
    BY <1>3 DEF ToSet
  <2>2. CASE j = 1
    BY <1>2, <2>1, <2>2
  <2>3. CASE j # 1
    <3>1. j - 1 \in 1..Len(s) /\ y = s[j - 1]
      BY <1>1, <1>2, <2>1, <2>3
    <3> QED BY <1>3, <3>1 DEF ToSet
  <2> QED BY <2>2, <2>3
<1> QED BY <1>1, <1>4, <1>5, <1>6 DEF t

\* Unlinking the head loses no other member.
LEMMA TailSet ==
  ASSUME NEW S, NEW s \in Seq(S), s # <<>>
  PROVE  /\ Head(s) \in S
         /\ Tail(s) \in Seq(S) /\ Len(Tail(s)) = Len(s) - 1
         /\ ToSet(s) \subseteq ToSet(Tail(s)) \cup {Head(s)}
<1> DEFINE t == Tail(s)
<1>1. t \in Seq(S) /\ Len(t) = Len(s) - 1 /\ Len(s) \in Nat \ {0} /\ Head(s) = s[1] /\ s[1] \in S
  OBVIOUS
<1>2. \A i \in 1..(Len(s) - 1) : t[i] = s[i + 1]
  OBVIOUS
<1>3. DOMAIN t = 1..(Len(s) - 1) /\ DOMAIN s = 1..Len(s)
  BY <1>1
<1> HIDE DEF t
<1>4. ASSUME NEW y \in ToSet(s) PROVE y \in ToSet(t) \cup {s[1]}
  <2>1. PICK j \in 1..Len(s) : y = s[j]
    BY <1>3 DEF ToSet
  <2>2. CASE j # 1
    <3>1. j - 1 \in 1..(Len(s) - 1) /\ y = t[j - 1]
      BY <1>1, <1>2, <2>1, <2>2
    <3> QED BY <1>3, <3>1 DEF ToSet
  <2> QED BY <2>1, <2>2
<1> QED BY <1>1, <1>4 DEF t

\* Linking x at the tail makes x the last and adds nothing else.
LEMMA AppendSet ==
  ASSUME NEW S, NEW s \in Seq(S), NEW x \in S
  PROVE  /\ Append(s, x) \in Seq(S) /\ Append(s, x) # <<>>
         /\ Last(Append(s, x)) = x
         /\ ToSet(Append(s, x)) = ToSet(s) \cup {x}
         /\ Distinct(s) /\ x \notin ToSet(s) => Distinct(Append(s, x))
<1>1. ToSet(s) = Range(s) /\ ToSet(Append(s, x)) = Range(Append(s, x))
  BY DEF ToSet, Range
<1>2. Append(s, x) # <<>> /\ Last(Append(s, x)) = x
  BY DEF Last
<1> QED BY <1>1, <1>2, AppendRange

\* The last of a list, and the list without it.
LEMMA FrontSet ==
  ASSUME NEW S, NEW s \in Seq(S), s # <<>>, Distinct(s)
  PROVE  /\ Last(s) \in S /\ Last(s) \in ToSet(s) /\ Last(s) = s[Len(s)]
         /\ Front(s) \in Seq(S) /\ Len(Front(s)) = Len(s) - 1
         /\ \A i \in 1..(Len(s) - 1) : Front(s)[i] = s[i]
         /\ ToSet(Front(s)) = ToSet(s) \ {Last(s)}
         /\ Distinct(Front(s))
<1> DEFINE t == Front(s)
<1>1. Len(s) \in Nat \ {0} /\ DOMAIN s = 1..Len(s) /\ \A i \in 1..Len(s) : s[i] \in S
  OBVIOUS
<1>2. t = SubSeq(s, 1, Len(s) - 1)
  BY DEF Front
<1>3. t \in Seq(S) /\ Len(t) = Len(s) - 1 /\ DOMAIN t = 1..(Len(s) - 1)
  BY <1>1, <1>2
<1>4. \A i \in 1..(Len(s) - 1) : t[i] = s[i]
  BY <1>1, <1>2
<1> HIDE DEF t
<1>5. Distinct(t)
  BY <1>1, <1>3, <1>4 DEF Distinct
<1>6. Last(s) = s[Len(s)] /\ Last(s) \in ToSet(s) /\ Last(s) \in S
  BY <1>1 DEF Last, ToSet
<1>7. ASSUME NEW y \in ToSet(t) PROVE y \in ToSet(s) \ {Last(s)}
  <2>1. PICK i \in 1..(Len(s) - 1) : y = t[i]
    BY <1>3 DEF ToSet
  <2>2. Len(s) \in Int /\ 1 <= Len(s) /\ i \in Int /\ 1 <= i /\ i <= Len(s) - 1
    BY <1>1
  <2>3. i \in 1..Len(s) /\ i # Len(s) /\ Len(s) \in 1..Len(s)
    BY <2>2
  <2>4. y = s[i] /\ y # s[Len(s)]
    BY <2>1, <2>3, <1>4 DEF Distinct
  <2> QED BY <2>3, <2>4, <1>1, <1>6 DEF ToSet
<1>8. ASSUME NEW y \in ToSet(s) \ {Last(s)} PROVE y \in ToSet(t)
  <2>1. PICK i \in 1..Len(s) : y = s[i]
    BY <1>1 DEF ToSet
  <2>2. i \in 1..(Len(s) - 1) /\ y = t[i]
    BY <2>1, <1>1, <1>4, <1>6
  <2> QED BY <2>2, <1>3 DEF ToSet
<1>9. ToSet(t) = ToSet(s) \ {Last(s)}
  BY <1>7, <1>8
<1> QED BY <1>3, <1>4, <1>5, <1>6, <1>9 DEF t

\* Linking x at the head of a list without repetitions keeps it so.
LEMMA ConsDistinct ==
  ASSUME NEW S, NEW s \in Seq(S), NEW x \in S, Distinct(s), x \notin ToSet(s)
  PROVE  Distinct(<<x>> \o s)
<1> DEFINE t == <<x>> \o s
<1>1. t \in Seq(S) /\ Len(t) = Len(s) + 1 /\ Len(s) \in Nat /\ DOMAIN s = 1..Len(s)
  OBVIOUS
<1>2. t[1] = x /\ \A i \in 1..Len(s) : t[i + 1] = s[i]
  OBVIOUS
<1> HIDE DEF t
<1>3. \A j \in 2..Len(t) : t[j] = s[j - 1] /\ j - 1 \in 1..Len(s) /\ t[j] # x
  BY <1>1, <1>2 DEF ToSet
<1>4. ASSUME NEW i \in 1..Len(t), NEW j \in 1..Len(t), t[i] = t[j] PROVE i = j
  <2>1. CASE i = 1 \/ j = 1
    BY <2>1, <1>1, <1>2, <1>3, <1>4
  <2>2. CASE i # 1 /\ j # 1
    <3>1. s[i - 1] = s[j - 1] /\ i - 1 \in 1..Len(s) /\ j - 1 \in 1..Len(s)
      BY <2>2, <1>1, <1>3, <1>4
    <3>2. i - 1 = j - 1
      BY <3>1 DEF Distinct
    <3> QED BY <3>2
  <2> QED BY <2>1, <2>2
<1> QED BY <1>4 DEF Distinct, t

\* Unlinking x with ToSet in place of Range.
LEMMA RemoveFirstSet ==
  ASSUME NEW S, NEW s \in Seq(S), NEW x, Distinct(s)
  PROVE  /\ RemoveFirst(s, x) \in Seq(S)
         /\ ToSet(RemoveFirst(s, x)) = ToSet(s) \ {x}
         /\ Distinct(RemoveFirst(s, x))
<1>1. ToSet(s) = Range(s)
  BY DEF ToSet, Range
<1>2. CASE x \in Range(s)
  <2>1. ToSet(RemoveFirst(s, x)) = Range(RemoveFirst(s, x))
    BY DEF ToSet, Range
  <2> QED BY <1>1, <1>2, <2>1, RemoveFirstRange
<1>3. CASE x \notin Range(s)
  <2>1. RemoveFirst(s, x) = s
    BY <1>3 DEF RemoveFirst, Range
  <2> QED BY <1>1, <1>3, <2>1
<1> QED BY <1>2, <1>3

\* The first index at which a loop finds what it looks for.
LEMMA LeastIndex ==
  ASSUME NEW I \in SUBSET Nat, I # {}
  PROVE  \E i \in I : \A j \in I : i <= j
<1> DEFINE R == {ss \in Nat \X Nat : ss[1] < ss[2]}
<1>1. IsWellFoundedOn(R, Nat)
  BY NatLessThanWellFounded DEF OpToRel
<1> HIDE DEF R
<1>2. PICK i \in I : \A j \in I : ~(<<j, i>> \in R)
  BY <1>1, WFMin
<1>3. \A j \in I : ~(j < i)
  BY <1>2 DEF R
<1> QED BY <1>3

LEMMA LeastIsMin ==
  ASSUME NEW I \in SUBSET Nat, I # {}
  PROVE  Min(I) \in I /\ \A j \in I : Min(I) <= j
BY LeastIndex DEF Min

\* Unlinking x from place i moves what comes after it up by one.
LEMMA RemoveFirstPlaces ==
  ASSUME NEW S, NEW s \in Seq(S), NEW x \in ToSet(s), Distinct(s)
  PROVE  \E i \in 1..Len(s) :
           /\ s[i] = x
           /\ Len(RemoveFirst(s, x)) = Len(s) - 1
           /\ \A k \in 1..(Len(s) - 1) : RemoveFirst(s, x)[k] = IF k < i THEN s[k] ELSE s[k + 1]
<1>1. PICK i \in 1..Len(s) : s[i] = x
  BY DEF ToSet
<1> DEFINE I == {j \in 1..Len(s) : s[j] = x}
<1>2. I = {i} /\ I # {}
  BY <1>1 DEF Distinct
<1>3. RemoveFirst(s, x) = RemoveAt(s, Min(I))
  BY <1>1, <1>2 DEF RemoveFirst, SelectInSeq
<1>4. Min(I) = i
  BY <1>2, MinSingleton
<1>5. RemoveFirst(s, x) = RemoveAt(s, i)
  BY <1>3, <1>4
<1>6. /\ Len(RemoveAt(s, i)) = Len(s) - 1
      /\ \A k \in 1..(Len(s) - 1) : RemoveAt(s, i)[k] = IF k < i THEN s[k] ELSE s[k + 1]
  BY RemoveAtRange
<1> QED BY <1>1, <1>5, <1>6

\* Linking x at place i moves what was there and after it down by one.
LEMMA InsertAtSet ==
  ASSUME NEW S, NEW s \in Seq(S), NEW x \in S, NEW i \in 1..(Len(s) + 1)
  PROVE  LET t == InsertAt(s, i, x)
         IN  /\ t \in Seq(S) /\ Len(t) = Len(s) + 1
             /\ \A k \in 1..(Len(s) + 1) : t[k] = IF k < i THEN s[k] ELSE IF k = i THEN x ELSE s[k - 1]
             /\ ToSet(t) = ToSet(s) \cup {x}
             /\ Distinct(s) /\ x \notin ToSet(s) => Distinct(t)
<1> DEFINE u == SubSeq(s, 1, i - 1)
           a == u \o <<x>>
           v == SubSeq(s, i, Len(s))
           t == a \o v
<1>1. Len(s) \in Nat /\ DOMAIN s = 1..Len(s) /\ i \in Int /\ 1 <= i /\ i <= Len(s) + 1
  OBVIOUS
<1>2. u \in Seq(S) /\ Len(u) = i - 1 /\ \A k \in 1..(i - 1) : u[k] = s[k]
  BY <1>1
<1>3. a \in Seq(S) /\ Len(a) = i /\ \A k \in 1..i : a[k] = IF k < i THEN s[k] ELSE x
  <2>1. <<x>> \in Seq(S) /\ Len(<<x>>) = 1 /\ <<x>>[1] = x OBVIOUS
  <2> HIDE DEF u
  <2>2. a \in Seq(S) /\ Len(a) = Len(u) + 1 BY <1>2, <2>1, ConcatProperties
  <2>3. \A k \in 1..(Len(u) + 1) : a[k] = IF k <= Len(u) THEN u[k] ELSE <<x>>[k - Len(u)]
    BY <1>2, <2>1, ConcatProperties
  <2> HIDE DEF a
  <2>4. Len(a) = i BY <1>1, <1>2, <2>2
  <2>5. ASSUME NEW k \in 1..i PROVE a[k] = IF k < i THEN s[k] ELSE x
    <3>1. CASE k < i BY <1>1, <1>2, <2>3, <3>1
    <3>2. CASE ~(k < i)
      <4>1. k = i /\ k - Len(u) = 1 BY <1>1, <1>2, <3>2
      <4> QED BY <1>1, <1>2, <2>1, <2>3, <4>1
    <3> QED BY <3>1, <3>2
  <2> QED BY <2>2, <2>4, <2>5
<1>4. v \in Seq(S) /\ Len(v) = Len(s) - i + 1 /\ \A k \in 1..(Len(s) - i + 1) : v[k] = s[k + i - 1]
  <2>1. \A k \in i..Len(s) : s[k] \in S
    BY <1>1
  <2>2. v \in Seq(S)
    BY <2>1, <1>1, SubSeqProperties
  <2>3. Len(v) = Len(s) - i + 1
    BY <1>1
  <2>4. ASSUME NEW k \in 1..(Len(s) - i + 1) PROVE v[k] = s[k + i - 1]
    BY <1>1
  <2> QED BY <2>2, <2>3, <2>4
<1>5. t \in Seq(S) /\ Len(t) = Len(s) + 1 /\ DOMAIN t = 1..(Len(s) + 1)
  <2>1. t \in Seq(S) /\ Len(t) = Len(a) + Len(v)
    BY <1>3, <1>4, ConcatProperties
  <2>2. Len(t) = Len(s) + 1
    <3> HIDE DEF t, a, v
    <3> QED BY <2>1, <1>1, <1>3, <1>4
  <2> QED BY <2>1, <2>2, LenProperties
<1>6. ASSUME NEW k \in 1..(Len(s) + 1)
      PROVE  t[k] = IF k < i THEN s[k] ELSE IF k = i THEN x ELSE s[k - 1]
  <2> HIDE DEF a, v
  <2>1. \A j \in 1..(Len(a) + Len(v)) : t[j] = IF j <= Len(a) THEN a[j] ELSE v[j - Len(a)]
    BY <1>3, <1>4, ConcatProperties
  <2>2. CASE k <= i
    <3>1. t[k] = a[k] /\ k \in 1..i BY <2>1, <2>2, <1>1, <1>3, <1>4
    <3> QED BY <2>2, <3>1, <1>3
  <2>3. CASE ~(k <= i)
    <3>1. k - i \in 1..(Len(s) - i + 1) /\ (k - i) + i - 1 = k - 1
      BY <2>3, <1>1
    <3>2. t[k] = v[k - i]
      BY <2>1, <2>3, <1>1, <1>3, <1>4
    <3> QED BY <3>1, <3>2, <2>3, <1>4
  <2> QED BY <2>2, <2>3
<1>7. t = InsertAt(s, i, x)
  BY DEF InsertAt
<1> HIDE DEF t
<1>8. ASSUME NEW y \in ToSet(t) PROVE y \in ToSet(s) \cup {x}
  <2>1. PICK k \in 1..(Len(s) + 1) : y = t[k]
    BY <1>5 DEF ToSet
  <2>2. CASE k = i BY <2>1, <2>2, <1>1, <1>6
  <2>3. CASE k # i
    <3>1. PICK j \in 1..Len(s) : y = s[j] BY <2>1, <2>3, <1>1, <1>6
    <3> QED BY <3>1, <1>1 DEF ToSet
  <2> QED BY <2>2, <2>3
<1>9. ASSUME NEW y \in ToSet(s) \cup {x} PROVE y \in ToSet(t)
  <2>1. CASE y = x BY <2>1, <1>1, <1>5, <1>6 DEF ToSet
  <2>2. CASE y \in ToSet(s)
    <3>1. PICK j \in 1..Len(s) : y = s[j] BY <2>2, <1>1 DEF ToSet
    <3>2. PICK k \in 1..(Len(s) + 1) : y = t[k]
      <4>1. CASE j < i BY <3>1, <4>1, <1>1, <1>6
      <4>2. CASE ~(j < i)
        <5>1. j + 1 \in 1..(Len(s) + 1) /\ ~(j + 1 < i) /\ j + 1 # i /\ (j + 1) - 1 = j BY <4>2, <1>1
        <5>2. t[j + 1] = y BY <3>1, <5>1, <1>6
        <5> QED BY <5>1, <5>2
      <4> QED BY <4>1, <4>2
    <3> QED BY <3>2, <1>5 DEF ToSet
  <2> QED BY <2>1, <2>2
<1>10. ASSUME Distinct(s), x \notin ToSet(s), NEW j \in 1..Len(t), NEW k \in 1..Len(t), t[j] = t[k]
       PROVE  j = k
  <2>1. \A h \in 1..Len(s) : s[h] # x BY <1>1, <1>10 DEF ToSet
  <2>2. \A h, l \in 1..Len(s) : s[h] = s[l] => h = l BY <1>10 DEF Distinct
  <2>3. j \in 1..(Len(s) + 1) /\ k \in 1..(Len(s) + 1) BY <1>5
  <2>4. CASE j = i \/ k = i BY <1>1, <1>6, <1>10, <2>1, <2>3, <2>4
  <2>5. CASE j # i /\ k # i BY <1>1, <1>6, <1>10, <2>2, <2>3, <2>5
  <2> QED BY <2>4, <2>5
<1>11. ToSet(t) = ToSet(s) \cup {x} BY <1>8, <1>9
<1>12. Distinct(s) /\ x \notin ToSet(s) => Distinct(t) BY <1>10 DEF Distinct
<1> QED BY <1>5, <1>6, <1>7, <1>11, <1>12

=============================================================================

------------------------------ MODULE IpcProofs -----------------------------
(***************************************************************************)
(* Proofs about how processes hand things to each other: that              *)
(* sysrendezvous exchanges values, whatever notes are posted, for any      *)
(* number of processes, posters and tags; and that nobody who waits on a   *)
(* stream queue misses its wakeup, for any number of readers and writers,  *)
(* any limits and any sizes.                                               *)
(***************************************************************************)
EXTENDS Rendezvous, Qio, ListProofs, FiniteSetTheorems

\* Where a process is, its state and its processor agree; it has a partner
\* only after it has waited or met.
StateOK ==
  \A p \in Procs :
    /\ pc[p] \in {"sched", "off"} <=> state[p] # "Running"
    /\ mach[p] <=> pc[p] # "off"
    /\ pc[p] \in {"user", "call"} => mate[p] = nil
    /\ state[p] = "Ready" => p \in Range(runq)

\* Two that have met and are not yet both readied: one spins, with the lock
\* of the Rgrp, and the other is still in state Rendezvous.
MetOK ==
  \A p \in Procs :
    /\ pc[p] = "spin" => mate[p] # nil /\ state[mate[p]] = "Rendezvous" /\ mate[mate[p]] = p
    /\ state[p] = "Rendezvous" /\ mate[p] # nil => pc[mate[p]] = "spin" /\ mate[mate[p]] = p

\* Who waits has its own value ready, and who has met has its partner's.
ValueOK ==
  \A p \in Procs :
    /\ p \in Range(rendhash) => rendval[p] = p
    /\ mate[p] # nil => rendval[p] = mate[p]

\* No two wait with one tag.
TagOK == \A p, q \in Range(rendhash) : rendtag[p] = rendtag[q] => p = q

\* A poster that is not idle has a target.
PosterOK == \A m \in Posters : npc[m] # "idle" => target[m] # nil

IndInv == TypeOK /\ StateOK /\ MetOK /\ ValueOK /\ TagOK /\ PosterOK

-----------------------------------------------------------------------------
(* TypeOK in parts: the types, the lock and the two lists. *)

Types ==
  /\ rendhash \in Seq(Procs) /\ runq \in Seq(Procs)
  /\ rendtag \in [Procs -> Tags \cup {nil}]
  /\ rendval \in [Procs -> Procs \cup {Nobody}]
  /\ state \in [Procs -> {"Running", "Rendezvous", "Ready"}]
  /\ mach \in [Procs -> BOOLEAN] /\ notepending \in [Procs -> BOOLEAN]
  /\ rgrp \in Procs \cup {nil}
  /\ pc \in [Procs -> PCs] /\ npc \in [Posters -> NPCs]
  /\ target \in [Posters -> Procs \cup {nil}]
  /\ mate \in [Procs -> Procs \cup {nil}]

RgrpOK == \A p \in Procs : rgrp = p <=> pc[p] = "spin"

ListsOK ==
  /\ Distinct(rendhash) /\ Distinct(runq)
  /\ \A p \in Procs : p \in Range(rendhash) <=> state[p] = "Rendezvous" /\ mate[p] = nil
  /\ \A p \in Range(runq) : state[p] = "Ready" /\ pc[p] \in {"sched", "off"}

\* TypeOK is the types, the lock and the lists.
LEMMA TypeParts == TypeOK <=> Types /\ RgrpOK /\ ListsOK
<1>1. TypeOK => Types
  BY DEF TypeOK, Types
<1>2. Types => (IsInjective(rendhash) <=> Distinct(rendhash)) /\ ToSet(rendhash) = Range(rendhash)
  BY InjectiveIsDistinct DEF Types
<1>3. Types => (IsInjective(runq) <=> Distinct(runq)) /\ ToSet(runq) = Range(runq)
  BY InjectiveIsDistinct DEF Types
<1> QED BY <1>1, <1>2, <1>3 DEF TypeOK, Types, RgrpOK, ListsOK

\* The same of the state after a step.
LEMMA TypePartsNext == Types' /\ RgrpOK' /\ ListsOK' => TypeOK'
<1>1. Types' => (IsInjective(rendhash') <=> Distinct(rendhash')) /\ ToSet(rendhash') = Range(rendhash')
  BY InjectiveIsDistinct DEF Types
<1>2. Types' => (IsInjective(runq') <=> Distinct(runq')) /\ ToSet(runq') = Range(runq')
  BY InjectiveIsDistinct DEF Types
<1> QED BY <1>1, <1>2 DEF TypeOK, Types, RgrpOK, ListsOK

\* The search of sysrendezvous finds the one that waits with tag t, if there
\* is one, and else nobody.
LEMMA WaitingIs ==
  ASSUME Types, ListsOK, TagOK, NEW t
  PROVE  \/ waiting(t) = 0 /\ \A q \in Range(rendhash) : rendtag[q] # t
         \/ waiting(t) \in 1..Len(rendhash) /\ rendtag[rendhash[waiting(t)]] = t
<1> DEFINE I == {i \in 1..Len(rendhash) : rendtag[rendhash[i]] = t}
<1>1. DOMAIN rendhash = 1..Len(rendhash)
  BY DEF Types
<1>2. CASE I = {}
  <2>1. waiting(t) = 0
    BY <1>2 DEF waiting, SelectInSeq
  <2> QED BY <1>1, <1>2, <2>1 DEF Range
<1>3. CASE I # {}
  <2>1. PICK i \in 1..Len(rendhash) : rendtag[rendhash[i]] = t
    BY <1>3
  <2>2. \A j \in I : j = i
    BY <1>1, <2>1 DEF TagOK, ListsOK, Distinct, Range
  <2>3. I = {i}
    BY <2>1, <2>2
  <2>4. waiting(t) = Min(I)
    BY <1>3 DEF waiting, SelectInSeq
  <2>5. waiting(t) = i
    BY <2>3, <2>4, MinSingleton
  <2> QED BY <2>1, <2>5
<1> QED BY <1>2, <1>3

-----------------------------------------------------------------------------
\* Before the first rendezvous.
LEMMA InitInv == Init => IndInv
<1> SUFFICES ASSUME Init PROVE IndInv
  OBVIOUS
<1> USE RendezvousAssumption, EmptyRange DEF Init
<1>1. Types
  <2>1. rendhash \in Seq(Procs) /\ runq \in Seq(Procs) /\ rgrp \in Procs \cup {nil}
    OBVIOUS
  <2>2. rendval \in [Procs -> Procs \cup {Nobody}]
    OBVIOUS
  <2> QED BY <2>1, <2>2 DEF Types, PCs, NPCs
<1>2. RgrpOK /\ ListsOK
  BY DEF RgrpOK, ListsOK
<1>3. StateOK /\ MetOK /\ ValueOK /\ TagOK /\ PosterOK
  BY DEF StateOK, MetOK, ValueOK, TagOK, PosterOK
<1> QED BY <1>1, <1>2, <1>3, TypeParts DEF IndInv

\* Every step keeps the inductive invariant: for each action, first what it
\* does to the lists, then the parts of the invariant.
LEMMA NextInv == IndInv /\ [Next]_vars => IndInv'
<1> DEFINE Kept == Types' /\ RgrpOK' /\ ListsOK' /\ StateOK' /\ MetOK' /\ ValueOK' /\ TagOK' /\ PosterOK'
<1> SUFFICES ASSUME Types, RgrpOK, ListsOK, StateOK, MetOK, ValueOK, TagOK, PosterOK, [Next]_vars PROVE Kept
  BY TypeParts, TypePartsNext DEF IndInv
<1> USE RendezvousAssumption
<1>0. Range(rendhash) \subseteq Procs /\ Range(runq) \subseteq Procs
  BY RangeType DEF Types
<1>1. ASSUME NEW p \in Procs, NEW t \in Tags, sysrendezvous(p, t) PROVE Kept
  <2>1. Types'
    BY <1>1 DEF sysrendezvous, Types, PCs, NPCs, MetOK
  <2>2. RgrpOK'
    BY <1>1 DEF sysrendezvous, Types, RgrpOK
  <2>3. ListsOK'
    BY <1>1, <1>0 DEF sysrendezvous, Types, ListsOK, StateOK
  <2>4. StateOK'
    BY <1>1, <1>0 DEF sysrendezvous, Types, ListsOK, StateOK
  <2>5. MetOK'
    BY <1>1 DEF sysrendezvous, Types, RgrpOK, ListsOK, StateOK, MetOK
  <2>6. ValueOK'
    BY <1>1, <1>0 DEF sysrendezvous, Types, ListsOK, StateOK, ValueOK
  <2>7. TagOK'
    BY <1>1, <1>0 DEF sysrendezvous, Types, ListsOK, StateOK, TagOK
  <2>8. PosterOK'
    BY <1>1 DEF sysrendezvous, Types, PosterOK
  <2> QED BY <2>1, <2>2, <2>3, <2>4, <2>5, <2>6, <2>7, <2>8
<1>2. ASSUME NEW p \in Procs, sysrendezvousMeet(p) PROVE Kept
  <2>0. PICK q \in Procs :
          /\ q \in Range(rendhash) /\ rendtag[q] = rendtag[p] /\ q # p
          /\ rendhash' \in Seq(Procs) /\ Distinct(rendhash') /\ Range(rendhash') = Range(rendhash) \ {q}
          /\ rendval' = [rendval EXCEPT ![q] = p, ![p] = rendval[q]]
          /\ mate' = [mate EXCEPT ![q] = p, ![p] = q]
          /\ pc[p] = "call" /\ pc' = [pc EXCEPT ![p] = "spin"] /\ rgrp = nil /\ rgrp' = p
          /\ UNCHANGED <<rendtag, state, mach, runq, notepending, npc, target>>
    <3> DEFINE i == waiting(rendtag[p])
    <3>1. i \in 1..Len(rendhash) /\ rendtag[rendhash[i]] = rendtag[p]
      BY <1>2, WaitingIs DEF sysrendezvousMeet
    <3>2. rendhash' = RemoveAt(rendhash, i)
      BY <1>2 DEF sysrendezvousMeet
    <3>3. rendhash[i] \in Procs /\ rendhash[i] \in Range(rendhash)
      BY <3>1 DEF Types, Range
    <3> HIDE DEF i
    <3>4. rendhash' \in Seq(Procs) /\ Distinct(rendhash') /\ Range(rendhash') = Range(rendhash) \ {rendhash[i]}
      BY <3>1, <3>2, RemoveAtRange DEF Types, ListsOK
    <3>5. rendhash[i] # p
      BY <1>2, <3>3 DEF sysrendezvousMeet, ListsOK, StateOK
    <3> QED BY <1>2, <3>1, <3>3, <3>4, <3>5 DEF sysrendezvousMeet, i
  <2>1. Types'
    BY <2>0 DEF Types, PCs, NPCs, MetOK
  <2>2. RgrpOK'
    BY <2>0 DEF Types, RgrpOK
  <2>3. ListsOK'
    BY <1>0, <2>0 DEF Types, ListsOK, StateOK
  <2>4. StateOK'
    BY <1>0, <2>0 DEF Types, ListsOK, StateOK
  <2>5. MetOK'
    BY <2>0 DEF Types, RgrpOK, ListsOK, StateOK, MetOK
  <2>6. ValueOK'
    BY <1>0, <2>0 DEF Types, ListsOK, StateOK, ValueOK
  <2>7. TagOK'
    BY <1>0, <2>0 DEF Types, ListsOK, StateOK, TagOK
  <2>8. PosterOK'
    BY <2>0 DEF Types, PosterOK
  <2> QED BY <2>1, <2>2, <2>3, <2>4, <2>5, <2>6, <2>7, <2>8
<1>3. ASSUME NEW p \in Procs, sysrendezvousReady(p) PROVE Kept
  <2>0. /\ mate[p] \in Procs /\ mate[p] # p /\ mate[p] \notin Range(runq)
        /\ runq' \in Seq(Procs) /\ Distinct(runq') /\ Range(runq') = Range(runq) \cup {mate[p]}
    <3>1. mate[p] \in Procs /\ state[mate[p]] = "Rendezvous"
      BY <1>3 DEF sysrendezvousReady, Types, MetOK
    <3>2. mate[p] # p /\ mate[p] \notin Range(runq)
      BY <1>3, <3>1 DEF sysrendezvousReady, StateOK, ListsOK
    <3>3. runq' = Append(runq, mate[p])
      BY <1>3 DEF sysrendezvousReady, ready
    <3> QED BY <3>1, <3>2, <3>3, AppendRange DEF Types, ListsOK
  <2>1. Types'
    BY <1>3, <2>0 DEF sysrendezvousReady, ready, Types, PCs, NPCs, MetOK
  <2>2. RgrpOK'
    BY <1>3, <2>0 DEF sysrendezvousReady, ready, Types, RgrpOK
  <2>3. ListsOK'
    BY <1>3, <1>0, <2>0 DEF sysrendezvousReady, ready, Types, ListsOK, StateOK, MetOK
  <2>4. StateOK'
    BY <1>3, <1>0, <2>0 DEF sysrendezvousReady, ready, Types, ListsOK, StateOK
  <2>5. MetOK'
    BY <1>3, <2>0 DEF sysrendezvousReady, ready, Types, RgrpOK, ListsOK, StateOK, MetOK
  <2>6. ValueOK'
    BY <1>3, <1>0, <2>0 DEF sysrendezvousReady, ready, Types, ListsOK, StateOK, ValueOK
  <2>7. TagOK'
    BY <1>3, <1>0, <2>0 DEF sysrendezvousReady, ready, Types, ListsOK, StateOK, TagOK
  <2>8. PosterOK'
    BY <1>3, <2>0 DEF sysrendezvousReady, ready, Types, PosterOK
  <2> QED BY <2>1, <2>2, <2>3, <2>4, <2>5, <2>6, <2>7, <2>8
<1>4. ASSUME NEW p \in Procs, sysrendezvousWait(p) PROVE Kept
  <2>0. /\ p \notin Range(rendhash) /\ \A q \in Range(rendhash) : rendtag[q] # rendtag[p]
        /\ rendhash' \in Seq(Procs) /\ Distinct(rendhash') /\ Range(rendhash') = Range(rendhash) \cup {p}
    <3>1. \A q \in Range(rendhash) : rendtag[q] # rendtag[p]
      BY <1>4, WaitingIs DEF sysrendezvousWait
    <3>2. p \notin Range(rendhash)
      BY <3>1
    <3>3. rendhash' = Append(rendhash, p)
      BY <1>4 DEF sysrendezvousWait
    <3> QED BY <3>1, <3>2, <3>3, AppendRange DEF Types, ListsOK
  <2>1. Types'
    BY <1>4, <2>0 DEF sysrendezvousWait, Types, PCs, NPCs, MetOK
  <2>2. RgrpOK'
    BY <1>4, <2>0 DEF sysrendezvousWait, Types, RgrpOK
  <2>3. ListsOK'
    BY <1>4, <1>0, <2>0 DEF sysrendezvousWait, Types, ListsOK, StateOK
  <2>4. StateOK'
    BY <1>4, <1>0, <2>0 DEF sysrendezvousWait, Types, ListsOK, StateOK
  <2>5. MetOK'
    BY <1>4, <2>0 DEF sysrendezvousWait, Types, RgrpOK, ListsOK, StateOK, MetOK
  <2>6. ValueOK'
    BY <1>4, <1>0, <2>0 DEF sysrendezvousWait, Types, ListsOK, StateOK, ValueOK
  <2>7. TagOK'
    BY <1>4, <1>0, <2>0 DEF sysrendezvousWait, Types, ListsOK, StateOK, TagOK
  <2>8. PosterOK'
    BY <1>4, <2>0 DEF sysrendezvousWait, Types, PosterOK
  <2> QED BY <2>1, <2>2, <2>3, <2>4, <2>5, <2>6, <2>7, <2>8
<1>5. ASSUME NEW p \in Procs, sched(p) PROVE Kept
  <2>1. Types'
    BY <1>5 DEF sched, Types, PCs, NPCs, MetOK
  <2>2. RgrpOK'
    BY <1>5 DEF sched, Types, RgrpOK
  <2>3. ListsOK'
    BY <1>5, <1>0 DEF sched, Types, ListsOK, StateOK
  <2>4. StateOK'
    BY <1>5, <1>0 DEF sched, Types, ListsOK, StateOK
  <2>5. MetOK'
    BY <1>5 DEF sched, Types, RgrpOK, ListsOK, StateOK, MetOK
  <2>6. ValueOK'
    BY <1>5, <1>0 DEF sched, Types, ListsOK, StateOK, ValueOK
  <2>7. TagOK'
    BY <1>5, <1>0 DEF sched, Types, ListsOK, StateOK, TagOK
  <2>8. PosterOK'
    BY <1>5 DEF sched, Types, PosterOK
  <2> QED BY <2>1, <2>2, <2>3, <2>4, <2>5, <2>6, <2>7, <2>8
<1>6. ASSUME NEW p \in Procs, runproc(p) PROVE Kept
  <2>0. /\ p \in Range(runq)
        /\ runq' \in Seq(Procs) /\ Distinct(runq') /\ Range(runq') = Range(runq) \ {p}
    <3>1. p \in Range(runq) /\ runq' = RemoveFirst(runq, p)
      BY <1>6, InjectiveIsDistinct DEF runproc, Types
    <3> QED BY <3>1, RemoveFirstRange DEF Types, ListsOK
  <2>1. Types'
    BY <1>6, <2>0 DEF runproc, Types, PCs, NPCs, MetOK
  <2>2. RgrpOK'
    BY <1>6, <2>0 DEF runproc, Types, RgrpOK, ListsOK
  <2>3. ListsOK'
    BY <1>6, <1>0, <2>0 DEF runproc, Types, ListsOK, StateOK
  <2>4. StateOK'
    BY <1>6, <1>0, <2>0 DEF runproc, Types, ListsOK, StateOK
  <2>5. MetOK'
    BY <1>6, <2>0 DEF runproc, Types, RgrpOK, ListsOK, StateOK, MetOK
  <2>6. ValueOK'
    BY <1>6, <1>0, <2>0 DEF runproc, Types, ListsOK, StateOK, ValueOK
  <2>7. TagOK'
    BY <1>6, <1>0, <2>0 DEF runproc, Types, ListsOK, StateOK, TagOK
  <2>8. PosterOK'
    BY <1>6, <2>0 DEF runproc, Types, PosterOK
  <2> QED BY <2>1, <2>2, <2>3, <2>4, <2>5, <2>6, <2>7, <2>8
<1>7. ASSUME NEW p \in Procs, sysrendezvousReturn(p) PROVE Kept
  <2>1. Types'
    BY <1>7 DEF sysrendezvousReturn, Types, PCs, NPCs, MetOK
  <2>2. RgrpOK'
    BY <1>7 DEF sysrendezvousReturn, Types, RgrpOK
  <2>3. ListsOK'
    BY <1>7, <1>0 DEF sysrendezvousReturn, Types, ListsOK, StateOK
  <2>4. StateOK'
    BY <1>7, <1>0 DEF sysrendezvousReturn, Types, ListsOK, StateOK
  <2>5. MetOK'
    BY <1>7 DEF sysrendezvousReturn, Types, RgrpOK, ListsOK, StateOK, MetOK
  <2>6. ValueOK'
    BY <1>7, <1>0 DEF sysrendezvousReturn, Types, ListsOK, StateOK, ValueOK
  <2>7. TagOK'
    BY <1>7, <1>0 DEF sysrendezvousReturn, Types, ListsOK, StateOK, TagOK
  <2>8. PosterOK'
    BY <1>7 DEF sysrendezvousReturn, Types, PosterOK
  <2> QED BY <2>1, <2>2, <2>3, <2>4, <2>5, <2>6, <2>7, <2>8
<1>8. ASSUME NEW p \in Procs, notify(p) PROVE Kept
  <2>1. Types'
    BY <1>8 DEF notify, Types, PCs, NPCs, MetOK
  <2>2. RgrpOK'
    BY <1>8 DEF notify, Types, RgrpOK
  <2>3. ListsOK'
    BY <1>8, <1>0 DEF notify, Types, ListsOK, StateOK
  <2>4. StateOK'
    BY <1>8, <1>0 DEF notify, Types, ListsOK, StateOK
  <2>5. MetOK'
    BY <1>8 DEF notify, Types, RgrpOK, ListsOK, StateOK, MetOK
  <2>6. ValueOK'
    BY <1>8, <1>0 DEF notify, Types, ListsOK, StateOK, ValueOK
  <2>7. TagOK'
    BY <1>8, <1>0 DEF notify, Types, ListsOK, StateOK, TagOK
  <2>8. PosterOK'
    BY <1>8 DEF notify, Types, PosterOK
  <2> QED BY <2>1, <2>2, <2>3, <2>4, <2>5, <2>6, <2>7, <2>8
<1>9. ASSUME NEW p \in Procs, NEW m \in Posters, postnote(m, p) PROVE Kept
  <2>1. Types'
    BY <1>9 DEF postnote, Types, PCs, NPCs, MetOK
  <2>2. RgrpOK'
    BY <1>9 DEF postnote, Types, RgrpOK
  <2>3. ListsOK'
    BY <1>9, <1>0 DEF postnote, Types, ListsOK, StateOK
  <2>4. StateOK'
    BY <1>9, <1>0 DEF postnote, Types, ListsOK, StateOK
  <2>5. MetOK'
    BY <1>9 DEF postnote, Types, RgrpOK, ListsOK, StateOK, MetOK
  <2>6. ValueOK'
    BY <1>9, <1>0 DEF postnote, Types, ListsOK, StateOK, ValueOK
  <2>7. TagOK'
    BY <1>9, <1>0 DEF postnote, Types, ListsOK, StateOK, TagOK
  <2>8. PosterOK'
    BY <1>9 DEF postnote, Types, PosterOK
  <2> QED BY <2>1, <2>2, <2>3, <2>4, <2>5, <2>6, <2>7, <2>8
<1>10. ASSUME NEW m \in Posters, postnoteNone(m) PROVE Kept
  <2>1. Types'
    BY <1>10 DEF postnoteNone, posted, Types, PCs, NPCs, MetOK
  <2>2. RgrpOK'
    BY <1>10 DEF postnoteNone, posted, Types, RgrpOK
  <2>3. ListsOK'
    BY <1>10, <1>0 DEF postnoteNone, posted, Types, ListsOK, StateOK
  <2>4. StateOK'
    BY <1>10, <1>0 DEF postnoteNone, posted, Types, ListsOK, StateOK
  <2>5. MetOK'
    BY <1>10 DEF postnoteNone, posted, Types, RgrpOK, ListsOK, StateOK, MetOK
  <2>6. ValueOK'
    BY <1>10, <1>0 DEF postnoteNone, posted, Types, ListsOK, StateOK, ValueOK
  <2>7. TagOK'
    BY <1>10, <1>0 DEF postnoteNone, posted, Types, ListsOK, StateOK, TagOK
  <2>8. PosterOK'
    BY <1>10 DEF postnoteNone, posted, Types, PosterOK
  <2> QED BY <2>1, <2>2, <2>3, <2>4, <2>5, <2>6, <2>7, <2>8
<1>11. ASSUME NEW m \in Posters, postnoteLook(m) PROVE Kept
  <2>1. Types'
    BY <1>11 DEF postnoteLook, Types, PCs, NPCs, MetOK
  <2>2. RgrpOK'
    BY <1>11 DEF postnoteLook, Types, RgrpOK
  <2>3. ListsOK'
    BY <1>11, <1>0 DEF postnoteLook, Types, ListsOK, StateOK
  <2>4. StateOK'
    BY <1>11, <1>0 DEF postnoteLook, Types, ListsOK, StateOK
  <2>5. MetOK'
    BY <1>11 DEF postnoteLook, Types, RgrpOK, ListsOK, StateOK, MetOK
  <2>6. ValueOK'
    BY <1>11, <1>0 DEF postnoteLook, Types, ListsOK, StateOK, ValueOK
  <2>7. TagOK'
    BY <1>11, <1>0 DEF postnoteLook, Types, ListsOK, StateOK, TagOK
  <2>8. PosterOK'
    BY <1>11 DEF postnoteLook, Types, PosterOK
  <2> QED BY <2>1, <2>2, <2>3, <2>4, <2>5, <2>6, <2>7, <2>8
<1>12. ASSUME NEW m \in Posters, postnotePull(m) PROVE Kept
  <2> DEFINE p == target[m]
  <2>0. /\ p \in Procs /\ p \in Range(rendhash) /\ p \notin Range(runq)
        /\ rendhash' \in Seq(Procs) /\ Distinct(rendhash') /\ Range(rendhash') = Range(rendhash) \ {p}
        /\ runq' \in Seq(Procs) /\ Distinct(runq') /\ Range(runq') = Range(runq) \cup {p}
    <3>1. p \in Procs /\ state[p] = "Rendezvous" /\ rgrp = nil
      BY <1>12 DEF postnotePull, Types, PosterOK
    <3>2. mate[p] = nil
      BY <3>1, RendezvousAssumption DEF Types, RgrpOK, MetOK
    <3>3. p \in Range(rendhash) /\ p \notin Range(runq)
      BY <3>1, <3>2 DEF ListsOK
    <3>4. rendhash' = RemoveFirst(rendhash, p) /\ runq' = Append(runq, p)
      BY <1>12 DEF postnotePull, ready
    <3>5. rendhash' \in Seq(Procs) /\ Distinct(rendhash') /\ Range(rendhash') = Range(rendhash) \ {p}
      BY <3>3, <3>4, RemoveFirstRange DEF Types, ListsOK
    <3>6. runq' \in Seq(Procs) /\ Distinct(runq') /\ Range(runq') = Range(runq) \cup {p}
      BY <3>1, <3>3, <3>4, AppendRange DEF Types, ListsOK
    <3> QED BY <3>1, <3>3, <3>5, <3>6
  <2>1. Types'
    BY <1>12, <2>0 DEF postnotePull, posted, ready, Types, PCs, NPCs, MetOK
  <2>2. RgrpOK'
    BY <1>12, <2>0 DEF postnotePull, posted, ready, Types, RgrpOK
  <2>3. ListsOK'
    BY <1>12, <1>0, <2>0 DEF postnotePull, posted, ready, Types, ListsOK, StateOK
  <2>4. StateOK'
    BY <1>12, <1>0, <2>0 DEF postnotePull, posted, ready, Types, ListsOK, StateOK
  <2>5. MetOK'
    BY <1>12, <2>0 DEF postnotePull, posted, ready, Types, RgrpOK, ListsOK, StateOK, MetOK
  <2>6. ValueOK'
    BY <1>12, <1>0, <2>0 DEF postnotePull, posted, ready, Types, ListsOK, StateOK, ValueOK
  <2>7. TagOK'
    BY <1>12, <1>0, <2>0 DEF postnotePull, posted, ready, Types, ListsOK, StateOK, TagOK
  <2>8. PosterOK'
    BY <1>12, <2>0 DEF postnotePull, posted, ready, Types, PosterOK
  <2> QED BY <2>1, <2>2, <2>3, <2>4, <2>5, <2>6, <2>7, <2>8
<1>13. ASSUME NEW m \in Posters, postnoteLate(m) PROVE Kept
  <2>1. Types'
    BY <1>13 DEF postnoteLate, posted, Types, PCs, NPCs, MetOK
  <2>2. RgrpOK'
    BY <1>13 DEF postnoteLate, posted, Types, RgrpOK
  <2>3. ListsOK'
    BY <1>13, <1>0 DEF postnoteLate, posted, Types, ListsOK, StateOK
  <2>4. StateOK'
    BY <1>13, <1>0 DEF postnoteLate, posted, Types, ListsOK, StateOK
  <2>5. MetOK'
    BY <1>13 DEF postnoteLate, posted, Types, RgrpOK, ListsOK, StateOK, MetOK
  <2>6. ValueOK'
    BY <1>13, <1>0 DEF postnoteLate, posted, Types, ListsOK, StateOK, ValueOK
  <2>7. TagOK'
    BY <1>13, <1>0 DEF postnoteLate, posted, Types, ListsOK, StateOK, TagOK
  <2>8. PosterOK'
    BY <1>13 DEF postnoteLate, posted, Types, PosterOK
  <2> QED BY <2>1, <2>2, <2>3, <2>4, <2>5, <2>6, <2>7, <2>8
<1>14. CASE UNCHANGED vars
  BY <1>14 DEF vars, Types, RgrpOK, ListsOK, StateOK, MetOK, ValueOK, TagOK, PosterOK
<1> QED BY <1>1, <1>2, <1>3, <1>4, <1>5, <1>6, <1>7, <1>8, <1>9, <1>10, <1>11, <1>12, <1>13, <1>14 DEF Next, Proceed

\* The inductive invariant holds in every reachable state.
THEOREM Invariance == Spec => []IndInv
BY InitInv, NextInv, PTL DEF Spec

-----------------------------------------------------------------------------
\* Two processes that have met return each other's value, and a note posted
\* to one of them meanwhile neither takes the value away nor readies it twice.
THEOREM ValuesExchanged == Spec => []Exchanged
<1>1. IndInv => Exchanged
  <2> SUFFICES ASSUME IndInv PROVE Exchanged
    OBVIOUS
  <2>1. ToSet(rendhash) = Range(rendhash)
    BY InjectiveIsDistinct DEF IndInv, TypeOK
  <2> QED BY <2>1 DEF IndInv, Exchanged, ValueOK, TagOK
<1> QED BY <1>1, Invariance, PTL

-----------------------------------------------------------------------------
(* Stream queues: what blocks add up to *)

\* The pairs that Total counts.
Places(s) == UNION {{i} \X (1..s[i]) : i \in DOMAIN s}

\* There are finitely many of them, so that a sum is a number.
LEMMA PlacesFinite ==
  ASSUME NEW s \in Seq(Nat)
  PROVE  IsFiniteSet(Places(s)) /\ Total(s) = Cardinality(Places(s)) /\ Total(s) \in Nat
<1>1. PICK f : f = [i \in DOMAIN s |-> {i} \X (1..s[i])] OBVIOUS
<1>2. PICK T : T = {f[i] : i \in DOMAIN s} OBVIOUS
<1>3. IsFiniteSet(DOMAIN s) /\ DOMAIN f = DOMAIN s
  <2>1. DOMAIN s = 1..Len(s) /\ Len(s) \in Nat OBVIOUS
  <2>2. IsFiniteSet(1..Len(s)) BY <2>1, FS_Interval
  <2> QED BY <1>1, <2>1, <2>2
<1>4. f \in Surjection(DOMAIN s, T) BY <1>1, <1>2 DEF Surjection
<1>5. IsFiniteSet(T) BY <1>3, <1>4, FS_Surjection
<1>6. ASSUME NEW X \in T PROVE IsFiniteSet(X)
  <2>1. PICK i \in DOMAIN s : X = {i} \X (1..s[i]) BY <1>1, <1>2
  <2>2. s[i] \in Nat BY <2>1
  <2>3. IsFiniteSet(1..s[i]) /\ IsFiniteSet({i})
    <3>1. 1 \in Int /\ s[i] \in Int BY <2>2
    <3>2. IsFiniteSet(1..s[i]) BY <3>1, FS_Interval
    <3> QED BY <3>2, FS_Singleton
  <2> QED BY <2>1, <2>3, FS_Product
<1>7. Places(s) = UNION T BY <1>1, <1>2 DEF Places
<1>8. IsFiniteSet(UNION T) BY <1>5, <1>6, FS_UNION
<1>9. IsFiniteSet(Places(s)) BY <1>7, <1>8
<1>10. Total(s) = Cardinality(Places(s)) BY DEF Total, Places
<1> QED BY <1>9, <1>10, FS_CardinalityType

\* Which pairs they are.
LEMMA PlacesIn ==
  ASSUME NEW s \in Seq(Nat), NEW c
  PROVE  c \in Places(s) <=> \E i \in 1..Len(s) : \E j \in 1..s[i] : c = <<i, j>>
<1>1. DOMAIN s = 1..Len(s) OBVIOUS
<1> QED BY <1>1 DEF Places

\* What lies between the lists put together.
LEMMA TotalConcat ==
  ASSUME NEW s \in Seq(Nat), NEW t \in Seq(Nat)
  PROVE  Total(s \o t) = Total(s) + Total(t)
<1>1. PICK u \in Seq(Nat), m \in Nat :
        /\ u = s \o t /\ m = Len(s) /\ Len(u) = m + Len(t) /\ Len(t) \in Nat
        /\ \A i \in 1..m : u[i] = s[i]
        /\ \A i \in 1..Len(t) : u[m + i] = t[i]
  <2>1. s \o t \in Seq(Nat) /\ Len(s) \in Nat /\ Len(t) \in Nat /\ Len(s \o t) = Len(s) + Len(t)
    OBVIOUS
  <2>2. \A i \in 1..Len(s) : (s \o t)[i] = s[i] OBVIOUS
  <2>3. \A i \in 1..Len(t) : (s \o t)[Len(s) + i] = t[i] OBVIOUS
  <2> QED BY <2>1, <2>2, <2>3
<1>2. PICK S : S = Places(s) OBVIOUS
<1>3. PICK T : T = Places(t) OBVIOUS
<1>4. PICK U : U = Places(u) OBVIOUS
<1>5. IsFiniteSet(S) /\ IsFiniteSet(T) /\ IsFiniteSet(U)
      /\ Total(s) = Cardinality(S) /\ Total(t) = Cardinality(T) /\ Total(u) = Cardinality(U)
  BY <1>1, <1>2, <1>3, <1>4, PlacesFinite
<1>6. \A c : c \in S <=> \E i \in 1..m : \E j \in 1..s[i] : c = <<i, j>> BY <1>1, <1>2, PlacesIn
<1>7. \A c : c \in T <=> \E i \in 1..Len(t) : \E j \in 1..t[i] : c = <<i, j>> BY <1>3, PlacesIn
<1>8. \A c : c \in U <=> \E i \in 1..(m + Len(t)) : \E j \in 1..u[i] : c = <<i, j>>
  <2>1. \A c : c \in U <=> \E i \in 1..Len(u) : \E j \in 1..u[i] : c = <<i, j>> BY <1>4, PlacesIn
  <2> QED BY <1>1, <2>1
<1>9. S \subseteq U
  <2> SUFFICES ASSUME NEW c \in S PROVE c \in U
    OBVIOUS
  <2>1. PICK i \in 1..m : \E j \in 1..s[i] : c = <<i, j>> BY <1>6
  <2>2. i \in 1..(m + Len(t)) BY <1>1
  <2>3. u[i] = s[i] BY <1>1
  <2> QED BY <1>8, <2>1, <2>2, <2>3
<1>10. PICK f : f = [c \in T |-> <<m + c[1], c[2]>>] OBVIOUS
<1>11. f \in Bijection(T, U \ S)
  <2>1. ASSUME NEW c \in T PROVE f[c] \in U \ S
    <3>1a. PICK i \in 1..Len(t) : \E j \in 1..t[i] : c = <<i, j>> BY <1>7
    <3>1. PICK j \in 1..t[i] : c = <<i, j>> BY <3>1a
    <3>2. f[c] = <<m + i, j>> BY <1>10, <3>1
    <3>3. m + i \in 1..(m + Len(t)) /\ m + i \notin 1..m BY <1>1
    <3>4. u[m + i] = t[i] BY <1>1
    <3>5. f[c] \in U BY <1>8, <3>1, <3>2, <3>3, <3>4
    <3>6. f[c] \notin S BY <1>6, <3>2, <3>3
    <3> QED BY <3>5, <3>6
  <2>2. ASSUME NEW c \in T, NEW d \in T, f[c] = f[d] PROVE c = d
    <3>1a. PICK i \in 1..Len(t) : \E j \in 1..t[i] : c = <<i, j>> BY <1>7
    <3>1. PICK j \in 1..t[i] : c = <<i, j>> BY <3>1a
    <3>2a. PICK k \in 1..Len(t) : \E l \in 1..t[k] : d = <<k, l>> BY <1>7
    <3>2. PICK l \in 1..t[k] : d = <<k, l>> BY <3>2a
    <3>3. f[c] = <<m + i, j>> /\ f[d] = <<m + k, l>> BY <1>10, <3>1, <3>2
    <3>4. m + i = m + k /\ j = l
      <4>1. <<m + i, j>> = <<m + k, l>> BY <2>2, <3>3
      <4> QED BY <4>1
    <3>5. i = k BY <1>1, <3>4
    <3> QED BY <3>1, <3>2, <3>4, <3>5
  <2>3. ASSUME NEW c \in U \ S PROVE \E d \in T : f[d] = c
    <3>1a. PICK i \in 1..(m + Len(t)) : \E j \in 1..u[i] : c = <<i, j>> BY <1>8
    <3>1. PICK j \in 1..u[i] : c = <<i, j>> BY <3>1a
    <3>2. i \notin 1..m BY <1>1, <1>6, <3>1
    <3>3. PICK k \in 1..Len(t) : i = m + k
      <4>1. i - m \in 1..Len(t) /\ i = m + (i - m) BY <1>1, <3>2
      <4> QED BY <4>1
    <3>4. u[i] = t[k] BY <1>1, <3>3
    <3>5. <<k, j>> \in T BY <1>7, <3>1, <3>4
    <3>6. f[<<k, j>>] = c BY <1>10, <3>1, <3>3, <3>5
    <3> QED BY <3>5, <3>6
  <2>4. f \in [T -> U \ S] BY <1>10, <2>1
  <2> QED BY <2>2, <2>3, <2>4 DEF Bijection, Injection, IsInjective, Surjection
<1>12. Cardinality(U \ S) = Cardinality(T)
  <2>1. ExistsBijection(T, U \ S) BY <1>11 DEF ExistsBijection
  <2> QED BY <1>5, <2>1, FS_Bijection
<1>13. Cardinality(U \ S) = Cardinality(U) - Cardinality(U \cap S) BY <1>5, FS_Difference
<1>14. U \cap S = S BY <1>9
<1>15. Cardinality(S) \in Nat /\ Cardinality(T) \in Nat /\ Cardinality(U) \in Nat BY <1>5, FS_CardinalityType
<1>16. PICK a \in Nat, b \in Nat, c \in Nat : a = Cardinality(S) /\ b = Cardinality(T) /\ c = Cardinality(U)
  BY <1>15
<1>17. b = c - a BY <1>12, <1>13, <1>14, <1>16
<1>18. c = a + b BY <1>16, <1>17
<1> QED BY <1>1, <1>5, <1>16, <1>18

\* No numbers, one number, and how a sum bounds its members.
LEMMA TotalParts ==
  /\ Total(<<>>) = 0
  /\ \A x \in Nat : Total(<<x>>) = x
  /\ \A s \in Seq(Nat) : \A i \in 1..Len(s) : s[i] <= Total(s)
  /\ \A s \in Seq(Nat) : Total(s) > 0 => \E i \in 1..Len(s) : s[i] > 0
<1>1. ASSUME NEW s \in Seq(Nat), NEW i \in 1..Len(s)
      PROVE  /\ {i} \X (1..s[i]) \subseteq Places(s)
             /\ IsFiniteSet({i} \X (1..s[i])) /\ Cardinality({i} \X (1..s[i])) = s[i]
  <2>1. s[i] \in Nat OBVIOUS
  <2>2. IsFiniteSet(1..s[i]) /\ Cardinality(1..s[i]) = s[i]
    <3>1. 1 \in Int /\ s[i] \in Int BY <2>1
    <3>2. IsFiniteSet(1..s[i]) /\ Cardinality(1..s[i]) = IF 1 > s[i] THEN 0 ELSE s[i] - 1 + 1
      BY <3>1, FS_Interval
    <3> QED BY <2>1, <3>2
  <2>3. IsFiniteSet({i}) /\ Cardinality({i}) = 1 BY FS_Singleton
  <2>4. /\ IsFiniteSet({i} \X (1..s[i]))
        /\ Cardinality({i} \X (1..s[i])) = Cardinality({i}) * Cardinality(1..s[i])
    BY <2>2, <2>3, FS_Product
  <2>5. {i} \X (1..s[i]) \subseteq Places(s) BY DEF Places
  <2> QED BY <2>1, <2>2, <2>3, <2>4, <2>5
<1>2. Total(<<>>) = 0
  <2>1. Places(<<>>) = {} BY DEF Places
  <2>2. <<>> \in Seq(Nat) OBVIOUS
  <2> QED BY <2>1, <2>2, PlacesFinite, FS_EmptySet
<1>3. ASSUME NEW x \in Nat PROVE Total(<<x>>) = x
  <2>1. <<x>> \in Seq(Nat) /\ Len(<<x>>) = 1 /\ <<x>>[1] = x /\ DOMAIN <<x>> = {1} OBVIOUS
  <2>2. Places(<<x>>) = {1} \X (1..x) BY <2>1 DEF Places
  <2>3a. PICK s : s = <<x>> OBVIOUS
  <2>3. s \in Seq(Nat) /\ 1 \in 1..Len(s) /\ s[1] = x BY <2>1, <2>3a
  <2>4. Cardinality({1} \X (1..s[1])) = s[1] BY <1>1, <2>3
  <2> QED BY <2>2, <2>3a, <2>3, <2>4, PlacesFinite
<1>4. ASSUME NEW s \in Seq(Nat), NEW i \in 1..Len(s) PROVE s[i] <= Total(s)
  <2>1. /\ {i} \X (1..s[i]) \subseteq Places(s)
        /\ IsFiniteSet({i} \X (1..s[i])) /\ Cardinality({i} \X (1..s[i])) = s[i]
    BY <1>1
  <2>2. IsFiniteSet(Places(s)) /\ Total(s) = Cardinality(Places(s)) BY PlacesFinite
  <2>3. Cardinality({i} \X (1..s[i])) <= Cardinality(Places(s)) BY <2>1, <2>2, FS_Subset
  <2> QED BY <2>1, <2>2, <2>3
<1>5. ASSUME NEW s \in Seq(Nat), Total(s) > 0 PROVE \E i \in 1..Len(s) : s[i] > 0
  <2>1. IsFiniteSet(Places(s)) /\ Cardinality(Places(s)) # 0 BY <1>5, PlacesFinite
  <2>2. PICK c : c \in Places(s) BY <2>1, FS_EmptySet
  <2>3a. PICK i \in 1..Len(s) : \E j \in 1..s[i] : c = <<i, j>> BY <2>2, PlacesIn
  <2>3. PICK j \in 1..s[i] : c = <<i, j>> BY <2>3a
  <2>4. s[i] \in Nat BY <2>3
  <2>5. s[i] > 0 BY <2>3, <2>4
  <2> QED BY <2>5
<1> QED BY <1>2, <1>3, <1>4, <1>5

-----------------------------------------------------------------------------
(* Stream queues: lists of blocks *)

Blk == [d : Seq(0..(Wrap - 1)), a : Nat]

\* Sequences are the same if they are in every place.
LEMMA SameSeq ==
  ASSUME NEW S, NEW s \in Seq(S), NEW t \in Seq(S), Len(s) = Len(t), \A i \in 1..Len(s) : s[i] = t[i]
  PROVE  s = t
OBVIOUS

\* Where the second of two lists put together is.
LEMMA SecondPart ==
  ASSUME NEW S, NEW s \in Seq(S), NEW t \in Seq(S), NEW j \in 1..Len(t)
  PROVE  (s \o t)[Len(s) + j] = t[j]
OBVIOUS

Mapped(s, f) == [i \in DOMAIN s |-> f[s[i]]]

\* The numbers of two lists put together.
LEMMA MapConcat ==
  ASSUME NEW S, NEW f \in [S -> Nat], NEW s \in Seq(S), NEW t \in Seq(S)
  PROVE  /\ Mapped(s, f) \in Seq(Nat) /\ Len(Mapped(s, f)) = Len(s)
         /\ Mapped(s \o t, f) = Mapped(s, f) \o Mapped(t, f)
<1>1. ASSUME NEW u \in Seq(S)
      PROVE  /\ Mapped(u, f) \in Seq(Nat) /\ Len(Mapped(u, f)) = Len(u)
             /\ \A i \in 1..Len(u) : Mapped(u, f)[i] = f[u[i]]
  <2>1. DOMAIN u = 1..Len(u) /\ Len(u) \in Nat OBVIOUS
  <2>2. \A i \in 1..Len(u) : f[u[i]] \in Nat BY <2>1
  <2> QED BY <2>1, <2>2 DEF Mapped
<1>2. PICK g : g = Mapped(s, f) OBVIOUS
<1>3. PICK h : h = Mapped(t, f) OBVIOUS
<1>4. PICK k : k = Mapped(s \o t, f) OBVIOUS
<1>5. s \o t \in Seq(S) /\ Len(s \o t) = Len(s) + Len(t) /\ Len(s) \in Nat /\ Len(t) \in Nat OBVIOUS
<1>6. /\ g \in Seq(Nat) /\ Len(g) = Len(s) /\ \A i \in 1..Len(s) : g[i] = f[s[i]]
      /\ h \in Seq(Nat) /\ Len(h) = Len(t) /\ \A i \in 1..Len(t) : h[i] = f[t[i]]
  BY <1>1, <1>2, <1>3
<1>7. k \in Seq(Nat) /\ Len(k) = Len(s) + Len(t) /\ \A i \in 1..(Len(s) + Len(t)) : k[i] = f[(s \o t)[i]]
  <2>1. k \in Seq(Nat) /\ Len(k) = Len(s \o t) /\ \A i \in 1..Len(s \o t) : k[i] = f[(s \o t)[i]]
    BY <1>1, <1>4, <1>5
  <2> QED BY <1>5, <2>1
<1>8. g \o h \in Seq(Nat) /\ Len(g \o h) = Len(s) + Len(t)
  <2>1. g \in Seq(Nat) /\ h \in Seq(Nat) BY <1>6
  <2>2. g \o h \in Seq(Nat) /\ Len(g \o h) = Len(g) + Len(h) BY <2>1
  <2> QED BY <1>6, <2>2
<1>9. ASSUME NEW i \in 1..(Len(s) + Len(t)) PROVE k[i] = (g \o h)[i]
  <2>1. CASE i <= Len(s)
    <3>1. i \in 1..Len(s) BY <1>5, <2>1
    <3>2. (s \o t)[i] = s[i] BY <3>1
    <3>3. (g \o h)[i] = g[i] BY <1>6, <3>1
    <3> QED BY <1>6, <1>7, <3>1, <3>2, <3>3
  <2>2. CASE ~(i <= Len(s))
    <3>1. PICK j \in 1..Len(t) : i = Len(s) + j
      <4>1. i - Len(s) \in 1..Len(t) /\ i = Len(s) + (i - Len(s)) BY <1>5, <2>2
      <4> QED BY <4>1
    <3>2. (s \o t)[i] = t[j] BY <3>1, SecondPart
    <3>3. (g \o h)[i] = h[j]
      <4>1. i = Len(g) + j /\ j \in 1..Len(h) BY <1>6, <3>1
      <4>2. g \in Seq(Nat) /\ h \in Seq(Nat) BY <1>6
      <4>3. (g \o h)[Len(g) + j] = h[j] BY <4>1, <4>2, SecondPart
      <4> QED BY <4>1, <4>3
    <3>4. k[i] = f[(s \o t)[i]] BY <1>7
    <3>5. h[j] = f[t[j]] BY <1>6, <3>1
    <3> QED BY <3>2, <3>3, <3>4, <3>5
  <2> QED BY <2>1, <2>2
<1>10. k = g \o h BY <1>7, <1>8, <1>9, SameSeq
<1> QED BY <1>2, <1>3, <1>4, <1>6, <1>10

\* blocklen and blockalloclen add up over lists put together.
LEMMA SumConcat ==
  ASSUME NEW bl \in Seq(Blk), NEW cl \in Seq(Blk)
  PROVE  /\ blocklen(bl) \in Nat /\ blockalloclen(bl) \in Nat
         /\ blocklen(bl \o cl) = blocklen(bl) + blocklen(cl)
         /\ blockalloclen(bl \o cl) = blockalloclen(bl) + blockalloclen(cl)
<1>1. PICK f \in [Blk -> Nat] : \A b \in Blk : f[b] = b.a
  <2>1. [b \in Blk |-> b.a] \in [Blk -> Nat] BY DEF Blk
  <2> QED BY <2>1
<1>2. PICK g \in [Blk -> Nat] : \A b \in Blk : g[b] = Len(b.d)
  <2>1. ASSUME NEW b \in Blk PROVE Len(b.d) \in Nat
    <3>1. b.d \in Seq(0..(Wrap - 1)) BY DEF Blk
    <3> QED BY <3>1
  <2>2. [b \in Blk |-> Len(b.d)] \in [Blk -> Nat] BY <2>1
  <2> QED BY <2>2
<1>3. ASSUME NEW s \in Seq(Blk)
      PROVE  /\ blockalloclen(s) = Total(Mapped(s, f))
             /\ blocklen(s) = Total(Mapped(s, g))
  <2>1. \A i \in DOMAIN s : s[i] \in Blk OBVIOUS
  <2>2. [i \in DOMAIN s |-> s[i].a] = [i \in DOMAIN s |-> f[s[i]]] BY <1>1, <2>1
  <2>3. [i \in DOMAIN s |-> Len(s[i].d)] = [i \in DOMAIN s |-> g[s[i]]] BY <1>2, <2>1
  <2> QED BY <2>2, <2>3 DEF blocklen, blockalloclen, Mapped
<1>4. ASSUME NEW h \in [Blk -> Nat]
      PROVE  /\ Total(Mapped(bl, h)) \in Nat
             /\ Total(Mapped(bl \o cl, h)) = Total(Mapped(bl, h)) + Total(Mapped(cl, h))
  <2>1. Mapped(bl, h) \in Seq(Nat) /\ Mapped(cl, h) \in Seq(Nat) BY MapConcat
  <2>2. Mapped(bl \o cl, h) = Mapped(bl, h) \o Mapped(cl, h) BY MapConcat
  <2>3. Total(Mapped(bl, h) \o Mapped(cl, h)) = Total(Mapped(bl, h)) + Total(Mapped(cl, h))
        /\ Total(Mapped(bl, h)) \in Nat
    BY <2>1, TotalConcat, PlacesFinite
  <2> QED BY <2>2, <2>3
<1>5. bl \o cl \in Seq(Blk) OBVIOUS
<1>6. blocklen(bl) \in Nat /\ blocklen(bl \o cl) = blocklen(bl) + blocklen(cl) BY <1>3, <1>4, <1>5
<1>7. blockalloclen(bl) \in Nat /\ blockalloclen(bl \o cl) = blockalloclen(bl) + blockalloclen(cl)
  BY <1>3, <1>4, <1>5
<1> QED BY <1>6, <1>7

\* No block, one block, and how the sums bound what one block has.
LEMMA SumParts ==
  /\ blocklen(<<>>) = 0 /\ blockalloclen(<<>>) = 0
  /\ \A b \in Blk : blockalloclen(<<b>>) = b.a
  /\ \A bl \in Seq(Blk) : \A i \in 1..Len(bl) : bl[i].a <= blockalloclen(bl) /\ Len(bl[i].d) <= blocklen(bl)
  /\ \A bl \in Seq(Blk) : blocklen(bl) > 0 => \E i \in 1..Len(bl) : bl[i].d # <<>>
<1>1. ASSUME NEW bl \in Seq(Blk)
      PROVE  /\ [i \in DOMAIN bl |-> bl[i].a] \in Seq(Nat) /\ Len([i \in DOMAIN bl |-> bl[i].a]) = Len(bl)
             /\ [i \in DOMAIN bl |-> Len(bl[i].d)] \in Seq(Nat)
             /\ Len([i \in DOMAIN bl |-> Len(bl[i].d)]) = Len(bl)
             /\ \A i \in 1..Len(bl) : i \in DOMAIN bl /\ bl[i] \in Blk
  <2>1. DOMAIN bl = 1..Len(bl) /\ Len(bl) \in Nat OBVIOUS
  <2>2. ASSUME NEW i \in 1..Len(bl) PROVE bl[i] \in Blk /\ bl[i].a \in Nat /\ Len(bl[i].d) \in Nat
    <3>1. bl[i] \in Blk BY <2>1
    <3>2. bl[i].a \in Nat /\ bl[i].d \in Seq(0..(Wrap - 1)) BY <3>1 DEF Blk
    <3> QED BY <3>1, <3>2
  <2> QED BY <2>1, <2>2
<1>2. blocklen(<<>>) = 0 /\ blockalloclen(<<>>) = 0
  <2>1. [i \in DOMAIN <<>> |-> <<>>[i].a] = <<>> /\ [i \in DOMAIN <<>> |-> Len(<<>>[i].d)] = <<>> OBVIOUS
  <2> QED BY <2>1, TotalParts DEF blocklen, blockalloclen
<1>3. ASSUME NEW b \in Blk PROVE blockalloclen(<<b>>) = b.a
  <2>1. b.a \in Nat BY DEF Blk
  <2>2. [i \in DOMAIN <<b>> |-> <<b>>[i].a] = <<b.a>> OBVIOUS
  <2> QED BY <2>1, <2>2, TotalParts DEF blockalloclen
<1>4. ASSUME NEW bl \in Seq(Blk), NEW i \in 1..Len(bl)
      PROVE  bl[i].a <= blockalloclen(bl) /\ Len(bl[i].d) <= blocklen(bl)
  <2>1. PICK x : x = [j \in DOMAIN bl |-> bl[j].a] OBVIOUS
  <2>2. PICK y : y = [j \in DOMAIN bl |-> Len(bl[j].d)] OBVIOUS
  <2>3. x \in Seq(Nat) /\ y \in Seq(Nat) /\ Len(x) = Len(bl) /\ Len(y) = Len(bl) /\ i \in DOMAIN bl
    BY <1>1, <2>1, <2>2
  <2>4. x[i] <= Total(x) /\ y[i] <= Total(y) BY <2>3, TotalParts
  <2> QED BY <2>1, <2>2, <2>3, <2>4 DEF blocklen, blockalloclen
<1>5. ASSUME NEW bl \in Seq(Blk), blocklen(bl) > 0 PROVE \E i \in 1..Len(bl) : bl[i].d # <<>>
  <2>1. PICK y : y = [j \in DOMAIN bl |-> Len(bl[j].d)] OBVIOUS
  <2>2. y \in Seq(Nat) /\ Len(y) = Len(bl) /\ Total(y) > 0 BY <1>1, <1>5, <2>1 DEF blocklen
  <2>3. PICK i \in 1..Len(bl) : y[i] > 0 BY <2>2, TotalParts
  <2>4. y[i] = Len(bl[i].d) BY <1>1, <2>1, <2>3
  <2>5. bl[i].d # <<>> BY <2>3, <2>4
  <2> QED BY <2>5
<1> QED BY <1>2, <1>3, <1>4, <1>5

\* The rest of the list after place i, and with it a block in place of the one
\* that was there.
LEMMA CutAlloc ==
  ASSUME NEW bl \in Seq(Blk), NEW i \in 1..Len(bl)
  PROVE  LET r == SubSeq(bl, i + 1, Len(bl))
         IN  /\ r \in Seq(Blk) /\ SubSeq(bl, 1, i) \in Seq(Blk) /\ SubSeq(bl, 1, i) # <<>>
             /\ \A k \in 1..Len(r) : r[k] = bl[i + k] /\ i + k \in 1..Len(bl)
             /\ \A k \in 1..Len(SubSeq(bl, 1, i)) : SubSeq(bl, 1, i)[k] = bl[k] /\ k \in 1..Len(bl)
             /\ blockalloclen(SubSeq(bl, 1, i)) + blockalloclen(r) = blockalloclen(bl)
             /\ \A b \in Blk : b.a <= bl[i].a => blockalloclen(<<b>> \o r) <= blockalloclen(bl)
             /\ blockalloclen(r) <= blockalloclen(bl)
<1>1. PICK r : r = SubSeq(bl, i + 1, Len(bl)) OBVIOUS
<1>2. PICK h : h = SubSeq(bl, 1, i) OBVIOUS
<1>3. Len(bl) \in Nat /\ i \in Nat OBVIOUS
<1>4. r \in Seq(Blk) /\ Len(r) = Len(bl) - i /\ \A k \in 1..(Len(bl) - i) : r[k] = bl[i + k]
  <2>1. r \in Seq(Blk) /\ Len(r) = (IF i + 1 <= Len(bl) THEN Len(bl) - (i + 1) + 1 ELSE 0)
    BY <1>1, <1>3
  <2>2. Len(r) = Len(bl) - i BY <1>3, <2>1
  <2>3. ASSUME NEW k \in 1..(Len(bl) - i) PROVE r[k] = bl[i + k]
    <3>1. r[k] = bl[(i + 1) + k - 1] BY <1>1, <1>3
    <3>2. (i + 1) + k - 1 = i + k BY <1>3
    <3> QED BY <3>1, <3>2
  <2> QED BY <2>1, <2>2, <2>3
<1>5. h \in Seq(Blk) /\ Len(h) = i /\ \A k \in 1..i : h[k] = bl[k] BY <1>2, <1>3
<1>6. bl = h \o r
  <2>1. h \o r \in Seq(Blk) /\ Len(h \o r) = Len(bl)
    <3>1. h \in Seq(Blk) /\ r \in Seq(Blk) BY <1>4, <1>5
    <3>2. h \o r \in Seq(Blk) /\ Len(h \o r) = Len(h) + Len(r) BY <3>1
    <3> QED BY <1>3, <1>4, <1>5, <3>2
  <2>2. ASSUME NEW k \in 1..Len(bl) PROVE (h \o r)[k] = bl[k]
    <3>1. CASE k <= i
      <4>1. k \in 1..Len(h) BY <1>5, <3>1
      <4> QED BY <1>4, <1>5, <4>1
    <3>2. CASE ~(k <= i)
      <4>1. PICK j \in 1..(Len(bl) - i) : k = i + j
        <5>1. k - i \in 1..(Len(bl) - i) /\ k = i + (k - i) BY <1>3, <3>2
        <5> QED BY <5>1
      <4>2. (h \o r)[k] = r[j] BY <1>4, <1>5, <4>1
      <4> QED BY <1>4, <4>1, <4>2
    <3> QED BY <3>1, <3>2
  <2> QED BY <2>1, <2>2, SameSeq
<1>7. blockalloclen(h) + blockalloclen(r) = blockalloclen(bl) /\ blockalloclen(h) \in Nat /\ blockalloclen(r) \in Nat
  BY <1>4, <1>5, <1>6, SumConcat
<1>8. ASSUME NEW b \in Blk, b.a <= bl[i].a PROVE blockalloclen(<<b>> \o r) <= blockalloclen(bl)
  <2>1. b.a \in Nat /\ bl[i].a \in Nat
    <3>1. bl[i] \in Blk OBVIOUS
    <3> QED BY <3>1 DEF Blk
  <2>2. i \in 1..Len(h) /\ h[i] = bl[i] BY <1>3, <1>5
  <2>3. bl[i].a <= blockalloclen(h) BY <1>5, <2>2, SumParts
  <2>4. <<b>> \in Seq(Blk) /\ blockalloclen(<<b>>) = b.a BY SumParts
  <2>5. blockalloclen(<<b>> \o r) = b.a + blockalloclen(r) BY <1>4, <2>4, SumConcat
  <2> QED BY <1>7, <1>8, <2>1, <2>3, <2>5
<1>9. \A k \in 1..Len(r) : r[k] = bl[i + k] /\ i + k \in 1..Len(bl) BY <1>3, <1>4
<1>10. h # <<>> /\ \A k \in 1..Len(h) : h[k] = bl[k] /\ k \in 1..Len(bl) BY <1>3, <1>5
<1>11. blockalloclen(r) <= blockalloclen(bl) BY <1>7
<1> QED BY <1>1, <1>2, <1>4, <1>5, <1>7, <1>8, <1>9, <1>10, <1>11

-----------------------------------------------------------------------------
(* Stream queues: the invariant *)

Reads == uses("qread") \/ uses("qbread")
Takes == uses("qget") \/ uses("qconsume")

\* Where writers wait for qconsume there are no empty blocks, which it frees
\* without restarting them.
NoEmpty == WritersAlone /\ uses("qconsume")

RPCs == {"idle", "lock", "wait", "sleep", "asleep", "copy", "wake"}
WPCs == {"idle", "lock", "put", "wake", "flow", "setflow", "sleep", "asleep"}
QPCs == RPCs \cup WPCs
Signals == {"kick", "rr", "wr"}

QueueTypes ==
  /\ use \in Uses /\ blocks \in Seq(Blk) /\ hand \in [Readers -> Seq(Blk)]
  /\ len = blockalloclen(blocks) /\ dlen = blocklen(blocks)
  /\ limit \in {use.inilim} \cup use.limits
  /\ noblock \in BOOLEAN /\ closed \in BOOLEAN /\ starve \in BOOLEAN /\ flow \in BOOLEAN /\ active \in BOOLEAN
  /\ pend \in [Agents -> Seq(Signals)]
  /\ next \in Nat

CallTypes ==
  /\ rlock \in Readers \cup {null} /\ wlock \in Writers \cup {null}
  /\ qpc \in [QioProcs -> QPCs]
  /\ op \in [Readers -> {"qread", "qbread"}] /\ n \in [QioProcs -> 0..MaxSize]

\* BALLOC counts more than the bytes.
BlockSizes ==
  /\ \A i \in 1..Len(blocks) : Len(blocks[i].d) < blocks[i].a
  /\ \A r \in Readers : \A i \in 1..Len(hand[r]) : Len(hand[r][i].d) < hand[r][i].a
  /\ NoEmpty => \A i \in 1..Len(blocks) : blocks[i].d # <<>>

\* Who is past the QLock holds it.
ReaderCalls ==
  \A r \in Readers :
    /\ qpc[r] \in RPCs
    /\ qpc[r] \notin {"idle", "lock"} => rlock = r
    /\ qpc[r] # "idle" => Reads
    /\ hand[r] # <<>> => qpc[r] = "copy"
    /\ pend[r] # <<>> => qpc[r] = "wake"

WriterCalls ==
  \A w \in Writers :
    /\ qpc[w] \in WPCs
    /\ qpc[w] \notin {"idle", "lock"} => wlock = w
    /\ qpc[w] # "idle" => uses("qwrite")
    /\ NoEmpty /\ qpc[w] \in {"lock", "put"} => n[w] > 0
    /\ pend[w] # <<>> => qpc[w] = "wake"

\* A reader on its way to sleep has asked for data or finds some; one that
\* sleeps has asked and there is none, or is being woken.
ReaderInv ==
  ReadersAlone => \A r \in Readers :
    /\ qpc[r] = "sleep" => notempty \/ starve
    /\ qpc[r] = "asleep" => (starve /\ ~notempty) \/ Pending("rr")

\* Once Qflow is cleared the writer on its way to sleep finds room, also if a
\* reader puts back what it has in its hands.
Room == len < limit /\ \A r \in Readers : qpc[r] = "copy" => len + blockalloclen(hand[r]) < limit

WriterInv ==
  WritersAlone => \A w \in Writers :
    /\ qpc[w] = "sleep" /\ ~closed /\ ~flow => Room
    /\ qpc[w] = "asleep" =>
         \/ Pending("wr")
         \/ ~closed /\ flow /\ (blocks # <<>> \/ \E r \in Readers : qpc[r] = "copy")

\* The device is going, about to be kicked, or has nothing to do and will be
\* kicked when it has: all but qiwrite leave a closed queue alone.
DeviceInv ==
  Takes /\ DeviceAlone =>
    \/ active \/ Pending("kick")
    \/ blocks = <<>> /\ (starve \/ (closed /\ ~uses("qiwrite")))

QueueInv ==
  /\ QueueTypes /\ CallTypes /\ BlockSizes /\ ReaderCalls /\ WriterCalls
  /\ ReaderInv /\ WriterInv /\ DeviceInv

\* How a queue is used stays.
LEMMA SameUse ==
  ASSUME UNCHANGED use
  PROVE  /\ \A f : uses(f)' <=> uses(f)
         /\ (Reads' <=> Reads) /\ (Takes' <=> Takes) /\ (NoEmpty' <=> NoEmpty)
         /\ (ReadersAlone' <=> ReadersAlone) /\ (WritersAlone' <=> WritersAlone) /\ (DeviceAlone' <=> DeviceAlone)
<1>1. ASSUME NEW f PROVE uses(f)' <=> uses(f) BY DEF uses
<1>2. (Reads' <=> Reads) /\ (Takes' <=> Takes) BY <1>1 DEF Reads, Takes
<1>3. ReadersAlone' <=> ReadersAlone BY DEF ReadersAlone
<1>4. WritersAlone' <=> WritersAlone BY <1>3 DEF WritersAlone
<1>5. DeviceAlone' <=> DeviceAlone BY DEF DeviceAlone
<1>6. NoEmpty' <=> NoEmpty BY <1>1, <1>4 DEF NoEmpty
<1> QED BY <1>1, <1>2, <1>3, <1>4, <1>5, <1>6

\* What the parameters say of this queue.
LEMMA UseFacts ==
  ASSUME QueueTypes
  PROVE  /\ use.mode \in {"stream", "msg", "coalesce"} /\ use.kick \in BOOLEAN /\ use.sizes \subseteq 0..MaxSize
         /\ use.inilim \in Nat /\ use.limits \subseteq Nat
         /\ limit \in Nat /\ limit >= 2 /\ limit \div 2 \in Nat
         /\ limit \div 2 >= 1 /\ limit \div 2 <= limit
<1>1. use \in Uses /\ limit \in {use.inilim} \cup use.limits BY DEF QueueTypes
<1>2. use.mode \in {"stream", "msg", "coalesce"} /\ use.kick \in BOOLEAN /\ use.sizes \subseteq 0..MaxSize
      /\ {use.inilim} \cup use.limits \subseteq Nat \ {0, 1}
  BY <1>1, QioAssumption
<1>3. limit \in Nat \ {0, 1} BY <1>1, <1>2
<1>4. limit \div 2 \in Nat /\ limit \div 2 >= 1 /\ limit \div 2 <= limit BY <1>3
<1>5. use.inilim \in Nat /\ use.limits \subseteq Nat /\ limit \in Nat /\ limit >= 2 BY <1>2, <1>3
<1> QED BY <1>2, <1>4, <1>5

\* What it means that readers, writers or the device have the queue for
\* themselves.
LEMMA AloneFacts ==
  ASSUME QueueTypes
  PROVE  /\ ReadersAlone => ~Takes /\ ~uses("qdiscard") /\ ~uses("qflush")
         /\ WritersAlone =>
              /\ use.excl /\ use.mode # "coalesce"
              /\ ~uses("qproduce") /\ ~uses("qpass") /\ ~uses("qpassnolim") /\ ~uses("qiwrite")
              /\ \A l \in use.limits : limit <= l
              /\ Reads => ~Takes /\ ~uses("qdiscard") /\ ~uses("qflush")
         /\ NoEmpty => ~Reads /\ 0 \notin use.sizes /\ ~uses("qdiscard")
         /\ DeviceAlone =>
              /\ use.kick /\ ~Reads /\ ~uses("qproduce") /\ ~uses("qpass") /\ ~uses("qpassnolim")
              /\ uses("qiwrite") => ~uses("qclose") /\ ~uses("qreopen")
<1>1. limit \in {use.inilim} \cup use.limits BY DEF QueueTypes
<1>2. ReadersAlone => ~Takes /\ ~uses("qdiscard") /\ ~uses("qflush") BY DEF ReadersAlone, Takes, uses
<1>3. WritersAlone =>
        /\ use.excl /\ use.mode # "coalesce"
        /\ ~uses("qproduce") /\ ~uses("qpass") /\ ~uses("qpassnolim") /\ ~uses("qiwrite")
        /\ Reads => ReadersAlone
        /\ uses("qconsume") => 0 \notin use.sizes /\ ~uses("qdiscard")
  BY DEF WritersAlone, Reads, uses
<1>4. ASSUME WritersAlone, NEW l \in use.limits PROVE limit <= l
  <2>1. \A k, m \in use.limits : k = m /\ use.inilim <= k BY <1>4 DEF WritersAlone
  <2>2. l \in Nat /\ use.inilim <= l /\ (limit \in use.limits => limit = l) BY <1>4, <2>1, UseFacts
  <2> QED BY <1>1, <2>2
<1>5. NoEmpty => ~Reads /\ 0 \notin use.sizes /\ ~uses("qdiscard") BY <1>2, <1>3 DEF NoEmpty, Takes
<1>6. DeviceAlone =>
        /\ use.kick /\ ~Reads /\ ~uses("qproduce") /\ ~uses("qpass") /\ ~uses("qpassnolim")
        /\ uses("qiwrite") => ~uses("qclose") /\ ~uses("qreopen")
  BY DEF DeviceAlone, Reads, uses
<1> QED BY <1>2, <1>3, <1>4, <1>5, <1>6

\* Who is a process and who an agent.
LEMMA ProcFacts ==
  /\ QioProcs = Readers \cup Writers /\ Readers \cap Writers = {}
  /\ null \notin Readers /\ null \notin Writers
  /\ "in" \notin QioProcs /\ "out" \notin QioProcs /\ "ctl" \notin QioProcs
  /\ QioProcs \subseteq Agents /\ "in" \in Agents /\ "out" \in Agents /\ "ctl" \in Agents
BY QioAssumption DEF QioProcs, Agents, Devs

\* What an agent is given to do is pending, and nothing else is lost.
LEMMA PendSet ==
  ASSUME pend \in [Agents -> Seq(Signals)], NEW a \in Agents, pend[a] = <<>>,
         NEW t \in Seq(Signals), pend' = [pend EXCEPT ![a] = t]
  PROVE  /\ pend' \in [Agents -> Seq(Signals)]
         /\ pend'[a] = t /\ \A b \in Agents \ {a} : pend'[b] = pend[b]
         /\ \A x : Pending(x) => Pending(x)'
         /\ \A x : x \in Range(t) => Pending(x)'
<1>1. pend' \in [Agents -> Seq(Signals)] OBVIOUS
<1>2. pend'[a] = t /\ \A b \in Agents \ {a} : pend'[b] = pend[b] OBVIOUS
<1>3. ASSUME NEW x, Pending(x) PROVE Pending(x)'
  <2>1. PICK b \in Agents : x \in Range(pend[b]) BY <1>3 DEF Pending
  <2>2. b # a
    <3>1. Range(<<>>) = {} BY EmptyRange
    <3> QED BY <2>1, <3>1
  <2>3. pend'[b] = pend[b] BY <1>2, <2>2
  <2> QED BY <2>1, <2>3 DEF Pending
<1>4. ASSUME NEW x \in Range(t) PROVE Pending(x)' BY <1>2, <1>4 DEF Pending
<1> QED BY <1>1, <1>2, <1>3, <1>4

\* Two lists of one put together.
LEMMA PairSeq == ASSUME NEW S, NEW x \in S, NEW y \in S PROVE <<x>> \o <<y>> = <<x, y>>
<1>1. PICK s : s = <<x>> \o <<y>> OBVIOUS
<1>2. <<x>> \in Seq(S) /\ <<y>> \in Seq(S) /\ Len(<<x>>) = 1 /\ Len(<<y>>) = 1 OBVIOUS
<1>3. s \in Seq(S) /\ Len(s) = 2 /\ s[1] = x /\ s[2] = y BY <1>1, <1>2
<1>4. <<x, y>> \in Seq(S) /\ Len(<<x, y>>) = 2 /\ <<x, y>>[1] = x /\ <<x, y>>[2] = y OBVIOUS
<1>5. \A i \in 1..2 : s[i] = <<x, y>>[i] BY <1>3, <1>4
<1> QED BY <1>1, <1>3, <1>4, <1>5, SameSeq

\* What an agent may be given to do.
LEMMA SignalSeqs ==
  /\ <<>> \in Seq(Signals)
  /\ \A x \in Signals : <<x>> \in Seq(Signals) /\ x \in Range(<<x>>)
  /\ \A x, y \in Signals : /\ <<x, y>> \in Seq(Signals)
                          /\ x \in Range(<<x, y>>) /\ y \in Range(<<x, y>>)
<1>1. ASSUME NEW x \in Signals PROVE <<x>> \in Seq(Signals) /\ x \in Range(<<x>>)
  <2>1. DOMAIN <<x>> = {1} /\ <<x>>[1] = x OBVIOUS
  <2> QED BY <2>1 DEF Range
<1>2. ASSUME NEW x \in Signals, NEW y \in Signals
      PROVE  <<x, y>> \in Seq(Signals) /\ x \in Range(<<x, y>>) /\ y \in Range(<<x, y>>)
  <2>1. DOMAIN <<x, y>> = {1, 2} /\ <<x, y>>[1] = x /\ <<x, y>>[2] = y OBVIOUS
  <2> QED BY <2>1 DEF Range
<1> QED BY <1>1, <1>2

-----------------------------------------------------------------------------
(* Stream queues: calls *)

\* A reader goes from one place to another.
LEMMA ReaderGoes ==
  ASSUME QueueInv, NEW r \in Readers, NEW l \in RPCs, qpc' = [qpc EXCEPT ![r] = l], UNCHANGED <<use, wlock>>,
         l \notin {"idle", "lock"} => rlock' = r,
         \A q \in Readers \ {r} : qpc[q] \notin {"idle", "lock"} => rlock' = q,
         l # "idle" => Reads,
         \A q \in Readers \ {r} : hand'[q] = hand[q], hand'[r] # <<>> => l = "copy",
         \A q \in QioProcs \ {r} : pend'[q] = pend[q], pend'[r] # <<>> => l = "wake",
         \A q \in Writers : n'[q] = n[q]
  PROVE  /\ ReaderCalls' /\ WriterCalls' /\ qpc' \in [QioProcs -> QPCs]
         /\ qpc'[r] = l /\ \A q \in QioProcs \ {r} : qpc'[q] = qpc[q]
<1>1. qpc \in [QioProcs -> QPCs] /\ ReaderCalls /\ WriterCalls BY DEF QueueInv, CallTypes
<1>2. qpc' \in [QioProcs -> QPCs] /\ qpc'[r] = l /\ \A q \in QioProcs \ {r} : qpc'[q] = qpc[q] BY <1>1, ProcFacts DEF QPCs
<1>3. (\A f : uses(f)' <=> uses(f)) /\ (NoEmpty' <=> NoEmpty) BY SameUse
<1>4. Reads' <=> Reads BY SameUse
<1>5. ReaderCalls'
  <2> SUFFICES ASSUME NEW q \in Readers
               PROVE  /\ qpc'[q] \in RPCs
                      /\ qpc'[q] \notin {"idle", "lock"} => rlock' = q
                      /\ qpc'[q] # "idle" => Reads'
                      /\ hand'[q] # <<>> => qpc'[q] = "copy"
                      /\ pend'[q] # <<>> => qpc'[q] = "wake"
    BY DEF ReaderCalls
  <2>1. CASE q = r BY <1>2, <1>4, <2>1
  <2>2. CASE q # r
    <3>1. q \in QioProcs \ {r} BY <2>2, ProcFacts
    <3>2. qpc'[q] = qpc[q] /\ hand'[q] = hand[q] /\ pend'[q] = pend[q] BY <1>2, <2>2, <3>1
    <3> QED BY <1>1, <1>4, <2>2, <3>2 DEF ReaderCalls
  <2> QED BY <2>1, <2>2
<1>6. WriterCalls'
  <2> SUFFICES ASSUME NEW w \in Writers
               PROVE  /\ qpc'[w] \in WPCs
                      /\ qpc'[w] \notin {"idle", "lock"} => wlock' = w
                      /\ qpc'[w] # "idle" => uses("qwrite")'
                      /\ NoEmpty' /\ qpc'[w] \in {"lock", "put"} => n'[w] > 0
                      /\ pend'[w] # <<>> => qpc'[w] = "wake"
    BY DEF WriterCalls
  <2>1. w \in QioProcs \ {r} BY ProcFacts
  <2>2. qpc'[w] = qpc[w] /\ pend'[w] = pend[w] /\ n'[w] = n[w] BY <1>2, <2>1
  <2> QED BY <1>1, <1>3, <2>2 DEF WriterCalls
<1> QED BY <1>2, <1>5, <1>6

\* The same for a writer.
LEMMA WriterGoes ==
  ASSUME QueueInv, NEW w \in Writers, NEW l \in WPCs, qpc' = [qpc EXCEPT ![w] = l], UNCHANGED <<use, rlock, hand>>,
         l \notin {"idle", "lock"} => wlock' = w,
         \A q \in Writers \ {w} : qpc[q] \notin {"idle", "lock"} => wlock' = q,
         l # "idle" => uses("qwrite"),
         \A q \in Writers \ {w} : n'[q] = n[q], NoEmpty /\ l \in {"lock", "put"} => n'[w] > 0,
         \A q \in QioProcs \ {w} : pend'[q] = pend[q], pend'[w] # <<>> => l = "wake"
  PROVE  /\ ReaderCalls' /\ WriterCalls' /\ qpc' \in [QioProcs -> QPCs]
         /\ qpc'[w] = l /\ \A q \in QioProcs \ {w} : qpc'[q] = qpc[q]
<1>1. qpc \in [QioProcs -> QPCs] /\ ReaderCalls /\ WriterCalls BY DEF QueueInv, CallTypes
<1>2. qpc' \in [QioProcs -> QPCs] /\ qpc'[w] = l /\ \A q \in QioProcs \ {w} : qpc'[q] = qpc[q] BY <1>1, ProcFacts DEF QPCs
<1>3. (\A f : uses(f)' <=> uses(f)) /\ (NoEmpty' <=> NoEmpty) BY SameUse
<1>4. Reads' <=> Reads BY SameUse
<1>5. ReaderCalls'
  <2> SUFFICES ASSUME NEW q \in Readers
               PROVE  /\ qpc'[q] \in RPCs
                      /\ qpc'[q] \notin {"idle", "lock"} => rlock' = q
                      /\ qpc'[q] # "idle" => Reads'
                      /\ hand'[q] # <<>> => qpc'[q] = "copy"
                      /\ pend'[q] # <<>> => qpc'[q] = "wake"
    BY DEF ReaderCalls
  <2>1. q \in QioProcs \ {w} BY ProcFacts
  <2>2. qpc'[q] = qpc[q] /\ pend'[q] = pend[q] BY <1>2, <2>1
  <2> QED BY <1>1, <1>4, <2>2 DEF ReaderCalls
<1>6. WriterCalls'
  <2> SUFFICES ASSUME NEW q \in Writers
               PROVE  /\ qpc'[q] \in WPCs
                      /\ qpc'[q] \notin {"idle", "lock"} => wlock' = q
                      /\ qpc'[q] # "idle" => uses("qwrite")'
                      /\ NoEmpty' /\ qpc'[q] \in {"lock", "put"} => n'[q] > 0
                      /\ pend'[q] # <<>> => qpc'[q] = "wake"
    BY DEF WriterCalls
  <2>1. CASE q = w BY <1>2, <1>3, <2>1
  <2>2. CASE q # w
    <3>1. q \in QioProcs \ {w} BY <2>2, ProcFacts
    <3>2. qpc'[q] = qpc[q] /\ pend'[q] = pend[q] /\ n'[q] = n[q] BY <1>2, <2>2, <3>1
    <3> QED BY <1>1, <1>3, <2>2, <3>2 DEF WriterCalls
  <2> QED BY <2>1, <2>2
<1> QED BY <1>2, <1>5, <1>6

\* A process goes on and leaves the queue alone.
LEMMA QuietGoes ==
  ASSUME QueueInv, NEW p \in QioProcs, NEW l, qpc'[p] = l, \A q \in QioProcs \ {p} : qpc'[q] = qpc[q],
         UNCHANGED <<config, buffer, flags, hand, pend, active, next>>,
         CallTypes', ReaderCalls', WriterCalls', qpc[p] # "copy", l # "copy", l # "sleep",
         ReadersAlone /\ p \in Readers /\ l = "asleep" => starve /\ ~notempty,
         WritersAlone /\ p \in Writers /\ l = "asleep" => ~closed /\ flow /\ blocks # <<>>
  PROVE  QueueInv'
<1>0. /\ (ReadersAlone' <=> ReadersAlone) /\ (WritersAlone' <=> WritersAlone) /\ (DeviceAlone' <=> DeviceAlone)
      /\ NoEmpty' <=> NoEmpty
  BY SameUse DEF config
<1>1. \A x : Pending(x)' <=> Pending(x) BY DEF Pending
<1>2. QueueTypes' BY DEF QueueInv, QueueTypes, config, buffer, flags
<1>3. BlockSizes' BY <1>0 DEF QueueInv, BlockSizes, buffer
<1>4. DeviceInv' BY <1>0, <1>1 DEF QueueInv, DeviceInv, Takes, uses, config, buffer, flags
<1>5. notempty' <=> notempty BY DEF notempty, buffer, flags
<1>6. \A q \in QioProcs : qpc'[q] = "copy" <=> qpc[q] = "copy" OBVIOUS
<1>7. ReaderInv'
  <2> SUFFICES ASSUME ReadersAlone, NEW r \in Readers
               PROVE  /\ qpc'[r] = "sleep" => notempty' \/ starve'
                      /\ qpc'[r] = "asleep" => (starve' /\ ~notempty') \/ Pending("rr")'
    BY <1>0 DEF ReaderInv
  <2>1. r \in QioProcs /\ starve' = starve BY ProcFacts DEF flags
  <2>2. CASE r = p BY <1>5, <2>1, <2>2
  <2>3. CASE r # p
    <3>1. qpc'[r] = qpc[r] BY <2>1, <2>3
    <3> QED BY <1>1, <1>5, <2>1, <3>1 DEF QueueInv, ReaderInv
  <2> QED BY <2>2, <2>3
<1>8. Room' <=> Room
  <2>1. \A r \in Readers : qpc'[r] = "copy" <=> qpc[r] = "copy" BY <1>6, ProcFacts
  <2>2. len' = len /\ limit' = limit /\ hand' = hand BY DEF buffer, config
  <2> QED BY <2>1, <2>2 DEF Room
<1>9. WriterInv'
  <2> SUFFICES ASSUME WritersAlone, NEW w \in Writers
               PROVE  /\ qpc'[w] = "sleep" /\ ~closed' /\ ~flow' => Room'
                      /\ qpc'[w] = "asleep" =>
                           \/ Pending("wr")'
                           \/ ~closed' /\ flow' /\ (blocks' # <<>> \/ \E r \in Readers : qpc'[r] = "copy")
    BY <1>0 DEF WriterInv
  <2>1. w \in QioProcs /\ closed' = closed /\ flow' = flow /\ blocks' = blocks BY ProcFacts DEF flags, buffer
  <2>2. CASE w = p BY <2>1, <2>2
  <2>3. CASE w # p
    <3>1. qpc'[w] = qpc[w] BY <2>1, <2>3
    <3>2. \A r \in Readers : qpc'[r] = "copy" <=> qpc[r] = "copy" BY <1>6, ProcFacts
    <3> QED BY <1>1, <1>8, <2>1, <3>1, <3>2 DEF QueueInv, WriterInv
  <2> QED BY <2>2, <2>3
<1> QED BY <1>2, <1>3, <1>4, <1>7, <1>9 DEF QueueInv

\* The steps of a reader that leave the queue alone.
LEMMA QuietReader ==
  ASSUME QueueInv, NEW r \in Readers,
         \/ \E k \in 1..MaxSize : \E f \in {"qread", "qbread"} : read(r, f, k)
         \/ qlockr(r) \/ qwaitEof(r) \/ qwaitSleep(r) \/ readReturn(r) \/ qintr(r)
  PROVE  QueueInv'
<1>1. r \in QioProcs /\ r # null /\ r \notin Writers BY ProcFacts
<1>2. /\ rlock \in Readers \cup {null} /\ wlock \in Writers \cup {null} /\ qpc \in [QioProcs -> QPCs]
      /\ op \in [Readers -> {"qread", "qbread"}] /\ n \in [QioProcs -> 0..MaxSize] /\ MaxSize \in Nat
  BY QioAssumption DEF QueueInv, CallTypes
<1>3. UNCHANGED <<config, buffer, flags, hand, pend, active, next>> /\ UNCHANGED <<use, wlock>>
  BY <1>1 DEF read, qlockr, qwaitEof, qwaitSleep, readReturn, qintr, ghost, config, locks
<1>4. PICK l \in RPCs :
        /\ qpc' = [qpc EXCEPT ![r] = l] /\ qpc[r] # "copy" /\ l \notin {"copy", "sleep"}
        /\ l \notin {"idle", "lock"} => rlock' = r
        /\ l # "idle" => Reads
        /\ pend[r] # <<>> => l = "wake"
        /\ ReadersAlone /\ l = "asleep" => starve /\ ~notempty
        /\ rlock' \in {rlock, null, r} /\ (rlock' # rlock => rlock = null \/ qpc[r] \notin {"idle", "lock"})
        /\ op' \in [Readers -> {"qread", "qbread"}] /\ n' \in [QioProcs -> 0..MaxSize]
        /\ \A q \in Writers : n'[q] = n[q]
  <2>1. ReaderCalls /\ ReaderInv BY DEF QueueInv
  <2>2. CASE \E k \in 1..MaxSize : \E f \in {"qread", "qbread"} : read(r, f, k)
    <3>1. PICK k \in 1..MaxSize, f \in {"qread", "qbread"} : read(r, f, k) BY <2>2
    <3>2. qpc[r] = "idle" /\ Reads /\ qpc' = [qpc EXCEPT ![r] = "lock"] /\ rlock' = rlock
          /\ op' = [op EXCEPT ![r] = f] /\ n' = [n EXCEPT ![r] = k]
      BY <3>1 DEF read, Reads, Goto, locks
    <3>3. pend[r] = <<>> BY <2>1, <3>2 DEF ReaderCalls
    <3>4. k \in 0..MaxSize BY <1>2
    <3>5. "lock" \in RPCs BY DEF RPCs
    <3>6. op' \in [Readers -> {"qread", "qbread"}] /\ n' \in [QioProcs -> 0..MaxSize]
          /\ \A q \in Writers : n'[q] = n[q]
      BY <1>1, <1>2, <3>2, <3>4, ProcFacts
    <3> QED BY <3>2, <3>3, <3>5, <3>6
  <2>3. CASE qlockr(r)
    <3>1. qpc[r] = "lock" /\ rlock = null /\ rlock' = r /\ qpc' = [qpc EXCEPT ![r] = "wait"] /\ op' = op /\ n' = n
      BY <2>3 DEF qlockr, Goto, calls
    <3>2. pend[r] = <<>> /\ Reads BY <2>1, <3>1 DEF ReaderCalls
    <3>3. "wait" \in RPCs BY DEF RPCs
    <3> QED BY <1>2, <3>1, <3>2, <3>3
  <2>4. CASE qwaitSleep(r)
    <3>1. qpc[r] = "sleep" /\ rlock' = rlock /\ op' = op /\ n' = n
          /\ qpc' = [qpc EXCEPT ![r] = IF notempty THEN "wait" ELSE "asleep"]
      BY <2>4 DEF qwaitSleep, Goto, calls, locks
    <3>2. pend[r] = <<>> /\ Reads /\ rlock = r BY <2>1, <3>1 DEF ReaderCalls
    <3>3. ReadersAlone => notempty \/ starve BY <2>1, <3>1 DEF ReaderInv
    <3>4. "wait" \in RPCs /\ "asleep" \in RPCs BY DEF RPCs
    <3>5. CASE notempty BY <1>2, <3>1, <3>2, <3>4, <3>5
    <3>6. CASE ~notempty BY <1>2, <3>1, <3>2, <3>3, <3>4, <3>6
    <3> QED BY <3>5, <3>6
  <2>5. CASE qwaitEof(r) \/ readReturn(r) \/ qintr(r)
    <3>1. qunlockr(r) /\ qpc[r] \in {"wait", "sleep", "asleep", "wake"} /\ pend[r] = <<>>
      BY <2>1, <2>5 DEF qwaitEof, readReturn, qintr, ReaderCalls
    <3>2. rlock' = null /\ qpc' = [qpc EXCEPT ![r] = "idle"]
          /\ op' = [op EXCEPT ![r] = "qread"] /\ n' = [n EXCEPT ![r] = 0]
      BY <3>1 DEF qunlockr, Goto
    <3>3. "idle" \in RPCs /\ 0 \in 0..MaxSize BY <1>2 DEF RPCs
    <3>4. op' \in [Readers -> {"qread", "qbread"}] /\ n' \in [QioProcs -> 0..MaxSize]
          /\ \A q \in Writers : n'[q] = n[q]
      BY <1>1, <1>2, <3>2, <3>3, ProcFacts
    <3> QED BY <3>1, <3>2, <3>3, <3>4
  <2> QED BY <2>2, <2>3, <2>4, <2>5
<1>5. ASSUME NEW q \in Readers \ {r}, qpc[q] \notin {"idle", "lock"} PROVE rlock' = q
  <2>1. rlock = q /\ q # null BY <1>5, ProcFacts DEF QueueInv, ReaderCalls
  <2>2. qpc[r] \in {"idle", "lock"} BY <1>5, <2>1 DEF QueueInv, ReaderCalls
  <2> QED BY <1>4, <2>1, <2>2
<1>6. hand[r] = <<>> BY <1>4 DEF QueueInv, ReaderCalls
<1>7. ReaderCalls' /\ WriterCalls' /\ qpc' \in [QioProcs -> QPCs] /\ qpc'[r] = l /\ \A q \in QioProcs \ {r} : qpc'[q] = qpc[q]
  BY <1>3, <1>4, <1>5, <1>6, ReaderGoes
<1>8. CallTypes' BY <1>1, <1>2, <1>3, <1>4, <1>7 DEF CallTypes
<1> QED BY <1>1, <1>3, <1>4, <1>7, <1>8, QuietGoes

\* Those of a writer.
LEMMA QuietWriter ==
  ASSUME QueueInv, NEW w \in Writers,
         \/ \E k \in use.sizes : qwrite(w, k)
         \/ qlockw(w) \/ qbwriteClosed(w) \/ qbwriteDrop(w) \/ qbwriteFlow(w) \/ qbwriteSleep(w) \/ qintr(w)
  PROVE  QueueInv'
<1>1. w \in QioProcs /\ w # null /\ w \notin Readers BY ProcFacts
<1>2. /\ rlock \in Readers \cup {null} /\ wlock \in Writers \cup {null} /\ qpc \in [QioProcs -> QPCs]
      /\ op \in [Readers -> {"qread", "qbread"}] /\ n \in [QioProcs -> 0..MaxSize]
      /\ MaxSize \in Nat /\ Maxatomic \in Nat \ {0} /\ n[w] \in 0..MaxSize
  BY <1>1, QioAssumption DEF QueueInv, CallTypes
<1>3. UNCHANGED <<config, buffer, flags, hand, pend, active, next>> /\ UNCHANGED <<use, rlock, hand, op>>
  BY <1>1 DEF qwrite, qlockw, qbwriteClosed, qbwriteDrop, qbwriteFlow, qbwriteSleep, qintr, ghost, config, locks, calls
<1>4. PICK l \in WPCs :
        /\ qpc' = [qpc EXCEPT ![w] = l] /\ qpc[w] # "copy" /\ l \notin {"copy", "sleep"}
        /\ l \notin {"idle", "lock"} => wlock' = w
        /\ l # "idle" => uses("qwrite")
        /\ pend[w] # <<>> => l = "wake"
        /\ WritersAlone /\ l = "asleep" => ~closed /\ flow /\ blocks # <<>>
        /\ wlock' \in {wlock, null, w} /\ (wlock' # wlock => wlock = null \/ qpc[w] \notin {"idle", "lock"})
        /\ n' \in [QioProcs -> 0..MaxSize] /\ \A q \in Writers \ {w} : n'[q] = n[q]
        /\ NoEmpty /\ l \in {"lock", "put"} => n'[w] > 0
  <2>1. WriterCalls /\ WriterInv BY DEF QueueInv
  <2>2. "idle" \in WPCs /\ "lock" \in WPCs /\ "put" \in WPCs /\ "flow" \in WPCs /\ "setflow" \in WPCs /\ "asleep" \in WPCs
    BY DEF WPCs
  <2>3. CASE \E k \in use.sizes : qwrite(w, k)
    <3>1. PICK k \in use.sizes : qwrite(w, k) BY <2>3
    <3>2. qpc[w] = "idle" /\ uses("qwrite") /\ qpc' = [qpc EXCEPT ![w] = "lock"] /\ wlock' = wlock
          /\ n' = [n EXCEPT ![w] = k]
      BY <3>1 DEF qwrite, Goto, locks
    <3>3. pend[w] = <<>> BY <2>1, <3>2 DEF WriterCalls
    <3>4. use.sizes \subseteq 0..MaxSize /\ (NoEmpty => 0 \notin use.sizes) BY UseFacts, AloneFacts DEF QueueInv
    <3>5. k \in 0..MaxSize /\ (NoEmpty => k > 0) BY <1>2, <3>4
    <3>6. n' \in [QioProcs -> 0..MaxSize] /\ n'[w] = k /\ \A q \in Writers \ {w} : n'[q] = n[q]
      BY <1>1, <1>2, <3>2, <3>5, ProcFacts
    <3> QED BY <2>2, <3>2, <3>3, <3>5, <3>6
  <2>4. CASE qlockw(w)
    <3>1. qpc[w] = "lock" /\ wlock = null /\ wlock' = w /\ qpc' = [qpc EXCEPT ![w] = "put"] /\ n' = n
      BY <2>4 DEF qlockw, Goto, calls
    <3>2. pend[w] = <<>> /\ uses("qwrite") /\ (NoEmpty => n[w] > 0) BY <2>1, <3>1 DEF WriterCalls
    <3> QED BY <1>2, <2>2, <3>1, <3>2
  <2>5. CASE qbwriteSleep(w)
    <3>1. qpc[w] = "sleep" /\ wlock' = wlock /\ n' = n
          /\ qpc' = [qpc EXCEPT ![w] = IF qnotfull THEN "flow" ELSE "asleep"]
      BY <2>5 DEF qbwriteSleep, Goto, calls, locks
    <3>2. pend[w] = <<>> /\ uses("qwrite") /\ wlock = w BY <2>1, <3>1 DEF WriterCalls
    <3>3. CASE qnotfull BY <1>2, <2>2, <3>1, <3>2, <3>3
    <3>4. CASE ~qnotfull
      <4>1. ~(len < limit) /\ ~closed BY <3>4 DEF qnotfull
      <4>2. WritersAlone => flow BY <2>1, <3>1, <4>1 DEF WriterInv, Room
      <4>3. limit \in Nat /\ limit >= 2 BY UseFacts DEF QueueInv
      <4>4. blocks # <<>>
        <5>1. len = blockalloclen(blocks) BY DEF QueueInv, QueueTypes
        <5>2. blocks = <<>> => len = 0 BY <5>1, SumParts
        <5> QED BY <4>1, <4>3, <5>2
      <4> QED BY <1>2, <2>2, <3>1, <3>2, <3>4, <4>1, <4>2, <4>4
    <3> QED BY <3>3, <3>4
  <2>6. CASE qbwriteClosed(w) \/ qintr(w)
    <3>1. qunlockw(w) /\ qpc[w] \in {"put", "sleep", "asleep"} /\ pend[w] = <<>>
      BY <1>1, <2>1, <2>6 DEF qbwriteClosed, qintr, WriterCalls
    <3>2. wlock' = null /\ qpc' = [qpc EXCEPT ![w] = "idle"] /\ n' = [n EXCEPT ![w] = 0] BY <3>1 DEF qunlockw, Goto
    <3>3. 0 \in 0..MaxSize BY <1>2
    <3>4. n' \in [QioProcs -> 0..MaxSize] /\ \A q \in Writers \ {w} : n'[q] = n[q]
      BY <1>1, <1>2, <3>2, <3>3, ProcFacts
    <3> QED BY <2>2, <3>1, <3>2, <3>4
  <2>7. ASSUME NEW k \in 0..MaxSize, qbwriteReturn(w, k), qpc[w] \notin {"idle", "lock"}, pend[w] = <<>>
        PROVE  \E l \in {"idle", "lock"} :
                 /\ qpc' = [qpc EXCEPT ![w] = l] /\ wlock' = null
                 /\ n' \in [QioProcs -> 0..MaxSize] /\ \A q \in Writers \ {w} : n'[q] = n[q]
                 /\ l = "lock" => n'[w] > 0
    <3>1. CASE k = 0 \/ use.mode = "msg"
      <4>1. wlock' = null /\ qpc' = [qpc EXCEPT ![w] = "idle"] /\ n' = [n EXCEPT ![w] = 0]
        BY <2>7, <3>1 DEF qbwriteReturn, qunlockw, Goto
      <4>2. 0 \in 0..MaxSize BY <1>2
      <4>3. n' \in [QioProcs -> 0..MaxSize] /\ \A q \in Writers \ {w} : n'[q] = n[q]
        BY <1>1, <1>2, <4>1, <4>2, ProcFacts
      <4> QED BY <4>1, <4>3
    <3>2. CASE ~(k = 0 \/ use.mode = "msg")
      <4>1. wlock' = null /\ qpc' = [qpc EXCEPT ![w] = "lock"] /\ n' = [n EXCEPT ![w] = k]
        BY <2>7, <3>2 DEF qbwriteReturn, Goto
      <4>2. n' \in [QioProcs -> 0..MaxSize] /\ n'[w] = k /\ \A q \in Writers \ {w} : n'[q] = n[q]
        BY <1>1, <1>2, <4>1, ProcFacts
      <4>3. k > 0 BY <1>2, <3>2
      <4> QED BY <4>1, <4>2, <4>3
    <3> QED BY <3>1, <3>2
  <2>8. CASE qbwriteDrop(w)
    <3>1. qpc[w] = "put" /\ qbwriteReturn(w, n[w] - size(w)) BY <2>8 DEF qbwriteDrop
    <3>2. pend[w] = <<>> /\ uses("qwrite") /\ wlock = w BY <2>1, <3>1 DEF WriterCalls
    <3>3. n[w] - size(w) \in 0..MaxSize BY <1>2 DEF size, least
    <3>4. PICK l \in {"idle", "lock"} :
            /\ qpc' = [qpc EXCEPT ![w] = l] /\ wlock' = null
            /\ n' \in [QioProcs -> 0..MaxSize] /\ \A q \in Writers \ {w} : n'[q] = n[q]
            /\ l = "lock" => n'[w] > 0
      BY <2>7, <3>1, <3>2, <3>3
    <3> QED BY <2>2, <3>1, <3>2, <3>4
  <2>9. CASE qbwriteFlow(w)
    <3>1. qpc[w] \in {"flow", "wake"} /\ (qpc[w] = "wake" => pend[w] = <<>>) BY <2>9 DEF qbwriteFlow
    <3>2. pend[w] = <<>> /\ uses("qwrite") /\ wlock = w BY <2>1, <3>1 DEF WriterCalls
    <3>3. CASE noblock \/ qnotfull
      <4>1. qbwriteReturn(w, n[w]) BY <2>9, <3>3 DEF qbwriteFlow
      <4>2. PICK l \in {"idle", "lock"} :
              /\ qpc' = [qpc EXCEPT ![w] = l] /\ wlock' = null
              /\ n' \in [QioProcs -> 0..MaxSize] /\ \A q \in Writers \ {w} : n'[q] = n[q]
              /\ l = "lock" => n'[w] > 0
        BY <1>2, <2>7, <3>1, <3>2, <4>1
      <4> QED BY <2>2, <3>1, <3>2, <4>2
    <3>4. CASE ~(noblock \/ qnotfull)
      <4>1. qpc' = [qpc EXCEPT ![w] = "setflow"] /\ wlock' = wlock /\ n' = n BY <2>9, <3>4 DEF qbwriteFlow, Goto
      <4> QED BY <1>2, <2>2, <3>1, <3>2, <4>1
    <3> QED BY <3>3, <3>4
  <2> QED BY <2>3, <2>4, <2>5, <2>6, <2>8, <2>9
<1>5. ASSUME NEW q \in Writers \ {w}, qpc[q] \notin {"idle", "lock"} PROVE wlock' = q
  <2>1. wlock = q /\ q # null BY <1>5, ProcFacts DEF QueueInv, WriterCalls
  <2>2. qpc[w] \in {"idle", "lock"} BY <1>5, <2>1 DEF QueueInv, WriterCalls
  <2> QED BY <1>4, <2>1, <2>2
<1>6. ReaderCalls' /\ WriterCalls' /\ qpc' \in [QioProcs -> QPCs] /\ qpc'[w] = l /\ \A q \in QioProcs \ {w} : qpc'[q] = qpc[q]
  BY <1>3, <1>4, <1>5, WriterGoes
<1>7. CallTypes' BY <1>1, <1>2, <1>3, <1>4, <1>6 DEF CallTypes
<1> QED BY <1>1, <1>3, <1>4, <1>6, <1>7, QuietGoes

\* One reader and one writer at a time are past the QLocks, and only those
\* that the driver lets in.
LEMMA WhoCalls ==
  ASSUME QueueInv
  PROVE  /\ ~Reads => \A r \in Readers : qpc[r] = "idle" /\ hand[r] = <<>>
         /\ ~uses("qwrite") => \A w \in Writers : qpc[w] = "idle"
         /\ \A r \in Readers : qpc[r] \notin {"idle", "lock"} =>
              /\ Reads /\ rlock = r
              /\ \A q \in Readers \ {r} : qpc[q] \in {"idle", "lock"} /\ hand[q] = <<>>
         /\ \A w \in Writers : qpc[w] \notin {"idle", "lock"} =>
              uses("qwrite") /\ wlock = w /\ \A q \in Writers \ {w} : qpc[q] \in {"idle", "lock"}
<1>1. ReaderCalls /\ WriterCalls BY DEF QueueInv
<1>2. ~Reads => \A r \in Readers : qpc[r] = "idle" /\ hand[r] = <<>> BY <1>1 DEF ReaderCalls
<1>3. ~uses("qwrite") => \A w \in Writers : qpc[w] = "idle" BY <1>1 DEF WriterCalls
<1>4. ASSUME NEW r \in Readers, qpc[r] \notin {"idle", "lock"}
      PROVE  /\ Reads /\ rlock = r
             /\ \A q \in Readers \ {r} : qpc[q] \in {"idle", "lock"} /\ hand[q] = <<>>
  <2>1. Reads /\ rlock = r BY <1>1, <1>4 DEF ReaderCalls
  <2>2. ASSUME NEW q \in Readers \ {r} PROVE qpc[q] \in {"idle", "lock"} /\ hand[q] = <<>>
    <3>1. qpc[q] \in {"idle", "lock"} BY <1>1, <2>1 DEF ReaderCalls
    <3> QED BY <1>1, <3>1 DEF ReaderCalls
  <2> QED BY <2>1, <2>2
<1>5. ASSUME NEW w \in Writers, qpc[w] \notin {"idle", "lock"}
      PROVE  uses("qwrite") /\ wlock = w /\ \A q \in Writers \ {w} : qpc[q] \in {"idle", "lock"}
  BY <1>1, <1>5 DEF WriterCalls
<1> QED BY <1>2, <1>3, <1>4, <1>5

\* An agent at interrupt level leaves the calls alone.
LEMMA StillCalls ==
  ASSUME QueueInv, UNCHANGED <<use, locks, qpc, calls, hand>>, \A q \in QioProcs : pend'[q] = pend[q]
  PROVE  CallTypes' /\ ReaderCalls' /\ WriterCalls'
<1>1. CallTypes /\ ReaderCalls /\ WriterCalls BY DEF QueueInv
<1>2. UNCHANGED <<use, rlock, wlock, qpc, op, n, hand>> BY DEF locks, calls
<1>3. CallTypes' BY <1>1, <1>2 DEF CallTypes
<1>4. (\A f : uses(f)' <=> uses(f)) /\ (NoEmpty' <=> NoEmpty) BY SameUse
<1>5. Reads' <=> Reads BY SameUse
<1>6. ReaderCalls' BY <1>1, <1>2, <1>5, ProcFacts DEF ReaderCalls
<1>7. WriterCalls' BY <1>1, <1>2, <1>4, ProcFacts DEF WriterCalls
<1> QED BY <1>3, <1>6, <1>7

\* A queue that has just been opened.
LEMMA QueueInit == ASSUME QioInit PROVE QueueInv
<1>1. QueueTypes
  <2>1. use \in Uses /\ use.inilim \in Nat /\ use.noblock \in BOOLEAN /\ limit = use.inilim /\ noblock = use.noblock
    BY QioAssumption DEF QioInit
  <2>2. blocks = <<>> /\ len = 0 /\ dlen = 0 /\ next = 0 BY DEF QioInit
  <2>3. <<>> \in Seq(Blk) /\ <<>> \in Seq(Signals) OBVIOUS
  <2>4. hand \in [Readers -> Seq(Blk)] /\ pend \in [Agents -> Seq(Signals)] BY <2>3 DEF QioInit
  <2>5. closed \in BOOLEAN /\ starve \in BOOLEAN /\ flow \in BOOLEAN /\ active \in BOOLEAN BY DEF QioInit
  <2> QED BY <2>1, <2>2, <2>3, <2>4, <2>5, SumParts DEF QueueTypes
<1>2. \A p \in QioProcs : qpc[p] = "idle" BY DEF QioInit
<1>3. \A r \in Readers : qpc[r] = "idle" /\ hand[r] = <<>> /\ pend[r] = <<>> BY <1>2, ProcFacts DEF QioInit
<1>4. \A w \in Writers : qpc[w] = "idle" /\ pend[w] = <<>> BY <1>2, ProcFacts DEF QioInit
<1>5. CallTypes
  <2>1. 0 \in 0..MaxSize /\ "idle" \in QPCs BY QioAssumption DEF QPCs, RPCs
  <2> QED BY <2>1 DEF QioInit, CallTypes
<1>6. BlockSizes
  <2>1. blocks = <<>> /\ Len(<<>>) = 0 BY DEF QioInit
  <2> QED BY <1>3, <2>1 DEF BlockSizes
<1>7. ReaderCalls BY <1>3 DEF ReaderCalls, RPCs
<1>8. WriterCalls BY <1>4 DEF WriterCalls, WPCs
<1>9. ReaderInv /\ WriterInv BY <1>3, <1>4 DEF ReaderInv, WriterInv
<1>10. DeviceInv BY DEF QioInit, DeviceInv
<1> QED BY <1>1, <1>5, <1>6, <1>7, <1>8, <1>9, <1>10 DEF QueueInv

\* A reader asks for data, under the lock that it found the queue empty under.
LEMMA ReaderAsks ==
  ASSUME QueueInv, NEW r \in Readers, qwait(r)
  PROVE  QueueInv'
<1>1. /\ qpc[r] = "wait" /\ qpc' = [qpc EXCEPT ![r] = "sleep"] /\ starve' = TRUE
      /\ UNCHANGED <<use, limit, noblock, blocks, len, dlen, closed, flow, rlock, wlock, op, n, hand, pend, active, next>>
  BY DEF qwait, Goto, config, buffer, locks, calls, ghost
<1>0. /\ (ReadersAlone' <=> ReadersAlone) /\ (WritersAlone' <=> WritersAlone) /\ (DeviceAlone' <=> DeviceAlone)
      /\ (NoEmpty' <=> NoEmpty) /\ (Takes' <=> Takes) /\ (Reads' <=> Reads) /\ \A f : uses(f)' <=> uses(f)
  BY <1>1, SameUse
<1>2. rlock = r /\ Reads /\ \A q \in Readers \ {r} : qpc[q] \in {"idle", "lock"} BY <1>1, WhoCalls
<1>3. hand[r] = <<>> /\ pend[r] = <<>> BY <1>1 DEF QueueInv, ReaderCalls
<1>4. "sleep" \in RPCs /\ r \in QioProcs BY ProcFacts DEF RPCs
<1>5. /\ ReaderCalls' /\ WriterCalls' /\ qpc' \in [QioProcs -> QPCs]
      /\ qpc'[r] = "sleep" /\ \A q \in QioProcs \ {r} : qpc'[q] = qpc[q]
  BY <1>1, <1>2, <1>3, <1>4, ReaderGoes
<1>6. QueueTypes' BY <1>1 DEF QueueInv, QueueTypes
<1>7. CallTypes' BY <1>1, <1>5 DEF QueueInv, CallTypes
<1>8. BlockSizes' BY <1>0, <1>1 DEF QueueInv, BlockSizes
<1>9. DeviceInv'
  <2>1. ~DeviceAlone BY <1>2, AloneFacts DEF QueueInv
  <2> QED BY <1>0, <2>1 DEF DeviceInv
<1>10. ReaderInv'
  <2>1. ASSUME NEW q \in Readers
        PROVE  qpc'[q] # "asleep"
    <3>1. q \in QioProcs BY ProcFacts
    <3> QED BY <1>2, <1>5, <3>1
  <2> QED BY <1>1, <2>1 DEF ReaderInv
<1>11. WriterInv'
  <2>1. \A x : Pending(x)' <=> Pending(x) BY <1>1 DEF Pending
  <2>2. \A q \in Readers : qpc'[q] = "copy" <=> qpc[q] = "copy" BY <1>1, <1>5, ProcFacts
  <2>3. \A w \in Writers : qpc'[w] = qpc[w] BY <1>5, ProcFacts
  <2>4. Room' <=> Room BY <1>1, <2>2 DEF Room
  <2>5. WriterInv BY DEF QueueInv
  <2> QED BY <1>0, <1>1, <2>1, <2>2, <2>3, <2>4, <2>5 DEF WriterInv
<1> QED BY <1>5, <1>6, <1>7, <1>8, <1>9, <1>10, <1>11 DEF QueueInv

\* A writer asks to be restarted.
LEMMA WriterAsks ==
  ASSUME QueueInv, NEW w \in Writers, qbwriteSetflow(w)
  PROVE  QueueInv'
<1>1. /\ qpc[w] = "setflow" /\ qpc' = [qpc EXCEPT ![w] = "sleep"] /\ flow' = TRUE
      /\ UNCHANGED <<use, limit, noblock, blocks, len, dlen, closed, starve, rlock, wlock, op, n, hand, pend, active, next>>
  BY DEF qbwriteSetflow, Goto, config, buffer, locks, calls, ghost
<1>0. /\ (ReadersAlone' <=> ReadersAlone) /\ (WritersAlone' <=> WritersAlone) /\ (DeviceAlone' <=> DeviceAlone)
      /\ (NoEmpty' <=> NoEmpty) /\ (Takes' <=> Takes) /\ (Reads' <=> Reads) /\ \A f : uses(f)' <=> uses(f)
  BY <1>1, SameUse
<1>2. wlock = w /\ uses("qwrite") /\ \A q \in Writers \ {w} : qpc[q] \in {"idle", "lock"} BY <1>1, WhoCalls
<1>3. pend[w] = <<>> BY <1>1 DEF QueueInv, WriterCalls
<1>4. "sleep" \in WPCs /\ w \in QioProcs BY ProcFacts DEF WPCs
<1>5. /\ ReaderCalls' /\ WriterCalls' /\ qpc' \in [QioProcs -> QPCs]
      /\ qpc'[w] = "sleep" /\ \A q \in QioProcs \ {w} : qpc'[q] = qpc[q]
  BY <1>1, <1>2, <1>3, <1>4, WriterGoes
<1>6. QueueTypes' BY <1>1 DEF QueueInv, QueueTypes
<1>7. CallTypes' BY <1>1, <1>5 DEF QueueInv, CallTypes
<1>8. BlockSizes' BY <1>0, <1>1 DEF QueueInv, BlockSizes
<1>9. \A x : Pending(x)' <=> Pending(x) BY <1>1 DEF Pending
<1>10. DeviceInv' BY <1>0, <1>1, <1>9 DEF QueueInv, DeviceInv
<1>11. ReaderInv'
  <2>1. \A r \in Readers : qpc'[r] = qpc[r] BY <1>5, ProcFacts
  <2>2. notempty' <=> notempty BY <1>1 DEF notempty
  <2>3. ReaderInv BY DEF QueueInv
  <2> QED BY <1>0, <1>1, <1>9, <2>1, <2>2, <2>3 DEF ReaderInv
<1>12. WriterInv'
  <2>1. ASSUME NEW q \in Writers
        PROVE  qpc'[q] # "asleep"
    <3>1. q \in QioProcs BY ProcFacts
    <3> QED BY <1>2, <1>5, <3>1
  <2> QED BY <1>1, <2>1 DEF WriterInv
<1> QED BY <1>5, <1>6, <1>7, <1>8, <1>10, <1>11, <1>12 DEF QueueInv

-----------------------------------------------------------------------------
(* Stream queues: wakeups and kicks *)

\* What an agent has still to do but for the first, and what others have.
LEMMA PendTail ==
  ASSUME pend \in [Agents -> Seq(Signals)], NEW a \in Agents, pend[a] # <<>>,
         pend' = [pend EXCEPT ![a] = Tail(@)]
  PROVE  /\ pend' \in [Agents -> Seq(Signals)] /\ Head(pend[a]) \in Signals
         /\ \A b \in Agents : pend'[b] # <<>> => pend[b] # <<>>
         /\ \A x : Pending(x) /\ x # Head(pend[a]) => Pending(x)'
<1>1. PICK s \in Seq(Signals) : s = pend[a] OBVIOUS
<1>2. /\ Head(s) \in Signals /\ Tail(s) \in Seq(Signals)
      /\ ToSet(s) \subseteq ToSet(Tail(s)) \cup {Head(s)}
  BY <1>1, TailSet
<1>3. ToSet(s) = Range(s) /\ ToSet(Tail(s)) = Range(Tail(s)) BY DEF ToSet, Range
<1>4. pend'[a] = Tail(s) /\ \A b \in Agents \ {a} : pend'[b] = pend[b] BY <1>1
<1>5. pend' \in [Agents -> Seq(Signals)] BY <1>1, <1>2
<1>6. ASSUME NEW x, Pending(x), x # Head(pend[a]) PROVE Pending(x)'
  <2>1. PICK b \in Agents : x \in Range(pend[b]) BY <1>6 DEF Pending
  <2>2. x \in Range(pend'[b])
    <3>1. CASE b = a BY <1>1, <1>2, <1>3, <1>4, <1>6, <2>1, <3>1
    <3>2. CASE b # a BY <1>4, <2>1, <3>2
    <3> QED BY <3>1, <3>2
  <2> QED BY <2>2 DEF Pending
<1>7. \A b \in Agents : pend'[b] # <<>> => pend[b] # <<>> BY <1>4
<1> QED BY <1>1, <1>2, <1>5, <1>6, <1>7

\* A wakeup is lost to nobody: all who sleep there go on.
LEMMA QueueWakeup ==
  ASSUME QueueInv, NEW a \in Agents, wakeup(a)
  PROVE  QueueInv'
<1>1. /\ pend[a] # <<>> /\ Head(pend[a]) # "kick" /\ pend' = [pend EXCEPT ![a] = Tail(@)]
      /\ UNCHANGED <<use, limit, noblock, blocks, len, dlen, closed, starve, flow, rlock, wlock, op, n, hand, active, next>>
  BY DEF wakeup, config, buffer, flags, locks, calls, ghost
<1>0. /\ (ReadersAlone' <=> ReadersAlone) /\ (WritersAlone' <=> WritersAlone) /\ (DeviceAlone' <=> DeviceAlone)
      /\ (NoEmpty' <=> NoEmpty) /\ (Takes' <=> Takes) /\ (Reads' <=> Reads) /\ \A f : uses(f)' <=> uses(f)
  BY <1>1, SameUse
<1>2. PICK x : x = Head(pend[a]) OBVIOUS
<1>3. pend \in [Agents -> Seq(Signals)] BY DEF QueueInv, QueueTypes
<1>4. /\ pend' \in [Agents -> Seq(Signals)] /\ x \in {"rr", "wr"}
      /\ \A b \in Agents : pend'[b] # <<>> => pend[b] # <<>>
      /\ \A y : Pending(y) /\ y # x => Pending(y)'
  BY <1>1, <1>2, <1>3, PendTail DEF Signals
<1>5. qpc' = [p \in QioProcs |-> IF p \notin Sleeper(x) THEN qpc[p] ELSE IF p \in Readers THEN "wait" ELSE "flow"]
  BY <1>2 DEF wakeup
<1>6. \A p \in QioProcs : p \in Sleeper(x) <=> qpc[p] = "asleep" /\ p \in (IF x = "rr" THEN Readers ELSE Writers)
  BY ProcFacts DEF Sleeper
<1>7. /\ qpc' \in [QioProcs -> QPCs]
      /\ \A r \in Readers : qpc'[r] = IF qpc[r] = "asleep" /\ x = "rr" THEN "wait" ELSE qpc[r]
      /\ \A w \in Writers : qpc'[w] = IF qpc[w] = "asleep" /\ x = "wr" THEN "flow" ELSE qpc[w]
  <2>1. qpc' \in [QioProcs -> QPCs]
    <3>1. qpc \in [QioProcs -> QPCs] BY DEF QueueInv, CallTypes
    <3> QED BY <1>5, <3>1 DEF QPCs, RPCs, WPCs
  <2>2. ASSUME NEW r \in Readers PROVE qpc'[r] = IF qpc[r] = "asleep" /\ x = "rr" THEN "wait" ELSE qpc[r]
    <3>1. r \in QioProcs /\ r \notin Writers BY ProcFacts
    <3>2. r \in Sleeper(x) <=> qpc[r] = "asleep" /\ x = "rr" BY <1>6, <3>1
    <3> QED BY <1>5, <3>1, <3>2
  <2>3. ASSUME NEW w \in Writers PROVE qpc'[w] = IF qpc[w] = "asleep" /\ x = "wr" THEN "flow" ELSE qpc[w]
    <3>1. w \in QioProcs /\ w \notin Readers BY ProcFacts
    <3>2. w \in Sleeper(x) <=> qpc[w] = "asleep" /\ x = "wr" BY <1>4, <1>6, <3>1
    <3> QED BY <1>5, <3>1, <3>2
  <2> QED BY <2>1, <2>2, <2>3
<1>8. QueueTypes' BY <1>1, <1>4 DEF QueueInv, QueueTypes
<1>9. CallTypes' BY <1>1, <1>7 DEF QueueInv, CallTypes
<1>10. BlockSizes' BY <1>0, <1>1 DEF QueueInv, BlockSizes
<1>11. (\A f : uses(f)' <=> uses(f)) /\ (NoEmpty' <=> NoEmpty) BY <1>0
<1>12. ReaderCalls'
  <2> SUFFICES ASSUME NEW q \in Readers
               PROVE  /\ qpc'[q] \in RPCs
                      /\ qpc'[q] \notin {"idle", "lock"} => rlock' = q
                      /\ qpc'[q] # "idle" => Reads'
                      /\ hand'[q] # <<>> => qpc'[q] = "copy"
                      /\ pend'[q] # <<>> => qpc'[q] = "wake"
    BY DEF ReaderCalls
  <2>1. ReaderCalls /\ (Reads' <=> Reads) BY <1>0 DEF QueueInv
  <2>2. q \in Agents /\ (pend'[q] # <<>> => pend[q] # <<>>) BY <1>4, ProcFacts
  <2>3. qpc'[q] = IF qpc[q] = "asleep" /\ x = "rr" THEN "wait" ELSE qpc[q] BY <1>7
  <2>4. CASE qpc[q] = "asleep" /\ x = "rr" BY <1>1, <2>1, <2>2, <2>3, <2>4 DEF ReaderCalls, RPCs
  <2>5. CASE ~(qpc[q] = "asleep" /\ x = "rr") BY <1>1, <2>1, <2>2, <2>3, <2>5 DEF ReaderCalls
  <2> QED BY <2>4, <2>5
<1>13. WriterCalls'
  <2> SUFFICES ASSUME NEW q \in Writers
               PROVE  /\ qpc'[q] \in WPCs
                      /\ qpc'[q] \notin {"idle", "lock"} => wlock' = q
                      /\ qpc'[q] # "idle" => uses("qwrite")'
                      /\ NoEmpty' /\ qpc'[q] \in {"lock", "put"} => n'[q] > 0
                      /\ pend'[q] # <<>> => qpc'[q] = "wake"
    BY DEF WriterCalls
  <2>1. WriterCalls BY DEF QueueInv
  <2>2. q \in Agents /\ (pend'[q] # <<>> => pend[q] # <<>>) BY <1>4, ProcFacts
  <2>3. qpc'[q] = IF qpc[q] = "asleep" /\ x = "wr" THEN "flow" ELSE qpc[q] BY <1>7
  <2>4. CASE qpc[q] = "asleep" /\ x = "wr" BY <1>1, <1>11, <2>1, <2>2, <2>3, <2>4 DEF WriterCalls, WPCs
  <2>5. CASE ~(qpc[q] = "asleep" /\ x = "wr") BY <1>1, <1>11, <2>1, <2>2, <2>3, <2>5 DEF WriterCalls
  <2> QED BY <2>4, <2>5
<1>14. ReaderInv'
  <2> SUFFICES ASSUME ReadersAlone, NEW r \in Readers
               PROVE  /\ qpc'[r] = "sleep" => notempty' \/ starve'
                      /\ qpc'[r] = "asleep" => (starve' /\ ~notempty') \/ Pending("rr")'
    BY <1>0 DEF ReaderInv
  <2>1. ReaderInv /\ (notempty' <=> notempty) BY <1>1 DEF QueueInv, notempty
  <2>2. qpc'[r] = IF qpc[r] = "asleep" /\ x = "rr" THEN "wait" ELSE qpc[r] BY <1>7
  <2>3. CASE x = "rr" BY <1>1, <2>1, <2>2, <2>3 DEF ReaderInv
  <2>4. CASE x = "wr"
    <3>1. Pending("rr") => Pending("rr")' BY <1>4, <2>4
    <3> QED BY <1>1, <2>1, <2>2, <2>4, <3>1 DEF ReaderInv
  <2> QED BY <1>4, <2>3, <2>4
<1>15. WriterInv'
  <2> SUFFICES ASSUME WritersAlone, NEW w \in Writers
               PROVE  /\ qpc'[w] = "sleep" /\ ~closed' /\ ~flow' => Room'
                      /\ qpc'[w] = "asleep" =>
                           \/ Pending("wr")'
                           \/ ~closed' /\ flow' /\ (blocks' # <<>> \/ \E r \in Readers : qpc'[r] = "copy")
    BY <1>0 DEF WriterInv
  <2>1. \A r \in Readers : qpc'[r] = "copy" <=> qpc[r] = "copy" BY <1>7
  <2>2. WriterInv /\ (Room' <=> Room) BY <1>1, <2>1 DEF QueueInv, Room
  <2>3. qpc'[w] = IF qpc[w] = "asleep" /\ x = "wr" THEN "flow" ELSE qpc[w] BY <1>7
  <2>4. CASE x = "wr" BY <1>1, <2>1, <2>2, <2>3, <2>4 DEF WriterInv
  <2>5. CASE x = "rr"
    <3>1. Pending("wr") => Pending("wr")' BY <1>4, <2>5
    <3> QED BY <1>1, <2>1, <2>2, <2>3, <2>5, <3>1 DEF WriterInv
  <2> QED BY <1>4, <2>4, <2>5
<1>16. DeviceInv'
  <2>1. Pending("kick") => Pending("kick")' BY <1>4
  <2> QED BY <1>0, <1>1, <2>1 DEF QueueInv, DeviceInv
<1> QED BY <1>8, <1>9, <1>10, <1>12, <1>13, <1>14, <1>15, <1>16 DEF QueueInv

\* After a kick the device is going.
LEMMA QueueKick ==
  ASSUME QueueInv, NEW a \in Agents, kick(a)
  PROVE  QueueInv'
<1>1. /\ pend[a] # <<>> /\ Head(pend[a]) = "kick" /\ pend' = [pend EXCEPT ![a] = Tail(@)] /\ active' = TRUE
      /\ UNCHANGED <<use, limit, noblock, blocks, len, dlen, closed, starve, flow, rlock, wlock, qpc, op, n, hand, next>>
  BY DEF kick, config, buffer, flags, locks, calls, ghost
<1>0. /\ (ReadersAlone' <=> ReadersAlone) /\ (WritersAlone' <=> WritersAlone) /\ (DeviceAlone' <=> DeviceAlone)
      /\ (NoEmpty' <=> NoEmpty) /\ (Takes' <=> Takes) /\ (Reads' <=> Reads) /\ \A f : uses(f)' <=> uses(f)
  BY <1>1, SameUse
<1>2. pend \in [Agents -> Seq(Signals)] BY DEF QueueInv, QueueTypes
<1>3. /\ pend' \in [Agents -> Seq(Signals)]
      /\ \A b \in Agents : pend'[b] # <<>> => pend[b] # <<>>
      /\ Pending("rr") => Pending("rr")'
      /\ Pending("wr") => Pending("wr")'
  BY <1>1, <1>2, PendTail
<1>4. QueueTypes' BY <1>1, <1>3 DEF QueueInv, QueueTypes
<1>5. CallTypes' BY <1>1 DEF QueueInv, CallTypes
<1>6. BlockSizes' BY <1>0, <1>1 DEF QueueInv, BlockSizes
<1>7. ReaderCalls'
  <2>1. \A q \in Readers : pend'[q] # <<>> => pend[q] # <<>> BY <1>3, ProcFacts
  <2>2. ReaderCalls /\ (Reads' <=> Reads) BY <1>0 DEF QueueInv
  <2> QED BY <1>1, <2>1, <2>2 DEF ReaderCalls
<1>8. WriterCalls'
  <2>1. \A q \in Writers : pend'[q] # <<>> => pend[q] # <<>> BY <1>3, ProcFacts
  <2>2. WriterCalls BY DEF QueueInv
  <2> QED BY <1>0, <1>1, <2>1, <2>2 DEF WriterCalls
<1>9. ReaderInv'
  <2>1. ReaderInv /\ (notempty' <=> notempty) BY <1>1 DEF QueueInv, notempty
  <2> QED BY <1>0, <1>1, <1>3, <2>1 DEF ReaderInv
<1>10. WriterInv'
  <2>1. WriterInv /\ (Room' <=> Room) BY <1>1 DEF QueueInv, Room
  <2> QED BY <1>0, <1>1, <1>3, <2>1 DEF WriterInv
<1>11. DeviceInv' BY <1>1 DEF DeviceInv
<1> QED BY <1>4, <1>5, <1>6, <1>7, <1>8, <1>9, <1>10, <1>11 DEF QueueInv

-----------------------------------------------------------------------------
(* Stream queues: what the queue holds *)

\* Blocks as the invariant wants them.
Sized(bl) ==
  \A i \in 1..Len(bl) : Len(bl[i].d) < bl[i].a /\ (NoEmpty => bl[i].d # <<>>)

\* The counts follow when blocks are taken out.
LEMMA SetToParts ==
  ASSUME QueueTypes, NEW bl \in Seq(Blk), SetTo(bl)
  PROVE  blocks' = bl /\ len' = blockalloclen(bl) /\ dlen' = blocklen(bl)
<1>1. /\ blocks' = bl /\ len' = len - blockalloclen(blocks) + blockalloclen(bl)
      /\ dlen' = dlen - blocklen(blocks) + blocklen(bl)
  BY DEF SetTo
<1>2. blocks \in Seq(Blk) /\ len = blockalloclen(blocks) /\ dlen = blocklen(blocks) BY DEF QueueTypes
<1>3. blockalloclen(blocks) \in Nat /\ blocklen(blocks) \in Nat /\ blockalloclen(bl) \in Nat /\ blocklen(bl) \in Nat
  BY <1>2, SumConcat
<1> QED BY <1>1, <1>2, <1>3

\* Of lists put together too.
LEMMA SizedParts ==
  ASSUME QueueInv
  PROVE  /\ Sized(blocks) /\ Sized(<<>>)
         /\ \A bl, cl \in Seq(Blk) : Sized(bl) /\ Sized(cl) => Sized(bl \o cl)
<1>1. Sized(blocks) BY DEF QueueInv, BlockSizes, Sized
<1>2. Sized(<<>>) BY DEF Sized
<1>3. ASSUME NEW bl \in Seq(Blk), NEW cl \in Seq(Blk), Sized(bl), Sized(cl) PROVE Sized(bl \o cl)
  <2>1. PICK dl : dl = bl \o cl OBVIOUS
  <2>2. /\ Len(dl) = Len(bl) + Len(cl) /\ Len(bl) \in Nat /\ Len(cl) \in Nat
        /\ \A i \in 1..Len(bl) : dl[i] = bl[i]
        /\ \A i \in 1..Len(cl) : dl[Len(bl) + i] = cl[i]
    BY <2>1
  <2>3. ASSUME NEW i \in 1..Len(dl)
        PROVE  Len(dl[i].d) < dl[i].a /\ (NoEmpty => dl[i].d # <<>>)
    <3>1. CASE i <= Len(bl)
      <4>1. i \in 1..Len(bl) BY <2>2, <3>1
      <4> QED BY <1>3, <2>2, <4>1 DEF Sized
    <3>2. CASE ~(i <= Len(bl))
      <4>1. PICK j \in 1..Len(cl) : i = Len(bl) + j
        <5>1. i - Len(bl) \in 1..Len(cl) /\ i = Len(bl) + (i - Len(bl)) BY <2>2, <3>2
        <5> QED BY <5>1
      <4> QED BY <1>3, <2>2, <4>1 DEF Sized
    <3> QED BY <3>1, <3>2
  <2> QED BY <2>1, <2>3 DEF Sized
<1> QED BY <1>1, <1>2, <1>3

\* What a step at interrupt level has to show.
LEMMA AgentStep ==
  ASSUME QueueInv, NEW a \in Devs, pend[a] = <<>>, NEW t \in Seq(Signals), pend' = [pend EXCEPT ![a] = t],
         UNCHANGED <<use, locks, qpc, calls, hand>>,
         NEW bl \in Seq(Blk), blocks' = bl, len' = blockalloclen(bl), dlen' = blocklen(bl), Sized(bl),
         limit' \in {use.inilim} \cup use.limits, noblock' \in BOOLEAN, closed' \in BOOLEAN,
         starve' \in BOOLEAN, flow' \in BOOLEAN, active' \in BOOLEAN, next' \in Nat,
         ReaderInv', WriterInv', DeviceInv'
  PROVE  QueueInv'
<1>1. pend \in [Agents -> Seq(Signals)] /\ use \in Uses /\ hand \in [Readers -> Seq(Blk)] BY DEF QueueInv, QueueTypes
<1>2. a \in Agents /\ a \notin QioProcs BY ProcFacts DEF Devs
<1>3. pend' \in [Agents -> Seq(Signals)] /\ \A b \in Agents \ {a} : pend'[b] = pend[b] BY <1>1, <1>2, PendSet
<1>4. \A q \in QioProcs : pend'[q] = pend[q] BY <1>2, <1>3, ProcFacts
<1>5. CallTypes' /\ ReaderCalls' /\ WriterCalls' BY <1>4, StillCalls
<1>6. QueueTypes' BY <1>1, <1>3 DEF QueueTypes
<1>7. BlockSizes'
  <2>1. BlockSizes /\ (NoEmpty' <=> NoEmpty) BY SameUse DEF QueueInv
  <2> QED BY <2>1 DEF BlockSizes, Sized
<1> QED BY <1>5, <1>6, <1>7 DEF QueueInv

\* The restart of writers: those that sleep are woken, or there is still a
\* block whose removal wakes them; those on their way find room.
LEMMA RestartWriters ==
  ASSUME QueueInv, NEW a \in Agents, pend[a] = <<>>, NEW bound \in Nat, 1 <= bound, bound <= limit,
         NEW t \in Seq(Signals), "wr" \in Range(t), Restart(a, bound, t), UNCHANGED <<use, limit, closed>>,
         NEW bl \in Seq(Blk), blocks' = bl, len' = blockalloclen(bl), len' <= len \/ len' < limit \/ (Room => Room'),
         \A w \in Writers : qpc'[w] = qpc[w], WritersAlone => \A r \in Readers : qpc'[r] # "copy"
  PROVE  /\ WriterInv' /\ flow' \in BOOLEAN
         /\ \E u \in Seq(Signals) : pend' = [pend EXCEPT ![a] = u]
         /\ \A x : Pending(x) => Pending(x)'
<1>1. pend \in [Agents -> Seq(Signals)] /\ flow \in BOOLEAN BY DEF QueueInv, QueueTypes
<1>2. PICK wk \in BOOLEAN : wk = (flow /\ len' < bound) OBVIOUS
<1>3. flow' = (flow /\ ~wk) /\ pend' = [pend EXCEPT ![a] = IF wk THEN t ELSE <<>>] BY <1>2 DEF Restart
<1>4. PICK u \in Seq(Signals) : u = (IF wk THEN t ELSE <<>>) BY SignalSeqs
<1>5. pend' = [pend EXCEPT ![a] = u] BY <1>3, <1>4
<1>6. (\A x : Pending(x) => Pending(x)') /\ (wk => Pending("wr")') BY <1>1, <1>4, <1>5, PendSet
<1>7. limit \in Nat /\ len \in Nat /\ len' \in Nat
  <2>1. blocks \in Seq(Blk) /\ len = blockalloclen(blocks) BY DEF QueueInv, QueueTypes
  <2> QED BY <2>1, UseFacts, SumConcat DEF QueueInv
<1>8. WriterInv'
  <2> SUFFICES ASSUME WritersAlone, NEW w \in Writers
               PROVE  /\ qpc'[w] = "sleep" /\ ~closed' /\ ~flow' => Room'
                      /\ qpc'[w] = "asleep" =>
                           \/ Pending("wr")'
                           \/ ~closed' /\ flow' /\ (blocks' # <<>> \/ \E r \in Readers : qpc'[r] = "copy")
    BY SameUse DEF WriterInv
  <2>1. len' < limit => Room' BY DEF Room
  <2>2. ASSUME qpc'[w] = "sleep", ~closed', ~flow' PROVE Room'
    <3>1. CASE wk
      <4>0. len' < bound BY <1>2, <3>1
      <4>1. len' < limit BY <1>7, <4>0
      <4> QED BY <2>1, <4>1
    <3>2. CASE ~wk
      <4>1. ~flow BY <1>1, <1>3, <2>2, <3>2
      <4>2. Room BY <2>2, <4>1 DEF QueueInv, WriterInv
      <4>3. len < limit BY <4>2 DEF Room
      <4> QED BY <1>7, <2>1, <4>2, <4>3
    <3> QED BY <3>1, <3>2
  <2>3. ASSUME qpc'[w] = "asleep", ~Pending("wr")'
        PROVE  ~closed' /\ flow' /\ blocks' # <<>>
    <3>1. ~wk /\ ~Pending("wr") BY <1>6, <2>3
    <3>2. ~closed /\ flow BY <2>3, <3>1 DEF QueueInv, WriterInv
    <3>3. flow' /\ ~(len' < bound) BY <1>2, <1>3, <3>1, <3>2
    <3>4. len' # 0 BY <1>7, <3>3
    <3>5. blocks' # <<>> BY <3>4, SumParts
    <3> QED BY <3>2, <3>3, <3>5
  <2> QED BY <2>2, <2>3
<1>9. flow' \in BOOLEAN BY <1>3
<1> QED BY <1>5, <1>6, <1>8, <1>9

\* New data: readers that starve are woken, those on their way find it.
LEMMA FeedReaders ==
  ASSUME QueueInv, NEW a \in Agents, pend[a] = <<>>, NEW t \in Seq(Signals), pend' = [pend EXCEPT ![a] = t],
         starve => "rr" \in Range(t), blocks' # <<>>, UNCHANGED use,
         \A r \in Readers : qpc'[r] = qpc[r]
  PROVE  ReaderInv'
<1>1. pend \in [Agents -> Seq(Signals)] BY DEF QueueInv, QueueTypes
<1>2. (Pending("rr") => Pending("rr")') /\ (starve => Pending("rr")') BY <1>1, PendSet
<1>3. notempty' BY DEF notempty
<1>4. ReaderInv /\ (ReadersAlone' <=> ReadersAlone) BY SameUse DEF QueueInv
<1> QED BY <1>2, <1>3, <1>4 DEF ReaderInv

-----------------------------------------------------------------------------
(* Stream queues: open, close and control messages *)

\* qclose and qhangup wake everybody.
LEMMA QueueShut ==
  ASSUME QueueInv, qclose \/ qhangup
  PROVE  QueueInv'
<1>1. /\ pend["ctl"] = <<>> /\ closed' = TRUE /\ pend' = [pend EXCEPT !["ctl"] = <<"rr", "wr">>]
      /\ UNCHANGED <<use, limit, locks, qpc, calls, hand, active, next>>
  BY DEF qclose, qhangup, Free, config, ghost
<1>2. "ctl" \in Devs /\ "ctl" \in Agents BY ProcFacts DEF Devs
<1>3. <<"rr", "wr">> \in Seq(Signals) /\ "rr" \in Range(<<"rr", "wr">>) /\ "wr" \in Range(<<"rr", "wr">>)
  BY SignalSeqs DEF Signals
<1>4. QueueTypes BY DEF QueueInv
<1>5. /\ Pending("rr")' /\ Pending("wr")' /\ (Pending("kick") => Pending("kick")')
  BY <1>1, <1>2, <1>3, <1>4, PendSet DEF QueueTypes
<1>6. WriterInv' BY <1>1, <1>5 DEF WriterInv
<1>7. ReaderInv'
  <2>1. notempty' BY <1>1 DEF notempty
  <2> QED BY <1>5, <2>1 DEF ReaderInv
<1>8. PICK bl \in Seq(Blk) :
        /\ blocks' = bl /\ len' = blockalloclen(bl) /\ dlen' = blocklen(bl) /\ Sized(bl) /\ bl \in {blocks, <<>>}
        /\ noblock' \in BOOLEAN /\ starve' \in BOOLEAN /\ flow' \in BOOLEAN
  <2>1. CASE qclose
    <3>1. SetTo(<<>>) /\ <<>> \in Seq(Blk) BY <2>1 DEF qclose, Empty
    <3>2. blocks' = <<>> /\ len' = blockalloclen(<<>>) /\ dlen' = blocklen(<<>>) BY <1>4, <3>1, SetToParts
    <3>3. noblock' = FALSE /\ starve' = FALSE /\ flow' = FALSE BY <2>1 DEF qclose
    <3> QED BY <3>1, <3>2, <3>3, SizedParts
  <2>2. CASE qhangup
    <3>1. UNCHANGED <<blocks, len, dlen, noblock, starve, flow>> BY <2>2 DEF qhangup, config, buffer
    <3> QED BY <1>4, <3>1, SizedParts DEF QueueTypes
  <2> QED BY <2>1, <2>2
<1>9. DeviceInv'
  <2> SUFFICES ASSUME Takes, DeviceAlone, ~active, ~Pending("kick")'
               PROVE  blocks' = <<>> /\ (starve' \/ (closed' /\ ~uses("qiwrite")))
    BY <1>1, SameUse DEF DeviceInv
  <2>1. blocks = <<>> /\ (starve \/ (closed /\ ~uses("qiwrite"))) BY <1>5 DEF QueueInv, DeviceInv
  <2>2. CASE qclose
    <3>1. ~uses("qiwrite") BY <1>4, <2>2, AloneFacts DEF qclose, Free
    <3> QED BY <1>1, <1>8, <2>1, <3>1
  <2>3. CASE qhangup
    <3>1. starve' = starve BY <2>3 DEF qhangup
    <3> QED BY <1>1, <1>8, <2>1, <3>1
  <2> QED BY <2>2, <2>3
<1>10. limit' \in {use.inilim} \cup use.limits /\ closed' \in BOOLEAN /\ active' \in BOOLEAN /\ next' \in Nat
  BY <1>1, <1>4 DEF QueueTypes
<1>11. UNCHANGED <<use, locks, qpc, calls, hand>> BY <1>1
<1> QED BY <1>1, <1>2, <1>3, <1>6, <1>7, <1>8, <1>9, <1>10, <1>11, AgentStep

\* When the queue is opened again no writer is there, and a reader that
\* sleeps has been woken or still waits for data.
LEMMA QueueReopen ==
  ASSUME QueueInv, qreopen
  PROVE  QueueInv'
<1>1. /\ pend["ctl"] = <<>> /\ closed' = FALSE /\ starve' = TRUE /\ limit' = use.inilim /\ (use.excl => Idle)
      /\ UNCHANGED <<use, noblock, blocks, len, dlen, flow, locks, qpc, calls, hand, pend, active, next>>
  BY DEF qreopen, Free, buffer, ghost
<1>2. "ctl" \in Devs /\ "ctl" \in Agents BY ProcFacts DEF Devs
<1>3. QueueTypes /\ Sized(blocks) BY SizedParts DEF QueueInv
<1>4. pend' = [pend EXCEPT !["ctl"] = <<>>] BY <1>1, <1>2, <1>3 DEF QueueTypes
<1>5. \A x : Pending(x)' <=> Pending(x) BY <1>1 DEF Pending
<1>6. ReaderInv'
  <2> SUFFICES ASSUME ReadersAlone, NEW r \in Readers, qpc'[r] = "asleep"
               PROVE  ~notempty' \/ Pending("rr")'
    BY <1>1, SameUse DEF ReaderInv
  <2>1. ~notempty \/ Pending("rr") BY <1>1 DEF QueueInv, ReaderInv
  <2> QED BY <1>1, <1>5, <2>1 DEF notempty
<1>7. WriterInv'
  <2> SUFFICES ASSUME WritersAlone PROVE \A w \in Writers : qpc'[w] = "idle"
    BY <1>1, SameUse DEF WriterInv
  <2>1. Idle BY <1>1, <1>3, AloneFacts
  <2> QED BY <1>1, <2>1, ProcFacts DEF Idle
<1>9. DeviceInv'
  <2>1. Takes /\ DeviceAlone => active \/ Pending("kick") \/ blocks = <<>> BY DEF QueueInv, DeviceInv
  <2> QED BY <1>1, <1>5, <2>1, SameUse DEF DeviceInv
<1>10. /\ blocks \in Seq(Blk) /\ blocks' = blocks /\ len' = blockalloclen(blocks) /\ dlen' = blocklen(blocks)
       /\ limit' \in {use.inilim} \cup use.limits /\ noblock' \in BOOLEAN /\ closed' \in BOOLEAN
       /\ starve' \in BOOLEAN /\ flow' \in BOOLEAN /\ active' \in BOOLEAN /\ next' \in Nat
  BY <1>1, <1>3 DEF QueueTypes
<1>11. UNCHANGED <<use, locks, qpc, calls, hand>> /\ <<>> \in Seq(Signals) BY <1>1
<1> QED BY <1>1, <1>2, <1>3, <1>4, <1>6, <1>7, <1>9, <1>10, <1>11, AgentStep

\* qflush wakes the writers; readers do not have the queue for themselves.
LEMMA QueueFlush ==
  ASSUME QueueInv, qflush
  PROVE  QueueInv'
<1>1. /\ pend["ctl"] = <<>> /\ pend' = [pend EXCEPT !["ctl"] = <<"wr">>] /\ SetTo(<<>>) /\ uses("qflush")
      /\ UNCHANGED <<use, limit, noblock, closed, starve, flow, locks, qpc, calls, hand, active, next>>
  BY DEF qflush, Free, Empty, config, flags
<1>2. "ctl" \in Devs /\ "ctl" \in Agents BY ProcFacts DEF Devs
<1>3. QueueTypes /\ Sized(<<>>) BY SizedParts DEF QueueInv
<1>4. <<"wr">> \in Seq(Signals) /\ "wr" \in Range(<<"wr">>) BY SignalSeqs DEF Signals
<1>5. Pending("wr")' /\ (Pending("kick") => Pending("kick")')
  BY <1>1, <1>2, <1>3, <1>4, PendSet DEF QueueTypes
<1>6. <<>> \in Seq(Blk) /\ blocks' = <<>> /\ len' = blockalloclen(<<>>) /\ dlen' = blocklen(<<>>)
  <2>1. <<>> \in Seq(Blk) OBVIOUS
  <2> QED BY <1>1, <1>3, <2>1, SetToParts
<1>7. ~ReadersAlone /\ (WritersAlone => ~Reads) BY <1>1, <1>3, AloneFacts
<1>8. WritersAlone => \A r \in Readers : qpc'[r] = "idle" BY <1>1, <1>7, WhoCalls
<1>9. ReaderInv' BY <1>1, <1>7, SameUse DEF ReaderInv
<1>10. WriterInv'
  <2> SUFFICES ASSUME WritersAlone PROVE WriterInv'
    BY <1>1, SameUse DEF WriterInv
  <2>1. len' = 0 /\ limit' \in Nat /\ limit' >= 2 BY <1>1, <1>3, <1>6, SumParts, UseFacts
  <2>2. Room' BY <1>8, <2>1 DEF Room
  <2> QED BY <1>5, <2>2 DEF WriterInv
<1>11. DeviceInv' BY <1>1, <1>5, <1>6, SameUse DEF QueueInv, DeviceInv
<1>12. /\ limit' \in {use.inilim} \cup use.limits /\ noblock' \in BOOLEAN /\ closed' \in BOOLEAN
       /\ starve' \in BOOLEAN /\ flow' \in BOOLEAN /\ active' \in BOOLEAN /\ next' \in Nat
  BY <1>1, <1>3 DEF QueueTypes
<1>13. UNCHANGED <<use, locks, qpc, calls, hand>> BY <1>1
<1> QED BY <1>1, <1>2, <1>3, <1>4, <1>6, <1>9, <1>10, <1>11, <1>12, <1>13, AgentStep

\* The limit is not lowered under writers.
LEMMA QueueSet ==
  ASSUME QueueInv, (\E l \in use.limits : qsetlimit(l)) \/ (\E b \in BOOLEAN : qnoblock(b))
  PROVE  QueueInv'
<1>1. /\ pend["ctl"] = <<>> /\ noblock' \in BOOLEAN
      /\ limit' = limit \/ (limit' \in use.limits /\ uses("qsetlimit"))
      /\ UNCHANGED <<use, blocks, len, dlen, closed, starve, flow, locks, qpc, calls, hand, pend, active, next>>
  BY DEF QueueInv, QueueTypes, qsetlimit, qnoblock, Free, buffer, flags, ghost
<1>2. "ctl" \in Devs /\ "ctl" \in Agents BY ProcFacts DEF Devs
<1>3. QueueTypes /\ Sized(blocks) BY SizedParts DEF QueueInv
<1>4. pend' = [pend EXCEPT !["ctl"] = <<>>] BY <1>1, <1>2, <1>3 DEF QueueTypes
<1>5. \A x : Pending(x)' <=> Pending(x) BY <1>1 DEF Pending
<1>6. ReaderInv'
  <2>1. ReaderInv /\ (notempty' <=> notempty) BY <1>1 DEF QueueInv, notempty
  <2> QED BY <1>1, <1>5, <2>1, SameUse DEF ReaderInv
<1>7. WriterInv'
  <2> SUFFICES ASSUME WritersAlone PROVE WriterInv'
    BY <1>1, SameUse DEF WriterInv
  <2>1. limit \in Nat /\ limit' \in Nat /\ limit <= limit'
    <3>1. limit \in Nat /\ use.limits \subseteq Nat /\ \A l \in use.limits : limit <= l BY <1>3, UseFacts, AloneFacts
    <3> QED BY <1>1, <3>1
  <2>2. len \in Nat BY <1>3, SumConcat DEF QueueTypes
  <2>3. Room => Room'
    <3> SUFFICES ASSUME Room PROVE Room'
      OBVIOUS
    <3>1. len < limit /\ \A r \in Readers : qpc[r] = "copy" => len + blockalloclen(hand[r]) < limit BY DEF Room
    <3>2. ASSUME NEW r \in Readers, qpc'[r] = "copy" PROVE len' + blockalloclen(hand'[r]) < limit'
      <4>1. hand[r] \in Seq(Blk) BY <1>3 DEF QueueTypes
      <4>2. blockalloclen(hand[r]) \in Nat BY <4>1, SumConcat
      <4>3. len + blockalloclen(hand[r]) < limit BY <1>1, <3>1, <3>2
      <4>4. len + blockalloclen(hand[r]) < limit' BY <2>1, <2>2, <4>2, <4>3
      <4> QED BY <1>1, <4>4
    <3>3. len' < limit' BY <1>1, <2>1, <2>2, <3>1
    <3> QED BY <3>2, <3>3 DEF Room
  <2>4. WriterInv BY DEF QueueInv
  <2> QED BY <1>1, <1>5, <2>3, <2>4 DEF WriterInv
<1>8. DeviceInv' BY <1>1, <1>5, SameUse DEF QueueInv, DeviceInv
<1>9. /\ blocks \in Seq(Blk) /\ blocks' = blocks /\ len' = blockalloclen(blocks) /\ dlen' = blocklen(blocks)
      /\ limit' \in {use.inilim} \cup use.limits /\ closed' \in BOOLEAN
      /\ starve' \in BOOLEAN /\ flow' \in BOOLEAN /\ active' \in BOOLEAN /\ next' \in Nat
  BY <1>1, <1>3 DEF QueueTypes
<1>10. UNCHANGED <<use, locks, qpc, calls, hand>> /\ <<>> \in Seq(Signals) BY <1>1
<1> QED BY <1>1, <1>2, <1>3, <1>4, <1>6, <1>7, <1>8, <1>9, <1>10, AgentStep

-----------------------------------------------------------------------------
(* Stream queues: what is put in *)

\* A block made by allocb.
LEMMA DataBlock ==
  ASSUME NEW d \in Seq(0..(Wrap - 1))
  PROVE  /\ Block(d) \in Blk /\ Block(d).d = d /\ Block(d).a = Len(d) + 1 /\ Len(d) \in Nat
         /\ <<Block(d)>> \in Seq(Blk)
         /\ (NoEmpty => d # <<>>) => Sized(<<Block(d)>>)
<1>1. Len(d) \in Nat OBVIOUS
<1>2. Block(d) = [d |-> d, a |-> Len(d) + 1] BY DEF Block
<1>3. PICK b : b = Block(d) OBVIOUS
<1>4. b.d = d /\ b.a = Len(d) + 1 BY <1>2, <1>3
<1>5. b \in Blk BY <1>1, <1>2, <1>3 DEF Blk
<1>6. <<b>> \in Seq(Blk) BY <1>5
<1>7. ASSUME NoEmpty => d # <<>> PROVE Sized(<<b>>)
  <2>1. Len(<<b>>) = 1 /\ <<b>>[1] = b OBVIOUS
  <2>2. Len(b.d) < b.a BY <1>1, <1>4
  <2> QED BY <1>4, <1>7, <2>1, <2>2 DEF Sized
<1> QED BY <1>1, <1>3, <1>4, <1>5, <1>6, <1>7

\* New data.
LEMMA FreshBytes ==
  ASSUME QueueTypes, NEW k \in Nat
  PROVE  /\ Fresh(k) \in Seq(0..(Wrap - 1)) /\ Len(Fresh(k)) = k
         /\ Wrote(k) => next' \in Nat
<1>1. next \in Nat /\ Wrap \in Nat \ {0} BY QioAssumption DEF QueueTypes
<1>2. \A i \in 1..k : (next + i) % Wrap \in 0..(Wrap - 1) BY <1>1
<1>3. [i \in 1..k |-> (next + i) % Wrap] \in [1..k -> 0..(Wrap - 1)] BY <1>2
<1>4. Fresh(k) \in Seq(0..(Wrap - 1)) /\ Len(Fresh(k)) = k BY <1>3 DEF Fresh
<1>5. (next + k) % Wrap \in Nat BY <1>1
<1> QED BY <1>4, <1>5 DEF Wrote

\* The counts follow when blocks are put in.
LEMMA AddParts ==
  ASSUME QueueInv, NEW bl \in Seq(Blk), bl # <<>>, Sized(bl), qaddlist(bl)
  PROVE  \E cl \in Seq(Blk) :
           cl # <<>> /\ blocks' = cl /\ len' = blockalloclen(cl) /\ dlen' = blocklen(cl) /\ Sized(cl)
<1>1. blocks \in Seq(Blk) /\ len = blockalloclen(blocks) /\ dlen = blocklen(blocks) BY DEF QueueInv, QueueTypes
<1>2. blocks' = blocks \o bl /\ len' = len + blockalloclen(bl) /\ dlen' = dlen + blocklen(bl) BY DEF qaddlist
<1>3. PICK cl \in Seq(Blk) : cl = blocks \o bl
  <2>1. blocks \o bl \in Seq(Blk) BY <1>1
  <2> QED BY <2>1
<1>4. cl # <<>> BY <1>1, <1>3
<1>5. len' = blockalloclen(cl) /\ dlen' = blocklen(cl) BY <1>1, <1>2, <1>3, SumConcat
<1>6. Sized(cl) BY <1>1, <1>3, SizedParts
<1> QED BY <1>2, <1>3, <1>4, <1>5, <1>6

\* A part of a sequence.
LEMMA Slice ==
  ASSUME NEW S, NEW s \in Seq(S), NEW j \in 0..Len(s)
  PROVE  /\ SubSeq(s, 1, j) \in Seq(S) /\ Len(SubSeq(s, 1, j)) = j
         /\ SubSeq(s, j + 1, Len(s)) \in Seq(S) /\ Len(SubSeq(s, j + 1, Len(s))) = Len(s) - j
<1>1. Len(s) \in Nat /\ j \in Nat /\ j <= Len(s) OBVIOUS
<1>2. SubSeq(s, 1, j) \in Seq(S) /\ Len(SubSeq(s, 1, j)) = j BY <1>1
<1>3. SubSeq(s, j + 1, Len(s)) \in Seq(S)
      /\ Len(SubSeq(s, j + 1, Len(s))) = (IF j + 1 <= Len(s) THEN Len(s) - (j + 1) + 1 ELSE 0)
  BY <1>1
<1> QED BY <1>1, <1>2, <1>3

\* What qpass is handed.
LEMMA ListBlocks ==
  ASSUME QueueInv, ~NoEmpty, NEW k \in Nat, NEW j \in 0..k
  PROVE  List(k, j) \in Seq(Blk) /\ List(k, j) # <<>> /\ Sized(List(k, j))
<1>1. PICK d \in Seq(0..(Wrap - 1)) : d = Fresh(k) /\ Len(d) = k BY FreshBytes DEF QueueInv
<1>2. CASE j = 0
  <2>1. List(k, j) = <<Block(d)>> BY <1>1, <1>2 DEF List
  <2>2. <<Block(d)>> \in Seq(Blk) /\ Sized(<<Block(d)>>) BY DataBlock
  <2>3. <<Block(d)>> # <<>> OBVIOUS
  <2> QED BY <2>1, <2>2, <2>3
<1>3. CASE j # 0
  <2>1. PICK e \in Seq(0..(Wrap - 1)) : e = First(d, j)
    <3>1. SubSeq(d, 1, j) \in Seq(0..(Wrap - 1)) BY <1>1, Slice
    <3> QED BY <3>1 DEF First
  <2>2. PICK g \in Seq(0..(Wrap - 1)) : g = Rest(d, j)
    <3>1. SubSeq(d, j + 1, Len(d)) \in Seq(0..(Wrap - 1)) BY <1>1, Slice
    <3> QED BY <3>1 DEF Rest
  <2>3. List(k, j) = <<Block(e), Block(g)>> BY <1>1, <1>3, <2>1, <2>2 DEF List
  <2>4. PICK x \in Blk : x = Block(e) /\ <<x>> \in Seq(Blk) /\ Sized(<<x>>) BY DataBlock
  <2>5. PICK y \in Blk : y = Block(g) /\ <<y>> \in Seq(Blk) /\ Sized(<<y>>) BY DataBlock
  <2>6. <<x, y>> = <<x>> \o <<y>> /\ <<x, y>> # <<>> OBVIOUS
  <2>7. Sized(<<x>> \o <<y>>) BY <2>4, <2>5, SizedParts
  <2>8. <<x, y>> \in Seq(Blk) OBVIOUS
  <2>9. Sized(<<x, y>>) BY <2>6, <2>7
  <2> QED BY <2>3, <2>4, <2>5, <2>6, <2>8, <2>9
<1> QED BY <1>2, <1>3

\* qproduce, qpass and qiwrite.
LEMMA QueueIn ==
  ASSUME QueueInv,
         \E k \in use.sizes : \/ qproduce(k) \/ qiwrite(k)
                              \/ \E f \in {"qpass", "qpassnolim"}, j \in 0..k : qpass(f, k, j)
  PROVE  QueueInv'
<1>1. PICK k \in use.sizes : \/ qproduce(k) \/ qiwrite(k)
                             \/ \E f \in {"qpass", "qpassnolim"}, j \in 0..k : qpass(f, k, j)
  OBVIOUS
<1>2. QueueTypes /\ MaxSize \in Nat BY QioAssumption DEF QueueInv
<1>3. k \in Nat
  <2>1. use.sizes \subseteq 0..MaxSize BY <1>2, UseFacts
  <2> QED BY <1>2, <2>1
<1>4. /\ Free("in", "qproduce") \/ Free("in", "qpass") \/ Free("in", "qpassnolim") \/ Free("in", "qiwrite")
      /\ Wrote(k) /\ starve' = FALSE
      /\ UNCHANGED <<use, limit, noblock, closed, locks, qpc, calls, hand, active>>
      /\ flow' \in BOOLEAN
  <2>1. flow \in BOOLEAN BY <1>2 DEF QueueTypes
  <2>2. CASE qproduce(k) BY <2>2 DEF qproduce, Feed, Full, config
  <2>3. CASE qiwrite(k) BY <2>1, <2>3 DEF qiwrite, Feed, config
  <2>4. CASE \E f \in {"qpass", "qpassnolim"}, j \in 0..k : qpass(f, k, j) BY <2>4 DEF qpass, Feed, Full, config
  <2> QED BY <1>1, <2>2, <2>3, <2>4
<1>5. pend["in"] = <<>> /\ (uses("qproduce") \/ uses("qpass") \/ uses("qpassnolim") \/ uses("qiwrite"))
  BY <1>4 DEF Free
<1>6. ~WritersAlone /\ ~NoEmpty BY <1>2, <1>5, AloneFacts DEF NoEmpty
<1>7. PICK t \in Seq(Signals) :
        /\ pend' = [pend EXCEPT !["in"] = t]
        /\ starve => "rr" \in Range(t) /\ (DeviceAlone => "kick" \in Range(t))
  <2>1. PICK v \in Seq(Signals) : "rr" \in Range(v) /\ (DeviceAlone => "kick" \in Range(v)) /\ Feed("in", v)
    <3>0. /\ uses("qproduce") \/ uses("qpass") \/ uses("qpassnolim") => ~DeviceAlone
          /\ ~use.kick => ~DeviceAlone
      BY <1>2, AloneFacts
    <3>1. /\ <<"rr">> \in Seq(Signals) /\ "rr" \in Range(<<"rr">>)
          /\ <<"kick", "rr">> \in Seq(Signals) /\ "rr" \in Range(<<"kick", "rr">>) /\ "kick" \in Range(<<"kick", "rr">>)
      BY SignalSeqs DEF Signals
    <3>2. CASE qproduce(k) BY <3>0, <3>1, <3>2 DEF qproduce, Free
    <3>3. CASE qiwrite(k)
      <4>1. Feed("in", IF use.kick THEN <<"kick", "rr">> ELSE <<"rr">>) BY <3>3 DEF qiwrite
      <4>2. CASE use.kick BY <3>1, <4>1, <4>2
      <4>3. CASE ~use.kick BY <3>0, <3>1, <4>1, <4>3
      <4> QED BY <4>2, <4>3
    <3>4. CASE \E f \in {"qpass", "qpassnolim"}, j \in 0..k : qpass(f, k, j) BY <3>0, <3>1, <3>4 DEF qpass, Free
    <3> QED BY <1>1, <3>2, <3>3, <3>4
  <2>2. pend' = [pend EXCEPT !["in"] = IF starve THEN v ELSE <<>>] BY <2>1 DEF Feed
  <2>3. CASE starve BY <2>1, <2>2, <2>3
  <2>4. CASE ~starve BY <2>2, <2>4, SignalSeqs
  <2> QED BY <2>3, <2>4
<1>8. PICK bl \in Seq(Blk) : bl # <<>> /\ Sized(bl) /\ qaddlist(bl)
  <2>1. CASE qproduce(k) \/ qiwrite(k)
    <3>1. qaddlist(<<Block(Fresh(k))>>) BY <2>1 DEF qproduce, qiwrite
    <3>2. Fresh(k) \in Seq(0..(Wrap - 1)) BY <1>2, <1>3, FreshBytes
    <3>3. <<Block(Fresh(k))>> \in Seq(Blk) /\ Sized(<<Block(Fresh(k))>>) BY <1>6, <3>2, DataBlock
    <3>4. <<Block(Fresh(k))>> # <<>> OBVIOUS
    <3> QED BY <3>1, <3>3, <3>4
  <2>2. CASE \E f \in {"qpass", "qpassnolim"}, j \in 0..k : qpass(f, k, j)
    <3>1. PICK j \in 0..k : qaddlist(List(k, j)) BY <2>2 DEF qpass
    <3> QED BY <1>3, <1>6, <3>1, ListBlocks
  <2> QED BY <1>1, <2>1, <2>2
<1>9. PICK cl \in Seq(Blk) :
        cl # <<>> /\ blocks' = cl /\ len' = blockalloclen(cl) /\ dlen' = blocklen(cl) /\ Sized(cl)
  BY <1>8, AddParts
<1>10. "in" \in Devs /\ "in" \in Agents BY ProcFacts DEF Devs
<1>11. ReaderInv' BY <1>4, <1>5, <1>7, <1>9, <1>10, FeedReaders
<1>12. WriterInv' BY <1>4, <1>6, SameUse DEF WriterInv
<1>13. DeviceInv'
  <2> SUFFICES ASSUME Takes, DeviceAlone, ~active PROVE Pending("kick")'
    BY <1>4, SameUse DEF DeviceInv
  <2>1. uses("qiwrite") BY <1>2, <1>5, AloneFacts
  <2>2. Pending("kick") \/ starve BY <2>1 DEF QueueInv, DeviceInv
  <2> QED BY <1>2, <1>5, <1>7, <1>10, <2>2, PendSet DEF QueueTypes
<1>14. next' \in Nat BY <1>2, <1>3, <1>4, FreshBytes
<1>15. /\ limit' \in {use.inilim} \cup use.limits /\ noblock' \in BOOLEAN /\ closed' \in BOOLEAN
       /\ starve' \in BOOLEAN /\ active' \in BOOLEAN
  BY <1>2, <1>4 DEF QueueTypes
<1>16. UNCHANGED <<use, locks, qpc, calls, hand>> BY <1>4
<1> QED BY <1>4, <1>5, <1>7, <1>9, <1>10, <1>11, <1>12, <1>13, <1>14, <1>15, <1>16, AgentStep

\* qproduce finds no room.
LEMMA QueueFull ==
  ASSUME QueueInv, qproduceFull
  PROVE  QueueInv'
<1>1. /\ pend["in"] = <<>> /\ flow' = TRUE /\ uses("qproduce")
      /\ UNCHANGED <<use, limit, noblock, blocks, len, dlen, closed, starve, locks, qpc, calls, hand, pend, active, next>>
  BY DEF qproduceFull, Free, config, buffer, ghost
<1>2. "in" \in Devs /\ "in" \in Agents BY ProcFacts DEF Devs
<1>3. QueueTypes /\ Sized(blocks) BY SizedParts DEF QueueInv
<1>4. pend' = [pend EXCEPT !["in"] = <<>>] BY <1>1, <1>2, <1>3 DEF QueueTypes
<1>5. \A x : Pending(x)' <=> Pending(x) BY <1>1 DEF Pending
<1>6. ~DeviceAlone /\ ~WritersAlone BY <1>1, <1>3, AloneFacts
<1>7. ReaderInv'
  <2>1. ReaderInv /\ (notempty' <=> notempty) BY <1>1 DEF QueueInv, notempty
  <2> QED BY <1>1, <1>5, <2>1, SameUse DEF ReaderInv
<1>8. WriterInv' BY <1>1, <1>6, SameUse DEF WriterInv
<1>9. DeviceInv' BY <1>1, <1>6, SameUse DEF DeviceInv
<1>10. /\ blocks \in Seq(Blk) /\ blocks' = blocks /\ len' = blockalloclen(blocks) /\ dlen' = blocklen(blocks)
       /\ limit' \in {use.inilim} \cup use.limits /\ noblock' \in BOOLEAN /\ closed' \in BOOLEAN
       /\ starve' \in BOOLEAN /\ flow' \in BOOLEAN /\ active' \in BOOLEAN /\ next' \in Nat
  BY <1>1, <1>3 DEF QueueTypes
<1>11. UNCHANGED <<use, locks, qpc, calls, hand>> /\ <<>> \in Seq(Signals) BY <1>1
<1> QED BY <1>1, <1>2, <1>3, <1>4, <1>7, <1>8, <1>9, <1>10, <1>11, AgentStep

\* A process puts a block in: it wakes a reader and kicks the device if one of
\* them starves.
LEMMA QueuePut ==
  ASSUME QueueInv, NEW w \in Writers, qbwrite(w)
  PROVE  QueueInv'
<1>1. /\ qpc[w] = "put" /\ ~closed /\ qpc' = [qpc EXCEPT ![w] = "wake"] /\ starve' = FALSE
      /\ qaddlist(<<Block(Fresh(size(w)))>>) /\ Wrote(size(w)) /\ n' = [n EXCEPT ![w] = @ - size(w)]
      /\ UNCHANGED <<use, limit, noblock, closed, flow, rlock, wlock, op, hand, active>>
  BY DEF qbwrite, Goto, config, locks
<1>2. wlock = w /\ uses("qwrite") /\ \A q \in Writers \ {w} : qpc[q] \in {"idle", "lock"} BY <1>1, WhoCalls
<1>3. pend[w] = <<>> /\ (NoEmpty => n[w] > 0) BY <1>1 DEF QueueInv, WriterCalls
<1>4. QueueTypes /\ CallTypes /\ MaxSize \in Nat /\ Maxatomic \in Nat \ {0} BY QioAssumption DEF QueueInv
<1>5. w \in QioProcs /\ w \in Agents /\ w \notin Readers /\ "wake" \in WPCs BY ProcFacts DEF WPCs
<1>6. /\ n[w] \in 0..MaxSize /\ size(w) \in Nat /\ n[w] - size(w) \in 0..MaxSize
      /\ NoEmpty => size(w) > 0
  <2>1. n[w] \in 0..MaxSize BY <1>4, <1>5 DEF CallTypes
  <2>2. size(w) = IF n[w] < Maxatomic THEN n[w] ELSE Maxatomic BY DEF size, least
  <2> QED BY <1>3, <1>4, <2>1, <2>2
<1>7. PICK d \in Seq(0..(Wrap - 1)) : d = Fresh(size(w)) /\ Len(d) = size(w) BY <1>4, <1>6, FreshBytes
<1>8. <<Block(d)>> \in Seq(Blk) /\ Sized(<<Block(d)>>) /\ <<Block(d)>> # <<>>
  <2>1. NoEmpty => d # <<>> BY <1>6, <1>7
  <2> QED BY <2>1, DataBlock
<1>9. PICK cl \in Seq(Blk) :
        cl # <<>> /\ blocks' = cl /\ len' = blockalloclen(cl) /\ dlen' = blocklen(cl) /\ Sized(cl)
  BY <1>1, <1>7, <1>8, AddParts
<1>10. PICK t \in Seq(Signals) :
         /\ pend' = [pend EXCEPT ![w] = t]
         /\ starve => "rr" \in Range(t) /\ (use.kick => "kick" \in Range(t))
  <2>1. pend' = [pend EXCEPT ![w] =
          (IF use.kick /\ (starve \/ uses("Qkick")) THEN <<"kick">> ELSE <<>>) \o (IF starve THEN <<"rr">> ELSE <<>>)]
    BY DEF qbwrite
  <2>2. /\ <<>> \o <<>> = <<>> /\ <<"kick">> \o <<>> = <<"kick">> /\ <<>> \o <<"rr">> = <<"rr">>
        /\ <<"kick">> \o <<"rr">> = <<"kick", "rr">>
    <3>1. ASSUME NEW x \in Signals, NEW y \in Signals
          PROVE  <<x>> \o <<>> = <<x>> /\ <<>> \o <<y>> = <<y>> /\ <<x>> \o <<y>> = <<x, y>>
      <4>1. <<x>> \o <<>> = <<x>> OBVIOUS
      <4>2. <<>> \o <<y>> = <<y>> OBVIOUS
      <4>3. <<x>> \o <<y>> = <<x, y>> BY PairSeq
      <4> QED BY <4>1, <4>2, <4>3
    <3>2. <<>> \o <<>> = <<>> OBVIOUS
    <3>3. "kick" \in Signals /\ "rr" \in Signals BY DEF Signals
    <3> QED BY <3>1, <3>2, <3>3
  <2>3. /\ <<>> \in Seq(Signals) /\ <<"kick">> \in Seq(Signals) /\ <<"rr">> \in Seq(Signals)
        /\ <<"kick", "rr">> \in Seq(Signals) /\ "rr" \in Range(<<"rr">>)
        /\ "rr" \in Range(<<"kick", "rr">>) /\ "kick" \in Range(<<"kick", "rr">>)
    BY SignalSeqs DEF Signals
  <2>4. CASE starve
    <3>1. CASE use.kick
      <4>1. pend' = [pend EXCEPT ![w] = <<"kick", "rr">>] BY <2>1, <2>2, <2>4, <3>1
      <4> QED BY <2>3, <4>1
    <3>2. CASE ~use.kick
      <4>1. pend' = [pend EXCEPT ![w] = <<"rr">>] BY <2>1, <2>2, <2>4, <3>2
      <4> QED BY <2>3, <3>2, <4>1
    <3> QED BY <3>1, <3>2
  <2>5. CASE ~starve
    <3>1. CASE use.kick /\ uses("Qkick")
      <4>1. pend' = [pend EXCEPT ![w] = <<"kick">>] BY <2>1, <2>2, <2>5, <3>1
      <4> QED BY <2>3, <2>5, <4>1
    <3>2. CASE ~(use.kick /\ uses("Qkick"))
      <4>1. pend' = [pend EXCEPT ![w] = <<>>] BY <2>1, <2>2, <2>5, <3>2
      <4> QED BY <2>3, <2>5, <4>1
    <3> QED BY <3>1, <3>2
  <2> QED BY <2>4, <2>5
<1>11. /\ pend' \in [Agents -> Seq(Signals)] /\ \A b \in Agents \ {w} : pend'[b] = pend[b]
       /\ Pending("kick") => Pending("kick")'
       /\ starve /\ use.kick => Pending("kick")'
  BY <1>3, <1>4, <1>5, <1>10, PendSet DEF QueueTypes
<1>12. /\ ReaderCalls' /\ WriterCalls' /\ qpc' \in [QioProcs -> QPCs]
       /\ qpc'[w] = "wake" /\ \A q \in QioProcs \ {w} : qpc'[q] = qpc[q]
  <2>1. \A q \in QioProcs \ {w} : pend'[q] = pend[q] BY <1>11, ProcFacts
  <2>2. \A q \in Writers \ {w} : n'[q] = n[q] BY <1>1, <1>4, ProcFacts DEF CallTypes
  <2>3. UNCHANGED <<use, rlock, hand>> /\ wlock' = w BY <1>1, <1>2
  <2> QED BY <1>1, <1>2, <1>5, <2>1, <2>2, <2>3, WriterGoes
<1>13. CallTypes'
  <2>1. n' \in [QioProcs -> 0..MaxSize] BY <1>1, <1>4, <1>5, <1>6 DEF CallTypes
  <2> QED BY <1>1, <1>4, <1>12, <2>1 DEF CallTypes
<1>14. QueueTypes'
  <2>1. next' \in Nat BY <1>1, <1>4, <1>6, FreshBytes
  <2> QED BY <1>1, <1>4, <1>9, <1>11, <2>1 DEF QueueTypes
<1>15. BlockSizes' BY <1>1, <1>9, SameUse DEF QueueInv, BlockSizes, Sized
<1>16. ReaderInv'
  <2>1. \A r \in Readers : qpc'[r] = qpc[r] BY <1>12, ProcFacts
  <2> QED BY <1>1, <1>3, <1>5, <1>9, <1>10, <2>1, FeedReaders
<1>17. WriterInv'
  <2>1. \A q \in Writers : qpc'[q] \notin {"sleep", "asleep"} BY <1>2, <1>12, ProcFacts
  <2> QED BY <2>1 DEF WriterInv
<1>18. DeviceInv'
  <2>1. (Takes' <=> Takes) /\ (DeviceAlone' <=> DeviceAlone) BY <1>1, SameUse
  <2>2. DeviceAlone => use.kick BY <1>4, AloneFacts
  <2>3. Takes /\ DeviceAlone => active \/ Pending("kick") \/ starve BY <1>1 DEF QueueInv, DeviceInv
  <2> QED BY <1>1, <1>11, <2>1, <2>2, <2>3 DEF DeviceInv
<1> QED BY <1>12, <1>13, <1>14, <1>15, <1>16, <1>17, <1>18 DEF QueueInv

-----------------------------------------------------------------------------
(* Stream queues: what is taken out *)

\* What is left of a block.
LEMMA RestOf ==
  ASSUME NEW S, NEW d \in Seq(S), NEW j \in Nat
  PROVE  Rest(d, j) \in Seq(S) /\ Len(Rest(d, j)) <= Len(d) /\ (j < Len(d) => Rest(d, j) # <<>>)
<1>1. PICK e : e = SubSeq(d, j + 1, Len(d)) OBVIOUS
<1>2. Len(d) \in Nat OBVIOUS
<1>3. CASE j <= Len(d)
  <2>1. j \in 0..Len(d) BY <1>2, <1>3
  <2>2. e \in Seq(S) /\ Len(e) = Len(d) - j BY <1>1, <2>1, Slice
  <2>3. j < Len(d) => e # <<>> BY <1>2, <2>2
  <2> QED BY <1>1, <1>2, <2>2, <2>3 DEF Rest
<1>4. CASE ~(j <= Len(d))
  <2>1. e \in Seq(S) /\ Len(e) = 0 BY <1>1, <1>2, <1>4
  <2> QED BY <1>1, <1>2, <1>4, <2>1 DEF Rest
<1> QED BY <1>3, <1>4

\* The blocks after place i, and with a shortened one before them.
LEMMA CutSized ==
  ASSUME QueueInv, NEW i \in 1..Len(blocks)
  PROVE  LET r == SubSeq(blocks, i + 1, Len(blocks))
         IN  /\ blocks[i] \in Blk /\ blocks[i].d \in Seq(0..(Wrap - 1)) /\ blocks[i].a \in Nat
             /\ Len(blocks[i].d) < blocks[i].a
             /\ r \in Seq(Blk) /\ Sized(r) /\ blockalloclen(r) <= blockalloclen(blocks)
             /\ \A b \in Blk :
                  b.a <= blocks[i].a /\ Len(b.d) < b.a /\ (NoEmpty => b.d # <<>>) =>
                    /\ <<b>> \o r \in Seq(Blk) /\ Sized(<<b>> \o r)
                    /\ blockalloclen(<<b>> \o r) <= blockalloclen(blocks)
<1>1. PICK r : r = SubSeq(blocks, i + 1, Len(blocks)) OBVIOUS
<1>2. blocks \in Seq(Blk) /\ Sized(blocks) BY SizedParts DEF QueueInv, QueueTypes
<1>3. blocks[i] \in Blk BY <1>2
<1>4. blocks[i].d \in Seq(0..(Wrap - 1)) /\ blocks[i].a \in Nat BY <1>3 DEF Blk
<1>5. /\ r \in Seq(Blk) /\ blockalloclen(r) <= blockalloclen(blocks)
      /\ \A k \in 1..Len(r) : r[k] = blocks[i + k] /\ i + k \in 1..Len(blocks)
      /\ \A b \in Blk : b.a <= blocks[i].a => blockalloclen(<<b>> \o r) <= blockalloclen(blocks)
  BY <1>1, <1>2, CutAlloc
<1>6. Sized(r) BY <1>2, <1>5 DEF Sized
<1>7. ASSUME NEW b \in Blk, b.a <= blocks[i].a, Len(b.d) < b.a, NoEmpty => b.d # <<>>
      PROVE  /\ <<b>> \o r \in Seq(Blk) /\ Sized(<<b>> \o r)
             /\ blockalloclen(<<b>> \o r) <= blockalloclen(blocks)
  <2>1. <<b>> \in Seq(Blk) /\ Len(<<b>>) = 1 /\ <<b>>[1] = b OBVIOUS
  <2>2. <<b>> \o r \in Seq(Blk) BY <1>5, <2>1
  <2>3. Sized(<<b>>) BY <1>7, <2>1 DEF Sized
  <2>4. Sized(<<b>> \o r) BY <1>5, <1>6, <2>1, <2>3, SizedParts
  <2> QED BY <1>5, <1>7, <2>2, <2>4
<1>8. Len(blocks[i].d) < blocks[i].a BY <1>2 DEF Sized
<1> QED BY <1>1, <1>3, <1>4, <1>5, <1>6, <1>7, <1>8

\* The rest of the queue after the first block.
LEMMA TailIsCut ==
  ASSUME QueueTypes, blocks # <<>>
  PROVE  /\ 1 \in 1..Len(blocks) /\ Head(blocks) = blocks[1]
         /\ Tail(blocks) = SubSeq(blocks, 1 + 1, Len(blocks))
<1>1. PICK s \in Seq(Blk) : s = blocks BY DEF QueueTypes
<1>2. Len(s) \in Nat \ {0} /\ Head(s) = s[1] BY <1>1
<1>3. Tail(s) = SubSeq(s, 1 + 1, Len(s))
  <2>1. Tail(s) \in Seq(Blk) /\ Len(Tail(s)) = Len(s) - 1 /\ \A k \in 1..(Len(s) - 1) : Tail(s)[k] = s[k + 1]
    BY <1>1, <1>2
  <2>2. 1 \in 1..Len(s) BY <1>2
  <2>3. PICK r : r = SubSeq(s, 1 + 1, Len(s)) OBVIOUS
  <2>4. r \in Seq(Blk) /\ \A k \in 1..Len(r) : r[k] = s[1 + k] BY <2>2, <2>3, CutAlloc
  <2>5. Len(r) = Len(s) - 1
    <3>1. 1 \in 0..Len(s) BY <1>2
    <3> QED BY <2>3, <3>1, Slice
  <2>6. \A k \in 1..(Len(s) - 1) : Tail(s)[k] = r[k] BY <1>2, <2>1, <2>4, <2>5
  <2>7. Tail(s) = r BY <2>1, <2>4, <2>5, <2>6, SameSeq
  <2> QED BY <2>3, <2>7
<1> QED BY <1>1, <1>2, <1>3

\* The device takes from the front, and restarts writers.
LEMMA DeviceTakes ==
  ASSUME QueueInv, pend["out"] = <<>>, Takes \/ uses("qdiscard"), active \/ blocks # <<>>,
         NEW bl \in Seq(Blk), SetTo(bl), Sized(bl), blockalloclen(bl) <= blockalloclen(blocks),
         NEW bound \in {limit \div 2, limit}, Restart("out", bound, <<"wr">>),
         UNCHANGED <<config, closed, starve, locks, qpc, calls, hand, active, next>>
  PROVE  QueueInv'
<1>1. QueueTypes BY DEF QueueInv
<1>2. blocks' = bl /\ len' = blockalloclen(bl) /\ dlen' = blocklen(bl) BY <1>1, SetToParts
<1>3. "out" \in Devs /\ "out" \in Agents BY ProcFacts DEF Devs
<1>4. <<"wr">> \in Seq(Signals) /\ "wr" \in Range(<<"wr">>) BY SignalSeqs DEF Signals
<1>5. bound \in Nat /\ 1 <= bound /\ bound <= limit
  <2>1. limit \in Nat /\ limit >= 2 /\ limit \div 2 \in Nat /\ limit \div 2 >= 1 /\ limit \div 2 <= limit
    BY <1>1, UseFacts
  <2>2. CASE bound = limit BY <2>1, <2>2
  <2>3. CASE bound = limit \div 2
    <3>1. PICK h \in Nat : h = limit \div 2 /\ h >= 1 /\ h <= limit BY <2>1
    <3> QED BY <2>1, <2>3, <3>1
  <2> QED BY <2>2, <2>3
<1>6. UNCHANGED <<use, limit, noblock, closed, starve, locks, qpc, calls, hand, active, next>> BY DEF config
<1>7. ~ReadersAlone /\ (WritersAlone => \A r \in Readers : qpc'[r] = "idle") BY <1>1, <1>6, AloneFacts, WhoCalls
<1>8. len' <= len BY <1>1, <1>2 DEF QueueTypes
<1>9. /\ WriterInv' /\ flow' \in BOOLEAN /\ (Pending("kick") => Pending("kick")')
      /\ \E u \in Seq(Signals) : pend' = [pend EXCEPT !["out"] = u]
  <2>1. WritersAlone => \A r \in Readers : qpc'[r] # "copy" BY <1>7
  <2>2. \A w \in Writers : qpc'[w] = qpc[w] BY <1>6
  <2>3. UNCHANGED <<use, limit, closed>> BY <1>6
  <2> QED BY <1>2, <1>3, <1>4, <1>5, <1>8, <2>1, <2>2, <2>3, RestartWriters
<1>10. PICK u \in Seq(Signals) : pend' = [pend EXCEPT !["out"] = u] BY <1>9
<1>11. ReaderInv' BY <1>6, <1>7, SameUse DEF ReaderInv
<1>12. DeviceInv' BY <1>6, <1>9, SameUse DEF QueueInv, DeviceInv
<1>13. /\ limit' \in {use.inilim} \cup use.limits /\ noblock' \in BOOLEAN /\ closed' \in BOOLEAN
       /\ starve' \in BOOLEAN /\ active' \in BOOLEAN /\ next' \in Nat
  BY <1>1, <1>6 DEF QueueTypes
<1>14. UNCHANGED <<use, locks, qpc, calls, hand>> BY <1>6
<1> QED BY <1>2, <1>3, <1>9, <1>10, <1>11, <1>12, <1>13, <1>14, AgentStep

\* qget takes the first block.
LEMMA QueueGet ==
  ASSUME QueueInv, qget
  PROVE  QueueInv'
<1>1. /\ pend["out"] = <<>> /\ uses("qget") /\ active /\ blocks # <<>> /\ SetTo(Tail(blocks))
      /\ Restart("out", limit \div 2, <<"wr">>)
      /\ UNCHANGED <<config, closed, starve, locks, qpc, calls, hand, active, next>>
  BY DEF qget, Free
<1>2. QueueTypes BY DEF QueueInv
<1>3. Takes BY <1>1 DEF Takes
<1>4. PICK r : r = Tail(blocks) OBVIOUS
<1>5. r \in Seq(Blk) /\ Sized(r) /\ blockalloclen(r) <= blockalloclen(blocks)
  BY <1>1, <1>2, <1>4, TailIsCut, CutSized
<1> QED BY <1>1, <1>3, <1>4, <1>5, DeviceTakes

\* qconsume takes a part of a block; what it leaves is not empty.
LEMMA QueueConsume ==
  ASSUME QueueInv, NEW k \in 1..MaxSize, qconsume(k)
  PROVE  QueueInv'
<1>1. /\ pend["out"] = <<>> /\ uses("qconsume") /\ active /\ blocklen(blocks) > 0
      /\ Restart("out", limit \div 2, <<"wr">>)
      /\ UNCHANGED <<config, closed, starve, locks, qpc, calls, hand, active, next>>
  BY DEF qconsume, Free
<1>2. QueueTypes /\ blocks \in Seq(Blk) BY DEF QueueInv, QueueTypes
<1>3. Takes BY <1>1 DEF Takes
<1>4. k \in Nat BY QioAssumption
<1>5. PICK i : i = SelectInSeq(blocks, LAMBDA b : b.d # <<>>) OBVIOUS
<1>6. i \in 1..Len(blocks)
  <2>1. PICK I : I = {j \in 1..Len(blocks) : blocks[j].d # <<>>} OBVIOUS
  <2>2. I # {} /\ I \in SUBSET Nat BY <1>1, <1>2, <2>1, SumParts
  <2>3. Min(I) \in I BY <2>2, LeastIsMin
  <2>4. i = Min(I) BY <1>5, <2>1, <2>2 DEF SelectInSeq
  <2> QED BY <2>1, <2>3, <2>4
<1>7. PICK r : r = SubSeq(blocks, i + 1, Len(blocks)) OBVIOUS
<1>8. PICK b \in Blk : b = blocks[i] /\ b.d \in Seq(0..(Wrap - 1)) /\ b.a \in Nat /\ Len(b.d) < b.a
  BY <1>6, CutSized
<1>9. SetTo(IF use.mode = "msg" \/ Len(b.d) <= k THEN r ELSE <<[b EXCEPT !.d = Rest(@, k)]>> \o r)
  BY <1>5, <1>7, <1>8 DEF qconsume
<1>10. PICK bl \in Seq(Blk) : SetTo(bl) /\ Sized(bl) /\ blockalloclen(bl) <= blockalloclen(blocks)
  <2>1. CASE use.mode = "msg" \/ Len(b.d) <= k
    <3>1. SetTo(r) BY <1>9, <2>1
    <3> QED BY <1>6, <1>7, <3>1, CutSized
  <2>2. CASE ~(use.mode = "msg" \/ Len(b.d) <= k)
    <3>1. PICK c : c = [b EXCEPT !.d = Rest(@, k)] OBVIOUS
    <3>2. SetTo(<<c>> \o r) BY <1>9, <2>2, <3>1
    <3>3. PICK e \in Seq(0..(Wrap - 1)) : e = Rest(b.d, k) /\ Len(e) <= Len(b.d) /\ e # <<>>
      <4>1. Len(b.d) \in Nat BY <1>8
      <4>2. k < Len(b.d) BY <1>4, <2>2, <4>1
      <4> QED BY <1>4, <1>8, <4>2, RestOf
    <3>4. c = [d |-> e, a |-> b.a] BY <3>1, <3>3 DEF Blk
    <3>5. c \in Blk /\ c.d = e /\ c.a = b.a BY <1>8, <3>3, <3>4 DEF Blk
    <3>6. c.a <= blocks[i].a /\ Len(c.d) < c.a
      <4>1. Len(e) \in Nat /\ Len(b.d) \in Nat BY <1>8, <3>3
      <4> QED BY <1>8, <3>3, <3>5, <4>1
    <3>7. c.d # <<>> BY <3>3, <3>5
    <3> QED BY <1>6, <1>7, <3>2, <3>5, <3>6, <3>7, CutSized
  <2> QED BY <2>1, <2>2
<1> QED BY <1>1, <1>3, <1>10, DeviceTakes

\* qdiscard takes whole blocks and a part of one.
LEMMA QueueDiscard ==
  ASSUME QueueInv, NEW k \in 1..MaxSize, qdiscard(k)
  PROVE  QueueInv'
<1>1. /\ pend["out"] = <<>> /\ uses("qdiscard") /\ blocks # <<>>
      /\ Restart("out", limit, <<"wr">>)
      /\ UNCHANGED <<config, closed, starve, locks, qpc, calls, hand, active, next>>
  BY DEF qdiscard, Free
<1>2. QueueTypes /\ blocks \in Seq(Blk) BY DEF QueueInv, QueueTypes
<1>3. ~NoEmpty BY <1>1, <1>2, AloneFacts
<1>4. k \in Nat BY QioAssumption
<1> DEFINE upto(j) == blocklen(SubSeq(blocks, 1, j))
           kept == {j \in DOMAIN blocks : upto(j - 1) >= k \/ upto(j) > k}
           i == Min(kept)
           cut == IF upto(i - 1) < k THEN Rest(blocks[i].d, k - upto(i - 1)) ELSE blocks[i].d
           r == SubSeq(blocks, i + 1, Len(blocks))
<1>5. SetTo(IF kept = {} THEN <<>> ELSE <<[blocks[i] EXCEPT !.d = cut]>> \o r) BY DEF qdiscard
<1>6. PICK bl \in Seq(Blk) : SetTo(bl) /\ Sized(bl) /\ blockalloclen(bl) <= blockalloclen(blocks)
  <2>1. CASE kept = {}
    <3>1. SetTo(<<>>) BY <1>5, <2>1
    <3>2. <<>> \in Seq(Blk) OBVIOUS
    <3>3. blockalloclen(<<>>) = 0 /\ blockalloclen(blocks) \in Nat BY <1>2, SumParts, SumConcat
    <3>4. blockalloclen(<<>>) <= blockalloclen(blocks) BY <3>3
    <3> QED BY <3>1, <3>2, <3>4, SizedParts
  <2>2. CASE kept # {}
    <3>1. i \in 1..Len(blocks)
      <4>1. kept \in SUBSET Nat /\ kept \subseteq 1..Len(blocks) BY <1>2
      <4>2. Min(kept) \in kept BY <2>2, <4>1, LeastIsMin
      <4> QED BY <4>1, <4>2
    <3>2. PICK b \in Blk : b = blocks[i] /\ b.d \in Seq(0..(Wrap - 1)) /\ b.a \in Nat /\ Len(b.d) < b.a
      BY <3>1, CutSized
    <3>3. PICK e \in Seq(0..(Wrap - 1)) : e = cut /\ Len(e) <= Len(b.d)
      <4>1. Len(b.d) \in Nat /\ Len(b.d) <= Len(b.d) BY <3>2
      <4>2. CASE upto(i - 1) < k
        <5>1. i - 1 \in 0..Len(blocks) BY <1>2, <3>1
        <5>2. SubSeq(blocks, 1, i - 1) \in Seq(Blk) BY <1>2, <5>1, Slice
        <5>3. upto(i - 1) \in Nat BY <5>2, SumConcat
        <5>4. PICK j \in Nat : j = k - upto(i - 1)
          <6>1. k - upto(i - 1) \in Nat BY <1>4, <4>2, <5>3
          <6> QED BY <6>1
        <5>5. cut = Rest(b.d, j) BY <3>2, <4>2, <5>4
        <5> QED BY <3>2, <5>5, RestOf
      <4>3. CASE ~(upto(i - 1) < k)
        <5>1. cut = b.d BY <3>2, <4>3
        <5> QED BY <3>2, <4>1, <5>1
      <4> QED BY <4>2, <4>3
    <3>4. PICK c : c = [blocks[i] EXCEPT !.d = cut] OBVIOUS
    <3>5. SetTo(<<c>> \o r) BY <1>5, <2>2, <3>4
    <3>6. c = [d |-> e, a |-> b.a] BY <3>2, <3>3, <3>4 DEF Blk
    <3>7. c \in Blk /\ c.d = e /\ c.a = b.a BY <3>2, <3>3, <3>6 DEF Blk
    <3>8. c.a <= blocks[i].a /\ Len(c.d) < c.a
      <4>1. Len(e) \in Nat /\ Len(b.d) \in Nat BY <3>2, <3>3
      <4> QED BY <3>2, <3>3, <3>7, <4>1
    <3> QED BY <1>3, <3>1, <3>5, <3>7, <3>8, CutSized
  <2> QED BY <2>1, <2>2
<1> QED BY <1>1, <1>6, DeviceTakes

\* The device finds nothing: writers are not waiting for it then.
LEMMA QueueStarves ==
  ASSUME QueueInv, NEW f \in {"qget", "qconsume"}, qstarve(f)
  PROVE  QueueInv'
<1>1. /\ pend["out"] = <<>> /\ uses(f) /\ SetTo(<<>>) /\ starve' = TRUE /\ active' = FALSE
      /\ IF f = "qconsume" THEN blocklen(blocks) = 0 ELSE blocks = <<>>
      /\ UNCHANGED <<use, limit, noblock, closed, flow, locks, qpc, calls, hand, pend, next>>
  BY DEF qstarve, Free, config, ghost
<1>2. "out" \in Devs /\ "out" \in Agents BY ProcFacts DEF Devs
<1>3. QueueTypes /\ Sized(blocks) /\ Sized(<<>>) BY SizedParts DEF QueueInv
<1>4. ~ReadersAlone BY <1>1, <1>3, AloneFacts DEF Takes
<1>5. ASSUME WritersAlone PROVE blocks = <<>>
  <2>1. CASE f = "qconsume"
    <3>1. blocks \in Seq(Blk) /\ blocklen(blocks) = 0 /\ NoEmpty BY <1>1, <1>3, <1>5, <2>1 DEF QueueTypes, NoEmpty
    <3>2. ASSUME blocks # <<>> PROVE FALSE
      <4>1. 1 \in 1..Len(blocks) BY <3>1, <3>2
      <4>2. blocks[1].d # <<>> BY <1>3, <3>1, <4>1 DEF Sized
      <4>3. Len(blocks[1].d) <= 0 BY <3>1, <4>1, SumParts
      <4>4. blocks[1].d \in Seq(0..(Wrap - 1)) BY <4>1, CutSized
      <4> QED BY <4>2, <4>3, <4>4
    <3> QED BY <3>2
  <2>2. CASE f # "qconsume" BY <1>1, <2>2
  <2> QED BY <2>1, <2>2
<1>6. <<>> \in Seq(Blk) /\ blocks' = <<>> /\ len' = blockalloclen(<<>>) /\ dlen' = blocklen(<<>>)
  <2>1. <<>> \in Seq(Blk) OBVIOUS
  <2> QED BY <1>1, <1>3, <2>1, SetToParts
<1>8. pend' = [pend EXCEPT !["out"] = <<>>] BY <1>1, <1>2, <1>3 DEF QueueTypes
<1>10. ReaderInv' BY <1>1, <1>4, SameUse DEF ReaderInv
<1>11. WriterInv'
  <2> SUFFICES ASSUME WritersAlone PROVE WriterInv'
    BY <1>1, SameUse DEF WriterInv
  <2>0. len' = len BY <1>3, <1>5, <1>6 DEF QueueTypes
  <2>1. Pending("wr")' <=> Pending("wr") BY <1>1 DEF Pending
  <2>2. WriterInv /\ (Room' <=> Room) BY <1>1, <2>0 DEF QueueInv, Room
  <2> QED BY <1>1, <1>5, <1>6, <2>1, <2>2 DEF WriterInv
<1>12. DeviceInv' BY <1>1, <1>6 DEF DeviceInv
<1>13. /\ limit' \in {use.inilim} \cup use.limits /\ noblock' \in BOOLEAN /\ closed' \in BOOLEAN
       /\ starve' \in BOOLEAN /\ flow' \in BOOLEAN /\ active' \in BOOLEAN /\ next' \in Nat
  BY <1>1, <1>3 DEF QueueTypes
<1>14. UNCHANGED <<use, locks, qpc, calls, hand>> /\ <<>> \in Seq(Signals) BY <1>1
<1> QED BY <1>1, <1>2, <1>3, <1>6, <1>8, <1>10, <1>11, <1>12, <1>13, <1>14, AgentStep

\* What a step of the reader in the queue has to show: the others do not wait
\* for data, and no device has the queue for itself.
LEMMA ReaderStepInv ==
  ASSUME QueueInv, NEW r \in Readers, qpc[r] \in {"wait", "copy"}, NEW l \in RPCs,
         qpc' = [qpc EXCEPT ![r] = l], l \in {"wait", "copy", "wake"},
         UNCHANGED <<config, closed, starve, locks, calls, active, next>>,
         NEW h \in Seq(Blk), hand' = [hand EXCEPT ![r] = h], h # <<>> => l = "copy",
         \A i \in 1..Len(h) : Len(h[i].d) < h[i].a,
         NEW t \in Seq(Signals), pend' = [pend EXCEPT ![r] = t], t # <<>> => l = "wake",
         NEW bl \in Seq(Blk), SetTo(bl), Sized(bl), flow' \in BOOLEAN, WriterInv'
  PROVE  QueueInv'
<1>1. QueueTypes /\ CallTypes BY DEF QueueInv
<1>2. Reads /\ rlock = r /\ \A q \in Readers \ {r} : qpc[q] \in {"idle", "lock"} BY WhoCalls
<1>3. r \in QioProcs /\ r \in Agents /\ r \notin Writers BY ProcFacts
<1>4. UNCHANGED <<use, limit, noblock, closed, starve, rlock, wlock, op, n, active, next>> BY DEF config, locks, calls
<1>5. pend[r] = <<>> BY DEF QueueInv, ReaderCalls
<1>6. pend' \in [Agents -> Seq(Signals)] /\ pend'[r] = t /\ \A b \in Agents \ {r} : pend'[b] = pend[b]
  BY <1>1, <1>3, <1>5, PendSet DEF QueueTypes
<1>7. hand' \in [Readers -> Seq(Blk)] /\ hand'[r] = h /\ \A q \in Readers \ {r} : hand'[q] = hand[q]
  BY <1>1 DEF QueueTypes
<1>8. /\ ReaderCalls' /\ WriterCalls' /\ qpc' \in [QioProcs -> QPCs]
      /\ qpc'[r] = l /\ \A q \in QioProcs \ {r} : qpc'[q] = qpc[q]
  <2>1. \A q \in QioProcs \ {r} : pend'[q] = pend[q] BY <1>6, ProcFacts
  <2>2. rlock' = r /\ UNCHANGED <<use, wlock>> BY <1>2, <1>4
  <2>3. \A q \in Writers : n'[q] = n[q] BY <1>4
  <2> QED BY <1>2, <1>6, <1>7, <2>1, <2>2, <2>3, ReaderGoes
<1>9. CallTypes' BY <1>1, <1>4, <1>8 DEF CallTypes
<1>10. blocks' = bl /\ len' = blockalloclen(bl) /\ dlen' = blocklen(bl) BY <1>1, SetToParts
<1>11. QueueTypes' BY <1>1, <1>4, <1>6, <1>7, <1>10 DEF QueueTypes
<1>12. BlockSizes'
  <2>1. ASSUME NEW q \in Readers, NEW i \in 1..Len(hand'[q]) PROVE Len(hand'[q][i].d) < hand'[q][i].a
    <3>1. CASE q = r BY <1>7, <2>1, <3>1
    <3>2. CASE q # r BY <1>7, <2>1, <3>2 DEF QueueInv, BlockSizes
    <3> QED BY <3>1, <3>2
  <2> QED BY <1>4, <1>10, <2>1, SameUse DEF BlockSizes, Sized
<1>13. ReaderInv'
  <2>1. \A q \in Readers : qpc'[q] \notin {"sleep", "asleep"} BY <1>2, <1>8, ProcFacts
  <2> QED BY <2>1 DEF ReaderInv
<1>14. DeviceInv'
  <2>1. ~DeviceAlone BY <1>1, <1>2, AloneFacts
  <2> QED BY <1>4, <2>1, SameUse DEF DeviceInv
<1> QED BY <1>8, <1>9, <1>11, <1>12, <1>13, <1>14 DEF QueueInv

\* qread frees an empty block: writers do not have such a queue for themselves.
LEMMA QueueReadEmpty ==
  ASSUME QueueInv, NEW r \in Readers, qreadEmpty(r)
  PROVE  QueueInv'
<1>1. /\ qpc[r] = "wait" /\ blocks # <<>> /\ use.mode = "coalesce" /\ SetTo(Tail(blocks))
      /\ UNCHANGED <<config, closed, starve, flow, locks, qpc, calls, hand, pend, active, next>>
  BY DEF qreadEmpty, flags, ghost
<1>2. QueueTypes /\ CallTypes /\ ReaderCalls BY DEF QueueInv
<1>3. r \in QioProcs /\ r \in Agents BY ProcFacts
<1>4. hand[r] = <<>> /\ pend[r] = <<>> BY <1>1, <1>2 DEF ReaderCalls
<1>5. qpc' = [qpc EXCEPT ![r] = "wait"] BY <1>1, <1>2, <1>3 DEF CallTypes
<1>6. hand' = [hand EXCEPT ![r] = <<>>] /\ pend' = [pend EXCEPT ![r] = <<>>]
  BY <1>1, <1>2, <1>3, <1>4 DEF QueueTypes
<1>7. PICK bl : bl = Tail(blocks) OBVIOUS
<1>8. bl \in Seq(Blk) /\ Sized(bl) /\ SetTo(bl) BY <1>1, <1>2, <1>7, TailIsCut, CutSized
<1>9. WriterInv'
  <2>1. ~WritersAlone BY <1>1, <1>2, AloneFacts
  <2> QED BY <1>1, <2>1, SameUse DEF WriterInv, config
<1>10. "wait" \in RPCs /\ <<>> \in Seq(Blk) /\ <<>> \in Seq(Signals) /\ Len(<<>>) = 0 BY DEF RPCs
<1>11. flow' \in BOOLEAN BY <1>1, <1>2 DEF QueueTypes
<1>12. \A i \in 1..Len(<<>>) : Len(<<>>[i].d) < <<>>[i].a BY <1>10
<1>13. UNCHANGED <<config, closed, starve, locks, calls, active, next>> BY <1>1
<1> QED BY <1>1, <1>5, <1>6, <1>8, <1>9, <1>10, <1>11, <1>12, <1>13, ReaderStepInv

\* A read removes at least one block.
LEMMA ReadBlocks ==
  ASSUME QueueTypes, blocks # <<>>, NEW k \in Nat
  PROVE  qreadBlocks(k) \in 1..Len(blocks)
<1>1. blocks \in Seq(Blk) /\ Len(blocks) \in Nat \ {0} /\ DOMAIN blocks = 1..Len(blocks) BY DEF QueueTypes
<1>2. CASE use.mode # "coalesce"
  <2>1. qreadBlocks(k) = 1 BY <1>2 DEF qreadBlocks
  <2> QED BY <1>1, <2>1
<1>3. CASE use.mode = "coalesce"
  <2> DEFINE upto(j) == blocklen(SubSeq(blocks, 1, j))
             I == {i \in 1..Len(blocks) : i = Len(blocks) \/ upto(i + 1) > k}
             P(i) == /\ \A j \in 2..i : upto(j) <= k
                     /\ i = Len(blocks) \/ upto(i + 1) > k
  <2>1. qreadBlocks(k) = CHOOSE i \in DOMAIN blocks : P(i) BY <1>3 DEF qreadBlocks
  <2>2. I \in SUBSET Nat /\ Len(blocks) \in I BY <1>1
  <2> HIDE DEF I
  <2>3. PICK i \in Nat : i \in I /\ \A j \in I : i <= j BY <2>2, LeastIndex
  <2>4. ASSUME NEW j \in 2..i PROVE upto(j) <= k
    <3>0. i \in 1..Len(blocks) BY <2>3 DEF I
    <3>1. j \in 1..Len(blocks) /\ 2 <= j /\ j <= i BY <1>1, <3>0
    <3>2. j - 1 \in 1..Len(blocks) /\ j - 1 < i BY <1>1, <3>1
    <3>3. j - 1 \notin I BY <2>3, <3>1, <3>2
    <3>4. (j - 1) + 1 = j BY <3>1
    <3>5. ~(upto(j) > k) BY <3>2, <3>3, <3>4 DEF I
    <3>6. j \in 0..Len(blocks) BY <3>1
    <3>7. SubSeq(blocks, 1, j) \in Seq(Blk) BY <1>1, <3>6, Slice
    <3>8. upto(j) \in Nat BY <3>7, SumConcat
    <3> QED BY <3>5, <3>8
  <2>5. P(i) /\ i \in DOMAIN blocks BY <1>1, <2>3, <2>4 DEF I
  <2> HIDE DEF P
  <2>6. (CHOOSE j \in DOMAIN blocks : P(j)) \in DOMAIN blocks BY <2>5
  <2> QED BY <1>1, <2>1, <2>6
<1> QED BY <1>2, <1>3

\* What a reader has in its hands still counts as room taken.
LEMMA QueueRead ==
  ASSUME QueueInv, NEW r \in Readers, qread(r)
  PROVE  QueueInv'
<1>1. /\ qpc[r] = "wait" /\ blocks # <<>> /\ qpc' = [qpc EXCEPT ![r] = "copy"]
      /\ UNCHANGED <<config, closed, starve, flow, locks, calls, pend, active, next>>
  BY DEF qread, Goto, flags
<1>2. QueueTypes /\ CallTypes /\ ReaderCalls /\ blocks \in Seq(Blk) BY DEF QueueInv, QueueTypes
<1>3. r \in QioProcs /\ r \in Agents /\ r \notin Writers BY ProcFacts
<1>4. pend[r] = <<>> BY <1>1, <1>2 DEF ReaderCalls
<1>5. n[r] \in Nat
  <2>1. n[r] \in 0..MaxSize /\ MaxSize \in Nat BY <1>2, <1>3, QioAssumption DEF CallTypes
  <2> QED BY <2>1
<1>6. PICK i \in 1..Len(blocks) : i = qreadBlocks(n[r]) BY <1>1, <1>2, <1>5, ReadBlocks
<1>7. PICK h : h = SubSeq(blocks, 1, i) OBVIOUS
<1>8. PICK bl : bl = SubSeq(blocks, i + 1, Len(blocks)) OBVIOUS
<1>9. hand' = [hand EXCEPT ![r] = h] /\ SetTo(bl) BY <1>6, <1>7, <1>8 DEF qread
<1>10. /\ h \in Seq(Blk) /\ h # <<>> /\ bl \in Seq(Blk) /\ blockalloclen(h) + blockalloclen(bl) = blockalloclen(blocks)
       /\ blockalloclen(bl) <= blockalloclen(blocks)
       /\ \A k \in 1..Len(h) : h[k] = blocks[k] /\ k \in 1..Len(blocks)
  BY <1>2, <1>7, <1>8, CutAlloc
<1>11. Sized(bl) BY <1>8, CutSized
<1>12. \A k \in 1..Len(h) : Len(h[k].d) < h[k].a BY <1>10 DEF QueueInv, BlockSizes
<1>13. len' = blockalloclen(bl) /\ blocks' = bl BY <1>2, <1>9, <1>10, SetToParts
<1>14. WriterInv'
  <2>1. qpc'[r] = "copy" /\ \A q \in QioProcs \ {r} : qpc'[q] = qpc[q] BY <1>1, <1>2, <1>3 DEF CallTypes
  <2>2. \A w \in Writers : qpc'[w] = qpc[w] BY <2>1, ProcFacts
  <2>3. Pending("wr")' <=> Pending("wr") BY <1>1 DEF Pending
  <2>4. Room => Room'
    <3> SUFFICES ASSUME Room PROVE Room'
      OBVIOUS
    <3>1. len < limit /\ limit' = limit /\ limit \in Nat BY <1>1, <1>2, UseFacts DEF Room, config
    <3>2. len = blockalloclen(blocks) /\ blockalloclen(blocks) \in Nat /\ blockalloclen(h) \in Nat /\ blockalloclen(bl) \in Nat
      BY <1>2, <1>10, SumConcat DEF QueueTypes
    <3>3. len' < limit' BY <1>10, <1>13, <3>1, <3>2
    <3>4. ASSUME NEW q \in Readers, qpc'[q] = "copy" PROVE len' + blockalloclen(hand'[q]) < limit'
      <4>1. q = r
        <5>1. \A p \in Readers \ {r} : qpc[p] \in {"idle", "lock"} BY <1>1, WhoCalls
        <5> QED BY <2>1, <3>4, <5>1, ProcFacts
      <4>2. hand'[r] = h BY <1>2, <1>9 DEF QueueTypes
      <4>3. blockalloclen(bl) + blockalloclen(h) < limit BY <1>10, <3>1, <3>2
      <4> QED BY <1>13, <3>1, <4>1, <4>2, <4>3
    <3> QED BY <3>3, <3>4 DEF Room
  <2>5. WriterInv BY DEF QueueInv
  <2>6. \E q \in Readers : qpc'[q] = "copy" BY <2>1
  <2>7. WritersAlone' <=> WritersAlone BY <1>1, SameUse DEF config
  <2> QED BY <1>1, <2>2, <2>3, <2>4, <2>5, <2>6, <2>7 DEF WriterInv
<1>15. "copy" \in RPCs /\ <<>> \in Seq(Signals) BY DEF RPCs
<1>16. pend' = [pend EXCEPT ![r] = <<>>] BY <1>1, <1>2, <1>3, <1>4 DEF QueueTypes
<1>17. flow' \in BOOLEAN BY <1>1, <1>2 DEF QueueTypes
<1>18. UNCHANGED <<config, closed, starve, locks, calls, active, next>> BY <1>1
<1> QED BY <1>1, <1>9, <1>10, <1>11, <1>12, <1>14, <1>15, <1>16, <1>17, <1>18, ReaderStepInv

\* The end of a read.
LEMMA ReadEnds ==
  ASSUME QueueInv, NEW r \in Readers, qpc[r] \in {"wait", "copy"}, qpc' = [qpc EXCEPT ![r] = "wake"],
         UNCHANGED <<config, closed, starve, locks, calls, active, next>>,
         hand' = [hand EXCEPT ![r] = <<>>], qwakeup_iunlock(r),
         NEW bl \in Seq(Blk), SetTo(bl), Sized(bl),
         blockalloclen(bl) <= len \/ (qpc[r] = "copy" /\ blockalloclen(bl) <= len + blockalloclen(hand[r]))
  PROVE  QueueInv'
<1>1. QueueTypes /\ CallTypes /\ ReaderCalls BY DEF QueueInv
<1>2. r \in QioProcs /\ r \in Agents /\ r \notin Writers BY ProcFacts
<1>3. pend[r] = <<>> BY <1>1 DEF ReaderCalls
<1>4. PICK t \in Seq(Signals) : "wr" \in Range(t) /\ Restart(r, limit \div 2, t)
  <2>1. Restart(r, limit \div 2, IF use.kick THEN <<"kick", "wr">> ELSE <<"wr">>) BY DEF qwakeup_iunlock
  <2>2. /\ <<"wr">> \in Seq(Signals) /\ "wr" \in Range(<<"wr">>)
        /\ <<"kick", "wr">> \in Seq(Signals) /\ "wr" \in Range(<<"kick", "wr">>)
    BY SignalSeqs DEF Signals
  <2>3. CASE use.kick BY <2>1, <2>2, <2>3
  <2>4. CASE ~use.kick BY <2>1, <2>2, <2>4
  <2> QED BY <2>3, <2>4
<1>5. PICK bound \in Nat : bound = limit \div 2 /\ 1 <= bound /\ bound <= limit
  <2>1. limit \div 2 \in Nat /\ limit \div 2 >= 1 /\ limit \div 2 <= limit BY <1>1, UseFacts
  <2>2. PICK h \in Nat : h = limit \div 2 /\ h >= 1 /\ h <= limit BY <2>1
  <2>3. 1 <= h BY <2>2
  <2> QED BY <2>2, <2>3
<1>6. Restart(r, bound, t) BY <1>4, <1>5
<1>7. blocks' = bl /\ len' = blockalloclen(bl) BY <1>1, SetToParts
<1>8. qpc'[r] = "wake" /\ \A q \in QioProcs \ {r} : qpc'[q] = qpc[q] BY <1>1, <1>2 DEF CallTypes
<1>9. \A q \in Readers : qpc'[q] # "copy"
  <2>1. \A q \in Readers \ {r} : qpc[q] \in {"idle", "lock"} BY WhoCalls
  <2> QED BY <1>8, <2>1, ProcFacts
<1>10. \A w \in Writers : qpc'[w] = qpc[w] BY <1>8, ProcFacts
<1>11. UNCHANGED <<use, limit, closed>> BY DEF config
<1>12. len' <= len \/ (Room => Room')
  <2>1. CASE blockalloclen(bl) <= len BY <1>7, <2>1
  <2>2. CASE qpc[r] = "copy" /\ blockalloclen(bl) <= len + blockalloclen(hand[r])
    <3> SUFFICES ASSUME Room PROVE Room'
      OBVIOUS
    <3>1. len + blockalloclen(hand[r]) < limit BY <2>2 DEF Room
    <3>2. len \in Nat /\ blockalloclen(hand[r]) \in Nat /\ blockalloclen(bl) \in Nat /\ limit \in Nat
      <4>1. hand[r] \in Seq(Blk) /\ blocks \in Seq(Blk) /\ len = blockalloclen(blocks) BY <1>1 DEF QueueTypes
      <4> QED BY <1>1, <4>1, SumConcat, UseFacts
    <3>3. len' < limit' BY <1>7, <1>11, <2>2, <3>1, <3>2
    <3> QED BY <1>9, <3>3 DEF Room
  <2> QED BY <2>1, <2>2
<1>13. WriterInv' /\ flow' \in BOOLEAN /\ \E u \in Seq(Signals) : pend' = [pend EXCEPT ![r] = u]
  BY <1>2, <1>3, <1>4, <1>5, <1>6, <1>7, <1>9, <1>10, <1>11, <1>12, RestartWriters
<1>14. PICK u \in Seq(Signals) : pend' = [pend EXCEPT ![r] = u] BY <1>13
<1>15. "wake" \in RPCs /\ <<>> \in Seq(Blk) /\ Len(<<>>) = 0 BY DEF RPCs
<1>16. \A i \in 1..Len(<<>>) : Len(<<>>[i].d) < <<>>[i].a BY <1>15
<1> QED BY <1>13, <1>14, <1>15, <1>16, ReaderStepInv

\* What bl2mem leaves is one block, not bigger than the first.
LEMMA LeftOver ==
  ASSUME NEW bl \in Seq(Blk), \A i \in 1..Len(bl) : Len(bl[i].d) < bl[i].a, ~NoEmpty, NEW k \in Nat
  PROVE  LET l == bl2mem(bl, k)
         IN  l \in Seq(Blk) /\ Sized(l) /\ blockalloclen(l) <= blockalloclen(bl)
<1>1. blockalloclen(bl) \in Nat /\ blocklen(bl) \in Nat BY SumConcat
<1>2. CASE blocklen(bl) <= k
  <2>1. bl2mem(bl, k) = <<>> BY <1>2 DEF bl2mem
  <2>2. <<>> \in Seq(Blk) /\ Sized(<<>>) BY DEF Sized
  <2>3. blockalloclen(<<>>) <= blockalloclen(bl) BY <1>1, SumParts
  <2> QED BY <2>1, <2>2, <2>3
<1>3. CASE ~(blocklen(bl) <= k)
  <2>1. bl # <<>> BY <1>3, SumParts
  <2>2. 1 \in 1..Len(bl) BY <2>1
  <2>3. PICK b \in Blk : b = bl[1] BY <2>2
  <2>4. b.d \in Seq(0..(Wrap - 1)) /\ b.a \in Nat BY <2>3 DEF Blk
  <2>5. Len(b.d) < b.a /\ b.a <= blockalloclen(bl) BY <2>2, <2>3, SumParts
  <2>6. PICK e \in Seq(0..(Wrap - 1)) : e = Rest(b.d, k) /\ Len(e) <= Len(b.d) BY <2>4, RestOf
  <2>7. PICK c : c = [d |-> e, a |-> b.a] OBVIOUS
  <2>8. c \in Blk /\ c.d = e /\ c.a = b.a BY <2>4, <2>7 DEF Blk
  <2>9. bl2mem(bl, k) = <<c>> BY <1>3, <2>3, <2>6, <2>7 DEF bl2mem
  <2>10. Len(c.d) < c.a
    <3>1. Len(e) \in Nat /\ Len(b.d) \in Nat BY <2>4
    <3> QED BY <2>4, <2>5, <2>6, <2>8, <3>1
  <2>11. <<c>> \in Seq(Blk) /\ Len(<<c>>) = 1 /\ <<c>>[1] = c BY <2>8
  <2>12. Sized(<<c>>) BY <2>10, <2>11 DEF Sized
  <2>13. blockalloclen(<<c>>) = b.a BY <2>8, SumParts
  <2> QED BY <2>5, <2>9, <2>11, <2>12, <2>13
<1> QED BY <1>2, <1>3

\* qread puts back what is left and restarts writers.
LEMMA QueueReadDone ==
  ASSUME QueueInv, NEW r \in Readers, qreadDone(r)
  PROVE  QueueInv'
<1>1. /\ qpc[r] = "copy" /\ qpc' = [qpc EXCEPT ![r] = "wake"] /\ hand' = [hand EXCEPT ![r] = <<>>]
      /\ qwakeup_iunlock(r)
      /\ UNCHANGED <<config, closed, starve, locks, calls, active, next>>
  BY DEF qreadDone, Goto, ghost
<1>2. QueueTypes /\ CallTypes /\ blocks \in Seq(Blk) /\ hand[r] \in Seq(Blk) BY DEF QueueInv, QueueTypes
<1>3. Reads BY <1>1, WhoCalls
<1>4. ~NoEmpty BY <1>2, <1>3, AloneFacts
<1>5. n[r] \in Nat
  <2>1. n[r] \in 0..MaxSize /\ MaxSize \in Nat BY <1>2, ProcFacts, QioAssumption DEF CallTypes
  <2> QED BY <2>1
<1>6. \A i \in 1..Len(hand[r]) : Len(hand[r][i].d) < hand[r][i].a BY DEF QueueInv, BlockSizes
<1>7. blockalloclen(hand[r]) \in Nat /\ blockalloclen(blocks) \in Nat /\ len = blockalloclen(blocks)
  BY <1>2, SumConcat DEF QueueTypes
<1>8. PICK l \in Seq(Blk) : Sized(l) /\ blockalloclen(l) <= blockalloclen(hand[r]) /\ SetTo(l \o blocks)
  <2>1. SetTo((IF use.mode = "msg" THEN <<>> ELSE bl2mem(hand[r], n[r])) \o blocks) BY DEF qreadDone
  <2>2. CASE use.mode = "msg"
    <3>1. SetTo(<<>> \o blocks) BY <2>1, <2>2
    <3>2. <<>> \in Seq(Blk) /\ Sized(<<>>) /\ blockalloclen(<<>>) <= blockalloclen(hand[r])
      BY <1>7, SizedParts, SumParts
    <3> QED BY <3>1, <3>2
  <2>3. CASE use.mode # "msg"
    <3>1. PICK x : x = bl2mem(hand[r], n[r]) OBVIOUS
    <3>2. SetTo(x \o blocks) BY <2>1, <2>3, <3>1
    <3>3. x \in Seq(Blk) /\ Sized(x) /\ blockalloclen(x) <= blockalloclen(hand[r])
      BY <1>2, <1>4, <1>5, <1>6, <3>1, LeftOver
    <3> QED BY <3>2, <3>3
  <2> QED BY <2>2, <2>3
<1>9. PICK bl : bl = l \o blocks OBVIOUS
<1>10. bl \in Seq(Blk) /\ blockalloclen(bl) = blockalloclen(l) + blockalloclen(blocks) /\ blockalloclen(l) \in Nat
  <2>1. l \o blocks \in Seq(Blk) BY <1>2
  <2> QED BY <1>2, <1>9, <2>1, SumConcat
<1>11. blockalloclen(bl) <= len + blockalloclen(hand[r]) BY <1>7, <1>8, <1>10
<1>12. Sized(bl) BY <1>2, <1>8, <1>9, SizedParts
<1>13. SetTo(bl) BY <1>8, <1>9
<1> QED BY <1>1, <1>10, <1>11, <1>12, <1>13, ReadEnds

\* qbread takes a block, or a part of one.
LEMMA QueueBread ==
  ASSUME QueueInv, NEW r \in Readers, qbread(r)
  PROVE  QueueInv'
<1>1. /\ qpc[r] = "wait" /\ blocks # <<>> /\ qpc' = [qpc EXCEPT ![r] = "wake"] /\ hand' = hand
      /\ qwakeup_iunlock(r)
      /\ UNCHANGED <<config, closed, starve, locks, calls, active, next>>
  BY DEF qbread, Goto
<1>2. QueueTypes /\ CallTypes /\ ReaderCalls /\ blocks \in Seq(Blk) BY DEF QueueInv, QueueTypes
<1>3. Reads BY <1>1, WhoCalls
<1>4. ~NoEmpty BY <1>2, <1>3, AloneFacts
<1>5. n[r] \in Nat
  <2>1. n[r] \in 0..MaxSize /\ MaxSize \in Nat BY <1>2, ProcFacts, QioAssumption DEF CallTypes
  <2> QED BY <2>1
<1>6. hand' = [hand EXCEPT ![r] = <<>>]
  <2>1. hand[r] = <<>> BY <1>1, <1>2 DEF ReaderCalls
  <2> QED BY <1>1, <1>2, <2>1 DEF QueueTypes
<1>7. len = blockalloclen(blocks) BY <1>2 DEF QueueTypes
<1>8. PICK v : v = Tail(blocks) OBVIOUS
<1>9. 1 \in 1..Len(blocks) /\ Head(blocks) = blocks[1] /\ v = SubSeq(blocks, 1 + 1, Len(blocks))
  BY <1>1, <1>2, <1>8, TailIsCut
<1>10. PICK b \in Blk : b = blocks[1] /\ b.d \in Seq(0..(Wrap - 1)) /\ b.a \in Nat /\ Len(b.d) < b.a
  BY <1>9, CutSized
<1>11. SetTo(IF Len(b.d) > n[r] /\ use.mode # "msg" THEN <<Block(Rest(b.d, n[r]))>> \o v ELSE v)
  BY <1>8, <1>9, <1>10 DEF qbread
<1>12. PICK bl \in Seq(Blk) : SetTo(bl) /\ Sized(bl) /\ blockalloclen(bl) <= len
  <2>1. CASE Len(b.d) > n[r] /\ use.mode # "msg"
    <3>1. PICK e \in Seq(0..(Wrap - 1)) : e = Rest(b.d, n[r]) /\ Len(e) <= Len(b.d) BY <1>5, <1>10, RestOf
    <3>2. PICK c \in Blk : c = Block(e) /\ c.d = e /\ c.a = Len(e) + 1 BY DataBlock
    <3>3. c.a <= blocks[1].a /\ Len(c.d) < c.a
      <4>1. Len(e) \in Nat /\ Len(b.d) \in Nat BY <1>10
      <4> QED BY <1>10, <3>1, <3>2, <4>1
    <3>4. SetTo(<<c>> \o v) BY <1>11, <2>1, <3>1, <3>2
    <3> QED BY <1>4, <1>7, <1>9, <3>3, <3>4, CutSized
  <2>2. CASE ~(Len(b.d) > n[r] /\ use.mode # "msg")
    <3>1. SetTo(v) BY <1>11, <2>2
    <3> QED BY <1>7, <1>9, <3>1, CutSized
  <2> QED BY <2>1, <2>2
<1> QED BY <1>1, <1>6, <1>12, ReadEnds

-----------------------------------------------------------------------------
(* Stream queues: every step *)

\* The invariant is inductive.
LEMMA QueueStep == ASSUME QueueInv, [QioNext]_qiovars PROVE QueueInv'
<1>1. CASE UNCHANGED qiovars
  <2>1. /\ UNCHANGED <<use, blocks, len, dlen, limit, noblock, closed, starve, flow, rlock, wlock>>
        /\ UNCHANGED <<qpc, op, n, hand, pend, active, next>>
    BY <1>1 DEF qiovars
  <2>2. QueueTypes' BY <2>1 DEF QueueInv, QueueTypes
  <2>3. CallTypes' BY <2>1 DEF QueueInv, CallTypes
  <2>4. BlockSizes' BY <2>1, SameUse DEF QueueInv, BlockSizes
  <2>5. ReaderCalls' BY <2>1, SameUse DEF QueueInv, ReaderCalls
  <2>6. WriterCalls' BY <2>1, SameUse DEF QueueInv, WriterCalls
  <2>7. \A x : Pending(x)' <=> Pending(x) BY <2>1 DEF Pending
  <2>8. ReaderInv' BY <2>1, <2>7, SameUse DEF QueueInv, ReaderInv, notempty
  <2>9. WriterInv'
    <3>1. Room' <=> Room BY <2>1 DEF Room
    <3> QED BY <2>1, <2>7, <3>1, SameUse DEF QueueInv, WriterInv
  <2>10. DeviceInv' BY <2>1, <2>7, SameUse DEF QueueInv, DeviceInv
  <2> QED BY <2>2, <2>3, <2>4, <2>5, <2>6, <2>8, <2>9, <2>10 DEF QueueInv
<1>2. CASE \E a \in Agents : wakeup(a) \/ kick(a) BY <1>2, QueueWakeup, QueueKick
<1>3. CASE \E p \in QioProcs : qintr(p)
  <2>1. PICK p \in QioProcs : qintr(p) BY <1>3
  <2>2. CASE p \in Readers BY <2>1, <2>2, QuietReader
  <2>3. CASE p \in Writers BY <2>1, <2>3, QuietWriter
  <2> QED BY <2>2, <2>3, ProcFacts
<1>4. ASSUME NEW r \in Readers, ReaderStep(r) \/ \E k \in 1..MaxSize : \E f \in {"qread", "qbread"} : read(r, f, k)
      PROVE  QueueInv'
  <2>1. CASE \/ qlockr(r) \/ qwaitEof(r) \/ qwaitSleep(r) \/ readReturn(r)
             \/ \E k \in 1..MaxSize : \E f \in {"qread", "qbread"} : read(r, f, k)
    BY <2>1, QuietReader
  <2>2. CASE qwait(r) BY <2>2, ReaderAsks
  <2>3. CASE qreadEmpty(r) BY <2>3, QueueReadEmpty
  <2>4. CASE qread(r) BY <2>4, QueueRead
  <2>5. CASE qreadDone(r) BY <2>5, QueueReadDone
  <2>6. CASE qbread(r) BY <2>6, QueueBread
  <2> QED BY <1>4, <2>1, <2>2, <2>3, <2>4, <2>5, <2>6 DEF ReaderStep
<1>5. ASSUME NEW w \in Writers, WriterStep(w) \/ \E k \in use.sizes : qwrite(w, k)
      PROVE  QueueInv'
  <2>1. CASE \/ qlockw(w) \/ qbwriteClosed(w) \/ qbwriteDrop(w) \/ qbwriteFlow(w) \/ qbwriteSleep(w)
             \/ \E k \in use.sizes : qwrite(w, k)
    BY <2>1, QuietWriter
  <2>2. CASE qbwrite(w) BY <2>2, QueuePut
  <2>3. CASE qbwriteSetflow(w) BY <2>3, WriterAsks
  <2> QED BY <1>5, <2>1, <2>2, <2>3 DEF WriterStep
<1>6. CASE In BY <1>6, QueueIn, QueueFull DEF In
<1>7. CASE Out BY <1>7, QueueStarves, QueueGet, QueueConsume, QueueDiscard DEF Out
<1>8. CASE Ctl BY <1>8, QueueShut, QueueReopen, QueueFlush, QueueSet DEF Ctl
<1> QED BY <1>1, <1>2, <1>3, <1>4, <1>5, <1>6, <1>7, <1>8 DEF QioNext

\* It implies the property.
LEMMA QueueMeans == ASSUME QueueInv PROVE NoLostWakeup
<1>1. QueueTypes /\ CallTypes /\ ReaderCalls /\ WriterCalls BY DEF QueueInv
<1>2. QioTypeOK
  <2>1. \A i \in DOMAIN blocks : blocks[i].d \in Seq(0..(Wrap - 1)) /\ blocks[i].a \in Nat
    <3>1. blocks \in Seq(Blk) BY <1>1 DEF QueueTypes
    <3>2. \A i \in DOMAIN blocks : blocks[i] \in Blk BY <3>1
    <3> QED BY <3>2 DEF Blk
  <2>2. qpc \in [QioProcs -> {"idle", "lock", "wait", "copy", "put", "wake", "flow", "setflow", "sleep", "asleep"}]
    BY <1>1 DEF CallTypes, QPCs, RPCs, WPCs
  <2>3. ASSUME NEW a \in Agents PROVE Range(pend[a]) \subseteq {"kick", "rr", "wr"}
    <3>1. pend[a] \in Seq(Signals) BY <1>1 DEF QueueTypes
    <3> QED BY <3>1, RangeType DEF Signals
  <2>4. {noblock, closed, starve, flow, active} \subseteq BOOLEAN BY <1>1 DEF QueueTypes
  <2> QED BY <1>1, <2>1, <2>2, <2>3, <2>4 DEF QioTypeOK, QueueTypes, CallTypes
<1>3. Accounted
  <2>1. ASSUME rlock = null, NEW r \in Readers PROVE hand[r] = <<>>
    <3>1. r # null BY ProcFacts
    <3> QED BY <1>1, <2>1, <3>1 DEF ReaderCalls
  <2> QED BY <1>1, <1>2, <2>1 DEF Accounted, QueueTypes
<1>4. ReadersAlone => ReaderFed BY DEF QueueInv, ReaderInv, ReaderFed
<1>5. WritersAlone => WriterRestarted BY DEF QueueInv, WriterInv, WriterRestarted
<1>6. DeviceAlone => DeviceKicked BY DEF QueueInv, DeviceInv, DeviceKicked, Takes
<1> QED BY <1>3, <1>4, <1>5, <1>6 DEF NoLostWakeup

\* Nobody misses what it waits for, and the queue's counts are what its
\* blocks add up to, however the critical sections of qio.c, the tests in
\* sleep and the wakeups after them interleave, for any number of processes,
\* sizes, limits and ways to use a queue: readers where nothing else empties
\* it, writers and devices where they have it for themselves.
THEOREM QueueWakeups == QioSpec => []NoLostWakeup
<1>1. QioInit => QueueInv BY QueueInit
<1>2. QueueInv /\ [QioNext]_qiovars => QueueInv' BY QueueStep
<1>3. QueueInv => NoLostWakeup BY QueueMeans
<1> QED BY <1>1, <1>2, <1>3, PTL DEF QioSpec

=============================================================================

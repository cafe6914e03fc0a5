------------------------------- MODULE Fossil -------------------------------
(***************************************************************************)
(* The write ordering of the fossil file server (sys/src/cmd/fossil):      *)
(* blocks are changed in a cache and written one at a time, in an order    *)
(* that must leave a file system on the disk whenever the machine stops.   *)
(*                                                                         *)
(* The super block points at the root, a directory block with the Entry of *)
(* one file.  A file of depth 0 is one data block; a file of depth 1 is a  *)
(* pointer block with the addresses of its data blocks.  Each address has  *)
(* a label, kept in label blocks, from which free blocks are found.  A     *)
(* snapshot ends an epoch; blocks of past epochs are copied on write.      *)
(*                                                                         *)
(* A block is changed while it is locked, so each step below is what one   *)
(* thread does to a block before it gives up the lock: one level of a walk *)
(* down the tree, one removal, one attempt to write a block.  No lock is   *)
(* held between steps, except that of the super block by bumpEpoch.        *)
(***************************************************************************)
EXTENDS Integers, Sequences, SequencesExt, FiniteSetsExt, TLC

CONSTANTS
    NBlocks,    \* fl->end, the data blocks of the disk
    Lpb,        \* labels in a label block
    Values,     \* what a data block of the file may hold
    MaxEpoch,   \* bound on the epoch
    MaxCrash,   \* bound on the times the machine stops
    MaxWork     \* bound on the changes, snapshots and crashes together

(***************************************************************************)
(* What the code does without ordering it (README, "Findings"), kept in    *)
(* old.unsafe:                                                             *)
(*   "grow"    a level is put above a data block that is dirty,            *)
(*   "shrink"  a file loses a level that is dirty,                         *)
(*   "open"    an epoch ends before the root that fsOpen copied, and the   *)
(*             super block with it, are on the disk,                       *)
(*   "fill"    the flush thread begins a pass while bumpEpoch is between   *)
(*             its copy of the root and its write of the super block,      *)
(*   "shared"  a file loses a level that a snapshot shares,                *)
(*   "low"     all epochs before the current one are given up,             *)
(*   "lost"    the machine stops after one of these.                       *)
(* The first four are over when nothing is dirty any more.                 *)
(***************************************************************************)
Unordered == {"grow", "shrink", "open", "fill"}
Unsafe == Unordered \cup {"shared", "low", "lost"}

ASSUME FossilAssumption ==
    /\ NBlocks \in Nat \ {0} /\ Lpb \in Nat \ {0}
    /\ Values \subseteq Nat \ {0}
    /\ MaxEpoch \in Nat /\ MaxCrash \in Nat /\ MaxWork \in Nat

VARIABLES
    c,        \* the cache: the newest version of everything, and what is dirty
    disk,     \* the disk
    unlink,   \* c->uhead: links whose last pointer is gone from the disk
    pass,     \* c->baddr: the pass of the flush thread over the dirty blocks
    fs,       \* what a snapshot is doing, with the root it is of, or "down"
    count,    \* how often the machine stopped, and all that MaxWork bounds
    old       \* history: the contents of each snapshot, and of the last flush, and
              \* what was done without an order

vars == <<c, disk, unlink, pass, fs, count, old>>

NilBlock == -1
Addr == 0..NBlocks - 1
Slots == 1..2

(***************************************************************************)
(* Blocks are numbered in the order in which a pass writes them.           *)
(***************************************************************************)
Super == 0
NLabels == (NBlocks + Lpb - 1) \div Lpb
LabelBlock(a) == 1 + (a \div Lpb)
DataBlock(a) == 1 + NLabels + a
AddrOf(b) == b - 1 - NLabels
IsData(b) == b > NLabels
Blocks == 0..NLabels + NBlocks

(***************************************************************************)
(* What a block holds: a directory block the address and the depth of its  *)
(* one Entry, a pointer block two addresses, a data block a value.         *)
(***************************************************************************)
Zero(type) ==
    CASE type = "dir"  -> <<"dir", NilBlock, 0>>
      [] type = "ptr"  -> <<"ptr", NilBlock, NilBlock>>
      [] type = "data" -> <<"data", 0, 0>>

EntryType(depth) == IF depth = 0 THEN "data" ELSE "ptr"

\* An epochClose of 0 stands for ~0, a block that is not closed.
FreeLabel == [type |-> "free", epoch |-> 0, epochClose |-> 0, copied |-> FALSE]
Closed(l) == l.epochClose # 0

-----------------------------------------------------------------------------
\* blockDirty
Dirty(k, b) == [k EXCEPT !.dirty = @ \cup {b}]

\* _blockSetLabel: the label changes in its label block.
SetLabel(k, a, l) == Dirty([k EXCEPT !.label[a] = l], LabelBlock(a))

(***************************************************************************)
(* blockDependency: bb goes to the disk before b.  Until then b is written *)
(* with was at index, or, if index is -1, not at all.  done is set when bb *)
(* is written, which changes bb->vers.                                     *)
(***************************************************************************)
Dependency(k, b, bb, index, was) ==
    IF bb \notin k.dirty THEN k
    ELSE [k EXCEPT !.prior[b] =
              <<[blk |-> bb, index |-> index, was |-> was, done |-> FALSE]>> \o @]

(***************************************************************************)
(* cacheAllocBlock: the next address after fl->last that is free, or that  *)
(* no snapshot needs, and is not waiting to be written.                    *)
(***************************************************************************)
\* A variant that is off by one epoch.
ReusableEarly(k, a) ==
    LET l == k.label[a]
    IN  \/ l.type = "free"
        \/ Closed(l) /\ (l.epochClose <= k.super.epochLow + 1 \/ l.epoch = l.epochClose)

Reusable(k, a) ==
    LET l == k.label[a]
    IN  \/ l.type = "free"
        \/ Closed(l) /\ (l.epochClose <= k.super.epochLow \/ l.epoch = l.epochClose)

Available(k) == {a \in Addr : Reusable(k, a) /\ DataBlock(a) \notin k.dirty}

NextAddr(k) ==
    LET after == {a \in Available(k) : a > k.last}
    IN  Min(IF after # {} THEN after ELSE Available(k))

CacheAllocBlock(k, a, type, epoch) ==
    LET l  == [type |-> type, epoch |-> epoch, epochClose |-> 0, copied |-> FALSE]
        k1 == SetLabel([k EXCEPT !.last = a, !.data[a] = Zero(type)], a, l)
    IN  Dependency(k1, DataBlock(a), LabelBlock(a), -1, 0)

(***************************************************************************)
(* blockCopy: the block at from, or a zero block, is copied to a.  What    *)
(* the original depends on is not copied: the copy may be written first.   *)
(***************************************************************************)
BlockCopy(k, from, a, type, epoch) ==
    LET k1 == CacheAllocBlock(k, a, type, epoch)
        k2 == IF from = NilBlock \/ k1.label[from].copied THEN k1
              ELSE Dependency(SetLabel(k1, from, [k1.label[from] EXCEPT !.copied = TRUE]),
                              DataBlock(a), LabelBlock(from), -1, 0)
        k3 == IF from = NilBlock THEN k2 ELSE [k2 EXCEPT !.data[a] = k.data[from]]
    IN  Dirty(k3, DataBlock(a))

(***************************************************************************)
(* doRemoveLink: the block, and the children of a pointer block if recurse *)
(* is set, are closed.  p.epoch is 0 if the super block held the pointer.  *)
(***************************************************************************)
Close(k, a, epoch) ==
    IF k.label[a].epoch > epoch THEN k
    ELSE SetLabel(k, a, [k.label[a] EXCEPT !.epochClose = epoch])

DoRemoveLink(k, p) ==
    LET l     == k.label[p.addr]
        epoch == IF p.epoch = 0 THEN l.epoch + 1 ELSE p.epoch
        kids  == IF p.recurse /\ l.type = "ptr"
                 THEN {k.data[p.addr][1 + i] : i \in Slots} \ {NilBlock}
                 ELSE {}
        open  == {a \in kids : ~Closed(k.label[a])}
        CloseKid(a, acc) == Close(acc, a, epoch)
    IN  IF l.type # p.type \/ l.epoch > epoch THEN k
        ELSE Close(FoldSet(CloseKid, k, open), p.addr, epoch)

(***************************************************************************)
(* blockRemoveLink: b no longer points at addr, which is closed when b is  *)
(* clean.  b does not depend on it any more.                               *)
(***************************************************************************)
\* A variant that does not wait for b.
BlockRemoveLinkAtOnce(k, b, addr, type, recurse) ==
    DoRemoveLink(k, [addr |-> addr, type |-> type, recurse |-> recurse,
                     epoch |-> IF b = Super THEN 0 ELSE k.label[AddrOf(b)].epoch])

BlockRemoveLink(k, b, addr, type, recurse) ==
    LET Other(p) == p.blk # DataBlock(addr)
        k1 == [k EXCEPT !.prior[b] = SelectSeq(@, Other)]
        p  == [addr |-> addr, type |-> type, recurse |-> recurse,
               epoch |-> IF b = Super THEN 0 ELSE k.label[AddrOf(b)].epoch]
    IN  IF b = Super /\ b \notin k.dirty THEN DoRemoveLink(k1, p)
        ELSE [k1 EXCEPT !.uhead[b] = Append(@, p)]

-----------------------------------------------------------------------------
(***************************************************************************)
(* blockWrite drops a prior that is done, and one whose index a newer one  *)
(* that is done covers.                                                    *)
(***************************************************************************)
Kept(prior) ==
    LET Keeps(i) == /\ ~prior[i].done
                    /\ \A j \in 1..i - 1 :
                          prior[j].done /\ prior[j].index >= 0
                             => prior[j].index # prior[i].index
        kept == SelectSeq([i \in 1..Len(prior) |-> i], Keeps)
    IN  [n \in 1..Len(kept) |-> prior[kept[n]]]

Blocked(k, b) == \E p \in Range(Kept(k.prior[b])) : p.index = -1

(***************************************************************************)
(* blockRollback undoes what depends on an unwritten block, the newest     *)
(* change first.  An Entry is put back whole.                              *)
(***************************************************************************)
RollbackSuper(super, prior) ==
    IF prior = <<>> THEN super ELSE [super EXCEPT !.active = Last(prior).was]

\* A variant that undoes the oldest change first.
RollbackDataOldFirst(data, prior) ==
    LET Undo(p, acc) == IF acc[1] = "dir" THEN <<"dir">> \o p.was
                        ELSE [acc EXCEPT ![2 + p.index] = p.was]
    IN  FoldRight(Undo, prior, data)

RollbackData(data, prior) ==
    LET Undo(acc, p) == IF acc[1] = "dir" THEN <<"dir">> \o p.was
                        ELSE [acc EXCEPT ![2 + p.index] = p.was]
    IN  FoldLeft(Undo, data, prior)

\* The disk after b is written.
Written(k, d, b) ==
    CASE b = Super -> [d EXCEPT !.super = RollbackSuper(k.super, Kept(k.prior[b]))]
      [] IsData(b) -> [d EXCEPT !.data[AddrOf(b)] =
                           RollbackData(k.data[AddrOf(b)], Kept(k.prior[b]))]
      [] OTHER     -> [d EXCEPT !.label =
                           [a \in Addr |-> IF LabelBlock(a) = b THEN k.label[a] ELSE @[a]]]

(***************************************************************************)
(* blockSetIOState: b->vers changes; a block written as it is becomes      *)
(* clean, and what it unlinked goes to the unlink thread.  A block written *)
(* in an older version stays dirty.                                        *)
(***************************************************************************)
SetIOState(k, b) ==
    LET Done(p) == IF p.blk = b THEN [p EXCEPT !.done = TRUE] ELSE p
        Tells(p) == ~p.done \/ p.index >= 0
        rest == Kept(k.prior[b])
        k1 == [k EXCEPT !.prior = [x \in Blocks |->
                  LET list == IF x = b THEN rest ELSE k.prior[x]
                  IN  SelectSeq([i \in DOMAIN list |-> Done(list[i])], Tells)]]
    IN  IF rest # <<>> THEN k1
        ELSE [k1 EXCEPT !.dirty = @ \ {b}, !.uhead[b] = <<>>]

Unlinked(k, b) == IF Kept(k.prior[b]) = <<>> THEN k.uhead[b] ELSE <<>>

-----------------------------------------------------------------------------
\* The tree below the root, and what the file holds, in the cache or on the disk.
Entry(d) == d.data[d.super.active]
Holds(d, a, type) == d.label[a].type = type /\ d.data[a][1] = type
Kids(d, a) == {d.data[a][1 + i] : i \in Slots} \ {NilBlock}

Tree(d, root) ==
    LET top == d.data[root][2]
        below == IF d.data[root][3] = 1 /\ d.data[top][1] = "ptr" THEN Kids(d, top) ELSE {}
    IN  {root} \cup (IF d.data[root][1] = "dir" /\ top # NilBlock THEN {top} \cup below
                     ELSE {})

Loadable(d, root) ==
    /\ Holds(d, root, "dir")
    /\ LET top == d.data[root][2]
           depth == d.data[root][3]
       IN  top # NilBlock =>
              /\ Holds(d, top, EntryType(depth))
              /\ depth = 1 => \A a \in Kids(d, top) : Holds(d, a, "data")

Contents(d, root) ==
    LET top == d.data[root][2]
        depth == d.data[root][3]
        Leaf(a) == IF a \in Addr THEN d.data[a][2] ELSE 0
    IN  [i \in Slots |->
            IF depth = 0 THEN (IF i = 1 THEN Leaf(top) ELSE 0)
            ELSE IF top \in Addr THEN Leaf(d.data[top][1 + i]) ELSE 0]

-----------------------------------------------------------------------------
Idle == [op |-> "idle", root |-> NilBlock, file |-> <<>>]
NoPass == [todo |-> {}, again |-> {}, wrote |-> FALSE]

Cache(d) == [super |-> d.super, label |-> d.label, data |-> d.data, dirty |-> {},
             prior |-> [b \in Blocks |-> <<>>], uhead |-> [b \in Blocks |-> <<>>],
             last |-> 0]

(***************************************************************************)
(* A file system of epoch 1 whose root is at address 0.  The file has one  *)
(* data block at address 1, or is of depth 1, with its pointer block at    *)
(* address 1 and its first data block at address 2.                        *)
(***************************************************************************)
Files == {<< <<"dir", 1, 0>>, <<"data", 1, 1>> >>,
          << <<"dir", 1, 1>>, <<"ptr", 2, NilBlock>>, <<"data", 1, 1>> >>}

Init ==
    /\ \E f \in Files :
          disk = [super |-> [active |-> 0, epochHigh |-> 1, epochLow |-> 1],
                  label |-> [a \in Addr |->
                                IF a < Len(f)
                                THEN [FreeLabel EXCEPT !.type = f[a + 1][1], !.epoch = 1]
                                ELSE FreeLabel],
                  data |-> [a \in Addr |-> IF a < Len(f) THEN f[a + 1] ELSE Zero("data")]]
    /\ c = Cache(disk)
    /\ unlink = <<>>
    /\ pass = NoPass
    /\ fs = Idle
    /\ count = [crash |-> 0, work |-> 0]
    /\ old = [snap |-> <<>>, may |-> [i \in Slots |-> {Contents(disk, 0)[i]}],
              unsafe |-> {}]

\* The file may be found with the value v in slot i, when the machine stops.
May(i, v) == [old EXCEPT !.may[i] = @ \cup {v}]

\* The bounds: crash is 1 if the machine stops.
Works(crash) ==
    /\ count.work < MaxWork
    /\ count.crash + crash <= MaxCrash
    /\ count' = [crash |-> count.crash + crash, work |-> count.work + 1]

\* Unless safe holds, something is done without an order.
Unless(safe, what) == IF safe THEN {} ELSE {what}

\* The cache becomes k by a step of a process that holds fs->elk for reading.
\* cacheLocalData refuses blocks that are not what their pointers say.
Step(k) ==
    /\ fs.op = "idle"
    /\ Loadable(c, c.super.active)
    /\ Works(0)
    /\ c' = k
    /\ UNCHANGED <<disk, unlink, pass, fs>>

Root == c.super.active
Writable(a) == a # NilBlock /\ c.label[a].epoch = c.super.epochHigh

(***************************************************************************)
(* blockWalk for writing, where the child of p at index is of a past epoch *)
(* or does not exist: it is copied, and p is made to point at the copy.    *)
(***************************************************************************)
BlockWalk(k, p, index, type) ==
    LET child == k.data[p][2 + index]
        was == IF k.data[p][1] = "dir" THEN Tail(k.data[p]) ELSE child
        a   == NextAddr(k)
        k1  == BlockCopy(k, child, a, type, k.super.epochHigh)
        k2  == Dependency([k1 EXCEPT !.data[p][2 + index] = a],
                          DataBlock(p), DataBlock(a), index, was)
        k3  == Dirty(k2, DataBlock(p))
    IN  IF child = NilBlock THEN k3
        ELSE BlockRemoveLink(k3, DataBlock(p), child, type, FALSE)

\* A walk to the pointer block of a file of depth 1.
walkPointer ==
    /\ Entry(c)[3] = 1
    /\ ~Writable(Entry(c)[2])
    /\ Available(c) # {}
    /\ Step(BlockWalk(c, Root, 0, "ptr"))
    /\ UNCHANGED old

\* The last level of the walk, and the change of the data block.
writeData(i, v) ==
    LET parent == IF Entry(c)[3] = 0 THEN Root ELSE Entry(c)[2]
        leaf == c.data[parent][1 + i]
        k == IF Writable(leaf) THEN c ELSE BlockWalk(c, parent, i - 1, "data")
    IN  /\ IF Entry(c)[3] = 0 THEN i = 1 ELSE Writable(parent)
        /\ Writable(leaf) \/ Available(c) # {}
        /\ LET a == k.data[parent][1 + i]
           IN  /\ DataBlock(a) \notin c.dirty \/ c.data[a][2] # v
               /\ Step(Dirty([k EXCEPT !.data[a] = <<"data", v, v>>], DataBlock(a)))
        /\ old' = May(i, v)

(***************************************************************************)
(* sourceGrowDepth: a pointer block is put above the data block.  The old  *)
(* Entry is what the root is written with until the pointer block is       *)
(* written, but that may be written without its pointer.                   *)
(***************************************************************************)
sourceGrowDepth ==
    LET top == Entry(c)[2]
        a   == NextAddr(c)
        k1  == CacheAllocBlock(c, a, "ptr", c.super.epochHigh)
        k2  == [k1 EXCEPT !.data[a] = <<"ptr", top, NilBlock>>]
        k3  == IF top = NilBlock THEN k2
               ELSE Dependency(k2, DataBlock(a), DataBlock(top), 0, NilBlock)
        k4  == [Dirty(k3, DataBlock(a)) EXCEPT !.data[Root] = <<"dir", a, 1>>]
        k5  == Dependency(k4, DataBlock(Root), DataBlock(a), 0, <<top, 0>>)
    IN  /\ Entry(c)[3] = 0
        /\ Available(c) # {}
        /\ Step(Dirty(k5, DataBlock(Root)))
        /\ old' = [old EXCEPT !.unsafe = @ \cup
                      Unless(top = NilBlock \/ DataBlock(top) \notin c.dirty, "grow")]

(***************************************************************************)
(* sourceShrinkDepth: the Entry is made to point at the first data block,  *)
(* the pointer to it is taken out of the pointer block, which is unlinked  *)
(* with the other data block.                                              *)
(***************************************************************************)
sourceShrinkDepth ==
    LET top == Entry(c)[2]
        b   == c.data[top][2]
        k1  == [c EXCEPT !.data[Root] = <<"dir", b, 0>>]
        k2  == IF b = NilBlock THEN k1
               ELSE Dependency(k1, DataBlock(Root), DataBlock(b), 0, <<top, 1>>)
        k3  == [Dirty(k2, DataBlock(Root)) EXCEPT !.data[top][2] = NilBlock]
        k4  == Dirty(Dependency(k3, DataBlock(top), DataBlock(Root), 0, b), DataBlock(top))
    IN  /\ Entry(c)[3] = 1
        /\ top # NilBlock
        /\ Step(BlockRemoveLink(k4, DataBlock(Root), top, "ptr", TRUE))
        /\ old' = [May(2, 0) EXCEPT !.unsafe = @ \cup Unless(Writable(top), "shared")
                      \cup Unless({DataBlock(top), DataBlock(b)} \cap c.dirty = {}, "shrink")]

\* sourceKill: the file is emptied.
sourceKill ==
    LET top == Entry(c)[2]
        k == Dirty([c EXCEPT !.data[Root] = Zero("dir")], DataBlock(Root))
    IN  /\ Entry(c) # Zero("dir")
        /\ Step(IF top = NilBlock THEN k
                ELSE BlockRemoveLink(k, DataBlock(Root), top, EntryType(Entry(c)[3]), TRUE))
        /\ old' = [old EXCEPT !.may = [i \in Slots |-> @[i] \cup {0}]]

\* cacheAllocBlock finds nothing.
diskFull ==
    /\ Available(c) = {}
    /\ c.last # 0
    /\ Step([c EXCEPT !.last = 0])
    /\ UNCHANGED old

-----------------------------------------------------------------------------
\* What is known once k, with the disk d, is the cache after a write.
Settled(k, d, o) ==
    IF k.dirty # {} THEN o
    ELSE [o EXCEPT !.may = [i \in Slots |-> {Contents(d, d.super.active)[i]}],
                   !.unsafe = @ \ Unordered]

\* blockWrite and the disk thread: b is written, in the version that is safe.
Write(k, b) ==
    /\ disk' = Written(k, disk, b)
    /\ unlink' = unlink \o Unlinked(k, b)

(***************************************************************************)
(* The flush thread goes over the dirty blocks in passes.  A pass is over  *)
(* all of them (flushFill), or over those that the pass before put off, if *)
(* these were not all it had.                                              *)
(***************************************************************************)
flushFill ==
    /\ pass.todo = {}
    /\ c.dirty # {}
    /\ pass' = [NoPass EXCEPT !.todo = IF pass.again = {} THEN c.dirty ELSE pass.again]
    /\ old' = [old EXCEPT !.unsafe = @ \cup Unless(fs.op # "bump", "fill")]
    /\ UNCHANGED <<c, disk, unlink, fs, count>>

\* The pass p without block b, which was put off or was written.
PutOff(p, b) ==
    LET q == [p EXCEPT !.todo = @ \ {b}, !.again = @ \cup {b}]
    IN  IF q.todo = {} /\ ~q.wrote THEN NoPass ELSE q

Passed(p, b) ==
    LET q == [todo |-> p.todo \ {b}, again |-> p.again \ {b}, wrote |-> TRUE]
    IN  IF q.todo \cup q.again = {} THEN NoPass ELSE q

(***************************************************************************)
(* cacheFlushBlock: the next block of the pass is written, or is put off   *)
(* because it waits for another block or is locked.                        *)
(***************************************************************************)
cacheFlushBlock ==
    LET b == Min(pass.todo)
        busy == Blocked(c, b) \/ (b = Super /\ fs.op = "bump")
    IN  /\ pass.todo # {}
        /\ \/ /\ busy
              /\ pass' = PutOff(pass, b)
              /\ UNCHANGED <<c, disk, unlink, old>>
           \/ /\ ~busy
              /\ pass' = Passed(pass, b)
              /\ c' = SetIOState(c, b)
              /\ Write(c, b)
              /\ old' = Settled(c', disk', old)
        /\ UNCHANGED <<fs, count>>

\* unlinkBody
unlinkBody ==
    /\ fs.op # "down"
    /\ unlink # <<>>
    /\ c' = DoRemoveLink(c, Head(unlink))
    /\ unlink' = Tail(unlink)
    /\ UNCHANGED <<disk, pass, fs, count, old>>

(***************************************************************************)
(* bumpEpoch: the root is copied for the next epoch, the super block made  *)
(* to point at the copy and written at once (superWrite), with the root it *)
(* had if the new one is not on the disk.                                  *)
(***************************************************************************)
NewRoot(k, a, epoch) ==
    LET k1 == BlockCopy(k, k.super.active, a, "dir", epoch)
        k2 == [k1 EXCEPT !.super.active = a, !.super.epochHigh = epoch]
    IN  Dirty(Dependency(k2, Super, DataBlock(a), 0, k.super.active), Super)

bumpEpoch ==
    /\ c.super.epochHigh < MaxEpoch
    /\ Available(c) # {}
    /\ fs.op = "idle"
    /\ c' = NewRoot(c, NextAddr(c), c.super.epochHigh + 1)
    /\ fs' = [op |-> "bump", root |-> Root, file |-> Contents(c, Root)]
    /\ Works(0)
    /\ old' = [old EXCEPT !.unsafe = @ \cup Unless(Super \notin c.dirty, "open")]
    /\ UNCHANGED <<disk, unlink, pass>>

\* The super block k.super is written, and is not in the pass any more.
SuperWrite(k) ==
    /\ Write(k, Super)
    /\ pass' = IF Super \in pass.todo \cup pass.again THEN Passed(pass, Super) ELSE pass

superWrite ==
    /\ fs.op = "bump"
    /\ SuperWrite(c)
    /\ c' = BlockRemoveLink(SetIOState(c, Super), Super, fs.root, "dir", FALSE)
    /\ fs' = [fs EXCEPT !.op = "flush"]
    /\ old' = Settled(c', disk', old)
    /\ UNCHANGED count

\* The rest of fsSnapshot: cacheFlush waits until nothing is dirty.
fsSnapshot ==
    /\ fs.op = "flush"
    /\ c.dirty = {}
    /\ fs' = Idle
    /\ old' = [old EXCEPT !.snap =
                  (c.super.epochHigh - 1 :> [root |-> fs.root, file |-> fs.file]) @@ @]
    /\ UNCHANGED <<c, disk, unlink, pass, count>>

\* fsEpochLow: snapshots of epochs before low are given up.
fsEpochLow(low) ==
    LET k == Dirty([c EXCEPT !.super.epochLow = low], Super)
    IN  /\ fs.op = "idle"
        /\ low \in c.super.epochLow + 1..c.super.epochHigh
        /\ SuperWrite(k)
        /\ c' = SetIOState(k, Super)
        /\ old' = Settled(c', disk', [old EXCEPT !.snap =
                     [e \in {e \in DOMAIN @ : e >= low} |-> @[e]],
                     !.unsafe = @ \cup Unless(low < c.super.epochHigh, "low")])
        /\ UNCHANGED <<fs, count>>

\* The machine stops: what is not on the disk is lost.
crash ==
    /\ Works(1)
    /\ fs.op # "down"
    /\ c' = Cache(disk)
    /\ unlink' = <<>>
    /\ pass' = NoPass
    /\ fs' = [Idle EXCEPT !.op = "down"]
    /\ old' = [Settled(c', disk, old) EXCEPT !.unsafe =
                  old.unsafe \cup Unless(old.unsafe = {}, "lost")]
    /\ UNCHANGED disk

\* fsOpen: if the root is of a past epoch, it is copied.
fsOpen ==
    LET current == c.label[Root].epoch = c.super.epochHigh
    IN  /\ fs.op = "down"
        /\ Holds(c, Root, "dir")
        /\ \/ current /\ c' = c
           \/ /\ ~current
              /\ Available(c) # {}
              /\ c' = BlockRemoveLink(NewRoot(c, NextAddr(c), c.super.epochHigh),
                                      Super, Root, "dir", FALSE)
        /\ fs' = Idle
        /\ UNCHANGED <<disk, unlink, pass, count, old>>

Next ==
    \/ walkPointer \/ sourceGrowDepth \/ sourceShrinkDepth \/ sourceKill \/ diskFull
    \/ \E i \in Slots, v \in Values : writeData(i, v)
    \/ flushFill \/ cacheFlushBlock \/ unlinkBody
    \/ bumpEpoch \/ superWrite \/ fsSnapshot
    \/ \E low \in 2..MaxEpoch : fsEpochLow(low)
    \/ crash \/ fsOpen

Spec == Init /\ [][Next]_vars

-----------------------------------------------------------------------------
Label == [type : {"free", "dir", "ptr", "data"}, epoch : 0..MaxEpoch,
          epochClose : 0..MaxEpoch, copied : BOOLEAN]

\* The type invariant, and that what is not dirty is as it is on the disk.
TypeOK ==
    /\ c.label \in [Addr -> Label]
    /\ c.dirty \subseteq Blocks
    /\ pass.todo \cup pass.again \subseteq c.dirty
    /\ Super \notin c.dirty => c.super = disk.super
    /\ \A a \in Addr :
          /\ LabelBlock(a) \notin c.dirty => c.label[a] = disk.label[a]
          /\ DataBlock(a) \notin c.dirty => c.data[a] = disk.data[a]
    /\ \A b \in Blocks \ c.dirty : c.prior[b] = <<>> /\ c.uhead[b] = <<>>

\* Dirty blocks do not wait for each other: one can be written as it is.
FlushGoesOn == c.dirty # {} => \E b \in c.dirty : Kept(c.prior[b]) = <<>>

(***************************************************************************)
(* Whenever the machine stops, the disk holds a file system: each block    *)
(* that can be reached from its super block has the label that             *)
(* cacheLocalData asks for and has been written since it was allocated,    *)
(* and each block of the file is as it was at the last flush, or as it was *)
(* made since then (blockDependency, blockRollback, blockSetLabel).  So it *)
(* is unless the code did something in old.unsafe, after which a block may *)
(* be missing, and, if it was more than a growth, the tree may not load.   *)
(* In every case, the cache and the disk differ in dirty blocks only, and  *)
(* what waits to be written does not wait in a circle (blockWrite).        *)
(***************************************************************************)
Durable ==
    LET root == disk.super.active
    IN  /\ TypeOK
        /\ FlushGoesOn
        /\ old.unsafe \subseteq {"grow"} => Loadable(disk, root)
        /\ old.unsafe = {} => \A i \in Slots : Contents(disk, root)[i] \in old.may[i]

Live == {e \in DOMAIN old.snap : e >= c.super.epochLow}

(***************************************************************************)
(* cacheAllocBlock gives out no block that can still be reached: in the    *)
(* cache, from the super block on the disk, or in a snapshot that was not  *)
(* given up.  A block is closed only when nothing on the disk points at it *)
(* (blockRemoveLink).  What is not ordered keeps this, until the machine   *)
(* stops, except that old pointers on the disk may lead to free blocks; it *)
(* does not hold once a level that a snapshot shares was taken away, or    *)
(* all epochs before the current one were given up (fsEpochLow).           *)
(***************************************************************************)
NotReused ==
    LET reached == Tree(c, Root) \cup UNION {Tree(c, old.snap[e].root) : e \in Live}
                   \cup (IF old.unsafe \subseteq {"grow"} THEN Tree(disk, disk.super.active)
                        ELSE {})
    IN  old.unsafe \subseteq Unordered => \A a \in reached : ~Reusable(c, a)

(***************************************************************************)
(* A snapshot keeps its contents until fsEpochLow gives it up, whatever is *)
(* written to the file, removed or allocated, and if the machine stops     *)
(* ("it is treated as copy-on-write"), with the exceptions of NotReused.   *)
(***************************************************************************)
SnapshotKept ==
    old.unsafe \subseteq Unordered =>
        \A e \in Live : /\ Loadable(c, old.snap[e].root)
                        /\ Contents(c, old.snap[e].root) = old.snap[e].file
=============================================================================

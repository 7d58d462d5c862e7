-------------------------- MODULE BlockCache_proofs --------------------------
(***************************************************************************)
(* Proofs about BlockCache, for every card, layout and content.  A call is *)
(* computed on snapshots, so the lemmas are about snapshots: what a flush  *)
(* leaves, what a load leaves, what an edit leaves.  The steps then only   *)
(* name the lemma of the snapshot they become.                             *)
(***************************************************************************)
EXTENDS BlockCache, TLAPS

Snapshot == [card : [Block -> Val], num : UserBlock \cup {NoBlock},
             buf : Val, dirty : {0, 1}, mirror : Mirrors \cup {NoMirror}]

(***************************************************************************)
(* The invariant, on a snapshot.  DirtyFat is what the stated properties   *)
(* need to be inductive: only fatPut() dirties a block of the FAT, and it  *)
(* always leaves the second copy to be written.                            *)
(***************************************************************************)
Sound(s)    == s.dirty = 0 /\ s.num # NoBlock => s.buf = s.card[s.num]
Pending(s)  == s.mirror # NoMirror =>
                 s.dirty = 1 /\ (s.num = NoBlock \/ MirrorOf(s.num) = s.mirror)
DirtyFat(s) == FatCount > 1 /\ s.dirty = 1 /\ s.num \in Fat => s.mirror = MirrorOf(s.num)
Good(s)     == Sound(s) /\ Pending(s) /\ DirtyFat(s)
Agree(s)    == FatCount > 1 =>
                 \A f \in Fat : s.card[f] # s.card[MirrorOf(f)] =>
                   s.num = f /\ s.dirty = 1 /\ s.mirror = MirrorOf(f)

IInv == TypeOK /\ Good(Now) /\ (~lost => Agree(Now))

\* What the file system sees, and how the card may change under it.
ContentsOf(s)  == [b \in UserBlock |-> IF b = s.num THEN s.buf ELSE s.card[b]]
Settled(s, f)  == \A b \in UserBlock : f.card[b] \in {s.card[b], ContentsOf(s)[b]}

-----------------------------------------------------------------------------
\* The layout in the form the proofs use: the second FAT is apart from every
\* block the file system addresses, and no two blocks have the same mirror.
LEMMA Layout ==
  /\ UserBlock \subseteq Block \ {0}
  /\ UserBlock \cap Mirrors = {}
  /\ Mirrors \subseteq Block \ {0}
  /\ NoBlock \notin Block
  /\ Fat \subseteq UserBlock /\ DataBlock \subseteq UserBlock /\ Fat \cap DataBlock = {}
  /\ \A f \in Fat : MirrorOf(f) \in Mirrors /\ MirrorOf(f) # NoMirror
  /\ \A b, c \in UserBlock : MirrorOf(b) = MirrorOf(c) => b = c
<1>1. \A f \in Fat : f \in Nat /\ f # 0 /\ MirrorOf(f) \in Nat /\ MirrorOf(f) # 0
  BY BlockAssumption, CountAssumption, LayoutAssumption DEF MirrorOf
<1>2. \A b, c \in UserBlock : MirrorOf(b) = MirrorOf(c) => b = c
  BY BlockAssumption, CountAssumption, LayoutAssumption DEF MirrorOf, UserBlock
<1> QED
  BY <1>1, <1>2, BlockAssumption, LayoutAssumption DEF UserBlock, Mirrors, NoMirror

\* A snapshot is determined by its fields.
LEMMA NowIsSnapshot == TypeOK => Now \in Snapshot
  BY DEF TypeOK, Now, Snapshot

\* Writing the buffer to a block changes that block of the card and no more.
LEMMA StoredType ==
  ASSUME NEW s \in Snapshot, NEW b \in Block
  PROVE  /\ Stored(s, b) \in Snapshot
         /\ Stored(s, b).num = s.num /\ Stored(s, b).buf = s.buf
         /\ Stored(s, b).dirty = s.dirty /\ Stored(s, b).mirror = s.mirror
         /\ \A c \in Block : Stored(s, b).card[c] = IF c = b THEN s.buf ELSE s.card[c]
<1>1. Stored(s, b) = [card |-> [s.card EXCEPT ![b] = s.buf], num |-> s.num,
                      buf |-> s.buf, dirty |-> s.dirty, mirror |-> s.mirror]
  BY DEF Stored, Snapshot
<1>2. s.card \in [Block -> Val] /\ s.buf \in Val
  BY DEF Snapshot
<1>3. [s.card EXCEPT ![b] = s.buf] \in [Block -> Val]
      /\ \A c \in Block : [s.card EXCEPT ![b] = s.buf][c] = IF c = b THEN s.buf ELSE s.card[c]
  BY <1>2
<1> QED
  BY <1>1, <1>3 DEF Snapshot

\* The same of a block and its mirror.
LEMMA BothStoredType ==
  ASSUME NEW s \in Snapshot, s.num \in Block
  PROVE  /\ BothStored(s) \in Snapshot
         /\ BothStored(s).num = s.num /\ BothStored(s).buf = s.buf
         /\ BothStored(s).dirty = s.dirty /\ BothStored(s).mirror = s.mirror
         /\ \A c \in UserBlock \cup Mirrors :
              BothStored(s).card[c] = IF c \in {s.num, s.mirror} THEN s.buf ELSE s.card[c]
<1> DEFINE t == Stored(s, s.num)
<1>1. /\ t \in Snapshot
      /\ t.num = s.num /\ t.buf = s.buf /\ t.dirty = s.dirty /\ t.mirror = s.mirror
      /\ \A c \in Block : t.card[c] = IF c = s.num THEN s.buf ELSE s.card[c]
  BY StoredType
<1> HIDE DEF t
<1>2. CASE s.mirror = NoMirror
  <2>1. BothStored(s) = t
    BY <1>2 DEF BothStored, t
  <2> QED
    BY <1>1, <1>2, <2>1, Layout DEF NoMirror
<1>3. CASE s.mirror # NoMirror
  <2>1. s.mirror \in Block
    BY <1>3, Layout DEF Snapshot
  <2>2. BothStored(s) = Stored(t, s.mirror)
    BY <1>3 DEF BothStored, t
  <2>3. /\ Stored(t, s.mirror) \in Snapshot
        /\ Stored(t, s.mirror).num = t.num /\ Stored(t, s.mirror).buf = t.buf
        /\ Stored(t, s.mirror).dirty = t.dirty /\ Stored(t, s.mirror).mirror = t.mirror
        /\ \A c \in Block : Stored(t, s.mirror).card[c] = IF c = s.mirror THEN t.buf ELSE t.card[c]
    BY <1>1, <2>1, StoredType
  <2> QED
    BY <1>1, <2>2, <2>3, Layout
<1> QED
  BY <1>2, <1>3

-----------------------------------------------------------------------------
\* A flush that fails leaves the cache as it is; the blocks it may have
\* written hold the buffer.
LEMMA FlushFailsType ==
  ASSUME NEW s \in Snapshot, NEW f \in FlushFails(s)
  PROVE  /\ f \in Snapshot
         /\ s.dirty = 1
         /\ f.num = s.num /\ f.buf = s.buf /\ f.dirty = s.dirty /\ f.mirror = s.mirror
         /\ \A c \in UserBlock \cup Mirrors :
              /\ f.card[c] \in {s.card[c], s.buf}
              /\ c \notin {s.num, s.mirror} => f.card[c] = s.card[c]
<1>1. s.dirty = 1 /\ f \in {s} \cup (IF Writable(s.num) THEN {Stored(s, s.num), BothStored(s)} ELSE {})
  BY DEF FlushFails, Snapshot
<1>2. CASE f = s
  BY <1>1, <1>2
<1>3. CASE Writable(s.num) /\ f \in {Stored(s, s.num), BothStored(s)}
  <2>1. s.num \in Block
    BY <1>3 DEF Writable
  <2>2. CASE f = Stored(s, s.num)
    BY <1>1, <2>1, <2>2, StoredType, Layout
  <2>3. CASE f = BothStored(s)
    BY <1>1, <2>1, <2>3, BothStoredType
  <2> QED
    BY <1>3, <2>2, <2>3
<1> QED
  BY <1>1, <1>2, <1>3

\* A flush that succeeds leaves a clean cache, its block and mirror written.
LEMMA FlushDoneType ==
  ASSUME NEW s \in Snapshot, FlushCan(s), Pending(s)
  PROVE  /\ FlushDone(s) \in Snapshot
         /\ FlushDone(s).num = s.num /\ FlushDone(s).buf = s.buf
         /\ FlushDone(s).dirty = 0 /\ FlushDone(s).mirror = NoMirror
         /\ s.dirty = 1 => s.num \in UserBlock
         /\ \A c \in UserBlock \cup Mirrors :
              FlushDone(s).card[c] =
                IF s.dirty = 1 /\ c \in {s.num, s.mirror} THEN s.buf ELSE s.card[c]
<1>1. CASE s.dirty = 0
  BY <1>1 DEF FlushDone, Pending, Snapshot
<1>2. CASE s.dirty = 1
  <2> DEFINE t == BothStored(s)
  <2>1. s.num \in Block /\ s.num \in UserBlock
    BY <1>2, Layout DEF FlushCan, Writable, Snapshot
  <2>2. /\ t \in Snapshot /\ t.num = s.num /\ t.buf = s.buf
        /\ \A c \in UserBlock \cup Mirrors :
             t.card[c] = IF c \in {s.num, s.mirror} THEN s.buf ELSE s.card[c]
    BY <2>1, BothStoredType
  <2>3. FlushDone(s) = [t EXCEPT !.dirty = 0, !.mirror = NoMirror]
    BY <1>2 DEF FlushDone, t
  <2> HIDE DEF t
  <2>4. FlushDone(s) = [card |-> t.card, num |-> t.num, buf |-> t.buf,
                        dirty |-> 0, mirror |-> NoMirror]
    BY <2>2, <2>3 DEF Snapshot
  <2> QED
    BY <1>2, <2>1, <2>2, <2>4 DEF Snapshot
<1> QED
  BY <1>1, <1>2 DEF Snapshot

\* A flush, whatever its result, keeps the invariant, the agreement of the
\* FATs and what the file system sees.
LEMMA Flushed ==
  ASSUME NEW s \in Snapshot, Good(s), NEW f \in FlushLeaves(s)
  PROVE  /\ f \in Snapshot
         /\ f.num = s.num /\ f.buf = s.buf
         /\ f.dirty = 0 => f.mirror = NoMirror
         /\ f.dirty = 1 => s.dirty = 1 /\ f.mirror = s.mirror
         /\ Good(f)
         /\ Agree(s) => Agree(f)
         /\ ContentsOf(f) = ContentsOf(s)
         /\ Settled(s, f)
<1>1. s.num \in UserBlock \cup {NoBlock} /\ s.mirror \in Mirrors \cup {NoMirror} /\ s.dirty \in {0, 1}
  BY DEF Snapshot
<1>2. CASE f \in FlushFails(s)
  <2>1. /\ f \in Snapshot
        /\ s.dirty = 1
        /\ f.num = s.num /\ f.buf = s.buf /\ f.dirty = s.dirty /\ f.mirror = s.mirror
        /\ \A c \in UserBlock \cup Mirrors :
             /\ f.card[c] \in {s.card[c], s.buf}
             /\ c \notin {s.num, s.mirror} => f.card[c] = s.card[c]
    BY <1>2, FlushFailsType
  <2>2. \A c \in UserBlock : c # s.num => f.card[c] = s.card[c]
    BY <1>1, <2>1, Layout DEF NoMirror
  <2>3. Good(f)
    BY <2>1 DEF Good, Sound, Pending, DirtyFat
  <2>4. Agree(s) => Agree(f)
    <3> SUFFICES ASSUME Agree(s), FatCount > 1,
                        NEW x \in Fat, f.card[x] # f.card[MirrorOf(x)]
                 PROVE  f.num = x /\ f.dirty = 1 /\ f.mirror = MirrorOf(x)
      BY DEF Agree
    <3>1. x \in UserBlock /\ MirrorOf(x) \in Mirrors
      BY Layout
    <3>2. CASE x = s.num
      BY <2>1, <3>2 DEF Good, DirtyFat
    <3>3. CASE x # s.num
      <4>1. f.card[x] = s.card[x]
        BY <2>2, <3>1, <3>3
      <4>2. MirrorOf(x) # s.num /\ MirrorOf(x) # NoMirror
        BY <1>1, <3>1, Layout
      <4>3. CASE MirrorOf(x) = s.mirror
        <5>1. s.num = NoBlock \/ MirrorOf(s.num) = MirrorOf(x)
          BY <4>2, <4>3 DEF Good, Pending
        <5>2. s.num = NoBlock
          BY <1>1, <3>1, <3>3, <5>1, Layout
        <5>3. f = s
          BY <1>1, <1>2, <2>1, <5>2, Layout DEF FlushFails, Writable
        <5> QED
          BY <5>3 DEF Agree
      <4>4. CASE MirrorOf(x) # s.mirror
        BY <2>1, <3>1, <3>3, <4>1, <4>2, <4>4 DEF Agree
      <4> QED
        BY <4>3, <4>4
    <3> QED
      BY <3>2, <3>3
  <2>5. ContentsOf(f) = ContentsOf(s) /\ Settled(s, f)
    BY <2>1, <2>2 DEF ContentsOf, Settled
  <2> QED
    BY <2>1, <2>3, <2>4, <2>5
<1>3. CASE FlushCan(s) /\ f = FlushDone(s)
  <2>1. /\ f \in Snapshot
        /\ f.num = s.num /\ f.buf = s.buf
        /\ f.dirty = 0 /\ f.mirror = NoMirror
        /\ s.dirty = 1 => s.num \in UserBlock
        /\ \A c \in UserBlock \cup Mirrors :
             f.card[c] = IF s.dirty = 1 /\ c \in {s.num, s.mirror} THEN s.buf ELSE s.card[c]
    BY <1>3, FlushDoneType DEF Good
  <2>2. \A c \in UserBlock : f.card[c] = IF s.dirty = 1 /\ c = s.num THEN s.buf ELSE s.card[c]
    BY <1>1, <2>1, Layout DEF NoMirror
  <2>3. Good(f)
    BY <1>1, <2>1, <2>2 DEF Good, Sound, Pending, DirtyFat
  <2>4. Agree(s) => Agree(f)
    <3> SUFFICES ASSUME Agree(s), FatCount > 1, NEW x \in Fat
                 PROVE  f.card[x] = f.card[MirrorOf(x)]
      BY DEF Agree
    <3>1. x \in UserBlock /\ MirrorOf(x) \in Mirrors /\ MirrorOf(x) # s.num
      BY <1>1, Layout
    <3>2. CASE s.dirty = 1 /\ x = s.num
      BY <2>1, <3>1, <3>2 DEF Good, DirtyFat
    <3>3. CASE s.dirty = 1 /\ x # s.num
      <4>1. MirrorOf(x) # s.mirror
        BY <1>1, <2>1, <3>1, <3>3, Layout DEF Good, Pending
      <4> QED
        BY <2>1, <2>2, <3>1, <3>3, <4>1 DEF Agree
    <3>4. CASE s.dirty = 0
      BY <2>1, <3>1, <3>4 DEF Agree
    <3> QED
      BY <1>1, <3>2, <3>3, <3>4
  <2>5. ContentsOf(f) = ContentsOf(s) /\ Settled(s, f)
    <3>1. \A c \in UserBlock : (IF c = s.num THEN s.buf ELSE f.card[c])
                                 = (IF c = s.num THEN s.buf ELSE s.card[c])
      BY <2>2
    <3> QED
      BY <2>1, <2>2, <3>1 DEF ContentsOf, Settled
  <2> QED
    BY <2>1, <2>3, <2>4, <2>5
<1> QED
  BY <1>2, <1>3 DEF FlushLeaves

-----------------------------------------------------------------------------
\* A load that succeeds shows the caller what the file system last saw there.
LEMMA Loaded ==
  ASSUME NEW s \in Snapshot, Good(s), NEW b \in UserBlock, LoadCan(s, b)
  PROVE  /\ LoadDone(s, b) \in Snapshot
         /\ LoadDone(s, b).num = b /\ LoadDone(s, b).buf = ContentsOf(s)[b]
         /\ Good(LoadDone(s, b))
         /\ Agree(s) => Agree(LoadDone(s, b))
         /\ ContentsOf(LoadDone(s, b)) = ContentsOf(s)
         /\ Settled(s, LoadDone(s, b))
<1>1. CASE s.num = b
  BY <1>1 DEF LoadDone, ContentsOf, Settled
<1>2. CASE s.num # b
  <2> DEFINE f == FlushDone(s)
             l == LoadDone(s, b)
  <2>1. FlushCan(s) /\ f \in FlushLeaves(s)
    BY <1>2 DEF LoadCan, FlushLeaves
  <2>2. /\ f \in Snapshot
        /\ f.num = s.num /\ f.buf = s.buf
        /\ Agree(s) => Agree(f)
        /\ ContentsOf(f) = ContentsOf(s)
        /\ Settled(s, f)
    BY <2>1, Flushed
  <2>3. f.dirty = 0 /\ f.mirror = NoMirror
        /\ \A c \in UserBlock \cup Mirrors :
             f.card[c] = IF s.dirty = 1 /\ c \in {s.num, s.mirror} THEN s.buf ELSE s.card[c]
    BY <2>1, FlushDoneType DEF Good
  <2>4. l = [f EXCEPT !.num = b, !.buf = f.card[b]]
    BY <1>2 DEF LoadDone
  <2> HIDE DEF f, l
  <2>5. l = [card |-> f.card, num |-> b, buf |-> f.card[b], dirty |-> 0, mirror |-> NoMirror]
    BY <2>2, <2>3, <2>4 DEF Snapshot
  <2>6. b \in Block /\ b # NoBlock
    BY Layout
  <2>7. l \in Snapshot /\ l.num = b /\ l.card = f.card /\ l.buf = f.card[b]
        /\ l.dirty = 0 /\ l.mirror = NoMirror
    BY <2>2, <2>5, <2>6 DEF Snapshot
  <2>8. \A c \in UserBlock : f.card[c] = ContentsOf(s)[c]
    <3>1. s.num \in UserBlock \cup {NoBlock} /\ s.mirror \in Mirrors \cup {NoMirror} /\ s.dirty \in {0, 1}
      BY DEF Snapshot
    <3>2. SUFFICES ASSUME NEW c \in UserBlock
                   PROVE  f.card[c] = IF c = s.num THEN s.buf ELSE s.card[c]
      BY DEF ContentsOf
    <3>3. c # s.mirror /\ c # NoBlock
      BY <3>1, Layout DEF NoMirror
    <3> QED
      BY <2>3, <3>1, <3>3 DEF Good, Sound
  <2>9. Good(l)
    BY <2>7 DEF Good, Sound, Pending, DirtyFat
  <2>10. Agree(s) => Agree(l)
    BY <2>2, <2>3, <2>7 DEF Agree
  <2>11. ContentsOf(l) = ContentsOf(s)
    <3>1. \A c \in UserBlock : (IF c = l.num THEN l.buf ELSE l.card[c]) = ContentsOf(s)[c]
      BY <2>7, <2>8
    <3> QED
      BY <3>1 DEF ContentsOf
  <2>12. Settled(s, l)
    BY <2>2, <2>7 DEF Settled
  <2> QED
    BY <2>7, <2>8, <2>9, <2>10, <2>11, <2>12 DEF l
<1> QED
  BY <1>1, <1>2

\* Changing the buffer of a data block, and setting it dirty.
LEMMA EditedData ==
  ASSUME NEW s \in Snapshot, Good(s), s.num \in DataBlock, NEW v \in Val
  PROVE  /\ Edited(s, v) \in Snapshot
         /\ Good(Edited(s, v))
         /\ Agree(s) => Agree(Edited(s, v))
         /\ ContentsOf(Edited(s, v)) = [ContentsOf(s) EXCEPT ![s.num] = v]
         /\ Edited(s, v).card = s.card
<1> DEFINE e == Edited(s, v)
<1>0. e = [s EXCEPT !.buf = v, !.dirty = 1]
  BY DEF Edited
<1> HIDE DEF e
<1>1. e = [card |-> s.card, num |-> s.num, buf |-> v, dirty |-> 1, mirror |-> s.mirror]
  BY <1>0 DEF Snapshot
<1>2. e \in Snapshot /\ e.card = s.card /\ e.num = s.num /\ e.buf = v
      /\ e.dirty = 1 /\ e.mirror = s.mirror
  BY <1>1 DEF Snapshot
<1>3. s.num \in UserBlock /\ s.num \notin Fat /\ s.num # NoBlock
  BY Layout
<1>4. Good(e)
  BY <1>2, <1>3 DEF Good, Sound, Pending, DirtyFat
<1>5. Agree(s) => Agree(e)
  BY <1>2, <1>3 DEF Agree
<1>6. ContentsOf(e) = [ContentsOf(s) EXCEPT ![s.num] = v]
  BY <1>2, <1>3 DEF ContentsOf
<1> QED
  BY <1>2, <1>4, <1>5, <1>6 DEF e

\* The same of a block of the FAT, with the second copy left to write.
LEMMA EditedFat ==
  ASSUME NEW s \in Snapshot, Good(s), s.num \in Fat, NEW v \in Val, NEW e,
         e = Mirrored(Edited(s, v))
  PROVE  /\ e \in Snapshot
         /\ Good(e)
         /\ Agree(s) => Agree(e)
         /\ ContentsOf(e) = [ContentsOf(s) EXCEPT ![s.num] = v]
         /\ e.card = s.card
<1> DEFINE m == IF FatCount > 1 THEN MirrorOf(s.num) ELSE s.mirror
<1> DEFINE d == Edited(s, v)
<1>0. d = [s EXCEPT !.buf = v, !.dirty = 1] /\ e = Mirrored(d)
  BY DEF Edited
<1> HIDE DEF d
<1>a. d = [card |-> s.card, num |-> s.num, buf |-> v, dirty |-> 1, mirror |-> s.mirror]
  BY <1>0 DEF Snapshot
<1>1. e = [card |-> s.card, num |-> s.num, buf |-> v, dirty |-> 1, mirror |-> m]
  BY ONLY <1>0, <1>a DEF Mirrored, m
<1>2. m \in Mirrors \cup {NoMirror}
  BY Layout DEF Snapshot
<1>3. FatCount > 1 => m = MirrorOf(s.num)
  OBVIOUS
<1>4. m # NoMirror => m = MirrorOf(s.num)
  <2>1. s.num # NoBlock
    BY Layout
  <2> QED
    BY <2>1 DEF Good, Pending
<1> HIDE DEF m
<1>5. e \in Snapshot /\ e.card = s.card /\ e.num = s.num /\ e.buf = v
      /\ e.dirty = 1 /\ e.mirror = m
  BY <1>1, <1>2 DEF Snapshot
<1>6. Good(e)
  BY <1>3, <1>4, <1>5 DEF Good, Sound, Pending, DirtyFat
<1>7. Agree(s) => Agree(e)
  BY <1>3, <1>5 DEF Agree
<1>8. ContentsOf(e) = [ContentsOf(s) EXCEPT ![s.num] = v]
  <2>1. s.num \in UserBlock
    BY Layout
  <2> QED
    BY ONLY <1>5, <2>1 DEF ContentsOf
<1> QED
  BY <1>5, <1>6, <1>7, <1>8

\* A data block taken into the cache without being read.
LEMMA AdoptedType ==
  ASSUME NEW s \in Snapshot, Good(s), NEW b \in DataBlock, NEW v \in Val, FlushCan(s)
  PROVE  /\ Adopted(s, b, v) \in Snapshot
         /\ Good(Adopted(s, b, v))
         /\ Agree(s) => Agree(Adopted(s, b, v))
         /\ ContentsOf(Adopted(s, b, v)) = [ContentsOf(s) EXCEPT ![b] = v]
         /\ Settled(s, Adopted(s, b, v))
<1> DEFINE f == FlushDone(s)
           a == Adopted(s, b, v)
<1>1. f \in FlushLeaves(s)
  BY DEF FlushLeaves
<1>2. /\ f \in Snapshot
      /\ f.num = s.num /\ f.buf = s.buf
      /\ Good(f)
      /\ Agree(s) => Agree(f)
      /\ ContentsOf(f) = ContentsOf(s)
      /\ Settled(s, f)
  BY <1>1, Flushed
<1>3. f.dirty = 0 /\ f.mirror = NoMirror
  BY FlushDoneType DEF Good
<1>4. a = [[f EXCEPT !.buf = v, !.dirty = 1] EXCEPT !.num = b]
  BY DEF Adopted, Edited
<1> HIDE DEF f, a
<1>5. a = [card |-> f.card, num |-> b, buf |-> v, dirty |-> 1, mirror |-> NoMirror]
  BY <1>2, <1>3, <1>4 DEF Snapshot
<1>6. b \in UserBlock /\ b \notin Fat /\ b # NoBlock
  BY Layout
<1>7. a \in Snapshot /\ a.card = f.card /\ a.num = b /\ a.buf = v
      /\ a.dirty = 1 /\ a.mirror = NoMirror
  BY <1>2, <1>5, <1>6 DEF Snapshot
<1>8. Good(a)
  BY <1>6, <1>7 DEF Good, Sound, Pending, DirtyFat
<1>9. Agree(s) => Agree(a)
  BY <1>2, <1>3, <1>7 DEF Agree
<1>10. \A c \in UserBlock : f.card[c] = ContentsOf(s)[c]
  <2>1. \A c \in UserBlock : ContentsOf(f)[c] = f.card[c]
    <3>1. f.num # NoBlock => f.buf = f.card[f.num]
      BY <1>2, <1>3 DEF Good, Sound
    <3> QED
      BY <3>1, Layout DEF ContentsOf
  <2> QED
    BY <1>2, <2>1
<1>11. ContentsOf(a) = [ContentsOf(s) EXCEPT ![b] = v]
  <2>1. \A c \in UserBlock : (IF c = a.num THEN a.buf ELSE a.card[c])
                               = (IF c = b THEN v ELSE ContentsOf(s)[c])
    BY <1>7, <1>10
  <2>2. ContentsOf(a) = [c \in UserBlock |-> IF c = b THEN v ELSE ContentsOf(s)[c]]
    BY <2>1 DEF ContentsOf
  <2> QED
    BY <2>2 DEF ContentsOf
<1>12. Settled(s, a)
  BY <1>2, <1>7 DEF Settled
<1> QED
  BY <1>7, <1>8, <1>9, <1>11, <1>12 DEF a

-----------------------------------------------------------------------------
(***************************************************************************)
(* Steps.  A call that becomes a snapshot with the invariant keeps it, and *)
(* what the file system sees is what it sees in that snapshot.             *)
(***************************************************************************)
LEMMA NowIs ==
  ASSUME IInv
  PROVE  /\ Now \in Snapshot /\ Good(Now) /\ (~lost => Agree(Now))
         /\ Contents = ContentsOf(Now)
         /\ ok \in BOOLEAN /\ lost \in BOOLEAN
         /\ got \in [block : Block, val : Val] \cup {NoRead}
<1>1. Contents = ContentsOf(Now)
  BY DEF Contents, ContentsOf, Now
<1> QED
  BY <1>1, NowIsSnapshot DEF IInv, TypeOK

LEMMA Becoming ==
  ASSUME NEW s \in Snapshot, Becomes(s), Good(s),
         ok' \in BOOLEAN, lost' \in BOOLEAN, ~lost' => Agree(s),
         got' \in [block : Block, val : Val] \cup {NoRead}
  PROVE  IInv' /\ Contents' = ContentsOf(s) /\ card' = s.card
<1>1. Now' = s
  BY DEF Becomes, Now, Snapshot
<1>2. TypeOK'
  BY DEF Becomes, TypeOK, Snapshot
<1>3. Good(Now)' /\ (~lost => Agree(Now))'
  BY <1>1 DEF Good, Sound, Pending, DirtyFat, Agree
<1>4. Contents' = ContentsOf(s)
  BY DEF Becomes, Contents, ContentsOf
<1> QED
  BY <1>2, <1>3, <1>4 DEF IInv, Becomes

\* What reaches the card in a step is allowed by the store.
LEMMA Settling ==
  ASSUME IInv, NEW s \in Snapshot, Becomes(s),
         \A b \in UserBlock : s.card[b] \in {card[b], Contents[b], ContentsOf(s)[b]}
  PROVE  Store!Settles
<1>1. card' = s.card /\ Contents' = ContentsOf(s)
  BY DEF Becomes, Contents, ContentsOf
<1>2. s.card \in [Block -> Val] /\ UserBlock \subseteq Block
  BY Layout DEF Snapshot
<1>3. [b \in UserBlock |-> card'[b]] \in [UserBlock -> Val]
  BY <1>1, <1>2
<1> QED
  BY <1>1, <1>3 DEF Store!Settles

\* A call that fails in its flush fails for the file system too.
LEMMA Failing ==
  ASSUME IInv, NEW S, S \subseteq FlushLeaves(Now), Fails(S)
  PROVE  IInv' /\ Store!Fail
<1>1. PICK s \in FlushLeaves(Now) : Leaves(s, FALSE)
  BY DEF Fails
<1>2. /\ Now \in Snapshot /\ Good(Now) /\ (~lost => Agree(Now))
      /\ Contents = ContentsOf(Now)
      /\ ok \in BOOLEAN /\ lost \in BOOLEAN
      /\ got \in [block : Block, val : Val] \cup {NoRead}
  BY NowIs
<1>3. /\ s \in Snapshot /\ Good(s) /\ (Agree(Now) => Agree(s))
      /\ ContentsOf(s) = ContentsOf(Now) /\ Settled(Now, s)
  BY <1>1, <1>2, Flushed
<1>4. Becomes(s) /\ ok' = FALSE /\ got' = got /\ lost' = lost
  BY <1>1 DEF Leaves
<1>5. IInv' /\ Contents' = ContentsOf(s)
  <2>1. /\ ok' \in BOOLEAN /\ lost' \in BOOLEAN /\ (~lost' => Agree(s))
        /\ got' \in [block : Block, val : Val] \cup {NoRead}
    BY <1>2, <1>3, <1>4
  <2> QED
    BY ONLY <1>3, <1>4, <2>1, Becoming
<1>6. Store!Settles
  <2>1. \A b \in UserBlock : s.card[b] \in {card[b], Contents[b], ContentsOf(s)[b]}
    BY <1>2, <1>3 DEF Settled, Now
  <2> QED
    BY <1>3, <1>4, <2>1, Settling
<1> QED
  BY <1>2, <1>3, <1>4, <1>5, <1>6 DEF Store!Fail

\* A call that puts v in the buffer of b is a write for the file system.
LEMMA Writing ==
  ASSUME IInv, NEW b \in UserBlock, NEW v \in Val, NEW s \in Snapshot, Leaves(s, TRUE),
         Good(s), Agree(Now) => Agree(s),
         ContentsOf(s) = [ContentsOf(Now) EXCEPT ![b] = v], Settled(Now, s)
  PROVE  IInv' /\ Store!Write(b, v)
<1>1. /\ Now \in Snapshot /\ Good(Now) /\ (~lost => Agree(Now))
      /\ Contents = ContentsOf(Now)
      /\ ok \in BOOLEAN /\ lost \in BOOLEAN
      /\ got \in [block : Block, val : Val] \cup {NoRead}
  BY NowIs
<1>2. Becomes(s) /\ ok' = TRUE /\ got' = got /\ lost' = lost
  BY DEF Leaves
<1>3. IInv' /\ Contents' = ContentsOf(s)
  <2>1. /\ ok' \in BOOLEAN /\ lost' \in BOOLEAN /\ (~lost' => Agree(s))
        /\ got' \in [block : Block, val : Val] \cup {NoRead}
    BY <1>1, <1>2
  <2>2. s \in Snapshot /\ Good(s)
    OBVIOUS
  <2> QED
    BY ONLY <1>2, <2>1, <2>2, Becoming
<1>4. Store!Settles
  <2>1. \A c \in UserBlock : s.card[c] \in {card[c], Contents[c], ContentsOf(s)[c]}
    BY <1>1 DEF Settled, Now
  <2> QED
    BY <1>2, <2>1, Settling
<1> QED
  BY <1>1, <1>2, <1>3, <1>4 DEF Store!Write

-----------------------------------------------------------------------------
\* One lemma per call: it keeps the invariant and is a step of the store.
LEMMA LoadFailsFlush ==
  ASSUME NEW s, NEW b
  PROVE  LoadFails(s, b) \subseteq FlushLeaves(s)
  BY DEF LoadFails

LEMMA CacheFlushStep ==
  ASSUME IInv, CacheFlush
  PROVE  IInv' /\ (Store!Fail \/ Store!Sync)
<1>1. CASE Fails(FlushFails(Now))
  <2>1. FlushFails(Now) \subseteq FlushLeaves(Now)
    BY DEF FlushLeaves
  <2> QED
    BY <1>1, <2>1, Failing
<1>2. CASE FlushCan(Now) /\ Leaves(FlushDone(Now), TRUE)
  <2> DEFINE f == FlushDone(Now)
  <2>1. /\ Now \in Snapshot /\ Good(Now) /\ (~lost => Agree(Now))
        /\ Contents = ContentsOf(Now)
        /\ lost \in BOOLEAN /\ got \in [block : Block, val : Val] \cup {NoRead}
    BY NowIs
  <2>2. f \in FlushLeaves(Now)
    BY <1>2 DEF FlushLeaves
  <2>3. /\ f \in Snapshot /\ f.num = Now.num /\ f.buf = Now.buf
        /\ Good(f) /\ (Agree(Now) => Agree(f))
        /\ ContentsOf(f) = ContentsOf(Now)
    BY <2>1, <2>2, Flushed
  <2>4. f.dirty = 0
    BY <1>2, <2>1, FlushDoneType DEF Good
  <2>5. Becomes(f) /\ ok' = TRUE /\ got' = got /\ lost' = lost
    BY <1>2 DEF Leaves
  <2> HIDE DEF f
  <2>6. IInv' /\ Contents' = ContentsOf(f) /\ card' = f.card
    <3>1. /\ ok' \in BOOLEAN /\ lost' \in BOOLEAN /\ (~lost' => Agree(f))
          /\ got' \in [block : Block, val : Val] \cup {NoRead}
      BY <2>1, <2>3, <2>5
    <3> QED
      BY ONLY <2>3, <2>5, <3>1, Becoming
  <2>7. [b \in UserBlock |-> f.card[b]] = ContentsOf(f)
    <3>1. f.num # NoBlock => f.buf = f.card[f.num]
      BY <2>3, <2>4 DEF Good, Sound
    <3>2. NoBlock \notin UserBlock
      BY Layout
    <3> QED
      BY <3>1, <3>2 DEF ContentsOf
  <2> QED
    BY <2>1, <2>3, <2>5, <2>6, <2>7 DEF Store!Sync
<1> QED
  BY <1>1, <1>2 DEF CacheFlush

LEMMA CacheReadStep ==
  ASSUME IInv, NEW b \in UserBlock, CacheRead(b)
  PROVE  IInv' /\ (Store!Fail \/ Store!Read(b))
<1>1. CASE Fails(LoadFails(Now, b))
  BY <1>1, LoadFailsFlush, Failing
<1>2. CASE /\ LoadCan(Now, b)
           /\ Becomes(LoadDone(Now, b))
           /\ got' = [block |-> b, val |-> LoadDone(Now, b).buf]
           /\ ok' = TRUE /\ UNCHANGED lost
  <2> DEFINE l == LoadDone(Now, b)
  <2>1. /\ Now \in Snapshot /\ Good(Now) /\ (~lost => Agree(Now))
        /\ Contents = ContentsOf(Now) /\ lost \in BOOLEAN
    BY NowIs
  <2>2. /\ l \in Snapshot /\ Good(l) /\ (Agree(Now) => Agree(l))
        /\ ContentsOf(l) = ContentsOf(Now) /\ Settled(Now, l)
        /\ l.buf = ContentsOf(Now)[b]
    BY <1>2, <2>1, Loaded
  <2>3. /\ Becomes(l) /\ ok' = TRUE /\ lost' = lost
        /\ got' = [block |-> b, val |-> l.buf]
    BY <1>2
  <2> HIDE DEF l
  <2>4. IInv' /\ Contents' = ContentsOf(l)
    <3>1. l.buf \in Val /\ b \in Block
      BY <2>2, Layout DEF Snapshot
    <3>2. /\ ok' \in BOOLEAN /\ lost' \in BOOLEAN /\ (~lost' => Agree(l))
          /\ got' \in [block : Block, val : Val] \cup {NoRead}
      BY <2>1, <2>2, <2>3, <3>1
    <3> QED
      BY ONLY <2>2, <2>3, <3>2, Becoming
  <2>5. Store!Settles
    <3>1. \A c \in UserBlock : l.card[c] \in {card[c], Contents[c], ContentsOf(l)[c]}
      BY <2>1, <2>2 DEF Settled, Now
    <3> QED
      BY <2>2, <2>3, <3>1, Settling
  <2> QED
    BY <2>1, <2>2, <2>3, <2>4, <2>5 DEF Store!Read
<1> QED
  BY <1>1, <1>2 DEF CacheRead

LEMMA CacheWriteStep ==
  ASSUME IInv, NEW b \in DataBlock, NEW v \in Val, CacheWrite(b, v)
  PROVE  IInv' /\ (Store!Fail \/ Store!Write(b, v))
<1>0. b \in UserBlock
  BY Layout
<1>1. CASE Fails(LoadFails(Now, b))
  BY <1>1, LoadFailsFlush, Failing
<1>2. CASE LoadCan(Now, b) /\ Leaves(Edited(LoadDone(Now, b), v), TRUE)
  <2> DEFINE l == LoadDone(Now, b)
             e == Edited(l, v)
  <2>1. Now \in Snapshot /\ Good(Now)
    BY NowIs
  <2>2. /\ l \in Snapshot /\ l.num = b /\ Good(l) /\ (Agree(Now) => Agree(l))
        /\ ContentsOf(l) = ContentsOf(Now) /\ Settled(Now, l)
    BY <1>0, <1>2, <2>1, Loaded
  <2> HIDE DEF l
  <2>3. /\ e \in Snapshot /\ Good(e) /\ (Agree(l) => Agree(e))
        /\ ContentsOf(e) = [ContentsOf(l) EXCEPT ![l.num] = v]
        /\ e.card = l.card
    BY <2>2, EditedData
  <2>4. Leaves(e, TRUE)
    BY <1>2 DEF l
  <2> HIDE DEF e
  <2>5. /\ Good(e) /\ (Agree(Now) => Agree(e))
        /\ ContentsOf(e) = [ContentsOf(Now) EXCEPT ![b] = v] /\ Settled(Now, e)
    BY <2>2, <2>3 DEF Settled
  <2> QED
    BY <1>0, <2>3, <2>4, <2>5, Writing
<1> QED
  BY <1>1, <1>2 DEF CacheWrite

LEMMA FatPutStep ==
  ASSUME IInv, NEW b \in Fat, NEW v \in Val, FatPut(b, v)
  PROVE  IInv' /\ (Store!Fail \/ Store!Write(b, v))
<1>0. b \in UserBlock
  BY Layout
<1>1. CASE Fails(LoadFails(Now, b))
  BY <1>1, LoadFailsFlush, Failing
<1>2. CASE LoadCan(Now, b) /\ Leaves(Mirrored(Edited(LoadDone(Now, b), v)), TRUE)
  <2> DEFINE l == LoadDone(Now, b)
             e == Mirrored(Edited(l, v))
  <2>1. Now \in Snapshot /\ Good(Now)
    BY NowIs
  <2>2. /\ l \in Snapshot /\ l.num = b /\ Good(l) /\ (Agree(Now) => Agree(l))
        /\ ContentsOf(l) = ContentsOf(Now) /\ Settled(Now, l)
    BY <1>0, <1>2, <2>1, Loaded
  <2> HIDE DEF l
  <2>3. /\ e \in Snapshot /\ Good(e) /\ (Agree(l) => Agree(e))
        /\ ContentsOf(e) = [ContentsOf(l) EXCEPT ![l.num] = v]
        /\ e.card = l.card
    BY <2>2, EditedFat
  <2>4. Leaves(e, TRUE)
    BY <1>2 DEF l
  <2> HIDE DEF e
  <2>5. /\ Good(e) /\ (Agree(Now) => Agree(e))
        /\ ContentsOf(e) = [ContentsOf(Now) EXCEPT ![b] = v] /\ Settled(Now, e)
    BY <2>2, <2>3 DEF Settled
  <2> QED
    BY <1>0, <2>3, <2>4, <2>5, Writing
<1> QED
  BY <1>1, <1>2 DEF FatPut

LEMMA AdoptStep ==
  ASSUME IInv, NEW b \in DataBlock, NEW v \in Val,
         \/ Fails(FlushFails(Now))
         \/ FlushCan(Now) /\ Leaves(Adopted(Now, b, v), TRUE)
  PROVE  IInv' /\ (Store!Fail \/ Store!Write(b, v))
<1>1. CASE Fails(FlushFails(Now))
  <2>1. FlushFails(Now) \subseteq FlushLeaves(Now)
    BY DEF FlushLeaves
  <2> QED
    BY <1>1, <2>1, Failing
<1>2. CASE FlushCan(Now) /\ Leaves(Adopted(Now, b, v), TRUE)
  <2> DEFINE a == Adopted(Now, b, v)
  <2>1. Now \in Snapshot /\ Good(Now) /\ b \in UserBlock
    BY NowIs, Layout
  <2>2. /\ a \in Snapshot /\ Good(a) /\ (Agree(Now) => Agree(a))
        /\ ContentsOf(a) = [ContentsOf(Now) EXCEPT ![b] = v] /\ Settled(Now, a)
    BY <1>2, <2>1, AdoptedType
  <2>3. Leaves(a, TRUE)
    BY <1>2
  <2> HIDE DEF a
  <2> QED
    BY <2>1, <2>2, <2>3, Writing
<1> QED
  BY <1>1, <1>2

\* Dropping a data block from the cache, and writing it past the cache.
LEMMA Bypassed ==
  ASSUME IInv, NEW b \in DataBlock, NEW v \in Val,
         NEW s \in {Forgotten(b), WithCard(Forgotten(b), b, v)}
  PROVE  /\ s \in Snapshot
         /\ Good(s) /\ (Agree(Now) => Agree(s))
         /\ Settled(Now, s) \/ s.card[b] = v
         /\ \A c \in UserBlock : c # b => s.card[c] = Now.card[c]
         /\ \E u \in {v, Contents[b], card[b]} :
              u = s.card[b] /\ ContentsOf(s) = [Contents EXCEPT ![b] = u]
         /\ s = WithCard(Forgotten(b), b, v) => s.card[b] = v
<1> DEFINE n == IF cacheBlockNumber = b THEN NoBlock ELSE cacheBlockNumber
           c == IF s = WithCard(Forgotten(b), b, v) THEN [card EXCEPT ![b] = v] ELSE card
<1>1. /\ Now \in Snapshot /\ Good(Now) /\ Contents = ContentsOf(Now)
      /\ b \in UserBlock /\ b \in Block /\ b # NoBlock /\ b \notin Fat /\ b \notin Mirrors
  BY NowIs, Layout
<1>2. Forgotten(b) = [card |-> card, num |-> n, buf |-> cacheBuffer,
                      dirty |-> cacheDirty, mirror |-> cacheMirrorBlock]
  BY DEF Forgotten, Now
<1>3. WithCard(Forgotten(b), b, v) =
        [card |-> [card EXCEPT ![b] = v], num |-> n, buf |-> cacheBuffer,
         dirty |-> cacheDirty, mirror |-> cacheMirrorBlock]
  BY <1>2 DEF WithCard
<1>4. s = [card |-> c, num |-> n, buf |-> cacheBuffer,
           dirty |-> cacheDirty, mirror |-> cacheMirrorBlock]
  BY <1>2, <1>3
<1>5. c \in {card, [card EXCEPT ![b] = v]}
  OBVIOUS
<1>6. s = WithCard(Forgotten(b), b, v) => c = [card EXCEPT ![b] = v]
  OBVIOUS
<1>7. n = IF cacheBlockNumber = b THEN NoBlock ELSE cacheBlockNumber
  OBVIOUS
<1> HIDE DEF n, c
<1>8. /\ card \in [Block -> Val] /\ cacheBlockNumber \in UserBlock \cup {NoBlock}
      /\ cacheBuffer \in Val /\ cacheDirty \in {0, 1}
      /\ cacheMirrorBlock \in Mirrors \cup {NoMirror}
  BY DEF IInv, TypeOK
<1>9. /\ c \in [Block -> Val]
      /\ \A d \in Block : d # b => c[d] = card[d]
      /\ c[b] \in {card[b], v}
      /\ c = [card EXCEPT ![b] = v] => c[b] = v
      /\ c # [card EXCEPT ![b] = v] => c = card
  BY <1>1, <1>5, <1>8
<1>10. /\ s \in Snapshot
       /\ s.card = c /\ s.num = n /\ s.buf = cacheBuffer
       /\ s.dirty = cacheDirty /\ s.mirror = cacheMirrorBlock
  BY <1>4, <1>7, <1>8, <1>9 DEF Snapshot
<1>11. /\ Now.card = card /\ Now.num = cacheBlockNumber /\ Now.buf = cacheBuffer
       /\ Now.dirty = cacheDirty /\ Now.mirror = cacheMirrorBlock
  BY DEF Now
<1>12. UserBlock \subseteq Block /\ Mirrors \subseteq Block /\ NoBlock \notin UserBlock
       /\ Fat \subseteq UserBlock /\ \A f \in Fat : MirrorOf(f) \in Mirrors
  BY Layout
<1>13. Good(s)
  <2>1. Sound(s)
    BY <1>1, <1>7, <1>8, <1>9, <1>10, <1>11, <1>12 DEF Good, Sound
  <2>2. Pending(s)
    BY <1>1, <1>7, <1>10, <1>11 DEF Good, Pending
  <2>3. DirtyFat(s)
    BY <1>1, <1>7, <1>10, <1>11, <1>12 DEF Good, DirtyFat
  <2> QED
    BY <2>1, <2>2, <2>3 DEF Good
<1>14. Agree(Now) => Agree(s)
  <2>1. \A f \in Fat : c[f] = card[f] /\ c[MirrorOf(f)] = card[MirrorOf(f)]
    BY <1>1, <1>9, <1>12
  <2> QED
    BY <1>1, <1>7, <1>10, <1>11, <2>1 DEF Agree
<1>15. Settled(Now, s) \/ s.card[b] = v
  <2>1. c = card => Settled(Now, s)
    BY <1>10, <1>11 DEF Settled
  <2> QED
    BY <1>9, <1>10, <2>1
<1>16. \A d \in UserBlock : ContentsOf(s)[d] = IF d = b THEN c[b] ELSE Contents[d]
  <2> SUFFICES ASSUME NEW d \in UserBlock
               PROVE  (IF d = n THEN cacheBuffer ELSE c[d]) = IF d = b THEN c[b] ELSE Contents[d]
    BY <1>10 DEF ContentsOf
  <2> QED
    BY <1>1, <1>7, <1>9, <1>12 DEF Contents
<1>17. ContentsOf(s) = [Contents EXCEPT ![b] = c[b]]
  BY <1>1, <1>16 DEF Contents, ContentsOf
<1> QED
  BY <1>6, <1>9, <1>10, <1>11, <1>12, <1>13, <1>14, <1>15, <1>17

LEMMA WriteThroughStep ==
  ASSUME IInv, NEW b \in DataBlock, NEW v \in Val, WriteThrough(b, v)
  PROVE  IInv' /\ (Store!FailedWrite(b, v) \/ Store!Write(b, v))
<1>1. PICK s \in {Forgotten(b), WithCard(Forgotten(b), b, v)} :
        Leaves(s, FALSE) \/ (s = WithCard(Forgotten(b), b, v) /\ Leaves(s, TRUE))
  BY DEF WriteThrough, Fails
<1>2. /\ s \in Snapshot
      /\ Good(s) /\ (Agree(Now) => Agree(s))
      /\ Settled(Now, s) \/ s.card[b] = v
      /\ \A c \in UserBlock : c # b => s.card[c] = Now.card[c]
      /\ \E u \in {v, Contents[b], card[b]} :
           u = s.card[b] /\ ContentsOf(s) = [Contents EXCEPT ![b] = u]
      /\ s = WithCard(Forgotten(b), b, v) => s.card[b] = v
  BY <1>1, Bypassed
<1>3. /\ Now \in Snapshot /\ (~lost => Agree(Now)) /\ Contents = ContentsOf(Now)
      /\ lost \in BOOLEAN /\ got \in [block : Block, val : Val] \cup {NoRead}
      /\ b \in UserBlock
  BY NowIs, Layout
<1>4. Becomes(s) /\ ok' \in BOOLEAN /\ got' = got /\ lost' = lost
  BY <1>1 DEF Leaves
<1>5. IInv' /\ Contents' = ContentsOf(s)
  <2>1. /\ ok' \in BOOLEAN /\ lost' \in BOOLEAN /\ (~lost' => Agree(s))
        /\ got' \in [block : Block, val : Val] \cup {NoRead}
    BY <1>2, <1>3, <1>4
  <2> QED
    BY ONLY <1>2, <1>4, <2>1, Becoming
<1>6. Store!Settles
  <2>1. ContentsOf(s)[b] = s.card[b]
    BY <1>2, <1>3 DEF Contents
  <2>2. \A c \in UserBlock : s.card[c] \in {card[c], Contents[c], ContentsOf(s)[c]}
    BY <1>2, <2>1 DEF Now
  <2> QED
    BY <1>2, <1>4, <2>2, Settling
<1>7. CASE Leaves(s, FALSE)
  <2>1. ok' = FALSE
    BY <1>7 DEF Leaves
  <2>2. Contents' \in {[Contents EXCEPT ![b] = u] : u \in {v, Contents[b], card[b]}}
    BY <1>2, <1>5
  <2>3. [c \in UserBlock |-> card[c]][b] = card[b]
    BY <1>3
  <2> QED
    BY <1>4, <1>5, <1>6, <2>1, <2>2, <2>3 DEF Store!FailedWrite
<1>8. CASE s = WithCard(Forgotten(b), b, v) /\ Leaves(s, TRUE)
  <2>1. ok' = TRUE
    BY <1>8 DEF Leaves
  <2>2. Contents' = [Contents EXCEPT ![b] = v]
    BY <1>2, <1>5, <1>8
  <2> QED
    BY <1>4, <1>5, <1>6, <2>1, <2>2 DEF Store!Write
<1> QED
  BY <1>1, <1>7, <1>8

LEMMA ReadThroughStep ==
  ASSUME IInv, NEW b \in DataBlock, ReadThrough(b)
  PROVE  IInv' /\ (Store!Fail \/ Store!Read(b))
<1>1. /\ Now \in Snapshot /\ Good(Now) /\ (~lost => Agree(Now)) /\ Contents = ContentsOf(Now)
      /\ lost \in BOOLEAN /\ got \in [block : Block, val : Val] \cup {NoRead}
      /\ b \in UserBlock /\ b \in Block
  BY NowIs, Layout
<1>2. Becomes(Now) /\ ok' \in BOOLEAN /\ lost' = lost
  BY DEF ReadThrough, Becomes, Now
<1>3. card[b] \in Val /\ Contents[b] = card[b]
  BY <1>1 DEF IInv, TypeOK, ReadThrough, Contents
<1>4. got' = got \/ got' = [block |-> b, val |-> card[b]]
  BY DEF ReadThrough
<1>5. IInv' /\ Contents' = ContentsOf(Now)
  <2>1. /\ ok' \in BOOLEAN /\ lost' \in BOOLEAN /\ (~lost' => Agree(Now))
        /\ got' \in [block : Block, val : Val] \cup {NoRead}
    BY <1>1, <1>2, <1>3, <1>4
  <2> QED
    BY ONLY <1>1, <1>2, <2>1, Becoming
<1>6. Store!Settles
  <2>1. \A c \in UserBlock : Now.card[c] \in {card[c], Contents[c], ContentsOf(Now)[c]}
    BY DEF Now
  <2> QED
    BY <1>1, <1>2, <2>1, Settling
<1> QED
  BY <1>1, <1>3, <1>5, <1>6 DEF ReadThrough, Store!Fail, Store!Read

LEMMA CacheClearStep ==
  ASSUME IInv, NEW v \in Val, CacheClear(v)
  PROVE  IInv' /\ Store!Forget
<1>1. PICK f \in FlushLeaves(Now) :
        /\ Becomes([f EXCEPT !.num = NoBlock, !.buf = v])
        /\ lost' = (lost \/ f.dirty = 1)
        /\ ok' = TRUE /\ UNCHANGED got
  BY DEF CacheClear
<1> DEFINE s == [f EXCEPT !.num = NoBlock, !.buf = v]
<1>2. /\ Now \in Snapshot /\ Good(Now) /\ (~lost => Agree(Now)) /\ Contents = ContentsOf(Now)
      /\ lost \in BOOLEAN /\ got \in [block : Block, val : Val] \cup {NoRead}
      /\ UserBlock \subseteq Block /\ NoBlock \notin UserBlock /\ Fat \subseteq UserBlock
  BY NowIs, Layout
<1>3. /\ f \in Snapshot /\ Good(f) /\ (Agree(Now) => Agree(f))
      /\ ContentsOf(f) = ContentsOf(Now) /\ Settled(Now, f)
  BY <1>1, <1>2, Flushed
<1>4. Becomes(s) /\ lost' = (lost \/ f.dirty = 1) /\ ok' = TRUE /\ got' = got
  BY <1>1
<1>a. s = [f EXCEPT !.num = NoBlock, !.buf = v]
  OBVIOUS
<1> HIDE DEF s
<1>5. s = [card |-> f.card, num |-> NoBlock, buf |-> v, dirty |-> f.dirty, mirror |-> f.mirror]
  BY ONLY <1>3, <1>a DEF Snapshot
<1>6. /\ s \in Snapshot
      /\ s.card = f.card /\ s.num = NoBlock /\ s.buf = v
      /\ s.dirty = f.dirty /\ s.mirror = f.mirror
  BY <1>3, <1>5 DEF Snapshot
<1>7. Good(s)
  BY <1>2, <1>3, <1>6 DEF Good, Sound, Pending, DirtyFat
<1>8. ~lost' => Agree(s)
  <2> SUFFICES ASSUME ~lost' PROVE Agree(s)
    OBVIOUS
  <2>1. ~lost /\ f.dirty # 1
    BY <1>4
  <2>2. Agree(f)
    BY <1>2, <1>3, <2>1
  <2> QED
    BY <1>6, <2>1, <2>2 DEF Agree
<1>9. IInv' /\ Contents' = ContentsOf(s) /\ card' = s.card
  <2>1. ok' \in BOOLEAN /\ lost' \in BOOLEAN
    BY <1>2, <1>4
  <2>2. got' \in [block : Block, val : Val] \cup {NoRead}
    BY <1>2, <1>4
  <2> QED
    BY ONLY <1>4, <1>6, <1>7, <1>8, <2>1, <2>2, Becoming
<1>10. Store!Settles
  <2>1. \A c \in UserBlock : s.card[c] \in {card[c], Contents[c], ContentsOf(s)[c]}
    BY <1>2, <1>3, <1>6 DEF Settled, Now
  <2> QED
    BY <1>4, <1>6, <2>1, Settling
<1>11. \A c \in UserBlock : Contents'[c] = IF c = f.num THEN card'[c] ELSE Contents[c]
  <2>1. \A c \in UserBlock : Contents'[c] = f.card[c] /\ card'[c] = f.card[c]
    BY <1>2, <1>6, <1>9 DEF ContentsOf
  <2>2. \A c \in UserBlock : Contents[c] = IF c = f.num THEN f.buf ELSE f.card[c]
    BY <1>2, <1>3 DEF ContentsOf
  <2> QED
    BY <2>1, <2>2
<1>12. /\ Contents = [c \in UserBlock |-> Contents[c]]
       /\ Contents' = [c \in UserBlock |-> Contents'[c]]
  BY DEF Contents
<1>13. CASE f.num \in UserBlock
  <2>1. Contents' = [Contents EXCEPT ![f.num] = [c \in UserBlock |-> card'[c]][f.num]]
    BY <1>11, <1>12, <1>13
  <2> QED
    BY <1>4, <1>9, <1>10, <1>13, <2>1 DEF Store!Forget
<1>14. CASE f.num \notin UserBlock
  <2>1. Contents' = Contents
    BY <1>11, <1>12, <1>14
  <2> QED
    BY <1>4, <1>9, <1>10, <2>1 DEF Store!Forget
<1> QED
  BY <1>13, <1>14

LEMMA PowerFailStep ==
  ASSUME IInv, PowerFail
  PROVE  IInv' /\ Store!PowerLoss
<1> DEFINE s == [card |-> card, num |-> NoBlock, buf |-> Zero, dirty |-> 0, mirror |-> NoMirror]
<1>1. NoBlock \notin UserBlock /\ Zero \in Val
  BY Layout, ValAssumption
<1>2. s \in Snapshot
  BY <1>1 DEF IInv, TypeOK, Snapshot
<1>3. Becomes(s) /\ lost' = TRUE /\ ok' = TRUE /\ got' = NoRead
  BY DEF PowerFail, Becomes
<1>4. s.card = card /\ s.num = NoBlock /\ s.dirty = 0 /\ s.mirror = NoMirror
  OBVIOUS
<1> HIDE DEF s
<1>5. Good(s)
  BY <1>4 DEF Good, Sound, Pending, DirtyFat
<1>6. IInv' /\ Contents' = ContentsOf(s)
  <2>1. ok' \in BOOLEAN /\ lost' \in BOOLEAN /\ (~lost' => Agree(s))
        /\ got' \in [block : Block, val : Val] \cup {NoRead}
    BY <1>3
  <2> QED
    BY ONLY <1>2, <1>3, <1>5, <2>1, Becoming
<1>7. ContentsOf(s) = [b \in UserBlock |-> card[b]]
  BY <1>1, <1>4 DEF ContentsOf
<1> QED
  BY <1>3, <1>6, <1>7 DEF PowerFail, Store!PowerLoss

-----------------------------------------------------------------------------
(***************************************************************************)
(* Theorems                                                                *)
(***************************************************************************)
LEMMA InitInv == Init => IInv /\ Store!Init
<1> SUFFICES ASSUME Init PROVE IInv /\ Store!Init
  OBVIOUS
<1>1. TypeOK
  BY ValAssumption DEF Init, TypeOK
<1>2. Good(Now)
  BY DEF Init, Now, Good, Sound, Pending, DirtyFat
<1>3. Agree(Now)
  BY DEF Init, Now, Agree
<1>4. NoBlock \notin UserBlock /\ UserBlock \subseteq Block
  BY Layout
<1>5. Contents = [b \in UserBlock |-> card[b]]
  BY <1>4 DEF Init, Contents
<1>6. [b \in UserBlock |-> card[b]] \in [UserBlock -> Val]
  BY <1>4 DEF Init
<1> QED
  BY <1>1, <1>2, <1>3, <1>5, <1>6 DEF Init, IInv, Store!Init

\* Every step keeps the invariant and is a step of the store, or changes
\* nothing the store has.
LEMMA StepInv ==
  ASSUME IInv, [Next]_vars
  PROVE  IInv' /\ [Store!Next]_(Store!vars)
<1>0. Zero \in Val /\ Fat \subseteq UserBlock /\ DataBlock \subseteq UserBlock
  BY ValAssumption, Layout
<1>1. CASE CacheFlush
  BY <1>1, CacheFlushStep DEF Store!Next
<1>2. ASSUME NEW b \in UserBlock, CacheRead(b)
      PROVE  IInv' /\ Store!Next
  BY <1>2, CacheReadStep DEF Store!Next
<1>3. ASSUME NEW b \in Fat, NEW v \in Val, FatPut(b, v)
      PROVE  IInv' /\ Store!Next
  BY <1>0, <1>3, FatPutStep DEF Store!Next
<1>4. ASSUME NEW b \in DataBlock, NEW v \in Val, CacheWrite(b, v)
      PROVE  IInv' /\ Store!Next
  BY <1>0, <1>4, CacheWriteStep DEF Store!Next
<1>5. ASSUME NEW b \in DataBlock, NEW v \in Val, CacheNewBlock(b, v)
      PROVE  IInv' /\ Store!Next
  <2>1. IInv' /\ (Store!Fail \/ Store!Write(b, v))
    BY <1>5, AdoptStep DEF CacheNewBlock
  <2> QED
    BY <1>0, <2>1 DEF Store!Next
<1>6. ASSUME NEW b \in DataBlock, CacheZeroBlock(b)
      PROVE  IInv' /\ Store!Next
  <2>1. IInv' /\ (Store!Fail \/ Store!Write(b, Zero))
    BY <1>0, <1>6, AdoptStep DEF CacheZeroBlock
  <2> QED
    BY <1>0, <2>1 DEF Store!Next
<1>7. ASSUME NEW b \in DataBlock, NEW v \in Val, WriteThrough(b, v)
      PROVE  IInv' /\ Store!Next
  BY <1>0, <1>7, WriteThroughStep DEF Store!Next
<1>8. ASSUME NEW b \in DataBlock, ReadThrough(b)
      PROVE  IInv' /\ Store!Next
  BY <1>0, <1>8, ReadThroughStep DEF Store!Next
<1>9. ASSUME NEW v \in Val, CacheClear(v)
      PROVE  IInv' /\ Store!Next
  BY <1>9, CacheClearStep DEF Store!Next
<1>10. CASE PowerFail
  BY <1>10, PowerFailStep DEF Store!Next
<1>11. CASE UNCHANGED vars
  <2>1. Now' = Now /\ Contents' = Contents /\ card' = card /\ lost' = lost
        /\ ok' = ok /\ got' = got
    BY <1>11 DEF vars, Now, Contents
  <2>2. TypeOK'
    BY <1>11 DEF IInv, TypeOK, vars
  <2>3. Good(Now)' /\ (~lost => Agree(Now))'
    BY <2>1 DEF IInv, Good, Sound, Pending, DirtyFat, Agree
  <2> QED
    BY <2>1, <2>2, <2>3 DEF IInv, Store!vars
<1> QED
  BY <1>1, <1>2, <1>3, <1>4, <1>5, <1>6, <1>7, <1>8, <1>9, <1>10, <1>11 DEF Next

\* The strengthened invariant holds in every reachable state, whatever the
\* card, the layout and the transfers that fail.
THEOREM Invariance == Spec => []IInv
<1>1. Init => IInv
  BY InitInv
<1>2. IInv /\ [Next]_vars => IInv'
  BY StepInv
<1> QED
  BY <1>1, <1>2, PTL DEF Spec

\* The variables keep their types: cacheRawBlock() and the other ways into the
\* cache never leave the number of a block outside the volume in it.
THEOREM TypeCorrect == Spec => []TypeOK
<1>1. IInv => TypeOK
  BY DEF IInv
<1> QED
  BY <1>1, Invariance, PTL

\* A clean cached block is the card's block, for every card.
THEOREM SoundCache == Spec => []CacheSound
<1>1. IInv => CacheSound
  BY DEF IInv, Good, Sound, Now, CacheSound
<1> QED
  BY <1>1, Invariance, PTL

\* While nothing was given up the two FATs differ only in the cached block,
\* whose second copy the cache has still to write.
THEOREM FatsAgree == Spec => []MirrorsAgree
<1>1. IInv => MirrorsAgree
  BY DEF IInv, Agree, Now, MirrorsAgree
<1> QED
  BY <1>1, Invariance, PTL

\* No block but one of the first FAT is ever copied over the second.
THEOREM PendingMirror == Spec => []MirrorIsPending
<1>1. IInv => MirrorIsPending
  BY DEF IInv, Good, Pending, Now, MirrorIsPending
<1> QED
  BY <1>1, Invariance, PTL

\* The cache implements an array of blocks: what is read of a block is what
\* was last written to it, by whatever path and whatever failed in between.
THEOREM Refinement == Spec => ImplementsStore
<1>1. Init => Store!Init
  BY InitInv
<1>2. IInv /\ [Next]_vars => [Store!Next]_(Store!vars)
  BY StepInv
<1> QED
  BY <1>1, <1>2, Invariance, PTL DEF Spec, ImplementsStore, Store!Spec
=============================================================================

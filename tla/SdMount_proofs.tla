---------------------------- MODULE SdMount_proofs ----------------------------
(***************************************************************************)
(* Proofs about SdMount, for any cards, partition tables and boot sectors. *)
(* A call works on a snapshot of the cache, the card below it and a        *)
(* volume; the lemmas say what is true of the snapshots it leaves, for a   *)
(* flush, a load, a boot sector and init() in turn.  They say it twice:    *)
(* with e TRUE, what holds while no card finds anything of another in the  *)
(* cache, and with e FALSE, the types that hold all the same.              *)
(***************************************************************************)
EXTENDS SdMount, Integers, TLAPS

\* what was written for card d, or for any
Own(d, e) == [what : What, for : IF e THEN {d} ELSE Device]

Layout ==
  [fatCount : Word, blocksPerCluster : Word, clusterSizeShift : 0 .. MaxShift + 2,
   blocksPerFat : Word, fatStartBlock : Word, rootDirEntryCount : Word, rootDirStart : Word,
   dataStartBlock : Word, clusterCount : Word, fatType : {0, 12, 16, 32},
   mounted : BOOLEAN, dev : Device \cup {NoDevice}, start : Word, boot : What]

\* A mounted volume has the layout of its boot sector.
LaidOut(l) ==
  l.mounted => /\ ValidBoot(Fbs[l.boot]) /\ Shifts(Fbs[l.boot]) # {}
               /\ l.dev \in Device
               /\ l = Laid(l, l.dev, l.start, l.boot)

\* A snapshot over card d.  A block in the cache is for that card, dirty or not, and a
\* clean one is the card's: what a change of cards has to keep.
Snapshot(d, e) == [card : [Block -> Own(d, e)], num : Block \cup {NoBlock}, buf : Held \cup {Blank},
                dirty : {0, 1}, mirror : Word, l : Layout]
Sane(s, d, e) ==
  /\ s \in Snapshot(d, e)
  /\ LaidOut(s.l)
  /\ s.num # NoBlock => s.buf \in Own(d, e) /\ (e /\ s.dirty = 0 => s.buf = s.card[s.num])

\* t has the same volume as s, and the same block 0 on the card, which nothing writes
Keeps(s, t) == t.l = s.l /\ t.card[0] = s.card[0]

-----------------------------------------------------------------------------
LEMMA Zero ==
  /\ 0 \in Word /\ 0 \in Block /\ Block \subseteq Word /\ NoBlock \notin Block
  /\ Width \in Nat /\ Width > 0
<1>1. 0 \in Block /\ Block \subseteq Word /\ NoBlock \notin Block
  BY BlockAssumption
<1>2. Width \in Nat /\ Width > 0
  BY WordAssumption
<1> QED
  BY <1>1, <1>2

\* The buffer is for card d: writing it anywhere but to block 0 keeps the card its own.
LEMMA StoredType ==
  ASSUME NEW d \in Device, NEW e \in BOOLEAN, NEW s \in Snapshot(d, e), s.buf \in Own(d, e), NEW b, b # 0
  PROVE  /\ Cache!Stored(s, b) \in Snapshot(d, e)
         /\ Keeps(s, Cache!Stored(s, b))
         /\ Cache!Stored(s, b).num = s.num /\ Cache!Stored(s, b).buf = s.buf
         /\ Cache!Stored(s, b).dirty = s.dirty /\ Cache!Stored(s, b).mirror = s.mirror
         /\ \A c \in Block : Cache!Stored(s, b).card[c] = IF c = b THEN s.buf ELSE s.card[c]
<1> DEFINE k == [s.card EXCEPT ![b] = s.buf]
<1>1. Cache!Stored(s, b) = [card |-> k, num |-> s.num, buf |-> s.buf, dirty |-> s.dirty,
                            mirror |-> s.mirror, l |-> s.l]
  BY DEF Cache!Stored, Snapshot
<1>2. s.card \in [Block -> Own(d, e)]
  BY DEF Snapshot
<1>3. k \in [Block -> Own(d, e)] /\ \A c \in Block : k[c] = IF c = b THEN s.buf ELSE s.card[c]
  BY <1>2
<1> HIDE DEF k
<1> QED
  BY <1>1, <1>3, Zero DEF Snapshot, Keeps

\* The same of a block and its mirror.
LEMMA BothStoredType ==
  ASSUME NEW d \in Device, NEW e \in BOOLEAN, NEW s \in Snapshot(d, e), s.buf \in Own(d, e), s.num \in Block \ {0}
  PROVE  /\ Cache!BothStored(s) \in Snapshot(d, e)
         /\ Keeps(s, Cache!BothStored(s))
         /\ Cache!BothStored(s).num = s.num /\ Cache!BothStored(s).buf = s.buf
         /\ Cache!BothStored(s).dirty = s.dirty /\ Cache!BothStored(s).mirror = s.mirror
         /\ Cache!BothStored(s).card[s.num] = s.buf
<1> DEFINE t == Cache!Stored(s, s.num)
<1>1. /\ t \in Snapshot(d, e) /\ Keeps(s, t)
      /\ t.num = s.num /\ t.buf = s.buf /\ t.dirty = s.dirty /\ t.mirror = s.mirror
      /\ t.card[s.num] = s.buf
  BY StoredType
<1>2. Cache!BothStored(s) = IF s.mirror = 0 THEN t ELSE Cache!Stored(t, s.mirror)
  BY DEF Cache!BothStored, Cache!NoMirror
<1> HIDE DEF t
<1>3. CASE s.mirror = 0
  BY <1>1, <1>2, <1>3
<1>4. CASE s.mirror # 0
  <2> DEFINE u == Cache!Stored(t, s.mirror)
  <2>1. /\ u \in Snapshot(d, e) /\ Keeps(t, u)
        /\ u.num = t.num /\ u.buf = t.buf /\ u.dirty = t.dirty /\ u.mirror = t.mirror
        /\ \A c \in Block : u.card[c] = IF c = s.mirror THEN t.buf ELSE t.card[c]
    BY <1>1, <1>4, StoredType
  <2> HIDE DEF u
  <2>2. Cache!BothStored(s) = u
    BY <1>2, <1>4 DEF u
  <2> QED
    BY <1>1, <2>1, <2>2 DEF Keeps
<1> QED
  BY <1>3, <1>4

\* A flush, whatever its result, keeps a snapshot sane, and what is in the cache; one
\* that succeeds leaves it clean.
LEMMA Flushed ==
  ASSUME NEW d \in Device, NEW e \in BOOLEAN, NEW s, Sane(s, d, e), NEW f \in Cache!FlushLeaves(s)
  PROVE  /\ Sane(f, d, e) /\ Keeps(s, f)
         /\ f.num = s.num /\ f.buf = s.buf
         /\ Cache!FlushCan(s) /\ f = Cache!FlushDone(s) => f.dirty = 0
<1>1. s \in Snapshot(d, e) /\ s.dirty \in {0, 1} /\ s.num \in Block \cup {NoBlock}
  BY DEF Sane, Snapshot
<1>2. CASE s.dirty = 0
  BY <1>1, <1>2 DEF Cache!FlushLeaves, Cache!FlushFails, Cache!FlushDone, Keeps
<1>3. CASE s.dirty = 1 /\ ~Cache!Writable(s.num)
  BY <1>1, <1>3 DEF Cache!FlushLeaves, Cache!FlushFails, Cache!FlushCan, Keeps
<1>4. CASE s.dirty = 1 /\ Cache!Writable(s.num)
  <2>1. s.num \in Block \ {0} /\ s.num # NoBlock /\ s.buf \in Own(d, e)
    BY <1>4, Zero DEF Cache!Writable, Sane
  <2> DEFINE t == Cache!Stored(s, s.num)
             u == Cache!BothStored(s)
             w == Cache!FlushDone(s)
  <2>2. /\ t \in Snapshot(d, e) /\ Keeps(s, t)
        /\ t.num = s.num /\ t.buf = s.buf /\ t.dirty = 1
    BY <1>1, <1>4, <2>1, StoredType
  <2>3. /\ u \in Snapshot(d, e) /\ Keeps(s, u)
        /\ u.num = s.num /\ u.buf = s.buf /\ u.dirty = 1 /\ u.card[s.num] = s.buf
    BY <1>1, <1>4, <2>1, BothStoredType
  <2>4. f \in {s, t, u, w} /\ w = [u EXCEPT !.dirty = 0, !.mirror = 0]
    BY <1>4 DEF Cache!FlushLeaves, Cache!FlushFails, Cache!FlushDone, Cache!NoMirror
  <2> HIDE DEF t, u, w
  <2>5. w = [card |-> u.card, num |-> u.num, buf |-> u.buf, dirty |-> 0, mirror |-> 0, l |-> u.l]
    BY <2>3, <2>4 DEF Snapshot
  <2>6. w \in Snapshot(d, e) /\ Keeps(s, w) /\ w.num = s.num /\ w.buf = s.buf /\ w.dirty = 0
        /\ w.card[s.num] = s.buf
    BY <2>3, <2>5, Zero DEF Snapshot, Keeps
  <2>7. LaidOut(s.l)
    BY DEF Sane
  <2>8. Sane(t, d, e)
    BY <2>1, <2>2, <2>7 DEF Sane, Keeps
  <2>9. Sane(u, d, e)
    BY <2>1, <2>3, <2>7 DEF Sane, Keeps
  <2>10. Sane(w, d, e)
    BY <2>1, <2>6, <2>7 DEF Sane, Keeps
  <2>11. f = Cache!FlushDone(s) => f.dirty = 0
    BY <2>6 DEF w
  <2>12. Keeps(s, s)
    BY DEF Keeps
  <2> QED
    BY <2>2, <2>3, <2>4, <2>6, <2>8, <2>9, <2>10, <2>11, <2>12
<1> QED
  BY <1>1, <1>2, <1>3, <1>4

\* A load that succeeds has a block of card d in the cache; if it is another than the one
\* that was there, it is clean.
LEMMA Loaded ==
  ASSUME NEW d \in Device, NEW e \in BOOLEAN, NEW s, Sane(s, d, e), NEW b \in Block, Cache!LoadCan(s, b)
  PROVE  /\ Sane(Cache!LoadDone(s, b), d, e) /\ Keeps(s, Cache!LoadDone(s, b))
         /\ Cache!LoadDone(s, b).num = b
         /\ Cache!LoadDone(s, b).buf \in Own(d, e)
         /\ s.num # b => /\ s.dirty = 0 \/ s.num # 0
                         /\ Cache!LoadDone(s, b).buf = Cache!LoadDone(s, b).card[b]
<1>1. CASE s.num = b
  <2>1. Cache!LoadDone(s, b) = s /\ b # NoBlock
    BY <1>1, Zero DEF Cache!LoadDone
  <2> QED
    BY <1>1, <2>1 DEF Sane, Keeps
<1>2. CASE s.num # b
  <2> DEFINE f == Cache!FlushDone(s)
             t == Cache!LoadDone(s, b)
  <2>1. Cache!FlushCan(s) /\ f \in Cache!FlushLeaves(s)
    BY <1>2 DEF Cache!LoadCan, Cache!FlushLeaves
  <2>2. Sane(f, d, e) /\ Keeps(s, f) /\ f.dirty = 0
    BY <2>1, Flushed
  <2>3. t = [f EXCEPT !.num = b, !.buf = f.card[b]]
    BY <1>2 DEF Cache!LoadDone
  <2>4. s.dirty = 0 \/ s.num # 0
    BY <2>1 DEF Cache!FlushCan, Cache!Writable
  <2> HIDE DEF f
  <2>5. t = [card |-> f.card, num |-> b, buf |-> f.card[b], dirty |-> 0,
             mirror |-> f.mirror, l |-> f.l]
    BY <2>2, <2>3 DEF Sane, Snapshot
  <2>6. f.card[b] \in Own(d, e) /\ f.card[b] \in Held
    BY <2>2 DEF Sane, Snapshot, Own, Held
  <2>7. t \in Snapshot(d, e)
    BY <2>2, <2>5, <2>6 DEF Sane, Snapshot
  <2> QED
    BY <1>2, <2>2, <2>4, <2>5, <2>6, <2>7 DEF Sane, Keeps
<1> QED
  BY <1>1, <1>2

-----------------------------------------------------------------------------
\* The layout of a boot sector has fields that fit.
LEMMA LaidType ==
  ASSUME NEW l, NEW d \in Device, NEW start \in Word, NEW what \in What,
         ValidBoot(Fbs[what]), Shifts(Fbs[what]) # {}
  PROVE  /\ Laid(l, d, start, what) \in Layout
         /\ LaidOut(Laid(l, d, start, what))
         /\ Laid(l, d, start, what).mounted /\ Laid(l, d, start, what).dev = d
         /\ Laid(l, d, start, what).start = start /\ Laid(l, d, start, what).boot = what
<1> DEFINE b == Fbs[what]
           x == Laid(l, d, start, what)
           shift == CHOOSE k \in Shifts(b) : TRUE
           fatStart == (start + b.reservedSectorCount) % Width
           rootStart == (fatStart + b.fatCount * FatBlocks(b)) % Width
           dataStart == (rootStart + RootBlocks(b)) % Width
           overhead == (dataStart + Width - start) % Width
           count == Clusters(b, overhead, shift)
<1>1. /\ b.sectorsPerCluster \in Word /\ b.sectorsPerCluster # 0
      /\ b.reservedSectorCount \in Word /\ b.fatCount \in Word /\ b.rootDirEntryCount \in Word
      /\ b.totalSectors16 \in Word /\ b.totalSectors32 \in Word
      /\ b.sectorsPerFat16 \in Word /\ b.sectorsPerFat32 \in Word /\ b.fat32RootCluster \in Word
  BY WhatAssumption DEF Bpb, ValidBoot
<1>2. FatBlocks(b) \in Word /\ Total(b) \in Word
  BY <1>1 DEF FatBlocks, Total, Or
<1>3. shift \in 0 .. MaxShift + 1 /\ 2 ^ shift = b.sectorsPerCluster
  BY DEF Shifts
<1> HIDE DEF shift, b
<1>4. \A n \in Int : n % Width \in Word
  BY Zero DEF Word
<1>5. fatStart \in Word
  BY <1>1, <1>4 DEF Word
<1>6. rootStart \in Word
  <2>1. b.fatCount * FatBlocks(b) \in Int
    BY <1>1, <1>2 DEF Word
  <2> QED
    BY <1>4, <1>5, <2>1 DEF Word
<1>7. RootBlocks(b) \in Nat
  BY <1>1, WordAssumption DEF RootBlocks, Word
<1>8. dataStart \in Word
  BY <1>4, <1>6, <1>7 DEF Word
<1>9. overhead \in Word
  BY <1>4, <1>8, Zero DEF Word
<1> HIDE DEF fatStart, rootStart, dataStart, overhead
<1>10. count \in Word
  <2> DEFINE m == (Total(b) + Width - overhead) % Width
  <2>1. m \in Word
    BY <1>2, <1>4, <1>9, Zero DEF Word
  <2>2. count = m \div b.sectorsPerCluster
    BY <1>3 DEF Clusters
  <2> HIDE DEF m, count
  <2>3. m \in Nat /\ m < Width /\ b.sectorsPerCluster \in Nat /\ b.sectorsPerCluster > 0
    BY <1>1, <2>1, Zero DEF Word
  <2>4. m \div b.sectorsPerCluster \in Nat /\ m \div b.sectorsPerCluster <= m
    BY <2>3
  <2> QED
    BY <2>2, <2>3, <2>4, Zero DEF Word
<1> HIDE DEF count
<1>11. x = [fatCount |-> b.fatCount, blocksPerCluster |-> b.sectorsPerCluster,
            clusterSizeShift |-> shift, blocksPerFat |-> FatBlocks(b), fatStartBlock |-> fatStart,
            rootDirEntryCount |-> b.rootDirEntryCount,
            rootDirStart |-> IF FatType(count) = 32 THEN b.fat32RootCluster ELSE rootStart,
            dataStartBlock |-> dataStart, clusterCount |-> count, fatType |-> FatType(count),
            mounted |-> TRUE, dev |-> d, start |-> start, boot |-> what]
  BY DEF Laid, b, shift, fatStart, rootStart, dataStart, overhead, count
<1>12. FatType(count) \in {0, 12, 16, 32} /\ shift \in 0 .. MaxShift + 2
  BY <1>3, WordAssumption DEF FatType
<1>13. x \in Layout /\ x.mounted /\ x.dev = d /\ x.start = start /\ x.boot = what
  BY <1>1, <1>2, <1>5, <1>6, <1>8, <1>10, <1>11, <1>12 DEF Layout
<1>14. Laid(x, d, start, what) = x
  BY DEF Laid
<1> QED
  BY <1>13, <1>14 DEF LaidOut, b

\* What a block of the card with the cache before it holds
Seen(s, b) == IF b = s.num THEN s.buf ELSE s.card[b]

\* What init(d, part) leaves: if it found a volume, where it lies.
Finds(o, d, part, e) ==
  /\ Sane(o.s, d, e) /\ o.ret \in BOOLEAN
  /\ o.ret => /\ part <= 4 /\ o.s.l.mounted /\ o.s.l.dev = d
              /\ o.s.l.start = o.s.num /\ o.s.num # NoBlock
  /\ o.ret /\ e =>
       /\ o.s.buf = [what |-> o.s.l.boot, for |-> d]
       /\ o.s.num = IF part = 0 THEN 0 ELSE EntryOf(Seen(o.s, 0).what, part).firstSector

\* From the boot sector in the cache, which is block t.num of the card.
LEMMA BootedFinds ==
  ASSUME NEW d \in Device, NEW e \in BOOLEAN, NEW t, Sane(t, d, e),
         t.num \in Block, NEW o \in Booted(t, d)
  PROVE  /\ Sane(o.s, d, e) /\ o.s.card = t.card /\ o.s.num = t.num /\ o.ret \in BOOLEAN
         /\ o.ret => /\ o.s.l.mounted /\ o.s.l.dev = d /\ o.s.l.start = t.num
         /\ o.ret /\ e => o.s.buf = [what |-> o.s.l.boot, for |-> d]
<1> DEFINE b == Fbs[t.buf.what]
<1>1. /\ t \in Snapshot(d, e) /\ t.num \in Word /\ t.num # NoBlock /\ LaidOut(t.l)
      /\ t.buf \in Own(d, e) /\ (e /\ t.dirty = 0 => t.buf = t.card[t.num])
  BY Zero DEF Sane
<1>2. /\ t.buf.what \in What /\ t.l \in Layout
      /\ e => t.buf = [what |-> t.buf.what, for |-> d]
  BY <1>1 DEF Own, Snapshot
<1>3. ASSUME NEW k \in Layout, LaidOut(k)
      PROVE  LET u == [t EXCEPT !.l = k] IN
             Sane(u, d, e) /\ u.card = t.card /\ u.num = t.num /\ u.buf = t.buf /\ u.l = k
  <2> DEFINE u == [t EXCEPT !.l = k]
  <2>1. u = [card |-> t.card, num |-> t.num, buf |-> t.buf, dirty |-> t.dirty,
             mirror |-> t.mirror, l |-> k]
    BY <1>1 DEF Snapshot
  <2> HIDE DEF u
  <2>2. u \in Snapshot(d, e)
    BY <1>1, <1>3, <2>1 DEF Snapshot
  <2>3. Sane(u, d, e)
    BY <1>1, <1>3, <2>1, <2>2 DEF Sane
  <2> QED
    BY <2>1, <2>3 DEF u
<1>4. CASE ~ValidBoot(b)
  <2>1. o = Outcome(t, FALSE)
    BY <1>4 DEF Booted
  <2> QED
    BY <2>1 DEF Outcome
<1>5. CASE ValidBoot(b) /\ Shifts(b) = {}
  <2> DEFINE k == [t.l EXCEPT !.fatCount = b.fatCount, !.blocksPerCluster = b.sectorsPerCluster,
                              !.clusterSizeShift = MaxShift + 2, !.mounted = FALSE]
  <2>1. o = Outcome([t EXCEPT !.l = k], FALSE)
    BY <1>5 DEF Booted
  <2>2. b.fatCount \in Word /\ b.sectorsPerCluster \in Word /\ MaxShift + 2 \in 0 .. MaxShift + 2
    BY <1>2, WhatAssumption, WordAssumption DEF Bpb
  <2> HIDE DEF b
  <2>3. k \in Layout /\ ~k.mounted
    BY <1>2, <2>2 DEF Layout
  <2> HIDE DEF k
  <2>4. LaidOut(k)
    BY <2>3 DEF LaidOut
  <2> QED
    BY <1>3, <2>1, <2>3, <2>4 DEF Outcome
<1>6. CASE ValidBoot(b) /\ Shifts(b) # {}
  <2> DEFINE k == Laid(t.l, d, t.num, t.buf.what)
  <2>1. k \in Layout /\ LaidOut(k) /\ k.mounted /\ k.dev = d /\ k.start = t.num
        /\ k.boot = t.buf.what
    <3>1. ValidBoot(Fbs[t.buf.what]) /\ Shifts(Fbs[t.buf.what]) # {}
      BY <1>6
    <3>2. k \in Layout
      BY <1>1, <1>2, <3>1, LaidType
    <3>3. LaidOut(k)
      BY <1>1, <1>2, <3>1, LaidType
    <3>4. k.mounted /\ k.dev = d
      BY DEF Laid
    <3>5. k.start = t.num /\ k.boot = t.buf.what
      BY DEF Laid
    <3> QED
      BY <3>2, <3>3, <3>4, <3>5
  <2>2. o = Outcome([t EXCEPT !.l = k], TRUE)
    BY <1>6 DEF Booted
  <2> HIDE DEF k
  <2> QED
    BY <1>2, <1>3, <2>1, <2>2 DEF Outcome
<1> QED
  BY <1>4, <1>5, <1>6

\* A load that fails on the way leaves a snapshot as sane as it was.
LEMMA LoadFailsFinds ==
  ASSUME NEW d \in Device, NEW e \in BOOLEAN, NEW s, Sane(s, d, e), NEW b,
         NEW t \in Cache!LoadFails(s, b), NEW part
  PROVE  Finds(Outcome(t, FALSE), d, part, e)
  BY Flushed DEF Cache!LoadFails, Finds, Outcome, Keeps

\* The ways through init(d, part), without the operator that Raw takes: it loads block b
\* and goes on from there.
RawFails(s, b) == {Outcome(t, FALSE) : t \in Cache!LoadFails(s, b)}
RawBooted(s, b, d) ==
  RawFails(s, b) \cup (IF Cache!LoadCan(s, b) /\ (s.num = b \/ b \in Block)
                       THEN Booted(Cache!LoadDone(s, b), d) ELSE {})
RawPartition(t, part, d) ==
  LET p == EntryOf(t.buf.what, part)
  IN IF ValidPartition(p) THEN RawBooted(t, p.firstSector, d) ELSE {Outcome(t, FALSE)}

LEMMA MountedCases ==
  ASSUME NEW s, NEW d, NEW part \in 0 .. 5
  PROVE  /\ part > 4 => Mounted(s, d, part) = {Outcome(s, FALSE)}
         /\ part = 0 => Mounted(s, d, part) = RawBooted(s, 0, d)
         /\ part \in 1 .. 4 =>
              Mounted(s, d, part) =
                RawFails(s, 0) \cup (IF Cache!LoadCan(s, 0) /\ (s.num = 0 \/ 0 \in Block)
                                     THEN RawPartition(Cache!LoadDone(s, 0), part, d) ELSE {})
<1>1. ASSUME part > 4 PROVE Mounted(s, d, part) = {Outcome(s, FALSE)}
  BY <1>1, Zenon DEF Mounted
<1>2. ASSUME ~(part > 4), part = 0 PROVE Mounted(s, d, part) = RawBooted(s, 0, d)
  BY <1>2, Zenon DEF Mounted, Raw, RawBooted, RawFails
<1>3. ASSUME ~(part > 4), part # 0
      PROVE  Mounted(s, d, part) =
               RawFails(s, 0) \cup (IF Cache!LoadCan(s, 0) /\ (s.num = 0 \/ 0 \in Block)
                                    THEN RawPartition(Cache!LoadDone(s, 0), part, d) ELSE {})
  BY <1>3, Zenon DEF Mounted, Raw, RawBooted, RawFails, RawPartition
<1>4. (part = 0 => ~(part > 4)) /\ (part \in 1 .. 4 => ~(part > 4) /\ part # 0)
  OBVIOUS
<1> QED
  BY <1>1, <1>2, <1>3, <1>4, Zenon

\* init(d, part) finds a volume where that partition begins, or none.
LEMMA MountedFinds ==
  ASSUME NEW d \in Device, NEW e \in BOOLEAN, NEW s, Sane(s, d, e),
         NEW part \in 0 .. 5, NEW o \in Mounted(s, d, part)
  PROVE  Finds(o, d, part, e)
<1>1. CASE part > 4
  <2>1. o = Outcome(s, FALSE)
    BY <1>1, MountedCases
  <2> QED
    BY <2>1 DEF Finds, Outcome
<1>2. CASE part = 0
  <2>1. CASE \E t \in Cache!LoadFails(s, 0) : o = Outcome(t, FALSE)
    BY <2>1, LoadFailsFinds
  <2> DEFINE t == Cache!LoadDone(s, 0)
  <2>2. CASE Cache!LoadCan(s, 0) /\ o \in Booted(t, d)
    <3>1. Sane(t, d, e) /\ Keeps(s, t) /\ t.num = 0
      BY <2>2, Loaded, Zero
    <3> HIDE DEF t
    <3> QED
      BY <1>2, <2>2, <3>1, BootedFinds, Zero DEF Finds
  <2> QED
    <3>1. Mounted(s, d, part) = RawBooted(s, 0, d)
      BY <1>2, MountedCases
    <3> QED
      BY <2>1, <2>2, <3>1 DEF RawBooted, RawFails
<1>3. CASE part \in 1 .. 4
  <2>0. Mounted(s, d, part) =
          RawFails(s, 0) \cup (IF Cache!LoadCan(s, 0) /\ (s.num = 0 \/ 0 \in Block)
                               THEN RawPartition(Cache!LoadDone(s, 0), part, d) ELSE {})
    BY <1>3, MountedCases
  <2>1. CASE \E t \in Cache!LoadFails(s, 0) : o = Outcome(t, FALSE)
    BY <2>1, LoadFailsFinds
  <2> DEFINE t == Cache!LoadDone(s, 0)
             p == EntryOf(t.buf.what, part)
             first == p.firstSector
             u == Cache!LoadDone(t, first)
  <2>2. CASE Cache!LoadCan(s, 0)
    <3>1. Sane(t, d, e) /\ Keeps(s, t) /\ t.num = 0 /\ 0 # NoBlock
      BY <2>2, Loaded, Zero
    <3> HIDE DEF t
    <3>2. CASE o = Outcome(t, FALSE)
      BY <3>1, <3>2 DEF Finds, Outcome, Keeps
    <3>3. CASE \E x \in Cache!LoadFails(t, first) : o = Outcome(x, FALSE)
      BY <3>1, <3>3, LoadFailsFinds
    <3>4. CASE /\ ValidPartition(p) /\ Cache!LoadCan(t, first)
               /\ first \in Block /\ o \in Booted(u, d)
      <4>1. first # 0 /\ first \in Block
        BY <3>4 DEF ValidPartition
      <4>2. Sane(u, d, e) /\ Keeps(t, u) /\ u.num = first /\ t.dirty = 0
        BY <3>1, <3>4, <4>1, Loaded
      <4>3. e => t.buf = u.card[0]
        BY <3>1, <4>2 DEF Sane, Keeps
      <4> HIDE DEF u, first
      <4>4. /\ Sane(o.s, d, e) /\ o.s.card = u.card /\ o.s.num = first /\ o.ret \in BOOLEAN
            /\ o.ret => /\ o.s.l.mounted /\ o.s.l.dev = d /\ o.s.l.start = first
            /\ o.ret /\ e => o.s.buf = [what |-> o.s.l.boot, for |-> d]
        BY <3>4, <4>1, <4>2, BootedFinds
      <4>5. e => Seen(o.s, 0) = t.buf
        BY <4>1, <4>3, <4>4 DEF Seen
      <4>6. e => first = EntryOf(Seen(o.s, 0).what, part).firstSector
        BY <4>5 DEF first
      <4> QED
        BY <1>3, <4>1, <4>4, <4>6, Zero DEF Finds
    <3>5. \/ o = Outcome(t, FALSE)
          \/ \E x \in Cache!LoadFails(t, first) : o = Outcome(x, FALSE)
          \/ /\ ValidPartition(p) /\ Cache!LoadCan(t, first)
             /\ first \in Block /\ o \in Booted(u, d)
          \/ \E x \in Cache!LoadFails(s, 0) : o = Outcome(x, FALSE)
      <4>1. CASE ValidPartition(p) /\ t.num = first
        BY <3>1, <4>1 DEF ValidPartition
      <4>2. CASE ValidPartition(p) /\ t.num # first
        BY <2>0, <3>1, <4>2 DEF RawBooted, RawFails, RawPartition, t
      <4>3. CASE ~ValidPartition(p)
        BY <2>0, <4>3 DEF RawFails, RawPartition, t
      <4> QED
        BY <4>1, <4>2, <4>3
    <3> QED
      BY <2>1, <3>2, <3>3, <3>4, <3>5
  <2>3. CASE ~Cache!LoadCan(s, 0)
    <3>1. \E x \in Cache!LoadFails(s, 0) : o = Outcome(x, FALSE)
      BY <2>0, <2>3 DEF RawFails
    <3> QED
      BY <2>1, <3>1
  <2> QED
    BY <2>2, <2>3
<1> QED
  BY <1>1, <1>2, <1>3

\* init(d) finds a volume where the first partition begins, or the card does.
LEMMA MountedAnyFinds ==
  ASSUME NEW d \in Device, NEW e \in BOOLEAN, NEW s, Sane(s, d, e),
         NEW o \in MountedAny(s, d)
  PROVE  Finds(o, d, 0, e) \/ Finds(o, d, 1, e)
<1>1. CASE o \in Mounted(s, d, 1)
  BY <1>1, MountedFinds
<1>2. CASE \E x \in Mounted(s, d, 1) : o \in Mounted(x.s, d, 0)
  <2>1. PICK x \in Mounted(s, d, 1) : o \in Mounted(x.s, d, 0)
    BY <1>2
  <2>2. Finds(x, d, 1, e)
    BY MountedFinds
  <2>3. Finds(o, d, 0, e)
    BY <2>1, <2>2, MountedFinds DEF Finds
  <2> QED
    BY <2>2, <2>3 DEF Finds
<1> QED
  BY <1>1, <1>2 DEF MountedAny

-----------------------------------------------------------------------------
\* A clean block of another card that is not block 0: init() returns false with the cache
\* as it was, or does what it does with an empty cache.
Foreign(s, d, e) == s \in Snapshot(d, e) /\ LaidOut(s.l) /\ s.dirty = 0 /\ s.num # 0

LEMMA OtherLoads ==
  ASSUME NEW d \in Device, NEW e \in BOOLEAN, NEW s, Foreign(s, d, e)
  PROVE  /\ Cache!LoadFails(s, 0) = {s}
         /\ Cache!LoadCan(Cleared(s), 0)
         /\ Cache!LoadDone(s, 0) = Cache!LoadDone(Cleared(s), 0)
<1> DEFINE c == Cleared(s)
<1>1. c = [card |-> s.card, num |-> NoBlock, buf |-> s.buf, dirty |-> 0, mirror |-> s.mirror,
           l |-> s.l]
  BY DEF Cleared, Foreign, Snapshot
<1>2. Cache!FlushDone(s) = s /\ Cache!FlushCan(s) /\ Cache!FlushFails(s) = {}
  BY DEF Cache!FlushDone, Cache!FlushCan, Cache!FlushFails, Foreign
<1> HIDE DEF c
<1>3. Cache!FlushDone(c) = c /\ Cache!FlushCan(c)
  BY <1>1 DEF Cache!FlushDone, Cache!FlushCan
<1>4. Cache!LoadFails(s, 0) = {s}
  BY <1>2 DEF Cache!LoadFails, Cache!FlushLeaves, Foreign
<1>5. Cache!LoadCan(c, 0)
  BY <1>3 DEF Cache!LoadCan
<1> DEFINE x == [card |-> s.card, num |-> 0, buf |-> s.card[0], dirty |-> 0,
                 mirror |-> s.mirror, l |-> s.l]
<1>6. Cache!LoadDone(s, 0) = x
  <2>1. Cache!LoadDone(s, 0) = [s EXCEPT !.num = 0, !.buf = s.card[0]]
    BY <1>2 DEF Cache!LoadDone, Foreign
  <2> QED
    BY <2>1 DEF Foreign, Snapshot
<1>7. Cache!LoadDone(c, 0) = x
  <2>1. c.num # 0 /\ c.card = s.card
    BY <1>1, Zero
  <2>2. Cache!LoadDone(c, 0) = [c EXCEPT !.num = 0, !.buf = s.card[0]]
    BY <1>3, <2>1 DEF Cache!LoadDone
  <2> QED
    BY <1>1, <2>2
<1> QED
  BY <1>4, <1>5, <1>6, <1>7 DEF c

Unmoved(o, s) == o.s = s /\ ~o.ret

LEMMA OtherMounts ==
  ASSUME NEW d \in Device, NEW e \in BOOLEAN, NEW s, Foreign(s, d, e),
         NEW part \in 0 .. 5, NEW o \in Mounted(s, d, part)
  PROVE  Unmoved(o, s) \/ o \in Mounted(Cleared(s), d, part)
<1>1. /\ 0 \in Block /\ Cache!LoadCan(Cleared(s), 0)
      /\ Cache!LoadDone(s, 0) = Cache!LoadDone(Cleared(s), 0)
  BY OtherLoads, Zero
<1>2. \A x \in RawFails(s, 0) : Unmoved(x, s)
  BY OtherLoads DEF RawFails, Outcome, Unmoved
<1>3. CASE part > 4
  <2>1. o = Outcome(s, FALSE)
    BY <1>3, MountedCases
  <2> QED
    BY <2>1 DEF Outcome, Unmoved
<1>4. CASE part = 0
  <2>1. /\ Mounted(s, d, part) = RawBooted(s, 0, d)
        /\ Mounted(Cleared(s), d, part) = RawBooted(Cleared(s), 0, d)
    BY <1>4, MountedCases
  <2>2. o \in RawFails(s, 0) \cup Booted(Cache!LoadDone(s, 0), d)
    BY <2>1 DEF RawBooted
  <2>3. Booted(Cache!LoadDone(Cleared(s), 0), d) \subseteq Mounted(Cleared(s), d, part)
    BY <1>1, <2>1 DEF RawBooted
  <2> QED
    BY <1>2, <1>1, <2>2, <2>3
<1>5. CASE part \in 1 .. 4
  <2> DEFINE c == Cleared(s)
  <2>1. o \in RawFails(s, 0) \cup RawPartition(Cache!LoadDone(s, 0), part, d)
    BY <1>5, MountedCases
  <2>2. Mounted(c, d, part) =
          RawFails(c, 0) \cup (IF Cache!LoadCan(c, 0) /\ (c.num = 0 \/ 0 \in Block)
                               THEN RawPartition(Cache!LoadDone(c, 0), part, d) ELSE {})
    BY <1>5, MountedCases
  <2>3. RawPartition(Cache!LoadDone(c, 0), part, d) \subseteq Mounted(c, d, part)
    BY <1>1, <2>2
  <2> QED
    BY <1>2, <1>1, <2>1, <2>3
<1> QED
  BY <1>3, <1>4, <1>5

\* So what it finds, if it does not leave all as it was, is on the card.
LEMMA OtherFinds ==
  ASSUME NEW d \in Device, NEW e \in BOOLEAN, NEW s, Foreign(s, d, e)
  PROVE  /\ \A part \in 0 .. 5 : \A o \in Mounted(s, d, part) :
              Unmoved(o, s) \/ Finds(o, d, part, e)
         /\ \A o \in MountedAny(s, d) :
              Unmoved(o, s) \/ Finds(o, d, 0, e) \/ Finds(o, d, 1, e)
<1> DEFINE c == Cleared(s)
<1>1. Sane(c, d, e)
  <2>1. c = [card |-> s.card, num |-> NoBlock, buf |-> s.buf, dirty |-> 0, mirror |-> s.mirror,
             l |-> s.l]
    BY DEF Cleared, Foreign, Snapshot
  <2> QED
    BY <2>1 DEF Sane, Foreign, Snapshot
<1>2. ASSUME NEW part \in 0 .. 5, NEW o \in Mounted(s, d, part)
      PROVE  Unmoved(o, s) \/ Finds(o, d, part, e)
  <2>1. CASE o \in Mounted(c, d, part)
    BY <1>1, <2>1, MountedFinds
  <2> QED
    BY <2>1, OtherMounts
<1>3. ASSUME NEW o \in MountedAny(s, d)
      PROVE  Unmoved(o, s) \/ Finds(o, d, 0, e) \/ Finds(o, d, 1, e)
  <2>1. CASE o \in Mounted(s, d, 1)
    BY <1>2, <2>1
  <2>2. CASE \E x \in Mounted(s, d, 1) : o \in Mounted(x.s, d, 0)
    <3>1. PICK x \in Mounted(s, d, 1) : o \in Mounted(x.s, d, 0)
      BY <2>2
    <3>2. CASE Unmoved(x, s)
      <4>1. o \in Mounted(s, d, 0)
        BY <3>1, <3>2 DEF Unmoved
      <4> QED
        BY <1>2, <4>1
    <3>3. CASE Finds(x, d, 1, e)
      <4>1. Sane(x.s, d, e)
        BY <3>3 DEF Finds
      <4>2. Finds(o, d, 0, e)
        BY <3>1, <4>1, MountedFinds
      <4> QED
        BY <4>2
    <3>4. Unmoved(x, s) \/ Finds(x, d, 1, e)
      BY <1>2
    <3> QED
      BY <3>2, <3>3, <3>4
  <2> QED
    BY <2>1, <2>2 DEF MountedAny
<1> QED
  BY <1>2, <1>3

-----------------------------------------------------------------------------
(***************************************************************************)
(* The inductive invariant: what the cards, the cache and the volumes are, *)
(* and, while nothing crossed from one card to another, that a card has    *)
(* only blocks of its own, the cache a block of the card it points to, and *)
(* the volume found last lies on it.                                       *)
(***************************************************************************)
CardsOwn == cards \in [Device -> [Block -> Held]] /\ NeverCrosses

CacheSane ==
  /\ sdCard \in Device \cup {NoDevice} /\ crossed \in BOOLEAN
  /\ cacheBlockNumber \in Block \cup {NoBlock} /\ cacheBuffer \in Held \cup {Blank}
  /\ cacheDirty \in {0, 1} /\ cacheMirrorBlock \in Word
  /\ sdCard = NoDevice => cacheBlockNumber = NoBlock /\ cacheDirty = 0
  /\ cacheBlockNumber # NoBlock => cacheBuffer \in Held
  /\ cacheBlockNumber # NoBlock /\ ~crossed =>
       /\ cacheBuffer.for = sdCard
       /\ cacheDirty = 0 => cacheBuffer = cards[sdCard][cacheBlockNumber]

VolumesSound ==
  /\ volume \in [Volume -> Layout]
  /\ \A v \in Volume : LaidOut(volume[v]) /\ (volume[v].mounted => sdCard # NoDevice)

IInv == CardsOwn /\ CacheSane /\ VolumesSound /\ MountsTheCard /\ answer.part \in 0 .. 4

LEMMA AtFields ==
  ASSUME NEW d \in Device, NEW k
  PROVE  At(d, k) = [card |-> cards[d], num |-> cacheBlockNumber, buf |-> cacheBuffer,
                     dirty |-> cacheDirty, mirror |-> cacheMirrorBlock, l |-> k]
  BY DeviceAssumption DEF At, CardOf

LEMMA AtTyped ==
  ASSUME CardsOwn, CacheSane, NEW d \in Device, NEW e \in BOOLEAN, e => ~crossed, NEW k \in Layout
  PROVE  At(d, k) \in Snapshot(d, e)
<1>1. cards[d] \in [Block -> Own(d, e)]
  <2>1. cards[d] \in [Block -> Held] /\ (e => \A b \in Block : cards[d][b].for = d)
    BY DEF CardsOwn, NeverCrosses
  <2>2. CASE e
    BY <2>1, <2>2 DEF Own, Held
  <2>3. CASE ~e
    <3>1. Own(d, e) = Held
      BY <2>3 DEF Own, Held
    <3> QED
      BY <2>1, <3>1
  <2> QED
    BY <2>2, <2>3
<1>2. /\ cacheBlockNumber \in Block \cup {NoBlock} /\ cacheBuffer \in Held \cup {Blank}
      /\ cacheDirty \in {0, 1} /\ cacheMirrorBlock \in Word
  BY DEF CacheSane
<1> QED
  BY <1>1, <1>2, AtFields DEF Snapshot

\* A call for the card in the cache, or with no block in it, starts from a sane snapshot.
LEMMA AtSane ==
  ASSUME CardsOwn, CacheSane, NEW d \in Device, NEW e \in BOOLEAN,
         e => ~crossed /\ (d = sdCard \/ cacheBlockNumber = NoBlock),
         NEW k \in Layout, LaidOut(k)
  PROVE  Sane(At(d, k), d, e)
<1>1. At(d, k) \in Snapshot(d, e)
  BY AtTyped
<1>2. cacheBlockNumber # NoBlock =>
        cacheBuffer \in Own(d, e) /\ (e /\ cacheDirty = 0 => cacheBuffer = cards[d][cacheBlockNumber])
  <2> SUFFICES ASSUME cacheBlockNumber # NoBlock
               PROVE  /\ cacheBuffer \in Own(d, e)
                      /\ e /\ cacheDirty = 0 => cacheBuffer = cards[d][cacheBlockNumber]
    OBVIOUS
  <2>1. cacheBuffer \in Held
    BY DEF CacheSane
  <2>2. e => /\ cacheBuffer.for = d
             /\ cacheDirty = 0 => cacheBuffer = cards[d][cacheBlockNumber]
    BY DEF CacheSane
  <2> QED
    BY <2>1, <2>2 DEF Own, Held
<1> QED
  BY <1>1, <1>2, AtFields DEF Sane

\* A call that ends with a sane snapshot leaves the cards and the cache sane.
LEMMA BecomesSane ==
  ASSUME CardsOwn, crossed \in BOOLEAN, crossed' \in BOOLEAN, crossed => crossed',
         NEW d \in Device, NEW e \in BOOLEAN, e <=> ~crossed', NEW s, Sane(s, d, e), Becomes(d, s)
  PROVE  CardsOwn' /\ CacheSane'
<1>1. /\ s \in Snapshot(d, e) /\ s.card \in [Block -> Own(d, e)]
      /\ s.num \in Block \cup {NoBlock} /\ s.buf \in Held \cup {Blank}
      /\ s.dirty \in {0, 1} /\ s.mirror \in Word
      /\ s.num # NoBlock => s.buf \in Own(d, e) /\ (e /\ s.dirty = 0 => s.buf = s.card[s.num])
  BY DEF Sane, Snapshot
<1>2. /\ cards' = [cards EXCEPT ![d] = s.card]
      /\ sdCard' = d /\ cacheBlockNumber' = s.num /\ cacheBuffer' = s.buf
      /\ cacheDirty' = s.dirty /\ cacheMirrorBlock' = s.mirror
  BY DeviceAssumption DEF Becomes
<1>3. Own(d, e) \subseteq Held /\ \A x \in Own(d, e) : e => x.for = d
  BY DEF Own, Held
<1>4. cards' \in [Device -> [Block -> Held]] /\ cards'[d] = s.card
      /\ \A c \in Device : c # d => cards'[c] = cards[c]
  BY <1>1, <1>2, <1>3 DEF CardsOwn
<1>5. NeverCrosses'
  <2> SUFFICES ASSUME ~crossed', NEW c \in Device, NEW b \in Block PROVE cards'[c][b].for = c
    BY DEF NeverCrosses
  <2>1. CASE c = d
    BY <1>1, <1>3, <1>4, <2>1
  <2>2. CASE c # d
    BY <1>4, <2>2 DEF CardsOwn, NeverCrosses
  <2> QED
    BY <2>1, <2>2
<1>6. CacheSane'
  BY <1>1, <1>2, <1>3, <1>4, DeviceAssumption DEF CacheSane
<1> QED
  BY <1>4, <1>5, <1>6 DEF CardsOwn

\* and the volumes, if it is the outcome of a call for one.
LEMMA ResultSound ==
  ASSUME IInv, NEW d \in Device, NEW e \in BOOLEAN, NEW v \in Volume, NEW o, Sane(o.s, d, e),
         Becomes(d, o.s), volume' = [volume EXCEPT ![v] = o.s.l]
  PROVE  VolumesSound' /\ volume'[v] = o.s.l
<1>1. o.s.l \in Layout /\ LaidOut(o.s.l) /\ sdCard' = d /\ d # NoDevice
  BY DeviceAssumption DEF Sane, Snapshot, Becomes
<1> QED
  BY <1>1 DEF IInv, VolumesSound

LEMMA UninitializedLaid == Uninitialized \in Layout /\ LaidOut(Uninitialized) /\ ~Uninitialized.mounted
<1>1. Data \in What /\ 0 \in Word /\ 0 \in 0 .. MaxShift + 2
  BY Zero, WhatAssumption, WordAssumption
<1> QED
  BY <1>1 DEF Uninitialized, Layout, LaidOut

LEMMA InitInv == Init => IInv
<1> SUFFICES ASSUME Init PROVE IInv
  OBVIOUS
<1>1. CardsOwn
  <2>1. PICK image \in [Device -> Image] :
          cards = [d \in Device |-> [b \in Block |-> [what |-> image[d][b], for |-> d]]]
    BY DEF Init
  <2>2. \A d \in Device, b \in Block : image[d][b] \in What
    BY WhatAssumption
  <2> QED
    BY <2>1, <2>2 DEF CardsOwn, NeverCrosses, Held
<1>2. CacheSane
  BY Zero DEF Init, CacheSane
<1>3. VolumesSound
  BY UninitializedLaid DEF Init, VolumesSound
<1>4. answer = NotMounted /\ answer.part = 0
  BY DEF Init, NotMounted, Answered
<1> QED
  BY <1>1, <1>2, <1>3, <1>4 DEF IInv, MountsTheCard

\* A volume that is not mounted has no layout to keep.
LEMMA UnmountedLaid ==
  ASSUME NEW v \in Volume, volume[v] \in Layout
  PROVE  Unmounted(v) \in Layout /\ LaidOut(Unmounted(v))
<1> DEFINE k == volume[v]
           u == [k EXCEPT !.mounted = FALSE]
<1> HIDE DEF k
<1>1. k \in Layout
  BY DEF k
<1>2. u \in Layout /\ u.mounted = FALSE
  BY <1>1 DEF Layout
<1> QED
  BY <1>2 DEF Unmounted, LaidOut, k

\* What init() finds, whether or not it was the card's turn already: a clean block of
\* another card that was neither looked for nor left there is as good as none.
LEMMA InitFinds ==
  ASSUME IInv, NEW d \in Device, NEW v \in Volume, crossed' = (crossed \/ TakesOver(d)),
         NEW e \in BOOLEAN, e <=> ~crossed',
         NEW s, s = At(d, Unmounted(v)), NEW o, Becomes(d, o.s)
  PROVE  /\ \A part \in 0 .. 5 : o \in Mounted(s, d, part) => Finds(o, d, part, e)
         /\ o \in MountedAny(s, d) => Finds(o, d, 0, e) \/ Finds(o, d, 1, e)
<1> DEFINE u == Unmounted(v)
<1>1. u \in Layout /\ LaidOut(u)
  BY UnmountedLaid DEF IInv, VolumesSound
<1>2. CardsOwn /\ CacheSane /\ crossed \in BOOLEAN /\ (e => ~crossed)
  BY DEF IInv, CacheSane
<1> HIDE DEF u
<1>3. s = At(d, u)
  BY DEF u
<1>4. CASE e => d = sdCard \/ cacheBlockNumber = NoBlock
  <2>1. Sane(At(d, u), d, e)
    BY <1>1, <1>2, <1>4, AtSane
  <2>2. Sane(s, d, e)
    BY <1>3, <2>1
  <2> QED
    BY <2>2, MountedFinds, MountedAnyFinds
<1>5. CASE e /\ d # sdCard /\ cacheBlockNumber # NoBlock
  <2>1. ~TakesOver(d)
    BY <1>5
  <2>2. cacheDirty = 0 /\ cacheBlockNumber # 0 /\ cacheBlockNumber' # cacheBlockNumber
    BY <1>2, <1>5, <2>1 DEF TakesOver, CacheSane
  <2>3. At(d, u) \in Snapshot(d, e)
    BY <1>1, <1>2, AtTyped
  <2>4. s.num = cacheBlockNumber /\ s.dirty = 0 /\ s.l = u
    BY <1>3, <2>2, AtFields
  <2>5. Foreign(s, d, e)
    BY <1>1, <1>3, <2>2, <2>3, <2>4 DEF Foreign
  <2>6. ~Unmoved(o, s)
    <3>1. cacheBlockNumber' = o.s.num
      BY DEF Becomes
    <3> QED
      BY <2>2, <2>4, <3>1 DEF Unmoved
  <2> QED
    BY <2>5, <2>6, OtherFinds
<1> QED
  BY <1>4, <1>5

\* What init() found is what the program is told.
LEMMA FoundMounts ==
  ASSUME IInv, NEW d \in Device, NEW v \in Volume, NEW o, NEW part \in 0 .. 5, NEW op,
         NEW e \in BOOLEAN, e <=> ~crossed', Finds(o, d, part, e), o.ret,
         Becomes(d, o.s), volume' = [volume EXCEPT ![v] = o.s.l],
         answer' = Answered(op, v, IF op = "init" THEN part ELSE 0),
         op \in {"init", "initAny"}, op = "initAny" => part \in {0, 1}
  PROVE  MountsTheCard' /\ answer'.part \in 0 .. 4
<1>1. answer'.op = op /\ answer'.vol = v /\ answer'.part = IF op = "init" THEN part ELSE 0
  BY DEF Answered
<1>2. answer'.part \in 0 .. 4
  BY <1>1 DEF Finds
<1>3. CASE ~e
  <2>1. crossed'
    BY <1>3
  <2> QED
    BY <1>2, <2>1, Zenon DEF MountsTheCard
<1>4. CASE e
  <2>1. /\ Sane(o.s, d, e) /\ o.s.l.mounted /\ o.s.l.dev = d /\ o.s.l.start = o.s.num
        /\ o.s.buf = [what |-> o.s.l.boot, for |-> d] /\ part <= 4
        /\ o.s.num = IF part = 0 THEN 0 ELSE EntryOf(Seen(o.s, 0).what, part).firstSector
    BY <1>4 DEF Finds
  <2>2. /\ cards' = [cards EXCEPT ![d] = o.s.card]
        /\ sdCard' = d /\ cacheBlockNumber' = o.s.num /\ cacheBuffer' = o.s.buf
    BY DeviceAssumption DEF Becomes
  <2>3. cards'[d] = o.s.card
    BY <2>2 DEF IInv, CardsOwn
  <2> DEFINE l == volume[answer.vol]
             begins(p) == l.start = IF p = 0 THEN 0 ELSE Mbr[Reads(0).what][p].firstSector
  <2>4. l' = o.s.l
    <3>1. volume'[v] = o.s.l
      BY DEF IInv, VolumesSound
    <3> QED
      BY <1>1, <3>1
  <2>5. Reads(0)' = Seen(o.s, 0) /\ Reads(l.start)' = o.s.buf
    BY <2>1, <2>2, <2>3, <2>4 DEF Reads, Seen
  <2>6. begins(part)'
    BY <2>1, <2>4, <2>5 DEF EntryOf
  <2>7. OnCard(l)'
    <3>1. l'.mounted /\ l'.dev = sdCard' /\ Reads(l.start)' = [what |-> l'.boot, for |-> sdCard']
      BY <2>1, <2>2, <2>4, <2>5
    <3> QED
      BY <3>1, Zenon DEF OnCard
  <2>8. answer'.op = "init" => begins(answer.part)'
    BY <1>1, <2>6
  <2>9. answer'.op = "initAny" => begins(1)' \/ begins(0)'
    BY <1>1, <2>6
  <2>10. MountsTheCard'
    BY <2>7, <2>8, <2>9, Zenon DEF MountsTheCard
  <2> QED
    BY <1>2, <2>10
<1> QED
  BY <1>3, <1>4

-----------------------------------------------------------------------------
\* init(d, part) and init(d) keep the invariant.
LEMMA InitPartInv ==
  ASSUME IInv, NEW d \in Device, NEW v \in Volume, NEW part \in 0 .. 5, InitPart(v, d, part)
  PROVE  IInv'
<1> DEFINE s == At(d, Unmounted(v))
           e == ~crossed'
<1>1. PICK o \in Mounted(s, d, part) :
        /\ Becomes(d, o.s) /\ volume' = [volume EXCEPT ![v] = o.s.l]
        /\ answer' = IF o.ret THEN Answered("init", v, part) ELSE NotMounted
  BY DEF InitPart, Results
<1>2. /\ crossed' = (crossed \/ TakesOver(d)) /\ crossed \in BOOLEAN /\ crossed' \in BOOLEAN
      /\ crossed => crossed'
  BY DEF InitPart, IInv, CacheSane, TakesOver
<1>3. e \in BOOLEAN /\ (e <=> ~crossed')
  BY <1>2
<1> HIDE DEF e
<1>4. Finds(o, d, part, e)
  BY <1>1, <1>2, <1>3, InitFinds
<1> HIDE DEF s
<1>5. Sane(o.s, d, e)
  BY <1>4 DEF Finds
<1>6. CardsOwn' /\ CacheSane'
  BY <1>1, <1>2, <1>3, <1>5, BecomesSane DEF IInv
<1>7. VolumesSound'
  BY <1>1, <1>3, <1>5, ResultSound
<1>8. MountsTheCard' /\ answer'.part \in 0 .. 4
  <2>1. CASE o.ret
    BY <1>1, <1>3, <1>4, <2>1, FoundMounts
  <2>2. CASE ~o.ret
    BY <1>1, <2>2 DEF MountsTheCard, NotMounted, Answered
  <2> QED
    BY <2>1, <2>2
<1> QED
  BY <1>6, <1>7, <1>8 DEF IInv

LEMMA InitAnyInv ==
  ASSUME IInv, NEW d \in Device, NEW v \in Volume, InitAny(v, d)
  PROVE  IInv'
<1> DEFINE s == At(d, Unmounted(v))
           e == ~crossed'
<1>1. PICK o \in MountedAny(s, d) :
        /\ Becomes(d, o.s) /\ volume' = [volume EXCEPT ![v] = o.s.l]
        /\ answer' = IF o.ret THEN Answered("initAny", v, 0) ELSE NotMounted
  BY DEF InitAny, Results
<1>2. /\ crossed' = (crossed \/ TakesOver(d)) /\ crossed \in BOOLEAN /\ crossed' \in BOOLEAN
      /\ crossed => crossed'
  BY DEF InitAny, IInv, CacheSane, TakesOver
<1>3. e \in BOOLEAN /\ (e <=> ~crossed')
  BY <1>2
<1> HIDE DEF e
<1>4. Finds(o, d, 0, e) \/ Finds(o, d, 1, e)
  BY <1>1, <1>2, <1>3, InitFinds
<1>5. PICK part \in {0, 1} : Finds(o, d, part, e)
  BY <1>4
<1> HIDE DEF s
<1>6. Sane(o.s, d, e)
  BY <1>5 DEF Finds
<1>7. CardsOwn' /\ CacheSane'
  BY <1>1, <1>2, <1>3, <1>6, BecomesSane DEF IInv
<1>8. VolumesSound'
  BY <1>1, <1>3, <1>6, ResultSound
<1>9. MountsTheCard' /\ answer'.part \in 0 .. 4
  <2>1. CASE o.ret
    <3> DEFINE op == "initAny"
    <3>1. /\ op \in {"init", "initAny"} /\ (op = "initAny" => part \in {0, 1}) /\ part \in 0 .. 5
          /\ answer' = Answered(op, v, IF op = "init" THEN part ELSE 0)
      BY <1>1, <2>1
    <3> HIDE DEF op
    <3> QED
      BY <1>1, <1>3, <1>5, <2>1, <3>1, FoundMounts
  <2>2. CASE ~o.ret
    BY <1>1, <2>2 DEF MountsTheCard, NotMounted, Answered
  <2> QED
    BY <2>1, <2>2
<1> QED
  BY <1>7, <1>8, <1>9 DEF IInv

\* A flush leaves the cards and the cache sane.
LEMMA FlushSane ==
  ASSUME IInv, sdCard \in Device, NEW e \in BOOLEAN, e <=> ~crossed,
         NEW s \in Cache!FlushLeaves(At(sdCard, Uninitialized))
  PROVE  Sane(s, sdCard, e)
<1>1. CardsOwn /\ CacheSane
  BY DEF IInv
<1>2. Sane(At(sdCard, Uninitialized), sdCard, e)
  BY <1>1, AtSane, UninitializedLaid
<1> QED
  BY <1>2, Flushed

\* A call without an answer about volumes keeps what is known of them.
LEMMA NoAnswer ==
  ASSUME IInv, CardsOwn', CacheSane', answer' = NotMounted, UNCHANGED <<volume, sdCard>>
  PROVE  IInv'
<1>1. VolumesSound'
  BY DEF IInv, VolumesSound
<1>2. MountsTheCard' /\ answer'.part \in 0 .. 4
  BY DEF MountsTheCard, NotMounted, Answered
<1> QED
  BY <1>1, <1>2 DEF IInv

LEMMA SyncInv ==
  ASSUME IInv, Sync
  PROVE  IInv'
<1>1. sdCard \in Device /\ crossed \in BOOLEAN /\ crossed' = crossed
  BY DEF IInv, CacheSane, Sync
<1>2. PICK s \in Cache!FlushLeaves(At(sdCard, Uninitialized)) : Becomes(sdCard, s)
  BY DEF Sync
<1> DEFINE e == ~crossed
<1>3. e \in BOOLEAN /\ (e <=> ~crossed) /\ (e <=> ~crossed')
  BY <1>1
<1> HIDE DEF e
<1>4. Sane(s, sdCard, e)
  BY <1>1, <1>2, <1>3, FlushSane
<1>5. CardsOwn' /\ CacheSane'
  BY <1>1, <1>2, <1>3, <1>4, BecomesSane DEF IInv
<1>6. answer' = NotMounted /\ volume' = volume /\ sdCard' = sdCard
  BY <1>2 DEF Sync, Becomes
<1> QED
  BY <1>5, <1>6, NoAnswer

\* Whatever a flush leaves can be dropped.
LEMMA CacheClearInv ==
  ASSUME IInv, CacheClear
  PROVE  IInv'
<1>1. PICK s \in Cache!FlushLeaves(At(sdCard, Uninitialized)) : Becomes(sdCard, Cleared(s))
  BY DEF CacheClear
<1>2. crossed' = crossed /\ crossed \in BOOLEAN /\ answer' = NotMounted /\ volume' = volume
  BY DEF CacheClear, IInv, CacheSane
<1>3. CASE sdCard = NoDevice
  <2>1. cacheDirty = 0
    BY <1>3 DEF IInv, CacheSane
  <2>2. s = At(sdCard, Uninitialized)
    BY <2>1 DEF Cache!FlushLeaves, Cache!FlushFails, Cache!FlushDone, At
  <2> DEFINE t == [At(sdCard, Uninitialized) EXCEPT !.num = NoBlock]
  <2>3. /\ t.num = NoBlock /\ t.buf = cacheBuffer
        /\ t.dirty = cacheDirty /\ t.mirror = cacheMirrorBlock
    BY DEF At
  <2>4. UNCHANGED <<cards, sdCard, cacheBuffer, cacheDirty, cacheMirrorBlock>>
        /\ cacheBlockNumber' = NoBlock
    BY <1>1, <1>3, <2>2, <2>3 DEF Becomes, Cleared
  <2>5. CardsOwn' /\ CacheSane'
    BY <1>2, <2>4 DEF IInv, CardsOwn, CacheSane, NeverCrosses
  <2> QED
    BY <1>2, <2>4, <2>5, NoAnswer
<1>4. CASE sdCard \in Device
  <2> DEFINE e == ~crossed
             t == Cleared(s)
  <2>1. e \in BOOLEAN /\ (e <=> ~crossed) /\ (e <=> ~crossed')
    BY <1>2
  <2> HIDE DEF e
  <2>2. Sane(s, sdCard, e)
    BY <1>1, <1>4, <2>1, FlushSane
  <2>3. t = [card |-> s.card, num |-> NoBlock, buf |-> s.buf, dirty |-> s.dirty,
             mirror |-> s.mirror, l |-> s.l]
    BY <2>2 DEF Cleared, Sane, Snapshot
  <2> HIDE DEF t
  <2>4. Sane(t, sdCard, e) /\ Becomes(sdCard, t)
    BY <1>1, <2>2, <2>3 DEF Sane, Snapshot, t
  <2>5. CardsOwn' /\ CacheSane'
    BY <1>2, <1>4, <2>1, <2>4, BecomesSane DEF IInv
  <2>6. sdCard' = sdCard
    BY <2>4 DEF Becomes
  <2> QED
    BY <1>2, <2>5, <2>6, NoAnswer
<1> QED
  BY <1>3, <1>4 DEF IInv, CacheSane

\* The mirror of a usable FAT block is a block of the card.
LEMMA MirrorOnCard ==
  ASSUME NEW l \in Layout, NEW b \in Block, Usable(l, b), l.fatCount > 1, InFat(l, b)
  PROVE  b + l.blocksPerFat \in Word
<1>1. /\ b \in Nat /\ l.fatStartBlock \in Nat /\ l.blocksPerFat \in Nat
      /\ l.fatCount \in Nat /\ l.fatCount > 1
  BY Zero DEF Layout, Word
<1>2. l.fatCount * l.blocksPerFat >= l.blocksPerFat
  BY <1>1
<1>3. b < l.fatStartBlock + l.blocksPerFat
  BY <1>1 DEF InFat
<1>4. l.fatCount * l.blocksPerFat \in Nat
  BY <1>1
<1>5. ~(b >= l.fatStartBlock + l.fatCount * l.blocksPerFat)
  BY <1>1, <1>2, <1>3, <1>4
<1>6. b + l.blocksPerFat \in Block
  BY <1>5 DEF Usable
<1> QED
  BY <1>6, Zero

\* What a file writes through the cache is for the card of its volume; the cache has it go
\* to the card taken last, which is the same one or `crossed' says so.
LEMMA UseInv ==
  ASSUME IInv, NEW v \in Volume, NEW b \in Used, Use(v, b)
  PROVE  IInv'
<1> DEFINE l == volume[v]
           s == At(sdCard, l)
           t == Cache!LoadDone(s, b)
           e == ~crossed'
<1>1. l \in Layout /\ LaidOut(l) /\ b \in Block
  BY BlockAssumption DEF IInv, VolumesSound
<1>2. sdCard \in Device /\ l.dev \in Device /\ Usable(l, b)
  BY <1>1 DEF Use, LaidOut, IInv, CacheSane, VolumesSound
<1>3. /\ crossed' = (crossed \/ l.dev # sdCard) /\ crossed \in BOOLEAN /\ crossed' \in BOOLEAN
      /\ crossed => crossed'
  BY DEF Use, IInv, CacheSane
<1>4. e \in BOOLEAN /\ (e <=> ~crossed') /\ (e => l.dev = sdCard /\ ~crossed)
  BY <1>3
<1> HIDE DEF e
<1>5. Sane(s, sdCard, e) /\ s.l = l
  <2>1. s.l = l
    BY DEF At
  <2> HIDE DEF l
  <2> QED
    BY <1>1, <1>2, <1>4, <2>1, AtSane DEF IInv
<1>6. PICK o \in RawFails(s, b) \cup (IF Cache!LoadCan(s, b) THEN {Changed(t, b)} ELSE {}) :
        /\ Becomes(sdCard, o.s) /\ volume' = [volume EXCEPT ![v] = o.s.l]
        /\ answer' = NotMounted
  <2>1. \E o \in Raw(s, b, LAMBDA x : {Changed(x, b)}) :
          /\ Becomes(sdCard, o.s) /\ volume' = [volume EXCEPT ![v] = o.s.l]
          /\ answer' = IF o.ret THEN NotMounted ELSE NotMounted
    BY Zenon DEF Use, Results
  <2>2. Raw(s, b, LAMBDA x : {Changed(x, b)}) \subseteq
          RawFails(s, b) \cup (IF Cache!LoadCan(s, b) THEN {Changed(t, b)} ELSE {})
    BY DEF Raw, RawFails
  <2> QED
    BY <2>1, <2>2, Zenon
<1> HIDE DEF l, s
<1>7. Sane(o.s, sdCard, e)
  <2>1. CASE \E f \in Cache!LoadFails(s, b) : o = Outcome(f, FALSE)
    BY <1>2, <1>4, <1>5, <2>1, Flushed DEF Outcome, Cache!LoadFails
  <2>2. CASE Cache!LoadCan(s, b) /\ o = Changed(t, b)
    <3>1. Sane(t, sdCard, e) /\ t.num = b /\ t.l = l
      BY <1>1, <1>2, <1>4, <1>5, <2>2, Loaded DEF Keeps
    <3> DEFINE x == [what |-> Data, for |-> l.dev]
               m == IF l.fatCount > 1 /\ InFat(l, b) THEN b + l.blocksPerFat ELSE t.mirror
    <3> HIDE DEF t
    <3>2. x \in Own(sdCard, e) /\ x \in Held
      BY <1>2, <1>4, WhatAssumption DEF Own, Held
    <3>3. t \in Snapshot(sdCard, e) /\ t.mirror \in Word
      BY <3>1 DEF Sane, Snapshot
    <3>4. m \in Word
      BY <1>1, <1>2, <3>3, MirrorOnCard
    <3>5. o.s = [card |-> t.card, num |-> t.num, buf |-> x, dirty |-> 1, mirror |-> m, l |-> l]
      <4>1. Cache!Edited(t, x) = [card |-> t.card, num |-> t.num, buf |-> x, dirty |-> 1,
                                  mirror |-> t.mirror, l |-> l]
        <5> DEFINE f == Cache!Edited(t, x)
        <5>1. f = [t EXCEPT !.buf = x, !.dirty = 1]
          BY DEF Cache!Edited
        <5> HIDE DEF f, x
        <5>2. f = [card |-> t.card, num |-> t.num, buf |-> x, dirty |-> 1,
                   mirror |-> t.mirror, l |-> t.l]
          BY <3>3, <5>1 DEF Snapshot
        <5> QED
          BY <3>1, <5>2 DEF f
      <4>2. o.s = IF l.fatCount > 1 /\ InFat(l, b)
                  THEN [Cache!Edited(t, x) EXCEPT !.mirror = b + l.blocksPerFat]
                  ELSE Cache!Edited(t, x)
        BY <2>2, <3>1 DEF Changed, Outcome
      <4> QED
        BY <4>1, <4>2
    <3> HIDE DEF x, m
    <3>6. o.s \in Snapshot(sdCard, e)
      BY <1>1, <3>2, <3>3, <3>4, <3>5 DEF Snapshot
    <3> QED
      BY <1>1, <3>2, <3>5, <3>6 DEF Sane
  <2> QED
    BY <1>6, <2>1, <2>2 DEF RawFails
<1>8. CardsOwn' /\ CacheSane'
  BY <1>2, <1>3, <1>4, <1>6, <1>7, BecomesSane DEF IInv
<1>9. VolumesSound'
  BY <1>2, <1>4, <1>6, <1>7, ResultSound
<1>10. MountsTheCard' /\ answer'.part \in 0 .. 4
  BY <1>6 DEF MountsTheCard, NotMounted, Answered
<1> QED
  BY <1>8, <1>9, <1>10 DEF IInv

-----------------------------------------------------------------------------
\* The arithmetic of a layout: a 32-bit number, the blocks of the root directory, and how
\* many clusters fit.
LEMMA Wraps ==
  ASSUME NEW n \in Nat
  PROVE  /\ n < Width => n % Width = n
         /\ Width <= n /\ n < 2 * Width => n % Width = n - Width
<1>1. ASSUME n < Width PROVE n % Width = n
  BY <1>1, Zero
<1>2. ASSUME Width <= n, n < 2 * Width PROVE n % Width = n - Width
  BY <1>2, Zero
<1> QED
  BY <1>1, <1>2

LEMMA RootFits ==
  ASSUME NEW e \in Nat
  PROVE  LET r == (e + EntriesPerBlock - 1) \div EntriesPerBlock IN
         r \in Nat /\ r <= e /\ r * EntriesPerBlock >= e
<1> DEFINE r == (e + EntriesPerBlock - 1) \div EntriesPerBlock
<1>1. EntriesPerBlock \in Nat /\ EntriesPerBlock > 0
  BY WordAssumption
<1>2. r \in Nat
  BY <1>1
<1>3. r * EntriesPerBlock >= e
  BY <1>1
<1>4. r <= e
  BY <1>1
<1> QED
  BY <1>2, <1>3, <1>4

LEMMA Quotient ==
  ASSUME NEW n \in Nat, NEW k \in Nat \ {0}
  PROVE  n \div k \in Nat /\ (n \div k) * k <= n /\ n < (n \div k) * k + k
  OBVIOUS

\* The layout of a boot sector that has room for more than its tables: nothing wraps around.
LEMMA LaidSound ==
  ASSUME NEW l, NEW d, NEW start \in Word, NEW what \in What, l = Laid(l, d, start, what),
         ValidBoot(Fbs[what]), Shifts(Fbs[what]) # {}, Fits(Fbs[what], start)
  PROVE  LET fatEnd == l.fatStartBlock + l.fatCount * l.blocksPerFat
             dataEnd == l.dataStartBlock + l.clusterCount * l.blocksPerCluster
         IN /\ start < l.fatStartBlock /\ fatEnd <= l.dataStartBlock
            /\ l.fatType # 32 => l.rootDirStart = fatEnd
            /\ (l.dataStartBlock - fatEnd) * EntriesPerBlock >= l.rootDirEntryCount
            /\ dataEnd <= start + Total(Fbs[what])
            /\ dataEnd + l.blocksPerCluster > start + Total(Fbs[what])
<1> DEFINE b == Fbs[what]
           shift == CHOOSE k \in Shifts(b) : TRUE
           res == b.reservedSectorCount
           fats == b.fatCount * FatBlocks(b)
           entries == b.rootDirEntryCount
           root == RootBlocks(b)
           spc == b.sectorsPerCluster
           total == Total(b)
           fatStart == (start + res) % Width
           rootStart == (fatStart + fats) % Width
           dataStart == (rootStart + root) % Width
           overhead == (dataStart + Width - start) % Width
           count == Clusters(b, overhead, shift)
<1>1. /\ spc \in Nat \ {0} /\ res \in Nat \ {0} /\ b.fatCount \in Nat /\ entries \in Nat
      /\ b.totalSectors16 \in Nat /\ b.totalSectors32 \in Nat
      /\ b.sectorsPerFat16 \in Nat /\ b.sectorsPerFat32 \in Nat /\ start \in Nat
  BY WhatAssumption DEF Bpb, ValidBoot, Word
<1>2. FatBlocks(b) \in Nat /\ total \in Nat
  BY <1>1 DEF FatBlocks, Total, Or
<1>3. fats \in Nat
  BY <1>1, <1>2
<1>4. root \in Nat /\ root <= entries /\ root * EntriesPerBlock >= entries
  BY <1>1, RootFits DEF RootBlocks
<1>5. res + fats + entries < total /\ start + total < Width
  BY DEF Fits
<1>6. 2 ^ shift = spc
  BY DEF Shifts
<1>7. l = [fatCount |-> b.fatCount, blocksPerCluster |-> spc,
           clusterSizeShift |-> shift, blocksPerFat |-> FatBlocks(b), fatStartBlock |-> fatStart,
           rootDirEntryCount |-> entries,
           rootDirStart |-> IF FatType(count) = 32 THEN b.fat32RootCluster ELSE rootStart,
           dataStartBlock |-> dataStart, clusterCount |-> count, fatType |-> FatType(count),
           mounted |-> TRUE, dev |-> d, start |-> start, boot |-> what]
  BY DEF Laid
<1>8. count = ((total + Width - overhead) % Width) \div spc
  BY <1>6 DEF Clusters
<1> DEFINE fatBlocks == FatBlocks(b)
           fatCount == b.fatCount
<1>9. l.fatCount * l.blocksPerFat = fats
  BY <1>7
<1>10. /\ l.fatStartBlock = fatStart /\ l.dataStartBlock = dataStart /\ l.clusterCount = count
       /\ l.blocksPerCluster = spc /\ l.rootDirEntryCount = entries
       /\ l.fatType # 32 => l.rootDirStart = rootStart
  BY <1>7
<1> HIDE DEF b, shift, res, fats, entries, root, spc, total, fatStart, rootStart, dataStart,
             overhead, count
<1>11. fatStart = start + res
  <2>1. start + res = start + res /\ start + res \in Nat /\ start + res < Width
    BY <1>1, <1>2, <1>3, <1>4, <1>5, Zero
  <2>2. (start + res) % Width = start + res
    BY <2>1, Wraps
  <2> QED
    BY <2>1, <2>2 DEF fatStart
<1>12. rootStart = start + res + fats
  <2>1. fatStart + fats = start + res + fats /\ start + res + fats \in Nat /\ start + res + fats < Width
    BY <1>1, <1>2, <1>3, <1>4, <1>5, <1>11, Zero
  <2>2. (fatStart + fats) % Width = fatStart + fats
    BY <2>1, Wraps
  <2> QED
    BY <2>1, <2>2 DEF rootStart
<1>13. dataStart = start + res + fats + root
  <2>1. rootStart + root = start + res + fats + root /\ start + res + fats + root \in Nat /\ start + res + fats + root < Width
    BY <1>1, <1>2, <1>3, <1>4, <1>5, <1>12, Zero
  <2>2. (rootStart + root) % Width = rootStart + root
    BY <2>1, Wraps
  <2> QED
    BY <2>1, <2>2 DEF dataStart
<1>14. overhead = res + fats + root
  <2>1. dataStart + Width - start = Width + (res + fats + root)
    BY <1>1, <1>3, <1>4, <1>13, Zero
  <2> QED
    BY <1>1, <1>2, <1>3, <1>4, <1>5, <2>1, Wraps, Zero DEF overhead
<1> DEFINE room == total - overhead
<1>15. room \in Nat /\ (total + Width - overhead) % Width = room
  BY <1>1, <1>2, <1>3, <1>4, <1>5, <1>14, Wraps, Zero
<1>16. count \in Nat /\ count * spc <= room /\ room < count * spc + spc
  <2> HIDE DEF room
  <2> QED
    BY <1>1, <1>8, <1>15, Quotient
<1> DEFINE used == count * spc
<1>17. used \in Nat
  BY <1>1, <1>16
<1>18. /\ dataStart + used <= start + total
       /\ dataStart + used + spc > start + total
  <2> HIDE DEF used
  <2>1. used <= total - overhead /\ total - overhead < used + spc
    BY <1>16 DEF used
  <2> QED
    BY <1>1, <1>2, <1>3, <1>4, <1>13, <1>14, <1>17, <2>1
<1>19. dataStart - (fatStart + fats) = root
  BY <1>1, <1>3, <1>4, <1>11, <1>13
<1>20. start < fatStart /\ fatStart + fats <= dataStart /\ rootStart = fatStart + fats
  BY <1>1, <1>3, <1>4, <1>11, <1>12, <1>13
<1>21. Total(Fbs[what]) = total
  BY DEF total, b
<1> QED
  BY <1>4, <1>9, <1>10, <1>18, <1>19, <1>20, <1>21

-----------------------------------------------------------------------------
LEMMA NextInv == IInv /\ [Next]_vars => IInv'
<1> SUFFICES ASSUME IInv, [Next]_vars PROVE IInv'
  OBVIOUS
<1>1. ASSUME NEW v \in Volume, NEW d \in Device, InitAny(v, d) PROVE IInv'
  BY <1>1, InitAnyInv
<1>2. ASSUME NEW v \in Volume, NEW d \in Device, NEW part \in 0 .. 5, InitPart(v, d, part)
      PROVE  IInv'
  BY <1>2, InitPartInv
<1>3. ASSUME NEW v \in Volume, NEW b \in Used, Use(v, b) PROVE IInv'
  BY <1>3, UseInv
<1>4. CASE CacheClear
  BY <1>4, CacheClearInv
<1>5. CASE Sync
  BY <1>5, SyncInv
<1>6. CASE UNCHANGED vars
  BY <1>6 DEF vars, IInv, CardsOwn, CacheSane, VolumesSound, NeverCrosses, MountsTheCard, OnCard, Reads
<1> QED
  BY <1>1, <1>2, <1>3, <1>4, <1>5, <1>6 DEF Next

THEOREM Invariant == Spec => []IInv
<1>1. IInv /\ [Next]_vars => IInv'
  BY NextInv
<1> QED
  BY <1>1, InitInv, PTL DEF Spec

\* Every variable has its type, whatever crosses from one card to another.
THEOREM TypeCorrect == Spec => []TypeOK
<1>1. IInv => TypeOK
  <2> SUFFICES ASSUME IInv PROVE TypeOK
    OBVIOUS
  <2>1. ASSUME NEW v \in Volume
        PROVE  LET l == volume[v] IN
               /\ {l.fatCount, l.blocksPerCluster, l.blocksPerFat, l.fatStartBlock,
                   l.rootDirEntryCount, l.rootDirStart, l.dataStartBlock, l.clusterCount,
                   l.start} \subseteq Word
               /\ l.clusterSizeShift \in 0 .. MaxShift + 2 /\ l.fatType \in {0, 12, 16, 32}
               /\ l.mounted \in BOOLEAN /\ l.dev \in Device \cup {NoDevice} /\ l.boot \in What
    BY DEF IInv, VolumesSound, Layout
  <2> QED
    BY <2>1 DEF TypeOK, IInv, CardsOwn, CacheSane
<1> QED
  BY <1>1, Invariant, PTL

\* SdVolume.cpp:99-114, 227-229: an init() for another card, which does not clear the cache,
\* brings no block over to it unless that block is dirty, is block 0, or is still in the
\* cache when init() returns; then no card holds a block that was written for another,
\* however many cards there are, whatever they hold, and whichever transfers fail.
THEOREM NeverCrossed == Spec => []NeverCrosses
<1>1. IInv => NeverCrosses
  BY DEF IInv, CardsOwn
<1> QED
  BY <1>1, Invariant, PTL

\* SdVolume.cpp:227-244: under the same condition, which is about the cache and not about
\* what init() does with it, an init() that returns true found the volume on the card it
\* was given, at the partition it was given, for every table and boot sector.
THEOREM MountedTheCard == Spec => []MountsTheCard
<1>1. IInv => MountsTheCard
  BY DEF IInv
<1> QED
  BY <1>1, Invariant, PTL

\* SdVolume.cpp:253-294: the layout of a mounted volume is sound for every boot sector with
\* room for more than its tables, and for every width of the numbers.
THEOREM LayoutIsSound == Spec => []LayoutSound
<1>1. IInv => LayoutSound
  <2> SUFFICES ASSUME IInv, NEW v \in Volume, volume[v].mounted,
                      Fits(Fbs[volume[v].boot], volume[v].start)
               PROVE  LET l == volume[v]
                          b == Fbs[l.boot]
                          fatEnd == l.fatStartBlock + l.fatCount * l.blocksPerFat
                          dataEnd == l.dataStartBlock + l.clusterCount * l.blocksPerCluster
                      IN /\ l.start < l.fatStartBlock /\ fatEnd <= l.dataStartBlock
                         /\ l.fatType # 32 => l.rootDirStart = fatEnd
                         /\ (l.dataStartBlock - fatEnd) * EntriesPerBlock >= l.rootDirEntryCount
                         /\ dataEnd <= l.start + Total(b)
                         /\ dataEnd + l.blocksPerCluster > l.start + Total(b)
    BY Zenon DEF LayoutSound
  <2> DEFINE l == volume[v]
  <2>1. l \in Layout /\ l.start \in Word /\ l.boot \in What
    BY DEF IInv, VolumesSound, Layout
  <2>2. /\ ValidBoot(Fbs[l.boot]) /\ Shifts(Fbs[l.boot]) # {}
        /\ l = Laid(l, l.dev, l.start, l.boot)
    BY DEF IInv, VolumesSound, LaidOut
  <2>3. Fits(Fbs[l.boot], l.start)
    OBVIOUS
  <2> QED
    BY <2>1, <2>2, <2>3, LaidSound
<1> QED
  BY <1>1, Invariant, PTL
=============================================================================

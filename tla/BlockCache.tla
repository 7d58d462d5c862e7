----------------------------- MODULE BlockCache -----------------------------
(***************************************************************************)
(* The one-block write-back cache of SdVolume (src/src/utility/            *)
(* SdVolume.cpp:99-137, SdFat.h:458-462), the FAT entry access and the     *)
(* paths of SdFile that go through it or around it, over a card whose      *)
(* every transfer may fail.                                                *)
(*                                                                         *)
(* A call is a step.  What it does is computed on snapshots of the cache   *)
(* and the card: for a helper X, XFails(s) are the snapshots it may leave  *)
(* when it returns false, and XDone(s) the one it leaves when it returns   *)
(* true, which it can only if XCan(s).                                     *)
(***************************************************************************)
EXTENDS Integers

CONSTANTS
  Block,         \* the block numbers of the card
  Fat,           \* the blocks of the first FAT
  DataBlock,     \* the blocks of directories and files
  BlocksPerFat,  \* blocksPerFat_
  FatCount,      \* fatCount_
  Val,           \* what a block may hold
  Zero,          \* 512 zero bytes
  NoBlock,       \* 0XFFFFFFFF, which is no block of any card
  NoRead         \* no block was read yet

UserBlock == Fat \cup DataBlock
NoMirror == 0    \* cacheMirrorBlock_ of a block that has none
MirrorOf(f) == f + BlocksPerFat
Mirrors == {MirrorOf(f) : f \in Fat}

ASSUME BlockAssumption == Block \subseteq Nat /\ NoBlock \notin Block
ASSUME CountAssumption == BlocksPerFat \in Nat \ {0} /\ FatCount \in Nat \ {0}
ASSUME LayoutAssumption ==
  /\ Fat \subseteq Block \ {0} /\ Mirrors \subseteq Block
  /\ DataBlock \subseteq Block \ {0}
  /\ Fat \cap Mirrors = {} /\ Fat \cap DataBlock = {} /\ DataBlock \cap Mirrors = {}
ASSUME ValAssumption == Zero \in Val
ASSUME NoReadAssumption == NoRead \notin [block : Block, val : Val]

VARIABLES
  card,               \* what each block of the card holds
  cacheBlockNumber,   \* the block in the cache, or NoBlock
  cacheBuffer,        \* its bytes
  cacheDirty,         \* they differ from the card's
  cacheMirrorBlock,   \* where their second copy goes, or NoMirror
  ok,                 \* what the last call returned
  got,                \* the block last read and what the caller got
  lost                \* history: power failed, or cacheClear() gave up a block

vars == <<card, cacheBlockNumber, cacheBuffer, cacheDirty, cacheMirrorBlock, ok, got, lost>>

TypeOK ==
  /\ card \in [Block -> Val]
  /\ cacheBlockNumber \in UserBlock \cup {NoBlock}
  /\ cacheBuffer \in Val
  /\ cacheDirty \in {0, 1}
  /\ cacheMirrorBlock \in Mirrors \cup {NoMirror}
  /\ ok \in BOOLEAN
  /\ got \in [block : Block, val : Val] \cup {NoRead}
  /\ lost \in BOOLEAN

Init ==
  /\ card \in [Block -> Val]
  /\ \A f \in Fat : card[f] = card[MirrorOf(f)]
  /\ cacheBlockNumber = NoBlock /\ cacheBuffer = Zero
  /\ cacheDirty = 0 /\ cacheMirrorBlock = NoMirror
  /\ ok = TRUE /\ got = NoRead /\ lost = FALSE

(***************************************************************************)
(* Snapshots                                                               *)
(***************************************************************************)
Now == [card |-> card, num |-> cacheBlockNumber, buf |-> cacheBuffer,
        dirty |-> cacheDirty, mirror |-> cacheMirrorBlock]

Becomes(s) ==
  /\ card' = s.card
  /\ cacheBlockNumber' = s.num
  /\ cacheBuffer' = s.buf
  /\ cacheDirty' = s.dirty
  /\ cacheMirrorBlock' = s.mirror

\* Sd2Card::writeBlock refuses block 0; the card refuses what it does not have
Writable(b) == b \in Block \ {0}

\* writeBlock() of the buffer
Stored(s, b) == [s EXCEPT !.card = [@ EXCEPT ![b] = s.buf]]

\* the buffer is in its block, and in the block's mirror
BothStored(s) ==
  IF s.mirror = NoMirror THEN Stored(s, s.num) ELSE Stored(Stored(s, s.num), s.mirror)

\* faulty: clean as soon as the first copy is written
FlushCleansEarly(s) ==
  IF s.dirty = 0 THEN {}
  ELSE {s} \cup (IF Writable(s.num)
                 THEN {[t EXCEPT !.dirty = 0] : t \in {Stored(s, s.num), BothStored(s)}} ELSE {})
\* faulty: the mirror stays pending
FlushKeepsMirror(s) == IF s.dirty = 0 THEN s ELSE [BothStored(s) EXCEPT !.dirty = 0]

\* faulty: the mirror first
FlushMirrorFirst(s) ==
  IF s.dirty = 0 THEN {}
  ELSE {s} \cup (IF s.mirror # NoMirror THEN {Stored(s, s.mirror)} ELSE {})
           \cup (IF Writable(s.num) THEN {BothStored(s)} ELSE {})

\* cacheFlush(): the block, then its mirror; dirty until both are written.  A
\* write that fails may or may not have reached the card.
FlushCan(s) == s.dirty = 0 \/ Writable(s.num)
FlushFails(s) ==
  IF s.dirty = 0 THEN {}
  ELSE {s} \cup (IF Writable(s.num) THEN {Stored(s, s.num), BothStored(s)} ELSE {})
FlushDone(s) ==
  IF s.dirty = 0 THEN s ELSE [BothStored(s) EXCEPT !.dirty = 0, !.mirror = NoMirror]

FlushLeaves(s) == FlushFails(s) \cup (IF FlushCan(s) THEN {FlushDone(s)} ELSE {})

\* faulty: the number is set before the read
LoadFailsEarly(s, b) ==
  IF s.num = b THEN {}
  ELSE FlushLeaves(s) \cup (IF FlushCan(s) THEN {[FlushDone(s) EXCEPT !.num = b]} ELSE {})

\* cacheRawBlock(b, CACHE_FOR_READ): a read that fails leaves the buffer as it was
LoadCan(s, b) == s.num = b \/ FlushCan(s)
LoadFails(s, b) == IF s.num = b THEN {} ELSE FlushLeaves(s)
LoadDone(s, b) ==
  IF s.num = b THEN s
  ELSE [FlushDone(s) EXCEPT !.num = b, !.buf = FlushDone(s).card[b]]

\* faulty: cacheDirty_ += action
EditedAdding(s, v) == [s EXCEPT !.buf = v, !.dirty = @ + 1]

\* the caller has put v in the buffer and set it dirty
Edited(s, v) == [s EXCEPT !.buf = v, !.dirty = 1]

\* faulty: no flush before
AdoptedUnflushed(s, b, v) == [Edited(s, v) EXCEPT !.num = b]

\* after a flush, the buffer is taken for block b without reading it
Adopted(s, b, v) == [Edited(FlushDone(s), v) EXCEPT !.num = b]

(***************************************************************************)
(* Calls                                                                   *)
(***************************************************************************)
Leaves(s, r) == Becomes(s) /\ ok' = r /\ UNCHANGED <<got, lost>>
Fails(set)   == \E s \in set : Leaves(s, FALSE)

CacheFlush ==
  \/ Fails(FlushFails(Now))
  \/ FlushCan(Now) /\ Leaves(FlushDone(Now), TRUE)

\* cacheRawBlock or fatGet for reading: the caller looks at the buffer
CacheRead(b) ==
  \/ Fails(LoadFails(Now, b))
  \/ /\ LoadCan(Now, b)
     /\ Becomes(LoadDone(Now, b))
     /\ got' = [block |-> b, val |-> LoadDone(Now, b).buf]
     /\ ok' = TRUE /\ UNCHANGED lost

\* cacheRawBlock(b, CACHE_FOR_WRITE) and a change of the buffer
CacheWrite(b, v) ==
  \/ Fails(LoadFails(Now, b))
  \/ LoadCan(Now, b) /\ Leaves(Edited(LoadDone(Now, b), v), TRUE)

\* fatPut() of an entry of block b
Mirrored(s) == IF FatCount > 1 THEN [s EXCEPT !.mirror = MirrorOf(s.num)] ELSE s

FatPut(b, v) ==
  \/ Fails(LoadFails(Now, b))
  \/ LoadCan(Now, b) /\ Leaves(Mirrored(Edited(LoadDone(Now, b), v)), TRUE)

\* cacheZeroBlock(b)
CacheZeroBlock(b) ==
  \/ Fails(FlushFails(Now))
  \/ FlushCan(Now) /\ Leaves(Adopted(Now, b, Zero), TRUE)

\* SdFile::write starting a block at the end of the file: the rest of the
\* buffer keeps whatever it held
CacheNewBlock(b, v) ==
  \/ Fails(FlushFails(Now))
  \/ FlushCan(Now) /\ Leaves(Adopted(Now, b, v), TRUE)

\* faulty: the cached block is not invalidated
NotForgotten(b) == Now

\* SdFile::write of a whole block, past the cache, which forgets the block
\* before the transfer; one that fails may have reached the card or not
Forgotten(b) == [Now EXCEPT !.num = IF @ = b THEN NoBlock ELSE @]
WithCard(s, b, v) == [s EXCEPT !.card = [@ EXCEPT ![b] = v]]

WriteThrough(b, v) ==
  \/ Fails({Forgotten(b), WithCard(Forgotten(b), b, v)})
  \/ Leaves(WithCard(Forgotten(b), b, v), TRUE)

\* SdFile::read of a whole block, or unbuffered: past the cache unless the
\* block is in it
ReadThrough(b) ==
  /\ b # cacheBlockNumber
  /\ \/ ok' = FALSE /\ UNCHANGED got
     \/ ok' = TRUE /\ got' = [block |-> b, val |-> card[b]]
  /\ UNCHANGED <<card, cacheBlockNumber, cacheBuffer, cacheDirty, cacheMirrorBlock, lost>>

\* cacheClear(): the result of the flush is dropped, and the caller uses the
\* buffer for bytes v of its own
CacheClear(v) ==
  \E s \in FlushLeaves(Now) :
    /\ Becomes([s EXCEPT !.num = NoBlock, !.buf = v])
    /\ lost' = (lost \/ s.dirty = 1)
    /\ ok' = TRUE /\ UNCHANGED got

\* the program starts again: the static members have their initial values
PowerFail ==
  /\ cacheBlockNumber' = NoBlock /\ cacheBuffer' = Zero
  /\ cacheDirty' = 0 /\ cacheMirrorBlock' = NoMirror
  /\ got' = NoRead /\ ok' = TRUE /\ lost' = TRUE
  /\ UNCHANGED card

Next ==
  \/ CacheFlush
  \/ \E b \in UserBlock : CacheRead(b)
  \/ \E b \in Fat, v \in Val : FatPut(b, v)
  \/ \E b \in DataBlock, v \in Val : CacheWrite(b, v) \/ CacheNewBlock(b, v) \/ WriteThrough(b, v)
  \/ \E b \in DataBlock : CacheZeroBlock(b) \/ ReadThrough(b)
  \/ \E v \in Val : CacheClear(v)
  \/ PowerFail

Spec == Init /\ [][Next]_vars

(***************************************************************************)
(* Properties                                                              *)
(***************************************************************************)
\* A clean block in the cache is the card's block, although files write whole
\* blocks past the cache and loads fail halfway (SdVolume.cpp:116-124).
CacheSound ==
  cacheDirty = 0 /\ cacheBlockNumber # NoBlock => cacheBuffer = card[cacheBlockNumber]

\* While nothing was given up, the two FATs differ at most in the block the
\* cache holds, and then the cache still has the second copy to write: a
\* flush that fails between the two writes is finished by a later one
\* (SdVolume.cpp:99-114).
MirrorsAgree ==
  FatCount > 1 /\ ~lost =>
    \A f \in Fat : card[f] # card[MirrorOf(f)] =>
      cacheBlockNumber = f /\ cacheDirty = 1 /\ cacheMirrorBlock = MirrorOf(f)

\* A block to mirror is pending only for a dirty block of the first FAT, so
\* no other block is ever copied over the second FAT (SdVolume.cpp:105-109).
MirrorIsPending ==
  cacheMirrorBlock # NoMirror =>
    /\ cacheDirty = 1
    /\ cacheBlockNumber = NoBlock \/ MirrorOf(cacheBlockNumber) = cacheMirrorBlock

(***************************************************************************)
(* The cache implements an array of blocks.                                *)
(***************************************************************************)
Contents == [b \in UserBlock |-> IF b = cacheBlockNumber THEN cacheBuffer ELSE card[b]]

Store == INSTANCE BlockStore WITH
  store <- Contents, durable <- [b \in UserBlock |-> card[b]]

\* Every read, through the cache or past it, returns what was last written to
\* that block, whichever of the paths it was written by and whatever transfers
\* failed in between; no call touches another block; a cacheFlush() that
\* returns true has put everything written on the card (SdVolume.cpp:99-192,
\* SdFile.cpp:700-711, 1175-1198).
ImplementsStore == Store!Spec
=============================================================================

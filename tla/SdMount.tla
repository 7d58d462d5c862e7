------------------------------- MODULE SdMount -------------------------------
(***************************************************************************)
(* SdVolume::init() (src/src/utility/SdVolume.cpp:227-295, SdFat.h:474):   *)
(* SdVolume objects find the volume of a card, through the block cache     *)
(* that all of them share, with the pointer to the card beside it.  What   *)
(* the cache does is BlockCache's; here there is more than one card.       *)
(***************************************************************************)
EXTENDS Naturals

CONSTANTS
  Device,           \* the Sd2Card objects, each with a card
  NoDevice,         \* sdCard_ before any init()
  Volume,           \* the SdVolume objects
  Block, NoBlock,   \* block numbers of a card, and 0XFFFFFFFF
  What,             \* what a block may hold
  Mbr, Fbs,         \* the same 512 bytes read as mbr_t.part and as fbs_t.bpb
  Data,             \* what files write
  Image,            \* what a card may hold at the beginning
  Used,             \* bound: the blocks that files use
  Width,            \* 2^32
  MaxShift,         \* 7: sectorsPerCluster is below 2^(MaxShift + 1)
  BlockSize,        \* 512
  EntriesPerBlock,  \* 16: directory entries in a block
  MinSectors,       \* 100
  MinFat16, MinFat32   \* 4085 and 65525: cluster counts where the FAT types begin

Word == 0 .. Width - 1

\* part_t: whether boot is 0 or 80H, and the extent
Partition == [legal : BOOLEAN, firstSector : Word, totalSectors : Word]
\* bpb_t: the fields that init() reads
Bpb == [bytesPerSector : Word, sectorsPerCluster : Word, reservedSectorCount : Word,
        fatCount : Word, rootDirEntryCount : Word, totalSectors16 : Word, totalSectors32 : Word,
        sectorsPerFat16 : Word, sectorsPerFat32 : Word, fat32RootCluster : Word]

ASSUME BlockAssumption == Block \subseteq Word \ {NoBlock} /\ 0 \in Block /\ Used \subseteq Block
ASSUME WordAssumption ==
  Width \in Nat \ {0} /\ MaxShift \in Nat /\ BlockSize \in Word /\ EntriesPerBlock \in Nat \ {0}
ASSUME WhatAssumption ==
  /\ Data \in What /\ Image \subseteq [Block -> What]
  /\ Mbr \in [What -> [1 .. 4 -> Partition]] /\ Fbs \in [What -> Bpb]
ASSUME DeviceAssumption == NoDevice \notin Device

VARIABLES
  cards,            \* for each device, what each block holds and for which device it was written
  sdCard,           \* static: where the cache's transfers go
  cacheBlockNumber, cacheBuffer, cacheDirty, cacheMirrorBlock,   \* static, as in BlockCache
  volume,           \* the SdVolume objects
  answer,           \* what the last call was if it was an init() that returned true
  crossed           \* history: one card's block was left in the cache for another

vars == <<cards, sdCard, cacheBlockNumber, cacheBuffer, cacheDirty, cacheMirrorBlock,
          volume, answer, crossed>>

Held == [what : What, for : Device]
Blank == [what |-> Data, for |-> NoDevice]    \* the buffer before its first use

\* `dev', `start' and `boot' are history: where the last init() that returned true found it
Uninitialized == [fatCount |-> 0, blocksPerCluster |-> 0, clusterSizeShift |-> 0, blocksPerFat |-> 0,
                  fatStartBlock |-> 0, rootDirEntryCount |-> 0, rootDirStart |-> 0,
                  dataStartBlock |-> 0, clusterCount |-> 0, fatType |-> 0,
                  mounted |-> FALSE, dev |-> NoDevice, start |-> 0, boot |-> Data]
Answered(op, v, part) == [op |-> op, vol |-> v, part |-> part]
NotMounted == Answered("none", "none", 0)

TypeOK ==
  /\ cards \in [Device -> [Block -> Held]]
  /\ sdCard \in Device \cup {NoDevice}
  /\ cacheBlockNumber \in Block \cup {NoBlock} /\ cacheBuffer \in Held \cup {Blank}
  /\ cacheDirty \in {0, 1} /\ cacheMirrorBlock \in Word
  /\ \A v \in Volume : LET l == volume[v] IN
       /\ {l.fatCount, l.blocksPerCluster, l.blocksPerFat, l.fatStartBlock, l.rootDirEntryCount,
           l.rootDirStart, l.dataStartBlock, l.clusterCount, l.start} \subseteq Word
       /\ l.clusterSizeShift \in 0 .. MaxShift + 2 /\ l.fatType \in {0, 12, 16, 32}
       /\ l.mounted \in BOOLEAN /\ l.dev \in Device \cup {NoDevice} /\ l.boot \in What
  /\ answer.part \in 0 .. 4 /\ crossed \in BOOLEAN

Init ==
  /\ \E image \in [Device -> Image] :
       cards = [d \in Device |-> [b \in Block |-> [what |-> image[d][b], for |-> d]]]
  /\ sdCard = NoDevice /\ cacheBlockNumber = NoBlock /\ cacheBuffer = Blank
  /\ cacheDirty = 0 /\ cacheMirrorBlock = 0
  /\ volume = [v \in Volume |-> Uninitialized]
  /\ answer = NotMounted /\ crossed = FALSE

(***************************************************************************)
(* The cache, over the card it points to                                   *)
(***************************************************************************)
CardOf(d) == IF d = NoDevice THEN [b \in {} |-> Blank] ELSE cards[d]

\* Of BlockCache only the operators on snapshots are used; they know of Block and NoBlock
Cache == INSTANCE BlockCache WITH
  Fat <- {}, DataBlock <- {}, BlocksPerFat <- 1, FatCount <- 1, Val <- Held, Zero <- Blank,
  NoRead <- Blank, card <- CardOf(sdCard), ok <- TRUE, got <- Blank, lost <- FALSE

\* the cache, the card d below it and the fields of a volume
At(d, l) == [card |-> CardOf(d), num |-> cacheBlockNumber, buf |-> cacheBuffer,
             dirty |-> cacheDirty, mirror |-> cacheMirrorBlock, l |-> l]

\* Ways a call can leave these: cacheRawBlock(b) and then what `rest' does of it
Outcome(s, ret) == [s |-> s, ret |-> ret]
Raw(s, b, rest(_)) ==
  {Outcome(t, FALSE) : t \in Cache!LoadFails(s, b)}
    \cup (IF Cache!LoadCan(s, b) /\ (s.num = b \/ b \in Block)
          THEN rest(Cache!LoadDone(s, b)) ELSE {})

Becomes(d, s) ==
  /\ cards' = IF d = NoDevice THEN cards ELSE [cards EXCEPT ![d] = s.card]
  /\ sdCard' = d /\ cacheBlockNumber' = s.num /\ cacheBuffer' = s.buf
  /\ cacheDirty' = s.dirty /\ cacheMirrorBlock' = s.mirror

(***************************************************************************)
(* The layout of a volume, from its boot sector                            *)
(***************************************************************************)
Or(a, b) == IF a # 0 THEN a ELSE b     \* a ? a : b

ValidPartition(p) == p.legal /\ p.totalSectors >= MinSectors /\ p.firstSector # 0
ValidBoot(b) ==
  b.bytesPerSector = BlockSize /\ 0 \notin {b.fatCount, b.reservedSectorCount, b.sectorsPerCluster}

EntryOf(what, part) == Mbr[what][part]

Shifts(b) == {k \in 0 .. MaxShift + 1 : b.sectorsPerCluster = 2 ^ k}

\* faulty: a last block that is not full is left out
RootBlocksDown(b) == b.rootDirEntryCount \div EntriesPerBlock
RootBlocks(b) == (b.rootDirEntryCount + EntriesPerBlock - 1) \div EntriesPerBlock

FatBlocks(b) == Or(b.sectorsPerFat16, b.sectorsPerFat32)
Total(b) == Or(b.totalSectors16, b.totalSectors32)

FatType(count) == IF count < MinFat16 THEN 12 ELSE IF count < MinFat32 THEN 16 ELSE 32

\* faulty: as a wider number
ClustersWide(b, overhead, shift) == (Total(b) + Width - overhead) \div (2 ^ shift)
\* clusterCount_
Clusters(b, overhead, shift) == ((Total(b) + Width - overhead) % Width) \div (2 ^ shift)

\* The fields of l after the boot sector `what' of a volume at block `start'
Laid(l, d, start, what) ==
  LET b == Fbs[what]
      shift == CHOOSE k \in Shifts(b) : TRUE
      fatStart == (start + b.reservedSectorCount) % Width
      rootStart == (fatStart + b.fatCount * FatBlocks(b)) % Width
      dataStart == (rootStart + RootBlocks(b)) % Width
      count == Clusters(b, (dataStart + Width - start) % Width, shift)
  IN [fatCount |-> b.fatCount, blocksPerCluster |-> b.sectorsPerCluster, clusterSizeShift |-> shift,
      blocksPerFat |-> FatBlocks(b), fatStartBlock |-> fatStart,
      rootDirEntryCount |-> b.rootDirEntryCount,
      rootDirStart |-> IF FatType(count) = 32 THEN b.fat32RootCluster ELSE rootStart,
      dataStartBlock |-> dataStart, clusterCount |-> count, fatType |-> FatType(count),
      mounted |-> TRUE, dev |-> d, start |-> start, boot |-> what]

\* From the boot sector in the buffer.  A cluster size that is no power of 2 is found
\* out when some of the fields are set.
Booted(s, d) ==
  LET b == Fbs[s.buf.what] IN
  IF ~ValidBoot(b) THEN {Outcome(s, FALSE)}
  ELSE IF Shifts(b) = {}
  THEN {Outcome([s EXCEPT !.l = [@ EXCEPT !.fatCount = b.fatCount,
                     !.blocksPerCluster = b.sectorsPerCluster,
                     !.clusterSizeShift = MaxShift + 2, !.mounted = FALSE]], FALSE)}
  ELSE {Outcome([s EXCEPT !.l = Laid(s.l, d, s.num, s.buf.what)], TRUE)}

\* init(dev, part)
Mounted(s, d, part) ==
  LET viaTable(t) ==
        LET p == EntryOf(t.buf.what, part) IN
        IF ValidPartition(p) THEN Raw(t, p.firstSector, LAMBDA u : Booted(u, d))
        ELSE {Outcome(t, FALSE)}
  IN IF part > 4 THEN {Outcome(s, FALSE)}
     ELSE IF part = 0 THEN Raw(s, 0, LAMBDA t : Booted(t, d))
     ELSE Raw(s, 0, viaTable)

\* init(dev): partition one, else a super floppy
MountedAny(s, d) ==
  LET first == Mounted(s, d, 1) IN
  {o \in first : o.ret} \cup UNION {Mounted(o.s, d, 0) : o \in {o \in first : ~o.ret}}

(***************************************************************************)
(* Calls                                                                   *)
(***************************************************************************)
\* What comes of a call for card d and volume v
Results(d, v, outcomes, then) ==
  \E o \in outcomes :
    /\ Becomes(d, o.s)
    /\ volume' = [volume EXCEPT ![v] = o.s.l]
    /\ answer' = IF o.ret THEN then ELSE NotMounted

Unmounted(v) == [volume[v] EXCEPT !.mounted = FALSE]

\* init() takes card d and lets the cache be.  What it has of another card goes over to
\* this one if it is dirty, if it is block 0, where init() looks, or if it is still
\* there at the end.
TakesOver(d) ==
  /\ d # sdCard /\ cacheBlockNumber # NoBlock
  /\ cacheDirty = 1 \/ cacheBlockNumber \in {0, cacheBlockNumber'}

InitPart(v, d, part) ==
  /\ Results(d, v, Mounted(At(d, Unmounted(v)), d, part), Answered("init", v, part))
  /\ crossed' = (crossed \/ TakesOver(d))

InitAny(v, d) ==
  /\ Results(d, v, MountedAny(At(d, Unmounted(v)), d), Answered("initAny", v, 0))
  /\ crossed' = (crossed \/ TakesOver(d))

\* what a cache is after cacheClear()
Cleared(s) == [s EXCEPT !.num = NoBlock]

\* cacheClear(), which drops what the flush returns
CacheClear ==
  /\ \E s \in Cache!FlushLeaves(At(sdCard, Uninitialized)) : Becomes(sdCard, Cleared(s))
  /\ answer' = NotMounted /\ UNCHANGED <<volume, crossed>>

\* SdFile::sync() and close() flush the cache.
Sync ==
  /\ sdCard # NoDevice
  /\ \E s \in Cache!FlushLeaves(At(sdCard, Uninitialized)) : Becomes(sdCard, s)
  /\ answer' = NotMounted /\ UNCHANGED <<volume, crossed>>

\* What the files of a volume do: a block of its FATs, its directories or its data is
\* changed in the cache, a FAT block with its mirror
InFat(l, b) == b \in l.fatStartBlock .. l.fatStartBlock + l.blocksPerFat - 1
Changed(s, b) ==
  LET t == Cache!Edited(s, [what |-> Data, for |-> s.l.dev]) IN
  Outcome(IF s.l.fatCount > 1 /\ InFat(s.l, b) THEN [t EXCEPT !.mirror = b + s.l.blocksPerFat]
          ELSE t, TRUE)

\* bound: blocks of Used, and second FATs that the card has
Usable(l, b) ==
  \/ InFat(l, b) /\ b + l.blocksPerFat \in Block
  \/ /\ b >= l.fatStartBlock + l.fatCount * l.blocksPerFat
     /\ b < l.dataStartBlock + l.clusterCount * l.blocksPerCluster

\* openRoot() refuses FAT12.  Assumed of the program: it uses a volume only if its last
\* init() returned true.  The transfers go to the card that was taken last, whichever
\* the volume was found on.
Use(v, b) ==
  LET l == volume[v] IN
  /\ l.mounted /\ l.fatType \in {16, 32} /\ Usable(l, b)
  /\ Results(sdCard, v, Raw(At(sdCard, l), b, LAMBDA s : {Changed(s, b)}), NotMounted)
  /\ crossed' = (crossed \/ l.dev # sdCard)

Next ==
  \/ \E v \in Volume, d \in Device : InitAny(v, d) \/ \E part \in 0 .. 5 : InitPart(v, d, part)
  \/ \E v \in Volume, b \in Used : Use(v, b)
  \/ CacheClear \/ Sync

Spec == Init /\ [][Next]_vars

(***************************************************************************)
(* Properties                                                              *)
(***************************************************************************)
\* As long as each card finds nothing of the others in the cache and each volume is used
\* on its own card, no block is written to another card than the one it was meant for:
\* not the block in the cache, and not the second copy of a FAT block, even when
\* cacheClear() or a flush could not write them before the card changed
\* (SdFat.h:458-462, SdVolume.cpp:99-114, 227-229).
NeverCrosses == ~crossed => \A d \in Device, b \in Block : cards[d][b].for = d

\* What the card taken last has in a block: for the one in the cache, the buffer.
Reads(b) == IF b = cacheBlockNumber THEN cacheBuffer ELSE cards[sdCard][b]
OnCard(l) == l.mounted /\ l.dev = sdCard /\ Reads(l.start) = [what |-> l.boot, for |-> sdCard]

\* Under the same condition, a volume that init() reports is one that lies on that card,
\* where the partition asked for begins: never one read from a block of another card, or
\* from another entry of the table, whatever failed before, and with no cacheClear()
\* between two cards (SdVolume.cpp:118-126, 227-244).
MountsTheCard ==
  answer # NotMounted /\ ~crossed =>
    LET l == volume[answer.vol]
        begins(part) == l.start = IF part = 0 THEN 0 ELSE Mbr[Reads(0).what][part].firstSector
    IN /\ OnCard(l)
       /\ answer.op = "init" => begins(answer.part)
       /\ answer.op = "initAny" => begins(1) \/ begins(0)

\* init(): "\param[in] dev The Sd2Card where the volume is located. \return The value one,
\* true, is returned for success" (SdFat.h:467-469), whichever card was there before.
MountsItsCard == answer # NotMounted => OnCard(volume[answer.vol])

\* what the boot sector describes has room for more than its tables
Fits(b, start) ==
  LET overhead == b.reservedSectorCount + b.fatCount * FatBlocks(b) + b.rootDirEntryCount
  IN overhead < Total(b) /\ start + Total(b) < Width

\* The parts of a mounted volume follow each other, the root directory has room for
\* its entries, and the clusters fill the volume and end inside it, with a block left
\* over or not, if the volume has room for more than its tables (SdVolume.cpp:253-294).
LayoutSound ==
  \A v \in Volume :
    LET l == volume[v]
        b == Fbs[l.boot]
        fatEnd == l.fatStartBlock + l.fatCount * l.blocksPerFat
        dataEnd == l.dataStartBlock + l.clusterCount * l.blocksPerCluster
    IN l.mounted /\ Fits(b, l.start) =>
         /\ l.start < l.fatStartBlock /\ fatEnd <= l.dataStartBlock
         /\ l.fatType # 32 => l.rootDirStart = fatEnd
         /\ (l.dataStartBlock - fatEnd) * EntriesPerBlock >= l.rootDirEntryCount
         /\ dataEnd <= l.start + Total(b)
         /\ dataEnd + l.blocksPerCluster > l.start + Total(b)
=============================================================================

------------------------------ MODULE MCSdMount ------------------------------
(***************************************************************************)
(* SdMount with two cards, two SdVolume objects and numbers of 6 bits.  A  *)
(* card is a super floppy, has a table with a FAT32 volume in its first    *)
(* partition, or has one whose first partition holds a boot sector with 3  *)
(* blocks to a cluster, so that no partition of it can be mounted by       *)
(* init(dev).                                                              *)
(***************************************************************************)
EXTENDS SdMount, TLC

MCBlocks == 0 .. 13
MCData == <<"data">>
Table == <<"table">>
\* blocks to a cluster, root directory entries, blocks of the volume
Floppy(spc, root, total) == <<"floppy", spc, root, total>>
Fat32 == <<"fat32", 2>>
Odd == <<"fat32", 3>>
\* FAT12 with blocks left over, and FAT16
Floppies == {Floppy(4, 3, 11), Floppy(1, 3, 8)}
Tiny == Floppy(1, 3, 4)      \* its tables are larger than the volume
MCWhat == Floppies \cup {MCData, Table, Fat32, Odd, Tiny}

Nowhere == [legal |-> FALSE, firstSector |-> 0, totalSectors |-> 0]
Extent(first, total) == [legal |-> TRUE, firstSector |-> first, totalSectors |-> total]
\* The third entry begins nowhere and the fourth is too small.
MCMbr == [w \in MCWhat |-> [k \in 1 .. 4 |->
  IF w # Table THEN Nowhere
  ELSE CASE k = 1 -> Extent(1, 12) [] k = 2 -> Extent(13, 12)
         [] k = 3 -> Extent(0, 12) [] k = 4 -> Extent(1, 2)]]

Boot(spc, root, spf16, spf32, total16, total32) ==
  [bytesPerSector |-> 32, sectorsPerCluster |-> spc, reservedSectorCount |-> 1, fatCount |-> 2,
   rootDirEntryCount |-> root, totalSectors16 |-> total16, totalSectors32 |-> total32,
   sectorsPerFat16 |-> spf16, sectorsPerFat32 |-> spf32, fat32RootCluster |-> 2]
MCFbs == [w \in MCWhat |->
  CASE w[1] = "floppy" -> Boot(w[2], w[3], 1, 0, w[4], 0)
    [] w[1] = "fat32"  -> Boot(w[2], 0, 0, 1, 0, 12)
    [] OTHER -> [Boot(1, 0, 0, 0, 0, 0) EXCEPT !.bytesPerSector = 0]]

Unformatted == [b \in MCBlocks |-> MCData]
MCImages == {[Unformatted EXCEPT ![0] = f] : f \in Floppies}
  \cup {[Unformatted EXCEPT ![0] = Table, ![1] = Fat32, ![13] = Tiny],
        [Unformatted EXCEPT ![0] = Table, ![1] = Odd, ![13] = Floppy(1, 3, 8)]}

MCSymmetry == Permutations(Device) \cup Permutations(Volume)
=============================================================================

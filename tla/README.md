# A verification project for teensy-x86-sd-stubs

The repository lets sketches written for the SD library of a Teensy run on a
PC. `SD.open()` and its relatives work on a folder of the host, or on a buffer
in memory, instead of a card. Beside that *live* layer it carries the SdFat
library the real SD library is built on (`src/src/utility`), compiled but with
a card driver whose SPI functions are stubs; no sketch reaches it through
`SDClass`. This directory holds TLA+ models of both, the TLC runs that check
them on small instances and the theorems about them that TLAPS proves.

Paths below are as in the repository's root with `src/` put before them, so the
library's own `src` directory is `src/src`.

## 1. Inventory

### The live layer

| part | state | operations |
|---|---|---|
| `SDClass` (SD.h, SD.cpp) | `_sdCardFolderLocation`, `_useMockData`, `_fileData`, `_fileSize`; and the host's tree | `begin`, `open`, `exists`, `mkdir`, `rmdir`, `remove`, `setSDCardFolderPath`, `setSDCardFileData` |
| `File` (SD.h, File.cpp) | a `shared_ptr` to an `AbstractFile` | copied and assigned freely; every call is forwarded; `close` closes the shared object and lets go of it |
| `LinuxFile` | an `std::fstream`, `_size`, the path, a directory stream | `write`, `read`, `peek`, `available`, `flush`, `seek`, `position`, `size`, `truncate`, `close`, `openNextFile` |
| `InMemoryFile` | pointer and size of a buffer, `_position`, `_isOpen` | the same interface, read-only |

`SDClass::open` makes an `InMemoryFile` when data was set, and a `LinuxFile` on
folder + `/` + name otherwise. There is one thread; what is hard is

 - *iteration*: `openNextFile` walks a directory of the host while names come and
   go, and puts each entry's path together from the folder of the moment;
 - *sharing*: copies of a `File` share one stream and one `_size`, and several
   streams can be open on one host file, each with unwritten bytes of its own;
 - *staleness*: `_size` is a snapshot taken when the file is opened (while a
   `File` that is being assigned still holds its old, undrained stream), and
   `truncate` and `remove` go to the host by name, behind the stream;
 - *paths*: every operation of `SDClass` composes its own path from the folder;
 - *numbers*: sizes and positions are `uint32_t`, `int32_t` and `streampos` in turn;
 - *the end of the program*: bytes still in a stream.

Correct means: size and availability agree with the bytes a reader would get;
nothing written through the only `File` of a file is lost, moved or changed;
shared objects live as long as somebody uses them; appending streams keep each
other's bytes; calls agree about which names there are; an iteration
returns what is in the directory, each entry under its own path; a read of a
buffer in memory stays inside it and reaches its end.

### The SdFat layer

| part | state | operations |
|---|---|---|
| block cache of `SdVolume` | static: one buffer, its block, a dirty flag, the block of its second copy | `cacheFlush`, `cacheRawBlock`, `cacheZeroBlock`, `cacheClear`, and the raw writes and reads of `SdFile` around it |
| cluster allocation of `SdVolume` | the FAT, `allocSearchStart_` | `allocContiguous`, `freeChain`, `chainSize`, `fatGet`, `fatPut` |
| mounting: `SdVolume::init` | the layout of the volume; static: the card | `init(dev)`, `init(dev, part)` |
| `SdFile`, files | `firstCluster_`, `curCluster_`, `curPosition_`, `fileSize_`, flags, the place of the entry | `open`, `close`, `read`, `write`, `seekSet`, `rewind`, `sync`, `truncate`, `remove`, `dirEntry`, `timestamp`, `contiguousRange`, `createContiguous` |
| `SdFile`, directories | the same; directory blocks | `open` by name and by index, `openRoot`, `makeDir`, `remove`, `rmDir`, `rmRfStar`, `readDir`, `ls` |
| walks (SD.cpp:66-412) | a few `SdFile` objects | `walkPath` with four callbacks, `getParentDir` |
| `Sd2Card` | `inBlock_`, `offset_`, `errorCode_` | block transfers over stubbed SPI |

What is hard here is *partial failure*: every transfer can fail in the middle
of an operation that changes the cache, the FAT, a directory entry and the
`SdFile` object, in this order or another; then *power loss* between two
writes, *stale* copies of a block (the cache against whole-block transfers that
go past it, or against another card), *exhaustion* of the clusters, and
directories that are changed while they are walked through.

Correct means: the cache with all the paths around it is an array of blocks;
the two FATs agree; chains of different files never share a cluster; what is
free can be allocated; a file's position and current cluster belong together;
bytes stay where they were put, and the card is whole whenever power is lost;
a directory has one entry of a name and searches see all of them; a removal
removes what it was asked to; a volume is the one on the card.

`PROJECT.json` lists every component with its status, and under `hazards` every
place where the above can go wrong, with the properties that would show it.

## 2. Modules

| module | models | state and actions |
|---|---|---|
| `Bytes` | helpers on byte sequences (overwrite at an offset, resize, the bytes from an offset) | |
| `FStream` | the `std::fstream` under a `LinuxFile`, an external library | operators from a stream and a file's bytes to what a call leaves and returns: open modes, get and put areas, error bits, draining |
| `LinuxFile` | LinuxFile.cpp, File.cpp and the file side of `SDClass::open` and `remove` | `inode`, `disk` are the host; `impl` the `LinuxFile` objects with their stream and `_size`; `handle` the `shared_ptr` of each `File`. One action per call, plus the program being killed |
| `ByteFile` | abstract: what a file promises its only user | bytes, a cursor, which bytes the host surely has; whether the file is open, was closed, or was open when the program was killed |
| `MCLinuxFile` | instances of `LinuxFile` | |
| `LinuxFile_proofs` | theorems about `LinuxFile`, and about the operators of `Bytes` and `FStream` they rest on, and the theorem that `LinuxFile` implements `ByteFile` | |
| `SdFolder` | SDClass: folder, in-memory switch, names on the host | `dirs`, `files` are the host's tree, the rest the members of `SDClass`; one action per call; `answer` is what the last call returned |
| `SdListing` | `openNextFile` and the directory stream of a `LinuxFile`, over `SdFolder` | `lister` is the `File` the program iterates over, and what `readdir` may still return of it; while it is open the calls of `SdFolder` go on |
| `MCSdFolder` | instances of `SdListing`, and so of `SdFolder` | |
| `SdListing_proofs` | theorems about `SdListing`, and so about the calls of `SdFolder`, and about the `InMemoryFile` that they can return | |
| `InMemoryFile` | InMemoryFile.cpp | the members, at an arbitrary width of `int32_t` |
| `BlockCache` | the cache of `SdVolume` and the paths of `SdFile` through and around it | the static members and the card; one action per call, which fails at any of its transfers |
| `BlockStore` | abstract: an array of blocks | |
| `BlockCache_proofs` | theorems, among them that `BlockCache` implements `BlockStore` | |
| `FatVolume` | cluster allocation of `SdVolume`, and the calls `SdFile` makes of it: a new cluster for `write` (`addCluster`), `createContiguous`, `truncate`, the `chainSize` that opening a directory does | the FAT, `allocSearchStart_`, `firstCluster_` and `curCluster_` of each file, and the variables of the call in progress; one action per way into a call, and one per iteration of its loops |
| `MCFatVolume` | instance of `FatVolume` | |
| `FatVolume_proofs` | theorems about `FatVolume` | |
| `SdMount` | `SdVolume::init`: partition table, boot sector, layout; `cacheClear`, `sync`, and volumes on different cards | the cards, the static members, the fields of each `SdVolume`; what the cache does is taken from `BlockCache` by `INSTANCE`; one action per call |
| `MCSdMount` | instance of `SdMount` | |
| `SdMount_proofs` | theorems about `SdMount` | |
| `SdFile` | files of the SdFat layer: every call above, its cache, FAT, directory entry and data together | `view` is the volume as the program sees it, `card` what is on the card, `cache` the block in the cache, `obj` the objects, `todo` what is left of the call in progress; one action per way into a call, one per task of it, one per way a task fails, and the loss of power |
| `MCSdFile` | instances of `SdFile` | |
| `SdFile_proofs` | theorems about `SdFile` that do not need chains | |
| `SdFileChains_proofs` | theorems about `SdFile` that do: bytes, positions, reads, the card | |
| `SdDirectory` | directories of the SdFat layer | `disk` the slots of each chain, `obj` the objects; one action per call, computed as the set of its results |
| `SdWalks` | the calls that go down a tree: `rmRfStar`, `ls`, and the walks over paths of SD.cpp, made of the operations of `SdDirectory` | no variables of its own; its specification has these calls and those of `SdDirectory` |
| `MCSdWalks` | instances of `SdWalks`, and so of `SdDirectory` | |
| `SdDirectory_proofs` | theorems about `SdDirectory` | |

The modules of the SdFat layer overlap on purpose. `BlockCache` shows that the
cache with all paths around it is an array of blocks; `FatVolume`, `SdFile`
and `SdDirectory` are written over that array, so an access in them happens or
fails. `FatVolume` has every access of an allocation and nothing of files but
their chains; `SdFile` has allocation as two tasks (a cluster is taken, the
chain is tied) and adds data, entries, the cache and the card; `SdDirectory`
has whole calls as steps, and what directories are made of.

A call is one step of the program unless a module says otherwise: the program
is single-threaded, so nothing sees it halfway but a failing transfer or the
loss of power, and those are in the step (or between the steps, where a loop is
modelled one iteration at a time).

Operators with a comment that begins "faulty:" are variants of a definition
with a plausible mistake in it. No specification uses them; substituting one
for the operator it stands before makes some property fail, which is how each
property is known to say something about the code. `PROJECT.json` lists the
pairs under `mutants`.

### Modelling decisions

 - `FStream` is what libstdc++ does: one buffer for reading and for writing;
   a seek or a change between them drains it; in append mode the position a
   stream reports counts from where it was, and moves to the end of the file
   when it drains; a read that comes up short sets the fail bit, after which
   calls do nothing and the position is -1. A large write that follows a write
   may drain (`spill`) or stay in the buffer. Releases differ in what a write and
   a flush do of a stream that has only its eofbit (a `peek` at the end leaves
   one): in `older` ones the write fails and the flush drains, in later ones the
   write takes nothing and still tests true, and the flush does nothing. Both
   are in the model, call by call. Left out: a large write directly
   after a read that is drained only in part.
 - A call on a null `File` dereferences a null pointer. The models leave such
   calls out: a program that makes them has crashed.
 - What a program calls is `File::available()`, which makes a truth value of the
   count: 0 or 1 (`Available`). The count itself (`Ahead`) is capped at 32767 as
   in the code; the files of the runs are shorter than the cap, and `_size` (an `int32_t`) has unbounded width in
   `LinuxFile`. The width is modelled in `InMemoryFile`, where it matters.
 - A path is a record of "starts with a slash" and components, none of which is
   `.` or `..`: this is a bound of the model (`Name`) and nothing that the code
   sees to. SD.cpp hands folder + `/` + `../x` to the host, which goes out of the
   folder, `remove` included. Symbolic links, permissions, and a process whose
   working directory is inside the card's folder (`OutsideAssumption`) are left
   out too.
 - In `BlockCache` a write that fails may have reached the card or not. The SPI
   functions of this repository are stubs and every transfer fails in the
   program as it is; the module models the contract the cache is written
   against, which includes that case.
 - `FatVolume` has the FAT as an array of entries, which is what the cache
   below provides (`BlockCache` implements `BlockStore`): an access happens, or
   fails and changes nothing. There is one end-of-chain value, entry 0 reads as
   one (it holds the media descriptor), and the packing of FAT12 is not
   distinguished. A new volume has clusters that are in use but no modelled
   file's. Loss of power between two accesses is in `SdFile`, where the order
   of FAT and directory entry matters.
 - `torn` in `FatVolume` is a history variable: a `truncate` failed after it
   had freed a cluster. From then on the file points into free clusters, which
   the next allocation hands to another file: the code accepts this, so the
   properties about chains hold only until then. The ones about free space, and
   that calls return, hold afterwards too.
 - `SdFile`: a byte of the volume is modelled by whose byte it is, `<<f, p>>`
   once file f put its byte p there; so "the bytes are right" is a state
   property, and bytes in a wrong file or place show. To flush is to make
   `card` equal to `view`, because they differ in the cached block only
   (`OnlyTheCacheDiffers`, which the run checks and section 4 proves). `setUnbufferedRead` is one of the open
   flags. Four history variables say what the code gives no promise about any
   more: `adrift` (files whose position and current cluster have parted: a call
   failed between moving the two, or a read went beyond the size; a `rewind` or
   a `seekSet` from the start ends that), `spoiled` (files written or cut while
   adrift, or with a dirty block given up), `cut` (files truncated in the cache
   but not yet on the card) and `broken` (clusters were freed that an entry or
   an object still refers to, or a block outside the data of the volume was
   adopted or written).
 - `SdDirectory`: objects have no position, since every call but `readDir`
   begins by seeking, and for `readDir` every position is tried. A chain is a
   model value; the number of clusters is limited. `lost` is set when one
   of several objects on a directory or an entry changes it behind the others,
   when a fault leaves a chain half freed or a new cluster unzeroed, or when an
   entry is written into a file's data: what follows is not described. An
   `openRoot` that fails on FAT32 leaves its object open (`Half`), with size,
   position, flags and volume of its last use; a second `openRoot`, `close` and
   `sync` of it are followed, and the calls that take it for a directory
   (`CallOfHalf`) are where `lost` begins. Dates, attributes other than the
   directory bit, and the case of names are left out.
 - `SdListing`: `readdir` returns what was there throughout exactly once, and
   what came or went meanwhile at most once. Names are one character long, so
   that the length of a folder's path, which the code strips from another
   path, is a number of components and slashes. The path of the directory that
   is listed is the folder of the moment it was opened and the name it was opened
   by (`home` and `name`), so what is stripped is counted on these two.
   `substr` beyond the end throws.
   A program that lists has set no data in memory (`Plain`).
 - `SdMount`: a block has two readings, as a partition table and as a boot
   sector, and every block written remembers which card it was meant for. The
   width of `uint32_t`, the cluster counts at which FAT types begin and the
   other numbers of the format are constants. Any `init` may follow any call, on
   either card, with or without a `cacheClear` between them. The history variable
   `crossed` is set when an `init` takes a card while the cache has a block of
   another that is dirty, or is block 0 where `init` looks, or is still there when
   it returns (`TakesOver`), and when a volume is used while `sdCard_` is another
   card than its own. Assumed of the program: it uses a volume only if the last
   `init` of it returned true.

## 3. Runs

Every run is a `.cfg` for TLC, `tlc -config X.cfg M`. All check for deadlock.
Each module has a type invariant `TypeOK`; in `LinuxFile` and `SdFile` it is a
conjunct of another invariant that the run checks.

| run | configuration | what it shows | bounds, and why they are enough |
|---|---|---|---|
| `folder` | `SdFolder.cfg` | answers of one call agree with what others see; a listing returns what is in the directory | three names, one of them the directory the process works in, a relative and an absolute folder, the empty path and paths of one and two components, the second with a slash in front: every way in which folder and argument can overlap needs two components and two names, and a listing that loses or repeats an entry two entries, which a directory gets when the folder is changed between the calls |
| `file_one` | `LinuxFile_one.cfg` | `available()` is 1 exactly when the next `read()` gets a byte, and `LinuxFile` implements `ByteFile` for one `File` on one name, in each of the nine sets of flags that a stream opens with and one with which it does not | one object, two host files (so that a name can be removed and made again under an open stream), up to 3 bytes, writes of 1 and 2 bytes: a position inside, at the end of and beyond the written bytes all occur |
| `file_shared` | `LinuxFile_shared.cfg` | ownership of shared objects; `size()` of a file nobody else touched is its end (and no less than that after the end was met); what appending `File`s write is neither lost nor overwritten | two `File`s, two objects, one host file of up to 2 bytes: two streams with an unwritten byte each is the case that matters |
| `memory` | `InMemoryFile.cfg` | reads stay in the buffer and reach its end | a width of 3 bits, sizes 0, 1, 3 (the largest an "int32_t" holds), 4 (the first it does not) and 7 (the largest "uint32_t") |
| `cache` | `BlockCache.cfg` | soundness of the cache, agreement of the FATs, implementation of `BlockStore` | two FAT blocks, their copies, two data blocks, two values: two blocks of each kind compete for the one cache |
| `volume` | `FatVolume.cfg` | free space is never hidden or overlooked; links and chains stay separate and whole although any access fails; a contiguous file and a counted chain have the clusters they should; every call returns, on tangled chains too | three clusters, two files, groups of up to three: a search that starts in the middle, wraps and meets the group it dropped needs a group of two; two files compete for a cluster; no symmetry, for the sake of liveness |
| `mount` | `SdMount.cfg` | until `crossed`, no block reaches another card than its own and what is mounted is what lies on the card; the layout is ordered and inside the volume | two cards, two `SdVolume`s, four images of cards in every combination (floppies with FAT12 and blocks left over and with FAT16; tables with a FAT32 volume and with a cluster size that is no power of two), four partitions of which two are not valid, numbers of 6 bits: a stale cache needs two cards, and the images reach every way in which `init` ends |
| `mount_second` | `SdMount_second.cfg` | **violation**: `init` of a second card reports a volume that is on the first | the same |
| `sdfile` | `SdFile.cfg` | bytes stay those that were put there, on the card too at every moment; position and current cluster belong together; entries are current or marked | two files that compete for two clusters of two bytes, transfers of three bytes (part of a block, then a block), one failure or loss of power anywhere |
| `sdfile_full` | `SdFile_full.cfg` | **violation**: a write after a full volume goes to a block outside the file | one cluster of two blocks, one file, no failure |
| `sddir` | `SdWalks.cfg` | names are unique and visible, the tree is a tree, objects are current, answers agree, removals remove only that | two names, three clusters of two slots, two chains beside the root's (a new subdirectory is full with "." and ".." and grows for its first entry), two objects of the program, three of the walks, one failure anywhere; a component of a path that is cut in two |
| `sddir_file` | `SdWalks_file.cfg` | **violation**: a walk goes through an empty file as if it were a directory | the same, no failure |

Fairness is assumed in `FatVolume` only, and only of `Step`, an iteration of a
call in progress: the one thread of the program goes on executing the call it
is in, and nothing can disable it. Nothing is assumed of which of an access's
outcomes comes about, and nothing of which calls a program makes: a sketch may
stop calling. The calls of the other modules are single steps, but for
`SdFile`, whose tasks come one after another and get fewer with each step, so
that fairness would add nothing there.

### Findings

The three violations are disagreements between the code and what the repository
says of it; `PROJECT.json` quotes the lines.

 1. `sdfile_full`: a write that finds the volume full after some of its blocks
    returns with `curPosition_` beyond `fileSize_`. A read then follows the
    chain past its end, a seek back keeps that cluster, and the next write
    goes to a block outside the file.
 2. `sddir_file`: `open` skips the scan, and with it the check of the type, for a
    "directory" of size 0. A walk that makes `a/b` where `a` is an empty file
    reports success and writes an entry into that file.
 3. `mount_second`: `init` takes over the card and not the cache. If block 0 of the
    first card is in it, `init` of the second finds the first one's volume and
    returns true. `cacheClear` would prevent that, which SdFat.h:455-456 calls "Not
    for normal apps".

Other disagreements that the models contain but no run is spent on.
In the live layer:

 - `mkdir` composes folder and path, and then asks `exists`, which composes them
   again (SD.cpp:474). With folder `a` and an existing `a/a/b`, `mkdir("b")`
   returns true and makes nothing, where SD.h:195-196 says "Create the requested
   directory heirarchy". `AnswersAgree` has this case as an alternative.
 - On a stream that has met the end of the file, a write with a later release of
   libstdc++ puts nothing into the file and does not fail (LinuxFile.cpp:117).
   After `seek(1)`, `peek()` and a write to an empty file, `write` returns 0 and
   `size()` is 1.
 - After an append `_size` is compared with a position that counts from where
   the stream was opened, so `size()` stays behind the file
   (LinuxFile.cpp:121), and `write` answers the difference of two positions:
   when an append drains, the position jumps to the end of the file, and the
   jump is in the answer. `ByteFile` promises neither in append mode.
 - `O_CREAT` and `O_EXCL` are ignored by the `LinuxFile` constructor (`O_WRITE`
   alone creates); `remove` deletes a directory with everything in it, where
   SD.h:200 says "Delete the file."; a path with `..` leads out of the folder,
   for `remove` and `rmdir` as for the others; `setSDCardFolderPath(path, true)` looks for
   `/` + path, because the folder is still empty, and makes path; `remove`,
   `rmdir` and `mkdir` go to the host, or skip it, in in-memory mode, because
   `exists` is always true then.
 - `File::available()` (File.cpp:61-63) returns 0 or 1 and not the count that
   `LinuxFile` and `InMemoryFile` compute.
 - A `File` that is assigned over one with unwritten bytes on the same file has
   the size from before these were drained.
 - An iteration that goes on after the card's folder was changed opens entries
   of another directory, or throws (LinuxFile.cpp:209-211).

In the SdFat layer:

 - A whole-block `SdFile::write` to the block in the cache forgets the block
   number and keeps the dirty flag (SdFile.cpp:1175-1182). Every later flush
   goes to block 0XFFFFFFFF and fails; so does one after a `cacheClear` whose
   flush failed, and no `init` succeeds from then on.
 - A transfer that fails at a cluster boundary leaves `curCluster_` ahead of
   `curPosition_`; the retry puts the bytes into the wrong cluster. A
   `seekSet` that fails halfway, followed by `truncate`, frees the wrong tail.
 - A write that finds the volume full before its first byte leaves
   `firstCluster_` set and size 0, and `remove` and `truncate(0)`, which go by
   the size, do not free that cluster.
 - `O_TRUNC` without `O_WRITE` makes `open` return false and leaves the object
   open. A `makeDir` that fails halfway leaves a file, or a directory without
   "." and "..". After a `rmDir` that failed the object is one of a file, and
   `remove` deletes the directory with what has been made in it since.
 - `openRoot` sets the type before `chainSize` can fail (SdFile.cpp:563-566). It
   returns false, `isOpen()` is true (SdFat.h:235 says: of an open file or
   directory), and the next `openRoot` of that object is refused.
 - Two objects on one directory each believe to know its end.
 - A component of a path longer than twelve characters is taken for two.
 - `init` of a second card writes a dirty block of the first to the second. An
   `init` that fails keeps the type of the volume before and half of its fields.

## 4. Proofs

`tlapm` on the modules named `..._proofs` checks the theorems for every value of
the constants, from the assumptions the modules name. Each section below says
which assumptions, what the inductive invariant is and why it is needed; TLC
checked every one of them on the runs' instances before it was proved (where
the invariant says that there are sequences of clusters, with the sequences
read off the FAT).

**InMemoryFile** (in `SdListing_proofs`, which extends it and `SdListing`, so that
the names of its specification begin with `Memory`; from `HalfAssumption` and
`BufferAssumption`: the range of `int32_t` is symmetric and sizes and counts are
`uint32_t`). `_size` is the length wrapped,
-1 for an empty object, or 0 after `truncate`; that, with "the last read was
within the length" and "a read that fell short stopped at the end", is the
inductive invariant. From it: `MemoryTypes`, `ReadsInBounds`, `ShortReads`,
`ReadsToTheEnd`.

**LinuxFile** (`NullAssumption`, `OffsetsAssumption`, `DataAssumption` and the
others of the module: data are nonempty sequences of bytes, offsets are numbers,
null is neither an object nor a file). The invariant has three parts. Every
stream is sound: its buffer is empty when it is idle and not empty when it reads
or writes, and bytes fetched ahead lie before the position of the host's file.
Every `File` refers to a live object, every live object is referred to, and an
open stream belongs to a live object and is on a file of the host. And for a
stream nothing else has touched (`Lone`): no other stream is on the file, what
was fetched ahead is what the file still has there, and, unless it appends,
`_size` is the length of the file with the buffer drained, or no less than that
once the stream has its eofbit. The last is not
inductive alone: a read that fetched stale bytes, or a second stream that
drains behind, would break it, which is what the first two rule out. The
lemmas are about `FStream`, one call of the stream at a time: what a read, a
write, a peek, a seek or a drain leaves of the file, the buffer and the bytes
that will be there once it is drained. From it: `Ownership`, `SizeIsTheEnd`,
`AvailableIsThere` and the action property `AppendNeverLoses`: what was asked for
by O_APPEND reaches the stream's flags and stays there, so each call extends
the host's file with bytes from the front of a stream's buffer, or keeps both.

`BufferingIsInvisible` proves `Spec => KeepsPromise`, that `LinuxFile`
implements `ByteFile`, under `OneUser`: one `File`, one path, and no `open` into
a `File` in use, which is what `ByteFile` describes and what `file_one` sets (for
two users it is false, and meant to be). Files of the host, objects, data, modes
and offsets are arbitrary, so names are removed and made again under an open
stream. To the invariant above it adds `Linked`: every live object was opened by
the one name, an open stream is on the file the name has, if it has one, and no
stream outlives the process. Each call has a lemma that maps it to the call
`ByteFile` has of it, or to a stutter; a call that fails to an abstract one that
fails, a drain to bytes that become stable, a kill to `Crash`.

**SdFolder** and **SdListing** (`CwdAssumption`, `StringAssumption`,
`OutsideAssumption`: the process does not work inside the card's folder; and
`Name`, as everywhere, has no `..`). The types (`FolderTypes`) are inductive
together with the shape of the host's tree, which the listing needs too.
`CallsAgree` follows
from what each call does to the paths it composes. For `ListingComplete` the
invariant says what a pass still owes: entries there since it began and not yet
returned are still in the directory and, as long as the folder was the same, in
what `readdir` has to return. That the path of each entry is its own needs the
lengths: taking off as many characters as the folder has, and a slash, leaves
exactly the name the directory was opened by.

**BlockCache** (the layout assumptions: first FAT, second FAT and data blocks
are disjoint and none is block 0; 0XFFFFFFFF is not a block). The inductive
invariant is `TypeOK`, `CacheSound`, `MirrorsAgree`, `MirrorIsPending` and one
strengthening: while no power was lost and nothing given up, a *dirty* block of
a mirrored FAT has its mirror pending. Without it `MirrorsAgree` is not
inductive: a flush would clean a FAT block and leave its copy behind. Each of
the helpers that compute a snapshot (flush, load, adopt, write through) has a
lemma that says what it preserves, for success and for every point of failure;
the step theorem has one step per action. `Refinement` proves
`Spec => Store!Spec` under the mapping "a block reads as the cache if it is the
cached block, else as the card": each call maps to a read, a write, a failed
call, a flush or a loss of power of the array.

**FatVolume** (`CountAssumption`, `EocAssumption`: there is a cluster, and the
end of chain is no cluster's number). Four layers of one inductive invariant:

 - `TypeInv`: the types, and what each place in a call knows of the call's
   variables. `TypeCorrect` follows; a consequence is that no access is outside
   the FAT.
 - `SpaceInv`: `NothingFreeBelowStart` and `FullMeansFull` are not inductive:
   nothing in them says what a search has seen. `SearchInv` says it: the search
   began at some s and has gone n clusters, on its first lap or its second; no
   group is among those passed on each lap, and the current group began behind a
   cluster in use. When n reaches the number of clusters only a group that lies
   across s was not seen as one, and s - 1 is in use, because s is
   the search start (or the group is a single cluster). `NothingHidden` and
   `FullIsFull` follow.
 - `LinkInv`: the group being taken is free and nothing points into it; all that
   is pointed to is in use, except by the file whose chain is being freed; what
   is left of that chain is that file's alone. `Separate` follows:
   `LinksSeparate` for any number of clusters and files, in the middle of calls
   and whichever accesses fail.
 - `PathInv`: until a `truncate` stops halfway there are sequences of clusters,
   one for each file, none of which has a cluster twice or one of another's; each
   starts at the first cluster, follows the entries and ends at an end of chain,
   except for what `freeChain` has freed; the group being linked will follow the
   last cluster of the caller; `chainSize` has counted the places it has passed.
   `ChainsSound` and `Counted` say `Chain`, a recursive function of the FAT, and no
   step of a proof about it would go through, since one entry changed may change
   all of it. The sequences change in a way each action says (one is shortened, or
   lengthened by a group). Only `ChainIs`, that `Chain` is the clusters of the
   sequence, is an induction, over the length; no sequence is longer than the
   volume, by the pigeonhole principle. The induction theorems of the library
   cannot be used here; `InductionOnSets` is one that can, from the finiteness of
   intervals. `WholeChains` and `CountsExactly` follow.

**SdMount** (`BlockAssumption`, `WordAssumption`, `WhatAssumption`: how the
numbers of the format are related; `DeviceAssumption`). The invariant says, of
types and of the layout, that every mounted volume has that of its boot sector;
and, while not `crossed`, that
each card holds blocks meant for it only and that the cached block, if the cache
has a block number, was meant for `sdCard` and is what the card has unless it is
dirty. `NeverCrosses` alone is not inductive,
since it says nothing of the cache that will be flushed next. The step that needs
an argument is `init` of another card: what is in the cache then was meant for the
one before, so that while not `crossed` it is clean, is not block 0, and is gone
when `init` returns. The operators are
those of `BlockCache`, and each has a lemma for success and for every point of
failure, once with and once without that condition. From it: `TypeCorrect`, `NeverCrossed`, `MountedTheCard`,
`LayoutIsSound`, the last for every boot sector and every width of the numbers.

**SdFile**, what does not need chains (`SdFile_proofs`; `CountAssumption`,
`EocAssumption`, `ModesAssumption`).
`CacheIsAllThatDiffers`: the view and
the card agree but for the cached block, and altogether while it is not dirty.
This is what allows the module to model a flush as "the card is the view now",
and it has to survive writes that go past the cache: a whole block is written
to both, so it makes no difference if there was none, and takes away the one
there was if it is the cached block, whose number the cache then forgets. The
lemmas are about where a byte lies: a piece of a transfer is in one block, a
piece of the size of a block is all of it, and different blocks of different
clusters are different blocks of the card. `EntryIsCurrent`: an open object that
is not marked agrees with its entry. It needs what the rest of a call may be:
a file is created in the directory before any object of it is open, and only
as the first task of a call.

**SdFile**, chains (`SdFileChains_proofs`; the same, `FaultsAssumption` and
`NoneAssumption`). `BytesKept`, `CurrentCluster` and `CardSound` follow the FAT
from a first cluster by a recursive function, of which nothing can be said step
by step, as in `FatVolume`. The invariant `ChainInv` says instead that there
are two sequences of clusters for each file, `P[f]` in the view and `Q[f]` on
the card:

 - `Ground` holds whatever file a call is in the middle of. No cluster is in two
   chains, or twice in one (`Apart`). Every other file is `Fine`: its sequence is
   linked from its object, or from its entry if it is closed; it has the bytes up
   to the size, and, since a write tells the object its size only at its end, up
   to the position too; its current cluster is the one of its position.
   And the card is `Backed`: the sequences of the card are linked in the card's
   FAT and have the bytes the card's entries speak of; a cluster they have is
   not free in the view, and if it is in a sequence of the view at all it is in
   that of the same file at the same place. This is what survives a flush of any
   one block, before which FAT, entry and data are on the card in any mixture. Of a
   file that was cut (`cut`) nothing is said until its entry is flushed: that is
   where the code frees clusters first and tells the directory afterwards.
 - `Phase` says what a call knows of its own file. Quiet tasks (sync, flush,
   open, close, remove's last step) find the file as fine as the others. A
   reading or a writing file has, between two pieces, the current cluster of
   the position *before* a boundary and within a piece that of the position
   itself; a cluster that was taken and is not yet tied to the chain is nobody's
   on the card either. A seek with k clusters to go is k clusters before its
   goal. A truncation goes through five states, in the middle of which the file
   has only a `Chain` without an end, and a `Loose` one that is being freed.
 - When a call fails, the file is again as fine as the others, or adrift (`Moved`), or
   clusters are free that something still refers to: then `broken` is set, no
   call goes on, and the invariant says nothing more of chains.
 - The types are part of it, and need it: a position is in the volume because
   the cluster before it is in the chain, and a sequence without repetitions
   is no longer than the volume, by the pigeonhole principle.

There is one lemma for each task (`ReadSound` ... `ShrinkSound`), for each way it
fails and for the loss of power, and `ChainNext` puts them together. Only
`ClusterAtIs`, that the recursive function finds the clusters of the sequence,
is an induction, by `InductionOnSets` as in `FatVolume`. From `ChainInvariance`
follow `ClusterIsCurrent`, `BytesAreKept`, `CardIsSound` and `ReadsGiveBack`,
which are the remaining invariants of the run `sdfile`, and besides
`TypeCorrect`; `PiecesInPlace`, what `sdfile_full` shows to fail after an error,
for as long as there was none; and `ClustersAreApart`. `adrift`, `spoiled`, `cut`
and `broken` are as in section 2, and each theorem says which of them it
excepts.

**SdDirectory** (`NodeAssumption`, `SlotsAssumption`, `NameAssumption`,
`ObjectAssumption`, `RootAssumption`: chains are different, a cluster has at
least two slots, what is no name is none, the local objects are not the
program's). `Good(disk, obj)` is the inductive invariant, while the volume is
followed (`~lost`). It says more than the three invariants it implies:

 - of names (`Whole`), it speaks of all chains and not only of those of
   directories, because the chain of a file can become one of a directory
   (`makeDir`), and a directory can be removed while another object is open;
 - of chains (`Apart`, `Linked`), that no entry is in the chain it refers to, that
   what an entry refers to is there, and that the first two slots of a directory,
   once written, name it and its parent;
 - of objects (`Current`), that each that is open has its entry, and agrees with
   it on the chain unless it is dirty, but for those that a failed `openRoot` left
   open, of which nothing is said; and that the chain of a dirty one is not
   yet referred to by any entry or object (`Alone`), which is why writing it into
   the entry cannot make two entries share it.

A call is a set of results here, so the proof goes by operations and not by
steps: for each write to the volume and each change of an object a lemma
(`MadeGood`, `ToldGood`, `FirstGood`, ...) says that it keeps `Good`, and for each
operation another (`SyncFine`, `TruncateFine`, `AddFine`, `OpenFine`, `RemoveFine`,
`MakeDirFine`, ...) that all its results do, from any state that is good or
lost. The second kind also says what a result that is good looks like, where the
next operation relies on it: `makeDir` on the object that `open` made, `open` on
where `addDirCluster` put the cluster. `AlwaysSound` puts the calls together, and
`SearchesAlwaysSeeAll`, `TreeAlwaysWellFormed` and `ObjectsAlwaysCurrent` follow.
They are about the specification of `SdDirectory`. That of `SdWalks` has the
recursive calls besides, which are made of the same operations, but an induction
along them cannot be stated; for those TLC checks the same invariants.

Only model-checked: `TypeOK` of `SdDirectory`, whose bound on sizes is a sum over
all chains, and which holds of a volume that is not followed any more, too;
`AnswersAgree` and `RemovesOnlyThat` of `SdWalks`, and the invariants above for its
calls; `WritesInPlace`, which does not hold and is the subject of `sdfile_full`;
and `CallsReturn`, which rests on fairness. Out of reach of the prover and left to
TLC are liveness, `ENABLED`, and what is said of `RECURSIVE` operators, which are
those of `SdWalks`; the other modules have none.

## 5. Not modelled

 - `Sd2Card`: its SPI functions are stubs that return 0, and `Sd2Card::init`
   returns false; no transfer of this program ever succeeds, and a model of the
   driver would have no behaviour. The modules above use its contract, that a
   transfer happens or returns false.
 - `name()`, printing, dates and times; declarations of pins, registers and
   constants. What `ls` visits is modelled, what it prints is not.
 - Symbolic links, permissions and paths with `.` and `..` on the host.
 - Calls on a null `File`, which dereference a null pointer.
 - The packing of FAT12 entries: `openRoot` refuses FAT12, so no file is ever
   opened on such a volume.

## 6. What is left

All components with behaviour are modelled, and every invariant and action
property that a run checks is proved, but for `TypeOK` of `SdDirectory` and what
`SdWalks` says of calls that are `RECURSIVE` operators.

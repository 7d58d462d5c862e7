-------------------------------- MODULE SdFile --------------------------------
(***************************************************************************)
(* Files of the SdFat layer (src/src/utility/SdFile.cpp): position, current *)
(* cluster, chain, directory entry and block cache through open, read,     *)
(* write, seekSet, truncate, remove, sync and close, any transfer of which *)
(* may fail, with loss of power.                                           *)
(*                                                                         *)
(* `view' is the volume as the program sees it (what BlockCache implements *)
(* of BlockStore) and `card' what is on the card: they can differ in the   *)
(* block in the cache only.  A byte of a data block is modelled by whose   *)
(* byte it is: <<f, p>> once f put its byte p there.                       *)
(*                                                                         *)
(* A call is carried out task by task, `todo', each task making at most    *)
(* one access that can fail; a task that fails ends the call.              *)
(***************************************************************************)
EXTENDS Integers, Sequences, FiniteSetsExt

CONSTANTS
  ClusterCount, EntriesPerBlock,   \* of the FAT
  BlocksPerCluster, BlockSize,     \* of the data
  Eoc,                             \* what fatPutEOC writes and isEOC accepts
  File,                            \* the files; each has one SdFile object
  Modes,                           \* bound: the sets of open flags used
  Sizes,                           \* bound: how many bytes a call transfers
  Places,                          \* bound: positions sought, lengths truncated to
  DateTime,                        \* a date and time callback is set
  MaxFaults,                       \* bound: failed transfers and losses of power
  None                             \* no file

ASSUME CountAssumption ==
  /\ ClusterCount \in Nat \ {0} /\ EntriesPerBlock \in Nat \ {0}
  /\ BlocksPerCluster \in Nat \ {0} /\ BlockSize \in Nat \ {0}
  /\ Sizes \subseteq Nat \ {0} /\ Places \subseteq Nat
ASSUME EocAssumption == Eoc \in Nat /\ Eoc > ClusterCount + 1
ASSUME ModesAssumption ==
  Modes \subseteq SUBSET {"read", "write", "append", "sync", "trunc", "unbuffered"}
ASSUME FaultsAssumption == DateTime \in BOOLEAN /\ MaxFaults \in Nat
ASSUME NoneAssumption == None \notin File

Cluster == 2 .. ClusterCount + 1
Free    == 0
ClusterSize == BlocksPerCluster * BlockSize
Position == 0 .. ClusterCount * ClusterSize
Nothing == <<>>

FatBlock(c)     == <<"fat", c \div EntriesPerBlock>>
DataBlock(c, b) == <<"data", c * BlocksPerCluster + b>>
DirBlock        == <<"dir", 0>>
NoBlock         == <<"none", 0>>    \* 0XFFFFFFFF

Store == [fat   : [Cluster -> Cluster \cup {Free, Eoc}],
          entry : [File -> [used : BOOLEAN, first : Cluster \cup {0}, size : Position]],
          data  : [Cluster -> [0 .. ClusterSize - 1 -> {Nothing} \cup File \X Position]]]

VARIABLES
  view, card,
  cache,     \* cacheBlockNumber_ and cacheDirty_
  obj,       \* the SdFile objects
  todo,      \* what is left of the call in progress
  who,       \* its file, or None
  got,       \* what it read so far: <<position, byte>>
  adrift,    \* history: files whose place was lost, see Moved
  spoiled,   \* history: files with bytes written or cut off in the wrong place
  cut,       \* history: files truncated, and not yet so on the card
  broken,    \* history: a file may refer to clusters that were freed, or wrote Elsewhere
  faults     \* how many transfers failed and how often power was lost

volume == <<view, card, cache>>
call   == <<todo, who, got>>
vars   == <<volume, obj, call, adrift, spoiled, cut, broken, faults>>

Closed == [open |-> FALSE, mode |-> {}, first |-> 0, cur |-> 0, pos |-> 0, size |-> 0,
           dirDirty |-> FALSE]
Task(d, n) == [do |-> d, arg |-> n]

TypeOK ==
  /\ view \in Store /\ card \in Store
  /\ cache.dirty \in BOOLEAN
  /\ \A f \in File :
       /\ obj[f].open \in BOOLEAN /\ obj[f].dirDirty \in BOOLEAN
       /\ obj[f].first \in Cluster \cup {0} /\ obj[f].cur \in Cluster \cup {0, Eoc}
       /\ obj[f].pos \in Position /\ obj[f].size \in Position
  /\ who \in File \cup {None} /\ (who = None <=> todo = <<>>)
  /\ adrift \subseteq File /\ spoiled \subseteq File /\ cut \subseteq File /\ broken \in BOOLEAN
  /\ faults \in 0 .. MaxFaults

Init ==
  /\ view = [fat   |-> [c \in Cluster |-> Free],
             entry |-> [f \in File |-> [used |-> FALSE, first |-> 0, size |-> 0]],
             data  |-> [c \in Cluster |-> [i \in 0 .. ClusterSize - 1 |-> Nothing]]]
  /\ card = view
  /\ cache = [block |-> NoBlock, dirty |-> FALSE]
  /\ obj = [f \in File |-> Closed]
  /\ todo = <<>> /\ who = None /\ got = {}
  /\ adrift = {} /\ spoiled = {} /\ cut = {} /\ broken = FALSE /\ faults = 0

-----------------------------------------------------------------------------
(***************************************************************************)
(* The volume.  To flush is to make the card equal to the view: they       *)
(* differ in no block but the cache's (OnlyTheCacheDiffers).               *)
(***************************************************************************)
Hit(b) == cache.block = b
Stuck  == cache.dirty /\ cache.block = NoBlock    \* no flush can succeed

\* cacheFlush()
FlushDone  == ~Stuck /\ card' = view
FlushFails == cache.dirty /\ cache' = cache /\ (card' = card \/ FlushDone)

\* faulty: loads without flushing
LoadsUnflushed(b, dirty) ==
  \/ Hit(b) /\ cache' = [cache EXCEPT !.dirty = @ \/ dirty] /\ card' = card
  \/ ~Hit(b) /\ card' = card /\ cache' = [block |-> b, dirty |-> dirty]

\* cacheRawBlock(b): the block is in the cache, dirty if it is to be changed
Loads(b, dirty) ==
  \/ Hit(b) /\ cache' = [cache EXCEPT !.dirty = @ \/ dirty] /\ card' = card
  \/ ~Hit(b) /\ FlushDone /\ cache' = [block |-> b, dirty |-> dirty]

LoadFails(b) ==
  /\ ~Hit(b)
  /\ \/ FlushFails
     \/ FlushDone /\ cache' = [cache EXCEPT !.dirty = FALSE]    \* the read fails

\* fatGet(): entry 0 is the media descriptor, which isEOC accepts
InFat(c) == c = 0 \/ c \in Cluster
Entry(c) == IF c = 0 THEN Eoc ELSE view.fat[c]

\* fatPut(c, v)
Puts(c, v) == Loads(FatBlock(c), TRUE) /\ view' = [view EXCEPT !.fat[c] = v]

\* where position p lies
Index(p)          == p \div ClusterSize
BlockOfCluster(p) == (p \div BlockSize) % BlocksPerCluster
Offset(p)         == p % BlockSize
AtCluster(p)      == Offset(p) = 0 /\ BlockOfCluster(p) = 0

\* the k-th cluster of the chain that begins at c in FAT fat, or where it ends
ClusterAt(fat, c, k) ==
  LET at[n \in 0 .. k] ==
        IF n = 0 THEN c ELSE IF at[n - 1] \in Cluster THEN fat[at[n - 1]] ELSE at[n - 1]
  IN at[k]

-----------------------------------------------------------------------------
(***************************************************************************)
(* Calls and tasks                                                         *)
(***************************************************************************)
O == obj[who]
Sets(o) == obj' = [obj EXCEPT ![who] = o]

Idle == todo = <<>>
Doing(d) == ~Idle /\ Head(todo).do = d
Arg  == Head(todo).arg
Rest == Tail(todo)

\* the tasks to come; when there are none the call returns
Then(tasks) ==
  /\ todo' = tasks /\ who' = IF tasks = <<>> THEN None ELSE who
  /\ faults' = faults
Returns == Then(<<>>) /\ got' = {}

\* files truncated: those whose clusters are freed in this step, and those
\* whose entry does not reach the card in it
Cuts(freed) ==
  cut' = freed \cup (IF Hit(DirBlock) /\ card' = view THEN {f \in cut : obj[f].dirDirty} ELSE cut)

\* A program is followed until a file refers to clusters that were freed, from when on it
\* and the files that are given them write over each other, or until it writes outside
\* the data of the volume.
Followed == Idle /\ ~broken
NoLongerFollowed == Idle /\ broken /\ UNCHANGED vars

Starts(f, tasks) ==
  /\ Followed /\ todo' = tasks /\ who' = IF tasks = <<>> THEN None ELSE f
  /\ UNCHANGED <<volume, obj, got, adrift, spoiled, cut, broken, faults>>

\* the call returns false at once
Refuses == Starts(None, <<>>)

Sync     == <<Task("sync", 0), Task("flush", 0)>>
Writable(f) == "write" \in obj[f].mode

\* faulty: does not look for the last cluster first
TruncatedHere(o, n) ==
  IF o.size = 0 THEN <<>>
  ELSE <<IF n = 0 THEN Task("free", o.first) ELSE Task("tail", 0), Task("shrink", n)>>
       \o Sync \o <<Task("seek", Min({n, o.pos}))>>
\* truncate(n) of the object o
Truncated(o, n) ==
  IF o.size = 0 THEN <<>>
  ELSE <<Task("seek", n),
         IF n = 0 THEN Task("free", o.first) ELSE Task("tail", 0),
         Task("shrink", n)>>
       \o Sync \o <<Task("seek", Min({n, o.pos}))>>

Open(f, mode) ==
  /\ ~obj[f].open
  /\ \/ view.entry[f].used /\ Starts(f, <<Task("find", mode)>>)
     \/ /\ ~view.entry[f].used /\ "write" \in mode
        /\ Starts(f, <<Task("create", 0), Task("flush", 0), Task("find", mode)>>)

Close(f) == obj[f].open /\ Starts(f, Sync \o <<Task("shut", 0)>>)
SyncFile(f) == obj[f].open /\ Starts(f, Sync)
DirEntry(f) == obj[f].open /\ Starts(f, Sync \o <<Task("look", 0)>>)
Timestamp(f) == obj[f].open /\ Starts(f, <<Task("stamp", 0)>> \o Sync)

\* faulty: the current cluster stays
RewindOnly(f) ==
  /\ obj[f].open /\ Followed
  /\ obj' = [obj EXCEPT ![f].pos = 0]
  /\ adrift' = adrift \ {f}
  /\ UNCHANGED <<volume, call, spoiled, cut, broken, faults>>

Rewind(f) ==
  /\ obj[f].open /\ Followed
  /\ obj' = [obj EXCEPT ![f].pos = 0, ![f].cur = 0]
  /\ adrift' = adrift \ {f}
  /\ UNCHANGED <<volume, call, spoiled, cut, broken, faults>>

\* bound: an object that lost its place may go past the last position
Within(f, n) == f \in adrift => Max({obj[f].pos, obj[f].size}) + n \in Position

SeekSet(f, p) == obj[f].open /\ Starts(f, <<Task("seek", p)>>)

Read(f, n) ==
  LET o == obj[f]
      left == IF o.pos <= o.size THEN Min({n, o.size - o.pos}) ELSE n   \* uint32_t wraps
  IN /\ o.open /\ Within(f, left)
     /\ IF "read" \in o.mode THEN Starts(f, <<Task("read", left)>>) ELSE Refuses

Write(f, n) ==
  LET o == obj[f]
      atEnd == IF "append" \in o.mode /\ o.pos # o.size THEN <<Task("seek", o.size)>> ELSE <<>>
  IN /\ o.open /\ Within(f, n)
     /\ IF Writable(f) THEN Starts(f, atEnd \o <<Task("put", n)>>) ELSE Refuses

Truncate(f, n) ==
  /\ obj[f].open
  /\ IF Writable(f) /\ n <= obj[f].size
     THEN Starts(f, Truncated(obj[f], n)) ELSE Refuses

Remove(f) ==
  /\ obj[f].open
  /\ IF Writable(f)
     THEN Starts(f, Truncated(obj[f], 0) \o <<Task("erase", 0), Task("flush", 0)>>)
     ELSE Refuses

ContiguousRange(f) ==
  /\ obj[f].open
  /\ IF obj[f].first # 0 THEN Starts(f, <<Task("range", obj[f].first)>>) ELSE Refuses

-----------------------------------------------------------------------------
(* Directory entry and flush *)

DoFlush ==
  /\ Doing("flush")
  /\ IF cache.dirty THEN FlushDone ELSE card' = card
  /\ cache' = [cache EXCEPT !.dirty = FALSE]
  /\ Cuts({}) /\ Then(Rest)
  /\ UNCHANGED <<view, obj, got, adrift, spoiled, broken>>

DoSync ==
  /\ Doing("sync")
  /\ \/ ~O.dirDirty /\ UNCHANGED <<volume, obj, cut>>
     \/ /\ O.dirDirty /\ Loads(DirBlock, TRUE)
        /\ view' = [view EXCEPT !.entry[who].first = O.first, !.entry[who].size = O.size]
        /\ Sets([O EXCEPT !.dirDirty = FALSE]) /\ Cuts({})
  /\ Then(Rest)
  /\ UNCHANGED <<got, adrift, spoiled, broken>>

\* openCachedEntry()
DoFind ==
  LET e == view.entry[who]
      o == [open |-> TRUE, mode |-> Arg \ {"trunc"}, first |-> e.first, cur |-> 0, pos |-> 0,
            size |-> e.size, dirDirty |-> FALSE]
  IN
  /\ Doing("find") /\ Loads(DirBlock, FALSE) /\ Cuts({}) /\ Sets(o)
  /\ adrift' = adrift \ {who}
  /\ Then(IF {"trunc", "write"} \subseteq Arg THEN Truncated(o, 0) ELSE <<>>)
  /\ UNCHANGED <<view, got, spoiled, broken>>

DoCreate ==
  /\ Doing("create") /\ Loads(DirBlock, TRUE) /\ Cuts({})
  /\ view' = [view EXCEPT !.entry[who] = [used |-> TRUE, first |-> 0, size |-> 0]]
  /\ spoiled' = spoiled \ {who} /\ Then(Rest)
  /\ UNCHANGED <<obj, got, adrift, broken>>

\* remove() marks the entry deleted and closes the object
DoErase ==
  /\ Doing("erase") /\ Loads(DirBlock, TRUE) /\ Cuts({})
  /\ view' = [view EXCEPT !.entry[who].used = FALSE]
  /\ Sets(Closed) /\ Then(Rest)
  /\ UNCHANGED <<got, adrift, spoiled, broken>>

DoShut ==
  /\ Doing("shut") /\ Sets(Closed) /\ Then(Rest)
  /\ UNCHANGED <<volume, got, adrift, spoiled, cut, broken>>

\* dirEntry() reads the entry, timestamp() changes fields that are not modelled
DoLook ==
  /\ (Doing("look") /\ Loads(DirBlock, FALSE)) \/ (Doing("stamp") /\ Loads(DirBlock, TRUE))
  /\ Cuts({}) /\ Then(Rest)
  /\ UNCHANGED <<view, obj, got, adrift, spoiled, broken>>

-----------------------------------------------------------------------------
(* Seeking and reading *)

\* faulty: takes the position for the last byte transferred
CrossedOff(from, to) == (to \div ClusterSize) - (from \div ClusterSize)
\* clusters to follow to get from position from to position to
Crossed(from, to) == ((to - 1) \div ClusterSize) - ((from - 1) \div ClusterSize)

DoSeek ==
  LET restarts == O.pos = 0 \/ Crossed(O.pos, Arg) < 0
      hops == IF restarts THEN Crossed(1, Arg) ELSE Crossed(O.pos, Arg)
  IN
  /\ Doing("seek")
  /\ \/ Arg > O.size /\ Returns /\ UNCHANGED <<obj, adrift>>
     \/ /\ Arg = 0
        /\ Sets([O EXCEPT !.cur = 0, !.pos = 0]) /\ adrift' = adrift \ {who}
        /\ Then(Rest) /\ UNCHANGED got
     \/ /\ Arg > 0 /\ Arg <= O.size
        /\ IF restarts THEN Sets([O EXCEPT !.cur = O.first]) /\ adrift' = adrift \ {who}
           ELSE UNCHANGED <<obj, adrift>>
        /\ Then([i \in 1 .. hops |-> Task("hop", 0)] \o <<Task("arrive", Arg)>> \o Rest)
        /\ UNCHANGED got
  /\ UNCHANGED <<volume, spoiled, cut, broken>>

DoHop ==
  /\ Doing("hop") /\ InFat(O.cur) /\ Loads(FatBlock(O.cur), FALSE) /\ Cuts({})
  /\ Sets([O EXCEPT !.cur = Entry(O.cur)]) /\ Then(Rest)
  /\ UNCHANGED <<view, got, adrift, spoiled, broken>>

DoArrive ==
  /\ Doing("arrive") /\ Sets([O EXCEPT !.pos = Arg]) /\ Then(Rest)
  /\ UNCHANGED <<volume, got, adrift, spoiled, cut, broken>>

\* the loop of read(), Arg bytes to go: to the cluster of the position
DoRead ==
  /\ Doing("read")
  /\ \/ Arg = 0 /\ Returns /\ UNCHANGED <<volume, obj, cut>>
     \/ /\ Arg > 0 /\ ~AtCluster(O.pos) /\ Then(<<Task("copy", Arg)>>)
        /\ UNCHANGED <<volume, obj, cut, got>>
     \/ /\ Arg > 0 /\ O.pos = 0 /\ Sets([O EXCEPT !.cur = O.first]) /\ Then(<<Task("copy", Arg)>>)
        /\ UNCHANGED <<volume, cut, got>>
     \/ /\ Arg > 0 /\ O.pos # 0 /\ AtCluster(O.pos) /\ InFat(O.cur)
        /\ Loads(FatBlock(O.cur), FALSE) /\ Cuts({})
        /\ Sets([O EXCEPT !.cur = Entry(O.cur)]) /\ Then(<<Task("copy", Arg)>>)
        /\ UNCHANGED <<view, got>>
  /\ UNCHANGED <<adrift, spoiled, broken>>

\* what is transferred next of the block the position is in
Piece == Min({BlockSize - Offset(O.pos), Arg})
Here  == DataBlock(O.cur, BlockOfCluster(O.pos))
Bytes == O.pos .. O.pos + Piece - 1
InCluster(p) == p % ClusterSize
\* a whole block, or any part of one when unbuffered, is read past the cache
PastCache == (Piece = BlockSize \/ "unbuffered" \in O.mode) /\ ~Hit(Here)

DoCopy ==
  LET from == IF PastCache THEN card ELSE view
  IN
  /\ Doing("copy") /\ O.cur \in Cluster
  /\ IF PastCache THEN UNCHANGED <<cache, card>> ELSE Loads(Here, FALSE)
  /\ got' = got \cup {<<p, from.data[O.cur][InCluster(p)]>> : p \in Bytes}
  /\ Sets([O EXCEPT !.pos = @ + Piece]) /\ Cuts({}) /\ Then(<<Task("read", Arg - Piece)>>)
  /\ adrift' = IF O.pos + Piece > O.size THEN adrift \cup {who} ELSE adrift
  /\ UNCHANGED <<view, spoiled, broken>>

\* contiguousRange()
DoRange ==
  /\ Doing("range") /\ InFat(Arg) /\ Loads(FatBlock(Arg), FALSE) /\ Cuts({})
  /\ Then(IF Entry(Arg) = Arg + 1 THEN <<Task("range", Arg + 1)>> ELSE <<>>)
  /\ UNCHANGED <<view, obj, got, adrift, spoiled, broken>>

-----------------------------------------------------------------------------
(* Writing *)

\* faulty: one byte too many
GrownByOne(o) == [o EXCEPT !.size = Max({o.size, o.pos + 1}), !.dirDirty = TRUE]
Grown(o) == [o EXCEPT !.size = Max({o.size, o.pos}), !.dirDirty = @ \/ o.pos > o.size \/ DateTime]

\* the loop of write(), Arg bytes to go: to the cluster of the position, which
\* is taken if there is none yet
DoPut ==
  /\ Doing("put")
  /\ \/ /\ Arg = 0
        /\ Sets(Grown(O)) /\ Then(IF "sync" \in O.mode THEN Sync ELSE <<>>)
        /\ UNCHANGED <<volume, cut>>
     \/ /\ Arg > 0 /\ ~AtCluster(O.pos) /\ Then(<<Task("fill", Arg)>>)
        /\ UNCHANGED <<volume, obj, cut>>
     \/ /\ Arg > 0 /\ AtCluster(O.pos) /\ O.cur = 0
        /\ IF O.first = 0
           THEN Then(<<Task("take", 0), Task("fill", Arg)>>) /\ UNCHANGED obj
           ELSE Then(<<Task("fill", Arg)>>) /\ Sets([O EXCEPT !.cur = O.first])
        /\ UNCHANGED <<volume, cut>>
     \/ /\ Arg > 0 /\ AtCluster(O.pos) /\ O.cur \in Cluster
        /\ Loads(FatBlock(O.cur), FALSE) /\ Cuts({})
        /\ IF Entry(O.cur) = Eoc
           THEN Then(<<Task("take", 0), Task("fill", Arg)>>) /\ UNCHANGED obj
           ELSE Then(<<Task("fill", Arg)>>) /\ Sets([O EXCEPT !.cur = Entry(O.cur)])
        /\ UNCHANGED view
  /\ UNCHANGED <<got, adrift, spoiled, broken>>

\* faulty: does not note that the entry must be told
AddedUnnoted(o, c) == [o EXCEPT !.cur = c, !.first = IF @ = 0 THEN c ELSE @]

\* addCluster(): the object has cluster c
Added(o, c) == [o EXCEPT !.cur = c, !.first = IF @ = 0 THEN c ELSE @,
                         !.dirDirty = @ \/ o.first = 0]

\* allocContiguous(1, &curCluster_); FatVolume has the order of the search.  It
\* looks at FAT blocks, finds a free cluster and marks it the end of a chain, or
\* finds none
DoTake ==
  /\ Doing("take")
  /\ \/ \E c \in Cluster :
          ~Hit(FatBlock(c)) /\ Loads(FatBlock(c), FALSE) /\ UNCHANGED <<view, obj, call, faults>>
     \/ \E c \in Cluster :
          /\ view.fat[c] = Free /\ Puts(c, Eoc) /\ UNCHANGED got
          /\ IF O.cur = 0 THEN Sets(Added(O, c)) /\ Then(Rest)
             ELSE UNCHANGED obj /\ Then(<<Task("tie", c)>> \o Rest)
     \/ /\ \A c \in Cluster : view.fat[c] # Free
        /\ \E c \in Cluster : Loads(FatBlock(c), FALSE)
        /\ Returns /\ UNCHANGED <<view, obj>>
  /\ Cuts({}) /\ UNCHANGED <<adrift, spoiled, broken>>

\* the new cluster is linked to the current one
DoTie ==
  /\ Doing("tie") /\ Puts(O.cur, Arg) /\ Cuts({})
  /\ Sets(Added(O, Arg)) /\ Then(Rest)
  /\ UNCHANGED <<got, adrift, spoiled, broken>>

\* volume v with the next piece written; a block taken without being read holds
\* whatever was in the buffer otherwise
Whole == Piece = BlockSize
\* faulty: whatever the file has in the block
AdoptsAnyway == ~Whole /\ Offset(O.pos) = 0
Adopts == ~Whole /\ Offset(O.pos) = 0 /\ O.pos >= O.size
Written(v) ==
  [v EXCEPT !.data[O.cur] = [i \in DOMAIN @ |->
     IF i \in {InCluster(p) : p \in Bytes} THEN <<who, (O.pos \div ClusterSize) * ClusterSize + i>>
     ELSE IF Adopts /\ i \in InCluster(O.pos) .. InCluster(O.pos) + BlockSize - 1 THEN Nothing
     ELSE @[i]]]

\* a whole block goes past the cache, which forgets its copy but not that it was dirty
Forgets == cache' = [cache EXCEPT !.block = IF Hit(Here) THEN NoBlock ELSE @]

DoFill ==
  /\ Doing("fill") /\ O.cur \in Cluster
  /\ \/ Whole /\ Forgets /\ card' = Written(card)
     \/ Adopts /\ cache' = [block |-> Here, dirty |-> TRUE]
               /\ IF cache.dirty THEN FlushDone ELSE card' = card
     \/ ~Whole /\ ~Adopts /\ Loads(Here, TRUE)
  /\ view' = Written(view)
  /\ Sets([O EXCEPT !.pos = @ + Piece]) /\ Cuts({}) /\ Then(<<Task("put", Arg - Piece)>>)
  /\ spoiled' = IF who \in adrift THEN spoiled \cup {who} ELSE spoiled
  /\ UNCHANGED <<got, adrift, broken>>

-----------------------------------------------------------------------------
(* Truncating *)

\* fatGet(curCluster_, &toFree)
DoTail ==
  /\ Doing("tail") /\ InFat(O.cur) /\ Loads(FatBlock(O.cur), FALSE) /\ Cuts({})
  /\ Then((IF Entry(O.cur) = Eoc THEN <<>> ELSE <<Task("free", Entry(O.cur)), Task("end", 0)>>) \o Rest)
  /\ spoiled' = IF who \in adrift THEN spoiled \cup {who} ELSE spoiled
  /\ UNCHANGED <<view, obj, got, adrift, broken>>

\* freeChain(), one cluster
DoFree ==
  /\ Doing("free") /\ Arg \in Cluster /\ Puts(Arg, Free) /\ Cuts({who})
  /\ Then((IF Entry(Arg) = Eoc THEN <<>> ELSE <<Task("free", Entry(Arg))>>) \o Rest)
  /\ UNCHANGED <<obj, got, adrift, spoiled, broken>>

\* fatPutEOC(curCluster_)
DoEnd ==
  /\ Doing("end") /\ O.cur \in Cluster /\ Puts(O.cur, Eoc) /\ Cuts({}) /\ Then(Rest)
  /\ UNCHANGED <<obj, got, adrift, spoiled, broken>>

DoShrink ==
  /\ Doing("shrink")
  /\ Sets([O EXCEPT !.size = Arg, !.first = IF Arg = 0 THEN 0 ELSE @, !.dirDirty = TRUE])
  /\ spoiled' = IF Arg = 0 THEN spoiled \ {who} ELSE spoiled
  /\ Then(Rest)
  /\ cut' = cut \cup {who}
  /\ UNCHANGED <<volume, got, adrift, broken>>

-----------------------------------------------------------------------------
(* Failure *)

\* the blocks the task at hand needs in the cache
Needed ==
  CASE Doing("find") \/ Doing("create") \/ Doing("erase") \/ Doing("look") \/ Doing("stamp")
         -> {DirBlock}
    [] Doing("sync") -> IF O.dirDirty THEN {DirBlock} ELSE {}
    [] Doing("hop") \/ Doing("tail") \/ Doing("tie") \/ Doing("end") -> {FatBlock(O.cur)}
    [] Doing("free") \/ Doing("range") -> {FatBlock(Arg)}
    [] Doing("take") -> {FatBlock(c) : c \in Cluster}
    [] Doing("read") -> IF Arg > 0 /\ O.pos # 0 /\ AtCluster(O.pos) THEN {FatBlock(O.cur)} ELSE {}
    [] Doing("put")  -> IF Arg > 0 /\ AtCluster(O.pos) /\ O.cur # 0 THEN {FatBlock(O.cur)} ELSE {}
    [] Doing("copy") -> IF PastCache THEN {} ELSE {Here}
    [] Doing("fill") -> IF Whole \/ Adopts THEN {} ELSE {Here}
    [] OTHER -> {}

\* the call leaves the current cluster behind or ahead of the position
Moved == Doing("hop") \/ ((Doing("copy") \/ Doing("fill")) /\ AtCluster(O.pos))
\* the call leaves the file with clusters it has freed
Tears == (Doing("free") \/ Doing("end")) /\ who \in cut

CallFails ==
  /\ todo' = <<>> /\ who' = None /\ got' = {} /\ obj' = obj
  /\ adrift' = IF Moved THEN adrift \cup {who} ELSE adrift
  /\ broken' = (broken \/ Tears)

\* a transfer fails; with a cache that is stuck every flush does
Failing ==
  /\ \/ Stuck /\ faults' = faults
     \/ ~Stuck /\ faults < MaxFaults /\ faults' = faults + 1
  /\ CallFails

\* a transfer between cache and card fails
CacheFails ==
  /\ ~Idle
  /\ \/ \E b \in Needed : LoadFails(b)
     \/ Doing("flush") /\ FlushFails
     \/ Doing("fill") /\ O.cur \in Cluster /\ Adopts /\ FlushFails
  /\ Cuts({}) /\ Failing /\ UNCHANGED <<view, spoiled>>

\* a transfer past the cache fails; a write may have reached the card
PastCacheFails ==
  /\ \/ /\ Doing("copy") /\ PastCache /\ UNCHANGED <<volume, spoiled>>
     \/ /\ Doing("fill") /\ O.cur \in Cluster /\ Whole /\ Forgets
        /\ \/ card' = card /\ view' = IF Hit(Here) THEN card ELSE view
           \/ card' = Written(card) /\ view' = Written(view)
        /\ spoiled' = IF (Hit(Here) /\ cache.dirty) \/ who \in adrift
                      THEN spoiled \cup {who} ELSE spoiled
  /\ Cuts({}) /\ Failing

\* there is no such cluster
NotInFat ==
  /\ \/ (Doing("hop") \/ Doing("read") \/ Doing("put") \/ Doing("tail") \/ Doing("end")) /\ O.cur = Eoc
     \/ Doing("end") /\ O.cur = 0
     \/ Doing("free") /\ Arg \notin Cluster
  /\ CallFails /\ UNCHANGED <<volume, spoiled, cut, faults>>

\* clusterStartBlock() of what is no cluster is a block outside the data of the
\* volume: the card refuses it, or some other block is read or written.  One that is
\* taken without being read is accepted: the call goes on and the cache keeps it, dirty,
\* so that no flush after it need succeed, which is not followed.
Elsewhere ==
  /\ (Doing("copy") \/ Doing("fill")) /\ O.cur \notin Cluster
  /\ todo' = <<>> /\ who' = None /\ got' = {} /\ obj' = obj
  /\ adrift' = adrift \cup {who}
  /\ broken' \in IF Doing("fill") /\ Adopts THEN {TRUE} ELSE {broken, TRUE}
  /\ UNCHANGED <<volume, spoiled, cut, faults>>

\* byte p of the file that begins at cluster first of volume v; a cluster that
\* is free holds nobody's bytes
ByteAt(v, first, p) ==
  LET c == ClusterAt(v.fat, first, Index(p))
  IN IF c \in Cluster /\ v.fat[c] # Free THEN v.data[c][InCluster(p)] ELSE Nothing

WholeOnCard(f) ==
  card.entry[f].used =>
    \A p \in 0 .. card.entry[f].size - 1 : ByteAt(card, card.entry[f].first, p) = <<f, p>>

PowerLoss ==
  /\ view' = card /\ card' = card /\ cache' = [block |-> NoBlock, dirty |-> FALSE]
  /\ obj' = [f \in File |-> Closed]
  /\ todo' = <<>> /\ who' = None /\ got' = {}
  /\ faults < MaxFaults /\ faults' = faults + 1
  /\ adrift' = {} /\ cut' = {} /\ broken' = (broken \/ cut # {})
  /\ UNCHANGED spoiled

Calls(f) ==
  \/ \E m \in Modes : Open(f, m)
  \/ Close(f) \/ SyncFile(f) \/ DirEntry(f) \/ Timestamp(f) \/ Rewind(f) \/ ContiguousRange(f)
  \/ \E p \in Places : SeekSet(f, p) \/ Truncate(f, p)
  \/ \E n \in Sizes : Read(f, n) \/ Write(f, n)
  \/ Remove(f)

Works ==
  \/ DoFlush \/ DoSync \/ DoFind \/ DoCreate \/ DoErase \/ DoShut \/ DoLook
  \/ DoSeek \/ DoHop \/ DoArrive \/ DoRead \/ DoCopy \/ DoRange
  \/ DoPut \/ DoTake \/ DoTie \/ DoFill
  \/ DoTail \/ DoFree \/ DoEnd \/ DoShrink

Next ==
  \/ \E f \in File : Calls(f)
  \/ Works
  \/ CacheFails \/ PastCacheFails \/ NotInFat \/ Elsewhere
  \/ PowerLoss \/ NoLongerFollowed

Spec == Init /\ [][Next]_vars

-----------------------------------------------------------------------------
(***************************************************************************)
(* Properties                                                              *)
(***************************************************************************)
\* The view and the card differ in the block in the cache only, and only while
\* it is dirty.
InBlock(v, b) ==
  CASE b[1] = "fat"  -> [c \in {c \in Cluster : FatBlock(c) = b} |-> v.fat[c]]
    [] b[1] = "dir"  -> v.entry
    [] b[1] = "data" -> LET c == b[2] \div BlocksPerCluster
                            k == b[2] % BlocksPerCluster
                        IN [i \in k * BlockSize .. (k + 1) * BlockSize - 1 |-> v.data[c][i]]
Blocks == {FatBlock(c) : c \in Cluster} \cup {DirBlock}
          \cup {DataBlock(c, k) : c \in Cluster, k \in 0 .. BlocksPerCluster - 1}
OnlyTheCacheDiffers ==
  \A b \in Blocks : InBlock(view, b) # InBlock(card, b) => Hit(b) /\ cache.dirty

\* Every byte a file has is the byte that was put there: through the object as
\* the program sees the volume, whatever other files do and whichever calls fail
\* (SdFile.cpp:1129-1221, 1070-1111).  It ends with `broken': of what follows a
\* freeChain() that failed half way (1079, 1095) nothing is said.
BytesKept ==
  ~broken => \A f \in File \ spoiled : obj[f].open =>
    \/ who = f /\ ~Idle
    \/ \A p \in 0 .. obj[f].size - 1 : ByteAt(view, obj[f].first, p) = <<f, p>>

\* What is on the card is whole at any moment, so a loss of power never leaves an
\* entry whose size or clusters run ahead of the data and the FAT.  (A file that is
\* being truncated is not: `cut' until its entry is on the card.)
CardSound == ~broken => \A f \in File \ (spoiled \cup cut) : WholeOnCard(f)

\* curCluster_ is the cluster for the current file position (SdFat.h:410), unless a
\* call failed since the position was last found from the start of the file.
CurrentCluster ==
  TypeOK /\
  (~broken => \A f \in File \ adrift :
    obj[f].open /\ (Idle \/ who # f) =>
      obj[f].cur = IF obj[f].pos = 0 THEN 0
                   ELSE ClusterAt(view.fat, obj[f].first, Index(obj[f].pos - 1)))

\* The same of a transfer, whatever has happened: it goes to the cluster that the
\* position lies in.
WritesInPlace ==
  Doing("fill") => O.cur = ClusterAt(view.fat, O.first, Index(O.pos))

\* A read finds the bytes of the positions it asks for.
ReadsBack ==
  ~broken /\ who \notin adrift \cup spoiled \cup {None} =>
    \A r \in got : r[1] < obj[who].size => r[2] = <<who, r[1]>>

\* A directory entry says what the object says, unless the object is marked as
\* having something to tell it.
EntryCurrent ==
  \A f \in File : obj[f].open /\ ~obj[f].dirDirty /\ who # f =>
    view.entry[f].first = obj[f].first /\ view.entry[f].size = obj[f].size
=============================================================================

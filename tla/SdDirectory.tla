---------------------------- MODULE SdDirectory ----------------------------
(***************************************************************************)
(* Directories of the SdFat layer (src/src/utility/SdFile.cpp): open,      *)
(* makeDir, remove, rmDir and readDir over directories of slots, any       *)
(* access of which may fail.  The calls that recurse are in SdWalks.       *)
(*                                                                         *)
(* A call is a step.  It is written with operators from a state s, which   *)
(* has the volume, the SdFile objects and the number of failures so far,   *)
(* to the set of the results it can have: states, with what was returned.  *)
(***************************************************************************)
EXTENDS Integers, Sequences, FiniteSetsExt

CONSTANTS
  Name,             \* valid 8.3 names, as make83Name makes them
  Bad,              \* a component that is no such name
  Root, Node,       \* chains of clusters, the root directory's among them
  None,             \* no chain: cluster 0
  Slots,            \* directory entries in a cluster
  ClusterCount,
  RootTypes,        \* types of root directory
  Handle, Local,    \* SdFile objects: the program's, and local variables of the calls
  Flags,            \* bound: the sets of open flags used
  MaxFaults         \* bound: accesses that fail

ASSUME NodeAssumption == Root \notin Node /\ None \notin Node \cup {Root} /\ Node # {}
ASSUME SlotsAssumption == Slots \in Nat /\ Slots >= 2 /\ ClusterCount \in Nat \ {0}
ASSUME NameAssumption == Bad \notin Name
ASSUME ObjectAssumption == Handle \cap Local = {} /\ Local # {}
ASSUME FlagsAssumption == Flags \subseteq SUBSET {"read", "write", "creat", "excl", "trunc"}
ASSUME BoundAssumption == MaxFaults \in Nat
ASSUME RootAssumption == RootTypes \subseteq {"root16", "root32"} /\ RootTypes # {}

Dot == "."
DotDot == ".."

\* A slot is free (as are all behind it), deleted, an entry, one of the two
\* that every subdirectory begins with, or no entry but some file's data
Slot(what, name, node, size) == [what |-> what, name |-> name, node |-> node, size |-> size]
Blank(what) == Slot(what, Bad, None, 0)
FreeSlot == Blank("free")
Deleted  == Blank("deleted")
IsUsed(e)  == e.what \in {"file", "dir"}
Cluster(e) == [i \in 1 .. Slots |-> e]

VARIABLES
  disk,     \* the slots of each chain; of none if it is not allocated
  obj,      \* the SdFile objects
  faults,   \* how many accesses failed
  lost,     \* history: entries or objects may refer to what is not theirs
  answer    \* what the last call returned

vars == <<disk, obj, faults, lost, answer>>

\* An object has no position here: a program can put it anywhere, see CallReadDir,
\* and the other calls begin with rewind() or seekSet().
Closed == [type |-> "closed", node |-> None, size |-> 0, at |-> <<>>,
           write |-> FALSE, dirty |-> FALSE]
Object == Handle \cup Local

\* What a failed openRoot() leaves of a FAT32 volume: open, with the size, the position,
\* the flags and the volume that the object had before
Half == [Closed EXCEPT !.type = "half"]

Silent == [call |-> "none", path |-> <<>>, value |-> None, sure |-> TRUE]

TypeOK ==
  /\ \A n \in Node \cup {Root} :
       /\ Len(disk[n]) % Slots = 0
       /\ \A i \in DOMAIN disk[n] :
            LET e == disk[n][i] IN
            /\ e.what \in {"free", "deleted", "file", "dir", Dot, DotDot, "data"}
            /\ IsUsed(e) => e.name \in Name /\ e.node \in Node \cup {None}
  /\ \A h \in Handle :
       /\ obj[h].type \in {"closed", "half", "file", "dir"} \cup RootTypes
       /\ obj[h].node \in Node \cup {Root, None}
       /\ obj[h].size \in 0 .. ClusterCount * Slots
  /\ \A h \in Local : obj[h] = Closed
  /\ faults \in 0 .. MaxFaults /\ lost \in BOOLEAN

Init ==
  /\ disk = [n \in Node \cup {Root} |-> IF n = Root THEN Cluster(FreeSlot) ELSE <<>>]
  /\ obj = [h \in Object |-> Closed]
  /\ faults = 0 /\ lost = FALSE /\ answer = Silent

-----------------------------------------------------------------------------
(***************************************************************************)
(* Results                                                                 *)
(***************************************************************************)
Now == [disk |-> disk, obj |-> obj, faults |-> faults, lost |-> lost]
Yes(s) == {[s |-> s, ok |-> TRUE]}
No(s)  == {[s |-> s, ok |-> FALSE]}
\* the access fails
Fault(s) == IF s.faults < MaxFaults THEN No([s EXCEPT !.faults = @ + 1]) ELSE {}
\* the access fails, or it goes well and F comes next
Access(s, F(_)) == Fault(s) \cup F(s)
\* F comes next if the results are good
And(R, F(_)) == UNION {IF r.ok THEN F(r.s) ELSE {r} : r \in R}
\* F comes next, whatever is returned
Then(R, F(_)) == UNION {F(r.s) : r \in R}

Put(s, at, e) == [s EXCEPT !.disk[at[1]][at[2]] = e]
At(s, at) == s.disk[at[1]][at[2]]

IsOpen(o) == o.type # "closed"
IsDir(o)  == o.type \in {"dir", "root16", "root32"}
IsRoot(o) == o.type \in {"root16", "root32"}

\* other objects that have the chain or the entry open
Sharers(s, h) ==
  {g \in Object \ {h} : IsOpen(s.obj[g])
     /\ \/ s.obj[g].at = s.obj[h].at /\ s.obj[h].at # <<>>
        \/ s.obj[g].node = s.obj[h].node /\ s.obj[h].node # None}

\* other objects whose entry is in the chain
Inside(s, h) == {g \in Object \ {h} : IsOpen(s.obj[g]) /\ s.obj[g].at # <<>>
                                       /\ s.obj[g].at[1] = s.obj[h].node}

-----------------------------------------------------------------------------
(***************************************************************************)
(* Objects and chains                                                      *)
(***************************************************************************)
\* sync(): the size of a directory is not written.  The flags an object has of old may
\* have it write what is another's entry by now.
Sync(s, h) ==
  LET o == s.obj[h]
      told == [Put(s, o.at, [At(s, o.at) EXCEPT !.node = o.node,
                                                !.size = IF IsDir(o) THEN @ ELSE o.size])
                 EXCEPT !.obj[h].dirty = FALSE, !.lost = @ \/ Sharers(s, h) # {}]
  IN IF ~IsOpen(o) THEN No(s)
     ELSE IF o.dirty THEN Access(s, LAMBDA t : Access(told, Yes))
     ELSE IF o.type = "half" THEN Access(s, Yes) \cup Yes([s EXCEPT !.lost = TRUE])
     ELSE Access(s, Yes)

\* close()
Close(s, h) == And(Sync(s, h), LAMBDA t : Yes([t EXCEPT !.obj[h] = Closed]))

\* truncate(0), through which remove() frees what a file has.  Once clusters are
\* freed and the entry does not say so, the volume is not followed.
TruncateAll(s, h) ==
  LET o == s.obj[h]
      freed == [s EXCEPT !.disk[o.node] = <<>>, !.lost = @ \/ Sharers(s, h) \cup Inside(s, h) # {},
                  !.obj[h].node = None, !.obj[h].size = 0, !.obj[h].dirty = TRUE]
  IN IF o.type # "file" \/ ~o.write THEN No(s)
     ELSE IF o.size = 0 THEN Yes(s)
     ELSE Fault(s) \cup Fault([s EXCEPT !.lost = TRUE])
          \cup {[r EXCEPT !.s.lost = @ \/ ~r.ok] : r \in Sync(freed, h)}

ClustersUsed(s) == MapThenSumSet(LAMBDA n : Len(s.disk[n]) \div Slots, Node \cup {Root})
Room(s) == ClustersUsed(s) < ClusterCount
Unused(s) == {n \in Node : s.disk[n] = <<>> /\ \A h \in Object : s.obj[h].node # n}

\* faulty: fileSize_ stays
GrownUnnoted(s, g) == [s EXCEPT !.lost = @ \/ Sharers(s, g) # {}]
\* the size that addDirCluster() gives the object
Grown(s, g) == [s EXCEPT !.obj[g].size = @ + Slots, !.lost = @ \/ Sharers(s, g) # {}]

\* addDirCluster(): a cluster is added where the object believes its end to be,
\* and zeroed; if that fails it is in the chain with whatever it holds
AddDirCluster(s, g) ==
  LET o == s.obj[g]
      first(n, e)  == [s EXCEPT !.disk[n] = Cluster(e), !.obj[g].node = n, !.obj[g].dirty = TRUE]
      longer(e) == [s EXCEPT !.disk[o.node] = SubSeq(@, 1, o.size) \o Cluster(e)]
  IN IF ~Room(s) THEN No(s)
     ELSE IF o.size = 0 /\ o.node # None
     THEN Access([s EXCEPT !.lost = TRUE], No)      \* the new cluster is linked to none
     ELSE Access(s, LAMBDA t :
       IF o.node = None
       THEN UNION {Fault(first(n, Blank("data"))) \cup Yes(Grown(first(n, FreeSlot), g))
                   : n \in Unused(s)}
       ELSE Fault([longer(Blank("data")) EXCEPT !.lost = TRUE])
            \cup Yes(Grown(longer(FreeSlot), g)))

-----------------------------------------------------------------------------
(***************************************************************************)
(* Opening                                                                 *)
(***************************************************************************)
\* make83Name(); faulty: any name will do
ValidAny(name) == TRUE
Valid(name) == name # Bad

\* openCachedEntry()
OpenCachedEntry(s, h, at, flags) ==
  LET e == At(s, at)
      o == [type |-> e.what, node |-> e.node, at |-> at,
            size |-> IF e.what = "dir" THEN Len(s.disk[e.node]) ELSE e.size,
            write |-> "write" \in flags, dirty |-> FALSE]
      opened == [s EXCEPT !.obj[h] = o]
  IN IF ~IsUsed(e) \/ (e.what = "dir" /\ flags \cap {"write", "trunc"} # {}) THEN No(s)
     ELSE IF e.what = "dir" /\ e.node = None THEN No([s EXCEPT !.lost = TRUE])  \* reads the FAT
     ELSE IF e.what = "dir" THEN Access(s, LAMBDA t : Yes(opened))
     ELSE IF "trunc" \in flags THEN TruncateAll(opened, h)
     ELSE Yes(opened)

\* the slots at which the scan of open() ends; faulty: at any that is not used
EndsEarly(s, g) ==
  {i \in 1 .. s.obj[g].size : s.disk[s.obj[g].node][i].what \in {"free", "deleted"}}
Ends(s, g) == {i \in 1 .. s.obj[g].size : s.disk[s.obj[g].node][i].what = "free"}

\* the scan: which slot it found, which it could take
Scan(s, g, name) ==
  LET o == s.obj[g]
      d == s.disk[o.node]
      ends  == Ends(s, g)
      last  == IF ends = {} THEN o.size ELSE Min(ends)
      found == {i \in 1 .. last : IsUsed(d[i]) /\ d[i].name = name}
      empty == {i \in 1 .. last : d[i].what \in {"free", "deleted"}}
  IN [found |-> IF found = {} THEN 0 ELSE Min(found),
      empty |-> IF empty = {} THEN 0 ELSE Min(empty)]

\* open() of a name; g is the directory
Open(s, h, g, name, flags) ==
  LET o == s.obj[g]
      scan == IF IsDir(o) /\ o.size > 0 THEN Scan(s, g, name) ELSE [found |-> 0, empty |-> 0]
      stray == ~IsDir(o) \/ (o.at # <<>> /\ At(s, o.at).what # "dir")
      made(t, at) == [Put(t, at, Slot("file", name, None, 0)) EXCEPT !.lost = @ \/ stray]
      create(t, at) == Fault(made(t, at)) \cup OpenCachedEntry(made(t, at), h, at, flags)
  IN IF IsOpen(s.obj[h]) \/ ~Valid(name) THEN No(s)
     ELSE IF ~IsDir(o) /\ o.size > 0 THEN No(s)      \* readDirCache() refuses
     ELSE Fault(s) \cup
       IF scan.found # 0
       THEN IF {"creat", "excl"} \subseteq flags THEN No(s)
            ELSE OpenCachedEntry(s, h, <<o.node, scan.found>>, flags)
       ELSE IF ~({"creat", "write"} \subseteq flags) THEN No(s)
       ELSE IF scan.empty # 0
       THEN Access(s, LAMBDA t : create(t, <<o.node, scan.empty>>))
       ELSE IF o.type = "root16" THEN No(s)
       ELSE And(AddDirCluster(s, g), LAMBDA t : create(t, <<t.obj[g].node, o.size + 1>>))

\* open() by index
OpenAt(s, h, g, i, flags) ==
  LET o == s.obj[g] IN
  IF IsOpen(s.obj[h]) \/ {"creat", "excl"} \subseteq flags \/ ~IsDir(o) \/ i >= o.size THEN No(s)
  ELSE Access(s, LAMBDA t : OpenCachedEntry(s, h, <<o.node, i + 1>>, flags))

\* openRoot(): of a FAT32 volume, it follows the chain when the object is open already
OpenRoot(s, h, type) ==
  LET o == [Closed EXCEPT !.type = type, !.node = Root, !.size = Len(s.disk[Root])]
  IN IF IsOpen(s.obj[h]) THEN No(s)
     ELSE Yes([s EXCEPT !.obj[h] = o])
          \cup (IF type = "root32" THEN Fault([s EXCEPT !.obj[h] = Half]) ELSE {})

\* the cluster in '..'; faulty: that of the root directory, too
UpToRoot(s, g) == s.obj[g].node
Up(s, g) == IF IsRoot(s.obj[g]) THEN None ELSE s.obj[g].node

\* makeDir(): a file is made, and made a directory
MakeDir(s, h, g, name) ==
  LET typed(t)  == [t EXCEPT !.obj[h].type = "dir", !.obj[h].write = FALSE]
      marked(t) == Put(t, t.obj[h].at, [At(t, t.obj[h].at) EXCEPT !.what = "dir"])
      dots(t) == LET n == t.obj[h].node IN
        Put(Put(t, <<n, 1>>, Slot(Dot, Bad, n, 0)), <<n, 2>>, Slot(DotDot, Bad, Up(s, g), 0))
  IN And(Open(s, h, g, name, {"creat", "excl", "read", "write"}), LAMBDA t :
     And(AddDirCluster(typed(t), h), LAMBDA u :
     And(Sync(u, h), LAMBDA v :
       Access(v, LAMBDA w : Access(marked(w), LAMBDA x : Access(dots(x), Yes))))))

-----------------------------------------------------------------------------
(***************************************************************************)
(* Removing                                                                *)
(***************************************************************************)
\* the entry is marked; faulty: as one that was never used
MarkFree(s, h) == [Put(s, s.obj[h].at, FreeSlot) EXCEPT !.obj[h] = Closed]
Mark(s, h) == [Put(s, s.obj[h].at, Deleted) EXCEPT !.obj[h] = Closed,
                                                   !.lost = @ \/ Sharers(s, h) # {}]

\* remove() of an open file
Remove(s, h) ==
  And(TruncateAll(s, h), LAMBDA t : Access(t, LAMBDA u : Access(Mark(u, h), Yes)))

\* the object is a local variable of the call
Child == CHOOSE h \in Local : TRUE
Forget(R, h) == {[r EXCEPT !.s.obj[h] = Closed] : r \in R}

\* remove() by name, with object h
RemoveName(s, h, g, name) ==
  Forget(And(Open(s, h, g, name, {"write"}), LAMBDA t : Remove(t, h)), h)

\* whether rmDir() finds an entry in the directory; faulty: it does not look
InUseNever(s, h) == FALSE
InUse(s, h) ==
  LET d == s.disk[s.obj[h].node] IN
  \E i \in 1 .. s.obj[h].size : IsUsed(d[i]) /\ \A j \in 1 .. i : d[j].what # "free"

\* rmDir()
RmDir(s, h) ==
  LET o == s.obj[h]
  IN IF o.type # "dir" THEN No(s)
     ELSE Fault(s) \cup
          IF InUse(s, h) THEN No(s)
          ELSE Remove([s EXCEPT !.obj[h].type = "file", !.obj[h].write = TRUE], h)

-----------------------------------------------------------------------------
(***************************************************************************)
(* Listing                                                                 *)
(***************************************************************************)
\* readDir() at slot i: where it found an entry, or 0
ReadDir(s, h, i) ==
  LET o == s.obj[h]
      d == s.disk[o.node]
      stops == {j \in i + 1 .. o.size : d[j].what = "free" \/ IsUsed(d[j])}
      last == IF stops = {} THEN 0 ELSE Min(stops)
      found == IF last # 0 /\ IsUsed(d[last]) THEN last ELSE 0
  IN {[s |-> r.s, ok |-> FALSE, at |-> 0] : r \in Fault(s)}
     \cup {[s |-> s, ok |-> TRUE, at |-> found]}

-----------------------------------------------------------------------------
(***************************************************************************)
(* Calls                                                                   *)
(***************************************************************************)
\* the call has result r, and answers what, at or with value
Returns(r, call, path, value) ==
  /\ disk' = r.s.disk /\ faults' = r.s.faults /\ lost' = r.s.lost
  /\ obj' = [h \in Object |-> IF h \in Local THEN Closed ELSE r.s.obj[h]]
  /\ answer' = [call |-> call, path |-> path, value |-> value, sure |-> r.s.faults = faults]
Does(R) == \E r \in R : Returns(r, "none", <<>>, None)
Removes(R, call) == \E r \in R : Returns(r, call, <<>>, None)

Ready == ~lost /\ answer.call = "none"
Opened(h) == Ready /\ IsOpen(obj[h])
OpenedWell(h) == Opened(h) /\ obj[h] # Half

CallOpenRoot == \E h \in Handle, t \in RootTypes :
  /\ Ready /\ \A g \in Handle : IsRoot(obj[g]) => obj[g].type = t
  /\ Does(OpenRoot(Now, h, t))
CallClose == \E h \in Handle : Opened(h) /\ Does(Close(Now, h))
CallSync  == \E h \in Handle : Opened(h) /\ Does(Sync(Now, h))
CallOpen  == \E h, g \in Handle, n \in Name \cup {Bad}, m \in Flags :
  OpenedWell(g) /\ Does(Open(Now, h, g, n, m))
CallOpenAt == \E h, g \in Handle, i \in 0 .. ClusterCount * Slots, m \in Flags :
  OpenedWell(g) /\ i <= obj[g].size /\ Does(OpenAt(Now, h, g, i, m))
CallMakeDir == \E h, g \in Handle, n \in Name \cup {Bad} :
  OpenedWell(g) /\ Does(MakeDir(Now, h, g, n))
CallReadDir == \E h \in Handle, i \in 0 .. ClusterCount * Slots :
  /\ Opened(h) /\ IsDir(obj[h]) /\ i <= obj[h].size
  /\ \E r \in ReadDir(Now, h, i) : r.ok /\ Returns(r, "readDir", <<obj[h].node, i>>, r.at)
CallRemove == \E h \in Handle : Opened(h) /\ Removes(Remove(Now, h), "remove")
CallRemoveName == \E g \in Handle, n \in Name :
  OpenedWell(g) /\ Removes(RemoveName(Now, Child, g, n), "remove")
CallRmDir == \E h \in Handle : Opened(h) /\ Removes(RmDir(Now, h), "rmdir")
\* A call that takes it for a directory goes by what the object was before, which is not
\* followed.
CallOfHalf == \E h \in Handle :
  /\ Ready /\ obj[h] = Half
  /\ lost' = TRUE /\ UNCHANGED <<disk, obj, faults, answer>>
\* a file is given data, as write() does
WriteData == \E h \in Handle :
  LET o == obj[h] IN
  /\ Opened(h) /\ o.type = "file" /\ o.write /\ o.node = None /\ Room(Now)
  /\ \E n \in Unused(Now) :
       /\ disk' = [disk EXCEPT ![n] = Cluster(Blank("data"))]
       /\ obj' = [obj EXCEPT ![h].node = n, ![h].size = Slots, ![h].dirty = TRUE]
       /\ lost' = (Sharers(Now, h) # {})
  /\ UNCHANGED <<faults, answer>>

Answered ==
  /\ ~lost /\ answer.call # "none"
  /\ answer' = Silent /\ UNCHANGED <<disk, obj, faults, lost>>

NoLongerFollowed == lost /\ UNCHANGED vars

Next ==
  \/ CallOpenRoot \/ CallClose \/ CallSync \/ CallOpen \/ CallOpenAt \/ CallMakeDir
  \/ CallRemove \/ CallRemoveName \/ CallRmDir \/ CallReadDir \/ CallOfHalf \/ WriteData
  \/ Answered \/ NoLongerFollowed

Spec == Init /\ [][Next]_vars
-----------------------------------------------------------------------------
(***************************************************************************)
(* Properties                                                              *)
(***************************************************************************)
Chains == Node \cup {Root}
Used(d) == {i \in DOMAIN disk[d] : IsUsed(disk[d][i])}
Subdirs(d) == {disk[d][i].node : i \in {j \in Used(d) : disk[d][j].what = "dir"}} \ {None}
DirChains == {Root} \cup UNION {Subdirs(d) : d \in Chains}

\* A search finds every entry: no directory has two entries of a name, and none is
\* behind a slot that was never used, at which searches stop, whatever was created,
\* deleted and created again in it and whichever accesses failed (SdFile.cpp:401-423,
\* 748, 845, 886).
SearchesSeeAll ==
  ~lost => \A d \in DirChains : \A i \in Used(d) :
    /\ \A j \in Used(d) : disk[d][i].name = disk[d][j].name => i = j
    /\ \A j \in 1 .. i : disk[d][j].what # "free"

\* No two entries share clusters; the clusters of a directory are there, and name it
\* and its parent.  (A rmDir() that failed leaves a directory without clusters.)
TreeWellFormed ==
  ~lost =>
    /\ \A d, e \in DirChains : \A i \in Used(d), j \in Used(e) :
         disk[d][i].node = disk[e][j].node /\ disk[d][i].node # None => d = e /\ i = j
    /\ \A d \in DirChains : \A i \in Used(d) :
         LET n == disk[d][i].node IN
         disk[d][i].what = "dir" /\ n # None =>
           /\ disk[n] # <<>>
           /\ disk[n][1].what = Dot =>
                disk[n][1].node = n /\ disk[n][2].what = DotDot
                  /\ disk[n][2].node = IF d = Root THEN None ELSE d

\* What an object that was opened says of its directory or file is so: sizes of
\* directories are not stale, and its entry is there and says the same unless the object
\* is dirty.  (One that openRoot() failed to open has a size of old.)
ObjectsCurrent ==
  ~lost => \A h \in Handle :
    LET o == obj[h] IN
    /\ IsDir(o) /\ o.node # None /\ o.size > 0 => o.size = Len(disk[o.node])
    /\ o.at # <<>> => LET e == disk[o.at[1]][o.at[2]] IN
         IsUsed(e) /\ (o.dirty \/ e.node = o.node)
=============================================================================

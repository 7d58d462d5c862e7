----------------------------- MODULE FatVolume -----------------------------
(***************************************************************************)
(* Cluster allocation of SdVolume (src/src/utility/SdVolume.cpp:31-97,     *)
(* 140-210) with the calls SdFile makes of it: addCluster as write() does  *)
(* when it comes to a new cluster, createContiguous and truncate.          *)
(*                                                                         *)
(* The FAT is the array of entries that BlockCache provides: an access     *)
(* happens or fails and changes nothing.  Because any access may fail,     *)
(* each iteration of a loop is a step; `pc' is where the call in progress  *)
(* is, "idle" between calls.                                               *)
(***************************************************************************)
EXTENDS Integers, FiniteSets

CONSTANTS
  ClusterCount,   \* clusterCount_
  Eoc,            \* what fatPutEOC writes and isEOC accepts
  File,           \* SdFile objects, one to a file
  MaxGroup        \* bound: the largest group createContiguous asks for

ASSUME CountAssumption == ClusterCount \in Nat \ {0} /\ MaxGroup \in Nat \ {0}
ASSUME EocAssumption == Eoc \in Nat /\ Eoc > ClusterCount + 1

fatEnd  == ClusterCount + 1
Cluster == 2 .. fatEnd
Free    == 0

VARIABLES
  fat,                \* the FAT entries
  allocSearchStart,   \* allocSearchStart_
  firstCluster, curCluster,   \* of each file: firstCluster_, curCluster_
  pc,                 \* where the call in progress is
  op, caller,         \* the last call and the file it was made on
  count,              \* allocContiguous: count; chainSize: the clusters it found
  from,               \* allocContiguous: *curCluster; truncate: curCluster_
  n,                  \* clusters looked at, freed or counted so far
  bgnCluster, endCluster,
  cluster,            \* the cluster the loop is at
  result,             \* how the last call ended
  torn                \* history: a truncate stopped halfway

volume == <<fat, allocSearchStart>>
files  == <<firstCluster, curCluster>>
locals == <<from, n, bgnCluster, endCluster, cluster>>
vars   == <<volume, files, pc, op, caller, count, locals, result, torn>>

TypeOK ==
  /\ fat \in [Cluster -> Cluster \cup {Free, Eoc}]
  /\ allocSearchStart \in 2 .. fatEnd + 1
  /\ firstCluster \in [File -> Cluster \cup {0}]
  /\ curCluster \in [File -> Cluster \cup {0}]
  /\ pc \in {"idle", "search", "mark", "link", "free", "cut", "size"}
  /\ op \in {"none", "add", "create", "truncate", "size"}
  /\ caller \in File /\ count \in Nat \ {0}
  /\ from \in Cluster \cup {0} /\ n \in Nat
  /\ bgnCluster \in 2 .. fatEnd + 1 /\ endCluster \in 2 .. fatEnd + 1
  /\ cluster \in Cluster \cup {0}
  /\ result \in {"ok", "full", "error"} /\ torn \in BOOLEAN

Init ==
  /\ fat \in [Cluster -> {Free, Eoc}]      \* some clusters are others'
  /\ allocSearchStart = 2
  /\ firstCluster = [f \in File |-> 0] /\ curCluster = [f \in File |-> 0]
  /\ pc = "idle" /\ op = "none" /\ caller \in File
  /\ count = 1 /\ from = 0 /\ n = 0 /\ bgnCluster = 2 /\ endCluster = 2 /\ cluster = 0
  /\ result = "ok" /\ torn = FALSE

\* fatGet(); entry 0 is the media descriptor, which isEOC accepts
Entry(c) == IF c = 0 THEN Eoc ELSE fat[c]

\* the call in progress returns r; its variables are gone
Returns(r) ==
  /\ pc' = "idle" /\ result' = r
  /\ from' = 0 /\ n' = 0 /\ bgnCluster' = 2 /\ endCluster' = 2 /\ cluster' = 0

\* a transfer fails, and the call with it
TransferFails == Returns("error") /\ UNCHANGED <<volume, files, count, op, caller>>

(***************************************************************************)
(* allocContiguous(k, &c) for file f                                       *)
(***************************************************************************)
AllocContiguous(o, f, k, c) ==
  /\ pc' = "search" /\ op' = o /\ caller' = f /\ count' = k /\ from' = c /\ n' = 0
  /\ bgnCluster' = IF c # 0 THEN c + 1 ELSE allocSearchStart
  /\ endCluster' = bgnCluster'
  /\ UNCHANGED <<volume, files, cluster, result, torn>>

Wraps == endCluster > fatEnd

\* faulty: one cluster is never looked at
GiveUpEarly ==
  /\ pc = "search" /\ n >= ClusterCount - 1
  /\ Returns("full")
  /\ UNCHANGED <<volume, files, op, caller, count, torn>>

GiveUp ==
  /\ pc = "search" /\ n >= ClusterCount
  /\ Returns("full")
  /\ UNCHANGED <<volume, files, op, caller, count, torn>>

LookedAtNothing == n      \* faulty: the loop does not count
LookedAt == n + 1

\* one iteration: a cluster in use starts the group anew behind it, a free one
\* extends the group, and completes it or not
Probe ==
  LET e == IF Wraps THEN 2 ELSE endCluster
      b == IF Wraps THEN 2 ELSE bgnCluster
  IN
  /\ pc = "search" /\ n < ClusterCount
  /\ \/ /\ fat[e] # Free
        /\ bgnCluster' = e + 1 /\ endCluster' = e + 1 /\ n' = LookedAt /\ pc' = pc
     \/ /\ fat[e] = Free /\ e - b + 1 = count
        /\ bgnCluster' = b /\ endCluster' = e /\ pc' = "mark" /\ n' = n
     \/ /\ fat[e] = Free /\ e - b + 1 # count
        /\ bgnCluster' = b /\ endCluster' = e + 1 /\ n' = LookedAt /\ pc' = pc
  /\ UNCHANGED <<volume, files, op, caller, count, from, cluster, result, torn>>

\* fatPutEOC(endCluster)
Mark ==
  /\ pc = "mark"
  /\ fat' = [fat EXCEPT ![endCluster] = Eoc]
  /\ cluster' = endCluster /\ pc' = "link"
  /\ UNCHANGED <<allocSearchStart, files, op, caller, count, from, n, bgnCluster, endCluster, result, torn>>

\* fatPut(endCluster - 1, endCluster), downwards
Link ==
  /\ pc = "link" /\ cluster > bgnCluster
  /\ fat' = [fat EXCEPT ![cluster - 1] = cluster]
  /\ cluster' = cluster - 1
  /\ UNCHANGED <<allocSearchStart, files, pc, op, caller, count, from, n, bgnCluster, endCluster, result, torn>>

\* faulty: the search start moves when a chain is extended, too
StartAfterAny == IF count = 1 THEN bgnCluster + 1 ELSE allocSearchStart

StartAfter == IF from = 0 /\ count = 1 THEN bgnCluster + 1 ELSE allocSearchStart

\* the group is connected to the chain it extends and handed to the caller
Connect ==
  /\ pc = "link" /\ cluster = bgnCluster
  /\ allocSearchStart' = StartAfter
  /\ fat' = IF from = 0 THEN fat ELSE [fat EXCEPT ![from] = bgnCluster]
  /\ curCluster' = IF op = "create" THEN curCluster ELSE [curCluster EXCEPT ![caller] = bgnCluster]
  /\ firstCluster' = IF firstCluster[caller] = 0
                     THEN [firstCluster EXCEPT ![caller] = bgnCluster] ELSE firstCluster
  /\ Returns("ok")
  /\ UNCHANGED <<op, caller, count, torn>>

\* any of its transfers
AllocFails ==
  /\ \/ pc = "search" /\ n < ClusterCount
     \/ pc = "mark"
     \/ pc = "link" /\ (cluster > bgnCluster \/ from # 0)
  /\ TransferFails /\ UNCHANGED torn

(***************************************************************************)
(* SdFile                                                                  *)
(***************************************************************************)
MoveTo(f, c) ==
  /\ curCluster' = [curCluster EXCEPT ![f] = c]
  /\ Returns("ok") /\ op' = "none" /\ caller' = f /\ count' = 1
  /\ UNCHANGED <<volume, firstCluster, torn>>

\* the call fails before it changed anything
FailsAtOnce(f) ==
  /\ Returns("error") /\ op' = "none" /\ caller' = f /\ count' = 1
  /\ UNCHANGED <<volume, files, torn>>

\* seekSet(0)
Rewind(f) == pc = "idle" /\ MoveTo(f, 0)

\* faulty: the end of the chain is taken for a cluster
NextClusterAny(f) ==
  LET next == IF curCluster[f] = 0 THEN firstCluster[f] ELSE Entry(curCluster[f]) IN
  /\ pc = "idle"
  /\ IF next = 0 THEN AllocContiguous("add", f, 1, 0) ELSE MoveTo(f, next)

\* write() comes to a new cluster: the first of a file that may have none, or
\* the next one, which is added at the end of the chain
NextCluster(f) ==
  LET cur  == curCluster[f]
      next == IF cur = 0 THEN firstCluster[f] ELSE Entry(cur)
  IN
  /\ pc = "idle"
  /\ \/ cur = 0 /\ next = 0 /\ AllocContiguous("add", f, 1, 0)
     \/ cur = 0 /\ next # 0 /\ MoveTo(f, next)
     \/ cur # 0 /\ next = Eoc /\ AllocContiguous("add", f, 1, cur)
     \/ cur # 0 /\ next # Eoc /\ MoveTo(f, next)
     \/ cur # 0 /\ FailsAtOnce(f)

\* createContiguous() on the new file f; on failure the file is removed, which
\* frees nothing
CreateContiguous(f, k) ==
  /\ pc = "idle" /\ firstCluster[f] = 0 /\ curCluster[f] = 0
  /\ AllocContiguous("create", f, k, 0)

\* freeChain(c), after which the entry of `keep', if not 0, is to end the chain
FreeChain(f, c, keep) ==
  /\ allocSearchStart' = 2
  /\ pc' = "free" /\ op' = "truncate" /\ caller' = f /\ count' = 1
  /\ cluster' = c /\ from' = keep
  /\ UNCHANGED <<fat, firstCluster, n, bgnCluster, endCluster, result, torn>>

\* truncate(0) of a file that is not empty
TruncateToZero(f) ==
  /\ pc = "idle" /\ firstCluster[f] # 0
  /\ FreeChain(f, firstCluster[f], 0)
  /\ curCluster' = [curCluster EXCEPT ![f] = 0]

\* truncate() to a length whose last cluster is the current one
TruncateHere(f) ==
  /\ pc = "idle" /\ curCluster[f] # 0
  /\ \/ Entry(curCluster[f]) = Eoc /\ MoveTo(f, curCluster[f])
     \/ /\ Entry(curCluster[f]) # Eoc
        /\ FreeChain(f, Entry(curCluster[f]), curCluster[f]) /\ UNCHANGED curCluster
     \/ FailsAtOnce(f)

\* one iteration of freeChain()
FreeOne ==
  /\ pc = "free" /\ cluster # 0 /\ fat[cluster] # Eoc
  /\ fat' = [fat EXCEPT ![cluster] = Free]
  /\ cluster' = fat[cluster] /\ n' = n + 1
  /\ UNCHANGED <<allocSearchStart, files, pc, op, caller, count, from, bgnCluster, endCluster, result, torn>>

\* faulty: the file keeps its first cluster
FreeLastKeepsFirst ==
  /\ pc = "free" /\ cluster # 0 /\ fat[cluster] = Eoc
  /\ fat' = [fat EXCEPT ![cluster] = Free]
  /\ IF from = 0 THEN Returns("ok")
     ELSE n' = n + 1 /\ pc' = "cut" /\ UNCHANGED <<from, bgnCluster, endCluster, cluster, result>>
  /\ UNCHANGED <<allocSearchStart, files, op, caller, count, torn>>

\* its last iteration, and what truncate() does then
FreeLast ==
  /\ pc = "free" /\ cluster # 0 /\ fat[cluster] = Eoc
  /\ fat' = [fat EXCEPT ![cluster] = Free]
  /\ \/ /\ from = 0
        /\ firstCluster' = [firstCluster EXCEPT ![caller] = 0]
        /\ Returns("ok")
     \/ /\ from # 0
        /\ n' = n + 1 /\ pc' = "cut"
        /\ UNCHANGED <<firstCluster, from, bgnCluster, endCluster, cluster, result>>
  /\ UNCHANGED <<allocSearchStart, curCluster, op, caller, count, torn>>

\* faulty: the link to what was freed stays
CutNothing ==
  /\ pc = "cut"
  /\ Returns("ok")
  /\ UNCHANGED <<volume, files, op, caller, count, torn>>

\* fatPutEOC(curCluster_)
Cut ==
  /\ pc = "cut"
  /\ fat' = [fat EXCEPT ![from] = Eoc]
  /\ Returns("ok")
  /\ UNCHANGED <<allocSearchStart, files, op, caller, count, torn>>

\* the file still points to what is free already
TruncateFails ==
  /\ pc \in {"free", "cut"}
  /\ TransferFails /\ torn' = (torn \/ n > 0)

\* chainSize(), as opening a directory does
ChainSize(f) ==
  /\ pc = "idle" /\ firstCluster[f] # 0
  /\ pc' = "size" /\ op' = "size" /\ caller' = f /\ count' = 1 /\ cluster' = firstCluster[f]
  /\ UNCHANGED <<volume, files, from, n, bgnCluster, endCluster, result, torn>>

Counts(k) ==      \* an iteration of chainSize(); k clusters were seen when it returns
  /\ pc = "size"
  /\ \/ Entry(cluster) = Eoc /\ Returns("ok") /\ count' = k
     \/ /\ Entry(cluster) # Eoc
        /\ cluster' = Entry(cluster) /\ n' = n + 1
        /\ UNCHANGED <<pc, count, from, bgnCluster, endCluster, result>>
  /\ UNCHANGED <<volume, files, op, caller, torn>>

SizeStepUnder == Counts(n)      \* faulty: the last cluster is not counted
SizeStep      == Counts(n + 1)

SizeFails == pc = "size" /\ TransferFails /\ UNCHANGED torn

Step ==
  \/ Probe \/ GiveUp \/ Mark \/ Link \/ Connect \/ AllocFails
  \/ FreeOne \/ FreeLast \/ Cut \/ TruncateFails
  \/ SizeStep \/ SizeFails

Call ==
  \E f \in File :
    \/ NextCluster(f) \/ Rewind(f)
    \/ \E k \in 1 .. MaxGroup : CreateContiguous(f, k)
    \/ TruncateToZero(f) \/ TruncateHere(f)
    \/ ChainSize(f)

Next == Call \/ Step

\* a call that was made goes on running
Spec == Init /\ [][Next]_vars /\ WF_vars(Step)

(***************************************************************************)
(* Properties                                                              *)
(***************************************************************************)
\* the clusters of the chain that starts at a file's first cluster
Chain(f) ==
  LET within[k \in 0 .. ClusterCount] ==
        IF k = 0 THEN {firstCluster[f]} \ {0}
        ELSE within[k - 1] \cup ({fat[c] : c \in within[k - 1]} \ {Free, Eoc})
  IN  within[ClusterCount]

\* No cluster below the place where the next search starts is free: the hint
\* never hides space, whatever was freed, wrapped or failed in between
\* (SdVolume.cpp:94, 197).
NothingFreeBelowStart == \A c \in Cluster : c < allocSearchStart => fat[c] # Free

\* An allocation that gives up did not overlook a group: nowhere on the volume
\* are that many free clusters in a row, although the search starts in the
\* middle, wraps, and drops its group when it does (SdVolume.cpp:58-77).
FullMeansFull ==
  pc = "idle" /\ result = "full" =>
    \A b \in Cluster : b + count - 1 \in Cluster =>
      \E c \in b .. b + count - 1 : fat[c] # Free

\* Until a truncate stops halfway no two entries link to one cluster, and
\* no entry links to the first cluster of a file or two files start at one:
\* so no two chains meet, and none runs into itself (SdVolume.cpp:78-91).
LinksSeparate ==
  ~torn =>
    /\ \A c, d \in Cluster : fat[c] = fat[d] /\ fat[c] \in Cluster => c = d
    /\ \A f \in File, c \in Cluster : fat[c] = firstCluster[f] => fat[c] = Free
    /\ \A f, g \in File : firstCluster[f] = firstCluster[g] /\ firstCluster[f] # 0 => f = g

\* Between calls, until a truncate stops halfway, the chains of files are
\* disjoint, all their clusters are in use, each has one end, and the current
\* cluster of a file is in its own chain, although allocations may fail after
\* any of their writes (SdVolume.cpp:78-91, SdFile.cpp:1086-1101, 1147-1166).
ChainsSound ==
  pc = "idle" /\ ~torn =>
    \A f \in File :
      /\ \A g \in File \ {f} : Chain(f) \cap Chain(g) = {}
      /\ \A c \in Chain(f) : fat[c] # Free
      /\ Chain(f) # {} => Cardinality({c \in Chain(f) : fat[c] = Eoc}) = 1
      /\ curCluster[f] \in Chain(f) \cup {0}

\* A contiguous file has the clusters it asked for in a row, in order, and
\* chainSize() counts a chain exactly (SdVolume.cpp:78-91, 140-148).
Counted ==
  pc = "idle" /\ result = "ok" /\ ~torn =>
    /\ op = "create" =>
         LET b == firstCluster[caller] IN
         /\ Chain(caller) = b .. b + count - 1
         /\ \A c \in b .. b + count - 2 : fat[c] = c + 1
    /\ op = "size" => count = Cardinality(Chain(caller))

\* Every call returns: the search, freeChain() and chainSize() end even on
\* chains a failed truncate has tangled (SdVolume.cpp:59, 142, 199).
CallsReturn == pc # "idle" ~> pc = "idle"
=============================================================================

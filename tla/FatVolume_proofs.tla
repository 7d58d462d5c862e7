-------------------------- MODULE FatVolume_proofs --------------------------
(***************************************************************************)
(* Theorems about FatVolume, for every number of clusters and files: type  *)
(* correctness; that the search start hides no free cluster and that an    *)
(* allocation gives up only when there is no group; and that until a       *)
(* truncate stops halfway links stay separate, chains whole and counts     *)
(* exact.                                                                  *)
(***************************************************************************)
EXTENDS FatVolume, FiniteSetTheorems, TLAPS

LEMMA Constants ==
  /\ ClusterCount \in Nat /\ ClusterCount >= 1 /\ fatEnd \in Nat /\ fatEnd = ClusterCount + 1
  /\ Eoc \in Nat /\ Eoc \notin Cluster /\ Eoc # Free /\ Free = 0 /\ 0 \notin Cluster /\ 2 \in Cluster
  /\ \A c : c \in Cluster <=> c \in Int /\ c >= 2 /\ c <= fatEnd
BY CountAssumption, EocAssumption DEF fatEnd, Cluster, Free

(***************************************************************************)
(* Types                                                                   *)
(***************************************************************************)
\* what each place in a call knows of the call's variables
PlaceOK ==
  /\ pc = "mark" => endCluster \in Cluster /\ bgnCluster <= endCluster
  /\ pc = "link" => cluster \in Cluster /\ bgnCluster \in Cluster /\ bgnCluster <= cluster
  /\ pc = "cut"  => from \in Cluster
  /\ pc = "idle" => n = 0

TypeInv == TypeOK /\ PlaceOK

\* the values of a step's variables keep their types
LEMMA ReturnsType ==
  ASSUME TypeInv, NEW r \in {"ok", "full", "error"}, Returns(r)
  PROVE  /\ pc' = "idle" /\ result' \in {"ok", "full", "error"}
         /\ from' \in Cluster \cup {0} /\ n' \in Nat /\ n' = 0
         /\ bgnCluster' \in 2 .. fatEnd + 1 /\ endCluster' \in 2 .. fatEnd + 1
         /\ cluster' \in Cluster \cup {0}
BY Constants DEF Returns

LEMMA AllocType ==
  ASSUME TypeInv, NEW o \in {"add", "create"}, NEW f \in File, NEW k \in Nat \ {0},
         NEW c \in Cluster \cup {0}, AllocContiguous(o, f, k, c)
  PROVE  TypeInv'
<1>1. bgnCluster' \in 2 .. fatEnd + 1
  BY Constants DEF AllocContiguous, TypeInv, TypeOK
<1> QED BY <1>1, Constants DEF AllocContiguous, TypeInv, TypeOK, PlaceOK, volume, files

LEMMA MoveType ==
  ASSUME TypeInv, NEW f \in File, NEW c \in Cluster \cup {0}, MoveTo(f, c)
  PROVE  TypeInv'
<1>1. Returns("ok") BY DEF MoveTo
<1> QED BY <1>1, ReturnsType, Constants DEF MoveTo, TypeInv, TypeOK, PlaceOK, volume

LEMMA FailsType ==
  ASSUME TypeInv, NEW f \in File, FailsAtOnce(f)
  PROVE  TypeInv'
<1>1. Returns("error") BY DEF FailsAtOnce
<1> QED BY <1>1, ReturnsType, Constants DEF FailsAtOnce, TypeInv, TypeOK, PlaceOK, volume, files

LEMMA FreeChainType ==
  ASSUME TypeInv, NEW f \in File, NEW c \in Cluster \cup {0}, NEW keep \in Cluster \cup {0},
         FreeChain(f, c, keep), curCluster' \in [File -> Cluster \cup {0}]
  PROVE  TypeInv'
BY Constants DEF FreeChain, TypeInv, TypeOK, PlaceOK

LEMMA EntryType ==
  ASSUME TypeInv, NEW c \in Cluster \cup {0}
  PROVE  Entry(c) \in Cluster \cup {Free, Eoc}
BY Constants DEF Entry, TypeInv, TypeOK

LEMMA TransferFailsType ==
  ASSUME TypeInv, TransferFails, torn' \in BOOLEAN
  PROVE  TypeInv'
<1>1. Returns("error") BY DEF TransferFails
<1> QED BY <1>1, ReturnsType, Constants DEF TransferFails, TypeInv, TypeOK, PlaceOK, volume, files

LEMMA TypeCall ==
  ASSUME TypeInv, NEW f \in File,
         \/ NextCluster(f) \/ Rewind(f)
         \/ \E k \in 1 .. MaxGroup : CreateContiguous(f, k)
         \/ TruncateToZero(f) \/ TruncateHere(f)
         \/ ChainSize(f)
  PROVE  TypeInv'
<1> DEFINE cur == curCluster[f]
<1>0. /\ cur \in Cluster \cup {0} /\ firstCluster[f] \in Cluster \cup {0}
      /\ Entry(cur) \in Cluster \cup {0, Eoc}
  BY EntryType, Constants DEF TypeInv, TypeOK
<1>1. CASE NextCluster(f)
  <2>1. CASE AllocContiguous("add", f, 1, 0)
    BY <2>1, AllocType
  <2>2. CASE AllocContiguous("add", f, 1, cur)
    BY <2>2, <1>0, AllocType
  <2>3. CASE cur = 0 /\ MoveTo(f, firstCluster[f])
    BY <2>3, <1>0, MoveType
  <2>4. CASE Entry(cur) # Eoc /\ MoveTo(f, Entry(cur))
    BY <2>4, <1>0, MoveType
  <2>5. CASE FailsAtOnce(f)
    BY <2>5, FailsType
  <2> QED BY <1>1, <2>1, <2>2, <2>3, <2>4, <2>5 DEF NextCluster
<1>2. CASE Rewind(f)
  BY <1>2, MoveType DEF Rewind
<1>3. CASE \E k \in 1 .. MaxGroup : CreateContiguous(f, k)
  <2>1. PICK k \in 1 .. MaxGroup : AllocContiguous("create", f, k, 0)
    BY <1>3 DEF CreateContiguous
  <2>2. k \in Nat \ {0} BY CountAssumption
  <2> QED BY <2>1, <2>2, AllocType
<1>4. CASE TruncateToZero(f)
  <2>1. curCluster' \in [File -> Cluster \cup {0}]
    BY <1>4 DEF TruncateToZero, TypeInv, TypeOK
  <2>2. FreeChain(f, firstCluster[f], 0) BY <1>4 DEF TruncateToZero
  <2> QED BY <2>1, <2>2, <1>0, FreeChainType
<1>5. CASE TruncateHere(f)
  <2>1. CASE MoveTo(f, cur)
    BY <2>1, <1>0, MoveType
  <2>2. CASE Entry(cur) # Eoc /\ FreeChain(f, Entry(cur), cur) /\ UNCHANGED curCluster
    <3>1. curCluster' \in [File -> Cluster \cup {0}] BY <2>2 DEF TypeInv, TypeOK
    <3>2. Entry(cur) \in Cluster \cup {0} BY <2>2, <1>0
    <3> QED BY <2>2, <3>1, <3>2, <1>0, FreeChainType
  <2>3. CASE FailsAtOnce(f)
    BY <2>3, FailsType
  <2> QED BY <1>5, <2>1, <2>2, <2>3 DEF TruncateHere
<1>6. CASE ChainSize(f)
  BY <1>6, <1>0, Constants DEF ChainSize, TypeInv, TypeOK, PlaceOK, volume, files
<1> QED BY <1>1, <1>2, <1>3, <1>4, <1>5, <1>6

LEMMA TypeStep ==
  ASSUME TypeInv, Step
  PROVE  TypeInv'
<1>1. CASE Probe
  <2> DEFINE e == IF Wraps THEN 2 ELSE endCluster
             b == IF Wraps THEN 2 ELSE bgnCluster
  <2>1. e \in Cluster /\ b \in 2 .. fatEnd + 1 /\ e + 1 \in 2 .. fatEnd + 1
    BY Constants DEF Wraps, TypeInv, TypeOK
  <2>2. /\ bgnCluster' \in 2 .. fatEnd + 1 /\ endCluster' \in 2 .. fatEnd + 1 /\ n' \in Nat
        /\ pc' \in {"search", "mark"}
        /\ pc' = "mark" => endCluster' = e /\ e - bgnCluster' + 1 = count
    <3> HIDE DEF e, b
    <3> QED BY <1>1, <2>1, Constants DEF Probe, LookedAt, TypeInv, TypeOK, e, b
  <2>3. pc' = "mark" => endCluster' \in Cluster /\ bgnCluster' <= endCluster'
    <3> HIDE DEF e, b
    <3> QED BY <2>1, <2>2, Constants DEF TypeInv, TypeOK
  <2>4. UNCHANGED <<fat, allocSearchStart, firstCluster, curCluster, op, caller, count, from, cluster, result, torn>>
    BY <1>1 DEF Probe, volume, files
  <2> QED BY <2>2, <2>3, <2>4 DEF TypeInv, TypeOK, PlaceOK
<1>2. CASE GiveUp
  <2>1. Returns("full") BY <1>2 DEF GiveUp
  <2> QED BY <1>2, <2>1, ReturnsType DEF GiveUp, TypeInv, TypeOK, PlaceOK, volume, files
<1>3. CASE Mark
  BY <1>3, Constants DEF Mark, TypeInv, TypeOK, PlaceOK, files
<1>4. CASE Link
  <2>1. cluster - 1 \in Cluster /\ bgnCluster \in Cluster /\ bgnCluster <= cluster - 1
    BY <1>4, Constants DEF Link, TypeInv, TypeOK, PlaceOK
  <2>2. fat' \in [Cluster -> Cluster \cup {Free, Eoc}]
    BY <1>4, <2>1 DEF Link, TypeInv, TypeOK, PlaceOK
  <2> QED BY <1>4, <2>1, <2>2 DEF Link, TypeInv, TypeOK, PlaceOK, files
<1>5. CASE Connect
  <2>1. Returns("ok") /\ bgnCluster \in Cluster BY <1>5 DEF Connect, TypeInv, PlaceOK
  <2>2. allocSearchStart' \in 2 .. fatEnd + 1
    BY <1>5, <2>1, Constants DEF Connect, StartAfter, TypeInv, TypeOK
  <2>3. fat' \in [Cluster -> Cluster \cup {Free, Eoc}]
    BY <1>5, <2>1 DEF Connect, TypeInv, TypeOK
  <2>4. /\ firstCluster' \in [File -> Cluster \cup {0}]
        /\ curCluster' \in [File -> Cluster \cup {0}]
    BY <1>5, <2>1 DEF Connect, TypeInv, TypeOK
  <2> QED BY <1>5, <2>1, <2>2, <2>3, <2>4, ReturnsType DEF Connect, TypeInv, TypeOK, PlaceOK
<1>6. CASE AllocFails
  BY <1>6, TransferFailsType DEF AllocFails, TypeInv, TypeOK
<1>7. CASE FreeOne
  <2>1. cluster \in Cluster /\ fat[cluster] \in Cluster \cup {0}
    BY <1>7, Constants DEF FreeOne, TypeInv, TypeOK
  <2>2. fat' \in [Cluster -> Cluster \cup {Free, Eoc}]
    BY <1>7 DEF FreeOne, TypeInv, TypeOK
  <2> QED BY <1>7, <2>1, <2>2 DEF FreeOne, TypeInv, TypeOK, PlaceOK, files
<1>8. CASE FreeLast
  <2>1. fat' \in [Cluster -> Cluster \cup {Free, Eoc}]
    BY <1>8 DEF FreeLast, TypeInv, TypeOK
  <2>2. UNCHANGED <<allocSearchStart, curCluster, op, caller, count, torn>>
    BY <1>8 DEF FreeLast
  <2>3. CASE from = 0 /\ firstCluster' = [firstCluster EXCEPT ![caller] = 0] /\ Returns("ok")
    <3>1. firstCluster' \in [File -> Cluster \cup {0}] BY <2>3 DEF TypeInv, TypeOK
    <3> QED BY <2>1, <2>2, <2>3, <3>1, ReturnsType DEF TypeInv, TypeOK, PlaceOK
  <2>4. CASE /\ from # 0 /\ n' = n + 1 /\ pc' = "cut"
             /\ UNCHANGED <<firstCluster, from, bgnCluster, endCluster, cluster, result>>
    BY <2>1, <2>2, <2>4 DEF TypeInv, TypeOK, PlaceOK
  <2> QED BY <1>8, <2>3, <2>4 DEF FreeLast
<1>9. CASE Cut
  <2>1. Returns("ok") BY <1>9 DEF Cut
  <2>2. fat' \in [Cluster -> Cluster \cup {Free, Eoc}] BY <1>9 DEF Cut, TypeInv, TypeOK
  <2> QED BY <1>9, <2>1, <2>2, ReturnsType DEF Cut, TypeInv, TypeOK, PlaceOK, files
<1>10. CASE TruncateFails
  <2>1. torn' \in BOOLEAN BY <1>10 DEF TruncateFails, TypeInv, TypeOK
  <2> QED BY <1>10, <2>1, TransferFailsType DEF TruncateFails
<1>11. CASE SizeStep
  <2>1. UNCHANGED <<fat, allocSearchStart, firstCluster, curCluster, op, caller, torn>>
    BY <1>11 DEF SizeStep, Counts, volume, files
  <2>2. CASE Returns("ok") /\ count' = n + 1
    <3>1. count' \in Nat \ {0} BY <2>2 DEF TypeInv, TypeOK
    <3> QED BY <2>1, <2>2, <3>1, ReturnsType DEF TypeInv, TypeOK, PlaceOK
  <2>3. CASE /\ pc = "size" /\ Entry(cluster) # Eoc /\ cluster' = Entry(cluster) /\ n' = n + 1
             /\ UNCHANGED <<pc, count, from, bgnCluster, endCluster, result>>
    <3>1. cluster' \in Cluster \cup {0}
      BY <2>3, EntryType, Constants DEF TypeInv, TypeOK
    <3> QED BY <2>1, <2>3, <3>1 DEF TypeInv, TypeOK, PlaceOK
  <2> QED BY <1>11, <2>2, <2>3 DEF SizeStep, Counts
<1>12. CASE SizeFails
  BY <1>12, TransferFailsType DEF SizeFails, TypeInv, TypeOK
<1> QED BY <1>1, <1>2, <1>3, <1>4, <1>5, <1>6, <1>7, <1>8, <1>9, <1>10, <1>11, <1>12 DEF Step

LEMMA TypeInit ==
  ASSUME Init
  PROVE  TypeInv
<1>1. fat \in [Cluster -> Cluster \cup {Free, Eoc}]
  BY DEF Init
<1>2. /\ allocSearchStart \in 2 .. fatEnd + 1
      /\ bgnCluster \in 2 .. fatEnd + 1 /\ endCluster \in 2 .. fatEnd + 1
  BY Constants DEF Init
<1>3. /\ firstCluster \in [File -> Cluster \cup {0}]
      /\ curCluster \in [File -> Cluster \cup {0}]
  BY DEF Init
<1>4. /\ pc = "idle" /\ op = "none" /\ caller \in File /\ count = 1 /\ from = 0 /\ n = 0
      /\ cluster = 0 /\ result = "ok" /\ torn = FALSE
  BY DEF Init
<1>5. torn \in BOOLEAN BY <1>4, Zenon
<1>6. PlaceOK BY ONLY <1>4 DEF PlaceOK
<1>7. count \in Nat \ {0} /\ n \in Nat BY <1>4
<1> QED BY <1>1, <1>2, <1>3, <1>4, <1>5, <1>6, <1>7 DEF TypeInv, TypeOK

LEMMA TypeNext ==
  ASSUME TypeInv, [Next]_vars
  PROVE  TypeInv'
<1>1. CASE Call BY <1>1, TypeCall DEF Call
<1>2. CASE Step BY <1>2, TypeStep
<1>3. CASE UNCHANGED vars
  BY <1>3 DEF vars, volume, files, locals, TypeInv, TypeOK, PlaceOK
<1> QED BY <1>1, <1>2, <1>3 DEF Next

(***************************************************************************)
(* Space: what the search has seen.  It starts at Start and may wrap once; *)
(* no group of `count' free clusters is among those it has passed.         *)
(***************************************************************************)
Start == IF from # 0 THEN from + 1 ELSE allocSearchStart

\* no group of `count' free clusters from lo to hi - 1
NoGroup(lo, hi) ==
  \A b \in Cluster : b >= lo /\ b + count <= hi => \E c \in b .. b + count - 1 : fat[c] # Free

\* the search is at endCluster, on the lap that began at lo, and the clusters
\* from bgnCluster on are those since the last one in use
OnLap(lo) ==
  /\ lo <= bgnCluster
  /\ NoGroup(lo, endCluster)
  /\ bgnCluster > lo => fat[bgnCluster - 1] # Free

\* the search began at s and has not wrapped, or has once
OneLap(s)  == n = endCluster - s /\ OnLap(s)
TwoLaps(s) == n = (fatEnd + 1 - s) + (endCluster - 2) /\ NoGroup(s, fatEnd + 1) /\ OnLap(2)

Place == 2 .. fatEnd + 1

SearchInv ==
  pc = "search" =>
    /\ from # 0 => count = 1
    /\ n <= ClusterCount
    /\ bgnCluster <= endCluster /\ endCluster - bgnCluster < count
    /\ \E s \in Place : s = Start /\ (OneLap(s) \/ TwoLaps(s))

\* a single cluster found from the search start is the first free one
FoundInv ==
  /\ pc \in {"mark", "link"} /\ from = 0 /\ count = 1 =>
       \A c \in Cluster : c < bgnCluster => fat[c] # Free
  /\ pc = "link" => fat[cluster] # Free

FreeInv == pc = "free" => allocSearchStart = 2

SpaceInv == NothingFreeBelowStart /\ FullMeansFull /\ SearchInv /\ FoundInv /\ FreeInv

\* an action that ends a call, but not for want of space, and frees nothing
LEMMA SpaceReturns ==
  ASSUME SpaceInv, NEW r \in {"ok", "error"}, Returns(r), NothingFreeBelowStart'
  PROVE  SpaceInv'
BY DEF Returns, SpaceInv, FullMeansFull, SearchInv, FoundInv, FreeInv

LEMMA SpaceAlloc ==
  ASSUME TypeInv, SpaceInv, NEW o \in {"add", "create"}, NEW f \in File, NEW k \in Nat \ {0},
         NEW c \in Cluster \cup {0}, c # 0 => k = 1, AllocContiguous(o, f, k, c)
  PROVE  SpaceInv'
<1>1. /\ pc' = "search" /\ count' = k /\ from' = c /\ n' = 0
      /\ bgnCluster' = Start' /\ endCluster' = Start'
      /\ fat' = fat /\ allocSearchStart' = allocSearchStart
  BY DEF AllocContiguous, Start, volume
<1>2. Start' \in Int /\ k \in Nat /\ k >= 1
  BY <1>1, Constants DEF Start, TypeInv, TypeOK
<1>3. PICK s \in Place : s = Start'
  BY <1>1, Constants DEF Start, Place, TypeInv, TypeOK
<1>4. SearchInv'
  <2>0. s \in Int /\ k \in Nat /\ k >= 1 BY <1>2 DEF Place
  <2>1. \A b \in Cluster : ~(b >= s /\ b + k <= s)
    BY <1>2, <1>3, Constants DEF Place
  <2>2. NoGroup(s, endCluster)'
    BY <1>1, <1>3, <2>1 DEF NoGroup
  <2>3. OneLap(s)'
    <3>0. bgnCluster' = s /\ endCluster' = s /\ n' = 0 BY <1>1, <1>3
    <3>1. n' = endCluster' - s /\ s <= bgnCluster' /\ ~(bgnCluster' > s)
      BY ONLY <3>0, <2>0
    <3> QED BY <2>2, <3>1 DEF OneLap, OnLap
  <2>4. n' <= ClusterCount BY <1>1, Constants
  <2>5. bgnCluster' <= endCluster' /\ endCluster' - bgnCluster' < count'
    <3>0. bgnCluster' = s /\ endCluster' = s /\ count' = k BY <1>1, <1>3
    <3> QED BY ONLY <3>0, <2>0
  <2> QED BY <1>1, <1>3, <2>3, <2>4, <2>5 DEF SearchInv
<1>5. NothingFreeBelowStart'
  BY <1>1 DEF SpaceInv, NothingFreeBelowStart
<1> QED BY <1>1, <1>4, <1>5 DEF SpaceInv, FullMeansFull, FoundInv, FreeInv

\* One iteration, on the lap that began at lo: at e, with the free clusters
\* since b.
LEMMA ProbeOnLap ==
  ASSUME TypeInv, pc = "search",
         NEW lo \in Place, NEW e \in Cluster, NEW b \in Int,
         lo <= b, b <= e, e - b < count,
         NoGroup(lo, e), b > lo => fat[b - 1] # Free,
         fat' = fat, count' = count, endCluster' = e + 1,
         \/ fat[e] # Free /\ bgnCluster' = e + 1
         \/ fat[e] = Free /\ e - b + 1 # count /\ bgnCluster' = b
  PROVE  /\ OnLap(lo)'
         /\ bgnCluster' <= endCluster' /\ endCluster' - bgnCluster' < count'
<1>0. count \in Nat /\ count >= 1 /\ e \in Int /\ lo \in Int
  BY Constants DEF TypeInv, TypeOK, Place
<1>1. ASSUME NEW g \in Cluster, g >= lo, g + count <= e + 1
      PROVE  \E c \in g .. g + count - 1 : fat[c] # Free
  <2>0. g \in Int BY Constants
  <2>1. CASE g + count <= e
    BY <2>1, <1>1 DEF NoGroup
  <2>2. CASE g + count = e + 1 /\ fat[e] # Free
    <3>1. e \in g .. g + count - 1 BY <2>0, <2>2, <1>0
    <3> QED BY <3>1, <2>2
  <2>3. CASE g + count = e + 1 /\ fat[e] = Free
    <3>1. b - 1 \in g .. g + count - 1 /\ b > lo
      BY <2>0, <2>3, <1>0, <1>1
    <3> QED BY <3>1
  <2> QED BY <2>0, <1>0, <1>1, <2>1, <2>2, <2>3
<1>2. NoGroup(lo, endCluster)'
  BY <1>1 DEF NoGroup
<1>3. lo <= bgnCluster' /\ bgnCluster' <= endCluster' /\ endCluster' - bgnCluster' < count'
  BY <1>0
<1>4. bgnCluster' > lo => fat'[bgnCluster' - 1] # Free
  BY <1>0
<1> QED BY <1>2, <1>3, <1>4 DEF OnLap

LEMMA SpaceProbe ==
  ASSUME TypeInv, SpaceInv, Probe
  PROVE  SpaceInv'
<1>0. /\ pc = "search" /\ n < ClusterCount /\ n \in Nat
      /\ UNCHANGED <<fat, allocSearchStart, count, from>>
      /\ count \in Nat /\ count >= 1
      /\ endCluster \in Place /\ bgnCluster \in Place
  BY Constants DEF Probe, volume, TypeInv, TypeOK, Place
<1>1. PICK s \in Place : s = Start /\ (OneLap(s) \/ TwoLaps(s))
  BY <1>0 DEF SpaceInv, SearchInv
<1>2. /\ from # 0 => count = 1
      /\ bgnCluster <= endCluster /\ endCluster - bgnCluster < count
  BY <1>0 DEF SpaceInv, SearchInv
<1>3. PICK e \in Place, b \in Place :
        /\ e = IF Wraps THEN 2 ELSE endCluster
        /\ b = IF Wraps THEN 2 ELSE bgnCluster
  BY <1>0, Constants DEF Place
<1>4. \/ /\ fat[e] # Free
         /\ bgnCluster' = e + 1 /\ endCluster' = e + 1 /\ n' = n + 1 /\ pc' = "search"
      \/ /\ fat[e] = Free /\ e - b + 1 = count
         /\ bgnCluster' = b /\ endCluster' = e /\ pc' = "mark" /\ n' = n
      \/ /\ fat[e] = Free /\ e - b + 1 # count
         /\ bgnCluster' = b /\ endCluster' = e + 1 /\ n' = n + 1 /\ pc' = "search"
  BY <1>3 DEF Probe, LookedAt
\* the laps, once the wrap of this iteration is done
<1>5. /\ e \in Cluster /\ b <= e /\ e - b < count
      /\ \/ n = e - s /\ b >= s /\ NoGroup(s, e) /\ (b > s => fat[b - 1] # Free)
         \/ /\ n = (fatEnd + 1 - s) + (e - 2) /\ NoGroup(s, fatEnd + 1)
            /\ b >= 2 /\ NoGroup(2, e) /\ (b > 2 => fat[b - 1] # Free)
  <2>1. CASE ~Wraps
    <3>1. e = endCluster /\ b = bgnCluster BY <2>1, <1>3
    <3>2. e \in Cluster /\ b <= e /\ e - b < count
      BY <3>1, <2>1, <1>0, <1>2, Constants DEF Wraps, Place
    <3> QED BY <3>1, <3>2, <1>1 DEF OneLap, TwoLaps, OnLap
  <2>2. CASE Wraps
    <3>1. e = 2 /\ b = 2 /\ endCluster = fatEnd + 1
      BY <2>2, <1>0, <1>3, Constants DEF Wraps, Place
    <3>2. NoGroup(2, 2)
      <4>1. \A g \in Cluster : ~(g + count <= 2) BY <1>0, Constants
      <4> QED BY <4>1 DEF NoGroup
    <3>3. ~TwoLaps(s) BY <3>1, <1>0, Constants DEF TwoLaps, Place
    <3>4. n = fatEnd + 1 - s /\ NoGroup(s, fatEnd + 1)
      <4>1. n = endCluster - s /\ NoGroup(s, endCluster)
        BY <3>3, <1>1 DEF OneLap, OnLap
      <4>2. \A g \in Cluster : g >= s /\ g + count <= fatEnd + 1 => \E c \in g .. g + count - 1 : fat[c] # Free
        BY <4>1, <3>1 DEF NoGroup
      <4>3. n = fatEnd + 1 - s BY <4>1, <3>1, <1>0, Constants DEF Place
      <4> QED BY <4>2, <4>3 DEF NoGroup
    <3> QED BY <3>1, <3>2, <3>4, <1>0, Constants DEF Place
  <2> QED BY <2>1, <2>2
<1>6. NothingFreeBelowStart'
  BY <1>0 DEF SpaceInv, NothingFreeBelowStart
<1>7. CASE pc' = "search"
  <2>1. /\ endCluster' = e + 1 /\ n' = n + 1
        /\ \/ fat[e] # Free /\ bgnCluster' = e + 1
           \/ fat[e] = Free /\ e - b + 1 # count /\ bgnCluster' = b
    BY <1>4, <1>7
  <2>2. ASSUME n = e - s, b >= s, NoGroup(s, e), b > s => fat[b - 1] # Free
        PROVE  OneLap(s)' /\ bgnCluster' <= endCluster' /\ endCluster' - bgnCluster' < count'
    <3>1. /\ OnLap(s)'
          /\ bgnCluster' <= endCluster' /\ endCluster' - bgnCluster' < count'
      BY <2>1, <2>2, <1>0, <1>5, ProbeOnLap, Constants DEF Place
    <3>2. n' = endCluster' - s
      BY <2>1, <2>2, Constants DEF Place
    <3> QED BY <3>1, <3>2 DEF OneLap
  <2>3. ASSUME n = (fatEnd + 1 - s) + (e - 2), NoGroup(s, fatEnd + 1),
               b >= 2, NoGroup(2, e), b > 2 => fat[b - 1] # Free
        PROVE  TwoLaps(s)' /\ bgnCluster' <= endCluster' /\ endCluster' - bgnCluster' < count'
    <3>1. /\ OnLap(2)'
          /\ bgnCluster' <= endCluster' /\ endCluster' - bgnCluster' < count'
      <4>1. 2 \in Place BY Constants DEF Place
      <4> QED BY <4>1, <2>1, <2>3, <1>0, <1>5, ProbeOnLap, Constants DEF Place
    <3>2. n' = (fatEnd + 1 - s) + (endCluster' - 2)
      BY <2>1, <2>3, Constants DEF Place
    <3>3. NoGroup(s, fatEnd + 1)'
      BY <2>3, <1>0 DEF NoGroup
    <3> QED BY <3>1, <3>2, <3>3 DEF TwoLaps
  <2>4. /\ OneLap(s)' \/ TwoLaps(s)'
        /\ bgnCluster' <= endCluster' /\ endCluster' - bgnCluster' < count'
    BY <2>2, <2>3, <1>5
  <2>5. s = Start' BY <1>0, <1>1 DEF Start
  <2>6. n' <= ClusterCount BY <2>1, <1>0, Constants
  <2>7. SearchInv'
    BY <2>4, <2>5, <2>6, <1>0, <1>2 DEF SearchInv
  <2> QED BY <1>6, <1>7, <2>7 DEF SpaceInv, FullMeansFull, FoundInv, FreeInv
<1>8. CASE pc' = "mark"
  <2>1. e - b + 1 = count /\ bgnCluster' = b
    BY <1>4, <1>8
  <2>2. ASSUME from = 0, count = 1, NEW c \in Cluster, c < b
        PROVE  fat[c] # Free
    <3>1. b = e /\ s = allocSearchStart BY <2>1, <2>2, <1>1, Constants DEF Place, Start
    <3>2. CASE c < s
      BY <3>1, <3>2 DEF SpaceInv, NothingFreeBelowStart
    <3>3. CASE c >= s /\ NoGroup(s, e)
      <4>1. c + count <= e /\ c .. c + count - 1 = {c} BY <3>1, <2>2, Constants DEF Place
      <4> QED BY <4>1, <3>3 DEF NoGroup
    <3>4. CASE NoGroup(2, e)
      <4>1. c + count <= e /\ c .. c + count - 1 = {c} /\ c >= 2 BY <3>1, <2>2, Constants DEF Place
      <4> QED BY <4>1, <3>4 DEF NoGroup
    <3> QED BY <3>2, <3>3, <3>4, <1>5, Constants DEF Place
  <2>3. FoundInv'
    BY <2>1, <2>2, <1>0, <1>8 DEF FoundInv
  <2> QED BY <1>6, <1>8, <2>3 DEF SpaceInv, FullMeansFull, SearchInv, FreeInv
<1> QED BY <1>4, <1>7, <1>8

LEMMA SpaceGiveUp ==
  ASSUME TypeInv, SpaceInv, GiveUp
  PROVE  SpaceInv'
<1>0. /\ pc = "search" /\ n = ClusterCount
      /\ UNCHANGED <<fat, allocSearchStart, count>>
      /\ pc' = "idle" /\ count \in Nat /\ count >= 1
      /\ endCluster \in Int /\ endCluster <= fatEnd + 1
  BY Constants DEF GiveUp, Returns, volume, SpaceInv, SearchInv, TypeInv, TypeOK
<1>1. PICK s \in Place : s = Start /\ (OneLap(s) \/ TwoLaps(s))
  BY <1>0 DEF SpaceInv, SearchInv
<1>2. s \in Int /\ s >= 2 BY Constants DEF Place
<1>3. ASSUME NEW b \in Cluster, b + count - 1 \in Cluster
      PROVE  \E c \in b .. b + count - 1 : fat[c] # Free
  <2>0. b \in Int /\ b >= 2 /\ b + count <= fatEnd + 1 BY <1>0, <1>3, Constants
  \* not wrapped: the lap was the whole volume
  <2>1. CASE OneLap(s)
    <3>1. n = endCluster - s /\ NoGroup(s, endCluster) BY <2>1 DEF OneLap, OnLap
    <3>2. s = 2 /\ endCluster = fatEnd + 1 BY <3>1, <1>0, <1>2, Constants
    <3> QED BY <3>1, <3>2, <2>0, <1>3 DEF NoGroup
  \* wrapped: back at the start, and only a group across it was not looked at
  <2>2. CASE TwoLaps(s)
    <3>1. /\ n = (fatEnd + 1 - s) + (endCluster - 2)
          /\ NoGroup(s, fatEnd + 1) /\ NoGroup(2, endCluster)
      BY <2>2 DEF TwoLaps, OnLap
    <3>2. endCluster = s BY <3>1, <1>0, <1>2, Constants
    <3>3. CASE b >= s
      BY <3>1, <3>3, <2>0, <1>3 DEF NoGroup
    <3>4. CASE b + count <= s
      BY <3>1, <3>2, <3>4, <2>0, <1>3 DEF NoGroup
    <3>5. CASE b < s /\ b + count > s
      <4>1. count # 1 /\ s - 1 \in b .. b + count - 1 BY <3>5, <2>0, <1>0, <1>2
      <4>2. s - 1 \in Cluster BY <3>5, <2>0, <1>2, Constants DEF Place
      <4>3. s = allocSearchStart
        BY <4>1, <1>0, <1>1 DEF SpaceInv, SearchInv, Start
      <4>4. fat[s - 1] # Free
        BY <4>2, <4>3, <1>2 DEF SpaceInv, NothingFreeBelowStart
      <4> QED BY <4>1, <4>4
    <3> QED BY <3>3, <3>4, <3>5, <2>0, <1>0, <1>2
  <2> QED BY <1>1, <2>1, <2>2
<1>4. FullMeansFull'
  BY <1>0, <1>3 DEF FullMeansFull
<1> QED BY <1>0, <1>4 DEF SpaceInv, NothingFreeBelowStart, SearchInv, FoundInv, FreeInv

\* a step that frees nothing and leaves the search start
LEMMA SpaceTaken ==
  ASSUME NothingFreeBelowStart, allocSearchStart' = allocSearchStart,
         \A c \in Cluster : fat[c] # Free => fat'[c] # Free
  PROVE  NothingFreeBelowStart'
BY DEF NothingFreeBelowStart

LEMMA SpaceMark ==
  ASSUME TypeInv, SpaceInv, Mark
  PROVE  SpaceInv'
<1>1. fat' = [fat EXCEPT ![endCluster] = Eoc] /\ endCluster \in Cluster /\ cluster' = endCluster
  BY DEF Mark, TypeInv, PlaceOK
<1>2. /\ \A c \in Cluster : fat[c] # Free => fat'[c] # Free
      /\ fat'[cluster'] # Free
  BY <1>1, Constants DEF TypeInv, TypeOK
<1>3. NothingFreeBelowStart'
  BY <1>2, SpaceTaken DEF Mark, SpaceInv
<1> QED BY <1>2, <1>3 DEF Mark, SpaceInv, FullMeansFull, SearchInv, FoundInv, FreeInv

LEMMA SpaceLink ==
  ASSUME TypeInv, SpaceInv, Link
  PROVE  SpaceInv'
<1>1. /\ fat' = [fat EXCEPT ![cluster - 1] = cluster]
      /\ cluster \in Cluster /\ cluster - 1 \in Cluster /\ cluster' = cluster - 1
  BY Constants DEF Link, TypeInv, TypeOK, PlaceOK
<1>2. /\ \A c \in Cluster : fat[c] # Free => fat'[c] # Free
      /\ fat'[cluster'] # Free
  BY <1>1, Constants DEF TypeInv, TypeOK
<1>3. NothingFreeBelowStart'
  BY <1>2, SpaceTaken DEF Link, SpaceInv
<1>4. /\ pc = "link" /\ UNCHANGED <<pc, from, count, bgnCluster>> BY DEF Link
<1>5. FoundInv'
  BY <1>2, <1>4 DEF SpaceInv, FoundInv
<1> QED BY <1>3, <1>4, <1>5 DEF SpaceInv, FullMeansFull, SearchInv, FreeInv

LEMMA SpaceConnect ==
  ASSUME TypeInv, SpaceInv, Connect
  PROVE  SpaceInv'
<1>1. /\ pc = "link" /\ cluster = bgnCluster /\ bgnCluster \in Cluster
      /\ allocSearchStart' = StartAfter /\ Returns("ok")
      /\ fat' = IF from = 0 THEN fat ELSE [fat EXCEPT ![from] = bgnCluster]
  BY DEF Connect, TypeInv, PlaceOK
<1>2. \A c \in Cluster : fat[c] # Free => fat'[c] # Free
  BY <1>1, Constants DEF TypeInv, TypeOK
<1>3. CASE from = 0 /\ count = 1
  <2>1. ASSUME NEW c \in Cluster, c < bgnCluster + 1 PROVE fat[c] # Free
    <3>1. c = bgnCluster \/ c < bgnCluster BY <1>1, <2>1, Constants
    <3> QED BY <3>1, <1>1, <1>3 DEF SpaceInv, FoundInv
  <2>2. NothingFreeBelowStart'
    BY <2>1, <1>1, <1>3 DEF StartAfter, NothingFreeBelowStart
  <2> QED BY <2>2, <1>1, SpaceReturns
<1>4. CASE ~(from = 0 /\ count = 1)
  <2>1. allocSearchStart' = allocSearchStart BY <1>1, <1>4 DEF StartAfter
  <2>2. NothingFreeBelowStart' BY <2>1, <1>2, SpaceTaken DEF SpaceInv
  <2> QED BY <2>2, <1>1, SpaceReturns
<1> QED BY <1>3, <1>4

\* the start is back at the first cluster while a chain is freed
LEMMA SpaceFree ==
  ASSUME TypeInv, SpaceInv, FreeOne \/ FreeLast
  PROVE  SpaceInv'
<1>1. allocSearchStart' = 2
  BY DEF FreeOne, FreeLast, SpaceInv, FreeInv
<1>2. NothingFreeBelowStart'
  BY <1>1, Constants DEF NothingFreeBelowStart
<1>3. CASE FreeOne
  BY <1>1, <1>2, <1>3 DEF FreeOne, SpaceInv, FullMeansFull, SearchInv, FoundInv, FreeInv
<1>4. CASE FreeLast /\ Returns("ok")
  BY <1>2, <1>4, SpaceReturns
<1>5. CASE FreeLast /\ pc' = "cut"
  BY <1>2, <1>5 DEF SpaceInv, FullMeansFull, SearchInv, FoundInv, FreeInv
<1> QED BY <1>3, <1>4, <1>5 DEF FreeLast

LEMMA SpaceCut ==
  ASSUME TypeInv, SpaceInv, Cut
  PROVE  SpaceInv'
<1>1. fat' = [fat EXCEPT ![from] = Eoc] /\ Returns("ok") /\ allocSearchStart' = allocSearchStart
  BY DEF Cut
<1>2. \A c \in Cluster : fat[c] # Free => fat'[c] # Free
  BY <1>1, Constants DEF TypeInv, TypeOK
<1>3. NothingFreeBelowStart' BY <1>1, <1>2, SpaceTaken DEF SpaceInv
<1> QED BY <1>1, <1>3, SpaceReturns

\* a step that ends a call and leaves the volume as it is
LEMMA SpaceLeaves ==
  ASSUME SpaceInv, UNCHANGED volume, NEW r \in {"ok", "error"}, Returns(r)
  PROVE  SpaceInv'
<1>1. NothingFreeBelowStart' BY DEF SpaceInv, NothingFreeBelowStart, volume
<1> QED BY <1>1, SpaceReturns

LEMMA SpaceStep ==
  ASSUME TypeInv, SpaceInv, Step
  PROVE  SpaceInv'
<1>1. CASE TransferFails
  BY <1>1, SpaceLeaves DEF TransferFails
<1>2. CASE SizeStep
  <2>1. CASE Returns("ok")
    BY <1>2, <2>1, SpaceLeaves DEF SizeStep, Counts
  <2>2. CASE pc = "size" /\ pc' = "size"
    BY <1>2, <2>2 DEF SizeStep, Counts, volume, SpaceInv, NothingFreeBelowStart, FullMeansFull,
         SearchInv, FoundInv, FreeInv
  <2> QED BY <1>2, <2>1, <2>2 DEF SizeStep, Counts
<1> QED BY <1>1, <1>2, SpaceProbe, SpaceGiveUp, SpaceMark, SpaceLink, SpaceConnect, SpaceFree, SpaceCut
         DEF Step, AllocFails, TruncateFails, SizeFails

LEMMA SpaceCall ==
  ASSUME TypeInv, SpaceInv, Call
  PROVE  SpaceInv'
<1>1. ASSUME NEW f \in File, NEW c, MoveTo(f, c) PROVE SpaceInv'
  BY <1>1, SpaceLeaves DEF MoveTo
<1>2. ASSUME NEW f \in File, FailsAtOnce(f) PROVE SpaceInv'
  BY <1>2, SpaceLeaves DEF FailsAtOnce
<1>3. ASSUME NEW f \in File, NEW c, NEW keep, FreeChain(f, c, keep) PROVE SpaceInv'
  <2>1. allocSearchStart' = 2 /\ pc' = "free" BY <1>3 DEF FreeChain
  <2>2. NothingFreeBelowStart' BY <2>1, Constants DEF NothingFreeBelowStart
  <2> QED BY <2>1, <2>2 DEF SpaceInv, FullMeansFull, SearchInv, FoundInv, FreeInv
<1>4. ASSUME NEW f \in File, ChainSize(f) PROVE SpaceInv'
  BY <1>4 DEF ChainSize, volume, SpaceInv, NothingFreeBelowStart, FullMeansFull, SearchInv, FoundInv, FreeInv
<1>5. ASSUME NEW f \in File, NextCluster(f) PROVE SpaceInv'
  <2>1. CASE AllocContiguous("add", f, 1, 0)
    BY <2>1, SpaceAlloc
  <2>2. CASE AllocContiguous("add", f, 1, curCluster[f])
    <3>1. curCluster[f] \in Cluster \cup {0} BY DEF TypeInv, TypeOK
    <3> QED BY <2>2, <3>1, SpaceAlloc
  <2> QED BY <1>1, <1>2, <1>5, <2>1, <2>2 DEF NextCluster
<1>6. ASSUME NEW f \in File, NEW k \in 1 .. MaxGroup, CreateContiguous(f, k) PROVE SpaceInv'
  <2>1. k \in Nat \ {0} BY CountAssumption
  <2>2. AllocContiguous("create", f, k, 0) BY <1>6 DEF CreateContiguous
  <2> QED BY <2>1, <2>2, SpaceAlloc
<1>7. ASSUME NEW f \in File, Rewind(f) PROVE SpaceInv'
  BY <1>1, <1>7 DEF Rewind
<1>8. ASSUME NEW f \in File, TruncateToZero(f) PROVE SpaceInv'
  BY <1>3, <1>8 DEF TruncateToZero
<1>9. ASSUME NEW f \in File, TruncateHere(f) PROVE SpaceInv'
  BY <1>1, <1>2, <1>3, <1>9 DEF TruncateHere
<1> QED BY <1>4, <1>5, <1>6, <1>7, <1>8, <1>9 DEF Call

LEMMA SpaceInit ==
  ASSUME Init
  PROVE  SpaceInv
<1>1. pc = "idle" /\ result = "ok" /\ allocSearchStart = 2 BY DEF Init
<1> QED BY <1>1, Constants DEF SpaceInv, NothingFreeBelowStart, FullMeansFull, SearchInv, FoundInv, FreeInv

LEMMA SpaceNext ==
  ASSUME TypeInv, SpaceInv, [Next]_vars
  PROVE  SpaceInv'
<1>1. CASE UNCHANGED vars
  BY <1>1 DEF vars, volume, files, locals, SpaceInv, NothingFreeBelowStart, FullMeansFull, SearchInv,
     FoundInv, FreeInv, OneLap, TwoLaps, OnLap, NoGroup, Start
<1> QED BY <1>1, SpaceCall, SpaceStep DEF Next

(***************************************************************************)
(* Links: the group being taken is free and nothing points into it, and    *)
(* only the file whose chain is being freed points to what is free.        *)
(***************************************************************************)
GroupFree ==
  /\ pc = "search" => \A c \in Cluster : bgnCluster <= c /\ c < endCluster => fat[c] = Free
  /\ pc = "mark" => \A c \in Cluster : bgnCluster <= c /\ c <= endCluster => fat[c] = Free
  /\ pc = "link" => \A c \in Cluster : bgnCluster <= c /\ c < cluster => fat[c] = Free

\* the entry and the file that still point to what has been freed
FreedAfter(c) == pc \in {"free", "cut"} /\ n > 0 /\ c = from
FreedAll(f)   == pc = "free" /\ n > 0 /\ from = 0 /\ f = caller

LinkedOnce     == \A c, d \in Cluster : fat[c] = fat[d] /\ fat[c] \in Cluster => c = d
FirstNotLinked == \A f \in File, c \in Cluster : fat[c] = firstCluster[f] => fat[c] = Free
FirstOfOne     == \A f, g \in File : firstCluster[f] = firstCluster[g] /\ firstCluster[f] # 0 => f = g
LinkedInUse    == \A c \in Cluster : fat[c] \in Cluster => fat[fat[c]] # Free \/ FreedAfter(c)
FirstInUse     == \A f \in File : firstCluster[f] # 0 => fat[firstCluster[f]] # Free \/ FreedAll(f)
CurrentHasFirst == \A f \in File : curCluster[f] # 0 => firstCluster[f] # 0

\* the chain being built is no one's yet
Taking ==
  /\ pc \in {"search", "mark", "link"} /\ from # 0 => firstCluster[caller] # 0
  /\ pc = "link" => /\ \A c \in Cluster : fat[c] # cluster
                    /\ \A f \in File : firstCluster[f] # cluster

\* the rest of the chain being freed is the caller's alone
Freeing ==
  /\ pc = "free" =>
       /\ from = 0 => curCluster[caller] = 0
       /\ cluster # 0 => /\ \A c \in Cluster : fat[c] = cluster => c = from
                         /\ \A f \in File : firstCluster[f] = cluster => f = caller /\ from = 0 /\ n = 0
  /\ pc = "cut" => n > 0

Links ==
  /\ LinkedOnce /\ FirstNotLinked /\ FirstOfOne /\ LinkedInUse /\ FirstInUse /\ CurrentHasFirst
  /\ Taking /\ Freeing

LinkInv == GroupFree /\ (~torn => Links)

\* a step that leaves the chains as they are, and is not one of freeing or taking
LEMMA LinksLeft ==
  ASSUME Links, UNCHANGED <<fat, firstCluster>>, CurrentHasFirst',
         pc \notin {"free", "cut"} \/ n = 0, pc' \in {"idle", "search", "mark", "size"},
         pc' \in {"search", "mark"} /\ from' # 0 => firstCluster[caller'] # 0
  PROVE  Links'
<1>1. LinkedOnce' /\ FirstNotLinked' /\ FirstOfOne'
  BY DEF Links, LinkedOnce, FirstNotLinked, FirstOfOne
<1>2. \A c : ~FreedAfter(c)
  BY DEF FreedAfter, Links, Freeing
<1>3. \A f : ~FreedAll(f)
  BY DEF FreedAll
<1>4. LinkedInUse' BY <1>2 DEF Links, LinkedInUse
<1>5. FirstInUse' BY <1>3 DEF Links, FirstInUse
<1>6. Taking' /\ Freeing' BY DEF Taking, Freeing
<1> QED BY <1>1, <1>4, <1>5, <1>6 DEF Links

\* a call that ends and leaves the chains as they are
LEMMA LinksReturn ==
  ASSUME LinkInv, UNCHANGED <<fat, firstCluster>>, NEW r, Returns(r),
         ~torn' => ~torn /\ CurrentHasFirst' /\ (pc \notin {"free", "cut"} \/ n = 0)
  PROVE  LinkInv'
<1>1. pc' = "idle" BY DEF Returns
<1>2. GroupFree' BY <1>1 DEF GroupFree
<1>3. ASSUME ~torn' PROVE Links'
  BY <1>1, <1>3, LinksLeft DEF LinkInv
<1> QED BY <1>2, <1>3 DEF LinkInv

LEMMA LinkAlloc ==
  ASSUME TypeInv, LinkInv, pc = "idle", NEW o \in {"add", "create"}, NEW f \in File, NEW k,
         NEW c \in Cluster \cup {0}, c # 0 => c = curCluster[f], AllocContiguous(o, f, k, c)
  PROVE  LinkInv'
<1>1. /\ pc' = "search" /\ bgnCluster' = endCluster' /\ from' = c /\ caller' = f
      /\ UNCHANGED <<fat, firstCluster, curCluster, torn>>
  BY DEF AllocContiguous, volume, files
<1>2. bgnCluster' \in Int
  BY Constants DEF AllocContiguous, TypeInv, TypeOK
<1>3. GroupFree'
  BY <1>1, <1>2, Constants DEF GroupFree
<1>4. ASSUME ~torn PROVE Links'
  <2>1. CurrentHasFirst /\ CurrentHasFirst'
    BY <1>1, <1>4 DEF LinkInv, Links, CurrentHasFirst
  <2>2. from' # 0 => firstCluster[caller'] # 0
    BY <1>1, <2>1 DEF CurrentHasFirst
  <2> QED BY <1>1, <1>4, <2>1, <2>2, LinksLeft DEF LinkInv
<1> QED BY <1>1, <1>3, <1>4 DEF LinkInv

LEMMA LinkProbe ==
  ASSUME TypeInv, SpaceInv, LinkInv, Probe
  PROVE  LinkInv'
<1>0. /\ pc = "search" /\ UNCHANGED <<fat, firstCluster, curCluster, from, caller, torn>>
      /\ endCluster \in Place /\ bgnCluster \in Place /\ bgnCluster <= endCluster
  BY DEF Probe, volume, files, SpaceInv, SearchInv, TypeInv, TypeOK, Place
<1>1. PICK e \in Place, b \in Place :
        /\ e = IF Wraps THEN 2 ELSE endCluster
        /\ b = IF Wraps THEN 2 ELSE bgnCluster
  BY <1>0, Constants DEF Place
<1>2. \/ bgnCluster' = e + 1 /\ endCluster' = e + 1 /\ pc' = "search"
      \/ fat[e] = Free /\ bgnCluster' = b /\ endCluster' = e /\ pc' = "mark"
      \/ fat[e] = Free /\ bgnCluster' = b /\ endCluster' = e + 1 /\ pc' = "search"
  BY <1>0, <1>1 DEF Probe
<1>3. \A c \in Cluster : b <= c /\ c < e => fat[c] = Free
  <2>1. CASE Wraps
    BY <2>1, <1>1, Constants
  <2>2. CASE ~Wraps
    BY <2>2, <1>0, <1>1 DEF LinkInv, GroupFree
  <2> QED BY <2>1, <2>2
<1>4. GroupFree'
  <2>0. e \in Int /\ b \in Int BY DEF Place
  <2>1. CASE bgnCluster' = e + 1 /\ endCluster' = e + 1 /\ pc' = "search"
    BY <2>0, <2>1, Constants DEF GroupFree
  <2>2. CASE fat[e] = Free /\ bgnCluster' = b /\ endCluster' = e /\ pc' = "mark"
    <3>1. \A c \in Cluster : b <= c /\ c <= e => fat[c] = Free
      BY <2>0, <2>2, <1>3, Constants
    <3> QED BY <2>2, <3>1, <1>0 DEF GroupFree
  <2>3. CASE fat[e] = Free /\ bgnCluster' = b /\ endCluster' = e + 1 /\ pc' = "search"
    <3>1. \A c \in Cluster : b <= c /\ c < e + 1 => fat[c] = Free
      BY <2>0, <2>3, <1>3, Constants
    <3> QED BY <2>3, <3>1, <1>0 DEF GroupFree
  <2> QED BY <1>2, <2>1, <2>2, <2>3
<1>5. ASSUME ~torn PROVE Links'
  <2>1. CurrentHasFirst' /\ (from' # 0 => firstCluster[caller'] # 0)
    BY <1>0, <1>5 DEF LinkInv, Links, CurrentHasFirst, Taking
  <2> QED BY <1>0, <1>2, <1>5, <2>1, LinksLeft DEF LinkInv
<1> QED BY <1>0, <1>4, <1>5 DEF LinkInv

LEMMA LinkMark ==
  ASSUME TypeInv, LinkInv, Mark
  PROVE  LinkInv'
<1>1. /\ pc = "mark" /\ pc' = "link" /\ endCluster \in Cluster /\ cluster' = endCluster
      /\ fat' = [fat EXCEPT ![endCluster] = Eoc]
      /\ UNCHANGED <<firstCluster, curCluster, from, caller, n, bgnCluster, torn>>
  BY DEF Mark, TypeInv, PlaceOK, files
<1>2. fat[endCluster] = Free
  BY <1>1, Constants DEF LinkInv, GroupFree, TypeInv, PlaceOK
<1>3. /\ fat'[endCluster] = Eoc
      /\ \A c \in Cluster : c # endCluster => fat'[c] = fat[c]
  BY <1>1 DEF TypeInv, TypeOK
<1>4. GroupFree'
  <2>1. \A c \in Cluster : bgnCluster <= c /\ c < endCluster => fat[c] = Free
    BY <1>1, Constants DEF LinkInv, GroupFree
  <2>2. \A c \in Cluster : bgnCluster <= c /\ c < endCluster => fat'[c] = Free
    BY <1>1, <1>3, <2>1, Constants
  <2> QED BY <1>1, <2>2 DEF GroupFree
<1>5. ASSUME ~torn PROVE Links'
  <2>0. Links BY <1>5 DEF LinkInv
  <2>1. LinkedOnce' /\ FirstNotLinked' /\ FirstOfOne' /\ CurrentHasFirst'
    BY <2>0, <1>1, <1>3, Constants DEF Links, LinkedOnce, FirstNotLinked, FirstOfOne, CurrentHasFirst,
       TypeInv, TypeOK
  <2>2. /\ \A c \in Cluster : fat[c] \in Cluster => fat[fat[c]] # Free
        /\ \A f \in File : firstCluster[f] # 0 => fat[firstCluster[f]] # Free
    BY <2>0, <1>1 DEF Links, LinkedInUse, FirstInUse, FreedAfter, FreedAll
  <2>3. LinkedInUse' /\ FirstInUse'
    BY <2>2, <1>1, <1>3, Constants DEF LinkedInUse, FirstInUse, TypeInv, TypeOK
  <2>4. Taking'
    BY <2>0, <2>2, <1>1, <1>2, <1>3, Constants DEF Links, Taking
  <2>5. Freeing' BY <1>1 DEF Freeing
  <2> QED BY <2>1, <2>3, <2>4, <2>5 DEF Links
<1> QED BY <1>1, <1>4, <1>5 DEF LinkInv

LEMMA LinkLink ==
  ASSUME TypeInv, SpaceInv, LinkInv, Link
  PROVE  LinkInv'
<1>1. /\ pc = "link" /\ pc' = "link" /\ cluster \in Cluster /\ cluster' = cluster - 1
      /\ cluster - 1 \in Cluster /\ bgnCluster <= cluster - 1
      /\ fat' = [fat EXCEPT ![cluster - 1] = cluster]
      /\ UNCHANGED <<firstCluster, curCluster, from, caller, n, bgnCluster, torn>>
  BY Constants DEF Link, TypeInv, TypeOK, PlaceOK, files
<1>2. fat[cluster - 1] = Free /\ fat[cluster] # Free /\ cluster - 1 # cluster
  BY <1>1, Constants DEF LinkInv, GroupFree, SpaceInv, FoundInv
<1>3. /\ fat'[cluster - 1] = cluster
      /\ \A c \in Cluster : c # cluster - 1 => fat'[c] = fat[c]
  BY <1>1 DEF TypeInv, TypeOK
<1>4. GroupFree'
  <2>1. \A c \in Cluster : bgnCluster <= c /\ c < cluster => fat[c] = Free
    BY <1>1 DEF LinkInv, GroupFree
  <2>2. \A c \in Cluster : bgnCluster <= c /\ c < cluster - 1 => fat'[c] = Free
    BY <1>1, <1>3, <2>1, Constants
  <2> QED BY <1>1, <2>2 DEF GroupFree
<1>5. ASSUME ~torn PROVE Links'
  <2>0. Links BY <1>5 DEF LinkInv
  <2>1. /\ \A c \in Cluster : fat[c] # cluster
        /\ \A f \in File : firstCluster[f] # cluster
    BY <2>0, <1>1 DEF Links, Taking
  <2>2. LinkedOnce' /\ FirstNotLinked' /\ FirstOfOne' /\ CurrentHasFirst'
    BY <2>0, <2>1, <1>1, <1>3, Constants DEF Links, LinkedOnce, FirstNotLinked, FirstOfOne, CurrentHasFirst,
       TypeInv, TypeOK
  <2>3. /\ \A c \in Cluster : fat[c] \in Cluster => fat[fat[c]] # Free
        /\ \A f \in File : firstCluster[f] # 0 => fat[firstCluster[f]] # Free
    BY <2>0, <1>1 DEF Links, LinkedInUse, FirstInUse, FreedAfter, FreedAll
  <2>4. /\ \A c \in Cluster : fat[c] # Free => fat'[c] # Free
        /\ fat'[cluster] # Free
    BY <1>1, <1>2, <1>3, Constants
  <2>5. LinkedInUse' /\ FirstInUse'
    BY <2>3, <2>4, <1>1, <1>3 DEF LinkedInUse, FirstInUse, TypeInv, TypeOK
  <2>6. Taking'
    <3>1. \A c \in Cluster : fat'[c] # cluster - 1
      BY <2>3, <1>1, <1>2, <1>3
    <3>2. \A f \in File : firstCluster[f] # cluster - 1
      BY <2>3, <1>1, <1>2, Constants
    <3> QED BY <2>0, <3>1, <3>2, <1>1 DEF Links, Taking
  <2>7. Freeing' BY <1>1 DEF Freeing
  <2> QED BY <2>2, <2>5, <2>6, <2>7 DEF Links
<1> QED BY <1>1, <1>4, <1>5 DEF LinkInv

LEMMA LinkConnect ==
  ASSUME TypeInv, SpaceInv, LinkInv, Connect
  PROVE  LinkInv'
<1>1. /\ pc = "link" /\ pc' = "idle" /\ bgnCluster \in Cluster /\ cluster = bgnCluster
      /\ fat' = IF from = 0 THEN fat ELSE [fat EXCEPT ![from] = bgnCluster]
      /\ firstCluster' = IF firstCluster[caller] = 0
                         THEN [firstCluster EXCEPT ![caller] = bgnCluster] ELSE firstCluster
      /\ curCluster' = IF op = "create" THEN curCluster ELSE [curCluster EXCEPT ![caller] = bgnCluster]
      /\ torn' = torn
  BY DEF Connect, Returns, TypeInv, PlaceOK
<1>2. fat[bgnCluster] # Free
  BY <1>1 DEF SpaceInv, FoundInv
<1>3. GroupFree' BY <1>1 DEF GroupFree
<1>4. ASSUME ~torn PROVE Links'
  <2>0. Links BY <1>4 DEF LinkInv
  \* nothing points to the group, and all that is pointed to is in use
  <2>1. /\ \A c \in Cluster : fat[c] # bgnCluster
        /\ \A f \in File : firstCluster[f] # bgnCluster
        /\ from # 0 => firstCluster[caller] # 0
    BY <2>0, <1>1 DEF Links, Taking
  <2>2. /\ \A c \in Cluster : fat[c] \in Cluster => fat[fat[c]] # Free
        /\ \A f \in File : firstCluster[f] # 0 => fat[firstCluster[f]] # Free
    BY <2>0, <1>1 DEF Links, LinkedInUse, FirstInUse, FreedAfter, FreedAll
  <2>3. CurrentHasFirst'
    BY <2>0, <1>1, Constants DEF Links, CurrentHasFirst, TypeInv, TypeOK
  <2>4. Taking' /\ Freeing' BY <1>1 DEF Taking, Freeing
  <2>5. CASE from = 0
    <3>1. fat' = fat BY <2>5, <1>1
    <3>2. \A f \in File : \/ firstCluster'[f] = firstCluster[f]
                          \/ f = caller /\ firstCluster'[f] = bgnCluster
      BY <1>1 DEF TypeInv, TypeOK
    <3>3. LinkedOnce' /\ LinkedInUse'
      BY <2>0, <2>2, <3>1 DEF Links, LinkedOnce, LinkedInUse
    <3>4. FirstNotLinked' /\ FirstOfOne'
      BY <2>0, <2>1, <3>1, <3>2 DEF Links, FirstNotLinked, FirstOfOne
    <3>5. FirstInUse'
      BY <2>2, <1>2, <3>1, <3>2 DEF FirstInUse
    <3> QED BY <2>3, <2>4, <3>3, <3>4, <3>5 DEF Links
  <2>6. CASE from # 0
    <3>1. /\ from \in Cluster /\ firstCluster' = firstCluster
          /\ fat'[from] = bgnCluster
          /\ \A c \in Cluster : c # from => fat'[c] = fat[c]
      BY <2>1, <2>6, <1>1 DEF TypeInv, TypeOK
    <3>2. \A c \in Cluster : fat[c] # Free => fat'[c] # Free
      BY <3>1, <1>1, Constants
    <3>3. LinkedOnce' /\ FirstNotLinked' /\ FirstOfOne'
      BY <2>0, <2>1, <3>1 DEF Links, LinkedOnce, FirstNotLinked, FirstOfOne
    <3>4. LinkedInUse' /\ FirstInUse'
      <4>1. ASSUME NEW c \in Cluster, fat'[c] \in Cluster PROVE fat'[fat'[c]] # Free
        <5>1. CASE c = from BY <5>1, <3>1, <3>2, <1>1, <1>2
        <5>2. CASE c # from
          <6>1. fat'[c] = fat[c] BY <5>2, <3>1
          <6> QED BY <6>1, <4>1, <2>2, <3>2
        <5> QED BY <5>1, <5>2
      <4>2. ASSUME NEW f \in File, firstCluster[f] # 0 PROVE fat'[firstCluster[f]] # Free
        <5>1. firstCluster[f] \in Cluster BY <4>2 DEF TypeInv, TypeOK
        <5> QED BY <5>1, <4>2, <2>2, <3>2
      <4> QED BY <4>1, <4>2, <3>1 DEF LinkedInUse, FirstInUse
    <3> QED BY <2>3, <2>4, <3>3, <3>4 DEF Links
  <2> QED BY <2>5, <2>6
<1> QED BY <1>1, <1>3, <1>4 DEF LinkInv

\* what is still to be freed is the caller's alone when freeing begins
LEMMA LinkFreeChain ==
  ASSUME TypeInv, LinkInv, pc = "idle", NEW f \in File, NEW c \in Cluster \cup {0},
         NEW keep \in Cluster \cup {0}, FreeChain(f, c, keep),
         \/ /\ keep = 0 /\ c = firstCluster[f]
            /\ curCluster' = [curCluster EXCEPT ![f] = 0]
         \/ keep # 0 /\ c = fat[keep] /\ curCluster' = curCluster
  PROVE  LinkInv'
<1>1. /\ pc' = "free" /\ caller' = f /\ cluster' = c /\ from' = keep
      /\ UNCHANGED <<fat, firstCluster, n, torn>>
  BY DEF FreeChain
<1>2. GroupFree' BY <1>1 DEF GroupFree
<1>3. ASSUME ~torn PROVE Links'
  <2>0. Links BY <1>3 DEF LinkInv
  <2>1. LinkedOnce' /\ FirstNotLinked' /\ FirstOfOne'
    BY <2>0, <1>1 DEF Links, LinkedOnce, FirstNotLinked, FirstOfOne
  <2>2. CurrentHasFirst'
    BY <2>0, <1>1 DEF Links, CurrentHasFirst, TypeInv, TypeOK
  <2>3. LinkedInUse' /\ FirstInUse'
    BY <2>0, <1>1 DEF Links, LinkedInUse, FirstInUse, FreedAfter, FreedAll
  <2>4. Taking' BY <1>1 DEF Taking
  <2>5. Freeing'
    <3>1. CASE keep = 0
      <4>1. c = firstCluster[f] /\ curCluster'[f] = 0
        BY <3>1 DEF TypeInv, TypeOK
      <4>2. c # 0 => \A d \in Cluster : fat[d] # c
        BY <4>1, <2>0, Constants DEF Links, FirstNotLinked
      <4>3. c # 0 => \A g \in File : firstCluster[g] = c => g = f
        BY <4>1, <2>0 DEF Links, FirstOfOne
      <4>4. n' = 0 BY <1>1 DEF TypeInv, PlaceOK
      <4>5. curCluster'[caller'] = 0 BY <4>1, <1>1
      <4>6. cluster' # 0 => \A g \in File : firstCluster'[g] = cluster' => g = caller' /\ from' = 0 /\ n' = 0
        BY <4>3, <4>4, <3>1, <1>1
      <4>7. cluster' # 0 => \A d \in Cluster : fat'[d] = cluster' => d = from'
        BY <4>2, <1>1
      <4> QED BY <4>5, <4>6, <4>7, <1>1 DEF Freeing
    <3>2. CASE keep # 0
      <4>1. c = fat[keep] /\ keep \in Cluster BY <3>2
      <4>2. c # 0 => \A d \in Cluster : fat[d] = c => d = keep
        BY <4>1, <2>0, Constants DEF Links, LinkedOnce
      <4>3. c # 0 => \A g \in File : firstCluster[g] # c
        BY <4>1, <2>0, Constants DEF Links, FirstNotLinked
      <4> QED BY <4>1, <4>2, <4>3, <3>2, <1>1 DEF Freeing
    <3> QED BY <3>1, <3>2
  <2> QED BY <2>1, <2>2, <2>3, <2>4, <2>5 DEF Links
<1> QED BY <1>1, <1>2, <1>3 DEF LinkInv

LEMMA LinkFreeOne ==
  ASSUME TypeInv, LinkInv, FreeOne
  PROVE  LinkInv'
<1>1. /\ pc = "free" /\ pc' = "free" /\ cluster \in Cluster
      /\ fat' = [fat EXCEPT ![cluster] = Free]
      /\ cluster' = fat[cluster] /\ n' = n + 1 /\ n \in Nat
      /\ UNCHANGED <<firstCluster, curCluster, from, caller, torn>>
  BY DEF FreeOne, TypeInv, TypeOK, files
<1>2. /\ fat'[cluster] = Free
      /\ \A c \in Cluster : c # cluster => fat'[c] = fat[c]
      /\ cluster' \in Cluster \cup {0}
  BY <1>1, Constants DEF FreeOne, TypeInv, TypeOK
<1>3. GroupFree' BY <1>1 DEF GroupFree
<1>4. ASSUME ~torn PROVE Links'
  <2>0. Links BY <1>4 DEF LinkInv
  <2>1. /\ from = 0 => curCluster[caller] = 0
        /\ \A c \in Cluster : fat[c] = cluster => c = from
        /\ \A f \in File : firstCluster[f] = cluster => f = caller /\ from = 0 /\ n = 0
    BY <2>0, <1>1, Constants DEF Links, Freeing
  <2>2. LinkedOnce' /\ FirstNotLinked' /\ FirstOfOne' /\ CurrentHasFirst'
    BY <2>0, <1>1, <1>2, Constants DEF Links, LinkedOnce, FirstNotLinked, FirstOfOne, CurrentHasFirst
  <2>3. n' > 0 BY <1>1
  <2>4. LinkedInUse'
    <3>1. ASSUME NEW c \in Cluster, fat'[c] \in Cluster
          PROVE  fat'[fat'[c]] # Free \/ c = from
      <4>1. c # cluster /\ fat'[c] = fat[c] BY <3>1, <1>2, Constants
      <4>2. CASE fat[c] = cluster BY <4>2, <2>1
      <4>3. CASE fat[c] # cluster
        <5>1. fat[fat[c]] # Free \/ c = from
          BY <4>1, <3>1, <2>0 DEF Links, LinkedInUse, FreedAfter
        <5>2. fat'[fat[c]] = fat[fat[c]] BY <4>1, <4>3, <3>1, <1>2
        <5> QED BY <5>1, <5>2, <4>1
      <4> QED BY <4>2, <4>3
    <3> QED BY <3>1, <2>3, <1>1 DEF LinkedInUse, FreedAfter
  <2>5. FirstInUse'
    <3>1. ASSUME NEW f \in File, firstCluster[f] # 0
          PROVE  fat'[firstCluster[f]] # Free \/ (from = 0 /\ f = caller)
      <4>1. firstCluster[f] \in Cluster BY <3>1 DEF TypeInv, TypeOK
      <4>2. CASE firstCluster[f] = cluster BY <4>2, <2>1
      <4>3. CASE firstCluster[f] # cluster
        BY <4>1, <4>3, <3>1, <2>0, <1>2 DEF Links, FirstInUse, FreedAll
      <4> QED BY <4>2, <4>3
    <3> QED BY <3>1, <2>3, <1>1 DEF FirstInUse, FreedAll
  <2>6. Taking' BY <1>1 DEF Taking
  <2>7. Freeing'
    <3>1. ASSUME cluster' # 0, NEW c \in Cluster PROVE fat'[c] # cluster'
      <4>1. CASE c = cluster BY <4>1, <3>1, <1>2, Constants
      <4>2. CASE c # cluster
        BY <4>2, <3>1, <1>1, <1>2, <2>0 DEF Links, LinkedOnce
      <4> QED BY <4>1, <4>2
    <3>2. ASSUME cluster' # 0, NEW f \in File PROVE firstCluster[f] # cluster'
      BY <3>2, <1>1, <2>0, Constants DEF Links, FirstNotLinked
    <3> QED BY <3>1, <3>2, <2>1, <1>1 DEF Freeing
  <2> QED BY <2>2, <2>4, <2>5, <2>6, <2>7 DEF Links
<1> QED BY <1>1, <1>3, <1>4 DEF LinkInv

LEMMA LinkFreeLast ==
  ASSUME TypeInv, LinkInv, FreeLast
  PROVE  LinkInv'
<1>1. /\ pc = "free" /\ cluster \in Cluster /\ n \in Nat
      /\ fat' = [fat EXCEPT ![cluster] = Free]
      /\ UNCHANGED <<curCluster, caller, torn>>
  BY DEF FreeLast, TypeInv, TypeOK
<1>2. /\ fat'[cluster] = Free
      /\ \A c \in Cluster : c # cluster => fat'[c] = fat[c]
  BY <1>1 DEF TypeInv, TypeOK
<1>3. \/ from = 0 /\ pc' = "idle" /\ firstCluster' = [firstCluster EXCEPT ![caller] = 0]
      \/ from # 0 /\ pc' = "cut" /\ n' = n + 1 /\ from' = from /\ firstCluster' = firstCluster
  BY DEF FreeLast, Returns
<1>4. GroupFree' BY <1>3 DEF GroupFree
<1>5. ASSUME ~torn PROVE Links'
  <2>0. Links BY <1>5 DEF LinkInv
  <2>1. /\ from = 0 => curCluster[caller] = 0
        /\ \A c \in Cluster : fat[c] = cluster => c = from
        /\ \A f \in File : firstCluster[f] = cluster => f = caller /\ from = 0
    BY <2>0, <1>1, Constants DEF Links, Freeing
  <2>2. LinkedOnce'
    BY <2>0, <1>1, <1>2, Constants DEF Links, LinkedOnce
  \* only the entry the freed chain hangs from points to what is free
  <2>3. ASSUME NEW c \in Cluster, fat'[c] \in Cluster
        PROVE  fat'[fat'[c]] # Free \/ c = from
    <3>1. c # cluster /\ fat'[c] = fat[c] BY <2>3, <1>2, Constants
    <3>2. CASE fat[c] = cluster BY <3>2, <2>1
    <3>3. CASE fat[c] # cluster
      <4>1. fat[fat[c]] # Free \/ c = from
        BY <3>1, <2>3, <2>0 DEF Links, LinkedInUse, FreedAfter
      <4>2. fat'[fat[c]] = fat[fat[c]] BY <3>1, <3>3, <2>3, <1>2
      <4> QED BY <4>1, <4>2, <3>1
    <3> QED BY <3>2, <3>3
  <2>4. ASSUME NEW f \in File, firstCluster[f] # 0
        PROVE  fat'[firstCluster[f]] # Free \/ (from = 0 /\ f = caller)
    <3>1. firstCluster[f] \in Cluster BY <2>4 DEF TypeInv, TypeOK
    <3>2. CASE firstCluster[f] = cluster BY <3>2, <2>1
    <3>3. CASE firstCluster[f] # cluster
      BY <3>1, <3>3, <2>4, <2>0, <1>2 DEF Links, FirstInUse, FreedAll
    <3> QED BY <3>2, <3>3
  <2>5. CASE from = 0 /\ pc' = "idle" /\ firstCluster' = [firstCluster EXCEPT ![caller] = 0]
    <3>1. /\ firstCluster'[caller] = 0
          /\ \A f \in File : f # caller => firstCluster'[f] = firstCluster[f]
      BY <2>5 DEF TypeInv, TypeOK
    <3>2. LinkedInUse'
      BY <2>3, <2>5, Constants DEF LinkedInUse
    <3>3. FirstInUse'
      BY <2>4, <3>1 DEF FirstInUse
    <3>4. FirstNotLinked'
      BY <2>0, <3>1, <1>2, Constants DEF Links, FirstNotLinked
    <3>5. FirstOfOne'
      BY <2>0, <3>1 DEF Links, FirstOfOne
    <3>6. CurrentHasFirst'
      BY <2>0, <2>1, <2>5, <3>1, <1>1 DEF Links, CurrentHasFirst
    <3>7. Taking' /\ Freeing' BY <2>5 DEF Taking, Freeing
    <3> QED BY <2>2, <3>2, <3>3, <3>4, <3>5, <3>6, <3>7 DEF Links
  <2>6. CASE from # 0 /\ pc' = "cut" /\ n' = n + 1 /\ from' = from /\ firstCluster' = firstCluster
    <3>1. n' > 0 BY <2>6, <1>1
    <3>2. LinkedInUse' BY <2>3, <2>6, <3>1 DEF LinkedInUse, FreedAfter
    <3>3. FirstInUse' BY <2>4, <2>6 DEF FirstInUse
    <3>4. FirstNotLinked' /\ FirstOfOne' /\ CurrentHasFirst'
      BY <2>0, <2>6, <1>1, <1>2, Constants DEF Links, FirstNotLinked, FirstOfOne, CurrentHasFirst
    <3>5. Taking' /\ Freeing' BY <2>6, <3>1 DEF Taking, Freeing
    <3> QED BY <2>2, <3>2, <3>3, <3>4, <3>5 DEF Links
  <2> QED BY <1>3, <2>5, <2>6
<1> QED BY <1>1, <1>4, <1>5 DEF LinkInv

LEMMA LinkCut ==
  ASSUME TypeInv, LinkInv, Cut
  PROVE  LinkInv'
<1>1. /\ pc = "cut" /\ pc' = "idle" /\ from \in Cluster
      /\ fat' = [fat EXCEPT ![from] = Eoc]
      /\ UNCHANGED <<firstCluster, curCluster, torn>>
  BY DEF Cut, Returns, files, TypeInv, PlaceOK
<1>2. /\ fat'[from] = Eoc
      /\ \A c \in Cluster : c # from => fat'[c] = fat[c]
  BY <1>1 DEF TypeInv, TypeOK
<1>3. GroupFree' BY <1>1 DEF GroupFree
<1>4. ASSUME ~torn PROVE Links'
  <2>0. Links BY <1>4 DEF LinkInv
  <2>1. LinkedOnce' /\ FirstNotLinked' /\ FirstOfOne' /\ CurrentHasFirst'
    BY <2>0, <1>1, <1>2, Constants DEF Links, LinkedOnce, FirstNotLinked, FirstOfOne, CurrentHasFirst,
       TypeInv, TypeOK
  <2>2. \A c \in Cluster : fat[c] # Free => fat'[c] # Free
    BY <1>2, Constants
  <2>3. LinkedInUse'
    BY <2>0, <2>2, <1>1, <1>2, Constants DEF Links, LinkedInUse, FreedAfter
  <2>4. FirstInUse'
    BY <2>0, <2>2, <1>1 DEF Links, FirstInUse, FreedAll, TypeInv, TypeOK
  <2>5. Taking' /\ Freeing' BY <1>1 DEF Taking, Freeing
  <2> QED BY <2>1, <2>3, <2>4, <2>5 DEF Links
<1> QED BY <1>1, <1>3, <1>4 DEF LinkInv

LEMMA LinkStep ==
  ASSUME TypeInv, SpaceInv, LinkInv, Step
  PROVE  LinkInv'
<1>1. ASSUME UNCHANGED <<fat, firstCluster, curCluster>>, ~torn', ~torn
      PROVE  CurrentHasFirst'
  BY <1>1 DEF LinkInv, Links, CurrentHasFirst
<1>2. CASE GiveUp
  BY <1>1, <1>2, LinksReturn DEF GiveUp, volume, files
<1>3. CASE AllocFails \/ SizeFails
  BY <1>1, <1>3, LinksReturn DEF AllocFails, SizeFails, TransferFails, volume, files
<1>4. CASE TruncateFails
  <2>1. /\ Returns("error") /\ UNCHANGED <<fat, firstCluster, curCluster>> /\ torn' = (torn \/ n > 0)
    BY <1>4 DEF TruncateFails, TransferFails, volume, files
  <2>2. ~torn' => ~torn /\ ~(n > 0)
    BY <2>1, Zenon
  <2>3. n \in Nat BY DEF TypeInv, TypeOK
  <2>4. ~torn' => ~torn /\ n = 0
    BY <2>2, <2>3
  <2> QED BY <1>1, <2>1, <2>4, LinksReturn
<1>5. CASE SizeStep
  <2>1. UNCHANGED <<fat, firstCluster, curCluster, torn>> /\ pc = "size"
    BY <1>5 DEF SizeStep, Counts, volume, files
  <2>2. CASE Returns("ok")
    BY <2>1, <2>2, <1>1, LinksReturn
  <2>3. CASE pc' = "size"
    <3>1. GroupFree' BY <2>3 DEF GroupFree
    <3>2. ASSUME ~torn PROVE Links'
      BY <1>1, <2>1, <2>3, <3>2, LinksLeft DEF LinkInv
    <3> QED BY <2>1, <3>1, <3>2 DEF LinkInv
  <2> QED BY <1>5, <2>2, <2>3 DEF SizeStep, Counts
<1> QED BY <1>2, <1>3, <1>4, <1>5, LinkProbe, LinkMark, LinkLink, LinkConnect, LinkFreeOne, LinkFreeLast,
          LinkCut DEF Step

LEMMA LinkCall ==
  ASSUME TypeInv, LinkInv, Call
  PROVE  LinkInv'
<1>1. PICK f \in File :
        \/ NextCluster(f) \/ Rewind(f)
        \/ \E k \in 1 .. MaxGroup : CreateContiguous(f, k)
        \/ TruncateToZero(f) \/ TruncateHere(f)
        \/ ChainSize(f)
  BY DEF Call
<1>2. pc = "idle" /\ curCluster[f] \in Cluster \cup {0} /\ firstCluster[f] \in Cluster \cup {0}
  BY <1>1 DEF NextCluster, Rewind, CreateContiguous, TruncateToZero, TruncateHere, ChainSize, TypeInv, TypeOK
\* a file has no current cluster without a first one
<1>3. ASSUME NEW c, MoveTo(f, c), ~torn => (c # 0 => firstCluster[f] # 0)
      PROVE  LinkInv'
  <2>1. /\ Returns("ok") /\ UNCHANGED <<fat, firstCluster, torn>>
        /\ curCluster' = [curCluster EXCEPT ![f] = c]
    BY <1>3 DEF MoveTo, volume
  <2>2. ~torn => CurrentHasFirst'
    BY <2>1, <1>3 DEF LinkInv, Links, CurrentHasFirst, TypeInv, TypeOK
  <2> QED BY <2>1, <2>2, <1>2, LinksReturn
<1>4. ASSUME FailsAtOnce(f) PROVE LinkInv'
  <2>1. /\ Returns("error") /\ UNCHANGED <<fat, firstCluster, curCluster, torn>>
    BY <1>4 DEF FailsAtOnce, volume, files
  <2>2. ~torn => CurrentHasFirst'
    BY <2>1 DEF LinkInv, Links, CurrentHasFirst
  <2> QED BY <2>1, <2>2, <1>2, LinksReturn
<1>5. ~torn => (curCluster[f] # 0 => firstCluster[f] # 0)
  BY DEF LinkInv, Links, CurrentHasFirst
<1>6. CASE NextCluster(f)
  <2>1. CASE AllocContiguous("add", f, 1, 0)
    BY <2>1, <1>2, LinkAlloc
  <2>2. CASE AllocContiguous("add", f, 1, curCluster[f])
    BY <2>2, <1>2, LinkAlloc
  <2>3. CASE MoveTo(f, firstCluster[f])
    BY <2>3, <1>3
  <2>4. CASE curCluster[f] # 0 /\ MoveTo(f, Entry(curCluster[f]))
    BY <2>4, <1>3, <1>5
  <2> QED BY <1>4, <1>6, <2>1, <2>2, <2>3, <2>4 DEF NextCluster
<1>7. CASE Rewind(f)
  BY <1>3, <1>7 DEF Rewind
<1>8. CASE \E k \in 1 .. MaxGroup : CreateContiguous(f, k)
  BY <1>2, <1>8, LinkAlloc DEF CreateContiguous
<1>9. CASE TruncateToZero(f)
  BY <1>2, <1>9, LinkFreeChain DEF TruncateToZero
<1>10. CASE TruncateHere(f)
  <2>1. CASE MoveTo(f, curCluster[f])
    BY <2>1, <1>3, <1>5
  <2>2. CASE curCluster[f] # 0 /\ FreeChain(f, Entry(curCluster[f]), curCluster[f])
             /\ Entry(curCluster[f]) # Eoc /\ UNCHANGED curCluster
    <3>1. Entry(curCluster[f]) = fat[curCluster[f]] /\ Entry(curCluster[f]) \in Cluster \cup {0}
      BY <2>2, <1>2, EntryType, Constants DEF Entry
    <3> QED BY <2>2, <3>1, <1>2, LinkFreeChain
  <2> QED BY <1>4, <1>10, <2>1, <2>2 DEF TruncateHere
<1>11. CASE ChainSize(f)
  <2>1. pc' = "size" /\ UNCHANGED <<fat, firstCluster, curCluster, torn>>
    BY <1>11 DEF ChainSize, volume, files
  <2>2. GroupFree' BY <2>1 DEF GroupFree
  <2>3. ASSUME ~torn PROVE Links'
    <3>1. CurrentHasFirst' BY <2>1, <2>3 DEF LinkInv, Links, CurrentHasFirst
    <3> QED BY <2>1, <2>3, <3>1, <1>2, LinksLeft DEF LinkInv
  <2> QED BY <2>1, <2>2, <2>3 DEF LinkInv
<1> QED BY <1>1, <1>6, <1>7, <1>8, <1>9, <1>10, <1>11

LEMMA LinkInit ==
  ASSUME Init
  PROVE  LinkInv
<1>1. /\ pc = "idle" /\ \A f \in File : firstCluster[f] = 0 /\ curCluster[f] = 0
      /\ \A c \in Cluster : fat[c] = Free \/ fat[c] = Eoc
  BY DEF Init
<1> QED BY <1>1, Constants DEF LinkInv, GroupFree, Links, LinkedOnce, FirstNotLinked, FirstOfOne,
          LinkedInUse, FirstInUse, CurrentHasFirst, Taking, Freeing

LEMMA LinkNext ==
  ASSUME TypeInv, SpaceInv, LinkInv, [Next]_vars
  PROVE  LinkInv'
<1>1. CASE UNCHANGED vars
  BY <1>1 DEF vars, volume, files, locals, LinkInv, GroupFree, Links, LinkedOnce, FirstNotLinked, FirstOfOne,
     LinkedInUse, FirstInUse, CurrentHasFirst, Taking, Freeing, FreedAfter, FreedAll
<1> QED BY <1>1, LinkCall, LinkStep DEF Next

(***************************************************************************)
(* Whole chains: file f has len[f] clusters, path[f][0], path[f][1] and so *)
(* on.  Every action changes them in a way that can be written down, so    *)
(* that only one thing takes an induction: that Chain, which follows the   *)
(* entries of the FAT, finds all of them.                                  *)
(***************************************************************************)
\* induction as a property of sets, from the finiteness of intervals: on a set
\* below which nothing is missing, adding 1 would be one-to-one but not onto
LEMMA InductionOnSets ==
  ASSUME NEW S, 0 \in S, \A m \in Nat : m \in S => m + 1 \in S
  PROVE  Nat \subseteq S
<1> SUFFICES ASSUME NEW t \in Nat, t \notin S PROVE FALSE
  OBVIOUS
<1> DEFINE M == {m \in 0 .. t : \A k \in 0 .. m : k \in S}
           succ == [m \in M |-> m + 1]
<1>1. IsFiniteSet(M)
  <2>1. M \subseteq 0 .. t /\ IsFiniteSet(0 .. t) BY FS_Interval
  <2> QED BY <2>1, FS_Subset
<1>2. ASSUME NEW m \in M PROVE m + 1 \in M
  <2>1. m \in 0 .. t /\ m \in S /\ m # t OBVIOUS
  <2>2. m + 1 \in S /\ m + 1 \in 0 .. t BY <2>1
  <2>3. \A k \in 0 .. m + 1 : k \in 0 .. m \/ k = m + 1 BY <2>1
  <2> QED BY <2>2, <2>3
<1>3. succ \in Injection(M, M)
  <2>1. succ \in [M -> M] BY <1>2
  <2>2. \A a, b \in M : succ[a] = succ[b] => a = b OBVIOUS
  <2> QED BY <2>1, <2>2 DEF Injection, IsInjective
<1>4. succ \in Surjection(M, M)
  BY <1>1, <1>3, FS_Injection
<1>5. 0 \in M OBVIOUS
<1>6. PICK m \in M : succ[m] = 0
  BY <1>4, <1>5 DEF Surjection
<1> QED BY <1>6

\* the clusters of the files
Held(len, path, c) == \E f \in File, i \in Nat : i < len[f] /\ path[f][i] = c

\* what has been freed of the chain that is freed from its place s on
Freed(f, i, s) == pc \in {"free", "cut"} /\ f = caller /\ s <= i /\ i < s + n

\* no cluster is twice in the chains
PathsApart(len, path) ==
  \A f, g \in File, i, j \in Nat :
    i < len[f] /\ j < len[g] /\ path[f][i] = path[g][j] => f = g /\ i = j

PathStarts(len, path) ==
  \A f \in File : firstCluster[f] = IF len[f] = 0 THEN 0 ELSE path[f][0]

PathLinks(len, path, s) ==
  \A f \in File, i \in Nat :
    i < len[f] /\ ~Freed(f, i, s) =>
      fat[path[f][i]] = IF i + 1 < len[f] THEN path[f][i + 1] ELSE Eoc

CurrentOnPath(len, path) ==
  \A f \in File : curCluster[f] = 0 \/ \E i \in Nat : i < len[f] /\ path[f][i] = curCluster[f]

\* the group is no file's, linked from `cluster' on, and will follow the last
\* cluster of the caller
PathGroup(len, path) ==
  /\ pc \in {"search", "mark", "link"} =>
       /\ op \in {"add", "create"} /\ (op = "create" => from = 0)
       /\ IF from = 0 THEN len[caller] = 0
          ELSE len[caller] > 0 /\ path[caller][len[caller] - 1] = from
  /\ pc \in {"mark", "link"} => endCluster \in Cluster /\ endCluster - bgnCluster + 1 = count
  /\ pc = "link" =>
       /\ cluster <= endCluster
       /\ \A c \in Cluster : cluster <= c /\ c <= endCluster =>
            ~Held(len, path, c) /\ fat[c] = IF c = endCluster THEN Eoc ELSE c + 1

\* the chain of the caller is freed from its place s on, and stays before it
PathRelease(len, path, s) ==
  /\ pc \in {"free", "cut"} =>
       /\ op = "truncate" /\ curCluster[caller] = from
       /\ IF from = 0 THEN s = 0 ELSE s > 0 /\ path[caller][s - 1] = from
  /\ pc = "free" => s + n < len[caller] /\ cluster = path[caller][s + n]
  /\ pc = "cut" => from # 0 /\ s + n = len[caller]

PathWalk(len, path) ==
  pc = "size" => op = "size" /\ n < len[caller] /\ cluster = path[caller][n]

PathAnswer(len, path) ==
  pc = "idle" /\ result = "ok" =>
    /\ op = "create" => /\ len[caller] = count
                        /\ \A i \in Nat : i < count => path[caller][i] = firstCluster[caller] + i
    /\ op = "size" => count = len[caller]

Paths(len, path, s) ==
  /\ PathsApart(len, path) /\ PathStarts(len, path) /\ PathLinks(len, path, s)
  /\ CurrentOnPath(len, path)
  /\ PathGroup(len, path) /\ PathRelease(len, path, s)
  /\ PathWalk(len, path) /\ PathAnswer(len, path)

Lens  == [File -> Nat]
Plans == [File -> [Nat -> Cluster]]

PathInv == ~torn => \E len \in Lens, path \in Plans, s \in Nat : Paths(len, path, s)

\* a cluster of a file is in use, unless this call frees it
LEMMA HeldInUse ==
  ASSUME TypeInv, NEW len \in Lens, NEW path \in Plans, NEW s \in Nat, Paths(len, path, s),
         pc \notin {"free", "cut"}, NEW c \in Cluster, Held(len, path, c)
  PROVE  fat[c] # Free
<1>1. PICK f \in File, i \in Nat : i < len[f] /\ path[f][i] = c
  BY DEF Held
<1>2. fat[c] = IF i + 1 < len[f] THEN path[f][i + 1] ELSE Eoc
  BY <1>1 DEF Paths, PathLinks, Freed
<1>3. path[f][i + 1] \in Cluster BY DEF Plans
<1> QED BY <1>2, <1>3, Constants

\* a step that leaves the chains as they are, of no call that has freed any
LEMMA PathsLeft ==
  ASSUME NEW len \in Lens, NEW path \in Plans, NEW s \in Nat, Paths(len, path, s),
         UNCHANGED <<fat, firstCluster>>, CurrentOnPath(len, path)',
         pc \notin {"free", "cut"} \/ n = 0, pc' \notin {"free", "cut"},
         PathGroup(len, path)', PathWalk(len, path)', PathAnswer(len, path)'
  PROVE  Paths(len, path, s)'
<1>1. PathStarts(len, path)' BY DEF Paths, PathStarts
<1>2. \A f \in File, i \in Nat : ~Freed(f, i, s) BY DEF Freed
<1>3. PathLinks(len, path, s)' BY <1>2 DEF Paths, PathLinks
<1>4. PathRelease(len, path, s)' BY DEF PathRelease
<1>5. PathsApart(len, path)' BY DEF Paths, PathsApart
<1> QED BY <1>1, <1>3, <1>4, <1>5 DEF Paths

\* a call that ends and leaves the chains as they are
LEMMA PathsReturn ==
  ASSUME NEW len \in Lens, NEW path \in Plans, NEW s \in Nat, Paths(len, path, s),
         UNCHANGED <<fat, firstCluster>>, CurrentOnPath(len, path)',
         pc \notin {"free", "cut"} \/ n = 0,
         NEW r, Returns(r), r = "ok" => PathAnswer(len, path)'
  PROVE  Paths(len, path, s)'
<1>1. pc' = "idle" /\ result' = r BY DEF Returns
<1>2. PathGroup(len, path)' /\ PathWalk(len, path)' BY <1>1 DEF PathGroup, PathWalk
<1>3. PathAnswer(len, path)' BY <1>1 DEF PathAnswer
<1> QED BY <1>1, <1>2, <1>3, PathsLeft

LEMMA PathAlloc ==
  ASSUME TypeInv, pc = "idle",
         NEW len \in Lens, NEW path \in Plans, NEW s \in Nat, Paths(len, path, s),
         NEW o \in {"add", "create"}, NEW f \in File, NEW k, NEW c \in Cluster \cup {0},
         AllocContiguous(o, f, k, c), o = "create" => c = 0,
         IF c = 0 THEN firstCluster[f] = 0 ELSE c = curCluster[f] /\ fat[c] = Eoc
  PROVE  Paths(len, path, s)'
<1>1. /\ pc' = "search" /\ op' = o /\ from' = c /\ caller' = f
      /\ UNCHANGED <<fat, firstCluster, curCluster, torn>>
  BY DEF AllocContiguous, volume, files
<1>2. CurrentOnPath(len, path)' BY <1>1 DEF Paths, CurrentOnPath
<1>3. IF c = 0 THEN len[f] = 0 ELSE len[f] > 0 /\ path[f][len[f] - 1] = c
  <2>1. CASE c = 0
    <3>1. len[f] # 0 => path[f][0] = 0 BY <2>1 DEF Paths, PathStarts
    <3>2. path[f][0] \in Cluster BY DEF Plans
    <3> QED BY <2>1, <3>1, <3>2, Constants
  <2>2. CASE c # 0
    <3>1. PICK i \in Nat : i < len[f] /\ path[f][i] = c
      BY <2>2 DEF Paths, CurrentOnPath
    <3>2. Eoc = IF i + 1 < len[f] THEN path[f][i + 1] ELSE Eoc
      BY <2>2, <3>1 DEF Paths, PathLinks, Freed
    <3>3. path[f][i + 1] \in Cluster /\ len[f] \in Nat BY DEF Plans, Lens
    <3>4. i = len[f] - 1 BY <3>1, <3>2, <3>3, Constants
    <3> QED BY <2>2, <3>1, <3>3, <3>4
  <2> QED BY <2>1, <2>2
<1>4. PathGroup(len, path)' BY <1>1, <1>3 DEF PathGroup
<1>5. PathWalk(len, path)' /\ PathAnswer(len, path)' BY <1>1 DEF PathWalk, PathAnswer
<1> QED BY <1>1, <1>2, <1>4, <1>5, PathsLeft

\* an action that changes one entry, of a cluster no file has
LEMMA PathsElsewhere ==
  ASSUME TypeInv, NEW len \in Lens, NEW path \in Plans, NEW s \in Nat, Paths(len, path, s),
         pc \notin {"free", "cut"}, pc' = "link", UNCHANGED files,
         NEW c \in Cluster, ~Held(len, path, c), NEW v, fat' = [fat EXCEPT ![c] = v],
         PathGroup(len, path)'
  PROVE  Paths(len, path, s)'
<1>1. PathStarts(len, path)' /\ CurrentOnPath(len, path)' /\ PathsApart(len, path)'
  BY DEF Paths, PathStarts, CurrentOnPath, PathsApart, files
<1>2. ASSUME NEW f \in File, NEW i \in Nat, i < len[f]
      PROVE  fat'[path[f][i]] = IF i + 1 < len[f] THEN path[f][i + 1] ELSE Eoc
  <2>1. path[f][i] \in Cluster BY DEF Plans
  <2>2. path[f][i] # c BY <1>2 DEF Held
  <2>3. fat'[path[f][i]] = fat[path[f][i]] BY <2>1, <2>2 DEF TypeInv, TypeOK
  <2>4. fat[path[f][i]] = IF i + 1 < len[f] THEN path[f][i + 1] ELSE Eoc
    BY <1>2 DEF Paths, PathLinks, Freed
  <2> QED BY <2>3, <2>4
<1>3. PathLinks(len, path, s)' BY <1>2 DEF PathLinks
<1>4. PathRelease(len, path, s)' /\ PathWalk(len, path)' /\ PathAnswer(len, path)'
  BY DEF PathRelease, PathWalk, PathAnswer
<1> QED BY <1>1, <1>3, <1>4 DEF Paths

LEMMA PathProbe ==
  ASSUME TypeInv, Probe,
         NEW len \in Lens, NEW path \in Plans, NEW s \in Nat, Paths(len, path, s)
  PROVE  Paths(len, path, s)'
<1>1. /\ pc = "search" /\ pc' \in {"search", "mark"}
      /\ UNCHANGED <<fat, firstCluster, curCluster, op, caller, count, from>>
  BY DEF Probe, volume, files
<1>2. pc' = "mark" => endCluster' \in Cluster /\ endCluster' - bgnCluster' + 1 = count
  <2>1. CASE Wraps
    BY <2>1, <1>1, Constants DEF Probe, TypeInv, TypeOK
  <2>2. CASE ~Wraps
    BY <2>2, <1>1, Constants DEF Probe, Wraps, TypeInv, TypeOK
  <2> QED BY <2>1, <2>2
<1>3. PathGroup(len, path)' BY <1>1, <1>2 DEF Paths, PathGroup
<1>4. CurrentOnPath(len, path)' /\ PathWalk(len, path)' /\ PathAnswer(len, path)'
  BY <1>1 DEF Paths, CurrentOnPath, PathWalk, PathAnswer
<1> QED BY <1>1, <1>3, <1>4, PathsLeft

LEMMA PathMark ==
  ASSUME TypeInv, LinkInv, Mark,
         NEW len \in Lens, NEW path \in Plans, NEW s \in Nat, Paths(len, path, s)
  PROVE  Paths(len, path, s)'
<1>1. /\ pc = "mark" /\ pc' = "link" /\ endCluster \in Cluster /\ cluster' = endCluster
      /\ fat' = [fat EXCEPT ![endCluster] = Eoc]
      /\ UNCHANGED <<files, op, caller, count, from, bgnCluster, endCluster>>
  BY DEF Mark, TypeInv, PlaceOK
<1>2. fat[endCluster] = Free
  BY <1>1, Constants DEF LinkInv, GroupFree, TypeInv, PlaceOK
<1>3. ~Held(len, path, endCluster) BY <1>1, <1>2, HeldInUse
<1>4. \A c \in Cluster : cluster' <= c /\ c <= endCluster => c = endCluster
  BY <1>1, Constants
<1>5. fat'[endCluster] = Eoc BY <1>1 DEF TypeInv, TypeOK
<1>6. cluster' <= endCluster BY <1>1, Constants
<1>7. PathGroup(len, path)'
  BY <1>1, <1>3, <1>4, <1>5, <1>6 DEF Paths, PathGroup, Held
<1> QED BY <1>1, <1>3, <1>7, PathsElsewhere

LEMMA PathLink ==
  ASSUME TypeInv, LinkInv, Link,
         NEW len \in Lens, NEW path \in Plans, NEW s \in Nat, Paths(len, path, s)
  PROVE  Paths(len, path, s)'
<1>1. /\ pc = "link" /\ pc' = "link" /\ cluster \in Cluster /\ cluster' = cluster - 1
      /\ cluster - 1 \in Cluster /\ bgnCluster <= cluster - 1
      /\ fat' = [fat EXCEPT ![cluster - 1] = cluster]
      /\ UNCHANGED <<files, op, caller, count, from, bgnCluster, endCluster>>
  BY Constants DEF Link, TypeInv, TypeOK, PlaceOK
<1>2. fat[cluster - 1] = Free
  BY <1>1, Constants DEF LinkInv, GroupFree
<1>3. ~Held(len, path, cluster - 1) BY <1>1, <1>2, HeldInUse
<1>4. /\ endCluster \in Cluster /\ cluster <= endCluster
      /\ \A c \in Cluster : cluster <= c /\ c <= endCluster =>
           ~Held(len, path, c) /\ fat[c] = IF c = endCluster THEN Eoc ELSE c + 1
  BY <1>1 DEF Paths, PathGroup
<1>5. ASSUME NEW c \in Cluster, cluster - 1 <= c, c <= endCluster
      PROVE  ~Held(len, path, c) /\ fat'[c] = IF c = endCluster THEN Eoc ELSE c + 1
  <2>1. CASE c = cluster - 1
    <3>1. fat'[c] = cluster BY <2>1, <1>1 DEF TypeInv, TypeOK
    <3>2. c # endCluster /\ c + 1 = cluster BY <2>1, <1>1, <1>4, Constants
    <3> QED BY <3>1, <3>2, <2>1, <1>3
  <2>2. CASE c # cluster - 1
    <3>1. cluster <= c BY <2>2, <1>5, <1>1, Constants
    <3>2. fat'[c] = fat[c] BY <2>2, <1>1 DEF TypeInv, TypeOK
    <3> QED BY <3>1, <3>2, <1>4, <1>5
  <2> QED BY <2>1, <2>2
<1>6. cluster' <= endCluster BY <1>1, <1>4, Constants
<1>7. PathGroup(len, path)'
  BY <1>1, <1>5, <1>6 DEF Paths, PathGroup, Held
<1> QED BY <1>1, <1>3, <1>7, PathsElsewhere

\* the group follows what the caller had
LEMMA PathConnect ==
  ASSUME TypeInv, Connect,
         NEW len \in Lens, NEW path \in Plans, NEW s \in Nat, Paths(len, path, s)
  PROVE  \E len2 \in Lens, path2 \in Plans : Paths(len2, path2, s)'
<1> DEFINE l  == len[caller]
           l2 == l + count
           w  == [i \in Nat |-> IF i < l THEN path[caller][i]
                                ELSE IF i < l2 THEN bgnCluster + (i - l) ELSE bgnCluster]
<1>1. /\ pc = "link" /\ pc' = "idle" /\ bgnCluster \in Cluster /\ cluster = bgnCluster
      /\ result' = "ok" /\ caller \in File /\ count \in Nat /\ count >= 1
      /\ fat' = IF from = 0 THEN fat ELSE [fat EXCEPT ![from] = bgnCluster]
      /\ firstCluster' = IF firstCluster[caller] = 0
                         THEN [firstCluster EXCEPT ![caller] = bgnCluster] ELSE firstCluster
      /\ curCluster' = IF op = "create" THEN curCluster ELSE [curCluster EXCEPT ![caller] = bgnCluster]
      /\ UNCHANGED <<op, caller, count>>
  BY DEF Connect, Returns, TypeInv, TypeOK, PlaceOK
<1>2. /\ op \in {"add", "create"} /\ (op = "create" => from = 0)
      /\ IF from = 0 THEN l = 0 ELSE l > 0 /\ path[caller][l - 1] = from
      /\ endCluster \in Cluster /\ endCluster - bgnCluster + 1 = count
      /\ \A c \in Cluster : bgnCluster <= c /\ c <= endCluster =>
           ~Held(len, path, c) /\ fat[c] = IF c = endCluster THEN Eoc ELSE c + 1
  BY <1>1 DEF Paths, PathGroup
<1>3. l \in Nat /\ l2 \in Nat /\ bgnCluster \in Nat /\ endCluster \in Nat /\ l < l2
  BY <1>1, <1>2, Constants DEF Lens
<1>4. \A f \in File, i \in Nat : path[f][i] \in Cluster
  BY DEF Plans
<1>5. /\ w \in [Nat -> Cluster]
      /\ \A i \in Nat : i < l => w[i] = path[caller][i]
      /\ \A i \in Nat : l <= i /\ i < l2 =>
           w[i] = bgnCluster + (i - l) /\ w[i] \in Cluster /\ bgnCluster <= w[i] /\ w[i] <= endCluster
  <2>1. \A i \in Nat : i < l2 /\ ~(i < l) => bgnCluster + (i - l) \in Cluster
    BY <1>1, <1>2, <1>3, Constants
  <2>2. w \in [Nat -> Cluster] BY <2>1, <1>1, <1>4
  <2>3. ASSUME NEW i \in Nat, l <= i, i < l2
        PROVE  w[i] = bgnCluster + (i - l) /\ w[i] \in Cluster /\ bgnCluster <= w[i] /\ w[i] <= endCluster
    <3>1. w[i] = bgnCluster + (i - l) BY <2>3, <1>3
    <3>2. bgnCluster <= bgnCluster + (i - l) /\ bgnCluster + (i - l) <= endCluster
      BY <2>3, <1>2, <1>3
    <3>3. bgnCluster + (i - l) \in Cluster BY <2>1, <2>3, <1>3
    <3> QED BY ONLY <3>1, <3>2, <3>3
  <2> QED BY <2>2, <2>3
<1>6. PICK len2 \in Lens : len2[caller] = l2 /\ \A f \in File : f # caller => len2[f] = len[f]
  <2>1. [len EXCEPT ![caller] = l2] \in Lens BY <1>1, <1>3 DEF Lens
  <2> QED BY <2>1, <1>1 DEF Lens
<1>7. PICK path2 \in Plans : path2[caller] = w /\ \A f \in File : f # caller => path2[f] = path[f]
  <2>1. [path EXCEPT ![caller] = w] \in Plans BY <1>1, <1>5 DEF Plans
  <2> QED BY <2>1, <1>1 DEF Plans
<1>8. \A f \in File : len[f] \in Nat BY DEF Lens
<1> HIDE DEF l, l2, w
\* a place in a chain is an old one or one of the group
<1>9. ASSUME NEW f \in File, NEW i \in Nat, i < len2[f]
      PROVE  \/ i < len[f] /\ path2[f][i] = path[f][i] /\ Held(len, path, path2[f][i])
             \/ /\ f = caller /\ l <= i /\ i < l2 /\ path2[f][i] = bgnCluster + (i - l)
                /\ path2[f][i] \in Cluster /\ bgnCluster <= path2[f][i] /\ path2[f][i] <= endCluster
                /\ ~Held(len, path, path2[f][i])
  <2>1. CASE i < len[f]
    <3>1. path2[f][i] = path[f][i] BY <2>1, <1>5, <1>7 DEF l
    <3> QED BY <2>1, <3>1 DEF Held
  <2>2. CASE ~(i < len[f])
    <3>1. f = caller /\ l <= i /\ i < l2 BY <2>2, <1>3, <1>6, <1>8, <1>9 DEF l
    <3> QED BY <3>1, <1>2, <1>5, <1>7
  <2> QED BY <2>1, <2>2
<1>10. PathsApart(len2, path2)
  <2>1. ASSUME NEW f \in File, NEW g \in File, NEW i \in Nat, NEW j \in Nat,
               i < len2[f], j < len2[g], path2[f][i] = path2[g][j]
        PROVE  f = g /\ i = j
    <3>1. CASE i < len[f] /\ path2[f][i] = path[f][i] /\ Held(len, path, path2[f][i])
      <4>1. j < len[g] /\ path2[g][j] = path[g][j] BY <3>1, <2>1, <1>9
      <4> QED BY <3>1, <4>1, <2>1 DEF Paths, PathsApart
    <3>2. CASE f = caller /\ l <= i /\ path2[f][i] = bgnCluster + (i - l) /\ ~Held(len, path, path2[f][i])
      <4>1. g = caller /\ l <= j /\ path2[g][j] = bgnCluster + (j - l) BY <3>2, <2>1, <1>9
      <4> QED BY <3>2, <4>1, <2>1, <1>3
    <3> QED BY <3>1, <3>2, <2>1, <1>9
  <2> QED BY <2>1 DEF PathsApart
<1>11. PathStarts(len2, path2)'
  <2>1. \A f \in File : firstCluster[f] = IF len[f] = 0 THEN 0 ELSE path[f][0]
    BY DEF Paths, PathStarts
  <2>2. \A f \in File : f # caller => firstCluster'[f] = firstCluster[f]
    BY <1>1 DEF TypeInv, TypeOK
  <2>3. firstCluster[caller] = 0 <=> l = 0
    BY <2>1, <1>1, <1>4, Constants DEF l
  <2>4. firstCluster'[caller] = IF l = 0 THEN bgnCluster ELSE firstCluster[caller]
    BY <2>3, <1>1 DEF TypeInv, TypeOK
  <2>5. path2[caller][0] = IF l = 0 THEN bgnCluster ELSE path[caller][0]
    BY <1>3, <1>5, <1>7
  <2>6. l2 # 0 BY <1>3
  <2> QED BY <2>1, <2>2, <2>4, <2>5, <2>6, <1>1, <1>6, <1>7 DEF PathStarts, l
<1>12. ASSUME NEW f \in File, NEW i \in Nat, i < len2[f]
       PROVE  fat'[path2[f][i]] = IF i + 1 < len2[f] THEN path2[f][i + 1] ELSE Eoc
  <2>1. \A c \in Cluster : c # from => fat'[c] = fat[c]
    BY <1>1 DEF TypeInv, TypeOK
  <2>2. CASE i < len[f] /\ path2[f][i] = path[f][i] /\ Held(len, path, path2[f][i])
    <3>1. fat[path[f][i]] = IF i + 1 < len[f] THEN path[f][i + 1] ELSE Eoc
      BY <2>2, <1>1 DEF Paths, PathLinks, Freed
    <3>2. CASE f = caller /\ i + 1 = l
      <4>1. from = path[f][i] /\ from # 0 /\ from \in Cluster BY <3>2, <1>2, <1>3, <1>4
      <4>2. fat'[from] = bgnCluster BY <4>1, <1>1 DEF TypeInv, TypeOK
      <4>3. i + 1 < len2[f] /\ path2[f][i + 1] = bgnCluster
        BY <3>2, <1>3, <1>5, <1>6, <1>7
      <4> QED BY <4>1, <4>2, <4>3, <2>2
    <3>3. CASE ~(f = caller /\ i + 1 = l)
      <4>1. path[f][i] # from
        <5>1. CASE from = 0 BY <5>1, <1>4, Constants
        <5>2. CASE from # 0
          <6>1. l - 1 \in Nat /\ l - 1 < len[caller] /\ path[caller][l - 1] = from
            BY <5>2, <1>2, <1>3 DEF l
          <6>2. path[f][i] = from => f = caller /\ i = l - 1
            BY <6>1, <2>2, <1>1 DEF Paths, PathsApart
          <6> QED BY <6>2, <3>3, <1>3
        <5> QED BY <5>1, <5>2
      <4>2. fat'[path[f][i]] = fat[path[f][i]] BY <4>1, <2>1, <1>4
      <4>3. CASE i + 1 < len[f]
        <5>1. i + 1 < len2[f] /\ path2[f][i + 1] = path[f][i + 1]
          BY <4>3, <1>3, <1>5, <1>6, <1>7, <1>8 DEF l
        <5> QED BY <5>1, <4>2, <4>3, <3>1, <2>2
      <4>4. CASE ~(i + 1 < len[f])
        <5>1. f # caller BY <4>4, <3>3, <2>2, <1>3 DEF l
        <5> QED BY <5>1, <4>2, <4>4, <3>1, <2>2, <1>6
      <4> QED BY <4>3, <4>4
    <3> QED BY <3>2, <3>3
  <2>3. CASE /\ f = caller /\ l <= i /\ i < l2 /\ path2[f][i] = bgnCluster + (i - l)
             /\ path2[f][i] \in Cluster /\ bgnCluster <= path2[f][i] /\ path2[f][i] <= endCluster
             /\ ~Held(len, path, path2[f][i])
    <3>1. path2[f][i] # from
      <4>1. CASE from = 0 BY <4>1, <2>3, Constants
      <4>2. CASE from # 0
        <5>1. l - 1 \in Nat /\ l - 1 < len[caller] /\ path[caller][l - 1] = from
          BY <4>2, <1>2, <1>3 DEF l
        <5> QED BY <5>1, <2>3, <1>1 DEF Held
      <4> QED BY <4>1, <4>2
    <3>2. fat'[path2[f][i]] = IF path2[f][i] = endCluster THEN Eoc ELSE path2[f][i] + 1
      BY <3>1, <2>1, <2>3, <1>2
    <3>3. CASE i + 1 < l2
      <4>1. path2[f][i + 1] = bgnCluster + (i + 1 - l)
        BY <3>3, <2>3, <1>3, <1>5, <1>7
      <4>2. path2[f][i] # endCluster /\ path2[f][i + 1] = path2[f][i] + 1
        BY <4>1, <3>3, <2>3, <1>2, <1>3 DEF l2
      <4> QED BY <4>2, <3>2, <3>3, <2>3, <1>6
    <3>4. CASE ~(i + 1 < l2)
      <4>1. path2[f][i] = endCluster
        <5>1. endCluster - bgnCluster + 1 = count /\ count \in Nat BY <1>1, <1>2
        <5>2. i - l = count - 1 BY <5>1, <3>4, <2>3, <1>3 DEF l2
        <5>3. path2[f][i] = bgnCluster + (i - l) BY <2>3
        <5> QED BY ONLY <5>1, <5>2, <5>3, <1>3
      <4> QED BY <4>1, <3>2, <3>4, <2>3, <1>6
    <3> QED BY <3>3, <3>4
  <2> QED BY <2>2, <2>3, <1>9, <1>12
<1>13. PathLinks(len2, path2, s)' BY <1>12 DEF PathLinks
<1>14. CurrentOnPath(len2, path2)'
  <2>1. ASSUME NEW f \in File, curCluster[f] # 0
        PROVE  \E i \in Nat : i < len2[f] /\ path2[f][i] = curCluster[f]
    <3>1. PICK i \in Nat : i < len[f] /\ path[f][i] = curCluster[f]
      BY <2>1 DEF Paths, CurrentOnPath
    <3>2. i < len2[f] /\ path2[f][i] = path[f][i]
      BY <3>1, <1>3, <1>5, <1>6, <1>7 DEF l
    <3> QED BY <3>1, <3>2
  <2>2. l < len2[caller] /\ path2[caller][l] = bgnCluster
    BY <1>3, <1>5, <1>6, <1>7
  <2>3. ASSUME NEW f \in File
        PROVE  curCluster'[f] = curCluster[f] \/ (f = caller /\ curCluster'[f] = bgnCluster)
    BY <1>1 DEF TypeInv, TypeOK
  <2>4. ASSUME NEW f \in File
        PROVE  curCluster'[f] = 0 \/ \E i \in Nat : i < len2[f] /\ path2[f][i] = curCluster'[f]
    BY <2>1, <2>2, <2>3, <1>3
  <2> QED BY <2>4 DEF CurrentOnPath
<1>15. PathGroup(len2, path2)' /\ PathRelease(len2, path2, s)' /\ PathWalk(len2, path2)'
  BY <1>1 DEF PathGroup, PathRelease, PathWalk
<1>16. PathAnswer(len2, path2)'
  <2>1. ASSUME op = "create"
        PROVE  len2[caller] = count /\ \A i \in Nat : i < count => path2[caller][i] = firstCluster'[caller] + i
    <3>1. l = 0 /\ l2 = count BY <2>1, <1>1, <1>2 DEF l2
    <3>2. firstCluster'[caller] = path2[caller][0]
      BY <1>1, <1>3, <1>6, <1>11 DEF PathStarts
    <3>3. \A i \in Nat : i < count => path2[caller][i] = bgnCluster + i
      BY <3>1, <1>3, <1>5, <1>7
    <3>4. path2[caller][0] = bgnCluster BY <3>3, <1>1, <1>3
    <3> QED BY <3>1, <3>2, <3>3, <3>4, <1>6
  <2> QED BY <2>1, <1>1, <1>2 DEF PathAnswer
<1> QED BY <1>6, <1>7, <1>10, <1>11, <1>13, <1>14, <1>15, <1>16 DEF Paths, PathsApart

\* the rest of a chain is to be freed
LEMMA PathFreeChain ==
  ASSUME TypeInv, pc = "idle",
         NEW len \in Lens, NEW path \in Plans, NEW s \in Nat, Paths(len, path, s),
         NEW f \in File, NEW c, NEW keep, FreeChain(f, c, keep),
         curCluster' = [curCluster EXCEPT ![f] = keep],
         NEW t \in Nat, t < len[f], c = path[f][t],
         IF keep = 0 THEN t = 0 ELSE t > 0 /\ path[f][t - 1] = keep
  PROVE  Paths(len, path, t)'
<1>1. /\ pc' = "free" /\ op' = "truncate" /\ caller' = f /\ cluster' = c /\ from' = keep
      /\ UNCHANGED <<fat, firstCluster, n>> /\ n = 0
  BY DEF FreeChain, TypeInv, PlaceOK
<1>2. PathsApart(len, path)' /\ PathStarts(len, path)'
  BY <1>1 DEF Paths, PathsApart, PathStarts
<1>3. \A g \in File, i \in Nat : ~Freed(g, i, s) BY DEF Freed
<1>4. PathLinks(len, path, t)'
  BY <1>1, <1>3 DEF Paths, PathLinks
<1>5. CurrentOnPath(len, path)'
  <2>1. keep = 0 \/ (t - 1 \in Nat /\ t - 1 < len[f] /\ path[f][t - 1] = keep)
    BY DEF Lens
  <2>2. \A g \in File : curCluster'[g] = IF g = f THEN keep ELSE curCluster[g]
    BY DEF TypeInv, TypeOK
  <2>3. \A g \in File : curCluster'[g] = 0 \/ \E i \in Nat : i < len[g] /\ path[g][i] = curCluster'[g]
    BY <2>1, <2>2 DEF Paths, CurrentOnPath
  <2> QED BY <2>3 DEF CurrentOnPath
<1>6. curCluster'[f] = keep BY DEF TypeInv, TypeOK
<1>7. t + 0 = t OBVIOUS
<1>8. PathRelease(len, path, t)' BY <1>1, <1>6, <1>7 DEF PathRelease
<1>9. PathGroup(len, path)' /\ PathWalk(len, path)' /\ PathAnswer(len, path)'
  BY <1>1 DEF PathGroup, PathWalk, PathAnswer
<1> QED BY <1>2, <1>4, <1>5, <1>8, <1>9 DEF Paths

\* where freeChain() is: at a cluster whose entry still links on or ends
LEMMA FreeingAt ==
  ASSUME TypeInv, pc = "free",
         NEW len \in Lens, NEW path \in Plans, NEW s \in Nat, Paths(len, path, s)
  PROVE  /\ caller \in File /\ n \in Nat /\ s + n \in Nat /\ s + n < len[caller]
         /\ cluster = path[caller][s + n] /\ cluster \in Cluster
         /\ fat[cluster] = IF s + n + 1 < len[caller] THEN path[caller][s + n + 1] ELSE Eoc
         /\ path[caller][s + n + 1] \in Cluster
<1>1. caller \in File /\ n \in Nat /\ s + n \in Nat BY DEF TypeInv, TypeOK
<1>2. s + n < len[caller] /\ cluster = path[caller][s + n] BY DEF Paths, PathRelease
<1>3. ~Freed(caller, s + n, s) BY <1>1 DEF Freed
<1>4. fat[cluster] = IF s + n + 1 < len[caller] THEN path[caller][s + n + 1] ELSE Eoc
  BY <1>1, <1>2, <1>3 DEF Paths, PathLinks
<1>5. cluster \in Cluster /\ path[caller][s + n + 1] \in Cluster BY <1>1, <1>2 DEF Plans
<1> QED BY <1>1, <1>2, <1>4, <1>5

\* freeing it changes no other entry of a chain
LEMMA FreedAtOne ==
  ASSUME TypeInv, pc = "free",
         NEW len \in Lens, NEW path \in Plans, NEW s \in Nat, Paths(len, path, s),
         fat' = [fat EXCEPT ![cluster] = Free],
         NEW f \in File, NEW i \in Nat, i < len[f],
         f # caller \/ i < s \/ i > s + n
  PROVE  fat'[path[f][i]] = IF i + 1 < len[f] THEN path[f][i + 1] ELSE Eoc
<1>1. /\ caller \in File /\ n \in Nat /\ s + n \in Nat /\ s + n < len[caller]
      /\ cluster = path[caller][s + n]
  BY FreeingAt
<1>2. path[f][i] # cluster
  BY <1>1 DEF Paths, PathsApart
<1>3. ~Freed(f, i, s) BY <1>1 DEF Freed
<1>4. fat[path[f][i]] = IF i + 1 < len[f] THEN path[f][i + 1] ELSE Eoc
  BY <1>3 DEF Paths, PathLinks
<1>5. path[f][i] \in Cluster BY DEF Plans
<1>6. fat'[path[f][i]] = fat[path[f][i]] BY <1>2, <1>5 DEF TypeInv, TypeOK
<1> QED BY <1>4, <1>6

LEMMA PathFreeOne ==
  ASSUME TypeInv, FreeOne,
         NEW len \in Lens, NEW path \in Plans, NEW s \in Nat, Paths(len, path, s)
  PROVE  Paths(len, path, s)'
<1>1. /\ pc = "free" /\ pc' = "free" /\ fat[cluster] # Eoc
      /\ fat' = [fat EXCEPT ![cluster] = Free]
      /\ cluster' = fat[cluster] /\ n' = n + 1
      /\ UNCHANGED <<firstCluster, curCluster, from, caller, op>>
  BY DEF FreeOne, files
<1>2. /\ caller \in File /\ n \in Nat /\ s + n \in Nat /\ s + n + 1 < len[caller]
      /\ cluster' = path[caller][s + n + 1]
  BY <1>1, FreeingAt
<1>3. PathsApart(len, path)' /\ PathStarts(len, path)' /\ CurrentOnPath(len, path)'
  BY <1>1 DEF Paths, PathsApart, PathStarts, CurrentOnPath
<1>4. PathLinks(len, path, s)'
  <2>1. ASSUME NEW f \in File, NEW i \in Nat, i < len[f], ~Freed(f, i, s)'
        PROVE  fat'[path[f][i]] = IF i + 1 < len[f] THEN path[f][i + 1] ELSE Eoc
    <3>1. f # caller \/ i < s \/ i > s + n
      BY <2>1, <1>1, <1>2 DEF Freed
    <3> QED BY <3>1, <2>1, <1>1, FreedAtOne
  <2> QED BY <2>1 DEF PathLinks
<1>5. PathRelease(len, path, s)'
  <2>1. s + n' = s + n + 1 BY <1>1, <1>2
  <2> QED BY <2>1, <1>1, <1>2 DEF Paths, PathRelease
<1>6. PathGroup(len, path)' /\ PathWalk(len, path)' /\ PathAnswer(len, path)'
  BY <1>1 DEF PathGroup, PathWalk, PathAnswer
<1> QED BY <1>3, <1>4, <1>5, <1>6 DEF Paths

\* Chains whose caller keeps t clusters, the last of which ends its chain.
LEMMA PathsShorter ==
  ASSUME TypeInv, NEW len \in Lens, NEW path \in Plans, NEW s \in Nat, Paths(len, path, s),
         NEW t \in Nat, t <= len[caller], pc' = "idle", op = "truncate", op' = op, caller' = caller,
         caller \in File, UNCHANGED curCluster,
         IF t = 0 THEN firstCluster' = [firstCluster EXCEPT ![caller] = 0] /\ curCluster[caller] = 0
         ELSE firstCluster' = firstCluster /\ curCluster[caller] = path[caller][t - 1],
         \A f \in File, i \in Nat :
           i < len[f] /\ (f = caller => i < t) =>
             fat'[path[f][i]] = IF i + 1 < (IF f = caller THEN t ELSE len[f]) THEN path[f][i + 1] ELSE Eoc
  PROVE  \E len2 \in Lens : Paths(len2, path, s)'
<1>1. PICK len2 \in Lens : len2[caller] = t /\ \A f \in File : f # caller => len2[f] = len[f]
  <2>1. [len EXCEPT ![caller] = t] \in Lens BY DEF Lens
  <2> QED BY <2>1 DEF Lens
<1>2. \A f \in File, i \in Nat : i < len2[f] => i < len[f] /\ (f = caller => i < t)
  BY <1>1 DEF Lens
<1>3. PathsApart(len2, path)'
  BY <1>2 DEF Paths, PathsApart
<1>4. PathStarts(len2, path)'
  <2>1. \A f \in File : firstCluster'[f] = IF f = caller /\ t = 0 THEN 0 ELSE firstCluster[f]
    BY DEF TypeInv, TypeOK
  <2>2. t # 0 => len[caller] # 0 BY DEF Lens
  <2>3. \A f \in File : firstCluster'[f] = IF len2[f] = 0 THEN 0 ELSE path[f][0]
    BY <2>1, <2>2, <1>1 DEF Paths, PathStarts
  <2> QED BY <2>3 DEF PathStarts
<1>5. PathLinks(len2, path, s)'
  BY <1>1, <1>2 DEF PathLinks
<1>6. CurrentOnPath(len2, path)'
  <2>1. ASSUME NEW f \in File
        PROVE  curCluster[f] = 0 \/ \E i \in Nat : i < len2[f] /\ path[f][i] = curCluster[f]
    <3>1. CASE f = caller /\ t = 0 BY <3>1
    <3>2. CASE f = caller /\ t # 0
      <4>1. t - 1 \in Nat /\ t - 1 < len2[f] BY <3>2, <1>1
      <4> QED BY <4>1, <3>2
    <3>3. CASE f # caller
      BY <3>3, <1>1 DEF Paths, CurrentOnPath
    <3> QED BY <3>1, <3>2, <3>3
  <2> QED BY <2>1 DEF CurrentOnPath
<1>7. /\ PathGroup(len2, path)' /\ PathRelease(len2, path, s)' /\ PathWalk(len2, path)'
      /\ PathAnswer(len2, path)'
  BY DEF PathGroup, PathRelease, PathWalk, PathAnswer
<1> QED BY <1>3, <1>4, <1>5, <1>6, <1>7 DEF Paths

LEMMA PathFreeLast ==
  ASSUME TypeInv, FreeLast,
         NEW len \in Lens, NEW path \in Plans, NEW s \in Nat, Paths(len, path, s)
  PROVE  \E len2 \in Lens : Paths(len2, path, s)'
<1>1. /\ pc = "free" /\ fat[cluster] = Eoc
      /\ fat' = [fat EXCEPT ![cluster] = Free]
      /\ UNCHANGED <<curCluster, caller, op>>
  BY DEF FreeLast
<1>2. /\ caller \in File /\ n \in Nat /\ s + n \in Nat /\ len[caller] = s + n + 1
  <2>1. len[caller] \in Nat BY FreeingAt, <1>1 DEF Lens
  <2> QED BY <2>1, <1>1, FreeingAt, Constants
<1>3. /\ op = "truncate" /\ curCluster[caller] = from
      /\ IF from = 0 THEN s = 0 ELSE s > 0 /\ path[caller][s - 1] = from
  BY <1>1 DEF Paths, PathRelease
<1>4. ASSUME NEW f \in File, NEW i \in Nat, i < len[f], f = caller => i < s
      PROVE  fat'[path[f][i]] = IF i + 1 < len[f] THEN path[f][i + 1] ELSE Eoc
  BY <1>1, <1>4, FreedAtOne
<1>5. CASE from = 0
  <2>1. pc' = "idle" /\ firstCluster' = [firstCluster EXCEPT ![caller] = 0]
    BY <1>5 DEF FreeLast, Returns
  <2>2. \A f \in File, i \in Nat : i < len[f] /\ (f = caller => i < 0) =>
          fat'[path[f][i]] = IF i + 1 < (IF f = caller THEN 0 ELSE len[f]) THEN path[f][i + 1] ELSE Eoc
    BY <1>4, <1>2
  <2>3. 0 <= len[caller] BY <1>2
  <2> QED BY <2>1, <2>2, <2>3, <1>1, <1>2, <1>3, <1>5, PathsShorter
<1>6. CASE from # 0
  <2>1. /\ pc' = "cut" /\ n' = n + 1 /\ UNCHANGED <<firstCluster, from>>
    BY <1>6 DEF FreeLast
  <2>2. PathsApart(len, path)' /\ PathStarts(len, path)' /\ CurrentOnPath(len, path)'
    BY <2>1, <1>1 DEF Paths, PathsApart, PathStarts, CurrentOnPath
  <2>3. PathLinks(len, path, s)'
    <3>1. ASSUME NEW f \in File, NEW i \in Nat, i < len[f], ~Freed(f, i, s)'
          PROVE  fat'[path[f][i]] = IF i + 1 < len[f] THEN path[f][i + 1] ELSE Eoc
      <4>1. f = caller => i < s
        BY <3>1, <2>1, <1>1, <1>2 DEF Freed
      <4> QED BY <4>1, <3>1, <1>4
    <3> QED BY <3>1 DEF PathLinks
  <2>4. PathRelease(len, path, s)'
    <3>1. s + n' = len[caller] BY <2>1, <1>2
    <3> QED BY <3>1, <2>1, <1>1, <1>3, <1>6 DEF PathRelease
  <2>5. PathGroup(len, path)' /\ PathWalk(len, path)' /\ PathAnswer(len, path)'
    BY <2>1 DEF PathGroup, PathWalk, PathAnswer
  <2> QED BY <2>2, <2>3, <2>4, <2>5 DEF Paths
<1> QED BY <1>5, <1>6

LEMMA PathCut ==
  ASSUME TypeInv, Cut,
         NEW len \in Lens, NEW path \in Plans, NEW s \in Nat, Paths(len, path, s)
  PROVE  \E len2 \in Lens : Paths(len2, path, s)'
<1>1. /\ pc = "cut" /\ pc' = "idle" /\ from \in Cluster /\ caller \in File
      /\ fat' = [fat EXCEPT ![from] = Eoc]
      /\ UNCHANGED <<firstCluster, curCluster, caller, op>>
  BY DEF Cut, Returns, files, TypeInv, TypeOK, PlaceOK
<1>2. /\ op = "truncate" /\ curCluster[caller] = from /\ s > 0 /\ path[caller][s - 1] = from
      /\ s + n = len[caller] /\ n \in Nat /\ s <= len[caller] /\ s - 1 \in Nat
  BY <1>1 DEF Paths, PathRelease, TypeInv, TypeOK
<1>3. ASSUME NEW f \in File, NEW i \in Nat, i < len[f], f = caller => i < s
      PROVE  fat'[path[f][i]] = IF i + 1 < (IF f = caller THEN s ELSE len[f]) THEN path[f][i + 1] ELSE Eoc
  <2>1. CASE f = caller /\ i = s - 1
    <3>1. fat'[from] = Eoc BY <1>1 DEF TypeInv, TypeOK
    <3> QED BY <3>1, <2>1, <1>2
  <2>2. CASE ~(f = caller /\ i = s - 1)
    <3>1. path[f][i] # from
      <4>1. s - 1 < len[caller] BY <1>2
      <4> QED BY <4>1, <2>2, <1>1, <1>2, <1>3 DEF Paths, PathsApart
    <3>2. path[f][i] \in Cluster BY DEF Plans
    <3>3. fat'[path[f][i]] = fat[path[f][i]] BY <3>1, <3>2, <1>1 DEF TypeInv, TypeOK
    <3>4. ~Freed(f, i, s) BY <1>2, <1>3 DEF Freed
    <3>5. fat[path[f][i]] = IF i + 1 < len[f] THEN path[f][i + 1] ELSE Eoc
      BY <3>4, <1>3 DEF Paths, PathLinks
    <3>6. f = caller => i + 1 < s /\ i + 1 < len[f] BY <2>2, <1>2, <1>3
    <3> QED BY <3>3, <3>5, <3>6
  <2> QED BY <2>1, <2>2
<1>4. s # 0 BY <1>2
<1> QED BY <1>1, <1>2, <1>3, <1>4, PathsShorter

LEMMA PathSize ==
  ASSUME TypeInv, SizeStep,
         NEW len \in Lens, NEW path \in Plans, NEW s \in Nat, Paths(len, path, s)
  PROVE  Paths(len, path, s)'
<1>1. /\ pc = "size" /\ op = "size" /\ n \in Nat /\ caller \in File
      /\ n < len[caller] /\ cluster = path[caller][n] /\ len[caller] \in Nat
      /\ UNCHANGED <<fat, firstCluster, curCluster, op, caller>>
  BY DEF SizeStep, Counts, volume, files, Paths, PathWalk, TypeInv, TypeOK, Lens
<1>2. path[caller][n] \in Cluster /\ path[caller][n + 1] \in Cluster BY <1>1 DEF Plans
<1>3. Entry(cluster) = IF n + 1 < len[caller] THEN path[caller][n + 1] ELSE Eoc
  <2>1. ~Freed(caller, n, s) BY <1>1 DEF Freed
  <2>2. Entry(cluster) = fat[cluster] BY <1>1, <1>2, Constants DEF Entry
  <2> QED BY <2>1, <2>2, <1>1 DEF Paths, PathLinks
<1>4. CurrentOnPath(len, path)' BY <1>1 DEF Paths, CurrentOnPath
<1>5. CASE Entry(cluster) = Eoc /\ Returns("ok") /\ count' = n + 1
  <2>1. n + 1 = len[caller] BY <1>1, <1>2, <1>3, <1>5, Constants
  <2>2. PathAnswer(len, path)' BY <2>1, <1>1, <1>5 DEF PathAnswer
  <2> QED BY <2>2, <1>1, <1>4, <1>5, PathsReturn
<1>6. CASE Entry(cluster) # Eoc /\ cluster' = Entry(cluster) /\ n' = n + 1 /\ pc' = pc
  <2>1. PathWalk(len, path)' BY <1>1, <1>3, <1>6 DEF PathWalk
  <2>2. PathGroup(len, path)' /\ PathAnswer(len, path)' BY <1>1, <1>6 DEF PathGroup, PathAnswer
  <2> QED BY <2>1, <2>2, <1>1, <1>4, <1>6, PathsLeft
<1> QED BY <1>5, <1>6 DEF SizeStep, Counts

\* a transfer of a call fails that has freed nothing
LEMMA PathFails ==
  ASSUME TransferFails, pc \notin {"free", "cut"} \/ n = 0,
         NEW len \in Lens, NEW path \in Plans, NEW s \in Nat, Paths(len, path, s)
  PROVE  Paths(len, path, s)'
<1>1. Returns("error") /\ UNCHANGED <<fat, firstCluster, curCluster>>
  BY DEF TransferFails, volume, files
<1>2. CurrentOnPath(len, path)' BY <1>1 DEF Paths, CurrentOnPath
<1> QED BY <1>1, <1>2, PathsReturn

LEMMA PathStep ==
  ASSUME TypeInv, LinkInv, PathInv, Step
  PROVE  PathInv'
<1> SUFFICES ASSUME ~torn'
             PROVE  \E len \in Lens, path \in Plans, s \in Nat : Paths(len, path, s)'
  BY DEF PathInv
<1>1. ~torn
  BY DEF Step, Probe, GiveUp, Mark, Link, Connect, AllocFails, FreeOne, FreeLast, Cut, TruncateFails,
     SizeStep, Counts, SizeFails
<1>2. PICK len \in Lens, path \in Plans, s \in Nat : Paths(len, path, s)
  BY <1>1 DEF PathInv
<1>3. CASE Probe BY <1>2, <1>3, PathProbe
<1>4. CASE GiveUp
  <2>1. Returns("full") /\ pc = "search" /\ UNCHANGED <<fat, firstCluster, curCluster>>
    BY <1>4 DEF GiveUp, volume, files
  <2>2. CurrentOnPath(len, path)' BY <2>1, <1>2 DEF Paths, CurrentOnPath
  <2>3. Paths(len, path, s)' BY <2>1, <2>2, <1>2, PathsReturn
  <2> QED BY <2>3
<1>5. CASE Mark BY <1>2, <1>5, PathMark
<1>6. CASE Link BY <1>2, <1>6, PathLink
<1>7. CASE Connect BY <1>2, <1>7, PathConnect
<1>8. CASE AllocFails
  <2>1. TransferFails /\ pc \notin {"free", "cut"} BY <1>8 DEF AllocFails
  <2> QED BY <2>1, <1>2, PathFails
<1>9. CASE FreeOne BY <1>2, <1>9, PathFreeOne
<1>10. CASE FreeLast BY <1>2, <1>10, PathFreeLast
<1>11. CASE Cut BY <1>2, <1>11, PathCut
<1>12. CASE TruncateFails
  <2>1. TransferFails /\ torn' = (torn \/ n > 0) BY <1>12, Zenon DEF TruncateFails
  <2>2. ~(n > 0) BY <2>1, Zenon
  <2>3. n = 0 BY <2>2 DEF TypeInv, TypeOK
  <2> QED BY <2>1, <2>3, <1>2, PathFails
<1>13. CASE SizeStep BY <1>2, <1>13, PathSize
<1>14. CASE SizeFails
  <2>1. TransferFails /\ pc \notin {"free", "cut"} BY <1>14 DEF SizeFails
  <2> QED BY <2>1, <1>2, PathFails
<1> QED BY <1>3, <1>4, <1>5, <1>6, <1>7, <1>8, <1>9, <1>10, <1>11, <1>12, <1>13, <1>14 DEF Step

\* a file is moved to a cluster of its chain, or before it
LEMMA PathMove ==
  ASSUME TypeInv, pc = "idle", NEW f \in File, NEW c, MoveTo(f, c),
         NEW len \in Lens, NEW path \in Plans, NEW s \in Nat, Paths(len, path, s),
         c = 0 \/ \E i \in Nat : i < len[f] /\ path[f][i] = c
  PROVE  Paths(len, path, s)'
<1>1. /\ Returns("ok") /\ op' = "none" /\ UNCHANGED <<fat, firstCluster>>
      /\ curCluster' = [curCluster EXCEPT ![f] = c]
  BY DEF MoveTo, volume
<1>2. \A g \in File : curCluster'[g] = IF g = f THEN c ELSE curCluster[g]
  BY <1>1 DEF TypeInv, TypeOK
<1>3. CurrentOnPath(len, path)' BY <1>2 DEF Paths, CurrentOnPath
<1>4. PathAnswer(len, path)' BY <1>1 DEF PathAnswer
<1> QED BY <1>1, <1>3, <1>4, PathsReturn

LEMMA PathCall ==
  ASSUME TypeInv, PathInv, Call
  PROVE  PathInv'
<1> SUFFICES ASSUME ~torn'
             PROVE  \E len \in Lens, path \in Plans, s \in Nat : Paths(len, path, s)'
  BY DEF PathInv
<1>1. PICK f \in File :
        \/ NextCluster(f) \/ Rewind(f)
        \/ \E k \in 1 .. MaxGroup : CreateContiguous(f, k)
        \/ TruncateToZero(f) \/ TruncateHere(f)
        \/ ChainSize(f)
  BY DEF Call
<1>2. pc = "idle" /\ ~torn
  BY <1>1 DEF NextCluster, Rewind, CreateContiguous, TruncateToZero, TruncateHere, ChainSize,
     AllocContiguous, MoveTo, FailsAtOnce, FreeChain
<1>3. PICK len \in Lens, path \in Plans, s \in Nat : Paths(len, path, s)
  BY <1>2 DEF PathInv
<1> DEFINE cur == curCluster[f]
<1>4. /\ cur \in Cluster \cup {0} /\ len[f] \in Nat /\ \A i \in Nat : path[f][i] \in Cluster
  BY DEF TypeInv, TypeOK, Lens, Plans
<1>5. firstCluster[f] = IF len[f] = 0 THEN 0 ELSE path[f][0]
  BY <1>3 DEF Paths, PathStarts
\* the current cluster, its place and what follows it
<1>6. ASSUME cur # 0
      PROVE  \E i \in Nat : /\ i < len[f] /\ path[f][i] = cur
                            /\ Entry(cur) = IF i + 1 < len[f] THEN path[f][i + 1] ELSE Eoc
  <2>1. PICK i \in Nat : i < len[f] /\ path[f][i] = cur
    BY <1>3, <1>6 DEF Paths, CurrentOnPath
  <2>2. fat[cur] = IF i + 1 < len[f] THEN path[f][i + 1] ELSE Eoc
    BY <2>1, <1>2, <1>3 DEF Paths, PathLinks, Freed
  <2> QED BY <2>1, <2>2, <1>6 DEF Entry
<1>7. ASSUME FailsAtOnce(f) PROVE Paths(len, path, s)'
  <2>1. Returns("error") /\ UNCHANGED <<fat, firstCluster, curCluster>>
    BY <1>7 DEF FailsAtOnce, volume, files
  <2>2. CurrentOnPath(len, path)' BY <2>1, <1>3 DEF Paths, CurrentOnPath
  <2> QED BY <2>1, <2>2, <1>2, <1>3, PathsReturn
<1>8. CASE NextCluster(f)
  <2>1. CASE firstCluster[f] = 0 /\ AllocContiguous("add", f, 1, 0)
    BY <2>1, <1>2, <1>3, PathAlloc
  <2>2. CASE cur = 0 /\ firstCluster[f] # 0 /\ MoveTo(f, firstCluster[f])
    <3>1. 0 < len[f] /\ path[f][0] = firstCluster[f] BY <2>2, <1>4, <1>5
    <3> QED BY <3>1, <2>2, <1>2, <1>3, PathMove
  <2>3. CASE cur # 0 /\ Entry(cur) = Eoc /\ AllocContiguous("add", f, 1, cur)
    <3>1. fat[cur] = Eoc BY <2>3 DEF Entry
    <3> QED BY <3>1, <2>3, <1>2, <1>3, <1>4, PathAlloc
  <2>4. CASE cur # 0 /\ Entry(cur) # Eoc /\ MoveTo(f, Entry(cur))
    <3>1. \E i \in Nat : i < len[f] /\ path[f][i] = Entry(cur)
      BY <2>4, <1>6
    <3> QED BY <3>1, <2>4, <1>2, <1>3, PathMove
  <2> QED BY <1>3, <1>7, <1>8, <2>1, <2>2, <2>3, <2>4 DEF NextCluster
<1>9. CASE Rewind(f)
  BY <1>2, <1>3, <1>9, PathMove DEF Rewind
<1>10. CASE \E k \in 1 .. MaxGroup : CreateContiguous(f, k)
  <2>1. PICK k \in 1 .. MaxGroup : AllocContiguous("create", f, k, 0) /\ firstCluster[f] = 0
    BY <1>10 DEF CreateContiguous
  <2> QED BY <2>1, <1>2, <1>3, PathAlloc
<1>11. CASE TruncateToZero(f)
  <2>1. 0 < len[f] /\ path[f][0] = firstCluster[f]
    BY <1>4, <1>5, <1>11 DEF TruncateToZero
  <2>2. Paths(len, path, 0)'
    BY <2>1, <1>2, <1>3, <1>11, PathFreeChain DEF TruncateToZero
  <2> QED BY <2>2
<1>12. CASE TruncateHere(f)
  <2>1. CASE MoveTo(f, cur)
    BY <2>1, <1>2, <1>3, <1>6, PathMove
  <2>2. CASE cur # 0 /\ Entry(cur) # Eoc /\ FreeChain(f, Entry(cur), cur) /\ UNCHANGED curCluster
    <3>1. PICK i \in Nat : i < len[f] /\ path[f][i] = cur /\ i + 1 < len[f] /\ Entry(cur) = path[f][i + 1]
      BY <2>2, <1>6
    <3>2. curCluster' = [curCluster EXCEPT ![f] = cur]
      BY <2>2 DEF TypeInv, TypeOK
    <3>3. i + 1 \in Nat /\ i + 1 > 0 /\ path[f][(i + 1) - 1] = cur BY <3>1
    <3>4. Paths(len, path, i + 1)'
      BY <3>1, <3>2, <3>3, <2>2, <1>2, <1>3, PathFreeChain
    <3> QED BY <3>3, <3>4
  <2> QED BY <1>3, <1>7, <1>12, <2>1, <2>2 DEF TruncateHere
<1>13. CASE ChainSize(f)
  <2>1. /\ pc' = "size" /\ op' = "size" /\ caller' = f /\ cluster' = firstCluster[f] /\ n' = 0
        /\ firstCluster[f] # 0 /\ UNCHANGED <<fat, firstCluster, curCluster>>
    BY <1>2, <1>13 DEF ChainSize, volume, files, TypeInv, PlaceOK
  <2>2. 0 < len[f] /\ path[f][0] = firstCluster[f] BY <2>1, <1>4, <1>5
  <2>3. PathWalk(len, path)' BY <2>1, <2>2 DEF PathWalk
  <2>4. PathGroup(len, path)' /\ PathAnswer(len, path)' BY <2>1 DEF PathGroup, PathAnswer
  <2>5. CurrentOnPath(len, path)' BY <2>1, <1>3 DEF Paths, CurrentOnPath
  <2>6. Paths(len, path, s)' BY <2>1, <2>3, <2>4, <2>5, <1>2, <1>3, PathsLeft
  <2> QED BY <2>6
<1> QED BY <1>1, <1>8, <1>9, <1>10, <1>11, <1>12, <1>13

LEMMA PathInit ==
  ASSUME Init
  PROVE  PathInv
<1>1. /\ pc = "idle" /\ op = "none"
      /\ \A f \in File : firstCluster[f] = 0 /\ curCluster[f] = 0
  BY DEF Init
<1> DEFINE len  == [f \in File |-> 0]
           path == [f \in File |-> [i \in Nat |-> 2]]
<1>2. len \in Lens BY DEF Lens
<1>3. path \in Plans BY Constants DEF Plans
<1>4. \A f \in File, i \in Nat : ~(i < len[f]) OBVIOUS
<1>5. \A f \in File : len[f] = 0 OBVIOUS
<1> HIDE DEF len, path
<1>6. Paths(len, path, 0)
  BY <1>1, <1>4, <1>5 DEF Paths, PathsApart, PathStarts, PathLinks, CurrentOnPath, PathGroup, PathRelease,
     PathWalk, PathAnswer
<1> QED BY <1>2, <1>3, <1>6 DEF PathInv

LEMMA PathNext ==
  ASSUME TypeInv, LinkInv, PathInv, [Next]_vars
  PROVE  PathInv'
<1>1. CASE UNCHANGED vars
  <2>1. UNCHANGED <<fat, firstCluster, curCluster, pc, op, caller, count, from, n, bgnCluster, endCluster,
                    cluster, result, torn>>
    BY <1>1 DEF vars, volume, files, locals
  <2>2. ASSUME NEW len \in Lens, NEW path \in Plans, NEW s \in Nat, Paths(len, path, s)
        PROVE  Paths(len, path, s)'
    <3>1. /\ PathsApart(len, path)' /\ PathStarts(len, path)' /\ PathLinks(len, path, s)'
          /\ CurrentOnPath(len, path)'
      BY <2>1, <2>2 DEF Paths, PathsApart, PathStarts, PathLinks, Freed, CurrentOnPath
    <3>2. PathGroup(len, path)'
      BY <2>1, <2>2 DEF Paths, PathGroup, Held
    <3>3. PathRelease(len, path, s)' /\ PathWalk(len, path)' /\ PathAnswer(len, path)'
      BY <2>1, <2>2 DEF Paths, PathRelease, PathWalk, PathAnswer
    <3> QED BY <3>1, <3>2, <3>3 DEF Paths
  <2>3. ASSUME ~torn' PROVE \E len \in Lens, path \in Plans, s \in Nat : Paths(len, path, s)'
    <3>1. PICK len \in Lens, path \in Plans, s \in Nat : Paths(len, path, s)
      BY <2>1, <2>3 DEF PathInv
    <3>2. Paths(len, path, s)' BY <3>1, <2>2
    <3> QED BY <3>2
  <2> QED BY <2>3 DEF PathInv
<1> QED BY <1>1, PathCall, PathStep DEF Next

\* no chain is longer than the volume
LEMMA PathFits ==
  ASSUME NEW len \in Lens, NEW path \in Plans, PathsApart(len, path), NEW f \in File
  PROVE  len[f] \in Nat /\ len[f] <= ClusterCount
<1> DEFINE l == len[f]
           I == 1 .. l
           q == [i \in I |-> path[f][i - 1]]
<1>1. l \in Nat BY DEF Lens
<1>2. IsFiniteSet(Cluster) /\ Cardinality(Cluster) = ClusterCount
  <2>1. 2 \in Int /\ fatEnd \in Int /\ ~(2 > fatEnd) /\ fatEnd - 2 + 1 = ClusterCount BY Constants
  <2> QED BY <2>1, FS_Interval DEF Cluster
<1>3. Cardinality(I) = l
  <2>1. (IF 1 > l THEN 0 ELSE l - 1 + 1) = l BY <1>1
  <2> QED BY <2>1, <1>1, FS_Interval
<1>4. q \in Injection(I, Cluster)
  <2>1. q \in [I -> Cluster] BY <1>1 DEF Plans
  <2>2. ASSUME NEW i \in I, NEW j \in I, q[i] = q[j] PROVE i = j
    <3>1. i - 1 \in Nat /\ i - 1 < l /\ j - 1 \in Nat /\ j - 1 < l BY <1>1
    <3>2. path[f][i - 1] = path[f][j - 1] BY <2>2
    <3>3. i - 1 = j - 1 BY <3>1, <3>2 DEF PathsApart
    <3> QED BY <3>3, <1>1
  <2> QED BY <2>1, <2>2 DEF Injection, IsInjective
<1>5. Cardinality(I) <= Cardinality(Cluster)
  BY <1>2, <1>4, FS_Injection
<1> QED BY <1>1, <1>2, <1>3, <1>5

\* one turn of the recursive function in Chain
Grown(w, f, k) ==
  IF k = 0 THEN {firstCluster[f]} \ {0}
  ELSE w[k - 1] \cup ({fat[c] : c \in w[k - 1]} \ {Free, Eoc})

\* Between calls Chain is what it is meant to be: the clusters of the file.
LEMMA ChainIs ==
  ASSUME TypeInv, pc = "idle",
         NEW len \in Lens, NEW path \in Plans, NEW s \in Nat, Paths(len, path, s), NEW f \in File
  PROVE  Chain(f) = {path[f][i] : i \in {j \in Nat : j < len[f]}}
<1> DEFINE first(k) == {path[f][i] : i \in {j \in Nat : j < len[f] /\ j <= k}}
           g == [k \in 0 .. ClusterCount |-> first(k)]
<1>1. len[f] \in Nat /\ len[f] <= ClusterCount /\ ClusterCount \in Nat
  BY PathFits, Constants DEF Paths
<1>2. \A i \in Nat : path[f][i] \in Cluster
  BY DEF Plans
<1>3. \A i \in Nat : i < len[f] => fat[path[f][i]] = IF i + 1 < len[f] THEN path[f][i + 1] ELSE Eoc
  BY DEF Paths, PathLinks, Freed
<1>4. first(0) = {firstCluster[f]} \ {0}
  <2>1. firstCluster[f] = IF len[f] = 0 THEN 0 ELSE path[f][0] BY DEF Paths, PathStarts
  <2>2. \A j \in Nat : j < len[f] /\ j <= 0 <=> j = 0 /\ len[f] # 0 BY <1>1
  <2>3. CASE len[f] = 0 BY <2>1, <2>2, <2>3
  <2>4. CASE len[f] # 0
    <3>1. path[f][0] # 0 BY <1>2, Constants
    <3> QED BY <2>1, <2>2, <2>4, <3>1
  <2> QED BY <2>3, <2>4
<1>5. ASSUME NEW k \in Nat
      PROVE  first(k + 1) = first(k) \cup ({fat[c] : c \in first(k)} \ {Free, Eoc})
  <2>1. ASSUME NEW i \in Nat, i < len[f], i <= k + 1
        PROVE  path[f][i] \in first(k) \cup ({fat[c] : c \in first(k)} \ {Free, Eoc})
    <3>1. CASE i <= k BY <3>1, <2>1
    <3>2. CASE i = k + 1
      <4>1. k < len[f] /\ path[f][k] \in first(k) BY <3>2, <2>1, <1>1
      <4>2. fat[path[f][k]] = path[f][i] BY <4>1, <3>2, <2>1, <1>3
      <4>3. path[f][i] # Free /\ path[f][i] # Eoc BY <1>2, Constants
      <4> QED BY <4>1, <4>2, <4>3
    <3> QED BY <3>1, <3>2, <2>1
  <2>2. first(k) \subseteq first(k + 1) OBVIOUS
  <2>3. ASSUME NEW i \in Nat, i < len[f], i <= k, fat[path[f][i]] \notin {Free, Eoc}
        PROVE  fat[path[f][i]] \in first(k + 1)
    <3>1. i + 1 \in Nat /\ i + 1 < len[f] /\ i + 1 <= k + 1 /\ fat[path[f][i]] = path[f][i + 1]
      BY <2>3, <1>3
    <3> QED BY <3>1
  <2>4. first(k + 1) \subseteq first(k) \cup ({fat[c] : c \in first(k)} \ {Free, Eoc}) BY <2>1
  <2>5. ({fat[c] : c \in first(k)} \ {Free, Eoc}) \subseteq first(k + 1) BY <2>3
  <2> QED BY <2>2, <2>4, <2>5
<1> HIDE DEF first
<1>6. \A k \in 0 .. ClusterCount : first(k) = Grown(g, f, k)
  <2>1. ASSUME NEW k \in 0 .. ClusterCount, k # 0 PROVE first(k) = Grown(g, f, k)
    <3>1. k - 1 \in Nat /\ k - 1 \in 0 .. ClusterCount /\ (k - 1) + 1 = k BY <2>1, <1>1
    <3>2. g[k - 1] = first(k - 1) BY <3>1
    <3>3. first(k) = first(k - 1) \cup ({fat[c] : c \in first(k - 1)} \ {Free, Eoc}) BY <1>5, <3>1
    <3> QED BY <3>2, <3>3, <2>1 DEF Grown
  <2> QED BY <2>1, <1>4 DEF Grown
<1>7. g = [k \in 0 .. ClusterCount |-> Grown(g, f, k)]
  BY <1>6
<1>8. ASSUME NEW w, w = [k \in 0 .. ClusterCount |-> Grown(w, f, k)]
      PROVE  w = g
  <2> DEFINE S == {k \in Nat : k <= ClusterCount => w[k] = first(k)}
  <2>1. 0 \in S
    <3>1. w[0] = Grown(w, f, 0) BY <1>1, <1>8
    <3>2. w[0] = first(0) BY <3>1, <1>4 DEF Grown
    <3> QED BY <3>2
  <2>2. ASSUME NEW k \in Nat, k \in S PROVE k + 1 \in S
    <3>1. CASE k + 1 <= ClusterCount
      <4>1. k \in 0 .. ClusterCount /\ k + 1 \in 0 .. ClusterCount /\ w[k] = first(k) /\ (k + 1) - 1 = k /\ k + 1 # 0
        BY <3>1, <2>2, <1>1
      <4>2. w[k + 1] = Grown(w, f, k + 1) BY <4>1, <1>8
      <4>3. w[k + 1] = first(k) \cup ({fat[c] : c \in first(k)} \ {Free, Eoc}) BY <4>1, <4>2 DEF Grown
      <4>4. w[k + 1] = first(k + 1) BY <4>3, <1>5
      <4> QED BY <4>4
    <3>2. CASE ~(k + 1 <= ClusterCount) BY <3>2
    <3> QED BY <3>1, <3>2
  <2>3. Nat \subseteq S BY <2>1, <2>2, InductionOnSets
  <2>4. \A k \in 0 .. ClusterCount : w[k] = first(k) BY <2>3, <1>1
  <2>5. w = [k \in 0 .. ClusterCount |-> w[k]] BY <1>8
  <2> QED BY <2>4, <2>5
<1>9. Chain(f) = g[ClusterCount]
  <2> DEFINE w == CHOOSE v : v = [k \in 0 .. ClusterCount |-> Grown(v, f, k)]
  <2> HIDE DEF g
  <2>1. w = [k \in 0 .. ClusterCount |-> Grown(w, f, k)] BY <1>7, Zenon
  <2>2. Chain(f) = w[ClusterCount] BY Zenon DEF Chain, Grown
  <2>3. w = g BY <2>1, <1>8
  <2> QED BY <2>2, <2>3
<1>10. g[ClusterCount] = first(ClusterCount) BY <1>1
<1>11. \A j \in Nat : j < len[f] => j <= ClusterCount BY <1>1
<1>12. first(ClusterCount) = {path[f][i] : i \in {j \in Nat : j < len[f]}}
  BY <1>11 DEF first
<1> QED BY <1>9, <1>10, <1>12

\* and it has as many clusters as places
LEMMA ChainCounts ==
  ASSUME TypeInv, pc = "idle",
         NEW len \in Lens, NEW path \in Plans, NEW s \in Nat, Paths(len, path, s), NEW f \in File
  PROVE  Cardinality(Chain(f)) = len[f]
<1> DEFINE l == len[f]
           I == 1 .. l
           q == [i \in I |-> path[f][i - 1]]
<1>1. l \in Nat BY DEF Lens
<1>2. Chain(f) = {path[f][i] : i \in {j \in Nat : j < l}} BY ChainIs
<1>3. q \in Bijection(I, Chain(f))
  <2>1. ASSUME NEW i \in I PROVE q[i] \in Chain(f)
    <3>1. i - 1 \in Nat /\ i - 1 < l BY <1>1
    <3> QED BY <3>1, <1>2
  <2>2. ASSUME NEW i \in I, NEW j \in I, q[i] = q[j] PROVE i = j
    <3>1. i - 1 \in Nat /\ i - 1 < l /\ j - 1 \in Nat /\ j - 1 < l BY <1>1
    <3>2. path[f][i - 1] = path[f][j - 1] BY <2>2
    <3>3. i - 1 = j - 1 BY <3>1, <3>2 DEF Paths, PathsApart
    <3> QED BY <3>3, <1>1
  <2>3. ASSUME NEW c \in Chain(f) PROVE \E i \in I : q[i] = c
    <3>1. PICK j \in Nat : j < l /\ path[f][j] = c BY <1>2
    <3>2. j + 1 \in I /\ (j + 1) - 1 = j BY <3>1, <1>1
    <3> QED BY <3>1, <3>2
  <2>4. q \in [I -> Chain(f)] BY <2>1
  <2>5. q \in Injection(I, Chain(f)) BY <2>2, <2>4 DEF Injection, IsInjective
  <2>6. q \in Surjection(I, Chain(f)) BY <2>3, <2>4 DEF Surjection
  <2> QED BY <2>5, <2>6 DEF Bijection
<1>4. ExistsBijection(I, Chain(f)) BY <1>3 DEF ExistsBijection
<1> QED BY <1>1, <1>4, FS_CountingElements

LEMMA PathsSound ==
  ASSUME TypeInv, PathInv
  PROVE  ChainsSound
<1> SUFFICES ASSUME pc = "idle", ~torn, NEW f \in File
             PROVE  /\ \A g \in File \ {f} : Chain(f) \cap Chain(g) = {}
                    /\ \A c \in Chain(f) : fat[c] # Free
                    /\ Chain(f) # {} => Cardinality({c \in Chain(f) : fat[c] = Eoc}) = 1
                    /\ curCluster[f] \in Chain(f) \cup {0}
  BY DEF ChainsSound
<1>1. PICK len \in Lens, path \in Plans, s \in Nat : Paths(len, path, s)
  BY DEF PathInv
<1>2. \A g \in File : Chain(g) = {path[g][i] : i \in {j \in Nat : j < len[g]}}
  BY <1>1, ChainIs
<1>3. \A g \in File, i \in Nat : path[g][i] \in Cluster /\ len[g] \in Nat
  BY DEF Plans, Lens
<1>4. \A g \in File \ {f} : Chain(f) \cap Chain(g) = {}
  BY <1>1, <1>2 DEF Paths, PathsApart
<1>5. \A i \in Nat : i < len[f] => fat[path[f][i]] = IF i + 1 < len[f] THEN path[f][i + 1] ELSE Eoc
  BY <1>1 DEF Paths, PathLinks, Freed
<1>6. \A c \in Chain(f) : fat[c] # Free
  BY <1>2, <1>3, <1>5, Constants
<1>7. ASSUME Chain(f) # {}
      PROVE  Cardinality({c \in Chain(f) : fat[c] = Eoc}) = 1
  <2>1. len[f] - 1 \in Nat /\ len[f] - 1 < len[f] BY <1>2, <1>3, <1>7
  <2> DEFINE last == path[f][len[f] - 1]
  <2>2. last \in Chain(f) /\ fat[last] = Eoc
    <3>1. ~((len[f] - 1) + 1 < len[f]) BY <1>3
    <3>2. fat[last] = Eoc BY <2>1, <3>1, <1>5
    <3> QED BY <2>1, <3>2, <1>2
  <2>3. ASSUME NEW c \in Chain(f), fat[c] = Eoc PROVE c = last
    <3>1. PICK i \in Nat : i < len[f] /\ path[f][i] = c BY <1>2
    <3>2. ~(i + 1 < len[f]) BY <3>1, <2>3, <1>3, <1>5, Constants
    <3>3. i = len[f] - 1 BY <3>1, <3>2, <1>3
    <3> QED BY <3>1, <3>3
  <2>4. {c \in Chain(f) : fat[c] = Eoc} = {last} BY <2>2, <2>3
  <2> QED BY <2>4, FS_Singleton
<1>8. curCluster[f] \in Chain(f) \cup {0}
  BY <1>1, <1>2 DEF Paths, CurrentOnPath
<1> QED BY <1>4, <1>6, <1>7, <1>8

LEMMA PathsCounted ==
  ASSUME TypeInv, PathInv
  PROVE  Counted
<1> SUFFICES ASSUME pc = "idle", result = "ok", ~torn
             PROVE  /\ op = "create" =>
                         /\ Chain(caller) = firstCluster[caller] .. firstCluster[caller] + count - 1
                         /\ \A c \in firstCluster[caller] .. firstCluster[caller] + count - 2 : fat[c] = c + 1
                    /\ op = "size" => count = Cardinality(Chain(caller))
  BY DEF Counted
<1>1. PICK len \in Lens, path \in Plans, s \in Nat : Paths(len, path, s)
  BY DEF PathInv
<1>2. caller \in File /\ count \in Nat /\ count >= 1 BY DEF TypeInv, TypeOK
<1>3. /\ op = "create" => /\ len[caller] = count
                          /\ \A i \in Nat : i < count => path[caller][i] = firstCluster[caller] + i
      /\ op = "size" => count = len[caller]
  BY <1>1 DEF Paths, PathAnswer
<1>4. ASSUME op = "create"
      PROVE  /\ Chain(caller) = firstCluster[caller] .. firstCluster[caller] + count - 1
             /\ \A c \in firstCluster[caller] .. firstCluster[caller] + count - 2 : fat[c] = c + 1
  <2> DEFINE b == firstCluster[caller]
  <2>1. b \in Nat BY <1>2, Constants DEF TypeInv, TypeOK
  <2>2. Chain(caller) = {path[caller][i] : i \in {j \in Nat : j < count}}
    BY <1>1, <1>2, <1>3, <1>4, ChainIs
  <2>3. \A i \in Nat : i < count => path[caller][i] = b + i BY <1>3, <1>4
  <2> HIDE DEF b
  <2>4. ASSUME NEW c \in b .. b + count - 1 PROVE c \in Chain(caller)
    <3>1. c - b \in Nat /\ c - b < count /\ b + (c - b) = c BY <2>1, <1>2
    <3>2. path[caller][c - b] = c BY <3>1, <2>3
    <3> QED BY <3>1, <3>2, <2>2
  <2>5. ASSUME NEW c \in Chain(caller) PROVE c \in b .. b + count - 1
    <3>1. PICK i \in Nat : i < count /\ path[caller][i] = c BY <2>2
    <3>2. c = b + i BY <3>1, <2>3
    <3> QED BY <3>1, <3>2, <2>1, <1>2
  <2>6. ASSUME NEW c \in b .. b + count - 2 PROVE fat[c] = c + 1
    <3>1. c - b \in Nat /\ c - b + 1 < count /\ b + (c - b) = c /\ b + (c - b + 1) = c + 1 BY <2>1, <1>2
    <3>2. path[caller][c - b] = c /\ path[caller][c - b + 1] = c + 1 BY <3>1, <2>3, <1>2
    <3>3. fat[path[caller][c - b]] = path[caller][c - b + 1]
      BY <3>1, <1>1, <1>2, <1>3, <1>4 DEF Paths, PathLinks, Freed
    <3> QED BY <3>2, <3>3
  <2> QED BY <2>4, <2>5, <2>6 DEF b
<1>5. ASSUME op = "size" PROVE count = Cardinality(Chain(caller))
  BY <1>1, <1>2, <1>3, <1>5, ChainCounts
<1> QED BY <1>4, <1>5

(***************************************************************************)
(* The theorems                                                            *)
(***************************************************************************)
\* Every variable keeps its type: in particular no step reads or writes an entry
\* that is no cluster's, wherever the search starts or wraps.
THEOREM TypeCorrect == Spec => []TypeOK
<1>1. Init => TypeInv BY TypeInit
<1>2. TypeInv /\ [Next]_vars => TypeInv' BY TypeNext
<1>3. TypeInv => TypeOK BY DEF TypeInv
<1> QED BY <1>1, <1>2, <1>3, PTL DEF Spec

\* The types and what the search has seen are inductive together.
THEOREM SpaceInvariant == Spec => [](TypeInv /\ SpaceInv)
<1>1. Init => TypeInv /\ SpaceInv BY TypeInit, SpaceInit
<1>2. TypeInv /\ SpaceInv /\ [Next]_vars => (TypeInv /\ SpaceInv)' BY TypeNext, SpaceNext
<1> QED BY <1>1, <1>2, PTL DEF Spec

\* The search start never hides a free cluster, on a volume of any size.
THEOREM NothingHidden == Spec => []NothingFreeBelowStart
<1>1. SpaceInv => NothingFreeBelowStart BY DEF SpaceInv
<1> QED BY <1>1, SpaceInvariant, PTL

\* An allocation that gives up did so because there was no group, on a volume
\* of any size and for a group of any size.
THEOREM FullIsFull == Spec => []FullMeansFull
<1>1. SpaceInv => FullMeansFull BY DEF SpaceInv
<1> QED BY <1>1, SpaceInvariant, PTL

\* Until a truncate stops halfway no cluster is linked to twice or both linked to
\* and a first cluster, for any number of files and clusters, in the middle of
\* calls too and whichever of their transfers fail.
THEOREM Separate == Spec => []LinksSeparate
<1>1. Init => LinkInv BY LinkInit
<1>2. LinkInv /\ (TypeInv /\ SpaceInv) /\ [Next]_vars => LinkInv' BY LinkNext
<1>3. LinkInv => LinksSeparate
  BY DEF LinkInv, Links, LinksSeparate, LinkedOnce, FirstNotLinked, FirstOfOne
<1> QED BY <1>1, <1>2, <1>3, SpaceInvariant, PTL DEF Spec

\* The files' chains, as sequences, are inductive with the types and the links.
THEOREM PathInvariant == Spec => [](TypeInv /\ PathInv)
<1>1. Init => LinkInv /\ PathInv BY LinkInit, PathInit
<1>2. (TypeInv /\ SpaceInv) /\ (LinkInv /\ PathInv) /\ [Next]_vars => (LinkInv /\ PathInv)'
  BY LinkNext, PathNext
<1> QED BY <1>1, <1>2, SpaceInvariant, PTL DEF Spec

\* Whole chains of files are disjoint, in use and end once, and a file's current
\* cluster is its own, on a volume of any size.
THEOREM WholeChains == Spec => []ChainsSound
<1>1. TypeInv /\ PathInv => ChainsSound BY PathsSound
<1> QED BY <1>1, PathInvariant, PTL

\* A contiguous file has the clusters it asked for, and chainSize() counts
\* exactly, on a volume and for chains of any size.
THEOREM CountsExactly == Spec => []Counted
<1>1. TypeInv /\ PathInv => Counted BY PathsCounted
<1> QED BY <1>1, PathInvariant, PTL

=============================================================================

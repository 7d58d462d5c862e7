---------------------------- MODULE SdFile_proofs ----------------------------
(***************************************************************************)
(* Proofs about SdFile, for any geometry of the volume, any files, modes   *)
(* and sizes, and any number of failed transfers and losses of power: the  *)
(* view and the card differ in the cached block only, and an object that   *)
(* has nothing to tell its directory entry agrees with it.                 *)
(***************************************************************************)
EXTENDS SdFile, SequenceTheorems, TLAPS

-----------------------------------------------------------------------------
(***************************************************************************)
(* The blocks                                                              *)
(***************************************************************************)
LEMMA QuotientIs ==
  ASSUME NEW d \in Nat \ {0}, NEW q \in Int, NEW r \in 0 .. d - 1
  PROVE  (q * d + r) \div d = q /\ (q * d + r) % d = r
  OBVIOUS

LEMMA SizesAre == ClusterSize \in Nat \ {0} /\ ClusterSize = BlocksPerCluster * BlockSize
  BY CountAssumption DEF ClusterSize

LEMMA DivisionIs ==
  ASSUME NEW d \in Nat \ {0}, NEW n \in Nat
  PROVE  n \div d \in Nat /\ n % d \in 0 .. d - 1 /\ n = (n \div d) * d + (n % d)
  OBVIOUS

LEMMA ProductIs ==
  ASSUME NEW m \in Nat \ {0}, NEW d \in Nat \ {0}, NEW k \in 0 .. m - 1, NEW r \in 0 .. d - 1
  PROVE  k * d + r \in 0 .. m * d - 1
<1>1. (k + 1) * d <= m * d
  OBVIOUS
<1>2. (k + 1) * d = k * d + d /\ k * d \in Nat
  OBVIOUS
<1>3. m * d \in Nat
  OBVIOUS
<1> DEFINE x == k * d
           y == m * d
           z == (k + 1) * d
<1> HIDE DEF x, y, z
<1>4. z <= y /\ z = x + d /\ x \in Nat /\ y \in Nat
  BY <1>1, <1>2, <1>3 DEF x, y, z
<1>5. x + r \in 0 .. y - 1
  BY <1>4
<1> QED
  BY <1>5 DEF x, y

\* Byte i of a cluster lies in its block number i \div BlockSize.
LEMMA ByteInBlock ==
  ASSUME NEW k \in 0 .. BlocksPerCluster - 1, NEW i \in Int
  PROVE  /\ i \in k * BlockSize .. (k + 1) * BlockSize - 1 <=> i \in 0 .. ClusterSize - 1 /\ i \div BlockSize = k
<1> DEFINE d == BlockSize
           m == BlocksPerCluster
<1>1. d \in Nat \ {0} /\ m \in Nat \ {0} /\ ClusterSize = m * d
  BY CountAssumption, SizesAre
<1> HIDE DEF d, m
<1> DEFINE x == k * d
           r == i - x
<1>2. x \in Nat /\ (k + 1) * d = x + d
  BY <1>1 DEF m
<1>3. ASSUME i \in x .. x + d - 1 PROVE i \in 0 .. m * d - 1 /\ i \div d = k
  <2>1. r \in 0 .. d - 1 /\ i = k * d + r
    BY <1>1, <1>2, <1>3
  <2>2. k \in 0 .. m - 1
    BY DEF m
  <2> HIDE DEF r, x
  <2>3. k * d + r \in 0 .. m * d - 1
    BY <1>1, <2>1, <2>2, ProductIs
  <2>4. (k * d + r) \div d = k
    BY <1>1, <2>1, <2>2, QuotientIs
  <2> QED
    BY <2>1, <2>3, <2>4
<1>4. ASSUME i \in 0 .. m * d - 1, i \div d = k PROVE i \in x .. x + d - 1
  <2>1. i \in Nat
    BY <1>1, <1>4
  <2>2. i % d \in 0 .. d - 1 /\ i = k * d + (i % d)
    BY <1>1, <1>4, <2>1, DivisionIs
  <2> DEFINE e == i % d
  <2> HIDE DEF e
  <2>3. e \in 0 .. d - 1 /\ i = x + e
    BY <2>2 DEF e, x
  <2> HIDE DEF x
  <2> QED
    BY <1>1, <1>2, <2>3
<1>5. (k + 1) * d - 1 = x + d - 1
  <2> DEFINE y == (k + 1) * d
  <2>1. y = x + d /\ x \in Nat /\ d \in Nat
    BY <1>1, <1>2
  <2> HIDE DEF y, x
  <2>2. y - 1 = x + d - 1
    BY <2>1
  <2> QED
    BY <2>2 DEF y
<1> HIDE DEF x, r
<1>6. i \in x .. (k + 1) * d - 1 <=> i \in 0 .. m * d - 1 /\ i \div d = k
  BY <1>3, <1>4, <1>5
<1> QED
  BY <1>1, <1>6 DEF x, d

LEMMA BlockOfByte ==
  ASSUME NEW i \in 0 .. ClusterSize - 1
  PROVE  i \div BlockSize \in 0 .. BlocksPerCluster - 1
<1> DEFINE d == BlockSize
           m == BlocksPerCluster
           q == i \div d
           r == i % d
<1>1. d \in Nat \ {0} /\ m \in Nat \ {0} /\ ClusterSize = m * d
  BY CountAssumption, SizesAre
<1> HIDE DEF d, m
<1>2. i \in Nat /\ i <= m * d - 1
  BY <1>1
<1>3. q \in Nat /\ r \in 0 .. d - 1 /\ i = q * d + r
  BY <1>1, <1>2, DivisionIs
<1> HIDE DEF q, r
<1>4. q * d < m * d
  <2> DEFINE x == q * d
             y == m * d
  <2>1. x \in Nat /\ y \in Nat /\ i = x + r /\ i <= y - 1
    BY <1>1, <1>2, <1>3
  <2> HIDE DEF x, y
  <2>2. x < y
    BY <1>1, <1>3, <2>1
  <2> QED
    BY <2>2 DEF x, y
<1>5. q < m
  <2>1. q >= m => q * d >= m * d
    BY <1>1, <1>3
  <2>2. q * d \in Nat /\ m * d \in Nat
    BY <1>1, <1>3
  <2> QED
    BY <1>1, <1>3, <1>4, <2>1, <2>2
<1> QED
  BY <1>1, <1>3, <1>5 DEF q, d, m

\* Different blocks of different clusters are different blocks of the card.
LEMMA BlocksDiffer ==
  ASSUME NEW c \in Nat, NEW e \in Nat, NEW k \in 0 .. BlocksPerCluster - 1,
         NEW l \in 0 .. BlocksPerCluster - 1
  PROVE  /\ DataBlock(c, k) = DataBlock(e, l) => c = e /\ k = l
         /\ DataBlock(c, k)[2] \div BlocksPerCluster = c
         /\ DataBlock(c, k)[2] % BlocksPerCluster = k
         /\ DataBlock(c, k) # DirBlock /\ DataBlock(c, k) # NoBlock /\ DataBlock(c, k) # FatBlock(e)
<1>1. BlocksPerCluster \in Nat \ {0}
  BY CountAssumption
<1>2. DataBlock(c, k)[2] = c * BlocksPerCluster + k /\ DataBlock(e, l)[2] = e * BlocksPerCluster + l
  BY DEF DataBlock
<1>3. /\ (c * BlocksPerCluster + k) \div BlocksPerCluster = c
      /\ (c * BlocksPerCluster + k) % BlocksPerCluster = k
  BY <1>1, QuotientIs
<1>4. /\ (e * BlocksPerCluster + l) \div BlocksPerCluster = e
      /\ (e * BlocksPerCluster + l) % BlocksPerCluster = l
  BY <1>1, QuotientIs
<1>5. DataBlock(c, k) # DirBlock /\ DataBlock(c, k) # NoBlock /\ DataBlock(c, k) # FatBlock(e)
  BY DEF DataBlock, DirBlock, NoBlock, FatBlock
<1> HIDE DEF DataBlock
<1> QED
  BY <1>2, <1>3, <1>4, <1>5

\* The bytes of a piece of a transfer lie in the block of the position.
LEMMA PieceInBlock ==
  ASSUME NEW p \in Nat, NEW j \in Nat, Offset(p) + j < BlockSize
  PROVE  /\ InCluster(p + j) = BlockOfCluster(p) * BlockSize + Offset(p) + j
         /\ InCluster(p + j) \in 0 .. ClusterSize - 1
         /\ InCluster(p + j) \div BlockSize = BlockOfCluster(p)
         /\ BlockOfCluster(p) \in 0 .. BlocksPerCluster - 1
<1> DEFINE d == BlockSize
           m == BlocksPerCluster
           q == p \div d
           r == p % d
           a == q \div m
           k == q % m
           s == r + j
<1>1. d \in Nat \ {0} /\ m \in Nat \ {0} /\ ClusterSize = m * d /\ ClusterSize \in Nat \ {0}
  BY CountAssumption, SizesAre
<1>2. Offset(p) = r /\ BlockOfCluster(p) = k
  BY DEF Offset, BlockOfCluster
<1> HIDE DEF d, m
<1>3. q \in Nat /\ r \in 0 .. d - 1 /\ p = q * d + r
  BY <1>1, DivisionIs
<1> HIDE DEF q, r
<1>4. a \in Nat /\ k \in 0 .. m - 1 /\ q = a * m + k
  BY <1>1, <1>3, DivisionIs
<1> HIDE DEF a, k
<1>5. s \in 0 .. d - 1
  BY <1>1, <1>2, <1>3 DEF d
<1>6. p + j = q * d + s
  <2> DEFINE x == q * d
  <2>1. x \in Nat /\ p = x + r
    BY <1>1, <1>3
  <2> HIDE DEF x
  <2>2. p + j = x + s
    BY <1>1, <1>3, <2>1
  <2> QED
    BY <2>2 DEF x
<1>7. r + j = s
  OBVIOUS
<1> HIDE DEF s
<1> DEFINE w == k * d + s
           z == m * d
<1>8. w \in 0 .. z - 1
  BY <1>1, <1>4, <1>5, ProductIs
<1>9. p + j = a * z + w
  <2>1. q * d = (a * m) * d + k * d
    BY <1>1, <1>4
  <2>2. (a * m) * d = a * (m * d)
    BY <1>1, <1>4
  <2> DEFINE x == a * (m * d)
             y == k * d
             v == q * d
  <2>3. x \in Int /\ y \in Int /\ v = x + y /\ p + j = v + s
    BY <1>1, <1>4, <1>6, <2>1, <2>2
  <2> HIDE DEF x, y, v
  <2>4. p + j = x + (y + s)
    BY <1>5, <2>3
  <2> QED
    BY <2>4 DEF x, y
<1>10. z \in Nat \ {0}
  BY <1>1
<1>11. w \div d = k
  BY <1>1, <1>4, <1>5, QuotientIs
<1>12. w = k * d + r + j
  <2> DEFINE y == k * d
  <2>1. y \in Int
    BY <1>1, <1>4
  <2> HIDE DEF y
  <2>2. y + s = y + r + j
    BY <1>3, <1>7, <2>1
  <2> QED
    BY <2>2 DEF y
<1>13. ClusterSize = z
  BY <1>1
<1> HIDE DEF w, z
<1>14. (p + j) % z = w
  <2>1. a \in Int
    BY <1>4
  <2>2. (a * z + w) % z = w
    BY <2>1, <1>8, <1>10, QuotientIs
  <2> QED
    BY <1>9, <2>2
<1>15. InCluster(p + j) = w
  BY <1>13, <1>14 DEF InCluster
<1> QED
  BY <1>2, <1>4, <1>8, <1>11, <1>12, <1>13, <1>15 DEF d, m

-----------------------------------------------------------------------------
(***************************************************************************)
(* The inductive invariant                                                 *)
(***************************************************************************)
Flags == {"read", "write", "append", "sync", "trunc", "unbuffered"}
Plain ==
  [do : {"sync", "flush", "shut", "erase", "look", "stamp", "seek", "hop", "arrive", "read",
         "copy", "range", "put", "take", "tie", "fill", "tail", "free", "end", "shrink"},
   arg : Nat] \cup [do : {"find"}, arg : SUBSET Flags]
Object == [open : BOOLEAN, mode : SUBSET Flags, first : Nat, cur : Nat, pos : Nat, size : Nat,
           dirDirty : BOOLEAN]
DirEntries == [File -> [used : BOOLEAN, first : Nat, size : Nat]]

IsVolume(v) ==
  /\ v = [fat |-> v.fat, entry |-> v.entry, data |-> v.data]
  /\ v.fat \in [Cluster -> Nat] /\ v.entry \in DirEntries
  /\ DOMAIN v.data = Cluster
  /\ \A c \in Cluster : DOMAIN v.data[c] = 0 .. ClusterSize - 1

\* volumes v and w differ in block b only
OnlyIn(v, w, b) ==
  /\ \A c \in Cluster : v.fat[c] # w.fat[c] => b = FatBlock(c)
  /\ v.entry # w.entry => b = DirBlock
  /\ \A c \in Cluster : \A i \in 0 .. ClusterSize - 1 :
       v.data[c][i] # w.data[c][i] => b = DataBlock(c, i \div BlockSize)

\* the volume: what the card lacks is in the cache
Coherent(v, w, k) ==
  /\ IsVolume(v) /\ IsVolume(w)
  /\ k = [block |-> k.block, dirty |-> k.dirty] /\ k.dirty \in BOOLEAN
  /\ OnlyIn(v, w, k.block)
  /\ ~k.dirty => v = w

\* a file is created in the directory before any object of it is open
Carried(t, w, ob) ==
  /\ t # <<>> => w \in File
  /\ \/ t \in Seq(Plain)
     \/ \E s \in Seq(Plain) : t = <<Task("create", 0)>> \o s /\ ~ob[w].open

\* EntryCurrent, of the file of a call in progress too
Current(v, ob) ==
  \A f \in File : ob[f].open /\ ~ob[f].dirDirty =>
    v.entry[f].first = ob[f].first /\ v.entry[f].size = ob[f].size

IInv ==
  /\ Coherent(view, card, cache)
  /\ obj \in [File -> Object]
  /\ Carried(todo, who, obj)
  /\ Current(view, obj)

-----------------------------------------------------------------------------
(***************************************************************************)
(* The volume                                                              *)
(***************************************************************************)
LEMMA SameIn ==
  ASSUME NEW v, NEW b
  PROVE  OnlyIn(v, v, b)
  BY DEF OnlyIn

LEMMA OnlyInBoth ==
  ASSUME NEW v, NEW w, NEW u, NEW b, OnlyIn(v, w, b), OnlyIn(w, u, b)
  PROVE  OnlyIn(v, u, b)
<1>1. ASSUME NEW c \in Cluster, v.fat[c] # u.fat[c] PROVE b = FatBlock(c)
  BY <1>1 DEF OnlyIn
<1>2. v.entry # u.entry => b = DirBlock
  BY DEF OnlyIn
<1>3. ASSUME NEW c \in Cluster, NEW i \in 0 .. ClusterSize - 1, v.data[c][i] # u.data[c][i]
      PROVE  b = DataBlock(c, i \div BlockSize)
  <2>1. v.data[c][i] # w.data[c][i] \/ w.data[c][i] # u.data[c][i]
    BY <1>3
  <2> QED
    BY <2>1 DEF OnlyIn
<1> QED
  BY <1>1, <1>2, <1>3, Zenon DEF OnlyIn

\* after a flush any block may be in the cache
LEMMA FlushedIs ==
  ASSUME NEW v, NEW k, NEW b, NEW d \in BOOLEAN, IsVolume(v), k = [block |-> b, dirty |-> d]
  PROVE  Coherent(v, v, k)
<1>1. k.block = b /\ k.dirty = d
  OBVIOUS
<1> QED
  BY <1>1, SameIn DEF Coherent

LEMMA MarkedIs ==
  ASSUME NEW k, NEW d \in BOOLEAN, k = [block |-> k.block, dirty |-> k.dirty], k.dirty \in BOOLEAN
  PROVE  \E e \in BOOLEAN :
           /\ [k EXCEPT !.dirty = @ \/ d] = [block |-> k.block, dirty |-> e]
           /\ e = (k.dirty \/ d)
<1> DEFINE e == k.dirty \/ d
<1>1. e \in BOOLEAN
  OBVIOUS
<1>2. [k EXCEPT !.dirty = @ \/ d] = [k EXCEPT !.dirty = e]
  OBVIOUS
<1>3. e = (k.dirty \/ d)
  OBVIOUS
<1> HIDE DEF e
<1>4. [k EXCEPT !.dirty = e] = [block |-> k.block, dirty |-> e]
  OBVIOUS
<1> QED
  BY <1>1, <1>2, <1>3, <1>4, Zenon

\* A block is changed in the cache, where the card has what it had or has been
\* told all.
LEMMA ChangedInCache ==
  ASSUME NEW b, Coherent(view, card, cache), Loads(b, TRUE),
         IsVolume(view'), OnlyIn(view', view, b)
  PROVE  Coherent(view', card', cache')
<1> USE DEF Coherent
<1>1. cache'.block = b /\ cache'.dirty = TRUE /\ cache' = [block |-> b, dirty |-> TRUE]
  <2>1. CASE Hit(b)
    <3>1. cache' = [cache EXCEPT !.dirty = @ \/ TRUE]
      BY <2>1 DEF Loads
    <3>2. PICK e \in BOOLEAN : cache' = [block |-> cache.block, dirty |-> e] /\ e = (cache.dirty \/ TRUE)
      BY <3>1, MarkedIs
    <3> QED
      BY <2>1, <3>2 DEF Hit
  <2>2. CASE ~Hit(b)
    BY <2>2 DEF Loads
  <2> QED
    BY <2>1, <2>2
<1>2. IsVolume(card') /\ OnlyIn(view', card', b)
  <2>1. CASE Hit(b)
    BY <2>1, OnlyInBoth DEF Loads, Hit
  <2>2. CASE ~Hit(b)
    BY <2>2 DEF Loads, FlushDone
  <2> QED
    BY <2>1, <2>2
<1> QED
  BY <1>1, <1>2

LEMMA LoadedIs ==
  ASSUME NEW b, NEW d \in BOOLEAN, Coherent(view, card, cache), Loads(b, d), view' = view
  PROVE  Coherent(view', card', cache')
<1> USE DEF Coherent
<1>1. CASE Hit(b)
  <2>1. cache' = [cache EXCEPT !.dirty = @ \/ d] /\ card' = card
    BY <1>1 DEF Loads
  <2>2. PICK e \in BOOLEAN : cache' = [block |-> cache.block, dirty |-> e] /\ e = (cache.dirty \/ d)
    BY <2>1, MarkedIs
  <2>3. cache'.block = cache.block /\ cache'.dirty = e
    BY <2>2
  <2> QED
    BY <2>1, <2>2, <2>3
<1>2. CASE ~Hit(b)
  <2>1. card' = view /\ cache' = [block |-> b, dirty |-> d]
    BY <1>2 DEF Loads, FlushDone
  <2> QED
    BY <2>1, FlushedIs
<1> QED
  BY <1>1, <1>2

LEMMA FlushFailsIs ==
  ASSUME Coherent(view, card, cache), FlushFails, view' = view
  PROVE  Coherent(view', card', cache')
<1>1. cache' = cache /\ (card' = card \/ card' = view) /\ cache.dirty
  BY DEF FlushFails, FlushDone
<1> QED
  BY <1>1, SameIn DEF Coherent

LEMMA LoadFailsIs ==
  ASSUME NEW b, Coherent(view, card, cache), LoadFails(b), view' = view
  PROVE  Coherent(view', card', cache')
<1>1. CASE FlushFails
  BY <1>1, FlushFailsIs
<1>2. CASE FlushDone /\ cache' = [cache EXCEPT !.dirty = FALSE]
  <2>1. card' = view /\ cache' = [block |-> cache.block, dirty |-> FALSE]
    BY <1>2 DEF FlushDone, Coherent
  <2> QED
    BY <2>1, FlushedIs DEF Coherent
<1> QED
  BY <1>1, <1>2 DEF LoadFails

\* fatPut
LEMMA PutsIs ==
  ASSUME NEW c, NEW n \in Nat, Coherent(view, card, cache), Puts(c, n)
  PROVE  Coherent(view', card', cache') /\ view'.entry = view.entry
<1> DEFINE fat2 == [view.fat EXCEPT ![c] = n]
<1>1. IsVolume(view) /\ view = [fat |-> view.fat, entry |-> view.entry, data |-> view.data]
      /\ view.fat \in [Cluster -> Nat]
  BY DEF Coherent, IsVolume
<1>2. view' = [view EXCEPT !.fat = fat2]
  BY <1>1 DEF Puts
<1>3. fat2 \in [Cluster -> Nat] /\ \A x \in Cluster : x # c => fat2[x] = view.fat[x]
  BY <1>1
<1> HIDE DEF fat2
<1>4. view'.fat = fat2 /\ view'.entry = view.entry /\ view'.data = view.data
      /\ view' = [fat |-> fat2, entry |-> view.entry, data |-> view.data]
  BY <1>1, <1>2
<1>5. IsVolume(view')
  BY <1>1, <1>3, <1>4 DEF IsVolume
<1>6. OnlyIn(view', view, FatBlock(c))
  BY <1>3, <1>4 DEF OnlyIn
<1>7. Loads(FatBlock(c), TRUE)
  BY DEF Puts
<1> QED
  BY <1>4, <1>5, <1>6, <1>7, ChangedInCache

\* a directory entry is changed
LEMMA EntryPutIs ==
  ASSUME NEW e \in DirEntries, Coherent(view, card, cache), Loads(DirBlock, TRUE),
         view' = [view EXCEPT !.entry = e]
  PROVE  Coherent(view', card', cache') /\ view'.entry = e
<1>1. IsVolume(view) /\ view = [fat |-> view.fat, entry |-> view.entry, data |-> view.data]
  BY DEF Coherent, IsVolume
<1>2. view'.fat = view.fat /\ view'.entry = e /\ view'.data = view.data
      /\ view' = [fat |-> view.fat, entry |-> e, data |-> view.data]
  BY <1>1
<1>3. IsVolume(view') /\ OnlyIn(view', view, DirBlock)
  BY <1>1, <1>2 DEF IsVolume, OnlyIn
<1> QED
  BY <1>2, <1>3, ChangedInCache

-----------------------------------------------------------------------------
(***************************************************************************)
(* A piece of a transfer                                                   *)
(***************************************************************************)
LEMMA LeastIs ==
  ASSUME NEW a \in Nat, NEW b \in Nat
  PROVE  Min({a, b}) = IF a <= b THEN a ELSE b
<1>1. CASE a <= b
  <2>1. \A y \in {a, b} : a <= y
    BY <1>1
  <2>2. \A x \in {a, b} : (\A y \in {a, b} : x <= y) => x = a
    BY <1>1
  <2> QED
    BY <1>1, <2>1, <2>2 DEF Min
<1>2. CASE ~(a <= b)
  <2>1. \A y \in {a, b} : b <= y
    BY <1>2
  <2>2. \A x \in {a, b} : (\A y \in {a, b} : x <= y) => x = b
    BY <1>2
  <2> QED
    BY <1>2, <2>1, <2>2 DEF Min
<1> QED
  BY <1>1, <1>2

LEMMA MostIs ==
  ASSUME NEW a \in Nat, NEW b \in Nat
  PROVE  Max({a, b}) = IF a >= b THEN a ELSE b
<1>1. CASE a >= b
  <2>1. \A y \in {a, b} : a >= y
    BY <1>1
  <2>2. \A x \in {a, b} : (\A y \in {a, b} : x >= y) => x = a
    BY <1>1
  <2> QED
    BY <1>1, <2>1, <2>2 DEF Max
<1>2. CASE ~(a >= b)
  <2>1. \A y \in {a, b} : b >= y
    BY <1>2
  <2>2. \A x \in {a, b} : (\A y \in {a, b} : x >= y) => x = b
    BY <1>2
  <2> QED
    BY <1>2, <2>1, <2>2 DEF Max
<1> QED
  BY <1>1, <1>2

LEMMA PieceIs ==
  ASSUME O.pos \in Nat, Arg \in Nat
  PROVE  /\ Offset(O.pos) \in 0 .. BlockSize - 1
         /\ Piece \in Nat /\ Piece <= Arg /\ Piece <= BlockSize - Offset(O.pos)
<1> DEFINE p == O.pos
           a == Arg
           r == Offset(p)
<1>1. BlockSize \in Nat \ {0} /\ p \in Nat /\ a \in Nat
  BY CountAssumption
<1> HIDE DEF p, a
<1>2. r \in 0 .. BlockSize - 1
  BY <1>1, DivisionIs DEF Offset
<1> HIDE DEF r
<1>3. BlockSize - r \in Nat
  BY <1>1, <1>2
<1> DEFINE b == BlockSize - r
           m == Min({b, a})
<1> HIDE DEF b
<1>4. m = IF b <= a THEN b ELSE a
  BY <1>1, <1>3, LeastIs DEF b
<1> HIDE DEF m
<1>5. m \in Nat /\ m <= a /\ m <= b
  BY <1>1, <1>3, <1>4 DEF b
<1> QED
  BY <1>2, <1>5 DEF b, m, r, p, a, Piece

LEMMA BytesAre ==
  ASSUME O.pos \in Nat, Arg \in Nat, NEW q \in Bytes
  PROVE  /\ InCluster(q) \in 0 .. ClusterSize - 1
         /\ InCluster(q) \div BlockSize = BlockOfCluster(O.pos)
<1> DEFINE p == O.pos
           n == Piece
           j == q - p
           r == Offset(p)
<1>1. p \in Nat /\ n \in Nat /\ r \in Nat /\ n <= BlockSize - r /\ BlockSize \in Nat
  BY PieceIs, CountAssumption
<1>2. q \in p .. p + n - 1
  BY DEF Bytes
<1> HIDE DEF p, n, r
<1>3. j \in Nat /\ j < n /\ q = p + j
  BY <1>1, <1>2
<1> HIDE DEF j
<1>4. r + j < BlockSize
  BY <1>1, <1>3
<1>5. InCluster(p + j) \in 0 .. ClusterSize - 1 /\ InCluster(p + j) \div BlockSize = BlockOfCluster(p)
  BY <1>1, <1>3, <1>4, PieceInBlock DEF r
<1> QED
  BY <1>3, <1>5 DEF p

\* the block of a position at the start of a block
LEMMA BlockBeginsAt ==
  ASSUME NEW p \in Nat, Offset(p) = 0
  PROVE  /\ BlockOfCluster(p) \in 0 .. BlocksPerCluster - 1
         /\ \A i \in Int : i \in InCluster(p) .. InCluster(p) + BlockSize - 1
                           <=> i \in 0 .. ClusterSize - 1 /\ i \div BlockSize = BlockOfCluster(p)
<1> DEFINE k == BlockOfCluster(p)
           x == k * BlockSize
<1>1. BlockSize \in Nat \ {0}
  BY CountAssumption
<1>2. Offset(p) + 0 < BlockSize /\ 0 \in Nat
  BY <1>1
<1>3. InCluster(p + 0) = k * BlockSize + Offset(p) + 0 /\ k \in 0 .. BlocksPerCluster - 1
  BY <1>2, PieceInBlock
<1> HIDE DEF k
<1>4. x \in Int /\ (k + 1) * BlockSize = x + BlockSize
  BY <1>1, <1>3
<1>5. InCluster(p) = x
  <2>1. p + 0 = p /\ x + Offset(p) + 0 = x
    BY <1>4
  <2> QED
    BY <1>3, <2>1
<1>6. (k + 1) * BlockSize - 1 = x + BlockSize - 1
  <2> DEFINE y == (k + 1) * BlockSize
  <2>1. y = x + BlockSize
    BY <1>4
  <2> HIDE DEF y
  <2>2. y - 1 = x + BlockSize - 1
    BY <1>1, <1>4, <2>1
  <2> QED
    BY <2>2 DEF y
<1>7. \A i \in Int : i \in x .. (k + 1) * BlockSize - 1 <=> i \in 0 .. ClusterSize - 1 /\ i \div BlockSize = k
  BY <1>3, ByteInBlock
<1> QED
  BY <1>3, <1>5, <1>6, <1>7 DEF k

\* a whole block is all of its bytes
LEMMA WholeIsAll ==
  ASSUME O.pos \in Nat, Arg \in Nat, Whole, NEW i \in 0 .. ClusterSize - 1,
         i \div BlockSize = BlockOfCluster(O.pos)
  PROVE  \E q \in Bytes : i = InCluster(q)
<1> DEFINE p == O.pos
           r == Offset(p)
           x == InCluster(p)
           j == i - x
<1>1. p \in Nat /\ BlockSize \in Nat \ {0} /\ Piece = BlockSize /\ r = 0 /\ 0 \in Nat
  <2>1. BlockSize \in Nat \ {0} /\ Piece = BlockSize
    BY CountAssumption DEF Whole
  <2>2. r \in 0 .. BlockSize - 1 /\ Piece <= BlockSize - r
    BY PieceIs
  <2> QED
    BY <2>1, <2>2
<1>2. i \in Int
  BY SizesAre
<1>3. i \in x .. x + BlockSize - 1
  BY <1>1, <1>2, BlockBeginsAt
<1>4. Offset(p) + 0 < BlockSize
  BY <1>1
<1>5. x = BlockOfCluster(p) * BlockSize /\ x \in Int
  <2> DEFINE y == BlockOfCluster(p) * BlockSize
  <2>1. InCluster(p + 0) = y + r + 0
    BY <1>1, <1>4, PieceInBlock
  <2>2. y \in Int
    BY <1>1, <1>4, PieceInBlock
  <2> HIDE DEF y
  <2>3. InCluster(p + 0) = y
    BY <1>1, <2>1, <2>2
  <2>4. p + 0 = p
    BY <1>1
  <2> QED
    BY <2>2, <2>3, <2>4 DEF y
<1> HIDE DEF x
<1>6. j \in 0 .. BlockSize - 1 /\ i = x + j
  BY <1>1, <1>2, <1>3, <1>5
<1> HIDE DEF j, p
<1>7. r + j < BlockSize /\ j \in Nat
  BY <1>1, <1>6 DEF r
<1>8. InCluster(p + j) = BlockOfCluster(p) * BlockSize + r + j
  BY <1>1, <1>7, PieceInBlock DEF r
<1> DEFINE y == BlockOfCluster(p) * BlockSize
<1>9. y = x /\ InCluster(p + j) = y + r + j
  BY <1>5, <1>8
<1> HIDE DEF y, r
<1>10. InCluster(p + j) = i
  BY <1>1, <1>5, <1>6, <1>7, <1>9
<1>11. p + j \in p .. p + BlockSize - 1
  BY <1>1, <1>6
<1> QED
  BY <1>1, <1>10, <1>11 DEF Bytes, p

-----------------------------------------------------------------------------
(***************************************************************************)
(* A piece written                                                         *)
(***************************************************************************)
Reached(i) == \E q \in Bytes : i = InCluster(q)
Cleared(i) == Adopts /\ i \in InCluster(O.pos) .. InCluster(O.pos) + BlockSize - 1

LEMMA WrittenIs ==
  ASSUME NEW v, IsVolume(v), O.cur \in Cluster
  PROVE  /\ IsVolume(Written(v))
         /\ Written(v).fat = v.fat /\ Written(v).entry = v.entry
         /\ \A c \in Cluster : c # O.cur => Written(v).data[c] = v.data[c]
         /\ \A i \in 0 .. ClusterSize - 1 :
              Written(v).data[O.cur][i] =
                IF Reached(i) THEN <<who, (O.pos \div ClusterSize) * ClusterSize + i>>
                ELSE IF Cleared(i) THEN Nothing ELSE v.data[O.cur][i]
<1> DEFINE c0 == O.cur
           old == v.data[c0]
           new == [i \in DOMAIN old |->
                    IF i \in {InCluster(p) : p \in Bytes}
                    THEN <<who, (O.pos \div ClusterSize) * ClusterSize + i>>
                    ELSE IF Adopts /\ i \in InCluster(O.pos) .. InCluster(O.pos) + BlockSize - 1
                         THEN Nothing ELSE old[i]]
           data2 == [v.data EXCEPT ![c0] = new]
<1>1. v = [fat |-> v.fat, entry |-> v.entry, data |-> v.data] /\ DOMAIN v.data = Cluster
      /\ DOMAIN old = 0 .. ClusterSize - 1 /\ c0 \in Cluster
  BY DEF IsVolume
<1>2. Written(v) = [v EXCEPT !.data = data2]
  BY <1>1 DEF Written
<1>3. DOMAIN new = 0 .. ClusterSize - 1
  BY <1>1
<1>4. ASSUME NEW i \in 0 .. ClusterSize - 1
      PROVE  new[i] = IF Reached(i) THEN <<who, (O.pos \div ClusterSize) * ClusterSize + i>>
                      ELSE IF Cleared(i) THEN Nothing ELSE old[i]
  <2>1. i \in DOMAIN old
    BY <1>1
  <2>2. i \in {InCluster(p) : p \in Bytes} <=> Reached(i)
    BY DEF Reached
  <2> QED
    BY <2>1, <2>2, Zenon DEF Cleared
<1> HIDE DEF new
<1>5. DOMAIN data2 = Cluster /\ data2[c0] = new /\ \A c \in Cluster : c # c0 => data2[c] = v.data[c]
  BY <1>1
<1> HIDE DEF data2
<1>6. /\ Written(v).fat = v.fat /\ Written(v).entry = v.entry /\ Written(v).data = data2
      /\ Written(v) = [fat |-> v.fat, entry |-> v.entry, data |-> data2]
  BY <1>1, <1>2
<1>7. \A c \in Cluster : DOMAIN data2[c] = 0 .. ClusterSize - 1
  BY <1>3, <1>5 DEF IsVolume
<1> HIDE DEF c0, old
<1>8. IsVolume(Written(v))
  BY <1>5, <1>6, <1>7 DEF IsVolume
<1> QED
  BY <1>4, <1>5, <1>6, <1>8 DEF c0, old

\* a byte is changed in the block of the position only
LEMMA ChangedBytes ==
  ASSUME O.pos \in Nat, Arg \in Nat, NEW i \in 0 .. ClusterSize - 1, Reached(i) \/ Cleared(i)
  PROVE  i \div BlockSize = BlockOfCluster(O.pos)
<1>1. CASE Reached(i)
  BY <1>1, BytesAre DEF Reached
<1>2. CASE Cleared(i)
  <2>1. i \in Int
    BY SizesAre
  <2>2. Offset(O.pos) = 0 /\ i \in InCluster(O.pos) .. InCluster(O.pos) + BlockSize - 1
    BY <1>2 DEF Cleared, Adopts
  <2> QED
    BY <2>1, <2>2, BlockBeginsAt
<1> QED
  BY <1>1, <1>2

\* The view with the piece written differs from what it was in the block of the
\* position.
LEMMA WrittenHere ==
  ASSUME NEW v, IsVolume(v), O.cur \in Cluster, O.pos \in Nat, Arg \in Nat
  PROVE  OnlyIn(Written(v), v, Here)
<1>1. ASSUME NEW c \in Cluster, NEW i \in 0 .. ClusterSize - 1,
             Written(v).data[c][i] # v.data[c][i]
      PROVE  Here = DataBlock(c, i \div BlockSize)
  <2>1. c = O.cur
    BY <1>1, WrittenIs
  <2>2. Reached(i) \/ Cleared(i)
    BY <1>1, <2>1, WrittenIs
  <2>3. i \div BlockSize = BlockOfCluster(O.pos)
    BY <2>2, ChangedBytes
  <2> QED
    BY <2>1, <2>3 DEF Here
<1> QED
  BY <1>1, WrittenIs DEF OnlyIn

\* Written to both, a piece makes no difference; a whole block ends one.
LEMMA WrittenBoth ==
  ASSUME NEW v, NEW w, NEW b, IsVolume(v), IsVolume(w), O.cur \in Cluster, O.pos \in Nat,
         Arg \in Nat, OnlyIn(v, w, b)
  PROVE  /\ OnlyIn(Written(v), Written(w), b)
         /\ Whole /\ b = Here => OnlyIn(Written(v), Written(w), NoBlock)
<1>1. /\ \A c \in Cluster : Written(v).fat[c] # Written(w).fat[c] => b = FatBlock(c)
      /\ Written(v).entry # Written(w).entry => b = DirBlock
  BY WrittenIs DEF OnlyIn
<1>2. ASSUME NEW c \in Cluster, NEW i \in 0 .. ClusterSize - 1,
             Written(v).data[c][i] # Written(w).data[c][i]
      PROVE  v.data[c][i] # w.data[c][i] /\ (c = O.cur => ~Reached(i))
  <2>1. CASE c # O.cur
    BY <1>2, <2>1, WrittenIs
  <2>2. CASE c = O.cur
    <3>1. ~Reached(i)
      BY <1>2, <2>2, WrittenIs
    <3>2. ~Cleared(i)
      BY <1>2, <2>2, <3>1, WrittenIs
    <3> QED
      BY <1>2, <2>2, <3>1, <3>2, WrittenIs
  <2> QED
    BY <2>1, <2>2
<1>3. OnlyIn(Written(v), Written(w), b)
  BY <1>1, <1>2 DEF OnlyIn
<1>4. ASSUME Whole, b = Here PROVE OnlyIn(Written(v), Written(w), NoBlock)
  <2>1. Here = DataBlock(O.cur, BlockOfCluster(O.pos)) /\ O.cur \in Nat
    BY DEF Here, Cluster
  <2>2. Offset(O.pos) + 0 < BlockSize /\ 0 \in Nat
    <3>1. Offset(O.pos) \in 0 .. BlockSize - 1
      BY PieceIs
    <3> QED
      BY <3>1, CountAssumption
  <2>3. BlockOfCluster(O.pos) \in 0 .. BlocksPerCluster - 1
    BY <2>2, PieceInBlock
  <2>4. \A c \in Cluster : b # FatBlock(c)
    BY <1>4, <2>1, <2>3, BlocksDiffer DEF Cluster
  <2>5. b # DirBlock
    BY <1>4, <2>1, <2>3, BlocksDiffer
  <2>6. ASSUME NEW c \in Cluster, NEW i \in 0 .. ClusterSize - 1,
               Written(v).data[c][i] # Written(w).data[c][i]
        PROVE  FALSE
    <3>1. b = DataBlock(c, i \div BlockSize)
      BY <1>2, <2>6 DEF OnlyIn
    <3>2. i \div BlockSize \in 0 .. BlocksPerCluster - 1 /\ c \in Nat
      BY BlockOfByte DEF Cluster
    <3>3. c = O.cur /\ i \div BlockSize = BlockOfCluster(O.pos)
      BY <1>4, <2>1, <2>3, <3>1, <3>2, BlocksDiffer
    <3>4. Reached(i)
      BY <1>4, <3>3, WholeIsAll DEF Reached
    <3> QED
      BY <1>2, <2>6, <3>3, <3>4
  <2> QED
    BY <1>1, <2>4, <2>5, <2>6 DEF OnlyIn
<1> QED
  BY <1>3, <1>4

LEMMA FillIs ==
  ASSUME Coherent(view, card, cache), DoFill, O.pos \in Nat, Arg \in Nat
  PROVE  Coherent(view', card', cache') /\ view'.entry = view.entry
<1>1. /\ IsVolume(view) /\ IsVolume(card) /\ OnlyIn(view, card, cache.block)
      /\ cache = [block |-> cache.block, dirty |-> cache.dirty] /\ cache.dirty \in BOOLEAN
      /\ (~cache.dirty => view = card)
  BY DEF Coherent
<1>2. O.cur \in Cluster /\ view' = Written(view)
  BY DEF DoFill
<1>3. IsVolume(view') /\ view'.entry = view.entry /\ OnlyIn(view', view, Here)
  BY <1>1, <1>2, WrittenIs, WrittenHere
<1>4. CASE Whole /\ Forgets /\ card' = Written(card)
  <2> DEFINE b == IF Hit(Here) THEN NoBlock ELSE cache.block
  <2>1. cache' = [cache EXCEPT !.block = b]
    BY <1>4 DEF Forgets
  <2>2. OnlyIn(view', card', b) /\ IsVolume(card')
    BY <1>1, <1>2, <1>4, WrittenBoth, WrittenIs DEF Hit
  <2> HIDE DEF b
  <2>3. cache' = [block |-> b, dirty |-> cache.dirty] /\ cache'.block = b /\ cache'.dirty = cache.dirty
    BY <1>1, <2>1
  <2>4. ~cache.dirty => view' = card'
    BY <1>1, <1>2, <1>4
  <2>5. Coherent(view', card', cache')
    BY <1>1, <1>3, <2>2, <2>3, <2>4 DEF Coherent
  <2> QED
    BY <1>3, <2>5
<1>5. CASE Adopts /\ cache' = [block |-> Here, dirty |-> TRUE]
                  /\ IF cache.dirty THEN FlushDone ELSE card' = card
  <2>1. card' = view
    BY <1>1, <1>5 DEF FlushDone
  <2>2. cache'.block = Here /\ cache'.dirty = TRUE
    BY <1>5
  <2>3. Coherent(view', card', cache')
    BY <1>1, <1>3, <1>5, <2>1, <2>2 DEF Coherent
  <2> QED
    BY <1>3, <2>3
<1>6. CASE ~Whole /\ ~Adopts /\ Loads(Here, TRUE)
  BY <1>3, <1>6, ChangedInCache
<1> QED
  BY <1>4, <1>5, <1>6 DEF DoFill

\* a piece read or written past the cache that fails
LEMMA PastFailsIs ==
  ASSUME Coherent(view, card, cache), PastCacheFails, O.pos \in Nat, Arg \in Nat
  PROVE  Coherent(view', card', cache') /\ view'.entry = view.entry
<1>1. /\ IsVolume(view) /\ IsVolume(card) /\ OnlyIn(view, card, cache.block)
      /\ cache = [block |-> cache.block, dirty |-> cache.dirty] /\ cache.dirty \in BOOLEAN
      /\ (~cache.dirty => view = card)
  BY DEF Coherent
<1>2. CASE UNCHANGED volume
  BY <1>2 DEF volume
<1>3. CASE /\ O.cur \in Cluster /\ Whole /\ Forgets
           /\ \/ card' = card /\ view' = IF Hit(Here) THEN card ELSE view
              \/ card' = Written(card) /\ view' = Written(view)
  <2> DEFINE b == IF Hit(Here) THEN NoBlock ELSE cache.block
  <2>1. cache' = [cache EXCEPT !.block = b]
    BY <1>3 DEF Forgets
  <2>2. Hit(Here) => Here = cache.block /\ b = NoBlock
    BY DEF Hit
  <2>3. ~Hit(Here) => b = cache.block
    OBVIOUS
  <2> HIDE DEF b
  <2>4. cache' = [block |-> b, dirty |-> cache.dirty] /\ cache'.block = b /\ cache'.dirty = cache.dirty
    BY <1>1, <2>1
  <2>5. CASE card' = card /\ view' = IF Hit(Here) THEN card ELSE view
    <3>1. Here # DirBlock
      BY DEF Here, DataBlock, DirBlock
    <3>2. view'.entry = view.entry
      BY <1>1, <2>2, <2>5, <3>1 DEF OnlyIn
    <3>3. OnlyIn(view', card', b) /\ IsVolume(view') /\ IsVolume(card') /\ (~cache.dirty => view' = card')
      BY <1>1, <2>3, <2>5, SameIn
    <3>4. Coherent(view', card', cache')
      BY <1>1, <2>4, <3>3 DEF Coherent
    <3> QED
      BY <3>2, <3>4
  <2>6. CASE card' = Written(card) /\ view' = Written(view)
    <3>1. IsVolume(view') /\ view'.entry = view.entry /\ IsVolume(card')
      BY <1>1, <1>3, <2>6, WrittenIs
    <3>2. OnlyIn(view', card', b)
      BY <1>1, <1>3, <2>2, <2>3, <2>6, WrittenBoth
    <3>3. ~cache.dirty => view' = card'
      BY <1>1, <2>6
    <3>4. Coherent(view', card', cache')
      BY <1>1, <2>4, <3>1, <3>2, <3>3 DEF Coherent
    <3> QED
      BY <3>1, <3>4
  <2> QED
    BY <1>3, <2>5, <2>6
<1> QED
  BY <1>2, <1>3 DEF PastCacheFails

-----------------------------------------------------------------------------
(***************************************************************************)
(* Tasks and objects                                                       *)
(***************************************************************************)
LEMMA TaskIs ==
  ASSUME NEW n \in Nat
  PROVE  /\ \A d \in {"sync", "flush", "shut", "erase", "look", "stamp", "seek", "hop", "arrive",
                      "read", "copy", "range", "put", "take", "tie", "fill", "tail", "free",
                      "end", "shrink"} :
              Task(d, n) \in Plain
         /\ Task("sync", 0) \in Plain /\ Task("flush", 0) \in Plain
         /\ \A m \in SUBSET Flags : Task("find", m) \in Plain
<1>1. 0 \in Nat
  OBVIOUS
<1> QED
  BY <1>1 DEF Task, Plain

LEMMA ListIs ==
  /\ <<>> \in Seq(Plain)
  /\ \A s \in Plain : <<s>> \in Seq(Plain)
  /\ \A s \in Plain, t \in Plain : <<s, t>> \in Seq(Plain)
  /\ \A s \in Plain, t \in Plain, u \in Plain : <<s, t, u>> \in Seq(Plain)
  OBVIOUS

LEMMA JoinIs ==
  ASSUME NEW s \in Seq(Plain), NEW t \in Seq(Plain)
  PROVE  s \o t \in Seq(Plain)
  BY ConcatProperties

LEMMA SyncIs == Sync \in Seq(Plain)
  BY TaskIs, ListIs DEF Sync

LEMMA TruncatedIs ==
  ASSUME NEW o \in Object, NEW n \in Nat
  PROVE  Truncated(o, n) \in Seq(Plain)
<1>1. o.first \in Nat /\ o.pos \in Nat /\ 0 \in Nat
  BY DEF Object
<1>2. Min({n, o.pos}) \in Nat
  BY <1>1, LeastIs
<1> DEFINE m == Min({n, o.pos})
           k == IF n = 0 THEN Task("free", o.first) ELSE Task("tail", 0)
<1> HIDE DEF m
<1>3. k \in Plain
  BY <1>1, TaskIs
<1>4. Task("seek", n) \in Plain /\ Task("shrink", n) \in Plain /\ Task("seek", m) \in Plain
  BY <1>2, TaskIs DEF m
<1> HIDE DEF k
<1>5. <<Task("seek", n), k, Task("shrink", n)>> \in Seq(Plain) /\ <<Task("seek", m)>> \in Seq(Plain)
  BY <1>3, <1>4, ListIs
<1>6. <<Task("seek", n), k, Task("shrink", n)>> \o Sync \in Seq(Plain)
  BY <1>5, SyncIs, JoinIs
<1>7. <<Task("seek", n), k, Task("shrink", n)>> \o Sync \o <<Task("seek", m)>> \in Seq(Plain)
  BY <1>5, <1>6, JoinIs
<1> QED
  BY <1>7, ListIs DEF Truncated, k, m

\* The task at hand: there is a file, and what follows is no creation.
LEMMA AtHand ==
  ASSUME IInv, ~Idle, ~Doing("create")
  PROVE  /\ who \in File /\ O \in Object
         /\ Head(todo) \in Plain /\ Rest \in Seq(Plain)
         /\ ~Doing("find") => Arg \in Nat
         /\ Doing("find") => Arg \in SUBSET Flags
<1>1. who \in File /\ O \in Object
  BY DEF IInv, Carried, Idle, O
<1>2. todo \in Seq(Plain)
  <2>1. ASSUME NEW s \in Seq(Plain), todo = <<Task("create", 0)>> \o s PROVE FALSE
    <3>1. Head(todo) = Task("create", 0)
      BY <2>1, ConcatProperties
    <3> QED
      BY <3>1 DEF Doing, Task
  <2> QED
    BY <2>1 DEF IInv, Carried
<1>3. Head(todo) \in Plain /\ Rest \in Seq(Plain)
  BY <1>2, HeadTailProperties DEF Idle, Rest
<1>4. (~Doing("find") => Arg \in Nat) /\ (Doing("find") => Arg \in SUBSET Flags)
  BY <1>3 DEF Plain, Doing, Arg, Idle
<1> QED
  BY <1>1, <1>3, <1>4

LEMMA CreateIs ==
  ASSUME IInv, Doing("create")
  PROVE  who \in File /\ O \in Object /\ ~O.open /\ Rest \in Seq(Plain)
<1>1. who \in File /\ O \in Object /\ todo # <<>>
  BY DEF IInv, Carried, Idle, O, Doing
<1>2. ~(todo \in Seq(Plain))
  <2>1. ASSUME todo \in Seq(Plain) PROVE FALSE
    <3>1. Head(todo) \in Plain
      BY <1>1, <2>1, HeadTailProperties
    <3> QED
      BY <3>1 DEF Plain, Doing
  <2> QED
    BY <2>1
<1>3. PICK s \in Seq(Plain) : todo = <<Task("create", 0)>> \o s /\ ~obj[who].open
  BY <1>2 DEF IInv, Carried
<1>4. Tail(<<Task("create", 0)>> \o s) = s
  OBVIOUS
<1> QED
  BY <1>1, <1>3, <1>4 DEF O, Rest

\* what is left of the call holds no creation of a file
Calm == todo \in Seq(Plain) /\ (todo # <<>> => who \in File)

LEMMA ThenIs ==
  ASSUME NEW tasks \in Seq(Plain), who \in File, Then(tasks)
  PROVE  Calm'
  BY DEF Then, Calm

LEMMA ReturnsIs ==
  ASSUME todo' = <<>>
  PROVE  Calm'
  BY ListIs DEF Calm

\* a step that leaves the objects and the directory alone
LEMMA ObjectsStay ==
  ASSUME IInv, Coherent(view', card', cache'), view'.entry = view.entry, obj' = obj, Calm'
  PROVE  IInv'
<1>1. obj' \in [File -> Object]
  BY DEF IInv
<1>2. Current(view', obj')
  BY DEF IInv, Current
<1>3. Carried(todo', who', obj')
  BY DEF Calm, Carried
<1> QED
  BY <1>1, <1>2, <1>3 DEF IInv

\* a step that changes the object of the call
LEMMA ObjectSet ==
  ASSUME IInv, who \in File, NEW o \in Object, Sets(o), Calm', Coherent(view', card', cache'),
         \A f \in File : f # who => view'.entry[f] = view.entry[f],
         o.open /\ ~o.dirDirty => view'.entry[who].first = o.first /\ view'.entry[who].size = o.size
  PROVE  IInv'
<1>1. obj \in [File -> Object] /\ obj' = [obj EXCEPT ![who] = o]
  BY DEF IInv, Sets
<1>2. obj' \in [File -> Object] /\ obj'[who] = o /\ \A f \in File : f # who => obj'[f] = obj[f]
  BY <1>1
<1>3. ASSUME NEW f \in File, obj'[f].open, ~obj'[f].dirDirty
      PROVE  view'.entry[f].first = obj'[f].first /\ view'.entry[f].size = obj'[f].size
  <2>1. CASE f = who
    BY <1>2, <1>3, <2>1
  <2>2. CASE f # who
    BY <1>2, <1>3, <2>2 DEF IInv, Current
  <2> QED
    BY <2>1, <2>2
<1>4. Current(view', obj')
  BY <1>3 DEF Current
<1>5. Carried(todo', who', obj')
  BY DEF Calm, Carried
<1> QED
  BY <1>2, <1>4, <1>5 DEF IInv

\* ... in what the directory does not hold
LEMMA ObjectMoved ==
  ASSUME IInv, who \in File, NEW o \in Object, Sets(o), Calm', Coherent(view', card', cache'),
         view'.entry = view.entry,
         o.open /\ ~o.dirDirty =>
           O.open /\ ~O.dirDirty /\ o.first = O.first /\ o.size = O.size
  PROVE  IInv'
<1>1. o.open /\ ~o.dirDirty => view.entry[who].first = o.first /\ view.entry[who].size = o.size
  BY DEF IInv, Current, O
<1>2. \A f \in File : f # who => view'.entry[f] = view.entry[f]
  OBVIOUS
<1> QED
  BY <1>1, <1>2, ObjectSet

LEMMA MovedIs ==
  ASSUME NEW o \in Object, NEW c \in Nat, NEW p \in Nat
  PROVE  /\ [o EXCEPT !.cur = c] \in Object /\ [o EXCEPT !.pos = p] \in Object
         /\ [o EXCEPT !.cur = c, !.pos = p] \in Object
         /\ \A u \in {[o EXCEPT !.cur = c], [o EXCEPT !.pos = p], [o EXCEPT !.cur = c, !.pos = p]} :
              u.open = o.open /\ u.dirDirty = o.dirDirty /\ u.first = o.first /\ u.size = o.size
<1>1. o = [open |-> o.open, mode |-> o.mode, first |-> o.first, cur |-> o.cur, pos |-> o.pos,
           size |-> o.size, dirDirty |-> o.dirDirty]
      /\ o.open \in BOOLEAN /\ o.mode \in SUBSET Flags /\ o.first \in Nat /\ o.cur \in Nat
      /\ o.pos \in Nat /\ o.size \in Nat /\ o.dirDirty \in BOOLEAN
  BY DEF Object
<1> DEFINE a == [open |-> o.open, mode |-> o.mode, first |-> o.first, cur |-> c, pos |-> o.pos,
                 size |-> o.size, dirDirty |-> o.dirDirty]
           b == [open |-> o.open, mode |-> o.mode, first |-> o.first, cur |-> o.cur, pos |-> p,
                 size |-> o.size, dirDirty |-> o.dirDirty]
           e == [open |-> o.open, mode |-> o.mode, first |-> o.first, cur |-> c, pos |-> p,
                 size |-> o.size, dirDirty |-> o.dirDirty]
<1>2. [o EXCEPT !.cur = c] = a /\ [o EXCEPT !.pos = p] = b /\ [o EXCEPT !.cur = c, !.pos = p] = e
  <2>1. [o EXCEPT !.cur = c] = a
    BY DEF Object
  <2>2. [o EXCEPT !.pos = p] = b
    BY DEF Object
  <2>3. [o EXCEPT !.cur = c, !.pos = p] = e
    <3>1. [o EXCEPT !.cur = c, !.pos = p] = [[o EXCEPT !.cur = c] EXCEPT !.pos = p]
      OBVIOUS
    <3>2. [a EXCEPT !.pos = p] = e
      OBVIOUS
    <3> QED
      BY <2>1, <3>1, <3>2
  <2> QED
    BY <2>1, <2>2, <2>3
<1>3. a \in Object /\ b \in Object /\ e \in Object
  BY <1>1 DEF Object
<1>4. \A u \in {a, b, e} :
        u.open = o.open /\ u.dirDirty = o.dirDirty /\ u.first = o.first /\ u.size = o.size
  OBVIOUS
<1> HIDE DEF a, b, e
<1> QED
  BY <1>2, <1>3, <1>4

\* entry c of the FAT
LEMMA EntryIs ==
  ASSUME Coherent(view, card, cache), NEW c, InFat(c)
  PROVE  Entry(c) \in Nat
  BY EocAssumption DEF Coherent, IsVolume, Entry, InFat

-----------------------------------------------------------------------------
(***************************************************************************)
(* The tasks                                                               *)
(***************************************************************************)
LEMMA AtTask ==
  ASSUME IInv, NEW d, Doing(d), d # "create", d # "find"
  PROVE  /\ who \in File /\ O \in Object /\ Rest \in Seq(Plain) /\ Arg \in Nat
         /\ Coherent(view, card, cache)
<1>1. ~Idle /\ ~Doing("create") /\ ~Doing("find")
  BY DEF Doing
<1> QED
  BY <1>1, AtHand DEF IInv

LEMMA SameVolume ==
  ASSUME Coherent(view, card, cache), UNCHANGED volume
  PROVE  Coherent(view', card', cache') /\ view'.entry = view.entry
  BY DEF volume

LEMMA FlushKeeps == IInv /\ DoFlush => IInv'
<1> SUFFICES ASSUME IInv, DoFlush PROVE IInv'
  OBVIOUS
<1>1. Doing("flush") /\ Then(Rest) /\ obj' = obj /\ view' = view
  BY DEF DoFlush
<1>2. who \in File /\ Rest \in Seq(Plain) /\ Coherent(view, card, cache)
  BY <1>1, AtTask
<1>3. card' = view /\ cache' = [block |-> cache.block, dirty |-> FALSE]
  BY <1>2 DEF DoFlush, FlushDone, Coherent
<1>4. Coherent(view', card', cache')
  BY <1>1, <1>2, <1>3, FlushedIs DEF Coherent
<1> QED
  BY <1>1, <1>2, <1>4, ThenIs, ObjectsStay

LEMMA LookKeeps == IInv /\ DoLook => IInv'
<1> SUFFICES ASSUME IInv, DoLook PROVE IInv'
  OBVIOUS
<1>1. Then(Rest) /\ obj' = obj /\ view' = view
  BY DEF DoLook
<1>2. who \in File /\ Rest \in Seq(Plain) /\ Coherent(view, card, cache)
  BY AtTask DEF DoLook
<1>3. Loads(DirBlock, TRUE) \/ Loads(DirBlock, FALSE)
  BY DEF DoLook
<1>4. Coherent(view', card', cache')
  BY <1>1, <1>2, <1>3, LoadedIs
<1> QED
  BY <1>1, <1>2, <1>4, ThenIs, ObjectsStay

LEMMA ClosedIs == Closed \in Object /\ ~Closed.open
<1>1. 0 \in Nat /\ {} \in SUBSET Flags
  OBVIOUS
<1> QED
  BY <1>1 DEF Closed, Object

LEMMA ShutKeeps == IInv /\ DoShut => IInv'
<1> SUFFICES ASSUME IInv, DoShut PROVE IInv'
  OBVIOUS
<1>1. Doing("shut") /\ Then(Rest) /\ Sets(Closed) /\ UNCHANGED volume
  BY DEF DoShut
<1>2. who \in File /\ Rest \in Seq(Plain) /\ Coherent(view, card, cache)
  BY <1>1, AtTask
<1>3. Coherent(view', card', cache') /\ view'.entry = view.entry
  BY <1>1, <1>2, SameVolume
<1> QED
  BY <1>1, <1>2, <1>3, ThenIs, ClosedIs, ObjectMoved

\* the directory with the entry of the call changed
LEMMA EntrySet ==
  ASSUME IInv, who \in File, NEW u \in [used : BOOLEAN, first : Nat, size : Nat],
         Loads(DirBlock, TRUE), view' = [view EXCEPT !.entry[who] = u]
  PROVE  /\ Coherent(view', card', cache') /\ view'.entry[who] = u
         /\ \A f \in File : f # who => view'.entry[f] = view.entry[f]
<1> DEFINE e == [view.entry EXCEPT ![who] = u]
<1>1. view.entry \in DirEntries /\ Coherent(view, card, cache)
      /\ view = [fat |-> view.fat, entry |-> view.entry, data |-> view.data]
  BY DEF IInv, Coherent, IsVolume
<1>2. view' = [view EXCEPT !.entry = e]
  BY <1>1
<1>3. e \in DirEntries /\ e[who] = u /\ \A f \in File : f # who => e[f] = view.entry[f]
  BY <1>1 DEF DirEntries
<1> HIDE DEF e
<1>4. Coherent(view', card', cache') /\ view'.entry = e
  BY <1>1, <1>2, <1>3, EntryPutIs
<1> QED
  BY <1>3, <1>4

LEMMA EntryFields ==
  ASSUME IInv, who \in File
  PROVE  /\ view.entry[who] \in [used : BOOLEAN, first : Nat, size : Nat]
         /\ view.entry[who].first \in Nat /\ view.entry[who].size \in Nat
         /\ view.entry[who].used \in BOOLEAN
<1>1. view.entry \in DirEntries
  BY DEF IInv, Coherent, IsVolume
<1>2. view.entry[who] \in [used : BOOLEAN, first : Nat, size : Nat]
  BY <1>1 DEF DirEntries
<1> QED
  BY <1>2

LEMMA EraseKeeps == IInv /\ DoErase => IInv'
<1> SUFFICES ASSUME IInv, DoErase PROVE IInv'
  OBVIOUS
<1>1. Doing("erase") /\ Then(Rest) /\ Sets(Closed) /\ Loads(DirBlock, TRUE)
      /\ view' = [view EXCEPT !.entry[who].used = FALSE]
  BY DEF DoErase
<1>2. who \in File /\ Rest \in Seq(Plain)
  BY <1>1, AtTask
<1> DEFINE e == view.entry[who]
           u == [used |-> FALSE, first |-> e.first, size |-> e.size]
<1>3. [e EXCEPT !.used = FALSE] = u /\ u \in [used : BOOLEAN, first : Nat, size : Nat]
  <2>1. e \in [used : BOOLEAN, first : Nat, size : Nat]
    BY <1>2, EntryFields
  <2> HIDE DEF e
  <2>2. e.first \in Nat /\ e.size \in Nat
    BY <2>1
  <2> DEFINE b == FALSE
  <2>3. b \in BOOLEAN
    OBVIOUS
  <2> HIDE DEF b
  <2>4. [e EXCEPT !.used = b] = [used |-> b, first |-> e.first, size |-> e.size]
    BY <2>1, <2>3
  <2>5. [e EXCEPT !.used = FALSE] = u
    BY <2>4 DEF b
  <2> QED
    BY <2>2, <2>5
<1>4. view' = [view EXCEPT !.entry[who] = [e EXCEPT !.used = FALSE]]
  BY <1>1
<1> HIDE DEF e, u
<1>5. view' = [view EXCEPT !.entry[who] = u]
  BY <1>3, <1>4
<1>6. Coherent(view', card', cache') /\ \A f \in File : f # who => view'.entry[f] = view.entry[f]
  BY <1>1, <1>2, <1>3, <1>5, EntrySet
<1> QED
  BY <1>1, <1>2, <1>6, ThenIs, ClosedIs, ObjectSet

LEMMA CreateKeeps == IInv /\ DoCreate => IInv'
<1> SUFFICES ASSUME IInv, DoCreate PROVE IInv'
  OBVIOUS
<1> DEFINE u == [used |-> TRUE, first |-> 0, size |-> 0]
<1>1. Doing("create") /\ Then(Rest) /\ obj' = obj /\ Loads(DirBlock, TRUE)
      /\ view' = [view EXCEPT !.entry[who] = u]
  BY DEF DoCreate
<1>2. who \in File /\ O \in Object /\ ~O.open /\ Rest \in Seq(Plain)
  BY <1>1, CreateIs
<1>3. u \in [used : BOOLEAN, first : Nat, size : Nat]
  OBVIOUS
<1> HIDE DEF u
<1>4. Coherent(view', card', cache') /\ \A f \in File : f # who => view'.entry[f] = view.entry[f]
  BY <1>1, <1>2, <1>3, EntrySet
<1>5. Sets(O)
  BY <1>1, <1>2 DEF Sets, O, IInv
<1>6. Calm'
  BY <1>1, <1>2, ThenIs
<1> QED
  BY <1>2, <1>4, <1>5, <1>6, ObjectSet

LEMMA SyncKeeps == IInv /\ DoSync => IInv'
<1> SUFFICES ASSUME IInv, DoSync PROVE IInv'
  OBVIOUS
<1>1. Doing("sync") /\ Then(Rest)
  BY DEF DoSync
<1>2. who \in File /\ O \in Object /\ Rest \in Seq(Plain) /\ Coherent(view, card, cache)
  BY <1>1, AtTask
<1>3. Calm'
  BY <1>1, <1>2, ThenIs
<1>4. CASE UNCHANGED <<volume, obj, cut>>
  <2>1. Coherent(view', card', cache') /\ view'.entry = view.entry
    BY <1>2, <1>4, SameVolume
  <2> QED
    BY <1>3, <1>4, <2>1, ObjectsStay
<1>5. CASE /\ O.dirDirty /\ Loads(DirBlock, TRUE)
           /\ view' = [view EXCEPT !.entry[who].first = O.first, !.entry[who].size = O.size]
           /\ Sets([O EXCEPT !.dirDirty = FALSE])
  <2> DEFINE e == view.entry[who]
             u == [used |-> e.used, first |-> O.first, size |-> O.size]
             o == [O EXCEPT !.dirDirty = FALSE]
  <2>1. O.first \in Nat /\ O.size \in Nat
    BY <1>2 DEF Object
  <2>2. e \in [used : BOOLEAN, first : Nat, size : Nat] /\ u \in [used : BOOLEAN, first : Nat, size : Nat]
    BY <1>2, <2>1, EntryFields
  <2>3. view' = [[view EXCEPT !.entry[who].first = O.first] EXCEPT !.entry[who].size = O.size]
    BY <1>5
  <2>4. view.entry \in DirEntries /\ view = [fat |-> view.fat, entry |-> view.entry, data |-> view.data]
    BY <1>2 DEF Coherent, IsVolume
  <2> DEFINE e1 == [view.entry EXCEPT ![who] = [e EXCEPT !.first = O.first]]
             e2 == [e1 EXCEPT ![who] = [e1[who] EXCEPT !.size = O.size]]
  <2>5. view' = [view EXCEPT !.entry = e2]
    <3> DEFINE v1 == [view EXCEPT !.entry[who].first = O.first]
    <3>1. v1 = [view EXCEPT !.entry = e1]
      BY <2>4
    <3>2. v1.entry = e1
      BY <2>4, <3>1
    <3>3. view' = [v1 EXCEPT !.entry[who].size = O.size]
      BY <2>3
    <3> HIDE DEF v1, e1
    <3>4. view' = [v1 EXCEPT !.entry = e2]
      BY <3>2, <3>3
    <3> HIDE DEF e2
    <3> QED
      BY <2>4, <3>1, <3>4
  <2>6. e2 = [view.entry EXCEPT ![who] = u]
    <3>1. e1[who] = [e EXCEPT !.first = O.first]
      BY <1>2, <2>4 DEF DirEntries
    <3>2. [e EXCEPT !.first = O.first] = [used |-> e.used, first |-> O.first, size |-> e.size]
      BY <2>2
    <3>3. [e1[who] EXCEPT !.size = O.size] = u
      BY <3>1, <3>2
    <3> HIDE DEF e, u
    <3> QED
      BY <3>3, <2>4 DEF DirEntries
  <2> HIDE DEF e2
  <2>7. view' = [view EXCEPT !.entry[who] = u]
    BY <2>5, <2>6
  <2>8. o \in Object /\ o.first = O.first /\ o.size = O.size
    BY <1>2 DEF Object
  <2>9. u.first = O.first /\ u.size = O.size
    OBVIOUS
  <2>10. Sets(o)
    BY <1>5
  <2> HIDE DEF u, e, o
  <2>11. /\ Coherent(view', card', cache') /\ view'.entry[who] = u
         /\ \A f \in File : f # who => view'.entry[f] = view.entry[f]
    BY <1>2, <1>5, <2>2, <2>7, EntrySet
  <2> QED
    BY <1>2, <1>3, <2>8, <2>9, <2>10, <2>11, ObjectSet
<1> QED
  BY <1>4, <1>5 DEF DoSync

LEMMA FindKeeps == IInv /\ DoFind => IInv'
<1> SUFFICES ASSUME IInv, DoFind PROVE IInv'
  OBVIOUS
<1> DEFINE e == view.entry[who]
           o == [open |-> TRUE, mode |-> Arg \ {"trunc"}, first |-> e.first, cur |-> 0, pos |-> 0,
                 size |-> e.size, dirDirty |-> FALSE]
<1>1. Doing("find") /\ Loads(DirBlock, FALSE) /\ Sets(o) /\ view' = view
      /\ Then(IF {"trunc", "write"} \subseteq Arg THEN Truncated(o, 0) ELSE <<>>)
  BY DEF DoFind
<1>2. ~Idle /\ ~Doing("create")
  BY <1>1 DEF Doing
<1>3. who \in File /\ Arg \in SUBSET Flags
  BY <1>1, <1>2, AtHand
<1>4. o \in Object
  <2>1. e.first \in Nat /\ e.size \in Nat /\ 0 \in Nat
    BY <1>3, EntryFields
  <2>2. Arg \ {"trunc"} \in SUBSET Flags
    BY <1>3
  <2> QED
    BY <2>1, <2>2 DEF Object
<1>5. Coherent(view', card', cache')
  BY <1>1, LoadedIs DEF IInv
<1>6. o.first = e.first /\ o.size = e.size
  OBVIOUS
<1> HIDE DEF o
<1>7. Truncated(o, 0) \in Seq(Plain)
  BY <1>4, TruncatedIs
<1>8. Calm'
  <2> DEFINE tasks == IF {"trunc", "write"} \subseteq Arg THEN Truncated(o, 0) ELSE <<>>
  <2>1. tasks \in Seq(Plain)
    BY <1>7, ListIs
  <2> HIDE DEF tasks
  <2>2. Then(tasks)
    BY <1>1 DEF tasks
  <2> QED
    BY <1>3, <2>1, <2>2, ThenIs
<1> QED
  BY <1>1, <1>3, <1>4, <1>5, <1>6, <1>8, ObjectSet

\* clusters to follow: a number when the seek does not go backwards
LEMMA CrossedIs ==
  ASSUME NEW p \in Nat \ {0}, NEW q \in Nat \ {0}
  PROVE  Crossed(p, q) \in Int /\ Crossed(1, q) \in Nat
<1>1. ClusterSize \in Nat \ {0} /\ p - 1 \in Nat /\ q - 1 \in Nat
  BY SizesAre
<1>2. (q - 1) \div ClusterSize \in Nat /\ (p - 1) \div ClusterSize \in Nat
  BY <1>1, DivisionIs
<1>3. (1 - 1) \div ClusterSize = 0
  <2>1. 0 \in Int /\ 0 \in 0 .. ClusterSize - 1
    BY <1>1
  <2>2. (0 * ClusterSize + 0) \div ClusterSize = 0
    BY <1>1, <2>1, QuotientIs
  <2>3. 0 * ClusterSize + 0 = 0 /\ 1 - 1 = 0
    BY <1>1
  <2> QED
    BY <2>2, <2>3
<1> QED
  BY <1>2, <1>3 DEF Crossed

LEMMA HopsAre ==
  ASSUME NEW n \in Nat
  PROVE  [i \in 1 .. n |-> Task("hop", 0)] \in Seq(Plain)
<1>1. Task("hop", 0) \in Plain
  BY TaskIs
<1>2. [i \in 1 .. n |-> Task("hop", 0)] \in [1 .. n -> Plain]
  BY <1>1
<1> QED
  BY <1>2, SeqDef

LEMMA SeekKeeps == IInv /\ DoSeek => IInv'
<1> SUFFICES ASSUME IInv, DoSeek PROVE IInv'
  OBVIOUS
<1> DEFINE restarts == O.pos = 0 \/ Crossed(O.pos, Arg) < 0
           hops == IF restarts THEN Crossed(1, Arg) ELSE Crossed(O.pos, Arg)
           onward == [i \in 1 .. hops |-> Task("hop", 0)] \o <<Task("arrive", Arg)>> \o Rest
<1>1. Doing("seek") /\ UNCHANGED volume
  BY DEF DoSeek
<1>2. who \in File /\ O \in Object /\ Rest \in Seq(Plain) /\ Arg \in Nat /\ Coherent(view, card, cache)
  BY <1>1, AtTask
<1>3. Coherent(view', card', cache') /\ view'.entry = view.entry
  BY <1>1, <1>2, SameVolume
<1>4. 0 \in Nat /\ O.first \in Nat /\ O.pos \in Nat
  BY <1>2 DEF Object
<1>5. CASE Arg > O.size /\ Returns /\ UNCHANGED <<obj, adrift>>
  BY <1>3, <1>5, ReturnsIs, ObjectsStay DEF Returns, Then
<1>6. CASE Arg = 0 /\ Sets([O EXCEPT !.cur = 0, !.pos = 0]) /\ Then(Rest)
  <2> DEFINE o == [O EXCEPT !.cur = 0, !.pos = 0]
  <2>1. o \in Object /\ o.open = O.open /\ o.dirDirty = O.dirDirty /\ o.first = O.first /\ o.size = O.size
    BY ZenonT(60), <1>2, <1>4, MovedIs
  <2>2. Sets(o)
    BY <1>6
  <2> HIDE DEF o
  <2> QED
    BY <1>2, <1>3, <1>6, <2>1, <2>2, ThenIs, ObjectMoved
<1>7. CASE /\ Arg > 0 /\ Then(onward)
           /\ IF restarts THEN Sets([O EXCEPT !.cur = O.first]) /\ adrift' = adrift \ {who}
              ELSE UNCHANGED <<obj, adrift>>
  <2>1. hops \in Nat
    <3>1. Arg \in Nat \ {0}
      BY <1>2, <1>7
    <3>2. CASE restarts
      BY <3>1, <3>2, CrossedIs
    <3>3. CASE ~restarts
      <4>1. O.pos \in Nat \ {0} /\ ~(Crossed(O.pos, Arg) < 0)
        BY <1>4, <3>3
      <4>2. Crossed(O.pos, Arg) \in Int
        BY <3>1, <4>1, CrossedIs
      <4> DEFINE x == Crossed(O.pos, Arg)
      <4> HIDE DEF x
      <4>3. x \in Nat
        BY <4>1, <4>2 DEF x
      <4> QED
        BY <3>3, <4>3 DEF x
    <3> QED
      BY <3>2, <3>3
  <2>2. onward \in Seq(Plain)
    <3> DEFINE s == [i \in 1 .. hops |-> Task("hop", 0)]
    <3>1. s \in Seq(Plain)
      BY <2>1, HopsAre
    <3>2. <<Task("arrive", Arg)>> \in Seq(Plain)
      BY <1>2, TaskIs, ListIs
    <3> HIDE DEF s, hops
    <3>3. s \o <<Task("arrive", Arg)>> \in Seq(Plain)
      BY <3>1, <3>2, JoinIs
    <3>4. s \o <<Task("arrive", Arg)>> \o Rest \in Seq(Plain)
      BY <1>2, <3>3, JoinIs
    <3> QED
      BY <3>4 DEF s
  <2> HIDE DEF onward, restarts
  <2>3. Calm'
    BY <1>2, <1>7, <2>2, ThenIs
  <2>4. CASE restarts
    <3> DEFINE o == [O EXCEPT !.cur = O.first]
    <3>1. o \in Object /\ o.open = O.open /\ o.dirDirty = O.dirDirty /\ o.first = O.first /\ o.size = O.size
      BY <1>2, <1>4, MovedIs
    <3>2. Sets(o)
      BY <1>7, <2>4
    <3> HIDE DEF o
    <3> QED
      BY <1>2, <1>3, <2>3, <3>1, <3>2, ObjectMoved
  <2>5. CASE ~restarts
    BY <1>3, <1>7, <2>3, <2>5, ObjectsStay
  <2> QED
    BY <2>4, <2>5
<1> QED
  BY <1>5, <1>6, <1>7 DEF DoSeek

\* the FAT is looked up
LEMMA FatRead ==
  ASSUME NEW c, Coherent(view, card, cache), Loads(FatBlock(c), FALSE), view' = view
  PROVE  Coherent(view', card', cache') /\ view'.entry = view.entry
  BY LoadedIs

LEMMA HopKeeps == IInv /\ DoHop => IInv'
<1> SUFFICES ASSUME IInv, DoHop PROVE IInv'
  OBVIOUS
<1> DEFINE o == [O EXCEPT !.cur = Entry(O.cur)]
<1>1. Doing("hop") /\ InFat(O.cur) /\ Loads(FatBlock(O.cur), FALSE) /\ Sets(o) /\ Then(Rest) /\ view' = view
  BY DEF DoHop
<1>2. who \in File /\ O \in Object /\ Rest \in Seq(Plain) /\ Coherent(view, card, cache)
  BY <1>1, AtTask
<1>3. Entry(O.cur) \in Nat /\ O.pos \in Nat
  BY <1>1, <1>2, EntryIs DEF Object
<1>4. o \in Object /\ o.open = O.open /\ o.dirDirty = O.dirDirty /\ o.first = O.first /\ o.size = O.size
  BY <1>2, <1>3, MovedIs
<1> HIDE DEF o
<1>5. Coherent(view', card', cache') /\ view'.entry = view.entry
  BY <1>1, <1>2, FatRead
<1> QED
  BY <1>1, <1>2, <1>4, <1>5, ThenIs, ObjectMoved

LEMMA ArriveKeeps == IInv /\ DoArrive => IInv'
<1> SUFFICES ASSUME IInv, DoArrive PROVE IInv'
  OBVIOUS
<1> DEFINE o == [O EXCEPT !.pos = Arg]
<1>1. Doing("arrive") /\ Sets(o) /\ Then(Rest) /\ UNCHANGED volume
  BY DEF DoArrive
<1>2. who \in File /\ O \in Object /\ Rest \in Seq(Plain) /\ Arg \in Nat /\ Coherent(view, card, cache)
  BY <1>1, AtTask
<1>3. o \in Object /\ o.open = O.open /\ o.dirDirty = O.dirDirty /\ o.first = O.first /\ o.size = O.size
  <2>1. O.cur \in Nat
    BY <1>2 DEF Object
  <2> QED
    BY <1>2, <2>1, MovedIs
<1> HIDE DEF o
<1>4. Coherent(view', card', cache') /\ view'.entry = view.entry
  BY <1>1, <1>2, SameVolume
<1> QED
  BY <1>1, <1>2, <1>3, <1>4, ThenIs, ObjectMoved

LEMMA ReadKeeps == IInv /\ DoRead => IInv'
<1> SUFFICES ASSUME IInv, DoRead PROVE IInv'
  OBVIOUS
<1>1. Doing("read")
  BY DEF DoRead
<1>2. who \in File /\ O \in Object /\ Rest \in Seq(Plain) /\ Arg \in Nat /\ Coherent(view, card, cache)
  BY <1>1, AtTask
<1>3. O.first \in Nat /\ O.pos \in Nat
  BY <1>2 DEF Object
<1>4. <<Task("copy", Arg)>> \in Seq(Plain)
  BY <1>2, TaskIs, ListIs
<1>5. CASE Returns /\ UNCHANGED <<volume, obj, cut>>
  <2>1. Calm'
    BY <1>5, ReturnsIs DEF Returns, Then
  <2>2. Coherent(view', card', cache') /\ view'.entry = view.entry
    BY <1>2, <1>5, SameVolume
  <2> QED
    BY <1>5, <2>1, <2>2, ObjectsStay
<1>6. CASE Then(<<Task("copy", Arg)>>) /\ UNCHANGED <<volume, obj, cut, got>>
  <2>1. Calm'
    BY <1>2, <1>4, <1>6, ThenIs
  <2>2. Coherent(view', card', cache') /\ view'.entry = view.entry
    BY <1>2, <1>6, SameVolume
  <2> QED
    BY <1>6, <2>1, <2>2, ObjectsStay
<1>7. CASE Sets([O EXCEPT !.cur = O.first]) /\ Then(<<Task("copy", Arg)>>) /\ UNCHANGED <<volume, cut, got>>
  <2> DEFINE o == [O EXCEPT !.cur = O.first]
  <2>1. o \in Object /\ o.open = O.open /\ o.dirDirty = O.dirDirty /\ o.first = O.first /\ o.size = O.size
    BY <1>2, <1>3, MovedIs
  <2>2. Sets(o)
    BY <1>7
  <2> HIDE DEF o
  <2>3. Calm'
    BY <1>2, <1>4, <1>7, ThenIs
  <2>4. Coherent(view', card', cache') /\ view'.entry = view.entry
    BY <1>2, <1>7, SameVolume
  <2> QED
    BY <1>2, <2>1, <2>2, <2>3, <2>4, ObjectMoved
<1>8. CASE /\ InFat(O.cur) /\ Loads(FatBlock(O.cur), FALSE)
           /\ Sets([O EXCEPT !.cur = Entry(O.cur)]) /\ Then(<<Task("copy", Arg)>>) /\ UNCHANGED <<view, got>>
  <2> DEFINE o == [O EXCEPT !.cur = Entry(O.cur)]
  <2>1. Entry(O.cur) \in Nat
    BY <1>2, <1>8, EntryIs
  <2>2. o \in Object /\ o.open = O.open /\ o.dirDirty = O.dirDirty /\ o.first = O.first /\ o.size = O.size
    BY <1>2, <1>3, <2>1, MovedIs
  <2>3. Sets(o)
    BY <1>8
  <2> HIDE DEF o
  <2>4. Calm'
    BY <1>2, <1>4, <1>8, ThenIs
  <2>5. Coherent(view', card', cache') /\ view'.entry = view.entry
    BY <1>2, <1>8, FatRead
  <2> QED
    BY <1>2, <2>2, <2>3, <2>4, <2>5, ObjectMoved
<1> QED
  BY <1>5, <1>6, <1>7, <1>8 DEF DoRead

\* the transfer goes on with what is left
LEMMA LeftIs ==
  ASSUME O \in Object, Arg \in Nat
  PROVE  O.pos + Piece \in Nat /\ Arg - Piece \in Nat
<1>1. O.pos \in Nat
  BY DEF Object
<1>2. Piece \in Nat /\ Piece <= Arg
  BY <1>1, PieceIs
<1> DEFINE n == Piece
           a == Arg
           p == O.pos
<1> HIDE DEF n, a, p
<1>3. n \in Nat /\ a \in Nat /\ p \in Nat /\ n <= a
  BY <1>1, <1>2 DEF n, a, p
<1>4. p + n \in Nat /\ a - n \in Nat
  BY <1>3
<1> QED
  BY <1>4 DEF n, a, p

LEMMA CopyKeeps == IInv /\ DoCopy => IInv'
<1> SUFFICES ASSUME IInv, DoCopy PROVE IInv'
  OBVIOUS
<1> DEFINE o == [O EXCEPT !.pos = O.pos + Piece]
<1>1. /\ Doing("copy") /\ (IF PastCache THEN UNCHANGED <<cache, card>> ELSE Loads(Here, FALSE))
      /\ Sets(o) /\ Then(<<Task("read", Arg - Piece)>>) /\ view' = view
  BY DEF DoCopy
<1>2. who \in File /\ O \in Object /\ Arg \in Nat /\ Coherent(view, card, cache)
  BY <1>1, AtTask
<1>3. O.pos + Piece \in Nat /\ Arg - Piece \in Nat /\ O.cur \in Nat
  BY <1>2, LeftIs DEF Object
<1>4. o \in Object /\ o.open = O.open /\ o.dirDirty = O.dirDirty /\ o.first = O.first /\ o.size = O.size
  BY <1>2, <1>3, MovedIs
<1> HIDE DEF o
<1>5. <<Task("read", Arg - Piece)>> \in Seq(Plain)
  BY <1>3, TaskIs, ListIs
<1>6. Coherent(view', card', cache') /\ view'.entry = view.entry
  <2>1. CASE PastCache
    BY <1>1, <1>2, <2>1
  <2>2. CASE ~PastCache
    BY <1>1, <1>2, <2>2, LoadedIs
  <2> QED
    BY <2>1, <2>2
<1> QED
  BY <1>1, <1>2, <1>4, <1>5, <1>6, ThenIs, ObjectMoved

LEMMA RangeKeeps == IInv /\ DoRange => IInv'
<1> SUFFICES ASSUME IInv, DoRange PROVE IInv'
  OBVIOUS
<1> DEFINE tasks == IF Entry(Arg) = Arg + 1 THEN <<Task("range", Arg + 1)>> ELSE <<>>
<1>1. Doing("range") /\ Loads(FatBlock(Arg), FALSE) /\ Then(tasks) /\ view' = view /\ obj' = obj
  BY DEF DoRange
<1>2. who \in File /\ Arg \in Nat /\ Coherent(view, card, cache)
  BY <1>1, AtTask
<1>3. tasks \in Seq(Plain)
  <2>1. Arg + 1 \in Nat
    BY <1>2
  <2> QED
    BY <2>1, TaskIs, ListIs
<1> HIDE DEF tasks
<1>4. Coherent(view', card', cache') /\ view'.entry = view.entry
  BY <1>1, <1>2, FatRead
<1> QED
  BY <1>1, <1>2, <1>3, <1>4, ThenIs, ObjectsStay

LEMMA GrownIs ==
  ASSUME NEW o \in Object
  PROVE  /\ Grown(o) \in Object
         /\ Grown(o).open /\ ~Grown(o).dirDirty =>
              o.open /\ ~o.dirDirty /\ Grown(o).first = o.first /\ Grown(o).size = o.size
<1> DEFINE m == Max({o.size, o.pos})
           d == o.dirDirty \/ o.pos > o.size \/ DateTime
           g == [open |-> o.open, mode |-> o.mode, first |-> o.first, cur |-> o.cur, pos |-> o.pos,
                 size |-> m, dirDirty |-> d]
<1>1. o.size \in Nat /\ o.pos \in Nat /\ o.open \in BOOLEAN /\ o.mode \in SUBSET Flags
      /\ o.first \in Nat /\ o.cur \in Nat
  BY DEF Object
<1>2. m = IF o.size >= o.pos THEN o.size ELSE o.pos
  BY <1>1, MostIs
<1>3. d \in BOOLEAN
  OBVIOUS
<1>4. ~d => ~o.dirDirty /\ ~(o.pos > o.size)
  OBVIOUS
<1>5. Grown(o) = [o EXCEPT !.size = m, !.dirDirty = d]
  BY DEF Grown
<1> HIDE DEF m, d
<1>6. m \in Nat
  BY <1>1, <1>2
<1>7. ~d => m = o.size
  BY <1>1, <1>2, <1>4
<1>8. Grown(o) = g
  <2> DEFINE a == [open |-> o.open, mode |-> o.mode, first |-> o.first, cur |-> o.cur,
                   pos |-> o.pos, size |-> m, dirDirty |-> o.dirDirty]
  <2>1. Grown(o) = [[o EXCEPT !.size = m] EXCEPT !.dirDirty = d]
    BY <1>5
  <2>2. [o EXCEPT !.size = m] = a
    BY DEF Object
  <2>3. [a EXCEPT !.dirDirty = d] = g
    OBVIOUS
  <2> QED
    BY <2>1, <2>2, <2>3
<1>9. g \in Object
  BY <1>1, <1>3, <1>6 DEF Object
<1>10. g.open = o.open /\ g.dirDirty = d /\ g.first = o.first /\ g.size = m
  OBVIOUS
<1> HIDE DEF g
<1> QED
  BY <1>4, <1>7, <1>8, <1>9, <1>10

LEMMA AddedIs ==
  ASSUME NEW o \in Object, NEW c \in Nat
  PROVE  /\ Added(o, c) \in Object
         /\ Added(o, c).open /\ ~Added(o, c).dirDirty =>
              o.open /\ ~o.dirDirty /\ Added(o, c).first = o.first /\ Added(o, c).size = o.size
<1> DEFINE n == IF o.first = 0 THEN c ELSE o.first
           d == o.dirDirty \/ o.first = 0
           g == [open |-> o.open, mode |-> o.mode, first |-> n, cur |-> c, pos |-> o.pos,
                 size |-> o.size, dirDirty |-> d]
<1>1. o.size \in Nat /\ o.pos \in Nat /\ o.open \in BOOLEAN /\ o.mode \in SUBSET Flags
      /\ o.first \in Nat
  BY DEF Object
<1>2. n \in Nat /\ d \in BOOLEAN
  BY <1>1
<1>3. ~d => ~o.dirDirty /\ n = o.first
  OBVIOUS
<1>4. Added(o, c) = [o EXCEPT !.cur = c, !.first = n, !.dirDirty = d]
  BY DEF Added
<1> HIDE DEF n, d
<1>5. Added(o, c) = g
  <2> DEFINE a == [open |-> o.open, mode |-> o.mode, first |-> o.first, cur |-> c,
                   pos |-> o.pos, size |-> o.size, dirDirty |-> o.dirDirty]
             b == [open |-> o.open, mode |-> o.mode, first |-> n, cur |-> c,
                   pos |-> o.pos, size |-> o.size, dirDirty |-> o.dirDirty]
  <2>1. Added(o, c) = [[[o EXCEPT !.cur = c] EXCEPT !.first = n] EXCEPT !.dirDirty = d]
    BY <1>4
  <2>2. [o EXCEPT !.cur = c] = a
    BY DEF Object
  <2>3. [a EXCEPT !.first = n] = b
    OBVIOUS
  <2>4. [b EXCEPT !.dirDirty = d] = g
    OBVIOUS
  <2> QED
    BY <2>1, <2>2, <2>3, <2>4
<1>6. g \in Object
  BY <1>1, <1>2 DEF Object
<1>7. g.open = o.open /\ g.dirDirty = d /\ g.first = n /\ g.size = o.size
  OBVIOUS
<1> HIDE DEF g
<1> QED
  BY <1>3, <1>5, <1>6, <1>7

LEMMA PutKeeps == IInv /\ DoPut => IInv'
<1> SUFFICES ASSUME IInv, DoPut PROVE IInv'
  OBVIOUS
<1> DEFINE filling == <<Task("fill", Arg)>>
           taking == <<Task("take", 0), Task("fill", Arg)>>
<1>1. Doing("put")
  BY DEF DoPut
<1>2. who \in File /\ O \in Object /\ Arg \in Nat /\ Coherent(view, card, cache)
  BY <1>1, AtTask
<1>3. O.first \in Nat /\ O.pos \in Nat
  BY <1>2 DEF Object
<1>4. filling \in Seq(Plain) /\ taking \in Seq(Plain)
  <2>1. Task("fill", Arg) \in Plain /\ Task("take", 0) \in Plain
    BY <1>2, TaskIs
  <2> QED
    BY <2>1, ListIs
<1> HIDE DEF filling, taking
<1>5. CASE /\ Sets(Grown(O)) /\ Then(IF "sync" \in O.mode THEN Sync ELSE <<>>)
           /\ UNCHANGED <<volume, cut>>
  <2> DEFINE tasks == IF "sync" \in O.mode THEN Sync ELSE <<>>
  <2>1. tasks \in Seq(Plain)
    BY SyncIs, ListIs
  <2>2. Then(tasks)
    BY <1>5
  <2> HIDE DEF tasks
  <2>3. Calm'
    BY <1>2, <2>1, <2>2, ThenIs
  <2>4. Coherent(view', card', cache') /\ view'.entry = view.entry
    BY <1>2, <1>5, SameVolume
  <2> QED
    BY <1>2, <1>5, <2>3, <2>4, GrownIs, ObjectMoved
<1>6. CASE (Then(filling) \/ Then(taking)) /\ obj' = obj
           /\ (UNCHANGED volume \/ (view' = view /\ Loads(FatBlock(O.cur), FALSE)))
  <2>1. Calm'
    BY <1>2, <1>4, <1>6, ThenIs
  <2>2. Coherent(view', card', cache') /\ view'.entry = view.entry
    BY <1>2, <1>6, SameVolume, FatRead
  <2> QED
    BY <1>6, <2>1, <2>2, ObjectsStay
<1>7. CASE Then(filling) /\ Sets([O EXCEPT !.cur = O.first]) /\ UNCHANGED volume
  <2> DEFINE o == [O EXCEPT !.cur = O.first]
  <2>1. o \in Object /\ o.open = O.open /\ o.dirDirty = O.dirDirty /\ o.first = O.first /\ o.size = O.size
    BY <1>2, <1>3, MovedIs
  <2>2. Sets(o)
    BY <1>7
  <2> HIDE DEF o
  <2>3. Calm'
    BY <1>2, <1>4, <1>7, ThenIs
  <2>4. Coherent(view', card', cache') /\ view'.entry = view.entry
    BY <1>2, <1>7, SameVolume
  <2> QED
    BY <1>2, <2>1, <2>2, <2>3, <2>4, ObjectMoved
<1>8. CASE /\ O.cur \in Cluster /\ Loads(FatBlock(O.cur), FALSE) /\ view' = view
           /\ Then(filling) /\ Sets([O EXCEPT !.cur = Entry(O.cur)])
  <2> DEFINE o == [O EXCEPT !.cur = Entry(O.cur)]
  <2>1. Entry(O.cur) \in Nat
    BY <1>2, <1>8, EntryIs DEF InFat
  <2>2. o \in Object /\ o.open = O.open /\ o.dirDirty = O.dirDirty /\ o.first = O.first /\ o.size = O.size
    BY <1>2, <1>3, <2>1, MovedIs
  <2>3. Sets(o)
    BY <1>8
  <2> HIDE DEF o
  <2>4. Calm'
    BY <1>2, <1>4, <1>8, ThenIs
  <2>5. Coherent(view', card', cache') /\ view'.entry = view.entry
    BY <1>2, <1>8, FatRead
  <2> QED
    BY <1>2, <2>2, <2>3, <2>4, <2>5, ObjectMoved
<1>9. CASE /\ O.cur \in Cluster /\ Loads(FatBlock(O.cur), FALSE) /\ view' = view
           /\ IF Entry(O.cur) = Eoc THEN Then(taking) /\ UNCHANGED obj
              ELSE Then(filling) /\ Sets([O EXCEPT !.cur = Entry(O.cur)])
  <2>1. CASE Entry(O.cur) = Eoc
    BY <1>6, <1>9, <2>1
  <2>2. CASE Entry(O.cur) # Eoc
    BY <1>8, <1>9, <2>2
  <2> QED
    BY <2>1, <2>2
<1>10. CASE /\ IF O.first = 0 THEN Then(taking) /\ UNCHANGED obj
               ELSE Then(filling) /\ Sets([O EXCEPT !.cur = O.first])
            /\ UNCHANGED <<volume, cut>>
  <2>1. CASE O.first = 0
    <3>1. obj' = obj /\ UNCHANGED volume /\ Then(taking)
      BY <1>10, <2>1
    <3> QED
      BY <1>6, <3>1, Zenon
  <2>2. CASE O.first # 0
    BY <1>7, <1>10, <2>2
  <2> QED
    BY <2>1, <2>2
<1>11. CASE Then(filling) /\ UNCHANGED <<volume, obj, cut>>
  <2>1. obj' = obj /\ UNCHANGED volume
    BY <1>11
  <2> QED
    BY <1>6, <1>11, <2>1, Zenon
<1> QED
  BY <1>5, <1>9, <1>10, <1>11, Zenon DEF DoPut, filling, taking

LEMMA TakeKeeps == IInv /\ DoTake => IInv'
<1> SUFFICES ASSUME IInv, DoTake PROVE IInv'
  OBVIOUS
<1>1. Doing("take")
  BY DEF DoTake
<1>2. who \in File /\ O \in Object /\ Rest \in Seq(Plain) /\ Coherent(view, card, cache)
  BY <1>1, AtTask
<1>3. CASE \E c \in Cluster : Loads(FatBlock(c), FALSE) /\ UNCHANGED <<view, obj, call>>
  <2>1. Coherent(view', card', cache') /\ view'.entry = view.entry
    BY <1>2, <1>3, FatRead
  <2>2. Carried(todo', who', obj')
    BY <1>3 DEF IInv, call
  <2> QED
    BY <1>3, <2>1, <2>2 DEF IInv, Current
<1>4. CASE \E c \in Cluster :
             /\ Puts(c, Eoc)
             /\ IF O.cur = 0 THEN Sets(Added(O, c)) /\ Then(Rest)
                ELSE UNCHANGED obj /\ Then(<<Task("tie", c)>> \o Rest)
  <2>1. PICK c \in Cluster :
             /\ Puts(c, Eoc)
             /\ IF O.cur = 0 THEN Sets(Added(O, c)) /\ Then(Rest)
                ELSE UNCHANGED obj /\ Then(<<Task("tie", c)>> \o Rest)
    BY <1>4
  <2>2. c \in Nat /\ Eoc \in Nat
    BY EocAssumption DEF Cluster
  <2>3. Coherent(view', card', cache') /\ view'.entry = view.entry
    BY <1>2, <2>1, <2>2, PutsIs
  <2>4. CASE O.cur = 0
    BY <1>2, <2>1, <2>2, <2>3, <2>4, AddedIs, ThenIs, ObjectMoved
  <2>5. CASE O.cur # 0
    <3>1. <<Task("tie", c)>> \o Rest \in Seq(Plain)
      BY <1>2, <2>2, TaskIs, ListIs, JoinIs
    <3> QED
      BY <1>2, <2>1, <2>3, <2>5, <3>1, ThenIs, ObjectsStay
  <2> QED
    BY <2>4, <2>5
<1>5. CASE (\E c \in Cluster : Loads(FatBlock(c), FALSE)) /\ Returns /\ UNCHANGED <<view, obj>>
  <2>1. Coherent(view', card', cache') /\ view'.entry = view.entry
    BY <1>2, <1>5, FatRead
  <2> QED
    BY <1>5, <2>1, ReturnsIs, ObjectsStay DEF Returns, Then
<1> QED
  BY <1>3, <1>4, <1>5 DEF DoTake

LEMMA TieKeeps == IInv /\ DoTie => IInv'
<1> SUFFICES ASSUME IInv, DoTie PROVE IInv'
  OBVIOUS
<1>1. Doing("tie") /\ Puts(O.cur, Arg) /\ Sets(Added(O, Arg)) /\ Then(Rest)
  BY DEF DoTie
<1>2. who \in File /\ O \in Object /\ Rest \in Seq(Plain) /\ Arg \in Nat /\ Coherent(view, card, cache)
  BY <1>1, AtTask
<1>3. Coherent(view', card', cache') /\ view'.entry = view.entry
  BY <1>1, <1>2, PutsIs
<1> QED
  BY <1>1, <1>2, <1>3, AddedIs, ThenIs, ObjectMoved

LEMMA FillKeeps == IInv /\ DoFill => IInv'
<1> SUFFICES ASSUME IInv, DoFill PROVE IInv'
  OBVIOUS
<1> DEFINE o == [O EXCEPT !.pos = O.pos + Piece]
<1>1. Doing("fill") /\ Sets(o) /\ Then(<<Task("put", Arg - Piece)>>)
  BY DEF DoFill
<1>2. who \in File /\ O \in Object /\ Arg \in Nat /\ Coherent(view, card, cache)
  BY <1>1, AtTask
<1>3. O.pos + Piece \in Nat /\ Arg - Piece \in Nat /\ O.cur \in Nat /\ O.pos \in Nat
  BY <1>2, LeftIs DEF Object
<1>4. o \in Object /\ o.open = O.open /\ o.dirDirty = O.dirDirty /\ o.first = O.first /\ o.size = O.size
  BY <1>2, <1>3, MovedIs
<1> HIDE DEF o
<1>5. <<Task("put", Arg - Piece)>> \in Seq(Plain)
  BY <1>3, TaskIs, ListIs
<1>6. Coherent(view', card', cache') /\ view'.entry = view.entry
  BY <1>2, <1>3, FillIs
<1> QED
  BY <1>1, <1>2, <1>4, <1>5, <1>6, ThenIs, ObjectMoved

LEMMA TailKeeps == IInv /\ DoTail => IInv'
<1> SUFFICES ASSUME IInv, DoTail PROVE IInv'
  OBVIOUS
<1> DEFINE tasks == IF Entry(O.cur) = Eoc THEN <<>> ELSE <<Task("free", Entry(O.cur)), Task("end", 0)>>
<1>1. /\ Doing("tail") /\ InFat(O.cur) /\ Loads(FatBlock(O.cur), FALSE)
      /\ Then(tasks \o Rest) /\ view' = view /\ obj' = obj
  BY DEF DoTail
<1>2. who \in File /\ Rest \in Seq(Plain) /\ Coherent(view, card, cache)
  BY <1>1, AtTask
<1>3. tasks \in Seq(Plain)
  <2>1. Entry(O.cur) \in Nat
    BY <1>1, <1>2, EntryIs
  <2>2. Task("free", Entry(O.cur)) \in Plain /\ Task("end", 0) \in Plain
    BY <2>1, TaskIs
  <2> QED
    BY <2>2, ListIs
<1> HIDE DEF tasks
<1>4. tasks \o Rest \in Seq(Plain)
  BY <1>2, <1>3, JoinIs
<1>5. Coherent(view', card', cache') /\ view'.entry = view.entry
  BY <1>1, <1>2, FatRead
<1> QED
  BY <1>1, <1>2, <1>4, <1>5, ThenIs, ObjectsStay

LEMMA FreeKeeps == IInv /\ DoFree => IInv'
<1> SUFFICES ASSUME IInv, DoFree PROVE IInv'
  OBVIOUS
<1> DEFINE tasks == IF Entry(Arg) = Eoc THEN <<>> ELSE <<Task("free", Entry(Arg))>>
<1>1. Doing("free") /\ Arg \in Cluster /\ Puts(Arg, Free) /\ Then(tasks \o Rest) /\ obj' = obj
  BY DEF DoFree
<1>2. who \in File /\ Rest \in Seq(Plain) /\ Coherent(view, card, cache)
  BY <1>1, AtTask
<1>3. tasks \in Seq(Plain)
  <2>1. Entry(Arg) \in Nat
    BY <1>1, <1>2, EntryIs DEF InFat
  <2> QED
    BY <2>1, TaskIs, ListIs
<1> HIDE DEF tasks
<1>4. tasks \o Rest \in Seq(Plain)
  BY <1>2, <1>3, JoinIs
<1>5. Coherent(view', card', cache') /\ view'.entry = view.entry
  BY <1>1, <1>2, PutsIs DEF Free
<1> QED
  BY <1>1, <1>2, <1>4, <1>5, ThenIs, ObjectsStay

LEMMA EndKeeps == IInv /\ DoEnd => IInv'
<1> SUFFICES ASSUME IInv, DoEnd PROVE IInv'
  OBVIOUS
<1>1. Doing("end") /\ Puts(O.cur, Eoc) /\ Then(Rest) /\ obj' = obj
  BY DEF DoEnd
<1>2. who \in File /\ Rest \in Seq(Plain) /\ Coherent(view, card, cache)
  BY <1>1, AtTask
<1>3. Coherent(view', card', cache') /\ view'.entry = view.entry
  BY <1>1, <1>2, PutsIs, EocAssumption
<1> QED
  BY <1>1, <1>2, <1>3, ThenIs, ObjectsStay

LEMMA ShrinkKeeps == IInv /\ DoShrink => IInv'
<1> SUFFICES ASSUME IInv, DoShrink PROVE IInv'
  OBVIOUS
<1> DEFINE o == [O EXCEPT !.size = Arg, !.first = IF Arg = 0 THEN 0 ELSE O.first, !.dirDirty = TRUE]
<1>1. Doing("shrink") /\ Sets(o) /\ Then(Rest) /\ UNCHANGED volume
  BY DEF DoShrink
<1>2. who \in File /\ O \in Object /\ Rest \in Seq(Plain) /\ Arg \in Nat /\ Coherent(view, card, cache)
  BY <1>1, AtTask
<1>3. o \in Object /\ o.dirDirty = TRUE
  <2> DEFINE n == IF Arg = 0 THEN 0 ELSE O.first
             d == TRUE
  <2>1. n \in Nat /\ d \in BOOLEAN
    BY <1>2 DEF Object
  <2>2. o = [[[O EXCEPT !.size = Arg] EXCEPT !.first = n] EXCEPT !.dirDirty = d]
    BY <1>2
  <2> HIDE DEF n, d, o
  <2>3. [O EXCEPT !.size = Arg] \in Object
    BY <1>2 DEF Object
  <2>4. \A x \in Object : [x EXCEPT !.first = n] \in Object
    BY <2>1 DEF Object
  <2>5. \A x \in Object : [x EXCEPT !.dirDirty = d] \in Object /\ [x EXCEPT !.dirDirty = d].dirDirty = d
    BY <2>1 DEF Object
  <2> QED
    BY <2>2, <2>3, <2>4, <2>5 DEF d
<1> HIDE DEF o
<1>4. Coherent(view', card', cache') /\ view'.entry = view.entry
  BY <1>1, <1>2, SameVolume
<1> QED
  BY <1>1, <1>2, <1>3, <1>4, ThenIs, ObjectMoved

-----------------------------------------------------------------------------
(***************************************************************************)
(* Calls, failures and losses of power                                     *)
(***************************************************************************)
LEMMA StartIs ==
  ASSUME IInv, NEW f \in File, NEW tasks \in Seq(Plain), Starts(f, tasks)
  PROVE  IInv'
<1>1. todo' = tasks /\ (tasks # <<>> => who' = f) /\ UNCHANGED <<view, card, cache, obj>>
  BY DEF Starts, volume
<1>2. Calm'
  BY <1>1 DEF Calm
<1> QED
  BY <1>1, <1>2, ObjectsStay DEF IInv

LEMMA RefuseIs ==
  ASSUME IInv, Refuses
  PROVE  IInv'
<1>1. todo' = <<>> /\ UNCHANGED <<view, card, cache, obj>>
  BY DEF Refuses, Starts, volume
<1> QED
  BY <1>1, ReturnsIs, ObjectsStay DEF IInv

LEMMA ObjectIs ==
  ASSUME IInv, NEW f \in File
  PROVE  obj[f] \in Object /\ obj[f].pos \in Nat /\ obj[f].size \in Nat /\ obj[f].first \in Nat
<1>1. obj[f] \in Object
  BY DEF IInv
<1> QED
  BY <1>1 DEF Object

LEMMA OpenKeeps ==
  ASSUME IInv, NEW f \in File, NEW m \in Modes, Open(f, m)
  PROVE  IInv'
<1>1. m \in SUBSET Flags
  BY ModesAssumption DEF Flags
<1>2. Task("find", m) \in Plain /\ Task("flush", 0) \in Plain
  BY <1>1, TaskIs
<1>3. CASE Starts(f, <<Task("find", m)>>)
  BY <1>2, <1>3, ListIs, StartIs
<1>4. CASE Starts(f, <<Task("create", 0), Task("flush", 0), Task("find", m)>>)
  <2> DEFINE s == <<Task("flush", 0), Task("find", m)>>
             tasks == <<Task("create", 0), Task("flush", 0), Task("find", m)>>
  <2>1. s \in Seq(Plain)
    BY <1>2, ListIs
  <2>2. tasks = <<Task("create", 0)>> \o s
    OBVIOUS
  <2>3. todo' = tasks /\ who' = f /\ obj' = obj /\ UNCHANGED <<view, card, cache>>
    BY <1>4 DEF Starts, volume
  <2>4. ~obj[f].open
    BY DEF Open
  <2> HIDE DEF s, tasks
  <2>5. \E r \in Seq(Plain) : todo' = <<Task("create", 0)>> \o r /\ ~obj'[who'].open
    BY <2>1, <2>2, <2>3, <2>4
  <2>6. Carried(todo', who', obj')
    BY <2>3, <2>5 DEF Carried
  <2> QED
    BY <2>3, <2>6 DEF IInv, Current
<1> QED
  BY <1>3, <1>4 DEF Open

LEMMA RewindKeeps ==
  ASSUME IInv, NEW f \in File, Rewind(f)
  PROVE  IInv'
<1> DEFINE o == obj[f]
           o2 == [o EXCEPT !.cur = 0, !.pos = 0]
<1>1. o \in Object /\ 0 \in Nat
  BY ObjectIs
<1>2. o2 \in Object /\ o2.open = o.open /\ o2.dirDirty = o.dirDirty /\ o2.first = o.first /\ o2.size = o.size
  BY ZenonT(60), <1>1, MovedIs
<1>3. obj \in [File -> Object]
  BY DEF IInv
<1>4. obj' = [obj EXCEPT ![f] = o2]
  <2> DEFINE p == [o EXCEPT !.pos = 0]
             ob == [obj EXCEPT ![f] = p]
  <2>1. obj' = [obj EXCEPT ![f].pos = 0, ![f].cur = 0]
    BY DEF Rewind
  <2>2. obj' = [[obj EXCEPT ![f].pos = 0] EXCEPT ![f].cur = 0]
    BY <2>1
  <2>3. [obj EXCEPT ![f].pos = 0] = ob
    OBVIOUS
  <2>4. ob[f] = p
    BY <1>3
  <2>5. obj' = [ob EXCEPT ![f] = [p EXCEPT !.cur = 0]]
    BY <2>2, <2>3, <2>4
  <2>6. [p EXCEPT !.cur = 0] = o2
    BY <1>1 DEF Object
  <2> HIDE DEF p, o2
  <2> QED
    BY <1>3, <2>5, <2>6
<1> HIDE DEF o, o2
<1>5. obj' \in [File -> Object] /\ obj'[f] = o2 /\ \A g \in File : g # f => obj'[g] = obj[g]
  BY <1>2, <1>3, <1>4
<1>6. UNCHANGED <<view, card, cache, todo, who>> /\ todo = <<>>
  BY DEF Rewind, volume, call, Followed, Idle
<1>7. Current(view', obj')
  <2>1. ASSUME NEW g \in File, obj'[g].open, ~obj'[g].dirDirty
        PROVE  view'.entry[g].first = obj'[g].first /\ view'.entry[g].size = obj'[g].size
    <3>1. CASE g = f
      BY <1>2, <1>5, <1>6, <2>1, <3>1 DEF IInv, Current, o
    <3>2. CASE g # f
      BY <1>5, <1>6, <2>1, <3>2 DEF IInv, Current
    <3> QED
      BY <3>1, <3>2
  <2> QED
    BY <2>1 DEF Current
<1>8. Carried(todo', who', obj')
  BY <1>6, ListIs DEF Carried
<1> QED
  BY <1>5, <1>6, <1>7, <1>8 DEF IInv

LEMMA ReadsKeep ==
  ASSUME IInv, NEW f \in File, NEW n \in Sizes, Read(f, n)
  PROVE  IInv'
<1> DEFINE o == obj[f]
           left == IF o.pos <= o.size THEN Min({n, o.size - o.pos}) ELSE n
<1>1. IF "read" \in o.mode THEN Starts(f, <<Task("read", left)>>) ELSE Refuses
  BY DEF Read
<1>2. left \in Nat
  <2>1. n \in Nat /\ o.pos \in Nat /\ o.size \in Nat
    BY ObjectIs, CountAssumption
  <2>2. CASE o.pos <= o.size
    <3> DEFINE a == o.size - o.pos
    <3>1. a \in Nat
      BY <2>1, <2>2
    <3>2. Min({n, a}) \in Nat
      BY <2>1, <3>1, LeastIs
    <3> QED
      BY <2>2, <3>2
  <2>3. CASE ~(o.pos <= o.size)
    BY <2>1, <2>3
  <2> QED
    BY <2>2, <2>3
<1> HIDE DEF left
<1>3. <<Task("read", left)>> \in Seq(Plain)
  BY <1>2, TaskIs, ListIs
<1> QED
  BY <1>1, <1>3, StartIs, RefuseIs

LEMMA WriteKeeps ==
  ASSUME IInv, NEW f \in File, NEW n \in Sizes, Write(f, n)
  PROVE  IInv'
<1> DEFINE o == obj[f]
           atEnd == IF "append" \in o.mode /\ o.pos # o.size THEN <<Task("seek", o.size)>> ELSE <<>>
<1>1. IF Writable(f) THEN Starts(f, atEnd \o <<Task("put", n)>>) ELSE Refuses
  BY DEF Write
<1>2. n \in Nat /\ o.size \in Nat
  BY ObjectIs, CountAssumption
<1>3. atEnd \in Seq(Plain)
  BY <1>2, TaskIs, ListIs
<1> HIDE DEF atEnd
<1>4. atEnd \o <<Task("put", n)>> \in Seq(Plain)
  BY <1>2, <1>3, TaskIs, ListIs, JoinIs
<1> QED
  BY <1>1, <1>4, StartIs, RefuseIs

LEMMA CallsKeep ==
  ASSUME IInv, NEW f \in File, Calls(f)
  PROVE  IInv'
<1> DEFINE shut == Sync \o <<Task("shut", 0)>>
           look == Sync \o <<Task("look", 0)>>
           stamp == <<Task("stamp", 0)>> \o Sync
<1>1. shut \in Seq(Plain) /\ look \in Seq(Plain) /\ stamp \in Seq(Plain)
  <2>1. 0 \in Nat
    OBVIOUS
  <2>2. <<Task("shut", 0)>> \in Seq(Plain) /\ <<Task("look", 0)>> \in Seq(Plain)
        /\ <<Task("stamp", 0)>> \in Seq(Plain)
    BY <2>1, TaskIs, ListIs
  <2> QED
    BY <2>2, SyncIs, JoinIs
<1>2. CASE \E m \in Modes : Open(f, m)
  BY <1>2, OpenKeeps
<1>3. CASE Close(f) \/ SyncFile(f) \/ DirEntry(f) \/ Timestamp(f)
  <2>1. Starts(f, shut) \/ Starts(f, Sync) \/ Starts(f, look) \/ Starts(f, stamp)
    BY <1>3 DEF Close, SyncFile, DirEntry, Timestamp
  <2> HIDE DEF shut, look, stamp
  <2> QED
    BY <1>1, <2>1, SyncIs, StartIs
<1>4. CASE Rewind(f)
  BY <1>4, RewindKeeps
<1>5. CASE ContiguousRange(f)
  <2>1. <<Task("range", obj[f].first)>> \in Seq(Plain)
    BY ObjectIs, TaskIs, ListIs
  <2> QED
    BY <1>5, <2>1, StartIs, RefuseIs DEF ContiguousRange
<1>6. ASSUME NEW p \in Places, SeekSet(f, p) PROVE IInv'
  <2>1. <<Task("seek", p)>> \in Seq(Plain)
    BY CountAssumption, TaskIs, ListIs
  <2> QED
    BY <1>6, <2>1, StartIs DEF SeekSet
<1>7. ASSUME NEW p \in Places, Truncate(f, p) PROVE IInv'
  <2>1. p \in Nat /\ obj[f] \in Object
    BY CountAssumption, ObjectIs
  <2>2. Truncated(obj[f], p) \in Seq(Plain)
    BY <2>1, TruncatedIs
  <2> QED
    BY <1>7, <2>2, StartIs, RefuseIs DEF Truncate
<1>8. CASE Remove(f)
  <2> DEFINE s == Truncated(obj[f], 0)
             e == <<Task("erase", 0), Task("flush", 0)>>
  <2>1. 0 \in Nat /\ obj[f] \in Object
    BY ObjectIs
  <2>2. s \in Seq(Plain)
    BY <2>1, TruncatedIs
  <2>3. e \in Seq(Plain)
    BY <2>1, TaskIs, ListIs
  <2>4. IF Writable(f) THEN Starts(f, s \o e) ELSE Refuses
    BY <1>8 DEF Remove
  <2> HIDE DEF s, e
  <2> QED
    BY <2>2, <2>3, <2>4, JoinIs, StartIs, RefuseIs
<1> QED
  BY <1>2, <1>3, <1>4, <1>5, <1>6, <1>7, <1>8, ReadsKeep, WriteKeeps DEF Calls

LEMMA CacheFailsKeeps == IInv /\ CacheFails => IInv'
<1> SUFFICES ASSUME IInv, CacheFails PROVE IInv'
  OBVIOUS
<1>1. view' = view /\ todo' = <<>> /\ obj' = obj
  BY DEF CacheFails, Failing, CallFails
<1>2. FlushFails \/ \E b \in Needed : LoadFails(b)
  BY DEF CacheFails
<1>3. Coherent(view', card', cache')
  BY <1>1, <1>2, FlushFailsIs, LoadFailsIs DEF IInv
<1> QED
  BY <1>1, <1>3, ReturnsIs, ObjectsStay

LEMMA PastCacheFailsKeeps == IInv /\ PastCacheFails => IInv'
<1> SUFFICES ASSUME IInv, PastCacheFails PROVE IInv'
  OBVIOUS
<1>1. todo' = <<>> /\ obj' = obj /\ (Doing("copy") \/ Doing("fill"))
  BY DEF PastCacheFails, Failing, CallFails
<1>2. O \in Object /\ Arg \in Nat /\ Coherent(view, card, cache)
  BY <1>1, AtTask
<1>3. O.pos \in Nat
  BY <1>2 DEF Object
<1> QED
  BY <1>1, <1>2, <1>3, PastFailsIs, ReturnsIs, ObjectsStay

LEMMA GivenUpKeeps == IInv /\ (NotInFat \/ Elsewhere) => IInv'
<1> SUFFICES ASSUME IInv, NotInFat \/ Elsewhere PROVE IInv'
  OBVIOUS
<1>1. todo' = <<>> /\ obj' = obj /\ UNCHANGED volume
  BY DEF NotInFat, Elsewhere, CallFails
<1>2. Coherent(view', card', cache') /\ view'.entry = view.entry
  BY <1>1, SameVolume DEF IInv
<1> QED
  BY <1>1, <1>2, ReturnsIs, ObjectsStay

LEMMA PowerLossKeeps == IInv /\ PowerLoss => IInv'
<1> SUFFICES ASSUME IInv, PowerLoss PROVE IInv'
  OBVIOUS
<1>1. view' = card /\ card' = card /\ cache' = [block |-> NoBlock, dirty |-> FALSE]
      /\ obj' = [f \in File |-> Closed] /\ todo' = <<>>
  BY DEF PowerLoss
<1>2. Coherent(view', card', cache')
  BY <1>1, FlushedIs DEF IInv, Coherent
<1>3. obj' \in [File -> Object]
  BY <1>1, ClosedIs
<1>4. Current(view', obj')
  BY <1>1, ClosedIs DEF Current
<1>5. Carried(todo', who', obj')
  BY <1>1, ListIs DEF Carried
<1> QED
  BY <1>2, <1>3, <1>4, <1>5 DEF IInv

LEMMA StutterKeeps == IInv /\ UNCHANGED vars => IInv'
<1> SUFFICES ASSUME IInv, UNCHANGED vars PROVE IInv'
  OBVIOUS
<1>1. UNCHANGED <<view, card, cache, obj, todo, who>>
  BY DEF vars, volume, call
<1> QED
  BY <1>1 DEF IInv, Current

LEMMA InitHolds == Init => IInv
<1> SUFFICES ASSUME Init PROVE IInv
  OBVIOUS
<1> DEFINE fat == [c \in Cluster |-> Free]
           entry == [f \in File |-> [used |-> FALSE, first |-> 0, size |-> 0]]
           data == [c \in Cluster |-> [i \in 0 .. ClusterSize - 1 |-> Nothing]]
<1>1. view = [fat |-> fat, entry |-> entry, data |-> data] /\ card = view
      /\ cache = [block |-> NoBlock, dirty |-> FALSE]
  BY DEF Init
<1>2. fat \in [Cluster -> Nat] /\ entry \in DirEntries
  BY DEF Free, DirEntries
<1>3. DOMAIN data = Cluster /\ \A c \in Cluster : DOMAIN data[c] = 0 .. ClusterSize - 1
  OBVIOUS
<1> HIDE DEF fat, entry, data
<1>4. view.fat = fat /\ view.entry = entry /\ view.data = data
  BY <1>1
<1>5. IsVolume(view)
  BY <1>1, <1>2, <1>3, <1>4 DEF IsVolume
<1>6. Coherent(view, card, cache)
  BY <1>1, <1>5, FlushedIs
<1>7. obj = [f \in File |-> Closed] /\ todo = <<>>
  BY DEF Init
<1>8. obj \in [File -> Object] /\ Current(view, obj)
  BY <1>7, ClosedIs DEF Current
<1>9. Carried(todo, who, obj)
  BY <1>7, ListIs DEF Carried
<1> QED
  BY <1>6, <1>8, <1>9 DEF IInv

LEMMA StepKeeps == IInv /\ [Next]_vars => IInv'
<1> SUFFICES ASSUME IInv, [Next]_vars PROVE IInv'
  OBVIOUS
<1>1. CASE \E f \in File : Calls(f)
  BY <1>1, CallsKeep
<1>2. CASE Works
  BY <1>2, FlushKeeps, SyncKeeps, FindKeeps, CreateKeeps, EraseKeeps, ShutKeeps, LookKeeps,
     SeekKeeps, HopKeeps, ArriveKeeps, ReadKeeps, CopyKeeps, RangeKeeps, PutKeeps, TakeKeeps,
     TieKeeps, FillKeeps, TailKeeps, FreeKeeps, EndKeeps, ShrinkKeeps, Zenon DEF Works
<1>3. CASE CacheFails \/ PastCacheFails
  BY <1>3, CacheFailsKeeps, PastCacheFailsKeeps
<1>4. CASE NotInFat \/ Elsewhere
  BY <1>4, GivenUpKeeps
<1>5. CASE PowerLoss
  BY <1>5, PowerLossKeeps
<1>6. CASE NoLongerFollowed
  BY <1>6, StutterKeeps DEF NoLongerFollowed
<1>7. CASE UNCHANGED vars
  BY <1>7, StutterKeeps
<1> QED
  BY <1>1, <1>2, <1>3, <1>4, <1>5, <1>6, <1>7 DEF Next

\* In every reachable state the card lacks of the view no more than the cache
\* holds, the tasks of a call are ones the code can be at, and an object that is
\* not marked agrees with its entry.
THEOREM Invariant == Spec => []IInv
<1> QED
  BY InitHolds, StepKeeps, PTL DEF Spec

-----------------------------------------------------------------------------
(***************************************************************************)
(* The properties                                                          *)
(***************************************************************************)
LEMMA DiffersInCache ==
  ASSUME Coherent(view, card, cache), NEW b \in Blocks, InBlock(view, b) # InBlock(card, b)
  PROVE  Hit(b) /\ cache.dirty
<1>1. cache.dirty
  BY DEF Coherent
<1>2. OnlyIn(view, card, cache.block)
  BY DEF Coherent
<1>3. ASSUME NEW c0 \in Cluster, b = FatBlock(c0) PROVE cache.block = b
  <2> DEFINE S == {c \in Cluster : FatBlock(c) = b}
  <2>1. b[1] = "fat"
    BY <1>3 DEF FatBlock
  <2>2. InBlock(view, b) = [c \in S |-> view.fat[c]] /\ InBlock(card, b) = [c \in S |-> card.fat[c]]
    BY <2>1 DEF InBlock
  <2>3. \E c \in S : view.fat[c] # card.fat[c]
    BY <2>2
  <2> QED
    BY <1>2, <2>3 DEF OnlyIn
<1>4. ASSUME b = DirBlock PROVE cache.block = b
  <2>1. b[1] = "dir"
    BY <1>4 DEF DirBlock
  <2>2. InBlock(view, b) = view.entry /\ InBlock(card, b) = card.entry
    BY <2>1 DEF InBlock
  <2> QED
    BY <1>2, <1>4, <2>2 DEF OnlyIn
<1>5. ASSUME NEW c \in Cluster, NEW k \in 0 .. BlocksPerCluster - 1, b = DataBlock(c, k)
      PROVE  cache.block = b
  <2> DEFINE S == k * BlockSize .. (k + 1) * BlockSize - 1
  <2>1. b[1] = "data"
    BY <1>5 DEF DataBlock
  <2>2. b[2] \div BlocksPerCluster = c /\ b[2] % BlocksPerCluster = k
    BY <1>5, BlocksDiffer DEF Cluster
  <2>3. /\ InBlock(view, b) = [i \in S |-> view.data[c][i]]
        /\ InBlock(card, b) = [i \in S |-> card.data[c][i]]
    BY <2>1, <2>2 DEF InBlock
  <2>4. PICK i \in S : view.data[c][i] # card.data[c][i]
    BY <2>3
  <2>5. i \in 0 .. ClusterSize - 1 /\ i \div BlockSize = k
    BY ByteInBlock
  <2> QED
    BY <1>2, <1>5, <2>4, <2>5 DEF OnlyIn
<1>6. cache.block = b
  BY <1>3, <1>4, <1>5 DEF Blocks
<1> QED
  BY <1>1, <1>6 DEF Hit

\* The cache is the only place where the card lags behind: whatever the program
\* calls, however files share blocks of the FAT and the directory, and whichever
\* transfers fail or power is lost between two of them (SdVolume.cpp:99-124).
THEOREM CacheIsAllThatDiffers == Spec => []OnlyTheCacheDiffers
<1>1. IInv => OnlyTheCacheDiffers
  BY DiffersInCache DEF OnlyTheCacheDiffers, IInv
<1> QED
  BY <1>1, Invariant, PTL

\* An open file whose F_FILE_DIR_DIRTY flag is off has nothing its directory entry
\* does not say, through any interleaving of files, failures and losses of power
\* (SdFile.cpp:33-42, 963-987, 1202-1209).
THEOREM EntryIsCurrent == Spec => []EntryCurrent
<1>1. IInv => EntryCurrent
  BY DEF IInv, Current, EntryCurrent
<1> QED
  BY <1>1, Invariant, PTL
=============================================================================
